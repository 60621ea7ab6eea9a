------------------------------- MODULE Toast --------------------------------
(***************************************************************************)
(* The toast manager and its toasts (QT/SharedQToastNotification.cpp).     *)
(* Everything runs on the thread of the user interface: an action is one   *)
(* call or one event.                                                      *)
(*                                                                         *)
(* The unit of length is the height of a toast with its space, 120.  Only  *)
(* heights are modelled: the parent's, rounded up, and the y of a toast,   *)
(* which is 0 in the upper corner.                                         *)
(***************************************************************************)
EXTENDS Integers, Sequences, SequencesExt

CONSTANTS Toasts,   \* bound: toasts that can exist at once
          Heights   \* heights the parent may have

ASSUME ToastAssumption == Heights \subseteq Nat \ {0}

Positions == {"RIGHT_BOTTOM", "RIGHT_TOP"}

VARIABLES
    stack,     \* _vecNotification, the newest first
    y,         \* per toast the y of _wdgBase
    timer,     \* the toasts whose _progressbarAnimation runs
    hover,     \* the toasts the pointer rests on
    position,  \* _position of the manager
    height,    \* the parent's height now
    shownAt,   \* history: and when a toast was shown last
    mgr        \* the manager: "alive", "destroyed"; "crashed" ends the process

toastVars == <<stack, y, timer, hover, position, height, shownAt, mgr>>

Shown == Range(stack)

ToastTypeOK ==
    /\ stack \in Seq(Toasts)
    /\ y \in [Toasts -> Int]
    /\ timer \subseteq Toasts /\ hover \subseteq Toasts
    /\ position \in Positions
    /\ height \in Heights /\ shownAt \in Heights
    /\ mgr \in {"alive", "destroyed", "crashed"}

ToastInit ==
    /\ stack = <<>>
    /\ y = [t \in Toasts |-> 0]
    /\ timer = {} /\ hover = {}
    /\ position = "RIGHT_TOP"
    /\ height \in Heights /\ shownAt = height
    /\ mgr = "alive"

----------------------------------------------------------------------------
\* Where the corner and the place of the i-th toast behind it are.
Corner(pos) == IF pos = "RIGHT_BOTTOM" THEN height - 1 ELSE 0

Place(i) == IF position = "RIGHT_BOTTOM" THEN Corner(position) - i ELSE i

\* A place that the parent has no room for.
Overflows(i) == IF position = "RIGHT_BOTTOM" THEN Place(i) <= 0
                ELSE Place(i) >= height - 1

\* How many of the toasts there are stay in MoveStack.
Kept == Cardinality({i \in 1 .. Len(stack) : ~ Overflows(i)})

\* MoveStack and insertToast.  The range-for deletes while it walks: it ends well
\* when the last toast alone overflows.  With two or more it removes past the
\* end of the vector, which is undefined: the process ends, or it goes on.
PutInFront(t, pos) ==
    \/ /\ Len(stack) - Kept > 1
       /\ mgr' = "crashed" /\ UNCHANGED <<stack, y, timer, hover, shownAt>>
    \/ /\ stack' = <<t>> \o SubSeq(stack, 1, Kept)
       /\ y' = [u \in Toasts |->
                  IF u = t THEN Corner(pos)
                  ELSE IF \E i \in 1 .. Kept : stack[i] = u
                  THEN Place(CHOOSE i \in 1 .. Kept : stack[i] = u)
                  ELSE y[u]]
       /\ timer' = (timer \cap Range(stack')) \cup {t}
       /\ hover' = hover \cap Range(stack')
       /\ shownAt' = height
       /\ UNCHANGED mgr

\* Mutant: ShowToastMsg does not call MoveStack.
MutShowWithoutMove ==
    /\ mgr = "alive"
    /\ \E t \in Toasts \ Shown :
         \/ PutInFront(t, position)
         \/ /\ stack' = <<t>> \o stack
            /\ y' = [y EXCEPT ![t] = 0]
            /\ timer' = timer \cup {t}
            /\ shownAt' = height
            /\ UNCHANGED <<hover, mgr>>
    /\ UNCHANGED <<position, height>>

\* ShowToastMsgs gives a toast the position of the manager, ShowToastMsg always
\* the upper one.
Show ==
    /\ mgr = "alive"
    /\ \E t \in Toasts \ Shown, pos \in {position, "RIGHT_TOP"} :
         PutInFront(t, pos)
    /\ UNCHANGED <<position, height>>

\* Mutant: the toasts behind it move towards the upper corner in any position.
MutCloseMovesUp(t) ==
    /\ mgr = "alive"
    /\ LET k == CHOOSE i \in 1 .. Len(stack) : stack[i] = t
       IN  /\ stack' = RemoveAt(stack, k)
           /\ y' = [u \in Toasts |->
                      IF \E i \in k + 1 .. Len(stack) : stack[i] = u
                      THEN y[u] - 1 ELSE y[u]]
    /\ hover' = hover \ {t}
    /\ UNCHANGED mgr

\* CloseToast: the toasts behind it move up by one, from where they are.  With a
\* destroyed manager it is undefined: the process ends or the toast stays.
CloseToast(t) ==
    IF mgr = "alive"
    THEN LET k == CHOOSE i \in 1 .. Len(stack) : stack[i] = t
             up == IF position = "RIGHT_BOTTOM" THEN 1 ELSE -1
         IN  /\ stack' = RemoveAt(stack, k)
             /\ y' = [u \in Toasts |->
                        IF \E i \in k + 1 .. Len(stack) : stack[i] = u
                        THEN y[u] + up ELSE y[u]]
             /\ hover' = hover \ {t}
             /\ UNCHANGED mgr
    ELSE mgr' \in {"destroyed", "crashed"} /\ UNCHANGED <<stack, y, hover>>

\* The time of the progress bar is up.
TimeIsUp(t) ==
    /\ mgr # "crashed" /\ t \in timer
    /\ CloseToast(t)
    /\ timer' = timer \ {t}
    /\ UNCHANGED <<position, height, shownAt>>

\* The close button
Click(t) ==
    /\ mgr # "crashed" /\ t \in Shown
    /\ CloseToast(t)
    /\ timer' = IF mgr = "alive" THEN timer \ {t} ELSE timer
    /\ UNCHANGED <<position, height, shownAt>>

\* eventFilter: the pointer stops the time, and leaving starts it anew.
Enter(t) ==
    /\ mgr # "crashed" /\ t \in Shown \ hover
    /\ hover' = hover \cup {t} /\ timer' = timer \ {t}
    /\ UNCHANGED <<stack, y, position, height, shownAt, mgr>>

Leave(t) ==
    /\ mgr # "crashed" /\ t \in hover
    /\ hover' = hover \ {t} /\ timer' = timer \cup {t}
    /\ UNCHANGED <<stack, y, position, height, shownAt, mgr>>

\* SetPosition clears the list.
SetPosition ==
    /\ mgr = "alive"
    /\ position' \in Positions
    /\ stack' = <<>> /\ timer' = {} /\ hover' = {}
    /\ UNCHANGED <<y, height, shownAt, mgr>>

\* The destructor of the manager leaves the toasts where they are.
MgrEnds ==
    /\ mgr = "alive" /\ mgr' = "destroyed"
    /\ UNCHANGED <<stack, y, timer, hover, position, height, shownAt>>

\* The user changes the size of the parent: external.
Resize ==
    /\ mgr # "crashed" /\ height' \in Heights
    /\ UNCHANGED <<stack, y, timer, hover, position, shownAt, mgr>>

ToastNext ==
    \/ Show \/ SetPosition \/ MgrEnds \/ Resize
    \/ \E t \in Toasts : TimeIsUp(t) \/ Click(t) \/ Enter(t) \/ Leave(t)

ToastSpec == ToastInit /\ [][ToastNext]_toastVars

----------------------------------------------------------------------------
(* Properties. *)

\* The toasts stand in the order they were shown, one place apart and none on
\* another, whichever of them were closed by time or click in between and
\* however the parent's size changed.  Only a toast of ShowToastMsg under a
\* manager of the lower corner stands in the upper one until the next comes.
StackInOrder ==
    \A i \in 1 .. Len(stack) - 1 :
      IF position = "RIGHT_TOP"
      THEN y[stack[1]] = 0 /\ y[stack[i + 1]] = y[stack[i]] + 1
      ELSE \/ y[stack[i + 1]] = y[stack[i]] - 1
           \/ i = 1 /\ y[stack[1]] = 0 /\ y[stack[2]] # 0

\* Showing a toast ends the process only when the parent became smaller since
\* the last was shown: otherwise no more than one toast has to go.
CrashesOnlyWhenSmaller ==
    [][mgr = "alive" /\ mgr' = "crashed" => height < shownAt]_toastVars
=============================================================================
