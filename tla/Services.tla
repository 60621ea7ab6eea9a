------------------------------ MODULE Services ------------------------------
(***************************************************************************)
(* The functions for one Windows service (Windows/SharedWinTools.cpp):     *)
(* CreateWindowsService, RunWindowsService, RemoveWindowsService,          *)
(* IsRunningService, IsExistService, StopWindowsService.  They keep no     *)
(* state, but the service they ask about changes under them, and a handle  *)
(* that stays open keeps a removed service in the system's list.           *)
(*                                                                         *)
(* The service control manager and the service are external.  Any call of  *)
(* theirs may fail.  One thread calls the functions.                       *)
(***************************************************************************)
EXTENDS Integers

CONSTANTS Polls,     \* the 5 turns of StopWindowsService
          MaxLeaks   \* bound on the handles that IsExistService leaves

ASSUME ServicesAssumption == Polls \in Nat \ {0} /\ MaxLeaks \in Nat

Ops == {"create", "run", "remove", "running", "exist", "stop"}
States == {"stopped", "starting", "running", "stopping"}

VARIABLES
    svc,      \* the service: "absent" or its state
    marked,   \* DeleteService was called: it goes when nobody has it open
    op,       \* the function that was called last
    line,     \* where it is; "idle" when it has returned
    hSvc,     \* hSvc is open
    status,   \* status.dwCurrentState; "zero" before it was filled in
    nSec,
    told,     \* isSuccess
    leaked,   \* handles of the service that nobody will close
    seen      \* history: what the service was since the call began

servicesVars ==
    <<svc, marked, op, line, hSvc, status, nSec, told, leaked, seen>>

ServicesTypeOK ==
    /\ svc \in States \cup {"absent"}
    /\ marked \in BOOLEAN /\ hSvc \in BOOLEAN /\ told \in BOOLEAN
    /\ op \in Ops
    /\ line \in {"idle", "mgr", "svc", "act", "control", "poll", "close"}
    /\ status \in States \cup {"zero"}
    /\ nSec \in 0 .. Polls
    /\ leaked \in 0 .. MaxLeaks
    /\ seen \subseteq States \cup {"absent"}

ServicesInit ==
    /\ svc \in States \cup {"absent"} /\ marked = FALSE
    /\ op = "exist" /\ line = "idle" /\ hSvc = FALSE
    /\ status = "zero" /\ nSec = 0 /\ told = FALSE
    /\ leaked = 0 /\ seen = {}

----------------------------------------------------------------------------
(* The system: external. *)

\* A service that was removed goes when it has stopped and the last handle of
\* it is closed.
Becomes(state, mark, held) ==
    LET goes == mark /\ state = "stopped" /\ ~ held /\ leaked = 0
    IN  /\ svc' = IF goes THEN "absent" ELSE state
        /\ marked' = (mark /\ ~ goes)
        /\ seen' = seen \cup {svc'}

\* The service goes on by itself, ends, or is started by somebody else.
ServiceChanges ==
    /\ \E s \in States :
         /\ <<svc, s>> \in {<<"stopped", "starting">>, <<"starting", "running">>,
                            <<"starting", "stopped">>, <<"running", "stopping">>,
                            <<"running", "stopped">>, <<"stopping", "stopped">>}
         /\ marked => s # "starting"
         /\ Becomes(s, marked, hSvc)
    /\ UNCHANGED <<op, line, hSvc, status, nSec, told, leaked>>

----------------------------------------------------------------------------
ServiceCall ==
    /\ line = "idle"
    /\ op' \in Ops
    /\ op' = "exist" => leaked < MaxLeaks
    /\ line' = "mgr"
    /\ hSvc' = FALSE /\ status' = "zero" /\ nSec' = 0 /\ told' = FALSE
    /\ seen' = {svc}
    /\ UNCHANGED <<svc, marked, leaked>>

OpenManager ==
    /\ line = "mgr"
    /\ line' \in {"svc", "close"}
    /\ UNCHANGED <<svc, marked, op, hSvc, status, nSec, told, leaked, seen>>

\* CreateServiceW makes a service of a new name, OpenServiceW opens one.
OpenService ==
    /\ line = "svc"
    /\ \/ /\ line' = "close"
          /\ UNCHANGED <<svc, marked, hSvc, told, seen>>
       \/ /\ op = "create" /\ svc = "absent"
          /\ line' = "close" /\ hSvc' = TRUE /\ told' = TRUE
          /\ Becomes("stopped", FALSE, TRUE)
       \/ /\ op # "create" /\ svc # "absent"
          /\ line' = "act" /\ hSvc' = TRUE
          /\ UNCHANGED <<svc, marked, told, seen>>
    /\ UNCHANGED <<op, status, nSec, leaked>>

StartService ==
    /\ line = "act" /\ op = "run" /\ line' = "close"
    /\ \/ UNCHANGED <<svc, marked, told, seen>>
       \/ /\ svc = "stopped" /\ ~ marked
          /\ Becomes("starting", FALSE, TRUE) /\ told' = TRUE
    /\ UNCHANGED <<op, hSvc, status, nSec, leaked>>

DeleteService ==
    /\ line = "act" /\ op = "remove" /\ line' = "close"
    /\ \/ UNCHANGED <<svc, marked, told, seen>>
       \/ ~ marked /\ Becomes(svc, TRUE, TRUE) /\ told' = TRUE
    /\ UNCHANGED <<op, hSvc, status, nSec, leaked>>

\* IsRunningService does not look at the result of the query and compares a
\* status that is not initialized.
QueryRunning ==
    /\ line = "act" /\ op = "running" /\ line' = "close"
    /\ \E s \in States : status' = s /\ told' = (s = "running")
    /\ UNCHANGED <<svc, marked, op, hSvc, nSec, leaked, seen>>

\* The second OpenServiceW overwrites the handle of the first.  When it fails the
\* answer is yes all the same, except for a service that is not there.
OpenAgain ==
    /\ line = "act" /\ op = "exist" /\ line' = "close"
    /\ leaked' = leaked + 1
    /\ hSvc' \in BOOLEAN /\ told' \in BOOLEAN
    /\ hSvc' => told'
    /\ UNCHANGED <<svc, marked, op, status, nSec, seen>>

\* QueryServiceStatus fills the status in, or fails and leaves it.
Query == status' \in {svc, status}

StopQuery ==
    /\ line = "act" /\ op = "stop"
    /\ Query
    /\ told' = (status' = "stopped")
    /\ line' = IF told' THEN "close" ELSE "control"
    /\ UNCHANGED <<svc, marked, op, hSvc, nSec, leaked, seen>>

ControlStop ==
    /\ line = "control"
    /\ \/ /\ svc = "running"
          /\ line' = "poll" /\ status' = "stopping"
          /\ Becomes("stopping", marked, TRUE)
       \/ line' = "close" /\ UNCHANGED <<svc, marked, status, seen>>
    /\ UNCHANGED <<op, hSvc, nSec, told, leaked>>

\* Mutant: a service that is on its way to stop is taken for one that has.
MutStopPending ==
    /\ line = "poll"
    /\ Query
    /\ told' = (status' # "running")
    /\ line' = "close"
    /\ UNCHANGED <<svc, marked, op, hSvc, nSec, leaked, seen>>

PollStop ==
    /\ line = "poll"
    /\ Query
    /\ told' = (status' = "stopped")
    /\ nSec' = nSec + 1
    /\ line' = IF told' \/ nSec' = Polls THEN "close" ELSE "poll"
    /\ UNCHANGED <<svc, marked, op, hSvc, leaked, seen>>

CloseHandles ==
    /\ line = "close" /\ line' = "idle"
    /\ hSvc' = FALSE
    /\ Becomes(svc, marked, FALSE)
    /\ UNCHANGED <<op, status, nSec, told, leaked>>

ServicesNext ==
    \/ ServiceChanges \/ ServiceCall \/ OpenManager \/ OpenService
    \/ StartService \/ DeleteService \/ QueryRunning \/ OpenAgain
    \/ StopQuery \/ ControlStop \/ PollStop \/ CloseHandles

ServicesSpec == ServicesInit /\ [][ServicesNext]_servicesVars

----------------------------------------------------------------------------
(* Properties. *)

\* StopWindowsService says yes only of a service that had stopped during the
\* call, however queries fail and whoever starts it again; and once no function
\* is at work a service that was removed and has stopped is gone, unless
\* IsExistService left a handle open.
ServiceAnswersKept ==
    line = "idle" =>
      /\ op = "stop" /\ told => "stopped" \in seen
      /\ marked /\ svc = "stopped" => leaked > 0
=============================================================================
