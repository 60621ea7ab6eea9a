-------------------------------- MODULE Text --------------------------------
(***************************************************************************)
(* VersionCheck (Utils/SharedUtils.cpp), which goes through two versions   *)
(* that XString::split (String/SharedXString.cpp) took apart.              *)
(*                                                                         *)
(* A string is a sequence of numbers, compared as the code compares        *)
(* characters; Dot is the separator of a version, the others are digits.   *)
(* split with an empty separator does not end: Separator is not empty.     *)
(***************************************************************************)
EXTENDS Integers, Sequences, SequencesExt

CONSTANTS MaxLen,     \* bound on the strings
          Digits      \* what a version has beside dots

ASSUME TextAssumption == MaxLen \in Nat /\ Digits \subseteq 1 .. 10

Dot == 0
Separator == <<Dot>>

Texts == UNION {[1 .. k -> Digits \cup {Dot}] : k \in 0 .. MaxLen}

VARIABLES
    current, next,  \* the two versions
    idx,            \* the components gone through; -1 before the call
    eVersion        \* the verdict so far

textVars == <<current, next, idx, eVersion>>

Verdicts == {"UNKNOWN", "EQUAL", "LOWER", "HIGHER", "UNMATCH"}

TextTypeOK ==
    /\ current \in Texts /\ next \in Texts
    /\ idx \in -1 .. MaxLen
    /\ eVersion \in Verdicts

\* find: the first place from `from' on where f is found, 0 if there is none.
Find(s, f, from) ==
    LET at == {i \in from .. Len(s) - Len(f) + 1 :
                 SubSeq(s, i, i + Len(f) - 1) = f}
    IN  IF at = {} THEN 0 ELSE Min(at)

\* split goes on behind each separator, and drops what is behind the last.
Split(s, f) ==
    LET p[i \in 1 .. Len(s) + 1] ==
          LET st == Find(s, f, i)
          IN  IF st = 0 THEN <<>>
              ELSE <<SubSeq(s, i, st - 1)>> \o p[st + Len(f)]
    IN  p[1]

\* operator< of XString: as the strings are, not as the numbers they stand for.
Less(a, b) ==
    \E k \in 1 .. Len(b) :
      /\ k <= Len(a) + 1
      /\ \A i \in 1 .. k - 1 : a[i] = b[i]
      /\ k <= Len(a) => a[k] < b[k]

----------------------------------------------------------------------------
TextInit ==
    /\ current \in Texts /\ next \in Texts
    /\ idx = -1 /\ eVersion = "UNKNOWN"

vecCurrent == Split(current, Separator)
vecNext    == Split(next, Separator)

VersionCheck ==
    /\ idx = -1
    /\ idx' = 0
    /\ eVersion' = IF Len(vecCurrent) # Len(vecNext) THEN "UNMATCH"
                   ELSE eVersion
    /\ UNCHANGED <<current, next>>

\* Mutant: the loop goes on after a difference.
MutCompareOn ==
    /\ idx >= 0 /\ eVersion # "UNMATCH"
    /\ idx < Len(vecCurrent)
    /\ idx' = idx + 1
    /\ LET a == vecCurrent[idx + 1]  b == vecNext[idx + 1]
       IN  eVersion' = IF a = b THEN "EQUAL" ELSE IF Less(b, a) THEN "HIGHER"
                       ELSE "LOWER"
    /\ UNCHANGED <<current, next>>

\* The first difference ends the loop.
Compare ==
    /\ idx >= 0 /\ eVersion \in {"UNKNOWN", "EQUAL"}
    /\ idx < Len(vecCurrent)
    /\ idx' = idx + 1
    /\ LET a == vecCurrent[idx + 1]  b == vecNext[idx + 1]
       IN  eVersion' = IF a = b THEN "EQUAL" ELSE IF Less(b, a) THEN "HIGHER"
                       ELSE "LOWER"
    /\ UNCHANGED <<current, next>>

TextNext == VersionCheck \/ Compare

TextSpec == TextInit /\ [][TextNext]_textVars

----------------------------------------------------------------------------
(* Properties. *)

\* The reference: the components of a version are what its dots end; they are
\* compared as numbers.
Dots(s, k) == Cardinality({j \in 1 .. k : s[j] = Dot})

DotAt(s, i) == CHOOSE k \in 1 .. Len(s) : s[k] = Dot /\ Dots(s, k) = i

Component(s, i) ==
    SubSeq(s, IF i = 1 THEN 1 ELSE DotAt(s, i - 1) + 1, DotAt(s, i) - 1)

\* The digit 1 stands for 0, and so on.
Number(s) ==
    LET n[k \in 0 .. Len(s)] ==
          IF k = 0 THEN 0 ELSE 10 * n[k - 1] + s[k] - 1
    IN  n[Len(s)]

Shared == 1 .. Dots(current, Len(current))

SameWidths ==
    /\ Dots(current, Len(current)) = Dots(next, Len(next))
    /\ \A i \in Shared :
         Len(Component(current, i)) = Len(Component(next, i))

Differ ==
    {i \in Shared : Number(Component(current, i)) # Number(Component(next, i))}

Returned ==
    /\ idx >= 0
    /\ eVersion \in {"UNKNOWN", "EQUAL"} => idx = Len(vecCurrent)

\* When the components have the same numbers of digits the verdict is that of
\* the first component that differs as a number; behind the last dot nothing
\* counts, and without a dot there is no verdict.
VersionsOrdered ==
    Returned /\ SameWidths =>
      eVersion = IF Shared = {} THEN "UNKNOWN"
                 ELSE IF Differ = {} THEN "EQUAL"
                 ELSE IF Number(Component(current, Min(Differ)))
                         > Number(Component(next, Min(Differ)))
                 THEN "HIGHER" ELSE "LOWER"
=============================================================================
