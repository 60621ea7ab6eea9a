\* Toasts: room for three and a fourth, and a parent that shrinks by one or to
\* almost nothing.  Threads: two that destroy and one that gets.  Downloads:
\* two that collide and a third.  A service: five polls, two handles left.
\* Versions: up to four characters.
CONSTANTS
    Toasts = {t1, t2, t3, t4}
    Heights = {1, 3, 4}
    Threads = {p1, p2, p3}
    Names = {n1, n2}
    MaxNets = 3
    Loaders = {d1, d2, d3}
    Chunks = 2
    Nobody = Nobody
    Polls = 5
    MaxLeaks = 2
    MaxLen = 4
    Digits = {1, 2}
SPECIFICATION Spec
INVARIANTS
    TypesOK
    StackInOrder
    NoConnectionForgotten
    DoneFileWhole
    ServiceAnswersKept
    VersionsOrdered
PROPERTIES
    CrashesOnlyWhenSmaller
    HandsOutLive
\* A verdict ends the check of two versions; a crash ends the process.
CHECK_DEADLOCK FALSE
