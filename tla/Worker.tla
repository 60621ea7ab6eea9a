------------------------------- MODULE Worker -------------------------------
(***************************************************************************)
(* cSWorker (Utils/SharedWorker.cpp), the registry of named work items     *)
(* behind the singleton TyStWorker.  Callers register, run and deregister  *)
(* items; a cyclic item runs in a thread of its own, any other item in the *)
(* call of Run itself: the future of its std::async is destroyed at once,  *)
(* and that waits for the asynchronous call.                               *)
(*                                                                         *)
(* A node is an S_WORK_MGR in _mapWorkItem.  Callers and workers keep      *)
(* references to nodes without the lock, so a node has a generation that   *)
(* tells it from a later node of the same name.  What is read or written   *)
(* through a reference to an erased node is undefined: the process ends,   *)
(* or goes on with any value.  Sleeps take no time.                        *)
(***************************************************************************)
EXTENDS Integers, FiniteSets

CONSTANTS Callers,    \* threads that call the registry
          Names,      \* names of work items
          None,       \* "no node", "no name"
          Repeats,    \* the values of dwRepeatCnt in use
          MaxNodes,   \* bound on the nodes ever made
          MaxWorkers  \* bound on the worker threads ever started

ASSUME NoneAssumption == None \notin Names
ASSUME BoundsAssumption ==
    Repeats \subseteq Nat /\ MaxNodes \in Nat /\ MaxWorkers \in Nat

VARIABLES
    node,     \* _mapWorkItem
    nodes,    \* how many nodes were ever made: the last generation
    call,     \* what each caller is doing
    wk,       \* the worker threads
    crashed,  \* std::terminate or an access violation ended the process
    runs,     \* history: calls of each worker's invoker since its item was
              \* registered, in all and after stop
    lost      \* history: workers whose thread Run assigned to an erased node

vars == <<node, nodes, call, wk, crashed, runs, lost>>

Workers == 1 .. MaxWorkers

\* thr is the worker a joinable thWorker stands for, 0 when it is not joinable.
Node == [gen : 1 .. MaxNodes, cyc : BOOLEAN, rep : Repeats \cup {0},
         invoker : BOOLEAN, stop : BOOLEAN, cnt : Nat, thr : 0 .. MaxWorkers]

ASSUME NoneIsNoNode == None \notin Node

TypeOK ==
    /\ node \in [Names -> Node \cup {None}]
    /\ nodes \in 0 .. MaxNodes
    /\ call \in [Callers -> [pc : {"idle", "get", "test", "assign", "invoke",
                                   "find", "stop", "join", "erase"},
                             name : Names \cup {None},
                             ref : 0 .. MaxNodes, th : 0 .. MaxWorkers]]
    /\ wk \in [Workers -> [pc : {"none", "get", "loop", "invoke", "done"},
                           name : Names \cup {None},
                           ref : 0 .. MaxNodes]]
    /\ crashed \in BOOLEAN
    /\ runs \in [Workers -> [all : Nat, late : Nat]]
    /\ lost \subseteq Workers

Idle == [pc |-> "idle", name |-> None, ref |-> 0, th |-> 0]
NoRuns == [all |-> 0, late |-> 0]

Init ==
    /\ node = [n \in Names |-> None]
    /\ nodes = 0
    /\ call = [k \in Callers |-> Idle]
    /\ wk = [w \in Workers |-> [pc |-> "none", name |-> None, ref |-> 0]]
    /\ crashed = FALSE
    /\ runs = [w \in Workers |-> NoRuns]
    /\ lost = {}

----------------------------------------------------------------------------
Crash == crashed' = TRUE /\ UNCHANGED <<node, nodes, call, wk, runs, lost>>

\* The node of name n is the one the reference g was taken of.
Is(n, g) == node[n] # None /\ node[n].gen = g

\* The worker's reference is to the node of its name.
Good(w) == Is(wk[w].name, wk[w].ref)

\* A worker between its first and its last use of the reference.
Active(w) == wk[w].pc \in {"loop", "invoke"}

\* erase changes the map without the lock: any lookup, locked or not, that
\* overlaps it is a data race and may crash.
ErasedBy(others) == \E j \in others : call[j].pc = "erase"

\* Mutant: the first call is not to be counted.
MutUncountedFirstRun(cyc, rep, invoker) ==
    [gen |-> nodes + 1, cyc |-> cyc, rep |-> rep, invoker |-> invoker,
     stop |-> FALSE, cnt |-> -1, thr |-> 0]

\* A default S_WORK_MGR, as operator[] makes it: no invoker.
NewNode(cyc, rep, invoker) ==
    [gen |-> nodes + 1, cyc |-> cyc, rep |-> rep, invoker |-> invoker,
     stop |-> FALSE, cnt |-> 0, thr |-> 0]

\* getWorkItem: operator[] adds a default item when the name is not there.
GetWorkItem(n) ==
    IF node[n] = None
    THEN /\ nodes < MaxNodes
         /\ nodes' = nodes + 1
         /\ node' = [node EXCEPT ![n] = NewNode(FALSE, 0, FALSE)]
    ELSE UNCHANGED <<node, nodes>>

Goto(k, pc) == call' = [call EXCEPT ![k].pc = pc]
Return(k) == call' = [call EXCEPT ![k] = Idle]

----------------------------------------------------------------------------
(* Callers. *)

\* Register of an accepted item (a name, and a cycle time when cyclic): a new
\* node, or the node of that name assigned over, which ends the process when
\* its thread is joinable, and is a race with a worker that uses the node.
Register(k) ==
    /\ ~crashed
    /\ call[k].pc = "idle"
    /\ \E n \in Names, cyc \in BOOLEAN, rep \in Repeats :
       \/ ErasedBy(Callers \ {k}) /\ Crash
       \/ (\E w \in Workers : Active(w) /\ wk[w].name = n /\ Good(w)) /\ Crash
       \/ node[n] # None /\ node[n].thr # 0 /\ Crash
       \/ /\ node[n] # None => node[n].thr = 0
          /\ IF node[n] = None
             THEN /\ nodes < MaxNodes
                  /\ nodes' = nodes + 1
                  /\ node' = [node EXCEPT ![n] = NewNode(cyc, rep, TRUE)]
             ELSE /\ nodes' = nodes
                  /\ node' = [node EXCEPT ![n] =
                                 [NewNode(cyc, rep, TRUE) EXCEPT
                                     !.gen = node[n].gen]]
          /\ runs' = [w \in Workers |-> IF wk[w].name = n /\ Good(w)
                                        THEN NoRuns ELSE runs[w]]
          /\ UNCHANGED <<call, wk, crashed, lost>>

\* Run and DeRegister test that the name is there before they take its node:
\* another caller may erase it between the two.
Find(k, n, next) ==
    \/ ErasedBy(Callers \ {k}) /\ Crash
    \/ /\ node[n] # None
       /\ call' = [call EXCEPT ![k].pc = next, ![k].name = n]
       /\ UNCHANGED <<node, nodes, wk, crashed, runs, lost>>

\* getWorkItem, under the lock; the reference is used without it.
Take(k, next) ==
    \/ ErasedBy(Callers \ {k}) /\ Crash
    \/ /\ GetWorkItem(call[k].name)
       /\ call' = [call EXCEPT ![k].pc = next,
                               ![k].ref = node'[call[k].name].gen]
       /\ UNCHANGED <<wk, crashed, runs, lost>>

Run(k) ==
    /\ ~crashed
    /\ call[k].pc = "idle"
    /\ \E n \in Names : Find(k, n, "get")

RunGet(k) ==
    /\ ~crashed
    /\ call[k].pc = "get"
    /\ Take(k, "test")

\* A cyclic item starts a worker, which runs before it is the thread of the node.
RunTest(k) ==
    /\ ~crashed
    /\ call[k].pc = "test"
    /\ LET n == call[k].name
           good == Is(n, call[k].ref) IN
       \/ ~good /\ Crash
       \/ /\ good => node[n].cyc
          /\ \E w \in Workers :
                /\ wk[w].pc = "none"
                /\ \A v \in 1 .. w - 1 : wk[v].pc # "none"
                /\ wk' = [wk EXCEPT ![w] = [pc |-> "get", name |-> n,
                                            ref |-> 0]]
                /\ call' = [call EXCEPT ![k].pc = "assign", ![k].th = w]
          /\ UNCHANGED <<node, nodes, crashed, runs, lost>>
       \/ /\ good => ~node[n].cyc
          /\ Goto(k, "invoke")
          /\ UNCHANGED <<node, nodes, wk, crashed, runs, lost>>

\* The assignment to thWorker ends the process when the last thread was not
\* joined.
RunAssign(k) ==
    /\ ~crashed
    /\ call[k].pc = "assign"
    /\ LET n == call[k].name
           good == Is(n, call[k].ref) IN
       \/ (good => node[n].thr # 0) /\ Crash
       \/ /\ good /\ node[n].thr = 0
          /\ node' = [node EXCEPT ![n].thr = call[k].th]
          /\ Return(k)
          /\ UNCHANGED <<nodes, wk, crashed, runs, lost>>
       \/ /\ ~good
          /\ lost' = lost \cup {call[k].th}
          /\ Return(k)
          /\ UNCHANGED <<node, nodes, wk, crashed, runs>>

\* The asynchronous call of an item that is not cyclic: invoke, then DeRegister.
\* A default node has no invoker.
RunInvoke(k) ==
    /\ ~crashed
    /\ call[k].pc = "invoke"
    /\ LET n == call[k].name IN
       \/ /\ \/ ~(Is(n, call[k].ref) /\ node[n].invoker)
             \/ ErasedBy(Callers \ {k})
          /\ Crash
       \/ /\ Is(n, call[k].ref) => node[n].invoker
          /\ IF node[n] = None THEN Return(k) ELSE Goto(k, "find")
          /\ UNCHANGED <<node, nodes, wk, crashed, runs, lost>>

DeRegister(k) ==
    /\ ~crashed
    /\ call[k].pc = "idle"
    /\ \E n \in Names : Find(k, n, "find")

DeRegisterGet(k) ==
    /\ ~crashed
    /\ call[k].pc = "find"
    /\ Take(k, "stop")

DeRegisterStop(k) ==
    /\ ~crashed
    /\ call[k].pc = "stop"
    /\ LET n == call[k].name IN
       \/ /\ Is(n, call[k].ref)
          /\ node' = [node EXCEPT ![n].stop = TRUE]
          /\ Goto(k, IF node[n].cyc THEN "join" ELSE "erase")
          /\ UNCHANGED <<nodes, wk, crashed, runs, lost>>
       \/ ~Is(n, call[k].ref) /\ Crash
       \/ /\ ~Is(n, call[k].ref)
          /\ Goto(k, "join") \/ Goto(k, "erase")
          /\ UNCHANGED <<node, nodes, wk, crashed, runs, lost>>

\* Mutant: DeRegister detaches the thread instead of joining it.
MutDeRegisterDetaches(k) ==
    /\ ~crashed
    /\ call[k].pc = "join"
    /\ Is(call[k].name, call[k].ref)
    /\ node' = [node EXCEPT ![call[k].name].thr = 0]
    /\ Goto(k, "erase")
    /\ UNCHANGED <<nodes, wk, crashed, runs, lost>>

\* join throws a system_error when the thread is not joinable: never run, or
\* joined by another caller.  It ends the process, or DeRegister when the caller
\* (in RunInvoke the future) catches it, and the stopped node stays.
DeRegisterJoin(k) ==
    /\ ~crashed
    /\ call[k].pc = "join"
    /\ LET n == call[k].name
           good == Is(n, call[k].ref) IN
       \/ (good => node[n].thr = 0) /\ Crash
       \/ /\ good => node[n].thr = 0
          /\ Return(k)
          /\ UNCHANGED <<node, nodes, wk, crashed, runs, lost>>
       \/ /\ ~good
          /\ Goto(k, "erase")
          /\ UNCHANGED <<node, nodes, wk, crashed, runs, lost>>
       \/ /\ good /\ node[n].thr # 0
          /\ wk[node[n].thr].pc = "done"
          /\ node' = [node EXCEPT ![n].thr = 0]
          /\ Goto(k, "erase")
          /\ UNCHANGED <<nodes, wk, crashed, runs, lost>>

\* erase by name: it destroys whatever node the name has by now, and a joinable
\* thread in it ends the process.
DeRegisterErase(k) ==
    /\ ~crashed
    /\ call[k].pc = "erase"
    /\ LET n == call[k].name IN
       \/ ErasedBy(Callers \ {k}) /\ Crash
       \/ node[n] # None /\ node[n].thr # 0 /\ Crash
       \/ /\ node[n] # None => node[n].thr = 0
          /\ node' = [node EXCEPT ![n] = None]
          /\ Return(k)
          /\ UNCHANGED <<nodes, wk, crashed, runs, lost>>

Resume(k) == \/ RunGet(k) \/ RunTest(k) \/ RunAssign(k) \/ RunInvoke(k)
             \/ DeRegisterGet(k) \/ DeRegisterStop(k) \/ DeRegisterJoin(k)
             \/ DeRegisterErase(k)

----------------------------------------------------------------------------
(* Worker threads: cSWorker::worker. *)

\* Mutant: DeRegister keeps the lock while it joins.
MutGetWaitsForDeRegister(w) ==
    /\ ~crashed
    /\ wk[w].pc = "get"
    /\ \A k \in Callers : call[k].pc # "join"
    /\ GetWorkItem(wk[w].name)
    /\ wk' = [wk EXCEPT ![w].pc = "loop", ![w].ref = node'[wk[w].name].gen]
    /\ UNCHANGED <<call, crashed, runs, lost>>

WkGet(w) ==
    /\ ~crashed
    /\ wk[w].pc = "get"
    /\ \/ ErasedBy(Callers) /\ Crash
       \/ /\ GetWorkItem(wk[w].name)
          /\ wk' = [wk EXCEPT ![w].pc = "loop",
                              ![w].ref = node'[wk[w].name].gen]
          /\ UNCHANGED <<call, crashed, runs, lost>>

\* Mutant: the loop does not test isStop.
MutLoopIgnoresStop(w) ==
    /\ ~crashed
    /\ wk[w].pc = "loop"
    /\ wk' = [wk EXCEPT ![w].pc = "invoke"]
    /\ UNCHANGED <<node, nodes, call, crashed, runs, lost>>

\* isStop is tested before the sleep, not after it.
WkLoop(w) ==
    /\ ~crashed
    /\ wk[w].pc = "loop"
    /\ \/ ~Good(w) /\ Crash
       \/ /\ \E stop \in BOOLEAN :
                /\ Good(w) => stop = node[wk[w].name].stop
                /\ wk' = [wk EXCEPT ![w].pc = IF stop THEN "done" ELSE "invoke"]
          /\ UNCHANGED <<node, nodes, call, crashed, runs, lost>>

\* Mutant: one call too many.
MutOneRunMore(m, cnt) == ~m.cyc \/ cnt > m.rep

\* The number of calls is compared after each one.
LastRun(m, cnt) == ~m.cyc \/ cnt >= m.rep

WkInvoke(w) ==
    /\ ~crashed
    /\ wk[w].pc = "invoke"
    /\ LET n == wk[w].name
           m == node[n] IN
       \/ (Good(w) => ~m.invoker) /\ Crash
       \/ /\ Good(w) /\ m.invoker
          /\ node' = [node EXCEPT ![n].cnt = @ + 1]
          /\ runs' = [runs EXCEPT ![w].all = @ + 1,
                                  ![w].late = @ + (IF m.stop THEN 1 ELSE 0)]
          /\ wk' = [wk EXCEPT ![w].pc = IF LastRun(m, m.cnt + 1) THEN "done"
                                                                ELSE "loop"]
          /\ UNCHANGED <<nodes, call, crashed, lost>>
       \/ /\ ~Good(w)
          /\ \E pc \in {"done", "loop"} : wk' = [wk EXCEPT ![w].pc = pc]
          /\ UNCHANGED <<node, nodes, call, crashed, runs, lost>>

Work(w) == WkGet(w) \/ WkLoop(w) \/ WkInvoke(w)

----------------------------------------------------------------------------
Next == \/ \E k \in Callers : Register(k) \/ Run(k) \/ DeRegister(k) \/ Resume(k)
        \/ \E w \in Workers : Work(w)

Spec == Init /\ [][Next]_vars

\* A call that was made goes on, and every worker thread keeps running.
Fairness ==
    /\ \A k \in Callers : WF_vars(Resume(k))
    /\ \A w \in Workers : WF_vars(Work(w))

FairSpec == Spec /\ Fairness

----------------------------------------------------------------------------
(* Properties. *)

\* Run holds the thread of w, and has still to assign it to the node.
HeldByRun(k, w) == call[k].pc = "assign" /\ call[k].th = w

\* Another call took the node away between the getWorkItem of Run and its
\* assignment: the thread of w was, or will be, assigned to an erased node.
Overtaken(w) ==
    \/ w \in lost
    \/ \E k \in Callers :
          HeldByRun(k, w) /\ ~Is(call[k].name, call[k].ref)

\* A worker that runs has a good reference, and its thread is the one in that
\* node or still in the hands of the Run that assigns it there, so whoever
\* deregisters the item joins it.  There is one exception, and it takes a second
\* caller: the node was erased under the reference of Run.
ReferenceStaysGood ==
    \A w \in Workers : Active(w) =>
        \/ /\ Good(w)
           /\ \/ node[wk[w].name].thr = w
              \/ \E k \in Callers : HeldByRun(k, w)
        \/ Overtaken(w) /\ \E j, k \in Callers : j # k

\* DeRegister of a running cyclic item lets it run at most once more: isStop is
\* tested once per round.  (A worker whose node is gone is not counted.)
AtMostOneLateRun == \A w \in Workers : runs[w].late <= 1

\* A worker that is not stopped ends after exactly dwRepeatCnt calls of its
\* invoker, when that is not 0, and no worker exceeds that, for an item that was
\* not run a second time while its thread was there.
RunsAsConfigured ==
    \A w \in Workers :
        LET m == node[wk[w].name] IN
        /\ wk[w].pc \notin {"none", "get"} /\ Good(w) /\ m.cyc /\ m.rep > 0
        /\ \A v \in Workers \ {w} : wk[v].ref # wk[w].ref
        => /\ runs[w].all <= m.rep
           /\ wk[w].pc = "done" /\ ~m.stop => runs[w].all = m.rep

\* DeRegister returns: the worker it waits for tests isStop, and nothing that
\* DeRegister holds keeps the worker from reaching that test.
DeRegisterReturns ==
    \A k \in Callers :
        (call[k].pc = "join") ~> (call[k].pc = "idle" \/ crashed)

\* Utils/SharedWorker.h:28 says that a dwRepeatCnt of 0 or less repeats without
\* end: such a worker ends only when it is stopped.
ZeroRepeatsForever ==
    \A w \in Workers :
        LET n == wk[w].name IN
        wk[w].pc = "done" /\ Is(n, wk[w].ref) /\ node[n].rep = 0
            => node[n].stop
=============================================================================
