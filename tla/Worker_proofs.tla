---------------------------- MODULE Worker_proofs ----------------------------
(***************************************************************************)
(* Proofs about Worker, for any number of callers, names, nodes and worker *)
(* threads.  What holds a worker's reference good is that its thread is in *)
(* the node from the assignment in Run until a join: whoever would take    *)
(* the node away before ends the process.  Before the assignment nothing   *)
(* holds it but the absence of another caller.                             *)
(***************************************************************************)
EXTENDS Worker, TLAPS

----------------------------------------------------------------------------
(* The parts of the inductive invariant. *)

NameInv ==
    /\ \A k \in Callers : call[k].pc # "idle" => call[k].name \in Names
    /\ \A w \in Workers : wk[w].pc # "none" => wk[w].name \in Names

\* Generations are given in order, and a reference is to one that was given.
GenInv ==
    /\ \A n \in Names : node[n] # None => node[n].gen <= nodes
    /\ \A k \in Callers : call[k].ref <= nodes
    /\ \A w \in Workers : wk[w].ref <= nodes

\* A thread in a node is a worker of that name, and one that uses a reference
\* uses one to this node.
ThreadInv ==
    \A n \in Names : node[n] # None /\ node[n].thr # 0 =>
      LET w == node[n].thr IN
      /\ wk[w].pc # "none" /\ wk[w].name = n
      /\ Active(w) => wk[w].ref = node[n].gen

\* The same for the thread that Run has still to assign.
HandInv ==
    \A k \in Callers : call[k].pc = "assign" =>
      LET w == call[k].th IN
      /\ w # 0 /\ wk[w].pc # "none" /\ wk[w].name = call[k].name
      /\ Is(call[k].name, call[k].ref) /\ Active(w) => wk[w].ref = call[k].ref

Running(w) == wk[w].pc \in {"get", "loop", "invoke"}

\* A worker that runs is the thread of its node, or in the hands of Run, or was
\* assigned to an erased node.
HeldInv ==
    \A w \in Workers : Running(w) =>
      \/ node[wk[w].name] # None /\ node[wk[w].name].thr = w
      \/ \E k \in Callers : HeldByRun(k, w)
      \/ w \in lost

\* Nobody but another caller takes the node away from Run.
AloneInv ==
    \/ \E j, k \in Callers : j # k
    \/ /\ lost = {}
       /\ \A k \in Callers : call[k].pc \in {"test", "assign"} =>
            Is(call[k].name, call[k].ref)

IInv == /\ TypeOK /\ NameInv /\ GenInv /\ ThreadInv /\ HandInv /\ HeldInv
        /\ AloneInv

\* A late call was the last: isStop is seen at the next test.
LateInv ==
    \A w \in Workers :
      /\ wk[w].pc \in {"none", "get"} => runs[w].late = 0
      /\ wk[w].pc = "invoke" /\ Good(w) => runs[w].late = 0
      /\ wk[w].pc = "loop" /\ Good(w) /\ runs[w].late # 0 =>
           node[wk[w].name].stop
      /\ runs[w].late <= 1

Call == [pc : {"idle", "get", "test", "assign", "invoke", "find", "stop",
               "join", "erase"},
         name : Names \cup {None}, ref : 0 .. MaxNodes, th : 0 .. MaxWorkers]

Thread == [pc : {"none", "get", "loop", "invoke", "done"},
           name : Names \cup {None}, ref : 0 .. MaxNodes]

----------------------------------------------------------------------------
(* What a caller may do to a node. *)

\* A node is made, erased while no thread is in it, or it keeps its generation,
\* and its thread unless that has ended.
Fate(old, new) ==
    /\ new \in Node \cup {None}
    /\ \/ new = None /\ (old = None \/ old.thr = 0)
       \/ new # None /\ old = None /\ new.gen > nodes /\ new.thr = 0
       \/ /\ new # None /\ old # None /\ new.gen = old.gen
          /\ \/ new.thr = old.thr
             \/ new.thr = 0 /\ wk[old.thr].pc = "done"

\* A caller that does not hold a thread goes on, and one node has a fate.
LEMMA CallerKeeps ==
    ASSUME IInv, NEW k \in Callers, NEW n \in Names, NEW new,
           Fate(node[n], new), node' = [node EXCEPT ![n] = new],
           nodes' \in 0 .. MaxNodes, nodes <= nodes',
           new # None => new.gen <= nodes',
           NEW c \in Call, call' = [call EXCEPT ![k] = c],
           call[k].pc # "assign", c.pc # "assign",
           c.pc # "idle" => c.name \in Names, c.ref <= nodes',
           c.pc = "test" => Is(c.name, c.ref)' \/ \E i, j \in Callers : i # j,
           UNCHANGED <<wk, crashed, lost>>,
           runs' \in [Workers -> [all : Nat, late : Nat]]
    PROVE  IInv'
<1>1. /\ node' \in [Names -> Node \cup {None}]
      /\ \A m \in Names : node'[m] = IF m = n THEN new ELSE node[m]
  BY DEF IInv, TypeOK, Fate
<1>2. /\ call' \in [Callers -> Call]
      /\ \A j \in Callers : call'[j] = IF j = k THEN c ELSE call[j]
  BY DEF IInv, TypeOK, Call
<1>3. nodes \in Nat /\ nodes' \in Nat
  BY BoundsAssumption DEF BoundsAssumption, IInv, TypeOK
<1>4. TypeOK'
  BY <1>1, <1>2 DEF IInv, TypeOK, Call
<1>5. NameInv'
  BY <1>2 DEF IInv, NameInv
<1>6. \A m \in Names : node[m] # None => node[m].gen \in Nat
  BY BoundsAssumption DEF IInv, TypeOK, Node, BoundsAssumption
<1>7. /\ \A j \in Callers : call[j].ref \in Nat
      /\ \A w \in Workers : wk[w].ref \in Nat
  BY BoundsAssumption DEF IInv, TypeOK, BoundsAssumption
<1>8. GenInv'
  <2>1. \A m \in Names : node'[m] # None => node'[m].gen <= nodes'
    BY <1>1, <1>3, <1>6 DEF IInv, GenInv
  <2>2. \A j \in Callers : call'[j].ref <= nodes'
    BY <1>2, <1>3, <1>7 DEF IInv, GenInv
  <2>3. \A w \in Workers : wk'[w].ref <= nodes'
    BY <1>3, <1>7 DEF IInv, GenInv
  <2> QED BY <2>1, <2>2, <2>3 DEF GenInv
<1>9. ThreadInv'
  <2> SUFFICES ASSUME NEW m \in Names, node'[m] # None, node'[m].thr # 0
               PROVE  /\ wk[node'[m].thr].pc # "none"
                      /\ wk[node'[m].thr].name = m
                      /\ Active(node'[m].thr) =>
                           wk[node'[m].thr].ref = node'[m].gen
    BY DEF ThreadInv, Active
  <2>1. /\ node[m] # None /\ node'[m].thr = node[m].thr
        /\ node'[m].gen = node[m].gen
    BY <1>1 DEF Fate
  <2> QED BY <2>1 DEF IInv, ThreadInv
<1>10. HandInv'
  <2> SUFFICES ASSUME NEW j \in Callers, call'[j].pc = "assign"
               PROVE  LET w == call'[j].th IN
                      /\ w # 0 /\ wk[w].pc # "none" /\ wk[w].name = call'[j].name
                      /\ Is(call[j].name, call[j].ref)' /\ Active(w) =>
                           wk[w].ref = call'[j].ref
    BY DEF HandInv, Active, Is
  <2>1. j # k /\ call'[j] = call[j]
    BY <1>2
  <2>2. call[j].name \in Names /\ call[j].ref \in Nat /\ call[j].ref <= nodes
    BY <1>7, <2>1 DEF IInv, NameInv, GenInv
  <2> DEFINE m == call[j].name
             g == call[j].ref
  <2>3. Is(call[j].name, call[j].ref)' => Is(m, g)
    <3>1. m \in Names /\ g \in Nat /\ g <= nodes /\ m' = m /\ g' = g
      BY <2>1, <2>2
    <3> QED BY <1>1, <1>3, <3>1 DEF Is, Fate
  <2> QED BY <2>1, <2>3 DEF IInv, HandInv, Is
<1>11. HeldInv'
  <2> SUFFICES ASSUME NEW w \in Workers, Running(w)
               PROVE  \/ node'[wk[w].name] # None /\ node'[wk[w].name].thr = w
                      \/ \E j \in Callers : HeldByRun(j, w)'
                      \/ w \in lost
    BY DEF HeldInv, Running
  <2>1. wk[w].name \in Names
    BY DEF IInv, NameInv, Running
  <2>2. CASE node[wk[w].name] # None /\ node[wk[w].name].thr = w
    BY <1>1, <2>1, <2>2 DEF Fate, Running, Workers
  <2>3. CASE \E j \in Callers : HeldByRun(j, w)
    BY <1>2, <2>3 DEF HeldByRun
  <2> QED BY <2>2, <2>3 DEF IInv, HeldInv
<1>12. AloneInv'
  <2> SUFFICES ASSUME \A i, j \in Callers : i = j PROVE AloneInv'
    BY DEF AloneInv
  <2>1. /\ lost' = {}
        /\ \A j \in Callers : j = k
    BY DEF IInv, AloneInv
  <2>2. call'[k].pc \in {"test", "assign"} => Is(call[k].name, call[k].ref)'
    BY <1>2 DEF Is
  <2> QED BY <2>1, <2>2 DEF AloneInv
<1> QED BY <1>4, <1>5, <1>8, <1>9, <1>10, <1>11, <1>12 DEF IInv

LEMMA CrashKeeps == IInv /\ Crash => IInv'
BY DEF Crash, IInv, TypeOK, NameInv, GenInv, ThreadInv, HandInv, HeldInv,
       AloneInv, Running, Active, Is, HeldByRun

\* The call of one caller goes on and nothing else changes.
LEMMA CallKeeps ==
    ASSUME IInv, NEW k \in Callers, NEW n \in Names,
           NEW c \in Call, call' = [call EXCEPT ![k] = c],
           call[k].pc # "assign", c.pc # "assign",
           c.pc # "idle" => c.name \in Names, c.ref <= nodes,
           c.pc # "test", UNCHANGED <<node, nodes, wk, crashed, lost, runs>>
    PROVE  IInv'
<1>1. /\ node \in [Names -> Node \cup {None}] /\ nodes \in 0 .. MaxNodes
      /\ runs \in [Workers -> [all : Nat, late : Nat]]
  BY DEF IInv, TypeOK
<1>2. Fate(node[n], node[n]) /\ node' = [node EXCEPT ![n] = node[n]]
  BY <1>1 DEF Fate
<1>3. nodes <= nodes' /\ (node[n] # None => node[n].gen <= nodes')
  BY <1>1, BoundsAssumption DEF IInv, GenInv, BoundsAssumption
<1> DEFINE new == node[n]
<1>4. PICK old : old = node[n]
  OBVIOUS
<1> QED BY <1>1, <1>2, <1>3, <1>4, CallerKeeps

LEMMA CallIs ==
    ASSUME IInv, NEW k \in Callers
    PROVE  /\ call \in [Callers -> Call] /\ call[k] \in Call
           /\ call[k].pc # "idle" => call[k].name \in Names
           /\ call[k].ref <= nodes /\ call[k].ref \in Nat
BY BoundsAssumption DEF IInv, TypeOK, Call, NameInv, GenInv, BoundsAssumption

LEMMA NodeIs ==
    ASSUME IInv
    PROVE  /\ node \in [Names -> Node \cup {None}] /\ nodes \in 0 .. MaxNodes
           /\ runs \in [Workers -> [all : Nat, late : Nat]] /\ nodes \in Nat
           /\ \A n \in Names : node[n] # None =>
                node[n].gen \in Nat /\ node[n].gen <= nodes
BY BoundsAssumption DEF IInv, TypeOK, GenInv, Node, BoundsAssumption

LEMMA IdleIs == Idle \in Call /\ Idle.pc = "idle" /\ Idle.ref = 0
BY BoundsAssumption DEF Idle, Call, BoundsAssumption

LEMMA ReturnKeeps ==
    ASSUME IInv, NEW k \in Callers, NEW n \in Names, call[k].pc # "assign",
           Return(k), UNCHANGED <<node, nodes, wk, crashed, lost, runs>>
    PROVE  IInv'
<1>1. 0 <= nodes
  BY NodeIs
<1> QED BY <1>1, IdleIs, CallKeeps DEF Return

LEMMA GotoKeeps ==
    ASSUME IInv, NEW k \in Callers, call[k].pc \notin {"idle", "assign"},
           NEW pc \in {"get", "invoke", "find", "stop", "join", "erase"},
           Goto(k, pc), UNCHANGED <<node, nodes, wk, crashed, lost, runs>>
    PROVE  IInv'
<1> DEFINE c == [call[k] EXCEPT !.pc = pc]
<1>1. c \in Call /\ c.pc = pc /\ c.name \in Names /\ c.ref <= nodes
  BY CallIs DEF Call
<1>2. call' = [call EXCEPT ![k] = c] /\ call[k].name \in Names
  BY CallIs DEF Goto
<1> HIDE DEF c
<1> QED BY <1>1, <1>2, CallKeeps

LEMMA NewNodeIs ==
    ASSUME nodes \in 0 .. MaxNodes, nodes < MaxNodes, NEW cyc \in BOOLEAN,
           NEW rep \in Repeats \cup {0}, NEW invoker \in BOOLEAN
    PROVE  /\ NewNode(cyc, rep, invoker) \in Node
           /\ NewNode(cyc, rep, invoker).thr = 0
           /\ NewNode(cyc, rep, invoker).cnt = 0
           /\ NewNode(cyc, rep, invoker).gen = nodes + 1
           /\ nodes + 1 \in 0 .. MaxNodes
BY BoundsAssumption DEF BoundsAssumption, NewNode, Node

----------------------------------------------------------------------------
(* Each action keeps the invariant. *)

\* Register over a node keeps its generation.
LEMMA ResetNodeIs ==
    ASSUME IInv, NEW n \in Names, node[n] # None,
           NEW cyc \in BOOLEAN, NEW rep \in Repeats
    PROVE  LET new == [NewNode(cyc, rep, TRUE) EXCEPT !.gen = node[n].gen] IN
           /\ new \in Node /\ new.thr = 0 /\ new.cnt = 0
           /\ new.gen = node[n].gen
<1>1. node[n] \in Node
  BY NodeIs
<1>2. /\ nodes + 1 \in Nat /\ 0 \in 0 .. MaxWorkers
      /\ node[n].gen \in 1 .. MaxNodes
  BY <1>1, NodeIs, BoundsAssumption DEF BoundsAssumption, Node
<1> DEFINE d == NewNode(cyc, rep, TRUE)
<1>3. /\ d \in [gen : Nat, cyc : BOOLEAN, rep : Repeats \cup {0},
                invoker : BOOLEAN, stop : BOOLEAN, cnt : Nat,
                thr : 0 .. MaxWorkers]
      /\ d.thr = 0 /\ d.cnt = 0
  BY <1>2 DEF NewNode
<1> HIDE DEF d
<1>4. LET new == [d EXCEPT !.gen = node[n].gen] IN
      /\ new \in Node /\ new.thr = 0 /\ new.cnt = 0 /\ new.gen = node[n].gen
  BY <1>2, <1>3 DEF Node
<1> QED BY <1>4 DEF d

\* What Register does when it does not crash.
RegisterStep(n, cyc, rep) ==
    /\ node[n] # None => node[n].thr = 0
    /\ IF node[n] = None
       THEN /\ nodes < MaxNodes
            /\ nodes' = nodes + 1
            /\ node' = [node EXCEPT ![n] = NewNode(cyc, rep, TRUE)]
       ELSE /\ nodes' = nodes
            /\ node' = [node EXCEPT ![n] =
                           [NewNode(cyc, rep, TRUE) EXCEPT !.gen = node[n].gen]]
    /\ runs' = [w \in Workers |-> IF wk[w].name = n /\ Good(w)
                                  THEN NoRuns ELSE runs[w]]
    /\ UNCHANGED <<call, wk, crashed, lost>>

\* Either way the name gets a node without a thread and without calls.
LEMMA RegisterMakes ==
    ASSUME IInv, NEW n \in Names, NEW cyc \in BOOLEAN, NEW rep \in Repeats,
           RegisterStep(n, cyc, rep)
    PROVE  \E new :
             /\ new \in Node /\ new # None /\ new.thr = 0 /\ new.cnt = 0
             /\ Fate(node[n], new) /\ node' = [node EXCEPT ![n] = new]
             /\ nodes' \in 0 .. MaxNodes /\ nodes <= nodes'
             /\ new.gen <= nodes'
<1>1. CASE node[n] = None
  <2> DEFINE new == NewNode(cyc, rep, TRUE)
  <2>1. /\ new \in Node /\ new.thr = 0 /\ new.gen = nodes + 1 /\ new.cnt = 0
        /\ nodes + 1 \in 0 .. MaxNodes
    <3>1. nodes < MaxNodes /\ rep \in Repeats \cup {0} /\ TRUE \in BOOLEAN
      BY <1>1 DEF RegisterStep
    <3>2. nodes \in 0 .. MaxNodes
      BY NodeIs
    <3> QED BY <3>1, <3>2, NewNodeIs
  <2>2. node' = [node EXCEPT ![n] = new] /\ nodes' = nodes + 1
    BY <1>1 DEF RegisterStep
  <2> HIDE DEF new
  <2>3. new # None /\ new.gen > nodes
    BY <2>1, NodeIs, NoneIsNoNode DEF NoneIsNoNode
  <2>4. Fate(node[n], new)
    BY <1>1, <2>1, <2>3 DEF Fate
  <2>5. nodes' \in 0 .. MaxNodes /\ nodes <= nodes' /\ new.gen <= nodes'
    BY <2>1, <2>2, NodeIs
  <2> QED BY <2>1, <2>2, <2>3, <2>4, <2>5
<1>2. CASE node[n] # None
  <2> DEFINE new == [NewNode(cyc, rep, TRUE) EXCEPT !.gen = node[n].gen]
  <2>1. new \in Node /\ new.thr = 0 /\ new.gen = node[n].gen /\ new.cnt = 0
    BY <1>2, ResetNodeIs
  <2>2. node' = [node EXCEPT ![n] = new] /\ nodes' = nodes
    BY <1>2 DEF RegisterStep
  <2> HIDE DEF new
  <2>3. new # None /\ node[n].thr = 0
    BY <1>2, <2>1, NoneIsNoNode DEF NoneIsNoNode, RegisterStep
  <2>4. Fate(node[n], new)
    BY <1>2, <2>1, <2>3 DEF Fate
  <2>5. nodes' \in 0 .. MaxNodes /\ nodes <= nodes' /\ new.gen <= nodes'
    BY <1>2, <2>1, <2>2, NodeIs
  <2> QED BY <2>1, <2>2, <2>3, <2>4, <2>5
<1> QED BY <1>1, <1>2

LEMMA RegisterCase ==
    ASSUME NEW k \in Callers, Register(k)
    PROVE  \/ Crash
           \/ \E n \in Names, cyc \in BOOLEAN, rep \in Repeats :
                RegisterStep(n, cyc, rep)
BY DEF Register, RegisterStep

LEMMA RegisterKeeps == ASSUME IInv, NEW k \in Callers, Register(k) PROVE IInv'
<1>1. CASE Crash
  BY <1>1, CrashKeeps
<1>2. ASSUME NEW n \in Names, NEW cyc \in BOOLEAN, NEW rep \in Repeats,
             RegisterStep(n, cyc, rep)
      PROVE  IInv'
  <2>1. PICK new :
          /\ new \in Node /\ new # None /\ new.thr = 0 /\ new.cnt = 0
          /\ Fate(node[n], new) /\ node' = [node EXCEPT ![n] = new]
          /\ nodes' \in 0 .. MaxNodes /\ nodes <= nodes'
          /\ new.gen <= nodes'
    BY <1>2, RegisterMakes
  <2>2. call' = [call EXCEPT ![k] = call[k]] /\ call[k] \in Call
    BY <1>2, CallIs DEF RegisterStep
  <2>3. PICK c : c = call[k]
    OBVIOUS
  <2>4. call[k].pc = "idle"
    BY DEF Register
  <2>5. runs' \in [Workers -> [all : Nat, late : Nat]]
    BY <1>2, NodeIs DEF RegisterStep, NoRuns
  <2>6. UNCHANGED <<wk, crashed, lost>>
    BY <1>2 DEF RegisterStep
  <2>7. nodes' \in Nat
    BY <2>1, BoundsAssumption DEF BoundsAssumption
  <2>8. c.ref <= nodes'
    BY <2>1, <2>3, <2>7, CallIs, NodeIs
  <2> QED BY <2>1, <2>2, <2>3, <2>4, <2>5, <2>6, <2>8, CallerKeeps
<1> QED BY <1>1, <1>2, RegisterCase

LEMMA FindKeeps ==
    ASSUME IInv, NEW k \in Callers, NEW n \in Names, call[k].pc = "idle",
           NEW next \in {"get", "find"}, Find(k, n, next)
    PROVE  IInv'
<1>1. CASE Crash
  BY <1>1, CrashKeeps
<1>2. CASE ~Crash
  <2> DEFINE c == [call[k] EXCEPT !.pc = next, !.name = n]
  <2>1. c \in Call /\ c.pc = next /\ c.name = n /\ c.ref <= nodes
    BY CallIs DEF Call
  <2>2. /\ call' = [call EXCEPT ![k] = c]
        /\ UNCHANGED <<node, nodes, wk, crashed, lost, runs>>
    BY <1>2, CallIs DEF Find
  <2> HIDE DEF c
  <2> QED BY <2>1, <2>2, CallKeeps
<1> QED BY <1>1, <1>2

\* The node getWorkItem gives, new or not.
LEMMA GetWorkItemIs ==
    ASSUME IInv, NEW n \in Names, GetWorkItem(n)
    PROVE  \E new :
             /\ new \in Node /\ new # None /\ Fate(node[n], new)
             /\ node' = [node EXCEPT ![n] = new] /\ node'[n] = new
             /\ nodes' \in 0 .. MaxNodes /\ nodes <= nodes'
             /\ new.gen <= nodes' /\ new.gen \in 0 .. MaxNodes
             /\ \/ node[n] # None /\ new = node[n] /\ nodes' = nodes
                \/ /\ node[n] = None /\ new.gen = nodes + 1 /\ new.thr = 0
                   /\ new.cnt = 0
<1>1. CASE node[n] = None
  <2> DEFINE new == NewNode(FALSE, 0, FALSE)
  <2>1. /\ nodes < MaxNodes /\ nodes' = nodes + 1
        /\ node' = [node EXCEPT ![n] = new]
    BY <1>1 DEF GetWorkItem
  <2>2. /\ new \in Node /\ new.thr = 0 /\ new.gen = nodes + 1 /\ new.cnt = 0
        /\ nodes + 1 \in 0 .. MaxNodes
    BY <2>1, NodeIs, NewNodeIs
  <2> HIDE DEF new
  <2>3. new # None /\ new.gen > nodes
    BY <2>2, NodeIs, NoneIsNoNode DEF NoneIsNoNode
  <2>4. Fate(node[n], new) /\ node'[n] = new
    BY <1>1, <2>1, <2>2, <2>3, NodeIs DEF Fate
  <2>5. /\ nodes' \in 0 .. MaxNodes /\ nodes <= nodes' /\ new.gen <= nodes'
        /\ new.gen \in 0 .. MaxNodes
    BY <2>1, <2>2, NodeIs
  <2> QED BY <1>1, <2>1, <2>2, <2>3, <2>4, <2>5
<1>2. CASE node[n] # None
  <2>1. node' = node /\ nodes' = nodes
    BY <1>2 DEF GetWorkItem
  <2>2. node[n] \in Node /\ node[n].gen \in 0 .. MaxNodes
    BY <1>2, NodeIs, BoundsAssumption DEF Node, BoundsAssumption
  <2>3. Fate(node[n], node[n]) /\ node' = [node EXCEPT ![n] = node[n]]
    BY <1>2, <2>1, <2>2, NodeIs DEF Fate
  <2> QED BY <1>2, <2>1, <2>2, <2>3, NodeIs
<1> QED BY <1>1, <1>2

LEMMA TakeKeeps ==
    ASSUME IInv, NEW k \in Callers, call[k].pc \notin {"idle", "assign"},
           NEW next \in {"test", "stop"}, Take(k, next)
    PROVE  IInv'
<1>1. CASE Crash
  BY <1>1, CrashKeeps
<1>2. CASE ~Crash
  <2> DEFINE n == call[k].name
  <2>1. n \in Names
    BY CallIs
  <2>2. /\ GetWorkItem(n) /\ UNCHANGED <<wk, crashed, lost, runs>>
        /\ call' = [call EXCEPT ![k].pc = next, ![k].ref = node'[n].gen]
    BY <1>2 DEF Take
  <2> HIDE DEF n
  <2>3. PICK new :
             /\ new \in Node /\ new # None /\ Fate(node[n], new)
             /\ node' = [node EXCEPT ![n] = new] /\ node'[n] = new
             /\ nodes' \in 0 .. MaxNodes /\ nodes <= nodes'
             /\ new.gen <= nodes' /\ new.gen \in 0 .. MaxNodes
    BY <2>1, <2>2, GetWorkItemIs
  <2> DEFINE c == [call[k] EXCEPT !.pc = next, !.ref = new.gen]
  <2>4. call' = [call EXCEPT ![k] = c]
    <3>1. PICK g : g = new.gen
      OBVIOUS
    <3>2. call' = [call EXCEPT ![k].pc = next, ![k].ref = g]
      BY <2>2, <2>3, <3>1
    <3> QED BY <3>1, <3>2, CallIs
  <2>5. c \in Call /\ c.pc = next /\ c.name = n /\ c.ref = new.gen
    <3>1. call[k] \in Call /\ call[k].name = n
      BY CallIs DEF n
    <3> QED BY <2>3, <3>1 DEF Call
  <2> HIDE DEF c
  <2>6. PICK d : d = c
    OBVIOUS
  <2>7. Is(d.name, d.ref)'
    BY <2>3, <2>5, <2>6 DEF Is
  <2>8. runs' \in [Workers -> [all : Nat, late : Nat]]
    BY <2>2, NodeIs
  <2> QED BY <2>1, <2>2, <2>3, <2>4, <2>5, <2>6, <2>7, <2>8, CallerKeeps
<1> QED BY <1>1, <1>2

LEMMA RunTestKeeps == ASSUME IInv, NEW k \in Callers, RunTest(k) PROVE IInv'
<1> DEFINE n == call[k].name
<1>1. call[k].pc = "test" /\ n \in Names /\ call[k].ref \in 0 .. MaxNodes
  BY CallIs DEF RunTest, Call
<1>2. CASE Crash
  BY <1>2, CrashKeeps
<1>3. ASSUME NEW w \in Workers, wk[w].pc = "none",
             wk' = [wk EXCEPT ![w] = [pc |-> "get", name |-> n, ref |-> 0]],
             call' = [call EXCEPT ![k].pc = "assign", ![k].th = w],
             UNCHANGED <<node, nodes, crashed, runs, lost>>
      PROVE  IInv'
  <2> DEFINE c == [call[k] EXCEPT !.pc = "assign", !.th = w]
             t == [pc |-> "get", name |-> n, ref |-> 0]
  <2>1. /\ c \in Call /\ c.pc = "assign" /\ c.name = n /\ c.ref = call[k].ref
        /\ c.th = w /\ c.ref <= nodes
    <3>1. call[k] \in Call /\ call[k].ref <= nodes /\ w \in 0 .. MaxWorkers
      BY CallIs DEF Workers
    <3> QED BY <3>1 DEF Call
  <2>2. call' = [call EXCEPT ![k] = c]
    BY <1>3, CallIs
  <2>3. /\ t \in Thread /\ t.pc = "get" /\ t.name = n /\ t.ref = 0
    BY <1>1, BoundsAssumption DEF Thread, BoundsAssumption
  <2>4. wk' = [wk EXCEPT ![w] = t] /\ wk \in [Workers -> Thread]
    BY <1>3 DEF IInv, TypeOK, Thread
  <2> HIDE DEF c, t, n
  <2>5. /\ call' \in [Callers -> Call]
        /\ \A j \in Callers : call'[j] = IF j = k THEN c ELSE call[j]
    BY <2>1, <2>2, CallIs
  <2>6. /\ wk' \in [Workers -> Thread]
        /\ \A v \in Workers : wk'[v] = IF v = w THEN t ELSE wk[v]
    BY <2>3, <2>4
  <2>7. TypeOK'
    BY <1>3, <2>5, <2>6 DEF IInv, TypeOK, Call, Thread
  <2>8. NameInv'
    BY <1>1, <2>1, <2>3, <2>5, <2>6 DEF IInv, NameInv
  <2>9. GenInv'
    BY <1>3, <2>1, <2>3, <2>5, <2>6, NodeIs DEF IInv, GenInv
  <2>10. ThreadInv'
    <3> SUFFICES ASSUME NEW m \in Names, node[m] # None, node[m].thr # 0
                 PROVE  /\ wk'[node[m].thr].pc # "none"
                        /\ wk'[node[m].thr].name = m
                        /\ Active(node[m].thr)' =>
                             wk'[node[m].thr].ref = node[m].gen
      BY <1>3 DEF ThreadInv, Active
    <3>1. node[m].thr \in Workers
      BY NodeIs, BoundsAssumption DEF Node, Workers, BoundsAssumption
    <3>2. node[m].thr # w
      BY <1>3 DEF IInv, ThreadInv
    <3>3. wk'[node[m].thr] = wk[node[m].thr] /\ node' = node
      BY <1>3, <2>6, <3>1, <3>2
    <3> QED BY <3>3 DEF IInv, ThreadInv, Active
  <2>11. HandInv'
    <3> SUFFICES ASSUME NEW j \in Callers, call'[j].pc = "assign"
                 PROVE  LET v == call'[j].th IN
                        /\ v # 0 /\ wk'[v].pc # "none"
                        /\ wk'[v].name = call'[j].name
                        /\ /\ Is(call[j].name, call[j].ref)'
                           /\ wk'[v].pc \in {"loop", "invoke"}
                           => wk'[v].ref = call'[j].ref
      BY DEF HandInv, Active, Is
    <3>1. CASE j = k
      BY <2>1, <2>3, <2>5, <2>6, <3>1 DEF Workers
    <3>2. CASE j # k
      <4>1. call'[j] = call[j] /\ call[j].th \in Workers /\ call[j].th # w
        <5>1. call'[j] = call[j] /\ call[j] \in Call
          BY <2>5, <3>2, CallIs
        <5>2. call[j].th # 0 /\ call[j].th # w
          BY <1>3, <5>1 DEF IInv, HandInv
        <5> QED BY <5>1, <5>2, BoundsAssumption
                DEF Call, Workers, BoundsAssumption
      <4> QED BY <1>3, <2>6, <4>1 DEF IInv, HandInv, Active, Is
    <3> QED BY <3>1, <3>2
  <2>12. HeldInv'
    <3> SUFFICES ASSUME NEW v \in Workers, Running(v)'
                 PROVE  \/ node[wk'[v].name] # None /\ node[wk'[v].name].thr = v
                        \/ \E j \in Callers : HeldByRun(j, v)'
                        \/ v \in lost
      BY <1>3 DEF HeldInv
    <3>1. CASE v = w
      BY <2>1, <2>5, <3>1 DEF HeldByRun
    <3>2. CASE v # w
      <4>1. wk'[v] = wk[v] /\ Running(v)
        BY <2>6, <3>2 DEF Running
      <4>2. \A j \in Callers : HeldByRun(j, v) => HeldByRun(j, v)'
        BY <1>1, <2>5 DEF HeldByRun
      <4> QED BY <4>1, <4>2 DEF IInv, HeldInv
    <3> QED BY <3>1, <3>2
  <2>13. AloneInv'
    BY <1>1, <1>3, <2>1, <2>5 DEF IInv, AloneInv, Is, n
  <2> QED BY <2>7, <2>8, <2>9, <2>10, <2>11, <2>12, <2>13 DEF IInv
<1>4. ASSUME Goto(k, "invoke"), UNCHANGED <<node, nodes, wk, crashed, runs, lost>>
      PROVE  IInv'
  BY <1>1, <1>4, GotoKeeps
<1> QED BY <1>2, <1>3, <1>4 DEF RunTest

LEMMA RunAssignKeeps ==
    ASSUME IInv, NEW k \in Callers, RunAssign(k)
    PROVE  IInv'
<1> DEFINE n == call[k].name
           w == call[k].th
<1>1. /\ call[k].pc = "assign" /\ n \in Names /\ w \in Workers
      /\ wk[w].pc # "none" /\ wk[w].name = n
      /\ Is(n, call[k].ref) /\ Active(w) => wk[w].ref = call[k].ref
  <2>1. call[k].pc = "assign"
    BY DEF RunAssign
  <2>2. /\ w # 0 /\ wk[w].pc # "none" /\ wk[w].name = n
        /\ Is(n, call[k].ref) /\ Active(w) => wk[w].ref = call[k].ref
    BY <2>1 DEF IInv, HandInv
  <2>3. w \in Workers
    BY <2>2, CallIs, BoundsAssumption DEF Call, Workers, BoundsAssumption
  <2> QED BY <2>1, <2>2, <2>3, CallIs
<1>2. CASE Crash
  BY <1>2, CrashKeeps
<1>3. ASSUME Return(k), UNCHANGED <<nodes, wk, crashed, runs>>,
             \/ /\ Is(n, call[k].ref) /\ node[n].thr = 0 /\ lost' = lost
                /\ node' = [node EXCEPT ![n].thr = w]
             \/ /\ ~Is(n, call[k].ref) /\ node' = node
                /\ lost' = lost \cup {w}
      PROVE  IInv'
  <2>1. /\ call' \in [Callers -> Call]
        /\ \A j \in Callers : call'[j] = IF j = k THEN Idle ELSE call[j]
    BY <1>3, CallIs, IdleIs DEF Return
  <2>2. /\ node' \in [Names -> Node \cup {None}]
        /\ (node'[n] # None /\ node'[n].thr = w) \/ w \in lost'
        /\ \A m \in Names : \/ node'[m] = node[m]
                           \/ /\ m = n /\ node'[m] # None /\ node[m] # None
                              /\ node[m].thr = 0 /\ node'[m].thr = w
                              /\ node'[m].gen = node[m].gen
                              /\ Is(n, call[k].ref)
    <3>1. CASE node' = node /\ lost' = lost \cup {w}
      BY <3>1, NodeIs
    <3>2. CASE /\ Is(n, call[k].ref) /\ node[n].thr = 0
               /\ node' = [node EXCEPT ![n].thr = w]
      <4> DEFINE new == [node[n] EXCEPT !.thr = w]
      <4>1. node[n] \in Node /\ w \in 0 .. MaxWorkers
        BY <1>1, <3>2, NodeIs DEF Is, Workers
      <4>2. new \in Node /\ new.thr = w /\ new.gen = node[n].gen /\ new # None
        BY <4>1, NoneIsNoNode DEF Node, NoneIsNoNode
      <4>3. node' = [node EXCEPT ![n] = new]
        BY <3>2
      <4> HIDE DEF new
      <4> QED BY <1>1, <3>2, <4>2, <4>3, NodeIs DEF Is
    <3> QED BY <1>3, <3>1, <3>2
  <2>3. lost' \subseteq Workers /\ lost \subseteq lost'
    BY <1>1, <1>3 DEF IInv, TypeOK
  <2> HIDE DEF n, w
  <2>4. TypeOK'
    BY <1>3, <2>1, <2>2, <2>3 DEF IInv, TypeOK, Call
  <2>5. NameInv'
    BY <1>3, <2>1, IdleIs DEF IInv, NameInv
  <2>6. GenInv'
    BY <1>3, <2>1, <2>2, IdleIs, NodeIs DEF IInv, GenInv
  <2>7. ThreadInv'
    <3> SUFFICES ASSUME NEW m \in Names, node'[m] # None, node'[m].thr # 0
                 PROVE  /\ wk[node'[m].thr].pc # "none"
                        /\ wk[node'[m].thr].name = m
                        /\ wk[node'[m].thr].pc \in {"loop", "invoke"} =>
                             wk[node'[m].thr].ref = node'[m].gen
      BY <1>3 DEF ThreadInv, Active
    <3>1. CASE node'[m] = node[m]
      BY <3>1 DEF IInv, ThreadInv, Active
    <3>2. CASE node'[m] # node[m]
      BY <1>1, <2>2, <3>2 DEF Active, Is
    <3> QED BY <3>1, <3>2
  <2>8. HandInv'
    <3> SUFFICES ASSUME NEW j \in Callers, call'[j].pc = "assign"
                 PROVE  LET v == call'[j].th IN
                        /\ v # 0 /\ wk[v].pc # "none"
                        /\ wk[v].name = call'[j].name
                        /\ /\ Is(call[j].name, call[j].ref)'
                           /\ wk[v].pc \in {"loop", "invoke"}
                           => wk[v].ref = call'[j].ref
      BY <1>3 DEF HandInv, Active, Is
    <3>1. call'[j] = call[j] /\ call[j].name \in Names
      BY <2>1, IdleIs, CallIs
    <3>2. Is(call[j].name, call[j].ref)' => Is(call[j].name, call[j].ref)
      BY <2>2, <3>1 DEF Is
    <3> QED BY <3>1, <3>2 DEF IInv, HandInv, Active
  <2>9. HeldInv'
    <3> SUFFICES ASSUME NEW v \in Workers, Running(v)
                 PROVE  \/ /\ node'[wk[v].name] # None
                           /\ node'[wk[v].name].thr = v
                        \/ \E j \in Callers : HeldByRun(j, v)'
                        \/ v \in lost'
      BY <1>3 DEF HeldInv, Running
    <3>1. wk[v].name \in Names /\ v # 0
      BY DEF IInv, NameInv, Running, Workers
    <3>2. CASE node[wk[v].name] # None /\ node[wk[v].name].thr = v
      BY <2>2, <3>1, <3>2
    <3>3. CASE v = w
      BY <1>1, <2>2, <3>3
    <3>4. ASSUME NEW j \in Callers, HeldByRun(j, v), v # w
          PROVE  HeldByRun(j, v)'
      BY <2>1, <3>4 DEF HeldByRun, w
    <3> QED BY <2>3, <3>2, <3>3, <3>4 DEF IInv, HeldInv
  <2>10. AloneInv'
    <3> SUFFICES ASSUME \A i, j \in Callers : i = j PROVE AloneInv'
      BY DEF AloneInv
    <3>1. lost' = {}
      BY <1>1, <1>3 DEF IInv, AloneInv, n
    <3>2. \A j \in Callers : call'[j].pc = "idle"
      BY <2>1, IdleIs
    <3> QED BY <3>1, <3>2 DEF AloneInv
  <2> QED BY <2>4, <2>5, <2>6, <2>7, <2>8, <2>9, <2>10 DEF IInv
<1> QED BY <1>2, <1>3 DEF RunAssign

LEMMA RunInvokeKeeps ==
    ASSUME IInv, NEW k \in Callers, RunInvoke(k)
    PROVE  IInv'
<1>1. call[k].pc = "invoke" /\ call[k].name \in Names
  BY CallIs DEF RunInvoke
<1> QED BY <1>1, CrashKeeps, ReturnKeeps, GotoKeeps DEF RunInvoke

LEMMA DeRegisterStopKeeps ==
    ASSUME IInv, NEW k \in Callers, DeRegisterStop(k)
    PROVE  IInv'
<1> DEFINE n == call[k].name
<1>1. call[k].pc = "stop" /\ n \in Names /\ call[k] \in Call
      /\ call[k].ref <= nodes
  BY CallIs DEF DeRegisterStop
<1>2. CASE Crash
  BY <1>2, CrashKeeps
<1>3. ASSUME Is(n, call[k].ref), node' = [node EXCEPT ![n].stop = TRUE],
             NEW pc \in {"join", "erase"}, Goto(k, pc),
             UNCHANGED <<nodes, wk, crashed, runs, lost>>
      PROVE  IInv'
  <2> DEFINE new == [node[n] EXCEPT !.stop = TRUE]
             c == [call[k] EXCEPT !.pc = pc]
  <2>1. node[n] \in Node
    BY <1>1, <1>3, NodeIs DEF Is
  <2>2. new \in Node /\ new.thr = node[n].thr /\ new.gen = node[n].gen
    BY <2>1 DEF Node
  <2>3. node' = [node EXCEPT ![n] = new]
    BY <1>3
  <2>4. c \in Call /\ c.pc = pc /\ c.name = n /\ c.ref <= nodes
    BY <1>1 DEF Call
  <2>5. call' = [call EXCEPT ![k] = c]
    BY <1>3, CallIs DEF Goto
  <2> HIDE DEF new, c
  <2>6. Fate(node[n], new) /\ new.gen <= nodes /\ new # None
    BY <1>1, <1>3, <2>2, NodeIs, NoneIsNoNode DEF Fate, Is, NoneIsNoNode
  <2>7. nodes' \in 0 .. MaxNodes /\ nodes <= nodes' /\ new.gen <= nodes'
        /\ c.ref <= nodes' /\ runs' \in [Workers -> [all : Nat, late : Nat]]
    BY <1>3, <2>4, <2>6, NodeIs
  <2> HIDE DEF n
  <2> QED BY <1>1, <1>3, <2>3, <2>4, <2>5, <2>6, <2>7, CallerKeeps
<1>4. ASSUME Goto(k, "join") \/ Goto(k, "erase"),
             UNCHANGED <<node, nodes, wk, crashed, runs, lost>>
      PROVE  IInv'
  BY <1>1, <1>4, GotoKeeps
<1> QED BY <1>2, <1>3, <1>4 DEF DeRegisterStop

LEMMA DeRegisterJoinKeeps ==
    ASSUME IInv, NEW k \in Callers, DeRegisterJoin(k)
    PROVE  IInv'
<1> DEFINE n == call[k].name
<1>1. call[k].pc = "join" /\ n \in Names /\ call[k] \in Call
      /\ call[k].ref <= nodes
  BY CallIs DEF DeRegisterJoin
<1>2. CASE Crash
  BY <1>2, CrashKeeps
<1>3. ASSUME Is(n, call[k].ref), node[n].thr # 0, wk[node[n].thr].pc = "done",
             node' = [node EXCEPT ![n].thr = 0], Goto(k, "erase"),
             UNCHANGED <<nodes, wk, crashed, runs, lost>>
      PROVE  IInv'
  <2> DEFINE new == [node[n] EXCEPT !.thr = 0]
             c == [call[k] EXCEPT !.pc = "erase"]
  <2>1. node[n] \in Node
    BY <1>1, <1>3, NodeIs DEF Is
  <2>2. new \in Node /\ new.thr = 0 /\ new.gen = node[n].gen
    BY <2>1, BoundsAssumption DEF Node, BoundsAssumption
  <2>3. node' = [node EXCEPT ![n] = new]
    BY <1>3
  <2>4. c \in Call /\ c.pc = "erase" /\ c.name = n /\ c.ref <= nodes
    BY <1>1 DEF Call
  <2>5. call' = [call EXCEPT ![k] = c]
    BY <1>3, CallIs DEF Goto
  <2> HIDE DEF new, c
  <2>6. Fate(node[n], new) /\ new.gen <= nodes /\ new # None
    BY <1>1, <1>3, <2>2, NodeIs, NoneIsNoNode DEF Fate, Is, NoneIsNoNode
  <2>7. nodes' \in 0 .. MaxNodes /\ nodes <= nodes' /\ new.gen <= nodes'
        /\ c.ref <= nodes' /\ runs' \in [Workers -> [all : Nat, late : Nat]]
    BY <1>3, <2>4, <2>6, NodeIs
  <2> HIDE DEF n
  <2> QED BY <1>1, <1>3, <2>3, <2>4, <2>5, <2>6, <2>7, CallerKeeps
<1>4. ASSUME Return(k) \/ Goto(k, "erase"),
             UNCHANGED <<node, nodes, wk, crashed, runs, lost>>
      PROVE  IInv'
  BY <1>1, <1>4, GotoKeeps, ReturnKeeps
<1> QED BY <1>2, <1>3, <1>4 DEF DeRegisterJoin

LEMMA DeRegisterEraseKeeps ==
    ASSUME IInv, NEW k \in Callers, DeRegisterErase(k)
    PROVE  IInv'
<1> DEFINE n == call[k].name
<1>1. call[k].pc = "erase" /\ n \in Names
  BY CallIs DEF DeRegisterErase
<1>2. CASE Crash
  BY <1>2, CrashKeeps
<1>3. CASE ~Crash
  <2>1. /\ node[n] # None => node[n].thr = 0
        /\ node' = [node EXCEPT ![n] = None] /\ call' = [call EXCEPT ![k] = Idle]
        /\ UNCHANGED <<nodes, wk, crashed, runs, lost>>
    BY <1>3 DEF DeRegisterErase, Return
  <2>2. Fate(node[n], None)
    BY <2>1 DEF Fate
  <2>3. nodes' \in 0 .. MaxNodes /\ nodes <= nodes' /\ 0 <= nodes'
        /\ runs' \in [Workers -> [all : Nat, late : Nat]]
    BY <2>1, NodeIs
  <2> HIDE DEF n
  <2> QED BY <1>1, <2>1, <2>2, <2>3, IdleIs, CallerKeeps
<1> QED BY <1>2, <1>3

\* A worker goes on: what it sees of its node it saw under the lock.
LEMMA WorkerKeeps ==
    ASSUME IInv, NEW w \in Workers, Running(w), NEW t \in Thread,
           wk' = [wk EXCEPT ![w] = t], t.name = wk[w].name,
           t.pc \in {"loop", "invoke", "done"},
           t.ref <= nodes', nodes' \in 0 .. MaxNodes, nodes <= nodes',
           node' \in [Names -> Node \cup {None}],
           \A m \in Names :
             \/ node'[m] = node[m]
             \/ /\ node[m] = None /\ node'[m] # None /\ node'[m].gen <= nodes'
                /\ node'[m].gen > nodes /\ node'[m].thr = 0
             \/ /\ node[m] # None /\ node'[m] # None
                /\ node'[m].gen = node[m].gen /\ node'[m].thr = node[m].thr,
           \/ t.ref = wk[w].ref /\ Active(w)
           \/ node'[t.name] # None /\ t.ref = node'[t.name].gen,
           runs' \in [Workers -> [all : Nat, late : Nat]],
           UNCHANGED <<call, crashed, lost>>
    PROVE  IInv'
<1>1. /\ wk' \in [Workers -> Thread]
      /\ \A v \in Workers : wk'[v] = IF v = w THEN t ELSE wk[v]
  BY DEF IInv, TypeOK, Thread
<1>2. wk[w].name \in Names
  BY DEF IInv, NameInv, Running
<1>3. TypeOK'
  BY <1>1 DEF IInv, TypeOK, Thread
<1>4. NameInv'
  BY <1>1, <1>2 DEF IInv, NameInv
<1>5. \A v \in Workers : wk[v].ref \in Nat /\ wk[v].ref <= nodes
  BY BoundsAssumption DEF IInv, TypeOK, GenInv, BoundsAssumption
<1>6. nodes \in Nat /\ nodes' \in Nat
  BY BoundsAssumption DEF IInv, TypeOK, BoundsAssumption
<1>7. GenInv'
  <2>1. \A m \in Names : node'[m] # None => node'[m].gen <= nodes'
    BY <1>6, NodeIs
  <2>2. \A j \in Callers : call'[j].ref <= nodes'
    BY <1>6, CallIs
  <2>3. \A v \in Workers : wk'[v].ref <= nodes'
    BY <1>1, <1>5, <1>6
  <2> QED BY <2>1, <2>2, <2>3 DEF GenInv
<1>8. ThreadInv'
  <2> SUFFICES ASSUME NEW m \in Names, node'[m] # None, node'[m].thr # 0
               PROVE  /\ wk'[node'[m].thr].pc # "none"
                      /\ wk'[node'[m].thr].name = m
                      /\ wk'[node'[m].thr].pc \in {"loop", "invoke"} =>
                           wk'[node'[m].thr].ref = node'[m].gen
    BY DEF ThreadInv, Active
  <2>1. /\ node[m] # None /\ node'[m].thr = node[m].thr
        /\ node'[m].gen = node[m].gen
    OBVIOUS
  <2>2. node[m].thr \in Workers
    BY <2>1, NodeIs, BoundsAssumption DEF Node, Workers, BoundsAssumption
  <2>3. /\ wk[node[m].thr].pc # "none" /\ wk[node[m].thr].name = m
        /\ Active(node[m].thr) => wk[node[m].thr].ref = node[m].gen
    BY <2>1 DEF IInv, ThreadInv
  <2>4. CASE node[m].thr = w
    BY <1>1, <2>1, <2>3, <2>4
  <2>5. CASE node[m].thr # w
    BY <1>1, <2>1, <2>2, <2>3, <2>5 DEF Active
  <2> QED BY <2>4, <2>5
<1>9. HandInv'
  <2> SUFFICES ASSUME NEW j \in Callers, call[j].pc = "assign"
               PROVE  LET v == call[j].th IN
                      /\ v # 0 /\ wk'[v].pc # "none" /\ wk'[v].name = call[j].name
                      /\ /\ node'[call[j].name] # None
                         /\ node'[call[j].name].gen = call[j].ref
                         /\ wk'[v].pc \in {"loop", "invoke"}
                         => wk'[v].ref = call[j].ref
    BY DEF HandInv, Active, Is
  <2> DEFINE v == call[j].th
             m == call[j].name
  <2>1. /\ v # 0 /\ wk[v].pc # "none" /\ wk[v].name = m
        /\ Is(m, call[j].ref) /\ Active(v) => wk[v].ref = call[j].ref
    BY DEF IInv, HandInv
  <2>2. /\ v \in Workers /\ m \in Names /\ call[j].ref \in Nat
        /\ call[j].ref <= nodes
    BY <2>1, CallIs, BoundsAssumption DEF Call, Workers, BoundsAssumption
  <2>3. node'[m] # None /\ node'[m].gen = call[j].ref => Is(m, call[j].ref)
    BY <1>6, <2>2 DEF Is
  <2>4. CASE v = w
    BY <1>1, <2>1, <2>3, <2>4
  <2>5. CASE v # w
    BY <1>1, <2>1, <2>2, <2>3, <2>5 DEF Active
  <2> QED BY <2>4, <2>5
<1>10. HeldInv'
  <2> SUFFICES ASSUME NEW v \in Workers, wk'[v].pc \in {"get", "loop", "invoke"}
               PROVE  \/ node'[wk'[v].name] # None /\ node'[wk'[v].name].thr = v
                      \/ \E j \in Callers : HeldByRun(j, v)
                      \/ v \in lost
    BY DEF HeldInv, Running, HeldByRun
  <2>1. Running(v) /\ wk'[v].name = wk[v].name /\ v # 0
    BY <1>1 DEF Running, Workers
  <2>2. wk[v].name \in Names
    BY <2>1 DEF IInv, NameInv, Running
  <2> QED BY <2>1, <2>2 DEF IInv, HeldInv
<1>11. AloneInv'
  <2> SUFFICES ASSUME \A i, j \in Callers : i = j,
                      NEW j \in Callers, call[j].pc \in {"test", "assign"}
               PROVE  lost = {} /\ node'[call[j].name] # None
                      /\ node'[call[j].name].gen = call[j].ref
    BY DEF IInv, AloneInv, Is
  <2>1. lost = {} /\ Is(call[j].name, call[j].ref) /\ call[j].name \in Names
    BY CallIs DEF IInv, AloneInv
  <2> QED BY <2>1 DEF Is
<1> QED BY <1>3, <1>4, <1>7, <1>8, <1>9, <1>10, <1>11 DEF IInv

LEMMA WorkerIs ==
    ASSUME IInv, NEW w \in Workers, Running(w)
    PROVE  /\ wk[w].name \in Names /\ wk[w] \in Thread
           /\ wk \in [Workers -> Thread] /\ wk[w].ref <= nodes
           /\ runs[w].all \in Nat /\ runs[w].late \in Nat
BY DEF IInv, NameInv, GenInv, TypeOK, Thread, Running

LEMMA WkGetKeeps == ASSUME IInv, NEW w \in Workers, WkGet(w) PROVE IInv'
<1> DEFINE n == wk[w].name
<1>1. CASE Crash
  BY <1>1, CrashKeeps
<1>2. CASE ~Crash
  <2>1. wk[w].pc = "get" /\ Running(w)
    BY DEF WkGet, Running
  <2>2. n \in Names /\ wk[w] \in Thread
    BY <2>1, WorkerIs
  <2>3. /\ GetWorkItem(n) /\ UNCHANGED <<call, crashed, runs, lost>>
        /\ wk' = [wk EXCEPT ![w].pc = "loop", ![w].ref = node'[n].gen]
    BY <1>2 DEF WkGet
  <2> HIDE DEF n
  <2>4. PICK new :
             /\ new \in Node /\ new # None /\ Fate(node[n], new)
             /\ node' = [node EXCEPT ![n] = new] /\ node'[n] = new
             /\ nodes' \in 0 .. MaxNodes /\ nodes <= nodes'
             /\ new.gen <= nodes' /\ new.gen \in 0 .. MaxNodes
             /\ \/ node[n] # None /\ new = node[n] /\ nodes' = nodes
                \/ /\ node[n] = None /\ new.gen = nodes + 1 /\ new.thr = 0
                   /\ new.cnt = 0
    BY <2>2, <2>3, GetWorkItemIs
  <2> DEFINE t == [wk[w] EXCEPT !.pc = "loop", !.ref = new.gen]
  <2>5. wk' = [wk EXCEPT ![w] = t]
    <3>1. PICK g : g = new.gen
      OBVIOUS
    <3>2. wk' = [wk EXCEPT ![w].pc = "loop", ![w].ref = g]
      BY <2>3, <2>4, <3>1
    <3> QED BY <2>1, <3>1, <3>2, WorkerIs
  <2>6. t \in Thread /\ t.pc = "loop" /\ t.name = n /\ t.ref = new.gen
    BY <2>2, <2>4 DEF Thread, n
  <2> HIDE DEF t
  <2>7. PICK d : d = t
    OBVIOUS
  <2>8. /\ node' \in [Names -> Node \cup {None}]
        /\ \A m \in Names : node'[m] = IF m = n THEN new ELSE node[m]
    BY <2>2, <2>4, NodeIs
  <2>9. /\ n = wk[w].name /\ nodes \in Nat
        /\ runs' \in [Workers -> [all : Nat, late : Nat]]
    BY <2>3, NodeIs DEF n
  <2>10. \A m \in Names :
           \/ node'[m] = node[m]
           \/ /\ node[m] = None /\ node'[m] # None /\ node'[m].gen <= nodes'
              /\ node'[m].gen > nodes /\ node'[m].thr = 0
    BY <2>4, <2>8, <2>9
  <2>11. node'[d.name] # None /\ d.ref = node'[d.name].gen /\ d.ref <= nodes'
    BY <2>4, <2>6, <2>7
  <2> QED BY <2>1, <2>3, <2>4, <2>5, <2>6, <2>7, <2>8, <2>9, <2>10, <2>11,
             WorkerKeeps
<1> QED BY <1>1, <1>2

LEMMA WkPcKeeps ==
    ASSUME IInv, NEW w \in Workers, Active(w), NEW pc \in {"loop", "invoke", "done"},
           wk' = [wk EXCEPT ![w].pc = pc],
           node' \in [Names -> Node \cup {None}],
           \A m \in Names :
             \/ node'[m] = node[m]
             \/ /\ node[m] # None /\ node'[m] # None
                /\ node'[m].gen = node[m].gen /\ node'[m].thr = node[m].thr,
           runs' \in [Workers -> [all : Nat, late : Nat]],
           UNCHANGED <<nodes, call, crashed, lost>>
    PROVE  IInv'
<1> DEFINE t == [wk[w] EXCEPT !.pc = pc]
<1>1. Running(w)
  BY DEF Active, Running
<1>2. wk[w] \in Thread /\ wk' = [wk EXCEPT ![w] = t]
  BY <1>1, WorkerIs
<1>3. t \in Thread /\ t.pc = pc /\ t.name = wk[w].name /\ t.ref = wk[w].ref
  BY <1>2 DEF Thread
<1> HIDE DEF t
<1>4. PICK d : d = t
  OBVIOUS
<1>5. nodes' \in 0 .. MaxNodes /\ nodes <= nodes' /\ d.ref <= nodes'
  BY <1>1, <1>3, <1>4, NodeIs, WorkerIs
<1> QED BY <1>1, <1>2, <1>3, <1>4, <1>5, WorkerKeeps

LEMMA WkLoopKeeps == ASSUME IInv, NEW w \in Workers, WkLoop(w) PROVE IInv'
<1>1. Active(w)
  BY DEF WkLoop, Active
<1>2. CASE Crash
  BY <1>2, CrashKeeps
<1>3. CASE ~Crash
  <2>1. PICK stop \in BOOLEAN :
          wk' = [wk EXCEPT ![w].pc = IF stop THEN "done" ELSE "invoke"]
    BY <1>3 DEF WkLoop
  <2>2. UNCHANGED <<node, nodes, call, crashed, runs, lost>>
    BY <1>3 DEF WkLoop
  <2>3. PICK pc \in {"invoke", "done"} : wk' = [wk EXCEPT ![w].pc = pc]
    BY <2>1
  <2> QED BY <1>1, <2>2, <2>3, NodeIs, WkPcKeeps
<1> QED BY <1>2, <1>3

\* What a call through a good reference does.
LEMMA InvokeIs ==
    ASSUME IInv, NEW w \in Workers, WkInvoke(w), ~Crash, Good(w)
    PROVE  LET n == wk[w].name
               old == node[n] IN
           /\ n \in Names /\ old \in Node
           /\ node' \in [Names -> Node \cup {None}]
           /\ \A m \in Names \ {n} : node'[m] = node[m]
           /\ node'[n] # None /\ node'[n].gen = old.gen
           /\ node'[n].thr = old.thr /\ node'[n].stop = old.stop
           /\ node'[n].cyc = old.cyc /\ node'[n].rep = old.rep
           /\ node'[n].cnt = old.cnt + 1
           /\ runs' \in [Workers -> [all : Nat, late : Nat]]
           /\ \A v \in Workers \ {w} : runs'[v] = runs[v]
           /\ runs'[w].all = runs[w].all + 1
           /\ runs'[w].late = runs[w].late + (IF old.stop THEN 1 ELSE 0)
           /\ wk' = [wk EXCEPT ![w].pc = IF LastRun(old, old.cnt + 1)
                                        THEN "done" ELSE "loop"]
           /\ UNCHANGED <<nodes, call, crashed, lost>>
<1> DEFINE n == wk[w].name
<1>1. Running(w)
  BY DEF WkInvoke, Running
<1>2. n \in Names /\ node[n] \in Node
  BY <1>1, WorkerIs, NodeIs DEF Good, Is
<1>3. /\ node' = [node EXCEPT ![n].cnt = @ + 1]
      /\ runs' = [runs EXCEPT ![w].all = @ + 1,
                              ![w].late = @ + (IF node[n].stop THEN 1 ELSE 0)]
      /\ wk' = [wk EXCEPT ![w].pc = IF LastRun(node[n], node[n].cnt + 1)
                                   THEN "done" ELSE "loop"]
      /\ UNCHANGED <<nodes, call, crashed, lost>>
  BY DEF WkInvoke
<1> DEFINE new == [node[n] EXCEPT !.cnt = @ + 1]
<1>4. /\ new \in Node /\ new.gen = node[n].gen /\ new.thr = node[n].thr
      /\ new.stop = node[n].stop /\ new.cyc = node[n].cyc
      /\ new.rep = node[n].rep /\ new.cnt = node[n].cnt + 1
  BY <1>2 DEF Node
<1>5. node' = [node EXCEPT ![n] = new]
  BY <1>3
<1> HIDE DEF new
<1>6. /\ node' \in [Names -> Node \cup {None}] /\ node'[n] = new /\ new # None
      /\ \A m \in Names \ {n} : node'[m] = node[m]
  BY <1>2, <1>4, <1>5, NodeIs, NoneIsNoNode DEF NoneIsNoNode
<1> DEFINE d == IF node[n].stop THEN 1 ELSE 0
           r == [runs[w] EXCEPT !.all = @ + 1, !.late = @ + d]
<1>7. /\ runs[w] \in [all : Nat, late : Nat] /\ d \in Nat
      /\ runs[w].all \in Nat /\ runs[w].late \in Nat
  BY NodeIs
<1> HIDE DEF d
<1>8. /\ r \in [all : Nat, late : Nat] /\ r.all = runs[w].all + 1
      /\ r.late = runs[w].late + d
  <2> DEFINE a == runs[w].all + 1
             b == runs[w].late + d
             o == runs[w]
  <2>1. a \in Nat /\ b \in Nat /\ o \in [all : Nat, late : Nat]
    BY <1>7
  <2>2. r = [o EXCEPT !.all = a, !.late = b]
    OBVIOUS
  <2> HIDE DEF a, b, o, r
  <2>3. r \in [all : Nat, late : Nat] /\ r.all = a /\ r.late = b
    BY <2>1, <2>2
  <2> QED BY <2>3 DEF a, b
<1>9. runs' = [runs EXCEPT ![w] = r]
  BY <1>3, NodeIs DEF d
<1> HIDE DEF r
<1>10. /\ runs' \in [Workers -> [all : Nat, late : Nat]] /\ runs'[w] = r
       /\ \A v \in Workers \ {w} : runs'[v] = runs[v]
  BY <1>8, <1>9, NodeIs
<1> QED BY <1>2, <1>3, <1>4, <1>6, <1>8, <1>10 DEF d

LEMMA WkInvokeKeeps == ASSUME IInv, NEW w \in Workers, WkInvoke(w) PROVE IInv'
<1>1. Active(w)
  BY DEF WkInvoke, Active
<1>2. CASE Crash
  BY <1>2, CrashKeeps
<1>3. CASE ~Crash /\ Good(w)
  <2>1. PICK pc \in {"done", "loop"} : wk' = [wk EXCEPT ![w].pc = pc]
    BY <1>3, InvokeIs
  <2>2. /\ node' \in [Names -> Node \cup {None}]
        /\ \A m \in Names :
             \/ node'[m] = node[m]
             \/ /\ node[m] # None /\ node'[m] # None
                /\ node'[m].gen = node[m].gen /\ node'[m].thr = node[m].thr
        /\ runs' \in [Workers -> [all : Nat, late : Nat]]
        /\ UNCHANGED <<nodes, call, crashed, lost>>
    BY <1>3, InvokeIs DEF Good, Is
  <2> QED BY <1>1, <2>1, <2>2, WkPcKeeps
<1>4. CASE ~Crash /\ ~Good(w)
  <2>1. /\ UNCHANGED <<node, nodes, call, crashed, runs, lost>>
        /\ \E pc \in {"done", "loop"} : wk' = [wk EXCEPT ![w].pc = pc]
    BY <1>4 DEF WkInvoke
  <2> QED BY <1>1, <2>1, NodeIs, WkPcKeeps
<1> QED BY <1>2, <1>3, <1>4

LEMMA Inductive == IInv /\ [Next]_vars => IInv'
<1> SUFFICES ASSUME IInv, [Next]_vars PROVE IInv'
  OBVIOUS
<1>1. ASSUME NEW k \in Callers, Register(k) PROVE IInv'
  BY <1>1, RegisterKeeps
<1>2. ASSUME NEW k \in Callers, Run(k) PROVE IInv'
  BY <1>2, FindKeeps DEF Run
<1>3. ASSUME NEW k \in Callers, DeRegister(k) PROVE IInv'
  BY <1>3, FindKeeps DEF DeRegister
<1>4. ASSUME NEW k \in Callers, Resume(k) PROVE IInv'
  BY <1>4, TakeKeeps, RunTestKeeps, RunAssignKeeps, RunInvokeKeeps,
     DeRegisterStopKeeps, DeRegisterJoinKeeps, DeRegisterEraseKeeps
     DEF Resume, RunGet, DeRegisterGet
<1>5. ASSUME NEW w \in Workers, Work(w) PROVE IInv'
  BY <1>5, WkGetKeeps, WkLoopKeeps, WkInvokeKeeps DEF Work
<1>6. CASE UNCHANGED vars
  BY <1>6 DEF vars, IInv, TypeOK, NameInv, GenInv, ThreadInv, HandInv, HeldInv,
              AloneInv, Running, Active, Is, HeldByRun
<1> QED BY <1>1, <1>2, <1>3, <1>4, <1>5, <1>6 DEF Next

LEMMA Starts == Init => IInv
<1> SUFFICES ASSUME Init PROVE IInv
  OBVIOUS
<1>1. /\ \A k \in Callers : call[k] = Idle
      /\ \A w \in Workers : wk[w] = [pc |-> "none", name |-> None, ref |-> 0]
      /\ \A n \in Names : node[n] = None
      /\ nodes = 0 /\ lost = {}
  BY DEF Init
<1>2. \A k \in Callers : call[k].pc = "idle" /\ call[k].ref = 0
  BY <1>1 DEF Idle
<1>3. \A w \in Workers : wk[w].pc = "none" /\ wk[w].ref = 0
  BY <1>1
<1>4. TypeOK
  <2>1. call \in [Callers -> Call] /\ nodes \in 0 .. MaxNodes
    BY IdleIs, BoundsAssumption DEF Init, BoundsAssumption
  <2>2. wk \in [Workers -> Thread] /\ runs \in [Workers -> [all : Nat, late : Nat]]
    BY BoundsAssumption DEF Init, BoundsAssumption, Thread, NoRuns
  <2> QED BY <2>1, <2>2 DEF TypeOK, Call, Thread, Init
<1> QED BY <1>1, <1>2, <1>3, <1>4
        DEF IInv, NameInv, GenInv, ThreadInv, HandInv, HeldInv, AloneInv, Running

LEMMA Invariance == Spec => []IInv
BY Starts, Inductive, PTL DEF Spec

\* Every variable keeps its type.
THEOREM TypeCorrect == Spec => []TypeOK
<1>1. IInv => TypeOK
  BY DEF IInv
<1> QED BY <1>1, Invariance, PTL

\* A worker that runs has a good reference and a thread that its node has or Run
\* is about to assign to it, unless another caller took the node away from Run
\* before the assignment; for any names, callers and interleavings.
THEOREM ReferencesStayGood == Spec => []ReferenceStaysGood
<1>1. IInv => ReferenceStaysGood
  <2> SUFFICES ASSUME IInv, NEW w \in Workers, Active(w)
               PROVE  \/ /\ Good(w)
                         /\ \/ node[wk[w].name].thr = w
                            \/ \E k \in Callers : HeldByRun(k, w)
                      \/ Overtaken(w) /\ \E j, k \in Callers : j # k
    BY DEF ReferenceStaysGood
  <2>1. wk[w].name \in Names /\ w # 0 /\ Running(w)
    BY DEF IInv, NameInv, Active, Running, Workers
  <2>2. CASE node[wk[w].name] # None /\ node[wk[w].name].thr = w
    BY <2>1, <2>2 DEF IInv, ThreadInv, Good, Is
  <2>3. ASSUME NEW k \in Callers, HeldByRun(k, w)
        PROVE  Good(w) \/ (Overtaken(w) /\ \E i, j \in Callers : i # j)
    <3>1. /\ call[k].pc = "assign" /\ call[k].th = w
          /\ wk[w].name = call[k].name
          /\ Is(call[k].name, call[k].ref) => wk[w].ref = call[k].ref
      BY <2>3 DEF HeldByRun, IInv, HandInv
    <3>2. CASE Is(call[k].name, call[k].ref)
      <4>1. wk[w].name = call[k].name /\ wk[w].ref = call[k].ref
        BY <3>1, <3>2
      <4> QED BY <3>2, <4>1 DEF Good, Is
    <3>3. CASE ~Is(call[k].name, call[k].ref)
      BY <2>3, <3>1, <3>3 DEF Overtaken, IInv, AloneInv
    <3> QED BY <3>2, <3>3
  <2>4. CASE w \in lost
    BY <2>4 DEF Overtaken, IInv, AloneInv
  <2> QED BY <2>1, <2>2, <2>3, <2>4 DEF IInv, HeldInv
<1> QED BY <1>1, Invariance, PTL

----------------------------------------------------------------------------
(* Late calls. *)

\* A node that a reference was to before has kept what it was told, or the
\* workers that refer to it count anew.
LEMMA LateKeeps ==
    ASSUME IInv, LateInv, UNCHANGED wk,
           \A w \in Workers :
             \/ runs'[w] = NoRuns
             \/ /\ runs'[w] = runs[w]
                /\ Running(w) /\ Good(w)' =>
                     Good(w) /\ (node[wk[w].name].stop => node'[wk[w].name].stop)
    PROVE  LateInv'
<1> SUFFICES ASSUME NEW w \in Workers
             PROVE  /\ wk[w].pc \in {"none", "get"} => runs'[w].late = 0
                    /\ wk[w].pc = "invoke" /\ Good(w)' => runs'[w].late = 0
                    /\ wk[w].pc = "loop" /\ Good(w)' /\ runs'[w].late # 0 =>
                         node'[wk[w].name].stop
                    /\ runs'[w].late <= 1
  BY DEF LateInv, Good, Is
<1>1. CASE runs'[w] = NoRuns
  BY <1>1 DEF NoRuns
<1>2. CASE runs'[w] = runs[w] /\ (Running(w) /\ Good(w)' =>
             Good(w) /\ (node[wk[w].name].stop => node'[wk[w].name].stop))
  BY <1>2 DEF LateInv, Running
<1> QED BY <1>1, <1>2

\* The fate of a node, for the references to it: a node that was made is not the
\* one of any reference.
LEMMA FateLate ==
    ASSUME IInv, LateInv, UNCHANGED <<wk, runs>>, NEW n \in Names, NEW new,
           Fate(node[n], new), node' = [node EXCEPT ![n] = new],
           new # None /\ node[n] # None /\ node[n].stop => new.stop
    PROVE  LateInv'
<1>1. \A m \in Names : node'[m] = IF m = n THEN new ELSE node[m]
  BY NodeIs
<1>2. ASSUME NEW w \in Workers, Running(w), Good(w)'
      PROVE  Good(w) /\ (node[wk[w].name].stop => node'[wk[w].name].stop)
  <2>1. /\ wk[w].name \in Names /\ wk[w].ref \in Nat /\ wk[w].ref <= nodes
        /\ nodes \in Nat
    BY <1>2, WorkerIs, NodeIs, BoundsAssumption DEF Thread, BoundsAssumption
  <2>2. node'[wk[w].name] # None /\ node'[wk[w].name].gen = wk[w].ref
    BY <1>2 DEF Good, Is
  <2>3. CASE wk[w].name = n
    BY <1>1, <2>1, <2>2, <2>3 DEF Fate, Good, Is
  <2>4. CASE wk[w].name # n
    BY <1>1, <2>1, <2>2, <2>4 DEF Good, Is
  <2> QED BY <2>3, <2>4
<1> QED BY <1>2, LateKeeps

LEMMA LateSame ==
    ASSUME IInv, LateInv, UNCHANGED <<wk, runs, node>>
    PROVE  LateInv'
BY DEF LateInv, Good, Is

LEMMA CallerLate ==
    ASSUME IInv, LateInv, NEW k \in Callers,
           Register(k) \/ Run(k) \/ DeRegister(k) \/ Resume(k)
    PROVE  LateInv'
<1>1. call[k].pc # "idle" => call[k].name \in Names
  BY CallIs
<1>2. CASE Crash
  BY <1>2, LateSame DEF Crash
<1>3. CASE ~Crash /\ Register(k)
  <2>1. PICK n \in Names, cyc \in BOOLEAN, rep \in Repeats :
           RegisterStep(n, cyc, rep)
    BY <1>3, RegisterCase
  <2>2. PICK new : Fate(node[n], new) /\ node' = [node EXCEPT ![n] = new]
    BY <2>1, RegisterMakes
  <2>3. wk' = wk /\ runs' = [w \in Workers |-> IF wk[w].name = n /\ Good(w)
                                               THEN NoRuns ELSE runs[w]]
    BY <2>1 DEF RegisterStep
  <2>4. ASSUME NEW w \in Workers, ~ (wk[w].name = n /\ Good(w)),
               Running(w), Good(w)'
        PROVE  Good(w) /\ node' [wk[w].name] = node[wk[w].name]
    <3>1. /\ wk[w].name \in Names /\ wk[w].ref \in Nat /\ wk[w].ref <= nodes
          /\ nodes \in Nat
      BY <2>4, WorkerIs, NodeIs, BoundsAssumption DEF Thread, BoundsAssumption
    <3>2. node'[wk[w].name] # None /\ node'[wk[w].name].gen = wk[w].ref
      BY <2>3, <2>4 DEF Good, Is
    <3>3. \A m \in Names : node'[m] = IF m = n THEN new ELSE node[m]
      BY <2>2, NodeIs
    <3>4. wk[w].name # n
      BY <2>2, <2>4, <3>1, <3>2, <3>3 DEF Fate, Good, Is
    <3> QED BY <3>1, <3>2, <3>3, <3>4 DEF Good, Is
  <2>5. \A w \in Workers :
          \/ runs'[w] = NoRuns
          \/ /\ runs'[w] = runs[w]
             /\ Running(w) /\ Good(w)' =>
                  Good(w) /\ (node[wk[w].name].stop => node'[wk[w].name].stop)
    BY <2>3, <2>4
  <2> QED BY <2>3, <2>5, LateKeeps
<1>4. CASE ~Crash /\ (Run(k) \/ DeRegister(k) \/ RunInvoke(k))
  BY <1>4, LateSame DEF Run, DeRegister, RunInvoke, Find
<1>5. CASE ~Crash /\ (RunGet(k) \/ DeRegisterGet(k))
  <2>1. /\ call[k].name \in Names /\ GetWorkItem(call[k].name)
        /\ UNCHANGED <<wk, runs>>
    BY <1>1, <1>5 DEF RunGet, DeRegisterGet, Take
  <2>2. PICK new :
          /\ Fate(node[call[k].name], new)
          /\ node' = [node EXCEPT ![call[k].name] = new]
          /\ node[call[k].name] # None => new = node[call[k].name]
    BY <2>1, GetWorkItemIs
  <2> QED BY <2>1, <2>2, FateLate
<1>6. CASE ~Crash /\ RunTest(k)
  <2>1. CASE UNCHANGED <<wk, runs, node>>
    BY <2>1, LateSame
  <2>2. ASSUME NEW w \in Workers, wk[w].pc = "none", NEW n,
               wk' = [wk EXCEPT ![w] = [pc |-> "get", name |-> n, ref |-> 0]],
               UNCHANGED <<node, runs>>
        PROVE  LateInv'
    <3>1. \A v \in Workers : IF v = w THEN wk'[v].pc = "get"
                                     ELSE wk'[v] = wk[v]
      BY <2>2 DEF IInv, TypeOK
    <3> QED BY <2>2, <3>1 DEF LateInv, Good, Is
  <2> QED BY <1>6, <2>1, <2>2 DEF RunTest
<1>7. CASE ~Crash /\ RunAssign(k)
  <2> DEFINE n == call[k].name
             new == [node[n] EXCEPT !.thr = call[k].th]
  <2>1. CASE node' = node
    BY <1>7, <2>1, LateSame DEF RunAssign
  <2>2. CASE /\ Is(n, call[k].ref) /\ node[n].thr = 0
             /\ node' = [node EXCEPT ![n].thr = call[k].th]
    <3>1. n \in Names /\ node[n] \in Node /\ UNCHANGED <<wk, runs>>
      BY <1>1, <1>7, <2>2, NodeIs DEF RunAssign, Is
    <3>2. /\ new.gen = node[n].gen /\ new.stop = node[n].stop
      BY <3>1 DEF Node
    <3>3. node' = [node EXCEPT ![n] = new] /\ node[n] # None
      BY <2>2 DEF Is
    <3> HIDE DEF new
    <3>4. \A m \in Names : node'[m] = IF m = n THEN new ELSE node[m]
      BY <3>1, <3>3, NodeIs
    <3>5. ASSUME NEW w \in Workers, Running(w), Good(w)'
          PROVE  Good(w) /\ (node[wk[w].name].stop => node'[wk[w].name].stop)
      BY <3>1, <3>2, <3>3, <3>4, <3>5, WorkerIs DEF Good, Is
    <3> QED BY <3>1, <3>5, LateKeeps
  <2> QED BY <1>7, <2>1, <2>2 DEF RunAssign
<1>8. CASE ~Crash /\ DeRegisterStop(k)
  <2> DEFINE n == call[k].name
             new == [node[n] EXCEPT !.stop = TRUE]
  <2>1. CASE node' = node
    BY <1>8, <2>1, LateSame DEF DeRegisterStop
  <2>2. CASE Is(n, call[k].ref) /\ node' = [node EXCEPT ![n].stop = TRUE]
    <3>1. n \in Names /\ node[n] \in Node /\ UNCHANGED <<wk, runs>>
      BY <1>1, <1>8, <2>2, NodeIs DEF DeRegisterStop, Is
    <3>2. /\ new \in Node /\ new.gen = node[n].gen /\ new.thr = node[n].thr
          /\ new.stop
      BY <3>1 DEF Node
    <3>3. node' = [node EXCEPT ![n] = new]
      BY <2>2
    <3> HIDE DEF new
    <3>4. Fate(node[n], new)
      BY <2>2, <3>2, NoneIsNoNode DEF Fate, Is, NoneIsNoNode
    <3> HIDE DEF n
    <3> QED BY <3>1, <3>2, <3>3, <3>4, FateLate
  <2> QED BY <1>8, <2>1, <2>2 DEF DeRegisterStop
<1>9. CASE ~Crash /\ DeRegisterJoin(k)
  <2> DEFINE n == call[k].name
             new == [node[n] EXCEPT !.thr = 0]
  <2>1. CASE node' = node
    BY <1>9, <2>1, LateSame DEF DeRegisterJoin
  <2>2. CASE /\ Is(n, call[k].ref) /\ wk[node[n].thr].pc = "done"
             /\ node' = [node EXCEPT ![n].thr = 0]
    <3>1. n \in Names /\ node[n] \in Node /\ UNCHANGED <<wk, runs>>
      BY <1>1, <1>9, <2>2, NodeIs DEF DeRegisterJoin, Is
    <3>2. /\ new \in Node /\ new.gen = node[n].gen /\ new.thr = 0
          /\ new.stop = node[n].stop
      BY <3>1, BoundsAssumption DEF Node, BoundsAssumption
    <3>3. node' = [node EXCEPT ![n] = new]
      BY <2>2
    <3> HIDE DEF new
    <3>4. Fate(node[n], new)
      BY <2>2, <3>2, NoneIsNoNode DEF Fate, Is, NoneIsNoNode
    <3> HIDE DEF n
    <3> QED BY <3>1, <3>2, <3>3, <3>4, FateLate
  <2> QED BY <1>9, <2>1, <2>2 DEF DeRegisterJoin
<1>10. CASE ~Crash /\ DeRegisterErase(k)
  <2>1. /\ call[k].name \in Names /\ UNCHANGED <<wk, runs>>
        /\ node[call[k].name] # None => node[call[k].name].thr = 0
        /\ node' = [node EXCEPT ![call[k].name] = None]
    BY <1>1, <1>10 DEF DeRegisterErase
  <2>2. Fate(node[call[k].name], None)
    BY <2>1 DEF Fate
  <2> QED BY <2>1, <2>2, FateLate
<1> QED BY <1>2, <1>3, <1>4, <1>5, <1>6, <1>7, <1>8, <1>9, <1>10 DEF Resume

LEMMA WorkerLate ==
    ASSUME IInv, LateInv, NEW w \in Workers, Work(w)
    PROVE  LateInv'
<1>1. Running(w)
  BY DEF Work, WkGet, WkLoop, WkInvoke, Running
<1>2. /\ wk[w].name \in Names /\ wk \in [Workers -> Thread]
      /\ wk[w] \in Thread /\ runs[w].late \in Nat
  BY <1>1, WorkerIs
<1>3. CASE Crash
  BY <1>3, LateSame DEF Crash
<1>4. CASE ~Crash /\ WkGet(w)
  <2> DEFINE n == wk[w].name
  <2>1. /\ GetWorkItem(n) /\ UNCHANGED runs /\ wk[w].pc = "get"
        /\ wk' = [wk EXCEPT ![w].pc = "loop", ![w].ref = node'[n].gen]
    BY <1>4 DEF WkGet
  <2>2. PICK new :
          /\ Fate(node[n], new) /\ node' = [node EXCEPT ![n] = new]
          /\ node[n] # None => new = node[n]
    BY <1>2, <2>1, GetWorkItemIs
  <2> HIDE DEF n
  <2>3. /\ wk'[w].pc = "loop"
        /\ \A v \in Workers \ {w} : wk'[v] = wk[v]
    BY <1>2, <2>1 DEF Thread
  <2>4. \A m \in Names : node'[m] = node[m] \/ (node[m] = None /\ m = n)
    <3>1. \A m \in Names : node'[m] = IF m = n THEN new ELSE node[m]
      BY <1>2, <2>2, NodeIs DEF n
    <3> QED BY <2>2, <3>1
  <2>5. runs[w].late = 0
    BY <2>1 DEF LateInv
  <2>6. ASSUME NEW v \in Workers \ {w}, Running(v), Good(v)'
        PROVE  Good(v) /\ node'[wk[v].name] = node[wk[v].name]
    <3>1. /\ wk[v].name \in Names /\ wk[v].ref \in Nat /\ wk[v].ref <= nodes
          /\ nodes \in Nat
      BY <2>6, WorkerIs, NodeIs, BoundsAssumption DEF Thread, BoundsAssumption
    <3>2. node'[wk[v].name] # None /\ node'[wk[v].name].gen = wk[v].ref
      BY <2>3, <2>6 DEF Good, Is
    <3>3. CASE node'[wk[v].name] = node[wk[v].name]
      BY <3>2, <3>3 DEF Good, Is
    <3>4. CASE node[wk[v].name] = None /\ wk[v].name = n
      <4>1. node'[n] = new
        BY <2>2, <3>1, <3>4, NodeIs
      <4> QED BY <2>2, <3>1, <3>2, <3>4, <4>1 DEF Fate
    <3> QED BY <2>4, <3>1, <3>3, <3>4
  <2> SUFFICES ASSUME NEW v \in Workers
               PROVE  /\ wk'[v].pc \in {"none", "get"} => runs[v].late = 0
                      /\ wk'[v].pc = "invoke" /\ Good(v)' => runs[v].late = 0
                      /\ wk'[v].pc = "loop" /\ Good(v)' /\ runs[v].late # 0 =>
                           node'[wk'[v].name].stop
                      /\ runs[v].late <= 1
    BY <2>1 DEF LateInv, Good, Is
  <2>7. CASE v = w
    BY <2>3, <2>5, <2>7
  <2>8. CASE v # w
    BY <2>3, <2>6, <2>8 DEF LateInv, Running
  <2> QED BY <2>7, <2>8
<1>5. CASE ~Crash /\ WkLoop(w)
  <2>1. /\ UNCHANGED <<node, runs>> /\ wk[w].pc = "loop"
        /\ wk'[w].pc \in {"done", "invoke"} /\ wk'[w].name = wk[w].name
        /\ wk'[w].ref = wk[w].ref
        /\ wk'[w].pc = "invoke" /\ Good(w) => ~node[wk[w].name].stop
        /\ \A v \in Workers \ {w} : wk'[v] = wk[v]
    BY <1>2, <1>5 DEF WkLoop, Thread
  <2>2. \A v \in Workers : Good(v)' <=> Good(v)
    BY <2>1 DEF Good, Is
  <2> QED BY <2>1, <2>2 DEF LateInv
<1>6. CASE ~Crash /\ WkInvoke(w) /\ ~Good(w)
  <2>1. /\ UNCHANGED <<node, runs>> /\ wk[w].pc = "invoke"
        /\ wk'[w].pc \in {"done", "loop"} /\ wk'[w].name = wk[w].name
        /\ wk'[w].ref = wk[w].ref
        /\ \A v \in Workers \ {w} : wk'[v] = wk[v]
    BY <1>2, <1>6 DEF WkInvoke, Thread
  <2>2. \A v \in Workers : Good(v)' <=> Good(v)
    BY <2>1 DEF Good, Is
  <2> QED BY <1>6, <2>1, <2>2 DEF LateInv
<1>7. CASE ~Crash /\ WkInvoke(w) /\ Good(w)
  <2> DEFINE n == wk[w].name
  <2>1. /\ n \in Names /\ wk[w].pc = "invoke"
        /\ \A m \in Names \ {n} : node'[m] = node[m]
        /\ node'[n] # None /\ node'[n].gen = node[n].gen
        /\ node'[n].stop = node[n].stop
        /\ \A v \in Workers \ {w} : runs'[v] = runs[v]
        /\ runs'[w].late = runs[w].late + (IF node[n].stop THEN 1 ELSE 0)
        /\ wk' = [wk EXCEPT ![w].pc = IF LastRun(node[n], node[n].cnt + 1)
                                     THEN "done" ELSE "loop"]
    BY <1>7, InvokeIs DEF WkInvoke
  <2>2. /\ wk'[w].pc \in {"done", "loop"} /\ wk'[w].name = n
        /\ wk'[w].ref = wk[w].ref
        /\ \A v \in Workers \ {w} : wk'[v] = wk[v]
    BY <1>2, <2>1 DEF Thread
  <2>3. runs[w].late = 0 /\ node[n] # None
    BY <1>7, <2>1 DEF LateInv, Good, Is
  <2> HIDE DEF n
  <2>4. \A v \in Workers : Running(v) => wk[v].name \in Names
    BY WorkerIs
  <2>5. ASSUME NEW v \in Workers, Running(v)
        PROVE  /\ Good(v)' <=> Good(v)
               /\ Good(v) => node'[wk[v].name].stop = node[wk[v].name].stop
    BY <1>7, <2>1, <2>2, <2>3, <2>4, <2>5 DEF Good, Is, n
  <2> SUFFICES ASSUME NEW v \in Workers
               PROVE  /\ wk'[v].pc \in {"none", "get"} => runs'[v].late = 0
                      /\ wk'[v].pc = "invoke" /\ Good(v)' => runs'[v].late = 0
                      /\ wk'[v].pc = "loop" /\ Good(v)' /\ runs'[v].late # 0 =>
                           node'[wk'[v].name].stop
                      /\ runs'[v].late <= 1
    BY DEF LateInv, Good, Is
  <2>6. CASE v = w
    BY <2>1, <2>2, <2>3, <2>6
  <2>7. CASE v # w
    BY <2>1, <2>2, <2>5, <2>7 DEF LateInv, Running
  <2> QED BY <2>6, <2>7
<1> QED BY <1>3, <1>4, <1>5, <1>6, <1>7 DEF Work

\* After DeRegister told a worker to stop it makes at most one more call.
THEOREM OneLateRun == Spec => []AtMostOneLateRun
<1>1. Init => LateInv
  BY DEF Init, LateInv, NoRuns
<1>2. IInv /\ LateInv /\ [Next]_vars => LateInv'
  <2> SUFFICES ASSUME IInv, LateInv, [Next]_vars PROVE LateInv'
    OBVIOUS
  <2>1. CASE UNCHANGED vars
    BY <2>1, LateSame DEF vars
  <2> QED BY <2>1, CallerLate, WorkerLate DEF Next
<1>3. LateInv => AtMostOneLateRun
  BY DEF LateInv, AtMostOneLateRun
<1> QED BY <1>1, <1>2, <1>3, Invariance, PTL DEF Spec

----------------------------------------------------------------------------
(* The counts, with one caller. *)

Took(w) == wk[w].pc \notin {"none", "get"}

\* A worker that has no reference yet has called nothing.
NoneYet == \A w \in Workers : ~Took(w) => runs[w].all = 0 /\ wk[w].ref = 0

\* Only a worker with a reference to the node counts in it.
TakenInv ==
    \A n \in Names : node[n] # None /\ node[n].cnt # 0 =>
      \E w \in Workers : Took(w) /\ wk[w].name = n /\ wk[w].ref = node[n].gen

\* The only caller has not forgotten a worker whose reference is good.
OwnerInv(c) ==
    \A w \in Workers : Took(w) /\ Good(w) =>
      \/ node[wk[w].name].thr = w
      \/ HeldByRun(c, w)
      \/ call[c].pc = "erase" /\ call[c].name = wk[w].name

Counted(m, all, running) ==
    m.cyc /\ m.rep > 0 =>
      /\ m.cnt = all
      /\ running => m.cnt < m.rep
      /\ ~running => m.cnt <= m.rep /\ (~m.stop => m.cnt = m.rep)

CountedInv ==
    \A w \in Workers :
      Took(w) /\ Good(w) /\ (\A v \in Workers \ {w} : wk[v].ref # wk[w].ref)
        => Counted(node[wk[w].name], runs[w].all, Running(w))

CountInv(c) == NoneYet /\ TakenInv /\ OwnerInv(c) /\ CountedInv

\* What holds of every worker that took a reference.
LEMMA TookIs ==
    ASSUME IInv, NEW w \in Workers, Took(w)
    PROVE  /\ wk[w].name \in Names /\ wk[w].ref \in Nat /\ wk[w].ref <= nodes
           /\ nodes \in Nat /\ w # 0
  BY NodeIs, BoundsAssumption
     DEF Took, IInv, NameInv, GenInv, TypeOK, Workers, BoundsAssumption

LEMMA NodeNat ==
    ASSUME NEW m \in Node
    PROVE  m.rep \in Nat /\ m.cnt \in Nat /\ m.gen \in Nat /\ m.gen # 0
<1>1. m.cnt \in Nat /\ m.rep \in Repeats \cup {0} /\ m.gen \in 1 .. MaxNodes
  BY DEF Node
<1>2. Repeats \cup {0} \subseteq Nat /\ MaxNodes \in Nat
  BY BoundsAssumption DEF BoundsAssumption
<1> QED BY <1>1, <1>2

LEMMA CountSame ==
    ASSUME NEW c, CountInv(c), UNCHANGED <<node, wk, runs>>, OwnerInv(c)'
    PROVE  CountInv(c)'
BY DEF CountInv, NoneYet, TakenInv, CountedInv, Took, Good, Is, Counted, Running

\* The caller changes a node: it keeps the counts, or is new to every worker.
LEMMA CountFate ==
    ASSUME IInv, NEW c, CountInv(c), UNCHANGED <<wk, runs>>, NEW n \in Names,
           NEW new, Fate(node[n], new), node' = [node EXCEPT ![n] = new],
           new # None =>
             \/ /\ new.cnt = 0
                /\ \A w \in Workers :
                     Took(w) /\ wk[w].name = n => wk[w].ref # new.gen
             \/ /\ node[n] # None /\ new.cnt = node[n].cnt
                /\ new.cyc = node[n].cyc /\ new.rep = node[n].rep
                /\ new.gen = node[n].gen /\ (node[n].stop => new.stop),
           OwnerInv(c)'
    PROVE  CountInv(c)'
<1>1. \A m \in Names : node'[m] = IF m = n THEN new ELSE node[m]
  BY NodeIs
<1>2. NoneYet'
  BY DEF CountInv, NoneYet, Took
<1>3. TakenInv'
  <2> SUFFICES ASSUME NEW m \in Names, node'[m] # None, node'[m].cnt # 0
               PROVE  \E w \in Workers :
                        Took(w) /\ wk[w].name = m /\ wk[w].ref = node'[m].gen
    BY DEF TakenInv, Took
  <2>1. node[m] # None /\ node[m].cnt # 0 /\ node'[m].gen = node[m].gen
    BY <1>1
  <2> QED BY <2>1 DEF CountInv, TakenInv
<1>4. CountedInv'
  <2> SUFFICES ASSUME NEW w \in Workers, Took(w), Good(w)',
                      \A v \in Workers \ {w} : wk[v].ref # wk[w].ref
               PROVE  Counted(node'[wk[w].name], runs[w].all, Running(w))
    BY DEF CountedInv, Took, Counted, Running
  <2>1. wk[w].name \in Names
    BY TookIs
  <2>2. node'[wk[w].name] # None /\ node'[wk[w].name].gen = wk[w].ref
    BY DEF Good, Is
  <2>3. CASE wk[w].name # n
    <3>1. node'[wk[w].name] = node[wk[w].name]
      BY <1>1, <2>1, <2>3
    <3>2. Good(w)
      BY <2>2, <3>1 DEF Good, Is
    <3> QED BY <3>1, <3>2 DEF CountInv, CountedInv
  <2>4. CASE wk[w].name = n
    <3>1. node'[n] = new /\ new # None /\ new.gen = wk[w].ref
      BY <1>1, <2>2, <2>4
    <3>2. /\ node[n] # None /\ new.cnt = node[n].cnt
          /\ new.cyc = node[n].cyc /\ new.rep = node[n].rep
          /\ new.gen = node[n].gen /\ (node[n].stop => new.stop)
      BY <2>4, <3>1
    <3>3. Good(w)
      BY <2>4, <3>1, <3>2 DEF Good, Is
    <3>4. Counted(node[n], runs[w].all, Running(w))
      BY <2>4, <3>3 DEF CountInv, CountedInv
    <3> QED BY <2>4, <3>1, <3>2, <3>4 DEF Counted
  <2> QED BY <2>3, <2>4
<1> QED BY <1>2, <1>3, <1>4 DEF CountInv

\* The caller that neither holds a thread nor is about to erase goes on.
LEMMA OwnerFate ==
    ASSUME IInv, NEW c \in Callers, CountInv(c), UNCHANGED wk, NEW n \in Names,
           NEW new, Fate(node[n], new), node' = [node EXCEPT ![n] = new],
           call[c].pc \notin {"assign", "erase"},
           \/ new = None \/ node[n] = None \/ new.thr = node[n].thr
           \/ call'[c].pc = "erase" /\ call'[c].name = n
    PROVE  OwnerInv(c)'
<1> SUFFICES ASSUME NEW w \in Workers, Took(w), Good(w)'
             PROVE  \/ node'[wk[w].name].thr = w
                    \/ HeldByRun(c, w)'
                    \/ call'[c].pc = "erase" /\ call'[c].name = wk[w].name
  BY DEF OwnerInv, Took
<1>1. \A m \in Names : node'[m] = IF m = n THEN new ELSE node[m]
  BY NodeIs
<1>2. /\ wk[w].name \in Names /\ wk[w].ref \in Nat /\ wk[w].ref <= nodes
      /\ nodes \in Nat
  BY TookIs
<1>3. node'[wk[w].name] # None /\ node'[wk[w].name].gen = wk[w].ref
  BY DEF Good, Is
<1>4. Good(w)
  BY <1>1, <1>2, <1>3 DEF Fate, Good, Is
<1>5. node[wk[w].name].thr = w
  BY <1>4 DEF CountInv, OwnerInv, HeldByRun
<1> QED BY <1>1, <1>2, <1>3, <1>4, <1>5 DEF Fate, Good, Is

\* The same when no node changes.
LEMMA OwnerSame ==
    ASSUME IInv, NEW c, CountInv(c), UNCHANGED <<wk, node>>,
           call[c].pc \notin {"assign", "erase"}
    PROVE  OwnerInv(c)'
BY DEF CountInv, OwnerInv, HeldByRun, Took, Good, Is

\* Nobody refers to a node without a thread while the caller is idle.
LEMMA RegisterCounts ==
    ASSUME IInv, NEW c \in Callers, CountInv(c), Register(c)
    PROVE  CountInv(c)'
<1>1. call[c].pc = "idle"
  BY DEF Register
<1>2. CASE Crash
  BY <1>1, <1>2, OwnerSame, CountSame DEF Crash
<1>3. ASSUME NEW n \in Names, NEW cyc \in BOOLEAN, NEW rep \in Repeats,
             RegisterStep(n, cyc, rep)
      PROVE  CountInv(c)'
  <2>1. PICK new :
          /\ new \in Node /\ new # None /\ new.thr = 0 /\ new.cnt = 0
          /\ Fate(node[n], new) /\ node' = [node EXCEPT ![n] = new]
    BY <1>3, RegisterMakes
  <2>2. /\ UNCHANGED <<call, wk>> /\ (node[n] # None => node[n].thr = 0)
        /\ runs' = [w \in Workers |-> IF wk[w].name = n /\ Good(w)
                                      THEN NoRuns ELSE runs[w]]
    BY <1>3 DEF RegisterStep
  <2>3. \A w \in Workers : ~ (wk[w].name = n /\ Good(w))
    <3> SUFFICES ASSUME NEW w \in Workers, wk[w].name = n, Good(w)
                 PROVE  FALSE
      OBVIOUS
    <3>1. node[n] # None /\ node[n] \in Node /\ node[n].gen = wk[w].ref
      BY NodeIs DEF Good, Is
    <3>2. wk[w].ref # 0
      BY <3>1, NodeNat
    <3>3. Took(w)
      BY <3>2 DEF CountInv, NoneYet
    <3>4. w # 0
      BY DEF Workers
    <3> QED BY <1>1, <2>2, <3>1, <3>3, <3>4 DEF CountInv, OwnerInv, HeldByRun
  <2>4. runs' = runs
    BY <2>2, <2>3, NodeIs
  <2>5. \A w \in Workers : Took(w) /\ wk[w].name = n => wk[w].ref # new.gen
    <3> SUFFICES ASSUME NEW w \in Workers, Took(w), wk[w].name = n
                 PROVE  wk[w].ref # new.gen
      OBVIOUS
    <3>1. ~ Good(w) /\ wk[w].ref \in Nat /\ wk[w].ref <= nodes /\ nodes \in Nat
      BY <2>3, TookIs
    <3>2. new.gen \in Nat
      BY <2>1, NodeNat
    <3> QED BY <2>1, <3>1, <3>2 DEF Good, Is, Fate
  <2>6. OwnerInv(c)'
    BY <1>1, <2>1, <2>2, OwnerFate DEF RegisterStep, Fate
  <2> QED BY <2>1, <2>2, <2>4, <2>5, <2>6, CountFate
<1> QED BY <1>2, <1>3, RegisterCase

LEMMA TakeCounts ==
    ASSUME IInv, NEW c \in Callers, CountInv(c), RunGet(c) \/ DeRegisterGet(c)
    PROVE  CountInv(c)'
<1> DEFINE n == call[c].name
<1>1. call[c].pc \in {"get", "find"} /\ n \in Names
  BY CallIs DEF RunGet, DeRegisterGet
<1>2. CASE Crash
  BY <1>1, <1>2, OwnerSame, CountSame DEF Crash
<1>3. CASE ~Crash
  <2>1. GetWorkItem(n) /\ UNCHANGED <<wk, runs>>
    BY <1>3 DEF RunGet, DeRegisterGet, Take
  <2> HIDE DEF n
  <2>2. PICK new :
          /\ new \in Node /\ new # None /\ Fate(node[n], new)
          /\ node' = [node EXCEPT ![n] = new]
          /\ \/ node[n] # None /\ new = node[n]
             \/ /\ node[n] = None /\ new.gen = nodes + 1 /\ new.cnt = 0
    BY <1>1, <2>1, GetWorkItemIs
  <2>3. OwnerInv(c)'
    BY <1>1, <2>1, <2>2, OwnerFate
  <2>4. node[n] = None =>
          \A w \in Workers : Took(w) /\ wk[w].name = n => wk[w].ref # new.gen
    BY <2>2, TookIs
  <2> QED BY <1>1, <2>1, <2>2, <2>3, <2>4, CountFate
<1> QED BY <1>2, <1>3

\* A worker that starts has no reference yet.
LEMMA RunTestCounts ==
    ASSUME IInv, NEW c \in Callers, CountInv(c), RunTest(c)
    PROVE  CountInv(c)'
<1>1. call[c].pc = "test"
  BY DEF RunTest
<1>2. CASE UNCHANGED <<node, wk, runs>>
  BY <1>1, <1>2, OwnerSame, CountSame
<1>3. ASSUME NEW w \in Workers, wk[w].pc = "none", NEW n,
             wk' = [wk EXCEPT ![w] = [pc |-> "get", name |-> n, ref |-> 0]],
             UNCHANGED <<node, runs>>
      PROVE  CountInv(c)'
  <2>1. /\ wk'[w].pc = "get" /\ wk'[w].ref = 0 /\ wk[w].ref = 0
        /\ \A v \in Workers \ {w} : wk'[v] = wk[v]
    BY <1>3 DEF IInv, TypeOK, CountInv, NoneYet, Took
  <2>2. NoneYet'
    BY <1>3, <2>1 DEF CountInv, NoneYet, Took
  <2>3. \A v \in Workers : Took(v) => Took(v)' /\ wk'[v] = wk[v]
    BY <1>3, <2>1 DEF Took
  <2>4. \A v \in Workers : Took(v)' =>
          Took(v) /\ wk'[v] = wk[v] /\ (Good(v)' => Good(v))
    BY <1>3, <2>1 DEF Took, Good, Is
  <2>5. TakenInv'
    BY <1>3, <2>3 DEF CountInv, TakenInv
  <2>6. OwnerInv(c)'
    BY <1>1, <1>3, <2>4 DEF CountInv, OwnerInv, HeldByRun
  <2>7. CountedInv'
    <3> SUFFICES ASSUME NEW u \in Workers, Took(u)', Good(u)',
                        \A v \in Workers \ {u} : wk'[v].ref # wk'[u].ref
                 PROVE  Counted(node[wk[u].name], runs[u].all, Running(u))
      BY <1>3, <2>4 DEF CountedInv, Counted, Running
    <3>1. Took(u) /\ Good(u) /\ wk'[u] = wk[u]
      BY <2>4
    <3>2. \A v \in Workers \ {u} : wk[v].ref # wk[u].ref
      BY <2>1, <3>1
    <3> QED BY <3>1, <3>2 DEF CountInv, CountedInv
  <2> QED BY <2>2, <2>5, <2>6, <2>7 DEF CountInv
<1> QED BY <1>2, <1>3 DEF RunTest, Crash

\* With one caller the node is still there when Run assigns the thread.
LEMMA RunAssignCounts ==
    ASSUME IInv, NEW c, Callers = {c}, CountInv(c), RunAssign(c)
    PROVE  CountInv(c)'
<1> DEFINE n == call[c].name
           w == call[c].th
<1>1. call[c].pc = "assign" /\ n \in Names
  BY CallIs DEF RunAssign
<1>2. Is(n, call[c].ref)
  BY <1>1 DEF IInv, AloneInv
<1>3. CASE Crash
  BY <1>3, CountSame DEF Crash, CountInv, OwnerInv, HeldByRun, Took, Good, Is
<1>4. CASE ~Crash
  <2>1. /\ node[n].thr = 0 /\ node' = [node EXCEPT ![n].thr = w]
        /\ UNCHANGED <<wk, runs>>
    BY <1>2, <1>4 DEF RunAssign
  <2> DEFINE new == [node[n] EXCEPT !.thr = w]
  <2>2. node[n] \in Node /\ node[n] # None
    BY <1>1, <1>2, NodeIs DEF Is
  <2>3. /\ new.thr = w /\ new.gen = node[n].gen /\ new.stop = node[n].stop
        /\ new.cnt = node[n].cnt /\ new.cyc = node[n].cyc
        /\ new.rep = node[n].rep
    BY <2>2 DEF Node
  <2>4. node' = [node EXCEPT ![n] = new]
    BY <2>1
  <2> HIDE DEF new
  <2>5. \A m \in Names : node'[m] = IF m = n THEN new ELSE node[m]
    BY <1>1, <2>4, NodeIs
  <2>6. new # None
    <3>1. call[c] \in Call /\ w \in 0 .. MaxWorkers
      BY CallIs DEF Call
    <3>2. new \in Node
      BY <2>2, <3>1 DEF new, Node
    <3> QED BY <3>2, NoneIsNoNode DEF NoneIsNoNode
  <2>7. \A v \in Workers : Took(v) => (Good(v)' <=> Good(v))
    BY <2>1, <2>2, <2>3, <2>5, <2>6, TookIs DEF Good, Is
  <2>8. OwnerInv(c)'
    <3> SUFFICES ASSUME NEW v \in Workers, Took(v), Good(v)
                 PROVE  node'[wk[v].name].thr = v
      BY <2>1, <2>7 DEF OwnerInv, Took
    <3>1. wk[v].name \in Names /\ v # 0
      BY TookIs
    <3>2. node[wk[v].name].thr = v \/ HeldByRun(c, v)
      BY <1>1 DEF CountInv, OwnerInv
    <3>3. CASE node[wk[v].name].thr = v
      BY <2>1, <2>5, <3>1, <3>3
    <3>4. CASE HeldByRun(c, v)
      <4>1. v = w /\ wk[v].name = n
        BY <1>1, <3>4 DEF HeldByRun, IInv, HandInv
      <4> QED BY <1>1, <2>3, <2>5, <4>1
    <3> QED BY <3>2, <3>3, <3>4
  <2>9. NoneYet'
    BY <2>1 DEF CountInv, NoneYet, Took
  <2>10. TakenInv'
    <3> SUFFICES ASSUME NEW m \in Names, node'[m] # None, node'[m].cnt # 0
                 PROVE  \E v \in Workers : Took(v) /\ wk[v].name = m
                                           /\ wk[v].ref = node'[m].gen
      BY <2>1 DEF TakenInv, Took
    <3>1. node[m] # None /\ node[m].cnt # 0 /\ node'[m].gen = node[m].gen
      BY <2>2, <2>3, <2>5
    <3> QED BY <3>1 DEF CountInv, TakenInv
  <2>11. CountedInv'
    <3> SUFFICES ASSUME NEW u \in Workers, Took(u), Good(u),
                        \A v \in Workers \ {u} : wk[v].ref # wk[u].ref
                 PROVE  Counted(node'[wk[u].name], runs[u].all, Running(u))
      BY <2>1, <2>7 DEF CountedInv, Counted, Running, Took
    <3>1. wk[u].name \in Names
      BY TookIs
    <3>2. Counted(node[wk[u].name], runs[u].all, Running(u))
      BY DEF CountInv, CountedInv
    <3> QED BY <2>3, <2>5, <3>1, <3>2 DEF Counted
  <2> QED BY <2>8, <2>9, <2>10, <2>11 DEF CountInv
<1> QED BY <1>3, <1>4

LEMMA DeRegisterCounts ==
    ASSUME IInv, NEW c \in Callers, CountInv(c),
           DeRegisterStop(c) \/ DeRegisterJoin(c) \/ DeRegisterErase(c)
    PROVE  CountInv(c)'
<1> DEFINE n == call[c].name
<1>1. call[c].pc \in {"stop", "join", "erase"} /\ n \in Names
  BY CallIs DEF DeRegisterStop, DeRegisterJoin, DeRegisterErase
<1>2. CASE Crash
  BY <1>2, CountSame DEF Crash, CountInv, OwnerInv, HeldByRun, Took, Good, Is
<1>3. CASE ~Crash /\ DeRegisterStop(c)
  <2>1. call[c].pc = "stop" /\ UNCHANGED <<wk, runs>>
    BY <1>3 DEF DeRegisterStop
  <2>2. CASE UNCHANGED node
    BY <2>1, <2>2, OwnerSame, CountSame
  <2>3. CASE Is(n, call[c].ref) /\ node' = [node EXCEPT ![n].stop = TRUE]
    <3> DEFINE new == [node[n] EXCEPT !.stop = TRUE]
    <3>1. node[n] \in Node /\ node[n] # None
      BY <1>1, <2>3, NodeIs DEF Is
    <3>2. /\ new \in Node /\ new.thr = node[n].thr /\ new.cnt = node[n].cnt
          /\ new.cyc = node[n].cyc /\ new.rep = node[n].rep /\ new.stop
          /\ new.gen = node[n].gen
      BY <3>1 DEF Node
    <3>3. node' = [node EXCEPT ![n] = new]
      BY <2>3
    <3> HIDE DEF new, n
    <3>4. Fate(node[n], new)
      BY <3>1, <3>2, NoneIsNoNode DEF Fate, NoneIsNoNode
    <3>5. OwnerInv(c)'
      BY <1>1, <2>1, <3>2, <3>3, <3>4, OwnerFate
    <3> QED BY <1>1, <2>1, <3>1, <3>2, <3>3, <3>4, <3>5, CountFate
  <2> QED BY <1>3, <2>2, <2>3 DEF DeRegisterStop
<1>4. CASE ~Crash /\ DeRegisterJoin(c)
  <2>1. call[c].pc = "join" /\ UNCHANGED <<wk, runs>>
    BY <1>4 DEF DeRegisterJoin
  <2>2. CASE UNCHANGED node
    BY <2>1, <2>2, OwnerSame, CountSame
  <2>3. CASE /\ Is(n, call[c].ref) /\ wk[node[n].thr].pc = "done"
             /\ node' = [node EXCEPT ![n].thr = 0] /\ Goto(c, "erase")
    <3> DEFINE new == [node[n] EXCEPT !.thr = 0]
    <3>1. node[n] \in Node /\ node[n] # None
      BY <1>1, <2>3, NodeIs DEF Is
    <3>2. /\ new \in Node /\ new.thr = 0 /\ new.cnt = node[n].cnt
          /\ new.cyc = node[n].cyc /\ new.rep = node[n].rep
          /\ new.stop = node[n].stop /\ new.gen = node[n].gen
      BY <3>1, BoundsAssumption DEF Node, BoundsAssumption
    <3>3. node' = [node EXCEPT ![n] = new]
      BY <2>3
    <3> HIDE DEF new
    <3>4. Fate(node[n], new)
      BY <2>3, <3>1, <3>2, NoneIsNoNode DEF Fate, NoneIsNoNode
    <3>5. call'[c].pc = "erase" /\ call'[c].name = n
      BY <2>3, CallIs DEF Goto, Call
    <3> HIDE DEF n
    <3>6. OwnerInv(c)'
      BY <1>1, <2>1, <3>2, <3>3, <3>4, <3>5, OwnerFate
    <3> QED BY <1>1, <2>1, <3>1, <3>2, <3>3, <3>4, <3>6, CountFate
  <2> QED BY <1>4, <2>2, <2>3 DEF DeRegisterJoin
<1>5. CASE ~Crash /\ DeRegisterErase(c)
  <2>1. /\ UNCHANGED <<wk, runs>> /\ call[c].pc = "erase"
        /\ node[n] # None => node[n].thr = 0
        /\ node' = [node EXCEPT ![n] = None]
    BY <1>5 DEF DeRegisterErase
  <2>2. Fate(node[n], None)
    BY <2>1 DEF Fate
  <2>3. OwnerInv(c)'
    <3> SUFFICES ASSUME NEW w \in Workers, Took(w), Good(w)'
                 PROVE  node'[wk[w].name].thr = w
      BY <2>1 DEF OwnerInv, Took
    <3>1. \A m \in Names : node'[m] = IF m = n THEN None ELSE node[m]
      BY <1>1, <2>1, NodeIs
    <3>2. wk[w].name \in Names /\ wk[w].name # n
      BY <2>1, <3>1, TookIs DEF Good, Is
    <3>3. node'[wk[w].name] = node[wk[w].name] /\ Good(w)
      BY <2>1, <3>1, <3>2 DEF Good, Is
    <3> QED BY <2>1, <3>2, <3>3 DEF CountInv, OwnerInv, HeldByRun
  <2> HIDE DEF n
  <2> QED BY <1>1, <2>1, <2>2, <2>3, CountFate
<1> QED BY <1>2, <1>3, <1>4, <1>5

\* The first reference to a node finds it without calls.
LEMMA WkGetCounts ==
    ASSUME IInv, NEW c \in Callers, CountInv(c), Callers = {c},
           NEW w \in Workers, WkGet(w), ~Crash
    PROVE  CountInv(c)'
<1> DEFINE n == wk[w].name
<1>1. /\ wk[w].pc = "get" /\ Running(w) /\ UNCHANGED <<call, runs>>
      /\ GetWorkItem(n)
      /\ wk' = [wk EXCEPT ![w].pc = "loop", ![w].ref = node'[n].gen]
  BY DEF WkGet, Running
<1>2. n \in Names /\ wk \in [Workers -> Thread] /\ wk[w] \in Thread /\ w # 0
  BY <1>1, WorkerIs DEF Workers
<1>3. /\ node[n] # None
      /\ node[n].thr = w \/ HeldByRun(c, w)
  <2>1. lost = {}
    BY DEF IInv, AloneInv
  <2>2. CASE node[n] # None /\ node[n].thr = w
    BY <2>2
  <2>3. CASE HeldByRun(c, w)
    <3>1. call[c].name = n /\ Is(call[c].name, call[c].ref)
      BY <2>3 DEF HeldByRun, IInv, HandInv, AloneInv
    <3> QED BY <2>3, <3>1 DEF Is
  <2> QED BY <1>1, <2>1, <2>2, <2>3 DEF IInv, HeldInv
<1>4. node' = node
  BY <1>1, <1>3 DEF GetWorkItem
<1>5. /\ wk'[w].pc = "loop" /\ wk'[w].name = n /\ wk'[w].ref = node[n].gen
      /\ \A v \in Workers \ {w} : wk'[v] = wk[v]
  BY <1>1, <1>2, <1>4 DEF Thread
<1>6. wk[w].ref = 0 /\ runs[w].all = 0 /\ ~Took(w) /\ Took(w)'
  BY <1>1, <1>5 DEF CountInv, NoneYet, Took
<1>7. NoneYet'
  BY <1>1, <1>5, <1>6 DEF CountInv, NoneYet, Took
<1>8. \A v \in Workers \ {w} : /\ Took(v)' <=> Took(v)
                               /\ Good(v)' <=> Good(v)
                               /\ Running(v)' <=> Running(v)
  BY <1>4, <1>5 DEF Took, Good, Is, Running
<1> HIDE DEF n
<1>9. TakenInv'
  BY <1>4, <1>5, <1>6, <1>8 DEF CountInv, TakenInv
<1>10. OwnerInv(c)'
  BY <1>1, <1>3, <1>4, <1>5, <1>8 DEF CountInv, OwnerInv, HeldByRun
<1>11. CountedInv'
  <2> SUFFICES ASSUME NEW u \in Workers, Took(u)', Good(u)',
                      \A v \in Workers \ {u} : wk'[v].ref # wk'[u].ref
               PROVE  Counted(node[wk'[u].name], runs[u].all, Running(u)')
    BY <1>1, <1>4 DEF CountedInv, Counted, Running
  <2>1. CASE u = w
    <3>1. \A v \in Workers \ {w} : wk[v].ref # node[n].gen
      BY <1>5, <2>1
    <3>2. ~ \E v \in Workers : Took(v) /\ wk[v].name = n /\ wk[v].ref = node[n].gen
      BY <1>6, <3>1
    <3>3. node[n].cnt = 0
      BY <1>2, <1>3, <3>2 DEF CountInv, TakenInv, n
    <3>4. node[n].rep \in Nat
      BY <1>2, <1>3, NodeIs, NodeNat DEF n
    <3>5. Running(w)'
      BY <1>5 DEF Running
    <3>6. Counted(node[n], runs[w].all, TRUE)
      BY <1>6, <3>3, <3>4 DEF Counted
    <3> QED BY <1>5, <2>1, <3>5, <3>6 DEF Counted
  <2>2. CASE u # w
    <3>1. Took(u) /\ Good(u) /\ wk'[u] = wk[u] /\ (Running(u)' <=> Running(u))
      BY <1>5, <1>8, <2>2
    <3>2. wk[u].ref # 0
      <4>1. node[wk[u].name] \in Node /\ node[wk[u].name].gen = wk[u].ref
        BY <3>1, TookIs, NodeIs DEF Good, Is
      <4> QED BY <4>1, NodeNat
    <3>3. \A v \in Workers \ {u} : wk[v].ref # wk[u].ref
      BY <1>5, <1>6, <3>1, <3>2
    <3>4. Counted(node[wk[u].name], runs[u].all, Running(u))
      BY <3>1, <3>3 DEF CountInv, CountedInv
    <3> QED BY <3>1, <3>4 DEF Counted
  <2> QED BY <2>1, <2>2
<1> QED BY <1>7, <1>9, <1>10, <1>11 DEF CountInv

\* A worker that uses its reference: pc changes and nothing else.
LEMMA WkStepIs ==
    ASSUME IInv, NEW w \in Workers, Active(w), NEW pc \in {"loop", "invoke", "done"},
           wk' = [wk EXCEPT ![w].pc = pc]
    PROVE  /\ wk'[w].pc = pc
           /\ \A v \in Workers :
                /\ wk'[v].name = wk[v].name /\ wk'[v].ref = wk[v].ref
                /\ v # w => wk'[v] = wk[v]
                /\ Took(v)' <=> Took(v)
  BY DEF IInv, TypeOK, Active, Took

LEMMA WkLoopCounts ==
    ASSUME IInv, NEW c, CountInv(c), NEW w \in Workers, WkLoop(w), ~Crash
    PROVE  CountInv(c)'
<1>1. Active(w) /\ UNCHANGED <<node, call, runs>>
  BY DEF WkLoop, Active
<1>2. PICK pc \in {"invoke", "done"} :
        /\ wk' = [wk EXCEPT ![w].pc = pc]
        /\ Good(w) /\ pc = "done" => node[wk[w].name].stop
  <2>1. PICK stop \in BOOLEAN :
          /\ Good(w) => stop = node[wk[w].name].stop
          /\ wk' = [wk EXCEPT ![w].pc = IF stop THEN "done" ELSE "invoke"]
    BY DEF WkLoop
  <2>2. CASE stop
    BY <2>1, <2>2
  <2>3. CASE ~stop
    BY <2>1, <2>3
  <2> QED BY <2>1, <2>2, <2>3
<1>3. /\ wk'[w].pc = pc
      /\ \A v \in Workers :
           /\ wk'[v].name = wk[v].name /\ wk'[v].ref = wk[v].ref
           /\ v # w => wk'[v] = wk[v]
           /\ Took(v)' <=> Took(v)
  BY <1>1, <1>2, WkStepIs
<1>4. \A v \in Workers : Good(v)' <=> Good(v)
  BY <1>1, <1>3 DEF Good, Is
<1>5. NoneYet' /\ TakenInv' /\ OwnerInv(c)'
  BY <1>1, <1>3, <1>4 DEF CountInv, NoneYet, TakenInv, OwnerInv, HeldByRun
<1>6. CountedInv'
  <2> SUFFICES ASSUME NEW u \in Workers, Took(u), Good(u),
                      \A v \in Workers \ {u} : wk[v].ref # wk[u].ref
               PROVE  Counted(node[wk[u].name], runs[u].all, Running(u)')
    BY <1>1, <1>3, <1>4 DEF CountedInv, Counted, Running
  <2>1. Counted(node[wk[u].name], runs[u].all, Running(u))
    BY DEF CountInv, CountedInv
  <2>2. CASE u # w
    BY <1>3, <2>1, <2>2 DEF Running
  <2>3. CASE u = w
    <3>1. Counted(node[wk[w].name], runs[w].all, TRUE)
      BY <1>1, <2>1, <2>3 DEF Counted, Active, Running
    <3>2. Running(w)' \/ node[wk[w].name].stop
      BY <1>2, <1>3, <2>3 DEF Running
    <3>3. node[wk[w].name].rep \in Nat /\ node[wk[w].name].cnt \in Nat
      BY <2>3, TookIs, NodeIs, NodeNat DEF Good, Is
    <3> QED BY <2>3, <3>1, <3>2, <3>3 DEF Counted
  <2> QED BY <2>2, <2>3
<1> QED BY <1>5, <1>6 DEF CountInv

LEMMA WkInvokeCounts ==
    ASSUME IInv, NEW c, CountInv(c), NEW w \in Workers, WkInvoke(w), ~Crash
    PROVE  CountInv(c)'
<1> DEFINE n == wk[w].name
<1>1. Active(w) /\ Took(w) /\ Running(w)
  BY DEF WkInvoke, Active, Took, Running
<1>2. CASE ~Good(w)
  <2>1. UNCHANGED <<node, call, runs>>
    BY <1>2 DEF WkInvoke
  <2>2. PICK pc \in {"done", "loop"} : wk' = [wk EXCEPT ![w].pc = pc]
    BY <1>2 DEF WkInvoke
  <2>3. \A v \in Workers :
           /\ wk'[v].name = wk[v].name /\ wk'[v].ref = wk[v].ref
           /\ v # w => wk'[v] = wk[v]
           /\ Took(v)' <=> Took(v)
    BY <1>1, <2>2, WkStepIs
  <2>4. \A v \in Workers : Good(v)' <=> Good(v)
    BY <2>1, <2>3 DEF Good, Is
  <2>5. NoneYet' /\ TakenInv' /\ OwnerInv(c)'
    BY <2>1, <2>3, <2>4 DEF CountInv, NoneYet, TakenInv, OwnerInv, HeldByRun
  <2>6. CountedInv'
    BY <1>2, <2>1, <2>3, <2>4 DEF CountInv, CountedInv, Counted, Running
  <2> QED BY <2>5, <2>6 DEF CountInv
<1>3. CASE Good(w)
  <2> DEFINE last == LastRun(node[n], node[n].cnt + 1)
  <2>1. /\ n \in Names /\ node[n] \in Node /\ node[n] # None
        /\ \A m \in Names \ {n} : node'[m] = node[m]
        /\ node'[n] # None /\ node'[n].gen = node[n].gen
        /\ node'[n].thr = node[n].thr
        /\ node'[n].stop = node[n].stop /\ node'[n].cyc = node[n].cyc
        /\ node'[n].rep = node[n].rep /\ node'[n].cnt = node[n].cnt + 1
        /\ \A v \in Workers \ {w} : runs'[v] = runs[v]
        /\ runs'[w].all = runs[w].all + 1
        /\ wk' = [wk EXCEPT ![w].pc = IF last THEN "done" ELSE "loop"]
        /\ UNCHANGED call
    BY <1>3, InvokeIs DEF Good, Is
  <2>2. PICK pc \in {"done", "loop"} :
          wk' = [wk EXCEPT ![w].pc = pc] /\ (pc = "done" <=> last)
    <3>1. CASE last
      BY <2>1, <3>1
    <3>2. CASE ~last
      BY <2>1, <3>2
    <3> QED BY <3>1, <3>2
  <2>3. /\ wk'[w].pc = pc
        /\ \A v \in Workers :
             /\ wk'[v].name = wk[v].name /\ wk'[v].ref = wk[v].ref
             /\ v # w => wk'[v] = wk[v]
             /\ Took(v)' <=> Took(v)
    BY <1>1, <2>2, WkStepIs
  <2> HIDE DEF last, n
  <2>4. \A m \in Names :
          /\ node[m] = None => node'[m] = None
          /\ node[m] # None => /\ node'[m] # None
                               /\ node'[m].gen = node[m].gen
                               /\ node'[m].thr = node[m].thr
    BY <2>1
  <2>5. ASSUME NEW v \in Workers, Took(v)
        PROVE  Good(v)' <=> Good(v)
    <3>1. wk[v].name \in Names /\ wk'[v].name = wk[v].name /\ wk'[v].ref = wk[v].ref
      BY <2>3, <2>5, TookIs
    <3>2. CASE node[wk[v].name] = None
      BY <2>4, <3>1, <3>2 DEF Good, Is
    <3>3. CASE node[wk[v].name] # None
      BY <2>4, <3>1, <3>3 DEF Good, Is
    <3> QED BY <3>2, <3>3
  <2>6. NoneYet'
    BY <1>1, <2>1, <2>3 DEF CountInv, NoneYet
  <2>7. TakenInv'
    <3> SUFFICES ASSUME NEW m \in Names, node[m] # None, node'[m].cnt # 0
                 PROVE  \E v \in Workers : Took(v) /\ wk[v].name = m
                                           /\ wk[v].ref = node[m].gen
      <4>1. \A m \in Names : node'[m] # None =>
              node[m] # None /\ node'[m].gen = node[m].gen
        BY <2>4
      <4> QED BY <2>3, <4>1 DEF TakenInv
    <3>1. CASE m = n
      BY <1>1, <1>3, <3>1 DEF Good, Is, n
    <3>2. CASE m # n
      BY <2>1, <3>2 DEF CountInv, TakenInv
    <3> QED BY <3>1, <3>2
  <2>8. OwnerInv(c)'
    <3> SUFFICES ASSUME NEW v \in Workers, Took(v), Good(v)
                 PROVE  \/ node'[wk[v].name].thr = v
                        \/ HeldByRun(c, v)
                        \/ call[c].pc = "erase" /\ call[c].name = wk[v].name
      BY <2>1, <2>3, <2>5 DEF OwnerInv, HeldByRun
    <3>1. wk[v].name \in Names /\ node[wk[v].name] # None
      BY TookIs DEF Good, Is
    <3>2. node'[wk[v].name].thr = node[wk[v].name].thr
      BY <2>4, <3>1
    <3> QED BY <3>2 DEF CountInv, OwnerInv
  <2>9. CountedInv'
    <3> SUFFICES ASSUME NEW u \in Workers, Took(u), Good(u),
                        \A v \in Workers \ {u} : wk[v].ref # wk[u].ref
                 PROVE  Counted(node'[wk[u].name], runs'[u].all, Running(u)')
      BY <2>3, <2>5 DEF CountedInv, Counted, Running
    <3>1. Counted(node[wk[u].name], runs[u].all, Running(u))
      BY DEF CountInv, CountedInv
    <3>2. CASE u # w
      <4>1. wk[u].name # n
        <5>1. wk[w].ref = node[n].gen /\ node[wk[u].name].gen = wk[u].ref
          BY <1>3 DEF Good, Is, n
        <5> QED BY <3>2, <5>1
      <4>2. node'[wk[u].name] = node[wk[u].name]
        BY <2>1, <4>1, TookIs
      <4> QED BY <2>1, <2>3, <3>1, <3>2, <4>2 DEF Counted, Running
    <3>3. CASE u = w
      <4>1. node[n].rep \in Nat /\ node[n].cnt \in Nat
        BY <2>1, NodeNat
      <4>2. Counted(node[n], runs[w].all, TRUE)
        BY <1>1, <3>1, <3>3 DEF Counted, n
      <4>3. Running(w)' <=> ~last
        BY <2>2, <2>3 DEF Running
      <4>4. node[n].cyc => (last <=> node[n].cnt + 1 >= node[n].rep)
        BY DEF last, LastRun
      <4> DEFINE r == node'[n]
                 a == runs'[w].all
      <4>5. /\ r.cnt = node[n].cnt + 1 /\ r.rep = node[n].rep
            /\ r.cyc = node[n].cyc /\ a = runs[w].all + 1
        BY <2>1
      <4> HIDE DEF r, a
      <4>6. Counted(r, a, ~last)
        BY <4>1, <4>2, <4>4, <4>5 DEF Counted
      <4> QED BY <3>3, <4>3, <4>6 DEF Counted, r, a, n
    <3> QED BY <3>2, <3>3
  <2> QED BY <2>6, <2>7, <2>8, <2>9 DEF CountInv
<1> QED BY <1>2, <1>3

LEMMA CountInductive ==
    ASSUME NEW c, Callers = {c}
    PROVE  IInv /\ CountInv(c) /\ [Next]_vars => CountInv(c)'
<1> SUFFICES ASSUME IInv, CountInv(c), [Next]_vars PROVE CountInv(c)'
  OBVIOUS
<1>1. CASE UNCHANGED vars \/ Crash
  BY <1>1, CountSame
     DEF vars, Crash, CountInv, OwnerInv, HeldByRun, Took, Good, Is
<1>2. CASE ~Crash /\ (Run(c) \/ DeRegister(c) \/ RunInvoke(c))
  BY <1>2, CountSame, OwnerSame DEF Run, DeRegister, RunInvoke, Find
<1>3. CASE Register(c) \/ RunGet(c) \/ RunTest(c) \/ RunAssign(c)
           \/ DeRegisterGet(c) \/ DeRegisterStop(c) \/ DeRegisterJoin(c)
           \/ DeRegisterErase(c)
  BY <1>3, RegisterCounts, TakeCounts, RunTestCounts, RunAssignCounts,
     DeRegisterCounts
<1>4. ASSUME NEW w \in Workers, Work(w), ~Crash PROVE CountInv(c)'
  BY <1>4, WkGetCounts, WkLoopCounts, WkInvokeCounts DEF Work
<1> QED BY <1>1, <1>2, <1>3, <1>4 DEF Next, Resume

\* With one caller a cyclic item with a dwRepeatCnt that is not 0 is called that
\* often unless it is stopped, and never more often, for any names and counts.
THEOREM RunsAsRegistered ==
    ASSUME NEW c, Callers = {c}
    PROVE  Spec => []RunsAsConfigured
<1>1. Init => CountInv(c)
  BY DEF Init, CountInv, NoneYet, TakenInv, OwnerInv, CountedInv, Took, NoRuns
<1>2. IInv /\ CountInv(c) => RunsAsConfigured
  <2> SUFFICES ASSUME IInv, CountInv(c), NEW w \in Workers,
                      wk[w].pc \notin {"none", "get"}, Good(w),
                      node[wk[w].name].cyc, node[wk[w].name].rep > 0,
                      \A v \in Workers \ {w} : wk[v].ref # wk[w].ref
               PROVE  LET m == node[wk[w].name] IN
                      /\ runs[w].all <= m.rep
                      /\ wk[w].pc = "done" /\ ~m.stop => runs[w].all = m.rep
    BY DEF RunsAsConfigured
  <2>1. Took(w)
    BY DEF Took
  <2>2. Counted(node[wk[w].name], runs[w].all, Running(w))
    BY <2>1 DEF CountInv, CountedInv
  <2>3. node[wk[w].name].rep \in Nat /\ node[wk[w].name].cnt \in Nat
    BY <2>1, TookIs, NodeIs, NodeNat DEF Good, Is
  <2> QED BY <2>2, <2>3 DEF Counted, Running
<1> QED BY <1>1, <1>2, Invariance, CountInductive, PTL DEF Spec
=============================================================================
