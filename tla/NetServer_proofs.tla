-------------------------- MODULE NetServer_proofs --------------------------
(***************************************************************************)
(* Proofs about NetServer, for any clients, any handles and any bounds.    *)
(***************************************************************************)
EXTENDS NetServer, FiniteSetTheorems, TLAPS

----------------------------------------------------------------------------
(* The parts of the inductive invariant. *)

Serving == {"start", "recv", "insert", "close"}

\* The listen thread holds a connection only between accept and the map.
ListenInv ==
    IF listen.pc = "insert" THEN listen.conn \in Clients /\ listen.handle \in Handles
                            ELSE listen.conn = None

\* A connection is accepted before it is served, and served before its handler
\* runs.
ThreadsInv ==
    \A c \in Clients :
        /\ peer[c] \in {"idle", "pending"} => rx[c].pc = "none"
        /\ rx[c].pc \in {"none", "start"} => handler[c].pc = "none"
        /\ rx[c].pc # "none" => rx[c].handle \in Handles

\* _mapIdToClientInfo has the keys up to _dwID.
IdsInv == \/ DOMAIN clientInfo = {} /\ dwID = 0
          \/ DOMAIN clientInfo = 0 .. dwID

\* While a connection is served its handle is open and stands for it.
OwnerInv == \A c \in Clients : rx[c].pc \in Serving => owner[rx[c].handle] = c

\* The packets of c in the function, and in the hand of the receive thread.
InFunc(c) == IF handler[c].pc = "func" THEN 1 ELSE 0
InHand(c) == IF rx[c].pc = "insert" THEN 1 ELSE 0

\* What was taken out of a connection has been handled, or is in the function,
\* or queued, or in the hand of the receive thread, in this order.
Pipe(c) ==
    LET h == Len(handled[c])
        f == h + InFunc(c)
        q == f + Len(handler[c].queue) IN
    /\ taken[c] = q + InHand(c)
    /\ \A i \in 1 .. h : handled[c][i] = [from |-> c, n |-> i]
    /\ handler[c].pc = "func" => handler[c].pkt = [from |-> c, n |-> f]
    /\ \A i \in 1 .. Len(handler[c].queue) :
           handler[c].queue[i] = [from |-> c, n |-> f + i]
    /\ rx[c].pc = "insert" => rx[c].pkt = [from |-> c, n |-> q + 1]

PipeInv == \A c \in Clients : Pipe(c)

IInv == TypeOK /\ ListenInv /\ ThreadsInv /\ IdsInv /\ OwnerInv /\ PipeInv

----------------------------------------------------------------------------
(* Facts about the operators of NetServer. *)

LEMMA FreeIdValue ==
    ASSUME dwID \in Nat, IdsInv
    PROVE  FreeId = IF DOMAIN clientInfo = {} THEN 0 ELSE dwID + 1
<1>1. CASE DOMAIN clientInfo = {} /\ dwID = 0
  <2>1. Cardinality(DOMAIN clientInfo) = 0
    BY <1>1, FS_EmptySet
  <2> QED BY <1>1, <2>1 DEF FreeId
<1>2. CASE DOMAIN clientInfo = 0 .. dwID
  <2>1. Cardinality(DOMAIN clientInfo) = dwID + 1
    BY <1>2, FS_Interval
  <2> DEFINE P(i) == /\ i \notin 0 .. dwID
                     /\ dwID .. i - 1 \subseteq 0 .. dwID
  <2>2. FreeId = CHOOSE i \in dwID .. dwID + (dwID + 1) : P(i)
    BY <1>2, <2>1 DEF FreeId
  <2>3. P(dwID + 1)
    OBVIOUS
  <2>4. \A i \in dwID .. dwID + (dwID + 1) : P(i) => i = dwID + 1
    OBVIOUS
  <2> HIDE DEF P
  <2>5. dwID + 1 \in dwID .. dwID + (dwID + 1)
    OBVIOUS
  <2>6. FreeId = dwID + 1
    BY <2>2, <2>3, <2>4, <2>5
  <2>7. DOMAIN clientInfo # {}
    BY <1>2
  <2> QED BY <2>6, <2>7
<1> QED BY <1>1, <1>2 DEF IdsInv

LEMMA FreeIdIsFree ==
    ASSUME dwID \in Nat, IdsInv
    PROVE  FreeId \in Nat /\ FreeId \notin DOMAIN clientInfo
BY FreeIdValue DEF IdsInv

\* The first key at or after a natural number, when there is one.
LEMMA LeastKey ==
    ASSUME dwID \in Nat, IdsInv, NEW at \in Nat,
           NEW left, left = {id \in DOMAIN clientInfo : id >= at}, left # {}
    PROVE  /\ at \in left
           /\ (CHOOSE i \in left : \A j \in left : i <= j) = at
<1>1. DOMAIN clientInfo = 0 .. dwID
  BY DEF IdsInv
<1>2. at \in left /\ \A j \in left : at <= j
  BY <1>1
<1>3. \A i \in left : (\A j \in left : i <= j) => i = at
  BY <1>1, <1>2
<1> QED BY <1>2, <1>3

LEMMA SendToType ==
    ASSUME TypeOK, NEW h \in Handles
    PROVE  SendTo(h) \in Clients \cup {None}
BY DEF SendTo, TypeOK

----------------------------------------------------------------------------
(* Type correctness is preserved. *)

LEMMA ListenTyped ==
    ASSUME listen \in ListenState
    PROVE  /\ \A pc \in ListenPc : [listen EXCEPT !.pc = pc] \in ListenState
           /\ ListenLoop => listen' \in ListenState
<1>1. \A pc \in ListenPc : [listen EXCEPT !.pc = pc] \in ListenState
  BY DEF ListenState
<1>2. ListenLoop => listen' \in ListenState
  BY DEF ListenState, ListenPc, ListenLoop
<1> QED BY <1>1, <1>2

\* Closing the listen socket resets its backlog at most.
LEMMA CloseResets ==
    ASSUME NEW s, CloseListenSocket(s)
    PROVE  UNCHANGED peer \/ ResetBacklog
BY DEF CloseListenSocket

LEMMA CloseTyped ==
    ASSUME TypeOK, NEW s \in ListenSocket, CloseListenSocket(s)
    PROVE  /\ peer' \in [Clients -> {"idle", "pending", "up", "fin", "rst"}]
           /\ listenSocket' \in ListenSocket
BY DEF TypeOK, CloseListenSocket, ResetBacklog

LEMMA RxTyped ==
    ASSUME rx \in [Clients -> RxState], NEW c \in Clients
    PROVE  /\ \A pc \in RxPc :
                 [rx EXCEPT ![c].pc = pc] \in [Clients -> RxState]
           /\ RxLoop(c) => rx' \in [Clients -> RxState]
<1>1. \A pc \in RxPc : [rx EXCEPT ![c].pc = pc] \in [Clients -> RxState]
  BY DEF RxState
<1>2. \A pc \in RxPc :
          [rx EXCEPT ![c].pc = pc, ![c].pkt = None] \in [Clients -> RxState]
  BY DEF RxState
<1>3. RxLoop(c) => rx' \in [Clients -> RxState]
  BY <1>2 DEF RxPc, RxLoop
<1> QED BY <1>1, <1>3

LEMMA HandlerTyped ==
    ASSUME handler \in [Clients -> HandlerState], NEW c \in Clients
    PROVE  /\ \A pc \in HandlerPc :
                 [handler EXCEPT ![c].pc = pc] \in [Clients -> HandlerState]
           /\ \A pc \in HandlerPc, p \in Packet \cup {None} :
                 [handler EXCEPT ![c].pc = pc, ![c].pkt = p]
                     \in [Clients -> HandlerState]
           /\ \A q \in Seq(Packet) :
                 [handler EXCEPT ![c].queue = q] \in [Clients -> HandlerState]
           /\ \A pc \in HandlerPc, p \in Packet, q \in Seq(Packet) :
                 [handler EXCEPT ![c].pc = pc, ![c].pkt = p, ![c].queue = q]
                     \in [Clients -> HandlerState]
           /\ [handler EXCEPT ![c].stop = TRUE] \in [Clients -> HandlerState]
<1>1. \A pc \in HandlerPc :
          [handler EXCEPT ![c].pc = pc] \in [Clients -> HandlerState]
  BY DEF HandlerState
<1>2. \A pc \in HandlerPc, p \in Packet \cup {None} :
          [handler EXCEPT ![c].pc = pc, ![c].pkt = p]
              \in [Clients -> HandlerState]
  BY DEF HandlerState
<1>3. \A q \in Seq(Packet) :
          [handler EXCEPT ![c].queue = q] \in [Clients -> HandlerState]
  BY DEF HandlerState
<1>4. \A pc \in HandlerPc, p \in Packet, q \in Seq(Packet) :
          [handler EXCEPT ![c].pc = pc, ![c].pkt = p, ![c].queue = q]
              \in [Clients -> HandlerState]
  BY DEF HandlerState
<1>5. [handler EXCEPT ![c].stop = TRUE] \in [Clients -> HandlerState]
  BY DEF HandlerState
<1> QED BY <1>1, <1>2, <1>3, <1>4, <1>5

\* The packets in hand are numbered by what has been taken.
LEMMA PacketsTyped ==
    ASSUME TypeOK, PipeInv, NEW c \in Clients
    PROVE  /\ rx[c].pc = "insert" => rx[c].pkt \in Packet
           /\ handler[c].pc = "func" => handler[c].pkt \in Packet
<1> DEFINE h == Len(handled[c])
           f == h + InFunc(c)
           q == f + Len(handler[c].queue)
<1>1. h \in Nat /\ Len(handler[c].queue) \in Nat
  BY DEF TypeOK, HandlerState
<1>2. InFunc(c) \in {0, 1} /\ InHand(c) \in {0, 1}
  BY DEF InFunc, InHand
<1>3. taken[c] \in 0 .. MaxPackets + 1 /\ taken[c] = q + InHand(c)
  BY DEF TypeOK, PipeInv, Pipe
<1>4. ASSUME rx[c].pc = "insert"
      PROVE  rx[c].pkt \in Packet
  <2>1. rx[c].pkt = [from |-> c, n |-> q + 1]
    BY <1>4 DEF PipeInv, Pipe
  <2>2. InHand(c) = 1
    BY <1>4 DEF InHand
  <2> HIDE DEF h
  <2>3. q + 1 \in 1 .. MaxPackets + 1
    BY <1>1, <1>2, <1>3, <2>2, BoundsAssumption
  <2> HIDE DEF q
  <2> QED BY <2>1, <2>3 DEF Packet
<1>5. ASSUME handler[c].pc = "func"
      PROVE  handler[c].pkt \in Packet
  <2>1. handler[c].pkt = [from |-> c, n |-> f]
    BY <1>5 DEF PipeInv, Pipe
  <2>2. InFunc(c) = 1
    BY <1>5 DEF InFunc
  <2> HIDE DEF h
  <2>a. taken[c] = h + 1 + Len(handler[c].queue) + InHand(c)
    BY <1>3, <2>2
  <2>b. InHand(c) \in Nat /\ taken[c] \in Nat /\ taken[c] <= MaxPackets + 1
    BY <1>2, <1>3, BoundsAssumption
  <2>c. f = h + 1
    BY <2>2
  <2> HIDE DEF f
  <2>3. f \in 1 .. MaxPackets + 1
    <3>1. \A k, m, l, i, t \in Nat :
              t = k + 1 + l + i /\ t <= m + 1 => k + 1 \in 1 .. m + 1
      OBVIOUS
    <3> QED BY <1>1, <2>a, <2>b, <2>c, <3>1, BoundsAssumption
  <2> QED BY <2>1, <2>3 DEF Packet
<1> QED BY <1>4, <1>5

LEMMA TypeCrash ==
    ASSUME TypeOK, Crash
    PROVE  TypeOK'
BY DEF TypeOK, Crash, env, stream, network, history

LEMMA TypePeer ==
    ASSUME TypeOK, NEW c \in Clients, Peer(c)
    PROVE  TypeOK'
<1>1. peer' \in [Clients -> {"idle", "pending", "up", "fin", "rst"}]
  BY DEF TypeOK, Peer, ClientConnect, ClientSend, ClientClose, ClientReset
<1>2. sent' \in [Clients -> 0 .. MaxPackets]
  <2>1. CASE ClientSend(c)
    <3>1. sent[c] + 1 \in 0 .. MaxPackets
      BY <2>1, BoundsAssumption DEF ClientSend, TypeOK
    <3> QED BY <2>1, <3>1 DEF ClientSend, TypeOK
  <2>2. CASE UNCHANGED sent
    BY <2>2 DEF TypeOK
  <2> QED BY <2>1, <2>2 DEF Peer, ClientConnect, ClientClose, ClientReset
<1>3. cut' \in [Clients -> BOOLEAN]
  BY DEF TypeOK, Peer, ClientConnect, ClientSend, ClientClose, ClientReset
<1> QED BY <1>1, <1>2, <1>3
    DEF TypeOK, Peer, ClientConnect, ClientSend, ClientClose, ClientReset,
        PeerFrame, stream, network, history

LEMMA TypeApp ==
    ASSUME TypeOK, IdsInv, App
    PROVE  TypeOK'
<1> USE DEF env, stream, network, history
<1>a. app \in AppState /\ listen \in ListenState
  BY DEF TypeOK
<1>1. CASE Crash
  BY <1>1, TypeCrash
<1>2. CASE Connect /\ ~Crash
  <2>1. app' \in AppState
    BY <1>a, <1>2, BoundsAssumption DEF Connect, AppState
  <2>2. listen' \in ListenState
    BY <1>a, <1>2, ListenTyped DEF Connect
  <2> QED BY <1>2, <2>1, <2>2 DEF Connect, TypeOK
<1>3. CASE DisConnect
  <2>1. app' \in AppState
    BY <1>a, <1>3 DEF DisConnect, AppState, AppPc
  <2>2. credit' \in [Clients -> Int]
    BY <1>3 DEF DisConnect, TypeOK
  <2> QED BY <1>3, <2>1, <2>2 DEF DisConnect, TypeOK
<1>4. CASE DisConnectReset
  <2>1. app' \in AppState
    BY <1>a, <1>4 DEF DisConnectReset, AppState, AppPc
  <2>2. CloseListenSocket("none")
    BY <1>4 DEF DisConnectReset
  <2>3. /\ peer' \in [Clients -> {"idle", "pending", "up", "fin", "rst"}]
        /\ listenSocket' \in ListenSocket
    BY <2>2, CloseTyped DEF ListenSocket
  <2> QED BY <1>4, <2>1, <2>3 DEF DisConnectReset, TypeOK
<1>5. CASE DisConnectJoin
  <2>1. app' \in AppState
    BY <1>a, <1>5 DEF DisConnectJoin, AppState, AppPc
  <2>2. listen' \in ListenState
    BY <1>a, <1>5, ListenTyped DEF DisConnectJoin, ListenPc
  <2> QED BY <1>5, <2>1, <2>2 DEF DisConnectJoin, TypeOK
<1>6. CASE Broadcast
  <2>1. {clientInfo[id].conn : id \in DOMAIN clientInfo} \subseteq Clients
    BY DEF ClientInfo, TypeOK
  <2>2. app' \in AppState
    <3>1. app.broadcasts + 1 \in 0 .. MaxBroadcasts
      BY <1>a, <1>6, BoundsAssumption DEF Broadcast, AppState
    <3>2. \A d \in SUBSET Clients, n \in 0 .. MaxBroadcasts :
              [app EXCEPT !.pc = "send", !.at = 0, !.got = {},
                          !.broadcasts = n, !.due = d] \in AppState
      BY <1>a DEF AppState, AppPc
    <3> QED BY <1>6, <2>1, <3>1, <3>2 DEF Broadcast
  <2> QED BY <1>6, <2>2 DEF Broadcast, TypeOK
<1>7. CASE BroadcastNext /\ ~Crash
  <2> DEFINE left == {id \in DOMAIN clientInfo : id >= app.at}
             id == CHOOSE i \in left : \A j \in left : i <= j
             to == SendTo(clientInfo[id].handle)
             next == [app EXCEPT !.at = id + 1,
                                 !.got = IF to = None THEN @ ELSE @ \cup {to}]
  <2>1. CASE left = {}
    <3>1. [app EXCEPT !.pc = "idle", !.at = 0, !.due = {}, !.got = {}]
              \in AppState
      BY <1>a DEF AppState, AppPc
    <3> QED BY <1>7, <2>1, <3>1 DEF BroadcastNext, TypeOK
  <2>2. CASE left # {}
    <3>1. app.at \in Nat /\ dwID \in Nat
      BY <1>a DEF AppState, TypeOK
    <3>2. app.at \in left /\ id = app.at
      <4> HIDE DEF left
      <4>1. left = {k \in DOMAIN clientInfo : k >= app.at}
        BY DEF left
      <4> QED BY <2>2, <3>1, <4>1, LeastKey
    <3>3. clientInfo[id].handle \in Handles
      BY <3>2 DEF ClientInfo, TypeOK
    <3>4. to \in Clients \cup {None}
      BY <3>3, SendToType
    <3>5. next \in AppState
      <4> HIDE DEF id, to
      <4>1. \A n \in Nat, g \in SUBSET Clients :
                [app EXCEPT !.at = n, !.got = g] \in AppState
        BY <1>a DEF AppState
      <4>2. (IF to = None THEN app.got ELSE app.got \cup {to})
                \in SUBSET Clients
        BY <1>a, <3>4 DEF AppState
      <4>3. id + 1 \in Nat
        BY <3>1, <3>2
      <4>4. next = [app EXCEPT
                       !.at = id + 1,
                       !.got = IF to = None THEN app.got ELSE app.got \cup {to}]
        OBVIOUS
      <4> HIDE DEF next
      <4> QED BY <4>1, <4>2, <4>3, <4>4
    <3>6. app' = next
      BY <1>7, <2>2 DEF BroadcastNext, MayCrash
    <3>7. UNCHANGED <<env, stream, owner, network, listen, rx, handler, crashed,
                      history>>
      BY <1>7, <2>2 DEF BroadcastNext, MayCrash
    <3> HIDE DEF next
    <3> QED BY <3>5, <3>6, <3>7 DEF TypeOK
  <2> QED BY <2>1, <2>2
<1> QED BY <1>1, <1>2, <1>3, <1>4, <1>5, <1>6, <1>7 DEF App

LEMMA TypeListen ==
    ASSUME TypeOK, ListenInv, IdsInv, Listen
    PROVE  TypeOK'
<1> USE DEF ListenFrame, stream, history
<1>a. listen \in ListenState /\ rx \in [Clients -> RxState] /\ dwID \in Nat
  BY DEF TypeOK
<1>1. CASE Crash
  BY <1>1, TypeCrash
<1>2. CASE ListenCall /\ ~Crash
  <2>1. listen' \in ListenState
    BY <1>a, <1>2, ListenTyped DEF ListenCall, ListenPc
  <2> QED BY <1>2, <2>1 DEF ListenCall, TypeOK
<1>6. CASE ListenOpen /\ ~Crash
  <2>1. listen' \in ListenState
    BY <1>a, <1>6, ListenTyped DEF ListenOpen, MayCrash, ListenPc
  <2>2. listenSocket' \in ListenSocket
    BY <1>6 DEF ListenOpen, MayCrash, ListenSocket
  <2> QED BY <1>6, <2>1, <2>2 DEF ListenOpen, MayCrash, TypeOK
<1>7. CASE ListenBind /\ ~Crash
  <2>1. listen' \in ListenState
    BY <1>a, <1>7, ListenTyped DEF ListenBind, MayCrash, ListenPc
  <2>2. \/ CloseListenSocket("broken")
        \/ listenSocket' = "bound" /\ UNCHANGED peer
    BY <1>7 DEF ListenBind, MayCrash
  <2>3. /\ peer' \in [Clients -> {"idle", "pending", "up", "fin", "rst"}]
        /\ listenSocket' \in ListenSocket
    BY <2>2, CloseTyped DEF ListenSocket, TypeOK
  <2> QED BY <1>7, <2>1, <2>3 DEF ListenBind, MayCrash, TypeOK
<1>3. CASE ListenAccept
  <2> PICK c \in Clients, h \in Handles :
         /\ peer' = [peer EXCEPT ![c] = "up"]
         /\ owner' = [owner EXCEPT ![h] = c]
         /\ listen' = [pc |-> "insert", conn |-> c, handle |-> h]
         /\ rx' = [rx EXCEPT ![c] = [pc |-> "start", handle |-> h,
                                     pkt |-> None]]
    BY <1>3 DEF ListenAccept
  <2>1. listen' \in ListenState
    BY DEF ListenState, ListenPc
  <2>2. [pc |-> "start", handle |-> h, pkt |-> None] \in RxState
    BY DEF RxState, RxPc
  <2>3. rx' \in [Clients -> RxState]
    BY <1>a, <2>2
  <2> QED BY <1>3, <2>1, <2>3 DEF ListenAccept, TypeOK
<1>4. CASE ListenFail /\ ~Crash
  <2>1. listen' \in ListenState
    BY <1>a, <1>4, ListenTyped DEF ListenFail, MayCrash
  <2> QED BY <1>4, <2>1 DEF ListenFail, MayCrash, TypeOK
<1>5. CASE ListenInsert
  <2>1. FreeId \in Nat
    BY <1>a, FreeIdIsFree
  <2>2. [conn |-> listen.conn, handle |-> listen.handle] \in ClientInfo
    BY <1>5 DEF ListenInsert, ListenInv, ClientInfo
  <2>3. /\ DOMAIN clientInfo' \subseteq Nat
        /\ \A id \in DOMAIN clientInfo' : clientInfo'[id] \in ClientInfo
    BY <1>5, <2>1, <2>2 DEF ListenInsert, TypeOK
  <2>4. listen' \in ListenState
    BY <1>a, <1>5, ListenTyped DEF ListenInsert
  <2> QED BY <1>5, <2>1, <2>3, <2>4 DEF ListenInsert, TypeOK
<1> QED BY <1>1, <1>2, <1>3, <1>4, <1>5, <1>6, <1>7 DEF Listen

LEMMA TypeRx ==
    ASSUME TypeOK, ThreadsInv, OwnerInv, PipeInv, NEW c \in Clients, Rx(c)
    PROVE  TypeOK'
<1> USE DEF RxFrame, RxGoto, env, stream, network, history
<1>a. rx \in [Clients -> RxState] /\ handler \in [Clients -> HandlerState]
  BY DEF TypeOK
<1>1. CASE Crash
  BY <1>1, TypeCrash
<1>2. CASE RxStart(c)
  <2>1. rx' \in [Clients -> RxState]
    BY <1>a, <1>2, RxTyped DEF RxStart
  <2>2. handler' \in [Clients -> HandlerState]
    BY <1>a, <1>2, HandlerTyped DEF RxStart, HandlerPc
  <2> QED BY <1>2, <2>1, <2>2 DEF RxStart, TypeOK
<1>3. CASE RxReceive(c) /\ ~Crash
  <2>1. owner[rx[c].handle] = c
    BY <1>3 DEF RxReceive, OwnerInv, Serving
  <2>2. CASE UNCHANGED taken
    <3>1. rx' \in [Clients -> RxState]
      <4>1. RxLoop(c) \/ RxGoto(c, "close")
        <5>1. taken[c] \in Int /\ taken \in [Clients -> Int]
          BY DEF TypeOK
        <5>2. taken # [taken EXCEPT ![c] = @ + 1]
          BY <5>1
        <5> QED BY <1>3, <2>1, <2>2, <5>2 DEF RxReceive, MayCrash
      <4> QED BY <1>a, <4>1, RxTyped DEF RxPc
    <3> QED BY <1>3, <2>1, <2>2, <3>1 DEF RxReceive, MayCrash, TypeOK
  <2>3. CASE taken' # taken
    <3>1. /\ taken' = [taken EXCEPT ![c] = @ + 1]
          /\ rx' = [rx EXCEPT ![c].pc = "insert",
                              ![c].pkt = [from |-> c, n |-> taken[c] + 1]]
          /\ credit' = [credit EXCEPT ![c] = IF isStop THEN @ - 1 ELSE @]
          /\ taken[c] < sent[c] \/ taken[c] = sent[c]
          /\ UNCHANGED <<handler, owner>> /\ RxFrame
      BY <1>3, <2>1, <2>3 DEF RxReceive, MayCrash
    <3>2. taken[c] + 1 \in 1 .. MaxPackets + 1
      BY <3>1, BoundsAssumption DEF TypeOK
    <3>3. [from |-> c, n |-> taken[c] + 1] \in Packet
      BY <3>2 DEF Packet
    <3>4. rx' \in [Clients -> RxState]
      BY <1>a, <3>1, <3>3 DEF RxState, RxPc
    <3>5. taken' \in [Clients -> 0 .. MaxPackets + 1]
      BY <3>1, <3>2 DEF TypeOK
    <3>6. credit' \in [Clients -> Int]
      BY <3>1 DEF TypeOK
    <3> QED BY <3>1, <3>4, <3>5, <3>6 DEF TypeOK
  <2> QED BY <2>2, <2>3
<1>4. CASE RxInsert(c)
  <2>1. rx[c].pkt \in Packet
    BY <1>4, PacketsTyped DEF RxInsert
  <2>2. Append(handler[c].queue, rx[c].pkt) \in Seq(Packet)
    BY <1>a, <2>1 DEF HandlerState
  <2>3. handler' \in [Clients -> HandlerState]
    BY <1>a, <1>4, <2>2, HandlerTyped DEF RxInsert
  <2>4. rx' \in [Clients -> RxState]
    BY <1>a, <1>4, RxTyped DEF RxInsert
  <2> QED BY <1>4, <2>3, <2>4 DEF RxInsert, TypeOK
<1>5. CASE RxClose(c) /\ ~Crash
  <2>1. rx' \in [Clients -> RxState]
    BY <1>a, <1>5, RxTyped DEF RxClose, MayCrash, RxPc
  <2> QED BY <1>5, <2>1 DEF RxClose, MayCrash, TypeOK
<1>6. CASE RxEnd(c)
  <2>1. rx' \in [Clients -> RxState]
    BY <1>a, <1>6, RxTyped DEF RxEnd, RxPc
  <2>2. handler' \in [Clients -> HandlerState]
    BY <1>a, <1>6, HandlerTyped DEF RxEnd
  <2> QED BY <1>6, <2>1, <2>2 DEF RxEnd, TypeOK
<1>7. CASE RxJoin(c)
  <2>1. rx' \in [Clients -> RxState]
    BY <1>a, <1>7, RxTyped DEF RxJoin, RxPc
  <2> QED BY <1>7, <2>1 DEF RxJoin, TypeOK
<1> QED BY <1>1, <1>2, <1>3, <1>4, <1>5, <1>6, <1>7 DEF Rx

LEMMA TypeHandler ==
    ASSUME TypeOK, ThreadsInv, PipeInv, NEW c \in Clients, Handler(c)
    PROVE  TypeOK'
<1> USE DEF HandlerFrame, env, stream, network, history
<1>a. handler \in [Clients -> HandlerState]
  BY DEF TypeOK
<1>1. CASE Crash
  BY <1>1, TypeCrash
<1>2. CASE HandlerLoop(c)
  <2>1. handler[c].queue # <<>> =>
            /\ Head(handler[c].queue) \in Packet
            /\ Tail(handler[c].queue) \in Seq(Packet)
    BY <1>a DEF HandlerState
  <2>2. handler' \in [Clients -> HandlerState]
    BY <1>a, <1>2, <2>1, HandlerTyped DEF HandlerLoop, HandlerPc
  <2> QED BY <1>2, <2>2 DEF HandlerLoop, TypeOK
<1>3. CASE HandlerWake(c)
  <2>1. handler' \in [Clients -> HandlerState]
    BY <1>a, <1>3, HandlerTyped DEF HandlerWake, HandlerPc
  <2> QED BY <1>3, <2>1 DEF HandlerWake, TypeOK
<1>4. CASE HandlerFunc(c) /\ ~Crash
  <2> DEFINE to == SendTo(rx[c].handle)
  <2>1. rx[c].handle \in Handles
    BY <1>4 DEF HandlerFunc, ThreadsInv
  <2>2. to \in Clients \cup {None}
    BY <2>1, SendToType
  <2>3. handler[c].pkt \in Packet
    BY <1>4, PacketsTyped DEF HandlerFunc
  <2>a. handler' = [handler EXCEPT ![c].pc = "loop", ![c].pkt = None]
        /\ handled' = [handled EXCEPT ![c] = Append(@, handler[c].pkt)]
    BY <1>4 DEF HandlerFunc, MayCrash
  <2>4. handler' \in [Clients -> HandlerState]
    BY <1>a, <2>a, HandlerTyped DEF HandlerPc
  <2>5. handled' \in [Clients -> Seq(Packet)]
    <3>1. handled \in [Clients -> Seq(Packet)]
      BY DEF TypeOK
    <3>2. Append(handled[c], handler[c].pkt) \in Seq(Packet)
      BY <2>3, <3>1
    <3> QED BY <2>a, <3>1, <3>2
  <2>6. strays' \subseteq Stray
    <3> HIDE DEF to
    <3>1. strays' = strays
              \/ (to # None /\ strays' = strays \cup
                     {[req |-> c, to |-> to,
                       closed |-> rx[c].pc \in {"end", "join", "done"}]})
      BY <1>4 DEF HandlerFunc, MayCrash, to
    <3>2. to # None => [req |-> c, to |-> to,
                        closed |-> rx[c].pc \in {"end", "join", "done"}]
                           \in Stray
      BY <2>2 DEF Stray
    <3>3. strays \subseteq Stray
      BY DEF TypeOK
    <3> QED BY <3>1, <3>2, <3>3
  <2> QED BY <1>4, <2>4, <2>5, <2>6 DEF HandlerFunc, MayCrash, TypeOK
<1> QED BY <1>1, <1>2, <1>3, <1>4 DEF Handler

----------------------------------------------------------------------------
(* The other parts are preserved. *)

\* What each actor leaves alone.
LEMMA Frames ==
    /\ Crash => UNCHANGED <<env, taken, credit, owner, network, listen, rx,
                            handler,
                            app, history>>
    /\ App => UNCHANGED <<sent, cut, taken, owner, dwID, clientInfo, rx,
                          handler, history>>
    /\ Listen => UNCHANGED <<sent, cut, taken, credit, isStop, server,
                             handler, app,
                         history>>
    /\ \A c \in Clients :
          /\ Peer(c) => UNCHANGED <<taken, credit, owner, network, listen, rx,
                                    handler, app, history>>
          /\ Rx(c) => UNCHANGED <<env, network, listen, app, history>>
          /\ Handler(c) => UNCHANGED <<env, taken, credit, owner, network,
                                       listen, rx,
                                       app>>
<1> USE DEF env, stream, network, history
<1>1. Crash => UNCHANGED <<env, taken, credit, owner, network, listen, rx,
                           handler,
                           app, history>>
  BY DEF Crash
<1>2. App => UNCHANGED <<sent, cut, taken, owner, dwID, clientInfo, rx,
                         handler, history>>
  BY DEF App, Connect, DisConnect, DisConnectReset, DisConnectJoin, Broadcast,
         BroadcastNext, MayCrash, Crash
<1>3. Listen => UNCHANGED <<sent, cut, taken, credit, isStop, server, handler,
                            app,
                         history>>
  BY DEF Listen, ListenCall, ListenOpen, ListenBind, ListenAccept, ListenFail,
         ListenInsert,
         ListenFrame, MayCrash, Crash
<1>4. ASSUME NEW c \in Clients
      PROVE  /\ Peer(c) => UNCHANGED <<taken, credit, owner, network, listen,
                                       rx,
                                       handler, app, history>>
             /\ Rx(c) => UNCHANGED <<env, network, listen, app, history>>
             /\ Handler(c) => UNCHANGED <<env, taken, credit, owner, network,
                                          listen,
                                          rx, app>>
  <2>1. Peer(c) => UNCHANGED <<taken, credit, owner, network, listen, rx,
                               handler,
                               app, history>>
    BY DEF Peer, ClientConnect, ClientSend, ClientClose, ClientReset, PeerFrame
  <2>2. Rx(c) => UNCHANGED <<env, network, listen, app, history>>
    BY DEF Rx, RxStart, RxReceive, RxInsert, RxClose, RxEnd, RxJoin, RxFrame,
           MayCrash, Crash
  <2>3. Handler(c) => UNCHANGED <<env, taken, credit, owner, network, listen,
                                  rx, app>>
    BY DEF Handler, HandlerLoop, HandlerWake, HandlerFunc, HandlerFrame,
           MayCrash, Crash
  <2> QED BY <2>1, <2>2, <2>3
<1> QED BY <1>1, <1>2, <1>3, <1>4

\* The listen thread goes on inside Listen.
ListenMoves ==
    /\ listen.pc \in {"call", "open", "bind"}
    /\ \E pc \in {"open", "bind", "accept"} :
           listen' = [listen EXCEPT !.pc = pc]

LEMMA ListenStep ==
    ASSUME TypeOK, ListenInv, Next
    PROVE  ListenInv'
<1> USE DEF ListenInv
<1>a. listen \in ListenState
  BY DEF TypeOK
<1>1. CASE UNCHANGED listen
  BY <1>1
<1>2. CASE ListenLoop
  BY <1>2 DEF ListenLoop
<1>3. CASE DisConnectJoin
  BY <1>a, <1>3 DEF DisConnectJoin, ListenState
<1>4. CASE ListenMoves
  BY <1>a, <1>4 DEF ListenMoves, ListenState
<1>5. CASE ListenAccept
  BY <1>5 DEF ListenAccept
<1>6. App => UNCHANGED listen \/ ListenLoop \/ DisConnectJoin
  BY DEF App, Connect, DisConnect, DisConnectReset, Broadcast, BroadcastNext,
         MayCrash, Crash
<1>7. Listen => \/ UNCHANGED listen \/ ListenLoop \/ ListenAccept
                \/ ListenMoves
  BY DEF Listen, ListenCall, ListenOpen, ListenBind, ListenFail, ListenInsert,
         ListenMoves, MayCrash, Crash
<1>8. \A c \in Clients : Peer(c) \/ Rx(c) \/ Handler(c) => UNCHANGED listen
  BY Frames
<1> QED BY <1>1, <1>2, <1>3, <1>4, <1>5, <1>6, <1>7, <1>8 DEF Next

LEMMA IdsStep ==
    ASSUME TypeOK, IdsInv, Next
    PROVE  IdsInv'
<1>1. CASE UNCHANGED <<clientInfo, dwID>>
  BY <1>1 DEF IdsInv
<1>2. CASE ListenInsert
  <2>1. dwID \in Nat
    BY DEF TypeOK
  <2>2. DOMAIN clientInfo' = DOMAIN clientInfo \cup {FreeId} /\ dwID' = FreeId
    BY <1>2 DEF ListenInsert
  <2>3. FreeId = IF DOMAIN clientInfo = {} THEN 0 ELSE dwID + 1
    BY <2>1, FreeIdValue
  <2> QED BY <2>1, <2>2, <2>3 DEF IdsInv
<1>3. Listen => ListenInsert \/ UNCHANGED <<clientInfo, dwID>>
  BY DEF Listen, ListenCall, ListenOpen, ListenBind, ListenAccept, ListenFail,
         MayCrash, Crash, network
<1> QED BY <1>1, <1>2, <1>3, Frames DEF Next, network

\* What the receive thread of c may do to itself: it starts only by an accept.
LEMMA RxSteps ==
    ASSUME TypeOK, NEW c \in Clients, Rx(c)
    PROVE  /\ \A d \in Clients \ {c} : rx'[d] = rx[d] /\ handler'[d] = handler[d]
           /\ rx'[c].handle = rx[c].handle
           /\ rx[c].pc # "none"
           /\ rx'[c].pc \notin {"none", "start"} \/ UNCHANGED rx[c]
<1>a. rx \in [Clients -> RxState] /\ handler \in [Clients -> HandlerState]
  BY DEF TypeOK
<1> USE DEF RxState
<1>1. CASE Crash
  BY <1>1 DEF Crash, Rx, RxStart, RxReceive, RxInsert, RxClose, RxEnd, RxJoin
<1>2. CASE RxStart(c)
  BY <1>a, <1>2 DEF RxStart, RxLoop
<1>3. CASE RxReceive(c) /\ ~Crash
  BY <1>a, <1>3 DEF RxReceive, RxLoop, RxGoto, MayCrash
<1>4. CASE RxInsert(c)
  BY <1>a, <1>4 DEF RxInsert, RxLoop
<1>5. CASE RxClose(c) /\ ~Crash
  BY <1>a, <1>5 DEF RxClose, RxGoto, MayCrash
<1>6. CASE RxEnd(c)
  BY <1>a, <1>6 DEF RxEnd, RxGoto
<1>7. CASE RxJoin(c)
  BY <1>a, <1>7 DEF RxJoin, RxGoto
<1> QED BY <1>1, <1>2, <1>3, <1>4, <1>5, <1>6, <1>7 DEF Rx

LEMMA ThreadsStep ==
    ASSUME TypeOK, ThreadsInv, Next
    PROVE  ThreadsInv'
<1> USE DEF ThreadsInv
<1>a. /\ peer \in [Clients -> {"idle", "pending", "up", "fin", "rst"}]
      /\ rx \in [Clients -> RxState] /\ handler \in [Clients -> HandlerState]
  BY DEF TypeOK
<1>1. ASSUME UNCHANGED <<rx, handler>>,
             \A c \in Clients : peer'[c] \in {"idle", "pending"}
                                    => peer[c] \in {"idle", "pending"}
      PROVE  ThreadsInv'
  BY <1>1
<1>2. CASE Crash
  BY <1>1, <1>2, Frames DEF env
<1>3. CASE App
  <2>1. UNCHANGED peer \/ DisConnectReset
    BY <1>3 DEF App, Connect, DisConnect, DisConnectJoin, Broadcast,
                BroadcastNext, MayCrash, Crash, env
  <2>2. DisConnectReset => \A c \in Clients :
            peer'[c] \in {"idle", "pending"} => peer[c] \in {"idle", "pending"}
    BY CloseResets DEF DisConnectReset, ResetBacklog
  <2> QED BY <1>1, <1>3, <2>1, <2>2, Frames
<1>4. CASE Listen
  <2>1. CASE ListenAccept
    <3> PICK c \in Clients, h \in Handles :
           /\ peer[c] = "pending"
           /\ peer' = [peer EXCEPT ![c] = "up"]
           /\ rx' = [rx EXCEPT ![c] = [pc |-> "start", handle |-> h,
                                       pkt |-> None]]
      BY <2>1 DEF ListenAccept
    <3>1. handler[c].pc = "none" /\ UNCHANGED handler
      BY <1>4, Frames
    <3> QED BY <1>a, <3>1
  <2>2. CASE UNCHANGED <<peer, rx>>
    BY <1>4, <2>2, Frames
  <2>3. CASE ResetBacklog /\ UNCHANGED rx
    BY <1>1, <1>4, <2>3, Frames DEF ResetBacklog
  <2> QED BY <1>4, <2>1, <2>2, <2>3, CloseResets
             DEF Listen, ListenCall, ListenOpen, ListenBind, ListenFail,
                 ListenInsert, MayCrash, Crash, env
<1>5. CASE \E c \in Clients : Peer(c)
  <2> PICK c \in Clients : Peer(c)
    BY <1>5
  <2>1. \A d \in Clients :
            peer'[d] \in {"idle", "pending"} => peer[d] \in {"idle", "pending"}
    BY <1>a DEF Peer, ClientConnect, ClientSend, ClientClose, ClientReset
  <2> QED BY <1>1, <2>1, Frames
<1>6. CASE \E c \in Clients : Rx(c)
  <2> PICK c \in Clients : Rx(c)
    BY <1>6
  <2>1. UNCHANGED peer
    BY Frames DEF env
  <2>2. rx[c].pc \notin {"none", "start"} \/ RxStart(c) \/ Crash
    BY DEF Rx, RxReceive, RxInsert, RxClose, RxEnd, RxJoin
  <2>3. RxStart(c) => rx'[c].pc \notin {"none", "start"}
    BY <1>a DEF RxStart, RxLoop, RxState
  <2>4. Crash => UNCHANGED <<rx, handler>>
    BY Frames
  <2>5. rx'[c].pc \notin {"none", "start"} \/ UNCHANGED <<rx[c], handler[c]>>
    BY <2>2, <2>3, <2>4, RxSteps
  <2> QED BY <2>1, <2>5, RxSteps
<1>7. CASE \E c \in Clients : Handler(c)
  <2> PICK c \in Clients : Handler(c)
    BY <1>7
  <2>1. UNCHANGED <<peer, rx>>
    BY Frames DEF env
  <2>2. handler[c].pc # "none"
    BY DEF Handler, HandlerLoop, HandlerWake, HandlerFunc
  <2>3. \A d \in Clients \ {c} : handler'[d] = handler[d]
    BY <1>a DEF Handler, HandlerLoop, HandlerWake, HandlerFunc, MayCrash, Crash
  <2> QED BY <2>1, <2>2, <2>3
<1> QED BY <1>2, <1>3, <1>4, <1>5, <1>6, <1>7 DEF Next

LEMMA OwnerStep ==
    ASSUME TypeOK, ThreadsInv, OwnerInv, Next
    PROVE  OwnerInv'
<1> USE DEF OwnerInv, Serving
<1>a. /\ owner \in [Handles -> Clients \cup {None}]
      /\ rx \in [Clients -> RxState]
  BY DEF TypeOK
<1>1. CASE UNCHANGED <<owner, rx>>
  BY <1>1
<1>2. CASE ListenAccept
  <2> PICK c \in Clients, h \in Handles :
         /\ owner[h] = None
         /\ owner' = [owner EXCEPT ![h] = c]
         /\ rx' = [rx EXCEPT ![c] = [pc |-> "start", handle |-> h,
                                     pkt |-> None]]
    BY <1>2 DEF ListenAccept
  <2>1. owner'[rx'[c].handle] = c
    BY <1>a
  <2>2. ASSUME NEW d \in Clients, d # c, rx'[d].pc \in Serving
        PROVE  owner'[rx'[d].handle] = d
    <3>1. rx'[d] = rx[d] /\ owner[rx[d].handle] = d
      BY <1>a, <2>2
    <3>2. rx[d].handle # h
      BY <3>1, NoneAssumption
    <3>3. rx[d].handle \in Handles
      BY <1>a, <2>2, <3>1 DEF ThreadsInv
    <3> QED BY <1>a, <3>1, <3>2, <3>3
  <2> QED BY <2>1, <2>2
<1>3. CASE \E c \in Clients : Rx(c)
  <2> PICK c \in Clients : Rx(c)
    BY <1>3
  <2>1. CASE UNCHANGED owner
    <3>1. rx'[c].pc \in Serving => rx[c].pc \in Serving
      BY <1>a DEF Rx, RxStart, RxReceive, RxInsert, RxClose, RxEnd, RxJoin,
                  RxGoto, RxState, MayCrash, Crash
    <3> QED BY <2>1, <3>1, RxSteps
  <2>2. CASE ~UNCHANGED owner
    <3>1. /\ rx[c].pc = "close"
          /\ owner' = [owner EXCEPT ![rx[c].handle] = None]
          /\ rx' = [rx EXCEPT ![c].pc = "end"]
      BY <2>2 DEF Rx, RxStart, RxReceive, RxInsert, RxClose, RxEnd, RxJoin,
                  RxGoto, MayCrash, Crash
    <3>2. rx'[c].pc \notin Serving
      BY <1>a, <3>1 DEF RxState
    <3>3. \A d \in Clients \ {c} : rx[d].pc \in Serving =>
              rx[d].handle # rx[c].handle
      BY <3>1
    <3>4. \A d \in Clients \ {c} : rx'[d] = rx[d]
      BY <3>1
    <3>5. \A d \in Clients : rx[d].pc \in Serving => rx[d].handle \in Handles
      BY <1>a DEF ThreadsInv
    <3> QED BY <1>a, <3>1, <3>2, <3>3, <3>4, <3>5
  <2> QED BY <2>1, <2>2
<1>4. Listen => ListenAccept \/ UNCHANGED <<owner, rx>>
  BY DEF Listen, ListenCall, ListenOpen, ListenBind, ListenFail, ListenInsert,
         MayCrash, Crash
<1> QED BY <1>1, <1>2, <1>3, <1>4, Frames DEF Next

\* The pipe of a connection that nobody touches.
LEMMA PipeSame ==
    ASSUME NEW c \in Clients, Pipe(c), taken'[c] = taken[c],
           handled'[c] = handled[c], rx'[c] = rx[c], handler'[c] = handler[c]
    PROVE  Pipe(c)'
BY DEF Pipe, InFunc, InHand

LEMMA PipeRx ==
    ASSUME TypeOK, ThreadsInv, OwnerInv, NEW c \in Clients, Pipe(c), Rx(c)
    PROVE  Pipe(c)'
<1>a. /\ rx \in [Clients -> RxState] /\ handler \in [Clients -> HandlerState]
      /\ taken[c] \in Nat /\ taken \in [Clients -> 0 .. MaxPackets + 1]
      /\ Len(handled[c]) \in Nat /\ Len(handler[c].queue) \in Nat
  BY BoundsAssumption DEF TypeOK, HandlerState
<1>b. UNCHANGED handled
  BY Frames DEF history
<1> USE DEF InFunc, InHand
<1>1. CASE Crash
  BY <1>1, <1>b, Frames, PipeSame
<1>2. CASE RxStart(c)
  <2>1. handler[c].pc = "none" /\ rx'[c].pc # "insert"
    BY <1>a, <1>2 DEF RxStart, RxLoop, RxState, ThreadsInv
  <2>2. handler'[c].queue = handler[c].queue /\ handler'[c].pc = "loop"
    BY <1>a, <1>2 DEF RxStart, HandlerState
  <2>3. UNCHANGED taken /\ rx[c].pc # "insert"
    BY <1>2 DEF RxStart, stream
  <2> QED BY <1>b, <2>1, <2>2, <2>3 DEF Pipe
<1>3. CASE RxReceive(c) /\ ~Crash
  <2>1. owner[rx[c].handle] = c /\ c # None
    BY <1>3, NoneAssumption DEF RxReceive, OwnerInv, Serving
  <2>2. UNCHANGED handler /\ rx[c].pc = "recv"
    BY <1>3 DEF RxReceive, MayCrash
  <2>3. CASE /\ taken' = [taken EXCEPT ![c] = @ + 1]
             /\ rx' = [rx EXCEPT ![c].pc = "insert",
                                 ![c].pkt = [from |-> c, n |-> taken[c] + 1]]
    <3>1. /\ taken'[c] = taken[c] + 1 /\ rx'[c].pc = "insert"
          /\ rx'[c].pkt = [from |-> c, n |-> taken[c] + 1]
      BY <1>a, <2>3 DEF RxState
    <3>2. taken[c] = Len(handled[c]) + InFunc(c) + Len(handler[c].queue)
      BY <1>a, <2>2 DEF Pipe
    <3> QED BY <1>a, <1>b, <2>2, <3>1, <3>2 DEF Pipe
  <2>4. CASE UNCHANGED taken /\ rx'[c].pc # "insert"
    BY <1>b, <2>2, <2>4 DEF Pipe
  <2>5. RxLoop(c) \/ RxGoto(c, "close") => rx'[c].pc # "insert"
    BY <1>a DEF RxLoop, RxGoto, RxState
  <2> QED BY <1>3, <2>1, <2>3, <2>4, <2>5 DEF RxReceive, stream, MayCrash
<1>4. CASE RxInsert(c)
  <2>1. /\ rx[c].pc = "insert" /\ rx'[c].pc # "insert" /\ UNCHANGED taken
        /\ handler'[c].queue = Append(handler[c].queue, rx[c].pkt)
        /\ handler'[c].pc = handler[c].pc /\ handler'[c].pkt = handler[c].pkt
    BY <1>a, <1>4 DEF RxInsert, stream, RxLoop, RxState, HandlerState
  <2> DEFINE f == Len(handled[c]) + InFunc(c)
             q == handler[c].queue
  <2>2. /\ InHand(c) = 1 /\ InHand(c)' = 0 /\ InFunc(c)' = InFunc(c)
        /\ InFunc(c) \in Nat
    BY <2>1
  <2> HIDE DEF InFunc, InHand
  <2>3. /\ taken[c] = f + Len(q) + 1
        /\ rx[c].pkt = [from |-> c, n |-> f + Len(q) + 1]
        /\ \A i \in 1 .. Len(q) : q[i] = [from |-> c, n |-> f + i]
    BY <2>1, <2>2 DEF Pipe
  <2>4. q \in Seq(Packet) /\ f \in Nat /\ Len(q) \in Nat
    BY <1>a, <2>2 DEF HandlerState
  <2>5. f + Len(q) + 1 = f + (Len(q) + 1)
    <3> HIDE DEF f, q
    <3> QED BY <2>4
  <2>6. /\ Len(handler'[c].queue) = Len(q) + 1
        /\ \A i \in 1 .. Len(q) : handler'[c].queue[i] = q[i]
        /\ handler'[c].queue[Len(q) + 1] = rx[c].pkt
    <3> HIDE DEF q
    <3>1. handler'[c].queue = Append(q, rx[c].pkt)
      BY <2>1 DEF q
    <3> QED BY <2>4, <3>1
  <2>7. \A i \in 1 .. Len(handler'[c].queue) :
            handler'[c].queue[i] = [from |-> c, n |-> f + i]
    <3> SUFFICES ASSUME NEW i \in 1 .. Len(q) + 1
                 PROVE  handler'[c].queue[i] = [from |-> c, n |-> f + i]
      BY <2>6
    <3>1. CASE i = Len(q) + 1
      BY <2>3, <2>5, <2>6, <3>1
    <3>2. CASE i \in 1 .. Len(q)
      BY <2>3, <2>6, <3>2
    <3> HIDE DEF f, q
    <3> QED BY <2>4, <3>1, <3>2
  <2>8. taken'[c] = f + Len(handler'[c].queue) + InHand(c)'
    <3> HIDE DEF f, q
    <3>1. taken'[c] = f + (Len(q) + 1)
      BY <2>1, <2>3, <2>5
    <3> QED BY <2>2, <2>4, <2>6, <3>1
  <2> QED BY <1>b, <2>1, <2>2, <2>3, <2>7, <2>8 DEF Pipe
<1>5. CASE RxClose(c) /\ ~Crash
  <2>1. /\ rx[c].pc # "insert" /\ rx'[c].pc # "insert"
        /\ UNCHANGED <<handler, taken>>
    BY <1>a, <1>5 DEF RxClose, stream, RxGoto, MayCrash, RxState
  <2> QED BY <1>b, <2>1 DEF Pipe
<1>6. CASE RxEnd(c)
  <2>1. /\ rx[c].pc # "insert" /\ rx'[c].pc # "insert" /\ UNCHANGED taken
        /\ handler'[c].queue = handler[c].queue
        /\ handler'[c].pc = handler[c].pc /\ handler'[c].pkt = handler[c].pkt
    BY <1>a, <1>6 DEF RxEnd, stream, RxGoto, RxState, HandlerState
  <2> QED BY <1>b, <2>1 DEF Pipe
<1>7. CASE RxJoin(c)
  <2>1. /\ rx[c].pc # "insert" /\ rx'[c].pc # "insert"
        /\ UNCHANGED <<handler, taken>>
    BY <1>a, <1>7 DEF RxJoin, stream, RxGoto, RxState
  <2> QED BY <1>b, <2>1 DEF Pipe
<1> QED BY <1>1, <1>2, <1>3, <1>4, <1>5, <1>6, <1>7 DEF Rx

LEMMA PipeHandler ==
    ASSUME TypeOK, NEW c \in Clients, Pipe(c), Handler(c)
    PROVE  Pipe(c)'
<1>a. /\ handler \in [Clients -> HandlerState]
      /\ handled \in [Clients -> Seq(Packet)]
      /\ taken[c] \in Nat
      /\ Len(handled[c]) \in Nat /\ Len(handler[c].queue) \in Nat
      /\ handler[c].queue \in Seq(Packet) /\ handled[c] \in Seq(Packet)
  BY BoundsAssumption DEF TypeOK, HandlerState
<1>b. UNCHANGED <<taken, rx>>
  BY Frames
<1> USE DEF InFunc
<1> DEFINE h == handled[c]
           q == handler[c].queue
<1>1. CASE Crash
  BY <1>1, Frames, PipeSame DEF history
<1>2. CASE HandlerLoop(c)
  <2>1. handler[c].pc = "loop" /\ UNCHANGED handled
    BY <1>2 DEF HandlerLoop, history
  <2>2. CASE handler'[c].pc # "func" /\ handler'[c].queue = q
    BY <1>b, <2>1, <2>2 DEF Pipe, InHand
  <2>3. CASE /\ q # <<>> /\ handler'[c].pc = "func"
             /\ handler'[c].pkt = Head(q) /\ handler'[c].queue = Tail(q)
    <3>1. /\ taken[c] = Len(h) + Len(q) + InHand(c)
          /\ \A i \in 1 .. Len(q) : q[i] = [from |-> c, n |-> Len(h) + i]
          /\ rx[c].pc = "insert" =>
                 rx[c].pkt = [from |-> c, n |-> Len(h) + Len(q) + 1]
      BY <1>a, <2>1 DEF Pipe
    <3>2. Len(q) \in Nat /\ Len(q) >= 1 /\ Head(q) = q[1]
      BY <1>a, <2>3
    <3>3. /\ Len(Tail(q)) = Len(q) - 1
          /\ \A i \in 1 .. Len(q) - 1 : Tail(q)[i] = q[i + 1]
      BY <1>a, <2>3
    <3>4. InHand(c) \in Nat
      BY DEF InHand
    <3>5. handler'[c].pkt = [from |-> c, n |-> Len(h) + 1]
      BY <2>3, <3>1, <3>2
    <3>6. \A i \in 1 .. Len(handler'[c].queue) :
              handler'[c].queue[i] = [from |-> c, n |-> Len(h) + 1 + i]
      <4> TAKE i \in 1 .. Len(handler'[c].queue)
      <4>1. i \in 1 .. Len(q) - 1 /\ i + 1 \in 1 .. Len(q)
        BY <2>3, <3>2, <3>3
      <4>2. handler'[c].queue[i] = [from |-> c, n |-> Len(h) + (i + 1)]
        BY <2>3, <3>1, <3>3, <4>1
      <4>3. Len(h) + (i + 1) = Len(h) + 1 + i
        BY <1>a, <4>1
      <4> QED BY <4>2, <4>3
    <3>7. Len(h) + 1 + Len(handler'[c].queue) = Len(h) + Len(q)
      <4>1. \A k, m \in Nat : k + 1 + (m - 1) = k + m
        OBVIOUS
      <4> QED BY <1>a, <2>3, <3>3, <4>1
    <3> HIDE DEF h, q
    <3>8. InHand(c)' = InHand(c)
      BY <1>b DEF InHand
    <3> QED BY <1>b, <2>1, <2>3, <3>1, <3>5, <3>6, <3>7, <3>8 DEF Pipe, h
  <2>4. /\ handler'[c].pc # "func" /\ handler'[c].queue = q
        \/ /\ q # <<>> /\ handler'[c].pc = "func"
           /\ handler'[c].pkt = Head(q) /\ handler'[c].queue = Tail(q)
    BY <1>a, <1>2 DEF HandlerLoop, HandlerState
  <2> QED BY <2>2, <2>3, <2>4
<1>3. CASE HandlerWake(c)
  <2>1. /\ handler[c].pc = "sleep" /\ handler'[c].pc = "loop"
        /\ handler'[c].queue = q /\ UNCHANGED handled
    BY <1>a, <1>3 DEF HandlerWake, HandlerState, history
  <2> QED BY <1>b, <2>1 DEF Pipe, InHand
<1>4. CASE HandlerFunc(c) /\ ~Crash
  <2>1. /\ handler[c].pc = "func" /\ handler'[c].pc = "loop"
        /\ handler'[c].queue = q
        /\ handled'[c] = Append(h, handler[c].pkt)
    BY <1>a, <1>4 DEF HandlerFunc, HandlerState, MayCrash
  <2>2. /\ handler[c].pkt = [from |-> c, n |-> Len(h) + 1]
        /\ \A i \in 1 .. Len(h) : h[i] = [from |-> c, n |-> i]
    BY <2>1 DEF Pipe
  <2>3. Len(handled'[c]) = Len(h) + 1
    BY <1>a, <2>1
  <2>4. \A i \in 1 .. Len(handled'[c]) : handled'[c][i] = [from |-> c, n |-> i]
    <3>1. \A i \in 1 .. Len(h) : Append(h, handler[c].pkt)[i] = h[i]
      BY <1>a
    <3>2. Append(h, handler[c].pkt)[Len(h) + 1] = handler[c].pkt
      BY <1>a
    <3>3. Len(h) \in Nat
      BY <1>a
    <3> HIDE DEF h
    <3> QED BY <2>1, <2>2, <2>3, <3>1, <3>2, <3>3
  <2>5. InHand(c)' = InHand(c)
    BY <1>b DEF InHand
  <2>6. InFunc(c) = 1 /\ InFunc(c)' = 0
    BY <2>1
  <2> HIDE DEF InFunc
  <2>7. /\ taken[c] = Len(h) + 1 + Len(q) + InHand(c)
        /\ \A i \in 1 .. Len(q) : q[i] = [from |-> c, n |-> Len(h) + 1 + i]
        /\ rx[c].pc = "insert" =>
               rx[c].pkt = [from |-> c, n |-> Len(h) + 1 + Len(q) + 1]
    BY <2>6 DEF Pipe
  <2>8. Len(handled'[c]) + InFunc(c)' = Len(h) + 1
    BY <1>a, <2>3, <2>6
  <2> HIDE DEF h, q
  <2>9. /\ handler'[c].queue = q /\ handler'[c].pc # "func"
        /\ taken'[c] = taken[c] /\ rx'[c] = rx[c]
    BY <1>b, <2>1 DEF q
  <2> QED BY <2>4, <2>5, <2>7, <2>8, <2>9 DEF Pipe
<1> QED BY <1>1, <1>2, <1>3, <1>4 DEF Handler

LEMMA PipeStep ==
    ASSUME TypeOK, ThreadsInv, OwnerInv, PipeInv, Next
    PROVE  PipeInv'
<1>a. /\ taken \in [Clients -> 0 .. MaxPackets + 1]
      /\ rx \in [Clients -> RxState] /\ handler \in [Clients -> HandlerState]
      /\ handled \in [Clients -> Seq(Packet)]
  BY DEF TypeOK
<1>1. CASE UNCHANGED <<taken, rx, handler, handled>>
  BY <1>1, PipeSame DEF PipeInv
<1>2. CASE ListenAccept
  <2> PICK c \in Clients, h \in Handles :
         /\ peer[c] = "pending"
         /\ rx' = [rx EXCEPT ![c] = [pc |-> "start", handle |-> h,
                                     pkt |-> None]]
    BY <1>2 DEF ListenAccept
  <2>1. UNCHANGED <<taken, handler, handled>>
    BY <1>2 DEF ListenAccept, stream, ListenFrame, history
  <2>2. rx[c].pc = "none" /\ rx'[c].pc = "start"
    BY <1>a DEF ThreadsInv
  <2>3. Pipe(c)'
    BY <2>1, <2>2 DEF PipeInv, Pipe, InFunc, InHand
  <2>4. \A d \in Clients \ {c} : Pipe(d)'
    BY <1>a, <2>1, PipeSame DEF PipeInv
  <2> QED BY <2>3, <2>4 DEF PipeInv
<1>3. CASE \E c \in Clients : Rx(c)
  <2> PICK c \in Clients : Rx(c)
    BY <1>3
  <2>1. ASSUME NEW d \in Clients, d # c
        PROVE  taken'[d] = taken[d] /\ handled'[d] = handled[d]
    <3>1. UNCHANGED taken \/ taken' = [taken EXCEPT ![c] = @ + 1]
      <4>1. CASE RxReceive(c) /\ ~Crash
        <5>1. owner[rx[c].handle] = c
          BY <4>1 DEF RxReceive, OwnerInv, Serving
        <5> QED BY <4>1, <5>1 DEF RxReceive, stream, MayCrash
      <4>2. CASE ~RxReceive(c) \/ Crash
        BY <4>2 DEF Rx, stream, RxStart, RxInsert, RxClose, RxEnd, RxJoin,
                    MayCrash,
                    Crash
      <4> QED BY <4>1, <4>2
    <3>2. UNCHANGED handled
      BY Frames DEF history
    <3> QED BY <1>a, <2>1, <3>1, <3>2
  <2>2. \A d \in Clients \ {c} : Pipe(d)'
    BY <2>1, RxSteps, PipeSame DEF PipeInv
  <2>3. Pipe(c)'
    BY PipeRx DEF PipeInv
  <2> QED BY <2>2, <2>3 DEF PipeInv
<1>4. CASE \E c \in Clients : Handler(c)
  <2> PICK c \in Clients : Handler(c)
    BY <1>4
  <2>1. UNCHANGED <<taken, rx>>
    BY Frames
  <2>2. ASSUME NEW d \in Clients, d # c
        PROVE  handler'[d] = handler[d] /\ handled'[d] = handled[d]
    BY <1>a, <2>2 DEF Handler, HandlerLoop, HandlerWake, HandlerFunc, MayCrash,
                      Crash, history
  <2>3. \A d \in Clients \ {c} : Pipe(d)'
    BY <2>1, <2>2, PipeSame DEF PipeInv
  <2>4. Pipe(c)'
    BY PipeHandler DEF PipeInv
  <2> QED BY <2>3, <2>4 DEF PipeInv
<1>5. Listen => ListenAccept \/ UNCHANGED <<taken, rx, handler, handled>>
  BY Frames
     DEF Listen, ListenCall, ListenOpen, ListenBind, ListenFail, ListenInsert,
         MayCrash, Crash,
                history
<1>6. App \/ (\E c \in Clients : Peer(c))
          => UNCHANGED <<taken, rx, handler, handled>>
  BY Frames DEF history
<1> QED BY <1>1, <1>2, <1>3, <1>4, <1>5, <1>6 DEF Next

----------------------------------------------------------------------------
(* The invariant. *)

LEMMA Initially == Init => IInv
<1> SUFFICES ASSUME Init PROVE IInv
  OBVIOUS
<1>1. TypeOK
  <2>1. app \in AppState
    BY BoundsAssumption DEF Init, AppState, AppPc
  <2>2. listen \in ListenState
    BY DEF Init, ListenState, ListenPc
  <2>3. rx \in [Clients -> RxState]
    BY DEF Init, RxState, RxPc
  <2>4. handler \in [Clients -> HandlerState]
    BY DEF Init, HandlerState, HandlerPc
  <2>5. /\ sent \in [Clients -> 0 .. MaxPackets]
        /\ taken \in [Clients -> 0 .. MaxPackets + 1]
        /\ credit \in [Clients -> Int]
    BY BoundsAssumption DEF Init
  <2>6. /\ peer \in [Clients -> {"idle", "pending", "up", "fin", "rst"}]
        /\ cut \in [Clients -> BOOLEAN]
        /\ owner \in [Handles -> Clients \cup {None}]
        /\ isStop \in BOOLEAN
        /\ server \in {"null", "object"} /\ listenSocket \in ListenSocket
        /\ dwID \in Nat /\ crashed \in BOOLEAN /\ strays \subseteq Stray
    BY DEF Init, ListenSocket
  <2>7. DOMAIN clientInfo = {}
    BY DEF Init
  <2>8. handled \in [Clients -> Seq(Packet)]
    BY DEF Init
  <2> QED BY <2>1, <2>2, <2>3, <2>4, <2>5, <2>6, <2>7, <2>8 DEF TypeOK
<1>2. ListenInv /\ ThreadsInv /\ IdsInv /\ OwnerInv
  BY DEF Init, ListenInv, ThreadsInv, IdsInv, OwnerInv, Serving
<1>3. PipeInv
  <2> SUFFICES ASSUME NEW c \in Clients PROVE Pipe(c)
    BY DEF PipeInv
  <2>1. /\ handled[c] = <<>> /\ handler[c].queue = <<>> /\ taken[c] = 0
        /\ handler[c].pc = "none" /\ rx[c].pc = "none"
    BY DEF Init
  <2>2. Len(handled[c]) = 0 /\ Len(handler[c].queue) = 0
    BY <2>1
  <2>3. InFunc(c) = 0 /\ InHand(c) = 0
    BY <2>1 DEF InFunc, InHand
  <2> QED BY <2>1, <2>2, <2>3 DEF Pipe
<1> QED BY <1>1, <1>2, <1>3 DEF IInv

LEMMA Inductive == IInv /\ [Next]_vars => IInv'
<1> SUFFICES ASSUME IInv, [Next]_vars PROVE IInv'
  OBVIOUS
<1> USE DEF IInv
<1>1. CASE Next
  <2>1. TypeOK'
    <3>1. CASE App
      BY <3>1, TypeApp
    <3>2. CASE Listen
      BY <3>2, TypeListen
    <3>3. CASE \E c \in Clients : Peer(c) \/ Rx(c) \/ Handler(c)
      BY <3>3, TypePeer, TypeRx, TypeHandler
    <3> QED BY <1>1, <3>1, <3>2, <3>3 DEF Next
  <2>2. ListenInv' /\ ThreadsInv' /\ IdsInv' /\ OwnerInv' /\ PipeInv'
    BY <1>1, ListenStep, ThreadsStep, IdsStep, OwnerStep, PipeStep
  <2> QED BY <2>1, <2>2
<1>2. CASE UNCHANGED vars
  BY <1>2
     DEF vars, env, stream, network, history, TypeOK, ListenInv, ThreadsInv,
              IdsInv, OwnerInv, PipeInv, Pipe, InFunc, InHand
<1> QED BY <1>1, <1>2

\* The inductive invariant holds in every behaviour of the server
\* (Network/SharedNetwork.cpp, the threads of CNetwork as a server).
THEOREM Invariance == Spec => []IInv
BY Initially, Inductive, PTL DEF Spec

\* Every variable of the server keeps its type; among the rest, a handler's
\* queue only ever holds packets and the keys of _mapIdToClientInfo are found.
THEOREM TypeCorrect == Spec => []TypeOK
BY Invariance, PTL DEF IInv

\* The packets given to a connection's handler function are the frames its
\* client sent, in order and without a gap (ServerReceiveThread, InsertPacket
\* and Main), for any number of clients, handles and packets.
THEOREM Fifo == Spec => []FifoPerConnection
<1>1. IInv => FifoPerConnection
  <2> SUFFICES ASSUME IInv, NEW c \in Clients, NEW i \in DOMAIN handled[c]
               PROVE  handled[c][i] = [from |-> c, n |-> i]
    BY DEF FifoPerConnection
  <2>1. i \in 1 .. Len(handled[c])
    BY DEF IInv, TypeOK
  <2> QED BY <2>1 DEF IInv, PipeInv, Pipe
<1> QED BY <1>1, Invariance, PTL

----------------------------------------------------------------------------
(* More properties, from the invariant. *)

LEMMA EntryStep ==
    ASSUME IInv, EntryPerConnection, Next
    PROVE  EntryPerConnection'
<1> USE DEF EntryPerConnection
<1>a. /\ rx \in [Clients -> RxState] /\ listen \in ListenState /\ dwID \in Nat
  BY DEF IInv, TypeOK
<1>1. CASE UNCHANGED clientInfo /\ listen'.conn = listen.conn
           /\ \A c \in Clients : rx'[c].pc # "none" => rx[c].pc # "none"
  BY <1>1
<1>2. CASE Crash
  BY <1>1, <1>2, Frames DEF network
<1>3. CASE App
  <2>1. listen'.conn = listen.conn
    <3>1. UNCHANGED listen \/ ListenLoop \/ DisConnectJoin
      BY <1>3 DEF App, Connect, DisConnect, DisConnectReset, Broadcast,
                  BroadcastNext, MayCrash, Crash
    <3>2. ListenLoop => listen.conn = None
      BY <1>3 DEF App, Connect, DisConnect, DisConnectReset, DisConnectJoin,
                  Broadcast, BroadcastNext, MayCrash, Crash, ListenLoop, IInv,
                  ListenInv
    <3>3. ListenLoop => listen'.conn = None
      BY DEF ListenLoop
    <3>4. DisConnectJoin => listen'.conn = listen.conn
      BY <1>a DEF DisConnectJoin, ListenState
    <3> QED BY <3>1, <3>2, <3>3, <3>4
  <2> QED BY <1>1, <1>3, <2>1, Frames
<1>4. CASE ListenAccept
  <2> PICK c \in Clients, h \in Handles :
         /\ listen' = [pc |-> "insert", conn |-> c, handle |-> h]
         /\ rx' = [rx EXCEPT ![c] = [pc |-> "start", handle |-> h,
                                     pkt |-> None]]
    BY <1>4 DEF ListenAccept
  <2>1. listen.conn = None /\ listen'.conn = c /\ UNCHANGED clientInfo
    BY <1>4 DEF ListenAccept, IInv, ListenInv
  <2>2. \A d \in Clients \ {c} : rx'[d] = rx[d] /\ listen.conn # d
    BY <1>a, <2>1, NoneAssumption
  <2> QED BY <2>1, <2>2
<1>5. CASE ListenInsert
  <2>1. FreeId \notin DOMAIN clientInfo
    BY <1>a, FreeIdIsFree DEF IInv
  <2>2. /\ \A id \in DOMAIN clientInfo :
               id \in DOMAIN clientInfo' /\ clientInfo'[id] = clientInfo[id]
        /\ FreeId \in DOMAIN clientInfo'
        /\ clientInfo'[FreeId].conn = listen.conn
    BY <1>5, <2>1 DEF ListenInsert
  <2>3. UNCHANGED rx
    BY <1>5 DEF ListenInsert
  <2> QED BY <2>2, <2>3
<1>6. CASE ListenCall \/ ListenOpen \/ ListenBind \/ ListenFail
  <2>1. UNCHANGED <<clientInfo, rx>>
    BY <1>6
       DEF ListenCall, ListenOpen, ListenBind, ListenFail, MayCrash, Crash,
           network
  <2>2. listen'.conn = listen.conn
    <3>1. UNCHANGED listen \/ ListenLoop \/ ListenMoves
      BY <1>6 DEF ListenCall, ListenOpen, ListenBind, ListenFail, ListenMoves,
                  MayCrash, Crash
    <3>2. listen.conn = None \/ UNCHANGED listen
      BY <1>6
         DEF ListenCall, ListenOpen, ListenBind, ListenFail, MayCrash, Crash,
             IInv, ListenInv
    <3>3. ListenLoop => listen'.conn = None
      BY DEF ListenLoop
    <3> QED BY <1>a, <3>1, <3>2, <3>3 DEF ListenState, ListenMoves
  <2> QED BY <1>1, <2>1, <2>2
<1>7. CASE \E c \in Clients : Rx(c)
  <2> PICK c \in Clients : Rx(c)
    BY <1>7
  <2>1. TypeOK
    BY DEF IInv
  <2>2. UNCHANGED <<clientInfo, listen>>
    BY Frames DEF network
  <2>3. \A d \in Clients : rx'[d].pc # "none" => rx[d].pc # "none"
    BY <2>1, RxSteps
  <2> QED BY <1>1, <2>2, <2>3
<1>8. CASE \E c \in Clients : Peer(c) \/ Handler(c)
  BY <1>1, <1>8, Frames DEF network
<1> QED BY <1>2, <1>3, <1>4, <1>5, <1>6, <1>7, <1>8 DEF Next, Listen

\* No entry of _mapIdToClientInfo, with the receive thread it holds, is ever
\* assigned over (ServerListenThread's search for a free _dwID).
THEOREM EntryKept == Spec => []EntryPerConnection
<1>1. Init => EntryPerConnection
  BY DEF Init, EntryPerConnection
<1>2. IInv /\ EntryPerConnection /\ [Next]_vars => EntryPerConnection'
  <2> SUFFICES ASSUME IInv, EntryPerConnection, [Next]_vars
               PROVE  EntryPerConnection'
    OBVIOUS
  <2>1. CASE UNCHANGED vars
    BY <2>1 DEF vars, network, EntryPerConnection
  <2> QED BY <2>1, EntryStep
<1> QED BY <1>1, <1>2, Invariance, PTL DEF Spec

\* A handler function's answer can reach another client only after the receive
\* thread has closed the handle it answers on (ServerReceiveThread closes the
\* connection before it calls End).
THEOREM ReplyToRequester == Spec => []ReplyReachesRequester
<1>1. Init => ReplyReachesRequester
  BY DEF Init, ReplyReachesRequester
<1>2. ASSUME IInv, ReplyReachesRequester, [Next]_vars
      PROVE  ReplyReachesRequester'
  <2> USE DEF ReplyReachesRequester
  <2>1. CASE UNCHANGED strays
    BY <1>2, <2>1
  <2>2. CASE \E c \in Clients : HandlerFunc(c) /\ ~UNCHANGED strays
    <3> PICK c \in Clients : HandlerFunc(c) /\ ~UNCHANGED strays
      BY <2>2
    <3> DEFINE to == SendTo(rx[c].handle)
               r == [req |-> c, to |-> to,
                     closed |-> rx[c].pc \in {"end", "join", "done"}]
    <3>1. /\ handler[c].pc = "func" /\ to \notin {None, c}
          /\ strays' = strays \cup {r}
      BY DEF HandlerFunc, MayCrash, Crash, history
    <3>2. rx[c].pc \notin {"none", "start"} /\ rx[c].pc \in RxPc
      BY <1>2, <3>1 DEF IInv, ThreadsInv, TypeOK, RxState
    <3>3. rx[c].pc \notin Serving
      BY <1>2, <3>1 DEF IInv, OwnerInv, SendTo
    <3>4. r.closed
      BY <3>2, <3>3 DEF RxPc, Serving
    <3> HIDE DEF r
    <3> QED BY <1>2, <3>1, <3>4
  <2>3. UNCHANGED strays \/ \E c \in Clients : HandlerFunc(c)
    <3>1. CASE UNCHANGED vars
      BY <3>1 DEF vars, history
    <3>2. \A c \in Clients : HandlerLoop(c) \/ HandlerWake(c) => UNCHANGED strays
      BY DEF HandlerLoop, HandlerWake, history
    <3> QED BY <1>2, <3>1, <3>2, Frames DEF Next, Handler, history
  <2> QED BY <2>1, <2>2, <2>3
<1> QED BY <1>1, <1>2, Invariance, PTL DEF Spec

\* A receive that is under way when the server is stopped has its credit.
CreditInv ==
    \A c \in Clients :
        /\ credit[c] >= 0
        /\ isStop /\ rx[c].pc = "recv" => credit[c] >= 1

\* A receive thread uses up its credit, and does not receive again once
\* stopped.
LEMMA CreditRx ==
    ASSUME IInv, CreditInv, NEW c \in Clients, Rx(c)
    PROVE  CreditInv'
<1>a. /\ credit \in [Clients -> Int] /\ rx \in [Clients -> RxState]
      /\ UNCHANGED isStop
      /\ \A d \in Clients \ {c} : rx'[d] = rx[d]
  BY Frames, RxSteps DEF IInv, TypeOK, network
<1>1. CASE RxReceive(c) /\ ~UNCHANGED credit
  <2>1. /\ credit' = [credit EXCEPT ![c] = IF isStop THEN @ - 1 ELSE @]
        /\ rx[c].pc = "recv" /\ rx'[c].pc = "insert"
    BY <1>a, <1>1 DEF RxReceive, MayCrash, Crash, stream, RxState
  <2> QED BY <1>a, <2>1 DEF CreditInv
<1>2. CASE UNCHANGED credit
  <2>1. CASE RxLoop(c)
    <3>1. isStop => rx'[c].pc # "recv"
      BY <1>a, <2>1 DEF RxLoop, RxState
    <3> QED BY <1>a, <1>2, <3>1 DEF CreditInv
  <2>2. CASE \E pc \in {"close", "end", "join", "done"} : RxGoto(c, pc)
    <3>1. rx'[c].pc # "recv"
      BY <1>a, <2>2 DEF RxGoto, RxState
    <3> QED BY <1>a, <1>2, <3>1 DEF CreditInv
  <2>3. CASE UNCHANGED rx \/ rx'[c].pc = "insert"
    BY <1>a, <1>2, <2>3 DEF CreditInv
  <2>4. CASE RxReceive(c) /\ ~Crash
    <3>1. RxLoop(c) \/ RxGoto(c, "close") \/ rx'[c].pc = "insert"
      BY <1>a, <2>4 DEF RxReceive, MayCrash, RxState
    <3> QED BY <2>1, <2>2, <2>3, <3>1
  <2> QED BY <2>1, <2>2, <2>3, <2>4
          DEF Rx, RxStart, RxInsert, RxClose, RxEnd, RxJoin, MayCrash, Crash
<1>3. RxReceive(c) \/ UNCHANGED credit
  BY DEF Rx, RxStart, RxInsert, RxClose, RxEnd, RxJoin, MayCrash, Crash, stream
<1> QED BY <1>1, <1>2, <1>3

LEMMA CreditStep ==
    ASSUME IInv, CreditInv, Next
    PROVE  CreditInv'
<1>a. credit \in [Clients -> Int] /\ rx \in [Clients -> RxState]
  BY DEF IInv, TypeOK
<1>1. CASE UNCHANGED <<credit, isStop, rx>>
  BY <1>1 DEF CreditInv
<1>2. CASE DisConnect
  <2>1. UNCHANGED rx
    BY <1>2 DEF DisConnect
  <2>2. \A c \in Clients : credit'[c] = IF ~isStop /\ rx[c].pc = "recv"
                                        THEN 1 ELSE credit[c]
    BY <1>2 DEF DisConnect
  <2> QED BY <1>a, <2>1, <2>2 DEF CreditInv
<1>3. CASE ListenAccept
  <2> PICK c \in Clients, h \in Handles :
         rx' = [rx EXCEPT ![c] = [pc |-> "start", handle |-> h, pkt |-> None]]
    BY <1>3 DEF ListenAccept
  <2>1. UNCHANGED <<credit, isStop>>
    BY <1>3, Frames DEF Listen
  <2> QED BY <1>a, <2>1 DEF CreditInv
<1>4. CASE \E c \in Clients : Rx(c)
  BY <1>4, CreditRx
<1>5. App => DisConnect \/ UNCHANGED <<credit, isStop, rx>>
  BY DEF App, Connect, DisConnectReset, DisConnectJoin, Broadcast,
         BroadcastNext, MayCrash, Crash, stream, network
<1>6. Listen => ListenAccept \/ UNCHANGED <<credit, isStop, rx>>
  BY Frames DEF Listen, ListenCall, ListenOpen, ListenBind, ListenFail,
                ListenInsert, MayCrash, Crash
<1> QED BY <1>1, <1>2, <1>3, <1>4, <1>5, <1>6, Frames DEF Next, network

\* SharedNetwork.cpp:121-150, 253-288: once _isStop is set, at most the recv
\* that is under way on a connection yields a frame, for any number of
\* connections, those accepted afterwards included, and however often Connect
\* is called.
THEOREM StopEnds == Spec => []StopEndsReceiving
<1>1. Init => CreditInv
  BY DEF Init, CreditInv
<1>2. IInv /\ CreditInv /\ [Next]_vars => CreditInv'
  <2>1. CreditInv /\ UNCHANGED vars => CreditInv'
    BY DEF vars, stream, network, CreditInv
  <2> QED BY <2>1, CreditStep
<1>3. CreditInv => StopEndsReceiving
  BY DEF CreditInv, StopEndsReceiving
<1> QED BY <1>1, <1>2, <1>3, Invariance, PTL DEF Spec

----------------------------------------------------------------------------
(* After End the handler function is not called again. *)

\* Only End stops a handler, and it returns when the thread of the handler has
\* ended.
EndInv ==
    \A c \in Clients :
        handler[c].stop => /\ rx[c].pc \in {"join", "done"}
                           /\ rx[c].pc = "done" => handler[c].pc = "done"

\* What a handler thread does concerns its own connection, and it never goes on
\* once it has ended.
LEMMA HandlerSteps ==
    ASSUME TypeOK, NEW c \in Clients, Handler(c)
    PROVE  /\ \A d \in Clients \ {c} :
                 handler'[d] = handler[d] /\ handled'[d] = handled[d]
           /\ handler'[c].stop = handler[c].stop
           /\ handler[c].pc # "done"
<1>a. /\ handler \in [Clients -> HandlerState]
      /\ handled \in [Clients -> Seq(Packet)]
  BY DEF TypeOK
<1>1. CASE Crash
  <2>1. UNCHANGED <<handler, handled>>
    BY <1>1, Frames DEF history
  <2>2. handler[c].pc # "done"
    BY DEF Handler, HandlerLoop, HandlerWake, HandlerFunc
  <2> QED BY <2>1, <2>2
<1>2. CASE HandlerLoop(c)
  BY <1>a, <1>2 DEF HandlerLoop, HandlerState, history
<1>3. CASE HandlerWake(c)
  BY <1>a, <1>3 DEF HandlerWake, HandlerState, history
<1>4. CASE HandlerFunc(c) /\ ~Crash
  BY <1>a, <1>4 DEF HandlerFunc, HandlerState, MayCrash
<1> QED BY <1>1, <1>2, <1>3, <1>4 DEF Handler

LEMMA EndStep ==
    ASSUME IInv, EndInv, Next
    PROVE  EndInv'
<1> USE DEF EndInv
<1>a. /\ rx \in [Clients -> RxState] /\ handler \in [Clients -> HandlerState]
  BY DEF IInv, TypeOK
<1>1. CASE UNCHANGED <<rx, handler>>
  BY <1>1
<1>2. CASE ListenAccept
  <2> PICK c \in Clients, h \in Handles :
         /\ peer[c] = "pending"
         /\ rx' = [rx EXCEPT ![c] = [pc |-> "start", handle |-> h,
                                     pkt |-> None]]
    BY <1>2 DEF ListenAccept
  <2>1. ~ handler[c].stop
    BY DEF IInv, ThreadsInv
  <2>2. UNCHANGED handler
    BY <1>2, Frames DEF Listen
  <2> QED BY <1>a, <2>1, <2>2
<1>3. CASE \E c \in Clients : Rx(c)
  <2> PICK c \in Clients : Rx(c)
    BY <1>3
  <2>1. \A d \in Clients \ {c} : rx'[d] = rx[d] /\ handler'[d] = handler[d]
    BY RxSteps DEF IInv
  <2>2. CASE RxEnd(c)
    <3>1. rx'[c].pc = "join"
      BY <1>a, <2>2 DEF RxEnd, RxGoto, RxState
    <3> QED BY <2>1, <3>1
  <2>3. CASE RxJoin(c)
    <3>1. rx'[c].pc = "done" /\ handler'[c].pc = "done"
      BY <1>a, <2>3 DEF RxJoin, RxGoto, RxState
    <3> QED BY <2>1, <3>1
  <2>4. CASE Crash
    BY <2>4, Frames
  <2>5. CASE RxStart(c) \/ RxInsert(c) \/ RxReceive(c) \/ RxClose(c)
    <3>1. CASE Crash
      BY <3>1, Frames
    <3>2. CASE ~Crash
      <4>1. ~ handler[c].stop
        BY <2>5 DEF RxStart, RxInsert, RxReceive, RxClose
      <4>2. handler'[c].stop = handler[c].stop
        BY <1>a, <2>5, <3>2
           DEF RxStart, RxInsert, RxReceive, RxClose, MayCrash, HandlerState
      <4> QED BY <2>1, <4>1, <4>2
    <3> QED BY <3>1, <3>2
  <2> QED BY <2>2, <2>3, <2>4, <2>5 DEF Rx
<1>4. CASE \E c \in Clients : Handler(c)
  <2> PICK c \in Clients : Handler(c)
    BY <1>4
  <2>1. UNCHANGED rx
    BY Frames
  <2>2. /\ \A d \in Clients \ {c} : handler'[d] = handler[d]
        /\ handler'[c].stop = handler[c].stop /\ handler[c].pc # "done"
    BY HandlerSteps DEF IInv
  <2> QED BY <2>1, <2>2
<1>5. Listen => ListenAccept \/ UNCHANGED <<rx, handler>>
  BY Frames
     DEF Listen, ListenCall, ListenOpen, ListenBind, ListenFail, ListenInsert,
         MayCrash, Crash
<1> QED BY <1>1, <1>2, <1>3, <1>4, <1>5, Frames DEF Next

\* SharedNetwork.cpp:471-499: once End has returned, no packet is given to the
\* handler function of the connection, whatever is left in its queue.
THEOREM NoCall == Spec => NoCallAfterEnd
<1>1. Init => EndInv
  BY DEF Init, EndInv
<1>2. ASSUME IInv, EndInv, [Next]_vars
      PROVE  EndInv'
  <2>1. CASE UNCHANGED vars
    BY <1>2, <2>1 DEF vars, EndInv
  <2> QED BY <1>2, <2>1, EndStep
<1>3. ASSUME IInv, EndInv, [Next]_vars
      PROVE  [\A c \in Clients : rx[c].pc = "done" /\ handler[c].stop
                                  => UNCHANGED handled[c]]_vars
  <2> SUFFICES ASSUME Next, NEW c \in Clients, rx[c].pc = "done",
                      handler[c].stop
               PROVE  handled'[c] = handled[c]
    BY <1>3
  <2>1. handler[c].pc = "done"
    BY <1>3 DEF EndInv
  <2>2. \A d \in Clients : Handler(d) => handled'[c] = handled[c]
    BY <1>3, <2>1, HandlerSteps DEF IInv
  <2>3. App \/ Listen => UNCHANGED handled
    BY Frames DEF history
  <2>4. \A d \in Clients : Peer(d) \/ Rx(d) => UNCHANGED handled
    BY Frames DEF history
  <2> QED BY <2>2, <2>3, <2>4 DEF Next
<1> QED BY <1>1, <1>2, <1>3, Invariance, PTL DEF Spec, NoCallAfterEnd

----------------------------------------------------------------------------
(* A broadcast reaches every connection that is open when it ends. *)

\* An entry of the map has the handle that its connection was given.
HandleInv ==
    /\ \A id \in DOMAIN clientInfo :
          /\ rx[clientInfo[id].conn].pc # "none"
          /\ clientInfo[id].handle = rx[clientInfo[id].conn].handle
    /\ listen.pc = "insert" =>
          /\ rx[listen.conn].pc # "none"
          /\ listen.handle = rx[listen.conn].handle

\* A client that was in the map is still ahead, was sent the message, or can no
\* longer be reached.
DueInv ==
    app.pc = "send" =>
      \A c \in app.due :
        /\ rx[c].pc # "none"
        /\ \E id \in DOMAIN clientInfo :
             /\ clientInfo[id].conn = c
             /\ id >= app.at \/ c \in app.got \/ SendTo(rx[c].handle) # c

\* A connection keeps its handle for good.
LEMMA HandleKept ==
    ASSUME IInv, Next, NEW c \in Clients, rx[c].pc # "none"
    PROVE  rx'[c].pc # "none" /\ rx'[c].handle = rx[c].handle
<1>a. rx \in [Clients -> RxState]
  BY DEF IInv, TypeOK
<1>1. CASE UNCHANGED rx
  BY <1>1
<1>2. CASE ListenAccept
  <2> PICK d \in Clients, h \in Handles :
         /\ peer[d] = "pending"
         /\ rx' = [rx EXCEPT ![d] = [pc |-> "start", handle |-> h,
                                     pkt |-> None]]
    BY <1>2 DEF ListenAccept
  <2>1. d # c
    BY DEF IInv, ThreadsInv
  <2> QED BY <1>a, <2>1
<1>3. CASE \E d \in Clients : Rx(d)
  BY <1>3, RxSteps DEF IInv
<1>4. Listen => ListenAccept \/ UNCHANGED rx
  BY DEF Listen, ListenCall, ListenOpen, ListenBind, ListenFail, ListenInsert,
         MayCrash, Crash
<1> QED BY <1>1, <1>2, <1>3, <1>4, Frames DEF Next

LEMMA SendToIs ==
    ASSUME TypeOK, NEW h \in Handles, NEW c \in Clients
    PROVE  SendTo(h) = c <=> owner[h] = c /\ peer[c] # "rst"
BY NoneAssumption DEF SendTo

\* What cannot be reached any more stays so.
LEMMA DeadStays ==
    ASSUME IInv, IInv', Next, NEW c \in Clients, rx[c].pc # "none",
           SendTo(rx[c].handle) # c
    PROVE  SendTo(rx[c].handle)' # c
<1> DEFINE h == rx[c].handle
<1>a. /\ owner \in [Handles -> Clients \cup {None}]
      /\ peer \in [Clients -> {"idle", "pending", "up", "fin", "rst"}]
      /\ rx \in [Clients -> RxState]
  BY DEF IInv, TypeOK
<1>b. h \in Handles /\ peer[c] \notin {"idle", "pending"}
  BY DEF IInv, ThreadsInv
<1>c. owner[h] # c \/ peer[c] = "rst"
  BY <1>b, SendToIs DEF IInv
<1>d. h' = h
  BY HandleKept
<1> HIDE DEF h
<1>1. owner[h] # c => owner'[h] # c
  <2>1. CASE UNCHANGED owner
    BY <2>1
  <2>2. CASE ListenAccept
    <3> PICK d \in Clients, k \in Handles :
           peer[d] = "pending" /\ owner' = [owner EXCEPT ![k] = d]
      BY <2>2 DEF ListenAccept
    <3>1. d # c
      BY <1>b
    <3> QED BY <1>a, <1>b, <3>1
  <2>3. CASE \E d \in Clients : Rx(d) /\ ~UNCHANGED owner
    <3> PICK d \in Clients : owner' = [owner EXCEPT ![rx[d].handle] = None]
      BY <2>3 DEF Rx, RxStart, RxReceive, RxInsert, RxClose, RxEnd, RxJoin,
                  MayCrash, Crash
    <3>1. owner'[h] = owner[h] \/ owner'[h] = None
      BY <1>a, <1>b
    <3> QED BY <3>1, NoneAssumption
  <2>4. Listen => ListenAccept \/ UNCHANGED owner
    BY DEF Listen, ListenCall, ListenOpen, ListenBind, ListenFail,
           ListenInsert, MayCrash, Crash
  <2> QED BY <2>1, <2>2, <2>3, <2>4, Frames DEF Next
<1>2. peer[c] = "rst" => peer'[c] = "rst"
  <2>1. CASE UNCHANGED peer
    BY <2>1
  <2>2. CASE ResetBacklog
    BY <2>2 DEF ResetBacklog
  <2>3. CASE ListenAccept
    BY <1>a, <1>b, <2>3 DEF ListenAccept
  <2>4. CASE \E d \in Clients : Peer(d)
    BY <1>a, <2>4 DEF Peer, ClientConnect, ClientSend, ClientClose, ClientReset
  <2>5. Listen => ListenAccept \/ ResetBacklog \/ UNCHANGED peer
    BY CloseResets
       DEF Listen, ListenCall, ListenOpen, ListenBind, ListenFail,
           ListenInsert, MayCrash, Crash, env
  <2>6. App => ResetBacklog \/ UNCHANGED peer
    BY CloseResets
       DEF App, Connect, DisConnect, DisConnectReset, DisConnectJoin,
           Broadcast,
           BroadcastNext, MayCrash, Crash, env
  <2> QED BY <2>1, <2>2, <2>3, <2>4, <2>5, <2>6, Frames DEF Next, env
<1>3. owner'[h] # c \/ peer'[c] = "rst"
  BY <1>c, <1>1, <1>2
<1>4. SendTo(rx[c].handle)' = c => owner'[h] = c /\ peer'[c] # "rst"
  <2>1. SendTo(rx[c].handle)' = IF owner'[h] # None /\ peer'[owner'[h]] # "rst"
                                THEN owner'[h] ELSE None
    BY <1>d DEF SendTo, h
  <2> QED BY <2>1, NoneAssumption
<1> QED BY <1>3, <1>4

\* The entries that there are stay as they are.
LEMMA EntriesKept ==
    ASSUME IInv, Next, NEW id \in DOMAIN clientInfo
    PROVE  id \in DOMAIN clientInfo' /\ clientInfo'[id] = clientInfo[id]
<1>1. CASE UNCHANGED clientInfo
  BY <1>1
<1>2. CASE ListenInsert
  <2>1. FreeId \notin DOMAIN clientInfo
    BY FreeIdIsFree DEF IInv, TypeOK
  <2> QED BY <1>2, <2>1 DEF ListenInsert
<1>3. Listen => ListenInsert \/ UNCHANGED clientInfo
  BY DEF Listen, ListenCall, ListenOpen, ListenBind, ListenAccept, ListenFail,
         MayCrash, Crash, network
<1> QED BY <1>1, <1>2, <1>3, Frames DEF Next, network

LEMMA HandleStep ==
    ASSUME IInv, HandleInv, Next
    PROVE  HandleInv'
<1>a. /\ listen \in ListenState /\ rx \in [Clients -> RxState]
      /\ \A id \in DOMAIN clientInfo : clientInfo[id] \in ClientInfo
  BY DEF IInv, TypeOK
<1>b. \A id \in DOMAIN clientInfo : clientInfo[id].conn \in Clients
  BY <1>a DEF ClientInfo
<1>1. ASSUME NEW id \in DOMAIN clientInfo
      PROVE  /\ rx'[clientInfo'[id].conn].pc # "none"
             /\ clientInfo'[id].handle = rx'[clientInfo'[id].conn].handle
  <2>1. clientInfo'[id] = clientInfo[id]
    BY EntriesKept
  <2> QED BY <1>b, <2>1, HandleKept DEF HandleInv
<1>2. CASE ListenInsert
  <2>1. /\ DOMAIN clientInfo' = DOMAIN clientInfo \cup {FreeId}
        /\ clientInfo'[FreeId] = [conn |-> listen.conn,
                                  handle |-> listen.handle]
        /\ UNCHANGED rx /\ listen.pc = "insert" /\ ListenLoop
    BY <1>2 DEF ListenInsert
  <2>2. listen'.pc # "insert"
    BY <2>1 DEF ListenLoop
  <2>3. /\ clientInfo'[FreeId].conn = listen.conn
        /\ clientInfo'[FreeId].handle = listen.handle
    BY <2>1
  <2> QED BY <1>1, <2>1, <2>2, <2>3 DEF HandleInv
<1>3. CASE ListenAccept
  <2> PICK c \in Clients, h \in Handles :
         /\ listen' = [pc |-> "insert", conn |-> c, handle |-> h]
         /\ rx' = [rx EXCEPT ![c] = [pc |-> "start", handle |-> h,
                                     pkt |-> None]]
    BY <1>3 DEF ListenAccept
  <2>1. UNCHANGED clientInfo
    BY <1>3 DEF ListenAccept
  <2>2. rx'[c].pc = "start" /\ rx'[c].handle = h
    BY <1>a
  <2>3. listen'.conn = c /\ listen'.handle = h
    OBVIOUS
  <2> QED BY <1>1, <2>1, <2>2, <2>3 DEF HandleInv
<1>4. CASE UNCHANGED clientInfo /\ listen'.pc # "insert"
  BY <1>1, <1>4 DEF HandleInv
<1>5. CASE UNCHANGED <<clientInfo, listen>>
  <2>1. listen.pc = "insert" => listen.conn \in Clients
    BY DEF IInv, ListenInv
  <2> QED BY <1>1, <1>5, <2>1, HandleKept DEF HandleInv
<1>6. Listen => \/ ListenInsert \/ ListenAccept
                \/ UNCHANGED <<clientInfo, listen>>
                \/ UNCHANGED clientInfo /\ listen'.pc # "insert"
  BY <1>a DEF Listen, ListenCall, ListenOpen, ListenBind, ListenFail,
              ListenLoop, MayCrash, Crash, network, ListenState
<1>7. App => \/ UNCHANGED <<clientInfo, listen>>
             \/ UNCHANGED clientInfo /\ listen'.pc # "insert"
  <2>1. App => UNCHANGED clientInfo
    BY Frames
  <2>2. App => UNCHANGED listen \/ ListenLoop \/ DisConnectJoin
    BY DEF App, Connect, DisConnect, DisConnectReset, Broadcast, BroadcastNext,
           MayCrash, Crash
  <2>3. ListenLoop \/ DisConnectJoin => listen'.pc # "insert"
    BY <1>a DEF ListenLoop, DisConnectJoin, ListenState
  <2> QED BY <2>1, <2>2, <2>3
<1> QED BY <1>2, <1>3, <1>4, <1>5, <1>6, <1>7, Frames DEF Next, network

\* The walk stays where it is.
LEMMA DueWaits ==
    ASSUME IInv, IInv', DueInv, Next, UNCHANGED app
    PROVE  DueInv'
<1> SUFFICES ASSUME app.pc = "send", NEW c \in app.due
             PROVE  /\ rx'[c].pc # "none"
                    /\ \E id \in DOMAIN clientInfo' :
                         /\ clientInfo'[id].conn = c
                         /\ \/ id >= app.at \/ c \in app.got
                            \/ SendTo(rx[c].handle)' # c
  BY DEF DueInv
<1>1. PICK id \in DOMAIN clientInfo :
         /\ clientInfo[id].conn = c
         /\ id >= app.at \/ c \in app.got \/ SendTo(rx[c].handle) # c
  BY DEF DueInv
<1>2. c \in Clients /\ rx[c].pc # "none"
  BY DEF DueInv, IInv, TypeOK, AppState
<1>3. id \in DOMAIN clientInfo' /\ clientInfo'[id].conn = c
  BY <1>1, EntriesKept
<1>4. rx'[c].pc # "none"
  BY <1>2, HandleKept
<1>5. SendTo(rx[c].handle) # c => SendTo(rx[c].handle)' # c
  BY <1>2, DeadStays
<1> QED BY <1>1, <1>3, <1>4, <1>5

LEMMA BroadcastSends ==
    ASSUME IInv, HandleInv, DueInv, BroadcastNext, ~Crash, app'.pc = "send"
    PROVE  DueInv'
<1>a. /\ app \in AppState /\ dwID \in Nat /\ app.at \in Nat
      /\ app.pc = "send"
  BY DEF IInv, TypeOK, AppState, BroadcastNext
<1> DEFINE left == {id \in DOMAIN clientInfo : id >= app.at}
           id == CHOOSE i \in left : \A j \in left : i <= j
           to == SendTo(clientInfo[id].handle)
<1>1. left # {}
  BY <1>a DEF BroadcastNext, AppState
<1>2. /\ app' = [app EXCEPT !.at = id + 1,
                            !.got = IF to = None THEN @ ELSE @ \cup {to}]
      /\ UNCHANGED <<env, taken, owner, network, listen, rx, handler>>
  BY <1>1 DEF BroadcastNext, stream, MayCrash
<1>3. app.at \in left /\ id = app.at
  <2> HIDE DEF left
  <2>1. left = {k \in DOMAIN clientInfo : k >= app.at}
    BY DEF left
  <2> QED BY <1>1, <1>a, <2>1, LeastKey DEF IInv
<1> HIDE DEF id, to, left
<1>4. /\ app'.at = app.at + 1 /\ app'.due = app.due
      /\ app'.got = IF to = None THEN app.got ELSE app.got \cup {to}
  BY <1>a, <1>2, <1>3 DEF AppState
<1>5. UNCHANGED <<peer, owner, clientInfo, rx>>
  BY <1>2 DEF env, network
<1>6. \A h : SendTo(h)' = SendTo(h)
  BY <1>5 DEF SendTo
<1>7. ASSUME NEW c \in app.due
      PROVE  /\ rx[c].pc # "none"
             /\ \E k \in DOMAIN clientInfo :
                  /\ clientInfo[k].conn = c
                  /\ \/ k >= app.at + 1 \/ c \in app'.got
                     \/ SendTo(rx[c].handle) # c
  <2>1. PICK k \in DOMAIN clientInfo :
           /\ clientInfo[k].conn = c
           /\ k >= app.at \/ c \in app.got \/ SendTo(rx[c].handle) # c
    BY <1>a DEF DueInv
  <2>2. c \in Clients /\ rx[c].pc # "none" /\ k \in Nat
    BY <1>a DEF DueInv, AppState, IInv, TypeOK
  <2>3. CASE k = app.at
    <3>1. to = SendTo(rx[c].handle)
      BY <1>3, <2>1, <2>3 DEF HandleInv, to
    <3>2. to = c => c \in app'.got
      BY <1>4, <2>2, NoneAssumption
    <3> QED BY <2>1, <2>2, <3>1, <3>2
  <2>4. CASE k # app.at
    <3>1. k >= app.at => k >= app.at + 1
      BY <1>a, <2>2, <2>4
    <3>2. c \in app.got => c \in app'.got
      BY <1>4
    <3> QED BY <2>1, <2>2, <3>1, <3>2
  <2> QED BY <2>3, <2>4
<1>8. \A c : SendTo(rx[c].handle)' = SendTo(rx[c].handle)
  BY <1>5 DEF SendTo
<1> QED BY <1>4, <1>5, <1>7, <1>8 DEF DueInv

LEMMA DueStep ==
    ASSUME IInv, IInv', HandleInv, DueInv, Next
    PROVE  DueInv'
<1>a. app \in AppState
  BY DEF IInv, TypeOK
<1>1. CASE UNCHANGED app
  BY <1>1, DueWaits
<1>2. CASE app'.pc # "send"
  BY <1>2 DEF DueInv
<1>3. CASE Broadcast
  <2>1. /\ app'.due = {clientInfo[id].conn : id \in DOMAIN clientInfo}
        /\ app'.at = 0
        /\ UNCHANGED <<clientInfo, rx>>
    BY <1>a, <1>3 DEF Broadcast, AppState, network
  <2>2. \A id \in DOMAIN clientInfo : id >= 0
    BY DEF IInv, TypeOK
  <2>3. ASSUME NEW c \in app'.due
        PROVE  /\ rx[c].pc # "none"
               /\ \E id \in DOMAIN clientInfo :
                    clientInfo[id].conn = c /\ id >= 0
    BY <2>1, <2>2 DEF HandleInv
  <2> QED BY <2>1, <2>3 DEF DueInv
<1>4. CASE BroadcastNext /\ ~Crash /\ app'.pc = "send"
  BY <1>4, BroadcastSends
<1>5. CASE Crash
  BY <1>1, <1>5, Frames
<1>6. Connect \/ DisConnect \/ DisConnectReset \/ DisConnectJoin
        => app'.pc # "send" \/ Crash
  BY <1>a DEF Connect, DisConnect, DisConnectReset, DisConnectJoin, AppState
<1> QED BY <1>1, <1>2, <1>3, <1>4, <1>5, <1>6, Frames DEF Next, App

\* SharedNetwork.cpp:344-363: when ServerAllClientSend returns, every client that
\* was in the map and whose connection is open was sent the message, although
\* the listen thread inserts and receive threads close connections meanwhile.
THEOREM BroadcastReaches == Spec => BroadcastReachesAll
<1>1. Init => HandleInv /\ DueInv
  BY DEF Init, HandleInv, DueInv
<1>2. ASSUME IInv, IInv', HandleInv, DueInv, [Next]_vars
      PROVE  HandleInv' /\ DueInv'
  <2>1. CASE UNCHANGED vars
    BY <1>2, <2>1 DEF vars, env, network, HandleInv, DueInv, SendTo
  <2> QED BY <1>2, <2>1, HandleStep, DueStep
<1>3. ASSUME IInv, DueInv, [Next]_vars
      PROVE  [app.pc = "send" /\ app'.pc = "idle" =>
                 \A c \in app.due : SendTo(rx[c].handle) = c
                                       => c \in app.got]_vars
  <2> SUFFICES ASSUME Next, app.pc = "send", app'.pc = "idle",
                      NEW c \in app.due, SendTo(rx[c].handle) = c
               PROVE  c \in app.got
    BY <1>3
  <2>a. app \in AppState
    BY <1>3 DEF IInv, TypeOK
  <2>1. UNCHANGED app \/ BroadcastNext
    BY Frames DEF Next, App, Connect, DisConnect, DisConnectReset,
                  DisConnectJoin, Broadcast
  <2>2. BroadcastNext /\ ~UNCHANGED app
    BY <2>1
  <2>3. {id \in DOMAIN clientInfo : id >= app.at} = {}
    BY <2>a, <2>2 DEF BroadcastNext, MayCrash, Crash, AppState
  <2>4. \E id \in DOMAIN clientInfo : id >= app.at \/ c \in app.got
    BY <1>3 DEF DueInv
  <2> QED BY <2>3, <2>4
<1> QED BY <1>1, <1>2, <1>3, Invariance, PTL DEF Spec, BroadcastReachesAll
----------------------------------------------------------------------------
(* Every connection is a channel of frames: NetServer and TcpReceive promise the
   same of it. *)

\* The frames put on a connection, with the one that a close cut short.
PutOn(c) == sent[c] + (IF cut[c] THEN 1 ELSE 0)

StateOf(c) == IF peer[c] = "fin" THEN "closed"
              ELSE IF peer[c] = "rst" THEN "broken" ELSE "open"

Channel(c) == INSTANCE FrameChannel
              WITH sent <- PutOn(c), got <- taken[c], state <- StateOf(c)

\* Only a close cuts a frame short.
CutInv == \A c \in Clients : cut[c] => peer[c] \in {"fin", "rst"}

\* What can happen to the client's end of a connection.
ClientStays(c)  == PutOn(c)' = PutOn(c) /\ StateOf(c)' = StateOf(c)
ClientPuts(c)   == /\ PutOn(c)' = PutOn(c) + 1
                   /\ StateOf(c) = "open" /\ StateOf(c)' = "open"
ClientCloses(c) == /\ PutOn(c)' \in {PutOn(c), PutOn(c) + 1}
                   /\ StateOf(c) = "open" /\ StateOf(c)' = "closed"
ClientBreaks(c) == /\ PutOn(c)' = PutOn(c)
                   /\ StateOf(c) # "broken" /\ StateOf(c)' = "broken"

ClientMoves(c) == \/ ClientStays(c) \/ ClientPuts(c)
                  \/ ClientCloses(c) \/ ClientBreaks(c)

LEMMA PeerMoves ==
    ASSUME TypeOK, CutInv, NEW d \in Clients, Peer(d), NEW c \in Clients
    PROVE  ClientMoves(c) /\ (cut'[c] => peer'[c] \in {"fin", "rst"})
<1>a. /\ peer \in [Clients -> {"idle", "pending", "up", "fin", "rst"}]
      /\ sent \in [Clients -> 0 .. MaxPackets] /\ cut \in [Clients -> BOOLEAN]
      /\ sent[c] \in Int /\ cut[c] \in BOOLEAN
      /\ cut[c] => peer[c] \in {"fin", "rst"}
  BY BoundsAssumption DEF TypeOK, CutInv
<1>1. CASE UNCHANGED <<peer[c], sent[c], cut[c]>>
  BY <1>a, <1>1 DEF ClientMoves, ClientStays, PutOn, StateOf
<1>2. CASE d # c
  BY <1>a, <1>1, <1>2 DEF Peer, ClientConnect, ClientSend, ClientClose,
                          ClientReset
<1>3. CASE ClientConnect(c)
  BY <1>a, <1>3 DEF ClientConnect, ClientMoves, ClientStays, PutOn, StateOf
<1>4. CASE ClientSend(c)
  BY <1>a, <1>4 DEF ClientSend, ClientMoves, ClientPuts, PutOn, StateOf
<1>5. CASE ClientClose(c)
  BY <1>a, <1>5 DEF ClientClose, ClientMoves, ClientCloses, PutOn, StateOf
<1>6. CASE ClientReset(c)
  BY <1>a, <1>6 DEF ClientReset, ClientMoves, ClientBreaks, PutOn, StateOf
<1> QED BY <1>2, <1>3, <1>4, <1>5, <1>6 DEF Peer

\* The server's threads accept what waits in the backlog, or reset it.
LEMMA ServerMoves ==
    ASSUME TypeOK, CutInv, App \/ Listen, NEW c \in Clients
    PROVE  ClientMoves(c) /\ (cut'[c] => peer'[c] \in {"fin", "rst"})
<1>a. /\ peer \in [Clients -> {"idle", "pending", "up", "fin", "rst"}]
      /\ cut[c] => peer[c] \in {"fin", "rst"}
  BY DEF TypeOK, CutInv
<1>1. UNCHANGED <<sent, cut>>
  BY Frames
<1>2. \/ peer'[c] = peer[c]
      \/ peer[c] = "pending" /\ peer'[c] \in {"up", "rst"}
  BY <1>a, CloseResets
     DEF App, Connect, DisConnect, DisConnectReset, DisConnectJoin,
              Broadcast, BroadcastNext, Listen, ListenCall, ListenOpen,
              ListenBind, ListenAccept,
              ListenFail, ListenInsert, ResetBacklog, MayCrash, Crash, env
<1> QED BY <1>a, <1>1, <1>2 DEF ClientMoves, ClientStays, ClientBreaks, PutOn,
                                StateOf

\* Frames are taken by the connection's own receive thread, one at a time, and
\* only those that are there.
LEMMA Takes ==
    ASSUME IInv, NEW d \in Clients, Rx(d), NEW c \in Clients
    PROVE  \/ taken'[c] = taken[c]
           \/ /\ d = c /\ rx[c].pc = "recv" /\ StateOf(c) # "broken"
              /\ taken'[c] = taken[c] + 1 /\ taken[c] < PutOn(c)
<1>a. taken \in [Clients -> 0 .. MaxPackets + 1] /\ taken[c] \in Int
  BY BoundsAssumption DEF IInv, TypeOK
<1>b. sent[c] \in Int /\ cut[c] \in BOOLEAN
  BY BoundsAssumption DEF IInv, TypeOK
<1>1. CASE UNCHANGED taken
  BY <1>1
<1>2. CASE RxReceive(d) /\ ~UNCHANGED taken
  <2>1. rx[d].pc = "recv" /\ owner[rx[d].handle] = d
    BY <1>2 DEF RxReceive, IInv, OwnerInv, Serving
  <2>2. /\ peer[d] \in {"up", "fin"}
        /\ \/ taken[d] < sent[d]
           \/ peer[d] = "fin" /\ cut[d] /\ taken[d] = sent[d]
        /\ taken' = [taken EXCEPT ![d] = @ + 1]
    BY <1>2, <2>1 DEF RxReceive, stream, MayCrash, Crash
  <2>3. CASE d # c
    BY <1>a, <2>2, <2>3
  <2>4. CASE d = c
    BY <1>a, <1>b, <2>1, <2>2, <2>4 DEF PutOn, StateOf
  <2> QED BY <2>3, <2>4
<1> QED BY <1>1, <1>2 DEF Rx, stream, RxStart, RxInsert, RxClose, RxEnd,
                          RxJoin,
                          MayCrash, Crash

LEMMA ChannelStep ==
    ASSUME IInv, CutInv, [Next]_vars, NEW c \in Clients
    PROVE  /\ [Channel(c)!Next]_(Channel(c)!chan)
           /\ cut'[c] => peer'[c] \in {"fin", "rst"}
<1> USE DEF Channel!Next, Channel!chan
<1>a. TypeOK /\ (cut[c] => peer[c] \in {"fin", "rst"})
  BY DEF IInv, CutInv
<1>1. CASE UNCHANGED env /\ UNCHANGED taken
  BY <1>a, <1>1 DEF env, PutOn, StateOf
<1>2. ASSUME ClientMoves(c), UNCHANGED taken
      PROVE  [Channel(c)!Next]_(Channel(c)!chan)
  BY <1>2 DEF ClientMoves, ClientStays, ClientPuts, ClientCloses, ClientBreaks,
              Channel!Put, Channel!Close, Channel!Break
<1>3. CASE App \/ Listen
  BY <1>a, <1>2, <1>3, ServerMoves, Frames
<1>4. CASE \E d \in Clients : Peer(d)
  BY <1>a, <1>2, <1>4, PeerMoves, Frames
<1>5. CASE \E d \in Clients : Rx(d)
  <2>1. UNCHANGED env
    BY <1>5, Frames
  <2>2. PutOn(c)' = PutOn(c) /\ StateOf(c)' = StateOf(c)
    BY <2>1 DEF env, PutOn, StateOf
  <2>3. cut'[c] => peer'[c] \in {"fin", "rst"}
    BY <1>a, <2>1 DEF env
  <2> QED BY <1>5, <2>2, <2>3, Takes DEF Channel!Get
<1>6. CASE (\E d \in Clients : Handler(d)) \/ UNCHANGED vars
  BY <1>1, <1>6, Frames DEF vars, stream
<1> QED BY <1>3, <1>4, <1>5, <1>6 DEF Next

\* SharedNetwork.cpp:240-342, TCPServer.cpp:351-477: whatever the threads do
\* with handles that are closed and given out again, every connection is a channel
\* that its frames leave whole, in order and once, until it breaks.
THEOREM ServesChannels == Spec => \A c \in Clients : Channel(c)!Spec
<1>1. Init => CutInv /\ \A c \in Clients : Channel(c)!Init
  BY DEF Init, CutInv, Channel!Init, PutOn, StateOf
<1>2. IInv /\ CutInv /\ [Next]_vars =>
        CutInv' /\ \A c \in Clients : [Channel(c)!Next]_(Channel(c)!chan)
  BY ChannelStep DEF CutInv
<1> SUFFICES ASSUME NEW c \in Clients PROVE Spec => Channel(c)!Spec
  OBVIOUS
<1>3. Init => CutInv /\ Channel(c)!Init
  BY <1>1
<1>4. IInv /\ CutInv /\ [Next]_vars
        => CutInv' /\ [Channel(c)!Next]_(Channel(c)!chan)
  BY <1>2
<1> QED BY <1>3, <1>4, Invariance, PTL DEF Spec, Channel!Spec

\* ServerReceiveThread: a frame is taken out of a connection by the connection's
\* own receive thread only, also when its handle was another's before.
THEOREM OwnThreadTakes ==
    Spec => [][\A c \in Clients : taken'[c] # taken[c] =>
                   rx[c].pc = "recv" /\ rx'[c].pkt.from = c]_vars
<1>1. ASSUME IInv, [Next]_vars
      PROVE  [\A c \in Clients : taken'[c] # taken[c] =>
                  rx[c].pc = "recv" /\ rx'[c].pkt.from = c]_vars
  <2> SUFFICES ASSUME Next, NEW c \in Clients, taken'[c] # taken[c]
               PROVE  rx[c].pc = "recv" /\ rx'[c].pkt.from = c
    BY <1>1
  <2>1. PICK d \in Clients : Rx(d)
    BY Frames DEF Next
  <2>2. d = c /\ rx[c].pc = "recv"
    BY <1>1, <2>1, Takes
  <2>3. RxReceive(c) /\ owner[rx[c].handle] = c /\ rx \in [Clients -> RxState]
    BY <1>1, <2>1, <2>2 DEF Rx, RxStart, RxInsert, RxClose, RxEnd, RxJoin,
                            IInv, OwnerInv, Serving, TypeOK
  <2>4. rx' = [rx EXCEPT ![c].pc = "insert",
                         ![c].pkt = [from |-> c, n |-> taken[c] + 1]]
    BY <2>3 DEF RxReceive, stream, MayCrash, Crash
  <2> QED BY <2>2, <2>3, <2>4 DEF RxState
<1> QED BY <1>1, Invariance, PTL DEF Spec
----------------------------------------------------------------------------
(* What can end the process. *)

\* Without a server that was not destroyed, nothing was started yet.
QuietInv ==
    /\ app.pc \in {"reset", "join"} => isStop
    /\ server = "null" /\ ~isStop =>
         /\ listen.pc = "none" /\ DOMAIN clientInfo = {} /\ app.pc = "idle"
         /\ \A c \in Clients : rx[c].pc = "none"

LEMMA QuietStep ==
    ASSUME IInv, QuietInv, Next
    PROVE  QuietInv'
<1>a. app \in AppState /\ rx \in [Clients -> RxState]
  BY DEF IInv, TypeOK
<1>1. CASE UNCHANGED <<network, listen,
                       app>> /\ \A c \in Clients : rx'[c].pc # "none" => rx[c].pc # "none"
  BY <1>1 DEF QuietInv, network
<1>2. CASE App
  <2>1. UNCHANGED <<clientInfo, rx>>
    BY <1>2, Frames
  <2>2. CASE Connect /\ ~Crash
    BY <1>a, <2>1, <2>2 DEF Connect, QuietInv, AppState
  <2>3. CASE DisConnect \/ DisConnectReset
    BY <1>a, <2>1, <2>3 DEF DisConnect, DisConnectReset, QuietInv, AppState
  <2>4. CASE DisConnectJoin
    BY <1>a, <2>1, <2>4 DEF DisConnectJoin, QuietInv, AppState, network
  <2>5. CASE Broadcast \/ (BroadcastNext /\ ~Crash)
    <3>1. UNCHANGED <<isStop, server, listen>>
      BY <2>5 DEF Broadcast, BroadcastNext, MayCrash, network
    <3>2. app'.pc \in {"idle", "send"}
      BY <1>a, <2>5 DEF Broadcast, BroadcastNext, MayCrash, AppState
    <3>3. server = "null" /\ ~isStop => FALSE
      BY <2>5 DEF Broadcast, BroadcastNext, QuietInv
    <3> QED BY <3>1, <3>2, <3>3 DEF QuietInv
  <2>6. CASE Crash
    BY <1>1, <2>1, <2>6, Frames
  <2> QED BY <1>2, <2>2, <2>3, <2>4, <2>5, <2>6 DEF App
<1>3. CASE Listen
  <2>1. UNCHANGED <<isStop, app>>
    BY <1>3, Frames
  <2>2. server = "null" /\ ~isStop => FALSE
    BY <1>3 DEF Listen, ListenCall, ListenOpen, ListenBind, ListenAccept,
                ListenFail, ListenInsert, QuietInv
  <2>3. server # "null" => server' # "null"
    BY <1>3, Frames
  <2> QED BY <2>1, <2>2, <2>3 DEF QuietInv
<1>4. CASE Crash \/ \E c \in Clients : Peer(c) \/ Handler(c)
  BY <1>1, <1>4, Frames
<1>5. CASE \E c \in Clients : Rx(c)
  <2>1. \A c \in Clients : rx'[c].pc # "none" => rx[c].pc # "none"
    BY <1>5, RxSteps DEF IInv
  <2> QED BY <1>1, <1>5, <2>1, Frames
<1> QED BY <1>2, <1>3, <1>4, <1>5 DEF Next

\* CNetwork: the process ends only by a second Connect while the listen thread
\* runs, after DisConnect destroyed the server under its threads, or when a
\* server whose listen socket failed is listened on again.
THEOREM CrashesOnly ==
    Spec => [][~crashed /\ crashed' =>
                   \/ isStop \/ listenSocket = "broken"
                   \/ Connect /\ listen.pc # "none"]_vars
<1>1. Init => QuietInv
  BY DEF Init, QuietInv
<1>2. IInv /\ QuietInv /\ [Next]_vars => QuietInv'
  BY QuietStep DEF QuietInv, vars, network
<1>3. ASSUME IInv, QuietInv, [Next]_vars
      PROVE  [~crashed /\ crashed' =>
                  \/ isStop \/ listenSocket = "broken"
                  \/ Connect /\ listen.pc # "none"]_vars
  <2> SUFFICES ASSUME Next, ~crashed, crashed', ~isStop,
  listenSocket # "broken",
                      ~(Connect /\ listen.pc # "none")
               PROVE  FALSE
    BY <1>3
  <2>a. server = "null" => /\ listen.pc = "none" /\ app.pc = "idle"
                           /\ \A c \in Clients : rx[c].pc = "none"
                                                 /\ handler[c].pc = "none"
    BY <1>3 DEF IInv, QuietInv, ThreadsInv
  <2>1. ~App
    BY <2>a DEF App, Connect, DisConnect, DisConnectReset, DisConnectJoin,
                Broadcast, BroadcastNext, MayCrash
  <2>2. ~Listen
    BY <2>a
       DEF Listen, ListenCall, ListenOpen, ListenBind, ListenAccept,
           ListenFail, ListenInsert,
                ListenFrame, MayCrash
  <2>3. ASSUME NEW c \in Clients PROVE ~(Peer(c) \/ Rx(c) \/ Handler(c))
    <3>1. ~Peer(c)
      BY DEF Peer, ClientConnect, ClientSend, ClientClose, ClientReset,
             PeerFrame
    <3>2. ~Rx(c)
      BY <2>a DEF Rx, RxStart, RxReceive, RxInsert, RxClose, RxEnd, RxJoin,
                  RxFrame, MayCrash
    <3>3. ~Handler(c)
      BY <2>a DEF Handler, HandlerLoop, HandlerWake, HandlerFunc, HandlerFrame,
                  MayCrash
    <3> QED BY <3>1, <3>2, <3>3
  <2> QED BY <2>1, <2>2, <2>3 DEF Next
<1> QED BY <1>1, <1>2, <1>3, Invariance, PTL DEF Spec
=============================================================================
