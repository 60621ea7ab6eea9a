--------------------------- MODULE NetClient_proofs ---------------------------
(***************************************************************************)
(* Proofs about NetClient: first for any number of callers what does not   *)
(* depend on the numbers, then for one caller and numbers that arrive as   *)
(* they were sent that answers and requests belong together.               *)
(***************************************************************************)
EXTENDS NetClient, FiniteSetTheorems, SequenceTheorems, TLAPS

----------------------------------------------------------------------------
(* NetFrame: what the conversion of sizes and ids loses, for every byte     *)
(* size.                                                                    *)

\* What the receiver makes of a word, byte by byte.
LEMMA FromWireValue ==
    ASSUME NEW w \in Word
    PROVE  FromWire(w) =
             IF w[4] >= SignBit THEN <<ByteMax, ByteMax, ByteMax, w[4]>>
             ELSE IF w[3] >= SignBit THEN <<ByteMax, ByteMax, w[3], w[4]>>
             ELSE IF w[2] >= SignBit THEN <<ByteMax, w[2], w[3], w[4]>>
             ELSE w
  <1>1. PICK a \in Byte, b \in Byte, c \in Byte, d \in Byte : w = <<a, b, c, d>>
    BY DEF Word
  <1>2. FromWire(w) = ShiftOr(ShiftOr(ShiftOr(Widen(a), b), c), d)
    BY <1>1 DEF FromWire
  <1>3. Widen(a)[4] = a
    BY DEF Widen
  <1> DEFINE u == ShiftOr(Widen(a), b)
             v == ShiftOr(u, c)
  <1>4. /\ u[4] = b
        /\ u[3] = IF b >= SignBit THEN ByteMax ELSE a
    BY <1>3, ByteAssumption DEF ShiftOr, Byte
  <1>5. /\ v[4] = c
        /\ v[3] = IF c >= SignBit THEN ByteMax ELSE b
        /\ v[2] = IF c >= SignBit \/ b >= SignBit THEN ByteMax ELSE a
    BY <1>4, ByteAssumption DEF ShiftOr, Byte
  <1> HIDE DEF u, v
  <1>6. ShiftOr(v, d) = IF d >= SignBit THEN <<ByteMax, ByteMax, ByteMax, d>>
                                        ELSE <<v[2], v[3], v[4], d>>
    BY ByteAssumption DEF ShiftOr, Byte
  <1>7. FromWire(w) = ShiftOr(v, d)
    BY <1>2 DEF u, v
  <1>8. w[1] = a /\ w[2] = b /\ w[3] = c /\ w[4] = d
    BY <1>1
  <1>9. QED
    BY <1>1, <1>5, <1>6, <1>7, <1>8, ByteAssumption DEF Byte

\* A size or an id arrives unchanged exactly when no byte below the first is
\* negative as a char, but for the words that start with ByteMax bytes
\* (convertSendMsg, then convertReceiveMsg).
THEOREM FaithfulIffRoundTrip ==
    \A w \in Word : FromWire(ToWire(w)) = w <=> Faithful(w)
  <1> SUFFICES ASSUME NEW w \in Word
               PROVE  FromWire(ToWire(w)) = w <=> Faithful(w)
    OBVIOUS
  <1>1. PICK a \in Byte, b \in Byte, c \in Byte, d \in Byte : w = <<a, b, c, d>>
    BY DEF Word
  <1>2. FromWire(w) =
          IF d >= SignBit THEN <<ByteMax, ByteMax, ByteMax, d>>
          ELSE IF c >= SignBit THEN <<ByteMax, ByteMax, c, d>>
          ELSE IF b >= SignBit THEN <<ByteMax, b, c, d>>
          ELSE <<a, b, c, d>>
    BY <1>1, FromWireValue
  <1>3. QED
    BY <1>1, <1>2, ByteAssumption DEF Faithful, ToWire, Byte

----------------------------------------------------------------------------
(* The inductive invariant for any number of callers. *)

In(pc) == {c \in Callers : caller[c].pc = pc}

\* _msgID is the number of requests put on a connection, less those that are
\* between Send and the count; so it never passes the bound.
CountInv ==
    /\ Len(reqs) + Cardinality(In("send")) <= MaxSends
    /\ msgID + Cardinality(In("count")) = Len(reqs)
    /\ pushID <= pushes

\* A caller that counts or is in ClientReceiveWait does it for a request.
Waiting == {"wait", "read", "erase"}

RequestInv ==
    \A c \in Callers :
      caller[c].pc \in {"count"} \cup Waiting => caller[c].req \in 1 .. MaxSends

IInv == TypeOK /\ CountInv /\ RequestInv /\ ConnectFindsNoThread

----------------------------------------------------------------------------
(* Facts about the operators. *)

LEMMA Bounds ==
    /\ MaxSends \in Nat /\ MaxPushes \in Nat /\ MaxConnects \in Nat
    /\ MaxPolls \in Nat /\ ByteMax \in Nat /\ 0 \in Byte
    /\ 0 .. MaxSends \subseteq Byte /\ 0 .. MaxPushes \subseteq Byte
    /\ IsFiniteSet(Callers)
BY ClientAssumption, ByteAssumption DEF ClientAssumption, ByteAssumption, Byte

LEMMA LowIsWord == \A b \in Byte : Low(b) \in Word
BY Bounds DEF Low, Word

LEMMA ArrivesIsWord == \A w \in Word : Arrives(w) \in Word
<1> SUFFICES ASSUME NEW w \in Word PROVE Arrives(w) \in Word
  OBVIOUS
<1>1. PICK a \in Byte, b \in Byte, c \in Byte, d \in Byte : w = <<a, b, c, d>>
  BY DEF Word
<1>2. ByteMax \in Byte
  BY ByteAssumption DEF ByteAssumption, Byte
<1>3. w[1] = a /\ w[2] = b /\ w[3] = c /\ w[4] = d
  BY <1>1
<1>4. FromWire(w) \in Word
  BY <1>1, <1>2, <1>3, FromWireValue DEF Word
<1> QED BY <1>4 DEF Arrives, ToWire

LEMMA InIsFinite ==
    ASSUME NEW pc
    PROVE  IsFiniteSet(In(pc)) /\ Cardinality(In(pc)) \in Nat
<1>1. In(pc) \in SUBSET Callers
  BY DEF In
<1> QED BY <1>1, Bounds, FS_Subset, FS_CardinalityType

LEMMA WhatHas ==
    /\ \A n \in 0 .. MaxSends : n \in What /\ n \in Push .. MaxSends
    /\ \A n \in Push .. MaxSends : n \in What
    /\ Push \in What /\ Nothing \in What /\ Push \in Push .. MaxSends
BY Bounds DEF What, Push, Nothing

LEMMA NoMessageIs == NoMessage \in Message
BY WhatHas, Bounds, LowIsWord DEF NoMessage, Message

----------------------------------------------------------------------------
(* Each action keeps the invariant. *)

LEMMA CrashKeeps == IInv /\ Crash => IInv'
BY DEF Crash, server, IInv, TypeOK, CountInv, RequestInv,
       ConnectFindsNoThread, In

\* The other end.
LEMMA PeerKeeps ==
    ASSUME IInv, PeerFrame, conn' \in {"none", "up", "fin", "rst"},
           open' \subseteq open, down' \in Seq(Message),
           pushes' \in 0 .. MaxPushes, pushID' \in 0 .. MaxPushes,
           pushID' <= pushes'
    PROVE  IInv'
<1>1. TypeOK'
  BY DEF IInv, TypeOK, PeerFrame
<1>2. CountInv' /\ RequestInv' /\ ConnectFindsNoThread'
  BY DEF IInv, CountInv, RequestInv, ConnectFindsNoThread, PeerFrame, In
<1> QED BY <1>1, <1>2 DEF IInv

LEMMA PeerStepKeeps == ASSUME IInv, Peer PROVE IInv'
<1>1. /\ down \in Seq(Message) /\ open \subseteq 1 .. Len(reqs)
      /\ reqs \in Seq(Word) /\ Len(reqs) \in 0 .. MaxSends
      /\ pushes \in 0 .. MaxPushes /\ pushID \in 0 .. MaxPushes
      /\ pushID <= pushes /\ conn \in {"none", "up", "fin", "rst"}
  BY Bounds DEF IInv, TypeOK, CountInv
<1>2. ASSUME NEW m \in Message PROVE Append(down, m) \in Seq(Message)
  BY <1>1, AppendProperties
<1>3. CASE ServerResponse
  <2>1. PICK n \in open :
           /\ open' = open \ {n}
           /\ down' = Append(down, [id |-> Arrives(reqs[n]), what |-> n])
    BY <1>3 DEF ServerResponse
  <2>2. reqs[n] \in Word /\ n \in Push .. MaxSends
    BY <1>1, Bounds DEF Push
  <2>3. [id |-> Arrives(reqs[n]), what |-> n] \in Message
    BY <2>2, ArrivesIsWord DEF Message
  <2>4. UNCHANGED <<conn, pushID, pushes>> /\ PeerFrame
    BY <1>3 DEF ServerResponse
  <2> QED BY <1>1, <1>2, <2>1, <2>3, <2>4, PeerKeeps
<1>4. CASE ServerSend
  <2>1. [id |-> Low(pushID), what |-> Push] \in Message
    BY <1>1, Bounds, LowIsWord, WhatHas DEF Message
  <2>2. /\ pushes' = pushes + 1 /\ pushID' = pushID + 1
        /\ pushes' \in 0 .. MaxPushes /\ pushID' \in 0 .. MaxPushes
        /\ pushID' <= pushes'
    BY <1>1, <1>4, Bounds DEF ServerSend
  <2>3. /\ down' = Append(down, [id |-> Low(pushID), what |-> Push])
        /\ UNCHANGED <<conn, open>> /\ PeerFrame
    BY <1>4 DEF ServerSend
  <2> QED BY <1>1, <1>2, <2>1, <2>2, <2>3, PeerKeeps
<1>5. CASE ServerAllClientSend
  <2>1. [id |-> Low(0), what |-> Push] \in Message
    BY Bounds, LowIsWord, WhatHas DEF Message
  <2>2. /\ pushes' = pushes + 1 /\ pushes' \in 0 .. MaxPushes
        /\ pushID' = pushID /\ pushID' <= pushes'
    BY <1>1, <1>5, Bounds DEF ServerAllClientSend
  <2>3. /\ down' = Append(down, [id |-> Low(0), what |-> Push])
        /\ UNCHANGED <<conn, open>> /\ PeerFrame
    BY <1>5 DEF ServerAllClientSend
  <2> QED BY <1>1, <1>2, <2>1, <2>2, <2>3, PeerKeeps
<1>6. CASE Lose
  <2>1. /\ open' = {} /\ UNCHANGED <<pushID, pushes>> /\ PeerFrame
        /\ conn' \in {"fin", "rst"} /\ (down' = down \/ down' = <<>>)
    BY <1>6 DEF Lose
  <2>2. <<>> \in Seq(Message)
    OBVIOUS
  <2>3. down' \in Seq(Message)
    BY <1>1, <2>1, <2>2
  <2>4. /\ pushes' \in 0 .. MaxPushes /\ pushID' \in 0 .. MaxPushes
        /\ pushID' <= pushes'
    BY <1>1, <2>1
  <2>5. conn' \in {"none", "up", "fin", "rst"} /\ open' \subseteq open
    BY <2>1
  <2> QED BY <2>1, <2>3, <2>4, <2>5, PeerKeeps
<1> QED BY <1>3, <1>4, <1>5, <1>6 DEF Peer

LEMMA RxLoopIs == RxLoop => rx' \in RxState /\ rx'.pc \in {"done", "recv"}
BY NoMessageIs DEF RxLoop, RxState

LEMMA AppKeeps == ASSUME IInv, App PROVE IInv'
<1>1. [pc |-> "none", msg |-> NoMessage] \in RxState
  BY NoMessageIs DEF RxState
<1>2. ASSUME NEW pc \in {"done", "recv"}
      PROVE  [pc |-> pc, msg |-> NoMessage] \in RxState
  BY NoMessageIs DEF RxState
<1>3. CASE Connect
  <2>1. CASE Crash
    BY <2>1, CrashKeeps
  <2>2. CASE ~Crash
    <3>1. /\ UNCHANGED <<isStop, app, msgID, map, caller, reqs, open, pushID,
                         pushes, crashed, got>>
          /\ app = "idle" /\ connects < MaxConnects
          /\ \/ /\ status' = "connected" /\ conn' = "up" /\ down' = <<>>
                /\ connects' = connects + 1
                /\ rx' = [pc |-> IF isStop THEN "done" ELSE "recv",
                          msg |-> NoMessage]
             \/ /\ status' = "disconnected" /\ rx.pc = "none"
                /\ UNCHANGED <<conn, connects, rx, down>>
      BY <1>3, <2>2 DEF Connect, server
    <3>2. rx' \in RxState /\ connects' \in 0 .. MaxConnects
      BY <1>2, <3>1, Bounds DEF IInv, TypeOK
    <3>3. TypeOK'
      <4>1. <<>> \in Seq(Message)
        OBVIOUS
      <4>2. down' \in Seq(Message)
        BY <3>1, <4>1 DEF IInv, TypeOK
      <4>3. /\ status' \in {"null", "connected", "disconnected"}
            /\ conn' \in {"none", "up", "fin", "rst"}
        BY <3>1 DEF IInv, TypeOK
      <4> QED BY <3>1, <3>2, <4>2, <4>3 DEF IInv, TypeOK
    <3>4. CountInv' /\ RequestInv' /\ ConnectFindsNoThread'
      BY <3>1 DEF IInv, CountInv, RequestInv, ConnectFindsNoThread, In
    <3> QED BY <3>3, <3>4 DEF IInv
  <2> QED BY <2>1, <2>2
<1>4. CASE DisConnect
  <2>1. TypeOK'
    BY <1>4 DEF DisConnect, server, IInv, TypeOK
  <2>2. CountInv' /\ RequestInv' /\ ConnectFindsNoThread'
    BY <1>4 DEF DisConnect, server, IInv, CountInv, RequestInv,
                ConnectFindsNoThread, In
  <2> QED BY <2>1, <2>2 DEF IInv
<1>5. CASE DisConnectClose
  <2>1. TypeOK'
    BY <1>5 DEF DisConnectClose, IInv, TypeOK
  <2>2. CountInv' /\ RequestInv' /\ ConnectFindsNoThread'
    BY <1>5 DEF DisConnectClose, IInv, CountInv, RequestInv,
                ConnectFindsNoThread, In
  <2> QED BY <2>1, <2>2 DEF IInv
<1>6. CASE DisConnectJoin
  <2>1. TypeOK'
    BY <1>1, <1>6 DEF DisConnectJoin, server, IInv, TypeOK
  <2>2. CountInv' /\ RequestInv' /\ ConnectFindsNoThread'
    BY <1>6 DEF DisConnectJoin, server, IInv, CountInv, RequestInv,
                ConnectFindsNoThread, In
  <2> QED BY <2>1, <2>2 DEF IInv
<1> QED BY <1>3, <1>4, <1>5, <1>6 DEF App

\* What is filed under each number.
LEMMA RxFileIs ==
    ASSUME RxFile
    PROVE  /\ DOMAIN map' = DOMAIN map \cup {rx.msg.id}
           /\ \A w \in DOMAIN map' :
                map'[w] = IF w = rx.msg.id THEN rx.msg.what ELSE map[w]
BY DEF RxFile

LEMMA RxReceiveIs ==
    ASSUME TypeOK, RxReceive, down # <<>>
    PROVE  /\ rx'.pc = "file" /\ rx' \in RxState
           /\ rx'.msg.what = Head(down).what
           /\ rx'.msg.id = Arrives(Head(down).id)
           /\ down' = Tail(down) /\ down' \in Seq(Message)
           /\ Head(down) \in Message
<1>1. /\ rx' = [pc |-> "file", msg |-> [Head(down) EXCEPT !.id = Arrives(@)]]
      /\ down' = Tail(down)
  BY DEF RxReceive
<1>2. Head(down) \in Message /\ Tail(down) \in Seq(Message)
  BY HeadTailProperties DEF TypeOK
<1> DEFINE m == [Head(down) EXCEPT !.id = Arrives(@)]
<1>3. /\ m \in Message /\ m.what = Head(down).what
      /\ m.id = Arrives(Head(down).id)
  BY <1>2, ArrivesIsWord DEF Message
<1> HIDE DEF m
<1>4. rx' = [pc |-> "file", msg |-> m]
  BY <1>1 DEF m
<1> QED BY <1>1, <1>2, <1>3, <1>4 DEF RxState

LEMMA RxKeeps == ASSUME IInv, Rx PROVE IInv'
<1>1. /\ RxFrame /\ rx.pc \in {"recv", "file"}
  BY DEF Rx, RxReceive, RxFile
<1>2. /\ rx' \in RxState /\ rx'.pc # "none"
      /\ down' \in Seq(Message)
      /\ DOMAIN map' \subseteq Word /\ \A w \in DOMAIN map' : map'[w] \in What
  <2>1. CASE RxReceive /\ down # <<>>
    BY <2>1, RxReceiveIs DEF IInv, TypeOK, RxReceive
  <2>2. CASE RxReceive /\ down = <<>>
    BY <2>2, RxLoopIs DEF IInv, TypeOK, RxReceive
  <2>3. CASE RxFile
    <3>1. rx.msg.id \in Word /\ rx.msg.what \in What
      BY WhatHas DEF IInv, TypeOK, RxState, Message
    <3>2. RxLoop /\ UNCHANGED down
      BY <2>3 DEF RxFile
    <3> QED BY <2>3, <3>1, <3>2, RxFileIs, RxLoopIs DEF IInv, TypeOK
  <2> QED BY <2>1, <2>2, <2>3 DEF Rx
<1>3. TypeOK'
  BY <1>1, <1>2 DEF IInv, TypeOK, RxFrame
<1>4. CountInv' /\ RequestInv' /\ ConnectFindsNoThread'
  BY <1>1, <1>2 DEF IInv, CountInv, RequestInv, ConnectFindsNoThread,
                    RxFrame, In
<1> QED BY <1>3, <1>4 DEF IInv

----------------------------------------------------------------------------
(* The callers. *)

\* Who is where after one caller moved.
LEMMA InAfter ==
    ASSUME NEW c \in Callers, NEW pc,
           \A d \in Callers \ {c} : caller'[d] = caller[d]
    PROVE  /\ caller'[c].pc = pc => In(pc)' = In(pc) \cup {c}
           /\ caller'[c].pc # pc => In(pc)' = In(pc) \ {c}
BY DEF In

LEMMA InCounts ==
    ASSUME NEW c \in Callers, NEW pc,
           \A d \in Callers \ {c} : caller'[d] = caller[d]
    PROVE  /\ Cardinality(In(pc)) \in Nat /\ Cardinality(In(pc)') \in Nat
           /\ caller[c].pc = pc /\ caller'[c].pc # pc
                => Cardinality(In(pc)') = Cardinality(In(pc)) - 1
           /\ caller[c].pc # pc /\ caller'[c].pc = pc
                => Cardinality(In(pc)') = Cardinality(In(pc)) + 1
           /\ (caller[c].pc = pc <=> caller'[c].pc = pc)
                => In(pc)' = In(pc)
<1>1. IsFiniteSet(In(pc)) /\ Cardinality(In(pc)) \in Nat
  BY InIsFinite
<1>2. c \in In(pc) <=> caller[c].pc = pc
  BY DEF In
<1>3. CASE caller'[c].pc = pc
  <2>1. In(pc)' = In(pc) \cup {c}
    BY <1>3, InAfter
  <2>2. IsFiniteSet(In(pc)')
    BY <1>1, <2>1, FS_AddElement
  <2>3. Cardinality(In(pc)') \in Nat
    BY <2>2, FS_CardinalityType
  <2>4. c \notin In(pc) => Cardinality(In(pc)') = Cardinality(In(pc)) + 1
    BY <1>1, <2>1, FS_AddElement
  <2>5. c \in In(pc) => In(pc)' = In(pc)
    BY <2>1
  <2> QED BY <1>1, <1>2, <1>3, <2>3, <2>4, <2>5
<1>4. CASE caller'[c].pc # pc
  <2>1. In(pc)' = In(pc) \ {c}
    BY <1>4, InAfter
  <2>2. IsFiniteSet(In(pc)')
    BY <1>1, <2>1, FS_RemoveElement
  <2>3. Cardinality(In(pc)') \in Nat
    BY <2>2, FS_CardinalityType
  <2>4. c \in In(pc) => Cardinality(In(pc)') = Cardinality(In(pc)) - 1
    BY <1>1, <2>1, FS_RemoveElement
  <2>5. c \notin In(pc) => In(pc)' = In(pc)
    BY <2>1
  <2> QED BY <1>1, <1>2, <1>4, <2>3, <2>4, <2>5
<1> QED BY <1>3, <1>4

\* What a caller's record becomes, as facts about its fields.
LEMMA CallerFields ==
    ASSUME NEW r \in CallerState
    PROVE  /\ r.pc \in {"idle", "send", "count", "wait", "read", "erase"}
           /\ r.id \in 0 .. MaxSends /\ r.req \in 0 .. MaxSends
           /\ r.read \in What /\ r.polls \in 0 .. MaxPolls
           /\ r.mine \subseteq [id : 0 .. MaxSends, req : 1 .. MaxSends]
BY DEF CallerState

Moved(c, u) ==
    /\ caller' \in [Callers -> CallerState]
    /\ caller'[c] = u
    /\ \A d \in Callers \ {c} : caller'[d] = caller[d]

LEMMA Moves ==
    ASSUME TypeOK, NEW c \in Callers, NEW u \in CallerState,
           caller' = [caller EXCEPT ![c] = u]
    PROVE  Moved(c, u)
BY DEF TypeOK, Moved

LEMMA SendBuildIs ==
    ASSUME IInv, NEW c \in Callers, SendBuild(c)
    PROVE  \E u \in CallerState :
              /\ Moved(c, u)
              /\ u.pc = "send" /\ u.id = msgID /\ u.req = caller[c].req
              /\ u.mine = caller[c].mine
<1>1. caller[c] \in CallerState
  BY DEF IInv, TypeOK
<1> DEFINE u == [caller[c] EXCEPT !.pc = "send", !.id = msgID]
<1>2. /\ u \in CallerState /\ u.pc = "send" /\ u.id = msgID
      /\ u.req = caller[c].req /\ u.mine = caller[c].mine
  BY <1>1 DEF CallerState, IInv, TypeOK
<1>3. caller' = [caller EXCEPT ![c] = u]
  BY DEF SendBuild, IInv, TypeOK
<1> HIDE DEF u
<1> QED BY <1>2, <1>3, Moves DEF IInv

LEMMA ToIdleIs ==
    ASSUME IInv, NEW c \in Callers,
           caller' = [caller EXCEPT ![c].pc = "idle"]
    PROVE  \E u \in CallerState :
              /\ Moved(c, u) /\ u.pc = "idle"
              /\ u.mine = caller[c].mine
<1>1. caller[c] \in CallerState
  BY DEF IInv, TypeOK
<1> DEFINE u == [caller[c] EXCEPT !.pc = "idle"]
<1>2. u \in CallerState /\ u.pc = "idle" /\ u.mine = caller[c].mine
  BY <1>1 DEF CallerState
<1>3. caller' = [caller EXCEPT ![c] = u]
  BY DEF IInv, TypeOK
<1> HIDE DEF u
<1> QED BY <1>2, <1>3, Moves DEF IInv

LEMMA ToCountIs ==
    ASSUME IInv, NEW c \in Callers, NEW n \in 1 .. MaxSends,
           caller' = [caller EXCEPT ![c].pc = "count", ![c].req = n]
    PROVE  \E u \in CallerState :
              /\ Moved(c, u) /\ u.pc = "count" /\ u.req = n
              /\ u.id = caller[c].id /\ u.mine = caller[c].mine
<1>1. caller[c] \in CallerState /\ n \in 0 .. MaxSends
  BY Bounds DEF IInv, TypeOK
<1> DEFINE u == [caller[c] EXCEPT !.pc = "count", !.req = n]
<1>2. /\ u \in CallerState /\ u.pc = "count" /\ u.req = n
      /\ u.id = caller[c].id /\ u.mine = caller[c].mine
  BY <1>1 DEF CallerState
<1>3. caller' = [caller EXCEPT ![c] = u]
  BY DEF IInv, TypeOK
<1> HIDE DEF u
<1> QED BY <1>2, <1>3, Moves DEF IInv

\* The caller's own requests change with its return to the rest.
LEMMA ToMineIs ==
    ASSUME IInv, NEW c \in Callers,
           NEW S \in SUBSET [id : 0 .. MaxSends, req : 1 .. MaxSends],
           caller' = [caller EXCEPT ![c].pc = "idle", ![c].mine = S]
    PROVE  \E u \in CallerState :
              Moved(c, u) /\ u.pc = "idle" /\ u.mine = S
<1>1. caller[c] \in CallerState
  BY DEF IInv, TypeOK
<1> DEFINE u == [caller[c] EXCEPT !.pc = "idle", !.mine = S]
<1>2. u \in CallerState /\ u.pc = "idle" /\ u.mine = S
  BY <1>1 DEF CallerState
<1>3. caller' = [caller EXCEPT ![c] = u]
  BY DEF IInv, TypeOK
<1> HIDE DEF u
<1> QED BY <1>2, <1>3, Moves DEF IInv

LEMMA WaitIs ==
    ASSUME IInv, NEW c \in Callers, NEW m \in caller[c].mine,
           caller' = [caller EXCEPT ![c].pc = "wait", ![c].id = m.id,
                                    ![c].req = m.req, ![c].polls = 0]
    PROVE  \E u \in CallerState :
              /\ Moved(c, u) /\ u.pc = "wait" /\ u.id = m.id
              /\ u.req = m.req /\ u.mine = caller[c].mine
<1>1. caller[c] \in CallerState
  BY DEF IInv, TypeOK
<1>2. m.id \in 0 .. MaxSends /\ m.req \in 0 .. MaxSends /\ 0 \in 0 .. MaxPolls
  <2>1. m \in [id : 0 .. MaxSends, req : 1 .. MaxSends]
    BY <1>1, CallerFields
  <2> QED BY <2>1, Bounds
<1> DEFINE u == [caller[c] EXCEPT !.pc = "wait", !.id = m.id, !.req = m.req,
                                  !.polls = 0]
<1>3. /\ u \in CallerState /\ u.pc = "wait" /\ u.id = m.id
      /\ u.req = m.req /\ u.mine = caller[c].mine
  BY <1>1, <1>2 DEF CallerState
<1>4. caller' = [caller EXCEPT ![c] = u]
  BY DEF IInv, TypeOK
<1> HIDE DEF u
<1> QED BY <1>3, <1>4, Moves DEF IInv

LEMMA PollsIs ==
    ASSUME IInv, NEW c \in Callers, caller[c].polls < MaxPolls,
           caller' = [caller EXCEPT ![c].polls = @ + 1]
    PROVE  \E u \in CallerState :
              /\ Moved(c, u) /\ u.pc = caller[c].pc /\ u.id = caller[c].id
              /\ u.req = caller[c].req /\ u.mine = caller[c].mine
<1>1. caller[c] \in CallerState /\ caller[c].polls + 1 \in 0 .. MaxPolls
  <2>1. caller[c] \in CallerState
    BY DEF IInv, TypeOK
  <2> QED BY <2>1, Bounds, CallerFields
<1> DEFINE u == [caller[c] EXCEPT !.polls = @ + 1]
<1>2. /\ u \in CallerState /\ u.pc = caller[c].pc /\ u.id = caller[c].id
      /\ u.req = caller[c].req /\ u.mine = caller[c].mine
  BY <1>1 DEF CallerState
<1>3. caller' = [caller EXCEPT ![c] = u]
  BY DEF IInv, TypeOK
<1> HIDE DEF u
<1> QED BY <1>2, <1>3, Moves DEF IInv

\* From the count to the read, and from the read to the erase.
LEMMA ToReadIs ==
    ASSUME IInv, NEW c \in Callers,
           caller' = [caller EXCEPT ![c].pc = "read"]
    PROVE  \E u \in CallerState :
              /\ Moved(c, u) /\ u.pc = "read" /\ u.id = caller[c].id
              /\ u.req = caller[c].req /\ u.mine = caller[c].mine
<1>1. caller[c] \in CallerState
  BY DEF IInv, TypeOK
<1> DEFINE u == [caller[c] EXCEPT !.pc = "read"]
<1>2. /\ u \in CallerState /\ u.pc = "read" /\ u.id = caller[c].id
      /\ u.req = caller[c].req /\ u.mine = caller[c].mine
  BY <1>1 DEF CallerState
<1>3. caller' = [caller EXCEPT ![c] = u]
  BY DEF IInv, TypeOK
<1> HIDE DEF u
<1> QED BY <1>2, <1>3, Moves DEF IInv

LEMMA ToEraseIs ==
    ASSUME IInv, NEW c \in Callers, NEW x \in What,
           caller' = [caller EXCEPT ![c].pc = "erase", ![c].read = x]
    PROVE  \E u \in CallerState :
              /\ Moved(c, u) /\ u.pc = "erase" /\ u.id = caller[c].id
              /\ u.req = caller[c].req /\ u.mine = caller[c].mine
              /\ u.read = x
<1>1. caller[c] \in CallerState
  BY DEF IInv, TypeOK
<1> DEFINE u == [caller[c] EXCEPT !.pc = "erase", !.read = x]
<1>2. /\ u \in CallerState /\ u.pc = "erase" /\ u.id = caller[c].id
      /\ u.req = caller[c].req /\ u.mine = caller[c].mine
      /\ u.read = x
  BY <1>1 DEF CallerState
<1>3. caller' = [caller EXCEPT ![c] = u]
  BY DEF IInv, TypeOK
<1> HIDE DEF u
<1> QED BY <1>2, <1>3, Moves DEF IInv

\* What the actions of a caller leave to show.
LEMMA CallerKeeps ==
    ASSUME IInv, NEW c \in Callers, NEW u \in CallerState, Moved(c, u),
           CallerFrame, crashed' = crashed,
           msgID' \in 0 .. MaxSends,
           DOMAIN map' \subseteq Word,
           \A w \in DOMAIN map' : map'[w] \in What,
           reqs' \in Seq(Word), Len(reqs') <= MaxSends,
           open' \subseteq 1 .. Len(reqs'),
           got' \subseteq [req : 1 .. MaxSends, what : What],
           Len(reqs') + Cardinality(In("send")') <= MaxSends,
           msgID' + Cardinality(In("count")') = Len(reqs'),
           u.pc \in {"count"} \cup Waiting => u.req \in 1 .. MaxSends
    PROVE  IInv'
<1>1. TypeOK'
  <2>1. caller' \in [Callers -> CallerState]
    BY DEF Moved
  <2> QED BY <2>1 DEF IInv, TypeOK, CallerFrame
<1>2. CountInv'
  BY DEF IInv, CountInv, CallerFrame
<1>3. RequestInv'
  BY DEF IInv, RequestInv, Moved
<1>4. ConnectFindsNoThread'
  BY DEF IInv, ConnectFindsNoThread, CallerFrame
<1> QED BY <1>1, <1>2, <1>3, <1>4 DEF IInv

LEMMA CallerFacts ==
    ASSUME IInv, NEW c \in Callers
    PROVE  /\ caller[c] \in CallerState
           /\ reqs \in Seq(Word) /\ Len(reqs) \in 0 .. MaxSends
           /\ msgID \in 0 .. MaxSends /\ open \subseteq 1 .. Len(reqs)
           /\ got \subseteq [req : 1 .. MaxSends, what : What]
           /\ DOMAIN map \subseteq Word
           /\ \A w \in DOMAIN map : map[w] \in What
           /\ Cardinality(In("send")) \in Nat
           /\ Cardinality(In("count")) \in Nat
           /\ Len(reqs) + Cardinality(In("send")) <= MaxSends
           /\ msgID + Cardinality(In("count")) = Len(reqs)
           /\ caller[c].pc = "send" => Cardinality(In("send")) > 0
           /\ caller[c].pc = "count" => Cardinality(In("count")) > 0
<1>1. ASSUME NEW pc, caller[c].pc = pc PROVE Cardinality(In(pc)) > 0
  <2>1. c \in In(pc)
    BY <1>1 DEF In
  <2>2. IsFiniteSet(In(pc)) /\ Cardinality(In(pc)) \in Nat
    BY InIsFinite
  <2>3. Cardinality(In(pc)) # 0
    BY <2>1, <2>2, FS_EmptySet
  <2> QED BY <2>2, <2>3
<1>2. Cardinality(In("send")) \in Nat /\ Cardinality(In("count")) \in Nat
  BY InIsFinite
<1>3. reqs \in Seq(Word) /\ Len(reqs) \in 0 .. MaxSends
  BY Bounds DEF IInv, TypeOK
<1> QED BY <1>1, <1>2, <1>3 DEF IInv, TypeOK, CountInv

\* Nothing but one caller's record changes, and it stays out of Send.
LEMMA QuietKeeps ==
    ASSUME IInv, NEW c \in Callers, NEW u \in CallerState, Moved(c, u),
           CallerFrame, UNCHANGED <<crashed, msgID, reqs, open>>,
           DOMAIN map' \subseteq Word,
           \A w \in DOMAIN map' : map'[w] \in What,
           got' \subseteq [req : 1 .. MaxSends, what : What],
           caller[c].pc \in {"idle"} \cup Waiting,
           u.pc \in {"idle"} \cup Waiting,
           u.pc \in Waiting => u.req \in 1 .. MaxSends
    PROVE  IInv'
<1>1. caller'[c] = u /\ \A d \in Callers \ {c} : caller'[d] = caller[d]
  BY DEF Moved
<1>2. In("send")' = In("send") /\ In("count")' = In("count")
  BY <1>1, InCounts DEF Waiting
<1>3. /\ Cardinality(In("send")') = Cardinality(In("send"))
      /\ Cardinality(In("count")') = Cardinality(In("count"))
  BY <1>2
<1> QED BY <1>3, CallerFacts, CallerKeeps DEF Waiting

LEMMA SendBuildKeeps ==
    ASSUME IInv, NEW c \in Callers, SendBuild(c) PROVE IInv'
<1>1. PICK u \in CallerState : Moved(c, u) /\ u.pc = "send"
  BY SendBuildIs
<1>2. /\ caller[c].pc = "idle"
      /\ Len(reqs) + Cardinality(In("send")) < MaxSends
      /\ UNCHANGED <<msgID, map, reqs, open, crashed, got>> /\ CallerFrame
  BY DEF SendBuild, In
<1>3. caller'[c] = u /\ \A d \in Callers \ {c} : caller'[d] = caller[d]
  BY <1>1 DEF Moved
<1>4. Cardinality(In("send")') = Cardinality(In("send")) + 1
  BY <1>1, <1>2, <1>3, InCounts
<1>5. In("count")' = In("count")
  BY <1>1, <1>2, <1>3, InCounts
<1>6. /\ Len(reqs') + Cardinality(In("send")') <= MaxSends
      /\ msgID' + Cardinality(In("count")') = Len(reqs')
  BY <1>2, <1>4, <1>5, CallerFacts, Bounds
<1> QED BY <1>1, <1>2, <1>6, CallerFacts, CallerKeeps DEF Waiting

\* What a request puts on the connection.
LEMMA SendIs ==
    ASSUME IInv, NEW c \in Callers, Send(c),
           status = "connected" /\ conn \in {"up", "fin"}
    PROVE  /\ reqs' = Append(reqs, Arrives(Low(caller[c].id)))
           /\ reqs' \in Seq(Word) /\ Len(reqs') = Len(reqs) + 1
           /\ reqs'[Len(reqs) + 1] = Arrives(Low(caller[c].id))
           /\ \A n \in 1 .. Len(reqs) : reqs'[n] = reqs[n]
           /\ open' \subseteq open \cup {Len(reqs) + 1}
           /\ Len(reqs) + 1 \in 1 .. MaxSends
           /\ caller' = [caller EXCEPT ![c].pc = "count",
                                       ![c].req = Len(reqs) + 1]
<1>1. /\ reqs' = Append(reqs, Arrives(Low(caller[c].id)))
      /\ open' \subseteq open \cup {Len(reqs) + 1}
      /\ caller' = [caller EXCEPT ![c].pc = "count",
                                  ![c].req = Len(reqs) + 1]
      /\ caller[c].pc = "send"
  BY DEF Send
<1>2. Arrives(Low(caller[c].id)) \in Word
  <2>1. caller[c].id \in 0 .. MaxSends
    BY CallerFacts, CallerFields
  <2> QED BY <2>1, Bounds, LowIsWord, ArrivesIsWord
<1>3. /\ reqs' \in Seq(Word) /\ Len(reqs') = Len(reqs) + 1
      /\ reqs'[Len(reqs) + 1] = Arrives(Low(caller[c].id))
      /\ \A n \in 1 .. Len(reqs) : reqs'[n] = reqs[n]
  BY <1>1, <1>2, CallerFacts, AppendProperties
<1>4. Len(reqs) + 1 \in 1 .. MaxSends
  BY <1>1, CallerFacts, Bounds
<1> QED BY <1>1, <1>3, <1>4

LEMMA SendKeeps ==
    ASSUME IInv, NEW c \in Callers, Send(c) PROVE IInv'
<1>1. /\ caller[c].pc = "send" /\ UNCHANGED <<msgID, map, crashed, got>>
      /\ CallerFrame
  BY DEF Send
<1>2. CASE status = "connected" /\ conn \in {"up", "fin"}
  <2>1. PICK u \in CallerState :
           Moved(c, u) /\ u.pc = "count" /\ u.req = Len(reqs) + 1
    BY <1>2, SendIs, ToCountIs
  <2>2. caller'[c] = u /\ \A d \in Callers \ {c} : caller'[d] = caller[d]
    BY <2>1 DEF Moved
  <2>3. Cardinality(In("send")') = Cardinality(In("send")) - 1
    BY <1>1, <2>1, <2>2, InCounts
  <2>4. Cardinality(In("count")') = Cardinality(In("count")) + 1
    BY <1>1, <2>1, <2>2, InCounts
  <2>5. /\ Len(reqs') <= MaxSends
        /\ Len(reqs') + Cardinality(In("send")') <= MaxSends
        /\ msgID' + Cardinality(In("count")') = Len(reqs')
    <3>1. Len(reqs') = Len(reqs) + 1 /\ Len(reqs) + 1 \in 1 .. MaxSends
      BY <1>2, SendIs
    <3>2. msgID' = msgID
      BY <1>1
    <3> QED BY <2>3, <2>4, <3>1, <3>2, CallerFacts, Bounds
  <2>6. open' \subseteq 1 .. Len(reqs')
    <3>1. /\ Len(reqs') = Len(reqs) + 1
          /\ open' \subseteq open \cup {Len(reqs) + 1}
      BY <1>2, SendIs
    <3>2. open \subseteq 1 .. Len(reqs) /\ Len(reqs) \in 0 .. MaxSends
      BY CallerFacts
    <3>3. 1 .. Len(reqs) \subseteq 1 .. Len(reqs')
          /\ Len(reqs) + 1 \in 1 .. Len(reqs')
      BY <3>1, <3>2, Bounds
    <3> QED BY <3>1, <3>2, <3>3
  <2> QED BY <1>1, <1>2, <2>1, <2>5, <2>6, SendIs, CallerFacts, CallerKeeps
<1>3. CASE ~(status = "connected" /\ conn \in {"up", "fin"})
  <2>1. /\ caller' = [caller EXCEPT ![c].pc = "idle"]
        /\ UNCHANGED <<reqs, open>>
    BY <1>3 DEF Send
  <2>2. PICK u \in CallerState : Moved(c, u) /\ u.pc = "idle"
    BY <2>1, ToIdleIs
  <2>3. caller'[c] = u /\ \A d \in Callers \ {c} : caller'[d] = caller[d]
    BY <2>2 DEF Moved
  <2>4. Cardinality(In("send")') = Cardinality(In("send")) - 1
    BY <1>1, <2>2, <2>3, InCounts
  <2>5. In("count")' = In("count")
    BY <1>1, <2>2, <2>3, InCounts
  <2>6. /\ Len(reqs') <= MaxSends
        /\ Len(reqs') + Cardinality(In("send")') <= MaxSends
        /\ msgID' + Cardinality(In("count")') = Len(reqs')
    BY <1>1, <2>1, <2>4, <2>5, CallerFacts, Bounds
  <2> QED BY <1>1, <2>1, <2>2, <2>6, CallerFacts, CallerKeeps DEF Waiting
<1> QED BY <1>2, <1>3

\* The number that ClientSend returns with its request.
Returned(c) == [id |-> msgID, req |-> caller[c].req]

LEMMA SendCountIs ==
    ASSUME IInv, NEW c \in Callers, SendCount(c)
    PROVE  /\ caller[c].req \in 1 .. MaxSends
           /\ \E u \in CallerState :
                 /\ Moved(c, u) /\ u.pc = "idle"
                 /\ u.mine = caller[c].mine \cup {Returned(c)}
<1>1. caller[c].req \in 1 .. MaxSends
  BY DEF SendCount, IInv, RequestInv
<1>2. Returned(c) \in [id : 0 .. MaxSends, req : 1 .. MaxSends]
  BY <1>1, CallerFacts DEF Returned
<1> DEFINE S == caller[c].mine \cup {Returned(c)}
<1>3. S \in SUBSET [id : 0 .. MaxSends, req : 1 .. MaxSends]
  BY <1>2, CallerFacts, CallerFields
<1>4. caller' = [caller EXCEPT ![c].pc = "idle", ![c].mine = S]
  BY DEF SendCount, IInv, TypeOK, Returned
<1> HIDE DEF S
<1>5. \E u \in CallerState : Moved(c, u) /\ u.pc = "idle" /\ u.mine = S
  BY <1>3, <1>4, ToMineIs
<1> QED BY <1>1, <1>5 DEF S

LEMMA SendCountKeeps ==
    ASSUME IInv, NEW c \in Callers, SendCount(c) PROVE IInv'
<1>1. PICK u \in CallerState : Moved(c, u) /\ u.pc = "idle"
  BY SendCountIs
<1>2. /\ caller[c].pc = "count" /\ msgID' = msgID + 1
      /\ UNCHANGED <<map, reqs, open, crashed, got>> /\ CallerFrame
  BY DEF SendCount
<1>3. caller'[c] = u /\ \A d \in Callers \ {c} : caller'[d] = caller[d]
  BY <1>1 DEF Moved
<1>4. Cardinality(In("count")') = Cardinality(In("count")) - 1
  BY <1>1, <1>2, <1>3, InCounts
<1>5. In("send")' = In("send")
  BY <1>1, <1>2, <1>3, InCounts
<1>6. /\ msgID' \in 0 .. MaxSends /\ Len(reqs') <= MaxSends
      /\ Len(reqs') + Cardinality(In("send")') <= MaxSends
      /\ msgID' + Cardinality(In("count")') = Len(reqs')
  BY <1>2, <1>4, <1>5, CallerFacts, Bounds
<1> QED BY <1>1, <1>2, <1>6, CallerFacts, CallerKeeps DEF Waiting

LEMMA WaitKeeps ==
    ASSUME IInv, NEW c \in Callers, Wait(c) PROVE IInv'
<1>1. PICK m \in caller[c].mine :
         caller' = [caller EXCEPT ![c].pc = "wait", ![c].id = m.id,
                                  ![c].req = m.req, ![c].polls = 0]
  BY DEF Wait
<1>2. PICK u \in CallerState : Moved(c, u) /\ u.pc = "wait" /\ u.req = m.req
  BY <1>1, WaitIs
<1>3. m.req \in 1 .. MaxSends
  BY CallerFacts, CallerFields
<1>4. /\ caller[c].pc = "idle"
      /\ UNCHANGED <<msgID, map, reqs, open, crashed, got>> /\ CallerFrame
  BY DEF Wait
<1> QED BY <1>2, <1>3, <1>4, CallerFacts, QuietKeeps DEF Waiting

\* The request that a wait is for, as ClientSend returned it, and what the wait
\* returns.
Waited(c) == [id |-> caller[c].id, req |-> caller[c].req]
Answer(c) == [req |-> caller[c].req, what |-> caller[c].read]

LEMMA AnswerIs ==
    ASSUME IInv, NEW c \in Callers, PollErase(c)
    PROVE  /\ DOMAIN map' = DOMAIN map \ {Low(caller[c].id)}
           /\ \A w \in DOMAIN map' : map'[w] = map[w]
           /\ Answer(c) \in [req : 1 .. MaxSends, what : What]
           /\ \E u \in CallerState :
                 /\ Moved(c, u) /\ u.pc = "idle"
                 /\ u.mine = caller[c].mine \ {Waited(c)}
<1>1. DOMAIN map' = DOMAIN map \ {Low(caller[c].id)}
      /\ \A w \in DOMAIN map' : map'[w] = map[w]
  BY DEF PollErase, Without
<1>2. caller[c].req \in 1 .. MaxSends /\ caller[c].read \in What
  BY CallerFacts, CallerFields DEF PollErase, IInv, RequestInv, Waiting
<1>3. Answer(c) \in [req : 1 .. MaxSends, what : What]
  BY <1>2 DEF Answer
<1> DEFINE S == caller[c].mine \ {Waited(c)}
<1>4. S \in SUBSET [id : 0 .. MaxSends, req : 1 .. MaxSends]
  BY CallerFacts, CallerFields
<1>5. caller' = [caller EXCEPT ![c].pc = "idle", ![c].mine = S]
  BY DEF PollErase, IInv, TypeOK, Waited
<1> HIDE DEF S
<1>6. \E u \in CallerState : Moved(c, u) /\ u.pc = "idle" /\ u.mine = S
  BY <1>4, <1>5, ToMineIs
<1> QED BY <1>1, <1>3, <1>6 DEF S

\* What operator[] finds, and the map after it.
Found(c) == IF Low(caller[c].id) \in DOMAIN map THEN map[Low(caller[c].id)]
                                               ELSE Nothing

LEMMA ReadIs ==
    ASSUME IInv, NEW c \in Callers, PollRead(c)
    PROVE  /\ Found(c) \in What /\ Low(caller[c].id) \in Word
           /\ DOMAIN map' = DOMAIN map \cup {Low(caller[c].id)}
           /\ map'[Low(caller[c].id)] = Found(c)
           /\ \A w \in DOMAIN map : map'[w] = map[w]
           /\ \E u \in CallerState :
                 /\ Moved(c, u) /\ u.pc = "erase" /\ u.id = caller[c].id
                 /\ u.req = caller[c].req /\ u.mine = caller[c].mine
                 /\ u.read = Found(c)
<1>1. Found(c) \in What /\ Low(caller[c].id) \in Word
  <2>1. caller[c].id \in 0 .. MaxSends
    BY CallerFacts, CallerFields
  <2> QED BY <2>1, CallerFacts, WhatHas, Bounds, LowIsWord DEF Found
<1>2. /\ DOMAIN map' = DOMAIN map \cup {Low(caller[c].id)}
      /\ map'[Low(caller[c].id)] = Found(c)
      /\ \A w \in DOMAIN map : map'[w] = map[w]
  BY DEF PollRead, Found
<1>3. caller' = [caller EXCEPT ![c].pc = "erase", ![c].read = Found(c)]
  BY DEF PollRead, Found
<1> QED BY <1>1, <1>2, <1>3, ToEraseIs

LEMMA PollKeeps ==
    ASSUME IInv, NEW c \in Callers, Poll(c) PROVE IInv'
<1>1. /\ caller[c].pc = "wait" /\ caller[c].req \in 1 .. MaxSends
      /\ UNCHANGED <<msgID, map, reqs, open, crashed, got>> /\ CallerFrame
  BY DEF Poll, IInv, RequestInv, Waiting
<1>2. CASE caller' = [caller EXCEPT ![c].pc = "read"]
  <2>1. PICK u \in CallerState :
           Moved(c, u) /\ u.pc = "read" /\ u.req = caller[c].req
    BY <1>2, ToReadIs
  <2> QED BY <1>1, <2>1, CallerFacts, QuietKeeps DEF Waiting
<1>3. CASE /\ caller[c].polls < MaxPolls
           /\ caller' = [caller EXCEPT ![c].polls = @ + 1]
  <2>1. PICK u \in CallerState :
           Moved(c, u) /\ u.pc = caller[c].pc /\ u.req = caller[c].req
    BY <1>3, PollsIs
  <2> QED BY <1>1, <2>1, CallerFacts, QuietKeeps DEF Waiting
<1>4. CASE caller' = [caller EXCEPT ![c].pc = "idle"]
  <2>1. PICK u \in CallerState : Moved(c, u) /\ u.pc = "idle"
    BY <1>4, ToIdleIs
  <2> QED BY <1>1, <2>1, CallerFacts, QuietKeeps DEF Waiting
<1> QED BY <1>2, <1>3, <1>4 DEF Poll

LEMMA PollReadKeeps ==
    ASSUME IInv, NEW c \in Callers, PollRead(c) PROVE IInv'
<1>1. /\ caller[c].pc = "read" /\ caller[c].req \in 1 .. MaxSends
      /\ UNCHANGED <<msgID, reqs, open, crashed, got>> /\ CallerFrame
  BY DEF PollRead, IInv, RequestInv, Waiting
<1>2. PICK u \in CallerState :
         Moved(c, u) /\ u.pc = "erase" /\ u.req = caller[c].req
  BY ReadIs
<1>3. DOMAIN map' \subseteq Word /\ \A w \in DOMAIN map' : map'[w] \in What
  BY ReadIs, CallerFacts
<1> QED BY <1>1, <1>2, <1>3, CallerFacts, QuietKeeps DEF Waiting

LEMMA PollEraseKeeps ==
    ASSUME IInv, NEW c \in Callers, PollErase(c) PROVE IInv'
<1>1. /\ caller[c].pc = "erase" /\ got' = got \cup {Answer(c)}
      /\ UNCHANGED <<msgID, reqs, open, crashed>> /\ CallerFrame
  BY DEF PollErase, Answer
<1>2. PICK u \in CallerState : Moved(c, u) /\ u.pc = "idle"
  BY AnswerIs
<1>3. got' \subseteq [req : 1 .. MaxSends, what : What]
  BY <1>1, AnswerIs, CallerFacts
<1>4. DOMAIN map' \subseteq Word /\ \A w \in DOMAIN map' : map'[w] \in What
  BY AnswerIs, CallerFacts
<1> QED BY <1>1, <1>2, <1>3, <1>4, QuietKeeps DEF Waiting

----------------------------------------------------------------------------
(* The invariant holds. *)

LEMMA Initially == Init => IInv
<1> SUFFICES ASSUME Init PROVE IInv
  OBVIOUS
<1>1. [pc |-> "idle", id |-> 0, req |-> 0, polls |-> 0, read |-> Push,
       mine |-> {}] \in CallerState
  BY Bounds, WhatHas DEF CallerState
<1>2. rx \in RxState /\ rx.pc = "none"
  BY NoMessageIs DEF Init, RxState
<1>3. caller \in [Callers -> CallerState] /\ \A c \in Callers : caller[c].pc = "idle"
  BY <1>1 DEF Init
<1>4. /\ map = <<>> /\ reqs = <<>> /\ down = <<>> /\ open = {} /\ got = {}
      /\ reqs \in Seq(Word) /\ Len(reqs) = 0 /\ down \in Seq(Message)
      /\ DOMAIN map = {}
  BY DEF Init
<1>5. /\ status = "null" /\ conn = "none" /\ isStop = FALSE /\ app = "idle"
      /\ connects = 0 /\ msgID = 0 /\ pushID = 0 /\ pushes = 0
      /\ crashed = FALSE
  BY DEF Init
<1>6. TypeOK
  <2>1. /\ rx \in RxState /\ caller \in [Callers -> CallerState]
        /\ DOMAIN map \subseteq Word /\ \A w \in DOMAIN map : map[w] \in What
        /\ reqs \in Seq(Word) /\ Len(reqs) <= MaxSends
        /\ open \subseteq 1 .. Len(reqs) /\ down \in Seq(Message)
        /\ got \subseteq [req : 1 .. MaxSends, what : What]
    BY <1>2, <1>3, <1>4, Bounds
  <2>2. /\ status \in {"null", "connected", "disconnected"}
        /\ conn \in {"none", "up", "fin", "rst"}
        /\ app \in {"idle", "close", "join"}
        /\ connects \in 0 .. MaxConnects /\ msgID \in 0 .. MaxSends
        /\ pushID \in 0 .. MaxPushes /\ pushes \in 0 .. MaxPushes
    BY <1>5, Bounds
  <2>3. isStop \in BOOLEAN /\ crashed \in BOOLEAN
    BY <1>5
  <2> QED BY <2>1, <2>2, <2>3 DEF TypeOK
<1>7. In("send") = {} /\ In("count") = {}
  BY <1>3 DEF In
<1>8. CountInv
  <2>1. Cardinality(In("send")) = 0 /\ Cardinality(In("count")) = 0
    BY <1>7, FS_EmptySet
  <2> QED BY <1>4, <1>5, <2>1, Bounds DEF CountInv
<1>9. RequestInv /\ ConnectFindsNoThread
  BY <1>2, <1>3 DEF RequestInv, ConnectFindsNoThread, Waiting
<1> QED BY <1>6, <1>8, <1>9 DEF IInv

LEMMA Inductive == IInv /\ [Next]_vars => IInv'
<1> SUFFICES ASSUME IInv, [Next]_vars PROVE IInv'
  OBVIOUS
<1>1. ASSUME NEW c \in Callers, Caller(c) PROVE IInv'
  BY <1>1, SendBuildKeeps, SendKeeps, SendCountKeeps, WaitKeeps, PollKeeps,
     PollReadKeeps, PollEraseKeeps, CrashKeeps DEF Caller, Receive, MapRace
<1>2. CASE UNCHANGED vars
  BY <1>2 DEF vars, server, IInv, TypeOK, CountInv, RequestInv,
              ConnectFindsNoThread, In
<1> QED BY <1>1, <1>2, AppKeeps, RxKeeps, PeerStepKeeps DEF Next

LEMMA Invariance == Spec => []IInv
BY Initially, Inductive, PTL DEF Spec

\* Every variable keeps its type, whatever the callers, the server and the
\* connection do and in whatever order.
THEOREM TypeCorrect == Spec => []TypeOK
<1>1. IInv => TypeOK
  BY DEF IInv
<1> QED BY <1>1, Invariance, PTL

\* SharedNetwork.cpp:99 and 133-134: a Connect that gets as far as starting the
\* receive thread finds the one before joined.
THEOREM ConnectFinds == Spec => []ConnectFindsNoThread
<1>1. IInv => ConnectFindsNoThread
  BY DEF IInv
<1> QED BY <1>1, Invariance, PTL

----------------------------------------------------------------------------
(* With one caller whose numbers arrive as they were sent, every number in *)
(* the client names the request it was made for.                           *)

\* The n-th request carries the number n - 1.
SentInv == \A n \in 1 .. Len(reqs) : reqs[n] = Low(n - 1)

\* A message is pushed, or carries the number of the request it answers.
Fits(id, what) ==
    what # Push => what \in 1 .. Len(reqs) /\ id = Low(what - 1)

DownInv == \A i \in 1 .. Len(down) : Fits(down[i].id, down[i].what)
RxInv == rx.pc = "file" => Fits(rx.msg.id, rx.msg.what)
MapInv == \A w \in DOMAIN map : Fits(w, map[w])

\* The numbers that ClientSend returned.
MineInv(c) ==
    \A m \in caller[c].mine : m.req \in 1 .. Len(reqs) /\ m.id = m.req - 1

\* What the caller holds on its way through ClientSend and ClientReceiveWait.
PlaceInv(c) ==
    /\ caller[c].pc = "send" => caller[c].id = msgID
    /\ caller[c].pc = "count" => /\ caller[c].req = Len(reqs)
                                 /\ msgID = Len(reqs) - 1
    /\ caller[c].pc # "count" => msgID = Len(reqs)
    /\ caller[c].pc \in Waiting => Waited(c) \in caller[c].mine
    /\ caller[c].pc = "read" => Low(caller[c].id) \in DOMAIN map
    /\ caller[c].pc = "erase" => caller[c].read \in {caller[c].req, Push}

\* What waits returned is of requests that are no longer waited for.
GotInv(c) ==
    \A g \in got :
       /\ g.what \in {g.req, Push} /\ g.req \in 1 .. Len(reqs)
       /\ \A m \in caller[c].mine : m.req # g.req
       /\ caller[c].pc = "count" => g.req # Len(reqs)

OwnInv(c) == /\ SentInv /\ DownInv /\ RxInv /\ MapInv
             /\ MineInv(c) /\ PlaceInv(c) /\ GotInv(c)

LEMMA LowIsOne == \A a, b \in Byte : Low(a) = Low(b) => a = b
BY DEF Low

LEMMA LowArrives ==
    ASSUME MaxSends <= SignBit, NEW b \in 0 .. MaxSends - 1
    PROVE  Arrives(Low(b)) = Low(b)
<1>1. b \in Byte /\ ~(b >= SignBit) /\ ~(0 >= SignBit)
  BY Bounds, ByteAssumption DEF ByteAssumption, Byte
<1>2. /\ Low(b) \in Word /\ Low(b)[4] = b /\ Low(b)[3] = 0
      /\ Low(b)[2] = 0
  BY <1>1, LowIsWord DEF Low
<1>3. FromWire(Low(b)) = Low(b)
  BY <1>1, <1>2, FromWireValue
<1> QED BY <1>3 DEF Arrives, ToWire

\* A later request takes no number away.
LEMMA FitsStays ==
    ASSUME TypeOK, TypeOK', Len(reqs) <= Len(reqs')
    PROVE  /\ \A id, what : Fits(id, what) => Fits(id, what)'
           /\ UNCHANGED down /\ DownInv => DownInv'
           /\ UNCHANGED rx /\ RxInv => RxInv'
           /\ (/\ DOMAIN map' \subseteq DOMAIN map
               /\ \A w \in DOMAIN map' : map'[w] = map[w]) /\ MapInv => MapInv'
<1>1. Len(reqs) \in Nat /\ Len(reqs') \in Nat
  BY DEF TypeOK
<1>2. 1 .. Len(reqs) \subseteq 1 .. Len(reqs')
  BY <1>1
<1>3. ASSUME NEW id, NEW what, Fits(id, what) PROVE Fits(id, what)'
  BY <1>2, <1>3 DEF Fits
<1>4. UNCHANGED down /\ DownInv => DownInv'
  BY <1>2 DEF DownInv, Fits
<1>5. UNCHANGED rx /\ RxInv => RxInv'
  BY <1>2 DEF RxInv, Fits
<1>6. (/\ DOMAIN map' \subseteq DOMAIN map
       /\ \A w \in DOMAIN map' : map'[w] = map[w]) /\ MapInv => MapInv'
  BY <1>2 DEF MapInv, Fits
<1> QED BY <1>3, <1>4, <1>5, <1>6

\* A step that leaves the requests and the callers alone.
LEMMA OthersKeep ==
    ASSUME NEW c \in Callers, OwnInv(c), UNCHANGED <<caller, reqs, msgID, got>>,
           DOMAIN map \subseteq DOMAIN map', DownInv', RxInv', MapInv'
    PROVE  OwnInv(c)'
<1>1. SentInv' /\ MineInv(c)' /\ PlaceInv(c)' /\ GotInv(c)'
  BY DEF OwnInv, SentInv, MineInv, PlaceInv, GotInv, Waited
<1> QED BY <1>1 DEF OwnInv

LEMMA CrashOwn ==
    ASSUME NEW c \in Callers, OwnInv(c), Crash
    PROVE  OwnInv(c)'
<1>1. UNCHANGED <<caller, reqs, msgID, got, down, rx, map>>
  BY DEF Crash, server
<1>2. DownInv' /\ RxInv' /\ MapInv'
  BY <1>1 DEF OwnInv, DownInv, RxInv, MapInv, Fits
<1> QED BY <1>1, <1>2, OthersKeep

LEMMA AppOwn ==
    ASSUME IInv, NEW c \in Callers, OwnInv(c), App
    PROVE  OwnInv(c)'
<1>1. CASE Crash
  BY <1>1, CrashOwn
<1>2. CASE ~Crash
  <2>1. /\ UNCHANGED <<caller, reqs, msgID, got, map>>
        /\ down' = down \/ down' = <<>>
        /\ rx' = rx \/ rx'.pc # "file"
    <3>1. CASE Connect
      BY <1>2, <3>1 DEF Connect, server
    <3>2. CASE DisConnect
      BY <3>2 DEF DisConnect, server
    <3>3. CASE DisConnectClose
      BY <3>3 DEF DisConnectClose
    <3>4. CASE DisConnectJoin
      BY <3>4 DEF DisConnectJoin, server
    <3> QED BY <3>1, <3>2, <3>3, <3>4 DEF App
  <2>2. DownInv'
    BY <2>1 DEF OwnInv, DownInv, Fits
  <2>3. RxInv'
    BY <2>1 DEF OwnInv, RxInv, Fits
  <2>4. MapInv'
    BY <2>1 DEF OwnInv, MapInv, Fits
  <2> QED BY <2>1, <2>2, <2>3, <2>4, OthersKeep
<1> QED BY <1>1, <1>2

\* What is added to the messages on their way.
LEMMA DownGrows ==
    ASSUME TypeOK, DownInv, UNCHANGED reqs, NEW m \in Message,
           Fits(m.id, m.what), down' = Append(down, m)
    PROVE  DownInv'
<1>1. /\ down \in Seq(Message) /\ Len(down) \in Nat
      /\ Len(down') = Len(down) + 1 /\ down'[Len(down) + 1] = m
      /\ \A i \in 1 .. Len(down) : down'[i] = down[i]
  BY AppendProperties DEF TypeOK
<1>2. ASSUME NEW i \in 1 .. Len(down') PROVE Fits(down'[i].id, down'[i].what)
  <2>1. i \in 1 .. Len(down) \/ i = Len(down) + 1
    BY <1>1
  <2> QED BY <1>1, <2>1 DEF DownInv
<1> QED BY <1>2 DEF DownInv, Fits

LEMMA PeerOwn ==
    ASSUME MaxSends <= SignBit, IInv, NEW c \in Callers, OwnInv(c), Peer
    PROVE  OwnInv(c)'
<1>1. UNCHANGED <<caller, reqs, msgID, got, rx, map>>
  BY DEF Peer, ServerResponse, ServerSend, ServerAllClientSend, Lose, PeerFrame
<1>2. RxInv' /\ MapInv'
  BY <1>1 DEF OwnInv, RxInv, MapInv, Fits
<1>3. DownInv'
  <2>1. CASE ServerResponse
    <3>1. PICK n \in open :
             down' = Append(down, [id |-> Arrives(reqs[n]), what |-> n])
      BY <2>1 DEF ServerResponse
    <3>2. n \in 1 .. Len(reqs) /\ Len(reqs) \in 0 .. MaxSends
      BY CallerFacts
    <3>3. reqs[n] = Low(n - 1) /\ n - 1 \in 0 .. MaxSends - 1
      BY <3>2, Bounds DEF OwnInv, SentInv
    <3>4. Arrives(reqs[n]) = Low(n - 1) /\ n - 1 \in Byte
      BY <3>3, LowArrives, Bounds
    <3> DEFINE m == [id |-> Arrives(reqs[n]), what |-> n]
    <3>5. m.id = Low(n - 1) /\ m.what = n
      BY <3>4
    <3>6. m \in Message
      BY <3>2, <3>4, LowIsWord, Bounds DEF Message, Push
    <3>7. down' = Append(down, m)
      BY <3>1
    <3> HIDE DEF m
    <3>8. Fits(m.id, m.what)
      BY <3>2, <3>5 DEF Fits
    <3> QED BY <1>1, <3>6, <3>7, <3>8, DownGrows DEF IInv, OwnInv
  <2>2. CASE ServerSend \/ ServerAllClientSend
    <3>1. PICK b \in 0 .. MaxPushes :
             down' = Append(down, [id |-> Low(b), what |-> Push])
      BY <2>2, Bounds DEF ServerSend, ServerAllClientSend, IInv, TypeOK
    <3> DEFINE m == [id |-> Low(b), what |-> Push]
    <3>2. m \in Message /\ m.what = Push
      BY LowIsWord, Bounds DEF Message, What, Push
    <3>3. down' = Append(down, m)
      BY <3>1
    <3> HIDE DEF m
    <3> QED BY <1>1, <3>2, <3>3, DownGrows DEF IInv, OwnInv, Fits
  <2>3. CASE Lose
    <3>1. down' = down \/ down' = <<>>
      BY <2>3 DEF Lose
    <3> QED BY <1>1, <3>1 DEF OwnInv, DownInv, Fits
  <2> QED BY <2>1, <2>2, <2>3 DEF Peer
<1> QED BY <1>1, <1>2, <1>3, OthersKeep

LEMMA RxOwn ==
    ASSUME MaxSends <= SignBit, IInv, NEW c \in Callers, OwnInv(c), Rx
    PROVE  OwnInv(c)'
<1>1. UNCHANGED <<caller, reqs, msgID, got>>
  BY DEF Rx, RxReceive, RxFile, RxFrame
<1>2. Len(reqs) \in 0 .. MaxSends
  BY CallerFacts
<1>3. DownInv' /\ RxInv' /\ MapInv'
  <2>1. CASE RxReceive /\ down # <<>>
    <3>1. /\ rx'.msg.what = Head(down).what
          /\ rx'.msg.id = Arrives(Head(down).id)
          /\ down' = Tail(down) /\ map' = map
      BY <2>1, RxReceiveIs DEF IInv, RxReceive
    <3>2. /\ down \in Seq(Message) /\ Len(down) \in Nat \ {0}
          /\ Head(down) = down[1] /\ Len(down') = Len(down) - 1
          /\ \A i \in 1 .. Len(down') : down'[i] = down[i + 1]
      BY <2>1, <3>1, HeadTailProperties, EmptySeq DEF IInv, TypeOK
    <3>3. Fits(Head(down).id, Head(down).what)
      BY <3>2 DEF OwnInv, DownInv
    <3>4. Fits(rx'.msg.id, rx'.msg.what)
      <4>1. CASE Head(down).what = Push
        BY <3>1, <4>1 DEF Fits
      <4>2. CASE Head(down).what # Push
        <5> DEFINE n == Head(down).what
        <5>1. n \in 1 .. Len(reqs) /\ Head(down).id = Low(n - 1)
          BY <3>3, <4>2 DEF Fits
        <5> HIDE DEF n
        <5>2. n - 1 \in 0 .. MaxSends - 1
          BY <1>2, <5>1, Bounds
        <5>3. Arrives(Head(down).id) = Low(n - 1)
          BY <5>1, <5>2, LowArrives
        <5>4. rx'.msg.what = n /\ rx'.msg.id = Low(n - 1)
          BY <3>1, <5>3 DEF n
        <5> QED BY <5>1, <5>4 DEF Fits
      <4> QED BY <4>1, <4>2
    <3>5. DownInv'
      <4>1. ASSUME NEW i \in 1 .. Len(down')
            PROVE  Fits(down'[i].id, down'[i].what)
        BY <3>2 DEF OwnInv, DownInv
      <4> QED BY <1>1, <4>1 DEF DownInv, Fits
    <3>6. RxInv'
      BY <1>1, <3>4 DEF RxInv, Fits
    <3>7. MapInv'
      BY <1>1, <3>1 DEF OwnInv, MapInv, Fits
    <3> QED BY <3>5, <3>6, <3>7
  <2>2. CASE RxReceive /\ down = <<>>
    <3>1. rx'.pc # "file" /\ UNCHANGED <<down, map>>
      BY <2>2, RxLoopIs DEF RxReceive
    <3> QED BY <1>1, <3>1 DEF OwnInv, DownInv, RxInv, MapInv, Fits
  <2>3. CASE RxFile
    <3>1. rx'.pc # "file" /\ UNCHANGED down /\ rx.pc = "file"
      BY <2>3, RxLoopIs DEF RxFile
    <3>2. ASSUME NEW w \in DOMAIN map' PROVE Fits(w, map'[w])
      BY <2>3, <3>1, RxFileIs DEF OwnInv, RxInv, MapInv
    <3>3. MapInv'
      BY <1>1, <3>2 DEF MapInv, Fits
    <3> QED BY <1>1, <3>1, <3>3 DEF OwnInv, DownInv, RxInv, Fits
  <2> QED BY <2>1, <2>2, <2>3 DEF Rx
<1>4. DOMAIN map \subseteq DOMAIN map'
  BY RxFileIs DEF Rx, RxReceive
<1> QED BY <1>1, <1>3, <1>4, OthersKeep

\* A step of the caller; the parts of the invariant that are about it are left
\* to show.
LEMMA CallerOwn ==
    ASSUME IInv, IInv', NEW c \in Callers, OwnInv(c), CallerFrame,
           Len(reqs) <= Len(reqs'), SentInv',
           DOMAIN map' \subseteq DOMAIN map,
           \A w \in DOMAIN map' : map'[w] = map[w],
           MineInv(c)', PlaceInv(c)', GotInv(c)'
    PROVE  OwnInv(c)'
<1>1. UNCHANGED down /\ UNCHANGED rx
  BY DEF CallerFrame
<1>2. DownInv' /\ RxInv' /\ MapInv'
  BY <1>1, FitsStays DEF IInv, OwnInv
<1> QED BY <1>2 DEF OwnInv

LEMMA SendBuildOwn ==
    ASSUME IInv, IInv', NEW c \in Callers, OwnInv(c), SendBuild(c)
    PROVE  OwnInv(c)'
<1>1. PICK u \in CallerState :
         Moved(c, u) /\ u.pc = "send" /\ u.id = msgID /\ u.mine = caller[c].mine
  BY SendBuildIs
<1>2. /\ caller[c].pc = "idle" /\ caller'[c] = u
      /\ UNCHANGED <<msgID, map, reqs, got>> /\ CallerFrame
  BY <1>1 DEF SendBuild, Moved
<1>3. MineInv(c)' /\ PlaceInv(c)' /\ GotInv(c)' /\ SentInv'
  BY <1>1, <1>2 DEF OwnInv, MineInv, PlaceInv, GotInv, SentInv, Waiting
<1>4. Len(reqs) <= Len(reqs')
  BY <1>2, CallerFacts, Bounds
<1> QED BY <1>2, <1>3, <1>4, CallerOwn

LEMMA SendOwn ==
    ASSUME MaxSends <= SignBit, IInv, IInv', NEW c \in Callers, OwnInv(c),
           Send(c)
    PROVE  OwnInv(c)'
<1>1. /\ caller[c].pc = "send" /\ UNCHANGED <<msgID, map, got>>
      /\ CallerFrame
  BY DEF Send
<1>2. /\ msgID = Len(reqs) /\ caller[c].id = Len(reqs)
      /\ Len(reqs) \in 0 .. MaxSends
  BY <1>1, CallerFacts DEF OwnInv, PlaceInv
<1>3. CASE status = "connected" /\ conn \in {"up", "fin"}
  <2>1. PICK u \in CallerState :
           /\ Moved(c, u) /\ u.pc = "count" /\ u.req = Len(reqs) + 1
           /\ u.mine = caller[c].mine
    BY <1>3, SendIs, ToCountIs
  <2>2. caller'[c] = u
    BY <2>1 DEF Moved
  <2>3. /\ Len(reqs') = Len(reqs) + 1 /\ Len(reqs) + 1 \in 1 .. MaxSends
        /\ reqs'[Len(reqs) + 1] = Arrives(Low(caller[c].id))
        /\ \A n \in 1 .. Len(reqs) : reqs'[n] = reqs[n]
    BY <1>3, SendIs
  <2>4. Len(reqs) \in 0 .. MaxSends - 1
    BY <1>2, <2>3, Bounds
  <2>5. reqs'[Len(reqs) + 1] = Low(Len(reqs))
    BY <1>2, <2>3, <2>4, LowArrives
  <2>6. SentInv'
    <3>1. ASSUME NEW n \in 1 .. Len(reqs') PROVE reqs'[n] = Low(n - 1)
      <4>1. n \in 1 .. Len(reqs) \/ n = Len(reqs) + 1
        BY <1>2, <2>3, Bounds
      <4>2. CASE n \in 1 .. Len(reqs)
        BY <2>3, <4>2 DEF OwnInv, SentInv
      <4>3. CASE n = Len(reqs) + 1
        <5>1. n - 1 = Len(reqs)
          BY <1>2, <4>3
        <5> QED BY <2>5, <4>3, <5>1
      <4> QED BY <4>1, <4>2, <4>3
    <3> QED BY <3>1 DEF SentInv
  <2>7. MineInv(c)'
    BY <1>2, <2>1, <2>2, <2>3 DEF OwnInv, MineInv
  <2>8. PlaceInv(c)'
    BY <1>1, <1>2, <2>1, <2>2, <2>3 DEF PlaceInv, Waiting
  <2>9. GotInv(c)'
    BY <1>1, <1>2, <2>1, <2>2, <2>3 DEF OwnInv, GotInv
  <2>10. Len(reqs) <= Len(reqs')
    BY <1>2, <2>3
  <2> QED BY <1>1, <2>6, <2>7, <2>8, <2>9, <2>10, CallerOwn
<1>4. CASE ~(status = "connected" /\ conn \in {"up", "fin"})
  <2>1. /\ caller' = [caller EXCEPT ![c].pc = "idle"]
        /\ UNCHANGED reqs
    BY <1>4 DEF Send
  <2>2. PICK u \in CallerState :
           Moved(c, u) /\ u.pc = "idle" /\ u.mine = caller[c].mine
    BY <2>1, ToIdleIs
  <2>3. caller'[c] = u
    BY <2>2 DEF Moved
  <2>4. MineInv(c)' /\ PlaceInv(c)' /\ GotInv(c)' /\ SentInv'
    BY <1>1, <1>2, <2>1, <2>2, <2>3
       DEF OwnInv, MineInv, PlaceInv, GotInv, SentInv, Waiting
  <2>5. Len(reqs) <= Len(reqs')
    BY <1>2, <2>1
  <2> QED BY <1>1, <2>4, <2>5, CallerOwn
<1> QED BY <1>3, <1>4

LEMMA SendCountOwn ==
    ASSUME IInv, IInv', NEW c \in Callers, OwnInv(c), SendCount(c)
    PROVE  OwnInv(c)'
<1>1. /\ caller[c].pc = "count" /\ msgID' = msgID + 1
      /\ UNCHANGED <<map, reqs, got>> /\ CallerFrame
  BY DEF SendCount
<1>2. PICK u \in CallerState :
         /\ Moved(c, u) /\ u.pc = "idle"
         /\ u.mine = caller[c].mine \cup {Returned(c)}
  BY SendCountIs
<1>3. caller'[c] = u /\ caller[c].req \in 1 .. MaxSends
  BY <1>2, SendCountIs DEF Moved
<1>4. /\ Returned(c).req = Len(reqs) /\ Returned(c).id = Len(reqs) - 1
      /\ msgID = Len(reqs) - 1 /\ Len(reqs) \in 1 .. Len(reqs)
      /\ Len(reqs) \in Nat
  BY <1>1, <1>3, CallerFacts, Bounds DEF OwnInv, PlaceInv, Returned
<1>5. MineInv(c)'
  BY <1>1, <1>2, <1>3, <1>4 DEF OwnInv, MineInv
<1>6. PlaceInv(c)' /\ SentInv'
  BY <1>1, <1>2, <1>3, <1>4 DEF OwnInv, PlaceInv, SentInv, Waiting
<1>7. GotInv(c)'
  BY <1>1, <1>2, <1>3, <1>4 DEF OwnInv, GotInv
<1>8. Len(reqs) <= Len(reqs')
  BY <1>1, <1>4
<1> QED BY <1>1, <1>5, <1>6, <1>7, <1>8, CallerOwn

\* A step of the caller that does not count.
LEMMA QuietOwn ==
    ASSUME IInv, IInv', NEW c \in Callers, OwnInv(c), CallerFrame,
           UNCHANGED <<msgID, reqs>>,
           DOMAIN map' \subseteq DOMAIN map,
           \A w \in DOMAIN map' : map'[w] = map[w],
           caller[c].pc \in {"idle"} \cup Waiting,
           caller'[c].pc \in {"idle"} \cup Waiting,
           caller'[c].mine \subseteq caller[c].mine,
           caller'[c].pc \in Waiting => Waited(c)' \in caller'[c].mine,
           caller'[c].pc = "read" => Low(caller'[c].id) \in DOMAIN map',
           caller'[c].pc = "erase" => caller'[c].read \in {caller'[c].req, Push},
           GotInv(c)'
    PROVE  OwnInv(c)'
<1>1. MineInv(c)' /\ SentInv'
  BY DEF OwnInv, MineInv, SentInv
<1>2. PlaceInv(c)'
  BY DEF OwnInv, PlaceInv, Waiting
<1>3. Len(reqs) <= Len(reqs')
  BY CallerFacts, Bounds
<1> QED BY <1>1, <1>2, <1>3, CallerOwn

LEMMA WaitOwn ==
    ASSUME IInv, IInv', NEW c \in Callers, OwnInv(c), Wait(c)
    PROVE  OwnInv(c)'
<1>1. PICK m \in caller[c].mine :
         caller' = [caller EXCEPT ![c].pc = "wait", ![c].id = m.id,
                                  ![c].req = m.req, ![c].polls = 0]
  BY DEF Wait
<1>2. PICK u \in CallerState :
         /\ Moved(c, u) /\ u.pc = "wait" /\ u.id = m.id
         /\ u.req = m.req /\ u.mine = caller[c].mine
  BY <1>1, WaitIs
<1>3. /\ caller[c].pc = "idle" /\ caller'[c] = u
      /\ UNCHANGED <<msgID, map, reqs, got>> /\ CallerFrame
  BY <1>2 DEF Wait, Moved
<1>4. m = [id |-> m.id, req |-> m.req]
  <2>1. m \in [id : 0 .. MaxSends, req : 1 .. MaxSends]
    BY CallerFacts, CallerFields
  <2> QED BY <2>1
<1>5. Waited(c)' = m
  BY <1>2, <1>3, <1>4 DEF Waited
<1>6. GotInv(c)'
  BY <1>2, <1>3 DEF OwnInv, GotInv
<1> QED BY <1>2, <1>3, <1>5, <1>6, QuietOwn DEF Waiting

\* A wait is for one request, whose number it asks for.
LEMMA WaitedIs ==
    ASSUME IInv, NEW c \in Callers, OwnInv(c), caller[c].pc \in Waiting
    PROVE  /\ Waited(c) \in caller[c].mine
           /\ caller[c].req \in 1 .. Len(reqs) /\ caller[c].id = caller[c].req - 1
           /\ \A m \in caller[c].mine : m.req = caller[c].req => m = Waited(c)
<1>1. Waited(c) \in caller[c].mine
  BY DEF OwnInv, PlaceInv
<1>2. caller[c].req \in 1 .. Len(reqs) /\ caller[c].id = caller[c].req - 1
  BY <1>1 DEF OwnInv, MineInv, Waited
<1>3. ASSUME NEW m \in caller[c].mine, m.req = caller[c].req
      PROVE  m = Waited(c)
  <2>1. m \in [id : 0 .. MaxSends, req : 1 .. MaxSends]
    BY CallerFacts, CallerFields
  <2>2. m = [id |-> m.id, req |-> m.req]
    BY <2>1
  <2>3. m.id = caller[c].id
    BY <1>2, <1>3 DEF OwnInv, MineInv
  <2> QED BY <1>3, <2>2, <2>3 DEF Waited
<1> QED BY <1>1, <1>2, <1>3

\* What is filed under its number is its answer, or was pushed.
LEMMA AnswerOwn ==
    ASSUME IInv, NEW c \in Callers, OwnInv(c), caller[c].pc \in Waiting,
           Low(caller[c].id) \in DOMAIN map
    PROVE  map[Low(caller[c].id)] \in {caller[c].req, Push}
<1>1. /\ Len(reqs) \in 0 .. MaxSends
      /\ caller[c].req \in 1 .. Len(reqs) /\ caller[c].id = caller[c].req - 1
  BY CallerFacts, WaitedIs
<1> DEFINE v == map[Low(caller[c].id)]
<1>2. v # Push => v \in 1 .. Len(reqs) /\ Low(caller[c].id) = Low(v - 1)
  BY DEF OwnInv, MapInv, Fits
<1> HIDE DEF v
<1>3. CASE v = Push
  BY <1>3 DEF v
<1>4. CASE v # Push
  <2>1. v \in 1 .. Len(reqs) /\ Low(caller[c].id) = Low(v - 1)
    BY <1>2, <1>4
  <2>2. caller[c].id \in Byte /\ v - 1 \in Byte
    BY <1>1, <2>1, Bounds
  <2>3. caller[c].id = v - 1
    BY <2>1, <2>2, LowIsOne
  <2>4. v = caller[c].req
    BY <1>1, <2>1, <2>3
  <2> QED BY <2>4 DEF v
<1> QED BY <1>3, <1>4

LEMMA PollOwn ==
    ASSUME IInv, IInv', NEW c \in Callers, OwnInv(c), Poll(c)
    PROVE  OwnInv(c)'
<1>1. /\ caller[c].pc = "wait" /\ Waited(c) \in caller[c].mine
      /\ UNCHANGED <<msgID, map, reqs, open, crashed, got>> /\ CallerFrame
  BY DEF Poll, OwnInv, PlaceInv, Waiting
<1>2. CASE /\ Low(caller[c].id) \in DOMAIN map
           /\ caller' = [caller EXCEPT ![c].pc = "read"]
  <2>1. PICK u \in CallerState :
           /\ Moved(c, u) /\ u.pc = "read" /\ u.id = caller[c].id
           /\ u.req = caller[c].req /\ u.mine = caller[c].mine
    BY <1>2, ToReadIs
  <2>2. caller'[c] = u
    BY <2>1 DEF Moved
  <2>3. Waited(c)' = Waited(c)
    BY <2>1, <2>2 DEF Waited
  <2>4. GotInv(c)'
    BY <1>1, <2>1, <2>2 DEF OwnInv, GotInv
  <2> QED BY <1>1, <1>2, <2>1, <2>2, <2>3, <2>4, QuietOwn DEF Waiting
<1>3. CASE /\ caller[c].polls < MaxPolls
           /\ caller' = [caller EXCEPT ![c].polls = @ + 1]
  <2>1. PICK u \in CallerState :
           /\ Moved(c, u) /\ u.pc = caller[c].pc /\ u.req = caller[c].req
           /\ u.id = caller[c].id /\ u.mine = caller[c].mine
    BY <1>3, PollsIs
  <2>2. caller'[c] = u
    BY <2>1 DEF Moved
  <2>3. Waited(c)' = Waited(c)
    BY <2>1, <2>2 DEF Waited
  <2>4. GotInv(c)'
    BY <1>1, <2>1, <2>2 DEF OwnInv, GotInv
  <2> QED BY <1>1, <2>1, <2>2, <2>3, <2>4, QuietOwn DEF Waiting
<1>4. CASE caller' = [caller EXCEPT ![c].pc = "idle"]
  <2>1. PICK u \in CallerState :
           Moved(c, u) /\ u.pc = "idle" /\ u.mine = caller[c].mine
    BY <1>4, ToIdleIs
  <2>2. caller'[c] = u
    BY <2>1 DEF Moved
  <2>3. GotInv(c)'
    BY <1>1, <2>1, <2>2 DEF OwnInv, GotInv
  <2> QED BY <1>1, <2>1, <2>2, <2>3, QuietOwn DEF Waiting
<1> QED BY <1>2, <1>3, <1>4 DEF Poll

\* With one caller, what was counted is still there when it is read.
LEMMA PollReadOwn ==
    ASSUME IInv, IInv', NEW c \in Callers, OwnInv(c), PollRead(c)
    PROVE  OwnInv(c)'
<1>1. /\ caller[c].pc = "read" /\ Waited(c) \in caller[c].mine
      /\ Low(caller[c].id) \in DOMAIN map
      /\ UNCHANGED <<msgID, reqs, got>> /\ CallerFrame
  BY DEF PollRead, OwnInv, PlaceInv, Waiting
<1>2. Found(c) \in {caller[c].req, Push}
  BY <1>1, AnswerOwn DEF Found, Waiting
<1>3. PICK u \in CallerState :
         /\ Moved(c, u) /\ u.pc = "erase" /\ u.id = caller[c].id
         /\ u.req = caller[c].req /\ u.mine = caller[c].mine
         /\ u.read = Found(c)
  BY ReadIs
<1>4. caller'[c] = u
  BY <1>3 DEF Moved
<1>5. Waited(c)' = Waited(c)
  BY <1>3, <1>4 DEF Waited
<1>6. GotInv(c)'
  BY <1>1, <1>3, <1>4 DEF OwnInv, GotInv
<1>7. DOMAIN map' \subseteq DOMAIN map /\ \A w \in DOMAIN map' : map'[w] = map[w]
  BY <1>1, ReadIs
<1> QED BY <1>1, <1>2, <1>3, <1>4, <1>5, <1>6, <1>7, QuietOwn DEF Waiting

LEMMA PollEraseOwn ==
    ASSUME IInv, IInv', NEW c \in Callers, OwnInv(c), PollErase(c)
    PROVE  OwnInv(c)'
<1>1. /\ caller[c].pc = "erase" /\ got' = got \cup {Answer(c)}
      /\ UNCHANGED <<msgID, reqs>> /\ CallerFrame
  BY DEF PollErase, Answer
<1>2. PICK u \in CallerState :
         /\ Moved(c, u) /\ u.pc = "idle"
         /\ u.mine = caller[c].mine \ {Waited(c)}
  BY AnswerIs
<1>3. caller'[c] = u
  BY <1>2 DEF Moved
<1>4. DOMAIN map' \subseteq DOMAIN map /\ \A w \in DOMAIN map' : map'[w] = map[w]
  BY AnswerIs
<1>5. /\ Answer(c).what \in {Answer(c).req, Push}
      /\ Answer(c).req \in 1 .. Len(reqs)
      /\ \A m \in u.mine : m.req # Answer(c).req
  BY <1>1, <1>2, WaitedIs DEF Answer, OwnInv, PlaceInv, Waiting
<1>6. GotInv(c)'
  <2>1. ASSUME NEW g \in got'
        PROVE  /\ g.what \in {g.req, Push} /\ g.req \in 1 .. Len(reqs)
               /\ \A m \in u.mine : m.req # g.req
    <3>1. CASE g = Answer(c)
      BY <1>5, <3>1
    <3>2. CASE g \in got
      BY <1>2, <3>2 DEF OwnInv, GotInv
    <3> QED BY <1>1, <3>1, <3>2
  <2> QED BY <1>1, <1>2, <1>3, <2>1 DEF GotInv
<1> QED BY <1>1, <1>2, <1>3, <1>4, <1>6, QuietOwn DEF Waiting

LEMMA OwnStep ==
    ASSUME NEW c, Callers = {c}, MaxSends <= SignBit, IInv, OwnInv(c),
           [Next]_vars
    PROVE  OwnInv(c)'
<1>1. c \in Callers /\ IInv'
  BY Inductive
<1>2. CASE Caller(c)
  BY <1>1, <1>2, SendBuildOwn, SendOwn, SendCountOwn, WaitOwn, PollOwn,
     PollReadOwn, PollEraseOwn, CrashOwn DEF Caller, Receive, MapRace
<1>3. CASE UNCHANGED vars
  <2>1. UNCHANGED <<caller, reqs, msgID, got, down, rx, map>>
    BY <1>3 DEF vars, server
  <2>2. DownInv' /\ RxInv' /\ MapInv'
    BY <2>1 DEF OwnInv, DownInv, RxInv, MapInv, Fits
  <2> QED BY <1>1, <2>1, <2>2, OthersKeep
<1> QED BY <1>1, <1>2, <1>3, AppOwn, RxOwn, PeerOwn DEF Next

LEMMA OwnInitially == ASSUME NEW c, Callers = {c}, Init PROVE OwnInv(c)
<1>1. /\ reqs = <<>> /\ down = <<>> /\ map = <<>> /\ got = {}
      /\ rx.pc = "none" /\ msgID = 0
      /\ caller[c].pc = "idle" /\ caller[c].mine = {}
  BY DEF Init
<1>2. Len(reqs) = 0 /\ Len(down) = 0 /\ DOMAIN map = {}
  BY <1>1
<1>3. SentInv /\ DownInv /\ RxInv /\ MapInv
  BY <1>1, <1>2 DEF SentInv, DownInv, RxInv, MapInv
<1>4. MineInv(c) /\ PlaceInv(c) /\ GotInv(c)
  BY <1>1, <1>2 DEF MineInv, PlaceInv, GotInv, Waiting
<1> QED BY <1>3, <1>4 DEF OwnInv

LEMMA OwnInvariance ==
    ASSUME NEW c, Callers = {c}, MaxSends <= SignBit
    PROVE  Spec => []OwnInv(c)
<1>1. Init => OwnInv(c)
  BY OwnInitially
<1>2. IInv /\ OwnInv(c) /\ [Next]_vars => OwnInv(c)'
  BY OwnStep
<1> QED BY <1>1, <1>2, Invariance, PTL DEF Spec

\* What is filed stays, is replaced by a push, or is handed to its wait.
LEMMA KeptStep ==
    ASSUME NEW c, Callers = {c}, IInv, OwnInv(c), [Next]_vars,
           NEW w \in DOMAIN map, map[w] \in 1 .. MaxSends
    PROVE  \/ w \in DOMAIN map' /\ map'[w] \in {map[w], Push}
           \/ \E x \in {map[w], Push} :
                 [req |-> map[w], what |-> x] \in got' \ got
<1>1. map[w] \in 1 .. Len(reqs) /\ w = Low(map[w] - 1)
  BY Bounds DEF OwnInv, MapInv, Fits, Push
<1>2. CASE map' = map
  BY <1>2
<1>3. CASE RxFile
  <2>1. /\ w \in DOMAIN map'
        /\ map'[w] = IF w = rx.msg.id THEN rx.msg.what ELSE map[w]
    BY <1>3, RxFileIs
  <2>2. CASE w = rx.msg.id /\ rx.msg.what # Push
    <3> DEFINE n == rx.msg.what
               k == map[w]
    <3>1. n \in 1 .. Len(reqs) /\ w = Low(n - 1)
      BY <1>3, <2>2 DEF RxFile, OwnInv, RxInv, Fits
    <3>2. k \in 1 .. Len(reqs) /\ w = Low(k - 1)
      BY <1>1
    <3> HIDE DEF n, k
    <3>3. Len(reqs) \in 0 .. MaxSends
      BY CallerFacts
    <3>4. n - 1 \in Byte /\ k - 1 \in Byte
      BY <3>1, <3>2, <3>3, Bounds
    <3>5. n - 1 = k - 1
      BY <3>1, <3>2, <3>4, LowIsOne
    <3>6. n = k
      BY <3>1, <3>2, <3>3, <3>5
    <3> QED BY <2>1, <2>2, <3>6 DEF n, k
  <2> QED BY <2>1, <2>2
<1>4. CASE PollRead(c)
  <2>1. \A v \in DOMAIN map : v \in DOMAIN map' /\ map'[v] = map[v]
    BY <1>4, ReadIs
  <2> QED BY <2>1
<1>8. CASE PollErase(c)
  <2>1. /\ caller[c].pc = "erase" /\ got' = got \cup {Answer(c)}
        /\ map' = Without(Low(caller[c].id))
    BY <1>8 DEF PollErase, Answer
  <2>2. CASE w # Low(caller[c].id)
    BY <2>1, <2>2 DEF Without
  <2>3. CASE w = Low(caller[c].id)
    <3>1. map[w] \in {caller[c].req, Push} /\ map[w] # Push
      BY <1>1, <2>1, <2>3, AnswerOwn DEF Waiting, Push
    <3>2. Answer(c) = [req |-> map[w], what |-> caller[c].read]
          /\ caller[c].read \in {map[w], Push}
      BY <2>1, <3>1 DEF Answer, OwnInv, PlaceInv
    <3>3. Waited(c) \in caller[c].mine /\ Waited(c).req = caller[c].req
      BY <2>1, WaitedIs DEF Waited, Waiting
    <3>4. Answer(c) \notin got
      BY <3>1, <3>2, <3>3 DEF OwnInv, GotInv
    <3> QED BY <2>1, <3>2, <3>4
  <2> QED BY <2>2, <2>3
<1>5. App \/ RxReceive \/ Peer => map' = map
  BY DEF App, Connect, DisConnect, DisConnectClose, DisConnectJoin, Crash,
         RxReceive, Peer, ServerResponse, ServerSend, ServerAllClientSend, Lose,
         PeerFrame
<1>6. SendBuild(c) \/ Send(c) \/ SendCount(c) \/ Wait(c) \/ Poll(c)
         \/ MapRace(c) => map' = map
  BY DEF SendBuild, Send, SendCount, Wait, Poll, MapRace, Crash
<1>7. UNCHANGED vars => map' = map
  BY DEF vars
<1> QED BY <1>2, <1>3, <1>4, <1>5, <1>6, <1>7, <1>8
        DEF Next, Rx, Caller, Receive

\* SharedNetwork.cpp:183-236: with one caller, whose numbers stay below the sign
\* bit, a wait returns the answer to the request it is for or a message that the
\* server pushed under its number, whatever waits gave up before.
THEOREM AnswersAreOwn ==
    ASSUME NEW c, Callers = {c}, MaxSends <= SignBit
    PROVE  Spec => []AnswerIsOwnOrPushed
<1>1. OwnInv(c) => AnswerIsOwnOrPushed
  BY DEF OwnInv, GotInv, AnswerIsOwnOrPushed
<1> QED BY <1>1, OwnInvariance, PTL

\* SharedNetwork.cpp:170 and 222-226: with the count, the read and the erase of
\* a wait apart, an answer that is filed stays in the map until a push replaces
\* it or the wait for its own request ends, which returns it or the push that it
\* had read under the number.
THEOREM FiledAnswersStay ==
    ASSUME NEW c, Callers = {c}, MaxSends <= SignBit
    PROVE  Spec => FiledAnswerKept
<1> DEFINE Kept ==
      \A w \in DOMAIN map :
         map[w] \in 1 .. MaxSends =>
            \/ w \in DOMAIN map' /\ map'[w] \in {map[w], Push}
            \/ \E x \in {map[w], Push} :
                  [req |-> map[w], what |-> x] \in got' \ got
<1>1. IInv /\ OwnInv(c) /\ [Next]_vars => [Kept]_vars
  BY KeptStep
<1> HIDE DEF Kept
<1>2. Spec => [][Kept]_vars
  BY <1>1, Invariance, OwnInvariance, PTL DEF Spec
<1> QED BY <1>2 DEF FiledAnswerKept, Kept
=============================================================================
