----------------------------- MODULE NetClient ------------------------------
(***************************************************************************)
(* The client side of CNetwork (Network/SharedNetwork.cpp).  One thread    *)
(* connects and disconnects.  Callers send requests with ClientSend, which *)
(* gives each the number in _msgID, and poll for the answer with           *)
(* ClientReceiveWait; the receive thread files every message that arrives  *)
(* in _mapMsgIDToMSG under the number it carries.  The map and _msgID have *)
(* no lock.                                                                *)
(*                                                                         *)
(* The server is the other end's CNetwork: its handlers answer with        *)
(* ServerResponse, and it may push a message with ServerSend or            *)
(* ServerAllClientSend at any time.  A number is a word of NetFrame.       *)
(***************************************************************************)
EXTENDS NetFrame, Sequences, FiniteSets

CONSTANTS Callers,     \* threads that call ClientSend and ClientReceiveWait
          MaxSends,    \* bound on the requests
          MaxPushes,   \* bound on the messages the server pushes
          MaxConnects, \* bound on the calls of Connect that connect
          MaxPolls     \* the 1000 of ClientReceiveWait

ASSUME ClientAssumption ==
    /\ MaxSends \in 0 .. ByteMax - 1
    /\ MaxPushes \in 0 .. ByteMax - 1
    /\ MaxConnects \in Nat /\ MaxPolls \in Nat
    /\ IsFiniteSet(Callers)

\* What a message says: it answers a request (their places in reqs), or is
\* pushed.  The empty XString that operator[] makes for a number that is not in
\* the map says nothing.
Push == 0
Nothing == -1
What == Nothing .. MaxSends
Message == [id : Word, what : Push .. MaxSends]
NoMessage == [id |-> Low(0), what |-> Push]

VARIABLES
    status,  \* _pTCPClient and its m_eStatus
    conn,    \* the connection: what the other end did with it
    isStop,  \* CNetwork::_isStop
    app,     \* the thread that calls Connect and DisConnect
    connects,
    msgID,   \* CNetwork::_msgID
    map,     \* CNetwork::_mapMsgIDToMSG
    rx,      \* the receive thread
    caller,  \* the callers
    reqs,    \* the requests put on a connection: the number each carries
    open,    \* the requests that the server has still to answer
    pushID,  \* the server's _msgID
    pushes,
    down,    \* messages on their way to the client
    crashed, \* std::terminate or an access violation ended the process
    got      \* history: what ClientReceiveWait returned for which request

server == <<open, pushID, pushes, down>>
vars == <<status, conn, isStop, app, connects, msgID, map, rx, caller, reqs,
          server, crashed, got>>

RxState == [pc : {"none", "recv", "file", "done"}, msg : Message]
CallerState == [pc : {"idle", "send", "count", "wait", "read", "erase"},
                id : 0 .. MaxSends, req : 0 .. MaxSends, polls : 0 .. MaxPolls,
                read : What,
                mine : SUBSET [id : 0 .. MaxSends, req : 1 .. MaxSends]]

TypeOK ==
    /\ status \in {"null", "connected", "disconnected"}
    /\ conn \in {"none", "up", "fin", "rst"}
    /\ isStop \in BOOLEAN
    /\ app \in {"idle", "close", "join"}
    /\ connects \in 0 .. MaxConnects
    /\ msgID \in 0 .. MaxSends
    /\ DOMAIN map \subseteq Word /\ \A w \in DOMAIN map : map[w] \in What
    /\ rx \in RxState
    /\ caller \in [Callers -> CallerState]
    /\ reqs \in Seq(Word) /\ Len(reqs) <= MaxSends
    /\ open \subseteq 1 .. Len(reqs)
    /\ pushID \in 0 .. MaxPushes /\ pushes \in 0 .. MaxPushes
    /\ down \in Seq(Message)
    /\ crashed \in BOOLEAN
    /\ got \subseteq [req : 1 .. MaxSends, what : What]

Init ==
    /\ status = "null"
    /\ conn = "none"
    /\ isStop = FALSE
    /\ app = "idle"
    /\ connects = 0
    /\ msgID = 0
    /\ map = <<>>
    /\ rx = [pc |-> "none", msg |-> NoMessage]
    /\ caller = [c \in Callers |-> [pc |-> "idle", id |-> 0, req |-> 0,
                                    polls |-> 0, read |-> Push, mine |-> {}]]
    /\ reqs = <<>>
    /\ open = {}
    /\ pushID = 0
    /\ pushes = 0
    /\ down = <<>>
    /\ crashed = FALSE
    /\ got = {}

\* A number as the other end reads it.
Arrives(w) == FromWire(ToWire(w))

Crash ==
    /\ crashed' = TRUE
    /\ UNCHANGED <<status, conn, isStop, app, connects, msgID, map, rx, caller,
                   reqs, server, got>>

----------------------------------------------------------------------------
(* The server and the network. *)

PeerFrame == UNCHANGED <<status, isStop, app, connects, msgID, map, rx, caller,
                         reqs, crashed, got>>

\* ServerResponse, with the number that convertReceiveMsg gave the handler; the
\* handlers may answer in any order.
ServerResponse ==
    /\ ~crashed
    /\ conn = "up"
    /\ \E n \in open :
          /\ open' = open \ {n}
          /\ down' = Append(down, [id |-> Arrives(reqs[n]), what |-> n])
    /\ UNCHANGED <<conn, pushID, pushes>> /\ PeerFrame

\* ServerSend: the server's own count.
ServerSend ==
    /\ ~crashed
    /\ conn = "up"
    /\ pushes < MaxPushes
    /\ pushes' = pushes + 1
    /\ pushID' = pushID + 1
    /\ down' = Append(down, [id |-> Low(pushID), what |-> Push])
    /\ UNCHANGED <<conn, open>> /\ PeerFrame

\* ServerAllClientSend: every broadcast has the number 0.
ServerAllClientSend ==
    /\ ~crashed
    /\ conn = "up"
    /\ pushes < MaxPushes
    /\ pushes' = pushes + 1
    /\ down' = Append(down, [id |-> Low(0), what |-> Push])
    /\ UNCHANGED <<conn, open, pushID>> /\ PeerFrame

\* The server closes the connection, or it breaks and what is on its way is lost.
Lose ==
    /\ ~crashed
    /\ conn = "up"
    /\ open' = {}
    /\ \/ conn' = "fin" /\ UNCHANGED down
       \/ conn' = "rst" /\ down' = <<>>
    /\ UNCHANGED <<pushID, pushes>> /\ PeerFrame

Peer == ServerResponse \/ ServerSend \/ ServerAllClientSend \/ Lose

----------------------------------------------------------------------------
(* Connect and DisConnect. *)

\* The head of the receive thread's loop is part of the step that goes back to
\* it.
RxLoop == rx' = [pc |-> IF isStop \/ status # "connected" THEN "done"
                        ELSE "recv",
                 msg |-> NoMessage]

\* A failed connect leaves the status as it was, or "disconnected" in a new
\* CTCPClient.  Assigning the receive thread to a joinable std::thread ends the
\* process.
Connect ==
    /\ ~crashed
    /\ app = "idle"
    /\ status # "connected"
    /\ connects < MaxConnects
    /\ IF rx.pc # "none" THEN Crash
       ELSE \/ /\ status' = "connected"
               /\ conn' = "up"
               /\ down' = <<>>
               /\ connects' = connects + 1
               /\ rx' = [pc |-> IF isStop THEN "done" ELSE "recv",
                         msg |-> NoMessage]
               /\ UNCHANGED <<isStop, app, msgID, map, caller, reqs, open,
                              pushID, pushes, crashed, got>>
            \/ /\ status = "null"
               /\ status' = "disconnected"
               /\ UNCHANGED <<conn, isStop, app, connects, msgID, map, rx,
                              caller, reqs, server, crashed, got>>

\* CTCPClient::Disconnect sets the status before it closes the socket; there may
\* be no CTCPClient yet.
DisConnect ==
    /\ ~crashed
    /\ app = "idle"
    /\ isStop' = TRUE
    /\ status' = IF status = "null" THEN "null" ELSE "disconnected"
    /\ app' = IF status = "connected" THEN "close" ELSE "join"
    /\ UNCHANGED <<conn, connects, msgID, map, rx, caller, reqs, server,
                   crashed, got>>

\* Mutant: the thread is joined only when its socket was closed.
MutJoinOnlyIfClosed ==
    /\ ~crashed
    /\ app = "join"
    /\ conn = "rst" \/ rx.pc \in {"none", "done"}
    /\ rx' = IF conn = "rst" THEN rx ELSE [pc |-> "none", msg |-> NoMessage]
    /\ app' = "idle"
    /\ UNCHANGED <<status, conn, isStop, connects, msgID, map, caller, reqs,
                   server, crashed, got>>

\* Mutant: the socket is left open.
MutLeaveSocketOpen ==
    /\ ~crashed
    /\ app = "close"
    /\ app' = "join"
    /\ UNCHANGED <<status, conn, isStop, connects, msgID, map, rx, caller, reqs,
                   server, crashed, got>>

\* The shutdown fails on a broken connection, and then the socket stays open.
DisConnectClose ==
    /\ ~crashed
    /\ app = "close"
    /\ conn' = IF conn = "rst" THEN "rst" ELSE "none"
    /\ open' = {}
    /\ down' = <<>>
    /\ app' = "join"
    /\ UNCHANGED <<status, isStop, connects, msgID, map, rx, caller, reqs,
                   pushID, pushes, crashed, got>>

DisConnectJoin ==
    /\ ~crashed
    /\ app = "join"
    /\ rx.pc \in {"none", "done"}
    /\ rx' = [pc |-> "none", msg |-> NoMessage]
    /\ app' = "idle"
    /\ UNCHANGED <<status, conn, isStop, connects, msgID, map, caller, reqs,
                   server, crashed, got>>

App == Connect \/ DisConnect \/ DisConnectClose \/ DisConnectJoin

----------------------------------------------------------------------------
(* The receive thread: ClientReceiveThread. *)

RxFrame == UNCHANGED <<status, conn, isStop, app, connects, msgID, caller,
                       reqs, open, pushID, pushes, crashed, got>>

\* At the end of the stream, and after a failure, the loop goes round again.
RxReceive ==
    /\ ~crashed
    /\ rx.pc = "recv"
    /\ \/ /\ down # <<>>
          /\ rx' = [pc |-> "file",
                    msg |-> [Head(down) EXCEPT !.id = Arrives(@)]]
          /\ down' = Tail(down)
       \/ /\ down = <<>> /\ conn # "up"
          /\ RxLoop
          /\ UNCHANGED down
    /\ UNCHANGED map /\ RxFrame

\* Mutant: insert in place of operator[], which keeps what is filed already.
MutFileKeepsOld ==
    /\ ~crashed
    /\ rx.pc = "file"
    /\ map' = [w \in DOMAIN map \cup {rx.msg.id} |->
                   IF w \in DOMAIN map THEN map[w] ELSE rx.msg.what]
    /\ RxLoop
    /\ UNCHANGED down /\ RxFrame

RxFile ==
    /\ ~crashed
    /\ rx.pc = "file"
    /\ map' = [w \in DOMAIN map \cup {rx.msg.id} |->
                   IF w = rx.msg.id THEN rx.msg.what ELSE map[w]]
    /\ RxLoop
    /\ UNCHANGED down /\ RxFrame

Rx == RxReceive \/ RxFile

----------------------------------------------------------------------------
(* The callers: ClientSend and ClientReceiveWait. *)

CallerFrame == UNCHANGED <<status, conn, isStop, app, connects, rx, pushID,
                           pushes, down>>

\* The test of the status, and the message built with the number that is next.
SendBuild(c) ==
    /\ ~crashed
    /\ caller[c].pc = "idle"
    /\ status = "connected"
    /\ Len(reqs) + Cardinality({d \in Callers : caller[d].pc = "send"}) < MaxSends
    /\ caller' = [caller EXCEPT ![c].pc = "send", ![c].id = msgID]
    /\ UNCHANGED <<msgID, map, reqs, open, crashed, got>> /\ CallerFrame

\* CTCPClient::Send: it fails on a broken or closed connection, and what is sent
\* on one the server has closed is not answered.
Send(c) ==
    /\ ~crashed
    /\ caller[c].pc = "send"
    /\ \/ /\ status = "connected" /\ conn \in {"up", "fin"}
          /\ reqs' = Append(reqs, Arrives(Low(caller[c].id)))
          /\ open' = IF conn = "up" THEN open \cup {Len(reqs) + 1} ELSE open
          /\ caller' = [caller EXCEPT ![c].pc = "count",
                                      ![c].req = Len(reqs) + 1]
       \/ /\ status # "connected" \/ conn \in {"none", "rst"}
          /\ caller' = [caller EXCEPT ![c].pc = "idle"]
          /\ UNCHANGED <<reqs, open>>
    /\ UNCHANGED <<msgID, map, crashed, got>> /\ CallerFrame

\* Mutant: _msgID stays as it is.
MutSendKeepsNumber(c) ==
    /\ ~crashed
    /\ caller[c].pc = "count"
    /\ caller' = [caller EXCEPT
                     ![c].pc = "idle",
                     ![c].mine = @ \cup {[id |-> msgID, req |-> caller[c].req]}]
    /\ UNCHANGED <<msgID, map, reqs, open, crashed, got>> /\ CallerFrame

\* Mutant: the count goes on by two.
MutCountByTwo(c) ==
    /\ ~crashed
    /\ caller[c].pc = "count"
    /\ caller' = [caller EXCEPT
                     ![c].pc = "idle",
                     ![c].mine = @ \cup {[id |-> msgID, req |-> caller[c].req]}]
    /\ msgID' = msgID + 2
    /\ UNCHANGED <<map, reqs, open, crashed, got>> /\ CallerFrame

\* prRet.second = _msgID++: the number returned is read a second time.
SendCount(c) ==
    /\ ~crashed
    /\ caller[c].pc = "count"
    /\ caller' = [caller EXCEPT
                     ![c].pc = "idle",
                     ![c].mine = @ \cup {[id |-> msgID, req |-> caller[c].req]}]
    /\ msgID' = msgID + 1
    /\ UNCHANGED <<map, reqs, open, crashed, got>> /\ CallerFrame

\* ClientReceiveWait, on a number that ClientSend returned and that has not been
\* answered.
Wait(c) ==
    /\ ~crashed
    /\ caller[c].pc = "idle"
    /\ \E m \in caller[c].mine :
          caller' = [caller EXCEPT ![c].pc = "wait", ![c].id = m.id,
                                   ![c].req = m.req, ![c].polls = 0]
    /\ UNCHANGED <<msgID, map, reqs, open, crashed, got>> /\ CallerFrame

Without(w) == [v \in DOMAIN map \ {w} |-> map[v]]

\* Mutant: a wait that gives up discards what is filed last.
MutTimeoutDiscards(c) ==
    /\ ~crashed
    /\ caller[c].pc = "wait"
    /\ \/ /\ caller[c].polls < MaxPolls /\ Low(caller[c].id) \in DOMAIN map
          /\ caller' = [caller EXCEPT ![c].pc = "read"] /\ UNCHANGED map
       \/ /\ caller[c].polls < MaxPolls /\ Low(caller[c].id) \notin DOMAIN map
          /\ caller' = [caller EXCEPT ![c].polls = @ + 1] /\ UNCHANGED map
       \/ /\ caller[c].polls = MaxPolls
          /\ caller' = [caller EXCEPT ![c].pc = "idle"]
          /\ map' = Without(Low(caller[c].id))
    /\ UNCHANGED <<msgID, reqs, open, crashed, got>> /\ CallerFrame

\* The count of one turn of the loop; after the last turn a wait gives up, and
\* what arrives later stays in the map.
Poll(c) ==
    /\ ~crashed
    /\ caller[c].pc = "wait"
    /\ \/ /\ caller[c].polls < MaxPolls /\ Low(caller[c].id) \in DOMAIN map
          /\ caller' = [caller EXCEPT ![c].pc = "read"]
       \/ /\ caller[c].polls < MaxPolls /\ Low(caller[c].id) \notin DOMAIN map
          /\ caller' = [caller EXCEPT ![c].polls = @ + 1]
       \/ /\ caller[c].polls = MaxPolls
          /\ caller' = [caller EXCEPT ![c].pc = "idle"]
    /\ UNCHANGED <<msgID, map, reqs, open, crashed, got>> /\ CallerFrame

\* operator[], which inserts an empty XString for a number that another caller
\* erased since the count.
PollRead(c) ==
    /\ ~crashed
    /\ caller[c].pc = "read"
    /\ LET w == Low(caller[c].id)
           x == IF w \in DOMAIN map THEN map[w] ELSE Nothing IN
       /\ map' = [v \in DOMAIN map \cup {w} |-> IF v = w THEN x ELSE map[v]]
       /\ caller' = [caller EXCEPT ![c].pc = "erase", ![c].read = x]
    /\ UNCHANGED <<msgID, reqs, open, crashed, got>> /\ CallerFrame

\* What is erased is what is filed now.
PollErase(c) ==
    /\ ~crashed
    /\ caller[c].pc = "erase"
    /\ got' = got \cup {[req |-> caller[c].req, what |-> caller[c].read]}
    /\ map' = Without(Low(caller[c].id))
    /\ caller' = [caller EXCEPT
                     ![c].pc = "idle",
                     ![c].mine = @ \ {[id |-> caller[c].id,
                                       req |-> caller[c].req]}]
    /\ UNCHANGED <<msgID, reqs, open, crashed>> /\ CallerFrame

\* The thread changes the map in its next step.
WritesMap(d) ==
    \/ caller[d].pc = "erase"
    \/ caller[d].pc = "read" /\ Low(caller[d].id) \notin DOMAIN map

\* Looking at the map while another thread changes it is undefined.
MapRace(c) ==
    /\ ~crashed
    /\ caller[c].pc \in {"wait", "read", "erase"}
    /\ rx.pc = "file" \/ \E d \in Callers \ {c} : WritesMap(d)
    /\ Crash

Receive(c) == Poll(c) \/ PollRead(c) \/ PollErase(c)

Caller(c) == SendBuild(c) \/ Send(c) \/ SendCount(c) \/ Wait(c) \/ Receive(c)
                \/ MapRace(c)

----------------------------------------------------------------------------
Next == App \/ Rx \/ Peer \/ \E c \in Callers : Caller(c)

Spec == Init /\ [][Next]_vars

\* Every thread inside a call, and the receive thread, keeps running.
Fairness ==
    /\ WF_vars(Rx)
    /\ WF_vars(DisConnectClose \/ DisConnectJoin)
    /\ \A c \in Callers : WF_vars(Send(c) \/ SendCount(c) \/ Receive(c))

FairSpec == Spec /\ Fairness

----------------------------------------------------------------------------
(* Properties. *)

\* With one caller, a wait never returns the answer to another request of this
\* client, however late or out of order the answers come and whatever waits gave
\* up before; what it may return is a message that the server pushed.
AnswerIsOwnOrPushed == \A g \in got : g.what \in {g.req, Push}

\* An answer that is filed leaves the map in two ways only: under a push that
\* carries the same number, or as the wait for its own request ends, which
\* returns it, or returns the push that it had read under the number before the
\* answer was filed there.  A wait that gave up, a wait for another request and a
\* new connection leave it where it is.
FiledAnswerKept ==
    [][\A w \in DOMAIN map :
           map[w] \in 1 .. MaxSends =>
               \/ w \in DOMAIN map' /\ map'[w] \in {map[w], Push}
               \/ \E x \in {map[w], Push} :
                     [req |-> map[w], what |-> x] \in got' \ got]_vars

\* When Connect can start a receive thread, the one before was joined: the
\* assignment to the std::thread never ends the process, however the connection
\* was lost and whatever its Disconnect returned.
ConnectFindsNoThread ==
    app = "idle" /\ status # "connected" => rx.pc = "none"

\* An answer on its way is at last filed, and is there for the next wait, unless
\* the connection breaks or is closed.
AnswerFiled ==
    \A n \in 1 .. MaxSends :
        (\E i \in DOMAIN down : down[i].what = n)
            ~> \/ \E w \in DOMAIN map : map[w] = n
               \/ \E g \in got : g.what = n
               \/ conn = "rst" \/ isStop \/ crashed

\* DisConnect returns: closing the socket wakes the receive thread it joins.
DisConnectReturns == (app = "close") ~> (app = "idle" \/ crashed)

\* SharedNetwork.cpp:388 keeps the second four bytes of a message as its msgID:
\* what is filed under the number of a request answers that request.
NumberNamesRequest ==
    \A c \in Callers : \A m \in caller[c].mine :
        Low(m.id) \in DOMAIN map => map[Low(m.id)] = m.req
=============================================================================
