----------------------------- MODULE NetServer -----------------------------
(***************************************************************************)
(* The server side of CNetwork (Network/SharedNetwork.cpp): the thread     *)
(* that owns the object calls Connect, DisConnect and ServerAllClientSend; *)
(* one listen thread accepts connections; each accepted connection has a   *)
(* receive thread and a CNetworkServerHandler with a queue and a thread of *)
(* its own.  The threads share _isStop, _pTCPServer and                    *)
(* _mapIdToClientInfo without a lock.                                      *)
(*                                                                         *)
(* A connection is named by the client that opened it, and a handle is the *)
(* number the operating system gives the server's end of a connection: a   *)
(* closed handle is free to be given to the next connection.  Whole frames *)
(* are the unit of transfer here.                                          *)
(***************************************************************************)
EXTENDS Integers, Sequences, FiniteSets

CONSTANTS Clients,       \* the peers; each opens one connection
          Handles,       \* the operating system's socket handles
          None,          \* "no client", "no packet", "no handle"
          MaxPackets,    \* bound on the frames one client sends
          MaxConnects,   \* bound on the calls of Connect
          MaxBroadcasts  \* bound on the calls of ServerAllClientSend

ASSUME NoneAssumption == None \notin Clients \cup Handles
ASSUME BoundsAssumption ==
    MaxPackets \in Nat /\ MaxConnects \in Nat /\ MaxBroadcasts \in Nat

VARIABLES
    peer,        \* what each client did with its connection
    sent,        \* frames each client has put on its connection
    cut,         \* the client closed in the middle of one more frame
    taken,       \* frames taken out of each connection by recv
    credit,      \* history: 1 for a receive that was under way when _isStop
                 \* was set, less the frames taken out since
    owner,       \* the connection an open handle stands for, or None
    isStop,      \* CNetwork::_isStop
    server,      \* CNetwork::_pTCPServer
    listenSocket,  \* CTCPServer::m_ListenSocket, see ListenSocket
    dwID,        \* CNetwork::_dwID
    clientInfo,  \* CNetwork::_mapIdToClientInfo
    listen,      \* the listen thread: where it is, what accept gave it
    rx,          \* the receive threads
    handler,     \* the CNetworkServerHandler objects and their threads
    app,         \* the thread that calls CNetwork's methods
    crashed,     \* std::terminate or an access violation ended the process
    handled,     \* history: the packets given to each handler function
    strays       \* history: answers that went to another client

env     == <<peer, sent, cut>>
stream  == <<taken, credit>>
network == <<isStop, server, listenSocket, dwID, clientInfo>>
history == <<handled, strays>>
vars    == <<env, stream, owner, network, listen, rx, handler, app, crashed,
             history>>

Packet == [from : Clients, n : 1 .. MaxPackets + 1]

\* No socket; one that is not listening yet; one that listens; none, and the
\* resolved address freed, after a failure; one that the listen thread made for
\* a server that was destroyed meanwhile, and that nobody will close.
ListenSocket == {"none", "made", "bound", "broken", "orphan"}

ListenPc  == {"none", "call", "open", "bind", "accept", "insert", "done"}
RxPc      == {"none", "start", "recv", "insert", "close", "end", "join", "done"}
HandlerPc == {"none", "loop", "sleep", "func", "done"}
AppPc     == {"idle", "reset", "join", "send"}

ClientInfo   == [conn : Clients, handle : Handles]
ListenState  == [pc : ListenPc, conn : Clients \cup {None},
                 handle : Handles \cup {None}]
RxState      == [pc : RxPc, handle : Handles \cup {None},
                 pkt : Packet \cup {None}]
HandlerState == [pc : HandlerPc, stop : BOOLEAN, queue : Seq(Packet),
                 pkt : Packet \cup {None}]
AppState     == [pc : AppPc, at : Nat, due : SUBSET Clients,
                 got : SUBSET Clients, connects : 0 .. MaxConnects,
                 broadcasts : 0 .. MaxBroadcasts]
Stray        == [req : Clients, to : Clients, closed : BOOLEAN]

TypeOK ==
    /\ peer \in [Clients -> {"idle", "pending", "up", "fin", "rst"}]
    /\ sent \in [Clients -> 0 .. MaxPackets]
    /\ cut \in [Clients -> BOOLEAN]
    /\ taken \in [Clients -> 0 .. MaxPackets + 1]
    /\ credit \in [Clients -> Int]
    /\ owner \in [Handles -> Clients \cup {None}]
    /\ isStop \in BOOLEAN
    /\ server \in {"null", "object"}
    /\ listenSocket \in ListenSocket
    /\ dwID \in Nat
    /\ DOMAIN clientInfo \subseteq Nat
    /\ \A id \in DOMAIN clientInfo : clientInfo[id] \in ClientInfo
    /\ listen \in ListenState
    /\ rx \in [Clients -> RxState]
    /\ handler \in [Clients -> HandlerState]
    /\ app \in AppState
    /\ crashed \in BOOLEAN
    /\ handled \in [Clients -> Seq(Packet)]
    /\ strays \subseteq Stray

Init ==
    /\ peer = [c \in Clients |-> "idle"]
    /\ sent = [c \in Clients |-> 0]
    /\ cut = [c \in Clients |-> FALSE]
    /\ taken = [c \in Clients |-> 0]
    /\ credit = [c \in Clients |-> 0]
    /\ owner = [h \in Handles |-> None]
    /\ isStop = FALSE
    /\ server = "null"
    /\ listenSocket = "none"
    /\ dwID = 0
    /\ clientInfo = <<>>
    /\ listen = [pc |-> "none", conn |-> None, handle |-> None]
    /\ rx = [c \in Clients |-> [pc |-> "none", handle |-> None, pkt |-> None]]
    /\ handler = [c \in Clients |-> [pc |-> "none", stop |-> FALSE,
                                     queue |-> <<>>, pkt |-> None]]
    /\ app = [pc |-> "idle", at |-> 0, due |-> {}, got |-> {},
              connects |-> 0, broadcasts |-> 0]
    /\ crashed = FALSE
    /\ handled = [c \in Clients |-> <<>>]
    /\ strays = {}

Crash ==
    /\ crashed' = TRUE
    /\ UNCHANGED <<env, stream, owner, network, listen, rx, handler, app, history>>

\* A call of a CTCPServer method through the null pointer, or one whose error
\* path reads the object after DisConnect destroyed it, where the call itself
\* needs no member: undefined, so it crashes or it works.
MayCrash == (server = "null") /\ Crash

----------------------------------------------------------------------------
(* The peers and the network: external. *)

PeerFrame == UNCHANGED <<stream, owner, network, listen, rx, handler, app,
                         crashed, history>>

ClientConnect(c) ==
    /\ ~crashed
    /\ peer[c] = "idle"
    /\ listenSocket \in {"bound", "orphan"}
    /\ peer' = [peer EXCEPT ![c] = "pending"]
    /\ UNCHANGED <<sent, cut>> /\ PeerFrame

ClientSend(c) ==
    /\ ~crashed
    /\ peer[c] \in {"pending", "up"}
    /\ sent[c] < MaxPackets
    /\ sent' = [sent EXCEPT ![c] = @ + 1]
    /\ UNCHANGED <<peer, cut>> /\ PeerFrame

\* An orderly close, perhaps in the middle of a frame.
ClientClose(c) ==
    /\ ~crashed
    /\ peer[c] = "up"
    /\ peer' = [peer EXCEPT ![c] = "fin"]
    /\ \E b \in BOOLEAN : cut' = [cut EXCEPT ![c] = b]
    /\ UNCHANGED sent /\ PeerFrame

\* The connection breaks, perhaps after an orderly close: from now on recv and
\* send fail on it.
ClientReset(c) ==
    /\ ~crashed
    /\ peer[c] \in {"up", "fin"}
    /\ peer' = [peer EXCEPT ![c] = "rst"]
    /\ UNCHANGED <<sent, cut>> /\ PeerFrame

Peer(c) == \/ ClientConnect(c) \/ ClientSend(c)
           \/ ClientClose(c) \/ ClientReset(c)

\* What send does with a handle: the connection that gets the data, or None.
SendTo(h) ==
    IF owner[h] # None /\ peer[owner[h]] # "rst" THEN owner[h] ELSE None

\* The listen socket, if the server has one, is closed: what waits in its
\* backlog is reset.
ResetBacklog == peer' = [c \in Clients |->
                             IF peer[c] = "pending" THEN "rst" ELSE peer[c]]

CloseListenSocket(s) ==
    IF listenSocket \in {"none", "orphan"}
    THEN UNCHANGED <<listenSocket, peer>>
    ELSE listenSocket' = s /\ ResetBacklog

----------------------------------------------------------------------------
(* The test of _isStop at the head of a thread's loop is part of the step that
   goes back to it: no other thread can tell the two apart. *)

ListenLoop == listen' = [pc |-> IF isStop THEN "done" ELSE "call",
                         conn |-> None, handle |-> None]

RxLoop(c) == rx' = [rx EXCEPT ![c].pc = IF isStop THEN "done" ELSE "recv",
                              ![c].pkt = None]

----------------------------------------------------------------------------
(* The thread that calls Connect, DisConnect and ServerAllClientSend. *)

\* Connect starts a listen thread; assigning it to a joinable std::thread ends
\* the process.
Connect ==
    /\ ~crashed
    /\ app.pc = "idle"
    /\ app.connects < MaxConnects
    /\ IF listen.pc # "none"
       THEN Crash
       ELSE /\ app' = [app EXCEPT !.connects = @ + 1]
            /\ server' = "object"
            /\ ListenLoop
            /\ UNCHANGED <<env, stream, owner, isStop, listenSocket, dwID,
                           clientInfo, rx, handler, crashed, history>>

\* Also without a server: it stops what a later Connect starts.
DisConnect ==
    /\ ~crashed
    /\ app.pc = "idle"
    /\ isStop' = TRUE
    /\ credit' = [c \in Clients |-> IF ~isStop /\ rx[c].pc = "recv"
                                   THEN 1 ELSE credit[c]]
    /\ app' = [app EXCEPT !.pc = "reset"]
    /\ UNCHANGED <<env, taken, owner, server, listenSocket, dwID, clientInfo,
                   listen, rx, handler, crashed, history>>

\* Mutant: DisConnect joins the listen thread before it destroys the server.
MutJoinBeforeReset ==
    /\ ~crashed
    /\ app.pc = "reset"
    /\ listen.pc \in {"none", "done"}
    /\ server' = "null"
    /\ listenSocket' = "none"
    /\ app' = [app EXCEPT !.pc = "join"]
    /\ UNCHANGED <<env, stream, owner, isStop, dwID, clientInfo, listen, rx,
                   handler, crashed, history>>

\* ~CTCPServer closes the listen socket; the connections stay open.  With a
\* null pointer there is nothing to destroy.
DisConnectReset ==
    /\ ~crashed
    /\ app.pc = "reset"
    /\ server' = "null"
    /\ app' = [app EXCEPT !.pc = "join"]
    /\ CloseListenSocket("none")
    /\ UNCHANGED <<sent, cut, stream, owner, isStop, dwID, clientInfo, listen,
                   rx, handler, crashed, history>>

DisConnectJoin ==
    /\ ~crashed
    /\ app.pc = "join"
    /\ listen.pc \in {"none", "done"}
    /\ listen' = [listen EXCEPT !.pc = "none"]
    /\ app' = [app EXCEPT !.pc = "idle"]
    /\ UNCHANGED <<env, stream, owner, network, rx, handler, crashed, history>>

\* ServerAllClientSend walks the map in key order while the listen thread may
\* insert; a failed send does not stop it.
Broadcast ==
    /\ ~crashed
    /\ app.pc = "idle"
    /\ app.broadcasts < MaxBroadcasts
    /\ DOMAIN clientInfo # {}
    /\ app' = [app EXCEPT
                  !.pc = "send", !.at = 0, !.got = {},
                  !.broadcasts = @ + 1,
                  !.due = {clientInfo[id].conn : id \in DOMAIN clientInfo}]
    /\ UNCHANGED <<env, stream, owner, network, listen, rx, handler, crashed,
                   history>>

\* Mutant: the walk stops at the first send that fails.
MutBroadcastStopsAtFailure ==
    /\ ~crashed
    /\ app.pc = "send"
    /\ LET left == {id \in DOMAIN clientInfo : id >= app.at}
           id == CHOOSE i \in left : \A j \in left : i <= j IN
       /\ app' = IF left = {} \/ SendTo(clientInfo[id].handle) = None
                 THEN [app EXCEPT !.pc = "idle", !.at = 0,
                                  !.due = {}, !.got = {}]
                 ELSE [app EXCEPT
                          !.at = id + 1,
                          !.got = @ \cup {SendTo(clientInfo[id].handle)}]
       /\ UNCHANGED <<env, stream, owner, network, listen, rx, handler,
                      crashed, history>>

BroadcastNext ==
    /\ ~crashed
    /\ app.pc = "send"
    /\ LET left == {id \in DOMAIN clientInfo : id >= app.at} IN
       IF left = {}
       THEN /\ app' = [app EXCEPT !.pc = "idle", !.at = 0,
                                  !.due = {}, !.got = {}]
            /\ UNCHANGED <<env, stream, owner, network, listen, rx, handler,
                           crashed, history>>
       ELSE LET id == CHOOSE i \in left : \A j \in left : i <= j
                to == SendTo(clientInfo[id].handle) IN
            \/ MayCrash
            \/ /\ app' = [app EXCEPT
                             !.at = id + 1,
                             !.got = IF to = None THEN @ ELSE @ \cup {to}]
               /\ UNCHANGED <<env, stream, owner, network, listen, rx,
                              handler, crashed, history>>

App == \/ Connect
       \/ DisConnect \/ DisConnectReset \/ DisConnectJoin
       \/ Broadcast \/ BroadcastNext

----------------------------------------------------------------------------
(* The listen thread: ServerListenThread. *)

\* What the listen thread's own steps leave alone.
ListenFrame == UNCHANGED <<sent, cut, stream, isStop, server, handler, app,
                           crashed, history>>

\* The call of Listen through the pointer.  Without a socket it goes to make
\* one from the resolved address, which a failure left null.
ListenCall ==
    /\ ~crashed
    /\ listen.pc = "call"
    /\ IF server = "null" \/ listenSocket = "broken"
       THEN Crash
       ELSE /\ listen' = [listen EXCEPT !.pc = IF listenSocket = "none"
                                               THEN "open" ELSE "bind"]
            /\ UNCHANGED <<peer, owner, listenSocket, dwID, clientInfo, rx>>
            /\ ListenFrame

\* socket().  When DisConnect has destroyed the server meanwhile the thread is
\* in freed memory: it crashes, fails, or goes on with a socket that it makes,
\* binds and listens on after the only close there is.
ListenOpen ==
    /\ ~crashed
    /\ listen.pc = "open"
    /\ \/ MayCrash
       \/ /\ IF server = "null"
             THEN /\ listenSocket' = "orphan"
                  /\ listen' = [listen EXCEPT !.pc = "accept"]
             ELSE /\ listenSocket' = "made"
                  /\ listen' = [listen EXCEPT !.pc = "bind"]
          /\ UNCHANGED <<peer, owner, dwID, clientInfo, rx>> /\ ListenFrame
       \/ /\ listenSocket' = IF server = "null" THEN "none" ELSE "broken"
          /\ ListenLoop
          /\ UNCHANGED <<peer, owner, dwID, clientInfo, rx>> /\ ListenFrame

\* bind(), for a socket that is not bound, and listen().  If one fails, as each
\* does on a socket that DisConnect has closed, Listen closes the socket; the
\* address is freed by now.
ListenBind ==
    /\ ~crashed
    /\ listen.pc = "bind"
    /\ \/ MayCrash
       \/ /\ listenSocket \in {"made", "bound"}
          /\ listenSocket' = "bound"
          /\ listen' = [listen EXCEPT !.pc = "accept"]
          /\ UNCHANGED <<peer, owner, dwID, clientInfo, rx>> /\ ListenFrame
       \/ /\ CloseListenSocket("broken")
          /\ ListenLoop
          /\ UNCHANGED <<owner, dwID, clientInfo, rx>> /\ ListenFrame

\* accept gives a handle that is not open; the receive thread starts before the
\* client is in the map.
ListenAccept ==
    /\ ~crashed
    /\ listen.pc = "accept"
    /\ listenSocket \in {"bound", "orphan"}
    /\ \E c \in {k \in Clients : peer[k] = "pending"},
          h \in {k \in Handles : owner[k] = None} :
          /\ peer' = [peer EXCEPT ![c] = "up"]
          /\ owner' = [owner EXCEPT ![h] = c]
          /\ listen' = [pc |-> "insert", conn |-> c, handle |-> h]
          /\ rx' = [rx EXCEPT ![c] = [pc |-> "start", handle |-> h,
                                      pkt |-> None]]
    /\ UNCHANGED <<listenSocket, dwID, clientInfo>> /\ ListenFrame

\* accept fails: always once the listen socket is closed, when the error path
\* also reads the destroyed object.
ListenFail ==
    /\ ~crashed
    /\ listen.pc = "accept"
    /\ \/ MayCrash
       \/ /\ ListenLoop
          /\ UNCHANGED <<peer, owner, listenSocket, dwID, clientInfo, rx>>
          /\ ListenFrame

\* Mutant: _dwID is used as it is.
MutFirstId == dwID

\* The first key at or after _dwID that the map does not have.
FreeId == CHOOSE i \in dwID .. dwID + Cardinality(DOMAIN clientInfo) :
              /\ i \notin DOMAIN clientInfo
              /\ dwID .. i - 1 \subseteq DOMAIN clientInfo

ListenInsert ==
    /\ ~crashed
    /\ listen.pc = "insert"
    /\ dwID' = FreeId
    /\ clientInfo' = [id \in DOMAIN clientInfo \cup {FreeId} |->
                          IF id = FreeId
                          THEN [conn |-> listen.conn, handle |-> listen.handle]
                          ELSE clientInfo[id]]
    /\ ListenLoop
    /\ UNCHANGED <<peer, owner, listenSocket, rx>> /\ ListenFrame

Listen == \/ ListenCall \/ ListenOpen \/ ListenBind
          \/ ListenAccept \/ ListenFail \/ ListenInsert

----------------------------------------------------------------------------
(* The receive thread of connection c: ServerReceiveThread. *)

RxFrame == UNCHANGED <<env, network, listen, app, crashed, history>>

RxGoto(c, pc) == rx' = [rx EXCEPT ![c].pc = pc]

\* The handler gets the function and the socket, and its thread starts.
RxStart(c) ==
    /\ ~crashed
    /\ rx[c].pc = "start"
    /\ RxLoop(c)
    /\ handler' = [handler EXCEPT ![c].pc = "loop"]
    /\ UNCHANGED <<stream, owner>> /\ RxFrame

\* CTCPServer::Receive on the thread's handle: a whole frame, a frame the close
\* cut short, 0 at the end of the stream, or a negative number.  On _isStop the
\* thread leaves its loop without ending the handler.
RxReceive(c) ==
    /\ ~crashed
    /\ rx[c].pc = "recv"
    /\ LET o == owner[rx[c].handle] IN
       \/ MayCrash
       \/ /\ o # None => peer[o] = "rst"
          /\ RxLoop(c)
          /\ UNCHANGED <<handler, stream, owner>> /\ RxFrame
       \/ /\ o # None /\ peer[o] \in {"up", "fin"}
          /\ \/ taken[o] < sent[o]
             \/ peer[o] = "fin" /\ cut[o] /\ taken[o] = sent[o]
          /\ taken' = [taken EXCEPT ![o] = @ + 1]
          /\ credit' = [credit EXCEPT ![c] = IF isStop THEN @ - 1 ELSE @]
          /\ rx' = [rx EXCEPT ![c].pc = "insert",
                              ![c].pkt = [from |-> o, n |-> taken[o] + 1]]
          /\ UNCHANGED <<handler, owner>> /\ RxFrame
       \/ /\ o # None /\ peer[o] = "fin"
          /\ taken[o] = sent[o] + (IF cut[o] THEN 1 ELSE 0)
          /\ RxGoto(c, "close")
          /\ UNCHANGED <<handler, stream, owner>> /\ RxFrame

\* Mutant: the queue gets the packet after it was moved from.
MutInsertMovedPacket(c) ==
    /\ ~crashed
    /\ rx[c].pc = "insert"
    /\ handler[c].pc # "sleep"
    /\ handler' = [handler EXCEPT ![c].queue = Append(@, None)]
    /\ RxLoop(c)
    /\ UNCHANGED <<stream, owner>> /\ RxFrame

\* Mutant: the thread tests _isStop only when it has nothing to insert.
MutInsertWithoutTest(c) ==
    /\ ~crashed
    /\ rx[c].pc = "insert"
    /\ handler[c].pc # "sleep"
    /\ handler' = [handler EXCEPT ![c].queue = Append(@, rx[c].pkt)]
    /\ rx' = [rx EXCEPT ![c].pc = "recv", ![c].pkt = None]
    /\ UNCHANGED <<stream, owner>> /\ RxFrame

\* InsertPacket: waits while the handler thread sleeps holding the lock.
RxInsert(c) ==
    /\ ~crashed
    /\ rx[c].pc = "insert"
    /\ handler[c].pc # "sleep"
    /\ handler' = [handler EXCEPT ![c].queue = Append(@, rx[c].pkt)]
    /\ RxLoop(c)
    /\ UNCHANGED <<stream, owner>> /\ RxFrame

\* Mutant: no break after the connection closed; the thread receives again.
MutCloseWithoutBreak(c) ==
    /\ ~crashed
    /\ rx[c].pc = "close"
    /\ owner' = [owner EXCEPT ![rx[c].handle] = None]
    /\ RxLoop(c)
    /\ UNCHANGED <<handler, stream>> /\ RxFrame

\* CTCPServer::Disconnect: when shutdown fails the handle stays open.
RxClose(c) ==
    /\ ~crashed
    /\ rx[c].pc = "close"
    /\ \/ MayCrash
       \/ /\ RxGoto(c, "end")
          /\ \/ owner' = [owner EXCEPT ![rx[c].handle] = None]
             \/ UNCHANGED owner
          /\ UNCHANGED <<handler, stream>> /\ RxFrame

\* Mutant: End joins without setting the handler's _isStop.
MutEndWithoutStop(c) ==
    /\ ~crashed
    /\ rx[c].pc = "end"
    /\ RxGoto(c, "join")
    /\ UNCHANGED <<handler, stream, owner>> /\ RxFrame

\* CNetworkServerHandler::End: _isStop of the handler, then join its thread.
RxEnd(c) ==
    /\ ~crashed
    /\ rx[c].pc = "end"
    /\ handler' = [handler EXCEPT ![c].stop = TRUE]
    /\ RxGoto(c, "join")
    /\ UNCHANGED <<stream, owner>> /\ RxFrame

\* Mutant: End detaches the handler thread instead of joining it.
MutEndWithoutJoin(c) ==
    /\ ~crashed
    /\ rx[c].pc = "join"
    /\ RxGoto(c, "done")
    /\ UNCHANGED <<handler, stream, owner>> /\ RxFrame

RxJoin(c) ==
    /\ ~crashed
    /\ rx[c].pc = "join"
    /\ handler[c].pc = "done"
    /\ RxGoto(c, "done")
    /\ UNCHANGED <<handler, stream, owner>> /\ RxFrame

Rx(c) == \/ RxStart(c) \/ RxReceive(c) \/ RxInsert(c)
         \/ RxClose(c) \/ RxEnd(c) \/ RxJoin(c)

----------------------------------------------------------------------------
(* The handler thread of connection c: CNetworkServerHandler::Main. *)

HandlerFrame == UNCHANGED <<env, stream, owner, network, listen, rx, app,
                            crashed>>

\* Mutant: an empty queue ends the loop.
MutEmptyQueueEndsLoop(c) ==
    /\ ~crashed
    /\ handler[c].pc = "loop"
    /\ handler' =
           IF handler[c].stop \/ handler[c].queue = <<>>
           THEN [handler EXCEPT ![c].pc = "done"]
           ELSE [handler EXCEPT ![c].pc = "func",
                                ![c].pkt = Head(handler[c].queue),
                                ![c].queue = Tail(handler[c].queue)]
    /\ UNCHANGED history /\ HandlerFrame

\* The loop: on the handler's own _isStop the thread ends, whatever is queued.
\* Else it locks, and takes the front packet and unlocks, or sleeps holding the
\* lock.
HandlerLoop(c) ==
    /\ ~crashed
    /\ handler[c].pc = "loop"
    /\ handler' =
           IF handler[c].stop THEN [handler EXCEPT ![c].pc = "done"]
           ELSE IF handler[c].queue = <<>>
           THEN [handler EXCEPT ![c].pc = "sleep"]
           ELSE [handler EXCEPT ![c].pc = "func",
                                ![c].pkt = Head(handler[c].queue),
                                ![c].queue = Tail(handler[c].queue)]
    /\ UNCHANGED history /\ HandlerFrame

HandlerWake(c) ==
    /\ ~crashed
    /\ handler[c].pc = "sleep"
    /\ handler' = [handler EXCEPT ![c].pc = "loop"]
    /\ UNCHANGED history /\ HandlerFrame

\* Mutant: the handlers share one socket field, the last one accepted.
MutSharedSocket(c) ==
    /\ ~crashed
    /\ handler[c].pc = "func"
    /\ handler' = [handler EXCEPT ![c].pc = "loop", ![c].pkt = None]
    /\ handled' = [handled EXCEPT ![c] = Append(@, handler[c].pkt)]
    /\ LET last == IF listen.conn = None THEN c ELSE listen.conn
           to == SendTo(rx[last].handle) IN
       \/ UNCHANGED strays
       \/ /\ to \notin {None, c}
          /\ strays' = strays \cup
                 {[req |-> c, to |-> to,
                   closed |-> rx[c].pc \in {"end", "join", "done"}]}
    /\ HandlerFrame

\* The registered function is given the handle and the packet.  It may answer
\* with ServerResponse on that handle.
HandlerFunc(c) ==
    /\ ~crashed
    /\ handler[c].pc = "func"
    /\ \/ MayCrash
       \/ /\ handler' = [handler EXCEPT ![c].pc = "loop", ![c].pkt = None]
          /\ handled' = [handled EXCEPT ![c] = Append(@, handler[c].pkt)]
          /\ LET to == SendTo(rx[c].handle) IN
             \/ UNCHANGED strays
             \/ /\ to \notin {None, c}
                /\ strays' = strays \cup
                       {[req |-> c, to |-> to,
                         closed |-> rx[c].pc \in {"end", "join", "done"}]}
          /\ HandlerFrame

Handler(c) == HandlerLoop(c) \/ HandlerWake(c) \/ HandlerFunc(c)

----------------------------------------------------------------------------
Next == \/ App
        \/ Listen
        \/ \E c \in Clients : Peer(c) \/ Rx(c) \/ Handler(c)

Spec == Init /\ [][Next]_vars

\* Every thread keeps running, but nothing makes accept fail while its socket
\* is open, nothing makes undefined behaviour crash, and nothing gives the
\* handler's lock to a thread that waits for it: RxInsert is enabled only now
\* and then, and weak fairness does not take it.  DisConnect, once called, goes
\* on.
Fairness ==
    /\ WF_vars(ListenCall)
    /\ WF_vars(/\ \/ ListenOpen \/ ListenBind \/ ListenAccept \/ ListenInsert
                  \/ listenSocket = "none" /\ ListenFail
               /\ ~crashed')
    /\ WF_vars(/\ DisConnectReset \/ DisConnectJoin \/ BroadcastNext
               /\ ~crashed')
    /\ \A c \in Clients : WF_vars(Rx(c) /\ ~crashed')
                          /\ WF_vars(Handler(c) /\ ~crashed')

FairSpec == Spec /\ Fairness

----------------------------------------------------------------------------
(* Properties. *)

\* The packets given to the handler function of a connection are the frames its
\* client sent, in order, with none skipped, repeated or taken from another
\* connection, whatever the listen thread does with a closed handle and
\* whatever DisConnect destroys (ServerReceiveThread, InsertPacket, Main).
FifoPerConnection ==
    \A c \in Clients : \A i \in DOMAIN handled[c] :
        handled[c][i] = [from |-> c, n |-> i]

\* Every accepted connection keeps its own entry of _mapIdToClientInfo: no
\* entry, with its joinable receive thread, is ever assigned over
\* (ServerListenThread's search for a free _dwID).
EntryPerConnection ==
    \A c \in Clients :
        rx[c].pc # "none" /\ listen.conn # c =>
            \E id \in DOMAIN clientInfo : clientInfo[id].conn = c

\* A handler function's answer reaches another client than the one that asked
\* only once the receive thread has closed the handle: ServerReceiveThread
\* closes it before it ends the handler, so nothing stronger holds.
ReplyReachesRequester ==
    \A r \in strays : r.closed

\* Once ServerReceiveThread has returned from End the handler function is not
\* called again for that connection.
NoCallAfterEnd ==
    [][\A c \in Clients : rx[c].pc = "done" /\ handler[c].stop
                              => UNCHANGED handled[c]]_vars

\* Once DisConnect has set _isStop, a connection on which a recv is under way
\* gives at most the frame of that recv, and no other gives any, however often
\* Connect is called afterwards.  What was received before still goes to the
\* handler function: DisConnect neither stops nor joins the threads that serve
\* the connections (DisConnect, ServerReceiveThread).
StopEndsReceiving == \A c \in Clients : credit[c] >= 0

\* When ServerAllClientSend returns, every client that was in the map when it
\* started and whose connection is still open has been sent the message.
BroadcastReachesAll ==
    [][app.pc = "send" /\ app'.pc = "idle" =>
           \A c \in app.due : SendTo(rx[c].handle) = c => c \in app.got]_vars

\* A receive thread that waits for ever for the handler's lock, which Main holds
\* while it sleeps and takes again at once.
Starved(c) == rx[c].pc = "insert"

\* A frame sent on a connection that is being served, and that stays up, is at
\* last given to the handler function, unless the server is stopped: what can
\* keep it back is only the handler's lock.
PacketsHandled ==
    \A c \in Clients : \A n \in 1 .. MaxPackets :
        (rx[c].pc # "none" /\ sent[c] >= n)
            ~> \/ Len(handled[c]) >= n \/ peer[c] # "up" \/ isStop \/ crashed
               \/ []Starved(c)

\* When a client closes its connection, and does not reset it, both threads that
\* serve it end: End waits for a handler that polls and cannot miss _isStop.
\* Again only the handler's lock can keep a frame that came before the close.
ClosedIsCleanedUp ==
    \A c \in Clients :
        (peer[c] = "fin")
            ~> \/ rx[c].pc = "done" /\ handler[c].pc = "done"
               \/ peer[c] = "rst" \/ isStop \/ crashed
               \/ []Starved(c)

\* DisConnect returns: destroying the CTCPServer closes the listen socket, which
\* wakes the listen thread it then joins.  The exception is a listen thread that
\* had entered Listen and not made its socket when the server was destroyed.
DisConnectReturns ==
    (app.pc = "reset")
        ~> (app.pc = "idle" \/ crashed \/ listenSocket = "orphan")
=============================================================================
