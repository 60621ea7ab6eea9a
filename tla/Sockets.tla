------------------------------ MODULE Sockets -------------------------------
(***************************************************************************)
(* Who owns which handle, TLS session and TLS context: CTCPSSLClient on    *)
(* its CTCPClient, and CTCPSSLServer on its CTCPServer with the one        *)
(* SSLSocket its caller uses (Network/include/Socket, Windows branch).     *)
(* Each object is used by one thread, as its README demands; the process   *)
(* has other threads that open and close handles.                          *)
(*                                                                         *)
(* An attempt is a socket() of the client or an accept() of the server;    *)
(* its number names the connection, the context and the session made for   *)
(* it.  The number 0 is nullptr.  The system gives a number of a closed    *)
(* handle out again; it and OpenSSL are external.                          *)
(***************************************************************************)
EXTENDS Integers, FiniteSets

CONSTANTS Handles,    \* the numbers the system gives out
          None,       \* no handle: INVALID_SOCKET
          Other,      \* in the table: a handle of some other part of the process
          Listener,   \* in the table: the socket the server listens on
          MaxConns    \* bound on the attempts

ASSUME SocketsAssumption ==
    /\ MaxConns \in Nat
    /\ None \notin Handles
    /\ None # Other /\ None # Listener /\ Other # Listener
    /\ \A k \in 0 .. MaxConns : k # None /\ k # Other /\ k # Listener

Conns == 1 .. MaxConns
Ptr   == 0 .. MaxConns

VARIABLES
    os,       \* the system's table: what each number stands for
    cl,       \* the client object, and where its thread is
    sv,       \* the server object and its caller's SSLSocket
    ctxs,     \* contexts that SSL_CTX_new made and SSL_CTX_free did not release
    fds,      \* per attempt the descriptor of its session, None if there is none
    n,        \* attempts so far
    fate,     \* history: what became of an attempt that may leave something
    sent      \* history: the last record of the client: session, who got it

vars == <<os, cl, sv, ctxs, fds, n, fate, sent>>

Owners == Conns \cup {None, Other, Listener}

\* refused: connect() failed.  bare: no session was made on its context.
\* unsent: shutdown() failed.  again: the next Connect or Listen came without
\* a Disconnect.  robbed: another object closed its handle.
Fates == {"refused", "bare", "unsent", "again", "robbed"}

\* up: m_eStatus = CONNECTED.  sock, ssl, ctx: m_SockFd (and m_ConnectSocket),
\* m_pSSL, m_pCTXSSL.  k: the attempt that sock was opened for.  good: the last
\* Connect returned true.
Client == [pc : {"idle", "tcp", "tls", "crashed", "gone"}, up : BOOLEAN,
           sock : Handles \cup {None}, k : Ptr, ssl : Ptr, ctx : Ptr,
           good : BOOLEAN]

\* addr: m_pResultAddrInfo is there.  listen: m_ListenSocket.  held: the caller
\* has an accepted socket it did not disconnect.
Server == [pc : {"idle", "accept", "tls", "crashed", "gone"}, addr : BOOLEAN,
           listen : Handles \cup {None}, held : BOOLEAN,
           sock : Handles \cup {None}, k : Ptr, ssl : Ptr, ctx : Ptr,
           good : BOOLEAN]

TypeOK ==
    /\ os \in [Handles -> Owners]
    /\ cl \in Client /\ sv \in Server
    /\ ctxs \subseteq Conns
    /\ fds \in [Conns -> Handles \cup {None}]
    /\ n \in Ptr
    /\ fate \in [Conns -> SUBSET Fates]
    /\ sent \in [of : Ptr, to : Owners]

Init ==
    /\ os = [h \in Handles |-> None]
    /\ cl = [pc |-> "idle", up |-> FALSE, sock |-> None, k |-> 0, ssl |-> 0,
             ctx |-> 0, good |-> FALSE]
    /\ sv = [pc |-> "idle", addr |-> TRUE, listen |-> None, held |-> FALSE,
             sock |-> None, k |-> 0, ssl |-> 0, ctx |-> 0, good |-> FALSE]
    /\ ctxs = {} /\ fds = [k \in Conns |-> None]
    /\ n = 0
    /\ fate = [k \in Conns |-> {}]
    /\ sent = [of |-> 0, to |-> None]

----------------------------------------------------------------------------
(* The system and OpenSSL: external. *)

Free(h) == os[h] = None

\* closesocket of a number, whoever has it now
Close(h) == os' = [x \in Handles |-> IF x = h THEN None ELSE os[x]]

Running == cl.pc # "crashed"

\* A null pointer is read: the process ends.
Crash ==
    /\ cl' = [cl EXCEPT !.pc = "crashed"]
    /\ sv' = [sv EXCEPT !.pc = "crashed"]

OtherOpens ==
    /\ Running
    /\ \E h \in Handles : Free(h) /\ os' = [os EXCEPT ![h] = Other]
    /\ UNCHANGED <<cl, sv, ctxs, fds, n, fate, sent>>

OtherCloses ==
    /\ Running
    /\ \E h \in Handles : os[h] = Other /\ Close(h)
    /\ UNCHANGED <<cl, sv, ctxs, fds, n, fate, sent>>

\* A record goes out on the descriptor of the session, whoever has it now.
Record(o) ==
    sent' = [of |-> o.ssl, to |-> IF fds[o.ssl] = None THEN None
                                  ELSE os[fds[o.ssl]]]

Fated(k, what) ==
    fate' = [fate EXCEPT ![k] = @ \cup what]

\* shutdown() and closesocket() of the number h, which an object noted for its
\* connection k: shutdown() fails where the number is free or listens, and may
\* fail anywhere; then the socket stays.
Drop(h, k, ok, what) ==
    /\ ok => h \in Handles /\ os[h] \notin {None, Listener}
    /\ IF ok THEN Close(h) ELSE UNCHANGED os
    /\ fate' = [j \in Conns |->
                  fate[j] \cup (IF j # k THEN {}
                               ELSE what \cup IF ok THEN {} ELSE {"unsent"})
                          \cup (IF ok /\ j # k /\ os[h] = j THEN {"robbed"}
                               ELSE {})]

----------------------------------------------------------------------------
(* What both classes use: ASecureSocket. *)

\* Mutant: the context is not freed with the session.
MutKeepContext(o) ==
    /\ UNCHANGED ctxs
    /\ fds' = [k \in Conns |-> IF k = o.ssl THEN None ELSE fds[k]]

\* ShutdownSSL sends close_notify and frees the session and the context; it
\* leaves m_pCTXSSL as it is.  Only the session tells whether there is anything
\* to free.
ShutdownSSL(o) ==
    /\ ctxs' = IF o.ssl = 0 THEN ctxs ELSE ctxs \ {o.ctx}
    /\ fds' = [k \in Conns |-> IF k = o.ssl THEN None ELSE fds[k]]

\* Mutant: m_pSSL is not set to null.
MutKeepPointer(o) == o

AfterShutdown(o) == [o EXCEPT !.ssl = 0]

\* SetUpCtxClient or SetUpCtxServer; then certificate, CA and key; then the
\* session.  The outcomes: no context, a file that does not load, a handshake
\* that fails, success.
Outcomes == {"noctx", "files", "handshake", "ok"}

SetUp(o, outcome) ==
    /\ ctxs' = IF outcome = "noctx" THEN ctxs ELSE ctxs \cup {o.k}
    /\ fds' = IF outcome \in {"noctx", "files"} THEN fds
              ELSE [fds EXCEPT ![o.k] = o.sock]

\* Mutant: a context that could not be made is noted as INVALID_SOCKET is.
MutCtxInvalid(o, outcome) ==
    [o EXCEPT !.pc = "idle",
              !.ctx = IF outcome = "noctx" THEN -1 ELSE o.k,
              !.ssl = IF outcome \in {"noctx", "files"} THEN @ ELSE o.k,
              !.good = outcome = "ok"]

AfterSetUp(o, outcome) ==
    [o EXCEPT !.pc = "idle",
              !.ctx = IF outcome = "noctx" THEN 0 ELSE o.k,
              !.ssl = IF outcome \in {"noctx", "files"} THEN @ ELSE o.k,
              !.good = outcome = "ok"]

----------------------------------------------------------------------------
(* CTCPSSLClient and its CTCPClient *)

\* CTCPClient::Disconnect of a client that is connected: the status first, then
\* shutdown(), which may fail and then leaves the socket as it is.
TcpDown(c, ok) ==
    [c EXCEPT !.up = FALSE, !.good = FALSE,
              !.sock = IF ok THEN None ELSE @]

\* CTCPSSLClient::Connect calls CTCPClient::Connect, which closes the last
\* connection, and does not look at the result.  The session stays.
ClientConnect ==
    /\ cl.pc = "idle"
    /\ IF cl.up
       THEN \E ok \in BOOLEAN :
              /\ cl' = [TcpDown(cl, ok) EXCEPT !.pc = "tcp"]
              /\ Drop(cl.sock, cl.k, ok, {"again"})
       ELSE cl' = [cl EXCEPT !.pc = "tcp", !.good = FALSE]
            /\ UNCHANGED <<os, fate>>
    /\ UNCHANGED <<sv, ctxs, fds, n, sent>>

\* getaddrinfo() fails, or socket() does, which leaves INVALID_SOCKET.
ClientNoSocket ==
    /\ cl.pc = "tcp"
    /\ \E sock \in {cl.sock, None} :
         cl' = [cl EXCEPT !.pc = "idle", !.sock = sock]
    /\ UNCHANGED <<os, sv, ctxs, fds, n, fate, sent>>

\* setsockopt() fails: the socket is closed, its number kept.
ClientNoOption ==
    /\ cl.pc = "tcp"
    /\ \E h \in Handles :
         Free(h) /\ cl' = [cl EXCEPT !.pc = "idle", !.sock = h]
    /\ UNCHANGED <<os, sv, ctxs, fds, n, fate, sent>>

\* connect(): when it fails the socket stays open.
ClientSocket ==
    /\ cl.pc = "tcp" /\ n < MaxConns
    /\ n' = n + 1
    /\ \E h \in Handles, ok \in BOOLEAN :
         /\ Free(h)
         /\ os' = [os EXCEPT ![h] = n + 1]
         /\ cl' = [cl EXCEPT !.pc = IF ok THEN "tls" ELSE "idle", !.up = ok,
                             !.sock = h, !.k = n + 1]
         /\ Fated(n + 1, IF ok THEN {} ELSE {"refused"})
    /\ UNCHANGED <<sv, ctxs, fds, sent>>

\* The rest of CTCPSSLClient::Connect; the TCP connection stays up in any case.
ClientTls ==
    /\ cl.pc = "tls"
    /\ \E outcome \in Outcomes :
         /\ SetUp(cl, outcome)
         /\ cl' = AfterSetUp(cl, outcome)
         /\ Fated(cl.k, IF outcome = "files" THEN {"bare"} ELSE {})
    /\ UNCHANGED <<os, sv, n, sent>>

\* Send and Receive look at the status only: after a Connect that failed there
\* may be no session, and the process ends, or one of an earlier connection.
ClientSend ==
    /\ cl.pc = "idle" /\ cl.up
    /\ IF cl.ssl = 0
       THEN Crash /\ UNCHANGED sent
       ELSE Record(cl) /\ UNCHANGED <<cl, sv>>
    /\ UNCHANGED <<os, ctxs, fds, n, fate>>

\* Mutant: the status is not looked at.
MutDisconnectAnyway ==
    /\ cl.pc = "idle"
    /\ cl' = TcpDown(AfterShutdown(cl), TRUE)
    /\ Close(cl.sock)
    /\ ShutdownSSL(cl)
    /\ UNCHANGED <<sv, n, fate, sent>>

\* Mutant: the connection is closed before close_notify is sent.
MutCloseFirst ==
    /\ cl.pc = "idle" /\ cl.up
    /\ sent' = IF cl.ssl = 0 THEN sent ELSE [of |-> cl.ssl, to |-> None]
    /\ ShutdownSSL(cl)
    /\ cl' = TcpDown(AfterShutdown(cl), TRUE)
    /\ Close(cl.sock)
    /\ UNCHANGED <<sv, n, fate>>

\* CTCPSSLClient::Disconnect, and the destructor, which calls it.
ClientDisconnect ==
    /\ cl.pc = "idle"
    /\ \E pc \in {"idle", "gone"}, ok \in BOOLEAN :
         IF cl.up
         THEN /\ IF cl.ssl = 0 THEN UNCHANGED sent ELSE Record(cl)
              /\ ShutdownSSL(cl)
              /\ cl' = [TcpDown(AfterShutdown(cl), ok) EXCEPT !.pc = pc]
              /\ Drop(cl.sock, cl.k, ok, {})
         ELSE /\ cl' = [cl EXCEPT !.pc = pc]
              /\ UNCHANGED <<os, ctxs, fds, fate, sent>>
    /\ UNCHANGED <<sv, n>>

ClientStep ==
    \/ ClientConnect \/ ClientNoSocket \/ ClientNoOption \/ ClientSocket
    \/ ClientTls \/ ClientSend \/ ClientDisconnect

----------------------------------------------------------------------------
(* CTCPSSLServer and its CTCPServer *)

\* CTCPServer::Listen forgets the caller's socket, and makes its own if it has
\* none: socket(), setsockopt(), bind(), each of which may fail.  The address
\* is freed in any case, and socket() without it ends the process.
ServerListen ==
    /\ sv.pc = "idle"
    /\ LET s == [sv EXCEPT !.sock = None, !.held = FALSE, !.good = FALSE]
       IN  \/ /\ sv.listen # None
              /\ sv' = [s EXCEPT !.pc = "accept"] /\ UNCHANGED <<os, cl>>
           \/ /\ sv.listen = None /\ ~ sv.addr
              /\ Crash /\ UNCHANGED os
           \/ /\ sv.listen = None /\ sv.addr
              /\ sv' = [s EXCEPT !.addr = FALSE] /\ UNCHANGED <<os, cl>>
           \/ /\ sv.listen = None /\ sv.addr /\ UNCHANGED cl
              /\ \E h \in Handles :
                   /\ Free(h)
                   /\ os' = [os EXCEPT ![h] = Listener]
                   /\ sv' = [s EXCEPT !.pc = "accept", !.addr = FALSE,
                                      !.listen = h]
    /\ IF sv.held THEN Fated(sv.k, {"again"}) ELSE UNCHANGED fate
    /\ UNCHANGED <<ctxs, fds, n, sent>>

\* listen() fails: its socket is closed.
ServerListenFails ==
    /\ sv.pc = "accept"
    /\ sv' = [sv EXCEPT !.pc = "idle", !.listen = None]
    /\ Close(sv.listen)
    /\ UNCHANGED <<cl, ctxs, fds, n, fate, sent>>

\* SelectSocket times out or fails, or accept() does.
ServerNobody ==
    /\ sv.pc = "accept"
    /\ sv' = [sv EXCEPT !.pc = "idle"]
    /\ UNCHANGED <<os, cl, ctxs, fds, n, fate, sent>>

ServerAccept ==
    /\ sv.pc = "accept" /\ n < MaxConns
    /\ n' = n + 1
    /\ \E h \in Handles :
         /\ Free(h)
         /\ os' = [os EXCEPT ![h] = n + 1]
         /\ sv' = [sv EXCEPT !.pc = "tls", !.sock = h, !.k = n + 1,
                             !.held = TRUE]
    /\ UNCHANGED <<cl, ctxs, fds, fate, sent>>

\* The rest of CTCPSSLServer::Listen: a failed handshake is shut down at once,
\* the socket stays with the caller in any case.
ServerTls ==
    /\ sv.pc = "tls"
    /\ \E outcome \in Outcomes :
         IF outcome = "handshake"
         THEN /\ sv' = AfterShutdown(AfterSetUp(sv, outcome))
              /\ UNCHANGED <<ctxs, fds, fate>>
         ELSE /\ SetUp(sv, outcome)
              /\ sv' = AfterSetUp(sv, outcome)
              /\ Fated(sv.k, IF outcome = "files" THEN {"bare"} ELSE {})
    /\ UNCHANGED <<os, cl, n, sent>>

\* CTCPSSLServer::Disconnect of the caller's socket.  The number is left in
\* place, and nothing tells a second call of it, when the number may be anybody's.
ServerDisconnect ==
    /\ sv.pc = "idle"
    /\ ShutdownSSL(sv)
    /\ sv' = [AfterShutdown(sv) EXCEPT !.held = FALSE, !.good = FALSE]
    /\ \E ok \in BOOLEAN : Drop(sv.sock, sv.k, ok, {})
    /\ UNCHANGED <<cl, n, sent>>

\* CTCPServer::~CTCPServer
ServerEnds ==
    /\ sv.pc = "idle"
    /\ sv' = [sv EXCEPT !.pc = "gone"]
    /\ Close(sv.listen)
    /\ UNCHANGED <<cl, ctxs, fds, n, fate, sent>>

ServerStep ==
    \/ ServerListen \/ ServerListenFails \/ ServerNobody \/ ServerAccept
    \/ ServerTls \/ ServerDisconnect \/ ServerEnds

Next == ClientStep \/ ServerStep \/ OtherOpens \/ OtherCloses

Spec == Init /\ [][Next]_vars

----------------------------------------------------------------------------
(* Properties. *)

Again(k)  == "again" \in fate[k]
Robbed(k) == k # 0 /\ "robbed" \in fate[k]

\* A handle is closed by the one it was opened for, although both classes keep
\* numbers of sockets that are closed and the system gives these out again: a
\* stranger's handle by the stranger, a connection's by the object that holds
\* it, the listening socket by the server.  The code takes another's only in a
\* server's Disconnect of a socket that was disconnected before, and from then
\* on in the one Disconnect of an object that lost its handle in this way.
ClosesOwnHandle ==
    [][\A h \in Handles : os[h] # None /\ os'[h] = None =>
         \/ os[h] = Other /\ UNCHANGED <<cl, sv>>
         \/ os[h] = cl.k /\ UNCHANGED sv
         \/ os[h] \in {sv.k, Listener} /\ UNCHANGED cl
         \/ h = sv.sock /\ ~sv.held /\ UNCHANGED cl
         \/ h = cl.sock /\ cl.up /\ Robbed(cl.k) /\ UNCHANGED sv
         \/ h = sv.sock /\ sv.held /\ Robbed(sv.k) /\ UNCHANGED cl]_vars

\* The objects point to sessions that are alive; a session's descriptor is its
\* own connection's as long as its owner has not begun another Connect or Listen
\* without a Disconnect and nobody else closed it; and after a call that returned
\* true session, context and socket are of one and the same connection.
SessionFitsConnection ==
    /\ \A o \in {cl, sv} :
         /\ o.ssl # 0 => fds[o.ssl] # None
         /\ o.good => o.ssl = o.k /\ o.ctx = o.k /\ o.k \in ctxs
                      /\ fds[o.k] = o.sock
    /\ \A k \in Conns :
         fds[k] # None => os[fds[k]] = k \/ Again(k) \/ Robbed(k)

Held(k) == (cl.up /\ cl.k = k) \/ (sv.held /\ sv.k = k)

\* What is still open belongs to a connection that its object holds.  The code
\* loses the socket of a connect() or shutdown() that failed, the context of a
\* connection whose files did not load (its Disconnect frees nothing then), and
\* what a connection had that was followed by another Connect or Listen without
\* a Disconnect; nothing else, whatever fails and in whatever order.
NothingLost ==
    \A k \in Conns : ~ Held(k) =>
      /\ (\E h \in Handles : os[h] = k) =>
           fate[k] \cap {"refused", "unsent", "again"} # {}
      /\ fds[k] # None => "again" \in fate[k]
      /\ k \in ctxs => fate[k] \cap {"bare", "again"} # {}

\* Every record of the client, close_notify included, goes to the peer of its
\* session, unless the client connected again without a Disconnect, or its
\* handle was closed by another: the session it then still has writes to a
\* number that may be anybody's.
RecordsReachPeer ==
    sent.of # 0 => sent.to = sent.of \/ Again(sent.of) \/ Robbed(sent.of)
=============================================================================
