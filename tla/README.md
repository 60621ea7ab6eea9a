# A verification project for SharedLibs

SharedLibs is a C++ library for Windows programs: TCP networking, a registry of
background work, SQLite, Qt widgets, strings, files, services. It has no tests;
what it promises is in comments (mostly Korean) and in
`Network/include/README.md`. This directory models the parts of it that run
threads, keep state or own handles, checks the models with TLC, and proves with
TLAPS, for every value of the constants, almost every safety property that is
checked.

## 1. Inventory

### The networking core

| Part | State | Operations | Talks to |
|---|---|---|---|
| `CNetwork`, server side (`Network/SharedNetwork.cpp`) | `_isStop`, `_pTCPServer`, `_thServerListenThread`, `_mapIdToClientInfo`, `_dwID`, `_msgID` | `Connect`, `DisConnect`, `ServerListenThread`, `ServerReceiveThread`, `ServerSend`, `ServerResponse`, `ServerAllClientSend` | `CTCPServer`, one `CNetworkServerHandler` per connection |
| `CNetworkServerHandler` | `_isStop`, `_queuePacket`, `_lck`, `_th`, `_connectionClient`, `_func` | `Start`, `InsertPacket`, `End`, `Main` | the registered function, which may call `ServerResponse` |
| `CNetwork`, client side | `_isStop`, `_pTCPClient`, `_thClientReceiveThread`, `_mapMsgIDToMSG`, `_msgID` | `Connect`, `DisConnect`, `ClientSend`, `ClientReceiveWait`, `ClientReceiveThread` | `CTCPClient` |
| Message frame | none | `convertSendMsg`, `convertReceiveMsg` | both sides, and `Receive`, which decodes the size a second time |
| `CTCPServer`, `CTCPClient` (`Network/include/Socket`) | sockets, status, resolved address | `Connect`, `Listen`, `Receive`, `Send`, `Disconnect`, destructors | Winsock |
| SSL sockets (`ASecureSocket`, `CTCPSSLServer`, `CTCPSSLClient`) | `m_pSSL`, `m_pCTXSSL` on top of the socket | `Connect`, `Listen`, `Send`, `Receive`, `ShutdownSSL`, `Disconnect`, destructors | OpenSSL |
| `CNetworkMgr` | `_mapNameToNetworkInfo` | `NewConnection`, `GetConnection`, `CloseConnection` | `CNetwork`; reached through `Singleton` |

A server has one thread that calls its methods, one listen thread, and two
threads per connection: the receive thread takes frames from the socket and
puts them in the queue of a handler, whose thread gives them to the registered
function. These threads share `_isStop`, `_pTCPServer` and `_mapIdToClientInfo`
without a lock; only the queue has one. A client has its callers and a receive
thread, which share `_mapMsgIDToMSG` and `_msgID` without a lock.

What is hard: a handle that is closed while a handler still answers on it, and
reused by the system; `DisConnect` destroying the server object under running
threads; joins that return only because something else was closed first; frames
that arrive in pieces; answers that come out of order or after their wait gave
up; pushes that share the numbers of requests; a flag `_isStop` that is never
set back; early returns that leave a socket, a session or a context behind, and
numbers of closed handles that the system gives out again.

What makes it correct: a handler gets the frames of its own connection, all, in
order and once; no thread is lost and no entry overwritten; an answer reaches
the request it belongs to; a closed connection's threads end; `DisConnect`
returns, and a connection gives at most the frame of a `recv` that is under way
after it; a session writes to its own connection,
nobody closes a handle that is not his, and what is left open after a
connection is known exactly.

### Background work

`cSWorker` (`Utils/SharedWorker.cpp`): `_mapWorkItem`, one `S_WORK_MGR` with a
thread per named item; `Register`, `RegisterAndRunning`, `Run`, `DeRegister`,
`worker`. Only `getWorkItem` and `setWorkItem` lock; their callers keep
references into the map after the lock is released. Hard: two callers using the
same name, `DeRegister` against a running worker, counting runs. Correct: a
worker's reference stays good (unless another caller took the node away under
the `Run` that started it), an item runs as often as configured and at most once
more after it was told to stop, `DeRegister` returns.

### The rest

| Part | State and operations | What would make it correct |
|---|---|---|
| SQLite wrapper (`Sqlite/SharedSQLite.cpp`) | a map of databases; `InitDB`, `GetDB`, `Close`; transaction objects with `Begin`, `Commit`, `RollBack`; statements that write; statements that read, with a cursor | the schema is made whole or not at all; what was settled survives and what was rolled back does not return |
| `Singleton` (`Singleton.h`) | `_instance`, made once under `call_once`; `GetInstance`, `DestroyInstance` | nobody is given a destroyed object, but in the middle of a destroy |
| File download (`Network/SharedFileDownload.cpp`) | `_isProcesss`, `_ulDownLoadSize`, a file filled in pieces; `Init`, `DownloadFile`, `GetDownLoadSize`, `GetFileSize` | a finished download is what its server sent; a failed one leaves nothing, unless the system refuses to delete it |
| Toasts (`QT/SharedQToastNotification.cpp`) | the list `_vecNotification`, per toast a place, a timer and the pointer; `ShowToastMsg(s)`, `CloseToast`, `MoveStack`, `SetPosition`, `Clear` | the toasts stand in order, one place apart; a toast that has no room leaves the list |
| Qt switch, Qt helpers | widget state | - |
| Windows services (`Windows/SharedWinTools.cpp`) | none of their own: six functions for one service; beside them registry, privileges, 7-zip | stopping says yes only of a service that stopped; no handle stays open |
| Strings, formatting, utilities | pure functions | `split`, `replaceAll`, `VersionCheck`, `ConvertByte` compute what their names say |
| Processes, timers, files, logger | thin wrappers | - |
| nlohmann json, SQLite, protobuf | vendored | - |

`PROJECT.json` lists each of these with its status, and under `hazards` the
places in the code that are hard to test, with the properties aimed at them.

## 2. The modules

| Module | Models | Extends or uses |
|---|---|---|
| `NetServer` | the server side of `CNetwork`, its handlers, and `CTCPServer` as they use it | |
| `NetServer_proofs` | proofs about `NetServer`, which implements one `FrameChannel` per connection | `NetServer`, `FrameChannel`, TLAPS |
| `NetFrame` | how a size or an id becomes four bytes and a number again | |
| `FrameChannel` | the abstract specification: a channel of whole frames | |
| `TcpReceive` | `CTCPServer::Receive`, `CTCPClient::Receive` | `NetFrame`; shown to implement `FrameChannel` |
| `NetClient` | the client side of `CNetwork`, with the other end's sends | `NetFrame` |
| `Worker` | `cSWorker` | |
| `Sqlite` | `cSQLiteMgr::InitDB` and `Close`, `cDBTransaction`, statements that write, for one database | |
| `Sockets` | who owns which handle, session and context: `CTCPClient`, `CTCPServer`, their SSL forms and `ASecureSocket`, with every early return | |
| `Toast` | the toast manager and the events of its toasts | |
| `Registry` | `Singleton<CNetworkMgr>` and `CNetworkMgr` | |
| `Download` | `cFileDownloader::DownloadFile` and `RemoveFile` | |
| `Services` | the six functions for a Windows service | |
| `Text` | `VersionCheck` over `XString::split` and `operator<` | |
| `MCNetServer`, `MCNetClient`, `MCTcpReceive`, `MCWorker`, `MCSqlite`, `MCSockets` | the instances for TLC: symmetry, views | the module of the same name |
| `MCParts` | `Toast`, `Registry`, `Download`, `Services` and `Text` in one run | these five |
| `Induction` | lemmas about numbers and sequences: the least number of a set, induction for a set of numbers, a sequence and one more | TLAPS |
| `NetClient_proofs` | proofs about `NetClient` and about the words of `NetFrame` | `NetClient`, TLAPS |
| `TcpReceive_proofs` | proofs about `TcpReceive` | `TcpReceive`, `Induction` |
| `Worker_proofs`, `Sqlite_proofs`, `Sockets_proofs` | proofs about the module of that name | it, TLAPS |
| `Parts_proofs` | proofs about `Registry`, `Download`, `Services`, `Toast`, `Text` and how `MCParts` puts them together | `MCParts`, `Induction` |

The layers fit like this: `TcpReceive` shows on bytes when `Receive` gives its
caller whole frames, and what loses their boundaries; `NetServer` and `NetClient`
then take the frame as the unit of transfer, which is the case of a stream whose
boundaries are not lost. Both layers promise the same, `FrameChannel`: `TcpReceive`
implements it on bytes (`ImplementsChannel`), `NetServer` for each connection
(`ServesChannels`). `NetServer` keeps what the layer below can still do to it: a
frame cut short by a close, a connection that breaks, a `Receive` that fails.
`Sockets` looks at the same classes from the other side, as objects that own
handles, and leaves the data out. `Registry` takes a `CNetwork` as something
whose own thread runs (it listens or receives), which serves accepted
connections, and which was stopped. `DisConnect` sets `_isStop` and joins the
own thread; the threads that serve connections it leaves alone, and `NetServer`
(`StopEndsReceiving`) says what these still do. A `DisConnect` that does not
return, which `NetServer` has too, is left out of `Registry`.

### How state and actions correspond to the code

Every thread has a program counter. A step goes from one place where another
thread could notice the difference to the next; the test of `_isStop` at the
head of a loop is part of the step that returns to the loop. Code that ends the
process (assigning to a joinable `std::thread`, reading through a null pointer)
is a step to `crashed`, after which nothing happens. Code whose behaviour is
undefined (a method called on a destroyed object, a map erased under a reader)
may crash or go on.

`NetServer`: `app` is the thread that calls `Connect`, `DisConnect`
(`DisConnect`, `DisConnectReset`, `DisConnectJoin`; also when there is no server)
and `ServerAllClientSend` (`Broadcast`, then one `BroadcastNext` per entry);
`listen` is the listen thread. `CTCPServer::Listen` is `ListenCall` (the call
through the pointer), `ListenOpen` (`socket` and its options), `ListenBind`
(`bind`, `listen`) and `ListenAccept` or `ListenFail`, so that `DisConnect` can
destroy the server between them; `ListenInsert` is the rest of the loop.
`listenSocket` tells a socket that was made from one that listens, one that
failed (after which the address is freed), and one that was made for a server
that is gone. `rx[c]` and `handler[c]` are the two
threads of the connection that client `c` opened. `owner` is the operating
system's table from handles to connections: a closed handle may be given to
the next connection, and a thread that still holds the number then reaches the
other client. `handled`, `strays` and `credit` are history variables; `credit`
counts the frames that a connection may still give after `_isStop` was set.

`TcpReceive`: a frame is its payload size, and the stream a number of bytes
written and a number read. A place in the stream determines the byte found
there, so the size `Receive` works with is decoded from the bytes it really
took. Both classes have the same function; `RecvSize`, `RecvId`, `RecvBody`,
`RecvNoBufs` and `RecvFail` are its calls of `recv`. The first two may give fewer
bytes than they ask for, and fail: the code then adds -1 to its total and goes
on, with a size of 0 or with the size that was read, and may write the id in
front of its buffer. `lost` is a history variable: the size field came in pieces,
a `recv` of the header failed, or the retries ran out.

`NetClient`: `Connect` and `DisConnect` are the actions of one thread,
`SendBuild`, `Send` and `SendCount` are `ClientSend` (the number is read for the
message, and again for the result). `Wait`, `Poll` (`count`), `PollRead`
(`operator[]`) and `PollErase` are `ClientReceiveWait`, between whose unlocked
looks at the map the receive thread (`RxReceive`, `RxFile`) and other callers
may change it; looks that overlap a change may also end the process
(`MapRace`). The peer is the other end's
`CNetwork`: it answers in any order and pushes with `ServerSend` and
`ServerAllClientSend`.

`Worker`: a caller's `Run` is `Run` (the name is there), `RunGet` (`getWorkItem`),
`RunTest` (`isCycle`, and the start of the thread) and `RunAssign` (`thWorker`), or,
for an item that is not cyclic, `RunInvoke` (the future of its `std::async` waits
in its destructor, so the call is synchronous), which ends in the steps of
`DeRegister`: `DeRegister`, `DeRegisterGet`, `DeRegisterStop`, `DeRegisterJoin` and
`DeRegisterErase`. A join of a thread that is not joinable throws, which ends the
process or, when the caller catches it, the call. A node has a generation, so
that a reference to an erased node is not taken for one to a later node of that
name. `runs` and `lost`, the workers whose thread `Run` assigned to an erased node,
are history variables.

`Sqlite`: `InitOpen`, `InitJson`, `InitCreate` (one statement of the schema) and
`InitEnd` are `InitDB`; when a statement cannot be prepared the one before it
(`init.last`) runs once more. `TxNew`, `TxBegin`, `TxCommit`, `TxRollBack` and
`TxEnd` are the members of `cDBTransaction`. `file` is what the disk holds,
`db.view` what an open transaction sees; `Restart` keeps the first and loses
everything else. `scope`, `acked` and `gone` are history variables: what the
program has written, may count on, and has rolled back.

`Sockets`: `os` is the system's table from handles to what they stand for. An
attempt, one `socket()` of the client or one `accept()` of the server, numbers
the connection, the session and the context made for it; 0 is a null pointer.
`ClientConnect` to `ClientTls` are the parts of `CTCPSSLClient::Connect`
between which the stranger may act, each with the returns the code has there;
`ServerListen` to `ServerTls` are `CTCPSSLServer::Listen`. `Drop` closes a number
whoever has it by now, as the code does, and `ServerDisconnect` may be called
again for a number that was disconnected before. `OtherOpens` and
`OtherCloses` are the rest of the process. `fate` and `sent` are history
variables: which of the ways to leave something an attempt went, and where the
last record went.

`Toast`: one thread, one action per call or event. `Show` is `ShowToastMsg` or
`ShowToastMsgs` with `MoveStack` and `insertToast`; `TimeIsUp` and `Click` end in
`CloseToast`; `Enter` and `Leave` are `eventFilter`; `SetPosition` clears. The
unit of length is a toast with its space. A removal past the end of the list ends
the process or goes on with the list that is left.

`Registry`: `GetInstance` is `GetInstance` (the test), `CallOnce` (which makes the
object), `Publish` (which sets the pointer) and `Return` (the second read of the
pointer); `DestroyInstance` is `DestroyInstance`, `Delete` and `Reset`. The
unsynchronised reads and writes of the pointer are taken in program order, as the
x86 and x64 builds do. Undefined uses of the deleted object end the
process. `GetAndConnect` starts the own thread of a `CNetwork`, `Serve` and
`ServeEnds` those of its accepted connections.

`Download`: `Start`, `Open`, a turn of the loop (`WriteChunk` and `Count`, or
`TurnFails`, or `TurnEnds`), `CloseFile` and `RemoveFile` are `DownloadFile` in its
order; other downloaders, and whoever asks for the size, act in between.
`RemoveFile` may fail for a reason of the system's, which `kept` notes.
`Services`: `OpenManager`, `OpenService`, then the body of the function that was
called, then `CloseHandles`; `ServiceChanges` is the system. `Text`:
`VersionCheck` is the call up to its loop, `Compare` a turn.

## 3. What the runs check

| Run | Instance | Shows |
|---|---|---|
| `server` | 2 clients, 2 handles, 1 whole packet each and a cut one, 2 `Connect`s, 1 broadcast | types; each handler gets its own frames in order; no entry is overwritten; an answer strays only after the handle was closed; no call after `End`; after `DisConnect` set `_isStop` a connection gives at most one more frame; a broadcast reaches every open connection |
| `server_live` | 1 client, 2 packets | packets are handled and a closed connection is cleaned up, unless the handler's lock starves the receive thread; `DisConnect` returns, unless the listen thread was inside `Listen` and had no socket yet |
| `receive` | 2 frames of 0 or 3 payload bytes in any pieces, `recv`s of the header that fail, 1 retry | as long as nothing of `lost` happened, `Receive` returns exactly the frames, and 0 only at the end, and implements `FrameChannel` |
| `receive_size` | payloads of 3 or 8, where 8 + 8 is the sign bit | *violation*: the size is not the one written |
| `client` | 1 caller, 2 requests, 1 push, 2 connections, 1 poll per wait | a wait returns its own answer or a push; a filed answer leaves the map only under a push of its number or as the wait for it ends; `Connect` finds no thread; answers are filed; `DisConnect` returns |
| `client_ids` | 1 request, 1 push | *violation*: a push is filed under a request's number |
| `worker` | 2 callers, 1 name, 3 nodes, 3 workers | references stay good, but of a worker whose `Run` lost its node to the other caller; at most one late run |
| `worker_live` | 1 caller, 2 names, 3 nodes, 2 workers | runs as configured, `DeRegister` returns |
| `worker_zero` | 1 caller, 1 name | *violation*: repeat count 0 ends after one run |
| `sqlite` | 2 queries in the JSON, 3 writes, 2 transaction objects at once | the schema is whole or absent wherever the process ends; of the writes the file has exactly the settled ones |
| `sockets` | 3 handles, 3 attempts, a client, a server and a stranger | an object points to what is alive, a session writes to its own connection, what stays open is exactly what the code forgets, records reach the peer, nobody closes another's handle but a server's second `Disconnect` of one number and what follows from it |
| `parts` | 4 toasts in parents of height 1, 3 and 4; 3 threads, 2 names, 3 connections; 3 downloads of 2 chunks to one path; 5 polls of a service and 2 handles left open; versions up to 4 characters | toasts in order, and a crash of `MoveStack` only after the parent shrank; what `GetInstance` hands out, and that no running connection is forgotten; a finished download is whole, no part of one stays that the system let the code delete, and the size it reports is at most one chunk behind; `StopWindowsService` and the removed service; `VersionCheck` against a reference |

### The bounds

*Two clients and two handles* are enough for every case of `server`: a handle
reused by the other client needs one closed connection and one new one, a
broadcast over a closed and an open entry needs two. One whole packet and a cut
one already make a queue of two; the queue's order for any number is a theorem.
Two `Connect`s give the second call while the thread runs, and the one after
`DisConnect`. *Two frames* make `Receive` end one frame and begin the next,
which is where boundaries get lost. *Two requests and one push* let answers come
out of order and after a wait gave up. *One name, three
nodes and three workers* let two callers erase a name and make it again while an
old reference is about; names share nothing but the bound on nodes. One caller
gets two. *Two
transaction objects* give the nested transaction, *three writes* one before, one
inside and one after it, *two queries* a schema of four statements with a middle
in which to stop. *Three attempts on three handles* let one connection leave
something, a second get its number, and a third come after both. *Four toasts*
are one more than the highest parent has room for, and a parent that shrinks
between two of them makes two overflow at once. *Three threads* are two that
destroy the singleton and one that gets it; *three downloads* are two that
collide and one that finds the file of the first. Five polls are the code's own
number.

The five parts of `parts` share nothing: a behaviour is one of a single part and
the others keep their first state, so that the states add up. What the run shows
of a part is what a run of its own would.

`ByteMax` and `SignBit` are 255 and 128 in the code. The runs use small ones
and keep the relation that matters, a range of bytes below the sign bit and one
from it on; the theorems hold for all of them. In `receive` every size byte is
below the sign bit: what `Receive` does with the others is shown by
`receive_size`, and the theorems name the condition (`SizesArrive`). That a `recv`
gives fewer than the four bytes of the size, or fails inside the header, or that
the retries run out, is in the model; the frame boundaries are lost then, and the
properties speak of the time before (`lost`). `TypeCorrect` needs none of this.

In the safety runs of `NetServer` and `Worker`, clients, handles and callers are
symmetric, and all crashed states are one: a crashed process takes no step, and
no property looks at one. `MCNetServer` and `MCTcpReceive` also keep out of the
view what no later step and no property reads: the stream of a connection that
nobody receives from any more, answers that strayed once they are judged, the
numbers of a call that has returned, and what was returned before the end of a
frame was lost.

### Fairness

Only threads that the code keeps running are fair: the listen thread, the
receive threads, the handler threads, the workers, and a call once it was made
(`DisConnect`, `DeRegister`). Nobody is made to call anything, and the
peers may do nothing for ever. All fairness is weak. `RxInsert` needs a lock that
the handler thread holds while it sleeps 5 ms and takes again at once; it is free
again and again and never for long, nothing in the code hands it to a thread
that waits, and the model asks nothing of it. So the receive thread may starve,
and `PacketsHandled` and `ClosedIsCleanedUp` say so: a frame is handled, or its
receive thread waits for the lock for ever (`Starved`). Nothing makes `accept`
fail while its socket is open, and nothing makes undefined behaviour crash.

### What the code does that is worth knowing

Beside the three violations, about the network:

* `_isStop` is never set back. A server or client that was disconnected and is
  connected again has threads that end at once.
* `DisConnect` joins the listen thread only. The receive and handler threads of
  the connections run on: a `recv` under way still takes its frame, and what is
  queued is handled, perhaps long after `DisConnect` returned. `StopEndsReceiving`
  says that no connection gives more than this one frame. `CloseConnection` of a
  server leaves these threads in an object that nobody can reach
  (`NoConnectionForgotten`).
* A `DisConnect` between the listen thread's entry into `Listen` and its `socket()`
  destroys the server under it. If the freed memory still looks like a server the
  thread makes a socket there, listens on it and waits in `accept`; nobody closes
  this socket, and the join never returns (`orphan`, the exception of
  `DisConnectReturns`).
* The handler thread holds its lock while it sleeps and takes it again at once, so
  that `InsertPacket` may wait for ever.
* A second `Connect` of a running server ends the process.
* The listen thread, the receive threads, the handlers and the caller are inside
  the one `CTCPServer` at once, although `Network/include/README.md:165` wants a
  socket used by one thread.
* `ServerReceiveThread` closes the handle before it ends the handler, so a
  function still running may answer another client that got the same handle.
  `ReplyReachesRequester` says exactly how far this goes.
* `DisConnect` does not end the handlers: a receive thread that leaves on
  `_isStop` leaks its handler thread, and a connection that broke, also after an
  orderly close, leaves the receive thread calling `recv` without a pause.
  `ClosedIsCleanedUp` excludes these two.
* An answer that comes after its wait gave up stays in `_mapMsgIDToMSG` until
  it is asked for again. One that is filed over a push of its number, between the
  read and the erase of the wait that found the push, is erased unread.
* With two callers of `ClientSend`, both may be given the same number, or each
  other's: `AnswerIsOwnOrPushed` is a property of one caller.
* `WSAENOBUFS` that outlasts its retries makes `Receive` return a part of a
  frame as a success and the next call start inside the frame. A size field that
  comes in two pieces, or a `recv` of the header that fails, is not noticed: the
  total loses 1, the size is read as another or as none, and the next call starts
  anywhere. A size that failed also has the id written in front of the buffer.
* `CTCPClient::Connect` whose `connect()` fails leaves its socket open; so does a
  `Disconnect` whose `shutdown()` fails. A server's second `Disconnect` of a number
  closes whatever has that number by now. `CTCPServer::Listen` after a failed
  `socket()` or `bind()` reads a null address.
* `Network/include/README.md:159-161` says that `Disconnect` releases what the
  SSL sockets hold. After a certificate, CA or key that did not load it does
  not: there is a context and no session, and `ShutdownSSL` looks at the session.
* `CTCPSSLClient::Connect` without a `Disconnect` before it keeps the old session,
  whose descriptor may by then be a stranger's handle (`RecordsReachPeer` has the
  exception). `Send` after a `Connect` that failed in TLS reads a null session.
* `NewConnection` overwrites an entry of that name, and its `CNetwork` runs on.
  `GetInstance` returns null for ever after a `DestroyInstance`; two at once may
  delete twice.
* A download that fails removes whatever is at its path, also what another
  download finished there meanwhile, and does not look whether it was removed: what
  the system refuses to delete stays as a part. A server that closes early, even
  after no byte, counts as done. `GetFileSize` does not close its URL handle, and
  `FindFilePath` of a path with backslashes only gives an empty directory, whose
  `MakeDir` fails.

About the rest:

* With two callers of `cSWorker`, one may erase the node while the other's `Run` is
  between `getWorkItem` and the assignment to `thWorker`: the worker runs on a node
  that is gone, or on a new one whose thread it is not, and nobody joins it
  (`ReferenceStaysGood` has the exception). A name registered anew while its worker
  starts makes the count of runs wrong: `RunsAsConfigured` is a property of one
  caller, and of items whose `dwRepeatCnt` is not 0 (`worker_zero`).
* With two callers of `cSWorker`, a `Run` between the join and the erase of a
  `DeRegister` starts on the count of the worker before.
* `InitDB` makes the schema only in a file that was not there, and opening the
  file makes it. A process that ends before the transaction commits leaves an
  empty file, and no later `InitDB` fills it. A query that is missing in the
  JSON throws, and the destructor of the transaction then commits the part that
  was made (`SchemaWhole` has both exceptions). A query that cannot be prepared is
  not noticed either: the statement of the one before runs again.
* The destructor of a transaction commits, also on the way out of an exception,
  and drops the result: after a `COMMIT` that failed the transaction stays open
  with no object that owns it. Objects on one connection share one transaction;
  the first that ends settles what all of them wrote.
* `Close` leaves the database in the map: a later `InitDB` of that name says yes
  and opens nothing, and `GetDB` gives a closed connection.
* Two toasts that overflow at once, after the parent shrank, make `MoveStack`
  remove past the end of its vector, which ends the process or goes unnoticed. The
  manager's destructor leaves its toasts,
  which call it when their time is up.
* `IsExistService` opens the service twice (`SharedWinTools.cpp:438`) and closes
  one handle: a service removed afterwards stays in the list until the process
  ends. `IsRunningService` compares a status that a failed query did not set.
* `VersionCheck` drops what is behind the last dot and compares strings, so that
  10 is below 9: `VersionsOrdered` is about components of the same width. `split`
  with an empty separator and `replaceAll` whose replacement contains what is
  searched for do not end. `ConvertByte` says 0B below 1024 and reads past its
  table of units from 1024 PB on.

## 4. What is proved

Every safety property of the passing runs is also a theorem: `Spec => []P`,
`Spec => [][A]_vars` or that an abstract specification is implemented, for every
value of the constants that the named assumptions admit: any number of clients,
frames, threads, toasts or attempts, not the few of a run. The argument is always
the same: an inductive invariant `IInv`, the lemmas `Init => IInv` and
`IInv /\ [Next]_vars => IInv'` with one step per action, and the property from
`IInv`. The parts of the invariants were checked by TLC on the instances of the
runs before they were proved.

**`NetServer_proofs`**, from `NoneAssumption` (None is no client and no handle)
and `BoundsAssumption` (the bounds are natural numbers):

| Theorem | States |
|---|---|
| `TypeCorrect` | `[]TypeOK` |
| `Fifo` | `[]FifoPerConnection` |
| `EntryKept` | `[]EntryPerConnection` |
| `ReplyToRequester` | `[]ReplyReachesRequester` |
| `NoCall` | `NoCallAfterEnd` |
| `StopEnds` | `[]StopEndsReceiving` |
| `BroadcastReaches` | `BroadcastReachesAll` |
| `ServesChannels` | each connection is a `FrameChannel` |
| `OwnThreadTakes` | a frame is taken by its connection's own receive thread |
| `CrashesOnly` | what can end the process: a second `Connect` while the listen thread runs, a `DisConnect` before, or another `Listen` of a server whose listen socket failed |

`IInv` is the conjunction of `TypeOK` and five parts, each for something the
properties do not say but rest on:

* `ListenInv`: what the listen thread holds agrees with where it is. Without
  it nothing says that the connection it is about to insert is a client.
* `ThreadsInv`: a receive thread exists only for an accepted connection, and a
  handler thread only after its receive thread started it. Without it an accept
  could restart a handler with packets in its queue.
* `IdsInv`: the keys of `_mapIdToClientInfo` are 0 to `_dwID`, or there are
  none; so the search for a free key ends at the next number, and an insert
  keeps every entry.
* `OwnerInv`: while a receive thread has not closed its handle, the handle
  stands for its own connection. This is the heart of the argument: the handle
  is reused only after `RxClose`, and after `RxClose` the thread never receives
  again.
* `PipeInv`: the packets handled, the one in the handler's hands, the queue and
  the one in the receive thread's hands are, put together, the frames taken out
  of the connection, in order. `FifoPerConnection` is its first part.

`StopEnds` adds `CreditInv` (a receive that is under way when the server is
stopped has its credit; the thread tests `_isStop` before the next). `NoCall`
adds `EndInv` (only `End` stops a handler, and it returns when the handler's
thread has ended), `BroadcastReaches` adds `HandleInv` (an entry of the map has
the handle its receive thread was started with) and `DueInv` (a client that the
broadcast owes its message is still ahead of it, was sent it, or can no longer
be reached). `ServesChannels` maps the frames put on a connection, with the one
a close cut short, and the frames taken from it to those of the channel; it adds
`CutInv` (only a close cuts a frame). `CrashesOnly` adds `QuietInv`: before the
first `Connect` nothing runs that could use the null pointer, so that only
`DisConnect` can leave a thread with it. TLC was asked first, with no run of
their own: `CrashesOnly` on the instance of `server`, the other two on it with
one `Connect` and no broadcast.

**`NetClient_proofs`**, from `ByteAssumption` (the sign bit is one of the bytes)
and `ClientAssumption` (the numbers fit the low byte, the callers are finitely
many):

| Theorem | States |
|---|---|
| `FaithfulIffRoundTrip` | `NetFrame`: the exact set of sizes and ids that arrive unchanged; the lemma `FromWireValue` says what becomes of the others |
| `TypeCorrect` | `[]TypeOK` |
| `ConnectFinds` | `[]ConnectFindsNoThread` |
| `AnswersAreOwn` | `[]AnswerIsOwnOrPushed`, for one caller and numbers below the sign bit |
| `FiledAnswersStay` | `FiledAnswerKept`, under the same two conditions |

`TypeOK` alone is not inductive: nothing bounds `_msgID`, which is counted after
the send. `CountInv` says that it is the number of requests less those that are
between the send and the count; this is where the callers must be finitely
many. `RequestInv` says that a caller who counts or waits does so for a request.
The two properties of one caller need to know where every number is: the n-th
request carries n - 1 (`SentInv`), and what is on its way (`DownInv`), in the
receive thread's hands (`RxInv`), in `_mapMsgIDToMSG` (`MapInv`), asked for by the
caller (`MineInv`, `PlaceInv`), read by its wait but not yet erased, and returned
(`GotInv`) fits that. Both conditions
are needed: two callers may be given one number, and a number from the sign bit
on comes back as another.

**`Worker_proofs`**, from `NoneAssumption`, `BoundsAssumption` and `NoneIsNoNode`
(None is not a record of the map):

| Theorem | States |
|---|---|
| `TypeCorrect` | `[]TypeOK` |
| `ReferencesStayGood` | `[]ReferenceStaysGood` |
| `OneLateRun` | `[]AtMostOneLateRun` |
| `RunsAsRegistered` | `[]RunsAsConfigured`, for one caller |

`NameInv` and `ThreadInv` say that the thread in a node is a worker of that name
whose reference, while it uses one, is to this node; `HandInv` says the same of the
thread that a `Run` has started and not assigned yet. `HeldInv` is where a worker
that runs can be: the thread of its node (so nobody can erase the node without
joining it), in the hands of a `Run`, or assigned to an erased node. `AloneInv`
says that the last takes a second caller, and `GenInv` that generations are given
in order. `LateInv` says that a late call was the last. For one caller `NoneYet`,
`TakenInv`, `OwnerInv` and `CountedInv` tie the count in the node to the calls made.

**`Sqlite_proofs`**, from `SqliteAssumption` (the bounds are natural numbers):
`TypeCorrect` (`[]TypeOK`), `SchemaIsWhole` (`[]SchemaWhole`), `ScopesAreKept`
(`[]ScopesKept`), `FileOnlyGrows` (no step loses anything of the file).
`EntryInv` ties the map, the file and the connection together; `InitInv` says
that while `InitDB` runs the file has none of the schema and the transaction
what was run so far; `WholeInv` is `SchemaWhole` for the file and for what an
open transaction sees; `NumberInv` says that no write is anywhere before it was
made; `ScopeInv` that, as long as no COMMIT failed, the open transaction is the
one the program began and has, of the program's writes, the settled ones and the
pending. `FileOnlyGrows` needs no such condition, only `GrowInv`: an open
transaction sees all of the file.

**`Sockets_proofs`**, from `SocketsAssumption` (None, Other, Listener and the
numbers of attempts are different things):

| Theorem | States |
|---|---|
| `TypeCorrect` | `[]TypeOK` |
| `SessionFits` | `[]SessionFitsConnection` |
| `NothingIsLost` | `[]NothingLost` |
| `RecordsReach` | `[]RecordsReachPeer` |
| `OwnHandleClosed` | `ClosesOwnHandle` |

`OwnInv` describes one object: what its number stands for while it holds a
connection, and what its pointers are when its last call succeeded. `ApartInv`
says that the two objects have no attempt in common, `HandleInv` that an attempt
has at most one handle, `ListenInv` that the listening socket is the server's.
`SessionInv`, `ContextInv` and `LeftInv` say of everything that is open to whom
it belongs or which failure left it; `SentInv` is `RecordsReachPeer`. Each of them
has the exception of a connection that lost its handle to a server's second
`Disconnect` (`Robbed`).

**`TcpReceive_proofs`**, from `ByteAssumption` and `SizesAssumption` (a frame's
size fits a byte, the buffer holds a frame):

| Theorem | States |
|---|---|
| `TypeCorrect` | `[]TypeOK`, for any sizes and whatever `recv` gives, headers included |
| `ReceivesExactly` | `[]FramesExact`, under `SizesArrive` |
| `Refines` | `ImplementsChannel`, under `SizesArrive` |

Where a frame begins is a sum over the frames before it, which the model computes
with a recursive function. The first section shows what that function is: that
one exists for every length and that any two agree (`SumExists`, `SumUnique`), so
that `Before(i) = Before(i - 1) + frames[i] + 8` for any sequence (`NextFrame`),
that it rises and is the same on a longer stream (`BeforeRises`, `OneMore`), and
which frame and which of its bytes a place is in (`FrameOf`, `ByteIs`).

`IInv` is `TypeOK` with `StreamInv` (the last frame has a byte on the stream, and
all of it while the sender goes on) and `CallInv` (a call begins where it is
called). Without the first the reader could be told of a frame that is not
there. `SizesArrive` says that the size byte is below the sign bit (`receive_size`
shows what happens to others). Under it, and as long as nothing of `lost`
happened, `PlaceInv` says where in the stream a call is for each of its steps, that
the size it works with is that of the frame it began with, and that on a broken
connection it only counts down; `OutInv` says that each result is the frame of its
number, and that one that lacks its end is the last that was sent, for which
`StreamInv` is needed again.

**`Parts_proofs`**, from the assumptions of the five modules (bounds are natural
numbers, Nobody is no loader, a parent has some height, digits are not the dot):

| Theorem | States |
|---|---|
| `LiveHandedOut` | `RegistrySpec => HandsOutLive` |
| `NoneForgotten` | `RegistrySpec => []NoConnectionForgotten` |
| `DoneIsWhole` | `DownloadSpec => []DoneFileWhole` |
| `AnswersAreKept` | `ServicesSpec => []ServiceAnswersKept` |
| `StackOrdered` | `ToastSpec => []StackInOrder` |
| `OnlyWhenSmaller` | `ToastSpec => CrashesOnlyWhenSmaller` |
| `VersionsCompare` | `TextSpec => []VersionsOrdered`, versions of any length |
| `Composes` | `Spec` of `MCParts` implies the specification of each part |
| `TypesCorrect` | `[]TypesOK` |

`InstanceInv` says that the object is made before anyone gets past `call_once`,
that the one who made it is alone there until it has set the pointer, and that a
pointer to a deleted one stays only until a reset that is under way; `ReachInv`
that every connection made is in the map, overwritten, or stopped for good, and
that the own thread of none outlives its stop. `WriterInv` says that who has the
file open wrote what is there and counted it, but for the chunk in hand,
`ClaimInv` that who claims the file is not about to remove it, `PartInv` that
the rest of a failed download is about to be removed or could not be. `SeenInv`
says that what a function was told is a state the service was in since the call,
`LineInv` where each function can be, `GoneInv` that a removed service stays
only while somebody has it open. Of the toasts, `OnceInv` says that a toast is
in the list once, without which moving one could move another; `TimerInv` that
only toasts of the list have a time or the pointer on them; `RoomInv` that the
list is at most one longer than what had room when a toast was shown last, which
is why a second overflow needs a smaller parent.

For `VersionCheck` most of the work is in two lemmas about pure functions:
`SplitGives`, that `XString::split` gives for any text the components that its
dots end (and drops what is behind the last), and `NumberOrders`, that for
components of one width `operator<` on strings orders as their numbers do.
`LoopInv` then says that as far as the loop came the components were the same,
but for the one the verdict is about. `Composes` is what section 3 says of the
run `parts`: the parts share nothing, so that what is proved of one alone holds
in the run.

**How recursion is proved about.** The prover has no rule of induction that could
be used here, as the library's take an operator for a parameter. `Induction`
derives what is needed from the fact that the natural numbers are well-founded:
a set of numbers with 0 and with n + 1 for each n is all of them
(`SetInduction`). A recursive function is first shown to exist on each initial part
of its domain, by that lemma, and then equals its definition: this is `SumExists`,
`SplitExists` and `NumberExists`.

**What stays with TLC**: all liveness (`PacketsHandled`, `ClosedIsCleanedUp`, both
`DisConnectReturns`, `AnswerFiled`, `DeRegisterReturns`), since the prover does not
reason about fairness with `ENABLED`; and the three properties that the code
violates.

## 5. What is not modelled

Left out of the modelled parts:

* of the messages the text (UTF-8 conversion, string ends), logging, the
  other-than-Windows branches of the sockets, the timeouts set on sockets,
  `bReadFully = false`, the results of broadcasts, invokers that call the
  registry back, moving an `SSLSocket`, and time itself: a sleep is a step;
* of SQLite what the wrapper does not need: a transaction is atomic and durable,
  and `COMMIT` may fail and leave it open. The WAL mode, two names for one file
  and errors of the disk other than at `COMMIT` or of a single statement are not
  in `Sqlite`. Reading with a `cStmt` is not either: the wrapper keeps nothing
  beside SQLite's own statement, whose cursor all copies of a `cStmt` share;
* of the download `Init` and `GetFileSize`, which open and ask; of the toasts
  painting, widths and texts; of the Windows tools everything but services.

Not modelled at all:

* `Qt` switch and helpers: painting and style.
* Processes, timers, the logger, `CreateUUID`, registry and privileges: single
  calls of the operating system with no state of the library's own between them.
* String conversions and formatting: pure functions without a state; `replaceAll`
  and `ConvertByte` go wrong in single calls, described above.
* `Json/nlohmann/json.hpp`, `Sqlite/shell.c`, `sqlite3.h`, `sqlite3ext.h` and the
  protobuf files are other projects' code. They are seven eighths of the lines
  in the tree; the library's own are about 8900, of which a large part is Qt
  style sheets, conversions and includes.

What could follow: invokers that call `cSWorker` back; a cursor shared by the
copies of a `cStmt`.
