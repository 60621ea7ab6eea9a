---------------------------- MODULE Parts_proofs ----------------------------
(***************************************************************************)
(* Proofs about the smaller parts, each by itself: Registry for any        *)
(* threads and names, Download for any loaders and sizes, Services for any *)
(* number of polls, Toast for any toasts and heights, Text for versions of *)
(* any length; then that MCParts runs each of them as it is.               *)
(***************************************************************************)
EXTENDS MCParts, FiniteSetTheorems, Induction

----------------------------------------------------------------------------
(* Registry: the inductive invariant. *)

\* The object is made before anyone gets past call_once, where the one that made
\* it is alone; _instance is null or points to it; a deleted object still has a
\* pointer only while the one that deleted it is before its reset.
InstanceInv ==
    /\ object = "none" =>
         ~instance /\ \A t \in Threads : at[t] \in {"idle", "once"}
    /\ \A t \in Threads : at[t] = "publish" =>
         /\ ~instance /\ object \in {"alive", "crashed"}
         /\ \A u \in Threads \ {t} : at[u] \in {"idle", "once"}
    /\ object = "alive" =>
         /\ instance \/ \E t \in Threads : at[t] = "publish"
         /\ \A t \in Threads : at[t] # "reset"
    /\ object = "deleted" /\ instance => \E d \in Threads : at[d] = "reset"

\* Every connection made is in the map, or overwritten, or stopped for good; the
\* object's own thread does not outlive the stop.
ReachInv ==
    /\ running \cap stopped = {}
    /\ 1 .. nets \subseteq Named \cup replaced \cup stopped
    /\ running \subseteq 1 .. nets /\ serving \subseteq 1 .. nets

RegistryInv == RegistryTypeOK /\ InstanceInv /\ ReachInv

LEMMA RegistryInitially == RegistryInit => RegistryInv
<1> SUFFICES ASSUME RegistryInit PROVE RegistryInv
  OBVIOUS
<1> USE RegistryAssumption DEF RegistryAssumption, RegistryInit
<1>1. RegistryTypeOK
  <2>1. /\ at \in [Threads ->
                  {"idle", "once", "publish", "return", "delete", "reset"}]
        /\ got \in [Threads -> {"none", "null", "pointer"}]
    OBVIOUS
  <2>2. map \in [Names -> 0 .. MaxNets]
    OBVIOUS
  <2>3. /\ nets \in 0 .. MaxNets
        /\ running \subseteq Nets /\ serving \subseteq Nets
        /\ stopped \subseteq Nets /\ replaced \subseteq Nets
    OBVIOUS
  <2> QED BY <2>1, <2>2, <2>3 DEF RegistryTypeOK
<1>2. InstanceInv
  BY DEF InstanceInv
<1>3. ReachInv
  BY DEF ReachInv
<1> QED BY <1>1, <1>2, <1>3 DEF RegistryInv

LEMMA SingletonKeeps ==
    ASSUME RegistryInv, NEW t \in Threads,
           \/ GetInstance(t) \/ CallOnce(t) \/ Publish(t) \/ Return(t)
           \/ DestroyInstance(t) \/ Delete(t) \/ Reset(t) \/ UseDeleted(t)
    PROVE  RegistryInv'
<1> USE DEF RegistryInv, RegistryTypeOK, InstanceInv, mapVars, Goes
<1>1. ReachInv'
  BY DEF ReachInv, Named, GetInstance, CallOnce, Publish, Return,
         DestroyInstance, Delete, Reset, UseDeleted
<1>2. CASE GetInstance(t)
  BY <1>1, <1>2 DEF GetInstance
<1>3. CASE CallOnce(t)
  BY <1>1, <1>3 DEF CallOnce
<1>4. CASE Return(t)
  BY <1>1, <1>4 DEF Return
<1>9. CASE Publish(t)
  BY <1>1, <1>9 DEF Publish
<1>5. CASE DestroyInstance(t)
  BY <1>1, <1>5 DEF DestroyInstance
<1>6. CASE Delete(t)
  BY <1>1, <1>6 DEF Delete
<1>7. CASE Reset(t)
  BY <1>1, <1>7 DEF Reset
<1>8. CASE UseDeleted(t)
  BY <1>1, <1>8 DEF UseDeleted
<1> QED BY <1>2, <1>3, <1>4, <1>5, <1>6, <1>7, <1>8, <1>9

LEMMA ManagerKeeps ==
    ASSUME RegistryInv, NEW t \in Threads, NEW name \in Names, NEW c \in Nets,
           \/ NewConnection(t, name) \/ CloseConnection(t, name)
           \/ GetAndConnect(t, c) \/ Serve(c) \/ ServeEnds(c)
    PROVE  RegistryInv'
<1> USE RegistryAssumption
    DEF RegistryAssumption, RegistryInv, SingletonFrame, Nets, CanUse
<1>1. InstanceInv'
  BY DEF InstanceInv, NewConnection, CloseConnection, GetAndConnect, Serve,
         ServeEnds
<1>2. CASE NewConnection(t, name)
  <2>1. RegistryTypeOK'
    <3>1. nets + 1 \in Nets /\ nets + 1 \in 0 .. MaxNets
      BY <1>2 DEF NewConnection, RegistryTypeOK
    <3>2. map' \in [Names -> 0 .. MaxNets]
      BY <1>2, <3>1 DEF NewConnection, RegistryTypeOK
    <3>3. replaced' \subseteq Nets
      <4>1. map[name] \in 0 .. MaxNets /\ replaced \subseteq Nets
        BY DEF RegistryTypeOK
      <4>2. replaced' = replaced \cup ({map[name]} \ {0})
        BY <1>2 DEF NewConnection
      <4>3. {map[name]} \ {0} \subseteq Nets
        BY <4>1
      <4> QED BY <4>1, <4>2, <4>3
    <3> QED BY <1>2, <3>1, <3>2, <3>3 DEF NewConnection, RegistryTypeOK
  <2>2. /\ map'[name] = nets + 1
        /\ \A s \in Names \ {name} : map'[s] = map[s]
        /\ replaced' = replaced \cup ({map[name]} \ {0})
        /\ nets' = nets + 1
    BY <1>2 DEF NewConnection, RegistryTypeOK
  <2>3. ReachInv'
    BY <1>2, <2>2 DEF NewConnection, RegistryTypeOK, ReachInv, Named
  <2> QED BY <1>1, <2>1, <2>3
<1>3. CASE CloseConnection(t, name)
  <2>1. RegistryTypeOK'
    <3>1. map' \in [Names -> 0 .. MaxNets]
      BY <1>3 DEF CloseConnection, RegistryTypeOK
    <3>2. stopped' \subseteq Nets /\ running' \subseteq Nets
      <4>1. /\ map[name] \in 0 .. MaxNets /\ map[name] # 0
            /\ stopped \subseteq Nets /\ running \subseteq Nets
        BY <1>3 DEF CloseConnection, RegistryTypeOK
      <4>2. /\ stopped' = stopped \cup {map[name]}
            /\ running' = running \ {map[name]}
        BY <1>3 DEF CloseConnection
      <4>3. map[name] \in Nets
        BY <4>1
      <4> QED BY <4>1, <4>2, <4>3
    <3> QED BY <1>3, <3>1, <3>2 DEF CloseConnection, RegistryTypeOK
  <2>2. /\ \A s \in Names \ {name} : map'[s] = map[s]
        /\ stopped' = stopped \cup {map[name]}
        /\ running' = running \ {map[name]}
    BY <1>3 DEF CloseConnection, RegistryTypeOK
  <2>3. ReachInv'
    BY <1>3, <2>2 DEF CloseConnection, RegistryTypeOK, ReachInv, Named
  <2> QED BY <1>1, <2>1, <2>3
<1>4. CASE GetAndConnect(t, c)
  BY <1>1, <1>4 DEF GetAndConnect, RegistryTypeOK, ReachInv, Named
<1>5. CASE Serve(c)
  BY <1>1, <1>5 DEF Serve, RegistryTypeOK, ReachInv, Named
<1>6. CASE ServeEnds(c)
  BY <1>1, <1>6 DEF ServeEnds, RegistryTypeOK, ReachInv, Named
<1> QED BY <1>2, <1>3, <1>4, <1>5, <1>6

LEMMA RegistryInductive == RegistryInv /\ [RegistryNext]_registryVars => RegistryInv'
<1> SUFFICES ASSUME RegistryInv, [RegistryNext]_registryVars PROVE RegistryInv'
  OBVIOUS
<1>1. CASE UNCHANGED registryVars
  BY <1>1 DEF registryVars, RegistryInv, RegistryTypeOK, InstanceInv, ReachInv,
              Named
<1>2. ASSUME NEW t \in Threads, NEW name \in Names, NewConnection(t, name)
      PROVE  RegistryInv'
  <2>1. nets + 1 \in Nets
    BY <1>2, RegistryAssumption
       DEF RegistryAssumption, NewConnection, RegistryInv, RegistryTypeOK, Nets
  <2> QED BY <1>2, <2>1, ManagerKeeps
<1>3. ASSUME NEW t \in Threads, NEW name \in Names, CloseConnection(t, name)
      PROVE  RegistryInv'
  <2>1. map[name] \in Nets
    BY <1>3, RegistryAssumption
       DEF RegistryAssumption, CloseConnection, RegistryInv, RegistryTypeOK, Nets
  <2> QED BY <1>3, <2>1, ManagerKeeps
<1>4. ASSUME NEW t \in Threads, NEW c \in Nets, GetAndConnect(t, c)
      PROVE  RegistryInv'
  BY <1>4, RegistryAssumption
     DEF RegistryAssumption, GetAndConnect, RegistryInv, RegistryTypeOK,
         InstanceInv, ReachInv, Named, SingletonFrame, Nets, CanUse
<1>5. ASSUME NEW c \in Nets, Serve(c) \/ ServeEnds(c) PROVE RegistryInv'
  <2>1. /\ UNCHANGED <<instance, object, at, got, map, nets, running, stopped,
                       replaced>>
        /\ serving' \subseteq serving \cup (running \cap Nets)
    BY <1>5 DEF Serve, ServeEnds, SingletonFrame
  <2>2. RegistryTypeOK' /\ InstanceInv'
    BY <2>1 DEF RegistryInv, RegistryTypeOK, InstanceInv
  <2>3. ReachInv'
    BY <2>1 DEF RegistryInv, ReachInv, Named
  <2> QED BY <2>2, <2>3 DEF RegistryInv
<1> QED BY <1>1, <1>2, <1>3, <1>4, <1>5, SingletonKeeps DEF RegistryNext

THEOREM RegistryInvariance == RegistrySpec => []RegistryInv
BY RegistryInitially, RegistryInductive, PTL DEF RegistrySpec

\* Whoever kept whatever pointer: a connection that receives or listens is in
\* the map under its name, or another was put in its place, and a server that
\* serves connections beyond that was told to stop.
THEOREM NoneForgotten == RegistrySpec => []NoConnectionForgotten
<1>1. RegistryInv => NoConnectionForgotten
  BY DEF RegistryInv, ReachInv, Named, NoConnectionForgotten
<1> QED BY RegistryInvariance, <1>1, PTL

\* For any number of threads that get and destroy the instance at once.
THEOREM LiveHandedOut == RegistrySpec => HandsOutLive
<1>1. ASSUME RegistryInv, NEW t \in Threads, Return(t)
      PROVE  IF instance THEN object = "alive" \/ \E d \in Threads : at[d] = "reset"
             ELSE object = "deleted"
  BY <1>1 DEF RegistryInv, RegistryTypeOK, InstanceInv, Return, Goes
<1>2. RegistryInv => [\A t \in Threads : Return(t) =>
         IF instance THEN object = "alive" \/ \E d \in Threads : at[d] = "reset"
         ELSE object = "deleted"]_registryVars
  BY <1>1
<1> QED BY RegistryInvariance, <1>2, PTL DEF HandsOutLive

----------------------------------------------------------------------------
(* Download: the inductive invariant. *)

\* Who has the file open is in its loop or about to close it; it wrote what is
\* there and counted it, but for the chunk it writes now, and nobody claims the
\* file meanwhile.
WriterInv ==
    /\ \A d \in Loaders :
         load[d].pc \in {"loop", "count", "close"} <=> holder = d
    /\ \A d \in Loaders : load[d].process => holder = d
    /\ \A d \in Loaders : load[d].pc = "open" => load[d].size = 0
    /\ holder # Nobody =>
         /\ file.by = holder /\ claim = Nobody
         /\ file.size = IF load[holder].pc = "count"
                        THEN load[holder].size + 1 ELSE load[holder].size
         /\ load[holder].pc \in {"loop", "count"} => load[holder].done
         /\ load[holder].pc = "close" /\ load[holder].done =>
              file.size = Chunks \/ file.cut

\* Nobody who claims the file is about to remove it.
ClaimInv ==
    /\ claim # Nobody => file.by = claim \/ robbed
    /\ claim # Nobody => load[claim].pc \in {"idle", "open"}

\* What a failed download leaves is removed by the one that failed, unless the
\* system refuses.
PartInv ==
    holder = Nobody /\ file.by # Nobody =>
      \/ file.size = Chunks \/ file.cut \/ kept
      \/ load[file.by].pc = "remove"

DownloadInv == DownloadTypeOK /\ WriterInv /\ ClaimInv /\ PartInv

File == [by : Loaders \cup {Nobody}, size : 0 .. Chunks, cut : BOOLEAN]
Load == [pc : {"idle", "open", "loop", "count", "close", "remove"},
         process : BOOLEAN, size : 0 .. Chunks, done : BOOLEAN]

LEMMA DownloadInitially == DownloadInit => DownloadInv
<1> USE DownloadAssumption DEF DownloadAssumption, DownloadInit, NoFile
<1>1. DownloadInit => DownloadTypeOK
  <2> SUFFICES ASSUME DownloadInit PROVE DownloadTypeOK
    OBVIOUS
  <2>1. file \in File
    BY DEF File
  <2>2. load \in [Loaders -> Load]
    BY DEF Load
  <2> QED BY <2>1, <2>2 DEF DownloadTypeOK, File, Load
<1>2. DownloadInit => WriterInv /\ ClaimInv /\ PartInv
  BY DEF WriterInv, ClaimInv, PartInv
<1> QED BY <1>1, <1>2 DEF DownloadInv

LEMMA DownloadKeeps ==
    ASSUME DownloadInv, NEW d \in Loaders,
           \/ Start(d) \/ Open(d) \/ TurnFails(d) \/ WriteChunk(d) \/ Count(d)
           \/ TurnEnds(d) \/ CloseFile(d) \/ RemoveFile(d)
    PROVE  DownloadInv'
<1> USE DownloadAssumption
    DEF DownloadAssumption, DownloadInv, DownloadTypeOK, WriterInv, ClaimInv, PartInv
<1>1. CASE Start(d)
  BY <1>1 DEF Start
<1>2. CASE Open(d)
  <2>1. DownloadTypeOK'
    <3>1. file' \in File
      <4>1. [by |-> d, size |-> 0, cut |-> FALSE] \in File /\ file \in File
        BY DEF File
      <4> QED BY <1>2, <4>1 DEF Open
    <3>2. load' \in [Loaders -> Load]
      BY <1>2 DEF Open, Goto, Load
    <3> QED BY <1>2, <3>1, <3>2 DEF Open, Goto, File, Load
  <2>2. WriterInv'
    <3>1. CASE holder = Nobody
      <4>1. /\ load'[d].pc = "loop" /\ load'[d].done = TRUE
            /\ load'[d].size = load[d].size /\ load'[d].process = load[d].process
            /\ \A e \in Loaders \ {d} : load'[e] = load[e]
        BY <1>2, <3>1 DEF Open
      <4>2. /\ holder' = d /\ claim' = Nobody
            /\ file'.by = d /\ file'.size = 0
        BY <1>2, <3>1 DEF Open
      <4> QED BY <1>2, <3>1, <4>1, <4>2 DEF Open
    <3>2. CASE holder # Nobody
      <4>1. /\ load[d].pc = "open" /\ holder # d
            /\ UNCHANGED <<file, holder, claim, robbed, kept>>
        BY <1>2, <3>2 DEF Open
      <4>2. /\ load'[d].pc = "idle" /\ load'[d].process = load[d].process
            /\ \A e \in Loaders \ {d} : load'[e] = load[e]
        BY <1>2, <3>2 DEF Open, Goto
      <4> QED BY <3>2, <4>1, <4>2
    <3> QED BY <3>1, <3>2
  <2>3. ClaimInv'
    BY <1>2 DEF Open, Goto
  <2>4. PartInv'
    BY <1>2 DEF Open, Goto
  <2> QED BY <2>1, <2>2, <2>3, <2>4 DEF DownloadInv
<1>3. CASE TurnFails(d)
  BY <1>3 DEF TurnFails
<1>4. CASE WriteChunk(d)
  <2>1. DownloadTypeOK'
    <3>1. file' \in File
      <4>1. file.size + 1 \in 0 .. Chunks
        BY <1>4 DEF WriteChunk
      <4> QED BY <1>4, <4>1 DEF WriteChunk, File
    <3>2. load' \in [Loaders -> Load]
      BY <1>4 DEF WriteChunk, Load
    <3> QED BY <1>4, <3>1, <3>2 DEF WriteChunk, File, Load
  <2>2. /\ holder = d /\ load'[d].pc = "count" /\ load'[d].size = load[d].size
        /\ load'[d].done = load[d].done
        /\ \A e \in Loaders \ {d} : load'[e] = load[e]
        /\ file'.by = file.by /\ file'.size = file.size + 1
        /\ UNCHANGED <<holder, claim, robbed, kept>>
    BY <1>4 DEF WriteChunk
  <2>3. WriterInv'
    BY <1>4, <2>2 DEF WriteChunk
  <2>4. ClaimInv'
    BY <2>2
  <2>5. PartInv'
    BY <2>2
  <2> QED BY <2>1, <2>3, <2>4, <2>5 DEF DownloadInv
<1>8. CASE Count(d)
  BY <1>8 DEF Count
<1>5. CASE TurnEnds(d)
  <2>1. DownloadTypeOK'
    <3>1. file' \in File
      <4>1. \A b \in BOOLEAN : [file EXCEPT !.cut = b] \in File
        BY DEF File
      <4>2. (file.size < Chunks) \in BOOLEAN
        OBVIOUS
      <4> QED BY <1>5, <4>1, <4>2 DEF TurnEnds
    <3>2. load' \in [Loaders -> Load]
      BY <1>5 DEF TurnEnds, Load
    <3> QED BY <1>5, <3>1, <3>2 DEF TurnEnds, File, Load
  <2>2. WriterInv'
    BY <1>5 DEF TurnEnds
  <2>3. ClaimInv'
    BY <1>5 DEF TurnEnds
  <2>4. PartInv'
    BY <1>5 DEF TurnEnds
  <2> QED BY <2>1, <2>2, <2>3, <2>4 DEF DownloadInv
<1>6. CASE CloseFile(d)
  <2>1. DownloadTypeOK'
    <3>1. load' \in [Loaders -> Load]
      <4>1. \A pc \in {"idle", "remove"} :
              [load EXCEPT ![d].pc = pc, ![d].process = FALSE] \in [Loaders -> Load]
        BY DEF Load
      <4> QED BY <1>6, <4>1 DEF CloseFile
    <3> QED BY <1>6, <3>1 DEF CloseFile, File, Load
  <2>2. WriterInv'
    BY <1>6 DEF CloseFile
  <2>3. ClaimInv'
    BY <1>6 DEF CloseFile
  <2>4. PartInv'
    BY <1>6 DEF CloseFile
  <2> QED BY <2>1, <2>2, <2>3, <2>4 DEF DownloadInv
<1>7. CASE RemoveFile(d)
  <2>1. DownloadTypeOK'
    <3>1. file' \in File
      <4>1. NoFile \in File /\ file \in File
        BY DEF File, NoFile
      <4> QED BY <1>7, <4>1 DEF RemoveFile
    <3>2. load' \in [Loaders -> Load]
      BY <1>7 DEF RemoveFile, Goto, Load
    <3> QED BY <1>7, <3>1, <3>2 DEF RemoveFile, Goto, NoFile, File, Load
  <2>2. WriterInv'
    BY <1>7 DEF RemoveFile, Goto, NoFile
  <2>3. ClaimInv'
    BY <1>7 DEF RemoveFile, Goto, NoFile
  <2>4. PartInv'
    <3>1. CASE file' = NoFile
      BY <3>1 DEF NoFile
    <3>2. CASE UNCHANGED file /\ kept' = (kept \/ file.by = d)
      <4>1. UNCHANGED holder /\ \A e \in Loaders \ {d} : load'[e] = load[e]
        BY <1>7 DEF RemoveFile, Goto
      <4>2. file.by \in Loaders \cup {Nobody}
        OBVIOUS
      <4> QED BY <3>2, <4>1, <4>2
    <3> QED BY <1>7, <3>1, <3>2 DEF RemoveFile
  <2> QED BY <2>1, <2>2, <2>3, <2>4 DEF DownloadInv
<1> QED BY <1>1, <1>2, <1>3, <1>4, <1>5, <1>6, <1>7, <1>8

LEMMA DownloadInductive ==
    DownloadInv /\ [DownloadNext]_downloadVars => DownloadInv'
<1>1. DownloadInv /\ UNCHANGED downloadVars => DownloadInv'
  BY DEF downloadVars, DownloadInv, DownloadTypeOK, WriterInv, ClaimInv,
         PartInv
<1> QED BY <1>1, DownloadKeeps DEF DownloadNext

THEOREM DownloadInvariance == DownloadSpec => []DownloadInv
BY DownloadInitially, DownloadInductive, PTL DEF DownloadSpec

\* For any number of loaders of one path and any size of the file, whether the
\* system deletes it or not.
THEOREM DoneIsWhole == DownloadSpec => []DoneFileWhole
<1>1. DownloadInv => DoneFileWhole
  BY DownloadAssumption
     DEF DownloadAssumption, DownloadInv, DownloadTypeOK, WriterInv, ClaimInv,
         PartInv, DoneFileWhole
<1> QED BY DownloadInvariance, <1>1, PTL

----------------------------------------------------------------------------
(* Services: the inductive invariant. *)

\* The states of the service since the call began have the present one, and
\* every status that StopWindowsService was told.
SeenInv ==
    /\ line # "idle" => svc \in seen
    /\ line # "idle" /\ op = "stop" => status \in seen \cup {"zero"}
    /\ op = "stop" /\ told => "stopped" \in seen

\* Where a function can be, with what handles and how many polls.
LineInv ==
    /\ line \in {"control", "poll"} => op = "stop"
    /\ line \in {"act", "control", "poll"} => hSvc /\ svc # "absent"
    /\ line = "idle" => ~hSvc
    /\ line \in {"mgr", "svc", "act", "control"} => nSec = 0 /\ ~told
    /\ line = "poll" => nSec < Polls
    /\ op = "exist" /\ line \in {"mgr", "svc", "act"} => leaked < MaxLeaks

\* A removed service that has stopped stays only while somebody has it open.
GoneInv == marked /\ svc = "stopped" => leaked > 0 \/ line # "idle"

ServicesInv == ServicesTypeOK /\ SeenInv /\ LineInv /\ GoneInv

LEMMA ServicesInitially == ServicesInit => ServicesInv
<1> USE ServicesAssumption DEF ServicesAssumption, ServicesInit, Ops, States
<1>1. ServicesInit => ServicesTypeOK
  <2> SUFFICES ASSUME ServicesInit PROVE ServicesTypeOK
    OBVIOUS
  <2>1. nSec \in 0 .. Polls /\ leaked \in 0 .. MaxLeaks
    OBVIOUS
  <2> QED BY <2>1 DEF ServicesTypeOK
<1>2. ServicesInit => SeenInv /\ LineInv /\ GoneInv
  BY DEF SeenInv, LineInv, GoneInv
<1> QED BY <1>1, <1>2 DEF ServicesInv

LEMMA ServicesInductive ==
    ServicesInv /\ [ServicesNext]_servicesVars => ServicesInv'
<1> SUFFICES ASSUME ServicesInv, [ServicesNext]_servicesVars PROVE ServicesInv'
  OBVIOUS
<1> USE ServicesAssumption
    DEF ServicesAssumption, ServicesInv, ServicesTypeOK, SeenInv, LineInv, GoneInv,
        Ops, States
<1>1. CASE UNCHANGED servicesVars
  BY <1>1 DEF servicesVars
<1>2. CASE ServiceChanges
  BY <1>2 DEF ServiceChanges, Becomes
<1>3. CASE ServiceCall
  <2>1. ServicesTypeOK'
    <3>1. nSec' \in 0 .. Polls /\ seen' \subseteq States \cup {"absent"}
      BY <1>3 DEF ServiceCall
    <3> QED BY <1>3, <3>1 DEF ServiceCall
  <2>2. SeenInv'
    BY <1>3 DEF ServiceCall
  <2>3. LineInv'
    BY <1>3 DEF ServiceCall
  <2>4. GoneInv'
    BY <1>3 DEF ServiceCall
  <2> QED BY <2>1, <2>2, <2>3, <2>4 DEF ServicesInv
<1>4. CASE OpenManager
  BY <1>4 DEF OpenManager
<1>5. CASE OpenService
  <2>1. ServicesTypeOK'
    BY <1>5 DEF OpenService, Becomes
  <2>2. SeenInv'
    BY <1>5 DEF OpenService, Becomes
  <2>3. LineInv'
    BY <1>5 DEF OpenService, Becomes
  <2>4. GoneInv'
    BY <1>5 DEF OpenService, Becomes
  <2> QED BY <2>1, <2>2, <2>3, <2>4 DEF ServicesInv
<1>6. CASE StartService
  BY <1>6 DEF StartService, Becomes
<1>7. CASE DeleteService
  BY <1>7 DEF DeleteService, Becomes
<1>8. CASE QueryRunning
  BY <1>8 DEF QueryRunning
<1>9. CASE OpenAgain
  BY <1>9 DEF OpenAgain
<1>10. CASE StopQuery
  BY <1>10 DEF StopQuery, Query
<1>11. CASE ControlStop
  <2>1. ServicesTypeOK'
    BY <1>11 DEF ControlStop, Becomes
  <2>2. SeenInv'
    BY <1>11 DEF ControlStop, Becomes
  <2>3. LineInv'
    BY <1>11 DEF ControlStop, Becomes
  <2>4. GoneInv'
    BY <1>11 DEF ControlStop, Becomes
  <2> QED BY <2>1, <2>2, <2>3, <2>4 DEF ServicesInv
<1>12. CASE PollStop
  BY <1>12 DEF PollStop, Query
<1>13. CASE CloseHandles
  <2>1. ServicesTypeOK'
    BY <1>13 DEF CloseHandles, Becomes
  <2>2. SeenInv'
    BY <1>13 DEF CloseHandles, Becomes
  <2>3. LineInv'
    BY <1>13 DEF CloseHandles, Becomes
  <2>4. GoneInv'
    BY <1>13 DEF CloseHandles, Becomes
  <2> QED BY <2>1, <2>2, <2>3, <2>4 DEF ServicesInv
<1> QED BY <1>1, <1>2, <1>3, <1>4, <1>5, <1>6, <1>7, <1>8, <1>9, <1>10, <1>11,
           <1>12, <1>13 DEF ServicesNext

THEOREM ServicesInvariance == ServicesSpec => []ServicesInv
BY ServicesInitially, ServicesInductive, PTL DEF ServicesSpec

\* For any number of polls: the answer of StopWindowsService is true of some
\* moment of the call, and a removed service is gone when it has stopped.
THEOREM AnswersAreKept == ServicesSpec => []ServiceAnswersKept
<1>1. ServicesInv => ServiceAnswersKept
  BY DEF ServicesInv, SeenInv, GoneInv, ServiceAnswersKept
<1> QED BY ServicesInvariance, <1>1, PTL

----------------------------------------------------------------------------
(* Toast: the inductive invariant. *)

\* A toast is in the list once.
OnceInv ==
    \A i, j \in 1 .. Len(stack) : stack[i] = stack[j] => i = j

\* Only toasts of the list have a running time or the pointer on them.
TimerInv == timer \subseteq Shown /\ hover \subseteq Shown

\* The places of a parent that is h high, behind the corner.
Room(h) == IF h > 2 THEN h - 2 ELSE 0

\* The list is never longer than what had room when it was filled last, and the
\* one toast in the corner.
RoomInv == Len(stack) <= Room(shownAt) + 1

ToastInv == ToastTypeOK /\ OnceInv /\ TimerInv /\ RoomInv /\ StackInOrder

----------------------------------------------------------------------------
(* Toast: facts about the operators. *)

LEMMA HeightIs ==
    ASSUME ToastTypeOK
    PROVE  /\ height \in Nat /\ height > 0 /\ shownAt \in Nat /\ shownAt > 0
           /\ Room(height) \in Nat /\ Room(shownAt) \in Nat
           /\ Len(stack) \in Nat
           /\ \A i \in 1 .. Len(stack) : stack[i] \in Toasts
BY ToastAssumption DEF ToastAssumption, ToastTypeOK, Room

LEMMA OverflowsIs ==
    ASSUME ToastTypeOK, NEW i \in Nat
    PROVE  Overflows(i) <=> i >= height - 1
BY HeightIs DEF Overflows, Place, Corner, ToastTypeOK, Positions

LEMMA KeptIs ==
    ASSUME ToastTypeOK
    PROVE  /\ Kept \in Nat /\ Kept <= Len(stack) /\ Kept <= Room(height)
           /\ Kept = Len(stack) \/ Kept = Room(height)
           /\ Kept >= 1 => height - 2 >= 1
<1> DEFINE K == IF Len(stack) <= Room(height) THEN Len(stack) ELSE Room(height)
<1>1. K \in Nat
  BY HeightIs
<1>2. {i \in 1 .. Len(stack) : ~ Overflows(i)} = 1 .. K
  <2>1. ASSUME NEW i \in 1 .. Len(stack)
        PROVE  ~ Overflows(i) <=> i \in 1 .. K
    <3>1. ~ Overflows(i) <=> i < height - 1
      BY HeightIs, OverflowsIs
    <3> QED BY <3>1, HeightIs DEF Room
  <2>2. 1 .. K \subseteq 1 .. Len(stack)
    BY HeightIs
  <2> HIDE DEF K
  <2> QED BY <2>1, <2>2
<1>3. Kept = K
  <2> HIDE DEF K
  <2>1. Cardinality(1 .. K) = IF 1 > K THEN 0 ELSE K - 1 + 1
    BY <1>1, FS_Interval
  <2>2. Cardinality(1 .. K) = K
    BY <1>1, <2>1
  <2> QED BY <1>2, <2>2 DEF Kept
<1> QED BY <1>1, <1>3, HeightIs DEF Room

LEMMA ShownIs ==
    ASSUME ToastTypeOK
    PROVE  Shown = {stack[i] : i \in 1 .. Len(stack)}
BY DEF Shown, Range, ToastTypeOK

\* The list without its k-th toast.
LEMMA RemoveAtIs ==
    ASSUME ToastTypeOK, NEW k \in 1 .. Len(stack)
    PROVE  /\ RemoveAt(stack, k) \in Seq(Toasts)
           /\ Len(RemoveAt(stack, k)) = Len(stack) - 1
           /\ \A i \in 1 .. Len(stack) - 1 :
                RemoveAt(stack, k)[i] = IF i < k THEN stack[i] ELSE stack[i + 1]
<1> DEFINE a == SubSeq(stack, 1, k - 1)
           b == SubSeq(stack, k + 1, Len(stack))
<1>1. /\ Len(stack) \in Nat /\ k \in Int
      /\ \A i \in 1 .. Len(stack) : stack[i] \in Toasts
  BY HeightIs
<1>2. /\ a \in Seq(Toasts) /\ Len(a) = k - 1
      /\ \A i \in 1 .. k - 1 : a[i] = stack[i]
  <2>1. \A i \in 1 .. k - 1 : stack[i] \in Toasts
    BY <1>1
  <2> QED BY <1>1, <2>1, SubSeqProperties
<1>3. /\ b \in Seq(Toasts) /\ Len(b) = Len(stack) - k
      /\ \A i \in 1 .. Len(stack) - k : b[i] = stack[k + i]
  <2>1. \A i \in k + 1 .. Len(stack) : stack[i] \in Toasts
    BY <1>1
  <2>2. /\ b \in Seq(Toasts)
        /\ Len(b) = IF k + 1 <= Len(stack) THEN Len(stack) - (k + 1) + 1 ELSE 0
        /\ \A i \in 1 .. Len(stack) - (k + 1) + 1 : b[i] = stack[(k + 1) + i - 1]
    BY <1>1, <2>1, SubSeqProperties
  <2> HIDE DEF b
  <2> QED BY <1>1, <2>2
<1> HIDE DEF a, b
<1>4. /\ a \o b \in Seq(Toasts) /\ Len(a \o b) = Len(a) + Len(b)
      /\ \A i \in 1 .. Len(a) + Len(b) :
           (a \o b)[i] = IF i <= Len(a) THEN a[i] ELSE b[i - Len(a)]
  BY <1>2, <1>3, ConcatProperties
<1>5. RemoveAt(stack, k) = a \o b
  BY DEF RemoveAt, a, b
<1>6. ASSUME NEW i \in 1 .. Len(stack) - 1
      PROVE  (a \o b)[i] = IF i < k THEN stack[i] ELSE stack[i + 1]
  <2>1. i \in 1 .. Len(a) + Len(b)
    BY <1>1, <1>2, <1>3
  <2>2. CASE i < k
    BY <1>1, <1>2, <1>4, <2>1, <2>2
  <2>3. CASE ~(i < k)
    <3>1. (a \o b)[i] = b[i - (k - 1)]
      BY <1>1, <1>2, <1>4, <2>1, <2>3
    <3>2. i - (k - 1) \in 1 .. Len(stack) - k
      BY <1>1, <2>3
    <3>3. b[i - (k - 1)] = stack[k + (i - (k - 1))]
      BY <1>3, <3>2
    <3>4. k + (i - (k - 1)) = i + 1
      BY <1>1
    <3> QED BY <2>3, <3>1, <3>3, <3>4
  <2> QED BY <2>2, <2>3
<1>7. Len(a \o b) = Len(stack) - 1
  BY <1>1, <1>2, <1>3, <1>4
<1> QED BY <1>4, <1>5, <1>6, <1>7

\* The list with a new toast in front of the n that stay.
LEMMA FrontIs ==
    ASSUME ToastTypeOK, NEW t \in Toasts, NEW n \in 0 .. Len(stack),
           stack' = <<t>> \o SubSeq(stack, 1, n)
    PROVE  /\ stack' \in Seq(Toasts) /\ Len(stack') = n + 1 /\ stack'[1] = t
           /\ \A i \in 2 .. n + 1 : stack'[i] = stack[i - 1]
<1> DEFINE b == SubSeq(stack, 1, n)
           s == <<t>> \o b
<1>1. /\ b \in Seq(Toasts) /\ Len(b) = n
      /\ \A i \in 1 .. n : b[i] = stack[i]
  <2>1. /\ Len(stack) \in Nat /\ n \in Int
        /\ \A i \in 1 .. n : stack[i] \in Toasts
    BY HeightIs
  <2>2. /\ b \in Seq(Toasts) /\ Len(b) = (IF 1 <= n THEN n - 1 + 1 ELSE 0)
        /\ \A i \in 1 .. n - 1 + 1 : b[i] = stack[1 + i - 1]
    BY <2>1, SubSeqProperties
  <2> HIDE DEF b
  <2>3. n \in Nat /\ n - 1 + 1 = n /\ \A i \in 1 .. n : 1 + i - 1 = i
    BY <2>1
  <2>4. Len(b) = n
    BY <2>2, <2>3
  <2> QED BY <2>2, <2>3, <2>4
<1> HIDE DEF b
<1>2. <<t>> \in Seq(Toasts) /\ Len(<<t>>) = 1 /\ <<t>>[1] = t
  OBVIOUS
<1>3. s = <<t>> \o b /\ stack' = s
  BY DEF b
<1> HIDE DEF s
<1>4. /\ s \in Seq(Toasts) /\ Len(s) = 1 + n
      /\ \A i \in 1 .. 1 + n : s[i] = IF i <= 1 THEN <<t>>[i] ELSE b[i - 1]
  BY <1>1, <1>2, <1>3, ConcatProperties
<1> QED BY <1>1, <1>2, <1>3, <1>4

----------------------------------------------------------------------------
(* Toast: each action keeps the invariant. *)

\* Where a step leaves the list and the toasts alone.
LEMMA ToastQuiet ==
    ASSUME ToastInv, UNCHANGED <<stack, y, position, shownAt>>,
           timer' \subseteq Shown, hover' \subseteq Shown,
           height' \in Heights, mgr' \in {"alive", "destroyed", "crashed"}
    PROVE  ToastInv'
<1>1. ToastTypeOK'
  <2>1. Shown \subseteq Toasts
    BY ShownIs, HeightIs DEF ToastInv
  <2> QED BY <2>1 DEF ToastInv, ToastTypeOK
<1>2. OnceInv' /\ TimerInv' /\ RoomInv'
  BY DEF ToastInv, OnceInv, TimerInv, RoomInv, Shown
<1>3. StackInOrder'
  BY DEF ToastInv, StackInOrder
<1> QED BY <1>1, <1>2, <1>3 DEF ToastInv

\* What closing the k-th toast does to the list and to the others' places.
LEMMA CloseIs ==
    ASSUME ToastInv, mgr = "alive", NEW t \in Shown, CloseToast(t)
    PROVE  \E k \in 1 .. Len(stack) :
             /\ stack[k] = t /\ stack' = RemoveAt(stack, k)
             /\ \A i \in 1 .. Len(stack) :
                  y'[stack[i]] =
                     IF i > k
                     THEN y[stack[i]] + IF position = "RIGHT_BOTTOM" THEN 1 ELSE -1
                     ELSE y[stack[i]]
             /\ y' \in [Toasts -> Int]
             /\ hover' = hover \ {t} /\ UNCHANGED mgr
<1> DEFINE k == CHOOSE i \in 1 .. Len(stack) : stack[i] = t
           up == IF position = "RIGHT_BOTTOM" THEN 1 ELSE -1
<1>1. k \in 1 .. Len(stack) /\ stack[k] = t
  <2>1. \E i \in 1 .. Len(stack) : stack[i] = t
    BY ShownIs DEF ToastInv
  <2> QED BY <2>1
<1>2. /\ stack' = RemoveAt(stack, k)
      /\ y' = [u \in Toasts |->
                 IF \E i \in k + 1 .. Len(stack) : stack[i] = u
                 THEN y[u] + up ELSE y[u]]
      /\ hover' = hover \ {t} /\ UNCHANGED mgr
  BY DEF CloseToast
<1> HIDE DEF k
<1>3. y' \in [Toasts -> Int]
  <2>1. up \in Int /\ y \in [Toasts -> Int]
    BY DEF ToastInv, ToastTypeOK
  <2> HIDE DEF up
  <2> QED BY <1>2, <2>1
<1>4. ASSUME NEW i \in 1 .. Len(stack)
      PROVE  y'[stack[i]] = IF i > k THEN y[stack[i]] + up ELSE y[stack[i]]
  <2>1. stack[i] \in Toasts /\ Len(stack) \in Nat
    BY HeightIs DEF ToastInv
  <2>2. (\E j \in k + 1 .. Len(stack) : stack[j] = stack[i]) <=> i > k
    BY <1>1, <2>1 DEF ToastInv, OnceInv
  <2> HIDE DEF up
  <2> QED BY <1>2, <2>1, <2>2
<1> QED BY <1>1, <1>2, <1>3, <1>4

LEMMA ToastCloses ==
    ASSUME ToastInv, mgr = "alive", NEW t \in Shown, CloseToast(t),
           timer' = timer \ {t}, UNCHANGED <<position, height, shownAt>>
    PROVE  ToastInv'
<1>1. PICK k \in 1 .. Len(stack) :
         /\ stack[k] = t /\ stack' = RemoveAt(stack, k)
         /\ \A i \in 1 .. Len(stack) :
              y'[stack[i]] =
                 IF i > k
                 THEN y[stack[i]] + IF position = "RIGHT_BOTTOM" THEN 1 ELSE -1
                 ELSE y[stack[i]]
         /\ y' \in [Toasts -> Int]
         /\ hover' = hover \ {t} /\ UNCHANGED mgr
  BY CloseIs
<1>2. /\ stack' \in Seq(Toasts) /\ Len(stack') = Len(stack) - 1
      /\ \A i \in 1 .. Len(stack) - 1 :
           stack'[i] = IF i < k THEN stack[i] ELSE stack[i + 1]
  BY <1>1, RemoveAtIs DEF ToastInv
<1>3. /\ Len(stack) \in Nat /\ k \in Nat /\ Room(shownAt) \in Nat
      /\ \A i \in 1 .. Len(stack) : stack[i] \in Toasts
      /\ \A i \in 1 .. Len(stack) : y[stack[i]] \in Int
  BY HeightIs DEF ToastInv, ToastTypeOK
<1>4. ToastTypeOK'
  BY <1>1, <1>2 DEF ToastInv, ToastTypeOK
<1>5. OnceInv'
  BY <1>2, <1>3 DEF ToastInv, OnceInv
<1>6. TimerInv'
  <2>1. Shown' = {stack'[i] : i \in 1 .. Len(stack')}
    BY <1>4 DEF Shown, Range, ToastTypeOK
  <2>2. ASSUME NEW u \in Shown, u # t PROVE u \in Shown'
    <3>1. PICK i \in 1 .. Len(stack) : stack[i] = u
      BY ShownIs DEF ToastInv
    <3>2. i # k
      BY <1>1, <2>2, <3>1
    <3>3. CASE i < k
      <4>1. i \in 1 .. Len(stack) - 1 /\ stack'[i] = u
        BY <1>2, <1>3, <3>1, <3>3
      <4> QED BY <1>2, <2>1, <4>1
    <3>4. CASE i > k
      <4>1. i - 1 \in 1 .. Len(stack) - 1 /\ stack'[i - 1] = u
        BY <1>2, <1>3, <3>1, <3>4
      <4> QED BY <1>2, <2>1, <4>1
    <3> QED BY <1>3, <3>2, <3>3, <3>4
  <2>3. t \notin timer' /\ t \notin hover'
    BY <1>1
  <2> QED BY <1>1, <2>2, <2>3 DEF ToastInv, TimerInv
<1>7. RoomInv'
  BY <1>2, <1>3 DEF ToastInv, RoomInv, Room
<1>8. StackInOrder'
  <2> SUFFICES ASSUME NEW i \in 1 .. Len(stack) - 2
               PROVE  IF position = "RIGHT_TOP"
                      THEN /\ y'[stack'[1]] = 0
                           /\ y'[stack'[i + 1]] = y'[stack'[i]] + 1
                      ELSE \/ y'[stack'[i + 1]] = y'[stack'[i]] - 1
                           \/ /\ i = 1 /\ y'[stack'[1]] = 0
                              /\ y'[stack'[2]] # 0
    BY <1>2, <1>3 DEF StackInOrder
  <2> DEFINE Y(j) == y[stack[j]]
             up == IF position = "RIGHT_BOTTOM" THEN 1 ELSE -1
             Z(j) == IF j < k THEN Y(j) ELSE Y(j + 1) + up
  <2>1. ASSUME NEW j \in 1 .. Len(stack) - 1 PROVE y'[stack'[j]] = Z(j)
    <3>1. CASE j < k
      <4>1. stack'[j] = stack[j] /\ j \in 1 .. Len(stack) /\ ~(j > k)
        BY <1>2, <1>3, <3>1
      <4> QED BY <1>1, <3>1, <4>1
    <3>2. CASE ~(j < k)
      <4>1. /\ stack'[j] = stack[j + 1] /\ j + 1 \in 1 .. Len(stack)
            /\ j + 1 > k
        BY <1>2, <1>3, <3>2
      <4> QED BY <1>1, <3>2, <4>1
    <3> QED BY <3>1, <3>2
  <2>2. ASSUME NEW j \in 1 .. Len(stack) - 1
        PROVE  IF position = "RIGHT_TOP"
               THEN Y(1) = 0 /\ Y(j + 1) = Y(j) + 1
               ELSE \/ Y(j + 1) = Y(j) - 1
                    \/ j = 1 /\ Y(1) = 0 /\ Y(2) # 0
    BY DEF ToastInv, StackInOrder
  <2>3. \A j \in 1 .. Len(stack) : Y(j) \in Int
    BY <1>3
  <2>4. position \in {"RIGHT_BOTTOM", "RIGHT_TOP"}
    BY DEF ToastInv, ToastTypeOK, Positions
  <2>5. /\ i \in 1 .. Len(stack) - 1 /\ i + 1 \in 1 .. Len(stack) - 1
        /\ 1 \in 1 .. Len(stack) - 1 /\ 2 \in 1 .. Len(stack) - 1
        /\ i \in Nat /\ Len(stack) >= 3
    BY <1>3
  <2> HIDE DEF Y
  <2>6. CASE position = "RIGHT_TOP"
    <3>1. Z(1) = 0
      BY <1>3, <2>2, <2>3, <2>5, <2>6
    <3>2. Z(i + 1) = Z(i) + 1
      <4>1. Y(i + 1) = Y(i) + 1 /\ Y(i + 2) = Y(i + 1) + 1
        BY <2>2, <2>5, <2>6
      <4>2. Y(i) \in Int /\ Y(i + 1) \in Int /\ Y(i + 2) \in Int
        BY <1>3, <2>3, <2>5
      <4> QED BY <1>3, <2>5, <2>6, <4>1, <4>2
    <3> HIDE DEF Z
    <3> QED BY <2>1, <2>5, <2>6, <3>1, <3>2
  <2>7. CASE position = "RIGHT_BOTTOM"
    <3>1. \/ Z(i + 1) = Z(i) - 1
          \/ i = 1 /\ Z(1) = 0 /\ Z(2) # 0
      <4>1. /\ \/ Y(i + 1) = Y(i) - 1
               \/ i = 1 /\ Y(1) = 0 /\ Y(2) # 0
            /\ Y(i + 2) = Y(i + 1) - 1
        BY <1>3, <2>2, <2>5, <2>7
      <4>2. Y(i) \in Int /\ Y(i + 1) \in Int /\ Y(i + 2) \in Int
        BY <1>3, <2>3, <2>5
      <4>3. CASE i + 1 < k
        BY <1>3, <2>5, <2>7, <4>1, <4>3
      <4>4. CASE i + 1 = k
        BY <1>3, <2>5, <2>7, <4>1, <4>2, <4>4
      <4>5. CASE i + 1 > k
        BY <1>3, <2>5, <2>7, <4>1, <4>2, <4>5
      <4> QED BY <1>3, <2>5, <4>3, <4>4, <4>5
    <3> HIDE DEF Z
    <3> QED BY <2>1, <2>5, <2>7, <3>1
  <2> QED BY <2>4, <2>6, <2>7
<1> QED BY <1>4, <1>5, <1>6, <1>7, <1>8 DEF ToastInv

\* A toast is shown: those that have no room go.
LEMMA ToastShows == ASSUME ToastInv, Show PROVE ToastInv'
<1>1. PICK t \in Toasts \ Shown, pos \in {position, "RIGHT_TOP"} :
         PutInFront(t, pos)
  BY DEF Show
<1>2. UNCHANGED <<position, height>>
  BY DEF Show
<1>3. CASE mgr' = "crashed" /\ UNCHANGED <<stack, y, timer, hover, shownAt>>
  BY <1>2, <1>3, ToastQuiet DEF ToastInv, TimerInv, ToastTypeOK
<1>4. CASE ~(mgr' = "crashed" /\ UNCHANGED <<stack, y, timer, hover, shownAt>>)
  <2>1. /\ stack' = <<t>> \o SubSeq(stack, 1, Kept)
        /\ y' = [u \in Toasts |->
                   IF u = t THEN Corner(pos)
                   ELSE IF \E i \in 1 .. Kept : stack[i] = u
                   THEN Place(CHOOSE i \in 1 .. Kept : stack[i] = u)
                   ELSE y[u]]
        /\ timer' = (timer \cap Range(stack')) \cup {t}
        /\ hover' = hover \cap Range(stack')
        /\ shownAt' = height /\ UNCHANGED mgr
    BY <1>1, <1>4 DEF PutInFront
  <2>2. /\ Kept \in 0 .. Len(stack) /\ Kept \in Nat /\ Kept <= Room(height)
        /\ Kept >= 1 => height - 2 >= 1
    BY KeptIs, HeightIs DEF ToastInv
  <2>3. /\ stack' \in Seq(Toasts) /\ Len(stack') = Kept + 1 /\ stack'[1] = t
        /\ \A i \in 2 .. Kept + 1 : stack'[i] = stack[i - 1]
    <3> DEFINE n == Kept
    <3>1. n \in 0 .. Len(stack) /\ stack' = <<t>> \o SubSeq(stack, 1, n)
      BY <2>1, <2>2
    <3> HIDE DEF n
    <3>2. ToastTypeOK /\ t \in Toasts
      BY DEF ToastInv
    <3>3. /\ stack' \in Seq(Toasts) /\ Len(stack') = n + 1 /\ stack'[1] = t
          /\ \A i \in 2 .. n + 1 : stack'[i] = stack[i - 1]
      BY <3>1, <3>2, FrontIs
    <3> QED BY <3>3 DEF n
  <2>4. \A i \in 1 .. Len(stack) : stack[i] # t /\ stack[i] \in Toasts
    BY ShownIs, HeightIs DEF ToastInv
  <2>5. /\ height \in Nat /\ Len(stack) \in Nat /\ Room(height) \in Nat
        /\ position \in {"RIGHT_BOTTOM", "RIGHT_TOP"}
        /\ pos \in {"RIGHT_BOTTOM", "RIGHT_TOP"}
    BY HeightIs DEF ToastInv, ToastTypeOK, Positions
  <2>6. y'[stack'[1]] = Corner(pos)
    BY <2>1, <2>3
  <2>7. ASSUME NEW i \in 1 .. Kept PROVE y'[stack'[i + 1]] = Place(i)
    <3>1. i + 1 \in 2 .. Kept + 1 /\ (i + 1) - 1 = i /\ i \in 1 .. Len(stack)
      BY <2>2, <2>5
    <3>2. stack'[i + 1] = stack[i] /\ stack[i] \in Toasts /\ stack[i] # t
      BY <2>3, <2>4, <3>1
    <3>3. (CHOOSE j \in 1 .. Kept : stack[j] = stack[i]) = i
      <4>1. \A j \in 1 .. Kept : stack[j] = stack[i] => j = i
        BY <2>2, <2>5, <3>1 DEF ToastInv, OnceInv
      <4> QED BY <4>1
    <3> QED BY <2>1, <3>2, <3>3
  <2>8. Corner(pos) \in Int /\ \A i \in Nat : Place(i) \in Int
    BY <2>5 DEF Corner, Place
  <2>9. y' \in [Toasts -> Int]
    <3>1. ASSUME NEW u \in Toasts PROVE y'[u] \in Int
      <4>1. CASE u = t
        BY <2>1, <2>8, <4>1
      <4>2. CASE u # t /\ \E i \in 1 .. Kept : stack[i] = u
        <5>1. (CHOOSE i \in 1 .. Kept : stack[i] = u) \in 1 .. Kept
          BY <4>2
        <5>2. (CHOOSE i \in 1 .. Kept : stack[i] = u) \in Nat
          BY <2>2, <5>1
        <5>3. y'[u] = Place(CHOOSE i \in 1 .. Kept : stack[i] = u)
          BY <2>1, <4>2
        <5> QED BY <2>8, <5>2, <5>3
      <4>3. CASE u # t /\ ~ \E i \in 1 .. Kept : stack[i] = u
        BY <2>1, <4>3 DEF ToastInv, ToastTypeOK
      <4> QED BY <4>1, <4>2, <4>3
    <3>2. y' = [u \in Toasts |-> y'[u]]
      BY <2>1
    <3> QED BY <3>1, <3>2
  <2>10. Range(stack') = {stack'[i] : i \in 1 .. Len(stack')}
    BY <2>3 DEF Range
  <2>11. ToastTypeOK'
    <3>1. timer' \subseteq Toasts /\ hover' \subseteq Toasts
      BY <2>1 DEF ToastInv, ToastTypeOK
    <3> QED BY <1>2, <2>1, <2>3, <2>9, <3>1 DEF ToastInv, ToastTypeOK
  <2>12. OnceInv'
    <3>1. ASSUME NEW i \in 1 .. Kept + 1, NEW j \in 1 .. Kept + 1,
                 stack'[i] = stack'[j]
          PROVE  i = j
      <4>1. CASE i = 1 /\ j # 1
        <5>1. j \in 2 .. Kept + 1 /\ j - 1 \in 1 .. Len(stack)
          BY <2>2, <2>5, <4>1
        <5> QED BY <2>3, <2>4, <3>1, <4>1, <5>1
      <4>2. CASE i # 1 /\ j = 1
        <5>1. i \in 2 .. Kept + 1 /\ i - 1 \in 1 .. Len(stack)
          BY <2>2, <2>5, <4>2
        <5> QED BY <2>3, <2>4, <3>1, <4>2, <5>1
      <4>3. CASE i # 1 /\ j # 1
        <5>1. /\ i \in 2 .. Kept + 1 /\ i - 1 \in 1 .. Len(stack)
              /\ j \in 2 .. Kept + 1 /\ j - 1 \in 1 .. Len(stack)
          BY <2>2, <2>5, <4>3
        <5>2. stack[i - 1] = stack[j - 1]
          BY <2>3, <3>1, <5>1
        <5>3. i - 1 = j - 1
          BY <5>1, <5>2 DEF ToastInv, OnceInv
        <5> QED BY <2>2, <5>1, <5>3
      <4> QED BY <4>1, <4>2, <4>3
    <3> QED BY <2>3, <3>1 DEF OnceInv
  <2>13. TimerInv'
    <3>1. t \in Range(stack')
      <4>1. 1 \in 1 .. Len(stack')
        BY <2>2, <2>3
      <4> QED BY <2>3, <2>10, <4>1
    <3> QED BY <2>1, <3>1 DEF TimerInv, Shown
  <2>14. RoomInv'
    <3>1. Room(shownAt)' = Room(height)
      BY <2>1 DEF Room
    <3> QED BY <2>2, <2>3, <2>5, <3>1 DEF RoomInv
  <2>15. StackInOrder'
    <3> SUFFICES ASSUME NEW i \in 1 .. Kept
                 PROVE  IF position = "RIGHT_TOP"
                        THEN /\ y'[stack'[1]] = 0
                             /\ y'[stack'[i + 1]] = y'[stack'[i]] + 1
                        ELSE \/ y'[stack'[i + 1]] = y'[stack'[i]] - 1
                             \/ /\ i = 1 /\ y'[stack'[1]] = 0
                                /\ y'[stack'[2]] # 0
      <4>1. Len(stack') - 1 = Kept
        BY <2>2, <2>3
      <4> QED BY <1>2, <4>1 DEF StackInOrder
    <3>1. y'[stack'[i + 1]] = Place(i)
      BY <2>7
    <3>2. i # 1 => y'[stack'[i]] = Place(i - 1)
      <4>1. i # 1 => i - 1 \in 1 .. Kept /\ (i - 1) + 1 = i
        BY <2>2
      <4> QED BY <2>7, <4>1
    <3>3. height - 2 >= 1
      BY <2>2
    <3>4. CASE position = "RIGHT_TOP"
      <4>1. Corner(pos) = 0 /\ Place(i) = i /\ Place(i - 1) = i - 1
        BY <3>4 DEF Corner, Place
      <4> QED BY <2>2, <2>6, <3>1, <3>2, <3>4, <4>1
    <3>5. CASE position = "RIGHT_BOTTOM"
      <4>1. /\ Corner(pos) = height - 1 \/ Corner(pos) = 0
            /\ Place(i) = (height - 1) - i
            /\ Place(i - 1) = (height - 1) - (i - 1)
        BY <2>5, <3>5 DEF Corner, Place
      <4>2. CASE i = 1
        <5>1. y'[stack'[2]] = height - 2 /\ i + 1 = 2
          BY <2>5, <3>1, <4>1, <4>2
        <5> QED BY <2>5, <2>6, <3>3, <3>5, <4>1, <4>2, <5>1
      <4>3. CASE i # 1
        BY <2>2, <2>5, <3>1, <3>2, <3>5, <4>1, <4>3
      <4> QED BY <4>2, <4>3
    <3> QED BY <2>5, <3>4, <3>5
  <2> QED BY <2>11, <2>12, <2>13, <2>14, <2>15 DEF ToastInv
<1> QED BY <1>3, <1>4

LEMMA ToastInitially == ToastInit => ToastInv
<1> SUFFICES ASSUME ToastInit PROVE ToastInv
  OBVIOUS
<1>1. stack = <<>> /\ stack \in Seq(Toasts) /\ Len(stack) = 0
  BY DEF ToastInit
<1>2. ToastTypeOK
  BY <1>1 DEF ToastInit, ToastTypeOK, Positions
<1>3. OnceInv /\ StackInOrder
  BY <1>1 DEF OnceInv, StackInOrder
<1>4. TimerInv
  BY DEF ToastInit, TimerInv
<1>5. RoomInv
  BY <1>1, <1>2, HeightIs DEF RoomInv
<1> QED BY <1>2, <1>3, <1>4, <1>5 DEF ToastInv

LEMMA ToastInductive == ToastInv /\ [ToastNext]_toastVars => ToastInv'
<1> SUFFICES ASSUME ToastInv, [ToastNext]_toastVars PROVE ToastInv'
  OBVIOUS
<1>1. CASE SetPosition
  <2>1. stack' = <<>> /\ stack' \in Seq(Toasts) /\ Len(stack') = 0
    BY <1>1 DEF SetPosition
  <2>2. ToastTypeOK'
    BY <1>1, <2>1 DEF SetPosition, ToastInv, ToastTypeOK
  <2>3. OnceInv' /\ StackInOrder'
    BY <2>1 DEF OnceInv, StackInOrder
  <2>4. TimerInv'
    BY <1>1 DEF SetPosition, TimerInv
  <2>5. RoomInv'
    <3>1. UNCHANGED shownAt
      BY <1>1 DEF SetPosition
    <3> QED BY <2>1, <3>1, HeightIs DEF ToastInv, RoomInv, Room
  <2> QED BY <2>2, <2>3, <2>4, <2>5 DEF ToastInv
<1>2. CASE MgrEnds \/ Resize \/ UNCHANGED toastVars
  BY <1>2, ToastQuiet
     DEF MgrEnds, Resize, toastVars, ToastInv, TimerInv, ToastTypeOK
<1>3. ASSUME NEW t \in Toasts, Enter(t) \/ Leave(t)
      PROVE  ToastInv'
  BY <1>3, ToastQuiet DEF Enter, Leave, ToastInv, TimerInv, ToastTypeOK
<1>4. ASSUME NEW t \in Toasts, TimeIsUp(t) \/ Click(t)
      PROVE  ToastInv'
  <2>1. /\ t \in Shown /\ CloseToast(t) /\ mgr # "crashed"
        /\ UNCHANGED <<position, height, shownAt>>
    BY <1>4 DEF TimeIsUp, Click, ToastInv, TimerInv
  <2>2. CASE mgr = "alive"
    <3>1. timer' = timer \ {t}
      BY <1>4, <2>2 DEF TimeIsUp, Click
    <3> QED BY <2>1, <2>2, <3>1, ToastCloses
  <2>3. CASE mgr # "alive"
    <3>1. timer' \subseteq timer
      BY <1>4, <2>3 DEF TimeIsUp, Click
    <3>2. mgr' \in {"destroyed", "crashed"} /\ UNCHANGED <<stack, y, hover>>
      BY <2>1, <2>3 DEF CloseToast
    <3> QED BY <2>1, <3>1, <3>2, ToastQuiet DEF ToastInv, TimerInv, ToastTypeOK
  <2> QED BY <2>2, <2>3
<1> QED BY <1>1, <1>2, <1>3, <1>4, ToastShows DEF ToastNext

THEOREM ToastInvariance == ToastSpec => []ToastInv
BY ToastInitially, ToastInductive, PTL DEF ToastSpec

\* SharedQToastNotification.cpp:60-161: however many toasts are shown, closed by
\* time or by a click, and however high the parent is meanwhile, the toasts
\* stand in their order, one place apart.
THEOREM StackOrdered == ToastSpec => []StackInOrder
<1>1. ToastInv => StackInOrder
  BY DEF ToastInv
<1> QED BY <1>1, ToastInvariance, PTL

\* SharedQToastNotification.cpp:60-161: the loop of MoveStack, which removes from
\* the vector it walks over, is undefined only after the parent became smaller.
THEOREM OnlyWhenSmaller == ToastSpec => CrashesOnlyWhenSmaller
<1>1. ASSUME ToastInv, [ToastNext]_toastVars
      PROVE  [mgr = "alive" /\ mgr' = "crashed" => height < shownAt]_toastVars
  <2> SUFFICES ASSUME ToastNext, mgr = "alive", mgr' = "crashed"
               PROVE  height < shownAt
    BY <1>1
  <2>1. Show
    BY DEF ToastNext, SetPosition, MgrEnds, Resize, TimeIsUp, Click, Enter,
           Leave, CloseToast
  <2>2. Len(stack) - Kept > 1
    BY <2>1 DEF Show, PutInFront
  <2>3. /\ height \in Nat /\ shownAt \in Nat /\ Kept \in Nat
        /\ Len(stack) \in Nat
        /\ Kept = Len(stack) \/ Kept = Room(height)
        /\ Len(stack) <= Room(shownAt) + 1
    BY <1>1, HeightIs, KeptIs DEF ToastInv, RoomInv
  <2>4. Room(height) < Room(shownAt)
    BY <2>2, <2>3 DEF Room
  <2> QED BY <2>3, <2>4 DEF Room
<1> QED BY <1>1, ToastInvariance, PTL DEF ToastSpec, CrashesOnlyWhenSmaller

----------------------------------------------------------------------------
(* Text: strings. *)

Strings == Seq(Digits \cup {Dot})

LEMMA StringIs ==
    ASSUME NEW s \in Strings
    PROVE  /\ Len(s) \in Nat /\ DOMAIN s = 1 .. Len(s) /\ s \in Seq(Int)
           /\ \A i \in 1 .. Len(s) :
                s[i] \in Nat /\ s[i] <= 10 /\ (s[i] # Dot => s[i] \in Digits)
<1>1. Digits \cup {Dot} \subseteq 0 .. 10
  BY TextAssumption DEF Dot
<1>2. \A i \in 1 .. Len(s) : s[i] \in Digits \cup {Dot}
  BY DEF Strings
<1>3. Len(s) \in Nat /\ DOMAIN s = 1 .. Len(s)
  BY DEF Strings
<1>4. s \in Seq(Int)
  BY <1>1, SeqOfMore DEF Strings
<1> QED BY <1>1, <1>2, <1>3, <1>4

LEMMA TextIs ==
    ASSUME NEW s \in Texts
    PROVE  s \in Strings /\ Len(s) <= MaxLen /\ MaxLen \in Nat
<1>1. PICK k \in 0 .. MaxLen : s \in [1 .. k -> Digits \cup {Dot}]
  BY DEF Texts
<1>2. k \in Nat /\ MaxLen \in Nat
  BY TextAssumption
<1>3. s \in Seq(Digits \cup {Dot}) /\ Len(s) = k
  BY <1>1, <1>2, SeqDef
<1> QED BY <1>2, <1>3 DEF Strings

LEMMA MinIs ==
    ASSUME NEW S \in SUBSET Nat, S # {}
    PROVE  Min(S) \in S /\ \A n \in S : Min(S) <= n
BY Smallest DEF Min

----------------------------------------------------------------------------
(* find and split. *)

LEMMA FindIs ==
    ASSUME NEW s \in Strings, NEW from \in 1 .. Len(s) + 1
    PROVE  \/ /\ Find(s, Separator, from) = 0
              /\ \A i \in from .. Len(s) : s[i] # Dot
           \/ /\ Find(s, Separator, from) \in from .. Len(s)
              /\ s[Find(s, Separator, from)] = Dot
              /\ \A i \in from .. Find(s, Separator, from) - 1 : s[i] # Dot
<1> DEFINE dots == {i \in from .. Len(s) : s[i] = Dot}
<1>1. Len(s) \in Nat /\ Len(Separator) = 1 /\ s \in Seq(Int)
  BY StringIs DEF Separator
<1>2. ASSUME NEW i \in from .. Len(s)
      PROVE  SubSeq(s, i, i + Len(Separator) - 1) = Separator <=> s[i] = Dot
  <2>1. i + Len(Separator) - 1 = i /\ i \in 1 .. Len(s)
    BY <1>1
  <2>2. SubSeq(s, i, i) = <<s[i]>>
    <3>1. /\ SubSeq(s, i, i) \in Seq(Int) /\ Len(SubSeq(s, i, i)) = 1
          /\ SubSeq(s, i, i)[1] = s[i]
      BY <1>1, <2>1, SubSeqProperties
    <3> DEFINE t == SubSeq(s, i, i)
    <3>2. t \in Seq(Int) /\ Len(t) = 1 /\ t[1] = s[i]
      BY <3>1
    <3> HIDE DEF t
    <3>3. t = <<s[i]>>
      BY <3>2
    <3> QED BY <3>3 DEF t
  <2> QED BY <2>1, <2>2 DEF Separator
<1>3. {i \in from .. Len(s) - Len(Separator) + 1 :
         SubSeq(s, i, i + Len(Separator) - 1) = Separator} = dots
  <2>1. Len(s) - Len(Separator) + 1 = Len(s)
    BY <1>1
  <2> QED BY <1>2, <2>1
<1>4. Find(s, Separator, from) = IF dots = {} THEN 0 ELSE Min(dots)
  BY <1>3 DEF Find
<1>5. CASE dots = {}
  BY <1>4, <1>5
<1>6. CASE dots # {}
  <2>1. dots \in SUBSET Nat
    BY <1>1
  <2>2. Min(dots) \in dots /\ \A n \in dots : Min(dots) <= n
    BY <1>6, <2>1, MinIs
  <2>3. Find(s, Separator, from) = Min(dots)
    BY <1>4, <1>6
  <2>4. ASSUME NEW i \in from .. Min(dots) - 1 PROVE s[i] # Dot
    BY <1>1, <2>2
  <2> QED BY <2>2, <2>3, <2>4
<1> QED BY <1>5, <1>6

\* p is what split makes of s behind each place from i on.
IsSplit(p, s, i) ==
    p = [j \in i .. Len(s) + 1 |->
           LET st == Find(s, Separator, j)
           IN  IF st = 0 THEN <<>>
               ELSE <<SubSeq(s, j, st - 1)>> \o p[st + Len(Separator)]]

LEMMA SplitExists ==
    ASSUME NEW s \in Strings
    PROVE  \E p : IsSplit(p, s, 1)
<1> DEFINE n == Len(s) + 1
           S == {k \in Nat : k <= n => \E p : IsSplit(p, s, n + 1 - k)}
<1>0. Len(s) \in Nat /\ n \in Nat /\ Len(Separator) = 1
  BY StringIs DEF Separator
<1>1. 0 \in S
  <2> DEFINE p == [j \in n + 1 .. n |-> <<>>]
  <2>1. n + 1 .. n = {} /\ n + 1 - 0 = n + 1
    BY <1>0
  <2>2. IsSplit(p, s, n + 1 - 0)
    BY <2>1 DEF IsSplit
  <2> QED BY <2>2
<1>2. ASSUME NEW k \in S PROVE k + 1 \in S
  <2> SUFFICES ASSUME k + 1 <= n PROVE \E p : IsSplit(p, s, n + 1 - (k + 1))
    OBVIOUS
  <2>1. PICK p : IsSplit(p, s, n + 1 - k)
    BY <1>0
  <2>2. PICK i \in 1 .. n : i = n + 1 - (k + 1) /\ i + 1 = n + 1 - k
    BY <1>0
  <2> DEFINE Value(q, j) == LET st == Find(s, Separator, j)
                            IN  IF st = 0 THEN <<>>
                                ELSE <<SubSeq(s, j, st - 1)>> \o q[st + 1]
             h == [j \in i .. n |-> IF j = i THEN Value(p, i) ELSE p[j]]
  <2>3. \A j \in i .. n : j # i => j \in i + 1 .. n
    BY <1>0
  <2>4. ASSUME NEW j \in i .. n PROVE Value(p, j) = Value(h, j)
    <3>1. j \in 1 .. n
      BY <1>0, <2>2
    <3> DEFINE st == Find(s, Separator, j)
    <3>2. st # 0 => st + 1 \in i .. n /\ st + 1 # i
      <4>1. st = 0 \/ st \in j .. Len(s)
        BY <3>1, FindIs
      <4> HIDE DEF st
      <4> QED BY <1>0, <2>2, <4>1
    <3>3. st # 0 => h[st + 1] = p[st + 1]
      BY <3>2
    <3> HIDE DEF h
    <3> QED BY <3>3
  <2>5. p = [j \in i + 1 .. n |-> Value(p, j)]
    BY <1>0, <2>1, <2>2 DEF IsSplit
  <2>6. ASSUME NEW j \in i .. n PROVE h[j] = Value(p, j)
    <3>1. j # i => p[j] = Value(p, j)
      <4> SUFFICES ASSUME j # i PROVE p[j] = Value(p, j)
        OBVIOUS
      <4>1. j \in i + 1 .. n
        BY <2>3
      <4> DEFINE V(m) == Value(p, m)
      <4>2. p = [m \in i + 1 .. n |-> V(m)]
        BY <2>5
      <4> HIDE DEF V
      <4>3. p[j] = V(j)
        BY <4>1, <4>2
      <4> QED BY <4>3 DEF V
    <3> HIDE DEF Value
    <3> QED BY <3>1
  <2>7. h = [j \in i .. n |-> Value(h, j)]
    <3>1. \A j \in i .. n : h[j] = Value(h, j)
      <4> HIDE DEF h, Value
      <4> QED BY <2>4, <2>6
    <3>2. h = [j \in i .. n |-> h[j]]
      BY Zenon
    <3> HIDE DEF h, Value
    <3> QED BY <3>1, <3>2, Zenon
  <2>8. IsSplit(h, s, i)
    BY <1>0, <2>7 DEF IsSplit
  <2> HIDE DEF h
  <2> QED BY <2>2, <2>8
<1> HIDE DEF S
<1>3. S = Nat
  BY <1>1, <1>2, SetInduction DEF S
<1>4. n \in S /\ n <= n /\ n + 1 - n = 1
  BY <1>0, <1>3
<1> QED BY <1>4 DEF S

LEMMA SplitIs ==
    ASSUME NEW s \in Strings
    PROVE  \E p : IsSplit(p, s, 1) /\ Split(s, Separator) = p[1]
<1> DEFINE p == CHOOSE p : IsSplit(p, s, 1)
<1>1. IsSplit(p, s, 1)
  BY SplitExists
<1>2. Split(s, Separator) = p[1]
  BY DEF Split, IsSplit
<1> QED BY <1>1, <1>2

----------------------------------------------------------------------------
(* The dots of a version. *)

LEMMA DotsIs ==
    ASSUME NEW s \in Strings
    PROVE  /\ Dots(s, 0) = 0
           /\ \A k \in 0 .. Len(s) : Dots(s, k) \in 0 .. k
           /\ \A k \in 1 .. Len(s) :
                Dots(s, k) = Dots(s, k - 1) + (IF s[k] = Dot THEN 1 ELSE 0)
<1> DEFINE D(k) == {j \in 1 .. k : s[j] = Dot}
<1>0. Len(s) \in Nat
  BY StringIs
<1>1. Dots(s, 0) = 0
  <2>1. D(0) = {}
    OBVIOUS
  <2> QED BY <2>1, FS_EmptySet DEF Dots
<1>2. ASSUME NEW k \in 0 .. Len(s)
      PROVE  IsFiniteSet(D(k)) /\ Dots(s, k) \in 0 .. k
  <2>1. k \in Nat /\ IsFiniteSet(1 .. k) /\ Cardinality(1 .. k) = k
    <3>1. k \in Nat
      BY <1>0
    <3>2. IsFiniteSet(1 .. k)
          /\ Cardinality(1 .. k) = IF 1 > k THEN 0 ELSE k - 1 + 1
      BY <3>1, FS_Interval
    <3> QED BY <3>1, <3>2
  <2>2. D(k) \in SUBSET (1 .. k)
    OBVIOUS
  <2>3. IsFiniteSet(D(k)) /\ Cardinality(D(k)) <= k /\ Cardinality(D(k)) \in Nat
    BY <2>1, <2>2, FS_Subset, FS_CardinalityType
  <2> QED BY <2>1, <2>3 DEF Dots
<1>3. ASSUME NEW k \in 1 .. Len(s)
      PROVE  Dots(s, k) = Dots(s, k - 1) + (IF s[k] = Dot THEN 1 ELSE 0)
  <2>1. k - 1 \in 0 .. Len(s) /\ IsFiniteSet(D(k - 1))
    BY <1>0, <1>2
  <2>2. CASE s[k] = Dot
    <3>1. D(k) = D(k - 1) \cup {k} /\ ~ (k \in D(k - 1))
      BY <1>0, <2>2
    <3>2. Cardinality(D(k - 1) \cup {k}) = Cardinality(D(k - 1)) + 1
      BY <2>1, <3>1, FS_AddElement
    <3> QED BY <2>2, <3>1, <3>2 DEF Dots
  <2>3. CASE s[k] # Dot
    <3>1. D(k) = D(k - 1)
      BY <1>0, <2>3
    <3>2. Dots(s, k - 1) \in Nat
      BY <1>2, <2>1
    <3>3. Dots(s, k) = Cardinality(D(k)) /\ Dots(s, k - 1) = Cardinality(D(k - 1))
      BY DEF Dots
    <3> HIDE DEF D
    <3> QED BY <2>3, <3>1, <3>2, <3>3
  <2> QED BY <2>2, <2>3
<1> QED BY <1>1, <1>2, <1>3

\* Between two places without a dot nothing is counted.
LEMMA DotsRise ==
    ASSUME NEW s \in Strings, NEW i \in 0 .. Len(s), NEW k \in i .. Len(s)
    PROVE  /\ Dots(s, i) <= Dots(s, k)
           /\ (\A j \in i + 1 .. k : s[j] # Dot) => Dots(s, i) = Dots(s, k)
<1> DEFINE P(d) == /\ Dots(s, i) <= Dots(s, i + d)
                   /\ (\A j \in i + 1 .. i + d : s[j] # Dot) =>
                        Dots(s, i) = Dots(s, i + d)
           S == {d \in Nat : i + d <= Len(s) => P(d)}
<1>0. Len(s) \in Nat /\ i \in Nat /\ Dots(s, i) \in Nat
  BY StringIs, DotsIs
<1>1. 0 \in S
  BY <1>0
<1>2. ASSUME NEW d \in S PROVE d + 1 \in S
  <2> SUFFICES ASSUME i + (d + 1) <= Len(s) PROVE P(d + 1)
    OBVIOUS
  <2>1. PICK m \in Nat : m = i + d
    BY <1>0
  <2>2. m + 1 = i + (d + 1) /\ m + 1 \in 1 .. Len(s) /\ m \in 0 .. Len(s)
        /\ (m + 1) - 1 = m /\ m + 1 \in i + 1 .. m + 1
    BY <1>0, <2>1
  <2>3. Dots(s, m + 1) = Dots(s, m) + (IF s[m + 1] = Dot THEN 1 ELSE 0)
        /\ Dots(s, m) \in Nat
    BY <2>2, DotsIs
  <2>4. /\ Dots(s, i) <= Dots(s, m)
        /\ (\A j \in i + 1 .. m : s[j] # Dot) => Dots(s, i) = Dots(s, m)
    BY <1>0, <2>1, <2>2
  <2>5. Dots(s, i) <= Dots(s, m + 1)
    BY <1>0, <2>3, <2>4
  <2>6. (\A j \in i + 1 .. m + 1 : s[j] # Dot) => Dots(s, i) = Dots(s, m + 1)
    <3> SUFFICES ASSUME \A j \in i + 1 .. m + 1 : s[j] # Dot
                 PROVE  Dots(s, i) = Dots(s, m + 1)
      OBVIOUS
    <3>1. s[m + 1] # Dot
      BY <2>2
    <3>2. \A j \in i + 1 .. m : s[j] # Dot
      BY <1>0, <2>1
    <3> QED BY <2>3, <2>4, <3>1, <3>2
  <2> QED BY <2>2, <2>5, <2>6
<1> HIDE DEF S
<1>3. S = Nat
  BY <1>1, <1>2, SetInduction DEF S
<1>4. PICK d \in Nat : k = i + d
  <2>1. k - i \in Nat /\ k = i + (k - i)
    BY <1>0
  <2> QED BY <2>1
<1>5. d \in S /\ i + d <= Len(s)
  BY <1>0, <1>3, <1>4
<1> QED BY <1>4, <1>5 DEF S

\* There is one i-th dot.
LEMMA DotAtIs ==
    ASSUME NEW s \in Strings, NEW k \in 1 .. Len(s), s[k] = Dot
    PROVE  DotAt(s, Dots(s, k)) = k
<1>1. ASSUME NEW a \in 1 .. Len(s), NEW b \in 1 .. Len(s), a < b, s[b] = Dot
      PROVE  Dots(s, a) < Dots(s, b)
  <2>1. a \in 0 .. Len(s) /\ b - 1 \in a .. Len(s) /\ b - 1 \in 0 .. Len(s)
    BY <1>1, StringIs
  <2>2. Dots(s, a) <= Dots(s, b - 1)
    BY <2>1, DotsRise
  <2>3. Dots(s, b) = Dots(s, b - 1) + 1
    BY <1>1, DotsIs
  <2>4. Dots(s, a) \in Nat /\ Dots(s, b - 1) \in Nat
    BY <2>1, DotsIs
  <2> QED BY <2>2, <2>3, <2>4
<1>2. ASSUME NEW j \in 1 .. Len(s), s[j] = Dot, Dots(s, j) = Dots(s, k)
      PROVE  j = k
  <2>1. Dots(s, k) \in Nat /\ j \in Nat /\ k \in Nat
    <3>1. k \in 0 .. Len(s)
      OBVIOUS
    <3> QED BY <3>1, DotsIs
  <2>2. ~ (j < k) /\ ~ (k < j)
    BY <1>1, <1>2, <2>1
  <2> QED BY <2>1, <2>2
<1> QED BY <1>2 DEF DotAt

\* split gives the components that the dots end.
LEMMA SplitGives ==
    ASSUME NEW s \in Strings
    PROVE  /\ Split(s, Separator) \in Seq(Seq(Digits))
           /\ Len(Split(s, Separator)) = Dots(s, Len(s))
           /\ \A k \in 1 .. Dots(s, Len(s)) :
                Split(s, Separator)[k] = Component(s, k)
<1>1. PICK p : IsSplit(p, s, 1) /\ Split(s, Separator) = p[1]
  BY SplitIs
<1> DEFINE n == Len(s) + 1
           d == Dots(s, Len(s))
           C(i) == /\ p[i] \in Seq(Seq(Digits))
                   /\ Len(p[i]) = d - Dots(s, i - 1)
                   /\ \A k \in 1 .. Len(p[i]) :
                        p[i][k] = Component(s, Dots(s, i - 1) + k)
           S == {k \in Nat : \A i \in 1 .. n :
                               n - k < i /\ (i = 1 \/ s[i - 1] = Dot) => C(i)}
<1>0. Len(s) \in Nat /\ n \in Nat /\ Len(Separator) = 1
  BY StringIs DEF Separator
<1>2. 0 \in S
  BY <1>0
<1>3. ASSUME NEW m \in S PROVE m + 1 \in S
  <2> SUFFICES ASSUME NEW i \in 1 .. n, n - (m + 1) < i, i = 1 \/ s[i - 1] = Dot
               PROVE  C(i)
    OBVIOUS
  <2>1. PICK st : st = Find(s, Separator, i)
    OBVIOUS
  <2>2. p[i] = IF st = 0 THEN <<>> ELSE <<SubSeq(s, i, st - 1)>> \o p[st + 1]
    BY <1>0, <1>1, <2>1 DEF IsSplit
  <2>3. i - 1 \in 0 .. Len(s) /\ Len(s) \in i - 1 .. Len(s)
    BY <1>0
  <2>4. Dots(s, i - 1) \in Nat /\ d \in Nat
    BY <1>0, <2>3, DotsIs
  <2>5. CASE st = 0
    <3>1. \A j \in (i - 1) + 1 .. Len(s) : s[j] # Dot
      <4>1. \A j \in i .. Len(s) : s[j] # Dot
        <5>1. ~ (st \in i .. Len(s))
          BY <1>0, <2>5
        <5> QED BY <2>1, <5>1, FindIs
      <4> QED BY <1>0, <4>1
    <3>2. Dots(s, i - 1) = d
      BY <2>3, <3>1, DotsRise
    <3>3. p[i] = <<>>
      BY <2>2, <2>5
    <3> QED BY <2>4, <3>2, <3>3
  <2>6. CASE st # 0
    <3>1. /\ st \in i .. Len(s) /\ s[st] = Dot
          /\ \A j \in i .. st - 1 : s[j] # Dot
      BY <1>0, <2>1, <2>6, FindIs
    <3>2. /\ st \in 1 .. Len(s) /\ st - 1 \in i - 1 .. Len(s)
          /\ st + 1 \in 1 .. n /\ (st + 1) - 1 = st /\ n - m < st + 1
          /\ st - 1 \in 0 .. Len(s) /\ st \in 0 .. Len(s)
      BY <1>0, <3>1
    <3>3. C(st + 1)
      BY <3>1, <3>2
    <3>4. Dots(s, st - 1) = Dots(s, i - 1)
      <4>1. \A j \in (i - 1) + 1 .. st - 1 : s[j] # Dot
        BY <1>0, <3>1
      <4> QED BY <2>3, <3>2, <4>1, DotsRise
    <3> DEFINE e == Dots(s, i - 1)
    <3>5. Dots(s, st) = e + 1
      BY <3>1, <3>2, <3>4, DotsIs
    <3>6. DotAt(s, e + 1) = st
      BY <3>1, <3>2, <3>5, DotAtIs
    <3>7. Component(s, e + 1) = SubSeq(s, i, st - 1)
      <4>1. CASE i = 1
        <5>1. e + 1 = 1
          BY <4>1, DotsIs
        <5> QED BY <3>6, <4>1, <5>1 DEF Component
      <4>2. CASE i # 1
        <5>1. i - 1 \in 1 .. Len(s) /\ s[i - 1] = Dot /\ (i - 1) - 1 \in 0 .. Len(s)
          BY <1>0, <4>2
        <5>2. DotAt(s, e) = i - 1
          BY <5>1, DotAtIs
        <5>3. e = Dots(s, (i - 1) - 1) + 1 /\ Dots(s, (i - 1) - 1) \in Nat
          <6>1. e = Dots(s, (i - 1) - 1) + 1
            BY <5>1, DotsIs
          <6>2. Dots(s, (i - 1) - 1) \in 0 .. (i - 1) - 1
            BY <5>1, DotsIs
          <6> QED BY <6>1, <6>2
        <5>4. e + 1 # 1 /\ (e + 1) - 1 = e /\ (i - 1) + 1 = i
          BY <5>3
        <5> HIDE DEF e
        <5>5. Component(s, e + 1) = SubSeq(s, DotAt(s, (e + 1) - 1) + 1, DotAt(s, e + 1) - 1)
          BY <5>4 DEF Component
        <5> QED BY <3>6, <5>2, <5>4, <5>5
      <4> QED BY <4>1, <4>2
    <3>8. SubSeq(s, i, st - 1) \in Seq(Digits)
      <4>1. i \in Int /\ st - 1 \in Int
        BY <3>2
      <4>2. \A j \in i .. st - 1 : s[j] \in Digits
        BY <1>0, <3>1, <3>2, StringIs
      <4> QED BY <4>1, <4>2, SubSeqProperties
    <3> DEFINE c == SubSeq(s, i, st - 1)  q == p[st + 1]
    <3>9. p[i] = <<c>> \o q
      BY <2>2, <2>6
    <3>10. /\ q \in Seq(Seq(Digits)) /\ Len(q) = d - (e + 1) /\ Len(q) \in Nat
           /\ \A k \in 1 .. Len(q) : q[k] = Component(s, (e + 1) + k)
      BY <3>2, <3>3, <3>5
    <3>11. c \in Seq(Digits) /\ Component(s, e + 1) = c
      BY <3>7, <3>8
    <3>12. e \in Nat
      BY <2>4
    <3> HIDE DEF c, q, e
    <3>13. /\ <<c>> \o q \in Seq(Seq(Digits)) /\ Len(<<c>> \o q) = 1 + Len(q)
           /\ \A k \in 1 .. 1 + Len(q) :
                (<<c>> \o q)[k] = IF k <= 1 THEN c ELSE q[k - 1]
      <4>1. <<c>> \in Seq(Seq(Digits)) /\ Len(<<c>>) = 1 /\ <<c>>[1] = c
        BY <3>11
      <4>2. \A k \in 1 .. 1 + Len(q) : k <= 1 => k = 1
        OBVIOUS
      <4> QED BY <3>10, <4>1, <4>2, ConcatProperties
    <3>14. ASSUME NEW k \in 1 .. 1 + Len(q)
           PROVE  (<<c>> \o q)[k] = Component(s, e + k)
      <4>1. CASE k <= 1
        <5>1. k = 1
          BY <3>10, <4>1
        <5> QED BY <3>11, <3>13, <5>1
      <4>2. CASE ~ (k <= 1)
        <5>1. k - 1 \in 1 .. Len(q) /\ (e + 1) + (k - 1) = e + k
          BY <3>10, <3>12, <4>2
        <5> QED BY <3>10, <3>13, <4>2, <5>1
      <4> QED BY <4>1, <4>2
    <3>15. 1 + Len(q) = d - e
      BY <2>4, <3>10, <3>12
    <3> QED BY <3>9, <3>13, <3>14, <3>15 DEF e
  <2> QED BY <2>5, <2>6
<1> HIDE DEF S
<1>4. S = Nat
  BY <1>2, <1>3, SetInduction DEF S
<1>5. C(1)
  <2>1. n \in S /\ 1 \in 1 .. n /\ n - n < 1
    BY <1>0, <1>4
  <2> HIDE DEF C, n
  <2> QED BY <2>1 DEF S
<1>6. Dots(s, 1 - 1) = 0 /\ d \in Nat
  <2>1. 1 - 1 = 0 /\ Len(s) \in 0 .. Len(s)
    BY <1>0
  <2>2. Dots(s, 0) = 0 /\ Dots(s, Len(s)) \in Nat
    BY <2>1, DotsIs
  <2> QED BY <2>1, <2>2
<1>7. \A k \in 1 .. d : p[1][k] = Component(s, k)
  <2> SUFFICES ASSUME NEW k \in 1 .. d PROVE p[1][k] = Component(s, k)
    OBVIOUS
  <2>1. Len(p[1]) = d
    BY <1>5, <1>6
  <2>2. Dots(s, 1 - 1) + k = k
    BY <1>6
  <2> QED BY <1>5, <2>1, <2>2
<1>8. Len(p[1]) = d
  BY <1>5, <1>6
<1> QED BY <1>1, <1>5, <1>7, <1>8

----------------------------------------------------------------------------
(* Components of one width are ordered as the numbers they stand for. *)

IsNumber(g, s, n) ==
    g = [k \in 0 .. n |-> IF k = 0 THEN 0 ELSE 10 * g[k - 1] + s[k] - 1]

LEMMA NumberExists ==
    ASSUME NEW s, NEW n \in Nat
    PROVE  \E g : IsNumber(g, s, n)
<1> DEFINE S == {k \in Nat : \E g : IsNumber(g, s, k)}
<1>1. 0 \in S
  <2> DEFINE g == [j \in 0 .. 0 |-> 0]
  <2>1. IsNumber(g, s, 0)
    BY DEF IsNumber
  <2> QED BY <2>1
<1>2. ASSUME NEW k \in S PROVE k + 1 \in S
  <2>1. PICK g : IsNumber(g, s, k)
    OBVIOUS
  <2> DEFINE h == [j \in 0 .. k + 1 |->
                     IF j = k + 1 THEN 10 * g[k] + s[k + 1] - 1 ELSE g[j]]
  <2>2. ASSUME NEW j \in 0 .. k + 1
        PROVE  h[j] = IF j = 0 THEN 0 ELSE 10 * h[j - 1] + s[j] - 1
    <3>1. CASE j = k + 1
      <4>1. /\ h[j] = 10 * g[k] + s[k + 1] - 1 /\ h[k] = g[k]
            /\ j - 1 = k /\ j # 0
        BY <3>1
      <4> QED BY <3>1, <4>1
    <3>2. CASE j # k + 1
      <4>1. j \in 0 .. k /\ h[j] = g[j]
        BY <3>2
      <4>2. j # 0 => j - 1 \in 0 .. k /\ h[j - 1] = g[j - 1]
        BY <4>1
      <4>3. g[j] = IF j = 0 THEN 0 ELSE 10 * g[j - 1] + s[j] - 1
        BY <2>1, <4>1 DEF IsNumber
      <4> QED BY <4>1, <4>2, <4>3
    <3> QED BY <3>1, <3>2
  <2>3. IsNumber(h, s, k + 1)
    <3>1. h = [j \in 0 .. k + 1 |-> h[j]]
      OBVIOUS
    <3> HIDE DEF h
    <3> QED BY <2>2, <3>1, Zenon DEF IsNumber
  <2> QED BY <2>3
<1> HIDE DEF S
<1>3. S = Nat
  BY <1>1, <1>2, SetInduction DEF S
<1> QED BY <1>3 DEF S

LEMMA NumberIs ==
    ASSUME NEW s
    PROVE  Len(s) \in Nat =>
             \E g : IsNumber(g, s, Len(s)) /\ Number(s) = g[Len(s)]
<1> DEFINE g == CHOOSE g : IsNumber(g, s, Len(s))
<1>1. Len(s) \in Nat => IsNumber(g, s, Len(s))
  BY NumberExists
<1>2. Number(s) = g[Len(s)]
  BY DEF Number, IsNumber
<1> QED BY <1>1, <1>2

\* The first digit that differs decides, as a number and as a string.
LEMMA NumberOrders ==
    ASSUME NEW a \in Seq(Digits), NEW b \in Seq(Digits), Len(a) = Len(b)
    PROVE  /\ Number(a) \in Nat /\ Number(b) \in Nat
           /\ Number(a) = Number(b) <=> a = b
           /\ Number(a) > Number(b) <=> Less(b, a)
<1>0. Len(a) \in Nat /\ Len(b) \in Nat
  OBVIOUS
<1>1. PICK g : IsNumber(g, a, Len(a)) /\ Number(a) = g[Len(a)]
  BY <1>0, NumberIs
<1>2. PICK h : IsNumber(h, b, Len(b)) /\ Number(b) = h[Len(b)]
  BY <1>0, NumberIs
<1> DEFINE First(c, d, k, m) == /\ \A i \in 1 .. m - 1 : c[i] = d[i]
                                /\ c[m] < d[m]
           P(k) == /\ g[k] \in Nat /\ h[k] \in Nat
                   /\ \/ g[k] = h[k] /\ \A i \in 1 .. k : a[i] = b[i]
                      \/ g[k] < h[k] /\ \E m \in 1 .. k : First(a, b, k, m)
                      \/ h[k] < g[k] /\ \E m \in 1 .. k : First(b, a, k, m)
           S == {k \in Nat : k <= Len(a) => P(k)}
<1>3. \A i \in 1 .. Len(a) : a[i] \in 1 .. 10 /\ b[i] \in 1 .. 10
  <2>1. \A i \in 1 .. Len(a) : a[i] \in Digits /\ b[i] \in Digits
    BY ElementOfSeq
  <2> QED BY <2>1, TextAssumption
<1>4. 0 \in S
  <2>1. g[0] = 0 /\ h[0] = 0
    BY <1>0, <1>1, <1>2 DEF IsNumber
  <2> QED BY <2>1
<1>5. ASSUME NEW k \in S PROVE k + 1 \in S
  <2> SUFFICES ASSUME k + 1 <= Len(a) PROVE P(k + 1)
    OBVIOUS
  <2>1. P(k)
    BY <1>0
  <2>2. k + 1 \in 1 .. Len(a) /\ k + 1 \in 0 .. Len(a) /\ (k + 1) - 1 = k
        /\ k + 1 # 0
    BY <1>0
  <2>3. /\ g[k + 1] = 10 * g[k] + a[k + 1] - 1
        /\ h[k + 1] = 10 * h[k] + b[k + 1] - 1
    BY <1>1, <1>2, <2>2 DEF IsNumber
  <2>4. a[k + 1] \in 1 .. 10 /\ b[k + 1] \in 1 .. 10
    BY <1>3, <2>2
  <2> DEFINE G == g[k]  H == h[k]  u == a[k + 1]  v == b[k + 1]
  <2>5. G \in Nat /\ H \in Nat /\ u \in 1 .. 10 /\ v \in 1 .. 10
        /\ g[k + 1] = 10 * G + u - 1 /\ h[k + 1] = 10 * H + v - 1
    BY <2>1, <2>3, <2>4
  <2>6. CASE G = H /\ \A i \in 1 .. k : a[i] = b[i]
    <3>1. /\ u = v => g[k + 1] = h[k + 1]
          /\ u < v => g[k + 1] < h[k + 1]
          /\ v < u => h[k + 1] < g[k + 1]
      <4> HIDE DEF G, H, u, v
      <4> QED BY <2>5, <2>6
    <3>2. g[k + 1] \in Nat /\ h[k + 1] \in Nat
      <4> HIDE DEF G, H, u, v
      <4> QED BY <2>5
    <3>3. CASE u = v
      <4>1. \A i \in 1 .. k + 1 : a[i] = b[i]
        BY <2>6, <3>3
      <4> QED BY <3>1, <3>2, <3>3, <4>1
    <3>4. CASE u < v
      <4>1. First(a, b, k + 1, k + 1)
        BY <2>2, <2>6, <3>4
      <4> HIDE DEF First
      <4> QED BY <2>2, <3>1, <3>2, <3>4, <4>1
    <3>5. CASE v < u
      <4>1. First(b, a, k + 1, k + 1)
        BY <2>2, <2>6, <3>5
      <4> HIDE DEF First
      <4> QED BY <2>2, <3>1, <3>2, <3>5, <4>1
    <3> HIDE DEF P
    <3> QED BY <2>5, <3>3, <3>4, <3>5
  <2>7. CASE G < H /\ \E m \in 1 .. k : First(a, b, k, m)
    <3>1. g[k + 1] < h[k + 1] /\ g[k + 1] \in Nat /\ h[k + 1] \in Nat
      <4> HIDE DEF G, H, u, v
      <4> QED BY <2>5, <2>7
    <3>2. \E m \in 1 .. k + 1 : First(a, b, k + 1, m)
      BY <2>7
    <3> HIDE DEF First
    <3> QED BY <3>1, <3>2
  <2>8. CASE H < G /\ \E m \in 1 .. k : First(b, a, k, m)
    <3>1. h[k + 1] < g[k + 1] /\ g[k + 1] \in Nat /\ h[k + 1] \in Nat
      <4> HIDE DEF G, H, u, v
      <4> QED BY <2>5, <2>8
    <3>2. \E m \in 1 .. k + 1 : First(b, a, k + 1, m)
      BY <2>8
    <3> HIDE DEF First
    <3> QED BY <3>1, <3>2
  <2> QED BY <2>1, <2>6, <2>7, <2>8
<1> HIDE DEF S
<1>6. S = Nat
  BY <1>4, <1>5, SetInduction DEF S
<1>7. P(Len(a))
  <2>1. Len(a) \in S /\ Len(a) <= Len(a)
    BY <1>0, <1>6
  <2> HIDE DEF P
  <2> QED BY <2>1 DEF S
<1>8. Number(a) = g[Len(a)] /\ Number(b) = h[Len(a)]
  BY <1>1, <1>2
<1>9. CASE g[Len(a)] = h[Len(a)] /\ \A i \in 1 .. Len(a) : a[i] = b[i]
  <2>1. a = b
    BY <1>9
  <2>2. ~ Less(b, a)
    <3> SUFFICES ASSUME NEW k \in 1 .. Len(a), b[k] < a[k] PROVE FALSE
      BY <1>0, <2>1 DEF Less
    <3> QED BY <1>3, <1>9
  <2> QED BY <1>7, <1>8, <1>9, <2>1, <2>2
<1>10. ASSUME g[Len(a)] < h[Len(a)], NEW m \in 1 .. Len(a),
              First(a, b, Len(a), m)
       PROVE  ~ Less(b, a) /\ a # b
  <2>1. a # b
    BY <1>3, <1>10
  <2>2. ~ Less(b, a)
    <3> SUFFICES ASSUME NEW k \in 1 .. Len(a), \A i \in 1 .. k - 1 : b[i] = a[i],
                        k <= Len(b) => b[k] < a[k]
                 PROVE  FALSE
      BY DEF Less
    <3>1. b[k] < a[k] /\ a[m] < b[m] /\ k \in 1 .. Len(a)
      BY <1>0, <1>10
    <3>2. ~ (k < m)
      <4> SUFFICES ASSUME k < m PROVE FALSE
        OBVIOUS
      <4>1. k \in 1 .. m - 1
        BY <1>0
      <4> QED BY <1>3, <1>10, <3>1, <4>1
    <3>3. ~ (m < k)
      <4> SUFFICES ASSUME m < k PROVE FALSE
        OBVIOUS
      <4>1. m \in 1 .. k - 1
        BY <1>0
      <4> QED BY <1>3, <3>1, <4>1
    <3>4. k = m
      BY <1>0, <3>2, <3>3
    <3> QED BY <1>3, <3>1, <3>4
  <2> QED BY <2>1, <2>2
<1>11. ASSUME h[Len(a)] < g[Len(a)], NEW m \in 1 .. Len(a),
              First(b, a, Len(a), m)
       PROVE  Less(b, a) /\ a # b
  <2>1. a # b
    BY <1>3, <1>11
  <2>2. m \in 1 .. Len(a) /\ m <= Len(b) + 1
    BY <1>0
  <2> QED BY <1>11, <2>1, <2>2 DEF Less
<1>12. CASE g[Len(a)] < h[Len(a)] /\ \E m \in 1 .. Len(a) : First(a, b, Len(a), m)
  <2>1. ~ Less(b, a) /\ a # b
    BY <1>10, <1>12
  <2> QED BY <1>7, <1>8, <1>12, <2>1
<1>13. CASE h[Len(a)] < g[Len(a)] /\ \E m \in 1 .. Len(a) : First(b, a, Len(a), m)
  <2>1. Less(b, a) /\ a # b
    BY <1>11, <1>13
  <2> QED BY <1>7, <1>8, <1>13, <2>1
<1> QED BY <1>7, <1>9, <1>12, <1>13

----------------------------------------------------------------------------
(* VersionCheck: the inductive invariant. *)

\* As far as the loop came the components were the same, but for the last one
\* when the verdict is about it.
LoopInv ==
    /\ idx = -1 => eVersion = "UNKNOWN"
    /\ idx >= 0 =>
         /\ eVersion = "UNMATCH" <=> Len(vecCurrent) # Len(vecNext)
         /\ idx <= Len(vecCurrent)
         /\ eVersion = "UNKNOWN" => idx = 0
         /\ eVersion = "EQUAL" =>
              /\ idx > 0
              /\ \A i \in 1 .. idx : vecCurrent[i] = vecNext[i]
         /\ eVersion \in {"HIGHER", "LOWER"} =>
              /\ idx > 0
              /\ \A i \in 1 .. idx - 1 : vecCurrent[i] = vecNext[i]
              /\ vecCurrent[idx] # vecNext[idx]
              /\ eVersion = "HIGHER" <=> Less(vecNext[idx], vecCurrent[idx])

TextInv == TextTypeOK /\ LoopInv

LEMMA VectorsAre ==
    ASSUME TextTypeOK
    PROVE  /\ vecCurrent \in Seq(Seq(Digits)) /\ vecNext \in Seq(Seq(Digits))
           /\ Len(vecCurrent) = Dots(current, Len(current))
           /\ Len(vecNext) = Dots(next, Len(next))
           /\ Len(vecCurrent) \in 0 .. MaxLen /\ Len(vecNext) \in Nat
           /\ \A i \in 1 .. Len(vecCurrent) :
                vecCurrent[i] = Component(current, i)
           /\ \A i \in 1 .. Len(vecNext) : vecNext[i] = Component(next, i)
<1>1. /\ current \in Strings /\ next \in Strings
      /\ Len(current) <= MaxLen /\ MaxLen \in Nat
  BY TextIs DEF TextTypeOK
<1>2. Len(current) \in Nat /\ Len(current) \in 0 .. Len(current)
  BY <1>1, StringIs
<1>3. Dots(current, Len(current)) \in 0 .. Len(current)
  BY <1>1, <1>2, DotsIs
<1>4. Dots(current, Len(current)) \in 0 .. MaxLen
  BY <1>1, <1>2, <1>3
<1> QED BY <1>1, <1>4, SplitGives DEF vecCurrent, vecNext

LEMMA TextInitially == TextInit => TextInv
BY TextAssumption DEF TextInit, TextInv, TextTypeOK, LoopInv, Verdicts

LEMMA SameVersions ==
    ASSUME UNCHANGED <<current, next>>
    PROVE  vecCurrent' = vecCurrent /\ vecNext' = vecNext
BY DEF vecCurrent, vecNext, Split, Find

LEMMA TextInductive == TextInv /\ [TextNext]_textVars => TextInv'
<1> SUFFICES ASSUME TextInv, [TextNext]_textVars PROVE TextInv'
  OBVIOUS
<1>1. UNCHANGED <<current, next>>
  BY DEF textVars, TextNext, VersionCheck, Compare
<1>2. vecCurrent' = vecCurrent /\ vecNext' = vecNext
  BY <1>1, SameVersions
<1>3. /\ TextTypeOK /\ Len(vecCurrent) \in 0 .. MaxLen /\ MaxLen \in Nat
      /\ Len(vecNext) \in Nat
  BY VectorsAre, TextAssumption DEF TextInv
<1>4. CASE UNCHANGED textVars
  BY <1>2, <1>4 DEF textVars, TextInv, TextTypeOK, LoopInv
<1>5. CASE VersionCheck
  <2>1. TextTypeOK'
    BY <1>1, <1>3, <1>5 DEF VersionCheck, TextTypeOK, Verdicts
  <2>2. LoopInv'
    BY <1>2, <1>3, <1>5 DEF VersionCheck, TextInv, LoopInv
  <2> QED BY <2>1, <2>2 DEF TextInv
<1>6. CASE Compare
  <2>1. idx \in Nat /\ idx < Len(vecCurrent) /\ idx' = idx + 1
    BY <1>3, <1>6 DEF Compare, TextTypeOK
  <2>2. TextTypeOK'
    BY <1>1, <1>3, <1>6, <2>1 DEF Compare, TextTypeOK, Verdicts
  <2>3. \A i \in 1 .. idx : vecCurrent[i] = vecNext[i]
    BY <1>6, <2>1 DEF Compare, TextInv, LoopInv
  <2> DEFINE a == vecCurrent[idx + 1]  b == vecNext[idx + 1]
  <2>4. eVersion' = IF a = b THEN "EQUAL" ELSE IF Less(b, a) THEN "HIGHER"
                    ELSE "LOWER"
    BY <1>6 DEF Compare
  <2>5. Len(vecCurrent) = Len(vecNext)
    BY <1>6, <2>1 DEF Compare, TextInv, LoopInv
  <2>6. /\ idx' > 0 /\ idx' <= Len(vecCurrent) /\ idx' - 1 = idx
        /\ \A i \in 1 .. idx' : i # idx + 1 => i \in 1 .. idx
    BY <1>3, <2>1
  <2>7. LoopInv'
    <3>1. CASE a = b
      <4>1. eVersion' = "EQUAL"
        BY <2>4, <3>1
      <4>2. \A i \in 1 .. idx' : vecCurrent[i] = vecNext[i]
        BY <2>3, <2>6, <3>1
      <4> QED BY <1>2, <2>5, <2>6, <4>1, <4>2 DEF LoopInv
    <3>2. CASE a # b
      <4>1. eVersion' = IF Less(b, a) THEN "HIGHER" ELSE "LOWER"
        BY <2>4, <3>2
      <4>2. vecCurrent[idx'] = a /\ vecNext[idx'] = b
        BY <2>1
      <4> HIDE DEF a, b
      <4>3. eVersion' \in {"HIGHER", "LOWER"}
            /\ (eVersion' = "HIGHER" <=> Less(b, a))
        BY <4>1
      <4>4. \A i \in 1 .. idx' - 1 : vecCurrent[i] = vecNext[i]
        BY <2>3, <2>6
      <4> QED BY <1>2, <2>5, <2>6, <3>2, <4>2, <4>3, <4>4 DEF LoopInv
    <3> QED BY <3>1, <3>2
  <2> QED BY <2>2, <2>7 DEF TextInv
<1> QED BY <1>4, <1>5, <1>6 DEF TextNext

THEOREM TextInvariance == TextSpec => []TextInv
BY TextInitially, TextInductive, PTL DEF TextSpec

LEMMA InvOrders == TextInv => VersionsOrdered
<1> SUFFICES ASSUME TextInv, Returned, SameWidths
             PROVE  eVersion = IF Shared = {} THEN "UNKNOWN"
                      ELSE IF Differ = {} THEN "EQUAL"
                      ELSE IF Number(Component(current, Min(Differ)))
                              > Number(Component(next, Min(Differ)))
                      THEN "HIGHER" ELSE "LOWER"
  BY DEF VersionsOrdered
<1> DEFINE n == Len(vecCurrent)
           c(i) == Component(current, i)
           d(i) == Component(next, i)
<1>1. /\ Len(vecNext) = n /\ n \in Nat /\ Shared = 1 .. n
      /\ \A i \in 1 .. n : vecCurrent[i] = c(i) /\ vecNext[i] = d(i)
  BY VectorsAre DEF TextInv, SameWidths, Shared
<1>2. \A i \in 1 .. n :
        /\ c(i) \in Seq(Digits) /\ d(i) \in Seq(Digits)
        /\ Len(c(i)) = Len(d(i))
  <2>1. \A i \in 1 .. n : vecCurrent[i] \in Seq(Digits) /\ vecNext[i] \in Seq(Digits)
    BY <1>1, VectorsAre, ElementOfSeq DEF TextInv
  <2> QED BY <1>1, <2>1 DEF SameWidths
<1>3. \A i \in 1 .. n :
        /\ Number(c(i)) \in Nat /\ Number(d(i)) \in Nat
        /\ Number(c(i)) = Number(d(i)) <=> c(i) = d(i)
        /\ Number(c(i)) > Number(d(i)) <=> Less(d(i), c(i))
  BY <1>2, NumberOrders
<1>4. Differ = {i \in 1 .. n : c(i) # d(i)}
  BY <1>1, <1>3 DEF Differ
<1>5. /\ idx \in 0 .. n /\ eVersion \in Verdicts /\ eVersion # "UNMATCH"
      /\ eVersion \in {"UNKNOWN", "EQUAL"} => idx = n
      /\ eVersion = "UNKNOWN" => idx = 0
      /\ eVersion = "EQUAL" => idx > 0 /\ \A i \in 1 .. idx : c(i) = d(i)
      /\ eVersion \in {"HIGHER", "LOWER"} =>
           /\ idx > 0 /\ \A i \in 1 .. idx - 1 : c(i) = d(i)
           /\ c(idx) # d(idx)
           /\ eVersion = "HIGHER" <=> Less(d(idx), c(idx))
  <2>1. idx \in Nat /\ idx <= n
    BY <1>1 DEF Returned, TextInv, TextTypeOK, LoopInv
  <2>2. \A i \in 1 .. idx : i \in 1 .. n
    BY <1>1, <2>1
  <2>3. idx > 0 => idx \in 1 .. n /\ \A i \in 1 .. idx - 1 : i \in 1 .. n
    BY <1>1, <2>1
  <2> HIDE DEF c, d
  <2> QED BY <1>1, <2>1, <2>2, <2>3 DEF Returned, TextInv, TextTypeOK, LoopInv
<1> HIDE DEF c, d
<1>6. CASE eVersion = "UNKNOWN"
  BY <1>1, <1>5, <1>6
<1>7. CASE eVersion = "EQUAL"
  <2>1. Differ = {} /\ Shared # {}
    BY <1>1, <1>4, <1>5, <1>7
  <2> QED BY <1>7, <2>1
<1>8. CASE eVersion \in {"HIGHER", "LOWER"}
  <2>1. idx \in Differ /\ idx \in 1 .. n /\ Shared # {}
    BY <1>1, <1>4, <1>5, <1>8
  <2>2. Differ \in SUBSET Nat
    BY <1>1, <1>4
  <2>3. Min(Differ) \in Differ /\ Min(Differ) <= idx
    BY <2>1, <2>2, MinIs
  <2>4. ~ (Min(Differ) < idx)
    <3> SUFFICES ASSUME Min(Differ) < idx PROVE FALSE
      OBVIOUS
    <3>1. Min(Differ) \in 1 .. n /\ c(Min(Differ)) # d(Min(Differ))
      BY <1>4, <2>3
    <3>2. Min(Differ) \in 1 .. idx - 1
      BY <1>5, <3>1
    <3> QED BY <1>5, <1>8, <3>1, <3>2
  <2>5. Min(Differ) = idx
    <3>1. Min(Differ) \in Nat
      BY <2>2, <2>3
    <3>2. idx \in Nat
      BY <1>1, <2>1
    <3> QED BY <2>3, <2>4, <3>1, <3>2
  <2>6. eVersion = "HIGHER" <=> Number(c(idx)) > Number(d(idx))
    BY <1>3, <1>5, <1>8, <2>1
  <2> QED BY <1>8, <2>1, <2>5, <2>6 DEF c, d
<1> QED BY <1>5, <1>6, <1>7, <1>8 DEF Verdicts

\* Versions of any length: the verdict is that of the numbers.
THEOREM VersionsCompare == TextSpec => []VersionsOrdered
BY TextInvariance, InvOrders, PTL

----------------------------------------------------------------------------
(* The parts together. *)

\* What one part does leaves the others alone, so each behaves as it does by
\* itself.
THEOREM Composes ==
    Spec => /\ ToastSpec /\ RegistrySpec /\ DownloadSpec
            /\ ServicesSpec /\ TextSpec
<1>1. Init => ToastInit /\ RegistryInit /\ DownloadInit /\ ServicesInit /\ TextInit
  BY DEF Init
<1>2. [Next]_vars =>
        /\ [ToastNext]_toastVars /\ [RegistryNext]_registryVars
        /\ [DownloadNext]_downloadVars /\ [ServicesNext]_servicesVars
        /\ [TextNext]_textVars
  BY DEF Next, ToastStep, RegistryStep, DownloadStep, ServicesStep, TextStep, vars
<1> QED BY <1>1, <1>2, PTL DEF Spec, ToastSpec, RegistrySpec, DownloadSpec,
           ServicesSpec, TextSpec

\* For any number of toasts, threads, downloads and polls, and versions of any
\* length, nothing leaves its type.
THEOREM TypesCorrect == Spec => []TypesOK
<1>1. ToastInv /\ RegistryInv /\ DownloadInv /\ ServicesInv /\ TextInv => TypesOK
  BY DEF ToastInv, RegistryInv, DownloadInv, ServicesInv, TextInv, TypesOK
<1> QED BY <1>1, Composes, ToastInvariance, RegistryInvariance,
           DownloadInvariance, ServicesInvariance, TextInvariance, PTL
=============================================================================
