------------------------------ MODULE Registry ------------------------------
(***************************************************************************)
(* Singleton<CNetworkMgr> (Singleton.h) and the manager it hands out       *)
(* (Network/SharedNetwork.cpp): a map from names to CNetwork objects.      *)
(*                                                                         *)
(* Threads ask for the instance and destroy it at any time: neither        *)
(* function locks, so that reads and writes of _instance are steps, taken  *)
(* in program order.  They use the map one at a time; a map that is used   *)
(* by two at once, or after it was deleted, is undefined, and so is a      *)
(* second delete: the process ends.                                        *)
(***************************************************************************)
EXTENDS Integers

CONSTANTS Threads,
          Names,    \* names of connections
          MaxNets   \* bound on NewConnection

ASSUME RegistryAssumption == MaxNets \in Nat

VARIABLES
    instance,   \* _instance is not null
    object,     \* what it was set to
    at,         \* where a thread is in GetInstance or DestroyInstance
    got,        \* what a thread was handed out
    map,        \* _mapNameToNetworkInfo; 0 for no entry
    nets,       \* CNetwork objects made so far
    running,    \* those whose own thread runs: it receives, or it listens
    serving,    \* servers that have threads for connections they accepted
    stopped,    \* those with _isStop set
    replaced    \* history: those whose entry was overwritten

registryVars ==
    <<instance, object, at, got, map, nets, running, serving, stopped, replaced>>

mapVars == <<map, nets, running, serving, stopped, replaced>>

Nets == 1 .. MaxNets

RegistryTypeOK ==
    /\ instance \in BOOLEAN
    /\ object \in {"none", "alive", "deleted", "crashed"}
    /\ at \in [Threads ->
                {"idle", "once", "publish", "return", "delete", "reset"}]
    /\ got \in [Threads -> {"none", "null", "pointer"}]
    /\ map \in [Names -> 0 .. MaxNets]
    /\ nets \in 0 .. MaxNets
    /\ running \subseteq Nets /\ serving \subseteq Nets
    /\ stopped \subseteq Nets /\ replaced \subseteq Nets

RegistryInit ==
    /\ instance = FALSE /\ object = "none"
    /\ at = [t \in Threads |-> "idle"]
    /\ got = [t \in Threads |-> "none"]
    /\ map = [s \in Names |-> 0]
    /\ nets = 0
    /\ running = {} /\ serving = {} /\ stopped = {} /\ replaced = {}

----------------------------------------------------------------------------
(* Singleton *)

Goes(t, from, to) ==
    /\ object # "crashed"
    /\ at[t] = from /\ at' = [at EXCEPT ![t] = to]

GetInstance(t) ==
    /\ Goes(t, "idle", IF instance THEN "return" ELSE "once")
    /\ UNCHANGED <<instance, object, got>> /\ UNCHANGED mapVars

\* Mutant: the null pointer alone decides.
MutNewWhenNull(t) ==
    /\ Goes(t, "once", "return")
    /\ instance' = TRUE /\ object' = "alive"
    /\ UNCHANGED got /\ UNCHANGED mapVars

\* call_once makes the object, and never a second one; who comes meanwhile waits
\* until the first has set the pointer.
CallOnce(t) ==
    /\ Goes(t, "once", IF object = "none" THEN "publish" ELSE "return")
    /\ \A u \in Threads : at[u] # "publish"
    /\ object' = IF object = "none" THEN "alive" ELSE object
    /\ UNCHANGED <<instance, got>> /\ UNCHANGED mapVars

Publish(t) ==
    /\ Goes(t, "publish", "return")
    /\ instance' = TRUE
    /\ UNCHANGED <<object, got>> /\ UNCHANGED mapVars

\* The pointer is read again for the return.
Return(t) ==
    /\ Goes(t, "return", "idle")
    /\ got' = [got EXCEPT ![t] = IF instance THEN "pointer" ELSE "null"]
    /\ UNCHANGED <<instance, object>> /\ UNCHANGED mapVars

DestroyInstance(t) ==
    /\ Goes(t, "idle", "delete")
    /\ instance
    /\ UNCHANGED <<instance, object, got>> /\ UNCHANGED mapVars

\* delete of the pointer as it is now; CNetworkMgr's destructor does nothing to
\* the connections.
Delete(t) ==
    /\ Goes(t, "delete", "reset")
    /\ object' = IF ~ instance THEN object
                 ELSE IF object = "alive" THEN "deleted" ELSE "crashed"
    /\ UNCHANGED <<instance, got>> /\ UNCHANGED mapVars

Reset(t) ==
    /\ Goes(t, "reset", "idle")
    /\ instance' = FALSE
    /\ UNCHANGED <<object, got>> /\ UNCHANGED mapVars

----------------------------------------------------------------------------
(* CNetworkMgr, by a thread that was handed a pointer *)

CanUse(t) == at[t] = "idle" /\ got[t] = "pointer" /\ object = "alive"

UseDeleted(t) ==
    /\ at[t] = "idle" /\ got[t] = "pointer" /\ object = "deleted"
    /\ object' = "crashed"
    /\ UNCHANGED <<instance, at, got>> /\ UNCHANGED mapVars

SingletonFrame == UNCHANGED <<instance, object, at, got>>

\* An entry of that name is overwritten, and its CNetwork goes on.
NewConnection(t, name) ==
    /\ CanUse(t) /\ nets < MaxNets
    /\ nets' = nets + 1
    /\ map' = [map EXCEPT ![name] = nets + 1]
    /\ replaced' = replaced \cup ({map[name]} \ {0})
    /\ UNCHANGED <<running, serving, stopped>> /\ SingletonFrame

\* GetConnection, then CNetwork::Connect, perhaps much later, of any object
\* handed out so far: one that was disconnected keeps _isStop, and its threads
\* end at once.  (Connect of one that runs: see NetServer and NetClient.)
GetAndConnect(t, c) ==
    /\ CanUse(t) /\ c \in 1 .. nets \ running
    /\ running' = running \cup ({c} \ stopped)
    /\ UNCHANGED <<map, nets, serving, stopped, replaced>> /\ SingletonFrame

\* A server accepts, and its last connection ends: see NetServer.
Serve(c) ==
    /\ object # "crashed" /\ c \in running
    /\ serving' = serving \cup {c}
    /\ UNCHANGED <<map, nets, running, stopped, replaced>> /\ SingletonFrame

ServeEnds(c) ==
    /\ object # "crashed" /\ c \in serving
    /\ serving' = serving \ {c}
    /\ UNCHANGED <<map, nets, running, stopped, replaced>> /\ SingletonFrame

\* Mutant: the entry is erased without DisConnect.
MutCloseErases(t, name) ==
    /\ CanUse(t) /\ map[name] # 0
    /\ map' = [map EXCEPT ![name] = 0]
    /\ UNCHANGED <<nets, running, serving, stopped, replaced>> /\ SingletonFrame

\* Mutant: the entry is marked and stays.
MutCloseMarks(t, name) ==
    /\ CanUse(t) /\ map[name] # 0
    /\ running' = running \ {map[name]}
    /\ stopped' = stopped \cup {map[name]}
    /\ map' = [map EXCEPT ![name] = -1]
    /\ UNCHANGED <<nets, serving, replaced>> /\ SingletonFrame

\* DisConnect sets _isStop and joins the object's own thread, but none that
\* serves an accepted connection; then the entry is erased.  The CNetwork is not
\* deleted.
CloseConnection(t, name) ==
    /\ CanUse(t) /\ map[name] # 0
    /\ running' = running \ {map[name]}
    /\ stopped' = stopped \cup {map[name]}
    /\ map' = [map EXCEPT ![name] = 0]
    /\ UNCHANGED <<nets, serving, replaced>> /\ SingletonFrame

RegistryNext ==
    \E t \in Threads :
      \/ GetInstance(t) \/ CallOnce(t) \/ Publish(t) \/ Return(t)
      \/ DestroyInstance(t) \/ Delete(t) \/ Reset(t) \/ UseDeleted(t)
      \/ \E name \in Names : NewConnection(t, name) \/ CloseConnection(t, name)
      \/ \E c \in Nets : GetAndConnect(t, c) \/ Serve(c) \/ ServeEnds(c)

RegistrySpec == RegistryInit /\ [][RegistryNext]_registryVars

----------------------------------------------------------------------------
(* Properties. *)

\* GetInstance hands out the object while it lives, and a deleted one only
\* between the two steps of a DestroyInstance; null only when the object was
\* destroyed.  Reading the pointer without the lock is harmless until then.
HandsOutLive ==
    [][\A t \in Threads : Return(t) =>
         IF instance THEN object = "alive" \/ \E d \in Threads : at[d] = "reset"
         ELSE object = "deleted"]_registryVars

Named == {map[name] : name \in Names}

\* A connection that receives or listens can be reached by its name and closed,
\* unless another was put in its place; in particular a caller who kept the
\* pointer of a closed one cannot start it again.  The threads of a server for
\* the connections it accepted may outlive the entry, but only when the server
\* was told to stop.
NoConnectionForgotten ==
    /\ running \subseteq Named \cup replaced
    /\ serving \subseteq Named \cup replaced \cup stopped
=============================================================================
