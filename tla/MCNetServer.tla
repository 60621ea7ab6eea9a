---------------------------- MODULE MCNetServer ----------------------------
(* NetServer for TLC: clients and handles are interchangeable, and a process
   that has crashed takes no step, so all its states are one.  Nor does what
   follows depend on the answers that strayed, once they are judged, on the
   stream of a connection that is broken or no longer received from, or on the
   end of a connection whose handle is closed. *)
EXTENDS NetServer, TLC

Symmetry == Permutations(Clients) \cup Permutations(Handles)

Ended(c) == rx[c].pc \in {"end", "join", "done"}
Unread(c) == Ended(c) \/ peer[c] = "rst"

End(c) == IF ~Ended(c) THEN peer[c]
          ELSE IF owner[rx[c].handle] = c /\ peer[c] # "rst" THEN "up" ELSE "rst"

Stream(c) == IF Unread(c) THEN <<>>
             ELSE <<sent[c], cut[c], taken[c], credit[c]>>

Served(c) == IF handler[c].pc = "done" THEN <<>>
             ELSE <<handler[c], handled[c]>>

View == IF crashed THEN <<crashed>>
        ELSE <<[c \in Clients |-> <<End(c), Stream(c), rx[c], Served(c)>>],
               owner, network, listen, app,
               FifoPerConnection, ReplyReachesRequester, StopEndsReceiving>>
=============================================================================
