---------------------------- MODULE FrameChannel ----------------------------
(***************************************************************************)
(* What one direction of a connection promises: frames are taken out whole *)
(* in the order they were put in, none twice, until the sender closes or   *)
(* the connection breaks.  Only how many frames went in and came out       *)
(* matters: the i-th to come out is the i-th that went in.                 *)
(***************************************************************************)
EXTENDS Integers

VARIABLES sent,  \* frames put in
          got,   \* frames taken out
          state  \* of the connection, as the sender left it

chan == <<sent, got, state>>

Init == sent = 0 /\ got = 0 /\ state = "open"

Put == state = "open" /\ sent' = sent + 1 /\ UNCHANGED <<got, state>>

Get == state # "broken" /\ got < sent /\ got' = got + 1
       /\ UNCHANGED <<sent, state>>

\* The last frame may be put in together with the close.
Close == /\ state = "open"
         /\ state' = "closed"
         /\ sent' \in {sent, sent + 1}
         /\ UNCHANGED got

\* Also after a close, before all was taken out.
Break == state # "broken" /\ state' = "broken" /\ UNCHANGED <<sent, got>>

Next == Put \/ Get \/ Close \/ Break

Spec == Init /\ [][Next]_chan
=============================================================================
