--------------------------- MODULE Sockets_proofs ---------------------------
(***************************************************************************)
(* Proofs about Sockets, for any handles and any number of attempts.       *)
(***************************************************************************)
EXTENDS Sockets, TLAPS

----------------------------------------------------------------------------
(* The parts of the inductive invariant. *)

\* The socket of a connection that an object holds.
Holds(o) == /\ o.sock \in Handles /\ o.k \in Conns
            /\ os[o.sock] = o.k \/ Robbed(o.k)
            /\ \A h \in Handles : os[h] = o.k => h = o.sock

\* Of one object, which holds a connection or not: a held connection has the
\* object's socket, unless another object closed it; an object in a call has
\* nothing of its connection yet; the session is that of the connection it holds,
\* or of one it left behind.
Own(o, held) ==
    /\ o.k <= n /\ o.ssl <= n /\ o.ctx <= n
    /\ held => Holds(o)
    /\ o.pc = "tls" => held /\ ~o.good /\ fds[o.k] = None /\ o.k \notin ctxs
    /\ o.pc \in {"tcp", "accept"} => ~held /\ ~o.good
    /\ o.ssl # 0 => /\ fds[o.ssl] # None
                    /\ (held /\ o.ssl = o.k) \/ Again(o.ssl)
    /\ o.good => /\ held /\ o.ssl = o.k /\ o.ctx = o.k /\ o.k \in ctxs
                 /\ fds[o.k] = o.sock

OwnInv == Own(cl, cl.up) /\ Own(sv, sv.held)

\* The two objects have nothing in common.
ApartInv == \A p \in Conns : ~ (/\ p \in {cl.k, cl.ssl, cl.ctx}
                                /\ p \in {sv.k, sv.ssl, sv.ctx})

ListenInv ==
    sv.listen # None /\ sv.pc \notin {"gone", "crashed"} =>
        os[sv.listen] = Listener

\* An attempt has at most one handle, and one to come has nothing.
HandleInv ==
    /\ \A g, h \in Handles : os[g] \in Conns /\ os[g] = os[h] => g = h
    /\ \A k \in Conns : k > n =>
         /\ fds[k] = None /\ k \notin ctxs
         /\ \A h \in Handles : os[h] # k

\* Where sessions, contexts and handles that are open belong.
SessionInv ==
    \A k \in Conns : fds[k] # None =>
      /\ os[fds[k]] = k \/ Again(k) \/ Robbed(k)
      /\ k \in {cl.ssl, sv.ssl} \/ Again(k)

WithContext(o, held, k) == held /\ o.k = k /\ o.ssl = k /\ o.ctx = k

ContextInv ==
    \A k \in ctxs : \/ Again(k) \/ "bare" \in fate[k]
                    \/ WithContext(cl, cl.up, k) \/ WithContext(sv, sv.held, k)

Left(k) == "refused" \in fate[k] \/ "unsent" \in fate[k] \/ Again(k)

LeftInv == \A h \in Handles :
               os[h] \in Conns => Held(os[h]) \/ Left(os[h])

SentInv ==
    sent.of # 0 => sent.to = sent.of \/ Again(sent.of) \/ Robbed(sent.of)

IInv == /\ TypeOK /\ OwnInv /\ ApartInv /\ ListenInv /\ HandleInv
        /\ SessionInv /\ ContextInv /\ LeftInv /\ SentInv

----------------------------------------------------------------------------
(* Facts about the operators of Sockets. *)

\* What TypeOK says of each field.
Fields ==
    /\ MaxConns \in Nat /\ n \in Nat /\ n \in Ptr /\ sent.of \in Ptr
    /\ Conns \subseteq Nat
    /\ cl.k \in Ptr /\ cl.ssl \in Ptr /\ cl.ctx \in Ptr
    /\ sv.k \in Ptr /\ sv.ssl \in Ptr /\ sv.ctx \in Ptr
    /\ cl.sock \in Handles \cup {None} /\ sv.sock \in Handles \cup {None}
    /\ sv.listen \in Handles \cup {None}
    /\ os \in [Handles -> Owners]
    /\ fds \in [Conns -> Handles \cup {None}]
    /\ fate \in [Conns -> SUBSET Fates]
    /\ ctxs \subseteq Conns
    /\ Conns = Ptr \ {0} /\ 0 \in Ptr
    /\ None \notin Conns /\ Other \notin Conns /\ Listener \notin Conns
    /\ None \notin Handles
    /\ None # Other /\ None # Listener /\ Other # Listener

LEMMA HasFields == TypeOK => Fields
<1> SUFFICES ASSUME TypeOK PROVE Fields
  OBVIOUS
<1> USE SocketsAssumption DEF SocketsAssumption
<1>1. /\ MaxConns \in Nat /\ n \in Nat /\ n \in Ptr /\ sent.of \in Ptr
      /\ Conns \subseteq Nat /\ Conns = Ptr \ {0} /\ 0 \in Ptr
  BY DEF TypeOK, Ptr, Conns
<1>2. None \notin Conns /\ Other \notin Conns /\ Listener \notin Conns
  BY DEF Conns
<1>3. /\ cl.k \in Ptr /\ cl.ssl \in Ptr /\ cl.ctx \in Ptr
      /\ cl.sock \in Handles \cup {None}
  BY DEF TypeOK, Client
<1>4. /\ sv.k \in Ptr /\ sv.ssl \in Ptr /\ sv.ctx \in Ptr
      /\ sv.sock \in Handles \cup {None} /\ sv.listen \in Handles \cup {None}
  BY DEF TypeOK, Server
<1> QED BY <1>1, <1>2, <1>3, <1>4 DEF TypeOK, Fields

LEMMA CloseIs ==
    ASSUME os \in [Handles -> Owners], NEW h, Close(h)
    PROVE  /\ os' \in [Handles -> Owners]
           /\ \A x \in Handles : os'[x] = IF x = h THEN None ELSE os[x]
<1>1. None \in Owners
  BY DEF Owners
<1> QED BY <1>1 DEF Close

LEMMA FatedIs ==
    ASSUME fate \in [Conns -> SUBSET Fates], NEW k \in Conns,
           NEW what \in SUBSET Fates, Fated(k, what)
    PROVE  /\ fate' \in [Conns -> SUBSET Fates]
           /\ \A j \in Conns : fate[j] \subseteq fate'[j]
           /\ \A j \in Conns \ {k} : fate'[j] = fate[j]
           /\ what \subseteq fate'[k]
<1>1. fate[k] \cup what \in SUBSET Fates
  OBVIOUS
<1> QED BY <1>1 DEF Fated

LEMMA ShutdownIs ==
    ASSUME fds \in [Conns -> Handles \cup {None}], NEW o, ShutdownSSL(o)
    PROVE  /\ fds' \in [Conns -> Handles \cup {None}]
           /\ \A j \in Conns : fds'[j] = IF j = o.ssl THEN None ELSE fds[j]
           /\ ctxs' = IF o.ssl = 0 THEN ctxs ELSE ctxs \ {o.ctx}
BY DEF ShutdownSSL

LEMMA SetUpIs ==
    ASSUME fds \in [Conns -> Handles \cup {None}], NEW o, o.k \in Conns,
           o.sock \in Handles, NEW outcome, SetUp(o, outcome)
    PROVE  /\ fds' \in [Conns -> Handles \cup {None}]
           /\ \A j \in Conns :
                fds'[j] = IF j = o.k /\ outcome \notin {"noctx", "files"}
                          THEN o.sock ELSE fds[j]
           /\ ctxs' = IF outcome = "noctx" THEN ctxs ELSE ctxs \cup {o.k}
BY DEF SetUp

LEMMA CrashIs ==
    ASSUME TypeOK, Crash
    PROVE  /\ cl' \in Client /\ cl'.pc = "crashed"
           /\ cl'.up = cl.up /\ cl'.sock = cl.sock /\ cl'.k = cl.k
           /\ cl'.ssl = cl.ssl /\ cl'.ctx = cl.ctx /\ cl'.good = cl.good
           /\ sv' \in Server /\ sv'.pc = "crashed"
           /\ sv'.listen = sv.listen /\ sv'.held = sv.held
           /\ sv'.sock = sv.sock
           /\ sv'.k = sv.k /\ sv'.ssl = sv.ssl /\ sv'.ctx = sv.ctx
           /\ sv'.good = sv.good
BY DEF TypeOK, Crash, Client, Server

----------------------------------------------------------------------------
(* Each action keeps the invariant. *)

LEMMA OtherOpensKeeps == IInv /\ OtherOpens => IInv'
<1> SUFFICES ASSUME IInv, OtherOpens PROVE IInv'
  OBVIOUS
<1>1. Fields
  BY HasFields DEF IInv
<1> USE DEF IInv
<1>2. PICK h \in Handles : os[h] = None /\ os' = [os EXCEPT ![h] = Other]
  BY DEF OtherOpens, Free
<1>3. /\ os' \in [Handles -> Owners]
      /\ \A x \in Handles : os'[x] = IF x = h THEN Other ELSE os[x]
      /\ UNCHANGED <<cl, sv, ctxs, fds, n, fate, sent>>
  BY <1>1, <1>2 DEF OtherOpens, Fields, Owners
<1>10. TypeOK'
  BY <1>1, <1>2, <1>3 DEF TypeOK, Fields
<1>11. Own(cl, cl.up)'
  BY <1>1, <1>2, <1>3
     DEF OwnInv, Own, Holds, ApartInv, HandleInv, Again, Robbed, Fields
<1>12. Own(sv, sv.held)'
  BY <1>1, <1>2, <1>3
     DEF OwnInv, Own, Holds, ApartInv, HandleInv, Again, Robbed, Fields
<1>13. ApartInv'
  BY <1>1, <1>2, <1>3 DEF ApartInv, OwnInv, Own, Holds, Fields
<1>14. ListenInv'
  BY <1>1, <1>2, <1>3 DEF ListenInv, Fields
<1>15. HandleInv'
  BY <1>1, <1>2, <1>3 DEF HandleInv, OwnInv, Own, Holds, Fields
<1>16. SessionInv'
  BY <1>1, <1>2, <1>3 DEF SessionInv, OwnInv, Own, Holds, Again, Robbed, Fields
<1>17. ContextInv'
  BY <1>1, <1>2, <1>3
     DEF ContextInv, WithContext, OwnInv, Own, Holds, ApartInv, Again, Robbed, Fields
<1>18. LeftInv'
  BY <1>1, <1>2, <1>3
     DEF LeftInv, Left, Again, Held, OwnInv, Own, Holds, HandleInv, Fields
<1>19. SentInv'
  BY <1>1, <1>2, <1>3
     DEF SentInv, SessionInv, OwnInv, Own, Holds, Again, Robbed, Fields
<1> QED BY <1>10, <1>11, <1>12, <1>13, <1>14, <1>15, <1>16, <1>17, <1>18, <1>19
           DEF IInv, OwnInv

LEMMA OtherClosesKeeps == IInv /\ OtherCloses => IInv'
<1> SUFFICES ASSUME IInv, OtherCloses PROVE IInv'
  OBVIOUS
<1>1. Fields
  BY HasFields DEF IInv
<1> USE DEF IInv
<1>2. PICK h \in Handles : os[h] = Other /\ Close(h)
  BY DEF OtherCloses
<1>3. /\ os' \in [Handles -> Owners]
      /\ \A x \in Handles : os'[x] = IF x = h THEN None ELSE os[x]
      /\ UNCHANGED <<cl, sv, ctxs, fds, n, fate, sent>>
  BY <1>1, <1>2, CloseIs DEF OtherCloses, Fields
<1>10. TypeOK'
  BY <1>1, <1>2, <1>3 DEF TypeOK, Fields
<1>11. Own(cl, cl.up)'
  BY <1>1, <1>2, <1>3
     DEF OwnInv, Own, Holds, ApartInv, HandleInv, Again, Robbed, Fields
<1>12. Own(sv, sv.held)'
  BY <1>1, <1>2, <1>3
     DEF OwnInv, Own, Holds, ApartInv, HandleInv, Again, Robbed, Fields
<1>13. ApartInv'
  BY <1>1, <1>2, <1>3 DEF ApartInv, OwnInv, Own, Holds, Fields
<1>14. ListenInv'
  BY <1>1, <1>2, <1>3 DEF ListenInv, Fields
<1>15. HandleInv'
  BY <1>1, <1>2, <1>3 DEF HandleInv, OwnInv, Own, Holds, Fields
<1>16. SessionInv'
  BY <1>1, <1>2, <1>3 DEF SessionInv, OwnInv, Own, Holds, Again, Robbed, Fields
<1>17. ContextInv'
  BY <1>1, <1>2, <1>3
     DEF ContextInv, WithContext, OwnInv, Own, Holds, ApartInv, Again, Robbed, Fields
<1>18. LeftInv'
  BY <1>1, <1>2, <1>3
     DEF LeftInv, Left, Again, Held, OwnInv, Own, Holds, HandleInv, Fields
<1>19. SentInv'
  BY <1>1, <1>2, <1>3
     DEF SentInv, SessionInv, OwnInv, Own, Holds, Again, Robbed, Fields
<1> QED BY <1>10, <1>11, <1>12, <1>13, <1>14, <1>15, <1>16, <1>17, <1>18, <1>19
           DEF IInv, OwnInv

LEMMA ClientConnectKeeps == IInv /\ ClientConnect => IInv'
<1> SUFFICES ASSUME IInv, ClientConnect PROVE IInv'
  OBVIOUS
<1>1. Fields
  BY HasFields DEF IInv
<1> USE DEF IInv
<1>2. /\ cl.pc = "idle"
      /\ UNCHANGED <<sv, ctxs, fds, n, sent>>
  BY DEF ClientConnect
<1>3. CASE ~cl.up
  <2>1. /\ cl' \in Client
        /\ cl'.pc = "tcp" /\ cl'.up = cl.up /\ cl'.sock = cl.sock
        /\ cl'.k = cl.k /\ cl'.ssl = cl.ssl /\ cl'.ctx = cl.ctx
        /\ cl'.good = FALSE
        /\ UNCHANGED <<os, fate>>
    BY <1>1, <1>2, <1>3 DEF ClientConnect, TypeOK, Client
  <2>10. TypeOK'
    BY <1>1, <1>2, <1>3, <2>1 DEF TypeOK, Fields
  <2>11. Own(cl, cl.up)'
    BY <1>1, <1>2, <1>3, <2>1
       DEF OwnInv, Own, Holds, ApartInv, HandleInv, Again, Robbed, Fields
  <2>12. Own(sv, sv.held)'
    BY <1>1, <1>2, <1>3, <2>1
       DEF OwnInv, Own, Holds, ApartInv, HandleInv, Again, Robbed, Fields
  <2>13. ApartInv'
    BY <1>1, <1>2, <1>3, <2>1 DEF ApartInv, OwnInv, Own, Holds, Fields
  <2>14. ListenInv'
    BY <1>1, <1>2, <1>3, <2>1 DEF ListenInv, Fields
  <2>15. HandleInv'
    BY <1>1, <1>2, <1>3, <2>1 DEF HandleInv, OwnInv, Own, Holds, Fields
  <2>16. SessionInv'
    BY <1>1, <1>2, <1>3, <2>1
       DEF SessionInv, OwnInv, Own, Holds, Again, Robbed, Fields
  <2>17. ContextInv'
    BY <1>1, <1>2, <1>3, <2>1
       DEF ContextInv, WithContext, OwnInv, Own, Holds, ApartInv, Again, Robbed, Fields
  <2>18. LeftInv'
    BY <1>1, <1>2, <1>3, <2>1
       DEF LeftInv, Left, Again, Held, OwnInv, Own, Holds, HandleInv, Fields
  <2>19. SentInv'
    BY <1>1, <1>2, <1>3, <2>1
       DEF SentInv, SessionInv, OwnInv, Own, Holds, Again, Robbed, Fields
  <2> QED BY <2>10, <2>11, <2>12, <2>13, <2>14, <2>15, <2>16, <2>17, <2>18,
             <2>19
             DEF IInv, OwnInv
<1>4. CASE cl.up
  <2>1. PICK ok \in BOOLEAN :
           /\ cl' = [TcpDown(cl, ok) EXCEPT !.pc = "tcp"]
           /\ Drop(cl.sock, cl.k, ok, {"again"})
    BY <1>4 DEF ClientConnect
  <2>2. /\ cl' \in Client
        /\ cl'.pc = "tcp" /\ cl'.up = FALSE
        /\ cl'.sock = IF ok THEN None ELSE cl.sock
        /\ cl'.k = cl.k /\ cl'.ssl = cl.ssl /\ cl'.ctx = cl.ctx
        /\ cl'.good = FALSE
    BY <2>1 DEF TcpDown, TypeOK, Client
  <2>3. cl.k \in Conns /\ cl.sock \in Handles
    BY <1>4 DEF OwnInv, Own, Holds
  <2>4. /\ os' \in [Handles -> Owners]
        /\ ok => os[cl.sock] # None /\ os[cl.sock] # Listener
        /\ \A x \in Handles :
             os'[x] = IF ok /\ x = cl.sock THEN None ELSE os[x]
    BY <1>1, <2>1, CloseIs DEF Drop, Fields, Fates
  <2>5. /\ fate' \in [Conns -> SUBSET Fates]
        /\ \A j \in Conns : fate[j] \subseteq fate'[j]
        /\ "again" \in fate'[cl.k]
    BY <1>1, <2>1, <2>3, CloseIs DEF Drop, Fields, Fates
  <2>6. \A j \in Conns : ok /\ os[cl.sock] = j /\ j # cl.k =>
           "robbed" \in fate'[j]
    BY <1>1, <2>1, CloseIs DEF Drop, Fields, Fates
  <2>10. TypeOK'
    BY <1>1, <1>2, <1>4, <2>2, <2>3, <2>4, <2>5, <2>6 DEF TypeOK, Fields
  <2>11. Own(cl, cl.up)'
    BY <1>1, <1>2, <1>4, <2>2, <2>3, <2>4, <2>5, <2>6
       DEF OwnInv, Own, Holds, ApartInv, HandleInv, Again, Robbed, Fields
  <2>12. Own(sv, sv.held)'
    <3>1. sv.held => Holds(sv)'
      <4> SUFFICES ASSUME sv.held PROVE Holds(sv)'
        OBVIOUS
      <4>1. /\ sv.sock \in Handles /\ sv.k \in Conns /\ sv' = sv
            /\ os[sv.sock] = sv.k \/ Robbed(sv.k)
            /\ \A h \in Handles : os[h] = sv.k => h = sv.sock
        BY <1>2 DEF OwnInv, Own, Holds
      <4>2. sv.k # cl.k
        BY <4>1 DEF ApartInv
      <4>3. \A h \in Handles : os'[h] = sv.k => h = sv.sock
        BY <1>1, <2>4, <4>1 DEF Fields
      <4>4. Robbed(sv.k) => Robbed(sv.k)'
        BY <2>5, <4>1 DEF Robbed
      <4>5. os[sv.sock] = sv.k => os'[sv.sock] = sv.k \/ Robbed(sv.k)'
        BY <1>1, <2>4, <2>6, <4>1, <4>2 DEF Robbed, Fields
      <4> QED BY <4>1, <4>3, <4>4, <4>5 DEF Holds
    <3>2. sv.ssl # 0 => (Again(sv.ssl) => Again(sv.ssl)')
      BY <1>1, <1>2, <2>5 DEF Fields, Again
    <3> QED BY <1>1, <1>2, <3>1, <3>2 DEF OwnInv, Own, Fields
  <2>13. ApartInv'
    BY <1>1, <1>2, <1>4, <2>2, <2>3, <2>4, <2>5, <2>6
       DEF ApartInv, OwnInv, Own, Holds, Fields
  <2>14. ListenInv'
    BY <1>1, <1>2, <1>4, <2>2, <2>3, <2>4, <2>5, <2>6 DEF ListenInv, Fields
  <2>15. HandleInv'
    BY <1>1, <1>2, <1>4, <2>2, <2>3, <2>4, <2>5, <2>6
       DEF HandleInv, OwnInv, Own, Holds, Fields
  <2>16. SessionInv'
    BY <1>1, <1>2, <1>4, <2>2, <2>3, <2>4, <2>5, <2>6
       DEF SessionInv, OwnInv, Own, Holds, Again, Robbed, Fields
  <2>17. ContextInv'
    BY <1>1, <1>2, <1>4, <2>2, <2>3, <2>4, <2>5, <2>6
       DEF ContextInv, WithContext, OwnInv, Own, Holds, ApartInv, Again, Robbed, Fields
  <2>18. LeftInv'
    BY <1>1, <1>2, <1>4, <2>2, <2>3, <2>4, <2>5, <2>6
       DEF LeftInv, Left, Again, Held, OwnInv, Own, Holds, HandleInv, Fields
  <2>19. SentInv'
    BY <1>1, <1>2, <1>4, <2>2, <2>3, <2>4, <2>5, <2>6
       DEF SentInv, SessionInv, OwnInv, Own, Holds, Again, Robbed, Fields
  <2> QED BY <2>10, <2>11, <2>12, <2>13, <2>14, <2>15, <2>16, <2>17, <2>18,
             <2>19
             DEF IInv, OwnInv
<1> QED BY <1>3, <1>4

LEMMA ClientNoSocketKeeps == IInv /\ ClientNoSocket => IInv'
<1> SUFFICES ASSUME IInv, ClientNoSocket PROVE IInv'
  OBVIOUS
<1>1. Fields
  BY HasFields DEF IInv
<1> USE DEF IInv
<1>2. PICK sock \in {cl.sock, None} :
         cl' = [cl EXCEPT !.pc = "idle", !.sock = sock]
  BY DEF ClientNoSocket
<1>3. /\ cl' \in Client
      /\ cl'.pc = "idle" /\ cl'.up = cl.up /\ cl'.sock = sock
      /\ cl'.k = cl.k /\ cl'.ssl = cl.ssl /\ cl'.ctx = cl.ctx
      /\ cl'.good = cl.good
      /\ cl.pc = "tcp"
      /\ UNCHANGED <<os, sv, ctxs, fds, n, fate, sent>>
  BY <1>1, <1>2 DEF ClientNoSocket, TypeOK, Client, Fields
<1>10. TypeOK'
  BY <1>1, <1>3 DEF TypeOK, Fields
<1>11. Own(cl, cl.up)'
  BY <1>1, <1>3
     DEF OwnInv, Own, Holds, ApartInv, HandleInv, Again, Robbed, Fields
<1>12. Own(sv, sv.held)'
  BY <1>1, <1>3
     DEF OwnInv, Own, Holds, ApartInv, HandleInv, Again, Robbed, Fields
<1>13. ApartInv'
  BY <1>1, <1>3 DEF ApartInv, OwnInv, Own, Holds, Fields
<1>14. ListenInv'
  BY <1>1, <1>3 DEF ListenInv, Fields
<1>15. HandleInv'
  BY <1>1, <1>3 DEF HandleInv, OwnInv, Own, Holds, Fields
<1>16. SessionInv'
  BY <1>1, <1>3 DEF SessionInv, OwnInv, Own, Holds, Again, Robbed, Fields
<1>17. ContextInv'
  BY <1>1, <1>3
     DEF ContextInv, WithContext, OwnInv, Own, Holds, ApartInv, Again, Robbed, Fields
<1>18. LeftInv'
  BY <1>1, <1>3
     DEF LeftInv, Left, Again, Held, OwnInv, Own, Holds, HandleInv, Fields
<1>19. SentInv'
  BY <1>1, <1>3
     DEF SentInv, SessionInv, OwnInv, Own, Holds, Again, Robbed, Fields
<1> QED BY <1>10, <1>11, <1>12, <1>13, <1>14, <1>15, <1>16, <1>17, <1>18, <1>19
           DEF IInv, OwnInv

LEMMA ClientNoOptionKeeps == IInv /\ ClientNoOption => IInv'
<1> SUFFICES ASSUME IInv, ClientNoOption PROVE IInv'
  OBVIOUS
<1>1. Fields
  BY HasFields DEF IInv
<1> USE DEF IInv
<1>2. PICK h \in Handles : cl' = [cl EXCEPT !.pc = "idle", !.sock = h]
  BY DEF ClientNoOption
<1>3. /\ cl' \in Client
      /\ cl'.pc = "idle" /\ cl'.up = cl.up /\ cl'.sock = h
      /\ cl'.k = cl.k /\ cl'.ssl = cl.ssl /\ cl'.ctx = cl.ctx
      /\ cl'.good = cl.good
      /\ cl.pc = "tcp"
      /\ UNCHANGED <<os, sv, ctxs, fds, n, fate, sent>>
  BY <1>1, <1>2 DEF ClientNoOption, TypeOK, Client, Fields
<1>10. TypeOK'
  BY <1>1, <1>3 DEF TypeOK, Fields
<1>11. Own(cl, cl.up)'
  BY <1>1, <1>3
     DEF OwnInv, Own, Holds, ApartInv, HandleInv, Again, Robbed, Fields
<1>12. Own(sv, sv.held)'
  BY <1>1, <1>3
     DEF OwnInv, Own, Holds, ApartInv, HandleInv, Again, Robbed, Fields
<1>13. ApartInv'
  BY <1>1, <1>3 DEF ApartInv, OwnInv, Own, Holds, Fields
<1>14. ListenInv'
  BY <1>1, <1>3 DEF ListenInv, Fields
<1>15. HandleInv'
  BY <1>1, <1>3 DEF HandleInv, OwnInv, Own, Holds, Fields
<1>16. SessionInv'
  BY <1>1, <1>3 DEF SessionInv, OwnInv, Own, Holds, Again, Robbed, Fields
<1>17. ContextInv'
  BY <1>1, <1>3
     DEF ContextInv, WithContext, OwnInv, Own, Holds, ApartInv, Again, Robbed, Fields
<1>18. LeftInv'
  BY <1>1, <1>3
     DEF LeftInv, Left, Again, Held, OwnInv, Own, Holds, HandleInv, Fields
<1>19. SentInv'
  BY <1>1, <1>3
     DEF SentInv, SessionInv, OwnInv, Own, Holds, Again, Robbed, Fields
<1> QED BY <1>10, <1>11, <1>12, <1>13, <1>14, <1>15, <1>16, <1>17, <1>18, <1>19
           DEF IInv, OwnInv

LEMMA ClientSocketKeeps == IInv /\ ClientSocket => IInv'
<1> SUFFICES ASSUME IInv, ClientSocket PROVE IInv'
  OBVIOUS
<1>1. Fields
  BY HasFields DEF IInv
<1> USE DEF IInv
<1>2. PICK h \in Handles, ok \in BOOLEAN :
         /\ os[h] = None
         /\ os' = [os EXCEPT ![h] = n + 1]
         /\ cl' = [cl EXCEPT !.pc = IF ok THEN "tls" ELSE "idle", !.up = ok,
                             !.sock = h, !.k = n + 1]
         /\ Fated(n + 1, IF ok THEN {} ELSE {"refused"})
  BY DEF ClientSocket, Free
<1>3. /\ cl.pc = "tcp" /\ n' = n + 1 /\ n + 1 \in Conns /\ n + 1 \in Ptr
      /\ UNCHANGED <<sv, ctxs, fds, sent>>
  BY <1>1 DEF ClientSocket, Conns, Ptr, Fields, TypeOK
<1>4. /\ cl' \in Client
      /\ cl'.pc = IF ok THEN "tls" ELSE "idle"
      /\ cl'.up = ok /\ cl'.sock = h /\ cl'.k = n + 1
      /\ cl'.ssl = cl.ssl /\ cl'.ctx = cl.ctx /\ cl'.good = cl.good
  BY <1>2, <1>3 DEF TypeOK, Client
<1>5. /\ os' \in [Handles -> Owners]
      /\ \A x \in Handles : os'[x] = IF x = h THEN n + 1 ELSE os[x]
  BY <1>1, <1>2, <1>3 DEF Fields, Owners
<1>6. /\ fate' \in [Conns -> SUBSET Fates]
      /\ \A j \in Conns : fate[j] \subseteq fate'[j]
      /\ ok \/ "refused" \in fate'[n + 1]
  <2> DEFINE what == IF ok THEN {} ELSE {"refused"}
  <2>1. /\ what \in SUBSET Fates /\ Fated(n + 1, what)
        /\ ok \/ "refused" \in what
    BY <1>2 DEF Fates
  <2> HIDE DEF what
  <2> QED BY <1>1, <1>3, <2>1, FatedIs DEF Fields
<1>10. TypeOK'
  BY <1>1, <1>2, <1>3, <1>4, <1>5, <1>6 DEF TypeOK, Fields
<1>11. Own(cl, cl.up)'
  BY <1>1, <1>2, <1>3, <1>4, <1>5, <1>6
     DEF OwnInv, Own, Holds, ApartInv, HandleInv, Again, Robbed, Fields
<1>12. Own(sv, sv.held)'
  BY <1>1, <1>2, <1>3, <1>4, <1>5, <1>6
     DEF OwnInv, Own, Holds, ApartInv, HandleInv, Again, Robbed, Fields
<1>13. ApartInv'
  BY <1>1, <1>2, <1>3, <1>4, <1>5, <1>6
     DEF ApartInv, OwnInv, Own, Holds, Fields
<1>14. ListenInv'
  BY <1>1, <1>2, <1>3, <1>4, <1>5, <1>6 DEF ListenInv, Fields
<1>15. HandleInv'
  BY <1>1, <1>2, <1>3, <1>4, <1>5, <1>6
     DEF HandleInv, OwnInv, Own, Holds, Fields
<1>16. SessionInv'
  BY <1>1, <1>2, <1>3, <1>4, <1>5, <1>6
     DEF SessionInv, OwnInv, Own, Holds, Again, Robbed, Fields
<1>17. ContextInv'
  BY <1>1, <1>2, <1>3, <1>4, <1>5, <1>6
     DEF ContextInv, WithContext, OwnInv, Own, Holds, ApartInv, Again, Robbed, Fields
<1>18. LeftInv'
  BY <1>1, <1>2, <1>3, <1>4, <1>5, <1>6
     DEF LeftInv, Left, Again, Held, OwnInv, Own, Holds, HandleInv, Fields
<1>19. SentInv'
  BY <1>1, <1>2, <1>3, <1>4, <1>5, <1>6
     DEF SentInv, SessionInv, OwnInv, Own, Holds, Again, Robbed, Fields
<1> QED BY <1>10, <1>11, <1>12, <1>13, <1>14, <1>15, <1>16, <1>17, <1>18, <1>19
           DEF IInv, OwnInv

LEMMA ClientTlsKeeps == IInv /\ ClientTls => IInv'
<1> SUFFICES ASSUME IInv, ClientTls PROVE IInv'
  OBVIOUS
<1>1. Fields
  BY HasFields DEF IInv
<1> USE DEF IInv
<1>2. PICK outcome \in Outcomes :
         /\ SetUp(cl, outcome)
         /\ cl' = AfterSetUp(cl, outcome)
         /\ Fated(cl.k, IF outcome = "files" THEN {"bare"} ELSE {})
  BY DEF ClientTls
<1>3. /\ cl.pc = "tls" /\ cl.up /\ cl.k \in Conns /\ cl.sock \in Handles
      /\ UNCHANGED <<os, sv, n, sent>>
  BY DEF ClientTls, OwnInv, Own, Holds
<1>4. /\ cl' \in Client
      /\ cl'.pc = "idle" /\ cl'.up = cl.up /\ cl'.sock = cl.sock
      /\ cl'.k = cl.k
      /\ cl'.ssl = IF outcome \in {"noctx", "files"} THEN cl.ssl ELSE cl.k
      /\ cl'.ctx = IF outcome = "noctx" THEN 0 ELSE cl.k
      /\ cl'.good = (outcome = "ok")
  <2> DEFINE c == IF outcome = "noctx" THEN 0 ELSE cl.k
             s == IF outcome \in {"noctx", "files"} THEN cl.ssl ELSE cl.k
             g == outcome = "ok"
  <2>1. cl' = [cl EXCEPT !.pc = "idle", !.ctx = c, !.ssl = s, !.good = g]
    BY <1>2 DEF AfterSetUp
  <2>2. c \in Ptr /\ s \in Ptr
    BY <1>1, <1>3 DEF Fields
  <2>3. g \in BOOLEAN
    OBVIOUS
  <2> HIDE DEF c, s, g
  <2>4. /\ cl' \in Client /\ cl'.pc = "idle"
        /\ cl'.ctx = c /\ cl'.ssl = s /\ cl'.good = g
        /\ cl'.up = cl.up
        /\ cl'.sock = cl.sock /\ cl'.k = cl.k
    BY <2>1, <2>2, <2>3 DEF TypeOK, Client
  <2> QED BY <2>4 DEF c, s, g
<1>5. /\ fds' \in [Conns -> Handles \cup {None}]
      /\ \A j \in Conns :
           fds'[j] = IF j = cl.k /\ outcome \notin {"noctx", "files"}
                     THEN cl.sock ELSE fds[j]
      /\ ctxs' = IF outcome = "noctx" THEN ctxs ELSE ctxs \cup {cl.k}
  BY <1>1, <1>2, <1>3, SetUpIs DEF Fields
<1>6. /\ fate' \in [Conns -> SUBSET Fates]
      /\ \A j \in Conns : fate[j] \subseteq fate'[j]
      /\ outcome # "files" \/ "bare" \in fate'[cl.k]
  <2> DEFINE what == IF outcome = "files" THEN {"bare"} ELSE {}
  <2>1. /\ what \in SUBSET Fates /\ Fated(cl.k, what)
        /\ outcome # "files" \/ "bare" \in what
    BY <1>2 DEF Fates
  <2> HIDE DEF what
  <2> QED BY <1>1, <1>3, <2>1, FatedIs DEF Fields
<1>7. outcome \in {"noctx", "files", "handshake", "ok"}
  BY DEF Outcomes
<1>8. cl.ssl # 0 => "again" \in fate'[cl.ssl]
  <2> SUFFICES ASSUME cl.ssl # 0 PROVE "again" \in fate'[cl.ssl]
    OBVIOUS
  <2>1. cl.ssl \in Conns
    BY <1>1 DEF Fields
  <2>2. fds[cl.ssl] # None /\ cl.ssl # cl.k
    BY <1>3 DEF OwnInv, Own, Holds
  <2>3. "again" \in fate[cl.ssl]
    BY <2>2 DEF OwnInv, Own, Holds, Again
  <2> QED BY <1>6, <2>1, <2>3
<1>9. cl'.up /\ Holds(cl)'
  <2>1. Holds(cl) /\ cl.up
    BY <1>3 DEF OwnInv, Own
  <2>2. cl.k \in Conns /\ cl'.k = cl.k
    BY <1>4, <2>1 DEF Holds
  <2>3. Robbed(cl.k) => Robbed(cl.k)'
    BY <1>6, <2>2 DEF Robbed
  <2> QED BY <1>3, <1>4, <2>1, <2>2, <2>3 DEF Holds
<1>10. TypeOK'
  BY <1>1, <1>2, <1>3, <1>4, <1>5, <1>6, <1>7 DEF TypeOK, Fields
<1>11. Own(cl, cl.up)'
  <2>1. CASE outcome = "noctx"
    <3>1. /\ cl'.ssl = cl.ssl /\ cl'.ctx = 0 /\ cl'.good = FALSE
          /\ \A j \in Conns : fds'[j] = fds[j]
      BY <1>1, <1>3, <1>4, <1>5, <2>1 DEF Fields
    <3>2. cl'.ssl # 0 => fds'[cl'.ssl] # None
      BY <1>1, <1>3, <1>4, <3>1 DEF OwnInv, Own, Holds, Fields
    <3> QED BY <1>1, <1>3, <1>4, <1>8, <1>9, <3>1, <3>2
               DEF OwnInv, Own, Again, Fields
  <2>2. CASE outcome = "files"
    <3>1. /\ cl'.ssl = cl.ssl /\ cl'.ctx = cl.k /\ cl'.good = FALSE
          /\ \A j \in Conns : fds'[j] = fds[j]
      BY <1>1, <1>3, <1>4, <1>5, <2>2 DEF Fields
    <3>2. cl'.ssl # 0 => fds'[cl'.ssl] # None
      BY <1>1, <1>3, <1>4, <3>1 DEF OwnInv, Own, Holds, Fields
    <3> QED BY <1>1, <1>3, <1>4, <1>8, <1>9, <3>1, <3>2
               DEF OwnInv, Own, Again, Fields
  <2>3. CASE outcome = "handshake"
    <3>1. /\ cl'.ssl = cl.k /\ cl'.ctx = cl.k /\ cl'.good = FALSE
          /\ fds'[cl.k] = cl.sock
      BY <1>1, <1>3, <1>4, <1>5, <2>3 DEF Fields
    <3>2. cl'.ssl # 0 => fds'[cl'.ssl] # None
      BY <1>1, <1>3, <1>4, <3>1 DEF OwnInv, Own, Holds, Fields
    <3> QED BY <1>1, <1>3, <1>4, <1>8, <1>9, <3>1, <3>2
               DEF OwnInv, Own, Again, Fields
  <2>4. CASE outcome = "ok"
    <3>1. /\ cl'.ssl = cl.k /\ cl'.ctx = cl.k /\ cl'.good = TRUE
          /\ fds'[cl.k] = cl.sock /\ cl.k \in ctxs'
      BY <1>1, <1>3, <1>4, <1>5, <2>4 DEF Fields
    <3>2. cl'.ssl # 0 => fds'[cl'.ssl] # None
      BY <1>1, <1>3, <1>4, <3>1 DEF OwnInv, Own, Holds, Fields
    <3> QED BY <1>1, <1>3, <1>4, <1>8, <1>9, <3>1, <3>2
               DEF OwnInv, Own, Again, Fields
  <2> QED BY <1>7, <2>1, <2>2, <2>3, <2>4
<1>12. Own(sv, sv.held)'
  BY <1>1, <1>2, <1>3, <1>4, <1>5, <1>6, <1>7
     DEF OwnInv, Own, Holds, ApartInv, HandleInv, Again, Robbed, Fields
<1>13. ApartInv'
  BY <1>1, <1>2, <1>3, <1>4, <1>5, <1>6, <1>7
     DEF ApartInv, OwnInv, Own, Holds, Fields
<1>14. ListenInv'
  BY <1>1, <1>2, <1>3, <1>4, <1>5, <1>6, <1>7 DEF ListenInv, Fields
<1>15. HandleInv'
  BY <1>1, <1>2, <1>3, <1>4, <1>5, <1>6, <1>7
     DEF HandleInv, OwnInv, Own, Holds, Fields
<1>16. SessionInv'
  <2>1. CASE outcome = "noctx"
    BY <1>1, <1>3, <1>4, <1>5, <1>6, <2>1
       DEF SessionInv, OwnInv, Own, Holds, Again, Robbed, Fields
  <2>2. CASE outcome = "files"
    BY <1>1, <1>3, <1>4, <1>5, <1>6, <2>2
       DEF SessionInv, OwnInv, Own, Holds, Again, Robbed, Fields
  <2>3. CASE outcome = "handshake"
    BY <1>1, <1>3, <1>4, <1>5, <1>6, <2>3
       DEF SessionInv, OwnInv, Own, Holds, Again, Robbed, Fields
  <2>4. CASE outcome = "ok"
    BY <1>1, <1>3, <1>4, <1>5, <1>6, <2>4
       DEF SessionInv, OwnInv, Own, Holds, Again, Robbed, Fields
  <2> QED BY <1>7, <2>1, <2>2, <2>3, <2>4
<1>17. ContextInv'
  BY <1>1, <1>2, <1>3, <1>4, <1>5, <1>6, <1>7
     DEF ContextInv, WithContext, OwnInv, Own, Holds, ApartInv, Again, Robbed, Fields
<1>18. LeftInv'
  BY <1>1, <1>2, <1>3, <1>4, <1>5, <1>6, <1>7
     DEF LeftInv, Left, Again, Held, OwnInv, Own, Holds, HandleInv, Fields
<1>19. SentInv'
  BY <1>1, <1>2, <1>3, <1>4, <1>5, <1>6, <1>7
     DEF SentInv, SessionInv, OwnInv, Own, Holds, Again, Robbed, Fields
<1> QED BY <1>10, <1>11, <1>12, <1>13, <1>14, <1>15, <1>16, <1>17, <1>18, <1>19
           DEF IInv, OwnInv

LEMMA ClientSendKeeps == IInv /\ ClientSend => IInv'
<1> SUFFICES ASSUME IInv, ClientSend PROVE IInv'
  OBVIOUS
<1>1. Fields
  BY HasFields DEF IInv
<1> USE DEF IInv
<1>2. cl.up /\ UNCHANGED <<os, ctxs, fds, n, fate>>
  BY DEF ClientSend
<1>3. CASE cl.ssl = 0
  <2>1. /\ cl' \in Client /\ cl'.pc = "crashed"
        /\ cl'.up = cl.up /\ cl'.sock = cl.sock /\ cl'.k = cl.k
        /\ cl'.ssl = cl.ssl /\ cl'.ctx = cl.ctx /\ cl'.good = cl.good
        /\ sv' \in Server /\ sv'.pc = "crashed"
        /\ sv'.listen = sv.listen /\ sv'.held = sv.held /\ sv'.sock = sv.sock
        /\ sv'.k = sv.k /\ sv'.ssl = sv.ssl /\ sv'.ctx = sv.ctx
        /\ sv'.good = sv.good
    BY <1>3, CrashIs DEF ClientSend
  <2>2. UNCHANGED sent
    BY <1>3 DEF ClientSend
  <2>10. TypeOK'
    BY <1>1, <1>2, <2>1, <2>2 DEF TypeOK, Fields
  <2>11. Own(cl, cl.up)'
    BY <1>1, <1>2, <2>1, <2>2
       DEF OwnInv, Own, Holds, ApartInv, HandleInv, Again, Robbed, Fields
  <2>12. Own(sv, sv.held)'
    BY <1>1, <1>2, <2>1, <2>2
       DEF OwnInv, Own, Holds, ApartInv, HandleInv, Again, Robbed, Fields
  <2>13. ApartInv'
    BY <1>1, <1>2, <2>1, <2>2 DEF ApartInv, OwnInv, Own, Holds, Fields
  <2>14. ListenInv'
    BY <1>1, <1>2, <2>1, <2>2 DEF ListenInv, Fields
  <2>15. HandleInv'
    BY <1>1, <1>2, <2>1, <2>2 DEF HandleInv, OwnInv, Own, Holds, Fields
  <2>16. SessionInv'
    BY <1>1, <1>2, <2>1, <2>2
       DEF SessionInv, OwnInv, Own, Holds, Again, Robbed, Fields
  <2>17. ContextInv'
    BY <1>1, <1>2, <2>1, <2>2
       DEF ContextInv, WithContext, OwnInv, Own, Holds, ApartInv, Again, Robbed, Fields
  <2>18. LeftInv'
    BY <1>1, <1>2, <2>1, <2>2
       DEF LeftInv, Left, Again, Held, OwnInv, Own, Holds, HandleInv, Fields
  <2>19. SentInv'
    BY <1>1, <1>2, <2>1, <2>2
       DEF SentInv, SessionInv, OwnInv, Own, Holds, Again, Robbed, Fields
  <2> QED BY <2>10, <2>11, <2>12, <2>13, <2>14, <2>15, <2>16, <2>17, <2>18,
             <2>19
             DEF IInv, OwnInv
<1>4. CASE cl.ssl # 0
  <2>1. /\ cl.ssl \in Conns /\ fds[cl.ssl] \in Handles
        /\ os[fds[cl.ssl]] = cl.ssl \/ Again(cl.ssl) \/ Robbed(cl.ssl)
        /\ os[fds[cl.ssl]] \in Owners
    BY <1>1, <1>4 DEF OwnInv, Own, SessionInv, Fields
  <2>2. /\ sent' = [of |-> cl.ssl, to |-> os[fds[cl.ssl]]]
        /\ UNCHANGED <<cl, sv>>
    BY <1>1, <1>4, <2>1 DEF ClientSend, Record, Fields
  <2>3. /\ sent'.of = cl.ssl /\ sent'.to = os[fds[cl.ssl]]
        /\ sent' \in [of : Ptr, to : Owners]
    BY <1>1, <2>1, <2>2 DEF Fields
  <2>10. TypeOK'
    BY <1>1, <1>2, <2>1, <2>2, <2>3 DEF TypeOK, Fields
  <2>11. Own(cl, cl.up)'
    BY <1>1, <1>2, <2>1, <2>2, <2>3
       DEF OwnInv, Own, Holds, ApartInv, HandleInv, Again, Robbed, Fields
  <2>12. Own(sv, sv.held)'
    BY <1>1, <1>2, <2>1, <2>2, <2>3
       DEF OwnInv, Own, Holds, ApartInv, HandleInv, Again, Robbed, Fields
  <2>13. ApartInv'
    BY <1>1, <1>2, <2>1, <2>2, <2>3 DEF ApartInv, OwnInv, Own, Holds, Fields
  <2>14. ListenInv'
    BY <1>1, <1>2, <2>1, <2>2, <2>3 DEF ListenInv, Fields
  <2>15. HandleInv'
    BY <1>1, <1>2, <2>1, <2>2, <2>3 DEF HandleInv, OwnInv, Own, Holds, Fields
  <2>16. SessionInv'
    BY <1>1, <1>2, <2>1, <2>2, <2>3
       DEF SessionInv, OwnInv, Own, Holds, Again, Robbed, Fields
  <2>17. ContextInv'
    BY <1>1, <1>2, <2>1, <2>2, <2>3
       DEF ContextInv, WithContext, OwnInv, Own, Holds, ApartInv, Again, Robbed, Fields
  <2>18. LeftInv'
    BY <1>1, <1>2, <2>1, <2>2, <2>3
       DEF LeftInv, Left, Again, Held, OwnInv, Own, Holds, HandleInv, Fields
  <2>19. SentInv'
    BY <1>1, <1>2, <2>1, <2>2, <2>3
       DEF SentInv, SessionInv, OwnInv, Own, Holds, Again, Robbed, Fields
  <2> QED BY <2>10, <2>11, <2>12, <2>13, <2>14, <2>15, <2>16, <2>17, <2>18,
             <2>19
             DEF IInv, OwnInv
<1> QED BY <1>3, <1>4

LEMMA ClientDisconnectKeeps == IInv /\ ClientDisconnect => IInv'
<1> SUFFICES ASSUME IInv, ClientDisconnect PROVE IInv'
  OBVIOUS
<1>1. Fields
  BY HasFields DEF IInv
<1> USE DEF IInv
<1>2. PICK pc \in {"idle", "gone"}, ok \in BOOLEAN :
         IF cl.up
         THEN /\ IF cl.ssl = 0 THEN UNCHANGED sent ELSE Record(cl)
              /\ ShutdownSSL(cl)
              /\ cl' = [TcpDown(AfterShutdown(cl), ok) EXCEPT !.pc = pc]
              /\ Drop(cl.sock, cl.k, ok, {})
         ELSE /\ cl' = [cl EXCEPT !.pc = pc]
              /\ UNCHANGED <<os, ctxs, fds, fate, sent>>
  BY DEF ClientDisconnect
<1>3. cl.pc = "idle" /\ UNCHANGED <<sv, n>>
  BY DEF ClientDisconnect
<1>4. CASE ~cl.up
  <2>1. /\ cl' \in Client
        /\ cl'.pc = pc /\ cl'.up = cl.up /\ cl'.sock = cl.sock
        /\ cl'.k = cl.k /\ cl'.ssl = cl.ssl /\ cl'.ctx = cl.ctx
        /\ cl'.good = cl.good
        /\ UNCHANGED <<os, ctxs, fds, fate, sent>>
    BY <1>2, <1>4 DEF TypeOK, Client
  <2>10. TypeOK'
    BY <1>1, <1>3, <1>4, <2>1 DEF TypeOK, Fields
  <2>11. Own(cl, cl.up)'
    BY <1>1, <1>3, <1>4, <2>1
       DEF OwnInv, Own, Holds, ApartInv, HandleInv, Again, Robbed, Fields
  <2>12. Own(sv, sv.held)'
    BY <1>1, <1>3, <1>4, <2>1
       DEF OwnInv, Own, Holds, ApartInv, HandleInv, Again, Robbed, Fields
  <2>13. ApartInv'
    BY <1>1, <1>3, <1>4, <2>1 DEF ApartInv, OwnInv, Own, Holds, Fields
  <2>14. ListenInv'
    BY <1>1, <1>3, <1>4, <2>1 DEF ListenInv, Fields
  <2>15. HandleInv'
    BY <1>1, <1>3, <1>4, <2>1 DEF HandleInv, OwnInv, Own, Holds, Fields
  <2>16. SessionInv'
    BY <1>1, <1>3, <1>4, <2>1
       DEF SessionInv, OwnInv, Own, Holds, Again, Robbed, Fields
  <2>17. ContextInv'
    BY <1>1, <1>3, <1>4, <2>1
       DEF ContextInv, WithContext, OwnInv, Own, Holds, ApartInv, Again, Robbed, Fields
  <2>18. LeftInv'
    BY <1>1, <1>3, <1>4, <2>1
       DEF LeftInv, Left, Again, Held, OwnInv, Own, Holds, HandleInv, Fields
  <2>19. SentInv'
    BY <1>1, <1>3, <1>4, <2>1
       DEF SentInv, SessionInv, OwnInv, Own, Holds, Again, Robbed, Fields
  <2> QED BY <2>10, <2>11, <2>12, <2>13, <2>14, <2>15, <2>16, <2>17, <2>18,
             <2>19
             DEF IInv, OwnInv
<1>5. CASE cl.up
  <2>1. /\ cl' \in Client
        /\ cl'.pc = pc /\ cl'.up = FALSE
        /\ cl'.sock = IF ok THEN None ELSE cl.sock
        /\ cl'.k = cl.k /\ cl'.ssl = 0 /\ cl'.ctx = cl.ctx
        /\ cl'.good = FALSE
    <3> DEFINE a == AfterShutdown(cl)
               b == TcpDown(a, ok)
    <3>1. /\ a \in Client /\ a.pc = cl.pc /\ a.sock = cl.sock /\ a.k = cl.k
          /\ a.ssl = 0 /\ a.ctx = cl.ctx
      BY <1>1 DEF AfterShutdown, TypeOK, Client, Fields
    <3> HIDE DEF a
    <3>2. /\ b \in Client /\ b.up = FALSE /\ b.good = FALSE /\ b.k = cl.k
          /\ b.ssl = 0 /\ b.ctx = cl.ctx
          /\ b.sock = IF ok THEN None ELSE cl.sock
      BY <3>1 DEF TcpDown, Client
    <3>3. cl' = [b EXCEPT !.pc = pc]
      BY <1>2, <1>5 DEF a
    <3> HIDE DEF b
    <3> QED BY <3>2, <3>3 DEF Client
  <2>2. cl.k \in Conns /\ cl.sock \in Handles
    BY <1>5 DEF OwnInv, Own, Holds
  <2>3. /\ os' \in [Handles -> Owners]
        /\ ok => os[cl.sock] # None /\ os[cl.sock] # Listener
        /\ \A x \in Handles :
             os'[x] = IF ok /\ x = cl.sock THEN None ELSE os[x]
    BY <1>1, <1>2, <1>5, CloseIs DEF Drop, Fields, Fates
  <2>4. /\ fate' \in [Conns -> SUBSET Fates]
        /\ \A j \in Conns : fate[j] \subseteq fate'[j]
        /\ ok \/ "unsent" \in fate'[cl.k]
    BY <1>1, <1>2, <1>5, <2>2, CloseIs DEF Drop, Fields, Fates
  <2>5. /\ fds' \in [Conns -> Handles \cup {None}]
        /\ \A j \in Conns : fds'[j] = IF j = cl.ssl THEN None ELSE fds[j]
        /\ ctxs' = IF cl.ssl = 0 THEN ctxs ELSE ctxs \ {cl.ctx}
    BY <1>1, <1>2, <1>5, ShutdownIs DEF Fields
  <2>6. \A j \in Conns : ok /\ os[cl.sock] = j /\ j # cl.k =>
           "robbed" \in fate'[j]
    BY <1>1, <1>2, <1>5, CloseIs DEF Drop, Fields, Fates
  <2>7. /\ sent' \in [of : Ptr, to : Owners]
        /\ sent'.of # 0 =>
             sent'.to = sent'.of \/ Again(sent'.of) \/ Robbed(sent'.of)
    <3>1. CASE cl.ssl = 0
      BY <1>2, <1>5, <3>1 DEF TypeOK, SentInv
    <3>2. CASE cl.ssl # 0
      <4>1. /\ cl.ssl \in Conns /\ fds[cl.ssl] \in Handles
            /\ \/ os[fds[cl.ssl]] = cl.ssl
               \/ Again(cl.ssl) \/ Robbed(cl.ssl)
            /\ os[fds[cl.ssl]] \in Owners
        BY <1>1, <3>2 DEF OwnInv, Own, Holds, SessionInv, Fields
      <4>2. sent' = [of |-> cl.ssl, to |-> os[fds[cl.ssl]]]
        BY <1>1, <1>2, <1>5, <3>2, <4>1 DEF Record, Fields
      <4> QED BY <1>1, <4>1, <4>2 DEF Fields
    <3> QED BY <3>1, <3>2
  <2>8. sent'.of \in Ptr
    BY <2>7
  <2>10. TypeOK'
    BY <1>1, <1>3, <1>5, <2>1, <2>2, <2>3, <2>4, <2>5, <2>6, <2>7, <2>8
       DEF TypeOK, Fields
  <2>11. Own(cl, cl.up)'
    BY <1>1, <1>3, <1>5, <2>1, <2>2, <2>3, <2>4, <2>5, <2>6, <2>7, <2>8
       DEF OwnInv, Own, Holds, ApartInv, HandleInv, Again, Robbed, Fields
  <2>12. Own(sv, sv.held)'
    <3>1. sv.k \in Conns => sv.k \notin {cl.ssl, cl.ctx}
      BY DEF ApartInv
    <3>2. sv.ssl \in Conns => sv.ssl # cl.ssl
      BY DEF ApartInv
    <3>3. /\ sv.ssl # 0 => fds'[sv.ssl] = fds[sv.ssl]
          /\ sv.k \in Conns => fds'[sv.k] = fds[sv.k]
      BY <1>1, <2>5, <3>1, <3>2 DEF Fields
    <3>4. /\ sv.ssl # 0 => (Again(sv.ssl) => Again(sv.ssl)')
          /\ sv.k \in Conns => (sv.k \in ctxs' <=> sv.k \in ctxs)
      BY <1>1, <1>3, <2>4, <2>5, <3>1 DEF Fields, Again
    <3>5. sv.held => Holds(sv)'
      <4> SUFFICES ASSUME sv.held PROVE Holds(sv)'
        OBVIOUS
      <4>1. /\ sv.sock \in Handles /\ sv.k \in Conns /\ sv' = sv
            /\ os[sv.sock] = sv.k \/ Robbed(sv.k)
            /\ \A h \in Handles : os[h] = sv.k => h = sv.sock
        BY <1>3 DEF OwnInv, Own, Holds
      <4>2. sv.k # cl.k
        BY <4>1 DEF ApartInv
      <4>3. \A h \in Handles : os'[h] = sv.k => h = sv.sock
        BY <1>1, <2>3, <4>1 DEF Fields
      <4>4. Robbed(sv.k) => Robbed(sv.k)'
        BY <2>4, <4>1 DEF Robbed
      <4>5. os[sv.sock] = sv.k => os'[sv.sock] = sv.k \/ Robbed(sv.k)'
        BY <1>1, <2>3, <2>6, <4>1, <4>2 DEF Robbed, Fields
      <4> QED BY <4>1, <4>3, <4>4, <4>5 DEF Holds
    <3>6. sv.held => sv.k \in Conns
      BY DEF OwnInv, Own, Holds
    <3> QED BY <1>1, <1>3, <3>3, <3>4, <3>5, <3>6 DEF OwnInv, Own, Fields
  <2>13. ApartInv'
    BY <1>1, <1>3, <1>5, <2>1, <2>2, <2>3, <2>4, <2>5, <2>6, <2>7, <2>8
       DEF ApartInv, OwnInv, Own, Holds, Fields
  <2>14. ListenInv'
    BY <1>1, <1>3, <1>5, <2>1, <2>2, <2>3, <2>4, <2>5, <2>6, <2>7, <2>8
       DEF ListenInv, Fields
  <2>15. HandleInv'
    BY <1>1, <1>3, <1>5, <2>1, <2>2, <2>3, <2>4, <2>5, <2>6, <2>7, <2>8
       DEF HandleInv, OwnInv, Own, Holds, Fields
  <2>16. SessionInv'
    <3> SUFFICES ASSUME NEW k \in Conns, fds'[k] # None
                 PROVE  /\ os'[fds'[k]] = k \/ Again(k)' \/ Robbed(k)'
                        /\ k \in {cl'.ssl, sv'.ssl} \/ Again(k)'
      BY DEF SessionInv
    <3>1. k # cl.ssl /\ fds'[k] = fds[k] /\ fds[k] \in Handles
      BY <1>1, <2>5 DEF Fields
    <3>2. (Again(k) => Again(k)') /\ (Robbed(k) => Robbed(k)')
      BY <2>4 DEF Again, Robbed
    <3>3. /\ os[fds[k]] = k \/ Again(k) \/ Robbed(k)
          /\ k = sv.ssl \/ Again(k)
      BY <3>1 DEF SessionInv
    <3>4. k = sv.ssl => k # cl.k
      BY DEF ApartInv
    <3>5. ok /\ os[cl.sock] = k /\ k # cl.k => Robbed(k)'
      BY <1>1, <2>6 DEF Robbed, Fields
    <3> QED BY <1>3, <2>1, <2>3, <2>5, <3>1, <3>2, <3>3, <3>4, <3>5
  <2>17. ContextInv'
    BY <1>1, <1>3, <1>5, <2>1, <2>2, <2>3, <2>4, <2>5, <2>6, <2>7, <2>8
       DEF ContextInv, WithContext, OwnInv, Own, Holds, ApartInv, Again, Robbed, Fields
  <2>18. LeftInv'
    <3> SUFFICES ASSUME NEW h \in Handles, os'[h] \in Conns
                 PROVE  Held(os[h])' \/ Left(os[h])'
      BY DEF LeftInv
    <3>1. os'[h] = os[h] /\ os[h] \in Conns
      BY <1>1, <2>2, <2>3 DEF Fields
    <3>2. Left(os[h]) => Left(os[h])'
      BY <2>4, <3>1 DEF Left, Again
    <3>3. Held(os[h]) \/ Left(os[h])
      BY <3>1 DEF LeftInv
    <3>4. ASSUME cl.up, os[h] = cl.k PROVE Left(os[h])'
      <4>1. h = cl.sock
        BY <3>4 DEF OwnInv, Own, Holds
      <4>2. ~ok
        BY <1>1, <2>2, <2>3, <3>1, <4>1 DEF Fields
      <4> QED BY <2>4, <3>1, <3>4, <4>2 DEF Left
    <3> QED BY <1>3, <2>1, <2>2, <2>3, <2>4, <3>1, <3>2, <3>3, <3>4 DEF Held
  <2>19. SentInv'
    BY <1>1, <1>3, <1>5, <2>1, <2>2, <2>3, <2>4, <2>5, <2>6, <2>7, <2>8
       DEF SentInv, SessionInv, OwnInv, Own, Holds, Again, Robbed, Fields
  <2> QED BY <2>10, <2>11, <2>12, <2>13, <2>14, <2>15, <2>16, <2>17, <2>18,
             <2>19
             DEF IInv, OwnInv
<1> QED BY <1>4, <1>5

LEMMA ServerListenKeeps == IInv /\ ServerListen => IInv'
<1> SUFFICES ASSUME IInv, ServerListen PROVE IInv'
  OBVIOUS
<1>1. Fields
  BY HasFields DEF IInv
<1> USE DEF IInv
<1>2. sv.pc = "idle" /\ UNCHANGED <<ctxs, fds, n, sent>>
  BY DEF ServerListen
<1>3. /\ fate' \in [Conns -> SUBSET Fates]
      /\ \A j \in Conns : fate[j] \subseteq fate'[j]
      /\ sv.held => sv.k \in Conns /\ "again" \in fate'[sv.k]
  <2>1. CASE sv.held
    <3>1. /\ sv.k \in Conns /\ Fated(sv.k, {"again"})
          /\ {"again"} \in SUBSET Fates
      BY <2>1 DEF ServerListen, OwnInv, Own, Holds, Fates
    <3> QED BY <1>1, <3>1, FatedIs DEF Fields
  <2>2. CASE ~sv.held
    BY <1>1, <2>2 DEF ServerListen, Fields
  <2> QED BY <2>1, <2>2
<1>4. \/ Crash /\ UNCHANGED os
      \/ \E pc \in {"idle", "accept"}, addr \in BOOLEAN :
           /\ sv' = [sv EXCEPT !.sock = None, !.held = FALSE, !.good = FALSE,
                               !.pc = pc, !.addr = addr]
           /\ UNCHANGED <<os, cl>>
      \/ \E h \in Handles :
           /\ os[h] = None /\ UNCHANGED cl
           /\ os' = [os EXCEPT ![h] = Listener]
           /\ sv' = [sv EXCEPT !.sock = None, !.held = FALSE, !.good = FALSE,
                               !.pc = "accept", !.addr = FALSE, !.listen = h]
  <2> DEFINE s == [sv EXCEPT !.sock = None, !.held = FALSE, !.good = FALSE]
  <2>1. \/ Crash /\ UNCHANGED os
        \/ sv' = [s EXCEPT !.pc = "accept"] /\ UNCHANGED <<os, cl>>
        \/ sv' = [s EXCEPT !.addr = FALSE] /\ UNCHANGED <<os, cl>>
        \/ \E h \in Handles :
             /\ Free(h) /\ UNCHANGED cl
             /\ os' = [os EXCEPT ![h] = Listener]
             /\ sv' = [s EXCEPT !.pc = "accept", !.addr = FALSE, !.listen = h]
    BY DEF ServerListen
  <2>2. [s EXCEPT !.pc = "accept"] =
          [sv EXCEPT !.sock = None, !.held = FALSE, !.good = FALSE,
                     !.pc = "accept", !.addr = sv.addr]
    BY DEF TypeOK, Server
  <2>3. [s EXCEPT !.addr = FALSE] =
          [sv EXCEPT !.sock = None, !.held = FALSE, !.good = FALSE,
                     !.pc = "idle", !.addr = FALSE]
    BY <1>2 DEF TypeOK, Server
  <2>4. ASSUME NEW h \in Handles
        PROVE  [s EXCEPT !.pc = "accept", !.addr = FALSE, !.listen = h] =
                 [sv EXCEPT !.sock = None, !.held = FALSE, !.good = FALSE,
                            !.pc = "accept", !.addr = FALSE, !.listen = h]
    BY DEF TypeOK, Server
  <2>5. sv.addr \in BOOLEAN
    BY DEF TypeOK, Server
  <2> HIDE DEF s
  <2> QED BY <2>1, <2>2, <2>3, <2>4, <2>5 DEF Free
<1>5. CASE Crash /\ UNCHANGED os
  <2>1. /\ cl' \in Client /\ cl'.pc = "crashed"
        /\ cl'.up = cl.up /\ cl'.sock = cl.sock /\ cl'.k = cl.k
        /\ cl'.ssl = cl.ssl /\ cl'.ctx = cl.ctx /\ cl'.good = cl.good
        /\ sv' \in Server /\ sv'.pc = "crashed"
        /\ sv'.listen = sv.listen /\ sv'.held = sv.held /\ sv'.sock = sv.sock
        /\ sv'.k = sv.k /\ sv'.ssl = sv.ssl /\ sv'.ctx = sv.ctx
        /\ sv'.good = sv.good
    BY <1>5, CrashIs
  <2>10. TypeOK'
    BY <1>1, <1>2, <1>3, <1>5, <2>1 DEF TypeOK, Fields
  <2>11. Own(cl, cl.up)'
    BY <1>1, <1>2, <1>3, <1>5, <2>1
       DEF OwnInv, Own, Holds, ApartInv, HandleInv, Again, Robbed, Fields
  <2>12. Own(sv, sv.held)'
    BY <1>1, <1>2, <1>3, <1>5, <2>1
       DEF OwnInv, Own, Holds, ApartInv, HandleInv, Again, Robbed, Fields
  <2>13. ApartInv'
    BY <1>1, <1>2, <1>3, <1>5, <2>1 DEF ApartInv, OwnInv, Own, Holds, Fields
  <2>14. ListenInv'
    BY <1>1, <1>2, <1>3, <1>5, <2>1 DEF ListenInv, Fields
  <2>15. HandleInv'
    BY <1>1, <1>2, <1>3, <1>5, <2>1 DEF HandleInv, OwnInv, Own, Holds, Fields
  <2>16. SessionInv'
    BY <1>1, <1>2, <1>3, <1>5, <2>1
       DEF SessionInv, OwnInv, Own, Holds, Again, Robbed, Fields
  <2>17. ContextInv'
    BY <1>1, <1>2, <1>3, <1>5, <2>1
       DEF ContextInv, WithContext, OwnInv, Own, Holds, ApartInv, Again, Robbed, Fields
  <2>18. LeftInv'
    BY <1>1, <1>2, <1>3, <1>5, <2>1
       DEF LeftInv, Left, Again, Held, OwnInv, Own, Holds, HandleInv, Fields
  <2>19. SentInv'
    BY <1>1, <1>2, <1>3, <1>5, <2>1
       DEF SentInv, SessionInv, OwnInv, Own, Holds, Again, Robbed, Fields
  <2> QED BY <2>10, <2>11, <2>12, <2>13, <2>14, <2>15, <2>16, <2>17, <2>18,
             <2>19
             DEF IInv, OwnInv
<1>6. ASSUME NEW pc \in {"idle", "accept"}, NEW addr \in BOOLEAN,
             sv' = [sv EXCEPT !.sock = None, !.held = FALSE, !.good = FALSE,
                              !.pc = pc, !.addr = addr],
             UNCHANGED <<os, cl>>
      PROVE  IInv'
  <2>1. /\ sv' \in Server
        /\ sv'.pc = pc /\ sv'.addr = addr /\ sv'.listen = sv.listen
        /\ sv'.held = FALSE /\ sv'.sock = None /\ sv'.k = sv.k
        /\ sv'.ssl = sv.ssl /\ sv'.ctx = sv.ctx /\ sv'.good = FALSE
    BY <1>6 DEF TypeOK, Server
  <2>10. TypeOK'
    BY <1>1, <1>2, <1>3, <1>6, <2>1 DEF TypeOK, Fields
  <2>11. Own(cl, cl.up)'
    BY <1>1, <1>2, <1>3, <1>6, <2>1
       DEF OwnInv, Own, Holds, ApartInv, HandleInv, Again, Robbed, Fields
  <2>12. Own(sv, sv.held)'
    BY <1>1, <1>2, <1>3, <1>6, <2>1
       DEF OwnInv, Own, Holds, ApartInv, HandleInv, Again, Robbed, Fields
  <2>13. ApartInv'
    BY <1>1, <1>2, <1>3, <1>6, <2>1 DEF ApartInv, OwnInv, Own, Holds, Fields
  <2>14. ListenInv'
    BY <1>1, <1>2, <1>3, <1>6, <2>1 DEF ListenInv, Fields
  <2>15. HandleInv'
    BY <1>1, <1>2, <1>3, <1>6, <2>1 DEF HandleInv, OwnInv, Own, Holds, Fields
  <2>16. SessionInv'
    BY <1>1, <1>2, <1>3, <1>6, <2>1
       DEF SessionInv, OwnInv, Own, Holds, Again, Robbed, Fields
  <2>17. ContextInv'
    BY <1>1, <1>2, <1>3, <1>6, <2>1
       DEF ContextInv, WithContext, OwnInv, Own, Holds, ApartInv, Again, Robbed, Fields
  <2>18. LeftInv'
    BY <1>1, <1>2, <1>3, <1>6, <2>1
       DEF LeftInv, Left, Again, Held, OwnInv, Own, Holds, HandleInv, Fields
  <2>19. SentInv'
    BY <1>1, <1>2, <1>3, <1>6, <2>1
       DEF SentInv, SessionInv, OwnInv, Own, Holds, Again, Robbed, Fields
  <2> QED BY <2>10, <2>11, <2>12, <2>13, <2>14, <2>15, <2>16, <2>17, <2>18,
             <2>19
             DEF IInv, OwnInv
<1>7. ASSUME NEW h \in Handles, os[h] = None, UNCHANGED cl,
             os' = [os EXCEPT ![h] = Listener],
             sv' = [sv EXCEPT !.sock = None, !.held = FALSE, !.good = FALSE,
                              !.pc = "accept", !.addr = FALSE, !.listen = h]
      PROVE  IInv'
  <2>1. /\ sv' \in Server
        /\ sv'.pc = "accept" /\ sv'.addr = FALSE /\ sv'.listen = h
        /\ sv'.held = FALSE /\ sv'.sock = None /\ sv'.k = sv.k
        /\ sv'.ssl = sv.ssl /\ sv'.ctx = sv.ctx /\ sv'.good = FALSE
    BY <1>7 DEF TypeOK, Server
  <2>2. /\ os' \in [Handles -> Owners]
        /\ \A x \in Handles : os'[x] = IF x = h THEN Listener ELSE os[x]
    BY <1>1, <1>7 DEF Fields, Owners
  <2>10. TypeOK'
    BY <1>1, <1>2, <1>3, <1>7, <2>1, <2>2 DEF TypeOK, Fields
  <2>11. Own(cl, cl.up)'
    BY <1>1, <1>2, <1>3, <1>7, <2>1, <2>2
       DEF OwnInv, Own, Holds, ApartInv, HandleInv, Again, Robbed, Fields
  <2>12. Own(sv, sv.held)'
    BY <1>1, <1>2, <1>3, <1>7, <2>1, <2>2
       DEF OwnInv, Own, Holds, ApartInv, HandleInv, Again, Robbed, Fields
  <2>13. ApartInv'
    BY <1>1, <1>2, <1>3, <1>7, <2>1, <2>2
       DEF ApartInv, OwnInv, Own, Holds, Fields
  <2>14. ListenInv'
    BY <1>1, <1>2, <1>3, <1>7, <2>1, <2>2 DEF ListenInv, Fields
  <2>15. HandleInv'
    BY <1>1, <1>2, <1>3, <1>7, <2>1, <2>2
       DEF HandleInv, OwnInv, Own, Holds, Fields
  <2>16. SessionInv'
    BY <1>1, <1>2, <1>3, <1>7, <2>1, <2>2
       DEF SessionInv, OwnInv, Own, Holds, Again, Robbed, Fields
  <2>17. ContextInv'
    BY <1>1, <1>2, <1>3, <1>7, <2>1, <2>2
       DEF ContextInv, WithContext, OwnInv, Own, Holds, ApartInv, Again, Robbed, Fields
  <2>18. LeftInv'
    BY <1>1, <1>2, <1>3, <1>7, <2>1, <2>2
       DEF LeftInv, Left, Again, Held, OwnInv, Own, Holds, HandleInv, Fields
  <2>19. SentInv'
    BY <1>1, <1>2, <1>3, <1>7, <2>1, <2>2
       DEF SentInv, SessionInv, OwnInv, Own, Holds, Again, Robbed, Fields
  <2> QED BY <2>10, <2>11, <2>12, <2>13, <2>14, <2>15, <2>16, <2>17, <2>18,
             <2>19
             DEF IInv, OwnInv
<1> QED BY <1>4, <1>5, <1>6, <1>7

LEMMA ServerListenFailsKeeps == IInv /\ ServerListenFails => IInv'
<1> SUFFICES ASSUME IInv, ServerListenFails PROVE IInv'
  OBVIOUS
<1>1. Fields
  BY HasFields DEF IInv
<1> USE DEF IInv
<1>2. /\ sv' \in Server
      /\ sv'.pc = "idle" /\ sv'.addr = sv.addr /\ sv'.listen = None
      /\ sv'.held = sv.held /\ sv'.sock = sv.sock /\ sv'.k = sv.k
      /\ sv'.ssl = sv.ssl /\ sv'.ctx = sv.ctx /\ sv'.good = sv.good
      /\ UNCHANGED <<cl, ctxs, fds, n, fate, sent>>
  BY <1>1 DEF ServerListenFails, TypeOK, Server, Fields
<1>3. /\ os' \in [Handles -> Owners]
      /\ \A x \in Handles : os'[x] = IF x = sv.listen THEN None ELSE os[x]
  BY <1>1, CloseIs DEF ServerListenFails, Fields
<1>4. sv.pc \in {"idle", "accept"}
  BY DEF ServerListenFails
<1>5. sv.listen \in Handles => os[sv.listen] = Listener
  BY <1>1, <1>4 DEF ListenInv, Fields
<1>10. TypeOK'
  BY <1>1, <1>2, <1>3, <1>4, <1>5 DEF TypeOK, Fields
<1>11. Own(cl, cl.up)'
  BY <1>1, <1>2, <1>3, <1>4, <1>5
     DEF OwnInv, Own, Holds, ApartInv, HandleInv, Again, Robbed, Fields
<1>12. Own(sv, sv.held)'
  BY <1>1, <1>2, <1>3, <1>4, <1>5
     DEF OwnInv, Own, Holds, ApartInv, HandleInv, Again, Robbed, Fields
<1>13. ApartInv'
  BY <1>1, <1>2, <1>3, <1>4, <1>5 DEF ApartInv, OwnInv, Own, Holds, Fields
<1>14. ListenInv'
  BY <1>1, <1>2, <1>3, <1>4, <1>5 DEF ListenInv, Fields
<1>15. HandleInv'
  BY <1>1, <1>2, <1>3, <1>4, <1>5 DEF HandleInv, OwnInv, Own, Holds, Fields
<1>16. SessionInv'
  <2> SUFFICES ASSUME NEW k \in Conns, fds'[k] # None
               PROVE  /\ os'[fds'[k]] = k \/ Again(k)' \/ Robbed(k)'
                      /\ k \in {cl'.ssl, sv'.ssl} \/ Again(k)'
    BY DEF SessionInv
  <2>1. fds'[k] = fds[k] /\ fds[k] \in Handles
    BY <1>1, <1>2 DEF Fields
  <2>2. Again(k)' = Again(k) /\ Robbed(k)' = Robbed(k)
    BY <1>2 DEF Again, Robbed
  <2>3. os[fds[k]] = k => fds[k] # sv.listen
    BY <1>1, <1>5, <2>1 DEF Fields
  <2> QED BY <1>2, <1>3, <2>1, <2>2, <2>3 DEF SessionInv
<1>17. ContextInv'
  BY <1>1, <1>2, <1>3, <1>4, <1>5
     DEF ContextInv, WithContext, OwnInv, Own, Holds, ApartInv, Again, Robbed, Fields
<1>18. LeftInv'
  BY <1>1, <1>2, <1>3, <1>4, <1>5
     DEF LeftInv, Left, Again, Held, OwnInv, Own, Holds, HandleInv, Fields
<1>19. SentInv'
  BY <1>1, <1>2, <1>3, <1>4, <1>5
     DEF SentInv, SessionInv, OwnInv, Own, Holds, Again, Robbed, Fields
<1> QED BY <1>10, <1>11, <1>12, <1>13, <1>14, <1>15, <1>16, <1>17, <1>18, <1>19
           DEF IInv, OwnInv

LEMMA ServerNobodyKeeps == IInv /\ ServerNobody => IInv'
<1> SUFFICES ASSUME IInv, ServerNobody PROVE IInv'
  OBVIOUS
<1>1. Fields
  BY HasFields DEF IInv
<1> USE DEF IInv
<1>2. /\ sv' \in Server
      /\ sv'.pc = "idle" /\ sv'.addr = sv.addr
      /\ sv'.listen = sv.listen /\ sv'.held = sv.held
      /\ sv'.sock = sv.sock /\ sv'.k = sv.k /\ sv'.ssl = sv.ssl
      /\ sv'.ctx = sv.ctx /\ sv'.good = sv.good
      /\ UNCHANGED <<os, cl, ctxs, fds, n, fate, sent>>
  BY <1>1 DEF ServerNobody, TypeOK, Server
<1>3. sv.pc = "accept"
  BY DEF ServerNobody
<1>10. TypeOK'
  BY <1>1, <1>2, <1>3 DEF TypeOK, Fields
<1>11. Own(cl, cl.up)'
  BY <1>1, <1>2, <1>3
     DEF OwnInv, Own, Holds, ApartInv, HandleInv, Again, Robbed, Fields
<1>12. Own(sv, sv.held)'
  BY <1>1, <1>2, <1>3
     DEF OwnInv, Own, Holds, ApartInv, HandleInv, Again, Robbed, Fields
<1>13. ApartInv'
  BY <1>1, <1>2, <1>3 DEF ApartInv, OwnInv, Own, Holds, Fields
<1>14. ListenInv'
  BY <1>1, <1>2, <1>3 DEF ListenInv, Fields
<1>15. HandleInv'
  BY <1>1, <1>2, <1>3 DEF HandleInv, OwnInv, Own, Holds, Fields
<1>16. SessionInv'
  BY <1>1, <1>2, <1>3 DEF SessionInv, OwnInv, Own, Holds, Again, Robbed, Fields
<1>17. ContextInv'
  BY <1>1, <1>2, <1>3
     DEF ContextInv, WithContext, OwnInv, Own, Holds, ApartInv, Again, Robbed, Fields
<1>18. LeftInv'
  BY <1>1, <1>2, <1>3
     DEF LeftInv, Left, Again, Held, OwnInv, Own, Holds, HandleInv, Fields
<1>19. SentInv'
  BY <1>1, <1>2, <1>3
     DEF SentInv, SessionInv, OwnInv, Own, Holds, Again, Robbed, Fields
<1> QED BY <1>10, <1>11, <1>12, <1>13, <1>14, <1>15, <1>16, <1>17, <1>18, <1>19
           DEF IInv, OwnInv

LEMMA ServerAcceptKeeps == IInv /\ ServerAccept => IInv'
<1> SUFFICES ASSUME IInv, ServerAccept PROVE IInv'
  OBVIOUS
<1>1. Fields
  BY HasFields DEF IInv
<1> USE DEF IInv
<1>2. PICK h \in Handles :
         /\ os[h] = None
         /\ os' = [os EXCEPT ![h] = n + 1]
         /\ sv' = [sv EXCEPT !.pc = "tls", !.sock = h, !.k = n + 1,
                             !.held = TRUE]
  BY DEF ServerAccept, Free
<1>3. /\ sv.pc = "accept" /\ n' = n + 1 /\ n + 1 \in Conns /\ n + 1 \in Ptr
      /\ UNCHANGED <<cl, ctxs, fds, fate, sent>>
  BY <1>1 DEF ServerAccept, Conns, Ptr, Fields, TypeOK
<1>4. /\ sv' \in Server
      /\ sv'.pc = "tls" /\ sv'.addr = sv.addr
      /\ sv'.listen = sv.listen /\ sv'.held = TRUE /\ sv'.sock = h
      /\ sv'.k = n + 1 /\ sv'.ssl = sv.ssl /\ sv'.ctx = sv.ctx
      /\ sv'.good = sv.good
  BY <1>2, <1>3 DEF TypeOK, Server
<1>5. /\ os' \in [Handles -> Owners]
      /\ \A x \in Handles : os'[x] = IF x = h THEN n + 1 ELSE os[x]
  BY <1>1, <1>2, <1>3 DEF Fields, Owners
<1>10. TypeOK'
  BY <1>1, <1>2, <1>3, <1>4, <1>5 DEF TypeOK, Fields
<1>11. Own(cl, cl.up)'
  BY <1>1, <1>2, <1>3, <1>4, <1>5
     DEF OwnInv, Own, Holds, ApartInv, HandleInv, Again, Robbed, Fields
<1>12. Own(sv, sv.held)'
  BY <1>1, <1>2, <1>3, <1>4, <1>5
     DEF OwnInv, Own, Holds, ApartInv, HandleInv, Again, Robbed, Fields
<1>13. ApartInv'
  BY <1>1, <1>2, <1>3, <1>4, <1>5 DEF ApartInv, OwnInv, Own, Holds, Fields
<1>14. ListenInv'
  BY <1>1, <1>2, <1>3, <1>4, <1>5 DEF ListenInv, Fields
<1>15. HandleInv'
  BY <1>1, <1>2, <1>3, <1>4, <1>5 DEF HandleInv, OwnInv, Own, Holds, Fields
<1>16. SessionInv'
  BY <1>1, <1>2, <1>3, <1>4, <1>5
     DEF SessionInv, OwnInv, Own, Holds, Again, Robbed, Fields
<1>17. ContextInv'
  BY <1>1, <1>2, <1>3, <1>4, <1>5
     DEF ContextInv, WithContext, OwnInv, Own, Holds, ApartInv, Again, Robbed, Fields
<1>18. LeftInv'
  BY <1>1, <1>2, <1>3, <1>4, <1>5
     DEF LeftInv, Left, Again, Held, OwnInv, Own, Holds, HandleInv, Fields
<1>19. SentInv'
  BY <1>1, <1>2, <1>3, <1>4, <1>5
     DEF SentInv, SessionInv, OwnInv, Own, Holds, Again, Robbed, Fields
<1> QED BY <1>10, <1>11, <1>12, <1>13, <1>14, <1>15, <1>16, <1>17, <1>18, <1>19
           DEF IInv, OwnInv

LEMMA ServerSetUpKeeps ==
    ASSUME IInv, sv.pc = "tls", UNCHANGED <<os, cl, n, sent>>,
           NEW outcome \in Outcomes, SetUp(sv, outcome),
           sv' = AfterSetUp(sv, outcome),
           Fated(sv.k, IF outcome = "files" THEN {"bare"} ELSE {})
    PROVE  IInv'
<1>1. Fields
  BY HasFields DEF IInv
<1> USE DEF IInv
<1>2. /\ SetUp(sv, outcome)
      /\ sv' = AfterSetUp(sv, outcome)
      /\ Fated(sv.k, IF outcome = "files" THEN {"bare"} ELSE {})
  OBVIOUS
<1>3. /\ sv.pc = "tls" /\ sv.held /\ sv.k \in Conns /\ sv.sock \in Handles
      /\ UNCHANGED <<os, cl, n, sent>>
  BY DEF OwnInv, Own, Holds
<1>4. /\ sv' \in Server
      /\ sv'.pc = "idle" /\ sv'.addr = sv.addr
      /\ sv'.listen = sv.listen /\ sv'.held = sv.held
      /\ sv'.sock = sv.sock /\ sv'.k = sv.k
      /\ sv'.ssl = IF outcome \in {"noctx", "files"} THEN sv.ssl ELSE sv.k
      /\ sv'.ctx = IF outcome = "noctx" THEN 0 ELSE sv.k
      /\ sv'.good = (outcome = "ok")
  <2> DEFINE c == IF outcome = "noctx" THEN 0 ELSE sv.k
             s == IF outcome \in {"noctx", "files"} THEN sv.ssl ELSE sv.k
             g == outcome = "ok"
  <2>1. sv' = [sv EXCEPT !.pc = "idle", !.ctx = c, !.ssl = s, !.good = g]
    BY <1>2 DEF AfterSetUp
  <2>2. c \in Ptr /\ s \in Ptr
    BY <1>1, <1>3 DEF Fields
  <2>3. g \in BOOLEAN
    OBVIOUS
  <2> HIDE DEF c, s, g
  <2>4. /\ sv' \in Server /\ sv'.pc = "idle"
        /\ sv'.ctx = c /\ sv'.ssl = s /\ sv'.good = g
        /\ sv'.held = sv.held /\ sv'.listen = sv.listen /\ sv'.addr = sv.addr
        /\ sv'.sock = sv.sock /\ sv'.k = sv.k
    BY <2>1, <2>2, <2>3 DEF TypeOK, Server
  <2> QED BY <2>4 DEF c, s, g
<1>5. /\ fds' \in [Conns -> Handles \cup {None}]
      /\ \A j \in Conns :
           fds'[j] = IF j = sv.k /\ outcome \notin {"noctx", "files"}
                     THEN sv.sock ELSE fds[j]
      /\ ctxs' = IF outcome = "noctx" THEN ctxs ELSE ctxs \cup {sv.k}
  BY <1>1, <1>2, <1>3, SetUpIs DEF Fields
<1>6. /\ fate' \in [Conns -> SUBSET Fates]
      /\ \A j \in Conns : fate[j] \subseteq fate'[j]
      /\ outcome # "files" \/ "bare" \in fate'[sv.k]
  <2> DEFINE what == IF outcome = "files" THEN {"bare"} ELSE {}
  <2>1. /\ what \in SUBSET Fates /\ Fated(sv.k, what)
        /\ outcome # "files" \/ "bare" \in what
    BY <1>2 DEF Fates
  <2> HIDE DEF what
  <2> QED BY <1>1, <1>3, <2>1, FatedIs DEF Fields
<1>7. outcome \in {"noctx", "files", "handshake", "ok"}
  BY DEF Outcomes
<1>8. sv.ssl # 0 => "again" \in fate'[sv.ssl]
  <2> SUFFICES ASSUME sv.ssl # 0 PROVE "again" \in fate'[sv.ssl]
    OBVIOUS
  <2>1. sv.ssl \in Conns
    BY <1>1 DEF Fields
  <2>2. fds[sv.ssl] # None /\ sv.ssl # sv.k
    BY <1>3 DEF OwnInv, Own, Holds
  <2>3. "again" \in fate[sv.ssl]
    BY <2>2 DEF OwnInv, Own, Holds, Again
  <2> QED BY <1>6, <2>1, <2>3
<1>9. sv'.held /\ Holds(sv)'
  <2>1. Holds(sv) /\ sv.held
    BY <1>3 DEF OwnInv, Own
  <2>2. sv.k \in Conns /\ sv'.k = sv.k
    BY <1>4, <2>1 DEF Holds
  <2>3. Robbed(sv.k) => Robbed(sv.k)'
    BY <1>6, <2>2 DEF Robbed
  <2> QED BY <1>3, <1>4, <2>1, <2>2, <2>3 DEF Holds
<1>10. TypeOK'
  BY <1>1, <1>2, <1>3, <1>4, <1>5, <1>6, <1>7 DEF TypeOK, Fields
<1>11. Own(cl, cl.up)'
  <2>1. sv.k \notin {cl.k, cl.ssl}
    BY <1>1, <1>3 DEF ApartInv
  <2>2. /\ cl.ssl # 0 => fds'[cl.ssl] = fds[cl.ssl]
        /\ cl.k \in Conns => fds'[cl.k] = fds[cl.k]
    BY <1>1, <1>5, <2>1 DEF Fields
  <2>3. /\ cl.ssl # 0 => (Again(cl.ssl) => Again(cl.ssl)')
        /\ cl.k \in ctxs' <=> cl.k \in ctxs
    BY <1>1, <1>3, <1>5, <1>6, <2>1 DEF Fields, Again
  <2>4. cl.up => Holds(cl) /\ Holds(cl)' /\ cl.k \in Conns
    <3> SUFFICES ASSUME cl.up
                 PROVE  Holds(cl) /\ Holds(cl)' /\ cl.k \in Conns
      OBVIOUS
    <3>1. Holds(cl) /\ cl.k \in Conns
      BY DEF OwnInv, Own, Holds
    <3>2. Robbed(cl.k) => Robbed(cl.k)'
      BY <1>3, <1>6, <3>1 DEF Robbed
    <3> QED BY <1>3, <3>1, <3>2 DEF Holds
  <2> QED BY <1>1, <1>3, <2>2, <2>3, <2>4 DEF OwnInv, Own, Fields
<1>12. Own(sv, sv.held)'
  <2>1. CASE outcome = "noctx"
    <3>1. /\ sv'.ssl = sv.ssl /\ sv'.ctx = 0 /\ sv'.good = FALSE
          /\ \A j \in Conns : fds'[j] = fds[j]
      BY <1>1, <1>3, <1>4, <1>5, <2>1 DEF Fields
    <3>2. sv'.ssl # 0 => fds'[sv'.ssl] # None
      BY <1>1, <1>3, <1>4, <3>1 DEF OwnInv, Own, Holds, Fields
    <3> QED BY <1>1, <1>3, <1>4, <1>8, <1>9, <3>1, <3>2
               DEF OwnInv, Own, Again, Fields
  <2>2. CASE outcome = "files"
    <3>1. /\ sv'.ssl = sv.ssl /\ sv'.ctx = sv.k /\ sv'.good = FALSE
          /\ \A j \in Conns : fds'[j] = fds[j]
      BY <1>1, <1>3, <1>4, <1>5, <2>2 DEF Fields
    <3>2. sv'.ssl # 0 => fds'[sv'.ssl] # None
      BY <1>1, <1>3, <1>4, <3>1 DEF OwnInv, Own, Holds, Fields
    <3> QED BY <1>1, <1>3, <1>4, <1>8, <1>9, <3>1, <3>2
               DEF OwnInv, Own, Again, Fields
  <2>3. CASE outcome = "handshake"
    <3>1. /\ sv'.ssl = sv.k /\ sv'.ctx = sv.k /\ sv'.good = FALSE
          /\ fds'[sv.k] = sv.sock
      BY <1>1, <1>3, <1>4, <1>5, <2>3 DEF Fields
    <3>2. sv'.ssl # 0 => fds'[sv'.ssl] # None
      BY <1>1, <1>3, <1>4, <3>1 DEF OwnInv, Own, Holds, Fields
    <3> QED BY <1>1, <1>3, <1>4, <1>8, <1>9, <3>1, <3>2
               DEF OwnInv, Own, Again, Fields
  <2>4. CASE outcome = "ok"
    <3>1. /\ sv'.ssl = sv.k /\ sv'.ctx = sv.k /\ sv'.good = TRUE
          /\ fds'[sv.k] = sv.sock /\ sv.k \in ctxs'
      BY <1>1, <1>3, <1>4, <1>5, <2>4 DEF Fields
    <3>2. sv'.ssl # 0 => fds'[sv'.ssl] # None
      BY <1>1, <1>3, <1>4, <3>1 DEF OwnInv, Own, Holds, Fields
    <3> QED BY <1>1, <1>3, <1>4, <1>8, <1>9, <3>1, <3>2
               DEF OwnInv, Own, Again, Fields
  <2> QED BY <1>7, <2>1, <2>2, <2>3, <2>4
<1>13. ApartInv'
  BY <1>1, <1>2, <1>3, <1>4, <1>5, <1>6, <1>7
     DEF ApartInv, OwnInv, Own, Holds, Fields
<1>14. ListenInv'
  BY <1>1, <1>2, <1>3, <1>4, <1>5, <1>6, <1>7 DEF ListenInv, Fields
<1>15. HandleInv'
  BY <1>1, <1>2, <1>3, <1>4, <1>5, <1>6, <1>7
     DEF HandleInv, OwnInv, Own, Holds, Fields
<1>16. SessionInv'
  <2>1. CASE outcome = "noctx"
    BY <1>1, <1>3, <1>4, <1>5, <1>6, <2>1
       DEF SessionInv, OwnInv, Own, Holds, Again, Robbed, Fields
  <2>2. CASE outcome = "files"
    BY <1>1, <1>3, <1>4, <1>5, <1>6, <2>2
       DEF SessionInv, OwnInv, Own, Holds, Again, Robbed, Fields
  <2>3. CASE outcome = "handshake"
    BY <1>1, <1>3, <1>4, <1>5, <1>6, <2>3
       DEF SessionInv, OwnInv, Own, Holds, Again, Robbed, Fields
  <2>4. CASE outcome = "ok"
    BY <1>1, <1>3, <1>4, <1>5, <1>6, <2>4
       DEF SessionInv, OwnInv, Own, Holds, Again, Robbed, Fields
  <2> QED BY <1>7, <2>1, <2>2, <2>3, <2>4
<1>17. ContextInv'
  BY <1>1, <1>2, <1>3, <1>4, <1>5, <1>6, <1>7
     DEF ContextInv, WithContext, OwnInv, Own, Holds, ApartInv, Again, Robbed, Fields
<1>18. LeftInv'
  <2> SUFFICES ASSUME NEW h \in Handles, os[h] \in Conns
               PROVE  Held(os[h])' \/ Left(os[h])'
    BY <1>3 DEF LeftInv
  <2>1. Held(os[h])' <=> Held(os[h])
    BY <1>3, <1>4 DEF Held
  <2>2. Left(os[h]) => Left(os[h])'
    BY <1>3, <1>6 DEF Left, Again
  <2> QED BY <2>1, <2>2 DEF LeftInv
<1>19. SentInv'
  BY <1>1, <1>2, <1>3, <1>4, <1>5, <1>6, <1>7
     DEF SentInv, SessionInv, OwnInv, Own, Holds, Again, Robbed, Fields
<1> QED BY <1>10, <1>11, <1>12, <1>13, <1>14, <1>15, <1>16, <1>17, <1>18, <1>19
           DEF IInv, OwnInv

LEMMA ServerTlsKeeps == IInv /\ ServerTls => IInv'
<1> SUFFICES ASSUME IInv, ServerTls PROVE IInv'
  OBVIOUS
<1>1. Fields
  BY HasFields DEF IInv
<1> USE DEF IInv
<1>3. /\ sv.pc = "tls" /\ sv.held /\ sv.k \in Conns /\ sv.sock \in Handles
      /\ UNCHANGED <<os, cl, n, sent>>
  BY DEF ServerTls, OwnInv, Own, Holds
<1>4. \/ /\ sv' = AfterShutdown(AfterSetUp(sv, "handshake"))
         /\ UNCHANGED <<ctxs, fds, fate>>
      \/ \E outcome \in Outcomes :
           /\ SetUp(sv, outcome)
           /\ sv' = AfterSetUp(sv, outcome)
           /\ Fated(sv.k, IF outcome = "files" THEN {"bare"} ELSE {})
  BY DEF ServerTls
<1>5. CASE /\ sv' = AfterShutdown(AfterSetUp(sv, "handshake"))
           /\ UNCHANGED <<ctxs, fds, fate>>
  <2>1. /\ sv' \in Server
        /\ sv'.pc = "idle" /\ sv'.addr = sv.addr
        /\ sv'.listen = sv.listen /\ sv'.held = sv.held
        /\ sv'.sock = sv.sock /\ sv'.k = sv.k /\ sv'.ssl = 0
        /\ sv'.ctx = sv.k /\ sv'.good = FALSE
    <3> DEFINE a == AfterSetUp(sv, "handshake")
    <3>1. a = [sv EXCEPT !.pc = "idle", !.ctx = sv.k, !.ssl = sv.k,
                         !.good = FALSE]
      BY DEF AfterSetUp
    <3>2. /\ a \in Server /\ a.pc = "idle" /\ a.ctx = sv.k /\ a.good = FALSE
          /\ a.addr = sv.addr /\ a.listen = sv.listen /\ a.held = sv.held
          /\ a.sock = sv.sock /\ a.k = sv.k
      BY <1>1, <3>1 DEF TypeOK, Server, Fields
    <3>3. sv' = [a EXCEPT !.ssl = 0]
      BY <1>5 DEF AfterShutdown
    <3> HIDE DEF a
    <3> QED BY <1>1, <3>2, <3>3 DEF Server, Fields
  <2>10. TypeOK'
    BY <1>1, <1>3, <1>5, <2>1 DEF TypeOK, Fields
  <2>11. Own(cl, cl.up)'
    BY <1>1, <1>3, <1>5, <2>1
       DEF OwnInv, Own, Holds, ApartInv, HandleInv, Again, Robbed, Fields
  <2>12. Own(sv, sv.held)'
    BY <1>1, <1>3, <1>5, <2>1
       DEF OwnInv, Own, Holds, ApartInv, HandleInv, Again, Robbed, Fields
  <2>13. ApartInv'
    BY <1>1, <1>3, <1>5, <2>1 DEF ApartInv, OwnInv, Own, Holds, Fields
  <2>14. ListenInv'
    BY <1>1, <1>3, <1>5, <2>1 DEF ListenInv, Fields
  <2>15. HandleInv'
    BY <1>1, <1>3, <1>5, <2>1 DEF HandleInv, OwnInv, Own, Holds, Fields
  <2>16. SessionInv'
    BY <1>1, <1>3, <1>5, <2>1
       DEF SessionInv, OwnInv, Own, Holds, Again, Robbed, Fields
  <2>17. ContextInv'
    BY <1>1, <1>3, <1>5, <2>1
       DEF ContextInv, WithContext, OwnInv, Own, Holds, ApartInv, Again, Robbed, Fields
  <2>18. LeftInv'
    BY <1>1, <1>3, <1>5, <2>1
       DEF LeftInv, Left, Again, Held, OwnInv, Own, Holds, HandleInv, Fields
  <2>19. SentInv'
    BY <1>1, <1>3, <1>5, <2>1
       DEF SentInv, SessionInv, OwnInv, Own, Holds, Again, Robbed, Fields
  <2> QED BY <2>10, <2>11, <2>12, <2>13, <2>14, <2>15, <2>16, <2>17, <2>18,
             <2>19
             DEF IInv, OwnInv
<1>6. ASSUME NEW outcome \in Outcomes, SetUp(sv, outcome),
             sv' = AfterSetUp(sv, outcome),
             Fated(sv.k, IF outcome = "files" THEN {"bare"} ELSE {})
      PROVE  IInv'
  BY <1>3, <1>6, ServerSetUpKeeps
<1> QED BY <1>4, <1>5, <1>6

LEMMA ServerDisconnectKeeps == IInv /\ ServerDisconnect => IInv'
<1> SUFFICES ASSUME IInv, ServerDisconnect PROVE IInv'
  OBVIOUS
<1>1. Fields
  BY HasFields DEF IInv
<1> USE DEF IInv
<1>2. PICK ok \in BOOLEAN : Drop(sv.sock, sv.k, ok, {})
  BY DEF ServerDisconnect
<1>3. sv.pc = "idle" /\ ShutdownSSL(sv) /\ UNCHANGED <<cl, n, sent>>
  BY DEF ServerDisconnect
<1>4. IInv'
  <2>1. /\ sv' \in Server
        /\ sv'.pc = sv.pc /\ sv'.addr = sv.addr
        /\ sv'.listen = sv.listen /\ sv'.held = FALSE
        /\ sv'.sock = sv.sock /\ sv'.k = sv.k /\ sv'.ssl = 0
        /\ sv'.ctx = sv.ctx /\ sv'.good = FALSE
    <3> DEFINE a == AfterShutdown(sv)
    <3>1. /\ a \in Server /\ a.pc = sv.pc /\ a.addr = sv.addr
          /\ a.listen = sv.listen /\ a.sock = sv.sock /\ a.k = sv.k
          /\ a.ssl = 0 /\ a.ctx = sv.ctx
      BY <1>1 DEF AfterShutdown, TypeOK, Server, Fields
    <3>2. sv' = [a EXCEPT !.held = FALSE, !.good = FALSE]
      BY DEF ServerDisconnect
    <3> HIDE DEF a
    <3> QED BY <3>1, <3>2 DEF Server
  <2>2. sv.held => sv.k \in Conns /\ sv.sock \in Handles
    BY DEF OwnInv, Own, Holds
  <2>3. /\ os' \in [Handles -> Owners]
        /\ ok => /\ sv.sock \in Handles
                 /\ os[sv.sock] # None /\ os[sv.sock] # Listener
        /\ \A x \in Handles :
             os'[x] = IF ok /\ x = sv.sock THEN None ELSE os[x]
    BY <1>1, <1>2, CloseIs DEF Drop, Fields, Fates
  <2>4. /\ fate' \in [Conns -> SUBSET Fates]
        /\ \A j \in Conns : fate[j] \subseteq fate'[j]
        /\ sv.k \in Conns => ok \/ "unsent" \in fate'[sv.k]
    BY <1>1, <1>2, CloseIs DEF Drop, Fields, Fates
  <2>5. /\ fds' \in [Conns -> Handles \cup {None}]
        /\ \A j \in Conns : fds'[j] = IF j = sv.ssl THEN None ELSE fds[j]
        /\ ctxs' = IF sv.ssl = 0 THEN ctxs ELSE ctxs \ {sv.ctx}
    BY <1>1, <1>3, ShutdownIs DEF Fields
  <2>6. \A j \in Conns : ok /\ os[sv.sock] = j /\ j # sv.k =>
           "robbed" \in fate'[j]
    BY <1>1, <1>2, CloseIs DEF Drop, Fields, Fates
  <2>10. TypeOK'
    BY <1>1, <1>3, <2>1, <2>2, <2>3, <2>4, <2>5, <2>6 DEF TypeOK, Fields
  <2>11. Own(cl, cl.up)'
    <3>1. cl.k \in Conns => cl.k \notin {sv.ssl, sv.ctx}
      BY DEF ApartInv
    <3>2. cl.ssl \in Conns => cl.ssl # sv.ssl
      BY DEF ApartInv
    <3>3. /\ cl.ssl # 0 => fds'[cl.ssl] = fds[cl.ssl]
          /\ cl.k \in Conns => fds'[cl.k] = fds[cl.k]
      BY <1>1, <2>5, <3>1, <3>2 DEF Fields
    <3>4. /\ cl.ssl # 0 => (Again(cl.ssl) => Again(cl.ssl)')
          /\ cl.k \in Conns => (cl.k \in ctxs' <=> cl.k \in ctxs)
      BY <1>1, <1>3, <2>4, <2>5, <3>1 DEF Fields, Again
    <3>5. cl.up => Holds(cl)'
      <4> SUFFICES ASSUME cl.up PROVE Holds(cl)'
        OBVIOUS
      <4>1. /\ cl.sock \in Handles /\ cl.k \in Conns /\ cl' = cl
            /\ os[cl.sock] = cl.k \/ Robbed(cl.k)
            /\ \A h \in Handles : os[h] = cl.k => h = cl.sock
        BY <1>3 DEF OwnInv, Own, Holds
      <4>2. cl.k # sv.k
        BY <4>1 DEF ApartInv
      <4>3. \A h \in Handles : os'[h] = cl.k => h = cl.sock
        BY <1>1, <2>3, <4>1 DEF Fields
      <4>4. Robbed(cl.k) => Robbed(cl.k)'
        BY <2>4, <4>1 DEF Robbed
      <4>5. os[cl.sock] = cl.k => os'[cl.sock] = cl.k \/ Robbed(cl.k)'
        BY <1>1, <2>3, <2>6, <4>1, <4>2 DEF Robbed, Fields
      <4> QED BY <4>1, <4>3, <4>4, <4>5 DEF Holds
    <3>6. cl.up => cl.k \in Conns
      BY DEF OwnInv, Own, Holds
    <3> QED BY <1>1, <1>3, <3>3, <3>4, <3>5, <3>6 DEF OwnInv, Own, Fields
  <2>12. Own(sv, sv.held)'
    BY <1>1, <1>3, <2>1, <2>2, <2>3, <2>4, <2>5, <2>6
       DEF OwnInv, Own, Holds, ApartInv, HandleInv, Again, Robbed, Fields
  <2>13. ApartInv'
    BY <1>1, <1>3, <2>1, <2>2, <2>3, <2>4, <2>5, <2>6
       DEF ApartInv, OwnInv, Own, Holds, Fields
  <2>14. ListenInv'
    BY <1>1, <1>3, <2>1, <2>2, <2>3, <2>4, <2>5, <2>6 DEF ListenInv, Fields
  <2>15. HandleInv'
    BY <1>1, <1>3, <2>1, <2>2, <2>3, <2>4, <2>5, <2>6
       DEF HandleInv, OwnInv, Own, Holds, Fields
  <2>16. SessionInv'
    <3> SUFFICES ASSUME NEW k \in Conns, fds'[k] # None
                 PROVE  /\ os'[fds'[k]] = k \/ Again(k)' \/ Robbed(k)'
                        /\ k \in {sv'.ssl, cl'.ssl} \/ Again(k)'
      BY DEF SessionInv
    <3>1. k # sv.ssl /\ fds'[k] = fds[k] /\ fds[k] \in Handles
      BY <1>1, <2>5 DEF Fields
    <3>2. (Again(k) => Again(k)') /\ (Robbed(k) => Robbed(k)')
      BY <2>4 DEF Again, Robbed
    <3>3. /\ os[fds[k]] = k \/ Again(k) \/ Robbed(k)
          /\ k = cl.ssl \/ Again(k)
      BY <3>1 DEF SessionInv
    <3>4. k = cl.ssl => k # sv.k
      BY DEF ApartInv
    <3>5. ok /\ os[sv.sock] = k /\ k # sv.k => Robbed(k)'
      BY <1>1, <2>6 DEF Robbed, Fields
    <3> QED BY <1>3, <2>1, <2>3, <2>5, <3>1, <3>2, <3>3, <3>4, <3>5
  <2>17. ContextInv'
    BY <1>1, <1>3, <2>1, <2>2, <2>3, <2>4, <2>5, <2>6
       DEF ContextInv, WithContext, OwnInv, Own, Holds, ApartInv, Again, Robbed, Fields
  <2>18. LeftInv'
    <3> SUFFICES ASSUME NEW h \in Handles, os'[h] \in Conns
                 PROVE  Held(os[h])' \/ Left(os[h])'
      BY DEF LeftInv
    <3>1. os'[h] = os[h] /\ os[h] \in Conns
      BY <1>1, <2>2, <2>3 DEF Fields
    <3>2. Left(os[h]) => Left(os[h])'
      BY <2>4, <3>1 DEF Left, Again
    <3>3. Held(os[h]) \/ Left(os[h])
      BY <3>1 DEF LeftInv
    <3>4. ASSUME sv.held, os[h] = sv.k PROVE Left(os[h])'
      <4>1. h = sv.sock
        BY <3>4 DEF OwnInv, Own, Holds
      <4>2. ~ok
        BY <1>1, <2>2, <2>3, <3>1, <4>1 DEF Fields
      <4> QED BY <2>4, <3>1, <3>4, <4>2 DEF Left
    <3> QED BY <1>3, <2>1, <2>2, <2>3, <2>4, <3>1, <3>2, <3>3, <3>4 DEF Held
  <2>19. SentInv'
    BY <1>1, <1>3, <2>1, <2>2, <2>3, <2>4, <2>5, <2>6
       DEF SentInv, SessionInv, OwnInv, Own, Holds, Again, Robbed, Fields
  <2> QED BY <2>10, <2>11, <2>12, <2>13, <2>14, <2>15, <2>16, <2>17, <2>18,
             <2>19
             DEF IInv, OwnInv
<1> QED BY <1>4

LEMMA ServerEndsKeeps == IInv /\ ServerEnds => IInv'
<1> SUFFICES ASSUME IInv, ServerEnds PROVE IInv'
  OBVIOUS
<1>1. Fields
  BY HasFields DEF IInv
<1> USE DEF IInv
<1>2. /\ sv' \in Server
      /\ sv'.pc = "gone" /\ sv'.addr = sv.addr
      /\ sv'.listen = sv.listen /\ sv'.held = sv.held
      /\ sv'.sock = sv.sock /\ sv'.k = sv.k /\ sv'.ssl = sv.ssl
      /\ sv'.ctx = sv.ctx /\ sv'.good = sv.good
      /\ UNCHANGED <<cl, ctxs, fds, n, fate, sent>>
  BY <1>1 DEF ServerEnds, TypeOK, Server, Fields
<1>3. /\ os' \in [Handles -> Owners]
      /\ \A x \in Handles : os'[x] = IF x = sv.listen THEN None ELSE os[x]
  BY <1>1, CloseIs DEF ServerEnds, Fields
<1>4. sv.pc \in {"idle", "accept"}
  BY DEF ServerEnds
<1>5. sv.listen \in Handles => os[sv.listen] = Listener
  BY <1>1, <1>4 DEF ListenInv, Fields
<1>10. TypeOK'
  BY <1>1, <1>2, <1>3, <1>4, <1>5 DEF TypeOK, Fields
<1>11. Own(cl, cl.up)'
  BY <1>1, <1>2, <1>3, <1>4, <1>5
     DEF OwnInv, Own, Holds, ApartInv, HandleInv, Again, Robbed, Fields
<1>12. Own(sv, sv.held)'
  BY <1>1, <1>2, <1>3, <1>4, <1>5
     DEF OwnInv, Own, Holds, ApartInv, HandleInv, Again, Robbed, Fields
<1>13. ApartInv'
  BY <1>1, <1>2, <1>3, <1>4, <1>5 DEF ApartInv, OwnInv, Own, Holds, Fields
<1>14. ListenInv'
  BY <1>1, <1>2, <1>3, <1>4, <1>5 DEF ListenInv, Fields
<1>15. HandleInv'
  BY <1>1, <1>2, <1>3, <1>4, <1>5 DEF HandleInv, OwnInv, Own, Holds, Fields
<1>16. SessionInv'
  <2> SUFFICES ASSUME NEW k \in Conns, fds'[k] # None
               PROVE  /\ os'[fds'[k]] = k \/ Again(k)' \/ Robbed(k)'
                      /\ k \in {cl'.ssl, sv'.ssl} \/ Again(k)'
    BY DEF SessionInv
  <2>1. fds'[k] = fds[k] /\ fds[k] \in Handles
    BY <1>1, <1>2 DEF Fields
  <2>2. Again(k)' = Again(k) /\ Robbed(k)' = Robbed(k)
    BY <1>2 DEF Again, Robbed
  <2>3. os[fds[k]] = k => fds[k] # sv.listen
    BY <1>1, <1>5, <2>1 DEF Fields
  <2> QED BY <1>2, <1>3, <2>1, <2>2, <2>3 DEF SessionInv
<1>17. ContextInv'
  BY <1>1, <1>2, <1>3, <1>4, <1>5
     DEF ContextInv, WithContext, OwnInv, Own, Holds, ApartInv, Again, Robbed, Fields
<1>18. LeftInv'
  BY <1>1, <1>2, <1>3, <1>4, <1>5
     DEF LeftInv, Left, Again, Held, OwnInv, Own, Holds, HandleInv, Fields
<1>19. SentInv'
  BY <1>1, <1>2, <1>3, <1>4, <1>5
     DEF SentInv, SessionInv, OwnInv, Own, Holds, Again, Robbed, Fields
<1> QED BY <1>10, <1>11, <1>12, <1>13, <1>14, <1>15, <1>16, <1>17, <1>18, <1>19
           DEF IInv, OwnInv

----------------------------------------------------------------------------
(* The theorems. *)

LEMMA Initially == Init => IInv
<1> SUFFICES ASSUME Init PROVE IInv
  OBVIOUS
<1> USE SocketsAssumption DEF SocketsAssumption
<1>1. 0 \in Ptr /\ None \in Owners /\ {} \in SUBSET Fates /\ 0 \notin Conns
  BY DEF Ptr, Owners, Conns
<1>2. /\ cl \in Client /\ sv \in Server
  BY <1>1 DEF Init, Client, Server
<1>3. TypeOK
  BY <1>1, <1>2 DEF Init, TypeOK
<1>4. None \notin Conns
  BY DEF Conns
<1>5. OwnInv /\ ApartInv /\ ListenInv /\ HandleInv
  BY <1>1, <1>4
     DEF Init, OwnInv, Own, Holds, ApartInv, ListenInv, HandleInv, Conns
<1>6. SessionInv /\ ContextInv /\ LeftInv /\ SentInv
  BY <1>1, <1>4 DEF Init, SessionInv, ContextInv, LeftInv, SentInv
<1> QED BY <1>3, <1>5, <1>6 DEF IInv

LEMMA Inductive == IInv /\ [Next]_vars => IInv'
<1> SUFFICES ASSUME IInv, [Next]_vars PROVE IInv'
  OBVIOUS
<1>1. CASE UNCHANGED vars
  BY <1>1
     DEF vars, IInv, TypeOK, OwnInv, Own, Holds, ApartInv, ListenInv,
         HandleInv,
              SessionInv, ContextInv, WithContext, LeftInv, Left, Held,
              Again, Robbed, SentInv
<1>2. CASE ClientStep
  BY <1>2, ClientConnectKeeps, ClientNoSocketKeeps, ClientNoOptionKeeps,
     ClientSocketKeeps, ClientTlsKeeps, ClientSendKeeps,
     ClientDisconnectKeeps DEF ClientStep
<1>3. CASE ServerStep
  BY <1>3, ServerListenKeeps, ServerListenFailsKeeps, ServerNobodyKeeps,
     ServerAcceptKeeps, ServerTlsKeeps, ServerDisconnectKeeps,
     ServerEndsKeeps DEF ServerStep
<1>4. CASE OtherOpens \/ OtherCloses
  BY <1>4, OtherOpensKeeps, OtherClosesKeeps
<1> QED BY <1>1, <1>2, <1>3, <1>4 DEF Next

THEOREM Invariance == Spec => []IInv
BY Initially, Inductive, PTL DEF Spec

\* The variables keep their types: no object points to a session, a context or
\* a connection that was never made.
THEOREM TypeCorrect == Spec => []TypeOK
<1>1. IInv => TypeOK
  BY DEF IInv
<1> QED BY <1>1, Invariance, PTL

\* After a call that returned true session, context and socket belong
\* together, and a session's descriptor is its own connection's.
THEOREM SessionFits == Spec => []SessionFitsConnection
<1>1. IInv => SessionFitsConnection
  BY DEF IInv, OwnInv, Own, Holds, SessionInv, SessionFitsConnection
<1> QED BY <1>1, Invariance, PTL

\* Only the failures the fates name leave a handle, a session or a context
\* behind.
THEOREM NothingIsLost == Spec => []NothingLost
<1>1. IInv => NothingLost
  <2> SUFFICES ASSUME IInv, NEW k \in Conns, ~ Held(k)
               PROVE  /\ (\E h \in Handles : os[h] = k) =>
                           fate[k] \cap {"refused", "unsent", "again"} # {}
                      /\ fds[k] # None => "again" \in fate[k]
                      /\ k \in ctxs => fate[k] \cap {"bare", "again"} # {}
    BY DEF NothingLost
  <2>1. (\E h \in Handles : os[h] = k) => Left(k)
    BY DEF IInv, LeftInv
  <2>2. fds[k] # None => Again(k)
    BY HasFields DEF IInv, SessionInv, OwnInv, Own, Holds, Held, Fields
  <2>3. k \in ctxs => Again(k) \/ "bare" \in fate[k]
    BY DEF IInv, ContextInv, WithContext, Held
  <2> QED BY <2>1, <2>2, <2>3 DEF Left, Again
<1> QED BY <1>1, Invariance, PTL

\* A record reaches the peer of its session unless its client connected again
\* without a Disconnect, or another object closed its handle.
THEOREM RecordsReach == Spec => []RecordsReachPeer
<1>1. IInv => RecordsReachPeer
  BY DEF IInv, SentInv, RecordsReachPeer
<1> QED BY <1>1, Invariance, PTL

\* What ClosesOwnHandle says of a handle that is closed.
OwnClose(h) ==
    \/ os[h] = Other /\ UNCHANGED <<cl, sv>>
    \/ os[h] = cl.k /\ UNCHANGED sv
    \/ os[h] \in {sv.k, Listener} /\ UNCHANGED cl
    \/ h = sv.sock /\ ~sv.held /\ UNCHANGED cl
    \/ h = cl.sock /\ cl.up /\ Robbed(cl.k) /\ UNCHANGED sv
    \/ h = sv.sock /\ sv.held /\ Robbed(sv.k) /\ UNCHANGED cl

\* Nobody closes a handle that is not his own, although the objects keep the
\* numbers of handles that are closed: only a server's second Disconnect of one
\* number does, and the Disconnect of an object whose handle it took.
THEOREM OwnHandleClosed == Spec => ClosesOwnHandle
<1>1. IInv /\ [Next]_vars =>
        [\A h \in Handles : os[h] # None /\ os'[h] = None =>
           OwnClose(h)]_vars
  <2> SUFFICES ASSUME IInv, Next,
                      NEW h \in Handles, os[h] # None, os'[h] = None
               PROVE  OwnClose(h)
    BY DEF vars
  <2>1. Fields
    BY HasFields DEF IInv
  <2>2. OwnInv /\ ListenInv
    BY DEF IInv
  <2>3. CASE OtherOpens
    BY <2>1, <2>3 DEF OtherOpens, Fields
  <2>4. CASE OtherCloses
    BY <2>1, <2>4 DEF OwnClose, OtherCloses, Close, Fields
  <2>5. CASE ClientConnect
    BY <2>1, <2>2, <2>5
       DEF ClientConnect, Drop, Close, OwnInv, Own, Holds, OwnClose, Fields
  <2>6. CASE ClientNoSocket \/ ClientNoOption \/ ClientTls \/ ClientSend
    BY <2>6 DEF ClientNoSocket, ClientNoOption, ClientTls, ClientSend
  <2>7. CASE ClientSocket
    BY <2>1, <2>7 DEF ClientSocket, Conns, Ptr, Fields, TypeOK
  <2>8. CASE ClientDisconnect
    BY <2>1, <2>2, <2>8
       DEF ClientDisconnect, Drop, Close, OwnInv, Own, Holds, OwnClose, Fields
  <2>9. CASE ServerListen
    BY <2>1, <2>9 DEF ServerListen, Fields
  <2>10. CASE ServerListenFails
    BY <2>1, <2>2, <2>10
       DEF OwnClose, ServerListenFails, Close, ListenInv, Fields
  <2>11. CASE ServerNobody \/ ServerTls
    BY <2>11 DEF ServerNobody, ServerTls
  <2>12. CASE ServerAccept
    BY <2>1, <2>12 DEF ServerAccept, Conns, Ptr, Fields, TypeOK
  <2>13. CASE ServerDisconnect
    BY <2>1, <2>2, <2>13
       DEF ServerDisconnect, Drop, Close, OwnInv, Own, Holds, OwnClose, Fields
  <2>14. CASE ServerEnds
    BY <2>1, <2>2, <2>14 DEF OwnClose, ServerEnds, Close, ListenInv, Fields
  <2> QED BY <2>3, <2>4, <2>5, <2>6, <2>7, <2>8, <2>9, <2>10, <2>11, <2>12,
             <2>13, <2>14 DEF Next, ClientStep, ServerStep
<1>2. [][Next]_vars /\ []IInv =>
        [][\A h \in Handles : os[h] # None /\ os'[h] = None =>
             OwnClose(h)]_vars
  BY <1>1, PTL
<1> QED BY <1>2, Invariance, PTL DEF Spec, ClosesOwnHandle, OwnClose
=============================================================================
