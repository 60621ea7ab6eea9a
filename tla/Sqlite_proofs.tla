--------------------------- MODULE Sqlite_proofs ---------------------------
(***************************************************************************)
(* Proofs about Sqlite, for any number of queries, writes and objects.     *)
(***************************************************************************)
EXTENDS Sqlite, TLAPS

----------------------------------------------------------------------------
(* The parts of the inductive invariant. *)

\* A file with anything in it was made; the map has every database that is
\* opened; InitDB runs on an open connection, before any transaction object.
EntryInv ==
    /\ ~made => file = {} /\ ~entry
    /\ ~entry => init.pc = "idle" /\ scope = NoScope
    /\ init.pc # "idle" => db.state = "open" /\ scope = NoScope
    /\ entry \/ ~db.tx
    /\ db.state = "open" \/ ~db.tx

\* While InitDB makes the schema the file has none of it, and the transaction
\* has what was run so far.
InitInv ==
    /\ init.pc = "json" => ~db.tx /\ init.next = 0
    /\ init.pc = "json" /\ ~init.isExist => file \cap Schema = {}
    /\ init.pc = "create" =>
           /\ db.tx
           /\ file \cap Schema = {}
           /\ init.next <= Rev + 1
           /\ (0 .. init.next - 1) \ flags.skipped \subseteq db.view

\* What may become the content of the file has the schema whole.
WholeIn(v) == \/ v \cap Schema = {}
              \/ Schema \ flags.skipped \subseteq v
              \/ flags.threw

WholeInv == /\ WholeIn(file)
            /\ db.tx /\ init.pc # "create" => WholeIn(db.view)

\* No write beyond the last number is anywhere.
NumberInv == \A w \in Writes : w > writes =>
                 /\ w \notin file /\ w \notin db.view
                 /\ w \notin acked /\ w \notin gone /\ w \notin scope.pend

\* As long as no COMMIT failed, the transaction that is open is the one the
\* program began, and has of its writes the settled ones and the pending.
ScopeInv ==
    /\ file \cap Writes = acked
    /\ gone \cap file = {}
    /\ scope.pend \cap file = {}
    /\ db.tx => /\ file \subseteq db.view
                /\ gone \cap db.view = {}
                /\ db.view \cap Writes = acked \cup scope.pend
    /\ Ready => scope.begun = db.tx
    /\ ~scope.begun => scope.pend = {}

IInv == /\ TypeOK /\ EntryInv /\ InitInv /\ WholeInv /\ NumberInv
        /\ ~flags.commit => ScopeInv

----------------------------------------------------------------------------
(* What SQLite's operations do to the connection. *)

Db == [state : {"none", "open", "closed"}, tx : BOOLEAN, view : Content]

LEMMA BeginDb ==
    ASSUME TypeOK, SqlBegin
    PROVE  /\ db' \in Db
            /\ db'.state = db.state /\ db'.tx = TRUE
            /\ db'.view = IF db.tx THEN db.view ELSE file
BY DEF TypeOK, SqlBegin, Db

LEMMA EffectDb ==
    ASSUME TypeOK, NEW i \in Schema \cup Writes, Effect(i)
    PROVE  /\ db' \in Db /\ file' \in Content
            /\ db'.state = db.state /\ db'.tx = db.tx
            /\ db'.view = IF db.tx THEN db.view \cup {i} ELSE db.view
           /\ file' = IF db.tx THEN file ELSE file \cup {i}
<1>1. CASE db.tx
  <2>1. db.view \cup {i} \in Content
    BY DEF TypeOK, Content
  <2>2. db' = [db EXCEPT !.view = db.view \cup {i}] /\ file' = file
    BY <1>1 DEF Effect
  <2>3. db' \in Db /\ db'.view = db.view \cup {i}
    BY <2>1, <2>2 DEF TypeOK, Db
  <2> QED BY <1>1, <2>2, <2>3 DEF TypeOK
<1>2. CASE ~db.tx
  BY <1>2 DEF TypeOK, Effect, Db, Content
<1> QED BY <1>1, <1>2

\* A COMMIT that changed nothing, and one that took effect.
Kept      == file' = file /\ db' = db /\ (db.tx => flags'.commit)
Committed == /\ db.tx
             /\ file' = db.view
             /\ db'.tx = FALSE /\ db'.view = {}

LEMMA CommitDb ==
    ASSUME TypeOK, SqlCommit
    PROVE  /\ db' \in Db /\ file' \in Content /\ flags' \in Flags
            /\ db'.state = db.state
           /\ flags'.threw = flags.threw /\ flags'.skipped = flags.skipped
           /\ flags.commit => flags'.commit
           /\ Kept \/ Committed
<1>1. CASE ~db.tx /\ UNCHANGED <<file, db, flags>>
  BY <1>1 DEF TypeOK, Db, Kept
<1>2. CASE db.tx /\ file' = db.view /\ UNCHANGED flags
            /\ db' = [db EXCEPT !.tx = FALSE, !.view = {}]
  BY <1>2 DEF TypeOK, Db, Content, Committed
<1>3. CASE /\ db.tx /\ UNCHANGED <<file, db>>
           /\ flags' = [flags EXCEPT !.commit = TRUE]
  BY <1>3 DEF TypeOK, Db, Flags, Kept
<1> QED BY <1>1, <1>2, <1>3 DEF SqlCommit

LEMMA RollBackDb ==
    ASSUME TypeOK, SqlRollBack
    PROVE  /\ db' \in Db
            /\ db'.state = db.state /\ db'.tx = FALSE /\ db'.view = {}
BY DEF TypeOK, SqlRollBack, Db, Content

LEMMA StartTyped ==
    /\ NoDB \in Db
    /\ NoInit \in Inits
    /\ NoScope \in [begun : BOOLEAN, pend : SUBSET Writes]
BY SqliteAssumption DEF NoDB, NoInit, NoScope, Db, Content, Inits, Pragma

\* InitDB's statements and the program's writes are told apart by their number.
LEMMA Apart == Schema \cap Writes = {}
BY SqliteAssumption DEF Schema, Writes

----------------------------------------------------------------------------
(* Each action keeps the invariant. *)

LEMMA RestartKeeps == IInv /\ Restart => IInv'
<1> SUFFICES ASSUME IInv, Restart PROVE IInv'
  OBVIOUS
<1> USE SqliteAssumption DEF SqliteAssumption, IInv
<1>1. TypeOK'
  <2>1. /\ db' \in Db /\ init' = NoInit /\ scope' = NoScope
        /\ objects' = 0 /\ entry' = FALSE
        /\ UNCHANGED <<made, file, writes, acked, gone, flags>>
    BY StartTyped DEF Restart
  <2>2. objects' \in 0 .. MaxObjects
    BY <2>1
  <2>3. /\ init' \in Inits
        /\ scope' \in [begun : BOOLEAN, pend : SUBSET Writes]
    BY <2>1, StartTyped
  <2> QED BY <2>1, <2>2, <2>3 DEF TypeOK, Db
<1>2. EntryInv'
  BY DEF Restart, NoDB, NoInit, NoScope, TypeOK, EntryInv
<1>3. InitInv'
  BY DEF Restart, NoDB, NoInit, NoScope, TypeOK, EntryInv, InitInv
<1>4. WholeInv'
  BY DEF Restart, NoDB, NoInit, NoScope, TypeOK, EntryInv, InitInv, WholeInv,
         WholeIn
<1>5. NumberInv'
  BY DEF Restart, NoDB, NoInit, NoScope, TypeOK, NumberInv
<1>6. ~flags'.commit => ScopeInv'
  BY DEF Restart, NoDB, NoInit, NoScope, TypeOK, EntryInv, InitInv, NumberInv,
         ScopeInv, Ready
<1> QED BY <1>1, <1>2, <1>3, <1>4, <1>5, <1>6

LEMMA InitOpenKeeps == IInv /\ InitOpen => IInv'
<1> SUFFICES ASSUME IInv, InitOpen PROVE IInv'
  OBVIOUS
<1> USE SqliteAssumption DEF SqliteAssumption, IInv
<1>1. TypeOK'
  BY StartTyped DEF InitOpen, TypeOK, Db, Inits
<1>2. EntryInv'
  BY DEF InitOpen, NoDB, NoInit, TypeOK, EntryInv
<1>3. InitInv'
  BY DEF InitOpen, NoDB, NoInit, TypeOK, EntryInv, InitInv
<1>4. WholeInv'
  BY DEF InitOpen, NoDB, NoInit, TypeOK, EntryInv, InitInv, WholeInv, WholeIn
<1>5. NumberInv'
  BY DEF InitOpen, NoDB, NoInit, TypeOK, NumberInv
<1>6. ~flags'.commit => ScopeInv'
  BY DEF InitOpen, NoDB, NoInit, TypeOK, EntryInv, InitInv, NumberInv,
         ScopeInv, Ready
<1> QED BY <1>1, <1>2, <1>3, <1>4, <1>5, <1>6

LEMMA InitEndKeeps == IInv /\ InitEnd => IInv'
<1> SUFFICES ASSUME IInv, InitEnd PROVE IInv'
  OBVIOUS
<1> USE SqliteAssumption DEF SqliteAssumption, IInv
<1>1. /\ db' \in Db /\ file' \in Content /\ flags' \in Flags
      /\ db'.state = db.state
      /\ flags'.threw = flags.threw /\ flags'.skipped = flags.skipped
      /\ flags.commit => flags'.commit
      /\ Kept \/ Committed
  BY CommitDb DEF InitEnd
<1>2. TypeOK'
  BY <1>1, StartTyped DEF InitEnd, InitFrame, TypeOK, Db
<1>3. EntryInv'
  <2>1. CASE Kept
    BY <1>1, <2>1
       DEF Kept, InitEnd, NoInit, NoScope, InitFrame, TypeOK, EntryInv
  <2>2. CASE Committed
    BY <1>1, <2>2
       DEF Committed, InitEnd, NoInit, NoScope, InitFrame, TypeOK, EntryInv
  <2> QED BY <1>1, <2>1, <2>2
<1>4. InitInv'
  <2>1. CASE Kept
    BY <1>1, <2>1
       DEF Kept, InitEnd, NoInit, NoScope, InitFrame, TypeOK, EntryInv, InitInv
  <2>2. CASE Committed
    BY <1>1, <2>2
       DEF Committed, InitEnd, NoInit, NoScope, InitFrame, TypeOK, EntryInv,
           InitInv
  <2> QED BY <1>1, <2>1, <2>2
<1>5. WholeInv'
  <2>1. CASE Kept
    BY <1>1, <2>1
       DEF Kept, InitEnd, NoInit, NoScope, InitFrame, TypeOK, EntryInv,
           InitInv, WholeInv, WholeIn
  <2>2. CASE Committed
    BY <1>1, <2>2
       DEF Committed, InitEnd, NoInit, NoScope, InitFrame, TypeOK, EntryInv,
           InitInv, WholeInv, WholeIn
  <2> QED BY <1>1, <2>1, <2>2
<1>6. NumberInv'
  <2>1. CASE Kept
    BY <1>1, <2>1
       DEF Kept, InitEnd, NoInit, NoScope, InitFrame, TypeOK, NumberInv
  <2>2. CASE Committed
    BY <1>1, <2>2
       DEF Committed, InitEnd, NoInit, NoScope, InitFrame, TypeOK, NumberInv
  <2> QED BY <1>1, <2>1, <2>2
<1>7. ~flags'.commit => ScopeInv'
  <2>1. CASE Kept
    BY <1>1, <2>1
       DEF Kept, InitEnd, NoInit, NoScope, InitFrame, TypeOK, EntryInv,
           InitInv, NumberInv, ScopeInv, Ready
  <2>2. CASE Committed
    <3> SUFFICES ASSUME ~flags'.commit PROVE ScopeInv'
      OBVIOUS
    <3>1. /\ ScopeInv /\ scope = NoScope
          /\ UNCHANGED <<entry, scope, acked, gone>>
      BY <1>1 DEF InitEnd, InitFrame, EntryInv, TypeOK, Flags
    <3> QED BY <2>2, <3>1 DEF Committed, NoScope, ScopeInv, Ready
  <2> QED BY <1>1, <2>1, <2>2
<1> QED BY <1>2, <1>3, <1>4, <1>5, <1>6, <1>7

LEMMA CloseKeeps == IInv /\ Close => IInv'
<1> SUFFICES ASSUME IInv, Close PROVE IInv'
  OBVIOUS
<1> USE SqliteAssumption DEF SqliteAssumption, IInv
<1>1. TypeOK'
  BY StartTyped DEF Close, Ready, TypeOK, Db
<1>2. EntryInv'
  BY DEF Close, Ready, NoDB, NoScope, TypeOK, EntryInv
<1>3. InitInv'
  BY DEF Close, Ready, NoDB, NoScope, TypeOK, EntryInv, InitInv
<1>4. WholeInv'
  BY DEF Close, Ready, NoDB, NoScope, TypeOK, EntryInv, InitInv, WholeInv,
         WholeIn
<1>5. NumberInv'
  BY DEF Close, Ready, NoDB, NoScope, TypeOK, NumberInv
<1>6. ~flags'.commit => ScopeInv'
  BY DEF Close, Ready, NoDB, NoScope, TypeOK, EntryInv, InitInv, NumberInv,
         ScopeInv
<1> QED BY <1>1, <1>2, <1>3, <1>4, <1>5, <1>6

LEMMA TxNewKeeps == IInv /\ TxNew => IInv'
<1> SUFFICES ASSUME IInv, TxNew PROVE IInv'
  OBVIOUS
<1> USE SqliteAssumption DEF SqliteAssumption, IInv
<1>1. /\ db' \in Db
      /\ db'.state = db.state /\ db'.tx = TRUE
      /\ db'.view = IF db.tx THEN db.view ELSE file
  BY BeginDb DEF TxNew
<1>2. TypeOK'
  <2>1. objects' \in 0 .. MaxObjects
    BY DEF TxNew, TypeOK
  <2>2. scope' \in [begun : BOOLEAN, pend : SUBSET Writes]
    BY DEF TxNew, TypeOK
  <2> QED BY <1>1, <2>1, <2>2 DEF TxNew, TxFrame, TypeOK, Db
<1>3. EntryInv'
  BY <1>1 DEF TxNew, Ready, TxFrame, TypeOK, EntryInv
<1>4. InitInv'
  BY <1>1 DEF TxNew, Ready, TxFrame, TypeOK, EntryInv, InitInv
<1>5. WholeInv'
  BY <1>1
     DEF TxNew, Ready, TxFrame, TypeOK, EntryInv, InitInv, WholeInv, WholeIn
<1>6. NumberInv'
  BY <1>1 DEF TxNew, Ready, TxFrame, TypeOK, NumberInv
<1>7. ~flags'.commit => ScopeInv'
  BY <1>1
     DEF TxNew, Ready, TxFrame, TypeOK, EntryInv, InitInv, NumberInv, ScopeInv
<1> QED BY <1>2, <1>3, <1>4, <1>5, <1>6, <1>7

LEMMA TxBeginKeeps == IInv /\ TxBegin => IInv'
<1> SUFFICES ASSUME IInv, TxBegin PROVE IInv'
  OBVIOUS
<1> USE SqliteAssumption DEF SqliteAssumption, IInv
<1>1. /\ db' \in Db
      /\ db'.state = db.state /\ db'.tx = TRUE
      /\ db'.view = IF db.tx THEN db.view ELSE file
  BY BeginDb DEF TxBegin
<1>2. TypeOK'
  BY <1>1 DEF TxBegin, Ready, TxFrame, TypeOK, Db
<1>3. EntryInv'
  BY <1>1 DEF TxBegin, Ready, TxFrame, TypeOK, EntryInv
<1>4. InitInv'
  BY <1>1 DEF TxBegin, Ready, TxFrame, TypeOK, EntryInv, InitInv
<1>5. WholeInv'
  BY <1>1
     DEF TxBegin, Ready, TxFrame, TypeOK, EntryInv, InitInv, WholeInv, WholeIn
<1>6. NumberInv'
  BY <1>1 DEF TxBegin, Ready, TxFrame, TypeOK, NumberInv
<1>7. ~flags'.commit => ScopeInv'
  BY <1>1
     DEF TxBegin, Ready, TxFrame, TypeOK, EntryInv, InitInv, NumberInv,
         ScopeInv
<1> QED BY <1>2, <1>3, <1>4, <1>5, <1>6, <1>7

LEMMA TxCommitKeeps == IInv /\ TxCommit => IInv'
<1> SUFFICES ASSUME IInv, TxCommit PROVE IInv'
  OBVIOUS
<1> USE SqliteAssumption DEF SqliteAssumption, IInv
<1>1. /\ db' \in Db /\ file' \in Content /\ flags' \in Flags
      /\ db'.state = db.state
      /\ flags'.threw = flags.threw /\ flags'.skipped = flags.skipped
      /\ flags.commit => flags'.commit
      /\ Kept \/ Committed
  BY CommitDb DEF TxCommit
<1>2. TypeOK'
  BY <1>1, StartTyped DEF TxCommit, Ready, Settle, TxFrame, TypeOK, Db
<1>3. EntryInv'
  <2>1. CASE Kept
    BY <1>1, <2>1
       DEF Kept, TxCommit, Ready, Settle, NoScope, TxFrame, TypeOK, EntryInv
  <2>2. CASE Committed
    BY <1>1, <2>2
       DEF Committed, TxCommit, Ready, Settle, NoScope, TxFrame, TypeOK,
           EntryInv
  <2> QED BY <1>1, <2>1, <2>2
<1>4. InitInv'
  <2>1. CASE Kept
    BY <1>1, <2>1
       DEF Kept, TxCommit, Ready, Settle, NoScope, TxFrame, TypeOK, EntryInv,
           InitInv
  <2>2. CASE Committed
    BY <1>1, <2>2
       DEF Committed, TxCommit, Ready, Settle, NoScope, TxFrame, TypeOK,
           EntryInv, InitInv
  <2> QED BY <1>1, <2>1, <2>2
<1>5. WholeInv'
  <2>1. CASE Kept
    BY <1>1, <2>1
       DEF Kept, TxCommit, Ready, Settle, NoScope, TxFrame, TypeOK, EntryInv,
           InitInv, WholeInv, WholeIn
  <2>2. CASE Committed
    BY <1>1, <2>2
       DEF Committed, TxCommit, Ready, Settle, NoScope, TxFrame, TypeOK,
           EntryInv, InitInv, WholeInv, WholeIn
  <2> QED BY <1>1, <2>1, <2>2
<1>6. NumberInv'
  <2>1. CASE Kept
    BY <1>1, <2>1
       DEF Kept, TxCommit, Ready, Settle, NoScope, TxFrame, TypeOK, NumberInv
  <2>2. CASE Committed
    BY <1>1, <2>2
       DEF Committed, TxCommit, Ready, Settle, NoScope, TxFrame, TypeOK,
           NumberInv
  <2> QED BY <1>1, <2>1, <2>2
<1>7. ~flags'.commit => ScopeInv'
  <2>1. CASE Kept
    BY <1>1, <2>1
       DEF Kept, TxCommit, Ready, Settle, NoScope, TxFrame, TypeOK, EntryInv,
           InitInv, NumberInv, ScopeInv
  <2>2. CASE Committed
    BY <1>1, <2>2
       DEF Committed, TxCommit, Ready, Settle, NoScope, TxFrame, TypeOK,
           EntryInv, InitInv, NumberInv, ScopeInv
  <2> QED BY <1>1, <2>1, <2>2
<1> QED BY <1>2, <1>3, <1>4, <1>5, <1>6, <1>7

LEMMA TxRollBackKeeps == IInv /\ TxRollBack => IInv'
<1> SUFFICES ASSUME IInv, TxRollBack PROVE IInv'
  OBVIOUS
<1> USE SqliteAssumption DEF SqliteAssumption, IInv
<1>1. /\ db' \in Db
      /\ db'.state = db.state /\ db'.tx = FALSE /\ db'.view = {}
  BY RollBackDb DEF TxRollBack
<1>2. TypeOK'
  BY <1>1, StartTyped DEF TxRollBack, Ready, TxFrame, TypeOK, Db
<1>3. EntryInv'
  BY <1>1 DEF TxRollBack, Ready, NoScope, TxFrame, TypeOK, EntryInv
<1>4. InitInv'
  BY <1>1 DEF TxRollBack, Ready, NoScope, TxFrame, TypeOK, EntryInv, InitInv
<1>5. WholeInv'
  BY <1>1
     DEF TxRollBack, Ready, NoScope, TxFrame, TypeOK, EntryInv, InitInv,
         WholeInv, WholeIn
<1>6. NumberInv'
  BY <1>1 DEF TxRollBack, Ready, NoScope, TxFrame, TypeOK, NumberInv
<1>7. ~flags'.commit => ScopeInv'
  BY <1>1
     DEF TxRollBack, Ready, NoScope, TxFrame, TypeOK, EntryInv, InitInv,
         NumberInv, ScopeInv
<1> QED BY <1>2, <1>3, <1>4, <1>5, <1>6, <1>7

LEMMA TxEndKeeps == IInv /\ TxEnd => IInv'
<1> SUFFICES ASSUME IInv, TxEnd PROVE IInv'
  OBVIOUS
<1> USE SqliteAssumption DEF SqliteAssumption, IInv
<1>1. /\ db' \in Db /\ file' \in Content /\ flags' \in Flags
      /\ db'.state = db.state
      /\ flags'.threw = flags.threw /\ flags'.skipped = flags.skipped
      /\ flags.commit => flags'.commit
      /\ Kept \/ Committed
  BY CommitDb DEF TxEnd
<1>2. TypeOK'
  BY <1>1, StartTyped DEF TxEnd, Ready, Settle, TxFrame, TypeOK, Db
<1>3. EntryInv'
  <2>1. CASE Kept
    BY <1>1, <2>1
       DEF Kept, TxEnd, Ready, Settle, NoScope, TxFrame, TypeOK, EntryInv
  <2>2. CASE Committed
    BY <1>1, <2>2
       DEF Committed, TxEnd, Ready, Settle, NoScope, TxFrame, TypeOK, EntryInv
  <2> QED BY <1>1, <2>1, <2>2
<1>4. InitInv'
  <2>1. CASE Kept
    BY <1>1, <2>1
       DEF Kept, TxEnd, Ready, Settle, NoScope, TxFrame, TypeOK, EntryInv,
           InitInv
  <2>2. CASE Committed
    BY <1>1, <2>2
       DEF Committed, TxEnd, Ready, Settle, NoScope, TxFrame, TypeOK, EntryInv,
           InitInv
  <2> QED BY <1>1, <2>1, <2>2
<1>5. WholeInv'
  <2>1. CASE Kept
    BY <1>1, <2>1
       DEF Kept, TxEnd, Ready, Settle, NoScope, TxFrame, TypeOK, EntryInv,
           InitInv, WholeInv, WholeIn
  <2>2. CASE Committed
    BY <1>1, <2>2
       DEF Committed, TxEnd, Ready, Settle, NoScope, TxFrame, TypeOK, EntryInv,
           InitInv, WholeInv, WholeIn
  <2> QED BY <1>1, <2>1, <2>2
<1>6. NumberInv'
  <2>1. CASE Kept
    BY <1>1, <2>1
       DEF Kept, TxEnd, Ready, Settle, NoScope, TxFrame, TypeOK, NumberInv
  <2>2. CASE Committed
    BY <1>1, <2>2
       DEF Committed, TxEnd, Ready, Settle, NoScope, TxFrame, TypeOK, NumberInv
  <2> QED BY <1>1, <2>1, <2>2
<1>7. ~flags'.commit => ScopeInv'
  <2>1. CASE Kept
    BY <1>1, <2>1
       DEF Kept, TxEnd, Ready, Settle, NoScope, TxFrame, TypeOK, EntryInv,
           InitInv, NumberInv, ScopeInv
  <2>2. CASE Committed
    BY <1>1, <2>2
       DEF Committed, TxEnd, Ready, Settle, NoScope, TxFrame, TypeOK, EntryInv,
           InitInv, NumberInv, ScopeInv
  <2> QED BY <1>1, <2>1, <2>2
<1> QED BY <1>2, <1>3, <1>4, <1>5, <1>6, <1>7

LEMMA InitJsonKeeps == IInv /\ InitJson => IInv'
<1> SUFFICES ASSUME IInv, InitJson PROVE IInv'
  OBVIOUS
<1> USE SqliteAssumption DEF SqliteAssumption, IInv
<1>1. CASE init' = NoInit /\ UNCHANGED db
  <2>1. TypeOK'
    BY <1>1, StartTyped DEF InitJson, InitFrame, TypeOK
  <2>2. EntryInv' /\ InitInv' /\ WholeInv' /\ NumberInv'
    BY <1>1 DEF InitJson, InitFrame, NoInit, TypeOK, EntryInv, InitInv,
                WholeInv, WholeIn, NumberInv
  <2>3. ~flags'.commit => ScopeInv'
    BY <1>1
       DEF InitJson, InitFrame, NoInit, NoScope, TypeOK, EntryInv, InitInv,
                ScopeInv, Ready
  <2> QED BY <2>1, <2>2, <2>3
<1>2. CASE /\ ~init.isExist
           /\ init' = [init EXCEPT !.pc = "create"]
           /\ SqlBegin
  <2>1. /\ db' \in Db
        /\ db'.state = db.state /\ db'.tx = TRUE
        /\ db'.view = IF db.tx THEN db.view ELSE file
    BY <1>2, BeginDb
  <2>2. /\ init'.pc = "create" /\ init'.next = init.next
        /\ init' \in Inits
    BY <1>2 DEF TypeOK, Inits
  <2>3. TypeOK'
    BY <2>1, <2>2 DEF InitJson, InitFrame, TypeOK, Db
  <2>4. EntryInv' /\ InitInv' /\ WholeInv' /\ NumberInv'
    BY <1>2, <2>1, <2>2 DEF InitJson, InitFrame, TypeOK, EntryInv, InitInv,
                            WholeInv, WholeIn, NumberInv
  <2>5. ~flags'.commit => ScopeInv'
    BY <1>2, <2>1, <2>2 DEF InitJson, InitFrame, NoScope, TypeOK, EntryInv,
                            InitInv, ScopeInv, Ready
  <2> QED BY <2>3, <2>4, <2>5
<1> QED BY <1>1, <1>2 DEF InitJson

LEMMA InitCreateKeeps == IInv /\ InitCreate => IInv'
<1> SUFFICES ASSUME IInv, InitCreate PROVE IInv'
  OBVIOUS
<1> USE SqliteAssumption DEF SqliteAssumption, IInv
<1> DEFINE k == init.next
           l == init.last
           pc == IF k = Rev + 1 THEN "end" ELSE "create"
           next == [init EXCEPT !.pc = pc, !.next = k + 1]
<1>1. /\ k \in 0 .. Rev + 1 /\ k \in Schema /\ k \notin Writes
      /\ l \in {Pragma} \cup Schema
      /\ init.pc = "create" /\ entry /\ made /\ db.tx /\ scope = NoScope
      /\ file \cap Schema = {} /\ db.state = "open"
      /\ (0 .. k - 1) \ flags.skipped \subseteq db.view
  BY DEF InitCreate, TypeOK, EntryInv, InitInv, Schema, Writes, Inits
<1>2. ASSUME init' \in {next, [next EXCEPT !.last = k]}
      PROVE  init' \in Inits /\ init'.pc = pc /\ init'.next = k + 1
  <2>1. pc \in {"idle", "json", "create", "end"} /\ k + 1 \in 0 .. Rev + 2
    BY <1>1
  <2>2. init \in Inits
    BY DEF TypeOK
  <2> HIDE DEF pc, k
  <2> QED BY <1>1, <1>2, <2>1, <2>2 DEF Inits
\* A statement that took effect, this one or the one before.
<1>3. ASSUME NEW i \in Schema, Effect(i),
             init' \in {next, [next EXCEPT !.last = k]},
             flags' \in Flags,
             flags'.threw = flags.threw, flags'.commit = flags.commit,
             \/ i = k /\ flags'.skipped = flags.skipped
             \/ flags'.skipped = (flags.skipped \ {i}) \cup {k}
      PROVE  IInv'
  <2>1. i \notin Writes /\ i \in Schema \cup Writes
    BY Apart
  <2>2. /\ db' \in Db /\ file' = file
        /\ db'.state = db.state /\ db'.tx = TRUE
        /\ db'.view = db.view \cup {i}
    BY <1>1, <1>3, <2>1, EffectDb DEF TypeOK
  <2>3. (0 .. k) \ flags'.skipped \subseteq db'.view
    BY <1>1, <1>3, <2>2
  <2>4. TypeOK'
    BY <1>2, <1>3, <2>2 DEF InitCreate, InitFrame, TypeOK, Db
  <2>5. EntryInv' /\ NumberInv'
    BY <1>1, <1>2, <1>3, <2>1, <2>2
       DEF InitCreate, InitFrame, TypeOK, EntryInv, NumberInv
  <2>6. InitInv' /\ WholeInv'
    BY <1>1, <1>2, <1>3, <2>2, <2>3
       DEF InitCreate, InitFrame, InitInv, WholeInv, WholeIn, Schema
  <2>7. ~flags'.commit => ScopeInv'
    <3> SUFFICES ASSUME ~flags'.commit PROVE ScopeInv'
      OBVIOUS
    <3>1. ScopeInv /\ UNCHANGED <<entry, scope, acked, gone>>
      BY <1>3 DEF InitCreate, InitFrame
    <3>2. ~Ready' /\ gone \subseteq Writes /\ scope.pend = {}
      <4>1. pc # "idle"
        OBVIOUS
      <4> QED BY <1>1, <1>2, <1>3, <4>1 DEF Ready, NoScope, TypeOK
    <3> HIDE DEF k, pc
    <3> QED BY <1>1, <2>1, <2>2, <3>1, <3>2 DEF ScopeInv
  <2> QED BY <2>4, <2>5, <2>6, <2>7
<1>4. CASE /\ init' = [next EXCEPT !.last = k]
           /\ Effect(k)
           /\ UNCHANGED flags
  <2>1. /\ init' \in {next, [next EXCEPT !.last = k]}
        /\ flags' \in Flags /\ flags' = flags
    BY <1>4 DEF TypeOK
  <2> QED BY <1>1, <1>3, <1>4, <2>1
<1>5. CASE /\ init' \in {next, [next EXCEPT !.last = k]}
           /\ flags' = [flags EXCEPT !.skipped = @ \cup {k}]
           /\ UNCHANGED <<db, file>>
  <2>1. /\ flags' \in Flags
        /\ flags'.threw = flags.threw /\ flags'.commit = flags.commit
        /\ flags'.skipped = flags.skipped \cup {k}
    BY <1>1, <1>5 DEF TypeOK, Flags
  <2>2. TypeOK' /\ EntryInv' /\ NumberInv'
    BY <1>1, <1>2, <1>5, <2>1
       DEF InitCreate, InitFrame, TypeOK, EntryInv, NumberInv
  <2>3. InitInv' /\ WholeInv'
    BY <1>1, <1>2, <1>5, <2>1 DEF InitCreate, InitFrame, TypeOK, InitInv,
                                  WholeInv, WholeIn, Schema
  <2>4. ~flags'.commit => ScopeInv'
    BY <1>1, <1>2, <1>5, <2>1
       DEF InitCreate, InitFrame, TypeOK, ScopeInv, Ready
  <2> QED BY <2>2, <2>3, <2>4
<1>6. CASE /\ l # Pragma
           /\ init' = next
           /\ Effect(l)
           /\ flags' = [flags EXCEPT !.skipped = (@ \ {l}) \cup {k}]
  <2>1. /\ flags' \in Flags
        /\ flags'.threw = flags.threw /\ flags'.commit = flags.commit
        /\ flags'.skipped = (flags.skipped \ {l}) \cup {k}
    BY <1>1, <1>6 DEF TypeOK, Flags
  <2>2. l \in Schema /\ init' \in {next, [next EXCEPT !.last = k]}
    BY <1>1, <1>6
  <2> QED BY <1>3, <1>6, <2>1, <2>2
<1>7. CASE /\ init' = [init EXCEPT !.pc = "end"]
           /\ flags' = [flags EXCEPT !.threw = TRUE]
           /\ UNCHANGED <<db, file>>
  <2>1. /\ flags' \in Flags
        /\ flags'.threw = TRUE /\ flags'.commit = flags.commit
        /\ init'.pc = "end" /\ init' \in Inits
    BY <1>7 DEF TypeOK, Flags, Inits
  <2>2. TypeOK' /\ EntryInv' /\ InitInv' /\ WholeInv' /\ NumberInv'
    BY <1>1, <1>7, <2>1 DEF InitCreate, InitFrame, TypeOK, EntryInv, InitInv,
                            WholeInv, WholeIn, NumberInv
  <2>3. ~flags'.commit => ScopeInv'
    BY <1>1, <1>7, <2>1 DEF InitCreate, InitFrame, TypeOK, ScopeInv, Ready
  <2> QED BY <2>2, <2>3
<1> QED BY <1>4, <1>5, <1>6, <1>7 DEF InitCreate

LEMMA WriteKeeps == IInv /\ Write => IInv'
<1> SUFFICES ASSUME IInv, Write PROVE IInv'
  OBVIOUS
<1> USE SqliteAssumption DEF SqliteAssumption, IInv
<1>1. /\ writes' = writes + 1 /\ writes' \in Writes /\ writes' \notin Schema
      /\ init.pc = "idle" /\ entry /\ made /\ db.state = "open"
      /\ UNCHANGED <<made, entry, init, objects, gone, flags>>
  BY DEF Write, TypeOK, EntryInv, Ready, Schema, Writes
<1>2. /\ db' \in Db /\ file' \in Content
      /\ db'.state = db.state /\ db'.tx = db.tx
      /\ db'.view = IF db.tx THEN db.view \cup {writes'} ELSE db.view
      /\ file' = IF db.tx THEN file ELSE file \cup {writes'}
  <2>1. writes' \in Schema \cup Writes /\ Effect(writes')
    BY <1>1 DEF Write
  <2> DEFINE w == writes'
  <2>2. w \in Schema \cup Writes /\ Effect(w)
    BY <2>1
  <2> HIDE DEF w
  <2>3. /\ db' \in Db /\ file' \in Content
        /\ db'.state = db.state /\ db'.tx = db.tx
        /\ db'.view = IF db.tx THEN db.view \cup {w} ELSE db.view
        /\ file' = IF db.tx THEN file ELSE file \cup {w}
    BY <2>2, EffectDb
  <2> QED BY <2>3 DEF w
<1>3. /\ scope' \in [begun : BOOLEAN, pend : SUBSET Writes]
      /\ scope'.begun = scope.begun
      /\ scope'.pend = IF scope.begun THEN scope.pend \cup {writes'}
                                       ELSE scope.pend
      /\ acked' = IF scope.begun THEN acked ELSE acked \cup {writes'}
  BY <1>1 DEF Write, TypeOK
<1>4. TypeOK'
  BY <1>1, <1>2, <1>3 DEF TypeOK, Db, Writes
<1>5. EntryInv' /\ InitInv' /\ WholeInv'
  BY <1>1, <1>2, <1>3 DEF TypeOK, EntryInv, InitInv, WholeInv, WholeIn
<1>6. NumberInv'
  BY <1>1, <1>2, <1>3 DEF TypeOK, NumberInv, Writes
<1>7. ~flags'.commit => ScopeInv'
  <2> SUFFICES ASSUME ~flags.commit PROVE ScopeInv'
    BY <1>1
  <2>1. writes' > writes
    BY <1>1 DEF TypeOK
  <2>2. writes' \notin file /\ writes' \notin gone
    BY <1>1, <2>1 DEF NumberInv
  <2> QED BY <1>1, <1>2, <1>3, <2>2 DEF TypeOK, ScopeInv, Ready
<1> QED BY <1>4, <1>5, <1>6, <1>7

----------------------------------------------------------------------------
(* The theorems. *)

LEMMA Initially == Init => IInv
<1> SUFFICES ASSUME Init PROVE IInv
  OBVIOUS
<1> USE SqliteAssumption DEF SqliteAssumption
<1>1. /\ objects \in 0 .. MaxObjects /\ writes \in Rev + 1 .. Rev + 1 + MaxWrites
      /\ flags \in Flags /\ file \in Content
  BY DEF Init, Flags, Content
<1>2. TypeOK
  BY <1>1, StartTyped DEF Init, TypeOK, Db
<1>3. EntryInv /\ InitInv /\ WholeInv /\ NumberInv /\ ScopeInv
  BY DEF Init, EntryInv, InitInv, WholeInv, WholeIn, NumberInv, ScopeInv,
         Ready,
         NoDB, NoInit, NoScope
<1> QED BY <1>2, <1>3 DEF IInv

LEMMA Inductive == IInv /\ [Next]_vars => IInv'
<1> SUFFICES ASSUME IInv, [Next]_vars PROVE IInv'
  OBVIOUS
<1>1. CASE UNCHANGED vars
  BY <1>1 DEF vars, IInv, TypeOK, EntryInv, InitInv, WholeInv, WholeIn,
              NumberInv, ScopeInv, Ready
<1>2. CASE Restart
  BY <1>2, RestartKeeps
<1>3. CASE Mgr
  BY <1>3, InitOpenKeeps, InitJsonKeeps, InitCreateKeeps, InitEndKeeps,
     CloseKeeps DEF Mgr
<1>4. CASE Program
  BY <1>4, TxNewKeeps, TxBeginKeeps, TxCommitKeeps, TxRollBackKeeps, TxEndKeeps,
     WriteKeeps DEF Program
<1> QED BY <1>1, <1>2, <1>3, <1>4 DEF Next

THEOREM Invariance == Spec => []IInv
BY Initially, Inductive, PTL DEF Spec

\* The state of the wrapper keeps its types: InitDB never runs a statement
\* beyond the last of the schema.
THEOREM TypeCorrect == Spec => []TypeOK
<1>1. IInv => TypeOK
  BY DEF IInv
<1> QED BY Invariance, <1>1, PTL

\* However many queries the JSON has, and wherever the process ends, the file has
\* all of the schema that could be run or none of it, unless InitDB threw.
THEOREM SchemaIsWhole == Spec => []SchemaWhole
<1>1. IInv => SchemaWhole
  BY DEF IInv, WholeInv, WholeIn, SchemaWhole
<1> QED BY Invariance, <1>1, PTL

\* For any nesting of any number of transaction objects: unless a COMMIT failed,
\* the file has of the writes what was settled, and nothing else.
THEOREM ScopesAreKept == Spec => []ScopesKept
<1>1. IInv => ScopesKept
  BY DEF IInv, ScopeInv, ScopesKept
<1> QED BY Invariance, <1>1, PTL

----------------------------------------------------------------------------
(* What is in the file stays, whatever fails. *)

\* An open transaction sees all of the file.
GrowInv == db.tx => file \subseteq db.view

LEMMA GrowStep ==
    ASSUME TypeOK, GrowInv, [Next]_vars
    PROVE  GrowInv' /\ file \subseteq file'
<1> USE DEF GrowInv
<1>1. CASE UNCHANGED <<db, file>>
  BY <1>1
<1>2. CASE Restart \/ InitOpen \/ Close
  BY <1>2 DEF Restart, InitOpen, Close, NoDB
<1>3. CASE InitEnd \/ TxCommit \/ TxEnd
  BY <1>3, CommitDb DEF InitEnd, TxCommit, TxEnd, Kept, Committed
<1>4. CASE TxNew \/ TxBegin
  BY <1>4, BeginDb DEF TxNew, TxBegin
<1>5. CASE InitJson
  BY <1>1, <1>5, BeginDb DEF InitJson
<1>6. CASE TxRollBack
  BY <1>6, RollBackDb DEF TxRollBack
<1>7. ASSUME NEW i, Effect(i) PROVE GrowInv' /\ file \subseteq file'
  BY <1>7 DEF Effect, TypeOK
<1>8. CASE InitCreate \/ Write
  BY <1>1, <1>7, <1>8 DEF InitCreate, Write
<1>9. CASE UNCHANGED vars
  BY <1>1, <1>9 DEF vars
<1> QED BY <1>2, <1>3, <1>4, <1>5, <1>6, <1>8, <1>9 DEF Next, Mgr, Program

\* Whatever is rolled back, not committed, closed or ended in the middle, nothing
\* that was in the file is lost, not even when a COMMIT failed before.
THEOREM FileOnlyGrows == Spec => [][file \subseteq file']_vars
<1>1. Init => GrowInv
  BY DEF Init, GrowInv, NoDB
<1>2. TypeOK /\ GrowInv /\ [Next]_vars => GrowInv' /\ [file \subseteq file']_vars
  BY GrowStep
<1> QED BY TypeCorrect, <1>1, <1>2, PTL DEF Spec
=============================================================================
