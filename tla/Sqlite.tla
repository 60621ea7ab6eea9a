------------------------------- MODULE Sqlite -------------------------------
(***************************************************************************)
(* The SQLite wrapper (Sqlite/SharedSQLite.cpp): cSQLiteMgr::InitDB and    *)
(* Close for one database, and cDBTransaction.  One thread uses them; the  *)
(* process may end at any step and start again.                            *)
(*                                                                         *)
(* What a database holds is the set of the statements that took effect:    *)
(* those of InitDB, numbered in their order, then the program's writes.    *)
(* SQLite itself is external: a statement outside a transaction takes      *)
(* effect in the file at once, one inside when the transaction commits.    *)
(* A closed connection that is used is undefined behaviour: the process    *)
(* ends then, which it may do at any step.                                 *)
(***************************************************************************)
EXTENDS Integers

CONSTANTS Rev,        \* queries of "Create" in the JSON file
          MaxWrites,  \* bound on the program's writes
          MaxObjects  \* bound on the cDBTransaction objects alive at once

ASSUME SqliteAssumption ==
    Rev \in Nat /\ MaxWrites \in Nat /\ MaxObjects \in Nat

\* TBL_DEFAULT, the queries 1 .. Rev, and the row with the revision.
Schema == 0 .. Rev + 1
Writes == Rev + 2 .. Rev + 1 + MaxWrites

\* The PRAGMA that is prepared before the schema.
Pragma == -1

VARIABLES
    made,     \* the file exists
    file,     \* what is in the file
    entry,    \* _mapNameToInfo has the database
    db,       \* its connection: state, open transaction, what it sees
    init,     \* InitDB: where it is, isExist, the next statement of the schema,
              \* and the one that was prepared last
    objects,  \* how many cDBTransaction objects are alive
    writes,   \* the number of the last write
    scope,    \* history: writes since the last Begin, not yet settled
    acked,    \* history: writes that the program may count on
    gone,     \* history: writes that the program rolled back
    flags     \* history: what went wrong so far

vars == <<made, file, entry, db, init, objects, writes, scope, acked, gone,
          flags>>

Content == SUBSET (Schema \cup Writes)

Inits == [pc : {"idle", "json", "create", "end"}, isExist : BOOLEAN,
          next : 0 .. Rev + 2, last : {Pragma} \cup Schema]

\* skipped: statements of InitDB that could not be prepared or run.
Flags == [threw : BOOLEAN, skipped : SUBSET Schema, commit : BOOLEAN]

TypeOK ==
    /\ made \in BOOLEAN
    /\ file \in Content
    /\ entry \in BOOLEAN
    /\ db \in [state : {"none", "open", "closed"}, tx : BOOLEAN, view : Content]
    /\ init \in Inits
    /\ objects \in 0 .. MaxObjects
    /\ writes \in Rev + 1 .. Rev + 1 + MaxWrites
    /\ scope \in [begun : BOOLEAN, pend : SUBSET Writes]
    /\ acked \subseteq Writes /\ gone \subseteq Writes
    /\ flags \in Flags

NoDB    == [state |-> "none", tx |-> FALSE, view |-> {}]
NoInit  == [pc |-> "idle", isExist |-> FALSE, next |-> 0, last |-> Pragma]
NoScope == [begun |-> FALSE, pend |-> {}]

Init ==
    /\ made = FALSE /\ file = {}
    /\ entry = FALSE /\ db = NoDB /\ init = NoInit
    /\ objects = 0
    /\ writes = Rev + 1
    /\ scope = NoScope /\ acked = {} /\ gone = {}
    /\ flags = [threw |-> FALSE, skipped |-> {}, commit |-> FALSE]

----------------------------------------------------------------------------
(* SQLite: external. *)

\* The process ends and is started again; the file is as the last commit left
\* it, and writes not yet settled are nobody's to count on.
Restart ==
    /\ entry' = FALSE /\ db' = NoDB /\ init' = NoInit
    /\ objects' = 0
    /\ scope' = NoScope
    /\ UNCHANGED <<made, file, writes, acked, gone, flags>>

\* What the connection sees, and the effect of one more statement.
Seen == IF db.tx THEN db.view ELSE file
Effect(i) == IF db.tx
             THEN db' = [db EXCEPT !.view = @ \cup {i}] /\ UNCHANGED file
             ELSE file' = file \cup {i} /\ UNCHANGED db

SqlBegin == db' = IF db.tx THEN db ELSE [db EXCEPT !.tx = TRUE, !.view = file]

\* COMMIT fails without a transaction.  It may fail with one, on a lock of
\* another process, and leave it open.
SqlCommit ==
    \/ ~db.tx /\ UNCHANGED <<file, db, flags>>
    \/ /\ db.tx
       /\ file' = db.view
       /\ db' = [db EXCEPT !.tx = FALSE, !.view = {}]
       /\ UNCHANGED flags
    \/ /\ db.tx
       /\ flags' = [flags EXCEPT !.commit = TRUE]
       /\ UNCHANGED <<file, db>>

SqlRollBack == db' = [db EXCEPT !.tx = FALSE, !.view = {}]

----------------------------------------------------------------------------
(* cSQLiteMgr. *)

InitFrame == UNCHANGED <<made, entry, objects, writes, scope, acked, gone>>

\* The file is looked for before it is opened, and opening makes it; the map
\* has the database from here on, whatever follows.
InitOpen ==
    /\ init.pc = "idle"
    /\ ~entry
    /\ made' = TRUE
    /\ entry' = TRUE
    /\ db' = [NoDB EXCEPT !.state = "open"]
    /\ init' = [NoInit EXCEPT !.pc = "json", !.isExist = made]
    /\ UNCHANGED <<file, objects, writes, scope, acked, gone, flags>>

\* Mutant: the tables are made without a transaction.
MutInitWithoutBegin ==
    /\ init.pc = "json"
    /\ ~init.isExist
    /\ init' = [init EXCEPT !.pc = "create"]
    /\ UNCHANGED <<db, file, flags>> /\ InitFrame

\* Without a JSON file, without its part for this database, or when reading it
\* throws, InitDB ends; so it does when the file was there.
InitJson ==
    /\ init.pc = "json"
    /\ \/ init' = NoInit /\ UNCHANGED db
       \/ /\ ~init.isExist
          /\ init' = [init EXCEPT !.pc = "create"]
          /\ SqlBegin
    /\ UNCHANGED <<file, flags>> /\ InitFrame

\* Mutant: the loop over the queries runs once more than there are.
MutOneQueryMore ==
    /\ init.pc = "create"
    /\ LET k == init.next IN
       /\ Effect(k)
       /\ init' = [init EXCEPT !.pc = IF k = Rev + 2 THEN "end" ELSE "create",
                               !.next = k + 1]
       /\ UNCHANGED flags
    /\ InitFrame

\* One cStmt serves all the statements, and no result is looked at.  One that is
\* prepared takes effect or fails.  One that cannot be prepared leaves the
\* statement before, which is run once more: it may now take effect, when it did
\* not before.  A query that is missing in the JSON throws, and the transaction
\* object is destroyed on the way out.
InitCreate ==
    /\ init.pc = "create"
    /\ LET k == init.next
           next == [init EXCEPT !.pc = IF k = Rev + 1 THEN "end" ELSE "create",
                                !.next = k + 1] IN
       \/ /\ init' = [next EXCEPT !.last = k]
          /\ Effect(k)
          /\ UNCHANGED flags
       \/ /\ init' \in {next, [next EXCEPT !.last = k]}
          /\ flags' = [flags EXCEPT !.skipped = @ \cup {k}]
          /\ UNCHANGED <<db, file>>
       \/ /\ init.last # Pragma
          /\ init' = next
          /\ Effect(init.last)
          /\ flags' = [flags EXCEPT !.skipped = (@ \ {init.last}) \cup {k}]
       \/ /\ k \in 1 .. Rev
          /\ init' = [init EXCEPT !.pc = "end"]
          /\ flags' = [flags EXCEPT !.threw = TRUE]
          /\ UNCHANGED <<db, file>>
    /\ InitFrame

\* ~cDBTransaction
InitEnd ==
    /\ init.pc = "end"
    /\ SqlCommit
    /\ init' = NoInit
    /\ InitFrame

\* The program is in no call, and the database can be used.
Ready == init.pc = "idle" /\ entry /\ db.state = "open"

\* A transaction that is open is rolled back.  The map keeps the database, so
\* it is not opened again.  While a statement is left sqlite3_close refuses, and
\* nothing changes.
Close ==
    /\ Ready
    /\ db' = [NoDB EXCEPT !.state = "closed"]
    /\ scope' = NoScope
    /\ UNCHANGED <<made, file, entry, init, objects, writes, acked, gone,
                   flags>>

Mgr == InitOpen \/ InitJson \/ InitCreate \/ InitEnd \/ Close

----------------------------------------------------------------------------
(* The program: cDBTransaction, and statements that write. *)

TxFrame == UNCHANGED <<made, entry, init, writes>>

Settle == /\ acked' = acked \cup scope.pend
          /\ scope' = NoScope
          /\ UNCHANGED gone

\* The constructor, which begins whatever transaction is open already.
TxNew ==
    /\ Ready
    /\ objects < MaxObjects
    /\ objects' = objects + 1
    /\ SqlBegin
    /\ scope' = [scope EXCEPT !.begun = TRUE]
    /\ UNCHANGED <<file, acked, gone, flags>> /\ TxFrame

TxBegin ==
    /\ Ready
    /\ objects > 0
    /\ SqlBegin
    /\ scope' = [scope EXCEPT !.begun = TRUE]
    /\ UNCHANGED <<objects, file, acked, gone, flags>> /\ TxFrame

TxCommit ==
    /\ Ready
    /\ objects > 0
    /\ SqlCommit
    /\ Settle
    /\ UNCHANGED objects /\ TxFrame

TxRollBack ==
    /\ Ready
    /\ objects > 0
    /\ SqlRollBack
    /\ scope' = NoScope
    /\ gone' = gone \cup scope.pend
    /\ UNCHANGED <<objects, file, acked, flags>> /\ TxFrame

\* Mutant: the destructor rolls back what was not committed.
MutEndRollsBack ==
    /\ Ready
    /\ objects > 0
    /\ objects' = objects - 1
    /\ SqlRollBack
    /\ Settle
    /\ UNCHANGED <<file, flags>> /\ TxFrame

\* The destructor commits, and drops what COMMIT says.
TxEnd ==
    /\ Ready
    /\ objects > 0
    /\ objects' = objects - 1
    /\ SqlCommit
    /\ Settle
    /\ TxFrame

\* PrepareSQL and ExecuteSQL of a write, with success.
Write ==
    /\ Ready
    /\ writes < Rev + 1 + MaxWrites
    /\ writes' = writes + 1
    /\ Effect(writes')
    /\ IF scope.begun
       THEN scope' = [scope EXCEPT !.pend = @ \cup {writes'}] /\ UNCHANGED acked
       ELSE acked' = acked \cup {writes'} /\ UNCHANGED scope
    /\ UNCHANGED <<made, entry, init, objects, gone, flags>>

Program == TxNew \/ TxBegin \/ TxCommit \/ TxRollBack \/ TxEnd \/ Write

----------------------------------------------------------------------------
Next == Restart \/ Mgr \/ Program

Spec == Init /\ [][Next]_vars

----------------------------------------------------------------------------
(* Properties. *)

\* Wherever the process ends, the file holds all of the schema that could be run
\* or none of it: InitDB makes it in one transaction.  Only an exception on the
\* way leaves a part, which the destructor commits.
SchemaWhole ==
    \/ file \cap Schema = {}
    \/ Schema \ flags.skipped \subseteq file
    \/ flags.threw

\* Unless a COMMIT failed, the file has exactly the writes made outside a
\* transaction and those that any object's Commit or destructor ended, and what
\* was rolled back does not come back, wherever the process ends.  Objects on one
\* connection share its one transaction: the first that ends settles what all of
\* them wrote.
ScopesKept ==
    ~flags.commit => file \cap Writes = acked /\ gone \cap file = {}
=============================================================================
