------------------------------- MODULE HistoryDb ----------------------------
(***************************************************************************)
(* The audit history (backend/db.py): one SQLite connection per process,   *)
(* opened and migrated by the first request that needs it and shared by    *)
(* all request threads under one lock.  Any statement may fail, and the    *)
(* process may die and be started again between any two steps.             *)
(*                                                                         *)
(* SQLite itself is taken at its word: outside a transaction a statement   *)
(* is durable at once, a transaction is durable as a whole when committed, *)
(* and is gone when rolled back or when the process dies.  What is on disk *)
(* and what the connection sees are [version, pending, rows]: the number   *)
(* in schema_version, how many statements of the next migration are        *)
(* applied, and the requests whose row is in the table.                    *)
(***************************************************************************)
EXTENDS Integers, Sequences, FiniteSets

CONSTANTS
  Writers,     \* requests that record themselves (_persist_history)
  Readers,     \* requests for the history
  Resetters,   \* callers of reset_connection, which only tests call
  Migrations,  \* Migrations[v]: the number of statements of migration v
  MaxFaults,   \* bound on failing statements
  MaxCrashes,  \* bound on crashes
  Nobody       \* the holder of a free lock

Threads == Writers \cup Readers \cup Resetters

ASSUME HistoryAssumption ==
  /\ Writers \cap Readers = {} /\ Writers \cap Resetters = {} /\ Readers \cap Resetters = {}
  /\ Nobody \notin Threads
  /\ Migrations \in Seq(Nat \ {0}) /\ Migrations # <<>>
  /\ MaxFaults \in Nat /\ MaxCrashes \in Nat

VARIABLES
  disk,      \* the database file
  work,      \* the database as the connection sees it
  conn,      \* _connection: 0, or which connection of all that were opened
  opened,    \* how many connections were opened
  lock,      \* who holds _lock
  pc,        \* where each thread stands
  handle,    \* the connection get_connection has returned to a thread
  seen,      \* the rows a reader was given
  faults,    \* statements that failed so far
  crashes    \* crashes so far

vars == <<disk, work, conn, opened, lock, pc, handle, seen, faults, crashes>>

NoDb == [version |-> 0, pending |-> 0, rows |-> {}]

Init ==
  /\ disk = NoDb /\ work = NoDb
  /\ conn = 0 /\ opened = 0
  /\ lock = Nobody
  /\ pc = [t \in Threads |-> "start"]
  /\ handle = [t \in Threads |-> 0]
  /\ seen = [r \in Readers |-> {}]
  /\ faults = 0 /\ crashes = 0

At(t, place) == pc[t] = place
GoTo(t, place) == pc' = [pc EXCEPT ![t] = place]

\* A request is over: served, failed, or lost in a crash.
Ends == {"done", "failed", "lost"}

-----------------------------------------------------------------------------
(* get_connection and _migrate                                             *)

Latest == Len(Migrations)

\* A connection that is there is taken as it is.
Reuse(t) ==
  /\ At(t, "start") /\ t \notin Resetters
  /\ lock = Nobody
  /\ conn # 0
  /\ handle' = [handle EXCEPT ![t] = conn]
  /\ GoTo(t, "use")
  /\ UNCHANGED <<disk, work, conn, opened, lock, seen, faults, crashes>>

\* Otherwise one is opened, kept, and then migrated, under the lock.
Open(t) ==
  /\ At(t, "start") /\ t \notin Resetters
  /\ lock = Nobody
  /\ conn = 0
  /\ lock' = t
  /\ opened' = opened + 1
  /\ conn' = opened'
  /\ GoTo(t, "migrate")
  /\ UNCHANGED <<disk, work, handle, seen, faults, crashes>>

\* A slip: without BEGIN every statement that creates something is final.
StatementAutocommitted(t) ==
  /\ At(t, "migrate")
  /\ work.version < Latest
  /\ work.pending < Migrations[work.version + 1]
  /\ work' = [work EXCEPT !.pending = @ + 1]
  /\ disk' = work'
  /\ UNCHANGED <<conn, opened, lock, pc, handle, seen, faults, crashes>>

\* The next statement of the pending migration, in its transaction.
Statement(t) ==
  /\ At(t, "migrate")
  /\ work.version < Latest
  /\ work.pending < Migrations[work.version + 1]
  /\ work' = [work EXCEPT !.pending = @ + 1]
  /\ UNCHANGED <<disk, conn, opened, lock, pc, handle, seen, faults, crashes>>

\* A slip: the version becomes that of the code, not of the migration.
CommitAsLatest(t) ==
  /\ At(t, "migrate")
  /\ work.version < Latest
  /\ work.pending = Migrations[work.version + 1]
  /\ work' = [work EXCEPT !.version = Latest, !.pending = 0]
  /\ disk' = work'
  /\ UNCHANGED <<conn, opened, lock, pc, handle, seen, faults, crashes>>

\* All of its statements are applied: the version is raised and all is committed.
CommitMigration(t) ==
  /\ At(t, "migrate")
  /\ work.version < Latest
  /\ work.pending = Migrations[work.version + 1]
  /\ work' = [work EXCEPT !.version = @ + 1, !.pending = 0]
  /\ disk' = work'
  /\ UNCHANGED <<conn, opened, lock, pc, handle, seen, faults, crashes>>

\* A slip: the lock is still held when it is taken for the second time.
MigratedInLock(t) ==
  /\ At(t, "migrate")
  /\ work.version = Latest
  /\ handle' = [handle EXCEPT ![t] = conn]
  /\ GoTo(t, "use")
  /\ UNCHANGED <<disk, work, conn, opened, lock, seen, faults, crashes>>

\* Nothing is pending any more: get_connection returns.
Migrated(t) ==
  /\ At(t, "migrate")
  /\ work.version = Latest
  /\ lock' = Nobody
  /\ handle' = [handle EXCEPT ![t] = conn]
  /\ GoTo(t, "use")
  /\ UNCHANGED <<disk, work, conn, opened, seen, faults, crashes>>

-----------------------------------------------------------------------------
(* _cursor, record_history, list_history and get_history_item              *)

\* The lock is taken a second time.  In between the connection may have been
\* closed, which the first use of it notices.
Enter(t, place) ==
  /\ At(t, "use")
  /\ lock = Nobody
  /\ IF handle[t] = conn THEN lock' = t /\ GoTo(t, place)
                         ELSE GoTo(t, "failed") /\ UNCHANGED lock
  /\ UNCHANGED <<disk, work, conn, opened, handle, seen, faults, crashes>>

\* A slip: connections are safe for threads, so why lock them.
UseUnlocked(w) ==
  /\ At(w, "use")
  /\ GoTo(w, IF handle[w] = conn THEN "insert" ELSE "failed")
  /\ UNCHANGED <<disk, work, conn, opened, lock, handle, seen, faults, crashes>>

UseToWrite(w) == Enter(w, "insert")
UseToRead(r) == Enter(r, "read")

\* The first statement of the first migration makes the table.
HasTable == work.version + work.pending > 0

\* The row is inserted in a transaction, or there is no table for it.
Insert(w) ==
  /\ At(w, "insert")
  /\ IF HasTable
       THEN /\ work' = [work EXCEPT !.rows = @ \cup {w}]
            /\ GoTo(w, "commit") /\ UNCHANGED lock
       ELSE GoTo(w, "failed") /\ lock' = Nobody /\ UNCHANGED work
  /\ UNCHANGED <<disk, conn, opened, handle, seen, faults, crashes>>

\* Only then is the request recorded.
Commit(w) ==
  /\ At(w, "commit")
  /\ disk' = work
  /\ lock' = Nobody
  /\ GoTo(w, "done")
  /\ UNCHANGED <<work, conn, opened, handle, seen, faults, crashes>>

\* A slip: reading is harmless without the lock.
ReadUnlocked(r) ==
  /\ pc[r] \in {"use", "read"}
  /\ seen' = [seen EXCEPT ![r] = work.rows]
  /\ GoTo(r, "done")
  /\ lock' = IF lock = r THEN Nobody ELSE lock
  /\ UNCHANGED <<disk, work, conn, opened, handle, faults, crashes>>

\* What is there when the lock is held is returned.
Read(r) ==
  /\ At(r, "read")
  /\ IF HasTable THEN seen' = [seen EXCEPT ![r] = work.rows] /\ GoTo(r, "done")
                 ELSE GoTo(r, "failed") /\ UNCHANGED seen
  /\ lock' = Nobody
  /\ UNCHANGED <<disk, work, conn, opened, handle, faults, crashes>>

Reset(t) ==
  /\ At(t, "start") /\ t \in Resetters
  /\ lock = Nobody
  /\ conn' = 0
  /\ GoTo(t, "done")
  /\ UNCHANGED <<disk, work, opened, lock, handle, seen, faults, crashes>>

-----------------------------------------------------------------------------
(* Failures                                                                *)

\* A slip: what has been inserted stays in the open transaction.
KeptOpen == work

\* conn.rollback()
RolledBack == disk

\* A statement or a commit fails: the transaction is rolled back, the lock is
\* released and the exception passed on.  _persist_history swallows it, and the
\* request is answered without a record.  The connection is kept.
Fail(t) ==
  /\ faults < MaxFaults
  /\ pc[t] \in {"migrate", "insert", "commit", "read"}
  /\ faults' = faults + 1
  /\ work' = RolledBack
  /\ lock' = Nobody
  /\ GoTo(t, "failed")
  /\ UNCHANGED <<disk, conn, opened, handle, seen, crashes>>

\* sqlite3.connect fails: there is no connection to keep.
OpenFails(t) ==
  /\ faults < MaxFaults
  /\ At(t, "start") /\ t \notin Resetters
  /\ lock = Nobody /\ conn = 0
  /\ faults' = faults + 1
  /\ GoTo(t, "failed")
  /\ UNCHANGED <<disk, work, conn, opened, lock, handle, seen, crashes>>

\* The process dies and is started again: the file is all that is left, and the
\* requests under way are lost.
Crash ==
  /\ crashes < MaxCrashes
  /\ crashes' = crashes + 1
  /\ work' = disk
  /\ conn' = 0
  /\ lock' = Nobody
  /\ pc' = [t \in Threads |-> IF pc[t] \in Ends \cup {"start"} THEN pc[t] ELSE "lost"]
  /\ UNCHANGED <<disk, opened, handle, seen, faults>>

GetConnection(t) == Reuse(t) \/ Open(t) \/ Statement(t) \/ CommitMigration(t)
                      \/ Migrated(t) \/ Fail(t) \/ OpenFails(t)
Record(w) == UseToWrite(w) \/ Insert(w) \/ Commit(w)
List(r) == UseToRead(r) \/ Read(r)

Step(t) == \/ GetConnection(t) \/ Reset(t)
           \/ t \in Writers /\ Record(t)
           \/ t \in Readers /\ List(t)

Next == Crash \/ \E t \in Threads : Step(t)

\* Threads are scheduled; nothing has to fail or to crash.
Spec == Init /\ [][Next]_vars /\ \A t \in Threads : WF_vars(Step(t))

-----------------------------------------------------------------------------
Busy == {"migrate", "insert", "commit", "read"}

Db == [version : 0 .. Latest, pending : Nat, rows : SUBSET Writers]

TypeOK ==
  /\ disk \in Db /\ work \in Db
  /\ work.version < Latest => work.pending <= Migrations[work.version + 1]
  /\ opened \in Nat /\ conn \in {0, opened}
  /\ lock \in Threads \cup {Nobody}
  /\ pc \in [Threads -> {"start", "use"} \cup Busy \cup Ends]
  /\ \A t \in Threads : pc[t] \in Busy <=> lock = t
  /\ handle \in [Threads -> Nat]
  /\ seen \in [Readers -> SUBSET Writers]
  /\ faults \in 0 .. MaxFaults /\ crashes \in 0 .. MaxCrashes

\* A crash or a failure never leaves half a migration behind: the file holds all
\* statements of the migrations its version counts, and none of any other.
MigrationsAtomic == disk.pending = 0

\* A request that was told it is recorded is, and stays so; one that was told it
\* is not has left no row, whatever the other threads commit or roll back.
RecordedIsDurable ==
  \A w \in Writers : /\ pc[w] = "done" => w \in disk.rows
                     /\ pc[w] = "failed" => w \notin disk.rows

\* Nobody is shown a row that is then rolled back.
ReadsAreCommitted == \A r \in Readers : seen[r] \subseteq disk.rows

\* The database only moves forward: no version is applied twice and no row lost,
\* over failures and restarts.
HistoryGrows == [][/\ disk'.version \in {disk.version, disk.version + 1}
                   /\ disk.rows \subseteq disk'.rows
                   /\ disk'.rows # disk.rows => disk'.version = disk.version]_vars

\* Every request ends: whatever fails, the lock is released.
EveryRequestEnds == \A t \in Threads : <>(pc[t] \in Ends)

\* The connection is migrated on first use (db.py:119): whoever has got it finds
\* the schema in place.
MigratedBeforeUse == \A t \in Threads : pc[t] \in {"insert", "read"} => work.version = Latest
=============================================================================
