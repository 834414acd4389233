--------------------------- MODULE HistoryDb_proofs -------------------------
(***************************************************************************)
(* Proofs about HistoryDb, for any number of requests, migrations,         *)
(* failures and crashes: what is on disk is whole, it is what the requests *)
(* have been told, and it only grows.                                      *)
(***************************************************************************)
EXTENDS HistoryDb, TLAPS

\* What the connection sees beyond what is on disk is the work of the thread that
\* holds the lock: statements of a migration, or its own row.
TxnInv ==
  /\ disk.pending = 0
  /\ work.version = disk.version
  /\ work.version = Latest => work.pending = 0
  /\ lock = Nobody => work = disk
  /\ \A t \in Threads :
       /\ pc[t] = "migrate" => work.rows = disk.rows
       /\ pc[t] \in {"insert", "read"} => work = disk
       /\ pc[t] = "commit" => work.pending = 0 /\ work.rows = disk.rows \cup {t}
       /\ pc[t] \in {"insert", "commit"} => t \in Writers
       /\ pc[t] = "read" => t \in Readers

\* The rows on disk are those of the requests that were told so.
RowsInv ==
  /\ \A w \in Writers : pc[w] = "done" <=> w \in disk.rows
  /\ \A r \in Readers : seen[r] \subseteq disk.rows

IInv == TypeOK /\ TxnInv /\ RowsInv

LEMMA LatestType == Latest \in Nat \ {0} /\ \A v \in 1 .. Latest : Migrations[v] \in Nat \ {0}
  BY HistoryAssumption DEF Latest

\* What the types say about the database, in numbers.
LEMMA DbTypes ==
  ASSUME NEW db \in Db
  PROVE  /\ db.version \in Nat /\ db.version <= Latest /\ db.pending \in Nat
         /\ db.rows \subseteq Writers
         /\ db = [version |-> db.version, pending |-> db.pending, rows |-> db.rows]
         /\ db.version < Latest => Migrations[db.version + 1] \in Nat
<1>1. /\ db.version \in 0 .. Latest /\ db.pending \in Nat /\ db.rows \subseteq Writers
      /\ db = [version |-> db.version, pending |-> db.pending, rows |-> db.rows]
  BY DEF Db
<1>2. db.version < Latest => db.version + 1 \in 1 .. Latest
  BY <1>1, LatestType
<1> QED BY <1>1, <1>2, LatestType

LEMMA InitInv == Init => IInv
  BY HistoryAssumption, LatestType
  DEF Init, IInv, TypeOK, TxnInv, RowsInv, NoDb, Db, Busy, Ends, Threads

-----------------------------------------------------------------------------
(* The steps                                                               *)

\* Taking the connection changes nothing in the database.
LEMMA ReuseInv ==
  ASSUME IInv, NEW t \in Threads, Reuse(t)
  PROVE  IInv'
<1> USE HistoryAssumption DEF Reuse, At, GoTo, IInv, TypeOK, Threads, Busy, Ends, Db
<1>1. TypeOK'
  BY DEF TxnInv
<1>2. TxnInv'
  BY DEF TxnInv
<1>3. RowsInv'
  BY DEF TxnInv, RowsInv
<1> QED BY <1>1, <1>2, <1>3

\* Nor does opening one.
LEMMA OpenInv ==
  ASSUME IInv, NEW t \in Threads, Open(t)
  PROVE  IInv'
<1> USE HistoryAssumption DEF Open, At, GoTo, IInv, TypeOK, Threads, Busy, Ends, Db
<1>1. TypeOK'
  BY DEF TxnInv
<1>2. TxnInv'
  BY DEF TxnInv
<1>3. RowsInv'
  BY DEF TxnInv, RowsInv
<1> QED BY <1>1, <1>2, <1>3

\* A statement of a migration is the lock holder's alone.
LEMMA StatementInv ==
  ASSUME IInv, NEW t \in Threads, Statement(t)
  PROVE  IInv'
<1>1. /\ work.version < Latest /\ work.pending < Migrations[work.version + 1]
      /\ work' = [work EXCEPT !.pending = @ + 1]
      /\ pc[t] = "migrate" /\ lock = t
      /\ UNCHANGED <<disk, conn, opened, lock, pc, handle, seen, faults, crashes>>
  BY DEF Statement, At, IInv, TypeOK, Busy
<1>2. /\ work \in Db /\ work.version \in Nat /\ work.pending \in Nat
      /\ Migrations[work.version + 1] \in Nat
  BY <1>1, DbTypes DEF IInv, TypeOK
<1>3. /\ work' \in Db
      /\ work'.version = work.version /\ work'.pending = work.pending + 1
      /\ work'.rows = work.rows
  BY <1>1, <1>2 DEF Db
<1>4. TypeOK'
  BY <1>1, <1>2, <1>3 DEF IInv, TypeOK
<1>5. work'.version # Latest /\ \A u \in Threads : u # t => pc[u] \notin Busy
  BY <1>1, <1>2, <1>3, LatestType DEF IInv, TypeOK
<1>7. TxnInv'
  BY <1>1, <1>3, <1>5, HistoryAssumption DEF IInv, TxnInv, Busy
<1>6. RowsInv'
  BY <1>1 DEF IInv, RowsInv
<1> QED BY <1>4, <1>6, <1>7 DEF IInv

\* When a migration is committed, it is complete.
LEMMA CommitMigrationInv ==
  ASSUME IInv, NEW t \in Threads, CommitMigration(t)
  PROVE  IInv'
<1>1. /\ work.version < Latest
      /\ work' = [work EXCEPT !.version = @ + 1, !.pending = 0]
      /\ disk' = work'
      /\ pc[t] = "migrate" /\ lock = t
      /\ UNCHANGED <<conn, opened, lock, pc, handle, seen, faults, crashes>>
  BY DEF CommitMigration, At, IInv, TypeOK, Busy
<1>2. /\ work \in Db /\ work.version \in Nat /\ Latest \in Nat
  BY <1>1, DbTypes, LatestType DEF IInv, TypeOK
<1>3. /\ work' \in Db
      /\ work'.version = work.version + 1 /\ work'.pending = 0 /\ work'.rows = work.rows
  <2>1. work.version + 1 \in 0 .. Latest
    BY <1>1, <1>2
  <2>2. work' = [version |-> work.version + 1, pending |-> 0, rows |-> work.rows]
    BY <1>1, <1>2 DEF Db
  <2> QED BY <1>2, <2>1, <2>2 DEF Db
<1>4. work'.version < Latest => 0 <= Migrations[work'.version + 1]
  BY <1>3, DbTypes
<1>5. TypeOK'
  BY <1>1, <1>3, <1>4 DEF IInv, TypeOK
<1>6. work.rows = disk.rows
  BY <1>1 DEF IInv, TypeOK, TxnInv
<1>7. TxnInv'
  BY <1>1, <1>3, <1>6 DEF IInv, TypeOK, TxnInv, Busy, Threads
<1>8. RowsInv'
  BY <1>1, <1>3, <1>6 DEF IInv, RowsInv
<1> QED BY <1>5, <1>7, <1>8 DEF IInv

\* The lock is released when nothing is left to commit.
LEMMA MigratedInv ==
  ASSUME IInv, NEW t \in Threads, Migrated(t)
  PROVE  IInv'
<1>1. /\ work.version = Latest /\ pc[t] = "migrate" /\ lock = t /\ lock' = Nobody
      /\ handle' = [handle EXCEPT ![t] = conn]
      /\ pc' = [pc EXCEPT ![t] = "use"]
      /\ UNCHANGED <<disk, work, conn, opened, seen, faults, crashes>>
  BY DEF Migrated, At, GoTo, IInv, TypeOK, Busy
<1>2. work = disk
  BY <1>1, DbTypes DEF IInv, TypeOK, TxnInv
<1>3. TypeOK'
  BY <1>1, HistoryAssumption DEF IInv, TypeOK, Busy
<1>4. TxnInv'
  BY <1>1, <1>2 DEF IInv, TypeOK, TxnInv, Busy, Threads
<1>5. RowsInv'
  BY <1>1 DEF IInv, TypeOK, RowsInv, Threads
<1> QED BY <1>3, <1>4, <1>5 DEF IInv

\* Who takes the lock finds no transaction open.
LEMMA UseToWriteInv ==
  ASSUME IInv, NEW w \in Writers, UseToWrite(w)
  PROVE  IInv'
<1>1. /\ pc[w] = "use" /\ lock = Nobody /\ w \in Threads
      /\ \/ pc' = [pc EXCEPT ![w] = "insert"] /\ lock' = w
         \/ pc' = [pc EXCEPT ![w] = "failed"] /\ lock' = lock
      /\ UNCHANGED <<disk, work, conn, opened, handle, seen, faults, crashes>>
  BY DEF UseToWrite, Enter, At, GoTo, Threads
<1>2. TypeOK'
  BY <1>1, HistoryAssumption DEF IInv, TypeOK, Busy, Ends
<1>3. TxnInv'
  BY <1>1, HistoryAssumption DEF IInv, TypeOK, TxnInv, Busy, Threads
<1>4. RowsInv'
  BY <1>1 DEF IInv, TypeOK, RowsInv, Threads
<1> QED BY <1>2, <1>3, <1>4 DEF IInv

\* So do readers.
LEMMA UseToReadInv ==
  ASSUME IInv, NEW r \in Readers, UseToRead(r)
  PROVE  IInv'
<1>1. /\ pc[r] = "use" /\ lock = Nobody /\ r \in Threads
      /\ \/ pc' = [pc EXCEPT ![r] = "read"] /\ lock' = r
         \/ pc' = [pc EXCEPT ![r] = "failed"] /\ lock' = lock
      /\ UNCHANGED <<disk, work, conn, opened, handle, seen, faults, crashes>>
  BY DEF UseToRead, Enter, At, GoTo, Threads
<1>2. TypeOK'
  BY <1>1, HistoryAssumption DEF IInv, TypeOK, Busy, Ends
<1>3. TxnInv'
  BY <1>1, HistoryAssumption DEF IInv, TypeOK, TxnInv, Busy, Threads
<1>4. RowsInv'
  BY <1>1 DEF IInv, TypeOK, RowsInv, Threads
<1> QED BY <1>2, <1>3, <1>4 DEF IInv

\* The row inserted is the thread's own.
LEMMA InsertInv ==
  ASSUME IInv, NEW w \in Writers, Insert(w)
  PROVE  IInv'
<1>1. /\ pc[w] = "insert" /\ lock = w /\ w \in Threads /\ work = disk /\ disk \in Db
      /\ UNCHANGED <<disk, conn, opened, handle, seen, faults, crashes>>
  BY DEF Insert, At, IInv, TypeOK, TxnInv, Busy, Threads
<1>2. \/ /\ work' = [work EXCEPT !.rows = @ \cup {w}]
         /\ pc' = [pc EXCEPT ![w] = "commit"] /\ lock' = lock
      \/ pc' = [pc EXCEPT ![w] = "failed"] /\ lock' = Nobody /\ work' = work
  BY DEF Insert, GoTo
<1>3. /\ work' \in Db
      /\ work'.version = work.version /\ work'.pending = work.pending
      /\ pc'[w] = "commit" => work'.rows = work.rows \cup {w}
      /\ pc'[w] = "failed" => work' = work
  <2>1. pc \in [Threads -> {"start", "use"} \cup Busy \cup Ends]
    BY DEF IInv, TypeOK
  <2>2. CASE work' = [work EXCEPT !.rows = @ \cup {w}] /\ pc'[w] = "commit"
    BY <1>1, <2>2 DEF Db
  <2>3. CASE work' = work /\ pc'[w] = "failed"
    BY <1>1, <2>3
  <2> QED BY <1>1, <1>2, <2>1, <2>2, <2>3
<1>4. TypeOK'
  <2>1. \/ pc' = [pc EXCEPT ![w] = "commit"] /\ lock' = lock
        \/ pc' = [pc EXCEPT ![w] = "failed"] /\ lock' = Nobody
    BY <1>2
  <2>2. /\ lock' \in Threads \cup {Nobody}
        /\ pc' \in [Threads -> {"start", "use"} \cup Busy \cup Ends]
        /\ \A t \in Threads : pc'[t] \in Busy <=> lock' = t
    <3>1. /\ pc \in [Threads -> {"start", "use"} \cup Busy \cup Ends]
          /\ \A t \in Threads : pc[t] \in Busy <=> lock = t
          /\ Nobody \notin Threads
      BY HistoryAssumption DEF IInv, TypeOK
    <3>2. CASE pc' = [pc EXCEPT ![w] = "commit"] /\ lock' = lock
      BY <1>1, <3>1, <3>2 DEF Busy
    <3>3. CASE pc' = [pc EXCEPT ![w] = "failed"] /\ lock' = Nobody
      BY <1>1, <3>1, <3>3 DEF Busy, Ends
    <3> QED BY <2>1, <3>2, <3>3
  <2>3. work'.version < Latest => work'.pending <= Migrations[work'.version + 1]
    BY <1>3 DEF IInv, TypeOK
  <2>4. disk' \in Db /\ work' \in Db /\ disk' = disk
    BY <1>1, <1>3
  <2> QED BY <1>1, <2>2, <2>3, <2>4 DEF IInv, TypeOK
<1>5. TxnInv'
  BY <1>1, <1>2, <1>3, HistoryAssumption DEF IInv, TypeOK, TxnInv, Busy, Threads
<1>6. RowsInv'
  BY <1>1, <1>2 DEF IInv, TypeOK, RowsInv, Threads
<1> QED BY <1>4, <1>5, <1>6 DEF IInv

\* Committing puts that row on disk and nothing else.
LEMMA CommitInv ==
  ASSUME IInv, NEW w \in Writers, Commit(w)
  PROVE  IInv'
<1>1. /\ pc[w] = "commit" /\ lock = w /\ w \in Threads /\ lock' = Nobody
      /\ disk' = work /\ work.pending = 0 /\ work.rows = disk.rows \cup {w}
      /\ pc' = [pc EXCEPT ![w] = "done"]
      /\ UNCHANGED <<work, conn, opened, handle, seen, faults, crashes>>
  BY DEF Commit, At, GoTo, IInv, TypeOK, TxnInv, Busy, Threads
<1>2. TypeOK'
  BY <1>1, HistoryAssumption DEF IInv, TypeOK, Busy, Ends
<1>3. TxnInv'
  BY <1>1, HistoryAssumption DEF IInv, TypeOK, TxnInv, Busy, Threads
<1>4. RowsInv'
  BY <1>1 DEF IInv, TypeOK, RowsInv, Threads
<1> QED BY <1>2, <1>3, <1>4 DEF IInv

\* A reader is shown what is on disk.
LEMMA ReadInv ==
  ASSUME IInv, NEW r \in Readers, Read(r)
  PROVE  IInv'
<1>1. /\ pc[r] = "read" /\ lock = r /\ r \in Threads /\ lock' = Nobody /\ work = disk
      /\ r \notin Writers
      /\ UNCHANGED <<disk, work, conn, opened, handle, faults, crashes>>
  BY HistoryAssumption DEF Read, At, IInv, TypeOK, TxnInv, Busy, Threads
<1>2. \/ seen' = [seen EXCEPT ![r] = work.rows] /\ pc' = [pc EXCEPT ![r] = "done"]
      \/ seen' = seen /\ pc' = [pc EXCEPT ![r] = "failed"]
  BY DEF Read, GoTo
<1>3. work.rows \subseteq Writers
  BY DbTypes DEF IInv, TypeOK
<1>4. TypeOK'
  BY <1>1, <1>2, <1>3, HistoryAssumption DEF IInv, TypeOK, Busy, Ends
<1>5. TxnInv'
  BY <1>1, <1>2, HistoryAssumption DEF IInv, TypeOK, TxnInv, Busy, Threads
<1>6. RowsInv'
  BY <1>1, <1>2 DEF IInv, TypeOK, RowsInv, Threads
<1> QED BY <1>4, <1>5, <1>6 DEF IInv

\* Closing the connection loses nothing: no transaction is open.
LEMMA ResetInv ==
  ASSUME IInv, NEW t \in Threads, Reset(t)
  PROVE  IInv'
<1> USE HistoryAssumption DEF Reset, At, GoTo, IInv, TypeOK, Threads, Busy, Ends, Db
<1>1. TypeOK'
  BY DEF TxnInv
<1>2. TxnInv'
  BY DEF TxnInv
<1>3. RowsInv'
  BY DEF TxnInv, RowsInv
<1> QED BY <1>1, <1>2, <1>3

\* A failure takes back what was not committed.
LEMMA FailInv ==
  ASSUME IInv, NEW t \in Threads, Fail(t)
  PROVE  IInv'
<1>1. /\ pc[t] \in Busy /\ lock = t /\ lock' = Nobody
      /\ work' = disk /\ pc' = [pc EXCEPT ![t] = "failed"]
      /\ faults < MaxFaults /\ faults' = faults + 1
      /\ UNCHANGED <<disk, conn, opened, handle, seen, crashes>>
  BY DEF Fail, RolledBack, GoTo, IInv, TypeOK, Busy
<1>2. /\ work' \in Db /\ work'.version = work.version /\ work'.pending = 0
      /\ work'.version < Latest => 0 <= Migrations[work'.version + 1]
  BY <1>1, DbTypes DEF IInv, TypeOK, TxnInv
<1>3. TypeOK'
  BY <1>1, <1>2, HistoryAssumption DEF IInv, TypeOK, Busy, Ends
<1>4. TxnInv'
  BY <1>1, <1>2, HistoryAssumption DEF IInv, TypeOK, TxnInv, Busy, Threads
<1>5. RowsInv'
  BY <1>1, HistoryAssumption DEF IInv, TypeOK, TxnInv, RowsInv, Busy, Threads
<1> QED BY <1>3, <1>4, <1>5 DEF IInv

\* Where nothing was opened nothing is taken back.
LEMMA OpenFailsInv ==
  ASSUME IInv, NEW t \in Threads, OpenFails(t)
  PROVE  IInv'
<1> USE HistoryAssumption DEF OpenFails, At, GoTo, IInv, TypeOK, Threads, Busy, Ends, Db
<1>1. TypeOK'
  BY DEF TxnInv
<1>2. TxnInv'
  BY DEF TxnInv
<1>3. RowsInv'
  BY DEF TxnInv, RowsInv
<1> QED BY <1>1, <1>2, <1>3

\* A crash takes back what was not committed, of everyone.
LEMMA CrashInv ==
  ASSUME IInv, Crash
  PROVE  IInv'
<1>1. /\ lock' = Nobody /\ conn' = 0 /\ work' = disk
      /\ pc' = [t \in Threads |-> IF pc[t] \in Ends \cup {"start"} THEN pc[t] ELSE "lost"]
      /\ crashes < MaxCrashes /\ crashes' = crashes + 1
      /\ UNCHANGED <<disk, opened, handle, seen, faults>>
  BY DEF Crash
<1>2. \A t \in Threads : pc'[t] \in Ends \cup {"start"} /\ (pc'[t] = "done" <=> pc[t] = "done")
  BY <1>1 DEF Ends
<1>3. /\ work' \in Db /\ work'.version = work.version /\ work'.pending = 0
      /\ work'.version < Latest => 0 <= Migrations[work'.version + 1]
  BY <1>1, DbTypes DEF IInv, TypeOK, TxnInv
<1>4. TypeOK'
  BY <1>1, <1>2, <1>3, HistoryAssumption DEF IInv, TypeOK, Busy, Ends
<1>5. TxnInv'
  BY <1>1, <1>2, <1>3 DEF IInv, TxnInv, Ends
<1>6. RowsInv'
  BY <1>1, <1>2 DEF IInv, RowsInv, Threads
<1> QED BY <1>4, <1>5, <1>6 DEF IInv

-----------------------------------------------------------------------------
(* The system                                                              *)

\* Every step keeps the invariant.
LEMMA NextInv ==
  ASSUME IInv, [Next]_vars
  PROVE  IInv'
<1>1. CASE Crash
  BY <1>1, CrashInv
<1>2. ASSUME NEW t \in Threads, Step(t)
      PROVE  IInv'
  <2>1. CASE GetConnection(t)
    BY <2>1, ReuseInv, OpenInv, StatementInv, CommitMigrationInv, MigratedInv, FailInv,
       OpenFailsInv DEF GetConnection
  <2>2. CASE Reset(t)
    BY <2>2, ResetInv
  <2>3. CASE t \in Writers /\ Record(t)
    BY <2>3, UseToWriteInv, InsertInv, CommitInv DEF Record
  <2>4. CASE t \in Readers /\ List(t)
    BY <2>4, UseToReadInv, ReadInv DEF List
  <2> QED BY <1>2, <2>1, <2>2, <2>3, <2>4 DEF Step
<1>3. CASE UNCHANGED vars
  BY <1>3 DEF vars, IInv, TypeOK, TxnInv, RowsInv
<1> QED BY <1>1, <1>2, <1>3 DEF Next

THEOREM Invariance == Spec => []IInv
  BY InitInv, NextInv, PTL DEF Spec

\* The state keeps its types, and a thread works on the connection exactly while
\* it holds the lock.
THEOREM TypeCorrect == Spec => []TypeOK
  BY Invariance, PTL DEF IInv

\* The file never holds a part of a migration (_migrate), wherever a statement
\* fails or the process dies.
THEOREM MigrationsWhole == Spec => []MigrationsAtomic
<1>1. IInv => MigrationsAtomic
  BY DEF IInv, TxnInv, MigrationsAtomic
<1> QED BY <1>1, Invariance, PTL

\* Who was told that it is recorded (record_history) is, and who was told that it
\* is not has left nothing.
THEOREM RecordsKept == Spec => []RecordedIsDurable
<1>1. IInv => RecordedIsDurable
  BY DEF IInv, RowsInv, RecordedIsDurable
<1> QED BY <1>1, Invariance, PTL

\* Readers (list_history) are shown only what is on disk for good.
THEOREM NoDirtyReads == Spec => []ReadsAreCommitted
<1>1. IInv => ReadsAreCommitted
  BY DEF IInv, RowsInv, ReadsAreCommitted
<1> QED BY <1>1, Invariance, PTL

\* The database only moves forward (_migrate, record_history): the two commits are
\* all that touches the file, one of them raises the version by one and adds no
\* row, the other adds the request's own row to those that were there.
THEOREM ForwardOnly == Spec => HistoryGrows
<1> DEFINE Forward == /\ disk'.version \in {disk.version, disk.version + 1}
                      /\ disk.rows \subseteq disk'.rows
                      /\ disk'.rows # disk.rows => disk'.version = disk.version
<1>1. ASSUME IInv, [Next]_vars
      PROVE  Forward
  <2>1. ASSUME NEW t \in Threads, CommitMigration(t)
        PROVE  Forward
    <3>1. disk' = [work EXCEPT !.version = @ + 1, !.pending = 0]
      BY <2>1 DEF CommitMigration
    <3>2. work.rows = disk.rows /\ work.version = disk.version
      BY <1>1, <2>1 DEF CommitMigration, At, IInv, TxnInv
    <3>3. disk'.version = disk.version + 1 /\ disk'.rows = disk.rows
      BY <1>1, <3>1, <3>2, DbTypes DEF IInv, TypeOK
    <3> QED BY <3>3
  <2>2. ASSUME NEW w \in Writers, Commit(w)
        PROVE  Forward
    <3>1. disk' = work /\ work.version = disk.version /\ work.rows = disk.rows \cup {w}
      BY <1>1, <2>2 DEF Commit, At, IInv, TxnInv, Threads
    <3> QED BY <3>1
  <2>3. \/ disk' = disk
        \/ \E t \in Threads : CommitMigration(t)
        \/ \E w \in Writers : Commit(w)
    BY <1>1 DEF Next, vars, Crash, Step, GetConnection, Reuse, Open, Statement, Migrated, Fail,
       OpenFails, Record, UseToWrite, Insert, List, UseToRead, Read, Enter, Reset
  <2> QED BY <2>1, <2>2, <2>3
<1> QED BY <1>1, Invariance, PTL DEF Spec, HistoryGrows
=============================================================================
