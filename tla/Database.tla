------------------------------ MODULE Database ------------------------------
(***************************************************************************)
(* database.cpp: the SQLite connection of the package registry.  Savepoints *)
(* are named sp0, sp1, ... after a counter, m_savePoint.  SQLite resolves a *)
(* name to the most recent savepoint that has it, and ROLLBACK TO leaves    *)
(* that savepoint on its stack: frames of closed savepoints accumulate      *)
(* below and above the ones still in use, several with the same name.       *)
(***************************************************************************)
EXTENDS Naturals, Sequences

CONSTANTS Contents, NewDatabase,
          MaxSavePoint,  \* bound on m_savePoint
          MaxFrames      \* bound on SQLite's savepoint stack

ASSUME DatabaseAssumption ==
  /\ NewDatabase \in Contents
  /\ MaxSavePoint \in Nat
  /\ MaxFrames \in Nat

VARIABLES durable, contents,
          frames,    \* SQLite's stack of savepoints
          savePoint, \* m_savePoint
          inTx

databaseVars == <<durable, contents, frames, savePoint, inTx>>

Frames == [name : Nat, contents : Contents]

DatabaseTypeOK ==
  /\ durable \in Contents
  /\ contents \in Contents
  /\ frames \in Seq(Frames)
  /\ savePoint \in Nat
  /\ inTx \in BOOLEAN

\* The savepoint SQLite means by the name sp<n>: the most recent one.
IsLatest(i, n) ==
  /\ i \in DOMAIN frames
  /\ frames[i].name = n
  /\ \A j \in DOMAIN frames : frames[j].name = n => j <= i

Latest(n) == CHOOSE i \in DOMAIN frames : IsLatest(i, n)

DatabaseInit ==
  /\ durable = NewDatabase
  /\ contents = NewDatabase
  /\ frames = <<>>
  /\ savePoint = 0
  /\ inTx = FALSE

Begin ==
  /\ ~inTx
  /\ inTx' = TRUE
  /\ UNCHANGED <<durable, contents, frames, savePoint>>

Write ==
  /\ inTx
  /\ contents' \in Contents
  /\ UNCHANGED <<durable, frames, savePoint, inTx>>

\* Mutant: the same name for all.
MutantDatabaseSavepoint ==
  /\ inTx
  /\ savePoint < MaxSavePoint
  /\ Len(frames) < MaxFrames
  /\ frames' = Append(frames, [name |-> 0, contents |-> contents])
  /\ savePoint' = savePoint + 1
  /\ UNCHANGED <<durable, contents, inTx>>

\* SAVEPOINT sp<m_savePoint++>.
DatabaseSavepoint ==
  /\ inTx
  /\ savePoint < MaxSavePoint
  /\ Len(frames) < MaxFrames
  /\ frames' = Append(frames, [name |-> savePoint, contents |-> contents])
  /\ savePoint' = savePoint + 1
  /\ UNCHANGED <<durable, contents, inTx>>

\* Mutant: sp<m_savePoint-->, a name that is unknown or left over.
MutantDatabaseRestore ==
  /\ inTx
  /\ savePoint > 0
  /\ savePoint' = savePoint - 1
  /\ IF \E i \in DOMAIN frames : frames[i].name = savePoint
       THEN /\ contents' = frames[Latest(savePoint)].contents
            /\ frames' = SubSeq(frames, 1, Latest(savePoint))
       ELSE UNCHANGED <<contents, frames>>
  /\ UNCHANGED <<durable, inTx>>

\* ROLLBACK TO SAVEPOINT sp<--m_savePoint>: the savepoint stays on the stack,
\* the ones taken after it are dropped.
DatabaseRestore ==
  /\ inTx
  /\ savePoint > 0
  /\ savePoint' = savePoint - 1
  /\ contents' = frames[Latest(savePoint - 1)].contents
  /\ frames' = SubSeq(frames, 1, Latest(savePoint - 1))
  /\ UNCHANGED <<durable, inTx>>

\* RELEASE SAVEPOINT sp<--m_savePoint>: it is dropped with those after it.
Release ==
  /\ inTx
  /\ savePoint > 0
  /\ savePoint' = savePoint - 1
  /\ frames' = SubSeq(frames, 1, Latest(savePoint - 1) - 1)
  /\ UNCHANGED <<durable, contents, inTx>>

\* COMMIT, which also drops every savepoint left on the stack.  Callers
\* commit outside of savepoint/restore pairs only.
Commit ==
  /\ inTx
  /\ savePoint = 0
  /\ durable' = contents
  /\ frames' = <<>>
  /\ inTx' = FALSE
  /\ UNCHANGED <<contents, savePoint>>

\* The destructor closes the connection, or the process dies: what was not
\* committed is lost.  The next transaction opens a new Database object.
Close ==
  /\ inTx
  /\ contents' = durable
  /\ frames' = <<>>
  /\ savePoint' = 0
  /\ inTx' = FALSE
  /\ UNCHANGED durable

DatabaseNext == Begin \/ Write \/ DatabaseSavepoint \/ DatabaseRestore \/ Release \/ Commit \/ Close

DatabaseSpec == DatabaseInit /\ [][DatabaseNext]_databaseVars

-----------------------------------------------------------------------------
\* The snapshot a restore at nesting depth k would bring back.
Snapshots == [k \in 1..savePoint |-> frames[Latest(k - 1)].contents]

Nested == INSTANCE NestedTransaction
  WITH saved <- Snapshots, MaxDepth <- MaxSavePoint

\* Every savepoint in use is on SQLite's stack, and the latest frame of an
\* outer one is below the latest frame of an inner one: the frames that
\* database.cpp:118-124 leaves behind never hide a savepoint in use.
Reachable == \A k \in 0..(savePoint - 1) : \E i \in DOMAIN frames : IsLatest(i, k)

Ordered ==
  \A j, k \in 0..(savePoint - 1) : j < k =>
    \A i1, i2 \in DOMAIN frames : IsLatest(i1, j) /\ IsLatest(i2, k) => i1 < i2

FramesNested == Reachable /\ Ordered

\* Named savepoints with leftover frames behave as a stack of snapshots:
\* restore() always goes back to the contents at its own savepoint()
\* (database.cpp:110-132).
ImplementsNestedTransaction == Nested!Spec
=============================================================================
