-------------------------- MODULE NestedTransaction --------------------------
(***************************************************************************)
(* What the registry's callers rely on when they use Database: one outer    *)
(* SQL transaction with a stack of snapshots inside it.  Savepoint takes a  *)
(* snapshot, Restore goes back to the latest one and drops it, Release      *)
(* keeps the current contents and drops it, Commit makes the contents       *)
(* durable and Close (or a crash) loses everything since the last commit.   *)
(***************************************************************************)
EXTENDS Naturals, Sequences

CONSTANTS Contents,    \* the possible contents of the database
          NewDatabase, \* the contents of a database that was just created
          MaxDepth     \* bound on the nesting of savepoints

VARIABLES durable,  \* what is in the file
          contents, \* what the connection reads
          saved,    \* the stack of snapshots, innermost last
          inTx      \* between BEGIN and COMMIT

vars == <<durable, contents, saved, inTx>>

Init ==
  /\ durable = NewDatabase
  /\ contents = NewDatabase
  /\ saved = <<>>
  /\ inTx = FALSE

Begin ==
  /\ ~inTx
  /\ inTx' = TRUE
  /\ UNCHANGED <<durable, contents, saved>>

Write ==
  /\ inTx
  /\ contents' \in Contents
  /\ UNCHANGED <<durable, saved, inTx>>

Savepoint ==
  /\ inTx
  /\ Len(saved) < MaxDepth
  /\ saved' = Append(saved, contents)
  /\ UNCHANGED <<durable, contents, inTx>>

Drop == saved' = SubSeq(saved, 1, Len(saved) - 1)

Restore ==
  /\ inTx
  /\ Len(saved) > 0
  /\ contents' = saved[Len(saved)]
  /\ Drop
  /\ UNCHANGED <<durable, inTx>>

Release ==
  /\ inTx
  /\ Len(saved) > 0
  /\ Drop
  /\ UNCHANGED <<durable, contents, inTx>>

Commit ==
  /\ inTx
  /\ saved = <<>>
  /\ durable' = contents
  /\ inTx' = FALSE
  /\ UNCHANGED <<contents, saved>>

Close ==
  /\ inTx
  /\ contents' = durable
  /\ saved' = <<>>
  /\ inTx' = FALSE
  /\ UNCHANGED durable

Next == Begin \/ Write \/ Savepoint \/ Restore \/ Release \/ Commit \/ Close

Spec == Init /\ [][Next]_vars
=============================================================================
