------------------------------ MODULE Registry ------------------------------
(***************************************************************************)
(* registry.cpp: the package registry as its callers drive it.  Callers     *)
(* (tasks of a transaction, the browser, the manager) keep copies of        *)
(* entries and give them back to setFlags() and forget() later, when the    *)
(* row may have changed or gone; of a copy these two use the id only.  push() runs inside a savepoint of its own *)
(* (see Database): with a conflict it leaves no trace.                      *)
(***************************************************************************)
EXTENDS RegistryTables, Sequences

CONSTANTS Callers,
          MaxDepth \* bound on the nesting of savepoints

ASSUME MaxDepth \in Nat

VARIABLES tables, \* contents of the database
          saved,  \* contents at the open savepoints, innermost last
          held    \* the id in the entry copy each caller has, 0 in an empty one

vars == <<tables, saved, held>>

TypeOK ==
  /\ tables \in Tables
  /\ saved \in Seq(Tables)
  /\ held \in [Callers -> Ids \union {0}]

Init ==
  /\ tables = EmptyTables
  /\ saved = <<>>
  /\ held = [c \in Callers |-> 0]

Query(c) ==
  /\ \E pkg \in Packages : held' = [held EXCEPT ![c] = GetEntry(tables, pkg).id]
  /\ UNCHANGED <<tables, saved>>

Push(c) ==
  \E r \in Releases, f \in Flags, i \in Ids :
    /\ Conflicts(tables, r) = {}
    /\ IsPushId(tables, r.pkg, i)
    /\ tables' = Pushed(tables, r, f, i)
    /\ held' = [held EXCEPT ![c] = i]
    /\ UNCHANGED saved

\* The savepoint is restored, whether push() returns {} or throws.
PushConflict(c) ==
  /\ \E r \in Releases : Conflicts(tables, r) # {}
  /\ held' = [held EXCEPT ![c] = 0]
  /\ UNCHANGED <<tables, saved>>

SetFlags(c) ==
  /\ \E f \in Flags : tables' = FlagsSet(tables, held[c], f)
  /\ UNCHANGED <<saved, held>>

Forget(c) ==
  /\ tables' = Forgotten(tables, held[c])
  /\ UNCHANGED <<saved, held>>

Savepoint ==
  /\ Len(saved) < MaxDepth
  /\ saved' = Append(saved, tables)
  /\ UNCHANGED <<tables, held>>

Restore ==
  /\ Len(saved) > 0
  /\ tables' = saved[Len(saved)]
  /\ saved' = SubSeq(saved, 1, Len(saved) - 1)
  /\ UNCHANGED held

Next ==
  \/ \E c \in Callers :
       Query(c) \/ Push(c) \/ PushConflict(c) \/ SetFlags(c) \/ Forget(c)
  \/ Savepoint
  \/ Restore

Spec == Init /\ [][Next]_vars

-----------------------------------------------------------------------------
(* The foreign key, the unique package and the completeness of every         *)
(* installed release hold at all times, of the contents and of what a        *)
(* restore would bring back (registry.cpp:149-229, 328-335).                 *)
Consistent ==
  /\ ConsistentTables(tables)
  /\ \A k \in DOMAIN saved : ConsistentTables(saved[k])

\* An update keeps the package's id: a copy of an entry goes on naming its
\* package until that package is forgotten (registry.cpp:165-176).
IdsAreKept ==
  [][\A i \in Ids : tables.entries[i] # NoRow /\ ~Restore =>
       \/ Names(tables', i, tables.entries[i].release.pkg)
       \/ ~HasEntry(tables', tables.entries[i].release.pkg)]_vars

NotInstalled == NoRow

SavedInstalled == [k \in DOMAIN saved |-> InstalledIn(saved[k])]

Installed == INSTANCE PackageSet
  WITH installed <- InstalledIn(tables), saved <- SavedInstalled

\* The two tables and their ids implement a set of packages with disjoint
\* files, each installed, replaced and removed as a whole.
ImplementsPackageSet == Installed!Spec
=============================================================================
