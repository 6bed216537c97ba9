--------------------------- MODULE RegistryTables ---------------------------
(***************************************************************************)
(* The two tables of the package registry and the queries of registry.cpp   *)
(* over them, as functions from the contents of the database to its next    *)
(* contents.  Registry and Transaction are built on this module.            *)
(*                                                                          *)
(* A release stands for the Version given to push(): the package it is of,  *)
(* the target paths of its sources and those among them that have sections  *)
(* (the main files, scripts to be registered in REAPER's action list).      *)
(* A row of the table entries is a release and its flags.                   *)
(***************************************************************************)
EXTENDS Naturals

CONSTANTS Packages, Paths,
          Releases,  \* the versions in the indexes of the repositories
          Flags,     \* values of the flags column
          MaxId,     \* bound on rowids
          NoRow,     \* an absent row of entries
          NoFile     \* an absent row of files

Ids == 1..MaxId

ASSUME RegistryAssumption ==
  /\ MaxId \in Nat
  /\ \A r \in Releases : r.pkg \in Packages /\ r.files \subseteq Paths
                                            /\ r.mains \subseteq r.files
  /\ NoRow \notin [release : Releases, flags : Flags]
  /\ NoFile \notin [entry : Ids, main : BOOLEAN]

Rows == [release : Releases, flags : Flags]
FileRows == [entry : Ids, main : BOOLEAN]

Tables == [entries : [Ids -> Rows \union {NoRow}],
           files : [Paths -> FileRows \union {NoFile}]]

EmptyTables == [entries |-> [i \in Ids |-> NoRow],
                files |-> [p \in Paths |-> NoFile]]

\* Registry::Entry, a copy of a row with its id; id 0 is the empty Entry{}.
NoEntry == [id |-> 0, row |-> NoRow]
EntryCopies == [id : Ids, row : Rows] \union {NoEntry}

-----------------------------------------------------------------------------
(* Queries *)

Names(t, i, pkg) == t.entries[i] # NoRow /\ t.entries[i].release.pkg = pkg

HasEntry(t, pkg) == \E i \in Ids : Names(t, i, pkg)

GetEntry(t, pkg) ==
  IF HasEntry(t, pkg)
    THEN LET i == CHOOSE i \in Ids : Names(t, i, pkg)
         IN [id |-> i, row |-> t.entries[i]]
    ELSE NoEntry

\* Entries of the packages in pkgs (those of one remote).
GetEntries(t, pkgs) ==
  {[id |-> i, row |-> t.entries[i]] :
     i \in {j \in Ids : t.entries[j] # NoRow /\ t.entries[j].release.pkg \in pkgs}}

OwnedBy(t, p, i) == t.files[p] # NoFile /\ t.files[p].entry = i

GetFiles(t, e) == {p \in Paths : e.id # 0 /\ OwnedBy(t, p, e.id)}

GetMainFiles(t, e) == {p \in GetFiles(t, e) : t.files[p].main}

-----------------------------------------------------------------------------
(* Updates *)

WithoutFiles(t, i) == [p \in Paths |-> IF OwnedBy(t, p, i) THEN NoFile ELSE t.files[p]]

\* The id push() gives the package: its row's, or for a new row the rowid
\* SQLite picks, one more than the greatest in use (there is no AUTOINCREMENT,
\* so the id of a forgotten entry may come back).
MutantIsPushId(t, pkg, i) ==
  /\ t.entries[i] = NoRow
  /\ \A j \in Ids : t.entries[j] # NoRow => j < i
  /\ i > 1 => t.entries[i - 1] # NoRow

IsPushId(t, pkg, i) ==
  IF HasEntry(t, pkg)
    THEN Names(t, i, pkg)
    ELSE /\ t.entries[i] = NoRow
         /\ \A j \in Ids : t.entries[j] # NoRow => j < i
         /\ i > 1 => t.entries[i - 1] # NoRow

\* Files of the release that another package owns: push() first deletes the
\* rows of the package's own files, then inserts into a table with unique paths.
MutantConflicts(t, r) ==
  {p \in r.mains : t.files[p] # NoFile /\ ~Names(t, t.files[p].entry, r.pkg)}

Conflicts(t, r) ==
  {p \in r.files : t.files[p] # NoFile /\ ~Names(t, t.files[p].entry, r.pkg)}

\* The tables after a push() that met no conflict.
MutantPushed(t, r, f, i) ==
  [entries |-> [t.entries EXCEPT ![i] = [release |-> r, flags |-> f]],
   files |-> [p \in Paths |->
     IF p \in r.files THEN [entry |-> i, main |-> p \in r.mains]
                      ELSE t.files[p]]]

Pushed(t, r, f, i) ==
  [entries |-> [t.entries EXCEPT ![i] = [release |-> r, flags |-> f]],
   files |-> [p \in Paths |->
     IF p \in r.files THEN [entry |-> i, main |-> p \in r.mains]
                      ELSE WithoutFiles(t, i)[p]]]

\* UPDATE and DELETE find no row when the id of the copy is not in use.
FlagsSet(t, i, f) ==
  IF i = 0 \/ t.entries[i] = NoRow THEN t
  ELSE [t EXCEPT !.entries[i].flags = f]

Forgotten(t, i) ==
  IF i = 0 THEN t
  ELSE [entries |-> [t.entries EXCEPT ![i] = NoRow],
        files |-> WithoutFiles(t, i)]

-----------------------------------------------------------------------------
(* Consistency of the two tables *)

\* The entry of every file exists (FOREIGN KEY).
FilesHaveEntry(t) ==
  \A p \in Paths : t.files[p] # NoFile => t.entries[t.files[p].entry] # NoRow

\* A package has at most one row (UNIQUE(remote, category, package)).
OneEntryPerPackage(t) ==
  \A i, j \in Ids :
    t.entries[i] # NoRow /\ t.entries[j] # NoRow
      /\ t.entries[i].release.pkg = t.entries[j].release.pkg => i = j

\* The files of an entry are exactly those of the release it records: an
\* update leaves no file of the previous version behind and takes none away.
WholeReleases(t) ==
  \A i \in Ids : t.entries[i] # NoRow =>
    {p \in Paths : OwnedBy(t, p, i)} = t.entries[i].release.files

\* The main files among them are those of that release.
MainFilesTold(t) ==
  \A p \in Paths : t.files[p] # NoFile =>
    (t.files[p].main <=> p \in t.entries[t.files[p].entry].release.mains)

ConsistentTables(t) ==
  /\ FilesHaveEntry(t)
  /\ OneEntryPerPackage(t)
  /\ WholeReleases(t)
  /\ MainFilesTold(t)

-----------------------------------------------------------------------------
(* The packages the tables say are installed *)

InstalledIn(t) ==
  [pkg \in Packages |->
     IF HasEntry(t, pkg) THEN GetEntry(t, pkg).row.release ELSE NoRow]
=============================================================================
