------------------------ MODULE RegistryTablesProofs ------------------------
(***************************************************************************)
(* Lemmas about the tables of the registry: what a push, a removal and a    *)
(* change of flags keep, for any contents of the tables.  The proofs about  *)
(* Registry and Transaction rest on them.                                   *)
(***************************************************************************)
EXTENDS RegistryTables, TLAPS

(* A push keeps the types of the tables.                                     *)
LEMMA PushedType ==
  ASSUME NEW t \in Tables, NEW r \in Releases, NEW f \in Flags, NEW i \in Ids
  PROVE  Pushed(t, r, f, i) \in Tables
<1>1. [release |-> r, flags |-> f] \in Rows
  BY DEF Rows
<1>2. [t.entries EXCEPT ![i] = [release |-> r, flags |-> f]]
        \in [Ids -> Rows \union {NoRow}]
  BY <1>1 DEF Tables
<1>3. \A p \in Paths : /\ [entry |-> i, main |-> p \in r.mains] \in FileRows
                       /\ WithoutFiles(t, i)[p] \in FileRows \union {NoFile}
  <2> TAKE p \in Paths
  <2>1. (p \in r.mains) \in BOOLEAN
    OBVIOUS
  <2>2. [entry |-> i, main |-> p \in r.mains] \in FileRows
    BY <2>1 DEF FileRows
  <2>3. WithoutFiles(t, i)[p] \in FileRows \union {NoFile}
    BY DEF WithoutFiles, Tables
  <2> QED BY <2>2, <2>3
<1>4. [p \in Paths |-> IF p \in r.files THEN [entry |-> i, main |-> p \in r.mains]
                                        ELSE WithoutFiles(t, i)[p]]
        \in [Paths -> FileRows \union {NoFile}]
  BY <1>3
<1> QED BY <1>2, <1>4 DEF Pushed, Tables

(* Setting flags keeps the types, even through an id that is not in use.     *)
LEMMA FlagsSetType ==
  ASSUME NEW t \in Tables, NEW f \in Flags, NEW i \in Ids \union {0}
  PROVE  FlagsSet(t, i, f) \in Tables
<1>1. CASE i = 0 \/ t.entries[i] = NoRow
  BY <1>1 DEF FlagsSet
<1>2. CASE ~(i = 0 \/ t.entries[i] = NoRow)
  <2>1. t.entries[i] \in Rows
    BY <1>2 DEF Tables
  <2>2. [t.entries[i] EXCEPT !.flags = f] \in Rows
    BY <2>1 DEF Rows
  <2>3. [t.entries EXCEPT ![i] = [t.entries[i] EXCEPT !.flags = f]]
          \in [Ids -> Rows \union {NoRow}]
    BY <2>2 DEF Tables
  <2> QED BY <1>2, <2>3 DEF FlagsSet, Tables
<1> QED BY <1>1, <1>2

(* So does forgetting an entry.                                              *)
LEMMA ForgottenType ==
  ASSUME NEW t \in Tables, NEW i \in Ids \union {0}
  PROVE  Forgotten(t, i) \in Tables
<1>1. [t.entries EXCEPT ![i] = NoRow] \in [Ids -> Rows \union {NoRow}]
  BY DEF Tables
<1>2. WithoutFiles(t, i) \in [Paths -> FileRows \union {NoFile}]
  BY DEF WithoutFiles, Tables
<1> QED BY <1>1, <1>2 DEF Forgotten, Tables

(* A new registry is well typed.                                             *)
LEMMA EmptyType == EmptyTables \in Tables
BY DEF EmptyTables, Tables

(* A query returns the id of a row, or 0.                                    *)
LEMMA GetEntryType ==
  ASSUME NEW t \in Tables, NEW pkg \in Packages
  PROVE  GetEntry(t, pkg).id \in Ids \union {0}
BY DEF GetEntry, HasEntry, NoEntry

(* It returns a copy of a row, or the empty entry.                           *)
LEMMA GetEntryCopy ==
  ASSUME NEW t \in Tables, NEW pkg \in Packages
  PROVE  /\ GetEntry(t, pkg) \in EntryCopies
         /\ GetEntry(t, pkg).id # 0 => Names(t, GetEntry(t, pkg).id, pkg)
         /\ GetEntry(t, pkg).id = 0 => ~HasEntry(t, pkg)
<1>1. CASE HasEntry(t, pkg)
  <2>1. PICK i \in Ids : i = (CHOOSE j \in Ids : Names(t, j, pkg)) /\ Names(t, i, pkg)
    BY <1>1 DEF HasEntry
  <2>2. GetEntry(t, pkg) = [id |-> i, row |-> t.entries[i]]
    BY <1>1, <2>1 DEF GetEntry
  <2>3. t.entries[i] \in Rows
    BY <2>1 DEF Names, Tables
  <2>4. i # 0
    BY RegistryAssumption DEF Ids
  <2> QED BY <2>1, <2>2, <2>3, <2>4 DEF EntryCopies
<1>2. CASE ~HasEntry(t, pkg)
  BY <1>2 DEF GetEntry, NoEntry, EntryCopies
<1> QED BY <1>1, <1>2

(* So do the entries of a remote.                                            *)
LEMMA GetEntriesCopies ==
  ASSUME NEW t \in Tables, NEW pkgs
  PROVE  GetEntries(t, pkgs) \subseteq EntryCopies \ {NoEntry}
<1> SUFFICES ASSUME NEW j \in Ids, t.entries[j] # NoRow
             PROVE  [id |-> j, row |-> t.entries[j]] \in EntryCopies \ {NoEntry}
  BY DEF GetEntries
<1>1. t.entries[j] \in Rows
  BY DEF Tables
<1>2. j # 0
  BY RegistryAssumption DEF Ids
<1> QED BY <1>1, <1>2 DEF EntryCopies, NoEntry

(* The id of a copy.                                                         *)
LEMMA CopyId ==
  ASSUME NEW e \in EntryCopies
  PROVE  /\ e.id \in Ids \union {0}
         /\ e # NoEntry => e.row \in Rows
BY DEF EntryCopies, NoEntry

-----------------------------------------------------------------------------
(* A new registry is consistent.                                             *)
LEMMA EmptyConsistent == ConsistentTables(EmptyTables)
BY DEF ConsistentTables, EmptyTables, FilesHaveEntry, OneEntryPerPackage, WholeReleases,
       MainFilesTold, OwnedBy

(* What a push without conflict does: it writes a row under an id that no    *)
(* other package has, and the files of the release, which no other id owned. *)
WritesRow(t, r, f, i, u) ==
  /\ r.pkg \in Packages /\ r.files \subseteq Paths /\ r.mains \subseteq r.files
  /\ u.entries[i] = [release |-> r, flags |-> f] /\ u.entries[i] # NoRow
  /\ \A j \in Ids \ {i} : u.entries[j] = t.entries[j]
  /\ \A j \in Ids : Names(t, j, r.pkg) => j = i

WritesFiles(t, r, i, u) ==
  /\ \A p \in r.files : /\ u.files[p] # NoFile
                        /\ u.files[p].entry = i
                        /\ u.files[p].main <=> p \in r.mains
  /\ \A p \in Paths \ r.files : /\ OwnedBy(t, p, i) => u.files[p] = NoFile
                                /\ ~OwnedBy(t, p, i) => u.files[p] = t.files[p]
  /\ \A j \in Ids \ {i}, p \in r.files : ~OwnedBy(t, p, j)

LEMMA PushedWrites ==
  ASSUME NEW t \in Tables, NEW r \in Releases, NEW f \in Flags, NEW i \in Ids,
         ConsistentTables(t), Conflicts(t, r) = {}, IsPushId(t, r.pkg, i),
         NEW u, u = Pushed(t, r, f, i)
  PROVE  WritesRow(t, r, f, i, u) /\ WritesFiles(t, r, i, u)
<1>1. /\ r.pkg \in Packages /\ r.files \subseteq Paths /\ r.mains \subseteq r.files
      /\ [release |-> r, flags |-> f] # NoRow
  BY RegistryAssumption
<1>2. /\ u.entries[i] = [release |-> r, flags |-> f]
      /\ \A j \in Ids \ {i} : u.entries[j] = t.entries[j]
  BY DEF Pushed, Tables
<1>3. \A p \in r.files : /\ u.files[p] # NoFile
                         /\ u.files[p].entry = i
                         /\ u.files[p].main <=> p \in r.mains
  <2> TAKE p \in r.files
  <2>1. u.files[p] = [entry |-> i, main |-> p \in r.mains]
    BY <1>1 DEF Pushed
  <2>2. (p \in r.mains) \in BOOLEAN
    OBVIOUS
  <2>3. [entry |-> i, main |-> p \in r.mains] \in FileRows
    BY <2>2 DEF FileRows
  <2>4. [entry |-> i, main |-> p \in r.mains] # NoFile
    BY <2>3, RegistryAssumption DEF FileRows
  <2>5. u.files[p].main = (p \in r.mains)
    BY <2>1
  <2>6. u.files[p].main <=> p \in r.mains
    BY <2>5, Zenon
  <2> QED BY <2>1, <2>4, <2>6
<1>4. \A p \in Paths \ r.files :
        /\ OwnedBy(t, p, i) => u.files[p] = NoFile
        /\ ~OwnedBy(t, p, i) => u.files[p] = t.files[p]
  BY DEF Pushed, WithoutFiles
<1>5. \A j \in Ids : Names(t, j, r.pkg) => j = i
  <2> SUFFICES ASSUME NEW j \in Ids, Names(t, j, r.pkg)
               PROVE  j = i
    OBVIOUS
  <2>1. HasEntry(t, r.pkg)
    BY DEF HasEntry
  <2>2. Names(t, i, r.pkg)
    BY <2>1 DEF IsPushId
  <2> QED BY <2>2 DEF ConsistentTables, OneEntryPerPackage, Names
<1>6. \A j \in Ids \ {i}, p \in r.files : ~OwnedBy(t, p, j)
  <2> SUFFICES ASSUME NEW j \in Ids \ {i}, NEW p \in r.files, OwnedBy(t, p, j)
               PROVE  FALSE
    OBVIOUS
  <2>1. t.files[p] # NoFile /\ t.files[p].entry = j
    BY DEF OwnedBy
  <2>2. Names(t, j, r.pkg)
    BY <2>1 DEF Conflicts
  <2> QED BY <1>5, <2>2
<1> QED BY <1>1, <1>2, <1>3, <1>4, <1>5, <1>6 DEF WritesRow, WritesFiles

(* The release's files are the files of its row, and no other row gets or    *)
(* loses one.                                                                *)
LEMMA WrittenOwners ==
  ASSUME NEW t, NEW u, NEW r \in Releases, NEW f, NEW i \in Ids,
         WritesRow(t, r, f, i, u), WritesFiles(t, r, i, u)
  PROVE  /\ \A p \in Paths : OwnedBy(u, p, i) <=> p \in r.files
         /\ \A p \in Paths, j \in Ids \ {i} :
              /\ OwnedBy(u, p, j) <=> OwnedBy(t, p, j)
              /\ OwnedBy(t, p, j) => u.files[p] = t.files[p]
BY DEF WritesRow, WritesFiles, OwnedBy

(* A push without conflict keeps the tables consistent: the files left by    *)
(* the previous version go, and no file of another package is taken.         *)
LEMMA PushedConsistent ==
  ASSUME NEW t \in Tables, NEW r \in Releases, NEW f \in Flags, NEW i \in Ids,
         ConsistentTables(t), Conflicts(t, r) = {}, IsPushId(t, r.pkg, i)
  PROVE  ConsistentTables(Pushed(t, r, f, i))
<1>1. PICK u : u = Pushed(t, r, f, i)
  OBVIOUS
<1>2. WritesRow(t, r, f, i, u) /\ WritesFiles(t, r, i, u)
  BY <1>1, PushedWrites
<1>3. \A p \in Paths \ r.files : u.files[p] # NoFile =>
        /\ u.files[p] = t.files[p]
        /\ t.files[p].entry \in Ids \ {i}
  BY <1>2 DEF WritesFiles, Tables, FileRows, OwnedBy
<1>4. FilesHaveEntry(u)
  <2> SUFFICES ASSUME NEW p \in Paths, u.files[p] # NoFile
               PROVE  u.entries[u.files[p].entry] # NoRow
    BY DEF FilesHaveEntry
  <2>1. CASE p \in r.files
    BY <1>2, <2>1 DEF WritesRow, WritesFiles
  <2>2. CASE p \notin r.files
    <3>1. t.entries[t.files[p].entry] # NoRow
      BY <1>3, <2>2 DEF ConsistentTables, FilesHaveEntry
    <3> QED BY <1>2, <1>3, <2>2, <3>1 DEF WritesRow
  <2> QED BY <2>1, <2>2
<1>5. OneEntryPerPackage(u)
  <2> SUFFICES ASSUME NEW j \in Ids, NEW k \in Ids,
                      u.entries[j] # NoRow, u.entries[k] # NoRow,
                      u.entries[j].release.pkg = u.entries[k].release.pkg
               PROVE  j = k
    BY DEF OneEntryPerPackage
  <2>1. u.entries[i].release.pkg = r.pkg
    BY <1>2 DEF WritesRow
  <2>2. CASE j # i /\ k # i
    BY <1>2, <2>2 DEF WritesRow, ConsistentTables, OneEntryPerPackage
  <2>3. CASE j = i /\ k # i
    BY <1>2, <2>1, <2>3 DEF WritesRow, Names
  <2>4. CASE j # i /\ k = i
    BY <1>2, <2>1, <2>4 DEF WritesRow, Names
  <2> QED BY <2>2, <2>3, <2>4
<1>6. WholeReleases(u)
  <2> SUFFICES ASSUME NEW j \in Ids, u.entries[j] # NoRow
               PROVE  {p \in Paths : OwnedBy(u, p, j)} = u.entries[j].release.files
    BY DEF WholeReleases
  <2>1. CASE j = i
    <3>1. /\ \A p \in Paths : OwnedBy(u, p, i) <=> p \in r.files
          /\ r.files \subseteq Paths /\ u.entries[i].release = r
      BY <1>2, WrittenOwners DEF WritesRow
    <3> QED BY <2>1, <3>1
  <2>2. CASE j # i
    <3>1. u.entries[j] = t.entries[j]
      BY <1>2, <2>2 DEF WritesRow
    <3>2. {p \in Paths : OwnedBy(t, p, j)} = t.entries[j].release.files
      BY <3>1 DEF ConsistentTables, WholeReleases
    <3>3. \A p \in Paths : OwnedBy(u, p, j) <=> OwnedBy(t, p, j)
      BY <1>2, <2>2, WrittenOwners
    <3> QED BY <3>1, <3>2, <3>3
  <2> QED BY <2>1, <2>2
<1>7. MainFilesTold(u)
  <2> SUFFICES ASSUME NEW p \in Paths, u.files[p] # NoFile
               PROVE  u.files[p].main <=> p \in u.entries[u.files[p].entry].release.mains
    BY DEF MainFilesTold
  <2>1. CASE p \in r.files
    BY <1>2, <2>1 DEF WritesRow, WritesFiles
  <2>2. CASE p \notin r.files
    <3>1. t.files[p].main <=> p \in t.entries[t.files[p].entry].release.mains
      BY <1>3, <2>2 DEF ConsistentTables, MainFilesTold
    <3> QED BY <1>2, <1>3, <2>2, <3>1 DEF WritesRow
  <2> QED BY <2>1, <2>2
<1> QED BY <1>1, <1>4, <1>5, <1>6, <1>7 DEF ConsistentTables

(* Forgetting an id removes its row and all of its files, whatever package   *)
(* the id belongs to by then.                                                *)
LEMMA ForgottenConsistent ==
  ASSUME NEW t \in Tables, NEW i \in Ids \union {0}, ConsistentTables(t)
  PROVE  ConsistentTables(Forgotten(t, i))
<1>1. CASE i = 0
  BY <1>1 DEF Forgotten
<1>2. CASE i \in Ids /\ i # 0
  <2> DEFINE u == Forgotten(t, i)
  <2>1. u.entries[i] = NoRow /\ \A j \in Ids \ {i} : u.entries[j] = t.entries[j]
    BY <1>2 DEF Forgotten, Tables
  <2>2. \A p \in Paths :
          /\ OwnedBy(t, p, i) => u.files[p] = NoFile
          /\ ~OwnedBy(t, p, i) => u.files[p] = t.files[p]
    BY <1>2 DEF Forgotten, WithoutFiles
  <2> HIDE DEF u
  <2>3. \A p \in Paths, j \in Ids \ {i} : OwnedBy(u, p, j) <=> OwnedBy(t, p, j)
    BY <2>2 DEF OwnedBy
  <2>4. FilesHaveEntry(u)
    <3> SUFFICES ASSUME NEW p \in Paths, u.files[p] # NoFile
                 PROVE  u.entries[u.files[p].entry] # NoRow
      BY DEF FilesHaveEntry
    <3>1. u.files[p] = t.files[p] /\ t.files[p].entry \in Ids \ {i}
      BY <2>2 DEF OwnedBy, Tables, FileRows
    <3>2. t.entries[t.files[p].entry] # NoRow
      BY <3>1 DEF ConsistentTables, FilesHaveEntry
    <3> QED BY <2>1, <3>1, <3>2
  <2>5. OneEntryPerPackage(u)
    BY <2>1 DEF ConsistentTables, OneEntryPerPackage
  <2>6. WholeReleases(u)
    <3> SUFFICES ASSUME NEW j \in Ids, u.entries[j] # NoRow
                 PROVE  {p \in Paths : OwnedBy(u, p, j)} = u.entries[j].release.files
      BY DEF WholeReleases
    <3>1. j \in Ids \ {i} /\ u.entries[j] = t.entries[j]
      BY <2>1
    <3>2. {p \in Paths : OwnedBy(t, p, j)} = t.entries[j].release.files
      BY <3>1 DEF ConsistentTables, WholeReleases
    <3> QED BY <2>3, <3>1, <3>2
  <2>7. MainFilesTold(u)
    <3> SUFFICES ASSUME NEW p \in Paths, u.files[p] # NoFile
                 PROVE  u.files[p].main <=> p \in u.entries[u.files[p].entry].release.mains
      BY DEF MainFilesTold
    <3>1. u.files[p] = t.files[p] /\ t.files[p].entry \in Ids \ {i}
      BY <2>2 DEF OwnedBy, Tables, FileRows
    <3>2. t.files[p].main <=> p \in t.entries[t.files[p].entry].release.mains
      BY <3>1 DEF ConsistentTables, MainFilesTold
    <3> QED BY <2>1, <3>1, <3>2
  <2> QED BY <2>4, <2>5, <2>6, <2>7 DEF ConsistentTables, u
<1> QED BY <1>1, <1>2

(* Flags are in no constraint: setting them changes no release and no file.  *)
LEMMA FlagsSetSameReleases ==
  ASSUME NEW t \in Tables, NEW i \in Ids \union {0}, NEW f \in Flags
  PROVE  /\ FlagsSet(t, i, f).files = t.files
         /\ \A j \in Ids :
              /\ FlagsSet(t, i, f).entries[j] = NoRow <=> t.entries[j] = NoRow
              /\ FlagsSet(t, i, f).entries[j].release = t.entries[j].release
<1>1. CASE i = 0 \/ t.entries[i] = NoRow
  BY <1>1 DEF FlagsSet
<1>2. CASE ~(i = 0 \/ t.entries[i] = NoRow)
  <2> DEFINE row == [t.entries[i] EXCEPT !.flags = f]
  <2>1. i \in Ids /\ t.entries[i] \in Rows
    BY <1>2 DEF Tables
  <2>2. row \in Rows /\ row.release = t.entries[i].release
    BY <2>1 DEF Rows
  <2>3. row # NoRow
    BY <2>2, RegistryAssumption DEF Rows
  <2>4. FlagsSet(t, i, f) = [t EXCEPT !.entries = [t.entries EXCEPT ![i] = row]]
    BY <1>2 DEF FlagsSet
  <2> HIDE DEF row
  <2>5. /\ FlagsSet(t, i, f).files = t.files
        /\ FlagsSet(t, i, f).entries = [t.entries EXCEPT ![i] = row]
    BY <2>4 DEF Tables
  <2> QED BY <1>2, <2>1, <2>2, <2>3, <2>5 DEF Tables
<1> QED BY <1>1, <1>2

(* So they keep the tables consistent.                                       *)
LEMMA FlagsSetConsistent ==
  ASSUME NEW t \in Tables, NEW i \in Ids \union {0}, NEW f \in Flags, ConsistentTables(t)
  PROVE  ConsistentTables(FlagsSet(t, i, f))
<1> DEFINE u == FlagsSet(t, i, f)
<1>1. /\ u.files = t.files
      /\ \A j \in Ids : /\ u.entries[j] = NoRow <=> t.entries[j] = NoRow
                        /\ u.entries[j].release = t.entries[j].release
  BY FlagsSetSameReleases
<1> HIDE DEF u
<1>2. \A p \in Paths : t.files[p] # NoFile => t.files[p].entry \in Ids
  BY DEF Tables, FileRows
<1>3. FilesHaveEntry(u)
  BY <1>1, <1>2 DEF ConsistentTables, FilesHaveEntry
<1>4. OneEntryPerPackage(u)
  BY <1>1 DEF ConsistentTables, OneEntryPerPackage
<1>5. WholeReleases(u)
  BY <1>1 DEF ConsistentTables, WholeReleases, OwnedBy
<1>6. MainFilesTold(u)
  BY <1>1, <1>2 DEF ConsistentTables, MainFilesTold
<1> QED BY <1>3, <1>4, <1>5, <1>6 DEF ConsistentTables, u

-----------------------------------------------------------------------------
(* What a package's row says is what the abstract map has for the package.   *)
LEMMA InstalledAt ==
  ASSUME NEW t \in Tables, OneEntryPerPackage(t), NEW pkg \in Packages,
         NEW i \in Ids, Names(t, i, pkg)
  PROVE  /\ GetEntry(t, pkg) = [id |-> i, row |-> t.entries[i]]
         /\ InstalledIn(t)[pkg] = t.entries[i].release
<1>1. HasEntry(t, pkg)
  BY DEF HasEntry
<1>2. \A j \in Ids : Names(t, j, pkg) <=> j = i
  BY DEF OneEntryPerPackage, Names
<1>3. (CHOOSE j \in Ids : Names(t, j, pkg)) = i
  BY <1>2
<1> QED BY <1>1, <1>3 DEF GetEntry, InstalledIn

(* Two tables with the same releases say the same packages are installed.    *)
LEMMA SameInstalled ==
  ASSUME NEW t \in Tables, NEW u \in Tables,
         OneEntryPerPackage(t), OneEntryPerPackage(u),
         NEW pkg \in Packages,
         \A i \in Ids : Names(u, i, pkg) <=> Names(t, i, pkg),
         \A i \in Ids : Names(t, i, pkg) => u.entries[i].release = t.entries[i].release
  PROVE  InstalledIn(u)[pkg] = InstalledIn(t)[pkg]
<1>1. CASE HasEntry(t, pkg)
  <2>1. PICK i \in Ids : Names(t, i, pkg)
    BY <1>1 DEF HasEntry
  <2> QED BY <2>1, InstalledAt
<1>2. CASE ~HasEntry(t, pkg)
  BY <1>2 DEF HasEntry, InstalledIn
<1> QED BY <1>1, <1>2

(* Every package is at a release or absent.                                  *)
LEMMA InstalledType ==
  ASSUME NEW t \in Tables
  PROVE  InstalledIn(t) \in [Packages -> Releases \union {NoRow}]
<1> SUFFICES ASSUME NEW pkg \in Packages, HasEntry(t, pkg)
             PROVE  GetEntry(t, pkg).row.release \in Releases
  BY DEF InstalledIn
<1>1. PICK i \in Ids : /\ i = CHOOSE j \in Ids : Names(t, j, pkg)
                       /\ Names(t, i, pkg)
  BY DEF HasEntry
<1>2. t.entries[i] \in Rows
  BY <1>1 DEF Names, Tables
<1>3. GetEntry(t, pkg).row = t.entries[i]
  BY <1>1 DEF GetEntry
<1> QED BY <1>2, <1>3 DEF Rows

(* A push installs or replaces its package and leaves the others.            *)
LEMMA PushedInstalls ==
  ASSUME NEW t \in Tables, NEW r \in Releases, NEW f \in Flags, NEW i \in Ids,
         ConsistentTables(t), Conflicts(t, r) = {}, IsPushId(t, r.pkg, i)
  PROVE  InstalledIn(Pushed(t, r, f, i)) = [InstalledIn(t) EXCEPT ![r.pkg] = r]
<1> DEFINE u == Pushed(t, r, f, i)
<1>1. /\ r.pkg \in Packages /\ [release |-> r, flags |-> f] # NoRow
  BY RegistryAssumption
<1>2. /\ u.entries[i] = [release |-> r, flags |-> f]
      /\ \A j \in Ids \ {i} : u.entries[j] = t.entries[j]
  BY DEF Pushed, Tables
<1>3. u \in Tables /\ OneEntryPerPackage(u) /\ OneEntryPerPackage(t)
  BY PushedType, PushedConsistent DEF ConsistentTables
<1> HIDE DEF u
<1>4. InstalledIn(u)[r.pkg] = r
  <2>1. Names(u, i, r.pkg)
    BY <1>1, <1>2 DEF Names
  <2> QED BY <1>1, <1>2, <1>3, <2>1, InstalledAt
<1>5. ASSUME NEW pkg \in Packages, pkg # r.pkg
      PROVE  InstalledIn(u)[pkg] = InstalledIn(t)[pkg]
  <2>1. t.entries[i] = NoRow \/ t.entries[i].release.pkg = r.pkg
    BY DEF IsPushId, Names
  <2>2. ~Names(t, i, pkg) /\ ~Names(u, i, pkg)
    BY <1>2, <1>5, <2>1 DEF Names
  <2>3. \A j \in Ids : Names(u, j, pkg) <=> Names(t, j, pkg)
    BY <1>2, <2>2 DEF Names
  <2>4. \A j \in Ids : Names(t, j, pkg) => u.entries[j].release = t.entries[j].release
    BY <1>2, <2>2
  <2> QED BY <1>3, <2>3, <2>4, SameInstalled
<1>6. InstalledIn(u) = [InstalledIn(t) EXCEPT ![r.pkg] = r]
  BY <1>4, <1>5 DEF InstalledIn
<1> QED BY <1>6 DEF u

(* A release that meets no conflict shares no file with another package.     *)
LEMMA NoConflictIsFree ==
  ASSUME NEW t \in Tables, NEW r \in Releases, ConsistentTables(t),
         Conflicts(t, r) = {}, NEW pkg \in Packages \ {r.pkg},
         InstalledIn(t)[pkg] # NoRow
  PROVE  InstalledIn(t)[pkg].files \cap r.files = {}
<1>1. PICK i \in Ids : Names(t, i, pkg)
  BY DEF InstalledIn, HasEntry
<1>2. InstalledIn(t)[pkg] = t.entries[i].release
  BY <1>1, InstalledAt DEF ConsistentTables
<1>3. t.entries[i].release.files = {p \in Paths : OwnedBy(t, p, i)}
  BY <1>1 DEF ConsistentTables, WholeReleases, Names
<1>4. ASSUME NEW p \in r.files, OwnedBy(t, p, i)
      PROVE  FALSE
  <2>1. t.files[p] # NoFile /\ t.files[p].entry = i
    BY <1>4 DEF OwnedBy
  <2>2. Names(t, i, r.pkg)
    BY <2>1 DEF Conflicts
  <2> QED BY <1>1, <2>2 DEF Names
<1> QED BY <1>2, <1>3, <1>4

(* Forgetting an id removes at most one package.                             *)
LEMMA ForgottenRemoves ==
  ASSUME NEW t \in Tables, NEW i \in Ids \union {0}, ConsistentTables(t)
  PROVE  \/ InstalledIn(Forgotten(t, i)) = InstalledIn(t)
         \/ \E pkg \in Packages :
              InstalledIn(Forgotten(t, i)) = [InstalledIn(t) EXCEPT ![pkg] = NoRow]
<1> DEFINE u == Forgotten(t, i)
<1>1. u \in Tables /\ OneEntryPerPackage(u) /\ OneEntryPerPackage(t)
  BY ForgottenType, ForgottenConsistent DEF ConsistentTables
<1>2. CASE i = 0
  BY <1>2 DEF Forgotten
<1>3. CASE i \in Ids /\ i # 0
  <2>1. u.entries[i] = NoRow /\ \A j \in Ids \ {i} : u.entries[j] = t.entries[j]
    BY <1>3 DEF Forgotten, Tables
  <2> HIDE DEF u
  <2>2. ASSUME NEW pkg \in Packages, ~Names(t, i, pkg)
        PROVE  InstalledIn(u)[pkg] = InstalledIn(t)[pkg]
    <3>1. \A j \in Ids : Names(u, j, pkg) <=> Names(t, j, pkg)
      BY <2>1, <2>2 DEF Names
    <3>2. \A j \in Ids : Names(t, j, pkg) => u.entries[j].release = t.entries[j].release
      BY <2>1, <2>2
    <3> QED BY <1>1, <3>1, <3>2, SameInstalled
  <2>3. CASE \E pkg \in Packages : Names(t, i, pkg)
    <3>1. PICK pkg \in Packages : Names(t, i, pkg)
      BY <2>3
    <3>2. \A j \in Ids : ~Names(u, j, pkg)
      <4>1. \A j \in Ids \ {i} : ~Names(t, j, pkg)
        BY <1>1, <1>3, <3>1 DEF Names, OneEntryPerPackage
      <4> QED BY <1>3, <2>1, <4>1 DEF Names
    <3>3. InstalledIn(u)[pkg] = NoRow
      BY <3>2 DEF InstalledIn, HasEntry
    <3>4. \A other \in Packages \ {pkg} : ~Names(t, i, other)
      BY <3>1 DEF Names
    <3>5. InstalledIn(u) = [InstalledIn(t) EXCEPT ![pkg] = NoRow]
      BY <2>2, <3>3, <3>4 DEF InstalledIn
    <3> QED BY <3>5 DEF u
  <2>4. CASE ~\E pkg \in Packages : Names(t, i, pkg)
    <3>1. InstalledIn(u) = InstalledIn(t)
      BY <2>2, <2>4 DEF InstalledIn
    <3> QED BY <3>1 DEF u
  <2> QED BY <2>3, <2>4
<1> QED BY <1>2, <1>3

(* Setting flags installs and removes nothing.                               *)
LEMMA FlagsSetInstalled ==
  ASSUME NEW t \in Tables, NEW i \in Ids \union {0}, NEW f \in Flags, ConsistentTables(t)
  PROVE  InstalledIn(FlagsSet(t, i, f)) = InstalledIn(t)
<1> DEFINE u == FlagsSet(t, i, f)
<1>1. u \in Tables /\ OneEntryPerPackage(u) /\ OneEntryPerPackage(t)
  BY FlagsSetType, FlagsSetConsistent DEF ConsistentTables
<1>2. \A j \in Ids : /\ u.entries[j] = NoRow <=> t.entries[j] = NoRow
                     /\ u.entries[j].release = t.entries[j].release
  BY FlagsSetSameReleases
<1> HIDE DEF u
<1>3. ASSUME NEW pkg \in Packages
      PROVE  InstalledIn(u)[pkg] = InstalledIn(t)[pkg]
  <2>1. \A j \in Ids : Names(u, j, pkg) <=> Names(t, j, pkg)
    BY <1>2 DEF Names
  <2> QED BY <1>1, <1>2, <2>1, SameInstalled
<1>4. InstalledIn(u) = InstalledIn(t)
  BY <1>3 DEF InstalledIn
<1> QED BY <1>4 DEF u
=============================================================================
