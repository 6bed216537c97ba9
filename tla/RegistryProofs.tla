--------------------------- MODULE RegistryProofs ---------------------------
(* Proofs about the registry: every update of the two tables keeps them      *)
(* consistent, for all packages, releases and ids, and implements the        *)
(* installation or removal of one package as a whole; and about the          *)
(* connection it uses: its types, the nesting of its savepoint frames and    *)
(* the refinement of NestedTransaction, for all contents and bounds.         *)
EXTENDS Registry, Database, RegistryTablesProofs, SequenceTheorems

-----------------------------------------------------------------------------
(* The initial state.                                                        *)
LEMMA InitInvariant == Init => TypeOK /\ Consistent
<1> SUFFICES ASSUME Init PROVE TypeOK /\ Consistent
  OBVIOUS
<1>1. tables \in Tables /\ ConsistentTables(tables)
  BY EmptyType, EmptyConsistent DEF Init
<1>2. saved = <<>> /\ saved \in Seq(Tables) /\ DOMAIN saved = {}
  BY EmptySeq DEF Init
<1>3. held \in [Callers -> Ids \union {0}]
  BY DEF Init
<1> QED BY <1>1, <1>2, <1>3 DEF TypeOK, Consistent

(* Each operation keeps the types and the consistency of the contents and of *)
(* the saved contents.                                                       *)
LEMMA StepInvariant == TypeOK /\ Consistent /\ [Next]_vars => (TypeOK /\ Consistent)'
<1> SUFFICES ASSUME TypeOK, Consistent, [Next]_vars PROVE TypeOK' /\ Consistent'
  OBVIOUS
<1>1. /\ tables \in Tables /\ ConsistentTables(tables)
      /\ saved \in Seq(Tables)
      /\ \A k \in DOMAIN saved : ConsistentTables(saved[k])
      /\ held \in [Callers -> Ids \union {0}]
  BY DEF TypeOK, Consistent
<1>2. ASSUME NEW c \in Callers, Query(c) PROVE TypeOK' /\ Consistent'
  <2>1. held' \in [Callers -> Ids \union {0}]
    BY <1>1, <1>2, GetEntryType DEF Query
  <2> QED BY <1>1, <1>2, <2>1 DEF Query, TypeOK, Consistent
<1>3. ASSUME NEW c \in Callers, Push(c) PROVE TypeOK' /\ Consistent'
  <2>1. PICK r \in Releases, f \in Flags, i \in Ids :
          /\ Conflicts(tables, r) = {}
          /\ IsPushId(tables, r.pkg, i)
          /\ tables' = Pushed(tables, r, f, i)
          /\ held' = [held EXCEPT ![c] = i]
          /\ UNCHANGED saved
    BY <1>3 DEF Push
  <2>2. tables' \in Tables /\ ConsistentTables(tables')
    BY <1>1, <2>1, PushedType, PushedConsistent
  <2>3. held' \in [Callers -> Ids \union {0}]
    BY <1>1, <2>1
  <2> QED BY <1>1, <2>1, <2>2, <2>3 DEF TypeOK, Consistent
<1>4. ASSUME NEW c \in Callers, PushConflict(c) PROVE TypeOK' /\ Consistent'
  BY <1>1, <1>4 DEF PushConflict, TypeOK, Consistent
<1>5. ASSUME NEW c \in Callers, SetFlags(c) PROVE TypeOK' /\ Consistent'
  <2>1. PICK f \in Flags : tables' = FlagsSet(tables, held[c], f)
    BY <1>5 DEF SetFlags
  <2>2. tables' \in Tables /\ ConsistentTables(tables')
    BY <1>1, <2>1, FlagsSetType, FlagsSetConsistent
  <2> QED BY <1>1, <1>5, <2>2 DEF SetFlags, TypeOK, Consistent
<1>6. ASSUME NEW c \in Callers, Forget(c) PROVE TypeOK' /\ Consistent'
  <2>1. tables' \in Tables /\ ConsistentTables(tables')
    BY <1>1, <1>6, ForgottenType, ForgottenConsistent DEF Forget
  <2> QED BY <1>1, <1>6, <2>1 DEF Forget, TypeOK, Consistent
<1>7. CASE Savepoint
  <2>1. saved' \in Seq(Tables)
    BY <1>1, <1>7 DEF Savepoint
  <2>2. \A k \in DOMAIN saved' : ConsistentTables(saved'[k])
    BY <1>1, <1>7 DEF Savepoint
  <2> QED BY <1>1, <1>7, <2>1, <2>2 DEF Savepoint, TypeOK, Consistent
<1>8. CASE Restore
  <2> DEFINE n == Len(saved)
  <2>1. n \in DOMAIN saved /\ saved[n] \in Tables
    BY <1>1, <1>8 DEF Restore
  <2>2. /\ SubSeq(saved, 1, n - 1) \in Seq(Tables)
        /\ DOMAIN SubSeq(saved, 1, n - 1) = 1..(n - 1)
        /\ \A k \in 1..(n - 1) : SubSeq(saved, 1, n - 1)[k] = saved[k]
    BY <1>1, <2>1
  <2>3. \A k \in 1..(n - 1) : k \in DOMAIN saved
    BY <1>1
  <2>4. /\ tables' = saved[n] /\ saved' = SubSeq(saved, 1, n - 1) /\ UNCHANGED held
    BY <1>8 DEF Restore
  <2> HIDE DEF n
  <2>5. tables' \in Tables /\ ConsistentTables(tables')
    BY <1>1, <2>1, <2>4
  <2>6. saved' \in Seq(Tables) /\ \A k \in DOMAIN saved' : ConsistentTables(saved'[k])
    BY <1>1, <2>2, <2>3, <2>4
  <2> QED BY <1>1, <2>4, <2>5, <2>6 DEF TypeOK, Consistent
<1>9. CASE UNCHANGED vars
  BY <1>1, <1>9 DEF vars, TypeOK, Consistent
<1> QED BY <1>2, <1>3, <1>4, <1>5, <1>6, <1>7, <1>8, <1>9 DEF Next

(* The types of the registry's state.                                        *)
THEOREM RegistryTypeCorrect == Spec => []TypeOK
<1> QED BY InitInvariant, StepInvariant, PTL DEF Spec

(* The foreign key, the unique package and the completeness of installed     *)
(* releases hold at all times, of the contents and of every savepoint.       *)
THEOREM RegistryConsistent == Spec => []Consistent
<1> QED BY InitInvariant, StepInvariant, PTL DEF Spec

-----------------------------------------------------------------------------
(* The stack of snapshots maps to a stack of the same depth.                 *)
LEMMA SavedInstalledSeq ==
  ASSUME TypeOK
  PROVE  /\ SavedInstalled \in Seq([Packages -> Releases \union {NotInstalled}])
         /\ Len(SavedInstalled) = Len(saved)
         /\ \A k \in 1..Len(saved) : SavedInstalled[k] = InstalledIn(saved[k])
<1>1. saved \in Seq(Tables) /\ DOMAIN saved = 1..Len(saved) /\ Len(saved) \in Nat
  BY DEF TypeOK
<1>2. \A t \in Tables : InstalledIn(t) \in [Packages -> Releases \union {NotInstalled}]
  BY InstalledType DEF NotInstalled
<1>3. SavedInstalled \in [1..Len(saved) -> [Packages -> Releases \union {NotInstalled}]]
  BY <1>1, <1>2 DEF SavedInstalled
<1>4. SavedInstalled \in Seq([Packages -> Releases \union {NotInstalled}])
  BY <1>1, <1>3, SeqDef
<1> QED BY <1>1, <1>3, <1>4 DEF SavedInstalled

(* Each operation is a step of the set of packages, or leaves it alone.      *)
LEMMA RefinementStep ==
  TypeOK /\ Consistent /\ TypeOK' /\ [Next]_vars => [Installed!Next]_(Installed!vars)
<1> SUFFICES ASSUME TypeOK, Consistent, TypeOK', [Next]_vars
             PROVE  Installed!Next \/ UNCHANGED <<InstalledIn(tables), SavedInstalled>>
  BY DEF Installed!vars
<1>1. /\ tables \in Tables /\ ConsistentTables(tables)
      /\ held \in [Callers -> Ids \union {0}]
  BY DEF TypeOK, Consistent
<1>2. saved' = saved => SavedInstalled' = SavedInstalled
  BY DEF SavedInstalled
<1>3. ASSUME NEW c \in Callers, Query(c) \/ PushConflict(c)
      PROVE  UNCHANGED <<InstalledIn(tables), SavedInstalled>>
  BY <1>2, <1>3 DEF Query, PushConflict
<1>4. ASSUME NEW c \in Callers, Push(c)
      PROVE  Installed!Next
  <2>1. PICK r \in Releases, f \in Flags, i \in Ids :
          /\ Conflicts(tables, r) = {}
          /\ IsPushId(tables, r.pkg, i)
          /\ tables' = Pushed(tables, r, f, i)
          /\ UNCHANGED saved
    BY <1>4 DEF Push
  <2>2. InstalledIn(tables') = [InstalledIn(tables) EXCEPT ![r.pkg] = r]
    BY <1>1, <2>1, PushedInstalls
  <2>3. Installed!Free(r)
    BY <1>1, <2>1, NoConflictIsFree DEF Installed!Free, NotInstalled
  <2> QED BY <1>2, <2>1, <2>2, <2>3 DEF Installed!Next, Installed!Install
<1>5. ASSUME NEW c \in Callers, SetFlags(c)
      PROVE  UNCHANGED <<InstalledIn(tables), SavedInstalled>>
  <2>1. PICK f \in Flags : tables' = FlagsSet(tables, held[c], f) /\ UNCHANGED saved
    BY <1>5 DEF SetFlags
  <2> QED BY <1>1, <1>2, <2>1, FlagsSetInstalled
<1>6. ASSUME NEW c \in Callers, Forget(c)
      PROVE  Installed!Next \/ UNCHANGED <<InstalledIn(tables), SavedInstalled>>
  <2>1. tables' = Forgotten(tables, held[c]) /\ UNCHANGED saved
    BY <1>6 DEF Forget
  <2>2. \/ InstalledIn(tables') = InstalledIn(tables)
        \/ \E pkg \in Packages :
             InstalledIn(tables') = [InstalledIn(tables) EXCEPT ![pkg] = NotInstalled]
    BY <1>1, <2>1, ForgottenRemoves DEF NotInstalled
  <2> QED BY <1>2, <2>1, <2>2 DEF Installed!Next, Installed!Remove
<1>7. PICK n : n = Len(saved)
  OBVIOUS
<1>8. /\ SavedInstalled \in Seq([Packages -> Releases \union {NotInstalled}])
      /\ Len(SavedInstalled) = n /\ n \in Nat
      /\ \A k \in 1..n : SavedInstalled[k] = InstalledIn(saved[k])
  BY <1>7, SavedInstalledSeq DEF TypeOK
<1>9. /\ SavedInstalled' \in Seq([Packages -> Releases \union {NotInstalled}])
      /\ Len(SavedInstalled') = Len(saved')
      /\ \A k \in 1..Len(saved') : SavedInstalled'[k] = InstalledIn(saved'[k])
  <2>1. (TypeOK =>
          /\ SavedInstalled \in Seq([Packages -> Releases \union {NotInstalled}])
          /\ Len(SavedInstalled) = Len(saved)
          /\ \A k \in 1..Len(saved) : SavedInstalled[k] = InstalledIn(saved[k]))'
    BY SavedInstalledSeq, PTL
  <2> QED BY <2>1
<1>10. CASE Savepoint
  <2>1. /\ Len(saved') = n + 1 /\ saved'[n + 1] = tables
        /\ \A k \in 1..n : saved'[k] = saved[k]
        /\ tables' = tables /\ n < MaxDepth
    BY <1>7, <1>10 DEF Savepoint, TypeOK
  <2>2. InstalledIn(tables) \in [Packages -> Releases \union {NotInstalled}]
    <3>1. n + 1 \in 1..Len(saved')
      BY <1>8, <2>1
    <3>2. SavedInstalled'[n + 1] \in [Packages -> Releases \union {NotInstalled}]
      BY <1>9, <3>1, ElementOfSeq
    <3> QED BY <1>9, <2>1, <3>1, <3>2
  <2>3. PICK s, t, a : s = SavedInstalled /\ t = SavedInstalled' /\ a = InstalledIn(tables)
    OBVIOUS
  <2>4. /\ Append(s, a) \in Seq([Packages -> Releases \union {NotInstalled}])
        /\ Len(Append(s, a)) = n + 1
        /\ \A k \in 1..n : Append(s, a)[k] = s[k]
        /\ Append(s, a)[n + 1] = a
    BY <1>8, <2>2, <2>3, AppendProperties
  <2>5. \A k \in 1..(n + 1) : k \in 1..n \/ k = n + 1
    BY <1>8
  <2>6. \A k \in 1..(n + 1) : t[k] = Append(s, a)[k]
    BY <1>8, <1>9, <2>1, <2>3, <2>4, <2>5
  <2>7. SavedInstalled' = Append(SavedInstalled, InstalledIn(tables))
    BY <1>9, <2>1, <2>3, <2>4, <2>6, SeqEqual
  <2> QED BY <1>8, <2>1, <2>7 DEF Installed!Next, Installed!Savepoint
<1>11. CASE Restore
  <2>1. /\ n > 0 /\ tables' = saved[n] /\ Len(saved') = n - 1
        /\ \A k \in 1..(n - 1) : saved'[k] = saved[k]
    BY <1>7, <1>11 DEF Restore, TypeOK
  <2>2. PICK s, t : s = SavedInstalled /\ t = SavedInstalled'
    OBVIOUS
  <2>3. /\ SubSeq(s, 1, n - 1) \in Seq([Packages -> Releases \union {NotInstalled}])
        /\ Len(SubSeq(s, 1, n - 1)) = n - 1
        /\ \A k \in 1..(n - 1) : SubSeq(s, 1, n - 1)[k] = s[k]
    BY <1>8, <2>1, <2>2
  <2>4. \A k \in 1..(n - 1) : t[k] = SubSeq(s, 1, n - 1)[k]
    BY <1>8, <1>9, <2>1, <2>2, <2>3
  <2>5. SavedInstalled' = SubSeq(SavedInstalled, 1, n - 1)
    BY <1>9, <2>1, <2>2, <2>3, <2>4, SeqEqual
  <2>6. InstalledIn(tables') = SavedInstalled[n]
    BY <1>8, <2>1
  <2> QED BY <1>8, <2>1, <2>5, <2>6 DEF Installed!Next, Installed!Restore
<1>12. CASE UNCHANGED vars
  BY <1>2, <1>12 DEF vars
<1> QED BY <1>3, <1>4, <1>5, <1>6, <1>10, <1>11, <1>12 DEF Next

(* registry.cpp:149-229 and 328-335: two tables related by reusable ids      *)
(* implement a set of packages with disjoint files, each installed, replaced *)
(* and removed as a whole, through any copies of entries callers hold.       *)
THEOREM RegistryImplementsPackageSet == Spec => ImplementsPackageSet
<1>1. Init => Installed!Init
  <2> SUFFICES ASSUME Init PROVE Installed!Init
    OBVIOUS
  <2>1. \A pkg \in Packages : ~HasEntry(tables, pkg)
    BY DEF Init, EmptyTables, HasEntry, Names
  <2>2. InstalledIn(tables) = [pkg \in Packages |-> NotInstalled]
    BY <2>1 DEF InstalledIn, NotInstalled
  <2>3. Len(saved) = 0
    BY EmptySeq DEF Init
  <2>4. SavedInstalled = <<>>
    BY <2>3, InitInvariant, SavedInstalledSeq, EmptySeq
  <2> QED BY <2>2, <2>4 DEF Installed!Init
<1>2. Spec => [](TypeOK /\ Consistent)
  BY RegistryTypeCorrect, RegistryConsistent, PTL
<1> QED
  BY <1>1, <1>2, RefinementStep, PTL
  DEF Spec, Installed!Spec, ImplementsPackageSet

-----------------------------------------------------------------------------
(* registry.cpp:165-176: an update keeps the id of the package's row, so     *)
(* only forgetting a package (or going back to a savepoint) can make a copy  *)
(* of its entry stale.                                                       *)
THEOREM RegistryKeepsIds == Spec => IdsAreKept
<1> DEFINE Kept ==
      \A i \in Ids : tables.entries[i] # NoRow /\ ~Restore =>
        \/ Names(tables', i, tables.entries[i].release.pkg)
        \/ ~HasEntry(tables', tables.entries[i].release.pkg)
<1>1. TypeOK /\ Consistent /\ TypeOK' /\ Consistent' /\ [Next]_vars => [Kept]_vars
  <2> SUFFICES ASSUME TypeOK, Consistent, TypeOK', Consistent', Next,
                      NEW i \in Ids, tables.entries[i] # NoRow, ~Restore
               PROVE  \/ Names(tables', i, tables.entries[i].release.pkg)
                      \/ ~HasEntry(tables', tables.entries[i].release.pkg)
    OBVIOUS
  <2> DEFINE pkg == tables.entries[i].release.pkg
  <2>1. /\ tables \in Tables /\ OneEntryPerPackage(tables) /\ Names(tables, i, pkg)
        /\ OneEntryPerPackage(tables')
        /\ held \in [Callers -> Ids \union {0}]
    BY DEF TypeOK, Consistent, ConsistentTables, Names
  <2>2. CASE UNCHANGED tables
    BY <2>1, <2>2
  <2>3. ASSUME NEW c \in Callers, Push(c)
        PROVE  Names(tables', i, pkg)
    <3>1. PICK r \in Releases, f \in Flags, j \in Ids :
            IsPushId(tables, r.pkg, j) /\ tables' = Pushed(tables, r, f, j)
      BY <2>3 DEF Push
    <3>2. /\ tables'.entries[j] = [release |-> r, flags |-> f]
          /\ [release |-> r, flags |-> f] # NoRow
          /\ \A k \in Ids \ {j} : tables'.entries[k] = tables.entries[k]
      BY <2>1, <3>1, RegistryAssumption DEF Pushed, Tables
    <3>3. CASE j # i
      BY <2>1, <3>2, <3>3 DEF Names
    <3>4. CASE j = i
      <4>1. r.pkg = pkg
        BY <2>1, <3>1, <3>4 DEF IsPushId, Names
      <4> QED BY <3>2, <3>4, <4>1 DEF Names
    <3> QED BY <3>3, <3>4
  <2>4. ASSUME NEW c \in Callers, SetFlags(c)
        PROVE  Names(tables', i, pkg)
    <3>1. PICK f \in Flags : tables' = FlagsSet(tables, held[c], f)
      BY <2>4 DEF SetFlags
    <3>2. /\ tables'.entries[i] # NoRow
          /\ tables'.entries[i].release = tables.entries[i].release
      BY <2>1, <3>1, FlagsSetSameReleases
    <3> QED BY <3>2 DEF Names
  <2>5. ASSUME NEW c \in Callers, Forget(c)
        PROVE  Names(tables', i, pkg) \/ ~HasEntry(tables', pkg)
    <3>1. tables' = Forgotten(tables, held[c])
      BY <2>5 DEF Forget
    <3>2. CASE held[c] # i
      <4>1. tables'.entries[i] = tables.entries[i]
        BY <2>1, <3>1, <3>2 DEF Forgotten, Tables
      <4> QED BY <2>1, <4>1 DEF Names
    <3>3. CASE held[c] = i
      <4>1. i # 0
        BY DEF Ids
      <4>2. /\ tables'.entries[i] = NoRow
            /\ \A k \in Ids \ {i} : tables'.entries[k] = tables.entries[k]
        BY <2>1, <3>1, <3>3, <4>1 DEF Forgotten, Tables
      <4>3. \A k \in Ids \ {i} : ~Names(tables, k, pkg)
        BY <2>1 DEF OneEntryPerPackage, Names
      <4>4. \A k \in Ids : ~Names(tables', k, pkg)
        BY <4>2, <4>3 DEF Names
      <4> QED BY <4>4 DEF HasEntry
    <3> QED BY <3>2, <3>3
  <2> QED
    BY <2>2, <2>3, <2>4, <2>5 DEF Next, Query, PushConflict, Savepoint
<1> QED
  BY <1>1, RegistryTypeCorrect, RegistryConsistent, PTL DEF Spec, IdsAreKept

-----------------------------------------------------------------------------
(* The connection below the registry *)

USE DatabaseAssumption DEF DatabaseAssumption

-----------------------------------------------------------------------------
(* A latest frame is unique, so Latest picks it.                             *)
LEMMA LatestIsLatest ==
  ASSUME NEW n, NEW i \in DOMAIN frames, IsLatest(i, n), frames \in Seq(Frames)
  PROVE  Latest(n) = i
<1>1. DOMAIN frames = 1..Len(frames) /\ Len(frames) \in Nat
  OBVIOUS
<1>2. \A j \in DOMAIN frames : IsLatest(j, n) => j = i
  BY <1>1 DEF IsLatest
<1> QED BY <1>2 DEF Latest

(* The empty stack of savepoints is well typed.                              *)
LEMMA NoFrames == <<>> \in Seq(Frames)
BY EmptySeq

(* The initial state is well typed.                                          *)
LEMMA TypeInit == DatabaseInit => DatabaseTypeOK
<1> SUFFICES ASSUME DatabaseInit PROVE DatabaseTypeOK
  OBVIOUS
<1>1. frames \in Seq(Frames)
  BY NoFrames DEF DatabaseInit
<1>2. durable \in Contents /\ contents \in Contents
  BY DEF DatabaseInit
<1>3. savePoint \in Nat
  BY DEF DatabaseInit
<1>4. inTx \in BOOLEAN
  BY DEF DatabaseInit
<1> QED BY <1>1, <1>2, <1>3, <1>4 DEF DatabaseTypeOK

(* The innermost savepoint in use is on SQLite's stack.                      *)
LEMMA LatestInDomain ==
  ASSUME Reachable, DatabaseTypeOK, savePoint > 0
  PROVE  /\ Latest(savePoint - 1) \in 1..Len(frames)
         /\ IsLatest(Latest(savePoint - 1), savePoint - 1)
<1>1. savePoint - 1 \in 0..(savePoint - 1)
  BY DEF DatabaseTypeOK
<1>2. PICK i \in DOMAIN frames : IsLatest(i, savePoint - 1)
  BY <1>1 DEF Reachable
<1>3. Latest(savePoint - 1) = i
  BY <1>2, LatestIsLatest DEF DatabaseTypeOK
<1> QED BY <1>2, <1>3 DEF DatabaseTypeOK

(* Every step keeps the types.                                               *)
LEMMA TypeStep == DatabaseTypeOK /\ Reachable /\ [DatabaseNext]_databaseVars => DatabaseTypeOK'
<1> SUFFICES ASSUME DatabaseTypeOK, Reachable, [DatabaseNext]_databaseVars PROVE DatabaseTypeOK'
  OBVIOUS
<1>1. CASE Begin
  BY <1>1 DEF Begin, DatabaseTypeOK
<1>2. CASE Write
  BY <1>2 DEF Write, DatabaseTypeOK
<1>3. CASE DatabaseSavepoint
  <2>1. [name |-> savePoint, contents |-> contents] \in Frames
    BY DEF DatabaseTypeOK, Frames
  <2>2. frames' \in Seq(Frames)
    BY <1>3, <2>1 DEF DatabaseSavepoint, DatabaseTypeOK
  <2> QED BY <1>3, <2>2 DEF DatabaseSavepoint, DatabaseTypeOK
<1>4. CASE DatabaseRestore
  <2> DEFINE l == Latest(savePoint - 1)
  <2>1. l \in 1..Len(frames)
    BY <1>4, LatestInDomain DEF DatabaseRestore
  <2>2. frames[l] \in Frames /\ SubSeq(frames, 1, l) \in Seq(Frames)
    BY <2>1 DEF DatabaseTypeOK
  <2> HIDE DEF l
  <2> QED BY <1>4, <2>1, <2>2 DEF DatabaseRestore, DatabaseTypeOK, Frames, l
<1>5. CASE Release
  <2> DEFINE l == Latest(savePoint - 1)
  <2>1. l \in 1..Len(frames)
    BY <1>5, LatestInDomain DEF Release
  <2>2. SubSeq(frames, 1, l - 1) \in Seq(Frames)
    BY <2>1 DEF DatabaseTypeOK
  <2> HIDE DEF l
  <2> QED BY <1>5, <2>1, <2>2 DEF Release, DatabaseTypeOK, l
<1>6. CASE Commit
  BY <1>6, NoFrames DEF Commit, DatabaseTypeOK
<1>7. CASE Close
  BY <1>7, NoFrames DEF Close, DatabaseTypeOK
<1>8. CASE UNCHANGED databaseVars
  BY <1>8 DEF databaseVars, DatabaseTypeOK
<1> QED BY <1>1, <1>2, <1>3, <1>4, <1>5, <1>6, <1>7, <1>8 DEF DatabaseNext

-----------------------------------------------------------------------------
(* What happens to the latest frames when a frame is pushed or when the      *)
(* stack is cut above or at the innermost one.                               *)
LEMMA AfterPush ==
  ASSUME DatabaseTypeOK, NEW n \in Nat, NEW f \in Frames, f.name = n,
         frames' = Append(frames, f), NEW m, m = Len(frames) + 1
  PROVE  /\ DOMAIN frames' = 1..m
         /\ frames'[m] = f
         /\ \A i \in DOMAIN frames : frames'[i] = frames[i]
         /\ IsLatest(m, n)'
         /\ \A k \in Nat \ {n} : \A i : IsLatest(i, k)' <=> IsLatest(i, k)
<1>1. /\ DOMAIN frames = 1..(m - 1) /\ m \in Nat \ {0}
      /\ DOMAIN frames' = 1..m
  BY DEF DatabaseTypeOK
<1>2. /\ frames'[m] = f
      /\ \A i \in DOMAIN frames : frames'[i] = frames[i]
  BY <1>1 DEF DatabaseTypeOK
<1>3. IsLatest(m, n)'
  <2>1. \A j \in DOMAIN frames' : j <= m
    BY <1>1
  <2> QED BY <1>1, <1>2, <2>1 DEF IsLatest
<1>4. ASSUME NEW k \in Nat \ {n}, NEW i
      PROVE  IsLatest(i, k)' <=> IsLatest(i, k)
  <2>1. i \in DOMAIN frames' <=> i \in DOMAIN frames \/ i = m
    BY <1>1
  <2>2. \A j \in DOMAIN frames' : frames'[j].name = k => j \in DOMAIN frames
    BY <1>1, <1>2
  <2> QED BY <1>1, <1>2, <2>1, <2>2 DEF IsLatest
<1> QED BY <1>1, <1>2, <1>3, <1>4

\* What is left of a stack after it was cut.
LEMMA AfterCut ==
  ASSUME DatabaseTypeOK, NEW l \in 0..Len(frames), frames' = SubSeq(frames, 1, l),
         NEW k, NEW i \in 1..l, IsLatest(i, k)
  PROVE  IsLatest(i, k)'
<1>1. DOMAIN frames = 1..Len(frames) /\ Len(frames) \in Nat
  BY DEF DatabaseTypeOK
<1>2. DOMAIN frames' = 1..l /\ \A j \in 1..l : frames'[j] = frames[j]
  BY <1>1 DEF DatabaseTypeOK
<1> QED BY <1>1, <1>2 DEF IsLatest

-----------------------------------------------------------------------------
(* Every savepoint in use stays on SQLite's stack, in nesting order.         *)
LEMMA NestedInit == DatabaseInit => FramesNested
BY DEF DatabaseInit, FramesNested, Reachable, Ordered

(* Cutting the stack at or just below the innermost savepoint in use keeps   *)
(* the latest frames of the outer ones.                                      *)
LEMMA CutKeepsOuter ==
  ASSUME DatabaseTypeOK, FramesNested, savePoint > 0, NEW s, s = savePoint - 1,
         NEW l \in {Latest(s), Latest(s) - 1}, frames' = SubSeq(frames, 1, l)
  PROVE  /\ l \in 0..Len(frames)
         /\ \A k \in 0..(s - 1) : \A i :
              /\ IsLatest(i, k) => IsLatest(i, k)'
              /\ IsLatest(i, k)' => IsLatest(i, k)
<1>1. s \in Nat /\ s \in 0..(savePoint - 1) /\ Len(frames) \in Nat
  BY DEF DatabaseTypeOK
<1>2. /\ Latest(s) \in 1..Len(frames)
      /\ IsLatest(Latest(s), s)
  BY LatestInDomain DEF FramesNested
<1>3. l \in 0..Len(frames)
  BY <1>1, <1>2
<1>4. ASSUME NEW k \in 0..(s - 1), NEW i, IsLatest(i, k)
      PROVE  i \in 1..l /\ IsLatest(i, k)'
  <2>1. k \in 0..(savePoint - 1) /\ k < s
    BY <1>1 DEF DatabaseTypeOK
  <2>2. i \in DOMAIN frames /\ Latest(s) \in DOMAIN frames
    BY <1>2, <1>4 DEF IsLatest, DatabaseTypeOK
  <2>3. i < Latest(s)
    BY <1>1, <1>2, <1>4, <2>1, <2>2 DEF FramesNested, Ordered
  <2>4. i \in 1..l
    BY <1>1, <1>2, <2>2, <2>3 DEF DatabaseTypeOK
  <2> QED BY <1>3, <1>4, <2>4, AfterCut
<1>5. ASSUME NEW k \in 0..(s - 1), NEW i, IsLatest(i, k)'
      PROVE  IsLatest(i, k)
  <2>1. PICK j \in DOMAIN frames : IsLatest(j, k)
    BY <1>1 DEF FramesNested, Reachable, DatabaseTypeOK
  <2>2. IsLatest(j, k)'
    BY <1>4, <2>1
  <2>3. frames' \in Seq(Frames)
    BY <1>1, <1>3 DEF DatabaseTypeOK
  <2>4. DOMAIN frames' = 1..Len(frames') /\ Len(frames') \in Nat
    BY <2>3
  <2>5. i \in 1..Len(frames') /\ j \in 1..Len(frames')
    BY <1>5, <2>2, <2>4 DEF IsLatest
  <2>6. i <= j /\ j <= i
    BY <1>5, <2>2, <2>4, <2>5 DEF IsLatest
  <2>7. i = j
    BY <2>4, <2>5, <2>6
  <2> QED BY <2>1, <2>7
<1> QED BY <1>3, <1>4, <1>5

(* FramesNested depends on the frames and the counter only.                  *)
LEMMA NestedStep == DatabaseTypeOK /\ FramesNested /\ [DatabaseNext]_databaseVars => FramesNested'
<1> SUFFICES ASSUME DatabaseTypeOK, FramesNested, [DatabaseNext]_databaseVars PROVE FramesNested'
  OBVIOUS
<1>1. CASE UNCHANGED <<frames, savePoint>>
  BY <1>1 DEF FramesNested, Reachable, Ordered, IsLatest
<1>2. CASE savePoint' = 0
  BY <1>2 DEF FramesNested, Reachable, Ordered
<1>3. CASE DatabaseSavepoint
  <2> DEFINE m == Len(frames) + 1
             n == savePoint
             f == [name |-> n, contents |-> contents]
  <2>1. n \in Nat /\ f \in Frames /\ f.name = n
    BY DEF DatabaseTypeOK, Frames
  <2>2. frames' = Append(frames, f) /\ savePoint' = n + 1
    BY <1>3 DEF DatabaseSavepoint
  <2>3. m \in Nat /\ DOMAIN frames = 1..(m - 1)
    BY DEF DatabaseTypeOK
  <2> HIDE DEF f
  <2>4. PICK top : top = m
    OBVIOUS
  <2>5. PICK new : new = n
    OBVIOUS
  <2>6. /\ DOMAIN frames' = 1..top
        /\ IsLatest(top, new)'
        /\ \A k \in Nat \ {new} : \A i : IsLatest(i, k)' <=> IsLatest(i, k)
    BY <2>1, <2>2, <2>4, <2>5, AfterPush
  <2>7. \A k \in 0..(savePoint' - 1) :
          k = new \/ (k \in 0..(n - 1) /\ k \in Nat \ {new})
    <3>1. savePoint' - 1 = n
      BY <2>1, <2>2
    <3>2. \A k \in 0..n : k = n \/ k \in 0..(n - 1)
      BY <2>1
    <3>3. 0..(n - 1) \subseteq Nat
      BY <2>1
    <3> QED BY <3>1, <3>2, <3>3, <2>5
  <2>8. Reachable'
    <3>1. ASSUME NEW k \in 0..(n - 1), k \in Nat \ {new}
          PROVE  \E i \in 1..top : IsLatest(i, k)'
      <4>1. PICK i \in DOMAIN frames : IsLatest(i, k)
        BY <3>1 DEF FramesNested, Reachable
      <4> QED BY <2>3, <2>4, <2>6, <3>1, <4>1
    <3>2. \E i \in 1..top : IsLatest(i, new)'
      BY <2>3, <2>4, <2>6
    <3>3. \A k \in 0..(savePoint' - 1) : \E i \in 1..top : IsLatest(i, k)'
      BY <2>7, <3>1, <3>2
    <3> QED BY <2>6, <3>3 DEF Reachable
  <2>9. Ordered'
    <3> SUFFICES ASSUME NEW j \in 0..(savePoint' - 1), NEW k \in 0..(savePoint' - 1), j < k,
                        NEW i1, NEW i2, IsLatest(i1, j)', IsLatest(i2, k)'
                 PROVE  i1 < i2
      BY DEF Ordered
    <3>1. j \in 0..(n - 1) /\ j \in Nat \ {new} /\ IsLatest(i1, j)
      BY <2>1, <2>2, <2>5, <2>6
    <3>2. i1 \in 1..(m - 1)
      BY <2>3, <3>1 DEF IsLatest
    <3>3. CASE k = new
      <4>1. i2 = top
        BY <2>2, <2>6, <2>4, <2>3, <3>3 DEF IsLatest
      <4> QED BY <2>3, <2>4, <3>2, <4>1
    <3>4. CASE k # new
      <4>1. k \in 0..(n - 1) /\ IsLatest(i2, k)
        BY <2>6, <2>7, <3>4
      <4>2. i2 \in DOMAIN frames /\ i1 \in DOMAIN frames
        BY <3>1, <4>1 DEF IsLatest
      <4> QED BY <3>1, <4>1, <4>2 DEF FramesNested, Ordered
    <3> QED BY <3>3, <3>4
  <2> QED BY <2>8, <2>9 DEF FramesNested
<1>4. CASE DatabaseRestore \/ Release
  <2>1. PICK s : s = savePoint - 1
    OBVIOUS
  <2>2. PICK l \in {Latest(s), Latest(s) - 1} : frames' = SubSeq(frames, 1, l)
    BY <1>4, <2>1 DEF DatabaseRestore, Release
  <2>3. savePoint > 0 /\ savePoint' = s /\ s \in Nat
    BY <1>4, <2>1 DEF DatabaseRestore, Release, DatabaseTypeOK
  <2>4. \A k \in 0..(s - 1) : \A i : IsLatest(i, k)' <=> IsLatest(i, k)
    BY <2>1, <2>2, <2>3, CutKeepsOuter
  <2>5. \A k \in 0..(s - 1) : k \in 0..(savePoint - 1)
    BY <2>1, <2>3 DEF DatabaseTypeOK
  <2>6. Reachable'
    <3> SUFFICES ASSUME NEW k \in 0..(s - 1)
                 PROVE  \E i \in DOMAIN frames' : IsLatest(i, k)'
      BY <2>3 DEF Reachable
    <3>1. PICK i \in DOMAIN frames : IsLatest(i, k)
      BY <2>5 DEF FramesNested, Reachable
    <3>2. IsLatest(i, k)'
      BY <2>4, <3>1
    <3> QED BY <3>2 DEF IsLatest
  <2>7. Ordered'
    <3> SUFFICES ASSUME NEW j \in 0..(s - 1), NEW k \in 0..(s - 1), j < k,
                        NEW i1, NEW i2, IsLatest(i1, j)', IsLatest(i2, k)'
                 PROVE  i1 < i2
      BY <2>3 DEF Ordered
    <3>1. IsLatest(i1, j) /\ IsLatest(i2, k)
      BY <2>4
    <3>2. i1 \in DOMAIN frames /\ i2 \in DOMAIN frames
      BY <3>1 DEF IsLatest
    <3> QED BY <2>5, <3>1, <3>2 DEF FramesNested, Ordered
  <2> QED BY <2>6, <2>7 DEF FramesNested
<1> QED
  BY <1>1, <1>2, <1>3, <1>4
  DEF DatabaseNext, Begin, Write, Commit, Close, databaseVars

(* Types and nesting together are inductive.                                 *)
THEOREM DatabaseInvariant == DatabaseSpec => [](DatabaseTypeOK /\ FramesNested)
<1>1. DatabaseInit => DatabaseTypeOK /\ FramesNested
  BY TypeInit, NestedInit
<1>2. DatabaseTypeOK /\ FramesNested /\ [DatabaseNext]_databaseVars => (DatabaseTypeOK /\ FramesNested)'
  BY TypeStep, NestedStep DEF FramesNested
<1> QED BY <1>1, <1>2, PTL DEF DatabaseSpec

-----------------------------------------------------------------------------
(* The refinement: the abstract stack has one snapshot per savepoint in use. *)
LEMMA SnapshotsType ==
  ASSUME DatabaseTypeOK, Reachable
  PROVE  /\ Snapshots \in Seq(Contents)
         /\ Len(Snapshots) = savePoint
         /\ DOMAIN Snapshots = 1..savePoint
         /\ \A k \in 0..(savePoint - 1) : \A i :
              IsLatest(i, k) => Snapshots[k + 1] = frames[i].contents
<1>1. savePoint \in Nat
  BY DEF DatabaseTypeOK
<1>2. \A k \in 0..(savePoint - 1), i \in DOMAIN frames :
        IsLatest(i, k) => /\ Latest(k) = i
                          /\ frames[i] \in Frames
  BY LatestIsLatest DEF DatabaseTypeOK
<1>3. ASSUME NEW k \in 1..savePoint
      PROVE  frames[Latest(k - 1)].contents \in Contents
  <2>1. k - 1 \in 0..(savePoint - 1)
    BY <1>1
  <2>2. PICK i \in DOMAIN frames : IsLatest(i, k - 1)
    BY <2>1 DEF Reachable
  <2> QED BY <1>2, <2>1, <2>2 DEF Frames
<1>4. Snapshots \in [1..savePoint -> Contents]
  BY <1>3 DEF Snapshots
<1>5. Snapshots \in Seq(Contents)
  BY <1>1, <1>4, SeqDef
<1>6. ASSUME NEW k \in 0..(savePoint - 1), NEW i, IsLatest(i, k)
      PROVE  Snapshots[k + 1] = frames[i].contents
  <2>1. k + 1 \in 1..savePoint /\ (k + 1) - 1 = k
    BY <1>1
  <2>2. i \in DOMAIN frames
    BY <1>6 DEF IsLatest
  <2> QED BY <1>2, <1>6, <2>1, <2>2 DEF Snapshots
<1> QED BY <1>1, <1>4, <1>5, <1>6

(* The empty stack of snapshots.                                             *)
LEMMA NoSnapshots == savePoint = 0 => Snapshots = <<>>
BY DEF Snapshots

(* Every step of the connection is a step of the abstract one, or a stutter. *)
LEMMA ConnectionStep ==
  /\ DatabaseTypeOK /\ FramesNested /\ DatabaseTypeOK' /\ FramesNested'
  /\ [DatabaseNext]_databaseVars
  => [Nested!Next]_(Nested!vars)
<1> SUFFICES ASSUME DatabaseTypeOK, FramesNested, DatabaseTypeOK', FramesNested', [DatabaseNext]_databaseVars
             PROVE  Nested!Next \/ UNCHANGED Nested!vars
  BY DEF Nested!vars
<1>1. /\ Snapshots \in Seq(Contents)
      /\ Len(Snapshots) = savePoint
      /\ DOMAIN Snapshots = 1..savePoint
      /\ \A k \in 0..(savePoint - 1) : \A i :
           IsLatest(i, k) => Snapshots[k + 1] = frames[i].contents
  BY SnapshotsType DEF FramesNested
<1>2. /\ Snapshots' \in Seq(Contents)
      /\ Len(Snapshots') = savePoint'
      /\ DOMAIN Snapshots' = 1..savePoint'
      /\ \A k \in 0..(savePoint' - 1) : \A i :
           IsLatest(i, k)' => Snapshots'[k + 1] = frames'[i].contents
  <2>1. (DatabaseTypeOK /\ Reachable => 
          /\ Snapshots \in Seq(Contents)
          /\ Len(Snapshots) = savePoint
          /\ DOMAIN Snapshots = 1..savePoint
          /\ \A k \in 0..(savePoint - 1) : \A i :
              IsLatest(i, k) => Snapshots[k + 1] = frames[i].contents)'
    BY SnapshotsType, PTL
  <2> QED BY <2>1 DEF FramesNested
<1>3. savePoint \in Nat /\ savePoint' \in Nat
  BY DEF DatabaseTypeOK
<1>4. CASE Begin
  <2>1. Snapshots' = Snapshots
    BY <1>4 DEF Begin, Snapshots, Latest, IsLatest
  <2> QED BY <1>4, <2>1 DEF Begin, Nested!Next, Nested!Begin
<1>5. CASE Write
  <2>1. Snapshots' = Snapshots
    BY <1>5 DEF Write, Snapshots, Latest, IsLatest
  <2> QED BY <1>5, <2>1 DEF Write, Nested!Next, Nested!Write
<1>6. CASE Commit
  <2>1. Snapshots = <<>> /\ Snapshots' = <<>>
    BY <1>6, <1>1, <1>2, EmptySeq DEF Commit
  <2> QED BY <1>6, <2>1 DEF Commit, Nested!Next, Nested!Commit
<1>7. CASE Close
  <2>1. Snapshots' = <<>>
    BY <1>7, <1>2, EmptySeq DEF Close
  <2> QED BY <1>7, <2>1 DEF Close, Nested!Next, Nested!Close
<1>8. CASE UNCHANGED databaseVars
  <2>1. Snapshots' = Snapshots
    BY <1>8 DEF databaseVars, Snapshots, Latest, IsLatest
  <2> QED BY <1>8, <2>1 DEF databaseVars, Nested!vars
<1>9. CASE DatabaseSavepoint
  <2>1. PICK n : n = savePoint
    OBVIOUS
  <2>2. PICK m : m = Len(frames) + 1
    OBVIOUS
  <2>3. PICK f : f = [name |-> n, contents |-> contents]
    OBVIOUS
  <2>4. /\ n \in Nat /\ f \in Frames /\ f.name = n /\ f.contents = contents
        /\ frames' = Append(frames, f) /\ savePoint' = n + 1
    BY <1>9, <2>1, <2>3 DEF DatabaseSavepoint, DatabaseTypeOK, Frames
  <2>5. /\ frames'[m] = f
        /\ \A i \in DOMAIN frames : frames'[i] = frames[i]
        /\ IsLatest(m, n)'
        /\ \A k \in Nat \ {n} : \A i : IsLatest(i, k)' <=> IsLatest(i, k)
    BY <2>2, <2>4, AfterPush
  <2>6. contents \in Contents
    BY DEF DatabaseTypeOK
  <2>7. /\ Append(Snapshots, contents) \in Seq(Contents)
        /\ Len(Append(Snapshots, contents)) = n + 1
        /\ \A k \in 1..n : Append(Snapshots, contents)[k] = Snapshots[k]
        /\ Append(Snapshots, contents)[n + 1] = contents
    <3>1. PICK t : t = Snapshots
      OBVIOUS
    <3>2. t \in Seq(Contents) /\ Len(t) = n
      BY <1>1, <2>1, <3>1
    <3>3. PICK c : c = contents
      OBVIOUS
    <3>4. c \in Contents
      BY <2>6, <3>3
    <3>5. /\ Append(t, c) \in Seq(Contents)
          /\ Len(Append(t, c)) = n + 1
          /\ \A k \in 1..n : Append(t, c)[k] = t[k]
          /\ Append(t, c)[n + 1] = c
      BY <2>4, <3>2, <3>4, AppendProperties
    <3> QED BY <3>1, <3>3, <3>5
  <2>8. Snapshots'[n + 1] = contents
    <3>1. n \in 0..(savePoint' - 1)
      BY <2>4
    <3>2. Snapshots'[n + 1] = frames'[m].contents
      BY <1>2, <2>5, <3>1
    <3> QED BY <2>4, <2>5, <3>2
  <2>9. ASSUME NEW k \in 1..n
        PROVE  Snapshots'[k] = Snapshots[k]
    <3>1. PICK j : j = k - 1
      OBVIOUS
    <3>2. j \in 0..(n - 1) /\ j \in 0..(savePoint' - 1) /\ j \in Nat \ {n} /\ k = j + 1
      BY <2>4, <3>1
    <3>3. PICK i \in DOMAIN frames : IsLatest(i, j)
      BY <2>1, <3>2 DEF FramesNested, Reachable
    <3>4. IsLatest(i, j)'
      BY <2>5, <3>2, <3>3
    <3>5. Snapshots[k] = frames[i].contents
      BY <1>1, <2>1, <3>2, <3>3
    <3>6. Snapshots'[k] = frames'[i].contents
      BY <1>2, <3>2, <3>4
    <3> QED BY <2>5, <3>3, <3>5, <3>6
  <2>10. \A k \in 1..(n + 1) : Snapshots'[k] = Append(Snapshots, contents)[k]
    <3>1. \A k \in 1..(n + 1) : k \in 1..n \/ k = n + 1
      BY <2>4
    <3> QED BY <2>7, <2>8, <2>9, <3>1
  <2>11. Snapshots' = Append(Snapshots, contents)
    BY <1>2, <2>4, <2>7, <2>10, SeqEqual
  <2>12. Len(Snapshots) < MaxSavePoint
    BY <1>1, <1>9 DEF DatabaseSavepoint
  <2> QED BY <1>9, <2>11, <2>12 DEF DatabaseSavepoint, Nested!Next, Nested!Savepoint
<1>10. CASE DatabaseRestore \/ Release
  <2>1. PICK s : s = savePoint - 1
    OBVIOUS
  <2>2. PICK l \in {Latest(s), Latest(s) - 1} : frames' = SubSeq(frames, 1, l)
    BY <1>10, <2>1 DEF DatabaseRestore, Release
  <2>3. savePoint > 0 /\ savePoint' = s /\ s \in Nat
    BY <1>10, <2>1 DEF DatabaseRestore, Release, DatabaseTypeOK
  <2>4. /\ l \in 0..Len(frames)
        /\ \A k \in 0..(s - 1) : \A i : IsLatest(i, k)' => IsLatest(i, k)
    BY <2>1, <2>2, <2>3, CutKeepsOuter
  <2>5. \A i \in DOMAIN frames' : frames'[i] = frames[i]
    BY <2>2, <2>4 DEF DatabaseTypeOK
  <2>6. /\ SubSeq(Snapshots, 1, s) \in Seq(Contents)
        /\ Len(SubSeq(Snapshots, 1, s)) = s
        /\ \A k \in 1..s : SubSeq(Snapshots, 1, s)[k] = Snapshots[k]
    BY <1>1, <2>1, <2>3
  <2>7. ASSUME NEW k \in 1..s
        PROVE  Snapshots'[k] = Snapshots[k]
    <3>1. PICK j : j = k - 1
      OBVIOUS
    <3>2. j \in 0..(s - 1) /\ j \in 0..(savePoint - 1) /\ k = j + 1
      BY <1>3, <2>1, <2>3, <3>1
    <3>3. PICK i \in DOMAIN frames' : IsLatest(i, j)'
      BY <2>3, <3>2 DEF FramesNested, Reachable
    <3>4. IsLatest(i, j)
      BY <2>4, <3>2, <3>3
    <3>5. Snapshots[k] = frames[i].contents
      BY <1>1, <3>2, <3>4
    <3>6. Snapshots'[k] = frames'[i].contents
      BY <1>2, <2>3, <3>2, <3>3
    <3> QED BY <2>5, <3>3, <3>5, <3>6
  <2>8. Snapshots' = SubSeq(Snapshots, 1, s)
    BY <1>2, <2>3, <2>6, <2>7, SeqEqual
  <2>9. Nested!Drop /\ Len(Snapshots) > 0
    BY <1>1, <2>1, <2>3, <2>8 DEF Nested!Drop
  <2>10. CASE Release
    BY <2>9, <2>10 DEF Release, Nested!Next, Nested!Release
  <2>11. CASE DatabaseRestore
    <3>1. contents' = frames[Latest(s)].contents
      BY <2>1, <2>11 DEF DatabaseRestore
    <3>2. IsLatest(Latest(s), s) /\ s \in 0..(savePoint - 1)
      BY <2>1, <2>3, LatestInDomain DEF FramesNested
    <3>3. contents' = Snapshots[Len(Snapshots)]
      BY <1>1, <1>3, <2>1, <3>1, <3>2
    <3> QED BY <2>9, <2>11, <3>3 DEF DatabaseRestore, Nested!Next, Nested!Restore
  <2> QED BY <1>10, <2>10, <2>11
<1> QED
  BY <1>4, <1>5, <1>6, <1>7, <1>8, <1>9, <1>10 DEF DatabaseNext

(* database.cpp:110-132: with named savepoints that SQLite keeps after a     *)
(* rollback, every restore() still goes back to its own savepoint().         *)
THEOREM DatabaseImplementsNestedTransaction == DatabaseSpec => ImplementsNestedTransaction
<1>1. DatabaseInit => Nested!Init
  BY NoSnapshots DEF DatabaseInit, Nested!Init
<1> QED
  BY <1>1, ConnectionStep, DatabaseInvariant, PTL
  DEF DatabaseSpec, Nested!Spec, ImplementsNestedTransaction
=============================================================================
