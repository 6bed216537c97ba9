--------------------------- MODULE ArchiveProofs ---------------------------
(***************************************************************************)
(* An archive holds what its table lists and an import follows the table,   *)
(* for any names, keys, versions, flags, computers and number of commands.  *)
(***************************************************************************)
EXTENDS Archive, FiniteSetTheorems, SequenceTheorems, WellFoundedInduction, TLAPS

-----------------------------------------------------------------------------
(* Types *)

Lists == [remotes : Seq(Remote), map : UNION {[N -> Nat] : N \in SUBSET Names}]

TocLines == [type : {"R"}, remote : Remote]
            \union [type : {"P"}, key : Keys, version : Versions, flags : Flags]

Registries == [Package -> RegistryEntry]

Archives == [toc : Seq(TocLines), indexes : [Names -> IndexFile],
             files : [Package -> Versions \union {NoVersion}], whole : BOOLEAN]

ExportTask == [kind |-> "export"]
Tasks == {ExportTask} \union [kind : {"uninstall"}, package : Package]
         \union [kind : {"install"}, package : Package, version : Versions, flags : Flags,
                 archive : SUBSET Archives]

Jobs == [do : {"index"}, name : Names] \union [do : {"compress"}, package : Package]
        \union [do : {"extract"}, package : Package, archive : SUBSET Archives]

Errors == [at : {"line"}, line : Nat] \union [at : {"package"}, package : Package]
          \union {Exporting}

\* What an import started from.
Imports == [toc : Seq(TocLines), before : Registries, self : Remote]

TypeOK ==
  /\ list \in Lists /\ cache \in [Names -> IndexFile] /\ registry \in Registries
  /\ open \in BOOLEAN /\ cancelled \in BOOLEAN
  /\ queues \in Seq(Seq(Tasks)) /\ active \in Seq(Tasks)
  /\ jobs \in Seq(Jobs) /\ failed \in SUBSET Package /\ receipt \in SUBSET Errors
  /\ temp \in SUBSET Archives /\ zip \in SUBSET Archives
  /\ imported \in SUBSET Imports /\ touched \in SUBSET Package

-----------------------------------------------------------------------------
(* The inductive invariant: archives and tasks *)

\* The map finds what it names.
Finds(l) ==
  \A n \in DOMAIN l.map : l.map[n] \in DOMAIN l.remotes /\ l.remotes[l.map[n]].name = n

\* The list has the protected remote.
ListOK == Finds(list) /\ HasName(list, Self)

\* The repository line of a line.
LastRepo(toc, j, i) ==
  j \in 1..i /\ toc[j].type = "R" /\ \A n \in (j + 1)..i : toc[n].type # "R"

At(toc, i) == <<RepoOf(toc, i), toc[i].key>>

\* A table that was made of a registry: it starts with a repository, and the packages
\* below one are those of the registry.
TocOf(toc, reg) ==
  /\ toc # <<>> => toc[1].type = "R"
  /\ \A i, j \in DOMAIN toc : toc[i].type = "P" /\ LastRepo(toc, j, i) =>
       reg[<<toc[j].remote.name, toc[i].key>>]
         = [version |-> toc[i].version, flags |-> toc[i].flags]

\* The files were those of the registry.
FilesOf(z, reg) == \A p \in Package : z.files[p] \in {NoVersion, reg[p].version}

Holds(z, i) ==
  IF z.toc[i].type = "R" THEN z.indexes[z.toc[i].remote.name] # NoIndex
  ELSE z.files[At(z.toc, i)] = z.toc[i].version

\* Of a finished archive.
ZipOK == \A z \in zip :
  /\ \E reg \in Registries : TocOf(z.toc, reg) /\ FilesOf(z, reg)
  /\ z.whole => \A i \in DOMAIN z.toc : Holds(z, i)

\* Of the one that is being written: what it does not hold is still a job.
TempOK == \A z \in temp :
  /\ active = <<ExportTask>>
  /\ TocOf(z.toc, registry) /\ FilesOf(z, registry)
  /\ z.whole => \A i \in DOMAIN z.toc :
       Holds(z, i) \/ \E k \in DOMAIN jobs : jobs[k] = JobsOf(z.toc)[i]

\* An export is alone in its queue; an archive has nothing else than the version that
\* a task takes from it.
TaskOK(t) ==
  /\ t.kind # "export"
  /\ t.kind = "install" =>
       \/ t.archive = {}
       \/ \E z \in Archives : t.archive = {z} /\ z.files[t.package] \in {NoVersion, t.version}

QueueOK(q) == q = <<ExportTask>> \/ \A k \in DOMAIN q : TaskOK(q[k])

\* A file that is to be extracted is, or its job failed or is still there.
Extracting == \A k \in DOMAIN active : active[k].kind = "install" /\ active[k].archive # {} =>
  \/ active[k].package \in failed
  \/ \E z \in active[k].archive : z.files[active[k].package] # NoVersion
  \/ \E n \in DOMAIN jobs : jobs[n] = [do |-> "extract", package |-> active[k].package,
                                       archive |-> active[k].archive]

TasksOK ==
  /\ ~open => Idle
  /\ active = <<>> => jobs = <<>> /\ failed = {}
  /\ QueueOK(active) /\ \A n \in DOMAIN queues : QueueOK(queues[n])
  /\ Extracting
  /\ \A p \in failed : Task(p) \in receipt

FilesOK == disk = [p \in Package |-> registry[p].version]

-----------------------------------------------------------------------------
(* The inductive invariant: what an import accounts for *)

In(t, queue) == \E k \in DOMAIN queue : queue[k] = t
Pending(t) == In(t, active) \/ \E n \in DOMAIN queues : In(t, queues[n])

\* The task an import makes of a line of its table.
Wanted(m, t, i) ==
  /\ m.toc[i].type = "P" /\ t.kind = "install" /\ t.package = At(m.toc, i)
  /\ t.version = m.toc[i].version /\ t.flags = m.toc[i].flags

Accounted(m, i) ==
  \/ registry[At(m.toc, i)] = [version |-> m.toc[i].version, flags |-> m.toc[i].flags]
  \/ receipt \cap {Line(i), Line(RepoLine(m.toc, i)), Task(At(m.toc, i))} # {}
  \/ At(m.toc, i) \in touched
  \/ \E t \in Tasks : Pending(t) /\ Wanted(m, t, i)

Expected(t) ==
  \/ t.kind = "export" \/ t.package \in touched
  \/ \E m \in imported : \E i \in DOMAIN m.toc : Wanted(m, t, i)

Packages(toc) == {i \in DOMAIN toc : toc[i].type = "P"}

ImportOK(m) ==
  /\ \E reg \in Registries : TocOf(m.toc, reg)
  /\ cancelled \/ \A i \in Packages(m.toc) : Accounted(m, i)
  /\ \A p \in Package \ (touched \union {At(m.toc, i) : i \in Packages(m.toc)}) :
       registry[p] = m.before[p]
  /\ Get(list, Self).url = m.self.url

HistoryOK ==
  /\ imported # {} \/ touched # {} => open
  /\ \A m, n \in imported : m = n
  /\ \A t \in Tasks : Pending(t) => Expected(t)
  /\ \A m \in imported : ImportOK(m)

StateOK == TypeOK /\ ListOK /\ ZipOK /\ TempOK /\ TasksOK /\ FilesOK
Inv == StateOK /\ HistoryOK

-----------------------------------------------------------------------------
(* Counting up *)

\* A set of numbers has a least one: the intervals from 0 to its members, ordered by
\* inclusion, have a minimal one.
LEMMA LeastNat ==
  ASSUME NEW S \in SUBSET Nat, S # {}
  PROVE  \E m \in S : \A k \in S : m <= k
<1>1. PICK n \in S : TRUE
  OBVIOUS
<1> DEFINE T == {0..k : k \in {j \in S : j <= n}}
<1>2. IsFiniteSet(0..n)
  BY FS_Interval
<1>3. T # {} /\ T \subseteq FiniteSubsetsOf(0..n)
  <2>1. 0..n \in T
    BY <1>1
  <2>2. ASSUME NEW k \in S, k <= n PROVE 0..k \in FiniteSubsetsOf(0..n)
    <3>1. k \in Nat /\ n \in Nat
      OBVIOUS
    <3>2. IsFiniteSet(0..k)
      BY <3>1, FS_Interval
    <3>3. 0..k \subseteq 0..n
      BY <3>1, <2>2
    <3> QED BY <3>2, <3>3 DEF FiniteSubsetsOf
  <2> QED BY <2>1, <2>2
<1>4. PICK x \in T : \A y \in T : ~(<<y, x>> \in StrictSubsetOrdering(0..n))
  <2> HIDE DEF T
  <2>1. IsWellFoundedOn(StrictSubsetOrdering(0..n), FiniteSubsetsOf(0..n))
    BY <1>2, FS_StrictSubsetOrderingWellFounded
  <2> QED BY <2>1, <1>3, WFMin
<1>5. PICK m \in S : m <= n /\ x = 0..m
  BY <1>4
<1>6. ASSUME NEW k \in S, k < m PROVE FALSE
  <2>1. k \in Nat /\ m \in Nat /\ n \in Nat
    OBVIOUS
  <2>2. 0..k \in T
    BY <1>5, <1>6, <2>1
  <2>3. 0..k \subseteq 0..n /\ 0..m \subseteq 0..n /\ 0..k \subseteq 0..m
    BY <1>5, <1>6, <2>1
  <2>4. 0..k # 0..m
    <3>1. m \in 0..m /\ m \notin 0..k
      BY <2>1, <1>6
    <3> QED BY <3>1
  <2>5. <<0..k, 0..m>> \in StrictSubsetOrdering(0..n)
    BY <2>3, <2>4 DEF StrictSubsetOrdering
  <2> QED BY <1>4, <1>5, <2>2, <2>5
<1>7. \A k \in S : m <= k
  BY <1>5, <1>6
<1> QED BY <1>5, <1>7

\* What holds of 0, and of a number when it holds of the one before, holds up to n.
LEMMA CountUp ==
  ASSUME NEW n \in Nat, NEW S, 0 \in S, \A k \in 1..n : k - 1 \in S => k \in S
  PROVE  \A k \in 0..n : k \in S
<1> DEFINE Left == {k \in 0..n : k \notin S}
<1>1. SUFFICES ASSUME Left # {} PROVE FALSE
  OBVIOUS
<1>2. PICK m \in Left : \A k \in Left : m <= k
  <2>1. Left \in SUBSET Nat
    OBVIOUS
  <2> HIDE DEF Left
  <2> QED BY <1>1, <2>1, LeastNat
<1>3. m \in 1..n /\ m - 1 \in 0..n /\ m \notin S
  OBVIOUS
<1>4. m - 1 \in S
  BY <1>2, <1>3
<1> QED BY <1>3, <1>4

-----------------------------------------------------------------------------
(* Recursive functions that go through a sequence *)

\* A function that starts from a value and makes each of its values of the one before.
Walk(g, n, base, step) == g[0] = base /\ \A k \in 1..n : g[k] = step[k][g[k - 1]]

\* There is one, when the steps stay in a set.
LEMMA Steps ==
  ASSUME NEW n \in Nat, NEW S, NEW base \in S, NEW step,
         \A k \in 1..n : \A x \in S : step[k][x] \in S
  PROVE  \E g \in [0..n -> S] : Walk(g, n, base, step)
<1> DEFINE Made(g, m) == Walk(g, m, base, step)
           M == {m \in 0..n : \E g \in [0..m -> S] : Made(g, m)}
<1>1. 0 \in M
  <2> DEFINE g == [k \in 0..0 |-> base]
  <2>1. g \in [0..0 -> S] /\ Made(g, 0)
    BY DEF Walk
  <2> HIDE DEF g, Made
  <2> QED BY <2>1
<1>2. ASSUME NEW m \in 1..n, m - 1 \in M PROVE m \in M
  <2>1. PICK g \in [0..(m - 1) -> S] : Made(g, m - 1)
    BY <1>2
  <2> DEFINE h == [k \in 0..m |-> IF k = m THEN step[m][g[m - 1]] ELSE g[k]]
  <2>2. step[m][g[m - 1]] \in S
    <3>1. m - 1 \in 0..(m - 1)
      OBVIOUS
    <3> QED BY <3>1
  <2>3. h \in [0..m -> S]
    BY <2>2
  <2>4. h[0] = base
    BY <2>1 DEF Walk
  <2>5. \A k \in 1..m : h[k] = step[k][h[k - 1]]
    <3> SUFFICES ASSUME NEW k \in 1..m PROVE h[k] = step[k][h[k - 1]]
      OBVIOUS
    <3>1. k \in 0..m /\ k - 1 \in 0..m /\ k - 1 # m /\ h[k - 1] = g[k - 1]
      OBVIOUS
    <3>2. CASE k = m
      BY <3>1, <3>2
    <3>3. CASE k # m
      <4>1. k \in 1..(m - 1) /\ h[k] = g[k]
        BY <3>1, <3>3
      <4> QED BY <2>1, <3>1, <4>1 DEF Walk
    <3> QED BY <3>2, <3>3
  <2>6. Made(h, m)
    BY <2>4, <2>5 DEF Walk
  <2> HIDE DEF h, Made
  <2> QED BY <2>3, <2>6
<1>3. \A m \in 0..n : m \in M
  <2> HIDE DEF M
  <2> QED BY <1>1, <1>2, CountUp
<1> QED BY <1>3

-----------------------------------------------------------------------------
(* Sequences *)

\* What FlattenSeq has put together after each of the sequences.
LEMMA Flattened ==
  ASSUME NEW S, NEW seqs \in Seq(Seq(S))
  PROVE  \E f \in [0..Len(seqs) -> Seq(S)] :
           /\ f[0] = <<>> /\ \A k \in 1..Len(seqs) : f[k] = f[k - 1] \o seqs[k]
           /\ FlattenSeq(seqs) = f[Len(seqs)]
<1> DEFINE n == Len(seqs)
           step == [k \in 1..n |-> [x \in Seq(S) |-> x \o seqs[k]]]
           Flat(g) == g = [i \in 1..n |-> IF i = 1 THEN seqs[i] ELSE g[i - 1] \o seqs[i]]
<1>1. n \in Nat /\ \A k \in 1..n : seqs[k] \in Seq(S)
  OBVIOUS
<1>2. <<>> \in Seq(S) /\ \A x \in Seq(S) : <<>> \o x = x
  BY EmptySeq, ConcatEmptySeq
<1>3. \A k \in 1..n : \A x \in Seq(S) : step[k][x] = x \o seqs[k] /\ x \o seqs[k] \in Seq(S)
  BY <1>1, ConcatProperties
<1>4. PICK f \in [0..n -> Seq(S)] : Walk(f, n, <<>>, step)
  <2> DEFINE T == Seq(S)
  <2>1. n \in Nat /\ <<>> \in T /\ \A k \in 1..n : \A x \in T : step[k][x] \in T
    BY <1>1, <1>2, <1>3
  <2>2. \E f \in [0..n -> T] : Walk(f, n, <<>>, step)
    <3> HIDE DEF step, n, T
    <3> QED BY <2>1, Steps
  <2> QED BY <2>2
<1>5. f[0] = <<>> /\ \A k \in 1..n : f[k] = f[k - 1] \o seqs[k]
  <2>1. f[0] = <<>>
    BY <1>4 DEF Walk
  <2>2. ASSUME NEW k \in 1..n PROVE f[k] = f[k - 1] \o seqs[k]
    <3>1. k - 1 \in 0..n
      BY <1>1
    <3>2. f[k - 1] \in Seq(S)
      <4> HIDE DEF n
      <4> QED BY <3>1
    <3>3. f[k] = step[k][f[k - 1]]
      <4> HIDE DEF n, step
      <4> QED BY <1>4 DEF Walk
    <3> QED BY <1>3, <3>2, <3>3
  <2> QED BY <2>1, <2>2
<1>6. CASE n = 0
  <2>1. seqs = <<>>
    BY <1>6
  <2> QED BY <1>5, <1>6, <2>1 DEF FlattenSeq
<1>7. CASE n # 0
  <2>0. \A k \in 1..n : k = 1 => f[k] = seqs[k]
    <3> SUFFICES ASSUME NEW k \in 1..n, k = 1 PROVE f[k] = seqs[k]
      OBVIOUS
    <3>1. k - 1 = 0 /\ seqs[k] \in Seq(S)
      BY <1>1
    <3>2. f[k] = <<>> \o seqs[k]
      BY <1>5, <3>1
    <3> QED BY <1>2, <3>1, <3>2
  <2> DEFINE h == [k \in 1..n |-> f[k]]
  <2>1. Flat(h)
    <3>1. ASSUME NEW k \in 1..n PROVE h[k] = IF k = 1 THEN seqs[k] ELSE h[k - 1] \o seqs[k]
      <4>1. CASE k = 1
        BY <2>0, <4>1
      <4>2. CASE k # 1
        <5>1. k - 1 \in 1..n
          BY <1>1, <4>2
        <5> QED BY <1>5, <4>2, <5>1
      <4> QED BY <4>1, <4>2
    <3> QED BY <3>1
  <2> DEFINE g == CHOOSE g : Flat(g)
  <2>2. Flat(g)
    <3> HIDE DEF Flat, h
    <3> QED BY <2>1
  <2>3. FlattenSeq(seqs) = g[n]
    BY <1>7 DEF FlattenSeq
  <2> HIDE DEF g
  <2>4. \A k \in 1..n : g[k] = IF k = 1 THEN seqs[k] ELSE g[k - 1] \o seqs[k]
    BY <2>2
  <2> DEFINE M == {0} \union {k \in 1..n : g[k] = f[k]}
  <2>5. 0 \in M /\ \A k \in 1..n : k - 1 \in M => k \in M
    <3> SUFFICES ASSUME NEW k \in 1..n, k - 1 \in M PROVE g[k] = f[k]
      OBVIOUS
    <3>1. CASE k = 1
      BY <2>0, <2>4, <3>1
    <3>2. CASE k # 1
      <4>1. k - 1 \in 1..n /\ g[k - 1] = f[k - 1]
        BY <1>1, <3>2
      <4> QED BY <1>5, <2>4, <3>2, <4>1
    <3> QED BY <3>1, <3>2
  <2>6. \A k \in 0..n : k \in M
    <3> HIDE DEF M, n
    <3> QED BY <1>1, <2>5, CountUp
  <2>7. n \in 0..n
    BY <1>1
  <2>8. g[n] = f[n]
    BY <1>7, <2>6, <2>7
  <2> QED BY <1>5, <2>3, <2>8
<1> QED BY <1>6, <1>7

\* The elements are those of the sequences.
LEMMA FlattenedElements ==
  ASSUME NEW S, NEW seqs \in Seq(Seq(S))
  PROVE  /\ FlattenSeq(seqs) \in Seq(S)
         /\ \A k \in DOMAIN seqs : \A i \in DOMAIN seqs[k] :
              \E n \in DOMAIN FlattenSeq(seqs) : FlattenSeq(seqs)[n] = seqs[k][i]
<1>1. PICK f \in [0..Len(seqs) -> Seq(S)] :
           /\ f[0] = <<>> /\ \A k \in 1..Len(seqs) : f[k] = f[k - 1] \o seqs[k]
           /\ FlattenSeq(seqs) = f[Len(seqs)]
  BY Flattened
<1> DEFINE Has(x, y) == \A i \in DOMAIN y : \E n \in DOMAIN x : x[n] = y[i]
           M == {m \in 0..Len(seqs) : \A k \in 1..m : Has(f[m], seqs[k])}
<1>2. Len(seqs) \in Nat /\ \A k \in 1..Len(seqs) : seqs[k] \in Seq(S)
  OBVIOUS
<1>3. 0 \in M
  BY <1>2
<1>4. ASSUME NEW m \in 1..Len(seqs), m - 1 \in M PROVE m \in M
  <2>1. f[m - 1] \in Seq(S) /\ seqs[m] \in Seq(S) /\ f[m] = f[m - 1] \o seqs[m]
    <3>1. m - 1 \in 0..Len(seqs)
      BY <1>2
    <3> QED BY <1>1, <1>2, <3>1
  <2>2. Has(f[m], f[m - 1]) /\ Has(f[m], seqs[m])
    <3> DEFINE x == f[m - 1]
               y == seqs[m]
    <3>1. x \in Seq(S) /\ y \in Seq(S) /\ f[m] = x \o y
      BY <2>1
    <3> HIDE DEF x, y
    <3>2. /\ Len(x \o y) = Len(x) + Len(y) /\ x \o y \in Seq(S)
          /\ \A i \in 1..(Len(x) + Len(y)) :
               (x \o y)[i] = IF i <= Len(x) THEN x[i] ELSE y[i - Len(x)]
      BY <3>1, ConcatProperties
    <3>3. DOMAIN x = 1..Len(x) /\ DOMAIN y = 1..Len(y) /\ Len(x) \in Nat /\ Len(y) \in Nat
      BY <3>1
    <3>4. DOMAIN (x \o y) = 1..(Len(x) + Len(y))
      BY <3>2, <3>3
    <3>5. ASSUME NEW i \in DOMAIN x PROVE i \in DOMAIN (x \o y) /\ (x \o y)[i] = x[i]
      BY <3>2, <3>3, <3>4
    <3>6. ASSUME NEW i \in DOMAIN y
          PROVE  Len(x) + i \in DOMAIN (x \o y) /\ (x \o y)[Len(x) + i] = y[i]
      BY <3>2, <3>3, <3>4
    <3> QED BY <3>1, <3>5, <3>6 DEF x, y
  <2>3. \A k \in 1..(m - 1) : Has(f[m - 1], seqs[k])
    BY <1>4
  <2>4. \A k \in 1..m : k = m \/ k \in 1..(m - 1)
    BY <1>2
  <2>5. ASSUME NEW k \in 1..m PROVE Has(f[m], seqs[k])
    <3>1. CASE k = m
      BY <2>2, <3>1
    <3>2. CASE k \in 1..(m - 1)
      <4>1. Has(f[m - 1], seqs[k])
        BY <2>3, <3>2
      <4> QED BY <2>2, <4>1
    <3> QED BY <2>4, <3>1, <3>2
  <2>6. m \in 0..Len(seqs)
    BY <1>2
  <2> QED BY <2>5, <2>6
<1>5. \A m \in 0..Len(seqs) : m \in M
  <2> HIDE DEF M
  <2> QED BY <1>2, <1>3, <1>4, CountUp
<1>6. Len(seqs) \in M /\ DOMAIN seqs = 1..Len(seqs)
  BY <1>2, <1>5
<1> QED BY <1>1, <1>6

\* SetToSeq makes a sequence of the elements of a finite set.
LEMMA SetAsSequence ==
  ASSUME NEW S, IsFiniteSet(S)
  PROVE  SetToSeq(S) \in Seq(S)
<1> DEFINE n == Cardinality(S)
<1>1. n \in Nat /\ ExistsBijection(1..n, S)
  BY FS_CardinalityType
<1>2. \E f \in [1..n -> S] : IsInjective(f)
  BY <1>1 DEF ExistsBijection, Bijection, Injection
<1>3. SetToSeq(S) \in [1..n -> S]
  BY <1>2 DEF SetToSeq
<1> QED BY <1>1, <1>3

-----------------------------------------------------------------------------
(* Tables of contents *)

\* A line is of one of two types.
LEMMA LineTyped ==
  ASSUME NEW toc \in Seq(TocLines), NEW i \in DOMAIN toc
  PROVE  /\ i \in Nat \ {0} /\ toc[i].type \in {"R", "P"}
         /\ toc[i].type = "R" => toc[i].remote \in Remote /\ toc[i].remote.name \in Names
         /\ toc[i].type = "P" =>
              toc[i].key \in Keys /\ toc[i].version \in Versions /\ toc[i].flags \in Flags
<1>1. toc[i] \in TocLines /\ i \in Nat \ {0}
  OBVIOUS
<1> QED BY <1>1 DEF TocLines, Remote

\* A line has one repository line at most.
LEMMA LastRepoUnique ==
  ASSUME NEW toc, NEW i \in Nat, NEW j, NEW k, LastRepo(toc, j, i), LastRepo(toc, k, i)
  PROVE  j = k
<1>1. j \in 1..i /\ k \in 1..i /\ toc[j].type = "R" /\ toc[k].type = "R"
  BY DEF LastRepo
<1>2. ~(j < k)
  <2>1. SUFFICES ASSUME j < k PROVE FALSE
    OBVIOUS
  <2>2. k \in (j + 1)..i
    BY <1>1, <2>1
  <2> QED BY <1>1, <2>2 DEF LastRepo
<1>3. ~(k < j)
  <2>1. SUFFICES ASSUME k < j PROVE FALSE
    OBVIOUS
  <2>2. j \in (k + 1)..i
    BY <1>1, <2>1
  <2> QED BY <1>1, <2>2 DEF LastRepo
<1> QED BY <1>1, <1>2, <1>3

\* In a table that starts with a repository each line has one, and it is the one found.
LEMMA RepoLineFound ==
  ASSUME NEW toc \in Seq(TocLines), toc # <<>> => toc[1].type = "R", NEW i \in DOMAIN toc
  PROVE  /\ LastRepo(toc, RepoLine(toc, i), i)
         /\ RepoLine(toc, i) \in DOMAIN toc /\ RepoOf(toc, i) \in Names
         /\ toc[i].type = "P" => At(toc, i) \in Package
<1>1. i \in Nat \ {0} /\ i <= Len(toc) /\ Len(toc) \in Nat /\ toc[1].type = "R"
  OBVIOUS
<1> DEFINE D == {d \in 0..(i - 1) : toc[i - d].type = "R"}
<1>2. D \in SUBSET Nat /\ D # {}
  <2>1. i - 1 \in 0..(i - 1) /\ i - (i - 1) = 1
    BY <1>1
  <2>2. i - 1 \in D
    BY <1>1, <2>1
  <2>3. D \in SUBSET Nat
    OBVIOUS
  <2> HIDE DEF D
  <2> QED BY <2>2, <2>3
<1>3. PICK d \in D : \A c \in D : d <= c
  <2> HIDE DEF D
  <2> QED BY <1>2, LeastNat
<1>4. ASSUME NEW n \in (i - d + 1)..i PROVE toc[n].type # "R"
  <2>1. SUFFICES ASSUME toc[n].type = "R" PROVE FALSE
    OBVIOUS
  <2>2. i - n \in 0..(i - 1) /\ i - (i - n) = n /\ ~(d <= i - n)
    BY <1>1
  <2>3. i - n \in D
    BY <2>1, <2>2
  <2> QED BY <1>3, <2>2, <2>3
<1>5. LastRepo(toc, i - d, i)
  <2>1. i - d \in 1..i /\ toc[i - d].type = "R"
    BY <1>1
  <2> QED BY <1>4, <2>1 DEF LastRepo
<1>6. LastRepo(toc, RepoLine(toc, i), i)
  <2> DEFINE P(j) == toc[j].type = "R" /\ \A n \in (j + 1)..i : toc[n].type # "R"
  <2>1. i - d \in 1..i /\ P(i - d)
    BY <1>5 DEF LastRepo
  <2>2. RepoLine(toc, i) = CHOOSE j \in 1..i : P(j)
    BY DEF RepoLine
  <2> HIDE DEF P
  <2>3. RepoLine(toc, i) \in 1..i /\ P(RepoLine(toc, i))
    BY <2>1, <2>2
  <2> QED BY <2>3 DEF LastRepo, P
<1>7. RepoLine(toc, i) \in DOMAIN toc /\ toc[RepoLine(toc, i)].type = "R"
  BY <1>1, <1>6 DEF LastRepo
<1>8. RepoOf(toc, i) \in Names
  BY <1>7, LineTyped DEF RepoOf
<1> QED BY <1>6, <1>7, <1>8, LineTyped DEF At, Package

\* A line of a table that was made of a registry is its entry.
LEMMA LineIsEntry ==
  ASSUME NEW toc \in Seq(TocLines), NEW reg, TocOf(toc, reg),
         NEW i \in DOMAIN toc, toc[i].type = "P"
  PROVE  reg[At(toc, i)] = [version |-> toc[i].version, flags |-> toc[i].flags]
BY RepoLineFound DEF TocOf, At, RepoOf

\* Tables of repositories make a table of all of them.
LEMMA TablesJoined ==
  ASSUME NEW a \in Seq(TocLines), NEW b \in Seq(TocLines), NEW reg, TocOf(a, reg), TocOf(b, reg)
  PROVE  TocOf(a \o b, reg)
<1> DEFINE c == a \o b
<1>1. /\ Len(a) \in Nat /\ Len(b) \in Nat /\ DOMAIN a = 1..Len(a) /\ DOMAIN b = 1..Len(b)
      /\ c \in Seq(TocLines) /\ DOMAIN c = 1..(Len(a) + Len(b))
      /\ \A i \in 1..(Len(a) + Len(b)) : c[i] = IF i <= Len(a) THEN a[i] ELSE b[i - Len(a)]
  BY ConcatProperties
<1> HIDE DEF c
<1>2. \A i \in DOMAIN a : i \in DOMAIN c /\ c[i] = a[i]
  BY <1>1
<1>3. \A i \in DOMAIN b : Len(a) + i \in DOMAIN c /\ c[Len(a) + i] = b[i]
  BY <1>1
<1>4. \A i \in DOMAIN c : i \in DOMAIN a \/ (i - Len(a) \in DOMAIN b /\ c[i] = b[i - Len(a)] /\ i \notin DOMAIN a)
  BY <1>1
<1>5. c # <<>> => c[1].type = "R"
  <2>1. CASE a = <<>>
    <3>1. c = b
      BY <2>1, ConcatEmptySeq DEF c
    <3> QED BY <3>1 DEF TocOf
  <2>2. CASE a # <<>>
    <3>1. 1 \in DOMAIN a
      BY <1>1, <2>2
    <3> QED BY <1>2, <2>2, <3>1 DEF TocOf
  <2> QED BY <2>1, <2>2
<1>6. ASSUME NEW i \in DOMAIN c, NEW j \in DOMAIN c, c[i].type = "P", LastRepo(c, j, i)
      PROVE  reg[<<c[j].remote.name, c[i].key>>] = [version |-> c[i].version, flags |-> c[i].flags]
  <2>1. CASE i \in DOMAIN a
    <3>1. j \in DOMAIN a /\ \A n \in 1..i : n \in DOMAIN a
      BY <1>1, <1>6, <2>1 DEF LastRepo
    <3>2. LastRepo(a, j, i)
      <4>1. j \in 1..i /\ c[j].type = "R" /\ \A n \in (j + 1)..i : c[n].type # "R" /\ n \in 1..i
        BY <1>1, <1>6 DEF LastRepo
      <4> QED BY <1>2, <3>1, <4>1 DEF LastRepo
    <3> QED BY <1>2, <1>6, <2>1, <3>1, <3>2 DEF TocOf
  <2>2. CASE i \notin DOMAIN a
    <3> DEFINE k == i - Len(a)
               l == j - Len(a)
    <3>1. k \in DOMAIN b /\ c[i] = b[k]
      BY <1>4, <2>2
    <3>2. b[1].type = "R" /\ 1 \in DOMAIN b
      BY <1>1, <3>1 DEF TocOf
    <3>3. j > Len(a)
      <4>1. SUFFICES ASSUME j <= Len(a) PROVE FALSE
        BY <1>1
      <4>2. Len(a) + 1 \in (j + 1)..i /\ c[Len(a) + 1].type = "R"
        <5>1. c[Len(a) + 1] = b[1]
          BY <1>3, <3>2
        <5>2. Len(a) + 1 <= i
          BY <1>1, <2>2
        <5> QED BY <1>1, <3>2, <4>1, <5>1, <5>2
      <4> QED BY <1>6, <4>2 DEF LastRepo
    <3>4. j \notin DOMAIN a /\ l \in DOMAIN b /\ c[j] = b[l]
      BY <1>1, <1>4, <3>3
    <3>5. LastRepo(b, l, k)
      <4>1. l \in 1..k /\ b[l].type = "R"
        BY <1>1, <1>6, <3>1, <3>4 DEF LastRepo
      <4>2. ASSUME NEW n \in (l + 1)..k PROVE b[n].type # "R"
        <5>1. n \in DOMAIN b /\ Len(a) + n \in (j + 1)..i
          BY <1>1, <3>1, <3>4
        <5> QED BY <1>3, <1>6, <5>1 DEF LastRepo
      <4> QED BY <4>1, <4>2 DEF LastRepo
    <3> HIDE DEF k, l
    <3> QED BY <1>6, <3>1, <3>4, <3>5 DEF TocOf
  <2> QED BY <2>1, <2>2
<1> QED BY <1>5, <1>6 DEF TocOf, c

\* The lines of one repository.
LEMMA SectionMade ==
  ASSUME NEW remote \in Remote, NEW reg \in Registries
  PROVE  Section(reg, remote) \in Seq(TocLines) /\ TocOf(Section(reg, remote), reg)
<1> DEFINE S == {k \in Keys : Installed(reg[<<remote.name, k>>])}
           keys == KeysOf(reg, remote.name)
           lines == [i \in DOMAIN keys |-> Pack(keys[i], reg[<<remote.name, keys[i]>>])]
           toc == <<Repo(remote)>> \o lines
<1>1. remote.name \in Names /\ Repo(remote) \in TocLines
  BY DEF Remote, Repo, TocLines
<1>2. keys \in Seq(S)
  <2>1. IsFiniteSet(S)
    BY ArchiveAssumption, FS_Subset
  <2> HIDE DEF S
  <2>2. SetToSeq(S) \in Seq(S)
    BY <2>1, SetAsSequence
  <2> QED BY <2>2 DEF KeysOf, S
<1>3. ASSUME NEW k \in S
      PROVE  /\ Pack(k, reg[<<remote.name, k>>]) \in TocLines
             /\ reg[<<remote.name, k>>]
                  = [version |-> reg[<<remote.name, k>>].version,
                     flags |-> reg[<<remote.name, k>>].flags]
  <2>1. <<remote.name, k>> \in Package /\ k \in Keys /\ Installed(reg[<<remote.name, k>>])
    BY <1>1 DEF Package
  <2>2. reg[<<remote.name, k>>] \in [version : Versions, flags : Flags]
    BY <2>1 DEF Registries, RegistryEntry, Installed, NotInstalled
  <2> QED BY <2>1, <2>2 DEF Pack, TocLines
<1>4. keys = <<>> \/ Section(reg, remote) = toc
  BY DEF Section
<1>5. CASE keys = <<>>
  <2>1. Section(reg, remote) = <<>>
    BY <1>5 DEF Section
  <2> QED BY <2>1, EmptySeq DEF TocOf
<1>6. CASE Section(reg, remote) = toc
  <2>1. /\ Len(keys) \in Nat /\ DOMAIN keys = 1..Len(keys)
        /\ \A i \in 1..Len(keys) : keys[i] \in S
    <3> HIDE DEF S, keys
    <3> QED BY <1>2
  <2>2. lines \in Seq(TocLines) /\ Len(lines) = Len(keys)
    <3>1. \A i \in 1..Len(keys) : lines[i] \in TocLines
      <4> HIDE DEF S, keys
      <4> QED BY <1>3, <2>1
    <3>2. lines = [i \in 1..Len(keys) |-> lines[i]]
      <4> HIDE DEF keys
      <4> QED BY <2>1
    <3> HIDE DEF lines
    <3>3. lines \in [1..Len(keys) -> TocLines]
      BY <3>1, <3>2
    <3> QED BY <2>1, <3>3
  <2>3. /\ toc \in Seq(TocLines) /\ DOMAIN toc = 1..(Len(keys) + 1)
        /\ toc[1] = Repo(remote)
        /\ \A i \in 2..(Len(keys) + 1) : toc[i] = lines[i - 1]
    <3> DEFINE one == <<Repo(remote)>>
    <3>1. one \in Seq(TocLines) /\ Len(one) = 1 /\ one[1] = Repo(remote)
      BY <1>1
    <3> HIDE DEF one, lines, keys
    <3>2. /\ one \o lines \in Seq(TocLines) /\ Len(one \o lines) = 1 + Len(keys)
          /\ \A i \in 1..(1 + Len(keys)) :
               (one \o lines)[i] = IF i <= 1 THEN one[i] ELSE lines[i - 1]
      <4>1. /\ Len(one \o lines) = Len(one) + Len(lines) /\ one \o lines \in Seq(TocLines)
            /\ \A i \in 1..(Len(one) + Len(lines)) :
                 (one \o lines)[i] = IF i <= Len(one) THEN one[i] ELSE lines[i - Len(one)]
        BY <2>2, <3>1, ConcatProperties
      <4> QED BY <2>2, <3>1, <4>1
    <3>3. DOMAIN (one \o lines) = 1..(Len(keys) + 1)
      BY <2>1, <3>2
    <3>4. \A i \in 2..(Len(keys) + 1) : (one \o lines)[i] = lines[i - 1]
      BY <2>1, <3>2
    <3> QED BY <2>1, <3>1, <3>2, <3>3, <3>4 DEF one
  <2>4. ASSUME NEW i \in 2..(Len(keys) + 1)
        PROVE  /\ i - 1 \in 1..Len(keys) /\ keys[i - 1] \in S
               /\ toc[i] = Pack(keys[i - 1], reg[<<remote.name, keys[i - 1]>>])
    <3>1. i - 1 \in 1..Len(keys)
      BY <2>1
    <3>2. toc[i] = lines[i - 1]
      <4> HIDE DEF toc, lines, keys
      <4> QED BY <2>3
    <3> HIDE DEF toc, S
    <3> QED BY <2>1, <3>1, <3>2
  <2>5. ASSUME NEW i \in DOMAIN toc, NEW j \in DOMAIN toc, toc[i].type = "P", LastRepo(toc, j, i)
        PROVE  reg[<<toc[j].remote.name, toc[i].key>>]
                 = [version |-> toc[i].version, flags |-> toc[i].flags]
    <3> HIDE DEF toc, keys, S
    <3>1. toc[1].type = "R" /\ toc[1].remote = remote
      BY <2>3 DEF Repo
    <3>2. i \in 2..(Len(keys) + 1) /\ j \in 1..(Len(keys) + 1)
      BY <2>1, <2>3, <2>5, <3>1
    <3>3. j = 1
      <4>1. SUFFICES ASSUME j \in 2..(Len(keys) + 1) PROVE FALSE
        BY <2>1, <3>2
      <4>2. toc[j].type = "P"
        <5>1. toc[j] = Pack(keys[j - 1], reg[<<remote.name, keys[j - 1]>>])
          BY <2>4, <4>1
        <5> QED BY <5>1 DEF Pack
      <4> QED BY <2>5, <4>2 DEF LastRepo
    <3>4. /\ toc[i].key = keys[i - 1] /\ keys[i - 1] \in S
          /\ toc[i].version = reg[<<remote.name, keys[i - 1]>>].version
          /\ toc[i].flags = reg[<<remote.name, keys[i - 1]>>].flags
      <4>1. /\ toc[i] = Pack(keys[i - 1], reg[<<remote.name, keys[i - 1]>>])
            /\ keys[i - 1] \in S
        BY <2>4, <3>2
      <4> QED BY <4>1 DEF Pack
    <3> QED BY <1>3, <3>1, <3>3, <3>4
  <2>6. toc # <<>> => toc[1].type = "R"
    BY <2>3 DEF Repo
  <2> HIDE DEF toc
  <2> QED BY <1>6, <2>3, <2>5, <2>6 DEF TocOf
<1> QED BY <1>4, <1>5, <1>6

\* The table of contents is that of the registry.
LEMMA TableMade ==
  ASSUME list.remotes \in Seq(Remote), NEW reg \in Registries
  PROVE  TableOf(reg) \in Seq(TocLines) /\ TocOf(TableOf(reg), reg)
<1> DEFINE One(i) == IF list.remotes[i].enabled THEN Section(reg, list.remotes[i]) ELSE <<>>
           seqs == [i \in DOMAIN list.remotes |-> One(i)]
           Good(toc) == toc \in Seq(TocLines) /\ TocOf(toc, reg)
<1>1. Good(<<>>)
  BY EmptySeq DEF TocOf
<1>2. /\ Len(list.remotes) \in Nat /\ DOMAIN list.remotes = 1..Len(list.remotes)
      /\ \A i \in 1..Len(list.remotes) : list.remotes[i] \in Remote
  OBVIOUS
<1>3. ASSUME NEW i \in 1..Len(list.remotes) PROVE Good(One(i))
  <2>1. Good(Section(reg, list.remotes[i]))
    BY <1>2, SectionMade
  <2> QED BY <1>1, <2>1
<1>4. /\ seqs \in Seq(Seq(TocLines)) /\ Len(seqs) = Len(list.remotes)
      /\ \A i \in 1..Len(seqs) : Good(seqs[i])
  <2> HIDE DEF One, Good
  <2>1. seqs = [i \in 1..Len(list.remotes) |-> One(i)]
    BY <1>2
  <2>2. \A i \in 1..Len(list.remotes) : Good(seqs[i]) /\ seqs[i] \in Seq(TocLines)
    BY <1>3, <2>1 DEF Good
  <2>3. seqs \in [1..Len(list.remotes) -> Seq(TocLines)]
    BY <2>1, <2>2
  <2> HIDE DEF seqs
  <2> QED BY <1>2, <2>2, <2>3
<1>5. TableOf(reg) = FlattenSeq(seqs)
  BY DEF TableOf
<1> HIDE DEF seqs
<1>6. PICK f \in [0..Len(seqs) -> Seq(TocLines)] :
        /\ f[0] = <<>> /\ \A k \in 1..Len(seqs) : f[k] = f[k - 1] \o seqs[k]
        /\ FlattenSeq(seqs) = f[Len(seqs)]
  BY <1>4, Flattened
<1> DEFINE M == {k \in 0..Len(seqs) : TocOf(f[k], reg)}
<1>7. Len(seqs) \in Nat
  BY <1>4
<1>8. 0 \in M
  BY <1>1, <1>6, <1>7
<1>9. ASSUME NEW k \in 1..Len(seqs), k - 1 \in M PROVE k \in M
  <2>1. k - 1 \in 0..Len(seqs) /\ k \in 0..Len(seqs)
    BY <1>7
  <2>2. f[k - 1] \in Seq(TocLines) /\ TocOf(f[k - 1], reg)
    BY <1>6, <1>9, <2>1
  <2>3. TocOf(f[k - 1] \o seqs[k], reg)
    BY <1>4, <2>2, TablesJoined
  <2> QED BY <1>6, <2>1, <2>3
<1>10. \A k \in 0..Len(seqs) : k \in M
  <2> HIDE DEF M
  <2> QED BY <1>7, <1>8, <1>9, CountUp
<1>11. Len(seqs) \in 0..Len(seqs)
  BY <1>7
<1> QED BY <1>5, <1>6, <1>10, <1>11

-----------------------------------------------------------------------------
(* The list of repositories *)

\* A list, taken apart.
LEMMA ListTyped ==
  ASSUME NEW l \in Lists
  PROVE  /\ l.remotes \in Seq(Remote) /\ DOMAIN l.remotes = 1..Len(l.remotes)
         /\ Len(l.remotes) \in Nat
         /\ DOMAIN l.map \in SUBSET Names /\ l.map \in [DOMAIN l.map -> Nat]
         /\ l = [remotes |-> l.remotes, map |-> l.map]
BY DEF Lists

\* What makes a list.
LEMMA ListMade ==
  ASSUME NEW s \in Seq(Remote), NEW N \in SUBSET Names, NEW m \in [N -> Nat]
  PROVE  [remotes |-> s, map |-> m] \in Lists
<1>1. m \in UNION {[M -> Nat] : M \in SUBSET Names}
  OBVIOUS
<1> QED BY <1>1 DEF Lists

\* After add() the name is found with the new remote and every other name as before.
LEMMA AddFinds ==
  ASSUME NEW l \in Lists, Finds(l), NEW r \in Remote
  PROVE  /\ AddTo(l, r) \in Lists /\ Finds(AddTo(l, r))
         /\ DOMAIN AddTo(l, r).map = DOMAIN l.map \union {r.name}
         /\ Get(AddTo(l, r), r.name) = r
         /\ \A n \in DOMAIN l.map \ {r.name} : Get(AddTo(l, r), n) = Get(l, n)
<1>1. r # NoRemote /\ r.name \in Names
  BY RemoteListAssumption DEF Remote, Autos
<1>2. /\ l.remotes \in Seq(Remote) /\ DOMAIN l.remotes = 1..Len(l.remotes)
      /\ Len(l.remotes) \in Nat
      /\ DOMAIN l.map \in SUBSET Names /\ l.map \in [DOMAIN l.map -> Nat]
      /\ l = [remotes |-> l.remotes, map |-> l.map]
  BY ListTyped
<1>3. CASE HasName(l, r.name)
  <2> DEFINE i == l.map[r.name]
             s == [l.remotes EXCEPT ![i] = r]
  <2>1. i \in 1..Len(l.remotes) /\ l.remotes[i].name = r.name /\ r.name \in DOMAIN l.map
    BY <1>2, <1>3 DEF Finds, HasName
  <2>2. /\ s \in Seq(Remote) /\ DOMAIN s = 1..Len(l.remotes)
        /\ \A n \in 1..Len(l.remotes) : s[n] = IF n = i THEN r ELSE l.remotes[n]
    BY <1>2, <2>1
  <2>3. AddTo(l, r) = [remotes |-> s, map |-> l.map]
    <3>1. AddTo(l, r) = [l EXCEPT !.remotes[l.map[r.name]] = r]
      BY <1>1, <1>3 DEF AddTo
    <3> QED BY <1>2, <3>1
  <2> HIDE DEF s
  <2>4. AddTo(l, r).remotes = s /\ AddTo(l, r).map = l.map /\ AddTo(l, r) \in Lists
    <3>1. s \in Seq(Remote) /\ DOMAIN l.map \in SUBSET Names /\ l.map \in [DOMAIN l.map -> Nat]
      BY <1>2, <2>2
    <3>2. [remotes |-> s, map |-> l.map] \in Lists
      BY ONLY <3>1, ListMade
    <3> QED BY <2>3, <3>2
  <2>5. \A n \in DOMAIN l.map \ {r.name} :
          l.map[n] \in 1..Len(l.remotes) /\ l.map[n] # i /\ l.remotes[l.map[n]].name = n
    BY <1>2, <2>1 DEF Finds
  <2>6. \A n \in DOMAIN l.map \ {r.name} : s[l.map[n]] = l.remotes[l.map[n]]
    BY <2>2, <2>5
  <2>7. s[i] = r
    BY <2>1, <2>2
  <2>8. Finds(AddTo(l, r))
    BY <2>1, <2>2, <2>4, <2>5, <2>6, <2>7 DEF Finds
  <2>9. Get(AddTo(l, r), r.name) = r
    BY <2>1, <2>4, <2>7 DEF Get, HasName
  <2>10. \A n \in DOMAIN l.map \ {r.name} : Get(AddTo(l, r), n) = Get(l, n)
    BY <2>4, <2>6 DEF Get, HasName
  <2> QED BY <2>1, <2>4, <2>8, <2>9, <2>10
<1>4. CASE ~HasName(l, r.name)
  <2> DEFINE s == Append(l.remotes, r)
             N == DOMAIN l.map \union {r.name}
             m == [n \in N |-> IF n = r.name THEN Len(l.remotes) + 1 ELSE l.map[n]]
  <2>1. AddTo(l, r) = [remotes |-> s, map |-> m]
    BY <1>1, <1>4 DEF AddTo
  <2>2. /\ s \in Seq(Remote) /\ DOMAIN s = 1..(Len(l.remotes) + 1)
        /\ s[Len(l.remotes) + 1] = r
        /\ \A n \in 1..Len(l.remotes) : s[n] = l.remotes[n]
    BY <1>2
  <2>3. /\ N \in SUBSET Names /\ m \in [N -> Nat] /\ DOMAIN m = N
        /\ r.name \in N /\ m[r.name] = Len(l.remotes) + 1
        /\ \A n \in DOMAIN l.map : n \in N /\ n # r.name /\ m[n] = l.map[n]
    BY <1>1, <1>2, <1>4 DEF HasName
  <2>4. \A n \in N : n = r.name \/ n \in DOMAIN l.map
    OBVIOUS
  <2> HIDE DEF s, m
  <2>5. AddTo(l, r).remotes = s /\ AddTo(l, r).map = m
    BY <2>1
  <2>6. AddTo(l, r) \in Lists
    <3> HIDE DEF N
    <3> QED BY <2>1, <2>2, <2>3, ListMade
  <2>7. \A n \in DOMAIN l.map :
          l.map[n] \in 1..Len(l.remotes) /\ l.remotes[l.map[n]].name = n
    BY <1>2 DEF Finds
  <2>8. \A n \in DOMAIN l.map : s[m[n]] = l.remotes[l.map[n]] /\ m[n] \in DOMAIN s
    BY <1>2, <2>2, <2>3, <2>7
  <2>9. m[r.name] \in DOMAIN s /\ s[m[r.name]] = r
    BY <1>2, <2>2, <2>3
  <2>10. Finds(AddTo(l, r))
    <3>1. \A n \in N : m[n] \in DOMAIN s /\ s[m[n]].name = n
      BY <2>4, <2>7, <2>8, <2>9
    <3> HIDE DEF N
    <3> QED BY <2>3, <2>5, <3>1 DEF Finds
  <2>11. Get(AddTo(l, r), r.name) = r
    BY <2>3, <2>5, <2>9 DEF Get, HasName
  <2>12. \A n \in DOMAIN l.map \ {r.name} : Get(AddTo(l, r), n) = Get(l, n)
    BY <2>3, <2>5, <2>8 DEF Get, HasName
  <2> QED BY <2>3, <2>5, <2>6, <2>10, <2>11, <2>12
<1> QED BY <1>3, <1>4

\* After remove() every other name is found as before.
LEMMA RemoveFinds ==
  ASSUME NEW l \in Lists, Finds(l), NEW x \in Names
  PROVE  /\ RemoveFrom(l, x) \in Lists /\ Finds(RemoveFrom(l, x))
         /\ DOMAIN RemoveFrom(l, x).map = DOMAIN l.map \ {x}
         /\ \A n \in DOMAIN l.map \ {x} : Get(RemoveFrom(l, x), n) = Get(l, n)
<1>1. /\ l.remotes \in Seq(Remote) /\ DOMAIN l.remotes = 1..Len(l.remotes)
      /\ Len(l.remotes) \in Nat
      /\ DOMAIN l.map \in SUBSET Names /\ l.map \in [DOMAIN l.map -> Nat]
  BY ListTyped
<1>2. CASE ~HasName(l, x)
  BY <1>2 DEF RemoveFrom, HasName
<1>3. CASE HasName(l, x)
  <2> DEFINE p == l.map[x]
             s == RemoveAt(l.remotes, p)
             N == DOMAIN l.map \ {x}
             m == [n \in N |-> Shifted(l.map[n], p)]
             before == SubSeq(l.remotes, 1, p - 1)
             after == SubSeq(l.remotes, p + 1, Len(l.remotes))
  <2>1. RemoveFrom(l, x) = [remotes |-> s, map |-> m]
    BY <1>3 DEF RemoveFrom
  <2>2. p \in 1..Len(l.remotes) /\ l.remotes[p].name = x
    BY <1>1, <1>3 DEF Finds, HasName
  <2>3. /\ before \in Seq(Remote) /\ Len(before) = p - 1
        /\ \A i \in 1..(p - 1) : before[i] = l.remotes[i]
    <3>1. 1 \in 1..(Len(l.remotes) + 1) /\ p - 1 \in 0..Len(l.remotes)
      BY <1>1, <2>2
    <3> HIDE DEF p
    <3> QED BY <1>1, <2>2, <3>1, SubSeqProperties
  <2>4. /\ after \in Seq(Remote) /\ Len(after) = Len(l.remotes) - p
        /\ \A i \in 1..(Len(l.remotes) - p) : after[i] = l.remotes[p + i]
    <3>1. p + 1 \in 1..(Len(l.remotes) + 1) /\ Len(l.remotes) \in 0..Len(l.remotes)
      BY <1>1, <2>2
    <3> HIDE DEF p
    <3> QED BY <1>1, <2>2, <3>1, SubSeqProperties
  <2> HIDE DEF before, after
  <2>5. /\ s \in Seq(Remote) /\ DOMAIN s = 1..(Len(l.remotes) - 1)
        /\ \A i \in 1..(Len(l.remotes) - 1) :
             s[i] = IF i < p THEN l.remotes[i] ELSE l.remotes[i + 1]
    <3>1. s = before \o after
      BY DEF RemoveAt, before, after
    <3>2. /\ before \o after \in Seq(Remote)
          /\ Len(before \o after) = Len(before) + Len(after)
          /\ \A i \in 1..(Len(before) + Len(after)) :
               (before \o after)[i] = IF i <= Len(before) THEN before[i] ELSE after[i - Len(before)]
      BY <2>3, <2>4, ConcatProperties
    <3> HIDE DEF s, p
    <3>3. s \in Seq(Remote) /\ Len(s) = Len(l.remotes) - 1
      BY <1>1, <2>2, <2>3, <2>4, <3>1, <3>2
    <3>4. ASSUME NEW i \in 1..(Len(l.remotes) - 1)
          PROVE  s[i] = IF i < p THEN l.remotes[i] ELSE l.remotes[i + 1]
      <4>1. s[i] = IF i <= p - 1 THEN before[i] ELSE after[i - (p - 1)]
        BY <1>1, <2>2, <2>3, <2>4, <3>1, <3>2
      <4>2. CASE i < p
        <5>1. i \in 1..(p - 1)
          BY <2>2, <4>2
        <5> QED BY <2>3, <4>1, <4>2, <5>1
      <4>3. CASE ~(i < p)
        <5>1. i - (p - 1) \in 1..(Len(l.remotes) - p) /\ p + (i - (p - 1)) = i + 1
          BY <1>1, <2>2, <4>3
        <5>2. ~(i <= p - 1)
          BY <1>1, <2>2, <4>3
        <5> QED BY <2>4, <4>1, <4>3, <5>1, <5>2
      <4> QED BY <4>2, <4>3
    <3> QED BY <1>1, <3>3, <3>4
  <2>6. \A n \in N : /\ l.map[n] \in 1..Len(l.remotes) /\ l.map[n] # p
                     /\ l.remotes[l.map[n]].name = n
    BY <1>1, <2>2 DEF Finds
  <2>7. N \in SUBSET Names /\ DOMAIN m = N
    BY <1>1
  <2>8. \A n \in N : m[n] = IF l.map[n] > p THEN l.map[n] - 1 ELSE l.map[n]
    BY DEF Shifted
  <2>9. \A n \in N : m[n] \in Nat /\ m[n] \in DOMAIN s /\ s[m[n]] = l.remotes[l.map[n]]
    <3> HIDE DEF s, m, N, p
    <3> SUFFICES ASSUME NEW n \in N
                 PROVE  m[n] \in Nat /\ m[n] \in DOMAIN s /\ s[m[n]] = l.remotes[l.map[n]]
      OBVIOUS
    <3>1. CASE l.map[n] > p
      <4>1. m[n] = l.map[n] - 1 /\ m[n] \in 1..(Len(l.remotes) - 1) /\ ~(m[n] < p) /\ m[n] + 1 = l.map[n]
        BY <1>1, <2>2, <2>6, <2>8, <3>1
      <4> QED BY <2>5, <4>1
    <3>2. CASE ~(l.map[n] > p)
      <4>1. m[n] = l.map[n] /\ m[n] \in 1..(Len(l.remotes) - 1) /\ m[n] < p
        BY <1>1, <2>2, <2>6, <2>8, <3>2
      <4> QED BY <2>5, <4>1
    <3> QED BY <3>1, <3>2
  <2>10. m \in [N -> Nat]
    BY <2>9
  <2> HIDE DEF s, m
  <2>11. RemoveFrom(l, x).remotes = s /\ RemoveFrom(l, x).map = m
    BY <2>1
  <2>12. RemoveFrom(l, x) \in Lists
    <3> HIDE DEF N
    <3> QED BY <2>1, <2>5, <2>7, <2>10, ListMade
  <2>13. Finds(RemoveFrom(l, x))
    BY <2>6, <2>7, <2>9, <2>11 DEF Finds
  <2>14. \A n \in N : Get(RemoveFrom(l, x), n) = Get(l, n)
    BY <2>7, <2>9, <2>11 DEF Get, HasName
  <2> QED BY <2>7, <2>11, <2>12, <2>13, <2>14
<1> QED BY <1>2, <1>3

\* The configuration is read: every remote of it is found.
LEMMA ConfiguredFinds ==
  ASSUME NEW remotes \in Seq(Remote)
  PROVE  /\ Configured(remotes) \in Lists /\ Finds(Configured(remotes))
         /\ \A i \in DOMAIN remotes : HasName(Configured(remotes), remotes[i].name)
<1> DEFINE n == Len(remotes)
           S == {l \in Lists : Finds(l)}
           step == [k \in 1..n |-> [l \in S |-> AddTo(l, remotes[k])]]
           Made(g) == g = [i \in 0..n |-> IF i = 0 THEN EmptyList ELSE AddTo(g[i - 1], remotes[i])]
<1>1. n \in Nat /\ DOMAIN remotes = 1..n /\ \A k \in 1..n : remotes[k] \in Remote
  OBVIOUS
<1>2. EmptyList \in S
  <2>1. <<>> \in Seq(Remote) /\ [x \in {} |-> 0] \in [{} -> Nat] /\ {} \in SUBSET Names
    BY EmptySeq
  <2>2. EmptyList \in Lists
    BY <2>1, ListMade DEF EmptyList
  <2> QED BY <2>2 DEF EmptyList, Finds
<1>3. \A k \in 1..n : \A l \in S : /\ step[k][l] = AddTo(l, remotes[k]) /\ AddTo(l, remotes[k]) \in S
                                   /\ DOMAIN AddTo(l, remotes[k]).map
                                        = DOMAIN l.map \union {remotes[k].name}
  BY <1>1, AddFinds
<1>4. PICK f \in [0..n -> S] : Walk(f, n, EmptyList, step)
  <2>1. n \in Nat /\ EmptyList \in S /\ \A k \in 1..n : \A x \in S : step[k][x] \in S
    BY <1>1, <1>2, <1>3
  <2>2. \E f \in [0..n -> S] : Walk(f, n, EmptyList, step)
    <3> HIDE DEF step, n, S
    <3> QED BY <2>1, Steps
  <2> QED BY <2>2
<1>5. Made(f)
  <2>1. ASSUME NEW k \in 0..n
        PROVE  f[k] = IF k = 0 THEN EmptyList ELSE AddTo(f[k - 1], remotes[k])
    <3>1. CASE k = 0
      BY <1>4, <3>1 DEF Walk
    <3>2. CASE k # 0
      <4>1. k \in 1..n /\ k - 1 \in 0..n
        BY <1>1, <3>2
      <4>2. f[k - 1] \in S
        <5> HIDE DEF S, n
        <5> QED BY <4>1
      <4>3. f[k] = step[k][f[k - 1]]
        <5> HIDE DEF n, step
        <5> QED BY <1>4, <4>1 DEF Walk
      <4> QED BY <1>3, <3>2, <4>1, <4>2, <4>3
    <3> QED BY <3>1, <3>2
  <2> HIDE DEF S, step
  <2> QED BY <2>1
<1> DEFINE g == CHOOSE g : Made(g)
<1>6. Made(g)
  <2> HIDE DEF Made
  <2> QED BY <1>5
<1>7. Configured(remotes) = g[n]
  BY DEF Configured
<1> HIDE DEF g
<1>8. \A k \in 0..n : g[k] = IF k = 0 THEN EmptyList ELSE AddTo(g[k - 1], remotes[k])
  BY <1>6
<1> HIDE DEF Made, step
<1> DEFINE M == {k \in 0..n : g[k] \in S /\ \A i \in 1..k : remotes[i].name \in DOMAIN g[k].map}
<1>9. 0 \in M
  <2>1. 0 \in 0..n /\ g[0] = EmptyList
    BY <1>1, <1>8
  <2> QED BY <1>2, <2>1
<1>10. ASSUME NEW k \in 1..n, k - 1 \in M PROVE k \in M
  <2>1. k \in 0..n /\ k # 0 /\ g[k - 1] \in S /\ k - 1 \in Nat
        /\ \A i \in 1..(k - 1) : remotes[i].name \in DOMAIN g[k - 1].map
    BY <1>1, <1>10
  <2>2. g[k] = AddTo(g[k - 1], remotes[k])
    BY <1>8, <2>1
  <2>3. g[k] \in S /\ DOMAIN g[k].map = DOMAIN g[k - 1].map \union {remotes[k].name}
    <3> HIDE DEF S
    <3> QED BY <1>3, <2>1, <2>2
  <2>4. \A i \in 1..k : i = k \/ i \in 1..(k - 1)
    BY <1>1
  <2> QED BY <2>1, <2>3, <2>4
<1>11. \A k \in 0..n : k \in M
  <2> HIDE DEF M, n
  <2> QED BY <1>1, <1>9, <1>10, CountUp
<1>12. n \in M
  BY <1>1, <1>11
<1> QED BY <1>1, <1>7, <1>12 DEF HasName

\* What is found under a name of the list is a remote of that name.
LEMMA FoundRemote ==
  ASSUME NEW l \in Lists, Finds(l), NEW n, HasName(l, n)
  PROVE  Get(l, n) \in Remote /\ Get(l, n).name = n /\ Get(l, n) # NoRemote
<1>1. Get(l, n) \in Remote /\ Get(l, n).name = n
  BY ListTyped DEF Get, HasName, Finds
<1> QED BY <1>1, RemoteListAssumption DEF Remote, Autos

-----------------------------------------------------------------------------
(* Reading an archive *)

ReadStates == [list : Lists, cache : [Names -> IndexFile], last : SUBSET Names,
               queue : Seq(Tasks), errors : SUBSET Errors]

\* The task of a line.
TaskFor(z, i) == [kind |-> "install", package |-> At(z.toc, i), version |-> z.toc[i].version,
                  flags |-> z.toc[i].flags, archive |-> {z}]

\* The protected repository keeps its address.
KeepsSelf(l, before) == Finds(l) /\ HasName(l, Self) /\ Get(l, Self).url = Get(before, Self).url

\* An error about a line.
LEMMA LineIsError ==
  ASSUME NEW i \in Nat
  PROVE  Line(i) \in Errors
BY DEF Line, Errors

\* A repository was imported and its packages will be, or there is an error about it.
RemoteRead(z, i, s, before, t) ==
  /\ t \in ReadStates /\ KeepsSelf(t.list, before)
  /\ t.queue = s.queue /\ s.errors \subseteq t.errors
  /\ t.last = {z.toc[i].remote.name} \/ (t.last = {} /\ Line(i) \in t.errors)

\* What importRemote does.
LEMMA RemoteImported ==
  ASSUME NEW s \in ReadStates, NEW before, KeepsSelf(s.list, before), NEW z \in Archives,
         NEW i \in DOMAIN z.toc, z.toc[i].type = "R", NEW locked,
         NEW t, t = importRemote(s, z, i, locked)
  PROVE  RemoteRead(z, i, s, before, t)
<1> DEFINE remote == z.toc[i].remote
           original == Get(s.list, remote.name)
           extracted == Extracted(s, z, remote.name, locked)
           new == IF original # NoRemote /\ remote.name = Self
                    THEN [remote EXCEPT !.url = original.url] ELSE remote
           cache1 == [s.cache EXCEPT ![remote.name] = extracted]
           list1 == AddTo(s.list, new)
           errors1 == s.errors \union {Line(i)}
<1>1. /\ s.list \in Lists /\ s.cache \in [Names -> IndexFile] /\ s.queue \in Seq(Tasks)
      /\ s.errors \in SUBSET Errors
      /\ s = [list |-> s.list, cache |-> s.cache, last |-> s.last, queue |-> s.queue, errors |-> s.errors]
  BY DEF ReadStates
<1>2. z.toc \in Seq(TocLines) /\ z.indexes \in [Names -> IndexFile]
  BY DEF Archives
<1>3. remote \in Remote /\ remote.name \in Names /\ i \in Nat
  BY <1>2, LineTyped
<1>4. cache1 \in [Names -> IndexFile]
  <2>1. extracted \in IndexFile
    BY <1>1, <1>2, <1>3 DEF Extracted, IndexFile
  <2> HIDE DEF extracted, remote
  <2> QED BY <1>1, <2>1
<1>5. errors1 \in SUBSET Errors
  BY <1>1, <1>3, LineIsError
<1>6. new \in Remote /\ new.name = remote.name /\ (remote.name = Self => new.url = original.url)
  <2>1. Finds(s.list) /\ HasName(s.list, Self)
    BY DEF KeepsSelf
  <2>2. remote.name = Self => original \in Remote /\ original # NoRemote
    BY <1>1, <2>1, FoundRemote
  <2>3. CASE original # NoRemote /\ remote.name = Self
    <3>1. new = [remote EXCEPT !.url = original.url] /\ original.url \in Urls
      BY <2>2, <2>3 DEF Remote
    <3> HIDE DEF new, original, remote
    <3> QED BY <1>3, <3>1 DEF Remote
  <2>4. CASE ~(original # NoRemote /\ remote.name = Self)
    BY <1>3, <2>2, <2>4
  <2> QED BY <2>3, <2>4
<1>7. list1 \in Lists /\ KeepsSelf(list1, before)
  <2> HIDE DEF new, remote, original
  <2>1. /\ list1 \in Lists /\ Finds(list1) /\ DOMAIN list1.map = DOMAIN s.list.map \union {new.name}
        /\ Get(list1, new.name) = new
        /\ \A n \in DOMAIN s.list.map \ {new.name} : Get(list1, n) = Get(s.list, n)
    BY <1>1, <1>6, AddFinds DEF KeepsSelf
  <2> HIDE DEF list1
  <2>2. HasName(list1, Self) /\ Self \in DOMAIN s.list.map
    BY <2>1 DEF KeepsSelf, HasName
  <2>3. Get(list1, Self).url = Get(s.list, Self).url
    BY <1>6, <2>1, <2>2 DEF original
  <2> QED BY <2>1, <2>2, <2>3 DEF KeepsSelf
<1>8. t \in {[list |-> s.list, cache |-> cache1, last |-> {}, queue |-> s.queue, errors |-> errors1],
             [list |-> list1, cache |-> cache1, last |-> {}, queue |-> s.queue, errors |-> errors1],
             [list |-> list1, cache |-> cache1, last |-> {remote.name}, queue |-> s.queue,
              errors |-> s.errors]}
  <2> DEFINE read == [s EXCEPT !.cache[remote.name] = extracted, !.last = {}]
  <2>1. read = [list |-> s.list, cache |-> cache1, last |-> {}, queue |-> s.queue,
                errors |-> s.errors]
    <3> HIDE DEF extracted, remote
    <3>1. read = [s EXCEPT !.cache = [s.cache EXCEPT ![remote.name] = extracted], !.last = {}]
      BY Zenon
    <3> HIDE DEF read
    <3> QED BY <1>1, <3>1
  <2>2. t = IF remote.name \in locked \/ z.indexes[remote.name] = NoIndex
              THEN [read EXCEPT !.errors = @ \union {Line(i)}]
            ELSE IF z.indexes[remote.name] = Broken
              THEN [read EXCEPT !.list = AddTo(@, new), !.errors = @ \union {Line(i)}]
            ELSE [read EXCEPT !.list = AddTo(@, new), !.last = {remote.name}]
    BY DEF importRemote
  <2>6. AddTo(read.list, new) = list1 /\ read.errors \union {Line(i)} = errors1
    <3> HIDE DEF read, extracted, remote, new, cache1, original
    <3> QED BY <2>1
  <2> HIDE DEF read, extracted, remote, new, cache1, original, list1, errors1
  <2>3. [read EXCEPT !.errors = @ \union {Line(i)}]
          = [list |-> s.list, cache |-> cache1, last |-> {}, queue |-> s.queue, errors |-> errors1]
    BY <2>1, <2>6
  <2> DEFINE added == [read EXCEPT !.list = list1]
  <2>4. [read EXCEPT !.list = AddTo(@, new), !.errors = @ \union {Line(i)}]
          = [added EXCEPT !.errors = errors1]
    BY <2>6
  <2>5. [read EXCEPT !.list = AddTo(@, new), !.last = {remote.name}]
          = [added EXCEPT !.last = {remote.name}]
    BY <2>6
  <2>7. added = [list |-> list1, cache |-> cache1, last |-> {}, queue |-> s.queue,
                 errors |-> s.errors]
    <3> DEFINE x == list1
               y == s.errors
               w == s.list
               v == s.queue
    <3>1. read = [list |-> w, cache |-> cache1, last |-> {}, queue |-> v, errors |-> y]
      BY <2>1
    <3>2. added = [read EXCEPT !.list = x]
      OBVIOUS
    <3> HIDE DEF added, x, y, w, v
    <3>3. added = [list |-> x, cache |-> cache1, last |-> {}, queue |-> v, errors |-> y]
      BY <3>1, <3>2
    <3> QED BY <3>3 DEF x, y, v
  <2> HIDE DEF added
  <2>8. [added EXCEPT !.errors = errors1]
          = [list |-> list1, cache |-> cache1, last |-> {}, queue |-> s.queue, errors |-> errors1]
    BY <2>7
  <2>9. [added EXCEPT !.last = {remote.name}]
          = [list |-> list1, cache |-> cache1, last |-> {remote.name}, queue |-> s.queue,
             errors |-> s.errors]
    BY <2>7
  <2> QED BY <2>2, <2>3, <2>4, <2>5, <2>8, <2>9
<1>9. Line(i) \in errors1 /\ s.errors \subseteq errors1 /\ {remote.name} \in SUBSET Names
  BY <1>3
<1> HIDE DEF remote, list1, cache1, errors1
<1> QED BY <1>1, <1>4, <1>5, <1>7, <1>8, <1>9 DEF ReadStates, RemoteRead, remote

\* A package of a repository that was imported is left to a task, or there is an error
\* about it.
LEMMA PackageImported ==
  ASSUME NEW s \in ReadStates, NEW z \in Archives,
         NEW i \in DOMAIN z.toc, z.toc[i].type = "P", z.toc[1].type = "R",
         s.last = {} \/ s.last = {RepoOf(z.toc, i)},
         NEW t, t = importPackage(s, z, i)
  PROVE  /\ t \in ReadStates /\ t.list = s.list /\ t.last = s.last /\ s.errors \subseteq t.errors
         /\ \/ s.last = {} /\ t.queue = s.queue
            \/ Line(i) \in t.errors /\ t.queue = s.queue
            \/ t.queue = Append(s.queue, TaskFor(z, i))
<1>1. /\ s.list \in Lists /\ s.cache \in [Names -> IndexFile] /\ s.queue \in Seq(Tasks)
      /\ s.errors \in SUBSET Errors /\ s.last \in SUBSET Names
      /\ s = [list |-> s.list, cache |-> s.cache, last |-> s.last, queue |-> s.queue, errors |-> s.errors]
  BY DEF ReadStates
<1>2. z.toc \in Seq(TocLines)
  BY DEF Archives
<1>3. i \in Nat /\ At(z.toc, i) \in Package /\ z.toc[i].version \in Versions /\ z.toc[i].flags \in Flags
  BY <1>2, LineTyped, RepoLineFound
<1>4. CASE s.last = {}
  <2>1. t = s
    BY <1>4 DEF importPackage
  <2> QED BY <1>4, <2>1
<1>5. CASE s.last = {RepoOf(z.toc, i)}
  <2> DEFINE name == CHOOSE n \in s.last : TRUE
             task == [kind |-> "install", package |-> <<name, z.toc[i].key>>,
                      version |-> z.toc[i].version, flags |-> z.toc[i].flags, archive |-> {z}]
  <2>1. name = RepoOf(z.toc, i) /\ s.last # {}
    BY <1>5
  <2>2. task = TaskFor(z, i)
    BY <2>1 DEF TaskFor, At
  <2>3. TaskFor(z, i) \in Tasks
    BY <1>3 DEF TaskFor, Tasks
  <2>4. t \in {[s EXCEPT !.errors = @ \union {Line(i)}], [s EXCEPT !.queue = Append(@, task)]}
    BY <2>1 DEF importPackage
  <2> HIDE DEF task
  <2>5. CASE t = [s EXCEPT !.errors = @ \union {Line(i)}]
    <3>1. t = [list |-> s.list, cache |-> s.cache, last |-> s.last, queue |-> s.queue,
               errors |-> s.errors \union {Line(i)}]
      BY <1>1, <2>5
    <3>2. s.errors \union {Line(i)} \in SUBSET Errors
      BY <1>1, <1>3, LineIsError
    <3> QED BY <1>1, <3>1, <3>2 DEF ReadStates
  <2>6. CASE t = [s EXCEPT !.queue = Append(@, task)]
    <3>1. t = [list |-> s.list, cache |-> s.cache, last |-> s.last,
               queue |-> Append(s.queue, TaskFor(z, i)), errors |-> s.errors]
      BY <1>1, <2>2, <2>6
    <3>2. Append(s.queue, TaskFor(z, i)) \in Seq(Tasks)
      BY <1>1, <2>3
    <3> QED BY <1>1, <3>1, <3>2 DEF ReadStates
  <2> QED BY <2>4, <2>5, <2>6
<1> QED BY <1>4, <1>5

\* The repository line of a repository line is itself; that of a package line is the one
\* of the line before.
LEMMA RepoLineBefore ==
  ASSUME NEW toc \in Seq(TocLines), toc # <<>> => toc[1].type = "R", NEW i \in DOMAIN toc
  PROVE  /\ toc[i].type = "R" => RepoLine(toc, i) = i
         /\ toc[i].type = "P" => i - 1 \in DOMAIN toc /\ RepoLine(toc, i) = RepoLine(toc, i - 1)
<1>1. i \in Nat \ {0} /\ LastRepo(toc, RepoLine(toc, i), i)
  BY LineTyped, RepoLineFound
<1>2. ASSUME toc[i].type = "R" PROVE RepoLine(toc, i) = i
  <2>1. LastRepo(toc, i, i)
    BY <1>1, <1>2 DEF LastRepo
  <2> QED BY <1>1, <2>1, LastRepoUnique
<1>3. ASSUME toc[i].type = "P"
      PROVE  i - 1 \in DOMAIN toc /\ RepoLine(toc, i) = RepoLine(toc, i - 1)
  <2>1. i - 1 \in DOMAIN toc
    <3>1. i # 1
      BY <1>1, <1>3
    <3> QED BY <1>1, <3>1
  <2>2. LastRepo(toc, RepoLine(toc, i - 1), i - 1)
    BY <2>1, RepoLineFound
  <2>3. LastRepo(toc, RepoLine(toc, i - 1), i)
    <3> DEFINE j == RepoLine(toc, i - 1)
    <3>1. j \in 1..i /\ toc[j].type = "R" /\ \A n \in (j + 1)..i : n = i \/ n \in (j + 1)..(i - 1)
      BY <1>1, <2>2 DEF LastRepo
    <3> HIDE DEF j
    <3> QED BY <1>3, <2>2, <3>1 DEF LastRepo, j
  <2> QED BY <1>1, <2>1, <2>3, LastRepoUnique
<1> QED BY <1>2, <1>3

\* A package line that was read is left to a task, or there is an error about it or about
\* its repository.
ReadLine(z, i, s) == z.toc[i].type = "P" =>
  \/ {Line(i), Line(RepoLine(z.toc, i))} \cap s.errors # {}
  \/ \E n \in DOMAIN s.queue : s.queue[n] = TaskFor(z, i)

\* What was read of the first k lines, from a list and errors.
ReadUpTo(z, k, s, before, errors) ==
  /\ s \in ReadStates /\ KeepsSelf(s.list, before) /\ errors \subseteq s.errors
  /\ k # 0 => \/ s.last = {RepoOf(z.toc, k)}
              \/ s.last = {} /\ Line(RepoLine(z.toc, k)) \in s.errors
  /\ \A n \in DOMAIN s.queue : \E i \in 1..k : z.toc[i].type = "P" /\ s.queue[n] = TaskFor(z, i)
  /\ \A i \in 1..k : ReadLine(z, i, s)

\* One more line.
LEMMA LineImported ==
  ASSUME NEW z \in Archives, z.toc # <<>> => z.toc[1].type = "R", NEW k \in DOMAIN z.toc,
         NEW s, NEW before, NEW errors, ReadUpTo(z, k - 1, s, before, errors), NEW locked
  PROVE  ReadUpTo(z, k, ImportLine(s, z, k, locked), before, errors)
<1> DEFINE t == ImportLine(s, z, k, locked)
<1>1. z.toc \in Seq(TocLines) /\ z.toc[1].type = "R"
  BY DEF Archives
<1>2. /\ k \in Nat \ {0} /\ z.toc[k].type \in {"R", "P"}
      /\ LastRepo(z.toc, RepoLine(z.toc, k), k)
  BY <1>1, LineTyped, RepoLineFound
<1>3. /\ s \in ReadStates /\ KeepsSelf(s.list, before) /\ errors \subseteq s.errors
      /\ \A n \in DOMAIN s.queue :
           \E i \in 1..(k - 1) : z.toc[i].type = "P" /\ s.queue[n] = TaskFor(z, i)
      /\ \A i \in 1..(k - 1) : ReadLine(z, i, s)
  BY DEF ReadUpTo
<1>4. \A i \in 1..k : i = k \/ i \in 1..(k - 1)
  BY <1>2
<1>5. \A i \in 1..(k - 1) : i \in 1..k
  BY <1>2
<1>6. CASE z.toc[k].type = "R"
  <2>1. t = importRemote(s, z, k, locked)
    BY <1>6 DEF ImportLine
  <2>2. /\ t \in ReadStates /\ KeepsSelf(t.list, before)
        /\ t.queue = s.queue /\ s.errors \subseteq t.errors
        /\ t.last = {z.toc[k].remote.name} \/ (t.last = {} /\ Line(k) \in t.errors)
    <3> HIDE DEF t
    <3>1. s \in ReadStates /\ KeepsSelf(s.list, before)
      BY <1>3
    <3>2. RemoteRead(z, k, s, before, t)
      BY <1>6, <2>1, <3>1, RemoteImported
    <3> QED BY <3>2 DEF RemoteRead
  <2> HIDE DEF t
  <2>3. RepoLine(z.toc, k) = k
    BY <1>1, <1>6, RepoLineBefore
  <2>4. t.last = {RepoOf(z.toc, k)} \/ (t.last = {} /\ Line(RepoLine(z.toc, k)) \in t.errors)
    BY <2>2, <2>3 DEF RepoOf
  <2>5. \A n \in DOMAIN t.queue : \E i \in 1..k : z.toc[i].type = "P" /\ t.queue[n] = TaskFor(z, i)
    BY <1>3, <1>5, <2>2
  <2>6. ASSUME NEW i \in 1..k PROVE ReadLine(z, i, t)
    <3>1. CASE i = k
      BY <1>6, <3>1 DEF ReadLine
    <3>2. CASE i \in 1..(k - 1)
      BY <1>3, <2>2, <3>2 DEF ReadLine
    <3> QED BY <1>4, <3>1, <3>2
  <2>7. errors \subseteq t.errors
    BY <1>3, <2>2
  <2> QED BY <2>2, <2>4, <2>5, <2>6, <2>7 DEF ReadUpTo, t
<1>7. CASE z.toc[k].type = "P"
  <2>1. t = importPackage(s, z, k)
    BY <1>7 DEF ImportLine
  <2>2. k - 1 \in DOMAIN z.toc /\ k - 1 # 0 /\ RepoLine(z.toc, k) = RepoLine(z.toc, k - 1)
    BY <1>1, <1>7, RepoLineBefore
  <2>3. s.last = {RepoOf(z.toc, k)} \/ (s.last = {} /\ Line(RepoLine(z.toc, k)) \in s.errors)
    BY <2>2 DEF ReadUpTo, RepoOf
  <2> HIDE DEF t
  <2>4. /\ t \in ReadStates /\ t.list = s.list /\ t.last = s.last /\ s.errors \subseteq t.errors
        /\ \/ s.last = {} /\ t.queue = s.queue
           \/ Line(k) \in t.errors /\ t.queue = s.queue
           \/ t.queue = Append(s.queue, TaskFor(z, k))
    BY <1>1, <1>3, <1>7, <2>1, <2>3, PackageImported
  <2>5. s.queue \in Seq(Tasks)
    BY <1>3 DEF ReadStates
  <2>6. /\ \A n \in DOMAIN s.queue : n \in DOMAIN t.queue /\ t.queue[n] = s.queue[n]
        /\ \A n \in DOMAIN t.queue :
             \/ n \in DOMAIN s.queue /\ t.queue[n] = s.queue[n]
             \/ t.queue[n] = TaskFor(z, k)
    <3>1. CASE t.queue = s.queue
      BY <3>1
    <3>2. CASE t.queue = Append(s.queue, TaskFor(z, k))
      BY <2>5, <3>2
    <3> QED BY <2>4, <3>1, <3>2
  <2>7. \A n \in DOMAIN t.queue : \E i \in 1..k : z.toc[i].type = "P" /\ t.queue[n] = TaskFor(z, i)
    <3>1. k \in 1..k
      BY <1>2
    <3> QED BY <1>3, <1>5, <1>7, <2>6, <3>1
  <2>8. ReadLine(z, k, t)
    <3>1. CASE s.last = {}
      <4>1. Line(RepoLine(z.toc, k)) \in t.errors
        BY <2>3, <2>4, <3>1
      <4> QED BY <4>1 DEF ReadLine
    <3>2. CASE Line(k) \in t.errors
      BY <3>2 DEF ReadLine
    <3>3. CASE t.queue = Append(s.queue, TaskFor(z, k))
      <4>1. Len(s.queue) + 1 \in DOMAIN t.queue /\ t.queue[Len(s.queue) + 1] = TaskFor(z, k)
        BY <2>5, <3>3
      <4> QED BY <4>1 DEF ReadLine
    <3> QED BY <2>4, <3>1, <3>2, <3>3
  <2>9. ASSUME NEW i \in 1..k PROVE ReadLine(z, i, t)
    <3>1. CASE i = k
      BY <2>8, <3>1
    <3>2. CASE i \in 1..(k - 1)
      <4>1. ReadLine(z, i, s)
        BY <1>3, <3>2
      <4> QED BY <2>4, <2>6, <4>1 DEF ReadLine
    <3> QED BY <1>4, <3>1, <3>2
  <2>10. errors \subseteq t.errors /\ KeepsSelf(t.list, before)
    BY <1>3, <2>4
  <2>11. t.last = {RepoOf(z.toc, k)} \/ (t.last = {} /\ Line(RepoLine(z.toc, k)) \in t.errors)
    BY <2>3, <2>4
  <2> QED BY <2>4, <2>7, <2>9, <2>10, <2>11 DEF ReadUpTo, t
<1> QED BY <1>2, <1>6, <1>7

\* The whole table is read.
LEMMA TableRead ==
  ASSUME NEW z \in Archives, z.toc # <<>> => z.toc[1].type = "R", NEW locked,
         list \in Lists, Finds(list), HasName(list, Self),
         cache \in [Names -> IndexFile], receipt \in SUBSET Errors
  PROVE  ReadUpTo(z, Len(z.toc), Read(z, locked), list, receipt)
<1> DEFINE n == Len(z.toc)
           Good(k, s) == ReadUpTo(z, k, s, list, receipt)
           After(k, s) == IF Good(k - 1, s) THEN ImportLine(s, z, k, locked) ELSE Reading
           S == ReadStates
           step == [k \in 1..n |-> [s \in S |-> After(k, s)]]
           Made(g) == g = [i \in 0..n |-> IF i = 0 THEN Reading ELSE ImportLine(g[i - 1], z, i, locked)]
<1>1. z.toc \in Seq(TocLines) /\ n \in Nat /\ DOMAIN z.toc = 1..n
  BY DEF Archives
<1>2. Good(0, Reading) /\ Reading \in S
  <2>1. Reading \in S
    BY EmptySeq DEF Reading, ReadStates
  <2>2. /\ Reading.list = list /\ Reading.queue = <<>> /\ Reading.errors = receipt
    BY DEF Reading
  <2>3. KeepsSelf(list, list)
    BY DEF KeepsSelf
  <2> QED BY <2>1, <2>2, <2>3 DEF ReadUpTo
<1>3. \A k \in 1..n : \A s : Good(k - 1, s) => Good(k, ImportLine(s, z, k, locked))
  BY <1>1, LineImported
<1>4. \A k, s : Good(k, s) => s \in S
  BY DEF ReadUpTo
<1> HIDE DEF Good, S
<1>5. \A k \in 1..n : \A s \in S : step[k][s] = After(k, s) /\ step[k][s] \in S
  BY <1>2, <1>3, <1>4
<1>6. PICK f \in [0..n -> S] : Walk(f, n, Reading, step)
  <2>1. n \in Nat /\ Reading \in S /\ \A k \in 1..n : \A x \in S : step[k][x] \in S
    BY <1>1, <1>2, <1>5
  <2>2. \E f \in [0..n -> S] : Walk(f, n, Reading, step)
    <3> HIDE DEF step, n
    <3> QED BY <2>1, Steps
  <2> QED BY <2>2
<1> HIDE DEF n
<1>7. f[0] = Reading /\ \A k \in 1..n : k - 1 \in 0..n /\ f[k - 1] \in S /\ f[k] = After(k, f[k - 1])
  <2>1. f[0] = Reading /\ \A k \in 1..n : f[k] = step[k][f[k - 1]]
    <3> HIDE DEF step
    <3> QED BY <1>6 DEF Walk
  <2>2. \A k \in 1..n : k - 1 \in 0..n /\ f[k - 1] \in S
    BY <1>1
  <2> HIDE DEF step, After
  <2> QED BY <1>5, <2>1, <2>2
<1> HIDE DEF step
<1> DEFINE M == {k \in 0..n : Good(k, f[k])}
<1>8. 0 \in M /\ \A k \in 1..n : k - 1 \in M => k \in M
  BY <1>1, <1>2, <1>3, <1>7
<1>9. \A k \in 0..n : k \in M
  <2> HIDE DEF M
  <2> QED BY <1>1, <1>8, CountUp
<1>10. \A k \in 1..n : f[k] = ImportLine(f[k - 1], z, k, locked)
  BY <1>7, <1>9
<1>11. Made(f)
  <2>1. ASSUME NEW k \in 0..n
        PROVE  f[k] = IF k = 0 THEN Reading ELSE ImportLine(f[k - 1], z, k, locked)
    <3>1. k = 0 \/ k \in 1..n
      BY <1>1
    <3>2. 0 \notin 1..n
      OBVIOUS
    <3> QED BY <1>7, <1>10, <3>1, <3>2
  <2> QED BY <2>1
<1> DEFINE g == CHOOSE g : Made(g)
<1>12. Made(g)
  <2> HIDE DEF Made
  <2> QED BY <1>11
<1>13. Read(z, locked) = g[n]
  BY DEF Read, n
<1> HIDE DEF g, M
<1>14. g[0] = Reading /\ \A k \in 1..n : k - 1 \in 0..n /\ g[k] = ImportLine(g[k - 1], z, k, locked)
  <2>1. 0 \in 0..n /\ \A k \in 1..n : k \in 0..n /\ k # 0 /\ k - 1 \in 0..n
    BY <1>1
  <2>2. \A k \in 0..n : g[k] = IF k = 0 THEN Reading ELSE ImportLine(g[k - 1], z, k, locked)
    BY <1>12
  <2> HIDE DEF Made
  <2> QED BY <2>1, <2>2
<1> DEFINE N == {k \in 0..n : Good(k, g[k])}
<1>15. 0 \in N /\ \A k \in 1..n : k - 1 \in N => k \in N
  BY <1>1, <1>2, <1>3, <1>14
<1>16. \A k \in 0..n : k \in N
  <2> HIDE DEF N
  <2> QED BY <1>1, <1>15, CountUp
<1>17. n \in 0..n
  BY <1>1
<1> QED BY <1>13, <1>16, <1>17 DEF Good, n

-----------------------------------------------------------------------------
(* Tasks and jobs *)

\* What a task has.
LEMMA TaskFields ==
  ASSUME NEW t \in Tasks
  PROVE  /\ t.kind \in {"export", "uninstall", "install"}
         /\ t.kind = "export" => t = ExportTask
         /\ t.kind # "export" => t.package \in Package
         /\ t.kind = "install" =>
              t.version \in Versions /\ t.flags \in Flags /\ t.archive \in SUBSET Archives
BY DEF Tasks, ExportTask

ExtractionOf(t) == [do |-> "extract", package |-> t.package, archive |-> t.archive]

\* A queue makes a job of each package that is in an archive.
LEMMA Extractions ==
  ASSUME NEW queue \in Seq(Tasks)
  PROVE  /\ ExtractJobs(queue) \in Seq(Jobs)
         /\ queue = <<>> => ExtractJobs(queue) = <<>>
         /\ \A k \in DOMAIN queue : queue[k].kind = "install" /\ queue[k].archive # {} =>
              \E n \in DOMAIN ExtractJobs(queue) : ExtractJobs(queue)[n] = ExtractionOf(queue[k])
<1> DEFINE One(i) == IF queue[i].kind = "install" /\ queue[i].archive # {}
                       THEN <<ExtractionOf(queue[i])>> ELSE <<>>
           seqs == [i \in DOMAIN queue |-> One(i)]
<1>1. /\ Len(queue) \in Nat /\ DOMAIN queue = 1..Len(queue)
      /\ \A i \in DOMAIN queue : queue[i] \in Tasks
  OBVIOUS
<1>2. ASSUME NEW i \in DOMAIN queue PROVE One(i) \in Seq(Jobs)
  <2>1. queue[i].kind = "install" => ExtractionOf(queue[i]) \in Jobs
    BY <1>1, TaskFields DEF ExtractionOf, Jobs
  <2> QED BY <2>1, EmptySeq
<1>3. ExtractJobs(queue) = FlattenSeq(seqs)
  BY DEF ExtractJobs, ExtractionOf
<1>4. seqs \in Seq(Seq(Jobs)) /\ DOMAIN seqs = DOMAIN queue
  <2> HIDE DEF One
  <2>1. seqs \in [1..Len(queue) -> Seq(Jobs)]
    BY <1>1, <1>2
  <2> HIDE DEF seqs
  <2> QED BY <1>1, <2>1
<1>5. /\ FlattenSeq(seqs) \in Seq(Jobs)
      /\ \A k \in DOMAIN seqs : \A i \in DOMAIN seqs[k] :
           \E n \in DOMAIN FlattenSeq(seqs) : FlattenSeq(seqs)[n] = seqs[k][i]
  <2> HIDE DEF seqs
  <2> QED BY <1>4, FlattenedElements
<1>6. ASSUME queue = <<>> PROVE FlattenSeq(seqs) = <<>>
  <2>1. seqs = <<>>
    BY <1>6
  <2> HIDE DEF seqs
  <2> QED BY <2>1 DEF FlattenSeq
<1>7. ASSUME NEW k \in DOMAIN queue, queue[k].kind = "install", queue[k].archive # {}
      PROVE  \E n \in DOMAIN FlattenSeq(seqs) : FlattenSeq(seqs)[n] = ExtractionOf(queue[k])
  <2>1. seqs[k] = <<ExtractionOf(queue[k])>>
    BY <1>7
  <2> HIDE DEF seqs
  <2>2. 1 \in DOMAIN seqs[k] /\ seqs[k][1] = ExtractionOf(queue[k])
    BY <2>1
  <2> QED BY <1>4, <1>5, <2>2
<1> HIDE DEF seqs
<1> QED BY <1>3, <1>5, <1>6, <1>7

\* An export makes a job of each line.
LEMMA LineJobs ==
  ASSUME NEW toc \in Seq(TocLines), toc # <<>> => toc[1].type = "R"
  PROVE  /\ JobsOf(toc) \in Seq(Jobs) /\ DOMAIN JobsOf(toc) = DOMAIN toc
         /\ \A i \in DOMAIN toc :
              /\ toc[i].type = "R" =>
                   JobsOf(toc)[i].do = "index" /\ JobsOf(toc)[i].name = toc[i].remote.name
              /\ toc[i].type = "P" =>
                   JobsOf(toc)[i].do = "compress" /\ JobsOf(toc)[i].package = At(toc, i)
<1>1. Len(toc) \in Nat /\ DOMAIN toc = 1..Len(toc)
  OBVIOUS
<1>2. \A i \in DOMAIN toc :
        JobsOf(toc)[i] = IF toc[i].type = "R" THEN [do |-> "index", name |-> toc[i].remote.name]
                         ELSE [do |-> "compress", package |-> At(toc, i)]
  BY DEF JobsOf, At
<1>3. ASSUME NEW i \in DOMAIN toc PROVE JobsOf(toc)[i] \in Jobs
  <2>1. CASE toc[i].type = "R"
    <3>1. toc[i].remote.name \in Names
      BY <2>1, LineTyped
    <3>2. [do |-> "index", name |-> toc[i].remote.name] \in Jobs
      BY <3>1 DEF Jobs
    <3> QED BY <1>2, <2>1, <3>2
  <2>2. CASE toc[i].type # "R"
    <3>1. toc[i].type = "P"
      BY <2>2, LineTyped
    <3>2. At(toc, i) \in Package
      BY <3>1, RepoLineFound
    <3>3. [do |-> "compress", package |-> At(toc, i)] \in Jobs
      BY <3>2 DEF Jobs
    <3> QED BY <1>2, <2>2, <3>3
  <2> QED BY <2>1, <2>2
<1>4. JobsOf(toc) \in [1..Len(toc) -> Jobs]
  BY <1>1, <1>3 DEF JobsOf
<1> QED BY <1>1, <1>2, <1>4

\* runQueue starts the tasks of a queue, with a job of each file that an archive is to have
\* or has.
LEMMA QueueRun ==
  ASSUME NEW queue \in Seq(Tasks), QueueOK(queue), NEW reg \in Registries,
         NEW errors \in SUBSET Errors, list.remotes \in Seq(Remote),
         RunQueue(queue, reg, errors)
  PROVE  /\ active' \in Seq(Tasks) /\ jobs' \in Seq(Jobs) /\ failed' = {}
         /\ receipt' \in SUBSET Errors /\ temp' \in SUBSET Archives
         /\ errors \subseteq receipt'
         /\ active' = queue \/ (active' = <<>> /\ queue = <<ExportTask>>)
         /\ active' = <<>> => jobs' = <<>>
         /\ QueueOK(active)' /\ Extracting'
         /\ \A z \in temp' :
              /\ active' = <<ExportTask>> /\ TocOf(z.toc, reg) /\ FilesOf(z, reg)
              /\ \A i \in DOMAIN z.toc : \E k \in DOMAIN jobs' : jobs'[k] = JobsOf(z.toc)[i]
<1>1. QueueOK(<<>>) /\ <<>> \in Seq(Tasks) /\ <<>> \in Seq(Jobs)
  BY EmptySeq DEF QueueOK
<1>2. CASE queue = <<ExportTask>>
  <2> DEFINE toc == TableOf(reg)
             z == [toc |-> toc, indexes |-> [n \in Names |-> NoIndex],
                   files |-> [p \in Package |-> NoVersion], whole |-> TRUE]
  <2>1. failed' = {} /\ ExportStarts(reg, errors)
    BY <1>2 DEF RunQueue, ExportTask
  <2>2. toc \in Seq(TocLines) /\ TocOf(toc, reg)
    BY TableMade
  <2> HIDE DEF toc
  <2>3. CASE active' = <<>> /\ jobs' = <<>> /\ temp' = {} /\ receipt' = errors \union {Exporting}
    <3>1. receipt' \in SUBSET Errors
      BY <2>3 DEF Errors
    <3> QED BY <1>1, <1>2, <2>1, <2>3, <3>1 DEF QueueOK, Extracting
  <2>4. CASE active' = <<ExportTask>> /\ jobs' = JobsOf(toc) /\ receipt' = errors /\ temp' = {z}
    <3>1. z \in Archives
      <4>1. NoIndex \in IndexFile
        BY DEF IndexFile
      <4> QED BY <2>2, <4>1 DEF Archives
    <3>2. /\ JobsOf(toc) \in Seq(Jobs) /\ DOMAIN JobsOf(toc) = DOMAIN toc
      BY <2>2, LineJobs DEF TocOf
    <3>3. z.toc = toc /\ FilesOf(z, reg)
      BY DEF FilesOf
    <3> HIDE DEF z
    <3>4. \A i \in DOMAIN z.toc : \E k \in DOMAIN jobs' : jobs'[k] = JobsOf(z.toc)[i]
      BY <2>4, <3>2, <3>3
    <3>5. active' \in Seq(Tasks) /\ active' # <<>> /\ QueueOK(active)' /\ Extracting'
      <4>1. ExportTask \in Tasks /\ ExportTask.kind = "export"
        BY DEF Tasks, ExportTask
      <4>2. active' \in Seq(Tasks) /\ DOMAIN active' = {1} /\ active'[1] = ExportTask
        BY <2>4, <4>1
      <4> QED BY <2>4, <4>1, <4>2 DEF QueueOK, Extracting
    <3> QED BY <1>2, <2>1, <2>2, <2>4, <3>1, <3>2, <3>3, <3>4, <3>5
  <2> QED BY <2>1, <2>3, <2>4 DEF ExportStarts, ExportTask, toc
<1>3. CASE queue # <<ExportTask>>
  <2>1. /\ failed' = {} /\ active' = queue /\ jobs' = ExtractJobs(queue) /\ temp' = {}
        /\ receipt' = errors
    BY <1>3 DEF RunQueue, ExportTask
  <2>2. /\ jobs' \in Seq(Jobs) /\ (queue = <<>> => jobs' = <<>>)
        /\ \A k \in DOMAIN queue : queue[k].kind = "install" /\ queue[k].archive # {} =>
             \E n \in DOMAIN jobs' : jobs'[n] = ExtractionOf(queue[k])
    BY <2>1, Extractions
  <2>3. QueueOK(active)'
    BY <2>1 DEF QueueOK
  <2>4. Extracting'
    BY <2>1, <2>2 DEF Extracting, ExtractionOf
  <2> QED BY <2>1, <2>2, <2>3, <2>4
<1> QED BY <1>2, <1>3

-----------------------------------------------------------------------------
(* Commands *)

\* What a command makes of the tasks it queues.
QueuedOK(new, errors) ==
  /\ open' = TRUE /\ cancelled' = cancelled
  /\ queues' \in Seq(Seq(Tasks)) /\ active' \in Seq(Tasks) /\ jobs' \in Seq(Jobs)
  /\ failed' \in SUBSET Package /\ receipt' \in SUBSET Errors /\ temp' \in SUBSET Archives
  /\ errors \subseteq receipt'
  /\ TempOK' /\ TasksOK'
  /\ \A t : Pending(t)' => Pending(t) \/ In(t, new)
  /\ \A t : Pending(t) \/ In(t, new) => Pending(t)' \/ t = ExportTask

\* The tasks of a command wait for those that run, or they start.
LEMMA Queued ==
  ASSUME StateOK, NEW new \in Seq(Tasks), QueueOK(new), NEW errors \in SUBSET Errors,
         receipt \subseteq errors, open => active # <<>>, registry' = registry,
         Queue(new, errors)
  PROVE  QueuedOK(new, errors)
<1>1. /\ queues \in Seq(Seq(Tasks)) /\ active \in Seq(Tasks) /\ jobs \in Seq(Jobs)
      /\ failed \in SUBSET Package /\ temp \in SUBSET Archives
      /\ list.remotes \in Seq(Remote) /\ registry \in Registries
  BY ListTyped DEF StateOK, TypeOK
<1>2. TempOK /\ TasksOK
  BY DEF StateOK
<1>3. open' = TRUE /\ cancelled' = cancelled
  BY DEF Queue
<1>4. CASE active # <<>>
  <2>1. /\ queues' = (IF new = <<>> THEN queues ELSE Append(queues, new))
        /\ receipt' = errors /\ active' = active /\ jobs' = jobs /\ failed' = failed
        /\ temp' = temp
    BY <1>4 DEF Queue
  <2>2. /\ queues' \in Seq(Seq(Tasks))
        /\ \A n \in DOMAIN queues' : queues'[n] = new \/ (n \in DOMAIN queues /\ queues'[n] = queues[n])
        /\ \A n \in DOMAIN queues : n \in DOMAIN queues' /\ queues'[n] = queues[n]
        /\ new # <<>> => \E n \in DOMAIN queues' : queues'[n] = new
    <3>1. CASE new = <<>>
      BY <1>1, <2>1, <3>1
    <3>2. CASE new # <<>>
      <4>1. /\ queues' = Append(queues, new) /\ queues' \in Seq(Seq(Tasks))
            /\ DOMAIN queues' = 1..(Len(queues) + 1) /\ DOMAIN queues = 1..Len(queues)
            /\ Len(queues) \in Nat /\ queues'[Len(queues) + 1] = new
            /\ \A n \in 1..Len(queues) : queues'[n] = queues[n]
        BY <1>1, <2>1, <3>2
      <4>2. Len(queues) + 1 \in DOMAIN queues'
        BY <4>1
      <4> QED BY <4>1, <4>2
    <3> QED BY <3>1, <3>2
  <2>3. TempOK'
    BY <1>2, <2>1 DEF TempOK
  <2>4. TasksOK'
    <3>1. QueueOK(active)' /\ \A n \in DOMAIN queues' : QueueOK(queues'[n])
      BY <1>2, <2>1, <2>2 DEF TasksOK, QueueOK
    <3>2. Extracting'
      BY <1>2, <2>1 DEF TasksOK, Extracting
    <3>3. \A p \in failed' : Task(p) \in receipt'
      BY <1>2, <2>1 DEF TasksOK
    <3> QED BY <1>3, <1>4, <2>1, <3>1, <3>2, <3>3 DEF TasksOK
  <2>5. \A t : Pending(t)' => Pending(t) \/ In(t, new)
    BY <2>1, <2>2 DEF Pending, In
  <2>6. \A t : Pending(t) \/ In(t, new) => Pending(t)'
    <3>1. \A t : Pending(t) => Pending(t)'
      BY <2>1, <2>2 DEF Pending, In
    <3>2. ASSUME NEW t, In(t, new) PROVE Pending(t)'
      <4>1. new # <<>>
        BY <3>2 DEF In
      <4> QED BY <2>2, <3>2, <4>1 DEF Pending, In
    <3> QED BY <3>1, <3>2
  <2> QED BY <1>1, <1>3, <2>1, <2>2, <2>3, <2>4, <2>5, <2>6 DEF QueuedOK
<1>5. CASE active = <<>>
  <2>1. queues = <<>> /\ queues' = queues /\ RunQueue(new, registry, errors)
    BY <1>2, <1>5 DEF Queue, TasksOK, Idle
  <2>2. /\ active' \in Seq(Tasks) /\ jobs' \in Seq(Jobs) /\ failed' = {}
        /\ receipt' \in SUBSET Errors /\ temp' \in SUBSET Archives
        /\ errors \subseteq receipt'
        /\ active' = new \/ (active' = <<>> /\ new = <<ExportTask>>)
        /\ active' = <<>> => jobs' = <<>>
        /\ QueueOK(active)' /\ Extracting'
        /\ \A z \in temp' :
             /\ active' = <<ExportTask>> /\ TocOf(z.toc, registry) /\ FilesOf(z, registry)
             /\ \A i \in DOMAIN z.toc : \E k \in DOMAIN jobs' : jobs'[k] = JobsOf(z.toc)[i]
    BY <1>1, <2>1, QueueRun
  <2>3. TempOK'
    BY <2>2 DEF TempOK
  <2>4. TasksOK'
    BY <1>3, <2>1, <2>2 DEF TasksOK
  <2>5. \A t : ~Pending(t) /\ (Pending(t)' <=> In(t, active'))
    BY <1>5, <2>1 DEF Pending, In
  <2>6. \A t : In(t, active') => In(t, new)
    BY <2>2 DEF In
  <2>7. \A t : In(t, new) => In(t, active') \/ t = ExportTask
    <3>1. CASE active' = new
      BY <3>1
    <3>2. CASE new = <<ExportTask>>
      BY <3>2 DEF In
    <3> QED BY <2>2, <3>1, <3>2
  <2> QED BY <1>1, <1>3, <2>1, <2>2, <2>3, <2>4, <2>5, <2>6, <2>7 DEF QueuedOK
<1> QED BY <1>4, <1>5

\* A command about other packages than those of the table leaves what an import expects.
LEMMA OtherCommand ==
  ASSUME Inv, NEW new, NEW errors, QueuedOK(new, errors), receipt \subseteq errors,
         imported' = imported, touched \subseteq touched', registry' = registry,
         Get(list', Self).url = Get(list, Self).url,
         \A t : In(t, new) => t.kind = "export" \/ t.package \in touched'
  PROVE  HistoryOK'
<1>1. /\ open' = TRUE /\ cancelled' = cancelled /\ receipt \subseteq receipt'
      /\ \A t : Pending(t)' => Pending(t) \/ In(t, new)
      /\ \A t : Pending(t) \/ In(t, new) => Pending(t)' \/ t = ExportTask
  BY DEF QueuedOK
<1>2. /\ \A m, n \in imported : m = n
      /\ \A t \in Tasks : Pending(t) => Expected(t)
      /\ \A m \in imported : ImportOK(m)
  BY DEF Inv, HistoryOK
<1>3. ASSUME NEW t \in Tasks, Pending(t)' PROVE Expected(t)'
  <2>1. CASE Pending(t)
    <3>1. Expected(t)
      BY <1>2, <2>1
    <3> QED BY <3>1 DEF Expected
  <2>2. CASE In(t, new)
    BY <2>2 DEF Expected
  <2> QED BY <1>1, <1>3, <2>1, <2>2
<1>4. ASSUME NEW m \in imported PROVE ImportOK(m)'
  <2>1. ImportOK(m)
    BY <1>2
  <2>2. ASSUME NEW i, Accounted(m, i) PROVE Accounted(m, i)'
    <3>1. CASE \E t \in Tasks : Pending(t) /\ Wanted(m, t, i)
      <4>1. PICK t \in Tasks : Pending(t) /\ Wanted(m, t, i)
        BY <3>1
      <4>2. t # ExportTask
        BY <4>1 DEF Wanted, ExportTask
      <4>3. Pending(t)'
        BY <1>1, <4>1, <4>2
      <4> QED BY <4>1, <4>3 DEF Accounted
    <3>2. CASE ~\E t \in Tasks : Pending(t) /\ Wanted(m, t, i)
      BY <1>1, <2>2, <3>2 DEF Accounted
    <3> QED BY <3>1, <3>2
  <2>3. cancelled' \/ \A i \in Packages(m.toc) : Accounted(m, i)'
    BY <1>1, <2>1, <2>2 DEF ImportOK
  <2>4. \A p \in Package \ (touched' \union {At(m.toc, i) : i \in Packages(m.toc)}) :
          registry'[p] = m.before[p]
    BY <2>1 DEF ImportOK
  <2>5. (\E reg \in Registries : TocOf(m.toc, reg)) /\ Get(list', Self).url = m.self.url
    BY <2>1 DEF ImportOK
  <2> QED BY <2>3, <2>4, <2>5 DEF ImportOK
<1> QED BY <1>1, <1>2, <1>3, <1>4 DEF HistoryOK

\* What the rest of a command leaves.
RestOK ==
  /\ list' \in Lists /\ Finds(list') /\ HasName(list', Self)
  /\ cache' \in [Names -> IndexFile] /\ registry' = registry /\ disk' = disk /\ zip' = zip
  /\ imported' \in SUBSET Imports /\ touched' \in SUBSET Package

\* A command leaves a good state.
LEMMA CommandState ==
  ASSUME StateOK, NEW new \in Seq(Tasks), QueueOK(new), NEW errors \in SUBSET Errors,
         receipt \subseteq errors, open => active # <<>>, Queue(new, errors), RestOK
  PROVE  StateOK' /\ QueuedOK(new, errors)
<1>1. QueuedOK(new, errors)
  BY Queued DEF RestOK
<1>2. TypeOK'
  BY <1>1 DEF StateOK, TypeOK, QueuedOK, RestOK
<1>3. ZipOK' /\ FilesOK' /\ ListOK'
  BY DEF StateOK, ZipOK, FilesOK, ListOK, RestOK
<1> QED BY <1>1, <1>2, <1>3 DEF StateOK, QueuedOK

\* Exporting.
LEMMA ExportKeeps ==
  ASSUME Inv, Export
  PROVE  Inv'
<1> DEFINE new == <<[kind |-> "export"]>>
<1>1. new \in Seq(Tasks) /\ QueueOK(new)
  BY DEF Tasks, ExportTask, QueueOK
<1>2. \A t : In(t, new) => t.kind = "export"
  BY DEF In
<1>3. /\ Queue(new, receipt) /\ (open => active # <<>>)
      /\ UNCHANGED <<list, cache, registry, disk, zip, imported, touched>>
  BY DEF Export, Command, computer, history
<1> HIDE DEF new
<1>4. StateOK /\ receipt \in SUBSET Errors /\ ListOK
      /\ list \in Lists /\ cache \in [Names -> IndexFile]
      /\ imported \in SUBSET Imports /\ touched \in SUBSET Package
  BY DEF Inv, StateOK, TypeOK
<1>5. StateOK' /\ QueuedOK(new, receipt)
  <2>1. RestOK
    BY <1>3, <1>4 DEF ListOK, RestOK
  <2>2. receipt \subseteq receipt
    OBVIOUS
  <2> QED BY <1>1, <1>3, <1>4, <2>1, <2>2, CommandState
<1>6. HistoryOK'
  BY <1>2, <1>3, <1>5, OtherCommand
<1> QED BY <1>5, <1>6 DEF Inv

\* Installing from the network.
LEMMA InstallKeeps ==
  ASSUME Inv, NEW p \in Package, NEW v \in Versions, NEW f \in Flags, Install(p, v, f)
  PROVE  Inv'
<1> DEFINE task == [kind |-> "install", package |-> p, version |-> v, flags |-> f, archive |-> {}]
           new == <<task>>
<1>1. new \in Seq(Tasks) /\ QueueOK(new)
  <2>1. task \in Tasks /\ TaskOK(task)
    BY DEF Tasks, TaskOK
  <2> HIDE DEF task
  <2> QED BY <2>1 DEF QueueOK
<1>2. \A t : In(t, new) => t.package = p
  BY DEF In
<1>3. /\ Queue(new, receipt) /\ (open => active # <<>>)
      /\ UNCHANGED <<list, cache, registry, disk, zip, imported>>
      /\ touched' = touched \union {p}
  BY DEF Install, Command, computer
<1> HIDE DEF new
<1>4. StateOK /\ receipt \in SUBSET Errors /\ ListOK
      /\ list \in Lists /\ cache \in [Names -> IndexFile]
      /\ imported \in SUBSET Imports /\ touched \in SUBSET Package
  BY DEF Inv, StateOK, TypeOK
<1>5. StateOK' /\ QueuedOK(new, receipt)
  <2>1. RestOK
    BY <1>3, <1>4 DEF ListOK, RestOK
  <2>2. receipt \subseteq receipt
    OBVIOUS
  <2> QED BY <1>1, <1>3, <1>4, <2>1, <2>2, CommandState
<1>6. HistoryOK'
  BY <1>2, <1>3, <1>5, OtherCommand
<1> QED BY <1>5, <1>6 DEF Inv

\* Uninstalling a repository.
LEMMA UninstallKeeps ==
  ASSUME Inv, NEW name \in Names, UninstallRemote(name)
  PROVE  Inv'
<1> DEFINE S == {p \in Package : p[1] = name /\ Installed(registry[p])}
           gone == SetToSeq(S)
           new == [i \in DOMAIN gone |-> [kind |-> "uninstall", package |-> gone[i]]]
<1>1. gone \in Seq(S)
  <2>1. IsFiniteSet(S)
    <3> DEFINE f == [k \in Keys |-> <<name, k>>]
    <3>1. \A p \in S : \E k \in Keys : p = f[k]
      BY DEF Package
    <3>2. IsFiniteSet({f[k] : k \in Keys})
      <4> DEFINE T == {f[k] : k \in Keys}
      <4>1. f \in Surjection(Keys, T)
        BY DEF Surjection
      <4> HIDE DEF f, T
      <4>2. IsFiniteSet(T)
        BY <4>1, ArchiveAssumption, FS_Surjection
      <4> QED BY <4>2 DEF T
    <3>3. S \subseteq {f[k] : k \in Keys}
      BY <3>1
    <3> QED BY <3>2, <3>3, FS_Subset
  <2> HIDE DEF S
  <2> QED BY <2>1, SetAsSequence
<1>2. /\ Len(gone) \in Nat /\ DOMAIN gone = 1..Len(gone)
      /\ \A i \in DOMAIN gone : gone[i] \in Package /\ gone[i] \in ToSet(gone)
      /\ ToSet(gone) \subseteq Package
  <2>1. S \subseteq Package
    OBVIOUS
  <2> HIDE DEF gone, S
  <2> QED BY <1>1, <2>1 DEF ToSet
<1>3. new \in Seq(Tasks) /\ QueueOK(new)
      /\ \A t : In(t, new) => t.package \in ToSet(gone)
  <2> HIDE DEF gone
  <2>1. \A i \in DOMAIN gone : new[i] = [kind |-> "uninstall", package |-> gone[i]]
    OBVIOUS
  <2>2. \A i \in DOMAIN gone : new[i] \in Tasks /\ TaskOK(new[i]) /\ new[i].package = gone[i]
    BY <1>2, <2>1 DEF Tasks, TaskOK
  <2>3. new \in [1..Len(gone) -> Tasks] /\ DOMAIN new = DOMAIN gone
    BY <1>2, <2>2
  <2> HIDE DEF new
  <2>4. new \in Seq(Tasks)
    BY <1>2, <2>3
  <2> QED BY <1>2, <2>2, <2>3, <2>4 DEF QueueOK, In
<1>4. /\ Queue(new, receipt) /\ (open => active # <<>>) /\ name # Self /\ HasName(list, name)
      /\ list' = RemoveFrom(list, name) /\ cache' = [cache EXCEPT ![name] = NoIndex]
      /\ UNCHANGED <<registry, disk, zip, imported>>
      /\ touched' = touched \union ToSet(gone)
  BY DEF UninstallRemote, Command
<1> HIDE DEF new, gone, S
<1>5. StateOK /\ receipt \in SUBSET Errors /\ Finds(list) /\ HasName(list, Self)
      /\ list \in Lists /\ cache \in [Names -> IndexFile]
      /\ imported \in SUBSET Imports /\ touched \in SUBSET Package
  BY DEF Inv, StateOK, TypeOK, ListOK
<1>6. /\ list' \in Lists /\ Finds(list') /\ HasName(list', Self)
      /\ Get(list', Self) = Get(list, Self)
  <2> DEFINE l == RemoveFrom(list, name)
  <2>1. /\ l \in Lists /\ Finds(l) /\ DOMAIN l.map = DOMAIN list.map \ {name}
        /\ \A n \in DOMAIN list.map \ {name} : Get(l, n) = Get(list, n)
    <3> HIDE DEF l
    <3> QED BY <1>5, RemoveFinds DEF l
  <2> HIDE DEF l
  <2>2. list' = l
    BY <1>4 DEF l
  <2>3. Self \in DOMAIN list.map \ {name}
    BY <1>4, <1>5 DEF HasName
  <2> QED BY <2>1, <2>2, <2>3 DEF HasName
<1>7. cache' \in [Names -> IndexFile] /\ touched' \in SUBSET Package
  <2>1. NoIndex \in IndexFile
    BY DEF IndexFile
  <2> QED BY <1>2, <1>4, <1>5, <2>1
<1>8. StateOK' /\ QueuedOK(new, receipt)
  <2>1. RestOK
    BY <1>4, <1>5, <1>6, <1>7 DEF RestOK
  <2>2. receipt \subseteq receipt
    OBVIOUS
  <2> QED BY <1>3, <1>4, <1>5, <2>1, <2>2, CommandState
<1>9. HistoryOK'
  BY <1>3, <1>4, <1>6, <1>8, OtherCommand
<1> QED BY <1>8, <1>9 DEF Inv

\* What an import queues is of the archive, and every package of the table is accounted for.
LEMMA Imported ==
  ASSUME StateOK, NEW z \in zip, NEW locked, NEW s, s = Read(z, locked)
  PROVE  /\ z \in Archives /\ (\E reg \in Registries : TocOf(z.toc, reg))
         /\ s \in ReadStates /\ QueueOK(s.queue) /\ receipt \subseteq s.errors
         /\ KeepsSelf(s.list, list)
         /\ \A t : In(t, s.queue) => \E i \in Packages(z.toc) : t = TaskFor(z, i)
         /\ \A i \in Packages(z.toc) : \/ {Line(i), Line(RepoLine(z.toc, i))} \cap s.errors # {}
                                       \/ In(TaskFor(z, i), s.queue)
<1>1. z \in Archives /\ z.toc \in Seq(TocLines) /\ DOMAIN z.toc = 1..Len(z.toc)
  BY DEF StateOK, TypeOK, Archives
<1>2. PICK reg \in Registries : TocOf(z.toc, reg) /\ FilesOf(z, reg)
  BY DEF StateOK, ZipOK
<1>3. ReadUpTo(z, Len(z.toc), s, list, receipt)
  <2>1. /\ list \in Lists /\ Finds(list) /\ HasName(list, Self)
        /\ cache \in [Names -> IndexFile] /\ receipt \in SUBSET Errors
    BY DEF StateOK, TypeOK, ListOK
  <2>2. z.toc # <<>> => z.toc[1].type = "R"
    BY <1>2 DEF TocOf
  <2> QED BY <1>1, <2>1, <2>2, TableRead
<1>4. \A n \in DOMAIN s.queue : \E i \in Packages(z.toc) : s.queue[n] = TaskFor(z, i)
  BY <1>1, <1>3 DEF ReadUpTo, Packages
<1>5. ASSUME NEW i \in Packages(z.toc) PROVE TaskOK(TaskFor(z, i))
  <2>1. At(z.toc, i) \in Package /\ reg[At(z.toc, i)].version = z.toc[i].version
    <3>1. i \in DOMAIN z.toc /\ z.toc[i].type = "P"
      BY DEF Packages
    <3>2. reg[At(z.toc, i)] = [version |-> z.toc[i].version, flags |-> z.toc[i].flags]
      BY <1>1, <1>2, <3>1, LineIsEntry
    <3> QED BY <1>1, <1>2, <3>1, <3>2, RepoLineFound DEF TocOf
  <2>2. z.files[At(z.toc, i)] \in {NoVersion, z.toc[i].version}
    BY <1>2, <2>1 DEF FilesOf
  <2>3. /\ TaskFor(z, i).kind = "install" /\ TaskFor(z, i).archive = {z}
        /\ TaskFor(z, i).package = At(z.toc, i) /\ TaskFor(z, i).version = z.toc[i].version
    BY DEF TaskFor
  <2> QED BY <1>1, <2>2, <2>3 DEF TaskOK
<1>6. QueueOK(s.queue)
  BY <1>4, <1>5 DEF QueueOK
<1>7. \A i \in Packages(z.toc) : \/ {Line(i), Line(RepoLine(z.toc, i))} \cap s.errors # {}
                                 \/ In(TaskFor(z, i), s.queue)
  BY <1>1, <1>3 DEF ReadUpTo, ReadLine, Packages, In
<1>8. s \in ReadStates /\ receipt \subseteq s.errors /\ KeepsSelf(s.list, list)
  BY <1>3 DEF ReadUpTo
<1> QED BY <1>1, <1>2, <1>4, <1>6, <1>7, <1>8 DEF In

\* Importing.
LEMMA ImportKeeps ==
  ASSUME Inv, NEW locked \in SUBSET Names, Import(locked)
  PROVE  Inv'
<1> DEFINE Starts(z, s, m) ==
             /\ s = Read(z, locked)
             /\ m = [toc |-> z.toc, before |-> registry, self |-> Get(list, Self)]
             /\ list' = s.list /\ cache' = s.cache /\ Queue(s.queue, s.errors)
             /\ imported' = {m}
<1>1. PICK z \in zip : \E s, m : Starts(z, s, m)
  BY DEF Import
<1>2. PICK s, m : Starts(z, s, m)
  BY <1>1
<1>3. /\ (open => active # <<>>) /\ imported = {}
      /\ UNCHANGED <<registry, disk, zip, touched>>
  BY DEF Import, Command
<1>4. /\ z \in Archives /\ (\E reg \in Registries : TocOf(z.toc, reg))
      /\ s \in ReadStates /\ QueueOK(s.queue) /\ receipt \subseteq s.errors
      /\ KeepsSelf(s.list, list)
      /\ \A t : In(t, s.queue) => \E i \in Packages(z.toc) : t = TaskFor(z, i)
      /\ \A i \in Packages(z.toc) : \/ {Line(i), Line(RepoLine(z.toc, i))} \cap s.errors # {}
                                    \/ In(TaskFor(z, i), s.queue)
  BY <1>2, Imported DEF Inv
<1>5. /\ s.list \in Lists /\ s.cache \in [Names -> IndexFile] /\ s.queue \in Seq(Tasks)
      /\ s.errors \in SUBSET Errors
  BY <1>4 DEF ReadStates
<1>6. m \in Imports
  <2>1. list \in Lists /\ Finds(list) /\ HasName(list, Self) /\ registry \in Registries
    BY DEF Inv, StateOK, TypeOK, ListOK
  <2>2. Get(list, Self) \in Remote
    BY <2>1, FoundRemote
  <2>3. z.toc \in Seq(TocLines)
    BY <1>4 DEF Archives
  <2> QED BY <1>2, <2>1, <2>2, <2>3 DEF Imports
<1>7. m.toc = z.toc /\ m.before = registry /\ m.self = Get(list, Self) /\ imported' = {m}
  BY <1>2
<1>8. StateOK' /\ QueuedOK(s.queue, s.errors)
  <2>1. RestOK
    BY <1>2, <1>3, <1>4, <1>5, <1>6, <1>7 DEF RestOK, KeepsSelf, Inv, StateOK, TypeOK
  <2>2. StateOK
    BY DEF Inv
  <2> QED BY <1>2, <1>3, <1>4, <1>5, <2>1, <2>2, CommandState
<1>9. /\ open' = TRUE /\ s.errors \subseteq receipt'
      /\ \A t : Pending(t)' => Pending(t) \/ In(t, s.queue)
      /\ \A t : Pending(t) \/ In(t, s.queue) => Pending(t)' \/ t = ExportTask
  BY <1>8 DEF QueuedOK
<1>10. ASSUME NEW i \in Packages(z.toc) PROVE Wanted(m, TaskFor(z, i), i) /\ i \in DOMAIN m.toc
  BY <1>7 DEF Wanted, TaskFor, Packages
<1>11. ASSUME NEW t \in Tasks, Pending(t)' PROVE Expected(t)'
  <2>1. CASE Pending(t)
    <3>1. Expected(t)
      BY <2>1 DEF Inv, HistoryOK
    <3> QED BY <1>3, <3>1 DEF Expected
  <2>2. CASE In(t, s.queue)
    <3>1. \E i \in DOMAIN m.toc : Wanted(m, t, i)
      BY <1>4, <1>10, <2>2
    <3> QED BY <1>7, <3>1 DEF Expected
  <2> QED BY <1>9, <1>11, <2>1, <2>2
<1>12. ASSUME NEW i \in Packages(m.toc) PROVE Accounted(m, i)'
  <2>1. i \in Packages(z.toc)
    BY <1>7
  <2>2. CASE {Line(i), Line(RepoLine(z.toc, i))} \cap s.errors # {}
    BY <1>7, <1>9, <2>2 DEF Accounted
  <2>3. CASE In(TaskFor(z, i), s.queue)
    <3>1. Pending(TaskFor(z, i))'
      <4>1. TaskFor(z, i) # ExportTask
        BY DEF TaskFor, ExportTask
      <4> QED BY <1>9, <2>3, <4>1
    <3>2. TaskFor(z, i) \in Tasks
      BY <1>5, <2>3 DEF In
    <3> QED BY <1>10, <2>1, <3>1, <3>2 DEF Accounted
  <2> QED BY <1>4, <2>1, <2>2, <2>3
<1>13. ImportOK(m)'
  <2>1. \E reg \in Registries : TocOf(m.toc, reg)
    BY <1>4, <1>7
  <2>2. Get(list', Self).url = m.self.url
    BY <1>2, <1>4, <1>7 DEF KeepsSelf
  <2>3. registry' = m.before
    BY <1>3, <1>7
  <2> QED BY <1>12, <2>1, <2>2, <2>3 DEF ImportOK
<1>14. HistoryOK'
  BY <1>7, <1>9, <1>11, <1>13 DEF HistoryOK
<1> QED BY <1>8, <1>14 DEF Inv

-----------------------------------------------------------------------------
(* Jobs *)

\* What is left when the first job is taken.
LEMMA JobsLeft ==
  ASSUME jobs \in Seq(Jobs), jobs # <<>>
  PROVE  /\ Tail(jobs) \in Seq(Jobs) /\ Head(jobs) \in Jobs
         /\ \A k \in DOMAIN jobs :
              jobs[k] = Head(jobs) \/ \E n \in DOMAIN Tail(jobs) : Tail(jobs)[n] = jobs[k]
<1>1. /\ Len(jobs) \in Nat \ {0} /\ DOMAIN jobs = 1..Len(jobs)
      /\ Tail(jobs) \in Seq(Jobs) /\ DOMAIN Tail(jobs) = 1..(Len(jobs) - 1)
      /\ \A n \in 1..(Len(jobs) - 1) : Tail(jobs)[n] = jobs[n + 1]
      /\ Head(jobs) = jobs[1] /\ Head(jobs) \in Jobs
  OBVIOUS
<1>2. ASSUME NEW k \in DOMAIN jobs, k # 1
      PROVE  k - 1 \in DOMAIN Tail(jobs) /\ Tail(jobs)[k - 1] = jobs[k]
  BY <1>1, <1>2
<1> QED BY <1>1, <1>2

\* A step that only adds errors leaves what an import expects.
LEMMA ErrorsAdded ==
  ASSUME HistoryOK, receipt \subseteq receipt',
         UNCHANGED <<list, registry, open, queues, active, cancelled, imported, touched>>
  PROVE  HistoryOK'
<1>1. \A t : Pending(t)' <=> Pending(t)
  BY DEF Pending
<1>2. \A m, i : Accounted(m, i) => Accounted(m, i)'
  BY <1>1 DEF Accounted
<1>3. \A m \in imported : ImportOK(m) => ImportOK(m)'
  BY <1>2 DEF ImportOK
<1>4. \A t \in Tasks : Expected(t) => Expected(t)'
  BY DEF Expected
<1> QED BY <1>1, <1>3, <1>4 DEF HistoryOK

\* A file was put into the archive, the one that the registry tells.
LEMMA FileAdded ==
  ASSUME NEW z \in Archives, TocOf(z.toc, registry), FilesOf(z, registry), registry \in Registries,
         NEW p \in Package, NEW y, y = [z EXCEPT !.files[p] = registry[p].version],
         registry[p].version # NoVersion
  PROVE  /\ y \in Archives /\ y.toc = z.toc /\ y.whole = z.whole /\ FilesOf(y, registry)
         /\ \A i \in DOMAIN z.toc : Holds(z, i) => Holds(y, i)
         /\ \A i \in DOMAIN z.toc : z.toc[i].type = "P" /\ At(z.toc, i) = p => Holds(y, i)
<1> DEFINE files1 == [z.files EXCEPT ![p] = registry[p].version]
<1>1. /\ z.toc \in Seq(TocLines) /\ z.indexes \in [Names -> IndexFile] /\ z.whole \in BOOLEAN
      /\ z.files \in [Package -> Versions \union {NoVersion}]
      /\ z = [toc |-> z.toc, indexes |-> z.indexes, files |-> z.files, whole |-> z.whole]
  BY DEF Archives
<1>2. y = [toc |-> z.toc, indexes |-> z.indexes, files |-> files1, whole |-> z.whole]
  <2>1. y = [z EXCEPT !.files = [z.files EXCEPT ![p] = registry[p].version]]
    BY Zenon
  <2> QED BY <1>1, <2>1
<1>3. /\ files1 \in [Package -> Versions \union {NoVersion}]
      /\ \A q \in Package : files1[q] = IF q = p THEN registry[p].version ELSE z.files[q]
  <2>1. registry[p].version \in Versions \union {NoVersion}
    BY DEF Registries, RegistryEntry, NotInstalled
  <2> QED BY <1>1, <2>1
<1> HIDE DEF files1
<1>4. y \in Archives /\ y.toc = z.toc /\ y.whole = z.whole /\ y.indexes = z.indexes /\ y.files = files1
  BY <1>1, <1>2, <1>3 DEF Archives
<1>5. FilesOf(y, registry)
  BY <1>3, <1>4 DEF FilesOf
<1>6. ASSUME NEW i \in DOMAIN z.toc, z.toc[i].type = "P", At(z.toc, i) = p PROVE Holds(y, i)
  <2>1. registry[p] = [version |-> z.toc[i].version, flags |-> z.toc[i].flags]
    BY <1>1, <1>6, LineIsEntry
  <2> QED BY <1>3, <1>4, <1>6, <2>1 DEF Holds
<1>7. ASSUME NEW i \in DOMAIN z.toc, Holds(z, i) PROVE Holds(y, i)
  <2>1. CASE z.toc[i].type = "R"
    BY <1>4, <1>7, <2>1 DEF Holds
  <2>2. CASE z.toc[i].type # "R"
    <3>1. z.toc[i].type = "P"
      BY <1>1, <2>2, LineTyped
    <3>2. At(z.toc, i) \in Package
      BY <1>1, <3>1, RepoLineFound DEF TocOf
    <3>3. CASE At(z.toc, i) = p
      BY <1>6, <3>1, <3>3
    <3>4. CASE At(z.toc, i) # p
      BY <1>3, <1>4, <1>7, <2>2, <3>2, <3>4 DEF Holds
    <3> QED BY <3>3, <3>4
  <2> QED BY <2>1, <2>2
<1> QED BY <1>4, <1>5, <1>6, <1>7

\* The index of a repository was put into the archive.
LEMMA IndexAdded ==
  ASSUME NEW z \in Archives, FilesOf(z, registry),
         NEW n \in Names, NEW x \in IndexFile, x # NoIndex, NEW y, y = [z EXCEPT !.indexes[n] = x]
  PROVE  /\ y \in Archives /\ y.toc = z.toc /\ y.whole = z.whole /\ FilesOf(y, registry)
         /\ \A i \in DOMAIN z.toc : Holds(z, i) => Holds(y, i)
         /\ \A i \in DOMAIN z.toc : z.toc[i].type = "R" /\ z.toc[i].remote.name = n => Holds(y, i)
<1> DEFINE indexes1 == [z.indexes EXCEPT ![n] = x]
<1>1. /\ z.toc \in Seq(TocLines) /\ z.indexes \in [Names -> IndexFile] /\ z.whole \in BOOLEAN
      /\ z.files \in [Package -> Versions \union {NoVersion}]
      /\ z = [toc |-> z.toc, indexes |-> z.indexes, files |-> z.files, whole |-> z.whole]
  BY DEF Archives
<1>2. y = [toc |-> z.toc, indexes |-> indexes1, files |-> z.files, whole |-> z.whole]
  <2>1. y = [z EXCEPT !.indexes = [z.indexes EXCEPT ![n] = x]]
    BY Zenon
  <2> QED BY <1>1, <2>1
<1>3. /\ indexes1 \in [Names -> IndexFile]
      /\ \A q \in Names : indexes1[q] = IF q = n THEN x ELSE z.indexes[q]
  BY <1>1
<1> HIDE DEF indexes1
<1>4. y \in Archives /\ y.toc = z.toc /\ y.whole = z.whole /\ y.indexes = indexes1 /\ y.files = z.files
  <2>1. y.toc = z.toc /\ y.whole = z.whole /\ y.indexes = indexes1 /\ y.files = z.files
    BY <1>2
  <2>2. y \in Archives
    BY <1>1, <1>2, <1>3 DEF Archives
  <2> QED BY <2>1, <2>2
<1>5. FilesOf(y, registry)
  BY <1>4 DEF FilesOf
<1>6. ASSUME NEW i \in DOMAIN z.toc, z.toc[i].type = "R" PROVE z.toc[i].remote.name \in Names
  BY <1>1, <1>6, LineTyped
<1>7. \A i \in DOMAIN z.toc : Holds(z, i) => Holds(y, i)
  BY <1>3, <1>4, <1>6 DEF Holds
<1>8. \A i \in DOMAIN z.toc : z.toc[i].type = "R" /\ z.toc[i].remote.name = n => Holds(y, i)
  BY <1>3, <1>4, <1>6 DEF Holds
<1> QED BY <1>4, <1>5, <1>7, <1>8

\* Compressing a file.
LEMMA CompressKeeps ==
  ASSUME Inv, Compress
  PROVE  Inv'
<1> DEFINE job == Head(jobs)
           left == Tail(jobs)
           Added(z) == IF job.do = "index" THEN [z EXCEPT !.indexes[job.name] = cache[job.name]]
                       ELSE [z EXCEPT !.files[job.package] = disk[job.package]]
           Missing(z) == [z EXCEPT !.whole = FALSE]
           exists == IF job.do = "index" THEN cache[job.name] # NoIndex
                     ELSE disk[job.package] # NoVersion
<1>1. /\ jobs # <<>> /\ job.do \in {"index", "compress"} /\ jobs' = left
      /\ \/ exists /\ receipt' = receipt /\ temp' = {Added(z) : z \in temp}
         \/ receipt' = receipt \union {Exporting} /\ temp' = {Missing(z) : z \in temp}
      /\ UNCHANGED <<list, cache, registry, disk, open, queues, active, failed, cancelled, zip,
                     imported, touched>>
  BY DEF Compress, computer, history
<1>2. /\ jobs \in Seq(Jobs) /\ cache \in [Names -> IndexFile] /\ registry \in Registries
      /\ receipt \in SUBSET Errors /\ temp \in SUBSET Archives
      /\ TypeOK /\ ListOK /\ ZipOK /\ TempOK /\ TasksOK /\ FilesOK /\ HistoryOK
  BY DEF Inv, StateOK, TypeOK
<1>3. /\ left \in Seq(Jobs) /\ job \in Jobs
      /\ \A k \in DOMAIN jobs : jobs[k] = job \/ \E n \in DOMAIN left : left[n] = jobs[k]
  BY <1>1, <1>2, JobsLeft
<1>4. /\ job.do = "index" => job = [do |-> "index", name |-> job.name] /\ job.name \in Names
      /\ job.do = "compress" =>
           job = [do |-> "compress", package |-> job.package] /\ job.package \in Package
  BY <1>3 DEF Jobs
<1>5. \A p \in Package : disk[p] = registry[p].version
  BY <1>2 DEF FilesOK
<1> HIDE DEF job, left
<1>6. ASSUME exists, NEW z \in temp
      PROVE  /\ Added(z) \in Archives /\ Added(z).toc = z.toc /\ Added(z).whole = z.whole
             /\ FilesOf(Added(z), registry)
             /\ \A i \in DOMAIN z.toc : Holds(z, i) \/ job = JobsOf(z.toc)[i] => Holds(Added(z), i)
  <2>1. z \in Archives /\ TocOf(z.toc, registry) /\ FilesOf(z, registry)
    BY <1>2 DEF TempOK
  <2>2. /\ \A i \in DOMAIN z.toc : z.toc[i].type \in {"R", "P"}
        /\ \A i \in DOMAIN z.toc :
             /\ z.toc[i].type = "R" =>
                  JobsOf(z.toc)[i].do = "index" /\ JobsOf(z.toc)[i].name = z.toc[i].remote.name
             /\ z.toc[i].type = "P" =>
                  JobsOf(z.toc)[i].do = "compress" /\ JobsOf(z.toc)[i].package = At(z.toc, i)
    <3>1. z.toc \in Seq(TocLines) /\ (z.toc # <<>> => z.toc[1].type = "R")
      BY <2>1 DEF Archives, TocOf
    <3> QED BY <3>1, LineTyped, LineJobs
  <2>3. CASE job.do = "index"
    <3> DEFINE n == job.name
    <3>1. n \in Names /\ cache[n] \in IndexFile /\ cache[n] # NoIndex
      BY <1>2, <1>4, <1>6, <2>3
    <3>2. ASSUME NEW i \in DOMAIN z.toc, job = JobsOf(z.toc)[i]
          PROVE  z.toc[i].type = "R" /\ z.toc[i].remote.name = n
      <4>1. z.toc[i].type = "P" => job.do = "compress"
        BY <2>2, <3>2
      <4>2. z.toc[i].type = "R" => job.name = z.toc[i].remote.name
        BY <2>2, <3>2
      <4> QED BY <2>2, <2>3, <4>1, <4>2
    <3>3. PICK y : y = [z EXCEPT !.indexes[n] = cache[n]]
      OBVIOUS
    <3>4. Added(z) = y
      BY <2>3, <3>3
    <3> HIDE DEF n, Added
    <3>5. /\ y \in Archives /\ y.toc = z.toc /\ y.whole = z.whole /\ FilesOf(y, registry)
          /\ \A i \in DOMAIN z.toc : Holds(z, i) => Holds(y, i)
          /\ \A i \in DOMAIN z.toc : z.toc[i].type = "R" /\ z.toc[i].remote.name = n => Holds(y, i)
      BY <2>1, <3>1, <3>3, IndexAdded
    <3> QED BY <3>2, <3>4, <3>5
  <2>4. CASE job.do = "compress"
    <3> DEFINE p == job.package
    <3>1. p \in Package /\ disk[p] = registry[p].version /\ registry[p].version # NoVersion
      BY <1>4, <1>5, <1>6, <2>4
    <3>2. ASSUME NEW i \in DOMAIN z.toc, job = JobsOf(z.toc)[i]
          PROVE  z.toc[i].type = "P" /\ At(z.toc, i) = p
      <4>1. z.toc[i].type = "R" => job.do = "index"
        BY <2>2, <3>2
      <4>2. z.toc[i].type = "P" => job.package = At(z.toc, i)
        BY <2>2, <3>2
      <4> QED BY <2>2, <2>4, <4>1, <4>2
    <3>3. PICK y : y = [z EXCEPT !.files[p] = registry[p].version]
      OBVIOUS
    <3>4. Added(z) = y
      BY <2>4, <3>1, <3>3
    <3> HIDE DEF p, Added
    <3>5. /\ y \in Archives /\ y.toc = z.toc /\ y.whole = z.whole /\ FilesOf(y, registry)
          /\ \A i \in DOMAIN z.toc : Holds(z, i) => Holds(y, i)
          /\ \A i \in DOMAIN z.toc : z.toc[i].type = "P" /\ At(z.toc, i) = p => Holds(y, i)
      BY <1>2, <2>1, <3>1, <3>3, FileAdded
    <3> QED BY <3>2, <3>4, <3>5
  <2> QED BY <1>1, <2>3, <2>4
<1>7. ASSUME NEW z \in temp
      PROVE  /\ Missing(z) \in Archives /\ Missing(z).toc = z.toc /\ ~Missing(z).whole
             /\ FilesOf(Missing(z), registry)
  <2>1. z \in Archives /\ FilesOf(z, registry)
    BY <1>2 DEF TempOK
  <2>2. /\ Missing(z) \in Archives /\ Missing(z).toc = z.toc /\ ~Missing(z).whole
        /\ Missing(z).files = z.files
    BY <2>1 DEF Archives
  <2> HIDE DEF Missing
  <2> QED BY <2>1, <2>2 DEF FilesOf
<1>8. receipt' \in SUBSET Errors /\ receipt \subseteq receipt'
  BY <1>1, <1>2 DEF Errors
<1>9. temp' \in SUBSET Archives /\ TempOK'
  <2>1. ASSUME NEW y \in temp'
        PROVE  /\ y \in Archives /\ active = <<ExportTask>>
               /\ TocOf(y.toc, registry) /\ FilesOf(y, registry)
               /\ y.whole => \A i \in DOMAIN y.toc :
                    Holds(y, i) \/ \E k \in DOMAIN left : left[k] = JobsOf(y.toc)[i]
    <3>1. CASE exists /\ temp' = {Added(z) : z \in temp}
      <4>1. PICK z \in temp : y = Added(z)
        BY <3>1
      <4>2. /\ active = <<ExportTask>> /\ TocOf(z.toc, registry)
            /\ z.whole => \A i \in DOMAIN z.toc :
                 Holds(z, i) \/ \E k \in DOMAIN jobs : jobs[k] = JobsOf(z.toc)[i]
        BY <1>2 DEF TempOK
      <4>3. /\ y \in Archives /\ y.toc = z.toc /\ y.whole = z.whole /\ FilesOf(y, registry)
            /\ \A i \in DOMAIN z.toc : Holds(z, i) \/ job = JobsOf(z.toc)[i] => Holds(y, i)
        BY <1>6, <3>1, <4>1
      <4>4. ASSUME y.whole, NEW i \in DOMAIN y.toc
            PROVE  Holds(y, i) \/ \E k \in DOMAIN left : left[k] = JobsOf(y.toc)[i]
        <5> HIDE DEF Added
        <5> QED BY <1>3, <4>2, <4>3, <4>4
      <4> QED BY <4>2, <4>3, <4>4
    <3>2. CASE temp' = {Missing(z) : z \in temp}
      <4>1. PICK z \in temp : y = Missing(z)
        BY <3>2
      <4>2. active = <<ExportTask>> /\ TocOf(z.toc, registry)
        BY <1>2 DEF TempOK
      <4>3. y \in Archives /\ y.toc = z.toc /\ ~y.whole /\ FilesOf(y, registry)
        BY <1>7, <4>1
      <4> QED BY <4>2, <4>3
    <3> QED BY <1>1, <3>1, <3>2
  <2> HIDE DEF Added, Missing, exists
  <2>2. TempOK'
    BY <1>1, <2>1 DEF TempOK
  <2> QED BY <2>1, <2>2
<1> HIDE DEF Added, Missing, exists
<1>10. TypeOK'
  BY <1>1, <1>2, <1>3, <1>8, <1>9 DEF TypeOK
<1>11. TasksOK'
  <2>1. QueueOK(active)' /\ \A n \in DOMAIN queues' : QueueOK(queues'[n])
    BY <1>1, <1>2 DEF TasksOK, QueueOK
  <2>2. Extracting'
    <3>1. ASSUME NEW k \in DOMAIN active, active[k].kind = "install", active[k].archive # {},
                 NEW n \in DOMAIN jobs, jobs[n] = ExtractionOf(active[k])
          PROVE  \E l \in DOMAIN left : left[l] = ExtractionOf(active[k])
      <4>1. jobs[n].do = "extract"
        BY <3>1 DEF ExtractionOf
      <4> QED BY <1>1, <1>3, <3>1, <4>1
    <3>2. Extracting
      BY <1>2 DEF TasksOK
    <3> QED BY <1>1, <3>1, <3>2 DEF Extracting, ExtractionOf
  <2>3. active # <<>>
    BY <1>1, <1>2 DEF TasksOK
  <2> QED BY <1>1, <1>2, <1>8, <2>1, <2>2, <2>3 DEF TasksOK, Idle
<1>12. ListOK' /\ ZipOK' /\ FilesOK'
  BY <1>1, <1>2 DEF ListOK, ZipOK, FilesOK
<1>13. HistoryOK'
  BY <1>1, <1>2, <1>8, ErrorsAdded
<1> QED BY <1>9, <1>10, <1>11, <1>12, <1>13 DEF Inv, StateOK

\* Extracting a file.
LEMMA ExtractKeeps ==
  ASSUME Inv, Extract
  PROVE  Inv'
<1> DEFINE job == Head(jobs)
           left == Tail(jobs)
           p == job.package
<1>1. /\ jobs # <<>> /\ job.do = "extract" /\ jobs' = left
      /\ \/ \E z \in job.archive : z.files[p] # NoVersion
         \/ p \in failed'
      /\ \/ failed' = failed /\ receipt' = receipt
         \/ failed' = failed \union {p} /\ receipt' = receipt \union {Task(p)}
      /\ UNCHANGED <<list, cache, registry, disk, open, queues, active, cancelled, temp, zip,
                     imported, touched>>
  BY DEF Extract, computer, history
<1>2. /\ jobs \in Seq(Jobs) /\ failed \in SUBSET Package /\ receipt \in SUBSET Errors
      /\ temp \in SUBSET Archives
      /\ TypeOK /\ ListOK /\ ZipOK /\ TempOK /\ TasksOK /\ FilesOK /\ HistoryOK
  BY DEF Inv, StateOK, TypeOK
<1>3. /\ left \in Seq(Jobs) /\ job \in Jobs
      /\ \A k \in DOMAIN jobs : jobs[k] = job \/ \E n \in DOMAIN left : left[n] = jobs[k]
  BY <1>1, <1>2, JobsLeft
<1>4. p \in Package
  BY <1>1, <1>3 DEF Jobs
<1> HIDE DEF job, left, p
<1>5. /\ failed' \in SUBSET Package /\ receipt' \in SUBSET Errors
      /\ failed \subseteq failed' /\ receipt \subseteq receipt'
      /\ \A x \in failed' : x \in failed \/ Task(x) \in receipt'
  <2>1. Task(p) \in Errors
    BY <1>4 DEF Task, Errors
  <2> QED BY <1>1, <1>2, <1>4, <2>1
<1>6. TypeOK'
  BY <1>1, <1>2, <1>3, <1>5 DEF TypeOK
<1>7. TempOK'
  <2> SUFFICES ASSUME NEW z \in temp, z.whole, NEW i \in DOMAIN z.toc
               PROVE  Holds(z, i) \/ \E k \in DOMAIN left : left[k] = JobsOf(z.toc)[i]
    BY <1>1, <1>2 DEF TempOK
  <2>1. Holds(z, i) \/ \E k \in DOMAIN jobs : jobs[k] = JobsOf(z.toc)[i]
    BY <1>2 DEF TempOK
  <2>2. JobsOf(z.toc)[i].do \in {"index", "compress"}
    <3>1. z.toc \in Seq(TocLines) /\ (z.toc # <<>> => z.toc[1].type = "R")
      BY <1>2 DEF TempOK, TocOf, Archives
    <3> QED BY <3>1, LineTyped, LineJobs
  <2> QED BY <1>1, <1>3, <2>1, <2>2
<1>8. TasksOK'
  <2>1. QueueOK(active)' /\ \A n \in DOMAIN queues' : QueueOK(queues'[n])
    BY <1>1, <1>2 DEF TasksOK, QueueOK
  <2>2. Extracting'
    <3>1. ASSUME NEW k \in DOMAIN active, active[k].kind = "install", active[k].archive # {}
          PROVE  \/ active[k].package \in failed'
                 \/ \E z \in active[k].archive : z.files[active[k].package] # NoVersion
                 \/ \E l \in DOMAIN left : left[l] = ExtractionOf(active[k])
      <4>1. \/ active[k].package \in failed
            \/ \E z \in active[k].archive : z.files[active[k].package] # NoVersion
            \/ \E n \in DOMAIN jobs : jobs[n] = ExtractionOf(active[k])
        BY <1>2, <3>1 DEF TasksOK, Extracting, ExtractionOf
      <4>2. CASE job = ExtractionOf(active[k])
        <5>1. p = active[k].package /\ job.archive = active[k].archive
          BY <4>2 DEF ExtractionOf, p
        <5> QED BY <1>1, <5>1
      <4>3. CASE job # ExtractionOf(active[k])
        BY <1>3, <1>5, <4>1, <4>3
      <4> QED BY <4>2, <4>3
    <3> QED BY <1>1, <3>1 DEF Extracting, ExtractionOf
  <2>3. active # <<>>
    BY <1>1, <1>2 DEF TasksOK
  <2> QED BY <1>1, <1>2, <1>5, <2>1, <2>2, <2>3 DEF TasksOK, Idle
<1>9. ListOK' /\ ZipOK' /\ FilesOK'
  BY <1>1, <1>2 DEF ListOK, ZipOK, FilesOK
<1>10. HistoryOK'
  BY <1>1, <1>2, <1>5, ErrorsAdded
<1> QED BY <1>6, <1>7, <1>8, <1>9, <1>10 DEF Inv, StateOK

-----------------------------------------------------------------------------
(* The ends of a transaction and other computers *)

\* Nothing runs.
LEMMA NothingRuns ==
  QueueOK(<<>>) /\ <<>> \in Seq(Tasks) /\ <<>> \in Seq(Seq(Tasks)) /\ <<>> \in Seq(Jobs)
BY EmptySeq DEF QueueOK

\* Cancelling.
LEMMA CancelKeeps ==
  ASSUME Inv, Cancel
  PROVE  Inv'
<1>1. /\ active # <<>> /\ cancelled' = TRUE
      /\ queues' = <<>> /\ active' = <<>> /\ jobs' = <<>> /\ failed' = {} /\ temp' = {}
      /\ UNCHANGED <<list, cache, registry, disk, open, receipt, zip, imported, touched>>
  BY DEF Cancel, computer, history
<1>2. TypeOK /\ ListOK /\ ZipOK /\ TempOK /\ TasksOK /\ FilesOK /\ HistoryOK
  BY DEF Inv, StateOK
<1>3. TypeOK'
  BY <1>1, <1>2, NothingRuns DEF TypeOK
<1>4. ListOK' /\ ZipOK' /\ FilesOK' /\ TempOK'
  BY <1>1, <1>2 DEF ListOK, ZipOK, FilesOK, TempOK
<1>5. TasksOK'
  <2>1. QueueOK(active)' /\ \A n \in DOMAIN queues' : QueueOK(queues'[n])
    BY <1>1, NothingRuns DEF QueueOK
  <2> QED BY <1>1, <2>1 DEF TasksOK, Idle, Extracting
<1>6. HistoryOK'
  <2>1. \A t : ~Pending(t)'
    BY <1>1 DEF Pending, In
  <2>2. \A m \in imported' : ImportOK(m)'
    BY <1>1, <1>2 DEF HistoryOK, ImportOK
  <2> QED BY <1>1, <1>2, <2>1, <2>2 DEF HistoryOK
<1> QED BY <1>3, <1>4, <1>5, <1>6 DEF Inv, StateOK

\* The end of a transaction.
LEMMA FinishKeeps ==
  ASSUME Inv, Finish
  PROVE  Inv'
<1>1. /\ active = <<>> /\ queues = <<>> /\ open' = FALSE /\ cancelled' = FALSE
      /\ receipt' = {} /\ imported' = {} /\ touched' = {}
      /\ UNCHANGED <<list, cache, registry, disk, queues, active, jobs, failed, temp, zip>>
  BY DEF Finish, Idle, computer
<1>2. TypeOK /\ ListOK /\ ZipOK /\ TempOK /\ TasksOK /\ FilesOK
  BY DEF Inv, StateOK
<1>3. TypeOK'
  BY <1>1, <1>2 DEF TypeOK
<1>4. ListOK' /\ ZipOK' /\ FilesOK' /\ TempOK'
  BY <1>1, <1>2 DEF ListOK, ZipOK, FilesOK, TempOK
<1>5. TasksOK'
  <2>1. QueueOK(active)' /\ \A n \in DOMAIN queues' : QueueOK(queues'[n])
    BY <1>1, NothingRuns DEF QueueOK
  <2> QED BY <1>1, <1>2, <2>1 DEF TasksOK, Idle, Extracting
<1>6. HistoryOK'
  <2>1. \A t : ~Pending(t)'
    BY <1>1 DEF Pending, In
  <2> QED BY <1>1, <2>1 DEF HistoryOK
<1> QED BY <1>3, <1>4, <1>5, <1>6 DEF Inv, StateOK

\* A computer, taken apart.
LEMMA ComputerTyped ==
  ASSUME NEW c \in Computers
  PROVE  /\ Configured(c.remotes) \in Lists /\ Finds(Configured(c.remotes))
         /\ HasName(Configured(c.remotes), Self)
         /\ c.cache \in [Names -> IndexFile] /\ c.registry \in Registries
<1>1. /\ c.remotes \in Seq(Remote) /\ c.cache \in [Names -> IndexFile]
      /\ c.registry \in Registries
      /\ \E i \in DOMAIN c.remotes : c.remotes[i].name = Self
  <2>1. c \in Computer /\ \E i \in DOMAIN c.remotes : c.remotes[i].name = Self
    BY ArchiveAssumption
  <2> QED BY <2>1 DEF Computer, Registries
<1> QED BY <1>1, ConfiguredFinds

\* The archive on another computer.
LEMMA CarryKeeps ==
  ASSUME Inv, NEW c \in Computers, Carry(c)
  PROVE  Inv'
<1>1. /\ ~open /\ list' = Configured(c.remotes) /\ cache' = c.cache /\ registry' = c.registry
      /\ disk' = [p \in Package |-> c.registry[p].version]
      /\ UNCHANGED <<open, queues, active, jobs, failed, cancelled, temp, receipt, zip,
                     imported, touched>>
  BY DEF Carry, tasks, history
<1>2. TypeOK /\ ListOK /\ ZipOK /\ TempOK /\ TasksOK /\ FilesOK /\ HistoryOK
  BY DEF Inv, StateOK
<1>3. active = <<>> /\ queues = <<>> /\ temp = {} /\ imported = {} /\ touched = {}
  <2>1. active = <<>> /\ queues = <<>> /\ imported = {} /\ touched = {}
    BY <1>1, <1>2 DEF TasksOK, Idle, HistoryOK
  <2> QED BY <1>2, <2>1 DEF TempOK
<1>4. TypeOK' /\ ListOK'
  BY <1>1, <1>2, ComputerTyped DEF TypeOK, ListOK
<1>5. ZipOK' /\ FilesOK' /\ TempOK'
  BY <1>1, <1>2, <1>3 DEF ZipOK, FilesOK, TempOK
<1>6. TasksOK'
  <2>1. QueueOK(active)' /\ \A n \in DOMAIN queues' : QueueOK(queues'[n])
    BY <1>1, <1>3, NothingRuns DEF QueueOK
  <2> QED BY <1>1, <1>2, <1>3, <2>1 DEF TasksOK, Idle, Extracting
<1>7. HistoryOK'
  <2>1. \A t : ~Pending(t)'
    BY <1>1, <1>3 DEF Pending, In
  <2> QED BY <1>1, <1>3, <2>1 DEF HistoryOK
<1> QED BY <1>4, <1>5, <1>6, <1>7 DEF Inv, StateOK

\* The start of the program.
LEMMA InitGood ==
  ASSUME Init
  PROVE  Inv
<1>1. PICK c \in Computers :
        /\ list = Configured(c.remotes) /\ cache = c.cache /\ registry = c.registry
        /\ disk = [p \in Package |-> c.registry[p].version]
  BY DEF Init
<1>2. /\ open = FALSE /\ queues = <<>> /\ active = <<>> /\ jobs = <<>> /\ failed = {}
      /\ cancelled = FALSE /\ receipt = {}
      /\ temp = {} /\ zip = {} /\ imported = {} /\ touched = {}
  BY DEF Init
<1>3. TypeOK /\ ListOK
  BY <1>1, <1>2, ComputerTyped, NothingRuns DEF TypeOK, ListOK
<1>4. ZipOK /\ FilesOK /\ TempOK
  BY <1>1, <1>2 DEF ZipOK, FilesOK, TempOK
<1>5. TasksOK
  BY <1>2, NothingRuns DEF TasksOK, Idle, Extracting
<1>6. HistoryOK
  BY <1>2 DEF HistoryOK, Pending, In
<1> QED BY <1>3, <1>4, <1>5, <1>6 DEF Inv, StateOK

-----------------------------------------------------------------------------
(* The end of a queue *)

\* A set of positions has a last one.
LEMMA LastPosition ==
  ASSUME NEW n \in Nat, NEW S \in SUBSET (1..n), S # {}
  PROVE  Max(S) \in S
<1> DEFINE T == {n - x : x \in S}
<1>1. T \in SUBSET Nat /\ T # {}
  <2>1. \A x \in S : n - x \in Nat
    OBVIOUS
  <2> QED BY <2>1
<1>2. PICK m \in T : \A k \in T : m <= k
  <2> HIDE DEF T
  <2> QED BY <1>1, LeastNat
<1>3. PICK x \in S : m = n - x
  BY <1>2
<1>4. \A y \in S : x >= y
  <2> SUFFICES ASSUME NEW y \in S PROVE x >= y
    OBVIOUS
  <2>1. n - x <= n - y
    BY <1>2, <1>3
  <2> QED BY <2>1
<1> QED BY <1>4 DEF Max

\* The positions of the tasks that are committed, and the last task of a package.
Done(down) == {i \in DOMAIN active : active[i].kind # "export"
                                       /\ active[i].package \notin failed \union down}
PackagesOf(done) == {active[i].package : i \in done}
LastOf(done, p) == active[Max({i \in done : active[i].package = p})]

\* A package is committed by a task of it that was not failed, and gets the files of the
\* version that is registered.
LEMMA TaskCommitted ==
  ASSUME StateOK, jobs = <<>>, NEW down \in SUBSET Package,
         NEW p \in PackagesOf(Done(down)), NEW t, t = LastOf(Done(down), p)
  PROVE  /\ t \in Tasks /\ Pending(t) /\ t.kind # "export" /\ t.package = p /\ p \in Package
         /\ Registered(t) \in RegistryEntry /\ Content(t) = Registered(t).version
<1>1. active \in Seq(Tasks) /\ QueueOK(active) /\ Extracting
  BY DEF StateOK, TypeOK, TasksOK
<1> DEFINE S == {i \in Done(down) : active[i].package = p}
<1>2. Max(S) \in S
  <2>1. Len(active) \in Nat /\ DOMAIN active = 1..Len(active)
    BY <1>1
  <2>2. S \in SUBSET (1..Len(active)) /\ S # {}
    BY <2>1 DEF Done, PackagesOf
  <2> HIDE DEF S
  <2> QED BY <2>1, <2>2, LastPosition
<1>3. PICK k \in DOMAIN active : t = active[k] /\ t.kind # "export" /\ t.package = p /\ p \notin failed
  BY <1>2 DEF LastOf, Done
<1>4. t \in Tasks /\ Pending(t)
  BY <1>1, <1>3 DEF Pending, In
<1>5. /\ t.kind \in {"uninstall", "install"} /\ p \in Package
      /\ t.kind = "install" =>
           t.version \in Versions /\ t.flags \in Flags /\ t.archive \in SUBSET Archives
  BY <1>3, <1>4, TaskFields
<1>6. TaskOK(t)
  <2>1. active # <<ExportTask>>
    BY <1>3 DEF ExportTask
  <2> QED BY <1>1, <1>3, <2>1 DEF QueueOK
<1>7. Registered(t) \in RegistryEntry
  BY <1>5 DEF Registered, RegistryEntry
<1>8. Content(t) = Registered(t).version
  <2>1. CASE t.kind = "uninstall"
    BY <2>1 DEF Content, Registered, NotInstalled
  <2>2. CASE t.kind = "install" /\ t.archive = {}
    BY <2>2 DEF Content, Registered
  <2>3. CASE t.kind = "install" /\ t.archive # {}
    <3>1. PICK z : t.archive = {z} /\ z.files[p] \in {NoVersion, t.version}
      BY <1>3, <1>6, <2>3 DEF TaskOK
    <3>2. \E y \in t.archive : y.files[p] # NoVersion
      BY <1>1, <1>3, <2>3 DEF Extracting
    <3>3. z.files[p] = t.version
      BY <3>1, <3>2
    <3>4. (CHOOSE a \in t.archive : TRUE) = z
      BY <3>1
    <3>5. Content(t) = z.files[p]
      BY <1>3, <2>3, <3>4 DEF Content
    <3> QED BY <2>3, <3>3, <3>5 DEF Registered
  <2> QED BY <1>5, <2>1, <2>2, <2>3
<1> QED BY <1>3, <1>4, <1>5, <1>7, <1>8

\* The next queue runs.
LEMMA NextQueue ==
  ASSUME StateOK, NEW reg \in Registries, NEW errors \in SUBSET Errors,
         registry' = reg, open' = open, open,
         IF queues = <<>> THEN RunQueue(<<>>, reg, errors) /\ UNCHANGED queues
         ELSE RunQueue(queues[1], reg, errors) /\ queues' = Tail(queues)
  PROVE  /\ active' \in Seq(Tasks) /\ queues' \in Seq(Seq(Tasks)) /\ jobs' \in Seq(Jobs)
         /\ failed' = {} /\ receipt' \in SUBSET Errors /\ temp' \in SUBSET Archives
         /\ errors \subseteq receipt' /\ TempOK' /\ TasksOK'
         /\ \A t : Pending(t)' => Pending(t)
         /\ \A t : Pending(t) => Pending(t)' \/ In(t, active) \/ t = ExportTask
<1>1. /\ queues \in Seq(Seq(Tasks)) /\ \A n \in DOMAIN queues : QueueOK(queues[n])
      /\ list.remotes \in Seq(Remote)
  BY ListTyped DEF StateOK, TypeOK, TasksOK
<1>2. PICK queue \in Seq(Tasks) :
        /\ QueueOK(queue) /\ RunQueue(queue, reg, errors)
        /\ queues' \in Seq(Seq(Tasks))
        /\ \A n \in DOMAIN queues' : \E k \in DOMAIN queues : queues'[n] = queues[k]
        /\ queue = <<>> \/ \E k \in DOMAIN queues : queue = queues[k]
        /\ \A k \in DOMAIN queues : queues[k] = queue \/ \E n \in DOMAIN queues' : queues'[n] = queues[k]
  <2>1. CASE queues = <<>>
    <3>1. RunQueue(<<>>, reg, errors) /\ queues' = <<>>
      BY <2>1
    <3> QED BY <2>1, <3>1, NothingRuns
  <2>2. CASE queues # <<>>
    <3>1. RunQueue(queues[1], reg, errors) /\ queues' = Tail(queues)
      BY <2>2
    <3>2. /\ Len(queues) \in Nat \ {0} /\ DOMAIN queues = 1..Len(queues)
          /\ Tail(queues) \in Seq(Seq(Tasks)) /\ DOMAIN Tail(queues) = 1..(Len(queues) - 1)
          /\ \A n \in 1..(Len(queues) - 1) : Tail(queues)[n] = queues[n + 1]
          /\ queues[1] \in Seq(Tasks)
      BY <1>1, <2>2
    <3>3. \A n \in DOMAIN queues' : \E k \in DOMAIN queues : queues'[n] = queues[k]
      <4>1. \A n \in 1..(Len(queues) - 1) : n + 1 \in 1..Len(queues)
        BY <3>2
      <4> QED BY <3>1, <3>2, <4>1
    <3>4. ASSUME NEW k \in DOMAIN queues, k # 1
          PROVE  k - 1 \in DOMAIN queues' /\ queues'[k - 1] = queues[k]
      BY <3>1, <3>2, <3>4
    <3>5. 1 \in DOMAIN queues
      BY <3>2
    <3> QED BY <1>1, <3>1, <3>2, <3>3, <3>4, <3>5
  <2> QED BY <2>1, <2>2
<1>3. /\ active' \in Seq(Tasks) /\ jobs' \in Seq(Jobs) /\ failed' = {}
      /\ receipt' \in SUBSET Errors /\ temp' \in SUBSET Archives
      /\ errors \subseteq receipt'
      /\ active' = queue \/ (active' = <<>> /\ queue = <<ExportTask>>)
      /\ active' = <<>> => jobs' = <<>>
      /\ QueueOK(active)' /\ Extracting'
      /\ \A z \in temp' :
           /\ active' = <<ExportTask>> /\ TocOf(z.toc, reg) /\ FilesOf(z, reg)
           /\ \A i \in DOMAIN z.toc : \E k \in DOMAIN jobs' : jobs'[k] = JobsOf(z.toc)[i]
  BY <1>1, <1>2, QueueRun
<1>4. TempOK'
  BY <1>3 DEF TempOK
<1>5. TasksOK'
  <2>1. \A n \in DOMAIN queues' : QueueOK(queues'[n])
    BY <1>1, <1>2
  <2> QED BY <1>3, <2>1 DEF TasksOK
<1>6. \A t : In(t, active') => In(t, queue)
  BY <1>3 DEF In
<1>7. ASSUME NEW t, Pending(t)' PROVE Pending(t)
  <2>1. CASE In(t, active')
    <3>1. In(t, queue)
      BY <1>6, <2>1
    <3>2. queue # <<>>
      BY <3>1 DEF In
    <3> QED BY <1>2, <3>1, <3>2 DEF Pending
  <2>2. CASE \E n \in DOMAIN queues' : In(t, queues'[n])
    <3>1. \E k \in DOMAIN queues : In(t, queues[k])
      BY <1>2, <2>2
    <3> QED BY <3>1 DEF Pending
  <2> QED BY <1>7, <2>1, <2>2 DEF Pending
<1>8. \A t : In(t, queue) => In(t, active') \/ t = ExportTask
  <2>1. CASE active' = queue
    BY <2>1
  <2>2. CASE queue = <<ExportTask>>
    BY <2>2 DEF In
  <2> QED BY <1>3, <2>1, <2>2
<1>9. \A t : Pending(t) => Pending(t)' \/ In(t, active) \/ t = ExportTask
  BY <1>2, <1>8 DEF Pending
<1> QED BY <1>2, <1>3, <1>4, <1>5, <1>7, <1>9

\* Committing: of the state.
LEMMA CommitState ==
  ASSUME StateOK, NEW down \in SUBSET Downloads, NEW moved \in BOOLEAN, Commit(down, moved)
  PROVE  /\ StateOK' /\ receipt \subseteq receipt' /\ open' = open /\ open
         /\ \A p \in failed \union down : Task(p) \in receipt'
         /\ \A t : Pending(t)' => Pending(t)
         /\ \A t : Pending(t) => Pending(t)' \/ In(t, active) \/ t = ExportTask
         /\ UNCHANGED <<list, cancelled, imported, touched>>
         /\ \A p \in Package :
              registry'[p] = IF p \in PackagesOf(Done(down)) THEN Registered(LastOf(Done(down), p))
                             ELSE registry[p]
<1> DEFINE packages == PackagesOf(Done(down))
           exported == \E i \in DOMAIN active : active[i].kind = "export"
           errors1 == receipt \union {Task(p) : p \in down}
                        \union (IF exported /\ ~moved THEN {Exporting} ELSE {})
           TaskOf(p) == LastOf(Done(down), p)
<1>1. /\ ~Idle /\ jobs = <<>>
      /\ registry' = [p \in Package |-> IF p \in packages THEN Registered(TaskOf(p)) ELSE registry[p]]
      /\ disk' = [p \in Package |-> IF p \in packages THEN Content(TaskOf(p)) ELSE disk[p]]
      /\ zip' = IF exported /\ moved THEN temp ELSE zip
      /\ IF queues = <<>> THEN RunQueue(<<>>, registry', errors1) /\ UNCHANGED queues
         ELSE RunQueue(queues[1], registry', errors1) /\ queues' = Tail(queues)
      /\ UNCHANGED <<list, cache, open, cancelled, imported, touched>>
  BY DEF Commit, Done, PackagesOf, LastOf, history
<1> HIDE DEF packages, exported, TaskOf
<1>2. /\ TypeOK /\ ListOK /\ ZipOK /\ TempOK /\ TasksOK /\ FilesOK
      /\ registry \in Registries /\ receipt \in SUBSET Errors /\ active \in Seq(Tasks)
      /\ temp \in SUBSET Archives
  BY DEF StateOK, TypeOK
<1>3. down \in SUBSET Package
  <2>1. \A i \in DOMAIN active : active[i] \in Tasks
    BY <1>2
  <2> QED BY <2>1, TaskFields DEF Downloads
<1>4. ASSUME NEW p \in packages
      PROVE  Registered(TaskOf(p)) \in RegistryEntry /\ Content(TaskOf(p)) = Registered(TaskOf(p)).version
  BY <1>1, <1>3, TaskCommitted DEF packages, TaskOf
<1>5. PICK reg : reg = registry'
  OBVIOUS
<1>6. PICK errors : errors = errors1
  OBVIOUS
<1>7. reg \in Registries
  BY <1>1, <1>2, <1>4, <1>5 DEF Registries
<1>8. errors \in SUBSET Errors /\ receipt \subseteq errors /\ \A p \in down : Task(p) \in errors
  <2>1. \A p \in Package : Task(p) \in Errors
    BY DEF Task, Errors
  <2>2. Exporting \in Errors
    BY DEF Errors
  <2> QED BY <1>2, <1>3, <1>6, <2>1, <2>2
<1>9. open
  BY <1>1, <1>2 DEF TasksOK
<1> HIDE DEF errors1
<1>10. /\ active' \in Seq(Tasks) /\ queues' \in Seq(Seq(Tasks)) /\ jobs' \in Seq(Jobs)
       /\ failed' = {} /\ receipt' \in SUBSET Errors /\ temp' \in SUBSET Archives
       /\ errors \subseteq receipt' /\ TempOK' /\ TasksOK'
       /\ \A t : Pending(t)' => Pending(t)
       /\ \A t : Pending(t) => Pending(t)' \/ In(t, active) \/ t = ExportTask
  <2>1. IF queues = <<>> THEN RunQueue(<<>>, reg, errors) /\ UNCHANGED queues
        ELSE RunQueue(queues[1], reg, errors) /\ queues' = Tail(queues)
    BY <1>1, <1>5, <1>6
  <2> QED BY <1>1, <1>5, <1>7, <1>8, <1>9, <2>1, NextQueue
<1>11. TypeOK'
  <2>1. zip' \in SUBSET Archives
    BY <1>1, <1>2 DEF TypeOK
  <2> QED BY <1>1, <1>2, <1>5, <1>7, <1>10, <2>1 DEF TypeOK
<1>12. ZipOK'
  <2>1. ASSUME NEW z \in temp
        PROVE  /\ \E r \in Registries : TocOf(z.toc, r) /\ FilesOf(z, r)
               /\ z.whole => \A i \in DOMAIN z.toc : Holds(z, i)
    BY <1>1, <1>2 DEF TempOK
  <2>2. zip' = temp \/ zip' = zip
    BY <1>1
  <2> QED BY <1>2, <2>1, <2>2 DEF ZipOK
<1>13. FilesOK'
  <2>1. \A p \in Package : disk[p] = registry[p].version
    BY <1>2 DEF FilesOK
  <2>2. \A p \in Package : disk'[p] = registry'[p].version
    BY <1>1, <1>4, <2>1
  <2> QED BY <1>1, <2>2 DEF FilesOK
<1>14. ListOK'
  BY <1>1, <1>2 DEF ListOK
<1>15. \A p \in failed \union down : Task(p) \in receipt'
  BY <1>2, <1>8, <1>10 DEF TasksOK
<1> QED BY <1>1, <1>8, <1>9, <1>10, <1>11, <1>12, <1>13, <1>14, <1>15 DEF StateOK, packages, TaskOf

\* Committing: of what an import expects.
LEMMA CommitKeeps ==
  ASSUME Inv, NEW down \in SUBSET Downloads, NEW moved \in BOOLEAN, Commit(down, moved)
  PROVE  Inv'
<1>1. StateOK /\ HistoryOK /\ active \in Seq(Tasks) /\ imported \in SUBSET Imports
  BY DEF Inv, StateOK, TypeOK
<1>2. /\ StateOK' /\ receipt \subseteq receipt' /\ open' = open /\ open
      /\ \A p \in failed \union down : Task(p) \in receipt'
      /\ \A t : Pending(t)' => Pending(t)
      /\ \A t : Pending(t) => Pending(t)' \/ In(t, active) \/ t = ExportTask
      /\ UNCHANGED <<list, cancelled, imported, touched>>
      /\ \A p \in Package :
           registry'[p] = IF p \in PackagesOf(Done(down)) THEN Registered(LastOf(Done(down), p))
                          ELSE registry[p]
  BY <1>1, CommitState
<1>3. down \in SUBSET Package
  <2>1. \A i \in DOMAIN active : active[i] \in Tasks
    BY <1>1
  <2> QED BY <2>1, TaskFields DEF Downloads
\* A task that is committed is expected, so its package is the one of a line, if the user
\* did not ask something else of it.
<1>4. ASSUME NEW m \in imported, NEW p \in PackagesOf(Done(down)), p \notin touched
      PROVE  /\ p \in {At(m.toc, j) : j \in Packages(m.toc)}
             /\ \A i \in Packages(m.toc) : At(m.toc, i) = p =>
                  registry'[p] = [version |-> m.toc[i].version, flags |-> m.toc[i].flags]
  <2>1. PICK t : t = LastOf(Done(down), p)
    OBVIOUS
  <2>2. /\ t \in Tasks /\ Pending(t) /\ t.kind # "export" /\ t.package = p /\ p \in Package
    <3>1. jobs = <<>>
      BY DEF Commit
    <3> QED BY <1>1, <1>3, <2>1, <3>1, TaskCommitted
  <2>3. PICK j \in DOMAIN m.toc : Wanted(m, t, j)
    <3>1. Expected(t)
      BY <1>1, <2>2 DEF HistoryOK
    <3>2. \A n \in imported : n = m
      BY <1>1 DEF HistoryOK
    <3> QED BY <1>4, <2>2, <3>1, <3>2 DEF Expected
  <2>4. j \in Packages(m.toc) /\ At(m.toc, j) = p
    BY <2>2, <2>3 DEF Wanted, Packages
  <2>5. registry'[p] = [version |-> m.toc[j].version, flags |-> m.toc[j].flags]
    <3>1. registry'[p] = Registered(t)
      BY <1>2, <1>4, <2>1, <2>2
    <3> QED BY <2>3, <3>1 DEF Registered, Wanted
  <2>6. ASSUME NEW i \in Packages(m.toc), At(m.toc, i) = p
        PROVE  m.toc[i].version = m.toc[j].version /\ m.toc[i].flags = m.toc[j].flags
    <3>1. PICK reg \in Registries : TocOf(m.toc, reg)
      BY <1>1 DEF HistoryOK, ImportOK
    <3>2. m.toc \in Seq(TocLines)
      BY <1>1 DEF Imports
    <3>3. /\ reg[p] = [version |-> m.toc[i].version, flags |-> m.toc[i].flags]
          /\ reg[p] = [version |-> m.toc[j].version, flags |-> m.toc[j].flags]
      BY <2>4, <2>6, <3>1, <3>2, LineIsEntry DEF Packages
    <3> QED BY <3>3
  <2> QED BY <2>4, <2>5, <2>6
<1>5. ASSUME NEW m \in imported, NEW i \in Packages(m.toc), Accounted(m, i)
      PROVE  Accounted(m, i)'
  <2> DEFINE p == At(m.toc, i)
             line == [version |-> m.toc[i].version, flags |-> m.toc[i].flags]
  <2>1. p \in Package
    <3>1. PICK reg \in Registries : TocOf(m.toc, reg)
      BY <1>1 DEF HistoryOK, ImportOK
    <3>2. m.toc \in Seq(TocLines)
      BY <1>1 DEF Imports
    <3> QED BY <3>1, <3>2, RepoLineFound DEF TocOf, Packages
  <2>2. CASE p \in touched
    BY <1>2, <2>2 DEF Accounted
  <2>3. CASE p \notin touched /\ p \in PackagesOf(Done(down))
    BY <1>4, <2>3 DEF Accounted
  <2>4. CASE p \notin touched /\ p \notin PackagesOf(Done(down))
    <3>1. registry'[p] = registry[p]
      BY <1>2, <2>1, <2>4
    <3>2. CASE registry[p] = line
      BY <3>1, <3>2 DEF Accounted
    <3>3. CASE receipt \cap {Line(i), Line(RepoLine(m.toc, i)), Task(p)} # {}
      <4>1. receipt' \cap {Line(i), Line(RepoLine(m.toc, i)), Task(p)} # {}
        BY <1>2, <3>3
      <4> QED BY <4>1 DEF Accounted
    <3>4. CASE \E t \in Tasks : Pending(t) /\ Wanted(m, t, i)
      <4>1. PICK t \in Tasks : Pending(t) /\ Wanted(m, t, i)
        BY <3>4
      <4>2. t.kind = "install" /\ t.package = p /\ t # ExportTask
        BY <4>1 DEF Wanted, ExportTask
      <4>3. CASE In(t, active)
        <5>1. p \in failed \union down
          <6>1. PICK k \in DOMAIN active : active[k] = t
            BY <4>3 DEF In
          <6>2. k \notin Done(down)
            BY <2>4, <4>2, <6>1 DEF PackagesOf
          <6> QED BY <4>2, <6>1, <6>2 DEF Done
        <5>2. Task(p) \in receipt'
          BY <1>2, <5>1
        <5> QED BY <5>2 DEF Accounted
      <4>4. CASE Pending(t)'
        BY <4>1, <4>4 DEF Accounted
      <4> QED BY <1>2, <4>1, <4>2, <4>3, <4>4
    <3> QED BY <1>5, <2>4, <3>2, <3>3, <3>4 DEF Accounted
  <2> QED BY <2>2, <2>3, <2>4
<1>6. ASSUME NEW m \in imported PROVE ImportOK(m)'
  <2>1. ImportOK(m)
    BY <1>1 DEF HistoryOK
  <2>2. ASSUME NEW p \in Package \ (touched \union {At(m.toc, i) : i \in Packages(m.toc)})
        PROVE  registry'[p] = m.before[p]
    <3>1. p \notin PackagesOf(Done(down))
      BY <1>4
    <3> QED BY <1>2, <2>1, <3>1 DEF ImportOK
  <2>3. cancelled' \/ \A i \in Packages(m.toc) : Accounted(m, i)'
    BY <1>2, <1>5, <2>1 DEF ImportOK
  <2> QED BY <1>2, <2>1, <2>2, <2>3 DEF ImportOK
<1>7. ASSUME NEW t \in Tasks, Pending(t)' PROVE Expected(t)'
  <2>1. Expected(t)
    BY <1>1, <1>2, <1>7 DEF HistoryOK
  <2> QED BY <1>2, <2>1 DEF Expected
<1>8. HistoryOK'
  BY <1>1, <1>2, <1>6, <1>7 DEF HistoryOK
<1> QED BY <1>2, <1>8 DEF Inv

-----------------------------------------------------------------------------
(* Theorems *)

\* Each step keeps the invariant.
LEMMA NextKeeps ==
  ASSUME Inv, [Next]_vars
  PROVE  Inv'
<1>1. CASE Export
  BY <1>1, ExportKeeps
<1>2. CASE \E p \in Package, v \in Versions, f \in Flags : Install(p, v, f)
  BY <1>2, InstallKeeps
<1>3. CASE \E name \in Names : UninstallRemote(name)
  BY <1>3, UninstallKeeps
<1>4. CASE \E locked \in SUBSET Names : Import(locked)
  BY <1>4, ImportKeeps
<1>5. CASE Compress
  BY <1>5, CompressKeeps
<1>6. CASE Extract
  BY <1>6, ExtractKeeps
<1>7. CASE \E down \in SUBSET Downloads, moved \in BOOLEAN : Commit(down, moved)
  BY <1>7, CommitKeeps
<1>8. CASE Cancel
  BY <1>8, CancelKeeps
<1>9. CASE Finish
  BY <1>9, FinishKeeps
<1>10. CASE \E c \in Computers : Carry(c)
  BY <1>10, CarryKeeps
<1>11. CASE UNCHANGED vars
  <2>1. UNCHANGED <<list, cache, registry, disk, open, queues, active, jobs, failed, cancelled,
                    temp, receipt, zip, imported, touched>>
    BY <1>11 DEF vars, computer, tasks, history
  <2>2. TypeOK'
    BY <2>1 DEF Inv, StateOK, TypeOK
  <2>3. ListOK' /\ ZipOK' /\ TempOK' /\ FilesOK'
    BY <2>1 DEF Inv, StateOK, ListOK, ZipOK, TempOK, FilesOK
  <2>4. TasksOK'
    BY <2>1 DEF Inv, StateOK, TasksOK, Idle, QueueOK, Extracting
  <2>5. HistoryOK'
    BY <2>1, ErrorsAdded DEF Inv
  <2> QED BY <2>2, <2>3, <2>4, <2>5 DEF Inv, StateOK
<1> QED BY <1>1, <1>2, <1>3, <1>4, <1>5, <1>6, <1>7, <1>8, <1>9, <1>10, <1>11 DEF Next

\* The types, the archives and what an import accounts for hold in every state.
THEOREM ArchiveInv == Spec => []Inv
<1>1. Init => Inv
  BY InitGood
<1>2. Inv /\ [Next]_vars => Inv'
  BY NextKeeps
<1> QED BY <1>1, <1>2, PTL DEF Spec

\* An archive whose export reported no failed file (archive_tasks.cpp) has the index of
\* every repository and the files of the very version that its table tells of every
\* package, for any registry and whatever the user asked while it was written.
THEOREM ArchiveHolds == Spec => []ArchiveHoldsWhatItLists
<1>1. Inv => ArchiveHoldsWhatItLists
  BY DEF Inv, StateOK, ZipOK, Holds, At, ArchiveHoldsWhatItLists
<1> QED BY <1>1, ArchiveInv, PTL

\* An import (archive.cpp) followed by its transaction installs every package of the table
\* with its version and flags or reports an error about it or its repository, changes no
\* other package and keeps the address of the protected repository, for any archive,
\* files that cannot be written, downloads that fail and other commands meanwhile.
THEOREM ImportFollows == Spec => []ImportFollowsTheTable
<1>1. Inv => ImportFollowsTheTable
  <2> SUFFICES ASSUME Inv, open, Idle, NEW m \in imported
               PROVE  /\ cancelled \/ \A i \in Packages(m.toc) :
                            \/ registry[At(m.toc, i)]
                                 = [version |-> m.toc[i].version, flags |-> m.toc[i].flags]
                            \/ receipt \cap {Line(i), Line(RepoLine(m.toc, i)), Task(At(m.toc, i))} # {}
                            \/ At(m.toc, i) \in touched
                      /\ \A p \in Package \ (touched \union {At(m.toc, i) : i \in Packages(m.toc)}) :
                           registry[p] = m.before[p]
                      /\ Get(list, Self).url = m.self.url
    BY DEF ImportFollowsTheTable, Packages, At
  <2>1. ImportOK(m)
    BY DEF Inv, HistoryOK
  <2>2. \A t : ~Pending(t)
    BY DEF Idle, Pending, In
  <2> QED BY <2>1, <2>2 DEF ImportOK, Accounted
<1> QED BY <1>1, ArchiveInv, PTL

=============================================================================
