---------------------------- MODULE CatalogProofs ----------------------------
(***************************************************************************)
(* What the windows show of the repositories.  An index that was read is in *)
(* order, finds by name what it lists, goes forward when it is synchronized *)
(* and keeps files below their directories, for any document: any texts of  *)
(* versions, names, paths and numbers of elements.  The lists of the        *)
(* windows show the rows that match, in order, and keep their selection,    *)
(* for any columns, filters and contents; so the window about a repository  *)
(* or a package lists what its menu has selected.                           *)
(***************************************************************************)
EXTENDS Catalog, Windows, FiniteSetTheorems, SequenceTheorems, WellFoundedInduction, TLAPS

-----------------------------------------------------------------------------
(* The inductive invariant *)

\* Names that the program can make of the texts of a document.
Parsed == {parse(text) : text \in {t \in Texts : ~Invalid(t)}}

Ordered(vs) ==
  \A i, j \in DOMAIN vs : i < j => Less(vs[i], vs[j]) /\ ~Less(vs[j], vs[i])

\* A file is where its type says.
FileOK(f) ==
  /\ f.path # <<>> /\ Head(f.path) \in Types \ {"unknown"}
  /\ Head(f.path) \in IndexedTypes => Len(f.path) >= 2 /\ f.path[2] = IndexName
  /\ f.sections \subseteq Sections
  /\ f.sections # {} => Head(f.path) = "script"

\* Files of an unknown type have an empty path, and the package is dropped.
FilesOK(type, files) == type # "unknown" => \A f \in files : FileOK(f)

PackageOK(p) ==
  /\ p = [type |-> p.type, name |-> p.name, versions |-> p.versions, targets |-> p.targets]
  /\ p.type \in Types
  /\ p.versions \in Seq(Parsed) /\ Ordered(p.versions)
  /\ FilesOK(p.type, p.targets)

\* The positions in the map are those of elements with that name.
Tells(map, s) ==
  /\ s \in Seq(ToSet(s))
  /\ \A name \in DOMAIN map : map[name] \in DOMAIN s /\ s[map[name]].name = name

CategoryOK(c) ==
  /\ c = [name |-> c.name, packages |-> c.packages, pkgMap |-> c.pkgMap]
  /\ c.name \in Seq(STRING)
  /\ Tells(c.pkgMap, c.packages)
  /\ \A i \in DOMAIN c.packages :
       /\ PackageOK(c.packages[i]) /\ c.packages[i].type # "unknown"
       /\ c.packages[i].name \in DOMAIN c.pkgMap

IndexOK(ri) ==
  /\ ri = [categories |-> ri.categories, catMap |-> ri.catMap]
  /\ Tells(ri.catMap, ri.categories)
  /\ \A i \in DOMAIN ri.categories :
       CategoryOK(ri.categories[i]) /\ ri.categories[i].name \in DOMAIN ri.catMap

\* A version is made for the package that is open.
VersionOK ==
  /\ version = [name |-> version.name, files |-> version.files]
  /\ open = "version" => version.name \in Parsed /\ FilesOK(package.type, version.files)

Inv == IndexOK(index) /\ CategoryOK(category) /\ PackageOK(package) /\ VersionOK

-----------------------------------------------------------------------------
(* Versions: the first segments that differ decide *)

Segment == [number : BOOLEAN, value : Nat]

Positions == Nat \ {0}

Named(a) == a.segments \in Seq(Segment) /\ a.segments # <<>>

\* Names that agree up to a position, where a is less.
LessAt(a, b, i) ==
  SegmentLess(segment(a, i), segment(b, i)) /\ \A j \in 1..(i - 1) : segment(a, j) = segment(b, j)

\* A parsed name is a name of a version.
LEMMA ParsedNamed ==
  ASSUME NEW v \in Parsed
  PROVE  Named(v) /\ v # Absent /\ v.stable = \A i \in DOMAIN v.segments : v.segments[i].number
<1>1. PICK text \in Texts : ~Invalid(text) /\ v = parse(text)
  BY DEF Parsed
<1>2. text # <<>> /\ text \in Seq(Segment)
  BY <1>1, CatalogAssumption DEF Invalid, Segment
<1>3. v.segments = text /\ v.text = text /\ v.stable = \A i \in DOMAIN text : text[i].number
  BY <1>1 DEF parse
<1>4. v # Absent
  BY <1>2, <1>3 DEF Absent
<1> QED BY <1>2, <1>3, <1>4 DEF Named

\* Segments are in one order.
LEMMA SegmentOrder ==
  /\ \A x \in Segment : ~SegmentLess(x, x)
  /\ \A x, y \in Segment : SegmentLess(x, y) \/ SegmentLess(y, x) \/ x = y
  /\ \A x, y, z \in Segment : SegmentLess(x, y) /\ SegmentLess(y, z) => SegmentLess(x, z)
<1>1. \A x \in Segment : x.number \in BOOLEAN /\ x.value \in Nat
  BY DEF Segment
<1>2. \A x \in Segment : ~SegmentLess(x, x)
  BY <1>1 DEF SegmentLess
<1>3. \A x, y \in Segment : SegmentLess(x, y) \/ SegmentLess(y, x) \/ x = y
  <2> SUFFICES ASSUME NEW x \in Segment, NEW y \in Segment, ~SegmentLess(x, y), ~SegmentLess(y, x)
               PROVE  x = y
    OBVIOUS
  <2>1. x.number = y.number
    BY <1>1, Zenon DEF SegmentLess
  <2>2. x.value = y.value
    BY <1>1, <2>1 DEF SegmentLess
  <2>3. x = [number |-> x.number, value |-> x.value] /\ y = [number |-> y.number, value |-> y.value]
    BY DEF Segment
  <2> QED BY <2>1, <2>2, <2>3
<1>4. \A x, y, z \in Segment : SegmentLess(x, y) /\ SegmentLess(y, z) => SegmentLess(x, z)
  BY <1>1 DEF SegmentLess
<1> QED BY <1>2, <1>3, <1>4

\* Missing segments are zero.
LEMMA SegmentsTyped ==
  ASSUME NEW a, Named(a), NEW i \in Positions
  PROVE  segment(a, i) \in Segment /\ (i \notin DOMAIN a.segments => segment(a, i) = Number(0))
<1>1. Number(0) \in Segment
  BY DEF Number, Segment
<1>2. \A k \in DOMAIN a.segments : a.segments[k] \in Segment
  BY DEF Named
<1> QED BY <1>1, <1>2 DEF segment

\* Positions need not be within the names.
LEMMA LessSomewhere ==
  ASSUME NEW a, NEW b, Named(a), Named(b)
  PROVE  Less(a, b) <=> \E i \in Positions : LessAt(a, b, i)
<1>1. /\ DOMAIN a.segments \subseteq Positions /\ DOMAIN b.segments \subseteq Positions
      /\ a.segments # <<>> /\ b.segments # <<>>
  BY DEF Named, Positions
<1>2. Less(a, b) <=> \E i \in DOMAIN a.segments \union DOMAIN b.segments : LessAt(a, b, i)
  BY <1>1 DEF Less, LessAt
<1>3. ASSUME NEW i \in Positions, LessAt(a, b, i)
      PROVE  i \in DOMAIN a.segments \union DOMAIN b.segments
  <2>1. SUFFICES ASSUME i \notin DOMAIN a.segments, i \notin DOMAIN b.segments PROVE FALSE
    OBVIOUS
  <2>2. segment(a, i) = segment(b, i) /\ segment(a, i) \in Segment
    BY <2>1, SegmentsTyped
  <2> QED BY <1>3, <2>2, SegmentOrder DEF LessAt
<1> QED BY <1>1, <1>2, <1>3

\* No version is less than itself.
LEMMA LessIrreflexive ==
  ASSUME NEW a, Named(a)
  PROVE  ~Less(a, a)
<1>1. \A i \in Positions : ~SegmentLess(segment(a, i), segment(a, i))
  BY SegmentsTyped, SegmentOrder
<1> QED BY <1>1, LessSomewhere DEF LessAt

\* A comparison that looks at names of unequal length is transitive.
LEMMA LessTransitive ==
  ASSUME NEW a, NEW b, NEW c, Named(a), Named(b), Named(c), Less(a, b), Less(b, c)
  PROVE  Less(a, c)
<1>1. PICK i \in Positions : LessAt(a, b, i)
  BY LessSomewhere
<1>2. PICK k \in Positions : LessAt(b, c, k)
  BY LessSomewhere
<1> DEFINE m == IF i < k THEN i ELSE k
<1>3. m \in Positions /\ m <= i /\ m <= k
  BY DEF Positions
<1>4. \A j \in 1..(m - 1) : segment(a, j) = segment(c, j)
  <2>1. \A j \in 1..(m - 1) : j \in 1..(i - 1) /\ j \in 1..(k - 1)
    BY <1>3 DEF Positions
  <2> QED BY <1>1, <1>2, <2>1 DEF LessAt
<1>5. /\ segment(a, i) \in Segment /\ segment(b, i) \in Segment /\ segment(c, i) \in Segment
      /\ segment(a, k) \in Segment /\ segment(b, k) \in Segment /\ segment(c, k) \in Segment
  BY SegmentsTyped
<1>6. SegmentLess(segment(a, m), segment(c, m))
  <2>1. CASE i < k
    <3>1. i \in 1..(k - 1)
      BY <2>1 DEF Positions
    <3>2. segment(b, i) = segment(c, i) /\ SegmentLess(segment(a, i), segment(b, i))
      BY <1>1, <1>2, <3>1 DEF LessAt
    <3> QED BY <2>1, <3>2
  <2>2. CASE k < i
    <3>1. k \in 1..(i - 1)
      BY <2>2 DEF Positions
    <3>2. segment(a, k) = segment(b, k) /\ SegmentLess(segment(b, k), segment(c, k))
      BY <1>1, <1>2, <3>1 DEF LessAt
    <3>3. m = k
      BY <2>2 DEF Positions
    <3> QED BY <3>2, <3>3
  <2>3. CASE i = k
    <3>1. SegmentLess(segment(a, i), segment(b, i)) /\ SegmentLess(segment(b, i), segment(c, i))
      BY <1>1, <1>2, <2>3 DEF LessAt
    <3>2. SegmentLess(segment(a, i), segment(c, i))
      BY <1>5, <3>1, SegmentOrder
    <3>3. m = i
      BY <2>3
    <3> QED BY <3>2, <3>3
  <2> QED BY <2>1, <2>2, <2>3 DEF Positions
<1>7. LessAt(a, c, m)
  BY <1>4, <1>6 DEF LessAt
<1> QED BY <1>3, <1>7, LessSomewhere

-----------------------------------------------------------------------------
(* Counting up *)

\* A set of numbers has a least one: the intervals from 0 to its members, ordered by
\* inclusion, have a minimal one.
LEMMA LeastNat ==
  ASSUME NEW S \in SUBSET Nat, S # {}
  PROVE  \E m \in S : \A k \in S : m <= k
<1>1. PICK n \in S : TRUE
  OBVIOUS
<1> DEFINE T == {0..k : k \in {j \in S : j <= n}}
<1>2. IsFiniteSet(0..n)
  BY FS_Interval
<1>3. T # {} /\ T \subseteq FiniteSubsetsOf(0..n)
  <2>1. 0..n \in T
    BY <1>1
  <2>2. ASSUME NEW k \in S, k <= n PROVE 0..k \in FiniteSubsetsOf(0..n)
    <3>1. k \in Nat /\ n \in Nat
      OBVIOUS
    <3>2. IsFiniteSet(0..k)
      BY <3>1, FS_Interval
    <3>3. 0..k \subseteq 0..n
      BY <3>1, <2>2
    <3> QED BY <3>2, <3>3 DEF FiniteSubsetsOf
  <2> QED BY <2>1, <2>2
<1>4. PICK x \in T : \A y \in T : ~(<<y, x>> \in StrictSubsetOrdering(0..n))
  <2> HIDE DEF T
  <2>1. IsWellFoundedOn(StrictSubsetOrdering(0..n), FiniteSubsetsOf(0..n))
    BY <1>2, FS_StrictSubsetOrderingWellFounded
  <2> QED BY <2>1, <1>3, WFMin
<1>5. PICK m \in S : m <= n /\ x = 0..m
  BY <1>4
<1>6. ASSUME NEW k \in S, k < m PROVE FALSE
  <2>1. k \in Nat /\ m \in Nat /\ n \in Nat
    OBVIOUS
  <2>2. 0..k \in T
    BY <1>5, <1>6, <2>1
  <2>3. 0..k \subseteq 0..n /\ 0..m \subseteq 0..n /\ 0..k \subseteq 0..m
    BY <1>5, <1>6, <2>1
  <2>4. 0..k # 0..m
    <3>1. m \in 0..m /\ m \notin 0..k
      BY <2>1, <1>6
    <3> QED BY <3>1
  <2>5. <<0..k, 0..m>> \in StrictSubsetOrdering(0..n)
    BY <2>3, <2>4 DEF StrictSubsetOrdering
  <2> QED BY <1>4, <1>5, <2>2, <2>5
<1>7. \A k \in S : m <= k
  BY <1>5, <1>6
<1> QED BY <1>5, <1>7

\* What holds of 0, and of a number when it holds of the one before, holds up to n.
LEMMA CountUp ==
  ASSUME NEW n \in Nat, NEW S, 0 \in S, \A k \in 1..n : k - 1 \in S => k \in S
  PROVE  \A k \in 0..n : k \in S
<1> DEFINE Left == {k \in 0..n : k \notin S}
<1>1. SUFFICES ASSUME Left # {} PROVE FALSE
  OBVIOUS
<1>2. PICK m \in Left : \A k \in Left : m <= k
  <2>1. Left \in SUBSET Nat
    OBVIOUS
  <2> HIDE DEF Left
  <2> QED BY <1>1, <2>1, LeastNat
<1>3. m \in 1..n /\ m - 1 \in 0..n /\ m \notin S
  OBVIOUS
<1>4. m - 1 \in S
  BY <1>2, <1>3
<1> QED BY <1>3, <1>4

\* Names that compare as equal have the same segments but for zeros at the end, so both
\* are pre-releases or neither is.
LEMMA SameStable ==
  ASSUME NEW a \in Parsed, NEW b \in Parsed, Same(a, b)
  PROVE  a.stable = b.stable
<1>1. /\ Named(a) /\ Named(b)
      /\ a.stable = \A i \in DOMAIN a.segments : a.segments[i].number
      /\ b.stable = \A i \in DOMAIN b.segments : b.segments[i].number
  BY ParsedNamed
<1>2. \A i \in Positions : segment(a, i) = segment(b, i)
  <2> DEFINE Apart == {i \in Positions : segment(a, i) # segment(b, i)}
  <2>1. SUFFICES ASSUME Apart # {} PROVE FALSE
    OBVIOUS
  <2>2. PICK m \in Apart : \A k \in Apart : m <= k
    <3>1. Apart \in SUBSET Nat
      BY DEF Positions
    <3> HIDE DEF Apart
    <3> QED BY <2>1, <3>1, LeastNat
  <2>3. \A j \in 1..(m - 1) : segment(a, j) = segment(b, j)
    <3> SUFFICES ASSUME NEW j \in 1..(m - 1), segment(a, j) # segment(b, j) PROVE FALSE
      OBVIOUS
    <3>1. j \in Apart /\ ~(m <= j)
      BY DEF Positions
    <3> QED BY <2>2, <3>1
  <2>4. segment(a, m) \in Segment /\ segment(b, m) \in Segment
    BY <1>1, SegmentsTyped
  <2>5. LessAt(a, b, m) \/ LessAt(b, a, m)
    BY <2>3, <2>4, SegmentOrder DEF LessAt
  <2>6. Less(a, b) \/ Less(b, a)
    BY <1>1, <2>5, LessSomewhere
  <2> QED BY <2>6 DEF Same
<1>3. ASSUME NEW c, NEW d, Named(c), Named(d), \A i \in Positions : segment(c, i) = segment(d, i),
             \A i \in DOMAIN d.segments : d.segments[i].number
      PROVE  \A i \in DOMAIN c.segments : c.segments[i].number
  <2> SUFFICES ASSUME NEW i \in DOMAIN c.segments PROVE c.segments[i].number
    OBVIOUS
  <2>1. i \in Positions /\ c.segments[i] = segment(d, i)
    BY <1>3 DEF Named, Positions, segment
  <2>2. CASE i \in DOMAIN d.segments
    BY <1>3, <2>1, <2>2 DEF segment
  <2>3. CASE i \notin DOMAIN d.segments
    BY <2>1, <2>3 DEF segment, Number
  <2> QED BY <2>2, <2>3
<1> QED BY <1>1, <1>2, <1>3

-----------------------------------------------------------------------------
(* The set of versions *)

\* There is a place for every version.
LEMMA PlaceFound ==
  ASSUME NEW vs, Len(vs) \in Nat, NEW v
  PROVE  /\ Place(vs, v) \in 1..(Len(vs) + 1)
         /\ \A j \in 1..(Place(vs, v) - 1) : Less(vs[j], v)
         /\ Place(vs, v) <= Len(vs) => ~Less(vs[Place(vs, v)], v)
<1> DEFINE Stops == {i \in 1..(Len(vs) + 1) : i <= Len(vs) => ~Less(vs[i], v)}
<1>1. Stops \in SUBSET Nat /\ Stops # {}
  <2>1. Len(vs) + 1 \in Stops
    OBVIOUS
  <2> QED BY <2>1
<1>2. PICK m \in Stops : \A k \in Stops : m <= k
  <2> HIDE DEF Stops
  <2> QED BY <1>1, LeastNat
<1>3. \A j \in 1..(m - 1) : Less(vs[j], v)
  <2> SUFFICES ASSUME NEW j \in 1..(m - 1), ~Less(vs[j], v) PROVE FALSE
    OBVIOUS
  <2>1. j \in Stops /\ ~(m <= j)
    OBVIOUS
  <2> QED BY <1>2, <2>1
<1>4. \E i \in 1..(Len(vs) + 1) : /\ \A j \in 1..(i - 1) : Less(vs[j], v)
                                  /\ i <= Len(vs) => ~Less(vs[i], v)
  BY <1>3
<1> QED BY <1>4 DEF Place

\* A version that is not there yet goes between the lesser and the greater ones.
LEMMA InsertKeepsOrder ==
  ASSUME NEW vs \in Seq(Parsed), Ordered(vs), NEW v \in Parsed, ~HasVersion(vs, v)
  PROVE  insert(vs, v) \in Seq(Parsed) /\ Ordered(insert(vs, v)) /\ insert(vs, v) # <<>>
<1> DEFINE p == Place(vs, v)
           n == Len(vs)
           before == SubSeq(vs, 1, p - 1)
           after == SubSeq(vs, p, n)
           new == insert(vs, v)
<1>1. n \in Nat /\ DOMAIN vs = 1..n /\ \A i \in 1..n : vs[i] \in Parsed
  OBVIOUS
<1>2. /\ p \in 1..(n + 1)
      /\ \A j \in 1..(p - 1) : Less(vs[j], v)
      /\ p <= n => ~Less(vs[p], v)
  BY <1>1, PlaceFound
<1> HIDE DEF p, n
<1>3. /\ before \in Seq(Parsed) /\ Len(before) = p - 1
      /\ \A i \in 1..(p - 1) : before[i] = vs[i]
  <2>1. 1 \in Int /\ p - 1 \in Int /\ \A i \in 1..(p - 1) : vs[i] \in Parsed
    BY <1>1, <1>2
  <2>2. /\ before \in Seq(Parsed) /\ Len(before) = IF 1 <= p - 1 THEN p - 1 - 1 + 1 ELSE 0
        /\ \A i \in 1..(p - 1 - 1 + 1) : before[i] = vs[1 + i - 1]
    BY <2>1, SubSeqProperties
  <2>3. \A i \in 1..(p - 1) : 1 + i - 1 = i
    BY <1>2
  <2> QED BY <1>2, <2>2, <2>3
<1>4. /\ after \in Seq(Parsed) /\ Len(after) = n - p + 1
      /\ \A i \in 1..(n - p + 1) : after[i] = vs[p + i - 1]
  <2>1. p \in Int /\ n \in Int /\ \A i \in p..n : vs[i] \in Parsed
    BY <1>1, <1>2
  <2> QED BY <1>1, <1>2, <2>1, SubSeqProperties
<1>5. new = (before \o <<v>>) \o after
  BY DEF insert, p, n
<1> HIDE DEF before, after, new
<1>6. /\ new \in Seq(Parsed) /\ Len(new) = n + 1
      /\ \A i \in 1..(n + 1) : new[i] = IF i < p THEN vs[i] ELSE IF i = p THEN v ELSE vs[i - 1]
  <2>1. /\ before \o <<v>> \in Seq(Parsed) /\ Len(before \o <<v>>) = p
        /\ \A i \in 1..p : (before \o <<v>>)[i] = IF i < p THEN vs[i] ELSE v
    <3>1. <<v>> \in Seq(Parsed) /\ Len(<<v>>) = 1 /\ <<v>>[1] = v
      OBVIOUS
    <3>2. /\ before \o <<v>> \in Seq(Parsed) /\ Len(before \o <<v>>) = Len(before) + 1
          /\ \A i \in 1..(Len(before) + 1) :
               (before \o <<v>>)[i] = IF i <= Len(before) THEN before[i] ELSE <<v>>[i - Len(before)]
      BY <1>3, <3>1, ConcatProperties
    <3> QED BY <1>2, <1>3, <3>1, <3>2
  <2> DEFINE s == before \o <<v>>
  <2>9. /\ s \in Seq(Parsed) /\ Len(s) = p
        /\ \A i \in 1..p : s[i] = IF i < p THEN vs[i] ELSE v
    BY <2>1
  <2> HIDE DEF s
  <2>2. /\ s \o after \in Seq(Parsed) /\ Len(s \o after) = Len(s) + Len(after)
        /\ \A i \in 1..(Len(s) + Len(after)) :
             (s \o after)[i] = IF i <= Len(s) THEN s[i] ELSE after[i - Len(s)]
    BY <1>4, <2>9, ConcatProperties
  <2>3. \A i \in 1..(n + 1) :
          (s \o after)[i] = IF i < p THEN vs[i] ELSE IF i = p THEN v ELSE vs[i - 1]
    <3> SUFFICES ASSUME NEW i \in 1..(n + 1)
                 PROVE  (s \o after)[i] = IF i < p THEN vs[i] ELSE IF i = p THEN v ELSE vs[i - 1]
      OBVIOUS
    <3>1. CASE i <= p
      BY <1>1, <1>2, <1>4, <2>9, <2>2, <3>1
    <3>2. CASE i > p
      <4>1. i - p \in 1..(n - p + 1) /\ p + (i - p) - 1 = i - 1
        BY <1>1, <1>2, <3>2
      <4>2. (s \o after)[i] = after[i - p]
        BY <1>1, <1>2, <1>4, <2>9, <2>2, <3>2
      <4>3. after[i - p] = vs[p + (i - p) - 1]
        BY <1>4, <4>1
      <4>4. after[i - p] = vs[i - 1]
        BY <4>1, <4>3, Zenon
      <4>5. ~(i < p) /\ i # p
        BY <1>1, <1>2, <3>2
      <4> QED BY <4>2, <4>4, <4>5
    <3>3. i <= p \/ i > p
      BY <1>1, <1>2
    <3> QED BY <3>1, <3>2, <3>3
  <2>4. Len(s \o after) = n + 1
    BY <1>1, <1>2, <1>4, <2>9, <2>2
  <2>5. new = s \o after
    BY <1>5 DEF s
  <2> QED BY <2>2, <2>3, <2>4, <2>5
<1>7. \A j \in 1..n : ~Same(vs[j], v)
  BY <1>1 DEF HasVersion
<1>8. \A j \in 1..n : /\ j < p => Less(vs[j], v) /\ ~Less(v, vs[j])
                      /\ j >= p => Less(v, vs[j]) /\ ~Less(vs[j], v)
  <2> SUFFICES ASSUME NEW j \in 1..n
               PROVE  /\ j < p => Less(vs[j], v) /\ ~Less(v, vs[j])
                      /\ j >= p => Less(v, vs[j]) /\ ~Less(vs[j], v)
    OBVIOUS
  <2>1. Named(v) /\ \A i \in 1..n : Named(vs[i])
    BY <1>1, ParsedNamed
  <2>2. ~(Less(vs[j], v) /\ Less(v, vs[j]))
    BY <2>1, LessTransitive, LessIrreflexive
  <2>3. CASE j < p
    <3>1. j \in 1..(p - 1)
      BY <1>2, <2>3
    <3> QED BY <1>2, <2>2, <2>3, <3>1
  <2>4. CASE j >= p
    <3>1. p \in 1..n /\ ~Less(vs[p], v)
      BY <1>1, <1>2, <2>4
    <3>2. Less(v, vs[p])
      BY <1>7, <3>1 DEF Same
    <3>3. CASE j = p
      BY <1>2, <3>1, <3>2, <3>3
    <3>4. CASE j > p
      <4>1. Less(vs[p], vs[j])
        BY <1>1, <3>1, <3>4 DEF Ordered
      <4>2. Less(v, vs[j])
        BY <2>1, <3>1, <3>2, <4>1, LessTransitive
      <4> QED BY <1>2, <2>2, <3>4, <4>2
    <3> QED BY <1>2, <2>4, <3>3, <3>4
  <2> QED BY <1>2, <2>3, <2>4
<1>9. Ordered(new)
  <2> SUFFICES ASSUME NEW i \in 1..(n + 1), NEW j \in 1..(n + 1), i < j
               PROVE  Less(new[i], new[j]) /\ ~Less(new[j], new[i])
    BY <1>6 DEF Ordered
  <2>1. CASE i = p
    <3>1. new[i] = v /\ new[j] = vs[j - 1] /\ j - 1 \in 1..n /\ j - 1 >= p
      BY <1>1, <1>2, <1>6, <2>1
    <3> QED BY <1>8, <3>1
  <2>2. CASE j = p
    <3>1. new[j] = v /\ new[i] = vs[i] /\ i \in 1..n /\ i < p
      BY <1>1, <1>2, <1>6, <2>2
    <3> QED BY <1>8, <3>1
  <2>3. CASE i # p /\ j # p
    <3> DEFINE h == IF i < p THEN i ELSE i - 1
               k == IF j < p THEN j ELSE j - 1
    <3>1. new[i] = vs[h] /\ new[j] = vs[k] /\ h \in 1..n /\ k \in 1..n /\ h < k
      BY <1>1, <1>2, <1>6, <2>3
    <3> HIDE DEF h, k
    <3> QED BY <1>1, <3>1 DEF Ordered
  <2> QED BY <2>1, <2>2, <2>3
<1>10. new # <<>>
  BY <1>1, <1>6
<1> QED BY <1>6, <1>9, <1>10 DEF new

-----------------------------------------------------------------------------
(* Recursive functions that go through a sequence *)

\* A function that starts from a value and makes each of its values of the one before.
Walk(g, n, base, step) == g[0] = base /\ \A k \in 1..n : g[k] = step[k][g[k - 1]]

\* There is one, when the steps stay in a set.
LEMMA Steps ==
  ASSUME NEW n \in Nat, NEW S, NEW base \in S, NEW step,
         \A k \in 1..n : \A x \in S : step[k][x] \in S
  PROVE  \E g \in [0..n -> S] : Walk(g, n, base, step)
<1> DEFINE Made(g, m) == Walk(g, m, base, step)
           M == {m \in 0..n : \E g \in [0..m -> S] : Made(g, m)}
<1>1. 0 \in M
  <2> DEFINE g == [k \in 0..0 |-> base]
  <2>1. g \in [0..0 -> S] /\ Made(g, 0)
    BY DEF Walk
  <2> HIDE DEF g, Made
  <2> QED BY <2>1
<1>2. ASSUME NEW m \in 1..n, m - 1 \in M PROVE m \in M
  <2>1. PICK g \in [0..(m - 1) -> S] : Made(g, m - 1)
    BY <1>2
  <2> DEFINE h == [k \in 0..m |-> IF k = m THEN step[m][g[m - 1]] ELSE g[k]]
  <2>2. step[m][g[m - 1]] \in S
    <3>1. m - 1 \in 0..(m - 1)
      OBVIOUS
    <3> QED BY <3>1
  <2>3. h \in [0..m -> S]
    BY <2>2
  <2>4. h[0] = base
    BY <2>1 DEF Walk
  <2>5. \A k \in 1..m : h[k] = step[k][h[k - 1]]
    <3> SUFFICES ASSUME NEW k \in 1..m PROVE h[k] = step[k][h[k - 1]]
      OBVIOUS
    <3>1. k \in 0..m /\ k - 1 \in 0..m /\ k - 1 # m /\ h[k - 1] = g[k - 1]
      OBVIOUS
    <3>2. CASE k = m
      BY <3>1, <3>2
    <3>3. CASE k # m
      <4>1. k \in 1..(m - 1) /\ h[k] = g[k]
        BY <3>1, <3>3
      <4> QED BY <2>1, <3>1, <4>1 DEF Walk
    <3> QED BY <3>2, <3>3
  <2>6. Made(h, m)
    BY <2>4, <2>5 DEF Walk
  <2> HIDE DEF h, Made
  <2> QED BY <2>3, <2>6
<1>3. \A m \in 0..n : m \in M
  <2> HIDE DEF M
  <2> QED BY <1>1, <1>2, CountUp
<1> QED BY <1>3

-----------------------------------------------------------------------------
(* Paths *)

\* What append computes, one part after the other.
LEMMA AppendedSoFar ==
  ASSUME NEW U, NEW path \in Seq(U), NEW parts \in Seq(U), NEW traversal \in BOOLEAN
  PROVE  \E upTo :
           /\ upTo = [k \in 0..Len(parts) |->
                IF k = 0 THEN path
                ELSE IF parts[k] # ".." THEN Append(upTo[k - 1], parts[k])
                ELSE IF traversal /\ upTo[k - 1] # <<>> THEN Front(upTo[k - 1]) ELSE upTo[k - 1]]
           /\ append(path, parts, traversal) = upTo[Len(parts)]
<1> DEFINE n == Len(parts)
           One(k, x) == IF parts[k] # ".." THEN Append(x, parts[k])
                        ELSE IF traversal /\ x # <<>> THEN Front(x) ELSE x
           step == [k \in 1..n |-> [x \in Seq(U) |-> One(k, x)]]
<1>1. n \in Nat /\ \A k \in 1..n : parts[k] \in U
  OBVIOUS
<1>2. \A k \in 1..n, x \in Seq(U) : One(k, x) \in Seq(U)
  <2> SUFFICES ASSUME NEW k \in 1..n, NEW x \in Seq(U) PROVE One(k, x) \in Seq(U)
    OBVIOUS
  <2>1. Append(x, parts[k]) \in Seq(U)
    BY <1>1
  <2>2. ASSUME x # <<>> PROVE Front(x) \in Seq(U)
    <3>1. 1 \in Int /\ Len(x) - 1 \in Int /\ \A i \in 1..(Len(x) - 1) : x[i] \in U
      OBVIOUS
    <3> QED BY <3>1, SubSeqProperties DEF Front
  <2> QED BY <2>1, <2>2
<1>3. \A k \in 1..n : \A x \in Seq(U) : step[k][x] = One(k, x) /\ step[k][x] \in Seq(U)
  BY <1>2
<1>4. PICK g \in [0..n -> Seq(U)] : Walk(g, n, path, step)
  <2> DEFINE S == Seq(U)
  <2>1. n \in Nat /\ path \in S /\ \A k \in 1..n : \A x \in S : step[k][x] \in S
    BY <1>1, <1>3
  <2>2. \E g \in [0..n -> S] : Walk(g, n, path, step)
    <3> HIDE DEF step, n, S
    <3> QED BY <2>1, Steps
  <2> QED BY <2>2
<1>5. \A k \in 1..n : g[k] = One(k, g[k - 1])
  <2> SUFFICES ASSUME NEW k \in 1..n PROVE g[k] = One(k, g[k - 1])
    OBVIOUS
  <2>1. k - 1 \in 0..n
    BY <1>1
  <2>2. g[k - 1] \in Seq(U)
    <3> HIDE DEF n
    <3> QED BY <2>1
  <2>3. g[k] = step[k][g[k - 1]]
    <3> HIDE DEF n, step
    <3> QED BY <1>4 DEF Walk
  <2> QED BY <1>3, <2>2, <2>3
<1>6. g = [k \in 0..n |-> IF k = 0 THEN path ELSE One(k, g[k - 1])]
  <2>1. \A k \in 0..n : g[k] = IF k = 0 THEN path ELSE One(k, g[k - 1])
    <3>1. \A k \in 0..n : k = 0 \/ k \in 1..n
      BY <1>1
    <3>2. g[0] = path
      BY <1>4 DEF Walk
    <3> HIDE DEF One, n
    <3> QED BY <1>5, <3>1, <3>2
  <2> HIDE DEF One, n
  <2> QED BY <2>1
<1> QED BY <1>6 DEF append

\* The first part is what it was when one is appended.
LEMMA AppendedHead ==
  ASSUME NEW U, NEW x \in Seq(U), NEW part \in U
  PROVE  /\ Append(x, part) \in Seq(U) /\ Append(x, part) # <<>>
         /\ x # <<>> => Head(Append(x, part)) = Head(x)
<1>1. PICK y : y = Append(x, part)
  OBVIOUS
<1>2. y \in Seq(U) /\ Len(y) = Len(x) + 1 /\ \A i \in 1..Len(x) : y[i] = x[i]
  BY <1>1
<1>3. Len(x) \in Nat /\ y # <<>>
  BY <1>2
<1>4. ASSUME x # <<>> PROVE Head(y) = Head(x)
  <2>1. 1 \in 1..Len(x)
    BY <1>3, <1>4
  <2> QED BY <1>2, <1>3, <1>4, <2>1
<1> QED BY <1>1, <1>2, <1>3, <1>4

\* Parts are appended to what is there, which without traversal stays.
LEMMA AppendKeeps ==
  ASSUME NEW U, NEW path \in Seq(U), NEW parts \in Seq(U), NEW traversal \in BOOLEAN
  PROVE  /\ append(path, parts, traversal) \in Seq(U)
         /\ ~traversal /\ path # <<>> =>
              append(path, parts, traversal) # <<>> /\ Head(append(path, parts, traversal)) = Head(path)
<1>1. PICK upTo :
        /\ upTo = [k \in 0..Len(parts) |->
             IF k = 0 THEN path
             ELSE IF parts[k] # ".." THEN Append(upTo[k - 1], parts[k])
             ELSE IF traversal /\ upTo[k - 1] # <<>> THEN Front(upTo[k - 1]) ELSE upTo[k - 1]]
        /\ append(path, parts, traversal) = upTo[Len(parts)]
  BY AppendedSoFar
<1> DEFINE n == Len(parts)
           P(x) == x \in Seq(U) /\ (~traversal /\ path # <<>> => x # <<>> /\ Head(x) = Head(path))
           M == {k \in 0..n : P(upTo[k])}
<1>2. n \in Nat /\ \A k \in 1..n : parts[k] \in U
  OBVIOUS
<1>3. upTo[0] = path /\ \A k \in 1..n :
        upTo[k] = IF parts[k] # ".." THEN Append(upTo[k - 1], parts[k])
                  ELSE IF traversal /\ upTo[k - 1] # <<>> THEN Front(upTo[k - 1]) ELSE upTo[k - 1]
  <2>1. \A k \in 0..n :
          upTo[k] = IF k = 0 THEN path
                    ELSE IF parts[k] # ".." THEN Append(upTo[k - 1], parts[k])
                    ELSE IF traversal /\ upTo[k - 1] # <<>> THEN Front(upTo[k - 1]) ELSE upTo[k - 1]
    BY <1>1
  <2>2. 0 \in 0..n /\ \A k \in 1..n : k \in 0..n /\ k # 0
    BY <1>2
  <2> HIDE DEF n
  <2> QED BY <2>1, <2>2
<1>4. 0 \in M
  BY <1>2, <1>3
<1>5. ASSUME NEW k \in 1..n, k - 1 \in M PROVE k \in M
  <2> DEFINE x == upTo[k - 1]
  <2>1. P(x)
    BY <1>5
  <2> HIDE DEF x
  <2>2. CASE parts[k] # ".."
    <3>1. upTo[k] = Append(x, parts[k])
      BY <1>3, <2>2 DEF x
    <3>2. P(Append(x, parts[k]))
      BY <1>2, <2>1, AppendedHead
    <3>3. P(upTo[k])
      BY <3>1, <3>2
    <3> QED BY <1>2, <3>3
  <2>3. CASE parts[k] = ".." /\ traversal /\ x # <<>>
    <3>1. upTo[k] = Front(x)
      BY <1>3, <2>3 DEF x
    <3>2. Front(x) \in Seq(U)
      <4>1. 1 \in Int /\ Len(x) - 1 \in Int /\ \A i \in 1..(Len(x) - 1) : x[i] \in U
        BY <2>1
      <4> QED BY <4>1, SubSeqProperties DEF Front
    <3>3. P(upTo[k])
      BY <2>3, <3>1, <3>2
    <3> QED BY <1>2, <3>3
  <2>4. CASE parts[k] = ".." /\ ~(traversal /\ x # <<>>)
    <3>1. upTo[k] = x
      BY <1>3, <2>4 DEF x
    <3> QED BY <1>2, <2>1, <3>1
  <2> QED BY <2>2, <2>3, <2>4
<1>6. n \in M
  <2> HIDE DEF M
  <2>1. \A k \in 0..n : k \in M
    BY <1>2, <1>4, <1>5, CountUp
  <2> QED BY <1>2, <2>1
<1> QED BY <1>1, <1>6

\* A file of a known type goes below the directory of its type, whatever its name and
\* that of its category are.
LEMMA TargetBelongs ==
  ASSUME NEW type \in Types \ {"unknown"}, NEW U, NEW file \in Seq(U), category.name \in Seq(STRING)
  PROVE  /\ targetPath(type, file) # <<>> /\ Head(targetPath(type, file)) = type
         /\ type \in IndexedTypes =>
              Len(targetPath(type, file)) >= 2 /\ targetPath(type, file)[2] = IndexName
<1>1. CASE type \in IndexedTypes
  <2> DEFINE V == U \union STRING \union {type, IndexName}
             below == append(append(<<>>, category.name, TRUE), file, TRUE)
  <2>1. /\ <<>> \in Seq(V) /\ category.name \in Seq(V) /\ file \in Seq(V)
        /\ <<type, IndexName>> \in Seq(V)
    OBVIOUS
  <2>2. below \in Seq(V)
    <3> HIDE DEF V
    <3>1. append(<<>>, category.name, TRUE) \in Seq(V)
      BY <2>1, AppendKeeps
    <3> QED BY <2>1, <3>1, AppendKeeps
  <2>3. targetPath(type, file) = <<type, IndexName>> \o below
    BY <1>1 DEF targetPath
  <2> HIDE DEF V, below
  <2>4. /\ Len(<<type, IndexName>>) = 2 /\ <<type, IndexName>>[1] = type
        /\ <<type, IndexName>>[2] = IndexName /\ Len(below) \in Nat
    BY <2>2
  <2> DEFINE two == <<type, IndexName>>
  <2> HIDE DEF two
  <2>5. /\ two \o below \in Seq(V) /\ Len(two \o below) = Len(two) + Len(below)
        /\ \A i \in 1..(Len(two) + Len(below)) :
             (two \o below)[i] = IF i <= Len(two) THEN two[i] ELSE below[i - Len(two)]
    BY <2>1, <2>2, ConcatProperties DEF two
  <2> DEFINE whole == two \o below
  <2>6. /\ whole \in Seq(V) /\ Len(whole) >= 2 /\ whole[1] = type /\ whole[2] = IndexName
    <3>1. Len(two) = 2 /\ two[1] = type /\ two[2] = IndexName
      BY <2>4 DEF two
    <3> QED BY <2>4, <2>5, <3>1
  <2> HIDE DEF whole
  <2>7. whole # <<>> /\ Head(whole) = type
    BY <2>6
  <2>8. whole = targetPath(type, file)
    BY <2>3 DEF whole, two
  <2> QED BY <2>6, <2>7, <2>8
<1>2. CASE type \notin IndexedTypes
  <2> DEFINE V == U \union {type}
  <2>1. <<type>> \in Seq(V) /\ file \in Seq(V) /\ <<type>> # <<>> /\ Head(<<type>>) = type
    OBVIOUS
  <2>2. append(<<type>>, file, FALSE) # <<>> /\ Head(append(<<type>>, file, FALSE)) = type
    <3> HIDE DEF V
    <3> QED BY <2>1, AppendKeeps
  <2>3. targetPath(type, file) = append(<<type>>, file, FALSE)
    BY <1>2 DEF targetPath
  <2> QED BY <1>2, <2>2, <2>3
<1> QED BY <1>1, <1>2

\* The implicit section is replaced before it is kept.
LEMMA SectionsBelong ==
  ASSUME NEW type, NEW words
  PROVE  /\ setSections(type, UNION {getSection(word) : word \in words}) \subseteq Sections
         /\ setSections(type, UNION {getSection(word) : word \in words}) # {} => type = "script"
<1> DEFINE named == UNION {getSection(word) : word \in words}
<1>1. \A word : getSection(word) = ImplicitSection \/ getSection(word) \subseteq Sections
  BY DEF getSection
<1>2. named = ImplicitSection \/ named \subseteq Sections
  <2>1. \A word : getSection(word) \subseteq ImplicitSection
    BY <1>1 DEF ImplicitSection
  <2>2. CASE \E word \in words : getSection(word) = ImplicitSection
    BY <2>1, <2>2
  <2>3. CASE \A word \in words : getSection(word) # ImplicitSection
    BY <1>1, <2>3
  <2> QED BY <2>2, <2>3
<1>3. \A cat : detectSection(cat) \subseteq Sections
  BY DEF detectSection, Sections
<1> HIDE DEF named
<1>4. setSections(type, named) \subseteq Sections
  BY <1>2, <1>3 DEF setSections
<1>5. setSections(type, named) # {} => type = "script"
  BY DEF setSections
<1> QED BY <1>4, <1>5 DEF named

-----------------------------------------------------------------------------
(* Positions by name *)

\* An element is linked to its parent: whatever names are there already, the map goes on
\* to tell positions of elements that have the name.
LEMMA Linked ==
  ASSUME NEW s, NEW map, NEW x, Tells(map, s)
  PROVE  LET t == Append(s, x)
             m == MapInsert(map, x.name, Len(s) + 1)
         IN /\ Tells(m, t)
            /\ \A i \in DOMAIN t : t[i] = x \/ \E j \in DOMAIN s : t[i] = s[j]
            /\ x.name \in DOMAIN m /\ \A name \in DOMAIN map : name \in DOMAIN m
<1> DEFINE t == Append(s, x)
           m == MapInsert(map, x.name, Len(s) + 1)
<1>1. /\ Len(s) \in Nat /\ DOMAIN s = 1..Len(s) /\ DOMAIN t = 1..(Len(s) + 1)
      /\ t = [i \in 1..(Len(s) + 1) |-> t[i]]
      /\ t[Len(s) + 1] = x /\ \A i \in 1..Len(s) : t[i] = s[i]
  <2> DEFINE T == ToSet(s) \union {x}
  <2>1. s \in Seq(T) /\ x \in T
    BY DEF Tells
  <2> HIDE DEF T
  <2>2. /\ t \in Seq(T) /\ Len(t) = Len(s) + 1 /\ t[Len(s) + 1] = x
        /\ Len(s) \in Nat /\ \A i \in 1..Len(s) : t[i] = s[i]
    BY <2>1
  <2> HIDE DEF t
  <2> QED BY <2>1, <2>2
<1> HIDE DEF t
<1>2. t \in Seq(ToSet(t))
  <2>1. \A i \in 1..(Len(s) + 1) : t[i] \in ToSet(t)
    BY <1>1 DEF ToSet
  <2>2. [i \in 1..(Len(s) + 1) |-> t[i]] \in Seq(ToSet(t))
    BY <1>1, <2>1
  <2> QED BY <1>1, <2>2
<1>3. DOMAIN m = DOMAIN map \union {x.name}
  BY DEF MapInsert
<1>4. ASSUME NEW name \in DOMAIN m PROVE m[name] \in DOMAIN t /\ t[m[name]].name = name
  <2>1. CASE name \in DOMAIN map
    <3>1. m[name] = map[name]
      BY <2>1 DEF MapInsert
    <3>2. map[name] \in 1..Len(s) /\ s[map[name]].name = name
      BY <1>1, <2>1 DEF Tells
    <3>3. map[name] \in 1..(Len(s) + 1)
      BY <1>1, <3>2
    <3>4. t[map[name]] = s[map[name]]
      BY <1>1, <3>2
    <3> HIDE DEF m
    <3> QED BY <1>1, <3>1, <3>2, <3>3, <3>4, Zenon
  <2>2. CASE name \notin DOMAIN map
    <3>1. name = x.name
      BY <1>3, <2>2
    <3>2. m[name] = Len(s) + 1
      BY <2>2, <3>1 DEF MapInsert
    <3>3. Len(s) + 1 \in DOMAIN t
      BY <1>1
    <3> QED BY <1>1, <3>1, <3>2, <3>3, Zenon
  <2> QED BY <2>1, <2>2
<1>5. \A i \in DOMAIN t : t[i] = x \/ \E j \in DOMAIN s : t[i] = s[j]
  <2>1. \A i \in 1..(Len(s) + 1) : i \in 1..Len(s) \/ i = Len(s) + 1
    BY <1>1
  <2> QED BY <1>1, <2>1, Zenon
<1>6. Tells(m, t)
  BY <1>2, <1>4 DEF Tells
<1> QED BY <1>3, <1>5, <1>6 DEF t

-----------------------------------------------------------------------------
(* The invariant is kept *)

\* What has no elements yet is in order.
LEMMA EmptyOK ==
  /\ IndexOK(EmptyIndex)
  /\ \A name \in Seq(STRING) : CategoryOK(NewCategory(name))
  /\ \A type \in Types : \A name : PackageOK(NewPackage(type, name))
<1>1. IndexOK(EmptyIndex)
  BY DEF IndexOK, EmptyIndex, NoFunction, Tells
<1>2. \A name \in Seq(STRING) : CategoryOK(NewCategory(name))
  BY DEF CategoryOK, NewCategory, NoFunction, Tells
<1>3. \A type \in Types : \A name : PackageOK(NewPackage(type, name))
  BY DEF PackageOK, NewPackage, Ordered, FilesOK
<1> QED BY <1>1, <1>2, <1>3

\* Nothing is open in what a reading starts from.
LEMMA NothingOpen ==
  CategoryOK(NewCategory(<<>>)) /\ PackageOK(NewPackage("unknown", ""))
<1>1. <<>> \in Seq(STRING) /\ "unknown" \in Types
  BY CatalogAssumption
<1> QED BY <1>1, EmptyOK

\* The invariant holds of an index that was not read yet.
LEMMA InitInv == Init => Inv
<1> SUFFICES ASSUME Init PROVE Inv
  OBVIOUS
<1>1. IndexOK(index) /\ CategoryOK(category) /\ PackageOK(package)
  BY EmptyOK, NothingOpen DEF Init
<1>2. VersionOK
  BY DEF Init, VersionOK, NewVersion
<1> QED BY <1>1, <1>2 DEF Inv

\* Reading starts again with nothing.
LEMMA ReloadInv == Inv /\ Reload => Inv'
<1> SUFFICES ASSUME Reload PROVE Inv'
  OBVIOUS
<1>1. /\ index' = EmptyIndex /\ category' = NewCategory(<<>>) /\ package' = NewPackage("unknown", "")
      /\ open' = "index" /\ version' = NewVersion(NoVersion)
  BY DEF Reload, Start
<1>2. IndexOK(index') /\ CategoryOK(category') /\ PackageOK(package')
  BY <1>1, EmptyOK, NothingOpen
<1>3. VersionOK'
  BY <1>1 DEF VersionOK, NewVersion
<1> QED BY <1>2, <1>3 DEF Inv

\* An exception leaves nothing of the index that was being read.
LEMMA ThrowInv == Inv /\ Throw => Inv'
<1> SUFFICES ASSUME Inv, Throw PROVE Inv'
  OBVIOUS
<1>1. index' = EmptyIndex /\ open' = open /\ category' = category /\ package' = package /\ version' = version
  BY DEF Throw, Building
<1>2. VersionOK'
  BY <1>1 DEF Inv, VersionOK
<1> QED BY <1>1, <1>2, EmptyOK DEF Inv

\* A category is opened empty.
LEMMA OpenCategoryInv ==
  ASSUME Inv, NEW name \in CategoryNames, OpenCategory(name)
  PROVE  Inv'
<1>1. CASE Throw
  BY <1>1, ThrowInv
<1>2. CASE /\ open' = "category" /\ category' = NewCategory(name)
           /\ UNCHANGED <<index, package, version>>
  <2>1. CategoryOK(category')
    BY <1>2, EmptyOK, CatalogAssumption
  <2>2. VersionOK'
    BY <1>2 DEF Inv, VersionOK
  <2> QED BY <1>2, <2>1, <2>2 DEF Inv
<1> QED BY <1>1, <1>2 DEF OpenCategory

\* A package is opened empty.
LEMMA OpenPackageInv ==
  ASSUME Inv, NEW type \in Types, NEW name \in PackageNames, OpenPackage(type, name)
  PROVE  Inv'
<1>1. CASE Throw
  BY <1>1, ThrowInv
<1>2. CASE /\ open' = "package" /\ package' = NewPackage(type, name)
           /\ UNCHANGED <<index, category, version>>
  <2>1. PackageOK(package')
    BY <1>2, EmptyOK
  <2>2. VersionOK'
    BY <1>2 DEF Inv, VersionOK
  <2> QED BY <1>2, <2>1, <2>2 DEF Inv
<1> QED BY <1>1, <1>2 DEF OpenPackage

\* A version is opened under the name that its text parses to.
LEMMA OpenVersionInv ==
  ASSUME Inv, NEW text \in Texts, OpenVersion(text)
  PROVE  Inv'
<1>1. CASE Throw
  BY <1>1, ThrowInv
<1>2. CASE /\ ~Invalid(text) /\ version' = NewVersion(parse(text))
           /\ UNCHANGED <<index, category, package>>
  <2>1. parse(text) \in Parsed
    BY <1>2 DEF Parsed
  <2>2. VersionOK'
    BY <1>2, <2>1 DEF VersionOK, NewVersion, FilesOK
  <2> QED BY <1>2, <2>2 DEF Inv
<1> QED BY <1>1, <1>2 DEF OpenVersion

\* A source of a known type, its own or that of its package, has a place.
LEMMA SourceBelongs ==
  ASSUME Inv, NEW src \in Sources, package.type # "unknown"
  PROVE  LET type == typeOf(src)
             named == UNION {getSection(word) : word \in src.main}
         IN FileOK([path |-> targetPath(type, fileOf(src)), sections |-> setSections(type, named)])
<1> DEFINE type == typeOf(src)
           file == fileOf(src)
           named == UNION {getSection(word) : word \in src.main}
           f == [path |-> targetPath(type, file), sections |-> setSections(type, named)]
<1>1. src.type \in Types /\ src.file \in Seq(STRING) /\ package.type \in Types
  BY CatalogAssumption DEF Inv, PackageOK
<1>2. type \in Types \ {"unknown"}
  BY <1>1 DEF typeOf
<1> DEFINE U == STRING \union {package.name}
<1>3. file \in Seq(U)
  <2>1. src.file \in Seq(U) /\ <<package.name>> \in Seq(U)
    BY <1>1
  <2> QED BY <2>1 DEF fileOf
<1>4. category.name \in Seq(STRING)
  BY DEF Inv, CategoryOK
<1>5. /\ f.path # <<>> /\ Head(f.path) = type
      /\ type \in IndexedTypes => Len(f.path) >= 2 /\ f.path[2] = IndexName
  <2>1. f.path = targetPath(type, file)
    OBVIOUS
  <2> HIDE DEF type, file, U, f
  <2> QED BY <1>2, <1>3, <1>4, <2>1, TargetBelongs
<1>6. f.sections \subseteq Sections /\ (f.sections # {} => type = "script")
  BY SectionsBelong
<1>7. FileOK(f)
  <2> HIDE DEF type, f
  <2> QED BY <1>2, <1>5, <1>6 DEF FileOK
<1> QED BY <1>7

\* A source gets a path below the directory of its type.
LEMMA AddSourceInv ==
  ASSUME Inv, NEW src \in Sources, NEW here \in BOOLEAN, NEW url \in BOOLEAN, AddSource(src, here, url)
  PROVE  Inv'
<1> DEFINE type == typeOf(src)
           named == UNION {getSection(word) : word \in src.main}
           f == [path |-> targetPath(type, fileOf(src)), sections |-> setSections(type, named)]
<1>1. CASE Throw
  BY <1>1, ThrowInv
<1>2. CASE version' = addSource(version, f, here) /\ UNCHANGED <<index, open, category, package>>
  <2>1. package.type # "unknown" => FileOK(f)
    BY SourceBelongs
  <2> HIDE DEF f
  <2>2. version' = version \/ version' = [version EXCEPT !.files = @ \union {f}]
    BY <1>2 DEF addSource
  <2>3. VersionOK
    BY DEF Inv
  <2>4. VersionOK'
    BY <1>2, <2>1, <2>2, <2>3 DEF VersionOK, FilesOK
  <2> QED BY <1>2, <2>4 DEF Inv
<1> QED BY <1>1, <1>2 DEF AddSource

\* A version is inserted in order, once.
LEMMA CloseVersionInv == Inv /\ CloseVersion => Inv'
<1> SUFFICES ASSUME Inv, CloseVersion PROVE Inv'
  OBVIOUS
<1>1. CASE Throw
  BY <1>1, ThrowInv
<1>2. CASE /\ version.files = {} \/ ~HasVersion(package.versions, version.name)
           /\ open' = "package"
           /\ package' = IF version.files = {} THEN package
                         ELSE [package EXCEPT !.versions = insert(@, version.name),
                                              !.targets = @ \union version.files]
           /\ version' = NewVersion(NoVersion)
           /\ UNCHANGED <<index, category>>
  <2>1. VersionOK'
    BY <1>2 DEF VersionOK, NewVersion
  <2>2. PackageOK(package')
    <3>1. CASE version.files = {}
      BY <1>2, <3>1 DEF Inv
    <3>2. CASE version.files # {}
      <4>1. PackageOK(package) /\ version.name \in Parsed /\ FilesOK(package.type, version.files)
        BY DEF Inv, VersionOK, CloseVersion, At
      <4> DEFINE new == insert(package.versions, version.name)
      <4>2. new \in Seq(Parsed) /\ Ordered(new)
        BY <1>2, <3>2, <4>1, InsertKeepsOrder DEF PackageOK
      <4> HIDE DEF new
      <4>3. package' = [package EXCEPT !.versions = new, !.targets = @ \union version.files]
        BY <1>2, <3>2 DEF new
      <4>4. /\ package' = [type |-> package.type, name |-> package.name, versions |-> new,
                           targets |-> package.targets \union version.files]
        BY <4>1, <4>3 DEF PackageOK
      <4> QED BY <4>1, <4>2, <4>4 DEF PackageOK, FilesOK
    <3> QED BY <3>1, <3>2
  <2> QED BY <1>2, <2>1, <2>2 DEF Inv
<1> QED BY <1>1, <1>2 DEF CloseVersion

\* A package is added with its name, unless it is dropped.
LEMMA ClosePackageInv == Inv /\ ClosePackage => Inv'
<1> SUFFICES ASSUME Inv, ClosePackage PROVE Inv'
  OBVIOUS
<1>1. /\ open' = "category" /\ package' = NewPackage("unknown", "")
      /\ UNCHANGED <<index, version>>
  BY DEF ClosePackage
<1>2. PackageOK(package')
  BY <1>1, NothingOpen
<1>3. VersionOK'
  BY <1>1 DEF Inv, VersionOK
<1>4. CategoryOK(category')
  <2>1. CASE category' = category
    BY <2>1 DEF Inv
  <2> DEFINE s == category.packages
             t == Append(s, package)
             m == MapInsert(category.pkgMap, package.name, Len(s) + 1)
  <2>2. CASE package.type # "unknown" /\ category' = [category EXCEPT !.packages = t, !.pkgMap = m]
    <3>1. CategoryOK(category) /\ PackageOK(package)
      BY DEF Inv
    <3>2. category' = [name |-> category.name, packages |-> t, pkgMap |-> m]
      <4> HIDE DEF t, m
      <4> QED BY <2>2, <3>1 DEF CategoryOK
    <3>3. Tells(category.pkgMap, s)
      BY <3>1 DEF CategoryOK
    <3>4. /\ Tells(m, t)
          /\ \A i \in DOMAIN t : t[i] = package \/ \E j \in DOMAIN s : t[i] = s[j]
          /\ package.name \in DOMAIN m /\ \A name \in DOMAIN category.pkgMap : name \in DOMAIN m
      <4> HIDE DEF s
      <4> QED BY <3>3, Linked
    <3> HIDE DEF s, t, m
    <3>5. \A i \in DOMAIN t :
            PackageOK(t[i]) /\ t[i].type # "unknown" /\ t[i].name \in DOMAIN m
      BY <2>2, <3>1, <3>4 DEF CategoryOK, s
    <3> QED BY <3>1, <3>2, <3>4, <3>5 DEF CategoryOK
  <2> QED BY <2>1, <2>2 DEF ClosePackage
<1> QED BY <1>1, <1>2, <1>3, <1>4 DEF Inv

\* A category is added with its name, unless it is dropped.
LEMMA CloseCategoryInv == Inv /\ CloseCategory => Inv'
<1> SUFFICES ASSUME Inv, CloseCategory PROVE Inv'
  OBVIOUS
<1>1. /\ open' = "index" /\ index' = addCategory(index, category) /\ category' = NewCategory(<<>>)
      /\ UNCHANGED <<package, version>>
  BY DEF CloseCategory
<1>2. CategoryOK(category')
  BY <1>1, NothingOpen
<1>3. VersionOK'
  BY <1>1 DEF Inv, VersionOK
<1>4. IndexOK(index')
  <2>1. CASE index' = index
    BY <2>1 DEF Inv
  <2> DEFINE s == index.categories
             t == Append(s, category)
             m == MapInsert(index.catMap, category.name, Len(s) + 1)
  <2>2. CASE index' = [categories |-> t, catMap |-> m]
    <3>1. IndexOK(index) /\ CategoryOK(category)
      BY DEF Inv
    <3>2. Tells(index.catMap, s)
      BY <3>1 DEF IndexOK
    <3>3. /\ Tells(m, t)
          /\ \A i \in DOMAIN t : t[i] = category \/ \E j \in DOMAIN s : t[i] = s[j]
          /\ category.name \in DOMAIN m /\ \A name \in DOMAIN index.catMap : name \in DOMAIN m
      <4> HIDE DEF s
      <4> QED BY <3>2, Linked
    <3> HIDE DEF s, t, m
    <3>4. \A i \in DOMAIN t : CategoryOK(t[i]) /\ t[i].name \in DOMAIN m
      BY <3>1, <3>3 DEF IndexOK, s
    <3> QED BY <2>2, <3>3, <3>4 DEF IndexOK
  <2> QED BY <1>1, <2>1, <2>2 DEF addCategory
<1> QED BY <1>1, <1>2, <1>3, <1>4 DEF Inv

\* The trees that a document makes are in order after every element: versions are kept
\* apart and in order, maps tell where elements are, files are below their directories.
THEOREM CatalogInv == Spec => []Inv
<1>1. Inv /\ [Next]_vars => Inv'
  <2> SUFFICES ASSUME Inv, [Next]_vars PROVE Inv'
    OBVIOUS
  <2>1. ASSUME NEW name \in CategoryNames, OpenCategory(name) PROVE Inv'
    BY <2>1, OpenCategoryInv
  <2>2. ASSUME NEW type \in Types, NEW name \in PackageNames, OpenPackage(type, name) PROVE Inv'
    BY <2>2, OpenPackageInv
  <2>3. ASSUME NEW text \in Texts, OpenVersion(text) PROVE Inv'
    BY <2>3, OpenVersionInv
  <2>4. ASSUME NEW src \in Sources, NEW here \in BOOLEAN, NEW url \in BOOLEAN, AddSource(src, here, url)
        PROVE  Inv'
    BY <2>4, AddSourceInv
  <2>5. CASE CloseVersion
    BY <2>5, CloseVersionInv
  <2>6. CASE ClosePackage
    BY <2>6, ClosePackageInv
  <2>7. CASE CloseCategory
    BY <2>7, CloseCategoryInv
  <2>8. CASE EndOfFile
    <3>1. VersionOK'
      BY <2>8 DEF EndOfFile, Building, Inv, VersionOK
    <3> QED BY <2>8, <3>1 DEF EndOfFile, Building, Inv
  <2>9. CASE Reload
    BY <2>9, ReloadInv
  <2>10. CASE UNCHANGED vars
    <3>1. VersionOK'
      BY <2>10 DEF vars, Inv, VersionOK
    <3> QED BY <2>10, <3>1 DEF vars, Inv
  <2> QED BY <2>1, <2>2, <2>3, <2>4, <2>5, <2>6, <2>7, <2>8, <2>9, <2>10 DEF Next
<1> QED BY <1>1, InitInv, PTL DEF Spec

-----------------------------------------------------------------------------
(* What the windows and the tasks find *)

\* What is listed is a package of a category of the index.
LEMMA Listed ==
  ASSUME Inv, NEW e \in packages
  PROVE  \E c \in DOMAIN index.categories : \E i \in DOMAIN index.categories[c].packages :
           /\ e = [category |-> index.categories[c].name, package |-> index.categories[c].packages[i]]
           /\ CategoryOK(index.categories[c]) /\ PackageOK(e.package) /\ e.package.type # "unknown"
<1>1. PICK c \in DOMAIN index.categories :
        \E i \in DOMAIN index.categories[c].packages :
          e = [category |-> index.categories[c].name, package |-> index.categories[c].packages[i]]
  BY DEF packages
<1>2. CategoryOK(index.categories[c])
  BY DEF Inv, IndexOK
<1>3. \A i \in DOMAIN index.categories[c].packages :
        PackageOK(index.categories[c].packages[i]) /\ index.categories[c].packages[i].type # "unknown"
  BY <1>2 DEF CategoryOK
<1> QED BY <1>1, <1>2, <1>3

\* However a document lists them, the versions of a package are kept apart and in the
\* order of their names, the one std::set relies on.
THEOREM VersionsOrdered == Spec => []VersionsAreOrdered
<1>1. Inv => VersionsAreOrdered
  <2> SUFFICES ASSUME Inv PROVE VersionsAreOrdered
    OBVIOUS
  <2>1. \A e \in packages : Ordered(e.package.versions)
    BY Listed DEF PackageOK
  <2>2. Ordered(package.versions)
    BY DEF Inv, PackageOK
  <2>3. \A vs \in {e.package.versions : e \in packages} \union {package.versions} : Ordered(vs)
    BY <2>1, <2>2
  <2> QED BY <2>3 DEF VersionsAreOrdered, Ordered
<1> QED BY <1>1, CatalogInv, PTL

\* Index::find() answers by name what the index lists, and nothing else.
THEOREM Finds == Spec => []FindFinds
<1>1. Inv => FindFinds
  <2> SUFFICES ASSUME Inv PROVE FindFinds
    OBVIOUS
  <2>1. Tells(index.catMap, index.categories)
    BY DEF Inv, IndexOK
  <2>2. \A cat \in DOMAIN index.catMap : index.catMap[cat] \in DOMAIN index.categories
    BY <2>1 DEF Tells
  <2>3. ASSUME NEW e \in packages,
               \A c, d \in DOMAIN index.categories :
                 ~(c # d /\ index.categories[c].name = e.category /\ index.categories[d].name = e.category)
        PROVE  find(e.category, e.package.name) # {}
    <3>1. PICK c \in DOMAIN index.categories :
            /\ CategoryOK(index.categories[c]) /\ e.category = index.categories[c].name
            /\ \E i \in DOMAIN index.categories[c].packages :
                 e.package = index.categories[c].packages[i]
      BY Listed
    <3>2. e.category \in DOMAIN index.catMap
      BY <3>1 DEF Inv, IndexOK
    <3>3. index.catMap[e.category] = c
      BY <2>1, <2>3, <3>1, <3>2 DEF Tells
    <3>4. e.package.name \in DOMAIN index.categories[c].pkgMap
      BY <3>1 DEF CategoryOK
    <3> QED BY <3>2, <3>3, <3>4 DEF find
  <2>4. ASSUME NEW cat \in CategoryNames, NEW name \in PackageNames, NEW p \in find(cat, name)
        PROVE  p.name = name /\ [category |-> cat, package |-> p] \in packages
    <3> DEFINE c == index.catMap[cat]
               i == index.categories[c].pkgMap[name]
    <3>1. cat \in DOMAIN index.catMap /\ name \in DOMAIN index.categories[c].pkgMap
          /\ p = index.categories[c].packages[i]
      BY DEF find
    <3>2. c \in DOMAIN index.categories /\ index.categories[c].name = cat
      BY <2>1, <3>1 DEF Tells
    <3>3. Tells(index.categories[c].pkgMap, index.categories[c].packages)
      BY <3>2 DEF Inv, IndexOK, CategoryOK
    <3>4. i \in DOMAIN index.categories[c].packages /\ p.name = name
      BY <3>1, <3>3 DEF Tells
    <3> HIDE DEF c, i
    <3> QED BY <3>1, <3>2, <3>4 DEF packages
  <2> QED BY <2>2, <2>3, <2>4 DEF FindFinds
<1> QED BY <1>1, CatalogInv, PTL

\* Whatever a document calls its categories and files, ".." among them, a file is
\* installed below the directory of its type, and only scripts are actions.
THEOREM FilesBelong == Spec => []FilesGoWhereTheyBelong
<1>1. Inv => FilesGoWhereTheyBelong
  <2> SUFFICES ASSUME Inv PROVE FilesGoWhereTheyBelong
    OBVIOUS
  <2>1. \A e \in packages : \A f \in e.package.targets : FileOK(f)
    BY Listed DEF PackageOK, FilesOK
  <2> QED BY <2>1 DEF FilesGoWhereTheyBelong, FileOK
<1> QED BY <1>1, CatalogInv, PTL

-----------------------------------------------------------------------------
(* Synchronizing: what is newest among the versions of a package *)

\* Of two versions at most one is less than the other.
LEMMA LessAsymmetric ==
  ASSUME NEW a \in Parsed, NEW b \in Parsed, Less(a, b)
  PROVE  ~Less(b, a)
BY ParsedNamed, LessTransitive, LessIrreflexive

\* Later versions are newer than whatever an earlier one is newer than.
LEMMA LaterNewer ==
  ASSUME NEW vs \in Seq(Parsed), Ordered(vs), NEW from \in Parsed,
         NEW i \in 1..Len(vs), NEW j \in 1..Len(vs), i <= j
  PROVE  /\ Less(from, vs[i]) => Less(from, vs[j])
         /\ ~Less(vs[i], from) => ~Less(vs[j], from)
<1>1. vs[i] \in Parsed /\ vs[j] \in Parsed /\ Named(vs[i]) /\ Named(vs[j]) /\ Named(from)
  <2>1. vs[i] \in Parsed /\ vs[j] \in Parsed
    OBVIOUS
  <2> QED BY <2>1, ParsedNamed
<1>2. CASE i = j
  BY <1>2
<1>3. CASE i < j
  <2>1. Less(vs[i], vs[j])
    BY <1>3 DEF Ordered
  <2> QED BY <1>1, <2>1, LessTransitive
<1> QED BY <1>2, <1>3

\* The last of some versions is the one that none of them is newer than.
LEMMA LastIsNewest ==
  ASSUME NEW vs \in Seq(Parsed), Ordered(vs), NEW K \in SUBSET (1..Len(vs)), NEW k \in K,
         \A j \in K : j <= k
  PROVE  {v \in {vs[i] : i \in K} : \A w \in {vs[i] : i \in K} : ~Less(v, w)} = {vs[k]}
<1> DEFINE W == {vs[i] : i \in K}
<1>1. ASSUME NEW j \in K PROVE ~Less(vs[k], vs[j])
  <2>1. vs[j] \in Parsed /\ Named(vs[j])
    <3>1. j \in 1..Len(vs) /\ vs[j] \in Parsed
      OBVIOUS
    <3> QED BY <3>1, ParsedNamed
  <2>2. CASE j = k
    BY <2>1, <2>2, LessIrreflexive
  <2>3. CASE j < k
    BY <2>3 DEF Ordered
  <2> QED BY <2>2, <2>3
<1>2. vs[k] \in W /\ \A w \in W : ~Less(vs[k], w)
  BY <1>1
<1>3. ASSUME NEW j \in K, \A w \in W : ~Less(vs[j], w) PROVE vs[j] = vs[k]
  <2>1. j = k \/ j < k
    OBVIOUS
  <2>2. j < k => Less(vs[j], vs[k])
    BY DEF Ordered
  <2> QED BY <1>2, <1>3, <2>1, <2>2
<1> QED BY <1>2, <1>3

\* The last of ordered versions is the greatest.
LEMMA GreatestOf ==
  ASSUME NEW n \in Nat, NEW K \in SUBSET (1..n), K # {}
  PROVE  \E k \in K : \A j \in K : j <= k
<1> DEFINE S == {n - k : k \in K}
<1>1. S \in SUBSET Nat /\ S # {}
  <2>1. \A k \in K : k \in 1..n
    OBVIOUS
  <2>2. \A k \in 1..n : n - k \in Nat
    OBVIOUS
  <2> QED BY <2>1, <2>2
<1>2. PICK m \in S : \A j \in S : m <= j
  <2> HIDE DEF S
  <2> QED BY <1>1, LeastNat
<1>3. PICK k \in K : m = n - k
  OBVIOUS
<1>4. \A j \in K : j <= k
  <2> SUFFICES ASSUME NEW j \in K PROVE j <= k
    OBVIOUS
  <2>1. n - j \in S /\ j \in 1..n /\ k \in 1..n
    OBVIOUS
  <2>2. m <= n - j
    BY <1>2, <2>1
  <2> QED BY <1>3, <2>1, <2>2
<1> QED BY <1>4

\* What lastVersion() looks for among versions in order: a version that is allowed and
\* not older than the installed one.
LEMMA CandidatesAre ==
  ASSUME NEW vs \in Seq(Parsed), Ordered(vs), NEW from \in Parsed, NEW pres \in BOOLEAN
  PROVE  {i \in 1..Len(vs) : /\ vs[i].stable \/ pres
                             /\ \A j \in i..Len(vs) : ~Less(vs[j], from)}
           = {i \in 1..Len(vs) : (vs[i].stable \/ pres) /\ ~Less(vs[i], from)}
<1>1. ASSUME NEW i \in 1..Len(vs), \A j \in i..Len(vs) : ~Less(vs[j], from) PROVE ~Less(vs[i], from)
  <2>1. i \in i..Len(vs)
    OBVIOUS
  <2> QED BY <1>1, <2>1
<1>2. ASSUME NEW i \in 1..Len(vs), ~Less(vs[i], from), NEW j \in i..Len(vs) PROVE ~Less(vs[j], from)
  <2>1. j \in 1..Len(vs) /\ i <= j
    OBVIOUS
  <2> QED BY <1>2, <2>1, LaterNewer
<1> QED BY <1>1, <1>2

NewerThan(vs, from) == {v \in ToSet(vs) : Less(from, v)}

WantedOver(vs, from, pres) ==
  LET Allowed == {v \in NewerThan(vs, from) : v.stable \/ pres}
  IN IF Allowed # {} \/ from.stable THEN Allowed ELSE NewerThan(vs, from)

Newest(W) == {v \in W : \A w \in W : ~Less(v, w)}

\* Synchronizing takes the newest of the newer versions that are allowed, and when none is,
\* of all newer versions if a pre-release is installed.
LEMMA SynchronizeNewest ==
  ASSUME NEW pkg, pkg.versions \in Seq(Parsed), Ordered(pkg.versions),
         NEW from \in Parsed, NEW pres \in BOOLEAN
  PROVE  synchronize(pkg, from, pres, FALSE) = Newest(WantedOver(pkg.versions, from, pres))
<1> DEFINE vs == pkg.versions
           n == Len(vs)
           latest == lastVersion(vs, pres, from)
           New == {i \in 1..n : Less(from, vs[i])}
           Allow == {i \in New : vs[i].stable \/ pres}
           C == {i \in 1..n : (vs[i].stable \/ pres) /\ ~Less(vs[i], from)}
           Newer == {vs[i] : i \in New}
           Allowed == {vs[i] : i \in Allow}
           Wanted == IF Allowed # {} \/ from.stable THEN Allowed ELSE Newer
<1>1. n \in Nat /\ DOMAIN vs = 1..n /\ \A i \in 1..n : vs[i] \in Parsed /\ vs[i] # Absent
  <2>1. n \in Nat /\ DOMAIN vs = 1..n /\ \A i \in 1..n : vs[i] \in Parsed
    OBVIOUS
  <2> HIDE DEF vs, n
  <2> QED BY <2>1, ParsedNamed
<1>2. WantedOver(pkg.versions, from, pres) = Wanted
  <2>1. NewerThan(vs, from) = Newer
    BY <1>1 DEF ToSet, NewerThan
  <2>2. {v \in Newer : v.stable \/ pres} = Allowed
    OBVIOUS
  <2> HIDE DEF Newer, Allowed
  <2> QED BY <2>1, <2>2 DEF WantedOver
<1>3. latest = IF n = 0 THEN Absent
               ELSE IF C # {} THEN vs[CHOOSE i \in C : \A j \in C : j <= i]
               ELSE IF from.stable THEN Absent ELSE vs[n]
  <2> DEFINE K == {i \in 1..n : /\ vs[i].stable \/ pres
                                /\ \A j \in i..n : ~Less(vs[j], from)}
         LastOf(X) == IF n = 0 THEN Absent
                    ELSE IF X # {} THEN vs[CHOOSE i \in X : \A j \in X : j <= i]
                    ELSE IF from.stable THEN Absent ELSE vs[n]
  <2>1. latest = LastOf(K)
    BY DEF lastVersion
  <2>2. vs \in Seq(Parsed) /\ Ordered(vs)
    OBVIOUS
  <2>3. K = C
    <3> HIDE DEF vs
    <3> QED BY <2>2, CandidatesAre
  <2>4. LastOf(K) = LastOf(C)
    <3> HIDE DEF LastOf, K, C
    <3> QED BY <2>3
  <2> HIDE DEF K, C, vs, n, latest
  <2> QED BY <2>1, <2>4
<1>4. synchronize(pkg, from, pres, FALSE) =
        IF latest = Absent \/ Same(latest, from) \/ Less(latest, from) THEN {} ELSE {latest}
  BY DEF synchronize
<1> HIDE DEF vs, n, latest
<1>5. Allow \subseteq C
  BY <1>1, LessAsymmetric
<1>6. Ordered(vs) /\ vs \in Seq(Parsed)
  BY DEF vs
<1>7. \A i, j \in 1..n : i <= j /\ Less(from, vs[i]) => Less(from, vs[j])
  BY <1>1, <1>6, LaterNewer DEF n
<1>8. ASSUME NEW K \in SUBSET (1..n), NEW k \in K, \A j \in K : j <= k
      PROVE  Newest({vs[i] : i \in K}) = {vs[k]}
  BY <1>6, <1>8, LastIsNewest DEF n, Newest
<1> HIDE DEF New, Allow, C
<1>9. CASE C # {}
  <2> DEFINE k == CHOOSE i \in C : \A j \in C : j <= i
  <2>1. k \in C /\ \A j \in C : j <= k
    <3>1. C \in SUBSET (1..n)
      BY DEF C
    <3>2. \E i \in C : \A j \in C : j <= i
      BY <1>1, <1>9, <3>1, GreatestOf
    <3> QED BY <3>2
  <2> HIDE DEF k
  <2>2. k \in 1..n /\ n # 0 /\ ~Less(vs[k], from) /\ (vs[k].stable \/ pres)
    BY <1>1, <2>1 DEF C
  <2>3. latest = vs[k] /\ latest # Absent /\ latest \in Parsed
    BY <1>1, <1>3, <1>9, <2>2 DEF k
  <2>4. CASE Same(latest, from)
    <3>1. ASSUME NEW i \in Allow PROVE FALSE
      <4>1. i \in C /\ i \in 1..n /\ Less(from, vs[i])
        BY <1>5 DEF Allow, New
      <4>2. i <= k
        BY <2>1, <4>1
      <4>3. Less(from, vs[k])
        BY <1>7, <2>2, <4>1, <4>2
      <4> QED BY <2>3, <2>4, <4>3 DEF Same
    <3>2. Allowed = {}
      BY <3>1
    <3>3. from.stable \/ Newer = {}
      <4> SUFFICES ASSUME ~from.stable PROVE Newer = {}
        OBVIOUS
      <4>1. vs[k].stable = from.stable
        BY <2>3, <2>4, SameStable
      <4>2. pres
        BY <2>2, <4>1
      <4>3. New = Allow
        BY <4>2 DEF Allow
      <4> QED BY <3>1, <4>3
    <3>4. Newest(Wanted) = {}
      BY <3>2, <3>3 DEF Newest
    <3> QED BY <1>2, <1>4, <2>4, <3>4
  <2>5. CASE ~Same(latest, from)
    <3>1. Less(from, vs[k])
      BY <2>2, <2>3, <2>5 DEF Same
    <3>2. k \in Allow /\ Allow \in SUBSET (1..n) /\ \A j \in Allow : j <= k
      BY <1>5, <2>1, <2>2, <3>1 DEF Allow, New
    <3>3. Newest(Allowed) = {latest}
      BY <1>8, <2>3, <3>2
    <3>4. Wanted = Allowed
      BY <3>2
    <3>5. synchronize(pkg, from, pres, FALSE) = {latest}
      BY <1>4, <2>2, <2>3, <2>5
    <3> QED BY <1>2, <3>3, <3>4, <3>5
  <2> QED BY <2>4, <2>5
<1>10. CASE C = {} /\ (n = 0 \/ from.stable)
  <2>1. latest = Absent
    BY <1>3, <1>10
  <2>2. Allowed = {} /\ (from.stable \/ Newer = {})
    BY <1>1, <1>5, <1>10 DEF New
  <2>3. Newest(Wanted) = {}
    BY <2>2 DEF Newest
  <2> QED BY <1>2, <1>4, <2>1, <2>3
<1>11. CASE C = {} /\ n # 0 /\ ~from.stable
  <2>1. latest = vs[n] /\ latest # Absent /\ n \in 1..n
    BY <1>1, <1>3, <1>11
  <2>2. Wanted = Newer
    BY <1>5, <1>11
  <2>3. New \in SUBSET (1..n) /\ \A i \in New : i <= n /\ Less(from, vs[n])
    BY <1>1, <1>7, <2>1 DEF New
  <2>4. CASE Less(from, vs[n])
    <3>1. n \in New
      BY <2>1, <2>4 DEF New
    <3>2. Newest(Newer) = {latest}
      BY <1>8, <2>1, <2>3, <3>1
    <3>3. ~Less(latest, from) /\ ~Same(latest, from)
      BY <1>1, <2>1, <2>4, LessAsymmetric DEF Same
    <3>4. synchronize(pkg, from, pres, FALSE) = {latest}
      BY <1>4, <2>1, <3>3
    <3> QED BY <1>2, <2>2, <3>2, <3>4
  <2>5. CASE ~Less(from, vs[n])
    <3>1. New = {}
      BY <2>3, <2>5
    <3>2. Newest(Newer) = {}
      BY <3>1 DEF Newest
    <3>3. synchronize(pkg, from, pres, FALSE) = {}
      BY <1>4, <2>1, <2>5 DEF Same
    <3> QED BY <1>2, <2>2, <3>2, <3>3
  <2> QED BY <2>4, <2>5
<1> QED BY <1>9, <1>10, <1>11

-----------------------------------------------------------------------------
(* The receipt: what is told of an update *)

\* What Changelog computes of an update, one version after the other.
LEMMA ToldSoFar ==
  ASSUME NEW pkg, pkg.versions \in Seq(Parsed), NEW v, NEW previous, Less(previous, v)
  PROVE  LET newest == Reverse(pkg.versions)
             stop == {i \in DOMAIN newest : ~Less(previous, newest[i])}
             Told == {i \in DOMAIN newest : (\A j \in stop : i < j) /\ ~Less(v, newest[i])}
         IN \E told :
              /\ told = [i \in 0..Len(newest) |->
                   IF i = 0 THEN <<>>
                   ELSE IF i \in Told THEN Append(told[i - 1], newest[i]) ELSE told[i - 1]]
              /\ Changelog(pkg, v, previous) = told[Len(newest)]
<1> DEFINE newest == Reverse(pkg.versions)
           n == Len(newest)
           stop == {i \in DOMAIN newest : ~Less(previous, newest[i])}
           Told == {i \in DOMAIN newest : (\A j \in stop : i < j) /\ ~Less(v, newest[i])}
           One(i, x) == IF i \in Told THEN Append(x, newest[i]) ELSE x
           S == Seq(Parsed)
           step == [i \in 1..n |-> [x \in S |-> One(i, x)]]
<1>1. n \in Nat /\ \A i \in 1..n : newest[i] \in Parsed
  BY DEF Reverse
<1>2. \A i \in 1..n, x \in S : One(i, x) \in S
  <2> HIDE DEF n, newest, Told
  <2> QED BY <1>1
<1>3. \A i \in 1..n : \A x \in S : step[i][x] = One(i, x) /\ step[i][x] \in S
  <2> HIDE DEF n, One, S
  <2> QED BY <1>2
<1>4. PICK g \in [0..n -> S] : Walk(g, n, <<>>, step)
  <2>1. <<>> \in S
    OBVIOUS
  <2> HIDE DEF step, n, S
  <2> QED BY <1>1, <1>3, <2>1, Steps
<1>5. \A i \in 1..n : g[i] = One(i, g[i - 1])
  <2> SUFFICES ASSUME NEW i \in 1..n PROVE g[i] = One(i, g[i - 1])
    OBVIOUS
  <2> HIDE DEF n, S, step, One
  <2>1. i - 1 \in 0..n
    BY <1>1
  <2>2. g[i - 1] \in S
    BY <2>1
  <2>3. g[i] = step[i][g[i - 1]]
    BY <1>4 DEF Walk
  <2> QED BY <1>3, <2>2, <2>3
<1>6. g = [i \in 0..n |-> IF i = 0 THEN <<>> ELSE One(i, g[i - 1])]
  <2>1. \A i \in 0..n : i = 0 \/ i \in 1..n
    BY <1>1
  <2>2. g[0] = <<>>
    BY <1>4 DEF Walk
  <2> HIDE DEF One, n
  <2>3. \A i \in 0..n : g[i] = IF i = 0 THEN <<>> ELSE One(i, g[i - 1])
    BY <1>5, <2>1, <2>2
  <2> QED BY <2>3
<1>7. deduceType(v, previous) = "update"
  BY DEF deduceType
<1> QED BY <1>6, <1>7 DEF Changelog

\* What is told of an update: the versions that are newer than the previous one and not
\* newer than the one installed, which is told first.
LEMMA ToldSince ==
  ASSUME NEW pkg, pkg.versions \in Seq(Parsed), Ordered(pkg.versions), NEW from \in Parsed,
         NEW v \in ToSet(pkg.versions), Less(from, v)
  PROVE  LET told == Changelog(pkg, v, from)
         IN /\ told # <<>> /\ Head(told) = v
            /\ ToSet(told) = {w \in ToSet(pkg.versions) : Less(from, w) /\ ~Less(v, w)}
<1> DEFINE vs == pkg.versions
           newest == Reverse(vs)
           n == Len(newest)
           stop == {i \in DOMAIN newest : ~Less(from, newest[i])}
           Told == {i \in DOMAIN newest : (\A j \in stop : i < j) /\ ~Less(v, newest[i])}
<1>1. PICK told :
        /\ told = [i \in 0..n |->
             IF i = 0 THEN <<>>
             ELSE IF i \in Told THEN Append(told[i - 1], newest[i]) ELSE told[i - 1]]
        /\ Changelog(pkg, v, from) = told[n]
  BY ToldSoFar
<1>2. /\ n \in Nat /\ DOMAIN newest = 1..n /\ n = Len(vs)
      /\ \A i \in 1..n : newest[i] \in Parsed /\ newest[i] = vs[n - i + 1] /\ n - i + 1 \in 1..n
  BY DEF Reverse
<1>3. ToSet(vs) = {newest[i] : i \in 1..n}
  <2>1. \A i \in 1..n : n - (n - i + 1) + 1 = i
    BY <1>2
  <2>2. DOMAIN vs = 1..n
    BY <1>2
  <2> HIDE DEF vs, newest, n
  <2>3. \A i \in 1..n : vs[i] = newest[n - i + 1]
    BY <1>2, <2>1
  <2>4. ASSUME NEW w \in ToSet(vs) PROVE w \in {newest[i] : i \in 1..n}
    <3>1. PICK i \in 1..n : w = vs[i]
      BY <2>2 DEF ToSet
    <3> QED BY <1>2, <2>3, <3>1
  <2>5. ASSUME NEW i \in 1..n PROVE newest[i] \in ToSet(vs)
    BY <1>2, <2>2 DEF ToSet
  <2> QED BY <2>4, <2>5
<1>4. \A i, j \in 1..n : i < j => Less(newest[j], newest[i])
  <2> SUFFICES ASSUME NEW i \in 1..n, NEW j \in 1..n, i < j PROVE Less(newest[j], newest[i])
    OBVIOUS
  <2>1. /\ n - j + 1 \in DOMAIN vs /\ n - i + 1 \in DOMAIN vs /\ n - j + 1 < n - i + 1
        /\ newest[i] = vs[n - i + 1] /\ newest[j] = vs[n - j + 1]
    BY <1>2
  <2> QED BY <2>1 DEF Ordered
<1> HIDE DEF vs, newest, n
<1>5. v \in Parsed /\ Named(v) /\ Named(from) /\ \A i \in 1..n : Named(newest[i])
  BY <1>2, <1>3, ParsedNamed DEF vs
<1>6. PICK q \in 1..n : v = newest[q]
  BY <1>3 DEF vs
<1>7. \A i \in 1..n : i \in Told <=> Less(from, newest[i]) /\ ~Less(v, newest[i])
  <2>1. ASSUME NEW i \in 1..n, Less(from, newest[i]), NEW j \in stop PROVE i < j
    <3>1. j \in 1..n /\ ~Less(from, newest[j])
      BY <1>2
    <3>2. SUFFICES ASSUME j <= i PROVE FALSE
      BY <3>1
    <3>3. CASE i = j
      BY <2>1, <3>1, <3>3
    <3>4. CASE j < i
      <4>1. Less(newest[i], newest[j])
        BY <1>4, <3>1, <3>4
      <4> QED BY <1>5, <2>1, <3>1, <4>1, LessTransitive
    <3> QED BY <3>1, <3>2, <3>3, <3>4
  <2>2. ASSUME NEW i \in 1..n, ~Less(from, newest[i]) PROVE i \in stop
    BY <1>2, <2>2
  <2>3. \A i \in 1..n : ~(i < i)
    BY <1>2
  <2> QED BY <1>2, <2>1, <2>2, <2>3
<1>8. \A i \in 1..n : /\ i < q => i \notin Told
                      /\ i = q => i \in Told
  <2>1. q \in Told
    BY <1>5, <1>6, <1>7, LessIrreflexive
  <2>2. \A i \in 1..n : i < q => Less(v, newest[i])
    BY <1>4, <1>6
  <2> QED BY <1>7, <2>1, <2>2
<1> HIDE DEF Told
<1> DEFINE P(i) == /\ told[i] \in Seq(Parsed)
                   /\ i < q => told[i] = <<>>
                   /\ i >= q => told[i] # <<>> /\ Head(told[i]) = v
                   /\ ToSet(told[i]) = {newest[j] : j \in Told \intersect (1..i)}
           M == {i \in 0..n : P(i)}
<1>9. told[0] = <<>> /\ \A i \in 1..n :
        told[i] = IF i \in Told THEN Append(told[i - 1], newest[i]) ELSE told[i - 1]
  <2>1. \A i \in 0..n :
          told[i] = IF i = 0 THEN <<>>
                    ELSE IF i \in Told THEN Append(told[i - 1], newest[i]) ELSE told[i - 1]
    BY <1>1
  <2>2. 0 \in 0..n /\ \A i \in 1..n : i \in 0..n /\ i # 0
    BY <1>2
  <2> QED BY <2>1, <2>2
<1>10. 0 \in M
  <2>1. ToSet(<<>>) = {} /\ <<>> \in Seq(Parsed)
    BY DEF ToSet
  <2>2. {newest[j] : j \in Told \intersect (1..0)} = {}
    OBVIOUS
  <2>3. 0 < q /\ ~(0 >= q)
    BY <1>6
  <2>4. P(0)
    BY <1>9, <2>1, <2>2, <2>3
  <2> QED BY <1>2, <2>4
<1>11. ASSUME NEW i \in 1..n, i - 1 \in M PROVE i \in M
  <2> DEFINE x == told[i - 1]
  <2>1. P(i - 1) /\ x \in Seq(Parsed)
    BY <1>11
  <2>2. Told \intersect (1..i) =
          IF i \in Told THEN (Told \intersect (1..(i - 1))) \union {i} ELSE Told \intersect (1..(i - 1))
    <3>1. \A j : j \in 1..i <=> j \in 1..(i - 1) \/ j = i
      BY <1>2
    <3> QED BY <3>1
  <2>3. CASE i \notin Told
    <3>1. told[i] = x
      BY <1>9, <2>3
    <3>2. i # q
      BY <1>8, <2>3
    <3>3. (i < q => i - 1 < q) /\ (i >= q => i - 1 >= q)
      BY <1>2, <1>6, <3>2
    <3>4. P(i)
      BY <2>1, <2>2, <2>3, <3>1, <3>3
    <3> QED BY <1>2, <3>4
  <2>4. CASE i \in Told
    <3>1. told[i] = Append(x, newest[i]) /\ newest[i] \in Parsed
      BY <1>2, <1>9, <2>4
    <3>2. i >= q
      BY <1>2, <1>6, <1>8, <2>4
    <3>3. told[i] # <<>> /\ Head(told[i]) = v
      <4>1. CASE i = q
        <5>1. x = <<>>
          BY <2>1, <4>1
        <5> QED BY <1>6, <3>1, <4>1, <5>1
      <4>2. CASE i # q
        <5>1. x # <<>> /\ Head(x) = v
          BY <1>6, <2>1, <3>2, <4>2
        <5> QED BY <2>1, <3>1, <5>1
      <4> QED BY <4>1, <4>2
    <3>4. ToSet(told[i]) = ToSet(x) \union {newest[i]}
      <4>1. /\ Len(x) \in Nat /\ DOMAIN x = 1..Len(x) /\ DOMAIN Append(x, newest[i]) = 1..(Len(x) + 1)
            /\ Append(x, newest[i])[Len(x) + 1] = newest[i]
            /\ \A j \in 1..Len(x) : Append(x, newest[i])[j] = x[j]
        BY <2>1, <3>1
      <4>2. \A j : j \in 1..(Len(x) + 1) <=> j \in 1..Len(x) \/ j = Len(x) + 1
        BY <4>1
      <4> HIDE DEF x
      <4> QED BY <3>1, <4>1, <4>2 DEF ToSet
    <3>5. P(i)
      <4>1. ToSet(told[i]) = {newest[j] : j \in Told \intersect (1..i)}
        BY <2>1, <2>2, <2>4, <3>4
      <4>2. told[i] \in Seq(Parsed)
        BY <2>1, <3>1
      <4> QED BY <1>6, <3>2, <3>3, <4>1, <4>2
    <3> QED BY <1>2, <3>5
  <2> QED BY <2>3, <2>4
<1>12. n \in M
  <2> HIDE DEF M
  <2>1. \A i \in 0..n : i \in M
    BY <1>2, <1>10, <1>11, CountUp
  <2> QED BY <1>2, <2>1
<1>13. /\ told[n] # <<>> /\ Head(told[n]) = v
       /\ ToSet(told[n]) = {newest[j] : j \in Told \intersect (1..n)}
  BY <1>2, <1>6, <1>12
<1>14. {newest[j] : j \in Told \intersect (1..n)} = {w \in ToSet(vs) : Less(from, w) /\ ~Less(v, w)}
  BY <1>3, <1>7
<1> QED BY <1>1, <1>13, <1>14 DEF n, vs, newest

\* Whatever is installed, synchronizing installs the newest of the newer versions that are
\* allowed, and the receipt tells the changes since, the new version on top.
THEOREM GoForward == Spec => []UpdatesGoForward
<1>1. Inv => UpdatesGoForward
  <2> SUFFICES ASSUME Inv, NEW e \in packages, NEW text \in Texts, ~Invalid(text), NEW pres \in BOOLEAN
               PROVE
          LET from == parse(text)
              Newer == {v \in ToSet(e.package.versions) : Less(from, v)}
              Allowed == {v \in Newer : v.stable \/ pres}
              Wanted == IF Allowed # {} \/ from.stable THEN Allowed ELSE Newer
          IN /\ synchronize(e.package, from, pres, FALSE) =
                  {v \in Wanted : \A w \in Wanted : ~Less(v, w)}
             /\ \A v \in Newer :
                  LET told == Changelog(e.package, v, from)
                  IN /\ told # <<>> /\ Head(told) = v
                     /\ ToSet(told) = {w \in Newer : ~Less(v, w)}
    BY DEF UpdatesGoForward
  <2> DEFINE pkg == e.package
             from == parse(text)
             Newer == {v \in ToSet(pkg.versions) : Less(from, v)}
             Allowed == {v \in Newer : v.stable \/ pres}
             Wanted == IF Allowed # {} \/ from.stable THEN Allowed ELSE Newer
  <2>1. pkg.versions \in Seq(Parsed) /\ Ordered(pkg.versions) /\ from \in Parsed
    BY Listed DEF PackageOK, Parsed
  <2> HIDE DEF pkg, from
  <2>2. synchronize(pkg, from, pres, FALSE) = {v \in Wanted : \A w \in Wanted : ~Less(v, w)}
    <3>1. WantedOver(pkg.versions, from, pres) = Wanted
      BY DEF WantedOver, NewerThan
    <3>2. synchronize(pkg, from, pres, FALSE) = Newest(WantedOver(pkg.versions, from, pres))
      BY <2>1, SynchronizeNewest
    <3> HIDE DEF Wanted
    <3> QED BY <3>1, <3>2 DEF Newest
  <2>3. ASSUME NEW v \in Newer
        PROVE  LET told == Changelog(pkg, v, from)
               IN /\ told # <<>> /\ Head(told) = v
                  /\ ToSet(told) = {w \in Newer : ~Less(v, w)}
    <3>1. v \in ToSet(pkg.versions) /\ Less(from, v)
      OBVIOUS
    <3>2. {w \in Newer : ~Less(v, w)} = {w \in ToSet(pkg.versions) : Less(from, w) /\ ~Less(v, w)}
      OBVIOUS
    <3> HIDE DEF Newer
    <3> QED BY <2>1, <3>1, <3>2, ToldSince
  <2> QED BY <2>2, <2>3 DEF pkg, from
<1> QED BY <1>1, CatalogInv, PTL

-----------------------------------------------------------------------------
(* Members of a set in an order *)

\* before is a strict total order of S: of each member, those before it.
Orders(before, S) ==
  /\ \A x \in S : before[x] \subseteq S /\ x \notin before[x]
  /\ \A x, y \in S : x \in before[y] => before[x] \subseteq before[y]
  /\ \A x, y \in S : x = y \/ x \in before[y] \/ y \in before[x]

\* A sequence of all members, each once, in that order.
Lists(f, S, before) ==
  /\ f \in Seq(S)
  /\ \A x \in S : \E i \in 1..Len(f) : f[i] = x
  /\ \A i, j \in 1..Len(f) : i < j => f[i] \in before[f[j]] /\ f[i] # f[j]

\* A function on 1..n is a sequence of length n.
LEMMA FunctionIsSeq ==
  ASSUME NEW S, NEW n \in Nat, NEW f \in [1..n -> S]
  PROVE  f \in Seq(S) /\ Len(f) = n
BY SeqDef

\* The number of members before one tells its place: no two have the same number, and
\* there are as many numbers as members.
LEMMA InOrderLists ==
  ASSUME NEW S, IsFiniteSet(S), NEW before, Orders(before, S)
  PROVE  Lists(InOrder(S, before), S, before) /\ Len(InOrder(S, before)) = Cardinality(S)
<1> DEFINE n == Cardinality(S)
           rank(x) == Cardinality(before[x])
           f == InOrder(S, before)
           g == [x \in S |-> rank(x)]
<1>1. n \in Nat
  BY FS_CardinalityType
<1>2. \A x \in S : before[x] \subseteq S /\ IsFiniteSet(before[x]) /\ rank(x) \in Nat
  <2> SUFFICES ASSUME NEW x \in S PROVE before[x] \subseteq S /\ IsFiniteSet(before[x]) /\ rank(x) \in Nat
    OBVIOUS
  <2>1. before[x] \in SUBSET S
    BY DEF Orders
  <2>2. IsFiniteSet(before[x])
    BY <2>1, FS_Subset
  <2> QED BY <2>1, <2>2, FS_CardinalityType
<1>3. ASSUME NEW x \in S, NEW y \in S, x \in before[y] PROVE rank(x) < rank(y)
  <2>1. before[x] \in SUBSET before[y]
    BY <1>3 DEF Orders
  <2>2. before[x] # before[y]
    BY <1>3 DEF Orders
  <2>3. rank(x) <= rank(y) /\ rank(x) # rank(y)
    <3>1. IsFiniteSet(before[y])
      BY <1>2
    <3> QED BY <2>1, <2>2, <3>1, FS_Subset, Zenon
  <2> QED BY <1>2, <2>3
<1>4. \A x \in S : rank(x) \in 0..(n - 1)
  <2> SUFFICES ASSUME NEW x \in S PROVE rank(x) \in 0..(n - 1)
    OBVIOUS
  <2>1. before[x] \in SUBSET S /\ before[x] # S
    BY DEF Orders
  <2>2. rank(x) <= n /\ rank(x) # n
    BY <2>1, FS_Subset, Zenon
  <2> QED BY <1>1, <1>2, <2>2
<1>5. \A x, y \in S : rank(x) = rank(y) => x = y
  <2> SUFFICES ASSUME NEW x \in S, NEW y \in S, rank(x) = rank(y), x # y PROVE FALSE
    OBVIOUS
  <2>1. x \in before[y] \/ y \in before[x]
    BY DEF Orders
  <2>2. rank(x) < rank(y) \/ rank(y) < rank(x)
    BY <1>3, <2>1
  <2>3. rank(x) \in Nat /\ rank(y) \in Nat
    BY <1>2
  <2> HIDE DEF rank
  <2> QED BY <2>2, <2>3
<1>6. \A k \in 0..(n - 1) : \E x \in S : rank(x) = k
  <2>1. g \in [S -> 0..(n - 1)] /\ \A x, y \in S : g[x] = g[y] => x = y
    BY <1>4, <1>5
  <2>2. g \in Injection(S, 0..(n - 1))
    <3> HIDE DEF g
    <3> QED BY <2>1 DEF Injection, IsInjective
  <2>3. IsFiniteSet(0..(n - 1)) /\ Cardinality(0..(n - 1)) = n
    <3>1. 0 \in Int /\ n - 1 \in Int
      BY <1>1
    <3>2. IsFiniteSet(0..(n - 1)) /\ Cardinality(0..(n - 1)) = IF 0 > n - 1 THEN 0 ELSE n - 1 - 0 + 1
      <4> HIDE DEF n
      <4> QED BY <3>1, FS_Interval
    <3> QED BY <1>1, <3>2
  <2>4. g \in Surjection(S, 0..(n - 1))
    <3> HIDE DEF g
    <3> QED BY <2>2, <2>3, FS_Injection
  <2>5. \A k \in 0..(n - 1) : \E x \in S : g[x] = k
    <3> HIDE DEF g, n
    <3> QED BY <2>4 DEF Surjection
  <2> QED BY <2>5
<1>7. \A k \in 1..n : f[k] \in S /\ rank(f[k]) = k - 1
  <2> SUFFICES ASSUME NEW k \in 1..n PROVE f[k] \in S /\ rank(f[k]) = k - 1
    OBVIOUS
  <2>1. k - 1 \in 0..(n - 1)
    BY <1>1
  <2>2. f[k] = CHOOSE x \in S : rank(x) = k - 1
    BY DEF InOrder
  <2> HIDE DEF rank, n, f
  <2> QED BY <1>6, <2>1, <2>2
<1>8. f \in Seq(S) /\ Len(f) = n
  <2>1. f \in [1..n -> S]
    <3>1. f = [k \in 1..n |-> f[k]]
      BY DEF InOrder
    <3> HIDE DEF f
    <3> QED BY <1>7, <3>1
  <2> HIDE DEF f, n
  <2> QED BY <1>1, <2>1, FunctionIsSeq
<1>9. ASSUME NEW x \in S PROVE \E i \in 1..n : f[i] = x
  <2>1. PICK i \in 1..n : i - 1 = rank(x)
    <3>1. rank(x) \in Nat /\ rank(x) <= n - 1
      BY <1>1, <1>4
    <3> DEFINE k == rank(x) + 1
    <3>2. k \in 1..n /\ k - 1 = rank(x)
      <4> HIDE DEF rank, n
      <4> QED BY <1>1, <3>1
    <3> HIDE DEF k, rank, n
    <3> QED BY <3>2
  <2>2. f[i] \in S /\ rank(f[i]) = rank(x)
    <3> HIDE DEF rank, f, n
    <3> QED BY <1>7, <2>1
  <2>3. f[i] = x
    <3> HIDE DEF rank, f, n
    <3> QED BY <1>5, <2>2
  <2> QED BY <2>1, <2>3
<1>10. ASSUME NEW i \in 1..n, NEW j \in 1..n, i < j PROVE f[i] \in before[f[j]] /\ f[i] # f[j]
  <2>1. f[i] \in S /\ f[j] \in S /\ rank(f[i]) < rank(f[j]) /\ rank(f[i]) \in Nat /\ rank(f[j]) \in Nat
    <3>1. i \in Int /\ j \in Int
      BY <1>1
    <3> HIDE DEF rank, f, n
    <3> QED BY <1>2, <1>7, <1>10, <3>1
  <2>2. f[i] # f[j] /\ ~(rank(f[j]) < rank(f[i]))
    <3> HIDE DEF rank, f, n
    <3> QED BY <2>1
  <2>3. f[j] \notin before[f[i]]
    <3> HIDE DEF rank, f, n
    <3> QED BY <1>3, <2>1, <2>2
  <2> HIDE DEF f, n
  <2> QED BY <2>1, <2>2, <2>3 DEF Orders
<1> HIDE DEF f, n
<1> QED BY <1>8, <1>9, <1>10 DEF Lists, f, n

\* A function that lists the members in the order is that sequence.
LEMMA InOrderIs ==
  ASSUME NEW S, NEW before, Orders(before, S),
         NEW g \in Seq(S), Lists(g, S, before)
  PROVE  InOrder(S, before) = g /\ IsFiniteSet(S) /\ Cardinality(S) = Len(g)
<1> DEFINE n == Len(g)
           rank(x) == Cardinality(before[x])
<1>1. n \in Nat /\ g \in [1..n -> S] /\ \A i \in 1..n : g[i] \in S
  OBVIOUS
<1>2. \A i, j \in 1..n : i < j => g[i] \in before[g[j]] /\ g[i] # g[j]
  BY DEF Lists
<1>3. \A x \in S : \E i \in 1..n : g[i] = x
  BY DEF Lists
<1>4. \A i, j \in 1..n : g[i] = g[j] => i = j
  <2> SUFFICES ASSUME NEW i \in 1..n, NEW j \in 1..n, g[i] = g[j], i # j PROVE FALSE
    OBVIOUS
  <2>1. i < j \/ j < i
    BY <1>1
  <2> QED BY <1>2, <2>1
<1> HIDE DEF n
<1>5. g \in Bijection(1..n, S)
  BY <1>1, <1>3, <1>4 DEF Bijection, Injection, IsInjective, Surjection
<1>6. IsFiniteSet(1..n) /\ Cardinality(1..n) = n
  BY <1>1, FS_Interval
<1>7. IsFiniteSet(S) /\ Cardinality(S) = n
  <2>1. ExistsBijection(1..n, S)
    BY <1>5 DEF ExistsBijection
  <2> QED BY <1>6, <2>1, FS_Bijection
<1>8. ASSUME NEW k \in 1..n PROVE rank(g[k]) = k - 1
  <2> DEFINE h == [i \in 1..(k - 1) |-> g[i]]
  <2>1. before[g[k]] = {g[i] : i \in 1..(k - 1)}
    <3>1. ASSUME NEW x \in before[g[k]] PROVE \E i \in 1..(k - 1) : x = g[i]
      <4>1. x \in S
        BY <1>1 DEF Orders
      <4>2. PICK i \in 1..n : g[i] = x
        BY <1>3, <4>1
      <4>3. i < k
        <5>1. SUFFICES ASSUME i >= k PROVE FALSE
          BY <1>1
        <5>2. CASE i = k
          BY <1>1, <3>1, <4>2, <5>2 DEF Orders
        <5>3. CASE i > k
          <6>1. g[k] \in before[x]
            BY <1>2, <4>2, <5>3
          <6>2. before[x] \subseteq before[g[k]]
            BY <1>1, <3>1, <4>1 DEF Orders
          <6> QED BY <1>1, <6>1, <6>2 DEF Orders
        <5> QED BY <1>1, <5>1, <5>2, <5>3
      <4> QED BY <1>1, <4>2, <4>3
    <3>2. ASSUME NEW i \in 1..(k - 1) PROVE g[i] \in before[g[k]]
      BY <1>1, <1>2
    <3> QED BY <3>1, <3>2
  <2>2. h \in Bijection(1..(k - 1), before[g[k]])
    <3>1. h \in [1..(k - 1) -> before[g[k]]]
      BY <2>1
    <3>2. \A i, j \in 1..(k - 1) : h[i] = h[j] => i = j
      BY <1>1, <1>4
    <3>3. \A x \in before[g[k]] : \E i \in 1..(k - 1) : h[i] = x
      BY <2>1
    <3> HIDE DEF h
    <3> QED BY <3>1, <3>2, <3>3 DEF Bijection, Injection, IsInjective, Surjection
  <2>3. IsFiniteSet(1..(k - 1)) /\ Cardinality(1..(k - 1)) = k - 1
    <3>1. 1 \in Int /\ k - 1 \in Int
      BY <1>1
    <3>2. IsFiniteSet(1..(k - 1)) /\ Cardinality(1..(k - 1)) = IF 1 > k - 1 THEN 0 ELSE k - 1 - 1 + 1
      BY <3>1, FS_Interval
    <3> QED BY <1>1, <3>2
  <2>4. ExistsBijection(1..(k - 1), before[g[k]])
    BY <2>2 DEF ExistsBijection
  <2> QED BY <2>3, <2>4, FS_Bijection
<1>9. \A k \in 1..n : (CHOOSE x \in S : rank(x) = k - 1) = g[k]
  <2> SUFFICES ASSUME NEW k \in 1..n PROVE (CHOOSE x \in S : rank(x) = k - 1) = g[k]
    OBVIOUS
  <2>1. ASSUME NEW x \in S, rank(x) = k - 1 PROVE x = g[k]
    <3>1. PICK i \in 1..n : g[i] = x
      BY <1>3
    <3>2. rank(x) = i - 1
      BY <1>8, <3>1
    <3>3. i = k
      <4> HIDE DEF rank
      <4> QED BY <1>1, <2>1, <3>2
    <3> QED BY <3>1, <3>3
  <2>2. g[k] \in S /\ rank(g[k]) = k - 1
    BY <1>1, <1>8
  <2> HIDE DEF rank
  <2> QED BY <2>1, <2>2
<1>10. InOrder(S, before) = [k \in 1..n |-> g[k]]
  BY <1>7, <1>9 DEF InOrder
<1>11. g = [k \in 1..n |-> g[k]]
  BY <1>1
<1> QED BY <1>7, <1>10, <1>11 DEF n

\* A sequence of the members of a set of numbers, ascending.
Enumerates(f, S) ==
  /\ f \in Seq(S)
  /\ \A x \in S : \E i \in 1..Len(f) : f[i] = x
  /\ \A i, j \in 1..Len(f) : i < j => f[i] < f[j]

\* Numbers are in an order.
LEMMA NumbersOrdered ==
  ASSUME NEW S \in SUBSET Nat
  PROVE  Orders([x \in S |-> {y \in S : y < x}], S)
<1> DEFINE before == [x \in S |-> {y \in S : y < x}]
<1>1. \A x, y \in S : x \in before[y] <=> x < y
  OBVIOUS
<1>2. \A x \in S : before[x] \subseteq S
  OBVIOUS
<1>3. \A x \in S : x \in Nat
  OBVIOUS
<1> HIDE DEF before
<1>4. \A x, y \in S : x \in before[y] => before[x] \subseteq before[y]
  <2> SUFFICES ASSUME NEW x \in S, NEW y \in S, x < y, NEW z \in before[x] PROVE z \in before[y]
    BY <1>1
  <2>1. z \in S /\ z < x
    BY <1>1, <1>2
  <2> QED BY <1>1, <1>3, <2>1
<1>5. \A x \in S : x \notin before[x]
  BY <1>1, <1>3
<1>6. \A x, y \in S : x = y \/ x \in before[y] \/ y \in before[x]
  BY <1>1, <1>3
<1>7. Orders(before, S)
  BY <1>2, <1>4, <1>5, <1>6 DEF Orders
<1> QED BY <1>7 DEF before

\* Ascending has all members of a set of numbers, from the least.
LEMMA AscendingEnumerates ==
  ASSUME NEW S \in SUBSET Nat, IsFiniteSet(S)
  PROVE  Enumerates(Ascending(S), S) /\ Len(Ascending(S)) = Cardinality(S)
<1> DEFINE before == [x \in S |-> {y \in S : y < x}]
           f == Ascending(S)
<1>1. f = InOrder(S, before)
  BY DEF Ascending
<1>2. Lists(f, S, before) /\ Len(f) = Cardinality(S)
  <2> HIDE DEF before, f
  <2>1. Orders(before, S)
    BY NumbersOrdered DEF before
  <2> QED BY <1>1, <2>1, InOrderLists
<1>3. \A i, j \in 1..Len(f) : i < j => f[i] < f[j]
  <2> SUFFICES ASSUME NEW i \in 1..Len(f), NEW j \in 1..Len(f), i < j PROVE f[i] < f[j]
    OBVIOUS
  <2>1. f[i] \in before[f[j]] /\ f[j] \in S
    <3> HIDE DEF f, before
    <3> QED BY <1>2 DEF Lists
  <2> HIDE DEF f
  <2> QED BY <2>1
<1> HIDE DEF f
<1> QED BY <1>2, <1>3 DEF Lists, Enumerates, f

\* And nothing else has.
LEMMA AscendingIs ==
  ASSUME NEW S \in SUBSET Nat, NEW g, Enumerates(g, S)
  PROVE  Ascending(S) = g
<1> DEFINE before == [x \in S |-> {y \in S : y < x}]
<1>1. g \in Seq(S) /\ \A i \in 1..Len(g) : g[i] \in S
  BY DEF Enumerates
<1>2. Lists(g, S, before)
  <2>1. ASSUME NEW i \in 1..Len(g), NEW j \in 1..Len(g), i < j PROVE g[i] \in before[g[j]] /\ g[i] # g[j]
    <3>1. g[i] < g[j] /\ g[i] \in S /\ g[j] \in S
      BY <1>1, <2>1 DEF Enumerates
    <3> QED BY <3>1
  <2> HIDE DEF before
  <2> QED BY <1>1, <2>1 DEF Lists, Enumerates
<1>3. InOrder(S, before) = g
  <2> HIDE DEF before
  <2>1. Orders(before, S)
    BY NumbersOrdered DEF before
  <2> QED BY <1>1, <1>2, <2>1, InOrderIs
<1> QED BY <1>3 DEF Ascending

-----------------------------------------------------------------------------
(* Lists *)

\* What rows stand for: what the lists are filled with, packages and files, by their
\* places, and nothing.
Data == (UNION {{rs[i].data : i \in DOMAIN rs} : rs \in Contents})
          \union (Nat \X Nat) \union {None}

Cells == [Columns -> Nat]

Rows == [data : Data, cells : Cells, viewIndex : Nat, userIndex : Nat]

Items == [param : Nat, texts : Cells, selected : BOOLEAN]

Sorts == {NoSort} \union [column : Columns, order : {"asc", "desc"}]

Flags == {"filter", "sort", "reindex"}

ListViews ==
  [rows : Seq(Rows), items : Seq(Items), sort : Sorts, default : Sorts, dirty : SUBSET Flags,
   filter : Filters, arrow : Sorts]

\* Items are of different rows and have their texts, and a row without a view index is one
\* that has no item.
Held(l) ==
  /\ \A u \in DOMAIN l.rows : l.rows[u].userIndex = u
  /\ \A i \in DOMAIN l.items :
       l.items[i].param \in DOMAIN l.rows /\ l.items[i].texts = l.rows[l.items[i].param].cells
  /\ \A i, j \in DOMAIN l.items : l.items[i].param = l.items[j].param => i = j
  /\ \A u \in DOMAIN l.rows :
       l.rows[u].viewIndex = 0 <=> \A i \in DOMAIN l.items : l.items[i].param # u

\* The view indexes are also those of the items.
Indexed(l) ==
  /\ Held(l)
  /\ \A i \in DOMAIN l.items : l.rows[l.items[i].param].viewIndex = i

InRowOrder(l) ==
  Len(l.items) = Len(l.rows) /\ \A i \in DOMAIN l.items : l.items[i].param = i

\* Without sorting, what is in the view is numbered as the rows are.
Unsorted(l) == l.sort = NoSort => InRowOrder(l)

SameRows(l, r) ==
  /\ Len(r.rows) = Len(l.rows)
  /\ \A u \in DOMAIN l.rows : r.rows[u].data = l.rows[u].data /\ r.rows[u].cells = l.rows[u].cells

SameSettings(l, r) ==
  r.sort = l.sort /\ r.default = l.default /\ r.filter = l.filter /\ r.arrow = l.arrow

\* Facts of the types that are used throughout.
LEMMA ListTyped ==
  ASSUME NEW l \in ListViews
  PROVE  /\ l.rows \in Seq(Rows) /\ Len(l.rows) \in Nat /\ DOMAIN l.rows = 1..Len(l.rows)
         /\ l.rows \in [1..Len(l.rows) -> Rows]
         /\ l.items \in Seq(Items) /\ Len(l.items) \in Nat /\ DOMAIN l.items = 1..Len(l.items)
         /\ l.items \in [1..Len(l.items) -> Items]
         /\ \A u \in DOMAIN l.rows :
              /\ l.rows[u] \in Rows /\ l.rows[u].data \in Data /\ l.rows[u].cells \in Cells
              /\ l.rows[u].viewIndex \in Nat /\ l.rows[u].userIndex \in Nat
         /\ \A i \in DOMAIN l.items :
              /\ l.items[i] \in Items /\ l.items[i].param \in Nat /\ l.items[i].texts \in Cells
              /\ l.items[i].selected \in BOOLEAN
         /\ l.sort \in Sorts /\ l.default \in Sorts /\ l.arrow \in Sorts
         /\ l.dirty \subseteq Flags /\ l.filter \in Filters
<1>1. l.rows \in Seq(Rows) /\ l.items \in Seq(Items)
  BY DEF ListViews
<1>2. /\ Len(l.rows) \in Nat /\ DOMAIN l.rows = 1..Len(l.rows) /\ l.rows \in [1..Len(l.rows) -> Rows]
      /\ Len(l.items) \in Nat /\ DOMAIN l.items = 1..Len(l.items)
      /\ l.items \in [1..Len(l.items) -> Items]
  BY <1>1
<1>3. \A u \in DOMAIN l.rows :
              /\ l.rows[u] \in Rows /\ l.rows[u].data \in Data /\ l.rows[u].cells \in Cells
              /\ l.rows[u].viewIndex \in Nat /\ l.rows[u].userIndex \in Nat
  BY <1>2 DEF Rows
<1>4. \A i \in DOMAIN l.items :
              /\ l.items[i] \in Items /\ l.items[i].param \in Nat /\ l.items[i].texts \in Cells
              /\ l.items[i].selected \in BOOLEAN
  BY <1>2 DEF Items
<1>5. /\ l.sort \in Sorts /\ l.default \in Sorts /\ l.arrow \in Sorts
      /\ l.dirty \subseteq Flags /\ l.filter \in Filters
  BY DEF ListViews
<1> QED BY <1>1, <1>2, <1>3, <1>4, <1>5

\* A row that is shown has the view index of its item.
LEMMA IndexedBack ==
  ASSUME NEW l \in ListViews, Indexed(l), NEW u \in DOMAIN l.rows, l.rows[u].viewIndex # 0
  PROVE  /\ l.rows[u].viewIndex \in DOMAIN l.items
         /\ l.items[l.rows[u].viewIndex].param = u
<1>1. PICK i \in DOMAIN l.items : l.items[i].param = u
  BY DEF Indexed, Held
<1> QED BY <1>1 DEF Indexed

\* The native index of a row, with or without sorting.
LEMMA Translated ==
  ASSUME NEW l \in ListViews, Indexed(l), Unsorted(l), NEW u \in DOMAIN l.rows
  PROVE  translate(l, u) = l.rows[u].viewIndex
<1>1. u # 0 /\ u \in 1..Len(l.rows)
  BY ListTyped
<1>2. CASE l.sort = NoSort
  <2>1. u \in DOMAIN l.items /\ l.items[u].param = u
    BY <1>1, <1>2, ListTyped DEF Unsorted, InRowOrder
  <2>2. l.rows[u].viewIndex = u
    BY <2>1 DEF Indexed
  <2> QED BY <1>2, <2>2 DEF translate
<1>3. CASE l.sort # NoSort
  BY <1>1, <1>3 DEF translate
<1> QED BY <1>2, <1>3

\* And the row of a native index.
LEMMA TranslatedBack ==
  ASSUME NEW l \in ListViews, Unsorted(l), NEW i \in DOMAIN l.items
  PROVE  translateBack(l, i) = l.items[i].param
<1>1. i # 0
  BY ListTyped
<1> QED BY <1>1 DEF translateBack, Unsorted, InRowOrder

\* Looking for the view indexes leaves items and rows as they are and indexes them.
LEMMA Reindexed ==
  ASSUME NEW l \in ListViews, Held(l), NEW r, r = reindexVisible(l)
  PROVE  /\ r \in ListViews /\ Indexed(r) /\ r.items = l.items
         /\ SameRows(l, r) /\ SameSettings(l, r) /\ r.dirty = l.dirty \ {"reindex"}
<1> DEFINE at(u) == CHOOSE i \in DOMAIN l.items : l.items[i].param = u
           shown(u) == \E i \in DOMAIN l.items : l.items[i].param = u
           row(u) == IF shown(u) THEN [l.rows[u] EXCEPT !.viewIndex = at(u)] ELSE l.rows[u]
           rows == [u \in DOMAIN l.rows |-> row(u)]
<1>1. r = [l EXCEPT !.rows = rows, !.dirty = l.dirty \ {"reindex"}]
  BY DEF reindexVisible
<1>2. \A u \in DOMAIN l.rows : shown(u) =>
        at(u) \in DOMAIN l.items /\ l.items[at(u)].param = u /\ at(u) \in Nat /\ at(u) # 0
  BY ListTyped
<1>3. \A i \in DOMAIN l.items : at(l.items[i].param) = i /\ shown(l.items[i].param)
  <2> SUFFICES ASSUME NEW i \in DOMAIN l.items PROVE at(l.items[i].param) = i /\ shown(l.items[i].param)
    OBVIOUS
  <2>1. \A j \in DOMAIN l.items : l.items[j].param = l.items[i].param => j = i
    BY DEF Held
  <2> QED BY <2>1
<1> HIDE DEF at, shown
<1>4. \A u \in DOMAIN l.rows :
        /\ row(u) \in Rows /\ row(u).data = l.rows[u].data /\ row(u).cells = l.rows[u].cells
        /\ row(u).userIndex = l.rows[u].userIndex
        /\ row(u).viewIndex = IF shown(u) THEN at(u) ELSE l.rows[u].viewIndex
  <2> SUFFICES ASSUME NEW u \in DOMAIN l.rows
               PROVE  /\ row(u) \in Rows /\ row(u).data = l.rows[u].data /\ row(u).cells = l.rows[u].cells
                      /\ row(u).userIndex = l.rows[u].userIndex
                      /\ row(u).viewIndex = IF shown(u) THEN at(u) ELSE l.rows[u].viewIndex
    OBVIOUS
  <2>1. l.rows[u] \in Rows
    BY ListTyped
  <2>2. CASE shown(u)
    <3>1. PICK z \in Nat : z = at(u)
      BY <1>2, <2>2
    <3>2. row(u) = [l.rows[u] EXCEPT !.viewIndex = z]
      BY <2>2, <3>1
    <3> HIDE DEF row
    <3> QED BY <2>1, <2>2, <3>1, <3>2 DEF Rows
  <2>3. CASE ~shown(u)
    <3>1. row(u) = l.rows[u]
      BY <2>3
    <3> HIDE DEF row
    <3> QED BY <2>1, <2>3, <3>1
  <2> QED BY <2>2, <2>3
<1>5. rows \in Seq(Rows) /\ Len(rows) = Len(l.rows) /\ DOMAIN rows = DOMAIN l.rows
  <2>1. rows \in [1..Len(l.rows) -> Rows]
    BY <1>4, ListTyped
  <2> HIDE DEF rows
  <2> QED BY <2>1, FunctionIsSeq, ListTyped
<1>6. \A u \in DOMAIN l.rows : rows[u] = row(u)
  OBVIOUS
<1> HIDE DEF row, rows
<1>7. /\ r.rows = rows /\ r.items = l.items /\ r.dirty = l.dirty \ {"reindex"}
      /\ SameSettings(l, r) /\ r \in ListViews
  BY <1>1, <1>5, ListTyped DEF ListViews, SameSettings
<1>8. SameRows(l, r)
  BY <1>4, <1>5, <1>6, <1>7 DEF SameRows
<1>9. Held(r)
  <2>1. \A u \in DOMAIN r.rows : r.rows[u].userIndex = u
    BY <1>4, <1>5, <1>6, <1>7 DEF Held
  <2>2. \A i \in DOMAIN r.items :
          r.items[i].param \in DOMAIN r.rows /\ r.items[i].texts = r.rows[r.items[i].param].cells
    BY <1>4, <1>5, <1>6, <1>7 DEF Held
  <2>3. \A u \in DOMAIN r.rows :
          r.rows[u].viewIndex = 0 <=> \A i \in DOMAIN r.items : r.items[i].param # u
    <3> SUFFICES ASSUME NEW u \in DOMAIN l.rows
                 PROVE  r.rows[u].viewIndex = 0 <=> \A i \in DOMAIN l.items : l.items[i].param # u
      BY <1>5, <1>7
    <3>1. r.rows[u].viewIndex = IF shown(u) THEN at(u) ELSE l.rows[u].viewIndex
      BY <1>4, <1>6, <1>7
    <3>2. shown(u) <=> \E i \in DOMAIN l.items : l.items[i].param = u
      BY DEF shown
    <3>3. l.rows[u].viewIndex = 0 <=> \A i \in DOMAIN l.items : l.items[i].param # u
      BY DEF Held
    <3> QED BY <1>2, <3>1, <3>2, <3>3
  <2> QED BY <1>7, <2>1, <2>2, <2>3 DEF Held
<1>10. \A i \in DOMAIN r.items : r.rows[r.items[i].param].viewIndex = i
  <2> SUFFICES ASSUME NEW i \in DOMAIN l.items PROVE r.rows[l.items[i].param].viewIndex = i
    BY <1>7
  <2>1. l.items[i].param \in DOMAIN l.rows
    BY DEF Held
  <2> QED BY <1>3, <1>4, <1>6, <1>7, <2>1
<1> QED BY <1>7, <1>8, <1>9, <1>10 DEF Indexed

\* The first column is a column; 0 is none.
LEMMA Column ==
  /\ Cardinality(Columns) \in Nat \ {0} /\ Columns = 1..Cardinality(Columns)
  /\ Columns # {} /\ 0 \notin Columns
<1>1. Cardinality(Columns) \in Nat /\ Cardinality(Columns) > 0 /\ Columns = 1..Cardinality(Columns)
  BY ColumnAssumption, FS_CardinalityType
<1> QED BY <1>1

\* Cells without data are cells.
LEMMA EmptyCells == [c \in Columns |-> NoData] \in Cells
BY DEF Cells, NoData

\* An item that is inserted past the end is the last one.
LEMMA InsertedLast ==
  ASSUME NEW items \in Seq(Items), NEW at \in Nat, at > Len(items), NEW item \in Items
  PROVE  InsertItem(items, at, item) = Append(items, item)
<1> DEFINE n == Len(items)
<1>1. n \in Nat /\ \A i \in 1..n : items[i] \in Items
  OBVIOUS
<1>2. InsertItem(items, at, item) = InsertAt(items, n + 1, item)
  BY DEF InsertItem
<1>3. SubSeq(items, 1, n) = items
  OBVIOUS
<1>4. SubSeq(items, n + 1, n) = <<>>
  BY <1>1
<1>5. n + 1 - 1 = n
  BY <1>1
<1>6. InsertAt(items, n + 1, item) = (items \o <<item>>) \o <<>>
  <2>1. SubSeq(items, 1, n + 1 - 1) = items
    BY <1>3, <1>5
  <2>2. SubSeq(items, n + 1, Len(items)) = <<>>
    BY <1>4
  <2>3. InsertAt(items, n + 1, item) =
          (SubSeq(items, 1, n + 1 - 1) \o <<item>>) \o SubSeq(items, n + 1, Len(items))
    BY DEF InsertAt
  <2> QED BY <2>1, <2>2, <2>3, Zenon
<1>7. (items \o <<item>>) \o <<>> = Append(items, item)
  OBVIOUS
<1> QED BY <1>2, <1>6, <1>7

Created(l, r, data) ==
  LET n == Len(l.rows)
  IN /\ r \in ListViews /\ Indexed(r) /\ InRowOrder(r)
     /\ SameSettings(l, r) /\ r.dirty = l.dirty
     /\ Len(r.rows) = n + 1
     /\ \A u \in 1..n : r.rows[u] = l.rows[u] /\ r.items[u] = l.items[u]
     /\ r.rows[n + 1].data = data /\ r.items[n + 1].selected = FALSE

\* A new row is the last one, with the last item.
LEMMA RowCreated ==
  ASSUME NEW l \in ListViews, Indexed(l), InRowOrder(l), NEW data \in Data
  PROVE  Created(l, createRow(l, data), data)
<1> PICK n \in Nat : n = Len(l.rows)
  BY ListTyped
<1> DEFINE r == createRow(l, data)
<1> DEFINE new == [data |-> data, cells |-> [c \in Columns |-> NoData],
                   viewIndex |-> n + 1, userIndex |-> n + 1]
           item == Item(n + 1)
           m == Len(l.items)
<1>1. /\ n \in Nat /\ m \in Nat /\ m = n /\ DOMAIN l.rows = 1..n /\ DOMAIN l.items = 1..n
      /\ l.rows \in Seq(Rows) /\ l.items \in Seq(Items)
  BY ListTyped DEF InRowOrder
<1>2. new \in Rows /\ item \in Items
  BY <1>1, EmptyCells DEF Rows, Items, Item
<1>3. r = [l EXCEPT !.items = Append(l.items, item), !.rows = Append(l.rows, new)]
  <2>1. n + 1 \in Nat /\ n + 1 > m
    BY <1>1
  <2>2. InsertItem(l.items, n + 1, item) = Append(l.items, item)
    <3> HIDE DEF item
    <3> QED BY <1>1, <1>2, <2>1, InsertedLast
  <2>3. rowCount(l) + 1 = n + 1
    BY DEF rowCount
  <2> QED BY <2>2, <2>3 DEF createRow
<1>4. /\ new.data = data /\ new.cells = item.texts /\ new.viewIndex = n + 1 /\ new.userIndex = n + 1
      /\ item.param = n + 1 /\ item.selected = FALSE
  BY DEF Item
<1> HIDE DEF new, item, r
<1>5. /\ r.rows = Append(l.rows, new) /\ r.items = Append(l.items, item)
      /\ SameSettings(l, r) /\ r.dirty = l.dirty /\ r \in ListViews
  <2>1. Append(l.rows, new) \in Seq(Rows) /\ Append(l.items, item) \in Seq(Items)
    BY <1>1, <1>2
  <2> DEFINE rows == Append(l.rows, new)
             items == Append(l.items, item)
  <2>2. rows \in Seq(Rows) /\ items \in Seq(Items) /\ r = [l EXCEPT !.items = items, !.rows = rows]
    BY <1>3, <2>1
  <2> HIDE DEF rows, items
  <2>3. r.rows = rows /\ r.items = items /\ SameSettings(l, r) /\ r.dirty = l.dirty /\ r \in ListViews
    BY <2>2 DEF ListViews, SameSettings
  <2> QED BY <2>3 DEF rows, items
<1>6. /\ Len(r.rows) = n + 1 /\ DOMAIN r.rows = 1..(n + 1)
      /\ \A u \in 1..n : r.rows[u] = l.rows[u]
      /\ r.rows[n + 1] = new
  BY <1>1, <1>2, <1>5
<1>7. /\ Len(r.items) = n + 1 /\ DOMAIN r.items = 1..(n + 1)
      /\ \A u \in 1..n : r.items[u] = l.items[u]
      /\ r.items[n + 1] = item
  BY <1>1, <1>2, <1>5
<1>8. \A i \in 1..(n + 1) : r.items[i].param = i
  <2> SUFFICES ASSUME NEW i \in 1..(n + 1) PROVE r.items[i].param = i
    OBVIOUS
  <2>1. CASE i \in 1..n
    BY <1>1, <1>7, <2>1 DEF InRowOrder
  <2>2. CASE i = n + 1
    BY <1>4, <1>7, <2>2
  <2> QED BY <1>1, <2>1, <2>2
<1>9. InRowOrder(r)
  BY <1>6, <1>7, <1>8 DEF InRowOrder
<1>10. \A u \in 1..n : l.rows[u].viewIndex = u /\ l.rows[u].userIndex = u
                       /\ l.items[u].texts = l.rows[u].cells
  BY <1>1 DEF Indexed, Held, InRowOrder
<1>11. \A u \in 1..(n + 1) : r.rows[u].viewIndex = u /\ r.rows[u].userIndex = u
                             /\ r.items[u].texts = r.rows[u].cells
  <2> SUFFICES ASSUME NEW u \in 1..(n + 1)
               PROVE  /\ r.rows[u].viewIndex = u /\ r.rows[u].userIndex = u
                      /\ r.items[u].texts = r.rows[u].cells
    OBVIOUS
  <2>1. u \in 1..n \/ u = n + 1
    BY <1>1
  <2>2. CASE u \in 1..n
    BY <1>6, <1>7, <1>10, <2>2
  <2>3. CASE u = n + 1
    BY <1>4, <1>6, <1>7, <2>3
  <2> QED BY <2>1, <2>2, <2>3
<1>12. Indexed(r)
  <2>1. \A u \in DOMAIN r.rows :
          r.rows[u].viewIndex = 0 <=> \A i \in DOMAIN r.items : r.items[i].param # u
    BY <1>1, <1>6, <1>7, <1>8, <1>11
  <2>2. \A u \in DOMAIN r.rows : r.rows[u].userIndex = u
    BY <1>6, <1>11
  <2>3. \A i \in DOMAIN r.items :
          /\ r.items[i].param \in DOMAIN r.rows /\ r.items[i].texts = r.rows[r.items[i].param].cells
          /\ r.rows[r.items[i].param].viewIndex = i
    BY <1>6, <1>7, <1>8, <1>11
  <2>4. \A i, j \in DOMAIN r.items : r.items[i].param = r.items[j].param => i = j
    BY <1>7, <1>8
  <2> QED BY <2>1, <2>2, <2>3, <2>4 DEF Indexed, Held
<1> QED BY <1>4, <1>5, <1>6, <1>7, <1>9, <1>12 DEF Created, r

\* A cell is written to its row and to the item of the row, if it has one.
Written(l, r, u, c, v) ==
  /\ r \in ListViews /\ Indexed(r) /\ SameSettings(l, r)
  /\ Len(r.rows) = Len(l.rows) /\ Len(r.items) = Len(l.items)
  /\ \A w \in DOMAIN l.rows : /\ r.rows[w].data = l.rows[w].data
                              /\ r.rows[w].viewIndex = l.rows[w].viewIndex
                              /\ w # u => r.rows[w].cells = l.rows[w].cells
  /\ r.rows[u].cells[c] = v
  /\ \A d \in Columns : d # c => r.rows[u].cells[d] = l.rows[u].cells[d]
  /\ \A i \in DOMAIN l.items :
       r.items[i].param = l.items[i].param /\ r.items[i].selected = l.items[i].selected
  /\ r.dirty = l.dirty \cup {"filter"}
                 \cup (IF l.sort # NoSort /\ l.sort.column = c THEN {"sort"} ELSE {})

\* A text that is written changes in the row and in its item, and flags what it may disorder.
LEMMA CellSet ==
  ASSUME NEW l \in ListViews, Indexed(l), Unsorted(l),
         NEW u \in DOMAIN l.rows, NEW c \in Columns, NEW v \in Nat
  PROVE  Written(l, setCell(l, u, c, v), u, c, v)
<1> DEFINE r == setCell(l, u, c, v)
<1> DEFINE written == [l.rows[u] EXCEPT !.cells = [l.rows[u].cells EXCEPT ![c] = v]]
           rows == [l.rows EXCEPT ![u] = written]
           t == l.rows[u].viewIndex
           item(i) == IF i = t THEN [l.items[i] EXCEPT !.texts = [l.items[i].texts EXCEPT ![c] = v]]
                      ELSE l.items[i]
           items == [i \in DOMAIN l.items |-> item(i)]
           k == [l EXCEPT !.rows[u].cells[c] = v]
           dirty == l.dirty \cup {"filter"}
                        \cup (IF l.sort # NoSort /\ l.sort.column = c THEN {"sort"} ELSE {})
<1>1. k = [l EXCEPT !.rows = rows]
  OBVIOUS
<1>2. /\ l.rows[u] \in Rows /\ l.rows[u].cells \in [Columns -> Nat] /\ t \in Nat
      /\ \A i \in DOMAIN l.items : l.items[i] \in Items /\ l.items[i].texts \in [Columns -> Nat]
  BY ListTyped DEF Cells
<1>3. /\ written \in Rows /\ written.data = l.rows[u].data /\ written.viewIndex = t
      /\ written.userIndex = l.rows[u].userIndex
      /\ written.cells = [l.rows[u].cells EXCEPT ![c] = v]
  BY <1>2 DEF Rows, Cells
<1>4. \A i \in DOMAIN l.items : /\ item(i) \in Items /\ item(i).param = l.items[i].param
                                /\ item(i).selected = l.items[i].selected
                                /\ item(i).texts = IF i = t THEN [l.items[i].texts EXCEPT ![c] = v]
                                                   ELSE l.items[i].texts
  BY <1>2 DEF Items, Cells
<1>5. /\ rows \in Seq(Rows) /\ Len(rows) = Len(l.rows) /\ DOMAIN rows = DOMAIN l.rows
      /\ \A w \in DOMAIN l.rows : rows[w] = IF w = u THEN written ELSE l.rows[w]
  <2>1. rows \in [1..Len(l.rows) -> Rows]
    <3> HIDE DEF written
    <3> QED BY <1>3, ListTyped
  <2>2. \A w \in DOMAIN l.rows : rows[w] = IF w = u THEN written ELSE l.rows[w]
    <3> HIDE DEF written
    <3> QED BY ListTyped
  <2> HIDE DEF rows, written
  <2> QED BY <2>1, <2>2, FunctionIsSeq, ListTyped
<1>6. items \in Seq(Items) /\ Len(items) = Len(l.items) /\ DOMAIN items = DOMAIN l.items
  <2>1. items \in [1..Len(l.items) -> Items]
    <3> HIDE DEF item
    <3> QED BY <1>4, ListTyped
  <2> HIDE DEF items
  <2> QED BY <2>1, FunctionIsSeq, ListTyped
<1>7. \A i \in DOMAIN l.items : items[i] = item(i)
  OBVIOUS
<1>8. k.rows = rows /\ k.items = l.items /\ k.sort = l.sort /\ k.dirty = l.dirty
  <2> HIDE DEF rows
  <2> QED BY <1>1, ListTyped DEF ListViews
<1>9. l.rows[u].userIndex = u /\ translate(k, u) = t
  <2>1. translate(l, u) = t
    BY Translated
  <2>2. translate(k, u) = translate(l, u)
    <3>1. k.rows[u].viewIndex = l.rows[u].viewIndex
      <4> HIDE DEF written, rows, k
      <4> QED BY <1>3, <1>5, <1>8
    <3> HIDE DEF k
    <3> QED BY <1>8, <3>1 DEF translate
  <2> QED BY <2>1, <2>2 DEF Indexed, Held
<1>10. r = [l EXCEPT !.rows = rows, !.items = items, !.dirty = dirty]
  <2>1. r = updateCell(k, u, c)
    BY <1>9 DEF setCell
  <2>2. k.rows[u].cells[c] = v
    <3> HIDE DEF written, rows, k
    <3> QED BY <1>2, <1>3, <1>5, <1>8
  <2>3. r = [k EXCEPT !.items = [i \in DOMAIN k.items |->
                                   IF i = t THEN [k.items[i] EXCEPT !.texts[c] = v] ELSE k.items[i]],
                      !.dirty = k.dirty \cup {"filter"}
                        \cup (IF k.sort # NoSort /\ k.sort.column = c THEN {"sort"} ELSE {})]
    <3> HIDE DEF k
    <3> QED BY <1>9, <2>1, <2>2 DEF updateCell
  <2>4. r = [k EXCEPT !.items = items, !.dirty = dirty]
    <3> HIDE DEF k
    <3> QED BY <1>8, <2>3
  <2> HIDE DEF items, dirty, rows, k
  <2> QED BY <1>1, <2>4, ListTyped DEF ListViews
<1>11. dirty \subseteq Flags
  BY ListTyped DEF Flags
<1> HIDE DEF rows, items, item, written, dirty, k, r
<1>12. /\ r.rows = rows /\ r.items = items /\ r.dirty = dirty
       /\ SameSettings(l, r) /\ r \in ListViews
  BY <1>5, <1>6, <1>10, <1>11, ListTyped DEF ListViews, SameSettings
<1>13. \A w \in DOMAIN l.rows :
              /\ r.rows[w].data = l.rows[w].data
              /\ r.rows[w].viewIndex = l.rows[w].viewIndex
              /\ r.rows[w].userIndex = l.rows[w].userIndex
              /\ r.rows[w].cells = IF w = u THEN [l.rows[w].cells EXCEPT ![c] = v] ELSE l.rows[w].cells
  BY <1>3, <1>5, <1>12
<1>14. \A i \in DOMAIN l.items :
         /\ r.items[i].param = l.items[i].param /\ r.items[i].selected = l.items[i].selected
         /\ r.items[i].texts = IF i = t THEN [l.items[i].texts EXCEPT ![c] = v] ELSE l.items[i].texts
  BY <1>4, <1>7, <1>12
<1>15. Held(r)
  <2>1. \A i \in DOMAIN l.items : i = t <=> l.items[i].param = u
    BY IndexedBack, ListTyped DEF Indexed
  <2>2. \A i \in DOMAIN r.items :
          r.items[i].param \in DOMAIN r.rows /\ r.items[i].texts = r.rows[r.items[i].param].cells
    <3> SUFFICES ASSUME NEW i \in DOMAIN l.items
                 PROVE  r.items[i].param \in DOMAIN r.rows
                        /\ r.items[i].texts = r.rows[r.items[i].param].cells
      BY <1>6, <1>12
    <3>1. l.items[i].param \in DOMAIN l.rows /\ l.items[i].texts = l.rows[l.items[i].param].cells
      BY DEF Indexed, Held
    <3>2. r.items[i].param = l.items[i].param
      BY <1>14
    <3>3. CASE i = t
      <4>1. l.items[i].param = u
        BY <2>1, <3>3
      <4>2. r.items[i].texts = [l.items[i].texts EXCEPT ![c] = v]
        BY <1>14, <3>3
      <4>3. r.rows[u].cells = [l.rows[u].cells EXCEPT ![c] = v]
        BY <1>13
      <4>4. u \in DOMAIN r.rows
        BY <1>5, <1>12
      <4> QED BY <3>1, <3>2, <4>1, <4>2, <4>3, <4>4
    <3>4. CASE i # t
      <4>1. l.items[i].param # u
        BY <2>1, <3>4
      <4>2. r.items[i].texts = l.items[i].texts
        BY <1>14, <3>4
      <4>3. r.rows[l.items[i].param].cells = l.rows[l.items[i].param].cells
        BY <1>13, <3>1, <4>1
      <4>4. l.items[i].param \in DOMAIN r.rows
        BY <1>5, <1>12, <3>1
      <4> QED BY <3>1, <3>2, <4>2, <4>3, <4>4
    <3> QED BY <3>3, <3>4
  <2>3. \A w \in DOMAIN r.rows : r.rows[w].userIndex = w
    BY <1>5, <1>12, <1>13 DEF Indexed, Held
  <2>4. \A w \in DOMAIN r.rows :
          r.rows[w].viewIndex = 0 <=> \A i \in DOMAIN r.items : r.items[i].param # w
    <3> SUFFICES ASSUME NEW w \in DOMAIN l.rows
                 PROVE  r.rows[w].viewIndex = 0 <=> \A i \in DOMAIN l.items : r.items[i].param # w
      BY <1>5, <1>6, <1>12
    <3>1. l.rows[w].viewIndex = 0 <=> \A i \in DOMAIN l.items : l.items[i].param # w
      BY DEF Indexed, Held
    <3>2. r.rows[w].viewIndex = l.rows[w].viewIndex
      BY <1>13
    <3>3. \A i \in DOMAIN l.items : r.items[i].param = l.items[i].param
      BY <1>14
    <3> QED BY <3>1, <3>2, <3>3
  <2>5. \A i, j \in DOMAIN r.items : r.items[i].param = r.items[j].param => i = j
    BY <1>6, <1>12, <1>14 DEF Indexed, Held
  <2> QED BY <2>2, <2>3, <2>4, <2>5 DEF Held
<1>16. Indexed(r)
  <2> SUFFICES ASSUME NEW i \in DOMAIN l.items PROVE r.rows[r.items[i].param].viewIndex = i
    BY <1>6, <1>12, <1>15 DEF Indexed
  <2>1. l.items[i].param \in DOMAIN l.rows /\ l.rows[l.items[i].param].viewIndex = i
    BY DEF Indexed, Held
  <2>2. r.items[i].param = l.items[i].param
    BY <1>14
  <2>3. r.rows[l.items[i].param].viewIndex = l.rows[l.items[i].param].viewIndex
    BY <1>13, <2>1
  <2> QED BY <2>1, <2>2, <2>3
<1>17. /\ r.rows[u].cells[c] = v
       /\ \A d \in Columns : d # c => r.rows[u].cells[d] = l.rows[u].cells[d]
  BY <1>2, <1>13
<1>18. \A w \in DOMAIN l.rows :
              /\ r.rows[w].data = l.rows[w].data
              /\ r.rows[w].viewIndex = l.rows[w].viewIndex
              /\ w # u => r.rows[w].cells = l.rows[w].cells
  BY <1>13
<1>19. r.dirty = l.dirty \cup {"filter"}
                   \cup (IF l.sort # NoSort /\ l.sort.column = c THEN {"sort"} ELSE {})
  BY <1>12 DEF dirty
<1> QED BY <1>5, <1>6, <1>12, <1>14, <1>16, <1>17, <1>18, <1>19 DEF Written, r

\* A list whose item i, or each if i is 0, was selected or not.
Marked(l, r, i, on) ==
  /\ r \in ListViews /\ Indexed(r) /\ SameSettings(l, r)
  /\ r.rows = l.rows /\ r.dirty = l.dirty /\ Len(r.items) = Len(l.items)
  /\ \A j \in DOMAIN l.items :
       /\ r.items[j].param = l.items[j].param
       /\ r.items[j].selected = IF i = 0 \/ i = j THEN on ELSE l.items[j].selected

\* Selecting an item, or all, changes only that.
LEMMA StateSet ==
  ASSUME NEW l \in ListViews, Indexed(l), NEW i \in Nat, NEW on \in BOOLEAN
  PROVE  Marked(l, [l EXCEPT !.items = SetState(l.items, i, on)], i, on)
<1> DEFINE r == [l EXCEPT !.items = SetState(l.items, i, on)]
<1> DEFINE item(j) == IF i \in {0, j} THEN [l.items[j] EXCEPT !.selected = on] ELSE l.items[j]
           items == [j \in DOMAIN l.items |-> item(j)]
<1>1. \A j \in DOMAIN l.items :
        /\ item(j) \in Items /\ item(j).param = l.items[j].param
        /\ item(j).texts = l.items[j].texts
        /\ item(j).selected = IF i = 0 \/ i = j THEN on ELSE l.items[j].selected
  BY ListTyped DEF Items
<1>2. items \in Seq(Items) /\ Len(items) = Len(l.items) /\ DOMAIN items = DOMAIN l.items
  <2>1. items \in [1..Len(l.items) -> Items]
    <3> HIDE DEF item
    <3> QED BY <1>1, ListTyped
  <2> HIDE DEF items
  <2> QED BY <2>1, FunctionIsSeq, ListTyped
<1>3. \A j \in DOMAIN l.items : items[j] = item(j)
  OBVIOUS
<1>4. r = [l EXCEPT !.items = items]
  BY DEF SetState
<1> HIDE DEF items, item, r
<1>5. /\ r.items = items /\ r.rows = l.rows /\ r.dirty = l.dirty
      /\ SameSettings(l, r) /\ r \in ListViews
  BY <1>2, <1>4 DEF ListViews, SameSettings
<1>6. \A j \in DOMAIN l.items :
         /\ r.items[j].param = l.items[j].param /\ r.items[j].texts = l.items[j].texts
         /\ r.items[j].selected = IF i = 0 \/ i = j THEN on ELSE l.items[j].selected
  BY <1>1, <1>3, <1>5
<1>7. Indexed(r)
  <2>1. DOMAIN r.items = DOMAIN l.items /\ Held(l)
    BY <1>2, <1>5 DEF Indexed
  <2>2. Held(r)
    BY <1>5, <1>6, <2>1 DEF Held
  <2>3. \A j \in DOMAIN l.items : r.rows[r.items[j].param].viewIndex = j
    BY <1>5, <1>6 DEF Indexed
  <2> QED BY <2>1, <2>2, <2>3 DEF Indexed
<1> QED BY <1>2, <1>5, <1>6, <1>7 DEF Marked, r

\* The first c cells of a new row were written.
Added(l, r, row, c) ==
  LET n == Len(l.rows)
  IN /\ r \in ListViews /\ Indexed(r) /\ InRowOrder(r) /\ Len(r.rows) = n + 1
     /\ SameSettings(l, r)
     /\ \A u \in 1..n : /\ r.rows[u].data = l.rows[u].data /\ r.rows[u].cells = l.rows[u].cells
                        /\ r.items[u].selected = l.items[u].selected
     /\ r.rows[n + 1].data = row.data /\ r.items[n + 1].selected = FALSE
     /\ \A d \in 1..c : r.rows[n + 1].cells[d] = row.cells[d]
     /\ l.dirty \subseteq r.dirty /\ ("reindex" \in r.dirty => "reindex" \in l.dirty)
     /\ c > 0 => "filter" \in r.dirty
     /\ l.sort # NoSort /\ l.sort.column \in 1..c => "sort" \in r.dirty

\* The cells of a new row are written one after the other.
LEMMA CellAdded ==
  ASSUME NEW l \in ListViews, NEW row, row.cells \in Cells, NEW c \in Columns,
         NEW x, Added(l, x, row, c - 1)
  PROVE  Added(l, setCell(x, Len(l.rows) + 1, c, row.cells[c]), row, c)
<1> DEFINE n == Len(l.rows)
           r == setCell(x, n + 1, c, row.cells[c])
<1>1. /\ n \in Nat /\ x \in ListViews /\ Indexed(x) /\ InRowOrder(x) /\ Unsorted(x)
      /\ Len(x.rows) = n + 1 /\ DOMAIN x.rows = 1..(n + 1) /\ Len(x.items) = n + 1
      /\ DOMAIN x.items = 1..(n + 1) /\ n + 1 \in 1..(n + 1)
  BY ListTyped DEF Added, InRowOrder, Unsorted
<1>2. row.cells[c] \in Nat /\ c \in Nat /\ c > 0
  BY Column DEF Cells
<1>3. /\ r \in ListViews /\ Indexed(r) /\ SameSettings(x, r)
      /\ Len(r.rows) = n + 1 /\ Len(r.items) = n + 1
      /\ \A w \in 1..(n + 1) :
           /\ r.rows[w].data = x.rows[w].data
           /\ w # n + 1 => r.rows[w].cells = x.rows[w].cells
      /\ r.rows[n + 1].cells[c] = row.cells[c]
      /\ \A d \in Columns : d # c => r.rows[n + 1].cells[d] = x.rows[n + 1].cells[d]
      /\ \A i \in 1..(n + 1) :
           r.items[i].param = x.items[i].param /\ r.items[i].selected = x.items[i].selected
      /\ r.dirty = x.dirty \cup {"filter"}
                     \cup (IF x.sort # NoSort /\ x.sort.column = c THEN {"sort"} ELSE {})
  <2>1. Written(x, r, n + 1, c, row.cells[c])
    BY <1>1, <1>2, CellSet
  <2> HIDE DEF r, n
  <2> QED BY <1>1, <2>1 DEF Written
<1> HIDE DEF r, n
<1>4. InRowOrder(r)
  <2>1. DOMAIN r.items = 1..(n + 1)
    BY <1>3, ListTyped
  <2> QED BY <1>1, <1>3, <2>1 DEF InRowOrder
<1>5. \A d \in 1..c : r.rows[n + 1].cells[d] = row.cells[d]
  <2> SUFFICES ASSUME NEW d \in 1..c PROVE r.rows[n + 1].cells[d] = row.cells[d]
    OBVIOUS
  <2>1. d \in Columns
    <3>1. c \in 1..Cardinality(Columns) /\ Cardinality(Columns) \in Nat
      BY Column
    <3>2. d \in 1..Cardinality(Columns)
      BY <1>2, <3>1
    <3> QED BY <3>2, Column
  <2>2. d = c \/ d \in 1..(c - 1)
    BY <1>2
  <2>3. d \in 1..(c - 1) => x.rows[n + 1].cells[d] = row.cells[d]
    BY DEF Added, n
  <2> QED BY <1>3, <2>1, <2>2, <2>3
<1>6. SameSettings(l, r)
  BY <1>3 DEF Added, SameSettings
<1>7. l.sort # NoSort /\ l.sort.column \in 1..c => "sort" \in r.dirty
  <2> SUFFICES ASSUME l.sort # NoSort, l.sort.column \in 1..c PROVE "sort" \in r.dirty
    OBVIOUS
  <2>1. x.sort = l.sort
    BY DEF Added, SameSettings
  <2>2. l.sort.column = c \/ l.sort.column \in 1..(c - 1)
    BY <1>2
  <2>3. l.sort.column \in 1..(c - 1) => "sort" \in x.dirty
    BY DEF Added
  <2> QED BY <1>3, <2>1, <2>2, <2>3
<1>8. \A u \in 1..n : /\ r.rows[u].data = l.rows[u].data /\ r.rows[u].cells = l.rows[u].cells
                      /\ r.items[u].selected = l.items[u].selected
  <2> SUFFICES ASSUME NEW u \in 1..n
               PROVE  /\ r.rows[u].data = l.rows[u].data /\ r.rows[u].cells = l.rows[u].cells
                      /\ r.items[u].selected = l.items[u].selected
    OBVIOUS
  <2>1. u \in 1..(n + 1) /\ u # n + 1
    BY <1>1
  <2>2. /\ x.rows[u].data = l.rows[u].data /\ x.rows[u].cells = l.rows[u].cells
        /\ x.items[u].selected = l.items[u].selected
    BY DEF Added, n
  <2> QED BY <1>3, <2>1, <2>2
<1>9. r.rows[n + 1].data = row.data /\ r.items[n + 1].selected = FALSE
  BY <1>1, <1>3 DEF Added, n
<1>10. l.dirty \subseteq r.dirty /\ ("reindex" \in r.dirty => "reindex" \in l.dirty) /\ "filter" \in r.dirty
  BY <1>3 DEF Added
<1> QED BY <1>1, <1>3, <1>4, <1>5, <1>6, <1>7, <1>8, <1>9, <1>10 DEF Added, r, n

\* What NewRow computes: a row at the end, with its cells.
LEMMA RowAdded ==
  ASSUME NEW l \in ListViews, Indexed(l), InRowOrder(l),
         NEW row, row.data \in Data, row.cells \in Cells
  PROVE  Added(l, NewRow(l, row), row, Cardinality(Columns))
         /\ NewRow(l, row).rows[Len(l.rows) + 1].cells = row.cells
<1> PICK n \in Nat : n = Len(l.rows)
  BY ListTyped
<1> DEFINE K == Cardinality(Columns)
           base == createRow(l, row.data)
           One(c, x) == setCell(x, n + 1, c, row.cells[c])
           S == {x \in ListViews : Indexed(x) /\ InRowOrder(x) /\ Len(x.rows) = n + 1}
           step == [c \in 1..K |-> [x \in S |-> One(c, x)]]
<1>1. K \in Nat /\ K # 0 /\ Columns = 1..K
  BY Column
<1>2. Added(l, base, row, 0)
  <2>1. Created(l, base, row.data)
    BY RowCreated
  <2> HIDE DEF base
  <2>2. /\ base \in ListViews /\ Indexed(base) /\ InRowOrder(base) /\ Len(base.rows) = n + 1
        /\ SameSettings(l, base) /\ base.dirty = l.dirty
        /\ base.rows[n + 1].data = row.data /\ base.items[n + 1].selected = FALSE
    BY <2>1 DEF Created
  <2>3. \A u \in 1..n : /\ base.rows[u].data = l.rows[u].data /\ base.rows[u].cells = l.rows[u].cells
                        /\ base.items[u].selected = l.items[u].selected
    BY <2>1 DEF Created
  <2>4. \A d \in 1..0 : base.rows[n + 1].cells[d] = row.cells[d]
    OBVIOUS
  <2>5. l.sort.column \notin 1..0 /\ ~(0 > 0)
    OBVIOUS
  <2>6. l.dirty \subseteq base.dirty /\ ("reindex" \in base.dirty => "reindex" \in l.dirty)
    BY <2>2
  <2> QED BY <2>2, <2>3, <2>4, <2>5, <2>6, Zenon DEF Added
<1>3. ASSUME NEW c \in 1..K, NEW x, Added(l, x, row, c - 1) PROVE Added(l, One(c, x), row, c)
  BY <1>1, <1>3, CellAdded
<1>4. \A c \in 1..K : \A x \in S : One(c, x) \in S
  <2> SUFFICES ASSUME NEW c \in 1..K, NEW x \in S PROVE One(c, x) \in S
    OBVIOUS
  <2> DEFINE r == One(c, x)
  <2>1. /\ n \in Nat /\ x \in ListViews /\ Indexed(x) /\ InRowOrder(x) /\ Unsorted(x)
        /\ Len(x.rows) = n + 1 /\ n + 1 \in DOMAIN x.rows /\ c \in Columns /\ row.cells[c] \in Nat
        /\ DOMAIN x.items = 1..(n + 1)
    BY <1>1, ListTyped DEF InRowOrder, Unsorted, Cells
  <2>2. Written(x, r, n + 1, c, row.cells[c])
    BY <2>1, CellSet
  <2> HIDE DEF r
  <2>3. /\ r \in ListViews /\ Indexed(r)
        /\ Len(r.rows) = Len(x.rows) /\ Len(r.items) = Len(x.items)
        /\ \A i \in DOMAIN x.items : r.items[i].param = x.items[i].param
    BY <2>2 DEF Written
  <2>4. InRowOrder(r)
    <3>1. DOMAIN r.items = 1..Len(r.items)
      BY <2>3, ListTyped
    <3> QED BY <2>1, <2>3, <3>1 DEF InRowOrder
  <2>5. r \in S
    BY <2>1, <2>3, <2>4
  <2> QED BY <2>5 DEF r
<1>5. \A c \in 1..K : \A x \in S : step[c][x] = One(c, x) /\ step[c][x] \in S
  <2> HIDE DEF S, One
  <2> QED BY <1>4
<1>6. PICK g \in [0..K -> S] : Walk(g, K, base, step)
  <2>1. base \in S
    BY <1>2 DEF Added
  <2> HIDE DEF S, base, step, K
  <2> QED BY <1>1, <1>5, <2>1, Steps
<1>7. \A c \in 1..K : g[c] = One(c, g[c - 1])
  <2> SUFFICES ASSUME NEW c \in 1..K PROVE g[c] = One(c, g[c - 1])
    OBVIOUS
  <2>1. c - 1 \in 0..K
    BY <1>1
  <2>2. g[c - 1] \in S
    <3> HIDE DEF S, K
    <3> QED BY <2>1
  <2>3. g[c] = step[c][g[c - 1]]
    <3> HIDE DEF step, K
    <3> QED BY <1>6 DEF Walk
  <2> HIDE DEF S, One
  <2> QED BY <1>5, <2>2, <2>3
<1>8. g[0] = base
  BY <1>6 DEF Walk
<1>9. g = [c \in 0..K |-> IF c = 0 THEN base ELSE One(c, g[c - 1])]
  <2>1. \A c \in 0..K : g[c] = IF c = 0 THEN base ELSE One(c, g[c - 1])
    <3>1. \A c \in 0..K : c = 0 \/ c \in 1..K
      BY <1>1
    <3> HIDE DEF One, K, base
    <3> QED BY <1>7, <1>8, <3>1
  <2>2. g = [c \in 0..K |-> g[c]]
    <3> HIDE DEF S, K
    <3> QED OBVIOUS
  <2> HIDE DEF One, K, base
  <2> QED BY <2>1, <2>2
<1>10. PICK h : /\ h = [c \in 0..K |-> IF c = 0 THEN base ELSE One(c, h[c - 1])]
                /\ NewRow(l, row) = h[K]
  <2>1. \E h : h = [c \in 0..K |-> IF c = 0 THEN base ELSE One(c, h[c - 1])]
    BY <1>9
  <2> QED BY <2>1 DEF NewRow, rowCount
<1>11. /\ h[0] = base
       /\ \A c \in 1..K : c \in 0..K /\ c # 0 /\ h[c] = One(c, h[c - 1])
  <2>1. 0 \in 0..K /\ \A c \in 1..K : c \in 0..K /\ c # 0
    BY <1>1
  <2> HIDE DEF One, base, K
  <2> QED BY <1>10, <2>1
<1>12. \A c \in 0..K : Added(l, h[c], row, c)
  <2> DEFINE M == {c \in 0..K : Added(l, h[c], row, c)}
  <2>1. 0 \in M
    <3>1. 0 \in 0..K
      BY <1>1
    <3> HIDE DEF K, base
    <3> QED BY <1>2, <1>11, <3>1
  <2>2. ASSUME NEW c \in 1..K, c - 1 \in M PROVE c \in M
    <3> HIDE DEF K, base, One
    <3> QED BY <1>3, <1>11, <2>2
  <2>3. \A c \in 0..K : c \in M
    <3> HIDE DEF M, K
    <3> QED BY <1>1, <2>1, <2>2, CountUp
  <2> QED BY <2>3
<1>13. Added(l, NewRow(l, row), row, K)
  <2>1. K \in 0..K
    BY <1>1
  <2> HIDE DEF K
  <2> QED BY <1>10, <1>12, <2>1
<1> DEFINE r == NewRow(l, row)
<1>14. r.rows[n + 1].cells = row.cells
  <2>1. n + 1 \in DOMAIN r.rows /\ r \in ListViews
    <3> HIDE DEF r
    <3> QED BY <1>13, ListTyped DEF Added, r
  <2>2. r.rows[n + 1].cells \in [Columns -> Nat] /\ row.cells \in [Columns -> Nat]
    <3> HIDE DEF r
    <3> QED BY <2>1, ListTyped DEF Cells
  <2>3. \A d \in Columns : r.rows[n + 1].cells[d] = row.cells[d]
    <3> HIDE DEF r, K
    <3> QED BY <1>1, <1>13 DEF Added, r
  <2> DEFINE got == r.rows[n + 1].cells
             want == row.cells
  <2>4. got \in [Columns -> Nat] /\ want \in [Columns -> Nat] /\ \A d \in Columns : got[d] = want[d]
    BY <2>2, <2>3
  <2> HIDE DEF got, want
  <2>5. got = want
    BY <2>4
  <2> QED BY <2>5 DEF got, want
<1> QED BY <1>13, <1>14

\* A list to which a row was added.
Grown(l, r, row) ==
  LET n == Len(l.rows)
  IN /\ r \in ListViews /\ Indexed(r) /\ InRowOrder(r) /\ Len(r.rows) = n + 1
     /\ SameSettings(l, r)
     /\ \A u \in 1..n : /\ r.rows[u].data = l.rows[u].data /\ r.rows[u].cells = l.rows[u].cells
                        /\ r.items[u].selected = l.items[u].selected
     /\ r.rows[n + 1].data = row.data /\ r.rows[n + 1].cells = row.cells
     /\ r.items[n + 1].selected = FALSE
     /\ "filter" \in r.dirty /\ ("reindex" \in r.dirty => "reindex" \in l.dirty)
     /\ l.dirty \subseteq r.dirty /\ (l.sort # NoSort => "sort" \in r.dirty)

\* A new row with all its cells.
LEMMA RowGrown ==
  ASSUME NEW l \in ListViews, Indexed(l), InRowOrder(l),
         NEW row, row.data \in Data, row.cells \in Cells
  PROVE  Grown(l, NewRow(l, row), row)
<1> DEFINE r == NewRow(l, row)
           K == Cardinality(Columns)
<1>1. Added(l, r, row, K) /\ r.rows[Len(l.rows) + 1].cells = row.cells
  BY RowAdded
<1>2. K > 0 /\ (l.sort # NoSort => l.sort.column \in 1..K)
  <2>1. l.sort = NoSort \/ l.sort.column \in Columns
    BY ListTyped DEF Sorts
  <2> QED BY <2>1, Column
<1> HIDE DEF r, K
<1>3. r.rows[Len(l.rows) + 1].data = row.data /\ r.items[Len(l.rows) + 1].selected = FALSE
  BY <1>1 DEF Added
<1> QED BY <1>1, <1>2, <1>3, Zenon DEF Added, Grown, r

-----------------------------------------------------------------------------
(* Removal *)

\* What is left of a sequence keeps its order.
Left(s, r, D, f) ==
  /\ Enumerates(f, DOMAIN s \ D)
  /\ Len(r) = Len(f)
  /\ \A k \in 1..Len(f) : f[k] \in DOMAIN s /\ f[k] \notin D /\ r[k] = s[f[k]]

\* What DeleteAt keeps, in order.
LEMMA Deleted ==
  ASSUME NEW T, NEW s \in Seq(T), NEW D
  PROVE  \E f : Left(s, DeleteAt(s, D), D, f) /\ DeleteAt(s, D) \in Seq(T)
<1> DEFINE S == DOMAIN s \ D
           f == Ascending(S)
           r == DeleteAt(s, D)
<1>1. S \in SUBSET Nat /\ IsFiniteSet(S)
  <2>1. DOMAIN s = 1..Len(s) /\ Len(s) \in Nat
    OBVIOUS
  <2>2. IsFiniteSet(1..Len(s))
    BY <2>1, FS_Interval
  <2> QED BY <2>1, <2>2, FS_Subset
<1>2. Enumerates(f, S)
  <2> HIDE DEF S
  <2> QED BY <1>1, AscendingEnumerates
<1>3. r = [k \in DOMAIN f |-> s[f[k]]]
  BY DEF DeleteAt
<1> HIDE DEF f, r
<1>4. /\ f \in Seq(S) /\ Len(f) \in Nat /\ DOMAIN f = 1..Len(f)
      /\ \A k \in 1..Len(f) : f[k] \in DOMAIN s /\ f[k] \notin D
  <2>1. f \in Seq(S)
    BY <1>2 DEF Enumerates
  <2>2. Len(f) \in Nat /\ DOMAIN f = 1..Len(f) /\ \A k \in 1..Len(f) : f[k] \in S
    <3> HIDE DEF S
    <3> QED BY <2>1
  <2> QED BY <2>1, <2>2
<1>5. r \in Seq(T) /\ Len(r) = Len(f)
  <2>1. \A k \in 1..Len(f) : s[f[k]] \in T
    BY <1>4
  <2>2. r \in [1..Len(f) -> T]
    BY <1>3, <1>4, <2>1
  <2> QED BY <1>4, <2>2, FunctionIsSeq
<1>6. \A k \in 1..Len(f) : r[k] = s[f[k]]
  BY <1>3, <1>4
<1>7. Left(s, r, D, f)
  BY <1>2, <1>4, <1>5, <1>6 DEF Left
<1> QED BY <1>5, <1>7 DEF r

\* q is the number of row p once row u is gone.
Renumbers(n, u, p, q) ==
  n \in Nat /\ u \in 1..n /\ p \in 1..n /\ p # u /\ q = IF p > u THEN p - 1 ELSE p

LEMMA Renumbered ==
  ASSUME NEW n, NEW u, NEW p, NEW q, Renumbers(n, u, p, q)
  PROVE  q \in 1..(n - 1) /\ p = IF q < u THEN q ELSE q + 1
<1>1. CASE p < u
  BY <1>1 DEF Renumbers
<1>2. CASE p > u
  BY <1>2 DEF Renumbers
<1> QED BY <1>1, <1>2 DEF Renumbers

\* Deleting one element moves those that follow.
LEMMA DeletedOne ==
  ASSUME NEW T, NEW s \in Seq(T), NEW v \in DOMAIN s
  PROVE  /\ DeleteAt(s, {v}) \in Seq(T) /\ Len(DeleteAt(s, {v})) = Len(s) - 1
         /\ \A k \in 1..(Len(s) - 1) :
              DeleteAt(s, {v})[k] = IF k < v THEN s[k] ELSE s[k + 1]
<1> PICK n \in Nat : n = Len(s)
  OBVIOUS
<1>1. DOMAIN s = 1..n /\ v \in 1..n
  OBVIOUS
<1> DEFINE S == DOMAIN s \ {v}
           at(k) == IF k < v THEN k ELSE k + 1
           f == [k \in 1..(n - 1) |-> at(k)]
           r == DeleteAt(s, {v})
<1>2. n - 1 \in Nat
  BY <1>1
<1>3. \A k \in 1..(n - 1) : at(k) \in S
  BY <1>1
<1>4. f \in Seq(S) /\ Len(f) = n - 1 /\ DOMAIN f = 1..(n - 1)
  <2>1. f \in [1..(n - 1) -> S]
    <3> HIDE DEF at, S
    <3> QED BY <1>3
  <2> HIDE DEF f, S
  <2> QED BY <1>2, <2>1, FunctionIsSeq
<1>5. \A k \in 1..(n - 1) : f[k] = at(k)
  OBVIOUS
<1>6. ASSUME NEW x \in S PROVE \E i \in 1..(n - 1) : f[i] = x
  <2>1. x \in 1..n /\ x # v
    BY <1>1
  <2>2. CASE x < v
    <3>1. x \in 1..(n - 1) /\ at(x) = x
      BY <1>1, <2>1, <2>2
    <3> QED BY <1>5, <3>1
  <2>3. CASE x > v
    <3>1. x - 1 \in 1..(n - 1) /\ at(x - 1) = x
      BY <1>1, <2>1, <2>3
    <3> HIDE DEF at, f
    <3> QED BY <1>5, <3>1
  <2> QED BY <1>1, <2>1, <2>2, <2>3
<1>7. ASSUME NEW i \in 1..(n - 1), NEW j \in 1..(n - 1), i < j PROVE f[i] < f[j]
  <2>1. at(i) < at(j)
    BY <1>1, <1>7
  <2> HIDE DEF at, f
  <2> QED BY <1>5, <2>1
<1>8. Ascending(S) = f
  <2>1. Enumerates(f, S)
    <3> HIDE DEF f, S
    <3> QED BY <1>4, <1>6, <1>7 DEF Enumerates
  <2>2. S \in SUBSET Nat
    BY <1>1
  <2> HIDE DEF f, S
  <2> QED BY <2>1, <2>2, AscendingIs
<1>9. r = [k \in 1..(n - 1) |-> s[f[k]]]
  <2> HIDE DEF f
  <2> QED BY <1>4, <1>8 DEF DeleteAt
<1> HIDE DEF f, r, at
<1>10. \A k \in 1..(n - 1) : r[k] = s[at(k)]
  BY <1>5, <1>9
<1>11. r \in [1..(n - 1) -> T]
  <2>1. \A k \in 1..(n - 1) : s[f[k]] \in T
    BY <1>3, <1>5
  <2> QED BY <1>9, <2>1
<1>12. r \in Seq(T) /\ Len(r) = n - 1
  BY <1>2, <1>11, FunctionIsSeq
<1> QED BY <1>10, <1>12 DEF r, at

\* Deleting no element changes nothing.
LEMMA DeletedNone ==
  ASSUME NEW T, NEW s \in Seq(T), NEW D, D \intersect DOMAIN s = {}
  PROVE  DeleteAt(s, D) = s
<1> PICK n \in Nat : n = Len(s)
  OBVIOUS
<1>1. DOMAIN s = 1..n /\ DOMAIN s \ D = 1..n
  OBVIOUS
<1> DEFINE f == [k \in 1..n |-> k]
<1>2. f \in Seq(1..n) /\ Len(f) = n /\ DOMAIN f = 1..n
  <2>1. f \in [1..n -> 1..n]
    OBVIOUS
  <2> HIDE DEF f
  <2> QED BY <2>1, FunctionIsSeq
<1>3. Enumerates(f, 1..n)
  <2>1. \A k \in 1..n : f[k] = k
    OBVIOUS
  <2> HIDE DEF f
  <2> QED BY <1>2, <2>1 DEF Enumerates
<1>4. Ascending(1..n) = f
  <2> HIDE DEF f
  <2>1. 1..n \in SUBSET Nat
    OBVIOUS
  <2> QED BY <1>3, <2>1, AscendingIs
<1>5. DeleteAt(s, D) = [k \in 1..n |-> s[k]]
  <2>1. DeleteAt(s, D) = [k \in DOMAIN f |-> s[f[k]]]
    <3> HIDE DEF f
    <3> QED BY <1>1, <1>4 DEF DeleteAt
  <2> QED BY <2>1
<1> QED BY <1>1, <1>5

\* A list from which a row was removed: what follows moved up, in the rows and in the view.
Removed(l, r, u) ==
  LET old(w) == IF w < u THEN w ELSE w + 1
      v == l.rows[u].viewIndex
      was(k) == IF v = 0 \/ k < v THEN k ELSE k + 1
  IN /\ r \in ListViews /\ Indexed(r) /\ SameSettings(l, r)
     /\ r.dirty = l.dirty \ {"reindex"}
     /\ Len(r.rows) = Len(l.rows) - 1
     /\ \A w \in 1..(Len(l.rows) - 1) :
          /\ r.rows[w].data = l.rows[old(w)].data /\ r.rows[w].cells = l.rows[old(w)].cells
          /\ r.rows[w].viewIndex = 0 <=> l.rows[old(w)].viewIndex = 0
     /\ Len(r.items) = IF v = 0 THEN Len(l.items) ELSE Len(l.items) - 1
     /\ \A k \in 1..Len(r.items) :
          /\ was(k) \in DOMAIN l.items /\ was(k) # v
          /\ r.items[k].param \in 1..(Len(l.rows) - 1)
          /\ old(r.items[k].param) = l.items[was(k)].param
          /\ r.items[k].selected = l.items[was(k)].selected

\* Removing a row renumbers those that follow and their items.
LEMMA RowRemoved ==
  ASSUME NEW l \in ListViews, Indexed(l), Unsorted(l), NEW u \in DOMAIN l.rows
  PROVE  Removed(l, removeRow(l, u), u)
<1> PICK n \in Nat : n = Len(l.rows)
  BY ListTyped
<1> PICK m \in Nat : m = Len(l.items)
  BY ListTyped
<1> DEFINE v == l.rows[u].viewIndex
           old(w) == IF w < u THEN w ELSE w + 1
           was(k) == IF v = 0 \/ k < v THEN k ELSE k + 1
           row(w) == IF w > u THEN [l.rows[w] EXCEPT !.userIndex = w - 1] ELSE l.rows[w]
           shifted == [w \in DOMAIN l.rows |-> row(w)]
           after == {w \in DOMAIN l.rows : w > u}
           item(i) == IF \E w \in after : translate(l, w) = i
                      THEN [l.items[i] EXCEPT !.param = (CHOOSE w \in after : translate(l, w) = i) - 1]
                      ELSE l.items[i]
           items == [i \in DOMAIN l.items |-> item(i)]
           newRows == DeleteAt(shifted, {u})
           newItems == DeleteAt(items, {v})
           x == [l EXCEPT !.items = newItems, !.rows = newRows]
<1>1. /\ DOMAIN l.rows = 1..n /\ DOMAIN l.items = 1..m /\ u \in 1..n /\ v \in Nat
      /\ \A w \in 1..n : l.rows[w] \in Rows /\ translate(l, w) = l.rows[w].viewIndex
                         /\ l.rows[w].userIndex = w
      /\ \A i \in 1..m : /\ l.items[i] \in Items /\ l.items[i].param \in 1..n /\ l.items[i].param \in Nat
                         /\ l.rows[l.items[i].param].viewIndex = i
                         /\ l.items[i].texts = l.rows[l.items[i].param].cells
  BY ListTyped, Translated DEF Indexed, Held
<1>2. v # 0 => v \in 1..m /\ l.items[v].param = u
  BY <1>1, IndexedBack
<1>3. removeRow(l, u) = reindexVisible(x)
  <2>1. translate(l, u) = v
    BY <1>1
  <2>2. ShiftItems(l, u) = items
    BY DEF ShiftItems
  <2> HIDE DEF items, v
  <2> QED BY <2>1, <2>2 DEF removeRow
<1>4. \A i \in 1..m :
        /\ item(i) \in Items /\ item(i).selected = l.items[i].selected
        /\ item(i).texts = l.items[i].texts
        /\ item(i).param = IF l.items[i].param > u THEN l.items[i].param - 1 ELSE l.items[i].param
  <2> SUFFICES ASSUME NEW i \in 1..m
               PROVE  /\ item(i) \in Items /\ item(i).selected = l.items[i].selected
                      /\ item(i).texts = l.items[i].texts
                      /\ item(i).param = IF l.items[i].param > u THEN l.items[i].param - 1
                                         ELSE l.items[i].param
    OBVIOUS
  <2>1. ASSUME NEW w \in after, translate(l, w) = i PROVE w = l.items[i].param
    <3>1. w \in 1..n /\ l.rows[w].viewIndex = i /\ i # 0
      BY <1>1, <2>1
    <3> QED BY <1>1, <3>1, IndexedBack
  <2>2. CASE l.items[i].param > u
    <3>1. l.items[i].param \in after /\ translate(l, l.items[i].param) = i
      BY <1>1, <2>2
    <3>2. (CHOOSE w \in after : translate(l, w) = i) = l.items[i].param
      BY <2>1, <3>1
    <3>3. item(i) = [l.items[i] EXCEPT !.param = l.items[i].param - 1]
      BY <3>1, <3>2
    <3>4. l.items[i].param - 1 \in Nat
      BY <1>1, <2>2
    <3> HIDE DEF item
    <3> QED BY <1>1, <2>2, <3>3, <3>4 DEF Items
  <2>3. CASE ~(l.items[i].param > u)
    <3>1. ~\E w \in after : translate(l, w) = i
      BY <2>1, <2>3
    <3>2. item(i) = l.items[i]
      BY <3>1
    <3> HIDE DEF item
    <3> QED BY <1>1, <2>3, <3>2 DEF Items
  <2> QED BY <2>2, <2>3
<1>5. \A w \in 1..n : /\ row(w) \in Rows /\ row(w).data = l.rows[w].data
                      /\ row(w).cells = l.rows[w].cells /\ row(w).viewIndex = l.rows[w].viewIndex
                      /\ row(w).userIndex = IF w > u THEN w - 1 ELSE w
  BY <1>1 DEF Rows
<1>6. shifted \in Seq(Rows) /\ Len(shifted) = n /\ \A w \in 1..n : shifted[w] = row(w)
  <2>1. shifted \in [1..n -> Rows] /\ \A w \in 1..n : shifted[w] = row(w)
    <3> HIDE DEF row
    <3> QED BY <1>1, <1>5
  <2> HIDE DEF shifted, row
  <2> QED BY <2>1, FunctionIsSeq
<1>7. items \in Seq(Items) /\ Len(items) = m /\ \A i \in 1..m : items[i] = item(i)
  <2>1. items \in [1..m -> Items] /\ \A i \in 1..m : items[i] = item(i)
    <3> HIDE DEF item
    <3> QED BY <1>1, <1>4
  <2> HIDE DEF items, item
  <2> QED BY <2>1, FunctionIsSeq
<1> HIDE DEF row, shifted, item, items
<1>8. /\ newRows \in Seq(Rows) /\ Len(newRows) = n - 1 /\ DOMAIN newRows = 1..(n - 1)
      /\ \A w \in 1..(n - 1) : newRows[w] = row(old(w)) /\ old(w) \in 1..n /\ old(w) # u
  <2>1. u \in DOMAIN shifted
    BY <1>1, <1>6
  <2>2. /\ newRows \in Seq(Rows) /\ Len(newRows) = n - 1
        /\ \A w \in 1..(n - 1) : newRows[w] = IF w < u THEN shifted[w] ELSE shifted[w + 1]
    BY <1>6, <2>1, DeletedOne
  <2>3. \A w \in 1..(n - 1) : old(w) \in 1..n /\ old(w) # u
    BY <1>1
  <2>4. \A w \in 1..(n - 1) : newRows[w] = shifted[old(w)]
    <3> HIDE DEF newRows
    <3> QED BY <2>2
  <2> HIDE DEF newRows, old
  <2> QED BY <1>6, <2>2, <2>3, <2>4
<1>9. /\ newItems \in Seq(Items) /\ Len(newItems) = IF v = 0 THEN m ELSE m - 1
      /\ DOMAIN newItems = 1..Len(newItems) /\ Len(newItems) \in Nat
      /\ \A k \in 1..Len(newItems) : newItems[k] = item(was(k)) /\ was(k) \in 1..m /\ was(k) # v
  <2>1. CASE v = 0
    <3>1. {v} \intersect DOMAIN items = {}
      BY <1>7, <2>1
    <3>2. newItems = items
      BY <1>7, <3>1, DeletedNone
    <3> HIDE DEF newItems, v
    <3> QED BY <1>7, <2>1, <3>2
  <2>2. CASE v # 0
    <3>1. v \in DOMAIN items
      BY <1>2, <1>7, <2>2
    <3>2. /\ newItems \in Seq(Items) /\ Len(newItems) = m - 1
          /\ \A k \in 1..(m - 1) : newItems[k] = IF k < v THEN items[k] ELSE items[k + 1]
      <4> HIDE DEF v
      <4> QED BY <1>7, <3>1, DeletedOne
    <3>3. \A k \in 1..(m - 1) : was(k) \in 1..m /\ was(k) # v
      <4> HIDE DEF v
      <4> QED BY <1>1, <2>2
    <3>4. \A k \in 1..(m - 1) : newItems[k] = items[was(k)]
      <4> HIDE DEF v, newItems
      <4> QED BY <2>2, <3>2
    <3> HIDE DEF newItems, was, v
    <3> QED BY <1>7, <2>2, <3>2, <3>3, <3>4
  <2> QED BY <2>1, <2>2
<1> HIDE DEF newRows, newItems
<1>10. /\ x.rows = newRows /\ x.items = newItems /\ x.dirty = l.dirty
       /\ SameSettings(l, x) /\ x \in ListViews
  <2> DEFINE a == newRows
             b == newItems
  <2>1. a \in Seq(Rows) /\ b \in Seq(Items)
    BY <1>8, <1>9
  <2> HIDE DEF a, b
  <2>2. x = [l EXCEPT !.items = b, !.rows = a]
    BY DEF a, b
  <2>3. x.rows = a /\ x.items = b /\ x.dirty = l.dirty /\ SameSettings(l, x) /\ x \in ListViews
    BY <2>1, <2>2 DEF ListViews, SameSettings
  <2> QED BY <2>3 DEF a, b
<1> HIDE DEF x
<1>11. \A w \in 1..(n - 1) :
         /\ x.rows[w].data = l.rows[old(w)].data /\ x.rows[w].cells = l.rows[old(w)].cells
         /\ x.rows[w].viewIndex = l.rows[old(w)].viewIndex /\ x.rows[w].userIndex = w
  <2> SUFFICES ASSUME NEW w \in 1..(n - 1)
               PROVE  /\ x.rows[w].data = l.rows[old(w)].data /\ x.rows[w].cells = l.rows[old(w)].cells
                      /\ x.rows[w].viewIndex = l.rows[old(w)].viewIndex /\ x.rows[w].userIndex = w
    OBVIOUS
  <2>1. x.rows[w] = row(old(w)) /\ old(w) \in 1..n
    BY <1>8, <1>10
  <2>2. (IF old(w) > u THEN old(w) - 1 ELSE old(w)) = w
    BY <1>1
  <2> HIDE DEF old
  <2> QED BY <1>5, <2>1, <2>2
<1>12. \A k \in 1..Len(x.items) :
         /\ was(k) \in 1..m /\ was(k) # v
         /\ x.items[k].param \in 1..(n - 1) /\ old(x.items[k].param) = l.items[was(k)].param
         /\ x.items[k].selected = l.items[was(k)].selected
         /\ x.items[k].texts = l.items[was(k)].texts
  <2> SUFFICES ASSUME NEW k \in 1..Len(x.items)
               PROVE  /\ was(k) \in 1..m /\ was(k) # v
                      /\ x.items[k].param \in 1..(n - 1) /\ old(x.items[k].param) = l.items[was(k)].param
                      /\ x.items[k].selected = l.items[was(k)].selected
                      /\ x.items[k].texts = l.items[was(k)].texts
    OBVIOUS
  <2>1. x.items[k] = item(was(k)) /\ was(k) \in 1..m /\ was(k) # v
    BY <1>9, <1>10
  <2> PICK p \in 1..n : p = l.items[was(k)].param
    BY <1>1, <2>1
  <2>2. p # u
    BY <1>1, <2>1
  <2>3. x.items[k].param = IF p > u THEN p - 1 ELSE p
    BY <1>4, <2>1
  <2>4. x.items[k].param \in 1..(n - 1) /\ old(x.items[k].param) = p
    <3> DEFINE q == IF p > u THEN p - 1 ELSE p
    <3>1. q \in 1..(n - 1) /\ old(q) = p
      <4>1. Renumbers(n, u, p, q)
        BY <1>1, <2>2 DEF Renumbers
      <4> HIDE DEF q
      <4>2. q \in 1..(n - 1) /\ p = IF q < u THEN q ELSE q + 1
        BY <4>1, Renumbered
      <4> QED BY <4>2
    <3> HIDE DEF q, old
    <3> QED BY <2>3, <3>1 DEF q
  <2> HIDE DEF old, was
  <2> QED BY <1>4, <2>1, <2>4
<1>13. Held(x)
  <2>1. \A w \in DOMAIN x.rows : x.rows[w].userIndex = w
    BY <1>8, <1>10, <1>11
  <2>2. \A k \in DOMAIN x.items :
          x.items[k].param \in DOMAIN x.rows /\ x.items[k].texts = x.rows[x.items[k].param].cells
    <3> SUFFICES ASSUME NEW k \in 1..Len(x.items)
                 PROVE  x.items[k].param \in DOMAIN x.rows
                        /\ x.items[k].texts = x.rows[x.items[k].param].cells
      BY <1>9, <1>10
    <3> PICK w \in 1..(n - 1) : w = x.items[k].param
      BY <1>12
    <3>1. /\ was(k) \in 1..m /\ old(w) = l.items[was(k)].param
          /\ x.items[k].texts = l.items[was(k)].texts
      <4> HIDE DEF old, was
      <4> QED BY <1>12
    <3>2. x.rows[w].cells = l.rows[old(w)].cells
      <4> HIDE DEF old
      <4> QED BY <1>11
    <3>3. l.items[was(k)].texts = l.rows[old(w)].cells
      <4> HIDE DEF old, was
      <4> QED BY <1>1, <3>1
    <3>4. w \in DOMAIN x.rows
      BY <1>8, <1>10
    <3> HIDE DEF old, was
    <3> QED BY <3>1, <3>2, <3>3, <3>4
  <2>3. \A k, j \in DOMAIN x.items : x.items[k].param = x.items[j].param => k = j
    <3> SUFFICES ASSUME NEW k \in 1..Len(x.items), NEW j \in 1..Len(x.items),
                        x.items[k].param = x.items[j].param
                 PROVE  k = j
      BY <1>9, <1>10
    <3>1. l.items[was(k)].param = l.items[was(j)].param /\ was(k) \in 1..m /\ was(j) \in 1..m
      <4> HIDE DEF old, was
      <4> QED BY <1>12
    <3>2. was(k) = was(j)
      <4> HIDE DEF was
      <4> QED BY <1>1, <3>1 DEF Indexed, Held
    <3> QED BY <1>1, <1>9, <1>10, <3>2
  <2>4. \A w \in DOMAIN x.rows :
          x.rows[w].viewIndex = 0 <=> \A k \in DOMAIN x.items : x.items[k].param # w
    <3> SUFFICES ASSUME NEW w \in 1..(n - 1)
                 PROVE  x.rows[w].viewIndex = 0 <=> \A k \in 1..Len(x.items) : x.items[k].param # w
      BY <1>8, <1>9, <1>10
    <3>1. old(w) \in 1..n /\ old(w) # u /\ x.rows[w].viewIndex = l.rows[old(w)].viewIndex
      BY <1>8, <1>11
    <3>2. l.rows[old(w)].viewIndex = 0 <=> \A i \in 1..m : l.items[i].param # old(w)
      <4>1. \A z \in 1..n : l.rows[z].viewIndex = 0 <=> \A i \in 1..m : l.items[i].param # z
        BY <1>1 DEF Indexed, Held
      <4> QED BY <3>1, <4>1
    <3>3. ASSUME NEW k \in 1..Len(x.items), x.items[k].param = w
          PROVE  \E i \in 1..m : l.items[i].param = old(w)
      <4> HIDE DEF old, was
      <4> QED BY <1>12, <3>3
    <3>4. ASSUME NEW i \in 1..m, l.items[i].param = old(w)
          PROVE  \E k \in 1..Len(x.items) : x.items[k].param = w
      <4>1. i # v
        BY <1>2, <1>1, <3>1, <3>4
      <4>2. PICK k \in 1..Len(x.items) : was(k) = i
        <5>1. v = 0 \/ i < v => i \in 1..Len(x.items) /\ was(i) = i
          BY <1>1, <1>2, <1>9, <1>10
        <5>2. v # 0 /\ i > v => i - 1 \in 1..Len(x.items) /\ was(i - 1) = i
          BY <1>1, <1>2, <1>9, <1>10
        <5>3. v = 0 \/ i < v \/ (v # 0 /\ i > v)
          BY <1>1, <4>1
        <5> QED BY <5>1, <5>2, <5>3
      <4>3. x.items[k].param \in 1..(n - 1) /\ old(x.items[k].param) = old(w)
        <5> HIDE DEF old, was
        <5> QED BY <1>12, <3>4, <4>2
      <4>4. x.items[k].param = w
        BY <1>1, <4>3
      <4> QED BY <4>4
    <3> HIDE DEF old, was
    <3> QED BY <3>1, <3>2, <3>3, <3>4
  <2> QED BY <2>1, <2>2, <2>3, <2>4 DEF Held
<1> DEFINE r == removeRow(l, u)
<1>14. /\ r \in ListViews /\ Indexed(r) /\ r.items = x.items
       /\ SameRows(x, r) /\ SameSettings(x, r) /\ r.dirty = x.dirty \ {"reindex"}
  <2>1. r = reindexVisible(x)
    BY <1>3 DEF x
  <2> HIDE DEF r
  <2> QED BY <1>10, <1>13, <2>1, Reindexed
<1> HIDE DEF r
<1>15. /\ Len(r.rows) = n - 1
       /\ \A w \in 1..(n - 1) :
            r.rows[w].data = l.rows[old(w)].data /\ r.rows[w].cells = l.rows[old(w)].cells
  <2> HIDE DEF old
  <2> QED BY <1>8, <1>10, <1>11, <1>14 DEF SameRows
<1>19. \A w \in 1..(n - 1) : r.rows[w].viewIndex = 0 <=> l.rows[old(w)].viewIndex = 0
  <2>1. Held(r) /\ Held(x) /\ DOMAIN r.rows = 1..(n - 1) /\ DOMAIN x.rows = 1..(n - 1)
    BY <1>8, <1>10, <1>13, <1>14, <1>15, ListTyped DEF Indexed
  <2>2. \A w \in 1..(n - 1) : r.rows[w].viewIndex = 0 <=> x.rows[w].viewIndex = 0
    BY <1>14, <2>1 DEF Held
  <2> HIDE DEF old
  <2> QED BY <1>11, <2>2
<1>16. SameSettings(l, r) /\ r.dirty = l.dirty \ {"reindex"}
  BY <1>10, <1>14 DEF SameSettings
<1>17. Len(r.items) = IF v = 0 THEN m ELSE m - 1
  BY <1>9, <1>10, <1>14
<1>18. \A k \in 1..Len(r.items) :
          /\ was(k) \in DOMAIN l.items /\ was(k) # v
          /\ r.items[k].param \in 1..(n - 1)
          /\ old(r.items[k].param) = l.items[was(k)].param
          /\ r.items[k].selected = l.items[was(k)].selected
  <2> HIDE DEF old, was
  <2> QED BY <1>1, <1>12, <1>14
<1> QED BY <1>14, <1>15, <1>16, <1>17, <1>18, <1>19 DEF Removed, r

-----------------------------------------------------------------------------
(* Filtering *)

Fits(l, u) == Matches(l.filter, l.rows[u].cells)

HasItem(l, u) == \E i \in DOMAIN l.items : l.items[i].param = u

\* The filter leaves the view as it is.
Settled(l) == \A u \in DOMAIN l.rows : Fits(l, u) <=> l.rows[u].viewIndex # 0

\* A list that was filtered.
Sifted(l, r) ==
  /\ r \in ListViews /\ Held(r) /\ SameRows(l, r) /\ SameSettings(l, r)
  /\ "filter" \notin r.dirty /\ l.dirty \ {"filter"} \subseteq r.dirty
  /\ \A u \in DOMAIN l.rows : HasItem(r, u) <=> Fits(l, u)
  /\ \A i \in DOMAIN l.items, k \in DOMAIN r.items :
       l.items[i].param = r.items[k].param => r.items[k].selected = l.items[i].selected
  /\ "sort" \notin r.dirty => \A i, j \in DOMAIN r.items : i < j =>
       \E v, w \in DOMAIN l.items : /\ v < w /\ l.items[v].param = r.items[i].param
                                    /\ l.items[w].param = r.items[j].param
  /\ Settled(l) => r.items = l.items /\ r.rows = l.rows /\ r.dirty = l.dirty \ {"filter"}
  /\ ~Settled(l) => "sort" \in r.dirty \/ "reindex" \in r.dirty

\* The filter shows the rows that match and no others, and flags what that needs.
LEMMA ListSifted ==
  ASSUME NEW l \in ListViews, Indexed(l)
  PROVE  Sifted(l, filter(l))
<1> PICK n \in Nat : n = Len(l.rows)
  BY ListTyped
<1> PICK m \in Nat : m = Len(l.items)
  BY ListTyped
<1> DEFINE A == {u \in DOMAIN l.rows : /\ Matches(l.filter, l.rows[u].cells)
                                       /\ l.rows[u].viewIndex = 0}
           appear == Ascending(A)
           vanish == {u \in DOMAIN l.rows : /\ ~Matches(l.filter, l.rows[u].cells)
                                            /\ l.rows[u].viewIndex > 0}
           D == {l.rows[u].viewIndex : u \in vanish}
           one(k) == [Item(appear[k]) EXCEPT !.texts = l.rows[appear[k]].cells]
           new == [k \in DOMAIN appear |-> one(k)]
           view(u) == IF u \in vanish THEN 0
                      ELSE IF \E k \in DOMAIN appear : appear[k] = u
                      THEN Len(l.items) + (CHOOSE k \in DOMAIN appear : appear[k] = u)
                      ELSE l.rows[u].viewIndex
           row(u) == [l.rows[u] EXCEPT !.viewIndex = view(u)]
           rows == [u \in DOMAIN l.rows |-> row(u)]
           kept == DeleteAt(l.items, D)
           dirty == (l.dirty \cup (IF appear # <<>> THEN {"sort"} ELSE {})
                       \cup (IF vanish # {} THEN {"reindex"} ELSE {})) \ {"filter"}
           r == filter(l)
<1>1. /\ DOMAIN l.rows = 1..n /\ DOMAIN l.items = 1..m
      /\ \A u \in 1..n : /\ l.rows[u] \in Rows /\ l.rows[u].cells \in Cells
                         /\ l.rows[u].viewIndex \in Nat /\ l.rows[u].userIndex = u
      /\ \A i \in 1..m : /\ l.items[i] \in Items /\ l.items[i].param \in 1..n
                         /\ l.rows[l.items[i].param].viewIndex = i
                         /\ l.items[i].texts = l.rows[l.items[i].param].cells
      /\ \A u \in 1..n : l.rows[u].viewIndex # 0 =>
           l.rows[u].viewIndex \in 1..m /\ l.items[l.rows[u].viewIndex].param = u
  BY ListTyped, IndexedBack DEF Indexed, Held
<1>2. r = [l EXCEPT !.items = kept \o new, !.rows = rows, !.dirty = dirty]
  BY DEF filter
<1>3. PICK q \in Nat : /\ q = Len(appear) /\ DOMAIN appear = 1..q
                       /\ \A k \in 1..q : appear[k] \in A
                       /\ \A u \in A : \E k \in 1..q : appear[k] = u
                       /\ \A i, k \in 1..q : appear[i] = appear[k] => i = k
                       /\ appear # <<>> <=> q # 0
                       /\ q # 0 <=> A # {}
  <2>1. A \in SUBSET Nat /\ IsFiniteSet(A)
    <3>1. A \subseteq 1..n
      BY <1>1
    <3>2. IsFiniteSet(1..n)
      <4>1. 1 \in Int /\ n \in Int
        OBVIOUS
      <4> QED BY <4>1, FS_Interval
    <3>3. A \in SUBSET (1..n) /\ 1..n \subseteq Nat
      BY <3>1
    <3> HIDE DEF A
    <3> QED BY <3>2, <3>3, FS_Subset
  <2>2. Enumerates(appear, A)
    <3> HIDE DEF A
    <3> QED BY <2>1, AscendingEnumerates
  <2> HIDE DEF A, appear
  <2>3. appear \in Seq(A) /\ Len(appear) \in Nat /\ DOMAIN appear = 1..Len(appear)
    BY <2>2 DEF Enumerates
  <2>4. \A k \in 1..Len(appear) : appear[k] \in A /\ appear[k] \in Nat
    <3>1. \A k \in 1..Len(appear) : appear[k] \in A
      BY <2>3
    <3> QED BY <2>1, <3>1
  <2>5. \A i, k \in 1..Len(appear) : appear[i] = appear[k] => i = k
    <3> SUFFICES ASSUME NEW i \in 1..Len(appear), NEW k \in 1..Len(appear), appear[i] = appear[k], i # k
                 PROVE  FALSE
      OBVIOUS
    <3>1. i < k \/ k < i
      BY <2>3
    <3>2. \A a, b \in 1..Len(appear) : a < b => appear[a] < appear[b]
      BY <2>2 DEF Enumerates
    <3>3. appear[i] < appear[k] \/ appear[k] < appear[i]
      BY <3>1, <3>2
    <3> QED BY <2>4, <3>3
  <2>6. \A u \in A : \E k \in 1..Len(appear) : appear[k] = u
    BY <2>2 DEF Enumerates
  <2>7. appear # <<>> <=> Len(appear) # 0
    BY <2>3
  <2>8. Len(appear) # 0 <=> A # {}
    <3>1. ASSUME Len(appear) # 0 PROVE A # {}
      <4>1. 1 \in 1..Len(appear)
        BY <2>3, <3>1
      <4> QED BY <2>4, <4>1
    <3>2. ASSUME Len(appear) = 0 PROVE A = {}
      <4>1. 1..Len(appear) = {}
        BY <3>2
      <4> QED BY <2>6, <4>1
    <3> QED BY <3>1, <3>2
  <2> QED BY <2>3, <2>4, <2>5, <2>6, <2>7, <2>8
<1>4. \A u \in 1..n : u \in A <=> Fits(l, u) /\ l.rows[u].viewIndex = 0
  BY <1>1 DEF Fits
<1>5. \A u \in 1..n : u \in vanish <=> ~Fits(l, u) /\ l.rows[u].viewIndex # 0
  BY <1>1 DEF Fits
<1>6. A \subseteq 1..n /\ vanish \subseteq 1..n
  BY <1>1
<1>7. \A i \in 1..m : i \in D <=> ~Fits(l, l.items[i].param)
  <2> SUFFICES ASSUME NEW i \in 1..m PROVE i \in D <=> ~Fits(l, l.items[i].param)
    OBVIOUS
  <2>1. ASSUME i \in D PROVE ~Fits(l, l.items[i].param)
    <3>1. PICK u \in vanish : i = l.rows[u].viewIndex
      BY <2>1
    <3>2. u \in 1..n /\ i # 0 /\ ~Fits(l, u)
      <4> HIDE DEF vanish
      <4> QED BY <1>5, <1>6, <3>1
    <3>3. l.items[i].param = u
      BY <1>1, <3>1, <3>2
    <3> QED BY <3>2, <3>3
  <2>2. ASSUME ~Fits(l, l.items[i].param) PROVE i \in D
    <3> DEFINE u == l.items[i].param
    <3>1. u \in 1..n /\ l.rows[u].viewIndex = i /\ i # 0
      BY <1>1
    <3>2. u \in vanish
      <4> HIDE DEF vanish, u
      <4> QED BY <1>5, <2>2, <3>1 DEF u
    <3> QED BY <3>1, <3>2
  <2> QED BY <2>1, <2>2
<1> HIDE DEF A, vanish, D
<1>8. PICK f : Left(l.items, kept, D, f) /\ kept \in Seq(Items)
  BY ListTyped, Deleted
<1>9. PICK p \in Nat : /\ p = Len(kept) /\ p = Len(f)
                       /\ \A k \in 1..p : f[k] \in 1..m /\ kept[k] = l.items[f[k]]
                                          /\ Fits(l, l.items[f[k]].param)
                       /\ \A i \in 1..m : Fits(l, l.items[i].param) => \E k \in 1..p : f[k] = i
                       /\ \A i, k \in 1..p : i < k => f[i] < f[k]
  <2>1. Len(kept) \in Nat /\ Len(kept) = Len(f)
    BY <1>8 DEF Left
  <2>2. \A k \in 1..Len(f) : f[k] \in 1..m /\ kept[k] = l.items[f[k]] /\ f[k] \notin D
    BY <1>1, <1>8 DEF Left
  <2>3. \A i \in 1..m : i \notin D => \E k \in 1..Len(f) : f[k] = i
    BY <1>1, <1>8 DEF Left, Enumerates
  <2>4. \A i, k \in 1..Len(f) : i < k => f[i] < f[k]
    BY <1>8 DEF Left, Enumerates
  <2> HIDE DEF kept
  <2> QED BY <1>7, <2>1, <2>2, <2>3, <2>4
<1>10. \A k \in 1..q : /\ one(k) \in Items /\ one(k).param = appear[k]
                       /\ one(k).texts = l.rows[appear[k]].cells /\ one(k).selected = FALSE
  <2> SUFFICES ASSUME NEW k \in 1..q
               PROVE  /\ one(k) \in Items /\ one(k).param = appear[k]
                      /\ one(k).texts = l.rows[appear[k]].cells /\ one(k).selected = FALSE
    OBVIOUS
  <2> HIDE DEF appear
  <2>0. appear[k] \in 1..n
    BY <1>3, <1>6
  <2>1. appear[k] \in 1..n /\ appear[k] \in Nat /\ l.rows[appear[k]].cells \in Cells
    BY <1>1, <2>0
  <2> QED BY <2>1, EmptyCells DEF Item, Items
<1> HIDE DEF appear, kept
<1>11. new \in Seq(Items) /\ Len(new) = q /\ \A k \in 1..q : new[k] = one(k)
  <2>1. new \in [1..q -> Items] /\ \A k \in 1..q : new[k] = one(k)
    <3> HIDE DEF one
    <3> QED BY <1>3, <1>10
  <2> HIDE DEF new, one
  <2> QED BY <2>1, FunctionIsSeq
<1> HIDE DEF new, one
<1> DEFINE items == kept \o new
<1>12. /\ items \in Seq(Items) /\ Len(items) = p + q /\ DOMAIN items = 1..(p + q)
       /\ \A k \in 1..p : items[k] = l.items[f[k]]
       /\ \A k \in (p + 1)..(p + q) : k - p \in 1..q /\ items[k] = one(k - p)
  <2>1. kept \in Seq(Items) /\ new \in Seq(Items) /\ Len(kept) = p /\ Len(new) = q
    BY <1>8, <1>9, <1>11
  <2>2. items \in Seq(Items) /\ Len(items) = p + q /\ DOMAIN items = 1..(p + q)
    BY <2>1
  <2>3. \A k \in 1..p : items[k] = kept[k]
    BY <2>1
  <2>4. \A k \in (p + 1)..(p + q) : k - p \in 1..q /\ items[k] = new[k - p]
    BY <2>1
  <2> HIDE DEF items
  <2> QED BY <1>9, <1>11, <2>2, <2>3, <2>4
<1>13. \A u \in 1..n : view(u) \in Nat /\ (view(u) = 0 <=> ~Fits(l, u))
                       /\ (u \notin vanish /\ u \notin A => view(u) = l.rows[u].viewIndex)
  <2> SUFFICES ASSUME NEW u \in 1..n
               PROVE  /\ view(u) \in Nat /\ (view(u) = 0 <=> ~Fits(l, u))
                      /\ (u \notin vanish /\ u \notin A => view(u) = l.rows[u].viewIndex)
    OBVIOUS
  <2> DEFINE at == CHOOSE k \in DOMAIN appear : appear[k] = u
  <2>1. u \in A <=> \E k \in DOMAIN appear : appear[k] = u
    BY <1>3
  <2>2. u \in A => at \in 1..q
    BY <1>3, <2>1
  <2>3. CASE u \in vanish
    BY <1>5, <2>3
  <2>4. CASE u \in A
    <3>1. u \notin vanish /\ view(u) = m + at
      BY <1>4, <1>5, <2>1, <2>4
    <3> HIDE DEF view, at
    <3> QED BY <1>4, <2>2, <2>4, <3>1
  <2>5. CASE u \notin vanish /\ u \notin A
    <3>1. view(u) = l.rows[u].viewIndex
      BY <2>1, <2>5
    <3> HIDE DEF view
    <3> QED BY <1>1, <1>4, <1>5, <2>5, <3>1
  <2> QED BY <2>3, <2>4, <2>5
<1>14. \A u \in 1..n : /\ row(u) \in Rows /\ row(u).data = l.rows[u].data /\ row(u).cells = l.rows[u].cells
                       /\ row(u).userIndex = u /\ row(u).viewIndex = view(u)
  <2> HIDE DEF view
  <2> QED BY <1>1, <1>13 DEF Rows
<1> HIDE DEF view
<1>15. rows \in Seq(Rows) /\ Len(rows) = n /\ DOMAIN rows = 1..n /\ \A u \in 1..n : rows[u] = row(u)
  <2>1. rows \in [1..n -> Rows] /\ \A u \in 1..n : rows[u] = row(u)
    <3> HIDE DEF row
    <3> QED BY <1>1, <1>14
  <2> HIDE DEF rows, row
  <2> QED BY <2>1, FunctionIsSeq
<1> HIDE DEF rows, items
<1>16. dirty \subseteq Flags
  BY ListTyped DEF Flags
<1> HIDE DEF dirty, r
<1>17. /\ r.rows = rows /\ r.items = items /\ r.dirty = dirty
       /\ SameSettings(l, r) /\ r \in ListViews
  <2>1. r = [l EXCEPT !.items = items, !.rows = rows, !.dirty = dirty]
    BY <1>2 DEF items
  <2> QED BY <1>12, <1>15, <1>16, <2>1 DEF ListViews, SameSettings
<1>18. \A u \in 1..n : /\ r.rows[u].data = l.rows[u].data /\ r.rows[u].cells = l.rows[u].cells
                       /\ r.rows[u].userIndex = u /\ r.rows[u].viewIndex = view(u)
  <2> HIDE DEF row
  <2> QED BY <1>14, <1>15, <1>17
<1> HIDE DEF row
<1>19. \A k \in 1..p : r.items[k] = l.items[f[k]] /\ f[k] \in 1..m /\ Fits(l, r.items[k].param)
  BY <1>9, <1>12, <1>17
<1>20. \A k \in (p + 1)..(p + q) :
         /\ k - p \in 1..q /\ r.items[k].param = appear[k - p] /\ r.items[k].selected = FALSE
         /\ r.items[k].texts = l.rows[appear[k - p]].cells
         /\ r.items[k].param \in 1..n /\ r.items[k].param \in A
  <2> SUFFICES ASSUME NEW k \in (p + 1)..(p + q)
               PROVE  /\ k - p \in 1..q /\ r.items[k].param = appear[k - p]
                      /\ r.items[k].selected = FALSE
                      /\ r.items[k].texts = l.rows[appear[k - p]].cells
                      /\ r.items[k].param \in 1..n /\ r.items[k].param \in A
    OBVIOUS
  <2>1. k - p \in 1..q /\ r.items[k] = one(k - p)
    BY <1>12, <1>17
  <2>2. appear[k - p] \in A /\ appear[k - p] \in 1..n
    BY <1>3, <1>6, <2>1
  <2> QED BY <1>10, <2>1, <2>2
<1>21. DOMAIN r.items = 1..(p + q) /\ DOMAIN r.rows = 1..n /\ \A k \in 1..(p + q) : k \in 1..p \/ k \in (p + 1)..(p + q)
  BY <1>12, <1>15, <1>17
<1>22. \A u \in 1..n : HasItem(r, u) <=> Fits(l, u)
  <2> SUFFICES ASSUME NEW u \in 1..n PROVE HasItem(r, u) <=> Fits(l, u)
    OBVIOUS
  <2>1. ASSUME NEW k \in 1..(p + q), r.items[k].param = u PROVE Fits(l, u)
    BY <1>4, <1>19, <1>20, <1>21, <2>1
  <2>2. ASSUME Fits(l, u) PROVE \E k \in 1..(p + q) : r.items[k].param = u
    <3>1. CASE l.rows[u].viewIndex = 0
      <4>1. PICK k \in 1..q : appear[k] = u
        BY <1>3, <1>4, <2>2, <3>1
      <4>2. k + p \in (p + 1)..(p + q) /\ k + p - p = k /\ k + p \in 1..(p + q)
        OBVIOUS
      <4>3. r.items[k + p].param = appear[k + p - p]
        BY <1>20, <4>2
      <4> QED BY <4>1, <4>2, <4>3
    <3>2. CASE l.rows[u].viewIndex # 0
      <4>1. l.rows[u].viewIndex \in 1..m /\ l.items[l.rows[u].viewIndex].param = u
        BY <1>1, <3>2
      <4>2. PICK k \in 1..p : f[k] = l.rows[u].viewIndex
        BY <1>9, <2>2, <4>1
      <4>3. k \in 1..(p + q)
        OBVIOUS
      <4> QED BY <1>19, <4>1, <4>2, <4>3
    <3> QED BY <3>1, <3>2
  <2> QED BY <1>21, <2>1, <2>2 DEF HasItem
<1>23. ASSUME NEW i \in 1..(p + q), NEW k \in 1..(p + q), r.items[i].param = r.items[k].param, i # k PROVE FALSE
  <2>1. CASE i \in 1..p /\ k \in 1..p
    <3>1. l.items[f[i]].param = l.items[f[k]].param /\ f[i] \in 1..m /\ f[k] \in 1..m
      BY <1>19, <1>23, <2>1
    <3>2. f[i] = f[k]
      BY <1>1, <3>1 DEF Indexed, Held
    <3>3. i < k \/ k < i
      BY <1>23
    <3>4. f[i] < f[k] \/ f[k] < f[i]
      BY <1>9, <2>1, <3>3
    <3> QED BY <3>1, <3>2, <3>4
  <2>2. CASE i \in (p + 1)..(p + q) /\ k \in (p + 1)..(p + q)
    <3>1. appear[i - p] = appear[k - p] /\ i - p \in 1..q /\ k - p \in 1..q
      BY <1>20, <1>23, <2>2
    <3>2. i - p = k - p
      BY <1>3, <3>1
    <3> QED BY <1>23, <3>2
  <2>3. ASSUME NEW a \in 1..p, NEW b \in (p + 1)..(p + q), r.items[a].param = r.items[b].param PROVE FALSE
    <3>1. r.items[b].param \in 1..n /\ l.rows[r.items[b].param].viewIndex = 0
      BY <1>4, <1>20
    <3>2. l.rows[l.items[f[a]].param].viewIndex = f[a] /\ f[a] \in 1..m /\ r.items[a] = l.items[f[a]]
      BY <1>1, <1>19
    <3>3. l.rows[r.items[b].param].viewIndex = f[a]
      BY <2>3, <3>2
    <3>4. f[a] = 0
      BY <3>1, <3>3
    <3>5. f[a] # 0
      BY <3>2
    <3> QED BY <3>4, <3>5
  <2> QED BY <1>21, <1>23, <2>1, <2>2, <2>3
<1>24. Held(r)
  <2>1. \A k \in 1..(p + q) : r.items[k].param \in 1..n /\ r.items[k].texts = r.rows[r.items[k].param].cells
    <3> SUFFICES ASSUME NEW k \in 1..(p + q)
                 PROVE  r.items[k].param \in 1..n /\ r.items[k].texts = r.rows[r.items[k].param].cells
      OBVIOUS
    <3>1. CASE k \in 1..p
      <4>1. r.items[k] = l.items[f[k]] /\ f[k] \in 1..m
        BY <1>19, <3>1
      <4>2. l.items[f[k]].param \in 1..n /\ l.items[f[k]].texts = l.rows[l.items[f[k]].param].cells
        BY <1>1, <4>1
      <4> QED BY <1>18, <4>1, <4>2
    <3>2. CASE k \in (p + 1)..(p + q)
      <4>1. /\ r.items[k].param \in 1..n /\ r.items[k].param = appear[k - p]
            /\ r.items[k].texts = l.rows[appear[k - p]].cells
        BY <1>20, <3>2
      <4>2. r.rows[r.items[k].param].cells = l.rows[r.items[k].param].cells
        BY <1>18, <4>1
      <4> QED BY <4>1, <4>2
    <3> QED BY <1>21, <3>1, <3>2
  <2>2. \A u \in 1..n : r.rows[u].viewIndex = 0 <=> ~HasItem(r, u)
    BY <1>13, <1>18, <1>22
  <2>3. \A u \in 1..n : ~HasItem(r, u) <=> \A k \in 1..(p + q) : r.items[k].param # u
    BY <1>21 DEF HasItem
  <2> QED BY <1>18, <1>21, <1>23, <2>1, <2>2, <2>3 DEF Held
<1>25. "filter" \notin r.dirty /\ l.dirty \ {"filter"} \subseteq r.dirty
  BY <1>17 DEF dirty
<1>26. ASSUME NEW i \in 1..m, NEW k \in 1..(p + q), l.items[i].param = r.items[k].param
       PROVE  r.items[k].selected = l.items[i].selected
  <2>1. CASE k \in 1..p
    <3>1. r.items[k] = l.items[f[k]] /\ f[k] \in 1..m
      BY <1>19, <2>1
    <3>2. l.items[f[k]].param = l.items[i].param
      BY <1>26, <3>1
    <3>3. \A a, b \in 1..m : l.items[a].param = l.items[b].param => a = b
      BY <1>1 DEF Indexed, Held
    <3>4. f[k] = i
      BY <3>1, <3>2, <3>3
    <3> QED BY <3>1, <3>4
  <2>2. CASE k \in (p + 1)..(p + q)
    <3>1. l.rows[r.items[k].param].viewIndex = 0
      BY <1>4, <1>20, <2>2
    <3>2. l.rows[l.items[i].param].viewIndex = i /\ i # 0
      BY <1>1
    <3> QED BY <1>26, <3>1, <3>2
  <2> QED BY <1>21, <2>1, <2>2
<1>27. ASSUME "sort" \notin r.dirty, NEW i \in 1..(p + q), NEW k \in 1..(p + q), i < k
       PROVE  \E v, w \in 1..m : /\ v < w /\ l.items[v].param = r.items[i].param
                                 /\ l.items[w].param = r.items[k].param
  <2>1. q = 0
    BY <1>3, <1>17, <1>27 DEF dirty
  <2>2. i \in 1..p /\ k \in 1..p
    BY <2>1
  <2>3. f[i] \in 1..m /\ f[k] \in 1..m /\ f[i] < f[k] /\ r.items[i] = l.items[f[i]] /\ r.items[k] = l.items[f[k]]
    BY <1>9, <1>19, <1>27, <2>2
  <2> QED BY <2>3
<1>28. ASSUME Settled(l) PROVE r.items = l.items /\ r.rows = l.rows /\ r.dirty = l.dirty \ {"filter"}
  <2>1. A = {} /\ vanish = {}
    BY <1>1, <1>4, <1>5, <1>6, <1>28 DEF Settled
  <2>2. q = 0 /\ appear = <<>>
    BY <1>3, <2>1
  <2>3. D = {}
    BY <2>1 DEF D
  <2>4. kept = l.items
    BY <2>3, ListTyped, DeletedNone DEF kept
  <2>5. r.items = l.items
    <3>1. new = <<>>
      BY <1>11, <2>2
    <3>2. l.items \in Seq(Items)
      BY ListTyped
    <3> QED BY <1>17, <2>4, <3>1, <3>2 DEF items
  <2>6. \A u \in 1..n : row(u) = l.rows[u]
    <3> SUFFICES ASSUME NEW u \in 1..n PROVE row(u) = l.rows[u]
      OBVIOUS
    <3>1. view(u) = l.rows[u].viewIndex /\ l.rows[u] \in Rows
      BY <1>1, <1>13, <2>1
    <3> QED BY <3>1 DEF row, Rows
  <2>7. r.rows = l.rows
    <3>1. rows = [u \in 1..n |-> l.rows[u]]
      BY <1>1, <2>6 DEF rows
    <3>2. l.rows = [u \in 1..n |-> l.rows[u]]
      BY <1>1, ListTyped
    <3> QED BY <1>17, <3>1, <3>2
  <2>8. dirty = l.dirty \ {"filter"}
    BY <2>1, <2>2 DEF dirty
  <2> QED BY <1>17, <2>5, <2>7, <2>8
<1>29. ASSUME ~Settled(l) PROVE "sort" \in r.dirty \/ "reindex" \in r.dirty
  <2>1. PICK u \in 1..n : ~(Fits(l, u) <=> l.rows[u].viewIndex # 0)
    BY <1>1, <1>29 DEF Settled
  <2>2. A # {} \/ vanish # {}
    BY <1>4, <1>5, <2>1
  <2> QED BY <1>3, <1>17, <2>2 DEF dirty
<1>30. SameRows(l, r)
  BY <1>1, <1>15, <1>17, <1>18 DEF SameRows
<1>31. Sifted(l, r)
  <2>1. \A i \in DOMAIN l.items, k \in DOMAIN r.items :
       l.items[i].param = r.items[k].param => r.items[k].selected = l.items[i].selected
    BY <1>1, <1>21, <1>26
  <2>2. "sort" \notin r.dirty => \A i, j \in DOMAIN r.items : i < j =>
          \E v, w \in DOMAIN l.items : /\ v < w /\ l.items[v].param = r.items[i].param
                                       /\ l.items[w].param = r.items[j].param
    <3> SUFFICES ASSUME "sort" \notin r.dirty, NEW i \in DOMAIN r.items, NEW j \in DOMAIN r.items, i < j
                 PROVE  \E v, w \in DOMAIN l.items : /\ v < w /\ l.items[v].param = r.items[i].param
                                                     /\ l.items[w].param = r.items[j].param
      OBVIOUS
    <3>1. i \in 1..(p + q) /\ j \in 1..(p + q)
      BY <1>21
    <3>2. PICK v \in 1..m, w \in 1..m : /\ v < w /\ l.items[v].param = r.items[i].param
                                         /\ l.items[w].param = r.items[j].param
      BY <1>27, <3>1
    <3>3. v \in DOMAIN l.items /\ w \in DOMAIN l.items
      BY <1>1
    <3> QED BY <3>2, <3>3
  <2>3. \A u \in DOMAIN l.rows : HasItem(r, u) <=> Fits(l, u)
    BY <1>1, <1>22
  <2> QED BY <1>17, <1>24, <1>25, <1>28, <1>29, <1>30, <2>1, <2>2, <2>3 DEF Sifted
<1> QED BY <1>31 DEF r

-----------------------------------------------------------------------------
(* Sorting *)

\* A row may be shown before another, whatever a comparison sort does with ties.
Below(l, u, v) ==
  LET c == l.sort.column
      x == l.rows[u].cells[c]
      y == l.rows[v].cells[c]
  IN IF l.sort = NoSort THEN u < v
     ELSE IF x = y THEN u < v \/ (c \in DataColumns /\ x = NoData)
     ELSE IF l.sort.order = "asc" THEN x < y ELSE y < x

Sorted(l) ==
  \A i, j \in DOMAIN l.items : i < j => Below(l, l.items[i].param, l.items[j].param)

\* Where the column of the sort is.
LEMMA SortKey ==
  ASSUME NEW l \in ListViews, l.sort # NoSort
  PROVE  /\ l.sort.column \in Columns /\ l.sort.order \in {"asc", "desc"}
         /\ \A u \in DOMAIN l.rows : l.rows[u].cells[l.sort.column] \in Nat
<1>1. l.sort \in [column : Columns, order : {"asc", "desc"}]
  BY ListTyped DEF Sorts
<1>2. \A u \in DOMAIN l.rows : l.rows[u].cells \in [Columns -> Nat]
  BY ListTyped DEF Cells
<1> QED BY <1>1, <1>2

\* A rank of the rows without data is one of their total orders, and each of two can
\* come first.
LEMMA TiesRank ==
  ASSUME NEW l \in ListViews
  PROVE  /\ \A tie \in Ties(l) : /\ \A u \in WithoutData(l) : tie[u] \in Nat
                                 /\ \A u, v \in WithoutData(l) : tie[u] = tie[v] => u = v
         /\ \E tie \in Ties(l) : TRUE
         /\ \A u, v \in WithoutData(l) : u # v => \E tie \in Ties(l) : tie[u] < tie[v]
<1> DEFINE S == WithoutData(l)
           N == Cardinality(S)
           Ranks == {f \in [S -> 1..N] : \A u, v \in S : f[u] = f[v] => u = v}
<1>1. IsFiniteSet(S) /\ N \in Nat /\ S \subseteq DOMAIN l.rows
  <2>1. S \subseteq DOMAIN l.rows
    BY DEF WithoutData
  <2>2. IsFiniteSet(DOMAIN l.rows)
    <3>1. 1 \in Int /\ Len(l.rows) \in Int /\ DOMAIN l.rows = 1..Len(l.rows)
      BY ListTyped
    <3> QED BY <3>1, FS_Interval
  <2> QED BY <2>1, <2>2, FS_Subset, FS_CardinalityType
<1>2. PICK f \in [S -> 1..N] : \A u, v \in S : f[u] = f[v] => u = v
  <2>1. \E g : g \in Bijection(1..N, S)
    <3>1. \E n \in Nat : ExistsBijection(1..n, S)
      <4> HIDE DEF S
      <4> QED BY <1>1, FS_NatBijection
    <3>2. PICK n \in Nat : ExistsBijection(1..n, S)
      BY <3>1
    <3>3. N = n
      <4> HIDE DEF S
      <4> QED BY <3>2, FS_CountingElements
    <3> QED BY <3>2, <3>3 DEF ExistsBijection
  <2>2. PICK g : g \in Bijection(1..N, S)
    BY <2>1
  <2> DEFINE h == [u \in S |-> CHOOSE k \in 1..N : g[k] = u]
  <2>3. \A u \in S : h[u] \in 1..N /\ g[h[u]] = u
    BY <2>2 DEF Bijection, Surjection
  <2>4. h \in [S -> 1..N] /\ \A u, v \in S : h[u] = h[v] => u = v
    <3>1. h = [u \in S |-> h[u]]
      OBVIOUS
    <3> HIDE DEF h
    <3> QED BY <2>3, <3>1
  <2> QED BY <2>4
<1>3. CASE N < 2
  <2>1. \A u, v \in S : u = v
    <3> SUFFICES ASSUME NEW u \in S, NEW v \in S, u # v PROVE FALSE
      OBVIOUS
    <3>1. f[u] # f[v] /\ f[u] \in 1..N /\ f[v] \in 1..N
      BY <1>2
    <3> QED BY <1>1, <1>3, <3>1
  <2>2. Ties(l) = {[u \in S |-> 1]}
    BY <1>3 DEF Ties
  <2> QED BY <2>1, <2>2
<1>4. CASE ~(N < 2)
  <2>1. Ties(l) = Ranks
    BY <1>4 DEF Ties
  <2>2. \A tie \in Ranks : \A u \in S : tie[u] \in Nat
    OBVIOUS
  <2>3. f \in Ranks
    BY <1>2
  <2>4. ASSUME NEW u \in S, NEW v \in S, u # v PROVE \E tie \in Ranks : tie[u] < tie[v]
    <3>1. f[u] \in 1..N /\ f[v] \in 1..N /\ f[u] # f[v]
      BY <1>2, <2>4
    <3>2. CASE f[u] < f[v]
      BY <2>3, <3>2
    <3>3. CASE f[v] < f[u]
      <4> DEFINE h == [w \in S |-> IF w = u THEN f[v] ELSE IF w = v THEN f[u] ELSE f[w]]
      <4>1. h \in [S -> 1..N]
        BY <1>2, <3>1
      <4>2. \A a, b \in S : h[a] = h[b] => a = b
        BY <1>2, <2>4
      <4>3. h[u] = f[v] /\ h[v] = f[u]
        BY <2>4
      <4>4. h \in Ranks
        BY <4>1, <4>2
      <4> HIDE DEF h
      <4> QED BY <3>3, <4>3, <4>4
    <3> QED BY <1>1, <3>1, <3>2, <3>3
  <2> QED BY <2>1, <2>2, <2>3, <2>4
<1> QED BY <1>3, <1>4

\* The comparison is of the numbers, except of two that are no data.
LEMMA Compared ==
  ASSUME NEW l \in ListViews, NEW tie, NEW u \in DOMAIN l.rows, NEW v \in DOMAIN l.rows
  PROVE  Precedes(l, tie, u, v) <=>
           LET c == l.sort.column
               x == l.rows[u].cells[c]
               y == l.rows[v].cells[c]
           IN IF l.sort = NoSort THEN u < v
              ELSE IF x = y THEN IF c \in DataColumns /\ x = NoData THEN tie[u] < tie[v] ELSE u < v
              ELSE IF l.sort.order = "asc" THEN x < y ELSE y < x
<1>1. CASE l.sort = NoSort
  BY <1>1 DEF Precedes
<1>2. CASE l.sort # NoSort
  <2> DEFINE c == l.sort.column
             x == l.rows[u].cells[c]
             y == l.rows[v].cells[c]
             o == l.sort.order
  <2>1. x \in Nat /\ y \in Nat /\ o \in {"asc", "desc"}
    BY <1>2, SortKey
  <2>2. {u, v} \subseteq WithoutData(l) <=> c \in DataColumns /\ x = NoData /\ y = NoData
    BY DEF WithoutData
  <2>3. Precedes(l, tie, u, v) =
          (IF {u, v} \subseteq WithoutData(l) THEN tie[u] < tie[v]
           ELSE IF compare(c, x, y) = 0 THEN u < v ELSE (compare(c, x, y) < 0) = (o = "asc"))
    BY <1>2 DEF Precedes
  <2> HIDE DEF c, x, y, o
  <2>4. ~(c \in DataColumns /\ x = NoData /\ y = NoData) =>
          compare(c, x, y) = IF x < y THEN -1 ELSE IF x > y THEN 1 ELSE 0
    BY <2>1 DEF compare, NoData
  <2>5. CASE c \in DataColumns /\ x = NoData /\ y = NoData
    BY <1>2, <2>2, <2>3, <2>5 DEF c, x, y, o
  <2>6. CASE ~(c \in DataColumns /\ x = NoData /\ y = NoData)
    <3>1. CASE x = y
      <4>1. compare(c, x, y) = 0
        BY <2>1, <2>4, <2>6, <3>1
      <4>2. Precedes(l, tie, u, v) = (u < v)
        BY <2>2, <2>3, <2>6, <4>1
      <4> QED BY <1>2, <2>6, <3>1, <4>2 DEF c, x, y, o
    <3>2. CASE x < y
      <4>1. compare(c, x, y) = -1
        BY <2>4, <2>6, <3>2
      <4>2. Precedes(l, tie, u, v) = (o = "asc")
        BY <2>2, <2>3, <2>6, <4>1
      <4>3. x # y /\ ~(y < x)
        BY <2>1, <3>2
      <4> QED BY <1>2, <3>2, <4>2, <4>3 DEF c, x, y, o
    <3>3. CASE y < x
      <4>1. compare(c, x, y) = 1
        BY <2>1, <2>4, <2>6, <3>3
      <4>2. Precedes(l, tie, u, v) = ~(o = "asc")
        BY <2>2, <2>3, <2>6, <4>1
      <4>3. x # y /\ ~(x < y)
        BY <2>1, <3>3
      <4> QED BY <1>2, <3>3, <4>2, <4>3 DEF c, x, y, o
    <3> QED BY <2>1, <3>1, <3>2, <3>3
  <2> QED BY <2>5, <2>6
<1> QED BY <1>1, <1>2

\* Rows that are in order for a rank may be so, and the other way around.
LEMMA PrecedesBelow ==
  ASSUME NEW l \in ListViews, NEW u \in DOMAIN l.rows, NEW v \in DOMAIN l.rows, u # v
  PROVE  (\E tie \in Ties(l) : Precedes(l, tie, u, v)) <=> Below(l, u, v)
<1> DEFINE c == l.sort.column
           x == l.rows[u].cells[c]
           y == l.rows[v].cells[c]
<1>1. CASE l.sort # NoSort /\ x = y /\ c \in DataColumns /\ x = NoData
  <2>1. u \in WithoutData(l) /\ v \in WithoutData(l)
    BY <1>1 DEF WithoutData
  <2>2. PICK tie \in Ties(l) : tie[u] < tie[v]
    BY <2>1, TiesRank
  <2>3. Precedes(l, tie, u, v)
    BY <1>1, <2>2, Compared
  <2> QED BY <1>1, <2>3 DEF Below
<1>2. CASE ~(l.sort # NoSort /\ x = y /\ c \in DataColumns /\ x = NoData)
  <2>1. \A tie \in Ties(l) : Precedes(l, tie, u, v) <=> Below(l, u, v)
    <3> SUFFICES ASSUME NEW tie \in Ties(l) PROVE Precedes(l, tie, u, v) <=> Below(l, u, v)
      OBVIOUS
    <3> QED BY <1>2, Compared DEF Below
  <2> QED BY <2>1, TiesRank
<1> QED BY <1>1, <1>2

\* The order of the rows is strict and total.
LEMMA RowsOrdered ==
  ASSUME NEW l \in ListViews, NEW tie \in Ties(l)
  PROVE  /\ \A u \in DOMAIN l.rows : ~Precedes(l, tie, u, u)
         /\ \A u, v \in DOMAIN l.rows : u = v \/ Precedes(l, tie, u, v) \/ Precedes(l, tie, v, u)
         /\ \A u, v, w \in DOMAIN l.rows :
              Precedes(l, tie, u, v) /\ Precedes(l, tie, v, w) => Precedes(l, tie, u, w)
<1> DEFINE P(u, v) == Precedes(l, tie, u, v)
<1>1. \A u \in DOMAIN l.rows : u \in Nat
  BY ListTyped
<1>2. CASE l.sort = NoSort
  <2>1. \A u, v \in DOMAIN l.rows : P(u, v) <=> u < v
    BY <1>2 DEF Precedes
  <2> HIDE DEF P
  <2>2. /\ \A u \in DOMAIN l.rows : ~P(u, u)
        /\ \A u, v \in DOMAIN l.rows : u = v \/ P(u, v) \/ P(v, u)
        /\ \A u, v, w \in DOMAIN l.rows : P(u, v) /\ P(v, w) => P(u, w)
    BY <1>1, <2>1
  <2> QED BY <2>2 DEF P
<1>3. CASE l.sort # NoSort
  <2> DEFINE k(u) == l.rows[u].cells[l.sort.column]
             nothing(u) == l.sort.column \in DataColumns /\ k(u) = NoData
  <2>1. \A u \in DOMAIN l.rows : k(u) \in Nat
    BY <1>3, SortKey
  <2>2. \A u, v \in DOMAIN l.rows :
          P(u, v) <=> IF k(u) = k(v) THEN IF nothing(u) THEN tie[u] < tie[v] ELSE u < v
                      ELSE IF l.sort.order = "asc" THEN k(u) < k(v) ELSE k(v) < k(u)
    <3> SUFFICES ASSUME NEW u \in DOMAIN l.rows, NEW v \in DOMAIN l.rows
                 PROVE  P(u, v) <=> IF k(u) = k(v) THEN IF nothing(u) THEN tie[u] < tie[v] ELSE u < v
                                    ELSE IF l.sort.order = "asc" THEN k(u) < k(v) ELSE k(v) < k(u)
      OBVIOUS
    <3> QED BY <1>3, Compared
  <2>3. \A u, v \in DOMAIN l.rows : k(u) = k(v) => (nothing(u) <=> nothing(v))
    OBVIOUS
  <2>4. /\ \A u \in DOMAIN l.rows : nothing(u) => tie[u] \in Nat
        /\ \A u, v \in DOMAIN l.rows : nothing(u) /\ nothing(v) /\ tie[u] = tie[v] => u = v
    <3>1. \A u \in DOMAIN l.rows : nothing(u) => u \in WithoutData(l)
      BY DEF WithoutData
    <3> HIDE DEF nothing
    <3> QED BY <3>1, TiesRank
  <2> HIDE DEF P, k, nothing
  <2>5. \A u \in DOMAIN l.rows : ~P(u, u)
    BY <1>1, <2>2, <2>4
  <2>6. \A u, v \in DOMAIN l.rows : u = v \/ P(u, v) \/ P(v, u)
    BY <1>1, <2>1, <2>2, <2>3, <2>4
  <2>7. \A u, v, w \in DOMAIN l.rows : P(u, v) /\ P(v, w) => P(u, w)
    <3> SUFFICES ASSUME NEW u \in DOMAIN l.rows, NEW v \in DOMAIN l.rows, NEW w \in DOMAIN l.rows,
                        P(u, v), P(v, w)
                 PROVE  P(u, w)
      OBVIOUS
    <3>1. k(u) \in Nat /\ k(v) \in Nat /\ k(w) \in Nat /\ u \in Nat /\ v \in Nat /\ w \in Nat
      BY <1>1, <2>1
    <3>2. CASE k(u) = k(v) /\ k(v) = k(w)
      BY <2>2, <2>3, <2>4, <3>1, <3>2
    <3>3. CASE ~(k(u) = k(v) /\ k(v) = k(w))
      BY <2>2, <3>1, <3>3
    <3> QED BY <3>2, <3>3
  <2> QED BY <2>5, <2>6, <2>7 DEF P
<1> QED BY <1>2, <1>3

\* A list that was sorted.
Arranged(l, r) ==
  /\ r \in ListViews /\ Held(r) /\ r.rows = l.rows /\ SameSettings(l, r)
  /\ r.dirty = (l.dirty \cup {"reindex"}) \ {"sort"}
  /\ \A u \in DOMAIN l.rows : HasItem(r, u) <=> HasItem(l, u)
  /\ \A i \in DOMAIN l.items, k \in DOMAIN r.items :
       l.items[i].param = r.items[k].param => r.items[k].selected = l.items[i].selected
  /\ Sorted(r)

\* Sorting puts the items in order, and only moves them.
LEMMA ListArranged ==
  ASSUME NEW l \in ListViews, Held(l), NEW tie \in Ties(l)
  PROVE  Arranged(l, sort(l, tie))
<1> PICK m \in Nat : m = Len(l.items)
  BY ListTyped
<1> DEFINE S == DOMAIN l.items
           P(i, j) == Precedes(l, tie, l.items[i].param, l.items[j].param)
           before == [j \in DOMAIN l.items |-> {i \in DOMAIN l.items : P(i, j)}]
           order == InOrder(S, before)
           items == [k \in S |-> l.items[order[k]]]
           dirty == (l.dirty \cup {"reindex"}) \ {"sort"}
           r == sort(l, tie)
<1>1. /\ S = 1..m /\ \A i \in S : l.items[i] \in Items /\ l.items[i].param \in DOMAIN l.rows
      /\ \A i, j \in S : l.items[i].param = l.items[j].param => i = j
  BY ListTyped DEF Held
<1>2. r = [l EXCEPT !.items = items, !.dirty = dirty]
  BY DEF sort
<1>3. Orders(before, S)
  <2>1. \A i, j \in S : i \in before[j] <=> P(i, j)
    OBVIOUS
  <2>2. \A j \in S : before[j] \subseteq S
    OBVIOUS
  <2> HIDE DEF before
  <2>3. \A i, j, k \in S : P(i, j) /\ P(j, k) => P(i, k)
    BY <1>1, RowsOrdered
  <2>4. \A i \in S : ~P(i, i)
    BY <1>1, RowsOrdered
  <2>5. \A i, j \in S : i = j \/ P(i, j) \/ P(j, i)
    BY <1>1, RowsOrdered
  <2> HIDE DEF P, S
  <2>6. \A i, j \in S : i \in before[j] => before[i] \subseteq before[j]
    BY <2>1, <2>2, <2>3
  <2> QED BY <2>1, <2>2, <2>4, <2>5, <2>6 DEF Orders
<1>4. Lists(order, S, before) /\ Len(order) = m
  <2>1. IsFiniteSet(S) /\ Cardinality(S) = m
    <3>1. 1 \in Int /\ m \in Int
      OBVIOUS
    <3>2. IsFiniteSet(1..m) /\ Cardinality(1..m) = IF 1 > m THEN 0 ELSE m - 1 + 1
      BY <3>1, FS_Interval
    <3> QED BY <1>1, <3>2
  <2> HIDE DEF S, before
  <2> QED BY <1>3, <2>1, InOrderLists
<1>5. \A j \in S : before[j] \subseteq {i \in S : P(i, j)}
  OBVIOUS
<1> HIDE DEF before, order
<1>6. /\ \A k \in 1..m : order[k] \in S
      /\ \A i \in S : \E k \in 1..m : order[k] = i
      /\ \A i, j \in 1..m : i < j => P(order[i], order[j])
      /\ \A i, j \in 1..m : order[i] = order[j] => i = j
  <2>1. \A k \in 1..m : order[k] \in S
    <3> HIDE DEF S
    <3> QED BY <1>4 DEF Lists
  <2>2. \A i, j \in 1..m : i < j => order[i] \in before[order[j]] /\ order[i] # order[j]
    BY <1>4 DEF Lists
  <2>3. \A i, j \in 1..m : i < j => P(order[i], order[j])
    <3> HIDE DEF P, S
    <3> QED BY <1>5, <2>1, <2>2
  <2>4. \A i, j \in 1..m : order[i] = order[j] => i = j
    <3> SUFFICES ASSUME NEW i \in 1..m, NEW j \in 1..m, order[i] = order[j], i # j PROVE FALSE
      OBVIOUS
    <3>1. i < j \/ j < i
      OBVIOUS
    <3> QED BY <2>2, <3>1
  <2>5. \A i \in S : \E k \in 1..m : order[k] = i
    BY <1>4 DEF Lists
  <2> HIDE DEF P
  <2> QED BY <2>1, <2>3, <2>4, <2>5
<1>7. items \in Seq(Items) /\ Len(items) = m /\ DOMAIN items = 1..m
      /\ \A k \in 1..m : items[k] = l.items[order[k]]
  <2>1. items \in [1..m -> Items] /\ \A k \in 1..m : items[k] = l.items[order[k]]
    BY <1>1, <1>6
  <2> HIDE DEF items
  <2> QED BY <2>1, FunctionIsSeq
<1>8. dirty \subseteq Flags
  BY ListTyped DEF Flags
<1> HIDE DEF items, dirty, r, P
<1>9. /\ r.rows = l.rows /\ r.items = items /\ r.dirty = dirty
      /\ SameSettings(l, r) /\ r \in ListViews
  BY <1>2, <1>7, <1>8 DEF ListViews, SameSettings
<1>11. \A k \in 1..m : r.items[k] = l.items[order[k]] /\ order[k] \in S
  BY <1>6, <1>7, <1>9
<1>10. \A u \in DOMAIN l.rows : HasItem(r, u) <=> HasItem(l, u)
  <2> SUFFICES ASSUME NEW u \in DOMAIN l.rows PROVE HasItem(r, u) <=> HasItem(l, u)
    OBVIOUS
  <2>1. ASSUME NEW k \in 1..m, r.items[k].param = u PROVE \E i \in S : l.items[i].param = u
    BY <1>11, <2>1
  <2>2. ASSUME NEW i \in S, l.items[i].param = u PROVE \E k \in 1..m : r.items[k].param = u
    <3>1. PICK k \in 1..m : order[k] = i
      BY <1>6
    <3> QED BY <1>11, <2>2, <3>1
  <2>3. DOMAIN r.items = 1..m
    BY <1>7, <1>9
  <2> QED BY <2>1, <2>2, <2>3 DEF HasItem
<1>12. ASSUME NEW i \in 1..m, NEW j \in 1..m, r.items[i].param = r.items[j].param PROVE i = j
  <2>1. /\ order[i] \in S /\ order[j] \in S
        /\ l.items[order[i]].param = l.items[order[j]].param
    BY <1>11, <1>12
  <2>2. order[i] = order[j]
    <3> HIDE DEF S
    <3> QED BY <1>1, <2>1
  <2> QED BY <1>6, <2>2
<1>13. Held(r)
  <2>1. \A k \in 1..m : r.items[k].param \in DOMAIN l.rows /\ r.items[k].texts = l.rows[r.items[k].param].cells
    BY <1>11 DEF Held
  <2>2. \A u \in DOMAIN l.rows : l.rows[u].viewIndex = 0 <=> ~HasItem(r, u)
    BY <1>10 DEF Held, HasItem
  <2>3. \A u \in DOMAIN l.rows : l.rows[u].userIndex = u
    BY DEF Held
  <2>4. DOMAIN r.items = 1..m
    BY <1>7, <1>9
  <2>5. \A u \in DOMAIN l.rows : ~HasItem(r, u) <=> \A k \in DOMAIN r.items : r.items[k].param # u
    BY DEF HasItem
  <2> QED BY <1>9, <1>12, <2>1, <2>2, <2>3, <2>4, <2>5 DEF Held
<1>14. \A i \in 1..m, k \in 1..m : l.items[i].param = r.items[k].param => r.items[k].selected = l.items[i].selected
  BY <1>1, <1>11
<1>15. Sorted(r)
  <2> SUFFICES ASSUME NEW i \in 1..m, NEW j \in 1..m, i < j
               PROVE  Below(r, r.items[i].param, r.items[j].param)
    BY <1>7, <1>9 DEF Sorted
  <2> DEFINE u == r.items[i].param
             v == r.items[j].param
  <2>1. Precedes(l, tie, u, v) /\ u \in DOMAIN l.rows /\ v \in DOMAIN l.rows
    <3>1. r.items[i] = l.items[order[i]] /\ r.items[j] = l.items[order[j]]
      BY <1>11
    <3>2. P(order[i], order[j])
      BY <1>6
    <3>3. order[i] \in S /\ order[j] \in S
      BY <1>11
    <3>4. u \in DOMAIN l.rows /\ v \in DOMAIN l.rows
      <4> HIDE DEF S
      <4> QED BY <1>1, <3>1, <3>3
    <3> QED BY <3>1, <3>2, <3>4 DEF P
  <2>2. u # v
    BY <1>12
  <2> HIDE DEF u, v
  <2>3. Below(l, u, v)
    BY <2>1, <2>2, PrecedesBelow
  <2>4. Below(r, u, v)
    BY <1>9, <2>3 DEF Below, SameSettings
  <2> QED BY <2>4 DEF u, v
<1>16. DOMAIN r.items = 1..m /\ DOMAIN l.items = 1..m
  BY <1>1, <1>7, <1>9
<1> QED BY <1>9, <1>10, <1>13, <1>14, <1>15, <1>16 DEF Arranged, r, dirty

\* Without sorting, all rows in order are numbered.
LEMMA Numbered ==
  ASSUME NEW l \in ListViews, Held(l), l.sort = NoSort, Sorted(l),
         \A u \in DOMAIN l.rows : HasItem(l, u)
  PROVE  InRowOrder(l)
<1> PICK n \in Nat : n = Len(l.rows)
  BY ListTyped
<1> PICK m \in Nat : m = Len(l.items)
  BY ListTyped
<1>1. /\ DOMAIN l.rows = 1..n /\ DOMAIN l.items = 1..m
      /\ \A i \in 1..m : l.items[i].param \in 1..n
      /\ \A u \in 1..n : \E i \in 1..m : l.items[i].param = u
      /\ \A i, j \in 1..m : i < j => l.items[i].param < l.items[j].param
  <2>1. DOMAIN l.rows = 1..n /\ DOMAIN l.items = 1..m
    BY ListTyped
  <2>2. \A i \in 1..m : l.items[i].param \in 1..n
    BY <2>1 DEF Held
  <2>3. \A u \in 1..n : \E i \in 1..m : l.items[i].param = u
    BY <2>1 DEF HasItem
  <2>4. \A i, j \in 1..m : i < j => l.items[i].param < l.items[j].param
    BY <2>1 DEF Sorted, Below
  <2> QED BY <2>1, <2>2, <2>3, <2>4
<1> DEFINE f == [i \in 1..m |-> l.items[i].param]
           g == [u \in 1..n |-> u]
<1>2. f \in Seq(1..n) /\ Len(f) = m /\ \A i \in 1..m : f[i] = l.items[i].param
  <2>1. f \in [1..m -> 1..n] /\ \A i \in 1..m : f[i] = l.items[i].param
    BY <1>1
  <2> HIDE DEF f
  <2> QED BY <2>1, FunctionIsSeq
<1>3. g \in Seq(1..n) /\ Len(g) = n /\ \A u \in 1..n : g[u] = u
  <2>1. g \in [1..n -> 1..n] /\ \A u \in 1..n : g[u] = u
    OBVIOUS
  <2> HIDE DEF g
  <2> QED BY <2>1, FunctionIsSeq
<1> HIDE DEF f, g
<1>4. Enumerates(f, 1..n) /\ Enumerates(g, 1..n)
  <2>1. \A u \in 1..n : \E i \in 1..m : f[i] = u
    BY <1>1, <1>2
  <2>2. \A i, j \in 1..m : i < j => f[i] < f[j]
    BY <1>1, <1>2
  <2>3. Enumerates(f, 1..n)
    BY <1>2, <2>1, <2>2 DEF Enumerates
  <2>4. Enumerates(g, 1..n)
    BY <1>3 DEF Enumerates
  <2> QED BY <2>3, <2>4
<1>5. f = g
  <2>1. 1..n \in SUBSET Nat
    OBVIOUS
  <2> QED BY <1>4, <2>1, AscendingIs
<1>6. m = n /\ \A i \in 1..m : l.items[i].param = i
  BY <1>2, <1>3, <1>5
<1> QED BY <1>1, <1>6 DEF InRowOrder

-----------------------------------------------------------------------------
(* The end of an edit *)

\* Of rows that are shown before and after, the same are selected.
SameSelection(l, r) ==
  \A i \in DOMAIN l.items, k \in DOMAIN r.items :
    l.items[i].param = r.items[k].param => r.items[k].selected = l.items[i].selected

\* What is not flagged needs nothing to be done.
Ready(l) ==
  /\ l \in ListViews /\ Indexed(l)
  /\ "sort" \notin l.dirty => Sorted(l)
  /\ "filter" \notin l.dirty => Settled(l)
  /\ l.sort = NoSort => \A u \in DOMAIN l.rows : Fits(l, u)

\* A list whose edit ended.
Shows(r) ==
  /\ r \in ListViews /\ Indexed(r) /\ Unsorted(r) /\ Sorted(r) /\ Settled(r) /\ r.dirty = {}

\* The order of two rows is that of their cells.
LEMMA SameBelow ==
  ASSUME NEW l, NEW r, SameRows(l, r), SameSettings(l, r),
         NEW u \in DOMAIN l.rows, NEW v \in DOMAIN l.rows
  PROVE  Below(l, u, v) <=> Below(r, u, v)
BY DEF SameRows, SameSettings, Below

\* A row has an item when its view index is not 0.
LEMMA HeldShown ==
  ASSUME NEW l, Held(l), NEW u \in DOMAIN l.rows
  PROVE  HasItem(l, u) <=> l.rows[u].viewIndex # 0
BY DEF Held, HasItem

\* What two steps keep of the selection, both keep.
LEMMA SelectionPasses ==
  ASSUME NEW l, NEW x, NEW r, SameSelection(l, x), SameSelection(x, r),
         \A k \in DOMAIN r.items : HasItem(x, r.items[k].param)
  PROVE  SameSelection(l, r)
<1> SUFFICES ASSUME NEW i \in DOMAIN l.items, NEW k \in DOMAIN r.items,
                    l.items[i].param = r.items[k].param
             PROVE  r.items[k].selected = l.items[i].selected
  BY DEF SameSelection
<1>1. PICK j \in DOMAIN x.items : x.items[j].param = r.items[k].param
  BY DEF HasItem
<1> QED BY <1>1 DEF SameSelection

\* After the filter.
Chosen(l, x) ==
  /\ x \in ListViews /\ Held(x) /\ SameRows(l, x) /\ SameSettings(l, x) /\ "filter" \notin x.dirty
  /\ \A u \in DOMAIN l.rows : HasItem(x, u) <=> Fits(l, u)
  /\ SameSelection(l, x)
  /\ "sort" \notin x.dirty => Sorted(x)
  /\ "sort" \notin x.dirty /\ "reindex" \notin x.dirty => Indexed(x)

\* What is filtered if it is flagged.
LEMMA ListFiltered ==
  ASSUME NEW l, Ready(l)
  PROVE  Chosen(l, Filtered(l))
<1>1. l \in ListViews /\ Indexed(l) /\ Held(l)
  BY DEF Ready, Indexed
<1>2. CASE "filter" \notin l.dirty
  <2>1. Filtered(l) = l /\ Settled(l)
    BY <1>2 DEF Filtered, Ready
  <2>2. SameRows(l, l) /\ SameSettings(l, l)
    BY DEF SameRows, SameSettings
  <2>3. \A u \in DOMAIN l.rows : HasItem(l, u) <=> Fits(l, u)
    BY <1>1, <2>1, HeldShown DEF Settled
  <2>4. SameSelection(l, l)
    BY <1>1 DEF SameSelection, Held
  <2> QED BY <1>1, <1>2, <2>1, <2>2, <2>3, <2>4 DEF Chosen, Ready
<1>3. CASE "filter" \in l.dirty
  <2> DEFINE x == filter(l)
  <2>1. Sifted(l, x) /\ Filtered(l) = x
    BY <1>1, <1>3, ListSifted DEF Filtered
  <2> HIDE DEF x
  <2>2. /\ x \in ListViews /\ Held(x) /\ SameRows(l, x) /\ SameSettings(l, x) /\ "filter" \notin x.dirty
        /\ \A u \in DOMAIN l.rows : HasItem(x, u) <=> Fits(l, u)
        /\ SameSelection(l, x)
        /\ "sort" \in l.dirty => "sort" \in x.dirty
    BY <2>1 DEF Sifted, SameSelection
  <2>3. ASSUME "sort" \notin x.dirty PROVE Sorted(x)
    <3> SUFFICES ASSUME NEW i \in DOMAIN x.items, NEW j \in DOMAIN x.items, i < j
                 PROVE  Below(x, x.items[i].param, x.items[j].param)
      BY DEF Sorted
    <3>1. PICK v \in DOMAIN l.items, w \in DOMAIN l.items :
            /\ v < w /\ l.items[v].param = x.items[i].param /\ l.items[w].param = x.items[j].param
      BY <2>1, <2>3 DEF Sifted
    <3>2. Sorted(l)
      BY <2>2, <2>3 DEF Ready
    <3>3. Below(l, l.items[v].param, l.items[w].param)
      BY <3>1, <3>2 DEF Sorted
    <3>4. l.items[v].param \in DOMAIN l.rows /\ l.items[w].param \in DOMAIN l.rows
      BY <1>1 DEF Held
    <3> QED BY <2>2, <3>1, <3>3, <3>4, SameBelow
  <2>4. ASSUME "sort" \notin x.dirty, "reindex" \notin x.dirty PROVE Indexed(x)
    <3>1. x.items = l.items /\ x.rows = l.rows
      BY <2>1, <2>4 DEF Sifted
    <3> QED BY <1>1, <3>1 DEF Indexed, Held
  <2>5. Chosen(l, x)
    BY <2>2, <2>3, <2>4 DEF Chosen
  <2> QED BY <2>1, <2>5
<1> QED BY <1>2, <1>3

\* The end of an edit filters, then sorts, then looks for the view indexes, each only
\* if it is flagged, and a step flags what it makes necessary.
LEMMA EditEnds ==
  ASSUME NEW l, Ready(l), NEW tie \in Ties(l)
  PROVE  /\ Shows(endEdit(l, tie)) /\ SameRows(l, endEdit(l, tie))
         /\ SameSettings(l, endEdit(l, tie)) /\ SameSelection(l, endEdit(l, tie))
<1> DEFINE x == Filtered(l)
           y == IF "sort" \in x.dirty THEN sort(x, tie) ELSE x
           r == IF "reindex" \in y.dirty THEN reindexVisible(y) ELSE y
<1>1. endEdit(l, tie) = r
  BY DEF endEdit
<1>2. Chosen(l, x)
  BY ListFiltered
<1> HIDE DEF x
<1>3. l \in ListViews /\ x \in ListViews /\ DOMAIN x.rows = DOMAIN l.rows
  BY <1>2, ListTyped DEF Ready, Chosen, SameRows
<1>4. tie \in Ties(x)
  <2>1. x.sort = l.sort
    BY <1>2 DEF Chosen, SameSettings
  <2>2. \A u \in DOMAIN l.rows : x.rows[u].cells = l.rows[u].cells
    BY <1>2 DEF Chosen, SameRows
  <2>3. WithoutData(x) = WithoutData(l)
    BY <1>3, <2>1, <2>2 DEF WithoutData
  <2> QED BY <2>3 DEF Ties
<1>5. /\ y \in ListViews /\ Held(y) /\ SameRows(l, y) /\ SameSettings(l, y) /\ Sorted(y)
      /\ "filter" \notin y.dirty /\ "sort" \notin y.dirty
      /\ \A u \in DOMAIN l.rows : HasItem(y, u) <=> Fits(l, u)
      /\ SameSelection(l, y)
      /\ "reindex" \notin y.dirty => Indexed(y)
  <2>1. CASE "sort" \notin x.dirty
    BY <1>2, <2>1 DEF Chosen
  <2>2. CASE "sort" \in x.dirty
    <3> DEFINE s == sort(x, tie)
    <3>1. Arranged(x, s) /\ y = s
      BY <1>2, <1>3, <1>4, <2>2, ListArranged DEF Chosen
    <3> HIDE DEF s
    <3>2. /\ s \in ListViews /\ Held(s) /\ SameRows(l, s) /\ SameSettings(l, s) /\ Sorted(s)
          /\ "filter" \notin s.dirty /\ "sort" \notin s.dirty /\ "reindex" \in s.dirty
      BY <1>2, <3>1 DEF Chosen, Arranged, SameRows, SameSettings
    <3>3. \A u \in DOMAIN l.rows : (HasItem(s, u) <=> Fits(l, u)) /\ (HasItem(s, u) <=> HasItem(x, u))
      BY <1>2, <1>3, <3>1 DEF Chosen, Arranged
    <3>4. SameSelection(l, s)
      <4>1. SameSelection(l, x) /\ SameSelection(x, s)
        BY <1>2, <3>1 DEF Chosen, Arranged, SameSelection
      <4>2. \A k \in DOMAIN s.items : s.items[k].param \in DOMAIN l.rows
        <5>1. DOMAIN s.rows = DOMAIN l.rows
          BY <1>3, <3>1 DEF Arranged
        <5> QED BY <3>2, <5>1 DEF Held
      <4>3. \A k \in DOMAIN s.items : HasItem(x, s.items[k].param)
        BY <3>3, <4>2 DEF HasItem
      <4> QED BY <4>1, <4>3, SelectionPasses
    <3> HIDE DEF y
    <3> QED BY <3>1, <3>2, <3>3, <3>4
  <2> QED BY <2>1, <2>2
<1> HIDE DEF y
<1>6. /\ r \in ListViews /\ Indexed(r) /\ r.items = y.items
      /\ SameRows(y, r) /\ SameSettings(y, r) /\ r.dirty = y.dirty \ {"reindex"}
  <2>1. CASE "reindex" \in y.dirty
    <3>1. r = reindexVisible(y)
      BY <2>1
    <3> HIDE DEF r
    <3> QED BY <1>5, <3>1, Reindexed
  <2>2. CASE "reindex" \notin y.dirty
    BY <1>5, <2>2 DEF SameRows, SameSettings
  <2> QED BY <2>1, <2>2
<1> HIDE DEF r
<1>7. r.dirty = {}
  <2>1. y.dirty \subseteq Flags
    BY <1>5, ListTyped
  <2> QED BY <1>5, <1>6, <2>1 DEF Flags
<1>8. SameRows(l, r) /\ SameSettings(l, r)
  <2>1. DOMAIN y.rows = DOMAIN l.rows
    BY <1>3, <1>5, ListTyped DEF SameRows
  <2> QED BY <1>5, <1>6, <2>1 DEF SameRows, SameSettings
<1>9. SameSelection(l, r)
  BY <1>5, <1>6 DEF SameSelection
<1>10. DOMAIN r.rows = DOMAIN l.rows /\ DOMAIN y.rows = DOMAIN l.rows
  BY <1>3, <1>5, <1>6, <1>8, ListTyped DEF SameRows
<1>11. Sorted(r)
  <2> SUFFICES ASSUME NEW i \in DOMAIN y.items, NEW j \in DOMAIN y.items, i < j
               PROVE  Below(r, y.items[i].param, y.items[j].param)
    BY <1>6 DEF Sorted
  <2>1. Below(y, y.items[i].param, y.items[j].param)
    BY <1>5 DEF Sorted
  <2>2. y.items[i].param \in DOMAIN y.rows /\ y.items[j].param \in DOMAIN y.rows
    BY <1>5 DEF Held
  <2> QED BY <1>6, <2>1, <2>2, SameBelow
<1>12. \A u \in DOMAIN r.rows : (Fits(r, u) <=> Fits(l, u)) /\ (HasItem(r, u) <=> Fits(r, u))
  <2> SUFFICES ASSUME NEW u \in DOMAIN l.rows
               PROVE  (Fits(r, u) <=> Fits(l, u)) /\ (HasItem(r, u) <=> Fits(r, u))
    BY <1>10
  <2>1. Fits(r, u) <=> Fits(l, u)
    BY <1>8 DEF SameRows, SameSettings, Fits
  <2>2. HasItem(r, u) <=> HasItem(y, u)
    BY <1>6 DEF HasItem
  <2> QED BY <1>5, <2>1, <2>2
<1>13. Settled(r)
  <2>1. Held(r)
    BY <1>6 DEF Indexed
  <2> QED BY <1>12, <2>1, HeldShown DEF Settled
<1>14. Unsorted(r)
  <2> SUFFICES ASSUME r.sort = NoSort PROVE InRowOrder(r)
    BY DEF Unsorted
  <2>1. l.sort = NoSort
    BY <1>8 DEF SameSettings
  <2>2. \A u \in DOMAIN r.rows : HasItem(r, u)
    BY <1>10, <1>12, <2>1 DEF Ready
  <2> QED BY <1>6, <1>11, <2>2, Numbered DEF Indexed
<1>15. Shows(r)
  BY <1>6, <1>7, <1>11, <1>13, <1>14 DEF Shows
<1> QED BY <1>1, <1>8, <1>9, <1>15

-----------------------------------------------------------------------------
(* Filling a list again *)

Lengthened(l, r, row, sel) ==
  LET n == Len(l.rows)
  IN /\ r \in ListViews /\ Indexed(r) /\ InRowOrder(r) /\ Len(r.rows) = n + 1
     /\ SameSettings(l, r)
     /\ \A u \in 1..n : /\ r.rows[u].data = l.rows[u].data /\ r.rows[u].cells = l.rows[u].cells
                        /\ r.items[u].selected = l.items[u].selected
     /\ r.rows[n + 1].data = row.data /\ r.rows[n + 1].cells = row.cells
     /\ r.items[n + 1].selected = (row.data \in sel)
     /\ "filter" \in r.dirty /\ l.dirty \subseteq r.dirty /\ (l.sort # NoSort => "sort" \in r.dirty)

\* A row that is added while a list is filled.
LEMMA RowLengthened ==
  ASSUME NEW l \in ListViews, Indexed(l), InRowOrder(l),
         NEW row, row.data \in Data, row.cells \in Cells, NEW sel
  PROVE  Lengthened(l, AddRow(l, row, sel), row, sel)
<1> PICK n \in Nat : n = Len(l.rows)
  BY ListTyped
<1> DEFINE x == NewRow(l, row)
           r == [x EXCEPT !.items = SetState(x.items, n + 1, TRUE)]
<1>1. Grown(l, x, row)
  BY RowGrown
<1> HIDE DEF x
<1>2. /\ x \in ListViews /\ Indexed(x) /\ InRowOrder(x) /\ Len(x.rows) = n + 1
      /\ x.items[n + 1].selected = FALSE /\ SameSettings(l, x)
      /\ "filter" \in x.dirty /\ l.dirty \subseteq x.dirty /\ (l.sort # NoSort => "sort" \in x.dirty)
      /\ x.rows[n + 1].data = row.data /\ x.rows[n + 1].cells = row.cells
  BY <1>1 DEF Grown
<1>3. \A u \in 1..n : /\ x.rows[u].data = l.rows[u].data /\ x.rows[u].cells = l.rows[u].cells
                      /\ x.items[u].selected = l.items[u].selected
  BY <1>1 DEF Grown
<1>4. CASE row.data \notin sel
  <2>1. AddRow(l, row, sel) = x
    BY <1>4 DEF AddRow, x
  <2>2. (row.data \in sel) = FALSE
    BY <1>4
  <2> QED BY <1>2, <1>3, <2>1, <2>2 DEF Lengthened
<1>5. CASE row.data \in sel
  <2>1. translate(x, n + 1) = n + 1
    <3>1. n + 1 \in DOMAIN x.rows /\ n + 1 \in DOMAIN x.items /\ n + 1 \in Nat
      BY <1>2, ListTyped DEF InRowOrder
    <3>2. Unsorted(x)
      BY <1>2 DEF Unsorted
    <3>3. x.items[n + 1].param = n + 1 /\ x.rows[n + 1].viewIndex = n + 1
      BY <1>2, <3>1 DEF InRowOrder, Indexed
    <3> QED BY <1>2, <3>1, <3>2, <3>3, Translated
  <2>2. AddRow(l, row, sel) = r
    BY <1>5, <2>1 DEF AddRow, setSelected, rowCount, x
  <2>3. /\ r \in ListViews /\ Indexed(r) /\ SameSettings(x, r)
        /\ r.rows = x.rows /\ r.dirty = x.dirty /\ Len(r.items) = Len(x.items)
        /\ \A j \in DOMAIN x.items :
             /\ r.items[j].param = x.items[j].param
             /\ r.items[j].selected = IF n + 1 = 0 \/ n + 1 = j THEN TRUE ELSE x.items[j].selected
    <3>1. n + 1 \in Nat /\ TRUE \in BOOLEAN
      OBVIOUS
    <3>2. Marked(x, r, n + 1, TRUE)
      BY <1>2, <3>1, StateSet
    <3> HIDE DEF r
    <3> QED BY <3>2 DEF Marked
  <2> HIDE DEF r
  <2>4. DOMAIN x.items = 1..(n + 1) /\ DOMAIN r.items = 1..(n + 1) /\ Len(r.rows) = n + 1
    BY <1>2, <2>3, ListTyped DEF InRowOrder
  <2>5. InRowOrder(r)
    BY <1>2, <2>3, <2>4 DEF InRowOrder
  <2>6. \A u \in 1..n : u \in 1..(n + 1) /\ u # n + 1
    OBVIOUS
  <2>7. \A u \in 1..n : /\ r.rows[u].data = l.rows[u].data /\ r.rows[u].cells = l.rows[u].cells
                        /\ r.items[u].selected = l.items[u].selected
    <3> SUFFICES ASSUME NEW u \in 1..n
                 PROVE  /\ r.rows[u].data = l.rows[u].data /\ r.rows[u].cells = l.rows[u].cells
                        /\ r.items[u].selected = l.items[u].selected
      OBVIOUS
    <3>1. u \in DOMAIN x.items /\ ~(n + 1 = 0 \/ n + 1 = u)
      BY <2>4
    <3>2. r.items[u].selected = x.items[u].selected
      BY <2>3, <3>1
    <3> QED BY <1>3, <2>3, <3>2
  <2>8. r.items[n + 1].selected = TRUE
    <3>1. n + 1 \in DOMAIN x.items
      BY <2>4
    <3> QED BY <2>3, <3>1
  <2>9. SameSettings(l, r)
    BY <1>2, <2>3 DEF SameSettings
  <2>10. (row.data \in sel) = TRUE
    BY <1>5
  <2> QED BY <1>2, <2>2, <2>3, <2>4, <2>5, <2>7, <2>8, <2>9, <2>10 DEF Lengthened
<1> QED BY <1>4, <1>5

\* After the first k rows.
Filled(l, r, rs, sel, k) ==
  /\ r \in ListViews /\ Indexed(r) /\ InRowOrder(r) /\ Len(r.rows) = k /\ SameSettings(l, r)
  /\ \A u \in 1..k : /\ r.rows[u].data = rs[u].data /\ r.rows[u].cells = rs[u].cells
                     /\ r.items[u].selected = (rs[u].data \in sel)
  /\ "filter" \in r.dirty /\ (l.sort # NoSort /\ k # 0 => "sort" \in r.dirty)

Fillable(rs) ==
  /\ rs \in Seq(ToSet(rs)) /\ Len(rs) \in Nat /\ DOMAIN rs = 1..Len(rs)
  /\ \A i \in 1..Len(rs) : rs[i].data \in Data /\ rs[i].cells \in Cells

\* What a list is filled with is rows.
LEMMA ContentTyped ==
  ASSUME NEW rs \in Contents
  PROVE  Fillable(rs)
<1>1. rs \in Seq(ToSet(rs)) /\ \A i \in DOMAIN rs : rs[i].cells \in [Columns -> Nat]
  BY ContentsAssumption
<1>2. Len(rs) \in Nat /\ DOMAIN rs = 1..Len(rs)
  BY <1>1
<1>3. \A i \in DOMAIN rs : rs[i].data \in Data
  <2> DEFINE D(s) == {s[i].data : i \in DOMAIN s}
  <2>1. \A i \in DOMAIN rs : rs[i].data \in D(rs)
    OBVIOUS
  <2>2. D(rs) \subseteq UNION {D(s) : s \in Contents}
    <3> HIDE DEF D
    <3> QED OBVIOUS
  <2>3. UNION {D(s) : s \in Contents} \subseteq Data
    BY Zenon DEF Data
  <2> HIDE DEF D
  <2> QED BY <2>1, <2>2, <2>3
<1> QED BY <1>1, <1>2, <1>3 DEF Fillable, Cells

\* Filling starts from an empty list.
LEMMA Emptied ==
  ASSUME NEW l \in ListViews, NEW rs, NEW sel
  PROVE  Filled(l, setFilter(clear(l), l.filter), rs, sel, 0)
<1> DEFINE r == setFilter(clear(l), l.filter)
<1>1. r = [l EXCEPT !.items = <<>>, !.rows = <<>>, !.dirty = l.dirty \cup {"filter"}]
  BY DEF setFilter, clear, ListViews
<1>2. l.dirty \cup {"filter"} \subseteq Flags
  BY ListTyped DEF Flags
<1>3. /\ r.rows = <<>> /\ r.items = <<>> /\ r.dirty = l.dirty \cup {"filter"}
      /\ SameSettings(l, r) /\ r \in ListViews
  <2> DEFINE none == <<>>
             d == l.dirty \cup {"filter"}
  <2>1. none \in Seq(Rows) /\ none \in Seq(Items) /\ d \subseteq Flags
    BY <1>2
  <2> HIDE DEF none, d, r
  <2>2. r = [l EXCEPT !.items = none, !.rows = none, !.dirty = d]
    BY <1>1 DEF none, d
  <2>3. r.rows = none /\ r.items = none /\ r.dirty = d /\ SameSettings(l, r) /\ r \in ListViews
    BY <2>1, <2>2 DEF ListViews, SameSettings
  <2> QED BY <2>3 DEF none, d
<1> HIDE DEF r
<1>4. Indexed(r) /\ InRowOrder(r) /\ Len(r.rows) = 0
  BY <1>3 DEF Indexed, Held, InRowOrder
<1> QED BY <1>3, <1>4 DEF Filled, r

\* One more row.
LEMMA RowFilled ==
  ASSUME NEW l, NEW rs, Fillable(rs), NEW sel, NEW k \in 1..Len(rs),
         NEW x, Filled(l, x, rs, sel, k - 1)
  PROVE  Filled(l, AddRow(x, rs[k], sel), rs, sel, k)
<1> DEFINE r == AddRow(x, rs[k], sel)
<1>1. /\ k \in Nat /\ k - 1 + 1 = k /\ k # 0 /\ x \in ListViews /\ Len(x.rows) = k - 1 /\ SameSettings(l, x)
      /\ Indexed(x) /\ InRowOrder(x) /\ "filter" \in x.dirty
  BY DEF Filled, Fillable
<1>2. rs[k].data \in Data /\ rs[k].cells \in Cells
  BY DEF Fillable
<1>3. Lengthened(x, r, rs[k], sel)
  BY <1>1, <1>2, RowLengthened
<1> HIDE DEF r
<1>4. /\ r \in ListViews /\ Indexed(r) /\ InRowOrder(r) /\ Len(r.rows) = k
      /\ SameSettings(l, r)
      /\ r.rows[k].data = rs[k].data /\ r.rows[k].cells = rs[k].cells
      /\ r.items[k].selected = (rs[k].data \in sel)
      /\ "filter" \in r.dirty /\ (l.sort # NoSort => "sort" \in r.dirty)
  BY <1>1, <1>3 DEF Lengthened, SameSettings
<1>5. \A u \in 1..(k - 1) : /\ r.rows[u].data = rs[u].data /\ r.rows[u].cells = rs[u].cells
                            /\ r.items[u].selected = (rs[u].data \in sel)
  BY <1>1, <1>3 DEF Lengthened, Filled
<1>6. \A u \in 1..k : u = k \/ u \in 1..(k - 1)
  BY <1>1
<1> QED BY <1>4, <1>5, <1>6 DEF Filled, r

\* What Refill ends the edit of.
LEMMA AllFilled ==
  ASSUME NEW l \in ListViews, NEW rs \in Contents, NEW sel,
         NEW h, h = [k \in 0..Len(rs) |-> IF k = 0 THEN setFilter(clear(l), l.filter)
                                          ELSE AddRow(h[k - 1], rs[k], sel)]
  PROVE  Filled(l, h[Len(rs)], rs, sel, Len(rs))
<1>1. Fillable(rs)
  BY ContentTyped
<1> PICK K \in Nat : K = Len(rs)
  BY <1>1 DEF Fillable
<1> DEFINE base == setFilter(clear(l), l.filter)
           One(k, x) == AddRow(x, rs[k], sel)
           M == {k \in 0..K : Filled(l, h[k], rs, sel, k)}
<1>2. 0 \in 0..K /\ \A k \in 1..K : k \in 0..K /\ k # 0
  OBVIOUS
<1>3. h[0] = base /\ \A k \in 1..K : h[k] = One(k, h[k - 1])
  <2> HIDE DEF base, One
  <2>1. h = [k \in 0..K |-> IF k = 0 THEN base ELSE One(k, h[k - 1])]
    BY DEF base, One
  <2> QED BY <1>2, <2>1
<1>4. 0 \in M
  BY <1>2, <1>3, Emptied
<1>5. ASSUME NEW k \in 1..K, k - 1 \in M PROVE k \in M
  <2>1. Filled(l, h[k - 1], rs, sel, k - 1)
    BY <1>5
  <2>2. Filled(l, One(k, h[k - 1]), rs, sel, k)
    BY <1>1, <2>1, RowFilled
  <2> HIDE DEF One
  <2> QED BY <1>2, <1>3, <2>2
<1>6. \A k \in 0..K : k \in M
  <2> HIDE DEF M
  <2> QED BY <1>4, <1>5, CountUp
<1>7. K \in 0..K
  OBVIOUS
<1> QED BY <1>6, <1>7

-----------------------------------------------------------------------------
(* Selection *)

\* Rows whose items are selected.
Picked(l) == {l.items[i].param : i \in {j \in DOMAIN l.items : l.items[j].selected}}

\* The selection is the rows whose items are selected, in either order.
LEMMA SelectionPicks ==
  ASSUME NEW l \in ListViews, Held(l), Unsorted(l)
  PROVE  /\ SelectedInView(l) \in Seq(Picked(l)) /\ ToSet(SelectedInView(l)) = Picked(l)
         /\ Enumerates(selection(l), Picked(l)) /\ ToSet(selection(l)) = Picked(l)
         /\ Picked(l) \subseteq DOMAIN l.rows
         /\ SelectedData(l) = {l.rows[u].data : u \in Picked(l)}
<1> PICK m \in Nat : m = Len(l.items)
  BY ListTyped
<1> DEFINE C == {i \in DOMAIN l.items : l.items[i].selected}
           f == Ascending(C)
           s == SelectedInView(l)
<1>1. DOMAIN l.items = 1..m /\ C \in SUBSET (1..m) /\ C \in SUBSET Nat
  BY ListTyped
<1>2. IsFiniteSet(C)
  <2>1. 1 \in Int /\ m \in Int
    OBVIOUS
  <2>2. IsFiniteSet(1..m)
    BY <2>1, FS_Interval
  <2> HIDE DEF C
  <2> QED BY <1>1, <2>2, FS_Subset
<1>3. Enumerates(f, C)
  <2> HIDE DEF C
  <2> QED BY <1>1, <1>2, AscendingEnumerates
<1>4. Picked(l) = {l.items[i].param : i \in C}
  BY DEF Picked
<1>5. Picked(l) \subseteq DOMAIN l.rows
  BY <1>4 DEF Held
<1>6. s = [k \in DOMAIN f |-> translateBack(l, f[k])]
  BY DEF SelectedInView
<1>7. \A i \in C : translateBack(l, i) = l.items[i].param /\ l.items[i].param \in Picked(l)
  BY <1>1, <1>4, TranslatedBack
<1> HIDE DEF C, f, s
<1>8. f \in Seq(C) /\ Len(f) \in Nat /\ DOMAIN f = 1..Len(f) /\ \A k \in 1..Len(f) : f[k] \in C
  <2>1. f \in Seq(C)
    BY <1>3 DEF Enumerates
  <2> QED BY <2>1
<1>9. s \in Seq(Picked(l)) /\ DOMAIN s = 1..Len(f) /\ \A k \in 1..Len(f) : s[k] = l.items[f[k]].param
  <2>1. \A k \in 1..Len(f) : translateBack(l, f[k]) = l.items[f[k]].param /\ l.items[f[k]].param \in Picked(l)
    BY <1>7, <1>8
  <2>2. s \in [1..Len(f) -> Picked(l)] /\ \A k \in 1..Len(f) : s[k] = l.items[f[k]].param
    BY <1>6, <1>8, <2>1
  <2> QED BY <1>8, <2>2, FunctionIsSeq
<1>10. ToSet(s) = Picked(l)
  <2>1. ToSet(s) = {s[k] : k \in 1..Len(f)}
    BY <1>9 DEF ToSet
  <2>2. \A i \in C : \E k \in 1..Len(f) : f[k] = i
    BY <1>3 DEF Enumerates
  <2>3. ASSUME NEW u \in Picked(l) PROVE u \in ToSet(s)
    <3>1. PICK i \in C : l.items[i].param = u
      BY <1>4
    <3>2. PICK k \in 1..Len(f) : f[k] = i
      BY <2>2
    <3> QED BY <1>9, <2>1, <3>1, <3>2
  <2>4. ASSUME NEW u \in ToSet(s) PROVE u \in Picked(l)
    <3>1. PICK k \in 1..Len(f) : u = s[k]
      BY <2>1
    <3> QED BY <1>4, <1>8, <1>9, <3>1
  <2> QED BY <2>3, <2>4
<1>11. Enumerates(selection(l), Picked(l))
  <2>1. Picked(l) \in SUBSET Nat /\ IsFiniteSet(Picked(l))
    <3>1. IsFiniteSet(DOMAIN l.rows) /\ DOMAIN l.rows \subseteq Nat
      <4>1. 1 \in Int /\ Len(l.rows) \in Int /\ DOMAIN l.rows = 1..Len(l.rows)
        BY ListTyped
      <4>2. IsFiniteSet(1..Len(l.rows))
        BY <4>1, FS_Interval
      <4> QED BY <4>1, <4>2
    <3> QED BY <1>5, <3>1, FS_Subset
  <2> QED BY <1>10, <2>1, AscendingEnumerates DEF selection, s
<1>12. ToSet(selection(l)) = Picked(l)
  <2> DEFINE g == selection(l)
  <2>1. Enumerates(g, Picked(l))
    BY <1>11
  <2> HIDE DEF g
  <2>2. g \in Seq(Picked(l)) /\ \A x \in Picked(l) : \E i \in 1..Len(g) : g[i] = x
    BY <2>1 DEF Enumerates
  <2>3. DOMAIN g = 1..Len(g) /\ \A i \in DOMAIN g : g[i] \in Picked(l)
    BY <2>2
  <2>4. ToSet(g) = Picked(l)
    BY <2>2, <2>3 DEF ToSet
  <2> QED BY <2>4 DEF g
<1>13. SelectedData(l) = {l.rows[u].data : u \in Picked(l)}
  BY <1>12 DEF SelectedData
<1> QED BY <1>5, <1>9, <1>10, <1>11, <1>12, <1>13 DEF s

-----------------------------------------------------------------------------
(* What holds of the list whatever the window does *)

Flagged(l) ==
  /\ "sort" \notin l.dirty => Sorted(l)
  /\ "filter" \notin l.dirty => Settled(l)

\* Rows stand for different things.
Distinct(l) == \A u, v \in DOMAIN l.rows : l.rows[u].data = l.rows[v].data => u = v

\* Which list a window has: the browser's is always sorted, the manager's never filtered.
Suits(w, l) ==
  /\ w \in {"browser", "manager"} /\ l.arrow = l.sort
  /\ w = "browser" => l.sort # NoSort /\ l.default # NoSort
  /\ w = "manager" => l.filter = AllRows /\ \A u \in DOMAIN l.rows : Fits(l, u)

Sound(w, l) ==
  l \in ListViews /\ Indexed(l) /\ Unsorted(l) /\ Flagged(l) /\ Distinct(l) /\ Suits(w, l)

\* And when nothing is pending.
Rested(l) == Sorted(l) /\ Settled(l)

\* What a window sorts by at first.
LEMMA SortDefault ==
  ASSUME NEW w \in {"browser", "manager"}
  PROVE  DefaultSort(w) \in Sorts /\ NoSort \in Sorts /\ (w = "browser" => DefaultSort(w) # NoSort)
<1>1. 1 \in Columns
  BY Column
<1>2. [column |-> 1, order |-> "asc"] \in [column : Columns, order : {"asc", "desc"}]
  BY <1>1
<1>3. [column |-> 1, order |-> "asc"].column # NoSort.column
  BY DEF NoSort
<1> QED BY <1>2, <1>3 DEF DefaultSort, Sorts

\* The first filter matches everything.
LEMMA AllFit ==
  /\ AllRows \in Filters
  /\ \A rs \in Contents : \A i \in DOMAIN rs : Matches(AllRows, rs[i].cells)
BY ContentsAssumption DEF AllRows

\* A list that was just created.
LEMMA EmptySound ==
  ASSUME NEW w \in {"browser", "manager"}
  PROVE  LET l == Empty(DefaultSort(w), AllRows)
         IN Sound(w, l) /\ Rested(l) /\ l.rows = <<>> /\ l.items = <<>> /\ l.dirty = {}
<1> DEFINE l == Empty(DefaultSort(w), AllRows)
           none == <<>>
<1>1. none \in Seq(Rows) /\ none \in Seq(Items) /\ DOMAIN none = {} /\ Len(none) = 0
  OBVIOUS
<1> HIDE DEF none
<1>2. l = [rows |-> none, items |-> none, sort |-> DefaultSort(w), default |-> DefaultSort(w),
           dirty |-> {}, filter |-> AllRows, arrow |-> DefaultSort(w)]
  BY DEF Empty, none
<1> HIDE DEF l
<1>3. l \in ListViews
  BY <1>1, <1>2, SortDefault, AllFit DEF ListViews
<1>4. l.rows = none /\ l.items = none /\ l.dirty = {} /\ l.sort = DefaultSort(w)
      /\ l.default = DefaultSort(w) /\ l.arrow = l.sort /\ l.filter = AllRows
  BY <1>2
<1>5. Held(l) /\ Indexed(l) /\ Unsorted(l) /\ Sorted(l) /\ Settled(l) /\ Distinct(l)
  BY <1>1, <1>4 DEF Held, Indexed, Unsorted, InRowOrder, Sorted, Settled, Distinct
<1>6. Suits(w, l)
  BY <1>1, <1>4, SortDefault DEF Suits
<1> QED BY <1>3, <1>4, <1>5, <1>6 DEF Sound, Rested, Flagged, l, none

\* An edit ends with a list that shows its rows.
LEMMA SoundEdit ==
  ASSUME NEW l, NEW w, Ready(l), Distinct(l), Suits(w, l), NEW tie \in Ties(l)
  PROVE  Sound(w, endEdit(l, tie)) /\ Rested(endEdit(l, tie))
<1> DEFINE r == endEdit(l, tie)
<1>1. Shows(r) /\ SameRows(l, r) /\ SameSettings(l, r)
  BY EditEnds
<1> HIDE DEF r
<1>2. DOMAIN r.rows = DOMAIN l.rows
  BY <1>1, ListTyped DEF Shows, SameRows, Ready
<1>3. Distinct(r)
  <2>1. \A u \in DOMAIN l.rows : r.rows[u].data = l.rows[u].data
    BY <1>1 DEF SameRows
  <2> QED BY <1>2, <2>1 DEF Distinct
<1>4. Suits(w, r)
  <2>1. \A u \in DOMAIN l.rows : Fits(r, u) <=> Fits(l, u)
    BY <1>1 DEF Fits, SameRows, SameSettings
  <2> QED BY <1>1, <1>2, <2>1 DEF Suits, SameSettings
<1> QED BY <1>1, <1>3, <1>4 DEF Sound, Rested, Shows, Flagged, r

\* Before an edit ends, a list is ready if what changed is flagged.
LEMMA SoundReady ==
  ASSUME NEW w, NEW l, Sound(w, l)
  PROVE  Ready(l)
<1>1. l.sort = NoSort => \A u \in DOMAIN l.rows : Fits(l, u)
  BY DEF Sound, Suits
<1> QED BY <1>1 DEF Sound, Flagged, Ready

\* Numbers keep their order when those from u on go up by one.
KeepsOrder(u, a, b) == (IF a < u THEN a ELSE a + 1) < (IF b < u THEN b ELSE b + 1) <=> a < b

LEMMA OrderKept ==
  ASSUME NEW n \in Nat, NEW u \in 1..n, NEW a \in 1..(n - 1), NEW b \in 1..(n - 1)
  PROVE  KeepsOrder(u, a, b)
BY DEF KeepsOrder

\* What follows a removed row keeps its place.
LEMMA RemovedSorted ==
  ASSUME NEW l \in ListViews, Held(l), NEW u \in DOMAIN l.rows, NEW r, Removed(l, r, u), Sorted(l)
  PROVE  Sorted(r)
<1> PICK n \in Nat : n = Len(l.rows)
  BY ListTyped
<1> DEFINE old(w) == IF w < u THEN w ELSE w + 1
           v == l.rows[u].viewIndex
           was(k) == IF v = 0 \/ k < v THEN k ELSE k + 1
<1>1. /\ u \in 1..n /\ v \in Nat /\ r \in ListViews /\ Held(r) /\ SameSettings(l, r)
      /\ Len(r.rows) = n - 1 /\ DOMAIN r.rows = 1..(n - 1) /\ DOMAIN r.items = 1..Len(r.items)
  BY ListTyped DEF Removed, Indexed
<1>2. \A w \in 1..(n - 1) : r.rows[w].cells = l.rows[old(w)].cells
  BY DEF Removed
<1>3. \A k \in 1..Len(r.items) :
        /\ was(k) \in DOMAIN l.items /\ r.items[k].param \in 1..(n - 1)
        /\ old(r.items[k].param) = l.items[was(k)].param
  BY DEF Removed
<1> SUFFICES ASSUME NEW i \in 1..Len(r.items), NEW j \in 1..Len(r.items), i < j
             PROVE  Below(r, r.items[i].param, r.items[j].param)
  BY <1>1 DEF Sorted
<1> PICK a \in 1..(n - 1) : a = r.items[i].param
  BY <1>3
<1> PICK b \in 1..(n - 1) : b = r.items[j].param
  BY <1>3
<1>4. was(i) < was(j)
  <2>1. i \in Int /\ j \in Int
    BY <1>1
  <2> HIDE DEF v
  <2> QED BY <1>1, <2>1
<1>5. Below(l, old(a), old(b))
  <2>1. was(i) \in DOMAIN l.items /\ was(j) \in DOMAIN l.items
        /\ old(a) = l.items[was(i)].param /\ old(b) = l.items[was(j)].param
    <3> HIDE DEF was, old
    <3> QED BY <1>3
  <2> HIDE DEF was, old
  <2> QED BY <1>4, <2>1 DEF Sorted
<1>6. r.rows[a].cells = l.rows[old(a)].cells /\ r.rows[b].cells = l.rows[old(b)].cells
  <2> HIDE DEF old
  <2> QED BY <1>2
<1>7. old(a) < old(b) <=> a < b
  <2>1. KeepsOrder(u, a, b)
    <3> HIDE DEF old
    <3> QED BY <1>1, OrderKept
  <2> QED BY <2>1 DEF KeepsOrder
<1> HIDE DEF old
<1>8. Below(r, a, b)
  BY <1>1, <1>5, <1>6, <1>7 DEF Below, SameSettings
<1> QED BY <1>8

\* What is filtered stays so.
LEMMA RemovedSettled ==
  ASSUME NEW l \in ListViews, NEW u \in DOMAIN l.rows, NEW r, Removed(l, r, u)
  PROVE  /\ Settled(l) => Settled(r)
         /\ (\A w \in DOMAIN l.rows : Fits(l, w)) => \A w \in DOMAIN r.rows : Fits(r, w)
<1> PICK n \in Nat : n = Len(l.rows)
  BY ListTyped
<1> DEFINE old(w) == IF w < u THEN w ELSE w + 1
<1>1. /\ DOMAIN l.rows = 1..n /\ u \in 1..n /\ SameSettings(l, r) /\ DOMAIN r.rows = 1..(n - 1)
  <2>1. r \in ListViews /\ Len(r.rows) = n - 1 /\ SameSettings(l, r)
    BY DEF Removed
  <2> QED BY <2>1, ListTyped
<1>2. \A w \in 1..(n - 1) :
        /\ r.rows[w].cells = l.rows[old(w)].cells
        /\ r.rows[w].viewIndex = 0 <=> l.rows[old(w)].viewIndex = 0
  BY DEF Removed
<1>3. \A w \in 1..(n - 1) : old(w) \in DOMAIN l.rows
  BY <1>1
<1> HIDE DEF old
<1>4. \A w \in 1..(n - 1) : Fits(r, w) <=> Fits(l, old(w))
  BY <1>1, <1>2 DEF Fits, SameSettings
<1> QED BY <1>1, <1>2, <1>3, <1>4 DEF Settled

\* Removing a row keeps the list right, and at rest if it was.
LEMMA RemovedSound ==
  ASSUME NEW w, NEW l, Sound(w, l), NEW u \in DOMAIN l.rows
  PROVE  LET r == removeRow(l, u)
         IN Removed(l, r, u) /\ Sound(w, r) /\ (Rested(l) => Rested(r))
<1> PICK n \in Nat : n = Len(l.rows)
  BY ListTyped DEF Sound
<1> DEFINE r == removeRow(l, u)
           old(x) == IF x < u THEN x ELSE x + 1
           v == l.rows[u].viewIndex
           was(k) == IF v = 0 \/ k < v THEN k ELSE k + 1
<1>1. l \in ListViews /\ Indexed(l) /\ Held(l) /\ Unsorted(l) /\ Flagged(l)
  BY DEF Sound, Indexed
<1>2. Removed(l, r, u)
  BY <1>1, RowRemoved
<1> HIDE DEF r
<1>3. /\ r \in ListViews /\ Indexed(r) /\ SameSettings(l, r) /\ r.dirty = l.dirty \ {"reindex"}
      /\ Len(r.rows) = n - 1 /\ DOMAIN r.rows = 1..(n - 1) /\ DOMAIN l.rows = 1..n /\ u \in 1..n
  BY <1>1, <1>2, ListTyped DEF Removed
<1>4. (Sorted(l) => Sorted(r)) /\ (Settled(l) => Settled(r))
  BY <1>1, <1>2, RemovedSorted, RemovedSettled
<1>5. Flagged(r)
  BY <1>1, <1>3, <1>4 DEF Flagged
<1>6. Distinct(r)
  <2> SUFFICES ASSUME NEW a \in 1..(n - 1), NEW b \in 1..(n - 1), r.rows[a].data = r.rows[b].data
               PROVE  a = b
    BY <1>3 DEF Distinct
  <2>1. r.rows[a].data = l.rows[old(a)].data /\ r.rows[b].data = l.rows[old(b)].data
    BY <1>2 DEF Removed
  <2>2. old(a) \in 1..n /\ old(b) \in 1..n
    BY <1>3
  <2>3. old(a) = old(b)
    <3> HIDE DEF old
    <3> QED BY <1>3, <2>1, <2>2 DEF Sound, Distinct
  <2> QED BY <1>3, <2>3
<1>7. Suits(w, r)
  <2>1. (\A x \in DOMAIN l.rows : Fits(l, x)) => \A x \in DOMAIN r.rows : Fits(r, x)
    BY <1>1, <1>2, RemovedSettled
  <2> QED BY <1>3, <2>1 DEF Sound, Suits, SameSettings
<1>8. Unsorted(r)
  <2> SUFFICES ASSUME r.sort = NoSort PROVE InRowOrder(r)
    BY DEF Unsorted
  <2>1. InRowOrder(l)
    BY <1>1, <1>3 DEF Unsorted, SameSettings
  <2>2. DOMAIN l.items = 1..n /\ Len(l.items) = n /\ \A i \in 1..n : l.items[i].param = i
    BY <1>1, <2>1, ListTyped DEF InRowOrder
  <2>3. v = u /\ u # 0 /\ u \in Nat
    BY <1>1, <1>3, <2>2 DEF Indexed
  <2>4. Len(r.items) = n - 1
    BY <1>2, <2>2, <2>3 DEF Removed
  <2>5. \A k \in 1..(n - 1) : /\ was(k) \in 1..n /\ r.items[k].param \in 1..(n - 1)
                              /\ old(r.items[k].param) = l.items[was(k)].param
    BY <1>2, <2>2, <2>4 DEF Removed
  <2>6. \A k \in 1..(n - 1) : r.items[k].param = k
    <3> SUFFICES ASSUME NEW k \in 1..(n - 1) PROVE r.items[k].param = k
      OBVIOUS
    <3> PICK q \in 1..(n - 1) : q = r.items[k].param
      BY <2>5
    <3>1. old(q) = was(k)
      <4> HIDE DEF old, was
      <4> QED BY <2>2, <2>5
    <3>2. was(k) = old(k)
      <4> HIDE DEF v
      <4> QED BY <2>3
    <3>3. q = k
      <4> HIDE DEF was
      <4> QED BY <1>3, <3>1, <3>2
    <3> QED BY <3>3
  <2>7. DOMAIN r.items = 1..(n - 1)
    BY <1>3, <2>4, ListTyped
  <2> QED BY <1>3, <2>4, <2>6, <2>7 DEF InRowOrder
<1> QED BY <1>2, <1>3, <1>4, <1>5, <1>6, <1>7, <1>8 DEF Sound, Rested, r

\* A cell that is not of the column of the order moves nothing.
LEMMA WrittenSound ==
  ASSUME NEW l, Sound("browser", l), NEW u \in DOMAIN l.rows, NEW c \in Columns, NEW x \in Nat
  PROVE  Written(l, setCell(l, u, c, x), u, c, x) /\ Sound("browser", setCell(l, u, c, x))
<1> DEFINE r == setCell(l, u, c, x)
<1>1. l \in ListViews /\ Indexed(l) /\ Held(l) /\ Unsorted(l) /\ Flagged(l) /\ l.sort # NoSort
  BY DEF Sound, Indexed, Suits
<1>2. Written(l, r, u, c, x)
  BY <1>1, CellSet
<1> HIDE DEF r
<1>3. /\ r \in ListViews /\ Indexed(r) /\ Held(r) /\ SameSettings(l, r)
      /\ DOMAIN r.rows = DOMAIN l.rows /\ DOMAIN r.items = DOMAIN l.items
  <2>1. r \in ListViews /\ Indexed(r) /\ SameSettings(l, r) /\ Len(r.rows) = Len(l.rows)
        /\ Len(r.items) = Len(l.items)
    BY <1>2 DEF Written
  <2> QED BY <1>1, <2>1, ListTyped DEF Indexed
<1>4. "filter" \in r.dirty /\ ("sort" \notin r.dirty => "sort" \notin l.dirty /\ l.sort.column # c)
  BY <1>1, <1>2 DEF Written
<1>5. ASSUME "sort" \notin r.dirty PROVE Sorted(r)
  <2> DEFINE d == l.sort.column
  <2>1. Sorted(l) /\ d # c /\ d \in Columns
    BY <1>1, <1>4, <1>5, SortKey DEF Flagged
  <2>2. \A a \in DOMAIN l.rows : r.rows[a].cells[d] = l.rows[a].cells[d]
    <3> SUFFICES ASSUME NEW a \in DOMAIN l.rows PROVE r.rows[a].cells[d] = l.rows[a].cells[d]
      OBVIOUS
    <3> HIDE DEF d
    <3>1. CASE a = u
      BY <1>2, <2>1, <3>1 DEF Written
    <3>2. CASE a # u
      BY <1>2, <3>2 DEF Written
    <3> QED BY <3>1, <3>2
  <2> SUFFICES ASSUME NEW i \in DOMAIN l.items, NEW j \in DOMAIN l.items, i < j
               PROVE  Below(r, r.items[i].param, r.items[j].param)
    BY <1>3 DEF Sorted
  <2>3. r.items[i].param = l.items[i].param /\ r.items[j].param = l.items[j].param
    BY <1>2 DEF Written
  <2>4. Below(l, l.items[i].param, l.items[j].param)
    BY <2>1 DEF Sorted
  <2>5. l.items[i].param \in DOMAIN l.rows /\ l.items[j].param \in DOMAIN l.rows
    BY <1>1 DEF Held
  <2>6. r.sort = l.sort
    BY <1>3 DEF SameSettings
  <2>7. Below(r, l.items[i].param, l.items[j].param)
    BY <2>2, <2>4, <2>5, <2>6 DEF Below
  <2> QED BY <2>3, <2>7
<1>6. Flagged(r)
  BY <1>4, <1>5 DEF Flagged
<1>7. Unsorted(r) /\ Suits("browser", r)
  BY <1>1, <1>3 DEF Unsorted, Suits, SameSettings, Sound
<1>8. Distinct(r)
  <2>1. \A a \in DOMAIN l.rows : r.rows[a].data = l.rows[a].data
    BY <1>2 DEF Written
  <2> QED BY <1>3, <2>1 DEF Sound, Distinct
<1> QED BY <1>2, <1>3, <1>6, <1>7, <1>8 DEF Sound, r

\* Selecting changes nothing else.
LEMMA MarkedSound ==
  ASSUME NEW w, NEW l, Sound(w, l), NEW i \in Nat, NEW on \in BOOLEAN
  PROVE  LET r == [l EXCEPT !.items = SetState(l.items, i, on)]
         IN Marked(l, r, i, on) /\ Sound(w, r) /\ (Rested(l) => Rested(r))
<1> DEFINE r == [l EXCEPT !.items = SetState(l.items, i, on)]
<1>1. l \in ListViews /\ Indexed(l) /\ Unsorted(l) /\ Flagged(l)
  BY DEF Sound
<1>2. Marked(l, r, i, on)
  BY <1>1, StateSet
<1> HIDE DEF r
<1>3. /\ r \in ListViews /\ Indexed(r) /\ SameSettings(l, r) /\ r.rows = l.rows /\ r.dirty = l.dirty
      /\ Len(r.items) = Len(l.items) /\ DOMAIN r.items = DOMAIN l.items
      /\ \A j \in DOMAIN l.items : r.items[j].param = l.items[j].param
  <2>1. r \in ListViews /\ Len(r.items) = Len(l.items)
    BY <1>2 DEF Marked
  <2>2. DOMAIN r.items = DOMAIN l.items
    BY <1>1, <2>1, ListTyped
  <2> QED BY <1>2, <2>2 DEF Marked
<1>4. Sorted(l) => Sorted(r)
  <2> SUFFICES ASSUME Sorted(l), NEW a \in DOMAIN l.items, NEW b \in DOMAIN l.items, a < b
               PROVE  Below(r, r.items[a].param, r.items[b].param)
    BY <1>3 DEF Sorted
  <2>1. Below(l, l.items[a].param, l.items[b].param)
    BY DEF Sorted
  <2>2. Below(r, l.items[a].param, l.items[b].param)
    BY <1>3, <2>1 DEF Below, SameSettings
  <2> QED BY <1>3, <2>2
<1>5. Settled(l) => Settled(r)
  BY <1>3 DEF Settled, Fits, SameSettings
<1>6. Unsorted(r)
  BY <1>1, <1>3 DEF Unsorted, InRowOrder, SameSettings
<1>7. Distinct(r) /\ Suits(w, r)
  BY <1>3 DEF Sound, Distinct, Suits, SameSettings, Fits
<1> QED BY <1>1, <1>2, <1>3, <1>4, <1>5, <1>6, <1>7 DEF Sound, Rested, Flagged, r

\* A list about to be edited is ready when what changed of it is flagged.
Pending(w, l, r) ==
  /\ Ready(r) /\ Distinct(r) /\ Suits(w, r) /\ r.rows = l.rows /\ r.items = l.items

\* A new filter.
LEMMA FilterPending ==
  ASSUME NEW l, Sound("browser", l), NEW f \in Filters
  PROVE  Pending("browser", l, setFilter(l, f))
<1> DEFINE r == setFilter(l, f)
           d == l.dirty \cup {"filter"}
<1>1. l \in ListViews /\ Indexed(l) /\ Flagged(l) /\ l.sort # NoSort
  BY DEF Sound, Suits
<1>2. d \subseteq Flags
  BY <1>1, ListTyped DEF Flags
<1>3. r = [l EXCEPT !.filter = f, !.dirty = d]
  BY DEF setFilter
<1> HIDE DEF d, r
<1>4. /\ r \in ListViews /\ r.rows = l.rows /\ r.items = l.items /\ r.sort = l.sort /\ r.dirty = d
      /\ r.arrow = l.arrow /\ r.default = l.default
  BY <1>1, <1>2, <1>3 DEF ListViews
<1>5. "filter" \in r.dirty /\ ("sort" \notin r.dirty => "sort" \notin l.dirty)
  BY <1>4 DEF d
<1>6. Indexed(r) /\ (Sorted(l) => Sorted(r)) /\ Distinct(r) /\ Suits("browser", r)
  <2>1. Indexed(r) /\ Distinct(r)
    BY <1>1, <1>4 DEF Indexed, Held, Sound, Distinct
  <2>2. Sorted(l) => Sorted(r)
    <3>1. \A u, v : Below(l, u, v) => Below(r, u, v)
      BY <1>4 DEF Below
    <3> QED BY <1>4, <3>1 DEF Sorted
  <2>3. Suits("browser", r)
    BY <1>4 DEF Sound, Suits
  <2> QED BY <2>1, <2>2, <2>3
<1> QED BY <1>1, <1>4, <1>5, <1>6 DEF Pending, Ready, Flagged, r

\* A new sort.
LEMMA SortPending ==
  ASSUME NEW w, NEW l, Sound(w, l), NEW s \in Sorts, NEW user \in BOOLEAN,
         w = "browser" => s # NoSort
  PROVE  Pending(w, l, sortByColumn(l, s, user))
<1> DEFINE r == sortByColumn(l, s, user)
           d == l.dirty \cup {"sort"}
           default == IF user THEN l.default ELSE s
<1>1. l \in ListViews /\ Indexed(l) /\ Flagged(l)
  BY DEF Sound
<1>2. d \subseteq Flags /\ default \in Sorts
  BY <1>1, ListTyped DEF Flags
<1>3. r = [l EXCEPT !.sort = s, !.arrow = s, !.default = default, !.dirty = d]
  <2>1. r = [l EXCEPT !.sort = s, !.arrow = s, !.default = IF user THEN l.default ELSE s,
                      !.dirty = l.dirty \cup {"sort"}]
    BY DEF sortByColumn
  <2> QED BY <2>1
<1> HIDE DEF d, r, default
<1>4. /\ r \in ListViews /\ r.rows = l.rows /\ r.items = l.items /\ r.sort = s /\ r.dirty = d
      /\ r.arrow = s /\ r.default = default /\ r.filter = l.filter
  BY <1>1, <1>2, <1>3 DEF ListViews
<1>5. "sort" \in r.dirty /\ ("filter" \notin r.dirty => "filter" \notin l.dirty)
  BY <1>4 DEF d
<1>6. Indexed(r) /\ (Settled(l) => Settled(r)) /\ Distinct(r)
  BY <1>1, <1>4 DEF Indexed, Held, Settled, Fits, Sound, Distinct
<1>7. Suits(w, r)
  BY <1>4 DEF Sound, Suits, Fits, default
<1>8. r.sort = NoSort => \A u \in DOMAIN r.rows : Fits(r, u)
  BY <1>4, <1>7 DEF Suits
<1> QED BY <1>1, <1>4, <1>5, <1>6, <1>7, <1>8 DEF Pending, Ready, Flagged, r

\* A click on the header of a column.
LEMMA ClickPending ==
  ASSUME NEW w, NEW l, Sound(w, l), NEW c \in Columns
  PROVE  Pending(w, l, onColumnClick(l, c))
<1> DEFINE s == [column |-> c, order |-> IF l.sort.column = c /\ l.sort.order = "asc"
                                         THEN "desc" ELSE "asc"]
<1>1. s \in Sorts /\ s.column = c
  BY DEF Sorts
<1>2. s # NoSort
  BY <1>1, Column DEF NoSort
<1> HIDE DEF s
<1>3. Pending(w, l, sortByColumn(l, s, TRUE))
  BY <1>1, <1>2, SortPending
<1> QED BY <1>3 DEF onColumnClick, s

\* The default sort again.
LEMMA ResetPending ==
  ASSUME NEW w, NEW l, Sound(w, l), l.sort # NoSort
  PROVE  Pending(w, l, resetColumns(l))
<1>1. l.default \in Sorts /\ l \in ListViews /\ (w = "browser" => l.default # NoSort)
  BY ListTyped DEF Sound, Suits
<1>2. Pending(w, l, sortByColumn(l, l.default, TRUE))
  BY <1>1, SortPending
<1>3. resetColumns(l) = sortByColumn(l, l.default, TRUE)
  <2>1. resetColumns(l) = [l EXCEPT !.sort = l.default, !.arrow = l.default, !.dirty = l.dirty \cup {"sort"}]
    BY DEF resetColumns
  <2>2. sortByColumn(l, l.default, TRUE) =
          [l EXCEPT !.sort = l.default, !.arrow = l.default, !.default = l.default, !.dirty = l.dirty \cup {"sort"}]
    BY DEF sortByColumn
  <2> QED BY <1>1, <2>1, <2>2 DEF ListViews
<1> QED BY <1>2, <1>3

\* A list that was just filled is sorted and filtered when its edit ends.
LEMMA FillPending ==
  ASSUME NEW w, NEW l, Sound(w, l), NEW rs \in Contents, NEW sel,
         NEW r, Filled(l, r, rs, sel, Len(rs))
  PROVE  Ready(r) /\ Distinct(r) /\ Suits(w, r)
<1>1. Fillable(rs)
  BY ContentTyped
<1> PICK K \in Nat : K = Len(rs)
  BY <1>1 DEF Fillable
<1>2. /\ r \in ListViews /\ Indexed(r) /\ InRowOrder(r) /\ Len(r.rows) = K /\ SameSettings(l, r)
      /\ "filter" \in r.dirty /\ (l.sort # NoSort /\ K # 0 => "sort" \in r.dirty)
      /\ \A u \in 1..K : r.rows[u].data = rs[u].data /\ r.rows[u].cells = rs[u].cells
  BY DEF Filled
<1>3. DOMAIN r.rows = 1..K /\ DOMAIN r.items = 1..K /\ DOMAIN rs = 1..K
      /\ \A i \in 1..K : r.items[i].param = i
  BY <1>1, <1>2, ListTyped DEF InRowOrder, Fillable
<1>4. "sort" \notin r.dirty => Sorted(r)
  <2>1. ASSUME "sort" \notin r.dirty, NEW i \in 1..K, NEW j \in 1..K, i < j PROVE Below(r, i, j)
    <3>1. l.sort = NoSort \/ K = 0
      BY <1>2, <2>1
    <3>2. r.sort = NoSort
      BY <1>2, <2>1, <3>1 DEF SameSettings
    <3> QED BY <2>1, <3>2 DEF Below
  <2> QED BY <1>3, <2>1 DEF Sorted
<1>5. Distinct(r)
  <2>1. \A i, j \in DOMAIN rs : rs[i].data = rs[j].data => i = j
    BY ContentsAssumption
  <2> QED BY <1>2, <1>3, <2>1 DEF Distinct
<1>6. Suits(w, r)
  <2>1. ASSUME r.filter = AllRows PROVE \A u \in DOMAIN r.rows : Fits(r, u)
    BY <1>2, <1>3, <2>1, AllFit DEF Fits
  <2> QED BY <1>2, <2>1 DEF Sound, Suits, SameSettings
<1>7. r.sort = NoSort => \A u \in DOMAIN r.rows : Fits(r, u)
  BY <1>6 DEF Suits
<1> QED BY <1>2, <1>4, <1>5, <1>6, <1>7 DEF Ready

\* A list as a window that is opened again finds it.
LEMMA ReopenSound ==
  ASSUME NEW w, NEW l, Sound(w, l)
  PROVE  LET r == restoreState(Empty(DefaultSort(w), AllRows), l.sort)
         IN Sound(w, r) /\ Rested(r) /\ r.rows = <<>> /\ r.items = <<>>
<1> DEFINE e == Empty(DefaultSort(w), AllRows)
           r == restoreState(e, l.sort)
           none == <<>>
<1>1. Sound(w, e) /\ Rested(e) /\ e.rows = none /\ e.items = none /\ e.dirty = {}
  BY EmptySound DEF Sound, Suits
<1>2. DOMAIN none = {}
  OBVIOUS
<1> HIDE DEF e, none
<1>3. CASE l.sort.column = 0
  <2>1. r = e
    BY <1>3 DEF restoreState
  <2> QED BY <1>1, <2>1 DEF e, none
<1>4. CASE l.sort.column # 0
  <2> DEFINE x == sortByColumn(e, l.sort, TRUE)
  <2>1. r = x
    BY <1>4 DEF restoreState
  <2>2. l.sort \in Sorts /\ (w = "browser" => l.sort # NoSort)
    BY ListTyped DEF Sound, Suits
  <2>3. Pending(w, e, x)
    BY <1>1, <2>2, SortPending
  <2> HIDE DEF x
  <2>4. x.rows = none /\ x.items = none /\ x \in ListViews /\ Indexed(x) /\ Distinct(x) /\ Suits(w, x)
    BY <1>1, <2>3 DEF Pending, Ready
  <2>5. Len(none) = 0
    BY DEF none
  <2>6. Unsorted(x) /\ Sorted(x) /\ Settled(x)
    BY <1>2, <2>4, <2>5 DEF Unsorted, InRowOrder, Sorted, Settled
  <2>7. Sound(w, x) /\ Rested(x)
    BY <2>4, <2>6 DEF Sound, Rested, Flagged
  <2> QED BY <2>1, <2>4, <2>7 DEF e, none
<1> QED BY <1>3, <1>4

-----------------------------------------------------------------------------
(* The windows *)

ListInv ==
  /\ Sound(window, list)
  /\ pc \in {"rest", "do", "uninstall", "undefined"} /\ keep \in Nat
  /\ pc \in {"rest", "uninstall"} => Rested(list)
  /\ pc = "do" => window = "browser"

\* What the end of an edit keeps of the list before it.
Kept(l, r) == SameRows(l, r) /\ SameSelection(l, r)

\* The end of an edit brings the list to rest.
LEMMA EditedSound ==
  ASSUME NEW w, NEW l, Ready(l), Distinct(l), Suits(w, l), Edited(l)
  PROVE  Sound(w, list') /\ Rested(list') /\ Kept(l, list')
<1>1. PICK tie \in Ties(l) : list' = endEdit(l, tie)
  BY DEF Edited
<1>2. Sound(w, endEdit(l, tie)) /\ Rested(endEdit(l, tie))
  BY SoundEdit
<1>3. Kept(l, endEdit(l, tie))
  BY EditEnds DEF Kept
<1> QED BY <1>1, <1>2, <1>3

\* What Refill does to the list.
LEMMA Refilled ==
  ASSUME ListInv, NEW rs \in Contents, Refill(rs)
  PROVE  \E l : /\ Filled(list, l, rs, SelectedData(list), Len(rs))
                /\ Edited(l)
<1> DEFINE sel == SelectedData(list)
<1>1. PICK h : /\ h = [k \in 0..Len(rs) |-> IF k = 0 THEN setFilter(clear(list), list.filter)
                                            ELSE AddRow(h[k - 1], rs[k], sel)]
               /\ Edited(h[Len(rs)])
  <2> DEFINE base == setFilter(clear(list), list.filter)
             One(k, x) == AddRow(x, rs[k], sel)
             K == Len(rs)
             S == {x \in ListViews : Indexed(x) /\ InRowOrder(x)}
             step == [k \in 1..K |-> [x \in S |-> One(k, x)]]
  <2>0. Fillable(rs) /\ list \in ListViews /\ K \in Nat
    BY ContentTyped DEF ListInv, Sound, Fillable
  <2>1. base \in S
    <3>1. Filled(list, base, rs, sel, 0)
      BY <2>0, Emptied
    <3> QED BY <3>1 DEF Filled
  <2>2. \A k \in 1..K : \A x \in S : One(k, x) \in S
    <3> SUFFICES ASSUME NEW k \in 1..K, NEW x \in S PROVE One(k, x) \in S
      OBVIOUS
    <3>1. rs[k].data \in Data /\ rs[k].cells \in Cells
      BY <2>0 DEF Fillable
    <3>2. Lengthened(x, One(k, x), rs[k], sel)
      BY <3>1, RowLengthened
    <3> QED BY <3>2 DEF Lengthened
  <2>3. \A k \in 1..K : \A x \in S : step[k][x] = One(k, x) /\ step[k][x] \in S
    <3> HIDE DEF S, One
    <3> QED BY <2>2
  <2>4. PICK g \in [0..K -> S] : Walk(g, K, base, step)
    <3> HIDE DEF S, base, step, K
    <3> QED BY <2>0, <2>1, <2>3, Steps
  <2>5. \A k \in 1..K : g[k] = One(k, g[k - 1])
    <3> SUFFICES ASSUME NEW k \in 1..K PROVE g[k] = One(k, g[k - 1])
      OBVIOUS
    <3>1. k - 1 \in 0..K
      BY <2>0
    <3>2. g[k - 1] \in S
      <4> HIDE DEF S, K
      <4> QED BY <3>1
    <3>3. g[k] = step[k][g[k - 1]]
      <4> HIDE DEF step, K
      <4> QED BY <2>4 DEF Walk
    <3> HIDE DEF S, One
    <3> QED BY <2>3, <3>2, <3>3
  <2>6. g = [k \in 0..K |-> IF k = 0 THEN base ELSE One(k, g[k - 1])]
    <3>1. \A k \in 0..K : k = 0 \/ k \in 1..K
      BY <2>0
    <3>2. g[0] = base
      BY <2>4 DEF Walk
    <3>3. g = [k \in 0..K |-> g[k]]
      <4> HIDE DEF S, K
      <4> QED OBVIOUS
    <3>4. \A k \in 0..K : g[k] = IF k = 0 THEN base ELSE One(k, g[k - 1])
      <4> HIDE DEF One, K, base
      <4> QED BY <2>5, <3>1, <3>2
    <3> HIDE DEF One, K, base
    <3> QED BY <3>3, <3>4
  <2>7. \E h : h = [k \in 0..K |-> IF k = 0 THEN base ELSE One(k, h[k - 1])]
    BY <2>6
  <2> QED BY <2>7 DEF Refill
<1>2. list \in ListViews
  BY DEF ListInv, Sound
<1>3. Filled(list, h[Len(rs)], rs, sel, Len(rs))
  <2> HIDE DEF sel
  <2> QED BY <1>1, <1>2, AllFilled
<1> QED BY <1>1, <1>3

\* The lists are at rest at first.
LEMMA ListInitInv == ListInit => ListInv
<1> SUFFICES ASSUME ListInit PROVE ListInv
  OBVIOUS
<1>1. window \in {"browser", "manager"} /\ list = Empty(DefaultSort(window), AllRows)
      /\ pc = "rest" /\ keep = 0
  BY DEF ListInit
<1>2. Sound(window, list) /\ Rested(list)
  BY <1>1, EmptySound
<1> QED BY <1>1, <1>2 DEF ListInv

\* A row of the selection is a row.
LEMMA CurrentRow ==
  ASSUME ListInv, pc = "uninstall", Remaining > 0
  PROVE  /\ currentIndex(list) \in Picked(list) /\ currentIndex(list) \in DOMAIN list.rows
         /\ currentIndex(list) + keep <= rowCount(list) => currentIndex(list) + keep \in DOMAIN list.rows
<1> DEFINE s == SelectedInView(list)
<1>1. /\ list \in ListViews /\ Held(list) /\ Unsorted(list) /\ keep \in Nat
      /\ DOMAIN list.rows = 1..Len(list.rows) /\ Len(list.rows) \in Nat
  BY ListTyped DEF ListInv, Sound, Indexed
<1>2. s \in Seq(Picked(list)) /\ Picked(list) \subseteq DOMAIN list.rows
  BY <1>1, SelectionPicks
<1>3. Len(s) - keep > 0
  BY DEF Remaining
<1> HIDE DEF s
<1>4. Len(s) \in Nat /\ Len(s) # 0 /\ s # <<>>
  BY <1>1, <1>2, <1>3
<1>5. Head(s) \in Picked(list)
  BY <1>2, <1>4
<1>6. currentIndex(list) = Head(s)
  BY <1>4 DEF currentIndex, s
<1>7. Head(s) \in DOMAIN list.rows
  BY <1>2, <1>5
<1>8. Head(s) + keep <= Len(list.rows) => Head(s) + keep \in 1..Len(list.rows)
  BY <1>1, <1>7
<1> QED BY <1>1, <1>5, <1>6, <1>7, <1>8 DEF rowCount

\* Each step keeps the invariant.
LEMMA ListStepInv ==
  ASSUME ListInv, [ListNext]_listVars
  PROVE  ListInv'
<1>0. /\ Sound(window, list) /\ pc \in {"rest", "do", "uninstall", "undefined"} /\ keep \in Nat
      /\ window \in {"browser", "manager"} /\ list \in ListViews
  BY DEF ListInv, Sound, Suits
<1>1. ASSUME pc' = "rest", window' = window, keep' \in Nat, Sound(window, list'), Rested(list')
      PROVE  ListInv'
  BY <1>1 DEF ListInv
<1>2. ASSUME NEW l, Pending(window, list, l), Edited(l), User PROVE ListInv'
  <2>1. Sound(window, list') /\ Rested(list')
    BY <1>2, EditedSound DEF Pending
  <2> QED BY <1>0, <1>1, <1>2, <2>1 DEF User, loop
<1>3. CASE Selects
  <2>1. PICK i \in 0..visibleRowCount(list), on \in BOOLEAN : Select(i, on)
    BY <1>3 DEF Selects
  <2> DEFINE r == [list EXCEPT !.items = SetState(list.items, i, on)]
  <2>2. list' = r /\ User
    BY <2>1 DEF Select
  <2>3. i \in Nat
    BY <1>0, ListTyped DEF visibleRowCount
  <2>4. Sound(window, r) /\ (Rested(list) => Rested(r))
    BY <1>0, <2>3, MarkedSound
  <2> HIDE DEF r
  <2> QED BY <1>0, <1>1, <2>2, <2>4 DEF User, loop, ListInv
<1>4. ASSUME NEW rs \in Contents, Refill(rs) PROVE ListInv'
  <2>1. PICK l : Filled(list, l, rs, SelectedData(list), Len(rs)) /\ Edited(l)
    BY <1>4, Refilled
  <2>2. Ready(l) /\ Distinct(l) /\ Suits(window, l)
    BY <1>0, <2>1, FillPending
  <2>3. Sound(window, list') /\ Rested(list')
    BY <2>1, <2>2, EditedSound
  <2>4. User
    BY <1>4 DEF Refill
  <2> QED BY <1>0, <1>1, <2>3, <2>4 DEF User, loop
<1>5. ASSUME NEW f \in Filters, SetFilter(f) PROVE ListInv'
  <2>1. Pending(window, list, setFilter(list, f))
    BY <1>0, <1>5, FilterPending DEF SetFilter
  <2> QED BY <1>2, <1>5, <2>1 DEF SetFilter
<1>6. ASSUME NEW c \in Columns, ColumnClick(c) PROVE ListInv'
  BY <1>0, <1>2, <1>6, ClickPending DEF ColumnClick
<1>7. CASE ResetColumns
  BY <1>0, <1>2, <1>7, ResetPending DEF ResetColumns
<1>8. CASE Reopen
  <2>1. Sound(window, list') /\ Rested(list')
    BY <1>0, <1>8, ReopenSound DEF Reopen
  <2> QED BY <1>0, <1>1, <1>8, <2>1 DEF Reopen, User, loop
<1>9. CASE BeginDo
  BY <1>9 DEF BeginDo, ListInv
<1>10. CASE DoNext
  <2> DEFINE u == Current(Head(todo))
  <2>1. /\ pc = "do" /\ window = "browser" /\ window' = window /\ keep' = keep
        /\ pc' \in {"do", "undefined"}
    BY <1>10 DEF DoNext, ListInv
  <2>2. CASE u \notin DOMAIN list.rows
    <3>1. list' = list
      BY <1>10, <2>2 DEF DoNext
    <3> QED BY <1>0, <2>1, <3>1 DEF ListInv
  <2>3. CASE u \in DOMAIN list.rows /\ list' = removeRow(list, u)
    <3>1. Sound(window, list')
      BY <1>0, <2>3, RemovedSound
    <3> QED BY <1>0, <2>1, <3>1 DEF ListInv
  <2>4. ASSUME NEW v \in Values, u \in DOMAIN list.rows, list' = setCell(list, u, 1, v) PROVE ListInv'
    <3>1. 1 \in Columns /\ v \in Nat
      BY Column, ContentsAssumption
    <3> HIDE DEF u
    <3>2. Sound("browser", setCell(list, u, 1, v))
      BY <1>0, <2>1, <2>4, <3>1, WrittenSound
    <3> QED BY <1>0, <2>1, <2>4, <3>2 DEF ListInv
  <2> QED BY <1>10, <2>2, <2>3, <2>4 DEF DoNext
<1>11. CASE EndDo
  <2>1. Ready(list) /\ Distinct(list) /\ Suits(window, list)
    BY <1>0, SoundReady DEF Sound
  <2>2. Sound(window, list') /\ Rested(list')
    BY <1>11, <2>1, EditedSound DEF EndDo
  <2> QED BY <1>1, <1>11, <2>2 DEF EndDo, Idle
<1>12. CASE BeginUninstall
  BY <1>12 DEF BeginUninstall, ListInv
<1>13. CASE UninstallNext
  <2> DEFINE u == currentIndex(list) + keep
  <2>1. pc = "uninstall" /\ window' = window /\ keep' \in Nat /\ Rested(list) /\ Remaining > 0
        /\ pc' \in {"uninstall", "undefined"}
    BY <1>13 DEF UninstallNext, ListInv
  <2>2. CASE list' = list
    BY <1>0, <2>1, <2>2 DEF ListInv
  <2>3. CASE u <= rowCount(list) /\ list' = removeRow(list, u)
    <3>1. u \in DOMAIN list.rows
      BY <2>1, <2>3, CurrentRow
    <3> HIDE DEF u
    <3>2. Sound(window, list') /\ Rested(list')
      BY <1>0, <2>1, <2>3, <3>1, RemovedSound
    <3> QED BY <2>1, <3>2 DEF ListInv
  <2>4. list' = list \/ (~(u > rowCount(list)) /\ list' = removeRow(list, u))
    BY <1>13 DEF UninstallNext
  <2>5. ASSUME ~(u > rowCount(list)) PROVE u <= rowCount(list)
    <3>1. SelectedInView(list) \in Seq(Picked(list)) /\ Picked(list) \subseteq DOMAIN list.rows
      BY <1>0, SelectionPicks DEF Sound, Indexed
    <3>2. currentIndex(list) \in Nat
      <4> DEFINE s == SelectedInView(list)
      <4>1. s \in Seq(Picked(list)) /\ Picked(list) \subseteq Nat
        BY <1>0, <3>1, ListTyped
      <4> HIDE DEF s
      <4>2. s = <<>> \/ Head(s) \in Nat
        BY <4>1
      <4> QED BY <4>2 DEF currentIndex, s
    <3>3. rowCount(list) \in Nat
      BY <1>0, ListTyped DEF rowCount
    <3> QED BY <1>0, <2>5, <3>2, <3>3
  <2> QED BY <2>2, <2>3, <2>4, <2>5
<1>14. CASE EndUninstall
  <2>1. list' = list /\ window' = window /\ pc = "uninstall" /\ pc' = "rest" /\ keep' = 0
    BY <1>14 DEF EndUninstall, Idle
  <2> QED BY <1>0, <1>1, <2>1 DEF ListInv
<1>15. CASE UNCHANGED listVars
  BY <1>0, <1>15 DEF listVars, loop, ListInv
<1> QED BY <1>3, <1>4, <1>5, <1>6, <1>7, <1>8, <1>9, <1>10, <1>11, <1>12, <1>13, <1>14, <1>15 DEF ListNext

\* The invariant of the lists.
LEMMA ListInvariant == ListSpec => []ListInv
<1>1. ListInit => ListInv
  BY ListInitInv
<1>2. ListInv /\ [ListNext]_listVars => ListInv'
  BY ListStepInv
<1> QED BY <1>1, <1>2, PTL DEF ListSpec

\* A list at rest shows its rows.
LEMMA InvShows == ListInv => ViewShowsRows
<1> SUFFICES ASSUME ListInv PROVE ViewShowsRows
  OBVIOUS
<1>1. /\ list \in ListViews /\ Indexed(list) /\ Held(list) /\ list.arrow = list.sort
      /\ \A i \in DOMAIN list.items : list.items[i].param \in DOMAIN list.rows
  BY DEF ListInv, Sound, Suits, Indexed, Held
<1>2. IndexesAgree
  <2> SUFFICES ASSUME NEW u \in DOMAIN list.rows
               PROVE  /\ list.rows[u].userIndex = u
                      /\ list.rows[u].viewIndex =
                           IF \E i \in DOMAIN list.items : list.items[i].param = u
                           THEN CHOOSE i \in DOMAIN list.items : list.items[i].param = u ELSE 0
    BY DEF IndexesAgree
  <2>1. list.rows[u].userIndex = u
    BY <1>1 DEF Held
  <2>2. CASE \E i \in DOMAIN list.items : list.items[i].param = u
    <3>1. PICK i \in DOMAIN list.items : list.items[i].param = u
      BY <2>2
    <3>2. \A j \in DOMAIN list.items : list.items[j].param = u => j = i
      BY <1>1, <3>1 DEF Held
    <3>3. (CHOOSE j \in DOMAIN list.items : list.items[j].param = u) = i
      BY <3>1, <3>2
    <3>4. list.rows[u].viewIndex = i
      BY <1>1, <3>1 DEF Indexed
    <3> QED BY <2>1, <2>2, <3>3, <3>4
  <2>3. CASE ~\E i \in DOMAIN list.items : list.items[i].param = u
    <3>1. list.rows[u].viewIndex = 0
      BY <1>1, <2>3 DEF Held
    <3> QED BY <2>1, <2>3, <3>1
  <2> QED BY <2>2, <2>3
<1>3. ASSUME pc = "rest"
      PROVE  {list.items[i].param : i \in DOMAIN list.items} =
                {u \in DOMAIN list.rows : Matches(list.filter, list.rows[u].cells)}
  <2>1. Settled(list)
    BY <1>3 DEF ListInv, Rested
  <2>2. \A u \in DOMAIN list.rows : HasItem(list, u) <=> Fits(list, u)
    BY <1>1, <2>1, HeldShown DEF Settled
  <2> QED BY <1>1, <2>2 DEF HasItem, Fits
<1>4. \A i \in DOMAIN list.items : list.items[i].texts = list.rows[list.items[i].param].cells
  BY <1>1 DEF Held
<1>5. ASSUME pc = "rest", NEW i \in DOMAIN list.items, NEW j \in DOMAIN list.items, i < j
      PROVE  /\ list.items[i].param # list.items[j].param
             /\ \E tie \in Ties(list) : Precedes(list, tie, list.items[i].param, list.items[j].param)
  <2>1. Sorted(list)
    BY <1>5 DEF ListInv, Rested
  <2>2. i # j
    BY <1>1, <1>5, ListTyped
  <2>3. list.items[i].param # list.items[j].param
    BY <1>1, <2>2 DEF Held
  <2>4. Below(list, list.items[i].param, list.items[j].param)
    BY <1>5, <2>1 DEF Sorted
  <2> QED BY <1>1, <2>3, <2>4, PrecedesBelow
<1> QED BY <1>1, <1>2, <1>3, <1>4, <1>5 DEF ViewShowsRows

\* A row knows its number and where it is shown, in the middle of a loop too, and between
\* two loops the view is what there is, in order: whatever was typed, clicked, filled in
\* and removed before (listview.cpp:144-324).
THEOREM ViewIsRight == ListSpec => []ViewShowsRows
<1>1. ListInv => ViewShowsRows
  BY InvShows
<1> QED BY <1>1, ListInvariant, PTL

-----------------------------------------------------------------------------
(* Loops over the selection *)

\* Rows of the loop that were not visited yet.
Ahead == {list.rows[t - offset].data : t \in ToSet(todo)}

\* Each row that is to be visited is a row, at its index less the rows that are gone.
LoopInv ==
  /\ visited \in Seq(Data)
  /\ \A i, j \in DOMAIN visited : visited[i] = visited[j] => i = j
  /\ pc # "undefined"
  /\ pc = "rest" => visited = <<>> /\ offset = 0 /\ keep = 0
  /\ pc = "do" =>
       /\ todo \in Seq(Nat) /\ offset \in Nat
       /\ \A i, j \in DOMAIN todo : i < j => todo[i] < todo[j]
       /\ \A i \in DOMAIN todo : todo[i] - offset \in DOMAIN list.rows
       /\ Ahead \cap ToSet(visited) = {} /\ Ahead \cup ToSet(visited) = chosen
  /\ pc = "uninstall" =>
       /\ keep = 0 /\ chosen \cap Protected = {}
       /\ SelectedData(list) \cap ToSet(visited) = {}
       /\ SelectedData(list) \cup ToSet(visited) = chosen
  /\ pc = "rest" => chosen = {}

\* One more is visited.
LEMMA Visiting ==
  ASSUME NEW v \in Seq(Data), NEW d \in Data, d \notin ToSet(v),
         \A i, j \in DOMAIN v : v[i] = v[j] => i = j
  PROVE  /\ Append(v, d) \in Seq(Data) /\ ToSet(Append(v, d)) = ToSet(v) \cup {d}
         /\ \A i, j \in DOMAIN Append(v, d) : Append(v, d)[i] = Append(v, d)[j] => i = j
<1> PICK n \in Nat : n = Len(v)
  OBVIOUS
<1> DEFINE w == Append(v, d)
<1>1. /\ w \in Seq(Data) /\ DOMAIN v = 1..n /\ DOMAIN w = 1..(n + 1)
      /\ \A i \in 1..n : w[i] = v[i]
      /\ w[n + 1] = d
  OBVIOUS
<1> HIDE DEF w
<1>2. \A i \in 1..(n + 1) : i \in 1..n \/ i = n + 1
  OBVIOUS
<1>3. ToSet(w) = ToSet(v) \cup {d}
  <2>1. \A i \in 1..n : i \in 1..(n + 1)
    OBVIOUS
  <2>2. n + 1 \in 1..(n + 1)
    OBVIOUS
  <2> QED BY <1>1, <1>2, <2>1, <2>2 DEF ToSet
<1>4. \A i \in 1..n : v[i] # d
  BY <1>1 DEF ToSet
<1>5. \A i, j \in 1..(n + 1) : w[i] = w[j] => i = j
  BY <1>1, <1>2, <1>4
<1> QED BY <1>1, <1>3, <1>5 DEF w

\* Of the rows that are left, those of other numbers moved with their data.
LEMMA MovedUp ==
  ASSUME NEW l \in ListViews, NEW u \in DOMAIN l.rows, NEW r, Removed(l, r, u),
         NEW t \in DOMAIN l.rows, t > u
  PROVE  t - 1 \in DOMAIN r.rows /\ r.rows[t - 1].data = l.rows[t].data
<1> PICK n \in Nat : n = Len(l.rows)
  BY ListTyped
<1>1. DOMAIN l.rows = 1..n /\ t \in 1..n /\ u \in 1..n /\ t - 1 \in 1..(n - 1) /\ ~(t - 1 < u) /\ t - 1 + 1 = t
  BY ListTyped
<1>2. r \in ListViews /\ Len(r.rows) = n - 1
  BY DEF Removed
<1>3. DOMAIN r.rows = 1..(n - 1)
  BY <1>2, ListTyped
<1>4. r.rows[t - 1].data = l.rows[t].data
  BY <1>1 DEF Removed
<1> QED BY <1>1, <1>3, <1>4

\* The next row of a loop, and those after it.
LEMMA AheadNow ==
  ASSUME NEW s \in Seq(Nat), s # <<>>, NEW o \in Nat,
         \A i, j \in DOMAIN s : i < j => s[i] < s[j]
  PROVE  /\ Head(s) \in Nat /\ Tail(s) \in Seq(Nat) /\ 1 \in DOMAIN s /\ Head(s) = s[1]
         /\ \A i \in DOMAIN Tail(s) : i + 1 \in DOMAIN s /\ Tail(s)[i] = s[i + 1] /\ Head(s) < Tail(s)[i]
         /\ \A i, j \in DOMAIN Tail(s) : i < j => Tail(s)[i] < Tail(s)[j]
         /\ ToSet(s) = {Head(s)} \cup ToSet(Tail(s))
<1> PICK n \in Nat : n = Len(s)
  OBVIOUS
<1> DEFINE t == Tail(s)
           h == Head(s)
<1>1. /\ n # 0 /\ DOMAIN s = 1..n /\ h = s[1] /\ h \in Nat /\ t \in Seq(Nat) /\ Len(t) = n - 1
      /\ DOMAIN t = 1..(n - 1) /\ \A i \in 1..(n - 1) : t[i] = s[i + 1]
  OBVIOUS
<1> HIDE DEF t, h
<1>2. 1 \in 1..n /\ \A i \in 1..(n - 1) : i + 1 \in 1..n /\ 1 < i + 1
  BY <1>1
<1>3. \A i \in 1..(n - 1) : h < t[i]
  BY <1>1, <1>2
<1>4. \A i, j \in 1..(n - 1) : i < j => t[i] < t[j]
  <2> SUFFICES ASSUME NEW i \in 1..(n - 1), NEW j \in 1..(n - 1), i < j PROVE t[i] < t[j]
    OBVIOUS
  <2>1. i + 1 \in 1..n /\ j + 1 \in 1..n /\ i + 1 < j + 1
    BY <1>1
  <2>2. s[i + 1] < s[j + 1]
    BY <1>1, <2>1
  <2> QED BY <1>1, <2>2
<1>5. ToSet(s) = {h} \cup ToSet(t)
  <2>1. \A i \in 1..n : i = 1 \/ (i - 1 \in 1..(n - 1) /\ i - 1 + 1 = i)
    BY <1>1
  <2>2. ToSet(s) = {s[i] : i \in 1..n} /\ ToSet(t) = {t[i] : i \in 1..(n - 1)}
    BY <1>1 DEF ToSet
  <2>3. \A i \in 1..n : s[i] = h \/ \E j \in 1..(n - 1) : s[i] = t[j]
    BY <1>1, <2>1
  <2>4. \A j \in 1..(n - 1) : \E i \in 1..n : t[j] = s[i]
    BY <1>1, <1>2
  <2>5. \E i \in 1..n : h = s[i]
    BY <1>1, <1>2
  <2>6. ASSUME NEW x \in ToSet(s) PROVE x = h \/ x \in ToSet(t)
    <3>1. PICK i \in 1..n : x = s[i]
      BY <2>2
    <3> QED BY <2>2, <2>3, <3>1
  <2>7. ASSUME NEW x \in ToSet(t) PROVE x \in ToSet(s)
    <3>1. PICK j \in 1..(n - 1) : x = t[j]
      BY <2>2
    <3> QED BY <2>2, <2>4, <3>1
  <2>8. h \in ToSet(s)
    BY <2>2, <2>5
  <2> QED BY <2>6, <2>7, <2>8
<1> QED BY <1>1, <1>2, <1>3, <1>4, <1>5 DEF t, h

\* The selected data, by the items.
LEMMA SelectedMeans ==
  ASSUME NEW l \in ListViews, Held(l), Unsorted(l), NEW d
  PROVE  d \in SelectedData(l) <=>
           \E i \in DOMAIN l.items : l.items[i].selected /\ l.rows[l.items[i].param].data = d
<1>1. SelectedData(l) = {l.rows[u].data : u \in Picked(l)}
  BY SelectionPicks
<1>2. \A u : u \in Picked(l) <=> \E i \in DOMAIN l.items : l.items[i].selected /\ l.items[i].param = u
  BY DEF Picked
<1> QED BY <1>1, <1>2

\* The removal of a row leaves the selection of the others.
LEMMA RemovedSelection ==
  ASSUME NEW w, NEW l, Sound(w, l), NEW u \in DOMAIN l.rows, NEW r, Removed(l, r, u), Sound(w, r)
  PROVE  /\ SelectedData(r) = SelectedData(l) \ {l.rows[u].data}
         /\ l.rows[u].data \notin InView(r)
<1> PICK n \in Nat : n = Len(l.rows)
  BY ListTyped DEF Sound
<1> PICK m \in Nat : m = Len(l.items)
  BY ListTyped DEF Sound
<1> DEFINE old(x) == IF x < u THEN x ELSE x + 1
           v == l.rows[u].viewIndex
           was(k) == IF v = 0 \/ k < v THEN k ELSE k + 1
           q == Len(r.items)
<1>1. /\ l \in ListViews /\ Indexed(l) /\ Held(l) /\ Unsorted(l) /\ Distinct(l)
      /\ r \in ListViews /\ Held(r) /\ Unsorted(r)
      /\ DOMAIN l.rows = 1..n /\ u \in 1..n /\ DOMAIN l.items = 1..m /\ DOMAIN r.items = 1..q
      /\ v \in Nat
  BY ListTyped DEF Sound, Indexed
<1>2. \A k \in 1..q :
        /\ was(k) \in 1..m /\ was(k) # v
        /\ r.rows[r.items[k].param].data = l.rows[l.items[was(k)].param].data
        /\ r.items[k].selected = l.items[was(k)].selected
  <2> SUFFICES ASSUME NEW k \in 1..q
               PROVE  /\ was(k) \in 1..m /\ was(k) # v
                      /\ r.rows[r.items[k].param].data = l.rows[l.items[was(k)].param].data
                      /\ r.items[k].selected = l.items[was(k)].selected
    OBVIOUS
  <2>1. /\ was(k) \in 1..m /\ was(k) # v /\ r.items[k].param \in 1..(n - 1)
        /\ old(r.items[k].param) = l.items[was(k)].param
        /\ r.items[k].selected = l.items[was(k)].selected
    BY <1>1 DEF Removed
  <2>2. r.rows[r.items[k].param].data = l.rows[old(r.items[k].param)].data
    BY <2>1 DEF Removed
  <2> HIDE DEF was, old
  <2> QED BY <2>1, <2>2
<1>3. \A i \in 1..m : i # v => \E k \in 1..q : was(k) = i
  <2> SUFFICES ASSUME NEW i \in 1..m, i # v PROVE \E k \in 1..q : was(k) = i
    OBVIOUS
  <2>1. q = IF v = 0 THEN m ELSE m - 1
    BY DEF Removed
  <2>2. v # 0 => v \in 1..m
    BY <1>1, IndexedBack
  <2>3. v = 0 \/ i < v => i \in 1..q /\ was(i) = i
    BY <1>1, <2>1, <2>2
  <2>4. v # 0 /\ i > v => i - 1 \in 1..q /\ was(i - 1) = i
    BY <1>1, <2>1, <2>2
  <2>5. v = 0 \/ i < v \/ (v # 0 /\ i > v)
    BY <1>1
  <2> QED BY <2>3, <2>4, <2>5
<1>4. \A i \in 1..m : i = v <=> l.rows[l.items[i].param].data = l.rows[u].data
  <2> SUFFICES ASSUME NEW i \in 1..m PROVE i = v <=> l.rows[l.items[i].param].data = l.rows[u].data
    OBVIOUS
  <2>1. l.items[i].param \in 1..n /\ l.rows[l.items[i].param].viewIndex = i /\ i # 0
    BY <1>1 DEF Indexed, Held
  <2>2. i = v => l.items[i].param = u
    BY <1>1, <2>1, IndexedBack
  <2>3. l.rows[l.items[i].param].data = l.rows[u].data => l.items[i].param = u
    BY <1>1, <2>1 DEF Distinct
  <2> QED BY <2>1, <2>2, <2>3
<1> HIDE DEF was, v, q
<1>5. ASSUME NEW d
      PROVE  (\E k \in 1..q : r.items[k].selected /\ r.rows[r.items[k].param].data = d) <=>
             (d # l.rows[u].data
              /\ \E i \in 1..m : l.items[i].selected /\ l.rows[l.items[i].param].data = d)
  <2>1. ASSUME NEW k \in 1..q, r.items[k].selected, r.rows[r.items[k].param].data = d
        PROVE  d # l.rows[u].data
               /\ \E i \in 1..m : l.items[i].selected /\ l.rows[l.items[i].param].data = d
    BY <1>2, <1>4, <2>1
  <2>2. ASSUME d # l.rows[u].data, NEW i \in 1..m, l.items[i].selected, l.rows[l.items[i].param].data = d
        PROVE  \E k \in 1..q : r.items[k].selected /\ r.rows[r.items[k].param].data = d
    <3>1. i # v
      BY <1>4, <2>2
    <3>2. PICK k \in 1..q : was(k) = i
      BY <1>3, <3>1
    <3> QED BY <1>2, <2>2, <3>2
  <2> QED BY <2>1, <2>2
<1>6. \A d : d \in SelectedData(r) <=> d \in SelectedData(l) /\ d # l.rows[u].data
  <2> SUFFICES ASSUME NEW d PROVE d \in SelectedData(r) <=> d \in SelectedData(l) /\ d # l.rows[u].data
    OBVIOUS
  <2>0. DOMAIN r.items = 1..q
    BY <1>1
  <2>3. d \in SelectedData(r) <=>
          \E k \in DOMAIN r.items : r.items[k].selected /\ r.rows[r.items[k].param].data = d
    BY <1>1, SelectedMeans
  <2>1. d \in SelectedData(r) <=> \E k \in 1..q : r.items[k].selected /\ r.rows[r.items[k].param].data = d
    BY <2>0, <2>3
  <2>2. d \in SelectedData(l) <=> \E i \in 1..m : l.items[i].selected /\ l.rows[l.items[i].param].data = d
    BY <1>1, SelectedMeans
  <2> QED BY <1>5, <2>1, <2>2
<1>7. l.rows[u].data \notin InView(r)
  <2> SUFFICES ASSUME NEW k \in 1..q, r.rows[r.items[k].param].data = l.rows[u].data PROVE FALSE
    BY <1>1 DEF InView
  <2> QED BY <1>2, <1>4
<1> QED BY <1>6, <1>7

\* Outside of the loops.
LEMMA LoopRest ==
  ASSUME pc' = "rest", visited' = <<>>, offset' = 0, keep' = 0, chosen' = {}
  PROVE  LoopInv'
<1> DEFINE none == <<>>
<1>1. none \in Seq(Data) /\ DOMAIN none = {}
  OBVIOUS
<1>2. \A i, j \in DOMAIN none : none[i] = none[j] => i = j
  BY <1>1
<1> HIDE DEF none
<1>3. visited' = none
  BY DEF none
<1>4. visited' \in Seq(Data) /\ \A i, j \in DOMAIN visited' : visited'[i] = visited'[j] => i = j
  BY <1>1, <1>2, <1>3
<1> QED BY <1>4 DEF LoopInv

\* The loop begins with all rows of the selection ahead.
LEMMA DoBegins ==
  ASSUME ListInv, LoopInv, BeginDo
  PROVE  LoopInv'
<1> DEFINE s == selection(list)
<1>1. /\ list \in ListViews /\ Held(list) /\ Unsorted(list)
      /\ DOMAIN list.rows \subseteq Nat
  BY ListTyped DEF ListInv, Sound, Indexed
<1>2. /\ Enumerates(s, Picked(list)) /\ ToSet(s) = Picked(list) /\ Picked(list) \subseteq DOMAIN list.rows
      /\ SelectedData(list) = {list.rows[u].data : u \in Picked(list)}
  BY <1>1, SelectionPicks
<1> HIDE DEF s
<1>3. /\ pc = "rest" /\ pc' = "do" /\ todo' = s /\ chosen' = SelectedData(list) /\ list' = list
      /\ offset' = 0 /\ visited' = <<>>
  BY DEF BeginDo, LoopInv, s
<1>4. /\ s \in Seq(Nat) /\ DOMAIN s = 1..Len(s) /\ \A i \in DOMAIN s : s[i] \in Picked(list)
      /\ \A i, j \in DOMAIN s : i < j => s[i] < s[j]
  <2>1. s \in Seq(Picked(list)) /\ Picked(list) \subseteq Nat
    BY <1>1, <1>2 DEF Enumerates
  <2>2. s \in Seq(Nat) /\ DOMAIN s = 1..Len(s) /\ \A i \in DOMAIN s : s[i] \in Picked(list)
    BY <2>1
  <2> QED BY <1>2, <2>2 DEF Enumerates
<1>5. \A i \in DOMAIN s : s[i] - 0 \in DOMAIN list.rows
  <2>1. \A i \in DOMAIN s : s[i] \in DOMAIN list.rows /\ s[i] \in Nat
    BY <1>1, <1>2, <1>4
  <2> QED BY <2>1
<1>6. Ahead' = SelectedData(list)
  <2>1. \A u \in Picked(list) : u - 0 = u
    BY <1>1, <1>2
  <2>2. Ahead' = {list.rows[t - 0].data : t \in Picked(list)}
    BY <1>2, <1>3 DEF Ahead
  <2> QED BY <1>2, <2>1, <2>2
<1>7. ToSet(visited') = {}
  BY <1>3 DEF ToSet
<1>8. visited' \in Seq(Data) /\ \A i, j \in DOMAIN visited' : visited'[i] = visited'[j] => i = j
  BY <1>3 DEF LoopInv
<1> QED BY <1>3, <1>4, <1>5, <1>6, <1>7, <1>8 DEF LoopInv

\* A visit leaves the rows ahead where the loop will look for them.
LEMMA DoVisits ==
  ASSUME ListInv, LoopInv, DoNext
  PROVE  LoopInv'
<1> DEFINE h == Head(todo)
           rest == Tail(todo)
           u == h - offset
           d == list.rows[u].data
<1>1. /\ Sound("browser", list) /\ list \in ListViews /\ Distinct(list)
      /\ pc = "do" /\ todo \in Seq(Nat) /\ todo # <<>> /\ offset \in Nat
      /\ \A i, j \in DOMAIN todo : i < j => todo[i] < todo[j]
      /\ \A i \in DOMAIN todo : todo[i] - offset \in DOMAIN list.rows
      /\ Ahead \cap ToSet(visited) = {} /\ Ahead \cup ToSet(visited) = chosen
      /\ visited \in Seq(Data)
      /\ \A i, j \in DOMAIN visited : visited[i] = visited[j] => i = j
  BY DEF DoNext, ListInv, LoopInv, Sound
<1>2. /\ h \in Nat /\ rest \in Seq(Nat) /\ 1 \in DOMAIN todo /\ h = todo[1]
      /\ \A i \in DOMAIN rest : i + 1 \in DOMAIN todo /\ rest[i] = todo[i + 1] /\ h < rest[i]
      /\ \A i, j \in DOMAIN rest : i < j => rest[i] < rest[j]
      /\ ToSet(todo) = {h} \cup ToSet(rest)
  BY <1>1, AheadNow
<1> HIDE DEF h, rest
<1>3. u \in DOMAIN list.rows /\ \A i \in DOMAIN rest : rest[i] - offset \in DOMAIN list.rows
                                                      /\ rest[i] - offset > u /\ rest[i] \in Nat
  <2>1. u \in DOMAIN list.rows
    BY <1>1, <1>2
  <2>2. \A i \in DOMAIN rest : rest[i] - offset \in DOMAIN list.rows
    BY <1>1, <1>2
  <2>3. \A i \in DOMAIN rest : rest[i] \in Nat
    BY <1>2
  <2>4. \A i \in DOMAIN rest : rest[i] - offset > u
    BY <1>1, <1>2, <2>3
  <2> QED BY <2>1, <2>2, <2>3, <2>4
<1>4. u <= rowCount(list) /\ u \in Nat /\ rowCount(list) \in Nat
  BY <1>1, <1>3, ListTyped DEF rowCount
<1>5. /\ todo' = rest /\ pc' = "do" /\ chosen' = chosen /\ keep' = keep
      /\ visited' = Append(visited, d)
      /\ \/ list' = removeRow(list, u) /\ offset' = offset + 1
         \/ (\E v \in Values : list' = setCell(list, u, 1, v)) /\ offset' = offset
  <2>1. ~(u > rowCount(list))
    BY <1>4
  <2>2. Current(Head(todo)) = u
    BY DEF Current, h
  <2> HIDE DEF u
  <2> QED BY <1>1, <1>3, <2>1, <2>2 DEF DoNext, rest
<1> DEFINE D(t) == list.rows[t - offset].data
<1>6. \A i \in DOMAIN rest : /\ rest[i] - offset' \in DOMAIN list'.rows
                             /\ list'.rows[rest[i] - offset'].data = D(rest[i])
  <2>1. CASE list' = removeRow(list, u) /\ offset' = offset + 1
    <3> DEFINE r == removeRow(list, u)
    <3>1. Removed(list, r, u)
      BY <1>1, <1>3, RemovedSound
    <3> HIDE DEF r, u
    <3> SUFFICES ASSUME NEW i \in DOMAIN rest
                 PROVE  /\ rest[i] - (offset + 1) \in DOMAIN r.rows
                        /\ r.rows[rest[i] - (offset + 1)].data = D(rest[i])
      BY <2>1 DEF r
    <3> DEFINE t == rest[i] - offset
    <3>2. t \in DOMAIN list.rows /\ t > u /\ rest[i] - (offset + 1) = t - 1
      BY <1>1, <1>3
    <3> HIDE DEF t
    <3>3. t - 1 \in DOMAIN r.rows /\ r.rows[t - 1].data = list.rows[t].data
      BY <1>1, <1>3, <3>1, <3>2, MovedUp
    <3> QED BY <3>2, <3>3 DEF t
  <2>2. ASSUME NEW v \in Values, list' = setCell(list, u, 1, v), offset' = offset
        PROVE  \A i \in DOMAIN rest : /\ rest[i] - offset' \in DOMAIN list'.rows
                                      /\ list'.rows[rest[i] - offset'].data = D(rest[i])
    <3> DEFINE r == setCell(list, u, 1, v)
    <3>1. 1 \in Columns /\ v \in Nat
      BY Column, ContentsAssumption
    <3>2. Written(list, r, u, 1, v)
      <4> HIDE DEF u
      <4> QED BY <1>1, <1>3, <3>1, WrittenSound
    <3> HIDE DEF r, u
    <3>3. /\ DOMAIN r.rows = DOMAIN list.rows
          /\ \A w \in DOMAIN list.rows : r.rows[w].data = list.rows[w].data
      <4>1. r \in ListViews /\ Len(r.rows) = Len(list.rows)
        BY <3>2 DEF Written
      <4>2. DOMAIN r.rows = DOMAIN list.rows
        BY <1>1, <4>1, ListTyped
      <4> QED BY <3>2, <4>2 DEF Written
    <3> QED BY <1>3, <2>2, <3>3 DEF r
  <2> HIDE DEF D, u
  <2> QED BY <1>5, <2>1, <2>2
<1>7. Ahead = {d} \cup {D(t) : t \in ToSet(rest)}
  <2>1. Ahead = {D(t) : t \in ToSet(todo)} /\ D(h) = d
    BY DEF Ahead
  <2> HIDE DEF D, d
  <2> QED BY <1>2, <2>1
<1>8. d \notin {D(t) : t \in ToSet(rest)}
  <2>1. \A i \in DOMAIN rest : D(rest[i]) # d
    <3> SUFFICES ASSUME NEW i \in DOMAIN rest, list.rows[rest[i] - offset].data = list.rows[u].data
                 PROVE  FALSE
      OBVIOUS
    <3>1. rest[i] - offset = u
      BY <1>1, <1>3 DEF Distinct
    <3> QED BY <1>3, <1>4, <3>1
  <2>2. \A t \in ToSet(rest) : \E i \in DOMAIN rest : t = rest[i]
    BY DEF ToSet
  <2> HIDE DEF D, d
  <2> QED BY <2>1, <2>2
<1>9. Ahead' = {D(t) : t \in ToSet(rest)}
  <2>1. Ahead' = {list'.rows[t - offset'].data : t \in ToSet(rest)}
    BY <1>5 DEF Ahead
  <2>2. \A t \in ToSet(rest) : list'.rows[t - offset'].data = D(t)
    BY <1>6 DEF ToSet
  <2> HIDE DEF D
  <2> QED BY <2>1, <2>2
<1>10. d \in Data /\ d \notin ToSet(visited)
  <2>1. d \in Data
    BY <1>1, <1>3, ListTyped
  <2> HIDE DEF D, d
  <2> QED BY <1>1, <1>7, <2>1
<1>11. /\ visited' \in Seq(Data) /\ ToSet(visited') = ToSet(visited) \cup {d}
       /\ \A i, j \in DOMAIN visited' : visited'[i] = visited'[j] => i = j
  <2> HIDE DEF d
  <2> QED BY <1>1, <1>5, <1>10, Visiting
<1>12. Ahead' \cap ToSet(visited') = {} /\ Ahead' \cup ToSet(visited') = chosen'
  <2> HIDE DEF D, d
  <2> QED BY <1>1, <1>5, <1>7, <1>8, <1>9, <1>11
<1>13. offset' \in Nat
  BY <1>1, <1>5
<1>14. \A i \in DOMAIN rest : rest[i] - offset' \in DOMAIN list'.rows
  BY <1>6
<1> HIDE DEF D, d, u
<1> QED BY <1>2, <1>5, <1>11, <1>12, <1>13, <1>14 DEF LoopInv

\* The loop of the manager begins.
LEMMA UninstallBegins ==
  ASSUME ~AnySelection, ListInv, LoopInv, BeginUninstall
  PROVE  LoopInv'
<1>1. /\ pc = "rest" /\ pc' = "uninstall" /\ chosen' = SelectedData(list) /\ list' = list
      /\ visited' = visited /\ keep' = keep /\ SelectedData(list) \cap Protected = {}
  BY DEF BeginUninstall
<1>2. visited = <<>> /\ keep = 0 /\ visited \in Seq(Data)
      /\ \A i, j \in DOMAIN visited : visited[i] = visited[j] => i = j
  BY <1>1 DEF LoopInv
<1>3. ToSet(visited) = {}
  BY <1>2 DEF ToSet
<1>4. SelectedData(list)' = SelectedData(list)
  BY <1>1 DEF SelectedData
<1> QED BY <1>1, <1>2, <1>3, <1>4 DEF LoopInv

\* It removes the first row of the selection, which is in it no longer.
LEMMA UninstallVisits ==
  ASSUME ListInv, LoopInv, UninstallNext
  PROVE  LoopInv'
<1> DEFINE u == currentIndex(list)
           d == list.rows[u].data
           r == removeRow(list, u)
<1>1. /\ pc = "uninstall" /\ Remaining > 0 /\ keep = 0 /\ chosen \cap Protected = {}
      /\ SelectedData(list) \cap ToSet(visited) = {} /\ SelectedData(list) \cup ToSet(visited) = chosen
      /\ visited \in Seq(Data)
      /\ \A i, j \in DOMAIN visited : visited[i] = visited[j] => i = j
      /\ Sound(window, list) /\ list \in ListViews /\ Held(list) /\ Unsorted(list)
  BY DEF UninstallNext, ListInv, LoopInv, Sound, Indexed
<1>2. u \in Picked(list) /\ u \in DOMAIN list.rows /\ SelectedData(list) = {list.rows[x].data : x \in Picked(list)}
  BY <1>1, CurrentRow, SelectionPicks
<1>3. d \in SelectedData(list) /\ d \in Data /\ d \notin Protected /\ d \notin ToSet(visited)
  <2>1. d \in SelectedData(list)
    BY <1>2
  <2>2. d \in Data
    BY <1>1, <1>2, ListTyped
  <2> HIDE DEF d
  <2> QED BY <1>1, <2>1, <2>2
<1>4. u + keep = u /\ ~(u > rowCount(list))
  BY <1>1, <1>2, ListTyped DEF rowCount
<1>5. /\ visited' = Append(visited, d) /\ list' = r /\ pc' = "uninstall" /\ keep' = 0 /\ chosen' = chosen
  <2> HIDE DEF u, r
  <2> QED BY <1>1, <1>3, <1>4 DEF UninstallNext, u, r
<1>6. Removed(list, r, u) /\ Sound(window, r)
  <2> HIDE DEF u
  <2> QED BY <1>1, <1>2, RemovedSound
<1>7. SelectedData(r) = SelectedData(list) \ {d}
  <2> HIDE DEF u, r
  <2> QED BY <1>1, <1>2, <1>6, RemovedSelection
<1>8. SelectedData(list)' = SelectedData(list) \ {d}
  <2>1. SelectedData(list)' = SelectedData(r)
    BY <1>5 DEF SelectedData
  <2> QED BY <1>7, <2>1
<1> HIDE DEF d, r, u
<1>9. /\ visited' \in Seq(Data) /\ ToSet(visited') = ToSet(visited) \cup {d}
      /\ \A i, j \in DOMAIN visited' : visited'[i] = visited'[j] => i = j
  BY <1>1, <1>3, <1>5, Visiting
<1>10. SelectedData(list)' \cap ToSet(visited') = {} /\ SelectedData(list)' \cup ToSet(visited') = chosen'
  BY <1>1, <1>3, <1>5, <1>8, <1>9
<1> QED BY <1>1, <1>5, <1>9, <1>10 DEF LoopInv

\* Each step keeps the invariant of the loops.
LEMMA LoopStepInv ==
  ASSUME ~AnySelection, ListInv, LoopInv, [ListNext]_listVars
  PROVE  LoopInv'
<1>1. CASE User
  <2>1. /\ pc = "rest" /\ pc' = "rest" /\ visited' = visited /\ offset' = offset /\ keep' = keep
        /\ chosen' = chosen
    BY <1>1 DEF User, loop
  <2>2. visited = <<>> /\ offset = 0 /\ keep = 0 /\ chosen = {}
    BY <2>1 DEF LoopInv
  <2> QED BY <2>1, <2>2, LoopRest
<1>2. CASE Idle
  BY <1>2, LoopRest DEF Idle
<1>3. CASE UNCHANGED listVars
  <2>1. Ahead' = Ahead /\ SelectedData(list)' = SelectedData(list)
    BY <1>3 DEF listVars, loop, Ahead, SelectedData
  <2> QED BY <1>3, <2>1 DEF listVars, loop, LoopInv
<1>4. CASE Selects
  BY <1>1, <1>4 DEF Selects, Select
<1>5. ASSUME NEW rs \in Contents, Refill(rs) PROVE LoopInv'
  BY <1>1, <1>5 DEF Refill
<1>6. ASSUME NEW f \in Filters, SetFilter(f) PROVE LoopInv'
  BY <1>1, <1>6 DEF SetFilter
<1>7. ASSUME NEW c \in Columns, ColumnClick(c) PROVE LoopInv'
  BY <1>1, <1>7 DEF ColumnClick
<1>8. CASE ResetColumns
  BY <1>1, <1>8 DEF ResetColumns
<1>9. CASE Reopen
  BY <1>1, <1>9 DEF Reopen
<1>10. CASE BeginDo
  BY <1>10, DoBegins
<1>11. CASE DoNext
  BY <1>11, DoVisits
<1>12. CASE EndDo
  BY <1>2, <1>12 DEF EndDo
<1>13. CASE BeginUninstall
  BY <1>13, UninstallBegins
<1>14. CASE UninstallNext
  BY <1>14, UninstallVisits
<1>15. CASE EndUninstall
  BY <1>2, <1>15 DEF EndUninstall
<1> QED BY <1>3, <1>4, <1>5, <1>6, <1>7, <1>8, <1>9, <1>10, <1>11, <1>12, <1>13, <1>14, <1>15 DEF ListNext

\* What the invariant says of a loop.
LEMMA LoopInvVisits ==
  ASSUME ListInv, LoopInv
  PROVE  LoopsVisitTheSelection
<1> PICK n \in Nat : n = Len(visited)
  BY DEF LoopInv
<1>1. visited \in Seq(Data) /\ DOMAIN visited = 1..n
      /\ \A i, j \in 1..n : visited[i] = visited[j] => i = j
  BY DEF LoopInv
<1>2. Cardinality(ToSet(visited)) = n
  <2>1. ToSet(visited) = {visited[i] : i \in 1..n}
    BY <1>1 DEF ToSet
  <2>2. visited \in Bijection(1..n, ToSet(visited))
    <3>1. visited \in [1..n -> ToSet(visited)]
      <4>1. visited = [i \in 1..n |-> visited[i]]
        BY <1>1
      <4> QED BY <2>1, <4>1
    <3>2. \A x \in ToSet(visited) : \E i \in 1..n : visited[i] = x
      BY <2>1
    <3> QED BY <1>1, <3>1, <3>2 DEF Bijection, Injection, IsInjective, Surjection
  <2>3. ExistsBijection(1..n, ToSet(visited))
    BY <2>2 DEF ExistsBijection
  <2> QED BY <2>3, FS_CountingElements
<1>3. ToSet(visited) \subseteq chosen
  <2>1. pc \in {"rest", "do", "uninstall"}
    BY DEF ListInv, LoopInv
  <2>2. visited = <<>> => ToSet(visited) = {}
    BY DEF ToSet
  <2> QED BY <2>1, <2>2 DEF LoopInv
<1>4. ASSUME pc = "do", todo = <<>> PROVE ToSet(visited) = chosen
  <2>1. Ahead = {}
    <3>1. ToSet(todo) = {}
      BY <1>4 DEF ToSet
    <3> QED BY <3>1 DEF Ahead
  <2> QED BY <1>4, <2>1 DEF LoopInv
<1>5. ASSUME pc = "uninstall", Remaining <= 0 PROVE ToSet(visited) = chosen \ Protected
  <2> DEFINE s == SelectedInView(list)
  <2>1. keep = 0 /\ s \in Seq(Picked(list)) /\ ToSet(s) = Picked(list)
        /\ SelectedData(list) = {list.rows[u].data : u \in Picked(list)}
    BY <1>5, SelectionPicks DEF LoopInv, ListInv, Sound, Indexed
  <2>2. Len(s) - keep <= 0
    BY <1>5 DEF Remaining
  <2> HIDE DEF s
  <2>3. s = <<>>
    BY <2>1, <2>2
  <2>4. Picked(list) = {}
    BY <2>1, <2>3 DEF ToSet
  <2>5. SelectedData(list) = {}
    BY <2>1, <2>4
  <2> QED BY <1>5, <2>5 DEF LoopInv
<1> QED BY <1>2, <1>3, <1>4, <1>5 DEF LoopsVisitTheSelection, LoopInv

\* The invariant of the loops.
LEMMA LoopInvariant ==
  ASSUME ~AnySelection
  PROVE  ListSpec => []LoopInv
<1>1. ListInit => LoopInv
  <2> SUFFICES ASSUME ListInit PROVE LoopInv
    OBVIOUS
  <2>1. pc = "rest" /\ visited = <<>> /\ offset = 0 /\ keep = 0 /\ chosen = {}
    BY DEF ListInit
  <2>2. visited \in Seq(Data) /\ \A i, j \in DOMAIN visited : visited[i] = visited[j] => i = j
    BY <2>1
  <2> QED BY <2>1, <2>2 DEF LoopInv
<1>2. ListInv /\ LoopInv /\ [ListNext]_listVars => LoopInv'
  BY LoopStepInv
<1> QED BY <1>1, <1>2, ListInvariant, PTL DEF ListSpec

\* A loop of the browser acts on each selected row once and on no other, though rows
\* disappear under it; that of the manager does when it begins without protected rows
\* (browser.cpp:794-819, manager.cpp:416-433).
THEOREM LoopsAreRight ==
  ASSUME ~AnySelection
  PROVE  ListSpec => []LoopsVisitTheSelection
<1>1. ListInv /\ LoopInv => LoopsVisitTheSelection
  BY LoopInvVisits
<1> QED BY <1>1, ListInvariant, LoopInvariant, PTL

-----------------------------------------------------------------------------
(* The selection *)

\* Rows that are in both views are selected in both or in none.
KeepsSelection(l, r) ==
  \A d \in InView(l) \cap InView(r) : d \in SelectedData(l) <=> d \in SelectedData(r)

\* No two items show a row, so that the item of a row says whether it is selected.
LEMMA ItemSelected ==
  ASSUME NEW w, NEW l, Sound(w, l), NEW i \in DOMAIN l.items
  PROVE  l.rows[l.items[i].param].data \in SelectedData(l) <=> l.items[i].selected
<1> DEFINE d == l.rows[l.items[i].param].data
<1>1. l \in ListViews /\ Held(l) /\ Unsorted(l) /\ Distinct(l)
  BY DEF Sound, Indexed
<1>2. d \in SelectedData(l) <=>
        \E j \in DOMAIN l.items : l.items[j].selected /\ l.rows[l.items[j].param].data = d
  BY <1>1, SelectedMeans
<1>3. \A j \in DOMAIN l.items : l.rows[l.items[j].param].data = d => j = i
  BY <1>1 DEF Held, Distinct
<1> HIDE DEF d
<1>4. l.rows[l.items[i].param].data = d
  BY DEF d
<1> QED BY <1>2, <1>3, <1>4 DEF d

\* It is enough that items of the same row are both selected or not.
LEMMA ItemsKept ==
  ASSUME NEW w, NEW l, Sound(w, l), NEW r, Sound(w, r),
         \A i \in DOMAIN l.items, k \in DOMAIN r.items :
           l.rows[l.items[i].param].data = r.rows[r.items[k].param].data
             => r.items[k].selected = l.items[i].selected
  PROVE  KeepsSelection(l, r)
<1> SUFFICES ASSUME NEW d, d \in InView(l), d \in InView(r)
             PROVE  d \in SelectedData(l) <=> d \in SelectedData(r)
  BY DEF KeepsSelection
<1>1. PICK i \in DOMAIN l.items : d = l.rows[l.items[i].param].data
  BY DEF InView
<1>2. PICK k \in DOMAIN r.items : d = r.rows[r.items[k].param].data
  BY DEF InView
<1>3. d \in SelectedData(l) <=> l.items[i].selected
  BY <1>1, ItemSelected
<1>4. d \in SelectedData(r) <=> r.items[k].selected
  BY <1>2, ItemSelected
<1>5. r.items[k].selected = l.items[i].selected
  BY <1>1, <1>2
<1> QED BY <1>3, <1>4, <1>5

\* Sorting and filtering.
LEMMA EditKeeps ==
  ASSUME NEW w, NEW l, Sound(w, l), NEW x, x.rows = l.rows, x.items = l.items,
         NEW r, Sound(w, r), Kept(x, r)
  PROVE  KeepsSelection(l, r)
<1>1. /\ l \in ListViews /\ r \in ListViews /\ Held(l) /\ Held(r) /\ Distinct(l)
  BY DEF Sound, Indexed
<1>2. /\ DOMAIN r.rows = DOMAIN l.rows
      /\ \A u \in DOMAIN l.rows : r.rows[u].data = l.rows[u].data
      /\ \A i \in DOMAIN l.items, k \in DOMAIN r.items :
           l.items[i].param = r.items[k].param => r.items[k].selected = l.items[i].selected
  <2>1. Len(r.rows) = Len(l.rows)
    BY DEF Kept, SameRows
  <2>2. DOMAIN r.rows = DOMAIN l.rows
    BY <1>1, <2>1, ListTyped
  <2> QED BY <2>2 DEF Kept, SameRows, SameSelection
<1>3. ASSUME NEW i \in DOMAIN l.items, NEW k \in DOMAIN r.items,
             l.rows[l.items[i].param].data = r.rows[r.items[k].param].data
      PROVE  r.items[k].selected = l.items[i].selected
  <2>1. l.items[i].param \in DOMAIN l.rows /\ r.items[k].param \in DOMAIN l.rows
    BY <1>1, <1>2 DEF Held
  <2>2. l.items[i].param = r.items[k].param
    BY <1>1, <1>2, <1>3, <2>1 DEF Distinct
  <2> QED BY <1>2, <2>2
<1> QED BY <1>3, ItemsKept

\* Filling a list again: what is in it then is selected if its data were.
LEMMA FillKeeps ==
  ASSUME NEW w, NEW l, Sound(w, l), NEW rs \in Contents,
         NEW x, Filled(l, x, rs, SelectedData(l), Len(rs)),
         NEW r, Sound(w, r), Kept(x, r)
  PROVE  KeepsSelection(l, r)
<1> PICK K \in Nat : K = Len(rs)
  BY ContentTyped DEF Fillable
<1>1. /\ x \in ListViews /\ InRowOrder(x) /\ r \in ListViews /\ Held(r)
      /\ DOMAIN x.rows = 1..K /\ DOMAIN r.rows = 1..K /\ DOMAIN x.items = 1..K
      /\ \A u \in 1..K : x.items[u].param = u
  <2>1. x \in ListViews /\ InRowOrder(x) /\ r \in ListViews /\ Held(r) /\ Len(x.rows) = K
        /\ Len(r.rows) = Len(x.rows)
    BY DEF Filled, Sound, Indexed, Kept, SameRows
  <2>2. Len(x.items) = Len(x.rows)
    BY <2>1 DEF InRowOrder
  <2>3. DOMAIN x.rows = 1..K /\ DOMAIN r.rows = 1..K /\ DOMAIN x.items = 1..K
    BY <2>1, <2>2, ListTyped
  <2> QED BY <2>1, <2>3 DEF InRowOrder
<1>2. \A u \in 1..K : /\ x.items[u].selected = (x.rows[u].data \in SelectedData(l))
                      /\ r.rows[u].data = x.rows[u].data
  <2>1. \A u \in 1..K : /\ x.items[u].selected = (rs[u].data \in SelectedData(l))
                        /\ x.rows[u].data = rs[u].data
    BY DEF Filled
  <2> QED BY <1>1, <2>1 DEF Kept, SameRows
<1> SUFFICES ASSUME NEW d, d \in InView(r)
             PROVE  d \in SelectedData(l) <=> d \in SelectedData(r)
  BY DEF KeepsSelection
<1>3. PICK k \in DOMAIN r.items : d = r.rows[r.items[k].param].data
  BY DEF InView
<1>4. r.items[k].param \in 1..K
  BY <1>1 DEF Held
<1>5. r.items[k].selected = x.items[r.items[k].param].selected
  BY <1>1, <1>4 DEF Kept, SameSelection
<1>6. d \in SelectedData(r) <=> r.items[k].selected
  BY <1>3, ItemSelected
<1> QED BY <1>2, <1>3, <1>4, <1>5, <1>6

\* No step but a command of the user changes the selection.
LEMMA StepKeeps ==
  ASSUME ListInv, [ListNext]_listVars, ~Selects
  PROVE  KeepsSelection(list, list')
<1>0. Sound(window, list) /\ Ready(list) /\ Distinct(list) /\ Suits(window, list)
  BY SoundReady DEF ListInv, Sound
<1>1. CASE list' = list
  BY <1>1 DEF KeepsSelection
<1>2. ASSUME NEW x, Pending(window, list, x), Edited(x)
      PROVE  KeepsSelection(list, list')
  <2>1. Sound(window, list') /\ Kept(x, list')
    BY <1>2, EditedSound DEF Pending
  <2> QED BY <1>0, <1>2, <2>1, EditKeeps DEF Pending
<1>3. ASSUME NEW u \in DOMAIN list.rows, list' = removeRow(list, u)
      PROVE  KeepsSelection(list, list')
  <2>1. Removed(list, list', u) /\ Sound(window, list')
    BY <1>0, <1>3, RemovedSound
  <2> HIDE DEF KeepsSelection
  <2>2. SelectedData(list') = SelectedData(list) \ {list.rows[u].data}
        /\ list.rows[u].data \notin InView(list')
    BY <1>0, <2>1, RemovedSelection
  <2> QED BY <2>2 DEF KeepsSelection
<1>4. ASSUME NEW rs \in Contents, Refill(rs) PROVE KeepsSelection(list, list')
  <2>1. PICK x : Filled(list, x, rs, SelectedData(list), Len(rs)) /\ Edited(x)
    BY <1>4, Refilled
  <2>2. Ready(x) /\ Distinct(x) /\ Suits(window, x)
    BY <1>0, <2>1, FillPending
  <2>3. Sound(window, list') /\ Kept(x, list')
    BY <2>1, <2>2, EditedSound
  <2> QED BY <1>0, <2>1, <2>3, FillKeeps
<1>5. ASSUME NEW f \in Filters, SetFilter(f) PROVE KeepsSelection(list, list')
  BY <1>0, <1>2, <1>5, FilterPending DEF SetFilter
<1>6. ASSUME NEW c \in Columns, ColumnClick(c) PROVE KeepsSelection(list, list')
  BY <1>0, <1>2, <1>6, ClickPending DEF ColumnClick
<1>7. CASE ResetColumns
  BY <1>0, <1>2, <1>7, ResetPending DEF ResetColumns
<1>8. CASE Reopen
  <2>1. list'.items = <<>>
    BY <1>0, <1>8, ReopenSound DEF Reopen
  <2>2. InView(list') = {}
    BY <2>1 DEF InView
  <2> QED BY <2>2 DEF KeepsSelection
<1>9. CASE DoNext
  <2> DEFINE u == Current(Head(todo))
  <2>1. window = "browser"
    BY <1>9 DEF DoNext, ListInv
  <2>2. ASSUME NEW v \in Values, u \in DOMAIN list.rows, list' = setCell(list, u, 1, v)
        PROVE  KeepsSelection(list, list')
    <3>1. 1 \in Columns /\ v \in Nat
      BY Column, ContentsAssumption
    <3> HIDE DEF u
    <3>2. Written(list, list', u, 1, v) /\ Sound(window, list')
      BY <1>0, <2>1, <2>2, <3>1, WrittenSound
    <3>3. /\ list \in ListViews /\ Held(list) /\ Distinct(list) /\ list' \in ListViews
          /\ DOMAIN list'.items = DOMAIN list.items
      BY <1>0, <3>2, ListTyped DEF Sound, Indexed, Written
    <3>4. ASSUME NEW i \in DOMAIN list.items, NEW k \in DOMAIN list'.items,
                 list.rows[list.items[i].param].data = list'.rows[list'.items[k].param].data
          PROVE  list'.items[k].selected = list.items[i].selected
      <4>1. list'.items[k].param = list.items[k].param /\ list'.items[k].selected = list.items[k].selected
        BY <3>2, <3>3 DEF Written
      <4>2. list.items[k].param \in DOMAIN list.rows /\ list.items[i].param \in DOMAIN list.rows
        BY <3>3 DEF Held
      <4>3. list'.rows[list.items[k].param].data = list.rows[list.items[k].param].data
        BY <3>2, <4>2 DEF Written
      <4>4. i = k
        BY <3>3, <3>4, <4>1, <4>2, <4>3 DEF Held, Distinct
      <4> QED BY <4>1, <4>4
    <3> QED BY <1>0, <3>2, <3>4, ItemsKept
  <2>3. \/ list' = list
        \/ u \in DOMAIN list.rows /\ list' = removeRow(list, u)
        \/ u \in DOMAIN list.rows /\ \E v \in Values : list' = setCell(list, u, 1, v)
    BY <1>9 DEF DoNext
  <2> HIDE DEF u
  <2> QED BY <1>1, <1>3, <2>2, <2>3
<1>10. CASE EndDo
  <2>1. Sound(window, list') /\ Kept(list, list')
    BY <1>0, <1>10, EditedSound DEF EndDo
  <2> QED BY <1>0, <2>1, EditKeeps
<1>11. CASE UninstallNext
  <2> DEFINE u == currentIndex(list) + keep
  <2>1. pc = "uninstall" /\ Remaining > 0
        /\ (list' = list \/ (~(u > rowCount(list)) /\ list' = removeRow(list, u)))
    BY <1>11 DEF UninstallNext
  <2>2. ASSUME ~(u > rowCount(list)) PROVE u \in DOMAIN list.rows
    <3>1. currentIndex(list) \in DOMAIN list.rows
      BY <2>1, CurrentRow
    <3>2. currentIndex(list) \in Nat /\ rowCount(list) \in Nat /\ keep \in Nat
      BY <1>0, <3>1, ListTyped DEF rowCount, ListInv, Sound
    <3>3. u <= rowCount(list)
      BY <2>2, <3>2
    <3> QED BY <2>1, <3>3, CurrentRow
  <2> HIDE DEF u
  <2> QED BY <1>1, <1>3, <2>1, <2>2
<1>12. BeginDo \/ BeginUninstall \/ EndUninstall \/ UNCHANGED listVars => list' = list
  BY DEF BeginDo, BeginUninstall, EndUninstall, listVars
<1> QED BY <1>1, <1>4, <1>5, <1>6, <1>7, <1>8, <1>9, <1>10, <1>11, <1>12 DEF ListNext

\* Rows that stay in view stay selected or not through sorting, filtering, refilling
\* and the removal of others, however the loops and the commands of the user follow
\* one another (listview.cpp:144-324, browser.cpp:517-560, manager.cpp:270-310).
THEOREM SelectionStays == ListSpec => SelectionIsKept
<1>1. ListInv /\ [ListNext]_listVars =>
        [~Selects => \A d \in InView(list) \cap InView(list') :
                       d \in SelectedData(list) <=> d \in SelectedData(list')]_listVars
  BY StepKeeps DEF KeepsSelection
<1> QED BY <1>1, ListInvariant, PTL DEF ListSpec, SelectionIsKept

-----------------------------------------------------------------------------
(* What the About window lists *)

RowCells == [Columns -> RowTexts]

AboutRows == [data : (Nat \X Nat) \union {None}, cells : RowCells]

\* The parts of an index are sequences.
LEMMA ContentRight ==
  ASSUME NEW x \in Indexes
  PROVE  /\ DOMAIN Content[x] = 1..Len(Content[x]) /\ Len(Content[x]) \in Nat
         /\ \A c \in DOMAIN Content[x] :
              LET ps == Content[x][c].packages
              IN /\ DOMAIN ps = 1..Len(ps) /\ Len(ps) \in Nat
                 /\ \A p \in DOMAIN ps :
                      LET vs == ps[p].versions
                      IN /\ DOMAIN vs = 1..Len(vs) /\ Len(vs) \in Nat \ {0}
                         /\ \A v \in DOMAIN vs :
                              DOMAIN vs[v].files = 1..Len(vs[v].files) /\ Len(vs[v].files) \in Nat
<1>1. \A s, S : s \in Seq(S) => DOMAIN s = 1..Len(s) /\ Len(s) \in Nat
  OBVIOUS
<1>2. \A s : \A i \in DOMAIN s : s[i] \in ToSet(s)
  BY DEF ToSet
<1>3. /\ Content[x] \in Seq(ToSet(Content[x]))
      /\ \A c \in ToSet(Content[x]) :
           /\ c.packages \in Seq(ToSet(c.packages))
           /\ \A p \in ToSet(c.packages) :
                /\ p.versions \in Seq(ToSet(p.versions)) /\ Len(p.versions) > 0
                /\ \A v \in ToSet(p.versions) : v.files \in Seq(ToSet(v.files))
  BY AboutAssumption
<1>4. DOMAIN Content[x] = 1..Len(Content[x]) /\ Len(Content[x]) \in Nat
  BY <1>1, <1>3
<1>5. ASSUME NEW c \in DOMAIN Content[x]
      PROVE  LET ps == Content[x][c].packages
             IN /\ DOMAIN ps = 1..Len(ps) /\ Len(ps) \in Nat
                /\ \A p \in DOMAIN ps :
                     LET vs == ps[p].versions
                     IN /\ DOMAIN vs = 1..Len(vs) /\ Len(vs) \in Nat \ {0}
                        /\ \A v \in DOMAIN vs :
                             DOMAIN vs[v].files = 1..Len(vs[v].files) /\ Len(vs[v].files) \in Nat
  <2> DEFINE ps == Content[x][c].packages
  <2>1. Content[x][c] \in ToSet(Content[x])
    BY <1>2
  <2>2. DOMAIN ps = 1..Len(ps) /\ Len(ps) \in Nat
    BY <1>1, <1>3, <2>1
  <2>3. ASSUME NEW p \in DOMAIN ps
        PROVE  LET vs == ps[p].versions
               IN /\ DOMAIN vs = 1..Len(vs) /\ Len(vs) \in Nat \ {0}
                  /\ \A v \in DOMAIN vs :
                       DOMAIN vs[v].files = 1..Len(vs[v].files) /\ Len(vs[v].files) \in Nat
    <3> DEFINE vs == ps[p].versions
    <3>1. ps[p] \in ToSet(ps)
      BY <1>2
    <3>2. /\ vs \in Seq(ToSet(vs)) /\ Len(vs) > 0
          /\ \A v \in ToSet(vs) : v.files \in Seq(ToSet(v.files))
      BY <1>3, <2>1, <3>1
    <3> HIDE DEF vs
    <3>3. DOMAIN vs = 1..Len(vs) /\ Len(vs) \in Nat
      BY <1>1, <3>2
    <3>4. \A v \in DOMAIN vs : DOMAIN vs[v].files = 1..Len(vs[v].files) /\ Len(vs[v].files) \in Nat
      BY <1>1, <1>2, <3>2
    <3>5. Len(vs) \in Nat \ {0}
      BY <3>2, <3>3
    <3> QED BY <3>3, <3>4, <3>5 DEF vs
  <2> QED BY <2>2, <2>3
<1> QED BY <1>4, <1>5

\* And its texts are texts of rows.
LEMMA ContentTexts ==
  ASSUME NEW x \in Indexes, NEW c \in DOMAIN Content[x]
  PROVE  /\ Content[x][c].name \in RowTexts
         /\ \A p \in DOMAIN Content[x][c].packages :
              /\ Content[x][c].packages[p].name \in RowTexts
              /\ \A v \in DOMAIN Content[x][c].packages[p].versions :
                   /\ Content[x][c].packages[p].versions[v].name \in RowTexts
                   /\ \A f \in DOMAIN Content[x][c].packages[p].versions[v].files :
                        Content[x][c].packages[p].versions[v].files[f] \in RowTexts
<1>1. \A s : \A i \in DOMAIN s : s[i] \in ToSet(s)
  BY DEF ToSet
<1> DEFINE InCategory(g) == {g.name} \union UNION {TextsOf(p) : p \in ToSet(g.packages)}
           InIndex(y) == UNION {InCategory(g) : g \in ToSet(Content[y])}
<1>2. InIndex(x) \subseteq RowTexts
  <2>1. RowTexts = {NoData, AllPackages} \union UNION {InIndex(y) : y \in Indexes}
    BY DEF RowTexts
  <2> HIDE DEF InIndex
  <2> QED BY <2>1
<1>3. InCategory(Content[x][c]) \subseteq RowTexts
  <2>1. Content[x][c] \in ToSet(Content[x])
    BY <1>1
  <2> HIDE DEF InCategory
  <2> QED BY <1>2, <2>1
<1>4. Content[x][c].name \in RowTexts
  BY <1>3
<1>5. ASSUME NEW p \in DOMAIN Content[x][c].packages
      PROVE  TextsOf(Content[x][c].packages[p]) \subseteq RowTexts
  <2>1. Content[x][c].packages[p] \in ToSet(Content[x][c].packages)
    BY <1>1
  <2> QED BY <1>3, <2>1
<1>6. ASSUME NEW g, TextsOf(g) \subseteq RowTexts
      PROVE  /\ g.name \in RowTexts
             /\ \A v \in DOMAIN g.versions :
                  /\ g.versions[v].name \in RowTexts
                  /\ \A f \in DOMAIN g.versions[v].files : g.versions[v].files[f] \in RowTexts
  <2> DEFINE InVersion(v) == {v.name} \union ToSet(v.files)
  <2>1. g.name \in RowTexts /\ \A v \in ToSet(g.versions) : InVersion(v) \subseteq RowTexts
    BY <1>6 DEF TextsOf
  <2>2. ASSUME NEW v \in DOMAIN g.versions
        PROVE  /\ g.versions[v].name \in RowTexts
               /\ \A f \in DOMAIN g.versions[v].files : g.versions[v].files[f] \in RowTexts
    <3>1. InVersion(g.versions[v]) \subseteq RowTexts
      BY <1>1, <2>1
    <3> QED BY <1>1, <3>1
  <2> QED BY <2>1, <2>2
<1> QED BY <1>4, <1>5, <1>6

\* A row has the texts that it is given and no more.
LEMMA RowIs ==
  ASSUME NEW data \in (Nat \X Nat) \union {None}, NEW texts,
         \A c \in DOMAIN texts : texts[c] \in RowTexts, 1 \in DOMAIN texts
  PROVE  /\ Row(data, texts) \in AboutRows /\ Row(data, texts).data = data
         /\ Row(data, texts).cells[1] = texts[1]
<1> DEFINE cell(c) == IF c \in DOMAIN texts THEN texts[c] ELSE NoData
           cells == [c \in Columns |-> cell(c)]
<1>1. NoData \in RowTexts
  BY DEF RowTexts
<1>2. \A c \in Columns : cell(c) \in RowTexts
  BY <1>1
<1>3. cell(1) = texts[1] /\ 1 \in Columns
  BY Column
<1> HIDE DEF cell
<1>4. cells \in RowCells /\ cells[1] = texts[1]
  BY <1>2, <1>3 DEF RowCells
<1>5. Row(data, texts) = [data |-> data, cells |-> cells]
  BY DEF Row, cell
<1> HIDE DEF cells
<1> QED BY <1>4, <1>5 DEF AboutRows

\* Texts of one and of two columns.
LEMMA TextsAre ==
  ASSUME NEW s, NEW t
  PROVE  /\ 1 \in DOMAIN <<s>> /\ <<s>>[1] = s /\ \A c \in DOMAIN <<s>> : <<s>>[c] = s
         /\ 1 \in DOMAIN <<s, t>> /\ <<s, t>>[1] = s /\ \A c \in DOMAIN <<s, t>> : <<s, t>>[c] \in {s, t}
OBVIOUS

\* What a window may be about.
DelegateOK(d) == d.index \in Indexes /\ (d.at # <<>> => d.at \in PackagesIn(d.index))

\* A package of an index, by its place.
LEMMA PlacedPackage ==
  ASSUME NEW x \in Indexes, NEW at \in PackagesIn(x)
  PROVE  /\ at[1] \in DOMAIN Content[x] /\ at[2] \in DOMAIN Content[x][at[1]].packages
         /\ at = <<at[1], at[2]>> /\ at \in Nat \X Nat /\ at # <<>>
         /\ PackageAt(x, at) = Content[x][at[1]].packages[at[2]]
<1>1. PICK c \in DOMAIN Content[x] : at \in PackagesOf(x, c)
  BY DEF PackagesIn
<1>2. PICK p \in DOMAIN Content[x][c].packages : at = <<c, p>>
  BY <1>1 DEF PackagesOf
<1>3. c \in Nat /\ p \in Nat
  BY ContentRight
<1>4. at[1] = c /\ at[2] = p /\ at \in Nat \X Nat /\ at # <<>>
  BY <1>2, <1>3
<1> QED BY <1>2, <1>4 DEF PackageAt

\* The menu of an index has a row for all of it and one for each category.
LEMMA IndexMenuRows ==
  ASSUME NEW x \in Indexes
  PROVE  LET rs == IndexMenu(x)
             n == Len(Content[x])
         IN /\ rs \in Seq(AboutRows) /\ Len(rs) = n + 1 /\ rs[1].cells[1] = AllPackages
            /\ \A c \in 1..n : rs[c + 1].cells[1] = Content[x][c].name
<1> PICK n \in Nat : n = Len(Content[x])
  BY ContentRight
<1> DEFINE row(c) == Row(None, <<Content[x][c].name>>)
           first == Row(None, <<AllPackages>>)
           cats == [c \in DOMAIN Content[x] |-> row(c)]
<1>1. DOMAIN Content[x] = 1..n
  BY ContentRight
<1>2. first \in AboutRows /\ first.cells[1] = AllPackages
  <2>1. AllPackages \in RowTexts
    BY DEF RowTexts
  <2> QED BY <2>1, TextsAre, RowIs
<1>3. ASSUME NEW c \in 1..n PROVE row(c) \in AboutRows /\ row(c).cells[1] = Content[x][c].name
  BY <1>1, ContentTexts, TextsAre, RowIs
<1> HIDE DEF row, first
<1>4. cats \in [1..n -> AboutRows] /\ \A c \in 1..n : cats[c] = row(c)
  BY <1>1, <1>3
<1>5. IndexMenu(x) = <<first>> \o cats
  BY DEF IndexMenu, first, row
<1> HIDE DEF cats
<1>6. cats \in Seq(AboutRows) /\ Len(cats) = n
  BY <1>4, FunctionIsSeq
<1> DEFINE rs == <<first>> \o cats
<1>7. rs \in Seq(AboutRows) /\ Len(rs) = n + 1 /\ rs[1] = first /\ \A c \in 1..n : rs[c + 1] = cats[c]
  BY <1>2, <1>6
<1> HIDE DEF rs
<1> QED BY <1>2, <1>3, <1>4, <1>5, <1>7 DEF rs

\* The package that a window is about.
LEMMA PackageParts ==
  ASSUME NEW d, DelegateOK(d), d.at # <<>>
  PROVE  LET vs == Package(d).versions
         IN /\ DOMAIN vs = 1..Len(vs) /\ Len(vs) \in Nat \ {0}
            /\ \A v \in DOMAIN vs :
                 /\ vs[v].name \in RowTexts
                 /\ DOMAIN vs[v].files = 1..Len(vs[v].files) /\ Len(vs[v].files) \in Nat
                 /\ \A f \in DOMAIN vs[v].files : vs[v].files[f] \in RowTexts
<1>1. d.index \in Indexes /\ d.at \in PackagesIn(d.index)
  BY DEF DelegateOK
<1> DEFINE c == d.at[1]
           p == d.at[2]
<1>2. c \in DOMAIN Content[d.index] /\ p \in DOMAIN Content[d.index][c].packages
      /\ Package(d) = Content[d.index][c].packages[p]
  BY <1>1, PlacedPackage DEF Package
<1> HIDE DEF c, p
<1> DEFINE ps == Content[d.index][c].packages
           vs == ps[p].versions
<1>3. /\ DOMAIN vs = 1..Len(vs) /\ Len(vs) \in Nat \ {0}
      /\ \A v \in DOMAIN vs : DOMAIN vs[v].files = 1..Len(vs[v].files) /\ Len(vs[v].files) \in Nat
  BY <1>1, <1>2, ContentRight
<1>4. \A v \in DOMAIN vs :
        vs[v].name \in RowTexts /\ \A f \in DOMAIN vs[v].files : vs[v].files[f] \in RowTexts
  BY <1>1, <1>2, ContentTexts
<1>5. Package(d).versions = vs
  BY <1>2
<1> HIDE DEF vs
<1> QED BY <1>3, <1>4, <1>5

\* The menu of a package has a row for each version.
LEMMA PackageMenuRows ==
  ASSUME NEW d, DelegateOK(d), d.at # <<>>
  PROVE  LET rs == PackageMenu(d)
             vs == Package(d).versions
         IN /\ rs \in Seq(AboutRows) /\ Len(rs) = Len(vs)
            /\ \A v \in DOMAIN vs : rs[v].cells[1] = vs[v].name
<1> DEFINE vs == Package(d).versions
           row(v) == Row(None, <<vs[v].name>>)
           rs == [v \in DOMAIN vs |-> row(v)]
<1>1. DOMAIN vs = 1..Len(vs) /\ Len(vs) \in Nat /\ \A v \in DOMAIN vs : vs[v].name \in RowTexts
  BY PackageParts
<1>2. rs = PackageMenu(d)
  BY DEF PackageMenu
<1> HIDE DEF vs
<1>3. ASSUME NEW v \in DOMAIN vs PROVE row(v) \in AboutRows /\ row(v).cells[1] = vs[v].name
  BY <1>1, TextsAre, RowIs
<1> HIDE DEF row
<1>4. rs \in [1..Len(vs) -> AboutRows] /\ \A v \in DOMAIN vs : rs[v] = row(v)
  BY <1>1, <1>3
<1> HIDE DEF rs
<1>5. rs \in Seq(AboutRows) /\ Len(rs) = Len(vs)
  BY <1>1, <1>4, FunctionIsSeq
<1> QED BY <1>2, <1>3, <1>4, <1>5 DEF vs

\* Rows that stand for the members of S, each for another one.
StandsFor(rs, S) ==
  /\ rs \in Seq(AboutRows)
  /\ S = {rs[i].data : i \in DOMAIN rs}
  /\ \A i, j \in DOMAIN rs : rs[i].data = rs[j].data => i = j

\* The files of a version.
LEMMA FileRowsAre ==
  ASSUME NEW d, DelegateOK(d), d.at # <<>>, NEW v \in DOMAIN Package(d).versions
  PROVE  StandsFor(FileRows(d, v), FilesOf(d, v))
<1> DEFINE files == Package(d).versions[v].files
           row(f) == Row(<<v, f>>, <<files[f]>>)
           rs == [f \in DOMAIN files |-> row(f)]
<1>1. DOMAIN files = 1..Len(files) /\ Len(files) \in Nat /\ v \in Nat
      /\ \A f \in DOMAIN files : files[f] \in RowTexts
  BY PackageParts
<1>2. rs = FileRows(d, v) /\ FilesOf(d, v) = {<<v, f>> : f \in DOMAIN files}
  BY DEF FileRows, FilesOf
<1> HIDE DEF files
<1>3. ASSUME NEW f \in DOMAIN files PROVE row(f) \in AboutRows /\ row(f).data = <<v, f>>
  <2>1. <<v, f>> \in Nat \X Nat /\ files[f] \in RowTexts
    BY <1>1
  <2> DEFINE data == <<v, f>>
             texts == <<files[f]>>
  <2>2. 1 \in DOMAIN texts /\ \A c \in DOMAIN texts : texts[c] \in RowTexts
    BY <2>1, TextsAre
  <2>3. data \in (Nat \X Nat) \union {None}
    BY <2>1
  <2> HIDE DEF data, texts
  <2>4. Row(data, texts) \in AboutRows /\ Row(data, texts).data = data
    BY <2>2, <2>3, RowIs
  <2> QED BY <2>4 DEF data, texts
<1> HIDE DEF row
<1>4. rs \in [1..Len(files) -> AboutRows] /\ DOMAIN rs = DOMAIN files
      /\ \A f \in DOMAIN files : rs[f].data = <<v, f>>
  BY <1>1, <1>3
<1> HIDE DEF rs
<1>5. rs \in Seq(AboutRows)
  BY <1>1, <1>4, FunctionIsSeq
<1>6. \A i, j \in DOMAIN rs : rs[i].data = rs[j].data => i = j
  BY <1>4
<1>7. FilesOf(d, v) = {rs[i].data : i \in DOMAIN rs}
  BY <1>2, <1>4
<1> QED BY <1>2, <1>5, <1>6, <1>7 DEF StandsFor

\* What FlattenSeq has put together after each of the sequences.
LEMMA Flattened ==
  ASSUME NEW S, NEW seqs \in Seq(Seq(S))
  PROVE  \E f \in [0..Len(seqs) -> Seq(S)] :
           /\ f[0] = <<>> /\ \A k \in 1..Len(seqs) : f[k] = f[k - 1] \o seqs[k]
           /\ FlattenSeq(seqs) = f[Len(seqs)]
<1> DEFINE n == Len(seqs)
           step == [k \in 1..n |-> [x \in Seq(S) |-> x \o seqs[k]]]
           Flat(g) == g = [i \in 1..n |-> IF i = 1 THEN seqs[i] ELSE g[i - 1] \o seqs[i]]
<1>1. n \in Nat /\ \A k \in 1..n : seqs[k] \in Seq(S)
  OBVIOUS
<1>2. <<>> \in Seq(S) /\ \A x \in Seq(S) : <<>> \o x = x
  BY EmptySeq, ConcatEmptySeq
<1>3. \A k \in 1..n : \A x \in Seq(S) : step[k][x] = x \o seqs[k] /\ x \o seqs[k] \in Seq(S)
  BY <1>1, ConcatProperties
<1>4. PICK f \in [0..n -> Seq(S)] : Walk(f, n, <<>>, step)
  <2> DEFINE T == Seq(S)
  <2>1. n \in Nat /\ <<>> \in T /\ \A k \in 1..n : \A x \in T : step[k][x] \in T
    BY <1>1, <1>2, <1>3
  <2>2. \E f \in [0..n -> T] : Walk(f, n, <<>>, step)
    <3> HIDE DEF step, n, T
    <3> QED BY <2>1, Steps
  <2> QED BY <2>2
<1>5. f[0] = <<>> /\ \A k \in 1..n : f[k] = f[k - 1] \o seqs[k]
  <2>1. f[0] = <<>>
    BY <1>4 DEF Walk
  <2>2. ASSUME NEW k \in 1..n PROVE f[k] = f[k - 1] \o seqs[k]
    <3>1. k - 1 \in 0..n
      BY <1>1
    <3>2. f[k - 1] \in Seq(S)
      <4> HIDE DEF n
      <4> QED BY <3>1
    <3>3. f[k] = step[k][f[k - 1]]
      <4> HIDE DEF n, step
      <4> QED BY <1>4 DEF Walk
    <3> QED BY <1>3, <3>2, <3>3
  <2> QED BY <2>1, <2>2
<1>6. CASE n = 0
  <2>1. seqs = <<>>
    BY <1>6
  <2> QED BY <1>5, <1>6, <2>1 DEF FlattenSeq
<1>7. CASE n # 0
  <2>0. \A k \in 1..n : k = 1 => f[k] = seqs[k]
    <3> SUFFICES ASSUME NEW k \in 1..n, k = 1 PROVE f[k] = seqs[k]
      OBVIOUS
    <3>1. k - 1 = 0 /\ seqs[k] \in Seq(S)
      BY <1>1
    <3>2. f[k] = <<>> \o seqs[k]
      BY <1>5, <3>1
    <3> QED BY <1>2, <3>1, <3>2
  <2> DEFINE h == [k \in 1..n |-> f[k]]
  <2>1. Flat(h)
    <3>1. ASSUME NEW k \in 1..n PROVE h[k] = IF k = 1 THEN seqs[k] ELSE h[k - 1] \o seqs[k]
      <4>1. CASE k = 1
        BY <2>0, <4>1
      <4>2. CASE k # 1
        <5>1. k - 1 \in 1..n
          BY <1>1, <4>2
        <5> QED BY <1>5, <4>2, <5>1
      <4> QED BY <4>1, <4>2
    <3> QED BY <3>1
  <2> DEFINE g == CHOOSE g : Flat(g)
  <2>2. Flat(g)
    <3> HIDE DEF Flat, h
    <3> QED BY <2>1
  <2>3. FlattenSeq(seqs) = g[n]
    BY <1>7 DEF FlattenSeq
  <2> HIDE DEF g
  <2>4. \A k \in 1..n : g[k] = IF k = 1 THEN seqs[k] ELSE g[k - 1] \o seqs[k]
    BY <2>2
  <2> DEFINE M == {0} \union {k \in 1..n : g[k] = f[k]}
  <2>5. 0 \in M /\ \A k \in 1..n : k - 1 \in M => k \in M
    <3> SUFFICES ASSUME NEW k \in 1..n, k - 1 \in M PROVE g[k] = f[k]
      OBVIOUS
    <3>1. CASE k = 1
      BY <2>0, <2>4, <3>1
    <3>2. CASE k # 1
      <4>1. k - 1 \in 1..n /\ g[k - 1] = f[k - 1]
        BY <1>1, <3>2
      <4> QED BY <1>5, <2>4, <3>2, <4>1
    <3> QED BY <3>1, <3>2
  <2>6. \A k \in 0..n : k \in M
    <3> HIDE DEF M, n
    <3> QED BY <1>1, <2>5, CountUp
  <2>7. n \in 0..n
    BY <1>1
  <2>8. g[n] = f[n]
    BY <1>7, <2>6, <2>7
  <2> QED BY <1>5, <2>3, <2>8
<1> QED BY <1>6, <1>7

\* Rows of one thing and of another.
LEMMA JoinedStand ==
  ASSUME NEW a, NEW A, StandsFor(a, A), NEW b, NEW B, StandsFor(b, B), A \cap B = {}
  PROVE  StandsFor(a \o b, A \union B)
<1> DEFINE c == a \o b
<1>1. /\ a \in Seq(AboutRows) /\ b \in Seq(AboutRows)
      /\ A = {a[i].data : i \in DOMAIN a} /\ B = {b[i].data : i \in DOMAIN b}
      /\ \A i, j \in DOMAIN a : a[i].data = a[j].data => i = j
      /\ \A i, j \in DOMAIN b : b[i].data = b[j].data => i = j
  BY DEF StandsFor
<1> PICK m \in Nat, n \in Nat : m = Len(a) /\ n = Len(b) /\ DOMAIN a = 1..m /\ DOMAIN b = 1..n
  BY <1>1
<1>2. /\ c \in Seq(AboutRows) /\ DOMAIN c = 1..(m + n)
      /\ \A i \in 1..m : c[i] = a[i]
      /\ \A i \in (m + 1)..(m + n) : c[i] = b[i - m] /\ i - m \in 1..n
  BY <1>1
<1>3. \A i \in 1..(m + n) : i \in 1..m \/ i \in (m + 1)..(m + n)
  OBVIOUS
<1> HIDE DEF c
<1>9. \A k \in 1..m : c[k].data \in A
  BY <1>1, <1>2
<1>10. \A k \in (m + 1)..(m + n) : c[k].data \in B
  <2> SUFFICES ASSUME NEW k \in (m + 1)..(m + n) PROVE c[k].data \in B
    OBVIOUS
  <2>1. c[k] = b[k - m] /\ k - m \in DOMAIN b
    BY <1>2
  <2> QED BY <1>1, <2>1
<1>4. \A i \in 1..(m + n) : c[i].data \in A \union B
  BY <1>3, <1>9, <1>10
<1>5. \A x \in A : \E i \in 1..(m + n) : c[i].data = x
  <2> SUFFICES ASSUME NEW x \in A PROVE \E i \in 1..(m + n) : c[i].data = x
    OBVIOUS
  <2>1. PICK i \in 1..m : a[i].data = x
    BY <1>1
  <2>2. i \in 1..(m + n) /\ c[i].data = x
    BY <1>2, <2>1
  <2> QED BY <2>2
<1>6. \A x \in B : \E i \in 1..(m + n) : c[i].data = x
  <2> SUFFICES ASSUME NEW x \in B PROVE \E i \in 1..(m + n) : c[i].data = x
    OBVIOUS
  <2>1. PICK i \in 1..n : b[i].data = x
    BY <1>1
  <2>2. i + m \in (m + 1)..(m + n) /\ i + m - m = i /\ i + m \in 1..(m + n)
    OBVIOUS
  <2>3. c[i + m] = b[i]
    BY <1>2, <2>2
  <2> QED BY <2>1, <2>2, <2>3
<1>7. \A i, j \in 1..(m + n) : c[i].data = c[j].data => i = j
  <2> SUFFICES ASSUME NEW i \in 1..(m + n), NEW j \in 1..(m + n), c[i].data = c[j].data PROVE i = j
    OBVIOUS
  <2>3. CASE i \in 1..m /\ j \in 1..m
    <3>1. c[i] = a[i] /\ c[j] = a[j]
      BY <1>2, <2>3
    <3>2. a[i].data = a[j].data
      BY <3>1
    <3> QED BY <1>1, <2>3, <3>2
  <2>4. CASE i \in (m + 1)..(m + n) /\ j \in (m + 1)..(m + n)
    <3>1. /\ i - m \in DOMAIN b /\ j - m \in DOMAIN b
          /\ b[i - m].data = c[i].data /\ b[j - m].data = c[j].data
      BY <1>2, <2>4
    <3>2. i - m = j - m
      BY <1>1, <3>1
    <3> QED BY <3>2
  <2> QED BY <1>3, <1>9, <1>10, <2>3, <2>4
<1>8. A \union B = {c[i].data : i \in DOMAIN c}
  <2>1. \A x \in A \union B : \E i \in DOMAIN c : c[i].data = x
    BY <1>2, <1>5, <1>6
  <2>2. \A i \in DOMAIN c : c[i].data \in A \union B
    BY <1>2, <1>4
  <2> QED BY <2>1, <2>2
<1> QED BY <1>2, <1>7, <1>8 DEF StandsFor, c

\* The packages of a category.
LEMMA CategoryRowsAre ==
  ASSUME NEW x \in Indexes, NEW c \in DOMAIN Content[x]
  PROVE  LET ps == Content[x][c].packages
             rs == [p \in DOMAIN ps |->
                      Row(<<c, p>>, <<PackageAt(x, <<c, p>>).name,
                                      Last(PackageAt(x, <<c, p>>).versions).name>>)]
         IN StandsFor(rs, PackagesOf(x, c))
<1> DEFINE ps == Content[x][c].packages
           texts(p) == <<PackageAt(x, <<c, p>>).name, Last(PackageAt(x, <<c, p>>).versions).name>>
           data(p) == <<c, p>>
           row(p) == Row(data(p), texts(p))
           rs == [p \in DOMAIN ps |-> row(p)]
<1>1. DOMAIN ps = 1..Len(ps) /\ Len(ps) \in Nat /\ c \in Nat /\ \A p \in DOMAIN ps : data(p) \in Nat \X Nat
  BY ContentRight
<1>2. ASSUME NEW p \in DOMAIN ps
      PROVE  1 \in DOMAIN texts(p) /\ \A k \in DOMAIN texts(p) : texts(p)[k] \in RowTexts
  <2> DEFINE g == ps[p]
             vs == g.versions
  <2>1. PackageAt(x, <<c, p>>) = g
    BY DEF PackageAt
  <2>2. g.name \in RowTexts /\ \A v \in DOMAIN vs : vs[v].name \in RowTexts
    BY ContentTexts
  <2>3. DOMAIN vs = 1..Len(vs) /\ Len(vs) \in Nat \ {0}
    BY ContentRight
  <2> HIDE DEF g
  <2>4. Last(vs) = vs[Len(vs)] /\ Len(vs) \in DOMAIN vs
    BY <2>3 DEF Last
  <2>5. Last(vs).name \in RowTexts
    BY <2>2, <2>4
  <2> DEFINE s == g.name
             t == Last(vs).name
  <2>6. texts(p) = <<s, t>>
    BY <2>1
  <2>7. s \in RowTexts /\ t \in RowTexts
    BY <2>2, <2>5
  <2> HIDE DEF s, t, texts
  <2> QED BY <2>6, <2>7, TextsAre
<1>3. ASSUME NEW p \in DOMAIN ps PROVE row(p) \in AboutRows /\ row(p).data = data(p)
  <2> HIDE DEF texts, data
  <2> QED BY <1>1, <1>2, RowIs
<1>4. \A p, q \in DOMAIN ps : data(p) = data(q) => p = q
  OBVIOUS
<1>5. PackagesOf(x, c) = {data(p) : p \in DOMAIN ps}
  BY DEF PackagesOf
<1> HIDE DEF row, data, ps
<1>6. rs \in [1..Len(ps) -> AboutRows] /\ DOMAIN rs = DOMAIN ps /\ \A p \in DOMAIN ps : rs[p].data = data(p)
  BY <1>1, <1>3
<1> HIDE DEF rs
<1>7. rs \in Seq(AboutRows)
  BY <1>1, <1>6, FunctionIsSeq
<1>8. StandsFor(rs, PackagesOf(x, c))
  BY <1>4, <1>5, <1>6, <1>7 DEF StandsFor
<1> QED BY <1>8 DEF rs, row, data, ps

\* Those of some categories.
LEMMA PackageRowsAre ==
  ASSUME NEW x \in Indexes, NEW Cs \in SUBSET DOMAIN Content[x]
  PROVE  StandsFor(PackageRows(x, Cs), UNION {PackagesOf(x, c) : c \in Cs})
<1> PICK n \in Nat : n = Len(Content[x]) /\ DOMAIN Content[x] = 1..n
  BY ContentRight
<1> DEFINE rowsOf(c) == [p \in DOMAIN Content[x][c].packages |->
                           Row(<<c, p>>, <<PackageAt(x, <<c, p>>).name,
                                           Last(PackageAt(x, <<c, p>>).versions).name>>)]
           part(c) == IF c \in Cs THEN rowsOf(c) ELSE <<>>
           Of(c) == IF c \in Cs THEN PackagesOf(x, c) ELSE {}
           seqs == [c \in DOMAIN Content[x] |-> part(c)]
<1>1. PackageRows(x, Cs) = FlattenSeq(seqs)
  BY DEF PackageRows
<1>2. StandsFor(<<>>, {})
  BY DEF StandsFor
<1>3. \A c \in 1..n : StandsFor(rowsOf(c), PackagesOf(x, c))
  BY CategoryRowsAre
<1> HIDE DEF rowsOf
<1>4. \A c \in 1..n : StandsFor(part(c), Of(c))
  BY <1>2, <1>3
<1>5. \A c, e \in 1..n : c # e => Of(c) \cap Of(e) = {}
  BY DEF PackagesOf
<1> HIDE DEF part, Of
<1>6. seqs \in [1..n -> Seq(AboutRows)] /\ \A c \in 1..n : seqs[c] = part(c)
  BY <1>4 DEF StandsFor
<1> HIDE DEF seqs
<1>7. seqs \in Seq(Seq(AboutRows)) /\ Len(seqs) = n
  BY <1>6, FunctionIsSeq
<1> DEFINE none == <<>>
<1>8. PICK f \in [0..n -> Seq(AboutRows)] :
        /\ f[0] = none /\ \A k \in 1..n : f[k] = f[k - 1] \o seqs[k]
        /\ FlattenSeq(seqs) = f[n]
  <2> DEFINE S == AboutRows
  <2>1. seqs \in Seq(Seq(S))
    BY <1>7
  <2> HIDE DEF S
  <2>2. \E f \in [0..Len(seqs) -> Seq(S)] :
           /\ f[0] = <<>> /\ \A k \in 1..Len(seqs) : f[k] = f[k - 1] \o seqs[k]
           /\ FlattenSeq(seqs) = f[Len(seqs)]
    BY <2>1, Flattened, Zenon
  <2>3. \E f \in [0..n -> Seq(S)] :
           /\ f[0] = none /\ \A k \in 1..n : f[k] = f[k - 1] \o seqs[k]
           /\ FlattenSeq(seqs) = f[n]
    BY <1>7, <2>2, Zenon
  <2> QED BY <2>3 DEF S
<1> DEFINE Upto(k) == UNION {Of(c) : c \in 1..k}
           M == {k \in 0..n : StandsFor(f[k], Upto(k))}
<1>9. 0 \in M
  <2>1. Upto(0) = {}
    OBVIOUS
  <2>2. StandsFor(none, {}) /\ 0 \in 0..n
    BY <1>2
  <2> HIDE DEF Upto, none
  <2> QED BY <1>8, <2>1, <2>2
<1>10. ASSUME NEW k \in 1..n, k - 1 \in M PROVE k \in M
  <2>1. k \in 0..n /\ k - 1 \in 0..n /\ \A c : c \in 1..k <=> c \in 1..(k - 1) \/ c = k
    OBVIOUS
  <2>2. Upto(k) = Upto(k - 1) \union Of(k)
    BY <2>1
  <2>3. Upto(k - 1) \cap Of(k) = {}
    <3>1. \A c \in 1..(k - 1) : c \in 1..n /\ c # k
      OBVIOUS
    <3> QED BY <1>5, <3>1
  <2>4. StandsFor(f[k - 1], Upto(k - 1)) /\ StandsFor(seqs[k], Of(k)) /\ f[k] = f[k - 1] \o seqs[k]
    BY <1>4, <1>6, <1>8, <1>10
  <2> HIDE DEF Upto
  <2>5. StandsFor(f[k - 1] \o seqs[k], Upto(k - 1) \union Of(k))
    BY <2>3, <2>4, JoinedStand
  <2> QED BY <2>1, <2>2, <2>4, <2>5
<1>11. \A k \in 0..n : k \in M
  <2> HIDE DEF M
  <2> QED BY <1>9, <1>10, CountUp
<1>12. StandsFor(f[n], Upto(n))
  <2>1. n \in 0..n
    OBVIOUS
  <2> HIDE DEF Upto
  <2> QED BY <1>11, <2>1
<1>13. Upto(n) = UNION {PackagesOf(x, c) : c \in Cs}
  <2>1. \A c \in Cs : c \in 1..n /\ Of(c) = PackagesOf(x, c)
    BY DEF Of
  <2>2. \A c \in 1..n : Of(c) # {} => c \in Cs
    BY DEF Of
  <2> QED BY <2>1, <2>2
<1> QED BY <1>1, <1>8, <1>12, <1>13

\* The rows of a menu, and what the details have beside one of them, or beside none.
MenuRows(d) == IF d.at = <<>> THEN IndexMenu(d.index) ELSE PackageMenu(d)

Beside(d, u) ==
  IF d.at = <<>> THEN IF u <= 1 THEN PackagesIn(d.index) ELSE PackagesOf(d.index, u - 1)
  ELSE FilesOf(d, u)

Under(d, text) == IF d.at = <<>> THEN PackagesUnder(d.index, text) ELSE FilesUnder(d, text)

\* A menu has a first row.
LEMMA MenuTyped ==
  ASSUME NEW d, DelegateOK(d)
  PROVE  /\ MenuRows(d) \in Seq(AboutRows) /\ Len(MenuRows(d)) \in Nat \ {0}
         /\ DOMAIN MenuRows(d) = 1..Len(MenuRows(d))
<1> DEFINE rs == MenuRows(d)
<1>1. CASE d.at = <<>>
  <2>1. rs = IndexMenu(d.index) /\ d.index \in Indexes
    BY <1>1 DEF MenuRows, DelegateOK
  <2>2. rs \in Seq(AboutRows) /\ Len(rs) = Len(Content[d.index]) + 1 /\ Len(Content[d.index]) \in Nat
    BY <2>1, IndexMenuRows, ContentRight
  <2> HIDE DEF rs
  <2>3. Len(rs) \in Nat \ {0} /\ DOMAIN rs = 1..Len(rs)
    BY <2>2
  <2> QED BY <2>2, <2>3 DEF rs
<1>2. CASE d.at # <<>>
  <2>1. rs = PackageMenu(d)
    BY <1>2 DEF MenuRows
  <2>2. rs \in Seq(AboutRows) /\ Len(rs) = Len(Package(d).versions)
        /\ Len(Package(d).versions) \in Nat \ {0}
    BY <1>2, <2>1, PackageMenuRows, PackageParts
  <2> HIDE DEF rs
  <2>3. DOMAIN rs = 1..Len(rs)
    BY <2>2
  <2> QED BY <2>2, <2>3 DEF rs
<1> QED BY <1>1, <1>2

\* The rows that updateList adds.
LEMMA DetailsAre ==
  ASSUME NEW d, DelegateOK(d), NEW u \in 0..Len(MenuRows(d)), d.at # <<>> => u # 0
  PROVE  StandsFor(DetailRows(d, u), Beside(d, u))
<1>1. CASE d.at = <<>>
  <2> DEFINE x == d.index
             n == Len(Content[x])
             Cs == IF u <= 1 THEN DOMAIN Content[x] ELSE {u - 1}
  <2>1. x \in Indexes /\ DOMAIN Content[x] = 1..n /\ n \in Nat /\ Len(MenuRows(d)) = n + 1
    BY <1>1, IndexMenuRows, ContentRight DEF MenuRows, DelegateOK
  <2>2. Cs \in SUBSET DOMAIN Content[x]
    BY <2>1
  <2>3. UNION {PackagesOf(x, c) : c \in Cs} = Beside(d, u)
    BY <1>1 DEF Beside, PackagesIn
  <2>4. DetailRows(d, u) = PackageRows(x, Cs)
    BY <1>1 DEF DetailRows
  <2> HIDE DEF Cs, x
  <2> QED BY <2>1, <2>2, <2>3, <2>4, PackageRowsAre
<1>2. CASE d.at # <<>>
  <2>1. u \in DOMAIN Package(d).versions
    <3>1. Len(MenuRows(d)) = Len(Package(d).versions) /\ Len(Package(d).versions) \in Nat
          /\ DOMAIN Package(d).versions = 1..Len(Package(d).versions)
      BY <1>2, PackageMenuRows, PackageParts DEF MenuRows
    <3> QED BY <1>2, <3>1
  <2>2. DetailRows(d, u) = FileRows(d, u) /\ Beside(d, u) = FilesOf(d, u)
    BY <1>2 DEF DetailRows, Beside
  <2> QED BY <1>2, <2>1, <2>2, FileRowsAre
<1> QED BY <1>1, <1>2

\* They are under the text of the row.
LEMMA BesideIsUnder ==
  ASSUME NEW d, DelegateOK(d), NEW u \in 1..Len(MenuRows(d))
  PROVE  Beside(d, u) \in Under(d, MenuRows(d)[u].cells[1])
<1>1. CASE d.at = <<>>
  <2> DEFINE x == d.index
             n == Len(Content[x])
             text == MenuRows(d)[u].cells[1]
  <2>1. /\ x \in Indexes /\ DOMAIN Content[x] = 1..n /\ n \in Nat /\ Len(MenuRows(d)) = n + 1
        /\ MenuRows(d)[1].cells[1] = AllPackages
        /\ \A c \in 1..n : MenuRows(d)[c + 1].cells[1] = Content[x][c].name
    BY <1>1, IndexMenuRows, ContentRight DEF MenuRows, DelegateOK
  <2>2. Under(d, text) = PackagesUnder(x, text)
    BY <1>1 DEF Under
  <2>3. CASE u = 1
    <3>1. text = AllPackages /\ Beside(d, u) = PackagesIn(x)
      BY <1>1, <2>1, <2>3 DEF Beside
    <3>2. Beside(d, u) \in PackagesUnder(x, text)
      <4> HIDE DEF text, x
      <4> QED BY <3>1 DEF PackagesUnder
    <3> QED BY <2>2, <3>2
  <2>4. CASE u # 1
    <3> DEFINE c == u - 1
    <3>1. c \in DOMAIN Content[x] /\ u = c + 1 /\ ~(u <= 1)
      BY <2>1, <2>4
    <3>2. text = Content[x][c].name
      <4>1. MenuRows(d)[c + 1].cells[1] = Content[x][c].name
        BY <2>1, <3>1
      <4> QED BY <3>1, <4>1
    <3>3. Beside(d, u) = PackagesOf(x, c)
      BY <1>1, <3>1 DEF Beside
    <3>4. Beside(d, u) \in PackagesUnder(x, text)
      <4> HIDE DEF text, x, c
      <4> QED BY <3>1, <3>2, <3>3 DEF PackagesUnder
    <3> QED BY <2>2, <3>4
  <2> QED BY <2>3, <2>4
<1>2. CASE d.at # <<>>
  <2> DEFINE vs == Package(d).versions
             text == MenuRows(d)[u].cells[1]
  <2>1. u \in DOMAIN vs /\ text = vs[u].name
    <3>1. /\ Len(MenuRows(d)) = Len(vs) /\ DOMAIN vs = 1..Len(vs)
          /\ \A v \in DOMAIN vs : MenuRows(d)[v].cells[1] = vs[v].name
      BY <1>2, PackageMenuRows, PackageParts DEF MenuRows
    <3> QED BY <3>1
  <2>2. Beside(d, u) = FilesOf(d, u) /\ Under(d, text) = FilesUnder(d, text)
    BY <1>2 DEF Beside, Under
  <2>3. Beside(d, u) \in FilesUnder(d, text)
    <3> HIDE DEF text
    <3> QED BY <2>1, <2>2 DEF FilesUnder
  <2> QED BY <2>2, <2>3
<1> QED BY <1>1, <1>2

\* A list of this window: nothing is filtered, and it is always sorted.
Open(l) ==
  /\ l \in ListViews /\ Indexed(l) /\ Flagged(l) /\ l.filter = NoFilter /\ l.sort # NoSort
  /\ \A u \in DOMAIN l.rows : l.rows[u].cells \in RowCells

\* All its rows are in the view.
LEMMA OpenFits ==
  ASSUME NEW l, Open(l)
  PROVE  Ready(l) /\ Unsorted(l) /\ Held(l) /\ \A u \in DOMAIN l.rows : Fits(l, u)
<1>1. \A cells \in RowCells : Matches(NoFilter, cells)
  BY AboutAssumption DEF RowCells
<1>2. \A u \in DOMAIN l.rows : Fits(l, u)
  BY <1>1 DEF Open, Fits
<1>3. Unsorted(l) /\ Held(l)
  BY DEF Open, Unsorted, Indexed
<1> QED BY <1>2, <1>3 DEF Open, Ready, Flagged

\* The end of an edit.
Ended(l, r) == Open(r) /\ Settled(r) /\ SameRows(l, r) /\ SameSelection(l, r)

\* It shows the same rows, all of them.
LEMMA OpenEdited ==
  ASSUME NEW l, Open(l), NEW tie \in Ties(l)
  PROVE  Ended(l, endEdit(l, tie))
<1> DEFINE r == endEdit(l, tie)
<1>1. Shows(r) /\ SameRows(l, r) /\ SameSettings(l, r) /\ SameSelection(l, r)
  BY OpenFits, EditEnds
<1> HIDE DEF r
<1>2. r \in ListViews /\ l \in ListViews /\ Len(r.rows) = Len(l.rows)
  BY <1>1 DEF Shows, Open, SameRows
<1>3. DOMAIN r.rows = DOMAIN l.rows
  BY <1>2, ListTyped
<1>4. \A u \in DOMAIN r.rows : r.rows[u].cells \in RowCells
  BY <1>1, <1>3 DEF Open, SameRows
<1>5. Open(r)
  BY <1>1, <1>4 DEF Open, Shows, Flagged, SameSettings
<1> QED BY <1>1, <1>5 DEF Ended, Shows, r

\* Another sort.
LEMMA OpenSorted ==
  ASSUME NEW l, Open(l), NEW s \in Sorts \ {NoSort}, NEW user \in BOOLEAN
  PROVE  LET r == sortByColumn(l, s, user)
         IN Open(r) /\ r.rows = l.rows /\ r.items = l.items
<1> DEFINE r == sortByColumn(l, s, user)
           d == l.dirty \cup {"sort"}
           default == IF user THEN l.default ELSE s
<1>1. l \in ListViews /\ Indexed(l) /\ Flagged(l)
  BY DEF Open
<1>2. d \subseteq Flags /\ default \in Sorts
  BY <1>1, ListTyped DEF Flags
<1>3. r = [l EXCEPT !.sort = s, !.arrow = s, !.default = default, !.dirty = d]
  <2>1. r = [l EXCEPT !.sort = s, !.arrow = s, !.default = IF user THEN l.default ELSE s,
                      !.dirty = l.dirty \cup {"sort"}]
    BY DEF sortByColumn
  <2> QED BY <2>1
<1> HIDE DEF d, r, default
<1>4. /\ r \in ListViews /\ r.rows = l.rows /\ r.items = l.items /\ r.sort = s /\ r.dirty = d
      /\ r.filter = l.filter
  BY <1>1, <1>2, <1>3 DEF ListViews
<1>5. "sort" \in r.dirty /\ ("filter" \notin r.dirty => "filter" \notin l.dirty)
  BY <1>4 DEF d
<1>6. Indexed(r) /\ (Settled(l) => Settled(r))
  BY <1>1, <1>4 DEF Indexed, Held, Settled, Fits
<1>7. Flagged(r)
  BY <1>1, <1>5, <1>6 DEF Flagged
<1> QED BY <1>4, <1>6, <1>7 DEF Open, r

\* A click on a header.
LEMMA OpenClicked ==
  ASSUME NEW l, Open(l), NEW c \in Columns
  PROVE  LET r == onColumnClick(l, c)
         IN Open(r) /\ r.rows = l.rows /\ r.items = l.items
<1> DEFINE s == [column |-> c, order |-> IF l.sort.column = c /\ l.sort.order = "asc"
                                         THEN "desc" ELSE "asc"]
<1>1. s \in Sorts /\ s.column = c
  BY DEF Sorts
<1>2. s # NoSort
  BY <1>1, Column DEF NoSort
<1> HIDE DEF s
<1>3. Open(sortByColumn(l, s, TRUE)) /\ sortByColumn(l, s, TRUE).rows = l.rows
      /\ sortByColumn(l, s, TRUE).items = l.items
  BY <1>1, <1>2, OpenSorted
<1> QED BY <1>3 DEF onColumnClick, s

\* Items that are selected.
OpenMarked(l, r, i, on) ==
  /\ Open(r) /\ (Settled(l) => Settled(r))
  /\ r.rows = l.rows /\ Len(r.items) = Len(l.items) /\ DOMAIN r.items = DOMAIN l.items
  /\ \A j \in DOMAIN l.items :
       /\ r.items[j].param = l.items[j].param
       /\ r.items[j].selected = IF i = 0 \/ i = j THEN on ELSE l.items[j].selected

\* The rows stay as they are, and the other items.
LEMMA MarkOpen ==
  ASSUME NEW l, Open(l), NEW i \in Nat, NEW on \in BOOLEAN
  PROVE  OpenMarked(l, [l EXCEPT !.items = SetState(l.items, i, on)], i, on)
<1> DEFINE r == [l EXCEPT !.items = SetState(l.items, i, on)]
<1>1. Marked(l, r, i, on) /\ l \in ListViews
  BY StateSet DEF Open
<1> HIDE DEF r
<1>2. /\ r \in ListViews /\ Indexed(r) /\ SameSettings(l, r) /\ r.rows = l.rows /\ r.dirty = l.dirty
      /\ Len(r.items) = Len(l.items)
      /\ \A j \in DOMAIN l.items :
           /\ r.items[j].param = l.items[j].param
           /\ r.items[j].selected = IF i = 0 \/ i = j THEN on ELSE l.items[j].selected
  BY <1>1 DEF Marked
<1>3. DOMAIN r.items = DOMAIN l.items
  BY <1>1, <1>2, ListTyped
<1>4. Settled(l) => Settled(r)
  BY <1>2 DEF Settled, Fits, SameSettings
<1>5. Sorted(l) => Sorted(r)
  <2>1. \A u, v : Below(l, u, v) => Below(r, u, v)
    BY <1>2 DEF Below, SameSettings
  <2> QED BY <1>2, <1>3, <2>1 DEF Sorted
<1>6. Open(r)
  BY <1>2, <1>4, <1>5 DEF Open, Flagged, SameSettings
<1> QED BY <1>2, <1>3, <1>4, <1>6 DEF OpenMarked, r

\* The first k rows were added to a list without rows.
Part(l, x, rs, k) ==
  /\ x \in ListViews /\ Indexed(x) /\ InRowOrder(x) /\ Len(x.rows) = k /\ SameSettings(l, x)
  /\ \A u \in 1..k : /\ x.rows[u].data = rs[u].data /\ x.rows[u].cells = rs[u].cells
                     /\ x.items[u].selected = FALSE
  /\ k > 0 => "filter" \in x.dirty /\ "sort" \in x.dirty

\* A list that has these rows.
Holds(l, rs) ==
  /\ Len(l.rows) = Len(rs)
  /\ \A u \in DOMAIN rs : l.rows[u].data = rs[u].data /\ l.rows[u].cells = rs[u].cells

\* What may be added.
LEMMA AboutTyped ==
  ASSUME NEW rs \in Seq(AboutRows)
  PROVE  /\ Len(rs) \in Nat /\ DOMAIN rs = 1..Len(rs)
         /\ \A k \in 1..Len(rs) : /\ rs[k].data \in Data /\ rs[k].cells \in RowCells
                                  /\ rs[k].cells \in Cells
<1>1. RowCells \subseteq Cells
  BY AboutAssumption DEF RowCells, Cells
<1>2. \A row \in AboutRows : row.data \in Data /\ row.cells \in RowCells
  <2>1. ((Nat \X Nat) \union {None}) \subseteq Data
    BY DEF Data
  <2> QED BY <2>1 DEF AboutRows
<1>3. Len(rs) \in Nat /\ DOMAIN rs = 1..Len(rs) /\ \A k \in 1..Len(rs) : rs[k] \in AboutRows
  OBVIOUS
<1> QED BY <1>1, <1>2, <1>3

\* Another one.
LEMMA PartGrows ==
  ASSUME NEW l, l.sort # NoSort, NEW rs \in Seq(AboutRows), NEW k \in 1..Len(rs),
         NEW x, Part(l, x, rs, k - 1)
  PROVE  Part(l, NewRow(x, rs[k]), rs, k)
<1> DEFINE r == NewRow(x, rs[k])
           row == rs[k]
<1> PICK m \in Nat : m = k - 1
  BY AboutTyped
<1>1. row.data \in Data /\ row.cells \in Cells /\ k = m + 1
  BY AboutTyped
<1>2. /\ x \in ListViews /\ Indexed(x) /\ InRowOrder(x) /\ Len(x.rows) = m /\ SameSettings(l, x)
      /\ \A u \in 1..m : /\ x.rows[u].data = rs[u].data /\ x.rows[u].cells = rs[u].cells
                         /\ x.items[u].selected = FALSE
  BY DEF Part
<1>3. Grown(x, r, row)
  <2> HIDE DEF row
  <2>1. Grown(x, NewRow(x, row), row)
    BY <1>1, <1>2, RowGrown
  <2> QED BY <2>1 DEF row
<1> HIDE DEF r
<1>4. /\ r \in ListViews /\ Indexed(r) /\ InRowOrder(r) /\ Len(r.rows) = m + 1 /\ SameSettings(x, r)
      /\ \A u \in 1..m : /\ r.rows[u].data = x.rows[u].data /\ r.rows[u].cells = x.rows[u].cells
                         /\ r.items[u].selected = x.items[u].selected
      /\ r.rows[m + 1].data = row.data /\ r.rows[m + 1].cells = row.cells
      /\ r.items[m + 1].selected = FALSE
      /\ "filter" \in r.dirty /\ (x.sort # NoSort => "sort" \in r.dirty)
  BY <1>2, <1>3, Zenon DEF Grown
<1>5. SameSettings(l, r) /\ x.sort = l.sort
  BY <1>2, <1>4 DEF SameSettings
<1>6. \A u \in 1..k : u \in 1..m \/ u = m + 1
  BY <1>1
<1>7. \A u \in 1..k : /\ r.rows[u].data = rs[u].data /\ r.rows[u].cells = rs[u].cells
                      /\ r.items[u].selected = FALSE
  <2> SUFFICES ASSUME NEW u \in 1..k
               PROVE  /\ r.rows[u].data = rs[u].data /\ r.rows[u].cells = rs[u].cells
                      /\ r.items[u].selected = FALSE
    OBVIOUS
  <2>1. CASE u \in 1..m
    BY <1>2, <1>4, <2>1
  <2>2. CASE u = m + 1
    BY <1>1, <1>4, <2>2
  <2> QED BY <1>6, <2>1, <2>2
<1> HIDE DEF row
<1>8. Part(l, r, rs, k)
  BY <1>1, <1>4, <1>5, <1>7 DEF Part
<1> QED BY <1>8 DEF r

\* All of them.
LEMMA PartFills ==
  ASSUME NEW l, Open(l), NEW rs \in Seq(AboutRows), Part(l, l, rs, 0)
  PROVE  Part(l, Fill(l, rs), rs, Len(rs))
<1> DEFINE K == Len(rs)
           One(k, x) == NewRow(x, rs[k])
           S == {x \in ListViews : Indexed(x) /\ InRowOrder(x)}
           step == [k \in 1..K |-> [x \in S |-> One(k, x)]]
<1>1. K \in Nat /\ l.sort # NoSort
  BY AboutTyped DEF Open
<1>2. ASSUME NEW k \in 1..K, NEW x \in S PROVE One(k, x) \in S
  <2> DEFINE row == rs[k]
  <2>1. row.data \in Data /\ row.cells \in Cells /\ x \in ListViews /\ Indexed(x) /\ InRowOrder(x)
    BY AboutTyped
  <2> HIDE DEF row
  <2>2. Grown(x, NewRow(x, row), row)
    BY <2>1, RowGrown
  <2>3. NewRow(x, row) \in S
    BY <2>2, Zenon DEF Grown
  <2> QED BY <2>3 DEF row
<1>3. \A k \in 1..K : \A x \in S : step[k][x] = One(k, x) /\ step[k][x] \in S
  <2> HIDE DEF S, One
  <2> QED BY <1>2
<1>4. PICK g \in [0..K -> S] : Walk(g, K, l, step)
  <2>1. l \in S
    BY DEF Part
  <2> HIDE DEF S, step, K
  <2> QED BY <1>1, <1>3, <2>1, Steps
<1>5. \A k \in 1..K : g[k] = One(k, g[k - 1])
  <2> SUFFICES ASSUME NEW k \in 1..K PROVE g[k] = One(k, g[k - 1])
    OBVIOUS
  <2>1. k - 1 \in 0..K
    BY <1>1
  <2>2. g[k - 1] \in S
    <3> HIDE DEF S, K
    <3> QED BY <2>1
  <2>3. g[k] = step[k][g[k - 1]]
    <3> HIDE DEF step, K
    <3> QED BY <1>4 DEF Walk
  <2> HIDE DEF S, One
  <2> QED BY <1>3, <2>2, <2>3
<1>6. g = [k \in 0..K |-> IF k = 0 THEN l ELSE One(k, g[k - 1])]
  <2>1. \A k \in 0..K : g[k] = IF k = 0 THEN l ELSE One(k, g[k - 1])
    <3>1. \A k \in 0..K : k = 0 \/ k \in 1..K
      BY <1>1
    <3>2. g[0] = l
      BY <1>4 DEF Walk
    <3> HIDE DEF One, K
    <3> QED BY <1>5, <3>1, <3>2
  <2>2. g = [k \in 0..K |-> g[k]]
    <3> HIDE DEF S, K
    <3> QED OBVIOUS
  <2> HIDE DEF One, K
  <2> QED BY <2>1, <2>2
<1>7. PICK h : /\ h = [k \in 0..K |-> IF k = 0 THEN l ELSE One(k, h[k - 1])]
               /\ Fill(l, rs) = h[K]
  <2>1. \E h : h = [k \in 0..K |-> IF k = 0 THEN l ELSE One(k, h[k - 1])]
    BY <1>6
  <2> QED BY <2>1 DEF Fill
<1>8. h[0] = l /\ \A k \in 1..K : k \in 0..K /\ h[k] = One(k, h[k - 1])
  <2>1. 0 \in 0..K /\ \A k \in 1..K : k \in 0..K /\ k # 0
    BY <1>1
  <2> HIDE DEF One, K
  <2> QED BY <1>7, <2>1
<1> DEFINE M == {k \in 0..K : Part(l, h[k], rs, k)}
<1>9. 0 \in M
  <2>1. 0 \in 0..K
    BY <1>1
  <2> HIDE DEF K
  <2> QED BY <1>8, <2>1
<1>10. ASSUME NEW k \in 1..K, k - 1 \in M PROVE k \in M
  <2>1. Part(l, h[k - 1], rs, k - 1) /\ k \in 0..K /\ h[k] = NewRow(h[k - 1], rs[k])
    <3> HIDE DEF K
    <3> QED BY <1>8, <1>10
  <2>2. Part(l, NewRow(h[k - 1], rs[k]), rs, k)
    BY <1>1, <2>1, PartGrows
  <2> HIDE DEF K
  <2> QED BY <2>1, <2>2
<1>11. \A k \in 0..K : k \in M
  <2> HIDE DEF M, K
  <2> QED BY <1>1, <1>9, <1>10, CountUp
<1>12. K \in 0..K
  BY <1>1
<1> HIDE DEF K
<1>13. Part(l, Fill(l, rs), rs, K)
  BY <1>7, <1>11, <1>12
<1> QED BY <1>13 DEF K

\* A list that is filled.
FilledOpen(r, rs) ==
  /\ Open(r) /\ InRowOrder(r) /\ Holds(r, rs)
  /\ \A i \in DOMAIN r.items : r.items[i].selected = FALSE

\* Rows that are added to none are in order, and none is selected.
LEMMA OpenFilled ==
  ASSUME NEW l, Open(l), l.rows = <<>>, l.items = <<>>, NEW rs \in Seq(AboutRows)
  PROVE  FilledOpen(Fill(l, rs), rs)
<1> DEFINE none == <<>>
<1>1. Len(none) = 0 /\ DOMAIN none = {}
  OBVIOUS
<1> HIDE DEF none
<1>2. l.rows = none /\ l.items = none
  BY DEF none
<1>3. Part(l, l, rs, 0)
  <2>1. InRowOrder(l) /\ Len(l.rows) = 0
    BY <1>1, <1>2 DEF InRowOrder
  <2>2. \A u : u \notin 1..0
    OBVIOUS
  <2>3. ~(0 > 0) /\ SameSettings(l, l)
    BY DEF SameSettings
  <2> QED BY <2>1, <2>2, <2>3 DEF Part, Open
<1> DEFINE r == Fill(l, rs)
<1> PICK k \in Nat : k = Len(rs) /\ DOMAIN rs = 1..k
  BY AboutTyped
<1>4. Part(l, r, rs, k)
  BY <1>3, PartFills
<1> HIDE DEF r
<1>5. /\ r \in ListViews /\ Indexed(r) /\ InRowOrder(r) /\ Len(r.rows) = k /\ SameSettings(l, r)
      /\ \A u \in 1..k : /\ r.rows[u].data = rs[u].data /\ r.rows[u].cells = rs[u].cells
                         /\ r.items[u].selected = FALSE
      /\ k > 0 => "filter" \in r.dirty /\ "sort" \in r.dirty
  BY <1>4 DEF Part
<1>6. DOMAIN r.rows = 1..k /\ DOMAIN r.items = 1..k
  BY <1>5, ListTyped DEF InRowOrder
<1>7. Holds(r, rs) /\ \A i \in DOMAIN r.items : r.items[i].selected = FALSE
  BY <1>5, <1>6 DEF Holds
<1>8. \A u \in DOMAIN r.rows : r.rows[u].cells \in RowCells
  BY <1>5, <1>6, AboutTyped
<1>9. Flagged(r)
  <2>1. CASE k = 0
    <3>1. \A i : i \notin DOMAIN r.rows /\ i \notin DOMAIN r.items
      BY <1>6, <2>1
    <3> QED BY <3>1 DEF Flagged, Sorted, Settled
  <2>2. CASE k # 0
    BY <1>5, <2>2 DEF Flagged
  <2> QED BY <2>1, <2>2
<1>10. Open(r)
  BY <1>5, <1>8, <1>9 DEF Open, SameSettings
<1> QED BY <1>5, <1>7, <1>10 DEF FilledOpen, r

\* A list without rows.
EmptyOpen(r) == Open(r) /\ r.rows = <<>> /\ r.items = <<>>

\* It is a list of this window.
LEMMA OpenEmpty ==
  ASSUME NEW r \in ListViews, r.rows = <<>>, r.items = <<>>, r.filter = NoFilter, r.sort # NoSort
  PROVE  EmptyOpen(r)
<1> DEFINE none == <<>>
<1>1. DOMAIN none = {}
  OBVIOUS
<1> HIDE DEF none
<1>2. r.rows = none /\ r.items = none
  BY DEF none
<1>3. Open(r)
  BY <1>1, <1>2 DEF Open, Indexed, Held, Flagged, Sorted, Settled
<1> QED BY <1>3 DEF EmptyOpen

\* The lists as they are created.
LEMMA ClearedOpen == EmptyOpen(Cleared)
<1> DEFINE s == [column |-> 1, order |-> "asc"]
           none == <<>>
           flags == {}
           r == [rows |-> none, items |-> none, sort |-> s, default |-> s, dirty |-> flags,
                 filter |-> NoFilter, arrow |-> s]
<1>1. s \in Sorts /\ s.column = 1
  BY Column DEF Sorts
<1>2. s # NoSort
  BY <1>1 DEF NoSort
<1>3. none \in Seq(Rows) /\ none \in Seq(Items) /\ flags \in SUBSET Flags /\ NoFilter \in Filters
  BY AboutAssumption
<1>4. r = Cleared
  BY DEF Cleared, Empty
<1> HIDE DEF s, none, flags
<1>5. r \in ListViews /\ r.rows = none /\ r.items = none /\ r.filter = NoFilter /\ r.sort = s
  BY <1>1, <1>3 DEF ListViews
<1> HIDE DEF r
<1>6. r.rows = <<>> /\ r.items = <<>>
  BY <1>5 DEF none
<1> QED BY <1>2, <1>4, <1>5, <1>6, OpenEmpty

\* And as clear leaves them.
LEMMA ClearOpen ==
  ASSUME NEW l, Open(l)
  PROVE  EmptyOpen(clear(l))
<1> DEFINE none == <<>>
           r == clear(l)
<1>1. none \in Seq(Rows) /\ none \in Seq(Items)
  OBVIOUS
<1>2. r = [l EXCEPT !.items = none, !.rows = none]
  BY DEF clear
<1> HIDE DEF r, none
<1>3. /\ r \in ListViews /\ r.rows = none /\ r.items = none /\ r.filter = l.filter
      /\ r.sort = l.sort
  BY <1>1, <1>2 DEF Open, ListViews
<1>4. r.rows = <<>> /\ r.items = <<>>
  BY <1>3 DEF none
<1>5. EmptyOpen(r)
  BY <1>3, <1>4, OpenEmpty DEF Open
<1> QED BY <1>5 DEF r

\* Of the rows at most this one is selected.
OnlyRow(l, u) == \A i \in DOMAIN l.items : l.items[i].selected => l.items[i].param = u

\* The current row is the one whose item is selected.
CurrentIs(l) ==
  /\ currentIndex(l) \in 0..Len(l.rows)
  /\ (\A i \in DOMAIN l.items : ~l.items[i].selected) => currentIndex(l) = 0
  /\ \A i \in DOMAIN l.items : l.items[i].selected => currentIndex(l) \in DOMAIN l.rows
  /\ \A u : OnlyRow(l, u) =>
       \A i \in DOMAIN l.items : l.items[i].selected => currentIndex(l) = u

\* Whatever the order of the view is.
LEMMA CurrentPicked ==
  ASSUME NEW l, Open(l)
  PROVE  CurrentIs(l)
<1> DEFINE s == SelectedInView(l)
           none == <<>>
<1>1. /\ l \in ListViews /\ Held(l) /\ Unsorted(l)
      /\ DOMAIN l.rows = 1..Len(l.rows) /\ Len(l.rows) \in Nat
  BY OpenFits, ListTyped DEF Open
<1>2. s \in Seq(Picked(l)) /\ ToSet(s) = Picked(l) /\ Picked(l) \subseteq DOMAIN l.rows
  BY <1>1, SelectionPicks
<1>3. currentIndex(l) = IF s = none THEN 0 ELSE Head(s)
  BY DEF currentIndex
<1>4. \A i \in DOMAIN l.items : l.items[i].selected => l.items[i].param \in Picked(l)
  BY DEF Picked
<1>5. \A u : u \in Picked(l) => \E i \in DOMAIN l.items : l.items[i].selected /\ l.items[i].param = u
  BY DEF Picked
<1>6. CASE s = none
  <2>1. Picked(l) = {}
    BY <1>2, <1>6 DEF ToSet
  <2> QED BY <1>1, <1>3, <1>4, <1>6, <2>1 DEF CurrentIs
<1>7. CASE s # none
  <2>1. Head(s) \in Picked(l)
    <3> HIDE DEF s
    <3> QED BY <1>2, <1>7
  <2> HIDE DEF s, none
  <2>2. currentIndex(l) \in Picked(l)
    BY <1>3, <1>7, <2>1
  <2>3. currentIndex(l) \in DOMAIN l.rows /\ currentIndex(l) \in 0..Len(l.rows)
    BY <1>1, <1>2, <2>2
  <2>4. PICK j \in DOMAIN l.items : l.items[j].selected /\ l.items[j].param = currentIndex(l)
    BY <1>5, <2>2
  <2> QED BY <2>3, <2>4 DEF CurrentIs, OnlyRow
<1> QED BY <1>6, <1>7

\* The list beside row u.
DetailsOf(d, l, u) == Open(l) /\ Settled(l) /\ Holds(l, DetailRows(d, u))

\* The menu, with row u selected or none.
MenuOf(d, m, u) ==
  /\ Open(m) /\ Holds(m, MenuRows(d)) /\ OnlyRow(m, u)
  /\ u \in 0..Len(MenuRows(d)) /\ (d.at # <<>> => u # 0)

\* Rows stay what they are when an edit ends.
LEMMA HoldsSame ==
  ASSUME NEW l, NEW r, NEW rs, l \in ListViews, Holds(l, rs), rs \in Seq(AboutRows), SameRows(l, r)
  PROVE  Holds(r, rs)
<1>1. DOMAIN l.rows = 1..Len(l.rows) /\ DOMAIN rs = 1..Len(rs)
  BY ListTyped, AboutTyped
<1> QED BY <1>1 DEF Holds, SameRows

\* And the same one is selected.
LEMMA OnlySame ==
  ASSUME NEW l, NEW r, NEW u, Open(l), Ended(l, r), OnlyRow(l, u),
         \A v \in DOMAIN l.rows : HasItem(l, v)
  PROVE  OnlyRow(r, u)
<1> SUFFICES ASSUME NEW k \in DOMAIN r.items, r.items[k].selected PROVE r.items[k].param = u
  BY DEF OnlyRow
<1>1. l \in ListViews /\ r \in ListViews /\ Held(r) /\ Len(l.rows) = Len(r.rows)
  BY OpenFits DEF Open, Ended, SameRows
<1>2. r.items[k].param \in DOMAIN l.rows
  <2>1. DOMAIN r.rows = DOMAIN l.rows
    BY <1>1, ListTyped
  <2> QED BY <1>1, <2>1 DEF Held
<1>3. PICK i \in DOMAIN l.items : l.items[i].param = r.items[k].param
  BY <1>2 DEF HasItem
<1>4. r.items[k].selected = l.items[i].selected
  BY <1>3 DEF Ended, SameSelection
<1> QED BY <1>3, <1>4 DEF OnlyRow

\* The menu that init fills.
MenuFilled(d, m) ==
  MenuOf(d, m, currentIndex(m)) /\ \A v \in DOMAIN m.rows : HasItem(m, v)

\* Rows in order have an item each.
LEMMA OrderedHave ==
  ASSUME NEW l \in ListViews, InRowOrder(l)
  PROVE  \A v \in DOMAIN l.rows : v \in DOMAIN l.items /\ l.items[v].param = v /\ HasItem(l, v)
<1>1. DOMAIN l.rows = 1..Len(l.rows) /\ DOMAIN l.items = 1..Len(l.items)
      /\ Len(l.items) = Len(l.rows) /\ \A i \in DOMAIN l.items : l.items[i].param = i
  BY ListTyped DEF InRowOrder
<1> QED BY <1>1 DEF HasItem

\* For an index nothing is selected.
LEMMA IndexMenuFilled ==
  ASSUME NEW d, DelegateOK(d), d.at = <<>>
  PROVE  MenuFilled(d, FilledMenu(d))
<1> DEFINE m == FilledMenu(d)
           rs == MenuRows(d)
<1>1. rs \in Seq(AboutRows) /\ Len(rs) \in Nat \ {0}
  BY MenuTyped
<1>2. m = Fill(Cleared, rs)
  BY DEF FilledMenu, MenuRows
<1> HIDE DEF m, rs
<1>3. FilledOpen(m, rs)
  BY <1>1, <1>2, ClearedOpen, OpenFilled DEF EmptyOpen
<1>4. Open(m) /\ InRowOrder(m) /\ Holds(m, rs) /\ \A i \in DOMAIN m.items : ~m.items[i].selected
  BY <1>3 DEF FilledOpen
<1>5. currentIndex(m) = 0
  BY <1>4, CurrentPicked DEF CurrentIs
<1>6. MenuOf(d, m, currentIndex(m))
  BY <1>1, <1>4, <1>5 DEF MenuOf, OnlyRow, rs
<1>7. \A v \in DOMAIN m.rows : HasItem(m, v)
  BY <1>4, OrderedHave DEF Open
<1> QED BY <1>6, <1>7 DEF MenuFilled, m

\* SelectOnly selects one row, when the items are in the order of the rows.
LEMMA SelectedOnly ==
  ASSUME NEW l, Open(l), InRowOrder(l), NEW u \in DOMAIN l.rows
  PROVE  LET r == SelectOnly(l, u)
         IN Open(r) /\ r.rows = l.rows /\ InRowOrder(r) /\ OnlyRow(r, u) /\ currentIndex(r) = u
<1> DEFINE h == [l EXCEPT !.items = SetState(l.items, 0, FALSE)]
           r == [h EXCEPT !.items = SetState(h.items, u, TRUE)]
<1>1. l \in ListViews /\ u \in Nat /\ u # 0 /\ u \in DOMAIN l.items /\ l.items[u].param = u
  BY OrderedHave, ListTyped DEF Open
<1>2. setSelected(l, 0, FALSE) = h
  BY DEF setSelected, translate
<1>3. OpenMarked(l, h, 0, FALSE)
  BY MarkOpen
<1> HIDE DEF h
<1>4. /\ Open(h) /\ h.rows = l.rows /\ DOMAIN h.items = DOMAIN l.items /\ Len(h.items) = Len(l.items)
      /\ \A j \in DOMAIN l.items : h.items[j].param = l.items[j].param /\ ~h.items[j].selected
  BY <1>3 DEF OpenMarked
<1>5. translate(h, u) = u
  <2>1. translate(h, u) = h.rows[u].viewIndex
    BY <1>4, OpenFits, Translated DEF Open
  <2>2. u \in DOMAIN h.items /\ h.items[u].param = u
    BY <1>1, <1>4
  <2>3. h.rows[u].viewIndex = u
    BY <1>4, <2>2 DEF Open, Indexed
  <2> QED BY <2>1, <2>3
<1>6. SelectOnly(l, u) = r
  BY <1>2, <1>5 DEF SelectOnly, setSelected
<1>7. OpenMarked(h, r, u, TRUE)
  BY <1>1, <1>4, MarkOpen
<1> HIDE DEF r
<1>8. /\ Open(r) /\ r.rows = l.rows /\ DOMAIN r.items = DOMAIN l.items /\ Len(r.items) = Len(l.items)
      /\ \A j \in DOMAIN l.items : r.items[j].param = l.items[j].param
                                   /\ (r.items[j].selected <=> j = u)
  BY <1>1, <1>4, <1>7 DEF OpenMarked
<1>9. InRowOrder(r)
  BY <1>8 DEF InRowOrder
<1>10. OnlyRow(r, u)
  BY <1>1, <1>8 DEF OnlyRow
<1>11. currentIndex(r) = u
  <2>1. u \in DOMAIN r.items /\ r.items[u].selected
    BY <1>1, <1>8
  <2> QED BY <1>8, <1>10, <2>1, CurrentPicked DEF CurrentIs
<1> QED BY <1>6, <1>8, <1>9, <1>10, <1>11

\* For a package a version is.
LEMMA PackageMenuFilled ==
  ASSUME NEW d, DelegateOK(d), d.at # <<>>
  PROVE  MenuFilled(d, FilledMenu(d))
<1> DEFINE m == FilledMenu(d)
           rs == MenuRows(d)
           vs == Package(d).versions
           Installed == {v \in DOMAIN vs : vs[v].name = d.current}
           u == IF Installed = {} THEN Len(vs) ELSE CHOOSE v \in Installed : TRUE
           f == Fill(Cleared, rs)
           s == [column |-> 1, order |-> "desc"]
           g == sortByColumn(f, s, FALSE)
<1>1. /\ rs \in Seq(AboutRows) /\ Len(rs) = Len(vs)
      /\ Len(vs) \in Nat \ {0} /\ DOMAIN vs = 1..Len(vs)
  BY MenuTyped, PackageMenuRows, PackageParts DEF MenuRows
<1>2. m = SelectOnly(g, u)
  BY DEF FilledMenu, MenuRows
<1>3. u \in 1..Len(vs)
  <2> HIDE DEF vs
  <2>1. Installed # {} => (CHOOSE v \in Installed : TRUE) \in Installed
    OBVIOUS
  <2> QED BY <1>1, <2>1
<1> HIDE DEF m, rs, u
<1>4. FilledOpen(f, rs)
  BY <1>1, ClearedOpen, OpenFilled DEF EmptyOpen
<1> HIDE DEF f
<1>5. Open(f) /\ InRowOrder(f) /\ Holds(f, rs)
  BY <1>4 DEF FilledOpen
<1>6. s \in Sorts \ {NoSort} /\ FALSE \in BOOLEAN
  <2>1. s \in Sorts /\ s.column = 1
    BY Column DEF Sorts
  <2> QED BY <2>1 DEF NoSort
<1>7. Open(g) /\ g.rows = f.rows /\ g.items = f.items
  <2> HIDE DEF s
  <2> QED BY <1>5, <1>6, OpenSorted
<1> HIDE DEF g
<1>8. InRowOrder(g) /\ Holds(g, rs) /\ u \in DOMAIN g.rows
  <2>1. InRowOrder(g) /\ Holds(g, rs)
    BY <1>5, <1>7 DEF InRowOrder, Holds
  <2> QED BY <1>1, <1>3, <1>7, <2>1, ListTyped DEF Open, Holds
<1>9. Open(m) /\ m.rows = g.rows /\ InRowOrder(m) /\ OnlyRow(m, u) /\ currentIndex(m) = u
  BY <1>2, <1>7, <1>8, SelectedOnly
<1>10. Holds(m, rs)
  BY <1>8, <1>9 DEF Holds
<1>11. u \in 0..Len(rs) /\ u # 0
  BY <1>1, <1>3
<1>12. MenuOf(d, m, currentIndex(m))
  BY <1>9, <1>10, <1>11 DEF MenuOf, rs
<1>13. \A v \in DOMAIN m.rows : HasItem(m, v)
  BY <1>9, OrderedHave DEF Open
<1> QED BY <1>12, <1>13 DEF MenuFilled, m

\* updateList fills the list beside another row than before.
LEMMA ListUpdated ==
  ASSUME NEW d, DelegateOK(d), NEW u \in 0..Len(MenuRows(d)), d.at # <<>> => u # 0,
         NEW l, Open(l), NEW shown, ~Skips(u, shown), updateList(d, u, l, shown)
  PROVE  DetailsOf(d, details', u) /\ current' = u
<1> DEFINE rs == DetailRows(d, u)
           e == clear(l)
           f == Fill(e, rs)
<1>1. DetailsEdited(f) /\ current' = u
  BY DEF updateList
<1>2. rs \in Seq(AboutRows)
  BY DetailsAre DEF StandsFor
<1> HIDE DEF rs
<1>3. EmptyOpen(e)
  BY ClearOpen
<1> HIDE DEF e
<1>4. FilledOpen(f, rs)
  BY <1>2, <1>3, OpenFilled DEF EmptyOpen
<1> HIDE DEF f
<1>5. Open(f) /\ Holds(f, rs) /\ f \in ListViews
  BY <1>4 DEF FilledOpen, Open
<1>6. PICK tie \in Ties(f) : details' = endEdit(f, tie)
  BY <1>1 DEF DetailsEdited
<1>7. Ended(f, details')
  BY <1>5, <1>6, OpenEdited
<1>8. Holds(details', rs)
  BY <1>2, <1>5, <1>7, HoldsSame DEF Ended
<1> QED BY <1>1, <1>7, <1>8 DEF DetailsOf, Ended, rs

\* While there is a window, its lists have the rows of its delegate, and the details
\* are those beside the row that was selected last.
AboutInv ==
  delegate # None =>
    /\ DelegateOK(delegate)
    /\ MenuOf(delegate, menu, current) /\ Settled(menu)
    /\ DetailsOf(delegate, details, current)

\* Another delegate fills both.
LEMMA Replaced ==
  ASSUME NEW d, DelegateOK(d), Replace(d)
  PROVE  AboutInv'
<1> DEFINE m == FilledMenu(d)
           u == currentIndex(m)
<1>1. /\ delegate' = d
      /\ \E tie \in Ties(m) : menu' = endEdit(m, tie)
      /\ updateList(d, u, Cleared, NotSet)
  BY DEF Replace
<1>2. MenuFilled(d, m)
  BY IndexMenuFilled, PackageMenuFilled
<1> HIDE DEF m
<1>3. /\ Open(m) /\ Holds(m, MenuRows(d)) /\ OnlyRow(m, u) /\ u \in 0..Len(MenuRows(d))
      /\ (d.at # <<>> => u # 0) /\ \A v \in DOMAIN m.rows : HasItem(m, v)
  BY <1>2 DEF MenuFilled, MenuOf
<1>4. PICK tie \in Ties(m) : menu' = endEdit(m, tie)
  BY <1>1
<1>5. Ended(m, menu')
  BY <1>3, <1>4, OpenEdited
<1>6. OnlyRow(menu', u)
  BY <1>3, <1>5, OnlySame
<1>7. Holds(menu', MenuRows(d))
  BY <1>3, <1>5, HoldsSame, MenuTyped DEF Ended, Open
<1>8. ~Skips(u, NotSet)
  BY <1>3, MenuTyped DEF Skips, NotSet
<1>9. DetailsOf(d, details', u) /\ current' = u
  <2> HIDE DEF u
  <2> QED BY <1>1, <1>3, <1>8, ClearedOpen, ListUpdated DEF EmptyOpen
<1>10. MenuOf(d, menu', u) /\ Settled(menu')
  BY <1>3, <1>5, <1>6, <1>7 DEF MenuOf, Ended
<1> HIDE DEF u
<1> QED BY <1>1, <1>9, <1>10 DEF AboutInv

\* Nothing changes.
LEMMA AboutSame == AboutInv /\ UNCHANGED <<delegate, menu, details, current>> => AboutInv'
BY DEF AboutInv

\* Another thing to show, or the same.
LEMMA DelegateSet ==
  ASSUME AboutInv, NEW d, DelegateOK(d), setDelegate(d)
  PROVE  AboutInv'
BY Replaced, AboutSame DEF setDelegate

\* What the steps set is in the indexes.
LEMMA DelegateRight ==
  ASSUME NEW x \in Indexes, NEW v
  PROVE  /\ DelegateOK([index |-> x, at |-> <<>>, current |-> v])
         /\ \A at \in PackagesIn(x) : DelegateOK([index |-> x, at |-> at, current |-> v])
BY DEF DelegateOK

\* A repository is.
LEMMA IndexShown ==
  ASSUME AboutInv, NEW x \in Indexes, ShowIndex(x)
  PROVE  AboutInv'
BY DelegateRight, DelegateSet DEF ShowIndex

\* A package is.
LEMMA PackageShown ==
  ASSUME AboutInv, NEW x \in Indexes, NEW at \in PackagesIn(x), NEW v,
         ShowPackage(x, at, v)
  PROVE  AboutInv'
BY DelegateRight, DelegateSet DEF ShowPackage

\* Everything beside a row of an index is a package of it.
LEMMA BesideInside ==
  ASSUME NEW d, DelegateOK(d), d.at = <<>>, NEW u \in 0..Len(MenuRows(d))
  PROVE  Beside(d, u) \subseteq PackagesIn(d.index)
<1> PICK n \in Nat : n = Len(Content[d.index]) /\ DOMAIN Content[d.index] = 1..n
  BY ContentRight DEF DelegateOK
<1>1. Len(MenuRows(d)) = n + 1
  BY IndexMenuRows DEF MenuRows, DelegateOK
<1>2. CASE u <= 1
  BY <1>2 DEF Beside
<1>3. CASE ~(u <= 1)
  <2>1. u - 1 \in 1..n /\ Beside(d, u) = PackagesOf(d.index, u - 1)
    BY <1>1, <1>3 DEF Beside
  <2> QED BY <2>1 DEF PackagesIn
<1> QED BY <1>2, <1>3

\* A row of the details is activated.
LEMMA Activated ==
  ASSUME AboutInv, NEW v, ActivatePackage(v)
  PROVE  AboutInv'
<1> DEFINE u == currentIndex(details)
           at == details.rows[u].data
           rs == DetailRows(delegate, current)
           x == delegate.index
<1>1. delegate # None /\ delegate.at = <<>> /\ u # 0 /\ ShowPackage(x, at, v)
  BY DEF ActivatePackage
<1>2. /\ DelegateOK(delegate) /\ Open(details) /\ Holds(details, rs)
      /\ current \in 0..Len(MenuRows(delegate)) /\ x \in Indexes
  BY <1>1 DEF AboutInv, MenuOf, DetailsOf, DelegateOK
<1>3. StandsFor(rs, Beside(delegate, current))
  BY <1>1, <1>2, DetailsAre
<1>4. u \in 0..Len(details.rows) /\ Len(details.rows) \in Nat
  BY <1>2, CurrentPicked, ListTyped DEF CurrentIs, Open
<1> HIDE DEF u, rs
<1>5. u \in DOMAIN rs
  BY <1>1, <1>2, <1>3, <1>4 DEF StandsFor, Holds
<1>6. rs[u].data \in Beside(delegate, current) /\ at = rs[u].data
  BY <1>2, <1>3, <1>5 DEF StandsFor, Holds
<1>7. at \in PackagesIn(x)
  BY <1>1, <1>2, <1>6, BesideInside
<1> HIDE DEF at, x
<1> QED BY <1>1, <1>2, <1>7, PackageShown

\* A click on an item, or beside them.
Clicked(l, r, i) ==
  /\ Open(r) /\ (Settled(l) => Settled(r)) /\ r.rows = l.rows /\ DOMAIN r.items = DOMAIN l.items
  /\ \A j \in DOMAIN l.items :
       r.items[j].param = l.items[j].param /\ (r.items[j].selected <=> j = i)

\* It leaves no other item selected.
LEMMA OpenSelected ==
  ASSUME NEW l, Open(l), NEW i \in 0..Len(l.items)
  PROVE  Clicked(l, [l EXCEPT !.items = SetState(SetState(l.items, 0, FALSE), i, i > 0)], i)
<1> DEFINE first == SetState(l.items, 0, FALSE)
           on == i > 0
           h == [l EXCEPT !.items = first]
           r == [h EXCEPT !.items = SetState(h.items, i, on)]
<1>1. l \in ListViews /\ DOMAIN l.items = 1..Len(l.items) /\ Len(l.items) \in Nat /\ i \in Nat
  BY ListTyped DEF Open
<1>2. r = [l EXCEPT !.items = SetState(first, i, on)]
  <2>1. h.items = first
    <3> HIDE DEF first
    <3> QED BY <1>1 DEF ListViews
  <2> HIDE DEF first, on
  <2> QED BY <1>1, <2>1 DEF ListViews
<1>3. OpenMarked(l, h, 0, FALSE)
  BY MarkOpen
<1> HIDE DEF h
<1>4. /\ Open(h) /\ (Settled(l) => Settled(h)) /\ h.rows = l.rows /\ DOMAIN h.items = DOMAIN l.items
      /\ \A j \in DOMAIN l.items : h.items[j].param = l.items[j].param /\ ~h.items[j].selected
  BY <1>3 DEF OpenMarked
<1>9. on \in BOOLEAN /\ (i = 0 => on = FALSE) /\ (i # 0 => on = TRUE)
  BY <1>1
<1> HIDE DEF on
<1>5. OpenMarked(h, r, i, on)
  BY <1>1, <1>4, <1>9, MarkOpen
<1> HIDE DEF r
<1>6. /\ Open(r) /\ (Settled(h) => Settled(r)) /\ r.rows = h.rows /\ DOMAIN r.items = DOMAIN h.items
      /\ \A j \in DOMAIN h.items :
           /\ r.items[j].param = h.items[j].param
           /\ r.items[j].selected = IF i = 0 \/ i = j THEN on ELSE h.items[j].selected
  BY <1>5 DEF OpenMarked
<1>7. ASSUME NEW j \in DOMAIN l.items
      PROVE  r.items[j].param = l.items[j].param /\ (r.items[j].selected <=> j = i)
  <2>1. j # 0 /\ r.items[j].param = l.items[j].param /\ ~h.items[j].selected
        /\ r.items[j].selected = IF i = 0 \/ i = j THEN on ELSE h.items[j].selected
    BY <1>1, <1>4, <1>6, <1>7
  <2>2. CASE i = 0
    <3>1. r.items[j].selected = FALSE /\ j # i
      BY <1>9, <2>1, <2>2
    <3> QED BY <2>1, <3>1
  <2>3. CASE i # 0 /\ j = i
    <3>1. r.items[j].selected = TRUE
      BY <1>9, <2>1, <2>3
    <3> QED BY <2>1, <2>3, <3>1
  <2>4. CASE i # 0 /\ j # i
    <3>1. r.items[j].selected = h.items[j].selected
      BY <2>1, <2>4
    <3> QED BY <2>1, <2>4, <3>1
  <2> QED BY <2>2, <2>3, <2>4
<1>8. Clicked(l, r, i)
  BY <1>4, <1>6, <1>7 DEF Clicked
<1> QED BY <1>2, <1>8 DEF on

\* A row of the menu is selected, or none.
LEMMA MenuSelected ==
  ASSUME AboutInv, NEW i, SelectMenu(i)
  PROVE  AboutInv'
<1> DEFINE r == [menu EXCEPT !.items = SetState(SetState(menu.items, 0, FALSE), i, i > 0)]
           u == currentIndex(r)
           d == delegate
<1>1. /\ d # None /\ i \in 0..Len(menu.items) /\ menu' = r /\ delegate' = d
      /\ updateList(d, u, details, current)
  BY DEF SelectMenu, visibleRowCount
<1>2. /\ DelegateOK(d) /\ MenuOf(d, menu, current) /\ Settled(menu) /\ DetailsOf(d, details, current)
      /\ Open(menu) /\ Holds(menu, MenuRows(d)) /\ current \in 0..Len(MenuRows(d))
      /\ (d.at # <<>> => current # 0)
  BY <1>1 DEF AboutInv, MenuOf
<1>3. Clicked(menu, r, i)
  BY <1>1, <1>2, OpenSelected
<1> HIDE DEF r
<1>4. /\ Open(r) /\ Settled(r) /\ r.rows = menu.rows
      /\ \A j \in DOMAIN r.items : r.items[j].selected <=> j = i
  BY <1>2, <1>3 DEF Clicked
<1>5. Holds(r, MenuRows(d)) /\ Len(r.rows) = Len(MenuRows(d)) /\ Len(r.rows) \in Nat
  BY <1>2, <1>4, MenuTyped DEF Holds
<1>6. CurrentIs(r)
  BY <1>4, CurrentPicked
<1>7. CASE i \in DOMAIN r.items
  <2>1. OnlyRow(r, r.items[i].param) /\ r.items[i].selected
    BY <1>4, <1>7 DEF OnlyRow
  <2>2. u = r.items[i].param /\ u \in DOMAIN r.rows
    BY <1>6, <1>7, <2>1 DEF CurrentIs
  <2> HIDE DEF u, d
  <2>3. OnlyRow(r, u) /\ u \in 0..Len(MenuRows(d)) /\ u # 0
    BY <1>4, <1>5, <2>1, <2>2, ListTyped DEF Open
  <2>4. CASE Skips(u, current)
    <3>1. u = current /\ details' = details /\ current' = current
      BY <1>1, <2>3, <2>4 DEF updateList, Skips
    <3>2. MenuOf(d, r, current)
      BY <1>4, <1>5, <2>3, <3>1 DEF MenuOf
    <3> QED BY <1>1, <1>2, <1>4, <3>1, <3>2 DEF AboutInv
  <2>5. CASE ~Skips(u, current)
    <3>1. DetailsOf(d, details', u) /\ current' = u
      BY <1>1, <1>2, <2>3, <2>5, ListUpdated DEF DetailsOf
    <3>2. MenuOf(d, r, u)
      BY <1>4, <1>5, <2>3 DEF MenuOf
    <3> QED BY <1>1, <1>2, <1>4, <3>1, <3>2 DEF AboutInv
  <2> QED BY <2>4, <2>5
<1>8. CASE i \notin DOMAIN r.items
  <2>1. \A j \in DOMAIN r.items : ~r.items[j].selected
    BY <1>4, <1>8
  <2>2. u = 0
    BY <1>6, <2>1 DEF CurrentIs
  <2> HIDE DEF u, d
  <2>3. current # NotSet
    BY <1>2, <1>5 DEF NotSet
  <2>4. details' = details /\ current' = current
    BY <1>1, <2>2, <2>3 DEF updateList, Skips
  <2>5. MenuOf(d, r, current)
    BY <1>2, <1>4, <1>5, <2>1 DEF MenuOf, OnlyRow
  <2> QED BY <1>1, <1>2, <1>4, <2>4, <2>5 DEF AboutInv
<1> QED BY <1>7, <1>8

\* A row of the details is.
LEMMA DetailSelected ==
  ASSUME AboutInv, NEW i, SelectDetail(i)
  PROVE  AboutInv'
<1> DEFINE r == [details EXCEPT !.items = SetState(SetState(details.items, 0, FALSE), i, i > 0)]
<1>1. /\ delegate # None /\ i \in 0..Len(details.items) /\ details' = r
      /\ UNCHANGED <<delegate, menu, current>>
  BY DEF SelectDetail, visibleRowCount
<1>2. /\ DelegateOK(delegate) /\ MenuOf(delegate, menu, current) /\ Settled(menu)
      /\ DetailsOf(delegate, details, current) /\ Open(details)
  BY <1>1 DEF AboutInv, DetailsOf
<1>3. Clicked(details, r, i)
  BY <1>1, <1>2, OpenSelected
<1> HIDE DEF r
<1>4. DetailsOf(delegate, r, current)
  BY <1>2, <1>3 DEF Clicked, DetailsOf, Holds
<1> QED BY <1>1, <1>2, <1>4 DEF AboutInv

\* All rows are in the view.
LEMMA SettledHave ==
  ASSUME NEW l, Open(l), Settled(l)
  PROVE  \A v \in DOMAIN l.rows : HasItem(l, v)
<1>1. l \in ListViews /\ Held(l) /\ \A u \in DOMAIN l.rows : l.rows[u].viewIndex # 0
  BY OpenFits DEF Open, Settled
<1> QED BY <1>1 DEF Held, HasItem

\* The menu is sorted again.
LEMMA MenuClicked ==
  ASSUME AboutInv, MenuColumnClick
  PROVE  AboutInv'
<1> DEFINE l == onColumnClick(menu, 1)
<1>1. /\ delegate # None /\ UNCHANGED <<delegate, details, current>>
      /\ \E tie \in Ties(l) : menu' = endEdit(l, tie)
  BY DEF MenuColumnClick
<1>2. /\ DelegateOK(delegate) /\ MenuOf(delegate, menu, current) /\ Settled(menu)
      /\ DetailsOf(delegate, details, current)
      /\ Open(menu) /\ Holds(menu, MenuRows(delegate)) /\ OnlyRow(menu, current)
  BY <1>1 DEF AboutInv, MenuOf
<1>3. Open(l) /\ l.rows = menu.rows /\ l.items = menu.items
  BY <1>2, Column, OpenClicked
<1> HIDE DEF l
<1>4. PICK tie \in Ties(l) : menu' = endEdit(l, tie)
  BY <1>1
<1>5. Ended(l, menu')
  BY <1>3, <1>4, OpenEdited
<1>6. Holds(l, MenuRows(delegate)) /\ OnlyRow(l, current) /\ \A v \in DOMAIN l.rows : HasItem(l, v)
  BY <1>2, <1>3, SettledHave DEF Holds, OnlyRow, HasItem
<1>7. OnlyRow(menu', current)
  BY <1>3, <1>5, <1>6, OnlySame
<1>8. Holds(menu', MenuRows(delegate))
  BY <1>2, <1>3, <1>5, <1>6, HoldsSame, MenuTyped DEF Ended, Open
<1>9. MenuOf(delegate, menu', current) /\ Settled(menu')
  BY <1>2, <1>5, <1>7, <1>8 DEF MenuOf, Ended
<1> QED BY <1>1, <1>2, <1>9 DEF AboutInv

\* The details are.
LEMMA DetailsClicked ==
  ASSUME AboutInv, NEW c \in Columns, DetailColumnClick(c)
  PROVE  AboutInv'
<1> DEFINE l == onColumnClick(details, c)
           rs == DetailRows(delegate, current)
<1>1. /\ delegate # None /\ UNCHANGED <<delegate, menu, current>>
      /\ \E tie \in Ties(l) : details' = endEdit(l, tie)
  BY DEF DetailColumnClick, DetailsEdited
<1>2. /\ DelegateOK(delegate) /\ MenuOf(delegate, menu, current) /\ Settled(menu)
      /\ Open(details) /\ Holds(details, rs)
  BY <1>1 DEF AboutInv, DetailsOf
<1>3. Open(l) /\ l.rows = details.rows
  BY <1>2, OpenClicked
<1> HIDE DEF l
<1>4. PICK tie \in Ties(l) : details' = endEdit(l, tie)
  BY <1>1
<1>5. Ended(l, details')
  BY <1>3, <1>4, OpenEdited
<1>6. rs \in Seq(AboutRows)
  BY <1>2, DetailsAre DEF MenuOf, StandsFor
<1> HIDE DEF rs
<1>7. Holds(l, rs)
  BY <1>2, <1>3 DEF Holds
<1>8. Holds(details', rs)
  BY <1>3, <1>5, <1>6, <1>7, HoldsSame DEF Ended, Open
<1>9. DetailsOf(delegate, details', current)
  BY <1>5, <1>8 DEF DetailsOf, Ended, rs
<1> QED BY <1>1, <1>2, <1>9 DEF AboutInv

\* No step breaks it.
LEMMA AboutStepInv == AboutInv /\ [AboutNext]_aboutVars => AboutInv'
<1> SUFFICES ASSUME AboutInv, [AboutNext]_aboutVars PROVE AboutInv'
  OBVIOUS
<1>1. CASE \E x \in Indexes : ShowIndex(x)
  BY <1>1, IndexShown
<1>2. ASSUME NEW x \in Indexes, NEW v \in Versions, NEW at \in PackagesIn(x),
             ShowPackage(x, at, v) \/ updateAbout(x, at, v)
      PROVE  AboutInv'
  BY <1>2, IndexShown, PackageShown DEF updateAbout
<1>3. CASE \E v \in Versions : ActivatePackage(v)
  BY <1>3, Activated
<1>4. CASE ActionButton
  <2>1. delegate # None /\ ShowIndex(delegate.index)
    BY <1>4 DEF ActionButton
  <2>2. delegate.index \in Indexes
    BY <2>1 DEF AboutInv, DelegateOK
  <2> QED BY <2>1, <2>2, IndexShown
<1>5. CASE \E i \in 0..visibleRowCount(menu) : SelectMenu(i)
  BY <1>5, MenuSelected
<1>6. CASE \E i \in 0..visibleRowCount(details) : SelectDetail(i)
  BY <1>6, DetailSelected
<1>7. CASE MenuColumnClick
  BY <1>7, MenuClicked
<1>8. CASE \E c \in Columns : DetailColumnClick(c)
  BY <1>8, DetailsClicked
<1>9. CASE Close
  BY <1>9 DEF Close, AboutInv
<1>10. CASE UNCHANGED aboutVars
  BY <1>10, AboutSame DEF aboutVars
<1> QED BY <1>1, <1>2, <1>3, <1>4, <1>5, <1>6, <1>7, <1>8, <1>9, <1>10 DEF AboutNext

\* The items of the details are what their rows stand for, each once.
LEMMA DetailsShow ==
  ASSUME NEW l, Open(l), Settled(l), NEW rs, NEW S, StandsFor(rs, S), Holds(l, rs)
  PROVE  LET shown == {l.rows[l.items[i].param].data : i \in DOMAIN l.items}
         IN shown = S /\ Len(l.items) = Cardinality(shown)
<1> DEFINE at(i) == l.rows[l.items[i].param].data
           shown == {at(i) : i \in DOMAIN l.items}
<1>1. /\ l \in ListViews /\ Held(l) /\ rs \in Seq(AboutRows) /\ S = {rs[u].data : u \in DOMAIN rs}
      /\ \A u, v \in DOMAIN rs : rs[u].data = rs[v].data => u = v
      /\ DOMAIN l.items = 1..Len(l.items) /\ Len(l.items) \in Nat
  BY OpenFits, ListTyped DEF Open, StandsFor
<1>2. DOMAIN rs = DOMAIN l.rows /\ \A u \in DOMAIN rs : l.rows[u].data = rs[u].data
  BY <1>1, ListTyped, AboutTyped DEF Holds
<1>3. \A i \in DOMAIN l.items : l.items[i].param \in DOMAIN rs /\ at(i) = rs[l.items[i].param].data
  BY <1>1, <1>2 DEF Held
<1>4. \A u \in DOMAIN rs : \E i \in DOMAIN l.items : l.items[i].param = u
  BY <1>2, SettledHave DEF HasItem
<1>5. \A i, j \in DOMAIN l.items : at(i) = at(j) => i = j
  BY <1>1, <1>3 DEF Held
<1>6. shown = S
  <2> HIDE DEF at
  <2>1. \A i \in DOMAIN l.items : at(i) \in S
    BY <1>1, <1>3
  <2>2. \A x \in S : \E i \in DOMAIN l.items : at(i) = x
    <3> SUFFICES ASSUME NEW x \in S PROVE \E i \in DOMAIN l.items : at(i) = x
      OBVIOUS
    <3>1. PICK u \in DOMAIN rs : rs[u].data = x
      BY <1>1
    <3>2. PICK i \in DOMAIN l.items : l.items[i].param = u
      BY <1>4
    <3> QED BY <1>3, <3>1, <3>2
  <2> QED BY <2>1, <2>2
<1>7. Len(l.items) = Cardinality(shown)
  <2> PICK n \in Nat : n = Len(l.items)
    BY <1>1
  <2> DEFINE f == [i \in 1..n |-> at(i)]
  <2> HIDE DEF at
  <2>1. DOMAIN l.items = 1..n
    BY <1>1
  <2>2. f \in Bijection(1..n, shown)
    <3>1. f \in [1..n -> shown] /\ \A i \in 1..n : f[i] = at(i)
      BY <2>1
    <3> HIDE DEF f
    <3>2. \A x \in shown : \E i \in 1..n : f[i] = x
      BY <2>1, <3>1
    <3>3. \A i, j \in 1..n : f[i] = f[j] => i = j
      BY <1>5, <2>1, <3>1
    <3> HIDE DEF shown
    <3> QED BY <3>1, <3>2, <3>3 DEF Bijection, Injection, IsInjective, Surjection
  <2>3. ExistsBijection(1..n, shown)
    BY <2>2 DEF ExistsBijection
  <2> HIDE DEF shown
  <2> QED BY <2>3, FS_CountingElements
<1> QED BY <1>6, <1>7

\* What the lists hold is what the property asks for.
LEMMA InvLists == AboutInv => AboutListsTheSelection
<1> SUFFICES ASSUME AboutInv, delegate # None PROVE AboutListsTheSelection
  BY DEF AboutListsTheSelection
<1> DEFINE d == delegate
           picked == {i \in DOMAIN menu.items : menu.items[i].selected}
           shown == {details.rows[details.items[i].param].data : i \in DOMAIN details.items}
           rs == MenuRows(d)
<1>1. /\ DelegateOK(d) /\ Open(menu) /\ Settled(menu) /\ Holds(menu, rs) /\ OnlyRow(menu, current)
      /\ current \in 0..Len(rs) /\ (d.at # <<>> => current # 0)
      /\ Open(details) /\ Settled(details) /\ Holds(details, DetailRows(d, current))
  BY DEF AboutInv, MenuOf, DetailsOf
<1>2. StandsFor(DetailRows(d, current), Beside(d, current))
  BY <1>1, DetailsAre
<1>3. shown = Beside(d, current) /\ Len(details.items) = Cardinality(shown)
  BY <1>1, <1>2, DetailsShow
<1>4. /\ rs \in Seq(AboutRows) /\ Len(rs) \in Nat \ {0} /\ DOMAIN rs = 1..Len(rs)
      /\ menu \in ListViews /\ Held(menu)
  BY <1>1, MenuTyped, OpenFits DEF Open
<1> HIDE DEF rs, shown
<1>5. DOMAIN menu.rows = 1..Len(rs)
  BY <1>1, <1>4, ListTyped DEF Holds
<1>6. ASSUME NEW i \in DOMAIN menu.items, NEW u \in 1..Len(rs), menu.items[i].param = u
      PROVE  menu.items[i].texts[1] = rs[u].cells[1]
  <2>1. menu.items[i].texts = menu.rows[u].cells /\ menu.rows[u].cells = rs[u].cells
    BY <1>1, <1>4, <1>6 DEF Held, Holds
  <2> QED BY <2>1
<1>7. \A u \in 1..Len(rs) : Beside(d, u) \in Under(d, rs[u].cells[1])
  <2> SUFFICES ASSUME NEW u \in 1..Len(rs) PROVE Beside(d, u) \in Under(d, rs[u].cells[1])
    OBVIOUS
  <2> QED BY <1>1, BesideIsUnder DEF rs
<1>8. Cardinality(picked) <= 1
  <2>1. \A i, j \in picked : i = j
    BY <1>1, <1>4 DEF OnlyRow, Held
  <2>2. CASE picked = {}
    BY <2>2, FS_EmptySet
  <2>3. CASE picked # {}
    <3>1. PICK i : picked = {i}
      BY <2>1, <2>3
    <3>2. Cardinality({i}) = 1
      BY FS_Singleton
    <3> HIDE DEF picked
    <3> QED BY <3>1, <3>2
  <2> QED BY <2>2, <2>3
<1>9. \A i \in picked : shown \in Under(d, menu.items[i].texts[1])
  <2> SUFFICES ASSUME NEW i \in picked PROVE shown \in Under(d, menu.items[i].texts[1])
    OBVIOUS
  <2>1. menu.items[i].param = current /\ current \in 1..Len(rs)
    BY <1>1, <1>4, <1>5 DEF OnlyRow, Held
  <2> QED BY <1>3, <1>6, <1>7, <2>1
<1>10. current <= 0 => d.at = <<>> /\ shown = PackagesIn(d.index) /\ current = 0
  <2> SUFFICES ASSUME current <= 0 PROVE d.at = <<>> /\ shown = PackagesIn(d.index) /\ current = 0
    OBVIOUS
  <2>1. current = 0
    BY <1>1, <1>4
  <2>2. d.at = <<>>
    BY <1>1, <2>1
  <2>3. Beside(d, current) = PackagesIn(d.index)
    BY <2>1, <2>2 DEF Beside
  <2> QED BY <1>3, <2>1, <2>2, <2>3
<1>11. \E i \in DOMAIN menu.items : shown \in Under(d, menu.items[i].texts[1])
  <2> DEFINE u == IF current = 0 THEN 1 ELSE current
  <2>1. u \in 1..Len(rs)
    BY <1>1, <1>4
  <2>2. shown = Beside(d, u)
    <3>1. CASE current = 0
      <4>1. d.at = <<>> /\ shown = PackagesIn(d.index) /\ u <= 1
        BY <1>10, <3>1
      <4> QED BY <4>1 DEF Beside
    <3>2. CASE current # 0
      BY <1>3, <3>2
    <3> QED BY <3>1, <3>2
  <2> HIDE DEF u
  <2>3. PICK i \in DOMAIN menu.items : menu.items[i].param = u
    BY <1>1, <1>5, <2>1, SettledHave DEF HasItem
  <2> QED BY <1>6, <1>7, <2>1, <2>2, <2>3
<1> HIDE DEF picked
<1>12. /\ Cardinality(picked) <= 1
       /\ \A i \in picked : shown \in Under(delegate, menu.items[i].texts[1])
       /\ picked = {} => \E i \in DOMAIN menu.items : shown \in Under(delegate, menu.items[i].texts[1])
       /\ Len(details.items) = Cardinality(shown)
       /\ current <= 0 => delegate.at = <<>> /\ shown = PackagesIn(delegate.index)
  BY <1>3, <1>8, <1>9, <1>10, <1>11
<1> QED BY <1>12 DEF AboutListsTheSelection, Under, picked, shown

\* The invariant of the window.
LEMMA AboutInvariant == AboutSpec => []AboutInv
<1>1. AboutInit => AboutInv
  BY DEF AboutInit, AboutInv
<1> QED BY <1>1, AboutStepInv, PTL DEF AboutSpec

\* Beside the menu of the window is what its selected row stands for, each thing once, and
\* at most one row is selected: whatever was shown, selected and sorted before, and however
\* ties were broken (about.cpp:119-168, 269-282).
THEOREM DetailsAreRight == AboutSpec => []AboutListsTheSelection
BY AboutInvariant, InvLists, PTL

-----------------------------------------------------------------------------
(* The windows together *)

\* Each window goes on as if it were alone, so that what was proved of it holds beside
\* the others, which share the code of its lists (listview.cpp) and nothing else.
THEOREM WindowsAreApart == WindowsSpec => ListSpec /\ AboutSpec
<1>1. WindowsInit => ListInit /\ AboutInit
  BY DEF WindowsInit
<1>2. ASSUME [WindowsNext]_<<listVars, aboutVars>>
      PROVE  [ListNext]_listVars /\ [AboutNext]_aboutVars
  BY <1>2 DEF WindowsNext, listVars, aboutVars
<1> QED BY <1>1, <1>2, PTL DEF WindowsSpec, ListSpec, AboutSpec

\* The properties of the lists, of the window as it is checked.
THEOREM WindowsAreRight ==
  /\ WindowsSpec => []ViewShowsRows /\ []AboutListsTheSelection
  /\ WindowsSpec => SelectionIsKept
BY WindowsAreApart, ViewIsRight, DetailsAreRight, SelectionStays, PTL
=============================================================================
