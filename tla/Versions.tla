------------------------------ MODULE Versions ------------------------------
(***************************************************************************)
(* Version names (version.cpp) and what is looked up among the versions of  *)
(* a package (package.cpp), as operators that Catalog, Browser and Archive  *)
(* share.  A text is the sequence of its numbers and words; separators say  *)
(* nothing and are left out.  A word is the rank it has among words.        *)
(***************************************************************************)
EXTENDS Integers, Sequences

CONSTANT MaxNumeric  \* 2^16 - 1 in the code

ASSUME VersionsAssumption == MaxNumeric \in Nat

Number(n) == [number |-> TRUE, value |-> n]
Word(n) == [number |-> FALSE, value |-> n]

\* VersionName{}, what an absent registry entry has.
NoVersion == [text |-> <<>>, segments |-> <<>>, stable |-> TRUE]

Invalid(text) ==
  \/ text = <<>>
  \/ ~Head(text).number
  \/ \E i \in DOMAIN text : text[i].number /\ text[i].value > MaxNumeric

parse(text) ==
  [text |-> text, segments |-> text, stable |-> \A i \in DOMAIN text : text[i].number]

segment(v, i) == IF i \in DOMAIN v.segments THEN v.segments[i] ELSE Number(0)

\* Mutant: a word and a number are each less than the other.
MutantSegmentLess(x, y) == IF x.number = y.number THEN x.value < y.value ELSE TRUE

SegmentLess(x, y) == IF x.number = y.number THEN x.value < y.value ELSE y.number

\* VersionName::compare(a, b) < 0: the first segments that differ decide.
Less(a, b) ==
  IF a.segments = <<>> \/ b.segments = <<>> THEN Len(a.segments) < Len(b.segments)
  ELSE \E i \in DOMAIN a.segments \union DOMAIN b.segments :
         /\ SegmentLess(segment(a, i), segment(b, i))
         /\ \A j \in 1..(i - 1) : segment(a, j) = segment(b, j)

Same(a, b) == ~Less(a, b) /\ ~Less(b, a)

-----------------------------------------------------------------------------
(* Package: versions is a std::set, here the sequence that walks it *)

\* Position where a version goes, which counts as one that is there already
\* when neither is less than the other.
Place(versions, v) ==
  CHOOSE i \in 1..(Len(versions) + 1) :
    /\ \A j \in 1..(i - 1) : Less(versions[j], v)
    /\ i <= Len(versions) => ~Less(versions[i], v)

HasVersion(versions, v) == \E i \in DOMAIN versions : Same(versions[i], v)

insert(versions, v) ==
  LET i == Place(versions, v)
  IN SubSeq(versions, 1, i - 1) \o <<v>> \o SubSeq(versions, i, Len(versions))

\* Absent stands for nullptr.
Absent == [text |-> <<>>, segments |-> <<>>, stable |-> FALSE]

\* Mutant: versions older than the installed one are searched as well.
MutantlastVersion(versions, pres, from) ==
  LET n == Len(versions)
      Candidates == {i \in 1..n : versions[i].stable \/ pres}
  IN IF n = 0 THEN Absent
     ELSE IF Candidates # {} THEN versions[CHOOSE i \in Candidates : \A j \in Candidates : j <= i]
     ELSE IF from.stable THEN Absent ELSE versions[n]

lastVersion(versions, pres, from) ==
  LET n == Len(versions)
      Candidates == {i \in 1..n : /\ versions[i].stable \/ pres
                                  /\ \A j \in i..n : ~Less(versions[j], from)}
  IN IF n = 0 THEN Absent
     ELSE IF Candidates # {} THEN versions[CHOOSE i \in Candidates : \A j \in Candidates : j <= i]
     ELSE IF from.stable THEN Absent ELSE versions[n]

findVersion(versions, v) ==
  IF HasVersion(versions, v) THEN versions[CHOOSE i \in DOMAIN versions : Same(versions[i], v)]
  ELSE Absent
=============================================================================
