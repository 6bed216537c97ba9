--------------------------- MODULE BrowserProofs ---------------------------
(***************************************************************************)
(* The browser knows what it waits for, shows what the registry has, tells *)
(* what is queued and keeps what the user asked for, for any packages,     *)
(* contents of the index and of the registry, and number of commands. Its  *)
(* filter matches what it means, for any words and rows.                   *)
(***************************************************************************)
EXTENDS Browser, Filter, FiniteSetTheorems, SequenceTheorems, WellFoundedInduction, TLAPS

-----------------------------------------------------------------------------
(* The inductive invariant *)

IsEntry(e) ==
  e = [reg |-> e.reg, versions |-> e.versions, latest |-> e.latest, current |-> e.current,
       is |-> e.is, target |-> e.target, flags |-> e.flags]

IsRow(r) == r = [package |-> r.package, cell |-> r.cell, selected |-> r.selected]

IsList(state) ==
  state = [entries |-> state.entries, actions |-> state.actions, rows |-> state.rows,
           view |-> state.view]

IsSeq(s) == s \in Seq(ToSet(s))

Distinct(s) == \A i, j \in DOMAIN s : s[i] = s[j] => i = j

\* Entries are made whole, for packages only.
EntriesOK(es) ==
  /\ es = [p \in DOMAIN es |-> es[p]]
  /\ DOMAIN es \subseteq Package
  /\ \A p \in DOMAIN es : IsEntry(es[p])

\* Every entry with a target is in the queue.
QueueOK(state) ==
  /\ state.actions \in Seq(DOMAIN state.entries)
  /\ \A p \in DOMAIN state.entries : state.entries[p].target # <<>> => p \in ToSet(state.actions)

Shown(state) == {state.rows[i].package : i \in DOMAIN state.rows}

\* A row for a package at most, which tells what its entry is.
RowsOK(state, out) ==
  /\ IsSeq(state.rows)
  /\ \A i \in DOMAIN state.rows :
       /\ IsRow(state.rows[i]) /\ state.rows[i].package \in DOMAIN state.entries
       /\ \/ state.rows[i].cell = displayState(state.entries[state.rows[i].package])
          \/ state.rows[i].package \in out
  /\ \A i, j \in DOMAIN state.rows : state.rows[i].package = state.rows[j].package => i = j
  /\ state.view = "queued" => Shown(state) \ out = ToSet(state.actions) \ out

ListOK(state, out) ==
  IsList(state) /\ EntriesOK(state.entries) /\ QueueOK(state) /\ RowsOK(state, out)

TxOK ==
  /\ DOMAIN tx = DOMAIN NoTransaction
  /\ tx.open \in BOOLEAN /\ tx.fetch \in BOOLEAN /\ tx.refresh \in BOOLEAN
  /\ tx.index \subseteq Indexes /\ cached \in Indexes /\ enabled \in BOOLEAN
  /\ phase \in {"rest", "ending", "report", "handlers", "teardown"}
  /\ tx.fetch => tx.open
  /\ phase # "rest" => tx.open

\* The transaction fetches exactly when the browser waits, until the handler ran.
WindowOK ==
  /\ window \in {"none", "hidden", "shown"}
  /\ loadState \in {"Init", "Loading", "Loaded", "DeferredLoaded"}
  /\ phase # "teardown" => (loadState = "Loading" <=> tx.fetch)
  /\ phase = "teardown" => loadState # "Loading"
  /\ loadState = "Loading" => window # "none"
  /\ window = "none" => loadState = "Init" /\ entries = NoEntries

\* The entries are those of the registry.
Fresh ==
  /\ \A p \in DOMAIN entries : entries[p].reg = registry[p]
  /\ DOMAIN entries # {} => \A p \in Package : Installed(registry[p]) => p \in DOMAIN entries

\* Whenever they are not, a handler or a refresh is still to come.
FreshOK ==
  /\ \/ Fresh
     \/ tx.fetch /\ phase # "teardown"
     \/ tx.refresh /\ phase \in {"report", "handlers", "teardown"} /\ loadState # "DeferredLoaded"
  /\ loadState = "DeferredLoaded" =>
       phase = "teardown" /\ tx.refresh /\ window = "shown" /\ Fresh

\* The menu is about the row that the command will be given for, if it is there yet.
PointerOK ==
  menu => current = 0 \/ (current \in DOMAIN rows /\ pointed = {rows[current].package})

ButtonOK == button \in BOOLEAN /\ (button <=> actions # <<>>)

Inv == TxOK /\ WindowOK /\ FreshOK /\ ListOK(Lists, refused) /\ PointerOK /\ ButtonOK

-----------------------------------------------------------------------------
(* Counting up *)

\* A set of numbers has a least one: the intervals from 0 to its members, ordered by
\* inclusion, have a minimal one.
LEMMA LeastNat ==
  ASSUME NEW S \in SUBSET Nat, S # {}
  PROVE  \E m \in S : \A k \in S : m <= k
<1>1. PICK n \in S : TRUE
  OBVIOUS
<1> DEFINE T == {0..k : k \in {j \in S : j <= n}}
<1>2. IsFiniteSet(0..n)
  BY FS_Interval
<1>3. T # {} /\ T \subseteq FiniteSubsetsOf(0..n)
  <2>1. 0..n \in T
    BY <1>1
  <2>2. ASSUME NEW k \in S, k <= n PROVE 0..k \in FiniteSubsetsOf(0..n)
    <3>1. k \in Nat /\ n \in Nat
      OBVIOUS
    <3>2. IsFiniteSet(0..k)
      BY <3>1, FS_Interval
    <3>3. 0..k \subseteq 0..n
      BY <3>1, <2>2
    <3> QED BY <3>2, <3>3 DEF FiniteSubsetsOf
  <2> QED BY <2>1, <2>2
<1>4. PICK x \in T : \A y \in T : ~(<<y, x>> \in StrictSubsetOrdering(0..n))
  <2> HIDE DEF T
  <2>1. IsWellFoundedOn(StrictSubsetOrdering(0..n), FiniteSubsetsOf(0..n))
    BY <1>2, FS_StrictSubsetOrderingWellFounded
  <2> QED BY <2>1, <1>3, WFMin
<1>5. PICK m \in S : m <= n /\ x = 0..m
  BY <1>4
<1>6. ASSUME NEW k \in S, k < m PROVE FALSE
  <2>1. k \in Nat /\ m \in Nat /\ n \in Nat
    OBVIOUS
  <2>2. 0..k \in T
    BY <1>5, <1>6, <2>1
  <2>3. 0..k \subseteq 0..n /\ 0..m \subseteq 0..n /\ 0..k \subseteq 0..m
    BY <1>5, <1>6, <2>1
  <2>4. 0..k # 0..m
    <3>1. m \in 0..m /\ m \notin 0..k
      BY <2>1, <1>6
    <3> QED BY <3>1
  <2>5. <<0..k, 0..m>> \in StrictSubsetOrdering(0..n)
    BY <2>3, <2>4 DEF StrictSubsetOrdering
  <2> QED BY <1>4, <1>5, <2>2, <2>5
<1>7. \A k \in S : m <= k
  BY <1>5, <1>6
<1> QED BY <1>5, <1>7

\* What holds of 0, and of a number when it holds of the one before, holds up to n.
LEMMA CountUp ==
  ASSUME NEW n \in Nat, NEW S, 0 \in S, \A k \in 1..n : k - 1 \in S => k \in S
  PROVE  \A k \in 0..n : k \in S
<1> DEFINE Left == {k \in 0..n : k \notin S}
<1>1. SUFFICES ASSUME Left # {} PROVE FALSE
  OBVIOUS
<1>2. PICK m \in Left : \A k \in Left : m <= k
  <2>1. Left \in SUBSET Nat
    OBVIOUS
  <2> HIDE DEF Left
  <2> QED BY <1>1, <2>1, LeastNat
<1>3. m \in 1..n /\ m - 1 \in 0..n /\ m \notin S
  OBVIOUS
<1>4. m - 1 \in S
  BY <1>2, <1>3
<1> QED BY <1>3, <1>4

-----------------------------------------------------------------------------
(* Members of a sequence *)

\* What Only computes, one element of the sequence at a time.
LEMMA KeptSoFar ==
  ASSUME NEW s, Len(s) \in Nat, NEW K
  PROVE  \E kept : /\ kept = [k \in 0..Len(s) |->
                        IF k = 0 THEN <<>>
                        ELSE IF s[k] \in K THEN Append(kept[k - 1], s[k]) ELSE kept[k - 1]]
                   /\ Only(s, K) = kept[Len(s)]
<1> DEFINE Keep(g, k) == IF k = 0 THEN <<>>
                         ELSE IF s[k] \in K THEN Append(g[k - 1], s[k]) ELSE g[k - 1]
           Kept(g, n) == g = [k \in 0..n |-> Keep(g, k)]
           S == {n \in 0..Len(s) : \E g : Kept(g, n)}
<1>1. 0 \in S
  <2>1. Kept([k \in 0..0 |-> <<>>], 0)
    OBVIOUS
  <2> HIDE DEF Kept
  <2> QED BY <2>1
<1>2. ASSUME NEW n \in 1..Len(s), n - 1 \in S PROVE n \in S
  <2>1. PICK g : Kept(g, n - 1)
    BY <1>2
  <2> DEFINE h == [k \in 0..n |-> IF k = n THEN Keep(g, n) ELSE g[k]]
  <2>2. n - 1 \in 0..n /\ n - 1 # n /\ h[n - 1] = g[n - 1] /\ n # 0
    OBVIOUS
  <2>3. \A k \in 0..n : h[k] = Keep(h, k)
    <3> SUFFICES ASSUME NEW k \in 0..n PROVE h[k] = Keep(h, k)
      OBVIOUS
    <3>1. CASE k = n
      BY <2>2, <3>1
    <3>2. CASE k # n
      <4>1. k \in 0..(n - 1) /\ h[k] = g[k] /\ (k # 0 => k - 1 \in 0..(n - 1) /\ h[k - 1] = g[k - 1])
        BY <3>2
      <4>2. g[k] = Keep(g, k)
        BY <2>1, <4>1
      <4> QED BY <4>1, <4>2
    <3> QED BY <3>1, <3>2
  <2>4. Kept(h, n)
    BY <2>3
  <2> HIDE DEF Kept, h
  <2> QED BY <2>4
<1>3. \A n \in 0..Len(s) : n \in S
  <2> HIDE DEF S
  <2> QED BY <1>1, <1>2, CountUp
<1>4. PICK g : Kept(g, Len(s))
  BY <1>3
<1> QED BY <1>4 DEF Only

Increasing(s) == \A i, j \in DOMAIN s : i < j => s[i] < s[j]

\* One element more.
LEMMA Longer ==
  ASSUME NEW T, NEW s \in Seq(T), NEW x \in T
  PROVE  /\ Append(s, x) \in Seq(T)
         /\ ToSet(Append(s, x)) = ToSet(s) \union {x}
         /\ Distinct(s) /\ x \notin ToSet(s) => Distinct(Append(s, x))
         /\ Increasing(s) /\ (\A y \in ToSet(s) : y < x) => Increasing(Append(s, x))
<1> DEFINE t == Append(s, x)
<1>1. /\ t \in Seq(T) /\ Len(t) = Len(s) + 1 /\ t[Len(s) + 1] = x
      /\ \A i \in 1..Len(s) : t[i] = s[i]
      /\ Len(s) \in Nat /\ DOMAIN s = 1..Len(s) /\ DOMAIN t = 1..(Len(s) + 1)
  OBVIOUS
<1> HIDE DEF t
<1>2. ToSet(t) = ToSet(s) \union {x}
  BY <1>1 DEF ToSet
<1>3. ASSUME Distinct(s), x \notin ToSet(s) PROVE Distinct(t)
  BY <1>1, <1>3 DEF Distinct, ToSet
<1>4. ASSUME Increasing(s), \A y \in ToSet(s) : y < x PROVE Increasing(t)
  BY <1>1, <1>4 DEF Increasing, ToSet
<1> QED BY <1>1, <1>2, <1>3, <1>4 DEF t

\* What Only keeps: exactly the elements in K, each as often and in the order it was.
LEMMA OnlyKeeps ==
  ASSUME NEW s, IsSeq(s), NEW K
  PROVE  /\ Only(s, K) \in Seq(ToSet(s) \cap K)
         /\ ToSet(Only(s, K)) = ToSet(s) \cap K
         /\ Distinct(s) => Distinct(Only(s, K))
         /\ Increasing(s) => Increasing(Only(s, K))
<1>1. Len(s) \in Nat /\ DOMAIN s = 1..Len(s)
  BY DEF IsSeq
<1>2. PICK kept : /\ kept = [k \in 0..Len(s) |->
                       IF k = 0 THEN <<>>
                       ELSE IF s[k] \in K THEN Append(kept[k - 1], s[k]) ELSE kept[k - 1]]
                  /\ Only(s, K) = kept[Len(s)]
  BY <1>1, KeptSoFar
<1> DEFINE T == ToSet(s) \cap K
           First(k) == {s[i] : i \in 1..k} \cap K
           P(k) == /\ kept[k] \in Seq(T) /\ ToSet(kept[k]) = First(k)
                   /\ Distinct(s) => Distinct(kept[k])
                   /\ Increasing(s) => Increasing(kept[k])
           S == {k \in 0..Len(s) : P(k)}
<1>3. kept[0] = <<>> /\ \A k \in 1..Len(s) :
        kept[k] = IF s[k] \in K THEN Append(kept[k - 1], s[k]) ELSE kept[k - 1]
  <2>1. \A k \in 0..Len(s) :
          kept[k] = IF k = 0 THEN <<>>
                    ELSE IF s[k] \in K THEN Append(kept[k - 1], s[k]) ELSE kept[k - 1]
    BY <1>2
  <2>2. 0 \in 0..Len(s) /\ \A k \in 1..Len(s) : k \in 0..Len(s) /\ k # 0
    BY <1>1
  <2> QED BY <2>1, <2>2
<1>4. 0 \in S
  <2>1. kept[0] \in Seq(T) /\ DOMAIN kept[0] = {} /\ First(0) = {}
    BY <1>3
  <2>2. P(0)
    BY <2>1 DEF ToSet, Distinct, Increasing
  <2> QED BY <1>1, <2>2
<1>5. ASSUME NEW k \in 1..Len(s), k - 1 \in S PROVE k \in S
  <2>1. P(k - 1)
    BY <1>5
  <2>2. First(k) = First(k - 1) \union ({s[k]} \cap K)
    BY <1>1
  <2>3. CASE s[k] \notin K
    <3>1. First(k) = First(k - 1) /\ kept[k] = kept[k - 1]
      BY <1>3, <2>2, <2>3
    <3>2. P(k)
      BY <2>1, <3>1
    <3> QED BY <1>1, <3>2
  <2>4. CASE s[k] \in K
    <3>1. s[k] \in T /\ kept[k] = Append(kept[k - 1], s[k])
      BY <1>1, <1>3, <2>4 DEF ToSet
    <3>2. First(k) = First(k - 1) \union {s[k]}
      BY <2>2, <2>4
    <3>3. Distinct(s) => s[k] \notin First(k - 1)
      BY <1>1 DEF Distinct
    <3>4. Increasing(s) => \A y \in First(k - 1) : y < s[k]
      BY <1>1 DEF Increasing
    <3>5. P(k)
      <4> HIDE DEF T, First
      <4> QED BY <2>1, <3>1, <3>2, <3>3, <3>4, Longer
    <3> QED BY <1>1, <3>5
  <2> QED BY <2>3, <2>4
<1>6. Len(s) \in S
  <2> HIDE DEF S
  <2>1. \A k \in 0..Len(s) : k \in S
    BY <1>1, <1>4, <1>5, CountUp
  <2> QED BY <1>1, <2>1
<1>7. First(Len(s)) = T
  BY <1>1 DEF ToSet
<1> QED BY <1>2, <1>6, <1>7

\* A sequence is one of its own elements.
LEMMA OwnElements ==
  ASSUME NEW T, NEW s \in Seq(T)
  PROVE  IsSeq(s) /\ ToSet(s) \subseteq T
<1>1. Len(s) \in Nat /\ s = [i \in 1..Len(s) |-> s[i]] /\ \A i \in 1..Len(s) : s[i] \in T
  OBVIOUS
<1>2. \A i \in 1..Len(s) : s[i] \in ToSet(s)
  BY <1>1 DEF ToSet
<1>3. [i \in 1..Len(s) |-> s[i]] \in Seq(ToSet(s))
  BY <1>1, <1>2
<1>4. ToSet(s) \subseteq T
  BY <1>1 DEF ToSet
<1> QED BY <1>1, <1>3, <1>4 DEF IsSeq

\* What removing the element at position p does to the others.
LEMMA ErasedAt ==
  ASSUME NEW T, NEW s \in Seq(T), NEW p \in 1..Len(s)
  PROVE  /\ RemoveAt(s, p) \in Seq(T)
         /\ Len(RemoveAt(s, p)) = Len(s) - 1
         /\ \A i \in 1..(Len(s) - 1) :
              RemoveAt(s, p)[i] = IF i < p THEN s[i] ELSE s[i + 1]
<1> DEFINE before == SubSeq(s, 1, p - 1)
           after == SubSeq(s, p + 1, Len(s))
<1>1. /\ before \in Seq(T) /\ Len(before) = p - 1
      /\ \A i \in 1..(p - 1) : before[i] = s[i]
  <2>1. 1 \in 1..(Len(s) + 1) /\ p - 1 \in 0..Len(s)
    OBVIOUS
  <2> QED BY <2>1, SubSeqProperties
<1>2. /\ after \in Seq(T) /\ Len(after) = Len(s) - p
      /\ \A i \in 1..(Len(s) - p) : after[i] = s[p + i]
  <2>1. p + 1 \in 1..(Len(s) + 1) /\ Len(s) \in 0..Len(s)
    OBVIOUS
  <2> QED BY <2>1, SubSeqProperties
<1> HIDE DEF before, after
<1>3. /\ before \o after \in Seq(T) /\ Len(before \o after) = Len(s) - 1
      /\ \A i \in 1..(Len(s) - 1) :
           (before \o after)[i] = IF i < p THEN before[i] ELSE after[i - (p - 1)]
  <2>1. /\ before \o after \in Seq(T) /\ Len(before \o after) = Len(before) + Len(after)
        /\ \A i \in 1..(Len(before) + Len(after)) :
             (before \o after)[i] = IF i <= Len(before) THEN before[i]
                                    ELSE after[i - Len(before)]
    BY <1>1, <1>2, ConcatProperties
  <2>2. Len(before) + Len(after) = Len(s) - 1 /\ Len(before) = p - 1
    BY <1>1, <1>2
  <2>3. \A i \in 1..(Len(s) - 1) : i <= p - 1 <=> i < p
    OBVIOUS
  <2> QED BY <2>1, <2>2, <2>3
<1>4. \A i \in 1..(Len(s) - 1) : (before \o after)[i] = IF i < p THEN s[i] ELSE s[i + 1]
  BY <1>1, <1>2, <1>3
<1> QED BY <1>3, <1>4 DEF RemoveAt, before, after

\* One sequence after another.
LEMMA Joined ==
  ASSUME NEW T, NEW s \in Seq(T), NEW t \in Seq(T)
  PROVE  /\ s \o t \in Seq(T)
         /\ ToSet(s \o t) = ToSet(s) \union ToSet(t)
         /\ Distinct(s) /\ Distinct(t) /\ ToSet(s) \cap ToSet(t) = {} => Distinct(s \o t)
<1> DEFINE u == s \o t
<1>1. /\ u \in Seq(T) /\ Len(u) = Len(s) + Len(t)
      /\ \A i \in 1..Len(s) : u[i] = s[i]
      /\ \A i \in 1..Len(t) : u[Len(s) + i] = t[i]
      /\ Len(s) \in Nat /\ Len(t) \in Nat
      /\ DOMAIN s = 1..Len(s) /\ DOMAIN t = 1..Len(t) /\ DOMAIN u = 1..(Len(s) + Len(t))
  OBVIOUS
<1> HIDE DEF u
<1>2. \A i \in DOMAIN u :
        \/ i \in DOMAIN s /\ u[i] = s[i]
        \/ i - Len(s) \in DOMAIN t /\ u[i] = t[i - Len(s)]
  <2> SUFFICES ASSUME NEW i \in DOMAIN u, i \notin DOMAIN s
               PROVE  i - Len(s) \in DOMAIN t /\ u[i] = t[i - Len(s)]
    BY <1>1
  <2>1. i - Len(s) \in 1..Len(t) /\ Len(s) + (i - Len(s)) = i
    BY <1>1
  <2> QED BY <1>1, <2>1
<1>3. ToSet(u) = ToSet(s) \union ToSet(t)
  <2>1. ToSet(u) \subseteq ToSet(s) \union ToSet(t)
    BY <1>2 DEF ToSet
  <2>2. ToSet(s) \subseteq ToSet(u)
    <3>1. \A i \in 1..Len(s) : i \in 1..(Len(s) + Len(t))
      BY <1>1
    <3> QED BY <1>1, <3>1 DEF ToSet
  <2>3. ToSet(t) \subseteq ToSet(u)
    <3>1. \A i \in 1..Len(t) : Len(s) + i \in 1..(Len(s) + Len(t))
      BY <1>1
    <3> QED BY <1>1, <3>1 DEF ToSet
  <2> QED BY <2>1, <2>2, <2>3
<1>4. ASSUME Distinct(s), Distinct(t), ToSet(s) \cap ToSet(t) = {} PROVE Distinct(u)
  <2> SUFFICES ASSUME NEW i \in DOMAIN u, NEW j \in DOMAIN u, u[i] = u[j]
               PROVE  i = j
    BY DEF Distinct
  <2>1. i \in DOMAIN s /\ j \in DOMAIN s => i = j
    BY <1>1, <1>4 DEF Distinct
  <2>2. \A k \in DOMAIN u :
          /\ k \in DOMAIN s => u[k] \in ToSet(s)
          /\ k \notin DOMAIN s => u[k] \in ToSet(t)
    BY <1>1, <1>2 DEF ToSet
  <2>3. i \notin DOMAIN s /\ j \notin DOMAIN s => i = j
    BY <1>1, <1>2, <1>4 DEF Distinct
  <2>4. ~(i \in DOMAIN s /\ j \notin DOMAIN s) /\ ~(i \notin DOMAIN s /\ j \in DOMAIN s)
    BY <1>4, <2>2
  <2> QED BY <2>1, <2>3, <2>4
<1> QED BY <1>1, <1>3, <1>4 DEF u

-----------------------------------------------------------------------------
(* One command for one row *)

\* A command changes the target and the flags of an entry, nothing else.
LEMMA PerformKeeps ==
  ASSUME NEW c \in Commands, NEW e, IsEntry(e), NEW allow, NEW x \in Perform(e, c, allow)
  PROVE  IsEntry(x) /\ x.reg = e.reg
<1>1. ASSUME NEW t PROVE LET y == [e EXCEPT !.target = t] IN IsEntry(y) /\ y.reg = e.reg
  BY DEF IsEntry
<1>2. ASSUME NEW f PROVE LET y == [e EXCEPT !.flags = f] IN IsEntry(y) /\ y.reg = e.reg
  BY DEF IsEntry
<1>3. LET y == [e EXCEPT !.target = <<>>, !.flags = <<>>] IN IsEntry(y) /\ y.reg = e.reg
  <2>1. PICK d : d = [e EXCEPT !.target = <<>>]
    OBVIOUS
  <2>2. IsEntry(d) /\ d.reg = e.reg
    BY <1>1, <2>1
  <2>3. PICK y : y = [d EXCEPT !.flags = <<>>]
    OBVIOUS
  <2>4. IsEntry(y) /\ y.reg = d.reg
    BY <2>2, <2>3 DEF IsEntry
  <2>5. [e EXCEPT !.target = <<>>, !.flags = <<>>] = y
    BY <2>1, <2>3
  <2> QED BY <2>2, <2>4, <2>5
<1>4. \A v : IsEntry(toggleTarget(e, v)) /\ toggleTarget(e, v).reg = e.reg
  BY <1>1 DEF toggleTarget
<1>5. \A f : IsEntry(toggleFlag(e, f)) /\ toggleFlag(e, f).reg = e.reg
  BY <1>2 DEF toggleFlag
<1>6. c.what \in {"latest", "reinstall", "uninstall", "reset", "flag", "version"}
  BY DEF Commands
<1>7. CASE c.what = "latest"
  BY <1>4, <1>7 DEF Perform
<1>8. CASE c.what = "reinstall"
  BY <1>4, <1>8 DEF Perform
<1>9. CASE c.what = "uninstall"
  BY <1>4, <1>9 DEF Perform
<1>10. CASE c.what = "reset"
  BY <1>3, <1>10 DEF Perform
<1>11. CASE c.what = "flag"
  BY <1>5, <1>11 DEF Perform
<1>12. CASE c.what = "version"
  BY <1>1, <1>4, <1>12 DEF Perform
<1> QED BY <1>6, <1>7, <1>8, <1>9, <1>10, <1>11, <1>12

\* What is asked of a package in a state of the list.
Asked(state, p) ==
  IF p \in ToSet(state.actions)
    THEN [target |-> state.entries[p].target, flags |-> state.entries[p].flags]
  ELSE [target |-> <<>>, flags |-> <<>>]

SameRows(s, t) ==
  Len(t.rows) = Len(s.rows) /\ \A j \in 1..Len(s.rows) : t.rows[j].package = s.rows[j].package

RowLost(s, t, i) ==
  /\ i \in DOMAIN s.rows /\ Len(t.rows) = Len(s.rows) - 1
  /\ \A j \in 1..(Len(s.rows) - 1) :
       t.rows[j].package = IF j < i THEN s.rows[j].package ELSE s.rows[j + 1].package

SameRegistry(s, t) ==
  /\ DOMAIN t.entries = DOMAIN s.entries
  /\ \A p \in DOMAIN s.entries : t.entries[p].reg = s.entries[p].reg

\* From s to t, at most the row i was lost and something else asked of its package.
Stepped(s, t, i, out) ==
  /\ ListOK(t, out) /\ t.view = s.view /\ SameRegistry(s, t)
  /\ SameRows(s, t) \/ RowLost(s, t, i)
  /\ \A q \in Package : ~(i \in DOMAIN s.rows /\ q = s.rows[i].package) => Asked(t, q) = Asked(s, q)

\* An entry for the package of the row i.
EntryFor(s, i, x) == IsEntry(x) /\ x.reg = s.entries[s.rows[i].package].reg

\* updateAction with a changed entry: the row is told or leaves the queue's view.
LEMMA UpdatedAction ==
  ASSUME NEW s, NEW out, ListOK(s, out), NEW i \in DOMAIN s.rows, NEW x, EntryFor(s, i, x)
  PROVE  Stepped(s, updateAction([s EXCEPT !.entries[s.rows[i].package] = x], i), i, out)
<1>1. PICK p, es, queue, rs : p = s.rows[i].package /\ es = s.entries /\ queue = s.actions /\ rs = s.rows
  OBVIOUS
<1> DEFINE fs == [es EXCEPT ![p] = x]
           idle == x.target = <<>> /\ (x.flags = <<>> \/ ~CanToggleFlags(x))
           queued == IF idle THEN Only(queue, ToSet(queue) \ {p})
                     ELSE IF p \in ToSet(queue) THEN queue ELSE Append(queue, p)
           gone == s.view = "queued" /\ idle
           left == IF gone THEN RemoveAt(rs, i) ELSE [rs EXCEPT ![i].cell = displayState(x)]
           t == updateAction([s EXCEPT !.entries[s.rows[i].package] = x], i)
<1>2. /\ s = [entries |-> es, actions |-> queue, rows |-> rs, view |-> s.view]
      /\ es = [q \in DOMAIN es |-> es[q]] /\ DOMAIN es \subseteq Package
      /\ \A q \in DOMAIN es : IsEntry(es[q])
      /\ queue \in Seq(DOMAIN es)
      /\ \A q \in DOMAIN es : es[q].target # <<>> => q \in ToSet(queue)
      /\ rs \in Seq(ToSet(rs)) /\ i \in 1..Len(rs) /\ DOMAIN rs = 1..Len(rs) /\ Len(rs) \in Nat
  BY <1>1 DEF ListOK, IsList, EntriesOK, QueueOK, RowsOK, IsSeq
<1>3. /\ \A j \in DOMAIN rs :
           /\ IsRow(rs[j]) /\ rs[j].package \in DOMAIN es
           /\ rs[j].cell = displayState(es[rs[j].package]) \/ rs[j].package \in out
      /\ \A j, k \in DOMAIN rs : rs[j].package = rs[k].package => j = k
      /\ s.view = "queued" => {rs[j].package : j \in DOMAIN rs} \ out = ToSet(queue) \ out
  BY <1>1 DEF ListOK, RowsOK, Shown
<1>4. p \in DOMAIN es /\ p = rs[i].package
  BY <1>1, <1>2, <1>3
<1>5. /\ fs = [q \in DOMAIN fs |-> fs[q]] /\ DOMAIN fs = DOMAIN es /\ fs[p] = x
      /\ \A q \in DOMAIN es : q # p => fs[q] = es[q]
  BY <1>2, <1>4
<1>6. t = [entries |-> fs, actions |-> queued, rows |-> left, view |-> s.view]
  <2>1. PICK u : u = [s EXCEPT !.entries[s.rows[i].package] = x]
    OBVIOUS
  <2>2. u = [entries |-> fs, actions |-> queue, rows |-> rs, view |-> s.view]
    BY <1>1, <1>2, <1>4, <2>1
  <2>3. u.entries = fs /\ u.actions = queue /\ u.rows = rs /\ u.view = s.view /\ u.rows[i].package = p
    BY <1>4, <2>2
  <2>4. t = updateAction(u, i)
    BY <2>1
  <2>5. updateAction(u, i) = [u EXCEPT !.actions = queued, !.rows = left]
    <3>1. u.entries[u.rows[i].package] = x
      BY <1>5, <2>3
    <3> HIDE DEF fs
    <3>2. CASE gone
      BY <2>3, <3>1, <3>2, Zenon DEF updateAction
    <3>3. CASE ~gone
      BY <2>3, <3>1, <3>3, Zenon DEF updateAction
    <3> QED BY <3>2, <3>3
  <2> HIDE DEF t, fs, queued, left
  <2> QED BY <2>2, <2>4, <2>5
<1>7. /\ queued \in Seq(DOMAIN es)
      /\ idle => ToSet(queued) = ToSet(queue) \ {p}
      /\ ~idle => ToSet(queued) = ToSet(queue) \union {p}
  <2> HIDE DEF idle
  <2>1. IsSeq(queue) /\ ToSet(queue) \subseteq DOMAIN es
    BY <1>2, OwnElements
  <2>2. CASE idle
    <3>1. /\ Only(queue, ToSet(queue) \ {p}) \in Seq(ToSet(queue) \cap (ToSet(queue) \ {p}))
          /\ ToSet(Only(queue, ToSet(queue) \ {p})) = ToSet(queue) \cap (ToSet(queue) \ {p})
      BY <2>1, OnlyKeeps
    <3>2. ToSet(queue) \cap (ToSet(queue) \ {p}) = ToSet(queue) \ {p} /\ ToSet(queue) \ {p} \subseteq DOMAIN es
      BY <2>1
    <3>3. Only(queue, ToSet(queue) \ {p}) \in Seq(DOMAIN es)
      BY <3>1, <3>2, SeqMonotonic
    <3>4. queued = Only(queue, ToSet(queue) \ {p})
      BY <2>2
    <3> HIDE DEF queued
    <3> QED BY <2>2, <3>1, <3>2, <3>3, <3>4
  <2>3. CASE ~idle
    <3>1. CASE p \in ToSet(queue)
      BY <1>2, <2>3, <3>1
    <3>2. CASE p \notin ToSet(queue)
      <4>1. queued = Append(queue, p)
        BY <2>3, <3>2
      <4> HIDE DEF queued
      <4>2. Append(queue, p) \in Seq(DOMAIN es) /\ ToSet(Append(queue, p)) = ToSet(queue) \union {p}
        <5>1. PICK T : T = DOMAIN es
          OBVIOUS
        <5>2. queue \in Seq(T) /\ p \in T
          BY <1>2, <1>4, <5>1
        <5>3. Append(queue, p) \in Seq(T) /\ ToSet(Append(queue, p)) = ToSet(queue) \union {p}
          BY <5>2, Longer
        <5> QED BY <5>1, <5>3
      <4> QED BY <2>3, <4>1, <4>2
    <3> QED BY <3>1, <3>2
  <2> QED BY <2>2, <2>3
<1> HIDE DEF idle, queued
<1>8. /\ t.rows = left /\ t.entries = fs /\ t.actions = queued /\ t.view = s.view /\ IsList(t)
       /\ Shown(t) = {left[j].package : j \in DOMAIN left}
  <2> HIDE DEF t, fs, left
  <2> QED BY <1>6 DEF IsList, Shown
<1>9. \A q \in DOMAIN fs : fs[q].target # <<>> => q \in ToSet(queued)
  <2>1. \A q \in DOMAIN es : q # p => (fs[q].target # <<>> => q \in ToSet(queued))
    BY <1>2, <1>5, <1>7
  <2>2. fs[p].target # <<>> => p \in ToSet(queued)
    BY <1>5, <1>7 DEF idle
  <2> QED BY <1>5, <2>1, <2>2
<1>10. EntriesOK(fs)
  <2>1. IsEntry(x)
    BY DEF EntryFor
  <2> QED BY <1>2, <1>5, <2>1 DEF EntriesOK
<1>11. QueueOK(t) /\ SameRegistry(s, t)
  <2> HIDE DEF t, fs
  <2>1. QueueOK(t)
    BY <1>5, <1>7, <1>8, <1>9 DEF QueueOK
  <2>2. \A q \in DOMAIN es : fs[q].reg = es[q].reg
    <3>1. x.reg = es[p].reg
      BY <1>1 DEF EntryFor
    <3> QED BY <1>5, <3>1
  <2>3. SameRegistry(s, t)
    BY <1>1, <1>5, <1>8, <2>2 DEF SameRegistry
  <2> QED BY <2>1, <2>3
<1>12. \A q \in Package : q # p => Asked(t, q) = Asked(s, q)
  <2> SUFFICES ASSUME NEW q \in Package, q # p PROVE Asked(t, q) = Asked(s, q)
    OBVIOUS
  <2>1. q \in ToSet(queued) <=> q \in ToSet(queue)
    BY <1>7
  <2>2. q \in ToSet(queue) => fs[q] = es[q]
    BY <1>2, <1>5, OwnElements
  <2> HIDE DEF fs
  <2>3. t.entries = fs /\ t.actions = queued /\ s.entries = es /\ s.actions = queue
    BY <1>1, <1>6
  <2> HIDE DEF t
  <2> QED BY <2>1, <2>2, <2>3 DEF Asked
<1>13. CASE ~gone
  <2>1. left = [rs EXCEPT ![i].cell = displayState(x)]
    BY <1>13
  <2>2. PICK row : row = [package |-> p, cell |-> displayState(x), selected |-> rs[i].selected]
    OBVIOUS
  <2>3. [rs[i] EXCEPT !.cell = displayState(x)] = row
    BY <1>3, <1>4, <1>2, <2>2 DEF IsRow
  <2>4. left = [rs EXCEPT ![i] = row]
    BY <2>1, <2>3
  <2>5. /\ left \in Seq(ToSet(rs) \union {row}) /\ Len(left) = Len(rs) /\ DOMAIN left = 1..Len(rs)
        /\ left[i] = row /\ \A j \in 1..Len(rs) : j # i => left[j] = rs[j]
    <3>1. rs \in Seq(ToSet(rs) \union {row})
      BY <1>2, SeqMonotonic
    <3>2. row \in ToSet(rs) \union {row}
      OBVIOUS
    <3> HIDE DEF left
    <3>3. PICK T : T = ToSet(rs) \union {row}
      OBVIOUS
    <3>4. left \in Seq(T) /\ Len(left) = Len(rs)
          /\ \A j \in 1..Len(rs) : left[j] = IF j = i THEN row ELSE rs[j]
      BY <1>2, <2>4, <3>1, <3>2, <3>3, ExceptSeq
    <3> QED BY <1>2, <3>3, <3>4
  <2> HIDE DEF left
  <2>6. IsSeq(left)
    BY <2>5, OwnElements
  <2>7. \A j \in 1..Len(rs) : IsRow(left[j]) /\ left[j].package = rs[j].package
    BY <1>2, <1>3, <1>4, <2>2, <2>5 DEF IsRow
  <2>8. \A j \in 1..Len(rs) : \/ left[j].cell = displayState(fs[left[j].package])
                             \/ left[j].package \in out
    <3> SUFFICES ASSUME NEW j \in 1..Len(rs)
                 PROVE  \/ left[j].cell = displayState(fs[left[j].package])
                        \/ left[j].package \in out
      OBVIOUS
    <3>1. CASE j = i
      BY <1>5, <2>2, <2>5, <3>1
    <3>2. CASE j # i
      <4>1. rs[j].package # p /\ rs[j].package \in DOMAIN es
        BY <1>2, <1>3, <1>4, <3>2
      <4>2. fs[rs[j].package] = es[rs[j].package]
        BY <1>5, <4>1
      <4> QED BY <1>2, <1>3, <2>5, <3>2, <4>2
    <3> QED BY <3>1, <3>2
  <2>9. {left[j].package : j \in DOMAIN left} = {rs[j].package : j \in DOMAIN rs}
    <3>1. DOMAIN left = DOMAIN rs
      BY <1>2, <2>5
    <3>2. \A j \in DOMAIN rs : left[j].package = rs[j].package
      BY <1>2, <2>7
    <3> QED BY <3>1, <3>2
  <2>10. s.view = "queued" => Shown(t) \ out = ToSet(queued) \ out
    <3> SUFFICES ASSUME s.view = "queued" PROVE Shown(t) \ out = ToSet(queued) \ out
      OBVIOUS
    <3>1. ToSet(queued) = ToSet(queue) \union {p}
      BY <1>7, <1>13
    <3>2. p \in {rs[j].package : j \in DOMAIN rs}
      BY <1>2, <1>4
    <3>3. Shown(t) = {rs[j].package : j \in DOMAIN rs}
      BY <1>8, <2>9
    <3> QED BY <1>3, <3>1, <3>2, <3>3
  <2>11. t.rows = left /\ t.entries = fs /\ t.actions = queued /\ t.view = s.view /\ IsList(t)
    BY <1>8
  <2> HIDE DEF t, fs
  <2>12. RowsOK(t, out)
    BY <1>2, <1>3, <1>5, <2>5, <2>6, <2>7, <2>8, <2>10, <2>11 DEF RowsOK
  <2>13. SameRows(s, t)
    BY <1>1, <2>5, <2>7, <2>11 DEF SameRows
  <2>14. ListOK(t, out)
    BY <1>10, <1>11, <2>11, <2>12 DEF ListOK
  <2> QED BY <1>1, <1>11, <1>12, <2>11, <2>13, <2>14 DEF Stepped, t
<1>14. CASE gone
  <2>1. left = RemoveAt(rs, i)
    BY <1>14
  <2>2. /\ left \in Seq(ToSet(rs)) /\ Len(left) = Len(rs) - 1
        /\ \A j \in 1..(Len(rs) - 1) : left[j] = IF j < i THEN rs[j] ELSE rs[j + 1]
    <3> HIDE DEF left
    <3> QED BY <1>2, <2>1, ErasedAt
  <2> HIDE DEF left
  <2>3. IsSeq(left) /\ DOMAIN left = 1..(Len(rs) - 1)
    BY <1>2, <2>2, OwnElements
  <2>4. \A j \in DOMAIN left : \E k \in DOMAIN rs : k # i /\ left[j] = rs[k]
    BY <1>2, <2>2, <2>3
  <2>5. \A k \in DOMAIN rs : k # i => \E j \in DOMAIN left : left[j] = rs[k]
    <3> SUFFICES ASSUME NEW k \in DOMAIN rs, k # i PROVE \E j \in DOMAIN left : left[j] = rs[k]
      OBVIOUS
    <3>1. CASE k < i
      <4>1. k \in 1..(Len(rs) - 1)
        BY <1>2, <3>1
      <4>2. k \in DOMAIN left /\ left[k] = rs[k]
        BY <2>2, <2>3, <3>1, <4>1
      <4> QED BY <4>2
    <3>2. CASE k > i
      <4>1. k - 1 \in DOMAIN left /\ left[k - 1] = rs[(k - 1) + 1] /\ (k - 1) + 1 = k
        BY <1>2, <2>2, <2>3, <3>2
      <4> QED BY <4>1
    <3> QED BY <1>2, <3>1, <3>2
  <2>6. \A j \in DOMAIN left :
          /\ IsRow(left[j]) /\ left[j].package \in DOMAIN es /\ left[j].package # p
          /\ left[j].cell = displayState(fs[left[j].package]) \/ left[j].package \in out
    <3> SUFFICES ASSUME NEW j \in DOMAIN left
                 PROVE  /\ IsRow(left[j]) /\ left[j].package \in DOMAIN es /\ left[j].package # p
                        /\ left[j].cell = displayState(fs[left[j].package]) \/ left[j].package \in out
      OBVIOUS
    <3>1. PICK k \in DOMAIN rs : k # i /\ left[j] = rs[k]
      BY <2>4
    <3>2. rs[k].package \in DOMAIN es /\ rs[k].package # p
      BY <1>2, <1>3, <1>4, <3>1
    <3>3. fs[rs[k].package] = es[rs[k].package]
      BY <1>5, <3>2
    <3> QED BY <1>3, <3>1, <3>2, <3>3
  <2>7. \A j, k \in DOMAIN left : left[j].package = left[k].package => j = k
    <3> DEFINE was(j) == IF j < i THEN j ELSE j + 1
    <3>1. i \in 1..Len(rs) /\ Len(rs) \in Nat /\ DOMAIN rs = 1..Len(rs)
      BY <1>2
    <3>2. \A j \in DOMAIN left : was(j) \in DOMAIN rs /\ left[j] = rs[was(j)]
      BY <2>2, <2>3, <3>1
    <3>3. \A j, k \in DOMAIN left : was(j) = was(k) => j = k
      BY <2>3, <3>1
    <3>4. \A j, k \in DOMAIN rs : rs[j].package = rs[k].package => j = k
      BY <1>3
    <3> HIDE DEF was
    <3> QED BY <3>2, <3>3, <3>4
  <2>8. {left[j].package : j \in DOMAIN left} = {rs[j].package : j \in DOMAIN rs} \ {p}
    BY <1>2, <1>3, <1>4, <2>4, <2>5
  <2>9. Shown(t) \ out = ToSet(queued) \ out
    <3>1. Shown(t) = {rs[j].package : j \in DOMAIN rs} \ {p}
      BY <1>8, <2>8
    <3>2. ToSet(queued) = ToSet(queue) \ {p}
      BY <1>7, <1>14
    <3> QED BY <1>3, <1>14, <3>1, <3>2
  <2>10. t.rows = left /\ t.entries = fs /\ t.actions = queued /\ t.view = s.view /\ IsList(t)
    BY <1>8
  <2> HIDE DEF t, fs
  <2>11. RowsOK(t, out)
    BY <1>5, <2>3, <2>6, <2>7, <2>9, <2>10 DEF RowsOK
  <2>12. RowLost(s, t, i)
    <3>1. \A j \in 1..(Len(rs) - 1) :
            left[j].package = IF j < i THEN rs[j].package ELSE rs[j + 1].package
      BY <2>2
    <3> QED BY <1>1, <1>2, <2>2, <2>10, <3>1 DEF RowLost
  <2>13. ListOK(t, out)
    BY <1>10, <1>11, <2>10, <2>11 DEF ListOK
  <2> QED BY <1>1, <1>11, <1>12, <2>10, <2>12, <2>13 DEF Stepped, t
<1> QED BY <1>13, <1>14

\* A command for one row, whether it applies or not.
LEMMA OneCommand ==
  ASSUME NEW s, NEW out, ListOK(s, out), NEW c \in Commands, NEW allow, NEW i
  PROVE  Stepped(s, Do(c, allow, s, i), i, out)
<1>1. Stepped(s, s, i, out)
  BY DEF Stepped, SameRegistry, SameRows
<1>2. CASE i \notin DOMAIN s.rows
  BY <1>1, <1>2 DEF Do
<1>3. CASE i \in DOMAIN s.rows
  <2> DEFINE p == s.rows[i].package
             done == Perform(s.entries[p], c, allow)
  <2>1. CASE done = {}
    BY <1>1, <1>3, <2>1 DEF Do
  <2>2. CASE done # {}
    <3>1. PICK x : x = CHOOSE e \in done : TRUE
      OBVIOUS
    <3>2. x \in done
      BY <2>2, <3>1
    <3>3. Do(c, allow, s, i) = updateAction([s EXCEPT !.entries[p] = x], i)
      BY <1>3, <2>2, <3>1 DEF Do
    <3>4. IsEntry(s.entries[p])
      BY <1>3 DEF ListOK, EntriesOK, RowsOK
    <3>5. IsEntry(x) /\ x.reg = s.entries[p].reg
      BY <3>2, <3>4, PerformKeeps
    <3> QED BY <1>3, <3>3, <3>5, UpdatedAction DEF EntryFor
  <2> QED BY <2>1, <2>2
<1> QED BY <1>2, <1>3

-----------------------------------------------------------------------------
(* One command for several rows *)

\* The lists from one command to the next, as listDo computes them.
Chain(c, allow, indexes, after) ==
  /\ after[0] = Lists
  /\ \A k \in 1..Len(indexes) : after[k] = DoNext(c, allow, after[k - 1], indexes[k])
  /\ listDo(c, allow, indexes) = after[Len(indexes)]

LEMMA DoneSoFar ==
  ASSUME NEW c, NEW allow, NEW indexes, Len(indexes) \in Nat
  PROVE  \E after : Chain(c, allow, indexes, after)
<1> DEFINE Step(g, k) == IF k = 0 THEN Lists ELSE DoNext(c, allow, g[k - 1], indexes[k])
           Done(g, n) == g = [k \in 0..n |-> Step(g, k)]
           S == {n \in 0..Len(indexes) : \E g : Done(g, n)}
<1>1. 0 \in S
  <2>1. Done([k \in 0..0 |-> Lists], 0)
    OBVIOUS
  <2> HIDE DEF Done
  <2> QED BY <2>1
<1>2. ASSUME NEW n \in 1..Len(indexes), n - 1 \in S PROVE n \in S
  <2>1. PICK g : Done(g, n - 1)
    BY <1>2
  <2> DEFINE h == [k \in 0..n |-> IF k = n THEN Step(g, n) ELSE g[k]]
  <2>2. n - 1 \in 0..n /\ n - 1 # n /\ h[n - 1] = g[n - 1] /\ n # 0
    OBVIOUS
  <2>3. \A k \in 0..n : h[k] = Step(h, k)
    <3> SUFFICES ASSUME NEW k \in 0..n PROVE h[k] = Step(h, k)
      OBVIOUS
    <3>1. CASE k = n
      BY <2>2, <3>1
    <3>2. CASE k # n
      <4>1. k \in 0..(n - 1) /\ h[k] = g[k] /\ (k # 0 => k - 1 \in 0..(n - 1) /\ h[k - 1] = g[k - 1])
        BY <3>2
      <4>2. g[k] = Step(g, k)
        BY <2>1, <4>1
      <4> QED BY <4>1, <4>2
    <3> QED BY <3>1, <3>2
  <2>4. Done(h, n)
    BY <2>3
  <2> HIDE DEF Done, h
  <2> QED BY <2>4
<1>3. \A n \in 0..Len(indexes) : n \in S
  <2> HIDE DEF S
  <2> QED BY <1>1, <1>2, CountUp
<1>4. \E g : Done(g, Len(indexes))
  BY <1>3
<1>5. PICK after : Done(after, Len(indexes)) /\ listDo(c, allow, indexes) = after[Len(indexes)]
  BY <1>4 DEF listDo
<1>6. \A k \in 0..Len(indexes) : after[k] = Step(after, k)
  BY <1>5
<1>7. 0 \in 0..Len(indexes) /\ \A k \in 1..Len(indexes) : k \in 0..Len(indexes) /\ k # 0
  OBVIOUS
<1>8. after[0] = Lists /\ \A k \in 1..Len(indexes) : after[k] = DoNext(c, allow, after[k - 1], indexes[k])
  BY <1>6, <1>7
<1> QED BY <1>5, <1>8 DEF Chain

\* Whatever rows were removed before, each command reaches the row that had its index at
\* first: nothing is asked of the other packages.
LEMMA ListDone ==
  ASSUME ListOK(Lists, refused), NEW c \in Commands, NEW allow,
         NEW indexes, indexes \in Seq(DOMAIN rows), Increasing(indexes)
  PROVE  LET done == listDo(c, allow, indexes)
         IN /\ ListOK(done, refused) /\ done.view = view /\ SameRegistry(Lists, done)
            /\ \A q \in Package :
                 (\A m \in DOMAIN indexes : q # rows[indexes[m]].package) => Asked(done, q) = Asked(Lists, q)
<1>1. /\ Len(indexes) \in Nat /\ DOMAIN indexes = 1..Len(indexes)
      /\ Lists.rows = rows /\ Lists.view = view /\ DOMAIN rows = 1..Len(rows) /\ Len(rows) \in Nat
      /\ \A k \in 1..Len(indexes) : indexes[k] \in 1..Len(rows)
  <2>1. rows \in Seq(ToSet(rows))
    BY DEF ListOK, RowsOK, IsSeq, Lists
  <2> QED BY <2>1 DEF Lists
<1>2. PICK after : /\ after[0] = Lists
                   /\ \A k \in 1..Len(indexes) : after[k] = DoNext(c, allow, after[k - 1], indexes[k])
                   /\ listDo(c, allow, indexes) = after[Len(indexes)]
  <2>1. Len(indexes) \in Nat
    BY <1>1
  <2>2. PICK g : Chain(c, allow, indexes, g)
    BY <2>1, DoneSoFar
  <2> QED BY <2>2 DEF Chain
<1> DEFINE Lost(k) == Len(rows) - Len(after[k].rows)
           Kept(k) == /\ ListOK(after[k], refused) /\ after[k].view = view
                      /\ SameRegistry(Lists, after[k])
           Placed(k) == /\ Len(after[k].rows) \in Nat /\ Lost(k) \in 0..k
                        /\ k # 0 => k <= indexes[k]
                        /\ \A j \in 1..Len(rows) : k = 0 \/ indexes[k] < j =>
                             /\ j - Lost(k) \in 1..Len(after[k].rows)
                             /\ after[k].rows[j - Lost(k)].package = rows[j].package
           Unmoved(k) == \A q \in Package :
                           (\A m \in 1..k : q # rows[indexes[m]].package)
                             => Asked(after[k], q) = Asked(Lists, q)
           S == {k \in 0..Len(indexes) : Kept(k) /\ Placed(k) /\ Unmoved(k)}
<1>3. 0 \in S
  <2>1. Kept(0)
    BY <1>1, <1>2 DEF SameRegistry
  <2>2. Placed(0)
    <3>1. Lost(0) = 0 /\ Len(after[0].rows) = Len(rows) /\ after[0].rows = rows
      BY <1>1, <1>2
    <3> QED BY <1>1, <3>1
  <2>3. Unmoved(0)
    BY <1>2
  <2> HIDE DEF Kept, Placed, Unmoved
  <2> QED BY <1>1, <2>1, <2>2, <2>3
<1>4. ASSUME NEW k \in 1..Len(indexes), k - 1 \in S PROVE k \in S
  <2>1. PICK a, b, l, d, i : /\ a = after[k - 1] /\ b = after[k] /\ d = indexes[k]
                             /\ l = Len(rows) - Len(a.rows) /\ i = d - l
    OBVIOUS
  <2>2. k \in Nat /\ k # 0 /\ Len(rows) \in Nat
    <3>1. k \in Nat /\ k # 0
      OBVIOUS
    <3>2. Len(rows) \in Nat
      BY <1>1
    <3> QED BY <3>1, <3>2
  <2>3. Kept(k - 1) /\ Placed(k - 1) /\ Unmoved(k - 1)
    <3> HIDE DEF Kept, Placed, Unmoved
    <3> QED BY <1>4
  <2>4. b = Do(c, allow, a, i)
    BY <1>1, <1>2, <2>1 DEF DoNext
  <2>5. Stepped(a, b, i, refused)
    BY <2>1, <2>3, <2>4, OneCommand
  <2>6. k = 1 \/ (k - 1 # 0 /\ indexes[k - 1] \in 1..Len(rows) /\ indexes[k - 1] < d)
    <3> SUFFICES ASSUME k # 1
                 PROVE  k - 1 # 0 /\ indexes[k - 1] \in 1..Len(rows) /\ indexes[k - 1] < d
      OBVIOUS
    <3>1. k - 1 \in 1..Len(indexes) /\ k \in 1..Len(indexes) /\ k - 1 < k
      BY <1>1
    <3>2. PICK x, D : x = k - 1 /\ D = DOMAIN indexes
      OBVIOUS
    <3>3. x \in D /\ k \in D /\ x < k /\ x # 0
      BY <1>1, <3>1, <3>2
    <3>4. indexes[x] < indexes[k]
      BY <3>2, <3>3 DEF Increasing
    <3>5. indexes[x] \in 1..Len(rows)
      BY <1>1, <3>1, <3>2
    <3> QED BY <2>1, <3>2, <3>3, <3>4, <3>5
  <2>7. /\ l \in 0..(k - 1) /\ Len(a.rows) \in Nat /\ (k - 1 # 0 => k - 1 <= indexes[k - 1])
        /\ \A j \in 1..Len(rows) : k - 1 = 0 \/ indexes[k - 1] < j =>
             j - l \in 1..Len(a.rows) /\ a.rows[j - l].package = rows[j].package
    BY <2>1, <2>3
  <2>8. d \in 1..Len(rows) /\ k <= d /\ \A j \in 1..Len(rows) : d <= j =>
             j - l \in 1..Len(a.rows) /\ a.rows[j - l].package = rows[j].package
    <3>1. d \in 1..Len(rows) /\ k <= d
      BY <1>1, <2>1, <2>6, <2>7
    <3>2. \A j \in 1..Len(rows) : d <= j => k - 1 = 0 \/ indexes[k - 1] < j
      BY <1>1, <2>6, <3>1
    <3> QED BY <2>7, <3>1, <3>2
  <2>9. i \in 1..Len(a.rows) /\ a.rows[i].package = rows[d].package
    <3>1. d \in Int /\ d <= d
      BY <2>8
    <3>2. d - l \in 1..Len(a.rows) /\ a.rows[d - l].package = rows[d].package
      BY <2>8, <3>1
    <3> QED BY <2>1, <3>2
  <2>10. Kept(k)
    BY <2>1, <2>3, <2>5 DEF Stepped, SameRegistry
  <2>11. Unmoved(k)
    <3> SUFFICES ASSUME NEW q \in Package, \A m \in 1..k : q # rows[indexes[m]].package
                 PROVE  Asked(after[k], q) = Asked(Lists, q)
      OBVIOUS
    <3>1. Asked(a, q) = Asked(Lists, q)
      BY <2>1, <2>3
    <3>2. q # a.rows[i].package
      BY <2>1, <2>9
    <3> QED BY <2>1, <2>5, <3>1, <3>2 DEF Stepped
  <2>12. ASSUME NEW m \in 0..k, Len(rows) - Len(b.rows) = m, Len(b.rows) \in Nat,
                \A j \in 1..Len(rows) : d < j =>
                  j - m \in 1..Len(b.rows) /\ b.rows[j - m].package = rows[j].package
         PROVE  Placed(k)
    <3>1. Lost(k) = m /\ after[k].rows = b.rows /\ indexes[k] = d
      BY <2>1, <2>12
    <3>2. k # 0 /\ k <= indexes[k]
      BY <2>8, <2>2, <3>1
    <3> HIDE DEF Lost
    <3> QED BY <2>12, <3>1, <3>2
  <2>13. Placed(k)
    <3> HIDE DEF Placed
    <3>1. CASE SameRows(a, b)
      <4>1. Len(b.rows) = Len(a.rows) /\ \A j \in 1..Len(a.rows) : b.rows[j].package = a.rows[j].package
        BY <3>1 DEF SameRows
      <4>2. l \in 0..k /\ Len(rows) - Len(b.rows) = l
        BY <2>1, <2>7, <4>1
      <4>3. \A j \in 1..Len(rows) : d < j =>
              j - l \in 1..Len(b.rows) /\ b.rows[j - l].package = rows[j].package
        <5> SUFFICES ASSUME NEW j \in 1..Len(rows), d < j
                     PROVE  j - l \in 1..Len(b.rows) /\ b.rows[j - l].package = rows[j].package
          OBVIOUS
        <5>1. j - l \in 1..Len(a.rows) /\ a.rows[j - l].package = rows[j].package
          BY <1>1, <2>8
        <5> QED BY <4>1, <5>1
      <4> QED BY <2>7, <2>12, <4>1, <4>2, <4>3
    <3>2. CASE RowLost(a, b, i)
      <4>1. /\ Len(b.rows) = Len(a.rows) - 1 /\ Len(b.rows) \in Nat
            /\ \A j \in 1..Len(b.rows) : j >= i => b.rows[j].package = a.rows[j + 1].package
        <5>1. /\ i \in 1..Len(a.rows) /\ Len(a.rows) \in Nat /\ Len(b.rows) = Len(a.rows) - 1
              /\ \A j \in 1..(Len(a.rows) - 1) :
                   b.rows[j].package = IF j < i THEN a.rows[j].package ELSE a.rows[j + 1].package
          BY <2>7, <2>9, <3>2 DEF RowLost
        <5>2. PICK x, y : x = Len(a.rows) /\ y = Len(b.rows)
          OBVIOUS
        <5>3. x \in Nat /\ i \in 1..x /\ y = x - 1
          BY <5>1, <5>2
        <5>4. y \in Nat
          BY <5>3
        <5>5. ASSUME NEW j \in 1..y, j >= i PROVE b.rows[j].package = a.rows[j + 1].package
          <6>1. j \in 1..(x - 1) /\ ~(j < i)
            BY <5>3, <5>5
          <6> QED BY <5>1, <5>2, <6>1
        <5> QED BY <5>2, <5>3, <5>4, <5>5
      <4>2. l + 1 \in 0..k /\ Len(rows) - Len(b.rows) = l + 1
        <5>1. /\ k \in Nat /\ Len(rows) \in Nat /\ Len(a.rows) \in Nat /\ l \in 0..(k - 1)
              /\ l = Len(rows) - Len(a.rows) /\ Len(b.rows) = Len(a.rows) - 1
          BY <2>1, <2>7, <2>2, <4>1
        <5>2. PICK x, y, m : x = Len(rows) /\ y = Len(a.rows) /\ m = Len(b.rows)
          OBVIOUS
        <5>3. k \in Nat /\ x \in Nat /\ y \in Nat /\ l \in 0..(k - 1) /\ l = x - y /\ m = y - 1
          BY <5>1, <5>2
        <5>4. l + 1 \in 0..k /\ x - m = l + 1
          BY <5>3
        <5> QED BY <5>2, <5>4
      <4>3. ASSUME NEW j \in 1..Len(rows), d < j
            PROVE  j - (l + 1) \in 1..Len(b.rows) /\ b.rows[j - (l + 1)].package = rows[j].package
        <5>1. PICK x : x = j - (l + 1)
          OBVIOUS
        <5>2. j - l \in 1..Len(a.rows) /\ a.rows[j - l].package = rows[j].package
          BY <2>8, <4>3
        <5>3. x \in 1..Len(b.rows) /\ x >= i /\ x + 1 = j - l
          <6>1. l \in Int /\ d \in Int /\ j \in Int /\ i = d - l /\ Len(a.rows) \in Nat
            <7>1. l \in 0..(k - 1) /\ Len(a.rows) \in Nat
              BY <2>7
            <7>2. d \in 1..Len(rows)
              BY <2>8
            <7>3. i = d - l
              BY <2>1
            <7> QED BY <7>1, <7>2, <7>3
          <6>2. j - l \in Int /\ x = (j - l) - 1 /\ j - l > i
            BY <4>3, <5>1, <6>1
          <6>3. Len(b.rows) = Len(a.rows) - 1 /\ i \in 1..Len(a.rows)
            BY <2>9, <4>1
          <6> QED BY <5>2, <6>1, <6>2, <6>3
        <5> QED BY <4>1, <5>1, <5>2, <5>3
      <4> QED BY <2>12, <4>1, <4>2, <4>3
    <3> QED BY <2>5, <3>1, <3>2 DEF Stepped
  <2> HIDE DEF Kept, Placed, Unmoved
  <2> QED BY <2>10, <2>11, <2>13
<1>5. \A k \in 0..Len(indexes) : k \in S
  <2> HIDE DEF S
  <2> QED BY <1>1, <1>3, <1>4, CountUp
<1>6. Kept(Len(indexes)) /\ Unmoved(Len(indexes))
  <2>1. Len(indexes) \in S
    BY <1>1, <1>5
  <2> HIDE DEF Kept, Placed, Unmoved
  <2> QED BY <2>1
<1> QED BY <1>1, <1>2, <1>6

-----------------------------------------------------------------------------
(* The list filled *)

\* Each package with an entry once, in the order the rows have.
LEMMA Ordered ==
  ASSUME NEW es, DOMAIN es \subseteq Package
  PROVE  /\ Order(es) \in Seq(Package) /\ Distinct(Order(es)) /\ ToSet(Order(es)) = DOMAIN es
<1> DEFINE Listed == {p \in DOMAIN es : "obsolete" \notin es[p].is}
           Obsolete == {p \in DOMAIN es : "obsolete" \in es[p].is}
<1>1. Packages \in Seq(Package) /\ Distinct(Packages) /\ IsSeq(Packages) /\ ToSet(Packages) = Package
  BY BrowserAssumption DEF IsInjective, Distinct, IsSeq, Package
<1>2. /\ Listed \subseteq Package /\ Obsolete \subseteq Package
      /\ Listed \cap Obsolete = {} /\ Listed \union Obsolete = DOMAIN es
  OBVIOUS
<1> HIDE DEF Listed, Obsolete
<1>3. PICK a, b : a = Only(Packages, Listed) /\ b = Only(Packages, Obsolete)
  OBVIOUS
<1>4. /\ a \in Seq(Package \cap Listed) /\ ToSet(a) = Package \cap Listed /\ Distinct(a)
      /\ b \in Seq(Package \cap Obsolete) /\ ToSet(b) = Package \cap Obsolete /\ Distinct(b)
  BY <1>1, <1>3, OnlyKeeps
<1>5. a \in Seq(Package) /\ b \in Seq(Package) /\ ToSet(a) = Listed /\ ToSet(b) = Obsolete
  <2>1. Package \cap Listed = Listed /\ Package \cap Obsolete = Obsolete
    BY <1>2
  <2> QED BY <1>2, <1>4, <2>1, SeqMonotonic
<1>6. /\ a \o b \in Seq(Package) /\ ToSet(a \o b) = ToSet(a) \union ToSet(b)
      /\ Distinct(a) /\ Distinct(b) /\ ToSet(a) \cap ToSet(b) = {} => Distinct(a \o b)
  BY <1>5, Joined
<1>7. Order(es) = a \o b
  BY <1>3 DEF Order, Listed, Obsolete
<1> QED BY <1>2, <1>4, <1>5, <1>6, <1>7

\* A list filled has a row for each entry that matches, which tells what it is.
LEMMA Filled ==
  ASSUME NEW s, NEW out, IsList(s), EntriesOK(s.entries), QueueOK(s)
  PROVE  LET f == fillList(s)
         IN /\ ListOK(f, out)
            /\ f.entries = s.entries /\ f.actions = s.actions /\ f.view = s.view
<1>1. PICK es, queue, v, old : s = [entries |-> es, actions |-> queue, rows |-> old, view |-> v]
  BY DEF IsList
<1> DEFINE M == {p \in DOMAIN s.entries : Matches(p, s)}
           shown == Only(Order(s.entries), M)
           rs == [i \in DOMAIN shown |-> NewRow(shown[i], s)]
<1>2. fillList(s) = [entries |-> es, actions |-> queue, rows |-> rs, view |-> v]
  <2>1. fillList(s) = [s EXCEPT !.rows = rs]
    BY Zenon DEF fillList
  <2> HIDE DEF rs
  <2> QED BY <1>1, <2>1
<1>3. s.entries = es /\ M = {p \in DOMAIN es : Matches(p, s)}
  BY <1>1
<1>4. /\ DOMAIN es \subseteq Package /\ queue \in Seq(DOMAIN es)
      /\ EntriesOK(es)
  BY <1>1 DEF EntriesOK, QueueOK
<1>5. Order(es) \in Seq(Package) /\ Distinct(Order(es)) /\ ToSet(Order(es)) = DOMAIN es
  BY <1>4, Ordered
<1>6. shown \in Seq(DOMAIN es \cap M) /\ ToSet(shown) = M /\ Distinct(shown)
  <2>1. shown = Only(Order(es), M)
    BY <1>3
  <2>2. DOMAIN es \cap M = M
    BY <1>3
  <2> HIDE DEF M, shown
  <2>3. IsSeq(Order(es))
    BY <1>5, OwnElements
  <2>4. /\ shown \in Seq(ToSet(Order(es)) \cap M) /\ ToSet(shown) = ToSet(Order(es)) \cap M
        /\ Distinct(shown)
    BY <1>5, <2>3, <2>1, OnlyKeeps
  <2> QED BY <1>5, <2>4, <2>2
<1> HIDE DEF shown, M
<1>7. DOMAIN shown = 1..Len(shown) /\ Len(shown) \in Nat /\ \A i \in DOMAIN shown : shown[i] \in DOMAIN es
  BY <1>6
<1>8. /\ DOMAIN rs = DOMAIN shown
      /\ \A i \in DOMAIN shown :
           rs[i] = [package |-> shown[i], cell |-> displayState(es[shown[i]]),
                    selected |-> shown[i] \in Selected]
  BY <1>3 DEF NewRow
<1>9. IsSeq(rs)
  <2>1. rs = [i \in 1..Len(shown) |-> rs[i]]
    BY <1>7, <1>8
  <2>2. \A i \in 1..Len(shown) : rs[i] \in ToSet(rs)
    BY <1>7, <1>8 DEF ToSet
  <2> HIDE DEF rs
  <2>3. [i \in 1..Len(shown) |-> rs[i]] \in Seq(ToSet(rs))
    BY <1>7, <2>2
  <2> QED BY <2>1, <2>3 DEF IsSeq
<1> HIDE DEF rs
<1>10. \A i \in DOMAIN rs : /\ IsRow(rs[i]) /\ rs[i].package \in DOMAIN es
                           /\ rs[i].cell = displayState(es[rs[i].package])
  BY <1>7, <1>8 DEF IsRow
<1>11. \A i, j \in DOMAIN rs : rs[i].package = rs[j].package => i = j
  BY <1>6, <1>8 DEF Distinct
<1>12. v = "queued" => {rs[i].package : i \in DOMAIN rs} = ToSet(queue)
  <2> SUFFICES ASSUME v = "queued" PROVE {rs[i].package : i \in DOMAIN rs} = ToSet(queue)
    OBVIOUS
  <2>1. {rs[i].package : i \in DOMAIN rs} = ToSet(shown)
    BY <1>8 DEF ToSet
  <2>2. \A p : Matches(p, s) <=> p \in ToSet(queue)
    BY <1>1 DEF Matches
  <2>3. ToSet(queue) \subseteq DOMAIN es
    BY <1>4, OwnElements
  <2> QED BY <1>6, <1>3, <2>1, <2>2, <2>3
<1>13. PICK f : f = fillList(s)
  OBVIOUS
<1>14. f.entries = es /\ f.actions = queue /\ f.rows = rs /\ f.view = v /\ IsList(f)
  BY <1>2, <1>13 DEF IsList
<1>15. s.entries = es /\ s.actions = queue /\ s.view = v
  BY <1>1
<1>16. RowsOK(f, out)
  <2>1. Shown(f) = {rs[i].package : i \in DOMAIN rs}
    BY <1>14 DEF Shown
  <2>2. f.view = "queued" => Shown(f) \ out = ToSet(f.actions) \ out
    BY <1>12, <1>14, <2>1
  <2> QED BY <1>9, <1>10, <1>11, <1>14, <2>2 DEF RowsOK
<1>17. QueueOK(f)
  BY <1>14, <1>15 DEF QueueOK
<1>18. ListOK(f, out)
  BY <1>4, <1>14, <1>16, <1>17 DEF ListOK
<1> QED BY <1>13, <1>14, <1>15, <1>18

-----------------------------------------------------------------------------
(* Entries made again *)

\* An entry before anything is asked of it.
Unasked(e) ==
  IsEntry(e) /\ e.target = <<>> /\ e.flags = <<>> /\ Absent \notin ToSet(e.versions)

\* New entries are those of the registry, with nothing asked.
LEMMA Made ==
  ASSUME NEW index \in Indexes, NEW reg
  PROVE  LET es == MakeEntries(index, reg)
         IN /\ EntriesOK(es)
            /\ \A p \in DOMAIN es : Unasked(es[p]) /\ es[p].reg = reg[p]
            /\ \A p \in Package : Installed(reg[p]) => p \in DOMAIN es
<1> DEFINE es == MakeEntries(index, reg)
           D == {q \in Package : index[q] # <<>> \/ Installed(reg[q])}
<1>1. DOMAIN es = D
  BY DEF MakeEntries
<1>2. ASSUME NEW r, NEW v, NEW l, NEW is, Absent \notin ToSet(v)
      PROVE  Unasked(Entry(r, v, l, is)) /\ Entry(r, v, l, is).reg = r
  BY <1>2 DEF Unasked, Entry, IsEntry
<1>3. Absent \notin ToSet(<<>>)
  BY DEF ToSet
<1>4. ASSUME NEW p \in D PROVE Unasked(es[p]) /\ es[p].reg = reg[p]
  <2>1. Absent \notin ToSet(index[p])
    BY BrowserAssumption DEF D
  <2>2. CASE index[p] # <<>>
    <3>1. es[p] = ListedEntry(reg[p], index[p])
      BY <2>2 DEF MakeEntries
    <3>2. \E l, is : ListedEntry(reg[p], index[p]) = Entry(reg[p], index[p], l, is)
      BY DEF ListedEntry
    <3>3. PICK l, is : es[p] = Entry(reg[p], index[p], l, is)
      BY <3>1, <3>2
    <3> HIDE DEF es
    <3> QED BY <1>2, <2>1, <3>3
  <2>3. CASE index[p] = <<>>
    <3>1. es[p] = ObsoleteEntry(reg[p])
      BY <2>3 DEF MakeEntries
    <3> QED BY <1>2, <1>3, <3>1 DEF ObsoleteEntry
  <2> QED BY <2>2, <2>3
<1>5. es = [p \in DOMAIN es |-> es[p]]
  BY DEF MakeEntries
<1> QED BY <1>1, <1>4, <1>5 DEF EntriesOK, Unasked

\* findVersion gives a version that compares as the same, if there is one.
LEMMA FoundSame ==
  ASSUME NEW versions, NEW v, Absent \notin ToSet(versions)
  PROVE  /\ findVersion(versions, v) # Absent => Same(findVersion(versions, v), v)
         /\ findVersion(versions, v) = Absent => \A w \in ToSet(versions) : ~Same(w, v)
<1>1. CASE HasVersion(versions, v)
  <2>1. PICK i : i = CHOOSE j \in DOMAIN versions : Same(versions[j], v)
    OBVIOUS
  <2>2. i \in DOMAIN versions /\ Same(versions[i], v)
    BY <1>1, <2>1 DEF HasVersion
  <2>3. findVersion(versions, v) = versions[i]
    BY <1>1, <2>1 DEF findVersion
  <2>4. versions[i] # Absent
    BY <2>2 DEF ToSet
  <2> QED BY <2>2, <2>3, <2>4
<1>2. CASE ~HasVersion(versions, v)
  <2>1. findVersion(versions, v) = Absent
    BY <1>2 DEF findVersion
  <2> QED BY <1>2, <2>1 DEF HasVersion, ToSet
<1> QED BY <1>1, <1>2

\* What was asked of a package and cannot be asked any more.
Gone(q, state) ==
  /\ q \in ToSet(actions) /\ q \notin ToSet(state.actions)
  /\ \/ q \notin DOMAIN state.entries
     \/ /\ NamesAVersion(entries[q].target)
        /\ \A v \in ToSet(state.entries[q].versions) : ~Same(v, entries[q].target[1])

\* A wish goes over to the new entry unless what it asks for is gone.
LEMMA Transferred ==
  ASSUME QueueOK(Lists), NEW es, EntriesOK(es), \A p \in DOMAIN es : Unasked(es[p])
  PROVE  LET t == transferActions(es)
         IN /\ IsList(t) /\ EntriesOK(t.entries) /\ QueueOK(t) /\ t.view = view
            /\ DOMAIN t.entries = DOMAIN es /\ \A p \in DOMAIN es : t.entries[p].reg = es[p].reg
            /\ ToSet(t.actions) \subseteq ToSet(actions)
            /\ \A q \in Package : SameWish(Wish(q), Asked(t, q)) \/ Gone(q, t)
<1> DEFINE Kept == {p \in ToSet(actions) \cap DOMAIN es : Target(p, es) # {}}
           New(p) == [es[p] EXCEPT !.target = IF entries[p].target = <<>> THEN @
                                              ELSE CHOOSE t \in Target(p, es) : TRUE,
                                   !.flags = IF entries[p].flags = <<>> THEN @ ELSE entries[p].flags]
           fs == [p \in DOMAIN es |-> IF p \in Kept THEN New(p) ELSE es[p]]
           queue == Only(actions, Kept)
<1>1. transferActions(es) = [entries |-> fs, actions |-> queue, rows |-> rows, view |-> view]
  BY DEF transferActions
<1>2. actions \in Seq(DOMAIN entries)
  BY DEF QueueOK, Lists
<1>3. queue \in Seq(Kept) /\ ToSet(queue) = Kept /\ Kept \subseteq ToSet(actions) /\ Kept \subseteq DOMAIN es
  <2>1. ToSet(actions) \cap Kept = Kept /\ Kept \subseteq ToSet(actions) /\ Kept \subseteq DOMAIN es
    OBVIOUS
  <2> HIDE DEF Kept
  <2>2. IsSeq(actions)
    BY <1>2, OwnElements
  <2>3. queue \in Seq(ToSet(actions) \cap Kept) /\ ToSet(queue) = ToSet(actions) \cap Kept
    BY <2>2, OnlyKeeps
  <2> QED BY <2>1, <2>3
<1> HIDE DEF queue
<1>4. \A p \in DOMAIN es : p \notin Kept => fs[p] = es[p]
  OBVIOUS
<1>5. ASSUME NEW p \in Kept
      PROVE  /\ IsEntry(fs[p]) /\ fs[p].reg = es[p].reg /\ fs[p].versions = es[p].versions
             /\ fs[p].flags = entries[p].flags
             /\ \/ fs[p].target = entries[p].target
                \/ /\ NamesAVersion(fs[p].target) /\ NamesAVersion(entries[p].target)
                   /\ Same(entries[p].target[1], fs[p].target[1])
  <2>1. PICK e, old, g, f : /\ e = es[p] /\ old = entries[p].target
                            /\ g = (IF old = <<>> THEN e.target ELSE CHOOSE t \in Target(p, es) : TRUE)
                            /\ f = (IF entries[p].flags = <<>> THEN e.flags ELSE entries[p].flags)
    OBVIOUS
  <2>2. Unasked(e) /\ p \in DOMAIN es /\ Target(p, es) # {}
    BY <2>1
  <2>3. fs[p] = [e EXCEPT !.target = g, !.flags = f]
    BY <2>1, <2>2
  <2> HIDE DEF fs, Kept
  <2>4. IsEntry(fs[p]) /\ fs[p].reg = e.reg /\ fs[p].versions = e.versions
        /\ fs[p].target = g /\ fs[p].flags = f
    <3>1. PICK d : d = [e EXCEPT !.target = g]
      OBVIOUS
    <3>2. IsEntry(d) /\ d.reg = e.reg /\ d.versions = e.versions /\ d.target = g
      BY <2>2, <3>1 DEF Unasked, IsEntry
    <3>3. PICK y : y = [d EXCEPT !.flags = f]
      OBVIOUS
    <3>4. IsEntry(y) /\ y.reg = d.reg /\ y.versions = d.versions /\ y.target = d.target /\ y.flags = f
      BY <3>2, <3>3 DEF IsEntry
    <3>5. fs[p] = y
      BY <2>3, <3>1, <3>3
    <3> QED BY <3>2, <3>4, <3>5
  <2>5. f = entries[p].flags
    BY <2>1, <2>2 DEF Unasked
  <2>6. CASE old \in {<<>>, <<Absent>>}
    <3>1. Target(p, es) = {old}
      BY <2>1, <2>6 DEF Target
    <3>2. g = old
      BY <2>1, <2>2, <2>6, <3>1 DEF Unasked
    <3> QED BY <2>1, <2>4, <2>5, <3>2
  <2>7. CASE old \notin {<<>>, <<Absent>>}
    <3>1. PICK w : w = findVersion(e.versions, old[1])
      OBVIOUS
    <3>2. Target(p, es) = {<<v>> : v \in {w} \ {Absent}}
      BY <2>1, <2>7, <3>1 DEF Target
    <3>3. w # Absent /\ Target(p, es) = {<<w>>}
      BY <2>2, <3>2
    <3>4. g = <<w>>
      BY <2>1, <2>7, <3>3
    <3>5. Same(w, old[1])
      BY <2>2, <3>1, <3>3, FoundSame DEF Unasked
    <3>6. Same(old[1], w)
      BY <3>5 DEF Same
    <3>7. NamesAVersion(g) /\ NamesAVersion(old) /\ g[1] = w
      BY <2>7, <3>3, <3>4 DEF NamesAVersion
    <3> QED BY <2>1, <2>4, <2>5, <3>6, <3>7
  <2> QED BY <2>6, <2>7
<1>6. ASSUME NEW p \in ToSet(actions) \cap DOMAIN es, p \notin Kept
      PROVE  /\ NamesAVersion(entries[p].target)
             /\ \A v \in ToSet(es[p].versions) : ~Same(v, entries[p].target[1])
  <2>1. Target(p, es) = {}
    BY <1>6
  <2>2. PICK old, w : old = entries[p].target /\ w = findVersion(es[p].versions, old[1])
    OBVIOUS
  <2>3. old \notin {<<>>, <<Absent>>}
    BY <2>1, <2>2 DEF Target
  <2>4. Target(p, es) = {<<v>> : v \in {w} \ {Absent}}
    BY <2>2, <2>3 DEF Target
  <2>5. w = Absent
    BY <2>1, <2>4
  <2> QED BY <2>2, <2>3, <2>5, FoundSame DEF NamesAVersion, Unasked
<1> HIDE DEF Kept
<1>7. PICK t : t = transferActions(es)
  OBVIOUS
<1>8. DOMAIN fs = DOMAIN es /\ fs = [p \in DOMAIN fs |-> fs[p]]
  OBVIOUS
<1> HIDE DEF fs
<1>9. t.entries = fs /\ t.actions = queue /\ t.rows = rows /\ t.view = view /\ IsList(t)
  BY <1>1, <1>7 DEF IsList
<1>10. \A p \in DOMAIN es : IsEntry(fs[p]) /\ fs[p].reg = es[p].reg /\ fs[p].versions = es[p].versions
  BY <1>4, <1>5 DEF Unasked
<1>11. EntriesOK(t.entries)
  BY <1>8, <1>9, <1>10 DEF EntriesOK
<1>12. QueueOK(t)
  <2>1. queue \in Seq(DOMAIN fs)
    BY <1>3, <1>8, SeqMonotonic
  <2>2. \A p \in DOMAIN fs : fs[p].target # <<>> => p \in ToSet(queue)
    BY <1>3, <1>4, <1>8 DEF Unasked
  <2> QED BY <1>9, <2>1, <2>2 DEF QueueOK
<1>13. ASSUME NEW q \in Package PROVE SameWish(Wish(q), Asked(t, q)) \/ Gone(q, t)
  <2>1. CASE q \notin ToSet(actions)
    <3>1. Wish(q) = Asked(t, q)
      BY <1>3, <1>9, <2>1 DEF Wish, Asked
    <3> QED BY <3>1 DEF SameWish
  <2>2. CASE q \in Kept
    <3>1. /\ Wish(q) = [target |-> entries[q].target, flags |-> entries[q].flags]
          /\ Asked(t, q) = [target |-> fs[q].target, flags |-> fs[q].flags]
      BY <1>3, <1>9, <2>2 DEF Wish, Asked
    <3> QED BY <1>5, <2>2, <3>1 DEF SameWish
  <2>3. CASE q \in ToSet(actions) /\ q \notin Kept
    <3>1. q \in DOMAIN es => fs[q].versions = es[q].versions
      BY <1>10
    <3> QED BY <1>3, <1>6, <1>8, <1>9, <2>3, <3>1 DEF Gone
  <2> QED BY <2>1, <2>2, <2>3
<1> QED BY <1>3, <1>7, <1>8, <1>9, <1>10, <1>11, <1>12, <1>13

\* What is not asked any more after a step.
GoneNow(q) ==
  /\ q \in ToSet(actions) /\ q \notin ToSet(actions')
  /\ \/ q \notin DOMAIN entries'
     \/ /\ NamesAVersion(entries[q].target)
        /\ \A v \in ToSet(entries'[q].versions) : ~Same(v, entries[q].target[1])

\* The list made again.
LEMMA Populated ==
  ASSUME QueueOK(Lists), ButtonOK, NEW indexes \in SUBSET Indexes, populate(indexes, registry),
         view' = view, registry' = registry
  PROVE  /\ ListOK(Lists, refused)' /\ ButtonOK' /\ Fresh' /\ current' = 0 /\ window' = "shown"
         /\ \A q \in Package : SameWish(Wish(q), Wish(q)') \/ GoneNow(q)
<1>1. PICK es : es = IF indexes = {} THEN NoEntries
                     ELSE MakeEntries(CHOOSE i \in indexes : TRUE, registry)
  OBVIOUS
<1>2. /\ EntriesOK(es) /\ \A p \in DOMAIN es : Unasked(es[p]) /\ es[p].reg = registry[p]
      /\ DOMAIN es # {} => \A p \in Package : Installed(registry[p]) => p \in DOMAIN es
  <2>1. CASE indexes = {}
    <3>1. es = NoEntries
      BY <1>1, <2>1
    <3> QED BY <3>1 DEF NoEntries, EntriesOK
  <2>2. CASE indexes # {}
    <3>1. PICK i, reg : i = (CHOOSE x \in indexes : TRUE) /\ reg = registry
      OBVIOUS
    <3>2. i \in Indexes /\ es = MakeEntries(i, reg)
      BY <1>1, <2>2, <3>1
    <3>3. /\ EntriesOK(es) /\ \A p \in DOMAIN es : Unasked(es[p]) /\ es[p].reg = reg[p]
          /\ \A p \in Package : Installed(reg[p]) => p \in DOMAIN es
      BY <3>2, Made
    <3> QED BY <3>1, <3>3
  <2> QED BY <2>1, <2>2
<1>3. PICK t : t = transferActions(es)
  OBVIOUS
<1>4. /\ IsList(t) /\ EntriesOK(t.entries) /\ QueueOK(t) /\ t.view = view
      /\ DOMAIN t.entries = DOMAIN es /\ \A p \in DOMAIN es : t.entries[p].reg = es[p].reg
      /\ ToSet(t.actions) \subseteq ToSet(actions)
      /\ \A q \in Package : SameWish(Wish(q), Asked(t, q)) \/ Gone(q, t)
  BY <1>2, <1>3, Transferred
<1>5. PICK f : f = fillList(t)
  OBVIOUS
<1>6. /\ ListOK(f, {}) /\ f.entries = t.entries /\ f.actions = t.actions /\ f.view = view
  BY <1>4, <1>5, Filled
<1>7. /\ entries' = f.entries /\ actions' = f.actions /\ rows' = f.rows /\ view' = f.view
      /\ current' = 0 /\ button' = (button /\ t.actions # <<>>) /\ refused' = {} /\ window' = "shown"
  BY <1>1, <1>3, <1>5, <1>6 DEF populate, Set
<1>8. Lists' = f
  BY <1>6, <1>7 DEF Lists, ListOK, IsList
<1>9. ListOK(Lists, refused)'
  BY <1>6, <1>7, <1>8
<1>10. ButtonOK'
  <2>1. t.actions \in Seq(ToSet(t.actions)) /\ actions \in Seq(DOMAIN entries)
    BY <1>4, OwnElements DEF QueueOK, IsSeq, Lists
  <2>2. t.actions # <<>> => actions # <<>>
    <3> SUFFICES ASSUME actions = <<>>, t.actions # <<>> PROVE FALSE
      OBVIOUS
    <3>1. ToSet(actions) = {}
      BY DEF ToSet
    <3>2. t.actions[1] \in ToSet(t.actions)
      BY <2>1 DEF ToSet
    <3> QED BY <1>4, <3>1, <3>2
  <2> QED BY <1>6, <1>7, <2>2 DEF ButtonOK
<1>11. Fresh'
  BY <1>2, <1>4, <1>6, <1>7 DEF Fresh
<1>12. ASSUME NEW q \in Package PROVE SameWish(Wish(q), Wish(q)') \/ GoneNow(q)
  <2>1. Wish(q)' = Asked(t, q)
    BY <1>6, <1>7 DEF Wish, Asked
  <2> QED BY <1>4, <1>6, <1>7, <2>1 DEF Gone, GoneNow
<1> QED BY <1>7, <1>9, <1>10, <1>11, <1>12

-----------------------------------------------------------------------------
(* The window *)

\* An empty list.
LEMMA NothingListed ==
  ASSUME NEW s, NEW out, IsList(s), s.entries = NoEntries, s.actions = <<>>, s.rows = <<>>
  PROVE  ListOK(s, out)
<1>1. ToSet(<<>>) = {} /\ DOMAIN <<>> = {} /\ DOMAIN NoEntries = {}
  BY DEF ToSet, NoEntries
<1>2. EntriesOK(s.entries) /\ QueueOK(s)
  BY <1>1 DEF EntriesOK, QueueOK, NoEntries
<1>3. RowsOK(s, out)
  BY <1>1 DEF RowsOK, IsSeq, Shown
<1> QED BY <1>2, <1>3 DEF ListOK

\* A closed window has nothing left to show.
LEMMA Closed ==
  ASSUME Close
  PROVE  ListOK(Lists, refused)' /\ ButtonOK' /\ Fresh' /\ current' = 0 /\ window' = "none"
         /\ loadState' = "Init" /\ entries' = NoEntries
<1>1. PICK s, out : s = Lists' /\ out = refused'
  OBVIOUS
<1>2. IsList(s) /\ s.entries = NoEntries /\ s.actions = <<>> /\ s.rows = <<>>
  BY <1>1 DEF Close, Lists, IsList
<1>3. ListOK(s, out)
  BY <1>2, NothingListed
<1> QED BY <1>1, <1>3 DEF Close, ButtonOK, Fresh, NoEntries

\* Nothing is listed at first.
THEOREM InitInv == Init => Inv
<1> SUFFICES ASSUME Init PROVE Inv
  OBVIOUS
<1>1. PICK s, out : s = Lists /\ out = refused
  OBVIOUS
<1>2. IsList(s) /\ s.entries = NoEntries /\ s.actions = <<>> /\ s.rows = <<>>
  BY <1>1 DEF Init, Lists, IsList
<1>3. ListOK(s, out)
  BY <1>2, NothingListed
<1>4. TxOK
  BY DEF Init, TxOK, NoTransaction
<1>5. WindowOK
  BY DEF Init, WindowOK, NoTransaction
<1>6. FreshOK
  BY DEF Init, FreshOK, Fresh, NoEntries
<1>7. PointerOK /\ ButtonOK
  BY DEF Init, PointerOK, ButtonOK
<1> QED BY <1>1, <1>3, <1>4, <1>5, <1>6, <1>7 DEF Inv

\* Nothing of the list changes.
SameList == UNCHANGED <<lists, view, refused>>

\* A list that does not change keeps what was asked.
LEMMA Untouched ==
  ASSUME SameList
  PROVE  /\ ListOK(Lists, refused) => ListOK(Lists, refused)'
         /\ ButtonOK => ButtonOK'
         /\ \A q \in Package : SameWish(Wish(q), Wish(q)')
<1>1. Lists' = Lists /\ refused' = refused
  BY DEF SameList, lists, Lists
<1>2. ListOK(Lists, refused) => ListOK(Lists, refused)'
  BY <1>1
<1>3. ButtonOK => ButtonOK'
  BY DEF SameList, lists, ButtonOK
<1>4. \A q \in Package : Wish(q)' = Wish(q)
  BY DEF SameList, lists, Wish
<1> QED BY <1>2, <1>3, <1>4 DEF SameWish

\* A refresh: the browser waits for the transaction, empties its list, or knows better.
LEMMA Refreshed ==
  ASSUME Inv, NEW t, NEW on, refresh(t, on), UNCHANGED <<registry, cached>>, phase' = "rest",
         enabled' \in BOOLEAN,
         \/ phase = "rest" /\ t = tx
         \/ phase = "teardown" /\ t = NoTransaction /\ tx.refresh /\ window # "none"
  PROVE  /\ TxOK' /\ WindowOK' /\ FreshOK' /\ ListOK(Lists, refused)' /\ ButtonOK'
         /\ current' = 0 \/ UNCHANGED <<current, rows>>
         /\ \A q \in Package : SameWish(Wish(q), Wish(q)') \/ GoneNow(q)
<1>1. /\ DOMAIN t = DOMAIN NoTransaction /\ t.open \in BOOLEAN /\ t.fetch \in BOOLEAN
      /\ t.refresh \in BOOLEAN /\ t.index \subseteq Indexes /\ (t.fetch => t.open)
      /\ cached' \in Indexes /\ QueueOK(Lists) /\ ButtonOK /\ ListOK(Lists, refused)
  <2>1. CASE t = tx
    BY <2>1 DEF Inv, TxOK, ListOK
  <2>2. CASE t = NoTransaction
    <3>1. /\ t.open = FALSE /\ t.fetch = FALSE /\ t.refresh = FALSE /\ t.index = {}
      BY <2>2 DEF NoTransaction
    <3> QED BY <2>2, <3>1 DEF Inv, TxOK, ListOK
  <2> QED BY <2>1, <2>2
<1>2. /\ loadState = "Loading" <=> t.fetch
      /\ loadState = "DeferredLoaded" => phase = "teardown"
      /\ phase = "teardown" => ~t.fetch
      /\ Fresh \/ t.fetch \/ phase = "teardown"
      /\ loadState = "DeferredLoaded" => Fresh /\ window = "shown"
      /\ loadState = "Loading" => window # "none"
      /\ window = "none" => loadState = "Init" /\ entries = NoEntries
      /\ window \in {"none", "hidden", "shown"}
  BY DEF Inv, TxOK, WindowOK, FreshOK, NoTransaction
<1>3. CASE loadState = "DeferredLoaded" /\ loadState' = "Loaded" /\ tx' = t
           /\ UNCHANGED <<window, lists, view, current, refused>>
  <2>1. TxOK'
    BY <1>1, <1>3 DEF TxOK
  <2>2. WindowOK'
    BY <1>2, <1>3 DEF WindowOK, lists
  <2>3. FreshOK'
    BY <1>2, <1>3 DEF FreshOK, Fresh, lists
  <2>4. SameList /\ UNCHANGED <<current, rows>>
    BY <1>3 DEF SameList, lists
  <2> QED BY <1>1, <2>1, <2>2, <2>3, <2>4, Untouched
<1>4. CASE loadState = "Loading" /\ tx' = t /\ UNCHANGED browser
  <2>1. TxOK'
    BY <1>1, <1>4 DEF TxOK
  <2>2. WindowOK'
    BY <1>2, <1>4 DEF WindowOK, browser, lists
  <2>3. FreshOK'
    BY <1>2, <1>4 DEF FreshOK, Fresh, browser, lists
  <2>4. SameList /\ UNCHANGED <<current, rows>>
    BY <1>4 DEF SameList, browser, lists
  <2> QED BY <1>1, <2>1, <2>2, <2>3, <2>4, Untouched
<1>5. CASE loadState \in {"Init", "Loaded"} /\ ~on /\ tx' = t
           /\ populate({}, registry) /\ UNCHANGED <<loadState, view>>
  <2>1. TxOK'
    BY <1>1, <1>5 DEF TxOK
  <2>2. /\ ListOK(Lists, refused)' /\ ButtonOK' /\ Fresh' /\ current' = 0 /\ window' = "shown"
        /\ \A q \in Package : SameWish(Wish(q), Wish(q)') \/ GoneNow(q)
    <3>1. {} \in SUBSET Indexes
      OBVIOUS
    <3> QED BY <1>1, <1>5, <3>1, Populated
  <2>3. WindowOK'
    BY <1>2, <1>5, <2>2 DEF WindowOK
  <2>4. FreshOK'
    BY <1>5, <2>2 DEF FreshOK
  <2> QED BY <2>1, <2>2, <2>3, <2>4
<1>6. CASE /\ loadState \in {"Init", "Loaded"} /\ on /\ loadState' = "Loading"
           /\ tx' = [t EXCEPT !.open = TRUE, !.fetch = TRUE, !.first = loadState = "Init"]
           /\ window' = IF window = "none" THEN "hidden" ELSE window
           /\ UNCHANGED <<lists, view, current, refused>>
  <2>1. /\ DOMAIN tx' = DOMAIN NoTransaction /\ tx'.open = TRUE /\ tx'.fetch = TRUE
        /\ tx'.refresh = t.refresh /\ tx'.index = t.index
    BY <1>1, <1>6 DEF NoTransaction
  <2>2. TxOK'
    BY <1>1, <2>1 DEF TxOK
  <2>3. WindowOK'
    BY <1>2, <1>6, <2>1 DEF WindowOK
  <2>4. FreshOK'
    BY <1>6, <2>1 DEF FreshOK
  <2>5. SameList /\ UNCHANGED <<current, rows>>
    BY <1>6 DEF SameList, lists
  <2> QED BY <1>1, <2>2, <2>3, <2>4, <2>5, Untouched
<1> QED BY <1>3, <1>4, <1>5, <1>6 DEF refresh

-----------------------------------------------------------------------------
(* Every step keeps the invariant and the wishes *)

WishKept(p) ==
  ~SameWish(Wish(p), Wish(p)') =>
       \/ p \in Selected /\ \E c \in Commands : selectionDo(c)
       \/ p \in pointed /\ \E c \in Commands : currentDo(c)
       \/ actions' = <<>> /\ TaskOf(p, entries[p]) \in tx'.tasks
       \/ window' = "none"
       \/ /\ phase' # phase \/ enabled' # enabled \/ ~enabled
          /\ p \notin ToSet(actions')
          /\ \/ p \notin DOMAIN entries'
             \/ /\ NamesAVersion(entries[p].target)
                /\ \A v \in ToSet(entries'[p].versions) : ~Same(v, entries[p].target[1])

Good == Inv' /\ \A p \in Package : WishKept(p)

\* Most steps touch neither the entries nor the rows.
LEMMA ListUntouched ==
  ASSUME Inv, SameList, TxOK', WindowOK', FreshOK', PointerOK'
  PROVE  Good
<1>1. \A p \in Package : WishKept(p)
  BY Untouched DEF WishKept
<1>2. ListOK(Lists, refused)' /\ ButtonOK'
  BY Untouched DEF Inv
<1> QED BY <1>1, <1>2 DEF Inv, Good

\* A refresh outside of a command.
LEMMA RefreshGood ==
  ASSUME Inv, NEW t, NEW on, refresh(t, on), UNCHANGED <<registry, cached>>, phase' = "rest",
         enabled' \in BOOLEAN,
         \/ phase = "rest" /\ t = tx
         \/ phase = "teardown" /\ t = NoTransaction /\ tx.refresh /\ window # "none",
         phase' # phase \/ enabled' # enabled \/ on = enabled,
         menu' = menu, pointed' = pointed
  PROVE  Good
<1>1. /\ TxOK' /\ WindowOK' /\ FreshOK' /\ ListOK(Lists, refused)' /\ ButtonOK'
      /\ current' = 0 \/ UNCHANGED <<current, rows>>
      /\ \A q \in Package : SameWish(Wish(q), Wish(q)') \/ GoneNow(q)
  BY Refreshed
<1>2. PointerOK'
  BY <1>1 DEF Inv, PointerOK
<1>3. ASSUME NEW p \in Package PROVE WishKept(p)
  <2>1. CASE phase' # phase \/ enabled' # enabled \/ ~enabled
    BY <1>1, <2>1 DEF WishKept, GoneNow
  <2>2. CASE phase' = phase /\ enabled' = enabled /\ enabled = TRUE
    <3>1. loadState # "DeferredLoaded" => SameList
      BY <2>2 DEF refresh, browser, lists, SameList
    <3>2. loadState = "DeferredLoaded" => SameList
      BY DEF refresh, browser, lists, SameList
    <3> QED BY <3>1, <3>2, Untouched DEF WishKept
  <2> QED BY <2>1, <2>2 DEF Inv, TxOK
<1> QED BY <1>1, <1>2, <1>3 DEF Inv, Good

\* One lemma for each action.
LEMMA BrowseGood == ASSUME Inv, BrowsePackages PROVE Good
<1>1. /\ phase = "rest" /\ phase' = phase /\ menu' = menu /\ pointed' = pointed
      /\ enabled' = enabled /\ enabled \in BOOLEAN /\ UNCHANGED <<registry, cached>>
  BY DEF BrowsePackages, Data, Inv, TxOK
<1>2. CASE refresh(tx, enabled)
  <2>1. PICK t, on : t = tx /\ on = enabled
    OBVIOUS
  <2>2. refresh(t, on)
    BY <1>2, <2>1
  <2> QED BY <1>1, <2>1, <2>2, RefreshGood
<1>3. CASE window # "none" /\ window' = "shown"
           /\ UNCHANGED <<tx, loadState, lists, view, current, refused>>
  <2>1. SameList /\ UNCHANGED <<current, rows>>
    BY <1>3 DEF SameList, lists
  <2>2. TxOK'
    BY <1>1, <1>3 DEF Inv, TxOK
  <2>3. WindowOK'
    BY <1>1, <1>3 DEF Inv, WindowOK, lists
  <2>4. FreshOK'
    BY <1>1, <1>3 DEF Inv, FreshOK, Fresh, lists
  <2>5. PointerOK'
    BY <1>1, <2>1 DEF Inv, PointerOK
  <2> QED BY <2>1, <2>2, <2>3, <2>4, <2>5, ListUntouched
<1> QED BY <1>2, <1>3 DEF BrowsePackages

LEMMA RefreshButtonGood == ASSUME Inv, RefreshButton PROVE Good
<1>1. /\ phase = "rest" /\ phase' = phase /\ menu' = menu /\ pointed' = pointed
      /\ enabled' = enabled /\ enabled \in BOOLEAN /\ UNCHANGED <<registry, cached>>
  BY DEF RefreshButton, Command, Data, Inv, TxOK
<1>2. PICK t, on : t = tx /\ on = enabled
  OBVIOUS
<1>3. refresh(t, on)
  BY <1>2 DEF RefreshButton
<1> QED BY <1>1, <1>2, <1>3, RefreshGood

\* What the handlers and the transaction find is not touched while the user looks.
LEMMA Looking ==
  ASSUME Inv, UNCHANGED <<application, window, loadState, entries>>
  PROVE  TxOK' /\ WindowOK' /\ FreshOK'
<1>1. TxOK'
  BY DEF Inv, TxOK, application
<1>2. WindowOK'
  BY DEF Inv, WindowOK, application
<1>3. FreshOK'
  BY DEF Inv, FreshOK, Fresh, application
<1> QED BY <1>1, <1>2, <1>3

\* Nothing is asked without entries or queue changing.
LEMMA SameWishes ==
  ASSUME UNCHANGED <<entries, actions>>
  PROVE  \A p \in Package : WishKept(p)
<1>1. ASSUME NEW p \in Package PROVE Wish(p)' = Wish(p)
  BY DEF Wish
<1> QED BY <1>1 DEF WishKept, SameWish

LEMMA SetViewGood == ASSUME Inv, NEW v, SetView(v) PROVE Good
<1>1. PICK s, f, out : s = [Lists EXCEPT !.view = v] /\ f = fillList(s) /\ out = refused
  OBVIOUS
<1>2. /\ IsList(s) /\ s.entries = entries /\ s.actions = actions /\ s.view = v
  BY <1>1 DEF Lists, IsList
<1>3. EntriesOK(s.entries) /\ QueueOK(s)
  BY <1>2 DEF Inv, ListOK, QueueOK, Lists
<1>4. ListOK(f, out) /\ f.entries = entries /\ f.actions = actions /\ f.view = v
  BY <1>1, <1>2, <1>3, Filled
<1>5. /\ entries' = entries /\ actions' = actions /\ rows' = f.rows /\ view' = v /\ refused' = refused
      /\ button' = button /\ ~menu /\ menu' = menu
      /\ UNCHANGED <<application, window, loadState, entries>>
  BY <1>1 DEF SetView, Look, pointer
<1>6. Lists' = f
  BY <1>4, <1>5 DEF Lists, ListOK, IsList
<1>7. ListOK(Lists, refused)'
  BY <1>1, <1>4, <1>5, <1>6
<1>8. ButtonOK' /\ PointerOK'
  BY <1>5 DEF Inv, ButtonOK, PointerOK
<1> QED BY <1>5, <1>7, <1>8, Looking, SameWishes DEF Good, Inv

LEMMA SelectGood == ASSUME Inv, NEW S, Select(S) PROVE Good
<1>1. PICK rs : rs = [i \in DOMAIN rows |-> [rows[i] EXCEPT !.selected = i \in S]]
  OBVIOUS
<1>2. /\ entries' = entries /\ actions' = actions /\ rows' = rs /\ view' = view /\ refused' = refused
      /\ button' = button /\ ~menu /\ menu' = menu
      /\ UNCHANGED <<application, window, loadState, entries>>
  BY <1>1 DEF Select, Look, pointer
<1>3. /\ IsSeq(rows) /\ \A i \in DOMAIN rows : IsRow(rows[i])
      /\ DOMAIN rows = 1..Len(rows) /\ Len(rows) \in Nat
  BY DEF Inv, ListOK, RowsOK, IsSeq, Lists
<1>4. /\ DOMAIN rs = DOMAIN rows
      /\ \A i \in DOMAIN rows : /\ IsRow(rs[i]) /\ rs[i].package = rows[i].package
                                /\ rs[i].cell = rows[i].cell
  BY <1>1, <1>3 DEF IsRow
<1>5. IsSeq(rs)
  <2>1. rs = [i \in 1..Len(rows) |-> rs[i]] /\ \A i \in 1..Len(rows) : rs[i] \in ToSet(rs)
    BY <1>1, <1>3, <1>4 DEF ToSet
  <2>2. [i \in 1..Len(rows) |-> rs[i]] \in Seq(ToSet(rs))
    BY <1>3, <2>1
  <2> QED BY <2>1, <2>2 DEF IsSeq
<1>6. /\ Lists'.entries = entries /\ Lists'.actions = actions /\ Lists'.rows = rs /\ Lists'.view = view
      /\ IsList(Lists)' /\ EntriesOK(entries) /\ QueueOK(Lists) /\ RowsOK(Lists, refused)
  BY <1>2 DEF Inv, ListOK, IsList, Lists
<1>7. QueueOK(Lists)'
  BY <1>2, <1>6 DEF QueueOK, Lists
<1>8. RowsOK(Lists, refused)'
  <2>1. {rs[i].package : i \in DOMAIN rs} = {rows[i].package : i \in DOMAIN rows}
    BY <1>4
  <2>2. Shown(Lists)' = Shown(Lists)
    <3>1. Lists.rows = rows
      BY DEF Lists
    <3>2. Shown(Lists) = {rows[i].package : i \in DOMAIN rows}
      BY <3>1 DEF Shown
    <3>3. Shown(Lists)' = {rs[i].package : i \in DOMAIN rs}
      BY <1>6 DEF Shown
    <3> QED BY <2>1, <3>2, <3>3
  <2> QED BY <1>2, <1>4, <1>5, <1>6, <2>2 DEF RowsOK, Lists
<1>9. ListOK(Lists, refused)'
  BY <1>2, <1>6, <1>7, <1>8 DEF ListOK, Lists
<1>10. ButtonOK' /\ PointerOK'
  BY <1>2 DEF Inv, ButtonOK, PointerOK
<1> QED BY <1>2, <1>9, <1>10, Looking, SameWishes DEF Good, Inv

LEMMA OpenMenuGood == ASSUME Inv, NEW i \in 0..Len(rows), OpenMenu(i) PROVE Good
<1>1. SameList /\ UNCHANGED <<application, window, loadState, entries>>
  BY DEF OpenMenu, Look, SameList, lists
<1>2. PointerOK'
  <2>1. current' = i /\ rows' = rows /\ pointed' = IF i = 0 THEN {} ELSE {rows[i].package}
    BY DEF OpenMenu
  <2>2. i = 0 \/ i \in DOMAIN rows
    BY DEF Inv, ListOK, RowsOK, IsSeq, Lists
  <2> QED BY <2>1, <2>2 DEF PointerOK
<1> QED BY <1>1, <1>2, Looking, ListUntouched

LEMMA DismissMenuGood == ASSUME Inv, DismissMenu PROVE Good
<1>1. SameList /\ UNCHANGED <<application, window, loadState, entries>>
  BY DEF DismissMenu, SameList, lists, browser
<1>2. PointerOK'
  BY DEF DismissMenu, CloseMenu, PointerOK
<1> QED BY <1>1, <1>2, Looking, ListUntouched

\* A command of the menu, given for some rows in their order.
LEMMA MenuDone ==
  ASSUME Inv, NEW c \in Commands, NEW allow,
         NEW indexes, indexes \in Seq(DOMAIN rows), Increasing(indexes),
         ListDo(listDo(c, allow, indexes))
  PROVE  /\ Inv'
         /\ \A q \in Package : (\A m \in DOMAIN indexes : q # rows[indexes[m]].package) => Wish(q)' = Wish(q)
<1>1. PICK done, out : done = listDo(c, allow, indexes) /\ out = refused
  OBVIOUS
<1>2. /\ ListOK(done, refused) /\ done.view = view /\ SameRegistry(Lists, done)
      /\ \A q \in Package :
           (\A m \in DOMAIN indexes : q # rows[indexes[m]].package) => Asked(done, q) = Asked(Lists, q)
  BY <1>1, ListDone DEF Inv
<1>3. /\ entries' = done.entries /\ actions' = done.actions /\ rows' = done.rows /\ view' = done.view
      /\ button' = (done.actions # <<>>) /\ menu' = FALSE
      /\ UNCHANGED <<application, window, loadState, refused>>
  BY <1>1, <1>2 DEF ListDo, Set, CloseMenu
<1>4. Lists' = done
  BY <1>2, <1>3 DEF Lists, ListOK, IsList
<1>5. ListOK(Lists, refused)'
  BY <1>1, <1>2, <1>3, <1>4
<1>6. ButtonOK' /\ PointerOK'
  BY <1>3 DEF ButtonOK, PointerOK
<1>7. DOMAIN entries' = DOMAIN entries /\ \A p \in DOMAIN entries : entries'[p].reg = entries[p].reg
  BY <1>2, <1>3 DEF SameRegistry, Lists
<1>8. TxOK'
  BY <1>3 DEF Inv, TxOK, application
<1>9. WindowOK'
  <2>1. entries = NoEntries => entries' = NoEntries
    <3> SUFFICES ASSUME entries = NoEntries PROVE entries' = NoEntries
      OBVIOUS
    <3>1. DOMAIN entries' = {} /\ entries' = [p \in DOMAIN entries' |-> entries'[p]]
      BY <1>2, <1>3, <1>7 DEF NoEntries, ListOK, EntriesOK
    <3> QED BY <3>1 DEF NoEntries
  <2> QED BY <1>3, <2>1 DEF Inv, WindowOK, application
<1>10. FreshOK'
  <2>1. Fresh => Fresh'
    BY <1>3, <1>7 DEF Fresh, application
  <2> QED BY <1>3, <2>1 DEF Inv, FreshOK, application
<1>11. ASSUME NEW q \in Package, \A m \in DOMAIN indexes : q # rows[indexes[m]].package
       PROVE  Wish(q)' = Wish(q)
  <2>1. Asked(done, q) = Asked(Lists, q)
    BY <1>2, <1>11
  <2>2. Wish(q) = Asked(Lists, q)
    BY DEF Wish, Asked, Lists
  <2>3. Wish(q)' = Asked(done, q)
    BY <1>3 DEF Wish, Asked
  <2> QED BY <2>1, <2>2, <2>3
<1> QED BY <1>5, <1>6, <1>8, <1>9, <1>10, <1>11 DEF Inv

LEMMA CurrentGood == ASSUME Inv, NEW c \in Commands, currentDo(c) PROVE Good
<1>1. PICK indexes : indexes = IF current = 0 THEN <<>> ELSE <<current>>
  OBVIOUS
<1>2. ListDo(listDo(c, TRUE, indexes)) /\ menu
  BY <1>1 DEF currentDo, ListDo, Command
<1>3. current # 0 => current \in DOMAIN rows /\ pointed = {rows[current].package}
  BY <1>2 DEF Inv, PointerOK
<1>4. /\ indexes \in Seq(DOMAIN rows) /\ Increasing(indexes)
      /\ \A m \in DOMAIN indexes : indexes[m] = current /\ current # 0
  <2>1. CASE current = 0
    BY <1>1, <2>1 DEF Increasing
  <2>2. CASE current # 0
    BY <1>1, <1>3, <2>2 DEF Increasing
  <2> QED BY <2>1, <2>2
<1>5. PICK allow : allow = TRUE
  OBVIOUS
<1>6. ListDo(listDo(c, allow, indexes))
  BY <1>2, <1>5
<1>7. /\ Inv'
      /\ \A q \in Package : (\A m \in DOMAIN indexes : q # rows[indexes[m]].package) => Wish(q)' = Wish(q)
  BY <1>4, <1>6, MenuDone
<1>8. ASSUME NEW p \in Package PROVE WishKept(p)
  <2>1. CASE p \in pointed
    BY <2>1 DEF WishKept
  <2>2. CASE p \notin pointed
    <3>1. Wish(p)' = Wish(p)
      BY <1>3, <1>4, <1>7, <2>2
    <3> QED BY <3>1 DEF WishKept, SameWish
  <2> QED BY <2>1, <2>2
<1> QED BY <1>7, <1>8 DEF Good

\* The selected rows, in their order.
LEMMA SelectionIsSelected ==
  ASSUME IsSeq(rows)
  PROVE  /\ Selection \in Seq(DOMAIN rows) /\ Increasing(Selection)
         /\ \A m \in DOMAIN Selection : rows[Selection[m]].package \in Selected
<1>1. DOMAIN rows = 1..Len(rows) /\ Len(rows) \in Nat
  BY DEF IsSeq
<1>2. PICK s, K, D : s = [i \in DOMAIN rows |-> i] /\ K = {i \in DOMAIN rows : rows[i].selected}
                     /\ D = DOMAIN rows
  OBVIOUS
<1>3. s \in Seq(D) /\ Increasing(s)
  BY <1>1, <1>2 DEF Increasing
<1>4. IsSeq(s) /\ ToSet(s) \subseteq D
  BY <1>3, OwnElements
<1>5. Selection = Only(s, K)
  BY <1>2 DEF Selection
<1>6. Selection \in Seq(ToSet(s) \cap K) /\ Increasing(Selection)
  BY <1>3, <1>4, <1>5, OnlyKeeps
<1>7. Selection \in Seq(D)
  <2>1. ToSet(s) \cap K \subseteq D
    BY <1>4
  <2> HIDE DEF Selection
  <2> QED BY <1>6, <2>1, SeqMonotonic
<1>8. \A m \in DOMAIN Selection : Selection[m] \in K
  BY <1>6
<1> QED BY <1>2, <1>6, <1>7, <1>8 DEF Selected

LEMMA SelectionGood == ASSUME Inv, NEW c \in Commands, selectionDo(c) PROVE Good
<1>1. IsSeq(rows)
  BY DEF Inv, ListOK, RowsOK, Lists
<1>2. PICK indexes, allow : indexes = Selection /\ allow = FALSE
  OBVIOUS
<1>3. /\ indexes \in Seq(DOMAIN rows) /\ Increasing(indexes)
      /\ \A m \in DOMAIN indexes : rows[indexes[m]].package \in Selected
  BY <1>1, <1>2, SelectionIsSelected
<1>4. ListDo(listDo(c, allow, indexes))
  BY <1>2 DEF selectionDo
<1>5. /\ Inv'
      /\ \A q \in Package : (\A m \in DOMAIN indexes : q # rows[indexes[m]].package) => Wish(q)' = Wish(q)
  BY <1>3, <1>4, MenuDone
<1>6. ASSUME NEW p \in Package PROVE WishKept(p)
  <2>1. CASE p \in Selected
    BY <2>1 DEF WishKept
  <2>2. CASE p \notin Selected
    <3>1. Wish(p)' = Wish(p)
      BY <1>3, <1>5, <2>2
    <3> QED BY <3>1 DEF WishKept, SameWish
  <2> QED BY <2>1, <2>2
<1> QED BY <1>5, <1>6 DEF Good

\* The window is closed: what was asked goes with it.
LEMMA CloseGood ==
  ASSUME Inv, Close, loadState # "Loading" \/ phase' = "teardown", UNCHANGED <<menu, pointed>>, TxOK',
         phase' # "teardown" => (phase # "teardown" /\ tx'.fetch = tx.fetch)
  PROVE  Good
<1>1. /\ ListOK(Lists, refused)' /\ ButtonOK' /\ Fresh' /\ current' = 0 /\ window' = "none"
      /\ loadState' = "Init" /\ entries' = NoEntries
  BY Closed
<1>2. WindowOK'
  BY <1>1 DEF Inv, TxOK, WindowOK
<1>3. FreshOK'
  BY <1>1 DEF FreshOK
<1>4. PointerOK'
  BY <1>1 DEF Inv, PointerOK
<1>5. \A p \in Package : WishKept(p)
  BY <1>1 DEF WishKept
<1> QED BY <1>1, <1>2, <1>3, <1>4, <1>5 DEF Inv, Good

\* A browser that waits is hidden, another one closed.
LEMMA CloseOrHideGood ==
  ASSUME Inv, CloseOrHide, window # "none", phase = "rest", UNCHANGED <<application, menu, pointed>>
  PROVE  Good
<1>1. TxOK'
  BY DEF Inv, TxOK, application
<1>2. CASE loadState = "Loading"
  <2>1. SameList /\ window' = "hidden" /\ UNCHANGED <<loadState, lists, view, current, refused>>
    BY <1>2 DEF CloseOrHide, SameList
  <2>2. WindowOK' /\ FreshOK' /\ PointerOK'
    <3>1. WindowOK'
      BY <1>2, <2>1 DEF Inv, WindowOK, application, lists
    <3>2. FreshOK'
      BY <1>2, <2>1 DEF Inv, FreshOK, Fresh, application, lists
    <3>3. PointerOK'
      BY <2>1 DEF Inv, PointerOK, lists
    <3> QED BY <3>1, <3>2, <3>3
  <2> QED BY <1>1, <2>1, <2>2, ListUntouched
<1>3. CASE loadState # "Loading"
  <2>1. Close /\ UNCHANGED <<menu, pointed>> /\ tx'.fetch = tx.fetch
    BY <1>3 DEF CloseOrHide, application
  <2> QED BY <1>1, <1>3, <2>1, CloseGood
<1> QED BY <1>2, <1>3

LEMMA CancelGood == ASSUME Inv, Cancel PROVE Good
<1>1. CloseOrHide /\ window # "none" /\ phase = "rest" /\ UNCHANGED <<application, menu, pointed>>
  BY DEF Cancel, Command
<1> QED BY <1>1, CloseOrHideGood

LEMMA CloseAfterApplyGood == ASSUME Inv, CloseAfterApply PROVE Good
<1>1. phase = "rest" /\ UNCHANGED <<application, menu, pointed>>
  BY DEF CloseAfterApply
<1>2. CASE window = "none"
  <2>1. UNCHANGED browser /\ SameList
    BY <1>2 DEF CloseAfterApply, browser, SameList
  <2>2. UNCHANGED <<application, window, loadState, entries>>
    BY <1>1, <2>1 DEF browser, lists
  <2>3. PointerOK'
    BY <1>1, <2>1 DEF Inv, PointerOK, browser, lists
  <2> QED BY <2>1, <2>2, <2>3, Looking, ListUntouched
<1>3. CASE window # "none"
  <2>1. CloseOrHide
    BY <1>3 DEF CloseAfterApply
  <2> QED BY <1>1, <1>3, <2>1, CloseOrHideGood
<1> QED BY <1>2, <1>3

\* Apply: what was queued is asked of the transaction, and no more of the entries.
LEMMA AppliedEntries ==
  ASSUME ListOK(Lists, refused)
  PROVE  /\ EntriesOK(Applied) /\ DOMAIN Applied = DOMAIN entries
         /\ \A p \in DOMAIN entries : Applied[p].reg = entries[p].reg
         /\ \A p \in DOMAIN entries : p \notin ToSet(actions) => Applied[p] = entries[p]
         /\ \A p \in DOMAIN entries : Applied[p].target = <<>>
<1>1. /\ EntriesOK(entries)
      /\ \A p \in DOMAIN entries : IsEntry(entries[p])
      /\ \A p \in DOMAIN entries : entries[p].target # <<>> => p \in ToSet(actions)
  BY DEF ListOK, EntriesOK, QueueOK, Lists
<1>2. DOMAIN Applied = DOMAIN entries /\ Applied = [p \in DOMAIN Applied |-> Applied[p]]
  BY DEF Applied
<1>3. ASSUME NEW e, IsEntry(e)
      PROVE  /\ IsEntry([e EXCEPT !.target = <<>>]) /\ [e EXCEPT !.target = <<>>].reg = e.reg
             /\ [e EXCEPT !.target = <<>>].target = <<>>
  BY <1>3 DEF IsEntry
<1>4. ASSUME NEW e, IsEntry(e)
      PROVE  /\ IsEntry([e EXCEPT !.flags = <<>>]) /\ [e EXCEPT !.flags = <<>>].reg = e.reg
             /\ [e EXCEPT !.flags = <<>>].target = e.target
  BY <1>4 DEF IsEntry
<1>5. ASSUME NEW p \in DOMAIN entries
      PROVE  /\ IsEntry(Applied[p]) /\ Applied[p].reg = entries[p].reg /\ Applied[p].target = <<>>
             /\ p \notin ToSet(actions) => Applied[p] = entries[p]
  <2>1. PICK e : e = entries[p] /\ IsEntry(e)
    BY <1>1
  <2>2. Applied[p] = IF p \notin ToSet(actions) THEN e
                     ELSE IF e.target # <<>> THEN [e EXCEPT !.target = <<>>]
                     ELSE [e EXCEPT !.flags = <<>>]
    BY <2>1 DEF Applied
  <2>3. p \notin ToSet(actions) => e.target = <<>>
    BY <1>1, <2>1
  <2>4. CASE p \notin ToSet(actions)
    BY <2>1, <2>2, <2>3, <2>4
  <2>5. CASE p \in ToSet(actions) /\ e.target # <<>>
    <3>1. Applied[p] = [e EXCEPT !.target = <<>>]
      BY <2>2, <2>5
    <3> QED BY <1>3, <2>1, <2>5, <3>1
  <2>6. CASE p \in ToSet(actions) /\ e.target = <<>>
    <3>1. Applied[p] = [e EXCEPT !.flags = <<>>]
      BY <2>2, <2>6
    <3> QED BY <1>4, <2>1, <2>6, <3>1
  <2> QED BY <2>4, <2>5, <2>6
<1> QED BY <1>1, <1>2, <1>5 DEF EntriesOK

\* The rows left once the queue is empty.
LEMMA AppliedRows ==
  ASSUME ListOK(Lists, refused), NEW rs, NEW out,
         \/ rs = rows /\ out = refused \union ToSet(actions)
         \/ rs = ApplyRows(Applied) /\ out = refused
  PROVE  ListOK([entries |-> Applied, actions |-> <<>>, rows |-> rs, view |-> view], out)
<1>1. PICK es : es = Applied
  OBVIOUS
<1>2. /\ EntriesOK(es) /\ DOMAIN es = DOMAIN entries
      /\ \A p \in DOMAIN entries : p \notin ToSet(actions) => es[p] = entries[p]
      /\ \A p \in DOMAIN entries : es[p].target = <<>>
  BY <1>1, AppliedEntries
<1>3. PICK t : t = [entries |-> es, actions |-> <<>>, rows |-> rs, view |-> view]
  OBVIOUS
<1>4. IsList(t) /\ t.entries = es /\ t.actions = <<>> /\ t.rows = rs /\ t.view = view
  BY <1>3 DEF IsList
<1>5. QueueOK(t)
  BY <1>2, <1>4 DEF QueueOK
<1>6. /\ IsSeq(rows)
      /\ \A i \in DOMAIN rows : /\ IsRow(rows[i]) /\ rows[i].package \in DOMAIN entries
                                /\ \/ rows[i].cell = displayState(entries[rows[i].package])
                                   \/ rows[i].package \in refused
      /\ \A i, j \in DOMAIN rows : rows[i].package = rows[j].package => i = j
      /\ view = "queued" => {rows[i].package : i \in DOMAIN rows} \ refused = ToSet(actions) \ refused
      /\ DOMAIN rows = 1..Len(rows) /\ Len(rows) \in Nat
  <2>1. Lists.rows = rows /\ Lists.entries = entries /\ Lists.actions = actions /\ Lists.view = view
    BY DEF Lists
  <2>2. RowsOK(Lists, refused)
    BY DEF ListOK
  <2> QED BY <2>1, <2>2 DEF RowsOK, Shown, IsSeq
<1>7. ToSet(<<>>) = {}
  BY DEF ToSet
<1>8. CASE rs = rows /\ out = refused \union ToSet(actions)
  <2>1. \A i \in DOMAIN rows : \/ rows[i].cell = displayState(es[rows[i].package])
                              \/ rows[i].package \in out
    BY <1>2, <1>6, <1>8
  <2>2. view = "queued" => Shown(t) \ out = ToSet(t.actions) \ out
    BY <1>4, <1>6, <1>7, <1>8 DEF Shown
  <2>3. RowsOK(t, out)
    BY <1>2, <1>4, <1>6, <1>8, <2>1, <2>2 DEF RowsOK
  <2> QED BY <1>1, <1>2, <1>3, <1>4, <1>5, <2>3 DEF ListOK
<1>9. CASE rs = ApplyRows(Applied) /\ out = refused
  <2>1. CASE view = "queued"
    <3>1. rs = <<>>
      BY <1>9, <2>1 DEF ApplyRows
    <3>2. Shown(t) = {} /\ DOMAIN rs = {} /\ IsSeq(rs)
      BY <1>4, <1>7, <3>1 DEF Shown, IsSeq
    <3>3. RowsOK(t, out)
      BY <1>4, <1>7, <3>1, <3>2 DEF RowsOK
    <3> QED BY <1>1, <1>2, <1>3, <1>4, <1>5, <3>3 DEF ListOK
  <2>2. CASE view # "queued"
    <3>1. rs = [i \in DOMAIN rows |-> [rows[i] EXCEPT !.cell = displayState(es[rows[i].package])]]
      BY <1>1, <1>9, <2>2 DEF ApplyRows
    <3>2. ASSUME NEW i \in DOMAIN rows
          PROVE  /\ IsRow(rs[i]) /\ rs[i].package = rows[i].package
                 /\ rs[i].cell = displayState(es[rs[i].package])
      <4>1. PICK r, d : r = rows[i] /\ d = displayState(es[rows[i].package])
        OBVIOUS
      <4>2. rs[i] = [r EXCEPT !.cell = d] /\ IsRow(r)
        BY <1>6, <3>1, <4>1
      <4>3. IsRow(rs[i]) /\ rs[i].package = r.package /\ rs[i].cell = d
        BY <4>2 DEF IsRow
      <4> QED BY <4>1, <4>3
    <3>3. DOMAIN rs = DOMAIN rows
      BY <3>1
    <3>4. IsSeq(rs)
      <4>1. rs = [i \in 1..Len(rows) |-> rs[i]] /\ \A i \in 1..Len(rows) : rs[i] \in ToSet(rs)
        BY <1>6, <3>1, <3>3 DEF ToSet
      <4>2. [i \in 1..Len(rows) |-> rs[i]] \in Seq(ToSet(rs))
        BY <1>6, <4>1
      <4> QED BY <4>1, <4>2 DEF IsSeq
    <3>5. RowsOK(t, out)
      BY <1>2, <1>4, <1>6, <2>2, <3>2, <3>3, <3>4 DEF RowsOK
    <3> QED BY <1>1, <1>2, <1>3, <1>4, <1>5, <3>5 DEF ListOK
  <2> QED BY <2>1, <2>2
<1> QED BY <1>8, <1>9

LEMMA ApplyGood == ASSUME Inv, NEW andClose, Apply(andClose) PROVE Good
<1>1. PICK tasks : tasks = {TaskOf(p, entries[p]) : p \in ToSet(actions)}
  OBVIOUS
<1>2. /\ phase = "rest" /\ menu = FALSE /\ window = "shown"
      /\ tx' = [tx EXCEPT !.open = TRUE, !.tasks = @ \union tasks]
      /\ UNCHANGED <<registry, cached, enabled, menu, pointed>>
  BY <1>1 DEF Apply, Command
<1>3. /\ DOMAIN tx' = DOMAIN NoTransaction /\ tx'.open = TRUE /\ tx'.fetch = tx.fetch
      /\ tx'.refresh = tx.refresh /\ tx'.index = tx.index /\ tasks \subseteq tx'.tasks
  <2>1. DOMAIN tx = DOMAIN NoTransaction
    BY DEF Inv, TxOK
  <2> QED BY <1>2, <2>1 DEF NoTransaction
<1>4. phase' \in {"rest", "ending"}
  BY <1>2 DEF Apply
<1>5. TxOK'
  BY <1>2, <1>3, <1>4 DEF Inv, TxOK
<1>6. PointerOK'
  BY <1>2 DEF PointerOK
<1>7. CASE Close /\ loadState # "Loading"
  <2>1. /\ Close /\ loadState # "Loading" /\ UNCHANGED <<menu, pointed>>
        /\ phase # "teardown" /\ tx'.fetch = tx.fetch
    BY <1>2, <1>3, <1>7
  <2> QED BY <1>5, <2>1, CloseGood
<1>8. ASSUME entries' = Applied, actions' = <<>>, button' = FALSE,
             UNCHANGED <<loadState, view>>, window' \in {"hidden", "shown"},
             \/ rows' = rows /\ refused' = refused \union ToSet(actions)
             \/ rows' = ApplyRows(Applied) /\ refused' = refused
      PROVE  Good
  <2>1. PICK t, out : /\ t = [entries |-> Applied, actions |-> <<>>, rows |-> rows', view |-> view]
                      /\ out = refused'
    OBVIOUS
  <2>2. ListOK(t, out)
    <3>1. PICK rs : rs = rows'
      OBVIOUS
    <3>2. ListOK([entries |-> Applied, actions |-> <<>>, rows |-> rs, view |-> view], out)
      BY <1>8, <2>1, <3>1, AppliedRows DEF Inv
    <3> QED BY <2>1, <3>1, <3>2
  <2>3. Lists' = t
    BY <1>8, <2>1 DEF Lists
  <2>4. ListOK(Lists, refused)'
    BY <2>1, <2>2, <2>3
  <2>5. ButtonOK'
    BY <1>8 DEF ButtonOK
  <2>6. DOMAIN entries' = DOMAIN entries /\ \A p \in DOMAIN entries : entries'[p].reg = entries[p].reg
    BY <1>8, AppliedEntries DEF Inv
  <2>7. WindowOK'
    BY <1>2, <1>3, <1>4, <1>8 DEF Inv, WindowOK
  <2>8. FreshOK'
    <3>1. Fresh => Fresh'
      BY <1>2, <2>6 DEF Fresh
    <3> QED BY <1>2, <1>3, <1>4, <1>8, <3>1 DEF Inv, FreshOK
  <2>9. ASSUME NEW p \in Package PROVE WishKept(p)
    <3>1. CASE p \in ToSet(actions)
      BY <1>1, <1>3, <1>8, <3>1 DEF WishKept
    <3>2. CASE p \notin ToSet(actions)
      <4>1. ToSet(actions') = {}
        BY <1>8 DEF ToSet
      <4>2. Wish(p)' = Wish(p)
        BY <3>2, <4>1 DEF Wish
      <4> QED BY <4>2 DEF WishKept, SameWish
    <3> QED BY <3>1, <3>2
  <2> QED BY <1>5, <1>6, <2>4, <2>5, <2>7, <2>8, <2>9 DEF Inv, Good
<1> QED BY <1>2, <1>7, <1>8 DEF Apply

LEMMA ElsewhereGood == ASSUME Inv, Elsewhere PROVE Good
<1>1. /\ phase = "rest" /\ menu = FALSE /\ tx' = [tx EXCEPT !.open = TRUE, !.other = TRUE]
      /\ UNCHANGED <<browser, Data, menu, pointed>>
  BY DEF Elsewhere, Command
<1>2. /\ DOMAIN tx' = DOMAIN NoTransaction /\ tx'.open = TRUE /\ tx'.fetch = tx.fetch
      /\ tx'.refresh = tx.refresh /\ tx'.index = tx.index
  <2>1. DOMAIN tx = DOMAIN NoTransaction
    BY DEF Inv, TxOK
  <2> QED BY <1>1, <2>1 DEF NoTransaction
<1>3. TxOK'
  BY <1>1, <1>2 DEF Inv, TxOK, Data
<1>4. SameList /\ PointerOK'
  BY <1>1 DEF SameList, PointerOK, browser
<1>5. WindowOK'
  BY <1>1, <1>2 DEF Inv, WindowOK, browser, lists, Data
<1>6. FreshOK'
  BY <1>1, <1>2 DEF Inv, FreshOK, Fresh, browser, lists, Data
<1> QED BY <1>3, <1>4, <1>5, <1>6, ListUntouched

LEMMA ToggleGood == ASSUME Inv, ToggleRepository PROVE Good
<1>1. /\ phase = "rest" /\ phase' = phase /\ menu = FALSE /\ menu' = menu /\ pointed' = pointed
      /\ UNCHANGED <<registry, cached>> /\ enabled' = ~enabled /\ enabled \in BOOLEAN
  BY DEF ToggleRepository, Command, Inv, TxOK
<1>2. CASE tx.open /\ tx' = [tx EXCEPT !.refresh = TRUE] /\ UNCHANGED browser
  <2>1. /\ DOMAIN tx' = DOMAIN NoTransaction /\ tx'.open = tx.open /\ tx'.fetch = tx.fetch
        /\ tx'.refresh = TRUE /\ tx'.index = tx.index
    <3>1. DOMAIN tx = DOMAIN NoTransaction
      BY DEF Inv, TxOK
    <3> QED BY <1>2, <3>1 DEF NoTransaction
  <2>2. TxOK'
    BY <1>1, <2>1 DEF Inv, TxOK
  <2>3. SameList /\ PointerOK'
    BY <1>1, <1>2 DEF SameList, PointerOK, browser
  <2>4. WindowOK'
    BY <1>1, <1>2, <2>1 DEF Inv, WindowOK, browser, lists
  <2>5. FreshOK'
    BY <1>1, <1>2, <2>1 DEF Inv, FreshOK, Fresh, browser, lists
  <2> QED BY <2>2, <2>3, <2>4, <2>5, ListUntouched
<1>3. CASE ~tx.open /\ window # "none" /\ refresh(tx, ~enabled)
  <2>1. PICK t, on : t = tx /\ on = ~enabled
    OBVIOUS
  <2>2. refresh(t, on)
    BY <1>3, <2>1
  <2>3. enabled' \in BOOLEAN /\ enabled' # enabled
    BY <1>1
  <2> QED BY <1>1, <2>1, <2>2, <2>3, RefreshGood
<1>4. CASE UNCHANGED <<tx, browser>>
  <2>1. SameList /\ PointerOK'
    BY <1>1, <1>4 DEF SameList, PointerOK, browser
  <2>2. TxOK'
    BY <1>1, <1>4 DEF Inv, TxOK
  <2>3. WindowOK'
    BY <1>1, <1>4 DEF Inv, WindowOK, browser, lists
  <2>4. FreshOK'
    BY <1>1, <1>4 DEF Inv, FreshOK, Fresh, browser, lists
  <2> QED BY <2>1, <2>2, <2>3, <2>4, ListUntouched
<1> QED BY <1>2, <1>3, <1>4 DEF ToggleRepository

\* A transaction that changed the registry asks for a refresh.
LEMMA CommitGood == ASSUME Inv, Commit PROVE Good
<1>1. /\ tx.open /\ phase \in {"rest", "ending"} /\ phase' \in {"report", "handlers"}
      /\ UNCHANGED <<enabled, browser, menu, pointed>>
  BY DEF Commit
<1>2. PICK done \in SUBSET tx.tasks, index \in Indexes, loaded \in BOOLEAN :
        /\ cached' = index
        /\ tx' = [tx EXCEPT !.refresh = @ \/ done # {} \/ registry' # registry \/ index # cached,
                            !.index = IF tx.fetch /\ loaded THEN {index} ELSE {}]
  BY Zenon DEF Commit
<1>3. PICK r, i : /\ r = (tx.refresh \/ done # {} \/ registry' # registry \/ index # cached)
                  /\ i = IF tx.fetch /\ loaded THEN {index} ELSE {}
  OBVIOUS
<1>4. tx' = [tx EXCEPT !.refresh = r, !.index = i]
  BY <1>2, <1>3
<1>5. r \in BOOLEAN /\ (registry' # registry => r) /\ (tx.refresh => r)
  BY <1>3
<1>6. i \subseteq Indexes
  BY <1>3
<1>7. /\ DOMAIN tx' = DOMAIN NoTransaction /\ tx'.open = tx.open /\ tx'.fetch = tx.fetch
      /\ tx'.refresh = r /\ tx'.index = i
  <2>1. DOMAIN tx = DOMAIN NoTransaction
    BY DEF Inv, TxOK
  <2> QED BY <1>4, <2>1 DEF NoTransaction
<1>8. TxOK'
  BY <1>1, <1>2, <1>5, <1>6, <1>7 DEF Inv, TxOK
<1>9. SameList /\ PointerOK'
  BY <1>1 DEF Inv, SameList, PointerOK, browser, lists
<1>10. WindowOK'
  BY <1>1, <1>7 DEF Inv, WindowOK, browser, lists
<1>11. FreshOK'
  <2>1. UNCHANGED <<entries, loadState, window>>
    BY <1>1 DEF browser, lists
  <2>2. registry' = registry /\ Fresh => Fresh'
    BY <2>1 DEF Fresh
  <2>3. loadState # "DeferredLoaded"
    BY <1>1 DEF Inv, FreshOK
  <2>4. Fresh \/ tx.fetch
    BY <1>1 DEF Inv, FreshOK
  <2> QED BY <1>1, <1>5, <1>7, <2>1, <2>2, <2>3, <2>4 DEF FreshOK
<1> QED BY <1>8, <1>9, <1>10, <1>11, ListUntouched

LEMMA AbortGood == ASSUME Inv, Abort PROVE Good
<1>1. /\ tx.open /\ phase = "rest" /\ phase' = "handlers"
      /\ UNCHANGED <<registry, cached, enabled, browser, menu, pointed>>
  BY DEF Abort
<1>2. PICK loaded \in BOOLEAN :
        tx' = [tx EXCEPT !.cancelled = TRUE, !.index = IF tx.fetch /\ loaded THEN {cached} ELSE {}]
  BY Zenon DEF Abort
<1>3. PICK i : i = IF tx.fetch /\ loaded THEN {cached} ELSE {}
  OBVIOUS
<1>4. i \subseteq Indexes
  BY <1>3 DEF Inv, TxOK
<1>5. /\ DOMAIN tx' = DOMAIN NoTransaction /\ tx'.open = tx.open /\ tx'.fetch = tx.fetch
      /\ tx'.refresh = tx.refresh /\ tx'.index = i
  <2>1. DOMAIN tx = DOMAIN NoTransaction
    BY DEF Inv, TxOK
  <2> QED BY <1>2, <1>3, <2>1 DEF NoTransaction
<1>6. TxOK'
  BY <1>1, <1>4, <1>5 DEF Inv, TxOK
<1>7. SameList /\ PointerOK'
  BY <1>1 DEF Inv, SameList, PointerOK, browser, lists
<1>8. WindowOK'
  BY <1>1, <1>5 DEF Inv, WindowOK, browser, lists
<1>9. FreshOK'
  BY <1>1, <1>5 DEF Inv, FreshOK, Fresh, browser, lists
<1> QED BY <1>6, <1>7, <1>8, <1>9, ListUntouched

LEMMA CloseReportGood == ASSUME Inv, CloseReport PROVE Good
<1>1. /\ phase = "report" /\ phase' = "handlers"
      /\ UNCHANGED <<registry, cached, enabled, tx, browser, menu, pointed>>
  BY DEF CloseReport
<1>2. TxOK'
  BY <1>1 DEF Inv, TxOK
<1>3. SameList /\ PointerOK'
  BY <1>1 DEF Inv, SameList, PointerOK, browser, lists
<1>4. WindowOK'
  BY <1>1 DEF Inv, WindowOK, browser, lists
<1>5. FreshOK'
  BY <1>1 DEF Inv, FreshOK, Fresh, browser, lists
<1> QED BY <1>2, <1>3, <1>4, <1>5, ListUntouched

LEMMA OnFinishGood == ASSUME Inv, OnFinish PROVE Good
<1>1. /\ phase = "handlers" /\ phase' = "teardown"
      /\ UNCHANGED <<registry, cached, enabled, tx, menu, pointed>>
  BY DEF OnFinish
<1>2. TxOK'
  BY <1>1 DEF Inv, TxOK
<1>3. CASE ~tx.fetch /\ UNCHANGED browser
  <2>1. SameList /\ PointerOK'
    BY <1>1, <1>3 DEF Inv, SameList, PointerOK, browser, lists
  <2>2. WindowOK'
    BY <1>1, <1>3 DEF Inv, WindowOK, browser, lists
  <2>3. FreshOK'
    BY <1>1, <1>3 DEF Inv, FreshOK, Fresh, browser, lists
  <2> QED BY <1>2, <2>1, <2>2, <2>3, ListUntouched
<1>4. CASE populate(tx.index, registry) /\ loadState' = AfterLoad /\ UNCHANGED view
  <2>1. PICK indexes : indexes = tx.index
    OBVIOUS
  <2>2. indexes \in SUBSET Indexes /\ populate(indexes, registry)
    BY <1>4, <2>1 DEF Inv, TxOK
  <2>3. QueueOK(Lists) /\ ButtonOK /\ view' = view /\ registry' = registry
    BY <1>1, <1>4 DEF Inv, ListOK
  <2>4. /\ ListOK(Lists, refused)' /\ ButtonOK' /\ Fresh' /\ current' = 0 /\ window' = "shown"
        /\ \A q \in Package : SameWish(Wish(q), Wish(q)') \/ GoneNow(q)
    BY <2>2, <2>3, Populated
  <2>5. WindowOK'
    BY <1>1, <1>4, <2>4 DEF WindowOK, AfterLoad
  <2>6. FreshOK'
    BY <1>1, <1>4, <2>4 DEF FreshOK, AfterLoad
  <2>7. PointerOK'
    BY <2>4 DEF PointerOK
  <2>8. \A p \in Package : WishKept(p)
    BY <1>1, <2>4 DEF WishKept, GoneNow
  <2> QED BY <1>2, <2>4, <2>5, <2>6, <2>7, <2>8 DEF Inv, Good
<1>5. CASE Close
  BY <1>1, <1>2, <1>5, CloseGood
<1> QED BY <1>3, <1>4, <1>5 DEF OnFinish

LEMMA TeardownGood == ASSUME Inv, Teardown PROVE Good
<1>1. /\ phase = "teardown" /\ phase' = "rest" /\ enabled \in BOOLEAN
      /\ UNCHANGED <<registry, cached, enabled, menu, pointed>>
  BY DEF Teardown, Inv, TxOK
<1>2. CASE tx.refresh /\ window # "none" /\ refresh(NoTransaction, enabled)
  <2>1. PICK t, on : t = NoTransaction /\ on = enabled
    OBVIOUS
  <2>2. refresh(t, on) /\ enabled' \in BOOLEAN /\ phase' # phase
    BY <1>1, <1>2, <2>1
  <2> QED BY <1>1, <1>2, <2>1, <2>2, RefreshGood
<1>3. CASE ~(tx.refresh /\ window # "none") /\ tx' = NoTransaction /\ UNCHANGED browser
  <2>1. /\ tx'.open = FALSE /\ tx'.fetch = FALSE /\ tx'.refresh = FALSE /\ tx'.index = {}
        /\ DOMAIN tx' = DOMAIN NoTransaction
    BY <1>3 DEF NoTransaction
  <2>2. TxOK'
    BY <1>1, <2>1 DEF Inv, TxOK
  <2>3. SameList /\ PointerOK'
    BY <1>1, <1>3 DEF Inv, SameList, PointerOK, browser, lists
  <2>4. WindowOK'
    BY <1>1, <1>3, <2>1 DEF Inv, WindowOK, browser, lists
  <2>5. FreshOK'
    <3>1. UNCHANGED <<entries, registry, loadState, window>>
      BY <1>1, <1>3 DEF browser, lists
    <3>2. Fresh
      <4>1. window = "none" => Fresh
        BY DEF Inv, WindowOK, Fresh, NoEntries
      <4> QED BY <1>1, <1>3, <4>1 DEF Inv, FreshOK
    <3>3. loadState # "DeferredLoaded"
      BY <1>3 DEF Inv, FreshOK
    <3> QED BY <3>1, <3>2, <3>3 DEF FreshOK, Fresh
  <2> QED BY <2>2, <2>3, <2>4, <2>5, ListUntouched
<1> QED BY <1>2, <1>3 DEF Teardown

-----------------------------------------------------------------------------
(* The theorems *)

\* All steps together.
LEMMA StepGood == ASSUME Inv, [Next]_vars PROVE Good
<1>1. CASE UNCHANGED vars
  <2>1. SameList /\ UNCHANGED <<application, window, loadState, entries>>
    BY <1>1 DEF vars, SameList, lists
  <2>2. PointerOK'
    BY <1>1 DEF Inv, PointerOK, vars, pointer, lists
  <2> QED BY <2>1, <2>2, Looking, ListUntouched
<1>2. CASE \E v \in Views : SetView(v)
  BY <1>2, SetViewGood
<1>3. CASE \E S \in SUBSET DOMAIN rows : Select(S)
  BY <1>3, SelectGood
<1>4. CASE \E i \in 0..Len(rows) : OpenMenu(i)
  BY <1>4, OpenMenuGood
<1>5. CASE \E c \in Commands : currentDo(c) \/ selectionDo(c)
  BY <1>5, CurrentGood, SelectionGood
<1>6. CASE \E andClose \in BOOLEAN : Apply(andClose)
  BY <1>6, ApplyGood
<1> QED BY <1>1, <1>2, <1>3, <1>4, <1>5, <1>6, BrowseGood, RefreshButtonGood, DismissMenuGood,
           CancelGood, CloseAfterApplyGood, ElsewhereGood, ToggleGood, CommitGood, AbortGood,
           CloseReportGood, OnFinishGood, TeardownGood DEF Next

\* The invariant holds in every state: what the transaction fetches is what the
\* browser waits for, the entries are those of the registry unless a handler or a
\* refresh is still to come, and rows and queue belong to the entries.
THEOREM BrowserInv == Spec => []Inv
<1>1. Inv /\ [Next]_vars => Inv'
  BY StepGood DEF Good
<1> QED BY <1>1, InitInv, PTL DEF Spec

\* The handler that a refresh left with the transaction finds its dialog alive and
\* waiting for it, whatever was closed, applied or toggled meanwhile.
THEOREM HandlerFindsItsBrowser == Spec => []HandlerHasItsBrowser
<1>1. Inv => HandlerHasItsBrowser
  BY DEF Inv, WindowOK, HandlerHasItsBrowser
<1> QED BY <1>1, BrowserInv, PTL

\* At rest, a browser that is shown has the entries of the registry: no refresh
\* that mattered is skipped, one that DeferredLoaded skips found nothing new.
THEOREM BrowserShowsTheRegistry == Spec => []ShowsTheRegistry
<1>1. Inv => ShowsTheRegistry
  <2> SUFFICES ASSUME Inv, ~tx.open, window = "shown" PROVE ShowsTheRegistry
    BY DEF ShowsTheRegistry
  <2>1. ~tx.fetch /\ phase = "rest"
    BY DEF Inv, TxOK
  <2>2. loadState # "Loading" /\ Fresh
    BY <2>1 DEF Inv, WindowOK, FreshOK
  <2> QED BY <2>2 DEF ShowsTheRegistry, Fresh
<1> QED BY <1>1, BrowserInv, PTL

\* The rows, the view of what is queued and the button tell what Apply would do.
THEOREM RowsTellTheQueue == Spec => []ListTellsTheQueue
<1>1. Inv => ListTellsTheQueue
  <2> SUFFICES ASSUME Inv PROVE ListTellsTheQueue
    OBVIOUS
  <2>1. Lists.rows = rows /\ Lists.entries = entries /\ Lists.actions = actions /\ Lists.view = view
    BY DEF Lists
  <2>2. RowsOK(Lists, refused) /\ QueueOK(Lists) /\ ButtonOK
    BY DEF Inv, ListOK
  <2> QED BY <2>1, <2>2 DEF ListTellsTheQueue, RowsOK, QueueOK, ButtonOK, Shown
<1> QED BY <1>1, BrowserInv, PTL

\* What was asked of a package changes by a command given for it, when it becomes a
\* task, with the window, or when what was asked for is gone: never because rows were
\* removed before it, the list was made again, or the menu was about another row.
THEOREM QueueKeepsWishes == Spec => WishesAreKept
<1>1. Inv /\ [Next]_vars => [\A p \in Package : WishKept(p)]_vars
  BY StepGood DEF Good
<1> QED BY <1>1, BrowserInv, PTL DEF Spec, WishesAreKept, WishKept

-----------------------------------------------------------------------------
(* The tree of a filter *)

Flags == {"start", "end", "literal", "full", "not"}

TokenTexts == {w.text : w \in Words} \cup UNION {{s[i] : i \in DOMAIN s} : s \in Synonyms}

Nodes ==
  [type : {"all", "any", "token"}, flags : SUBSET Flags, text : TokenTexts \cup {<<>>}, parent : Nat]

Levels ==
  [operands : SUBSET Universe, last : SUBSET Universe, not : BOOLEAN, or : BOOLEAN, empty : BOOLEAN]

\* Every node but the root has a group, and groups do not go round in circles.
Tree(ns) ==
  /\ ns \in Seq(Nodes) /\ Root \in DOMAIN ns /\ ns[Root] = Group("all", {}, 0)
  /\ \A n \in DOMAIN ns : n # Root => ns[n].parent \in DOMAIN ns
  /\ \E max \in Nat : \E rank \in [DOMAIN ns -> 0..max] :
       \A n \in DOMAIN ns : n # Root => rank[n] < rank[ns[n].parent]

\* What match says of a node when it says v of those in it.
Value(ns, row, v, n) ==
  IF ns[n].type = "token" THEN matchToken(ns[n].text, ns[n].flags, row)
  ELSE matchGroup(ns[n].type, ns[n].flags, {v[c] : c \in Children(ns, n)})

Solves(ns, row, v) == v = [n \in DOMAIN ns |-> Value(ns, row, v, n)]

\* Groups of type MatchAny that OR opened in group a, the last one in it.
OrChain(ns, a, D) ==
  /\ D \subseteq DOMAIN ns
  /\ \A c \in D : ns[c].type = "any" /\ ns[c].parent \in D \cup {a}
  /\ D # {} => /\ Children(ns, a) # {} /\ Max(Children(ns, a)) \in D
               /\ \A c \in D : ns[c].parent = a => c = Max(Children(ns, a))

\* Where the next word goes.
Spot(a, D) == IF D = {} THEN {a} ELSE D

\* The groups tell what the level means, but for what a group in H will tell.
Means(ns, v, row, a, D, H, level) ==
  LET K == Children(ns, a)
      before == \A n \in K \ {Max(K)} : v[n]
      some == \E n \in DOMAIN ns \ (D \cup H) : ns[n].parent \in D /\ v[n]
  IN IF K = {} THEN row \in level.operands /\ row \in level.last
     ELSE IF D = {} /\ H # {} THEN before <=> row \in level.operands /\ row \in level.last
     ELSE /\ before <=> row \in level.operands
          /\ IF D = {} THEN v[Max(K)] <=> row \in level.last ELSE some <=> row \in level.last

\* The group that the next parenthesis opened, if any.
Hole(A, k) == {A[i] : i \in DOMAIN A \cap {k + 1}}

OrAfter(ls, j, k) == IF k < Len(ls) THEN ls[k + 1].or ELSE j

\* A: the group of each open parenthesis, C: the groups that OR opened in it.
Opened(ns, g, ls, j, A, C) ==
  /\ A \in [1..Len(ls) -> DOMAIN ns] /\ C \in [1..Len(ls) -> SUBSET DOMAIN ns]
  /\ A[1] = Root /\ g \in Spot(A[Len(ls)], C[Len(ls)])
  /\ \A k \in 1..Len(ls) :
       /\ ns[A[k]].type = "all" /\ ("not" \in ns[A[k]].flags <=> ls[k].not)
       /\ OrChain(ns, A[k], C[k]) /\ (C[k] # {} <=> OrAfter(ls, j, k))
  /\ \A k \in 1..Len(ls) - 1 :
       /\ ns[A[k + 1]].parent \in Spot(A[k], C[k])
       /\ C[k] = {} => A[k + 1] = Max(Children(ns, A[k]))
  /\ \A i, k \in 1..Len(ls) : i # k => A[i] # A[k] /\ C[i] \cap C[k] = {}

\* The first levels mean what their groups tell.
AllMean(ns, ls, A, C, top) ==
  \A row \in Universe : \A v : Solves(ns, row, v) =>
    \A k \in 1..top : Means(ns, v, row, A[k], C[k], Hole(A, k), ls[k])

\* The levels as the groups tell them.
Holds(ns, g, ls, j, A, C) ==
  /\ Tree(ns) /\ ls \in Seq(Levels) /\ Len(ls) \in Nat /\ Len(ls) >= 1
  /\ Opened(ns, g, ls, j, A, C) /\ AllMean(ns, ls, A, C, Len(ls))
  /\ ls[Len(ls)].empty <=> Children(ns, A[Len(ls)]) = {}

Told(ns, g, ls, j) == \E A, C : Holds(ns, g, ls, j, A, C)

FilterInv ==
  /\ flags \subseteq {"not"} /\ negate \in BOOLEAN /\ join \in BOOLEAN
  /\ ("not" \in flags <=> negate)
  /\ Told(nodes, group, levels, join)

-----------------------------------------------------------------------------
(* Functions that are defined by what they are at lower ranks *)

Ranks(D, rank, max) == max \in Nat /\ rank \in [D -> 0..max]

\* eq says what a function has at n by what it has at lower ranks.
LooksDown(D, V, rank, eq) ==
  /\ eq \in [D -> [[D -> V] -> V]]
  /\ \A n \in D : \A f, g \in [D -> V] :
       (\A m \in D : rank[m] < rank[n] => f[m] = g[m]) => eq[n][f] = eq[n][g]

Obeys(D, V, eq, f) == f \in [D -> V] /\ f = [n \in D |-> eq[n][f]]

\* Some function has, at each place, what eq says of it: of the functions that are right
\* below rank k, one exists for every k.
LEMMA Recursion ==
  ASSUME NEW D, NEW V, V # {}, NEW rank, NEW max, Ranks(D, rank, max), NEW eq, LooksDown(D, V, rank, eq)
  PROVE  \E f : Obeys(D, V, eq, f)
<1> USE DEF Ranks, LooksDown
<1> DEFINE Below(f, k) == \A n \in D : rank[n] < k => f[n] = eq[n][f]
           S == {k \in 0..max + 1 : \E f \in [D -> V] : Below(f, k)}
<1>1. 0 \in S
  <2>1. PICK x \in V : TRUE
    OBVIOUS
  <2>2. [n \in D |-> x] \in [D -> V] /\ Below([n \in D |-> x], 0)
    OBVIOUS
  <2> QED BY <2>2
<1>2. \A k \in 1..max + 1 : k - 1 \in S => k \in S
  <2> SUFFICES ASSUME NEW k \in 1..max + 1, k - 1 \in S PROVE k \in S
    OBVIOUS
  <2>1. PICK f \in [D -> V] : Below(f, k - 1)
    OBVIOUS
  <2> DEFINE g == [n \in D |-> eq[n][f]]
  <2>2. g \in [D -> V]
    OBVIOUS
  <2>3. \A n \in D : rank[n] < k - 1 => g[n] = f[n]
    BY <2>1
  <2>4. ASSUME NEW n \in D, rank[n] < k PROVE g[n] = eq[n][g]
    <3>1. g[n] = eq[n][f]
      OBVIOUS
    <3> HIDE DEF g
    <3>2. \A m \in D : rank[m] < rank[n] => f[m] = g[m]
      BY <2>3, <2>4
    <3> QED BY <2>2, <3>1, <3>2
  <2> HIDE DEF g
  <2> QED BY <2>2, <2>4
<1> HIDE DEF S
<1>3. max + 1 \in S
  <2> DEFINE n == max + 1
  <2>1. n \in Nat /\ n \in 0..n
    OBVIOUS
  <2> HIDE DEF n
  <2>2. \A k \in 0..n : k \in S
    BY <1>1, <1>2, <2>1, CountUp DEF n
  <2> QED BY <2>1, <2>2 DEF n
<1>4. PICK f \in [D -> V] : Below(f, max + 1)
  BY <1>3 DEF S
<1>5. \A n \in D : f[n] = eq[n][f]
  BY <1>4
<1> QED BY <1>5 DEF Obeys

\* f and g agree at n if they do at lower ranks.
AgreesUp(D, rank, f, g) ==
  \A n \in D : (\A m \in D : rank[m] < rank[n] => f[m] = g[m]) => f[n] = g[n]

\* No two functions are right at every place.
LEMMA RecursionOnce ==
  ASSUME NEW D, NEW rank, NEW max, Ranks(D, rank, max), NEW f, NEW g, AgreesUp(D, rank, f, g)
  PROVE  \A n \in D : f[n] = g[n]
<1> USE DEF Ranks, AgreesUp
<1> SUFFICES ASSUME NEW n \in D, f[n] # g[n] PROVE FALSE
  OBVIOUS
<1> DEFINE T == {rank[m] : m \in {m \in D : f[m] # g[m]}}
<1>1. T \in SUBSET Nat /\ T # {}
  OBVIOUS
<1>2. PICK t \in T : \A u \in T : t <= u
  <2> HIDE DEF T
  <2> QED BY <1>1, LeastNat
<1>3. PICK m \in D : f[m] # g[m] /\ rank[m] = t
  OBVIOUS
<1>4. \A o \in D : rank[o] < rank[m] => f[o] = g[o]
  <2>1. \A o \in D : f[o] # g[o] => rank[o] \in T
    OBVIOUS
  <2>2. \A o \in D : rank[o] \in Nat
    OBVIOUS
  <2> HIDE DEF T
  <2> QED BY <1>2, <1>3, <2>1, <2>2
<1> QED BY <1>3, <1>4

-----------------------------------------------------------------------------
(* Reading the tree *)

\* What match says of a node is TRUE or FALSE, whatever is said of other nodes.
LEMMA ValueIsBoolean ==
  ASSUME NEW ns, NEW row, NEW v, NEW n
  PROVE  Value(ns, row, v, n) \in BOOLEAN
<1>1. matchToken(ns[n].text, ns[n].flags, row) \in BOOLEAN
  BY DEF matchToken
<1>2. matchGroup(ns[n].type, ns[n].flags, {v[c] : c \in Children(ns, n)}) \in BOOLEAN
  <2> DEFINE results == {v[c] : c \in Children(ns, n)}
             not == "not" \in ns[n].flags
             all == FALSE \notin results
  <2>1. (all # not) \in BOOLEAN /\ (TRUE \in results) \in BOOLEAN
    OBVIOUS
  <2>2. CASE ns[n].type = "any"
    BY <2>1, <2>2 DEF matchGroup
  <2>3. CASE ns[n].type # "any"
    BY <2>1, <2>3 DEF matchGroup
  <2> QED BY <2>2, <2>3
<1> QED BY <1>1, <1>2 DEF Value

\* The nodes in a group.
LEMMA ChildrenAre ==
  ASSUME NEW ns, NEW n
  PROVE  Children(ns, n) = {c \in DOMAIN ns : ns[c].parent = n}
BY DEF Children

\* match has a value for each node, by those of its children.
LEMMA Solved ==
  ASSUME NEW ns, Tree(ns), NEW row
  PROVE  \E v \in [DOMAIN ns -> BOOLEAN] : Solves(ns, row, v) /\ match(ns, row) = v[Root]
<1> DEFINE D == DOMAIN ns
           eq == [n \in D |-> [f \in [D -> BOOLEAN] |-> Value(ns, row, f, n)]]
<1>1. PICK max \in Nat : \E rank \in [D -> 0..max] :
        \A n \in D : n # Root => rank[n] < rank[ns[n].parent]
  BY DEF Tree
<1>2. PICK rank \in [D -> 0..max] : \A n \in D : n # Root => rank[n] < rank[ns[n].parent]
  BY <1>1
<1>3. eq \in [D -> [[D -> BOOLEAN] -> BOOLEAN]]
  BY ValueIsBoolean
<1>4. ASSUME NEW n \in D, NEW f \in [D -> BOOLEAN], NEW g \in [D -> BOOLEAN],
             \A m \in D : rank[m] < rank[n] => f[m] = g[m]
      PROVE  eq[n][f] = eq[n][g]
  <2>1. \A c \in Children(ns, n) : c \in D /\ rank[c] < rank[n]
    <3>1. ns[Root].parent = 0 /\ 0 \notin D
      BY DEF Tree, Group, Nodes
    <3> QED BY <1>2, <3>1 DEF Children
  <2>2. {f[c] : c \in Children(ns, n)} = {g[c] : c \in Children(ns, n)}
    BY <1>4, <2>1
  <2>3. Value(ns, row, f, n) = Value(ns, row, g, n)
    BY <2>2 DEF Value
  <2> QED BY <2>3
<1>5. PICK f : Obeys(D, BOOLEAN, eq, f)
  <2> HIDE DEF eq, D
  <2>1. LooksDown(D, BOOLEAN, rank, eq)
    BY <1>3, <1>4 DEF LooksDown
  <2>2. BOOLEAN # {} /\ Ranks(D, rank, max)
    BY DEF Ranks
  <2> QED BY <2>1, <2>2, Recursion
<1>6. f \in [D -> BOOLEAN] /\ f = [n \in D |-> Value(ns, row, f, n)]
  BY <1>5 DEF Obeys
<1> DEFINE Equals(g) == g = [n \in DOMAIN ns |->
             IF ns[n].type = "token" THEN matchToken(ns[n].text, ns[n].flags, row)
             ELSE matchGroup(ns[n].type, ns[n].flags, {g[c] : c \in Children(ns, n)})]
<1>7. Equals(f)
  BY <1>6 DEF Value
<1>8. PICK v : Equals(v) /\ match(ns, row) = v[Root]
  <2> DEFINE m == CHOOSE g : Equals(g)
  <2>1. Equals(m)
    <3> HIDE DEF Equals
    <3> QED BY <1>7, Zenon
  <2>2. match(ns, row) = m[Root]
    BY DEF match
  <2> HIDE DEF m, Equals
  <2> QED BY <2>1, <2>2
<1>9. v = [n \in D |-> Value(ns, row, v, n)]
  BY <1>8 DEF Value
<1>10. v \in [D -> BOOLEAN]
  BY <1>9, ValueIsBoolean
<1> QED BY <1>8, <1>9, <1>10 DEF Solves

\* What a group says.
LEMMA GroupSays ==
  ASSUME NEW ns, NEW row, NEW v, Solves(ns, row, v), NEW n \in DOMAIN ns
  PROVE  /\ v \in [DOMAIN ns -> BOOLEAN]
         /\ ns[n].type = "all" =>
              v[n] = ((\A c \in Children(ns, n) : v[c]) # ("not" \in ns[n].flags))
         /\ ns[n].type = "any" => v[n] = (\E c \in Children(ns, n) : v[c])
<1>1. v \in [DOMAIN ns -> BOOLEAN] /\ v[n] = Value(ns, row, v, n)
  BY ValueIsBoolean DEF Solves
<1>2. \A c \in Children(ns, n) : v[c] \in BOOLEAN
  BY <1>1 DEF Children
<1>3. TRUE \in {v[c] : c \in Children(ns, n)} <=> \E c \in Children(ns, n) : v[c]
  BY <1>2
<1>4. FALSE \notin {v[c] : c \in Children(ns, n)} <=> \A c \in Children(ns, n) : v[c]
  BY <1>2
<1>5. ns[n].type = "all" =>
        v[n] = ((\A c \in Children(ns, n) : v[c]) # ("not" \in ns[n].flags))
  BY <1>1, <1>4 DEF Value, matchGroup
<1>6. ns[n].type = "any" => v[n] = (\E c \in Children(ns, n) : v[c])
  BY <1>1, <1>3 DEF Value, matchGroup
<1> QED BY <1>1, <1>5, <1>6

\* Nodes away from a path to the root keep their values when only the path changes.
LEMMA ElsewhereSame ==
  ASSUME NEW ns, NEW r, Tree(ns), NEW row, NEW v, NEW w, Solves(ns, row, v), Solves(r, row, w),
         NEW P \in SUBSET DOMAIN ns,
         \A n \in DOMAIN ns \ P :
           /\ n \in DOMAIN r /\ Children(r, n) = Children(ns, n) /\ Children(ns, n) \cap P = {}
           /\ r[n].type = ns[n].type /\ r[n].flags = ns[n].flags /\ r[n].text = ns[n].text
  PROVE  \A n \in DOMAIN ns \ P : w[n] = v[n]
<1> DEFINE D == DOMAIN ns \ P
<1>1. PICK max \in Nat : \E rank \in [DOMAIN ns -> 0..max] :
        \A n \in DOMAIN ns : n # Root => rank[n] < rank[ns[n].parent]
  BY DEF Tree
<1>2. PICK rank \in [DOMAIN ns -> 0..max] :
        \A n \in DOMAIN ns : n # Root => rank[n] < rank[ns[n].parent]
  BY <1>1
<1>3. ASSUME NEW n \in D \ P, \A m \in D \ P : rank[m] < rank[n] => w[m] = v[m]
      PROVE  w[n] = v[n]
  <2>1. \A c \in Children(ns, n) : c \in D /\ rank[c] < rank[n]
    <3>1. ns[Root].parent = 0 /\ 0 \notin DOMAIN ns
      BY DEF Tree, Group, Nodes
    <3> QED BY <1>2, <3>1 DEF Children
  <2>2. {w[c] : c \in Children(r, n)} = {v[c] : c \in Children(ns, n)}
    BY <1>3, <2>1
  <2>3. w[n] = Value(r, row, w, n) /\ v[n] = Value(ns, row, v, n)
    BY DEF Solves
  <2> QED BY <2>2, <2>3 DEF Value
<1>4. \A n \in D : (\A m \in D : rank[m] < rank[n] => w[m] = v[m]) => w[n] = v[n]
  BY <1>3
<1> DEFINE low == [n \in D |-> rank[n]]
<1>5. AgreesUp(D, low, w, v) /\ Ranks(D, low, max)
  BY <1>4 DEF AgreesUp, Ranks
<1> HIDE DEF D, low
<1>6. \A n \in D : w[n] = v[n]
  BY <1>5, RecursionOnce
<1> QED BY <1>6 DEF D

\* A set of places in a sequence has a last one, which Max gives.
LEMMA MaxIs ==
  ASSUME NEW S, NEW n \in Nat, S \subseteq 1..n, S # {}
  PROVE  Max(S) \in S /\ \A x \in S : x <= Max(S)
<1> DEFINE T == {n - x : x \in S}
<1>1. T \in SUBSET Nat /\ T # {}
  <2>1. \A x \in S : n - x \in Nat
    <3> TAKE x \in S
    <3>1. x \in 1..n
      OBVIOUS
    <3> QED BY <3>1
  <2>2. PICK x \in S : TRUE
    OBVIOUS
  <2>3. n - x \in T
    BY <2>2
  <2> QED BY <2>1, <2>3
<1>2. PICK m \in T : \A k \in T : m <= k
  <2> HIDE DEF T
  <2> QED BY <1>1, LeastNat
<1>3. PICK x \in S : m = n - x
  BY <1>2
<1>4. ASSUME NEW y \in S PROVE x >= y
  <2>1. n - y \in T /\ x \in Nat /\ y \in Nat /\ m \in Nat
    BY <1>1, <1>3
  <2> HIDE DEF T
  <2>2. m <= n - y
    BY <1>2, <2>1
  <2> QED BY <1>3, <2>1, <2>2
<1>5. Max(S) \in S /\ \A y \in S : Max(S) >= y
  BY <1>3, <1>4 DEF Max
<1> QED BY <1>5

\* No other place is the last one.
LEMMA MaxUnique ==
  ASSUME NEW S, NEW n \in Nat, S \subseteq 1..n, NEW m \in S, \A x \in S : x <= m
  PROVE  Max(S) = m
<1>1. Max(S) \in S /\ \A x \in S : x <= Max(S)
  BY MaxIs
<1>2. \A x \in S : x \in Nat
  OBVIOUS
<1>3. m \in Nat /\ Max(S) \in Nat /\ m <= Max(S) /\ Max(S) <= m
  BY <1>1, <1>2
<1> QED BY <1>3

\* What a tree is, said of its nodes.
LEMMA TreeTyped ==
  ASSUME NEW ns, Tree(ns)
  PROVE  /\ Len(ns) \in Nat /\ Len(ns) >= 1 /\ DOMAIN ns = 1..Len(ns) /\ Root \in DOMAIN ns
         /\ \A n \in DOMAIN ns : ns[n] \in Nodes
         /\ ns[Root].type = "all" /\ ns[Root].flags = {} /\ ns[Root].parent = 0
         /\ \A n : Children(ns, n) \subseteq 1..Len(ns)
         /\ \A n, c : c \in Children(ns, n) <=> c \in DOMAIN ns /\ ns[c].parent = n
BY DEF Tree, Group, Root, Children

\* The groups of a chain say whether something in them does.
LEMMA ChainSays ==
  ASSUME NEW ns, Tree(ns), NEW row, NEW v, Solves(ns, row, v), NEW a, NEW D, OrChain(ns, a, D), D # {}
  PROVE  v[Max(Children(ns, a))] <=> \E n \in DOMAIN ns \ D : ns[n].parent \in D /\ v[n]
<1> DEFINE top == Max(Children(ns, a))
           some == \E n \in DOMAIN ns \ D : ns[n].parent \in D /\ v[n]
<1>1. PICK max \in Nat : \E rank \in [DOMAIN ns -> 0..max] :
        \A n \in DOMAIN ns : n # Root => rank[n] < rank[ns[n].parent]
  BY DEF Tree
<1>2. PICK rank \in [DOMAIN ns -> 0..max] :
        \A n \in DOMAIN ns : n # Root => rank[n] < rank[ns[n].parent]
  BY <1>1
<1>3. /\ D \subseteq DOMAIN ns /\ top \in D
      /\ \A c \in D : c # Root /\ ns[c].parent \in D \cup {a} /\ (ns[c].parent = a => c = top)
  BY TreeTyped DEF OrChain
<1>4. \A c \in D : v[c] <=> \E m \in DOMAIN ns : ns[m].parent = c /\ v[m]
  <2> TAKE c \in D
  <2>1. v[c] = (\E m \in Children(ns, c) : v[m])
    BY GroupSays DEF OrChain
  <2> QED BY <2>1 DEF Children
<1>5. ASSUME v[top] PROVE some
  <2> DEFINE T == {rank[c] : c \in {c \in D : v[c]}}
  <2>1. T \in SUBSET Nat /\ T # {}
    BY <1>3, <1>5
  <2>2. PICK t \in T : \A k \in T : t <= k
    <3> HIDE DEF T
    <3> QED BY <2>1, LeastNat
  <2>3. PICK c \in D : v[c] /\ rank[c] = t
    BY <2>2
  <2>4. PICK m \in DOMAIN ns : ns[m].parent = c /\ v[m]
    BY <1>4, <2>3
  <2>5. m # Root
    BY <2>4, <1>3, TreeTyped
  <2>6. rank[m] < t /\ rank[m] \in Nat /\ t \in Nat
    BY <1>2, <1>3, <2>3, <2>4, <2>5
  <2>7. m \notin D
    BY <2>2, <2>4, <2>6
  <2> QED BY <2>3, <2>4, <2>7
<1>6. ASSUME some PROVE v[top]
  <2> DEFINE T == {max - rank[c] : c \in {c \in D : v[c]}}
  <2>1. PICK c \in D : v[c]
    <3>1. PICK n \in DOMAIN ns \ D : ns[n].parent \in D /\ v[n]
      BY <1>6
    <3> QED BY <1>4, <3>1
  <2>2. T \in SUBSET Nat /\ T # {}
    BY <1>3, <2>1
  <2>3. PICK t \in T : \A k \in T : t <= k
    <3> HIDE DEF T
    <3> QED BY <2>2, LeastNat
  <2>4. PICK b \in D : v[b] /\ max - rank[b] = t
    BY <2>3
  <2>5. CASE ns[b].parent = a
    BY <1>3, <2>4, <2>5
  <2>6. CASE ns[b].parent \in D
    <3>1. v[ns[b].parent]
      BY <1>3, <1>4, <2>4, <2>6
    <3>2. max - rank[ns[b].parent] \in T
      BY <2>6, <3>1
    <3>3. rank[b] < rank[ns[b].parent] /\ rank[b] \in 0..max /\ rank[ns[b].parent] \in 0..max
      BY <1>2, <1>3, <2>6
    <3>4. t <= max - rank[ns[b].parent]
      <4> HIDE DEF T
      <4> QED BY <2>3, <3>2
    <3> QED BY <2>4, <3>3, <3>4
  <2> QED BY <1>3, <2>5, <2>6
<1> QED BY <1>5, <1>6

-----------------------------------------------------------------------------
(* What a level means *)

\* The last child of a group tells the last operand, also when that is a chain.
LEMMA LastSays ==
  ASSUME NEW ns, Tree(ns), NEW row, NEW v, Solves(ns, row, v), NEW a, NEW D, OrChain(ns, a, D),
         NEW level, Children(ns, a) # {}
  PROVE  Means(ns, v, row, a, D, {}, level) <=>
           /\ (\A n \in Children(ns, a) \ {Max(Children(ns, a))} : v[n]) <=> row \in level.operands
           /\ v[Max(Children(ns, a))] <=> row \in level.last
<1> DEFINE K == Children(ns, a)
           before == \A n \in K \ {Max(K)} : v[n]
           some == \E n \in DOMAIN ns \ (D \cup {}) : ns[n].parent \in D /\ v[n]
<1>1. CASE D = {}
  BY <1>1 DEF Means
<1>2. CASE D # {}
  <2>1. v[Max(K)] <=> some
    <3>1. v[Max(K)] <=> \E n \in DOMAIN ns \ D : ns[n].parent \in D /\ v[n]
      BY <1>2, ChainSays
    <3> QED BY <3>1
  <2>2. Means(ns, v, row, a, D, {}, level)
        <=> (before <=> row \in level.operands) /\ (some <=> row \in level.last)
    BY <1>2 DEF Means
  <2> HIDE DEF K, before, some
  <2>3. Means(ns, v, row, a, D, {}, level)
        <=> (before <=> row \in level.operands) /\ (v[Max(K)] <=> row \in level.last)
    BY <2>1, <2>2
  <2> QED BY <2>3 DEF K, before
<1> QED BY <1>1, <1>2

\* A closed parenthesis matches what its level means.
LEMMA LevelSays ==
  ASSUME NEW ns, Tree(ns), NEW row \in Universe, NEW v, Solves(ns, row, v), NEW a \in DOMAIN ns,
         ns[a].type = "all", NEW D, OrChain(ns, a, D), NEW level \in Levels,
         "not" \in ns[a].flags <=> level.not, Means(ns, v, row, a, D, {}, level)
  PROVE  v[a] <=> row \in LevelRows(level)
<1> DEFINE K == Children(ns, a)
           each == \A c \in K : v[c]
<1>1. v[a] = (each # ("not" \in ns[a].flags))
  BY GroupSays
<1>2. each <=> row \in level.operands /\ row \in level.last
  <2>1. CASE K = {}
    BY <2>1 DEF Means
  <2>2. CASE K # {}
    <3>1. Max(K) \in K
      BY <2>2, TreeTyped, MaxIs
    <3>2. (\A n \in K \ {Max(K)} : v[n]) <=> row \in level.operands
      BY <2>2, LastSays
    <3>3. v[Max(K)] <=> row \in level.last
      BY <2>2, LastSays
    <3> HIDE DEF K
    <3> QED BY <3>1, <3>2, <3>3
  <2> QED BY <2>1, <2>2
<1>3. level.not \in BOOLEAN /\ level.operands \subseteq Universe /\ level.last \subseteq Universe
  BY DEF Levels
<1>4. v[a] \in BOOLEAN /\ each \in BOOLEAN
  BY GroupSays
<1> HIDE DEF each
<1>5. CASE level.not = TRUE
  <2>1. v[a] <=> ~each
    BY <1>1, <1>4, <1>5
  <2>2. LevelRows(level) = Universe \ (level.operands \cap level.last)
    BY <1>5 DEF LevelRows, Negated
  <2> QED BY <1>2, <2>1, <2>2
<1>6. CASE level.not = FALSE
  <2>1. v[a] <=> each
    BY <1>1, <1>4, <1>6
  <2>2. LevelRows(level) = level.operands \cap level.last
    BY <1>6 DEF LevelRows, Negated
  <2> QED BY <1>2, <2>1, <2>2
<1> QED BY <1>3, <1>5, <1>6

\* What the group in a hole says is the last operand of the level.
LEMMA HoleFilled ==
  ASSUME NEW ns, Tree(ns), NEW row \in Universe, NEW v, Solves(ns, row, v), NEW a, NEW D,
         OrChain(ns, a, D), NEW level \in Levels, NEW h \in DOMAIN ns \ D,
         ns[h].parent \in Spot(a, D), D = {} => h = Max(Children(ns, a)),
         Means(ns, v, row, a, D, {h}, level), NEW matched, v[h] <=> row \in matched,
         NEW or \in BOOLEAN, or <=> D # {}
  PROVE  Means(ns, v, row, a, {}, {}, WithOperand(level, or, matched))
<1> DEFINE K == Children(ns, a)
           new == WithOperand(level, or, matched)
<1>1. K # {}
  <2>1. CASE D = {}
    BY <2>1, TreeTyped DEF Spot
  <2>2. CASE D # {}
    BY <2>2 DEF OrChain
  <2> QED BY <2>1, <2>2
<1>2. /\ new.operands = IF or THEN level.operands ELSE level.operands \cap level.last
      /\ new.last = IF or THEN level.last \cup matched ELSE matched
  BY DEF WithOperand, Levels
<1>3. (\A n \in K \ {Max(K)} : v[n]) <=> row \in new.operands
  BY <1>1, <1>2 DEF Means
<1>4. v[Max(K)] <=> row \in new.last
  <2>1. CASE D = {}
    BY <1>2, <2>1
  <2>2. CASE D # {}
    <3>1. v[Max(K)] <=> \E n \in DOMAIN ns \ D : ns[n].parent \in D /\ v[n]
      BY <2>2, ChainSays
    <3>2. (\E n \in DOMAIN ns \ (D \cup {h}) : ns[n].parent \in D /\ v[n]) <=> row \in level.last
      BY <1>1, <2>2 DEF Means
    <3>3. ns[h].parent \in D
      BY <2>2 DEF Spot
    <3> HIDE DEF K, new
    <3> QED BY <1>2, <2>2, <3>1, <3>2, <3>3
  <2> QED BY <2>1, <2>2
<1> QED BY <1>1, <1>2, <1>3, <1>4 DEF Means

\* The nodes whose values a level is told by.
Leaves(ns, a, D, H) ==
  LET K == Children(ns, a)
  IN IF D = {} /\ H = {} THEN K
     ELSE (K \ {Max(K)}) \cup {n \in DOMAIN ns \ (D \cup H) : ns[n].parent \in D}

\* The groups a and D have the same children in ns and r.
SameAround(ns, r, a, D) ==
  /\ D \subseteq DOMAIN ns /\ D \subseteq DOMAIN r /\ Children(r, a) = Children(ns, a)
  /\ \A c \in D : Children(r, c) = Children(ns, c) /\ r[c].type = ns[c].type
                  /\ r[c].parent = ns[c].parent

\* A chain stays one when what is around it stays the same.
LEMMA ChainStays ==
  ASSUME NEW ns, NEW r, NEW a, NEW D, SameAround(ns, r, a, D), OrChain(ns, a, D)
  PROVE  OrChain(r, a, D)
BY DEF SameAround, OrChain

\* A level means the same when what is around its groups stays the same, and so does
\* what the nodes in them say.
LEMMA MeansStays ==
  ASSUME NEW ns, Tree(ns), NEW r, NEW a, NEW D, NEW H, SameAround(ns, r, a, D), NEW v, NEW w, NEW row,
         NEW level, \A n \in Leaves(ns, a, D, H) : w[n] = v[n], Means(ns, v, row, a, D, H, level)
  PROVE  Means(r, w, row, a, D, H, level)
<1> DEFINE K == Children(ns, a)
<1>1. Children(r, a) = K
  BY DEF SameAround
<1>2. \A n \in K \ {Max(K)} : w[n] = v[n]
  BY DEF Leaves
<1>3. D = {} /\ H = {} => \A n \in K : w[n] = v[n]
  BY DEF Leaves
<1>4. \A n : n \in DOMAIN r \ (D \cup H) /\ r[n].parent \in D
             <=> n \in DOMAIN ns \ (D \cup H) /\ ns[n].parent \in D
  BY DEF SameAround, Children
<1>5. D # {} => (\E n \in DOMAIN r \ (D \cup H) : r[n].parent \in D /\ w[n])
                <=> (\E n \in DOMAIN ns \ (D \cup H) : ns[n].parent \in D /\ v[n])
  <2>1. \A n \in DOMAIN ns \ (D \cup H) : D # {} /\ ns[n].parent \in D => w[n] = v[n]
    BY DEF Leaves
  <2> QED BY <1>4, <2>1
<1>6. (\A n \in K \ {Max(K)} : w[n]) <=> \A n \in K \ {Max(K)} : v[n]
  BY <1>2
<1>7. CASE K = {}
  BY <1>1, <1>7 DEF Means
<1>8. CASE K # {} /\ D = {} /\ H # {}
  BY <1>1, <1>6, <1>8 DEF Means
<1>9. CASE K # {} /\ D = {} /\ H = {}
  <2>1. w[Max(K)] = v[Max(K)]
    BY <1>3, <1>9, TreeTyped, MaxIs
  <2> QED BY <1>1, <1>6, <1>9, <2>1 DEF Means
<1>10. CASE K # {} /\ D # {}
  BY <1>1, <1>5, <1>6, <1>10 DEF Means
<1> QED BY <1>7, <1>8, <1>9, <1>10

-----------------------------------------------------------------------------
(* The open groups *)

Path(ls, A, C) == {A[k] : k \in 1..Len(ls)} \cup UNION {C[k] : k \in 1..Len(ls)}

PathTold(ns, g, ls, A, C) ==
  /\ 1 \in 1..Len(ls) /\ Len(ls) \in 1..Len(ls)
  /\ \A k \in 1..Len(ls) : A[k] \in DOMAIN ns /\ C[k] \subseteq DOMAIN ns
  /\ Path(ls, A, C) \subseteq DOMAIN ns /\ g \in Path(ls, A, C)
  /\ \A n : n \in Path(ls, A, C) <=> \E k \in 1..Len(ls) : n = A[k] \/ n \in C[k]
  /\ \A k \in 1..Len(ls) : ns[A[k]].type = "all" /\ \A c \in C[k] : ns[c].type = "any"
  /\ \A i, k \in 1..Len(ls) : A[i] \notin C[k]
  /\ \A k \in 1..Len(ls) : k # 1 =>
       /\ k - 1 \in 1..Len(ls) /\ k - 1 \in 1..Len(ls) - 1 /\ k = (k - 1) + 1
       /\ ns[A[k]].parent \in Spot(A[k - 1], C[k - 1])
  /\ \A k \in 1..Len(ls) : \A c \in C[k] : ns[c].parent \in C[k] \cup {A[k]}
  /\ ns[A[1]].parent = 0 /\ 0 \notin DOMAIN ns

\* Where the open groups are: those of MatchAll apart from those of MatchAny, each below the
\* ones before it.
LEMMA OnPath ==
  ASSUME NEW ns, Tree(ns), NEW g, NEW ls, Len(ls) \in Nat, Len(ls) >= 1, NEW j, NEW A, NEW C,
         Opened(ns, g, ls, j, A, C)
  PROVE  PathTold(ns, g, ls, A, C)
<1>1. 1 \in 1..Len(ls) /\ Len(ls) \in 1..Len(ls)
  OBVIOUS
<1>2. \A k \in 1..Len(ls) : A[k] \in DOMAIN ns /\ C[k] \subseteq DOMAIN ns
  BY DEF Opened
<1>3. \A n : n \in Path(ls, A, C) <=> \E k \in 1..Len(ls) : n = A[k] \/ n \in C[k]
  BY DEF Path
<1>4. Path(ls, A, C) \subseteq DOMAIN ns
  BY <1>2, <1>3
<1>5. g \in Path(ls, A, C)
  BY <1>1, <1>3 DEF Opened, Spot
<1>6. \A k \in 1..Len(ls) : ns[A[k]].type = "all" /\ \A c \in C[k] : ns[c].type = "any"
  BY DEF Opened, OrChain
<1>7. \A i, k \in 1..Len(ls) : A[i] \notin C[k]
  BY <1>6
<1>8. ASSUME NEW k \in 1..Len(ls), k # 1
      PROVE  k - 1 \in 1..Len(ls) /\ k - 1 \in 1..Len(ls) - 1 /\ k = (k - 1) + 1
             /\ ns[A[k]].parent \in Spot(A[k - 1], C[k - 1])
  <2>1. k - 1 \in 1..Len(ls) /\ k - 1 \in 1..Len(ls) - 1 /\ k = (k - 1) + 1
    BY <1>8
  <2>2. \A i \in 1..Len(ls) - 1 : ns[A[i + 1]].parent \in Spot(A[i], C[i])
    BY DEF Opened
  <2>3. ns[A[(k - 1) + 1]].parent \in Spot(A[k - 1], C[k - 1])
    BY <2>1, <2>2
  <2> QED BY <2>1, <2>3
<1>9. \A k \in 1..Len(ls) : \A c \in C[k] : ns[c].parent \in C[k] \cup {A[k]}
  BY DEF Opened, OrChain
<1>10. ns[A[1]].parent = 0 /\ 0 \notin DOMAIN ns
  BY TreeTyped DEF Opened
<1> QED BY <1>1, <1>2, <1>3, <1>4, <1>5, <1>6, <1>7, <1>8, <1>9, <1>10 DEF PathTold

\* What the open groups say is told by closed ones.
LEMMA LeavesOff ==
  ASSUME NEW ns, Tree(ns), NEW g, NEW ls, Len(ls) \in Nat, Len(ls) >= 1, NEW j, NEW A, NEW C,
         Opened(ns, g, ls, j, A, C), NEW k \in 1..Len(ls)
  PROVE  /\ Leaves(ns, A[k], C[k], Hole(A, k)) \subseteq DOMAIN ns \ Path(ls, A, C)
         /\ \A n \in DOMAIN ns \ Path(ls, A, C) : Children(ns, n) \cap Path(ls, A, C) = {}
<1> DEFINE K == Children(ns, A[k])
           H == Hole(A, k)
           leaves == Leaves(ns, A[k], C[k], H)
           IsLast == Max(K)
<1>0. PathTold(ns, g, ls, A, C)
  BY OnPath
<1>1. ASSUME NEW n \in leaves
      PROVE  /\ n \in DOMAIN ns
             /\ \/ ns[n].parent = A[k] /\ (C[k] # {} \/ H # {} => n # IsLast)
                \/ ns[n].parent \in C[k] /\ n \notin C[k] /\ n \notin H
  BY DEF Leaves, Children
<1>2. ASSUME NEW n \in leaves, NEW i \in 1..Len(ls), n = A[i] PROVE FALSE
  <2>1. i # 1
    BY <1>0, <1>1, <1>2 DEF PathTold
  <2>2. i - 1 \in 1..Len(ls) /\ i - 1 \in 1..Len(ls) - 1 /\ i = (i - 1) + 1
        /\ ns[A[i]].parent \in Spot(A[i - 1], C[i - 1])
    BY <1>0, <2>1 DEF PathTold
  <2>3. i - 1 = k
    <3> DEFINE p == i - 1
    <3>1. p \in 1..Len(ls) /\ ns[A[i]].parent \in {A[p]} \cup C[p]
      BY <2>2 DEF Spot
    <3>2. ns[A[i]].parent \in {A[k]} \cup C[k]
      BY <1>1, <1>2
    <3> HIDE DEF p
    <3>3. A[p] \notin C[k] /\ A[k] \notin C[p]
      BY <1>0, <3>1 DEF PathTold
    <3>4. p # k => A[p] # A[k] /\ C[p] \cap C[k] = {}
      BY <3>1 DEF Opened
    <3>5. p = k
      BY <3>1, <3>2, <3>3, <3>4
    <3> QED BY <3>5 DEF p
  <2>4. i = k + 1 /\ DOMAIN A = 1..Len(ls)
    BY <2>2, <2>3 DEF Opened
  <2>5. n \in H
    BY <1>2, <2>4 DEF Hole
  <2>6. ns[n].parent = A[k] /\ n # IsLast
    BY <1>1, <1>2, <2>5
  <2>7. C[k] = {}
    BY <1>0, <1>2, <2>2, <2>3, <2>6 DEF PathTold, Spot
  <2>8. k \in 1..Len(ls) - 1
    BY <2>2, <2>3
  <2>9. A[k + 1] = IsLast
    BY <2>7, <2>8 DEF Opened
  <2> QED BY <1>2, <2>4, <2>6, <2>9
<1>3. ASSUME NEW n \in leaves, NEW i \in 1..Len(ls), n \in C[i] PROVE FALSE
  <2>1. ns[n].parent \in C[i] \cup {A[i]}
    BY <1>0, <1>3 DEF PathTold
  <2>2. A[i] \notin C[k] /\ A[k] \notin C[i]
    BY <1>0 DEF PathTold
  <2>3. i # k => A[i] # A[k] /\ C[i] \cap C[k] = {}
    BY DEF Opened
  <2>4. i = k
    BY <1>1, <2>1, <2>2, <2>3
  <2>5. ns[n].parent = A[k] /\ n # IsLast
    BY <1>1, <1>3, <2>4
  <2>6. OrChain(ns, A[k], C[k])
    BY DEF Opened
  <2> QED BY <1>3, <2>4, <2>5, <2>6 DEF OrChain
<1>4. leaves \subseteq DOMAIN ns \ Path(ls, A, C)
  <2> HIDE DEF leaves
  <2> QED BY <1>0, <1>1, <1>2, <1>3 DEF PathTold
<1>5. ASSUME NEW n \in DOMAIN ns \ Path(ls, A, C), NEW c \in Children(ns, n), c \in Path(ls, A, C)
      PROVE  FALSE
  <2>1. c \in DOMAIN ns /\ ns[c].parent = n
    BY DEF Children
  <2>2. PICK i \in 1..Len(ls) : c = A[i] \/ c \in C[i]
    BY <1>0, <1>5 DEF PathTold
  <2>3. CASE c \in C[i]
    BY <1>0, <2>1, <2>3 DEF PathTold
  <2>4. CASE c = A[i] /\ i = 1
    BY <1>0, <2>1, <2>4 DEF PathTold
  <2>5. CASE c = A[i] /\ i # 1
    <3>1. i - 1 \in 1..Len(ls) /\ ns[A[i]].parent \in Spot(A[i - 1], C[i - 1])
      BY <1>0, <2>5 DEF PathTold
    <3>2. n = A[i - 1] \/ n \in C[i - 1]
      BY <2>1, <2>5, <3>1 DEF Spot
    <3> QED BY <1>0, <1>5, <3>1, <3>2 DEF PathTold
  <2> QED BY <2>2, <2>3, <2>4, <2>5
<1> QED BY <1>4, <1>5

-----------------------------------------------------------------------------
(* Changes at the cursor *)

\* Only what is in group g changes, and nothing on the path to it moves.
ChangedAt(ns, r, g, P) ==
  /\ DOMAIN ns \subseteq DOMAIN r
  /\ \A n \in DOMAIN ns :
       r[n].type = ns[n].type /\ r[n].flags = ns[n].flags /\ r[n].text = ns[n].text
  /\ \A n \in DOMAIN ns \ {g} : Children(r, n) = Children(ns, n)
  /\ \A n \in P : r[n].parent = ns[n].parent

\* What nodes off the path say does not change with what is in the cursor's group.
LEMMA OtherLevels ==
  ASSUME NEW ns, Tree(ns), NEW g, NEW ls, Len(ls) \in Nat, Len(ls) >= 1, NEW j, NEW A, NEW C,
         Opened(ns, g, ls, j, A, C), NEW r, ChangedAt(ns, r, g, Path(ls, A, C)),
         NEW row, NEW v, NEW w, Solves(ns, row, v), Solves(r, row, w)
  PROVE  \A n \in DOMAIN ns \ Path(ls, A, C) : w[n] = v[n]
<1> DEFINE P == Path(ls, A, C)
<1>1. P \in SUBSET DOMAIN ns /\ g \in P
  <2>1. PathTold(ns, g, ls, A, C)
    BY OnPath
  <2> QED BY <2>1 DEF PathTold
<1>2. 1 \in 1..Len(ls)
  OBVIOUS
<1>3. \A n \in DOMAIN ns \ P : Children(ns, n) \cap P = {}
  BY <1>2, LeavesOff
<1>4. \A n \in DOMAIN ns \ P :
        /\ n \in DOMAIN r /\ Children(r, n) = Children(ns, n) /\ Children(ns, n) \cap P = {}
        /\ r[n].type = ns[n].type /\ r[n].flags = ns[n].flags /\ r[n].text = ns[n].text
  BY <1>1, <1>3 DEF ChangedAt
<1> HIDE DEF P
<1>5. \A n \in DOMAIN ns \ P : w[n] = v[n]
  BY <1>1, <1>4, ElsewhereSame
<1> QED BY <1>5 DEF P

\* Nothing changes around the groups of the levels below the last one.
LEMMA BelowSame ==
  ASSUME NEW ns, Tree(ns), NEW g, NEW ls, Len(ls) \in Nat, Len(ls) >= 1, NEW j, NEW A, NEW C,
         Opened(ns, g, ls, j, A, C), NEW r, ChangedAt(ns, r, g, Path(ls, A, C)),
         NEW k \in 1..Len(ls), k # Len(ls)
  PROVE  SameAround(ns, r, A[k], C[k])
<1>1. PathTold(ns, g, ls, A, C)
  BY OnPath
<1>2. g = A[Len(ls)] \/ g \in C[Len(ls)]
  BY DEF Opened, Spot
<1>3. g # A[k] /\ g \notin C[k]
  <2>1. A[Len(ls)] # A[k] /\ C[Len(ls)] \cap C[k] = {}
    BY <1>1 DEF Opened, PathTold
  <2>2. A[Len(ls)] \notin C[k] /\ A[k] \notin C[Len(ls)]
    BY <1>1 DEF PathTold
  <2> QED BY <1>2, <2>1, <2>2
<1>4. A[k] \in DOMAIN ns /\ C[k] \subseteq DOMAIN ns /\ C[k] \subseteq Path(ls, A, C)
  BY <1>1 DEF PathTold
<1> QED BY <1>3, <1>4 DEF ChangedAt, SameAround

\* The levels below are told by the same.
LEMMA BelowStays ==
  ASSUME NEW ns, Tree(ns), NEW g, NEW ls, Len(ls) \in Nat, Len(ls) >= 1, NEW j, NEW A, NEW C,
         Opened(ns, g, ls, j, A, C), NEW r, ChangedAt(ns, r, g, Path(ls, A, C)), NEW m,
         AllMean(ns, ls, A, C, m), m \in {Len(ls) - 1, Len(ls)}
  PROVE  AllMean(r, ls, A, C, Len(ls) - 1)
<1> SUFFICES ASSUME NEW row \in Universe, NEW w, Solves(r, row, w), NEW k \in 1..Len(ls) - 1
             PROVE  Means(r, w, row, A[k], C[k], Hole(A, k), ls[k])
  BY DEF AllMean
<1>1. PICK v : Solves(ns, row, v)
  BY Solved
<1>2. k \in 1..Len(ls) /\ k # Len(ls) /\ k \in 1..m
  OBVIOUS
<1>3. Means(ns, v, row, A[k], C[k], Hole(A, k), ls[k])
  BY <1>1, <1>2 DEF AllMean
<1>4. SameAround(ns, r, A[k], C[k])
  BY <1>2, BelowSame
<1>5. \A n \in DOMAIN ns \ Path(ls, A, C) : w[n] = v[n]
  BY <1>1, OtherLevels
<1>6. Leaves(ns, A[k], C[k], Hole(A, k)) \subseteq DOMAIN ns \ Path(ls, A, C)
  BY <1>2, LeavesOff
<1>7. \A n \in Leaves(ns, A[k], C[k], Hole(A, k)) : w[n] = v[n]
  BY <1>5, <1>6
<1> DEFINE a == A[k]
           D == C[k]
           H == Hole(A, k)
           level == ls[k]
<1>8. /\ Means(ns, v, row, a, D, H, level) /\ SameAround(ns, r, a, D)
      /\ \A n \in Leaves(ns, a, D, H) : w[n] = v[n]
  BY <1>3, <1>4, <1>7
<1> HIDE DEF a, D, H, level
<1>9. Means(r, w, row, a, D, H, level)
  BY <1>8, MeansStays
<1> QED BY <1>9 DEF a, D, H, level

\* All but the last one.
HoldsBelow(ns, g, ls, j, A, C) ==
  /\ Tree(ns) /\ ls \in Seq(Levels) /\ Len(ls) \in Nat /\ Len(ls) >= 1
  /\ Opened(ns, g, ls, j, A, C) /\ AllMean(ns, ls, A, C, Len(ls) - 1)

\* The top level becomes another, told by the groups a and D.
Becomes(ns, g, ls, A, C, r, a, D, g2, j2, level) ==
  /\ Tree(r) /\ ChangedAt(ns, r, g, Path(ls, A, C)) /\ a = A[Len(ls)]
  /\ OrChain(r, a, D) /\ (D # {} <=> j2) /\ g2 \in Spot(a, D)
  /\ level \in Levels /\ level.not = ls[Len(ls)].not /\ level.or = ls[Len(ls)].or
  /\ level.empty <=> Children(r, a) = {}
  /\ \A k \in 1..Len(ls) - 1 : D \cap C[k] = {}
  /\ \A row \in Universe : \A w : Solves(r, row, w) => Means(r, w, row, a, D, {}, level)

\* When the groups of the last level come to tell another level, the tree tells the levels
\* with that one as their last.
LEMMA TopBecomes ==
  ASSUME NEW ns, NEW g, NEW ls, NEW j, NEW A, NEW C, HoldsBelow(ns, g, ls, j, A, C),
         NEW r, NEW a, NEW D, NEW g2, NEW j2, NEW level,
         Becomes(ns, g, ls, A, C, r, a, D, g2, j2, level)
  PROVE  Told(r, g2, [ls EXCEPT ![Len(ls)] = level], j2)
<1> SUFFICES ASSUME Tree(ns), ls \in Seq(Levels), Len(ls) >= 1,
         Opened(ns, g, ls, j, A, C), ChangedAt(ns, r, g, Path(ls, A, C)),
         AllMean(ns, ls, A, C, Len(ls) - 1), level \in Levels, Tree(r),
         OrChain(r, A[Len(ls)], D), D # {} <=> j2, g2 \in Spot(A[Len(ls)], D),
         level.not = ls[Len(ls)].not, level.or = ls[Len(ls)].or,
         level.empty <=> Children(r, A[Len(ls)]) = {},
         \A k \in 1..Len(ls) - 1 : D \cap C[k] = {},
         \A row \in Universe : \A w : Solves(r, row, w) =>
           Means(r, w, row, A[Len(ls)], D, {}, level)
             PROVE  Told(r, g2, [ls EXCEPT ![Len(ls)] = level], j2)
  <2> USE DEF HoldsBelow, Becomes
  <2> QED OBVIOUS
<1> DEFINE top == Len(ls)
           ls2 == [ls EXCEPT ![top] = level]
           C2 == [C EXCEPT ![top] = D]
<1>0. PathTold(ns, g, ls, A, C) /\ top \in Nat /\ top \in 1..top
  <2>1. Len(ls) \in Nat
    OBVIOUS
  <2>2. PathTold(ns, g, ls, A, C)
    BY <2>1, OnPath
  <2> QED BY <2>1, <2>2
<1>1. /\ ls2 \in Seq(Levels) /\ Len(ls2) = top /\ ls2[top] = level
      /\ \A k \in 1..top : k # top => ls2[k] = ls[k]
      /\ \A k \in 1..top : ls2[k].not = ls[k].not /\ ls2[k].or = ls[k].or
  BY <1>0
<1>2. /\ A \in [1..top -> DOMAIN ns] /\ C \in [1..top -> SUBSET DOMAIN ns]
      /\ DOMAIN ns \subseteq DOMAIN r /\ D \subseteq DOMAIN r
  BY DEF Opened, ChangedAt, OrChain
<1>3. /\ C2 \in [1..top -> SUBSET DOMAIN r] /\ A \in [1..top -> DOMAIN r] /\ C2[top] = D
      /\ \A k \in 1..top : k # top => C2[k] = C[k]
  BY <1>0, <1>2
<1> HIDE DEF ls2, C2
<1>4. \A k \in 1..top : k # top => SameAround(ns, r, A[k], C[k])
  BY <1>0, BelowSame
<1>5. ASSUME NEW k \in 1..top
      PROVE  /\ r[A[k]].type = "all" /\ ("not" \in r[A[k]].flags <=> ls2[k].not)
             /\ OrChain(r, A[k], C2[k]) /\ (C2[k] # {} <=> OrAfter(ls2, j2, k))
  <2>1. r[A[k]].type = "all" /\ ("not" \in r[A[k]].flags <=> ls2[k].not)
    <3>1. ns[A[k]].type = "all" /\ ("not" \in ns[A[k]].flags <=> ls[k].not)
      BY DEF Opened
    <3>2. A[k] \in DOMAIN ns
      BY <1>2
    <3>3. r[A[k]].type = ns[A[k]].type /\ r[A[k]].flags = ns[A[k]].flags
      BY <3>2 DEF ChangedAt
    <3>4. ls2[k].not = ls[k].not
      BY <1>1
    <3> QED BY <3>1, <3>3, <3>4
  <2>2. CASE k = top
    BY <1>1, <1>3, <2>1, <2>2 DEF OrAfter
  <2>3. CASE k # top
    <3>1. C2[k] = C[k] /\ OrChain(ns, A[k], C[k]) /\ SameAround(ns, r, A[k], C[k])
      BY <1>3, <1>4, <2>3 DEF Opened
    <3>2. OrChain(r, A[k], C[k])
      BY <3>1, ChainStays
    <3>3. k + 1 \in 1..top /\ k < top
      BY <1>0, <2>3
    <3>4. C[k] # {} <=> ls[k + 1].or
      BY <3>3 DEF Opened, OrAfter
    <3>5. OrAfter(ls2, j2, k) = ls[k + 1].or
      BY <1>1, <3>3 DEF OrAfter
    <3> QED BY <2>1, <3>1, <3>2, <3>4, <3>5
  <2> QED BY <2>2, <2>3
<1>6. ASSUME NEW k \in 1..top - 1
      PROVE  /\ r[A[k + 1]].parent \in Spot(A[k], C2[k])
             /\ C2[k] = {} => A[k + 1] = Max(Children(r, A[k]))
  <2>1. k \in 1..top /\ k # top /\ k + 1 \in 1..top
    BY <1>0
  <2>2. A[k + 1] \in Path(ls, A, C)
    BY <1>0, <2>1 DEF PathTold
  <2>3. r[A[k + 1]].parent = ns[A[k + 1]].parent
    BY <2>2 DEF ChangedAt
  <2>4. Children(r, A[k]) = Children(ns, A[k]) /\ C2[k] = C[k]
    BY <1>3, <1>4, <2>1 DEF SameAround
  <2> QED BY <2>3, <2>4 DEF Opened
<1>7. \A i, k \in 1..top : i # k => A[i] # A[k] /\ C2[i] \cap C2[k] = {}
  <2>1. \A i, k \in 1..top : i # k => A[i] # A[k] /\ C[i] \cap C[k] = {}
    BY DEF Opened
  <2>2. \A k \in 1..top : k # top => D \cap C[k] = {}
    BY <1>0
  <2> QED BY <1>3, <2>1, <2>2
<1>8. Opened(r, g2, ls2, j2, A, C2)
  <2>1. A[1] = Root /\ g2 \in Spot(A[top], C2[top])
    BY <1>3 DEF Opened
  <2> QED BY <1>1, <1>3, <1>5, <1>6, <1>7, <2>1 DEF Opened
<1>9. AllMean(r, ls2, A, C2, top)
  <2> SUFFICES ASSUME NEW row \in Universe, NEW w, Solves(r, row, w), NEW k \in 1..top
               PROVE  Means(r, w, row, A[k], C2[k], Hole(A, k), ls2[k])
    BY DEF AllMean
  <2>1. CASE k = top
    <3>1. Hole(A, k) = {}
      BY <1>0, <1>2, <2>1 DEF Hole
    <3> QED BY <1>1, <1>3, <2>1, <3>1
  <2>2. CASE k # top
    <3>1. AllMean(r, ls, A, C, top - 1)
      BY <1>0, BelowStays
    <3>2. k \in 1..top - 1
      BY <1>0, <2>2
    <3> QED BY <1>1, <1>3, <2>2, <3>1, <3>2 DEF AllMean
  <2> QED BY <2>1, <2>2
<1>10. Holds(r, g2, ls2, j2, A, C2)
  <2>1. ls2[Len(ls2)].empty <=> Children(r, A[Len(ls2)]) = {}
    BY <1>1
  <2> QED BY <1>0, <1>1, <1>8, <1>9, <2>1 DEF Holds
<1>11. Told(r, g2, ls2, j2)
  BY <1>10 DEF Told
<1> QED BY <1>11 DEF ls2

-----------------------------------------------------------------------------
(* New nodes *)

\* New nodes are in g or in each other.
Grown(ns, r, g) ==
  /\ r \in Seq(Nodes) /\ Len(ns) < Len(r) /\ \A n \in 1..Len(ns) : r[n] = ns[n]
  /\ r[Len(ns) + 1].parent = g
  /\ \A n \in (Len(ns) + 2)..Len(r) : r[n].parent \in (Len(ns) + 1)..(n - 1)

\* A tree with new nodes in g is a tree, and only g has a new child.
LEMMA GrownTree ==
  ASSUME NEW ns, Tree(ns), NEW g \in DOMAIN ns, NEW r, Grown(ns, r, g), NEW P \in SUBSET DOMAIN ns
  PROVE  /\ Tree(r) /\ ChangedAt(ns, r, g, P)
         /\ Len(ns) + 1 \in DOMAIN r \ DOMAIN ns /\ Children(r, g) = Children(ns, g) \cup {Len(ns) + 1}
         /\ \A n \in DOMAIN r : r[n].parent \in DOMAIN ns =>
              n = Len(ns) + 1 \/ (n \in DOMAIN ns /\ ns[n].parent = r[n].parent)
<1> DEFINE old == Len(ns)
           len == Len(r)
<1>1. /\ old \in Nat /\ len \in Nat /\ old >= 1 /\ old < len
      /\ DOMAIN ns = 1..old /\ DOMAIN r = 1..len /\ 1..old \subseteq 1..len
      /\ ns \in Seq(Nodes) /\ r \in Seq(Nodes)
  BY TreeTyped DEF Grown, Tree
<1>2. \A n \in 1..old : r[n] = ns[n]
  BY DEF Grown
<1>3. /\ old + 1 \in 1..len /\ old + 1 \notin 1..old
      /\ \A n \in 1..len : n \notin 1..old => n = old + 1 \/ n \in (old + 2)..len
  BY <1>1
<1>4. ASSUME NEW n \in 1..len, n \notin 1..old, n # old + 1
      PROVE  r[n].parent \notin 1..old /\ r[n].parent \in 1..len /\ r[n].parent < n
  <2>1. r[n].parent \in (old + 1)..(n - 1)
    BY <1>3, <1>4 DEF Grown
  <2> QED BY <1>1, <2>1
<1>5. r[old + 1].parent = g /\ g \in 1..old
  BY <1>1 DEF Grown
<1>6. \A n \in 1..len : n # Root => r[n].parent \in 1..len
  BY <1>1, <1>2, <1>4, <1>5 DEF Tree
<1>7. \E max \in Nat : \E rank \in [1..len -> 0..max] :
        \A n \in 1..len : n # Root => rank[n] < rank[r[n].parent]
  <2>1. PICK max \in Nat : \E rank \in [1..old -> 0..max] :
          \A n \in 1..old : n # Root => rank[n] < rank[ns[n].parent]
    BY <1>1 DEF Tree
  <2>2. PICK rank \in [1..old -> 0..max] :
          \A n \in 1..old : n # Root => rank[n] < rank[ns[n].parent]
    BY <2>1
  <2> DEFINE up == [n \in 1..len |-> IF n \in 1..old THEN rank[n] + len ELSE len - n]
  <2>3. \A n \in 1..old : rank[n] \in Nat /\ rank[n] <= max
    BY <2>2
  <2>4. up \in [1..len -> 0..(max + len)]
    <3> SUFFICES ASSUME NEW n \in 1..len PROVE up[n] \in 0..(max + len)
      OBVIOUS
    <3>1. CASE n \in 1..old
      BY <1>1, <2>3, <3>1
    <3>2. CASE n \notin 1..old
      BY <1>1, <3>2
    <3> QED BY <3>1, <3>2
  <2>5. ASSUME NEW n \in 1..len, n # Root PROVE up[n] < up[r[n].parent]
    <3>1. CASE n \in 1..old
      <4>1. ns[n].parent \in 1..old /\ r[n].parent = ns[n].parent
        BY <1>1, <1>2, <2>5, <3>1 DEF Tree
      <4>2. rank[n] < rank[ns[n].parent]
        BY <2>2, <2>5, <3>1
      <4> QED BY <1>1, <2>3, <3>1, <4>1, <4>2
    <3>2. CASE n = old + 1
      <4>1. up[n] = len - n /\ up[g] = rank[g] + len
        BY <1>1, <1>3, <1>5, <3>2
      <4> QED BY <1>1, <1>5, <2>3, <3>2, <4>1
    <3>3. CASE n \notin 1..old /\ n # old + 1
      <4>1. r[n].parent \notin 1..old /\ r[n].parent \in 1..len /\ r[n].parent < n
        BY <1>4, <3>3
      <4>2. up[n] = len - n /\ up[r[n].parent] = len - r[n].parent
        BY <3>3, <4>1
      <4> HIDE DEF up
      <4> QED BY <1>1, <4>1, <4>2
    <3> QED BY <3>1, <3>2, <3>3
  <2> HIDE DEF up
  <2>6. max + len \in Nat
    BY <1>1
  <2> QED BY <2>4, <2>5, <2>6
<1>8. Tree(r)
  <2>1. Root \in 1..old /\ r[Root] = Group("all", {}, 0)
    BY <1>1, <1>2 DEF Tree
  <2> QED BY <1>1, <1>6, <1>7, <2>1 DEF Tree
<1>9. \A n \in 1..len : r[n].parent \in 1..old =>
        n = old + 1 \/ (n \in 1..old /\ ns[n].parent = r[n].parent)
  BY <1>2, <1>4
<1>10. \A n \in 1..old : n # g => Children(r, n) = Children(ns, n)
  BY <1>1, <1>2, <1>5, <1>9 DEF Children
<1>11. Children(r, g) = Children(ns, g) \cup {old + 1}
  BY <1>1, <1>2, <1>3, <1>5, <1>9 DEF Children
<1>12. ChangedAt(ns, r, g, P)
  BY <1>1, <1>2, <1>10 DEF ChangedAt
<1> QED BY <1>1, <1>3, <1>8, <1>9, <1>11, <1>12

\* A first new node in the place of the next operand.
PlacedIn(ns, r, a, D, level) ==
  LET x == Len(ns) + 1
  IN /\ OrChain(r, a, D) /\ x \in DOMAIN r \ D /\ r[x].parent \in Spot(a, D)
     /\ D = {} => x = Max(Children(r, a))
     /\ \A row \in Universe : \A w : Solves(r, row, w) => Means(r, w, row, a, D, {x}, level)

\* The first new node takes the place of the next operand.
LEMMA GrownMeans ==
  ASSUME NEW ns, Tree(ns), NEW g, NEW ls, Len(ls) \in Nat, Len(ls) >= 1, NEW j, NEW A, NEW C,
         Opened(ns, g, ls, j, A, C), AllMean(ns, ls, A, C, Len(ls)), NEW r, Grown(ns, r, g),
         NEW a, NEW D, NEW level, a = A[Len(ls)], D = C[Len(ls)], level = ls[Len(ls)]
  PROVE  PlacedIn(ns, r, a, D, level)
<1> DEFINE x == Len(ns) + 1
           K == Children(ns, a)
           P == Path(ls, A, C)
<1>1. PathTold(ns, g, ls, A, C)
  BY OnPath
<1>2. /\ Len(ls) \in 1..Len(ls) /\ g \in DOMAIN ns /\ P \in SUBSET DOMAIN ns
      /\ a \in DOMAIN ns /\ D \subseteq DOMAIN ns /\ g \in Spot(a, D) /\ a \notin D /\ D \subseteq P
  BY <1>1 DEF PathTold, Opened
<1>3. /\ Tree(r) /\ ChangedAt(ns, r, g, P) /\ x \in DOMAIN r \ DOMAIN ns
      /\ Children(r, g) = Children(ns, g) \cup {x}
      /\ \A n \in DOMAIN r : r[n].parent \in DOMAIN ns =>
           n = x \/ (n \in DOMAIN ns /\ ns[n].parent = r[n].parent)
  BY <1>2, GrownTree
<1>4. OrChain(ns, a, D)
  BY <1>2 DEF Opened
<1>5. r[x].parent = g
  BY DEF Grown
<1>6. Hole(A, Len(ls)) = {}
  BY DEF Hole, Opened
<1>7. D = {} => g = a /\ x = Max(Children(r, a))
  <2> SUFFICES ASSUME D = {} PROVE g = a /\ x = Max(Children(r, a))
    OBVIOUS
  <2>1. g = a
    BY <1>2 DEF Spot
  <2>2. /\ Len(r) \in Nat /\ Children(r, a) \subseteq 1..Len(r) /\ Len(ns) \in Nat
        /\ K \subseteq 1..Len(ns)
    BY <1>3, TreeTyped
  <2>3. Children(r, a) = K \cup {x}
    BY <1>3, <2>1
  <2>4. \A c \in Children(r, a) : c <= x
    <3> HIDE DEF K
    <3>1. \A c \in K : c \in 1..Len(ns)
      BY <2>2
    <3>2. \A c \in K : c <= x
      BY <2>2, <3>1
    <3> QED BY <2>2, <2>3, <3>2
  <2>5. x \in Children(r, a)
    BY <2>3
  <2> HIDE DEF x
  <2>6. Max(Children(r, a)) = x
    BY <2>2, <2>4, <2>5, MaxUnique
  <2> QED BY <2>1, <2>6
<1>8. D # {} => g \in D /\ Children(r, a) = K /\ SameAround(ns, ns, a, D)
  BY <1>2, <1>3 DEF Spot, ChangedAt, SameAround
<1>9. OrChain(r, a, D)
  <2>1. CASE D = {}
    BY <2>1 DEF OrChain
  <2>2. CASE D # {}
    <3>1. D \subseteq DOMAIN r /\ \A c \in D : r[c].type = ns[c].type /\ r[c].parent = ns[c].parent
      BY <1>2, <1>3 DEF ChangedAt
    <3> QED BY <1>4, <1>8, <2>2, <3>1 DEF OrChain
  <2> QED BY <2>1, <2>2
<1>10. ASSUME NEW row \in Universe, NEW w, Solves(r, row, w)
       PROVE  Means(r, w, row, a, D, {x}, level)
  <2>1. PICK v : Solves(ns, row, v)
    BY Solved
  <2>2. Means(ns, v, row, a, D, {}, level)
    BY <1>2, <1>6, <2>1 DEF AllMean
  <2>3. \A n \in Leaves(ns, a, D, {}) : w[n] = v[n]
    <3>1. \A n \in DOMAIN ns \ P : w[n] = v[n]
      BY <1>3, <1>10, <2>1, OtherLevels
    <3>2. Leaves(ns, A[Len(ls)], C[Len(ls)], Hole(A, Len(ls))) \subseteq DOMAIN ns \ P
      BY <1>2, LeavesOff
    <3>3. Leaves(ns, a, D, {}) \subseteq DOMAIN ns \ P
      BY <1>6, <3>2
    <3> QED BY <3>1, <3>3
  <2>4. K # {} => Max(K) \in K
    BY TreeTyped, MaxIs
  <2>5. CASE D = {}
    <3>1. Children(r, a) = K \cup {x} /\ x = Max(Children(r, a)) /\ x \notin K
      BY <1>3, <1>7, <2>5 DEF Children
    <3>2. \A n \in K : w[n] = v[n]
      BY <2>3, <2>5 DEF Leaves
    <3>3. (\A n \in K : w[n]) <=> row \in level.operands /\ row \in level.last
      <4>1. CASE K = {}
        BY <2>2, <4>1 DEF Means
      <4>2. CASE K # {}
        <5>1. (\A n \in K \ {Max(K)} : v[n]) <=> row \in level.operands
          BY <2>2, <2>5, <4>2 DEF Means
        <5>2. v[Max(K)] <=> row \in level.last
          BY <2>2, <2>5, <4>2 DEF Means
        <5> HIDE DEF K
        <5> QED BY <2>4, <3>2, <4>2, <5>1, <5>2
      <4> QED BY <4>1, <4>2
    <3>4. Children(r, a) # {} /\ Children(r, a) \ {Max(Children(r, a))} = K
      BY <3>1
    <3> HIDE DEF K, x
    <3> QED BY <2>5, <3>3, <3>4 DEF Means
  <2>6. CASE D # {}
    <3>1. K # {} /\ Children(r, a) = K
      BY <1>4, <1>8, <2>6 DEF OrChain
    <3>2. \A n \in K \ {Max(K)} : w[n] = v[n]
      BY <2>3, <2>6 DEF Leaves
    <3>3. \A n : n \in DOMAIN r \ (D \cup {x}) /\ r[n].parent \in D
                 <=> n \in DOMAIN ns \ (D \cup {}) /\ ns[n].parent \in D
      <4>1. \A n \in DOMAIN ns : n \in DOMAIN r /\ n # x /\ r[n].parent = ns[n].parent
        <5>1. DOMAIN ns = 1..Len(ns)
          BY TreeTyped
        <5> QED BY <1>3, <5>1 DEF Grown, ChangedAt
      <4>2. \A n \in DOMAIN r : r[n].parent \in D =>
              n = x \/ (n \in DOMAIN ns /\ ns[n].parent = r[n].parent)
        BY <1>2, <1>3
      <4> HIDE DEF x
      <4> QED BY <4>1, <4>2
    <3>4. \A n \in DOMAIN ns \ (D \cup {}) : ns[n].parent \in D => w[n] = v[n]
      BY <2>3, <2>6 DEF Leaves
    <3>5. (\E n \in DOMAIN r \ (D \cup {x}) : r[n].parent \in D /\ w[n])
            <=> \E n \in DOMAIN ns \ (D \cup {}) : ns[n].parent \in D /\ v[n]
      <4> HIDE DEF x
      <4> QED BY <3>3, <3>4
    <3>6. (\A n \in K \ {Max(K)} : w[n]) <=> \A n \in K \ {Max(K)} : v[n]
      BY <3>2
    <3> HIDE DEF K, x
    <3> QED BY <2>2, <2>6, <3>1, <3>5, <3>6 DEF Means, K
  <2> QED BY <2>5, <2>6
<1>11. x = Len(ns) + 1
  OBVIOUS
<1> HIDE DEF x
<1> QED BY <1>2, <1>3, <1>5, <1>7, <1>9, <1>10, <1>11 DEF PlacedIn

-----------------------------------------------------------------------------
(* OR *)

\* Not on the path, but maybe one of the last chain.
OffPath(ls, A, C, c) ==
  /\ \A k \in 1..Len(ls) - 1 : c \notin C[k]
  /\ c \in Path(ls, A, C) => c \in C[Len(ls)]

\* What is in the cursor's group is not on the path, but for groups of its chain.
LEMMA InCursor ==
  ASSUME NEW ns, Tree(ns), NEW g, NEW ls, Len(ls) \in Nat, Len(ls) >= 1, NEW j, NEW A, NEW C,
         Opened(ns, g, ls, j, A, C), NEW c, ns[c].parent = g
  PROVE  OffPath(ls, A, C, c)
<1>0. PathTold(ns, g, ls, A, C)
  BY OnPath
<1> DEFINE L == Len(ls)
<1>1. L \in 1..L /\ g \in {A[L]} \cup C[L]
  BY <1>0 DEF PathTold, Opened, Spot
<1> HIDE DEF L
<1>2. \A k \in 1..L : k # L => g \notin {A[k]} \cup C[k]
  <2> TAKE k \in 1..L
  <2> HAVE k # L
  <2>1. A[L] # A[k] /\ C[L] \cap C[k] = {}
    BY <1>1 DEF Opened, L
  <2>2. A[L] \notin C[k] /\ A[k] \notin C[L]
    BY <1>0, <1>1 DEF PathTold, L
  <2> QED BY <1>1, <2>1, <2>2
<1>3. \A k \in 1..L : k # L => c \notin C[k]
  BY <1>0, <1>2 DEF PathTold, L
<1>4. \A k \in 1..L : c # A[k]
  <2> SUFFICES ASSUME NEW k \in 1..L, c = A[k] PROVE FALSE
    OBVIOUS
  <2>1. CASE k = 1
    BY <1>0, <1>1, <2>1 DEF PathTold, L
  <2>2. CASE k # 1
    <3> DEFINE p == k - 1
    <3>1. p \in 1..L /\ p \in 1..L - 1 /\ ns[A[k]].parent \in Spot(A[p], C[p])
      BY <1>0, <2>2 DEF PathTold, L
    <3>2. p # L
      BY <1>1, <3>1 DEF L
    <3> HIDE DEF p
    <3>3. ns[A[k]].parent \in {A[p]} \cup C[p]
      BY <3>1 DEF Spot
    <3> QED BY <1>2, <2>2, <3>1, <3>2, <3>3
  <2> QED BY <2>1, <2>2
<1>5. \A k \in 1..L - 1 : k \in 1..L /\ k # L
  BY DEF L
<1>6. c \in Path(ls, A, C) => \E k \in 1..L : c = A[k] \/ c \in C[k]
  BY <1>0 DEF PathTold, L
<1> QED BY <1>3, <1>4, <1>5, <1>6 DEF L, OffPath

\* back moves to a new group in g.
Moved(ns, r, g, back) ==
  r = [Append(ns, Group("any", {}, g)) EXCEPT ![back].parent = Len(ns) + 1]

MovedTold(ns, r, g, back, G) ==
  /\ r \in Seq(Nodes) /\ DOMAIN r = DOMAIN ns \cup {G} /\ G \notin DOMAIN ns
  /\ r[G].type = "any" /\ r[G].parent = g /\ r[back].parent = G /\ back # Root
  /\ \A n \in DOMAIN ns :
       r[n].type = ns[n].type /\ r[n].flags = ns[n].flags /\ r[n].text = ns[n].text
  /\ \A n \in DOMAIN ns : n # back => r[n] = ns[n]
  /\ back \in DOMAIN ns /\ ns[back].parent = g
  /\ Len(r) = G /\ Len(ns) \in Nat /\ G = Len(ns) + 1

\* The nodes after a move.
LEMMA MovedNodes ==
  ASSUME NEW ns, Tree(ns), NEW g \in DOMAIN ns, NEW back, back \in Children(ns, g),
         NEW r, Moved(ns, r, g, back)
  PROVE  MovedTold(ns, r, g, back, Len(ns) + 1)
<1> DEFINE new == Group("any", {}, g)
           t == Append(ns, new)
           G == Len(ns) + 1
<1>1. /\ ns \in Seq(Nodes) /\ Len(ns) \in Nat /\ DOMAIN ns = 1..Len(ns)
      /\ back \in DOMAIN ns /\ ns[back].parent = g
      /\ \A n \in DOMAIN ns : ns[n] \in Nodes
  <2>1. ns \in Seq(Nodes)
    BY DEF Tree
  <2>2. back \in DOMAIN ns /\ ns[back].parent = g
    BY DEF Children
  <2> QED BY <2>1, <2>2
<1>2. g \in Nat /\ G \in Nat /\ G \notin 1..Len(ns)
  BY <1>1
<1>3. new \in Nodes /\ new.type = "any" /\ new.parent = g
  BY <1>2 DEF Group, Nodes
<1> HIDE DEF new
<1>4. t \in Seq(Nodes) /\ Len(t) = G /\ t[G] = new /\ \A n \in 1..Len(ns) : t[n] = ns[n]
  BY <1>1, <1>3
<1>5. DOMAIN t = 1..G /\ 1..G = 1..Len(ns) \cup {G}
  BY <1>1, <1>4
<1>6. r = [t EXCEPT ![back] = [ns[back] EXCEPT !.parent = G]]
  BY <1>1, <1>4 DEF Moved, new
<1>7. [ns[back] EXCEPT !.parent = G] \in Nodes
  BY <1>1, <1>2 DEF Nodes
<1>8. r \in Seq(Nodes)
  <2> DEFINE moved == [ns[back] EXCEPT !.parent = G]
  <2>1. moved \in Nodes /\ r = [t EXCEPT ![back] = moved]
    BY <1>6, <1>7
  <2> HIDE DEF moved, t
  <2>2. t \in [1..G -> Nodes] /\ G \in Nat
    BY <1>2, <1>4
  <2>3. r \in [1..G -> Nodes]
    BY <2>1, <2>2
  <2> QED BY <2>2, <2>3
<1>9. DOMAIN r = DOMAIN t /\ r[back] = [ns[back] EXCEPT !.parent = G]
      /\ \A n \in DOMAIN t : n # back => r[n] = t[n]
  BY <1>1, <1>5, <1>6
<1>10. r[back].parent = G /\ r[back].type = ns[back].type /\ r[back].flags = ns[back].flags
       /\ r[back].text = ns[back].text
  BY <1>1, <1>9 DEF Nodes
<1>11. back # Root
  BY <1>1, TreeTyped
<1>12. G # back
  BY <1>1, <1>2
<1>13. Len(r) = G
  BY <1>2, <1>5, <1>8, <1>9
<1>14. G = Len(ns) + 1
  OBVIOUS
<1> HIDE DEF t, G
<1>15. MovedTold(ns, r, g, back, G)
  BY <1>1, <1>2, <1>3, <1>4, <1>5, <1>8, <1>9, <1>10, <1>11, <1>12, <1>13, <1>14 DEF MovedTold
<1> QED BY <1>15 DEF G

\* A tree stays one when a node moves to a new group beside it: a path up gets longer by one,
\* which ranks that are doubled have room for.
LEMMA MovedTree ==
  ASSUME NEW ns, Tree(ns), NEW g \in DOMAIN ns, NEW back, NEW r, NEW G, MovedTold(ns, r, g, back, G),
         NEW P, back \notin P, P \subseteq DOMAIN ns
  PROVE  /\ Tree(r) /\ ChangedAt(ns, r, g, P)
         /\ Children(r, g) = (Children(ns, g) \ {back}) \cup {G}
         /\ \A n \in DOMAIN r : r[n].parent = G <=> n = back
<1>1. /\ r \in Seq(Nodes) /\ DOMAIN r = DOMAIN ns \cup {G} /\ G \notin DOMAIN ns
      /\ r[G].type = "any" /\ r[G].parent = g /\ r[back].parent = G /\ back # Root
      /\ \A n \in DOMAIN ns :
           r[n].type = ns[n].type /\ r[n].flags = ns[n].flags /\ r[n].text = ns[n].text
      /\ \A n \in DOMAIN ns : n # back => r[n] = ns[n]
  BY DEF MovedTold
<1>2. back \in DOMAIN ns /\ ns[back].parent = g /\ Root \in DOMAIN ns
      /\ ns[Root] = Group("all", {}, 0) /\ 0 \notin DOMAIN ns /\ ns[Root].parent = 0
  <2>1. DOMAIN ns = 1..Len(ns) /\ Len(ns) \in Nat /\ ns[Root].parent = 0
    BY TreeTyped
  <2>2. Root \in DOMAIN ns /\ ns[Root] = Group("all", {}, 0)
    BY DEF Tree
  <2>3. back \in DOMAIN ns /\ ns[back].parent = g
    BY DEF MovedTold
  <2> QED BY <2>1, <2>2, <2>3
<1>3. \A n \in DOMAIN ns : n # Root => ns[n].parent \in DOMAIN ns
  BY DEF Tree
<1>4. \A n \in DOMAIN ns : ns[n].parent # G
  BY <1>1, <1>2, <1>3
<1>5. \E max \in Nat : \E rank \in [DOMAIN r -> 0..max] :
        \A n \in DOMAIN r : n # Root => rank[n] < rank[r[n].parent]
  <2>1. PICK max \in Nat : \E rank \in [DOMAIN ns -> 0..max] :
          \A n \in DOMAIN ns : n # Root => rank[n] < rank[ns[n].parent]
    BY DEF Tree
  <2>2. PICK rank \in [DOMAIN ns -> 0..max] :
          \A n \in DOMAIN ns : n # Root => rank[n] < rank[ns[n].parent]
    BY <2>1
  <2> DEFINE up == [n \in DOMAIN r |-> IF n = G THEN 2 * rank[back] + 1 ELSE 2 * rank[n]]
  <2>3. \A n \in DOMAIN ns : rank[n] \in Nat /\ rank[n] <= max
    BY <2>2
  <2>4. up \in [DOMAIN r -> 0..(2 * max + 1)]
    <3> SUFFICES ASSUME NEW n \in DOMAIN r PROVE up[n] \in 0..(2 * max + 1)
      OBVIOUS
    <3>1. CASE n = G
      BY <1>2, <2>3, <3>1
    <3>2. CASE n # G
      BY <1>1, <2>3, <3>2
    <3> QED BY <3>1, <3>2
  <2>5. up[G] = 2 * rank[back] + 1 /\ \A n \in DOMAIN ns : up[n] = 2 * rank[n]
    BY <1>1
  <2> HIDE DEF up
  <2>6. ASSUME NEW n \in DOMAIN r, n # Root PROVE up[n] < up[r[n].parent]
    <3>1. CASE n = G
      <4>1. rank[back] < rank[g]
        BY <1>1, <1>2, <2>2
      <4> QED BY <1>1, <1>2, <2>3, <2>5, <3>1, <4>1
    <3>2. CASE n = back
      BY <1>1, <1>2, <2>3, <2>5, <3>2
    <3>3. CASE n # G /\ n # back
      <4>1. n \in DOMAIN ns /\ r[n].parent = ns[n].parent /\ ns[n].parent \in DOMAIN ns
        BY <1>1, <1>3, <2>6, <3>3
      <4>2. rank[n] < rank[ns[n].parent]
        BY <2>2, <2>6, <4>1
      <4> QED BY <2>3, <2>5, <4>1, <4>2
    <3> QED BY <3>1, <3>2, <3>3
  <2>7. 2 * max + 1 \in Nat
    OBVIOUS
  <2> QED BY <2>4, <2>6, <2>7
<1>6. \A n \in DOMAIN r : n # Root => r[n].parent \in DOMAIN r
  BY <1>1, <1>2, <1>3
<1>7. Tree(r)
  BY <1>1, <1>2, <1>5, <1>6 DEF Tree
<1>8. ChangedAt(ns, r, g, P)
  <2>1. \A n \in DOMAIN ns \ {g} : Children(r, n) = Children(ns, n)
    BY <1>1, <1>2 DEF Children
  <2> QED BY <1>1, <2>1 DEF ChangedAt
<1>9. Children(r, g) = (Children(ns, g) \ {back}) \cup {G}
  BY <1>1, <1>2 DEF Children
<1>10. \A n \in DOMAIN r : r[n].parent = G <=> n = back
  BY <1>1, <1>2, <1>4
<1> QED BY <1>7, <1>8, <1>9, <1>10

\* The cursor is in the last group of all or in its chain.
AtCursor(ns, g, ls, j, A, C, a, D) ==
  /\ Tree(ns) /\ ls \in Seq(Levels) /\ Len(ls) \in Nat /\ Len(ls) >= 1 /\ Len(ls) \in 1..Len(ls)
  /\ A \in [1..Len(ls) -> DOMAIN ns] /\ C \in [1..Len(ls) -> SUBSET DOMAIN ns]
  /\ a = A[Len(ls)] /\ D = C[Len(ls)] /\ ls[Len(ls)] \in Levels
  /\ a \in DOMAIN ns /\ D \subseteq DOMAIN ns /\ g \in DOMAIN ns /\ a \notin D
  /\ OrChain(ns, a, D) /\ (D # {} <=> j) /\ ns[a].type = "all"
  /\ D = {} => g = a
  /\ D # {} => g \in D /\ g # a /\ Children(ns, a) # {}
  /\ ls[Len(ls)].empty <=> Children(ns, a) = {}
  /\ "not" \in ns[a].flags <=> ls[Len(ls)].not
  /\ Path(ls, A, C) \subseteq DOMAIN ns /\ D \subseteq Path(ls, A, C) /\ a \in Path(ls, A, C)
  /\ Hole(A, Len(ls)) = {}
  /\ \A row \in Universe : \A v : Solves(ns, row, v) => Means(ns, v, row, a, D, {}, ls[Len(ls)])

\* What the groups tell is true of the last level, with the cursor in its groups.
LEMMA Cursor ==
  ASSUME NEW ns, NEW g, NEW ls, NEW j, NEW A, NEW C, Holds(ns, g, ls, j, A, C)
  PROVE  AtCursor(ns, g, ls, j, A, C, A[Len(ls)], C[Len(ls)])
<1> DEFINE a == A[Len(ls)]
           D == C[Len(ls)]
<1>1. /\ Tree(ns) /\ ls \in Seq(Levels) /\ Len(ls) \in Nat /\ Len(ls) >= 1
      /\ Opened(ns, g, ls, j, A, C) /\ AllMean(ns, ls, A, C, Len(ls))
  BY DEF Holds
<1>2. Len(ls) \in 1..Len(ls) /\ ls[Len(ls)] \in Levels
  BY <1>1
<1>3. PathTold(ns, g, ls, A, C)
  BY <1>1, OnPath
<1>4. A \in [1..Len(ls) -> DOMAIN ns] /\ C \in [1..Len(ls) -> SUBSET DOMAIN ns]
  BY <1>1 DEF Opened
<1>5. a \in DOMAIN ns /\ D \subseteq DOMAIN ns /\ g \in DOMAIN ns /\ a \notin D
      /\ Path(ls, A, C) \subseteq DOMAIN ns /\ D \subseteq Path(ls, A, C) /\ a \in Path(ls, A, C)
  BY <1>2, <1>3 DEF PathTold
<1>6. OrChain(ns, a, D) /\ ns[a].type = "all" /\ ("not" \in ns[a].flags <=> ls[Len(ls)].not)
      /\ (ls[Len(ls)].empty <=> Children(ns, a) = {})
  BY <1>1, <1>2 DEF Opened, Holds
<1>7. D # {} <=> j
  BY <1>1, <1>2 DEF Opened, OrAfter
<1>8. D = {} => g = a
  BY <1>1 DEF Opened, Spot
<1>9. D # {} => g \in D /\ g # a /\ Children(ns, a) # {}
  BY <1>1, <1>5, <1>6 DEF Opened, Spot, OrChain
<1>10. Hole(A, Len(ls)) = {}
  BY <1>1, <1>4 DEF Hole
<1>11. \A row \in Universe : \A v : Solves(ns, row, v) => Means(ns, v, row, a, D, {}, ls[Len(ls)])
  BY <1>1, <1>2, <1>10 DEF AllMean
<1> HIDE DEF a, D
<1>12. AtCursor(ns, g, ls, j, A, C, a, D)
  BY <1>1, <1>2, <1>4, <1>5, <1>6, <1>7, <1>8, <1>9, <1>10, <1>11 DEF AtCursor, a, D
<1> QED BY <1>12 DEF a, D

\* The levels below the last one are told as well.
LEMMA AllBelow ==
  ASSUME NEW ns, NEW g, NEW ls, NEW j, NEW A, NEW C, Holds(ns, g, ls, j, A, C)
  PROVE  HoldsBelow(ns, g, ls, j, A, C)
<1>1. 1..Len(ls) - 1 \subseteq 1..Len(ls)
  BY DEF Holds
<1> QED BY <1>1 DEF Holds, HoldsBelow, AllMean


\* OR after a group of type MatchAny: what comes next goes there.
LEMMA OrAny ==
  ASSUME NEW ns, NEW g, NEW ls, NEW j, Told(ns, g, ls, j),
         NEW back, back \in Children(ns, g), back = Max(Children(ns, g)), ns[back].type = "any"
  PROVE  Told(ns, back, ls, TRUE)
<1>0. PICK A, C : Holds(ns, g, ls, j, A, C)
  BY DEF Told
<1>1. PICK a, E : a = A[Len(ls)] /\ E = C[Len(ls)]
  OBVIOUS
<1>2. AtCursor(ns, g, ls, j, A, C, a, E)
  BY <1>0, <1>1, Cursor
<1> DEFINE K == Children(ns, a)
           D == E \cup {back}
           level == ls[Len(ls)]
<1>3. back \in DOMAIN ns /\ ns[back].parent = g
  BY DEF Children
<1>4. Tree(ns) /\ (E = {} => g = a) /\ (E # {} => g \in E /\ g # a) /\ OrChain(ns, a, E) /\ level \in Levels
  BY <1>2 DEF AtCursor
<1>5. K # {} /\ Max(K) \in D
  BY <1>4 DEF OrChain
<1>6. OrChain(ns, a, D)
  <2>1. \A c \in D : ns[c].parent = a => c = Max(K)
    BY <1>3, <1>4 DEF OrChain
  <2> HIDE DEF K
  <2> QED BY <1>3, <1>4, <1>5, <2>1 DEF OrChain, K
<1>7. \A row \in Universe : \A w : Solves(ns, row, w) => Means(ns, w, row, a, D, {}, level)
  <2> SUFFICES ASSUME NEW row \in Universe, NEW w, Solves(ns, row, w)
               PROVE  Means(ns, w, row, a, D, {}, level)
    OBVIOUS
  <2> HIDE DEF level, D
  <2>1. Means(ns, w, row, a, E, {}, level)
    BY <1>2 DEF AtCursor, level
  <2>2. /\ (\A n \in K \ {Max(K)} : w[n]) <=> row \in level.operands
        /\ w[Max(K)] <=> row \in level.last
    BY <1>4, <1>5, <2>1, LastSays
  <2> QED BY <1>4, <1>5, <1>6, <2>2, LastSays
<1>8. \A k \in 1..Len(ls) - 1 : D \cap C[k] = {}
  <2>1. Len(ls) \in Nat /\ Len(ls) >= 1 /\ Opened(ns, g, ls, j, A, C)
    BY <1>0 DEF Holds
  <2>2. \A k \in 1..Len(ls) - 1 : back \notin C[k]
    <3>1. Tree(ns) /\ ns[back].parent = g
      BY <1>3, <1>4
    <3>2. OffPath(ls, A, C, back)
      BY <2>1, <3>1, InCursor
    <3> QED BY <3>2 DEF OffPath
  <2> TAKE k \in 1..Len(ls) - 1
  <2>3. k \in 1..Len(ls) /\ k # Len(ls) /\ Len(ls) \in 1..Len(ls)
    BY <2>1
  <2>4. E \cap C[k] = {}
    BY <1>1, <2>1, <2>3 DEF Opened
  <2> QED BY <2>2, <2>4
<1>9. ChangedAt(ns, ns, g, Path(ls, A, C))
  BY DEF ChangedAt
<1>10. level.empty <=> K = {}
  BY <1>2 DEF AtCursor
<1>11. Becomes(ns, g, ls, A, C, ns, a, D, back, TRUE, level)
  <2>1. D # {} /\ back \in Spot(a, D)
    BY DEF Spot
  <2> HIDE DEF D
  <2> QED BY <1>1, <1>4, <1>6, <1>7, <1>8, <1>9, <1>10, <2>1 DEF Becomes
<1>12. Told(ns, back, [ls EXCEPT ![Len(ls)] = level], TRUE)
  <2> HIDE DEF level, D
  <2> QED BY <1>0, <1>11, AllBelow, TopBecomes
<1>13. [ls EXCEPT ![Len(ls)] = level] = ls
  BY <1>2 DEF AtCursor
<1> QED BY <1>12, <1>13

\* OR after anything else, which moves to a new group.
LEMMA OrNew ==
  ASSUME NEW ns, NEW g, NEW ls, NEW j, Told(ns, g, ls, j),
         NEW back, back \in Children(ns, g), back = Max(Children(ns, g)), ns[back].type # "any",
         NEW r, Moved(ns, r, g, back), NEW G, G = Len(ns) + 1
  PROVE  Told(r, G, ls, TRUE)
<1>0. PICK A, C : Holds(ns, g, ls, j, A, C)
  BY DEF Told
<1>1. PICK a, E : a = A[Len(ls)] /\ E = C[Len(ls)]
  OBVIOUS
<1>2. AtCursor(ns, g, ls, j, A, C, a, E)
  BY <1>0, <1>1, Cursor
<1> DEFINE K == Children(ns, a)
           D == E \cup {G}
           level == ls[Len(ls)]
           P == Path(ls, A, C)
<1>3. back \in DOMAIN ns /\ ns[back].parent = g
  BY DEF Children
<1>4. /\ Tree(ns) /\ (E = {} => g = a) /\ (E # {} => g \in E /\ g # a /\ K # {}) /\ OrChain(ns, a, E)
      /\ level \in Levels /\ g \in DOMAIN ns /\ E \subseteq DOMAIN ns /\ P \subseteq DOMAIN ns
      /\ a \in DOMAIN ns /\ a \notin E
  BY <1>2 DEF AtCursor
<1>5. K # {} /\ back \notin E
  BY <1>4 DEF OrChain
<1>6. /\ Len(ls) \in Nat /\ Len(ls) >= 1 /\ Opened(ns, g, ls, j, A, C)
  BY <1>0 DEF Holds
<1>7. back \notin P
  <2>1. OffPath(ls, A, C, back)
    BY <1>3, <1>4, <1>6, InCursor
  <2> QED BY <1>1, <1>5, <2>1 DEF OffPath
<1>8. MovedTold(ns, r, g, back, G)
  BY <1>4, MovedNodes
<1>9. /\ Tree(r) /\ ChangedAt(ns, r, g, P)
      /\ Children(r, g) = (Children(ns, g) \ {back}) \cup {G}
      /\ \A n \in DOMAIN r : r[n].parent = G <=> n = back
  <2> HIDE DEF P
  <2> QED BY <1>4, <1>7, <1>8, MovedTree
<1>10. /\ DOMAIN r = DOMAIN ns \cup {G} /\ G \notin DOMAIN ns
       /\ r[G].type = "any" /\ r[G].parent = g /\ r[back].parent = G
       /\ \A n \in DOMAIN ns : r[n].type = ns[n].type
       /\ \A n \in DOMAIN ns : n # back => r[n] = ns[n]
  BY <1>8 DEF MovedTold
<1>11. E = {} => Children(r, a) = (K \ {Max(K)}) \cup {G} /\ Max(Children(r, a)) = G /\ back = Max(K)
  <2> SUFFICES ASSUME E = {}
               PROVE  Children(r, a) = (K \ {Max(K)}) \cup {G} /\ Max(Children(r, a)) = G /\ back = Max(K)
    OBVIOUS
  <2>1. g = a /\ back = Max(K) /\ Children(r, a) = (K \ {back}) \cup {G}
    BY <1>4, <1>9
  <2>2. Len(ns) \in Nat /\ K \subseteq 1..Len(ns) /\ G = Len(ns) + 1
    BY <1>4, TreeTyped
  <2>3. G \in Nat /\ Children(r, a) \subseteq 1..G /\ G \in Children(r, a)
    <3> HIDE DEF K
    <3>1. G \in Nat /\ G \in 1..G /\ 1..Len(ns) \subseteq 1..G
      BY <2>2
    <3> QED BY <2>1, <2>2, <3>1
  <2>4. \A c \in Children(r, a) : c <= G
    BY <2>3
  <2>5. Max(Children(r, a)) = G
    BY <2>3, <2>4, MaxUnique
  <2> QED BY <2>1, <2>5
<1>12. E # {} => Children(r, a) = K /\ Max(K) \in E
  BY <1>4, <1>9 DEF ChangedAt, OrChain
<1>13. OrChain(r, a, D)
  <2>1. \A c \in E : c # back /\ r[c].type = "any" /\ r[c].parent = ns[c].parent /\ ns[c].parent \in E \cup {a}
    BY <1>4, <1>5, <1>10 DEF OrChain
  <2>2. D \subseteq DOMAIN r /\ \A c \in D : r[c].type = "any" /\ r[c].parent \in D \cup {a}
    BY <1>4, <1>10, <2>1
  <2>3. Children(r, a) # {} /\ Max(Children(r, a)) \in D
    <3> HIDE DEF K
    <3> QED BY <1>5, <1>11, <1>12
  <2>4. \A c \in D : r[c].parent = a => c = Max(Children(r, a))
    <3>1. CASE E = {}
      BY <1>11, <3>1
    <3>2. CASE E # {}
      BY <1>4, <1>10, <1>12, <2>1, <3>2 DEF OrChain
    <3> QED BY <3>1, <3>2
  <2> HIDE DEF D
  <2> QED BY <2>2, <2>3, <2>4 DEF OrChain
<1>14. \A row \in Universe : \A w : Solves(r, row, w) => Means(r, w, row, a, D, {}, level)
  <2> SUFFICES ASSUME NEW row \in Universe, NEW w, Solves(r, row, w)
               PROVE  Means(r, w, row, a, D, {}, level)
    OBVIOUS
  <2>1. PICK v : Solves(ns, row, v)
    BY <1>4, Solved
  <2>2. Means(ns, v, row, a, E, {}, level)
    BY <1>2, <2>1 DEF AtCursor
  <2>3. \A n \in DOMAIN ns \ P : w[n] = v[n]
    BY <1>4, <1>6, <1>9, <2>1, OtherLevels
  <2>4. /\ (\A n \in K \ {Max(K)} : v[n]) <=> row \in level.operands
        /\ v[Max(K)] <=> row \in level.last
    <3> HIDE DEF level
    <3> QED BY <1>4, <1>5, <2>1, <2>2, LastSays
  <2>5. w[back] = v[back]
    BY <1>3, <1>7, <2>3
  <2>6. /\ Leaves(ns, A[Len(ls)], C[Len(ls)], Hole(A, Len(ls))) \subseteq DOMAIN ns \ P
        /\ Hole(A, Len(ls)) = {} /\ a = A[Len(ls)] /\ E = C[Len(ls)]
    BY <1>1, <1>2, <1>4, <1>6, LeavesOff DEF AtCursor
  <2>7. \A n \in Leaves(ns, a, E, {}) : w[n] = v[n]
    BY <2>3, <2>6
  <2>8. \A n \in K \ {Max(K)} : w[n] = v[n]
    BY <2>7 DEF Leaves
  <2>9. (\E n \in DOMAIN r \ (D \cup {}) : r[n].parent \in D /\ w[n]) <=> v[Max(K)]
    <3>1. CASE E = {}
      <4>1. D = {G} /\ back \in DOMAIN r \ D /\ back = Max(K)
        BY <1>3, <1>10, <1>11, <3>1
      <4> HIDE DEF K, D
      <4> QED BY <1>9, <2>5, <4>1
    <3>2. CASE E # {}
      <4>1. v[Max(K)] <=> \E n \in DOMAIN ns \ E : ns[n].parent \in E /\ v[n]
        BY <1>4, <2>1, <3>2, ChainSays
      <4>2. \A n : n \in DOMAIN r \ (D \cup {}) /\ r[n].parent \in D
                   <=> n \in DOMAIN ns \ E /\ ns[n].parent \in E
        <5> TAKE n
        <5>1. CASE n = back
          BY <1>3, <1>4, <1>5, <1>10, <3>2, <5>1
        <5>2. CASE n # back
          BY <1>4, <1>9, <1>10, <5>2
        <5> QED BY <5>1, <5>2
      <4>3. \A n \in DOMAIN ns \ E : ns[n].parent \in E => w[n] = v[n]
        BY <2>7, <3>2 DEF Leaves
      <4> HIDE DEF K, D
      <4> QED BY <4>1, <4>2, <4>3
    <3> QED BY <3>1, <3>2
  <2>10. Children(r, a) # {} /\ Children(r, a) \ {Max(Children(r, a))} = K \ {Max(K)}
    <3>1. CASE E = {}
      <4>1. G \notin K
        BY <1>10 DEF Children
      <4> HIDE DEF K
      <4> QED BY <1>11, <3>1, <4>1
    <3>2. CASE E # {}
      BY <1>5, <1>12, <3>2
    <3> QED BY <3>1, <3>2
  <2>11. D # {}
    OBVIOUS
  <2> HIDE DEF K, D, level
  <2> QED BY <2>4, <2>8, <2>9, <2>10, <2>11 DEF Means
<1>15. \A k \in 1..Len(ls) - 1 : D \cap C[k] = {}
  <2> TAKE k \in 1..Len(ls) - 1
  <2>1. k \in 1..Len(ls) /\ k # Len(ls) /\ Len(ls) \in 1..Len(ls)
    BY <1>6
  <2>2. E \cap C[k] = {} /\ C[k] \subseteq DOMAIN ns
    BY <1>1, <1>6, <2>1 DEF Opened
  <2> QED BY <1>10, <2>2
<1>16. level.empty <=> Children(r, a) = {}
  <2>1. Children(r, a) # {}
    <3> HIDE DEF K
    <3> QED BY <1>5, <1>11, <1>12
  <2> QED BY <1>2, <1>5, <2>1 DEF AtCursor
<1>17. Becomes(ns, g, ls, A, C, r, a, D, G, TRUE, level)
  <2>1. D # {} /\ G \in Spot(a, D)
    BY DEF Spot
  <2> HIDE DEF D
  <2> QED BY <1>1, <1>4, <1>9, <1>13, <1>14, <1>15, <1>16, <2>1 DEF Becomes
<1>18. Told(r, G, [ls EXCEPT ![Len(ls)] = level], TRUE)
  <2> HIDE DEF level, D
  <2> QED BY <1>0, <1>17, AllBelow, TopBecomes
<1>19. [ls EXCEPT ![Len(ls)] = level] = ls
  BY <1>2 DEF AtCursor
<1> QED BY <1>18, <1>19

-----------------------------------------------------------------------------
(* The nearest group of type MatchAll *)

\* What NearestAll has at a node.
Upward(ns, f) ==
  f = [n \in 0..Len(ns) |-> IF n = 0 \/ ns[n].type = "all" THEN n ELSE f[ns[n].parent]]

\* NearestAll has a value at every node: the way up ends.
LEMMA UpwardExists ==
  ASSUME NEW ns, Tree(ns)
  PROVE  \E f : Upward(ns, f)
<1> DEFINE D == 0..Len(ns)
           eq == [n \in D |-> [f \in [D -> D] |->
                   IF n = 0 \/ ns[n].type = "all" THEN n ELSE f[ns[n].parent]]]
<1>1. PICK max \in Nat : \E rank \in [DOMAIN ns -> 0..max] :
        \A n \in DOMAIN ns : n # Root => rank[n] < rank[ns[n].parent]
  BY DEF Tree
<1>2. PICK rank \in [DOMAIN ns -> 0..max] : \A n \in DOMAIN ns : n # Root => rank[n] < rank[ns[n].parent]
  BY <1>1
<1>3. /\ Len(ns) \in Nat /\ DOMAIN ns = 1..Len(ns) /\ Root \in DOMAIN ns /\ ns[Root].parent = 0
      /\ \A n \in DOMAIN ns : n # Root => ns[n].parent \in DOMAIN ns
  BY TreeTyped DEF Tree
<1>4. /\ \A n \in D : n # 0 => n \in DOMAIN ns /\ ns[n].parent \in D
      /\ \A n \in DOMAIN ns : n \in D /\ n # 0 /\ rank[n] \in 0..max
  BY <1>2, <1>3
<1> DEFINE low == [n \in D |-> IF n = 0 THEN 0 ELSE 1 + max - rank[n]]
<1>5. low \in [D -> 0..(max + 1)]
  <2> SUFFICES ASSUME NEW n \in D PROVE low[n] \in 0..(max + 1)
    OBVIOUS
  <2>1. CASE n = 0
    BY <2>1
  <2>2. CASE n # 0
    <3>1. rank[n] \in 0..max
      BY <1>4, <2>2
    <3> QED BY <2>2, <3>1
  <2> QED BY <2>1, <2>2
<1>6. ASSUME NEW n \in D, n # 0 PROVE low[ns[n].parent] < low[n]
  <2>1. n \in DOMAIN ns /\ rank[n] \in 0..max
    BY <1>4, <1>6
  <2>2. CASE n = Root
    BY <1>3, <1>6, <2>1, <2>2
  <2>3. CASE n # Root
    <3>1. ns[n].parent \in DOMAIN ns /\ rank[n] < rank[ns[n].parent]
      BY <1>2, <1>3, <2>1, <2>3
    <3>2. rank[ns[n].parent] \in 0..max /\ ns[n].parent \in D /\ ns[n].parent # 0
      BY <1>4, <3>1
    <3> QED BY <1>6, <2>1, <3>1, <3>2
  <2> QED BY <2>2, <2>3
<1>7. eq \in [D -> [[D -> D] -> D]]
  <2> SUFFICES ASSUME NEW n \in D, NEW f \in [D -> D]
               PROVE  (IF n = 0 \/ ns[n].type = "all" THEN n ELSE f[ns[n].parent]) \in D
    OBVIOUS
  <2> HIDE DEF D
  <2> QED BY <1>4
<1>8. ASSUME NEW n \in D, NEW f \in [D -> D], NEW h \in [D -> D],
             \A m \in D : low[m] < low[n] => f[m] = h[m]
      PROVE  eq[n][f] = eq[n][h]
  <2>1. n # 0 => f[ns[n].parent] = h[ns[n].parent]
    <3> HIDE DEF low, D, eq
    <3> QED BY <1>4, <1>6, <1>8
  <2> QED BY <2>1
<1>9. PICK f : Obeys(D, D, eq, f)
  <2>1. max + 1 \in Nat /\ 0 \in D
    BY <1>3
  <2> HIDE DEF eq, D, low
  <2>2. LooksDown(D, D, low, eq)
    BY <1>7, <1>8 DEF LooksDown
  <2>3. D # {} /\ Ranks(D, low, max + 1)
    BY <1>5, <2>1 DEF Ranks
  <2> QED BY <2>2, <2>3, Recursion
<1>10. Upward(ns, f)
  BY <1>9 DEF Obeys, Upward
<1> QED BY <1>10

\* From the groups that OR opened in a group of type MatchAll, the nearest one is that group.
LEMMA NearestIs ==
  ASSUME Tree(nodes)
  PROVE  /\ NearestAll(0) = 0
         /\ \A a \in DOMAIN nodes : \A D : \A g \in Spot(a, D) :
              OrChain(nodes, a, D) /\ nodes[a].type = "all" => NearestAll(g) = a
<1>1. \E f : f = [n \in 0..Len(nodes) |->
                   IF n = 0 \/ nodes[n].type = "all" THEN n ELSE f[nodes[n].parent]]
  BY UpwardExists DEF Upward
<1>2. PICK f : /\ f = [n \in 0..Len(nodes) |->
                   IF n = 0 \/ nodes[n].type = "all" THEN n ELSE f[nodes[n].parent]]
               /\ \A g : NearestAll(g) = f[g]
  BY <1>1 DEF NearestAll
<1>3. Len(nodes) \in Nat /\ DOMAIN nodes = 1..Len(nodes)
  BY TreeTyped
<1>4. NearestAll(0) = 0
  BY <1>2, <1>3
<1>5. ASSUME NEW a \in DOMAIN nodes, NEW D, OrChain(nodes, a, D), nodes[a].type = "all", NEW g \in Spot(a, D)
      PROVE  f[g] = a
  <2>1. f[a] = a
    BY <1>2, <1>3, <1>5
  <2>2. \A c \in D : c \in DOMAIN nodes /\ nodes[c].type = "any" /\ nodes[c].parent \in D \cup {a}
    BY <1>5 DEF OrChain
  <2>3. \A c \in D : f[c] = f[nodes[c].parent]
    BY <1>2, <1>3, <2>2
  <2>4. \A c \in D : c # Root
    BY <2>2, TreeTyped
  <2>5. PICK max \in Nat : \E rank \in [DOMAIN nodes -> 0..max] :
          \A n \in DOMAIN nodes : n # Root => rank[n] < rank[nodes[n].parent]
    BY DEF Tree
  <2>6. PICK rank \in [DOMAIN nodes -> 0..max] :
          \A n \in DOMAIN nodes : n # Root => rank[n] < rank[nodes[n].parent]
    BY <2>5
  <2>7. \A c \in D : f[c] = a
    <3> SUFFICES ASSUME NEW b \in D, f[b] # a PROVE FALSE
      OBVIOUS
    <3> DEFINE T == {max - rank[c] : c \in {c \in D : f[c] # a}}
    <3>1. T \in SUBSET Nat /\ T # {}
      BY <2>2
    <3>2. PICK t \in T : \A k \in T : t <= k
      <4> HIDE DEF T
      <4> QED BY <3>1, LeastNat
    <3>3. PICK c \in D : f[c] # a /\ max - rank[c] = t
      BY <3>2
    <3>4. nodes[c].parent \in D /\ f[nodes[c].parent] # a
      BY <2>1, <2>2, <2>3, <3>3
    <3>5. max - rank[nodes[c].parent] \in T
      BY <3>4
    <3>6. rank[c] < rank[nodes[c].parent] /\ rank[c] \in 0..max /\ rank[nodes[c].parent] \in 0..max
      BY <2>2, <2>4, <2>6, <3>4
    <3>7. t <= max - rank[nodes[c].parent]
      <4> HIDE DEF T
      <4> QED BY <3>2, <3>5
    <3> QED BY <3>3, <3>6, <3>7
  <2> QED BY <1>5, <2>1, <2>7 DEF Spot
<1> QED BY <1>2, <1>4, <1>5

-----------------------------------------------------------------------------
(* Words *)

\* New nodes of which the first one says the rows are an operand of the level.
LEMMA OperandTold ==
  ASSUME NEW ns, NEW g, NEW ls, NEW j \in BOOLEAN, NEW A, NEW C, Holds(ns, g, ls, j, A, C),
         NEW r, Grown(ns, r, g), NEW matched \in SUBSET Universe,
         \A row \in Universe : \A w : Solves(r, row, w) => (w[Len(ns) + 1] <=> row \in matched)
  PROVE  Told(r, A[Len(ls)], [ls EXCEPT ![Len(ls)] = WithOperand(ls[Len(ls)], j, matched)], FALSE)
<1>1. PICK a, E, level, x : a = A[Len(ls)] /\ E = C[Len(ls)] /\ level = ls[Len(ls)] /\ x = Len(ns) + 1
  OBVIOUS
<1>2. AtCursor(ns, g, ls, j, A, C, a, E)
  BY <1>1, Cursor
<1>3. /\ Tree(ns) /\ (E # {} <=> j) /\ level \in Levels /\ g \in DOMAIN ns /\ a \in DOMAIN ns
      /\ E \subseteq DOMAIN ns /\ Path(ls, A, C) \subseteq DOMAIN ns
  BY <1>1, <1>2 DEF AtCursor
<1>4. /\ OrChain(r, a, E) /\ x \in DOMAIN r \ E /\ r[x].parent \in Spot(a, E)
      /\ E = {} => x = Max(Children(r, a))
      /\ \A row \in Universe : \A w : Solves(r, row, w) => Means(r, w, row, a, E, {x}, level)
  <2>1. PlacedIn(ns, r, a, E, level)
    BY <1>1, GrownMeans DEF Holds
  <2> QED BY <1>1, <2>1 DEF PlacedIn
<1>5. Tree(r) /\ ChangedAt(ns, r, g, Path(ls, A, C))
  BY <1>3, GrownTree
<1> DEFINE new == WithOperand(level, j, matched)
<1>6. /\ new \in Levels /\ new.not = level.not /\ new.or = level.or /\ new.empty = FALSE
  BY <1>3 DEF WithOperand, Levels
<1>7. \A row \in Universe : \A w : Solves(r, row, w) => Means(r, w, row, a, {}, {}, new)
  <2> SUFFICES ASSUME NEW row \in Universe, NEW w, Solves(r, row, w)
               PROVE  Means(r, w, row, a, {}, {}, new)
    OBVIOUS
  <2>1. w[x] <=> row \in matched
    BY <1>1
  <2> QED BY <1>3, <1>4, <1>5, <2>1, HoleFilled
<1>8. Children(r, a) # {}
  <2>1. CASE E = {}
    BY <1>4, <2>1 DEF Spot, Children
  <2>2. CASE E # {}
    BY <1>4, <2>2 DEF OrChain
  <2> QED BY <2>1, <2>2
<1>9. OrChain(r, a, {}) /\ a \in Spot(a, {})
  BY DEF OrChain, Spot
<1> HIDE DEF new
<1>10. Becomes(ns, g, ls, A, C, r, a, {}, a, FALSE, new)
  BY <1>1, <1>5, <1>6, <1>7, <1>8, <1>9 DEF Becomes
<1>11. Told(r, a, [ls EXCEPT ![Len(ls)] = new], FALSE)
  BY <1>10, AllBelow, TopBecomes
<1> QED BY <1>1, <1>11 DEF new

\* NOT before a word matches the rows that the word does not.
LEMMA NotToken ==
  ASSUME NEW text, NEW fl, "not" \notin fl, NEW row \in Universe
  PROVE  matchToken(text, fl \cup {"not"}, row) = ~matchToken(text, fl, row)
<1> DEFINE same(str) == matchRow(text, fl \cup {"not"}, str) = matchRow(text, fl, str)
<1>1. \A str : same(str)
  BY DEF matchRow
<1>2. matchToken(text, fl \cup {"not"}, row)
        = (Len(row) > 0 /\ \A i \in DOMAIN row : ~matchRow(text, fl \cup {"not"}, row[i]))
  BY DEF matchToken
<1>3. matchToken(text, fl, row) = \E i \in DOMAIN row : matchRow(text, fl, row[i])
  BY DEF matchToken
<1>4. Len(row) > 0
  BY WordAssumption
<1> QED BY <1>1, <1>2, <1>3, <1>4

\* A word without synonyms: the tree tells the level with one more operand.
LEMMA TokenTold ==
  ASSUME FilterInv, NEW w \in Words, ~Expanded(w), pushToken(w), AddOperand(MeaningOf(w))
  PROVE  FilterInv'
<1>0. PICK A, C : Holds(nodes, group, levels, join, A, C)
  BY DEF FilterInv, Told
<1>1. PICK r, x, a, E : /\ r = nodes' /\ x = Len(nodes) + 1
                        /\ a = A[Len(levels)] /\ E = C[Len(levels)]
  OBVIOUS
<1>2. AtCursor(nodes, group, levels, join, A, C, a, E)
  BY <1>0, <1>1, Cursor
<1>3. Tree(nodes) /\ group \in DOMAIN nodes
  BY <1>2 DEF AtCursor
<1>4. flags \subseteq {"not"} /\ negate \in BOOLEAN /\ join \in BOOLEAN /\ ("not" \in flags <=> negate)
  BY DEF FilterInv
<1>5. w.flags \subseteq {"start", "end", "literal", "full"} /\ w.text \in TokenTexts
  BY WordAssumption DEF TokenTexts
<1> DEFINE matched == Negated(negate, MeaningOf(w))
           fl == flags \cup w.flags
           new == Token(w.text, fl, group)
<1>6. MeaningOf(w) = Matching(w.text, w.flags)
  BY DEF MeaningOf
<1>7. matched \in SUBSET Universe
  BY <1>6 DEF Negated, Matching
<1>8. Grown(nodes, r, group) /\ r[x] = new
  <2>1. new \in Nodes /\ new.parent = group
    <3>1. DOMAIN nodes = 1..Len(nodes)
      BY <1>3, TreeTyped
    <3>2. group \in Nat
      BY <1>3, <3>1
    <3>3. fl \subseteq Flags
      BY <1>4, <1>5 DEF Flags
    <3> HIDE DEF fl
    <3> QED BY <1>5, <3>2, <3>3 DEF Token, Nodes
  <2>2. nodes \in Seq(Nodes) /\ Len(nodes) \in Nat
    BY <1>3, TreeTyped DEF Tree
  <2>3. r = Append(nodes, new)
    BY <1>1 DEF pushToken
  <2> HIDE DEF new
  <2>4. r \in Seq(Nodes) /\ Len(r) = Len(nodes) + 1 /\ r[Len(nodes) + 1] = new
        /\ \A n \in 1..Len(nodes) : r[n] = nodes[n]
    BY <2>1, <2>2, <2>3
  <2>5. (Len(nodes) + 2)..Len(r) = {}
    BY <2>2, <2>4
  <2> QED BY <1>1, <2>1, <2>2, <2>4, <2>5 DEF Grown
<1>9. \A row \in Universe : \A v : Solves(r, row, v) => (v[x] <=> row \in matched)
  <2> SUFFICES ASSUME NEW row \in Universe, NEW v, Solves(r, row, v) PROVE v[x] <=> row \in matched
    OBVIOUS
  <2>1. x \in DOMAIN r
    <3>1. Tree(r) /\ x \in DOMAIN r \ DOMAIN nodes
      BY <1>1, <1>3, <1>8, GrownTree
    <3> QED BY <3>1
  <2>2. v[x] = Value(r, row, v, x)
    BY <2>1 DEF Solves
  <2>3. v[x] = matchToken(w.text, fl, row)
    BY <1>8, <2>2 DEF Value, Token
  <2>4. matchToken(w.text, w.flags \cup {"not"}, row) = ~matchToken(w.text, w.flags, row)
    BY <1>5, NotToken
  <2>5. matchToken(w.text, w.flags, row) \in BOOLEAN
    BY DEF matchToken
  <2>6. row \in Matching(w.text, w.flags) <=> matchToken(w.text, w.flags, row)
    BY DEF Matching
  <2>7. CASE negate = TRUE
    <3>1. matched = Universe \ MeaningOf(w)
      BY <2>7 DEF Negated
    <3>2. fl = w.flags \cup {"not"}
      BY <1>4, <2>7
    <3> QED BY <1>6, <2>3, <2>4, <2>5, <2>6, <3>1, <3>2
  <2>8. CASE negate = FALSE
    <3>1. matched = MeaningOf(w)
      BY <2>8 DEF Negated
    <3>2. fl = w.flags
      BY <1>4, <2>8
    <3> QED BY <1>6, <2>3, <2>6, <3>1, <3>2
  <2> QED BY <1>4, <2>7, <2>8
<1> HIDE DEF matched, new, fl
<1>10. Told(r, a, [levels EXCEPT ![Len(levels)] = WithOperand(levels[Len(levels)], join, matched)], FALSE)
  BY <1>0, <1>1, <1>4, <1>7, <1>8, <1>9, OperandTold
<1>11. group' = a
  BY <1>2, NearestIs DEF AtCursor, pushToken, Spot
<1>12. /\ levels' = [levels EXCEPT ![Len(levels)] = WithOperand(levels[Len(levels)], join, matched)]
       /\ negate' = FALSE /\ join' = FALSE /\ flags' = {}
  BY <1>2 DEF AddOperand, matched, pushToken, AtCursor
<1> QED BY <1>1, <1>10, <1>11, <1>12 DEF FilterInv

-----------------------------------------------------------------------------
(* Words that have synonyms *)

\* Nodes after others.
Joins(s, t, r) ==
  /\ r \in Seq(Nodes) /\ Len(r) = Len(s) + Len(t)
  /\ \A n \in 1..Len(s) : r[n] = s[n]
  /\ \A i \in 1..Len(t) : r[Len(s) + i] = t[i]

\* A sequence after another.
LEMMA JoinedGroups ==
  ASSUME NEW s \in Seq(Nodes), NEW t \in Seq(Nodes)
  PROVE  Joins(s, t, s \o t)
<1> DEFINE r == s \o t
<1>1. /\ r \in Seq(Nodes) /\ Len(r) = Len(s) + Len(t)
      /\ \A n \in 1..(Len(s) + Len(t)) : r[n] = IF n <= Len(s) THEN s[n] ELSE t[n - Len(s)]
  BY ConcatProperties
<1> HIDE DEF r
<1>2. Len(s) \in Nat /\ Len(t) \in Nat
  OBVIOUS
<1>3. \A n \in 1..Len(s) : r[n] = s[n]
  BY <1>1, <1>2
<1>4. \A i \in 1..Len(t) : r[Len(s) + i] = t[i]
  <2> TAKE i \in 1..Len(t)
  <2>1. Len(s) + i \in 1..(Len(s) + Len(t)) /\ ~(Len(s) + i <= Len(s)) /\ Len(s) + i - Len(s) = i
    BY <1>2
  <2> QED BY <1>1, <2>1
<1>5. Joins(s, t, r)
  BY <1>1, <1>3, <1>4 DEF Joins
<1> QED BY <1>5 DEF r

\* A group after outer, with two sequences of nodes in it.
GroupOf(outer, G, same, tokens, r) ==
  /\ outer \in Seq(Nodes) /\ G \in Nodes /\ same \in Seq(Nodes) /\ tokens \in Seq(Nodes)
  /\ \A i \in DOMAIN same : same[i].parent = Len(outer) + 1
  /\ \A i \in DOMAIN tokens : tokens[i].parent = Len(outer) + 1
  /\ r = Append(outer, G) \o same \o tokens

HasGroup(outer, G, same, tokens, r) ==
  LET any == Len(outer) + 1
  IN /\ r \in Seq(Nodes) /\ Len(r) \in Nat /\ any <= Len(r) /\ any \in Nat /\ r[any] = G
     /\ \A n \in 1..Len(outer) : r[n] = outer[n]
     /\ \A n \in (any + 1)..Len(r) : r[n].parent = any
     /\ {r[n] : n \in (any + 1)..Len(r)}
          = {same[i] : i \in DOMAIN same} \cup {tokens[i] : i \in DOMAIN tokens}

\* The group and what is in it, at their places.
LEMMA GroupAdded ==
  ASSUME NEW outer, NEW G, NEW same, NEW tokens, NEW r, GroupOf(outer, G, same, tokens, r)
  PROVE  HasGroup(outer, G, same, tokens, r)
<1> DEFINE first == Append(outer, G)
           second == first \o same
<1>1. PICK o, p, q \in Nat : o = Len(outer) /\ p = Len(same) /\ q = Len(tokens)
  BY DEF GroupOf
<1>2. /\ outer \in Seq(Nodes) /\ G \in Nodes /\ same \in Seq(Nodes) /\ tokens \in Seq(Nodes)
      /\ \A i \in 1..p : same[i].parent = o + 1
      /\ \A i \in 1..q : tokens[i].parent = o + 1
      /\ DOMAIN same = 1..p /\ DOMAIN tokens = 1..q
  <2>1. /\ outer \in Seq(Nodes) /\ G \in Nodes /\ same \in Seq(Nodes) /\ tokens \in Seq(Nodes)
        /\ \A i \in DOMAIN same : same[i].parent = o + 1
        /\ \A i \in DOMAIN tokens : tokens[i].parent = o + 1
    BY <1>1 DEF GroupOf
  <2>2. DOMAIN same = 1..p /\ DOMAIN tokens = 1..q
    BY <1>1, <2>1
  <2> QED BY <2>1, <2>2
<1>3. first \in Seq(Nodes) /\ Len(first) = o + 1 /\ first[o + 1] = G /\ \A n \in 1..o : first[n] = outer[n]
  BY <1>1, <1>2
<1> HIDE DEF first
<1>4. /\ second \in Seq(Nodes) /\ Len(second) = o + 1 + p
      /\ \A n \in 1..(o + 1) : second[n] = first[n]
      /\ \A i \in 1..p : second[o + 1 + i] = same[i]
  <2>1. Joins(first, same, second)
    BY <1>2, <1>3, JoinedGroups
  <2> QED BY <1>1, <1>3, <2>1 DEF Joins
<1>5. r = second \o tokens
  BY DEF GroupOf, first
<1> HIDE DEF second
<1>6. /\ r \in Seq(Nodes) /\ Len(r) = o + 1 + p + q
      /\ \A n \in 1..(o + 1 + p) : r[n] = second[n]
      /\ \A i \in 1..q : r[o + 1 + p + i] = tokens[i]
  <2>1. Joins(second, tokens, r)
    BY <1>2, <1>4, <1>5, JoinedGroups
  <2> QED BY <1>1, <1>4, <2>1 DEF Joins
<1>7. r[o + 1] = G /\ \A n \in 1..o : r[n] = outer[n]
  <2>1. \A n \in 1..(o + 1) : n \in 1..(o + 1 + p)
    BY <1>1
  <2>2. o + 1 \in 1..(o + 1) /\ \A n \in 1..o : n \in 1..(o + 1)
    BY <1>1
  <2> QED BY <1>3, <1>4, <1>6, <2>1, <2>2
<1>8. \A i \in 1..p : r[o + 1 + i] = same[i] /\ o + 1 + i \in (o + 2)..Len(r)
  <2> TAKE i \in 1..p
  <2>1. o + 1 + i \in 1..(o + 1 + p) /\ o + 1 + i \in (o + 2)..Len(r)
    BY <1>1, <1>6
  <2> QED BY <1>4, <1>6, <2>1
<1>9. \A i \in 1..q : r[o + 1 + p + i] = tokens[i] /\ o + 1 + p + i \in (o + 2)..Len(r)
  <2> TAKE i \in 1..q
  <2>1. o + 1 + p + i \in (o + 2)..Len(r)
    BY <1>1, <1>6
  <2> QED BY <1>6, <2>1
<1>10. \A n \in (o + 2)..Len(r) :
         (\E i \in 1..p : r[n] = same[i]) \/ (\E i \in 1..q : r[n] = tokens[i])
  <2> TAKE n \in (o + 2)..Len(r)
  <2>1. CASE n <= o + 1 + p
    <3> DEFINE i == n - (o + 1)
    <3>1. i \in 1..p /\ o + 1 + i = n
      BY <1>1, <1>6, <2>1
    <3> HIDE DEF i
    <3> QED BY <1>8, <3>1
  <2>2. CASE ~(n <= o + 1 + p)
    <3> DEFINE i == n - (o + 1 + p)
    <3>1. i \in 1..q /\ o + 1 + p + i = n
      BY <1>1, <1>6, <2>2
    <3> HIDE DEF i
    <3> QED BY <1>9, <3>1
  <2> QED BY <2>1, <2>2
<1>11. \A n \in (o + 2)..Len(r) : r[n].parent = o + 1
  BY <1>2, <1>10
<1>12. {r[n] : n \in (o + 2)..Len(r)} = {same[i] : i \in 1..p} \cup {tokens[i] : i \in 1..q}
  BY <1>8, <1>9, <1>10
<1>13. Len(r) \in Nat /\ o + 1 <= Len(r) /\ o + 1 \in Nat /\ o + 1 + 1 = o + 2
  BY <1>1, <1>6
<1> QED BY <1>1, <1>2, <1>6, <1>7, <1>11, <1>12, <1>13 DEF HasGroup

\* The tokens of a word, unless full, and of its synonyms s.
OwnTokens(w, full, any) == IF full THEN <<>> ELSE <<Token(w.text, w.flags, any)>>

SynonymTokens(w, s, any) == [i \in DOMAIN s |-> Token(s[i], w.flags \cup {"full"}, any)]

\* What pushSynonyms makes of a word and its synonyms s.
Synonymous(fl, outer, above, w, s) ==
  LET own == (fl \ {"not"}) \cup w.flags
      any == Len(outer) + 1
      same == IF "full" \in own THEN <<>> ELSE <<Token(w.text, own, any)>>
  IN Append(outer, Group("any", {}, above)) \o same
       \o [i \in DOMAIN s |-> Token(s[i], own \cup {"full"}, any)]

NodesIn(seq, any) == seq \in Seq(Nodes) /\ \A i \in DOMAIN seq : seq[i].parent = any

\* Tokens are nodes.
LEMMA TokenIsNode ==
  ASSUME NEW text \in TokenTexts, NEW fl \in SUBSET Flags, NEW any \in Nat
  PROVE  Token(text, fl, any) \in Nodes /\ Token(text, fl, any).parent = any
BY DEF Token, Nodes

\* The token of the word itself is in the group, unless the word has to be a full one.
LEMMA OwnNodes ==
  ASSUME NEW w, w.flags \subseteq {"start", "end", "literal", "full"}, w.text \in TokenTexts,
         NEW any \in Nat, NEW full
  PROVE  NodesIn(OwnTokens(w, full, any), any)
<1>1. CASE full
  <2>1. <<>> \in Seq(Nodes) /\ DOMAIN <<>> = {}
    OBVIOUS
  <2>2. OwnTokens(w, full, any) = <<>>
    BY <1>1 DEF OwnTokens
  <2> QED BY <2>1, <2>2 DEF NodesIn
<1>2. CASE ~full
  <2> DEFINE T == Token(w.text, w.flags, any)
  <2>1. T \in Nodes /\ T.parent = any
    BY TokenIsNode DEF Flags
  <2> HIDE DEF T
  <2>2. OwnTokens(w, full, any) = <<T>>
    BY <1>2 DEF OwnTokens, T
  <2>3. <<T>> \in Seq(Nodes) /\ DOMAIN <<T>> = {1} /\ <<T>>[1] = T
    BY <2>1
  <2> QED BY <2>1, <2>2, <2>3 DEF NodesIn
<1> QED BY <1>1, <1>2

\* The tokens of the synonyms are in the group.
LEMMA SynonymNodes ==
  ASSUME NEW w, w.flags \subseteq {"start", "end", "literal", "full"}, NEW any \in Nat,
         NEW s \in Seq(TokenTexts)
  PROVE  NodesIn(SynonymTokens(w, s, any), any)
<1> DEFINE fl == w.flags \cup {"full"}
           tokens == SynonymTokens(w, s, any)
<1>1. PICK n \in Nat : n = Len(s)
  OBVIOUS
<1>2. DOMAIN s = 1..n /\ \A i \in 1..n : s[i] \in TokenTexts
  BY <1>1
<1>3. fl \in SUBSET Flags
  BY DEF Flags
<1> HIDE DEF fl
<1>4. \A i \in 1..n : Token(s[i], fl, any) \in Nodes /\ Token(s[i], fl, any).parent = any
  BY <1>2, <1>3, TokenIsNode
<1>5. tokens = [i \in 1..n |-> Token(s[i], fl, any)]
  BY <1>2 DEF SynonymTokens, fl
<1> HIDE DEF tokens
<1>6. tokens \in [1..n -> Nodes] /\ \A i \in DOMAIN tokens : tokens[i].parent = any
  BY <1>4, <1>5
<1>7. tokens \in Seq(Nodes)
  BY <1>6
<1> QED BY <1>6, <1>7 DEF NodesIn, tokens

\* pushSynonyms makes a group with these tokens.
LEMMA SpreadIs ==
  ASSUME NEW outer \in Seq(Nodes), NEW above \in Nat, NEW w, NEW s \in Seq(TokenTexts), NEW full,
         w.flags \subseteq {"start", "end", "literal", "full"}, w.text \in TokenTexts,
         NEW any \in Nat, any = Len(outer) + 1, NEW G, G = Group("any", {}, above),
         NEW r, r = Append(outer, G) \o OwnTokens(w, full, any) \o SynonymTokens(w, s, any)
  PROVE  GroupOf(outer, G, OwnTokens(w, full, any), SynonymTokens(w, s, any), r)
<1>1. G \in Nodes
  BY DEF Group, Nodes
<1>2. NodesIn(OwnTokens(w, full, any), any) /\ NodesIn(SynonymTokens(w, s, any), any)
  BY OwnNodes, SynonymNodes
<1> QED BY <1>1, <1>2 DEF GroupOf, NodesIn

\* The rows that a word or one of its synonyms matches.
AnyOf(w, s, row) ==
  matchToken(w.text, w.flags, row) \/ \E i \in DOMAIN s : matchToken(s[i], w.flags \cup {"full"}, row)

\* The group any in r holds the tokens of w and s, and nothing else.
HoldsWord(outer, G, r, any, w, s, full) ==
  /\ any = Len(outer) + 1 /\ Len(outer) \in Nat /\ G.type = "any" /\ G.parent # any
  /\ HasGroup(outer, G, OwnTokens(w, full, any), SynonymTokens(w, s, any), r)
  /\ \A n \in 1..Len(outer) : outer[n].parent # any
  /\ full \in BOOLEAN
  /\ full => "full" \in w.flags /\ \E i \in DOMAIN s : s[i] = w.text

\* The group matches the rows that the word or a synonym matches. Without a token for the
\* word itself, which is one of the synonyms, it does so too.
LEMMA AnySays ==
  ASSUME NEW outer, NEW G, NEW r, NEW any, NEW w, NEW s, NEW full,
         HoldsWord(outer, G, r, any, w, s, full), NEW row, NEW v, Solves(r, row, v)
  PROVE  v[any] <=> AnyOf(w, s, row)
<1> PICK same, tokens : same = OwnTokens(w, full, any) /\ tokens = SynonymTokens(w, s, any)
  OBVIOUS
<1> DEFINE says(z) == matchToken(z.text, z.flags, row)
           own == matchToken(w.text, w.flags, row)
           others == \E i \in DOMAIN s : matchToken(s[i], w.flags \cup {"full"}, row)
           Z == {r[n] : n \in (any + 1)..Len(r)}
<1>1. /\ r \in Seq(Nodes) /\ Len(r) \in Nat /\ any <= Len(r) /\ any \in Nat /\ r[any] = G
      /\ \A n \in 1..Len(outer) : r[n] = outer[n]
      /\ \A n \in (any + 1)..Len(r) : r[n].parent = any
      /\ Z = {same[i] : i \in DOMAIN same} \cup {tokens[i] : i \in DOMAIN tokens}
  <2>1. HasGroup(outer, G, same, tokens, r) /\ any = Len(outer) + 1
    BY DEF HoldsWord
  <2> QED BY <2>1 DEF HasGroup
<1>2. DOMAIN r = 1..Len(r) /\ any \in DOMAIN r
  <2>1. any >= 1
    BY DEF HoldsWord
  <2> QED BY <1>1, <2>1
<1> USE DEF HoldsWord
<1>3. Children(r, any) = (any + 1)..Len(r)
  <2>1. \A n \in 1..Len(r) : n \in 1..Len(outer) \/ n = any \/ n \in (any + 1)..Len(r)
    BY <1>1
  <2>2. \A n \in (any + 1)..Len(r) : n \in 1..Len(r)
    BY <1>1
  <2> QED BY <1>1, <1>2, <2>1, <2>2 DEF Children
<1>4. v[any] = \E c \in (any + 1)..Len(r) : v[c]
  <2>1. r[any].type = "any"
    BY <1>1
  <2>2. \A n \in DOMAIN r : r[n].type = "any" => v[n] = (\E c \in Children(r, n) : v[c])
    BY GroupSays
  <2>3. v[any] = (\E c \in Children(r, any) : v[c])
    BY <1>2, <2>1, <2>2
  <2> QED BY <1>3, <2>3
<1>5. {tokens[i] : i \in DOMAIN tokens} = {Token(s[i], w.flags \cup {"full"}, any) : i \in DOMAIN s}
  BY DEF SynonymTokens
<1>6. {same[i] : i \in DOMAIN same} = IF full THEN {} ELSE {Token(w.text, w.flags, any)}
  BY DEF OwnTokens
<1>7. \A z \in Z : z.type = "token"
  <2> HIDE DEF Z
  <2> QED BY <1>1, <1>5, <1>6 DEF Token
<1>8. \A c \in (any + 1)..Len(r) : v[c] = says(r[c])
  <2> TAKE c \in (any + 1)..Len(r)
  <2>1. c \in DOMAIN r /\ r[c].type = "token"
    BY <1>1, <1>2, <1>7
  <2> QED BY <2>1 DEF Solves, Value
<1>9. v[any] <=> \E z \in Z : says(z)
  BY <1>4, <1>8
<1>10. \A text, fl : says(Token(text, fl, any)) = matchToken(text, fl, row)
  BY DEF Token
<1>11. (\E z \in Z : says(z)) <=> (~full /\ own) \/ others
  <2> HIDE DEF Z, says, own
  <2>1. Z = (IF full THEN {} ELSE {Token(w.text, w.flags, any)})
              \cup {Token(s[i], w.flags \cup {"full"}, any) : i \in DOMAIN s}
    BY <1>1, <1>5, <1>6
  <2> QED BY <1>10, <2>1 DEF own
<1>12. full /\ own => others
  <2> SUFFICES ASSUME full, own PROVE others
    OBVIOUS
  <2>1. w.flags \cup {"full"} = w.flags
    OBVIOUS
  <2> QED BY <2>1
<1> HIDE DEF Z, says
<1>13. v[any] <=> own \/ others
  BY <1>9, <1>11, <1>12
<1> QED BY <1>13 DEF AnyOf

\* A word means what it and its synonyms match.
LEMMA SynonymsMean ==
  ASSUME NEW w, Expanded(w), NEW s, s = CHOOSE t \in SynonymsOf(w) : TRUE
  PROVE  /\ s \in Synonyms /\ \E i \in DOMAIN s : s[i] = w.text
         /\ s \in Seq(TokenTexts)
         /\ \A row \in Universe : row \in MeaningOf(w) <=> AnyOf(w, s, row)
<1>1. s \in SynonymsOf(w)
  BY DEF Expanded
<1>2. s \in Synonyms /\ \E i \in DOMAIN s : s[i] = w.text
  BY <1>1 DEF SynonymsOf
<1>3. SynonymsOf(w) = {s}
  <2>1. ASSUME NEW t \in SynonymsOf(w) PROVE t = s
    BY <1>2, WordAssumption DEF SynonymsOf
  <2> QED BY <1>1, <2>1
<1>4. s \in Seq(TokenTexts)
  <2> DEFINE T == {s[i] : i \in DOMAIN s}
  <2>1. s \in Seq(T)
    BY <1>2, WordAssumption
  <2>2. T \subseteq TokenTexts
    BY <1>2 DEF TokenTexts
  <2> HIDE DEF T
  <2> QED BY <2>1, <2>2
<1>5. MeaningOf(w) = Matching(w.text, w.flags)
                       \cup UNION {Matching(s[i], w.flags \cup {"full"}) : i \in DOMAIN s}
  <2> DEFINE U(t) == UNION {Matching(t[i], w.flags \cup {"full"}) : i \in DOMAIN t}
  <2>1. MeaningOf(w) = Matching(w.text, w.flags) \cup UNION {U(t) : t \in SynonymsOf(w)}
    BY DEF MeaningOf
  <2>2. UNION {U(t) : t \in {s}} = U(s)
    <3> HIDE DEF U
    <3> QED OBVIOUS
  <2> QED BY <1>3, <2>1, <2>2
<1>6. \A row \in Universe : \A text, fl : row \in Matching(text, fl) <=> matchToken(text, fl, row)
  BY DEF Matching
<1>7. \A row \in Universe : row \in MeaningOf(w) <=> AnyOf(w, s, row)
  <2> TAKE row \in Universe
  <2>1. row \in UNION {Matching(s[i], w.flags \cup {"full"}) : i \in DOMAIN s}
          <=> \E i \in DOMAIN s : row \in Matching(s[i], w.flags \cup {"full"})
    OBVIOUS
  <2> QED BY <1>5, <1>6, <2>1 DEF AnyOf
<1> QED BY <1>2, <1>4, <1>7

\* A word with synonyms: the tree tells the level with one more operand, if the word does not
\* come after OR.
LEMMA SynonymsTold ==
  ASSUME FilterInv, ~join, NEW w \in Words, Expanded(w), NEW s, s = CHOOSE t \in SynonymsOf(w) : TRUE,
         pushSynonyms(w, s), AddOperand(MeaningOf(w))
  PROVE  FilterInv'
<1>0. PICK A, C : Holds(nodes, group, levels, join, A, C)
  BY DEF FilterInv, Told
<1>1. PICK r, x, a, E : /\ r = nodes' /\ x = Len(nodes) + 1
                        /\ a = A[Len(levels)] /\ E = C[Len(levels)]
  OBVIOUS
<1>2. AtCursor(nodes, group, levels, join, A, C, a, E)
  BY <1>0, <1>1, Cursor
<1>3. Tree(nodes) /\ group \in DOMAIN nodes /\ group = a
  BY <1>2 DEF AtCursor
<1>4. flags \subseteq {"not"} /\ negate \in BOOLEAN /\ join = FALSE /\ ("not" \in flags <=> negate)
  BY DEF FilterInv
<1>5. w.flags \subseteq {"start", "end", "literal", "full"} /\ w.text \in TokenTexts
  BY WordAssumption DEF TokenTexts
<1>6. /\ \E i \in DOMAIN s : s[i] = w.text
      /\ s \in Seq(TokenTexts)
      /\ \A row \in Universe : row \in MeaningOf(w) <=> AnyOf(w, s, row)
  BY SynonymsMean
<1>7. /\ nodes \in Seq(Nodes) /\ Len(nodes) \in Nat /\ DOMAIN nodes = 1..Len(nodes)
      /\ \A n \in 1..Len(nodes) : nodes[n].parent \in 0..Len(nodes)
  <2>1. /\ nodes \in Seq(Nodes) /\ \A n \in DOMAIN nodes : n # Root => nodes[n].parent \in DOMAIN nodes
    BY <1>3 DEF Tree
  <2>2. Len(nodes) \in Nat /\ DOMAIN nodes = 1..Len(nodes) /\ nodes[Root].parent = 0
    BY <1>3, TreeTyped
  <2> QED BY <2>1, <2>2
<1> DEFINE matched == Negated(negate, MeaningOf(w))
           outer == IF negate THEN Append(nodes, Group("all", {"not"}, group)) ELSE nodes
           any == Len(outer) + 1
           above == IF negate THEN x ELSE group
           G == Group("any", {}, above)
           full == "full" \in w.flags
           same == OwnTokens(w, full, any)
           tokens == SynonymTokens(w, s, any)
<1>8. matched \in SUBSET Universe
  BY DEF Negated, MeaningOf, Matching
<1>9. /\ outer \in Seq(Nodes) /\ Len(outer) = (IF negate THEN x ELSE Len(nodes)) /\ Len(outer) \in Nat
      /\ \A n \in 1..Len(nodes) : outer[n] = nodes[n]
      /\ negate => outer[x] = Group("all", {"not"}, group)
  <2> DEFINE N == Group("all", {"not"}, group)
  <2>1. N \in Nodes
    BY <1>3, <1>7 DEF Group, Nodes, Flags
  <2> HIDE DEF N
  <2>2. CASE negate = TRUE
    <3>1. outer = Append(nodes, N)
      BY <2>2 DEF N
    <3> HIDE DEF outer
    <3> QED BY <1>1, <1>7, <2>1, <2>2, <3>1 DEF N
  <2>3. CASE negate = FALSE
    BY <1>7, <2>3
  <2> QED BY <1>4, <2>2, <2>3
<1> HIDE DEF outer
<1>10. any \in Nat /\ above \in Nat /\ above < any /\ above >= 1 /\ any = IF negate THEN x + 1 ELSE x
  <2>1. x \in Nat /\ x >= 1 /\ group \in Nat /\ group >= 1 /\ group < x
    BY <1>1, <1>3, <1>7
  <2> QED BY <1>1, <1>7, <1>9, <2>1
<1>11. GroupOf(outer, G, same, tokens, r)
  <2>1. (flags \ {"not"}) \cup w.flags = w.flags
    BY <1>4
  <2>2. outer = IF "not" \in flags THEN Append(nodes, Group("all", {"not"}, group)) ELSE nodes
    BY <1>4 DEF outer
  <2>3. above = IF "not" \in flags THEN Len(outer) ELSE group
    BY <1>4, <1>9
  <2>4. r = Synonymous(flags, outer, above, w, s)
    <3> HIDE DEF above
    <3>1. nodes' = Synonymous(flags, outer, IF "not" \in flags THEN Len(outer) ELSE group, w, s)
      BY <2>2 DEF pushSynonyms, Synonymous
    <3> QED BY <1>1, <2>3, <3>1
  <2> HIDE DEF above, outer
  <2>5. r = Append(outer, G) \o OwnTokens(w, full, any) \o SynonymTokens(w, s, any)
    <3> DEFINE own == (flags \ {"not"}) \cup w.flags
    <3>1. r = Append(outer, Group("any", {}, above))
                \o (IF "full" \in own THEN <<>> ELSE <<Token(w.text, own, Len(outer) + 1)>>)
                \o [i \in DOMAIN s |-> Token(s[i], own \cup {"full"}, Len(outer) + 1)]
      BY <2>4 DEF Synonymous
    <3>2. own = w.flags
      BY <2>1
    <3> HIDE DEF own
    <3> QED BY <3>1, <3>2 DEF OwnTokens, SynonymTokens
  <2>6. any = Len(outer) + 1 /\ G = Group("any", {}, above)
    OBVIOUS
  <2>7. s \in Seq(TokenTexts)
    BY <1>6
  <2> HIDE DEF any, G, full
  <2>8. GroupOf(outer, G, OwnTokens(w, full, any), SynonymTokens(w, s, any), r)
    BY <1>5, <1>9, <1>10, <2>5, <2>6, <2>7, SpreadIs
  <2> QED BY <2>8
<1>12. HasGroup(outer, G, same, tokens, r)
  BY <1>11, GroupAdded
<1> HIDE DEF same, tokens, full
<1>13. /\ r \in Seq(Nodes) /\ Len(r) \in Nat /\ any <= Len(r) /\ r[any] = G
       /\ \A n \in 1..Len(outer) : r[n] = outer[n]
       /\ \A n \in (any + 1)..Len(r) : r[n].parent = any
  BY <1>12 DEF HasGroup
<1>14. G.type = "any" /\ G.parent = above
  BY DEF Group
<1>15. negate => r[x].type = "all" /\ r[x].flags = {"not"} /\ r[x].parent = group
  <2> SUFFICES ASSUME negate PROVE r[x] = Group("all", {"not"}, group)
    BY DEF Group
  <2>1. x \in 1..Len(outer)
    BY <1>1, <1>7, <1>9
  <2> QED BY <1>9, <1>13, <2>1
<1> HIDE DEF G, above, any
<1>16. Grown(nodes, r, group)
  <2>1. Len(nodes) < Len(r) /\ \A n \in 1..Len(nodes) : r[n] = nodes[n]
    <3>1. \A n \in 1..Len(nodes) : n \in 1..Len(outer)
      BY <1>1, <1>7, <1>9
    <3> QED BY <1>1, <1>7, <1>9, <1>10, <1>13, <3>1
  <2>2. r[x].parent = group
    BY <1>10, <1>13, <1>14, <1>15 DEF above
  <2>3. ASSUME NEW n \in (Len(nodes) + 2)..Len(r) PROVE r[n].parent \in (Len(nodes) + 1)..(n - 1)
    <3>1. CASE negate /\ n = any
      <4>1. r[n].parent = x
        BY <1>13, <1>14, <3>1 DEF above
      <4> QED BY <1>1, <1>7, <2>3, <4>1
    <3>2. CASE ~(negate /\ n = any)
      <4>1. n \in (any + 1)..Len(r)
        BY <1>1, <1>4, <1>7, <1>10, <1>13, <2>3, <3>2
      <4>2. r[n].parent = any
        BY <1>13, <4>1
      <4> QED BY <1>1, <1>7, <1>10, <1>13, <4>1, <4>2
    <3> QED BY <3>1, <3>2
  <2> QED BY <1>1, <1>13, <2>1, <2>2, <2>3 DEF Grown
<1>17. \A row \in Universe : \A v : Solves(r, row, v) => (v[x] <=> row \in matched)
  <2> SUFFICES ASSUME NEW row \in Universe, NEW v, Solves(r, row, v) PROVE v[x] <=> row \in matched
    OBVIOUS
  <2>1. \A n \in 1..Len(outer) : outer[n].parent # any
    <3> SUFFICES ASSUME NEW n \in 1..Len(outer) PROVE outer[n].parent # any
      OBVIOUS
    <3>1. CASE n \in 1..Len(nodes)
      BY <1>1, <1>7, <1>9, <1>10, <3>1
    <3>2. CASE n \notin 1..Len(nodes)
      <4>1. negate /\ n = x
        BY <1>1, <1>7, <1>9, <3>2
      <4> QED BY <1>1, <1>3, <1>7, <1>9, <1>10, <4>1 DEF Group
    <3> QED BY <3>1, <3>2
  <2>2. G.parent # any
    BY <1>10, <1>14
  <2>3. full \in BOOLEAN /\ (full => "full" \in w.flags /\ \E i \in DOMAIN s : s[i] = w.text)
    <3>1. full \in BOOLEAN /\ (full => "full" \in w.flags)
      BY DEF full
    <3> QED BY <1>6, <3>1
  <2>4. any = Len(outer) + 1 /\ same = OwnTokens(w, full, any) /\ tokens = SynonymTokens(w, s, any)
    BY DEF any, same, tokens
  <2>5. v[any] <=> AnyOf(w, s, row)
    <3>1. HoldsWord(outer, G, r, any, w, s, full)
      BY <1>9, <1>12, <1>14, <2>1, <2>2, <2>3, <2>4 DEF HoldsWord
    <3> QED BY <3>1, AnySays
  <2>6. v[any] <=> row \in MeaningOf(w)
    BY <1>6, <2>5
  <2>7. CASE negate = FALSE
    BY <1>10, <2>6, <2>7 DEF Negated
  <2>8. CASE negate = TRUE
    <3>1. x \in DOMAIN r /\ r[x].type = "all" /\ r[x].flags = {"not"}
      BY <1>1, <1>7, <1>10, <1>13, <1>15, <2>8
    <3>2. Children(r, x) = {any}
      <4>1. any \in DOMAIN r /\ r[any].parent = x
        BY <1>10, <1>13, <1>14, <2>8 DEF above
      <4>2. ASSUME NEW n \in DOMAIN r, r[n].parent = x PROVE n = any
        <5>1. n \in 1..Len(r)
          BY <1>13
        <5>2. CASE n \in 1..Len(nodes)
          <6>1. r[n] = nodes[n]
            BY <1>16, <5>2 DEF Grown
          <6> QED BY <1>1, <1>7, <4>2, <5>2, <6>1
        <5>3. CASE n = x
          BY <1>1, <1>3, <1>7, <1>15, <2>8, <4>2, <5>3
        <5>4. CASE n \in (any + 1)..Len(r)
          BY <1>10, <1>13, <2>8, <4>2, <5>4
        <5> QED BY <1>1, <1>7, <1>10, <2>8, <5>1, <5>2, <5>3, <5>4
      <4> QED BY <4>1, <4>2 DEF Children
    <3>3. v[x] = ((\A c \in Children(r, x) : v[c]) # ("not" \in r[x].flags)) /\ v \in [DOMAIN r -> BOOLEAN]
      BY <3>1, GroupSays
    <3>4. v[any] \in BOOLEAN
      BY <1>10, <1>13, <3>3
    <3>5. v[x] = ~v[any]
      BY <3>1, <3>2, <3>3, <3>4
    <3>6. matched = Universe \ MeaningOf(w)
      BY <2>8 DEF Negated
    <3> QED BY <2>6, <3>5, <3>6
  <2> QED BY <1>4, <2>7, <2>8
<1> HIDE DEF matched
<1>18. Told(r, a, [levels EXCEPT ![Len(levels)] = WithOperand(levels[Len(levels)], join, matched)], FALSE)
  BY <1>0, <1>1, <1>4, <1>8, <1>16, <1>17, OperandTold
<1>19. /\ levels' = [levels EXCEPT ![Len(levels)] = WithOperand(levels[Len(levels)], join, matched)]
       /\ negate' = FALSE /\ join' = FALSE /\ flags' = {} /\ group' = a
  BY <1>2, <1>3 DEF AddOperand, matched, pushSynonyms, AtCursor
<1> QED BY <1>1, <1>18, <1>19 DEF FilterInv

-----------------------------------------------------------------------------
(* Operators *)

\* NOT changes the flags for the next node, and what the next operand means.
LEMMA NotTold ==
  ASSUME FilterInv, pushNot, AddNot
  PROVE  FilterInv'
<1>1. /\ flags \subseteq {"not"} /\ negate \in BOOLEAN /\ join \in BOOLEAN
      /\ ("not" \in flags <=> negate) /\ Told(nodes, group, levels, join)
  BY DEF FilterInv
<1>2. flags' = Toggle(flags) /\ nodes' = nodes /\ group' = group
      /\ negate' = ~negate /\ levels' = levels /\ join' = join
  BY DEF pushNot, AddNot
<1>3. Toggle(flags) \subseteq {"not"} /\ ("not" \in Toggle(flags) <=> "not" \notin flags)
  BY <1>1 DEF Toggle
<1> QED BY <1>1, <1>2, <1>3 DEF FilterInv

\* After OR, the tree tells the same levels, with the cursor in a group of type MatchAny.
LEMMA OrTold ==
  ASSUME FilterInv, pushOr, AddOr
  PROVE  FilterInv'
<1>1. /\ flags \subseteq {"not"} /\ negate \in BOOLEAN /\ join \in BOOLEAN
      /\ ("not" \in flags <=> negate) /\ Told(nodes, group, levels, join)
  BY DEF FilterInv
<1>2. PICK A, C : Holds(nodes, group, levels, join, A, C)
  BY <1>1 DEF Told
<1>3. PICK a, E, K, back : /\ a = A[Len(levels)] /\ E = C[Len(levels)]
                           /\ K = Children(nodes, group) /\ back = Max(K)
  OBVIOUS
<1>4. AtCursor(nodes, group, levels, join, A, C, a, E)
  BY <1>2, <1>3, Cursor
<1>5. /\ Tree(nodes) /\ (E = {} => group = a) /\ (E # {} => Children(nodes, a) # {})
      /\ (Top.empty <=> Children(nodes, a) = {}) /\ (E # {} <=> join)
  BY <1>4 DEF AtCursor, Top
<1>6. flags' = flags /\ negate' = negate /\ levels' = levels /\ join' = ~Top.empty
  BY DEF pushOr, AddOr
<1>7. CASE K = {}
  <2>1. nodes' = nodes /\ group' = group
    BY <1>3, <1>7 DEF pushOr
  <2>2. join' = join
    BY <1>1, <1>3, <1>5, <1>6, <1>7
  <2> QED BY <1>1, <1>6, <2>1, <2>2 DEF FilterInv
<1>8. CASE K # {}
  <2>1. back \in K
    BY <1>3, <1>5, <1>8, TreeTyped, MaxIs
  <2>2. Children(nodes, a) # {}
    BY <1>3, <1>5, <1>8
  <2>3. join' = TRUE
    BY <1>5, <1>6, <2>2
  <2>4. Told(nodes', group', levels, TRUE)
    <3>1. CASE nodes[back].type = "any"
      <4>1. nodes' = nodes /\ group' = back
        BY <1>3, <1>8, <3>1 DEF pushOr
      <4> QED BY <1>1, <1>3, <2>1, <3>1, <4>1, OrAny
    <3>2. CASE nodes[back].type # "any"
      <4>1. Moved(nodes, nodes', group, back) /\ group' = Len(nodes) + 1
        BY <1>3, <1>8, <3>2 DEF pushOr, Moved
      <4> QED BY <1>1, <1>3, <2>1, <3>2, <4>1, OrNew
    <3> QED BY <3>1, <3>2
  <2> QED BY <1>1, <1>6, <2>3, <2>4 DEF FilterInv
<1> QED BY <1>7, <1>8

\* An open parenthesis: its group is the operand that its level will be.
LEMMA OpenTold ==
  ASSUME FilterInv, pushOpen, OpenLevel
  PROVE  FilterInv'
<1>1. /\ flags \subseteq {"not"} /\ negate \in BOOLEAN /\ join \in BOOLEAN
      /\ ("not" \in flags <=> negate) /\ Told(nodes, group, levels, join)
  BY DEF FilterInv
<1>2. PICK A, C : Holds(nodes, group, levels, join, A, C)
  BY <1>1 DEF Told
<1>3. PICK ns, r, x, g, ls, L, a, E, level, not, or, no :
        /\ ns = nodes /\ r = nodes' /\ x = Len(nodes) + 1 /\ g = group /\ ls = levels /\ L = Len(levels)
        /\ a = A[Len(levels)] /\ E = C[Len(levels)] /\ level = levels[Len(levels)]
        /\ not = negate /\ or = join /\ no = FALSE
  OBVIOUS
<1>4. Holds(ns, g, ls, or, A, C) /\ AtCursor(ns, g, ls, or, A, C, a, E)
  BY <1>2, <1>3, Cursor
<1>5. /\ Tree(ns) /\ ls \in Seq(Levels) /\ L = Len(ls) /\ L \in Nat /\ L >= 1 /\ L \in 1..L
      /\ A \in [1..L -> DOMAIN ns] /\ C \in [1..L -> SUBSET DOMAIN ns] /\ g \in DOMAIN ns
      /\ a = A[L] /\ E = C[L] /\ (E # {} <=> or)
      /\ Opened(ns, g, ls, or, A, C) /\ AllMean(ns, ls, A, C, Len(ls))
      /\ Path(ls, A, C) \subseteq DOMAIN ns
  BY <1>3, <1>4 DEF AtCursor, Holds
<1> DEFINE N == Group("all", flags, g)
           top == Level(not, or)
           ls2 == Append(ls, top)
           A2 == [k \in 1..(L + 1) |-> IF k = L + 1 THEN x ELSE A[k]]
           C2 == [k \in 1..(L + 1) |-> IF k = L + 1 THEN {} ELSE C[k]]
<1>6. r = Append(ns, N)
  BY <1>3 DEF pushOpen
<1>7. N.type = "all" /\ N.flags = flags /\ N.parent = g /\ N \in Nodes
  <2>1. g \in Nat
    BY <1>5, TreeTyped
  <2> QED BY <1>1, <2>1 DEF Group, Nodes, Flags
<1>8. /\ top \in Levels /\ top.operands = Universe /\ top.last = Universe /\ top.not = not
      /\ top.or = or /\ top.empty = TRUE
  BY <1>1, <1>3 DEF Level, Levels
<1>9. ns \in Seq(Nodes) /\ Len(ns) \in Nat /\ DOMAIN ns = 1..Len(ns) /\ x = Len(ns) + 1
  BY <1>3, <1>5, TreeTyped DEF Tree
<1> HIDE DEF N, top
<1>10. /\ r \in Seq(Nodes) /\ Len(r) = x /\ r[x] = N /\ x \notin DOMAIN ns /\ DOMAIN r = DOMAIN ns \cup {x}
       /\ \A n \in DOMAIN ns : r[n] = ns[n]
  BY <1>6, <1>7, <1>9
<1>11. Grown(ns, r, g)
  <2>1. (Len(ns) + 2)..Len(r) = {}
    BY <1>9, <1>10
  <2> QED BY <1>7, <1>9, <1>10, <2>1 DEF Grown
<1>12. Tree(r) /\ ChangedAt(ns, r, g, Path(ls, A, C))
  BY <1>5, <1>11, GrownTree
<1>13. PlacedIn(ns, r, a, E, level)
  BY <1>3, <1>5, <1>11, GrownMeans
<1>14. /\ OrChain(r, a, E) /\ x \in DOMAIN r \ E /\ r[x].parent \in Spot(a, E)
       /\ E = {} => x = Max(Children(r, a))
       /\ \A row \in Universe : \A w : Solves(r, row, w) => Means(r, w, row, a, E, {x}, level)
  BY <1>9, <1>13 DEF PlacedIn
<1>15. Children(r, x) = {}
  <2>1. \A n \in DOMAIN ns : ns[n].parent # x
    <3>1. \A n \in DOMAIN ns : n # Root => ns[n].parent \in DOMAIN ns
      BY <1>5 DEF Tree
    <3>2. ns[Root].parent = 0 /\ x # 0
      BY <1>5, <1>9, TreeTyped
    <3> QED BY <1>10, <3>1, <3>2
  <2>2. r[x].parent # x
    BY <1>5, <1>7, <1>10
  <2> QED BY <1>10, <2>1, <2>2 DEF Children
<1>16. /\ ls2 \in Seq(Levels) /\ Len(ls2) = L + 1 /\ ls2[L + 1] = top
       /\ \A k \in 1..L : ls2[k] = ls[k]
  BY <1>5, <1>8
<1>17. /\ A2 \in [1..(L + 1) -> DOMAIN r] /\ C2 \in [1..(L + 1) -> SUBSET DOMAIN r]
       /\ A2[L + 1] = x /\ C2[L + 1] = {}
       /\ \A k \in 1..L : A2[k] = A[k] /\ C2[k] = C[k]
  <2>1. \A k \in 1..(L + 1) : k # L + 1 => k \in 1..L
    BY <1>5
  <2>2. \A k \in 1..L : A[k] \in DOMAIN r /\ C[k] \subseteq DOMAIN r
    BY <1>5, <1>10
  <2>3. \A k \in 1..L : k \in 1..(L + 1) /\ k # L + 1
    BY <1>5
  <2>4. L + 1 \in 1..(L + 1) /\ x \in DOMAIN r
    BY <1>5, <1>10
  <2> QED BY <2>1, <2>2, <2>3, <2>4
<1> HIDE DEF ls2, A2, C2
<1>18. \A k \in 1..L : k # L => SameAround(ns, r, A[k], C[k])
  BY <1>5, <1>12, BelowSame
<1>19. ASSUME NEW k \in 1..(L + 1)
       PROVE  /\ r[A2[k]].type = "all" /\ ("not" \in r[A2[k]].flags <=> ls2[k].not)
              /\ OrChain(r, A2[k], C2[k]) /\ (C2[k] # {} <=> OrAfter(ls2, no, k))
  <2>1. CASE k = L + 1
    <3>1. OrAfter(ls2, no, k) = no
      BY <1>5, <1>16, <2>1 DEF OrAfter
    <3>2. OrChain(r, x, {})
      BY DEF OrChain
    <3>3. A2[k] = x /\ C2[k] = {} /\ ls2[k] = top /\ r[x] = N
      BY <1>10, <1>16, <1>17, <2>1
    <3>4. "not" \in N.flags <=> top.not
      BY <1>1, <1>3, <1>7, <1>8
    <3>5. ~no
      BY <1>3
    <3> QED BY <1>7, <3>1, <3>2, <3>3, <3>4, <3>5
  <2>2. CASE k \in 1..L
    <3>1. A2[k] = A[k] /\ C2[k] = C[k] /\ ls2[k] = ls[k] /\ A[k] \in DOMAIN ns
      BY <1>5, <1>16, <1>17, <2>2
    <3>2. ns[A[k]].type = "all" /\ ("not" \in ns[A[k]].flags <=> ls[k].not)
          /\ OrChain(ns, A[k], C[k]) /\ (C[k] # {} <=> OrAfter(ls, or, k))
      BY <1>5, <2>2 DEF Opened
    <3>3. r[A[k]] = ns[A[k]]
      BY <1>10, <3>1
    <3>4. OrChain(r, A[k], C[k])
      <4>1. CASE k = L
        BY <1>5, <1>14, <4>1
      <4>2. CASE k # L
        BY <1>18, <2>2, <3>2, <4>2, ChainStays
      <4> QED BY <4>1, <4>2
    <3>5. OrAfter(ls2, no, k) = OrAfter(ls, or, k)
      <4>1. CASE k = L
        BY <1>5, <1>8, <1>16, <4>1 DEF OrAfter
      <4>2. CASE k # L
        <5>1. k + 1 \in 1..L /\ k < L /\ k < L + 1
          BY <1>5, <2>2, <4>2
        <5> QED BY <1>5, <1>16, <5>1 DEF OrAfter
      <4> QED BY <4>1, <4>2
    <3> QED BY <3>1, <3>2, <3>3, <3>4, <3>5
  <2> QED BY <1>5, <2>1, <2>2
<1>20. ASSUME NEW k \in 1..L
       PROVE  /\ r[A2[k + 1]].parent \in Spot(A2[k], C2[k])
              /\ C2[k] = {} => A2[k + 1] = Max(Children(r, A2[k]))
  <2>1. CASE k = L
    BY <1>5, <1>14, <1>17, <2>1
  <2>2. CASE k # L
    <3>1. k \in 1..(L - 1) /\ k + 1 \in 1..L
      BY <1>5, <2>2
    <3>2. A2[k] = A[k] /\ C2[k] = C[k] /\ A2[k + 1] = A[k + 1] /\ A[k + 1] \in DOMAIN ns
      BY <1>5, <1>17, <3>1
    <3>3. ns[A[k + 1]].parent \in Spot(A[k], C[k]) /\ (C[k] = {} => A[k + 1] = Max(Children(ns, A[k])))
      BY <1>5, <3>1 DEF Opened
    <3>4. Children(r, A[k]) = Children(ns, A[k]) /\ r[A[k + 1]] = ns[A[k + 1]]
      BY <1>10, <1>18, <2>2, <3>2 DEF SameAround
    <3> QED BY <3>2, <3>3, <3>4
  <2> QED BY <2>1, <2>2
<1>21. \A i, k \in 1..(L + 1) : i # k => A2[i] # A2[k] /\ C2[i] \cap C2[k] = {}
  <2>1. \A i, k \in 1..L : i # k => A[i] # A[k] /\ C[i] \cap C[k] = {}
    BY <1>5 DEF Opened
  <2>2. \A k \in 1..L : A[k] # x
    BY <1>5, <1>10
  <2>3. \A k \in 1..(L + 1) : k = L + 1 \/ k \in 1..L
    BY <1>5
  <2> QED BY <1>17, <2>1, <2>2, <2>3
<1>22. Opened(r, x, ls2, no, A2, C2)
  <2>1. A2[1] = Root /\ x \in Spot(A2[L + 1], C2[L + 1])
    BY <1>5, <1>17 DEF Opened, Spot
  <2>2. Len(ls2) = L + 1 /\ Len(ls2) - 1 = L
    BY <1>5, <1>16
  <2>3. /\ A2 \in [1..Len(ls2) -> DOMAIN r] /\ C2 \in [1..Len(ls2) -> SUBSET DOMAIN r]
        /\ A2[1] = Root /\ x \in Spot(A2[Len(ls2)], C2[Len(ls2)])
    BY <1>17, <2>1, <2>2
  <2>4. \A k \in 1..Len(ls2) :
          /\ r[A2[k]].type = "all" /\ ("not" \in r[A2[k]].flags <=> ls2[k].not)
          /\ OrChain(r, A2[k], C2[k]) /\ (C2[k] # {} <=> OrAfter(ls2, no, k))
    BY <1>19, <2>2
  <2>5. \A k \in 1..Len(ls2) - 1 :
          /\ r[A2[k + 1]].parent \in Spot(A2[k], C2[k])
          /\ C2[k] = {} => A2[k + 1] = Max(Children(r, A2[k]))
    BY <1>20, <2>2
  <2>6. \A i, k \in 1..Len(ls2) : i # k => A2[i] # A2[k] /\ C2[i] \cap C2[k] = {}
    BY <1>21, <2>2
  <2> QED BY <2>3, <2>4, <2>5, <2>6 DEF Opened
<1>23. AllMean(r, ls2, A2, C2, L + 1)
  <2> SUFFICES ASSUME NEW row \in Universe, NEW w, Solves(r, row, w), NEW k \in 1..(L + 1)
               PROVE  Means(r, w, row, A2[k], C2[k], Hole(A2, k), ls2[k])
    BY DEF AllMean
  <2>1. DOMAIN A2 = 1..(L + 1)
    BY <1>17
  <2>2. CASE k = L + 1
    BY <1>8, <1>15, <1>16, <1>17, <2>2 DEF Means
  <2>3. CASE k = L
    <3>1. Hole(A2, k) = {x}
      <4>1. DOMAIN A2 \cap {k + 1} = {L + 1}
        BY <1>5, <2>1, <2>3
      <4> QED BY <1>17, <4>1 DEF Hole
    <3> QED BY <1>3, <1>5, <1>14, <1>16, <1>17, <2>3, <3>1
  <2>4. CASE k \in 1..(L - 1)
    <3>1. AllMean(r, ls, A, C, Len(ls) - 1)
      BY <1>5, <1>12, BelowStays
    <3>2. Means(r, w, row, A[k], C[k], Hole(A, k), ls[k])
      BY <1>5, <2>4, <3>1 DEF AllMean
    <3>3. k \in 1..L /\ k + 1 \in 1..L
      BY <1>5, <2>4
    <3>4. Hole(A2, k) = Hole(A, k)
      <4>1. DOMAIN A2 \cap {k + 1} = {k + 1} /\ DOMAIN A \cap {k + 1} = {k + 1}
        BY <1>5, <2>1, <3>3
      <4> QED BY <1>17, <3>3, <4>1 DEF Hole
    <3> QED BY <1>16, <1>17, <3>2, <3>3, <3>4
  <2> QED BY <1>5, <2>2, <2>3, <2>4
<1>24. Holds(r, x, ls2, no, A2, C2)
  BY <1>5, <1>8, <1>12, <1>15, <1>16, <1>17, <1>22, <1>23 DEF Holds
<1>25. Told(r, x, ls2, no)
  BY <1>24 DEF Told
<1>26. r = nodes' /\ group' = x /\ levels' = ls2 /\ flags' = {} /\ negate' = FALSE /\ join' = no /\ no \in BOOLEAN
  BY <1>3 DEF pushOpen, OpenLevel, ls2, top
<1> QED BY <1>25, <1>26 DEF FilterInv

\* The level below the top one is told by the same groups, but for the group of the top one.
LEMMA Shortened ==
  ASSUME NEW ns, NEW g, NEW ls, NEW j, NEW A, NEW C, Holds(ns, g, ls, j, A, C),
         NEW n \in Nat, n >= 1, Len(ls) = n + 1, NEW h, h = A[n + 1],
         NEW ls1, ls1 = SubSeq(ls, 1, n), NEW A1, A1 = [k \in 1..n |-> A[k]],
         NEW C1, C1 = [k \in 1..n |-> C[k]]
  PROVE  HoldsBelow(ns, ns[h].parent, ls1, ls[n + 1].or, A1, C1)
<1>1. /\ Tree(ns) /\ ls \in Seq(Levels) /\ Opened(ns, g, ls, j, A, C) /\ AllMean(ns, ls, A, C, n + 1)
  BY DEF Holds
<1>2. /\ 1 \in 1..n /\ n \in 1..n /\ n \in 1..(n + 1) - 1 /\ n + 1 \in 1..(n + 1) /\ n < n + 1
      /\ \A k \in 1..n : k \in 1..(n + 1) /\ k < n + 1
      /\ \A k \in 1..n - 1 : k \in 1..n /\ k + 1 \in 1..n /\ k \in 1..(n + 1) - 1 /\ k < n
  OBVIOUS
<1>3. ls1 \in Seq(Levels) /\ Len(ls1) = n /\ \A k \in 1..n : ls1[k] = ls[k]
  <2>1. \A k \in 1..n : ls[k] \in Levels
    BY <1>1, <1>2
  <2> QED BY <1>1, <2>1
<1>4. /\ A \in [1..(n + 1) -> DOMAIN ns] /\ C \in [1..(n + 1) -> SUBSET DOMAIN ns] /\ A[1] = Root
      /\ \A k \in 1..(n + 1) :
           /\ ns[A[k]].type = "all" /\ ("not" \in ns[A[k]].flags <=> ls[k].not)
           /\ OrChain(ns, A[k], C[k]) /\ (C[k] # {} <=> OrAfter(ls, j, k))
      /\ \A k \in 1..(n + 1) - 1 :
           /\ ns[A[k + 1]].parent \in Spot(A[k], C[k])
           /\ C[k] = {} => A[k + 1] = Max(Children(ns, A[k]))
      /\ \A i, k \in 1..(n + 1) : i # k => A[i] # A[k] /\ C[i] \cap C[k] = {}
  BY <1>1 DEF Opened
<1>5. /\ A1 \in [1..n -> DOMAIN ns] /\ C1 \in [1..n -> SUBSET DOMAIN ns]
      /\ \A k \in 1..n : A1[k] = A[k] /\ C1[k] = C[k]
  BY <1>2, <1>4
<1>6. A1[1] = Root /\ ns[h].parent \in Spot(A1[n], C1[n])
  BY <1>2, <1>4, <1>5
<1>7. ASSUME NEW k \in 1..n
      PROVE  /\ ns[A1[k]].type = "all" /\ ("not" \in ns[A1[k]].flags <=> ls1[k].not)
             /\ OrChain(ns, A1[k], C1[k]) /\ (C1[k] # {} <=> OrAfter(ls1, ls[n + 1].or, k))
  <2>1. A1[k] = A[k] /\ C1[k] = C[k] /\ ls1[k] = ls[k] /\ k \in 1..(n + 1) /\ k < n + 1
    BY <1>2, <1>3, <1>5
  <2>2. OrAfter(ls, j, k) = ls[k + 1].or
    BY <2>1 DEF OrAfter
  <2>3. OrAfter(ls1, ls[n + 1].or, k) = ls[k + 1].or
    <3>1. CASE k = n
      BY <1>3, <3>1 DEF OrAfter
    <3>2. CASE k # n
      <4>1. k \in 1..n - 1
        BY <3>2
      <4>2. k + 1 \in 1..n /\ k < n
        BY <1>2, <4>1
      <4> QED BY <1>3, <4>2 DEF OrAfter
    <3> QED BY <3>1, <3>2
  <2> QED BY <1>4, <2>1, <2>2, <2>3
<1>8. ASSUME NEW k \in 1..n - 1
      PROVE  /\ ns[A1[k + 1]].parent \in Spot(A1[k], C1[k])
             /\ C1[k] = {} => A1[k + 1] = Max(Children(ns, A1[k]))
  <2>1. k \in 1..n /\ k + 1 \in 1..n /\ k \in 1..(n + 1) - 1
    BY <1>2
  <2> QED BY <1>4, <1>5, <2>1
<1>9. \A i, k \in 1..n : i # k => A1[i] # A1[k] /\ C1[i] \cap C1[k] = {}
  BY <1>2, <1>4, <1>5
<1>10. Opened(ns, ns[h].parent, ls1, ls[n + 1].or, A1, C1)
  <2> HIDE DEF Spot
  <2>1. /\ A1 \in [1..Len(ls1) -> DOMAIN ns] /\ C1 \in [1..Len(ls1) -> SUBSET DOMAIN ns]
        /\ A1[1] = Root /\ ns[h].parent \in Spot(A1[Len(ls1)], C1[Len(ls1)])
    BY <1>3, <1>5, <1>6
  <2>2. \A k \in 1..Len(ls1) :
          /\ ns[A1[k]].type = "all" /\ ("not" \in ns[A1[k]].flags <=> ls1[k].not)
          /\ OrChain(ns, A1[k], C1[k]) /\ (C1[k] # {} <=> OrAfter(ls1, ls[n + 1].or, k))
    BY <1>3, <1>7
  <2>3. \A k \in 1..Len(ls1) - 1 :
          /\ ns[A1[k + 1]].parent \in Spot(A1[k], C1[k])
          /\ C1[k] = {} => A1[k + 1] = Max(Children(ns, A1[k]))
    BY <1>3, <1>8
  <2>4. \A i, k \in 1..Len(ls1) : i # k => A1[i] # A1[k] /\ C1[i] \cap C1[k] = {}
    BY <1>3, <1>9
  <2> QED BY <2>1, <2>2, <2>3, <2>4 DEF Opened
<1>11. AllMean(ns, ls1, A1, C1, n - 1)
  <2> SUFFICES ASSUME NEW row \in Universe, NEW v, Solves(ns, row, v), NEW k \in 1..n - 1
               PROVE  Means(ns, v, row, A1[k], C1[k], Hole(A1, k), ls1[k])
    BY DEF AllMean
  <2>1. k \in 1..n /\ k + 1 \in 1..n /\ k \in 1..(n + 1) /\ k + 1 \in 1..(n + 1)
    BY <1>2
  <2>2. Means(ns, v, row, A[k], C[k], Hole(A, k), ls[k])
    BY <1>1, <2>1 DEF AllMean
  <2>3. Hole(A1, k) = Hole(A, k)
    <3>1. DOMAIN A = 1..(n + 1) /\ DOMAIN A1 = 1..n
      BY <1>4, <1>5
    <3>2. DOMAIN A1 \cap {k + 1} = {k + 1} /\ DOMAIN A \cap {k + 1} = {k + 1}
      BY <2>1, <3>1
    <3> QED BY <1>5, <2>1, <3>2 DEF Hole
  <2> QED BY <1>3, <1>5, <2>1, <2>2, <2>3
<1> QED BY <1>1, <1>3, <1>10, <1>11 DEF HoldsBelow

\* What the group of an inner level says is the last operand of the one around it.
LEMMA InnerSays ==
  ASSUME NEW ns, NEW g, NEW ls, NEW j, NEW A, NEW C, Holds(ns, g, ls, j, A, C),
         NEW n \in 1..Len(ls), n # Len(ls), NEW row \in Universe, NEW v, Solves(ns, row, v),
         NEW matched, v[A[n + 1]] <=> row \in matched
  PROVE  Means(ns, v, row, A[n], {}, {}, WithOperand(ls[n], ls[n + 1].or, matched))
<1>1. /\ Tree(ns) /\ ls \in Seq(Levels) /\ Len(ls) \in Nat /\ Opened(ns, g, ls, j, A, C)
      /\ AllMean(ns, ls, A, C, Len(ls))
  BY DEF Holds
<1>2. n + 1 \in 1..Len(ls) /\ n \in 1..Len(ls) - 1 /\ n < Len(ls)
  BY <1>1
<1>3. PICK a, D, h, level, or : a = A[n] /\ D = C[n] /\ h = A[n + 1] /\ level = ls[n] /\ or = ls[n + 1].or
  OBVIOUS
<1>4. Hole(A, n) = {h}
  <2>1. DOMAIN A = 1..Len(ls)
    BY <1>1 DEF Opened
  <2>2. DOMAIN A \cap {n + 1} = {n + 1}
    BY <1>2, <2>1
  <2> QED BY <1>3, <2>2 DEF Hole
<1>5. Means(ns, v, row, a, D, {h}, level)
  BY <1>1, <1>3, <1>4 DEF AllMean
<1>6. OrChain(ns, a, D) /\ (or <=> D # {})
  BY <1>1, <1>2, <1>3 DEF Opened, OrAfter
<1>7. ns[h].parent \in Spot(a, D) /\ (D = {} => h = Max(Children(ns, a)))
  BY <1>1, <1>2, <1>3 DEF Opened
<1>8. h \in DOMAIN ns \ D
  <2>1. PathTold(ns, g, ls, A, C)
    BY <1>1, OnPath DEF Holds
  <2> QED BY <1>2, <1>3, <2>1 DEF PathTold
<1>9. level \in Levels /\ or \in BOOLEAN
  <2>1. ls[n] \in Levels /\ ls[n + 1] \in Levels
    BY <1>1, <1>2
  <2> QED BY <1>3, <2>1 DEF Levels
<1>10. v[h] <=> row \in matched
  BY <1>3
<1>11. Means(ns, v, row, a, {}, {}, WithOperand(level, or, matched))
  BY <1>1, <1>5, <1>6, <1>7, <1>8, <1>9, <1>10, HoleFilled
<1> QED BY <1>3, <1>11

\* A level with one more operand is a level, with the same words before it.
LEMMA OperandLevel ==
  ASSUME NEW level \in Levels, NEW or \in BOOLEAN, NEW matched \in SUBSET Universe
  PROVE  /\ WithOperand(level, or, matched) \in Levels /\ WithOperand(level, or, matched).not = level.not
         /\ WithOperand(level, or, matched).or = level.or /\ WithOperand(level, or, matched).empty = FALSE
BY DEF WithOperand, Levels

\* The rows of a level are rows.
LEMMA RowsOfLevel ==
  ASSUME NEW level \in Levels
  PROVE  LevelRows(level) \in SUBSET Universe
BY DEF LevelRows, Negated, Levels

\* Levels have what levels have.
LEMMA LevelsTyped ==
  ASSUME NEW ls \in Seq(Levels)
  PROVE  \A k \in 1..Len(ls) : ls[k] \in Levels /\ ls[k].or \in BOOLEAN
<1>1. \A k \in 1..Len(ls) : ls[k] \in Levels
  OBVIOUS
<1> QED BY <1>1 DEF Levels

\* One level of a sequence of levels is replaced, and those above it dropped.
LEMMA LevelsCut ==
  ASSUME NEW ls \in Seq(Levels), NEW n \in 1..Len(ls), NEW new \in Levels
  PROVE  SubSeq([ls EXCEPT ![n] = new], 1, n) = [SubSeq(ls, 1, n) EXCEPT ![n] = new]
<1>1. PICK S : S = Levels
  OBVIOUS
<1>2. ls \in Seq(S) /\ new \in S
  BY <1>1
<1>3. PICK with : with = [ls EXCEPT ![n] = new]
  OBVIOUS
<1>4. with \in Seq(S) /\ Len(with) = Len(ls) /\ \A k \in 1..Len(ls) : with[k] = IF k = n THEN new ELSE ls[k]
  BY <1>2, <1>3
<1>5. PICK m \in Nat : m = n /\ 1..m \subseteq 1..Len(ls)
  BY <1>2
<1>6. SubSeq(with, 1, m) = [k \in 1..m |-> with[k]] /\ SubSeq(ls, 1, m) = [k \in 1..m |-> ls[k]]
  BY <1>2, <1>4, <1>5
<1>7. [k \in 1..m |-> with[k]] = [k \in 1..m |-> IF k = m THEN new ELSE ls[k]]
  BY <1>4, <1>5
<1>8. [[k \in 1..m |-> ls[k]] EXCEPT ![m] = new] = [k \in 1..m |-> IF k = m THEN new ELSE ls[k]]
  OBVIOUS
<1> QED BY <1>3, <1>5, <1>6, <1>7, <1>8

\* A closed parenthesis: the rows of its level are the last operand of the one around it,
\* and the cursor is back in that one's group.
LEMMA CloseTold ==
  ASSUME FilterInv, ~join, pushClose, CloseLevel
  PROVE  FilterInv'
<1>1. /\ flags \subseteq {"not"} /\ negate \in BOOLEAN /\ join \in BOOLEAN
      /\ ("not" \in flags <=> negate) /\ Told(nodes, group, levels, join)
  BY DEF FilterInv
<1>2. PICK A, C : Holds(nodes, group, levels, join, A, C)
  BY <1>1 DEF Told
<1>3. PICK a, E, L : a = A[Len(levels)] /\ E = C[Len(levels)] /\ L = Len(levels)
  OBVIOUS
<1>4. AtCursor(nodes, group, levels, join, A, C, a, E)
  BY <1>2, <1>3, Cursor
<1>5. /\ Tree(nodes) /\ levels \in Seq(Levels) /\ L \in Nat /\ L >= 1 /\ L \in 1..L /\ OrChain(nodes, a, E)
      /\ group = a /\ a \in DOMAIN nodes /\ nodes[a].type = "all"
      /\ ("not" \in nodes[a].flags <=> levels[L].not) /\ levels[L] \in Levels
      /\ A \in [1..L -> DOMAIN nodes] /\ C \in [1..L -> SUBSET DOMAIN nodes]
      /\ \A row \in Universe : \A v : Solves(nodes, row, v) => Means(nodes, v, row, a, E, {}, levels[L])
  BY <1>3, <1>4 DEF AtCursor
<1>6. Opened(nodes, group, levels, join, A, C)
  BY <1>2 DEF Holds
<1>7. flags' = flags /\ negate' = negate /\ join' = join /\ nodes' = nodes
  BY DEF pushClose, CloseLevel
<1>8. CASE L = 1
  <2>1. nodes[group].parent = 0
    BY <1>3, <1>5, <1>6, <1>8, TreeTyped DEF Opened
  <2>2. NearestAll(0) = 0
    BY <1>5, NearestIs
  <2>3. group' = group
    BY <2>1, <2>2 DEF pushClose
  <2>4. levels' = levels
    BY <1>3, <1>8 DEF CloseLevel
  <2> QED BY <1>1, <1>7, <2>3, <2>4 DEF FilterInv
<1>9. CASE L # 1
  <2>1. PICK n \in Nat : n = L - 1
    BY <1>5
  <2>2. /\ n >= 1 /\ L = n + 1 /\ n \in 1..L /\ n \in 1..n /\ n # L /\ n \in 1..L - 1 /\ L - 1 = n
    BY <1>5, <1>9, <2>1
  <2> DEFINE p == nodes[a].parent
             ls1 == SubSeq(levels, 1, n)
             A1 == [k \in 1..n |-> A[k]]
             C1 == [k \in 1..n |-> C[k]]
             matched == LevelRows(levels[L])
             new == WithOperand(levels[n], levels[L].or, matched)
  <2>3. HoldsBelow(nodes, p, ls1, levels[n + 1].or, A1, C1)
    BY <1>2, <1>3, <2>2, Shortened
  <2>4. levels[n] \in Levels /\ levels[L].or \in BOOLEAN /\ matched \in SUBSET Universe
    <3>1. levels[n] \in Levels /\ levels[L].or \in BOOLEAN
      BY <1>3, <1>5, <2>2, LevelsTyped
    <3> QED BY <1>5, <3>1, RowsOfLevel
  <2>5. /\ new \in Levels /\ new.not = levels[n].not /\ new.or = levels[n].or /\ new.empty = FALSE
    BY <2>4, OperandLevel
  <2>6. ls1 \in Seq(Levels) /\ Len(ls1) = n /\ ls1[n] = levels[n] /\ \A k \in 1..n : ls1[k] = levels[k]
    <3>1. \A k \in 1..n : levels[k] \in Levels
      <4>1. 1..n \subseteq 1..Len(levels)
        BY <1>3, <2>2
      <4> QED BY <1>5, <4>1, LevelsTyped
    <3> QED BY <1>3, <1>5, <2>2, <3>1
  <2>7. A1[n] = A[n] /\ p \in Spot(A[n], C[n]) /\ OrChain(nodes, A[n], C[n]) /\ A[n] \in DOMAIN nodes
        /\ nodes[A[n]].type = "all"
    <3>1. nodes[A[n + 1]].parent \in Spot(A[n], C[n])
      BY <1>3, <1>6, <2>2 DEF Opened
    <3>2. OrChain(nodes, A[n], C[n]) /\ nodes[A[n]].type = "all"
      BY <1>3, <1>6, <2>2 DEF Opened
    <3> QED BY <1>3, <1>5, <2>2, <3>1, <3>2
  <2>8. Children(nodes, A[n]) # {}
    <3>1. CASE C[n] = {}
      <4>1. p = A[n]
        BY <2>7, <3>1 DEF Spot
      <4> QED BY <1>5, <4>1 DEF Children
    <3>2. CASE C[n] # {}
      BY <2>7, <3>2 DEF OrChain
    <3> QED BY <3>1, <3>2
  <2>9. \A row \in Universe : \A v : Solves(nodes, row, v) => Means(nodes, v, row, A[n], {}, {}, new)
    <3> SUFFICES ASSUME NEW row \in Universe, NEW v, Solves(nodes, row, v)
                 PROVE  Means(nodes, v, row, A[n], {}, {}, new)
      OBVIOUS
    <3>1. v[a] <=> row \in matched
      BY <1>5, LevelSays
    <3>2. v[A[n + 1]] <=> row \in matched
      BY <1>3, <2>2, <3>1
    <3> HIDE DEF matched
    <3>3. Means(nodes, v, row, A[n], {}, {}, WithOperand(levels[n], levels[n + 1].or, matched))
      BY <1>2, <1>3, <2>2, <3>2, InnerSays
    <3> QED BY <2>2, <3>3
  <2> HIDE DEF new, matched, ls1, A1, C1, p
  <2>10. Becomes(nodes, p, ls1, A1, C1, nodes, A[n], {}, A[n], join, new)
    <3>1. ChangedAt(nodes, nodes, p, Path(ls1, A1, C1)) /\ OrChain(nodes, A[n], {}) /\ A[n] \in Spot(A[n], {})
      BY DEF ChangedAt, OrChain, Spot
    <3> QED BY <1>5, <2>5, <2>6, <2>7, <2>8, <2>9, <3>1 DEF Becomes
  <2>11. Told(nodes, A[n], [ls1 EXCEPT ![Len(ls1)] = new], join)
    BY <2>3, <2>10, TopBecomes
  <2>12. levels' = [ls1 EXCEPT ![Len(ls1)] = new]
    <3>1. levels' = SubSeq([levels EXCEPT ![n] = new], 1, n)
      BY <1>3, <1>9, <2>2 DEF CloseLevel, Top, new, matched
    <3>2. SubSeq([levels EXCEPT ![n] = new], 1, n) = [ls1 EXCEPT ![n] = new]
      BY <1>3, <1>5, <2>2, <2>5, LevelsCut DEF ls1
    <3> QED BY <2>6, <3>1, <3>2
  <2>13. group' = A[n]
    <3>1. NearestAll(p) = A[n]
      BY <1>5, <2>7, NearestIs
    <3>2. A[n] # 0
      BY <1>5, <2>7, TreeTyped
    <3>3. group' = IF NearestAll(p) = 0 THEN group ELSE NearestAll(p)
      BY <1>5 DEF pushClose, p
    <3> QED BY <3>1, <3>2, <3>3
  <2> QED BY <1>1, <1>7, <2>11, <2>12, <2>13 DEF FilterInv
<1> QED BY <1>8, <1>9

\* An empty filter tells the one level it has.
LEMMA FilterStarts ==
  ASSUME FilterInit
  PROVE  FilterInv
<1> DEFINE root == Group("all", {}, 0)
           level == Level(FALSE, FALSE)
           A == [k \in 1..1 |-> Root]
           C == [k \in 1..1 |-> {}]
<1>1. /\ nodes = <<root>> /\ group = Root /\ flags = {} /\ levels = <<level>>
      /\ negate = FALSE /\ join = FALSE
  BY DEF FilterInit, MeaningInit
<1>2. root \in Nodes /\ root.type = "all" /\ root.flags = {} /\ root.parent = 0
  BY DEF Group, Nodes
<1>3. /\ level \in Levels /\ level.not = FALSE /\ level.or = FALSE /\ level.empty = TRUE
      /\ level.operands = Universe /\ level.last = Universe
  BY DEF Level, Levels
<1> HIDE DEF level
<1>4. /\ nodes \in Seq(Nodes) /\ DOMAIN nodes = {1} /\ nodes[1] = root
      /\ levels \in Seq(Levels) /\ Len(levels) = 1 /\ levels[1] = level /\ 1..1 = {1}
  <2> HIDE DEF root
  <2> QED BY <1>1, <1>2, <1>3
<1>5. Tree(nodes)
  <2>1. [n \in DOMAIN nodes |-> 0] \in [DOMAIN nodes -> 0..0] /\ 0 \in Nat
    OBVIOUS
  <2>2. \E max \in Nat : \E rank \in [DOMAIN nodes -> 0..max] :
          \A n \in DOMAIN nodes : n # Root => rank[n] < rank[nodes[n].parent]
    BY <1>4, <2>1 DEF Root
  <2> QED BY <1>4, <2>2 DEF Tree, Root
<1>6. Children(nodes, Root) = {}
  BY <1>2, <1>4 DEF Children, Root
<1>7. /\ A \in [1..1 -> DOMAIN nodes] /\ C \in [1..1 -> SUBSET DOMAIN nodes] /\ A[1] = Root /\ C[1] = {}
  BY <1>4 DEF Root
<1> HIDE DEF A, C
<1>8. Opened(nodes, group, levels, join, A, C)
  <2>1. OrChain(nodes, Root, {}) /\ group \in Spot(Root, {})
    BY <1>1 DEF OrChain, Spot
  <2>2. nodes[Root].type = "all" /\ ("not" \in nodes[Root].flags <=> levels[1].not)
    BY <1>2, <1>3, <1>4 DEF Root
  <2>3. OrAfter(levels, join, 1) = join
    BY <1>4 DEF OrAfter
  <2>4. 1..Len(levels) = {1} /\ 1..Len(levels) - 1 = {}
    BY <1>4
  <2> HIDE DEF root
  <2> QED BY <1>1, <1>4, <1>7, <2>1, <2>2, <2>3, <2>4 DEF Opened
<1>9. AllMean(nodes, levels, A, C, Len(levels))
  <2> SUFFICES ASSUME NEW row \in Universe, NEW v, NEW k \in 1..Len(levels)
               PROVE  Means(nodes, v, row, A[k], C[k], Hole(A, k), levels[k])
    BY DEF AllMean
  <2>1. k = 1
    BY <1>4
  <2> QED BY <1>3, <1>4, <1>6, <1>7, <2>1 DEF Means
<1>10. Holds(nodes, group, levels, join, A, C)
  BY <1>3, <1>4, <1>5, <1>6, <1>7, <1>8, <1>9 DEF Holds
<1>11. Told(nodes, group, levels, join)
  BY <1>10 DEF Told
<1> QED BY <1>1, <1>11 DEF FilterInv

\* One step of the machine keeps what the tree tells.
LEMMA FilterSteps ==
  ASSUME ~AnySynonym, FilterInv, [FilterNext]_filterVars
  PROVE  FilterInv'
<1>1. CASE UNCHANGED filterVars
  <2>1. nodes' = nodes /\ group' = group /\ flags' = flags /\ levels' = levels /\ negate' = negate /\ join' = join
    BY <1>1 DEF filterVars, tree, meaning
  <2> QED BY <2>1 DEF FilterInv
<1>2. ASSUME NEW op \in {"NOT", "OR", "(", ")"}, PushOperator(op)
      PROVE  FilterInv'
  <2>1. CASE pushNot /\ AddNot
    BY <2>1, NotTold
  <2>2. CASE pushOr /\ AddOr
    BY <2>2, OrTold
  <2>3. CASE pushOpen /\ OpenLevel
    BY <2>3, OpenTold
  <2>4. CASE ~join /\ pushClose /\ CloseLevel
    BY <2>4, CloseTold
  <2> QED BY <1>2, <2>1, <2>2, <2>3, <2>4 DEF PushOperator
<1>3. ASSUME NEW w \in Words, PushWord(w)
      PROVE  FilterInv'
  <2>1. CASE Expanded(w)
    <3>1. PICK s : s = CHOOSE t \in SynonymsOf(w) : TRUE
      OBVIOUS
    <3>2. ~join /\ pushSynonyms(w, s) /\ AddOperand(MeaningOf(w))
      BY <1>3, <2>1, <3>1 DEF PushWord
    <3> QED BY <2>1, <3>1, <3>2, SynonymsTold
  <2>2. CASE ~Expanded(w)
    <3>1. pushToken(w) /\ AddOperand(MeaningOf(w))
      BY <1>3, <2>2 DEF PushWord
    <3> QED BY <2>2, <3>1, TokenTold
  <2> QED BY <2>1, <2>2
<1> QED BY <1>1, <1>2, <1>3 DEF FilterNext

\* The rows of the levels from the n-th on, if rows are those of the levels above it.
RowsFrom(ls, n, matched) ==
  IF n = Len(ls) THEN LevelRows(ls[n])
  ELSE LevelRows(WithOperand(ls[n], ls[n + 1].or, matched))

\* What Meaning defines has a value.
MeansFrom(ls, f) ==
  /\ f \in [1..Len(ls) -> SUBSET Universe]
  /\ \A n \in 1..Len(ls) : f[n] = RowsFrom(ls, n, f[n + 1])

\* The rows of the levels from one on are rows.
LEMMA RowsFromTyped ==
  ASSUME NEW ls \in Seq(Levels), NEW n \in 1..Len(ls), NEW matched, n # Len(ls) => matched \in SUBSET Universe
  PROVE  RowsFrom(ls, n, matched) \in SUBSET Universe
<1>1. CASE n = Len(ls)
  BY <1>1, LevelsTyped, RowsOfLevel DEF RowsFrom
<1>2. CASE n # Len(ls)
  <2>1. n + 1 \in 1..Len(ls)
    BY <1>2
  <2>2. ls[n] \in Levels /\ ls[n + 1].or \in BOOLEAN
    BY <2>1, LevelsTyped
  <2>3. WithOperand(ls[n], ls[n + 1].or, matched) \in Levels
    BY <1>2, <2>2, OperandLevel
  <2> QED BY <1>2, <2>3, RowsOfLevel DEF RowsFrom
<1> QED BY <1>1, <1>2

\* Meaning has a value, by those of the levels above each.
LEMMA MeaningSolved ==
  ASSUME levels \in Seq(Levels), Len(levels) >= 1
  PROVE  \E f : MeansFrom(levels, f) /\ Meaning = f[1]
<1> DEFINE D == 1..Len(levels)
           V == SUBSET Universe
           rank == [n \in D |-> Len(levels) - n]
           eq == [n \in D |-> [f \in [D -> V] |-> RowsFrom(levels, n, f[n + 1])]]
<1>0. Len(levels) \in Nat
  OBVIOUS
<1>1. Ranks(D, rank, Len(levels)) /\ V # {}
  BY <1>0 DEF Ranks
<1>2. \A n \in D : n # Len(levels) => n + 1 \in D /\ rank[n + 1] < rank[n]
  BY <1>0
<1>3. eq \in [D -> [[D -> V] -> V]]
  <2> SUFFICES ASSUME NEW n \in D, NEW f \in [D -> V]
               PROVE  RowsFrom(levels, n, f[n + 1]) \in V
    OBVIOUS
  <2>1. n # Len(levels) => f[n + 1] \in V
    BY <1>2
  <2> QED BY <2>1, RowsFromTyped
<1>4. ASSUME NEW n \in D, NEW f \in [D -> V], NEW g \in [D -> V],
             \A m \in D : rank[m] < rank[n] => f[m] = g[m]
      PROVE  eq[n][f] = eq[n][g]
  <2> HIDE DEF rank
  <2>1. n # Len(levels) => f[n + 1] = g[n + 1]
    BY <1>2, <1>4
  <2>2. RowsFrom(levels, n, f[n + 1]) = RowsFrom(levels, n, g[n + 1])
    BY <2>1 DEF RowsFrom
  <2> QED BY <2>2
<1> DEFINE F == CHOOSE f : f = [n \in D |-> RowsFrom(levels, n, f[n + 1])]
<1>5. \E f : f \in [D -> V] /\ f = [n \in D |-> RowsFrom(levels, n, f[n + 1])]
  <2>1. LooksDown(D, V, rank, eq)
    <3> HIDE DEF rank, eq, D, V
    <3> QED BY <1>3, <1>4 DEF LooksDown
  <2>2. PICK f : Obeys(D, V, eq, f)
    <3> HIDE DEF rank, eq, D, V
    <3> QED BY <1>1, <2>1, Recursion
  <2>3. f \in [D -> V] /\ f = [n \in D |-> eq[n][f]]
    BY <2>2 DEF Obeys
  <2>4. \A n \in D : eq[n][f] = RowsFrom(levels, n, f[n + 1])
    BY <2>3
  <2> HIDE DEF eq, D, V, rank
  <2>5. f = [n \in D |-> RowsFrom(levels, n, f[n + 1])]
    BY <2>3, <2>4
  <2> QED BY <2>3, <2>5
<1>6. F = [n \in D |-> RowsFrom(levels, n, F[n + 1])]
  BY <1>5
<1>7. Meaning = F[1]
  BY DEF Meaning, RowsFrom
<1> HIDE DEF F
<1>8. F \in [D -> V]
  <2>1. PICK f : f \in [D -> V] /\ f = [n \in D |-> RowsFrom(levels, n, f[n + 1])]
    BY <1>5
  <2>2. AgreesUp(D, rank, F, f)
    <3> SUFFICES ASSUME NEW n \in D, \A m \in D : rank[m] < rank[n] => F[m] = f[m]
                 PROVE  F[n] = f[n]
      BY DEF AgreesUp
    <3> HIDE DEF rank
    <3>1. n # Len(levels) => F[n + 1] = f[n + 1]
      BY <1>2
    <3>2. F[n] = RowsFrom(levels, n, F[n + 1]) /\ f[n] = RowsFrom(levels, n, f[n + 1])
      BY <1>6, <2>1
    <3> QED BY <3>1, <3>2 DEF RowsFrom
  <2> HIDE DEF rank, D, V
  <2>3. \A n \in D : F[n] = f[n]
    BY <1>1, <2>2, RecursionOnce
  <2>4. F = [n \in D |-> f[n]]
    BY <1>6, <2>3
  <2> QED BY <2>1, <2>4
<1>9. MeansFrom(levels, F)
  BY <1>6, <1>8 DEF MeansFrom
<1> QED BY <1>7, <1>9

\* The tree matches what it means, from the last level to the first.
LEMMA TreeMatches ==
  ASSUME FilterInv
  PROVE  MatchesItsMeaning
<1>1. PICK A, C : Holds(nodes, group, levels, join, A, C)
  BY DEF FilterInv, Told
<1>2. PICK L \in Nat : L = Len(levels) /\ L >= 1
  BY <1>1 DEF Holds
<1>3. /\ Tree(nodes) /\ levels \in Seq(Levels) /\ Opened(nodes, group, levels, join, A, C)
      /\ AllMean(nodes, levels, A, C, L)
  BY <1>1, <1>2 DEF Holds
<1>4. PICK f : MeansFrom(levels, f) /\ Meaning = f[1]
  BY <1>2, <1>3, MeaningSolved
<1>5. /\ A \in [1..L -> DOMAIN nodes] /\ A[1] = Root
      /\ \A k \in 1..L : /\ nodes[A[k]].type = "all" /\ ("not" \in nodes[A[k]].flags <=> levels[k].not)
                         /\ OrChain(nodes, A[k], C[k])
  BY <1>2, <1>3 DEF Opened
<1> SUFFICES ASSUME NEW row \in Universe
             PROVE  match(nodes, row) <=> row \in Meaning
  BY DEF MatchesItsMeaning
<1>6. PICK v \in [DOMAIN nodes -> BOOLEAN] : Solves(nodes, row, v) /\ match(nodes, row) = v[Root]
  BY <1>3, Solved
<1> DEFINE Says(n) == v[A[n]] <=> row \in f[n]
<1>7. Says(L)
  <2>1. L \in 1..L /\ levels[L] \in Levels
    BY <1>2, <1>3
  <2>2. Hole(A, L) = {}
    <3>1. DOMAIN A \cap {L + 1} = {}
      BY <1>2, <1>5
    <3> QED BY <3>1 DEF Hole
  <2>3. Means(nodes, v, row, A[L], C[L], {}, levels[L])
    BY <1>3, <1>6, <2>1, <2>2 DEF AllMean
  <2>4. v[A[L]] <=> row \in LevelRows(levels[L])
    BY <1>3, <1>5, <1>6, <2>1, <2>3, LevelSays
  <2>5. f[L] = LevelRows(levels[L])
    BY <1>2, <1>4, <2>1 DEF MeansFrom, RowsFrom
  <2> QED BY <2>4, <2>5
<1>8. ASSUME NEW n \in Nat, n >= 1, n < L, Says(n + 1)
      PROVE  Says(n)
  <2>1. n \in 1..L /\ n + 1 \in 1..L /\ n \in 1..L - 1 /\ n # L
    BY <1>2, <1>8
  <2>2. PICK matched : matched = f[n + 1]
    OBVIOUS
  <2>3. matched \in SUBSET Universe /\ f[n] = LevelRows(WithOperand(levels[n], levels[n + 1].or, matched))
    BY <1>2, <1>4, <2>1, <2>2 DEF MeansFrom, RowsFrom
  <2>4. levels[n] \in Levels /\ levels[n + 1].or \in BOOLEAN
    BY <1>2, <1>3, <2>1, LevelsTyped
  <2>5. PICK level : level = WithOperand(levels[n], levels[n + 1].or, matched)
    OBVIOUS
  <2>6. level \in Levels /\ level.not = levels[n].not
    BY <2>3, <2>4, <2>5, OperandLevel
  <2>7. Means(nodes, v, row, A[n], {}, {}, level)
    BY <1>1, <1>2, <1>6, <1>8, <2>1, <2>2, <2>3, <2>5, InnerSays
  <2>8. v[A[n]] <=> row \in LevelRows(level)
    <3>1. OrChain(nodes, A[n], {})
      BY DEF OrChain
    <3>2. A[n] \in DOMAIN nodes /\ nodes[A[n]].type = "all" /\ ("not" \in nodes[A[n]].flags <=> level.not)
      BY <1>5, <2>1, <2>6
    <3> QED BY <1>3, <1>6, <2>6, <2>7, <3>1, <3>2, LevelSays
  <2> QED BY <2>3, <2>5, <2>8
<1> HIDE DEF Says
<1>9. Says(1)
  <2> DEFINE S == {k \in 0..L - 1 : Says(L - k)}
  <2>1. L - 1 \in Nat /\ L - 1 \in 0..L - 1 /\ 0 \in S
    BY <1>2, <1>7
  <2>2. \A k \in 1..L - 1 : k - 1 \in S => k \in S
    <3> SUFFICES ASSUME NEW k \in 1..L - 1, k - 1 \in S PROVE k \in S
      OBVIOUS
    <3>1. PICK n \in Nat : n = L - k /\ n >= 1 /\ n < L /\ L - (k - 1) = n + 1 /\ k \in 0..L - 1
      BY <1>2
    <3>2. Says(n + 1)
      BY <3>1
    <3>3. Says(n)
      BY <1>8, <3>1, <3>2
    <3> QED BY <3>1, <3>3
  <2>3. PICK m : m = L - 1
    OBVIOUS
  <2> HIDE DEF S
  <2>4. \A k \in 0..m : k \in S
    BY <2>1, <2>2, <2>3, CountUp
  <2>5. m \in S /\ L - m = 1
    BY <1>2, <2>1, <2>3, <2>4
  <2> QED BY <2>5 DEF S
<1> QED BY <1>4, <1>5, <1>6, <1>9 DEF Says

\* The groups under the cursor tell the meaning level by level, after every word: the tree is
\* one, the open groups are a path in it, and what is matched by the nodes in each is what its
\* level means, but for what the next parenthesis will mean (filter.cpp, Group::push).
THEOREM FilterKeepsMeaning ==
  ASSUME ~AnySynonym
  PROVE  FilterSpec => []FilterInv
<1>1. FilterInit => FilterInv
  BY FilterStarts
<1>2. FilterInv /\ [FilterNext]_filterVars => FilterInv'
  BY FilterSteps
<1> QED BY <1>1, <1>2, PTL DEF FilterSpec

\* For any words, synonyms and rows: whatever was typed so far, the tree matches the rows that
\* the filter means, if no word with synonyms comes right after OR (filter.cpp).
THEOREM FilterIsRight ==
  ASSUME ~AnySynonym
  PROVE  FilterSpec => []MatchesItsMeaning
<1>1. FilterInv => MatchesItsMeaning
  BY TreeMatches
<1> QED BY <1>1, FilterKeepsMeaning, PTL
=============================================================================
