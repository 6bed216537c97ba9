--------------------------- MODULE SettingsProofs ---------------------------
(***************************************************************************)
(* What is saved, shown, counted and synchronized agrees with the settings, *)
(* for any number of repositories and of commands.  First the list itself:  *)
(* it behaves as a map from names to remotes, AddTo and RemoveFrom keep the *)
(* vector and the map in step and change what is found under one name only. *)
(***************************************************************************)
EXTENDS Settings, FiniteSetTheorems, SequenceTheorems, WellFoundedInduction, TLAPS

Lists == [remotes : Seq(Remote), map : UNION {[N -> Nat] : N \in SUBSET Names}]

\* What erasing the element at position p does to the others.
LEMMA ErasedAt ==
  ASSUME NEW s \in Seq(Remote), NEW p \in 1..Len(s)
  PROVE  /\ RemoveAt(s, p) \in Seq(Remote)
         /\ Len(RemoveAt(s, p)) = Len(s) - 1
         /\ \A i \in 1..(Len(s) - 1) :
              RemoveAt(s, p)[i] = IF i < p THEN s[i] ELSE s[i + 1]
<1> DEFINE before == SubSeq(s, 1, p - 1)
           after == SubSeq(s, p + 1, Len(s))
<1>1. /\ before \in Seq(Remote)
      /\ Len(before) = p - 1
      /\ \A i \in 1..(p - 1) : before[i] = s[i]
  <2>1. 1 \in 1..(Len(s) + 1) /\ p - 1 \in 0..Len(s)
    OBVIOUS
  <2>2. QED
    BY <2>1, SubSeqProperties
<1>2. /\ after \in Seq(Remote)
      /\ Len(after) = Len(s) - p
      /\ \A i \in 1..(Len(s) - p) : after[i] = s[p + i]
  <2>1. p + 1 \in 1..(Len(s) + 1) /\ Len(s) \in 0..Len(s)
    OBVIOUS
  <2>2. QED
    BY <2>1, SubSeqProperties
<1> HIDE DEF before, after
<1>3. /\ before \o after \in Seq(Remote)
      /\ Len(before \o after) = Len(s) - 1
      /\ \A i \in 1..(Len(s) - 1) :
           (before \o after)[i] = IF i < p THEN before[i] ELSE after[i - (p - 1)]
  <2>1. /\ before \o after \in Seq(Remote)
        /\ Len(before \o after) = Len(before) + Len(after)
        /\ \A i \in 1..(Len(before) + Len(after)) :
             (before \o after)[i] = IF i <= Len(before) THEN before[i]
                                    ELSE after[i - Len(before)]
    BY <1>1, <1>2, ConcatProperties
  <2>2. Len(before) + Len(after) = Len(s) - 1 /\ Len(before) = p - 1
    BY <1>1, <1>2
  <2>3. \A i \in 1..(Len(s) - 1) : i <= p - 1 <=> i < p
    OBVIOUS
  <2>4. QED
    BY <2>1, <2>2, <2>3
<1>4. \A i \in 1..(Len(s) - 1) :
        (before \o after)[i] = IF i < p THEN s[i] ELSE s[i + 1]
  BY <1>1, <1>2, <1>3
<1>5. QED
  BY <1>3, <1>4 DEF RemoveAt, before, after

-----------------------------------------------------------------------------
(* Adding a remote *)

\* After add() the list is well formed, the name is found with the new remote and
\* every other name as before (remote.cpp:143-163).
THEOREM AddLooksUp ==
  ASSUME NEW l \in Lists, WellFormed(l), NEW r \in Remote
  PROVE  /\ AddTo(l, r) \in Lists
         /\ WellFormed(AddTo(l, r))
         /\ \A n \in Names : Get(AddTo(l, r), n) = IF n = r.name THEN r ELSE Get(l, n)
<1>0. /\ r # NoRemote /\ r.name \in Names
      /\ l.remotes \in Seq(Remote)
      /\ DOMAIN l.map \in SUBSET Names
      /\ l.map \in [DOMAIN l.map -> Nat]
  BY RemoteListAssumption DEF Remote, Autos, Lists
<1>1. CASE HasName(l, r.name)
  <2> DEFINE i == l.map[r.name]
             s == [l.remotes EXCEPT ![i] = r]
  <2>1. AddTo(l, r) = [l EXCEPT !.remotes = s]
    BY <1>0, <1>1 DEF AddTo, Lists
  <2>2. i \in 1..Len(l.remotes) /\ l.remotes[i].name = r.name
    BY <1>0, <1>1 DEF WellFormed, HasName
  <2>3. /\ s \in Seq(Remote) /\ Len(s) = Len(l.remotes)
        /\ \A k \in 1..Len(l.remotes) : s[k] = IF k = i THEN r ELSE l.remotes[k]
    BY <1>0, <2>2
  <2>4. AddTo(l, r).remotes = s /\ AddTo(l, r).map = l.map /\ AddTo(l, r) \in Lists
    BY <1>0, <2>1, <2>3 DEF Lists
  <2> HIDE DEF i, s
  <2>5. \A k \in 1..Len(s) : s[k].name = l.remotes[k].name
    BY <2>2, <2>3
  <2>6. WellFormed(AddTo(l, r))
    <3>1. DOMAIN s = 1..Len(l.remotes) /\ DOMAIN l.remotes = 1..Len(l.remotes)
      BY <1>0, <2>3
    <3>2. \A n \in DOMAIN l.map : l.map[n] \in DOMAIN s /\ s[l.map[n]].name = n
      BY <2>3, <2>5, <3>1 DEF WellFormed
    <3>3. \A k \in DOMAIN s : s[k].name \in DOMAIN l.map /\ l.map[s[k].name] = k
      BY <2>3, <2>5, <3>1 DEF WellFormed
    <3>4. QED
      BY <2>4, <3>2, <3>3 DEF WellFormed
  <2>7. ASSUME NEW n \in Names
        PROVE  Get(AddTo(l, r), n) = IF n = r.name THEN r ELSE Get(l, n)
    <3>1. CASE n = r.name
      BY <1>1, <2>2, <2>3, <2>4, <3>1 DEF Get, HasName, i
    <3>2. CASE n # r.name
      <4>1. HasName(l, n) => l.map[n] \in 1..Len(l.remotes) /\ l.map[n] # i
        BY <1>0, <2>2, <3>2 DEF WellFormed, HasName
      <4>2. QED
        BY <2>3, <2>4, <3>2, <4>1 DEF Get, HasName
    <3>3. QED
      BY <3>1, <3>2
  <2>8. QED
    BY <2>4, <2>6, <2>7
<1>2. CASE ~HasName(l, r.name)
  <2> DEFINE s == Append(l.remotes, r)
             N == DOMAIN l.map \union {r.name}
             m == [n \in N |-> IF n = r.name THEN Len(l.remotes) + 1 ELSE l.map[n]]
  <2>1. AddTo(l, r) = [remotes |-> s, map |-> m]
    BY <1>0, <1>2 DEF AddTo
  <2>2. /\ s \in Seq(Remote) /\ Len(s) = Len(l.remotes) + 1
        /\ s[Len(l.remotes) + 1] = r
        /\ \A k \in 1..Len(l.remotes) : s[k] = l.remotes[k]
    BY <1>0
  <2>3. /\ N \in SUBSET Names /\ m \in [N -> Nat] /\ DOMAIN m = N
        /\ m[r.name] = Len(l.remotes) + 1
        /\ \A n \in DOMAIN l.map : n # r.name /\ m[n] = l.map[n]
    BY <1>0, <1>2 DEF HasName
  <2>4. AddTo(l, r).remotes = s /\ AddTo(l, r).map = m
    BY <2>1
  <2>5. AddTo(l, r) \in Lists
    <3> HIDE DEF s, N, m
    <3>1. m \in UNION {[M -> Nat] : M \in SUBSET Names}
      BY <2>3
    <3>2. QED
      BY <2>1, <2>2, <3>1 DEF Lists
  <2>6. \A k \in DOMAIN s : k = Len(l.remotes) + 1 \/ k \in DOMAIN l.remotes
    BY <1>0, <2>2
  <2>7. \A n \in N : n = r.name \/ n \in DOMAIN l.map
    OBVIOUS
  <2> HIDE DEF s, N, m
  <2>8. WellFormed(AddTo(l, r))
    <3>1. \A n \in DOMAIN m : m[n] \in DOMAIN s /\ s[m[n]].name = n
      BY <1>0, <2>2, <2>3, <2>7 DEF WellFormed
    <3>2. \A k \in DOMAIN s : s[k].name \in DOMAIN m /\ m[s[k].name] = k
      BY <1>0, <2>2, <2>3, <2>6, r.name \in N DEF WellFormed, N
    <3>3. QED
      BY <2>4, <3>1, <3>2 DEF WellFormed
  <2>9. ASSUME NEW n \in Names
        PROVE  Get(AddTo(l, r), n) = IF n = r.name THEN r ELSE Get(l, n)
    <3>1. CASE n = r.name
      BY <2>2, <2>3, <2>4, <3>1 DEF Get, HasName, N
    <3>2. CASE n # r.name
      <4>1. n \in DOMAIN m <=> n \in DOMAIN l.map
        BY <2>3, <2>7, <3>2 DEF N
      <4>2. HasName(l, n) => l.map[n] \in 1..Len(l.remotes)
        BY <1>0 DEF WellFormed, HasName
      <4>3. QED
        BY <2>2, <2>3, <2>4, <3>2, <4>1, <4>2 DEF Get, HasName
    <3>3. QED
      BY <3>1, <3>2
  <2>10. QED
    BY <2>5, <2>8, <2>9
<1>3. QED
  BY <1>1, <1>2

-----------------------------------------------------------------------------
(* Removing one *)

\* After remove() the list is well formed, the name is not found anymore, every other
\* name is found as before (remote.cpp:165-180).
THEOREM RemoveLooksUp ==
  ASSUME NEW l \in Lists, WellFormed(l), NEW x \in Names
  PROVE  /\ RemoveFrom(l, x) \in Lists
         /\ WellFormed(RemoveFrom(l, x))
         /\ ~HasName(RemoveFrom(l, x), x)
         /\ \A n \in Names \ {x} : Get(RemoveFrom(l, x), n) = Get(l, n)
<1>0. /\ l.remotes \in Seq(Remote)
      /\ DOMAIN l.map \in SUBSET Names
      /\ l.map \in [DOMAIN l.map -> Nat]
      /\ DOMAIN l.remotes = 1..Len(l.remotes)
  BY DEF Lists
<1>1. CASE ~HasName(l, x)
  <2>1. RemoveFrom(l, x) = l
    BY <1>1 DEF RemoveFrom
  <2>2. QED
    BY <1>1, <2>1
<1>2. CASE HasName(l, x)
  <2> DEFINE p == l.map[x]
             s == RemoveAt(l.remotes, p)
             N == DOMAIN l.map \ {x}
             m == [n \in N |-> Shifted(l.map[n], p)]
  <2>1. RemoveFrom(l, x) = [remotes |-> s, map |-> m]
    BY <1>2 DEF RemoveFrom
  <2>2. p \in 1..Len(l.remotes) /\ l.remotes[p].name = x
    BY <1>0, <1>2 DEF WellFormed, HasName
  <2>3. /\ s \in Seq(Remote) /\ Len(s) = Len(l.remotes) - 1
        /\ \A i \in 1..(Len(l.remotes) - 1) :
             s[i] = IF i < p THEN l.remotes[i] ELSE l.remotes[i + 1]
    BY <1>0, <2>2, ErasedAt
  <2>4. \A n \in N : /\ l.map[n] \in 1..Len(l.remotes) /\ l.map[n] # p
                     /\ l.remotes[l.map[n]].name = n
    BY <1>0, <2>2 DEF WellFormed
  <2>5. \A n \in N : m[n] = IF l.map[n] > p THEN l.map[n] - 1 ELSE l.map[n]
    BY DEF Shifted
  <2>6. N \in SUBSET Names /\ DOMAIN m = N
    BY <1>0
  <2> HIDE DEF p, s, N, m
  <2>7. \A n \in N : m[n] \in 1..Len(s) /\ s[m[n]] = l.remotes[l.map[n]]
    <3> SUFFICES ASSUME NEW n \in N
                 PROVE  m[n] \in 1..Len(s) /\ s[m[n]] = l.remotes[l.map[n]]
      OBVIOUS
    <3>1. Len(l.remotes) \in Nat /\ Len(s) = Len(l.remotes) - 1
      BY <1>0, <2>3
    <3>2. CASE l.map[n] > p
      <4>1. m[n] = l.map[n] - 1 /\ m[n] \in 1..Len(s) /\ ~(m[n] < p)
        BY <2>2, <2>4, <2>5, <3>1, <3>2
      <4>2. QED
        BY <2>3, <2>4, <3>1, <4>1
    <3>3. CASE ~(l.map[n] > p)
      <4>1. m[n] = l.map[n] /\ m[n] \in 1..Len(s) /\ m[n] < p
        BY <2>2, <2>4, <2>5, <3>1, <3>3
      <4>2. QED
        BY <2>3, <3>1, <4>1
    <3>4. QED
      BY <3>2, <3>3
  <2>8. RemoveFrom(l, x) \in Lists
    <3>1. m \in [N -> Nat]
      BY <2>3, <2>6, <2>7 DEF m
    <3>2. m \in UNION {[M -> Nat] : M \in SUBSET Names}
      BY <2>6, <3>1
    <3>3. QED
      BY <2>1, <2>3, <3>2 DEF Lists
  <2>9. \A i \in 1..Len(s) : s[i].name \in N /\ m[s[i].name] = i
    <3> SUFFICES ASSUME NEW i \in 1..Len(s)
                 PROVE  s[i].name \in N /\ m[s[i].name] = i
      OBVIOUS
    <3> DEFINE k == IF i < p THEN i ELSE i + 1
    <3>1. k \in 1..Len(l.remotes) /\ k # p /\ s[i] = l.remotes[k]
      BY <1>0, <2>2, <2>3
    <3>2. l.remotes[k].name \in DOMAIN l.map /\ l.map[l.remotes[k].name] = k
      BY <1>0, <3>1 DEF WellFormed
    <3>3. s[i].name \in N
      BY <2>2, <3>1, <3>2 DEF N, p
    <3>4. m[s[i].name] = IF k > p THEN k - 1 ELSE k
      BY <2>5, <3>1, <3>2, <3>3
    <3>5. (IF k > p THEN k - 1 ELSE k) = i
      BY <1>0, <2>2, <2>3
    <3>6. QED
      BY <3>3, <3>4, <3>5
  <2>10. RemoveFrom(l, x).remotes = s /\ RemoveFrom(l, x).map = m /\ DOMAIN s = 1..Len(s)
    BY <2>1, <2>3
  <2>11. WellFormed(RemoveFrom(l, x))
    <3>1. \A n \in DOMAIN m : m[n] \in DOMAIN s /\ s[m[n]].name = n
      BY <2>4, <2>6, <2>7, <2>10
    <3>2. \A i \in DOMAIN s : s[i].name \in DOMAIN m /\ m[s[i].name] = i
      BY <2>6, <2>9, <2>10
    <3>3. QED
      BY <2>10, <3>1, <3>2 DEF WellFormed
  <2>12. ~HasName(RemoveFrom(l, x), x)
    BY <2>6, <2>10 DEF HasName, N
  <2>13. ASSUME NEW n \in Names \ {x}
         PROVE  Get(RemoveFrom(l, x), n) = Get(l, n)
    <3>1. n \in DOMAIN m <=> n \in DOMAIN l.map
      BY <2>6 DEF N
    <3>2. CASE n \in DOMAIN l.map
      BY <2>6, <2>7, <2>10, <3>1, <3>2 DEF Get, HasName
    <3>3. CASE n \notin DOMAIN l.map
      BY <2>10, <3>1, <3>3 DEF Get, HasName
    <3>4. QED
      BY <3>2, <3>3
  <2>14. QED
    BY <2>8, <2>11, <2>12, <2>13
<1>3. QED
  BY <1>1, <1>2

-----------------------------------------------------------------------------
(* The invariant *)

Handlers == [call : {"refresh", "write"}]
            \union [call : {"remove"}, name : Names \ {Self}]

Transactions == [open : BOOLEAN, started : BOOLEAN, cancelled : BOOLEAN,
                 synced : SUBSET Names, syncs : SUBSET [name : Names, auto : BOOLEAN],
                 finish : Seq(Handlers), inhibited : SUBSET Names, late : SUBSET Names]

Imports == [phase : {"closed", "open", "fetching"}, state : {"OK", "Aborted", "Close"},
            urls : Seq(Urls), pending : SUBSET Nat,
            queue : SUBSET [index : Nat, remote : Remote],
            failed : SUBSET Nat, done : SUBSET Nat]

Files == [slots : [1..MaxSlots -> Remote \union {NoRemote}], size : Nat,
          option : BOOLEAN]

Changed == [base : Remote, enable : SUBSET BOOLEAN, autoInstall : SUBSET Autos]

\* What the manager shows and holds.
ManagerTyped ==
  /\ rows \in SUBSET Names
  /\ DOMAIN mods \in SUBSET Names /\ mods \in [DOMAIN mods -> Changed]
  /\ IsFiniteSet(DOMAIN mods)
  /\ uninstall \in SUBSET (Names \ {Self}) /\ IsFiniteSet(uninstall)
  /\ toggled \in SUBSET BOOLEAN
  /\ changes \in Nat

\* What apply() synchronizes and visits.
SyncTyped ==
  /\ DOMAIN syncList \in SUBSET Names /\ syncList \in [DOMAIN syncList -> Remote]
  /\ todo \in SUBSET DOMAIN mods
  /\ pc # "apply" => todo = {}

TypeOK ==
  /\ pc \in {"rest", "reset", "apply", "finish", "import"}
  /\ list \in Lists
  /\ option \in BOOLEAN
  /\ ini \in Files
  /\ ManagerTyped
  /\ SyncTyped
  /\ restored \in Nat
  /\ tx \in Transactions
  /\ import \in Imports
  /\ commands \in Nat
  /\ unsaved \in BOOLEAN
  /\ drifted \in BOOLEAN

\* The list is found by name, and always holds the protected remote.
ListOK == WellFormed(list) /\ Self \in DOMAIN list.map

\* A pending change is one of the remote it is kept under, and changes something.
ModsOK == \A n \in DOMAIN mods :
  /\ mods[n].base.name = n
  /\ mods[n].enable # {} \/ mods[n].autoInstall # {}

Pending(q, call) == \E i \in DOMAIN q : q[i].call = call

\* Every removal that waits is followed by a refresh of the windows and a write.
Followed(q) ==
  \A i \in DOMAIN q : q[i].call = "remove" =>
    /\ \E j \in DOMAIN q : i < j /\ q[j].call = "refresh"
    /\ \E j \in DOMAIN q : i < j /\ q[j].call = "write"

HandlersOK ==
  /\ pc # "apply" => Followed(tx.finish)
  /\ tx.finish # <<>> \/ pc = "apply" => tx.open

RowsOK ==
  \/ rows \subseteq DOMAIN list.map
  \/ pc = "finish" /\ Pending(tx.finish, "refresh")

FileHolds ==
  /\ ini.size = Len(list.remotes)
  /\ \A k \in 1..ini.size : ini.slots[k] = list.remotes[k]
  /\ ini.option = option

FileOK ==
  /\ ini.size <= MaxSlots
  /\ \A k \in (ini.size + 1)..MaxSlots : ini.slots[k] = NoRemote
  /\ pc = "reset" => unsaved
  /\ \/ FileHolds
     \/ unsaved
     \/ Pending(tx.finish, "write")
     \/ pc = "apply"
     \/ pc = "import" /\ import.done # {}

CountOK ==
  /\ uninstall \intersect rows = {}
  /\ toggled \in {{}, {TRUE}, {FALSE}}
  /\ pc # "apply" /\ ~drifted =>
       changes = Cardinality(DOMAIN mods) + Cardinality(uninstall)
                 + Cardinality(toggled \ {option})

SyncsOK == pc = "apply" =>
  /\ \A n \in DOMAIN syncList :
       \/ Overridden(n)
       \/ /\ HasName(list, n)
          /\ Get(list, n).enabled
          /\ Get(list, n).auto = syncList[n].auto
  /\ toggled # {TRUE} => DOMAIN syncList \intersect todo = {}


-----------------------------------------------------------------------------
(* Lemmas: the list *)

\* The names of a list after one of its operations.
LEMMA NamesKept ==
  ASSUME NEW l \in Lists
  PROVE  /\ \A r \in Remote : DOMAIN AddTo(l, r).map = DOMAIN l.map \union {r.name}
         /\ \A x \in Names : DOMAIN RemoveFrom(l, x).map = DOMAIN l.map \ {x}
<1>1. \A r \in Remote : r # NoRemote
  BY RemoteListAssumption DEF Remote, Autos
<1>2. ASSUME NEW r \in Remote PROVE DOMAIN AddTo(l, r).map = DOMAIN l.map \union {r.name}
  <2>1. CASE HasName(l, r.name)
    BY <1>1, <2>1 DEF AddTo, HasName, Lists
  <2>2. CASE ~HasName(l, r.name)
    BY <1>1, <2>2 DEF AddTo
  <2> QED BY <2>1, <2>2
<1>3. ASSUME NEW x \in Names PROVE DOMAIN RemoveFrom(l, x).map = DOMAIN l.map \ {x}
  BY DEF RemoveFrom, HasName
<1> QED BY <1>2, <1>3

\* What is found under a name of the list is a remote of that name.
LEMMA FoundRemote ==
  ASSUME NEW l \in Lists, WellFormed(l), NEW n \in DOMAIN l.map
  PROVE  Get(l, n) \in Remote /\ Get(l, n).name = n
BY DEF Get, HasName, WellFormed, Lists

\* The remotes that are enabled, by name, are those found under their names.
LEMMA EnabledByName ==
  ASSUME NEW l \in Lists, WellFormed(l),
         NEW s, s = ByName(GetEnabled(l))
  PROVE  /\ DOMAIN s \subseteq DOMAIN l.map
         /\ DOMAIN s \in SUBSET Names
         /\ s \in [DOMAIN s -> Remote]
         /\ \A n \in DOMAIN s : s[n] = Get(l, n) /\ s[n].enabled
<1> DEFINE rs == GetEnabled(l)
<1>1. \A r \in rs : /\ r \in Remote /\ r.enabled
                    /\ r.name \in DOMAIN l.map /\ Get(l, r.name) = r
  <2> SUFFICES ASSUME NEW i \in DOMAIN l.remotes, l.remotes[i].enabled
               PROVE  /\ l.remotes[i] \in Remote
                      /\ l.remotes[i].name \in DOMAIN l.map
                      /\ Get(l, l.remotes[i].name) = l.remotes[i]
    BY DEF GetEnabled, ToSet
  <2> QED BY DEF Lists, WellFormed, Get, HasName
<1>2. DOMAIN s = {r.name : r \in rs}
  BY DEF ByName
<1>3. ASSUME NEW n \in DOMAIN s
      PROVE  /\ n \in DOMAIN l.map
             /\ s[n] \in Remote /\ s[n] = Get(l, n) /\ s[n].enabled
  <2>1. PICK r \in rs : r.name = n
    BY <1>2
  <2>2. s[n] = CHOOSE x \in rs : x.name = n
    BY <1>2 DEF ByName
  <2>3. s[n] \in rs /\ s[n].name = n
    BY <2>1, <2>2
  <2> QED BY <1>1, <2>3
<1>4. DOMAIN l.map \in SUBSET Names /\ s = [n \in DOMAIN s |-> s[n]]
  BY DEF Lists, ByName
<1> HIDE DEF rs
<1> QED BY <1>3, <1>4

-----------------------------------------------------------------------------
(* Lemmas: the handlers of a transaction *)

LEMMA Appended ==
  ASSUME NEW S, NEW s \in Seq(S), NEW e \in S, NEW t, t = s \o <<e>>
  PROVE  /\ t \in Seq(S) /\ Len(t) = Len(s) + 1 /\ Len(s) \in Nat
         /\ \A i \in 1..Len(s) : t[i] = s[i]
         /\ t[Len(s) + 1] = e
<1>1. t = Append(s, e)
  BY AppendIsConcat
<1> QED BY <1>1, AppendProperties, LenProperties

\* What commitConfig adds comes after all that waits.
LEMMA AddedHandlers ==
  ASSUME NEW q \in Seq(Handlers), NEW refresh \in BOOLEAN,
         NEW q2, q2 = q \o (IF refresh THEN <<[call |-> "refresh"]>> ELSE <<>>)
                        \o <<[call |-> "write"]>>
  PROVE  /\ q2 \in Seq(Handlers) /\ q2 # <<>>
         /\ Pending(q2, "write")
         /\ refresh => Pending(q2, "refresh") /\ Followed(q2)
         /\ \A c : Pending(q, c) => Pending(q2, c)
         /\ Followed(q) => Followed(q2)
<1> DEFINE w == [call |-> "write"]
           f == [call |-> "refresh"]
<1>1. w \in Handlers /\ f \in Handlers /\ w.call = "write" /\ f.call = "refresh"
  BY DEF Handlers
<1> HIDE DEF w, f
<1>2. CASE refresh
  <2>1. q2 = q \o <<f>> \o <<w>>
    BY <1>2 DEF w, f
  <2>2. /\ q2 \in Seq(Handlers) /\ Len(q2) = Len(q) + 2
        /\ \A i \in 1..Len(q) : q2[i] = q[i]
        /\ q2[Len(q) + 1] = f /\ q2[Len(q) + 2] = w
    <3>1. PICK q1 : q1 = q \o <<f>>
      OBVIOUS
    <3>2. /\ q1 \in Seq(Handlers) /\ Len(q1) = Len(q) + 1 /\ Len(q) \in Nat
          /\ \A i \in 1..Len(q) : q1[i] = q[i]
          /\ q1[Len(q) + 1] = f
      BY <1>1, <3>1, Appended
    <3>3. q2 = q1 \o <<w>>
      BY <2>1, <3>1
    <3>4. /\ q2 \in Seq(Handlers) /\ Len(q2) = Len(q1) + 1
          /\ \A i \in 1..Len(q1) : q2[i] = q1[i]
          /\ q2[Len(q1) + 1] = w
      BY ONLY <1>1, <3>2, <3>3, Appended
    <3> QED BY ONLY <3>2, <3>4
  <2>3. DOMAIN q = 1..Len(q) /\ DOMAIN q2 = 1..(Len(q) + 2) /\ Len(q) \in Nat
    BY <2>2
  <2>4. Followed(q2)
    <3>1. ASSUME NEW i \in DOMAIN q2, q2[i].call = "remove"
          PROVE  i < Len(q) + 1
      BY <1>1, <2>2, <2>3, <3>1
    <3>2. Len(q) + 1 \in DOMAIN q2 /\ Len(q) + 2 \in DOMAIN q2
      BY <2>3
    <3>3. ASSUME NEW i \in DOMAIN q2, q2[i].call = "remove"
          PROVE  /\ \E j \in DOMAIN q2 : i < j /\ q2[j].call = "refresh"
                 /\ \E j \in DOMAIN q2 : i < j /\ q2[j].call = "write"
      <4>1. i < Len(q) + 1 /\ i < Len(q) + 2
        BY <2>3, <3>1, <3>3
      <4> QED BY <1>1, <2>2, <3>2, <4>1
    <3> QED BY <3>3 DEF Followed
  <2>5. /\ Len(q) + 1 \in DOMAIN q2 /\ Len(q) + 2 \in DOMAIN q2 /\ q2 # <<>>
        /\ \A j \in DOMAIN q : j \in DOMAIN q2 /\ q2[j] = q[j]
    BY <2>2, <2>3
  <2> QED BY <1>1, <1>2, <2>2, <2>4, <2>5 DEF Pending
<1>3. CASE ~refresh
  <2>1. q2 = q \o <<w>>
    <3>1. q2 = q \o <<>> \o <<w>>
      BY <1>3 DEF w
    <3> QED BY <1>1, <3>1, ConcatEmptySeq
  <2>2. /\ q2 \in Seq(Handlers) /\ Len(q2) = Len(q) + 1
        /\ \A i \in 1..Len(q) : q2[i] = q[i]
        /\ q2[Len(q) + 1] = w
    BY ONLY q \in Seq(Handlers), <1>1, <2>1, Appended
  <2>3. DOMAIN q = 1..Len(q) /\ DOMAIN q2 = 1..(Len(q) + 1) /\ Len(q) \in Nat
    BY <2>2
  <2>4. ASSUME Followed(q) PROVE Followed(q2)
    <3> SUFFICES ASSUME NEW i \in DOMAIN q2, q2[i].call = "remove"
                 PROVE  /\ \E j \in DOMAIN q2 : i < j /\ q2[j].call = "refresh"
                        /\ \E j \in DOMAIN q2 : i < j /\ q2[j].call = "write"
      BY DEF Followed
    <3>1. i \in DOMAIN q /\ q[i].call = "remove"
      BY <1>1, <2>2, <2>3
    <3>2. \A j \in DOMAIN q : j \in DOMAIN q2 /\ q2[j] = q[j]
      BY <2>2, <2>3
    <3>3. PICK j \in DOMAIN q : i < j /\ q[j].call = "refresh"
      BY <2>4, <3>1 DEF Followed
    <3>4. PICK k \in DOMAIN q : i < k /\ q[k].call = "write"
      BY <2>4, <3>1 DEF Followed
    <3> QED BY <3>2, <3>3, <3>4
  <2>5. /\ Len(q) + 1 \in DOMAIN q2 /\ q2 # <<>>
        /\ \A j \in DOMAIN q : j \in DOMAIN q2 /\ q2[j] = q[j]
    BY <2>2, <2>3
  <2> QED BY <1>1, <1>3, <2>2, <2>4, <2>5 DEF Pending
<1> QED BY <1>2, <1>3

\* A handler that ran leaves those after it.
LEMMA RanHandler ==
  ASSUME NEW q \in Seq(Handlers), q # <<>>, NEW h, h = Head(q),
         NEW q2, q2 = Tail(q)
  PROVE  /\ h \in Handlers /\ q2 \in Seq(Handlers)
         /\ \A c : Pending(q, c) => h.call = c \/ Pending(q2, c)
         /\ Followed(q) => Followed(q2)
         /\ Followed(q) /\ h.call = "remove" =>
              Pending(q2, "refresh") /\ Pending(q2, "write")
<1>1. /\ q2 \in Seq(Handlers) /\ h \in Handlers /\ h = q[1]
      /\ Len(q2) = Len(q) - 1 /\ Len(q) \in Nat \ {0}
      /\ \A i \in 1..Len(q2) : q2[i] = q[i + 1]
  BY HeadTailProperties, EmptySeq, LenProperties
<1>2. DOMAIN q = 1..Len(q) /\ DOMAIN q2 = 1..Len(q2)
  BY <1>1
<1>3. \A i \in DOMAIN q : i = 1 \/ (i - 1 \in DOMAIN q2 /\ q2[i - 1] = q[i])
  BY <1>1, <1>2
<1>4. \A i \in DOMAIN q2 : i + 1 \in DOMAIN q /\ q2[i] = q[i + 1]
  BY <1>1, <1>2
<1>5. \A c : Pending(q, c) => h.call = c \/ Pending(q2, c)
  BY <1>1, <1>3 DEF Pending
<1>6. ASSUME Followed(q) PROVE Followed(q2)
  <2> SUFFICES ASSUME NEW i \in DOMAIN q2, q2[i].call = "remove"
               PROVE  /\ \E j \in DOMAIN q2 : i < j /\ q2[j].call = "refresh"
                      /\ \E j \in DOMAIN q2 : i < j /\ q2[j].call = "write"
    BY DEF Followed
  <2>1. \A j \in DOMAIN q : i + 1 < j => j - 1 \in DOMAIN q2 /\ i < j - 1 /\ q2[j - 1] = q[j]
    BY <1>1, <1>2, <1>3
  <2>2. i + 1 \in DOMAIN q /\ q[i + 1].call = "remove"
    BY <1>4
  <2>3. PICK j \in DOMAIN q : i + 1 < j /\ q[j].call = "refresh"
    BY <1>6, <2>2 DEF Followed
  <2>4. PICK k \in DOMAIN q : i + 1 < k /\ q[k].call = "write"
    BY <1>6, <2>2 DEF Followed
  <2> QED BY <2>1, <2>3, <2>4
<1>7. ASSUME Followed(q), h.call = "remove"
      PROVE  Pending(q2, "refresh") /\ Pending(q2, "write")
  <2>1. 1 \in DOMAIN q /\ q[1].call = "remove"
    BY <1>1, <1>2, <1>7
  <2>2. /\ \E j \in DOMAIN q : 1 < j /\ q[j].call = "refresh"
        /\ \E j \in DOMAIN q : 1 < j /\ q[j].call = "write"
    BY <1>7, <2>1 DEF Followed
  <2>3. \A j \in DOMAIN q : 1 < j => j - 1 \in DOMAIN q2 /\ q2[j - 1] = q[j]
    BY <1>3
  <2> QED BY <2>2, <2>3 DEF Pending
<1> QED BY <1>1, <1>5, <1>6, <1>7

-----------------------------------------------------------------------------
(* Lemmas: the transaction *)

LEMMA SetUpKeeps ==
  ASSUME NEW t \in Transactions
  PROVE  /\ SetUp(t) \in Transactions /\ SetUp(t).open
         /\ SetUp(t).finish = t.finish /\ SetUp(t).syncs = t.syncs
BY DEF SetUp, Transactions

LEMMA SynchronizedKeeps ==
  ASSUME NEW t \in Transactions, NEW n \in Names, NEW auto \in BOOLEAN
  PROVE  /\ Synchronized(t, n, auto) \in Transactions
         /\ Synchronized(t, n, auto).open = t.open
         /\ Synchronized(t, n, auto).finish = t.finish
         /\ Synchronized(t, n, auto).syncs \subseteq t.syncs \union {[name |-> n, auto |-> auto]}
<1>1. CASE n \in t.synced
  BY <1>1 DEF Synchronized
<1>2. CASE n \notin t.synced
  <2> DEFINE y == [name |-> n, auto |-> auto]
  <2>1. y \in [name : Names, auto : BOOLEAN]
    OBVIOUS
  <2>2. Synchronized(t, n, auto) = [t EXCEPT !.synced = @ \union {n},
                                            !.syncs = @ \union {y},
                                            !.inhibited = @ \ {n}]
    BY <1>2 DEF Synchronized
  <2> HIDE DEF y
  <2>3. /\ t.synced \union {n} \in SUBSET Names
        /\ t.syncs \union {y} \in SUBSET [name : Names, auto : BOOLEAN]
        /\ t.inhibited \ {n} \in SUBSET Names
    BY <2>1 DEF Transactions
  <2>4. PICK a, b, c : a = t.synced \union {n} /\ b = t.syncs \union {y} /\ c = t.inhibited \ {n}
    OBVIOUS
  <2>5. Synchronized(t, n, auto) = [t EXCEPT !.synced = a, !.syncs = b, !.inhibited = c]
    BY <2>2, <2>4
  <2>6. /\ Synchronized(t, n, auto) \in Transactions
        /\ Synchronized(t, n, auto).open = t.open
        /\ Synchronized(t, n, auto).finish = t.finish
        /\ Synchronized(t, n, auto).syncs = t.syncs \union {y}
    BY <2>3, <2>4, <2>5 DEF Transactions
  <2> QED BY <2>6 DEF y
<1> QED BY <1>1, <1>2

LEMMA AddSetTxKeeps ==
  ASSUME NEW t \in Transactions, NEW r \in Remote
  PROVE  /\ AddSetTx(t, r) \in Transactions
         /\ t.open => AddSetTx(t, r).open
         /\ AddSetTx(t, r).finish = t.finish
         /\ \A y \in AddSetTx(t, r).syncs \ t.syncs :
              y.name = r.name /\ y.auto = TRUE /\ r.enabled /\ AutoInstall(r.auto, option)
<1> DEFINE adds == /\ r.enabled
                   /\ AutoInstall(r.auto, option)
                   /\ \/ Get(list, r.name) = NoRemote
                      \/ ~Get(list, r.name).enabled
                      \/ Get(list, r.name).url # r.url
<1>1. CASE adds
  <2>1. AddSetTx(t, r) = Synchronized(SetUp(t), r.name, TRUE)
    BY <1>1 DEF AddSetTx
  <2>2. r.name \in Names
    BY DEF Remote
  <2>3. PICK u : u = SetUp(t)
    OBVIOUS
  <2>4. u \in Transactions /\ u.open /\ u.finish = t.finish /\ u.syncs = t.syncs
    BY <2>3, SetUpKeeps
  <2>5. /\ Synchronized(u, r.name, TRUE) \in Transactions
        /\ Synchronized(u, r.name, TRUE).open = u.open
        /\ Synchronized(u, r.name, TRUE).finish = u.finish
        /\ Synchronized(u, r.name, TRUE).syncs
             \subseteq u.syncs \union {[name |-> r.name, auto |-> TRUE]}
    BY <2>2, <2>4, SynchronizedKeeps
  <2>6. AddSetTx(t, r) = Synchronized(u, r.name, TRUE)
    BY <2>1, <2>3
  <2>7. AddSetTx(t, r).syncs \subseteq t.syncs \union {[name |-> r.name, auto |-> TRUE]}
    BY <2>4, <2>5, <2>6
  <2>8. r.enabled /\ AutoInstall(r.auto, option)
    BY <1>1
  <2> HIDE DEF adds
  <2>9. \A y \in AddSetTx(t, r).syncs \ t.syncs : y.name = r.name /\ y.auto = TRUE
    BY <2>7
  <2> QED BY <2>4, <2>5, <2>6, <2>8, <2>9
<1>2. CASE ~adds
  <2>1. AddSetTx(t, r) = t
    BY <1>2 DEF AddSetTx
  <2> QED BY <2>1
<1> QED BY <1>1, <1>2

LEMMA SyncListedKeeps ==
  ASSUME NEW t \in Transactions, NEW s, DOMAIN s \in SUBSET Names, option \in BOOLEAN
  PROVE  /\ SyncListed(t, s) \in Transactions
         /\ SyncListed(t, s).open = t.open
         /\ SyncListed(t, s).finish = t.finish
         /\ \A y \in SyncListed(t, s).syncs \ t.syncs :
              y.name \in DOMAIN s /\ y.auto = AutoInstall(s[y.name].auto, option)
<1> DEFINE new == {[name |-> n, auto |-> AutoInstall(s[n].auto, option)] :
                     n \in DOMAIN s \ t.synced}
<1>0. \A auto : AutoInstall(auto, option) \in BOOLEAN
  BY Zenon DEF AutoInstall
<1>1. new \subseteq [name : Names, auto : BOOLEAN]
  BY <1>0
<1>2. \A y \in new : y.name \in DOMAIN s /\ y.auto = AutoInstall(s[y.name].auto, option)
  OBVIOUS
<1>3. SyncListed(t, s) = [t EXCEPT !.synced = @ \union DOMAIN s,
                                   !.inhibited = @ \ DOMAIN s,
                                   !.syncs = @ \union new]
  BY DEF SyncListed
<1> HIDE DEF new
<1>4. SyncListed(t, s) \in Transactions
  BY <1>1, <1>3 DEF Transactions
<1>5. /\ SyncListed(t, s).open = t.open
      /\ SyncListed(t, s).finish = t.finish
      /\ SyncListed(t, s).syncs = t.syncs \union new
  BY <1>3 DEF Transactions
<1> QED BY <1>2, <1>4, <1>5

\* commitConfig saves now if there is no transaction, and else when it is over.
LEMMA Committed ==
  ASSUME NEW t \in Transactions, NEW l, NEW refresh \in BOOLEAN,
         CommitConfig(t, l, refresh)
  PROVE  /\ tx' \in Transactions /\ pc' \in {"rest", "finish"}
         /\ t.open =>
              /\ tx'.open
              /\ Pending(tx'.finish, "write")
              /\ refresh => Pending(tx'.finish, "refresh") /\ Followed(tx'.finish)
              /\ \A c : Pending(t.finish, c) => Pending(tx'.finish, c)
              /\ Followed(t.finish) => Followed(tx'.finish)
              /\ tx'.syncs = t.syncs
              /\ UNCHANGED <<rows, ini, unsaved>>
         /\ ~t.open =>
              /\ tx' = t /\ pc' = "rest"
              /\ rows' = IF refresh THEN Shown(l) ELSE rows
              /\ Write(l, option)
<1>1. CASE ~t.open
  BY <1>1 DEF CommitConfig
<1>2. CASE t.open
  <2>1. tx' = OnFinish(t, refresh) /\ pc' \in {"rest", "finish"} /\ UNCHANGED <<rows, ini, unsaved>>
    BY <1>2 DEF CommitConfig
  <2>2. t.finish \in Seq(Handlers)
    BY DEF Transactions
  <2>3. PICK q : q = t.finish \o (IF refresh THEN <<[call |-> "refresh"]>> ELSE <<>>)
                              \o <<[call |-> "write"]>>
    OBVIOUS
  <2>4. /\ q \in Seq(Handlers) /\ Pending(q, "write")
        /\ refresh => Pending(q, "refresh") /\ Followed(q)
        /\ \A c : Pending(t.finish, c) => Pending(q, c)
        /\ Followed(t.finish) => Followed(q)
    BY <2>2, <2>3, AddedHandlers
  <2>5. tx' = [t EXCEPT !.started = TRUE, !.finish = q]
    BY <2>1, <2>3 DEF OnFinish
  <2>6. tx'.finish = q /\ tx'.open = t.open /\ tx' \in Transactions /\ tx'.syncs = t.syncs
    BY <2>4, <2>5 DEF Transactions
  <2> QED BY <1>2, <2>1, <2>4, <2>6
<1> QED BY <1>1, <1>2

-----------------------------------------------------------------------------
(* Types *)

Consistent == TypeOK /\ ListOK /\ ModsOK /\ HandlersOK /\ RowsOK

LEMMA TypeInit == Init => TypeOK /\ ListOK
<1> SUFFICES ASSUME Init PROVE TypeOK /\ ListOK
  OBVIOUS
<1> USE SettingsAssumption
<1> DEFINE N == {r.name : r \in ToSet(FirstRemotes)}
           P(n) == CHOOSE i \in DOMAIN FirstRemotes : FirstRemotes[i].name = n
<1>1. /\ FirstRemotes \in Seq(Remote)
      /\ DOMAIN FirstRemotes = 1..Len(FirstRemotes) /\ Len(FirstRemotes) \in Nat
      /\ \A i \in DOMAIN FirstRemotes : FirstRemotes[i] \in Remote
  OBVIOUS
<1>2. N = {FirstRemotes[i].name : i \in DOMAIN FirstRemotes}
  BY DEF ToSet
<1>3. N \in SUBSET Names /\ Self \in N
  <2>1. \A i \in DOMAIN FirstRemotes : FirstRemotes[i].name \in Names
    BY <1>1 DEF Remote
  <2>2. PICK i \in DOMAIN FirstRemotes : FirstRemotes[i].name = Self
    OBVIOUS
  <2> HIDE SettingsAssumption DEF N
  <2> QED BY <1>2, <2>1, <2>2
<1>4. ASSUME NEW n \in N
      PROVE  P(n) \in DOMAIN FirstRemotes /\ FirstRemotes[P(n)].name = n
  BY <1>2
<1>5. /\ list.remotes = FirstRemotes /\ list.map = [n \in N |-> P(n)]
      /\ list = [remotes |-> FirstRemotes, map |-> list.map]
  BY DEF Init
<1>6. DOMAIN list.map = N /\ \A n \in N : list.map[n] = P(n)
  BY <1>5
<1> HIDE DEF N, P
<1>7. list.map \in [N -> Nat]
  BY <1>1, <1>4, <1>5
<1>8. list \in Lists
  <2>1. list.map \in UNION {[M -> Nat] : M \in SUBSET Names}
    BY <1>3, <1>7
  <2> QED BY <1>1, <1>5, <2>1 DEF Lists
<1>9. ListOK
  <2>1. \A n \in N : list.map[n] \in DOMAIN FirstRemotes /\ FirstRemotes[list.map[n]].name = n
    BY <1>4, <1>6
  <2>2. ASSUME NEW i \in DOMAIN FirstRemotes
        PROVE  FirstRemotes[i].name \in N /\ list.map[FirstRemotes[i].name] = i
    <3>1. FirstRemotes[i].name \in N
      BY <1>2
    <3>2. /\ list.map[FirstRemotes[i].name] \in DOMAIN FirstRemotes
          /\ FirstRemotes[list.map[FirstRemotes[i].name]].name = FirstRemotes[i].name
      BY <2>1, <3>1
    <3> QED BY <3>1, <3>2
  <2> QED BY <1>3, <1>5, <1>6, <2>1, <2>2 DEF ListOK, WellFormed
<1>10. ini \in Files
  BY <1>1 DEF Init, Files
<1>11. tx \in Transactions /\ import \in Imports
  BY DEF Init, NoTx, NoImport, Transactions, Imports
<1>12. rows \in SUBSET Names
  BY <1>3 DEF Init, N
<1>13. mods = [n \in {} |-> {}] /\ syncList = [n \in {} |-> {}] /\ IsFiniteSet({})
  BY FS_EmptySet DEF Init, NoMods
<1>14. ManagerTyped
  BY <1>12, <1>13 DEF ManagerTyped, Init
<1>15. SyncTyped
  BY <1>13 DEF SyncTyped, Init
<1> QED BY <1>8, <1>9, <1>10, <1>11, <1>14, <1>15 DEF TypeOK, Init

\* What the operations on the list that the handlers and commands use keep.
LEMMA ListOperations ==
  ASSUME TypeOK, ListOK
  PROVE  /\ \A r \in Remote :
              /\ AddTo(list, r) \in Lists /\ WellFormed(AddTo(list, r))
              /\ Self \in DOMAIN AddTo(list, r).map
              /\ DOMAIN list.map \subseteq DOMAIN AddTo(list, r).map
         /\ \A n \in Names \ {Self} :
              /\ RemoveFrom(list, n) \in Lists /\ WellFormed(RemoveFrom(list, n))
              /\ Self \in DOMAIN RemoveFrom(list, n).map
         /\ \A n \in DOMAIN list.map : Get(list, n) \in Remote /\ Get(list, n).name = n
         /\ DOMAIN list.map \in SUBSET Names
<1>1. list \in Lists /\ WellFormed(list) /\ Self \in DOMAIN list.map
  BY DEF TypeOK, ListOK
<1>2. DOMAIN list.map \in SUBSET Names
  BY <1>1 DEF Lists
<1> QED BY <1>1, <1>2, AddLooksUp, RemoveLooksUp, NamesKept, FoundRemote

\* The steps that change the list add a remote to it or remove one.
LEMMA ListSteps ==
  Consistent /\ Next =>
    \/ list' = list
    \/ \E r \in Remote : list' = AddTo(list, r)
    \/ RemoveRemote /\ \E n \in Names \ {Self} : list' = RemoveFrom(list, n)
<1> SUFFICES ASSUME Consistent, Next
             PROVE  \/ list' = list
                    \/ \E r \in Remote : list' = AddTo(list, r)
                    \/ RemoveRemote /\ \E n \in Names \ {Self} : list' = RemoveFrom(list, n)
  OBVIOUS
<1>0. /\ TypeOK /\ ListOK
      /\ \A n \in DOMAIN list.map : Get(list, n) \in Remote
      /\ Self \in DOMAIN list.map
  <2>1. TypeOK /\ ListOK
    BY DEF Consistent
  <2> QED BY <2>1, ListOperations DEF ListOK
<1>1. ASSUME ResetConfig PROVE \E r \in Remote : list' = AddTo(list, r)
  <2>1. [Get(list, Self) EXCEPT !.enabled = TRUE] \in Remote
    BY <1>0 DEF Remote
  <2> QED BY <1>1, <2>1 DEF ResetConfig
<1>2. ASSUME RestoreDefault PROVE \E r \in Remote : list' = AddTo(list, r)
  <2>1. restored + 1 \in 1..Len(Defaults)
    BY <1>0, <1>2, SettingsAssumption DEF RestoreDefault, TypeOK
  <2>2. Defaults[restored + 1] \in Remote
    BY <2>1, SettingsAssumption, ElementOfSeq
  <2> QED BY <1>2, <2>2 DEF RestoreDefault
<1>3. ASSUME NEW n \in Names, ApplyMods(n)
      PROVE  list' = list \/ \E r \in Remote : list' = AddTo(list, r)
  <2>1. CASE n \in uninstall
    BY <1>3, <2>1 DEF ApplyMods
  <2>2. CASE n \notin uninstall
    <3> DEFINE m == mods[n]
               r == [m.base EXCEPT !.enabled = ValueOr(m.enable, @),
                                   !.auto = ValueOr(m.autoInstall, @)]
    <3>1. m \in Changed
      BY <1>0, <1>3 DEF TypeOK, ManagerTyped, SyncTyped, ApplyMods
    <3>2. /\ ValueOr(m.enable, m.base.enabled) \in BOOLEAN
          /\ ValueOr(m.autoInstall, m.base.auto) \in Autos
      BY <3>1 DEF ValueOr, Changed, Remote
    <3>3. r \in Remote
      BY <3>1, <3>2 DEF Changed, Remote
    <3>4. list' = AddTo(list, r)
      BY <1>3, <2>2 DEF ApplyMods
    <3> QED BY <3>3, <3>4
  <2> QED BY <2>1, <2>2
<1>4. ASSUME RemoveRemote
      PROVE  \/ list' = list
             \/ RemoveRemote /\ \E n \in Names \ {Self} : list' = RemoveFrom(list, n)
  <2>1. Head(tx.finish) \in Handlers
    BY <1>0, <1>4, RanHandler DEF TypeOK, Transactions, RemoveRemote, Handler
  <2>2. Head(tx.finish).name \in Names \ {Self}
    BY <1>4, <2>1 DEF Handlers, RemoveRemote
  <2> QED BY <1>4, <2>2 DEF RemoveRemote
<1>5. ASSUME ImportNext PROVE \E r \in Remote : list' = AddTo(list, r)
  <2>1. PICK d \in import.queue : list' = AddTo(list, d.remote)
    BY <1>5 DEF ImportNext
  <2>2. d.remote \in Remote
    BY <1>0 DEF TypeOK, Imports
  <2> QED BY <2>1, <2>2
<1>6. ASSUME NEW r \in ScriptInputs, AddSet(r)
      PROVE  \E x \in Remote : list' = AddTo(list, x)
  BY <1>6, SettingsAssumption DEF AddSet
<1>7. ASSUME NEW n \in Names, NEW all \in BOOLEAN, NEW remember \in BOOLEAN,
             AboutInstall(n, all, remember)
      PROVE  \E r \in Remote : list' = AddTo(list, r)
  <2>1. Get(list, n) \in Remote
    BY <1>0, <1>7 DEF AboutInstall, Get, HasName
  <2> DEFINE r == [Get(list, n) EXCEPT !.auto = IF remember THEN "on" ELSE @]
  <2>2. [r EXCEPT !.enabled = TRUE] \in Remote
    BY <2>1 DEF Remote, Autos
  <2> QED BY <1>7, <2>2 DEF AboutInstall
<1>8. ASSUME NEW n \in Names, ToggleEnabled(n) PROVE list' = list
  BY <1>8 DEF ToggleEnabled
<1>9. ASSUME NEW n \in Names, NEW auto \in Autos, SetRemoteAutoInstall(n, auto) PROVE list' = list
  BY <1>9 DEF SetRemoteAutoInstall
<1>10. ASSUME NEW n \in Names, Uninstall(n) \/ ApplyUninstall(n) PROVE list' = list
  BY <1>10 DEF Uninstall, ApplyUninstall
<1>11. ASSUME ToggleOption \/ Refuse \/ EndReset \/ Reopen \/ Apply \/ EndApply PROVE list' = list
  BY <1>11 DEF ToggleOption, Refuse, EndReset, Reopen, Apply, EndApply
<1>12. ASSUME \/ EndSyncs \/ Cancel \/ Finish \/ Teardown \/ SynchronizeAll \/ RefreshIndex
              \/ RefreshManager \/ WriteConfig
       PROVE  list' = list
  BY <1>12 DEF EndSyncs, Cancel, Finish, Teardown, SynchronizeAll, RefreshIndex,
               RefreshManager, WriteConfig
<1>13. ASSUME NEW i \in DOMAIN import.urls,
              DownloadAborted(i) \/ DownloadFailed(i) \/ DownloadRead(i)
       PROVE  list' = list
  BY <1>13 DEF DownloadAborted, DownloadFailed, DownloadRead, Ended
<1>14. ASSUME NEW urls \in Inputs, Fetch(urls) PROVE list' = list
  BY <1>14 DEF Fetch
<1>15. ASSUME CloseImport \/ CancelImport \/ EndImport PROVE list' = list
  BY <1>15 DEF CloseImport, CancelImport, EndImport
<1>16. ASSUME NEW refresh \in BOOLEAN, ProcessQueue(refresh) PROVE list' = list
  BY <1>16 DEF ProcessQueue
<1> QED BY <1>1, <1>2, <1>3, <1>4, <1>5, <1>6, <1>7, <1>8, <1>9, <1>10, <1>11, <1>12,
           <1>13, <1>14, <1>15, <1>16 DEF Next

LEMMA ListKept ==
  Consistent /\ Next =>
    /\ list' \in Lists /\ ListOK'
    /\ RemoveRemote \/ DOMAIN list.map \subseteq DOMAIN list'.map
<1> SUFFICES ASSUME Consistent, Next
             PROVE  /\ list' \in Lists /\ ListOK'
                    /\ RemoveRemote \/ DOMAIN list.map \subseteq DOMAIN list'.map
  OBVIOUS
<1>1. TypeOK /\ ListOK /\ list \in Lists
  BY DEF Consistent, TypeOK
<1>2. /\ \A r \in Remote : /\ AddTo(list, r) \in Lists /\ WellFormed(AddTo(list, r))
                           /\ Self \in DOMAIN AddTo(list, r).map
                           /\ DOMAIN list.map \subseteq DOMAIN AddTo(list, r).map
      /\ \A n \in Names \ {Self} :
              /\ RemoveFrom(list, n) \in Lists /\ WellFormed(RemoveFrom(list, n))
              /\ Self \in DOMAIN RemoveFrom(list, n).map
  BY <1>1, ListOperations
<1> QED BY <1>1, <1>2, ListSteps DEF ListOK

LEMMA TxKept == Consistent /\ Next => tx' \in Transactions
<1> SUFFICES ASSUME Consistent, Next PROVE tx' \in Transactions
  OBVIOUS
<1>0. TypeOK /\ ListOK /\ tx \in Transactions /\ option \in BOOLEAN
  BY DEF Consistent, TypeOK
<1>1. /\ \A n \in DOMAIN list.map : Get(list, n) \in Remote /\ Get(list, n).name = n
      /\ DOMAIN list.map \in SUBSET Names /\ Self \in DOMAIN list.map
  BY <1>0, ListOperations DEF ListOK
<1>2. SetUp(tx) \in Transactions
  BY <1>0, SetUpKeeps
<1>3. ASSUME NEW n \in Names, ApplyMods(n) PROVE tx' \in Transactions
  <2>1. CASE n \in uninstall
    BY <1>0, <1>3, <2>1 DEF ApplyMods
  <2>2. CASE n \notin uninstall
    <3>1. PICK r \in Remote : tx' = AddSetTx(tx, r)
      <4> DEFINE m == mods[n]
                 r == [m.base EXCEPT !.enabled = ValueOr(m.enable, @),
                                     !.auto = ValueOr(m.autoInstall, @)]
      <4>1. m \in Changed
        BY <1>0, <1>3 DEF TypeOK, ManagerTyped, SyncTyped, ApplyMods
      <4>2. /\ ValueOr(m.enable, m.base.enabled) \in BOOLEAN
            /\ ValueOr(m.autoInstall, m.base.auto) \in Autos
        BY <4>1 DEF ValueOr, Changed, Remote
      <4>3. r \in Remote
        BY <4>1, <4>2 DEF Changed, Remote
      <4>4. tx' = AddSetTx(tx, r)
        BY <1>3, <2>2 DEF ApplyMods
      <4> QED BY <4>3, <4>4
    <3> QED BY <1>0, <3>1, AddSetTxKeeps
  <2> QED BY <2>1, <2>2
<1>4. ASSUME NEW n \in Names, ApplyUninstall(n) PROVE tx' \in Transactions
  <2>1. PICK fetched \in BOOLEAN :
          tx' = [Inhibited(tx, n, fetched) EXCEPT
                   !.finish = Append(@, [call |-> "remove", name |-> n])]
    BY <1>4 DEF ApplyUninstall
  <2> DEFINE h == [call |-> "remove", name |-> n]
  <2>2. n # Self /\ h \in Handlers
    BY <1>0, <1>4 DEF TypeOK, ManagerTyped, ApplyUninstall, Handlers
  <2>3. PICK u : u = Inhibited(tx, n, fetched)
    OBVIOUS
  <2>4. u \in Transactions
    BY <1>0, <2>3 DEF Inhibited, Transactions
  <2>5. PICK q : q = Append(u.finish, h)
    OBVIOUS
  <2>6. tx' = [u EXCEPT !.finish = q]
    BY <2>1, <2>3, <2>5
  <2>7. q \in Seq(Handlers)
    <3>1. u.finish \in Seq(Handlers)
      BY <2>4 DEF Transactions
    <3> QED BY ONLY <3>1, <2>2, <2>5, AppendProperties
  <2> QED BY <2>4, <2>6, <2>7 DEF Transactions
<1>5. ASSUME EndApply PROVE tx' \in Transactions
  <2>1. SyncListed(tx, syncList) \in Transactions
    BY <1>0, SyncListedKeeps DEF TypeOK, SyncTyped
  <2>2. CommitConfig(SyncListed(tx, syncList), list, TRUE)
    BY <1>5 DEF EndApply
  <2> QED BY <2>1, <2>2, Committed
<1>6. ASSUME NEW n \in Names, NEW all \in BOOLEAN, NEW remember \in BOOLEAN,
             AboutInstall(n, all, remember)
      PROVE  tx' \in Transactions
  <2>1. PICK auto : /\ auto = AutoInstall([Get(list, n) EXCEPT
                                !.auto = IF remember THEN "on" ELSE @].auto, all)
    OBVIOUS
  <2>2. auto \in BOOLEAN
    BY <2>1, Zenon DEF AutoInstall
  <2>3. PICK t : t = Synchronized(SetUp(tx), n, auto)
    OBVIOUS
  <2>4. t \in Transactions
    BY <1>2, <2>2, <2>3, SynchronizedKeeps
  <2>5. CommitConfig(t, list', TRUE)
    BY <1>6, <2>1, <2>3 DEF AboutInstall
  <2> QED BY <2>4, <2>5, Committed
<1>7. ASSUME EndSyncs PROVE tx' \in Transactions
  <2>1. PICK done \in SUBSET tx.syncs :
          \E fetched \in SUBSET ({t.name : t \in done} \intersect tx.inhibited) :
            tx' = [tx EXCEPT !.syncs = @ \ done, !.late = @ \union fetched]
    BY <1>7 DEF EndSyncs
  <2>2. PICK fetched \in SUBSET tx.inhibited :
          tx' = [tx EXCEPT !.syncs = @ \ done, !.late = @ \union fetched]
    BY <2>1
  <2> QED BY <1>0, <2>2 DEF Transactions
<1>8. ASSUME Cancel \/ RefreshIndex \/ Teardown PROVE tx' \in Transactions
  <2>1. CASE Cancel
    BY <1>0, <2>1 DEF Cancel, Transactions
  <2>2. CASE RefreshIndex
    <3>1. PICK t : t = SetUp(tx)
      OBVIOUS
    <3>2. t \in Transactions /\ tx' = [t EXCEPT !.started = TRUE]
      BY <1>2, <2>2, <3>1 DEF RefreshIndex
    <3> QED BY <3>2 DEF Transactions
  <2>3. CASE Teardown
    BY <2>3 DEF Teardown, NoTx, Transactions
  <2> QED BY <1>8, <2>1, <2>2, <2>3
<1>9. ASSUME Handler PROVE tx' \in Transactions
  <2>1. tx.finish \in Seq(Handlers) /\ tx.finish # <<>>
    BY <1>0, <1>9 DEF Handler, Transactions
  <2>2. PICK q : q = Tail(tx.finish)
    OBVIOUS
  <2>3. q \in Seq(Handlers)
    BY <2>1, <2>2, RanHandler
  <2>4. tx' = [tx EXCEPT !.finish = q]
    BY <1>9, <2>2 DEF Handler
  <2> QED BY <1>0, <2>3, <2>4 DEF Transactions
<1>10. ASSUME SynchronizeAll PROVE tx' \in Transactions
  <2>1. PICK s : s = ByName(GetEnabled(list))
    OBVIOUS
  <2>2. DOMAIN s \in SUBSET Names
    BY <1>0, <2>1, EnabledByName DEF TypeOK, ListOK
  <2>3. PICK t : t = SyncListed(SetUp(tx), s)
    OBVIOUS
  <2>4. t \in Transactions
    BY <1>0, <1>2, <2>2, <2>3, SyncListedKeeps
  <2>5. tx' = [t EXCEPT !.started = TRUE]
    BY <1>10, <2>1, <2>3 DEF SynchronizeAll
  <2> QED BY <2>4, <2>5 DEF Transactions
<1>11. ASSUME ImportNext PROVE tx' \in Transactions
  <2>1. PICK d \in import.queue : tx' = AddSetTx(tx, d.remote)
    BY <1>11 DEF ImportNext
  <2>2. d.remote \in Remote
    BY <1>0 DEF TypeOK, Imports
  <2> QED BY <1>0, <2>1, <2>2, AddSetTxKeeps
<1>12. ASSUME EndImport PROVE tx' \in Transactions
  BY <1>0, <1>12, Committed DEF EndImport
<1>13. ASSUME NEW r \in ScriptInputs, AddSet(r) PROVE tx' \in Transactions
  BY <1>0, <1>13, AddSetTxKeeps, SettingsAssumption DEF AddSet
<1>14. ASSUME NEW refresh \in BOOLEAN, ProcessQueue(refresh) PROVE tx' \in Transactions
  BY <1>0, <1>14, Committed DEF ProcessQueue
<1>15. ASSUME Apply PROVE tx' \in Transactions
  BY <1>2, <1>15 DEF Apply
<1>16. ASSUME tx' = tx PROVE tx' \in Transactions
  BY <1>0, <1>16
<1>17. ASSUME NEW n \in Names, ToggleEnabled(n) \/ Uninstall(n) PROVE tx' = tx
  BY <1>17 DEF ToggleEnabled, Uninstall
<1>18. ASSUME NEW n \in Names, NEW auto \in Autos, SetRemoteAutoInstall(n, auto) PROVE tx' = tx
  BY <1>18 DEF SetRemoteAutoInstall
<1>19. ASSUME ToggleOption \/ Refuse \/ ResetConfig \/ RestoreDefault \/ EndReset \/ Reopen \/ Finish
       PROVE  tx' = tx
  BY <1>19 DEF ToggleOption, Refuse, ResetConfig, RestoreDefault, EndReset, Reopen, Finish
<1>20. ASSUME NEW urls \in Inputs, Fetch(urls) PROVE tx' = tx
  BY <1>20 DEF Fetch
<1>21. ASSUME CloseImport \/ CancelImport PROVE tx' = tx
  BY <1>21 DEF CloseImport, CancelImport
<1>22. ASSUME NEW i \in DOMAIN import.urls,
              DownloadAborted(i) \/ DownloadFailed(i) \/ DownloadRead(i)
       PROVE  tx' = tx
  BY <1>22 DEF DownloadAborted, DownloadFailed, DownloadRead, Ended
<1>23. ASSUME RemoveRemote \/ RefreshManager \/ WriteConfig PROVE Handler
  BY <1>23 DEF RemoveRemote, RefreshManager, WriteConfig
<1> QED BY <1>3, <1>4, <1>5, <1>6, <1>7, <1>8, <1>9, <1>10, <1>11, <1>12, <1>13, <1>14, <1>15,
           <1>16, <1>17, <1>18, <1>19, <1>20, <1>21, <1>22, <1>23 DEF Next

LEMMA ImportKept == Consistent /\ Next => import' \in Imports
<1> SUFFICES ASSUME Consistent, Next PROVE import' \in Imports
  OBVIOUS
<1>0. TypeOK /\ ListOK /\ import \in Imports
  BY DEF Consistent, TypeOK
<1>1. ASSUME NEW urls \in Inputs, Fetch(urls) PROVE import' \in Imports
  <2>1. urls \in Seq(Urls)
    BY SettingsAssumption
  <2>2. PICK p : p = DOMAIN urls
    OBVIOUS
  <2>3. p \in SUBSET Nat
    BY <2>1, <2>2
  <2>4. import' = [NoImport EXCEPT !.phase = "fetching", !.urls = urls, !.pending = p]
    BY <1>1, <2>2 DEF Fetch
  <2> QED BY <2>1, <2>3, <2>4 DEF NoImport, Imports
<1>2. ASSUME CloseImport \/ CancelImport \/ EndImport PROVE import' \in Imports
  <2>1. CASE CloseImport \/ EndImport
    <3>1. import' = NoImport
      BY <2>1 DEF CloseImport, EndImport
    <3> QED BY <3>1 DEF NoImport, Imports
  <2>2. CASE CancelImport
    BY <1>0, <2>2 DEF CancelImport, Imports
  <2> QED BY <1>2, <2>1, <2>2
<1>3. ASSUME NEW i \in DOMAIN import.urls, NEW state \in {"OK", "Aborted", "Close"},
             NEW queue \in SUBSET [index : Nat, remote : Remote],
             NEW failed \in SUBSET Nat, Ended(i, state, queue, failed)
      PROVE  import' \in Imports
  <2>1. PICK p, q, f :
          /\ p = import.pending \ {i}
          /\ q = IF p = {} /\ state # "OK" THEN {} ELSE queue
          /\ f = CASE p # {} \/ state = "OK" -> "fetching"
                   [] p = {} /\ state = "Aborted" -> "open"
                   [] p = {} /\ state = "Close" -> "closed"
    OBVIOUS
  <2>2. p \in SUBSET Nat
    BY <1>0, <2>1 DEF Imports
  <2>3. f \in {"closed", "open", "fetching"}
    BY <2>1
  <2>4. q \in SUBSET [index : Nat, remote : Remote]
    BY <2>1
  <2>5. import' = [import EXCEPT !.pending = p, !.state = state, !.failed = failed,
                                 !.queue = q, !.phase = f]
    BY <1>3, <2>1 DEF Ended
  <2> QED BY <1>0, <2>2, <2>3, <2>4, <2>5 DEF Imports
<1>4. ASSUME NEW i \in DOMAIN import.urls, DownloadAborted(i) PROVE import' \in Imports
  BY <1>0, <1>3, <1>4 DEF DownloadAborted, Imports

<1>5. import.urls \in Seq(Urls) /\ DOMAIN import.urls \in SUBSET Nat
  BY <1>0 DEF Imports
<1>6. ASSUME NEW i \in DOMAIN import.urls, DownloadFailed(i) PROVE import' \in Imports
  <2>1. PICK f, state : f = import.failed \union {i} /\ state = Aborted(import.state)
    OBVIOUS
  <2>2. f \in SUBSET Nat /\ state \in {"OK", "Aborted", "Close"}
    BY <1>0, <1>5, <2>1 DEF Imports, Aborted
  <2>3. Ended(i, state, import.queue, f)
    BY <1>6, <2>1 DEF DownloadFailed
  <2> QED BY <1>0, <1>3, <2>2, <2>3 DEF Imports
<1>7. ASSUME NEW i \in DOMAIN import.urls, DownloadRead(i) PROVE import' \in Imports
  <2>1. import.urls[i] \in Urls
    BY <1>5, ElementOfSeq
  <2>2. NameOf[import.urls[i]] \in Names
    BY <2>1, SettingsAssumption
  <2>3. Imported(i) \in Remote
    <3>1. CASE HasName(list, NameOf[import.urls[i]])
      <4>1. Get(list, NameOf[import.urls[i]]) \in Remote
        BY <1>0, <3>1, ListOperations DEF HasName
      <4>2. Get(list, NameOf[import.urls[i]]) # NoRemote
        BY <4>1, RemoteListAssumption DEF Remote, Autos
      <4> QED BY <2>1, <4>1, <4>2 DEF Imported, Remote
    <3>2. CASE ~HasName(list, NameOf[import.urls[i]])
      <4>1. Get(list, NameOf[import.urls[i]]) = NoRemote
        BY <3>2 DEF Get
      <4> QED BY <2>1, <2>2, <4>1 DEF Imported, Remote, Autos
    <3> QED BY <3>1, <3>2
  <2>4. PICK queue : /\ queue = import.queue \union {[index |-> i, remote |-> Imported(i)]}
                                  \/ queue = import.queue
                     /\ Ended(i, import.state, queue, import.failed)
    BY <1>7 DEF DownloadRead
  <2>5. [index |-> i, remote |-> Imported(i)] \in [index : Nat, remote : Remote]
    BY <1>5, <2>3
  <2>6. import.queue \in SUBSET [index : Nat, remote : Remote]
    BY <1>0 DEF Imports
  <2>7. queue \in SUBSET [index : Nat, remote : Remote]
    BY <2>4, <2>5, <2>6
  <2> QED BY <1>0, <1>3, <2>4, <2>7 DEF Imports
<1>8. ASSUME ImportNext PROVE import' \in Imports
  <2>1. PICK d \in import.queue :
          import' = [import EXCEPT !.queue = @ \ {d}, !.done = @ \union {d.index}]
    BY <1>8 DEF ImportNext
  <2>2. PICK q, e : q = import.queue \ {d} /\ e = import.done \union {d.index}
    OBVIOUS
  <2>3. q \in SUBSET [index : Nat, remote : Remote] /\ e \in SUBSET Nat
    BY <1>0, <2>2 DEF Imports
  <2>4. import' = [import EXCEPT !.queue = q, !.done = e]
    BY <2>1, <2>2
  <2> QED BY <1>0, <2>3, <2>4 DEF Imports
<1>9. ASSUME NEW n \in Names,
             \/ ToggleEnabled(n) \/ Uninstall(n) \/ ApplyMods(n) \/ ApplyUninstall(n)
             \/ \E auto \in Autos : SetRemoteAutoInstall(n, auto)
             \/ \E all, remember \in BOOLEAN : AboutInstall(n, all, remember)
      PROVE  import' = import
  BY <1>9 DEF ToggleEnabled, Uninstall, ApplyMods, ApplyUninstall, SetRemoteAutoInstall, AboutInstall
<1>10. ASSUME ToggleOption \/ Refuse \/ ResetConfig \/ RestoreDefault \/ EndReset \/ Reopen
       PROVE  import' = import
  BY <1>10 DEF ToggleOption, Refuse, ResetConfig, RestoreDefault, EndReset, Reopen
<1>11. ASSUME Apply \/ EndApply \/ EndSyncs \/ Cancel \/ Finish \/ Teardown PROVE import' = import
  BY <1>11 DEF Apply, EndApply, EndSyncs, Cancel, Finish, Teardown
<1>12. ASSUME SynchronizeAll \/ RefreshIndex \/ RemoveRemote \/ RefreshManager \/ WriteConfig
       PROVE  import' = import
  BY <1>12 DEF SynchronizeAll, RefreshIndex, RemoveRemote, RefreshManager, WriteConfig, Handler
<1>13. ASSUME \/ \E r \in ScriptInputs : AddSet(r)
              \/ \E refresh \in BOOLEAN : ProcessQueue(refresh)
       PROVE  import' = import
  BY <1>13 DEF AddSet, ProcessQueue
<1> QED BY <1>0, <1>1, <1>2, <1>4, <1>6, <1>7, <1>8, <1>9, <1>10, <1>11, <1>12, <1>13 DEF Next

LEMMA SetModsKeeps ==
  ASSUME TypeOK, ListOK, ModsOK, NEW n \in DOMAIN list.map, NEW m,
         NEW e \in SUBSET BOOLEAN, NEW a \in SUBSET Autos,
         m = [ModsOf(n) EXCEPT !.enable = e] \/ m = [ModsOf(n) EXCEPT !.autoInstall = a],
         SetMods(n, m)
  PROVE  /\ DOMAIN mods' \in SUBSET Names /\ mods' \in [DOMAIN mods' -> Changed]
         /\ ModsOK' /\ IsFiniteSet(DOMAIN mods')
         /\ DOMAIN mods' = IF m.enable = {} /\ m.autoInstall = {}
                           THEN DOMAIN mods \ {n} ELSE DOMAIN mods \union {n}
<1>1. /\ DOMAIN list.map \in SUBSET Names
      /\ Get(list, n) \in Remote /\ Get(list, n).name = n
  BY ListOperations
<1>2. ModsOf(n) \in Changed /\ ModsOf(n).base.name = n
  <2>1. CASE n \in DOMAIN mods
    BY <2>1 DEF TypeOK, ManagerTyped, ModsOK, ModsOf
  <2>2. CASE n \notin DOMAIN mods
    BY <1>1, <2>2 DEF ModsOf, Changed
  <2> QED BY <2>1, <2>2
<1>3. m \in Changed /\ m.base.name = n
  BY <1>2 DEF Changed
<1>4. CASE m.enable = {} /\ m.autoInstall = {}
  <2>1. mods' = [k \in DOMAIN mods \ {n} |-> mods[k]]
    BY <1>4 DEF SetMods
  <2>2. IsFiniteSet(DOMAIN mods \ {n})
    BY FS_RemoveElement DEF TypeOK, ManagerTyped
  <2> QED BY <1>4, <2>1, <2>2 DEF TypeOK, ManagerTyped, ModsOK
<1>5. CASE ~(m.enable = {} /\ m.autoInstall = {})
  <2>1. mods' = [k \in DOMAIN mods \union {n} |-> IF k = n THEN m ELSE mods[k]]
    BY <1>5 DEF SetMods
  <2>2. IsFiniteSet(DOMAIN mods \union {n})
    BY FS_AddElement DEF TypeOK, ManagerTyped
  <2> QED BY <1>1, <1>3, <1>5, <2>1, <2>2 DEF TypeOK, ManagerTyped, ModsOK
<1> QED BY <1>4, <1>5

LEMMA ChangeIsNat == TypeOK => \A i \in Int : Change(i) \in Nat
<1> SUFFICES ASSUME TypeOK, NEW i \in Int PROVE Change(i) \in Nat
  OBVIOUS
<1>1. changes \in Nat /\ SizeMax \in Nat \ {0}
  BY SettingsAssumption DEF TypeOK, ManagerTyped
<1>2. (changes + i) % SizeMax \in Nat
  BY <1>1
<1> QED BY <1>2 DEF Change

\* The rows a command is given on are found in the list.
LEMMA RowsAtRest == Consistent /\ pc = "rest" => rows \subseteq DOMAIN list.map
BY DEF Consistent, RowsOK

LEMMA ManagerKept == Consistent /\ Next => ManagerTyped' /\ ModsOK'
<1> SUFFICES ASSUME Consistent, Next PROVE ManagerTyped' /\ ModsOK'
  OBVIOUS
<1>0. TypeOK /\ ListOK /\ ModsOK /\ ManagerTyped
  BY DEF Consistent, TypeOK, ManagerTyped
<1>1. DOMAIN list.map \in SUBSET Names /\ DOMAIN list'.map \in SUBSET Names
  BY ListKept, <1>0 DEF Lists, TypeOK
<1>2. \A i \in Int : Change(i) \in Nat
  BY <1>0, ChangeIsNat
<1>3. \A l : Shown(l) \subseteq DOMAIN l.map
  BY DEF Shown
<1>4. ASSUME NEW n \in Names, ToggleEnabled(n) PROVE ManagerTyped' /\ ModsOK'
  <2>1. n \in DOMAIN list.map
    BY <1>4, RowsAtRest DEF ToggleEnabled, ManagerCommand, Command
  <2>2. Get(list, n).enabled \in BOOLEAN
    BY <1>0, <2>1, ListOperations DEF Remote
  <2>3. PICK e : e = {~isRemoteEnabled(n)} \ {Get(list, n).enabled}
    OBVIOUS
  <2>4. isRemoteEnabled(n) \in BOOLEAN
    <3>1. ModsOf(n).enable \in SUBSET BOOLEAN
      BY <1>0 DEF ManagerTyped, ModsOf, Changed
    <3> QED BY <2>2, <3>1 DEF isRemoteEnabled, ValueOr
  <2>5. e \in SUBSET BOOLEAN
    BY <2>3, <2>4
  <2>6. PICK m : m = [ModsOf(n) EXCEPT !.enable = e]
    OBVIOUS
  <2>7. SetMods(n, m)
    BY <1>4, <2>3, <2>6 DEF ToggleEnabled
  <2>8. DOMAIN mods' \in SUBSET Names /\ mods' \in [DOMAIN mods' -> Changed] /\ ModsOK'
        /\ IsFiniteSet(DOMAIN mods')
    BY <1>0, <2>1, <2>5, <2>6, <2>7, SetModsKeeps
  <2>9. changes' \in Nat
    BY <1>0, <1>2, <2>7 DEF SetMods, ManagerTyped
  <2> QED BY <1>0, <1>4, <2>8, <2>9 DEF ToggleEnabled, ManagerTyped
<1>5. ASSUME NEW n \in Names, NEW auto \in Autos, SetRemoteAutoInstall(n, auto)
      PROVE  ManagerTyped' /\ ModsOK'
  <2>1. n \in DOMAIN list.map
    BY <1>5, RowsAtRest DEF SetRemoteAutoInstall, ManagerCommand, Command
  <2>2. PICK a \in SUBSET Autos : a = {auto} \ {Get(list, n).auto}
    OBVIOUS
  <2>3. PICK m : m = [ModsOf(n) EXCEPT !.autoInstall = a]
    OBVIOUS
  <2>4. SetMods(n, m)
    BY <1>5, <2>2, <2>3 DEF SetRemoteAutoInstall
  <2>5. DOMAIN mods' \in SUBSET Names /\ mods' \in [DOMAIN mods' -> Changed] /\ ModsOK'
        /\ IsFiniteSet(DOMAIN mods')
    BY <1>0, <2>1, <2>3, <2>4, SetModsKeeps
  <2>6. changes' \in Nat
    BY <1>0, <1>2, <2>4 DEF SetMods, ManagerTyped
  <2> QED BY <1>0, <1>5, <2>5, <2>6 DEF SetRemoteAutoInstall, ManagerTyped
<1>6. ASSUME NEW n \in Names, Uninstall(n) PROVE ManagerTyped' /\ ModsOK'
  <2>1. /\ uninstall' = uninstall \union {n} /\ n # Self /\ rows' = rows \ {n}
        /\ UNCHANGED <<mods, toggled>>
    BY <1>6 DEF Uninstall
  <2>2. changes' \in Nat
    BY <1>2, <1>6 DEF Uninstall
  <2>3. IsFiniteSet(uninstall')
    BY <1>0, <2>1, FS_AddElement DEF ManagerTyped
  <2> QED BY <1>0, <2>1, <2>2, <2>3 DEF ManagerTyped, ModsOK
<1>7. ASSUME ToggleOption PROVE ManagerTyped' /\ ModsOK'
  <2>1. \A i \in {-1, 1} : Change(i) \in Nat
    BY <1>2
  <2>2. ValueOr(toggled, option) \in BOOLEAN
    BY <1>0 DEF TypeOK, ManagerTyped, ValueOr
  <2>3. toggled' \in SUBSET BOOLEAN /\ changes' \in Nat /\ UNCHANGED <<rows, mods, uninstall>>
    BY <1>7, <2>1, <2>2 DEF ToggleOption
  <2> QED BY <1>0, <2>3 DEF ManagerTyped, ModsOK
<1>8. ASSUME Refuse PROVE ManagerTyped' /\ ModsOK'
  <2>1. -Cardinality(uninstall) \in Int
    BY <1>0, FS_CardinalityType DEF ManagerTyped
  <2>2. changes' \in Nat
    BY <1>2, <1>8, <2>1 DEF Refuse
  <2>3. rows' \in SUBSET Names /\ uninstall' = {} /\ UNCHANGED <<mods, toggled>>
    BY <1>1, <1>8 DEF Refuse
  <2>4. IsFiniteSet(uninstall')
    BY <2>3, FS_EmptySet
  <2> QED BY <1>0, <2>2, <2>3, <2>4 DEF ManagerTyped, ModsOK
<1>9. ASSUME EndReset \/ RefreshManager PROVE ManagerTyped' /\ ModsOK'
  <2>1. rows' = Shown(list) /\ UNCHANGED <<mods, uninstall, toggled, changes>>
    BY <1>9 DEF EndReset, RefreshManager, Handler
  <2>2. rows' \in SUBSET Names
    BY <1>1, <1>3, <2>1
  <2> QED BY <1>0, <2>1, <2>2 DEF ManagerTyped, ModsOK
<1>10. ASSUME ResetManager, rows' \in SUBSET Names PROVE ManagerTyped' /\ ModsOK'
  <2>1. /\ mods' = [n \in {} |-> {}] /\ uninstall' = {} /\ toggled' = {} /\ changes' = 0
    BY <1>10 DEF ResetManager, NoMods
  <2> QED BY <1>10, <2>1, FS_EmptySet DEF ManagerTyped, ModsOK
<1>11. ASSUME Reopen PROVE ManagerTyped' /\ ModsOK'
  BY <1>1, <1>10, <1>11 DEF Reopen
<1>12. ASSUME NEW t \in Transactions, NEW l, l = list \/ l = list', NEW refresh \in BOOLEAN,
              CommitConfig(t, l, refresh)
       PROVE  rows' \in SUBSET Names
  <2>1. rows' = rows \/ rows' = Shown(l)
    BY <1>12, Committed
  <2>2. Shown(l) \in SUBSET Names
    BY <1>1, <1>3, <1>12
  <2> QED BY <1>0, <2>1, <2>2 DEF ManagerTyped
<1>13. ASSUME EndApply PROVE ManagerTyped' /\ ModsOK'
  <2>1. SyncListed(tx, syncList) \in Transactions
    BY <1>0, SyncListedKeeps DEF TypeOK, SyncTyped
  <2>2. rows' \in SUBSET Names
    BY <1>12, <1>13, <2>1 DEF EndApply
  <2> QED BY <1>10, <1>13, <2>2 DEF EndApply
<1>14. ASSUME rows' \in SUBSET Names, UNCHANGED <<mods, uninstall, toggled, changes>>
       PROVE  ManagerTyped' /\ ModsOK'
  BY <1>0, <1>14 DEF ManagerTyped, ModsOK
<1>15. ASSUME \/ EndImport \/ \E refresh \in BOOLEAN : ProcessQueue(refresh)
       PROVE  ManagerTyped' /\ ModsOK'
  <2>1. tx \in Transactions
    BY <1>0 DEF TypeOK
  <2>2. rows' \in SUBSET Names
    BY <1>0, <1>12, <1>15, <2>1 DEF EndImport, ProcessQueue, ManagerTyped
  <2> QED BY <1>14, <1>15, <2>2 DEF EndImport, ProcessQueue
<1>16. ASSUME NEW n \in Names, NEW all \in BOOLEAN, NEW remember \in BOOLEAN,
             AboutInstall(n, all, remember)
      PROVE  ManagerTyped' /\ ModsOK'
  <2>1. PICK auto : /\ auto = AutoInstall([Get(list, n) EXCEPT
                                !.auto = IF remember THEN "on" ELSE @].auto, all)
    OBVIOUS
  <2>2. auto \in BOOLEAN
    BY <2>1, Zenon DEF AutoInstall
  <2>3. PICK t : t = Synchronized(SetUp(tx), n, auto)
    OBVIOUS
  <2>4. t \in Transactions
    BY <1>0, <2>2, <2>3, SetUpKeeps, SynchronizedKeeps DEF TypeOK
  <2>5. CommitConfig(t, list', TRUE)
    BY <1>16, <2>1, <2>3 DEF AboutInstall
  <2>6. rows' \in SUBSET Names
    BY <1>12, <2>4, <2>5
  <2> QED BY <1>14, <1>16, <2>6 DEF AboutInstall
<1>17. ASSUME UNCHANGED manager PROVE ManagerTyped' /\ ModsOK'
  BY <1>0, <1>14, <1>17 DEF manager, ManagerTyped
<1>18. ASSUME NEW n \in Names, ApplyUninstall(n) PROVE ManagerTyped' /\ ModsOK'
  <2>1. uninstall' = uninstall \ {n} /\ UNCHANGED <<rows, mods, toggled, changes>>
    BY <1>18 DEF ApplyUninstall
  <2>2. IsFiniteSet(uninstall')
    BY <1>0, <2>1, FS_RemoveElement DEF ManagerTyped
  <2> QED BY <1>0, <2>1, <2>2 DEF ManagerTyped, ModsOK
<1>19. ASSUME NEW n \in Names, ApplyMods(n) PROVE UNCHANGED manager
  BY <1>19 DEF ApplyMods
<1>20. ASSUME ResetConfig \/ RestoreDefault \/ Apply PROVE UNCHANGED manager
  BY <1>20 DEF ResetConfig, RestoreDefault, Apply
<1>21. ASSUME EndSyncs \/ Cancel \/ Finish \/ Teardown \/ SynchronizeAll \/ RefreshIndex
       PROVE  UNCHANGED manager
  BY <1>21 DEF EndSyncs, Cancel, Finish, Teardown, SynchronizeAll, RefreshIndex
<1>22. ASSUME RemoveRemote \/ WriteConfig PROVE UNCHANGED manager
  BY <1>22 DEF RemoveRemote, WriteConfig, Handler, manager
<1>23. ASSUME NEW i \in DOMAIN import.urls,
              DownloadAborted(i) \/ DownloadFailed(i) \/ DownloadRead(i)
       PROVE  UNCHANGED manager
  BY <1>23 DEF DownloadAborted, DownloadFailed, DownloadRead, Ended
<1>24. ASSUME \/ CloseImport \/ CancelImport \/ ImportNext
              \/ \E urls \in Inputs : Fetch(urls)
              \/ \E r \in ScriptInputs : AddSet(r)
       PROVE  UNCHANGED manager
  BY <1>24 DEF CloseImport, CancelImport, ImportNext, Fetch, AddSet
<1> QED BY <1>4, <1>5, <1>6, <1>7, <1>8, <1>9, <1>11, <1>13, <1>15, <1>16, <1>17, <1>18,
           <1>19, <1>20, <1>21, <1>22, <1>23, <1>24 DEF Next

LEMMA SavedIsFile == TypeOK => \A l \in Lists : Saved(l, option) \in Files
<1> SUFFICES ASSUME TypeOK, NEW l \in Lists PROVE Saved(l, option) \in Files
  OBVIOUS
<1>1. l.remotes \in Seq(Remote) /\ Len(l.remotes) \in Nat
  BY DEF Lists
<1>2. /\ ini.slots \in [1..MaxSlots -> Remote \union {NoRemote}] /\ MaxSlots \in Nat
      /\ option \in BOOLEAN
  BY SettingsAssumption DEF TypeOK, Files
<1>3. ASSUME NEW k \in 1..MaxSlots, k <= Len(l.remotes) PROVE l.remotes[k] \in Remote
  BY <1>1, <1>2, <1>3, ElementOfSeq
<1>4. PICK s : s = [k \in 1..MaxSlots |-> IF k <= Len(l.remotes) THEN l.remotes[k]
                                          ELSE IF k \in Erased(l) THEN NoRemote
                                          ELSE ini.slots[k]]
  OBVIOUS
<1>5. s \in [1..MaxSlots -> Remote \union {NoRemote}]
  BY <1>2, <1>3, <1>4
<1>6. Saved(l, option) = [slots |-> s, size |-> Len(l.remotes), option |-> option]
  BY <1>4 DEF Saved
<1> QED BY <1>1, <1>2, <1>5, <1>6 DEF Files

LEMMA FileKept == Consistent /\ Next => ini' \in Files
<1> SUFFICES ASSUME Consistent, Next PROVE ini' \in Files
  OBVIOUS
<1>0. TypeOK /\ ListOK /\ ini \in Files /\ tx \in Transactions /\ list \in Lists /\ list' \in Lists
  BY ListKept DEF Consistent, TypeOK
<1>1. ASSUME NEW l \in {list, list'}, Write(l, option) PROVE ini' \in Files
  BY <1>0, <1>1, SavedIsFile DEF Write
<1>2. ASSUME NEW t \in Transactions, NEW l \in {list, list'}, NEW refresh \in BOOLEAN,
             CommitConfig(t, l, refresh)
      PROVE  ini' \in Files
  <2>1. ini' = ini \/ Write(l, option)
    BY <1>2 DEF CommitConfig
  <2> QED BY <1>0, <1>1, <2>1
<1>3. ASSUME EndApply PROVE ini' \in Files
  <2>1. SyncListed(tx, syncList) \in Transactions
    BY <1>0, SyncListedKeeps DEF TypeOK, SyncTyped
  <2> QED BY <1>2, <1>3, <2>1 DEF EndApply
<1>4. ASSUME EndImport \/ \E refresh \in BOOLEAN : ProcessQueue(refresh) PROVE ini' \in Files
  BY <1>0, <1>2, <1>4 DEF EndImport, ProcessQueue
<1>5. ASSUME NEW n \in Names, NEW all \in BOOLEAN, NEW remember \in BOOLEAN,
             AboutInstall(n, all, remember)
      PROVE  ini' \in Files
  <2>1. ini' = ini \/ Write(list', option)
    BY <1>5 DEF AboutInstall, CommitConfig
  <2> QED BY <1>0, <1>1, <2>1
<1>6. ASSUME WriteConfig PROVE ini' \in Files
  BY <1>1, <1>6 DEF WriteConfig
<1>7. ASSUME UNCHANGED ini PROVE ini' \in Files
  BY <1>0, <1>7
<1>8. ASSUME NEW n \in Names,
             \/ ToggleEnabled(n) \/ Uninstall(n) \/ ApplyMods(n) \/ ApplyUninstall(n)
             \/ \E auto \in Autos : SetRemoteAutoInstall(n, auto)
      PROVE  UNCHANGED ini
  BY <1>8 DEF ToggleEnabled, Uninstall, ApplyMods, ApplyUninstall, SetRemoteAutoInstall
<1>9. ASSUME \/ ToggleOption \/ Refuse \/ ResetConfig \/ RestoreDefault \/ EndReset \/ Reopen \/ Apply
             \/ EndSyncs \/ Cancel \/ Finish \/ Teardown \/ SynchronizeAll \/ RefreshIndex
             \/ RemoveRemote \/ RefreshManager
       PROVE  UNCHANGED ini
  BY <1>9 DEF ToggleOption, Refuse, ResetConfig, RestoreDefault, EndReset, Reopen, Apply,
              EndSyncs, Cancel, Finish, Teardown, SynchronizeAll, RefreshIndex,
              RemoveRemote, RefreshManager
<1>10. ASSUME NEW i \in DOMAIN import.urls,
              DownloadAborted(i) \/ DownloadFailed(i) \/ DownloadRead(i)
       PROVE  UNCHANGED ini
  BY <1>10 DEF DownloadAborted, DownloadFailed, DownloadRead, Ended
<1>11. ASSUME \/ CloseImport \/ CancelImport \/ ImportNext
              \/ \E urls \in Inputs : Fetch(urls)
              \/ \E r \in ScriptInputs : AddSet(r)
       PROVE  UNCHANGED ini
  BY <1>11 DEF CloseImport, CancelImport, ImportNext, Fetch, AddSet
<1> QED BY <1>3, <1>4, <1>5, <1>6, <1>7, <1>8, <1>9, <1>10, <1>11 DEF Next

\* What apply() adds and synchronizes is a remote.
LEMMA ModIsRemote ==
  ASSUME TypeOK, NEW n \in todo
  PROVE  [mods[n].base EXCEPT !.enabled = ValueOr(mods[n].enable, @),
                              !.auto = ValueOr(mods[n].autoInstall, @)] \in Remote
<1>1. mods[n] \in Changed
  BY DEF TypeOK, ManagerTyped, SyncTyped
<1>2. /\ ValueOr(mods[n].enable, mods[n].base.enabled) \in BOOLEAN
      /\ ValueOr(mods[n].autoInstall, mods[n].base.auto) \in Autos
  BY <1>1 DEF ValueOr, Changed, Remote
<1> QED BY <1>1, <1>2 DEF Changed, Remote

LEMMA SyncListKept == Consistent /\ Next => SyncTyped'
<1> SUFFICES ASSUME Consistent, Next PROVE SyncTyped'
  OBVIOUS
<1>0. TypeOK /\ ListOK /\ SyncTyped /\ list \in Lists
  BY DEF Consistent, TypeOK, SyncTyped
<1>1. ASSUME Apply PROVE SyncTyped'
  <2>1. PICK s : s = ByName(GetEnabled(list))
    OBVIOUS
  <2>2. DOMAIN s \in SUBSET Names /\ s \in [DOMAIN s -> Remote]
    BY <1>0, <2>1, EnabledByName DEF ListOK
  <2>3. syncList' = s \/ syncList' = [n \in {} |-> {}]
    BY <1>1, <2>1 DEF Apply, NoMods
  <2>4. todo' = DOMAIN mods /\ mods' = mods /\ pc' = "apply"
    BY <1>1 DEF Apply, manager
  <2> QED BY <2>2, <2>3, <2>4 DEF SyncTyped
<1>2. ASSUME NEW n \in Names, ApplyMods(n) PROVE SyncTyped'
  <2>1. PICK r : r = [mods[n].base EXCEPT !.enabled = ValueOr(mods[n].enable, @),
                                          !.auto = ValueOr(mods[n].autoInstall, @)]
    OBVIOUS
  <2>2. r \in Remote /\ r.name \in Names
    BY <1>0, <1>2, <2>1, ModIsRemote DEF ApplyMods, Remote
  <2>3. PICK s : s = Base(n)
    OBVIOUS
  <2>4. DOMAIN s \in SUBSET Names /\ s \in [DOMAIN s -> Remote]
    BY <1>0, <2>3 DEF Base, Without, SyncTyped
  <2>5. syncList' = syncList \/ syncList' = s \/ syncList' = Inserted(s, r)
    BY <1>2, <2>1, <2>3 DEF ApplyMods
  <2>6. PICK i : i = Inserted(s, r)
    OBVIOUS
  <2>7. DOMAIN i \in SUBSET Names /\ i \in [DOMAIN i -> Remote]
    BY <2>2, <2>4, <2>6 DEF Inserted
  <2>8. todo' \subseteq todo /\ mods' = mods /\ pc' = "apply"
    BY <1>2 DEF ApplyMods, manager
  <2> QED BY <1>0, <2>4, <2>5, <2>6, <2>7, <2>8 DEF SyncTyped
<1>3. ASSUME NEW n \in Names, ApplyUninstall(n) PROVE SyncTyped'
  BY <1>0, <1>3 DEF ApplyUninstall, SyncTyped, Without
<1>4. ASSUME EndApply PROVE SyncTyped'
  <2>1. syncList' = [n \in {} |-> {}] /\ mods' = [n \in {} |-> {}] /\ todo' = {}
    BY <1>4 DEF EndApply, ResetManager, NoMods
  <2> QED BY <2>1 DEF SyncTyped
<1>5. ASSUME pc # "apply", UNCHANGED <<syncList, todo>> PROVE SyncTyped'
  BY <1>0, <1>5 DEF SyncTyped
<1>6. ASSUME NEW n \in Names,
             \/ ToggleEnabled(n) \/ Uninstall(n)
             \/ \E auto \in Autos : SetRemoteAutoInstall(n, auto)
             \/ \E all, remember \in BOOLEAN : AboutInstall(n, all, remember)
      PROVE  pc # "apply" /\ UNCHANGED <<syncList, todo>>
  BY <1>6 DEF ToggleEnabled, Uninstall, SetRemoteAutoInstall, AboutInstall, ManagerCommand, Command,
              applying
<1>7. ASSUME ToggleOption \/ Refuse \/ ResetConfig \/ RestoreDefault \/ EndReset \/ Reopen
      PROVE  pc # "apply" /\ UNCHANGED <<syncList, todo>>
  BY <1>7 DEF ToggleOption, Refuse, ResetConfig, RestoreDefault, EndReset, Reopen,
              ManagerCommand, Command, applying
<1>8. ASSUME \/ EndSyncs \/ Cancel \/ Finish \/ Teardown \/ SynchronizeAll \/ RefreshIndex
             \/ RemoveRemote \/ RefreshManager \/ WriteConfig
      PROVE  pc # "apply" /\ UNCHANGED <<syncList, todo>>
  BY <1>8 DEF EndSyncs, Cancel, Finish, Teardown, SynchronizeAll, RefreshIndex, RemoveRemote,
              RefreshManager, WriteConfig, Handler, Command, applying
<1>9. ASSUME NEW i \in DOMAIN import.urls,
             DownloadAborted(i) \/ DownloadFailed(i) \/ DownloadRead(i)
      PROVE  pc # "apply" /\ UNCHANGED <<syncList, todo>>
  BY <1>9 DEF DownloadAborted, DownloadFailed, DownloadRead, Ended, applying
<1>10. ASSUME \/ CloseImport \/ CancelImport \/ ImportNext \/ EndImport
              \/ \E urls \in Inputs : Fetch(urls)
              \/ \E r \in ScriptInputs : AddSet(r)
              \/ \E refresh \in BOOLEAN : ProcessQueue(refresh)
       PROVE  pc # "apply" /\ UNCHANGED <<syncList, todo>>
  BY <1>10 DEF CloseImport, CancelImport, ImportNext, EndImport, Fetch, AddSet, ProcessQueue,
               Command, applying
<1> QED BY <1>1, <1>2, <1>3, <1>4, <1>5, <1>6, <1>7, <1>8, <1>9, <1>10 DEF Next

LEMMA TypeKept == Consistent /\ Next => TypeOK' /\ ListOK' /\ ModsOK'
<1> SUFFICES ASSUME Consistent, Next PROVE TypeOK' /\ ListOK' /\ ModsOK'
  OBVIOUS
<1>0. /\ TypeOK /\ ListOK' /\ ModsOK' /\ list' \in Lists /\ tx' \in Transactions
      /\ import' \in Imports /\ ManagerTyped' /\ ini' \in Files /\ SyncTyped'
  BY ListKept, TxKept, ImportKept, ManagerKept, FileKept, SyncListKept DEF Consistent
<1> DEFINE Steps == /\ pc' \in {pc, "rest", "reset", "apply", "finish", "import"}
                    /\ restored' \in {restored, restored + 1, 0}
                    /\ commands' \in {commands, commands + 1}
           Flags == /\ option' = option
                    /\ unsaved' = unsaved \/ unsaved' = TRUE \/ unsaved' = FALSE
                    /\ drifted' = drifted \/ drifted' = FALSE
<1>1. /\ pc \in {"rest", "reset", "apply", "finish", "import"}
      /\ option \in BOOLEAN /\ restored \in Nat /\ commands \in Nat
      /\ unsaved \in BOOLEAN /\ drifted \in BOOLEAN /\ toggled \in SUBSET BOOLEAN
  BY <1>0 DEF TypeOK, ManagerTyped
<1>2. ASSUME NEW n \in Names,
             \/ ToggleEnabled(n) \/ Uninstall(n) \/ ApplyMods(n) \/ ApplyUninstall(n)
             \/ \E auto \in Autos : SetRemoteAutoInstall(n, auto)
      PROVE  Steps /\ UNCHANGED <<option, unsaved, drifted>>
  BY <1>2 DEF ToggleEnabled, Uninstall, ApplyMods, ApplyUninstall, SetRemoteAutoInstall,
              ManagerCommand, Command, applying, history
<1>3. ASSUME NEW n \in Names, NEW all \in BOOLEAN, NEW remember \in BOOLEAN,
             AboutInstall(n, all, remember)
      PROVE  Steps /\ Flags
  BY <1>3 DEF AboutInstall, CommitConfig, Write, Command, applying
<1>4. ASSUME ToggleOption \/ Refuse \/ EndReset \/ Reopen \/ RestoreDefault
      PROVE  Steps /\ Flags
  BY <1>4 DEF ToggleOption, Refuse, EndReset, Reopen, RestoreDefault, ResetManager,
              ManagerCommand, Command, applying, history
<1>5. ASSUME ResetConfig
      PROVE  Steps /\ option' = FALSE /\ unsaved' = TRUE /\ drifted' = (drifted \/ toggled # {})
  BY <1>5 DEF ResetConfig, ManagerCommand, Command
<1>6. ASSUME Apply PROVE Steps /\ option' \in BOOLEAN /\ UNCHANGED <<unsaved, drifted>>
  <2>1. ValueOr(toggled, option) \in BOOLEAN
    BY <1>1 DEF ValueOr
  <2> QED BY <1>6, <2>1 DEF Apply, ManagerCommand, Command, history
<1>7. ASSUME EndApply PROVE Steps /\ Flags
  BY <1>7 DEF EndApply, ResetManager, CommitConfig, Write
<1>8. ASSUME EndSyncs \/ Cancel \/ Finish \/ Teardown \/ SynchronizeAll \/ RefreshIndex
      PROVE  Steps /\ Flags
  BY <1>8 DEF EndSyncs, Cancel, Finish, Teardown, SynchronizeAll, RefreshIndex, Command,
              applying, history
<1>9. ASSUME RemoveRemote \/ RefreshManager \/ WriteConfig PROVE Steps /\ Flags
  BY <1>9 DEF RemoveRemote, RefreshManager, WriteConfig, Handler, Write, applying
<1>10. ASSUME NEW i \in DOMAIN import.urls,
              DownloadAborted(i) \/ DownloadFailed(i) \/ DownloadRead(i)
       PROVE  Steps /\ Flags
  BY <1>10 DEF DownloadAborted, DownloadFailed, DownloadRead, Ended, applying, history
<1>11. ASSUME \/ CloseImport \/ CancelImport \/ ImportNext
              \/ \E urls \in Inputs : Fetch(urls)
              \/ \E r \in ScriptInputs : AddSet(r)
       PROVE  Steps /\ Flags
  BY <1>11 DEF CloseImport, CancelImport, ImportNext, Fetch, AddSet, Command, applying, history
<1>12. ASSUME EndImport \/ \E refresh \in BOOLEAN : ProcessQueue(refresh) PROVE Steps /\ Flags
  BY <1>12 DEF EndImport, ProcessQueue, CommitConfig, Write, Command, applying
<1>13. \/ Steps /\ Flags
       \/ Steps /\ option' = FALSE /\ unsaved' = TRUE /\ drifted' = (drifted \/ toggled # {})
       \/ Steps /\ option' \in BOOLEAN /\ UNCHANGED <<unsaved, drifted>>
  BY <1>1, <1>2, <1>3, <1>4, <1>5, <1>6, <1>7, <1>8, <1>9, <1>10, <1>11, <1>12 DEF Next
<1> HIDE DEF Flags, Steps
<1>14. Steps
  BY <1>13
<1>15. restored' \in Nat /\ commands' \in Nat /\ pc' \in {"rest", "reset", "apply", "finish", "import"}
  BY <1>1, <1>14 DEF Steps
<1>16. option' \in BOOLEAN /\ unsaved' \in BOOLEAN /\ drifted' \in BOOLEAN
  BY <1>1, <1>13, Zenon DEF Flags
<1> QED BY <1>0, <1>15, <1>16 DEF TypeOK

-----------------------------------------------------------------------------
(* The handlers, and the rows *)

LEMMA HandlersKept == Consistent /\ Next => HandlersOK'
<1> SUFFICES ASSUME Consistent, Next PROVE HandlersOK'
  OBVIOUS
<1>0. /\ TypeOK /\ ListOK /\ HandlersOK /\ tx \in Transactions /\ tx.finish \in Seq(Handlers)
      /\ option \in BOOLEAN
  BY DEF Consistent, TypeOK, Transactions
<1>1. ASSUME tx'.finish = tx.finish, tx.open => tx'.open,
             pc' = pc \/ (pc # "apply" /\ (pc' # "apply" \/ tx'.open))
      PROVE  HandlersOK'
  BY <1>0, <1>1 DEF HandlersOK
<1>2. ASSUME NEW t \in Transactions, t.finish = tx.finish, tx.open => t.open,
             pc # "apply" \/ t.open, NEW l, NEW refresh \in BOOLEAN,
             pc = "apply" => refresh, CommitConfig(t, l, refresh)
      PROVE  HandlersOK'
  <2>1. CASE t.open
    <3>1. tx'.open /\ pc' # "apply"
      BY <1>2, <2>1, Committed
    <3>2. CASE refresh
      <4>1. Followed(tx'.finish)
        BY <1>2, <2>1, <3>2, Committed
      <4> QED BY <3>1, <4>1 DEF HandlersOK
    <3>3. CASE ~refresh
      <4>1. Followed(t.finish)
        BY <1>0, <1>2, <3>3 DEF HandlersOK
      <4>2. Followed(tx'.finish)
        BY <1>2, <2>1, <4>1, Committed
      <4> QED BY <3>1, <4>2 DEF HandlersOK
    <3> QED BY <3>2, <3>3
  <2>2. CASE ~t.open
    <3>1. tx' = t /\ pc' = "rest"
      BY <1>2, <2>2, Committed
    <3> QED BY <1>0, <1>2, <2>2, <3>1 DEF HandlersOK
  <2> QED BY <2>1, <2>2
<1>3. ASSUME NEW n \in Names, ApplyMods(n) PROVE HandlersOK'
  <2>1. pc' = pc
    BY <1>3 DEF ApplyMods
  <2>2. CASE n \in uninstall
    BY <1>1, <1>3, <2>1, <2>2 DEF ApplyMods
  <2>3. CASE n \notin uninstall
    <3>1. PICK r : /\ tx' = AddSetTx(tx, r)
                   /\ r = [mods[n].base EXCEPT !.enabled = ValueOr(mods[n].enable, @),
                                               !.auto = ValueOr(mods[n].autoInstall, @)]
      BY <1>3, <2>3 DEF ApplyMods
    <3>2. r \in Remote
      BY <1>0, <1>3, <3>1, ModIsRemote DEF ApplyMods
    <3>3. tx'.finish = tx.finish /\ (tx.open => tx'.open)
      BY <1>0, <3>1, <3>2, AddSetTxKeeps
    <3> QED BY <1>1, <2>1, <3>3
  <2> QED BY <2>2, <2>3
<1>4. ASSUME NEW n \in Names, ApplyUninstall(n) PROVE HandlersOK'
  <2>1. pc = "apply" /\ pc' = "apply"
    BY <1>4 DEF ApplyUninstall
  <2>2. PICK fetched \in BOOLEAN :
          tx' = [Inhibited(tx, n, fetched) EXCEPT
                   !.finish = Append(@, [call |-> "remove", name |-> n])]
    BY <1>4 DEF ApplyUninstall
  <2>3. tx'.open = tx.open
    BY <1>0, <2>2 DEF Inhibited, Transactions
  <2> QED BY <1>0, <2>1, <2>3 DEF HandlersOK
<1>5. ASSUME EndApply PROVE HandlersOK'
  <2>1. PICK t : t = SyncListed(tx, syncList)
    OBVIOUS
  <2>2. t \in Transactions /\ t.open = tx.open /\ t.finish = tx.finish
    BY <1>0, <2>1, SyncListedKeeps DEF TypeOK, SyncTyped
  <2>3. pc = "apply" /\ CommitConfig(t, list, TRUE)
    BY <1>5, <2>1 DEF EndApply
  <2>4. tx.open
    BY <1>0, <2>3 DEF HandlersOK
  <2> QED BY <1>2, <2>2, <2>3, <2>4
<1>6. ASSUME NEW n \in Names, NEW all \in BOOLEAN, NEW remember \in BOOLEAN,
             AboutInstall(n, all, remember)
      PROVE  HandlersOK'
  <2>1. PICK auto : /\ auto = AutoInstall([Get(list, n) EXCEPT
                                !.auto = IF remember THEN "on" ELSE @].auto, all)
    OBVIOUS
  <2>2. auto \in BOOLEAN
    BY <2>1, Zenon DEF AutoInstall
  <2>3. PICK t : t = Synchronized(SetUp(tx), n, auto)
    OBVIOUS
  <2>4. t \in Transactions /\ t.open /\ t.finish = tx.finish
    BY <1>0, <2>2, <2>3, SetUpKeeps, SynchronizedKeeps
  <2>5. CommitConfig(t, list', TRUE) /\ pc = "rest"
    BY <1>6, <2>1, <2>3 DEF AboutInstall, Command
  <2> QED BY <1>2, <2>4, <2>5
<1>7. ASSUME EndImport \/ \E refresh \in BOOLEAN : ProcessQueue(refresh) PROVE HandlersOK'
  <2>1. CASE EndImport /\ import.done = {}
    BY <1>1, <2>1 DEF EndImport
  <2>2. PICK refresh \in BOOLEAN : ~(EndImport /\ import.done = {}) =>
                                     CommitConfig(tx, list, refresh) /\ pc # "apply"
    BY <1>7 DEF EndImport, ProcessQueue, Command
  <2>3. CASE ~(EndImport /\ import.done = {})
    BY <1>0, <1>2, <2>2, <2>3
  <2> QED BY <2>1, <2>3
<1>8. ASSUME Handler PROVE HandlersOK'
  <2>1. PICK q : q = Tail(tx.finish)
    OBVIOUS
  <2>2. /\ tx' = [tx EXCEPT !.finish = q] /\ tx.finish # <<>> /\ pc = "finish" /\ pc' = "finish"
    BY <1>8, <2>1 DEF Handler
  <2>3. Followed(tx.finish) => Followed(q)
    BY <1>0, <2>1, <2>2, RanHandler
  <2>4. tx'.finish = q /\ tx'.open = tx.open
    BY <1>0, <2>2 DEF Transactions
  <2> QED BY <1>0, <2>2, <2>3, <2>4 DEF HandlersOK
<1>9. ASSUME Teardown PROVE HandlersOK'
  <2>1. tx'.finish = <<>> /\ pc' = "rest"
    BY <1>9 DEF Teardown, NoTx
  <2> QED BY <2>1 DEF HandlersOK, Followed
<1>10. ASSUME Apply PROVE HandlersOK'
  <2>1. tx' = SetUp(tx) /\ pc = "rest"
    BY <1>10 DEF Apply, ManagerCommand, Command
  <2> QED BY <1>0, <1>1, <2>1, SetUpKeeps
<1>11. ASSUME EndSyncs \/ Cancel \/ RefreshIndex PROVE HandlersOK'
  <2>1. PICK u : u = SetUp(tx)
    OBVIOUS
  <2>2. u \in Transactions /\ u.open /\ u.finish = tx.finish
    BY <1>0, <2>1, SetUpKeeps
  <2>3. tx'.finish = tx.finish /\ (tx.open => tx'.open)
    BY <1>0, <1>11, <2>1, <2>2 DEF EndSyncs, Cancel, RefreshIndex, Transactions
  <2>4. pc' = pc
    BY <1>11 DEF EndSyncs, Cancel, RefreshIndex
  <2> QED BY <1>1, <2>3, <2>4
<1>12. ASSUME SynchronizeAll PROVE HandlersOK'
  <2>1. PICK s : s = ByName(GetEnabled(list))
    OBVIOUS
  <2>2. DOMAIN s \in SUBSET Names
    BY <1>0, <2>1, EnabledByName DEF TypeOK, ListOK
  <2>3. PICK t : t = SyncListed(SetUp(tx), s)
    OBVIOUS
  <2>4. t \in Transactions /\ t.open /\ t.finish = tx.finish
    BY <1>0, <2>2, <2>3, SetUpKeeps, SyncListedKeeps
  <2>5. tx' = [t EXCEPT !.started = TRUE] /\ pc' = pc
    BY <1>12, <2>1, <2>3 DEF SynchronizeAll
  <2>6. tx'.finish = tx.finish /\ tx'.open
    BY <2>4, <2>5 DEF Transactions
  <2> QED BY <1>1, <2>5, <2>6
<1>13. ASSUME NEW r \in Remote, tx' = AddSetTx(tx, r), pc' = pc PROVE HandlersOK'
  BY <1>0, <1>1, <1>13, AddSetTxKeeps
<1>14. ASSUME ImportNext PROVE HandlersOK'
  <2>1. PICK d \in import.queue : tx' = AddSetTx(tx, d.remote) /\ pc' = pc
    BY <1>14 DEF ImportNext
  <2>2. d.remote \in Remote
    BY <1>0 DEF TypeOK, Imports
  <2> QED BY <1>13, <2>1, <2>2
<1>15. ASSUME NEW r \in ScriptInputs, AddSet(r) PROVE HandlersOK'
  BY <1>13, <1>15, SettingsAssumption DEF AddSet
<1>16. ASSUME tx' = tx, pc' = pc \/ (pc # "apply" /\ pc' # "apply") PROVE HandlersOK'
  BY <1>1, <1>16
<1>17. ASSUME NEW n \in Names,
             \/ ToggleEnabled(n) \/ Uninstall(n)
             \/ \E auto \in Autos : SetRemoteAutoInstall(n, auto)
       PROVE HandlersOK'
  BY <1>16, <1>17 DEF ToggleEnabled, Uninstall, SetRemoteAutoInstall
<1>18. ASSUME ToggleOption \/ Refuse \/ ResetConfig \/ RestoreDefault \/ EndReset \/ Reopen \/ Finish
       PROVE  HandlersOK'
  BY <1>16, <1>18 DEF ToggleOption, Refuse, ResetConfig, RestoreDefault, EndReset, Reopen, Finish,
                      ManagerCommand, Command
<1>19. ASSUME CloseImport \/ CancelImport \/ \E urls \in Inputs : Fetch(urls) PROVE HandlersOK'
  BY <1>16, <1>19 DEF CloseImport, CancelImport, Fetch
<1>20. ASSUME NEW i \in DOMAIN import.urls,
              DownloadAborted(i) \/ DownloadFailed(i) \/ DownloadRead(i)
       PROVE  HandlersOK'
  BY <1>16, <1>20 DEF DownloadAborted, DownloadFailed, DownloadRead, Ended
<1>21. ASSUME RemoveRemote \/ RefreshManager \/ WriteConfig PROVE HandlersOK'
  BY <1>8, <1>21 DEF RemoveRemote, RefreshManager, WriteConfig
<1> QED BY <1>3, <1>4, <1>5, <1>6, <1>7, <1>9, <1>10, <1>11, <1>12, <1>14, <1>15, <1>17, <1>18,
           <1>19, <1>20, <1>21 DEF Next

LEMMA RowsKept == Consistent /\ Next => RowsOK'
<1> SUFFICES ASSUME Consistent, Next PROVE RowsOK'
  OBVIOUS
<1>0. /\ TypeOK /\ ListOK /\ HandlersOK /\ RowsOK
      /\ tx \in Transactions /\ tx.finish \in Seq(Handlers)
      /\ RemoveRemote \/ DOMAIN list.map \subseteq DOMAIN list'.map
  BY ListKept DEF Consistent, TypeOK, Transactions
<1>1. ASSUME pc # "finish", DOMAIN list.map \subseteq DOMAIN list'.map, rows' \subseteq rows
      PROVE  RowsOK'
  BY <1>0, <1>1 DEF RowsOK
<1>2. ASSUME rows' \subseteq DOMAIN list'.map PROVE RowsOK'
  BY <1>2 DEF RowsOK
<1>3. ASSUME Handler PROVE pc = "finish"
  BY <1>3 DEF Handler
<1>4. ASSUME Handler, rows' = rows, list' = list, Head(tx.finish).call # "refresh" PROVE RowsOK'
  <2>1. PICK q, h : q = Tail(tx.finish) /\ h = Head(tx.finish)
    OBVIOUS
  <2>2. tx' = [tx EXCEPT !.finish = q] /\ tx.finish # <<>> /\ pc' = "finish"
    BY <1>4, <2>1 DEF Handler
  <2>3. Pending(tx.finish, "refresh") => Pending(q, "refresh")
    BY <1>0, <1>4, <2>1, <2>2, RanHandler
  <2>4. tx'.finish = q
    BY <1>0, <2>2 DEF Transactions
  <2> QED BY <1>0, <1>4, <2>2, <2>3, <2>4 DEF RowsOK
<1>5. ASSUME RemoveRemote PROVE RowsOK'
  <2>1. PICK q, h : q = Tail(tx.finish) /\ h = Head(tx.finish)
    OBVIOUS
  <2>2. /\ tx' = [tx EXCEPT !.finish = q] /\ tx.finish # <<>> /\ pc' = "finish" /\ pc = "finish"
        /\ h.call = "remove"
    BY <1>5, <2>1 DEF RemoveRemote, Handler
  <2>3. Followed(tx.finish)
    BY <1>0, <2>2 DEF HandlersOK
  <2>4. Pending(q, "refresh")
    BY <1>0, <2>1, <2>2, <2>3, RanHandler
  <2>5. tx'.finish = q
    BY <1>0, <2>2 DEF Transactions
  <2> QED BY <2>2, <2>4, <2>5 DEF RowsOK
<1>6. ASSUME RefreshManager PROVE RowsOK'
  BY <1>2, <1>6 DEF RefreshManager, Shown
<1>7. ASSUME WriteConfig PROVE RowsOK'
  BY <1>4, <1>7 DEF WriteConfig
<1>8. ASSUME Teardown PROVE RowsOK'
  <2>1. ~Pending(tx.finish, "refresh")
    BY <1>8 DEF Teardown, Pending
  <2> QED BY <1>0, <1>2, <1>8, <2>1 DEF Teardown, RowsOK, manager
<1>9. ASSUME NEW t, NEW l, l = list', NEW refresh, CommitConfig(t, l, refresh), pc # "finish",
             DOMAIN list.map \subseteq DOMAIN list'.map
      PROVE  RowsOK'
  <2>1. rows' = rows \/ rows' \subseteq DOMAIN list'.map
    BY <1>9 DEF CommitConfig, Shown
  <2> QED BY <1>1, <1>2, <1>9, <2>1
<1>10. ASSUME NEW n \in Names, NEW all \in BOOLEAN, NEW remember \in BOOLEAN,
             AboutInstall(n, all, remember)
       PROVE  RowsOK'
  <2>1. PICK t : CommitConfig(t, list', TRUE)
    BY <1>10 DEF AboutInstall
  <2>2. pc # "finish" /\ ~RemoveRemote
    BY <1>10 DEF AboutInstall, Command, RemoveRemote, Handler
  <2> QED BY <1>0, <1>9, <2>1, <2>2
<1>11. ASSUME EndApply \/ EndImport \/ \E refresh \in BOOLEAN : ProcessQueue(refresh) PROVE RowsOK'
  <2>1. pc # "finish" /\ list' = list
    BY <1>11 DEF EndApply, EndImport, ProcessQueue, Command
  <2>2. rows' = rows \/ \E t, refresh : CommitConfig(t, list, refresh)
    BY <1>11 DEF EndApply, EndImport, ProcessQueue
  <2> QED BY <1>1, <1>9, <2>1, <2>2
<1>12. ASSUME pc # "finish", rows' \subseteq rows PROVE RowsOK'
  <2>1. ~RemoveRemote
    BY <1>12 DEF RemoveRemote, Handler
  <2> QED BY <1>0, <1>1, <1>12, <2>1
<1>13. ASSUME NEW n \in Names,
             \/ ToggleEnabled(n) \/ Uninstall(n) \/ ApplyMods(n) \/ ApplyUninstall(n)
             \/ \E auto \in Autos : SetRemoteAutoInstall(n, auto)
       PROVE RowsOK'
  BY <1>12, <1>13 DEF ToggleEnabled, Uninstall, ApplyMods, ApplyUninstall, SetRemoteAutoInstall,
                      ManagerCommand, Command, manager
<1>14. ASSUME \/ ToggleOption \/ ResetConfig \/ RestoreDefault \/ Apply \/ EndSyncs \/ Cancel \/ Finish
              \/ SynchronizeAll \/ RefreshIndex
       PROVE  RowsOK'
  BY <1>12, <1>14 DEF ToggleOption, ResetConfig, RestoreDefault, Apply, EndSyncs, Cancel, Finish,
                      SynchronizeAll, RefreshIndex, ManagerCommand, Command, manager
<1>15. ASSUME Refuse \/ EndReset \/ Reopen PROVE RowsOK'
  BY <1>2, <1>15 DEF Refuse, EndReset, Reopen, Shown
<1>16. ASSUME NEW i \in DOMAIN import.urls,
              DownloadAborted(i) \/ DownloadFailed(i) \/ DownloadRead(i)
       PROVE  RowsOK'
  BY <1>12, <1>16 DEF DownloadAborted, DownloadFailed, DownloadRead, Ended, manager
<1>17. ASSUME \/ CloseImport \/ CancelImport \/ ImportNext
              \/ \E urls \in Inputs : Fetch(urls)
              \/ \E r \in ScriptInputs : AddSet(r)
       PROVE  RowsOK'
  BY <1>12, <1>17 DEF CloseImport, CancelImport, ImportNext, Fetch, AddSet, Command, manager
<1> QED BY <1>5, <1>6, <1>7, <1>8, <1>10, <1>11, <1>13, <1>14, <1>15, <1>16, <1>17 DEF Next

\* A step that leaves the variables alone.
LEMMA ConsistentStutter == Consistent /\ UNCHANGED vars => Consistent'
BY DEF Consistent, TypeOK, ManagerTyped, SyncTyped, ListOK, WellFormed, ModsOK, HandlersOK, RowsOK,
       Followed, Pending, vars, manager, applying, history

\* What all the windows rely on, in every state: the list is well formed and holds the
\* protected remote, each pending change is kept under the name of its remote, every removal
\* that waits is followed by a refresh and a save, and the rows are found or a refresh
\* waits (remote.cpp:143-180, manager.cpp:186-205, reapack.cpp:163-190, 359-376).
THEOREM AlwaysConsistent == Spec => []Consistent
<1>1. Init => Consistent
  <2> SUFFICES ASSUME Init PROVE Consistent
    OBVIOUS
  <2>1. TypeOK /\ ListOK
    BY TypeInit
  <2>2. rows = DOMAIN list.map /\ tx.finish = <<>> /\ mods = [n \in {} |-> {}] /\ pc = "rest"
    BY DEF Init, NoTx, NoMods
  <2> QED BY <2>1, <2>2 DEF Consistent, ModsOK, HandlersOK, Followed, RowsOK
<1>2. Consistent /\ Next => Consistent'
  BY TypeKept, HandlersKept, RowsKept DEF Consistent
<1> QED BY <1>1, <1>2, ConsistentStutter, PTL DEF Spec

\* Every row of the manager is found in the list whenever the user may act on it, however many
\* repositories are uninstalled, imported or reset and transactions cancelled in between:
\* what removes a remote is always followed by a refresh (reapack.cpp:178-190, 359-376).
THEOREM RowsAlwaysFound == Spec => []RowsAreFound
<1>1. Consistent => RowsAreFound
  BY DEF Consistent, RowsOK, RowsAreFound
<1> QED BY <1>1, AlwaysConsistent, PTL

-----------------------------------------------------------------------------
(* What Apply synchronizes *)

\* Only apply() is in the call "apply", and the other calls leave its lists alone.
LEMMA ApplySteps ==
  Next =>
    \/ Apply \/ EndApply
    \/ \E n \in Names : ApplyMods(n) \/ ApplyUninstall(n)
    \/ pc # "apply" /\ pc' # "apply"
<1> DEFINE Elsewhere == pc # "apply" /\ pc' # "apply"
<1> SUFFICES ASSUME Next, ~(Apply \/ EndApply),
                    ~ \E n \in Names : ApplyMods(n) \/ ApplyUninstall(n)
             PROVE  Elsewhere
  OBVIOUS
<1>1. ASSUME NEW n \in Names,
             \/ ToggleEnabled(n) \/ Uninstall(n)
             \/ \E auto \in Autos : SetRemoteAutoInstall(n, auto)
             \/ \E all, remember \in BOOLEAN : AboutInstall(n, all, remember)
      PROVE  Elsewhere
  BY <1>1 DEF ToggleEnabled, Uninstall, SetRemoteAutoInstall, AboutInstall, CommitConfig,
              ManagerCommand, Command
<1>2. ASSUME ToggleOption \/ Refuse \/ ResetConfig \/ RestoreDefault \/ EndReset \/ Reopen
      PROVE  Elsewhere
  BY <1>2 DEF ToggleOption, Refuse, ResetConfig, RestoreDefault, EndReset, Reopen,
              ManagerCommand, Command
<1>3. ASSUME \/ EndSyncs \/ Cancel \/ Finish \/ Teardown \/ SynchronizeAll \/ RefreshIndex
             \/ RemoveRemote \/ RefreshManager \/ WriteConfig
      PROVE  Elsewhere
  BY <1>3 DEF EndSyncs, Cancel, Finish, Teardown, SynchronizeAll, RefreshIndex, RemoveRemote,
              RefreshManager, WriteConfig, Handler, Command
<1>4. ASSUME NEW i \in DOMAIN import.urls,
             DownloadAborted(i) \/ DownloadFailed(i) \/ DownloadRead(i)
      PROVE  Elsewhere
  BY <1>4 DEF DownloadAborted, DownloadFailed, DownloadRead, Ended
<1>5. ASSUME \/ CloseImport \/ CancelImport \/ ImportNext \/ EndImport
             \/ \E urls \in Inputs : Fetch(urls)
             \/ \E r \in ScriptInputs : AddSet(r)
             \/ \E refresh \in BOOLEAN : ProcessQueue(refresh)
      PROVE  Elsewhere
  BY <1>5 DEF CloseImport, CancelImport, ImportNext, EndImport, Fetch, AddSet, ProcessQueue,
              CommitConfig, Command
<1> QED BY <1>1, <1>2, <1>3, <1>4, <1>5 DEF Next

\* What a step of apply() asks for, as SyncsObeySettings wants it.
Obeyed ==
  pc = "apply" =>
    \A t \in tx'.syncs \ tx.syncs :
      \/ Overridden(t.name)
      \/ LET r == Get(list', t.name)
         IN r.enabled /\ t.auto = AutoInstall(r.auto, option)

LEMMA ApplyModsObeys ==
  ASSUME Consistent, SyncsOK, NEW n \in Names, ApplyMods(n)
  PROVE  SyncsOK' /\ Obeyed
<1>0. /\ TypeOK /\ list \in Lists /\ WellFormed(list) /\ tx \in Transactions
      /\ pc = "apply" /\ pc' = "apply" /\ n \in todo /\ todo' = todo \ {n}
      /\ UNCHANGED <<mods, toggled, option>>
      /\ DOMAIN syncList \in SUBSET Names
  BY DEF ApplyMods, manager, Consistent, TypeOK, ListOK, SyncTyped
<1>1. CASE n \in uninstall
  <2>1. syncList' = syncList /\ tx' = tx /\ list' = list
    BY <1>1 DEF ApplyMods
  <2> QED BY <1>0, <2>1 DEF SyncsOK, Obeyed, Overridden
<1>2. CASE n \notin uninstall
  <2>1. PICK r : r = [mods[n].base EXCEPT !.enabled = ValueOr(mods[n].enable, @),
                                          !.auto = ValueOr(mods[n].autoInstall, @)]
    OBVIOUS
  <2>2. /\ list' = AddTo(list, r) /\ tx' = AddSetTx(tx, r)
        /\ syncList' = IF mods[n].autoInstall = {"on"} /\ r.enabled
                         THEN Inserted(Base(n), r) ELSE Base(n)
    BY <1>2, <2>1 DEF ApplyMods
  <2>3. r \in Remote /\ r.name = n
    <3>1. mods[n] \in Changed /\ mods[n].base.name = n
      BY <1>0 DEF Consistent, TypeOK, ManagerTyped, SyncTyped, ModsOK
    <3> QED BY <1>0, <2>1, <3>1, ModIsRemote DEF Changed, Remote
  <2>4. /\ \A k \in Names : Get(list', k) = IF k = n THEN r ELSE Get(list, k)
        /\ \A k \in Names : HasName(list', k) <=> k = n \/ HasName(list, k)
    BY <1>0, <2>2, <2>3, AddLooksUp, NamesKept DEF HasName
  <2>5. Obeyed
    <3>1. ASSUME NEW y \in tx'.syncs \ tx.syncs
          PROVE  /\ Get(list', y.name).enabled
                 /\ y.auto = AutoInstall(Get(list', y.name).auto, option)
      <4>1. y.name = n /\ y.auto = TRUE /\ r.enabled /\ AutoInstall(r.auto, option)
        BY <1>0, <2>2, <2>3, <3>1, AddSetTxKeeps
      <4>2. Get(list', y.name) = r
        BY <2>4, <4>1
      <4>3. AutoInstall(r.auto, option) \in BOOLEAN
        BY Zenon DEF AutoInstall
      <4> QED BY <4>1, <4>2, <4>3, Zenon
    <3> QED BY <3>1, Zenon DEF Obeyed
  <2>6. ASSUME NEW k \in DOMAIN syncList'
        PROVE  \/ k \in DOMAIN syncList /\ syncList'[k] = syncList[k] /\ k # n
               \/ k = n /\ syncList'[k] = r /\ r.enabled
               \/ k = n /\ n \in DOMAIN syncList /\ mods[n].enable = {}
    <3>1. PICK b : b = Base(n)
      OBVIOUS
    <3>2. \A j \in DOMAIN b : /\ j \in DOMAIN syncList /\ b[j] = syncList[j]
                              /\ j = n => mods[n].enable = {}
      BY <3>1 DEF Base, Without
    <3>3. CASE syncList' = b
      BY <2>6, <3>2, <3>3
    <3>4. CASE r.enabled /\ syncList' = Inserted(b, r)
      BY <2>3, <2>6, <3>2, <3>4 DEF Inserted
    <3> QED BY <2>2, <3>1, <3>3, <3>4
  <2>7. n \in DOMAIN syncList /\ mods[n].enable = {} => Overridden(n)
    <3>1. n \in DOMAIN mods /\ (mods[n].enable = {} => mods[n].autoInstall # {})
      BY <1>0 DEF Consistent, ModsOK, TypeOK, SyncTyped
    <3> QED BY <1>0, <3>1 DEF SyncsOK, Overridden
  <2>8. \A k \in DOMAIN syncList : k # n =>
          \/ Overridden(k)
          \/ HasName(list', k) /\ Get(list', k).enabled /\ Get(list', k).auto = syncList[k].auto
    BY <1>0, <2>4 DEF SyncsOK
  <2>9. \A k \in DOMAIN syncList' :
          \/ Overridden(k)
          \/ HasName(list', k) /\ Get(list', k).enabled /\ Get(list', k).auto = syncList'[k].auto
    BY <2>3, <2>4, <2>6, <2>7, <2>8
  <2>10. toggled # {TRUE} => DOMAIN syncList' \intersect todo' = {}
    BY <1>0, <2>6 DEF SyncsOK
  <2>11. \A k : Overridden(k) => Overridden(k)'
    BY <1>0 DEF Overridden
  <2>12. SyncsOK'
    BY <1>0, <2>9, <2>10, <2>11 DEF SyncsOK
  <2> QED BY <2>5, <2>12
<1> QED BY <1>1, <1>2

LEMMA SyncsKept == Consistent /\ SyncsOK /\ Next => SyncsOK' /\ Obeyed
<1> SUFFICES ASSUME Consistent, SyncsOK, Next PROVE SyncsOK' /\ Obeyed
  OBVIOUS
<1>0. /\ TypeOK /\ list \in Lists /\ WellFormed(list) /\ tx \in Transactions
      /\ option \in BOOLEAN /\ DOMAIN syncList \in SUBSET Names
  BY DEF Consistent, TypeOK, ListOK, SyncTyped
<1>1. ASSUME Apply PROVE SyncsOK' /\ Obeyed
  <2>1. PICK s : s = ByName(GetEnabled(list))
    OBVIOUS
  <2>2. \A n \in DOMAIN s : n \in DOMAIN list.map /\ s[n] = Get(list, n) /\ s[n].enabled
    BY <1>0, <2>1, EnabledByName
  <2>3. /\ syncList' = IF toggled = {TRUE} THEN s ELSE [n \in {} |-> {}]
        /\ UNCHANGED <<list, toggled>> /\ pc = "rest"
    BY <1>1, <2>1 DEF Apply, manager, ManagerCommand, Command, NoMods
  <2> QED BY <2>2, <2>3 DEF SyncsOK, Obeyed, HasName
<1>2. ASSUME NEW n \in Names, ApplyUninstall(n) PROVE SyncsOK' /\ Obeyed
  <2>1. /\ syncList' = Without(syncList, n)
        /\ UNCHANGED <<pc, list, mods, toggled, todo>>
    BY <1>2 DEF ApplyUninstall
  <2>2. tx'.syncs = tx.syncs
    BY <1>0, <1>2 DEF ApplyUninstall, Inhibited, Transactions
  <2>3. \A k \in DOMAIN syncList' : k \in DOMAIN syncList /\ syncList'[k] = syncList[k]
    BY <2>1 DEF Without
  <2>4. \A k : Overridden(k) => Overridden(k)'
    BY <2>1 DEF Overridden
  <2>5. SyncsOK'
    BY <2>1, <2>3, <2>4 DEF SyncsOK
  <2> QED BY <2>2, <2>5 DEF Obeyed
<1>3. ASSUME EndApply PROVE SyncsOK' /\ Obeyed
  <2>1. PICK t : t = SyncListed(tx, syncList)
    OBVIOUS
  <2>2. /\ t \in Transactions
        /\ \A y \in t.syncs \ tx.syncs :
             y.name \in DOMAIN syncList /\ y.auto = AutoInstall(syncList[y.name].auto, option)
    BY <1>0, <2>1, SyncListedKeeps
  <2>3. CommitConfig(t, list, TRUE) /\ list' = list /\ pc = "apply"
    BY <1>3, <2>1 DEF EndApply
  <2>4. tx'.syncs = t.syncs /\ pc' # "apply"
    BY <2>2, <2>3, Committed
  <2>5. ASSUME NEW y \in tx'.syncs \ tx.syncs, ~Overridden(y.name)
        PROVE  /\ Get(list', y.name).enabled
               /\ y.auto = AutoInstall(Get(list', y.name).auto, option)
    <3>1. y.name \in DOMAIN syncList /\ y.auto = AutoInstall(syncList[y.name].auto, option)
      BY <2>2, <2>4, <2>5
    <3>2. Get(list, y.name).enabled /\ Get(list, y.name).auto = syncList[y.name].auto
      BY <2>3, <2>5, <3>1 DEF SyncsOK
    <3> QED BY <2>3, <3>1, <3>2, Zenon
  <2> QED BY <2>4, <2>5, Zenon DEF SyncsOK, Obeyed
<1>4. ASSUME pc # "apply", pc' # "apply" PROVE SyncsOK' /\ Obeyed
  BY <1>4 DEF SyncsOK, Obeyed
<1>5. ASSUME NEW n \in Names, ApplyMods(n) PROVE SyncsOK' /\ Obeyed
  BY <1>5, ApplyModsObeys
<1> QED BY <1>1, <1>2, <1>3, <1>4, <1>5, ApplySteps

\* What Apply synchronizes is enabled and will install what the settings it leaves say, with
\* any number of pending changes applied in any order and repositories uninstalled with them:
\* the exception is a remote whose option was changed together with the global one
\* (manager.cpp:601-655).
THEOREM SyncsAlwaysObey == Spec => SyncsObeySettings
<1>1. Init => SyncsOK
  BY DEF Init, SyncsOK
<1>2. Consistent /\ SyncsOK /\ [Next]_vars => SyncsOK'
  <2>1. SyncsOK /\ UNCHANGED vars => SyncsOK'
    BY DEF SyncsOK, Overridden, vars, manager, applying
  <2> QED BY <2>1, SyncsKept
<1>3. Consistent /\ SyncsOK /\ [Next]_vars => [Obeyed]_vars
  BY SyncsKept
<1>4. Spec => []Consistent
  BY AlwaysConsistent
<1>5. Spec => [][Obeyed]_vars
  BY <1>1, <1>2, <1>3, <1>4, PTL DEF Spec
<1>6. [][Obeyed]_vars => SyncsObeySettings
  <2>1. [Obeyed]_vars => [pc = "apply" =>
       \A t \in tx'.syncs \ tx.syncs :
         \/ Overridden(t.name)
         \/ LET r == Get(list', t.name)
            IN r.enabled /\ t.auto = AutoInstall(r.auto, option)]_vars
    BY Zenon DEF Obeyed
  <2> QED BY <2>1, PTL DEF SyncsObeySettings
<1> QED BY <1>5, <1>6, PTL

-----------------------------------------------------------------------------
(* What is pending is counted *)

\* The counter of changes, a size_t, has room for one of each kind by name.
EnoughRoom == IsFiniteSet(Names) /\ 2 * Cardinality(Names) + 1 < SizeMax

\* How many there are to count.
LEMMA PendingCount ==
  ASSUME TypeOK, CountOK, EnoughRoom,
         NEW M, NEW U, NEW T, M = Cardinality(DOMAIN mods),
         U = Cardinality(uninstall), T = Cardinality(toggled \ {option})
  PROVE  /\ M \in Nat /\ U \in Nat /\ T \in Nat
         /\ M + U + T < SizeMax
         /\ T = IF toggled = {} \/ toggled = {option} THEN 0 ELSE 1
<1>1. /\ Cardinality(Names) \in Nat
      /\ M \in Nat /\ M <= Cardinality(Names)
      /\ U \in Nat /\ U <= Cardinality(Names)
  <2>1. DOMAIN mods \in SUBSET Names /\ uninstall \in SUBSET Names
    BY DEF TypeOK, ManagerTyped
  <2> QED BY <2>1, FS_Subset, FS_CardinalityType DEF EnoughRoom
<1>2. T = IF toggled = {} \/ toggled = {option} THEN 0 ELSE 1
  <2>1. option \in BOOLEAN /\ toggled \in {{}, {TRUE}, {FALSE}}
    BY DEF TypeOK, CountOK
  <2>2. CASE toggled = {} \/ toggled = {option}
    <3>1. toggled \ {option} = {}
      BY <2>2
    <3> QED BY <2>2, <3>1, FS_EmptySet
  <2>3. CASE ~(toggled = {} \/ toggled = {option})
    <3>1. PICK v : toggled = {v} /\ v # option
      BY <2>1, <2>3
    <3>2. toggled \ {option} = {v}
      BY <3>1
    <3> QED BY <2>3, <3>2, FS_Singleton
  <2> QED BY <2>2, <2>3
<1>3. SizeMax \in Nat
  BY SettingsAssumption
<1> QED BY <1>1, <1>2, <1>3 DEF EnoughRoom

\* Within its room the counter does not wrap around.
LEMMA ChangeAdds ==
  ASSUME TypeOK, NEW i \in Int, 0 <= changes + i, changes + i < SizeMax
  PROVE  Change(i) = changes + i
<1>1. changes \in Nat /\ SizeMax \in Nat \ {0}
  BY SettingsAssumption DEF TypeOK, ManagerTyped
<1>2. (changes + i) % SizeMax = changes + i
  BY <1>1
<1> QED BY <1>1, <1>2 DEF Change

\* Marking or unmarking a row counts once.
LEMMA SetModsCounts ==
  ASSUME Consistent, CountOK, EnoughRoom, NEW n \in DOMAIN list.map, NEW m,
         NEW e \in SUBSET BOOLEAN, NEW a \in SUBSET Autos,
         m = [ModsOf(n) EXCEPT !.enable = e] \/ m = [ModsOf(n) EXCEPT !.autoInstall = a],
         SetMods(n, m), UNCHANGED <<pc, option, rows, uninstall, toggled, drifted>>,
         pc # "apply"
  PROVE  CountOK'
<1>0. TypeOK /\ ListOK /\ ModsOK /\ IsFiniteSet(DOMAIN mods)
      /\ DOMAIN list.map \in SUBSET Names
  BY DEF Consistent, TypeOK, ManagerTyped, Lists
<1>1. CASE drifted
  BY <1>1 DEF CountOK
<1>2. CASE ~drifted
  <2> DEFINE M == Cardinality(DOMAIN mods)
             U == Cardinality(uninstall)
             T == Cardinality(toggled \ {option})
  <2>1. /\ M \in Nat /\ U \in Nat /\ T \in Nat /\ M + U + T < SizeMax /\ T <= 1
        /\ changes = M + U + T
    <3>1. /\ M \in Nat /\ U \in Nat /\ T \in Nat /\ M + U + T < SizeMax
          /\ T = IF toggled = {} \/ toggled = {option} THEN 0 ELSE 1
      BY <1>0, PendingCount
    <3>2. changes = M + U + T
      BY <1>2 DEF CountOK
    <3> HIDE DEF M, U, T
    <3> QED BY <3>1, <3>2
  <2>2. DOMAIN mods' = IF m.enable = {} /\ m.autoInstall = {}
                       THEN DOMAIN mods \ {n} ELSE DOMAIN mods \union {n}
    BY <1>0, SetModsKeeps
  <2>3. CASE m.enable = {} /\ m.autoInstall = {} /\ n \in DOMAIN mods
    <3>1. Cardinality(DOMAIN mods') = M - 1 /\ M - 1 \in Nat
      <4>1. DOMAIN mods' = DOMAIN mods \ {n} /\ n \in DOMAIN mods
        BY <2>2, <2>3
      <4>2. IsFiniteSet(DOMAIN mods \ {n}) /\ Cardinality(DOMAIN mods \ {n}) = M - 1
        BY <1>0, <2>3, FS_RemoveElement
      <4>3. Cardinality(DOMAIN mods \ {n}) \in Nat
        BY <4>2, FS_CardinalityType
      <4> QED BY <4>1, <4>2, <4>3
    <3>2. changes' = Change(-1)
      BY <2>3 DEF SetMods
    <3>3. 0 <= changes + (-1) /\ changes + (-1) < SizeMax
      BY <2>1, <3>1, SettingsAssumption
    <3>4. changes' = changes + (-1)
      BY <1>0, <3>2, <3>3, ChangeAdds
    <3>5. changes' = Cardinality(DOMAIN mods') + U + T
      BY <2>1, <3>1, <3>4
    <3> QED BY <3>5 DEF CountOK
  <2>4. CASE ~(m.enable = {} /\ m.autoInstall = {}) /\ n \notin DOMAIN mods
    <3>1. Cardinality(DOMAIN mods') = M + 1
      BY <1>0, <2>2, <2>4, FS_AddElement
    <3>2. changes' = Change(1)
      BY <2>4 DEF SetMods
    <3>3. changes + 1 < SizeMax
      <4>1. Cardinality(DOMAIN mods') <= Cardinality(Names) /\ U <= Cardinality(Names)
            /\ Cardinality(Names) \in Nat
        <5>1. DOMAIN mods' \in SUBSET Names /\ uninstall \in SUBSET Names
          BY <1>0, <2>2 DEF TypeOK, ManagerTyped
        <5> QED BY <5>1, FS_Subset, FS_CardinalityType DEF EnoughRoom
      <4> QED BY <2>1, <3>1, <4>1, SettingsAssumption DEF EnoughRoom
    <3>4. changes' = changes + 1
      <4>1. 0 <= changes + 1
        BY <2>1
      <4> QED BY <1>0, <3>2, <3>3, <4>1, ChangeAdds
    <3>5. changes' = Cardinality(DOMAIN mods') + U + T
      BY <2>1, <3>1, <3>4
    <3> QED BY <3>5 DEF CountOK
  <2>5. CASE (m.enable = {} /\ m.autoInstall = {}) <=> n \notin DOMAIN mods
    <3>1. DOMAIN mods' = DOMAIN mods /\ changes' = changes
      BY <2>2, <2>5 DEF SetMods
    <3> QED BY <3>1 DEF CountOK
  <2> QED BY <2>3, <2>4, <2>5
<1> QED BY <1>1, <1>2

LEMMA CountKept == Consistent /\ CountOK /\ EnoughRoom /\ Next => CountOK'
<1> SUFFICES ASSUME Consistent, CountOK, EnoughRoom, Next PROVE CountOK'
  OBVIOUS
<1>0. TypeOK /\ ListOK /\ ModsOK /\ ManagerTyped /\ option \in BOOLEAN
  BY DEF Consistent, TypeOK, ManagerTyped
<1>1. ASSUME pc # "apply", UNCHANGED <<option, mods, uninstall, toggled, changes, drifted>>,
             rows' = rows \/ \E l : rows' = Shown(l)
      PROVE  CountOK'
  BY <1>1 DEF CountOK, Shown
<1>2. ASSUME NEW n \in Names, ToggleEnabled(n) PROVE CountOK'
  <2>1. n \in DOMAIN list.map /\ pc # "apply"
    BY <1>2, RowsAtRest DEF ToggleEnabled, ManagerCommand, Command
  <2>2. Get(list, n).enabled \in BOOLEAN
    BY <1>0, <2>1, ListOperations DEF Remote
  <2>3. PICK e : e = {~isRemoteEnabled(n)} \ {Get(list, n).enabled}
    OBVIOUS
  <2>4. ModsOf(n).enable \in SUBSET BOOLEAN
    BY <1>0, <2>2 DEF ManagerTyped, ModsOf, Changed
  <2>5. e \in SUBSET BOOLEAN
    BY <2>2, <2>3, <2>4 DEF isRemoteEnabled, ValueOr
  <2>6. PICK m : m = [ModsOf(n) EXCEPT !.enable = e]
    OBVIOUS
  <2>7. SetMods(n, m) /\ UNCHANGED <<pc, option, rows, uninstall, toggled, drifted>>
    BY <1>2, <2>3, <2>6 DEF ToggleEnabled, history
  <2> QED BY <2>1, <2>5, <2>6, <2>7, SetModsCounts
<1>3. ASSUME NEW n \in Names, NEW auto \in Autos, SetRemoteAutoInstall(n, auto) PROVE CountOK'
  <2>1. n \in DOMAIN list.map /\ pc # "apply"
    BY <1>3, RowsAtRest DEF SetRemoteAutoInstall, ManagerCommand, Command
  <2>2. PICK a \in SUBSET Autos : a = {auto} \ {Get(list, n).auto}
    OBVIOUS
  <2>3. PICK m : m = [ModsOf(n) EXCEPT !.autoInstall = a]
    OBVIOUS
  <2>4. SetMods(n, m) /\ UNCHANGED <<pc, option, rows, uninstall, toggled, drifted>>
    BY <1>3, <2>2, <2>3 DEF SetRemoteAutoInstall, history
  <2> QED BY <2>1, <2>3, <2>4, SetModsCounts
<1>4. PICK M, U, T : /\ M = Cardinality(DOMAIN mods) /\ U = Cardinality(uninstall)
                     /\ T = Cardinality(toggled \ {option})
  OBVIOUS
<1>5. /\ M \in Nat /\ U \in Nat /\ T \in Nat /\ M + U + T < SizeMax /\ SizeMax \in Nat
      /\ T = IF toggled = {} \/ toggled = {option} THEN 0 ELSE 1
  BY <1>0, <1>4, PendingCount, SettingsAssumption
<1>6. pc # "apply" /\ ~drifted => changes = M + U + T
  BY <1>4 DEF CountOK
<1>7. changes \in Nat
  BY <1>0 DEF ManagerTyped
<1>8. ASSUME NEW n \in Names, Uninstall(n) PROVE CountOK'
  <2>1. /\ uninstall' = uninstall \union {n} /\ rows' = rows \ {n} /\ n \in rows
        /\ changes' = Change(1) /\ UNCHANGED <<pc, option, mods, toggled, drifted>> /\ pc # "apply"
    BY <1>8 DEF Uninstall, history, ManagerCommand, Command
  <2>2. n \notin uninstall
    BY <2>1 DEF CountOK
  <2>3. Cardinality(uninstall') = U + 1
    BY <1>0, <1>4, <2>1, <2>2, FS_AddElement DEF ManagerTyped
  <2>4. ASSUME ~drifted PROVE changes' = M + Cardinality(uninstall') + T
    <3>1. U + 1 <= Cardinality(Names) /\ M <= Cardinality(Names) /\ Cardinality(Names) \in Nat
      <4>1. uninstall' \in SUBSET Names /\ DOMAIN mods \in SUBSET Names
        BY <1>0, <2>1 DEF ManagerTyped
      <4> QED BY <1>4, <2>3, <4>1, FS_Subset, FS_CardinalityType DEF EnoughRoom
    <3>2. changes + 1 < SizeMax /\ 0 <= changes + 1
      BY <1>5, <1>6, <1>7, <2>1, <2>4, <3>1 DEF EnoughRoom
    <3>3. changes' = changes + 1
      BY <1>0, <2>1, <3>2, ChangeAdds
    <3> QED BY <1>5, <1>6, <2>1, <2>3, <2>4, <3>3
  <2>5. uninstall' \intersect rows' = {} /\ toggled' \in {{}, {TRUE}, {FALSE}}
    BY <2>1 DEF CountOK
  <2>6. /\ Cardinality(DOMAIN mods') = M /\ Cardinality(toggled' \ {option'}) = T
        /\ drifted' = drifted
    BY <1>4, <2>1
  <2> QED BY <2>4, <2>5, <2>6 DEF CountOK
<1>9. ASSUME ToggleOption PROVE CountOK'
  <2>1. PICK setting : /\ setting = ~ValueOr(toggled, option)
                       /\ toggled' = {setting}
                       /\ changes' = Change(IF setting = option THEN -1 ELSE 1)
    BY <1>9 DEF ToggleOption
  <2>2. /\ UNCHANGED <<pc, option, mods, uninstall, rows, drifted>> /\ pc # "apply"
    BY <1>9 DEF ToggleOption, history, ManagerCommand, Command
  <2>3. setting \in BOOLEAN /\ (setting = option <=> T = 1)
    <3>1. CASE toggled = {}
      <4>1. setting = ~option
        BY <2>1, <3>1 DEF ValueOr
      <4> QED BY <1>0, <1>5, <3>1, <4>1
    <3>2. ASSUME NEW v \in BOOLEAN, toggled = {v}
          PROVE  setting \in BOOLEAN /\ (setting = option <=> T = 1)
      <4>1. setting = ~v
        BY <2>1, <3>2 DEF ValueOr
      <4>2. T = IF v = option THEN 0 ELSE 1
        BY <1>5, <3>2
      <4> QED BY <1>0, <4>1, <4>2
    <3> QED BY <3>1, <3>2 DEF CountOK
  <2>4. Cardinality(toggled' \ {option}) = 1 - T
    <3>1. CASE setting = option
      <4>1. toggled' \ {option} = {}
        BY <2>1, <3>1
      <4> QED BY <2>3, <3>1, <4>1, FS_EmptySet
    <3>2. CASE setting # option
      <4>1. toggled' \ {option} = {setting} /\ T = 0
        BY <1>5, <2>1, <2>3, <3>2
      <4> QED BY <4>1, FS_Singleton
    <3> QED BY <3>1, <3>2
  <2>5. ASSUME ~drifted PROVE changes' = M + U + (1 - T)
    <3>1. changes = M + U + T
      BY <1>6, <2>2, <2>5
    <3>2. CASE setting = option
      <4>1. 0 <= changes + (-1) /\ changes + (-1) < SizeMax
        BY <1>5, <2>3, <3>1, <3>2
      <4>2. changes' = changes + (-1)
        BY <1>0, <2>1, <3>2, <4>1, ChangeAdds
      <4> QED BY <1>5, <2>3, <3>1, <3>2, <4>2
    <3>3. CASE setting # option
      <4>1. M <= Cardinality(Names) /\ U <= Cardinality(Names) /\ Cardinality(Names) \in Nat
        <5>1. uninstall \in SUBSET Names /\ DOMAIN mods \in SUBSET Names
          BY <1>0 DEF ManagerTyped
        <5> QED BY <1>4, <5>1, FS_Subset, FS_CardinalityType DEF EnoughRoom
      <4>2. T = 0
        BY <1>5, <2>3, <3>3
      <4>3. 0 <= changes + 1 /\ changes + 1 < SizeMax
        BY <1>5, <3>1, <4>1, <4>2 DEF EnoughRoom
      <4>4. changes' = changes + 1
        BY <1>0, <2>1, <3>3, <4>3, ChangeAdds
      <4> QED BY <1>5, <3>1, <4>2, <4>4
    <3> QED BY <3>2, <3>3
  <2>6. uninstall' \intersect rows' = {} /\ toggled' \in {{}, {TRUE}, {FALSE}}
    BY <2>1, <2>2, <2>3 DEF CountOK
  <2>7. /\ Cardinality(DOMAIN mods') = M /\ Cardinality(uninstall') = U
        /\ option' = option /\ drifted' = drifted
    BY <1>4, <2>2
  <2> QED BY <2>4, <2>5, <2>6, <2>7 DEF CountOK
<1>10. ASSUME Refuse PROVE CountOK'
  <2>1. /\ changes' = Change(-U) /\ uninstall' = {} /\ UNCHANGED <<option, mods, toggled, drifted>>
        /\ pc # "apply"
    BY <1>4, <1>10 DEF Refuse, history, ManagerCommand, Command
  <2>2. ASSUME ~drifted PROVE changes' = M + 0 + T
    <3>1. 0 <= changes + (-U) /\ changes + (-U) < SizeMax /\ -U \in Int
      BY <1>5, <1>6, <2>1, <2>2
    <3>2. changes' = changes + (-U)
      BY <1>0, <2>1, <3>1, ChangeAdds
    <3> QED BY <1>5, <1>6, <2>1, <2>2, <3>2
  <2>3. /\ Cardinality(DOMAIN mods') = M /\ Cardinality(toggled' \ {option'}) = T
        /\ Cardinality(uninstall') = 0
    BY <1>4, <2>1, FS_EmptySet
  <2>4. uninstall' \intersect rows' = {} /\ toggled' \in {{}, {TRUE}, {FALSE}} /\ drifted' = drifted
    BY <2>1 DEF CountOK
  <2> QED BY <2>2, <2>3, <2>4 DEF CountOK
<1>11. ASSUME ResetManager PROVE CountOK'
  <2>1. mods' = [n \in {} |-> {}] /\ uninstall' = {} /\ toggled' = {} /\ changes' = 0
    BY <1>11 DEF ResetManager, NoMods
  <2>2. DOMAIN mods' = {} /\ toggled' \ {option'} = {}
    BY <2>1
  <2>3. Cardinality(DOMAIN mods') = 0 /\ Cardinality(uninstall') = 0
        /\ Cardinality(toggled' \ {option'}) = 0
    BY <2>1, <2>2, FS_EmptySet
  <2> QED BY <2>1, <2>3 DEF CountOK
<1>12. ASSUME ResetConfig PROVE CountOK'
  <2>1. /\ UNCHANGED <<rows, mods, uninstall, toggled, changes>> /\ pc # "apply"
        /\ drifted' = (drifted \/ toggled # {})
    BY <1>12 DEF ResetConfig, manager, ManagerCommand, Command
  <2>2. CASE toggled = {}
    <3>1. toggled' \ {option'} = toggled \ {option} /\ (~drifted' => ~drifted)
      BY <2>1, <2>2
    <3> QED BY <2>1, <3>1 DEF CountOK
  <2>3. CASE toggled # {}
    BY <2>1, <2>3 DEF CountOK
  <2> QED BY <2>2, <2>3
<1>13. ASSUME Apply \/ \E n \in Names : ApplyMods(n) PROVE CountOK'
  <2>1. pc' = "apply" /\ UNCHANGED <<rows, uninstall, toggled>>
    BY <1>13 DEF Apply, ApplyMods, manager
  <2> QED BY <2>1 DEF CountOK
<1>14. ASSUME NEW n \in Names, ApplyUninstall(n) PROVE CountOK'
  <2>1. pc' = "apply" /\ uninstall' = uninstall \ {n} /\ UNCHANGED <<rows, toggled>>
    BY <1>14 DEF ApplyUninstall
  <2> QED BY <2>1 DEF CountOK
<1>15. ASSUME EndApply \/ Reopen PROVE ResetManager
  BY <1>15 DEF EndApply, Reopen
<1>16. ASSUME NEW n \in Names, NEW all \in BOOLEAN, NEW remember \in BOOLEAN,
              AboutInstall(n, all, remember)
       PROVE  CountOK'
  <2>1. rows' = rows \/ rows' = Shown(list')
    BY <1>16 DEF AboutInstall, CommitConfig
  <2> QED BY <1>1, <1>16, <2>1 DEF AboutInstall, Command
<1>17. ASSUME EndImport \/ \E refresh \in BOOLEAN : ProcessQueue(refresh) PROVE CountOK'
  <2>1. rows' = rows \/ rows' = Shown(list)
    BY <1>17 DEF EndImport, ProcessQueue, CommitConfig
  <2>2. pc # "apply" /\ UNCHANGED <<option, mods, uninstall, toggled, changes, drifted>>
    BY <1>17 DEF EndImport, ProcessQueue, Command
  <2> QED BY <1>1, <2>1, <2>2
<1>18. ASSUME \/ RestoreDefault \/ EndReset \/ EndSyncs \/ Cancel \/ Finish \/ Teardown
              \/ SynchronizeAll \/ RefreshIndex
       PROVE  CountOK'
  BY <1>1, <1>18 DEF RestoreDefault, EndReset, EndSyncs, Cancel, Finish, Teardown,
              SynchronizeAll, RefreshIndex, Command, manager, history
<1>19. ASSUME RemoveRemote \/ RefreshManager \/ WriteConfig PROVE CountOK'
  BY <1>1, <1>19 DEF RemoveRemote, RefreshManager, WriteConfig, Handler
<1>20. ASSUME NEW i \in DOMAIN import.urls,
              DownloadAborted(i) \/ DownloadFailed(i) \/ DownloadRead(i)
       PROVE  CountOK'
  BY <1>1, <1>20 DEF DownloadAborted, DownloadFailed, DownloadRead, Ended, manager, history
<1>21. ASSUME \/ CloseImport \/ CancelImport \/ ImportNext
              \/ \E urls \in Inputs : Fetch(urls)
              \/ \E r \in ScriptInputs : AddSet(r)
       PROVE  CountOK'
  BY <1>1, <1>21 DEF CloseImport, CancelImport, ImportNext, Fetch, AddSet, Command, manager, history
<1> QED BY <1>2, <1>3, <1>8, <1>9, <1>10, <1>11, <1>12, <1>13, <1>14, <1>15, <1>16, <1>17, <1>18,
           <1>19, <1>20, <1>21 DEF Next

\* The Apply button tells whether something is pending, whatever the user marks, unmarks, takes
\* back or refuses: m_changes is the number of remotes with a change, of those to uninstall
\* and of the global option (manager.cpp:186-194, 323-352, 415-452).  The counter is assumed
\* to have room for one change of each kind per name.
THEOREM ChangesAlwaysCounted == EnoughRoom => (Spec => []ChangesAreCounted)
<1> SUFFICES ASSUME EnoughRoom PROVE Spec => []ChangesAreCounted
  OBVIOUS
<1>1. Init => CountOK
  <2> SUFFICES ASSUME Init PROVE CountOK
    OBVIOUS
  <2>1. mods = [n \in {} |-> {}] /\ uninstall = {} /\ toggled = {} /\ changes = 0
    BY DEF Init, NoMods
  <2>2. DOMAIN mods = {} /\ toggled \ {option} = {}
    BY <2>1
  <2>3. Cardinality(DOMAIN mods) = 0 /\ Cardinality(uninstall) = 0
        /\ Cardinality(toggled \ {option}) = 0
    BY <2>1, <2>2, FS_EmptySet
  <2> QED BY <2>1, <2>3 DEF CountOK
<1>2. Consistent /\ CountOK /\ [Next]_vars => CountOK'
  <2>1. ASSUME CountOK, UNCHANGED vars PROVE CountOK'
    <3>1. UNCHANGED <<pc, rows, option, mods, uninstall, toggled, changes, drifted>>
      BY <2>1 DEF vars, manager, history
    <3>2. DOMAIN mods' = DOMAIN mods /\ toggled' \ {option'} = toggled \ {option}
      BY <3>1
    <3> QED BY <2>1, <3>1, <3>2 DEF CountOK
  <2> QED BY <2>1, CountKept
<1>3. Consistent /\ CountOK => ChangesAreCounted
  BY DEF CountOK, ChangesAreCounted
<1>4. Spec => []Consistent
  BY AlwaysConsistent
<1> QED BY <1>1, <1>2, <1>3, <1>4, PTL DEF Spec

-----------------------------------------------------------------------------
(* What is in the file *)

\* The bound on the slots of the file leaves one for each name.
EnoughSlots == IsFiniteSet(Names) /\ Cardinality(Names) <= MaxSlots

\* A list has no more remotes than there are names.
LEMMA ListFits ==
  ASSUME NEW l \in Lists, WellFormed(l), EnoughSlots
  PROVE  Len(l.remotes) \in Nat /\ Len(l.remotes) <= MaxSlots
<1> DEFINE n == Len(l.remotes)
           f == [i \in 1..n |-> l.remotes[i].name]
<1>1. l.remotes \in Seq(Remote) /\ n \in Nat /\ DOMAIN l.remotes = 1..n
  BY DEF Lists
<1>2. f \in [1..n -> Names]
  <2>1. \A i \in 1..n : l.remotes[i] \in Remote
    BY <1>1
  <2> QED BY <2>1 DEF Remote
<1>3. \A i, j \in 1..n : f[i] = f[j] => i = j
  <2>1. \A i \in 1..n : f[i] = l.remotes[i].name /\ l.map[l.remotes[i].name] = i
    BY <1>1 DEF WellFormed
  <2> QED BY <2>1
<1>4. IsFiniteSet(1..n) /\ Cardinality(1..n) = n
  BY <1>1, FS_Interval
<1>5. Cardinality(Names) \in Nat /\ MaxSlots \in Nat
  BY FS_CardinalityType, SettingsAssumption DEF EnoughSlots
<1> HIDE DEF f, n
<1>6. ASSUME Cardinality(Names) < Cardinality(1..n) PROVE FALSE
  <2>1. \E i, j \in 1..n : i # j /\ f[i] = f[j]
    BY <1>2, <1>4, <1>6, FS_PigeonHole DEF EnoughSlots
  <2> QED BY <1>3, <2>1
<1>7. n <= MaxSlots
  BY <1>1, <1>4, <1>5, <1>6 DEF EnoughSlots
<1> QED BY <1>1, <1>7 DEF n

\* After a write the file holds the list and nothing after it.
LEMMA Written ==
  ASSUME TypeOK, FileOK, EnoughSlots, NEW l \in Lists, WellFormed(l), Write(l, option)
  PROVE  /\ ini'.size = Len(l.remotes) /\ ini'.size <= MaxSlots
         /\ \A k \in 1..ini'.size : ini'.slots[k] = l.remotes[k]
         /\ \A k \in (ini'.size + 1)..MaxSlots : ini'.slots[k] = NoRemote
         /\ ini'.option = option
         /\ unsaved' = FALSE
<1>1. Len(l.remotes) \in Nat /\ Len(l.remotes) <= MaxSlots /\ MaxSlots \in Nat
      /\ ini.size \in Nat
  BY ListFits, SettingsAssumption DEF TypeOK, Files
<1>2. ini' = Saved(l, option) /\ unsaved' = FALSE
  BY DEF Write
<1>3. PICK s : s = [k \in 1..MaxSlots |-> IF k <= Len(l.remotes) THEN l.remotes[k]
                                          ELSE IF k \in Erased(l) THEN NoRemote
                                          ELSE ini.slots[k]]
  OBVIOUS
<1>4. ini' = [slots |-> s, size |-> Len(l.remotes), option |-> option]
  BY <1>2, <1>3 DEF Saved
<1>5. \A k \in 1..Len(l.remotes) : s[k] = l.remotes[k]
  BY <1>1, <1>3
<1>6. ASSUME NEW k \in (Len(l.remotes) + 1)..MaxSlots PROVE s[k] = NoRemote
  <2>1. k \in 1..MaxSlots /\ ~(k <= Len(l.remotes))
    BY <1>1
  <2>2. k \notin Erased(l) => k \in (ini.size + 1)..MaxSlots
    BY <1>1 DEF Erased
  <2> QED BY <1>3, <2>1, <2>2 DEF FileOK
<1> QED BY <1>1, <1>2, <1>4, <1>5, <1>6

LEMMA FileSettled == Consistent /\ FileOK /\ EnoughSlots /\ Next => FileOK'
<1> SUFFICES ASSUME Consistent, FileOK, EnoughSlots, Next PROVE FileOK'
  OBVIOUS
<1>0. /\ TypeOK /\ HandlersOK /\ tx \in Transactions /\ tx.finish \in Seq(Handlers)
      /\ list \in Lists /\ WellFormed(list) /\ list' \in Lists /\ WellFormed(list')
  <2>1. list' \in Lists /\ ListOK'
    BY ListKept
  <2>2. WellFormed(list')
    BY <2>1 DEF ListOK
  <2> QED BY <2>1, <2>2 DEF Consistent, TypeOK, ListOK, Transactions
<1>1. ASSUME UNCHANGED ini, pc' # "reset" \/ unsaved',
             \/ unsaved' \/ Pending(tx'.finish, "write") \/ pc' = "apply"
             \/ pc' = "import" /\ import'.done # {}
      PROVE  FileOK'
  BY <1>1 DEF FileOK
<1>2. ASSUME UNCHANGED <<ini, list, option, unsaved>>, Pending(tx.finish, "write") =>
               Pending(tx'.finish, "write"),
             pc # "apply", pc' = pc \/ pc' # "reset", pc # "import" \/ import.done = {}
      PROVE  FileOK'
  BY <1>2 DEF FileOK, FileHolds
<1>3. ASSUME Write(list', option), option' = option, pc' # "reset" PROVE FileOK'
  <2>1. PICK l : l = list'
    OBVIOUS
  <2>2. l \in Lists /\ WellFormed(l) /\ Write(l, option)
    BY <1>0, <1>3, <2>1
  <2>3. /\ ini'.size = Len(l.remotes) /\ ini'.size <= MaxSlots
        /\ \A k \in 1..ini'.size : ini'.slots[k] = l.remotes[k]
        /\ \A k \in (ini'.size + 1)..MaxSlots : ini'.slots[k] = NoRemote
        /\ ini'.option = option
    BY <1>0, <2>2, Written
  <2> QED BY <1>3, <2>1, <2>3 DEF FileOK, FileHolds
<1>4. ASSUME NEW t \in Transactions, NEW l, l = list', NEW refresh \in BOOLEAN,
             CommitConfig(t, l, refresh), option' = option
      PROVE  FileOK'
  <2>1. pc' # "reset"
    BY <1>4, Committed
  <2>2. CASE t.open
    <3>1. Pending(tx'.finish, "write") /\ UNCHANGED ini
      BY <1>4, <2>2, Committed
    <3> QED BY <1>1, <2>1, <3>1
  <2>3. CASE ~t.open
    <3>1. Write(list', option)
      BY <1>4, <2>3, Committed
    <3> QED BY <1>3, <1>4, <2>1, <3>1
  <2> QED BY <2>2, <2>3
<1>5. ASSUME EndApply PROVE FileOK'
  <2>1. PICK t : t = SyncListed(tx, syncList)
    OBVIOUS
  <2>2. t \in Transactions
    BY <1>0, <2>1, SyncListedKeeps DEF TypeOK, SyncTyped
  <2>3. CommitConfig(t, list, TRUE) /\ list' = list /\ option' = option
    BY <1>5, <2>1 DEF EndApply
  <2> QED BY <1>4, <2>2, <2>3
<1>6. ASSUME NEW n \in Names, NEW all \in BOOLEAN, NEW remember \in BOOLEAN,
             AboutInstall(n, all, remember)
      PROVE  FileOK'
  <2>1. PICK auto : /\ auto = AutoInstall([Get(list, n) EXCEPT
                                !.auto = IF remember THEN "on" ELSE @].auto, all)
    OBVIOUS
  <2>2. auto \in BOOLEAN
    BY <2>1, Zenon DEF AutoInstall
  <2>3. PICK t : t = Synchronized(SetUp(tx), n, auto)
    OBVIOUS
  <2>4. t \in Transactions
    BY <1>0, <2>2, <2>3, SetUpKeeps, SynchronizedKeeps
  <2>5. CommitConfig(t, list', TRUE) /\ option' = option
    BY <1>6, <2>1, <2>3 DEF AboutInstall
  <2> QED BY <1>4, <2>4, <2>5
<1>7. ASSUME EndImport \/ \E refresh \in BOOLEAN : ProcessQueue(refresh) PROVE FileOK'
  <2>1. CASE EndImport /\ import.done = {}
    BY <1>2, <2>1 DEF EndImport
  <2>2. CASE ~(EndImport /\ import.done = {})
    <3>1. PICK refresh \in BOOLEAN : CommitConfig(tx, list, refresh)
      BY <1>7, <2>2 DEF EndImport, ProcessQueue
    <3>2. list' = list /\ option' = option
      BY <1>7 DEF EndImport, ProcessQueue
    <3> QED BY <1>0, <1>4, <3>1, <3>2
  <2> QED BY <2>1, <2>2
<1>8. ASSUME Handler, ini' = ini, unsaved' = unsaved,
             \/ list' = list /\ Head(tx.finish).call # "write"
             \/ Head(tx.finish).call = "remove"
      PROVE  FileOK'
  <2>1. PICK q, h : q = Tail(tx.finish) /\ h = Head(tx.finish)
    OBVIOUS
  <2>2. /\ tx' = [tx EXCEPT !.finish = q] /\ tx.finish # <<>> /\ pc = "finish" /\ pc' = "finish"
        /\ option' = option
    BY <1>8, <2>1 DEF Handler
  <2>3. Followed(tx.finish)
    BY <1>0, <2>2 DEF HandlersOK
  <2>4. /\ Pending(tx.finish, "write") => h.call = "write" \/ Pending(q, "write")
        /\ h.call = "remove" => Pending(q, "write")
    BY <1>0, <2>1, <2>2, <2>3, RanHandler
  <2>5. tx'.finish = q
    BY <1>0, <2>2 DEF Transactions
  <2> QED BY <1>1, <1>2, <1>8, <2>1, <2>2, <2>4, <2>5
<1>9. ASSUME RemoveRemote \/ RefreshManager PROVE FileOK'
  BY <1>8, <1>9 DEF RemoveRemote, RefreshManager
<1>10. ASSUME WriteConfig PROVE FileOK'
  BY <1>3, <1>10 DEF WriteConfig, Handler
<1>11. ASSUME Teardown PROVE FileOK'
  <2>1. ~Pending(tx.finish, "write")
    BY <1>11 DEF Teardown, Pending
  <2> QED BY <1>2, <1>11, <2>1 DEF Teardown, history
<1>12. ASSUME NEW n \in Names, ApplyMods(n) \/ ApplyUninstall(n) PROVE FileOK'
  BY <1>1, <1>12 DEF ApplyMods, ApplyUninstall
<1>13. ASSUME Apply PROVE FileOK'
  BY <1>1, <1>13 DEF Apply
<1>14. ASSUME ResetConfig \/ \E r \in ScriptInputs : AddSet(r) PROVE FileOK'
  BY <1>1, <1>14 DEF ResetConfig, AddSet
<1>15. ASSUME RestoreDefault PROVE FileOK'
  BY <1>1, <1>15 DEF RestoreDefault, history, FileOK
<1>16. ASSUME ImportNext PROVE FileOK'
  <2>1. PICK d \in import.queue :
          import' = [import EXCEPT !.queue = @ \ {d}, !.done = @ \union {d.index}]
    BY <1>16 DEF ImportNext
  <2>2. import'.done # {}
    BY <1>0, <2>1 DEF TypeOK, Imports
  <2> QED BY <1>1, <1>16, <2>2 DEF ImportNext
<1>17. ASSUME NEW n \in Names,
             \/ ToggleEnabled(n) \/ Uninstall(n)
             \/ \E auto \in Autos : SetRemoteAutoInstall(n, auto)
       PROVE  FileOK'
  BY <1>2, <1>17 DEF ToggleEnabled, Uninstall, SetRemoteAutoInstall, ManagerCommand, Command, history
<1>18. ASSUME ToggleOption \/ Refuse \/ EndReset \/ Reopen \/ Finish PROVE FileOK'
  BY <1>2, <1>18 DEF ToggleOption, Refuse, EndReset, Reopen, Finish, ManagerCommand, Command, history
<1>19. ASSUME EndSyncs \/ Cancel \/ RefreshIndex PROVE FileOK'
  <2>1. PICK u : u = SetUp(tx)
    OBVIOUS
  <2>2. u \in Transactions /\ u.finish = tx.finish
    BY <1>0, <2>1, SetUpKeeps
  <2>3. tx'.finish = tx.finish
    BY <1>0, <1>19, <2>1, <2>2 DEF EndSyncs, Cancel, RefreshIndex, Transactions
  <2> QED BY <1>2, <1>19, <2>3 DEF EndSyncs, Cancel, RefreshIndex, Command, history
<1>20. ASSUME SynchronizeAll PROVE FileOK'
  <2>1. PICK s : s = ByName(GetEnabled(list))
    OBVIOUS
  <2>2. DOMAIN s \in SUBSET Names
    BY <1>0, <2>1, EnabledByName
  <2>3. PICK t : t = SyncListed(SetUp(tx), s)
    OBVIOUS
  <2>4. t \in Transactions /\ t.finish = tx.finish
    BY <1>0, <2>2, <2>3, SetUpKeeps, SyncListedKeeps DEF TypeOK
  <2>5. tx' = [t EXCEPT !.started = TRUE]
    BY <1>20, <2>1, <2>3 DEF SynchronizeAll
  <2>6. tx'.finish = tx.finish
    BY <2>4, <2>5 DEF Transactions
  <2> QED BY <1>2, <1>20, <2>6 DEF SynchronizeAll, Command, history
<1>21. ASSUME NEW i \in DOMAIN import.urls,
              DownloadAborted(i) \/ DownloadFailed(i) \/ DownloadRead(i)
       PROVE  FileOK'
  BY <1>2, <1>21 DEF DownloadAborted, DownloadFailed, DownloadRead, Ended, history
<1>22. ASSUME CloseImport \/ CancelImport \/ \E urls \in Inputs : Fetch(urls) PROVE FileOK'
  BY <1>2, <1>22 DEF CloseImport, CancelImport, Fetch, Command, history
<1> QED BY <1>5, <1>6, <1>7, <1>9, <1>10, <1>11, <1>12, <1>13, <1>14, <1>15, <1>16, <1>17, <1>18,
           <1>19, <1>20, <1>21, <1>22 DEF Next

-----------------------------------------------------------------------------
(* What is read back *)

\* A set of numbers has a least one: the intervals from 0 to its members, ordered by
\* inclusion, have a minimal one.
LEMMA LeastNat ==
  ASSUME NEW S \in SUBSET Nat, S # {}
  PROVE  \E m \in S : \A k \in S : m <= k
<1>1. PICK n \in S : TRUE
  OBVIOUS
<1> DEFINE T == {0..k : k \in {j \in S : j <= n}}
<1>2. IsFiniteSet(0..n)
  BY FS_Interval
<1>3. T # {} /\ T \subseteq FiniteSubsetsOf(0..n)
  <2>1. 0..n \in T
    BY <1>1
  <2>2. ASSUME NEW k \in S, k <= n PROVE 0..k \in FiniteSubsetsOf(0..n)
    <3>1. k \in Nat /\ n \in Nat
      OBVIOUS
    <3>2. IsFiniteSet(0..k) 
      BY <3>1, FS_Interval
    <3>3. 0..k \subseteq 0..n
      BY <3>1, <2>2
    <3> QED BY <3>2, <3>3 DEF FiniteSubsetsOf
  <2> QED BY <2>1, <2>2
<1>4. PICK x \in T : \A y \in T : ~(<<y, x>> \in StrictSubsetOrdering(0..n))
  <2> HIDE DEF T
  <2>1. IsWellFoundedOn(StrictSubsetOrdering(0..n), FiniteSubsetsOf(0..n))
    BY <1>2, FS_StrictSubsetOrderingWellFounded
  <2> QED BY <2>1, <1>3, WFMin
<1>5. PICK m \in S : m <= n /\ x = 0..m
  BY <1>4
<1>6. ASSUME NEW k \in S, k < m PROVE FALSE
  <2>1. k \in Nat /\ m \in Nat /\ n \in Nat
    OBVIOUS
  <2>2. 0..k \in T
    BY <1>5, <1>6, <2>1
  <2>3. 0..k \subseteq 0..n /\ 0..m \subseteq 0..n /\ 0..k \subseteq 0..m
    BY <1>5, <1>6, <2>1
  <2>4. 0..k # 0..m
    <3>1. m \in 0..m /\ m \notin 0..k
      BY <2>1, <1>6
    <3> QED BY <3>1
  <2>5. <<0..k, 0..m>> \in StrictSubsetOrdering(0..n)
    BY <2>3, <2>4 DEF StrictSubsetOrdering
  <2> QED BY <1>4, <1>5, <2>2, <2>5
<1>7. \A k \in S : m <= k
  BY <1>5, <1>6
<1> QED BY <1>5, <1>7

\* Reading the slots that were written from a list gives that list: the same remotes in the
\* same order, found under the same names.
LEMMA ReadsBack ==
  ASSUME NEW l \in Lists, WellFormed(l), NEW file, file.size = Len(l.remotes),
         \A k \in 1..file.size : file.slots[k] = l.remotes[k]
  PROVE  ReadRemotes(file) = l
<1> DEFINE size == Len(l.remotes)
           N(k) == {l.remotes[i].name : i \in 1..k}
           P(k) == [remotes |-> [i \in 1..k |-> l.remotes[i]],
                    map |-> [n \in N(k) |-> l.map[n]]]
           Reads(read) == read = [k \in 0..size |->
             IF k = 0 THEN EmptyList ELSE AddTo(read[k - 1], file.slots[k])]
<1>1. /\ l.remotes \in Seq(Remote) /\ size \in Nat /\ DOMAIN l.remotes = 1..size
      /\ l = [remotes |-> l.remotes, map |-> l.map]
      /\ \A i \in 1..size : /\ l.remotes[i] \in Remote /\ l.remotes[i] # NoRemote
                            /\ l.remotes[i].name \in DOMAIN l.map
                            /\ l.map[l.remotes[i].name] = i
      /\ \A n \in DOMAIN l.map : l.map[n] \in 1..size /\ l.remotes[l.map[n]].name = n
  <2>1. l.remotes \in Seq(Remote) /\ size \in Nat /\ DOMAIN l.remotes = 1..size
        /\ l = [remotes |-> l.remotes, map |-> l.map]
    BY DEF Lists
  <2>2. \A r \in Remote : r # NoRemote
    BY RemoteListAssumption DEF Remote, Autos
  <2>3. \A i \in 1..size : l.remotes[i] \in Remote
    BY <2>1
  <2> QED BY <2>1, <2>2, <2>3 DEF WellFormed
<1>2. P(0) = EmptyList
  <2>1. [i \in 1..0 |-> l.remotes[i]] = <<>>
    OBVIOUS
  <2>2. N(0) = {}
    OBVIOUS
  <2>3. [n \in N(0) |-> l.map[n]] = [n \in {} |-> 0]
    BY <2>2
  <2> QED BY <2>1, <2>3 DEF EmptyList
<1>3. ASSUME NEW k \in 1..size PROVE P(k) = AddTo(P(k - 1), file.slots[k])
  <2>1. PICK r : r = l.remotes[k]
    OBVIOUS
  <2>2. r # NoRemote /\ r.name \notin N(k - 1) /\ N(k) = N(k - 1) \union {r.name}
        /\ l.map[r.name] = k /\ file.slots[k] = r
    <3>1. \A i \in 1..(k - 1) : i \in 1..size /\ i # k
      BY <1>1
    <3>2. \A i \in 1..(k - 1) : l.remotes[i].name # r.name
      BY <1>1, <2>1, <3>1
    <3>3. 1..k = (1..(k - 1)) \union {k}
      BY <1>1
    <3> QED BY <1>1, <2>1, <3>2, <3>3
  <2>3. PICK s, m : s = [i \in 1..(k - 1) |-> l.remotes[i]] /\ m = [n \in N(k - 1) |-> l.map[n]]
    OBVIOUS
  <2>4. s \in Seq(Remote) /\ Len(s) = k - 1
    <3>1. k - 1 \in Nat /\ \A i \in 1..(k - 1) : l.remotes[i] \in Remote
      BY <1>1
    <3> QED BY <2>3, <3>1
  <2>5. Append(s, r) = [i \in 1..k |-> l.remotes[i]]
    <3>1. r \in Remote /\ k \in Nat
      BY <1>1, <2>1
    <3>2. \A i \in 1..k : i \in 1..(k - 1) \/ i = k
      BY <1>1
    <3>3. /\ Append(s, r) \in Seq(Remote) /\ Len(Append(s, r)) = k
          /\ \A i \in 1..(k - 1) : Append(s, r)[i] = s[i]
          /\ Append(s, r)[k] = r
      BY <2>4, <3>1, AppendProperties
    <3>4. DOMAIN Append(s, r) = 1..k /\ \A i \in 1..k : Append(s, r)[i] = l.remotes[i]
      BY <2>1, <2>3, <3>2, <3>3
    <3>5. PICK a : a = Append(s, r)
      OBVIOUS
    <3>6. a \in [1..k -> Remote]
      BY <3>3, <3>5, LenProperties
    <3>7. a = [i \in 1..k |-> l.remotes[i]]
      BY <3>4, <3>5, <3>6
    <3> QED BY <3>5, <3>7
  <2>6. [n \in N(k - 1) \union {r.name} |-> IF n = r.name THEN Len(s) + 1 ELSE m[n]]
          = [n \in N(k) |-> l.map[n]]
    <3> HIDE DEF N
    <3>1. \A n \in N(k) : (IF n = r.name THEN Len(s) + 1 ELSE m[n]) = l.map[n]
      BY <1>1, <2>2, <2>3, <2>4
    <3> QED BY <2>2, <3>1
  <2>7. P(k - 1) = [remotes |-> s, map |-> m]
    BY <2>3
  <2>8. DOMAIN m = N(k - 1)
    BY <2>3
  <2> HIDE DEF N
  <2>9. AddTo(P(k - 1), r) =
          [remotes |-> Append(s, r),
           map |-> [n \in N(k - 1) \union {r.name} |-> IF n = r.name THEN Len(s) + 1 ELSE m[n]]]
    BY <2>2, <2>7, <2>8 DEF AddTo, HasName
  <2> QED BY <2>2, <2>5, <2>6, <2>9
<1>4. P(size) = l
  <2>1. [i \in 1..size |-> l.remotes[i]] = l.remotes
    BY <1>1
  <2>2. N(size) = DOMAIN l.map
    BY <1>1
  <2>3. [n \in DOMAIN l.map |-> l.map[n]] = l.map
    BY DEF Lists
  <2> QED BY <1>1, <2>1, <2>2, <2>3
<1> HIDE DEF P
<1>5. \E read : Reads(read)
  <2>1. PICK W : W = [k \in 0..size |-> P(k)]
    OBVIOUS
  <2>2. ASSUME NEW k \in 0..size
        PROVE  P(k) = IF k = 0 THEN EmptyList ELSE AddTo(W[k - 1], file.slots[k])
    <3>1. CASE k = 0
      BY <1>2, <3>1
    <3>2. CASE k # 0
      <4>1. k \in 1..size /\ k - 1 \in 0..size
        BY <1>1, <3>2
      <4> QED BY <1>3, <2>1, <3>2, <4>1
    <3> QED BY <3>1, <3>2
  <2>3. Reads(W)
    BY <2>1, <2>2
  <2> QED BY <2>3
<1>6. ReadRemotes(file) = (CHOOSE read : Reads(read))[file.size]
  BY DEF ReadRemotes
<1>7. PICK read : read = CHOOSE x : Reads(x)
  OBVIOUS
<1>8. Reads(read)
  BY <1>5, <1>7
<1>9. \A k \in 0..size : read[k] = P(k)
  <2> DEFINE S == {k \in 0..size : read[k] # P(k)}
  <2> SUFFICES ASSUME S # {} PROVE FALSE
    OBVIOUS
  <2>1. S \in SUBSET Nat
    OBVIOUS
  <2>2. PICK k \in S : \A j \in S : k <= j
    <3> HIDE DEF S
    <3> QED BY <2>1, LeastNat
  <2>3. read[k] = IF k = 0 THEN EmptyList ELSE AddTo(read[k - 1], file.slots[k])
    BY <1>8
  <2>4. k # 0
    BY <1>2, <2>3
  <2>5. k - 1 \in 0..size /\ k - 1 \notin S /\ k \in 1..size
    BY <1>1, <2>2, <2>4
  <2>6. read[k - 1] = P(k - 1)
    BY <2>5
  <2> QED BY <1>3, <2>3, <2>4, <2>5, <2>6
<1> QED BY <1>1, <1>4, <1>6, <1>7, <1>9

\* Whenever no transaction is there to do it later and the last call is one that saves, the
\* file is what the user set: reading it gives the same list in the same order, and no slot
\* of a removed repository is left, however many commands, transactions that were cancelled
\* and imports came in between (reapack.cpp:359-376, config.cpp:208-219).
THEOREM SettingsAlwaysSaved == EnoughSlots => (Spec => []SettingsAreSaved)
<1> SUFFICES ASSUME EnoughSlots PROVE Spec => []SettingsAreSaved
  OBVIOUS
<1>1. Init => FileOK
  <2> SUFFICES ASSUME Init PROVE FileOK
    OBVIOUS
  <2>1. list \in Lists /\ WellFormed(list)
    BY TypeInit DEF TypeOK, ListOK
  <2>2. list.remotes = FirstRemotes
    BY DEF Init
  <2>3. Len(FirstRemotes) \in Nat /\ Len(FirstRemotes) <= MaxSlots /\ MaxSlots \in Nat
    BY <2>1, <2>2, ListFits, SettingsAssumption
  <2>4. /\ ini.slots = [k \in 1..MaxSlots |->
                          IF k <= Len(FirstRemotes) THEN FirstRemotes[k] ELSE NoRemote]
        /\ ini.size = Len(FirstRemotes) /\ ini.option = option /\ pc = "rest"
    BY DEF Init
  <2>5. FileHolds
    BY <2>2, <2>3, <2>4 DEF FileHolds
  <2> QED BY <2>3, <2>4, <2>5 DEF FileOK
<1>2. Consistent /\ FileOK /\ [Next]_vars => FileOK'
  <2>1. ASSUME FileOK, UNCHANGED vars PROVE FileOK'
    <3>1. UNCHANGED <<pc, list, option, ini, tx, import, unsaved>>
      BY <2>1 DEF vars, history
    <3>2. (FileHolds <=> FileHolds') /\ (Pending(tx.finish, "write") <=> Pending(tx'.finish, "write"))
      BY <3>1 DEF FileHolds, Pending
    <3> QED BY <2>1, <3>1, <3>2 DEF FileOK
  <2> QED BY <2>1, FileSettled
<1>3. Consistent /\ FileOK => SettingsAreSaved
  <2> SUFFICES ASSUME Consistent, FileOK, pc = "rest", ~tx.open, ~unsaved
               PROVE  /\ ReadRemotes(ini) = list
                      /\ ini.option = option
                      /\ \A k \in (ini.size + 1)..MaxSlots : ini.slots[k] = NoRemote
    BY DEF SettingsAreSaved
  <2>1. tx.finish = <<>>
    BY DEF Consistent, HandlersOK
  <2>2. FileHolds
    BY <2>1 DEF FileOK, Pending
  <2>3. list \in Lists /\ WellFormed(list)
    BY DEF Consistent, TypeOK, ListOK
  <2>4. ReadRemotes(ini) = list
    BY <2>2, <2>3, ReadsBack DEF FileHolds
  <2> QED BY <2>2, <2>4 DEF FileHolds, FileOK
<1>4. Spec => []Consistent
  BY AlwaysConsistent
<1> QED BY <1>1, <1>2, <1>3, <1>4, PTL DEF Spec
=============================================================================
