----------------------------- MODULE RemoteList -----------------------------
(***************************************************************************)
(* remote.cpp: the list of repositories, a vector in the order in which     *)
(* they are shown and saved, with a map from names to positions.  It is     *)
(* passed as a record l = [remotes, map], positions counted from 1.         *)
(***************************************************************************)
EXTENDS Naturals, SequencesExt

CONSTANTS Names, Urls, NoRemote

ASSUME RemoteListAssumption == NoRemote \notin [name : Names, url : Urls,
  enabled : BOOLEAN, auto : {"global", "on", "off"}]

\* m_autoInstall: indeterminate, true or false.
Autos == {"global", "on", "off"}

Remote == [name : Names, url : Urls, enabled : BOOLEAN, auto : Autos]

\* Remote::autoInstall(fallback)
AutoInstall(auto, option) == auto = "on" \/ (auto = "global" /\ option)

EmptyList == [remotes |-> <<>>, map |-> [n \in {} |-> 0]]

HasName(l, n) == n \in DOMAIN l.map

Get(l, n) == IF HasName(l, n) THEN l.remotes[l.map[n]] ELSE NoRemote

AddTo(l, r) ==
  IF r = NoRemote
    THEN l
  ELSE IF HasName(l, r.name)
    THEN [l EXCEPT !.remotes[l.map[r.name]] = r]
    ELSE [remotes |-> Append(l.remotes, r),
          map |-> [n \in DOMAIN l.map \union {r.name} |->
                     IF n = r.name THEN Len(l.remotes) + 1 ELSE l.map[n]]]

Shifted(position, erased) == IF position > erased THEN position - 1 ELSE position

RemoveFrom(l, n) ==
  IF HasName(l, n)
    THEN [remotes |-> RemoveAt(l.remotes, l.map[n]),
          map |-> [m \in DOMAIN l.map \ {n} |-> Shifted(l.map[m], l.map[n])]]
    ELSE l

GetEnabled(l) == {r \in ToSet(l.remotes) : r.enabled}

\* The map finds every remote of the vector, and nothing else.
WellFormed(l) ==
  /\ \A n \in DOMAIN l.map :
       l.map[n] \in DOMAIN l.remotes /\ l.remotes[l.map[n]].name = n
  /\ \A i \in DOMAIN l.remotes :
       l.remotes[i].name \in DOMAIN l.map /\ l.map[l.remotes[i].name] = i
=============================================================================
