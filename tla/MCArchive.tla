------------------------------ MODULE MCArchive ------------------------------
(* A computer with a package of the same name in both repositories, and others *)
(* where the protected repository has another address, the other one is not    *)
(* configured, its index lacks a version, or an index is missing.              *)
EXTENDS Archive

CONSTANTS self, other, k, older, newer, none, pinned, u1, u2

MCNames == {self, other}
MCUrls == {u1, u2}

R(name, url, enabled) == [name |-> name, url |-> url, enabled |-> enabled, auto |-> "global"]
Good(versions) == [state |-> "good", lists |-> {k} \X versions]
Cache(s, o) == [n \in MCNames |-> IF n = self THEN s ELSE o]
Entry(v, f) == [version |-> v, flags |-> f]
Registry(s, o) == [p \in MCNames \X {k} |-> IF p[1] = self THEN s ELSE o]

MCComputers == {
  [remotes |-> <<R(self, u1, TRUE), R(other, u1, TRUE)>>,
   cache |-> Cache(Good({older, newer}), Good({older, newer})),
   registry |-> Registry(Entry(older, none), Entry(newer, pinned))],
  [remotes |-> <<R(self, u2, TRUE)>>, cache |-> Cache(Good({newer}), NoIndex),
   registry |-> Registry(NotInstalled, NotInstalled)],
  [remotes |-> <<R(other, u2, FALSE), R(self, u2, TRUE)>>, cache |-> Cache(NoIndex, Good({newer})),
   registry |-> Registry(Entry(newer, none), Entry(older, none))]}
=============================================================================
