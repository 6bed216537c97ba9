----------------------------- MODULE MCRegistry -----------------------------
(* Three packages and three paths. An update of p drops a path that q wants; *)
(* q and r want one path too: conflicts come and go as packages are updated  *)
(* and forgotten.                                                            *)
EXTENDS Registry

CONSTANTS p, q, r, a, b, d, c1, c2

Rel(pkg, files, mains) == [pkg |-> pkg, files |-> files, mains |-> mains]

MCReleases == {Rel(p, {a, b}, {a}), Rel(p, {a}, {}), Rel(q, {b, d}, {}),
               Rel(r, {d}, {d})}
=============================================================================
