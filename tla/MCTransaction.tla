---------------------------- MODULE MCTransaction ----------------------------
(* Three packages and three paths. p is installed with {a, b} and r with {d}; *)
(* the update of p gives up b and the package q wants b and d.  So q can be   *)
(* installed only with or after the update of p and the removal of r.         *)
EXTENDS Transaction

CONSTANTS p, q, r, a, b, d

Rel(pkg, version, files, mains) ==
  [pkg |-> pkg, version |-> version, files |-> files, mains |-> mains]

p1 == Rel(p, 1, {a, b}, {a, b})
p2 == Rel(p, 2, {a}, {a})
q1 == Rel(q, 1, {b, d}, {d})
r1 == Rel(r, 1, {d}, {d})

MCReleases == {p1, p2, q1, r1}

MCInitial ==
  [entries |-> [i \in Ids |-> CASE i = 1 -> [release |-> p1, flags |-> 0]
                                [] i = 2 -> [release |-> r1, flags |-> 0]
                                [] OTHER -> NoRow],
   files |-> [x \in Paths |-> CASE x = a -> [entry |-> 1, main |-> TRUE]
                                [] x = b -> [entry |-> 1, main |-> TRUE]
                                [] x = d -> [entry |-> 2, main |-> TRUE]]]

Install(rel, who) == [kind |-> "install", from |-> who, release |-> rel]
Uninstall(pkg, who) == [kind |-> "uninstall", from |-> who, pkg |-> pkg]
Sync(pkgs, index) ==
  [kind |-> "sync", from |-> "user", pkgs |-> pkgs, index |-> index, auto |-> FALSE]

\* The user updates p, removes r and installs q, in any grouping and order.
MCUserRequests ==
  {Install(p2, "user"), Install(q1, "user"), Uninstall(r, "user"), Install(r1, "user")}

\* The repository of p and r is synchronized: p has an update and r is gone.
MCSyncRequests ==
  {Sync({p, r}, {p2}), Install(p2, "sync"), Uninstall(r, "prompt"), Install(q1, "user"),
   [kind |-> "flags", from |-> "user", pkg |-> p, flags |-> 1]}

MCRequests == MCUserRequests \union MCSyncRequests
MCBatches == {MCUserRequests, MCSyncRequests}
=============================================================================
