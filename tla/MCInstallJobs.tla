---------------------------- MODULE MCInstallJobs ----------------------------
(* A package with two sources and one with a single source, two workers: jobs *)
(* of both packages wait behind each other, and events of two jobs, of one    *)
(* package or of both, come in one batch in either order of addresses.        *)
EXTENDS InstallJobs

CONSTANTS a, b, c, t1, t2

MCAddressOf == [j \in Jobs |-> CASE j = a -> 1 [] j = b -> 2 [] j = c -> 3]

MCTaskOf == [j \in Jobs |-> IF j = c THEN t2 ELSE t1]
=============================================================================
