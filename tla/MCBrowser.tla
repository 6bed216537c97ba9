------------------------------ MODULE MCBrowser ------------------------------
(* Two packages: p1 has a stable version and a pre-release, of which the index *)
(* may lose one and name the other in another way; q1 has one version and may  *)
(* leave the index.                                                            *)
EXTENDS Browser

CONSTANTS p1, q1

n(i) == Number(i)
one == parse(<<n(1)>>)
oneZero == parse(<<n(1), n(0)>>)
beta == parse(<<n(2), Word(0)>>)

Index(vp, vq) == [x \in {p1, q1} |-> IF x = p1 THEN vp ELSE vq]
MCIndexes == {Index(<<one, beta>>, <<one>>), Index(<<oneZero>>, <<>>)}

MCRegistered == {[x \in {p1, q1} |-> IF x = p1 THEN NotInstalled ELSE [version |-> one, flags |-> {}]]}

MCPackages == <<p1, q1>>
=============================================================================
