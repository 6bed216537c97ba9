------------------------------ MODULE MCCatalog ------------------------------
(* Versions 0, 1, 1.0 (the same), 1a, 1.0b and 1.a.1, the word "a" before b, a *)
(* name without number and one that overflows.                              *)
EXTENDS Catalog

n(i) == Number(i)
a == Word(0)
b == Word(1)

MCTexts == {<<n(1)>>, <<n(1), n(0)>>, <<n(1), a>>, <<n(1), n(0), b>>, <<n(1), a, n(1)>>,
            <<n(0)>>, <<a>>, <<n(1), n(3)>>}

MCCategoryNames == {<<>>, <<"..">>, <<"..", "D">>}

\* One package with three versions, or two in one category or in two.
MCLimits == {[category |-> 1, package |-> 1, version |-> 3, source |-> 3],
             [category |-> 2, package |-> 2, version |-> 2, source |-> 2]}

Up == <<"..", "..", "f">>
Source(type, file, main) == [type |-> type, file |-> file, main |-> main]

MCSources ==
  {Source("unknown", <<>>, {}), Source("unknown", <<>>, {"true", "main"}),
   Source("unknown", Up, {"mediaexplorer", "bogus"}), Source("script", Up, {"true"}),
   Source("theme", Up, {"main"}), Source("theme", <<>>, {})}
=============================================================================
