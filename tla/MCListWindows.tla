---------------------------- MODULE MCListWindows ----------------------------
(* Repository "x" was loaded twice; its categories are not in the order of their *)
(* names, and the first version of package 5 is the only one without file 1.      *)
EXTENDS Windows

MCColumns == 1..2
MCFilters == 0..2
MCMatches(f, cells) == f = 0 \/ cells[1] = f

Shown(data, text, version) == [data |-> data, cells |-> <<text, version>>]

MCContents ==
  {<<Shown("a", 2, 0), Shown("b", 1, 2), Shown("c", 1, 0)>>,
   <<Shown("b", 1, 1), Shown("c", 2, 1), Shown("d", 2, 0), Shown("e", 1, 0)>>,
   <<Shown("d", 2, 2), Shown("c", 1, 1)>>}

Pack(name, versions) == [name |-> name, versions |-> versions]
Version(name, files) == [name |-> name, files |-> files]
Category(name, packages) == [name |-> name, packages |-> packages]

MCIndexes == {"x1", "x2"}

MCContent ==
  [x1 |-> <<Category(3, <<Pack(6, <<Version(1, <<2>>)>>),
                          Pack(5, <<Version(1, <<2>>), Version(2, <<2, 1>>), Version(3, <<1>>)>>)>>),
            Category(2, <<Pack(4, <<Version(2, <<3>>)>>)>>)>>,
   x2 |-> <<Category(3, <<Pack(5, <<Version(2, <<2, 1>>)>>)>>)>>]
=============================================================================
