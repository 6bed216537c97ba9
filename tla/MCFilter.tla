------------------------------ MODULE MCFilter ------------------------------
EXTENDS Filter

a == <<"a">>
b == <<"b">>
c == <<"c">>

Plain(text) == [text |-> text, flags |-> {}]

MCWords ==
  {Plain(a), Plain(c), [text |-> b, flags |-> {"literal", "full", "end"}],
   [text |-> c, flags |-> {"end"}]}

\* c and d mean the same.
MCSynonyms == {<<c, <<"d">>>>}

MCLetters == {"a", "b", "c", "d"}

MCUniverse ==
  {<<a>>, <<b>>, <<c>>, <<<<"d">>>>, <<<<"b", "a">>>>, <<<<"d", "c">>>>, <<<<"b", "-", "a">>>>,
   <<a, b>>, <<b, <<"d">>>>, <<<<"b", "d">>, a>>}
=============================================================================
