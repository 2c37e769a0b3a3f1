--------------------------- MODULE VaultTopicsMC ---------------------------
(* Small instances of VaultTopics. *)
EXTENDS VaultTopics

Line1(p)   == [path |-> p, alias |-> {}, quotes |-> <<>>]
SomeNames  == 1..3
\* The name 3 is hyphenated, "1-2": a text with it has the words 1 and 2.
SomeWords  == [a \in SomeNames |-> IF a = 3 THEN {1, 2} ELSE {a}]
SomeTopics == {<<1>>, <<2>>, <<3>>, <<1, 2>>, <<1, 3>>, <<1, 2, 3>>}
\* Descriptions speak of the topics above and of others.
SomeSays   == [p \in SomeTopics |-> IF p = <<1>> THEN {2} ELSE {1}]
SomeLines  == <<Line1(<<1>>), [path |-> <<1, 2>>, alias |-> {3}, quotes |-> <<>>]>>
OtherLines == {<<Line1(<<1>>), Line1(<<1, 3>>), Line1(<<2>>)>>,
               <<Line1(<<1, 2>>), Line1(<<1>>)>>}
SomeWanted == {<<2>>, <<1, 2>>, <<1, 3>>, <<3>>}
NoQuotes   == {<<>>}
QuoteTwo   == {<<>>, <<1, 2>>}
Nothing    == {}
Notes      == {1, 2}
Places     == <<<<3>>, <<>>>>
SecondNote == {2}
=============================================================================
