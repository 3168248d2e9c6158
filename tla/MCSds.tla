------------------------------- MODULE MCSds -------------------------------
EXTENDS Sds

MCByte  == {"nul", "a", "A"}
MCLower == [b \in MCByte |-> IF b = "A" THEN "a" ELSE b]
MCUpper == [b \in MCByte |-> IF b = "a" THEN "A" ELSE b]

\* Every type up to 32 ends at a length the strings or their blocks reach.
MCLimit == (5 :> 3) @@ (8 :> 4) @@ (16 :> 6) @@ (32 :> 7)

Char(b) == [kind |-> "byte", text |-> <<b>>]
Arg(t)  == [kind |-> "argument", text |-> t]
MCFormats ==
  {<<>>, <<Char("a")>>, <<Arg(<<"a", "nul">>)>>, <<Char("A"), Arg(<<>>), Char("a")>>,
   <<Arg(<<"A">>), Arg(<<"a", "A">>)>>, <<Arg(<<>>), Arg(<<"a", "A", "nul">>), Char("A")>>}

MCMaps == {<<<<>>, <<>>>>, <<<<"a", "nul">>, <<"nul", "A">>>>, <<<<"a", "a">>, <<"A", "nul">>>>}
MCEnds == {-9, -2, 0, 1, 3}
=============================================================================
