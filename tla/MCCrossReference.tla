-------------------------- MODULE MCCrossReference --------------------------
(***************************************************************************)
(* Small sources for CrossReference: identifiers written differently, with *)
(* and without case, blank or repeated; amounts close to each other; files *)
(* of one name; a column that one of three sources lacks.                  *)
(***************************************************************************)
EXTENDS CrossReference

MCRefTexts == {"", "a-1", "A1", "b", "x", "X", "10", "11"}
MCKeyForm  == [t \in MCRefTexts |-> CASE t \in {"a-1", "A1"} -> "A1" [] t = "x" -> "X" [] OTHER -> t]
MCTextForm == [t \in MCRefTexts |-> IF t = "x" THEN "X" ELSE t]
MCLabels   == {"isin", "ISIN code", "ccy", "CCY", "amount"}
MCLabelForm == [l \in MCLabels |-> IF l = "CCY" THEN "ccy" ELSE l]
MCLabelLike == [l \in MCLabels |-> IF l \in {"isin", "ISIN code"} THEN {"isin", "ISIN code"} ELSE {l}]

MCTwo(name, idLabel, other, ids, texts) ==
    [name |-> name, labels |-> <<idLabel, other>>,
     rows |-> [i \in DOMAIN ids |-> [l \in {idLabel, other} |-> IF l = idLabel THEN ids[i] ELSE texts[i]]]]
MCIds == {<<"a-1", "b">>, <<"A1", "">>, <<"A1", "a-1">>}
MCRef1 == {MCTwo("one", "isin", "ccy", ids, v) : ids \in MCIds, v \in {<<"x", "10">>, <<"", "X">>}}
MCRef2 == {MCTwo(n, l[1], l[2], ids, v) :
              n \in {"one", "two"}, l \in {<<"ISIN code", "CCY">>, <<"isin", "amount">>},
              ids \in MCIds, v \in {<<"X", "11">>, <<"10", "x">>}}
MCRef3 == {MCTwo("three", "isin", o, <<"A1", "b">>, v) : o \in {"ccy", "amount"}, v \in {<<"x", "x">>, <<"11", "">>}}
\* Two columns of one source that differ in case only.
MCBoth ==
    [name |-> "both", labels |-> <<"isin", "ccy", "CCY">>,
     rows |-> <<[l \in {"isin", "ccy", "CCY"} |->
                   CASE l = "isin" -> "A1" [] l = "ccy" -> "10" [] l = "CCY" -> "x"]>>]
MCRefSources ==
    {<<s, MCBoth>> : s \in MCRef1} \cup {<<s, t>> : s \in MCRef1, t \in MCRef2} \cup {<<s, t, u>> : s \in MCRef1, t \in MCRef2, u \in MCRef3}
    \cup {<<s, [name |-> "two", labels |-> <<"amount">>, rows |-> v]>> :
             s \in MCRef1, v \in {<<>>, <<[l \in {"amount"} |-> "10"]>>}}
MCSynonyms == <<"isin", "ccy">>
MCRefOptions ==
    {[key |-> Unasked, fields |-> Unasked, golden |-> Unasked, conflictsOnly |-> FALSE],
     [key |-> "ISIN code", fields |-> Unasked, golden |-> "two", conflictsOnly |-> TRUE],
     [key |-> "isin", fields |-> {"ccy"}, golden |-> "two", conflictsOnly |-> FALSE]}
MCRefParams ==
    {[key |-> k, fields |-> Unasked, golden |-> g, exclude |-> e, tolerances |-> {[field |-> "ccy", close |-> {{"10", "11"}}]}] :
        k \in {"isin"}, g \in {"two", "nobody"}, e \in {{}, {"amount"}, {"isin"}}}
=============================================================================
