---------------------------- MODULE MCAlignment ----------------------------
(***************************************************************************)
(* Small tables and plans for Alignment: columns spelled alike, differently *)
(* in case, or not at all alike; maps that swap, chain and collide; values *)
(* that are parts of the key, too.                                         *)
(***************************************************************************)
EXTENDS Alignment

MCColNames == {"id", "ID", "name", "full name", "v", "w"}
MCUpper == [l \in MCColNames |-> IF l = "id" THEN "ID" ELSE l]
MCCovers == [l \in MCColNames |-> IF l = "full name" THEN {"name"} ELSE {}]
MCSrcTables ==
    {<<"id", "name", "v">>, <<"id", "v">>, <<"ID", "name", "v">>, <<"id", "full name", "w">>,
     <<"id", "id", "v">>, <<"ID", "id", "w">>}
MCTgtTables == {<<"id", "v">>, <<"ID", "name", "w">>, <<"name", "v", "w">>, <<"ID", "id", "w">>}

MCAgg(by, of) == [by |-> by, of |-> of]
NoAgg == MCAgg(<<>>, Unnamed)
MCMade(k, s, from, to) == [kind |-> k, side |-> s, from |-> from, to |-> to]
MCDerivations ==
    {<<>>,
     <<MCMade("combine", "both", {"id", "name"}, "full name")>>,
     <<MCMade("coalesce", "tgt", {"name", "w"}, "id"),
       MCMade("compute", "both", {"v", "w"}, "v")>>,
     <<MCMade("parse", "src", {"name"}, "id")>>}
MCRenames ==
    {<<>>, [l \in {"name"} |-> "id"],
     [l \in {"id", "name"} |-> IF l = "id" THEN "name" ELSE "id"],
     [l \in {"w", "ID"} |-> IF l = "w" THEN "v" ELSE "id"]}
MCOn(s, c) == [side |-> s, col |-> c]
MCTransforms ==
    {<<MCOn("both", "id"), MCOn("src", "v")>>, <<MCOn("tgt", "id"), MCOn("both", Unnamed)>>}
MCAggs ==
    {<<NoAgg, NoAgg>>, <<NoAgg, MCAgg(<<"id">>, "w")>>,
     <<MCAgg(<<"ID", "name">>, "v"), MCAgg(<<"id">>, "w")>>,
     <<MCAgg(<<"id", "ID">>, "v"), NoAgg>>, <<MCAgg(<<"v", "id">>, "v"), NoAgg>>}
MCValueColumns == {<<Unnamed, Unnamed>>, <<"v", "w">>, <<"w", Unnamed>>, <<"id", Unnamed>>}
MCPlanKeys == {<<>>, <<"id">>, <<"ID", "name">>}
MCPlanRules ==
    {<<>>, <<[names |-> {"ID"}, key |-> TRUE]>>,
     <<[names |-> {"name", "full name"}, key |-> TRUE], [names |-> {"id"}, key |-> FALSE]>>}
MCPlan(d, m, f, a, v, k, r) ==
    [derive |-> d, map |-> m, transforms |-> f, srcAgg |-> a[1], tgtAgg |-> a[2], srcValue |-> v[1],
     tgtValue |-> v[2], keys |-> k, rules |-> r, exclude |-> IF v[1] = "w" THEN {"id"} ELSE {}]
MCPlans ==
    {MCPlan(d, m, f, <<NoAgg, NoAgg>>, <<Unnamed, Unnamed>>, k, r) :
        d \in MCDerivations, m \in MCRenames, f \in MCTransforms, k \in MCPlanKeys, r \in MCPlanRules}
    \cup {MCPlan(d, m, CHOOSE f \in MCTransforms : TRUE, a, v, <<"ID", "name">>, <<>>) :
        d \in MCDerivations, m \in MCRenames, a \in MCAggs, v \in MCValueColumns}
============================================================================
