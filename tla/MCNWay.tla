------------------------------- MODULE MCNWay -------------------------------
(***************************************************************************)
(* Small sources for NWay: up to two rows, of one key or of two, and files *)
(* of the same name.                                                       *)
(***************************************************************************)
EXTENDS NWay, MCReconcile

MCSourceRow(k, c) == [key |-> k, cells |-> c]
MCSourceCells == {MCCell("15/01", "1"), MCCell("15-Jan", "1.0"), MCCell("open", "null")}
MCSourceFiles ==
    {<<>>}
        \cup {<<MCSourceRow("k", c)>> : c \in MCSourceCells}
        \cup {<<MCSourceRow("", c)>> : c \in {MCCell("15-Jan", "1.0")}}
        \cup {<<MCSourceRow("k", c), MCSourceRow("null", d)>> :
                  c \in {MCCell("15/01", "1"), MCCell("open", "null")}, d \in MCSourceCells}
        \cup {<<MCSourceRow("k", c), MCSourceRow("k", d)>> :
                  c \in {MCCell("15/01", "1")}, d \in {MCCell("open", "null")}}
MCNames == {<<"a", "b", "c">>, <<"a", "a", "b">>, <<"a", "b", "a">>, <<"b", "a", "a">>}

NameChoice == sources \in Uploads /\ named \in MCNames
==============================================================================
