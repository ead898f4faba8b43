---------------------------- MODULE MCReconcile ----------------------------
(***************************************************************************)
(* Small files for Reconcile: with a key, up to two rows of any kind;      *)
(* without one, up to three rows of a few kinds, one more than are hashed. *)
(***************************************************************************)
EXTENDS Reconcile

\* A column of dates (two spellings of one day, and a text) and one of amounts.
MCCell(d, a) == [date |-> d, amount |-> a]
MCCells ==
    {MCCell("15/01", "1"), MCCell("15-Jan", "1"), MCCell("15-Jan", "1.0"),
     MCCell("15/01", "null"), MCCell("open", "1"), MCCell("open", "null")}
MCDates == {"15/01", "15-Jan"}
MCValue ==
    [t \in {"15/01", "15-Jan", "open", "1", "1.0", "null"} |->
        CASE t \in MCDates        -> "15 January"
          [] t \in {"1", "1.0"}   -> "one"
          [] OTHER                -> t]

MCAnyRows == UNION {[1..n -> Row] : n \in 0..2}
MCFewRows ==
    [key : {"k"}, cells : {MCCell("15/01", "1"), MCCell("15-Jan", "1.0")}]
        \cup [key : {""}, cells : {MCCell("open", "null")}]
MCManyRows == UNION {[1..n -> MCFewRows] : n \in 0..MaxRows}

FileChoice ==
    /\ keyed \in BOOLEAN
    /\ LET chosenFrom == IF keyed THEN MCAnyRows ELSE MCManyRows
       IN  file1 \in chosenFrom /\ file2 \in chosenFrom
==============================================================================
