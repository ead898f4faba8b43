----------------------------- MODULE Tolerances -----------------------------
(***************************************************************************)
(* The exception rules of an AI reconciliation: _apply_exception_rules of  *)
(* main.py takes breaks that are within a tolerance out of the answer of   *)
(* the comparison.                                                         *)
(*                                                                         *)
(* breaks   the rows that differ; per changed column, the modes in whose   *)
(*          threshold the change lies ("*" in a rule is every column)      *)
(* rules    the tolerances, [column, mode]                                 *)
(* diff     the answer: rows listed, rows within tolerance, and the count  *)
(*          of breaks, before and after the rules                          *)
(***************************************************************************)
EXTENDS Naturals, Sequences, FiniteSets, Selection

CONSTANTS Changes,    \* what may change in a row: columns to sets of modes
          Tolerated,  \* sets of rules
          MaxBreaks,  \* bound on the rows that differ, for model checking
          Shown       \* _MAX_DIFF_ROWS

ASSUME ToleranceAssumption == Shown \in Nat /\ MaxBreaks \in Nat

VARIABLES breaks, rules, diff, applied

toleranceVars == <<breaks, rules, diff, applied>>

Modes == {"pct", "abs", "fuzzy"}

Compare(bs) ==
    [listed |-> SubSeq(bs, 1, IF Len(bs) > Shown THEN Shown ELSE Len(bs)),
     within |-> <<>>,
     count  |-> Len(bs)]

ToleranceTypeOK ==
    /\ breaks \in Seq(Changes)
    /\ diff.listed \in Seq(Changes)
    /\ diff.within \in Seq(Changes)
    /\ diff.count \in 0..Len(breaks)
    /\ applied \in BOOLEAN

ToleranceInit ==
    /\ breaks \in UNION {[1..n -> Changes] : n \in 0..MaxBreaks}
    /\ rules \in Tolerated
    /\ diff = Compare(breaks)
    /\ applied = FALSE

\* The change of a column is within one of the rules for it.
ColWithinTol(row, c) ==
    \E r \in rules : r.column \in {c, "*"} /\ r.mode \in row[c]

\* Mutant: one change within tolerance excuses the row.
M_Within(row) == \E c \in DOMAIN row : ColWithinTol(row, c)

\* A row is within tolerance only if every changed column is.
Within(row) == DOMAIN row # {} /\ \A c \in DOMAIN row : ColWithinTol(row, c)

\* Nothing changes unless some row is within tolerance.
ApplyExceptionRules ==
    LET tolerated == {i \in DOMAIN diff.listed : Within(diff.listed[i])}
        kept      == DOMAIN diff.listed \ tolerated
    IN  /\ ~applied
        /\ applied' = TRUE
        /\ diff' = IF tolerated = {} THEN diff
                   ELSE [listed |-> ElementsAt(diff.listed, kept),
                         within |-> ElementsAt(diff.listed, tolerated),
                         count  |-> Cardinality(kept)]
        /\ UNCHANGED <<breaks, rules>>

Applied == applied /\ UNCHANGED toleranceVars

ToleranceNext == ApplyExceptionRules \/ Applied

ToleranceSpec == ToleranceInit /\ [][ToleranceNext]_toleranceVars

------------------------------------------------------------------------------
(* Properties. *)

\* Tolerances hide nothing but what they are meant for: as long as every break was
\* listed, the breaks left and those within tolerance are all there were, and a row
\* with a change that no rule excuses is still listed (_apply_exception_rules, "shrinks
\* modified_rows/modified_count to exclude the tolerated rows").
TolerancesHideNothing ==
    /\ Len(breaks) <= Shown => diff.count + Len(diff.within) = Len(breaks)
    /\ \A i \in DOMAIN breaks :
          i <= Shown /\ (\E c \in DOMAIN breaks[i] :
                            \A r \in rules : r.column \in {c, "*"} => r.mode \notin breaks[i][c])
          => \E j \in DOMAIN diff.listed : diff.listed[j] = breaks[i]
==============================================================================
