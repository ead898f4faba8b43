---------------------------- MODULE KeyInference ----------------------------
(***************************************************************************)
(* How compare_dataframes finds a key when the caller names none:          *)
(* infer_keys of main.py.                                                  *)
(*                                                                         *)
(* Columns are numbered by their rank as parts of a composite key.  How    *)
(* unique a column or a combination is, in the file where it is less so,   *)
(* is a number per mille.  A column alone is judged by its values only     *)
(* (_col_uniqueness; 0 if more than 40% of the cells are empty), a         *)
(* combination counts an empty cell as a value (_combo_uniqueness_fast).   *)
(*                                                                         *)
(* meta      columns that look like metadata (_is_metadata_col)            *)
(* joinable  columns that vary in both files and share a value             *)
(* single    how unique each column is                                     *)
(* combo     how unique each combination is                                *)
(* width     of the combinations being tried, 0 before the search          *)
(* tried     the combinations tried                                        *)
(* best      the best of them                                              *)
(* answer    columns of the key and what the label says of them            *)
(***************************************************************************)
EXTENDS Naturals, FiniteSets

CONSTANTS Ranks,         \* the columns both files have, 1..n
          Levels,        \* of uniqueness of combinations
          SingleLevels,  \* of uniqueness of single columns
          TopCols,       \* candidates that composites are built from, 12 in infer_keys
          NoAnswer

Perfect == 995
Good    == 950
Fair    == 700
Half    == 500
\* What the name and type of a column may add to its score at most (_name_score,
\* _dtype_bonus).
Bonus   == 550

MaxWidth == 4

ASSUME KeyAssumption ==
    /\ Ranks \subseteq Nat \ {0}
    /\ Levels \cup SingleLevels \subseteq 0..1000
    /\ TopCols \in Nat

VARIABLES meta, joinable, single, combo, width, tried, best, answer

chosen  == <<meta, joinable, single, combo>>
keyVars == <<meta, joinable, single, combo, width, tried, best, answer>>

Combos == {S \in SUBSET Ranks : Cardinality(S) \in 2..MaxWidth}

Labels == {"unique", "composite", "best-effort", "content"}

KeyTypeOK ==
    /\ meta \subseteq Ranks
    /\ joinable \subseteq Ranks
    /\ single \in [Ranks -> SingleLevels]
    /\ combo \in [Combos -> Levels]
    /\ width \in 0..MaxWidth + 1
    /\ tried \subseteq Combos
    /\ best \in tried \cup {{}}
    /\ answer = NoAnswer \/ answer \in [key : SUBSET Ranks, label : Labels]

\* More columns are never less unique.
KeyInit ==
    /\ meta \in SUBSET Ranks
    /\ joinable \in SUBSET Ranks
    /\ single \in [Ranks -> SingleLevels]
    /\ combo \in {u \in [Combos -> Levels] : \A S, T \in Combos : S \subseteq T => u[S] <= u[T]}
    /\ width = 0
    /\ tried = {}
    /\ best = {}
    /\ answer = NoAnswer

------------------------------------------------------------------------------
(* The columns that may be part of a key. *)

\* Mutant: with nothing but metadata left, everything goes.
M_Pool == IF joinable \ meta # {} THEN joinable \ meta ELSE Ranks

\* The candidates: metadata is taken only if there is nothing else.
Pool ==
    IF joinable \ meta # {} THEN joinable \ meta ELSE joinable

\* Those that may be a key alone.
Solo ==
    LET dense == {c \in joinable \ meta : single[c] > 0}
    IN IF dense # {} THEN dense ELSE Pool

\* The best of them by score; names and types may tip the scale.
MayLead(c) ==
    c \in Solo /\ \A d \in Solo : single[d] <= single[c] + Bonus

Return(S, l) == answer' = [key |-> S, label |-> l]

\* Nothing joins the files.
NoCandidates ==
    /\ answer = NoAnswer
    /\ Pool = {}
    /\ Return({}, "content")
    /\ UNCHANGED <<chosen, width, tried, best>>

PerfectColumn ==
    /\ answer = NoAnswer
    /\ width = 0
    /\ \E c \in Solo : single[c] = 1000 /\ Return({c}, "unique")
    /\ UNCHANGED <<chosen, width, tried, best>>

StartSearch ==
    /\ answer = NoAnswer
    /\ width = 0
    /\ Pool # {}
    /\ \A c \in Solo : single[c] < 1000
    /\ width' = 2
    /\ UNCHANGED <<chosen, tried, best, answer>>

------------------------------------------------------------------------------
(* The search for a composite key. *)

\* Composites are built from the first TopCols of the ranked candidates.
Top == {c \in Pool : Cardinality({d \in Pool : d < c}) < TopCols}

\* Mutant: only columns that may be a key alone are combined.
M_OfWidth(w) == {S \in Combos : S \subseteq Top \cap Solo /\ Cardinality(S) = w}

OfWidth(w) == {S \in Combos : S \subseteq Top /\ Cardinality(S) = w}

Uniqueness(S) == IF S = {} THEN 0 ELSE combo[S]

\* The order of itertools.combinations.
Earlier(S, T) ==
    \E c \in S \ T : \A d \in T \ S : c < d

IsNextCombo(S) ==
    /\ S \in OfWidth(width) \ tried
    /\ \A T \in OfWidth(width) \ (tried \cup {S}) : Earlier(S, T)

\* Mutant: the last one tried is the best.
M_Better(S) == S

Better(S) == IF Uniqueness(S) > Uniqueness(best) THEN S ELSE best

\* One round of the inner loop, which a good combination ends.
Try(S) ==
    /\ answer = NoAnswer
    /\ width \in 2..MaxWidth
    /\ Uniqueness(best) < Good
    /\ IsNextCombo(S)
    /\ tried' = tried \cup {S}
    /\ best' = Better(S)
    /\ IF Uniqueness(Better(S)) >= Perfect
       THEN Return(Better(S), "composite")
       ELSE UNCHANGED answer
    /\ UNCHANGED <<chosen, width>>

\* The inner loop is over: the best so far is taken, or wider ones are tried.
NextWidth ==
    /\ answer = NoAnswer
    /\ width \in 2..MaxWidth
    /\ OfWidth(width) \subseteq tried \/ Uniqueness(best) >= Good
    /\ IF Uniqueness(best) >= Fair
       THEN Return(best, "best-effort") /\ UNCHANGED width
       ELSE width' = width + 1 /\ UNCHANGED answer
    /\ UNCHANGED <<chosen, tried, best>>

\* The leading column, if half of its values are distinct.
LastResort ==
    /\ answer = NoAnswer
    /\ width = MaxWidth + 1
    /\ \E c \in Solo :
        /\ MayLead(c)
        /\ IF single[c] >= Half THEN Return({c}, "best-effort") ELSE Return({}, "content")
    /\ UNCHANGED <<chosen, width, tried, best>>

Inferred == answer # NoAnswer /\ UNCHANGED keyVars

KeyNext ==
    \/ NoCandidates \/ PerfectColumn \/ StartSearch
    \/ \E S \in Combos : Try(S)
    \/ NextWidth \/ LastResort \/ Inferred

KeySpec == KeyInit /\ [][KeyNext]_keyVars

------------------------------------------------------------------------------
(* Properties. *)

\* A key joins: each of its columns varies and shares values between the files, also
\* when metadata has to serve because there is nothing else (infer_keys, "no point
\* joining on a column whose values never appear on both sides").
KeyJoins == answer # NoAnswer => answer.key \subseteq joinable

\* Among the candidates ranked first, a best-effort composite is the most unique one of
\* its width, unless a good one ended the search; in any case no narrower one is its
\* equal.  (What a candidate beyond them would have added is never looked at.)
BestOfItsWidth ==
    answer # NoAnswer /\ answer.label = "best-effort" /\ answer.key \in Combos =>
        \A S \in Combos :
            /\ S \subseteq Top
            /\ Cardinality(S) <= Cardinality(answer.key)
            /\ combo[S] > combo[answer.key]
            => /\ combo[answer.key] >= Good
               /\ Cardinality(S) = Cardinality(answer.key)

\* The comparison falls back to whole rows only if no composite of up to four of the
\* candidates ranked first would have served at least as a best effort.
FallbackIsLastResort ==
    answer # NoAnswer /\ answer.label = "content" =>
        \A S \in Combos : S \subseteq Top => combo[S] < Fair
==============================================================================
