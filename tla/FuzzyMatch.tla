----------------------------- MODULE FuzzyMatch -----------------------------
(***************************************************************************)
(* Matching rows without a key: _fuzzy_score_and_match of main.py, and the *)
(* loop of fuzzy_match_dataframes_nway that runs it between the first file *)
(* and each of the others.  fuzzy_match_dataframes is the case of one      *)
(* other file.                                                             *)
(*                                                                         *)
(* How alike two rows are is a number: the similarity of texts, amounts    *)
(* and dates is left out.  Candidates are visited best first; Python's     *)
(* sort is stable, so equal ones come in the order the two loops made      *)
(* them, by the row of the first file and then of the other.               *)
(*                                                                         *)
(* score    how alike a row of the first file and a row of another are     *)
(* todo     the candidates of each other file not visited yet              *)
(* matches  the pairs matched so far                                       *)
(***************************************************************************)
EXTENDS Naturals, FiniteSets

CONSTANTS Others,      \* the files after the first, numbered in upload order
          RefRows,     \* the rows of the first file
          OtherRows,   \* the rows of each other file
          Scores,
          Threshold

ASSUME FuzzyAssumption ==
    /\ Others \subseteq Nat
    /\ RefRows \subseteq Nat
    /\ OtherRows \subseteq Nat
    /\ Scores \subseteq Nat
    /\ Threshold \in Nat

VARIABLES score, todo, matches

fuzzyVars == <<score, todo, matches>>

Pair == RefRows \X OtherRows

Candidates(o) == {p \in Pair : score[o][p] >= Threshold}

FuzzyTypeOK ==
    /\ score   \in [Others -> [Pair -> Scores]]
    /\ todo    \in [Others -> SUBSET Pair]
    /\ matches \in [Others -> SUBSET Pair]
    /\ \A o \in Others :
        /\ todo[o] \subseteq Candidates(o)
        /\ matches[o] \subseteq Candidates(o) \ todo[o]

FuzzyInit ==
    /\ score \in [Others -> [Pair -> Scores]]
    /\ todo = [o \in Others |-> Candidates(o)]
    /\ matches = [o \in Others |-> {}]

------------------------------------------------------------------------------
\* Mutant: the sort puts the worst first.
M_Before(o, c, d) ==
    \/ score[o][c] < score[o][d]
    \/ /\ score[o][c] = score[o][d]
       /\ c[1] < d[1] \/ (c[1] = d[1] /\ c[2] < d[2])

\* The order of the sorted candidates.
Before(o, c, d) ==
    \/ score[o][c] > score[o][d]
    \/ /\ score[o][c] = score[o][d]
       /\ c[1] < d[1] \/ (c[1] = d[1] /\ c[2] < d[2])

\* Candidate c is the next one of file o, whose turn it is.
IsNext(o, c) ==
    /\ c \in todo[o]
    /\ \A d \in todo[o] \ {c} : Before(o, c, d)
    /\ \A p \in Others : p < o => todo[p] = {}

\* Two pairs claim the same row.
Share(c, d) == c[1] = d[1] \/ c[2] = d[2]

\* Mutant: only the row of the first file is looked up.
M_Free(o, c) == \A m \in matches[o] : m[1] # c[1]

Free(o, c) == \A m \in matches[o] : ~Share(m, c)

Match(o, c) ==
    /\ IsNext(o, c)
    /\ Free(o, c)
    /\ matches' = [matches EXCEPT ![o] = @ \cup {c}]
    /\ todo' = [todo EXCEPT ![o] = @ \ {c}]
    /\ UNCHANGED score

Skip(o, c) ==
    /\ IsNext(o, c)
    /\ ~Free(o, c)
    /\ todo' = [todo EXCEPT ![o] = @ \ {c}]
    /\ UNCHANGED <<score, matches>>

Finished == \A o \in Others : todo[o] = {}

Stop == Finished /\ UNCHANGED fuzzyVars

FuzzyNext ==
    \/ \E o \in Others, c \in Pair : Match(o, c) \/ Skip(o, c)
    \/ Stop

FuzzySpec == FuzzyInit /\ [][FuzzyNext]_fuzzyVars

------------------------------------------------------------------------------
(* Properties. *)

\* A row is matched at most once per file: no row of another file is claimed by two
\* rows of the first, and none of the first has two partners, so that the counts of
\* matched and unmatched rows add up (_fuzzy_score_and_match, "each row matches at
\* most once").
OneToOne ==
    \A o \in Others : \A c, d \in matches[o] : Share(c, d) => c = d

\* The matching is stable: a candidate pair that was visited and not matched lost one
\* of its rows to a pair that is at least as alike.  No two rows fit each other better
\* than what both of them got (the greedy assignment of _fuzzy_score_and_match).
NoBetterPairLeft ==
    \A o \in Others : \A c \in Candidates(o) \ todo[o] :
        \E m \in matches[o] : Share(m, c) /\ score[o][m] >= score[o][c]
==============================================================================
