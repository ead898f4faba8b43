------------------------------ MODULE DqScore ------------------------------
(***************************************************************************)
(* The data quality score: _dq_score of main.py.  A report has a percentage *)
(* for each dimension, or None for an optional dimension that nothing       *)
(* measures.  Weights are percentages, a score counts tenths.               *)
(***************************************************************************)
EXTENDS Integers

CONSTANT None   \* a dimension nothing measures

ASSUME NoneAssumption == None \notin Int

Always   == {"completeness", "uniqueness", "validity", "consistency", "conformity"}
\* Those that have a weight of their own, and those that take theirs from completeness.
Weighted == {"precision", "timeliness", "accuracy"}
Carved   == {"integrity", "reasonableness"}
Optional == Weighted \cup Carved

Percent  == 0..100
Measures == {m \in [Always \cup Optional -> Percent \cup {None}] : \A d \in Always : m[d] # None}

\* Mutant: the weight of an accuracy nobody measures is lost.
M_CompletenessWeight(m) ==
    20 + (IF m.precision = None THEN 8 ELSE 0)
       + (IF m.timeliness = None THEN 5 ELSE 0)
       - (IF m.integrity = None THEN 0 ELSE 5)
       - (IF m.reasonableness = None THEN 0 ELSE 5)

\* What inactive dimensions do not need goes to completeness.
CompletenessWeight(m) ==
    20 + (IF m.precision = None THEN 8 ELSE 0)
       + (IF m.timeliness = None THEN 5 ELSE 0)
       + (IF m.accuracy = None THEN 17 ELSE 0)
       - (IF m.integrity = None THEN 0 ELSE 5)
       - (IF m.reasonableness = None THEN 0 ELSE 5)

\* An optional dimension counts with its weight; zero counts as a hundred.
Counted(v, weight) == IF v = None THEN 0 ELSE IF v = 0 THEN 100 * weight ELSE v * weight

\* The weighted sum of the dimensions; the score is rounded to tenths.
Points(m) ==
    m.completeness * CompletenessWeight(m)
        + m.uniqueness * 12 + m.validity * 18 + m.consistency * 12 + m.conformity * 8
        + Counted(m.precision, 8) + Counted(m.timeliness, 5) + Counted(m.accuracy, 17)
        + Counted(m.integrity, 5) + Counted(m.reasonableness, 5)

Score(m) == Points(m) \div 10

\* More in one dimension.
Improved(m, n) ==
    \E d \in DOMAIN m : /\ m[d] # None /\ n[d] # None /\ n[d] > m[d]
                        /\ \A e \in DOMAIN m \ {d} : n[e] = m[e]

\* The one case in which it counts for less: an optional dimension leaves zero.
LeavesZero(m, n) == \E d \in Optional : m[d] = 0 /\ n[d] # 0
============================================================================
