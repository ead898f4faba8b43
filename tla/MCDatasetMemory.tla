--------------------------- MODULE MCDatasetMemory ---------------------------
(* Small instances of DatasetMemory for TLC. *)
EXTENDS DatasetMemory, TLC

CONSTANTS u1, u2, f1, f2, d1, d2, a, b, s1, s2, s3

\* d1 and d2 have similar columns and different fingerprints.
MCFpOf == [d \in Datasets |-> IF d = d1 THEN f1 ELSE f2]
MCScore == [p \in Datasets \X Datasets |-> IF p[1] = p[2] THEN 10 ELSE 8]
MCNamesOf == [d \in Datasets |-> {}]

\* One rule for f1 from the time before users existed.
MCLegacyRules ==
    [f \in Fps |-> IF f = f1 THEN <<[rule |-> a, category |-> "exclude"]>> ELSE <<>>]
\* The users are interchangeable.
MCSymmetry == Permutations(Users)

MCNoRules == [f \in Fps |-> <<>>]

==============================================================================
