------------------------------ MODULE MCJobRuns ------------------------------
(* Small instances of JobRuns for TLC. *)
EXTENDS JobRuns, TLC

CONSTANTS u1, u2, j1

\* No action and no property tells one user from another.
MCSymmetry == Permutations(Users)

==============================================================================
