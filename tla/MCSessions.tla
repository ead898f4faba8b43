----------------------------- MODULE MCSessions -----------------------------
(* Instances of Sessions for TLC. *)
EXTENDS Sessions, TLC

CONSTANTS s1, s2

\* Two tables alone, compared, and compared with a third source like the second.
MCInputs == {<<1>>, <<2>>, <<1, 2>>, <<1, 2, 2>>}
MCSymmetry == Permutations(Sids)
=============================================================================
