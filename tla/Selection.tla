----------------------------- MODULE Selection -----------------------------
(***************************************************************************)
(* Filtered lists ([x for x in xs if ...]) by the places that are kept, and *)
(* sums by what is counted.  SelectSeq and a fold say the same; of these    *)
(* definitions the provers can tell what a filtered list holds and what a   *)
(* sum adds up to, which of a recursion they cannot.                        *)
(***************************************************************************)
EXTENDS Naturals, FiniteSets, Sequences

\* The elements of s at the places in S, in their order.
ElementsAt(s, S) ==
    [n \in 1..Cardinality(S) |->
        s[CHOOSE i \in S : Cardinality({j \in S : j <= i}) = n]]

\* The sum of f over S: the pairs <<x, 1>> to <<x, f[x]>>, counted.
Total(f, S) == Cardinality(UNION {{x} \X (1..f[x]) : x \in S})

==============================================================================
