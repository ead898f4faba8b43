-------------------------- MODULE ComparisonProofs --------------------------
(***************************************************************************)
(* What the parts of the comparison do for files of any content.           *)
(*                                                                         *)
(* FuzzyMatch: the pairs matched so far are at least as alike as all that  *)
(* are still to come (BestFirst), so that a pair which loses a row loses   *)
(* it to a better one.                                                     *)
(* KeyInference: what was tried is no better than the best, and a width is *)
(* left only when all of it was tried (Searched).                          *)
(* Reconcile and NWay are one step from their input, and the proofs are    *)
(* about the sets that step computes (Tallied, Tabulated).                 *)
(* Tolerances: the answer is the comparison, or what its listed rows are   *)
(* sifted into (Sifted).                                                   *)
(* CrossReference: an answer is that of the engine for the sources it is   *)
(* for, or this with conflicts put aside (Replied); the engine finds what  *)
(* the sources disagree about (ConflictIsDisagreement) and everyone takes  *)
(* a side (AllTakeSides).                                                  *)
(* Alignment: what the stages leave true of the labels and the transforms, *)
(* of each table by itself until a key is resolved (AlignInv).             *)
(***************************************************************************)
EXTENDS FuzzyMatch, KeyInference, NWay, Alignment, Tolerances, CrossReference,
        FiniteSetTheorems, SequenceTheorems, NaturalsInduction, WellFoundedInduction, TLAPS

------------------------------------------------------------------------------
(* FuzzyMatch. *)

\* The matching and the candidates to come are pairs of rows at the threshold.
THEOREM FuzzyTypeCorrect == FuzzySpec => []FuzzyTypeOK
<1>1. FuzzyInit => FuzzyTypeOK
  BY DEF FuzzyInit, FuzzyTypeOK, Candidates
<1>2. FuzzyTypeOK /\ [FuzzyNext]_fuzzyVars => FuzzyTypeOK'
  <2> SUFFICES ASSUME FuzzyTypeOK, [FuzzyNext]_fuzzyVars
               PROVE  FuzzyTypeOK'
    OBVIOUS
  <2>1. ASSUME NEW o \in Others, NEW c \in Pair, Match(o, c)
        PROVE  FuzzyTypeOK'
    BY <2>1 DEF FuzzyTypeOK, Match, IsNext, Candidates
  <2>2. ASSUME NEW o \in Others, NEW c \in Pair, Skip(o, c)
        PROVE  FuzzyTypeOK'
    BY <2>2 DEF FuzzyTypeOK, Skip, IsNext, Candidates
  <2>3. CASE UNCHANGED fuzzyVars
    BY <2>3 DEF fuzzyVars, FuzzyTypeOK, Candidates
  <2> QED
    BY <2>1, <2>2, <2>3 DEF FuzzyNext, Stop
<1> QED
  BY <1>1, <1>2, PTL DEF FuzzySpec

\* What is matched is at least as alike as what is still to come.
BestFirst ==
    \A o \in Others : \A m \in matches[o], d \in todo[o] : score[o][m] >= score[o][d]

FuzzyInv == FuzzyTypeOK /\ BestFirst /\ OneToOne /\ NoBetterPairLeft

LEMMA ScoresAreNumbers ==
    ASSUME FuzzyAssumption, FuzzyTypeOK, NEW o \in Others, NEW c \in Pair
    PROVE  score[o][c] \in Nat
<1>1. score[o][c] \in Scores
  BY DEF FuzzyTypeOK
<1> QED
  BY <1>1 DEF FuzzyAssumption

\* The candidate whose turn it is leads all that are to come.
LEMMA NextLeads ==
    ASSUME FuzzyAssumption, FuzzyTypeOK, NEW o \in Others, NEW c, IsNext(o, c), NEW d \in todo[o]
    PROVE  score[o][c] >= score[o][d]
<1>1. c \in Pair /\ d \in Pair
  BY DEF IsNext, FuzzyTypeOK
<1>2. score[o][c] \in Nat /\ score[o][d] \in Nat
  BY <1>1, ScoresAreNumbers
<1>3. CASE d = c
  BY <1>2, <1>3
<1>4. CASE d # c
  BY <1>2, <1>4 DEF IsNext, Before
<1> QED
  BY <1>3, <1>4

LEMMA FuzzyInvariant == FuzzySpec => []FuzzyInv
<1>1. FuzzyInit => FuzzyInv
  BY DEF FuzzyInit, FuzzyInv, FuzzyTypeOK, BestFirst, OneToOne, NoBetterPairLeft, Candidates
<1>2. FuzzyInv /\ FuzzyTypeOK' /\ [FuzzyNext]_fuzzyVars => FuzzyInv'
  <2> SUFFICES ASSUME FuzzyInv, FuzzyTypeOK', [FuzzyNext]_fuzzyVars
               PROVE  FuzzyInv'
    OBVIOUS
  <2> USE FuzzyAssumption
  <2>1. ASSUME NEW o \in Others, NEW c \in Pair, Match(o, c)
        PROVE  FuzzyInv'
    <3>1. /\ score' = score
          /\ matches'[o] = matches[o] \cup {c}
          /\ todo'[o] = todo[o] \ {c}
          /\ \A p \in Others \ {o} : matches'[p] = matches[p] /\ todo'[p] = todo[p]
          /\ IsNext(o, c) /\ Free(o, c)
      BY <2>1 DEF Match, FuzzyInv, FuzzyTypeOK
    <3>2. \A d \in todo[o] : score[o][c] >= score[o][d]
      BY <3>1, NextLeads DEF FuzzyInv
    <3>3. BestFirst'
      BY <3>1, <3>2 DEF BestFirst, FuzzyInv
    <3>4. OneToOne'
      BY <3>1 DEF OneToOne, FuzzyInv, Free, Share
    <3>5. NoBetterPairLeft'
      <4> SUFFICES ASSUME NEW p \in Others, NEW d \in (Candidates(p) \ todo[p])'
                   PROVE  \E m \in matches'[p] : Share(m, d) /\ score[p][m] >= score[p][d]
        BY <3>1 DEF NoBetterPairLeft, Share
      <4>1. CASE p = o /\ d = c
        <5>1. score[o][c] \in Nat
          BY ScoresAreNumbers DEF FuzzyInv
        <5> QED
          BY <3>1, <4>1, <5>1 DEF Share
      <4>2. CASE ~(p = o /\ d = c)
        <5>1. d \in Candidates(p) \ todo[p]
          BY <3>1, <4>2 DEF Candidates
        <5> QED
          BY <3>1, <5>1 DEF FuzzyInv, NoBetterPairLeft
      <4> QED
        BY <4>1, <4>2
    <3> QED
      BY <3>3, <3>4, <3>5 DEF FuzzyInv
  <2>2. ASSUME NEW o \in Others, NEW c \in Pair, Skip(o, c)
        PROVE  FuzzyInv'
    <3>1. /\ score' = score /\ matches' = matches
          /\ todo'[o] = todo[o] \ {c}
          /\ \A p \in Others \ {o} : todo'[p] = todo[p]
          /\ IsNext(o, c) /\ ~Free(o, c)
      BY <2>2 DEF Skip, FuzzyInv, FuzzyTypeOK
    <3>2. BestFirst' /\ OneToOne'
      BY <3>1 DEF BestFirst, OneToOne, FuzzyInv
    <3>3. PICK m \in matches[o] : Share(m, c)
      BY <3>1 DEF Free
    <3>4. score[o][m] >= score[o][c]
      BY <3>1, <3>3 DEF IsNext, FuzzyInv, BestFirst
    <3>5. NoBetterPairLeft'
      BY <3>1, <3>3, <3>4 DEF FuzzyInv, NoBetterPairLeft, Candidates, Share
    <3> QED
      BY <3>2, <3>5 DEF FuzzyInv
  <2>3. CASE UNCHANGED fuzzyVars
    BY <2>3 DEF fuzzyVars, FuzzyInv, BestFirst, OneToOne, NoBetterPairLeft, Candidates, Share
  <2> QED
    BY <2>1, <2>2, <2>3 DEF FuzzyNext, Stop
<1> QED
  BY <1>1, <1>2, FuzzyTypeCorrect, PTL DEF FuzzySpec

\* For any rows and scores, no row is matched twice (_fuzzy_score_and_match).
THEOREM OneToOneCorrect == FuzzySpec => []OneToOne
BY FuzzyInvariant, PTL DEF FuzzyInv

\* For any rows, scores and order of equal scores, the greedy matching is stable
\* (_fuzzy_score_and_match).
THEOREM StableCorrect == FuzzySpec => []NoBetterPairLeft
BY FuzzyInvariant, PTL DEF FuzzyInv

------------------------------------------------------------------------------
(* KeyInference. *)

LEMMA OneIsNoCombo ==
    ASSUME NEW c
    PROVE  {c} \notin Combos
<1>1. Cardinality({c}) = 1
  BY FS_Singleton, Zenon
<1> QED
  BY <1>1 DEF Combos, MaxWidth

LEMMA PoolJoins == Pool \subseteq joinable /\ Solo \subseteq joinable
BY DEF Pool, Solo

LEMMA CombosAreNotEmpty == {} \notin Combos
BY FS_EmptySet DEF Combos, MaxWidth

LEMMA KeyTypeCorrect == KeySpec => []KeyTypeOK
<1>1. KeyInit => KeyTypeOK
  BY DEF KeyInit, KeyTypeOK, MaxWidth
<1>2. KeyTypeOK /\ [KeyNext]_keyVars => KeyTypeOK'
  <2> SUFFICES ASSUME KeyTypeOK, [KeyNext]_keyVars
               PROVE  KeyTypeOK'
    OBVIOUS
  <2> USE KeyAssumption DEF KeyTypeOK, chosen, MaxWidth, Return, Labels
  <2>1. CASE NoCandidates
    BY <2>1 DEF NoCandidates
  <2>2. CASE PerfectColumn
    BY <2>2, PoolJoins DEF PerfectColumn
  <2>3. CASE StartSearch
    BY <2>3 DEF StartSearch
  <2>4. ASSUME NEW S \in Combos, Try(S)
        PROVE  KeyTypeOK'
    <3>1. best' \in tried' \cup {{}} /\ tried' \subseteq Combos
      BY <2>4 DEF Try, Better
    <3>2. Better(S) \subseteq Ranks
      BY DEF Better, Combos
    <3>3. answer' = answer \/ answer' = [key |-> Better(S), label |-> "composite"]
      BY <2>4 DEF Try
    <3>4. answer' = NoAnswer \/ answer' \in [key : SUBSET Ranks, label : Labels]
      BY <3>2, <3>3
    <3>5. /\ meta' = meta /\ joinable' = joinable /\ single' = single
          /\ combo' = combo /\ width' = width
      BY <2>4 DEF Try
    <3> QED
      BY <3>1, <3>4, <3>5
  <2>5. CASE NextWidth
    <3>1. best \subseteq Ranks
      BY DEF Combos
    <3>2. UNCHANGED <<meta, joinable, single, combo, tried, best>>
      BY <2>5 DEF NextWidth
    <3>3. \/ width' = width /\ answer' = [key |-> best, label |-> "best-effort"]
          \/ width \in 2..4 /\ width' = width + 1 /\ answer' = answer
      BY <2>5 DEF NextWidth
    <3>4. answer' = NoAnswer \/ answer' \in [key : SUBSET Ranks, label : Labels]
      <4>1. [key |-> best, label |-> "best-effort"] \in [key : SUBSET Ranks, label : Labels]
        BY <3>1
      <4>2. answer = NoAnswer
        BY <2>5 DEF NextWidth
      <4> QED
        BY <3>3, <4>1, <4>2
    <3>5. width' \in 0..MaxWidth + 1
      BY <3>3
    <3> QED
      BY <3>2, <3>4, <3>5
  <2>6. CASE LastResort
    <3>1. UNCHANGED <<chosen, width, tried, best>>
      BY <2>6 DEF LastResort
    <3>2. PICK c \in Solo : answer' = [key |-> {c}, label |-> "best-effort"]
                            \/ answer' = [key |-> {}, label |-> "content"]
      BY <2>6 DEF LastResort
    <3>3. {c} \subseteq Ranks
      BY <3>2, PoolJoins
    <3>4. answer' \in [key : SUBSET Ranks, label : Labels]
      BY <3>2, <3>3
    <3> QED
      BY <3>1, <3>4
  <2>7. CASE UNCHANGED keyVars
    BY <2>7 DEF keyVars
  <2> QED
    BY <2>1, <2>2, <2>3, <2>4, <2>5, <2>6, <2>7 DEF KeyNext, Inferred
<1> QED
  BY <1>1, <1>2, PTL DEF KeySpec

\* For any columns, the columns of the key join the files (infer_keys).
THEOREM KeyJoinsCorrect == KeySpec => []KeyJoins
<1> DEFINE Inv == KeyJoins /\ best \subseteq Pool
<1>1. KeyInit => Inv
  BY DEF KeyInit, KeyJoins
<1>2. Inv /\ [KeyNext]_keyVars => Inv'
  <2> SUFFICES ASSUME Inv, [KeyNext]_keyVars
               PROVE  Inv'
    OBVIOUS
  <2> USE PoolJoins DEF chosen, Return, KeyJoins
  <2>1. CASE NoCandidates
    BY <2>1 DEF NoCandidates, Pool
  <2>2. CASE PerfectColumn
    BY <2>2 DEF PerfectColumn, Pool
  <2>3. CASE StartSearch
    BY <2>3 DEF StartSearch, Pool
  <2>4. ASSUME NEW S \in Combos, Try(S)
        PROVE  Inv'
    <3>1. Better(S) \subseteq Pool
      BY <2>4 DEF Try, Better, IsNextCombo, OfWidth, Top
    <3> QED
      BY <2>4, <3>1 DEF Try, Pool
  <2>5. CASE NextWidth
    BY <2>5 DEF NextWidth, Pool
  <2>6. CASE LastResort
    BY <2>6 DEF LastResort, Pool
  <2>7. CASE UNCHANGED keyVars
    BY <2>7 DEF keyVars, Pool
  <2> QED
    BY <2>1, <2>2, <2>3, <2>4, <2>5, <2>6, <2>7 DEF KeyNext, Inferred
<1> QED
  BY <1>1, <1>2, PTL DEF KeySpec

\* A width is left only when all its combinations were tried, and the search ends
\* without an answer only when none of them was fair.
Searched ==
    /\ width \in {0} \cup 2..MaxWidth + 1
    /\ \A w \in 2..MaxWidth : w < width => OfWidth(w) \subseteq tried
    /\ \A S \in tried : combo[S] <= Uniqueness(best)
    /\ width = MaxWidth + 1 => Uniqueness(best) < Fair

LEMMA UniquenessOfCombo ==
    ASSUME KeyAssumption, KeyTypeOK, NEW S \in Combos
    PROVE  Uniqueness(S) = combo[S] /\ combo[S] \in Nat
<1>1. S # {}
  BY CombosAreNotEmpty
<1>2. combo[S] \in Levels
  BY DEF KeyTypeOK
<1> QED
  BY <1>1, <1>2 DEF Uniqueness, KeyAssumption

LEMMA BestIsANumber ==
    ASSUME KeyAssumption, KeyTypeOK
    PROVE  Uniqueness(best) \in Nat
<1>1. CASE best = {}
  BY <1>1 DEF Uniqueness
<1>2. CASE best \in Combos
  BY <1>2, UniquenessOfCombo
<1> QED
  BY <1>1, <1>2 DEF KeyTypeOK

LEMMA SearchedInvariant == KeySpec => []Searched
<1>1. KeyInit => Searched
  BY DEF KeyInit, Searched, MaxWidth
<1>2. KeyTypeOK /\ Searched /\ [KeyNext]_keyVars => Searched'
  <2> SUFFICES ASSUME KeyTypeOK, Searched, [KeyNext]_keyVars
               PROVE  Searched'
    OBVIOUS
  <2> USE KeyAssumption DEF chosen, MaxWidth
  <2>1. CASE UNCHANGED <<chosen, width, tried, best>>
    BY <2>1 DEF Searched, OfWidth, Pool, Top, Uniqueness
  <2>2. CASE StartSearch
    BY <2>2 DEF StartSearch, Searched, OfWidth, Pool, Top, Uniqueness
  <2>3. ASSUME NEW S \in Combos, Try(S)
        PROVE  Searched'
    <3>1. /\ tried' = tried \cup {S} /\ best' = Better(S) /\ width' = width
          /\ combo' = combo /\ meta' = meta /\ joinable' = joinable
          /\ width \in 2..4
      BY <2>3 DEF Try
    <3>2. Uniqueness(best) \in Nat /\ Uniqueness(S) = combo[S] /\ combo[S] \in Nat
      BY BestIsANumber, UniquenessOfCombo
    <3>3. Uniqueness(best)' = Uniqueness(Better(S))
      BY <3>1 DEF Uniqueness
    <3>4. Uniqueness(Better(S)) >= Uniqueness(best) /\ Uniqueness(Better(S)) >= combo[S]
      BY <3>2 DEF Better
    <3>5. \A T \in tried' : combo[T] <= Uniqueness(Better(S))
      <4> SUFFICES ASSUME NEW T \in tried
                   PROVE  combo[T] <= Uniqueness(Better(S))
        BY <3>1, <3>4, <3>2
      <4>1. combo[T] <= Uniqueness(best) /\ combo[T] \in Nat
        BY UniquenessOfCombo DEF Searched, KeyTypeOK
      <4>2. Better(S) = S \/ Better(S) = best
        BY DEF Better
      <4> QED
        BY <4>1, <4>2, <3>2, <3>4
    <3>6. \A w \in 2..4 : w < width => OfWidth(w)' \subseteq tried'
      BY <3>1 DEF Searched, OfWidth, Pool, Top
    <3> QED
      BY <3>1, <3>3, <3>5, <3>6 DEF Searched
  <2>4. CASE NextWidth /\ width' = width + 1
    <3>1. /\ tried' = tried /\ best' = best /\ combo' = combo
          /\ meta' = meta /\ joinable' = joinable /\ width \in 2..4
      BY <2>4 DEF NextWidth
    <3>2. Uniqueness(best) \in Nat
      BY BestIsANumber
    <3>3. Uniqueness(best) < Fair
      BY <2>4, <3>1, <3>2 DEF NextWidth, Fair
    <3>4. OfWidth(width) \subseteq tried
      BY <2>4, <3>2, <3>3 DEF NextWidth, Fair, Good
    <3>5. \A w \in 2..4 : w < width + 1 => OfWidth(w) \subseteq tried
      <4> SUFFICES ASSUME NEW w \in 2..4, w < width + 1
                   PROVE  OfWidth(w) \subseteq tried
        OBVIOUS
      <4>1. CASE w = width
        BY <4>1, <3>4
      <4>2. CASE w < width
        BY <4>2 DEF Searched
      <4> QED
        BY <3>1, <4>1, <4>2
    <3>6. /\ Uniqueness(best)' = Uniqueness(best)
          /\ \A w \in 2..4 : OfWidth(w)' = OfWidth(w)
      BY <3>1 DEF Uniqueness, OfWidth, Pool, Top
    <3> QED
      BY <2>4, <3>1, <3>3, <3>5, <3>6 DEF Searched
  <2> QED
    BY <2>1, <2>2, <2>3, <2>4
       DEF KeyNext, NoCandidates, PerfectColumn, NextWidth, LastResort, Inferred, keyVars
<1> QED
  BY <1>1, <1>2, KeyTypeCorrect, PTL DEF KeySpec

\* For any columns, any uniqueness and any number of candidates kept, the comparison of
\* whole rows is the answer only when no composite of up to four of the candidates kept
\* is 70% unique (infer_keys).
THEOREM FallbackCorrect == KeySpec => []FallbackIsLastResort
<1>1. KeyInit => FallbackIsLastResort
  BY DEF KeyInit, FallbackIsLastResort
<1>2. KeyTypeOK /\ Searched /\ FallbackIsLastResort /\ [KeyNext]_keyVars
      => FallbackIsLastResort'
  <2> SUFFICES ASSUME KeyTypeOK, Searched, FallbackIsLastResort, [KeyNext]_keyVars
               PROVE  FallbackIsLastResort'
    OBVIOUS
  <2> USE KeyAssumption DEF chosen
  <2>1. CASE UNCHANGED <<answer, chosen>>
    <3>1. Top' = Top
      BY <2>1 DEF Pool, Top
    <3> QED
      BY <2>1, <3>1 DEF FallbackIsLastResort
  <2>2. CASE NoCandidates
    <3>1. Pool' = {} /\ Top' \subseteq Pool'
      BY <2>2 DEF NoCandidates, Pool, Top
    <3> QED
      BY <3>1, CombosAreNotEmpty DEF FallbackIsLastResort
  <2>3. ASSUME NEW S, NEW l \in {"unique", "composite", "best-effort"}, Return(S, l)
        PROVE  FallbackIsLastResort'
    BY <2>3 DEF Return, FallbackIsLastResort
  <2>4. CASE LastResort
    <3>1. /\ combo' = combo /\ Top' = Top /\ width = MaxWidth + 1
      BY <2>4 DEF LastResort, Pool, Top
    <3> SUFFICES ASSUME NEW S \in Combos, S \subseteq Top
                 PROVE  combo[S] < Fair
      BY <3>1 DEF FallbackIsLastResort
    <3>2. S \in tried
      <4>1. Cardinality(S) \in 2..MaxWidth
        BY DEF Combos
      <4> QED
        BY <4>1, <3>1 DEF OfWidth, Searched, MaxWidth
    <3>3. combo[S] <= Uniqueness(best) /\ Uniqueness(best) < Fair
      BY <3>1, <3>2 DEF Searched
    <3>4. combo[S] \in Nat /\ Uniqueness(best) \in Nat
      BY UniquenessOfCombo, BestIsANumber
    <3> QED
      BY <3>3, <3>4 DEF Fair
  <2>5. CASE PerfectColumn
    BY <2>5, <2>3 DEF PerfectColumn
  <2>6. ASSUME NEW S \in Combos, Try(S)
        PROVE  FallbackIsLastResort'
    BY <2>6, <2>1, <2>3 DEF Try
  <2>7. CASE NextWidth
    BY <2>7, <2>1, <2>3 DEF NextWidth
  <2> QED
    BY <2>1, <2>2, <2>4, <2>5, <2>6, <2>7 DEF KeyNext, StartSearch, Inferred, keyVars
<1> QED
  BY <1>1, <1>2, KeyTypeCorrect, SearchedInvariant, PTL DEF KeySpec

\* Nothing wider than the width under way was tried.
LEMMA TriedWidths == KeySpec => [](\A S \in tried : Cardinality(S) <= width)
<1> DEFINE Inv == \A S \in tried : Cardinality(S) <= width
<1>1. KeyInit => Inv
  BY DEF KeyInit
<1>2. KeyTypeOK /\ Inv /\ [KeyNext]_keyVars => Inv'
  <2> SUFFICES ASSUME KeyTypeOK, Inv, [KeyNext]_keyVars
               PROVE  Inv'
    OBVIOUS
  <2>0. \A S \in tried : Cardinality(S) \in 2..4
    BY DEF KeyTypeOK, Combos, MaxWidth
  <2>1. CASE UNCHANGED <<width, tried>>
    BY <2>1
  <2>2. CASE StartSearch \/ NextWidth
    <3>1. tried' = tried /\ width \in 0..5 /\ (width' = width \/ width' = width + 1 \/ (width = 0 /\ width' = 2))
      BY <2>2 DEF StartSearch, NextWidth, KeyTypeOK, MaxWidth
    <3> QED BY <2>0, <3>1
  <2>3. ASSUME NEW S \in Combos, Try(S)
        PROVE  Inv'
    <3>1. tried' = tried \cup {S} /\ width' = width /\ Cardinality(S) = width /\ width \in 2..4
      BY <2>3 DEF Try, IsNextCombo, OfWidth, MaxWidth
    <3> QED BY <3>1
  <2> QED
    BY <2>1, <2>2, <2>3 DEF KeyNext, NoCandidates, PerfectColumn, LastResort, Inferred, keyVars
<1> QED
  BY <1>1, <1>2, KeyTypeCorrect, PTL DEF KeySpec

\* For any columns, no combination of up to as many of the candidates kept is more
\* unique than a best-effort key, unless a good one ended the search of its width
\* (infer_keys).
THEOREM BestEffortCorrect == KeySpec => []BestOfItsWidth
<1>1. KeyInit => BestOfItsWidth
  BY DEF KeyInit, BestOfItsWidth
<1>2. KeyTypeOK /\ Searched /\ (\A S \in tried : Cardinality(S) <= width) /\ BestOfItsWidth
      /\ [KeyNext]_keyVars => BestOfItsWidth'
  <2> SUFFICES ASSUME KeyTypeOK, Searched, \A S \in tried : Cardinality(S) <= width,
                      BestOfItsWidth, [KeyNext]_keyVars
               PROVE  BestOfItsWidth'
    OBVIOUS
  <2> USE KeyAssumption DEF chosen
  <2>1. CASE UNCHANGED <<answer, chosen>>
    <3>1. Top' = Top
      BY <2>1 DEF Pool, Top
    <3> QED
      BY <2>1, <3>1 DEF BestOfItsWidth
  <2>2. ASSUME NEW S, NEW l \in {"unique", "composite", "content"}, Return(S, l)
        PROVE  BestOfItsWidth'
    BY <2>2 DEF Return, BestOfItsWidth
  <2>3. CASE NextWidth /\ answer' # answer
    <3>1. /\ answer' = [key |-> best, label |-> "best-effort"]
          /\ OfWidth(width) \subseteq tried \/ Uniqueness(best) >= Good
          /\ width \in 2..4
          /\ combo' = combo /\ Top' = Top
      BY <2>3 DEF NextWidth, Return, Pool, Top, MaxWidth
    <3> SUFFICES ASSUME best \in Combos, NEW S \in Combos, S \subseteq Top,
                        Cardinality(S) <= Cardinality(best), combo[S] > combo[best]
                 PROVE  combo[best] >= Good /\ Cardinality(S) = Cardinality(best)
      BY <3>1 DEF BestOfItsWidth
    <3>2. /\ Cardinality(S) \in 2..4 /\ Cardinality(best) \in 2..4
          /\ combo[S] \in Nat /\ combo[best] \in Nat /\ Uniqueness(best) = combo[best]
      <4>1. \A T \in Combos : Cardinality(T) \in 2..4
        BY DEF Combos, MaxWidth
      <4>2. \A T \in Combos : Uniqueness(T) = combo[T] /\ combo[T] \in Nat
        BY UniquenessOfCombo
      <4> QED BY <4>1, <4>2
    <3>3. S \notin tried
      BY <3>2 DEF Searched
    <3>4. best \in tried
      BY CombosAreNotEmpty DEF KeyTypeOK
    <3>5. ~(Cardinality(S) < width)
      BY <3>1, <3>2, <3>3 DEF Searched, OfWidth, MaxWidth
    <3>6. Cardinality(S) = width /\ Cardinality(best) = width
      BY <3>1, <3>2, <3>4, <3>5
    <3>7. Uniqueness(best) >= Good
      BY <3>1, <3>3, <3>6 DEF OfWidth
    <3> QED BY <3>2, <3>6, <3>7
  <2>4. CASE LastResort
    <3>1. PICK c \in Solo : \/ answer' = [key |-> {c}, label |-> "best-effort"]
                            \/ answer' = [key |-> {}, label |-> "content"]
      BY <2>4 DEF LastResort, Return
    <3>2. {c} \notin Combos
      BY OneIsNoCombo, ZenonT(60)
    <3> QED BY <3>1, <3>2, CombosAreNotEmpty DEF BestOfItsWidth
  <2>5. ASSUME NEW S \in Combos, Try(S)
        PROVE  BestOfItsWidth'
    BY <2>1, <2>2, <2>5 DEF Try
  <2>6. CASE NoCandidates
    BY <2>2, <2>6 DEF NoCandidates
  <2>7. CASE PerfectColumn
    BY <2>2, <2>7 DEF PerfectColumn
  <2> QED
    BY <2>1, <2>3, <2>4, <2>5, <2>6, <2>7
    DEF KeyNext, NextWidth, StartSearch, Inferred, keyVars
<1> QED
  BY <1>1, <1>2, KeyTypeCorrect, SearchedInvariant, TriedWidths, PTL DEF KeySpec

------------------------------------------------------------------------------
(* Reconcile. *)

\* An answer of the engine with a key is computed from some numbering of the rows.
FromPositions(f, g, r) ==
    \E pos1 \in Positions(f), pos2 \in Positions(g) :
        /\ r.only1    = KeyOnly(f, g, pos1)
        /\ r.only2    = KeyOnly(g, f, pos2)
        /\ r.listed1 \in Capped(r.only1)
        /\ r.listed2 \in Capped(r.only2)
        /\ ~r.truncated
        /\ r.merged   = Merged(f, g, pos1, pos2)
        /\ r.modified = Modified(f, g, r.merged)
        /\ r.dups1    = KeyDups(f)
        /\ r.dups2    = KeyDups(g)

Computed == Answer /\ keyed => FromPositions(file1, file2, report)

LEMMA ReportIsComputed == ReconSpec => []Computed
<1>1. ReconInit => Computed
  BY DEF ReconInit, Computed, Answer
<1>2. Computed /\ [ReconNext]_reconVars => Computed'
  <2> SUFFICES ASSUME Computed, [ReconNext]_reconVars
               PROVE  Computed'
    OBVIOUS
  <2>1. CASE KeyBasedDiff
    <3>1. FromPositions(file1, file2, report')
      BY <2>1 DEF KeyBasedDiff, FromPositions
    <3>2. file1' = file1 /\ file2' = file2
      BY <2>1 DEF KeyBasedDiff
    <3> QED
      BY <3>1, <3>2 DEF Computed
  <2>2. CASE ContentBasedDiff
    BY <2>2 DEF ContentBasedDiff, Computed
  <2>3. CASE UNCHANGED reconVars
    BY <2>3 DEF reconVars, Computed, Answer
  <2> QED
    BY <2>1, <2>2, <2>3 DEF ReconNext, Answered
<1> QED
  BY <1>1, <1>2, PTL DEF ReconSpec

\* Every key has a first row.
LEMMA FirstRow ==
    ASSUME NEW f, NEW pos \in Positions(f), NEW i \in DOMAIN f
    PROVE  /\ pos[i] \in Nat
           /\ \E j \in DOMAIN f : Key(f, j) = Key(f, i) /\ pos[j] = 0
<1>1. pos[i] \in 0..Len(f)
  BY DEF Positions
<1>2. 0 \in 0..pos[i]
  BY <1>1
<1> QED
  BY <1>1, <1>2 DEF Positions

\* A row of a key without duplicates is the first.
LEMMA OnlyRow ==
    ASSUME NEW f, NEW pos \in Positions(f), NEW i \in DOMAIN f, i \notin KeyDups(f)
    PROVE  pos[i] = 0
<1>1. PICK j \in DOMAIN f : Key(f, j) = Key(f, i) /\ pos[j] = 0
  BY FirstRow
<1>2. j = i
  BY <1>1 DEF KeyDups
<1> QED
  BY <1>1, <1>2

\* With the rows numbered in any way, without duplicates, nothing is listed exactly if
\* the files hold the same records.
LEMMA CleanStep == Computed => CleanMeansEqual
<1> SUFFICES ASSUME Answer, keyed, FromPositions(file1, file2, report), report.dups1 = {}, report.dups2 = {}
             PROVE  report.only1 = {} /\ report.only2 = {} /\ report.modified = {} <=> SameRecords
  BY DEF Computed, CleanMeansEqual
<1>1. PICK pos1 \in Positions(file1), pos2 \in Positions(file2) :
        /\ report.only1    = KeyOnly(file1, file2, pos1)
        /\ report.only2    = KeyOnly(file2, file1, pos2)
        /\ report.merged   = Merged(file1, file2, pos1, pos2)
        /\ report.modified = Modified(file1, file2, report.merged)
        /\ report.dups1    = KeyDups(file1)
        /\ report.dups2    = KeyDups(file2)
  BY DEF FromPositions
<1>2. /\ \A i \in DOMAIN file1 : pos1[i] = 0
      /\ \A j \in DOMAIN file2 : pos2[j] = 0
  BY <1>1, OnlyRow
<1>3. report.only1 = {} <=> \A i \in DOMAIN file1 : \E j \in DOMAIN file2 : Key(file1, i) = Key(file2, j)
  BY <1>1, <1>2 DEF KeyOnly, Keys
<1>4. report.only2 = {} <=> \A j \in DOMAIN file2 : \E i \in DOMAIN file1 : Key(file1, i) = Key(file2, j)
  BY <1>1, <1>2 DEF KeyOnly, Keys
<1>5. \A i \in DOMAIN file1, j \in DOMAIN file2 :
        <<i, j>> \in report.merged <=> Key(file1, i) = Key(file2, j)
  BY <1>1, <1>2 DEF Merged
<1>6. report.modified = {} <=>
        \A i \in DOMAIN file1, j \in DOMAIN file2 :
            Key(file1, i) = Key(file2, j) => Breaks(file1[i], file2[j]) = {}
  <2>1. report.merged \subseteq (DOMAIN file1) \X (DOMAIN file2)
    BY <1>1 DEF Merged
  <2>2. report.modified = {p \in report.merged : Breaks(file1[p[1]], file2[p[2]]) # {}}
    BY <1>1 DEF Modified
  <2>3. ASSUME report.modified = {}, NEW i \in DOMAIN file1, NEW j \in DOMAIN file2,
               Key(file1, i) = Key(file2, j)
        PROVE  Breaks(file1[i], file2[j]) = {}
    <3>1. <<i, j>> \in report.merged
      BY <1>5, <2>3
    <3>2. <<i, j>>[1] = i /\ <<i, j>>[2] = j
      OBVIOUS
    <3>3. <<i, j>> \notin report.modified
      BY <2>3
    <3> QED
      BY <2>2, <3>1, <3>2, <3>3
  <2>4. ASSUME NEW p \in report.modified
        PROVE  \E i \in DOMAIN file1, j \in DOMAIN file2 :
                   Key(file1, i) = Key(file2, j) /\ Breaks(file1[i], file2[j]) # {}
    <3>1. PICK i \in DOMAIN file1, j \in DOMAIN file2 : p = <<i, j>>
      BY <2>1, <2>2
    <3> QED
      BY <1>5, <2>2, <3>1
  <2> QED
    BY <2>3, <2>4
<1>7. \A i, k \in DOMAIN file1 : Key(file1, i) = Key(file1, k) => i = k
  BY <1>1 DEF KeyDups
<1>8. ASSUME report.only1 = {}, report.only2 = {}, report.modified = {}
      PROVE  SameRecords
  BY <1>3, <1>4, <1>6, <1>8 DEF SameRecords, SameRecord
<1>9. ASSUME SameRecords
      PROVE  report.only1 = {} /\ report.only2 = {} /\ report.modified = {}
  <2>1. report.only1 = {} /\ report.only2 = {}
    BY <1>3, <1>4, <1>9 DEF SameRecords, SameRecord
  <2>2. ASSUME NEW i \in DOMAIN file1, NEW j \in DOMAIN file2, Key(file1, i) = Key(file2, j)
        PROVE  Breaks(file1[i], file2[j]) = {}
    <3>1. PICK k \in DOMAIN file1 : SameRecord(file1, k, file2, j)
      BY <1>9 DEF SameRecords
    <3>2. k = i
      BY <3>1, <2>2, <1>7 DEF SameRecord
    <3> QED
      BY <3>1, <3>2 DEF SameRecord
  <2> QED
    BY <2>1, <2>2, <1>6
<1> QED
  BY <1>8, <1>9

\* For files of any length and content, a clean answer without duplicates means that
\* the files hold the same records, and the other way round (compare_dataframes).
THEOREM CleanCorrect == ReconSpec => []CleanMeansEqual
BY ReportIsComputed, CleanStep, PTL

LEMMA RowsOfFile ==
    ASSUME ReconAssumption, NEW f \in Files
    PROVE  Len(f) \in Nat /\ DOMAIN f = 1..Len(f)
<1>1. PICK n \in 0..MaxRows : f \in [1..n -> Row]
  BY DEF Files
<1>2. n \in Nat /\ f \in Seq(Row)
  BY <1>1 DEF ReconAssumption
<1> QED
  BY <1>2

\* What the engine without a key counts.
Tallied ==
    /\ file1 \in Files /\ file2 \in Files
    /\ Answer /\ ~keyed =>
          /\ report.only1 = Surplus(Hashed(file1), Hashed(file2))
          /\ report.only2 = Surplus(Hashed(file2), Hashed(file1))
          /\ report.truncated = (Len(file1) > RowHashCap \/ Len(file2) > RowHashCap)

LEMMA ReportIsTallied == ReconSpec => []Tallied
<1>1. ReconInit => Tallied
  BY DEF ReconInit, Tallied, Answer
<1>2. Tallied /\ [ReconNext]_reconVars => Tallied'
  <2> SUFFICES ASSUME Tallied, [ReconNext]_reconVars
               PROVE  Tallied'
    OBVIOUS
  <2>1. CASE KeyBasedDiff
    BY <2>1 DEF KeyBasedDiff, Tallied
  <2>2. CASE ContentBasedDiff
    BY <2>2 DEF ContentBasedDiff, Tallied, Answer
  <2>3. CASE UNCHANGED reconVars
    BY <2>3 DEF reconVars, Tallied, Answer
  <2> QED
    BY <2>1, <2>2, <2>3 DEF ReconNext, Answered
<1> QED
  BY <1>1, <1>2, PTL DEF ReconSpec

\* A list that does not show all is full.
LEMMA ListIsFull ==
    ASSUME ReconAssumption, NEW f \in Files, NEW S \in SUBSET DOMAIN f,
           NEW L \in Capped(S), NEW k \in S, k \notin L
    PROVE  Cardinality(L) = MaxListed
<1>1. Len(f) \in Nat /\ S \in SUBSET (1..Len(f))
  BY RowsOfFile
<1>2. IsFiniteSet(S)
  <2>1. IsFiniteSet(1..Len(f))
    BY <1>1, FS_Interval
  <2> QED
    BY <1>1, <2>1, FS_Subset
<1>3. L \in SUBSET S /\ L # S
  BY DEF Capped, Excerpts
<1>4. Cardinality(L) # Cardinality(S)
  BY <1>2, <1>3, FS_Subset
<1> QED
  BY <1>4 DEF Capped, Excerpts

\* A key that is missing on the other side is said to be.
LEMMA MissingIsSaid ==
    ASSUME ReconAssumption, NEW f \in Files, NEW g, NEW pos \in Positions(f),
           NEW only, NEW listed \in Capped(only), only = KeyOnly(f, g, pos),
           NEW i \in DOMAIN f, Key(f, i) \notin Keys(g)
    PROVE  SaidMissing(f, i, only, listed)
<1>1. PICK k \in DOMAIN f : Key(f, k) = Key(f, i) /\ pos[k] = 0
  BY FirstRow
<1>2. k \in only /\ only \in SUBSET DOMAIN f
  BY <1>1 DEF KeyOnly
<1>3. k \in listed \/ Cardinality(listed) = MaxListed
  BY <1>2, ListIsFull
<1> QED
  BY <1>1, <1>2, <1>3 DEF SaidMissing

LEMMA SilentStep == Computed /\ Tallied => SilentRowsAreDuplicates
<1> SUFFICES ASSUME Answer, keyed, FromPositions(file1, file2, report), Tallied
             PROVE  SilentRowsAreDuplicates
  BY DEF Computed, SilentRowsAreDuplicates
<1>1. PICK pos1 \in Positions(file1), pos2 \in Positions(file2) :
        /\ report.only1  = KeyOnly(file1, file2, pos1)
        /\ report.only2  = KeyOnly(file2, file1, pos2)
        /\ report.listed1 \in Capped(report.only1)
        /\ report.listed2 \in Capped(report.only2)
        /\ report.merged = Merged(file1, file2, pos1, pos2)
        /\ report.dups1  = KeyDups(file1)
        /\ report.dups2  = KeyDups(file2)
  BY DEF FromPositions
<1>2. ReconAssumption /\ file1 \in Files /\ file2 \in Files
  BY ReconAssumption DEF Tallied
<1>3. ASSUME NEW i \in DOMAIN file1, i \notin report.dups1
      PROVE  \/ \E p \in report.merged : p[1] = i
             \/ SaidMissing(file1, i, report.only1, report.listed1)
  <2>1. pos1[i] = 0
    BY <1>1, <1>3, OnlyRow
  <2>2. CASE Key(file1, i) \notin Keys(file2)
    BY <1>1, <1>2, <2>2, MissingIsSaid
  <2>3. ASSUME NEW j \in DOMAIN file2, Key(file2, j) = Key(file1, i)
        PROVE  \E p \in report.merged : p[1] = i
    <3>1. PICK k \in DOMAIN file2 : Key(file2, k) = Key(file2, j) /\ pos2[k] = 0
      BY FirstRow
    <3>2. <<i, k>> \in report.merged
      BY <1>1, <2>1, <2>3, <3>1 DEF Merged
    <3> QED
      BY <3>2
  <2> QED
    BY <2>2, <2>3 DEF Keys
<1>4. ASSUME NEW j \in DOMAIN file2, j \notin report.dups2
      PROVE  \/ \E p \in report.merged : p[2] = j
             \/ SaidMissing(file2, j, report.only2, report.listed2)
  <2>1. pos2[j] = 0
    BY <1>1, <1>4, OnlyRow
  <2>2. CASE Key(file2, j) \notin Keys(file1)
    BY <1>1, <1>2, <2>2, MissingIsSaid
  <2>3. ASSUME NEW i \in DOMAIN file1, Key(file2, j) = Key(file1, i)
        PROVE  \E p \in report.merged : p[2] = j
    <3>1. PICK k \in DOMAIN file1 : Key(file1, k) = Key(file1, i) /\ pos1[k] = 0
      BY FirstRow
    <3>2. <<k, j>> \in report.merged
      BY <1>1, <2>1, <2>3, <3>1 DEF Merged
    <3> QED
      BY <3>2
  <2> QED
    BY <2>2, <2>3 DEF Keys
<1> QED
  BY <1>3, <1>4 DEF SilentRowsAreDuplicates

\* For files and lists of any length, with any order of the rows of a key, a row that is
\* neither compared nor said to be missing on the other side is counted as a duplicate
\* (compare_dataframes).
THEOREM SilentCorrect == ReconSpec => []SilentRowsAreDuplicates
BY ReportIsComputed, ReportIsTallied, SilentStep, PTL

\* Relation P pairs off the elements of A and B.
PairsOff(A, B, P) ==
    /\ \A i \in A : \E j \in B : <<i, j>> \in P
    /\ \A j \in B : \E i \in A : <<i, j>> \in P
    /\ \A i, k \in A, j, l \in B : <<i, j>> \in P /\ <<k, l>> \in P => (i = k <=> j = l)

LEMMA PairedOff ==
    ASSUME NEW A, NEW B, NEW P, PairsOff(A, B, P)
    PROVE  ExistsBijection(A, B)
<1> DEFINE h == [i \in A |-> CHOOSE j \in B : <<i, j>> \in P]
<1>1. \A i \in A : h[i] \in B /\ <<i, h[i]>> \in P
  BY DEF PairsOff
<1>2. h \in [A -> B]
  BY <1>1
<1>3. \A i, k \in A : h[i] = h[k] => i = k
  <2> SUFFICES ASSUME NEW i \in A, NEW k \in A, h[i] = h[k]
               PROVE  i = k
    OBVIOUS
  <2> HIDE DEF h
  <2>1. <<i, h[i]>> \in P /\ <<k, h[k]>> \in P /\ h[i] \in B /\ h[k] \in B
    BY <1>1
  <2> QED
    BY <2>1, Zenon DEF PairsOff
<1>4. \A j \in B : \E i \in A : h[i] = j
  <2> SUFFICES ASSUME NEW j \in B
               PROVE  \E i \in A : h[i] = j
    OBVIOUS
  <2> HIDE DEF h
  <2> QED
    BY <1>1 DEF PairsOff
<1>5. h \in Injection(A, B)
  BY <1>2, <1>3 DEF Injection, IsInjective
<1>6. h \in Surjection(A, B)
  BY <1>2, <1>4 DEF Surjection
<1> QED BY <1>5, <1>6 DEF ExistsBijection, Bijection

LEMMA RowsCounted ==
    ASSUME NEW n \in Nat
    PROVE  IsFiniteSet(1..n) /\ Cardinality(1..n) = n
BY FS_Interval

\* A set of row numbers and the others make up all rows.
LEMMA RowsSplit ==
    ASSUME NEW n \in Nat, NEW U \in SUBSET (1..n)
    PROVE  /\ IsFiniteSet(U) /\ IsFiniteSet((1..n) \ U)
           /\ Cardinality(U) \in Nat /\ Cardinality(U) <= n
           /\ Cardinality((1..n) \ U) = n - Cardinality(U)
<1>1. IsFiniteSet(1..n) /\ Cardinality(1..n) = n
  BY RowsCounted
<1>2. IsFiniteSet(U) /\ (1..n) \cap U = U /\ Cardinality(U) <= n
  BY <1>1, FS_Subset
<1>3. Cardinality(U) \in Nat
  BY <1>2, FS_CardinalityType
<1>4. /\ IsFiniteSet((1..n) \ U)
      /\ Cardinality((1..n) \ U) = Cardinality(1..n) - Cardinality((1..n) \cap U)
  BY <1>1, FS_Difference
<1> QED
  BY <1>1, <1>2, <1>3, <1>4

LEMMA LeftOver ==
    ASSUME NEW m \in Nat, NEW n \in Nat, NEW S \in SUBSET (1..m), NEW T \in SUBSET (1..n),
           ExistsBijection((1..m) \ S, (1..n) \ T)
    PROVE  m + Cardinality(T) = n + Cardinality(S)
<1>1. /\ IsFiniteSet((1..m) \ S)
      /\ Cardinality(S) \in Nat /\ Cardinality((1..m) \ S) = m - Cardinality(S)
  BY RowsSplit
<1>2. Cardinality(T) \in Nat /\ Cardinality((1..n) \ T) = n - Cardinality(T)
  BY RowsSplit
<1>3. Cardinality((1..m) \ S) = Cardinality((1..n) \ T)
  BY <1>1, FS_Bijection
<1>4. m - Cardinality(S) = n - Cardinality(T)
  BY <1>1, <1>2, <1>3
<1> QED
  BY <1>1, <1>2, <1>4

\* The elements of a set of row numbers are counted 1, 2, ... up to their number.
LEMMA RanksOfRows ==
    ASSUME NEW n \in Nat, NEW C \in SUBSET (1..n)
    PROVE  /\ \A i \in C : Cardinality({j \in C : j <= i}) \in 1..Cardinality(C)
           /\ \A i, k \in C : Cardinality({j \in C : j <= i}) = Cardinality({j \in C : j <= k}) => i = k
           /\ \A p \in 1..Cardinality(C) : \E i \in C : Cardinality({j \in C : j <= i}) = p
<1> DEFINE upto(i) == {j \in C : j <= i}
           rank == [i \in C |-> Cardinality(upto(i))]
<1>1. IsFiniteSet(C) /\ Cardinality(C) \in Nat
  <2>1. IsFiniteSet(1..n)
    BY FS_Interval
  <2> QED BY <2>1, FS_Subset, FS_CardinalityType
<1>2. ASSUME NEW i \in C
      PROVE  /\ IsFiniteSet(upto(i))
             /\ Cardinality(upto(i)) \in 1..Cardinality(C)
  <2>1. upto(i) \in SUBSET C /\ i \in upto(i)
    OBVIOUS
  <2>2. IsFiniteSet(upto(i)) /\ Cardinality(upto(i)) <= Cardinality(C)
    BY <1>1, <2>1, FS_Subset
  <2>3. Cardinality(upto(i)) \in Nat /\ Cardinality(upto(i)) # 0
    BY <2>1, <2>2, FS_CardinalityType, FS_EmptySet
  <2> QED BY <1>1, <2>2, <2>3
<1>3. ASSUME NEW i \in C, NEW k \in C, i < k
      PROVE  Cardinality(upto(i)) # Cardinality(upto(k))
  <2>1. upto(i) \in SUBSET upto(k) /\ k \in upto(k) /\ k \notin upto(i)
    <3>1. i \in Nat /\ k \in Nat /\ \A j \in C : j \in Nat
      OBVIOUS
    <3>2. i < k /\ k <= k /\ ~(k <= i)
      BY <1>3, <3>1
    <3>3. ASSUME NEW j \in C, j <= i
          PROVE  j <= k
      BY <3>1, <3>2, <3>3
    <3>4. upto(i) \subseteq upto(k)
      BY <3>3
    <3> QED
      BY <3>2, <3>4
  <2>2. IsFiniteSet(upto(k)) /\ upto(i) # upto(k)
    BY <1>2, <2>1
  <2>3. Cardinality(upto(k)) = Cardinality(upto(i)) => upto(k) = upto(i)
    BY <2>1, <2>2, FS_Subset
  <2> QED
    BY <2>2, <2>3
<1>4. \A i, k \in C : Cardinality(upto(i)) = Cardinality(upto(k)) => i = k
  <2>1. \A i, k \in C : i # k => i < k \/ k < i
    OBVIOUS
  <2> QED BY <1>3, <2>1
<1>5. rank \in Injection(C, 1..Cardinality(C))
  BY <1>2, <1>4 DEF Injection, IsInjective
<1>6. rank \in Surjection(C, 1..Cardinality(C))
  <2>1. IsFiniteSet(1..Cardinality(C)) /\ Cardinality(1..Cardinality(C)) = Cardinality(C)
    BY <1>1, FS_Interval
  <2> QED BY <1>5, <2>1, FS_Injection
<1>7. \A p \in 1..Cardinality(C) : \E i \in C : rank[i] = p
  BY <1>6 DEF Surjection
<1> QED BY <1>2, <1>4, <1>7

\* With unique keys the rows that are not listed pair off by key.
LEMMA KeyedBalance ==
    ASSUME ReconAssumption, NEW f \in Files, NEW g \in Files,
           NEW pos1 \in Positions(f), NEW pos2 \in Positions(g),
           KeyDups(f) = {}, KeyDups(g) = {}
    PROVE  Len(f) + Cardinality(KeyOnly(g, f, pos2)) = Len(g) + Cardinality(KeyOnly(f, g, pos1))
<1> DEFINE S == KeyOnly(f, g, pos1)
           T == KeyOnly(g, f, pos2)
           A == (DOMAIN f) \ S
           B == (DOMAIN g) \ T
           P == {p \in A \X B : Key(f, p[1]) = Key(g, p[2])}
<1>1. /\ Len(f) \in Nat /\ DOMAIN f = 1..Len(f)
      /\ Len(g) \in Nat /\ DOMAIN g = 1..Len(g)
  BY RowsOfFile
<1>2. /\ \A i \in DOMAIN f : pos1[i] = 0
      /\ \A j \in DOMAIN g : pos2[j] = 0
  BY OnlyRow
<1>3. /\ S = {i \in DOMAIN f : Key(f, i) \notin Keys(g)}
      /\ T = {j \in DOMAIN g : Key(g, j) \notin Keys(f)}
  BY <1>2 DEF KeyOnly
<1>4. \A i \in A, j \in B : <<i, j>> \in P <=> Key(f, i) = Key(g, j)
  OBVIOUS
<1>5. /\ \A i, k \in DOMAIN f : Key(f, i) = Key(f, k) => i = k
      /\ \A j, l \in DOMAIN g : Key(g, j) = Key(g, l) => j = l
  BY DEF KeyDups
<1>6. \A i \in A : \E j \in B : <<i, j>> \in P
  BY <1>3, <1>4 DEF Keys
<1>7. \A j \in B : \E i \in A : <<i, j>> \in P
  BY <1>3, <1>4 DEF Keys
<1>8. \A i, k \in A, j, l \in B :
          <<i, j>> \in P /\ <<k, l>> \in P => (i = k <=> j = l)
  BY <1>4, <1>5
<1>9. ExistsBijection(A, B)
  <2> HIDE DEF A, B, P
  <2>1. PairsOff(A, B, P)
    BY <1>6, <1>7, <1>8 DEF PairsOff
  <2> QED
    BY <2>1, PairedOff
<1>10. S \in SUBSET (1..Len(f)) /\ T \in SUBSET (1..Len(g))
  BY <1>1, <1>3
<1> HIDE DEF S, T
<1>11. Len(f) + Cardinality(T) = Len(g) + Cardinality(S)
  BY <1>1, <1>9, <1>10, LeftOver
<1> QED
  BY <1>11 DEF S, T

\* Without a key they pair off with the copy of the same rank.
LEMMA SurplusBalance ==
    ASSUME ReconAssumption, NEW f \in Files, NEW g \in Files
    PROVE  Len(f) + Cardinality(Surplus(g, f)) = Len(g) + Cardinality(Surplus(f, g))
<1> DEFINE rank(h, i) == Cardinality({j \in Copies(h, h[i]) : j <= i})
           S == Surplus(f, g)
           T == Surplus(g, f)
           A == (DOMAIN f) \ S
           B == (DOMAIN g) \ T
           P == {p \in A \X B : f[p[1]] = g[p[2]] /\ rank(f, p[1]) = rank(g, p[2])}
<1>1. /\ Len(f) \in Nat /\ DOMAIN f = 1..Len(f)
      /\ Len(g) \in Nat /\ DOMAIN g = 1..Len(g)
  BY RowsOfFile
<1>2. ASSUME NEW h \in Files, NEW r
      PROVE  /\ Cardinality(Copies(h, r)) \in Nat
             /\ \A i \in Copies(h, r) : h[i] = r /\ rank(h, i) \in 1..Cardinality(Copies(h, r))
             /\ \A i, k \in Copies(h, r) : rank(h, i) = rank(h, k) => i = k
             /\ \A n \in 1..Cardinality(Copies(h, r)) : \E i \in Copies(h, r) : rank(h, i) = n
  <2>1. Len(h) \in Nat /\ Copies(h, r) \in SUBSET (1..Len(h))
    BY RowsOfFile DEF Copies
  <2>2. \A i \in Copies(h, r) :
            h[i] = r /\ rank(h, i) = Cardinality({j \in Copies(h, r) : j <= i})
    BY DEF Copies
  <2> HIDE DEF rank
  <2>3. Cardinality(Copies(h, r)) \in Nat
    BY <2>1, RowsSplit
  <2> DEFINE C == Copies(h, r)
             upto(i) == Cardinality({j \in C : j <= i})
  <2>4. /\ \A i \in C : upto(i) \in 1..Cardinality(C)
        /\ \A i, k \in C : upto(i) = upto(k) => i = k
        /\ \A n \in 1..Cardinality(C) : \E i \in C : upto(i) = n
    <3> HIDE DEF C
    <3> QED
      BY <2>1, RanksOfRows DEF C
  <2>5. \A i \in C : h[i] = r /\ rank(h, i) = upto(i)
    BY <2>2
  <2> HIDE DEF C, upto
  <2>6. /\ Cardinality(C) \in Nat
        /\ \A i \in C : h[i] = r /\ rank(h, i) \in 1..Cardinality(C)
        /\ \A i, k \in C : rank(h, i) = rank(h, k) => i = k
        /\ \A n \in 1..Cardinality(C) : \E i \in C : rank(h, i) = n
    BY <2>3, <2>4, <2>5 DEF C
  <2> QED
    BY <2>6 DEF C
<1>3. /\ \A i \in DOMAIN f : i \in Copies(f, f[i])
      /\ \A j \in DOMAIN g : j \in Copies(g, g[j])
      /\ \A r : Copies(f, r) \subseteq DOMAIN f /\ Copies(g, r) \subseteq DOMAIN g
  BY DEF Copies
<1>4. /\ S = {i \in DOMAIN f : rank(f, i) > Cardinality(Copies(g, f[i]))}
      /\ T = {j \in DOMAIN g : rank(g, j) > Cardinality(Copies(f, g[j]))}
  BY DEF Surplus
<1>5. \A i \in A, j \in B :
          <<i, j>> \in P <=> f[i] = g[j] /\ rank(f, i) = rank(g, j)
  OBVIOUS
<1>6. S \in SUBSET (1..Len(f)) /\ T \in SUBSET (1..Len(g))
  BY <1>1, <1>4
<1> HIDE DEF rank, S, T, P
<1>7. ASSUME NEW i \in A
      PROVE  \E j \in B : <<i, j>> \in P
  <2>1. rank(f, i) \in 1..Cardinality(Copies(f, f[i]))
    BY <1>2, <1>3
  <2>2. rank(f, i) \in 1..Cardinality(Copies(g, f[i]))
    BY <1>2, <1>4, <2>1
  <2>3. PICK j \in Copies(g, f[i]) : rank(g, j) = rank(f, i)
    BY <1>2, <2>2
  <2>4. j \in DOMAIN g /\ g[j] = f[i]
    BY <1>2, <1>3
  <2>5. j \notin T
    BY <1>2, <1>4, <2>1, <2>3, <2>4
  <2> QED
    BY <1>5, <2>3, <2>4, <2>5
<1>8. ASSUME NEW j \in B
      PROVE  \E i \in A : <<i, j>> \in P
  <2>1. rank(g, j) \in 1..Cardinality(Copies(g, g[j]))
    BY <1>2, <1>3
  <2>2. rank(g, j) \in 1..Cardinality(Copies(f, g[j]))
    BY <1>2, <1>4, <2>1
  <2>3. PICK i \in Copies(f, g[j]) : rank(f, i) = rank(g, j)
    BY <1>2, <2>2
  <2>4. i \in DOMAIN f /\ f[i] = g[j]
    BY <1>2, <1>3
  <2>5. i \notin S
    BY <1>2, <1>4, <2>1, <2>3, <2>4
  <2> QED
    BY <1>5, <2>3, <2>4, <2>5
<1>9. ASSUME NEW i \in A, NEW k \in A,
             NEW j \in B, NEW l \in B,
             <<i, j>> \in P, <<k, l>> \in P
      PROVE  i = k <=> j = l
  <2>1. /\ f[i] = g[j] /\ rank(f, i) = rank(g, j)
        /\ f[k] = g[l] /\ rank(f, k) = rank(g, l)
    BY <1>5, <1>9
  <2>2. /\ i \in Copies(f, f[i]) /\ k \in Copies(f, f[k])
        /\ j \in Copies(g, g[j]) /\ l \in Copies(g, g[l])
    BY <1>3
  <2>3. i = k => j = l
    <3>1. ASSUME i = k
          PROVE  /\ j \in Copies(g, f[i]) /\ l \in Copies(g, f[i])
                 /\ rank(g, j) = rank(g, l)
      BY <2>1, <2>2, <3>1
    <3> QED
      BY <1>2, <3>1
  <2>4. j = l => i = k
    <3>1. ASSUME j = l
          PROVE  /\ i \in Copies(f, g[j]) /\ k \in Copies(f, g[j])
                 /\ rank(f, i) = rank(f, k)
      BY <2>1, <2>2, <3>1
    <3> QED
      BY <1>2, <3>1
  <2> QED
    BY <2>3, <2>4
<1>10. ExistsBijection(A, B)
  <2> HIDE DEF A, B
  <2>1. PairsOff(A, B, P)
    BY <1>7, <1>8, <1>9 DEF PairsOff
  <2> QED
    BY <2>1, PairedOff
<1>11. Len(f) + Cardinality(T) = Len(g) + Cardinality(S)
  BY <1>1, <1>6, <1>10, LeftOver
<1> QED
  BY <1>11 DEF S, T

\* What is hashed of a file is a file; all of it, if it is short enough.
LEMMA HashedRows ==
    ASSUME ReconAssumption, NEW f \in Files
    PROVE  /\ Hashed(f) \in Files
           /\ Len(f) <= RowHashCap => Hashed(f) = f
           /\ DOMAIN Hashed(f) \subseteq DOMAIN f
<1>1. PICK n \in 0..MaxRows : f \in [1..n -> Row]
  BY DEF Files
<1>2. n \in Nat /\ MaxRows \in Nat /\ RowHashCap \in Nat /\ f \in Seq(Row) /\ Len(f) = n
  BY <1>1 DEF ReconAssumption
<1> DEFINE m == IF n > RowHashCap THEN RowHashCap ELSE n
<1>3. m \in 0..n /\ (n <= RowHashCap => m = n)
  BY <1>2
<1>4. Hashed(f) = [i \in 1..m |-> f[i]]
  <2>1. Hashed(f) = SubSeq(f, 1, m)
    BY <1>2 DEF Hashed
  <2>2. m \in Nat /\ \A i \in 1..m : f[i] \in Row
    BY <1>1, <1>2, <1>3
  <2> HIDE DEF m
  <2>3. /\ SubSeq(f, 1, m) \in Seq(Row) /\ Len(SubSeq(f, 1, m)) = m
        /\ \A i \in 1..m : SubSeq(f, 1, m)[i] = f[i]
    <3>1. /\ SubSeq(f, 1, m) \in Seq(Row)
          /\ Len(SubSeq(f, 1, m)) = IF 1 <= m THEN m - 1 + 1 ELSE 0
          /\ \A i \in 1..m - 1 + 1 : SubSeq(f, 1, m)[i] = f[1 + i - 1]
      BY <2>2, SubSeqProperties
    <3> QED
      BY <2>2, <3>1
  <2> QED
    BY <2>1, <2>3
<1>5. Hashed(f) \in [1..m -> Row]
  BY <1>1, <1>2, <1>3, <1>4
<1>6. m \in 0..MaxRows
  BY <1>2, <1>3
<1>7. m = n => Hashed(f) = f
  BY <1>1, <1>4
<1>8. DOMAIN f = 1..n /\ DOMAIN Hashed(f) = 1..m
  BY <1>1, <1>4
<1> HIDE DEF m
<1>9. Hashed(f) \in Files
  BY <1>5, <1>6 DEF Files
<1>10. Len(f) <= RowHashCap => Hashed(f) = f
  BY <1>2, <1>3, <1>7
<1>11. DOMAIN Hashed(f) \subseteq DOMAIN f
  BY <1>2, <1>3, <1>8
<1> QED
  BY <1>9, <1>10, <1>11

\* For files of any length and content, and any number of rows hashed, the rows counted on
\* either side explain the difference in length of what the answer is about, without a
\* key or with a unique one (compare_dataframes).
THEOREM CountsCorrect == ReconSpec => []CountsBalance
<1>1. Computed /\ Tallied => CountsBalance
  <2> SUFFICES ASSUME Computed, Tallied, Answer, keyed => Unique
               PROVE  Len(Accounted(file1)) + Cardinality(report.only2)
                          = Len(Accounted(file2)) + Cardinality(report.only1)
    BY DEF CountsBalance
  <2>1. CASE keyed
    <3>1. PICK pos1 \in Positions(file1), pos2 \in Positions(file2) :
            /\ report.only1 = KeyOnly(file1, file2, pos1)
            /\ report.only2 = KeyOnly(file2, file1, pos2)
            /\ ~report.truncated
      BY <2>1 DEF Computed, FromPositions
    <3>2. KeyDups(file1) = {} /\ KeyDups(file2) = {}
      BY <2>1 DEF Unique
    <3>3. Accounted(file1) = file1 /\ Accounted(file2) = file2
      BY <3>1 DEF Accounted
    <3> QED
      BY <3>1, <3>2, <3>3, KeyedBalance, ReconAssumption DEF Tallied
  <2>2. CASE ~keyed
    <3>1. file1 \in Files /\ file2 \in Files
      BY DEF Tallied
    <3>2. Hashed(file1) \in Files /\ Hashed(file2) \in Files
      BY <3>1, HashedRows, ReconAssumption
    <3>3. /\ report.only1 = Surplus(Hashed(file1), Hashed(file2))
          /\ report.only2 = Surplus(Hashed(file2), Hashed(file1))
          /\ report.truncated = (Len(file1) > RowHashCap \/ Len(file2) > RowHashCap)
      BY <2>2 DEF Tallied
    <3>4. Accounted(file1) = Hashed(file1) /\ Accounted(file2) = Hashed(file2)
      <4>1. CASE report.truncated
        BY <4>1 DEF Accounted
      <4>2. CASE ~report.truncated
        <5>1. Len(file1) <= RowHashCap /\ Len(file2) <= RowHashCap
          <6>1. Len(file1) \in Nat /\ Len(file2) \in Nat /\ RowHashCap \in Nat
            BY <3>1, RowsOfFile, ReconAssumption DEF ReconAssumption
          <6>2. ~(Len(file1) > RowHashCap \/ Len(file2) > RowHashCap)
            BY <3>3, <4>2
          <6> QED
            BY <6>1, <6>2
        <5> QED
          BY <3>1, <4>2, <5>1, HashedRows, ReconAssumption DEF Accounted
      <4> QED
        BY <4>1, <4>2
    <3> QED
      BY <3>2, <3>3, <3>4, SurplusBalance, ReconAssumption
  <2> QED
    BY <2>1, <2>2
<1> QED
  BY <1>1, ReportIsComputed, ReportIsTallied, PTL

\* For files of any length, the answer names rows of the files, and its parts lie in one
\* another (compare_dataframes).
THEOREM ReconTypeCorrect == ReconSpec => []ReconTypeOK
<1>1. ReconInit => ReconTypeOK
  BY DEF ReconInit, ReconTypeOK
<1>2. ReconTypeOK /\ [ReconNext]_reconVars => ReconTypeOK'
  <2> SUFFICES ASSUME ReconTypeOK, [ReconNext]_reconVars
               PROVE  ReconTypeOK'
    OBVIOUS
  <2>1. CASE KeyBasedDiff
    <3>1. PICK pos1 \in Positions(file1), pos2 \in Positions(file2) :
            \E listed1 \in Capped(KeyOnly(file1, file2, pos1)),
               listed2 \in Capped(KeyOnly(file2, file1, pos2)),
               listed \in Capped(Modified(file1, file2, Merged(file1, file2, pos1, pos2))) :
                report' = [only1     |-> KeyOnly(file1, file2, pos1),
                           only2     |-> KeyOnly(file2, file1, pos2),
                           listed1   |-> listed1,
                           listed2   |-> listed2,
                           merged    |-> Merged(file1, file2, pos1, pos2),
                           modified  |-> Modified(file1, file2, Merged(file1, file2, pos1, pos2)),
                           listed    |-> listed,
                           dups1     |-> KeyDups(file1),
                           dups2     |-> KeyDups(file2),
                           truncated |-> FALSE]
      BY <2>1 DEF KeyBasedDiff
    <3>2. UNCHANGED <<file1, file2, keyed>>
      BY <2>1 DEF KeyBasedDiff
    <3>3. \A S, L : L \in Capped(S) => L \subseteq S
      BY DEF Capped, Excerpts
    <3> QED
      BY <3>1, <3>2, <3>3 DEF ReconTypeOK, KeyOnly, Merged, Modified, KeyDups
  <2>2. CASE ContentBasedDiff
    <3>1. PICK listed1 \in Capped(Surplus(Hashed(file1), Hashed(file2))),
               listed2 \in Capped(Surplus(Hashed(file2), Hashed(file1))) :
            report' = [only1     |-> Surplus(Hashed(file1), Hashed(file2)),
                       only2     |-> Surplus(Hashed(file2), Hashed(file1)),
                       listed1   |-> listed1,
                       listed2   |-> listed2,
                       merged    |-> {},
                       modified  |-> {},
                       listed    |-> {},
                       dups1     |-> RowDups(file1),
                       dups2     |-> RowDups(file2),
                       truncated |-> Len(file1) > RowHashCap \/ Len(file2) > RowHashCap]
      BY <2>2 DEF ContentBasedDiff
    <3>2. UNCHANGED <<file1, file2, keyed>>
      BY <2>2 DEF ContentBasedDiff
    <3>3. /\ listed1 \subseteq Surplus(Hashed(file1), Hashed(file2))
          /\ listed2 \subseteq Surplus(Hashed(file2), Hashed(file1))
      BY DEF Capped, Excerpts
    <3>4. /\ Surplus(Hashed(file1), Hashed(file2)) \subseteq DOMAIN file1
          /\ Surplus(Hashed(file2), Hashed(file1)) \subseteq DOMAIN file2
      BY HashedRows, ReconAssumption DEF ReconTypeOK, Surplus
    <3>5. (Len(file1) > RowHashCap \/ Len(file2) > RowHashCap) \in BOOLEAN
      OBVIOUS
    <3> QED
      BY <3>1, <3>2, <3>3, <3>4, <3>5 DEF ReconTypeOK, RowDups
  <2>3. CASE UNCHANGED reconVars
    BY <2>3 DEF reconVars, ReconTypeOK
  <2> QED
    BY <2>1, <2>2, <2>3 DEF ReconNext, Answered
<1> QED
  BY <1>1, <1>2, PTL DEF ReconSpec

------------------------------------------------------------------------------
(* NWay. *)

LEMMA LeastNumber ==
    ASSUME NEW S \in SUBSET Nat, S # {}
    PROVE  Min(S) \in S /\ \A j \in S : Min(S) <= j
<1>1. PICK i \in S : \A j \in S : ~(<<j, i>> \in OpToRel(<, Nat))
  BY NatLessThanWellFounded, WFMin
<1>2. \A j \in S : ~(j < i)
  BY <1>1 DEF OpToRel
<1>3. \A j \in S : i <= j
  BY <1>2
<1> QED
  BY <1>3 DEF Min

LEMMA GreatestNumber ==
    ASSUME NEW n \in Nat, NEW S \in SUBSET (0..n), S # {}
    PROVE  Max(S) \in S /\ \A j \in S : j <= Max(S)
<1> DEFINE left == {n - i : i \in S}
<1>1. left \in SUBSET Nat /\ left # {}
  <2>1. \A i \in S : n - i \in Nat
    OBVIOUS
  <2> QED
    BY <2>1
<1>2. Min(left) \in left /\ \A j \in left : Min(left) <= j
  <2> HIDE DEF left
  <2> QED
    BY <1>1, LeastNumber
<1>3. PICK i \in S : Min(left) = n - i
  BY <1>2
<1>4. \A j \in S : n - i <= n - j
  BY <1>2, <1>3
<1>5. \A j \in S : i >= j
  BY <1>4
<1>6. Max(S) \in S /\ \A j \in S : Max(S) >= j
  BY <1>5 DEF Max
<1> QED
  BY <1>6

\* A function on a finite set has finitely many values.
LEMMA ImageIsFinite ==
    ASSUME NEW S, IsFiniteSet(S), NEW g, g = [x \in S |-> g[x]]
    PROVE  IsFiniteSet({g[x] : x \in S})
<1>1. g \in Surjection(S, {g[x] : x \in S})
  BY DEF Surjection
<1> QED
  BY <1>1, FS_Surjection

\* To be spellings of one value is an equivalence.
LEMMA SameValueIsTransitive ==
    ASSUME ReconAssumption, NEW r, NEW s, NEW t, SameValue(r, s), SameValue(r, t)
    PROVE  SameValue(s, t)
BY DEF ReconAssumption, SameValue, SameText, Norm

\* An answer lists broken keys, with all their breaks, for some columns taken for dates.
FromSample ==
    \E F \in Excerpts(AllKeys, SampleSize), dates \in SUBSET Cols :
        /\ DateLike(F, dates)
        /\ matrix.full = Full
        /\ matrix.single = Single
        /\ matrix.partial \in Capped(Partial)
        /\ matrix.listed \in Capped(Broken(dates))
        /\ matrix.breaks = {p \in matrix.listed \X Cols : Disagree(dates, p[1], p[2])}

Tabulated ==
    /\ sources \in Uploads
    /\ named \in [Sources -> FileNames]
    /\ matrix # NoReport =>
        /\ DOMAIN matrix = {"full", "single", "partial", "listed", "breaks"}
        /\ FromSample

LEMMA MatrixIsTabulated == NWaySpec => []Tabulated
<1>1. NWayInit => Tabulated
  BY DEF NWayInit, Tabulated
<1>2. Tabulated /\ [NWayNext]_nwayVars => Tabulated'
  <2> SUFFICES ASSUME Tabulated, [NWayNext]_nwayVars
               PROVE  Tabulated'
    OBVIOUS
  <2>1. sources' = sources /\ named' = named
    BY DEF NWayNext, CompareNWay, Compared, nwayVars
  <2>2. /\ AllKeys' = AllKeys /\ Sources' = Sources
        /\ \A k : Presence(k)' = Presence(k)
    BY <2>1 DEF AllKeys, Sources, Presence
  <2>3. \A k : Heard(k)' = Heard(k) /\ Reference(k)' = Reference(k)
    BY <2>1, <2>2 DEF Heard, Reference
  <2>4. \A s, k, c : Cell(s, k, c)' = Cell(s, k, c)
    BY <2>1 DEF Cell
  <2>5. \A dates, k, c : Disagree(dates, k, c)' <=> Disagree(dates, k, c)
    BY <2>3, <2>4 DEF Disagree, SameScalar
  <2>6. \A dates : Broken(dates)' = Broken(dates)
    BY <2>2, <2>5 DEF Broken
  <2>7. Full' = Full /\ Single' = Single /\ Partial' = Partial
    BY <2>2 DEF Full, Single, Partial
  <2>8. \A F, c : Filled(F, c)' = Filled(F, c)
    BY <2>1, <2>2, <2>4 DEF Filled
  <2>9. \A F, c : Samples(F, c)' = Samples(F, c)
    BY <2>8 DEF Samples
  <2>10. \A S, c : MostlyDates(S, c)' <=> MostlyDates(S, c)
    BY <2>4 DEF MostlyDates
  <2>11. \A F, dates : DateLike(F, dates)' <=> DateLike(F, dates)
    BY <2>9, <2>10 DEF DateLike
  <2>12. CASE CompareNWay
    <3>1. PICK F \in Excerpts(AllKeys, SampleSize), dates \in SUBSET Cols :
            /\ DateLike(F, dates)
            /\ \E partial \in Capped(Partial), listed \in Capped(Broken(dates)) :
                matrix' = [full    |-> Full,
                           single  |-> Single,
                           partial |-> partial,
                           listed  |-> listed,
                           breaks  |-> {p \in listed \X Cols : Disagree(dates, p[1], p[2])}]
      BY <2>12 DEF CompareNWay
    <3>2. PICK partial \in Capped(Partial), listed \in Capped(Broken(dates)) :
            matrix' = [full    |-> Full,
                       single  |-> Single,
                       partial |-> partial,
                       listed  |-> listed,
                       breaks  |-> {p \in listed \X Cols : Disagree(dates, p[1], p[2])}]
      BY <3>1
    <3>3. /\ matrix'.full = Full /\ matrix'.single = Single
          /\ matrix'.partial \in Capped(Partial) /\ matrix'.listed \in Capped(Broken(dates))
          /\ matrix'.breaks = {p \in matrix'.listed \X Cols : Disagree(dates, p[1], p[2])}
          /\ DOMAIN matrix' = {"full", "single", "partial", "listed", "breaks"}
      BY <3>2
    <3>4. {p \in matrix'.listed \X Cols : Disagree(dates, p[1], p[2])'}
              = {p \in matrix'.listed \X Cols : Disagree(dates, p[1], p[2])}
      BY <2>5
    <3>5. FromSample'
      BY <2>2, <2>6, <2>7, <2>11, <3>1, <3>3, <3>4 DEF FromSample, Capped, Excerpts
    <3> QED
      BY <2>1, <2>2, <3>3, <3>5 DEF Tabulated
  <2>13. CASE UNCHANGED nwayVars
    <3>1. matrix' = matrix
      BY <2>13 DEF nwayVars
    <3>2. \A dates : {p \in matrix.listed \X Cols : Disagree(dates, p[1], p[2])'}
              = {p \in matrix.listed \X Cols : Disagree(dates, p[1], p[2])}
      BY <2>5
    <3>3. FromSample => FromSample'
      BY <2>2, <2>6, <2>7, <2>11, <3>1, <3>2 DEF FromSample, Capped, Excerpts
    <3> QED
      BY <2>1, <2>2, <3>1, <3>3 DEF Tabulated
  <2> QED
    BY <2>12, <2>13 DEF NWayNext, Compared
<1> QED
  BY <1>1, <1>2, PTL DEF NWaySpec

\* How many there are.
LEMMA SourcesCounted ==
    ASSUME Tabulated
    PROVE  \E n \in Nat : n >= 3 /\ Sources = 1..n /\ \A s \in Sources : sources[s] \in Files
<1>1. PICK n \in 3..MaxSources : sources \in [1..n -> SourceFiles]
  BY DEF Tabulated, Uploads
<1>2. n \in Nat /\ n >= 3 /\ SourceFiles \subseteq Files
  BY NWayAssumption DEF NWayAssumption
<1> QED
  BY <1>1, <1>2 DEF Sources

LEMMA KeysAreFinite ==
    ASSUME Tabulated
    PROVE  IsFiniteSet(AllKeys)
<1>1. PICK n \in Nat : n >= 3 /\ Sources = 1..n /\ \A s \in Sources : sources[s] \in Files
  BY SourcesCounted
<1>2. ASSUME NEW s \in Sources
      PROVE  IsFiniteSet(Keys(sources[s]))
  <2> DEFINE f == sources[s]
             key == [i \in DOMAIN f |-> Key(f, i)]
  <2>1. Len(f) \in Nat /\ DOMAIN f = 1..Len(f)
    BY <1>1, RowsOfFile, ReconAssumption
  <2>2. IsFiniteSet(DOMAIN f)
    BY <2>1, FS_Interval
  <2>3. Keys(f) = {key[i] : i \in DOMAIN f}
    BY DEF Keys
  <2>4. key = [i \in DOMAIN f |-> key[i]]
    OBVIOUS
  <2> HIDE DEF f, key
  <2>5. IsFiniteSet({key[i] : i \in DOMAIN f})
    BY <2>2, <2>4, ImageIsFinite
  <2> QED
    BY <2>3, <2>5 DEF f
<1> DEFINE keysIn == [s \in Sources |-> Keys(sources[s])]
           all  == {keysIn[s] : s \in Sources}
<1>3. AllKeys = UNION all
  BY DEF AllKeys
<1>4. \A T \in all : IsFiniteSet(T)
  BY <1>2
<1>5. keysIn = [s \in Sources |-> keysIn[s]]
  OBVIOUS
<1> HIDE DEF keysIn
<1>6. IsFiniteSet(all)
  <2>1. IsFiniteSet(Sources)
    BY <1>1, FS_Interval
  <2> QED
    BY <1>5, <2>1, ImageIsFinite
<1> HIDE DEF all
<1> QED
  BY <1>3, <1>4, <1>6, FS_UNION

\* The value that the others are compared with is one of those kept.
LEMMA ReferenceIsHeard ==
    ASSUME Tabulated, NEW k, NEW u \in Presence(k)
    PROVE  Reference(k) \in Heard(k)
<1>1. PICK n \in Nat : Sources = 1..n
  BY SourcesCounted
<1>2. Presence(k) \in SUBSET (0..n) /\ Presence(k) \in SUBSET Nat /\ Presence(k) # {}
  BY <1>1 DEF Presence
<1>3. PICK r \in Presence(k) : \A t \in Presence(k) : r <= t
  BY <1>2, LeastNumber
<1> DEFINE first == CHOOSE s \in Presence(k) : \A t \in Presence(k) : s <= t
<1>4. first \in Presence(k)
  BY <1>3
<1> HIDE DEF first
<1> DEFINE same == {s \in Presence(k) : named[s] = named[first]}
<1>5. same \in SUBSET (0..n) /\ same # {}
  BY <1>2, <1>4
<1>6. PICK m \in same : \A t \in same : t <= m
  <2> HIDE DEF same
  <2> QED
    BY <1>5, GreatestNumber
<1>7. m \in Heard(k) /\ named[m] = named[first]
  BY <1>6 DEF Heard
<1>8. Reference(k) = CHOOSE s \in Heard(k) : named[s] = named[first]
  BY DEF Reference, first
<1> QED
  BY <1>7, <1>8

\* For any number of sources, any files, names and samples, and lists of any length, no
\* two of the values kept of a key disagree unnoticed (compare_dataframes_nway).
THEOREM MissesNothingCorrect == NWaySpec => []NWayMissesNothing
<1>1. Tabulated => NWayMissesNothing
  <2> SUFFICES ASSUME matrix # NoReport, Tabulated,
                      NEW k \in AllKeys, NEW s \in Heard(k), NEW t \in Heard(k),
                      NEW c \in Breaks(Kept(sources[s], k), Kept(sources[t], k))
               PROVE  \/ <<k, c>> \in matrix.breaks
                      \/ k \notin matrix.listed /\ Cardinality(matrix.listed) = MaxListed
    BY DEF NWayMissesNothing
  <2>1. PICK dates \in SUBSET Cols :
          /\ matrix.listed \in Capped(Broken(dates))
          /\ matrix.breaks = {p \in matrix.listed \X Cols : Disagree(dates, p[1], p[2])}
    BY DEF Tabulated, FromSample
  <2>2. c \in Cols /\ ~SameValue(Cell(s, k, c), Cell(t, k, c))
    BY DEF Breaks, Cell
  <2>3. ASSUME NEW r, NEW u, SameScalar(dates, c, r, u)
        PROVE  SameValue(r, u)
    BY <2>3 DEF SameScalar, SameValue
  <2>4. Disagree(dates, k, c)
    <3> SUFFICES ASSUME ~Disagree(dates, k, c)
                 PROVE  FALSE
      OBVIOUS
    <3>1. /\ SameScalar(dates, c, Cell(Reference(k), k, c), Cell(s, k, c))
          /\ SameScalar(dates, c, Cell(Reference(k), k, c), Cell(t, k, c))
      BY DEF Disagree
    <3> QED
      BY <2>2, <2>3, <3>1, SameValueIsTransitive, ReconAssumption
  <2>5. k \in Broken(dates)
    BY <2>2, <2>4 DEF Broken
  <2>6. CASE k \in matrix.listed
    BY <2>1, <2>2, <2>4, <2>6
  <2>7. CASE k \notin matrix.listed
    <3>1. IsFiniteSet(Broken(dates))
      <4>1. Broken(dates) \in SUBSET AllKeys
        BY DEF Broken
      <4> QED
        BY <4>1, KeysAreFinite, FS_Subset
    <3>2. matrix.listed \in SUBSET Broken(dates) /\ matrix.listed # Broken(dates)
      BY <2>1, <2>5, <2>7 DEF Capped, Excerpts
    <3>3. Cardinality(matrix.listed) # Cardinality(Broken(dates))
      BY <3>1, <3>2, FS_Subset
    <3> QED
      BY <2>1, <2>7, <3>3 DEF Capped, Excerpts
  <2> QED
    BY <2>6, <2>7
<1> QED
  BY <1>1, MatrixIsTabulated, PTL

\* For any number of sources, no key counts twice among those that all sources have, that
\* one has and that some have, and the breaks are those of keys listed
\* (compare_dataframes_nway).
THEOREM NWayTypeCorrect == NWaySpec => []NWayTypeOK
<1>1. Tabulated => NWayTypeOK
  <2> SUFFICES ASSUME Tabulated, matrix # NoReport
               PROVE  /\ matrix.full \cup matrix.single \cup matrix.partial \cup matrix.listed
                             \subseteq AllKeys
                      /\ matrix.full \cap matrix.single = {}
                      /\ matrix.partial \cap (matrix.full \cup matrix.single) = {}
                      /\ matrix.breaks \subseteq matrix.listed \X Cols
    BY DEF Tabulated, NWayTypeOK
  <2>1. Cardinality(Sources) # 1
    <3>1. PICK n \in Nat : n >= 3 /\ Sources = 1..n
      BY SourcesCounted
    <3>2. Cardinality(1..n) = n
      BY FS_Interval
    <3> QED
      BY <3>1, <3>2
  <2>2. PICK dates \in SUBSET Cols :
          /\ matrix.full = Full
          /\ matrix.single = Single
          /\ matrix.partial \subseteq Partial
          /\ matrix.listed \subseteq Broken(dates)
          /\ matrix.breaks \subseteq matrix.listed \X Cols
    BY DEF Tabulated, FromSample, Capped, Excerpts
  <2> QED
    BY <2>1, <2>2 DEF Full, Single, Partial, Broken
<1> QED
  BY <1>1, MatrixIsTabulated, PTL

\* For any sources, samples and names, a break listed is one between two of the values kept,
\* for the engine for two files as well, or a date in a column not recognised as dates
\* (compare_dataframes_nway against _key_based_diff).
THEOREM EnginesCorrect == NWaySpec => []EnginesAgree
<1>1. Tabulated => EnginesAgree
  <2> SUFFICES ASSUME Tabulated, matrix # NoReport,
                      NEW k \in AllKeys, NEW c \in Cols, <<k, c>> \in matrix.breaks,
                      ~\E s, t \in Heard(k) :
                          c \in Breaks(Kept(sources[s], k), Kept(sources[t], k))
               PROVE  /\ \E s \in Heard(k) : Cell(s, k, c) \in DateTexts
                      /\ \E F \in Excerpts(AllKeys, SampleSize) :
                            \E S \in Samples(F, c) : ~MostlyDates(S, c)
    BY DEF EnginesAgree
  <2>1. PICK F \in Excerpts(AllKeys, SampleSize), dates \in SUBSET Cols :
          DateLike(F, dates) /\ Disagree(dates, k, c)
    BY DEF Tabulated, FromSample
  <2>2. PICK s \in Heard(k) : ~SameScalar(dates, c, Cell(Reference(k), k, c), Cell(s, k, c))
    BY <2>1 DEF Disagree
  <2>3. Reference(k) \in Heard(k)
    BY <2>2, ReferenceIsHeard DEF Heard
  <2>4. SameValue(Cell(Reference(k), k, c), Cell(s, k, c))
    BY <2>2, <2>3 DEF Breaks, Cell
  <2>5. Cell(Reference(k), k, c) \in DateTexts /\ c \notin dates
    BY <2>2, <2>4 DEF SameValue, SameScalar
  <2>6. \E S \in Samples(F, c) : ~MostlyDates(S, c)
    BY <2>1, <2>5 DEF DateLike
  <2> QED
    BY <2>3, <2>5, <2>6
<1> QED
  BY <1>1, MatrixIsTabulated, PTL

------------------------------------------------------------------------------
(* Tolerances. *)

\* A filtered list holds what is at the places kept, and nothing else.
LEMMA ElementsAtPlaces ==
    ASSUME NEW R, NEW s \in Seq(R), NEW S \in SUBSET (DOMAIN s)
    PROVE  /\ ElementsAt(s, S) \in Seq(R)
           /\ Len(ElementsAt(s, S)) = Cardinality(S)
           /\ \A i \in S : \E n \in DOMAIN ElementsAt(s, S) : ElementsAt(s, S)[n] = s[i]
           /\ \A n \in DOMAIN ElementsAt(s, S) : \E i \in S : ElementsAt(s, S)[n] = s[i]
<1> DEFINE rank(i) == Cardinality({j \in S : j <= i})
           place(n) == CHOOSE i \in S : rank(i) = n
           m == Cardinality(S)
<1>1. /\ Len(s) \in Nat /\ S \in SUBSET (1..Len(s))
  OBVIOUS
<1>2. m \in Nat
  BY <1>1, RowsSplit
<1>3. /\ \A i \in S : rank(i) \in 1..m
      /\ \A i, k \in S : rank(i) = rank(k) => i = k
      /\ \A n \in 1..m : \E i \in S : rank(i) = n
  BY <1>1, RanksOfRows
<1>4. ElementsAt(s, S) = [n \in 1..m |-> s[place(n)]]
  BY DEF ElementsAt
<1> HIDE DEF rank, m
<1>5. \A n \in 1..m : place(n) \in S /\ rank(place(n)) = n
  BY <1>3
<1>6. \A i \in S : place(rank(i)) = i
  BY <1>3, <1>5
<1> HIDE DEF place
<1>7. \A n \in 1..m : s[place(n)] \in R
  BY <1>5
<1>8. ElementsAt(s, S) \in [1..m -> R]
  BY <1>4, <1>7
<1>9. ElementsAt(s, S) \in Seq(R) /\ Len(ElementsAt(s, S)) = m /\ DOMAIN ElementsAt(s, S) = 1..m
  BY <1>2, <1>8
<1>10. \A i \in S : ElementsAt(s, S)[rank(i)] = s[i]
  BY <1>3, <1>4, <1>6
<1>11. \A n \in 1..m : ElementsAt(s, S)[n] = s[place(n)]
  BY <1>4
<1> QED
  BY <1>3, <1>5, <1>9, <1>10, <1>11 DEF m

\* What is listed of the breaks is their first part.
LEMMA ListedBreaks ==
    ASSUME ToleranceAssumption, NEW bs \in Seq(Changes)
    PROVE  /\ Compare(bs).listed \in Seq(Changes)
           /\ \A i \in DOMAIN bs : i <= Shown =>
                  i \in DOMAIN Compare(bs).listed /\ Compare(bs).listed[i] = bs[i]
           /\ Len(bs) <= Shown => Compare(bs).listed = bs
           /\ Len(Compare(bs).listed) <= Len(bs)
<1> DEFINE m == IF Len(bs) > Shown THEN Shown ELSE Len(bs)
<1>1. m \in 0..Len(bs) /\ Len(bs) \in Nat
  BY DEF ToleranceAssumption
<1>2. Compare(bs).listed = SubSeq(bs, 1, m)
  BY DEF Compare
<1>3. /\ SubSeq(bs, 1, m) \in Seq(Changes) /\ Len(SubSeq(bs, 1, m)) = m
      /\ \A i \in 1..m : SubSeq(bs, 1, m)[i] = bs[i]
  BY <1>1
<1>4. \A i \in DOMAIN bs : i <= Shown => i \in 1..m
  BY <1>1 DEF ToleranceAssumption
<1>5. Len(bs) <= Shown => m = Len(bs) /\ SubSeq(bs, 1, Len(bs)) = bs
  BY <1>1 DEF ToleranceAssumption
<1> HIDE DEF m
<1> QED
  BY <1>1, <1>2, <1>3, <1>4, <1>5

\* The answer of the comparison, as it was or with the tolerated rows apart.
Sifted ==
    LET all == Compare(breaks).listed
        tolerated == {i \in DOMAIN all : Within(all[i])}
        kept == DOMAIN all \ tolerated
    IN  /\ breaks \in Seq(Changes)
        /\ applied \in BOOLEAN
        /\ \/ diff = Compare(breaks)
           \/ /\ applied
              /\ diff = [listed |-> ElementsAt(all, kept),
                         within |-> ElementsAt(all, tolerated),
                         count  |-> Cardinality(kept)]

LEMMA AnswerIsSifted == ToleranceSpec => []Sifted
<1>1. ToleranceInit => Sifted
  <2> SUFFICES ASSUME ToleranceInit
               PROVE  Sifted
    OBVIOUS
  <2>1. PICK n \in 0..MaxBreaks : breaks \in [1..n -> Changes]
    BY DEF ToleranceInit
  <2>2. n \in Nat
    BY <2>1, ToleranceAssumption DEF ToleranceAssumption
  <2>3. breaks \in Seq(Changes)
    BY <2>1, <2>2
  <2>4. diff = Compare(breaks) /\ applied \in BOOLEAN
    BY DEF ToleranceInit
  <2> QED
    BY <2>3, <2>4 DEF Sifted
<1>2. Sifted /\ [ToleranceNext]_toleranceVars => Sifted'
  <2> SUFFICES ASSUME Sifted, [ToleranceNext]_toleranceVars
               PROVE  Sifted'
    OBVIOUS
  <2>1. /\ breaks' = breaks /\ rules' = rules
        /\ \A row : Within(row)' <=> Within(row)
    BY DEF ToleranceNext, ApplyExceptionRules, Applied, toleranceVars, Within, ColWithinTol
  <2>2. CASE ApplyExceptionRules
    <3>1. ~applied /\ applied' = TRUE /\ diff = Compare(breaks)
      BY <2>2 DEF ApplyExceptionRules, Sifted
    <3> QED
      BY <2>1, <2>2, <3>1 DEF ApplyExceptionRules, Sifted, Compare
  <2>3. CASE UNCHANGED toleranceVars
    BY <2>1, <2>3 DEF toleranceVars, Sifted, Compare
  <2> QED
    BY <2>2, <2>3 DEF ToleranceNext, Applied
<1> QED
  BY <1>1, <1>2, PTL DEF ToleranceSpec

\* For any number of breaks, the answer lists changes, and counts no more than there are
\* (_apply_exception_rules).
THEOREM ToleranceTypeCorrect == ToleranceSpec => []ToleranceTypeOK
<1>1. Sifted => ToleranceTypeOK
  <2> SUFFICES ASSUME Sifted
               PROVE  ToleranceTypeOK
    OBVIOUS
  <2> DEFINE all == Compare(breaks).listed
             tolerated == {i \in DOMAIN all : Within(all[i])}
             kept == DOMAIN all \ tolerated
  <2>1. /\ all \in Seq(Changes) /\ Len(all) <= Len(breaks) /\ Len(all) \in Nat
        /\ Len(breaks) \in Nat
    BY ListedBreaks, ToleranceAssumption DEF Sifted
  <2>2. kept \in SUBSET (DOMAIN all) /\ tolerated \in SUBSET (DOMAIN all)
        /\ kept \in SUBSET (1..Len(all))
    BY <2>1
  <2>3. CASE diff = Compare(breaks)
    BY <2>1, <2>3 DEF Sifted, ToleranceTypeOK, Compare
  <2> HIDE DEF all, tolerated, kept
  <2>4. ElementsAt(all, kept) \in Seq(Changes) /\ ElementsAt(all, tolerated) \in Seq(Changes)
    BY <2>1, <2>2, ElementsAtPlaces
  <2>5. Cardinality(kept) \in 0..Len(breaks)
    <3>1. Cardinality(kept) <= Len(all) /\ Cardinality(kept) \in Nat
      BY <2>1, <2>2, RowsSplit
    <3> QED
      BY <2>1, <3>1
  <2>6. CASE diff = [listed |-> ElementsAt(all, kept), within |-> ElementsAt(all, tolerated),
                     count |-> Cardinality(kept)]
    BY <2>4, <2>5, <2>6 DEF Sifted, ToleranceTypeOK
  <2> QED
    BY <2>3, <2>6 DEF Sifted, all, tolerated, kept
<1> QED
  BY <1>1, AnswerIsSifted, PTL

\* For any number of breaks and any rules, what is left and what is within tolerance are
\* all breaks, as far as they are listed, and a row with a change that no rule excuses
\* stays listed (_apply_exception_rules).
THEOREM TolerancesCorrect == ToleranceSpec => []TolerancesHideNothing
<1>1. Sifted => TolerancesHideNothing
  <2> SUFFICES ASSUME Sifted
               PROVE  TolerancesHideNothing
    OBVIOUS
  <2> DEFINE all == Compare(breaks).listed
             tolerated == {i \in DOMAIN all : Within(all[i])}
             kept == DOMAIN all \ tolerated
             excused(i) == \A c \in DOMAIN breaks[i] :
                               \E r \in rules : r.column \in {c, "*"} /\ r.mode \in breaks[i][c]
  <2>1. /\ all \in Seq(Changes) /\ Len(all) \in Nat /\ Len(breaks) \in Nat
        /\ DOMAIN all = 1..Len(all)
        /\ Len(breaks) <= Shown => all = breaks
        /\ \A i \in DOMAIN breaks : i <= Shown => i \in DOMAIN all /\ all[i] = breaks[i]
    BY ListedBreaks, ToleranceAssumption DEF Sifted
  <2>2. kept \in SUBSET (DOMAIN all) /\ tolerated \in SUBSET (DOMAIN all)
        /\ tolerated \in SUBSET (1..Len(all)) /\ kept = (1..Len(all)) \ tolerated
    BY <2>1
  <2>3. \A i \in DOMAIN breaks : i <= Shown /\ ~excused(i) => i \in kept
    BY <2>1 DEF Within, ColWithinTol
  <2>4. CASE diff = Compare(breaks)
    <3>1. diff.listed = all /\ diff.within = <<>> /\ diff.count = Len(breaks)
      BY <2>4 DEF Compare
    <3> QED
      BY <2>1, <2>3, <3>1 DEF TolerancesHideNothing
  <2>5. CASE diff = [listed |-> ElementsAt(all, kept), within |-> ElementsAt(all, tolerated),
                     count |-> Cardinality(kept)]
    <3> HIDE DEF all, tolerated, kept, excused
    <3>1. diff.listed = ElementsAt(all, kept) /\ diff.count = Cardinality(kept)
          /\ diff.within = ElementsAt(all, tolerated)
      BY <2>5
    <3>2. /\ \A i \in kept : \E n \in DOMAIN diff.listed : diff.listed[n] = all[i]
          /\ Len(diff.within) = Cardinality(tolerated)
      <4>1. /\ \A i \in kept :
                  \E n \in DOMAIN ElementsAt(all, kept) : ElementsAt(all, kept)[n] = all[i]
            /\ Len(ElementsAt(all, tolerated)) = Cardinality(tolerated)
        BY <2>1, <2>2, ElementsAtPlaces
      <4> QED
        BY <3>1, <4>1
    <3>3. Cardinality(kept) = Len(all) - Cardinality(tolerated) /\ Cardinality(tolerated) \in Nat
      BY <2>1, <2>2, RowsSplit
    <3>4. Len(breaks) <= Shown => diff.count + Len(diff.within) = Len(breaks)
      BY <2>1, <3>1, <3>2, <3>3
    <3>5. \A i \in DOMAIN breaks : i <= Shown /\ ~excused(i) =>
              \E j \in DOMAIN diff.listed : diff.listed[j] = breaks[i]
      BY <2>1, <2>3, <3>2
    <3> QED
      BY <3>4, <3>5 DEF TolerancesHideNothing, excused
  <2> QED
    BY <2>4, <2>5 DEF Sifted
<1> QED
  BY <1>1, AnswerIsSifted, PTL

------------------------------------------------------------------------------
(* CrossReference. *)

\* Lists of sources, as they are loaded.
Loaded(ss) == ss \in Seq(Range(ss)) /\ \A s \in Range(ss) : IsSource(s)

\* Sources with names of their own are found by them.
LEMMA NamesAreUnique ==
    ASSUME NEW ss, Loaded(ss), Cardinality(NamesIn(ss)) = Len(ss)
    PROVE  /\ \A i, j \in DOMAIN ss : ss[i].name = ss[j].name => i = j
           /\ \A i \in DOMAIN ss : ByName(ss, ss[i].name) = ss[i]
<1> DEFINE name == [i \in DOMAIN ss |-> ss[i].name]
<1>1. DOMAIN ss = 1..Len(ss) /\ Len(ss) \in Nat
  BY DEF Loaded
<1>2. name \in Surjection(DOMAIN ss, NamesIn(ss))
  <2>1. \A i \in DOMAIN ss : name[i] \in NamesIn(ss)
    BY DEF NamesIn, Range
  <2>2. \A n \in NamesIn(ss) : \E i \in DOMAIN ss : name[i] = n
    BY DEF NamesIn, Range
  <2> QED
    BY <2>1, <2>2 DEF Surjection
<1>3. IsFiniteSet(DOMAIN ss) /\ Cardinality(DOMAIN ss) = Len(ss)
  BY <1>1, RowsCounted
<1>4. name \in Injection(DOMAIN ss, NamesIn(ss))
  <2> HIDE DEF name
  <2> QED
    BY <1>2, <1>3, FS_Surjection
<1>5. \A i, j \in DOMAIN ss : ss[i].name = ss[j].name => i = j
  <2>1. \A i, j \in DOMAIN ss : name[i] = name[j] => i = j
    BY <1>4 DEF Injection, IsInjective
  <2> QED
    BY <2>1
<1>6. ASSUME NEW i \in DOMAIN ss
      PROVE  ByName(ss, ss[i].name) = ss[i]
  <2>1. {j \in DOMAIN ss : ss[j].name = ss[i].name} = {i}
    BY <1>5
  <2>2. Max({i}) = i
    BY <1>1 DEF Max
  <2> QED
    BY <2>1, <2>2 DEF ByName
<1> QED
  BY <1>5, <1>6

\* A key that a source has in one row leads to that row.
LEMMA RowOfKey ==
    ASSUME NEW s, NEW o, IsSource(s), NEW x, Once(s, o, x)
    PROVE  /\ x \in DOMAIN Keyed(s, KeyColumn(s, o))
           /\ \E r \in Range(s.rows) :
                 /\ Keyed(s, KeyColumn(s, o))[x] = r
                 /\ KeyForm[r[KeyColumn(s, o)]] = x
                 /\ \A q \in Range(s.rows) : KeyForm[q[KeyColumn(s, o)]] = x => q = r
<1> DEFINE k == KeyColumn(s, o)
           at == {i \in DOMAIN s.rows : KeyForm[s.rows[i][k]] = x}
<1>1. s.rows \in Seq(Range(s.rows)) /\ DOMAIN s.rows = 1..Len(s.rows) /\ Len(s.rows) \in Nat
  BY DEF IsSource
<1>2. PICK i : at = {i}
  <2>1. at \in SUBSET (1..Len(s.rows))
    BY <1>1
  <2>2. IsFiniteSet(at)
    BY <1>1, <2>1, RowsSplit
  <2> QED
    BY <2>2, FS_Singleton DEF Once
<1>3. i \in Nat /\ Min(at) = i
  <2>1. i \in Nat
    BY <1>1, <1>2
  <2> QED
    BY <1>2, <2>1 DEF Min
<1>4. i \in DOMAIN s.rows /\ KeyForm[s.rows[i][k]] = x /\ s.rows[i] \in Range(s.rows)
  BY <1>2 DEF Range
<1>5. x \in DOMAIN Keyed(s, k) /\ Keyed(s, k)[x] = s.rows[i]
  BY <1>3, <1>4 DEF Keyed
<1>6. \A q \in Range(s.rows) : KeyForm[q[k]] = x => q = s.rows[i]
  BY <1>2 DEF Range
<1> QED
  BY <1>4, <1>5, <1>6

\* An answer holds the conflicts of the sources it is for.
LEMMA AnswerIsConflicting ==
    ASSUME NEW ss, NEW o, AnalyzeCrossReference(ss, o) # Failed
    PROVE  /\ AnalyzeCrossReference(ss, o).conflicts = Conflicting(ss, o)
           /\ AnalyzeCrossReference(ss, o).tolerated = {}
BY DEF AnalyzeCrossReference

\* The value of a source in a field is the text under its one label for it.
LEMMA ValueUnderLabel ==
    ASSUME NEW ss, NEW o, Loaded(ss), Distinguished(ss, o), NEW i \in DOMAIN ss, NEW row, NEW f
    PROVE  LET cols == Columned(ss[i], KeyColumn(ss[i], o), f)
               v    == ValueOf(ss, KeyOf(ss, o), row, ss[i].name, f)
           IN  /\ KeyOf(ss, o)[ss[i].name] = KeyColumn(ss[i], o)
               /\ cols = {} => v = Failed
               /\ \A j \in cols : v = row[ss[i].labels[j]]
<1> DEFINE n == ss[i].name
           k == KeyColumn(ss[i], o)
           cols == Columned(ss[i], k, f)
           v == ValueOf(ss, KeyOf(ss, o), row, n, f)
           having == {h \in DOMAIN ss : ss[h].name = n /\ Columned(ss[h], KeyOf(ss, o)[n], f) # {}}
<1>1. /\ \A h \in DOMAIN ss : ss[h].name = n => h = i
      /\ ByName(ss, n) = ss[i]
  BY NamesAreUnique DEF Distinguished
<1>2. n \in NamesIn(ss) /\ ss[i] \in Range(ss) /\ IsSource(ss[i])
  BY DEF NamesIn, Range, Loaded
<1>3. KeyOf(ss, o)[n] = k
  BY <1>1, <1>2 DEF KeyOf, KeyColumn
<1>4. DOMAIN ss = 1..Len(ss) /\ Len(ss) \in Nat /\ i \in Nat
  BY DEF Loaded
<1>5. having = IF cols = {} THEN {} ELSE {i}
  BY <1>1, <1>3
<1>6. cols = {} => v = Failed
  BY <1>3, <1>5 DEF ValueOf
<1>7. ASSUME NEW j \in cols
      PROVE  v = row[ss[i].labels[j]]
  <2>1. /\ ss[i].labels \in Seq(DOMAIN LabelForm)
        /\ DOMAIN ss[i].labels = 1..Len(ss[i].labels) /\ Len(ss[i].labels) \in Nat
    BY <1>2 DEF IsSource
  <2>2. cols \in SUBSET (0..Len(ss[i].labels)) /\ cols # {}
    BY <1>7, <2>1 DEF Columned
  <2>3. Max(cols) \in cols
    <3> HIDE DEF cols
    <3> QED
      BY <2>1, <2>2, GreatestNumber
  <2>4. ASSUME NEW h \in cols
        PROVE  /\ ss[i].labels[h] \in Range(ss[i].labels) \ {k}
               /\ LabelForm[ss[i].labels[h]] = f
    BY <2>4 DEF Columned, Range
  <2>5. ss[i].labels[Max(cols)] = ss[i].labels[j]
    BY <1>2, <1>7, <2>3, <2>4 DEF Distinguished
  <2>6. having = {i} /\ Max(having) = i
    <3>1. having = {i}
      BY <1>5, <1>7
    <3>2. Max({i}) = i
      BY <1>4 DEF Max
    <3> QED
      BY <3>1, <3>2
  <2>7. ss[i].labels[Max(cols)] \in Range(ByName(ss, n).labels)
    BY <1>1, <2>3, <2>4
  <2> QED
    BY <1>3, <2>5, <2>6, <2>7 DEF ValueOf
<1> QED
  BY <1>3, <1>6, <1>7

\* The values of a key that every source has in one row.
ValuesOf(ss, o, x, f) ==
    [n \in NamesIn(ss) |-> ValueOf(ss, KeyOf(ss, o), RowsOf(ss, o)[n][x], n, f)]

ReadsItsRow(ss, o, x, f, i) ==
    LET k    == KeyColumn(ss[i], o)
        cols == Columned(ss[i], k, f)
        v    == ValuesOf(ss, o, x, f)[ss[i].name]
    IN  /\ x \in DOMAIN RowsOf(ss, o)[ss[i].name]
        /\ cols = {} => v = Failed
        /\ \E r \in Range(ss[i].rows) :
              /\ KeyForm[r[k]] = x
              /\ \A q \in Range(ss[i].rows) : KeyForm[q[k]] = x => q = r
              /\ \A j \in cols : v = r[ss[i].labels[j]]

LEMMA ValuesOfKey ==
    ASSUME NEW ss, NEW o, Loaded(ss), Distinguished(ss, o), NEW f, NEW x,
           \A s \in Range(ss) : Once(s, o, x), NEW i \in DOMAIN ss
    PROVE  ReadsItsRow(ss, o, x, f, i)
<1> DEFINE n == ss[i].name
           k == KeyColumn(ss[i], o)
<1>1. n \in NamesIn(ss) /\ ss[i] \in Range(ss) /\ IsSource(ss[i])
  BY DEF NamesIn, Range, Loaded
<1>2. ByName(ss, n) = ss[i]
  BY NamesAreUnique DEF Distinguished
<1>3. KeyOf(ss, o)[n] = k
  BY ValueUnderLabel
<1>4. RowsOf(ss, o)[n] = Keyed(ss[i], k)
  BY <1>1, <1>2, <1>3 DEF RowsOf
<1>5. PICK r \in Range(ss[i].rows) :
          /\ RowsOf(ss, o)[n][x] = r
          /\ KeyForm[r[k]] = x
          /\ \A q \in Range(ss[i].rows) : KeyForm[q[k]] = x => q = r
  BY <1>1, <1>4, RowOfKey
<1>6. x \in DOMAIN RowsOf(ss, o)[n]
  BY <1>1, <1>4, RowOfKey
<1>7. ValuesOf(ss, o, x, f)[n] = ValueOf(ss, KeyOf(ss, o), r, n, f)
  BY <1>1, <1>5 DEF ValuesOf
<1> QED
  BY <1>5, <1>6, <1>7, ValueUnderLabel DEF ReadsItsRow

\* A finite set has at most one element if and only if its elements are all the same.
LEMMA AtMostOne ==
    ASSUME NEW S, IsFiniteSet(S)
    PROVE  /\ Cardinality(S) \in Nat
           /\ Cardinality(S) <= 1 <=> \A a, b \in S : a = b
<1>1. Cardinality(S) \in Nat
  BY FS_CardinalityType
<1>2. ASSUME Cardinality(S) <= 1, NEW a \in S, NEW b \in S
      PROVE  a = b
  <2>1. Cardinality(S) = 0 \/ Cardinality(S) = 1
    BY <1>1, <1>2
  <2>2. Cardinality(S) # 0
    BY <1>2, FS_EmptySet
  <2>3. \E z : S = {z}
    BY <2>1, <2>2, FS_Singleton
  <2> QED
    BY <1>2, <2>3
<1>3. ASSUME \A a, b \in S : a = b
      PROVE  Cardinality(S) <= 1
  <2>1. CASE S = {}
    BY <2>1, FS_EmptySet
  <2>2. CASE S # {}
    <3>1. \E z : S = {z}
      BY <1>3, <2>2
    <3>2. Cardinality(S) = 1
      BY <3>1, FS_Singleton
    <3> QED
      BY <3>2
  <2> QED
    BY <2>1, <2>2
<1> QED
  BY <1>1, <1>2, <1>3

\* There are finitely many names.
LEMMA NamesAreFinite ==
    ASSUME NEW ss, Loaded(ss)
    PROVE  IsFiniteSet(NamesIn(ss))
<1> DEFINE name == [i \in DOMAIN ss |-> ss[i].name]
<1>1. IsFiniteSet(DOMAIN ss)
  BY RowsCounted DEF Loaded
<1>2. IsFiniteSet({name[i] : i \in DOMAIN ss})
  BY <1>1, ImageIsFinite
<1>3. NamesIn(ss) = {name[i] : i \in DOMAIN ss}
  BY DEF NamesIn, Range
<1> QED
  BY <1>2, <1>3

\* A field is compared exactly if it is asked for and two columns are called so.
LEMMA FieldIsCommon ==
    ASSUME NEW ss, NEW keyOf, NEW fields, Loaded(ss), NEW f \in Range(LabelForm),
           fields = Unasked \/ f \in fields,
           NEW i \in DOMAIN ss, NEW j \in DOMAIN ss, i # j,
           Columned(ss[i], keyOf[ss[i].name], f) # {},
           Columned(ss[j], keyOf[ss[j].name], f) # {}
    PROVE  f \in CommonFields(ss, keyOf, fields)
<1> DEFINE cols == [h \in DOMAIN ss |-> {h} \X Columned(ss[h], keyOf[ss[h].name], f)]
           columns == UNION {cols[h] : h \in DOMAIN ss}
<1>1. \A h \in DOMAIN ss : IsFiniteSet(cols[h])
  <2> TAKE h \in DOMAIN ss
  <2>1. Len(ss[h].labels) \in Nat /\ DOMAIN ss[h].labels = 1..Len(ss[h].labels)
    BY DEF Loaded, IsSource, Range
  <2>2. IsFiniteSet(Columned(ss[h], keyOf[ss[h].name], f))
    <3>1. Columned(ss[h], keyOf[ss[h].name], f) \in SUBSET (1..Len(ss[h].labels))
      BY <2>1 DEF Columned
    <3> QED
      BY <2>1, <3>1, RowsSplit
  <2>3. IsFiniteSet({h})
    BY FS_Singleton
  <2> QED
    BY <2>2, <2>3, FS_Product
<1>2. IsFiniteSet(DOMAIN ss)
  BY RowsCounted DEF Loaded
<1>3. IsFiniteSet(columns)
  <2>1. cols = [h \in DOMAIN ss |-> cols[h]]
    OBVIOUS
  <2>2. IsFiniteSet({cols[h] : h \in DOMAIN ss})
    <3> HIDE DEF cols
    <3> QED
      BY <1>2, <2>1, ImageIsFinite
  <2> HIDE DEF cols
  <2> QED
    BY <1>1, <2>2, FS_UNION
<1>4. \E a, b \in columns : a # b
  <2>1. PICK p \in Columned(ss[i], keyOf[ss[i].name], f),
             q \in Columned(ss[j], keyOf[ss[j].name], f) : TRUE
    OBVIOUS
  <2>2. <<i, p>> \in cols[i] /\ <<j, q>> \in cols[j]
    BY <2>1
  <2>3. <<i, p>> \in columns /\ <<j, q>> \in columns
    <3> HIDE DEF cols
    <3> QED
      BY <2>2
  <2>4. <<i, p>> # <<j, q>>
    OBVIOUS
  <2> QED
    BY <2>3, <2>4
<1>5. Cardinality(columns) >= 2
  <2> HIDE DEF columns
  <2> QED
    BY <1>3, <1>4, AtMostOne
<1>6. columns = UNION {{h} \X Columned(ss[h], keyOf[ss[h].name], f) : h \in DOMAIN ss}
  OBVIOUS
<1> QED
  BY <1>5, <1>6 DEF CommonFields

\* A conflict is one of some key and field.
LEMMA ConflictIsListed ==
    ASSUME NEW ss, NEW o, NEW c
    PROVE  c \in Conflicting(ss, o) <=>
              \E x \in Everywhere(ss, o), f \in CommonFields(ss, KeyOf(ss, o), o.fields) :
                 c \in ConflictAt(ss, KeyOf(ss, o), RowsOf(ss, o), x, f, o.golden)
BY DEF Conflicting

\* There is a conflict in a field exactly if there is more than one text.
TextsDecide(ss, keyOf, rows, x, f, golden) ==
    LET at    == ConflictAt(ss, keyOf, rows, x, f, golden)
        v     == [n \in DOMAIN rows |-> ValueOf(ss, keyOf, rows[n][x], n, f)]
        gold  == GoldenValue(ss, v, golden)
        texts == {TextForm[v[n]] : n \in Held(v)}
    IN  /\ Cardinality(texts) <= 1 => at = {}
        /\ ~(Cardinality(texts) <= 1) =>
              /\ at # {}
              /\ \A c \in at :
                    /\ c.key = x /\ c.field = f /\ c.values = v
                    /\ c.agree = {n \in Held(v) : TextForm[v[n]] = TextForm[gold]}
                    /\ c.differ = {n \in Held(v) : TextForm[v[n]] # TextForm[gold]}

LEMMA ConflictOfTexts ==
    ASSUME NEW ss, NEW keyOf, NEW rows, NEW x, NEW f, NEW golden
    PROVE  TextsDecide(ss, keyOf, rows, x, f, golden)
<1> DEFINE v == [n \in DOMAIN rows |-> ValueOf(ss, keyOf, rows[n][x], n, f)]
           gold == GoldenValue(ss, v, golden)
           agree == {n \in Held(v) : TextForm[v[n]] = TextForm[gold]}
           differ == {n \in Held(v) : TextForm[v[n]] # TextForm[gold]}
           texts == {TextForm[v[n]] : n \in Held(v)}
<1>1. ConflictAt(ss, keyOf, rows, x, f, golden) =
          IF Cardinality(texts) <= 1 THEN {}
          ELSE {[key |-> x, field |-> f, values |-> v, golden |-> gold,
                 agree |-> agree, differ |-> differ]}
  BY DEF ConflictAt
<1> HIDE DEF v, gold, agree, differ, texts
<1>2. \A c \in ConflictAt(ss, keyOf, rows, x, f, golden) :
          c.key = x /\ c.field = f /\ c.values = v /\ c.agree = agree /\ c.differ = differ
  BY <1>1
<1>3. (Cardinality(texts) <= 1) <=> ConflictAt(ss, keyOf, rows, x, f, golden) = {}
  BY <1>1
<1> QED
  BY <1>2, <1>3 DEF v, gold, agree, differ, texts, TextsDecide

\* A disagreement about a key that every source has in one row is a conflict, and a
\* conflict a disagreement.
FindsWhatDiffers(ss, o, x, f) ==
    /\ Distinguished(ss, o)
    /\ \A s \in Range(ss) : Once(s, o, x)
    /\ o.fields = Unasked \/ f \in o.fields
    => (Differs(ss, o, x, f) <=> \E c \in Conflicting(ss, o) : c.key = x /\ c.field = f)

LEMMA ConflictIsDisagreement ==
    ASSUME CrossReferenceAssumption, NEW ss, NEW o, Loaded(ss), NEW x, NEW f \in Range(LabelForm)
    PROVE  FindsWhatDiffers(ss, o, x, f)
<1> SUFFICES ASSUME Distinguished(ss, o), o.fields = Unasked \/ f \in o.fields,
                    \A s \in Range(ss) : Once(s, o, x)
             PROVE  Differs(ss, o, x, f) <=> \E c \in Conflicting(ss, o) : c.key = x /\ c.field = f
  BY DEF FindsWhatDiffers
<1> DEFINE v == ValuesOf(ss, o, x, f)
           texts == {TextForm[v[n]] : n \in Held(v)}
           key(i) == KeyColumn(ss[i], o)
           cols(i) == Columned(ss[i], key(i), f)
           conflict == ConflictAt(ss, KeyOf(ss, o), RowsOf(ss, o), x, f, o.golden)
           several == \E m, n \in Held(v) : TextForm[v[m]] # TextForm[v[n]]
<1>1. \A i \in DOMAIN ss : ss[i] \in Range(ss) /\ ss[i].name \in NamesIn(ss) /\ IsSource(ss[i])
  BY DEF Loaded, NamesIn, Range
<1>2. \A n \in NamesIn(ss) : \E i \in DOMAIN ss : n = ss[i].name
  BY DEF NamesIn, Range
<1>3. DOMAIN RowsOf(ss, o) = NamesIn(ss)
  BY DEF RowsOf
<1>4. DOMAIN v = NamesIn(ss) /\ Held(v) \in SUBSET NamesIn(ss)
  BY DEF ValuesOf, Held
<1>5. v = [n \in DOMAIN RowsOf(ss, o) |-> ValueOf(ss, KeyOf(ss, o), RowsOf(ss, o)[n][x], n, f)]
  BY <1>3 DEF ValuesOf
<1>6. ASSUME NEW i \in DOMAIN ss
      PROVE  /\ x \in DOMAIN RowsOf(ss, o)[ss[i].name]
             /\ KeyOf(ss, o)[ss[i].name] = key(i)
             /\ cols(i) = {} => v[ss[i].name] = Failed
             /\ \E r \in Range(ss[i].rows) :
                   /\ KeyForm[r[key(i)]] = x
                   /\ \A q \in Range(ss[i].rows) : KeyForm[q[key(i)]] = x => q = r
                   /\ \A j \in cols(i) : v[ss[i].name] = r[ss[i].labels[j]]
  <2>1. KeyOf(ss, o)[ss[i].name] = key(i)
    BY ValueUnderLabel
  <2>2. ReadsItsRow(ss, o, x, f, i)
    BY ValuesOfKey
  <2> QED
    BY <2>1, <2>2 DEF ReadsItsRow
<1>7. /\ Cardinality(texts) <= 1 => conflict = {}
      /\ ~(Cardinality(texts) <= 1) =>
            conflict # {} /\ \A c \in conflict : c.key = x /\ c.field = f
  <2> DEFINE w == [n \in DOMAIN RowsOf(ss, o) |->
                      ValueOf(ss, KeyOf(ss, o), RowsOf(ss, o)[n][x], n, f)]
             found == {TextForm[w[n]] : n \in Held(w)}
  <2>1. v = w
    BY <1>5
  <2>2. /\ Cardinality(found) <= 1 => conflict = {}
        /\ ~(Cardinality(found) <= 1) =>
              conflict # {} /\ \A c \in conflict : c.key = x /\ c.field = f
    <3>1. TextsDecide(ss, KeyOf(ss, o), RowsOf(ss, o), x, f, o.golden)
      BY ConflictOfTexts
    <3> QED
      BY <3>1 DEF TextsDecide
  <2> HIDE DEF v, w, conflict
  <2> QED
    BY <2>1, <2>2
<1> HIDE DEF v, key, cols, conflict
<1>8. Cardinality(texts) <= 1 <=> ~several
  <2> DEFINE text == [n \in Held(v) |-> TextForm[v[n]]]
  <2>1. IsFiniteSet(Held(v))
    BY <1>4, NamesAreFinite, FS_Subset
  <2>2. text = [n \in Held(v) |-> text[n]]
    OBVIOUS
  <2>3. texts = {text[n] : n \in Held(v)}
    OBVIOUS
  <2>4. several <=> ~(\A a, b \in texts : a = b)
    OBVIOUS
  <2> HIDE DEF text, texts, several
  <2>5. IsFiniteSet(texts)
    BY <2>1, <2>2, <2>3, ImageIsFinite
  <2> QED
    BY <2>4, <2>5, AtMostOne
<1> HIDE DEF texts
<1>9. ASSUME several
      PROVE  Differs(ss, o, x, f)
  <2>1. PICK m \in Held(v), n \in Held(v) : TextForm[v[m]] # TextForm[v[n]]
    BY <1>9
  <2>2. PICK i \in DOMAIN ss : m = ss[i].name
    BY <1>2, <1>4
  <2>3. PICK j \in DOMAIN ss : n = ss[j].name
    BY <1>2, <1>4
  <2>4. v[m] \notin {Failed, ""} /\ v[n] \notin {Failed, ""}
    BY DEF Held
  <2>5. PICK p \in cols(i) : TRUE
    BY <1>6, <2>2, <2>4
  <2>6. PICK q \in cols(j) : TRUE
    BY <1>6, <2>3, <2>4
  <2>7. PICK r \in Range(ss[i].rows) : KeyForm[r[key(i)]] = x /\ v[m] = r[ss[i].labels[p]]
    BY <1>6, <2>2
  <2>8. PICK t \in Range(ss[j].rows) : KeyForm[t[key(j)]] = x /\ v[n] = t[ss[j].labels[q]]
    BY <1>6, <2>3
  <2>9. /\ ss[i].labels[p] \in Range(ss[i].labels) \ {key(i)} /\ LabelForm[ss[i].labels[p]] = f
        /\ ss[j].labels[q] \in Range(ss[j].labels) \ {key(j)} /\ LabelForm[ss[j].labels[q]] = f
    BY DEF cols, Columned, Range
  <2>10. ss[i] \in Range(ss) /\ ss[j] \in Range(ss) /\ ss[i] # ss[j]
    BY <1>1, <2>1, <2>2, <2>3
  <2> DEFINE l == ss[i].labels[p]
             k == ss[j].labels[q]
  <2>11. "" \notin {r[l], t[k]} /\ TextForm[r[l]] # TextForm[t[k]]
    BY <2>1, <2>4, <2>7, <2>8
  <2>12. /\ l \in Range(ss[i].labels) \ {KeyColumn(ss[i], o)} /\ LabelForm[l] = f
         /\ k \in Range(ss[j].labels) \ {KeyColumn(ss[j], o)} /\ LabelForm[k] = f
         /\ KeyForm[r[KeyColumn(ss[i], o)]] = x /\ KeyForm[t[KeyColumn(ss[j], o)]] = x
    BY <2>7, <2>8, <2>9 DEF key
  <2> HIDE DEF l, k
  <2>13. \E y \in Range(ss[i].labels) \ {KeyColumn(ss[i], o)},
            z \in Range(ss[j].labels) \ {KeyColumn(ss[j], o)} :
            /\ ss[i] # ss[j]
            /\ KeyForm[r[KeyColumn(ss[i], o)]] = x /\ KeyForm[t[KeyColumn(ss[j], o)]] = x
            /\ LabelForm[y] = f /\ LabelForm[z] = f
            /\ "" \notin {r[y], t[z]} /\ TextForm[r[y]] # TextForm[t[z]]
    BY <2>10, <2>11, <2>12
  <2> DEFINE s == ss[i]
             u == ss[j]
  <2>14. /\ s \in Range(ss) /\ u \in Range(ss)
         /\ \E y \in Range(s.labels) \ {KeyColumn(s, o)},
               z \in Range(u.labels) \ {KeyColumn(u, o)} :
               /\ s # u
               /\ KeyForm[r[KeyColumn(s, o)]] = x /\ KeyForm[t[KeyColumn(u, o)]] = x
               /\ LabelForm[y] = f /\ LabelForm[z] = f
               /\ "" \notin {r[y], t[z]} /\ TextForm[r[y]] # TextForm[t[z]]
    BY <2>10, <2>13
  <2>15. r \in Range(s.rows) /\ t \in Range(u.rows)
    BY <2>7, <2>8
  <2> HIDE DEF s, u
  <2> QED
    <3> SUFFICES \E a, b \in Range(ss) : \E c \in Range(a.rows), d \in Range(b.rows) :
                 \E y \in Range(a.labels) \ {KeyColumn(a, o)}, z \in Range(b.labels) \ {KeyColumn(b, o)} :
                    /\ a # b /\ KeyForm[c[KeyColumn(a, o)]] = x /\ KeyForm[d[KeyColumn(b, o)]] = x
                    /\ LabelForm[y] = f /\ LabelForm[z] = f
                    /\ "" \notin {c[y], d[z]} /\ TextForm[c[y]] # TextForm[d[z]]
      BY DEF Differs
    <3> s \in Range(ss) /\ u \in Range(ss) /\ r \in Range(s.rows) /\ t \in Range(u.rows)
      BY <2>14, <2>15
    <3> WITNESS s \in Range(ss), u \in Range(ss)
    <3> WITNESS r \in Range(s.rows), t \in Range(u.rows)
    <3> QED
      BY <2>14
<1>10. ASSUME Differs(ss, o, x, f)
       PROVE  /\ several
              /\ x \in Everywhere(ss, o)
              /\ f \in CommonFields(ss, KeyOf(ss, o), o.fields)
  <2>1. PICK s \in Range(ss), t \in Range(ss) :
          \E r \in Range(s.rows), q \in Range(t.rows) :
          \E l \in Range(s.labels) \ {KeyColumn(s, o)}, k \in Range(t.labels) \ {KeyColumn(t, o)} :
            /\ s # t /\ KeyForm[r[KeyColumn(s, o)]] = x /\ KeyForm[q[KeyColumn(t, o)]] = x
            /\ LabelForm[l] = f /\ LabelForm[k] = f
            /\ "" \notin {r[l], q[k]} /\ TextForm[r[l]] # TextForm[q[k]]
    BY <1>10 DEF Differs
  <2>2. PICK r \in Range(s.rows), q \in Range(t.rows),
             l \in Range(s.labels) \ {KeyColumn(s, o)}, k \in Range(t.labels) \ {KeyColumn(t, o)} :
            /\ s # t /\ KeyForm[r[KeyColumn(s, o)]] = x /\ KeyForm[q[KeyColumn(t, o)]] = x
            /\ LabelForm[l] = f /\ LabelForm[k] = f
            /\ "" \notin {r[l], q[k]} /\ TextForm[r[l]] # TextForm[q[k]]
    BY <2>1
  <2>3. PICK i \in DOMAIN ss : s = ss[i]
    BY DEF Range
  <2>4. PICK j \in DOMAIN ss : t = ss[j]
    BY DEF Range
  <2>5. PICK a \in cols(i) : l = ss[i].labels[a]
    BY <2>2, <2>3 DEF cols, key, Columned, Range
  <2>6. PICK b \in cols(j) : k = ss[j].labels[b]
    BY <2>2, <2>4 DEF cols, key, Columned, Range
  <2>7. v[ss[i].name] = r[l]
    <3>1. PICK w \in Range(ss[i].rows) :
              /\ \A z \in Range(ss[i].rows) : KeyForm[z[key(i)]] = x => z = w
              /\ \A h \in cols(i) : v[ss[i].name] = w[ss[i].labels[h]]
      BY <1>6
    <3>2. r \in Range(ss[i].rows) /\ KeyForm[r[key(i)]] = x
      BY <2>2, <2>3 DEF key
    <3> QED
      BY <2>5, <3>1, <3>2
  <2>8. v[ss[j].name] = q[k]
    <3>1. PICK w \in Range(ss[j].rows) :
              /\ \A z \in Range(ss[j].rows) : KeyForm[z[key(j)]] = x => z = w
              /\ \A h \in cols(j) : v[ss[j].name] = w[ss[j].labels[h]]
      BY <1>6
    <3>2. q \in Range(ss[j].rows) /\ KeyForm[q[key(j)]] = x
      BY <2>2, <2>4 DEF key
    <3> QED
      BY <2>6, <3>1, <3>2
  <2>9. r[l] # Failed /\ q[k] # Failed
    <3>1. IsSource(s) /\ IsSource(t)
      BY DEF Loaded
    <3>2. l \in Range(s.labels) /\ k \in Range(t.labels)
      OBVIOUS
    <3>3. r[l] \in DOMAIN TextForm /\ q[k] \in DOMAIN TextForm
      BY <3>1, <3>2 DEF IsSource
    <3> QED
      BY <3>3 DEF WellFormed
  <2>10. ss[i].name \in Held(v) /\ ss[j].name \in Held(v)
    BY <1>1, <1>4, <2>2, <2>7, <2>8, <2>9 DEF Held
  <2>11. several
    BY <2>2, <2>7, <2>8, <2>10
  <2>12. x \in Everywhere(ss, o)
    <3>1. \A n \in NamesIn(ss) : x \in DOMAIN RowsOf(ss, o)[n]
      BY <1>2, <1>6
    <3>2. ss[i].name \in NamesIn(ss)
      BY <1>1
    <3> QED
      BY <3>1, <3>2 DEF Everywhere, KeysIn
  <2>13. f \in CommonFields(ss, KeyOf(ss, o), o.fields)
    <3>1. /\ Columned(ss[i], KeyOf(ss, o)[ss[i].name], f) # {}
          /\ Columned(ss[j], KeyOf(ss, o)[ss[j].name], f) # {}
      BY <1>6 DEF cols
    <3>2. i # j
      BY <2>2, <2>3, <2>4
    <3> QED
      BY <3>1, <3>2, FieldIsCommon
  <2> QED
    BY <2>11, <2>12, <2>13
<1> HIDE DEF several
<1>11. ASSUME Differs(ss, o, x, f)
       PROVE  \E c \in Conflicting(ss, o) : c.key = x /\ c.field = f
  <2>1. PICK c \in conflict : c.key = x /\ c.field = f
    BY <1>7, <1>8, <1>10, <1>11
  <2>2. c \in Conflicting(ss, o)
    BY <1>10, <1>11, <2>1, ConflictIsListed DEF conflict
  <2> QED
    BY <2>1, <2>2
<1>12. ASSUME NEW c \in Conflicting(ss, o), c.key = x, c.field = f
       PROVE  Differs(ss, o, x, f)
  <2>1. PICK y \in Everywhere(ss, o), g \in CommonFields(ss, KeyOf(ss, o), o.fields) :
            c \in ConflictAt(ss, KeyOf(ss, o), RowsOf(ss, o), y, g, o.golden)
    BY ConflictIsListed
  <2>2. c.key = y /\ c.field = g
    <3>1. TextsDecide(ss, KeyOf(ss, o), RowsOf(ss, o), y, g, o.golden)
      BY ConflictOfTexts
    <3> QED
      BY <2>1, <3>1 DEF TextsDecide
  <2>3. c \in conflict
    BY <1>12, <2>1, <2>2 DEF conflict
  <2> QED
    BY <1>7, <1>8, <1>9, <2>3
<1> QED
  BY <1>11, <1>12

\* Some source holds the golden value: the golden one if it has a value, else the first of
\* those that most sources agree with.
LEMMA GoldenIsHeld ==
    ASSUME NEW ss, Loaded(ss), NEW v, DOMAIN v = NamesIn(ss), Held(v) # {}, NEW golden
    PROVE  /\ \E n \in Held(v) : GoldenValue(ss, v, golden) = v[n]
           /\ golden \in Held(v) => GoldenValue(ss, v, golden) = v[golden]
<1> DEFINE votes(n) == Cardinality({m \in Held(v) : v[m] = v[n]})
           at(n) == CHOOSE i \in DOMAIN ss : ss[i].name = n /\ \A j \in 1..(i - 1) : ss[j].name # n
           first(n) == \A m \in Held(v) \ {n} :
                           votes(m) < votes(n) \/ (votes(m) = votes(n) /\ at(n) < at(m))
           size == Cardinality(Held(v))
<1>1. DOMAIN ss = 1..Len(ss) /\ Len(ss) \in Nat
  BY DEF Loaded
<1>2. Held(v) \in SUBSET NamesIn(ss)
  BY DEF Held
<1>3. IsFiniteSet(Held(v)) /\ size \in Nat
  BY <1>2, NamesAreFinite, FS_Subset, FS_CardinalityType
<1>4. ASSUME NEW n \in Held(v)
      PROVE  votes(n) \in 0..size
  <2>1. {m \in Held(v) : v[m] = v[n]} \in SUBSET Held(v)
    OBVIOUS
  <2>2. votes(n) <= size /\ votes(n) \in Nat
    BY <1>3, <2>1, FS_Subset, FS_CardinalityType
  <2> QED
    BY <1>3, <2>2
<1>5. ASSUME NEW n \in NamesIn(ss)
      PROVE  at(n) \in Nat /\ at(n) \in DOMAIN ss /\ ss[at(n)].name = n
  <2> DEFINE places == {i \in DOMAIN ss : ss[i].name = n}
  <2>1. places \in SUBSET Nat /\ places # {}
    BY <1>1 DEF NamesIn, Range
  <2>2. Min(places) \in places /\ \A j \in places : Min(places) <= j
    <3> HIDE DEF places
    <3> QED
      BY <2>1, LeastNumber
  <2>3. \E i \in DOMAIN ss : ss[i].name = n /\ \A j \in 1..(i - 1) : ss[j].name # n
    <3>1. Min(places) \in DOMAIN ss /\ ss[Min(places)].name = n /\ Min(places) \in Nat
      BY <1>1, <2>2
    <3>2. \A j \in 1..(Min(places) - 1) : ss[j].name # n
      <4> SUFFICES ASSUME NEW j \in 1..(Min(places) - 1), ss[j].name = n
                   PROVE  FALSE
        OBVIOUS
      <4>1. j \in places /\ j < Min(places) /\ j \in Nat
        BY <1>1, <3>1
      <4> HIDE DEF places
      <4> QED
        BY <2>2, <3>1, <4>1
    <3> HIDE DEF places
    <3> QED
      BY <3>1, <3>2
  <2> QED
    BY <1>1, <2>3
<1> HIDE DEF votes, at
<1>6. \E n \in Held(v) : first(n)
  <2> DEFINE counts == {votes(n) : n \in Held(v)}
             top == {n \in Held(v) : votes(n) = Max(counts)}
             spots == {at(n) : n \in top}
  <2>1. counts \in SUBSET (0..size) /\ counts # {}
    BY <1>4
  <2>2. Max(counts) \in counts /\ \A c \in counts : c <= Max(counts)
    <3> HIDE DEF counts
    <3> QED
      BY <1>3, <2>1, GreatestNumber
  <2>3. top # {} /\ \A m \in Held(v) : votes(m) <= Max(counts)
    BY <2>2
  <2> HIDE DEF counts
  <2>4. spots \in SUBSET Nat /\ spots # {}
    BY <1>2, <1>5, <2>3
  <2>5. Min(spots) \in spots /\ \A i \in spots : Min(spots) <= i
    <3> HIDE DEF spots
    <3> QED
      BY <2>4, LeastNumber
  <2>6. PICK n \in top : at(n) = Min(spots)
    BY <2>5
  <2>7. ASSUME NEW m \in Held(v) \ {n}
        PROVE  votes(m) < votes(n) \/ (votes(m) = votes(n) /\ at(n) < at(m))
    <3>1. votes(m) \in Nat /\ votes(n) \in Nat /\ votes(n) = Max(counts)
      BY <1>3, <1>4
    <3>2. CASE votes(m) = votes(n)
      <4>1. m \in top /\ at(m) \in spots
        BY <3>1, <3>2
      <4>2. at(n) <= at(m) /\ at(m) \in Nat /\ at(n) \in Nat
        BY <1>2, <1>5, <2>5, <2>6, <4>1
      <4>3. at(n) # at(m)
        BY <1>2, <1>5
      <4> QED
        BY <3>2, <4>2, <4>3
    <3>3. CASE votes(m) # votes(n)
      BY <2>3, <3>1, <3>3
    <3> QED
      BY <3>2, <3>3
  <2> QED
    BY <2>6, <2>7
<1>7. GoldenValue(ss, v, golden) =
         IF golden \in Held(v) THEN v[golden] ELSE v[CHOOSE n \in Held(v) : first(n)]
  BY DEF GoldenValue, votes, at
<1> HIDE DEF first
<1>8. (CHOOSE n \in Held(v) : first(n)) \in Held(v)
  BY <1>6
<1> QED
  BY <1>7, <1>8

\* Every source with a value sides for or against the golden value, some for it and some
\* against.
LEMMA AllTakeSides ==
    ASSUME NEW ss, Loaded(ss), NEW o, NEW c \in Conflicting(ss, o)
    PROVE  /\ Held(c.values) = c.agree \cup c.differ
           /\ c.agree \cap c.differ = {} /\ {} \notin {c.agree, c.differ}
           /\ o.golden \in Held(c.values) => o.golden \in c.agree
<1>1. PICK x \in Everywhere(ss, o), f \in CommonFields(ss, KeyOf(ss, o), o.fields) :
          c \in ConflictAt(ss, KeyOf(ss, o), RowsOf(ss, o), x, f, o.golden)
  BY ConflictIsListed
<1> DEFINE v == [n \in DOMAIN RowsOf(ss, o) |->
                    ValueOf(ss, KeyOf(ss, o), RowsOf(ss, o)[n][x], n, f)]
           gold == GoldenValue(ss, v, o.golden)
           texts == {TextForm[v[n]] : n \in Held(v)}
           text == [n \in Held(v) |-> TextForm[v[n]]]
<1>2. TextsDecide(ss, KeyOf(ss, o), RowsOf(ss, o), x, f, o.golden)
  BY ConflictOfTexts
<1>3. /\ ~(Cardinality(texts) <= 1)
      /\ c.values = v
      /\ c.agree = {n \in Held(v) : TextForm[v[n]] = TextForm[gold]}
      /\ c.differ = {n \in Held(v) : TextForm[v[n]] # TextForm[gold]}
  BY <1>1, <1>2 DEF TextsDecide
<1>4. DOMAIN v = NamesIn(ss) /\ Held(v) \in SUBSET NamesIn(ss)
  BY DEF RowsOf, Held
<1> HIDE DEF v
<1>5. \E m, n \in Held(v) : TextForm[v[m]] # TextForm[v[n]]
  <2>1. IsFiniteSet(Held(v))
    BY <1>4, NamesAreFinite, FS_Subset
  <2>2. text = [n \in Held(v) |-> text[n]]
    OBVIOUS
  <2>3. texts = {text[n] : n \in Held(v)}
    OBVIOUS
  <2>4. ~(\A a, b \in texts : a = b) => \E m, n \in Held(v) : TextForm[v[m]] # TextForm[v[n]]
    OBVIOUS
  <2> HIDE DEF text, texts
  <2>5. IsFiniteSet(texts)
    BY <2>1, <2>2, <2>3, ImageIsFinite
  <2> QED
    BY <1>3, <2>4, <2>5, AtMostOne
<1>6. /\ \E n \in Held(v) : gold = v[n]
      /\ o.golden \in Held(v) => gold = v[o.golden]
  BY <1>4, <1>5, GoldenIsHeld
<1> HIDE DEF gold, texts, text
<1>7. \E n \in Held(v) : TextForm[v[n]] # TextForm[gold]
  BY <1>5
<1>8. \E n \in Held(v) : TextForm[v[n]] = TextForm[gold]
  BY <1>6
<1>9. c.agree # {} /\ c.differ # {}
  BY <1>3, <1>7, <1>8
<1>10. Held(v) = c.agree \cup c.differ /\ c.agree \cap c.differ = {}
  BY <1>3
<1>11. o.golden \in Held(v) => o.golden \in c.agree
  BY <1>3, <1>6
<1> QED
  BY <1>3, <1>9, <1>10, <1>11

\* A sequence is one of what it holds.
LEMMA SeqOfItsRange ==
    ASSUME NEW S, NEW s \in Seq(S)
    PROVE  s \in Seq(Range(s)) /\ Range(s) \subseteq S
<1>1. Len(s) \in Nat /\ DOMAIN s = 1..Len(s) /\ s = [n \in 1..Len(s) |-> s[n]]
  OBVIOUS
<1>2. \A n \in 1..Len(s) : s[n] \in Range(s)
  BY <1>1 DEF Range
<1>3. s \in [1..Len(s) -> Range(s)]
  BY <1>1, <1>2
<1>4. s \in Seq(Range(s))
  BY <1>1, <1>3, IsASeq
<1> QED
  BY <1>1, <1>4 DEF Range

\* What is made of every element of a list is a list.
LEMMA ListMapped ==
    ASSUME NEW R, NEW s \in Seq(R), NEW S, NEW t \in [DOMAIN s -> S]
    PROVE  t \in Seq(S)
<1>1. DOMAIN s = 1..Len(s) /\ Len(s) \in Nat
  OBVIOUS
<1> QED
  BY <1>1, IsASeq

\* A source is one without some of its columns, too.
LEMMA FewerColumns ==
    ASSUME NEW s, IsSource(s), NEW S \in SUBSET (DOMAIN s.labels)
    PROVE  IsSource([s EXCEPT !.labels = ElementsAt(@, S)])
<1> DEFINE left == [s EXCEPT !.labels = ElementsAt(@, S)]
<1>1. DOMAIN left = DOMAIN s /\ left.labels = ElementsAt(s.labels, S) /\ left.rows = s.rows
  BY DEF IsSource
<1>2. s.labels \in Seq(DOMAIN LabelForm)
  BY DEF IsSource
<1>3. /\ ElementsAt(s.labels, S) \in Seq(DOMAIN LabelForm)
      /\ \A n \in DOMAIN ElementsAt(s.labels, S) : \E i \in S : ElementsAt(s.labels, S)[n] = s.labels[i]
  BY <1>2, ElementsAtPlaces
<1> HIDE DEF left
<1>4. \A l \in Range(left.labels) : l \in Range(s.labels)
  BY <1>1, <1>3 DEF Range
<1>5. IsSource(left)
  BY <1>1, <1>3, <1>4 DEF IsSource
<1> QED
  BY <1>5 DEF left

\* Each answer is that of the engine for the sources and options it is for, or this with
\* some conflicts put aside as tolerated.
Replied ==
    /\ Loaded(refs)
    /\ xref \in {NoXref, Failed} \/ xref = AnalyzeCrossReference(refs, asked)
    /\ \/ xrefAI = NoXref
       \/ /\ Loaded(xrefAI.sources)
          /\ \E p \in RefParams : xrefAI.answer =
                Tolerate(AnalyzeCrossReference(xrefAI.sources, xrefAI.options), p.tolerances)

LEMMA AnswersAreTheEngines ==
    ASSUME CrossReferenceAssumption
    PROVE  CrossReferenceSpec => []Replied
<1>1. CrossReferenceInit => Replied
  BY DEF CrossReferenceInit, Replied, Loaded, WellFormed
<1>2. Replied /\ [CrossReferenceNext]_xrefVars => Replied'
  <2> SUFFICES ASSUME Replied, [CrossReferenceNext]_xrefVars
               PROVE  Replied'
    OBVIOUS
  <2>1. CASE XrefAnalyze
    <3> DEFINE filled == {i \in DOMAIN refs : refs[i].rows # <<>>}
    <3>1. refs \in Seq(Range(refs)) /\ filled \in SUBSET (DOMAIN refs)
      BY DEF Replied, Loaded
    <3>2. refs' = ElementsAt(refs, filled)
      BY <2>1 DEF XrefAnalyze
    <3> HIDE DEF filled
    <3>3. refs' \in Seq(Range(refs))
      BY <3>1, <3>2, ElementsAtPlaces
    <3>4. refs' \in Seq(Range(refs')) /\ Range(refs') \subseteq Range(refs)
      BY <3>3, SeqOfItsRange
    <3>5. Loaded(refs')
      BY <3>4 DEF Replied, Loaded
    <3> QED
      BY <2>1, <3>5 DEF XrefAnalyze, Replied, Loaded
  <2>2. CASE XrefRunLLM
    <3> DEFINE left(s, p) == [s EXCEPT !.labels = ElementsAt(@, {j \in DOMAIN @ : @[j] \notin p.exclude})]
               kept(p) == [i \in DOMAIN refs |-> left(refs[i], p)]
    <3>1. PICK p \in RefParams :
             /\ \E o : xrefAI' =
                   [sources |-> kept(p), options |-> o,
                    answer |-> Tolerate(AnalyzeCrossReference(kept(p), o), p.tolerances)]
             /\ UNCHANGED <<refs, asked, xref>>
      BY <2>2 DEF XrefRunLLM
    <3>2. \A s \in Range(refs) : IsSource(left(s, p))
      BY FewerColumns DEF Replied, Loaded
    <3> HIDE DEF left
    <3> DEFINE S == {left(s, p) : s \in Range(refs)}
    <3>3. refs \in Seq(Range(refs))
      BY DEF Replied, Loaded
    <3>4. kept(p) \in Seq(S)
      <4>1. \A i \in DOMAIN refs : left(refs[i], p) \in S
        BY DEF Range
      <4>2. kept(p) \in [DOMAIN refs -> S]
        <5> HIDE DEF S
        <5> QED
          BY <4>1
      <4> HIDE DEF S, kept
      <4> QED
        BY <3>3, <4>2, ListMapped
    <3>5. Loaded(kept(p))
      <4>1. \A s \in S : IsSource(s)
        BY <3>2
      <4> HIDE DEF S, kept
      <4> QED
        BY <3>4, <4>1, SeqOfItsRange DEF Loaded
    <3> HIDE DEF kept
    <3>6. PICK o : xrefAI' =
                [sources |-> kept(p), options |-> o,
                 answer |-> Tolerate(AnalyzeCrossReference(kept(p), o), p.tolerances)]
      BY <3>1
    <3>7. /\ xrefAI'.sources = kept(p)
          /\ xrefAI'.options = o
          /\ xrefAI'.answer = Tolerate(AnalyzeCrossReference(kept(p), o), p.tolerances)
      BY <3>6
    <3> QED
      BY <3>1, <3>5, <3>7 DEF Replied, Loaded
  <2>3. CASE UNCHANGED xrefVars
    BY <2>3 DEF xrefVars, Replied, Loaded
  <2> QED
    BY <2>1, <2>2, <2>3 DEF CrossReferenceNext, XrefDone
<1> QED
  BY <1>1, <1>2, PTL DEF CrossReferenceSpec

\* Tolerances move conflicts, and lose none.
AccountsFor(got, ss, o) == got.conflicts \cup got.tolerated = Conflicting(ss, o)

LEMMA ToleratedAreReported ==
    ASSUME NEW ss, NEW o, NEW given, AnalyzeCrossReference(ss, o) # Failed
    PROVE  /\ AccountsFor(AnalyzeCrossReference(ss, o), ss, o)
           /\ AccountsFor(Tolerate(AnalyzeCrossReference(ss, o), given), ss, o)
<1> DEFINE x == AnalyzeCrossReference(ss, o)
           y == Tolerate(x, given)
           close(c) == \E r \in given : r.field \in {c.field, Unasked}
                                        /\ {c.values[n] : n \in Held(c.values)} \in r.close
<1>1. /\ x.conflicts = Conflicting(ss, o) /\ x.tolerated = {}
      /\ DOMAIN x = {"total", "matched", "onlyIn", "conflicts", "tolerated"}
  BY DEF AnalyzeCrossReference
<1>2. y = [x EXCEPT !.conflicts = {c \in @ : ~close(c)}, !.tolerated = {c \in x.conflicts : close(c)}]
  BY DEF Tolerate
<1> HIDE DEF x, y, close
<1>3. y.conflicts = {c \in x.conflicts : ~close(c)} /\ y.tolerated = {c \in x.conflicts : close(c)}
  BY <1>1, <1>2
<1>4. y.conflicts \cup y.tolerated = x.conflicts
  BY <1>3
<1> QED
  BY <1>1, <1>4 DEF x, y, AccountsFor

\* For any sources and options, whatever rules are applied: whenever sources with names and
\* columns of their own answer at all, the fields reported for a key that every source has
\* in one row are those the sources disagree about, and every source with a value takes a
\* side, the golden source its own (analyze_cross_reference, _apply_xref_exception_rules).
THEOREM DisagreementsCorrect ==
    ASSUME CrossReferenceAssumption
    PROVE  CrossReferenceSpec => []DisagreementsAreConflicts
<1>1. Replied => DisagreementsAreConflicts
  <2> SUFFICES ASSUME Replied
               PROVE  DisagreementsAreConflicts
    OBVIOUS
  <2>1. ASSUME NEW a \in Answers
        PROVE  Loaded(a.sources) /\ AccountsFor(a.answer, a.sources, a.options)
    <3>1. CASE a = [sources |-> refs, options |-> asked, answer |-> xref] /\ xref \notin {NoXref, Failed}
      <4>1. /\ a.sources = refs /\ a.options = asked
            /\ a.answer = AnalyzeCrossReference(refs, asked) /\ a.answer # Failed
        BY <3>1 DEF Replied
      <4> QED
        BY <4>1, ToleratedAreReported DEF Replied
    <3>2. CASE a = xrefAI /\ xrefAI # NoXref /\ a.answer # Failed
      <4>1. PICK p \in RefParams :
                a.answer = Tolerate(AnalyzeCrossReference(a.sources, a.options), p.tolerances)
        BY <3>2 DEF Replied
      <4>2. AnalyzeCrossReference(a.sources, a.options) # Failed
        BY <3>2, <4>1 DEF Tolerate
      <4> QED
        BY <3>2, <4>1, <4>2, ToleratedAreReported DEF Replied
    <3> QED
      BY <3>1, <3>2 DEF Answers
  <2>2. ASSUME NEW a \in Answers, NEW x, NEW f \in Range(LabelForm)
        PROVE  FindsWhatDiffers(a.sources, a.options, x, f)
    BY <2>1, ConflictIsDisagreement
  <2>3. ASSUME NEW a \in Answers, NEW c \in Conflicting(a.sources, a.options)
        PROVE  /\ Held(c.values) = c.agree \cup c.differ
               /\ c.agree \cap c.differ = {} /\ {} \notin {c.agree, c.differ}
               /\ a.options.golden \in Held(c.values) => a.options.golden \in c.agree
    BY <2>1, AllTakeSides
  <2> SUFFICES ASSUME NEW a \in Answers
               PROVE
        LET reported == a.answer.conflicts \cup a.answer.tolerated
            asks(f)  == a.options.fields = Unasked \/ f \in a.options.fields
        IN  /\ Distinguished(a.sources, a.options) =>
                  \A x \in a.answer.total, f \in Range(LabelForm) :
                      (\A s \in Range(a.sources) : Once(s, a.options, x)) /\ asks(f) =>
                          (Differs(a.sources, a.options, x, f)
                              <=> \E c \in reported : c.key = x /\ c.field = f)
            /\ \A c \in reported :
                  /\ Held(c.values) = c.agree \cup c.differ
                  /\ c.agree \cap c.differ = {} /\ {} \notin {c.agree, c.differ}
                  /\ a.options.golden \in Held(c.values) => a.options.golden \in c.agree
    BY DEF DisagreementsAreConflicts
  <2> DEFINE reported == a.answer.conflicts \cup a.answer.tolerated
  <2>4. reported = Conflicting(a.sources, a.options)
    BY <2>1 DEF AccountsFor
  <2>5. ASSUME Distinguished(a.sources, a.options), NEW x \in a.answer.total, NEW f \in Range(LabelForm),
               \A s \in Range(a.sources) : Once(s, a.options, x),
               a.options.fields = Unasked \/ f \in a.options.fields
        PROVE  Differs(a.sources, a.options, x, f) <=> \E c \in reported : c.key = x /\ c.field = f
    <3>1. FindsWhatDiffers(a.sources, a.options, x, f)
      BY <2>2
    <3>2. Differs(a.sources, a.options, x, f)
              <=> \E c \in Conflicting(a.sources, a.options) : c.key = x /\ c.field = f
      BY <2>5, <3>1 DEF FindsWhatDiffers
    <3> QED
      BY <2>4, <3>2
  <2>6. \A c \in reported :
           /\ Held(c.values) = c.agree \cup c.differ
           /\ c.agree \cap c.differ = {} /\ {} \notin {c.agree, c.differ}
           /\ a.options.golden \in Held(c.values) => a.options.golden \in c.agree
    BY <2>3, <2>4
  <2> HIDE DEF reported
  <2> QED
    BY <2>5, <2>6 DEF reported
<1> QED
  BY <1>1, AnswersAreTheEngines, PTL

\* Places of a list.
LEMMA PlacesOf ==
    ASSUME NEW R, NEW s \in Seq(R)
    PROVE  DOMAIN s = 1..Len(s) /\ Len(s) \in Nat /\ \A i \in DOMAIN s : s[i] \in R
OBVIOUS

\* A label found in a list is one of it.
LEMMA FoundInList ==
    ASSUME NEW L, NEW list \in Seq(L), NEW S
    PROVE  FirstIn(list, S) \subseteq Range(list) /\ LastIn(list, S) \subseteq Range(list)
<1> DEFINE at == {i \in DOMAIN list : list[i] \in S}
<1>1. DOMAIN list = 1..Len(list) /\ Len(list) \in Nat
  OBVIOUS
<1>2. at \subseteq DOMAIN list
  OBVIOUS
<1>3. FirstIn(list, S) = (IF at = {} THEN {} ELSE {list[Min(at)]})
      /\ LastIn(list, S) = (IF at = {} THEN {} ELSE {list[Max(at)]})
  BY DEF FirstIn, LastIn
<1> HIDE DEF at
<1>4. CASE at = {}
  BY <1>3, <1>4
<1>5. CASE at # {}
  <2>1. at \in SUBSET Nat /\ at \in SUBSET (0..Len(list))
    BY <1>1, <1>2
  <2>2. Min(at) \in at
    BY <1>5, <2>1, LeastNumber
  <2>3. Max(at) \in at
    BY <1>1, <1>5, <2>1, GreatestNumber
  <2>4. list[Min(at)] \in Range(list) /\ list[Max(at)] \in Range(list)
    BY <1>2, <2>2, <2>3 DEF Range
  <2> QED
    BY <1>3, <1>5, <2>4
<1> QED
  BY <1>4, <1>5

\* The column to match on is one of the source.
LEMMA KeyColumnIsLabel ==
    ASSUME CrossReferenceAssumption, NEW s, IsSource(s), NEW key
    PROVE  FindKeyColumn(s, key) \subseteq Range(s.labels)
<1> DEFINE labels == Range(s.labels)
           byName == IF key = Unasked THEN <<>>
                     ELSE <<FirstIn(s.labels, {key}), LastIn(s.labels, Alike(key)),
                            FirstIn(s.labels, LabelLike[key])>>
           usual == [i \in DOMAIN Synonyms |-> LastIn(s.labels, Alike(Synonyms[i]))]
           found == byName \o usual \o <<MostDistinct(s)>>
           hits  == {i \in DOMAIN found : found[i] # {}}
<1>1. s.labels \in Seq(DOMAIN LabelForm)
  BY DEF IsSource
<1>2. \A S : FirstIn(s.labels, S) \in SUBSET labels /\ LastIn(s.labels, S) \in SUBSET labels
  BY <1>1, FoundInList
<1>3. MostDistinct(s) \in SUBSET labels
  BY <1>2 DEF MostDistinct
<1>4. byName \in Seq(SUBSET labels)
  <2> DEFINE a == FirstIn(s.labels, {key})
             b == LastIn(s.labels, Alike(key))
             c == FirstIn(s.labels, LabelLike[key])
  <2>1. a \in SUBSET labels /\ b \in SUBSET labels /\ c \in SUBSET labels
    BY <1>2
  <2> HIDE DEF labels, a, b, c
  <2>2. <<a, b, c>> \in Seq(SUBSET labels)
    BY <2>1
  <2>3. byName = <<>> \/ byName = <<a, b, c>>
    BY DEF a, b, c
  <2>4. <<>> \in Seq(SUBSET labels)
    OBVIOUS
  <2> HIDE DEF byName
  <2> QED
    BY <2>2, <2>3, <2>4
<1>5. usual \in Seq(SUBSET labels)
  <2>1. DOMAIN Synonyms = 1..Len(Synonyms) /\ Len(Synonyms) \in Nat
    <3>1. Synonyms \in Seq(DOMAIN LabelForm)
      BY DEF WellFormed
    <3> QED
      BY <3>1, PlacesOf
  <2>2. usual \in [1..Len(Synonyms) -> SUBSET labels]
    <3> HIDE DEF labels
    <3> QED
      BY <1>2, <2>1
  <2> QED
    BY <2>1, <2>2, IsASeq
<1>6. FindKeyColumn(s, key) = IF hits = {} THEN {} ELSE found[Min(hits)]
  BY DEF FindKeyColumn
<1> HIDE DEF labels, byName, usual
<1>7. found \in Seq(SUBSET labels)
  BY <1>3, <1>4, <1>5
<1> HIDE DEF found
<1>8. CASE hits = {}
  BY <1>6, <1>8
<1>9. CASE hits # {}
  <2>1. DOMAIN found = 1..Len(found) /\ Len(found) \in Nat
    BY <1>7
  <2>2. hits \in SUBSET Nat
    BY <2>1
  <2>3. Min(hits) \in hits
    <3> HIDE DEF hits
    <3> QED
      BY <1>9, <2>2, LeastNumber
  <2>4. Min(hits) \in DOMAIN found
    BY <2>3
  <2>5. found[Min(hits)] \in SUBSET labels
    <3> HIDE DEF labels, hits
    <3> QED
      BY <1>7, <2>4, PlacesOf
  <2> QED
    BY <1>6, <1>9, <2>5 DEF labels
<1> QED
  BY <1>8, <1>9

\* The source that a name stands for is one of them.
LEMMA SourceOfName ==
    ASSUME NEW ss, Loaded(ss), NEW n \in NamesIn(ss)
    PROVE  ByName(ss, n) \in Range(ss)
<1> DEFINE at == {i \in DOMAIN ss : ss[i].name = n}
<1>1. DOMAIN ss = 1..Len(ss) /\ Len(ss) \in Nat
  BY DEF Loaded
<1>2. at # {} /\ at \subseteq DOMAIN ss /\ at \in SUBSET (0..Len(ss))
  BY <1>1 DEF NamesIn, Range
<1>3. ByName(ss, n) = ss[Max(at)]
  BY DEF ByName
<1> HIDE DEF at
<1>4. Max(at) \in at
  BY <1>1, <1>2, GreatestNumber
<1> QED
  BY <1>2, <1>3, <1>4 DEF Range

\* Keys are texts without case, blanks and dashes.
LEMMA KeysAreForms ==
    ASSUME CrossReferenceAssumption, NEW ss, Loaded(ss), NEW o,
           AnalyzeCrossReference(ss, o) # Failed
    PROVE  KeysIn(ss, o) \subseteq Range(KeyForm)
<1>1. \A s \in Range(ss) : FindKeyColumn(s, o.key) # {}
  BY DEF AnalyzeCrossReference
<1>2. ASSUME NEW n \in NamesIn(ss), NEW x \in DOMAIN RowsOf(ss, o)[n]
      PROVE  x \in Range(KeyForm)
  <2> DEFINE s == ByName(ss, n)
             k == KeyOf(ss, o)[n]
  <2>1. s \in Range(ss) /\ IsSource(s)
    BY SourceOfName DEF Loaded
  <2>2. k = CHOOSE l \in FindKeyColumn(s, o.key) : TRUE
    BY DEF KeyOf
  <2>3. RowsOf(ss, o)[n] = Keyed(s, k)
    BY DEF RowsOf
  <2> HIDE DEF s, k
  <2>4. k \in Range(s.labels)
    <3>1. k \in FindKeyColumn(s, o.key)
      BY <1>1, <2>1, <2>2
    <3> QED
      BY <2>1, <3>1, KeyColumnIsLabel
  <2>5. PICK r \in Range(s.rows) : x = KeyForm[r[k]]
    BY <1>2, <2>3 DEF Keyed
  <2>6. r[k] \in DOMAIN KeyForm
    BY <2>1, <2>4, <2>5 DEF IsSource, WellFormed
  <2> QED
    BY <2>5, <2>6 DEF Range
<1> QED
  BY <1>2 DEF KeysIn

\* What a conflict is about.
LEMMA ConflictOfKey ==
    ASSUME NEW ss, NEW o, NEW c \in Conflicting(ss, o)
    PROVE  c.key \in Everywhere(ss, o) /\ DOMAIN c.values = NamesIn(ss)
<1>1. PICK x \in Everywhere(ss, o), f \in CommonFields(ss, KeyOf(ss, o), o.fields) :
          c \in ConflictAt(ss, KeyOf(ss, o), RowsOf(ss, o), x, f, o.golden)
  BY ConflictIsListed
<1>2. TextsDecide(ss, KeyOf(ss, o), RowsOf(ss, o), x, f, o.golden)
  BY ConflictOfTexts
<1> DEFINE v == [n \in DOMAIN RowsOf(ss, o) |->
                    ValueOf(ss, KeyOf(ss, o), RowsOf(ss, o)[n][x], n, f)]
<1>3. c.key = x /\ c.values = v
  BY <1>1, <1>2 DEF TextsDecide
<1>4. DOMAIN v = NamesIn(ss)
  BY DEF RowsOf
<1> QED
  BY <1>1, <1>3, <1>4

\* For any sources and options, whatever rules are applied: the keys an answer lists are
\* keys of rows, it says of every source what only that has, and each conflict is one of a
\* key that all sources have, with a value (or none) of each of them.
THEOREM CrossReferenceTypeCorrect ==
    ASSUME CrossReferenceAssumption
    PROVE  CrossReferenceSpec => []CrossReferenceTypeOK
<1> DEFINE Typed(ans, ss) ==
        /\ ans.matched \cup ans.total \subseteq Range(KeyForm)
        /\ DOMAIN ans.onlyIn = NamesIn(ss)
        /\ \A c \in ans.conflicts \cup ans.tolerated :
              c.key \in ans.matched /\ DOMAIN c.values = NamesIn(ss)
<1>1. ASSUME NEW ss, NEW o, Loaded(ss), AnalyzeCrossReference(ss, o) # Failed
      PROVE  /\ Typed(AnalyzeCrossReference(ss, o), ss)
             /\ \A given : Typed(Tolerate(AnalyzeCrossReference(ss, o), given), ss)
  <2> DEFINE x == AnalyzeCrossReference(ss, o)
  <2>1. /\ x.total = KeysIn(ss, o) \ {""} /\ x.matched = Everywhere(ss, o)
        /\ DOMAIN x.onlyIn = NamesIn(ss)
        /\ DOMAIN x = {"total", "matched", "onlyIn", "conflicts", "tolerated"}
    BY <1>1 DEF AnalyzeCrossReference
  <2>2. x.matched \cup x.total \subseteq Range(KeyForm)
    <3>1. KeysIn(ss, o) \subseteq Range(KeyForm)
      BY <1>1, KeysAreForms
    <3> QED
      BY <2>1, <3>1 DEF Everywhere
  <2>3. ASSUME NEW c \in Conflicting(ss, o)
        PROVE  c.key \in x.matched /\ DOMAIN c.values = NamesIn(ss)
    <3> HIDE DEF x
    <3> QED
      BY <2>1, ConflictOfKey, ZenonT(60)
  <2>4. Typed(x, ss)
    <3>1. x.conflicts \cup x.tolerated = Conflicting(ss, o)
      BY <1>1, ToleratedAreReported DEF AccountsFor
    <3> HIDE DEF x
    <3> QED
      BY <2>1, <2>2, <2>3, <3>1
  <2>5. ASSUME NEW given
        PROVE  Typed(Tolerate(x, given), ss)
    <3> DEFINE y == Tolerate(x, given)
    <3>1. y.conflicts \cup y.tolerated = Conflicting(ss, o)
      BY <1>1, ToleratedAreReported DEF AccountsFor
    <3>2. y.matched = x.matched /\ y.total = x.total /\ y.onlyIn = x.onlyIn
      <4> HIDE DEF x
      <4> QED
        BY <1>1, <2>1 DEF Tolerate
    <3>3. Typed(y, ss)
      <4> HIDE DEF x, y
      <4> QED
        BY <2>1, <2>2, <2>3, <3>1, <3>2
    <3> HIDE DEF Typed
    <3> QED
      BY <3>3
  <2> QED
    BY <2>4, <2>5
<1> HIDE DEF Typed
<1>2. Replied => CrossReferenceTypeOK
  <2> SUFFICES ASSUME Replied, NEW a \in Answers
               PROVE  Typed(a.answer, a.sources)
    BY DEF CrossReferenceTypeOK, Typed
  <2>1. CASE a = [sources |-> refs, options |-> asked, answer |-> xref] /\ xref \notin {NoXref, Failed}
    <3>1. a.sources = refs /\ a.answer = AnalyzeCrossReference(refs, asked) /\ a.answer # Failed
      BY <2>1 DEF Replied
    <3> QED
      BY <1>1, <3>1 DEF Replied
  <2>2. CASE a = xrefAI /\ xrefAI # NoXref /\ a.answer # Failed
    <3>1. PICK p \in RefParams :
              a.answer = Tolerate(AnalyzeCrossReference(a.sources, a.options), p.tolerances)
      BY <2>2 DEF Replied
    <3>2. AnalyzeCrossReference(a.sources, a.options) # Failed
      BY <2>2, <3>1 DEF Tolerate
    <3> QED
      BY <1>1, <2>2, <3>1, <3>2 DEF Replied
  <2> QED
    BY <2>1, <2>2 DEF Answers
<1> QED
  BY <1>2, AnswersAreTheEngines, PTL

------------------------------------------------------------------------------
(* Alignment. *)

\* A filtered list takes its elements from different places.
LEMMA ElementsApart ==
    ASSUME NEW R, NEW s \in Seq(R), NEW S \in SUBSET (DOMAIN s)
    PROVE  \E place \in [DOMAIN ElementsAt(s, S) -> S] :
              /\ \A m, n \in DOMAIN ElementsAt(s, S) : place[m] = place[n] => m = n
              /\ \A n \in DOMAIN ElementsAt(s, S) : ElementsAt(s, S)[n] = s[place[n]]
<1> DEFINE rank(i) == Cardinality({j \in S : j <= i})
           at(n) == CHOOSE i \in S : rank(i) = n
           place == [n \in 1..Cardinality(S) |-> at(n)]
<1>1. Len(s) \in Nat /\ S \in SUBSET (1..Len(s))
  OBVIOUS
<1>2. \A n \in 1..Cardinality(S) : \E i \in S : rank(i) = n
  BY <1>1, RanksOfRows
<1>3. ElementsAt(s, S) = [n \in 1..Cardinality(S) |-> s[at(n)]]
  BY DEF ElementsAt
<1> HIDE DEF rank
<1>4. \A n \in 1..Cardinality(S) : at(n) \in S /\ rank(at(n)) = n
  BY <1>2
<1> HIDE DEF at
<1>5. \A m, n \in 1..Cardinality(S) : place[m] = place[n] => m = n
  BY <1>4
<1>6. DOMAIN ElementsAt(s, S) = 1..Cardinality(S)
  BY <1>3
<1>7. place \in [1..Cardinality(S) -> S]
  BY <1>4
<1>8. \A n \in 1..Cardinality(S) : ElementsAt(s, S)[n] = s[place[n]]
  BY <1>3
<1> HIDE DEF place
<1>9. place \in [DOMAIN ElementsAt(s, S) -> S]
  BY <1>6, <1>7
<1> QED
  BY <1>5, <1>6, <1>8, <1>9, ZenonT(60)

\* Deduplicated: columns of the table, every label once.
LEMMA DeduplicatedColumns ==
    ASSUME NEW t \in Seq(Column)
    PROVE  /\ Deduplicated(t) \in Seq(Column)
           /\ LabelsUnique(Deduplicated(t))
           /\ \A n \in DOMAIN Deduplicated(t) : \E i \in DOMAIN t : Deduplicated(t)[n] = t[i]
<1> DEFINE S == {i \in DOMAIN t : \A j \in 1..(i - 1) : t[j].name # t[i].name}
           u == ElementsAt(t, S)
<1>1. S \in SUBSET (DOMAIN t)
  OBVIOUS
<1>2. \A i, j \in S : t[i].name = t[j].name => i = j
  <2> SUFFICES ASSUME NEW i \in S, NEW j \in S, t[i].name = t[j].name, i # j
               PROVE  FALSE
    OBVIOUS
  <2>1. i \in Nat \ {0} /\ j \in Nat \ {0}
    BY PlacesOf
  <2>2. i < j \/ j < i
    BY <2>1
  <2>3. CASE i < j
    <3>1. i \in 1..(j - 1)
      BY <2>1, <2>3
    <3> QED
      BY <3>1
  <2>4. CASE j < i
    <3>1. j \in 1..(i - 1)
      BY <2>1, <2>4
    <3> QED
      BY <3>1
  <2> QED
    BY <2>2, <2>3, <2>4
<1>3. Deduplicated(t) = u
  BY DEF Deduplicated
<1> HIDE DEF S
<1>4. u \in Seq(Column) /\ \A n \in DOMAIN u : \E i \in S : u[n] = t[i]
  BY <1>1, ElementsAtPlaces
<1>5. PICK place \in [DOMAIN u -> S] :
         /\ \A m, n \in DOMAIN u : place[m] = place[n] => m = n
         /\ \A n \in DOMAIN u : u[n] = t[place[n]]
  BY <1>1, ElementsApart
<1> HIDE DEF u
<1>6. LabelsUnique(u)
  BY <1>2, <1>5 DEF LabelsUnique
<1> QED
  BY <1>1, <1>3, <1>4, <1>6

\* Columns under a new label.
LEMMA RelabelledColumns ==
    ASSUME NEW t \in Seq(Column), NEW l, NEW m \in ColNames
    PROVE  /\ Relabel(t, l, m) \in Seq(Column)
           /\ DOMAIN Relabel(t, l, m) = DOMAIN t
           /\ \A i \in DOMAIN t :
                 /\ Relabel(t, l, m)[i].name = IF t[i].name = l THEN m ELSE t[i].name
                 /\ Relabel(t, l, m)[i].done = t[i].done
           /\ LabelsUnique(t) /\ ~Has(t, m) => LabelsUnique(Relabel(t, l, m))
<1> DEFINE new(i) == IF t[i].name = l THEN [t[i] EXCEPT !.name = m] ELSE t[i]
           u == [i \in DOMAIN t |-> new(i)]
<1>1. \A i \in DOMAIN t : t[i] \in Column
  BY PlacesOf
<1>2. \A i \in DOMAIN t :
         /\ new(i) \in Column
         /\ new(i).name = IF t[i].name = l THEN m ELSE t[i].name
         /\ new(i).done = t[i].done
  BY <1>1 DEF Column
<1>3. Relabel(t, l, m) = u
  BY DEF Relabel
<1> HIDE DEF new
<1>4. u \in [DOMAIN t -> Column]
  BY <1>2
<1>5. u \in Seq(Column)
  <2> HIDE DEF u
  <2> QED
    BY <1>4, ListMapped
<1>6. \A i \in DOMAIN t :
         u[i].name = (IF t[i].name = l THEN m ELSE t[i].name) /\ u[i].done = t[i].done
  BY <1>2
<1>7. DOMAIN u = DOMAIN t
  OBVIOUS
<1> HIDE DEF u
<1>8. ASSUME LabelsUnique(t), ~Has(t, m)
      PROVE  LabelsUnique(u)
  <2>1. \A i \in DOMAIN t : t[i].name # m
    BY <1>8 DEF Has
  <2>2. ASSUME NEW i \in DOMAIN t, NEW j \in DOMAIN t, u[i].name = u[j].name
        PROVE  i = j
    <3>1. t[i].name = t[j].name
      BY <1>6, <2>1, <2>2
    <3> QED
      BY <1>8, <3>1 DEF LabelsUnique
  <2> QED
    BY <1>7, <2>2 DEF LabelsUnique
<1> QED
  BY <1>3, <1>5, <1>6, <1>7, <1>8

\* One more column, or none.
LEMMA DerivedColumns ==
    ASSUME NEW t \in Seq(Column), NEW d \in Derivation, NEW side
    PROVE  /\ WithDerived(t, d, side) \in Seq(Column)
           /\ LabelsUnique(t) => LabelsUnique(WithDerived(t, d, side))
<1> DEFINE c == [name |-> d.to, done |-> {}]
           u == Append(t, c)
<1>1. c \in Column
  BY DEF Column, Derivation
<1>2. u \in Seq(Column) /\ DOMAIN u = 1..(Len(t) + 1) /\ u[Len(t) + 1] = c
      /\ \A i \in DOMAIN t : u[i] = t[i]
  <2> HIDE DEF c
  <2> QED
    BY <1>1
<1>3. WithDerived(t, d, side) = t \/ (WithDerived(t, d, side) = u /\ ~Has(t, d.to))
  BY DEF WithDerived, Put
<1>4. c.name = d.to
  OBVIOUS
<1> HIDE DEF u, c
<1>5. ASSUME LabelsUnique(t), ~Has(t, d.to)
      PROVE  LabelsUnique(u)
  <2>1. \A i \in DOMAIN u : i \in DOMAIN t \/ i = Len(t) + 1
    BY <1>2, PlacesOf
  <2>2. \A i \in DOMAIN t : u[i].name = t[i].name /\ t[i].name # d.to
    BY <1>2, <1>5 DEF Has
  <2>3. u[Len(t) + 1].name = d.to
    BY <1>2, <1>4
  <2> QED
    BY <1>5, <2>1, <2>2, <2>3 DEF LabelsUnique
<1> QED
  BY <1>2, <1>3, <1>5

\* Columns as a map renames them.
LEMMA RenamedColumns ==
    ASSUME NEW t \in Seq(Column), NEW map, \A l \in DOMAIN map : map[l] \in ColNames
    PROVE  Renamed(t, map) \in Seq(Column) /\ LabelsUnique(Renamed(t, map))
<1> DEFINE goes(l) == \E k \in DOMAIN map \ {l} : Has(t, k) /\ map[k] = l
           S == {i \in DOMAIN t : ~goes(t[i].name)}
           rest == ElementsAt(t, S)
           new(i) == IF rest[i].name \in DOMAIN map THEN [rest[i] EXCEPT !.name = map[@]] ELSE rest[i]
           u == [i \in DOMAIN rest |-> new(i)]
<1>1. Renamed(t, map) = Deduplicated(u)
  BY DEF Renamed
<1>2. S \in SUBSET (DOMAIN t)
  OBVIOUS
<1> HIDE DEF S
<1>3. rest \in Seq(Column)
  BY <1>2, ElementsAtPlaces
<1> HIDE DEF rest
<1>4. \A i \in DOMAIN rest : new(i) \in Column
  <2> TAKE i \in DOMAIN rest
  <2>1. rest[i] \in Column
    BY <1>3, PlacesOf
  <2> QED
    BY <2>1 DEF Column
<1> HIDE DEF new
<1>5. u \in [DOMAIN rest -> Column]
  BY <1>4
<1>6. u \in Seq(Column)
  <2> HIDE DEF u
  <2> QED
    BY <1>3, <1>5, ListMapped
<1> HIDE DEF u
<1> QED
  BY <1>1, <1>6, DeduplicatedColumns

\* What transforms for both sides a column of a label gets, and which a column went through.
BothOf(l) == {n \in DOMAIN plan.transforms :
                 plan.transforms[n].side = "both" /\ plan.transforms[n].col \in {l, Unnamed}}
BothIn(c) == {n \in c.done : plan.transforms[n].side = "both"}

\* Columns after the transforms.
LEMMA TransformedColumns ==
    ASSUME NEW t \in Seq(Column), plan \in Parameters, NEW side
    PROVE  /\ Transformed(t, side) \in Seq(Column)
           /\ DOMAIN Transformed(t, side) = DOMAIN t
           /\ \A i \in DOMAIN t :
                 /\ Transformed(t, side)[i].name = t[i].name
                 /\ BothIn(Transformed(t, side)[i]) = BothOf(t[i].name)
<1> DEFINE done(i) == {n \in DOMAIN plan.transforms :
                          /\ On(plan.transforms[n], side)
                          /\ plan.transforms[n].col \in {t[i].name, Unnamed}}
           new(i) == [t[i] EXCEPT !.done = done(i)]
           u == [i \in DOMAIN t |-> new(i)]
<1>1. Transformed(t, side) = u
  BY DEF Transformed
<1>2. \A i \in DOMAIN t : done(i) \in SUBSET Nat
  <2>1. DOMAIN plan.transforms \subseteq Nat
    BY DEF Parameters
  <2> QED
    BY <2>1
<1>3. \A i \in DOMAIN t : {n \in done(i) : plan.transforms[n].side = "both"} = BothOf(t[i].name)
  BY DEF BothOf, On
<1> HIDE DEF done
<1>4. \A i \in DOMAIN t : new(i) \in Column /\ new(i).name = t[i].name /\ new(i).done = done(i)
  <2> TAKE i \in DOMAIN t
  <2>1. t[i] \in Column
    BY PlacesOf
  <2> QED
    BY <1>2, <2>1 DEF Column
<1>5. \A i \in DOMAIN t : BothIn(new(i)) = BothOf(t[i].name)
  BY <1>3, <1>4 DEF BothIn
<1> HIDE DEF new
<1>6. u \in [DOMAIN t -> Column]
  BY <1>4
<1>7. \A i \in DOMAIN t : u[i] = new(i)
  OBVIOUS
<1>8. DOMAIN u = DOMAIN t
  OBVIOUS
<1> HIDE DEF u
<1>9. u \in Seq(Column)
  BY <1>6, ListMapped
<1> QED
  BY <1>1, <1>4, <1>5, <1>7, <1>8, <1>9

\* A label finds a column that is called so, if there is one.
LEMMA FoundColumns ==
    ASSUME NEW t \in Seq(Column), NEW l
    PROVE  /\ FirstOf(t, l) # {} =>
                 The(FirstOf(t, l)) \in DOMAIN t /\ SameLabel(t[The(FirstOf(t, l))].name, l)
           /\ LastOf(t, l) # {} =>
                 The(LastOf(t, l)) \in DOMAIN t /\ SameLabel(t[The(LastOf(t, l))].name, l)
<1>1. FirstOf(t, l) # {} => The(FirstOf(t, l)) \in FirstOf(t, l)
  BY DEF The
<1>2. LastOf(t, l) # {} => The(LastOf(t, l)) \in LastOf(t, l)
  BY DEF The
<1> QED
  BY <1>1, <1>2 DEF FirstOf, LastOf

\* There is one first column of a name, however the name is spelled.
LEMMA FirstIsOne ==
    ASSUME NEW t \in Seq(Column), NEW l, NEW m, SameLabel(l, m)
    PROVE  /\ FirstOf(t, l) = FirstOf(t, m)
           /\ \A i, j \in FirstOf(t, l) : i = j
<1>1. FirstOf(t, l) = FirstOf(t, m)
  BY DEF FirstOf, SameLabel
<1>2. ASSUME NEW i \in FirstOf(t, l), NEW j \in FirstOf(t, l), i < j
      PROVE  FALSE
  <2>1. i \in Nat \ {0} /\ j \in Nat \ {0}
    BY PlacesOf DEF FirstOf
  <2>2. i \in 1..(j - 1)
    BY <1>2, <2>1
  <2> QED
    BY <2>2 DEF FirstOf
<1>3. \A i, j \in FirstOf(t, l) : i \in Nat /\ j \in Nat
  BY PlacesOf DEF FirstOf
<1> QED
  BY <1>1, <1>2, <1>3

\* What an aggregation leaves: columns of the table, with the labels it names, each once.
LEMMA AggregatedColumns ==
    ASSUME NEW t \in Seq(Column), NEW agg \in Aggregation
    PROVE  /\ Aggregated(t, agg) \in Seq(Column)
           /\ \A n \in DOMAIN Aggregated(t, agg) : \E i \in DOMAIN t : Aggregated(t, agg)[n] = t[i]
           /\ LabelsUnique(t) /\ ~GroupsTwice(t, agg) => LabelsUnique(Aggregated(t, agg))
<1> DEFINE S == {i \in DOMAIN agg.by : LastOf(t, agg.by[i]) # {} /\ ~SameLabel(agg.by[i], agg.of)}
           by == Groups(t, agg)
           at(l) == t[The(LastOf(t, l))]
           front == [i \in DOMAIN by |-> at(by[i])]
           u == Append(front, at(agg.of))
<1>1. agg.by \in Seq(ColNames) /\ S \in SUBSET (DOMAIN agg.by)
  BY DEF Aggregation
<1>2. by = ElementsAt(agg.by, S)
  BY DEF Groups
<1>3. /\ by \in Seq(ColNames)
      /\ \A n \in DOMAIN by : LastOf(t, by[n]) # {} /\ ~SameLabel(by[n], agg.of)
  <2>1. \A i \in S : LastOf(t, agg.by[i]) # {} /\ ~SameLabel(agg.by[i], agg.of)
    OBVIOUS
  <2> HIDE DEF S, by
  <2>2. by \in Seq(ColNames) /\ \A n \in DOMAIN by : \E i \in S : by[n] = agg.by[i]
    BY <1>1, <1>2, ElementsAtPlaces
  <2> QED
    BY <2>1, <2>2
<1>4. Aggregated(t, agg) = IF Aggregates(t, agg) THEN u ELSE t
  BY DEF Aggregated
<1>5. CASE ~Aggregates(t, agg)
  BY <1>4, <1>5
<1>6. CASE Aggregates(t, agg)
  <2> HIDE DEF S, by
  <2>1. \A n \in DOMAIN by :
           /\ The(LastOf(t, by[n])) \in DOMAIN t
           /\ at(by[n]) \in Column /\ SameLabel(at(by[n]).name, by[n])
    BY <1>3, FoundColumns, PlacesOf
  <2>2. /\ The(LastOf(t, agg.of)) \in DOMAIN t
        /\ at(agg.of) \in Column /\ SameLabel(at(agg.of).name, agg.of)
    BY <1>6, FoundColumns, PlacesOf DEF Aggregates
  <2>3. /\ \A n \in DOMAIN by : \E i \in DOMAIN t : at(by[n]) = t[i]
        /\ \E i \in DOMAIN t : at(agg.of) = t[i]
    BY <2>1, <2>2
  <2> HIDE DEF at
  <2>4. DOMAIN front = DOMAIN by /\ \A n \in DOMAIN by : front[n] = at(by[n])
    OBVIOUS
  <2>5. front \in [DOMAIN by -> Column]
    BY <2>1
  <2> HIDE DEF front
  <2>6. front \in Seq(Column)
    BY <1>3, <2>5, ListMapped
  <2>7. /\ u \in Seq(Column) /\ DOMAIN u = 1..(Len(front) + 1)
        /\ u[Len(front) + 1] = at(agg.of)
        /\ \A i \in DOMAIN front : u[i] = front[i]
    BY <2>2, <2>6
  <2>8. \A n \in DOMAIN u : n \in DOMAIN front \/ n = Len(front) + 1
    BY <2>6, <2>7, PlacesOf
  <2> HIDE DEF u
  <2>9. \A n \in DOMAIN u : \E i \in DOMAIN t : u[n] = t[i]
    BY <2>3, <2>4, <2>7, <2>8
  <2>10. ASSUME ~GroupsTwice(t, agg)
         PROVE  LabelsUnique(u)
    <3>1. \A i, j \in DOMAIN by : SameLabel(by[i], by[j]) => i = j
      BY <1>6, <2>10 DEF GroupsTwice, by
    <3>2. ASSUME NEW i \in DOMAIN front, NEW j \in DOMAIN front, u[i].name = u[j].name
          PROVE  i = j
      <4>1. SameLabel(by[i], by[j])
        BY <2>1, <2>4, <2>7, <3>2 DEF SameLabel
      <4> QED
        BY <2>4, <3>1, <4>1
    <3>3. ASSUME NEW i \in DOMAIN front
          PROVE  u[i].name # u[Len(front) + 1].name
      BY <1>3, <2>1, <2>2, <2>4, <2>7 DEF SameLabel
    <3> QED
      BY <2>8, <3>2, <3>3 DEF LabelsUnique
  <2> QED
    BY <1>4, <1>6, <2>7, <2>9, <2>10
<1> QED
  BY <1>5, <1>6

\* The values aligned: no column gets a new label, or those of one label get that of the
\* values, which no column has.
AlignedTo(t, u) ==
    u = t \/ \E l \in ColNames, m \in ValueLabels \cap ColNames : ~Has(t, m) /\ u = Relabel(t, l, m)

LEMMA AlignedValues ==
    ASSUME AlignmentAssumption, plan \in Parameters, NEW t \in Seq(Column), NEW u, NEW value,
           value \in ValueLabels \cup {Unnamed}
    PROVE  AlignedTo(t, Explicit(t)) /\ AlignedTo(t, Matched(t, u, value))
<1>1. ValueLabels \subseteq ColNames
  BY DEF ValueLabels, Parameters, Aggregation, LabelOrNone
<1>2. \A i \in DOMAIN t : t[i].name \in ColNames
  <2>1. \A i \in DOMAIN t : t[i] \in Column
    BY PlacesOf
  <2> QED
    BY <2>1 DEF Column
<1>3. AlignedTo(t, Explicit(t))
  <2> DEFINE to == Or(plan.tgtValue, plan.tgtAgg.of)
             at == LastOf(t, plan.srcValue)
  <2>1. CASE plan.srcValue # Unnamed /\ to \notin {Unnamed, plan.srcValue} /\ at # {} /\ ~Has(t, to)
    <3>1. Explicit(t) = Relabel(t, t[The(at)].name, to)
      BY <2>1 DEF Explicit
    <3>2. to \in ValueLabels
      BY <2>1 DEF ValueLabels, Or
    <3>3. t[The(at)].name \in ColNames
      BY <1>2, <2>1, FoundColumns
    <3> QED
      BY <1>1, <2>1, <3>1, <3>2, <3>3 DEF AlignedTo
  <2>2. CASE ~(plan.srcValue # Unnamed /\ to \notin {Unnamed, plan.srcValue} /\ at # {} /\ ~Has(t, to))
    BY <2>2 DEF Explicit, AlignedTo
  <2> QED
    BY <2>1, <2>2
<1>4. AlignedTo(t, Matched(t, u, value))
  <2> DEFINE left == {l \in Range(NamesOf(t)) :
                        /\ ~Has(u, l)
                        /\ l \notin plan.exclude
                        /\ \A i \in DOMAIN plan.keys : ~SameLabel(l, plan.keys[i])}
             goes == value # Unnamed /\ Has(u, value) /\ ~Has(t, value) /\ Cardinality(left) = 1
  <2>1. Matched(t, u, value) = IF goes THEN Relabel(t, The(left), value) ELSE t
    BY DEF Matched
  <2>2. left \subseteq ColNames
    BY <1>2 DEF Range, NamesOf
  <2>3. goes => Cardinality(left) = 1
    OBVIOUS
  <2>4. goes => value \in ValueLabels /\ ~Has(t, value)
    OBVIOUS
  <2> HIDE DEF left, goes
  <2>5. Cardinality({}) = 0
    BY FS_EmptySet
  <2>6. goes => left # {}
    <3> SUFFICES ASSUME goes, left = {}
                 PROVE  FALSE
      OBVIOUS
    <3>1. Cardinality(left) = 0
      BY <2>5, Zenon
    <3> QED
      BY <2>3, <3>1
  <2>7. goes => The(left) \in ColNames
    BY <2>2, <2>6 DEF The
  <2> QED
    BY <1>1, <2>1, <2>4, <2>7 DEF AlignedTo
<1> QED
  BY <1>3, <1>4

LEMMA AlignedColumns ==
    ASSUME NEW t \in Seq(Column), NEW u, AlignedTo(t, u)
    PROVE  /\ u \in Seq(Column) /\ DOMAIN u = DOMAIN t
           /\ LabelsUnique(t) => LabelsUnique(u)
           /\ \A i \in DOMAIN t : u[i].name \in {t[i].name} \cup ValueLabels /\ u[i].done = t[i].done
BY RelabelledColumns DEF AlignedTo

\* The key a rule stands for is a list of columns.
LEMMA EnforcedKeys ==
    ASSUME plan \in Parameters, src \in Seq(Column), tgt \in Seq(Column), EnforceExplicitKey
    PROVE  plan' \in Parameters
<1>1. CASE UNCHANGED plan
  BY <1>1
<1>2. ASSUME NEW i \in KeyRules, NEW K \in KeysOf(plan.rules[i]), NEW list \in [1..Cardinality(K) -> K],
             plan' = [plan EXCEPT !.keys = list]
      PROVE  plan' \in Parameters
  <2>1. K \subseteq NamedBy(plan.rules[i]) /\ Cardinality(K) \in Nat
    BY DEF KeysOf
  <2>2. NamedBy(plan.rules[i]) \subseteq ColNames
    <3>1. Range(NamesOf(src)) \cup Range(NamesOf(tgt)) \subseteq ColNames
      <4>1. (\A k \in DOMAIN src : src[k] \in Column) /\ (\A k \in DOMAIN tgt : tgt[k] \in Column)
        BY PlacesOf
      <4>2. (\A k \in DOMAIN src : src[k].name \in ColNames) /\ (\A k \in DOMAIN tgt : tgt[k].name \in ColNames)
        BY <4>1 DEF Column
      <4> QED
        BY <4>2 DEF Range, NamesOf
    <3>2. Derived(plan) \subseteq ColNames
      <4>1. plan.derive \in Seq(Derivation)
        BY DEF Parameters
      <4>2. \A d \in Range(plan.derive) : d \in Derivation
        BY <4>1, PlacesOf DEF Range
      <4>3. \A d \in Range(plan.derive) : d.to \in ColNames
        BY <4>2 DEF Derivation
      <4> QED
        BY <4>3 DEF Derived
    <3> QED
      BY <3>1, <3>2 DEF NamedBy
  <2>3. list \in Seq(ColNames)
    <3>1. list \in [1..Cardinality(K) -> ColNames]
      BY <2>1, <2>2
    <3> QED
      BY <2>1, <3>1, IsASeq
  <2> QED
    BY <1>2, <2>3 DEF Parameters
<1> QED
  BY <1>1, <1>2 DEF EnforceExplicitKey

\* The labels of columns.
LEMMA LabelsListed ==
    ASSUME NEW t \in Seq(Column)
    PROVE  /\ NamesOf(t) \in Seq(ColNames)
           /\ \A i \in DOMAIN t : t[i] \in Column /\ t[i].name \in ColNames
           /\ \A i \in DOMAIN t : t[i].name \in Range(NamesOf(t))
<1>1. \A i \in DOMAIN t : t[i] \in Column
  BY PlacesOf
<1>2. \A i \in DOMAIN t : t[i].name \in ColNames
  BY <1>1 DEF Column
<1>3. NamesOf(t) \in [DOMAIN t -> ColNames]
  BY <1>2 DEF NamesOf
<1>4. NamesOf(t) \in Seq(ColNames)
  BY <1>3, ListMapped
<1>5. \A i \in DOMAIN t : NamesOf(t)[i] = t[i].name
  BY DEF NamesOf
<1>6. DOMAIN NamesOf(t) = DOMAIN t
  BY DEF NamesOf
<1> QED
  BY <1>1, <1>2, <1>4, <1>5, <1>6 DEF Range

\* The parts of a plan.
LEMMA PartsOfAPlan ==
    ASSUME plan \in Parameters
    PROVE  /\ \A n \in DOMAIN plan.derive : plan.derive[n] \in Derivation
           /\ Len(plan.derive) \in Nat /\ DOMAIN plan.derive = 1..Len(plan.derive)
           /\ \A l \in DOMAIN plan.map : plan.map[l] \in ColNames
           /\ plan.srcAgg \in Aggregation /\ plan.tgtAgg \in Aggregation
           /\ \A n \in DOMAIN plan.keys : plan.keys[n] \in ColNames
           /\ Len(plan.keys) \in Nat /\ DOMAIN plan.keys = 1..Len(plan.keys)
<1>1. plan.derive \in Seq(Derivation) /\ plan.keys \in Seq(ColNames)
      /\ plan.srcAgg \in Aggregation /\ plan.tgtAgg \in Aggregation
  BY DEF Parameters
<1>2. \A l \in DOMAIN plan.map : plan.map[l] \in ColNames
  BY DEF Parameters
<1> QED
  BY <1>1, <1>2, PlacesOf

\* AlignValues gives columns at most the labels of values.
LEMMA ValuesStep ==
    ASSUME AlignmentAssumption, AlignmentTypeOK, AlignValues
    PROVE  /\ src' \in Seq(Column) /\ tgt' \in Seq(Column)
           /\ DOMAIN src' = DOMAIN src /\ DOMAIN tgt' = DOMAIN tgt
           /\ LabelsUnique(src) => LabelsUnique(src)'
           /\ LabelsUnique(tgt) => LabelsUnique(tgt)'
           /\ \A i \in DOMAIN src : src'[i].name \in {src[i].name} \cup ValueLabels /\ src'[i].done = src[i].done
           /\ \A i \in DOMAIN tgt : tgt'[i].name \in {tgt[i].name} \cup ValueLabels /\ tgt'[i].done = tgt[i].done
<1> DEFINE u == Explicit(src)
<1>1. src \in Seq(Column) /\ tgt \in Seq(Column) /\ plan \in Parameters
  BY DEF AlignmentTypeOK
<1>2. /\ Or(plan.tgtAgg.of, plan.tgtValue) \in ValueLabels \cup {Unnamed}
      /\ Or(plan.srcAgg.of, plan.srcValue) \in ValueLabels \cup {Unnamed}
  BY DEF Or, ValueLabels
<1>3. /\ src' = Matched(u, tgt, Or(plan.tgtAgg.of, plan.tgtValue))
      /\ tgt' = Matched(tgt, src', Or(plan.srcAgg.of, plan.srcValue))
  BY DEF AlignValues
<1> HIDE DEF u
<1>4. AlignedTo(src, u)
  BY <1>1, <1>2, AlignedValues DEF u
<1>5. /\ u \in Seq(Column) /\ DOMAIN u = DOMAIN src
      /\ LabelsUnique(src) => LabelsUnique(u)
      /\ \A i \in DOMAIN src : u[i].name \in {src[i].name} \cup ValueLabels /\ u[i].done = src[i].done
  BY <1>1, <1>4, AlignedColumns
<1>6. AlignedTo(u, src') /\ AlignedTo(tgt, tgt')
  BY <1>1, <1>2, <1>3, <1>5, AlignedValues
<1> DEFINE after(t, v) ==
             /\ v \in Seq(Column) /\ DOMAIN v = DOMAIN t
             /\ LabelsUnique(t) => LabelsUnique(v)
             /\ \A i \in DOMAIN t : v[i].name \in {t[i].name} \cup ValueLabels /\ v[i].done = t[i].done
<1>7. after(u, src') /\ after(tgt, tgt')
  BY <1>1, <1>5, <1>6, AlignedColumns
<1>8. LabelsUnique(src)' <=> LabelsUnique(src')
  BY DEF LabelsUnique
<1>9. LabelsUnique(tgt)' <=> LabelsUnique(tgt')
  BY DEF LabelsUnique
<1> QED
  BY <1>5, <1>7, <1>8, <1>9

\* ResolveKey joins on a column of the source and gives its label to one of the target.
LEMMA JoinStep ==
    ASSUME AlignmentTypeOK, ResolveKey
    PROVE  \E n \in DOMAIN plan.keys :
              /\ handled' = n
              /\ \/ tgt' = tgt /\ keys' = keys /\ missing' = missing \cup {plan.keys[n]}
                 \/ \E i \in FirstOf(src, plan.keys[n]), j \in DOMAIN tgt :
                       /\ SameLabel(src[i].name, plan.keys[n])
                       /\ SameLabel(tgt[j].name, plan.keys[n])
                       /\ tgt' = Relabel(tgt, tgt[j].name, src[i].name)
                       /\ keys' = Append(keys, src[i].name)
                       /\ missing' = missing
<1> DEFINE n == handled + 1
           l == plan.keys[n]
<1>1. src \in Seq(Column) /\ tgt \in Seq(Column) /\ plan \in Parameters /\ handled \in Nat
  BY DEF AlignmentTypeOK
<1>2. n \in DOMAIN plan.keys /\ handled' = n
  BY <1>1, PartsOfAPlan DEF ResolveKey
<1>3. CASE FirstOf(src, l) = {} \/ FirstOf(tgt, l) = {}
  BY <1>2, <1>3 DEF ResolveKey
<1>4. CASE ~(FirstOf(src, l) = {} \/ FirstOf(tgt, l) = {})
  <2> DEFINE i == The(FirstOf(src, l))
             j == The(FirstOf(tgt, l))
  <2>1. i \in FirstOf(src, l)
    BY <1>4 DEF The
  <2>2. SameLabel(src[i].name, l) /\ j \in DOMAIN tgt /\ SameLabel(tgt[j].name, l)
    BY <1>1, <1>4, FoundColumns
  <2>3. /\ tgt' = Relabel(tgt, tgt[j].name, src[i].name)
        /\ keys' = Append(keys, src[i].name)
        /\ missing' = missing
    BY <1>2, <1>4 DEF ResolveKey
  <2> QED
    BY <1>2, <2>1, <2>2, <2>3
<1> QED
  BY <1>3, <1>4

\* A label that differs in case at most from that of a column of values.
ValueLike(l) == \E v \in ValueLabels : SameLabel(l, v)

\* Columns spelled alike but for case are columns of values.
Apart(t) ==
    \A i, j \in DOMAIN t : i # j /\ SameLabel(t[i].name, t[j].name) => ValueLike(t[i].name)

\* Columns are called as when they had been renamed.
CalledBy(t, labels) == \A i \in DOMAIN t : t[i].name \in Range(labels)

\* Columns went through the transforms for both sides that are meant for their labels.
Normalised(t) == \A i \in DOMAIN t : BothIn(t[i]) = BothOf(t[i].name)

\* Whatever they are called now, but for values.
Traced(t, labels) ==
    \A i \in DOMAIN t :
        \/ ValueLike(t[i].name)
        \/ \E m \in Range(labels) : SameLabel(m, t[i].name) /\ BothIn(t[i]) = BothOf(m)

\* A column of the key: the first of its name in the source, and in the target, too.
JoinedOn(k) ==
    /\ \E n \in DOMAIN plan.keys : SameLabel(k, plan.keys[n])
    /\ \E i \in FirstOf(src, k) : src[i].name = k
    /\ Has(tgt, k)

\* What holds of the tables and the key, stage by stage.
AlignInv ==
    /\ AlignmentTypeOK
    /\ stage \notin {"key", "collapse"} => LabelsUnique(src)
    /\ stage \notin {"key", "collapse", "resolve"} => LabelsUnique(tgt)
    /\ stage = "resolve" /\ Ordinary => LabelsUnique(tgt) /\ Apart(tgt)
    /\ stage \in {"transform", "aggregate", "values"} =>
          CalledBy(src, spelled.src) /\ CalledBy(tgt, spelled.tgt)
    /\ stage \in {"aggregate", "values"} => Normalised(src) /\ Normalised(tgt)
    /\ stage = "resolve" => Traced(src, spelled.src) /\ Traced(tgt, spelled.tgt)
    /\ stage # "resolve" => keys = <<>>
    /\ \A i \in DOMAIN keys : JoinedOn(keys[i])

LEMMA AlignTypeInit ==
    ASSUME AlignmentAssumption, AlignmentInit
    PROVE  AlignmentTypeOK
<1>1. ASSUME NEW l \in Seq(ColNames)
      PROVE  Uploaded(l) \in Seq(Column)
  <2>1. \A i \in DOMAIN l : [name |-> l[i], done |-> {}] \in Column
    BY DEF Column
  <2>2. Uploaded(l) \in [DOMAIN l -> Column]
    BY <2>1 DEF Uploaded
  <2> QED
    BY <2>2, ListMapped
<1>2. src \in Seq(Column) /\ tgt \in Seq(Column) /\ plan \in Parameters
  BY <1>1 DEF AlignmentInit, AlignmentAssumption
<1>3. stage = "key" /\ handled = 0 /\ spelled = [src |-> <<>>, tgt |-> <<>>] /\ keys = <<>> /\ missing = {}
  BY DEF AlignmentInit
<1>4. spelled \in [src : Seq(ColNames), tgt : Seq(ColNames)] /\ keys \in Seq(ColNames)
  BY <1>3
<1> QED
  BY <1>2, <1>3, <1>4 DEF AlignmentTypeOK, Stages

LEMMA AlignTypeStep ==
    ASSUME AlignmentAssumption, AlignmentTypeOK, [AlignmentNext]_alignVars
    PROVE  AlignmentTypeOK'
<1>1. /\ src \in Seq(Column) /\ tgt \in Seq(Column) /\ plan \in Parameters /\ stage \in Stages
      /\ handled \in Nat /\ spelled \in [src : Seq(ColNames), tgt : Seq(ColNames)]
      /\ keys \in Seq(ColNames) /\ missing \in SUBSET ColNames
  BY DEF AlignmentTypeOK
<1>2. CASE EnforceExplicitKey
  <2>1. plan' \in Parameters
    BY <1>1, <1>2, EnforcedKeys
  <2>2. UNCHANGED <<src, tgt, handled, spelled, keys, missing>> /\ stage' = "collapse"
    BY <1>2 DEF EnforceExplicitKey
  <2> QED
    BY <1>1, <2>1, <2>2 DEF AlignmentTypeOK, Stages
<1>3. CASE Collapse
  <2>1. src' \in Seq(Column) /\ tgt' \in Seq(Column)
    BY <1>1, <1>3, DeduplicatedColumns DEF Collapse
  <2>2. UNCHANGED <<plan, handled, spelled, keys, missing>> /\ stage' = "derive"
    BY <1>3 DEF Collapse
  <2> QED
    BY <1>1, <2>1, <2>2 DEF AlignmentTypeOK, Stages
<1>4. CASE Derive
  <2>1. handled' = handled + 1 /\ handled' \in DOMAIN plan.derive
    BY <1>1, <1>4, PartsOfAPlan DEF Derive
  <2>2. plan.derive[handled'] \in Derivation
    BY <1>1, <2>1, PartsOfAPlan
  <2>3. src' \in Seq(Column) /\ tgt' \in Seq(Column)
    BY <1>1, <1>4, <2>2, DerivedColumns DEF Derive
  <2>4. UNCHANGED <<plan, stage, spelled, keys, missing>>
    BY <1>4 DEF Derive
  <2> QED
    BY <1>1, <2>1, <2>3, <2>4 DEF AlignmentTypeOK
<1>5. CASE Rename
  <2>1. src' \in Seq(Column) /\ tgt' \in Seq(Column)
    BY <1>1, <1>5, PartsOfAPlan, RenamedColumns DEF Rename
  <2>2. NamesOf(src') \in Seq(ColNames) /\ NamesOf(tgt') \in Seq(ColNames)
    BY <2>1, LabelsListed
  <2>3. /\ spelled' = [src |-> NamesOf(src'), tgt |-> NamesOf(tgt')]
        /\ UNCHANGED <<plan, keys, missing>> /\ stage' = "transform" /\ handled' = 0
    BY <1>5 DEF Rename
  <2> QED
    BY <1>1, <2>1, <2>2, <2>3 DEF AlignmentTypeOK, Stages
<1>6. CASE Transform
  <2>1. src' \in Seq(Column) /\ tgt' \in Seq(Column)
    BY <1>1, <1>6, TransformedColumns DEF Transform
  <2>2. UNCHANGED <<plan, handled, spelled, keys, missing>> /\ stage' = "aggregate"
    BY <1>6 DEF Transform
  <2> QED
    BY <1>1, <2>1, <2>2 DEF AlignmentTypeOK, Stages
<1>7. CASE Aggregate
  <2>1. src' \in Seq(Column) /\ tgt' \in Seq(Column)
    BY <1>1, <1>7, PartsOfAPlan, AggregatedColumns DEF Aggregate
  <2>2. UNCHANGED <<plan, handled, spelled, keys, missing>> /\ stage' = "values"
    BY <1>7 DEF Aggregate
  <2> QED
    BY <1>1, <2>1, <2>2 DEF AlignmentTypeOK, Stages
<1>8. CASE AggregateFails
  <2>1. UNCHANGED <<src, tgt, plan, handled, spelled, keys, missing>> /\ stage' = "failed"
    BY <1>8 DEF AggregateFails
  <2> QED
    BY <1>1, <2>1 DEF AlignmentTypeOK, Stages
<1>9. CASE AlignValues
  <2>1. src' \in Seq(Column) /\ tgt' \in Seq(Column)
    BY <1>9, ValuesStep
  <2>2. UNCHANGED <<plan, handled, spelled, keys, missing>> /\ stage' = "resolve"
    BY <1>9 DEF AlignValues
  <2> QED
    BY <1>1, <2>1, <2>2 DEF AlignmentTypeOK, Stages
<1>10. CASE ResolveKey
  <2>1. UNCHANGED <<src, plan, stage, spelled>> /\ handled' = handled + 1
    BY <1>10 DEF ResolveKey
  <2>2. tgt' \in Seq(Column) /\ keys' \in Seq(ColNames) /\ missing' \in SUBSET ColNames
    <3>1. PICK n \in DOMAIN plan.keys :
            \/ tgt' = tgt /\ keys' = keys /\ missing' = missing \cup {plan.keys[n]}
            \/ \E i \in FirstOf(src, plan.keys[n]), j \in DOMAIN tgt :
                  /\ tgt' = Relabel(tgt, tgt[j].name, src[i].name)
                  /\ keys' = Append(keys, src[i].name)
                  /\ missing' = missing
      BY <1>10, JoinStep
    <3>2. plan.keys[n] \in ColNames
      BY <1>1, PartsOfAPlan
    <3>3. ASSUME NEW i \in FirstOf(src, plan.keys[n]), NEW j \in DOMAIN tgt,
                 tgt' = Relabel(tgt, tgt[j].name, src[i].name), keys' = Append(keys, src[i].name)
          PROVE  tgt' \in Seq(Column) /\ keys' \in Seq(ColNames)
      <4>1. src[i].name \in ColNames
        BY <1>1, LabelsListed DEF FirstOf
      <4>2. Relabel(tgt, tgt[j].name, src[i].name) \in Seq(Column)
        BY <1>1, <4>1, RelabelledColumns
      <4>3. Append(keys, src[i].name) \in Seq(ColNames)
        BY <1>1, <4>1
      <4> QED
        BY <3>3, <4>2, <4>3
    <3>4. missing' \in SUBSET ColNames
      BY <1>1, <3>1, <3>2
    <3>5. tgt' = tgt /\ keys' = keys => tgt' \in Seq(Column) /\ keys' \in Seq(ColNames)
      BY <1>1
    <3> QED
      BY <3>1, <3>3, <3>4, <3>5
  <2> QED
    BY <1>1, <2>1, <2>2 DEF AlignmentTypeOK
<1>11. CASE UNCHANGED alignVars
  BY <1>1, <1>11 DEF alignVars, AlignmentTypeOK
<1> QED
  BY <1>2, <1>3, <1>4, <1>5, <1>6, <1>7, <1>8, <1>9, <1>10, <1>11 DEF AlignmentNext, AlignmentDone

\* Whatever the files and the plan, the tables stay lists of columns with labels, and the
\* key a list of labels: what the engine passes from one step of preparation to the next.
THEOREM AlignmentTypeCorrect ==
    ASSUME AlignmentAssumption
    PROVE  AlignmentSpec => []AlignmentTypeOK
<1>1. AlignmentInit => AlignmentTypeOK
  BY AlignTypeInit
<1>2. AlignmentTypeOK /\ [AlignmentNext]_alignVars => AlignmentTypeOK'
  BY AlignTypeStep
<1> QED
  BY <1>1, <1>2, PTL DEF AlignmentSpec

LEMMA AlignInit ==
    ASSUME AlignmentAssumption, AlignmentInit
    PROVE  AlignInv
<1>1. AlignmentTypeOK
  BY AlignTypeInit
<1>2. stage = "key" /\ keys = <<>>
  BY DEF AlignmentInit
<1>3. DOMAIN keys = {}
  BY <1>2
<1> QED
  BY <1>1, <1>2, <1>3 DEF AlignInv

\* The tables when they have been renamed.
LEMMA RenameStep ==
    ASSUME AlignmentTypeOK, Rename
    PROVE  /\ LabelsUnique(src)' /\ LabelsUnique(tgt)'
           /\ CalledBy(src, spelled.src)' /\ CalledBy(tgt, spelled.tgt)'
<1>1. src \in Seq(Column) /\ tgt \in Seq(Column) /\ plan \in Parameters
  BY DEF AlignmentTypeOK
<1>2. /\ Renamed(src, plan.map) \in Seq(Column) /\ LabelsUnique(Renamed(src, plan.map))
      /\ Renamed(tgt, plan.map) \in Seq(Column) /\ LabelsUnique(Renamed(tgt, plan.map))
  BY <1>1, PartsOfAPlan, RenamedColumns
<1>3. /\ src' = Renamed(src, plan.map) /\ tgt' = Renamed(tgt, plan.map)
      /\ spelled'.src = NamesOf(src') /\ spelled'.tgt = NamesOf(tgt')
  BY DEF Rename
<1>4. /\ \A i \in DOMAIN src' : src'[i].name \in Range(spelled'.src)
      /\ \A i \in DOMAIN tgt' : tgt'[i].name \in Range(spelled'.tgt)
  BY <1>2, <1>3, LabelsListed
<1>5. LabelsUnique(src)' /\ LabelsUnique(tgt)'
  BY <1>2, <1>3 DEF LabelsUnique
<1> QED
  BY <1>4, <1>5 DEF CalledBy

\* The transforms: labels stay, and columns are normalised as their labels say.
LEMMA TransformStep ==
    ASSUME AlignmentTypeOK, Transform
    PROVE  /\ LabelsUnique(src) => LabelsUnique(src)'
           /\ LabelsUnique(tgt) => LabelsUnique(tgt)'
           /\ CalledBy(src, spelled.src) => CalledBy(src, spelled.src)'
           /\ CalledBy(tgt, spelled.tgt) => CalledBy(tgt, spelled.tgt)'
           /\ Normalised(src)' /\ Normalised(tgt)'
<1>1. src \in Seq(Column) /\ tgt \in Seq(Column) /\ plan \in Parameters
  BY DEF AlignmentTypeOK
<1>2. /\ src' = Transformed(src, "src") /\ tgt' = Transformed(tgt, "tgt")
      /\ plan' = plan /\ spelled' = spelled
  BY DEF Transform
<1>3. /\ DOMAIN src' = DOMAIN src
      /\ \A i \in DOMAIN src : src'[i].name = src[i].name /\ BothIn(src'[i]) = BothOf(src[i].name)
      /\ DOMAIN tgt' = DOMAIN tgt
      /\ \A i \in DOMAIN tgt : tgt'[i].name = tgt[i].name /\ BothIn(tgt'[i]) = BothOf(tgt[i].name)
  BY <1>1, <1>2, TransformedColumns
<1>4. Normalised(src)' /\ Normalised(tgt)'
  BY <1>2, <1>3 DEF Normalised, BothIn, BothOf
<1> QED
  BY <1>2, <1>3, <1>4 DEF LabelsUnique, CalledBy

\* Aggregation leaves columns of the table.
LEMMA AggregateStep ==
    ASSUME AlignmentTypeOK, Aggregate
    PROVE  /\ LabelsUnique(src) => LabelsUnique(src)'
           /\ LabelsUnique(tgt) => LabelsUnique(tgt)'
           /\ CalledBy(src, spelled.src) => CalledBy(src, spelled.src)'
           /\ CalledBy(tgt, spelled.tgt) => CalledBy(tgt, spelled.tgt)'
           /\ Normalised(src) => Normalised(src)'
           /\ Normalised(tgt) => Normalised(tgt)'
<1>1. /\ src \in Seq(Column) /\ tgt \in Seq(Column)
      /\ plan.srcAgg \in Aggregation /\ plan.tgtAgg \in Aggregation
  BY PartsOfAPlan DEF AlignmentTypeOK
<1>2. /\ src' = Aggregated(src, plan.srcAgg) /\ tgt' = Aggregated(tgt, plan.tgtAgg)
      /\ plan' = plan /\ spelled' = spelled
      /\ ~GroupsTwice(src, plan.srcAgg) /\ ~GroupsTwice(tgt, plan.tgtAgg)
  BY DEF Aggregate
<1>3. /\ \A n \in DOMAIN src' : \E i \in DOMAIN src : src'[n] = src[i]
      /\ \A n \in DOMAIN tgt' : \E i \in DOMAIN tgt : tgt'[n] = tgt[i]
      /\ LabelsUnique(src) => LabelsUnique(src')
      /\ LabelsUnique(tgt) => LabelsUnique(tgt')
  BY <1>1, <1>2, AggregatedColumns
<1>4. LabelsUnique(src) => LabelsUnique(src)'
  BY <1>3 DEF LabelsUnique
<1>5. LabelsUnique(tgt) => LabelsUnique(tgt)'
  BY <1>3 DEF LabelsUnique
<1>6. /\ CalledBy(src, spelled.src) => CalledBy(src, spelled.src)'
      /\ CalledBy(tgt, spelled.tgt) => CalledBy(tgt, spelled.tgt)'
  BY <1>2, <1>3 DEF CalledBy
<1>7. Normalised(src) => Normalised(src)'
  BY <1>2, <1>3 DEF Normalised, BothIn, BothOf
<1>8. Normalised(tgt) => Normalised(tgt)'
  BY <1>2, <1>3 DEF Normalised, BothIn, BothOf
<1> QED
  BY <1>4, <1>5, <1>6, <1>7, <1>8

\* Labels of ordinary tables, when at most columns of values have been called anew.
LEMMA ApartColumns ==
    ASSUME NEW t, NEW u, NEW labels, DOMAIN u = DOMAIN t, LabelsUnique(t), CalledBy(t, labels),
           CaseDistinct(labels),
           \A i \in DOMAIN t : u[i].name \in {t[i].name} \cup ValueLabels
    PROVE  Apart(u)
<1> SUFFICES ASSUME NEW i \in DOMAIN u, NEW j \in DOMAIN u, i # j, SameLabel(u[i].name, u[j].name)
             PROVE  ValueLike(u[i].name)
  BY DEF Apart
<1>1. CASE u[i].name \in ValueLabels
  BY <1>1 DEF ValueLike, SameLabel
<1>2. CASE u[j].name \in ValueLabels
  BY <1>2 DEF ValueLike
<1>3. CASE u[i].name = t[i].name /\ u[j].name = t[j].name
  <2>1. t[i].name \in Range(labels) /\ t[j].name \in Range(labels)
    BY DEF CalledBy
  <2>2. t[i].name = t[j].name
    BY <1>3, <2>1 DEF CaseDistinct, Range
  <2> QED
    BY <2>2 DEF LabelsUnique
<1> QED
  BY <1>1, <1>2, <1>3

\* The values aligned.
LEMMA ValuesAligned ==
    ASSUME AlignmentAssumption, AlignmentTypeOK, AlignValues, LabelsUnique(tgt),
           CalledBy(src, spelled.src), CalledBy(tgt, spelled.tgt), Normalised(src), Normalised(tgt)
    PROVE  /\ Ordinary' => Apart(tgt)'
           /\ Traced(src, spelled.src)' /\ Traced(tgt, spelled.tgt)'
<1>1. plan' = plan /\ spelled' = spelled
  BY DEF AlignValues
<1>2. /\ DOMAIN src' = DOMAIN src /\ DOMAIN tgt' = DOMAIN tgt
      /\ \A i \in DOMAIN src : src'[i].name \in {src[i].name} \cup ValueLabels /\ src'[i].done = src[i].done
      /\ \A i \in DOMAIN tgt : tgt'[i].name \in {tgt[i].name} \cup ValueLabels /\ tgt'[i].done = tgt[i].done
  BY ValuesStep
<1>3. ASSUME Ordinary'
      PROVE  Apart(tgt)'
  <2>1. CaseDistinct(spelled.tgt)
    BY <1>1, <1>3 DEF Ordinary, CaseDistinct, SameLabel
  <2>2. Apart(tgt')
    BY <1>2, <2>1, ApartColumns
  <2> QED
    BY <1>1, <2>2 DEF Apart, ValueLike, ValueLabels
<1>4. ASSUME NEW t, NEW u, NEW labels, DOMAIN u = DOMAIN t, CalledBy(t, labels), Normalised(t),
             \A i \in DOMAIN t : u[i].name \in {t[i].name} \cup ValueLabels /\ u[i].done = t[i].done
      PROVE  Traced(u, labels)
  <2>1. ASSUME NEW i \in DOMAIN u, u[i].name \in ValueLabels
        PROVE  ValueLike(u[i].name)
    BY <2>1 DEF ValueLike, SameLabel
  <2>2. ASSUME NEW i \in DOMAIN u, u[i].name = t[i].name
        PROVE  \E m \in Range(labels) : SameLabel(m, u[i].name) /\ BothIn(u[i]) = BothOf(m)
    <3>1. t[i].name \in Range(labels)
      BY <1>4 DEF CalledBy
    <3>2. BothIn(t[i]) = BothOf(t[i].name)
      BY <1>4 DEF Normalised
    <3>3. BothIn(u[i]) = BothIn(t[i])
      BY <1>4 DEF BothIn
    <3> QED
      BY <2>2, <3>1, <3>2, <3>3 DEF SameLabel
  <2> QED
    BY <1>4, <2>1, <2>2 DEF Traced
<1>5. Traced(src', spelled.src) /\ Traced(tgt', spelled.tgt)
  BY <1>2, <1>4
<1>6. Traced(src, spelled.src)' /\ Traced(tgt, spelled.tgt)'
  BY <1>1, <1>5 DEF Traced, ValueLike, ValueLabels, BothIn, BothOf
<1> QED
  BY <1>3, <1>6

\* A part of the key resolved: the column of the target that takes the label of the source
\* is the only one spelled like it, but for case.
LEMMA KeyAligned ==
    ASSUME AlignmentTypeOK, ResolveKey, Traced(src, spelled.src), Traced(tgt, spelled.tgt),
           Ordinary => LabelsUnique(tgt) /\ Apart(tgt),
           \A i \in DOMAIN keys : JoinedOn(keys[i])
    PROVE  /\ Traced(src, spelled.src)' /\ Traced(tgt, spelled.tgt)'
           /\ Ordinary' => LabelsUnique(tgt)' /\ Apart(tgt)'
           /\ (\A i \in DOMAIN keys : JoinedOn(keys[i]))'
<1>1. /\ src \in Seq(Column) /\ tgt \in Seq(Column) /\ plan \in Parameters
      /\ keys \in Seq(ColNames)
  BY DEF AlignmentTypeOK
<1>2. src' = src /\ plan' = plan /\ spelled' = spelled
  BY DEF ResolveKey
<1>3. Traced(src, spelled.src)'
  BY <1>2 DEF Traced, ValueLike, ValueLabels, BothIn, BothOf
<1>4. Ordinary' => Ordinary
  BY <1>2 DEF Ordinary, CaseDistinct, SameLabel, ValueLabels
<1>5. PICK n \in DOMAIN plan.keys :
         \/ tgt' = tgt /\ keys' = keys
         \/ \E i \in FirstOf(src, plan.keys[n]), j \in DOMAIN tgt :
               /\ SameLabel(src[i].name, plan.keys[n])
               /\ SameLabel(tgt[j].name, plan.keys[n])
               /\ tgt' = Relabel(tgt, tgt[j].name, src[i].name)
               /\ keys' = Append(keys, src[i].name)
  BY JoinStep
<1>6. CASE tgt' = tgt /\ keys' = keys
  <2>1. Traced(tgt, spelled.tgt)'
    BY <1>2, <1>6 DEF Traced, ValueLike, ValueLabels, BothIn, BothOf
  <2>2. Ordinary' => LabelsUnique(tgt)' /\ Apart(tgt)'
    BY <1>2, <1>4, <1>6 DEF LabelsUnique, Apart, ValueLike, ValueLabels
  <2>3. (\A i \in DOMAIN keys : JoinedOn(keys[i]))'
    BY <1>2, <1>6 DEF JoinedOn, FirstOf, Has
  <2> QED
    BY <1>3, <2>1, <2>2, <2>3
<1>7. ASSUME NEW f \in FirstOf(src, plan.keys[n]), NEW g \in DOMAIN tgt,
             SameLabel(src[f].name, plan.keys[n]), SameLabel(tgt[g].name, plan.keys[n]),
             tgt' = Relabel(tgt, tgt[g].name, src[f].name),
             keys' = Append(keys, src[f].name)
      PROVE  /\ Traced(tgt, spelled.tgt)'
             /\ Ordinary' => LabelsUnique(tgt)' /\ Apart(tgt)'
             /\ (\A i \in DOMAIN keys : JoinedOn(keys[i]))'
  <2> DEFINE s == src[f].name
             d == tgt[g].name
             l == plan.keys[n]
  <2>1. f \in DOMAIN src /\ s \in ColNames
    BY <1>1, LabelsListed DEF FirstOf
  <2>2. /\ DOMAIN tgt' = DOMAIN tgt
        /\ \A i \in DOMAIN tgt :
              /\ tgt'[i].name = IF tgt[i].name = d THEN s ELSE tgt[i].name
              /\ tgt'[i].done = tgt[i].done
    BY <1>1, <1>7, <2>1, RelabelledColumns
  <2>3. Upper[s] = Upper[d] /\ Upper[s] = Upper[l]
    BY <1>7 DEF SameLabel
  <2>4. \A i \in DOMAIN tgt : Upper[tgt'[i].name] = Upper[tgt[i].name]
    BY <2>2, <2>3
  <2> HIDE DEF s, d, l
  <2>5. Traced(tgt, spelled.tgt)'
    <3>1. \A i \in DOMAIN tgt : ValueLike(tgt[i].name) => ValueLike(tgt'[i].name)
      BY <2>4 DEF ValueLike, SameLabel
    <3>2. \A i \in DOMAIN tgt : \A m : SameLabel(m, tgt[i].name) => SameLabel(m, tgt'[i].name)
      BY <2>4 DEF SameLabel
    <3>3. \A i \in DOMAIN tgt : BothIn(tgt'[i]) = BothIn(tgt[i])
      BY <2>2 DEF BothIn
    <3>4. Traced(tgt', spelled.tgt)
      BY <2>2, <3>1, <3>2, <3>3 DEF Traced
    <3> QED
      BY <1>2, <3>4 DEF Traced, ValueLike, ValueLabels, BothIn, BothOf
  <2>6. ASSUME Ordinary'
        PROVE  LabelsUnique(tgt)' /\ Apart(tgt)'
    <3>1. Ordinary /\ LabelsUnique(tgt) /\ Apart(tgt)
      BY <1>4, <2>6
    <3>2. ASSUME NEW i \in DOMAIN tgt, NEW j \in DOMAIN tgt, i # j, SameLabel(tgt'[i].name, tgt'[j].name)
          PROVE  ValueLike(tgt'[i].name)
      <4>1. SameLabel(tgt[i].name, tgt[j].name)
        BY <2>4, <3>2 DEF SameLabel
      <4>2. ValueLike(tgt[i].name)
        BY <3>1, <3>2, <4>1 DEF Apart
      <4> QED
        BY <2>4, <4>2 DEF ValueLike, SameLabel
    <3>3. Apart(tgt')
      BY <2>2, <3>2 DEF Apart
    <3>4. ASSUME NEW i \in DOMAIN tgt, NEW j \in DOMAIN tgt, tgt'[i].name = tgt'[j].name, i # j
          PROVE  FALSE
      <4>1. ValueLike(tgt'[i].name)
        BY <3>2, <3>4 DEF SameLabel
      <4>2. tgt[i].name = d \/ tgt[j].name = d
        BY <2>2, <3>1, <3>4 DEF LabelsUnique
      <4>3. Upper[tgt'[i].name] = Upper[l]
        BY <2>2, <2>3, <3>4, <4>2
      <4>4. ValueLike(l)
        BY <4>1, <4>3 DEF ValueLike, SameLabel
      <4> QED
        BY <3>1, <4>4 DEF Ordinary, ValueLike, l
    <3>5. LabelsUnique(tgt)'
      BY <2>2, <3>4 DEF LabelsUnique
    <3> QED
      BY <1>2, <3>3, <3>5 DEF Apart, ValueLike, ValueLabels
  <2>7. ASSUME NEW k \in Range(keys) \cup {s}
        PROVE  JoinedOn(k)'
    <3>1. CASE k = s
      <4>1. f \in FirstOf(src, s)
        BY <1>7, <2>3 DEF FirstOf, SameLabel, l
      <4>2. tgt'[g].name = s
        BY <1>7, <2>2 DEF d
      <4>3. SameLabel(s, plan.keys[n])
        BY <2>3 DEF SameLabel, l
      <4>4. /\ \E m \in DOMAIN plan.keys : SameLabel(s, plan.keys[m])
            /\ \E i \in FirstOf(src, s) : src[i].name = s
            /\ \E i \in DOMAIN tgt' : tgt'[i].name = s
        BY <1>5, <1>7, <2>2, <4>1, <4>2, <4>3 DEF s
      <4> QED
        BY <1>2, <3>1, <4>4 DEF JoinedOn, Has, FirstOf
    <3>2. CASE k \in Range(keys)
      <4>1. JoinedOn(k)
        BY <3>2 DEF Range
      <4>2. PICK h \in DOMAIN tgt : tgt[h].name = k
        BY <4>1 DEF JoinedOn, Has
      <4>3. tgt'[h].name = k
        <5>1. CASE k # d
          BY <2>2, <4>2, <5>1
        <5>2. CASE k = d
          <6>1. SameLabel(k, l)
            BY <2>3, <5>2 DEF SameLabel
          <6>2. PICK i \in FirstOf(src, k) : src[i].name = k
            BY <4>1 DEF JoinedOn
          <6>3. i = f
            BY <1>1, <1>7, <6>1, <6>2, FirstIsOne DEF l
          <6> QED
            BY <2>2, <4>2, <5>2, <6>2, <6>3 DEF s
        <5> QED
          BY <5>1, <5>2
      <4> QED
        BY <1>2, <2>2, <4>1, <4>3 DEF JoinedOn, Has, FirstOf
    <3> QED
      BY <3>1, <3>2
  <2>8. \A i \in DOMAIN keys' : keys'[i] \in Range(keys) \cup {s}
    <3>1. s \in ColNames /\ keys' = Append(keys, s)
      BY <1>7, <2>1 DEF s
    <3>2. \A i \in DOMAIN keys' : keys'[i] = s \/ (i \in DOMAIN keys /\ keys'[i] = keys[i])
      BY <1>1, <3>1
    <3> QED
      BY <3>2 DEF Range
  <2>9. (\A i \in DOMAIN keys : JoinedOn(keys[i]))'
    BY <2>7, <2>8 DEF JoinedOn, Has, FirstOf
  <2> QED
    BY <2>5, <2>6, <2>9
<1> QED
  BY <1>3, <1>5, <1>6, <1>7

LEMMA AlignStep ==
    ASSUME AlignmentAssumption, AlignInv, [AlignmentNext]_alignVars
    PROVE  AlignInv'
<1>1. AlignmentTypeOK /\ AlignmentTypeOK'
  BY AlignTypeStep DEF AlignInv
<1>2. CASE EnforceExplicitKey
  <2>1. stage' = "collapse" /\ keys' = keys /\ stage = "key"
    BY <1>2 DEF EnforceExplicitKey
  <2>2. keys' = <<>>
    BY <2>1 DEF AlignInv
  <2> QED
    BY <1>1, <2>1, <2>2 DEF AlignInv
<1>3. CASE Collapse
  <2>1. stage' = "derive" /\ keys' = keys /\ stage = "collapse"
    BY <1>3 DEF Collapse
  <2>2. keys' = <<>>
    BY <2>1 DEF AlignInv
  <2>3. src \in Seq(Column) /\ tgt \in Seq(Column)
    BY <1>1 DEF AlignmentTypeOK
  <2>4. LabelsUnique(src') /\ LabelsUnique(tgt')
    BY <1>3, <2>3, DeduplicatedColumns DEF Collapse
  <2>5. LabelsUnique(src)' /\ LabelsUnique(tgt)'
    BY <2>4 DEF LabelsUnique
  <2> QED
    BY <1>1, <2>1, <2>2, <2>5 DEF AlignInv
<1>4. CASE Derive
  <2>1. stage' = "derive" /\ keys' = keys /\ stage = "derive"
    BY <1>4 DEF Derive
  <2>2. keys' = <<>> /\ LabelsUnique(src) /\ LabelsUnique(tgt)
    BY <2>1 DEF AlignInv
  <2>3. src \in Seq(Column) /\ tgt \in Seq(Column) /\ plan \in Parameters /\ handled \in Nat
    BY <1>1 DEF AlignmentTypeOK
  <2>4. handled' = handled + 1 /\ handled' \in DOMAIN plan.derive
    BY <1>4, <2>3, PartsOfAPlan DEF Derive
  <2>5. plan.derive[handled'] \in Derivation
    BY <2>3, <2>4, PartsOfAPlan
  <2>6. LabelsUnique(src') /\ LabelsUnique(tgt')
    BY <1>4, <2>2, <2>3, <2>5, DerivedColumns DEF Derive
  <2>7. LabelsUnique(src)' /\ LabelsUnique(tgt)'
    BY <2>6 DEF LabelsUnique
  <2> QED
    BY <1>1, <2>1, <2>2, <2>7 DEF AlignInv
<1>5. CASE Rename
  <2>1. stage' = "transform" /\ keys' = keys /\ stage = "derive"
    BY <1>5 DEF Rename
  <2>2. keys' = <<>>
    BY <2>1 DEF AlignInv
  <2> QED
    BY <1>1, <1>5, <2>1, <2>2, RenameStep DEF AlignInv
<1>6. CASE Transform
  <2>1. stage' = "aggregate" /\ keys' = keys /\ stage = "transform"
    BY <1>6 DEF Transform
  <2>2. /\ keys' = <<>> /\ LabelsUnique(src) /\ LabelsUnique(tgt)
        /\ CalledBy(src, spelled.src) /\ CalledBy(tgt, spelled.tgt)
    BY <2>1 DEF AlignInv
  <2> QED
    BY <1>1, <1>6, <2>1, <2>2, TransformStep DEF AlignInv
<1>7. CASE Aggregate
  <2>1. stage' = "values" /\ keys' = keys /\ stage = "aggregate"
    BY <1>7 DEF Aggregate
  <2>2. /\ keys' = <<>> /\ LabelsUnique(src) /\ LabelsUnique(tgt)
        /\ CalledBy(src, spelled.src) /\ CalledBy(tgt, spelled.tgt)
        /\ Normalised(src) /\ Normalised(tgt)
    BY <2>1 DEF AlignInv
  <2> QED
    BY <1>1, <1>7, <2>1, <2>2, AggregateStep DEF AlignInv
<1>8. CASE AggregateFails
  <2>1. stage' = "failed" /\ stage = "aggregate" /\ UNCHANGED <<src, tgt, keys>>
    BY <1>8 DEF AggregateFails
  <2>2. keys' = <<>> /\ LabelsUnique(src) /\ LabelsUnique(tgt)
    BY <2>1 DEF AlignInv
  <2>3. LabelsUnique(src)' /\ LabelsUnique(tgt)'
    BY <2>1, <2>2 DEF LabelsUnique
  <2> QED
    BY <1>1, <2>1, <2>2, <2>3 DEF AlignInv
<1>9. CASE AlignValues
  <2>1. stage' = "resolve" /\ keys' = keys /\ stage = "values"
    BY <1>9 DEF AlignValues
  <2>2. /\ keys' = <<>> /\ LabelsUnique(src) /\ LabelsUnique(tgt)
        /\ CalledBy(src, spelled.src) /\ CalledBy(tgt, spelled.tgt)
        /\ Normalised(src) /\ Normalised(tgt)
    BY <2>1 DEF AlignInv
  <2>3. LabelsUnique(src)' /\ LabelsUnique(tgt)'
    BY <1>1, <1>9, <2>2, ValuesStep
  <2> QED
    BY <1>1, <1>9, <2>1, <2>2, <2>3, ValuesAligned DEF AlignInv
<1>10. CASE ResolveKey
  <2>1. stage' = "resolve" /\ stage = "resolve" /\ src' = src
    BY <1>10 DEF ResolveKey
  <2>2. /\ LabelsUnique(src)
        /\ Ordinary => LabelsUnique(tgt) /\ Apart(tgt)
        /\ Traced(src, spelled.src) /\ Traced(tgt, spelled.tgt)
        /\ \A i \in DOMAIN keys : JoinedOn(keys[i])
    BY <2>1 DEF AlignInv
  <2>3. LabelsUnique(src)'
    BY <2>1, <2>2 DEF LabelsUnique
  <2> QED
    BY <1>1, <1>10, <2>1, <2>2, <2>3, KeyAligned DEF AlignInv
<1>11. CASE UNCHANGED alignVars
  BY <1>1, <1>11 DEF alignVars, AlignInv, LabelsUnique, CalledBy, Normalised, Traced, Apart, Ordinary,
     CaseDistinct, SameLabel, ValueLike, ValueLabels, BothIn, BothOf, JoinedOn, FirstOf, Has
<1> QED
  BY <1>2, <1>3, <1>4, <1>5, <1>6, <1>7, <1>8, <1>9, <1>10, <1>11 DEF AlignmentNext, AlignmentDone

LEMMA AlignedSafely ==
    ASSUME AlignmentAssumption
    PROVE  AlignmentSpec => []AlignInv
<1>1. AlignmentInit => AlignInv
  BY AlignInit
<1>2. AlignInv /\ [AlignmentNext]_alignVars => AlignInv'
  BY AlignStep
<1> QED
  BY <1>1, <1>2, PTL DEF AlignmentSpec

\* Whatever the plan derives, renames, aggregates and aligns, in the order of
\* _apply_recon_params, _prepare_recon and _resolve_keys: no two columns of a table get one
\* label, and what the files are joined on is a column of both.
THEOREM OneColumnCorrect ==
    ASSUME AlignmentAssumption
    PROVE  AlignmentSpec => []OneColumnPerLabel
<1>1. AlignInv => OneColumnPerLabel
  <2> SUFFICES ASSUME AlignInv
               PROVE  OneColumnPerLabel
    OBVIOUS
  <2>1. \A i \in DOMAIN keys : Has(src, keys[i]) /\ Has(tgt, keys[i])
    BY DEF AlignInv, JoinedOn, FirstOf, Has
  <2>2. stage \notin {"key", "collapse"} =>
           LabelsUnique(src) /\ (LabelsUnique(tgt) \/ (stage = "resolve" /\ ~Ordinary))
    BY DEF AlignInv
  <2> QED
    BY <2>1, <2>2 DEF OneColumnPerLabel
<1> QED
  BY <1>1, AlignedSafely, PTL

\* A column of the key that both files spell alike went through the same transforms for both
\* sides, whichever columns the plan makes, drops, renames or leaves out on the way.
THEOREM NormalisedCorrect ==
    ASSUME AlignmentAssumption
    PROVE  AlignmentSpec => []KeysNormalisedAlike
<1>1. AlignInv => KeysNormalisedAlike
  <2> SUFFICES ASSUME AlignInv, Resolved, Ordinary, NEW i \in DOMAIN src, NEW j \in DOMAIN tgt,
                      src[i].name = tgt[j].name, src[i].name \in Range(keys),
                      src[i].name \in Range(spelled.src) \cap Range(spelled.tgt)
               PROVE  BothIn(src[i]) = BothIn(tgt[j])
    BY DEF KeysNormalisedAlike, BothIn
  <2> DEFINE k == src[i].name
  <2>1. PICK n \in DOMAIN plan.keys : SameLabel(k, plan.keys[n])
    BY DEF AlignInv, JoinedOn, Range
  <2>2. ~ValueLike(k)
    BY <2>1 DEF Ordinary, ValueLike, SameLabel
  <2>3. Traced(src, spelled.src) /\ Traced(tgt, spelled.tgt)
    BY DEF AlignInv, Resolved
  <2>4. PICK m \in Range(spelled.src) : SameLabel(m, k) /\ BothIn(src[i]) = BothOf(m)
    BY <2>2, <2>3 DEF Traced
  <2>5. PICK p \in Range(spelled.tgt) : SameLabel(p, k) /\ BothIn(tgt[j]) = BothOf(p)
    BY <2>2, <2>3 DEF Traced
  <2>6. m = k
    BY <2>4 DEF Ordinary, CaseDistinct, Range
  <2>7. p = k
    BY <2>5 DEF Ordinary, CaseDistinct, Range
  <2> QED
    BY <2>4, <2>5, <2>6, <2>7
<1> QED
  BY <1>1, AlignedSafely, PTL

==============================================================================
