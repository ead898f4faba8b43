--------------------------- MODULE AnalysesProofs ---------------------------
(***************************************************************************)
(* The analyses together keep what each of them keeps by itself: a step of *)
(* the composition is a step of one part and a stutter of the others, so   *)
(* every behaviour of it is a behaviour of every part, and the theorems    *)
(* about the parts carry over.                                             *)
(***************************************************************************)
EXTENDS Analyses, ComparisonProofs, QualityProofs

------------------------------------------------------------------------------
\* What a part's step leaves to the others.
LEMMA StepOfOne ==
    ASSUME [AnalysesNext]_analysesVars
    PROVE  /\ [FuzzyNext]_fuzzyVars
           /\ [KeyNext]_keyVars
           /\ [ReconNext]_reconVars
           /\ [NWayNext]_nwayVars
           /\ [AlignmentNext]_alignVars
           /\ [ToleranceNext]_toleranceVars
           /\ [QualityNext]_qualityVars
           /\ [CrossReferenceNext]_xrefVars
<1> USE DEF comparing, around
<1>1. CASE FuzzyStep
  BY <1>1 DEF FuzzyStep
<1>2. CASE KeyStep
  BY <1>2 DEF KeyStep
<1>3. CASE ReconStep
  BY <1>3 DEF ReconStep
<1>4. CASE NWayStep
  BY <1>4 DEF NWayStep
<1>5. CASE AlignmentStep
  BY <1>5 DEF AlignmentStep
<1>6. CASE ToleranceStep
  BY <1>6 DEF ToleranceStep
<1>7. CASE QualityStep
  BY <1>7 DEF QualityStep
<1>8. CASE CrossReferenceStep
  BY <1>8 DEF CrossReferenceStep
<1>9. CASE UNCHANGED analysesVars
  BY <1>9 DEF analysesVars
<1> QED
  BY <1>1, <1>2, <1>3, <1>4, <1>5, <1>6, <1>7, <1>8, <1>9 DEF AnalysesNext

\* The analyses share no state: running them together is running each of them
\* (main.py keeps what an analysis works on in the request that asked for it).
THEOREM PartsRunAlone ==
    AnalysesSpec =>
        /\ FuzzySpec /\ KeySpec /\ ReconSpec /\ NWaySpec
        /\ AlignmentSpec /\ ToleranceSpec /\ QualitySpec /\ CrossReferenceSpec
<1>1. AnalysesInit =>
        /\ FuzzyInit /\ KeyInit /\ ReconInit /\ NWayInit
        /\ AlignmentInit /\ ToleranceInit /\ QualityInit /\ CrossReferenceInit
  BY DEF AnalysesInit
<1> QED
  BY <1>1, StepOfOne, PTL
     DEF AnalysesSpec, FuzzySpec, KeySpec, ReconSpec, NWaySpec, AlignmentSpec, ToleranceSpec,
         QualitySpec, CrossReferenceSpec

\* All parts keep their types while any of them runs, whatever the files, keys,
\* settings and options.
THEOREM AnalysesTypeCorrect ==
    ASSUME AlignmentAssumption, CrossReferenceAssumption
    PROVE  AnalysesSpec => []AnalysesTypeOK
BY PartsRunAlone, FuzzyTypeCorrect, KeyTypeCorrect, ReconTypeCorrect, NWayTypeCorrect,
   AlignmentTypeCorrect, ToleranceTypeCorrect, QualityTypeCorrect, CrossReferenceTypeCorrect, PTL
   DEF AnalysesTypeOK

\* Whatever runs beside it, a greedy matching is stable, a key joins, a report loses
\* no row, engines agree, alignment keeps labels apart, and a quality run keeps its
\* floor and its exclusions.
THEOREM AnalysesCorrect ==
    ASSUME AlignmentAssumption, CrossReferenceAssumption
    PROVE  AnalysesSpec =>
              /\ [](OneToOne /\ NoBetterPairLeft)
              /\ [](KeyJoins /\ BestOfItsWidth /\ FallbackIsLastResort)
              /\ [](CleanMeansEqual /\ SilentRowsAreDuplicates /\ CountsBalance)
              /\ [](NWayMissesNothing /\ EnginesAgree)
              /\ [](OneColumnPerLabel /\ KeysNormalisedAlike)
              /\ [](TolerancesHideNothing /\ DisagreementsAreConflicts)
              /\ [](AIKeepsTheFloor /\ ExcludedPlayNoPart /\ BetterDataScoresHigher)
BY PartsRunAlone, OneToOneCorrect, StableCorrect, KeyJoinsCorrect, BestEffortCorrect,
   FallbackCorrect, CleanCorrect, SilentCorrect, CountsCorrect, MissesNothingCorrect,
   EnginesCorrect, OneColumnCorrect, NormalisedCorrect, TolerancesCorrect,
   DisagreementsCorrect, FloorCorrect, ExcludedCorrect, BetterCorrect, PTL

==============================================================================
