----------------------------- MODULE MCAnalyses -----------------------------
(***************************************************************************)
(* Small instances of the analyses, checked in one run.  They share no     *)
(* state, so TLC looks at one of them at a time (part), while the others   *)
(* stay where they start, with one input.                                  *)
(***************************************************************************)
EXTENDS Analyses, MCReconcile, MCNWay, MCAlignment, MCQuality, MCCrossReference

VARIABLE part

\* Up to two columns change; a change is in the threshold of some modes.
MCModes == {{}, {"pct"}, {"pct", "abs"}}
MCChanges == UNION {[C -> MCModes] : C \in SUBSET {"amount", "name"}}
MCTolerated ==
    {{}, {[column |-> "*", mode |-> "pct"]}, {[column |-> "amount", mode |-> "abs"]},
     {[column |-> "amount", mode |-> "pct"], [column |-> "name", mode |-> "fuzzy"]},
     {[column |-> "amount", mode |-> "abs"], [column |-> "name", mode |-> "pct"]}}

------------------------------------------------------------------------------
\* The one initial state of a part that is not looked at.
FuzzyIdle ==
    /\ score = [o \in Others |-> [p \in Pair |-> 0]]
    /\ todo = [o \in Others |-> Candidates(o)]
    /\ matches = [o \in Others |-> {}]
KeyIdle ==
    /\ meta = {} /\ joinable = {} /\ width = 0 /\ tried = {} /\ best = {} /\ answer = NoAnswer
    /\ single = [c \in Ranks |-> 0]
    /\ combo = [S \in Combos |-> 1000]
ReconIdle == file1 = <<>> /\ file2 = <<>> /\ keyed = FALSE /\ report = NoReport
NWayIdle ==
    sources = <<<<>>, <<>>, <<>>>> /\ named = <<"a", "b", "c">> /\ matrix = NoReport
AlignIdle ==
    /\ src = Uploaded(<<"id", "v">>) /\ tgt = Uploaded(<<"id", "v">>)
    /\ plan = MCPlan(<<>>, <<>>, <<MCOn("tgt", "id"), MCOn("both", Unnamed)>>, <<NoAgg, NoAgg>>,
                     <<Unnamed, Unnamed>>, <<>>, <<>>)
    /\ stage = "key" /\ handled = 0 /\ keys = <<>> /\ missing = {}
    /\ spelled = [src |-> <<>>, tgt |-> <<>>]
ToleranceIdle == breaks = <<>> /\ rules = {} /\ diff = Compare(<<>>) /\ applied = FALSE
QualityIdle ==
    /\ table = << <<"-1", "-1">>, <<"USD", "USD">> >>
    /\ request = [hints |-> NoHints, pack |-> NoPack, rules |-> {}, dict |-> <<>>]
    /\ saved = {} /\ regexes = {} /\ standard = NotRun /\ ai = NotRun
XrefIdle ==
    /\ refs = <<MCTwo("one", "isin", "ccy", <<"a-1", "b">>, <<"x", "10">>), MCBoth>>
    /\ asked = [key |-> Unasked, fields |-> Unasked, golden |-> Unasked, conflictsOnly |-> FALSE]
    /\ xref = NoXref /\ xrefAI = NoXref

\* What is said of a column that joins nothing plays no part.  It makes any combination
\* perfect, as does the column ranked last, which has many empty cells.
MCLast == Cardinality(Ranks)
MCOpen(S) == S \subseteq joinable \ {MCLast}
KeyChoice ==
    /\ joinable \in SUBSET Ranks
    /\ meta \in SUBSET (joinable \ {MCLast})
    /\ single \in {u \in [Ranks -> SingleLevels] : \A c \in Ranks : ~MCOpen({c}) => u[c] = 0}
    /\ \E u \in [{S \in Combos : MCOpen(S)} -> Levels] :
          combo = [S \in Combos |-> IF MCOpen(S) THEN u[S] ELSE 1000]

Parts == {"fuzzy", "key", "two", "nway", "align", "tolerance", "quality", "xref"}

MCInit ==
    /\ part \in Parts
    /\ IF part = "fuzzy"     THEN FuzzyInit ELSE FuzzyIdle
    /\ IF part = "key"       THEN KeyChoice /\ KeyInit ELSE KeyIdle
    /\ IF part = "two"       THEN FileChoice /\ ReconInit ELSE ReconIdle
    /\ IF part = "nway"      THEN NameChoice /\ NWayInit ELSE NWayIdle
    /\ IF part = "align"     THEN AlignmentInit ELSE AlignIdle
    /\ IF part = "tolerance" THEN ToleranceInit ELSE ToleranceIdle
    /\ IF part = "quality"   THEN QualityInit ELSE QualityIdle
    /\ IF part = "xref"      THEN CrossReferenceInit ELSE XrefIdle

MCNext ==
    /\ \/ part = "fuzzy" /\ FuzzyStep
       \/ part = "key" /\ KeyStep
       \/ part = "two" /\ ReconStep
       \/ part = "nway" /\ NWayStep
       \/ part = "align" /\ AlignmentStep
       \/ part = "tolerance" /\ ToleranceStep
       \/ part = "quality" /\ QualityStep
       \/ part = "xref" /\ CrossReferenceStep
    /\ UNCHANGED part

MCSpec == MCInit /\ [][MCNext]_<<part, analysesVars>>
==============================================================================
