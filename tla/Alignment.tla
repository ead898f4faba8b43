----------------------------- MODULE Alignment -----------------------------
(***************************************************************************)
(* How two files are made comparable before an AI reconciliation compares  *)
(* them: _enforce_explicit_key, _prepare_recon, _apply_recon_params and    *)
(* _resolve_keys of main.py.                                               *)
(*                                                                         *)
(* A table is the sequence of its columns; of a column only its label and  *)
(* the value transforms it went through (their places in the plan) are     *)
(* kept.  A plan is what the language model makes of the saved rules.  The *)
(* two tables are prepared one after the other; as neither looks at the    *)
(* other until their values are aligned, here they go step by step.        *)
(*                                                                         *)
(* src, tgt  the tables, as far as they are prepared                       *)
(* plan      the parameters of the run                                     *)
(* stage     the step that is next                                         *)
(* handled   the entries of the plan's list that this step is done with    *)
(* spelled   the labels of both tables when the columns had been renamed   *)
(* keys      the columns the files are joined on                           *)
(* missing   parts of the key that were not found on both sides            *)
(***************************************************************************)
EXTENDS Naturals, FiniteSets, Functions, Sequences, Selection

CONSTANTS ColNames,    \* of columns
          Upper,     \* from labels to labels without case
          Covers,    \* Covers[l]: the labels whose text is part of that of l
          SrcTables, TgtTables, \* lists of labels, as uploaded
          Plans,     \* the parameters a run may be given
          Unnamed    \* no column is named

LabelOrNone == ColNames \cup {Unnamed}
Sides  == {"src", "tgt", "both"}

\* What to derive, in the order of the engine: columns combined, coalesced (one of them
\* is enough), computed and parsed; and the rest of a plan.
Derivation  == [kind : {"combine", "coalesce", "compute", "parse"}, side : Sides,
                from : SUBSET ColNames, to : ColNames]
Aggregation == [by : Seq(ColNames), of : LabelOrNone]
Parameters  ==
    [derive : Seq(Derivation), map : UNION {[S -> ColNames] : S \in SUBSET ColNames},
     transforms : Seq([side : Sides, col : LabelOrNone]),
     srcAgg : Aggregation, tgtAgg : Aggregation, srcValue : LabelOrNone,
     tgtValue : LabelOrNone,
     keys : Seq(ColNames), rules : Seq([names : SUBSET ColNames, key : BOOLEAN]),
     exclude : SUBSET ColNames]

ASSUME AlignmentAssumption ==
    /\ Unnamed \notin ColNames
    /\ SrcTables \cup TgtTables \subseteq Seq(ColNames)
    /\ Plans \subseteq Parameters

VARIABLES src, tgt, plan, stage, handled, spelled, keys, missing

alignVars == <<src, tgt, plan, stage, handled, spelled, keys, missing>>

Stages == {"key", "collapse", "derive", "transform", "aggregate", "values", "resolve", "failed"}

Column == [name : ColNames, done : SUBSET Nat]

AlignmentTypeOK ==
    /\ src \in Seq(Column) /\ tgt \in Seq(Column)
    /\ plan \in Parameters
    /\ stage \in Stages
    /\ handled \in Nat
    /\ spelled \in [src : Seq(ColNames), tgt : Seq(ColNames)]
    /\ keys \in Seq(ColNames)
    /\ missing \in SUBSET ColNames

Uploaded(labels) == [i \in DOMAIN labels |-> [name |-> labels[i], done |-> {}]]

AlignmentInit ==
    /\ src \in {Uploaded(l) : l \in SrcTables}
    /\ tgt \in {Uploaded(l) : l \in TgtTables}
    /\ plan \in Plans
    /\ stage = "key"
    /\ handled = 0
    /\ spelled = [src |-> <<>>, tgt |-> <<>>]
    /\ keys = <<>>
    /\ missing = {}

------------------------------------------------------------------------------
(* Labels. *)

NamesOf(t) == [i \in DOMAIN t |-> t[i].name]
Has(t, l) == \E i \in DOMAIN t : t[i].name = l

SameLabel(l, m) == Upper[l] = Upper[m]

\* The first column named so, if there is one, and the last.
FirstOf(t, l) ==
    {i \in DOMAIN t : SameLabel(t[i].name, l) /\ \A j \in 1..(i - 1) : ~SameLabel(t[j].name, l)}
LastOf(t, l) ==
    {i \in DOMAIN t : SameLabel(t[i].name, l) /\ \A j \in (i + 1)..Len(t) : ~SameLabel(t[j].name, l)}

The(places) == CHOOSE i \in places : TRUE

\* Every label once, at its first place.
Deduplicated(t) ==
    ElementsAt(t, {i \in DOMAIN t : \A j \in 1..(i - 1) : t[j].name # t[i].name})

\* Columns labelled l get label m.
Relabel(t, l, m) ==
    [i \in DOMAIN t |-> IF t[i].name = l THEN [t[i] EXCEPT !.name = m] ELSE t[i]]

\* A column made from others: in the place of one so labelled, or at the end.
Put(t, l) == IF Has(t, l) THEN t ELSE Append(t, [name |-> l, done |-> {}])

On(entry, side) == entry.side \in {side, "both"}

------------------------------------------------------------------------------
(* The key the user named. *)

Derived(p) == {d.to : d \in {e \in Range(p.derive) : e.kind # "parse"}}

\* The columns that a rule names, without those whose name is part of another's.
NamedBy(rule) ==
    LET known == Range(NamesOf(src)) \cup Range(NamesOf(tgt)) \cup Derived(plan)
        found == {l \in known : \E m \in rule.names : SameLabel(l, m)}
    IN  {l \in found : \A m \in found : Upper[l] \notin Covers[m]}

\* The keys of up to four columns it may stand for: of spellings of one name, any one.
KeysOf(rule) ==
    {K \in SUBSET NamedBy(rule) :
        /\ Cardinality(K) \in 1..4
        /\ \A l \in NamedBy(rule) : Cardinality({m \in K : SameLabel(l, m)}) = 1}

\* Rules about keys (and no hints) that name a key.
KeyRules == {i \in DOMAIN plan.rules : plan.rules[i].key /\ KeysOf(plan.rules[i]) # {}}

\* The newest of them wins over what the language model inferred.
EnforceExplicitKey ==
    /\ stage = "key"
    /\ stage' = "collapse"
    /\ IF KeyRules = {} THEN UNCHANGED plan
       ELSE \E i \in KeyRules : \E K \in KeysOf(plan.rules[i]) : \E list \in [1..Cardinality(K) -> K] :
              /\ \A j \in KeyRules : j <= i
              /\ Range(list) = K
              /\ plan' = [plan EXCEPT !.keys = list]
    /\ UNCHANGED <<src, tgt, handled, spelled, keys, missing>>

------------------------------------------------------------------------------
(* Columns made from others, on each side. *)

Collapse ==
    /\ stage = "collapse"
    /\ stage' = "derive"
    /\ src' = Deduplicated(src)
    /\ tgt' = Deduplicated(tgt)
    /\ UNCHANGED <<plan, handled, spelled, keys, missing>>

\* The column of an entry, if what it is made from is there.
WithDerived(t, d, side) ==
    LET there == {l \in d.from : FirstOf(t, l) # {}} IN
    IF On(d, side) /\ (there = d.from \/ (d.kind = "coalesce" /\ there # {}))
    THEN Put(t, d.to) ELSE t

Derive ==
    /\ stage = "derive"
    /\ handled < Len(plan.derive)
    /\ handled' = handled + 1
    /\ src' = WithDerived(src, plan.derive[handled'], "src")
    /\ tgt' = WithDerived(tgt, plan.derive[handled'], "tgt")
    /\ UNCHANGED <<plan, stage, spelled, keys, missing>>

\* Mutant: a plain rename.
M_Renamed(t, map) ==
    [i \in DOMAIN t |-> IF t[i].name \in DOMAIN map THEN [t[i] EXCEPT !.name = map[@]] ELSE t[i]]

\* A column that bears the new label of another goes first.
Renamed(t, map) ==
    LET goes(l) == \E k \in DOMAIN map \ {l} : Has(t, k) /\ map[k] = l
        rest    == ElementsAt(t, {i \in DOMAIN t : ~goes(t[i].name)})
    IN  Deduplicated([i \in DOMAIN rest |->
            IF rest[i].name \in DOMAIN map THEN [rest[i] EXCEPT !.name = map[@]] ELSE rest[i]])

Rename ==
    /\ stage = "derive"
    /\ handled = Len(plan.derive)
    /\ stage' = "transform"
    /\ handled' = 0
    /\ src' = Renamed(src, plan.map)
    /\ tgt' = Renamed(tgt, plan.map)
    /\ spelled' = [src |-> NamesOf(src'), tgt |-> NamesOf(tgt')]
    /\ UNCHANGED <<plan, keys, missing>>

\* The column of that very label, or all.
Transformed(t, side) ==
    [i \in DOMAIN t |-> [t[i] EXCEPT !.done =
        {n \in DOMAIN plan.transforms :
            On(plan.transforms[n], side) /\ plan.transforms[n].col \in {t[i].name, Unnamed}}]]

\* Mutant: only the source is transformed.
M_Transform ==
    /\ stage = "transform"
    /\ stage' = "aggregate"
    /\ src' = Transformed(src, "src")
    /\ tgt' = tgt
    /\ UNCHANGED <<plan, handled, spelled, keys, missing>>

Transform ==
    /\ stage = "transform"
    /\ stage' = "aggregate"
    /\ src' = Transformed(src, "src")
    /\ tgt' = Transformed(tgt, "tgt")
    /\ UNCHANGED <<plan, handled, spelled, keys, missing>>

\* The labels to group by that are there, but for that of the aggregated column itself.
Groups(t, agg) ==
    ElementsAt(agg.by, {i \in DOMAIN agg.by : LastOf(t, agg.by[i]) # {} /\ ~SameLabel(agg.by[i], agg.of)})

Aggregates(t, agg) ==
    /\ agg.of # Unnamed /\ LastOf(t, agg.of) # {}
    /\ \E i \in DOMAIN agg.by : LastOf(t, agg.by[i]) # {}

\* pandas inserts the columns that were grouped by, and refuses to insert one twice.
GroupsTwice(t, agg) ==
    Aggregates(t, agg) /\ \E i, j \in DOMAIN Groups(t, agg) :
                              i # j /\ SameLabel(Groups(t, agg)[i], Groups(t, agg)[j])

\* Only what is grouped by and what is aggregated is left, if both are there.
Aggregated(t, agg) ==
    LET at(l) == t[The(LastOf(t, l))]
        by    == Groups(t, agg)
    IN  IF Aggregates(t, agg) THEN Append([i \in DOMAIN by |-> at(by[i])], at(agg.of)) ELSE t

Aggregate ==
    /\ stage = "aggregate"
    /\ ~GroupsTwice(src, plan.srcAgg) /\ ~GroupsTwice(tgt, plan.tgtAgg)
    /\ stage' = "values"
    /\ src' = Aggregated(src, plan.srcAgg)
    /\ tgt' = Aggregated(tgt, plan.tgtAgg)
    /\ UNCHANGED <<plan, handled, spelled, keys, missing>>

AggregateFails ==
    /\ stage = "aggregate"
    /\ GroupsTwice(src, plan.srcAgg) \/ GroupsTwice(tgt, plan.tgtAgg)
    /\ stage' = "failed"
    /\ UNCHANGED <<src, tgt, plan, handled, spelled, keys, missing>>

------------------------------------------------------------------------------
(* One label for the values to compare, and for the parts of the key. *)

Or(l, m) == IF l # Unnamed THEN l ELSE m

\* The source's value column takes the label the target's has.
Explicit(t) ==
    LET to == Or(plan.tgtValue, plan.tgtAgg.of)
        at == LastOf(t, plan.srcValue)
    IN  IF plan.srcValue # Unnamed /\ to \notin {Unnamed, plan.srcValue} /\ at # {} /\ ~Has(t, to)
        THEN Relabel(t, t[The(at)].name, to) ELSE t

\* A value that only table u has goes by the one column of t that is left over.
Matched(t, u, value) ==
    LET left == {l \in Range(NamesOf(t)) :
                    /\ ~Has(u, l)
                    /\ l \notin plan.exclude
                    /\ \A i \in DOMAIN plan.keys : ~SameLabel(l, plan.keys[i])}
    IN  IF value # Unnamed /\ Has(u, value) /\ ~Has(t, value) /\ Cardinality(left) = 1
        THEN Relabel(t, The(left), value) ELSE t

AlignValues ==
    /\ stage = "values"
    /\ stage' = "resolve"
    /\ src' = Matched(Explicit(src), tgt, Or(plan.tgtAgg.of, plan.tgtValue))
    /\ tgt' = Matched(tgt, src', Or(plan.srcAgg.of, plan.srcValue))
    /\ UNCHANGED <<plan, handled, spelled, keys, missing>>

\* A part of the key, found on both sides: the target's column takes the source's label.
\* What is missing is warned of; the other parts are joined on.
ResolveKey ==
    /\ stage = "resolve"
    /\ handled < Len(plan.keys)
    /\ handled' = handled + 1
    /\ LET l == plan.keys[handled']
           s == src[The(FirstOf(src, l))].name
           t == tgt[The(FirstOf(tgt, l))].name
       IN  IF FirstOf(src, l) = {} \/ FirstOf(tgt, l) = {}
           THEN missing' = missing \cup {l} /\ UNCHANGED <<tgt, keys>>
           ELSE tgt' = Relabel(tgt, t, s) /\ keys' = Append(keys, s) /\ UNCHANGED missing
    /\ UNCHANGED <<src, plan, stage, spelled>>

Resolved == stage = "resolve" /\ handled = Len(plan.keys)

AlignmentDone == (Resolved \/ stage = "failed") /\ UNCHANGED alignVars

AlignmentNext ==
    \/ EnforceExplicitKey \/ Collapse \/ Derive \/ Rename \/ Transform \/ Aggregate
    \/ AggregateFails \/ AlignValues \/ ResolveKey \/ AlignmentDone

AlignmentSpec == AlignmentInit /\ [][AlignmentNext]_alignVars

------------------------------------------------------------------------------
(* Properties. *)

LabelsUnique(t) == \A i, j \in DOMAIN t : t[i].name = t[j].name => i = j

\* No two labels of a list differ in case only.
CaseDistinct(labels) ==
    \A i, j \in DOMAIN labels : SameLabel(labels[i], labels[j]) => labels[i] = labels[j]

\* What columns with the values to compare are called.
ValueLabels == {plan.srcValue, plan.tgtValue, plan.srcAgg.of, plan.tgtAgg.of} \ {Unnamed}

\* No columns of a table differ in case only, and no column is both a key and the value.
Ordinary ==
    /\ CaseDistinct(spelled.src) /\ CaseDistinct(spelled.tgt)
    /\ \A i \in DOMAIN plan.keys, l \in ValueLabels : ~SameLabel(plan.keys[i], l)

\* Every label names one column ("labels stay unique", _apply_recon_params): columns
\* made, renamed, aggregated and aligned never end up under one label, and neither do
\* the columns of the key, provided the plan and the tables are ordinary; and a column of
\* the key is there on both sides.
OneColumnPerLabel ==
    /\ stage \notin {"key", "collapse"} =>
          LabelsUnique(src) /\ (LabelsUnique(tgt) \/ (stage = "resolve" /\ ~Ordinary))
    /\ \A i \in DOMAIN keys : Has(src, keys[i]) /\ Has(tgt, keys[i])

\* The columns of a key went through the same transforms, as far as these are meant
\* for both sides: a value of the key is normalised in both files or in none, so that
\* equal keys stay equal (_apply_recon_params), provided both files spell the column
\* alike once renamed.
KeysNormalisedAlike ==
    LET both(c) == {n \in c.done : plan.transforms[n].side = "both"}
        alike(l) == l \in Range(spelled.src) \cap Range(spelled.tgt)
    IN  Resolved /\ Ordinary =>
            \A i \in DOMAIN src, j \in DOMAIN tgt :
                src[i].name = tgt[j].name /\ src[i].name \in Range(keys) /\ alike(src[i].name)
                    => both(src[i]) = both(tgt[j])
==============================================================================
