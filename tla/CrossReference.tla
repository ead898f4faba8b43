--------------------------- MODULE CrossReference ---------------------------
(***************************************************************************)
(* The cross reference of two to five sources: analyze_cross_reference,    *)
(* the endpoint /xref, and the AI run /xref/run-llm with its tolerances    *)
(* (_apply_xref_exception_rules) of main.py.                               *)
(*                                                                         *)
(* A source has a name (that of its file), labels of columns, and rows of  *)
(* texts; a null is the text "".  The engine knows a source by its name    *)
(* only, so of two files of one name the last counts, twice.  The bounds   *)
(* on what is listed (500 keys, 1000 conflicts) are not reached here.      *)
(*                                                                         *)
(* refs     the sources as loaded                                          *)
(* asked    the options of the run                                         *)
(* xref     the answer of /xref                                            *)
(* xrefAI   that of /xref/run-llm, for the sources and options it used     *)
(***************************************************************************)
EXTENDS Naturals, FiniteSets, FiniteSetsExt, Sequences, Selection

CONSTANTS
    RefSources,  \* lists of sources
    RefOptions,  \* what a user may ask for
    RefParams,   \* what the language model may make of saved rules
    KeyForm,     \* a text without case, blanks and dashes
    TextForm,    \* a text without case
    LabelForm,   \* a label without case
    LabelLike,   \* LabelLike[l]: labels that contain l or are part of it
    Synonyms,    \* what identifiers are usually called, best first
    Amounts,     \* labels of numeric columns
    Unasked,     \* an option that is not given
    NoXref, Failed

\* Every row has a text under every label.
IsSource(s) ==
    /\ DOMAIN s = {"name", "labels", "rows"}
    /\ s.labels \in Seq(DOMAIN LabelForm)
    /\ s.rows \in Seq(Range(s.rows))
    /\ \A r \in Range(s.rows), l \in Range(s.labels) : r[l] \in DOMAIN TextForm

\* No text is no text in any form, keys are made of texts, and sources are lists of rows.
WellFormed ==
    /\ \A f \in {TextForm, KeyForm} : f[""] = ""
    /\ DOMAIN KeyForm = DOMAIN TextForm
    /\ Synonyms \in Seq(DOMAIN LabelForm)
    /\ Failed \notin DOMAIN TextForm
    /\ \A ss \in RefSources : ss \in Seq(Range(ss)) /\ \A s \in Range(ss) : IsSource(s)

ASSUME CrossReferenceAssumption == WellFormed

VARIABLES refs, asked, xref, xrefAI

xrefVars == <<refs, asked, xref, xrefAI>>

------------------------------------------------------------------------------
(* Sources by name. *)

NamesIn(ss) == {s.name : s \in Range(ss)}
ByName(ss, n) == ss[Max({i \in DOMAIN ss : ss[i].name = n})]

\* The first and the last of a list that are in a set; empty if none is.
FirstIn(list, S) == LET at == {i \in DOMAIN list : list[i] \in S} IN IF at = {} THEN {} ELSE {list[Min(at)]}
LastIn(list, S)  == LET at == {i \in DOMAIN list : list[i] \in S} IN IF at = {} THEN {} ELSE {list[Max(at)]}
Alike(l) == {m \in DOMAIN LabelForm : LabelForm[m] = LabelForm[l]}

\* The column of texts with the most distinct texts, if more than half of them are.
MostDistinct(s) ==
    LET n(l) == Cardinality({r[l] : r \in Range(s.rows)} \ {""})
        best == {l \in Range(s.labels) \ Amounts :
                    /\ 2 * n(l) > Len(s.rows)
                    /\ \A m \in Range(s.labels) \ Amounts : n(m) <= n(l)}
    IN  FirstIn(s.labels, best)

\* The column to match on: what was asked for, or what is like it; else an identifier by
\* its name; else by its texts.  Empty if there is none.
FindKeyColumn(s, key) ==
    LET byName == IF key = Unasked THEN <<>>
                  ELSE <<FirstIn(s.labels, {key}), LastIn(s.labels, Alike(key)),
                         FirstIn(s.labels, LabelLike[key])>>
        usual  == [i \in DOMAIN Synonyms |-> LastIn(s.labels, Alike(Synonyms[i]))]
        found  == byName \o usual \o <<MostDistinct(s)>>
        hits   == {i \in DOMAIN found : found[i] # {}}
    IN  IF hits = {} THEN {} ELSE found[Min(hits)]

\* Mutant: keys are compared as they are written.
M_Keyed(s, k) ==
    [x \in {r[k] : r \in Range(s.rows)} |->
        s.rows[Min({i \in DOMAIN s.rows : s.rows[i][k] = x})]]

\* The first row of every key.
Keyed(s, k) ==
    [x \in {KeyForm[r[k]] : r \in Range(s.rows)} |->
        s.rows[Min({i \in DOMAIN s.rows : KeyForm[s.rows[i][k]] = x})]]

------------------------------------------------------------------------------
(* The engine. *)

\* The columns of a source that are called f without case, the key apart.
Columned(s, k, f) == {j \in DOMAIN s.labels : LabelForm[s.labels[j]] = f /\ s.labels[j] # k}

\* The text under the last of these labels, or Failed where the source has none.
ValueOf(ss, keyOf, row, n, f) ==
    LET having == {i \in DOMAIN ss : ss[i].name = n /\ Columned(ss[i], keyOf[n], f) # {}}
        last   == Max(having)
        label  == ss[last].labels[Max(Columned(ss[last], keyOf[n], f))]
    IN  IF having = {} \/ label \notin Range(ByName(ss, n).labels) THEN Failed ELSE row[label]

\* Columns that are there twice, under what they are called without case.
CommonFields(ss, keyOf, fields) ==
    LET named(f) == UNION {{i} \X Columned(ss[i], keyOf[ss[i].name], f) : i \in DOMAIN ss}
    IN  {f \in Range(LabelForm) : Cardinality(named(f)) >= 2 /\ (fields = Unasked \/ f \in fields)}

Held(v) == {n \in DOMAIN v : v[n] \notin {Failed, ""}}

\* The value of the golden source, if it has one; else of most sources, the first of them.
GoldenValue(ss, v, golden) ==
    LET votes(n) == Cardinality({m \in Held(v) : v[m] = v[n]})
        at(n)    == CHOOSE i \in DOMAIN ss : ss[i].name = n /\ \A j \in 1..(i - 1) : ss[j].name # n
        first    == CHOOSE n \in Held(v) : \A m \in Held(v) \ {n} :
                        votes(m) < votes(n) \/ (votes(m) = votes(n) /\ at(n) < at(m))
    IN  IF golden \in Held(v) THEN v[golden] ELSE v[first]

\* A field in which the sources that have a value differ.
ConflictAt(ss, keyOf, rows, key, f, golden) ==
    LET v    == [n \in DOMAIN rows |-> ValueOf(ss, keyOf, rows[n][key], n, f)]
        gold == GoldenValue(ss, v, golden)
    IN  IF Cardinality({TextForm[v[n]] : n \in Held(v)}) <= 1 THEN {}
        ELSE {[key |-> key, field |-> f, values |-> v, golden |-> gold,
               agree  |-> {n \in Held(v) : TextForm[v[n]] = TextForm[gold]},
               differ |-> {n \in Held(v) : TextForm[v[n]] # TextForm[gold]}]}

\* What the engine looks up: the key column of a source, the row of a key, the keys that
\* every source has, and the conflicts of these in the fields to compare.
KeyOf(ss, o) == [n \in NamesIn(ss) |-> CHOOSE k \in FindKeyColumn(ByName(ss, n), o.key) : TRUE]
RowsOf(ss, o) == [n \in NamesIn(ss) |-> Keyed(ByName(ss, n), KeyOf(ss, o)[n])]
KeysIn(ss, o) == UNION {DOMAIN RowsOf(ss, o)[n] : n \in NamesIn(ss)}
Everywhere(ss, o) == {x \in KeysIn(ss, o) : \A n \in NamesIn(ss) : x \in DOMAIN RowsOf(ss, o)[n]}
Conflicting(ss, o) ==
    UNION {ConflictAt(ss, KeyOf(ss, o), RowsOf(ss, o), x, f, o.golden) :
              x \in Everywhere(ss, o), f \in CommonFields(ss, KeyOf(ss, o), o.fields)}

\* No answer without two sources and a key in each; and none if there is a conflict in a
\* field that some source has no column for (its value is None, which has no upper()).
AnalyzeCrossReference(ss, o) ==
    LET names == NamesIn(ss)
        rows  == RowsOf(ss, o)
        found == Conflicting(ss, o)
        only(n) == {x \in DOMAIN rows[n] : \A m \in names \ {n} : x \notin DOMAIN rows[m]}
    IN  IF Len(ss) < 2 \/ \E s \in Range(ss) : FindKeyColumn(s, o.key) = {} THEN Failed
        ELSE IF \E c \in found : \E n \in names : c.values[n] = Failed THEN Failed
        ELSE [total     |-> KeysIn(ss, o) \ {""},
              matched   |-> Everywhere(ss, o),
              onlyIn    |-> [n \in names |-> IF o.conflictsOnly
                                             THEN only(n) \cap {c.key : c \in found} ELSE only(n)],
              conflicts |-> found,
              tolerated |-> {}]

------------------------------------------------------------------------------
(* The runs. *)

CrossReferenceInit ==
    /\ refs \in RefSources
    /\ asked \in RefOptions
    /\ xref = NoXref
    /\ xrefAI = NoXref

\* /xref.  Sources without rows are skipped.
XrefAnalyze ==
    /\ xref = NoXref
    /\ refs' = ElementsAt(refs, {i \in DOMAIN refs : refs[i].rows # <<>>})
    /\ xref' = AnalyzeCrossReference(refs', asked)
    /\ UNCHANGED <<asked, xrefAI>>

\* Conflicts in which all values are close enough by some rule for the field.
Tolerate(x, rules) ==
    LET close(c) == \E r \in rules : r.field \in {c.field, Unasked} /\ {c.values[n] : n \in Held(c.values)} \in r.close
    IN  IF x = Failed THEN x
        ELSE [x EXCEPT !.conflicts = {c \in @ : ~close(c)}, !.tolerated = {c \in x.conflicts : close(c)}]

\* /xref/run-llm: excluded columns go, and a golden source there is not is not asked for.
XrefRunLLM ==
    /\ xref \notin {NoXref, Failed}
    /\ xrefAI = NoXref
    /\ \E p \in RefParams :
          LET left(s) == [s EXCEPT !.labels = ElementsAt(@, {j \in DOMAIN @ : @[j] \notin p.exclude})]
              ss      == [i \in DOMAIN refs |-> left(refs[i])]
              o       == [key |-> p.key, fields |-> p.fields, conflictsOnly |-> FALSE,
                          golden |-> IF p.golden \in NamesIn(refs) THEN p.golden ELSE Unasked]
          IN  xrefAI' = [sources |-> ss, options |-> o,
                         answer |-> Tolerate(AnalyzeCrossReference(ss, o), p.tolerances)]
    /\ UNCHANGED <<refs, asked, xref>>

XrefDone == (xref = Failed \/ xrefAI # NoXref) /\ UNCHANGED xrefVars

CrossReferenceNext == XrefAnalyze \/ XrefRunLLM \/ XrefDone

CrossReferenceSpec == CrossReferenceInit /\ [][CrossReferenceNext]_xrefVars

------------------------------------------------------------------------------
(* Properties. *)

Answers ==
    (IF xref \in {NoXref, Failed} THEN {} ELSE {[sources |-> refs, options |-> asked, answer |-> xref]})
    \cup (IF xrefAI = NoXref THEN {} ELSE {a \in {xrefAI} : a.answer # Failed})

CrossReferenceTypeOK ==
    \A a \in Answers :
        /\ a.answer.matched \cup a.answer.total \subseteq Range(KeyForm)
        /\ DOMAIN a.answer.onlyIn = NamesIn(a.sources)
        /\ \A c \in a.answer.conflicts \cup a.answer.tolerated :
              c.key \in a.answer.matched /\ DOMAIN c.values = NamesIn(a.sources)

KeyColumn(s, o) == CHOOSE k \in FindKeyColumn(s, o.key) : TRUE

\* Sources of different names, no columns of which differ in case only, the key apart.
Distinguished(ss, o) ==
    /\ Cardinality(NamesIn(ss)) = Len(ss)
    /\ \A s \in Range(ss) : \A l, m \in Range(s.labels) \ {KeyColumn(s, o)} :
          LabelForm[l] = LabelForm[m] => l = m

Once(s, o, x) == Cardinality({i \in DOMAIN s.rows : KeyForm[s.rows[i][KeyColumn(s, o)]] = x}) = 1

\* Two sources give field f of key x different texts, case apart.
Differs(ss, o, x, f) ==
    \E s, t \in Range(ss) : \E r \in Range(s.rows), q \in Range(t.rows) :
    \E l \in Range(s.labels) \ {KeyColumn(s, o)}, m \in Range(t.labels) \ {KeyColumn(t, o)} :
        /\ s # t /\ KeyForm[r[KeyColumn(s, o)]] = x /\ KeyForm[q[KeyColumn(t, o)]] = x
        /\ LabelForm[l] = f /\ LabelForm[m] = f
        /\ "" \notin {r[l], q[m]} /\ TextForm[r[l]] # TextForm[q[m]]

\* Every disagreement is a conflict and every conflict a disagreement: whenever sources
\* with names and columns of their own answer at all, for a key that every source has, in
\* one row each, a field is reported (as a conflict, or within tolerance) exactly if two
\* sources give it different texts, case apart; and every source that has a value sides
\* for or against the golden value, which is the golden source's wherever that has one
\* (analyze_cross_reference).
DisagreementsAreConflicts ==
    \A a \in Answers :
        LET reported == a.answer.conflicts \cup a.answer.tolerated
            asks(f)  == a.options.fields = Unasked \/ f \in a.options.fields
        IN  /\ Distinguished(a.sources, a.options) =>
                  \A x \in a.answer.total, f \in Range(LabelForm) :
                      (\A s \in Range(a.sources) : Once(s, a.options, x)) /\ asks(f) =>
                          (Differs(a.sources, a.options, x, f)
                              <=> \E c \in reported : c.key = x /\ c.field = f)
            /\ \A c \in reported :
                  /\ Held(c.values) = c.agree \cup c.differ
                  /\ c.agree \cap c.differ = {} /\ {} \notin {c.agree, c.differ}
                  /\ a.options.golden \in Held(c.values) => a.options.golden \in c.agree
=============================================================================
