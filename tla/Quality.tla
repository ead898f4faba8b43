------------------------------ MODULE Quality ------------------------------
(***************************************************************************)
(* A data quality run: analyze_quality of main.py with _apply_rule and     *)
(* _apply_cross_col_rules, the rules injected from column names            *)
(* (_augment_quality_hints_deterministic), and the two runs that use it:   *)
(* the Standard one of /analyze and the AI one of /rerun-quality-json.     *)
(*                                                                         *)
(* A table has columns of equal length; a rule has a kind, a column (or    *)
(* None for the whole file), a severity and the place that calls for it,   *)
(* so that two equal rules are two.  What a kind of rule makes of a cell   *)
(* is a constant, and so is what the checks of texts (null texts, formats  *)
(* of dates, texts among numbers, spaces, odd characters) say of a column. *)
(* A hint is what a user, a pack or a name adds.  The order of rules and   *)
(* results is layout and left out.  The profile and the governance part    *)
(* that analyze_quality_full adds, and what it takes off the score when a  *)
(* second file is there, are not modelled: score is the base score.        *)
(*                                                                         *)
(* table     the file                                                      *)
(* request   what the Standard run is asked for                            *)
(* saved     the column settings saved for files with these columns        *)
(* regexes   columns with a pattern saved in the Rule Builder              *)
(* standard, ai   the reports, once they are there                         *)
(***************************************************************************)
EXTENDS DqScore, FiniteSets, Functions, Sequences, Selection

CONSTANTS
    Columns,      \* positions in the file
    Role,         \* what the name of a column says: "domain", "trade", "settle",
                  \* "notional", "address" or "plain"
    Objects,      \* columns of dtype object, and of a numeric dtype
    Numerics,
    Contents, Empty, Blank, Dates, TooSoon,
    TextChecks,         \* what is checked of a column of texts, and what each check says:
    TextVerdict(_, _),  \* "none", "WARN" or "FAIL"
    MaxIds, MaxOthers, ConflictRows,  \* identifiers, other columns and rows searched for
                                      \* conflicts (5, 10 and 50000)
    CellKinds,    \* rules every cell is tested by, and those only cells with a
    PresentKinds, \* value are; BrokenBy[k]: the cells that break a rule of kind k
    BrokenBy,
    Formats,      \* per column, the format its values are recognised as, or None
    Fresh, Precise,          \* how recent and how precise a column is, in percent
    Uneven,                  \* columns of numbers with more decimals here than there
    Tables, Requests,
    Saved,                   \* settings that may be saved, {} for none
    Patterns,                \* sets of columns that patterns may be saved for
    IdLike, High, EnumLike,  \* percentages of distinct values (95, 50, 5)
    NotRun

Severities == {"critical", "major", "minor"}
PairChecks == {"cross-column", "referential", "cross-file", "filled when"}

IsTable(t) ==
    /\ DOMAIN t \subseteq Columns
    /\ t \in [DOMAIN t -> Seq(Contents)]
    /\ \A c, d \in DOMAIN t : Len(t[c]) = Len(t[d])

\* What is asked of a run, and what a pack adds, if it is nothing.
NoHints ==
    [config |-> {}, validators |-> {}, nullable |-> {}, ages |-> {}, bounds |-> {},
     pairs |-> <<>>]
NoPack == [validators |-> {}, nullable |-> {}, ages |-> {}]

IsConfig(config) ==
    /\ IsFiniteSet(config)
    /\ \A e \in config : e.severity \in Severities /\ IsFiniteSet(e.checks)

IsHints(h) ==
    /\ DOMAIN h = DOMAIN NoHints
    /\ IsConfig(h.config)
    /\ IsFiniteSet(h.validators) /\ IsFiniteSet(h.ages) /\ IsFiniteSet(h.bounds)
    /\ IsFiniteSet(DOMAIN h.pairs) /\ \A n \in DOMAIN h.pairs : h.pairs[n].check \in PairChecks

IsRequest(q) ==
    /\ IsHints(q.hints)
    /\ IsFiniteSet(q.pack.validators) /\ IsFiniteSet(q.pack.ages)
    /\ IsFiniteSet(q.rules) /\ \A r \in q.rules : r.severity \in Severities

ASSUME QualityAssumption ==
    /\ {Empty, Blank} \subseteq Contents /\ Empty # Blank
    /\ IsFiniteSet(TextChecks) /\ {MaxIds, MaxOthers, ConflictRows} \subseteq Nat
    /\ \A k \in PresentKinds : BrokenBy[k] \subseteq Contents \ {Empty}
    /\ EnumLike < High /\ High < IdLike
    /\ IsFiniteSet(Columns) /\ Columns \subseteq Nat
    /\ {Fresh, Precise} \subseteq [Columns -> Percent]
    /\ \A t \in Tables : IsTable(t)
    /\ \A q \in Requests : IsRequest(q)
    /\ \A config \in Saved : IsConfig(config)
    /\ \A cs \in Patterns : cs \subseteq Columns

VARIABLES table, request, saved, regexes, standard, ai

qualityVars == <<table, request, saved, regexes, standard, ai>>

Height(t) == IF DOMAIN t = {} THEN 0 ELSE Len(t[CHOOSE c \in DOMAIN t : TRUE])
RowAt(t, i) == [c \in DOMAIN t |-> t[c][i]]
PercentOf(a, b) == IF b = 0 THEN 0 ELSE (100 * a) \div b
CountIn(s, S) == Cardinality({i \in DOMAIN s : s[i] \in S})
Leading(S, n) == {c \in S : Cardinality({d \in S : d < c}) < n}

------------------------------------------------------------------------------
(* Rules and what they find. *)

WholeKinds == {"completeness_pct", "uniqueness_pct", "row_count_min"}
CrossKinds == {"conditional", "settlement_date_t2", "referential_integrity"}

Found(rule, total, passed, failed) ==
    [rule |-> rule, skipped |-> FALSE, total |-> total, passed |-> passed, failed |-> failed,
     status |-> IF failed = 0 THEN "PASS" ELSE IF failed * 20 < total THEN "WARN" ELSE "FAIL"]
Skipped(rule) ==
    [rule |-> rule, skipped |-> TRUE, total |-> 0, passed |-> 0, failed |-> 0, status |-> "SKIP"]

\* Most rules count the cells that break them; null and blank may be among these.
OfCells(s, rule) ==
    LET failed == CountIn(s, BrokenBy[rule.kind]) IN Found(rule, Len(s), Len(s) - failed, failed)

\* A copy is a failure, and so is what it is a copy of; nulls are copies of each other.
OfCopies(s, rule) ==
    LET failed == Cardinality({i \in DOMAIN s : \E j \in DOMAIN s \ {i} : s[i] = s[j]})
    IN  Found(rule, Len(s), Len(s) - failed, failed)

\* Contents without a value neither pass nor fail, but count.
OfPresent(s, rule) ==
    LET failed == CountIn(s, BrokenBy[rule.kind])
    IN  Found(rule, Len(s), CountIn(s, Contents \ {Empty}) - failed, failed)

\* A property of the whole column: all rows pass, or none.
Holds(s, rule) ==
    CASE rule.kind = "completeness_pct" -> PercentOf(CountIn(s, Contents \ {Empty}), Len(s)) >= rule.value
      [] rule.kind = "uniqueness_pct"   -> PercentOf(Cardinality(Range(s) \ {Empty}), Len(s)) >= rule.value
      [] rule.kind = "row_count_min"    -> Len(s) >= rule.value
OfWhole(s, rule) ==
    IF Holds(s, rule) THEN Found(rule, Len(s), Len(s), 0) ELSE Found(rule, Len(s), 0, Len(s))

Apply(s, rule) ==
    IF rule.kind \in CellKinds         THEN OfCells(s, rule)
    ELSE IF rule.kind = "unique"       THEN OfCopies(s, rule)
    ELSE IF rule.kind \in PresentKinds THEN OfPresent(s, rule)
    ELSE IF rule.kind \in WholeKinds   THEN OfWhole(s, rule)
    ELSE Skipped(rule)

\* Rules that relate two columns.  Of an empty file nothing is answered.
ApplyCross(t, rule) ==
    LET rows   == 1..Height(t)
        at     == CASE rule.kind = "conditional" -> {i \in rows : t[rule.other][i] = rule.value}
                    [] rule.kind = "settlement_date_t2" ->
                         {i \in rows : {t[rule.other][i], t[rule.col][i]} \subseteq Dates}
                    [] rule.kind = "referential_integrity" -> {i \in rows : t[rule.col][i] # Empty}
        failed == CASE rule.kind = "conditional" -> {i \in at : t[rule.col][i] \in {Empty, Blank}}
                    [] rule.kind = "settlement_date_t2" ->
                         {i \in at : <<t[rule.other][i], t[rule.col][i]>> \in TooSoon}
                    [] rule.kind = "referential_integrity" ->
                         {i \in at : t[rule.col][i] \notin Range(t[rule.other])}
        n == Cardinality(failed)
    IN  IF {rule.col, rule.other} \subseteq DOMAIN t
        THEN Found(rule, Cardinality(at), Cardinality(at) - n, n) ELSE Skipped(rule)

\* A rule on a column that is not there is skipped; a rule on the whole file is
\* applied to a column of one cell.
Result(t, rule) ==
    IF rule.kind \in CrossKinds     THEN ApplyCross(t, rule)
    ELSE IF rule.col = None         THEN Apply(<<Height(t)>>, rule)
    ELSE IF rule.col \in DOMAIN t   THEN Apply(t[rule.col], rule)
    ELSE Skipped(rule)

Results(t, rules) == {Result(t, r) : r \in {x \in rules : x.kind \notin CrossKinds \/ Height(t) > 0}}

\* What counts of them.
Ran(results) == {r \in results : ~r.skipped}

------------------------------------------------------------------------------
(* The rules of a run. *)

Rule(k, c, sev, val, from) ==
    [kind |-> k, col |-> c, severity |-> sev, value |-> val, from |-> from]

\* An entry of the table of column settings (at is its row), as a validator adds one.
Entry(v) ==
    [col |-> v.col, kind |-> v.kind, mandatory |-> "unset", unique |-> FALSE,
     allowDups |-> FALSE, exclude |-> FALSE, checks |-> {}, accuracy |-> FALSE,
     severity |-> "major", at |-> 0]

\* Validators of columns that exist join the settings, unless they are there already.
WithValidators(t, hints) ==
    hints.config
    \cup {Entry(v) : v \in {w \in hints.validators :
               w.col \in DOMAIN t /\ ~\E e \in hints.config : e.col = w.col /\ e.kind = w.kind}}

Excluded(config) == {e.col : e \in {f \in config : f.exclude}}
Nullable(config, hints) ==
    hints.nullable \cup {e.col : e \in {f \in config : f.mandatory = "no"}}

\* The rules of one entry.  A kind that has a field of its own is not added again.
OfEntry(t, nullable, e) ==
    LET when(b, k, part) == IF b THEN {Rule(k, e.col, e.severity, None, <<e.at, part>>)} ELSE {}
    IN  IF e.exclude \/ e.col \notin DOMAIN t THEN {}
        ELSE when(e.mandatory = "yes" /\ e.col \notin nullable, "not_null", "mandatory")
             \cup when(e.unique, "unique", "unique")
             \cup {Rule(x.kind, e.col, e.severity, x.value, <<e.at, "check">>) : x \in e.checks}
             \cup when(e.accuracy /\ CountIn(t[e.col], Contents \ {Empty}) > 0,
                       "allowed_values", "accuracy")
             \cup when(e.kind \notin {"auto", "range", "freshness_days", "completeness_pct",
                                      "decimal_places"}, e.kind, "kind")

\* Ranges, ages and decimals given as text, for columns that are left.
OfHints(t, hints) ==
    {Rule(b.kind, b.col, "major", None, <<b.at, "hint">>) :
        b \in {x \in hints.bounds : x.col \in DOMAIN t}}

------------------------------------------------------------------------------
(* What is measured of a column, and the rules that follow from it. *)

\* Blank texts, as far as there are more of them than nulls; and all that counts as null.
BlankTexts(c, s) ==
    LET more == CountIn(s, {Blank}) - CountIn(s, {Empty})
    IN  IF c \in Objects /\ more > 0 THEN more ELSE 0
Empties(c, s) == CountIn(s, {Empty}) + BlankTexts(c, s)
Distinct(s) == Cardinality(Range(s) \ {Empty})

Cardinal(s) ==
    LET ratio == PercentOf(Distinct(s), Len(s))
    IN  IF s = <<>> THEN None
        ELSE IF ratio > IdLike THEN "identifier" ELSE IF ratio > High THEN "high"
        ELSE IF ratio > EnumLike THEN "medium" ELSE "low"

\* The format most cells of an object column have.
Format(c) == IF c \in Objects THEN Formats[c] ELSE None

\* Baseline rules of a column without rules of its own.
OfBaseline(c, s, nullable, allowDups) ==
    LET empty   == PercentOf(Empties(c, s), Len(s))
        card    == Cardinal(s)
        notNull == c \notin nullable /\ 0 < empty /\ empty <= 50
        unique  == card = "identifier" /\ c \notin allowDups
        values  == ~unique /\ c \in Objects /\ card = "low" /\ Distinct(s) \in 2..20
        format  == ~unique /\ ~values /\ ~notNull /\ Format(c) # None
        range   == ~(notNull \/ unique \/ values \/ format) /\ c \in Numerics /\ Distinct(s) > 1
        when(b, k, sev) == IF b THEN {Rule(k, c, sev, None, <<0, "auto">>)} ELSE {}
    IN  when(notNull, "not_null", IF card = "identifier" THEN "critical" ELSE "major")
        \cup when(unique, "unique", "critical")
        \cup when(values, "observed_values", "major")
        \cup when(format, Format(c), "major")
        \cup when(range, "range", "minor")

\* A column with any rule of its own gets none.
Baseline(t, rules, nullable, config) ==
    LET allowed == {e.col : e \in {f \in config : f.allowDups /\ ~f.unique}}
        free    == {c \in DOMAIN t : \A r \in rules : r.col # c}
    IN  rules \cup UNION {OfBaseline(c, t[c], nullable, allowed) : c \in free}

------------------------------------------------------------------------------
(* Consistency. *)

Issue(check, cols, bad, fails) ==
    IF bad THEN {[check |-> check, cols |-> cols, status |-> IF fails THEN "FAIL" ELSE "WARN"]}
    ELSE {}

\* What the checks of texts say of columns of texts that have values.
OfText(t) ==
    LET texts == {c \in DOMAIN t \cap Objects : Range(t[c]) # {Empty} /\ t[c] # <<>>}
    IN  {[check |-> x[1], cols |-> {x[2]}, status |-> TextVerdict(x[1], t[x[2]])] :
            x \in {y \in TextChecks \X texts : TextVerdict(y[1], t[y[2]]) # "none"}}

\* What the data dictionary says of nulls and of the primary key.
OfDictionary(t, dict, nullable) ==
    LET pk == {c \in DOMAIN dict \cap DOMAIN t : dict[c].pk}
        null(c) == Empty \in Range(t[c])
        KeyAt(i) == [c \in pk |-> t[c][i]]
    IN  (UNION {Issue("not null", {c}, null(c), TRUE) :
                   c \in {d \in DOMAIN dict \cap DOMAIN t : ~dict[d].nullable} \ nullable})
        \cup Issue("key not null", pk, \E c \in pk : null(c), TRUE)
        \cup Issue("key unique", pk,
                pk # {} /\ \E i, j \in 1..Height(t) : i # j /\ KeyAt(i) = KeyAt(j), TRUE)

\* Relations the user gives as text; p is one of them, n its number.
Related(p, n, status) == {[check |-> p.check, cols |-> <<p.col, p.other, n>>, status |-> status]}
At(t, p) == {i \in 1..Height(t) : t[p.col][i] = p.value}

\* Where one column has a value, the number in another is in bounds.
CrossColumn(t, p, n) ==
    LET at     == At(t, p)
        broken == {i \in at : t[p.other][i] \in BrokenBy[p.kind]}
    IN  IF ~({p.col, p.other} \subseteq DOMAIN t) \/ broken = {} THEN {}
        ELSE Related(p, n, IF 20 * Cardinality(broken) >= Cardinality(at) THEN "FAIL" ELSE "WARN")

\* The values of one column, null included, occur in another.
Referential(t, p, n) ==
    IF ~({p.col, p.other} \subseteq DOMAIN t) THEN {}
    ELSE LET broken == Cardinality({i \in 1..Height(t) :
                           t[p.col][i] \notin Range(t[p.other]) \ {Empty}})
         IN  IF broken = 0 THEN {}
             ELSE Related(p, n, IF 20 * broken >= Height(t) THEN "FAIL" ELSE "WARN")

\* The values of a column occur in another file.  Reported in any case.
CrossFile(t, p, n) ==
    IF p.col \notin DOMAIN t THEN {}
    ELSE Related(p, n, IF p.value = None THEN "WARN"
                    ELSE IF Range(t[p.col]) \ {Empty} \subseteq p.value THEN "PASS" ELSE "FAIL")

\* Where one column has a value, another is filled.  Reported if there are such rows.
FilledWhen(t, p, n) ==
    IF ~({p.col, p.other} \subseteq DOMAIN t) \/ At(t, p) = {} THEN {}
    ELSE Related(p, n, IF \E i \in At(t, p) : t[p.other][i] \in {Empty, Blank} THEN "FAIL" ELSE "PASS")

OfPair(t, p, n) ==
    CASE p.check = "cross-column" -> CrossColumn(t, p, n)
      [] p.check = "referential"  -> Referential(t, p, n)
      [] p.check = "cross-file"   -> CrossFile(t, p, n)
      [] p.check = "filled when"  -> FilledWhen(t, p, n)

\* Rows of one identifier that differ elsewhere, among the first rows and columns.
OfConflicts(t) ==
    LET ids     == {c \in DOMAIN t : Cardinal(t[c]) = "identifier"}
        rows    == {i \in 1..Height(t) : i <= ConflictRows}
        keys(k) == {t[k][i] : i \in rows} \ {Empty}
        of(k, v, x) == {t[v][i] : i \in {j \in rows : t[k][j] = x}} \ {Empty}
        torn(p) == Cardinality({x \in keys(p[1]) : Cardinality(of(p[1], p[2], x)) > 1})
    IN  UNION {Issue("conflict", p, torn(p) > 0, 20 * torn(p) >= Cardinality(keys(p[1]))) :
                  p \in Leading(ids, MaxIds) \X Leading(DOMAIN t \ ids, MaxOthers)}

Issues(t, dict, nullable, hints) ==
    OfText(t) \cup OfDictionary(t, dict, nullable) \cup OfConflicts(t)
    \cup UNION {OfPair(t, hints.pairs[n], n) : n \in DOMAIN hints.pairs}

------------------------------------------------------------------------------
(* The report. *)

SeverityWeight(r) == CASE r.rule.severity = "critical" -> 3
                       [] r.rule.severity = "major" -> 2
                       [] r.rule.severity = "minor" -> 1

\* The share of rows that passed, weighted by severity.
Passed(results) ==
    LET total  == Total([r \in results |-> r.total * SeverityWeight(r)], results)
        passed == Total([r \in results |-> r.passed * SeverityWeight(r)], results)
    IN  IF total = 0 THEN 100 ELSE PercentOf(passed, total)

Mean(f, S) == Total(f, S) \div Cardinality(S)
IfAny(f, S) == IF S = {} THEN None ELSE Mean(f, S)

Reasonable == {"positive", "range", "not_future_date", "row_count_min"}

\* Columns whose values are compared with known ones: by an entry of the settings, in the
\* whole file, and by the dictionary, in what is left of it.
Present(t, c) == CountIn(t[c], Contents \ {Empty}) > 0
ByEntry(t, config) ==
    {c \in DOMAIN t : Present(t, c) /\ \E e \in config : e.col = c /\ ~e.exclude /\ e.accuracy}
ByDictionary(t, dict) == {c \in DOMAIN t \cap DOMAIN dict : Present(t, c) /\ dict[c].values}

\* How many of the values of a column are known ones.
Right(s) == PercentOf(CountIn(s, Contents \ (BrokenBy["allowed_values"] \cup {Empty})),
                      CountIn(s, Contents \ {Empty}))
Accuracy(t, left, config, dict) ==
    LET known == ByEntry(t, config) \cup ByDictionary(left, dict)
    IN  IfAny([c \in known |-> Right(t[c])], known)

Asked(config, hints, kind) ==
    {e.col : e \in {f \in config : ~f.exclude /\ \E x \in f.checks : x.kind = kind}}
    \cup {b.col : b \in {x \in hints.bounds : x.kind = kind}}

\* What the settings and the hints say of the measures.
Wanted(config, hints) ==
    [nullable |-> Nullable(config, hints),
     decimals |-> Asked(config, hints, "decimal_places"),
     ages     |-> Asked(config, hints, "freshness_days")]

\* The dimensions; accuracy is there before.
Measure(t, wanted, ran, issues) ==
    LET cols == DOMAIN t
        n    == Height(t)
        only(kinds) == {r \in ran : r.rule.kind \in kinds}
        copies == Cardinality({i \in 1..n : \E j \in 1..(i - 1) : RowAt(t, i) = RowAt(t, j)})
        failed == {x \in issues : x.status = "FAIL"}
        full  == [c \in cols |-> 100 - PercentOf(Empties(c, t[c]), n)]
        texts == [c \in cols |-> 100 - PercentOf(BlankTexts(c, t[c]), n)]
        scored == cols \ wanted.nullable
    IN  [completeness   |-> IF scored = {} THEN 100 ELSE Mean(full, scored),
         uniqueness     |-> 100 - PercentOf(copies, n),
         validity       |-> Passed(ran),
         consistency    |-> 100 - PercentOf(Cardinality(failed), Cardinality(issues)),
         conformity     |-> IF cols = {} THEN 100 ELSE Mean(texts, cols),
         precision      |-> IF cols \cap (Uneven \cup wanted.decimals) = {}
                           THEN None
                           ELSE Mean(Precise, cols),
         timeliness     |-> IfAny(Fresh, cols \cap wanted.ages),
         accuracy       |-> None,
         integrity      |-> IF only(CrossKinds) = {} THEN None ELSE Passed(only(CrossKinds)),
         reasonableness |-> IF only(Reasonable) = {} THEN None ELSE Passed(only(Reasonable))]

\* The score of a column: what passed of its rules, less half its nulls.
SubScore(t, c, ran) ==
    LET own  == {r \in ran : r.rule.col = c}
        null == PercentOf(Empties(c, t[c]), Height(t))
        left == Passed(own) - null \div 2
    IN  IF own = {} THEN 100 - null ELSE IF left < 0 THEN 0 ELSE left

\* Failures to repair, by severity.
Fixes(results) ==
    [sev \in Severities |-> {r \in results : r.status = "FAIL" /\ r.rule.severity = sev}]

\* The file without the columns the settings exclude.
M_Dropped(t, config) == t
Dropped(t, config) == [c \in DOMAIN t \ Excluded(config) |-> t[c]]

\* The rules come from the caller, the settings, the hints, and from the data.
RulesFor(t, given, hints) ==
    LET config   == WithValidators(t, hints)
        nullable == Nullable(config, hints)
        settings == given \cup UNION {OfEntry(t, nullable, e) : e \in config}
        left     == Dropped(t, config)
    IN  Baseline(left, settings \cup OfHints(left, hints), nullable, config)

AnalyzeQuality(t, given, hints, dict) ==
    LET config   == WithValidators(t, hints)
        left     == Dropped(t, config)
        results  == Results(left, RulesFor(t, given, hints))
        issues   == Issues(left, dict, Nullable(config, hints), hints)
        measures == [Measure(left, Wanted(config, hints), Ran(results), issues)
                        EXCEPT !.accuracy = Accuracy(t, left, config, dict)]
    IN  [results |-> results, issues |-> issues, measures |-> measures,
         score |-> Score(measures),
         fixes |-> Fixes(results),
         columns |-> [c \in DOMAIN left |-> SubScore(left, c, Ran(results))]]

------------------------------------------------------------------------------
(* The runs. *)

Named(t, role) == {c \in DOMAIN t : Role[c] = role}

\* Rules that the names of columns and a pack call for.
Augment(t, hints, pack) ==
    LET v0 == IF pack.validators = {} THEN hints.validators ELSE pack.validators
        add(k, S) == {[kind |-> k, col |-> c] : c \in S}
        related == \E n \in DOMAIN hints.pairs :
                      LET p == hints.pairs[n] IN
                      p.check = "cross-column" /\ {Role[p.col], Role[p.other]} = {"trade", "settle"}
    IN  [hints EXCEPT
            !.validators =
                v0 \cup add("domain_accuracy", Named(t, "domain") \ {v.col : v \in v0})
                   \cup add("not_future_date", IF related \/ Named(t, "settle") = {} THEN {}
                                               ELSE Leading(Named(t, "trade"), 1))
                   \cup add("positive", Leading(Named(t, "notional"), 1))
                   \cup add("address_complete", Leading(Named(t, "address"), 3)),
            !.nullable = IF @ = {} THEN pack.nullable ELSE @,
            !.bounds = (IF hints.ages = {} THEN pack.ages ELSE hints.ages) \cup @]

QualityInit ==
    /\ table \in Tables
    /\ request \in Requests
    /\ saved \in Saved
    /\ regexes \in Patterns
    /\ standard = NotRun
    /\ ai = NotRun

\* What the Standard run goes by: without settings in the request, the saved ones.
StandardHints ==
    LET hints == IF request.hints.config = {} THEN [request.hints EXCEPT !.config = saved]
                 ELSE request.hints
    IN  Augment(table, hints, request.pack)

\* /analyze.
Analyze ==
    /\ standard = NotRun
    /\ standard' = AnalyzeQuality(table, request.rules, StandardHints, request.dict)
    /\ UNCHANGED <<table, request, saved, regexes, ai>>

\* Mutant: the floor is for files without patterns.
M_AIHints(t) ==
    [NoHints EXCEPT
        !.config = {Entry([kind |-> "regex_format", col |-> c]) : c \in regexes},
        !.validators = IF regexes = {} THEN Augment(t, NoHints, NoPack).validators ELSE {}]

\* What the AI run has: saved patterns, and the floor.  (It asks the language model for
\* validators too, but with the columns of a file it fails to read, and goes on without.)
AIHints(t) ==
    [NoHints EXCEPT
        !.config = {Entry([kind |-> "regex_format", col |-> c]) : c \in regexes},
        !.validators = Augment(t, NoHints, NoPack).validators]

\* /rerun-quality-json.
RerunQualityJson ==
    /\ standard # NotRun
    /\ ai = NotRun
    /\ ai' = AnalyzeQuality(table, {}, AIHints(table), request.dict)
    /\ UNCHANGED <<table, request, saved, regexes, standard>>

Reported == ai # NotRun /\ UNCHANGED qualityVars

QualityNext == Analyze \/ RerunQualityJson \/ Reported

QualitySpec == QualityInit /\ [][QualityNext]_qualityVars

------------------------------------------------------------------------------
(* Properties. *)

Reports == {standard, ai} \ {NotRun}

QualityTypeOK ==
    /\ IsTable(table)
    /\ regexes \subseteq Columns
    /\ \A r \in Reports :
          /\ r.measures \in Measures
          /\ r.score \in 0..1000
          /\ \A x \in r.results : x.passed + x.failed <= x.total

\* A Standard run that is asked for nothing special.
Plain == request.hints = NoHints /\ request.pack = NoPack /\ request.rules = {}

\* The checks a report flags.
Flagged(r) ==
    {[kind |-> x.rule.kind, col |-> x.rule.col] :
        x \in {y \in r.results : y.status \in {"WARN", "FAIL"}}}

\* The AI run flags all that a Standard run without input flags, on every column without a
\* saved pattern, as long as no settings are saved for such files, which only the Standard
\* run loads (rerun_quality_json, "apply the SAME deterministic floor Standard uses").
AIKeepsTheFloor ==
    standard # NotRun /\ ai # NotRun /\ Plain /\ saved = {} =>
        \A f \in Flagged(standard) : f.col \in regexes \/ f \in Flagged(ai)

\* A column the settings exclude plays no part in what is answered and measured: that is what
\* it would be of a file without the column, whatever rules, hints and dictionary say of it,
\* except for rules reported as skipped.  Accuracy is taken before the column is dropped, and
\* is the same if no other entry compares an excluded column with known values
\* (analyze_quality, "Columns the user wants to exclude from DQ entirely").
ExcludedPlayNoPart ==
    LET hints == StandardHints
        gone  == Excluded(hints.config)
        rest  == AnalyzeQuality([c \in DOMAIN table \ gone |-> table[c]], request.rules,
                                hints, request.dict)
    IN  standard # NotRun =>
            /\ Ran(standard.results) = Ran(rest.results)
            /\ standard.issues = rest.issues
            /\ [standard.measures EXCEPT !.accuracy = None]
                   = [rest.measures EXCEPT !.accuracy = None]
            /\ ByEntry(table, hints.config) \cap gone = {} => standard.measures = rest.measures
            /\ standard.columns = rest.columns

\* A score rewards what gets better and is perfect for perfect data: whichever dimensions
\* are measured, their weights add up, and more in one dimension never scores lower,
\* unless an optional dimension leaves zero (_dq_score).
BetterDataScoresHigher ==
    \A r \in Reports :
        LET m == r.measures IN
        /\ \A d \in DOMAIN m, p \in {0, 50, 100} :
              LET n == [m EXCEPT ![d] = p] IN
              Improved(m, n) /\ ~LeavesZero(m, n) => Score(m) <= Score(n)
        /\ Score([d \in DOMAIN m |-> IF m[d] = None THEN None ELSE 100]) = 1000

------------------------------------------------------------------------------
(* What the documentation says and the code does not do. *)

\* "It can only ADD inferred rules on top, never miss a check Standard would have flagged"
\* (_augment_quality_hints_deterministic).
AISupersetOfStandard ==
    standard # NotRun /\ ai # NotRun /\ Plain => Flagged(standard) \subseteq Flagged(ai)
==============================================================================
