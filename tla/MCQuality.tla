----------------------------- MODULE MCQuality -----------------------------
(***************************************************************************)
(* Small files, settings and packs for Quality: an amount, a currency, two *)
(* dates, with nulls, blanks and texts that mean null.                     *)
(***************************************************************************)
EXTENDS Quality, TLC

MCColumns  == 1..5
MCRole     == <<"notional", "domain", "trade", "settle", "plain">>
MCContents == {"null", " ", "1", "-1", "USD", "n/a", "d1", "d2"}

MCCellKinds ==
    {"not_null", "regex_format", "allowed_values", "observed_values", "range", "positive",
     "not_future_date", "freshness_days", "decimal_places", "ccy_format", "address_complete"}
MCBrokenBy == [k \in MCCellKinds \cup {"domain_accuracy"} |->
    CASE k = "not_null"       -> {"null", " "}
      [] k \in {"regex_format", "address_complete"} -> {"null", "n/a"}
      [] k \in {"allowed_values", "domain_accuracy"} -> {" ", "n/a", "-1"}
      [] k \in {"range", "positive"} -> {"-1"}
      [] k = "not_future_date" -> {"d2"}
      [] k = "freshness_days" -> {"d1"}
      [] k = "ccy_format"     -> {"null", " ", "1", "-1"}
      [] OTHER                -> {}]

MCTooSoon == {<<"d1", "d1">>, <<"d2", "d1">>}
MCFormats == [c \in MCColumns |-> IF c = 2 THEN "ccy_format" ELSE None]
MCFresh   == <<100, 100, 50, 0, 100>>
MCPrecise == <<50, 100, 100, 100, 50>>

\* Some texts mean null, and a text is no number.
MCChecks == {"null texts", "mixed"}
MCVerdict(check, s) ==
    LET odd == {i \in DOMAIN s : s[i] \in IF check = "mixed" THEN {"1", "-1"} ELSE {" ", "n/a"}}
    IN  IF odd = {} \/ (check = "mixed" /\ odd = DOMAIN s) THEN "none"
        ELSE IF check = "mixed" THEN "FAIL" ELSE "WARN"

MCWide == {<<a, b, <<"d1", "d2">>, d>> :
              a \in {<<"1", "-1">>, <<"-1", "null">>},
              b \in {<<"USD", " ">>, <<"n/a", "n/a">>, <<"USD", "null">>},
              d \in {<<"d1", "d1">>, <<"d1", "null">>}}
MCTables ==
    MCWide
    \cup {[c \in {1, 2} |-> t[c]] : t \in MCWide} \cup {[c \in {2, 4} |-> t[c]] : t \in MCWide}
    \cup {4 :> <<"d1", "null">> @@ 5 :> s : s \in {<<"1", "null">>, <<"1", "1">>}}
    \cup {4 :> <<"d1", "null", "d2">> @@ 5 :> <<"1", "1", "-1">>}
    \cup {<< <<>>, <<>> >>, << <<"1", "1", "-1">>, <<"USD", "1", "USD">> >>,
          << <<"-1", "-1">>, <<"USD", "USD">> >>}

MCEntry(c, k, n) == [Entry([col |-> c, kind |-> k]) EXCEPT !.at = n]
MCConfigs ==
    {{},
     {[MCEntry(1, "auto", 1) EXCEPT !.exclude = TRUE], [MCEntry(2, "unique", 2) EXCEPT !.unique = TRUE]},
     {[MCEntry(2, "not_null", 1) EXCEPT !.mandatory = "yes", !.accuracy = TRUE]},
     {[MCEntry(3, "auto", 1) EXCEPT !.exclude = TRUE, !.mandatory = "no"],
      [MCEntry(1, "range", 2) EXCEPT !.mandatory = "no", !.allowDups = TRUE,
          !.checks = {[kind |-> "decimal_places", value |-> 2],
                      [kind |-> "completeness_pct", value |-> 60]}]}}
\* Saved settings, and an entry that compares the values of a column another one excludes.
MCSaved ==
    {{}, {[MCEntry(2, "not_null", 1) EXCEPT !.accuracy = TRUE]},
     {[MCEntry(2, "auto", 1) EXCEPT !.exclude = TRUE],
      [MCEntry(2, "auto", 2) EXCEPT !.accuracy = TRUE],
      [MCEntry(1, "positive", 3) EXCEPT !.mandatory = "yes"]}}
MCPack == [validators |-> {[kind |-> "positive", col |-> 1], [kind |-> "regex_format", col |-> 2]},
           nullable |-> {1}, ages |-> {[kind |-> "freshness_days", col |-> 4, at |-> 1]}]
MCPair(check, c, d, v) == [check |-> check, col |-> c, other |-> d, value |-> v, kind |-> "positive"]
MCPairs ==
    <<MCPair("filled when", 1, 2, "1"), MCPair("cross-column", 2, 1, "USD"),
      MCPair("referential", 4, 3, "1"), MCPair("cross-file", 4, 3, {"d1"}),
      MCPair("cross-file", 2, 3, None),
      MCPair("cross-column", 4, 3, "d1")>>
MCGiven(k, c, sev, val, n) == Rule(k, c, sev, val, <<n, "given">>)
MCRules == {MCGiven("row_count_min", None, "minor", 2, 1), MCGiven("uniqueness_pct", 2, "critical", 60, 2),
            MCGiven("unheard of", 1, "major", None, 3),
            MCGiven("conditional", 2, "major", "1", 4) @@ [other |-> 1],
            MCGiven("settlement_date_t2", 4, "critical", None, 5) @@ [other |-> 3],
            MCGiven("referential_integrity", 4, "minor", None, 6) @@ [other |-> 3]}
MCDict == [c \in {1, 2} |-> [nullable |-> c = 1, pk |-> c = 2, values |-> c = 1]]
MCHints(config, ps) == [NoHints EXCEPT !.config = config, !.pairs = ps]
MCRequests ==
    {[hints |-> MCHints(config, ps), pack |-> pack, rules |-> rules, dict |-> dict] :
        config \in MCConfigs, ps \in {<<>>, MCPairs}, pack \in {NoPack, MCPack},
        rules \in {{}, MCRules}, dict \in {<<>>, MCDict}}
============================================================================
