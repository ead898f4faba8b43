------------------------------ MODULE Sessions ------------------------------
(***************************************************************************)
(* Analysis sessions (main.py): what POST /analyze stores, the reruns that *)
(* start from a stored session, and what the chat, the agent, downloads    *)
(* and mails read of it.                                                   *)
(*                                                                         *)
(* The stores are dictionaries of the process: a restart empties them and  *)
(* abandons the requests under way.  Analyses run on worker threads, so    *)
(* between the start of a request and its end other requests run; a        *)
(* handler that awaits nothing after it has read a store is one step.      *)
(*                                                                         *)
(* store     _results_store: what is kept of a session                     *)
(* recon     _chat_contexts: the sessions whose context has mode "recon"   *)
(* busy      the requests under way                                        *)
(* used      the session identifiers handed out                            *)
(* shown     the report on the page of a session                           *)
(* memory    whether Dataset Memory holds rules for reconciling the files   *)
(* history   rows of dq_history, recon_history and run_metrics             *)
(* lost      (history) sessions whose run failed or that a restart dropped *)
(***************************************************************************)
EXTENDS FiniteSets, Naturals, Sequences

CONSTANTS Sids,      \* session identifiers
          Files,     \* uploaded tables
          Inputs,    \* the lists of tables a run may be given
          MaxBusy,   \* bound on overlapping requests, for model checking
          Nothing

VARIABLES store, recon, busy, used, shown, memory, history, lost

processVars == <<store, recon, busy, shown>>
sessionVars == <<processVars, used, memory, history, lost>>

\* What a report was made by: nothing but the data, the deterministic floor of
\* rules, the form, or, in a reconciliation, the parameters the language model took
\* from saved rules (a key, a fuzzy match) or inferred from the data itself.
Bases   == {"data", "floor", "form", "keyed", "fuzzy", "inferred"}
PerFile == {"quality", "profile", "governance", "parse"}
Copilot == {"lineage", "quality_ai", "profile_ai", "governance_ai"}
Actions == PerFile \cup Copilot \cup {"compare"}
Engines == PerFile \cup {"exact", "fuzzy", "nway", "text"}
Reruns  == {"quality-json", "overrides", "quality-page", "profile-json", "profile-page",
            "governance-json", "governance-page", "recon", "recon-api"}
MaxSources == 6

Report  == [engine : Engines, of : Inputs, by : Bases]
Session == [action : Actions, files : Inputs, reports : SUBSET Report,
            digest : Report \cup {Nothing}]
Request == [op : Reruns \cup {"analyze"}, action : Actions, sid : Sids,
            files : Inputs, told : SUBSET {"fuzzy", "rules"}, reports : Seq(Report)]
Row     == [sid : Sids, of : Inputs]

ASSUME SessionsAssumption ==
    /\ MaxBusy \in Nat
    /\ \A fs \in Inputs :
          /\ fs \in Seq(Files)
          /\ Len(fs) \in 1..MaxSources
          /\ \A i \in 1..Len(fs) : <<fs[i]>> \in Inputs
          /\ \A i \in 2..Len(fs) : <<fs[1], fs[i]>> \in Inputs
    /\ Nothing \notin Session \cup Report

SessionsTypeOK ==
    /\ store    \in [Sids -> Session \cup {Nothing}]
    /\ recon    \in SUBSET Sids
    /\ busy     \in SUBSET Request
    /\ used     \in SUBSET Sids
    /\ shown    \in [Sids -> Report \cup {Nothing}]
    /\ memory   \in BOOLEAN
    /\ history  \in SUBSET Row
    /\ lost     \in SUBSET Sids

SessionsInit ==
    /\ store    = [s \in Sids |-> Nothing]
    /\ recon    = {}
    /\ busy     = {}
    /\ used     = {}
    /\ shown    = [s \in Sids |-> Nothing]
    /\ memory   = FALSE
    /\ history  = {}
    /\ lost     = {}

Fresh == Sids \ used

\* A row of history (an insertion that fails is caught and leaves no row).
Record(row) == history' = history \cup {row}

------------------------------------------------------------------------------
(* POST /analyze. *)

\* How many sources an action takes: compare and lineage a side A and a side B,
\* compare up to four more, the others up to six.
Admitted(act, fs) ==
    /\ act \in {"compare", "lineage"} => Len(fs) >= 2
    /\ act = "lineage" => Len(fs) = 2

\* What the form of a comparison may ask for.
Told(act) == IF act = "compare" THEN SUBSET {"fuzzy"} ELSE {{}}

\* The form is read, the data loaded; the session gets its identifier.
Analyze(act, fs, told) ==
    /\ Cardinality(busy) < MaxBusy
    /\ Admitted(act, fs)
    /\ told \in Told(act)
    /\ \E s \in Fresh :
          /\ busy' = busy \cup {[op |-> "analyze", action |-> act, sid |-> s,
                                 files |-> fs, told |-> told, reports |-> <<>>]}
          /\ used' = used \cup {s}
    /\ UNCHANGED <<store, recon, shown, memory, history, lost>>

\* "Compare as documents" answers with an identifier that nothing is stored under.
DocumentDiff(fs) ==
    /\ Admitted("compare", fs)
    /\ \E s \in Fresh :
          /\ used' = used \cup {s}
          /\ shown' = [shown EXCEPT ![s] = [engine |-> "text", of |-> fs, by |-> "form"]]
          /\ lost' = lost \cup {s}
    /\ UNCHANGED <<store, recon, busy, memory, history>>

\* A quality run adds the deterministic floor to the rules of the form.
Basis(engine) == IF engine = "quality" THEN "floor" ELSE "data"

\* Mutant: the files before the i-th where the i-th belongs.
M_OneFile(r, engine, i, by) ==
    [engine |-> engine, of |-> SubSeq(r.files, 1, i - 1), by |-> by]

\* The report on the i-th file of a run.
OneFile(r, engine, i, by) == [engine |-> engine, of |-> <<r.files[i]>>, by |-> by]

\* One more file of a quality, profile, governance or parse run is analysed; its
\* row is written at once, under the session the run will store.
AnalyzeFile(r) ==
    LET rep == OneFile(r, r.action, Len(r.reports) + 1, Basis(r.action))
    IN  /\ r.op = "analyze"
        /\ r.action \in PerFile
        /\ Len(r.reports) < Len(r.files)
        /\ busy' = (busy \ {r}) \cup {[r EXCEPT !.reports = Append(@, rep)]}
        /\ IF r.action = "parse"
             THEN UNCHANGED history
             ELSE Record([sid |-> r.sid, of |-> rep.of])
        /\ UNCHANGED <<store, recon, used, shown, memory, lost>>

\* The comparison the request asks for.
Compared(r) ==
    [engine |-> IF "fuzzy" \in r.told THEN "fuzzy"
                ELSE IF Len(r.files) > 2 THEN "nway" ELSE "exact",
     of |-> r.files, by |-> "form"]

\* The first file's report; the Copilot modes analyse nothing yet.
FileAnswer(r) == IF r.action \in PerFile THEN r.reports[1] ELSE Nothing

\* What the answer is built from.
Answer(r) == IF r.action = "compare" THEN Compared(r) ELSE FileAnswer(r)

Listed(reports) == {reports[i] : i \in DOMAIN reports}

IsPair(r) == r.action = "compare" /\ Compared(r).engine = "exact"

\* Mutant: the session's identifier is made when it is stored, as it once was.
M_FinishAnalysis(r) ==
    LET kept == IF IsPair(r) THEN {Compared(r)} ELSE Listed(r.reports)
    IN  /\ r.op = "analyze"
        /\ r.action \in PerFile => Len(r.reports) = Len(r.files)
        /\ \E n \in Fresh :
              /\ store' = [store EXCEPT ![n] =
                              [action |-> r.action, files |-> r.files, reports |-> kept,
                               digest |-> Answer(r)]]
              /\ shown' = [shown EXCEPT ![n] = Answer(r)]
              /\ used' = used \cup {n}
        /\ busy' = busy \ {r}
        /\ UNCHANGED <<recon, memory, history, lost>>

\* Stores, contexts, digest and, for two files, the reconciliation's history.  Of
\* the comparisons only that of two files by key is kept as a report.
FinishAnalysis(r) ==
    LET kept == IF IsPair(r) THEN {Compared(r)} ELSE Listed(r.reports)
    IN  /\ r.op = "analyze"
        /\ r.action \in PerFile => Len(r.reports) = Len(r.files)
        /\ store' = [store EXCEPT ![r.sid] =
                        [action |-> r.action, files |-> r.files, reports |-> kept,
                         digest |-> Answer(r)]]
        /\ recon' = IF r.action \in {"compare", "lineage"} THEN recon \cup {r.sid} ELSE recon
        /\ shown' = [shown EXCEPT ![r.sid] = Answer(r)]
        /\ busy' = busy \ {r}
        /\ IF IsPair(r)
             THEN Record([sid |-> r.sid, of |-> r.files])
             ELSE UNCHANGED history
        /\ UNCHANGED <<used, memory, lost>>

\* A file that cannot be analysed fails the run: nothing is stored.
FailAnalysis(r) ==
    /\ r.op = "analyze"
    /\ busy' = busy \ {r}
    /\ lost' = lost \cup {r.sid}
    /\ UNCHANGED <<store, recon, used, shown, memory, history>>

------------------------------------------------------------------------------
(* Reruns of a stored session. *)

Stored == {s \in Sids : store[s] # Nothing}

\* A session made from session s, under identifier n, with what its page shows.
Derive(n, s, act, reports, page) ==
    /\ store' = [store EXCEPT ![n] =
                    [action |-> act, files |-> store[s].files, reports |-> reports,
                     digest |-> Nothing]]
    /\ used' = used \cup {n}
    /\ shown' = [shown EXCEPT ![n] = page]

\* POST /rerun: every further file against the first, on the event loop.
Rerun(s) ==
    LET fs    == store[s].files
        pairs == [i \in 1..(Len(fs) - 1) |->
                     [engine |-> "exact", of |-> <<fs[1], fs[i + 1]>>, by |-> "form"]]
    IN  /\ s \in Stored
        /\ Len(fs) >= 2
        /\ \E n \in Fresh :
              /\ used' = used \cup {n}
              /\ store' = [store EXCEPT ![n] =
                              [action |-> "compare", files |-> fs, reports |-> Listed(pairs),
                               digest |-> pairs[1]]]
              /\ shown' = [shown EXCEPT ![n] = pairs[1]]
        /\ UNCHANGED <<recon, busy, memory, history, lost>>

\* An AI reconciliation reads the rules in memory when it starts.  /recon/run wants a
\* session whose context is a reconciliation's, the chat and the Copilot page any
\* two files.
StartRerun(op, s) ==
    /\ Cardinality(busy) < MaxBusy
    /\ s \in Stored
    /\ op \in {"recon", "recon-api"} => Len(store[s].files) >= 2
    /\ op = "recon-api" => s \in recon
    /\ busy' = busy \cup
          {[op |-> op, action |-> store[s].action, sid |-> s, files |-> store[s].files,
            reports |-> <<>>,
            told |-> IF op \in {"recon", "recon-api"} /\ memory THEN {"rules"} ELSE {}]}
    /\ UNCHANGED <<store, recon, used, shown, memory, history, lost>>

\* An error ends the request; nothing has been stored.
FailRerun(r) ==
    /\ r.op # "analyze"
    /\ busy' = busy \ {r}
    /\ UNCHANGED <<store, recon, used, shown, memory, history, lost>>

\* A single-file run of the Copilot: session n is stored with the report, a row
\* written, and the report answered unless the answer fails.
Copilot1(r, engine, n, answered) ==
    LET rep == OneFile(r, engine, 1, Basis(engine))
    IN  /\ Derive(n, r.sid, engine, {rep}, IF answered THEN rep ELSE Nothing)
        /\ Record([sid |-> n, of |-> rep.of])
        /\ busy' = busy \ {r}
        /\ UNCHANGED <<recon, memory, lost>>

\* /rerun-quality-json.
CopilotQuality(r) ==
    r.op = "quality-json" /\ \E n \in Fresh : Copilot1(r, "quality", n, TRUE)

\* /rerun-profile-json.
CopilotProfile(r) ==
    r.op = "profile-json" /\ \E n \in Fresh : Copilot1(r, "profile", n, TRUE)

\* /rerun-governance-json: the answer names hints that the handler no longer has, and
\* the request ends in an error.
CopilotGovernance(r) ==
    r.op = "governance-json" /\ \E n \in Fresh : Copilot1(r, "governance", n, FALSE)

\* A page over every file that could be analysed, by nothing but the data.
Page(r, engine, n, ok) ==
    LET rep(i) == OneFile(r, engine, i, "data")
    IN  /\ \/ ok = {} /\ Derive(n, r.sid, engine, {}, Nothing)
           \/ \E i \in ok :
                 /\ \A j \in ok : i <= j
                 /\ Derive(n, r.sid, engine, {rep(j) : j \in ok}, rep(i))
        /\ busy' = busy \ {r}
        /\ UNCHANGED <<recon, memory, history, lost>>

\* /dq-ai-results and /rerun-quality, /rerun-profile, /rerun-governance.
QualityPage(r) ==
    /\ r.op = "quality-page"
    /\ \E n \in Fresh, ok \in SUBSET (1..Len(r.files)) : Page(r, "quality", n, ok)

ProfilePage(r) ==
    /\ r.op = "profile-page"
    /\ \E n \in Fresh, ok \in SUBSET (1..Len(r.files)) : Page(r, "profile", n, ok)

GovernancePage(r) ==
    /\ r.op = "governance-page"
    /\ \E n \in Fresh, ok \in SUBSET (1..Len(r.files)) : Page(r, "governance", n, ok)

\* A session whose report of a kind is replaced, and its digest with it.
Revised(session, rep) ==
    [action  |-> session.action,
     files   |-> session.files,
     reports |-> {x \in session.reports : x.engine # rep.engine} \cup {rep},
     digest  |-> rep]

\* Mutant: the adjusted report goes to the page only.
M_Overrides(r) ==
    LET rep == OneFile(r, "quality", 1, "form")
    IN  /\ r.op = "overrides"
        /\ store' = [store EXCEPT ![r.sid].digest = rep]
        /\ shown' = [shown EXCEPT ![r.sid] = rep]
        /\ busy' = busy \ {r}
        /\ UNCHANGED <<recon, used, memory, history, lost>>

\* /rerun-quality-overrides: the same session shows the adjusted report.
Overrides(r) ==
    LET rep == OneFile(r, "quality", 1, "form")
    IN  /\ r.op = "overrides"
        /\ store' = [store EXCEPT ![r.sid] = Revised(@, rep)]
        /\ shown' = [shown EXCEPT ![r.sid] = rep]
        /\ busy' = busy \ {r}
        /\ UNCHANGED <<recon, used, memory, history, lost>>

\* What the language model makes of saved rules; without an answer the comparison
\* runs by nothing but the data.
Parsed(told) == {"data"} \cup (IF "rules" \in told THEN {"keyed", "fuzzy"} ELSE {})

\* Without saved rules a run infers its parameters from the data.
Inferred(told) == IF "rules" \in told THEN {} ELSE {"inferred"}

Reconciled(files, by) ==
    [engine |-> IF by = "fuzzy" THEN "fuzzy" ELSE "exact",
     of |-> <<files[1], files[2]>>, by |-> by]

\* "run recon" in the chat and POST /recon/run-llm: a copy of the session with the
\* new pair of files in place of the old; a fuzzy match is only answered.
ReconRun(r) ==
    /\ r.op = "recon"
    /\ \E n \in Fresh, by \in Parsed(r.told) \cup Inferred(r.told) :
          LET rep == Reconciled(r.files, by)
              old == store[r.sid]
          IN  /\ store' = [store EXCEPT ![n] =
                    IF rep.engine = "fuzzy" THEN old ELSE Revised(old, rep)]
              /\ shown' = [shown EXCEPT ![n] = rep]
              /\ recon' = recon \cup {n}
              /\ used' = used \cup {n}
              /\ Record([sid |-> n, of |-> rep.of])
    /\ busy' = busy \ {r}
    /\ UNCHANGED <<memory, lost>>

\* POST /recon/run: answered and, unless fuzzy, counted; nothing stored.
ReconApi(r) ==
    /\ r.op = "recon-api"
    /\ \E by \in Parsed(r.told) :
          LET rep == Reconciled(r.files, by)
          IN  IF rep.engine = "fuzzy" THEN UNCHANGED history
              ELSE Record([sid |-> r.sid, of |-> rep.of])
    /\ busy' = busy \ {r}
    /\ UNCHANGED <<store, recon, used, shown, memory, lost>>

------------------------------------------------------------------------------
(* What is read of a session. *)

\* GET /download.
Downloaded(s) == store[s].reports

\* POST /agent-chat: the digest over the stored reports.
AgentSees(s) ==
    IF store[s].digest # Nothing THEN {store[s].digest} ELSE Downloaded(s)

\* GET /recon/download: the rules are read and parsed, and the files compared, again;
\* what the workbook may hold now.
Workbooks(s) ==
    {Reconciled(store[s].files, by) : by \in Parsed(IF memory THEN {"rules"} ELSE {})}

\* POST /send-email attaches the workbook to a Copilot reconciliation, the stored
\* reports otherwise.
Mailed(s) == IF store[s].action = "lineage" THEN Workbooks(s) ELSE Downloaded(s)

------------------------------------------------------------------------------
(* Dataset Memory, and the end of the process. *)

\* Dataset Memory gains its first rule or loses its last ("remember: ...", the panels).
EditMemory ==
    /\ memory' = ~memory
    /\ UNCHANGED <<processVars, used, history, lost>>

RestartServer ==
    /\ store' = [s \in Sids |-> Nothing]
    /\ recon' = {}
    /\ busy'  = {}
    /\ shown' = [s \in Sids |-> Nothing]
    /\ lost'  = used
    /\ UNCHANGED <<used, memory, history>>

SessionsNext ==
    \/ \E act \in Actions, fs \in Inputs, told \in SUBSET {"fuzzy"} : Analyze(act, fs, told)
    \/ \E fs \in Inputs : DocumentDiff(fs)
    \/ \E r \in busy :
          \/ AnalyzeFile(r) \/ FinishAnalysis(r) \/ FailAnalysis(r)
          \/ CopilotQuality(r) \/ CopilotProfile(r) \/ CopilotGovernance(r)
          \/ QualityPage(r) \/ ProfilePage(r) \/ GovernancePage(r) \/ Overrides(r)
          \/ ReconRun(r) \/ ReconApi(r) \/ FailRerun(r)
    \/ \E s \in Sids : Rerun(s)
    \/ \E op \in Reruns, s \in Sids : StartRerun(op, s)
    \/ EditMemory
    \/ RestartServer

SessionsSpec == SessionsInit /\ [][SessionsNext]_sessionVars

------------------------------------------------------------------------------
(* Properties. *)

\* However requests on a session overlap, its page, its downloads and mails and the
\* agent speak of one report: what is shown is among what is stored, unless nothing
\* of the kind is kept at all, and the digest the agent reads is the report shown.
\* A fuzzy match made from saved rules is left out (it is answered and not kept), and
\* so is the mail of a Copilot reconciliation (its workbook is made anew).
OneReport ==
    \A s \in Stored : shown[s] # Nothing /\ shown[s].engine # "fuzzy" =>
        /\ shown[s] \in Downloaded(s) \/ shown[s].engine = "nway"
        /\ shown[s] \in Mailed(s) \/ shown[s].engine = "nway" \/ store[s].action = "lineage"
        /\ shown[s] \in AgentSees(s)

\* The tables of a row are tables of the session.
Within(of, fs) == \A i \in 1..Len(of) : \E j \in 1..Len(fs) : of[i] = fs[j]

\* A row of the trend charts leads to its session: a row is written under an
\* identifier before anything is stored there, and unless the run fails, is still
\* under way, or a restart drops it, that identifier holds the files of the row.
RowsLeadToSessions ==
    \A h \in history :
        \/ h.sid \in lost
        \/ \E r \in busy : r.op = "analyze" /\ r.sid = h.sid
        \/ store[h.sid] # Nothing /\ Within(h.of, store[h.sid].files)

------------------------------------------------------------------------------
(* What a comment says and the code does not do. *)

\* "Download the last recon run for a lineage session" (main.py:19089): the workbook
\* of a session that an AI reconciliation made can be of the run on its page.
DownloadIsTheRun ==
    \A s \in Stored : shown[s] # Nothing /\ shown[s].by \in {"keyed", "fuzzy", "inferred"} =>
        shown[s] \in Workbooks(s)
=============================================================================
