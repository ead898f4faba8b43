# Verification of AI DataValidator

TLA+ modules, TLC runs and TLAPS proofs for the data validation server in this
repository: a FastAPI application (`main.py`) with a workspace of users, connections
and scheduled jobs (`workspace/`), a rule memory and a language-model agent (`agent/`),
a license client and server (`license/`) and a browser extension
(`browser-extension/`).

Run `tlc -config <name>.cfg <Module>` for a run of the table below and
`tlapm <Module>.tla` for a proof module.

## 1. Inventory

| Part | State | Operations | What is hard | What makes it correct |
|---|---|---|---|---|
| Scheduled jobs and runs (`workspace/scheduler.py`, job tables of `workspace/db.py`, `/api/ws/jobs*`) | rows of `ws_jobs` and `ws_run_history`; cron entries in APScheduler's memory; worker and watchdog threads | create, update, delete, run now, cron firing, the body of a run, watchdog, startup, deleting a user | threads against request handlers, a watchdog that races its worker, commits that belong together, hanging calls, a restart | the schedule is what the table says; a run is closed once it is opened; status, verdict and mails agree; nothing deleted comes back |
| Dataset Memory (`agent/feedback_store.py`, rule endpoints of `main.py`) | the cache and `feedback_rules.json`; per session the fingerprint of its dataset | save, delete, update, swap, delete a dataset, wipe a user, resolve a fingerprint, scans by analyses | copy-on-write over shared legacy rules, readers that take no lock, a rewrite in place, fuzzy lookup that depends on what is stored | a private rule book per user; a restart changes nothing; analyses use only rules that are stored |
| Analysis sessions (`/analyze`, `/rerun*`, `/overrides`, `/recon/*`, the stores at `main.py:97`) | results, chat contexts, quality caches per session id; rows of the trend charts | analyze, rerun as page or JSON, reconcile with saved rules, download, mail, expire | reruns on worker threads that change a session in place or copy it; rows written before what they link to | page, download, mail and agent speak of one report; a row leads to its session |
| Comparison and keys (`main.py:3549-5050`, `17626-18760`) | none beyond a call | key inference, diff with and without a key, n-way, fuzzy; relabelling, transforms, derived columns, tolerances | keys that are not unique, an unstable sort, two implementations of equality, greedy choices, labels changed five times in a row | a clean answer means equal files; no row disappears; the engines agree; no label on two columns |
| Cross reference (`main.py:5650-5965`, `/xref*`) | none beyond a call | find keys, compare 2 to 5 sources, golden value, AI run, tolerances | keys and labels spelled differently, sources known by their names only | every disagreement is a conflict |
| Quality, profile, governance, mapping (`main.py:5164-11647`) | none | rules, scores, check digits, masks, recommendations | weights that move, rules that replace rules, columns excluded halfway | better data scores higher; an AI run checks at least what the standard one does; the excluded stay out |
| Accounts and authentication (`workspace/auth.py`, `local_auth.py`, `/api/ws/users*`) | `ws_users`, reset tokens, login state | register, sign in, reset, change role, block, delete | the first user, single use of tokens, an administrator acting on themselves | someone can administer; a token works once |
| Single sign-on (`workspace/sso.py`, `saml_sso.py`) | pending logins | start, call back, expire | a late or repeated call back | a login is completed once |
| License (`license/`) | license file, server's table of activations | activate, validate, revoke, grace period | the server unreachable, clocks | no use after the grace period |
| Audit log (`workspace/audit_log.py`) | a buffer and subscriber queues | record, subscribe, stream | slow subscribers | order and bound of the buffer |
| Mail delivery (`scheduler.py:564-764`) | process-wide `socket.getaddrinfo` | send with retries | two mails that patch one function | the function is restored |
| Saved runs, metrics, retention, token cap (`workspace/db.py`) | tables | save, prune, count | check and use apart | bounds are kept, the newest survive |
| Agent (`agent/executor.py`, `llm.py`, `rag.py`, `tools.py`, `/agent-chat`, `/chat`, `/help-chat`) | windows of history, the settings the process read | tool loop, provider selection and fallback, settings | what is selected, keyed, allowed and able are four different things; windows that cut a conversation | nothing is sent where it may not be; every call has its result |
| Connectors (`workspace/connectors.py`) | none | fetch, list | input and output | outside |
| Extension (`browser-extension/`) | `chrome.storage`, recorded steps, replay position | record, replay, send | a service worker that restarts, read-modify-write of storage | no step lost or run twice |
| Reports, pages, build | none | formatting | | outside |

How they interact: request handlers run on one event loop and block it while they hold a
lock or a database connection; analyses run on worker threads (`asyncio.to_thread`); jobs
run on APScheduler's threads or on threads of their own and share with the handlers only
the database. Dataset Memory is shared by all sessions of a user and, through the
analyses' scans, by all users. Deleting a user touches the database, the rule memory and
nothing else.

## 2. Modules

```
RunLedger <---- implements ---- JobRuns <-- MCJobRuns        (TLC)
                                   ^------- JobRunsProofs    (TLAPS)

RuleBook  <---- implements ---- FeedbackStore
                                   ^ extends
                                DatasetMemory <-- MCDatasetMemory     (TLC)
                                   ^------------- DatasetMemoryProofs (TLAPS)

Accounts <-- MCAccounts <--+                                          (TLC)
   ^--- AccountsProofs     +-- MCServices                             (TLAPS; TLC)
   v                       |
License  <-- MCLicense  <--+                                          (TLC)
Sessions <-- MCSessions <--+                                          (TLC)
   ^--- SessionsProofs     |                                          (TLAPS)
Agent    <-- MCAgent    <--+                                          (TLC)
   ^--- AgentProofs                                                   (TLAPS)

FuzzyMatch <------------+
KeyInference <----------+
Reconcile <-- NWay <----+-- ComparisonProofs <--+                     (TLAPS)
Alignment <-------------+                       |
Tolerances <------------+-- Analyses <----------+-- AnalysesProofs    (TLAPS)
CrossReference <--------+      ^                |
DqScore <-- Quality <---+---- QualityProofs <---+                     (TLAPS)
                               |
                            MCAnalyses (with MCReconcile, MCNWay,     (TLC)
                               MCAlignment, MCQuality and
                               MCCrossReference)

Selection: filtered lists and sums, used by Tolerances, CrossReference and Quality
```

### JobRuns and RunLedger

`JobRuns` has one action per endpoint (`CreateJob`, `UpdateJob`, `DeleteJob`, `RunNow`,
`PurgeUser`, `DeleteUser`), one per committed statement or blocking call of
`_run_job_body` (`GetJob` to `FinishError`), and one per step of the watchdog (`Join`,
`Check`, `Kill`, `KillStatus`). A request handler is one step because it does not await
between its database calls; a thread is one step per statement because every thread has
a connection of its own. `FireCron` is APScheduler, which is not in this repository: a
due entry is submitted, and with `max_instances=1` an entry whose last run has not
returned is skipped. Faults are actions switched on per run: a call that hangs (`Hang`;
it may still answer), the end of the process (`Crash`), after which `Restart` registers the
table again, and a statement that raises: in a thread (`DbFault`), in the transaction of a
handler that has unregistered the entry already (`DeleteJobFails`), in the SELECT at startup
(`LoadFails`), in some of the DELETEs of `delete_user` (`Erased`), or as the first statement
of a request, which leaves nothing but the caller's account (`Visit`).

`UpdateJob` and `DeleteJob` take any id the server has handed out, from any user: the rows
change only if the job is the caller's, the cron entry in any case, since `schedule_job` and
`unregister_job` know the id alone. An entry therefore has a user of its own (`Entry`), for
whom its runs are (`runFor`). `astray` is a history variable: the jobs whose entry another
user's request, a failed deletion or a failed load touched since their owner last saved them
or the server loaded them. For those row and entry differ, and `ScheduleFollowsRow` says that
for all others they never do. Of the DELETEs of one transaction the first that succeeds
takes SQLite's write lock, so those after it succeed as well.

What a job computes is a nondeterministic outcome: an exception or a result, an SLA that
holds or does not, a mail wanted or not.

`RunLedger` is what the run history promises: a run is opened once, only the threads
entrusted with it deliver verdicts, each at most once, and a row that was removed does
not return. Under the refinement mapping the number of entrusted threads is the worker
plus the watchdog that has not written.

### RuleBook, FeedbackStore and DatasetMemory

`FeedbackStore` is `agent/feedback_store.py`: a cache (`store`), the file (`disk`), and
whether the lock is held by an operation that is writing (`saving`). An operation is two
steps, because `_save` truncates the file before it writes it: `Commit` changes the cache
and tears the file, `Dump` completes it. Between them only readers without the lock and
the end of the process can see the file. An owner is a user or `Legacy`, the bucket of
rules saved before users existed, which is shared until a user changes it
(`_fork_if_legacy_only`).

`RuleBook` is what the store promises: every user has a page per fingerprint that starts
as the shared rules, a step changes one page of one user in one of the ways an operation
may, and losing everything is possible only while a write is going on.

`DatasetMemory` adds the endpoints: an analysis (`Upload` reads exclusions, the analysis
runs on a worker thread, `Analyzed` resolves the fingerprint), the panels of a session,
instructions to the language model (`Ask`, `Answer`: the event loop is free between
them), the Memory page and wiping a user. A rule text stands for its normalised form, an
upload for its columns; similarity is a constant table `Score`, so the proofs hold for
any similarity. `Resolve` is a set where `_fuzzy_lookup_in` depends on the order of a
dictionary.

### Accounts and License

`Accounts` is the table of users: rows appear when an identity is first seen (`Ensured`,
which the middleware, sign-ons and every action with a caller apply), on registration, and
through an administrator. A reset link is the user and the hash it was made for; bcrypt's
salts are numbers that are drawn once. A session cookie names a user and is never looked
up, so any user may make any request. An administrator's request is two steps: `LetIn` is
the middleware and the role check, then the handler awaits the body, then `SetRole`,
`SetBlocked`, `CreateUser` or `DeleteUser` carries it out, or `Refuse` ends it.

`License` counts days. `Load` is `load_license` for the token it finds: verification may
fail for any token, since the public key or the clock may be wrong, and the cache may or
may not be saved. `Activate` is the endpoint as a client with a field `license_key` uses it;
what the Settings page sends has another name and changes nothing.

### Sessions

`Sessions` is what the process keeps of an analysis. `Analyze` starts a run, which goes on
over a worker thread per file (`AnalyzeFile`, which writes the row of the trend chart) and
is stored by `FinishAnalysis`; reruns are `StartRerun` and one action per endpoint
(`CopilotQuality` to `ReconApi`), except those that await nothing (`Rerun`). A report is
the engine that made it, the tables it is of and what it was based on: enough to tell
whether two places speak of the same one. `Downloaded`, `Mailed` and `AgentSees` are what
these places read. A restart empties everything but the rows.

### Agent

`Agent` follows a question from its endpoint over the providers it may be sent to.
`ToTry` is what governance and abilities leave, `Foremost` the order, `CanSend` whether
there is a key; `AskProvider` asks or passes over, `ProviderFails` falls back, `CallTools`
appends calls and results and starts the next round. Messages are turns without text. The
process knows the settings it read when it started (`loaded`), the page changes the file
(`settings`). `said` has both windows of history: the server's, and the one a page of the
user guide keeps and sends along. `Chat` takes a window of turns from the client as well
(`Kept`), although the page of this repository sends none.

`MCServices` checks these four in one run. They share nothing, so a behaviour moves one of
them.

### KeyInference, Reconcile, NWay and FuzzyMatch

`KeyInference` is `infer_keys`: the two filters (`Pool`, `Solo`), the perfect column, the
search for a composite, one step per round of its inner loop (`Try`) and one per end of a
width (`NextWidth`), and the last resort. Columns are numbered by rank; how unique a
column or a combination is, is a number per mille chosen at the start, so the module says
what the search does with any statistics, not how pandas computes them. The scores enter
where they decide something (`MayLead`). Composites are built from the first `TopCols` of
the candidates (`Top`), 12 in the code.

`Reconcile` is `compare_dataframes`: `KeyBasedDiff` and `ContentBasedDiff` are one step
each, since a comparison is one call that nothing interrupts. Cells are texts with the
code's notions of equality over them. `pos1` and `pos2` are the positions `_add_pos`
counts; they are chosen, because `sort_index` is not stable and may leave the rows of one
key in any order. `merged` is no part of the code's answer: it records which rows were
compared, so that a property can say what happened to the others. The limits of the code are
constants: every list ends after `MaxListed` rows (`Capped`; which ones it shows is a matter
of sorting and left open), while counts are of all, and without a key only the first
`RowHashCap` rows of each file are looked at (`Hashed`), which the answer says (`truncated`).

`NWay` extends it with `compare_dataframes_nway`, which serves three files or more. It keeps
the first row of a key and compares cell by cell with `SameScalar`, where the engine for two
files has `SameValue`. Values are kept by file name, so of two sources of one name the later
one is heard (`Heard`, `Reference`); dates are recognised in the first `SampleSize` cells of
the first `SampleSize` keys (`Samples`, `DateLike`); breaks and keys of some sources are
listed up to `MaxListed`. `Uploads` may bear one name, since nothing renames them.

`FuzzyMatch` visits candidates one by one, best first, as the loop does.

### Alignment and Tolerances

`Alignment` is what an AI reconciliation does to two files before it compares them:
`EnforceExplicitKey`, then the stages of `_apply_recon_params` (`Collapse` takes repeated
labels out of an upload, `Derive` makes one column of the plan's list, `Rename`,
`Transform`, `Aggregate`), `AlignValues` of `_prepare_recon`, and `ResolveKey` for one part
of the key at a time. `handled` is how far a list is worked off. The code prepares one table
after the other; neither looks at the other before `AlignValues`, so here both go through a
stage together. A column is its label and the set of transforms it went through. Grouping by
one column twice makes pandas refuse, and the run fails (`AggregateFails`). The plan is any of
a set, since a language model makes it.
`Tolerances` is what `_apply_exception_rules` takes out of the answer afterwards.

### DqScore, Quality and CrossReference

`DqScore` is the score as arithmetic in percentages and tenths. `Quality` is a run over a
file: `Augment` adds what the names of columns and a pack call for to the hints, `OfEntry`
and `OfHints` make rules of settings and hints, `Baseline` adds those of columns without
rules (together `RulesFor`), `Apply` is `_apply_rule` for each
kind of rule, `ApplyCross` the checks over two columns, `Issues` the consistency checks and
`Measure` the measures `DqScore` weighs. Rules, settings, hints and results are sets: their
order is layout, and each carries the place that calls for it (`from`, `at`), so that a rule
asked for twice is two rules, as in the code's lists. What a kind of rule
makes of a cell is a constant; that nulls, blanks and placeholders count differently for
different kinds is not. What the checks of texts find in a column (`OfText`: placeholders,
formats of dates, texts among numbers, spaces, odd characters, each with a sample and a
threshold of its own) is a constant per check and column, `TextVerdict`, since the runs and
proofs need no more than that it depends on the column alone. The search for conflicting
records is bounded by constants (`MaxIds`, `MaxOthers`, `ConflictRows`).

`StandardHints` is what a Standard run goes by: when the request has no settings, those saved
for files with the same columns (`saved`). The AI run does not load them. The accuracy of a
column is taken from the settings before excluded columns are dropped (`ByEntry`) and from
the dictionary after (`ByDictionary`), and summed over both (`Accuracy`).

`CrossReference` is `analyze_cross_reference` with the endpoints around it. Sources are
looked up by name, label and key as the code does, so that two files of one name collide
here too.

`Analyses` is all eight together: each request has data of its own, so a step is a step of
one part (`FuzzyStep` to `CrossReferenceStep`) and their steps interleave. `MCAnalyses`
starts one of the parts and leaves the others in an initial state, which is a behaviour of
`Analyses`; that this loses nothing is the theorem `PartsRunAlone`.

## 3. Runs

| Run | Configuration | What it shows |
|---|---|---|
| `jobruns_faults` | 2 users who may use each other's ids, 1 job, 1 run, two schedules and one that does not parse, statements that raise, crashes | `TypeOK`, `ScheduleFollowsRow`, `SuccessHasJob`, and that `JobRuns` implements `RunLedger` |
| `jobruns_live` | 1 user, 1 job, 2 runs, calls that hang | `RunningIsAttended`, `StatusAgreesWithLastRun`, `MailAgreesWithVerdict`, `EveryRunEnds` |
| `jobruns_hang` | 1 run, calls that hang | violated: `HungCallIsCutOff` |
| `jobruns_verdict` | 1 run, no faults | violated: `VerdictIsDefinitive` |
| `jobruns_deleted_user` | 1 run, no faults | violated: `DeletedUserStartsNoRuns` |
| `memory` | 2 users, 1 dataset with a legacy rule, 2 texts, 2 categories, entries of up to 2 rules, 1 session | `TypeOK`, `DiskShowsTheSame`, `AppliesOnlyStoredRules`, and that the store implements `RuleBook` |
| `memory_isolation` | 2 users, 1 rule text, 1 session | violated: `AppliesOwnRules` |
| `services` | accounts: 2 users, one of them a named administrator, 3 hashes, 1 administrator's request at a time; license: 2 keys and a text that is none, 5 days, grace of 2; sessions: 2 sessions of up to 3 files, 2 requests at a time; agent: 3 providers, windows of 4 and 2 turns, 3 rounds of up to 2 calls | `TypeOK`, `SpentLinksAreDead`, `LastAdminStays`; `LicenseTypeOK`, `LicenseInTime`, `RestartReadsActivated`; `SessionsTypeOK`, `OneReport`, `RowsLeadToSessions`; `SentAsAllowed` |
| `analyses` | keys: 4 columns of which 3 are combined, uniqueness of 60, 80, 90, 96 and 100%; with a key, files of up to 2 rows, 3 key texts, 6 pairs of a date and an amount; without one, files of up to 3 rows of 3 kinds, 2 of them hashed; 1 listed row; 3 sources out of 12 files, of three names or of two, 2 cells sampled; fuzzy: 2 rows each, 2 other files, 3 scores; alignment: 6 and 4 tables, plans of every stage; tolerances: 3 breaks, 2 shown; quality: files of up to 4 columns and 3 rows, 4 settings, 3 saved ones, 1 identifier and 1 other column searched in 2 rows; cross reference: 2 or 3 sources of 2 rows | `AnalysesTypeOK`; `KeyJoins`, `BestOfItsWidth`, `FallbackIsLastResort`; `CleanMeansEqual`, `SilentRowsAreDuplicates`, `CountsBalance`; `NWayMissesNothing`, `EnginesAgree`; `OneToOne`, `NoBetterPairLeft`; `OneColumnPerLabel`, `KeysNormalisedAlike`; `TolerancesHideNothing`; `AIKeepsTheFloor`, `ExcludedPlayNoPart`, `BetterDataScoresHigher`; `DisagreementsAreConflicts` |
| `accounts_admin` | 2 users, 2 requests | violated: `AdminOnly` |
| `sessions_download` | 2 sessions, 2 requests | violated: `DownloadIsTheRun` |
| `quality_superset` | the files and settings of `analyses` | violated: `AISupersetOfStandard` |

Bounds. `MaxRuns` caps the runs ever started; two runs of one job show every overlap of a
scheduled run, a "Run Now" run and its watchdog, since runs meet only in the rows of their
job, and `jobruns_live` has two, as its properties relate runs of one job. Those of
`jobruns_faults` are about a run by itself, its thread, its watchdog and its job; it has one,
and two users instead, since whose id a request has matters to the entry. With both, and
faults, the states are too many for a run of minutes. Users are interchangeable, and the run
checks safety only. Jobs meet only through their owner, so one suffices for properties that
speak of one job. The proofs cover any number of all three. `MaxRules` caps the rules of an
entry; two are enough for swaps, removals from either end and indices out of range, for which
0 stands. The `memory` run has one fingerprint because its properties compare one page before
and after a step. Its two users are interchangeable, and the run checks safety only, so
symmetry is sound. File names are empty in the runs: lookup by file names is a third way into
`Resolve` that the proofs cover and TLC does not exercise.

In `services`, three hashes are a registration, a reset and either a second reset or a
registration after a deletion, which is what could bring a spent link back. Five days hold
a key's whole life with a grace period of two. Roles from groups (`groups`) are chosen once.
Two sessions are one that a rerun starts from and one it makes; two requests are every
overlap of a run with one that reads or changes the same session. Of the three providers
one is free and calls tools, one is under an agreement and calls none, one is both: every
combination of selection, keys and `DPA_ONLY` in which the three differ. Four turns and two
are cut by the second and third question, and three rounds end by the bound.

In `analyses` the levels lie on both sides of each threshold of the search (70%, 95%,
99.5%) that a combination can meet: below 70, twice between 70 and 95 so that best efforts
differ, between 95 and 99.5, and above; columns alone are mostly empty, below and above
50%, or unique. What is said of a column that joins nothing is fixed (`KeyChoice`), since
nothing reads it, and the column ranked last is a candidate with many empty cells. Three
columns that are combined give combinations of two widths, which is what carrying the best
one over needs; the fourth is one too many to be combined, and would be perfect with any
other. Keys of four columns are covered by the proofs. Two rows a file hold a key twice on
one side and once on the other, two spellings of a date, of an amount and of "nothing", and
more rows than are listed; three rows without a key are one more than are hashed. The row of
a source is one of three, in files of none to two rows, so that three sources agree pairwise
in all ways, a key is in one, two or three of them, and two cells are too few to see that a
column holds dates.

The plans of `Alignment` derive no column, one or two, of every kind, with maps that rename,
swap and collide, aggregate one side, both or none, name values that are or are not parts of
the key, and come with and without an explicit key; labels differ in case, in wording or
not at all, and one upload repeats a label. Longer lists are covered by the proofs. Three breaks of which two are listed show what happens beyond the list. The
files of `Quality` hold every content its kinds of rules tell apart in at least one column;
`BetterDataScoresHigher` is checked over the reports of these files. The sources of `CrossReference` hold one identifier in two
spellings, repeated and blank ones, and fields that two of three have.

Deadlock is checked in every run.

Fairness (`JobRuns!FairSpec`). A thread that is not inside a hung call makes progress, and
the time-out of `Thread.join` passes; both are the operating system's promise to a running
process. Nothing is assumed of users, of the clock that fires an entry, of a call that
hangs, or of faults. `EveryRunEnds` is checked without crashes and without failing
statements, because the code does not recover from those: a run that was open when the
process ended stays "running" (hazard list).

## 4. Findings

Each is a run TLC finds violated, with the sentence of the repository it contradicts in
`PROJECT.json`.

1. A scheduled run inside a call that hangs is never closed; only "Run Now" has the
   watchdog that `scheduler.py:218` promises (`jobruns_hang`).
2. A worker the watchdog gave up on may still overwrite "failed" with "success"
   (`jobruns_verdict`).
3. Deleting a user leaves the cron entries of their jobs, which go on inserting failed
   runs until the next restart (`jobruns_deleted_user`).
4. Analyses apply exclusions and overrides of every user (`memory_isolation`).
5. An administrator's request is carried out although the caller was demoted, blocked or
   deleted while its body was awaited (`accounts_admin`).
6. The workbook of an AI reconciliation is made from the rules at the time of download,
   which need not be those of the run (`sessions_download`).
7. A saved pattern takes the baseline checks off its column in an AI quality run, which
   then checks less than the standard run of the file (`quality_superset`). So may settings
   saved for files with the same columns, which only the standard run loads.

Met on the way, without a run: `WORKSPACE.md:57` makes the very first user an
administrator, `db.py:376` and `db.py:816` make it `readonly`; `log_action` in
`audit_log.py` has no caller, so the stream of new audit events never delivers one;
the Settings page sends a license key under a name the activation endpoint does not read;
the same dataset uploaded again need not find its rules, if an exact entry made by an older
session hides the similar one that holds them.

In jobs:

- A request with the id of another user's job, or of a job that was deleted, changes no row
  but registers or unregisters the entry of that id (`main.py:20912`, `20945`), and deletes
  the runs of that job (`db.py:1052`); a deletion that fails has unregistered the job before.
  `ScheduleFollowsRow` calls these jobs astray.
- A SELECT that fails at startup is taken for an empty table (`scheduler.py:182`): the server
  is up without a single entry, where `scheduler.py:172` says "Re-register every cron job in
  the DB on startup". In the model that is `LoadFails`; all jobs are astray after it.

In sessions:

- `/rerun-governance-json` always answers an error: `_hints` at `main.py:17221` is not
  defined (`main.py:17169-17170` says the hints are applied).
- `rerun_quality_json` reads `stored["dataframes"][0][1]` of a list of dictionaries; the
  `KeyError` is swallowed, so the language model is never asked. AI runs as JSON are
  recorded under the user "default", and `rerun_quality` discards the hints it extracts.
- A fuzzy AI reconciliation is answered and not kept: the session's digest and pairs stay
  those of the run before.

In the agent:

- With `DPA_ONLY`, a free provider that calls tools and Bedrock, the tool loop is entered
  and answers "[AI unavailable]", although Bedrock would answer a plain question.
- The Settings page writes `GROQ_MODEL_ID` and `OPENAI_MODEL_ID`, which `agent/llm.py` does
  not read. `agent/memory.py` has no caller. `/agent-chat` blocks the event loop.

In the quality of a file:

- A rule of the settings for `unique`, `not_null`, `allowed_values` or a pattern is counted
  twice, against the comment at `main.py:6759`.
- The accuracy of an excluded column counts when a second entry of the settings gives known
  values for it (`main.py:6746`, before the drop at 6777). `ExcludedPlayNoPart` leaves the
  accuracy out then. What `/analyze` adds to the report besides, a profile and a governance
  part of the whole file and a penalty when there is a second one, is not modelled.
- Blanks are counted less the nulls of the column (`main.py:6888`), so as many nulls hide
  them. A column without values passes rules over whole columns; rules over the whole file
  see a column of one cell. `not_null` and `present`-only rules treat nulls differently.
- An optional dimension of exactly 0 counts as 100 (`x or 100.0`), which
  `BetterDataScoresHigher` and `ScoreMonotone` except.

In the alignment and the tolerances:

- A map that swaps two labels drops both columns, a chain of renames loses data, and names
  that differ in case only make two columns of one label. So does a column that is the value
  to compare and a part of the key: with a value column `id` in the source, and a key `ID`
  besides the value in the target, the value takes the label `id` and then the key does.
  `Ordinary` names the tables and plans without either, and `OneColumnPerLabel` is about them
  from the key on; before, it holds of all.
- Transforms and maps name columns exactly, other stages case apart. A key of which some
  parts are missing still joins, on the others.
- Beyond 500 breaks, tolerating one sets the count to those listed (`main.py:18552`). The
  waterfall is not adjusted.

In the cross reference:

- Two sources of one file name overwrite each other: the last is compared with itself.
- A conflict in a field that one source lacks ends the analysis with an error
  (`main.py:5910`).
- Keys that some but not all of three sources have are neither compared nor listed. A
  blank key is taken off the total and not off the matched, so coverage may exceed 100%.

In the comparison:

- Where a key occurs more often in one file than in the other, the surplus rows are in no
  list, although `main.py:4083-4085` promises the rows of one file that are not in the other.
  Such a row shows in the duplicate counts only, which is what `SilentRowsAreDuplicates`
  states. The lists end after 500 rows, so it speaks of keys that
  are listed or behind the end of a full list.
- Without a key, rows after the first 10,000 of a file are not compared, and the answer says
  so. `CountsBalance` is about the rows it speaks of.
- Composites are built from 12 candidates (`main.py:3828`): one with a thirteenth column is
  not found, however unique. The properties of keys are about the twelve.
- `infer_keys` tries wider combinations only while the best is below 70%, and stops at
  95%, where `main.py:3699-3704` says it goes on to 99.5%: a pair of columns that is 80%
  unique is taken although three would identify every row. `BestOfItsWidth` is what holds.
- The engine for several sources reads dates as text in a column that no sample of 50 cells
  shows to hold dates, which the engine for two does not; `EnginesAgree` has that exception.
  Its counts of breaks and of keys in some sources stop at 500 (`main.py:4774`). Of two
  sources of one name only the later one's values are compared and shown (`main.py:4751`),
  where `main.py:4616-4619` promises ALL sources' values side by side.
- Amounts are equal if they differ by less than 1e-9. The model takes equality of numbers
  to be transitive, which `NWayMissesNothing` needs; three amounts that close are not
  something a file holds.

## 5. Proofs

`JobRunsProofs`, for any users, jobs, schedules, number of runs and faults:

- `TypeCorrect`: `Spec => []TypeOK`.
- `ScheduleCorrect`: `Spec => []ScheduleFollowsRow`, whoever sends which id and whatever
  fails. With `TypeOK` it is inductive: an action that changes the schedule of a row changes
  the entry with it, one that changes the entry alone leaves the job astray, and `Restart`
  recomputes all entries. It needs that a registered job's row has an owner, and what an
  erasure of a user's rows can leave (`Erasure`).
- `SuccessCorrect`: `Spec => []SuccessHasJob`. Not inductive: a thread may be about to
  report a success for a job that is being deleted. `SuccessInv` adds that a run beyond
  `create_run` has a job whose row exists (`Entrusted`), and that a run in the middle of
  its body either lost its own row or still has its job (`FoundJob`), so that the row of
  the history and the row of the job are removed together.
- `AttendedCorrect`: without crashes and failing statements every row that says "running"
  has a thread.
- `LedgerCorrect`: `Spec => ImplementsLedger`, action by action: each step is an opening,
  a verdict, an abandonment, a removal or a stutter of the ledger.
- `StatusCorrect`: `Spec => []StatusAgreesWithLastRun`. Not inductive: between the row of the
  history and the row of the job the two disagree. `StatusInv` adds what the last run has
  written so far (`StatusSoFar`), that a scheduled run is the only one of its job while it
  is under way (`OneAtATime`, from `max_instances`), and that runs are numbered in the order
  they are queued, each for a job that was created (`Numbered`).
- `MailCorrect`: `Spec => []MailAgreesWithVerdict`, if statements do not fail: a failing
  statement between the mail and the verdict turns a success that was mailed into a failure.
  `MailSoFar` says what was mailed by the point a thread has reached.
- `ScheduledVerdictStands`: `Spec => []ScheduledVerdictIsDefinitive`. Finding 2 is about
  "Run Now"; the verdict of a scheduled run, which has no watchdog, never changes.
- `SettledRunsStand`: what any run is reported as once its last thread has ended, it is
  reported as until it is removed. It follows from `LedgerCorrect`: the ledger gives a
  verdict only while somebody is entrusted with the run, and entrusts nobody anew
  (`SpentStep`).
- `CrashedRunsStayOpen`: a run that says "running" when the server is down says so from
  then on, or is removed. While the server is down no run has a thread (`DownIsIdle`), so
  this is a case of the former. It states the hazard at `db.py:1060`, which no document
  rules out.

`DatasetMemoryProofs`, for any users, fingerprints, rules, legacy data and similarity:

- `DiskCorrect` and `RuleBookCorrect`, from the inductive invariant `StoreInv`: types; the
  shared bucket of the file is that of the cache; outside a write the file shows every user
  what the cache does; during a write the file is torn. The comparison is of what users
  see, not of entries, since forked entries may exist in memory only.
- `MemoryUsesStore`: every step of `DatasetMemory` is an operation of the store or leaves
  it alone, on arguments of the right types. It needs `SessionInv`: a pending instruction
  belongs to a session that has its fingerprint.
- `MemoryCorrect` and `ScanCorrect`: so the whole system keeps `TypeOK`,
  `DiskShowsTheSame`, the rule books and `AppliesOnlyStoredRules`.
- `PrivacyCorrect`: `Spec => OneUserAtATime`, an action property. A step leaves what all
  users but one see as it was, or loses everything. Since the endpoints are operations of
  the store and the store implements a book per user, it is a property of the books
  (`OneBookChanges`). `feedback_store.py:7` therefore holds of the pages that show rules;
  finding 4 is about analyses that read the file past them.

`AccountsProofs`, for any users, named administrators and passwords:

- `TypeCorrect`, with the part a unit test does not see: nothing of a deleted row is left
  for a new account of that name.
- `SpentCorrect`: `Spec => []SpentLinksAreDead`. It needs `SaltsAreDrawn`: every hash in a
  row or a link was made with a salt drawn before, so a new hash is in no link.
- `LastAdminCorrect`: `LastAdminStays`, if two requests never overlap. It needs
  `LetInInv`: who was let in still is an administrator. Finding 5 is why the assumption
  cannot be dropped.

- `AdminOnlyAlone`: with the same assumption, `AdminOnly`, which finding 5 violates: whoever
  is let in still is an administrator when the request is carried out.
- Of `License`, for any keys, grace period and length of time: `LicenseTypeCorrect`,
  `LicenseInTimeCorrect` and `RestartCorrect`, from one invariant that adds `CacheInTime`: a
  license is cached only on days it was good.

`SessionsProofs`, for any sessions, files and number of overlapping requests:
`SessionsTypeCorrect`, `OneReportCorrect` and `RowsCorrect`. `SessionsInv` adds that only
identifiers handed out are used (`UsedFirst`), that a session has one analysis under way
(`OneRun`) and that the session of a rerun is there, with the files the rerun started from
(`RerunsHaveSessions`): what a rerun stores is then about the session's files. `RowsOfRuns` ties a row
to the run that is writing. `WorkbookCorrect` says when `DownloadIsTheRun` (refuted by a run)
does hold: the workbook can be of the run on the page exactly while Dataset Memory still
holds rules, and never for parameters inferred from the data. It needs that such a page
shows the first two files of its session (`OfItsFiles`) and that nothing else on a page was
made by the model (`PlainSoFar`).

`AgentProofs`, for any providers, windows, rounds and calls: `SentAlwaysAsAllowed`.
`AgentInv` adds that both histories are whole turns, question and reply (`Whole`), and that
what is left to try only shrinks from what is allowed. That windows are even is an
assumption the theorem needs; 12 and 8 are.

`QualityProofs`, for any file, column names, settings, hints, packs, rules and patterns:

- `ScoreInRange`, `PerfectScore` and `ScoreMonotone`, of any report. The weights add up to
  100 whatever is measured (`SharesAddUp`), so the score is an average, up to rounding; a
  report better in one dimension scores at least as high, except where an optional
  dimension is 0.
- `QualityTypeCorrect`: every measure of a run is a percentage or missing. A rule passes and
  fails no more than it counts (`ResultAnswers`); sums are counts of pairs (`Total`), so one
  grows with its terms (`TotalGrows`). With it, `BetterCorrect`: the reports of runs are
  among those `ScoreMonotone` speaks of.
- `FloorCorrect`: `AIKeepsTheFloor`, when no settings are saved for such files. Of a column without a pattern both runs have the same
  settings, so it is free for the baseline in both or in neither (`FloorOfRules`), and an
  answer depends on the file and the rule alone.
- `ExcludedCorrect`: `ExcludedPlayNoPart`, for the accuracy only where no second entry speaks of
  an excluded column. What a validator adds to the settings is a rule
  and nothing else (`ValidatorsOnlyAddRules`), so both runs keep the same columns; the rules
  they differ in are of columns that are gone (`RulesOfRest`) and skipped
  (`RuleOfNoColumn`), and measures depend on what is not skipped (`MeasureOfRan`).

A report is one application of `AnalyzeQuality`, so the inductive invariant (`QualityInv`)
only says to what it was applied; the work is in the lemmas about operators.

`ComparisonProofs`, for any columns, files of any length, sources, rows and scores:

- `StableCorrect` and `OneToOneCorrect`. The invariant `BestFirst` says that a candidate
  visited is at least as good as one still to come, so whoever blocks a pair fits better.
- `FallbackCorrect` and `KeyJoinsCorrect`, for any number of candidates combined. `Searched` says that all combinations narrower
  than the current width were tried and none is more unique than the best. For
  `BestEffortCorrect` (`BestOfItsWidth`) `TriedWidths` adds which widths were gone through
  when a key is answered.
- `CleanCorrect` and `SilentCorrect`, for lists of any length. The counts are a function of
  the files and of the positions (`FromPositions`), a list is an excerpt (`Tallied`): one that
  leaves a row out is full (`ListIsFull`). Every key has a row at position 0 (`FirstRow`),
  which is where the two files meet whatever the order within a key is.
- `CountsCorrect`: `CountsBalance`. The rows that are not listed pair off: with a key, when
  keys are unique, by the key (`KeyedBalance`), without one by the copy of the same rank
  (`SurplusBalance`), among the rows that are hashed (`HashedRows`). The pairing is a bijection (`PairedOff`), so as many are left of either
  file.
- `MissesNothingCorrect`, from `SameValue` being transitive and the pairwise comparison
  being weaker than the reference one; the reference is among the sources heard
  (`ReferenceIsHeard`). `Tabulated` says what a report of several sources is made of, sampled
  dates and excerpts included; `EnginesCorrect` (`EnginesAgree`) is the converse: a break that
  is listed is one of `SameValue`, or a date in a column that a sample may not show.
- `TolerancesCorrect`: `TolerancesHideNothing`. `Sifted` says that what is listed after the
  tolerances are the breaks not tolerated, in their order.
- `DisagreementsCorrect`: `DisagreementsAreConflicts`. `Replied` ties an answer to what was
  asked; a conflict in a field is a difference of two sources in it and conversely
  (`ConflictIsDisagreement`), and every source with a value sides for or against the golden
  one, some for and some against (`AllTakeSides`). The property requires that no two
  columns of a source differ in case only: of two such columns the code reads the last, and
  TLC found the report then names a value the other column does not have.

- `CrossReferenceTypeCorrect`: an answer lists keys of rows (`KeysAreForms`), since the
  column a source is joined on is one of its own (`KeyColumnIsLabel`), and conflicts under
  keys all sources have (`ConflictOfKey`).
- `AlignmentTypeCorrect`, `OneColumnCorrect` and `NormalisedCorrect`, of any tables and
  plans, from one invariant (`AlignInv`). `OneColumnPerLabel` is not inductive: that the
  target keeps its labels apart while parts of the key take labels of the source needs that
  no two of its columns differ in case only, unless they are values (`Apart`), that parts
  joined on before are columns of the source (`JoinedOn`), and, for `KeysNormalisedAlike`, that
  every column but a value still goes by a spelling of the label it was transformed under
  (`CalledBy`, `Normalised`, `Traced`). Each stage has a lemma on what it leaves true of one
  table (`RenamedColumns`, `AggregatedColumns`, `AlignedColumns`, ...).

`AnalysesProofs`, about the eight analyses together:

- `PartsRunAlone`: a behaviour of `Analyses` is one of each part, since a step of one leaves
  the variables of the others alone (`StepOfOne`).
- `AnalysesTypeCorrect` (`AnalysesTypeOK`) and `AnalysesCorrect`, all safety properties of the
  analyses at once, from it and the theorems of `ComparisonProofs` and `QualityProofs`.

Only model-checked: the liveness property `EveryRunEnds`; liveness under fairness is beyond
the prover used here. Every other property of a passing run is a theorem.
The assumptions of the proofs are the ASSUMEs of the modules (bounds are natural numbers,
null values are distinct from proper ones, tables of constants have their types) and, where
a theorem says so, that some faults do not happen.

## 6. Plan

1. JobRuns (done). 2. Dataset Memory (done). 3. Accounts and License (done).
4. Comparison: keys, two files, several, fuzzy (done).
5. Sessions, scores, quality rules, alignment, tolerances, cross reference, the agent
   (done).
6. Mail delivery: two senders and one patched function.
7. The extension's recording and replay over a service worker that restarts.
8. Sign-on state, audit stream, retention and token cap. Check digits, masks and
   recommendations as operators against reference definitions.

Parts that share no state are checked in one run, as `services` and `analyses` are.

Theorems to come: those about the modules that steps 6 to 8 add.

Not modelled, and not planned: connectors, prompts and retrieval scores, statistics over
floating point, Excel and mail layout, pages, build scripts. Of modelled parts: how columns
are scored and classified as metadata, similarity of texts, break types and the waterfall
of a comparison, profiles and detectors, derived columns of a cross reference (they are
those of `Alignment`), and the limits on requests to `/help-chat`, whose refusals are a
step that may always happen.
