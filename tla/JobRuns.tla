------------------------------- MODULE JobRuns -------------------------------
(***************************************************************************)
(* Scheduled jobs and their runs: workspace/scheduler.py over the tables   *)
(* ws_jobs and ws_run_history of workspace/db.py, driven by the job        *)
(* endpoints of main.py.                                                   *)
(*                                                                         *)
(* Four kinds of actor interleave.  The event loop runs the HTTP handlers, *)
(* each of which is one step here because it does not await between its    *)
(* database calls.  APScheduler's executor threads run _execute_job.  A    *)
(* "Run Now" starts a worker thread on _run_job_body and a watchdog thread *)
(* that joins it with a timeout.  Every thread has its own connection, so  *)
(* one committed statement is one step.                                    *)
(*                                                                         *)
(* The handlers that edit and delete a job take its id from the client and *)
(* do not look up whose it is: the statement on ws_jobs names the user as  *)
(* well as the id, the call that changes the entry names the id alone.     *)
(*                                                                         *)
(* jobState, owner, cron, status   the row of a job in ws_jobs             *)
(* entry       the cron entry APScheduler holds for a job, in memory only: *)
(*             an expression, and the user its runs are for                *)
(* astray      jobs whose entry was last changed, or not loaded, without   *)
(*             their row (a history variable, read by no other variable)   *)
(* account     the users that have a row in ws_users                       *)
(* runState, runJob, runFor        the row of a run in ws_run_history      *)
(* kind        what started a run: "now" or "cron"                         *)
(* pc          where the thread that executes the run is                   *)
(* stuck       that thread is inside a call that has not returned          *)
(* dog         where the watchdog of a "Run Now" run is                    *)
(* mail        the mails sent for a run                                    *)
(* up          the server process is running                               *)
(***************************************************************************)
EXTENDS Naturals, FiniteSets

CONSTANTS Users,
          Jobs,        \* job ids: AUTOINCREMENT never reuses one
          MaxRuns,     \* bound on the runs started, for model checking
          Crons,       \* 5-field expressions from_crontab accepts
          BadCrons,    \* 5-field expressions it raises on
          NoCron,      \* a job without a schedule
          NoUser,      \* owner of a job id not used yet
          NoJob,       \* job of a run id not used yet
          Faults       \* what may go wrong in this instance

ASSUME JobRunsAssumption ==
    /\ MaxRuns \in Nat
    /\ Crons \cap BadCrons = {}
    /\ NoCron \notin Crons \cup BadCrons
    /\ NoUser \notin Users
    /\ NoJob \notin Jobs
    /\ Faults \subseteq {"hang", "db", "crash"}

VARIABLES jobState, owner, cron, status, entry, astray, account,
          runState, runJob, runFor, kind, pc, stuck, dog, mail, up

jobVars    == <<jobState, owner, cron>>
entryVars  == <<entry, astray>>
workerVars == <<pc, stuck, mail>>
vars == <<jobState, owner, cron, status, entry, astray, account,
          runState, runJob, runFor, kind, pc, stuck, dog, mail, up>>

Runs == 1..MaxRuns

Verdict == {"success", "failed"}

\* Where a thread in _run_job_body can be. "queued" is before its create_run,
\* "lost" is a thread that ended without reaching finish_run.
Alive  == {"queued", "getjob", "fetch", "saveok", "report", "finish",
           "saveerror", "alert", "finisherror"}
WorkerPC == Alive \cup {"none", "done", "lost"}

\* The calls with no timeout of their own: a connector's fetch, a mail server.
Blocking == {"fetch", "report", "alert"}

\* "fired" and "idle" are a watchdog that ended with and without a verdict.
DogPC == {"none", "join", "check", "kill", "saveerror", "fired", "idle"}

\* What APScheduler holds of a job: its trigger, and the user it calls with.
Entry == [user : Users, cron : Crons]

TypeOK ==
    /\ jobState \in [Jobs -> {"unused", "row", "deleted"}]
    /\ owner    \in [Jobs -> Users \cup {NoUser}]
    /\ \A j \in Jobs : jobState[j] # "unused" => owner[j] \in Users
    /\ cron     \in [Jobs -> Crons \cup BadCrons \cup {NoCron}]
    /\ status   \in [Jobs -> {"active", "ok", "error"}]
    /\ entry    \in [Jobs -> Entry \cup {NoCron}]
    /\ astray   \in SUBSET Jobs
    /\ account  \in SUBSET Users
    /\ runState \in [Runs -> {"none", "running", "removed"} \cup Verdict]
    /\ runJob   \in [Runs -> Jobs \cup {NoJob}]
    /\ runFor   \in [Runs -> Users \cup {NoUser}]
    /\ kind     \in [Runs -> {"none", "now", "cron"}]
    /\ pc       \in [Runs -> WorkerPC]
    /\ stuck    \in [Runs -> BOOLEAN]
    /\ dog      \in [Runs -> DogPC]
    /\ mail     \in [Runs -> SUBSET {"report", "alert"}]
    /\ up       \in BOOLEAN

Init ==
    /\ jobState = [j \in Jobs |-> "unused"]
    /\ owner    = [j \in Jobs |-> NoUser]
    /\ cron     = [j \in Jobs |-> NoCron]
    /\ status   = [j \in Jobs |-> "active"]
    /\ entry    = [j \in Jobs |-> NoCron]
    /\ astray   = {}
    /\ account  = {}
    /\ runState = [r \in Runs |-> "none"]
    /\ runJob   = [r \in Runs |-> NoJob]
    /\ runFor   = [r \in Runs |-> NoUser]
    /\ kind     = [r \in Runs |-> "none"]
    /\ pc       = [r \in Runs |-> "none"]
    /\ stuck    = [r \in Runs |-> FALSE]
    /\ dog      = [r \in Runs |-> "none"]
    /\ mail     = [r \in Runs |-> {}]
    /\ up       = TRUE

------------------------------------------------------------------------------
(* The job endpoints. *)

HasRow(j) == jobState[j] = "row"

\* get_job: the row of job j as user u sees it.
Sees(u, j) == HasRow(j) /\ owner[j] = u

\* Mutant: the expression is registered without being parsed.
M_Scheduled(u, c) == IF c = NoCron THEN NoCron ELSE [user |-> u, cron |-> c]

\* schedule_job: the old entry is removed before from_crontab parses the new
\* expression, so an expression it raises on leaves the job without an entry.
Scheduled(u, c) == IF c \in Crons THEN [user |-> u, cron |-> c] ELSE NoCron

\* The jobs astray once user u has changed the entry of job j.
Touched(u, j) ==
    IF HasRow(j) /\ owner[j] # u THEN astray \cup {j} ELSE astray \ {j}

\* Any other request, and one whose first statement fails: ensure_user alone.
Visit(u) ==
    /\ up
    /\ account' = account \cup {u}
    /\ UNCHANGED <<jobVars, status, entryVars, runState, runJob, runFor, kind,
                   workerVars, dog, up>>

\* POST /api/ws/jobs without an id: the row is committed, then schedule_job.
CreateJob(u, j, c) ==
    /\ up
    /\ jobState[j] = "unused"
    /\ jobState' = [jobState EXCEPT ![j] = "row"]
    /\ owner'    = [owner EXCEPT ![j] = u]
    /\ cron'     = [cron EXCEPT ![j] = c]
    /\ entry'    = [entry EXCEPT ![j] = Scheduled(u, c)]
    /\ account'  = account \cup {u}
    /\ UNCHANGED <<status, astray, runState, runJob, runFor, kind,
                   workerVars, dog, up>>

\* Mutant: the expression is parsed before the old entry is removed.
M_UpdateJob(u, j, c) ==
    /\ up
    /\ jobState[j] # "unused"
    /\ cron'    = [cron EXCEPT ![j] = IF Sees(u, j) THEN c ELSE @]
    /\ entry'   = [entry EXCEPT ![j] = IF c \in BadCrons THEN @ ELSE Scheduled(u, c)]
    /\ astray'  = Touched(u, j)
    /\ account' = account \cup {u}
    /\ UNCHANGED <<jobState, owner, status, runState, runJob, runFor, kind,
                   workerVars, dog, up>>

\* POST /api/ws/jobs with an id the server once handed out.  The UPDATE matches
\* no row when the job is another user's, or was deleted meanwhile (another tab,
\* an administrator); the handler goes on to schedule the id all the same.
UpdateJob(u, j, c) ==
    /\ up
    /\ jobState[j] # "unused"
    /\ cron'    = [cron EXCEPT ![j] = IF Sees(u, j) THEN c ELSE @]
    /\ entry'   = [entry EXCEPT ![j] = Scheduled(u, c)]
    /\ astray'  = Touched(u, j)
    /\ account' = account \cup {u}
    /\ UNCHANGED <<jobState, owner, status, runState, runJob, runFor, kind,
                   workerVars, dog, up>>

\* The run rows in S leave ws_run_history.
Removed(S) ==
    [r \in Runs |-> IF r \in S /\ runState[r] # "none" THEN "removed"
                                                      ELSE runState[r]]

\* Unregister, by the id alone.
Unregister(u, j) ==
    /\ up
    /\ jobState[j] # "unused"
    /\ entry'   = [entry EXCEPT ![j] = NoCron]
    /\ account' = account \cup {u}

\* Mutant: the run history of the job is kept.
M_DeleteJob(u, j) ==
    /\ Unregister(u, j)
    /\ jobState' = [jobState EXCEPT ![j] = IF Sees(u, j) THEN "deleted" ELSE @]
    /\ astray'   = Touched(u, j)
    /\ UNCHANGED <<owner, cron, status, runState, runJob, runFor, kind,
                   workerVars, dog, up>>

\* DELETE /api/ws/jobs/{id}: unregister, then one transaction on the runs of the
\* job, whoever they are for, and on the job if it is the caller's.
DeleteJob(u, j) ==
    /\ Unregister(u, j)
    /\ jobState' = [jobState EXCEPT ![j] = IF Sees(u, j) THEN "deleted" ELSE @]
    /\ astray'   = Touched(u, j)
    /\ runState' = Removed({r \in Runs : runJob[r] = j})
    /\ UNCHANGED <<owner, cron, status, runJob, runFor, kind, workerVars, dog, up>>

\* The same when the transaction fails: the entry is gone, the rows are not.
DeleteJobFails(u, j) ==
    /\ "db" \in Faults
    /\ Unregister(u, j)
    /\ astray' = IF HasRow(j) THEN astray \cup {j} ELSE astray
    /\ UNCHANGED <<jobVars, status, runState, runJob, runFor, kind,
                   workerVars, dog, up>>

\* delete_user and purge_user_data delete from one table after the other what has
\* the user's name, pass over a statement that fails and commit once.  The first
\* statement that succeeds holds the write lock, so those after it succeed too:
\* the runs go with the jobs, or alone, or neither goes.  APScheduler is not told.
Tables == {"ws_jobs", "ws_run_history"}
Erased == IF "db" \in Faults THEN {{}, {"ws_run_history"}, Tables} ELSE {Tables}

EraseRowsOf(u) ==
    /\ \E tables \in Erased :
          /\ jobState' = [j \in Jobs |-> IF "ws_jobs" \in tables /\ owner[j] = u
                                         THEN "deleted" ELSE jobState[j]]
          /\ runState' = IF "ws_run_history" \in tables
                         THEN Removed({r \in Runs : runFor[r] = u}) ELSE runState
    /\ UNCHANGED <<owner, cron, status, entryVars, runJob, runFor, kind,
                   workerVars, dog, up>>

PurgeUser(u) ==
    /\ up
    /\ u \in account
    /\ EraseRowsOf(u)
    /\ UNCHANGED account

DeleteUser(u) ==
    /\ up
    /\ u \in account
    /\ account' = account \ {u}
    /\ EraseRowsOf(u)

------------------------------------------------------------------------------
(* Starting runs. *)

Unused(r) == pc[r] = "none" /\ \A q \in 1..(r - 1) : pc[q] # "none"

Queue(r, u, j, k) ==
    /\ Unused(r)
    /\ pc'     = [pc EXCEPT ![r] = "queued"]
    /\ runJob' = [runJob EXCEPT ![r] = j]
    /\ runFor' = [runFor EXCEPT ![r] = u]
    /\ kind'   = [kind EXCEPT ![r] = k]
    /\ UNCHANGED <<jobVars, status, entryVars, runState, stuck, dog, mail, up>>

\* POST /api/ws/jobs/{id}/run: the job is looked up on the event loop, and
\* create_run is left to a thread the handler awaits.
RunNow(r, u, j) ==
    /\ up
    /\ Sees(u, j)
    /\ Queue(r, u, j, "now")
    /\ account' = account \cup {u}

\* APScheduler submits a due entry to its executor.  max_instances is 1, so an
\* entry whose last run has not returned is skipped.
FireCron(r, j) ==
    /\ up
    /\ entry[j] # NoCron
    /\ \A q \in Runs : runJob[q] = j /\ kind[q] = "cron" => pc[q] \notin Alive
    /\ Queue(r, entry[j].user, j, "cron")
    /\ UNCHANGED account

\* create_run.  A "Run Now" then starts the worker and its watchdog.
CreateRun(r) ==
    /\ pc[r] = "queued"
    /\ pc'       = [pc EXCEPT ![r] = "getjob"]
    /\ runState' = [runState EXCEPT ![r] = "running"]
    /\ dog'      = [dog EXCEPT ![r] = IF kind[r] = "now" THEN "join" ELSE "none"]
    /\ UNCHANGED <<jobVars, status, entryVars, account, runJob, runFor, kind,
                   stuck, mail, up>>

------------------------------------------------------------------------------
(* _run_job_body, one step per committed statement or blocking call. *)

\* update_job_status: no effect on a row that is gone.
WithStatus(j, v) == [status EXCEPT ![j] = IF HasRow(j) THEN v ELSE @]

\* Mutant: finish_run inserts the row again when it is gone.
M_Finished(r, v) == [runState EXCEPT ![r] = v]

\* finish_run: an unconditional UPDATE, without effect on a row that is gone.
Finished(r, v) ==
    [runState EXCEPT ![r] = IF @ \in {"none", "removed"} THEN @ ELSE v]

\* A step of run r's thread from one place to one of a set of others.  A call
\* that hung and answers after all is a step like any other.
Go(r, from, to) ==
    /\ pc[r] = from
    /\ \E p \in to : pc' = [pc EXCEPT ![r] = p]
    /\ stuck' = [stuck EXCEPT ![r] = FALSE]
    /\ UNCHANGED <<jobVars, entryVars, account, runJob, runFor, kind, dog, up>>

\* The job is read once; one that is gone, or not the caller's, raises "Job not
\* found.".
GetJob(r) ==
    /\ Go(r, "getjob", IF Sees(runFor[r], runJob[r]) THEN {"fetch"} ELSE {"saveerror"})
    /\ UNCHANGED <<status, runState, mail>>

\* Connectors and the analysis: a result, or an exception.
Fetch(r) ==
    /\ Go(r, "fetch", {"saveok", "saveerror"})
    /\ UNCHANGED <<status, runState, mail>>

\* update_job_status "ok" comes before the SLA is evaluated, which raises on a
\* threshold that is not a number, and before the mail is decided on.
SaveOk(r) ==
    /\ Go(r, "saveok", {"report", "finish", "saveerror"})
    /\ status' = WithStatus(runJob[r], "ok")
    /\ UNCHANGED <<runState, mail>>

\* Mutant: a failure of the mail step is raised instead of recorded.
M_Report(r) ==
    /\ Go(r, "report", {"finish", "saveerror"})
    /\ mail' \in {mail, [mail EXCEPT ![r] = @ \cup {"report"}]}
    /\ UNCHANGED <<status, runState>>

\* The report mail: a failure to send it is recorded, not raised.
Report(r) ==
    /\ Go(r, "report", {"finish"})
    /\ mail' \in {mail, [mail EXCEPT ![r] = @ \cup {"report"}]}
    /\ UNCHANGED <<status, runState>>

FinishSuccess(r) ==
    /\ Go(r, "finish", {"done"})
    /\ runState' = Finished(r, "success")
    /\ UNCHANGED <<status, mail>>

\* Mutant: the exception path does not update the job.
M_SaveError(r) ==
    /\ Go(r, "saveerror", {"alert"})
    /\ UNCHANGED <<status, runState, mail>>

\* The exception path.
SaveError(r) ==
    /\ Go(r, "saveerror", {"alert"})
    /\ status' = WithStatus(runJob[r], "error")
    /\ UNCHANGED <<runState, mail>>

\* The job is read again for its address: no job, no mail.
Alert(r) ==
    /\ Go(r, "alert", {"finisherror"})
    /\ \/ UNCHANGED mail
       \/ /\ Sees(runFor[r], runJob[r])
          /\ mail' = [mail EXCEPT ![r] = @ \cup {"alert"}]
    /\ UNCHANGED <<status, runState>>

\* Mutant: the exception path does not close the run.
M_FinishError(r) ==
    /\ Go(r, "finisherror", {"done"})
    /\ UNCHANGED <<status, runState, mail>>

FinishError(r) ==
    /\ Go(r, "finisherror", {"done"})
    /\ runState' = Finished(r, "failed")
    /\ UNCHANGED <<status, mail>>

Step(r) ==
    \/ CreateRun(r) \/ GetJob(r) \/ Fetch(r) \/ SaveOk(r) \/ Report(r)
    \/ FinishSuccess(r) \/ SaveError(r) \/ Alert(r) \/ FinishError(r)

------------------------------------------------------------------------------
(* The watchdog of a "Run Now" run. *)

Bark(r, from, to) ==
    /\ dog[r] = from
    /\ dog' = [dog EXCEPT ![r] = to]
    /\ UNCHANGED <<jobVars, entryVars, account, runJob, runFor, kind,
                   pc, stuck, mail, up>>

\* Mutant: the watchdog gives up when the time is up.
M_Join(r) ==
    /\ Bark(r, "join", "idle")
    /\ UNCHANGED <<status, runState>>

\* worker.join(timeout) returns: the worker has ended, or the time is up.
Join(r) ==
    /\ Bark(r, "join", IF pc[r] \in Alive THEN "check" ELSE "idle")
    /\ UNCHANGED <<status, runState>>

\* get_run, and the verdict is given on what it returned.
Check(r) ==
    /\ Bark(r, "check", IF runState[r] = "running" THEN "kill" ELSE "idle")
    /\ UNCHANGED <<status, runState>>

Kill(r) ==
    /\ Bark(r, "kill", "saveerror")
    /\ runState' = Finished(r, "failed")
    /\ UNCHANGED status

KillStatus(r) ==
    /\ Bark(r, "saveerror", "fired")
    /\ status' = WithStatus(runJob[r], "error")
    /\ UNCHANGED runState

Watch(r) == Join(r) \/ Check(r) \/ Kill(r) \/ KillStatus(r)

------------------------------------------------------------------------------
(* Faults. *)

\* A connector or a mail server stops answering.  It may answer later, or never.
Hang(r) ==
    /\ "hang" \in Faults
    /\ pc[r] \in Blocking
    /\ pc[r] = "alert" => Sees(runFor[r], runJob[r])
    /\ stuck' = [stuck EXCEPT ![r] = TRUE]
    /\ UNCHANGED <<jobVars, status, entryVars, account, runState, runJob, runFor,
                   kind, pc, dog, mail, up>>

\* A statement of a thread raises ("database is locked").  Inside the try block
\* that leads to the exception path; before it and in the exception path it ends
\* the thread.  (For those of the handlers see Visit, DeleteJobFails, EraseRowsOf
\* and LoadFails.)
DbFault(r) ==
    /\ "db" \in Faults
    /\ \/ /\ pc[r] \in {"getjob", "saveok", "finish"}
          /\ pc' = [pc EXCEPT ![r] = "saveerror"]
          /\ UNCHANGED dog
       \/ /\ pc[r] \in {"queued", "saveerror", "finisherror"}
          /\ pc' = [pc EXCEPT ![r] = "lost"]
          /\ UNCHANGED dog
       \/ /\ dog[r] \in {"check", "kill", "saveerror"}
          /\ dog' = [dog EXCEPT ![r] = IF @ = "saveerror" THEN "fired" ELSE "idle"]
          /\ UNCHANGED pc
    /\ UNCHANGED <<jobVars, status, entryVars, account, runState, runJob, runFor,
                   kind, stuck, mail, up>>

\* The server stops: threads and APScheduler's entries are memory, rows are not.
Crash ==
    /\ "crash" \in Faults
    /\ up
    /\ up'    = FALSE
    /\ entry' = [j \in Jobs |-> NoCron]
    /\ pc'    = [r \in Runs |-> IF pc[r] \in Alive THEN "lost" ELSE pc[r]]
    /\ stuck' = [r \in Runs |-> FALSE]
    /\ dog'   = [r \in Runs |-> IF dog[r] \in {"join", "check", "kill"} THEN "idle"
                               ELSE IF dog[r] = "saveerror" THEN "fired" ELSE dog[r]]
    /\ UNCHANGED <<jobVars, status, astray, account, runState, runJob, runFor,
                   kind, mail>>

\* Startup: load_all_jobs registers what the table says and skips an
\* expression that does not parse.  The run table is not looked at.
Restart ==
    /\ ~up
    /\ up'     = TRUE
    /\ entry'  = [j \in Jobs |-> IF HasRow(j) THEN Scheduled(owner[j], cron[j]) ELSE NoCron]
    /\ astray' = {}
    /\ UNCHANGED <<jobVars, status, account, runState, runJob, runFor, kind,
                   workerVars, dog>>

\* The SELECT of load_all_jobs fails: the server is up without an entry.
LoadFails ==
    /\ "db" \in Faults
    /\ ~up
    /\ up'     = TRUE
    /\ entry'  = [j \in Jobs |-> NoCron]
    /\ astray' = {j \in Jobs : HasRow(j)}
    /\ UNCHANGED <<jobVars, status, account, runState, runJob, runFor, kind,
                   workerVars, dog>>

------------------------------------------------------------------------------

Request(u, j) ==
    \/ \E c \in Crons \cup BadCrons \cup {NoCron} : CreateJob(u, j, c) \/ UpdateJob(u, j, c)
    \/ DeleteJob(u, j)
    \/ DeleteJobFails(u, j)
    \/ \E r \in Runs : RunNow(r, u, j)

Next ==
    \/ \E u \in Users, j \in Jobs : Request(u, j)
    \/ \E u \in Users : Visit(u) \/ PurgeUser(u) \/ DeleteUser(u)
    \/ \E r \in Runs, j \in Jobs : FireCron(r, j)
    \/ \E r \in Runs : Step(r) \/ Watch(r) \/ Hang(r) \/ DbFault(r)
    \/ Crash
    \/ Restart
    \/ LoadFails

Spec == Init /\ [][Next]_vars

\* Threads that are not inside a hung call run; the watchdog's timeout passes.
\* Users, the clock that fires an entry and faults owe nothing.
FairSpec ==
    Spec /\ \A r \in Runs : WF_vars(~stuck[r] /\ Step(r)) /\ WF_vars(Watch(r))

------------------------------------------------------------------------------
(* Properties. *)

\* Threads entrusted with run r that have not ended: its executor once the row
\* exists, and its watchdog until it has written.
Working(r)  == pc[r] \in Alive \ {"queued"}
Watching(r) == dog[r] \in {"join", "check", "kill"}

\* While the server is up APScheduler fires exactly what the job table says, for
\* the job's owner: a job with a valid expression is registered under the latest
\* one, also after a restart, and a job edited to have none, or one from_crontab
\* rejects, is not registered (schedule_job, unregister_job, load_all_jobs).  The
\* jobs left out are those whose entry another user's request, a deletion that
\* failed or a load that failed has touched since their owner last saved them:
\* that nothing else can part row and entry, and that a save or a load mends it,
\* is what this says.
ScheduleFollowsRow ==
    up => \A j \in Jobs :
             HasRow(j) /\ j \notin astray => entry[j] = Scheduled(owner[j], cron[j])

\* A run reported as a success belongs to a job that exists, although jobs are
\* deleted under running threads and threads create runs of deleted jobs
\* (delete_job's transaction, get_job in _run_job_body).
SuccessHasJob ==
    \A r \in Runs : runState[r] = "success" => HasRow(runJob[r])

\* A row that says "running" is one whose thread has not ended, when neither the
\* server nor the database fails: every path through _run_job_body closes it.
RunningIsAttended ==
    \A r \in Runs : runState[r] = "running" => Working(r)

\* The last run of job j that has started.
LastRun(j, r) ==
    /\ runJob[r] = j
    /\ \A q \in Runs : runJob[q] = j => q <= r

\* When a job that only its schedule starts is at rest, the status the job list
\* shows is the verdict of its last run (update_job_status and finish_run are
\* separate commits, and the status is written first).
StatusAgreesWithLastRun ==
    \A j \in Jobs, r \in Runs :
        /\ HasRow(j)
        /\ LastRun(j, r)
        /\ \A q \in Runs : runJob[q] = j => kind[q] = "cron" /\ pc[q] \notin Alive
        /\ runState[r] \in Verdict
        => (status[j] = "ok" <=> runState[r] = "success")

\* The mail a scheduled run has sent tells what the run history says: a report
\* only for a success, a failure alert only for a failure.
MailAgreesWithVerdict ==
    \A r \in Runs :
        kind[r] = "cron" /\ runState[r] \in Verdict =>
            mail[r] \subseteq (IF runState[r] = "success" THEN {"report"} ELSE {"alert"})

\* Every run ends, except a scheduled run inside a call that never returns:
\* the watchdog bounds every "Run Now", whatever its worker does.
EveryRunEnds ==
    \A r \in Runs :
        runState[r] = "running" ~>
            \/ runState[r] # "running"
            \/ kind[r] = "cron" /\ stuck[r]

\* The run history keeps the promise of RunLedger.
LeftToRule(r) == (IF Working(r) THEN 1 ELSE 0) + (IF Watching(r) THEN 1 ELSE 0)

Ledger == INSTANCE RunLedger WITH
              Runs   <- Runs,
              ledger <- runState,
              left   <- [r \in Runs |-> LeftToRule(r)]

ImplementsLedger == Ledger!LedgerSpec

------------------------------------------------------------------------------
(* What the documentation says and the code does not do. *)

\* "a hard ceiling so a hung connector/SMTP call can't leave a run "running"
\* forever" (scheduler.py:218).  _execute_job, the scheduled path, has none.
HungCallIsCutOff ==
    \A r \in Runs : runState[r] = "running" ~> runState[r] # "running"

\* "the user gets a definitive answer" (scheduler.py:236): what a run has been
\* reported as does not change.  The abandoned worker may still finish.
VerdictIsDefinitive ==
    [][\A r \in Runs : runState[r] \in Verdict =>
            runState'[r] \in {runState[r], "removed"}]_vars

\* delete_user removes "a user and everything scoped to them (connections,
\* rulesets, jobs, ...)" (main.py:21615): no run of a user without an account is
\* started.  The cron entry survives until the next restart and keeps firing.
DeletedUserStartsNoRuns ==
    [][\A r \in Runs : pc[r] = "none" /\ pc'[r] = "queued" =>
            runFor'[r] \in account \cup account']_vars
==============================================================================
