---------------------------- MODULE JobRunsProofs ----------------------------
(***************************************************************************)
(* Theorems about JobRuns, for every set of users and jobs, every number   *)
(* of runs and every set of faults.                                        *)
(***************************************************************************)
EXTENDS JobRuns, TLAPS

\* The stages of a run, once: every action of the scheduler is one of these.
USE DEF Runs, Verdict, Alive, WorkerPC, Blocking, DogPC, jobVars, entryVars, workerVars

\* update_job_status keeps the status column typed, whatever id it is given.
LEMMA StatusTyped ==
    ASSUME TypeOK, NEW j, NEW v \in {"ok", "error"}
    PROVE  WithStatus(j, v) \in [Jobs -> {"active", "ok", "error"}]
<1>1. CASE j \in Jobs
  BY <1>1 DEF TypeOK, WithStatus
<1>2. CASE j \notin Jobs
  <2>1. WithStatus(j, v) = status
    BY <1>2 DEF TypeOK, WithStatus
  <2> QED BY <2>1 DEF TypeOK
<1> QED BY <1>1, <1>2

\* schedule_job registers an expression that parses, for the user who sent it.
LEMMA ScheduledTyped ==
    ASSUME NEW u \in Users, NEW c
    PROVE  Scheduled(u, c) \in Entry \cup {NoCron}
BY DEF Scheduled, Entry

\* What delete_user and purge_user_data leave of the tables.
LEMMA Erasure ==
    ASSUME TypeOK, NEW u \in Users, PurgeUser(u) \/ DeleteUser(u)
    PROVE  /\ UNCHANGED <<owner, cron, status, entry, astray, runJob, runFor, kind, pc, stuck,
                          mail, dog, up>>
           /\ jobState' \in [Jobs -> {"unused", "row", "deleted"}]
           /\ \A j \in Jobs : jobState'[j] \in {jobState[j], "deleted"}
           /\ \A j \in Jobs : jobState'[j] # jobState[j] => owner[j] = u
           /\ \E S \in SUBSET Runs :
                 /\ runState' = Removed(S)
                 /\ \A r \in S : runFor[r] = u
                 /\ jobState' # jobState => S = {r \in Runs : runFor[r] = u}
<1>0. EraseRowsOf(u)
  BY DEF PurgeUser, DeleteUser
<1>1. PICK tables \in SUBSET Tables :
          /\ "ws_jobs" \in tables => "ws_run_history" \in tables
          /\ jobState' = [j \in Jobs |-> IF "ws_jobs" \in tables /\ owner[j] = u
                                         THEN "deleted" ELSE jobState[j]]
          /\ runState' = IF "ws_run_history" \in tables
                         THEN Removed({r \in Runs : runFor[r] = u}) ELSE runState
  BY <1>0 DEF EraseRowsOf, Erased, Tables
<1>2. CASE "ws_run_history" \in tables
  <2>1. runState' = Removed({r \in Runs : runFor[r] = u})
    BY <1>1, <1>2
  <2>2. \E S \in SUBSET Runs :
           /\ runState' = Removed(S)
           /\ \A r \in S : runFor[r] = u
           /\ jobState' # jobState => S = {r \in Runs : runFor[r] = u}
    <3> DEFINE S == {r \in Runs : runFor[r] = u}
    <3>1. S \in SUBSET Runs /\ \A r \in S : runFor[r] = u
      OBVIOUS
    <3> QED BY <2>1, <3>1
  <2>3. /\ jobState' \in [Jobs -> {"unused", "row", "deleted"}]
        /\ \A j \in Jobs : jobState'[j] \in {jobState[j], "deleted"}
        /\ \A j \in Jobs : jobState'[j] # jobState[j] => owner[j] = u
    BY <1>1 DEF TypeOK
  <2> QED BY <1>0, <2>2, <2>3 DEF EraseRowsOf
<1>3. CASE "ws_run_history" \notin tables
  <2>1. runState' = Removed({})
    BY <1>1, <1>3 DEF Removed, TypeOK
  <2>2. jobState' = jobState
    BY <1>1, <1>3 DEF TypeOK
  <2>3. \E S \in SUBSET Runs :
           /\ runState' = Removed(S)
           /\ \A r \in S : runFor[r] = u
           /\ jobState' # jobState => S = {r \in Runs : runFor[r] = u}
    <3>1. {} \in SUBSET Runs /\ \A r \in {} : runFor[r] = u
      OBVIOUS
    <3> QED BY <2>1, <2>2, <3>1
  <2>4. jobState' \in [Jobs -> {"unused", "row", "deleted"}]
    BY <2>2 DEF TypeOK
  <2> QED BY <1>0, <2>2, <2>3, <2>4 DEF EraseRowsOf
<1> QED BY <1>2, <1>3

\* Every reachable state is well typed: in particular no action registers an
\* expression that from_crontab rejects.
THEOREM TypeCorrect == Spec => []TypeOK
<1>1. Init => TypeOK
  BY JobRunsAssumption DEF Init, TypeOK
<1>2. TypeOK /\ [Next]_vars => TypeOK'
  <2> SUFFICES ASSUME TypeOK, [Next]_vars PROVE TypeOK'
    OBVIOUS
  <2> USE JobRunsAssumption DEF TypeOK, HasRow, Sees, Removed, Finished
  <2>1. ASSUME NEW u \in Users, NEW j \in Jobs,
               NEW c \in Crons \cup BadCrons \cup {NoCron}, CreateJob(u, j, c)
        PROVE  TypeOK'
    <3>1. Scheduled(u, c) \in Entry \cup {NoCron}
      BY ScheduledTyped
    <3>2. /\ jobState' \in [Jobs -> {"unused", "row", "deleted"}]
          /\ owner' \in [Jobs -> Users \cup {NoUser}]
          /\ \A i \in Jobs : jobState'[i] # "unused" => owner'[i] \in Users
      BY <2>1 DEF CreateJob
    <3> QED BY <2>1, <3>1, <3>2 DEF CreateJob
  <2>2. ASSUME NEW u \in Users, NEW j \in Jobs,
               NEW c \in Crons \cup BadCrons \cup {NoCron}, UpdateJob(u, j, c)
        PROVE  TypeOK'
    BY <2>2, ScheduledTyped DEF UpdateJob, Touched
  <2>3. ASSUME NEW u \in Users, NEW j \in Jobs, DeleteJob(u, j) \/ DeleteJobFails(u, j)
        PROVE  TypeOK'
    <3>1. CASE DeleteJob(u, j)
      <4>1. /\ jobState' \in [Jobs -> {"unused", "row", "deleted"}]
            /\ \A i \in Jobs : jobState'[i] # "unused" => owner[i] \in Users
            /\ entry' \in [Jobs -> Entry \cup {NoCron}]
            /\ account' \in SUBSET Users
        BY <3>1 DEF DeleteJob, Unregister
      <4>2. /\ runState' \in [Runs -> {"none", "running", "removed"} \cup Verdict]
            /\ astray' \in SUBSET Jobs
        BY <3>1 DEF DeleteJob, Unregister, Touched
      <4> QED BY <3>1, <4>1, <4>2 DEF DeleteJob
    <3>2. CASE DeleteJobFails(u, j)
      BY <3>2 DEF DeleteJobFails, Unregister
    <3> QED BY <2>3, <3>1, <3>2
  <2>4. ASSUME NEW u \in Users, NEW j \in Jobs, NEW r \in Runs, RunNow(r, u, j)
        PROVE  TypeOK'
    BY <2>4 DEF RunNow, Queue
  <2>5. ASSUME NEW u \in Users, Visit(u)
        PROVE  TypeOK'
    BY <2>5 DEF Visit
  <2>6. ASSUME NEW u \in Users, PurgeUser(u) \/ DeleteUser(u)
        PROVE  TypeOK'
    <3>1. account' \in SUBSET Users
      BY <2>6 DEF PurgeUser, DeleteUser
    <3>2. runState' \in [Runs -> {"none", "running", "removed"} \cup Verdict]
      BY <2>6, Erasure
    <3> QED BY <2>6, <3>1, <3>2, Erasure
  <2>7. ASSUME NEW r \in Runs, NEW j \in Jobs, FireCron(r, j)
        PROVE  TypeOK'
    <3>1. entry[j].user \in Users
      BY <2>7 DEF FireCron, Entry
    <3> QED BY <2>7, <3>1 DEF FireCron, Queue
  <2>8. ASSUME NEW r \in Runs, Step(r)
        PROVE  TypeOK'
    <3>1. CASE CreateRun(r)     BY <3>1 DEF CreateRun
    <3>2. CASE GetJob(r)        BY <3>2 DEF GetJob, Go
    <3>3. CASE Fetch(r)         BY <3>3 DEF Fetch, Go
    <3>4. CASE SaveOk(r)        BY <3>4, StatusTyped DEF SaveOk, Go
    <3>5. CASE Report(r)        BY <3>5 DEF Report, Go
    <3>6. CASE FinishSuccess(r) BY <3>6 DEF FinishSuccess, Go
    <3>7. CASE SaveError(r)     BY <3>7, StatusTyped DEF SaveError, Go
    <3>8. CASE Alert(r)         BY <3>8 DEF Alert, Go
    <3>9. CASE FinishError(r)   BY <3>9 DEF FinishError, Go
    <3> QED
      BY <2>8, <3>1, <3>2, <3>3, <3>4, <3>5, <3>6, <3>7, <3>8, <3>9 DEF Step
  <2>9. ASSUME NEW r \in Runs, Watch(r)
        PROVE  TypeOK'
    <3>1. CASE Join(r)       BY <3>1 DEF Join, Bark
    <3>2. CASE Check(r)      BY <3>2 DEF Check, Bark
    <3>3. CASE Kill(r)       BY <3>3 DEF Kill, Bark
    <3>4. CASE KillStatus(r) BY <3>4, StatusTyped DEF KillStatus, Bark
    <3> QED BY <2>9, <3>1, <3>2, <3>3, <3>4 DEF Watch
  <2>10. ASSUME NEW r \in Runs, Hang(r)
         PROVE  TypeOK'
    BY <2>10 DEF Hang
  <2>11. ASSUME NEW r \in Runs, DbFault(r)
         PROVE  TypeOK'
    <3>1. pc' \in [Runs -> WorkerPC]
      BY <2>11 DEF DbFault
    <3>2. dog' \in [Runs -> DogPC]
      BY <2>11 DEF DbFault
    <3> QED BY <2>11, <3>1, <3>2 DEF DbFault
  <2>12. CASE Crash
    <3>1. pc' \in [Runs -> WorkerPC]
      BY <2>12 DEF Crash
    <3>2. dog' \in [Runs -> DogPC]
      BY <2>12 DEF Crash
    <3>3. /\ stuck' \in [Runs -> BOOLEAN]
          /\ entry' \in [Jobs -> Entry \cup {NoCron}]
          /\ up' \in BOOLEAN
      BY <2>12 DEF Crash
    <3> QED BY <2>12, <3>1, <3>2, <3>3 DEF Crash
  <2>13. CASE Restart \/ LoadFails
    <3>1. \A j \in Jobs : HasRow(j) => Scheduled(owner[j], cron[j]) \in Entry \cup {NoCron}
      BY ScheduledTyped
    <3>2. entry' \in [Jobs -> Entry \cup {NoCron}] /\ astray' \in SUBSET Jobs
      BY <2>13, <3>1 DEF Restart, LoadFails
    <3>3. /\ up' \in BOOLEAN
          /\ UNCHANGED <<jobVars, status, account, runState, runJob, runFor, kind,
                         workerVars, dog>>
      BY <2>13 DEF Restart, LoadFails
    <3> HIDE DEF HasRow, Entry
    <3> QED BY <3>2, <3>3
  <2>14. CASE UNCHANGED vars
    BY <2>14 DEF vars
  <2> QED
    BY <2>1, <2>2, <2>3, <2>4, <2>5, <2>6, <2>7, <2>8, <2>9, <2>10, <2>11,
       <2>12, <2>13, <2>14 DEF Next, Request
<1> QED
  BY <1>1, <1>2, PTL DEF Spec

------------------------------------------------------------------------------
(* The schedule follows the table. *)

\* While the server is up, APScheduler holds for every job in the table exactly the
\* entry its latest expression and its owner call for, but for the jobs another
\* user's request, a failed deletion or a failed load has touched since they were
\* last saved (schedule_job, unregister_job, load_all_jobs), whatever fails and
\* whoever sends whichever id: the invariant is inductive on well typed states.
THEOREM ScheduleCorrect == Spec => []ScheduleFollowsRow
<1>1. Init => ScheduleFollowsRow
  BY DEF Init, ScheduleFollowsRow, HasRow
<1>2. TypeOK /\ ScheduleFollowsRow /\ [Next]_vars => ScheduleFollowsRow'
  <2> SUFFICES ASSUME TypeOK, ScheduleFollowsRow, [Next]_vars, up',
                      NEW i \in Jobs, jobState'[i] = "row", i \notin astray'
               PROVE  entry'[i] = Scheduled(owner'[i], cron'[i])
    BY DEF ScheduleFollowsRow, HasRow, Scheduled
  <2> DEFINE Matches == entry'[i] = Scheduled(owner'[i], cron'[i])
  <2>0. up /\ jobState[i] = "row" /\ i \notin astray => entry[i] = Scheduled(owner[i], cron[i])
    BY DEF ScheduleFollowsRow, HasRow
  <2>1. ASSUME NEW u \in Users, NEW j \in Jobs,
               NEW c \in Crons \cup BadCrons \cup {NoCron}, CreateJob(u, j, c)
        PROVE  Matches
    BY <2>0, <2>1 DEF CreateJob, TypeOK, Scheduled
  <2>2. ASSUME NEW u \in Users, NEW j \in Jobs,
               NEW c \in Crons \cup BadCrons \cup {NoCron}, UpdateJob(u, j, c)
        PROVE  Matches
    <3>1. CASE i = j
      <4>1. HasRow(j) /\ owner[j] = u
        BY <2>2, <3>1 DEF UpdateJob, Touched, HasRow
      <4>2. entry'[i] = Scheduled(u, c) /\ cron'[i] = c /\ owner'[i] = u
        BY <2>2, <3>1, <4>1 DEF UpdateJob, Sees, TypeOK
      <4> QED BY <4>2
    <3>2. CASE i # j
      <4>1. entry'[i] = entry[i] /\ cron'[i] = cron[i] /\ UNCHANGED <<jobState, owner, up>>
        BY <2>2, <3>2 DEF UpdateJob, TypeOK
      <4>2. i \notin astray
        BY <2>2, <3>2 DEF UpdateJob, Touched
      <4>3. up
        BY <2>2 DEF UpdateJob
      <4> QED BY <2>0, <4>1, <4>2, <4>3 DEF Scheduled
    <3> QED BY <3>1, <3>2
  <2>3. ASSUME NEW u \in Users, NEW j \in Jobs, DeleteJob(u, j) \/ DeleteJobFails(u, j)
        PROVE  Matches
    <3>1. CASE i = j
      <4>1. CASE DeleteJob(u, j)
        BY <3>1, <4>1 DEF DeleteJob, Touched, HasRow, Sees, TypeOK
      <4>2. CASE DeleteJobFails(u, j)
        BY <3>1, <4>2 DEF DeleteJobFails, HasRow
      <4> QED BY <2>3, <4>1, <4>2
    <3>2. CASE i # j
      <4>1. entry'[i] = entry[i] /\ jobState'[i] = jobState[i] /\ UNCHANGED <<cron, owner>> /\ up
        BY <2>3, <3>2 DEF DeleteJob, DeleteJobFails, Unregister, TypeOK
      <4>2. i \notin astray
        BY <2>3, <3>2 DEF DeleteJob, DeleteJobFails, Touched
      <4> QED BY <2>0, <4>1, <4>2 DEF Scheduled
    <3> QED BY <3>1, <3>2
  <2>4. ASSUME NEW u \in Users, PurgeUser(u) \/ DeleteUser(u)
        PROVE  Matches
    <3>1. UNCHANGED <<entry, astray, owner, cron, up>> /\ jobState'[i] \in {jobState[i], "deleted"}
      BY <2>4, Erasure
    <3> QED BY <2>0, <3>1 DEF Scheduled
  <2>5. CASE Crash
    BY <2>5 DEF Crash
  <2>6. CASE Restart \/ LoadFails
    BY <2>6 DEF Restart, LoadFails, HasRow, Scheduled
  <2>7. ASSUME UNCHANGED <<jobVars, entryVars, up>>
        PROVE  Matches
    BY <2>0, <2>7 DEF Scheduled
  <2>8. ASSUME NEW r \in Runs, Step(r) \/ Watch(r) \/ Hang(r) \/ DbFault(r)
        PROVE  UNCHANGED <<jobVars, entryVars, up>>
    BY <2>8 DEF Step, CreateRun, GetJob, Fetch, SaveOk, Report, FinishSuccess,
                SaveError, Alert, FinishError, Go, Watch, Join, Check, Kill,
                KillStatus, Bark, Hang, DbFault
  <2>9. ASSUME NEW u \in Users, NEW j \in Jobs, NEW r \in Runs, RunNow(r, u, j)
        PROVE  UNCHANGED <<jobVars, entryVars, up>>
    BY <2>9 DEF RunNow, Queue
  <2>10. ASSUME NEW j \in Jobs, NEW r \in Runs, FireCron(r, j)
         PROVE  UNCHANGED <<jobVars, entryVars, up>>
    BY <2>10 DEF FireCron, Queue
  <2>11. ASSUME NEW u \in Users, Visit(u)
         PROVE  UNCHANGED <<jobVars, entryVars, up>>
    BY <2>11 DEF Visit
  <2>12. CASE UNCHANGED vars
    BY <2>7, <2>12 DEF vars
  <2> QED
    BY <2>1, <2>2, <2>3, <2>4, <2>5, <2>6, <2>7, <2>8, <2>9, <2>10, <2>11, <2>12
    DEF Next, Request
<1> QED
  BY <1>1, <1>2, TypeCorrect, PTL DEF Spec

------------------------------------------------------------------------------
(* A success belongs to a job that exists. *)

\* What makes it inductive: from the moment get_job has found the job, the run and
\* the job carry the name of one user, and the job's row never leaves alone.
FoundJob(r) ==
    pc[r] \in {"fetch", "saveok", "report", "finish"} =>
        runState[r] = "removed" \/ Sees(runFor[r], runJob[r])

\* A thread runs for a job, and its row exists once create_run has returned.
Entrusted(r) ==
    /\ pc[r] # "none" => runJob[r] \in Jobs
    /\ pc[r] \in {"none", "queued"} => runState[r] = "none" /\ dog[r] = "none"
    /\ pc[r] \in Alive \ {"queued"} => runState[r] # "none"
    /\ Watching(r) => runState[r] # "none"

SuccessInv ==
    \A r \in Runs :
        /\ runState[r] = "success" => Sees(runFor[r], runJob[r])
        /\ FoundJob(r)
        /\ Entrusted(r)

LEMMA SuccessInvariant == Spec => []SuccessInv
<1>1. Init => SuccessInv
  BY DEF Init, SuccessInv, FoundJob, Entrusted, Watching
<1>2. TypeOK /\ SuccessInv /\ [Next]_vars => SuccessInv'
  <2> SUFFICES ASSUME TypeOK, SuccessInv, [Next]_vars, NEW q \in Runs
               PROVE  /\ runState'[q] = "success" => Sees(runFor[q], runJob[q])'
                      /\ FoundJob(q)'
                      /\ Entrusted(q)'
    BY DEF SuccessInv
  <2> DEFINE Good == /\ runState'[q] = "success" => Sees(runFor[q], runJob[q])'
                     /\ FoundJob(q)'
                     /\ Entrusted(q)'
  <2>0. /\ runState[q] = "success" => Sees(runFor[q], runJob[q])
        /\ FoundJob(q)
        /\ Entrusted(q)
    BY DEF SuccessInv
  <2> USE DEF HasRow, Sees, FoundJob, Entrusted, Watching
  <2>1. ASSUME NEW u \in Users, NEW j \in Jobs,
               NEW c \in Crons \cup BadCrons \cup {NoCron},
               CreateJob(u, j, c) \/ UpdateJob(u, j, c)
        PROVE  Good
    <3>1. CASE CreateJob(u, j, c) BY <2>0, <3>1 DEF CreateJob, TypeOK
    <3>2. CASE UpdateJob(u, j, c) BY <2>0, <3>2 DEF UpdateJob, TypeOK
    <3> QED BY <2>1, <3>1, <3>2
  <2>2. ASSUME NEW u \in Users, NEW j \in Jobs, DeleteJob(u, j) \/ DeleteJobFails(u, j)
        PROVE  Good
    <3>1. CASE DeleteJob(u, j)
      BY <2>0, <3>1 DEF DeleteJob, Removed, TypeOK
    <3>2. CASE DeleteJobFails(u, j)
      BY <2>0, <3>2 DEF DeleteJobFails
    <3> QED BY <2>2, <3>1, <3>2
  <2>3. ASSUME NEW u \in Users, PurgeUser(u) \/ DeleteUser(u)
        PROVE  Good
    <3>1. UNCHANGED <<owner, runJob, runFor, pc, dog>>
      BY <2>3, Erasure
    <3>2. PICK S \in SUBSET Runs :
              /\ runState' = Removed(S)
              /\ jobState' # jobState => S = {r \in Runs : runFor[r] = u}
      BY <2>3, Erasure
    <3>3. runState'[q] = IF q \in S /\ runState[q] # "none" THEN "removed" ELSE runState[q]
      BY <3>2 DEF Removed
    <3>4. CASE jobState' = jobState
      BY <2>0, <3>1, <3>3, <3>4
    <3>5. CASE jobState' # jobState
      <4>1. CASE runFor[q] = u
        BY <2>0, <3>1, <3>2, <3>3, <3>5, <4>1
      <4>2. ASSUME runFor[q] # u, Sees(runFor[q], runJob[q]), runJob[q] \in Jobs
            PROVE  Sees(runFor[q], runJob[q])'
        BY <2>3, <3>1, <4>2, Erasure
      <4>3. CASE runFor[q] # u
        <5>1. runState'[q] = runState[q]
          BY <3>2, <3>3, <3>5, <4>3
        <5>2. pc[q] = "none" => runState[q] = "none"
          BY <2>0
        <5> QED BY <2>0, <3>1, <4>2, <4>3, <5>1, <5>2
      <4> QED BY <4>1, <4>3
    <3> QED BY <3>4, <3>5
  <2>4. ASSUME NEW u \in Users, NEW j \in Jobs, NEW r \in Runs, RunNow(r, u, j)
        PROVE  Good
    BY <2>0, <2>4 DEF RunNow, Queue, Unused, TypeOK
  <2>5. ASSUME NEW j \in Jobs, NEW r \in Runs, FireCron(r, j)
        PROVE  Good
    BY <2>0, <2>5 DEF FireCron, Queue, Unused, TypeOK
  <2>6. ASSUME NEW r \in Runs, Step(r)
        PROVE  Good
    <3>1. CASE CreateRun(r)     BY <2>0, <3>1 DEF CreateRun, TypeOK
    <3>2. CASE GetJob(r)        BY <2>0, <3>2 DEF GetJob, Go, Sees, TypeOK
    <3>3. CASE Fetch(r)         BY <2>0, <3>3 DEF Fetch, Go, TypeOK
    <3>4. CASE SaveOk(r)        BY <2>0, <3>4 DEF SaveOk, Go, TypeOK
    <3>5. CASE Report(r)        BY <2>0, <3>5 DEF Report, Go, TypeOK
    <3>6. CASE FinishSuccess(r) BY <2>0, <3>6 DEF FinishSuccess, Go, Finished, TypeOK
    <3>7. CASE SaveError(r)     BY <2>0, <3>7 DEF SaveError, Go, TypeOK
    <3>8. CASE Alert(r)         BY <2>0, <3>8 DEF Alert, Go, TypeOK
    <3>9. CASE FinishError(r)   BY <2>0, <3>9 DEF FinishError, Go, Finished, TypeOK
    <3> QED
      BY <2>6, <3>1, <3>2, <3>3, <3>4, <3>5, <3>6, <3>7, <3>8, <3>9 DEF Step
  <2>7. ASSUME NEW r \in Runs, Watch(r)
        PROVE  Good
    <3>1. CASE Join(r)       BY <2>0, <3>1 DEF Join, Bark, TypeOK
    <3>2. CASE Check(r)      BY <2>0, <3>2 DEF Check, Bark, TypeOK
    <3>3. CASE Kill(r)       BY <2>0, <3>3 DEF Kill, Bark, Finished, TypeOK
    <3>4. CASE KillStatus(r) BY <2>0, <3>4 DEF KillStatus, Bark, TypeOK
    <3> QED BY <2>7, <3>1, <3>2, <3>3, <3>4 DEF Watch
  <2>8. ASSUME NEW r \in Runs, Hang(r) \/ DbFault(r)
        PROVE  Good
    <3>1. CASE Hang(r)    BY <2>0, <3>1 DEF Hang, TypeOK
    <3>2. CASE DbFault(r)
      <4>1. UNCHANGED <<jobState, runState, runJob>>
        BY <3>2 DEF DbFault
      <4>1a. UNCHANGED <<owner, runFor>>
        BY <3>2 DEF DbFault
      <4>2. CASE pc'[q] = pc[q]
        <5>1. dog'[q] \in {"join", "check", "kill"} => dog[q] \in {"join", "check", "kill"}
          BY ZenonT(60), <3>2 DEF DbFault, TypeOK
        <5>2. dog[q] = "none" => dog'[q] = "none"
          BY <3>2 DEF DbFault, TypeOK
        <5> QED BY <2>0, <4>1, <4>1a, <4>2, <5>1, <5>2
      <4>3. CASE pc'[q] # pc[q]
        <5>1. /\ pc'[q] \in {"saveerror", "lost"}
              /\ pc[q] \in Alive
              /\ pc[q] = "queued" => pc'[q] = "lost"
              /\ dog' = dog
          BY ZenonT(60), <3>2, <4>3 DEF DbFault, TypeOK
        <5> QED BY <2>0, <4>1, <4>1a, <5>1
      <4> QED BY <4>2, <4>3
    <3> QED BY <2>8, <3>1, <3>2
  <2>9. CASE Crash
    BY <2>0, <2>9 DEF Crash, TypeOK
  <2>10. CASE Restart \/ LoadFails \/ UNCHANGED vars
    BY <2>0, <2>10 DEF Restart, LoadFails, vars, TypeOK
  <2>11. ASSUME NEW u \in Users, Visit(u)
         PROVE  Good
    BY <2>0, <2>11 DEF Visit
  <2> QED
    BY <2>1, <2>2, <2>3, <2>4, <2>5, <2>6, <2>7, <2>8, <2>9, <2>10, <2>11 DEF Next, Request
<1> QED
  BY <1>1, <1>2, TypeCorrect, PTL DEF Spec

\* The run history never reports a success of a job that is not there (delete_job
\* and delete_user take the rows of both in one transaction, or those of the runs
\* alone; a run created after that finds no job and fails).
THEOREM SuccessCorrect == Spec => []SuccessHasJob
<1>1. SuccessInv => SuccessHasJob
  BY DEF SuccessInv, SuccessHasJob, Sees
<1> QED
  BY <1>1, SuccessInvariant, PTL

------------------------------------------------------------------------------
(* Every path through _run_job_body closes the run. *)

\* Without database errors and restarts, a run that is reported as running has a
\* thread in _run_job_body: no return of that function leaves the row open.
THEOREM AttendedCorrect ==
    ASSUME "db" \notin Faults, "crash" \notin Faults
    PROVE  Spec => []RunningIsAttended
<1>1. Init => RunningIsAttended
  BY DEF Init, RunningIsAttended
<1>2. TypeOK /\ RunningIsAttended /\ [Next]_vars => RunningIsAttended'
  <2> SUFFICES ASSUME TypeOK, RunningIsAttended, [Next]_vars,
                      NEW q \in Runs, runState'[q] = "running"
               PROVE  Working(q)'
    BY DEF RunningIsAttended
  <2>0. runState[q] = "running" => Working(q)
    BY DEF RunningIsAttended
  <2> USE DEF Working
  <2>1. ASSUME NEW u \in Users, NEW j \in Jobs,
               NEW c \in Crons \cup BadCrons \cup {NoCron},
               CreateJob(u, j, c) \/ UpdateJob(u, j, c)
        PROVE  Working(q)'
    BY <2>0, <2>1 DEF CreateJob, UpdateJob
  <2>2. ASSUME NEW S \in SUBSET Runs, runState' = Removed(S), UNCHANGED pc
        PROVE  Working(q)'
    BY <2>0, <2>2 DEF Removed, TypeOK
  <2>3. ASSUME NEW u \in Users, NEW j \in Jobs, DeleteJob(u, j)
        PROVE  Working(q)'
    BY <2>2, <2>3 DEF DeleteJob
  <2>4. ASSUME NEW u \in Users, PurgeUser(u) \/ DeleteUser(u)
        PROVE  Working(q)'
    <3>1. UNCHANGED pc /\ \E S \in SUBSET Runs : runState' = Removed(S)
      BY <2>4, Erasure
    <3> QED BY <2>2, <3>1
  <2>5. ASSUME NEW u \in Users, NEW j \in Jobs, NEW r \in Runs, RunNow(r, u, j)
        PROVE  Working(q)'
    BY <2>0, <2>5 DEF RunNow, Queue, Unused, TypeOK
  <2>6. ASSUME NEW j \in Jobs, NEW r \in Runs, FireCron(r, j)
        PROVE  Working(q)'
    BY <2>0, <2>6 DEF FireCron, Queue, Unused, TypeOK
  <2>7. ASSUME NEW r \in Runs, Step(r)
        PROVE  Working(q)'
    <3>1. CASE CreateRun(r)     BY <2>0, <3>1 DEF CreateRun, TypeOK
    <3>2. CASE GetJob(r)        BY <2>0, <3>2 DEF GetJob, Go, Sees, TypeOK
    <3>3. CASE Fetch(r)         BY <2>0, <3>3 DEF Fetch, Go, TypeOK
    <3>4. CASE SaveOk(r)        BY <2>0, <3>4 DEF SaveOk, Go, TypeOK
    <3>5. CASE Report(r)        BY <2>0, <3>5 DEF Report, Go, TypeOK
    <3>6. CASE FinishSuccess(r) BY <2>0, <3>6 DEF FinishSuccess, Go, Finished, TypeOK
    <3>7. CASE SaveError(r)     BY <2>0, <3>7 DEF SaveError, Go, TypeOK
    <3>8. CASE Alert(r)         BY <2>0, <3>8 DEF Alert, Go, TypeOK
    <3>9. CASE FinishError(r)   BY <2>0, <3>9 DEF FinishError, Go, Finished, TypeOK
    <3> QED
      BY <2>7, <3>1, <3>2, <3>3, <3>4, <3>5, <3>6, <3>7, <3>8, <3>9 DEF Step
  <2>8. ASSUME NEW r \in Runs, Watch(r)
        PROVE  Working(q)'
    BY ZenonT(60), <2>0, <2>8 DEF Watch, Join, Check, Kill, KillStatus, Bark, Finished, TypeOK
  <2>9. ASSUME NEW r \in Runs, Hang(r)
        PROVE  Working(q)'
    BY <2>0, <2>9 DEF Hang
  <2>10. CASE Restart \/ UNCHANGED vars
    BY <2>0, <2>10 DEF Restart, vars
  <2>11. ASSUME NEW u \in Users, Visit(u)
         PROVE  Working(q)'
    BY <2>0, <2>11 DEF Visit
  <2> QED
    BY <2>1, <2>3, <2>4, <2>5, <2>6, <2>7, <2>8, <2>9, <2>10, <2>11
    DEF Next, Request, DbFault, Crash, DeleteJobFails, LoadFails
<1> QED
  BY <1>1, <1>2, TypeCorrect, PTL DEF Spec

------------------------------------------------------------------------------
(* JobRuns implements RunLedger. *)

\* The value of the abstract variable left.
Left == [r \in Runs |-> LeftToRule(r)]

LEMMA LeftTyped == Left \in [Runs -> 0..2] /\ \A r \in Runs : Left[r] = LeftToRule(r)
BY DEF Left, LeftToRule

\* A step that closes nothing and starts nothing is a step of RunLedger that
\* abandons the threads it ends.
LEMMA AbandonStep ==
    ASSUME UNCHANGED runState, \A q \in Runs : LeftToRule(q)' <= LeftToRule(q)
    PROVE  Ledger!Abandon
<1>1. Left' \in [Runs -> 0..2] /\ \A q \in Runs : Left'[q] <= Left[q]
  BY DEF Left, LeftToRule
<1> QED
  BY <1>1 DEF Ledger!Abandon, Left

LEMMA CloseStep ==
    ASSUME TypeOK, NEW r \in Runs, NEW v \in Verdict,
           runState' = Finished(r, v), runState[r] # "none",
           LeftToRule(r) > 0, LeftToRule(r)' = LeftToRule(r) - 1,
           \A q \in Runs \ {r} : LeftToRule(q)' = LeftToRule(q)
    PROVE  Ledger!Close(r)
<1>1. Left[r] > 0
  BY DEF Left
<1>2. Left' = [Left EXCEPT ![r] = @ - 1]
  BY DEF Left
<1>3. runState' = [runState EXCEPT ![r] = IF @ = "removed" THEN @ ELSE v]
  BY DEF Finished, TypeOK
<1> QED
  BY <1>1, <1>2, <1>3 DEF Ledger!Close, Ledger!Verdict, Left

LEMMA OpenStep ==
    ASSUME TypeOK, NEW r \in Runs, Entrusted(r), CreateRun(r)
    PROVE  Ledger!Open(r)
<1>1. runState[r] = "none"
  BY DEF CreateRun, Entrusted
<1>2. runState' = [runState EXCEPT ![r] = "running"]
  BY DEF CreateRun
<1>3. LeftToRule(r)' \in {1, 2}
  BY DEF CreateRun, LeftToRule, Working, Watching, TypeOK
<1>4. \A q \in Runs \ {r} : LeftToRule(q)' = LeftToRule(q)
  BY DEF CreateRun, LeftToRule, Working, Watching, TypeOK
<1>5. Left' = [Left EXCEPT ![r] = LeftToRule(r)']
  BY <1>4 DEF Left
<1> QED
  BY <1>1, <1>2, <1>3, <1>5 DEF Ledger!Open, Left

LEMMA RemoveStep ==
    ASSUME TypeOK, NEW S \in SUBSET Runs, runState' = Removed(S), UNCHANGED <<pc, dog>>
    PROVE  Ledger!Remove
<1> DEFINE gone == {r \in S : runState[r] # "none"}
<1>1. gone \in SUBSET {r \in Runs : runState[r] # "none"}
  OBVIOUS
<1>2. runState' = [r \in Runs |-> IF r \in gone THEN "removed" ELSE runState[r]]
  BY DEF Removed
<1>3. Left' = Left
  BY DEF Left, LeftToRule, Working, Watching
<1> QED
  BY <1>1, <1>2, <1>3 DEF Ledger!Remove, Left

\* The run history is a RunLedger: a run opens once, each thread entrusted with
\* it rules at most once, and with none left the verdict stands, whatever is
\* deleted, whatever fails and whenever the server restarts.
THEOREM LedgerCorrect == Spec => ImplementsLedger
<1>1. Init => Ledger!LedgerInit
  BY DEF Init, Ledger!LedgerInit, LeftToRule, Working, Watching
<1>2. TypeOK /\ SuccessInv /\ [Next]_vars => [Ledger!LedgerNext]_(Ledger!ledgerVars)
  <2> SUFFICES ASSUME TypeOK, SuccessInv, [Next]_vars
               PROVE  Ledger!LedgerNext \/ UNCHANGED <<runState, Left>>
    BY DEF Ledger!ledgerVars, Left
  <2> DEFINE Promised == Ledger!LedgerNext
  <2>0. \A q \in Runs : Entrusted(q)
    BY DEF SuccessInv
  <2>1. ASSUME UNCHANGED runState,
               \A q \in Runs : LeftToRule(q)' <= LeftToRule(q)
        PROVE  Promised
    BY <2>1, AbandonStep DEF Ledger!LedgerNext
  <2>2. ASSUME UNCHANGED <<runState, pc, dog>>
        PROVE  Promised
    <3>1. \A q \in Runs : LeftToRule(q)' <= LeftToRule(q)
      BY <2>2 DEF LeftToRule, Working, Watching
    <3> QED BY <2>1, <2>2, <3>1
  <2>3. ASSUME NEW S \in SUBSET Runs, runState' = Removed(S), UNCHANGED <<pc, dog>>
        PROVE  Promised
    BY <2>3, RemoveStep DEF Ledger!LedgerNext
  <2>4. ASSUME NEW u \in Users, NEW j \in Jobs,
               NEW c \in Crons \cup BadCrons \cup {NoCron},
               CreateJob(u, j, c) \/ UpdateJob(u, j, c)
        PROVE  Promised
    BY <2>2, <2>4 DEF CreateJob, UpdateJob
  <2>5. ASSUME NEW u \in Users, NEW j \in Jobs, DeleteJob(u, j)
        PROVE  Promised
    BY <2>3, <2>5 DEF DeleteJob
  <2>6. ASSUME NEW u \in Users, PurgeUser(u) \/ DeleteUser(u)
        PROVE  Promised
    <3>1. UNCHANGED <<pc, dog>> /\ \E S \in SUBSET Runs : runState' = Removed(S)
      BY <2>6, Erasure
    <3> QED BY <2>3, <3>1
  <2>7. ASSUME NEW u, NEW j \in Jobs, NEW r \in Runs, NEW k \in {"now", "cron"},
               Queue(r, u, j, k)
        PROVE  Promised
    <3>1. \A q \in Runs : LeftToRule(q)' <= LeftToRule(q)
      BY <2>7 DEF Queue, Unused, LeftToRule, Working, Watching, TypeOK
    <3> QED BY <2>1, <2>7, <3>1 DEF Queue
  <2>8. ASSUME NEW r \in Runs, NEW from \in Alive \ {"queued"},
               NEW to \in SUBSET (Alive \ {"queued"}), Go(r, from, to),
               UNCHANGED runState
        PROVE  Promised
    <3>1. \A q \in Runs : LeftToRule(q)' <= LeftToRule(q)
      BY <2>8 DEF Go, LeftToRule, Working, Watching, TypeOK
    <3> QED BY <2>1, <2>8, <3>1
  <2>9. ASSUME NEW r \in Runs, NEW v \in Verdict, NEW from \in Alive \ {"queued"},
               Go(r, from, {"done"}), runState' = Finished(r, v)
        PROVE  Promised
    <3>1. runState[r] # "none"
      BY <2>0, <2>9 DEF Go, Entrusted
    <3>2. LeftToRule(r) > 0 /\ LeftToRule(r)' = LeftToRule(r) - 1
      BY <2>9 DEF Go, LeftToRule, Working, Watching, TypeOK
    <3>3. \A q \in Runs \ {r} : LeftToRule(q)' = LeftToRule(q)
      BY <2>9 DEF Go, LeftToRule, Working, Watching, TypeOK
    <3> QED BY <2>9, <3>1, <3>2, <3>3, CloseStep DEF Ledger!LedgerNext
  <2>10. ASSUME NEW r \in Runs, Step(r)
         PROVE  Promised
    <3>1. CASE CreateRun(r)     BY <2>0, <3>1, OpenStep DEF Ledger!LedgerNext
    <3>2. CASE GetJob(r)        BY <2>8, <3>2 DEF GetJob
    <3>3. CASE Fetch(r)         BY <2>8, <3>3 DEF Fetch
    <3>4. CASE SaveOk(r)        BY <2>8, <3>4 DEF SaveOk
    <3>5. CASE Report(r)        BY <2>8, <3>5 DEF Report
    <3>6. CASE FinishSuccess(r) BY <2>9, <3>6 DEF FinishSuccess
    <3>7. CASE SaveError(r)     BY <2>8, <3>7 DEF SaveError
    <3>8. CASE Alert(r)         BY <2>8, <3>8 DEF Alert
    <3>9. CASE FinishError(r)   BY <2>9, <3>9 DEF FinishError
    <3> QED
      BY <2>10, <3>1, <3>2, <3>3, <3>4, <3>5, <3>6, <3>7, <3>8, <3>9 DEF Step
  <2>11. ASSUME NEW r \in Runs, Join(r) \/ Check(r) \/ KillStatus(r)
         PROVE  Promised
    <3>1. PICK from \in {"join", "check", "saveerror"}, to \in DogPC :
              /\ Bark(r, from, to)
              /\ to \in {"check", "kill"} => from \in {"join", "check"}
              /\ to \in {"check", "kill", "idle", "fired"}
      BY <2>11 DEF Join, Check, KillStatus
    <3>2. \A q \in Runs : /\ Working(q)' => Working(q)
                          /\ Watching(q)' => Watching(q)
      BY <3>1 DEF Bark, Working, Watching, TypeOK
    <3>3. \A q \in Runs : LeftToRule(q)' <= LeftToRule(q)
      BY <3>2 DEF LeftToRule
    <3> QED BY <2>1, <2>11, <3>3 DEF Join, Check, KillStatus
  <2>12. ASSUME NEW r \in Runs, Kill(r)
         PROVE  Promised
    <3>1. runState[r] # "none"
      BY <2>0, <2>12 DEF Kill, Bark, Entrusted, Watching
    <3>2. LeftToRule(r) > 0 /\ LeftToRule(r)' = LeftToRule(r) - 1
      BY <2>12 DEF Kill, Bark, LeftToRule, Working, Watching, TypeOK
    <3>3. \A q \in Runs \ {r} : LeftToRule(q)' = LeftToRule(q)
      BY <2>12 DEF Kill, Bark, LeftToRule, Working, Watching, TypeOK
    <3> QED BY <2>12, <3>1, <3>2, <3>3, CloseStep DEF Kill, Ledger!LedgerNext
  <2>13. ASSUME NEW r \in Runs, DbFault(r)
         PROVE  Promised
    <3>1. \A q \in Runs : /\ Working(q)' => Working(q)
                          /\ Watching(q)' => Watching(q)
      <4> TAKE q \in Runs
      <4>1. Working(q)' => Working(q)
        BY ZenonT(60), <2>13 DEF DbFault, Working, TypeOK
      <4>2. Watching(q)' => Watching(q)
        BY ZenonT(60), <2>13 DEF DbFault, Watching, TypeOK
      <4> QED BY <4>1, <4>2
    <3>2. \A q \in Runs : LeftToRule(q)' <= LeftToRule(q)
      BY <3>1 DEF LeftToRule
    <3> QED BY <2>1, <2>13, <3>2 DEF DbFault
  <2>14. CASE Crash
    <3>1. \A q \in Runs : ~Working(q)' /\ ~Watching(q)'
      BY <2>14 DEF Crash, Working, Watching, TypeOK
    <3>2. \A q \in Runs : LeftToRule(q)' <= LeftToRule(q)
      BY <3>1 DEF LeftToRule
    <3> QED BY <2>1, <2>14, <3>2 DEF Crash
  <2>15. ASSUME NEW r \in Runs, Hang(r)
         PROVE  Promised
    BY <2>2, <2>15 DEF Hang
  <2>16. CASE Restart \/ LoadFails \/ UNCHANGED vars
    BY <2>2, <2>16 DEF Restart, LoadFails, vars
  <2>17. ASSUME NEW u \in Users, Visit(u) \/ (\E j \in Jobs : DeleteJobFails(u, j))
         PROVE  Promised
    BY <2>2, <2>17 DEF Visit, DeleteJobFails
  <2> QED
    BY <2>4, <2>5, <2>6, <2>7, <2>10, <2>11, <2>12, <2>13, <2>14, <2>15, <2>16, <2>17
    DEF Next, Request, Watch, RunNow, FireCron
<1> QED
  BY <1>1, <1>2, TypeCorrect, SuccessInvariant, PTL
  DEF Spec, ImplementsLedger, Ledger!LedgerSpec

------------------------------------------------------------------------------
(* The status of a job that only its schedule starts. *)

\* Runs are numbered in the order they are queued, each for a job that was created;
\* what has an owner or a cron entry was created too.
Numbered ==
    /\ \A r \in Runs : pc[r] = "none" => runJob[r] = NoJob
    /\ \A p, q \in Runs : p < q /\ pc[q] # "none" => pc[p] # "none"
    /\ \A j \in Jobs : jobState[j] = "unused" =>
          /\ owner[j] = NoUser
          /\ entry[j] = NoCron
          /\ \A r \in Runs : runJob[r] # j

\* A scheduled run has no watchdog, and while it is under way none is queued after it
\* (max_instances).
OneAtATime ==
    \A p, q \in Runs :
        kind[p] = "cron" =>
            /\ dog[p] = "none"
            /\ pc[p] \in Alive /\ kind[q] = "cron" /\ runJob[q] = runJob[p] => q <= p

\* What the last run has written so far.
StatusSoFar ==
    \A j \in Jobs, r \in Runs :
        HasRow(j) /\ LastRun(j, r) /\ (\A q \in Runs : runJob[q] = j => kind[q] = "cron") =>
            /\ pc[r] \in {"report", "finish"} => status[j] = "ok"
            /\ pc[r] \in {"alert", "finisherror"} => status[j] = "error"
            /\ runState[r] \in Verdict =>
                  /\ pc[r] = "done"
                  /\ status[j] = (IF runState[r] = "success" THEN "ok" ELSE "error")

StatusInv == Numbered /\ OneAtATime /\ StatusSoFar

LEMMA NumberedStep ==
    ASSUME TypeOK, Numbered, [Next]_vars
    PROVE  Numbered'
<1> USE JobRunsAssumption DEF TypeOK, Numbered
<1>1. ASSUME NEW u \in Users, NEW j \in Jobs,
             NEW c \in Crons \cup BadCrons \cup {NoCron}, CreateJob(u, j, c)
      PROVE  Numbered'
  BY <1>1 DEF CreateJob
<1>2. ASSUME NEW u \in Users, NEW j \in Jobs,
             NEW c \in Crons \cup BadCrons \cup {NoCron}, UpdateJob(u, j, c)
      PROVE  Numbered'
  BY <1>2 DEF UpdateJob
<1>3. ASSUME NEW u \in Users, NEW j \in Jobs, DeleteJob(u, j) \/ DeleteJobFails(u, j)
      PROVE  Numbered'
  BY <1>3 DEF DeleteJob, DeleteJobFails, Unregister, Sees, HasRow
<1>4. ASSUME NEW u \in Users, PurgeUser(u) \/ DeleteUser(u)
      PROVE  Numbered'
  <2>1. UNCHANGED <<owner, entry, runJob, pc>>
    BY <1>4, Erasure
  <2>2. \A j \in Jobs : jobState'[j] \in {jobState[j], "deleted"}
    BY <1>4, Erasure
  <2> QED BY <2>1, <2>2
<1>5. ASSUME NEW u, NEW r \in Runs, NEW j \in Jobs, NEW k, Queue(r, u, j, k),
             jobState[j] # "unused"
      PROVE  Numbered'
  <2>1. pc' = [pc EXCEPT ![r] = "queued"] /\ runJob' = [runJob EXCEPT ![r] = j]
    BY <1>5 DEF Queue
  <2>2. \A p \in Runs : p < r => pc[p] # "none"
    BY <1>5 DEF Queue, Unused
  <2>3. \A q \in Runs : pc'[q] = "none" => runJob'[q] = NoJob
    BY <2>1
  <2>4. \A p, q \in Runs : p < q /\ pc'[q] # "none" => pc'[p] # "none"
    BY <2>1, <2>2
  <2>5. \A i \in Jobs : jobState[i] = "unused" => \A q \in Runs : runJob'[q] # i
    BY <1>5, <2>1
  <2> QED BY <1>5, <2>3, <2>4, <2>5 DEF Queue
<1>6. ASSUME NEW u \in Users, NEW r \in Runs, NEW j \in Jobs, RunNow(r, u, j)
      PROVE  Numbered'
  BY <1>5, <1>6 DEF RunNow, Sees, HasRow
<1>7. ASSUME NEW r \in Runs, NEW j \in Jobs, FireCron(r, j)
      PROVE  Numbered'
  BY <1>5, <1>7 DEF FireCron
<1>8. ASSUME UNCHANGED <<jobState, owner, entry, runJob>>,
             \A p \in Runs : pc'[p] = "none" <=> pc[p] = "none"
      PROVE  Numbered'
  BY <1>8
<1>9. ASSUME NEW r \in Runs, Step(r)
      PROVE  Numbered'
  <2>1. /\ UNCHANGED <<jobState, owner, entry, runJob>>
        /\ pc[r] # "none"
        /\ \E p \in Alive \cup {"done"} : pc' = [pc EXCEPT ![r] = p]
    <3>1. CASE CreateRun(r) BY <3>1 DEF CreateRun
    <3>2. CASE GetJob(r) \/ Fetch(r) \/ SaveOk(r)
      BY <3>2 DEF GetJob, Fetch, SaveOk, Go
    <3>3. CASE Report(r) \/ FinishSuccess(r) \/ SaveError(r) \/ Alert(r) \/ FinishError(r)
      BY <3>3 DEF Report, FinishSuccess, SaveError, Alert, FinishError, Go
    <3> QED BY <1>9, <3>1, <3>2, <3>3 DEF Step
  <2> QED BY <1>8, <2>1
<1>10. ASSUME NEW r \in Runs, Watch(r) \/ Hang(r)
       PROVE  Numbered'
  BY <1>8, <1>10 DEF Watch, Join, Check, Kill, KillStatus, Bark, Hang
<1>11. ASSUME NEW r \in Runs, DbFault(r)
       PROVE  Numbered'
  <2>1. \A p \in Runs : pc'[p] = "none" <=> pc[p] = "none"
    BY <1>11 DEF DbFault
  <2> QED BY <1>8, <1>11, <2>1 DEF DbFault
<1>12. CASE Crash
  BY <1>12 DEF Crash
<1>13. CASE Restart \/ LoadFails
  BY <1>13 DEF Restart, LoadFails, HasRow
<1>14. CASE UNCHANGED vars \/ (\E u \in Users : Visit(u))
  BY <1>8, <1>14 DEF vars, Visit
<1> QED
  BY <1>1, <1>2, <1>3, <1>4, <1>6, <1>7, <1>9, <1>10, <1>11, <1>12, <1>13, <1>14
  DEF Next, Request

LEMMA OneAtATimeStep ==
    ASSUME TypeOK, SuccessInv, Numbered, OneAtATime, [Next]_vars
    PROVE  OneAtATime'
<1> USE DEF TypeOK, OneAtATime
<1>1. ASSUME UNCHANGED <<kind, runJob>>,
             \A p \in Runs : pc'[p] \in Alive => pc[p] \in Alive,
             \A p \in Runs : dog[p] = "none" => kind[p] # "cron" \/ dog'[p] = "none"
      PROVE  OneAtATime'
  BY <1>1
<1>2. ASSUME NEW u \in Users, NEW j \in Jobs, Request(u, j),
             ~(\E r \in Runs : RunNow(r, u, j))
      PROVE  OneAtATime'
  BY <1>1, <1>2 DEF Request, CreateJob, UpdateJob, DeleteJob, DeleteJobFails
<1>3. ASSUME NEW u \in Users, PurgeUser(u) \/ DeleteUser(u) \/ Visit(u)
      PROVE  OneAtATime'
  <2>1. UNCHANGED <<kind, runJob, pc, dog>>
    BY <1>3, Erasure DEF Visit
  <2> QED BY <1>1, <2>1
<1>4. ASSUME NEW u, NEW r \in Runs, NEW j \in Jobs, NEW k \in {"now", "cron"}, Queue(r, u, j, k),
             k = "cron" => \A q \in Runs : runJob[q] = j /\ kind[q] = "cron" => pc[q] \notin Alive
      PROVE  OneAtATime'
  <2>1. /\ pc' = [pc EXCEPT ![r] = "queued"]
        /\ runJob' = [runJob EXCEPT ![r] = j]
        /\ kind' = [kind EXCEPT ![r] = k]
        /\ dog' = dog
    BY <1>4 DEF Queue
  <2>2. dog[r] = "none"
    BY <1>4 DEF Queue, Unused, SuccessInv, Entrusted
  <2> SUFFICES ASSUME NEW p \in Runs, NEW q \in Runs, kind'[p] = "cron"
               PROVE  /\ dog'[p] = "none"
                      /\ pc'[p] \in Alive /\ kind'[q] = "cron" /\ runJob'[q] = runJob'[p] => q <= p
    OBVIOUS
  <2>3. CASE p = r /\ q = r
    BY <2>1, <2>2, <2>3
  <2>4. CASE p = r /\ q # r
    <3>1. pc[q] = "none" \/ q <= r
      <4>1. \A i \in Runs : r < i => pc[i] = "none"
        BY <1>4 DEF Queue, Unused, Numbered
      <4> QED BY <4>1
    <3>2. pc[q] = "none" => runJob'[q] # j
      BY <2>1, <2>4, JobRunsAssumption DEF Numbered
    <3> QED BY <2>1, <2>2, <2>4, <3>1, <3>2
  <2>5. CASE p # r /\ q = r
    BY <1>4, <2>1, <2>5
  <2>6. CASE p # r /\ q # r
    BY <2>1, <2>6
  <2> QED BY <2>3, <2>4, <2>5, <2>6
<1>5. ASSUME NEW u \in Users, NEW r \in Runs, NEW j \in Jobs, RunNow(r, u, j)
      PROVE  OneAtATime'
  BY <1>4, <1>5 DEF RunNow
<1>6. ASSUME NEW r \in Runs, NEW j \in Jobs, FireCron(r, j)
      PROVE  OneAtATime'
  BY <1>4, <1>6 DEF FireCron
<1>7. ASSUME NEW r \in Runs, Step(r)
      PROVE  OneAtATime'
  <2>1. CASE CreateRun(r)
    BY <1>1, <2>1 DEF CreateRun
  <2>2. ASSUME NEW from \in Alive, NEW to \in SUBSET (Alive \cup {"done"}), Go(r, from, to)
        PROVE  OneAtATime'
    BY <1>1, <2>2 DEF Go
  <2>3. CASE GetJob(r) \/ Fetch(r) \/ SaveOk(r)
    BY <2>2, <2>3 DEF GetJob, Fetch, SaveOk
  <2>4. CASE Report(r) \/ FinishSuccess(r) \/ SaveError(r) \/ Alert(r) \/ FinishError(r)
    BY <2>2, <2>4 DEF Report, FinishSuccess, SaveError, Alert, FinishError
  <2> QED BY <1>7, <2>1, <2>3, <2>4 DEF Step
<1>8. ASSUME NEW r \in Runs, Watch(r)
      PROVE  OneAtATime'
  <2>1. UNCHANGED <<kind, runJob, pc>> /\ dog[r] # "none"
    BY <1>8 DEF Watch, Join, Check, Kill, KillStatus, Bark
  <2>2. \A p \in Runs \ {r} : dog'[p] = dog[p]
    BY <1>8 DEF Watch, Join, Check, Kill, KillStatus, Bark
  <2> QED BY <1>1, <2>1, <2>2
<1>9. ASSUME NEW r \in Runs, Hang(r)
      PROVE  OneAtATime'
  BY <1>1, <1>9 DEF Hang
<1>10. ASSUME NEW r \in Runs, DbFault(r)
       PROVE  OneAtATime'
  <2>1. \A p \in Runs : pc'[p] \in Alive => pc[p] \in Alive
    BY <1>10 DEF DbFault
  <2>2. \A p \in Runs : dog[p] = "none" => dog'[p] = "none"
    BY <1>10 DEF DbFault
  <2> QED BY <1>1, <1>10, <2>1, <2>2 DEF DbFault
<1>11. CASE Crash
  BY <1>1, <1>11 DEF Crash
<1>12. CASE Restart \/ LoadFails \/ UNCHANGED vars
  BY <1>1, <1>12 DEF Restart, LoadFails, vars
<1> QED
  BY <1>2, <1>3, <1>5, <1>6, <1>7, <1>8, <1>9, <1>10, <1>11, <1>12 DEF Next

\* Only the last run of a job writes its status, as long as only the schedule starts it.
LEMMA LastRunWrites ==
    ASSUME TypeOK, OneAtATime, NEW j \in Jobs, NEW r \in Runs, LastRun(j, r),
           \A q \in Runs : runJob[q] = j => kind[q] = "cron",
           NEW q \in Runs, runJob[q] = j
    PROVE  /\ pc[q] \in Alive => q = r
           /\ dog[q] = "none"
<1>1. q <= r
  BY DEF LastRun
<1>2. pc[q] \in Alive => r <= q
  BY DEF OneAtATime, LastRun
<1> QED
  BY <1>1, <1>2 DEF OneAtATime

LEMMA StatusStep ==
    ASSUME TypeOK, SuccessInv, StatusInv, [Next]_vars
    PROVE  StatusSoFar'
<1> SUFFICES ASSUME NEW j \in Jobs, NEW r \in Runs, HasRow(j)', LastRun(j, r)',
                    \A q \in Runs : runJob'[q] = j => kind'[q] = "cron"
             PROVE  /\ pc'[r] \in {"report", "finish"} => status'[j] = "ok"
                    /\ pc'[r] \in {"alert", "finisherror"} => status'[j] = "error"
                    /\ runState'[r] \in Verdict =>
                          /\ pc'[r] = "done"
                          /\ status'[j] = (IF runState'[r] = "success" THEN "ok" ELSE "error")
  BY DEF StatusSoFar
<1> DEFINE Told == /\ pc'[r] \in {"report", "finish"} => status'[j] = "ok"
                   /\ pc'[r] \in {"alert", "finisherror"} => status'[j] = "error"
                   /\ runState'[r] \in Verdict =>
                         /\ pc'[r] = "done"
                         /\ status'[j] = (IF runState'[r] = "success" THEN "ok" ELSE "error")
           Before == /\ HasRow(j)
                     /\ LastRun(j, r)
                     /\ \A q \in Runs : runJob[q] = j => kind[q] = "cron"
<1>0. Before =>
        /\ pc[r] \in {"report", "finish"} => status[j] = "ok"
        /\ pc[r] \in {"alert", "finisherror"} => status[j] = "error"
        /\ runState[r] \in Verdict =>
              /\ pc[r] = "done"
              /\ status[j] = (IF runState[r] = "success" THEN "ok" ELSE "error")
  BY DEF StatusInv, StatusSoFar
<1>00. Entrusted(r)
  BY DEF SuccessInv
<1>1. UNCHANGED <<runJob, kind>> /\ HasRow(j) => Before
  BY DEF LastRun
\* A step that leaves the run where it is, or ends its thread, and the status alone.
<1>2. ASSUME Before, status'[j] = status[j],
             pc'[r] = pc[r] \/ (pc'[r] = "lost" /\ pc[r] # "done"),
             runState'[r] \in Verdict => runState'[r] = runState[r]
      PROVE  Told
  BY <1>0, <1>2
<1>3. ASSUME NEW u \in Users, NEW i \in Jobs,
             NEW c \in Crons \cup BadCrons \cup {NoCron}, CreateJob(u, i, c)
      PROVE  Told
  <2>1. i # j
    BY <1>3 DEF CreateJob, StatusInv, Numbered, LastRun
  <2>2. HasRow(j)
    BY <1>3, <2>1 DEF CreateJob, HasRow, TypeOK
  <2> QED BY <1>1, <1>2, <1>3, <2>2 DEF CreateJob
<1>4. ASSUME NEW u \in Users, NEW i \in Jobs,
             NEW c \in Crons \cup BadCrons \cup {NoCron}, UpdateJob(u, i, c)
      PROVE  Told
  BY <1>1, <1>2, <1>4 DEF UpdateJob, HasRow
<1>5. ASSUME NEW S \in SUBSET Runs, runState' = Removed(S), HasRow(j),
             UNCHANGED <<runJob, kind, pc, status>>
      PROVE  Told
  <2>1. runState'[r] \in Verdict => runState'[r] = runState[r]
    BY <1>5 DEF Removed, TypeOK
  <2> QED BY <1>1, <1>2, <1>5, <2>1
<1>6. ASSUME NEW u \in Users, NEW i \in Jobs, DeleteJob(u, i)
      PROVE  Told
  <2>1. HasRow(j)
    BY <1>6 DEF DeleteJob, HasRow, TypeOK
  <2> QED BY <1>5, <1>6, <2>1 DEF DeleteJob, workerVars
<1>7. ASSUME NEW u \in Users, PurgeUser(u) \/ DeleteUser(u)
      PROVE  Told
  <2>1. HasRow(j)
    BY <1>7, Erasure DEF HasRow
  <2> QED BY <1>5, <1>7, <2>1, Erasure
<1>8. ASSUME NEW u, NEW p \in Runs, NEW i \in Jobs, NEW k, Queue(p, u, i, k)
      PROVE  Told
  <2>1. /\ pc' = [pc EXCEPT ![p] = "queued"]
        /\ runJob' = [runJob EXCEPT ![p] = i]
        /\ kind' = [kind EXCEPT ![p] = k]
        /\ UNCHANGED <<jobState, status, runState>>
    BY <1>8 DEF Queue
  <2>2. CASE r = p
    BY <1>00, <1>8, <2>1, <2>2 DEF Queue, Unused, Entrusted, TypeOK
  <2>3. CASE r # p
    <3>1. runJob[r] = j
      BY <2>1, <2>3 DEF LastRun, TypeOK
    <3>2. pc[r] # "none"
      BY <3>1, JobRunsAssumption DEF StatusInv, Numbered
    <3>3. ~(p < r)
      BY <1>8, <3>2 DEF Queue, Unused, StatusInv, Numbered
    <3>4. i # j
      BY <2>1, <2>3, <3>3 DEF LastRun, TypeOK
    <3>5. runJob[p] # j
      BY <1>8, JobRunsAssumption DEF Queue, Unused, StatusInv, Numbered
    <3>6. Before
      BY <2>1, <3>1, <3>4, <3>5 DEF LastRun, HasRow, TypeOK
    <3> QED BY <1>2, <2>1, <2>3, <3>6 DEF TypeOK
  <2> QED BY <2>2, <2>3
<1>9. ASSUME NEW p \in Runs, Step(p)
      PROVE  Told
  <2>1. UNCHANGED <<jobState, runJob, kind>> /\ pc[p] \in Alive
    <3>1. CASE CreateRun(p)     BY <3>1 DEF CreateRun
    <3>2. CASE GetJob(p) \/ Fetch(p) \/ SaveOk(p)
      BY <3>2 DEF GetJob, Fetch, SaveOk, Go
    <3>3. CASE Report(p) \/ FinishSuccess(p) \/ SaveError(p) \/ Alert(p) \/ FinishError(p)
      BY <3>3 DEF Report, FinishSuccess, SaveError, Alert, FinishError, Go
    <3> QED BY <1>9, <3>1, <3>2, <3>3 DEF Step
  <2>2. Before
    BY <1>1, <2>1 DEF HasRow
  <2>3. CASE p # r
    <3>1. runJob[p] # j
      BY <2>1, <2>2, <2>3, LastRunWrites DEF StatusInv
    <3>2. pc'[r] = pc[r] /\ runState'[r] = runState[r] /\ status'[j] = status[j]
      <4>1. CASE CreateRun(p)     BY <2>3, <4>1 DEF CreateRun, TypeOK
      <4>2. CASE GetJob(p)        BY <2>3, <4>2 DEF GetJob, Go, TypeOK
      <4>3. CASE Fetch(p)         BY <2>3, <4>3 DEF Fetch, Go, TypeOK
      <4>4. CASE SaveOk(p)        BY <2>3, <3>1, <4>4 DEF SaveOk, Go, WithStatus, TypeOK
      <4>5. CASE Report(p)        BY <2>3, <4>5 DEF Report, Go, TypeOK
      <4>6. CASE FinishSuccess(p) BY <2>3, <4>6 DEF FinishSuccess, Go, Finished, TypeOK
      <4>7. CASE SaveError(p)     BY <2>3, <3>1, <4>7 DEF SaveError, Go, WithStatus, TypeOK
      <4>8. CASE Alert(p)         BY <2>3, <4>8 DEF Alert, Go, TypeOK
      <4>9. CASE FinishError(p)   BY <2>3, <4>9 DEF FinishError, Go, Finished, TypeOK
      <4> QED BY <1>9, <4>1, <4>2, <4>3, <4>4, <4>5, <4>6, <4>7, <4>8, <4>9 DEF Step
    <3> QED BY <1>2, <2>2, <3>2
  <2>4. CASE p = r
    <3>1. runJob[r] = j /\ jobState[j] = "row"
      BY <2>2 DEF LastRun, HasRow
    <3> HIDE DEF Before
    <3>2. CASE CreateRun(r)     BY <1>0, <2>2, <3>2 DEF CreateRun, TypeOK
    <3>3. CASE GetJob(r)        BY <1>0, <2>2, <3>3 DEF GetJob, Go, Sees, TypeOK
    <3>4. CASE Fetch(r)         BY <1>0, <2>2, <3>4 DEF Fetch, Go, TypeOK
    <3>5. CASE SaveOk(r)
      BY <1>0, <2>2, <3>1, <3>5 DEF SaveOk, Go, WithStatus, HasRow, TypeOK
    <3>6. CASE Report(r)        BY <1>0, <2>2, <3>6 DEF Report, Go, TypeOK
    <3>7. CASE FinishSuccess(r)
      BY <1>0, <2>2, <3>7 DEF FinishSuccess, Go, Finished, TypeOK
    <3>8. CASE SaveError(r)
      BY <1>0, <2>2, <3>1, <3>8 DEF SaveError, Go, WithStatus, HasRow, TypeOK
    <3>9. CASE Alert(r)         BY <1>0, <2>2, <3>9 DEF Alert, Go, TypeOK
    <3>10. CASE FinishError(r)
      BY <1>0, <2>2, <3>10 DEF FinishError, Go, Finished, TypeOK
    <3> QED
      BY <1>9, <2>4, <3>2, <3>3, <3>4, <3>5, <3>6, <3>7, <3>8, <3>9, <3>10 DEF Step
  <2> QED BY <2>3, <2>4
<1>10. ASSUME NEW p \in Runs, Watch(p)
       PROVE  Told
  <2>1. UNCHANGED <<jobState, runJob, kind, pc>> /\ dog[p] # "none"
    BY <1>10 DEF Watch, Join, Check, Kill, KillStatus, Bark
  <2>2. Before
    BY <1>1, <2>1 DEF HasRow
  <2>3. runJob[p] # j
    BY <2>1, <2>2, LastRunWrites DEF StatusInv
  <2>4. p # r
    BY <2>2, <2>3 DEF LastRun
  <2>5. status'[j] = status[j] /\ runState'[r] = runState[r]
    BY <1>10, <2>3, <2>4 DEF Watch, Join, Check, Kill, KillStatus, Finished, WithStatus, TypeOK
  <2> QED BY <1>2, <2>1, <2>2, <2>5
<1>11. ASSUME NEW p \in Runs, Hang(p)
       PROVE  Told
  BY <1>1, <1>2, <1>11 DEF Hang, HasRow
<1>12. ASSUME NEW p \in Runs, DbFault(p)
       PROVE  Told
  <2>1. UNCHANGED <<jobState, runJob, kind, status, runState>>
    BY <1>12 DEF DbFault
  <2>2. Before
    BY <1>1, <2>1 DEF HasRow
  <2>3. \/ pc'[r] = pc[r]
        \/ pc'[r] \in {"saveerror", "lost"} /\ pc[r] # "done"
    BY <1>12 DEF DbFault, TypeOK
  <2> QED BY <1>0, <2>1, <2>2, <2>3
<1>13. CASE Crash
  <2>1. UNCHANGED <<jobState, runJob, kind, status, runState>>
    BY <1>13 DEF Crash
  <2>2. pc'[r] = pc[r] \/ (pc'[r] = "lost" /\ pc[r] # "done")
    BY <1>13 DEF Crash
  <2> QED BY <1>1, <1>2, <2>1, <2>2 DEF HasRow
<1>14. CASE Restart \/ LoadFails \/ UNCHANGED vars
  BY <1>1, <1>2, <1>14 DEF Restart, LoadFails, vars, HasRow
<1>15. ASSUME NEW u \in Users, Visit(u) \/ (\E i \in Jobs : DeleteJobFails(u, i))
       PROVE  Told
  BY <1>1, <1>2, <1>15 DEF Visit, DeleteJobFails, HasRow
<1> QED
  BY <1>3, <1>4, <1>6, <1>7, <1>8, <1>9, <1>10, <1>11, <1>12, <1>13, <1>14, <1>15
  DEF Next, Request, RunNow, FireCron

LEMMA StatusInvariant == Spec => []StatusInv
<1>1. Init => StatusInv
  BY JobRunsAssumption DEF Init, StatusInv, Numbered, OneAtATime, StatusSoFar, HasRow
<1>2. TypeOK /\ SuccessInv /\ StatusInv /\ [Next]_vars => StatusInv'
  BY NumberedStep, OneAtATimeStep, StatusStep DEF StatusInv
<1> QED
  BY <1>1, <1>2, TypeCorrect, SuccessInvariant, PTL DEF Spec

\* The status the job list shows is the verdict of the last run of a job that only its
\* schedule starts, in all faults: the status is committed before the verdict, and no
\* other thread writes it in between (_run_job_body, max_instances).
THEOREM StatusCorrect == Spec => []StatusAgreesWithLastRun
<1>1. StatusInv => StatusAgreesWithLastRun
  BY DEF StatusInv, StatusSoFar, StatusAgreesWithLastRun
<1> QED
  BY <1>1, StatusInvariant, PTL

------------------------------------------------------------------------------
(* The mails of a scheduled run. *)

\* What a run's thread has sent so far.
MailSoFar ==
    \A r \in Runs :
        /\ pc[r] \in {"none", "queued", "getjob", "fetch", "saveok", "report",
                      "saveerror", "alert"} => mail[r] = {}
        /\ pc[r] = "finish" => mail[r] \subseteq {"report"}
        /\ pc[r] = "finisherror" => mail[r] \subseteq {"alert"}
        /\ kind[r] = "cron" /\ runState[r] \in Verdict =>
              /\ pc[r] = "done"
              /\ mail[r] \subseteq (IF runState[r] = "success" THEN {"report"} ELSE {"alert"})

\* A thread that has sent nothing has sent what it sends next at most.
LEMMA FirstMail ==
    ASSUME NEW r \in Runs, NEW k, mail \in [Runs -> SUBSET {"report", "alert"}],
           mail[r] = {}, mail' \in {mail, [mail EXCEPT ![r] = @ \cup {k}]}
    PROVE  mail'[r] \subseteq {k}
OBVIOUS

\* The mails agree with the verdict of a scheduled run as long as the database does not
\* fail between the report and finish_run: then the verdict is a failure after a report
\* of success was sent.  (A server that stops leaves the verdict open.)
THEOREM MailCorrect ==
    ASSUME "db" \notin Faults
    PROVE  Spec => []MailAgreesWithVerdict
<1>1. Init => MailSoFar
  BY DEF Init, MailSoFar
<1>2. TypeOK /\ SuccessInv /\ StatusInv /\ MailSoFar /\ [Next]_vars => MailSoFar'
  <2> SUFFICES ASSUME TypeOK, SuccessInv, StatusInv, MailSoFar, [Next]_vars, NEW r \in Runs
               PROVE  /\ pc'[r] \in {"none", "queued", "getjob", "fetch", "saveok", "report",
                                     "saveerror", "alert"} => mail'[r] = {}
                      /\ pc'[r] = "finish" => mail'[r] \subseteq {"report"}
                      /\ pc'[r] = "finisherror" => mail'[r] \subseteq {"alert"}
                      /\ kind'[r] = "cron" /\ runState'[r] \in Verdict =>
                            /\ pc'[r] = "done"
                            /\ mail'[r] \subseteq (IF runState'[r] = "success"
                                                   THEN {"report"} ELSE {"alert"})
    BY DEF MailSoFar
  <2> DEFINE Told(p, m, k, s) ==
                /\ p \in {"none", "queued", "getjob", "fetch", "saveok", "report",
                          "saveerror", "alert"} => m = {}
                /\ p = "finish" => m \subseteq {"report"}
                /\ p = "finisherror" => m \subseteq {"alert"}
                /\ k = "cron" /\ s \in Verdict =>
                      /\ p = "done"
                      /\ m \subseteq (IF s = "success" THEN {"report"} ELSE {"alert"})
  <2>0. Told(pc[r], mail[r], kind[r], runState[r])
    BY DEF MailSoFar
  <2>00. Entrusted(r) /\ (kind[r] = "cron" => dog[r] = "none")
    BY DEF SuccessInv, StatusInv, OneAtATime
  <2>1. ASSUME kind'[r] = kind[r], mail'[r] = mail[r],
               pc'[r] = pc[r] \/ (pc'[r] = "lost" /\ pc[r] # "done"),
               kind[r] = "cron" /\ runState'[r] \in Verdict => runState'[r] = runState[r]
        PROVE  Told(pc[r], mail[r], kind[r], runState[r])'
    BY <2>0, <2>1
  <2>2. ASSUME NEW S \in SUBSET Runs, runState' = Removed(S), UNCHANGED <<pc, kind, mail>>
        PROVE  Told(pc[r], mail[r], kind[r], runState[r])'
    BY <2>1, <2>2 DEF Removed
  <2>3. ASSUME NEW u \in Users, NEW j \in Jobs, Request(u, j), ~(\E q \in Runs : RunNow(q, u, j))
        PROVE  Told(pc[r], mail[r], kind[r], runState[r])'
    <3>1. CASE DeleteJob(u, j) BY <2>2, <3>1 DEF DeleteJob
    <3>2. CASE ~DeleteJob(u, j)
      BY <2>1, <2>3, <3>2 DEF Request, CreateJob, UpdateJob, DeleteJobFails
    <3> QED BY <3>1, <3>2
  <2>4. ASSUME NEW u \in Users, PurgeUser(u) \/ DeleteUser(u)
        PROVE  Told(pc[r], mail[r], kind[r], runState[r])'
    <3>1. UNCHANGED <<pc, kind, mail>> /\ \E S \in SUBSET Runs : runState' = Removed(S)
      BY <2>4, Erasure
    <3> QED BY <2>2, <3>1
  <2>5. ASSUME NEW u, NEW q \in Runs, NEW j \in Jobs, NEW k, Queue(q, u, j, k)
        PROVE  Told(pc[r], mail[r], kind[r], runState[r])'
    <3>1. CASE q = r
      BY <2>0, <2>00, <2>5, <3>1 DEF Queue, Unused, Entrusted, TypeOK
    <3>2. CASE q # r
      BY <2>1, <2>5, <3>2 DEF Queue, TypeOK
    <3> QED BY <3>1, <3>2
  <2>6. ASSUME NEW q \in Runs, Step(q)
        PROVE  Told(pc[r], mail[r], kind[r], runState[r])'
    <3> HIDE DEF Told
    <3> USE DEF TypeOK
    <3>0. \A p, m, k, s : Told(p, m, k, s) =
             (/\ p \in {"none", "queued", "getjob", "fetch", "saveok", "report",
                        "saveerror", "alert"} => m = {}
              /\ p = "finish" => m \subseteq {"report"}
              /\ p = "finisherror" => m \subseteq {"alert"}
              /\ k = "cron" /\ s \in Verdict =>
                    /\ p = "done"
                    /\ m \subseteq (IF s = "success" THEN {"report"} ELSE {"alert"}))
      BY DEF Told
    <3>1. CASE q # r
      <4>1. pc'[r] = pc[r] /\ mail'[r] = mail[r] /\ kind'[r] = kind[r] /\ runState'[r] = runState[r]
        <5>1. CASE CreateRun(q)     BY <3>1, <5>1 DEF CreateRun
        <5>2. CASE GetJob(q) \/ Fetch(q) \/ SaveOk(q)
          BY <3>1, <5>2 DEF GetJob, Fetch, SaveOk, Go
        <5>3. CASE FinishSuccess(q) BY <3>1, <5>3 DEF FinishSuccess, Go, Finished
        <5>4. CASE FinishError(q)   BY <3>1, <5>4 DEF FinishError, Go, Finished
        <5>5. CASE Report(q)        BY <3>1, <5>5 DEF Report, Go
        <5>6. CASE SaveError(q)     BY <3>1, <5>6 DEF SaveError, Go
        <5>7. CASE Alert(q)         BY <3>1, <5>7 DEF Alert, Go
        <5> QED BY <2>6, <5>1, <5>2, <5>3, <5>4, <5>5, <5>6, <5>7 DEF Step
      <4> QED BY <2>1, <4>1
    <3>2. CASE q = r
      <4> USE <2>0, <3>0, <3>2
      <4>1. CASE CreateRun(r)     BY <4>1 DEF CreateRun
      <4>2. CASE GetJob(r)        BY <4>2 DEF GetJob, Go, Sees
      <4>3. CASE Fetch(r)         BY <4>3 DEF Fetch, Go
      <4>4. CASE SaveOk(r)        BY <4>4 DEF SaveOk, Go
      <4>5. CASE Report(r)
        <5>1. pc[r] = "report" /\ pc'[r] = "finish" /\ UNCHANGED <<kind, runState>>
          BY <4>5 DEF Report, Go
        <5>2. mail' \in {mail, [mail EXCEPT ![r] = @ \cup {"report"}]}
          BY <4>5 DEF Report
        <5>3. mail[r] = {}
          BY <5>1
        <5>4. mail'[r] \subseteq {"report"}
          BY <5>2, <5>3, FirstMail
        <5> QED BY <5>1, <5>4
      <4>6. CASE FinishSuccess(r) BY <4>6 DEF FinishSuccess, Go, Finished
      <4>7. CASE SaveError(r)     BY <4>7 DEF SaveError, Go
      <4>8. CASE Alert(r)
        <5>1. pc[r] = "alert" /\ pc'[r] = "finisherror" /\ UNCHANGED <<kind, runState>>
          BY <4>8 DEF Alert, Go
        <5>2. mail' \in {mail, [mail EXCEPT ![r] = @ \cup {"alert"}]}
          BY <4>8 DEF Alert
        <5>3. mail[r] = {}
          BY <5>1
        <5>4. mail'[r] \subseteq {"alert"}
          BY <5>2, <5>3, FirstMail
        <5> QED BY <5>1, <5>4
      <4>9. CASE FinishError(r)   BY <4>9 DEF FinishError, Go, Finished
      <4> QED BY <2>6, <4>1, <4>2, <4>3, <4>4, <4>5, <4>6, <4>7, <4>8, <4>9 DEF Step
    <3> QED BY <3>1, <3>2
  <2>7. ASSUME NEW q \in Runs, Watch(q)
        PROVE  Told(pc[r], mail[r], kind[r], runState[r])'
    <3>1. UNCHANGED <<kind, pc, mail>> /\ dog[q] # "none"
      BY <2>7 DEF Watch, Join, Check, Kill, KillStatus, Bark
    <3>2. q # r => runState'[r] = runState[r]
      BY <2>7 DEF Watch, Join, Check, Kill, KillStatus, Finished, TypeOK
    <3> QED BY <2>00, <2>1, <3>1, <3>2
  <2>8. ASSUME NEW q \in Runs, Hang(q)
        PROVE  Told(pc[r], mail[r], kind[r], runState[r])'
    BY <2>1, <2>8 DEF Hang
  <2>9. CASE Crash
    <3>1. pc'[r] = pc[r] \/ (pc'[r] = "lost" /\ pc[r] # "done")
      BY <2>9 DEF Crash
    <3> QED BY <2>1, <2>9, <3>1 DEF Crash
  <2>10. CASE Restart \/ LoadFails \/ UNCHANGED vars
    BY <2>1, <2>10 DEF Restart, LoadFails, vars
  <2>11. ASSUME NEW u \in Users, Visit(u)
         PROVE  Told(pc[r], mail[r], kind[r], runState[r])'
    BY <2>1, <2>11 DEF Visit
  <2> QED
    BY <2>3, <2>4, <2>5, <2>6, <2>7, <2>8, <2>9, <2>10, <2>11
    DEF Next, RunNow, FireCron, DbFault, Request
<1>3. MailSoFar => MailAgreesWithVerdict
  BY DEF MailSoFar, MailAgreesWithVerdict
<1> QED
  BY <1>1, <1>2, <1>3, TypeCorrect, SuccessInvariant, StatusInvariant, PTL DEF Spec

------------------------------------------------------------------------------
(* The verdict of a scheduled run. *)

\* A scheduled run has its verdict from its own thread, which ends with it.
EndsWithVerdict ==
    \A r \in Runs : kind[r] = "cron" /\ runState[r] \in Verdict => pc[r] = "done"

\* VerdictIsDefinitive, as far as it holds: for runs without a watchdog.
ScheduledVerdictIsDefinitive ==
    [][\A r \in Runs : kind[r] = "cron" /\ runState[r] \in Verdict =>
            runState'[r] \in {runState[r], "removed"}]_vars

\* A step gives a verdict to a scheduled run only by its own thread, which is done then.
LEMMA ScheduledVerdictStep ==
    ASSUME TypeOK, SuccessInv, StatusInv, [Next]_vars, NEW r \in Runs,
           runState'[r] \in Verdict, kind'[r] = "cron"
    PROVE  \/ kind[r] = "cron" /\ runState[r] = runState'[r] /\ (pc[r] = "done" => pc'[r] = "done")
           \/ kind[r] = "cron" /\ pc[r] \in Alive /\ pc'[r] = "done"
<1> DEFINE Stands == kind[r] = "cron" /\ runState[r] = runState'[r]
                     /\ (pc[r] = "done" => pc'[r] = "done")
           Ends   == kind[r] = "cron" /\ pc[r] \in Alive /\ pc'[r] = "done"
<1>0. Entrusted(r) /\ (kind[r] = "cron" => dog[r] = "none")
  BY DEF SuccessInv, StatusInv, OneAtATime
<1>1. ASSUME NEW S \in SUBSET Runs, runState' = Removed(S), UNCHANGED <<pc, kind>>
      PROVE  Stands
  BY <1>1 DEF Removed
<1>2. ASSUME NEW u \in Users, NEW j \in Jobs, Request(u, j), ~(\E q \in Runs : RunNow(q, u, j))
      PROVE  Stands
  <2>1. CASE DeleteJob(u, j) BY <1>1, <2>1 DEF DeleteJob
  <2>2. CASE ~DeleteJob(u, j)
    BY <1>2, <2>2 DEF Request, CreateJob, UpdateJob, DeleteJobFails
  <2> QED BY <2>1, <2>2
<1>3. ASSUME NEW u \in Users, PurgeUser(u) \/ DeleteUser(u)
      PROVE  Stands
  <2>1. UNCHANGED <<pc, kind>> /\ \E S \in SUBSET Runs : runState' = Removed(S)
    BY <1>3, Erasure
  <2> QED BY <1>1, <2>1
<1>4. ASSUME NEW u, NEW q \in Runs, NEW j \in Jobs, NEW k, Queue(q, u, j, k)
      PROVE  Stands
  <2>1. q # r
    BY <1>0, <1>4 DEF Queue, Unused, Entrusted
  <2> QED BY <1>4, <2>1 DEF Queue, TypeOK
<1>5. ASSUME NEW q \in Runs, CreateRun(q)
      PROVE  Stands
  BY <1>0, <1>5 DEF CreateRun, TypeOK
<1>6. ASSUME NEW q \in Runs,
             GetJob(q) \/ Fetch(q) \/ SaveOk(q) \/ Report(q) \/ SaveError(q) \/ Alert(q)
      PROVE  Stands
  BY <1>6 DEF GetJob, Fetch, SaveOk, Report, SaveError, Alert, Go, TypeOK
<1>7. ASSUME NEW q \in Runs, FinishSuccess(q) \/ FinishError(q)
      PROVE  Stands \/ Ends
  <2>1. kind' = kind /\ pc[q] \in Alive /\ pc' = [pc EXCEPT ![q] = "done"]
    BY <1>7 DEF FinishSuccess, FinishError, Go
  <2>2. q # r => runState'[r] = runState[r]
    BY <1>7 DEF FinishSuccess, FinishError, Finished, TypeOK
  <2> QED BY <2>1, <2>2 DEF TypeOK
<1>8. ASSUME NEW q \in Runs, Watch(q)
      PROVE  Stands
  <2>1. UNCHANGED <<kind, pc>> /\ dog[q] # "none"
    BY <1>8 DEF Watch, Join, Check, Kill, KillStatus, Bark
  <2>2. q # r => runState'[r] = runState[r]
    BY <1>8 DEF Watch, Join, Check, Kill, KillStatus, Finished, TypeOK
  <2> QED BY <1>0, <2>1, <2>2
<1>9. ASSUME NEW q \in Runs, Hang(q) \/ DbFault(q)
      PROVE  Stands
  <2>1. UNCHANGED <<kind, runState>>
    BY <1>9 DEF Hang, DbFault
  <2>2. pc[r] = "done" => pc'[r] = "done"
    BY <1>9 DEF Hang, DbFault, TypeOK
  <2> QED BY <2>1, <2>2
<1>10. CASE Crash \/ Restart \/ LoadFails \/ UNCHANGED vars \/ (\E u \in Users : Visit(u))
  <2>1. UNCHANGED <<kind, runState>>
    BY <1>10 DEF Crash, Restart, LoadFails, vars, Visit
  <2>2. pc[r] = "done" => pc'[r] = "done"
    BY <1>10 DEF Crash, Restart, LoadFails, vars, Visit
  <2> QED BY <2>1, <2>2
<1> QED
  BY <1>2, <1>3, <1>4, <1>5, <1>6, <1>7, <1>8, <1>9, <1>10
  DEF Next, Step, RunNow, FireCron, Request

\* What a scheduled run has been reported as stands, in all faults, until the run is
\* deleted: it is the watchdog of "Run Now" alone that has a verdict revised.
THEOREM ScheduledVerdictStands == Spec => ScheduledVerdictIsDefinitive
<1>1. Init => EndsWithVerdict
  BY DEF Init, EndsWithVerdict
<1>2. TypeOK /\ SuccessInv /\ StatusInv /\ EndsWithVerdict /\ [Next]_vars => EndsWithVerdict'
  <2> SUFFICES ASSUME TypeOK, SuccessInv, StatusInv, EndsWithVerdict, [Next]_vars,
                      NEW r \in Runs, kind'[r] = "cron", runState'[r] \in Verdict
               PROVE  pc'[r] = "done"
    BY DEF EndsWithVerdict
  <2> QED BY ScheduledVerdictStep DEF EndsWithVerdict
<1>3. TypeOK /\ SuccessInv /\ StatusInv /\ EndsWithVerdict /\ [Next]_vars =>
        [\A r \in Runs : kind[r] = "cron" /\ runState[r] \in Verdict =>
            runState'[r] \in {runState[r], "removed"}]_vars
  <2> SUFFICES ASSUME TypeOK, SuccessInv, StatusInv, EndsWithVerdict, [Next]_vars,
                      NEW r \in Runs, kind[r] = "cron", runState[r] \in Verdict
               PROVE  runState'[r] \in {runState[r], "removed"}
    OBVIOUS
  <2>1. pc[r] = "done"
    BY DEF EndsWithVerdict
  <2>2. kind'[r] = "cron"
    <3>1. ASSUME NEW u, NEW q \in Runs, NEW j \in Jobs, NEW k, Queue(q, u, j, k)
          PROVE  kind'[r] = kind[r]
      BY <2>1, <3>1 DEF Queue, Unused, TypeOK
    <3>2. ASSUME NEW q \in Runs, Step(q) \/ Watch(q) \/ Hang(q) \/ DbFault(q)
          PROVE  kind' = kind
      BY <3>2 DEF Step, CreateRun, GetJob, Fetch, SaveOk, Report, FinishSuccess, SaveError,
                  Alert, FinishError, Go, Watch, Join, Check, Kill, KillStatus, Bark, Hang, DbFault
    <3>3. ASSUME NEW u \in Users, NEW j \in Jobs, Request(u, j), ~(\E q \in Runs : RunNow(q, u, j))
          PROVE  kind' = kind
      BY <3>3 DEF Request, CreateJob, UpdateJob, DeleteJob, DeleteJobFails
    <3>4. ASSUME NEW u \in Users, PurgeUser(u) \/ DeleteUser(u) \/ Visit(u)
          PROVE  kind' = kind
      BY <3>4, Erasure DEF Visit
    <3>5. CASE Crash \/ Restart \/ LoadFails \/ UNCHANGED vars
      BY <3>5 DEF Crash, Restart, LoadFails, vars
    <3> QED BY <3>1, <3>2, <3>3, <3>4, <3>5 DEF Next, RunNow, FireCron, Request
  <2>3. CASE runState'[r] \in Verdict
    BY <2>1, <2>2, <2>3, ScheduledVerdictStep
  <2>4. CASE runState'[r] \notin Verdict
    <3>1. ASSUME NEW S \in SUBSET Runs, runState' = Removed(S)
          PROVE  runState'[r] \in {runState[r], "removed"}
      BY <3>1 DEF Removed
    <3>2. ASSUME NEW q \in Runs, Step(q)
          PROVE  runState'[r] \in Verdict
      <4>1. CASE CreateRun(q)
        BY <2>1, <4>1 DEF CreateRun, TypeOK
      <4>2. CASE FinishSuccess(q) \/ FinishError(q)
        BY <4>2 DEF FinishSuccess, FinishError, Finished, TypeOK
      <4>3. CASE GetJob(q) \/ Fetch(q) \/ SaveOk(q) \/ Report(q) \/ SaveError(q) \/ Alert(q)
        BY <4>3 DEF GetJob, Fetch, SaveOk, Report, SaveError, Alert
      <4> QED BY <3>2, <4>1, <4>2, <4>3 DEF Step
    <3>3. ASSUME NEW q \in Runs, Watch(q)
          PROVE  runState'[r] \in Verdict
      BY <3>3 DEF Watch, Join, Check, Kill, KillStatus, Finished, TypeOK
    <3>4. ASSUME NEW u \in Users, NEW j \in Jobs, Request(u, j)
          PROVE  runState'[r] \in {runState[r], "removed"}
      BY <3>1, <3>4 DEF Request, CreateJob, UpdateJob, DeleteJob, DeleteJobFails, RunNow, Queue
    <3>5. ASSUME NEW u \in Users, PurgeUser(u) \/ DeleteUser(u) \/ Visit(u)
          PROVE  runState'[r] \in {runState[r], "removed"}
      BY <3>1, <3>5, Erasure DEF Visit
    <3>6. ASSUME NEW q \in Runs, Hang(q) \/ DbFault(q) \/ (\E j \in Jobs : FireCron(q, j))
          PROVE  runState'[r] = runState[r]
      BY <3>6 DEF Hang, DbFault, FireCron, Queue
    <3>7. CASE Crash \/ Restart \/ LoadFails \/ UNCHANGED vars
      BY <3>7 DEF Crash, Restart, LoadFails, vars
    <3> QED BY <2>4, <3>2, <3>3, <3>4, <3>5, <3>6, <3>7 DEF Next
  <2> QED BY <2>3, <2>4
<1> QED
  BY <1>1, <1>2, <1>3, TypeCorrect, SuccessInvariant, StatusInvariant, PTL
  DEF Spec, ScheduledVerdictIsDefinitive

------------------------------------------------------------------------------
(* What nobody rules on any more. *)

\* Run r is reported as x, or removed since, and no thread is left to rule on it.
StandsAt(r, x) == runState[r] \in {x, "removed"} /\ LeftToRule(r) = 0

\* In RunLedger a row whose threads are spent can only be removed.
LEMMA SpentStep ==
    ASSUME NEW r \in Runs, NEW x \in {"running"} \cup Verdict, StandsAt(r, x),
           [Ledger!LedgerNext]_(Ledger!ledgerVars)
    PROVE  StandsAt(r, x)'
<1>1. Left[r] = 0 /\ runState[r] # "none"
  BY DEF StandsAt, Left
<1>2. Left'[r] = LeftToRule(r)'
  BY DEF Left
<1>3. CASE Ledger!LedgerNext
  <2>1. CASE Ledger!Remove
    BY <1>1, <1>2, <2>1 DEF Ledger!Remove, StandsAt, Left
  <2>2. CASE Ledger!Abandon
    <3>1. PICK l \in [Runs -> 0..2] : (\A q \in Runs : l[q] <= Left[q]) /\ Left' = l
      BY <2>2 DEF Ledger!Abandon, Left
    <3>2. l[r] \in 0..2 /\ l[r] <= 0
      BY <1>1, <3>1
    <3>3. l[r] = 0
      BY <3>2
    <3> QED BY <1>2, <2>2, <3>1, <3>3 DEF Ledger!Abandon, StandsAt
  <2>3. ASSUME NEW q \in Runs, Ledger!Open(q) \/ Ledger!Close(q)
        PROVE  StandsAt(r, x)'
    <3>1. ASSUME Ledger!Open(q)
          PROVE  Left'[r] = Left[r] /\ runState'[r] = runState[r]
      <4>1. q # r
        BY <1>1, <3>1 DEF Ledger!Open
      <4>2. runState'[r] = runState[r]
        BY <3>1, <4>1 DEF Ledger!Open
      <4>3. PICK n \in {1, 2} : Left' = [Left EXCEPT ![q] = n]
        BY <3>1 DEF Ledger!Open, Left
      <4>4. Left'[r] = Left[r]
        BY <4>1, <4>3 DEF Left
      <4> QED BY <4>2, <4>4
    <3>2. ASSUME Ledger!Close(q)
          PROVE  Left'[r] = Left[r] /\ runState'[r] = runState[r]
      <4>1. Left[q] > 0 /\ Left' = [Left EXCEPT ![q] = @ - 1]
        BY <3>2 DEF Ledger!Close, Left
      <4>2. q # r
        BY <1>1, <4>1
      <4>3. runState'[r] = runState[r]
        BY <3>2, <4>2 DEF Ledger!Close
      <4>4. Left'[r] = Left[r]
        BY <4>1, <4>2 DEF Left
      <4> QED BY <4>3, <4>4
    <3>3. Left'[r] = Left[r] /\ runState'[r] = runState[r]
      BY <2>3, <3>1, <3>2
    <3> QED BY <1>1, <1>2, <3>3 DEF StandsAt
  <2> QED BY <1>3, <2>1, <2>2, <2>3 DEF Ledger!LedgerNext
<1>4. CASE UNCHANGED Ledger!ledgerVars
  BY <1>1, <1>2, <1>4 DEF Ledger!ledgerVars, StandsAt, Left
<1> QED BY <1>3, <1>4

\* What a run is reported as when its last thread has ended, it is reported as until
\* it is removed: no later watchdog, retry or restart rules on it (finish_run is
\* called from the two threads of a run only).
THEOREM SettledRunsStand ==
    ASSUME NEW r \in Runs, NEW x \in {"running"} \cup Verdict
    PROVE  Spec => []((runState[r] = x /\ LeftToRule(r) = 0) => [](runState[r] \in {x, "removed"}))
<1>1. runState[r] = x /\ LeftToRule(r) = 0 => StandsAt(r, x)
  BY DEF StandsAt
<1>2. StandsAt(r, x) /\ [Ledger!LedgerNext]_(Ledger!ledgerVars) => StandsAt(r, x)'
  BY SpentStep
<1>3. StandsAt(r, x) => runState[r] \in {x, "removed"}
  BY DEF StandsAt
<1> QED
  BY <1>1, <1>2, <1>3, LedgerCorrect, PTL DEF ImplementsLedger, Ledger!LedgerSpec

\* A server that is down runs no thread.
DownIsIdle == ~up => \A r \in Runs : pc[r] \notin Alive /\ ~Watching(r)

LEMMA DownIsIdleStep == TypeOK /\ DownIsIdle /\ [Next]_vars => DownIsIdle'
<1> SUFFICES ASSUME TypeOK, DownIsIdle, [Next]_vars, ~up', NEW r \in Runs
             PROVE  pc'[r] \notin Alive /\ ~Watching(r)'
  BY DEF DownIsIdle
<1>1. ASSUME UNCHANGED <<up, pc, dog>>
      PROVE  pc'[r] \notin Alive /\ ~Watching(r)'
  BY <1>1 DEF DownIsIdle, Watching
<1>2. ASSUME NEW u \in Users, NEW j \in Jobs, Request(u, j)
      PROVE  FALSE
  BY <1>2 DEF Request, CreateJob, UpdateJob, DeleteJob, DeleteJobFails, Unregister, RunNow, Queue
<1>3. ASSUME NEW u \in Users, PurgeUser(u) \/ DeleteUser(u) \/ Visit(u)
      PROVE  FALSE
  BY <1>3 DEF PurgeUser, DeleteUser, EraseRowsOf, Visit
<1>4. ASSUME NEW q \in Runs, NEW j \in Jobs, FireCron(q, j)
      PROVE  FALSE
  BY <1>4 DEF FireCron, Queue
<1>5. ASSUME NEW q \in Runs, Step(q)
      PROVE  FALSE
  <2>1. up' = up /\ pc[q] \in Alive
    BY <1>5 DEF Step, CreateRun, GetJob, Fetch, SaveOk, Report, FinishSuccess, SaveError,
                Alert, FinishError, Go
  <2> QED BY <2>1 DEF DownIsIdle
<1>6. ASSUME NEW q \in Runs, Watch(q)
      PROVE  pc'[r] \notin Alive /\ ~Watching(r)'
  <2>1. /\ UNCHANGED <<up, pc>>
        /\ dog[q] = "saveerror" /\ dog' = [dog EXCEPT ![q] = "fired"]
    BY <1>6 DEF Watch, Join, Check, Kill, KillStatus, Bark, DownIsIdle, Watching
  <2> QED BY <2>1 DEF DownIsIdle, Watching, TypeOK
<1>7. ASSUME NEW q \in Runs, Hang(q) \/ DbFault(q)
      PROVE  pc'[r] \notin Alive /\ ~Watching(r)'
  <2>1. ~up
    BY <1>7 DEF Hang, DbFault
  <2>2. pc[r] \notin Alive /\ ~Watching(r) /\ pc[q] \notin Alive
    BY <2>1 DEF DownIsIdle
  <2> QED BY <1>7, <2>2 DEF Hang, DbFault, Watching, TypeOK
<1>8. CASE Crash
  BY <1>8 DEF Crash, Watching, TypeOK
<1>9. CASE Restart \/ LoadFails
  BY <1>9 DEF Restart, LoadFails
<1> QED
  BY <1>1, <1>2, <1>3, <1>4, <1>5, <1>6, <1>7, <1>8, <1>9 DEF Next, vars

\* A run the server stops under is shown as running for ever, through every restart,
\* unless its job is deleted: nothing in the code looks at it again (load_all_jobs
\* reads ws_jobs only, and watchdogs are threads).
THEOREM CrashedRunsStayOpen ==
    ASSUME NEW r \in Runs
    PROVE  Spec => [](~up /\ runState[r] = "running" => [](runState[r] \in {"running", "removed"}))
<1>1. Init => DownIsIdle
  BY DEF Init, DownIsIdle
<1>2. DownIsIdle => (~up => LeftToRule(r) = 0)
  BY DEF DownIsIdle, LeftToRule, Working, Watching
<1>3. Spec => []DownIsIdle
  BY <1>1, DownIsIdleStep, TypeCorrect, PTL DEF Spec
<1>4. StandsAt(r, "running") /\ [Ledger!LedgerNext]_(Ledger!ledgerVars) => StandsAt(r, "running")'
  BY SpentStep
<1>5. ~up /\ runState[r] = "running" /\ DownIsIdle => StandsAt(r, "running")
  BY <1>2 DEF StandsAt
<1>6. StandsAt(r, "running") => runState[r] \in {"running", "removed"}
  BY DEF StandsAt
<1> QED
  BY <1>3, <1>4, <1>5, <1>6, LedgerCorrect, PTL DEF ImplementsLedger, Ledger!LedgerSpec

==============================================================================
