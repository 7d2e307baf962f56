---------------------------- MODULE JobPipeline ----------------------------
(***************************************************************************)
(* The job queue and the step machine of the analysis worker: rows of      *)
(* analysis_jobs and job_steps, the worker processes that poll, claim,     *)
(* execute and finalize them (app/jobs/worker.py, orchestrator.py and      *)
(* app/db/repositories.py), and the operator's retry (app/api/admin.py).   *)
(*                                                                         *)
(* Every action below is one database transaction, or one read of the      *)
(* database, of the process that takes it.  A worker reads the step rows   *)
(* once, before its loop, and SQLAlchemy keeps the loaded attributes in    *)
(* the session across commits (expire_on_commit=False): seenStatus and     *)
(* seenAttempt are those cached rows, and loaded says which of them are    *)
(* still cached.  A rollback inside an open transaction expires them all.  *)
(***************************************************************************)
EXTENDS JobVocabulary

CONSTANTS
  Workers,      \* the worker processes
  RagSteps,     \* analyze_comments, analyze_script: heartbeat, stop on SIGTERM
  MaxCrashes,   \* bound: crashes of a worker process
  MaxSignals,   \* bound: SIGTERMs delivered
  MaxLate,      \* bound: heartbeats of live handlers that become stale
  MaxRetries    \* bound: operator retries

ASSUME PipelineAssumption ==
  /\ RagSteps \subseteq 2..(N - 1)
  /\ MaxCrashes \in Nat /\ MaxSignals \in Nat
  /\ MaxLate \in Nat /\ MaxRetries \in Nat

NoJob == 0

VARIABLES
  \* the database
  jobStatus,    \* analysis_jobs.status ("absent": no such row yet)
  stepStatus,   \* job_steps.status
  attempt,      \* job_steps.attempt_count, the fencing token
  beat,         \* age of coalesce(heartbeat_at, started_at) of a running step
  \* the worker processes
  pc,           \* where the worker is in run_once / run_job
  jobOf,        \* the job it claimed
  cur,          \* the position of the loop over the steps
  held,         \* expected_attempt of the step it runs
  seenStatus,   \* status of its cached JobStep objects
  seenAttempt,  \* attempt_count of its cached JobStep objects
  loaded,       \* the steps whose cached attributes are not expired
  stopping,     \* the stop event SIGTERM sets
  \* the operator's POST /jobs/{id}/retry in flight
  retry,        \* the job it read, the step it starts from and the rows it read
  \* budgets
  crashes, signals, late, retries

db      == <<jobStatus, stepStatus, attempt, beat>>
cache   == <<seenStatus, seenAttempt, loaded>>
session == <<jobOf, cur, held, cache>>
budgets == <<crashes, signals, late, retries>>
vars    == <<db, pc, session, stopping, retry, budgets>>

Places == {"idle", "claimed", "listing", "loop", "handler", "broke", "finalizing", "down"}

NoRetry == [job |-> NoJob, from |-> 1, status |-> [s \in Steps |-> "pending"],
            jobStatus |-> "absent"]

-----------------------------------------------------------------------------
(* Initial state: no job, every worker polling. *)

Init ==
  /\ jobStatus   = [j \in Jobs |-> "absent"]
  /\ stepStatus  = [j \in Jobs |-> [s \in Steps |-> "pending"]]
  /\ attempt     = [j \in Jobs |-> [s \in Steps |-> 0]]
  /\ beat        = [j \in Jobs |-> [s \in Steps |-> "fresh"]]
  /\ pc          = [w \in Workers |-> "idle"]
  /\ jobOf       = [w \in Workers |-> NoJob]
  /\ cur         = [w \in Workers |-> 1]
  /\ held        = [w \in Workers |-> 0]
  /\ seenStatus  = [w \in Workers |-> [s \in Steps |-> "pending"]]
  /\ seenAttempt = [w \in Workers |-> [s \in Steps |-> 0]]
  /\ loaded      = [w \in Workers |-> {}]
  /\ stopping    = [w \in Workers |-> FALSE]
  /\ retry       = NoRetry
  /\ crashes = 0 /\ signals = 0 /\ late = 0 /\ retries = 0

-----------------------------------------------------------------------------
(* POST /jobs: the job and its step rows, validate_input already done. *)

Submit(j) ==
  /\ jobStatus[j] = "absent"
  /\ \A i \in Jobs : i < j => jobStatus[i] # "absent"
  /\ jobStatus'  = [jobStatus EXCEPT ![j] = "pending"]
  /\ stepStatus' = [stepStatus EXCEPT ![j][1] = "succeeded"]
  /\ attempt'    = [attempt EXCEPT ![j][1] = 1]
  /\ UNCHANGED <<beat, pc, session, stopping, retry, budgets>>

-----------------------------------------------------------------------------
(* JobWorker.run_once: one transaction that recovers at most one stale job *)
(* and then claims the oldest pending one.                                 *)

\* a bug this project looks for: only pending jobs are ever looked at
NoStaleJobs == {}

\* a bug this project looks for: the heartbeat is not looked at
RunningJobs ==
  {j \in Jobs : jobStatus[j] = "running" /\ \E s \in Steps : stepStatus[j][s] = "running"}

StaleJobs ==
  {j \in Jobs : /\ jobStatus[j] = "running"
                /\ \E s \in Steps : stepStatus[j][s] = "running" /\ beat[j][s] = "stale"}

FirstRunning(j) ==
  CHOOSE s \in Steps : /\ stepStatus[j][s] = "running"
                       /\ \A t \in Steps : t < s => stepStatus[j][t] # "running"

Oldest(j, status) ==
  /\ status[j] = "pending"
  /\ \A i \in Jobs : i < j => status[i] # "pending"

\* the worker takes job j: committed by the same transaction
Claim(w, j, status) ==
  /\ Oldest(j, status)
  /\ jobStatus' = [status EXCEPT ![j] = "running"]
  /\ pc'    = [pc EXCEPT ![w] = "claimed"]
  /\ jobOf' = [jobOf EXCEPT ![w] = j]

PollAndClaim(w) ==
  /\ pc[w] = "idle" /\ ~stopping[w]
  /\ StaleJobs = {}
  /\ \E j \in Jobs : Claim(w, j, jobStatus)
  /\ UNCHANGED <<stepStatus, attempt, beat, cur, held, cache, stopping, retry, budgets>>

PollAndRecover(w) ==
  /\ pc[w] = "idle" /\ ~stopping[w]
  /\ \E r \in StaleJobs, j \in Jobs :
       /\ stepStatus' = [stepStatus EXCEPT ![r][FirstRunning(r)] = "pending"]
       /\ beat'       = [beat EXCEPT ![r][FirstRunning(r)] = "fresh"]
       /\ Claim(w, j, [jobStatus EXCEPT ![r] = "pending"])
  /\ UNCHANGED <<attempt, cur, held, cache, stopping, retry, budgets>>

-----------------------------------------------------------------------------
(* JobOrchestrator.run_job *)

\* job.status = "running", commit; the handlers have been set up before this
MarkRunning(w) ==
  /\ pc[w] = "claimed"
  /\ jobStatus' = [jobStatus EXCEPT ![jobOf[w]] = "running"]
  /\ pc'        = [pc EXCEPT ![w] = "listing"]
  /\ UNCHANGED <<stepStatus, attempt, beat, session, stopping, retry, budgets>>

\* repository.list_steps: the cached objects of the whole run
ListSteps(w) ==
  /\ pc[w] = "listing"
  /\ seenStatus'  = [seenStatus EXCEPT ![w] = stepStatus[jobOf[w]]]
  /\ seenAttempt' = [seenAttempt EXCEPT ![w] = attempt[jobOf[w]]]
  /\ loaded'      = [loaded EXCEPT ![w] = Steps]
  /\ cur'         = [cur EXCEPT ![w] = 1]
  /\ pc'          = [pc EXCEPT ![w] = "loop"]
  /\ UNCHANGED <<db, jobOf, held, stopping, retry, budgets>>

\* an expired JobStep reloads its row when an attribute is read
Refresh(w) ==
  /\ pc[w] \in {"loop", "broke"}
  /\ cur[w] \notin loaded[w]
  /\ seenStatus'  = [seenStatus EXCEPT ![w][cur[w]] = stepStatus[jobOf[w]][cur[w]]]
  /\ seenAttempt' = [seenAttempt EXCEPT ![w][cur[w]] = attempt[jobOf[w]][cur[w]]]
  /\ loaded'      = [loaded EXCEPT ![w] = @ \cup {cur[w]}]
  /\ UNCHANGED <<db, pc, jobOf, cur, held, stopping, retry, budgets>>

\* step.step_key == "finalize_job"
IsFinalize(s) == s = N

\* step.status != "pending": the loop passes over the step
PassStep(w) ==
  /\ pc[w] = "loop"
  /\ cur[w] \in loaded[w] /\ ~IsFinalize(cur[w])
  /\ seenStatus[w][cur[w]] # "pending"
  /\ cur' = [cur EXCEPT ![w] = @ + 1]
  /\ UNCHANGED <<db, pc, jobOf, held, cache, stopping, retry, budgets>>

\* a bug this project looks for: the attempt is not counted
SameAttempt(w) == seenAttempt[w][cur[w]]

\* step.attempt_count += 1 on the cached object
NextAttempt(w) == seenAttempt[w][cur[w]] + 1

\* a bug this project looks for: the fence does not ask for a running step
FencedByAttempt(w) == attempt[jobOf[w]][cur[w]] = held[w]

\* the WHERE clause of every fenced UPDATE
Fenced(w) ==
  /\ stepStatus[jobOf[w]][cur[w]] = "running"
  /\ attempt[jobOf[w]][cur[w]] = held[w]

\* _run_step up to its first commit: written from the cached row, unfenced
StartStep(w) ==
  LET j == jobOf[w]
      s == cur[w]
      a == NextAttempt(w)
  IN  /\ pc[w] = "loop"
      /\ s \in loaded[w] /\ ~IsFinalize(s)
      /\ seenStatus[w][s] = "pending"
      /\ stepStatus'  = [stepStatus EXCEPT ![j][s] = "running"]
      /\ attempt'     = [attempt EXCEPT ![j][s] = a]
      /\ beat'        = [beat EXCEPT ![j][s] = "fresh"]
      /\ seenStatus'  = [seenStatus EXCEPT ![w][s] = "running"]
      /\ seenAttempt' = [seenAttempt EXCEPT ![w][s] = a]
      /\ held'        = [held EXCEPT ![w] = a]
      /\ pc'          = [pc EXCEPT ![w] = "handler"]
      /\ UNCHANGED <<jobStatus, jobOf, cur, loaded, stopping, retry, budgets>>

\* the worker's session on the job is gone
Forget(w) ==
  /\ jobOf'       = [jobOf EXCEPT ![w] = NoJob]
  /\ cur'         = [cur EXCEPT ![w] = 1]
  /\ held'        = [held EXCEPT ![w] = 0]
  /\ seenStatus'  = [seenStatus EXCEPT ![w] = [s \in Steps |-> "pending"]]
  /\ seenAttempt' = [seenAttempt EXCEPT ![w] = [s \in Steps |-> 0]]
  /\ loaded'      = [loaded EXCEPT ![w] = {}]

\* run_job returns and the worker polls again
Leave(w) == pc' = [pc EXCEPT ![w] = "idle"] /\ Forget(w)

\* heartbeat of a RAG handler that a poll had already judged stale or nearly so
Heartbeat(w) ==
  /\ pc[w] = "handler" /\ cur[w] \in RagSteps
  /\ Fenced(w)
  /\ beat[jobOf[w]][cur[w]] = "stale"
  /\ beat' = [beat EXCEPT ![jobOf[w]][cur[w]] = "fresh"]
  /\ UNCHANGED <<jobStatus, stepStatus, attempt, pc, session, stopping,
                 retry, budgets>>

\* outcomes a handler can give: an optional step may also be skipped
Outcomes(s) == IF s \in Required THEN {"succeeded", "failed"} ELSE Done

\* run_job: if not succeeded and step.is_required: break
Breaks(s, outcome) == outcome # "succeeded" /\ s \in Required

\* the handler's outcome is committed with the fenced UPDATE; a handler that
\* raised inside a transaction rolled back first and expired every cached row
FinishStep(w, outcome, rolledBack) ==
  LET j == jobOf[w]
      s == cur[w]
  IN  /\ pc[w] = "handler"
      /\ outcome \in Outcomes(s)
      /\ rolledBack => outcome = "failed"
      /\ Fenced(w)
      /\ stepStatus' = [stepStatus EXCEPT ![j][s] = outcome]
      /\ beat'       = [beat EXCEPT ![j][s] = "fresh"]
      /\ seenStatus' = [seenStatus EXCEPT ![w][s] = outcome]
      /\ loaded'     = [loaded EXCEPT ![w] = IF rolledBack THEN {} ELSE @]
      /\ IF Breaks(s, outcome)
         THEN pc' = [pc EXCEPT ![w] = "broke"] /\ UNCHANGED cur
         ELSE pc' = [pc EXCEPT ![w] = "loop"] /\ cur' = [cur EXCEPT ![w] = s + 1]
      /\ UNCHANGED <<jobStatus, attempt, jobOf, held, seenAttempt, stopping, retry, budgets>>

\* the fence rejects a heartbeat, a result or the outcome: everything the
\* handler wrote in this session is rolled back and the job is left alone
DiscardStale(w) ==
  /\ pc[w] = "handler"
  /\ ~Fenced(w)
  /\ Leave(w)
  /\ UNCHANGED <<db, stopping, retry, budgets>>

\* a bug this project looks for: the step is released, the job is not
JobNotReleased(status) == status

ReleasedJob(status) == IF status = "running" THEN "pending" ELSE status

\* WorkerShutdownRequested: _release_step, fenced, then the job if running
ReleaseStep(w) ==
  LET j == jobOf[w]
      s == cur[w]
  IN  /\ pc[w] = "handler" /\ s \in RagSteps /\ stopping[w]
      /\ Fenced(w)
      /\ stepStatus' = [stepStatus EXCEPT ![j][s] = "pending"]
      /\ beat'       = [beat EXCEPT ![j][s] = "fresh"]
      /\ jobStatus'  = [jobStatus EXCEPT ![j] = ReleasedJob(@)]
      /\ Leave(w)
      /\ UNCHANGED <<attempt, stopping, retry, budgets>>

\* _finalize, the read: the loop's list is gone and with it every cached
\* JobStep but the one the loop variable still holds
ReadForFinalize(w) ==
  LET s == cur[w]
  IN  /\ \/ pc[w] = "loop" /\ IsFinalize(s)
         \/ pc[w] = "broke"
      /\ s \in loaded[w]
      /\ seenStatus'  = [seenStatus EXCEPT
                           ![w] = [stepStatus[jobOf[w]] EXCEPT ![s] = seenStatus[w][s]]]
      /\ seenAttempt' = [seenAttempt EXCEPT
                           ![w] = [attempt[jobOf[w]] EXCEPT ![s] = seenAttempt[w][s]]]
      /\ loaded'      = [loaded EXCEPT ![w] = Steps]
      /\ pc'          = [pc EXCEPT ![w] = "finalizing"]
      /\ UNCHANGED <<db, jobOf, cur, held, stopping, retry, budgets>>

\* _finalize, the write: unfenced, only the columns whose cached value changes
CommitFinalize(w) ==
  LET j    == jobOf[w]
      seen == seenStatus[w]
  IN  /\ pc[w] = "finalizing"
      /\ jobStatus'  = [jobStatus EXCEPT ![j] = JobOutcome(seen)]
      /\ stepStatus' = [stepStatus EXCEPT ![j] = [s \in Steps |->
           IF s = N THEN IF seen[N] = "succeeded" THEN @[N] ELSE "succeeded"
           ELSE IF RequiredFailed(seen) /\ seen[s] = "pending" THEN "skipped"
           ELSE @[s]]]
      /\ attempt' = [attempt EXCEPT ![j][N] = seenAttempt[w][N] + 1]
      /\ Leave(w)
      /\ UNCHANGED <<beat, stopping, retry, budgets>>

-----------------------------------------------------------------------------
(* The process: SIGTERM, exit of run_forever, crash, restart by the runtime *)

Signal(w) ==
  /\ pc[w] # "down" /\ ~stopping[w] /\ signals < MaxSignals
  /\ stopping' = [stopping EXCEPT ![w] = TRUE]
  /\ signals'  = signals + 1
  /\ UNCHANGED <<db, pc, session, retry, crashes, late, retries>>

ExitLoop(w) ==
  /\ pc[w] = "idle" /\ stopping[w]
  /\ pc' = [pc EXCEPT ![w] = "down"]
  /\ UNCHANGED <<db, session, stopping, retry, budgets>>

Crash(w) ==
  /\ pc[w] # "down" /\ crashes < MaxCrashes
  /\ crashes' = crashes + 1
  /\ pc'      = [pc EXCEPT ![w] = "down"]
  /\ Forget(w)
  /\ UNCHANGED <<db, stopping, retry, signals, late, retries>>

Restart(w) ==
  /\ pc[w] = "down"
  /\ pc'       = [pc EXCEPT ![w] = "idle"]
  /\ stopping' = [stopping EXCEPT ![w] = FALSE]
  /\ UNCHANGED <<db, session, retry, budgets>>

-----------------------------------------------------------------------------
(* Time: WORKER_STALE_AFTER_SECONDS pass since the last heartbeat of a     *)
(* running step.  A live handler that lets that happen uses up MaxLate.    *)

HasLiveHandler(j, s) ==
  \E w \in Workers : /\ pc[w] = "handler" /\ jobOf[w] = j /\ cur[w] = s
                     /\ held[w] = attempt[j][s]

BecomeStale(j, s) ==
  /\ stepStatus[j][s] = "running" /\ beat[j][s] = "fresh"
  /\ beat' = [beat EXCEPT ![j][s] = "stale"]
  /\ IF HasLiveHandler(j, s)
     THEN late < MaxLate /\ late' = late + 1
     ELSE UNCHANGED late
  /\ UNCHANGED <<jobStatus, stepStatus, attempt, pc, session, stopping,
                 retry, crashes, signals, retries>>

-----------------------------------------------------------------------------
(* POST /jobs/{id}/retry: the rows are read without a lock, any failed step *)
(* may be the first whose error code is retryable, nothing checks that the  *)
(* job is settled; the rows that differ from "pending" are then written.    *)

ReadForRetry(j, f) ==
  /\ retry.job = NoJob /\ retries < MaxRetries
  /\ jobStatus[j] # "absent"
  /\ stepStatus[j][f] = "failed"
  /\ retry'   = [job |-> j, from |-> f, status |-> stepStatus[j], jobStatus |-> jobStatus[j]]
  /\ retries' = retries + 1
  /\ UNCHANGED <<db, pc, session, stopping, crashes, signals, late>>

CommitRetry ==
  LET j == retry.job
  IN  /\ j # NoJob
      /\ stepStatus' = [stepStatus EXCEPT ![j] = [s \in Steps |->
           IF s >= retry.from /\ retry.status[s] # "pending" THEN "pending" ELSE @[s]]]
      /\ jobStatus'  = [jobStatus EXCEPT ![j] = IF retry.jobStatus = "pending" THEN @ ELSE "pending"]
      /\ retry'      = NoRetry
      /\ UNCHANGED <<attempt, beat, pc, session, stopping, budgets>>

-----------------------------------------------------------------------------
(* The next-state relation *)

\* the steps a worker takes of its own accord
WorkerStep(w) ==
  \/ PollAndClaim(w) \/ PollAndRecover(w)
  \/ MarkRunning(w) \/ ListSteps(w)
  \/ Refresh(w) \/ PassStep(w) \/ StartStep(w)
  \/ \E o \in Done, b \in BOOLEAN : FinishStep(w, o, b)
  \/ DiscardStale(w) \/ ReleaseStep(w)
  \/ ReadForFinalize(w) \/ CommitFinalize(w)
  \/ ExitLoop(w) \/ Restart(w)

Environment ==
  \/ \E j \in Jobs : Submit(j)
  \/ \E w \in Workers : Heartbeat(w) \/ Signal(w) \/ Crash(w)
  \/ \E j \in Jobs, s \in Steps : BecomeStale(j, s)
  \/ CommitRetry

\* an operator who only retries a job that has settled
QuietRetry(j, f) == jobStatus[j] \in Settled /\ ReadForRetry(j, f)

\* the program as it is: the endpoint accepts a retry at any time
Next ==
  \/ \E w \in Workers : WorkerStep(w)
  \/ Environment
  \/ \E j \in Jobs, f \in Steps : ReadForRetry(j, f)

\* the program under the operator's discipline
QuietNext ==
  \/ \E w \in Workers : WorkerStep(w)
  \/ Environment
  \/ \E j \in Jobs, f \in Steps : QuietRetry(j, f)

Spec      == Init /\ [][Next]_vars
QuietSpec == Init /\ [][QuietNext]_vars

\* a worker process keeps running (restart: unless-stopped, run_forever, and
\* handlers whose external calls have timeouts), time passes for the rows of
\* dead executors, a request being served completes
Fairness ==
  /\ \A w \in Workers : WF_vars(WorkerStep(w))
  /\ \A j \in Jobs, s \in Steps : WF_vars(~HasLiveHandler(j, s) /\ BecomeStale(j, s))
  /\ WF_vars(CommitRetry)

FairQuietSpec == QuietSpec /\ Fairness

-----------------------------------------------------------------------------
(* The contract the rows implement: a running step is still to be done *)

VerdictOf(status) == IF status \in {"pending", "running"} THEN "open" ELSE status
ResultOf(status)  == IF status \in Done THEN status ELSE "todo"

Contract == INSTANCE JobContract WITH
  verdict <- [j \in Jobs |-> VerdictOf(jobStatus[j])],
  result  <- [j \in Jobs |-> [s \in Steps |-> ResultOf(stepStatus[j][s])]]

-----------------------------------------------------------------------------
(* Properties *)

\* the type invariant, in parts; a worker inside run_job has a job, and the
\* step it runs is never finalize_job
DbOK ==
  /\ jobStatus \in [Jobs -> JobStatus]
  /\ stepStatus \in [Jobs -> [Steps -> StepStatus]]
  /\ attempt \in [Jobs -> [Steps -> Nat]]
  /\ beat \in [Jobs -> [Steps -> {"fresh", "stale"}]]

WorkersOK ==
  /\ pc \in [Workers -> Places]
  /\ jobOf \in [Workers -> Jobs \cup {NoJob}]
  /\ cur \in [Workers -> Steps]
  /\ held \in [Workers -> Nat]
  /\ stopping \in [Workers -> BOOLEAN]
  /\ \A w \in Workers : /\ pc[w] \notin {"idle", "down"} => jobOf[w] \in Jobs
                        /\ pc[w] = "handler" => cur[w] # N

CacheOK ==
  /\ seenStatus \in [Workers -> [Steps -> StepStatus]]
  /\ seenAttempt \in [Workers -> [Steps -> Nat]]
  /\ loaded \in [Workers -> SUBSET Steps]

RetryOK ==
  /\ retry \in [job : Jobs \cup {NoJob}, from : Steps, status : [Steps -> StepStatus],
                jobStatus : JobStatus]
  /\ crashes \in Nat /\ signals \in Nat /\ late \in Nat /\ retries \in Nat

TypeOK == DbOK /\ WorkersOK /\ CacheOK /\ RetryOK

\* the worker has the job and nothing has fenced it out: it is between two
\* steps, or the row of the step it runs still carries its attempt
Executes(w, j) ==
  /\ jobOf[w] = j
  /\ \/ pc[w] \in {"claimed", "listing", "loop", "broke", "finalizing"}
     \/ /\ pc[w] = "handler"
        /\ stepStatus[j][cur[w]] = "running"
        /\ attempt[j][cur[w]] = held[w]

\* "The same job is executed by one worker only" (docs/04_pipeline_jobs.md):
\* two workers never both have a job without the fence having excluded one.
SingleExecutor ==
  \A j \in Jobs, v, w \in Workers : Executes(v, j) /\ Executes(w, j) => v = w

\* A settled job tells the truth about its steps: nothing is left to run, it
\* failed if and only if a required step did, and it succeeded if and only if
\* every step did.
SettledIsFinal ==
  \A j \in Jobs : jobStatus[j] \in Settled =>
    /\ \A s \in Steps : stepStatus[j][s] \in Done
    /\ jobStatus[j] = "failed" <=> \E s \in Required : stepStatus[j][s] = "failed"
    /\ jobStatus[j] = "succeeded" <=> \A s \in Steps : stepStatus[j][s] = "succeeded"

\* A step outcome, once committed, stays until an operator's retry: no
\* executor, however late, runs or overwrites a step that is done.
OutcomeStays ==
  [][\A j \in Jobs, s \in Steps :
       stepStatus[j][s] \in Done /\ stepStatus'[j][s] # stepStatus[j][s]
         => retry.job = j /\ retry'.job = NoJob]_vars

\* A step is not executed more often than something went wrong: every crash,
\* SIGTERM, late heartbeat or retry costs at most one more execution of it, which
\* is paid for at the owner's account with the providers.
ExecutionsBounded ==
  \A j \in Jobs, s \in Steps : attempt[j][s] <= 1 + crashes + signals + late + retries

\* The fencing token never goes back, so no old token becomes valid again.
AttemptNeverDecreases ==
  [][\A j \in Jobs, s \in Steps : attempt'[j][s] >= attempt[j][s]]_vars

\* The pipeline implements its contract: each step is completed once per
\* opening of the job, in order, and the verdict follows from the outcomes,
\* whatever workers crash, stop, stall or overtake each other.
ImplementsContract == Contract!Spec

\* Recovery works: a step row does not stay "running" for ever, whatever
\* happened to the process that set it.
RunningStepEnds ==
  \A j \in Jobs, s \in Steps : stepStatus[j][s] = "running" ~> stepStatus[j][s] # "running"

\* Every job that is queued settles, through redeploys and false recoveries.
EveryJobSettles ==
  \A j \in Jobs : jobStatus[j] = "pending" ~> jobStatus[j] \in Settled

\* "A running job with an old heartbeat is completed automatically by the next
\* worker poll" (docs/21_stale_job_recovery.md).
RunningJobSettles ==
  \A j \in Jobs : jobStatus[j] = "running" ~> jobStatus[j] \in Settled
=============================================================================
