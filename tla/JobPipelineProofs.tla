-------------------------- MODULE JobPipelineProofs --------------------------
(***************************************************************************)
(* Proofs about JobPipeline, for every number of jobs, workers and steps:  *)
(* the type invariant under both specifications, and, as long as jobs are  *)
(* retried only once they have settled, that a job has one executor, that  *)
(* a settled job is final, that attempts never decrease and are no more    *)
(* than what went wrong; and that the pipeline implements JobContract.     *)
(***************************************************************************)
EXTENDS JobPipeline, TLAPS

\* whoever executes a job does so while the row says "running": a job is never
\* pending, and so never claimable, under a live executor
ExecutedIsRunning ==
  \A w \in Workers, j \in Jobs : Executes(w, j) => jobStatus[j] = "running"

\* what holds of one worker: the handler's token is never ahead of the row
Token(w) == pc[w] = "handler" => held[w] <= attempt[jobOf[w]][cur[w]]

\* ... while it is between two steps, no step of its job is running
Gap(w) ==
  pc[w] \in {"claimed", "listing", "loop", "broke", "finalizing"} =>
    \A s \in Steps : stepStatus[jobOf[w]][s] # "running"

\* ... an executor's unexpired cache agrees with the rows
Coherent(w) ==
  pc[w] \in {"loop", "broke", "finalizing", "handler"} /\ Executes(w, jobOf[w]) =>
    \A s \in loaded[w] : /\ seenStatus[w][s] = stepStatus[jobOf[w]][s]
                         /\ seenAttempt[w][s] = attempt[jobOf[w]][s]

AfterFailure(status, s) == \E t \in Required \ {N} : t < s /\ status[t] = "failed"

\* ... every step before an executor's cursor is done, the loop is only left
\* over a failed required step, and when the verdict is taken whatever is not
\* done comes after a failed required step
Progress(w) ==
  /\ pc[w] \in {"loop", "broke", "handler"} /\ Executes(w, jobOf[w]) =>
        \A t \in Steps : t < cur[w] => stepStatus[jobOf[w]][t] \in Done
  /\ pc[w] = "broke" => /\ cur[w] \in Required \ {N}
                        /\ stepStatus[jobOf[w]][cur[w]] = "failed"
  /\ pc[w] = "finalizing" =>
        /\ loaded[w] = Steps
        /\ \A t \in Steps \ {N} : seenStatus[w][t] \in Done \/ AfterFailure(seenStatus[w], t)

\* ... an executor that has not left its loop has seen no required step fail
Unfailed(w) ==
  pc[w] \in {"claimed", "listing", "loop", "handler"} /\ Executes(w, jobOf[w]) =>
    ~RequiredFailed(stepStatus[jobOf[w]])

WorkerInv(w) == Token(w) /\ Gap(w) /\ Coherent(w) /\ Progress(w) /\ Unfailed(w)

\* what holds of one job: only a running job has a running step, and only one
OneRunningStep(j) ==
  \A s \in Steps : stepStatus[j][s] = "running" =>
    /\ jobStatus[j] = "running"
    /\ \A t \in Steps : stepStatus[j][t] = "running" => t = s

\* ... a required step is skipped only after another one has failed
SkippedAfterFailure(j) ==
  \A s \in Required : stepStatus[j][s] = "skipped" => AfterFailure(stepStatus[j], s)

\* ... a job that does not exist has run nothing
Untouched(j) ==
  jobStatus[j] = "absent" => \A s \in Steps : stepStatus[j][s] = "pending" /\ attempt[j][s] = 0

\* ... finalize_job is never run, only written as succeeded
NeverRun(j) == stepStatus[j][N] \in {"pending", "succeeded"}

\* ... steps are done in order, and nothing after a failed required step
Ordered(j) ==
  \A x, y \in Steps \ {N} : x < y =>
    /\ stepStatus[j][x] \notin Done => stepStatus[j][y] = "pending"
    /\ x \in Required /\ stepStatus[j][x] = "failed" => stepStatus[j][y] \in {"pending", "skipped"}

\* ... no required step of a job that is queued or being run has failed
Clean(j) ==
  jobStatus[j] = "pending" \/ (\E s \in Steps : stepStatus[j][s] = "running") =>
    ~RequiredFailed(stepStatus[j])

\* ... and a settled job is final
Final(j) ==
  jobStatus[j] \in Settled =>
    /\ \A s \in Steps : stepStatus[j][s] \in Done
    /\ jobStatus[j] = "failed" <=> \E s \in Required : stepStatus[j][s] = "failed"
    /\ jobStatus[j] = "succeeded" <=> \A s \in Steps : stepStatus[j][s] = "succeeded"

JobInv(j) ==
  /\ Untouched(j) /\ OneRunningStep(j) /\ SkippedAfterFailure(j) /\ NeverRun(j)
  /\ Ordered(j) /\ Clean(j) /\ Final(j)

\* the rows a retry has read are still the rows
RetryCoherent ==
  retry.job # NoJob => /\ retry.job \in Jobs
                       /\ jobStatus[retry.job] \in Settled
                       /\ retry.status = stepStatus[retry.job]
                       /\ retry.status[retry.from] = "failed"
                       /\ retry.jobStatus = jobStatus[retry.job]

IInv ==
  /\ TypeOK
  /\ \A w \in Workers : WorkerInv(w)
  /\ \A j \in Jobs : JobInv(j)
  /\ ExecutedIsRunning /\ SingleExecutor /\ RetryCoherent

-----------------------------------------------------------------------------
(* Typing.  Next allows every step QuietNext does, so one proof serves both. *)

LEMMA QuietIsNext == QuietNext => Next
BY DEF QuietNext, Next, QuietRetry

\* a worker that forgets its session leaves a well-typed one behind
LEMMA ForgetTypes ==
  ASSUME NEW w \in Workers, TypeOK, Forget(w), NEW place \in {"idle", "down"},
         pc' = [pc EXCEPT ![w] = place], stopping' = stopping
  PROVE  WorkersOK' /\ CacheOK'
<1>1. WorkersOK'
  BY VocabularyAssumption DEF Forget, TypeOK, WorkersOK, Steps, Places
<1>2. CacheOK'
  BY VocabularyAssumption DEF Forget, TypeOK, CacheOK, Steps, StepStatus
<1> QED
  BY <1>1, <1>2

LEMMA TypeInit == Init => TypeOK
<1> SUFFICES ASSUME Init PROVE TypeOK
  OBVIOUS
<1> USE VocabularyAssumption DEF Init, Steps
<1>1. DbOK
  BY DEF DbOK, StepStatus, JobStatus
<1>2. WorkersOK
  BY DEF WorkersOK, Places
<1>3. CacheOK
  BY DEF CacheOK, StepStatus
<1>4. RetryOK
  BY DEF RetryOK, NoRetry, StepStatus, JobStatus
<1> QED
  BY <1>1, <1>2, <1>3, <1>4 DEF TypeOK

LEMMA TypeWorker ==
  ASSUME TypeOK, NEW w \in Workers, WorkerStep(w)
  PROVE  TypeOK'
<1> USE VocabularyAssumption DEF TypeOK
<1>1. RetryOK'
  BY DEF WorkerStep, PollAndClaim, PollAndRecover, MarkRunning, ListSteps, Refresh, PassStep,
     StartStep, FinishStep, DiscardStale, ReleaseStep, ReadForFinalize, CommitFinalize,
     ExitLoop, Restart, RetryOK, budgets
<1>2. ASSUME NEW status \in [Jobs -> JobStatus], NEW j \in Jobs, Claim(w, j, status),
             UNCHANGED <<cur, held, stopping>>
      PROVE  WorkersOK' /\ jobStatus' \in [Jobs -> JobStatus]
  BY <1>2 DEF Claim, WorkersOK, JobStatus, Places
<1>3. CASE PollAndClaim(w)
  <2>1. WorkersOK' /\ jobStatus' \in [Jobs -> JobStatus]
    BY <1>2, <1>3 DEF PollAndClaim, DbOK
  <2> QED
    BY <2>1, <1>1, <1>3 DEF PollAndClaim, DbOK, CacheOK, cache
<1>4. CASE PollAndRecover(w)
  <2> PICK r \in StaleJobs, j \in Jobs :
        /\ stepStatus' = [stepStatus EXCEPT ![r][FirstRunning(r)] = "pending"]
        /\ beat'       = [beat EXCEPT ![r][FirstRunning(r)] = "fresh"]
        /\ Claim(w, j, [jobStatus EXCEPT ![r] = "pending"])
    BY <1>4 DEF PollAndRecover
  <2>1. r \in Jobs /\ [jobStatus EXCEPT ![r] = "pending"] \in [Jobs -> JobStatus]
    BY DEF StaleJobs, DbOK, JobStatus
  <2>2. stepStatus' \in [Jobs -> [Steps -> StepStatus]]
    BY <2>1 DEF DbOK, StepStatus
  <2>3. beat' \in [Jobs -> [Steps -> {"fresh", "stale"}]]
    BY <2>1 DEF DbOK
  <2>4. WorkersOK' /\ jobStatus' \in [Jobs -> JobStatus]
    BY <1>2, <1>4, <2>1 DEF PollAndRecover
  <2> QED
    BY <1>1, <1>4, <2>2, <2>3, <2>4 DEF PollAndRecover, DbOK, CacheOK, cache
<1>5. CASE MarkRunning(w)
  <2>1. DbOK'
    BY <1>5 DEF MarkRunning, DbOK, JobStatus
  <2>2. WorkersOK' /\ CacheOK'
    BY <1>5 DEF MarkRunning, WorkersOK, CacheOK, Places, session, cache
  <2> QED
    BY <1>1, <2>1, <2>2
<1>6. CASE ListSteps(w)
  <2>1. DbOK'
    BY <1>6 DEF ListSteps, DbOK, db
  <2>2. WorkersOK'
    BY <1>6 DEF ListSteps, WorkersOK, Steps, Places
  <2>3. CacheOK'
    BY <1>6 DEF ListSteps, WorkersOK, DbOK, CacheOK
  <2> QED
    BY <1>1, <2>1, <2>2, <2>3
<1>7. CASE Refresh(w)
  <2>1. DbOK' /\ WorkersOK'
    BY <1>7 DEF Refresh, DbOK, WorkersOK, db
  <2>2. jobOf[w] \in Jobs /\ cur[w] \in Steps
    BY <1>7 DEF Refresh, WorkersOK
  <2>3. CacheOK'
    BY <1>7, <2>2 DEF Refresh, DbOK, CacheOK
  <2> QED
    BY <1>1, <2>1, <2>3
<1>8. CASE PassStep(w)
  <2>1. WorkersOK'
    BY <1>8 DEF PassStep, IsFinalize, WorkersOK, Steps
  <2> QED
    BY <1>1, <1>8, <2>1 DEF PassStep, DbOK, CacheOK, db, cache
<1>9. CASE StartStep(w)
  <2>0. jobOf[w] \in Jobs /\ cur[w] \in Steps
    BY <1>9 DEF StartStep, WorkersOK
  <2>1. jobOf[w] \in Jobs /\ cur[w] \in Steps /\ NextAttempt(w) \in Nat
    BY <2>0 DEF NextAttempt, CacheOK
  <2>2. DbOK'
    BY <1>9, <2>1 DEF StartStep, DbOK, StepStatus
  <2>3. WorkersOK'
    BY <1>9, <2>1 DEF StartStep, IsFinalize, WorkersOK, Places
  <2>4. CacheOK'
    BY <1>9, <2>1 DEF StartStep, CacheOK, StepStatus
  <2> QED
    BY <1>1, <2>2, <2>3, <2>4
<1>10. ASSUME NEW o \in Done, NEW b \in BOOLEAN, FinishStep(w, o, b)
       PROVE  TypeOK'
  <2>1. jobOf[w] \in Jobs /\ cur[w] \in Steps /\ cur[w] # N
    BY <1>10 DEF FinishStep, WorkersOK
  <2>2. DbOK'
    BY <1>10, <2>1 DEF FinishStep, DbOK, StepStatus
  <2>3. WorkersOK'
    BY <1>10, <2>1 DEF FinishStep, WorkersOK, Places, Steps
  <2>4. CacheOK'
    BY <1>10, <2>1 DEF FinishStep, CacheOK, StepStatus
  <2> QED
    BY <1>1, <2>2, <2>3, <2>4
<1>11. CASE DiscardStale(w)
  BY <1>1, <1>11, ForgetTypes DEF DiscardStale, Leave, DbOK, db
<1>12. CASE ReleaseStep(w)
  <2>1. jobOf[w] \in Jobs /\ cur[w] \in Steps
    BY <1>12 DEF ReleaseStep, WorkersOK
  <2>2. DbOK'
    BY <1>12, <2>1 DEF ReleaseStep, ReleasedJob, DbOK, StepStatus, JobStatus
  <2> QED
    BY <1>1, <1>12, <2>2, ForgetTypes DEF ReleaseStep, Leave
<1>13. CASE ReadForFinalize(w)
  <2>1. jobOf[w] \in Jobs /\ cur[w] \in Steps
    BY <1>13 DEF ReadForFinalize, WorkersOK
  <2>2. CacheOK'
    BY <1>13, <2>1 DEF ReadForFinalize, CacheOK, DbOK
  <2>3. DbOK' /\ WorkersOK'
    BY <1>13, <2>1 DEF ReadForFinalize, DbOK, WorkersOK, Places, db
  <2> QED
    BY <1>1, <2>2, <2>3
<1>14. CASE CommitFinalize(w)
  <2>1. jobOf[w] \in Jobs /\ N \in Steps
    BY <1>14 DEF CommitFinalize, WorkersOK, Steps
  <2>2. JobOutcome(seenStatus[w]) \in JobStatus
    BY DEF JobOutcome, JobStatus, Settled
  <2>3. jobStatus' \in [Jobs -> JobStatus] /\ attempt' \in [Jobs -> [Steps -> Nat]]
    BY <1>14, <2>1, <2>2 DEF CommitFinalize, DbOK, CacheOK
  <2>4. stepStatus' \in [Jobs -> [Steps -> StepStatus]]
    BY <1>14, <2>1 DEF CommitFinalize, DbOK, StepStatus, Done
  <2> QED
    BY <1>1, <1>14, <2>3, <2>4, ForgetTypes DEF CommitFinalize, Leave, DbOK
<1>15. CASE ExitLoop(w)
  BY <1>1, <1>15 DEF ExitLoop, DbOK, WorkersOK, CacheOK, Places, db, session, cache
<1>16. CASE Restart(w)
  BY <1>1, <1>16 DEF Restart, DbOK, WorkersOK, CacheOK, Places, db, session, cache
<1> QED
  BY <1>3, <1>4, <1>5, <1>6, <1>7, <1>8, <1>9, <1>10, <1>11, <1>12, <1>13, <1>14, <1>15,
     <1>16 DEF WorkerStep

LEMMA TypeEnvironment ==
  ASSUME TypeOK, Environment
  PROVE  TypeOK'
<1> USE VocabularyAssumption DEF TypeOK
<1>1. ASSUME NEW j \in Jobs, Submit(j)
      PROVE  TypeOK'
  <2>1. DbOK'
    BY <1>1 DEF Submit, DbOK, StepStatus, JobStatus, Done
  <2> QED
    BY <1>1, <2>1 DEF Submit, WorkersOK, CacheOK, RetryOK, session, cache, budgets
<1>2. ASSUME NEW w \in Workers, Heartbeat(w)
      PROVE  TypeOK'
  <2>1. DbOK'
    BY <1>2 DEF Heartbeat, DbOK
  <2> QED
    BY <1>2, <2>1 DEF Heartbeat, WorkersOK, CacheOK, RetryOK, session, cache, budgets
<1>3. ASSUME NEW w \in Workers, Signal(w)
      PROVE  TypeOK'
  BY <1>3 DEF Signal, DbOK, WorkersOK, CacheOK, RetryOK, db, session, cache, budgets
<1>4. ASSUME NEW w \in Workers, Crash(w)
      PROVE  TypeOK'
  <2>1. WorkersOK' /\ CacheOK'
    BY <1>4, ForgetTypes DEF Crash
  <2> QED
    BY <1>4, <2>1 DEF Crash, DbOK, RetryOK, db
<1>5. ASSUME NEW j \in Jobs, NEW s \in Steps, BecomeStale(j, s)
      PROVE  TypeOK'
  <2>1. DbOK'
    BY <1>5 DEF BecomeStale, DbOK
  <2> QED
    BY <1>5, <2>1 DEF BecomeStale, WorkersOK, CacheOK, RetryOK, session, cache
<1>6. CASE CommitRetry
  <2>1. retry.job \in Jobs
    BY <1>6 DEF CommitRetry, RetryOK
  <2>2. DbOK'
    BY <1>6, <2>1 DEF CommitRetry, DbOK, StepStatus, JobStatus
  <2>3. RetryOK'
    BY <1>6 DEF CommitRetry, NoRetry, RetryOK, budgets, Steps, StepStatus, JobStatus
  <2> QED
    BY <1>6, <2>2, <2>3 DEF CommitRetry, WorkersOK, CacheOK, session, cache
<1> QED
  BY <1>1, <1>2, <1>3, <1>4, <1>5, <1>6 DEF Environment

LEMMA TypeRetry ==
  ASSUME TypeOK, NEW j \in Jobs, NEW f \in Steps, ReadForRetry(j, f)
  PROVE  TypeOK'
<1>1. RetryOK'
  BY DEF ReadForRetry, TypeOK, RetryOK, DbOK
<1> QED
  BY <1>1 DEF ReadForRetry, TypeOK, DbOK, WorkersOK, CacheOK, db, session, cache

LEMMA TypeNext == TypeOK /\ [Next]_vars => TypeOK'
<1> SUFFICES ASSUME TypeOK, [Next]_vars PROVE TypeOK'
  OBVIOUS
<1>1. CASE UNCHANGED vars
  BY <1>1 DEF vars, TypeOK, DbOK, WorkersOK, CacheOK, RetryOK, db, session, cache, budgets
<1> QED
  BY <1>1, TypeWorker, TypeEnvironment, TypeRetry DEF Next

\* Type correctness of the program as it is: whatever workers, operators and
\* crashes do, a worker inside run_job has a job and never runs finalize_job
\* as a step.
THEOREM TypeCorrect == Spec => []TypeOK
BY TypeInit, TypeNext, PTL DEF Spec

THEOREM QuietTypeCorrect == QuietSpec => []TypeOK
<1>1. TypeOK /\ [QuietNext]_vars => TypeOK'
  BY TypeNext, QuietIsNext
<1> QED
  BY <1>1, TypeInit, PTL DEF QuietSpec

-----------------------------------------------------------------------------
(* The inductive invariant *)

LEMMA InvInit == Init => IInv
<1> SUFFICES ASSUME Init PROVE IInv
  OBVIOUS
<1>1. TypeOK
  BY TypeInit
<1>2. \A w \in Workers : pc[w] = "idle"
  BY DEF Init
<1>3. \A j \in Jobs, s \in Steps : stepStatus[j][s] = "pending" /\ jobStatus[j] = "absent"
  BY DEF Init
<1>4. ExecutedIsRunning /\ SingleExecutor /\ \A w \in Workers : WorkerInv(w)
  BY <1>2, <1>3 DEF ExecutedIsRunning, SingleExecutor, WorkerInv, Token, Gap, Coherent,
     Progress, Unfailed, Executes
<1>5. RetryCoherent /\ \A j \in Jobs : JobInv(j)
  <2>1. \A j \in Jobs : SkippedAfterFailure(j) /\ NeverRun(j)
    BY <1>3, VocabularyAssumption DEF SkippedAfterFailure, NeverRun, Steps
  <2>2. \A j \in Jobs : Ordered(j) /\ Clean(j)
    BY <1>3, VocabularyAssumption DEF Ordered, Clean, RequiredFailed, Steps
  <2> QED
    BY <2>1, <2>2, <1>3 DEF Init, RetryCoherent, JobInv, Untouched, OneRunningStep, Final, NoRetry, Settled
<1> QED
  BY <1>1, <1>4, <1>5 DEF IInv

\* an executor's job is running, and no other worker executes it
LEMMA SoleExecutor ==
  ASSUME IInv, NEW w \in Workers, NEW j \in Jobs, Executes(w, j)
  PROVE  jobStatus[j] = "running" /\ \A v \in Workers \ {w} : ~Executes(v, j)
BY DEF IInv, ExecutedIsRunning, SingleExecutor

\* a step that skips nothing and withdraws no failure
LEMMA SkippedKept ==
  ASSUME IInv, NEW j \in Jobs,
         \A x \in Required : stepStatus'[j][x] = "skipped" => stepStatus[j][x] = "skipped",
         \A x \in Required : stepStatus[j][x] = "failed" => stepStatus'[j][x] = "failed"
  PROVE  SkippedAfterFailure(j)'
BY DEF IInv, JobInv, SkippedAfterFailure, AfterFailure

\* recovery resets the one running step of a stale job
LEMMA RecoversRunning ==
  ASSUME IInv, NEW r \in StaleJobs
  PROVE  /\ FirstRunning(r) \in Steps /\ stepStatus[r][FirstRunning(r)] = "running"
         /\ \A x \in Steps : stepStatus[r][x] = "running" => x = FirstRunning(r)
<1>1. PICK s \in Steps :
        stepStatus[r][s] = "running" /\ \A t \in Steps : stepStatus[r][t] = "running" => t = s
  BY DEF StaleJobs, IInv, JobInv, OneRunningStep
<1>2. \A x \in Steps : ~(x < x)
  BY DEF Steps
<1> QED
  BY <1>1, <1>2 DEF FirstRunning

\* a step leaves worker v where it is
SameWorker(v) ==
  /\ pc'[v] = pc[v] /\ jobOf'[v] = jobOf[v] /\ cur'[v] = cur[v] /\ held'[v] = held[v]
  /\ seenStatus'[v] = seenStatus[v] /\ seenAttempt'[v] = seenAttempt[v]
  /\ loaded'[v] = loaded[v]

\* a step leaves the rows of job i as they are
SameJob(i) ==
  jobStatus'[i] = jobStatus[i] /\ stepStatus'[i] = stepStatus[i] /\ attempt'[i] = attempt[i]

\* a step of job j that starts nothing under an old attempt gives no worker
\* the fence had excluded, and no worker elsewhere, a hold on the job
LEMMA NotRevived ==
  ASSUME IInv, NEW v \in Workers, NEW j \in Jobs, SameWorker(v), ~Executes(v, j),
         \A x \in Steps : stepStatus'[j][x] = "running" =>
            \/ stepStatus[j][x] = "running" /\ attempt'[j][x] = attempt[j][x]
            \/ attempt'[j][x] \in Nat /\ attempt'[j][x] > attempt[j][x]
  PROVE  ~Executes(v, j)'
BY DEF IInv, TypeOK, DbOK, WorkersOK, WorkerInv, Token, SameWorker, Executes

\* a bystander's invariants survive what happens to jobs it does not execute
LEMMA Bystander ==
  ASSUME IInv, TypeOK', NEW v \in Workers, SameWorker(v),
         NEW T \in SUBSET Jobs,
         \A i \in Jobs \ T : SameJob(i),
         \A i \in T, x \in Steps : attempt'[i][x] >= attempt[i][x],
         \A i \in T : ~Executes(v, i)'
  PROVE  /\ WorkerInv(v)'
         /\ \A i \in Jobs : Executes(v, i)' => Executes(v, i) /\ i \notin T
<1> USE DEF SameWorker, SameJob
<1>1. pc[v] \notin {"idle", "down"} => jobOf[v] \in Jobs
  BY DEF IInv, TypeOK, WorkersOK
<1>2. \A i \in Jobs : Executes(v, i)' => Executes(v, i) /\ i \notin T
  BY DEF Executes
<1>3. Token(v)'
  <2> SUFFICES ASSUME pc[v] = "handler"
               PROVE  held[v] <= attempt'[jobOf[v]][cur[v]]
    BY DEF Token
  <2>1. jobOf[v] \in Jobs /\ cur[v] \in Steps /\ held[v] \in Nat
        /\ attempt[jobOf[v]][cur[v]] \in Nat /\ attempt'[jobOf[v]][cur[v]] \in Nat
    BY <1>1 DEF IInv, TypeOK, DbOK, WorkersOK
  <2>2. held[v] <= attempt[jobOf[v]][cur[v]]
    BY DEF IInv, WorkerInv, Token
  <2> QED
    BY <2>1, <2>2
<1>4. Gap(v)' /\ Coherent(v)' /\ Progress(v)' /\ Unfailed(v)'
  <2>1. CASE Executes(v, jobOf[v])'
    BY <1>1, <1>2, <2>1 DEF IInv, WorkerInv, Gap, Coherent, Progress, Unfailed, Executes
  <2>2. CASE ~Executes(v, jobOf[v])'
    BY <1>1, <2>2 DEF Gap, Coherent, Progress, Unfailed, Executes
  <2> QED
    BY <2>1, <2>2
<1> QED
  BY <1>2, <1>3, <1>4 DEF WorkerInv

\* what a step taken by worker w (or by no worker: A is empty) on the jobs in T
\* has to show
LEMMA Frame ==
  ASSUME IInv, TypeOK', NEW A \in SUBSET Workers, NEW T \in SUBSET Jobs,
         \A u, v \in A : u = v,
         \A v \in Workers \ A : SameWorker(v),
         \A i \in Jobs \ T : SameJob(i),
         \A i \in T, x \in Steps : attempt'[i][x] >= attempt[i][x],
         \A v \in Workers \ A, i \in T : ~Executes(v, i)',
         \A w \in A, i \in Jobs : Executes(w, i)' => i \in T /\ jobStatus'[i] = "running",
         \A w \in A : WorkerInv(w)',
         \A i \in T : JobInv(i)',
         RetryCoherent'
  PROVE  IInv'
<1>1. \A v \in Workers \ A :
         WorkerInv(v)' /\ \A i \in Jobs : Executes(v, i)' => Executes(v, i) /\ i \notin T
  BY Bystander
<1>2. \A w \in Workers : WorkerInv(w)'
  BY <1>1
<1>3. \A i \in Jobs : JobInv(i)'
  BY DEF IInv, JobInv, Untouched, OneRunningStep, SkippedAfterFailure, NeverRun, AfterFailure,
     Ordered, Clean, Final, SameJob
<1>4. ExecutedIsRunning'
  BY <1>1 DEF IInv, ExecutedIsRunning, SameJob
<1>5. SingleExecutor'
  BY <1>1 DEF IInv, SingleExecutor
<1> QED
  BY <1>2, <1>3, <1>4, <1>5 DEF IInv

\* a retry in flight is of a settled job, which no step of an executor touches
LEMMA RetryFrame ==
  ASSUME IInv, NEW T \in SUBSET Jobs, \A i \in Jobs \ T : SameJob(i), retry' = retry,
         \A i \in T : jobStatus[i] \notin Settled
  PROVE  RetryCoherent'
BY DEF IInv, RetryCoherent, SameJob

\* Frame for a step of the executor of job j
LEMMA OwnStep ==
  ASSUME IInv, TypeOK', NEW w \in Workers, NEW j \in Jobs, Executes(w, j), retry' = retry,
         \A v \in Workers \ {w} : SameWorker(v),
         \A i \in Jobs \ {j} : SameJob(i),
         \A x \in Steps :
            \/ attempt'[j][x] = attempt[j][x]
               /\ (stepStatus'[j][x] = "running" => stepStatus[j][x] = "running")
            \/ attempt'[j][x] = attempt[j][x] + 1,
         \A i \in Jobs : Executes(w, i)' => i = j /\ jobStatus'[j] = "running",
         WorkerInv(w)', JobInv(j)'
  PROVE  IInv'
<1> DEFINE A == {w}
           T == {j}
<1>1. jobStatus[j] = "running" /\ \A v \in Workers \ {w} : ~Executes(v, j)
  BY SoleExecutor
<1>2. \A x \in Steps : attempt[j][x] \in Nat /\ attempt'[j][x] \in Nat
  BY DEF IInv, TypeOK, DbOK
<1>3. \A v \in Workers \ {w} : ~Executes(v, j)'
  BY <1>1, <1>2, NotRevived
<1>4. /\ A \in SUBSET Workers /\ T \in SUBSET Jobs
      /\ \A u, v \in A : u = v
      /\ \A v \in Workers \ A : SameWorker(v)
      /\ \A i \in Jobs \ T : SameJob(i)
      /\ \A i \in T, x \in Steps : attempt'[i][x] >= attempt[i][x]
      /\ \A v \in Workers \ A, i \in T : ~Executes(v, i)'
      /\ \A v \in A, i \in Jobs : Executes(v, i)' => i \in T /\ jobStatus'[i] = "running"
      /\ \A v \in A : WorkerInv(v)'
      /\ \A i \in T : JobInv(i)'
      /\ \A i \in T : jobStatus[i] \notin Settled
  BY <1>1, <1>2, <1>3 DEF Settled
<1> HIDE DEF A, T
<1>5. RetryCoherent'
  BY <1>4, RetryFrame
<1> QED
  BY <1>4, <1>5, Frame

\* Frame for a step that changes no row, and after which at most one worker
\* has moved, to a place where it has no job
LEMMA NoRowStep ==
  ASSUME IInv, TypeOK', NEW A \in SUBSET Workers, \A u, v \in A : u = v,
         \A v \in Workers \ A : SameWorker(v),
         \A v \in A : pc'[v] \in {"idle", "down"},
         \A i \in Jobs : SameJob(i),
         RetryCoherent'
  PROVE  IInv'
<1> DEFINE T == {}
<1>1. \A v \in A, i \in Jobs : ~Executes(v, i)'
  BY DEF Executes
<1>2. \A v \in A : WorkerInv(v)'
  BY DEF WorkerInv, Token, Gap, Coherent, Progress, Unfailed
<1>3. /\ T \in SUBSET Jobs
      /\ \A i \in Jobs \ T : SameJob(i)
      /\ \A i \in T, x \in Steps : attempt'[i][x] >= attempt[i][x]
      /\ \A v \in Workers \ A, i \in T : ~Executes(v, i)'
      /\ \A v \in A, i \in Jobs : Executes(v, i)' => i \in T /\ jobStatus'[i] = "running"
      /\ \A i \in T : JobInv(i)'
  BY <1>1
<1> HIDE DEF T
<1> QED
  BY <1>2, <1>3, Frame

LEMMA InvStart ==
  ASSUME IInv, TypeOK', NEW w \in Workers, StartStep(w)
  PROVE  IInv'
<1>1. jobOf[w] \in Jobs /\ cur[w] \in Steps
  BY DEF IInv, StartStep, TypeOK, WorkersOK
<1> PICK j \in Jobs, s \in Steps : j = jobOf[w] /\ s = cur[w]
  BY <1>1
<1>2. s # N /\ Executes(w, j)
  BY DEF StartStep, IsFinalize, Executes
<1>3. NextAttempt(w) = attempt[j][s] + 1 /\ attempt[j][s] \in Nat
  BY <1>2 DEF IInv, WorkerInv, Coherent, StartStep, NextAttempt, TypeOK, DbOK
<1>4. jobStatus[j] = "running" /\ \A x \in Steps : stepStatus[j][x] # "running"
  BY <1>2, SoleExecutor DEF IInv, WorkerInv, Gap, StartStep
<1>5. /\ \A v \in Workers \ {w} : SameWorker(v)
      /\ \A i \in Jobs \ {j} : SameJob(i)
      /\ retry' = retry
  BY DEF IInv, TypeOK, DbOK, WorkersOK, CacheOK, StartStep, SameWorker, SameJob
<1>6. \A x \in Steps :
        /\ attempt'[j][x] = (IF x = s THEN attempt[j][x] + 1 ELSE attempt[j][x])
        /\ stepStatus'[j][x] = (IF x = s THEN "running" ELSE stepStatus[j][x])
        /\ attempt[j][x] \in Nat
  BY <1>3 DEF IInv, TypeOK, DbOK, StartStep
<1>7. /\ pc'[w] = "handler" /\ jobOf'[w] = j /\ cur'[w] = s /\ held'[w] = attempt[j][s] + 1
      /\ jobStatus'[j] = "running" /\ loaded'[w] = loaded[w]
  BY <1>3, <1>4 DEF IInv, TypeOK, WorkersOK, StartStep
<1>8. ~RequiredFailed(stepStatus[j]) /\ ~RequiredFailed(stepStatus'[j])
  <2>1. ~RequiredFailed(stepStatus[j])
    BY <1>2 DEF IInv, WorkerInv, Unfailed, StartStep
  <2> QED
    BY <2>1, <1>6, VocabularyAssumption DEF RequiredFailed, Steps
<1>9. WorkerInv(w)'
  <2>1. Token(w)' /\ Gap(w)'
    BY <1>6, <1>7 DEF Token, Gap
  <2>2. \A x \in loaded[w] :
          /\ seenStatus'[w][x] = (IF x = s THEN "running" ELSE seenStatus[w][x])
          /\ seenAttempt'[w][x] = (IF x = s THEN attempt[j][s] + 1 ELSE seenAttempt[w][x])
    BY <1>3 DEF IInv, TypeOK, CacheOK, StartStep
  <2>3. Coherent(w)'
    BY <1>2, <1>6, <1>7, <2>2 DEF IInv, TypeOK, CacheOK, WorkerInv, Coherent, StartStep
  <2>4. Progress(w)'
    BY <1>2, <1>6, <1>7, VocabularyAssumption DEF IInv, WorkerInv, Progress, StartStep, Steps
  <2>5. Unfailed(w)'
    BY <1>2, <1>6, <1>7, <1>8 DEF Unfailed
  <2> QED
    BY <2>1, <2>3, <2>4, <2>5 DEF WorkerInv
<1>10. JobInv(j)'
  <2>1. stepStatus[j][s] = "pending" /\ Required \subseteq Steps
    BY <1>2, VocabularyAssumption DEF IInv, WorkerInv, Coherent, StartStep, Steps
  <2>2. SkippedAfterFailure(j)'
    BY <2>1, <1>6, SkippedKept
  <2>3. NeverRun(j)'
    BY <1>2, <1>6, VocabularyAssumption DEF IInv, JobInv, NeverRun, Steps
  <2>4. \A x \in Steps : x < s => stepStatus[j][x] \in Done
    BY <1>2 DEF IInv, WorkerInv, Progress, StartStep
  <2>5. Ordered(j)'
    BY <2>1, <2>4, <1>2, <1>6, <1>8 DEF IInv, JobInv, Ordered, RequiredFailed, Done
  <2>6. Clean(j)'
    BY <1>8 DEF Clean
  <2> QED
    BY <2>2, <2>3, <2>5, <2>6, <1>4, <1>6, <1>7
       DEF JobInv, Untouched, OneRunningStep, Final, Settled
<1>11. \A i \in Jobs : Executes(w, i)' => i = j /\ jobStatus'[j] = "running"
  BY <1>7 DEF Executes
<1> QED
  BY <1>2, <1>5, <1>6, <1>9, <1>10, <1>11, OwnStep

\* the steps of an executor that leave all the rows as they are
LEMMA InvReads ==
  ASSUME IInv, TypeOK', NEW w \in Workers,
         MarkRunning(w) \/ ListSteps(w) \/ Refresh(w) \/ PassStep(w) \/ ReadForFinalize(w)
  PROVE  IInv'
<1>1. jobOf[w] \in Jobs /\ cur[w] \in Steps
  BY DEF IInv, MarkRunning, ListSteps, Refresh, PassStep, ReadForFinalize, TypeOK, WorkersOK
<1> PICK j \in Jobs, s \in Steps : j = jobOf[w] /\ s = cur[w]
  BY <1>1
<1>2. Executes(w, j)
  BY DEF MarkRunning, ListSteps, Refresh, PassStep, ReadForFinalize, Executes
<1>3. jobStatus[j] = "running" /\ \A x \in Steps : stepStatus[j][x] # "running"
  BY <1>2, SoleExecutor
     DEF IInv, WorkerInv, Gap, MarkRunning, ListSteps, Refresh, PassStep, ReadForFinalize
<1>4. /\ \A v \in Workers \ {w} : SameWorker(v)
      /\ \A i \in Jobs : SameJob(i)
      /\ retry' = retry /\ jobOf'[w] = j
  BY <1>3 DEF IInv, TypeOK, DbOK, WorkersOK, CacheOK, SameWorker, SameJob, db, session, cache,
     MarkRunning, ListSteps, Refresh, PassStep, ReadForFinalize
<1>5. jobStatus'[j] = "running" /\ stepStatus'[j] = stepStatus[j] /\ attempt'[j] = attempt[j]
  BY <1>3, <1>4 DEF SameJob
<1>6. pc'[w] \in {"listing", "loop", "broke", "finalizing"}
  BY DEF IInv, TypeOK, WorkersOK, MarkRunning, ListSteps, Refresh, PassStep, ReadForFinalize
<1>7. Token(w)' /\ Gap(w)'
  BY <1>3, <1>4, <1>5, <1>6 DEF Token, Gap
<1>8. Coherent(w)' /\ Progress(w)'
  <2>1. CASE MarkRunning(w)
    BY <2>1, <1>6 DEF MarkRunning, Coherent, Progress, IInv, TypeOK, WorkersOK
  <2>2. CASE ListSteps(w)
    <3>1. /\ pc'[w] = "loop" /\ cur'[w] = 1 /\ loaded'[w] = Steps
          /\ seenStatus'[w] = stepStatus[j] /\ seenAttempt'[w] = attempt[j]
      BY <2>2 DEF ListSteps, IInv, TypeOK, WorkersOK, CacheOK
    <3> QED
      BY <3>1, <1>4, <1>5 DEF Coherent, Progress, Steps
  <2>3. CASE Refresh(w)
    <3>1. /\ pc'[w] = pc[w] /\ cur'[w] = s /\ loaded'[w] = loaded[w] \cup {s}
          /\ pc[w] \in {"loop", "broke"} /\ loaded[w] \subseteq Steps
          /\ \A x \in Steps :
               /\ seenStatus'[w][x] = (IF x = s THEN stepStatus[j][s] ELSE seenStatus[w][x])
               /\ seenAttempt'[w][x] = (IF x = s THEN attempt[j][s] ELSE seenAttempt[w][x])
      BY <2>3 DEF Refresh, IInv, TypeOK, WorkersOK, CacheOK
    <3>2. Coherent(w)'
      BY <3>1, <1>2, <1>4, <1>5 DEF IInv, WorkerInv, Coherent
    <3>3. Progress(w)'
      BY <3>1, <1>2, <1>4, <1>5 DEF IInv, WorkerInv, Progress
    <3> QED
      BY <3>2, <3>3
  <2>4. CASE PassStep(w)
    <3>1. /\ pc[w] = "loop" /\ pc'[w] = "loop" /\ cur'[w] = s + 1 /\ loaded'[w] = loaded[w]
          /\ seenStatus'[w] = seenStatus[w] /\ seenAttempt'[w] = seenAttempt[w]
          /\ s \in loaded[w] /\ seenStatus[w][s] # "pending"
      BY <2>4 DEF PassStep, IInv, TypeOK, WorkersOK, cache
    <3>2. Coherent(w)'
      BY <3>1, <1>2, <1>4, <1>5 DEF IInv, WorkerInv, Coherent
    <3>3. stepStatus[j][s] \in Done
      BY <3>1, <1>2, <1>3 DEF IInv, WorkerInv, Coherent, TypeOK, DbOK, StepStatus
    <3>4. Progress(w)'
      BY <3>1, <3>3, <1>2, <1>4, <1>5 DEF IInv, WorkerInv, Progress, Steps
    <3> QED
      BY <3>2, <3>4
  <2>5. CASE ReadForFinalize(w)
    <3>1. /\ pc'[w] = "finalizing" /\ cur'[w] = s /\ loaded'[w] = Steps /\ s \in loaded[w]
          /\ (pc[w] = "loop" /\ s = N) \/ pc[w] = "broke"
          /\ \A x \in Steps :
               /\ seenStatus'[w][x] = (IF x = s THEN seenStatus[w][s] ELSE stepStatus[j][x])
               /\ seenAttempt'[w][x] = (IF x = s THEN seenAttempt[w][s] ELSE attempt[j][x])
      BY <2>5 DEF ReadForFinalize, IsFinalize, IInv, TypeOK, DbOK, WorkersOK, CacheOK
    <3>2. seenStatus[w][s] = stepStatus[j][s] /\ seenAttempt[w][s] = attempt[j][s]
      BY <3>1, <1>2 DEF IInv, WorkerInv, Coherent
    <3>3. Coherent(w)'
      BY <3>1, <3>2, <1>4, <1>5 DEF Coherent
    <3>4. \A x \in Steps \ {N} : stepStatus[j][x] \in Done \/ AfterFailure(stepStatus[j], x)
      BY <3>1, <1>2, VocabularyAssumption DEF IInv, WorkerInv, Progress, AfterFailure, Done, Steps
    <3>5. Required \subseteq Steps /\ \A x \in Steps : seenStatus'[w][x] = stepStatus[j][x]
      BY <3>1, <3>2, VocabularyAssumption DEF Steps
    <3>6. Progress(w)'
      BY <3>1, <3>4, <3>5 DEF Progress, AfterFailure
    <3> QED
      BY <3>3, <3>6
  <2> QED
    BY <2>1, <2>2, <2>3, <2>4, <2>5
<1>9. WorkerInv(w)'
  <2>1. Unfailed(w)'
    BY <1>2, <1>4, <1>5, <1>6 DEF IInv, WorkerInv, Unfailed, MarkRunning, ListSteps, Refresh,
       PassStep, ReadForFinalize, TypeOK, WorkersOK
  <2> QED
    BY <2>1, <1>7, <1>8 DEF WorkerInv
<1>10. JobInv(j)'
  <2>1. SkippedAfterFailure(j)'
    BY <1>5, SkippedKept
  <2>2. NeverRun(j)'
    BY <1>5 DEF IInv, JobInv, NeverRun
  <2>3. Ordered(j)' /\ Clean(j)'
    BY <1>3, <1>5 DEF IInv, JobInv, Ordered, Clean
  <2> QED
    BY <2>1, <2>2, <2>3, <1>3, <1>5 DEF JobInv, Untouched, OneRunningStep, Final, Settled
<1>11. \A i \in Jobs : Executes(w, i)' => i = j /\ jobStatus'[j] = "running"
  BY <1>4, <1>5 DEF Executes
<1>12. /\ \A x \in Steps :
             \/ attempt'[j][x] = attempt[j][x]
                /\ (stepStatus'[j][x] = "running" => stepStatus[j][x] = "running")
             \/ attempt'[j][x] = attempt[j][x] + 1
       /\ \A i \in Jobs \ {j} : SameJob(i)
  BY <1>4, <1>5
<1> QED
  BY <1>2, <1>4, <1>9, <1>10, <1>11, <1>12, OwnStep

LEMMA InvFinish ==
  ASSUME IInv, TypeOK', NEW w \in Workers, NEW o \in Done, NEW b \in BOOLEAN,
         FinishStep(w, o, b)
  PROVE  IInv'
<1>1. jobOf[w] \in Jobs /\ cur[w] \in Steps
  BY DEF IInv, FinishStep, TypeOK, WorkersOK
<1> PICK j \in Jobs, s \in Steps : j = jobOf[w] /\ s = cur[w]
  BY <1>1
<1>2. Executes(w, j) /\ s # N /\ stepStatus[j][s] = "running"
  BY DEF FinishStep, Fenced, Executes, IInv, TypeOK, WorkersOK
<1>3. jobStatus[j] = "running" /\ \A x \in Steps : stepStatus[j][x] = "running" => x = s
  BY <1>2, SoleExecutor DEF IInv, JobInv, OneRunningStep
<1>4. /\ \A v \in Workers \ {w} : SameWorker(v)
      /\ \A i \in Jobs \ {j} : SameJob(i)
      /\ retry' = retry /\ jobOf'[w] = j /\ jobStatus'[j] = "running" /\ attempt'[j] = attempt[j]
  BY <1>3 DEF IInv, TypeOK, DbOK, WorkersOK, CacheOK, FinishStep, SameWorker, SameJob
<1>5. \A x \in Steps :
        stepStatus'[j][x] = (IF x = s THEN o ELSE stepStatus[j][x])
  BY DEF IInv, TypeOK, DbOK, FinishStep
<1>6. \A x \in Steps : stepStatus'[j][x] # "running"
  BY <1>3, <1>5 DEF Done
<1>7. /\ loaded'[w] \subseteq loaded[w] /\ loaded[w] \subseteq Steps
      /\ seenAttempt'[w] = seenAttempt[w]
      /\ \A x \in Steps : seenStatus'[w][x] = (IF x = s THEN o ELSE seenStatus[w][x])
      /\ \/ pc'[w] = "broke" /\ cur'[w] = s /\ Breaks(s, o)
         \/ pc'[w] = "loop" /\ cur'[w] = s + 1
  BY <1>2 DEF IInv, TypeOK, WorkersOK, CacheOK, FinishStep
<1>8. pc'[w] = "loop" => ~RequiredFailed(stepStatus'[j])
  <2>1. ~RequiredFailed(stepStatus[j])
    BY <1>2 DEF IInv, WorkerInv, Unfailed, FinishStep
  <2>2. Required \subseteq Steps /\ (pc'[w] = "loop" /\ s \in Required => o # "failed")
    BY <1>2, VocabularyAssumption DEF FinishStep, Breaks, IInv, TypeOK, WorkersOK, Steps
  <2> QED
    BY <2>1, <2>2, <1>5 DEF RequiredFailed
<1>9. WorkerInv(w)'
  <2>1. Token(w)' /\ Gap(w)'
    BY <1>4, <1>6, <1>7 DEF Token, Gap
  <2>2. \A x \in loaded[w] : /\ seenStatus[w][x] = stepStatus[j][x]
                             /\ seenAttempt[w][x] = attempt[j][x]
    BY <1>2 DEF IInv, WorkerInv, Coherent, FinishStep
  <2>3. Coherent(w)'
    BY <2>2, <1>4, <1>5, <1>7 DEF Coherent
  <2>4. \A t \in Steps : t < s => stepStatus[j][t] \in Done
    BY <1>2 DEF IInv, WorkerInv, Progress, FinishStep
  <2>5. Breaks(s, o) => s \in Required \ {N} /\ o = "failed"
    BY <1>2 DEF Breaks, FinishStep, Outcomes
  <2>6. Progress(w)'
    BY <2>4, <2>5, <1>4, <1>5, <1>7 DEF Progress, Steps
  <2>7. Unfailed(w)'
    BY <1>4, <1>7, <1>8 DEF Unfailed
  <2> QED
    BY <2>1, <2>3, <2>6, <2>7 DEF WorkerInv
<1>10. JobInv(j)'
  <2>1. Required \subseteq Steps /\ (s \in Required => o # "skipped")
    BY VocabularyAssumption DEF FinishStep, Outcomes, Steps
  <2>2. SkippedAfterFailure(j)'
    BY <2>1, <1>2, <1>5, SkippedKept
  <2>3. NeverRun(j)'
    BY <1>2, <1>5, VocabularyAssumption DEF IInv, JobInv, NeverRun, Steps
  <2>4. Ordered(j)'
    <3>1. ~RequiredFailed(stepStatus[j])
      BY <1>2 DEF IInv, WorkerInv, Unfailed, FinishStep
    <3> QED
      BY <3>1, <1>2, <1>5 DEF IInv, JobInv, Ordered, RequiredFailed, Done
  <2>5. Clean(j)'
    BY <1>4, <1>6 DEF Clean
  <2> QED
    BY <2>2, <2>3, <2>4, <2>5, <1>4, <1>6
       DEF JobInv, Untouched, OneRunningStep, Final, Settled
<1>11. \A i \in Jobs : Executes(w, i)' => i = j /\ jobStatus'[j] = "running"
  BY <1>4 DEF Executes
<1>12. \A x \in Steps :
         \/ attempt'[j][x] = attempt[j][x]
            /\ (stepStatus'[j][x] = "running" => stepStatus[j][x] = "running")
         \/ attempt'[j][x] = attempt[j][x] + 1
  BY <1>4, <1>6
<1> QED
  BY <1>2, <1>4, <1>9, <1>10, <1>11, <1>12, OwnStep

\* a worker whose session is over satisfies what is asked of a worker
LEMMA Idle ==
  ASSUME NEW w \in Workers, pc'[w] \in {"idle", "down"}
  PROVE  WorkerInv(w)' /\ \A i \in Jobs : ~Executes(w, i)'
BY DEF WorkerInv, Token, Gap, Coherent, Progress, Unfailed, Executes

LEMMA InvRelease ==
  ASSUME IInv, TypeOK', NEW w \in Workers, ReleaseStep(w)
  PROVE  IInv'
<1>1. jobOf[w] \in Jobs /\ cur[w] \in Steps
  BY DEF IInv, ReleaseStep, TypeOK, WorkersOK
<1> PICK j \in Jobs, s \in Steps : j = jobOf[w] /\ s = cur[w]
  BY <1>1
<1>2. Executes(w, j)
  BY DEF ReleaseStep, Fenced, Executes
<1>3. jobStatus[j] = "running" /\ \A x \in Steps : stepStatus[j][x] = "running" => x = s
  BY <1>2, SoleExecutor DEF IInv, JobInv, OneRunningStep, ReleaseStep, Fenced
<1>4. /\ \A v \in Workers \ {w} : SameWorker(v)
      /\ \A i \in Jobs \ {j} : SameJob(i)
      /\ retry' = retry /\ pc'[w] = "idle" /\ attempt'[j] = attempt[j]
      /\ jobStatus'[j] = "pending"
  BY <1>3 DEF IInv, TypeOK, DbOK, WorkersOK, CacheOK, ReleaseStep, ReleasedJob, Leave, Forget,
     SameWorker, SameJob
<1>5. \A x \in Steps : stepStatus'[j][x] = (IF x = s THEN "pending" ELSE stepStatus[j][x])
  BY DEF IInv, TypeOK, DbOK, ReleaseStep
<1>6. \A x \in Steps : stepStatus'[j][x] # "running"
  BY <1>3, <1>5
<1>7. JobInv(j)'
  <2>1. Required \subseteq Steps /\ stepStatus[j][s] = "running"
    BY VocabularyAssumption DEF ReleaseStep, Fenced, Steps
  <2>2. SkippedAfterFailure(j)'
    BY <2>1, <1>5, SkippedKept
  <2>3. NeverRun(j)'
    BY <1>5, VocabularyAssumption DEF IInv, JobInv, NeverRun, Steps
  <2>4. ~RequiredFailed(stepStatus[j])
    BY <2>1 DEF IInv, JobInv, Clean
  <2>5. Ordered(j)'
    BY <2>1, <2>4, <1>5 DEF IInv, JobInv, Ordered, RequiredFailed, Done
  <2>6. Clean(j)'
    BY <2>1, <2>4, <1>5 DEF Clean, RequiredFailed
  <2> QED
    BY <2>2, <2>3, <2>5, <2>6, <1>4, <1>6
       DEF JobInv, Untouched, OneRunningStep, Final, Settled
<1>8. \A x \in Steps :
        \/ attempt'[j][x] = attempt[j][x]
           /\ (stepStatus'[j][x] = "running" => stepStatus[j][x] = "running")
        \/ attempt'[j][x] = attempt[j][x] + 1
  BY <1>4, <1>6
<1>9. WorkerInv(w)' /\ \A i \in Jobs : ~Executes(w, i)'
  BY <1>4, Idle
<1> QED
  BY <1>2, <1>4, <1>7, <1>8, <1>9, OwnStep

\* the verdict: an executor's cached rows are the rows, so it is the right one
LEMMA InvFinalize ==
  ASSUME IInv, TypeOK', NEW w \in Workers, CommitFinalize(w)
  PROVE  IInv'
<1>1. jobOf[w] \in Jobs
  BY DEF IInv, CommitFinalize, TypeOK, WorkersOK
<1> PICK j \in Jobs : j = jobOf[w]
  BY <1>1
<1>2. Executes(w, j) /\ N \in Steps /\ Required \subseteq Steps /\ N \in Required
  BY VocabularyAssumption DEF CommitFinalize, Executes, Steps
<1>3. jobStatus[j] = "running" /\ \A x \in Steps : stepStatus[j][x] # "running"
  BY <1>2, SoleExecutor DEF IInv, WorkerInv, Gap, CommitFinalize
<1>4. \A x \in Steps :
        /\ seenStatus[w][x] = stepStatus[j][x] /\ seenAttempt[w][x] = attempt[j][x]
        /\ x # N => stepStatus[j][x] \in Done \/ AfterFailure(stepStatus[j], x)
  BY <1>2 DEF IInv, WorkerInv, Coherent, Progress, AfterFailure, CommitFinalize
<1>5. /\ \A v \in Workers \ {w} : SameWorker(v)
      /\ \A i \in Jobs \ {j} : SameJob(i)
      /\ retry' = retry /\ pc'[w] = "idle"
      /\ jobStatus'[j] = JobOutcome(seenStatus[w])
  BY <1>1 DEF IInv, TypeOK, DbOK, WorkersOK, CacheOK, CommitFinalize, Leave, Forget,
     SameWorker, SameJob
<1>6. \A x \in Steps :
        /\ attempt'[j][x] = (IF x = N THEN attempt[j][x] + 1 ELSE attempt[j][x])
        /\ stepStatus'[j][x] =
             (IF x = N THEN "succeeded"
              ELSE IF RequiredFailed(seenStatus[w]) /\ stepStatus[j][x] = "pending"
              THEN "skipped" ELSE stepStatus[j][x])
  BY <1>2, <1>4 DEF IInv, TypeOK, DbOK, CommitFinalize
<1>7. \A x \in Steps : stepStatus'[j][x] \in Done
  <2>1. \A x \in Steps : AfterFailure(stepStatus[j], x) => RequiredFailed(seenStatus[w])
    BY <1>2, <1>4 DEF AfterFailure, RequiredFailed
  <2>2. \A x \in Steps : stepStatus[j][x] \in Done \cup {"pending"}
    BY <1>3 DEF IInv, TypeOK, DbOK, StepStatus
  <2> QED
    BY <2>1, <2>2, <1>4, <1>6 DEF Done
<1>8. RequiredFailed(seenStatus[w]) <=> \E x \in Required : stepStatus'[j][x] = "failed"
  <2>1. \A x \in Steps \ {N} : stepStatus'[j][x] = "failed" <=> seenStatus[w][x] = "failed"
    BY <1>4, <1>6
  <2>2. stepStatus'[j][N] # "failed"
    BY <1>2, <1>6
  <2> QED
    BY <2>1, <2>2, <1>2 DEF RequiredFailed
<1>9. ~RequiredFailed(seenStatus[w]) =>
        (OptionalIncomplete(seenStatus[w]) <=> \E x \in Steps : stepStatus'[j][x] # "succeeded")
  <2> SUFFICES ASSUME ~RequiredFailed(seenStatus[w])
               PROVE  OptionalIncomplete(seenStatus[w]) <=>
                        \E x \in Steps : stepStatus'[j][x] # "succeeded"
    OBVIOUS
  <2>1. /\ \A x \in Steps \ {N} : stepStatus'[j][x] = seenStatus[w][x]
        /\ stepStatus'[j][N] = "succeeded"
    BY <1>2, <1>4, <1>6
  <2>2. \A x \in Required : ~AfterFailure(stepStatus[j], x)
    BY <1>2, <1>4 DEF AfterFailure, RequiredFailed
  <2>3. \A x \in Required \ {N} : seenStatus[w][x] = "succeeded"
    BY <2>2, <1>2, <1>4
       DEF IInv, JobInv, SkippedAfterFailure, RequiredFailed, Done
  <2> QED
    BY <2>1, <2>3, <1>2, <1>4, <1>7 DEF OptionalIncomplete, Done
<1>10. JobInv(j)'
  <2>1. OneRunningStep(j)'
    BY <1>7 DEF OneRunningStep, Done
  <2>2. SkippedAfterFailure(j)'
    <3>1. \A x \in Required \ {N} : stepStatus[j][x] = "failed" => stepStatus'[j][x] = "failed"
      BY <1>2, <1>6
    <3>2. \A x \in Required : stepStatus'[j][x] = "skipped" =>
            x # N /\ (stepStatus[j][x] = "skipped" \/ stepStatus[j][x] = "pending")
      BY <1>2, <1>6
    <3> QED
      BY <3>1, <3>2, <1>2, <1>4
         DEF IInv, JobInv, SkippedAfterFailure, AfterFailure, Done
  <2>3. (\E x \in Required : stepStatus'[j][x] = "failed") => \E x \in Steps : stepStatus'[j][x] # "succeeded"
    BY <1>2
  <2>4. Final(j)'
    BY <2>3, <1>5, <1>7, <1>8, <1>9 DEF Final, JobOutcome, Settled
  <2>5. Untouched(j)'
    BY <1>5 DEF Untouched, JobOutcome
  <2>6. NeverRun(j)'
    BY <1>2, <1>6 DEF NeverRun
  <2>7. Ordered(j)'
    BY <1>6, <1>7 DEF IInv, JobInv, Ordered, Done
  <2>8. Clean(j)'
    BY <1>5, <1>7 DEF Clean, JobOutcome, Done
  <2> QED
    BY <2>1, <2>2, <2>4, <2>5, <2>6, <2>7, <2>8 DEF JobInv
<1>11. \A x \in Steps :
         \/ attempt'[j][x] = attempt[j][x]
            /\ (stepStatus'[j][x] = "running" => stepStatus[j][x] = "running")
         \/ attempt'[j][x] = attempt[j][x] + 1
  BY <1>6, <1>7 DEF Done
<1>12. WorkerInv(w)' /\ \A i \in Jobs : ~Executes(w, i)'
  BY <1>5, Idle
<1> QED
  BY <1>2, <1>5, <1>10, <1>11, <1>12, OwnStep

\* the steps after which a worker has no job and no row has changed
LEMMA InvLeave ==
  ASSUME IInv, TypeOK', NEW w \in Workers,
         DiscardStale(w) \/ Crash(w) \/ ExitLoop(w) \/ Restart(w)
  PROVE  IInv'
<1> DEFINE A == {w}
<1>1. /\ A \in SUBSET Workers /\ \A u, v \in A : u = v
      /\ \A v \in Workers \ A : SameWorker(v)
      /\ \A v \in A : pc'[v] \in {"idle", "down"}
  BY DEF IInv, TypeOK, WorkersOK, CacheOK, SameWorker, DiscardStale, Crash, ExitLoop, Restart,
     Leave, Forget, session, cache
<1>2. RetryCoherent' /\ \A i \in Jobs : SameJob(i)
  BY DEF IInv, RetryCoherent, SameJob, DiscardStale, Crash, ExitLoop, Restart, db
<1> HIDE DEF A
<1> QED
  BY <1>1, <1>2, NoRowStep

\* the steps that change neither a row nor the place of a worker
LEMMA InvUnmoved ==
  ASSUME IInv, TypeOK', UNCHANGED <<jobStatus, stepStatus, attempt, pc, session>>,
         RetryCoherent'
  PROVE  IInv'
<1> DEFINE A == {}
<1>1. /\ A \in SUBSET Workers /\ \A u, v \in A : u = v
      /\ \A v \in Workers \ A : SameWorker(v)
      /\ \A v \in A : pc'[v] \in {"idle", "down"}
      /\ \A i \in Jobs : SameJob(i)
  BY DEF SameWorker, SameJob, session, cache
<1> HIDE DEF A
<1> QED
  BY <1>1, NoRowStep

\* Frame for a poll by worker w: job r goes back to the queue and job j, which
\* may be the same one, is claimed
LEMMA ClaimStep ==
  ASSUME IInv, TypeOK', NEW w \in Workers, NEW j \in Jobs, NEW r \in Jobs,
         retry' = retry, attempt' = attempt, pc'[w] = "claimed", jobOf'[w] = j,
         \A v \in Workers \ {w} : SameWorker(v),
         \A i \in Jobs \ {j, r} : SameJob(i),
         \A i \in {j, r} : /\ jobStatus[i] \notin Settled
                           /\ \A x \in Steps : stepStatus'[i][x] # "running"
                           /\ SkippedAfterFailure(i)' /\ NeverRun(i)' /\ Ordered(i)'
                           /\ ~RequiredFailed(stepStatus'[i])
                           /\ \A v \in Workers \ {w} : ~Executes(v, i)',
         jobStatus'[j] = "running", r # j => jobStatus'[r] = "pending"
  PROVE  IInv'
<1> DEFINE A == {w}
           T == {j, r}
<1>1. WorkerInv(w)'
  BY DEF WorkerInv, Token, Gap, Coherent, Progress, Unfailed
<1>2. \A i \in {j, r} : JobInv(i)'
  BY DEF JobInv, Untouched, Clean, OneRunningStep, Final, Settled
<1>3. \A i \in Jobs : Executes(w, i)' => i = j
  BY DEF Executes
<1>4. \A i \in Jobs, x \in Steps : attempt'[i][x] >= attempt[i][x]
  BY DEF IInv, TypeOK, DbOK
<1>5. /\ A \in SUBSET Workers /\ T \in SUBSET Jobs
      /\ \A u, v \in A : u = v
      /\ \A v \in Workers \ A : SameWorker(v)
      /\ \A i \in Jobs \ T : SameJob(i)
      /\ \A i \in T, x \in Steps : attempt'[i][x] >= attempt[i][x]
      /\ \A v \in Workers \ A, i \in T : ~Executes(v, i)'
      /\ \A v \in A, i \in Jobs : Executes(v, i)' => i \in T /\ jobStatus'[i] = "running"
      /\ \A v \in A : WorkerInv(v)'
      /\ \A i \in T : JobInv(i)'
      /\ \A i \in T : jobStatus[i] \notin Settled
  BY <1>1, <1>2, <1>3, <1>4
<1> HIDE DEF A, T
<1>6. RetryCoherent'
  BY <1>5, RetryFrame
<1> QED
  BY <1>5, <1>6, Frame

LEMMA InvClaim ==
  ASSUME IInv, TypeOK', NEW w \in Workers, PollAndClaim(w)
  PROVE  IInv'
<1> PICK j \in Jobs : Claim(w, j, jobStatus)
  BY DEF PollAndClaim
<1>1. /\ \A v \in Workers \ {w} : SameWorker(v)
      /\ \A i \in Jobs \ {j} : SameJob(i)
      /\ retry' = retry /\ attempt' = attempt /\ stepStatus' = stepStatus
      /\ pc'[w] = "claimed" /\ jobOf'[w] = j
      /\ jobStatus[j] = "pending" /\ jobStatus'[j] = "running"
  BY DEF IInv, TypeOK, DbOK, WorkersOK, PollAndClaim, Claim, Oldest, SameWorker, SameJob, cache
<1>2. \A v \in Workers : ~Executes(v, j)
  BY <1>1 DEF IInv, ExecutedIsRunning
<1>3. \A v \in Workers \ {w} : ~Executes(v, j)'
  BY <1>1, <1>2 DEF SameWorker, Executes
<1>4. \A x \in Steps : stepStatus'[j][x] # "running"
  BY <1>1 DEF IInv, JobInv, OneRunningStep
<1>5. /\ SkippedAfterFailure(j)' /\ NeverRun(j)' /\ Ordered(j)'
      /\ ~RequiredFailed(stepStatus'[j])
  <2>1. NeverRun(j)' /\ Ordered(j)' /\ ~RequiredFailed(stepStatus'[j])
    BY <1>1 DEF IInv, JobInv, NeverRun, Ordered, Clean
  <2> QED
    BY <2>1, <1>1, SkippedKept
<1> QED
  BY <1>1, <1>3, <1>4, <1>5, ClaimStep DEF Settled

\* the recovered job has one running step, so none of its rows is running
\* afterwards and whoever was executing it is fenced out
LEMMA InvRecover ==
  ASSUME IInv, TypeOK', NEW w \in Workers, PollAndRecover(w)
  PROVE  IInv'
<1> PICK r \in StaleJobs, j \in Jobs :
      /\ stepStatus' = [stepStatus EXCEPT ![r][FirstRunning(r)] = "pending"]
      /\ Claim(w, j, [jobStatus EXCEPT ![r] = "pending"])
  BY DEF PollAndRecover
<1>1. r \in Jobs /\ jobStatus[r] = "running" /\ \E x \in Steps : stepStatus[r][x] = "running"
  BY DEF StaleJobs
<1>2. PICK s \in Steps : s = FirstRunning(r)
  BY RecoversRunning
<1>3. stepStatus[r][s] = "running" /\ \A x \in Steps : stepStatus[r][x] = "running" => x = s
  BY <1>2, RecoversRunning
<1>4. /\ \A v \in Workers \ {w} : SameWorker(v)
      /\ \A i \in Jobs \ {j, r} : SameJob(i)
      /\ retry' = retry /\ attempt' = attempt
      /\ pc'[w] = "claimed" /\ jobOf'[w] = j
      /\ jobStatus'[j] = "running"
      /\ (j # r => jobStatus[j] = "pending" /\ jobStatus'[r] = "pending")
  <2>1. /\ \A v \in Workers \ {w} : SameWorker(v)
        /\ retry' = retry /\ attempt' = attempt
        /\ pc'[w] = "claimed" /\ jobOf'[w] = j
    BY DEF IInv, TypeOK, WorkersOK, PollAndRecover, Claim, SameWorker, cache
  <2>2. /\ \A i \in Jobs \ {j, r} : jobStatus'[i] = jobStatus[i]
        /\ jobStatus'[j] = "running"
        /\ (j # r => jobStatus[j] = "pending" /\ jobStatus'[r] = "pending")
    BY <1>1 DEF IInv, TypeOK, DbOK, Claim, Oldest
  <2>3. \A i \in Jobs \ {r} : stepStatus'[i] = stepStatus[i]
    BY <1>1 DEF IInv, TypeOK, DbOK
  <2> QED
    BY <2>1, <2>2, <2>3 DEF SameJob
<1>5. /\ \A x \in Steps : stepStatus'[r][x] = (IF x = s THEN "pending" ELSE stepStatus[r][x])
      /\ j # r => stepStatus'[j] = stepStatus[j]
  BY <1>1, <1>2, <1>3 DEF IInv, TypeOK, DbOK
<1>6. \A i \in {j, r}, x \in Steps : stepStatus'[i][x] # "running"
  <2>1. j # r => \A x \in Steps : stepStatus[j][x] # "running"
    BY <1>4 DEF IInv, JobInv, OneRunningStep
  <2> QED
    BY <2>1, <1>3, <1>5
<1>7. \A v \in Workers \ {w} : ~Executes(v, r)'
  <2>1. \A v \in Workers : pc[v] \in {"claimed", "listing", "loop", "broke", "finalizing"} => jobOf[v] # r
    BY <1>1 DEF IInv, WorkerInv, Gap
  <2>2. \A v \in Workers : pc[v] = "handler" => cur[v] \in Steps
    BY DEF IInv, TypeOK, WorkersOK
  <2> QED
    BY <2>1, <2>2, <1>4, <1>6 DEF Executes, SameWorker
<1>8. j # r => \A v \in Workers \ {w} : ~Executes(v, j)'
  <2>1. j # r => \A v \in Workers : ~Executes(v, j)
    BY <1>4 DEF IInv, ExecutedIsRunning
  <2> QED
    BY <2>1, <1>4, <1>5 DEF Executes, SameWorker
<1>9. \A i \in {j, r} : /\ SkippedAfterFailure(i)' /\ NeverRun(i)' /\ Ordered(i)'
                        /\ ~RequiredFailed(stepStatus'[i])
  <2>1. Required \subseteq Steps
    BY VocabularyAssumption DEF Steps
  <2>2. SkippedAfterFailure(r)'
    BY <2>1, <1>1, <1>3, <1>5, SkippedKept
  <2>3. j # r => SkippedAfterFailure(j)'
    BY <1>5, SkippedKept
  <2>4. NeverRun(r)' /\ NeverRun(j)'
    BY <1>1, <1>5, VocabularyAssumption DEF IInv, JobInv, NeverRun, Steps
  <2>5. ~RequiredFailed(stepStatus[r]) /\ (j # r => ~RequiredFailed(stepStatus[j]))
    BY <1>1, <1>4 DEF IInv, JobInv, Clean
  <2>6. /\ ~RequiredFailed(stepStatus'[r]) /\ Ordered(r)'
    BY <2>1, <2>5, <1>1, <1>3, <1>5 DEF IInv, JobInv, Ordered, RequiredFailed, Done
  <2>7. j # r => ~RequiredFailed(stepStatus'[j]) /\ Ordered(j)'
    BY <2>5, <1>5 DEF IInv, JobInv, Ordered
  <2> QED
    BY <2>2, <2>3, <2>4, <2>6, <2>7
<1>10. \A i \in {j, r} : jobStatus[i] \notin Settled
  BY <1>1, <1>4 DEF Settled
<1> QED
  BY <1>1, <1>4, <1>6, <1>7, <1>8, <1>9, <1>10, ClaimStep

\* Frame for a step of no worker on a job nobody executes
LEMMA OutsideStep ==
  ASSUME IInv, TypeOK', NEW j \in Jobs, jobStatus[j] # "running", RetryCoherent',
         UNCHANGED <<pc, session>>,
         \A i \in Jobs \ {j} : SameJob(i),
         \A x \in Steps : attempt'[j][x] >= attempt[j][x] /\ stepStatus'[j][x] # "running",
         JobInv(j)'
  PROVE  IInv'
<1> DEFINE A == {}
           T == {j}
<1>1. \A v \in Workers : SameWorker(v)
  BY DEF SameWorker, session, cache
<1>2. \A v \in Workers : ~Executes(v, j)'
  <2>1. \A v \in Workers : ~Executes(v, j) /\ (pc[v] = "handler" => cur[v] \in Steps)
    BY DEF IInv, ExecutedIsRunning, TypeOK, WorkersOK
  <2> QED
    BY <1>1, <2>1 DEF Executes, SameWorker
<1>3. /\ A \in SUBSET Workers /\ T \in SUBSET Jobs
      /\ \A u, v \in A : u = v
      /\ \A v \in Workers \ A : SameWorker(v)
      /\ \A i \in Jobs \ T : SameJob(i)
      /\ \A i \in T, x \in Steps : attempt'[i][x] >= attempt[i][x]
      /\ \A v \in Workers \ A, i \in T : ~Executes(v, i)'
      /\ \A v \in A, i \in Jobs : Executes(v, i)' => i \in T /\ jobStatus'[i] = "running"
      /\ \A v \in A : WorkerInv(v)'
      /\ \A i \in T : JobInv(i)'
  BY <1>1, <1>2
<1> HIDE DEF A, T
<1> QED
  BY <1>3, Frame

LEMMA InvSubmit ==
  ASSUME IInv, TypeOK', NEW j \in Jobs, Submit(j)
  PROVE  IInv'
<1>1. 1 \in Steps /\ Required \subseteq Steps
  BY VocabularyAssumption DEF Steps
<1>2. \A x \in Steps : stepStatus[j][x] = "pending" /\ attempt[j][x] = 0
  BY DEF IInv, JobInv, Untouched, Submit
<1>3. \A x \in Steps :
        /\ attempt'[j][x] = (IF x = 1 THEN 1 ELSE 0)
        /\ stepStatus'[j][x] = (IF x = 1 THEN "succeeded" ELSE "pending")
  BY <1>1, <1>2 DEF IInv, TypeOK, DbOK, Submit
<1>4. /\ jobStatus[j] = "absent" /\ jobStatus'[j] = "pending"
      /\ UNCHANGED <<pc, session, retry>>
      /\ \A i \in Jobs \ {j} : SameJob(i)
  BY DEF IInv, TypeOK, DbOK, Submit, SameJob
<1>5. JobInv(j)'
  <2>1. NeverRun(j)'
    BY <1>3, VocabularyAssumption DEF NeverRun, Steps
  <2>2. Ordered(j)'
    BY <1>3, VocabularyAssumption DEF Ordered, Steps
  <2>3. Clean(j)'
    BY <1>1, <1>3 DEF Clean, RequiredFailed
  <2> QED
    BY <2>1, <2>2, <2>3, <1>1, <1>3, <1>4
       DEF JobInv, Untouched, OneRunningStep, SkippedAfterFailure, Final, Settled
<1>6. RetryCoherent'
  BY <1>4 DEF IInv, RetryCoherent, SameJob, Settled
<1>7. \A x \in Steps : attempt'[j][x] >= attempt[j][x] /\ stepStatus'[j][x] # "running"
  BY <1>2, <1>3
<1> QED
  BY <1>4, <1>5, <1>6, <1>7, OutsideStep

LEMMA InvRetry ==
  ASSUME IInv, TypeOK', CommitRetry
  PROVE  IInv'
<1>1. retry.job \in Jobs /\ retry.from \in Steps
  BY DEF IInv, TypeOK, RetryOK, CommitRetry
<1> PICK j \in Jobs, f \in Steps : j = retry.job /\ f = retry.from
  BY <1>1
<1>2. /\ jobStatus[j] \in Settled /\ retry.jobStatus = jobStatus[j]
      /\ retry.status = stepStatus[j]
      /\ \A x \in Steps : stepStatus[j][x] \in Done
  BY DEF IInv, RetryCoherent, TypeOK, RetryOK, CommitRetry, JobInv, Final
<1>3. \A x \in Steps :
        stepStatus'[j][x] = (IF x >= f THEN "pending" ELSE stepStatus[j][x])
  BY <1>2 DEF IInv, TypeOK, DbOK, CommitRetry, Done
<1>4. /\ jobStatus'[j] = "pending" /\ retry' = NoRetry
      /\ UNCHANGED <<pc, session, attempt>>
      /\ \A i \in Jobs \ {j} : SameJob(i)
  BY <1>2 DEF IInv, TypeOK, DbOK, CommitRetry, SameJob, Settled
<1>5. \A x \in Steps : attempt'[j][x] >= attempt[j][x] /\ stepStatus'[j][x] # "running"
  <2>1. \A x \in Steps : attempt'[j][x] = attempt[j][x] /\ attempt[j][x] \in Nat
    BY <1>4 DEF IInv, TypeOK, DbOK
  <2>2. \A x \in Steps : stepStatus'[j][x] # "running"
    BY <1>2, <1>3 DEF Done
  <2> QED
    BY <2>1, <2>2
<1>6. SkippedAfterFailure(j)'
  <2>1. Required \subseteq Steps /\ Steps \subseteq Nat
    BY VocabularyAssumption DEF Steps
  <2>2. \A x \in Required : stepStatus'[j][x] = "skipped" =>
          x < f /\ AfterFailure(stepStatus[j], x)
    BY <2>1, <1>2, <1>3 DEF IInv, JobInv, SkippedAfterFailure
  <2>3. \A x, y \in Steps : x < f /\ y < x => ~(y >= f)
    BY <2>1, <1>2
  <2> QED
    BY <2>1, <2>2, <2>3, <1>3 DEF SkippedAfterFailure, AfterFailure
<1>7. JobInv(j)'
  <2>1. NeverRun(j)'
    BY <1>3, VocabularyAssumption DEF IInv, JobInv, NeverRun, Steps
  <2>2. Required \subseteq Steps /\ Steps \subseteq Nat
    BY VocabularyAssumption DEF Steps
  <2>3. Ordered(j)'
    BY <2>2, <1>2, <1>3 DEF IInv, JobInv, Ordered, Done
  <2>4. stepStatus[j][f] = "failed" /\ f # N
    BY <1>2 DEF IInv, JobInv, NeverRun, RetryCoherent, CommitRetry
  <2>5. \A y \in Required \ {N} : stepStatus[j][y] = "failed" => y >= f
    BY <2>2, <2>4 DEF IInv, JobInv, Ordered
  <2>6. Clean(j)'
    BY <2>2, <2>5, <1>3 DEF Clean, RequiredFailed
  <2> QED
    BY <2>1, <2>3, <2>6, <1>4, <1>5, <1>6 DEF JobInv, Untouched, OneRunningStep, Final, Settled
<1>8. RetryCoherent'
  BY <1>4 DEF RetryCoherent, NoRetry
<1> QED
  BY <1>2, <1>4, <1>5, <1>7, <1>8, OutsideStep DEF Settled

LEMMA InvNext == IInv /\ [QuietNext]_vars => IInv'
<1> SUFFICES ASSUME IInv, [QuietNext]_vars PROVE IInv'
  OBVIOUS
<1>1. TypeOK'
  BY TypeNext, QuietIsNext DEF IInv
<1>2. ASSUME NEW w \in Workers, WorkerStep(w)
      PROVE  IInv'
  BY <1>1, <1>2, InvClaim, InvRecover, InvStart, InvReads, InvFinish, InvRelease, InvFinalize,
     InvLeave DEF WorkerStep
<1>3. ASSUME NEW w \in Workers, Heartbeat(w) \/ Signal(w)
      PROVE  IInv'
  <2>1. UNCHANGED <<jobStatus, stepStatus, attempt, pc, session, retry>>
    BY <1>3 DEF Heartbeat, Signal, db
  <2> QED
    BY <1>1, <2>1, InvUnmoved DEF IInv, RetryCoherent
<1>4. ASSUME NEW j \in Jobs, NEW s \in Steps, BecomeStale(j, s)
      PROVE  IInv'
  <2>1. UNCHANGED <<jobStatus, stepStatus, attempt, pc, session, retry>>
    BY <1>4 DEF BecomeStale
  <2> QED
    BY <1>1, <2>1, InvUnmoved DEF IInv, RetryCoherent
<1>5. ASSUME NEW j \in Jobs, NEW f \in Steps, QuietRetry(j, f)
      PROVE  IInv'
  <2>1. UNCHANGED <<jobStatus, stepStatus, attempt, pc, session>>
    BY <1>5 DEF QuietRetry, ReadForRetry, db
  <2>2. RetryCoherent'
    BY <1>5, <2>1 DEF QuietRetry, ReadForRetry, RetryCoherent
  <2> QED
    BY <1>1, <2>1, <2>2, InvUnmoved
<1>6. CASE UNCHANGED vars
  <2>1. UNCHANGED <<jobStatus, stepStatus, attempt, pc, session, retry>>
    BY <1>6 DEF vars, db
  <2> QED
    BY <1>1, <2>1, InvUnmoved DEF IInv, RetryCoherent
<1>7. ASSUME Environment
      PROVE  IInv'
  BY <1>1, <1>3, <1>4, <1>7, InvSubmit, InvLeave, InvRetry DEF Environment
<1> QED
  BY <1>2, <1>5, <1>6, <1>7 DEF QuietNext

-----------------------------------------------------------------------------
(* The theorems *)

THEOREM InvHolds == QuietSpec => []IInv
BY InvInit, InvNext, PTL DEF QuietSpec

\* No two workers ever both have a job without the fence having excluded one,
\* through crashes, releases and recoveries of live executors.
THEOREM OneExecutor == QuietSpec => []SingleExecutor
<1>1. IInv => SingleExecutor
  BY DEF IInv
<1> QED
  BY <1>1, InvHolds, PTL

\* A settled job has nothing left to run and its status is the verdict its
\* steps call for.
THEOREM SettledJobIsFinal == QuietSpec => []SettledIsFinal
<1>1. IInv => SettledIsFinal
  BY DEF IInv, JobInv, Final, SettledIsFinal
<1> QED
  BY <1>1, InvHolds, PTL

\* what a step may do to the row of one step
RowKept(j, s) ==
  /\ attempt'[j][s] >= attempt[j][s]
  /\ stepStatus[j][s] \in Done /\ stepStatus'[j][s] # stepStatus[j][s]
       => retry.job = j /\ retry'.job = NoJob

LEMMA RowsKept ==
  ASSUME IInv, [QuietNext]_vars
  PROVE  \A j \in Jobs, s \in Steps : RowKept(j, s)
<1>1. \A j \in Jobs, s \in Steps : attempt[j][s] \in Nat
  BY DEF IInv, TypeOK, DbOK
<1>2. ASSUME UNCHANGED <<stepStatus, attempt>>
      PROVE  \A j \in Jobs, s \in Steps : RowKept(j, s)
  BY <1>1, <1>2 DEF RowKept
<1>3. ASSUME NEW w \in Workers, StartStep(w)
      PROVE  \A j \in Jobs, s \in Steps : RowKept(j, s)
  <2>1. jobOf[w] \in Jobs /\ cur[w] \in Steps
    BY <1>3 DEF StartStep, IInv, TypeOK, WorkersOK
  <2>2. /\ stepStatus[jobOf[w]][cur[w]] = "pending"
        /\ NextAttempt(w) = attempt[jobOf[w]][cur[w]] + 1
    BY <1>3, <2>1 DEF StartStep, NextAttempt, Executes, IInv, WorkerInv, Coherent
  <2> QED
    BY <1>1, <1>3, <2>1, <2>2 DEF StartStep, RowKept, IInv, TypeOK, DbOK, Done
<1>4. ASSUME NEW w \in Workers, NEW o \in Done, NEW b \in BOOLEAN,
             FinishStep(w, o, b) \/ ReleaseStep(w)
      PROVE  \A j \in Jobs, s \in Steps : RowKept(j, s)
  <2>1. stepStatus[jobOf[w]][cur[w]] = "running" /\ attempt' = attempt
    BY <1>4 DEF FinishStep, ReleaseStep, Fenced
  <2>2. PICK to \in {o, "pending"} : stepStatus' = [stepStatus EXCEPT ![jobOf[w]][cur[w]] = to]
    BY <1>4 DEF FinishStep, ReleaseStep
  <2> QED
    BY <1>1, <2>1, <2>2 DEF RowKept, IInv, TypeOK, DbOK, Done
<1>5. ASSUME NEW w \in Workers, PollAndRecover(w)
      PROVE  \A j \in Jobs, s \in Steps : RowKept(j, s)
  <2> PICK r \in StaleJobs : stepStatus' = [stepStatus EXCEPT ![r][FirstRunning(r)] = "pending"]
    BY <1>5 DEF PollAndRecover
  <2>1. stepStatus[r][FirstRunning(r)] = "running"
    BY RecoversRunning
  <2>2. attempt' = attempt
    BY <1>5 DEF PollAndRecover
  <2> QED
    BY <1>1, <2>1, <2>2 DEF RowKept, IInv, TypeOK, DbOK, Done
<1>6. ASSUME NEW w \in Workers, CommitFinalize(w)
      PROVE  \A j \in Jobs, s \in Steps : RowKept(j, s)
  <2>1. jobOf[w] \in Jobs /\ N \in Steps
    BY <1>6, VocabularyAssumption DEF CommitFinalize, IInv, TypeOK, WorkersOK, Steps
  <2>2. \A x \in Steps : /\ seenStatus[w][x] = stepStatus[jobOf[w]][x]
                         /\ seenAttempt[w][x] = attempt[jobOf[w]][x]
    BY <1>6 DEF CommitFinalize, Executes, IInv, WorkerInv, Coherent, Progress
  <2>3. stepStatus[jobOf[w]][N] \in {"pending", "succeeded"}
    BY <2>1 DEF IInv, JobInv, NeverRun
  <2> QED
    BY <1>1, <1>6, <2>1, <2>2, <2>3 DEF CommitFinalize, RowKept, IInv, TypeOK, DbOK, Done
<1>7. ASSUME NEW i \in Jobs, Submit(i)
      PROVE  \A j \in Jobs, s \in Steps : RowKept(j, s)
  <2>1. \A s \in Steps : stepStatus[i][s] = "pending" /\ attempt[i][s] = 0
    BY <1>7 DEF Submit, IInv, JobInv, Untouched
  <2> QED
    BY <1>1, <1>7, <2>1 DEF Submit, RowKept, IInv, TypeOK, DbOK, Done
<1>8. CASE CommitRetry
  BY <1>1, <1>8 DEF CommitRetry, NoRetry, RowKept, IInv, TypeOK, DbOK
<1>9. ASSUME NEW w \in Workers, WorkerStep(w)
      PROVE  \A j \in Jobs, s \in Steps : RowKept(j, s)
  <2>1. CASE \/ StartStep(w) \/ ReleaseStep(w) \/ PollAndRecover(w) \/ CommitFinalize(w)
             \/ \E o \in Done, b \in BOOLEAN : FinishStep(w, o, b)
    BY <2>1, <1>3, <1>4, <1>5, <1>6 DEF Done
  <2>2. CASE \/ PollAndClaim(w) \/ MarkRunning(w) \/ ListSteps(w) \/ Refresh(w) \/ PassStep(w)
             \/ DiscardStale(w) \/ ReadForFinalize(w) \/ ExitLoop(w) \/ Restart(w)
    BY <2>2, <1>2 DEF PollAndClaim, MarkRunning, ListSteps, Refresh, PassStep, DiscardStale,
       ReadForFinalize, ExitLoop, Restart, db
  <2> QED
    BY <1>9, <2>1, <2>2 DEF WorkerStep
<1>10. CASE Environment
  BY <1>2, <1>7, <1>8, <1>10 DEF Environment, Heartbeat, Signal, Crash, BecomeStale, db
<1> QED
  BY <1>2, <1>9, <1>10 DEF QuietNext, QuietRetry, ReadForRetry, vars, db

\* The fencing token of a step never goes back, so no old token becomes valid
\* again.
THEOREM AttemptsGrow == QuietSpec => AttemptNeverDecreases
<1>1. IInv /\ [QuietNext]_vars =>
        [\A j \in Jobs, s \in Steps : attempt'[j][s] >= attempt[j][s]]_vars
  BY RowsKept DEF RowKept
<1> QED
  BY <1>1, InvHolds, PTL DEF QuietSpec, AttemptNeverDecreases

\* A committed outcome stays until an operator's retry, however late an
\* executor that was given up for dead comes back.
THEOREM OutcomesStay == QuietSpec => OutcomeStays
<1>1. IInv /\ [QuietNext]_vars =>
        [\A j \in Jobs, s \in Steps :
           stepStatus[j][s] \in Done /\ stepStatus'[j][s] # stepStatus[j][s]
             => retry.job = j /\ retry'.job = NoJob]_vars
  BY RowsKept DEF RowKept
<1> QED
  BY <1>1, InvHolds, PTL DEF QuietSpec, OutcomeStays

-----------------------------------------------------------------------------
(* What a step costs.  Everything that can make a step be executed again   *)
(* has been counted when it happens: the executions a step may still get   *)
(* are owed, and never exceed what has gone wrong so far.                  *)

\* the step will be executed: it is pending, or recovery will make it so
Unfinished(j, s) ==
  \/ stepStatus[j][s] = "pending"
  \/ stepStatus[j][s] = "running" /\ (beat[j][s] = "stale" \/ ~HasLiveHandler(j, s))

\* its executor may release it
StopsUnder(j) == \E w \in Workers : Executes(w, j) /\ stopping[w]

\* an operator's request is about to open it again
Asked(j) == retry.job = j

One(b) == IF b THEN 1 ELSE 0

Owed(j, s) == One(Unfinished(j, s)) + One(StopsUnder(j)) + One(Asked(j))

Mishaps == crashes + signals + late + retries

Paid(j, s) == attempt[j][s] + Owed(j, s) <= 1 + Mishaps

\* finalize_job is done only with the job, so that its own attempt is counted once
FinalWithJob(j) == stepStatus[j][N] = "succeeded" => jobStatus[j] \in Settled

Accounts == \A j \in Jobs : FinalWithJob(j) /\ \A s \in Steps : Paid(j, s)

\* the next state's account, in terms of the next state's rows
LEMMA NextAccount ==
  ASSUME NEW j, NEW s
  PROVE  /\ Mishaps' = crashes' + signals' + late' + retries'
         /\ Paid(j, s)' <=> attempt'[j][s] + (One(Unfinished(j, s)') + One(StopsUnder(j)')
                                               + One(Asked(j)')) <= 1 + Mishaps'
<1>1. Mishaps' = crashes' + signals' + late' + retries'
  BY Zenon DEF Mishaps
<1>2. Paid(j, s)' <=> attempt'[j][s] + Owed(j, s)' <= 1 + Mishaps'
  BY Zenon DEF Paid
<1>3. Owed(j, s)' = One(Unfinished(j, s)') + One(StopsUnder(j)') + One(Asked(j)')
  BY Zenon DEF Owed
<1> QED
  BY <1>1, <1>2, <1>3

LEMMA AccountTypes ==
  ASSUME IInv, TypeOK', NEW j \in Jobs, NEW s \in Steps
  PROVE  /\ attempt[j][s] \in Nat /\ attempt'[j][s] \in Nat
         /\ Mishaps \in Nat /\ Mishaps' \in Nat
         /\ One(Unfinished(j, s)) \in {0, 1} /\ One(Unfinished(j, s)') \in {0, 1}
         /\ One(StopsUnder(j)) \in {0, 1} /\ One(StopsUnder(j)') \in {0, 1}
         /\ One(Asked(j)) \in {0, 1} /\ One(Asked(j)') \in {0, 1}
<1>1. attempt[j][s] \in Nat /\ attempt'[j][s] \in Nat
  BY DEF IInv, TypeOK, DbOK
<1>2. /\ crashes \in Nat /\ signals \in Nat /\ late \in Nat /\ retries \in Nat
      /\ crashes' \in Nat /\ signals' \in Nat /\ late' \in Nat /\ retries' \in Nat
  BY DEF IInv, TypeOK, RetryOK
<1>3. Mishaps \in Nat
  BY <1>2 DEF Mishaps
<1>4. Mishaps' \in Nat
  BY <1>2, NextAccount
<1>5. /\ One(Unfinished(j, s)) \in {0, 1} /\ One(Unfinished(j, s)') \in {0, 1}
      /\ One(StopsUnder(j)) \in {0, 1} /\ One(StopsUnder(j)') \in {0, 1}
      /\ One(Asked(j)) \in {0, 1} /\ One(Asked(j)') \in {0, 1}
  BY DEF One
<1> QED
  BY <1>1, <1>3, <1>4, <1>5

\* what a step adds to the executions of a step, made or owed, it adds to the
\* mishaps
LEMMA Covered ==
  ASSUME IInv, TypeOK', NEW j \in Jobs, NEW s \in Steps, Paid(j, s),
         attempt'[j][s] + (One(Unfinished(j, s)') + One(StopsUnder(j)') + One(Asked(j)'))
           + Mishaps
         <= attempt[j][s] + (One(Unfinished(j, s)) + One(StopsUnder(j)) + One(Asked(j)))
           + Mishaps'
  PROVE  Paid(j, s)'
<1>1. attempt[j][s] + (One(Unfinished(j, s)) + One(StopsUnder(j)) + One(Asked(j))) <= 1 + Mishaps
  BY DEF Paid, Owed
<1>2. attempt'[j][s] + (One(Unfinished(j, s)') + One(StopsUnder(j)') + One(Asked(j)'))
        <= 1 + Mishaps'
  BY <1>1, AccountTypes
<1> QED
  BY <1>2, NextAccount

LEMMA SameMishaps == UNCHANGED budgets => Mishaps' = Mishaps
<1>1. Mishaps = crashes + signals + late + retries
  BY DEF Mishaps
<1> QED
  BY <1>1, NextAccount DEF budgets

\* nobody who does not execute job j with the stop event set comes to do so
LEMMA StopsKept ==
  ASSUME IInv, NEW j \in Jobs,
         \A x \in Steps : stepStatus'[j][x] = "running" =>
            \/ stepStatus[j][x] = "running" /\ attempt'[j][x] = attempt[j][x]
            \/ attempt'[j][x] \in Nat /\ attempt'[j][x] > attempt[j][x],
         \A v \in Workers : Executes(v, j)' /\ stopping'[v] =>
            \/ Executes(v, j) /\ stopping[v]
            \/ SameWorker(v) /\ stopping'[v] = stopping[v]
  PROVE  StopsUnder(j)' => StopsUnder(j)
BY NotRevived DEF StopsUnder

\* the row of a step is left alone, its beat at most renewed, and so is the
\* handler that runs it
LEMMA RowAlone ==
  ASSUME IInv, TypeOK', NEW j \in Jobs, NEW s \in Steps, Paid(j, s), UNCHANGED <<retry, budgets>>,
         stepStatus'[j][s] = stepStatus[j][s], attempt'[j][s] = attempt[j][s],
         beat'[j][s] \in {beat[j][s], "fresh"},
         \A v \in Workers : pc[v] = "handler" /\ jobOf[v] = j /\ cur[v] = s /\ Fenced(v) => SameWorker(v),
         StopsUnder(j)' => StopsUnder(j)
  PROVE  Paid(j, s)'
<1>1. stepStatus[j][s] = "running" /\ HasLiveHandler(j, s) => HasLiveHandler(j, s)'
  BY DEF HasLiveHandler, Fenced, SameWorker
<1>2. Unfinished(j, s)' => Unfinished(j, s)
  BY <1>1 DEF Unfinished
<1>3. Asked(j)' => Asked(j)
  BY DEF Asked
<1>4. /\ One(Unfinished(j, s)') <= One(Unfinished(j, s))
      /\ One(StopsUnder(j)') <= One(StopsUnder(j))
      /\ One(Asked(j)') <= One(Asked(j))
  BY <1>2, <1>3 DEF One
<1> QED
  BY <1>4, SameMishaps, AccountTypes, Covered

\* the steps that change no step's status
LEMMA AccountsHidden ==
  ASSUME IInv, TypeOK', Accounts, NEW w \in Workers,
         \/ PollAndClaim(w) \/ MarkRunning(w) \/ ListSteps(w) \/ Refresh(w) \/ PassStep(w)
         \/ ReadForFinalize(w) \/ DiscardStale(w) \/ ExitLoop(w) \/ Restart(w) \/ Heartbeat(w)
  PROVE  Accounts'
<1>1. UNCHANGED <<stepStatus, attempt, retry, budgets>>
  BY DEF PollAndClaim, MarkRunning, ListSteps, Refresh, PassStep, ReadForFinalize, DiscardStale,
     ExitLoop, Restart, Heartbeat, db
<1>2. \A j \in Jobs, s \in Steps : beat'[j][s] \in {beat[j][s], "fresh"}
  <2>1. CASE Heartbeat(w)
    BY <2>1 DEF Heartbeat, IInv, TypeOK, DbOK
  <2>2. CASE beat' = beat
    BY <2>2
  <2> QED
    BY <2>1, <2>2 DEF PollAndClaim, MarkRunning, ListSteps, Refresh, PassStep, ReadForFinalize,
       DiscardStale, ExitLoop, Restart, db
<1>3. /\ \A v \in Workers \ {w} : SameWorker(v) /\ stopping'[v] = stopping[v]
      /\ stopping'[w] => stopping[w]
  BY DEF IInv, TypeOK, WorkersOK, CacheOK, SameWorker, PollAndClaim, Claim, MarkRunning, ListSteps,
     Refresh, PassStep, ReadForFinalize, DiscardStale, Leave, Forget, ExitLoop, Restart, Heartbeat,
     session, cache
<1>4. pc[w] = "handler" /\ Fenced(w) => SameWorker(w)
  BY DEF SameWorker, PollAndClaim, MarkRunning, ListSteps, Refresh, PassStep, ReadForFinalize,
     DiscardStale, ExitLoop, Restart, Heartbeat, session, cache
<1>5. \A j \in Jobs : Executes(w, j)' /\ stopping'[w] => Executes(w, j) /\ stopping[w]
  BY <1>1, <1>3 DEF IInv, TypeOK, WorkersOK, Executes, PollAndClaim, Claim, MarkRunning, ListSteps,
     Refresh, PassStep, ReadForFinalize, DiscardStale, Leave, Forget, ExitLoop, Restart, Heartbeat,
     session, cache
<1>6. ASSUME NEW j \in Jobs PROVE StopsUnder(j)' => StopsUnder(j)
  BY <1>1, <1>3, <1>5, StopsKept
<1>7. \A j \in Jobs, s \in Steps : Paid(j, s)'
  BY <1>1, <1>2, <1>3, <1>4, <1>6, RowAlone DEF Accounts
<1>8. \A j \in Jobs : jobStatus[j] \in Settled => jobStatus'[j] = jobStatus[j]
  <2>1. CASE PollAndClaim(w)
    BY <2>1 DEF PollAndClaim, Claim, Oldest, Settled, IInv, TypeOK, DbOK
  <2>2. CASE MarkRunning(w)
    <3>1. jobOf[w] \in Jobs /\ Executes(w, jobOf[w])
      BY <2>2 DEF MarkRunning, Executes, IInv, TypeOK, WorkersOK
    <3> QED
      BY <2>2, <3>1 DEF MarkRunning, Settled, IInv, ExecutedIsRunning, TypeOK, DbOK
  <2>3. CASE jobStatus' = jobStatus
    BY <2>3
  <2> QED
    BY <2>1, <2>2, <2>3 DEF ListSteps, Refresh, PassStep, ReadForFinalize, DiscardStale, ExitLoop,
       Restart, Heartbeat, db
<1>9. \A j \in Jobs : FinalWithJob(j)'
  BY <1>1, <1>8 DEF Accounts, FinalWithJob
<1> QED
  BY <1>7, <1>9 DEF Accounts

\* the other rows, when worker w has written a row of the job it executes
LEMMA OtherRows ==
  ASSUME IInv, TypeOK', Accounts, UNCHANGED <<retry, stopping, budgets>>,
         NEW w \in Workers, NEW j \in Jobs, NEW s \in Steps, Executes(w, j),
         pc[w] = "handler" => cur[w] = s,
         \A v \in Workers \ {w} : SameWorker(v),
         \A x \in Steps : stepStatus'[j][x] = "running" =>
            \/ stepStatus[j][x] = "running" /\ attempt'[j][x] = attempt[j][x]
            \/ attempt'[j][x] = attempt[j][x] + 1,
         \A i \in Jobs : Executes(w, i)' => i = j,
         \A i \in Jobs, x \in Steps : <<i, x>> # <<j, s>> =>
            /\ stepStatus'[i][x] = stepStatus[i][x] /\ attempt'[i][x] = attempt[i][x]
            /\ beat'[i][x] = beat[i][x]
  PROVE  /\ \A i \in Jobs : StopsUnder(i)' => StopsUnder(i)
         /\ \A i \in Jobs, x \in Steps : <<i, x>> # <<j, s>> => Paid(i, x)'
<1>1. \A i \in Jobs, x \in Steps : attempt[i][x] \in Nat /\ attempt'[i][x] \in Nat
  BY DEF IInv, TypeOK, DbOK
<1>2. \A i \in Jobs, x \in Steps : stepStatus'[i][x] = "running" =>
         \/ stepStatus[i][x] = "running" /\ attempt'[i][x] = attempt[i][x]
         \/ attempt'[i][x] \in Nat /\ attempt'[i][x] > attempt[i][x]
  BY <1>1
<1>3. \A v \in Workers, i \in Jobs : Executes(v, i)' /\ stopping'[v] =>
         \/ Executes(v, i) /\ stopping[v]
         \/ SameWorker(v) /\ stopping'[v] = stopping[v]
  OBVIOUS
<1>4. \A i \in Jobs : StopsUnder(i)' => StopsUnder(i)
  BY <1>2, <1>3, StopsKept
<1>5. ASSUME NEW i \in Jobs, NEW x \in Steps, <<i, x>> # <<j, s>>
      PROVE  Paid(i, x)'
  <2>1. \A v \in Workers : pc[v] = "handler" /\ jobOf[v] = i /\ cur[v] = x => SameWorker(v)
    BY <1>5 DEF Executes
  <2>2. Paid(i, x)
    BY DEF Accounts
  <2>3. /\ stepStatus'[i][x] = stepStatus[i][x] /\ attempt'[i][x] = attempt[i][x]
        /\ beat'[i][x] \in {beat[i][x], "fresh"}
    BY <1>5
  <2> QED
    BY <2>1, <2>2, <2>3, <1>4, RowAlone
<1> QED
  BY <1>4, <1>5

\* an execution that begins is the one that was owed
LEMMA AccountsStart ==
  ASSUME IInv, TypeOK', Accounts, NEW w \in Workers, StartStep(w)
  PROVE  Accounts'
<1>1. jobOf[w] \in Jobs /\ cur[w] \in Steps
  BY DEF IInv, StartStep, TypeOK, WorkersOK
<1> PICK j \in Jobs, s \in Steps : j = jobOf[w] /\ s = cur[w]
  BY <1>1
<1>2. Executes(w, j) /\ s # N
  BY DEF StartStep, Executes, IsFinalize
<1>3. /\ stepStatus[j][s] = "pending" /\ NextAttempt(w) = attempt[j][s] + 1
  BY <1>2 DEF StartStep, NextAttempt, IInv, WorkerInv, Coherent
<1>4. /\ \A v \in Workers \ {w} : SameWorker(v)
      /\ UNCHANGED <<retry, stopping, budgets, jobStatus>>
      /\ pc[w] = "loop" /\ jobOf'[w] = j
  BY DEF IInv, TypeOK, WorkersOK, CacheOK, StartStep, SameWorker
<1>5. /\ \A i \in Jobs, x \in Steps : <<i, x>> # <<j, s>> =>
            /\ stepStatus'[i][x] = stepStatus[i][x] /\ attempt'[i][x] = attempt[i][x]
            /\ beat'[i][x] = beat[i][x]
      /\ stepStatus'[j][s] = "running" /\ attempt'[j][s] = attempt[j][s] + 1
      /\ beat'[j][s] = "fresh"
  BY <1>3 DEF IInv, TypeOK, DbOK, StartStep
<1>6. \A x \in Steps : stepStatus'[j][x] = "running" =>
         \/ stepStatus[j][x] = "running" /\ attempt'[j][x] = attempt[j][x]
         \/ attempt'[j][x] = attempt[j][x] + 1
  BY <1>5
<1>7. \A i \in Jobs : Executes(w, i)' => i = j
  BY <1>4 DEF Executes
<1>8. /\ \A i \in Jobs : StopsUnder(i)' => StopsUnder(i)
      /\ \A i \in Jobs, x \in Steps : <<i, x>> # <<j, s>> => Paid(i, x)'
  BY <1>2, <1>4, <1>5, <1>6, <1>7, OtherRows
<1>9. Paid(j, s)'
  <2>1. HasLiveHandler(j, s)'
    BY <1>4, <1>5, <1>3 DEF HasLiveHandler, StartStep, IInv, TypeOK, WorkersOK
  <2>2. Unfinished(j, s) /\ ~Unfinished(j, s)'
    BY <2>1, <1>3, <1>5 DEF Unfinished
  <2>3. Asked(j)' <=> Asked(j)
    BY <1>4 DEF Asked
  <2>4. /\ One(Unfinished(j, s)) = 1 /\ One(Unfinished(j, s)') = 0
        /\ One(StopsUnder(j)') <= One(StopsUnder(j))
        /\ One(Asked(j)') <= One(Asked(j))
    BY <2>2, <2>3, <1>8 DEF One
  <2>5. Mishaps' = Mishaps /\ Paid(j, s)
    BY <1>4, SameMishaps DEF Accounts
  <2> QED
    BY <2>4, <2>5, <1>5, AccountTypes, Covered
<1>10. \A i \in Jobs : FinalWithJob(i)'
  BY <1>2, <1>4, <1>5, VocabularyAssumption DEF Accounts, FinalWithJob, Steps
<1> QED
  BY <1>8, <1>9, <1>10 DEF Accounts

\* an execution that ends owes nothing; one that is released is owed again,
\* but nobody is left who could release it
LEMMA AccountsEnd ==
  ASSUME IInv, TypeOK', Accounts, NEW w \in Workers,
         ReleaseStep(w) \/ \E o \in Done, b \in BOOLEAN : FinishStep(w, o, b)
  PROVE  Accounts'
<1>1. jobOf[w] \in Jobs /\ cur[w] \in Steps
  BY DEF IInv, ReleaseStep, FinishStep, TypeOK, WorkersOK
<1> PICK j \in Jobs, s \in Steps : j = jobOf[w] /\ s = cur[w]
  BY <1>1
<1>2. Executes(w, j) /\ pc[w] = "handler" /\ s # N /\ stepStatus[j][s] = "running"
  BY DEF ReleaseStep, FinishStep, Fenced, Executes, IInv, TypeOK, WorkersOK
<1>3. jobStatus[j] = "running" /\ \A v \in Workers \ {w} : ~Executes(v, j)
  BY <1>2, SoleExecutor
<1>4. /\ \A v \in Workers \ {w} : SameWorker(v)
      /\ UNCHANGED <<retry, stopping, budgets, attempt>>
      /\ \A i \in Jobs \ {j} : jobStatus'[i] = jobStatus[i]
  BY DEF IInv, TypeOK, DbOK, WorkersOK, CacheOK, ReleaseStep, FinishStep, Leave, Forget, SameWorker
<1>5. /\ \A i \in Jobs, x \in Steps : <<i, x>> # <<j, s>> =>
            /\ stepStatus'[i][x] = stepStatus[i][x] /\ attempt'[i][x] = attempt[i][x]
            /\ beat'[i][x] = beat[i][x]
      /\ stepStatus'[j][s] \in Done \cup {"pending"}
      /\ ReleaseStep(w) \/ stepStatus'[j][s] \in Done
  <2>1. PICK to \in Done \cup {"pending"} :
          /\ stepStatus' = [stepStatus EXCEPT ![j][s] = to]
          /\ beat' = [beat EXCEPT ![j][s] = "fresh"]
          /\ ReleaseStep(w) \/ to \in Done
    <3>1. CASE ReleaseStep(w)
      BY <3>1 DEF ReleaseStep
    <3>2. ASSUME NEW o \in Done, NEW b \in BOOLEAN, FinishStep(w, o, b)
          PROVE  \E to \in Done \cup {"pending"} :
                   /\ stepStatus' = [stepStatus EXCEPT ![j][s] = to]
                   /\ beat' = [beat EXCEPT ![j][s] = "fresh"]
                   /\ ReleaseStep(w) \/ to \in Done
      BY <3>2 DEF FinishStep
    <3> QED
      BY <3>1, <3>2
  <2> QED
    BY <2>1, <1>4 DEF IInv, TypeOK, DbOK
<1>6. \A x \in Steps : stepStatus'[j][x] = "running" =>
         stepStatus[j][x] = "running" /\ attempt'[j][x] = attempt[j][x]
  BY <1>5 DEF Done
<1>7. \A i \in Jobs : Executes(w, i)' => i = j
  BY DEF Executes, ReleaseStep, FinishStep, Leave, IInv, TypeOK, WorkersOK
<1>8. /\ \A i \in Jobs : StopsUnder(i)' => StopsUnder(i)
      /\ \A i \in Jobs, x \in Steps : <<i, x>> # <<j, s>> => Paid(i, x)'
  BY <1>2, <1>4, <1>5, <1>6, <1>7, OtherRows
<1>9. Paid(j, s)'
  <2>1. Mishaps' = Mishaps /\ Paid(j, s) /\ attempt'[j][s] = attempt[j][s]
    BY <1>4, SameMishaps DEF Accounts
  <2>2. Asked(j)' <=> Asked(j)
    BY <1>4 DEF Asked
  <2>3. CASE stepStatus'[j][s] \in Done
    <3>1. ~Unfinished(j, s)'
      BY <2>3 DEF Unfinished, Done
    <3>2. /\ One(Unfinished(j, s)') <= One(Unfinished(j, s))
          /\ One(StopsUnder(j)') <= One(StopsUnder(j))
          /\ One(Asked(j)') <= One(Asked(j))
      BY <3>1, <2>2, <1>8 DEF One
    <3> QED
      BY <2>1, <3>2, AccountTypes, Covered
  <2>4. CASE ReleaseStep(w)
    <3>1. StopsUnder(j)
      BY <2>4, <1>2 DEF StopsUnder, ReleaseStep
    <3>2. ~StopsUnder(j)'
      <4>1. ~Executes(w, j)'
        BY <2>4 DEF Executes, ReleaseStep, Leave, IInv, TypeOK, WorkersOK
      <4>2. \A v \in Workers \ {w} : ~Executes(v, j)'
        BY <1>3, <1>4, <1>6, NotRevived
      <4> QED
        BY <4>1, <4>2 DEF StopsUnder
    <3>3. /\ One(StopsUnder(j)) = 1 /\ One(StopsUnder(j)') = 0
          /\ One(Asked(j)') <= One(Asked(j))
      BY <3>1, <3>2, <2>2 DEF One
    <3> QED
      BY <2>1, <3>3, AccountTypes, Covered
  <2> QED
    BY <2>3, <2>4, <1>5
<1>10. \A i \in Jobs : FinalWithJob(i)'
  BY <1>2, <1>3, <1>4, <1>5, VocabularyAssumption DEF Accounts, FinalWithJob, Steps, Settled
<1> QED
  BY <1>8, <1>9, <1>10 DEF Accounts

\* finalize_job is counted when its job settles
LEMMA AccountsFinalize ==
  ASSUME IInv, TypeOK', Accounts, NEW w \in Workers, CommitFinalize(w)
  PROVE  Accounts'
<1>1. jobOf[w] \in Jobs /\ N \in Steps
  BY VocabularyAssumption DEF IInv, CommitFinalize, TypeOK, WorkersOK, Steps
<1> PICK j \in Jobs : j = jobOf[w]
  BY <1>1
<1>2. Executes(w, j)
  BY DEF CommitFinalize, Executes
<1>3. jobStatus[j] = "running" /\ \A x \in Steps : stepStatus[j][x] # "running"
  BY <1>2, SoleExecutor DEF IInv, WorkerInv, Gap, CommitFinalize
<1>4. \A x \in Steps : /\ seenStatus[w][x] = stepStatus[j][x]
                       /\ seenAttempt[w][x] = attempt[j][x]
  BY <1>2 DEF CommitFinalize, IInv, WorkerInv, Coherent, Progress
<1>5. stepStatus[j][N] = "pending"
  BY <1>1, <1>3 DEF Accounts, FinalWithJob, IInv, JobInv, NeverRun, Settled
<1>6. /\ \A v \in Workers \ {w} : SameWorker(v)
      /\ UNCHANGED <<retry, stopping, budgets, beat>>
      /\ pc'[w] = "idle"
      /\ \A i \in Jobs \ {j} : SameJob(i)
      /\ jobStatus'[j] \in Settled
  BY DEF IInv, TypeOK, DbOK, WorkersOK, CacheOK, CommitFinalize, Leave, Forget, SameWorker, SameJob,
     JobOutcome, Settled
<1>7. /\ stepStatus'[j][N] = "succeeded" /\ attempt'[j][N] = attempt[j][N] + 1
      /\ \A x \in Steps \ {N} :
           /\ attempt'[j][x] = attempt[j][x]
           /\ \/ stepStatus'[j][x] = stepStatus[j][x]
              \/ stepStatus[j][x] = "pending" /\ stepStatus'[j][x] = "skipped"
  <2>1. \A x \in Steps : attempt'[j][x] = (IF x = N THEN attempt[j][x] + 1 ELSE attempt[j][x])
    BY <1>1, <1>4 DEF IInv, TypeOK, DbOK, CommitFinalize
  <2>2. \A x \in Steps :
          stepStatus'[j][x] =
            (IF x = N THEN "succeeded"
             ELSE IF RequiredFailed(seenStatus[w]) /\ stepStatus[j][x] = "pending"
             THEN "skipped" ELSE stepStatus[j][x])
    BY <1>1, <1>4 DEF IInv, TypeOK, DbOK, CommitFinalize
  <2> QED
    BY <2>1, <2>2, <1>1
<1>8. \A i \in Jobs : StopsUnder(i)' => StopsUnder(i)
  <2>1. \A v \in Workers, i \in Jobs : Executes(v, i)' /\ stopping'[v] =>
           \/ Executes(v, i) /\ stopping[v]
           \/ SameWorker(v) /\ stopping'[v] = stopping[v]
    BY <1>6 DEF Executes
  <2>2. \A i \in Jobs, x \in Steps : stepStatus'[i][x] = "running" =>
           stepStatus[i][x] = "running" /\ attempt'[i][x] = attempt[i][x]
    BY <1>3, <1>6, <1>7 DEF SameJob
  <2> QED
    BY <2>1, <2>2, StopsKept
<1>9. Mishaps' = Mishaps /\ \A i \in Jobs : Asked(i)' <=> Asked(i)
  BY <1>6, SameMishaps DEF Asked
<1>10. ASSUME NEW i \in Jobs \ {j}, NEW x \in Steps PROVE Paid(i, x)'
  <2>1. \A v \in Workers : pc[v] = "handler" /\ jobOf[v] = i => SameWorker(v)
    BY <1>6
  <2> QED
    BY <2>1, <1>6, <1>8, RowAlone DEF Accounts, SameJob
<1>11. ASSUME NEW x \in Steps \ {N} PROVE Paid(j, x)'
  <2>1. Unfinished(j, x)' => Unfinished(j, x)
    BY <1>3, <1>7 DEF Unfinished
  <2>2. /\ One(Unfinished(j, x)') <= One(Unfinished(j, x))
        /\ One(StopsUnder(j)') <= One(StopsUnder(j))
        /\ One(Asked(j)') <= One(Asked(j))
    BY <2>1, <1>8, <1>9 DEF One
  <2>3. Paid(j, x) /\ attempt'[j][x] = attempt[j][x]
    BY <1>7 DEF Accounts
  <2> QED
    BY <2>2, <2>3, <1>9, AccountTypes, Covered
<1>12. Paid(j, N)'
  <2>1. Unfinished(j, N) /\ ~Unfinished(j, N)'
    BY <1>5, <1>7 DEF Unfinished
  <2>2. /\ One(Unfinished(j, N)) = 1 /\ One(Unfinished(j, N)') = 0
        /\ One(StopsUnder(j)') <= One(StopsUnder(j))
        /\ One(Asked(j)') <= One(Asked(j))
    BY <2>1, <1>8, <1>9 DEF One
  <2>3. Paid(j, N)
    BY <1>1 DEF Accounts
  <2> QED
    BY <2>2, <2>3, <1>1, <1>7, <1>9, AccountTypes, Covered
<1>13. \A i \in Jobs : FinalWithJob(i)'
  BY <1>6 DEF Accounts, FinalWithJob, SameJob
<1> QED
  BY <1>10, <1>11, <1>12, <1>13 DEF Accounts

\* submitting a job counts the execution of validate_input
LEMMA AccountsSubmit ==
  ASSUME IInv, TypeOK', Accounts, NEW j \in Jobs, Submit(j)
  PROVE  Accounts'
<1>1. 1 \in Steps /\ N # 1
  BY VocabularyAssumption DEF Steps
<1>2. \A x \in Steps : stepStatus[j][x] = "pending" /\ attempt[j][x] = 0
  BY DEF IInv, JobInv, Untouched, Submit
<1>3. /\ UNCHANGED <<pc, session, stopping, retry, budgets, beat>>
      /\ jobStatus[j] = "absent" /\ \A i \in Jobs \ {j} : SameJob(i)
      /\ \A x \in Steps :
           /\ attempt'[j][x] = (IF x = 1 THEN 1 ELSE attempt[j][x])
           /\ stepStatus'[j][x] = (IF x = 1 THEN "succeeded" ELSE stepStatus[j][x])
  BY <1>1, <1>2 DEF IInv, TypeOK, DbOK, Submit, SameJob
<1>4. \A v \in Workers : SameWorker(v) /\ stopping'[v] = stopping[v]
  BY <1>3 DEF SameWorker, session, cache
<1>5. \A i \in Jobs : StopsUnder(i)' => StopsUnder(i)
  <2>1. \A i \in Jobs, x \in Steps : stepStatus'[i][x] = "running" =>
           stepStatus[i][x] = "running" /\ attempt'[i][x] = attempt[i][x]
    BY <1>2, <1>3 DEF SameJob
  <2> QED
    BY <2>1, <1>4, StopsKept
<1>6. ASSUME NEW i \in Jobs, NEW x \in Steps, <<i, x>> # <<j, 1>> PROVE Paid(i, x)'
  <2>1. stepStatus'[i][x] = stepStatus[i][x] /\ attempt'[i][x] = attempt[i][x]
    BY <1>3, <1>6 DEF SameJob
  <2> QED
    BY <2>1, <1>3, <1>4, <1>5, RowAlone DEF Accounts
<1>7. Paid(j, 1)'
  <2>1. Unfinished(j, 1) /\ ~Unfinished(j, 1)'
    BY <1>1, <1>2, <1>3 DEF Unfinished
  <2>2. /\ One(Unfinished(j, 1)) = 1 /\ One(Unfinished(j, 1)') = 0
        /\ One(StopsUnder(j)') <= One(StopsUnder(j))
        /\ One(Asked(j)') <= One(Asked(j))
    BY <2>1, <1>3, <1>5 DEF One, Asked
  <2>3. Mishaps' = Mishaps /\ Paid(j, 1) /\ attempt'[j][1] = attempt[j][1] + 1
    BY <1>1, <1>2, <1>3, SameMishaps DEF Accounts
  <2> QED
    BY <2>2, <2>3, <1>1, AccountTypes, Covered
<1>8. \A i \in Jobs : FinalWithJob(i)'
  BY <1>1, <1>2, <1>3, VocabularyAssumption DEF Accounts, FinalWithJob, SameJob, Steps
<1> QED
  BY <1>6, <1>7, <1>8 DEF Accounts

\* the execution a recovery makes possible was owed since the beat was stale
LEMMA AccountsRecover ==
  ASSUME IInv, TypeOK', Accounts, NEW w \in Workers, PollAndRecover(w)
  PROVE  Accounts'
<1> PICK r \in StaleJobs, j \in Jobs :
      /\ stepStatus' = [stepStatus EXCEPT ![r][FirstRunning(r)] = "pending"]
      /\ beat' = [beat EXCEPT ![r][FirstRunning(r)] = "fresh"]
      /\ Claim(w, j, [jobStatus EXCEPT ![r] = "pending"])
  BY DEF PollAndRecover
<1>1. PICK s \in Steps : s = FirstRunning(r)
  BY RecoversRunning
<1>2. r \in Jobs /\ jobStatus[r] = "running" /\ stepStatus[r][s] = "running" /\ beat[r][s] = "stale"
  BY <1>1, RecoversRunning DEF StaleJobs
<1>3. /\ \A v \in Workers \ {w} : SameWorker(v)
      /\ UNCHANGED <<attempt, stopping, retry, budgets>>
      /\ pc[w] = "idle" /\ ~stopping[w] /\ pc'[w] = "claimed" /\ jobOf'[w] = j
  BY DEF IInv, TypeOK, WorkersOK, PollAndRecover, Claim, SameWorker, cache
<1>4. /\ stepStatus'[r][s] = "pending"
      /\ \A i \in Jobs, x \in Steps : <<i, x>> # <<r, s>> =>
           stepStatus'[i][x] = stepStatus[i][x] /\ beat'[i][x] = beat[i][x]
  BY <1>1, <1>2 DEF IInv, TypeOK, DbOK
<1>5. \A i \in Jobs : jobStatus[i] \in Settled => jobStatus'[i] = jobStatus[i]
  BY <1>2 DEF Claim, Oldest, Settled, IInv, TypeOK, DbOK
<1>6. \A i \in Jobs : StopsUnder(i)' => StopsUnder(i)
  <2>1. \A i \in Jobs, x \in Steps : stepStatus'[i][x] = "running" =>
           stepStatus[i][x] = "running" /\ attempt'[i][x] = attempt[i][x]
    BY <1>3, <1>4
  <2>2. \A v \in Workers, i \in Jobs : Executes(v, i)' /\ stopping'[v] =>
           SameWorker(v) /\ stopping'[v] = stopping[v]
    BY <1>3
  <2> QED
    BY <2>1, <2>2, StopsKept
<1>7. ASSUME NEW i \in Jobs, NEW x \in Steps, <<i, x>> # <<r, s>> PROVE Paid(i, x)'
  <2>1. \A v \in Workers : pc[v] = "handler" => SameWorker(v)
    BY <1>3
  <2> QED
    BY <2>1, <1>3, <1>4, <1>6, <1>7, RowAlone DEF Accounts
<1>8. Paid(r, s)'
  <2>1. Unfinished(r, s)
    BY <1>2 DEF Unfinished
  <2>2. /\ One(Unfinished(r, s)) = 1
        /\ One(StopsUnder(r)') <= One(StopsUnder(r))
        /\ One(Asked(r)') <= One(Asked(r))
    BY <2>1, <1>2, <1>3, <1>6 DEF One, Asked
  <2>3. Mishaps' = Mishaps /\ Paid(r, s) /\ attempt'[r][s] = attempt[r][s]
    BY <1>2, <1>3, SameMishaps DEF Accounts
  <2> QED
    BY <2>2, <2>3, <1>2, AccountTypes, Covered
<1>9. \A i \in Jobs : FinalWithJob(i)'
  <2>1. \A i \in Jobs : stepStatus'[i][N] = "succeeded" => stepStatus[i][N] = "succeeded"
    BY <1>2, <1>4, VocabularyAssumption DEF Steps
  <2> QED
    BY <2>1, <1>5 DEF Accounts, FinalWithJob
<1> QED
  BY <1>7, <1>8, <1>9 DEF Accounts

\* a mishap is counted when it happens, whatever comes of it
LEMMA Mishap ==
  ASSUME IInv, TypeOK',
         \/ crashes' = crashes + 1 /\ UNCHANGED <<signals, late, retries>>
         \/ signals' = signals + 1 /\ UNCHANGED <<crashes, late, retries>>
         \/ late' = late + 1 /\ UNCHANGED <<crashes, signals, retries>>
         \/ retries' = retries + 1 /\ UNCHANGED <<crashes, signals, late>>
  PROVE  Mishaps' = Mishaps + 1
<1>1. crashes \in Nat /\ signals \in Nat /\ late \in Nat /\ retries \in Nat
  BY DEF IInv, TypeOK, RetryOK
<1>2. /\ Mishaps = crashes + signals + late + retries
      /\ Mishaps' = crashes' + signals' + late' + retries'
  BY Zenon DEF Mishaps
<1> QED
  BY <1>1, <1>2

\* a mishap costs a step one more execution at most
LEMMA AccountsMishap ==
  ASSUME IInv, TypeOK', Accounts, Mishaps' = Mishaps + 1, UNCHANGED <<stepStatus, attempt, jobStatus>>,
         \A j \in Jobs, s \in Steps :
            \/ /\ StopsUnder(j)' => StopsUnder(j)
               /\ Asked(j)' => Asked(j)
            \/ /\ Unfinished(j, s)' => Unfinished(j, s)
               /\ Asked(j)' => Asked(j)
            \/ /\ Unfinished(j, s)' => Unfinished(j, s)
               /\ StopsUnder(j)' => StopsUnder(j)
  PROVE  Accounts'
<1>1. ASSUME NEW j \in Jobs, NEW s \in Steps PROVE Paid(j, s)'
  <2>1. One(Unfinished(j, s)') + One(StopsUnder(j)') + One(Asked(j)')
          <= One(Unfinished(j, s)) + One(StopsUnder(j)) + One(Asked(j)) + 1
    BY DEF One
  <2>2. Paid(j, s) /\ attempt'[j][s] = attempt[j][s]
    BY DEF Accounts
  <2> QED
    BY <2>1, <2>2, AccountTypes, Covered
<1> QED
  BY <1>1 DEF Accounts, FinalWithJob

LEMMA AccountsSignal ==
  ASSUME IInv, TypeOK', Accounts, NEW w \in Workers, Signal(w)
  PROVE  Accounts'
<1>1. Mishaps' = Mishaps + 1
  BY Mishap DEF Signal
<1>2. \A j \in Jobs, s \in Steps : Unfinished(j, s)' <=> Unfinished(j, s)
  BY DEF Unfinished, HasLiveHandler, Signal, db, session
<1>3. \A j \in Jobs : Asked(j)' <=> Asked(j)
  BY DEF Asked, Signal
<1> QED
  BY <1>1, <1>2, <1>3, AccountsMishap DEF Signal, db

LEMMA AccountsCrash ==
  ASSUME IInv, TypeOK', Accounts, NEW w \in Workers, Crash(w)
  PROVE  Accounts'
<1>1. Mishaps' = Mishaps + 1
  BY Mishap DEF Crash
<1>2. \A j \in Jobs : StopsUnder(j)' => StopsUnder(j)
  BY DEF StopsUnder, Executes, Crash, Forget, IInv, TypeOK, WorkersOK, db
<1>3. \A j \in Jobs : Asked(j)' <=> Asked(j)
  BY DEF Asked, Crash
<1> QED
  BY <1>1, <1>2, <1>3, AccountsMishap DEF Crash, db

LEMMA AccountsStale ==
  ASSUME IInv, TypeOK', Accounts, NEW j \in Jobs, NEW s \in Steps, BecomeStale(j, s)
  PROVE  Accounts'
<1>1. \A i \in Jobs : (StopsUnder(i)' <=> StopsUnder(i)) /\ (Asked(i)' <=> Asked(i))
  BY DEF StopsUnder, Executes, Asked, BecomeStale, session
<1>2. CASE HasLiveHandler(j, s)
  BY <1>1, <1>2, Mishap, AccountsMishap DEF BecomeStale
<1>3. CASE ~HasLiveHandler(j, s)
  <2>1. UNCHANGED budgets
    BY <1>3 DEF BecomeStale, budgets
  <2>2. ASSUME NEW i \in Jobs, NEW x \in Steps PROVE Paid(i, x)'
    <3>1. Unfinished(i, x)' => Unfinished(i, x)
      BY <1>3 DEF Unfinished, HasLiveHandler, BecomeStale, IInv, TypeOK, DbOK, session
    <3>2. /\ One(Unfinished(i, x)') <= One(Unfinished(i, x))
          /\ One(StopsUnder(i)') <= One(StopsUnder(i))
          /\ One(Asked(i)') <= One(Asked(i))
      BY <3>1, <1>1 DEF One
    <3>3. Paid(i, x) /\ attempt'[i][x] = attempt[i][x]
      BY DEF BecomeStale, Accounts
    <3> QED
      BY <3>2, <3>3, <2>1, SameMishaps, AccountTypes, Covered
  <2> QED
    BY <2>2 DEF Accounts, FinalWithJob, BecomeStale
<1> QED
  BY <1>2, <1>3

LEMMA AccountsAsk ==
  ASSUME IInv, TypeOK', Accounts, NEW j \in Jobs, NEW f \in Steps, QuietRetry(j, f)
  PROVE  Accounts'
<1>1. Mishaps' = Mishaps + 1
  BY Mishap DEF QuietRetry, ReadForRetry
<1>2. \A i \in Jobs, s \in Steps : /\ Unfinished(i, s)' <=> Unfinished(i, s)
                                   /\ StopsUnder(i)' <=> StopsUnder(i)
  BY DEF Unfinished, HasLiveHandler, StopsUnder, Executes, QuietRetry, ReadForRetry, db, session
<1> QED
  BY <1>1, <1>2, AccountsMishap DEF QuietRetry, ReadForRetry, db

\* the executions a retry opens were asked for, and counted, when it was read;
\* finalize_job is opened again with its job
LEMMA AccountsRetry ==
  ASSUME IInv, TypeOK', Accounts, CommitRetry
  PROVE  Accounts'
<1>1. retry.job \in Jobs /\ retry.from \in Steps /\ N \in Steps
  BY VocabularyAssumption DEF IInv, TypeOK, RetryOK, CommitRetry, Steps
<1> PICK j \in Jobs, f \in Steps : j = retry.job /\ f = retry.from
  BY <1>1
<1>2. /\ jobStatus[j] \in Settled /\ retry.status = stepStatus[j]
      /\ \A x \in Steps : stepStatus[j][x] \in Done
  BY DEF IInv, RetryCoherent, CommitRetry, JobInv, Final
<1>3. /\ UNCHANGED <<attempt, beat, pc, session, stopping, budgets>>
      /\ \A i \in Jobs \ {j} : SameJob(i)
      /\ \A x \in Steps :
           stepStatus'[j][x] = (IF x >= f THEN "pending" ELSE stepStatus[j][x])
      /\ \A i \in Jobs : ~Asked(i)'
  <2>1. \A x \in Steps : stepStatus'[j][x] = (IF x >= f THEN "pending" ELSE stepStatus[j][x])
    BY <1>2 DEF CommitRetry, Done, IInv, TypeOK, DbOK
  <2>2. \A i \in Jobs : ~Asked(i)'
    BY DEF CommitRetry, NoRetry, NoJob, Asked, Jobs
  <2> QED
    BY <2>1, <2>2 DEF CommitRetry, SameJob, IInv, TypeOK, DbOK
<1>4. \A i \in Jobs, x \in Steps : stepStatus'[i][x] = "running" =>
         stepStatus[i][x] = "running" /\ attempt'[i][x] = attempt[i][x]
  BY <1>3 DEF SameJob
<1>5. \A i \in Jobs : StopsUnder(i)' => StopsUnder(i)
  <2>1. \A v \in Workers : SameWorker(v) /\ stopping'[v] = stopping[v]
    BY <1>3 DEF SameWorker, session, cache
  <2> QED
    BY <2>1, <1>4, StopsKept
<1>6. Mishaps' = Mishaps
  BY <1>3, SameMishaps
<1>7. ASSUME NEW i \in Jobs \ {j}, NEW x \in Steps PROVE Paid(i, x)'
  <2>1. Unfinished(i, x)' <=> Unfinished(i, x)
    BY <1>3 DEF Unfinished, HasLiveHandler, SameJob, session
  <2>2. /\ One(Unfinished(i, x)') <= One(Unfinished(i, x))
        /\ One(StopsUnder(i)') <= One(StopsUnder(i))
        /\ One(Asked(i)') <= One(Asked(i))
    BY <2>1, <1>3, <1>5 DEF One
  <2>3. Paid(i, x) /\ attempt'[i][x] = attempt[i][x]
    BY <1>3 DEF Accounts
  <2> QED
    BY <2>2, <2>3, <1>6, AccountTypes, Covered
<1>8. ASSUME NEW x \in Steps PROVE Paid(j, x)'
  <2>1. /\ One(Asked(j)) = 1 /\ One(Asked(j)') = 0
        /\ One(StopsUnder(j)') <= One(StopsUnder(j))
    BY <1>3, <1>5 DEF One, Asked
  <2>2. Paid(j, x) /\ attempt'[j][x] = attempt[j][x]
    BY <1>3 DEF Accounts
  <2> QED
    BY <2>1, <2>2, <1>6, AccountTypes, Covered
<1>9. \A i \in Jobs : FinalWithJob(i)'
  <2>1. N >= f
    BY VocabularyAssumption DEF Steps
  <2> QED
    BY <2>1, <1>1, <1>3 DEF Accounts, FinalWithJob, SameJob
<1> QED
  BY <1>7, <1>8, <1>9 DEF Accounts

LEMMA AccountsInit == Init => Accounts
<1> SUFFICES ASSUME Init PROVE Accounts
  OBVIOUS
<1>1. ASSUME NEW j \in Jobs, NEW s \in Steps PROVE Paid(j, s)
  <2>1. ~StopsUnder(j) /\ ~Asked(j)
    BY DEF Init, StopsUnder, Asked, NoRetry, NoJob, Jobs
  <2>2. Owed(j, s) <= 1 /\ Owed(j, s) \in Nat
    BY <2>1 DEF Owed, One
  <2>3. attempt[j][s] = 0 /\ Mishaps = 0
    BY DEF Init, Mishaps
  <2> QED
    BY <2>2, <2>3 DEF Paid
<1> QED
  BY <1>1, VocabularyAssumption DEF Accounts, FinalWithJob, Init, Steps

LEMMA AccountsNext == IInv /\ Accounts /\ [QuietNext]_vars => Accounts'
<1> SUFFICES ASSUME IInv, Accounts, [QuietNext]_vars
             PROVE  Accounts'
  OBVIOUS
<1>1. TypeOK'
  BY TypeNext, QuietIsNext DEF IInv
<1>2. ASSUME NEW w \in Workers, WorkerStep(w)
      PROVE  Accounts'
  <2>1. CASE \/ PollAndClaim(w) \/ MarkRunning(w) \/ ListSteps(w) \/ Refresh(w) \/ PassStep(w)
             \/ ReadForFinalize(w) \/ DiscardStale(w) \/ ExitLoop(w) \/ Restart(w)
    BY <2>1, <1>1, AccountsHidden
  <2>2. CASE ReleaseStep(w) \/ \E o \in Done, b \in BOOLEAN : FinishStep(w, o, b)
    BY <2>2, <1>1, AccountsEnd
  <2> QED
    BY <1>1, <1>2, <2>1, <2>2, AccountsRecover, AccountsStart, AccountsFinalize DEF WorkerStep
<1>3. CASE Environment
  BY <1>1, <1>3, AccountsSubmit, AccountsHidden, AccountsSignal, AccountsCrash, AccountsStale,
     AccountsRetry DEF Environment
<1>4. CASE \E j \in Jobs, f \in Steps : QuietRetry(j, f)
  BY <1>1, <1>4, AccountsAsk
<1>5. CASE UNCHANGED vars
  <2>1. UNCHANGED <<db, pc, session, stopping, retry, budgets>>
    BY <1>5 DEF vars
  <2>2. \A j \in Jobs, s \in Steps :
          /\ Unfinished(j, s)' <=> Unfinished(j, s)
          /\ StopsUnder(j)' <=> StopsUnder(j)
          /\ Asked(j)' <=> Asked(j)
    BY <2>1 DEF Unfinished, HasLiveHandler, StopsUnder, Executes, Asked, db, session
  <2>3. ASSUME NEW j \in Jobs, NEW s \in Steps PROVE Paid(j, s)'
    <3>1. /\ One(Unfinished(j, s)') <= One(Unfinished(j, s))
          /\ One(StopsUnder(j)') <= One(StopsUnder(j))
          /\ One(Asked(j)') <= One(Asked(j))
      BY <2>2 DEF One
    <3>2. Mishaps' = Mishaps /\ Paid(j, s) /\ attempt'[j][s] = attempt[j][s]
      BY <2>1, SameMishaps DEF Accounts, db
    <3> QED
      BY <3>1, <3>2, <1>1, AccountTypes, Covered
  <2> QED
    BY <2>1, <2>3 DEF Accounts, FinalWithJob, db
<1> QED
  BY <1>2, <1>3, <1>4, <1>5 DEF QuietNext

\* A step is not executed more often than something went wrong: however the
\* crashes, stops, late heartbeats and retries of a job fall, each of them costs
\* at most one more execution of a step and nothing else costs any.
THEOREM ExecutionsAreBounded == QuietSpec => []ExecutionsBounded
<1>1. IInv /\ Accounts => ExecutionsBounded
  <2> SUFFICES ASSUME IInv, Accounts, NEW j \in Jobs, NEW s \in Steps
               PROVE  attempt[j][s] <= 1 + crashes + signals + late + retries
    BY DEF ExecutionsBounded
  <2>1. /\ attempt[j][s] \in Nat
        /\ crashes \in Nat /\ signals \in Nat /\ late \in Nat /\ retries \in Nat
    BY DEF IInv, TypeOK, DbOK, RetryOK
  <2>2. Owed(j, s) \in Nat
    BY DEF Owed, One
  <2>3. attempt[j][s] + Owed(j, s) <= 1 + Mishaps
    BY DEF Accounts, Paid
  <2> QED
    BY <2>1, <2>2, <2>3 DEF Mishaps
<1>2. QuietSpec => []Accounts
  BY AccountsInit, AccountsNext, InvHolds, PTL DEF QuietSpec
<1> QED
  BY <1>1, <1>2, InvHolds, PTL

-----------------------------------------------------------------------------
(* JobPipeline implements JobContract, for every number of jobs, workers   *)
(* and steps, as long as jobs are retried only once they have settled.     *)
(* Under the inductive invariant every step of the pipeline is a step of   *)
(* the contract or leaves it unchanged.                                    *)


\* the abstract state of one job
Verdict(j) == VerdictOf(jobStatus[j])
Result(j)  == [s \in Steps |-> ResultOf(stepStatus[j][s])]

LEMMA Vocabulary ==
  /\ Contract!Jobs = Jobs /\ Contract!Steps = Steps /\ Contract!Done = Done
  /\ Contract!Settled = Settled
BY DEF Contract!Jobs, Contract!Steps, Contract!Done, Contract!Settled, Jobs, Steps, Done,
   Settled

\* what the contract sees of a step that concerns the rows of one job only
LEMMA Focus ==
  ASSUME NEW j \in Jobs, \A i \in Jobs \ {j} : SameJob(i)
  PROVE  /\ [i \in Jobs |-> Verdict(i)]' = [[i \in Jobs |-> Verdict(i)] EXCEPT ![j] = Verdict(j)']
         /\ [i \in Jobs |-> Result(i)]' = [[i \in Jobs |-> Result(i)] EXCEPT ![j] = Result(j)']
BY DEF SameJob, Verdict, Result

\* the contract does not see claims, releases, recoveries and starts
LEMMA Unseen ==
  ASSUME \A j \in Jobs : Verdict(j)' = Verdict(j),
         \A j \in Jobs, s \in Steps :
           ResultOf(stepStatus'[j][s]) = ResultOf(stepStatus[j][s])
  PROVE  UNCHANGED Contract!cvars
<1>1. [j \in Jobs |-> VerdictOf(jobStatus[j])]' = [j \in Jobs |-> VerdictOf(jobStatus[j])]
  BY DEF Verdict
<1>2. [j \in Jobs |-> [s \in Steps |-> ResultOf(stepStatus[j][s])]]'
        = [j \in Jobs |-> [s \in Steps |-> ResultOf(stepStatus[j][s])]]
  OBVIOUS
<1> QED
  BY <1>1, <1>2 DEF Contract!cvars

LEMMA InitMaps == Init => Contract!Init
BY Vocabulary DEF Init, Contract!Init, VerdictOf, ResultOf, Done

LEMMA SubmitMaps ==
  ASSUME IInv, NEW j \in Jobs, Submit(j)
  PROVE  Contract!Accept(j)
<1>1. 1 \in Steps
  BY VocabularyAssumption DEF Steps
<1>2. Verdict(j) = "absent" /\ Verdict(j)' = "open"
  BY DEF Submit, Verdict, VerdictOf, IInv, TypeOK, DbOK
<1>3. \A i \in Jobs \ {j} : SameJob(i)
  BY DEF Submit, SameJob, IInv, TypeOK, DbOK
<1>4. Result(j)' = [Result(j) EXCEPT ![1] = "succeeded"]
  <2>1. \A s \in Steps : stepStatus'[j][s] = (IF s = 1 THEN "succeeded" ELSE stepStatus[j][s])
    BY <1>1 DEF Submit, IInv, TypeOK, DbOK
  <2> QED
    BY <2>1, <1>1 DEF Result, ResultOf, Done
<1> QED
  BY <1>2, <1>3, <1>4, Focus DEF Contract!Accept, Verdict, Result

LEMMA FinishMaps ==
  ASSUME IInv, NEW w \in Workers, NEW o \in Done, NEW b \in BOOLEAN, FinishStep(w, o, b)
  PROVE  \E j \in Jobs, s \in Steps : Contract!Complete(j, s, o)
<1>1. jobOf[w] \in Jobs /\ cur[w] \in Steps
  BY DEF IInv, FinishStep, TypeOK, WorkersOK
<1> PICK j \in Jobs, s \in Steps : j = jobOf[w] /\ s = cur[w]
  BY <1>1
<1>2. Executes(w, j) /\ s # N /\ stepStatus[j][s] = "running"
  BY DEF FinishStep, Fenced, Executes, IInv, TypeOK, WorkersOK
<1>3. jobStatus[j] = "running" /\ jobStatus' = jobStatus
  BY <1>2, SoleExecutor DEF FinishStep
<1>4. \A t \in Steps : t < s => stepStatus[j][t] \in Done
  BY <1>2 DEF IInv, WorkerInv, Progress, FinishStep
<1>5. ~Contract!RequiredFailed(Result(j))
  <2>1. ~RequiredFailed(stepStatus[j])
    BY <1>2 DEF IInv, WorkerInv, Unfailed, FinishStep
  <2> QED
    BY <2>1, VocabularyAssumption
       DEF Contract!RequiredFailed, RequiredFailed, Result, ResultOf, Steps
<1>6. \A i \in Jobs \ {j} : SameJob(i)
  BY DEF FinishStep, SameJob, IInv, TypeOK, DbOK
<1>7. Result(j)' = [Result(j) EXCEPT ![s] = o]
  <2>1. \A x \in Steps : stepStatus'[j][x] = (IF x = s THEN o ELSE stepStatus[j][x])
    BY DEF FinishStep, IInv, TypeOK, DbOK
  <2> QED
    BY <2>1 DEF Result, ResultOf
<1>8. /\ Verdict(j) = "open" /\ Result(j)[s] = "todo"
      /\ \A t \in Steps : t < s => Result(j)[t] \in Done
  BY <1>2, <1>3, <1>4 DEF Verdict, VerdictOf, Result, ResultOf, Done
<1>9. [i \in Jobs |-> Verdict(i)]' = [i \in Jobs |-> Verdict(i)]
  BY <1>3 DEF Verdict
<1> QED
  <2>1. [i \in Jobs |-> Result(i)][j] = Result(j) /\ [i \in Jobs |-> Verdict(i)][j] = Verdict(j)
    OBVIOUS
  <2>2. [i \in Jobs |-> Result(i)]' = [[i \in Jobs |-> Result(i)] EXCEPT ![j][s] = o]
    BY <1>6, <1>7, <2>1, Focus
  <2> QED
    BY <1>2, <1>5, <1>8, <1>9, <2>1, <2>2, Vocabulary DEF Contract!Complete, Verdict, Result

LEMMA FinalizeMaps ==
  ASSUME IInv, NEW w \in Workers, CommitFinalize(w)
  PROVE  \E j \in Jobs : Contract!Settle(j)
<1>1. jobOf[w] \in Jobs /\ N \in Steps /\ Required \subseteq Steps /\ N \in Required
  BY VocabularyAssumption DEF IInv, CommitFinalize, TypeOK, WorkersOK, Steps
<1> PICK j \in Jobs : j = jobOf[w]
  BY <1>1
<1>2. Executes(w, j)
  BY DEF CommitFinalize, Executes
<1>3. /\ jobStatus[j] = "running"
      /\ \A x \in Steps : stepStatus[j][x] \in Done \cup {"pending"}
  BY <1>2, SoleExecutor
     DEF IInv, WorkerInv, Gap, CommitFinalize, TypeOK, DbOK, StepStatus
<1>4. \A x \in Steps :
        /\ seenStatus[w][x] = stepStatus[j][x]
        /\ x # N => stepStatus[j][x] \in Done \/ AfterFailure(stepStatus[j], x)
  BY <1>1, <1>2 DEF IInv, WorkerInv, Coherent, Progress, AfterFailure, CommitFinalize
<1>5. /\ \A i \in Jobs \ {j} : SameJob(i)
      /\ jobStatus'[j] = JobOutcome(seenStatus[w])
      /\ \A x \in Steps :
           stepStatus'[j][x] =
             (IF x = N THEN "succeeded"
              ELSE IF RequiredFailed(seenStatus[w]) /\ stepStatus[j][x] = "pending"
              THEN "skipped" ELSE stepStatus[j][x])
  BY <1>1, <1>4 DEF IInv, TypeOK, DbOK, CommitFinalize, SameJob
<1>6. Contract!RequiredFailed(Result(j)) <=> RequiredFailed(seenStatus[w])
  BY <1>1, <1>4 DEF Contract!RequiredFailed, RequiredFailed, Result, ResultOf, Done
<1>7. \/ Contract!RequiredFailed(Result(j))
      \/ \A s \in Steps \ {N} : Result(j)[s] \in Done
  BY <1>1, <1>4, <1>6 DEF AfterFailure, RequiredFailed, Result, ResultOf
<1>8. Contract!OptionalIncomplete(Result(j)) <=> OptionalIncomplete(seenStatus[w])
  BY <1>4 DEF Contract!OptionalIncomplete, Contract!Steps, OptionalIncomplete, Steps, Result,
     ResultOf, Done
<1>9. Verdict(j) = "open" /\ Verdict(j)' = Contract!JobOutcome(Result(j))
  BY <1>3, <1>5, <1>6, <1>8 DEF Verdict, VerdictOf, JobOutcome, Contract!JobOutcome
<1>10. Result(j)' = [s \in Steps |->
         IF s = N THEN "succeeded"
         ELSE IF Result(j)[s] = "todo" THEN "skipped" ELSE Result(j)[s]]
  <2>1. \A s \in Steps \ {N} : stepStatus[j][s] = "pending" => RequiredFailed(seenStatus[w])
    BY <1>1, <1>4 DEF AfterFailure, RequiredFailed, Done
  <2> QED
    BY <2>1, <1>3, <1>5 DEF Result, ResultOf, Done
<1> QED
  <2>1. [i \in Jobs |-> Result(i)][j] = Result(j) /\ [i \in Jobs |-> Verdict(i)][j] = Verdict(j)
    OBVIOUS
  <2>2. [i \in Jobs |-> Verdict(i)]' =
          [[i \in Jobs |-> Verdict(i)] EXCEPT ![j] = Contract!JobOutcome(Result(j))]
    BY <1>5, <1>9, Focus
  <2>3. [i \in Jobs |-> Result(i)]' =
          [[i \in Jobs |-> Result(i)] EXCEPT ![j] = [s \in Steps |->
             IF s = N THEN "succeeded" ELSE IF @[s] = "todo" THEN "skipped" ELSE @[s]]]
    BY <1>5, <1>10, <2>1, Focus
  <2> QED
    BY <1>7, <1>9, <2>1, <2>2, <2>3, Vocabulary DEF Contract!Settle, Verdict, Result

LEMMA RetryMaps ==
  ASSUME IInv, CommitRetry
  PROVE  \E j \in Jobs, f \in Steps : Contract!Reopen(j, f)
<1>1. retry.job \in Jobs /\ retry.from \in Steps
  BY DEF IInv, TypeOK, RetryOK, CommitRetry
<1> PICK j \in Jobs, f \in Steps : j = retry.job /\ f = retry.from
  BY <1>1
<1>2. /\ jobStatus[j] \in Settled /\ retry.jobStatus = jobStatus[j]
      /\ retry.status = stepStatus[j] /\ stepStatus[j][f] = "failed"
      /\ \A x \in Steps : stepStatus[j][x] \in Done
  BY DEF IInv, RetryCoherent, CommitRetry, JobInv, Final
<1>3. /\ jobStatus'[j] = "pending"
      /\ \A i \in Jobs \ {j} : SameJob(i)
      /\ \A x \in Steps :
           stepStatus'[j][x] = (IF x >= f THEN "pending" ELSE stepStatus[j][x])
  BY <1>2 DEF IInv, TypeOK, DbOK, CommitRetry, SameJob, Settled, Done
<1>4. Verdict(j) \in Settled /\ Verdict(j)' = "open" /\ Result(j)[f] = "failed"
  BY <1>2, <1>3 DEF Verdict, VerdictOf, Result, ResultOf, Settled, Done
<1>5. Result(j)' = [s \in Steps |-> IF s >= f THEN "todo" ELSE Result(j)[s]]
  BY <1>3 DEF Result, ResultOf, Done
<1> QED
  <2>1. [i \in Jobs |-> Result(i)][j] = Result(j) /\ [i \in Jobs |-> Verdict(i)][j] = Verdict(j)
    OBVIOUS
  <2>2. [i \in Jobs |-> Verdict(i)]' = [[i \in Jobs |-> Verdict(i)] EXCEPT ![j] = "open"]
    BY <1>3, <1>4, Focus
  <2>3. [i \in Jobs |-> Result(i)]' =
          [[i \in Jobs |-> Result(i)] EXCEPT ![j] =
             [s \in Steps |-> IF s >= f THEN "todo" ELSE @[s]]]
    BY <1>3, <1>5, <2>1, Focus
  <2> QED
    <3>1. Contract!Reopen(j, f) <=>
            /\ [i \in Jobs |-> Verdict(i)][j] \in Settled
            /\ [i \in Jobs |-> Result(i)][j][f] = "failed"
            /\ [i \in Jobs |-> Verdict(i)]' = [[i \in Jobs |-> Verdict(i)] EXCEPT ![j] = "open"]
            /\ [i \in Jobs |-> Result(i)]' =
                 [[i \in Jobs |-> Result(i)] EXCEPT ![j] =
                    [s \in Steps |-> IF s >= f THEN "todo" ELSE @[s]]]
      BY Vocabulary DEF Contract!Reopen, Verdict, Result
    <3>2. Contract!Reopen(j, f)
      BY <3>1, <1>4, <2>1, <2>2, <2>3
    <3> QED
      BY <3>2

\* claims, releases, recoveries, starts and rereads are the pipeline's own
LEMMA HiddenMaps ==
  ASSUME IInv, NEW w \in Workers,
         \/ PollAndClaim(w) \/ PollAndRecover(w) \/ MarkRunning(w) \/ StartStep(w)
         \/ ReleaseStep(w)
  PROVE  UNCHANGED Contract!cvars
<1>1. CASE PollAndClaim(w)
  BY <1>1, Unseen DEF PollAndClaim, Claim, Oldest, Verdict, VerdictOf, IInv, TypeOK, DbOK
<1>2. CASE PollAndRecover(w)
  <2> PICK r \in StaleJobs, j \in Jobs :
        /\ stepStatus' = [stepStatus EXCEPT ![r][FirstRunning(r)] = "pending"]
        /\ Claim(w, j, [jobStatus EXCEPT ![r] = "pending"])
    BY <1>2 DEF PollAndRecover
  <2>1. r \in Jobs /\ jobStatus[r] = "running" /\ stepStatus[r][FirstRunning(r)] = "running"
    BY RecoversRunning DEF StaleJobs
  <2>2. \A i \in Jobs : Verdict(i)' = Verdict(i)
    BY <2>1 DEF Claim, Oldest, Verdict, VerdictOf, IInv, TypeOK, DbOK
  <2>3. \A i \in Jobs, s \in Steps : ResultOf(stepStatus'[i][s]) = ResultOf(stepStatus[i][s])
    BY <2>1 DEF ResultOf, Done, IInv, TypeOK, DbOK
  <2> QED
    BY <2>2, <2>3, Unseen
<1>3. CASE MarkRunning(w)
  <2>1. Executes(w, jobOf[w]) /\ jobOf[w] \in Jobs
    BY <1>3 DEF MarkRunning, Executes, IInv, TypeOK, WorkersOK
  <2>2. jobStatus[jobOf[w]] = "running"
    BY <2>1, SoleExecutor
  <2> QED
    BY <1>3, <2>1, <2>2, Unseen DEF MarkRunning, Verdict, VerdictOf, IInv, TypeOK, DbOK
<1>4. CASE StartStep(w)
  <2>1. jobOf[w] \in Jobs /\ cur[w] \in Steps /\ jobStatus' = jobStatus
    BY <1>4 DEF StartStep, IInv, TypeOK, WorkersOK
  <2>2. stepStatus[jobOf[w]][cur[w]] = "pending"
    BY <1>4, <2>1 DEF StartStep, Executes, IInv, WorkerInv, Coherent
  <2>3. \A i \in Jobs, s \in Steps : ResultOf(stepStatus'[i][s]) = ResultOf(stepStatus[i][s])
    BY <1>4, <2>1, <2>2 DEF StartStep, ResultOf, Done, IInv, TypeOK, DbOK
  <2> QED
    BY <2>1, <2>3, Unseen DEF Verdict
<1>5. CASE ReleaseStep(w)
  <2>1. jobOf[w] \in Jobs /\ cur[w] \in Steps /\ stepStatus[jobOf[w]][cur[w]] = "running"
    BY <1>5 DEF ReleaseStep, Fenced, IInv, TypeOK, WorkersOK
  <2>2. \A i \in Jobs : Verdict(i)' = Verdict(i)
    BY <1>5, <2>1 DEF ReleaseStep, ReleasedJob, Verdict, VerdictOf, IInv, TypeOK, DbOK
  <2>3. \A i \in Jobs, s \in Steps : ResultOf(stepStatus'[i][s]) = ResultOf(stepStatus[i][s])
    BY <1>5, <2>1 DEF ReleaseStep, ResultOf, Done, IInv, TypeOK, DbOK
  <2> QED
    BY <2>2, <2>3, Unseen
<1> QED
  BY <1>1, <1>2, <1>3, <1>4, <1>5

LEMMA NextMaps == IInv /\ [QuietNext]_vars => [Contract!Next]_(Contract!cvars)
<1> SUFFICES ASSUME IInv, [QuietNext]_vars
             PROVE  Contract!Next \/ UNCHANGED Contract!cvars
  OBVIOUS
<1>1. ASSUME UNCHANGED <<jobStatus, stepStatus>>
      PROVE  UNCHANGED Contract!cvars
  BY <1>1, Unseen DEF Verdict
<1>2. ASSUME NEW w \in Workers, WorkerStep(w)
      PROVE  Contract!Next \/ UNCHANGED Contract!cvars
  <2>1. CASE \/ PollAndClaim(w) \/ PollAndRecover(w) \/ MarkRunning(w) \/ StartStep(w)
             \/ ReleaseStep(w)
    BY <2>1, HiddenMaps
  <2>2. CASE \E o \in Done, b \in BOOLEAN : FinishStep(w, o, b)
    BY <2>2, FinishMaps, Vocabulary DEF Contract!Next
  <2>3. CASE CommitFinalize(w)
    BY <2>3, FinalizeMaps, Vocabulary DEF Contract!Next
  <2>4. CASE \/ ListSteps(w) \/ Refresh(w) \/ PassStep(w) \/ DiscardStale(w)
             \/ ReadForFinalize(w) \/ ExitLoop(w) \/ Restart(w)
    BY <2>4, <1>1 DEF ListSteps, Refresh, PassStep, DiscardStale, ReadForFinalize, ExitLoop,
       Restart, db
  <2> QED
    BY <1>2, <2>1, <2>2, <2>3, <2>4 DEF WorkerStep
<1>3. CASE Environment
  <2>1. CASE \E j \in Jobs : Submit(j)
    BY <2>1, SubmitMaps, Vocabulary DEF Contract!Next
  <2>2. CASE CommitRetry
    BY <2>2, RetryMaps, Vocabulary DEF Contract!Next
  <2>3. CASE \/ \E w \in Workers : Heartbeat(w) \/ Signal(w) \/ Crash(w)
             \/ \E j \in Jobs, s \in Steps : BecomeStale(j, s)
    BY <2>3, <1>1 DEF Heartbeat, Signal, Crash, BecomeStale, db
  <2> QED
    BY <1>3, <2>1, <2>2, <2>3 DEF Environment
<1>4. CASE \E j \in Jobs, f \in Steps : QuietRetry(j, f)
  BY <1>4, <1>1 DEF QuietRetry, ReadForRetry, db
<1>5. CASE UNCHANGED vars
  BY <1>5, <1>1 DEF vars, db
<1> QED
  BY <1>2, <1>3, <1>4, <1>5 DEF QuietNext

\* The pipeline implements its contract: whatever workers crash, stop, stall or
\* overtake each other, a step is completed once per opening of the job, in
\* order, and the job's verdict is the one its steps call for.
THEOREM PipelineImplementsContract == QuietSpec => ImplementsContract
BY InitMaps, NextMaps, InvHolds, PTL DEF QuietSpec, ImplementsContract, Contract!Spec
=============================================================================
