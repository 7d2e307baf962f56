------------------------------ MODULE RagStep ------------------------------
(***************************************************************************)
(* One RAG analysis step (analyze_comments or analyze_script) of one job:  *)
(* the executions of the step that crashes, SIGTERMs, recoveries and       *)
(* retries give rise to (app/analysis/services.py), the pool of threads    *)
(* that classifies the items (app/analysis/executor.py) and the rows and   *)
(* counters the outcomes are stored in (app/analysis/result_store.py).     *)
(*                                                                         *)
(* JobPipeline models the queue.  Here the step is all there is of it: any *)
(* executor may take the step while its row says "pending", even two at a  *)
(* time, which is what a retry of a running job leads to; two executors    *)
(* may then hold the same attempt number.                                  *)
(***************************************************************************)
EXTENDS FiniteSets, Naturals

CONSTANTS
  Executors,    \* the worker processes
  Items,        \* the comments or segments, none of them analysed at first
  Concurrency,  \* RAG_ITEM_CONCURRENCY: threads and futures at a time
  Parallel,     \* the executors started with RAG_EXECUTION_MODE "parallel" rather
                \* than "sequential"; a deployment that changes it has both
  MaxCrashes,   \* bound: crashes of a worker process
  MaxSignals,   \* bound: SIGTERMs delivered
  MaxLate,      \* bound: live executions taken for dead
  MaxRetries    \* bound: operator retries

ASSUME RagAssumption ==
  /\ IsFiniteSet(Items)
  /\ Concurrency \in Nat \ {0}
  /\ Parallel \subseteq Executors
  /\ MaxCrashes \in Nat /\ MaxSignals \in Nat
  /\ MaxLate \in Nat /\ MaxRetries \in Nat

VARIABLES
  \* the database
  status,    \* job_steps.status of the step
  attempt,   \* job_steps.attempt_count, the fencing token
  rows,      \* the result row of each item of the analysis run, or "none"
  progress,  \* job_steps.items_total, items_succeeded and items_failed
  shared,    \* history: two executions have held the same attempt number at a time
  \* the executions
  pc,        \* where the executor is in _run_step, analyze or RagRuntime.run
  seen,      \* attempt_count of its cached JobStep
  token,     \* expected_attempt
  counted,   \* what the SELECT of reconcile counted, until its UPDATE
  todo,      \* the items its iterator has not produced yet
  inFlight,  \* its futures, named by their items
  future,    \* the state of each future
  batch,     \* the completed futures the coordinator is going through
  draining,  \* shutdown_requested
  deadline,  \* shutdown_deadline is set
  cause,     \* the exception that is leaving run, while its threads end
  stopping,  \* the stop event SIGTERM sets
  \* budgets
  crashes, signals, late, retries

db      == <<status, attempt, rows, progress, shared>>
pool    == <<todo, inFlight, future, batch>>
drain   == <<draining, deadline>>
local   == <<pc, seen, token, counted, pool, drain, cause, stopping>>
budgets == <<crashes, signals, late, retries>>
vars    == <<db, local, budgets>>

Places == {"idle", "taken", "loading", "opening", "opened", "ready", "pick", "top", "wait",
           "record", "unwinding", "closing", "closed", "finishing"}

Stored  == {"succeeded", "failed"}
NoCount == [o \in Stored |-> 0]

\* an aborted future raises WorkerShutdownRequested, a rejected one an error
Futures == {"none", "running", "aborted", "rejected"} \cup Stored

Init ==
  /\ status = "pending" /\ attempt = 0
  /\ rows = [i \in Items |-> "none"]
  /\ progress = [total |-> 0, succeeded |-> 0, failed |-> 0]
  /\ shared = FALSE
  /\ pc       = [e \in Executors |-> "idle"]
  /\ seen     = [e \in Executors |-> 0]
  /\ token    = [e \in Executors |-> 0]
  /\ counted  = [e \in Executors |-> NoCount]
  /\ todo     = [e \in Executors |-> {}]
  /\ inFlight = [e \in Executors |-> {}]
  /\ future   = [e \in Executors |-> [i \in Items |-> "none"]]
  /\ batch    = [e \in Executors |-> {}]
  /\ draining = [e \in Executors |-> FALSE]
  /\ deadline = [e \in Executors |-> FALSE]
  /\ cause    = [e \in Executors |-> "none"]
  /\ stopping = [e \in Executors |-> FALSE]
  /\ crashes = 0 /\ signals = 0 /\ late = 0 /\ retries = 0

-----------------------------------------------------------------------------
(* Helpers *)

Goto(e, place) == pc' = [pc EXCEPT ![e] = place]

\* a bug this project looks for: a step that no longer runs takes results
FencedByAttempt(e) == attempt = token[e]

\* the WHERE clause of every fenced UPDATE
Fenced(e) == status = "running" /\ attempt = token[e]

\* an exception leaves run: the in-flight futures are cancelled (none of them
\* can be, each has its thread) and executor.shutdown waits for the threads
Raise(e, why) ==
  /\ Goto(e, "unwinding")
  /\ cause' = [cause EXCEPT ![e] = why]

\* the step is over for this executor
Forget(e) ==
  /\ Goto(e, "idle")
  /\ seen'     = [seen EXCEPT ![e] = 0]
  /\ token'    = [token EXCEPT ![e] = 0]
  /\ counted'  = [counted EXCEPT ![e] = NoCount]
  /\ todo'     = [todo EXCEPT ![e] = {}]
  /\ inFlight' = [inFlight EXCEPT ![e] = {}]
  /\ future'   = [future EXCEPT ![e] = [i \in Items |-> "none"]]
  /\ batch'    = [batch EXCEPT ![e] = {}]
  /\ draining' = [draining EXCEPT ![e] = FALSE]
  /\ deadline' = [deadline EXCEPT ![e] = FALSE]
  /\ cause'    = [cause EXCEPT ![e] = "none"]

\* its _run_step has started the step
Executing(e) == pc[e] \notin {"idle", "taken"}

Having(outcome) == {i \in Items : rows[i] = outcome}

Missing == {i \in Items : rows[i] = "none"}

-----------------------------------------------------------------------------
(* The orchestrator's side: taking and starting the step *)

\* list_steps found the step pending
Take(e) ==
  /\ pc[e] = "idle" /\ ~stopping[e]
  /\ status = "pending"
  /\ Goto(e, "taken")
  /\ seen' = [seen EXCEPT ![e] = attempt]
  /\ UNCHANGED <<db, token, counted, pool, drain, cause, stopping, budgets>>

\* _run_step up to its first commit, written from the cached row
Begin(e) ==
  /\ pc[e] = "taken"
  /\ status'  = "running"
  /\ attempt' = seen[e] + 1
  /\ token'   = [token EXCEPT ![e] = seen[e] + 1]
  /\ shared'  = (shared \/ \E d \in Executors \ {e} : Executing(d) /\ token[d] = seen[e] + 1)
  /\ Goto(e, "loading")
  /\ UNCHANGED <<rows, progress, seen, counted, pool, drain, cause, stopping, budgets>>

-----------------------------------------------------------------------------
(* AnalysisResultStore *)

\* load_comment_items / load_script_items: the items without a result row
Load(e) ==
  /\ pc[e] = "loading"
  /\ todo' = [todo EXCEPT ![e] = Missing]
  /\ Goto(e, "opening")
  /\ UNCHANGED <<db, seen, token, counted, inFlight, future, batch, drain, cause, stopping, budgets>>

\* reconcile, its SELECT: the rows are counted, with no lock and no fence
Count(e) ==
  /\ \/ pc[e] = "opening" /\ Goto(e, "opened")
     \/ pc[e] = "closing" /\ Goto(e, "closed")
  /\ counted' = [counted EXCEPT ![e] = [o \in Stored |-> Cardinality(Having(o))]]
  /\ UNCHANGED <<db, seen, token, pool, drain, cause, stopping, budgets>>

\* its UPDATE: the counters are set to what was counted, under the fence
Reconcile(e) ==
  /\ Fenced(e)
  /\ progress' = [total     |-> Cardinality(Items),
                  succeeded |-> counted[e].succeeded,
                  failed    |-> counted[e].failed]
  /\ counted' = [counted EXCEPT ![e] = NoCount]
  /\ UNCHANGED <<status, attempt, rows, shared>>

\* the first reconcile
Open(e) ==
  /\ pc[e] = "opened"
  /\ Reconcile(e)
  /\ Goto(e, IF e \in Parallel THEN "ready" ELSE "pick")
  /\ UNCHANGED <<seen, token, pool, drain, cause, stopping, budgets>>

\* a bug this project looks for: a conflicting row is counted like a new one
AlwaysInserted(i) == TRUE

\* INSERT ... ON CONFLICT DO NOTHING RETURNING gave a row
Inserted(i) == rows[i] = "none"

\* persist: the row and the counter in one transaction, under the fence
Persist(e, i) ==
  LET outcome == future[e][i]
  IN  /\ Fenced(e)
      /\ rows' = [rows EXCEPT ![i] = IF @ = "none" THEN outcome ELSE @]
      /\ progress' = IF Inserted(i) THEN [progress EXCEPT ![outcome] = @ + 1] ELSE progress
      /\ UNCHANGED <<status, attempt, shared>>

-----------------------------------------------------------------------------
(* RagRuntime.run, what both modes share: a thread (or the coordinator) in *)
(* pool.classify, and the treatment of a completed item                    *)

\* LLM errors are outcomes; a rejected API key, or an unexpected error, is
\* raised; classify_text and the retry policy look at the stop event
Classify(e, i) ==
  /\ future[e][i] = "running"
  /\ \E f \in Futures \ {"none", "running"} :
       /\ f = "aborted" => stopping[e]
       /\ future' = [future EXCEPT ![e][i] = f]
  /\ UNCHANGED <<db, pc, seen, token, counted, todo, inFlight, batch, drain, cause, stopping, budgets>>

\* future.result() raises
RecordRaises(e, i) ==
  /\ pc[e] = "record" /\ i \in batch[e]
  /\ future[e][i] \in {"aborted", "rejected"}
  /\ inFlight' = [inFlight EXCEPT ![e] = @ \ {i}]
  /\ future'   = [future EXCEPT ![e][i] = "none"]
  /\ batch'    = [batch EXCEPT ![e] = {}]
  /\ Raise(e, IF future[e][i] = "aborted" THEN "shutdown" ELSE "error")
  /\ UNCHANGED <<db, seen, token, counted, todo, drain, stopping, budgets>>

\* the loop over the items ends, of itself or because of the stop event
LoopEnds(e, interrupted) ==
  IF interrupted THEN Raise(e, "shutdown") ELSE Goto(e, "closing") /\ UNCHANGED cause

-----------------------------------------------------------------------------
(* RagRuntime.run in sequential mode: one item after the other, the stop   *)
(* event looked at before each                                             *)

PickItem(e) ==
  /\ pc[e] = "pick" /\ todo[e] # {} /\ ~stopping[e]
  /\ \E i \in todo[e] :
       /\ todo'     = [todo EXCEPT ![e] = @ \ {i}]
       /\ inFlight' = [inFlight EXCEPT ![e] = {i}]
       /\ future'   = [future EXCEPT ![e][i] = "running"]
       /\ batch'    = [batch EXCEPT ![e] = {i}]
  /\ Goto(e, "record")
  /\ UNCHANGED <<db, seen, token, counted, drain, cause, stopping, budgets>>

EndSequential(e) ==
  /\ pc[e] = "pick"
  /\ todo[e] = {} \/ stopping[e]
  /\ LoopEnds(e, todo[e] # {})
  /\ UNCHANGED <<db, seen, token, counted, pool, drain, stopping, budgets>>

RecordSequential(e, i) ==
  /\ e \notin Parallel
  /\ pc[e] = "record" /\ i \in batch[e]
  /\ future[e][i] \in Stored
  /\ Persist(e, i)
  /\ inFlight' = [inFlight EXCEPT ![e] = {}]
  /\ future'   = [future EXCEPT ![e][i] = "none"]
  /\ batch'    = [batch EXCEPT ![e] = {}]
  /\ Goto(e, "pick")
  /\ UNCHANGED <<seen, token, counted, todo, drain, cause, stopping, budgets>>

-----------------------------------------------------------------------------
(* RagRuntime.run in parallel mode *)

\* a bug this project looks for: one future more than there are threads
RoomAndOneMore(e) == Concurrency + 1

\* how many futures the first loop submits, if there are items enough
Room(e) == Concurrency

\* the stop event is looked at once, then the pool is filled
Fill(e) ==
  /\ pc[e] = "ready" /\ ~stopping[e]
  /\ \E first \in SUBSET todo[e] :
       /\ Cardinality(first) <= Room(e)
       /\ first = todo[e] \/ Cardinality(first) = Room(e)
       /\ todo'     = [todo EXCEPT ![e] = @ \ first]
       /\ inFlight' = [inFlight EXCEPT ![e] = first]
       /\ future'   = [future EXCEPT ![e] = [i \in Items |-> IF i \in first THEN "running" ELSE "none"]]
  /\ Goto(e, "top")
  /\ UNCHANGED <<db, seen, token, counted, batch, drain, cause, stopping, budgets>>

RefuseToStart(e) ==
  /\ pc[e] = "ready" /\ stopping[e]
  /\ Raise(e, "shutdown")
  /\ UNCHANGED <<db, seen, token, counted, pool, drain, stopping, budgets>>

\* the coordinator notices the stop event: shutdown_requested and a deadline
NoticeStop(e) ==
  /\ draining' = [draining EXCEPT ![e] = @ \/ stopping[e]]
  /\ deadline' = [deadline EXCEPT ![e] = @ \/ stopping[e]]

\* while in_flight: on to wait
Watch(e) ==
  /\ pc[e] = "top" /\ inFlight[e] # {}
  /\ NoticeStop(e)
  /\ Goto(e, "wait")
  /\ UNCHANGED <<db, seen, token, counted, pool, cause, stopping, budgets>>

\* RAG_SHUTDOWN_GRACE_SECONDS after the deadline was set
GiveUp(e) ==
  /\ pc[e] = "top" /\ inFlight[e] # {}
  /\ deadline[e]
  /\ Raise(e, "deadline")
  /\ UNCHANGED <<db, seen, token, counted, pool, drain, stopping, budgets>>

\* a bug this project looks for: only futures that returned are looked at
Returned(e) == {i \in inFlight[e] : future[e][i] \in Stored}

\* the futures wait(FIRST_COMPLETED) reports
Completed(e) == {i \in inFlight[e] : future[e][i] # "running"}

Collect(e) ==
  /\ pc[e] = "wait" /\ Completed(e) # {}
  /\ batch' = [batch EXCEPT ![e] = Completed(e)]
  /\ NoticeStop(e)
  /\ Goto(e, "record")
  /\ UNCHANGED <<db, seen, token, counted, todo, inFlight, future, cause, stopping, budgets>>

\* nothing completed within the heartbeat interval
Heartbeat(e) ==
  /\ pc[e] = "wait" /\ Completed(e) = {}
  /\ Fenced(e)
  /\ Goto(e, "top")
  /\ UNCHANGED <<db, seen, token, counted, pool, drain, cause, stopping, budgets>>

\* a bug this project looks for: the next item is looked at and not taken
Peeked(items, i) == items

\* next(items)
Advanced(items, i) == items \ {i}

\* one completed future: its outcome is stored and, unless a shutdown was
\* noticed, the next item is submitted in its place
RecordParallel(e, i) ==
  LET stop == draining[e] \/ stopping[e]
  IN  /\ e \in Parallel
      /\ pc[e] = "record" /\ i \in batch[e]
      /\ future[e][i] \in Stored
      /\ Persist(e, i)
      /\ draining' = [draining EXCEPT ![e] = stop]
      /\ IF stop \/ todo[e] = {}
         THEN /\ inFlight' = [inFlight EXCEPT ![e] = @ \ {i}]
              /\ future'   = [future EXCEPT ![e][i] = "none"]
              /\ UNCHANGED todo
         ELSE \E next \in todo[e] :
              /\ inFlight' = [inFlight EXCEPT ![e] = (@ \ {i}) \cup {next}]
              /\ future'   = [future EXCEPT ![e][i] = "none", ![e][next] = "running"]
              /\ todo'     = [todo EXCEPT ![e] = Advanced(@, next)]
      /\ batch' = [batch EXCEPT ![e] = @ \ {i}]
      /\ Goto(e, IF batch[e] = {i} THEN "top" ELSE "record")
      /\ UNCHANGED <<seen, token, counted, deadline, cause, stopping, budgets>>

EndParallel(e) ==
  /\ pc[e] = "top" /\ inFlight[e] = {}
  /\ LoopEnds(e, draining[e])
  /\ UNCHANGED <<db, seen, token, counted, pool, drain, stopping, budgets>>

-----------------------------------------------------------------------------
(* The end of an execution *)

\* the second reconcile
Close(e) ==
  /\ pc[e] = "closed"
  /\ Reconcile(e)
  /\ Goto(e, "finishing")
  /\ UNCHANGED <<seen, token, pool, drain, cause, stopping, budgets>>

\* the handler returned: _finish_step_if_current with "succeeded"
Finish(e) ==
  /\ pc[e] = "finishing"
  /\ Fenced(e)
  /\ status' = "succeeded"
  /\ Forget(e)
  /\ UNCHANGED <<attempt, rows, progress, shared, stopping, budgets>>

\* a fenced UPDATE found no row: StaleStepExecution, or the outcome discarded
Reject(e) ==
  /\ \/ pc[e] \in {"opened", "closed", "finishing"}
     \/ pc[e] = "wait" /\ Completed(e) = {}
     \/ pc[e] = "record" /\ \E i \in batch[e] : future[e][i] \in Stored
  /\ ~Fenced(e)
  /\ counted' = [counted EXCEPT ![e] = NoCount]
  /\ batch' = [batch EXCEPT ![e] = {}]
  /\ Raise(e, "stale")
  /\ UNCHANGED <<db, seen, token, todo, inFlight, future, drain, stopping, budgets>>

\* what the orchestrator makes of the exception, under the fence: the step is
\* released on a shutdown, failed on an error, left alone by a stale execution
StatusAfter(why) ==
  CASE why \in {"shutdown", "deadline"} -> "pending"
    [] why = "error"                    -> "failed"
    [] why = "stale"                    -> status

\* the last thread has ended and the exception reaches _run_step
Unwind(e) ==
  /\ pc[e] = "unwinding"
  /\ \A i \in inFlight[e] : future[e][i] # "running"
  /\ status' = IF Fenced(e) THEN StatusAfter(cause[e]) ELSE status
  /\ Forget(e)
  /\ UNCHANGED <<attempt, rows, progress, shared, stopping, budgets>>

-----------------------------------------------------------------------------
(* The environment: processes and the operator *)

Signal(e) ==
  /\ ~stopping[e] /\ signals < MaxSignals
  /\ stopping' = [stopping EXCEPT ![e] = TRUE]
  /\ signals'  = signals + 1
  /\ UNCHANGED <<db, pc, seen, token, counted, pool, drain, cause, crashes, late, retries>>

\* run_forever ends and the runtime starts a new process
Restart(e) ==
  /\ pc[e] = "idle" /\ stopping[e]
  /\ stopping' = [stopping EXCEPT ![e] = FALSE]
  /\ UNCHANGED <<db, pc, seen, token, counted, pool, drain, cause, budgets>>

Crash(e) ==
  /\ pc[e] # "idle" /\ crashes < MaxCrashes
  /\ crashes' = crashes + 1
  /\ Forget(e)
  /\ UNCHANGED <<db, stopping, signals, late, retries>>

Live(e) == Executing(e) /\ token[e] = attempt

\* a poll finds the running step's heartbeat stale; an execution in the middle
\* of a long call, or of an item in sequential mode, may still be alive
Recover ==
  /\ status = "running"
  /\ status' = "pending"
  /\ IF \E e \in Executors : Live(e)
     THEN late < MaxLate /\ late' = late + 1
     ELSE UNCHANGED late
  /\ UNCHANGED <<attempt, rows, progress, shared, local, crashes, signals, retries>>

\* an operator's retry from this step, or from an earlier one, on
Retry ==
  /\ status # "pending" /\ retries < MaxRetries
  /\ status'  = "pending"
  /\ retries' = retries + 1
  /\ UNCHANGED <<attempt, rows, progress, shared, local, crashes, signals, late>>

-----------------------------------------------------------------------------
(* The next-state relation *)

\* the steps of the coordinator thread
Coordinate(e) ==
  \/ Take(e) \/ Begin(e) \/ Load(e) \/ Count(e) \/ Open(e)
  \/ PickItem(e) \/ EndSequential(e)
  \/ Fill(e) \/ RefuseToStart(e) \/ Watch(e) \/ GiveUp(e)
  \/ Collect(e) \/ Heartbeat(e) \/ EndParallel(e)
  \/ \E i \in Items : RecordRaises(e, i) \/ RecordSequential(e, i) \/ RecordParallel(e, i)
  \/ Close(e) \/ Finish(e) \/ Reject(e) \/ Unwind(e) \/ Restart(e)

Next ==
  \/ \E e \in Executors : Coordinate(e) \/ Signal(e) \/ Crash(e)
  \/ \E e \in Executors, i \in Items : Classify(e, i)
  \/ Recover \/ Retry

Spec == Init /\ [][Next]_vars

\* processes are restarted, provider calls time out, and a poll comes once the
\* heartbeat of a dead execution is old enough
Fairness ==
  /\ \A e \in Executors : WF_vars(Coordinate(e))
  /\ \A e \in Executors, i \in Items : WF_vars(Classify(e, i))
  /\ WF_vars((\A e \in Executors : ~Live(e)) /\ Recover)

FairSpec == Spec /\ Fairness

-----------------------------------------------------------------------------
(* The promise about the results, and what it takes each pool of threads for *)

StateOf(s) ==
  IF s = "running" THEN "open" ELSE IF s = "succeeded" THEN "complete" ELSE "closed"

Sheet == INSTANCE ResultSheet WITH sheet <- rows, state <- StateOf(status)

Pool(e) == INSTANCE ItemFutures WITH future <- future[e], stopping <- stopping[e]

-----------------------------------------------------------------------------
(* Properties *)

\* the type invariant, in parts
DbOK ==
  /\ status \in {"pending", "running", "succeeded", "failed"}
  /\ attempt \in Nat
  /\ rows \in [Items -> {"none"} \cup Stored]
  /\ progress \in [total : Nat, succeeded : Nat, failed : Nat]
  /\ shared \in BOOLEAN
  /\ crashes \in Nat /\ signals \in Nat /\ late \in Nat /\ retries \in Nat

LocalOK ==
  /\ pc \in [Executors -> Places]
  /\ seen \in [Executors -> Nat] /\ token \in [Executors -> Nat]
  /\ counted \in [Executors -> [Stored -> Nat]]
  /\ todo \in [Executors -> SUBSET Items]
  /\ inFlight \in [Executors -> SUBSET Items]
  /\ future \in [Executors -> [Items -> Futures]]
  /\ batch \in [Executors -> SUBSET Items]
  /\ draining \in [Executors -> BOOLEAN] /\ deadline \in [Executors -> BOOLEAN]
  /\ cause \in [Executors -> {"none", "shutdown", "deadline", "error", "stale"}]
  /\ stopping \in [Executors -> BOOLEAN]

\* an item is still the iterator's or a future, never both; only futures are
\* gone through; an exception is on its way exactly while run unwinds
PoolOK(e) ==
  /\ todo[e] \cap inFlight[e] = {}
  /\ batch[e] \subseteq inFlight[e]
  /\ inFlight[e] = {i \in Items : future[e][i] # "none"}
  /\ pc[e] = "unwinding" <=> cause[e] # "none"

TypeOK == DbOK /\ LocalOK /\ \A e \in Executors : PoolOK(e)

\* The counters the jobs API shows are never ahead of the result rows, whatever
\* executions overlap and wherever one of them is cut short between the count
\* of reconcile and its update.  While no two executions have held the same
\* attempt they are the rows, and a step that has succeeded shows all its items
\* as completed: a count that has become stale does not pass the fence.  Where
\* two have, it does, and the counters may lose rows for good, although
\* docs/22_rag_parallel_processing_plan.md wants progress exact after duplicate
\* executions, too.
CountersMatchRows ==
  /\ \A o \in Stored : progress[o] <= Cardinality(Having(o))
  /\ ~shared =>
       /\ \A o \in Stored : progress[o] = Cardinality(Having(o))
       /\ status = "succeeded" =>
            progress.succeeded + progress.failed = progress.total

\* "in_flight is always at most the item concurrency"
\* (docs/23_rag_parallel_technical_design.md).
InFlightBounded ==
  \A e \in Executors : Cardinality(inFlight[e]) <= Concurrency

\* Each item gets one result row, while the step is running and never from an
\* execution that has lost it, rows are never overwritten, and the step
\* succeeds only when every item has one (docs/04_pipeline_jobs.md).
ImplementsSheet == Sheet!Spec

\* In each executor, whatever the others do: no item is submitted while it is
\* with a thread or has an outcome that nobody has taken, none of either is
\* forgotten before the execution ends, and an item is given up for a shutdown
\* only when there was one.  RagClassifier shows that the threads keep to it.
PoolKeepsFutures ==
  /\ \A e \in Executors : Pool(e)!Init
  /\ [][\A e \in Executors : [Pool(e)!Next]_(Pool(e)!fvars)]_<<future, stopping>>

\* The step is eventually over: drained, released, recovered and resumed, it
\* does not stay unfinished for ever.
StepEnds == status = "pending" ~> status \in {"succeeded", "failed"}

=============================================================================
