# TLA+ models and proofs of the Hate Speech RAG Service

The service takes a YouTube URL, collects metadata, comments and captions,
classifies every comment and caption segment with a retrieval-augmented LLM
classifier, and publishes a report.  A FastAPI process accepts jobs and serves
reports; one or more worker processes execute the jobs.  They share nothing but
the database.  The modules in this directory model the parts of it whose
correctness depends on the order in which these processes, and the threads inside
them, act.

All paths below are relative to the repository's root; `app/...` is the backend.

Run a model with `tlc -config <run>.cfg <MC module>` and a proof with
`tlapm <Module>Proofs.tla`.  `PROJECT.json` lists components, runs, mutants, the
source lines of every definition, findings, hazards and theorems.

## Inventory

| Component | State it keeps | Operations | Interacts through | What is hard | What makes it correct |
|---|---|---|---|---|---|
| Job queue and orchestrator (`app/jobs/`, `app/db/repositories.py`, `app/api/admin.py` retry) | `analysis_jobs`, `job_steps` | submit, poll, claim, recover, run a step, fence, finalize, release, retry | rows, `FOR UPDATE SKIP LOCKED`, attempt numbers, heartbeats | several workers, executors taken for dead that come back, crashes, SIGTERM, cached ORM rows | one executor; outcomes stay; verdict follows from steps; every job settles |
| RAG step (`app/analysis/executor.py`, `services.py`, `result_store.py`) | result rows, progress counters; futures of the pool | load, submit, wait, persist, heartbeat, drain, reconcile | the pool's threads, the fence of the step's row | two executions at once, a shutdown in the middle of a batch, late answers | one row per item, counters never ahead of the rows and equal to them unless two executions share an attempt, success only when complete |
| Production handlers (`production_pipeline.py`, `collectors/`, `reporting/builder.py`, `network.py`, `worker_main.py`) | snapshots, analysis runs, networks, reports | the eight steps of a job | rows of earlier steps | interruptions, retries and setup failures between steps | nothing incomplete is called complete; job, run and report agree |
| Classification (`rag_classifier.py`, `retry.py`, `llm_client.py`, `embeddings.py`, `retriever.py`) | classifier pool, two gates, attempts, `invalid_provider` | embed, search, complete, validate, back off | semaphores, a queue, the stop event | threads waiting on permits, nested retries, shutdown and key rejection at any point | no permit lost, bounded cost, truthful verdicts, every call ends |
| Accounts (`app/auth/`, `app/api/auth.py`, `create_job`, `get_session`, key use in `worker_main.py`) | `users`, `user_sessions`, `user_api_keys` | log in, authenticate and refresh, log out, enter and delete a key, submit, flag a key | rows and row locks, the commit after the answer | concurrent requests of one session, stale ORM reads, the worker's update by provider | logouts final, active sessions live, keys flagged for a reason |
| Reports (`api/reports.py`, `api/exports.py`, `reporting/exports.py`, publication in `api/admin.py`) | `report_exports`, `is_public_sample`, each process's `started_at` | show, list, create or reuse an export, download, publish, withdraw | rows, the commit after the answer | concurrent anonymous requests, a flag that changes between check and answer, failed renderings, restarts | nobody is shown what is not public, announced exports exist, samples are rendered rarely, withdrawn is withdrawn |
| Comment collection (`external/youtube.py`, `collectors/comments.py`) | `comment_snapshots` of the job; page tokens, replies seen | ask for a page of threads or replies, write a row, end | HTTP pages of a listing that changes meanwhile; rows of earlier attempts | comments posted, edited and deleted between two requests, errors in the middle, attempts over partial rows | a success is complete and fresh; replies linked; rows stay |
| Captions (`collectors/transcript.py`) | `transcript_segments`; the captions gathered so far | fetch, append, cut | captions read, segments written | two limits and sentence ends that meet at one caption | each caption once, in order; limits kept; no needless cut |
| Corpus (`scripts/bootstrap_corpus.py`, `vector_store.py`, the ingest modules, `example_loaders.py`, `license_policy.py`, `retriever.py`) | three Chroma collections and their identities; a retriever's handles | load, delete, create, upsert in batches; open, query, close | the store, the manifest | a bootstrap that stops anywhere, runs over what others left and under an open retriever; licences that change | what finished is complete, licensed and served; labels agree |
| Prompt, output validator, network metrics, OAuth client, encryption, renderers, read-only API, configuration, logging, frontend, fake pipeline, migrations, experiments, scripts | none of their own | - | - | - | not modelled, see below |


## Modules

| Component | Specification | Instances for TLC | Proofs | Abstract specification |
|---|---|---|---|---|
| Job queue and orchestrator | `JobPipeline`, `JobVocabulary` | `MCJobPipeline` | `JobPipelineProofs` | `JobContract` |
| RAG step | `RagStep` | `MCRagStep` | `RagStepProofs` | `ResultSheet`, `ItemFutures` |
| Production handlers | `JobArtifacts` | `MCJobArtifacts` | `JobArtifactsProofs` | `JobContract` |
| Classification | `RagClassifier` | `MCRagClassifier` | `RagClassifierProofs` | `ItemFutures` |
| Accounts | `Accounts` | `MCAccounts` | `AccountsProofs` | |
| Reports | `Reports` | `MCReports` | `ReportsProofs` | |
| Comment collection | `CommentCollection` | `MCCollection` | `CollectionProofs` | |
| Captions | `Captions` | `MCCollection` | `CollectionProofs` | |
| Corpus | `Corpus` | `MCCorpus` | `CorpusProofs` | |

The modules meet at narrow interfaces.  `JobPipeline` takes the outcome of a
handler as a choice; `JobArtifacts` says what the handlers do when one execution
at a time runs them, which is `JobPipeline`'s `SingleExecutor`; `RagStep` opens up
one analysis step and does *not* assume a single execution; `RagClassifier` opens up
the calls which `RagStep` makes in threads; `Accounts` has the key the worker
runs with; `Reports` starts from the reports that `JobArtifacts` builds;
`CommentCollection` and `Captions` open up two of its handlers, `CommentCollection`
with the attempts, rollbacks and crashes which the pipeline allows; `Corpus` has the
stores that `RagClassifier` takes for one step, `Search`.

Two interfaces are specifications of their own.  `JobContract` is implemented by `JobPipeline`, with any
handlers, and by `JobArtifacts`, with one executor and from the accepted job on.  `ItemFutures` is what coordinator and threads owe each other:
`RagStep` implements it with threads that may do what they like (`Classify`), `RagClassifier` with a coordinator
that may, so neither assumes of the other more than `ItemFutures` says.  An item is handed to one thread at a time, resolved
once, aborted only if a stop was asked for, and taken once it is resolved.

## The job pipeline

**State.** `jobStatus`, `stepStatus` and `attempt` are the columns
`analysis_jobs.status`, `job_steps.status` and `job_steps.attempt_count`;
`beat` abstracts `coalesce(heartbeat_at, started_at)` to whether the stale
query would select it.  Each worker has a place `pc` in `run_once`/`run_job`,
the job it claimed, its loop position `cur`, the attempt it was given (`held`)
and its SQLAlchemy session: `seenStatus`, `seenAttempt` and `loaded` are the
attributes of the `JobStep` objects the loop read, which survive commits because
the session is built with `expire_on_commit=False` (`app/db/session.py`), and are
expired by a rollback inside an open transaction.  The identity map is weak: after
the loop only the loop variable is still cached, so `_finalize` reads fresh rows
except that one.  `retry` is an operator's `POST /api/admin/jobs/{id}/retry`
between its reads and its commit.

**Actions.** One per database transaction or read: `Submit`
(`AnalysisJobService.create_job`), `PollAndClaim` and `PollAndRecover` (the single
transaction of `JobWorker.run_once`), `MarkRunning`, `ListSteps`, `PassStep`,
`StartStep`, `FinishStep`, `DiscardStale`, `ReleaseStep`, `ReadForFinalize`,
`CommitFinalize` (`JobOrchestrator`), `Heartbeat` (`AnalysisResultStore.heartbeat`),
`ReadForRetry` and `CommitRetry` (`retry_job`), `Signal`, `ExitLoop`, `Crash`,
`Restart` and `BecomeStale` (the process and time).

**Two specifications.** `Spec` is the program as it is: the retry endpoint does
not look at the job's status.  `QuietSpec` is the program under an operator who
retries only a job that has settled (the frontend offers no retry at all; the
endpoint is called by hand).  The safety theorems hold of `QuietSpec`; what `Spec`
allows beyond it is told among the disagreements below.

**Abstracted.** Error and metrics columns, logs, the set of retryable error
codes (any failed step may be the first retryable one), the order in which stale
jobs are found (any of them), the heartbeat's age.  An exception while handlers
are set up, or a database error, is a crash of the worker.

## The RAG step

**State.** `status`, `attempt`, `rows` and `progress` are columns and result rows of
one analysis step and run.  Each executor has its place `pc`, `seen` (the cached
`attempt_count`), `token` (`expected_attempt`), `counted` (what the SELECT of
`reconcile` returned, until its UPDATE), `todo` (the iterator), `inFlight`,
`future` and `batch` (the futures of `RagRuntime.run`), `draining`
(`shutdown_requested`), `deadline`, `cause` (the exception that unwinds) and
`stopping` (its stop event).  History: `shared`, whether two executions under way have held
the same attempt.

**Actions.** `Take` and `Begin` (`_run_step`), `Load`; `reconcile` is two steps, at the opening and
at the closing: `Count`, its SELECT, which no fence or lock guards, and `Open` or `Close` with its
fenced UPDATE (`Reconcile`).  Between the two an execution of the same attempt may store
rows, which the UPDATE then takes back from the counters: `CountersMatchRows` claims equality
only while `~shared`, and otherwise that the counters are never ahead.  Then in
sequential mode `PickItem`, `RecordSequential`, `EndSequential`, in parallel mode
`Fill`, `RefuseToStart`, `Watch`, `GiveUp`, `Collect`, `Heartbeat`, `RecordParallel`,
`EndParallel`; `Classify` is a thread that ends; `Finish`, `Reject`, `Unwind` and the
process's `Signal`, `Restart`, `Crash`; `Recover` and `Retry` come from outside.

**Abstracted.** The queue: any executor may take a pending step, even two at once, so
that two executions may share an attempt number; this is more than the pipeline
allows.  The order of items, heartbeat ages, metrics.

## Production handlers and artifacts

**State.** `job` and the statuses of the eight middle steps (validate_input and
finalize_job are folded into submission and verdict); `handlers`, which of the
handler sets the factory gave this execution; the rows: `metadata`, `comments`,
`tracks`, `run`, `verdict` (the run's status), `analysed`, `networks`, `report`.

**Actions.** One per handler, with the commit that follows it, since a handler that is
interrupted is rolled back; an analysis step commits its results one by one
(`BeginAnalysis`, `Classify`, `EndAnalysis`).  `Claim` runs the handler factory,
`Interrupt` is a crash with its recovery or a SIGTERM, `Retry` is `retry_job`.

**Abstracted.** One execution at a time (`SingleExecutor` of the pipeline); quota
events, error codes, metrics, contents.  A crash that leaves the job orphaned
between two steps is left to `JobPipeline`.  `ResumeSetupFails` says whether the keys or the
runtime may be missing when a job is resumed after collect_metadata.

## Classification threads

**State.** What the threads share: `todo`, `available` (the classifier queue), `permits` (the
two semaphores), `stopping`, `rejected` (keys withdrawn at a provider); and for each
thread its place, item, classifier, provider, attempt, round, answer and verdict.
`invalid` is each classifier's `invalid_provider`; `spent` counts requests.

**Actions.** `Take` and `Return` (the pool), `Try` (the stop check before an
attempt), `Acquire`, the answers `Embedded`, `Replied`, `Transient`, `Permanent`,
`KeyRejected`, `Wake` (after a backoff), `Search` (the three stores), `Stop`, `Withdraw`.
A permit is held during the request only; the stop event is read before each
round and attempt and after a transient error, not while waiting for a permit.

**Abstracted.** Any idle thread may take any item left; contexts and prompts; a
reply is valid, invalid or of a form the validator does not expect.

## Accounts

**State.** `user`, `issued`, `revoked`, `expires` are `users` and `user_sessions`;
`row` is the owner's `user_api_keys` row with its primary key; `queued` and `held` are a pending job
and the key which the worker decrypted for the running one; `req` the requests, with
what each has read (`now`, `refresh`, `seen`, `of`).  `used` and `mixed` are ghosts: when a
session was last used with success, and whether a key was entered while a job ran.

**Actions.** A request is one transaction (`get_session`): `Arrive`; `LookUp` and
`Register` (login); `Resolve` and `Touch` (`SessionService.resolve`, read and flush);
`Revoke`; `Validate`, `Load`, `Store` (`UserApiKeyService`, `require_valid_api_keys`);
`Commit`, after the answer has been sent.  `StartJob`, `EndJob` and `Invalidate` are
the worker's, `Withdraw` the provider's, `Tick` the clock's, `Crash` the API process's.

Reads see committed rows; a flushed UPDATE holds its row until the commit (PostgreSQL,
READ COMMITTED); the ORM writes only the columns that differ from what the request
read, so a `put` that read a valid row does not write `is_valid`.

**Abstracted.** One account and one provider's key (both providers are treated alike),
one running job; Google's exchange; CSRF, suspension, other owners' 403; the
cookie's own lifetime.

## Reports

**State.** `sample` is `report_snapshots.is_public_sample`; `exports` the committed
`report_exports` rows, numbered in the order of `created_at`; `started` the
`ExportService.started_at` of each API process, as a moment of that order; `alive`
the processes; `req` the requests under way.  History: `wished` (published, and not
withdrawn since), what a request has `seen` public and was `shown`, whether it was `alone`,
and by which thread and for whom a file was rendered.

**Actions.** `Arrive`; `List`; `FindExport`, `Authorise` and `Show` (the routes and the page of
a report, an export's status and download); `Reuse`, `Create` and `Rendered`
(`create_export`, `latest_succeeded`, `create`); `FindReport` and `SetFlag` (`publish_sample`,
`unpublish_sample`); `Finish`, the commit after the answer, and `Refuse`, the rollback;
`Deploy` and `Stop`, which takes a process's requests with it.

The row of an export is flushed, with its `created_at`, before it is rendered, and
committed by `ExportService` itself, before the answer: that is what `ExportPromised` is
about.  Publication is not: it reads the row, has the ORM write the flag only if it
differs from the one read, and commits after the answer.  So `WithdrawnStays` excepts an unpublish
that overlaps a publish of the same report: it finds the flag still false, writes nothing,
answers `false`, and the report is public once the publish commits.

**Abstracted.** One owner; authentication configured (without it everybody may read
everything, as `_authorized_report` says); sessions (see `Accounts`), CSRF and the admin
token; filters, pages and layout; reports that do not exist.  A report is taken as
fixed: its routes and exports read the rows of its run, which a retry of its
job may still add to.

## Comment collection

**State.** `there`, `unposted` and `text` are the video's comments, and how often each was
edited; `step` is `job_steps.status`; `token`, `page`, `response`, `parent` and `awaited` are
where `iter_comments` and `_iter_replies` are; `existing` is the session's dictionary of
rows, `rows` what is committed.  `due` and `awaited` hold what the API still has to give.
History: `stayed` and `before`, what was there ever since the attempt began.

**Actions.** `Post`, `Edit` and `Delete` are the people's, between any two requests.
`Start`; `GetThreads`, `TakeThread` and `GetReplies`, one per request or thread of a page, with
the body of `collect_all`'s loop for the comments they yield (`Saved`); `Succeed`;
`RequestFails`, which ends the step as failed or skipped and *keeps* the rows read so far, since the
handler returns a result; `Raise`, which rolls them back; `Crash`; and `Reopen`, a
recovery or a retry.

**Assumed of the API.** A response is a view of one moment; pages may repeat items and be
empty, but give every item that was there from the first request to the last; the page without
a token is the last; `totalReplyCount` counts the replies there are.  Nothing is assumed of the
order of pages or of which replies a thread shows.

**Abstracted.** Columns other than text and parent; quota events.  `SucceededIsComplete` is
about comments that stay: one posted or deleted meanwhile may be there or not.

## Captions

`items` are the captions, `next` the loop's, `first` where `current` begins, `segments` what
has been yielded, by first and last caption.  `Fetch` is the provider with its three outcomes, `Read`
the loop's body with both of its yields, `Finish` what is left.  A caption is a length, whether its text ends a
sentence, a start and a duration, in whole units; captions come in the order of their
starts and may overlap, be empty or longer than any limit.

## Corpus

**State.** `manifest` is `dataset_sources.yaml` and the files it names; `doing`, `stage`, `option`,
`loaded` and `pending` are the bootstrap's; `live` and `store` the collections, by
identity and documents; `handles`, `bundle` and `answer` the retriever of a job.  History: `ended`,
`allowed` (the datasets free to use when a stage loaded) and `quiet` (the retriever was
opened after a bootstrap had ended, and none has begun since).

**Actions.** `EditManifest`; `Run`, `Load`, `DeleteCollection`, `Open`, `UpsertBatch`, `NextStage`, and
`Abort` between any two of them; `OpenHandle`, `Query` and `Answer` for each text, `NextText`, `Close`.
Between `DeleteCollection` and `Open` a worker may create the collection itself, empty.

**Data.** Licences, loaders, labels, limit and sample are operators translated from the
loaders: the tier of a status that names several conditions, what each dataset calls hate, the
first of its categories, blank texts, the limit that is looked at only after a document was taken,
`round`'s ties.  The hash that ranks documents for a sample may be any.

**Assumed of Chroma.** Operations are atomic and visible at once, a deleted collection's handle
raises, an upsert replaces documents of equal ids.

**Abstracted.** Texts, embeddings and distances (a query finds something exactly if the collection has
something, and examples may all be too dissimilar); splits other than `train`; downloads; two bootstraps at once.
`ServedWhole` claims nothing of a retriever that is open while a bootstrap runs: with
`--reset` its handles fail for good, which is why `docs/19` and `docs/29` have the worker stopped first.

## Runs

| Run | Question | Bounds, and why they are enough |
|---|---|---|
| `pipeline_safety` | Does the pipeline keep one executor, truthful verdicts and its contract, does it execute a step again only when something went wrong, and does every running step end, with every hazard at once? | one job, five steps, two workers, one crash, one SIGTERM, one live execution taken for dead, one retry: two executions of a step overlap, one after the other was fenced out, with steps before, at and after the analysis step |
| `pipeline_settles` | Do jobs settle, when one is recovered while another is claimed? | two jobs, four steps, two workers, a SIGTERM and a false recovery: a poll meets a stale job and a pending one at once; without process crashes, see `orphan_job` |
| `orphan_job` (violation) | Is a running job whose worker died recovered? | one crash |
| `rag_pool` | Is the pool bounded, is every future handed out and taken as `ItemFutures` says, and does the step end? | three items for two threads: the pool is filled, refilled and drained; a crash, a SIGTERM, a false recovery, a retry |
| `rag_overlap` | Are the counters never ahead of the rows, and equal to them while no attempt is shared, and is the result sheet kept, when two executions overlap? | two executors, one per mode, two items: both can hold an outcome for the same item, with equal or different attempts, and count while the other stores |
| `artifacts` | Is what is called complete complete, do job, run and report agree, has a successful report a network of all its comments, and do the handlers keep `JobContract`? | two comments (a partial collection is neither none nor all), one segment, two interruptions, two retries, one setup failure |
| `resume_setup_fails` (violation) | The same when a resumed job has lost its runtime | one interruption, one setup failure |
| `classifier` | Are permits and classifiers given back, costs bounded, verdicts justified, futures resolved as `ItemFutures` says, and does every classification end? | two threads and classifiers, one permit per provider (every request contends), two attempts, two rounds, a shutdown and a withdrawn key |
| `accounts` | Are logouts final, active sessions alive, keys flagged for a reason? | four requests, two at a time, two sessions, two keys, a clock of four units with refresh at TTL/2 = 2.5: a session is refreshed by overlapping requests in both orders of commit, two keys replace each other around a job |
| `reports` | Is nobody shown what is not public, are exports as announced, rendered rarely, reused only by the process that made them, and do withdrawn samples stay withdrawn? | four requests, two at a time: a publish, an export, a withdrawal and a fetch of the file, or two exports that race and a third that reuses; two reports, so that an export may be taken for another's; a format that is supported and one that is not; two API processes, one after the other |
| `collection` | Is a collection called succeeded complete and fresh, are replies linked, do rows stay; are captions cut once each, within the limits, and only for a reason? | three threads, two with replies, one shown at most, so that replies are asked for with and without some seen, over one page or two; a comment posted or deleted and another edited in the middle; two attempts, the second over what the first kept. Three captions of 30 kinds, of 0 to 6 characters against a limit of 5, lasting 1 or 3 of at most 4 units, 0 to 3 apart: each limit is met, and exceeded by one caption or by two |
| `corpus` | Is what a finished bootstrap left complete, licensed and served, and do labels agree? | three datasets, one of each loader, with a blank row, a row of another split, a short section, and one whose use is restricted; an edit that withdraws a licence, grants one, shortens a file; two bootstraps, each with or without `--reset`, limited and sampled or not, the first stopping anywhere; two batches of two; one retriever |

The largest are `collection` (3.3 million distinct states) and `corpus` (2.5 million), about a
minute each; `artifacts` and `classifier` take longer, with a refinement to check.  Type invariants, `OutcomeStays`, `AttemptNeverDecreases`, `WorkShrinks` and `WaitsJustified` are not
among the runs' properties: each is proved, and TLC found them to hold before.

Deadlock is not checked: an idle worker with an empty queue, a step that is over
and an API without requests legitimately stand still, and the bounds stop the
environment.  Where standing still would be wrong, a liveness property says so.
Symmetry is used in runs of safety properties only.

Each property of a passing run has a mutant: a definition of the code changed the
way a plausible bug would, under which TLC finds the property violated.  The
mutated forms stand beside the definitions, under "a bug this project looks for".

## Fairness

* Workers (`WF` of `WorkerStep`): containers are restarted (`restart: unless-stopped`,
  `compose.prod.yaml`), `run_forever` loops, and the handlers' external calls time out.
* Time passes: the row of a *dead* execution becomes stale.  A live one may be taken for
  dead `MaxLate` times, with no fairness.
* A retry request that has read its rows commits.
* RAG step: the coordinator, each provider call, and recovery of a dead execution.
* Classifier: requests return (`RAG_REQUEST_TIMEOUT_SECONDS`), backoffs end, threads
  are scheduled.  `Retry-After` is obeyed without a bound in the code, so "backoffs end"
  assumes that providers name finite delays.  Weak fairness of each thread is enough
  even for the semaphores, because items and attempts are finite and so is overtaking.
* Accounts, reports, collection and corpus: none.  No liveness is claimed.

## Proofs

All theorems are proved for every value of the constants that satisfies the
module's named assumption; none of the specification's bounds is used except as a
guard.  Each module has an inductive invariant (`IInv`, unless named below), with `Init => IInv` and
`IInv /\ [Next]_vars => IInv'` proved action by action.

* **Pipeline** (`JobPipelineProofs`).  The heart is the *token*: at most one executor of a job is between
  two steps, or in a handler whose row still carries its attempt; and a worker's cached `attempt_count`s
  never lag behind a row it may still start.  "One executor" alone is not inductive: a worker
  that lost its step must never regain it, for which the attempt it holds has to be
  below the row's (`Gap`), and what it has cached has to agree with the rows while it has the token
  (`Coherent`).  Per job, steps are done in order, with at most one running, and a settled job is final.
  From it: `TypeCorrect`, `OneExecutor`, `SettledJobIsFinal`, `AttemptsGrow`, `OutcomesStay`.
  `ExecutionsAreBounded` needs an account on top of it (`Paid`): a step's attempts, plus one each if it waits to be executed or
  recovered, if its executor is stopping and may release it, and if a retry is on its way, never exceed one plus what has gone
  wrong so far.  A release or recovery is thus paid for when its cause happens, by that cause alone.
  `PipelineImplementsContract` says that every step of the pipeline is a step of `JobContract` or a stutter.
  They hold of `QuietSpec`; `TypeCorrect` also of `Spec`.
* **RAG step** (`RagStepProofs`).  Every item of the step is stored, in the iterator or
  in flight (`Covered`), for each executor that still believes in the row; a row is only written
  under the fence.  From it: `TypeCorrect`, `PoolBounded`, `StepImplementsSheet` (refinement of `ResultSheet`).
  `CountersHold` needs a second invariant (`Tally`), because `reconcile` writes what it counted earlier: while no attempt
  is shared, executions under way have attempts of their own (`Apart`), so a count taken by one that still holds the
  row's attempt cannot have aged (`Exact`); whoever shares one, a count only falls behind, for rows stay (`Behind`).  `FuturesKept` is a
  refinement for each executor: its own steps hand, take or drop futures (`CoordinatorKeeps`), everybody else's leave
  them alone (`OthersAside`).
* **Artifacts** (`JobArtifactsProofs`).  What each succeeded step guarantees about the rows as
  long as no earlier step is repeated: `VerdictsAgree` for the program as it is,
  `AnalysesComplete` and `ReportsTruthful` under `~ResumeSetupFails`, the condition which
  `resume_setup_fails` shows to be needed.  `NetworksFollow` needs two facts more (`NInv`): nothing is run again after
  a report that is a success, and a network built after all comments were analysed counts them all.  `HandlersKeepContract` maps a setup
  failure, a handler and an analysis step with its results to the contract's steps, for the program as it is.
* **Classifier** (`RagClassifierProofs`).  Permits plus threads inside a request make the limit; entering
  and leaving a request change both by one (lemmas `Entering`, `Leaving`, `Aside` about cardinalities).
  Costs are bounded by relating `spent` to attempt and round at each place.  From it: `GatesHold`,
  `ClassifiersExclusive` (which includes that no classifier is lost), `CostsBounded`, `VerdictsJustified`,
  `RejectionsRemembered`.  That an item is held by one thread (`ItemsHeld`) makes `ThreadsKeepFutures` a refinement of
  `ItemFutures`.  Of `ClassificationEnds` the part without fairness is proved: `WorkDoesShrink`, by the measure
  `Work`, so that a thread takes at most `12 * MaxAttempts + 2` steps per item, and `WaitsAreJustified`.  What is left to TLC is
  that a thread that may go on does.
* **Accounts** (`AccountsProofs`).  A session that was not refreshed was found fresh by a request no
  older than `MaxDuration`, and since `2 * MaxDuration <= TTL` no overlapping
  refresh can set it below what that request relies on (`Fresh`).  For keys: the row lock is exclusive; an update's row is
  still the one it loaded (primary keys only grow, `AgeInv`); and without a put during a job
  the job runs with the registered key.  From it: `SessionsLive`, `FlagsJustified`, `RevocationsStay`.

* **Reports** (`ReportsProofs`).  Per request (`RequestOK`): what is public now it has seen, and
  whoever is past the check owns the report or has seen it public, so that the answer is justified although
  the flag may have changed meanwhile; a row being rendered is younger than its process and than every
  row of its thread, and for a sample its thread has no file in this process yet, which is what bounds the
  renderings; a withdrawal that is alone has read a flag that still holds.  Per row (`RowsOK`): it is
  younger than the process that made it, and if processes do not overlap, rows since the last start are
  the last process's.  From it: `TypeCorrect`, `ReportsConfidential`, `ExportsPromised`,
  `RenderingsFew`, `FilesOfProcess`, `WithdrawalStays`, all but `FilesOfProcess` for processes that
  overlap, too (`Rolling`), which the run leaves out.
* **Collection** (`CollectionProofs`).  What stayed is on its way (`Progress`): it has a row, is in the page
  at hand, or is among what the pages to come must give; so at the end it has a row.  The parent of a
  reply is a row whenever the reply is (`Closed`, `Linked`), texts are never ahead of the video's nor behind what was
  there at the beginning (`Times`, `Current`), and the session's rows only grow over the committed ones (`Grown`).
  From it: `Complete`, which includes freshness, `RepliesAreLinked`, `RowsDoStay`.
  For captions (`KInv`) segments are good ones and follow each other without a gap up to `current` (`Cut`), which
  keeps the limits or is a single caption, and holds no sentence's end (`Pending`): `CaptionsOnce`
  and `CutsHaveReasons`, which includes the limits.  `JoinedLength` is a recursive function that the proofs never unfold.
* **Corpus** (`CorpusProofs`).  The invariant `Inv`: what a stage loaded has distinct ids, agreeing labels and only
  datasets that were free to use (`LoadedWell`); of what is not still pending the store has everything, and after a reset nothing
  else (`Filled`), whatever a worker created meanwhile; while it is quiet, the retriever's handles are the live
  collections (`Served`).  Licences and labels need lemmas about the data, for any rows: that what
  the code calls commercial is unrestricted (`AllowedUnrestricted`), and that each loader's label agrees with its category.  From it: `Complete`, `Licensed`,
  `Labelled`, `Whole`.  `Licensed` assumes `NoReviewBesideCcBy`, the condition under which the code and the documented tiers agree (see the findings).

Only model-checked: the liveness properties (`RunningStepEnds`, `EveryJobSettles`, `StepEnds`,
`ClassificationEnds`), for the prover handles neither fairness nor `ENABLED`.  Assumed, not proved: PostgreSQL's
locks and unique keys, SQLAlchemy's identity map and column-wise updates, and the providers.

## Findings

* `orphan_job`: `docs/21_stale_job_recovery.md:32` promises that a running job with an old heartbeat is
  completed by the next poll; the stale query needs a running *step*, so a job whose worker died
  between two steps, before the first or before finalizing stays running for ever.
* `resume_setup_fails`: a job resumed without keys runs the fake pipeline's handlers and succeeds
  without a result.

Seven more disagreements have no run of their own:

* `docs/22_rag_parallel_processing_plan.md:212` wants results and progress exact even after a duplicate execution.
  `reconcile` writes what it counted in an earlier statement (`app/analysis/result_store.py:123`), and the fence lets it
  pass when two executions hold one attempt: the step may succeed with counters below its rows for good.  Two hold one when a
  retry makes a job claimable between two steps of its executor, and the second executor lists the steps before the first starts
  the next.  `CountersMatchRows` therefore asks for equality only while `~shared`; without that condition
  TLC refutes it under `rag_overlap.cfg`.
* `docs/13_rag_chunking_prompt_strategy.md:44` excludes datasets whose licence is unclear or comes with restrictions;
  `normalize_license_tier` looks for CC-BY 4.0 first (`app/analysis/license_policy.py:26`), so a status which names it and
  `license_review_required` or `usage_restriction` is free for commercial use.  No entry of the repository's manifest names
  both; with `NoReviewBesideCcBy` violated by an entry of `MCCorpus`, TLC refutes `LicensedOnly`.  The plain words
  `review_required` behind an observed licence are another matter: they are none of the policy's, and a test
  (`tests/test_definition_ingest.py:18`) has such a dataset admitted.
* An outcome that a thread has already computed is thrown away when a sibling of its batch raises, or at a
  SIGTERM (`app/analysis/executor.py:181`), although the grace period has just begun; `docs/23_rag_parallel_technical_design.md:330` has
  completed futures saved during it.  `RagStep` models it (`Collect`, `Unwind`).
* A retry of a running job makes it claimable under its live executor (`app/api/admin.py:94`), against
  `docs/04_pipeline_jobs.md:110`: one worker per job.  `Spec` of `JobPipeline` allows it, `QuietSpec` does not.
* After a retry of `analyze_comments` a run has two networks, and `ReportBuilder.build`
  (`app/reporting/builder.py:52`) and `GET /api/reports/{id}/network` select one without an order, maybe the one
  built before the results existed; `NetworkFollowsResults` says only that the right one is there.
* `app/reporting/exports.py:17` wants files of this process only; a process that starts while
  the old one still runs reuses what that one renders from then on (`OwnFilesOnly` is
  stated for `~Rolling`).
* An unpublish that overlaps a publish may be lost (above, under Reports).

## Not modelled, and why

The prompt, the output validator, video ids and the network's numbers are pure functions of texts and JSON, and what they
compute is layout or wording here; paging and progress are functions of one query.  Google's OAuth client and
encryption are I/O; Chroma, PostgreSQL, the YouTube API and the providers are external, and what is assumed of them is said
where it is used.  The reading API and the frontend change no state the backend relies on.  Configuration,
logging, observability, renderers and migrations have no behaviour over time.  The fake pipeline is a stand-in
for development and matters only where setup fails.  The experiments, the command lines of the single ingest modules and the
end-to-end script are run by hand over files.

Five weaknesses of the code were seen and have no property.  A RAG step whose items all fail succeeds
(`app/analysis/services.py:22`): `docs/04_pipeline_jobs.md:233` wants it recorded as failed, `docs/23_rag_parallel_technical_design.md:294`
defers that policy; `RagStep` models what happens.  `should_stop` is read before the permit is waited for
(`app/analysis/retry.py:38`), so a request may be sent after everyone else noticed the shutdown; `RagClassifier` models
the window.  A provider's answer that is JSON but no object makes the validator raise
(`app/analysis/prompt_validator.py:30`), which fails the step, not the item; `RagClassifier` models that failure.  A handler that
returns its own `Response` loses the refreshed session cookie (`app/api/exports.py:55`); `Accounts` has no cookie lifetime.  A request commits
after its answer was sent (`app/main.py:58`), so a client may act on a login or logout that then fails; `Accounts` and
`Reports` model the window, and `ExportPromised` says that exports are not affected.

## Plan

All components of the first plan are modelled.  What would add most next:

1. Measures like `Work` for the RAG step and the pipeline, so that of their liveness, too, only the fairness is
   left to TLC.
2. A specification between `RagClassifier` and `Corpus`, as `ItemFutures` is between `RagStep` and `RagClassifier`.
3. Properties about the weaknesses above.
4. The network builder's counts, with a reference definition.
