---------------------------- MODULE JobArtifacts ----------------------------
(***************************************************************************)
(* What the handlers of the production pipeline read from the database and *)
(* leave in it (app/jobs/production_pipeline.py, app/reporting), which     *)
(* handlers an execution of the job gets (app/worker_main.py), and what a  *)
(* resumed or retried job makes of the artifacts it finds.                 *)
(*                                                                         *)
(* JobPipeline shows that a job has one executor at a time and RagStep how *)
(* a step classifies its items; here one execution at a time runs the      *)
(* pending steps in order.  A handler and the commit that ends it are one  *)
(* action, since an interrupted one is rolled back, but for the two        *)
(* analysis steps, whose result rows are committed one by one.             *)
(***************************************************************************)
EXTENDS FiniteSets, Naturals

CONSTANTS
  Comments,          \* the comments and replies of the video
  Segments,          \* the segments its captions are cut into
  ResumeSetupFails,  \* keys or runtime may be missing when a job is resumed
  MaxSetupFailures,  \* bound: executions whose runtime cannot be set up
  MaxInterrupts,     \* bound: executions cut short by a crash or SIGTERM
  MaxRetries         \* bound: operator retries of a settled job

ASSUME ArtifactsAssumption ==
  /\ ResumeSetupFails \in BOOLEAN
  /\ MaxSetupFailures \in Nat /\ MaxInterrupts \in Nat /\ MaxRetries \in Nat

\* DEFAULT_JOB_STEPS without its first step, which submission completes, and
\* its last, which is the verdict on the job
collect_metadata      == 1
collect_comments      == 2
collect_transcript    == 3
create_analysis_run   == 4
analyze_comments      == 5
analyze_script        == 6
build_comment_network == 7
build_report_snapshot == 8
Steps    == 1..8
Required == {collect_metadata, create_analysis_run, build_report_snapshot}

VARIABLES
  job,       \* analysis_jobs.status
  step,      \* job_steps.status of each step
  handlers,  \* what the factory gave the execution, or "none"
  metadata,  \* there is a video_metadata_snapshots row
  comments,  \* comment_snapshots of the job
  tracks,    \* transcript_snapshots with captions, each with all Segments
  run,       \* the latest analysis_runs row of the job, 0 if there is none
  verdict,   \* its status
  analysed,  \* the comments and segments with a result row in that run
  networks,  \* comment_networks of that run, each by the results it was built on
  report,    \* the latest report_snapshots row
  setupFailures, interrupts, retries

artifacts == <<metadata, comments, tracks, run, verdict, analysed, networks, report>>
budgets   == <<setupFailures, interrupts, retries>>
vars      == <<job, step, handlers, artifacts, budgets>>

Captions == (1..tracks) \X Segments

NoReport == [run |-> 0, status |-> "none", missing |-> {}, network |-> {}]

Init ==
  /\ job = "pending" /\ step = [s \in Steps |-> "pending"] /\ handlers = "none"
  /\ metadata = FALSE /\ comments = {} /\ tracks = 0
  /\ run = 0 /\ verdict = "none" /\ analysed = {} /\ networks = {}
  /\ report = NoReport
  /\ setupFailures = 0 /\ interrupts = 0 /\ retries = 0

-----------------------------------------------------------------------------
(* The execution: JobOrchestrator with the handlers of the factory *)

\* a required step failed in the loop, which breaks
Broken == \E s \in Required : step[s] = "failed"

\* the loop has come to step s
Turn(s) ==
  /\ handlers # "none" /\ ~Broken
  /\ step[s] = "pending"
  /\ \A t \in Steps : t < s => step[t] \notin {"pending", "running"}

End(s, outcome) == step' = [step EXCEPT ![s] = outcome]

\* with a setup failure only collect_metadata fails; every other step has the
\* handler of the fake pipeline, or of app/reporting
SetupFails ==
  /\ setupFailures < MaxSetupFailures
  /\ step[collect_metadata] = "pending" \/ ResumeSetupFails

\* a worker claims the job and the factory builds its handlers
Claim ==
  /\ job = "pending"
  /\ job' = "running"
  /\ \/ handlers' = "production" /\ UNCHANGED setupFailures
     \/ SetupFails /\ handlers' = "setup_failed" /\ setupFailures' = setupFailures + 1
  /\ UNCHANGED <<step, artifacts, interrupts, retries>>

\* a bug this project looks for: skipped steps are left out of the report
FailuresOnly == \E s \in Steps : step[s] = "failed"

\* the report's failures, and _finalize's optional_incomplete
Incomplete == \E s \in Steps : step[s] \in {"failed", "skipped"}

\* _finalize
Finalize ==
  /\ handlers # "none"
  /\ Broken \/ \A s \in Steps : step[s] \notin {"pending", "running"}
  /\ job' = IF Broken THEN "failed"
            ELSE IF \E s \in Steps \ Required : step[s] \in {"failed", "skipped"}
                 THEN "partial_success" ELSE "succeeded"
  /\ step' = [s \in Steps |-> IF Broken /\ step[s] = "pending" THEN "skipped" ELSE step[s]]
  /\ handlers' = "none"
  /\ UNCHANGED <<artifacts, budgets>>

-----------------------------------------------------------------------------
(* The handlers *)

CollectMetadata ==
  /\ Turn(collect_metadata)
  /\ \/ /\ handlers = "production"
        /\ metadata' = TRUE
        /\ End(collect_metadata, "succeeded")
     \/ /\ UNCHANGED metadata
        /\ End(collect_metadata, "failed")
  /\ UNCHANGED <<job, handlers, comments, tracks, run, verdict, analysed, networks, report, budgets>>

\* whatever pages were read before a YouTube error are kept; comments that are
\* disabled, at once or between two pages, are no failure
CollectComments ==
  /\ Turn(collect_comments)
  /\ \/ /\ handlers = "production"
        /\ comments' = Comments
        /\ End(collect_comments, "succeeded")
     \/ /\ handlers = "production"
        /\ \E read \in SUBSET Comments : comments' = comments \cup read
        /\ \E outcome \in {"failed", "skipped"} : End(collect_comments, outcome)
     \/ /\ handlers = "setup_failed"
        /\ End(collect_comments, "succeeded")
        /\ UNCHANGED comments
  /\ UNCHANGED <<job, handlers, metadata, tracks, run, verdict, analysed, networks, report, budgets>>

\* every success adds a snapshot with all its segments
CollectTranscript ==
  /\ Turn(collect_transcript)
  /\ \/ /\ handlers = "production"
        /\ tracks' = tracks + 1
        /\ End(collect_transcript, "succeeded")
     \/ /\ handlers = "production"
        /\ UNCHANGED tracks
        /\ \E outcome \in {"failed", "skipped"} : End(collect_transcript, outcome)
     \/ /\ handlers = "setup_failed"
        /\ UNCHANGED tracks
        /\ End(collect_transcript, "succeeded")
  /\ UNCHANGED <<job, handlers, metadata, comments, run, verdict, analysed, networks, report, budgets>>

\* the new run is the latest one, and has neither results nor networks
CreateAnalysisRun ==
  /\ Turn(create_analysis_run)
  /\ run' = run + 1 /\ verdict' = "running"
  /\ analysed' = {} /\ networks' = {}
  /\ End(create_analysis_run, "succeeded")
  /\ UNCHANGED <<job, handlers, metadata, comments, tracks, report, budgets>>

Source(s) == IF s = analyze_comments THEN comments ELSE Captions

CollectStep(s) == IF s = analyze_comments THEN collect_comments ELSE collect_transcript

\* a bug this project looks for: what was collected is analysed, complete or not
HasAny(s) == Source(s) # {}

\* the two conditions under which the handler does not return "skipped"
Analysable(s) == step[CollectStep(s)] = "succeeded" /\ Source(s) # {}

BeginAnalysis(s) ==
  /\ Turn(s) /\ s \in {analyze_comments, analyze_script}
  /\ End(s, IF handlers = "setup_failed" THEN "succeeded"
            ELSE IF Analysable(s) THEN "running" ELSE "skipped")
  /\ UNCHANGED <<job, handlers, artifacts, budgets>>

Analysing(s) == handlers # "none" /\ s \in {analyze_comments, analyze_script} /\ step[s] = "running"

\* a result row, of whatever outcome, in the latest run
Classify(s) ==
  /\ Analysing(s)
  /\ \E item \in Source(s) \ analysed : analysed' = analysed \cup {item}
  /\ UNCHANGED <<job, step, handlers, metadata, comments, tracks, run, verdict, networks, report, budgets>>

EndAnalysis(s) ==
  /\ Analysing(s)
  /\ \/ Source(s) \subseteq analysed /\ End(s, "succeeded")
     \/ End(s, "failed")
  /\ UNCHANGED <<job, handlers, artifacts, budgets>>

\* a network of the comments there are, with the results they have so far
BuildCommentNetwork ==
  /\ Turn(build_comment_network)
  /\ \/ /\ networks' = networks \cup {comments \cap analysed}
        /\ End(build_comment_network, "succeeded")
     \/ /\ UNCHANGED networks
        /\ End(build_comment_network, "failed")
  /\ UNCHANGED <<job, handlers, metadata, comments, tracks, run, verdict, analysed, report, budgets>>

\* ReportBuilder.build; the network is the one of the run's networks an
\* unordered query returns first, as in GET /api/reports/{id}/network
BuildReportSnapshot ==
  /\ Turn(build_report_snapshot)
  /\ \/ /\ metadata
        /\ \E network \in IF networks = {} THEN {{}} ELSE networks :
             report' = [run     |-> run,
                        status  |-> IF Incomplete THEN "partial_success" ELSE "succeeded",
                        missing |-> (comments \cup Captions) \ analysed,
                        network |-> network]
        /\ verdict' = report'.status
        /\ End(build_report_snapshot, "succeeded")
     \/ /\ UNCHANGED <<report, verdict>>
        /\ End(build_report_snapshot, "failed")
  /\ UNCHANGED <<job, handlers, metadata, comments, tracks, run, analysed, networks, budgets>>

-----------------------------------------------------------------------------
(* Interruption and retry *)

\* recover_stale_running, _release_step
Released(s) == IF step[s] = "running" THEN "pending" ELSE step[s]

\* a crash, once a poll has recovered the running step, or a SIGTERM: a step
\* that was running is pending again (an execution that dies when no step is
\* running is the subject of JobPipeline)
Interrupt ==
  /\ handlers # "none" /\ ~Broken /\ interrupts < MaxInterrupts
  /\ \E s \in Steps : step[s] \in {"pending", "running"}
  /\ step' = [s \in Steps |-> Released(s)]
  /\ job' = "pending" /\ handlers' = "none"
  /\ interrupts' = interrupts + 1
  /\ UNCHANGED <<artifacts, setupFailures, retries>>

\* a bug this project looks for: only the failed step is run again
OnlyFailedStep(s, f) == s = f

\* a bug this project looks for: the network is not built again
AllButNetwork(s, f) == s = f \/ s > build_comment_network

\* the steps a retry makes pending
RetriedWith(s, f) == s >= f

\* retry_job; f is the first failed step with a retryable code
Retry(f) ==
  /\ job \in {"succeeded", "partial_success", "failed"} /\ retries < MaxRetries
  /\ step[f] = "failed"
  /\ step' = [s \in Steps |-> IF RetriedWith(s, f) THEN "pending" ELSE step[s]]
  /\ job' = "pending"
  /\ retries' = retries + 1
  /\ UNCHANGED <<handlers, artifacts, setupFailures, interrupts>>

-----------------------------------------------------------------------------
Next ==
  \/ Claim \/ Finalize \/ Interrupt
  \/ CollectMetadata \/ CollectComments \/ CollectTranscript \/ CreateAnalysisRun
  \/ \E s \in Steps : BeginAnalysis(s) \/ Classify(s) \/ EndAnalysis(s) \/ Retry(s)
  \/ BuildCommentNetwork \/ BuildReportSnapshot

Spec == Init /\ [][Next]_vars

-----------------------------------------------------------------------------
(* The contract of the pipeline, seen from one accepted job: its step 1 is  *)
(* validate_input, its step 10 finalize_job, done when the job is over      *)

Open == job \in {"pending", "running"}

Verdict == IF Open THEN "open" ELSE job

Result(s) ==
  IF s = 1 THEN "succeeded"
  ELSE IF s = 10 THEN IF Open THEN "todo" ELSE "succeeded"
  ELSE IF step[s - 1] \in {"pending", "running"} THEN "todo" ELSE step[s - 1]

Contract == INSTANCE JobContract WITH
  NJobs    <- 1,
  N        <- 10,
  Required <- {1, 10} \cup {s + 1 : s \in Required},
  verdict  <- [j \in 1..1 |-> Verdict],
  result   <- [j \in 1..1 |-> [s \in 1..10 |-> Result(s)]]

-----------------------------------------------------------------------------
(* Properties *)

\* The type invariant; only an execution has a running step, results are of
\* collected items, and there is no run before create_analysis_run.
TypeOK ==
  /\ job \in {"pending", "running", "succeeded", "partial_success", "failed"}
  /\ step \in [Steps -> {"pending", "running", "succeeded", "failed", "skipped"}]
  /\ handlers \in {"none", "production", "setup_failed"}
  /\ handlers # "none" <=> job = "running"
  /\ \A s \in Steps : step[s] = "running" =>
       handlers # "none" /\ s \in {analyze_comments, analyze_script}
  /\ metadata \in BOOLEAN
  /\ comments \subseteq Comments
  /\ tracks \in Nat
  /\ run \in Nat /\ verdict \in {"none", "running", "succeeded", "partial_success"}
  /\ analysed \subseteq comments \cup Captions
  /\ networks \subseteq SUBSET Comments
  /\ report.run \in 0..run
  /\ report.status \in {"none", "succeeded", "partial_success"}
  /\ setupFailures \in Nat /\ interrupts \in Nat /\ retries \in Nat

\* An analysis step is recorded as succeeded only when what it analyses was
\* collected to the end and every item has a result in the latest run
\* (docs/04_pipeline_jobs.md), through interruptions, retries and new runs.
AnalysisComplete ==
  /\ step[analyze_comments] = "succeeded" => Comments \subseteq comments \cap analysed
  /\ step[analyze_script] = "succeeded" => tracks > 0 /\ Captions \subseteq analysed

\* A report that calls itself a success misses no result of anything it counts.
ReportTruthful == report.status = "succeeded" => report.missing = {}

\* When a job is over and has not failed, its latest report, the latest run and
\* the job agree on how it went, and the report is of that run: _finalize,
\* ReportBuilder and the orchestrator decide it separately.
VerdictMatchesReport ==
  job \in {"succeeded", "partial_success"} =>
    report.status = job /\ verdict = job /\ report.run = run

\* A successful report's run has a network that counts the results of all comments,
\* though it may have older ones as well, and show one of those.
NetworkFollowsResults == report.status = "succeeded" => comments \in networks

\* The handlers keep the contract that JobPipeline implements: whatever they make
\* of missing keys, captions and interruptions, each step is completed once per
\* opening of the job, in order, and the verdict is the one the outcomes call for.
ImplementsContract == [][Contract!Next]_(Contract!cvars)
=============================================================================
