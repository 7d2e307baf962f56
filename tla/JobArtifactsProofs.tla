------------------------- MODULE JobArtifactsProofs -------------------------
(***************************************************************************)
(* Safety of JobArtifacts, for any video and any number of interruptions,  *)
(* retries and setup failures, and that it implements JobContract.         *)
(***************************************************************************)
EXTENDS JobArtifacts, TLAPS

\* the steps are done in order
Ordered ==
  \A s, t \in Steps : t < s /\ step[t] \in {"pending", "running"} => step[s] = "pending"

\* the loop broke at the required step that failed
StoppedAtFailure ==
  \A r \in Required, s \in Steps :
    r < s /\ step[r] = "failed" => step[s] \in {"pending", "skipped"}

\* a required step is skipped only behind another one that failed
SkippedBehindFailure ==
  \A s \in Required : step[s] = "skipped" => \E r \in Required : r < s /\ step[r] = "failed"

\* an execution without a runtime gets no further than collect_metadata
SetupStops == ~ResumeSetupFails =>
  (handlers = "setup_failed" => step[collect_metadata] \in {"pending", "failed"})

\* what the collection steps promise to the analysis steps
Collected == ~ResumeSetupFails =>
  /\ step[collect_comments] = "succeeded" => Comments \subseteq comments
  /\ step[collect_transcript] = "succeeded" => tracks > 0

\* AnalysisComplete, and that a step is analysed only after its collection
Analysed == ~ResumeSetupFails =>
  /\ AnalysisComplete
  /\ \A s \in {analyze_comments, analyze_script} :
       step[s] \in {"running", "succeeded"} => step[CollectStep(s)] = "succeeded"

Truthful == ~ResumeSetupFails => ReportTruthful

\* the latest report was made of the steps as they still are
ReportOfSteps ==
  step[build_report_snapshot] = "succeeded" =>
    /\ report.run = run /\ verdict = report.status
    /\ report.status = IF Incomplete THEN "partial_success" ELSE "succeeded"

\* the job's status is the verdict on the steps as they are
JobOfSteps ==
  job \in {"succeeded", "partial_success"} =>
    /\ step[build_report_snapshot] = "succeeded"
    /\ job = IF Incomplete THEN "partial_success" ELSE "succeeded"

\* the steps of a job that is over are over
OverMeansOver ==
  job \in {"succeeded", "partial_success", "failed"} =>
    \A s \in Steps : step[s] \notin {"pending", "running"}

StepInv == Ordered /\ StoppedAtFailure /\ SkippedBehindFailure /\ OverMeansOver

DataInv == SetupStops /\ Collected /\ Analysed /\ Truthful /\ ReportOfSteps /\ JobOfSteps

IInv == TypeOK /\ StepInv /\ DataInv

USE DEF collect_metadata, collect_comments, collect_transcript, create_analysis_run,
        analyze_comments, analyze_script, build_comment_network, build_report_snapshot,
        Steps, Required

-----------------------------------------------------------------------------
(* The initial state and what the invariants say *)

LEMMA InitHolds == Init => IInv
<1> SUFFICES ASSUME Init PROVE IInv
  OBVIOUS
<1>1. TypeOK
  <2>1. report.run \in 0..run /\ report.status = "none"
    BY DEF Init, NoReport
  <2>2. step \in [Steps -> {"pending", "running", "succeeded", "failed", "skipped"}]
    BY DEF Init
  <2>3. \A s \in Steps : step[s] # "running"
    BY DEF Init
  <2>4. /\ job = "pending" /\ handlers = "none" /\ metadata = FALSE
        /\ comments = {} /\ analysed = {} /\ networks = {}
        /\ tracks = 0 /\ run = 0 /\ verdict = "none"
        /\ setupFailures = 0 /\ interrupts = 0 /\ retries = 0
    BY DEF Init
  <2> QED
    BY <2>1, <2>2, <2>3, <2>4 DEF TypeOK
<1>2. StepInv
  BY DEF Init, StepInv, Ordered, StoppedAtFailure, SkippedBehindFailure, OverMeansOver
<1>3. DataInv
  BY DEF Init, DataInv, SetupStops, Collected, Analysed, AnalysisComplete, Truthful,
         ReportTruthful, ReportOfSteps, JobOfSteps, NoReport
<1> QED
  BY <1>1, <1>2, <1>3 DEF IInv

LEMMA InvImplies ==
  ASSUME IInv
  PROVE  /\ VerdictMatchesReport
         /\ ~ResumeSetupFails => AnalysisComplete /\ ReportTruthful
<1>1. VerdictMatchesReport
  BY DEF IInv, DataInv, ReportOfSteps, JobOfSteps, VerdictMatchesReport
<1>2. ~ResumeSetupFails => AnalysisComplete /\ ReportTruthful
  BY DEF IInv, DataInv, Analysed, Truthful
<1> QED
  BY <1>1, <1>2

-----------------------------------------------------------------------------
(* The step rows *)

\* the four ways an action changes the rows: one step is run, one ends, the
\* running one is released, or a retry makes a suffix pending
LEMMA RunOne ==
  ASSUME TypeOK, StepInv, NEW s \in Steps, Turn(s),
         NEW o \in {"running", "succeeded", "failed", "skipped"},
         o = "skipped" => s \notin Required,
         End(s, o), job' = job
  PROVE  StepInv'
BY DEF TypeOK, StepInv, Ordered, StoppedAtFailure, SkippedBehindFailure, OverMeansOver,
       Turn, Broken, End

LEMMA EndOne ==
  ASSUME TypeOK, StepInv, NEW s \in {analyze_comments, analyze_script}, step[s] = "running",
         NEW o \in {"succeeded", "failed"},
         End(s, o), job' = job
  PROVE  StepInv'
BY DEF TypeOK, StepInv, Ordered, StoppedAtFailure, SkippedBehindFailure, OverMeansOver, End

-----------------------------------------------------------------------------
(* Each action preserves the invariants *)

LEMMA ClaimKeeps == ASSUME IInv, Claim PROVE IInv'
<1> USE DEF IInv
<1>1. TypeOK'
  BY DEF TypeOK, Claim, artifacts, Captions
<1>2. StepInv'
  BY DEF Claim, StepInv, Ordered, StoppedAtFailure, SkippedBehindFailure, OverMeansOver
<1>3. DataInv'
  <2>1. SetupStops'
    BY DEF Claim, SetupFails, SetupStops
  <2>2. (Collected /\ Analysed /\ Truthful /\ ReportOfSteps /\ JobOfSteps)'
    BY DEF Claim, artifacts, DataInv, Collected, Analysed, AnalysisComplete, Captions, CollectStep,
           Truthful, ReportTruthful, ReportOfSteps, JobOfSteps, Incomplete
  <2> QED
    BY <2>1, <2>2 DEF DataInv
<1> QED
  BY <1>1, <1>2, <1>3

LEMMA FinalizeKeeps == ASSUME IInv, Finalize PROVE IInv'
<1> USE DEF IInv
<1>1. \A s \in Steps : step[s] # "running"
  BY DEF Finalize, TypeOK, StepInv, Ordered, StoppedAtFailure, Broken
<1>2. \A s \in Steps : step'[s] = IF Broken /\ step[s] = "pending" THEN "skipped" ELSE step[s]
  BY DEF Finalize
<1>3. \A s \in Steps : step'[s] \notin {"pending", "running"}
  BY <1>1, <1>2 DEF Finalize
<1>4. TypeOK'
  <2>1. step' \in [Steps -> {"pending", "running", "succeeded", "failed", "skipped"}]
    BY DEF Finalize, TypeOK
  <2> QED
    BY <1>3, <2>1 DEF TypeOK, Finalize, artifacts, budgets, Captions
<1>5. StepInv'
  <2>1. Ordered' /\ OverMeansOver'
    BY <1>3 DEF Ordered, OverMeansOver
  <2>2. StoppedAtFailure'
    BY <1>2 DEF StepInv, StoppedAtFailure
  <2>3. SkippedBehindFailure'
    BY <1>2 DEF StepInv, SkippedBehindFailure, Broken, Ordered, StoppedAtFailure
  <2> QED
    BY <2>1, <2>2, <2>3 DEF StepInv
<1>6. DataInv'
  <2>1. \A s \in Steps : /\ step'[s] = "succeeded" <=> step[s] = "succeeded"
                        /\ step'[s] = "running" <=> step[s] = "running"
    BY <1>2
  <2>2. SetupStops' /\ Collected'
    BY <2>1 DEF Finalize, artifacts, DataInv, Collected, SetupStops
  <2>3. Analysed' /\ Truthful'
    BY <2>1 DEF Finalize, artifacts, DataInv, Analysed, AnalysisComplete, Captions, CollectStep,
                Truthful, ReportTruthful
  <2>4. step[build_report_snapshot] = "succeeded" => (Incomplete' <=> Incomplete)
    BY <1>2 DEF StepInv, Ordered, Incomplete, TypeOK
  <2>5. ReportOfSteps'
    BY <2>1, <2>4 DEF Finalize, artifacts, DataInv, ReportOfSteps
  <2>6. JobOfSteps'
    <3> SUFFICES ASSUME job' \in {"succeeded", "partial_success"}
                 PROVE  /\ step'[build_report_snapshot] = "succeeded"
                        /\ job' = IF Incomplete' THEN "partial_success" ELSE "succeeded"
      BY DEF JobOfSteps
    <3>1. ~Broken
      BY DEF Finalize
    <3>2. \A s \in Steps : step'[s] = step[s]
      BY <3>1, <1>2
    <3>3. \A s \in Required : step[s] = "succeeded"
      BY <3>1, <3>2, <1>3 DEF StepInv, SkippedBehindFailure, Broken, TypeOK
    <3>4. Incomplete' <=> \E s \in Steps \ Required : step[s] \in {"failed", "skipped"}
      BY <3>2, <3>3 DEF Incomplete
    <3> QED
      BY <3>1, <3>2, <3>3, <3>4 DEF Finalize
  <2> QED
    BY <2>2, <2>3, <2>5, <2>6 DEF DataInv
<1> QED
  BY <1>4, <1>5, <1>6

\* when the loop has come to a step, nothing behind it has been done and
\* nothing before it has failed that is required
LEMMA TurnFacts ==
  ASSUME IInv, NEW s \in Steps, Turn(s)
  PROVE  /\ \A t \in Steps : t > s => step[t] = "pending"
         /\ \A t \in Required : t < s => step[t] = "succeeded"
         /\ step[s] = "pending" /\ job = "running"
         /\ ~ResumeSetupFails /\ s # collect_metadata => handlers = "production"
<1>1. \A t \in Steps : t > s => step[t] = "pending"
  BY DEF Turn, IInv, StepInv, Ordered
<1>2. \A t \in Required : t < s => step[t] = "succeeded"
  BY DEF Turn, Broken, IInv, StepInv, SkippedBehindFailure, TypeOK
<1>3. step[s] = "pending" /\ job = "running" /\ handlers # "none"
  BY DEF Turn, IInv, TypeOK
<1>4. ~ResumeSetupFails /\ s # collect_metadata => handlers = "production"
  BY <1>2, <1>3 DEF IInv, DataInv, SetupStops, TypeOK
<1> QED
  BY <1>1, <1>2, <1>3, <1>4

LEMMA CollectMetadataKeeps == ASSUME IInv, CollectMetadata PROVE IInv'
<1>1. PICK o \in {"succeeded", "failed"} :
        /\ End(collect_metadata, o)
        /\ handlers = "setup_failed" => o = "failed"
  BY DEF CollectMetadata
<1>2. Turn(collect_metadata)
  BY DEF CollectMetadata
<1>3. StepInv'
  BY <1>1, <1>2, RunOne DEF CollectMetadata, IInv
<1>4. TypeOK'
  BY <1>1, <1>2 DEF IInv, TypeOK, CollectMetadata, End, Captions, budgets
<1>5. /\ step'[collect_metadata] = o
      /\ \A t \in Steps : t > collect_metadata => step'[t] = "pending"
  BY <1>1, <1>2, TurnFacts DEF End, IInv, TypeOK
<1>6. DataInv'
  <2>1. SetupStops' /\ Collected' /\ ReportOfSteps' /\ JobOfSteps'
    BY <1>1, <1>2, <1>5, TurnFacts DEF CollectMetadata, SetupStops, Collected, ReportOfSteps, JobOfSteps
  <2>2. Analysed' /\ Truthful'
    BY <1>5 DEF CollectMetadata, IInv, DataInv, Analysed, AnalysisComplete, Truthful, ReportTruthful
  <2> QED
    BY <2>1, <2>2 DEF DataInv
<1> QED
  BY <1>3, <1>4, <1>6 DEF IInv

LEMMA CollectCommentsKeeps == ASSUME IInv, CollectComments PROVE IInv'
<1>1. PICK o \in {"succeeded", "failed", "skipped"} :
        /\ End(collect_comments, o)
        /\ handlers = "production" /\ o = "succeeded" => comments' = Comments
  BY DEF CollectComments
<1>2. Turn(collect_comments)
  BY DEF CollectComments
<1>3. StepInv'
  BY <1>1, <1>2, RunOne DEF CollectComments, IInv
<1>4. TypeOK'
  <2>1. comments \subseteq comments' /\ comments' \subseteq Comments
    BY DEF CollectComments, IInv, TypeOK
  <2> QED
    BY <1>1, <1>2, <2>1 DEF IInv, TypeOK, CollectComments, End, Captions, budgets
<1>5. /\ step'[collect_comments] = o /\ step'[collect_metadata] = step[collect_metadata]
      /\ \A t \in Steps : t > collect_comments => step'[t] = "pending"
  BY <1>1, <1>2, TurnFacts DEF End, IInv, TypeOK
<1>6. DataInv'
  <2>1. SetupStops' /\ ReportOfSteps' /\ JobOfSteps'
    BY <1>2, <1>5, TurnFacts DEF CollectComments, SetupStops, ReportOfSteps, JobOfSteps, IInv, DataInv
  <2>2. Collected'
    BY <1>1, <1>2, <1>5, TurnFacts DEF Collected
  <2>3. Analysed' /\ Truthful'
    BY <1>5 DEF CollectComments, IInv, DataInv, Analysed, AnalysisComplete, Truthful, ReportTruthful
  <2> QED
    BY <2>1, <2>2, <2>3 DEF DataInv
<1> QED
  BY <1>3, <1>4, <1>6 DEF IInv

LEMMA CollectTranscriptKeeps == ASSUME IInv, CollectTranscript PROVE IInv'
<1>1. PICK o \in {"succeeded", "failed", "skipped"} :
        /\ End(collect_transcript, o)
        /\ handlers = "production" /\ o = "succeeded" => tracks' = tracks + 1
  BY DEF CollectTranscript
<1>2. Turn(collect_transcript)
  BY DEF CollectTranscript
<1>3. StepInv'
  BY <1>1, <1>2, RunOne DEF CollectTranscript, IInv
<1>4. TypeOK'
  <2>1. tracks' \in Nat /\ tracks <= tracks'
    BY DEF CollectTranscript, IInv, TypeOK
  <2>2. Captions \subseteq Captions'
    BY <2>1 DEF Captions, IInv, TypeOK
  <2> QED
    BY <1>1, <1>2, <2>1, <2>2 DEF IInv, TypeOK, CollectTranscript, End, budgets
<1>5. /\ step'[collect_transcript] = o
      /\ \A t \in Steps : t < collect_transcript => step'[t] = step[t]
      /\ \A t \in Steps : t > collect_transcript => step'[t] = "pending"
  BY <1>1, <1>2, TurnFacts DEF End, IInv, TypeOK
<1>6. DataInv'
  <2>1. SetupStops' /\ ReportOfSteps' /\ JobOfSteps'
    BY <1>2, <1>5, TurnFacts DEF CollectTranscript, SetupStops, ReportOfSteps, JobOfSteps, IInv, DataInv
  <2>2. Collected'
    BY <1>1, <1>2, <1>5, TurnFacts DEF CollectTranscript, Collected, IInv, DataInv, TypeOK
  <2>3. Analysed' /\ Truthful'
    BY <1>5 DEF CollectTranscript, IInv, DataInv, Analysed, AnalysisComplete, Truthful, ReportTruthful
  <2> QED
    BY <2>1, <2>2, <2>3 DEF DataInv
<1> QED
  BY <1>3, <1>4, <1>6 DEF IInv

LEMMA CreateAnalysisRunKeeps == ASSUME IInv, CreateAnalysisRun PROVE IInv'
<1>1. End(create_analysis_run, "succeeded") /\ Turn(create_analysis_run)
  BY DEF CreateAnalysisRun
<1>2. StepInv'
  BY <1>1, RunOne DEF CreateAnalysisRun, IInv
<1>3. TypeOK'
  BY <1>1 DEF IInv, TypeOK, CreateAnalysisRun, End, Captions, budgets
<1>4. /\ \A t \in Steps : t < create_analysis_run => step'[t] = step[t]
      /\ \A t \in Steps : t > create_analysis_run => step'[t] = "pending"
  BY <1>1, TurnFacts DEF End, IInv, TypeOK
<1>5. DataInv'
  <2>1. SetupStops' /\ Collected' /\ ReportOfSteps' /\ JobOfSteps'
    BY <1>1, <1>4, TurnFacts DEF CreateAnalysisRun, SetupStops, Collected, ReportOfSteps, JobOfSteps, IInv, DataInv
  <2>2. Analysed' /\ Truthful'
    BY <1>4 DEF CreateAnalysisRun, IInv, DataInv, Analysed, AnalysisComplete, Truthful, ReportTruthful
  <2> QED
    BY <2>1, <2>2 DEF DataInv
<1> QED
  BY <1>2, <1>3, <1>5 DEF IInv

LEMMA BeginAnalysisKeeps ==
  ASSUME IInv, NEW s \in Steps, BeginAnalysis(s) PROVE IInv'
<1>1. PICK o \in {"running", "succeeded", "skipped"} :
        /\ End(s, o)
        /\ handlers = "production" => o # "succeeded" /\ (o = "running" => Analysable(s))
        /\ handlers = "setup_failed" => o = "succeeded"
  BY DEF BeginAnalysis, IInv, TypeOK, Turn
<1>2. Turn(s) /\ s \in {analyze_comments, analyze_script}
  BY DEF BeginAnalysis
<1>3. StepInv'
  BY <1>1, <1>2, RunOne DEF BeginAnalysis, IInv
<1>4. TypeOK'
  BY <1>1, <1>2 DEF IInv, TypeOK, BeginAnalysis, End, Turn, Captions, artifacts, budgets
<1>5. /\ step'[s] = o
      /\ \A t \in Steps : t # s => step'[t] = step[t]
      /\ \A t \in Steps : t > s => step'[t] = "pending"
  BY <1>1, <1>2, TurnFacts DEF End, IInv, TypeOK
<1>6. DataInv'
  <2>1. SetupStops' /\ Collected' /\ ReportOfSteps' /\ JobOfSteps' /\ Truthful'
    BY <1>2, <1>5, TurnFacts DEF BeginAnalysis, artifacts, SetupStops, Collected, ReportOfSteps,
       JobOfSteps, Truthful, ReportTruthful, IInv, DataInv
  <2>2. Analysed'
    <3> SUFFICES ASSUME ~ResumeSetupFails
                 PROVE  /\ AnalysisComplete'
                        /\ \A t \in {analyze_comments, analyze_script} :
                             step'[t] \in {"running", "succeeded"} => step'[CollectStep(t)] = "succeeded"
      BY DEF Analysed, CollectStep
    <3>1. o # "succeeded" /\ (o = "running" => Analysable(s))
      BY <1>1, <1>2, TurnFacts
    <3>2. AnalysisComplete'
      BY <3>1, <1>2, <1>5 DEF BeginAnalysis, artifacts, IInv, DataInv, Analysed, AnalysisComplete, Captions
    <3>3. ASSUME NEW t \in {analyze_comments, analyze_script}, step'[t] \in {"running", "succeeded"}
          PROVE  step'[CollectStep(t)] = "succeeded"
      BY <3>1, <3>3, <1>2, <1>5 DEF Analysable, CollectStep, IInv, DataInv, Analysed
    <3> QED
      BY <3>2, <3>3
  <2> QED
    BY <2>1, <2>2 DEF DataInv
<1> QED
  BY <1>3, <1>4, <1>6 DEF IInv

LEMMA ClassifyKeeps ==
  ASSUME IInv, NEW s \in Steps, Classify(s) PROVE IInv'
<1>1. PICK item \in Source(s) \ analysed : analysed' = analysed \cup {item}
  BY DEF Classify
<1>2. item \in comments \cup Captions
  BY <1>1 DEF Source
<1>3. TypeOK'
  BY <1>1, <1>2 DEF IInv, TypeOK, Classify, Captions, budgets
<1>4. StepInv'
  BY DEF Classify, IInv, StepInv, Ordered, StoppedAtFailure, SkippedBehindFailure, OverMeansOver
<1>5. DataInv'
  <2>1. SetupStops' /\ Collected' /\ ReportOfSteps' /\ JobOfSteps' /\ Truthful'
    BY DEF Classify, SetupStops, Collected, ReportOfSteps, JobOfSteps, Truthful, ReportTruthful,
       Incomplete, IInv, DataInv
  <2>2. Analysed'
    BY <1>1 DEF Classify, IInv, DataInv, Analysed, AnalysisComplete, CollectStep, Captions
  <2> QED
    BY <2>1, <2>2 DEF DataInv
<1> QED
  BY <1>3, <1>4, <1>5 DEF IInv

LEMMA EndAnalysisKeeps ==
  ASSUME IInv, NEW s \in Steps, EndAnalysis(s) PROVE IInv'
<1>1. PICK o \in {"succeeded", "failed"} :
        End(s, o) /\ (o = "succeeded" => Source(s) \subseteq analysed)
  BY DEF EndAnalysis
<1>2. s \in {analyze_comments, analyze_script} /\ step[s] = "running"
  BY DEF EndAnalysis, Analysing
<1>3. StepInv'
  BY <1>1, <1>2, EndOne DEF EndAnalysis, IInv
<1>4. TypeOK'
  BY <1>1, <1>2 DEF IInv, TypeOK, EndAnalysis, End, Captions, artifacts, budgets
<1>5. /\ step'[s] = o
      /\ \A t \in Steps : t # s => step'[t] = step[t]
      /\ \A t \in Steps : t > s => step'[t] = "pending"
  BY <1>1, <1>2 DEF End, IInv, TypeOK, StepInv, Ordered
<1>6. job = "running"
  BY <1>2 DEF IInv, TypeOK
<1>7. DataInv'
  <2>1. SetupStops' /\ Collected' /\ ReportOfSteps' /\ JobOfSteps' /\ Truthful'
    BY <1>2, <1>5, <1>6 DEF EndAnalysis, artifacts, SetupStops, Collected, ReportOfSteps,
       JobOfSteps, Truthful, ReportTruthful, IInv, DataInv
  <2>2. ASSUME ~ResumeSetupFails, o = "succeeded"
        PROVE  /\ step[CollectStep(s)] = "succeeded"
               /\ s = analyze_comments => Comments \subseteq comments \cap analysed
               /\ s = analyze_script => tracks > 0 /\ Captions \subseteq analysed
    BY <1>1, <1>2, <2>2 DEF IInv, DataInv, Analysed, Collected, CollectStep, Source
  <2>3. Analysed'
    BY <1>1, <1>2, <1>5, <2>2 DEF EndAnalysis, artifacts, IInv, DataInv, Analysed, AnalysisComplete,
                                  CollectStep, Captions
  <2> QED
    BY <2>1, <2>3 DEF DataInv
<1> QED
  BY <1>3, <1>4, <1>7 DEF IInv

LEMMA BuildCommentNetworkKeeps == ASSUME IInv, BuildCommentNetwork PROVE IInv'
<1>1. PICK o \in {"succeeded", "failed"} : End(build_comment_network, o)
  BY DEF BuildCommentNetwork
<1>2. Turn(build_comment_network)
  BY DEF BuildCommentNetwork
<1>3. StepInv'
  BY <1>1, <1>2, RunOne DEF BuildCommentNetwork, IInv
<1>4. TypeOK'
  <2>1. networks' \subseteq SUBSET Comments
    BY DEF BuildCommentNetwork, IInv, TypeOK
  <2> QED
    BY <1>1, <1>2, <2>1 DEF IInv, TypeOK, BuildCommentNetwork, End, Captions, budgets
<1>5. /\ \A t \in Steps : t < build_comment_network => step'[t] = step[t]
      /\ step'[build_report_snapshot] = "pending"
  BY <1>1, <1>2, TurnFacts DEF End, IInv, TypeOK
<1>6. DataInv'
  <2>1. SetupStops' /\ Collected' /\ ReportOfSteps' /\ JobOfSteps'
    BY <1>2, <1>5, TurnFacts DEF BuildCommentNetwork, SetupStops, Collected, ReportOfSteps,
       JobOfSteps, IInv, DataInv
  <2>2. Analysed' /\ Truthful'
    BY <1>5 DEF BuildCommentNetwork, IInv, DataInv, Analysed, AnalysisComplete, Truthful,
       ReportTruthful, CollectStep, Captions
  <2> QED
    BY <2>1, <2>2 DEF DataInv
<1> QED
  BY <1>3, <1>4, <1>6 DEF IInv

LEMMA BuildReportSnapshotKeeps == ASSUME IInv, BuildReportSnapshot PROVE IInv'
<1>1. PICK o \in {"succeeded", "failed"} :
        /\ End(build_report_snapshot, o)
        /\ IF o = "failed" THEN UNCHANGED <<report, verdict>>
           ELSE /\ verdict' = report'.status
                /\ report'.run = run
                /\ report'.status = IF Incomplete THEN "partial_success" ELSE "succeeded"
                /\ report'.missing = (comments \cup Captions) \ analysed
  <2>1. CASE UNCHANGED <<report, verdict>> /\ End(build_report_snapshot, "failed")
    BY <2>1
  <2>2. ASSUME NEW network,
               report' = [run     |-> run,
                          status  |-> IF Incomplete THEN "partial_success" ELSE "succeeded",
                          missing |-> (comments \cup Captions) \ analysed,
                          network |-> network],
               verdict' = report'.status, End(build_report_snapshot, "succeeded")
        PROVE  /\ End(build_report_snapshot, "succeeded")
               /\ verdict' = report'.status
               /\ report'.run = run
               /\ report'.status = IF Incomplete THEN "partial_success" ELSE "succeeded"
               /\ report'.missing = (comments \cup Captions) \ analysed
    BY <2>2
  <2> QED
    BY <2>1, <2>2 DEF BuildReportSnapshot
<1>2. Turn(build_report_snapshot)
  BY DEF BuildReportSnapshot
<1>3. StepInv'
  BY <1>1, <1>2, RunOne DEF BuildReportSnapshot, IInv
<1>4. TypeOK'
  <2>1. /\ report'.run \in 0..run
        /\ report'.status \in {"none", "succeeded", "partial_success"}
        /\ verdict' \in {"none", "running", "succeeded", "partial_success"}
    BY <1>1 DEF IInv, TypeOK
  <2> QED
    BY <1>1, <1>2, <2>1 DEF IInv, TypeOK, BuildReportSnapshot, End, Captions, budgets
<1>5. /\ step'[build_report_snapshot] = o
      /\ \A t \in Steps : t < build_report_snapshot => step'[t] = step[t]
  BY <1>1, <1>2 DEF End, IInv, TypeOK
<1>6. DataInv'
  <2>1. SetupStops' /\ Collected' /\ JobOfSteps'
    BY <1>2, <1>5, TurnFacts DEF BuildReportSnapshot, SetupStops, Collected, JobOfSteps, IInv, DataInv
  <2>2. ReportOfSteps'
    <3>1. o = "succeeded" => (Incomplete' <=> Incomplete)
      BY <1>2, <1>5, TurnFacts DEF Incomplete
    <3> QED
      BY <1>1, <1>5, <3>1 DEF BuildReportSnapshot, ReportOfSteps
  <2>3. Analysed'
    BY <1>5 DEF BuildReportSnapshot, IInv, DataInv, Analysed, AnalysisComplete, CollectStep, Captions
  <2>4. Truthful'
    <3> SUFFICES ASSUME ~ResumeSetupFails, report'.status = "succeeded"
                 PROVE  report'.missing = {}
      BY DEF Truthful, ReportTruthful
    <3>1. CASE o = "failed"
      BY <1>1, <3>1 DEF IInv, DataInv, Truthful, ReportTruthful
    <3>2. CASE o = "succeeded"
      <4>1. ~Incomplete
        BY <1>1, <3>2
      <4>2. step[analyze_comments] = "succeeded" /\ step[analyze_script] = "succeeded"
        BY <1>2, <4>1 DEF Turn, Incomplete, IInv, TypeOK
      <4>3. comments \cup Captions \subseteq analysed
        BY <4>2 DEF IInv, TypeOK, DataInv, Analysed, AnalysisComplete
      <4> QED
        BY <1>1, <3>2, <4>3
    <3> QED
      BY <3>1, <3>2
  <2> QED
    BY <2>1, <2>2, <2>3, <2>4 DEF DataInv
<1> QED
  BY <1>3, <1>4, <1>6 DEF IInv

LEMMA InterruptKeeps == ASSUME IInv, Interrupt PROVE IInv'
<1>1. /\ \A s \in Steps : step'[s] = Released(s)
      /\ step' \in [Steps -> {"pending", "running", "succeeded", "failed", "skipped"}]
  BY DEF Interrupt, Released, IInv, TypeOK
<1>2. step[build_report_snapshot] = "pending"
  BY DEF Interrupt, IInv, TypeOK, StepInv, Ordered
<1>3. StepInv'
  BY <1>1 DEF Released, Interrupt, IInv, StepInv, Ordered, StoppedAtFailure, SkippedBehindFailure,
     OverMeansOver
<1>4. TypeOK'
  BY <1>1 DEF Released, IInv, TypeOK, Interrupt, Captions, artifacts
<1>5. DataInv'
  <2>1. SetupStops' /\ Collected' /\ ReportOfSteps' /\ JobOfSteps' /\ Truthful'
    BY <1>1, <1>2 DEF Released, Interrupt, artifacts, SetupStops, Collected, ReportOfSteps,
       JobOfSteps, Truthful, ReportTruthful, IInv, DataInv
  <2>2. Analysed'
    BY <1>1 DEF Released, Interrupt, artifacts, IInv, DataInv, Analysed, AnalysisComplete,
       CollectStep, Captions
  <2> QED
    BY <2>1, <2>2 DEF DataInv
<1> QED
  BY <1>3, <1>4, <1>5 DEF IInv

LEMMA RetryKeeps == ASSUME IInv, NEW f \in Steps, Retry(f) PROVE IInv'
<1>1. /\ \A s \in Steps : step'[s] = IF s >= f THEN "pending" ELSE step[s]
      /\ step' \in [Steps -> {"pending", "running", "succeeded", "failed", "skipped"}]
  BY DEF Retry, RetriedWith, IInv, TypeOK
<1>2. step[f] = "failed" /\ \A s \in Steps : step[s] \notin {"pending", "running"}
  BY DEF Retry, IInv, StepInv, OverMeansOver
<1>3. StepInv'
  <2>1. Ordered' /\ StoppedAtFailure' /\ OverMeansOver'
    BY <1>1, <1>2 DEF Retry, IInv, StepInv, Ordered, StoppedAtFailure, OverMeansOver
  <2>2. SkippedBehindFailure'
    BY <1>1, <1>2 DEF IInv, StepInv, StoppedAtFailure, SkippedBehindFailure
  <2> QED
    BY <2>1, <2>2 DEF StepInv
<1>4. TypeOK'
  BY <1>1, <1>2 DEF IInv, TypeOK, Retry, Captions, artifacts
<1>5. handlers' = "none" /\ step'[build_report_snapshot] = "pending"
  BY <1>1 DEF Retry, IInv, TypeOK
<1>6. DataInv'
  <2>1. SetupStops' /\ Collected' /\ ReportOfSteps' /\ JobOfSteps' /\ Truthful'
    BY <1>1, <1>5 DEF Retry, artifacts, SetupStops, Collected, ReportOfSteps, JobOfSteps,
       Truthful, ReportTruthful, IInv, DataInv
  <2>2. Analysed'
    BY <1>1, <1>2 DEF Retry, artifacts, IInv, DataInv, Analysed, AnalysisComplete, CollectStep, Captions
  <2> QED
    BY <2>1, <2>2 DEF DataInv
<1> QED
  BY <1>3, <1>4, <1>6 DEF IInv

-----------------------------------------------------------------------------
(* The theorems *)

LEMMA StutterKeeps == ASSUME IInv, UNCHANGED vars PROVE IInv'
<1>1. TypeOK'
  BY DEF vars, artifacts, budgets, IInv, TypeOK, Captions
<1>2. StepInv'
  BY DEF vars, IInv, StepInv, Ordered, StoppedAtFailure, SkippedBehindFailure, OverMeansOver
<1>3. DataInv'
  BY DEF vars, artifacts, IInv, DataInv, SetupStops, Collected, Analysed, AnalysisComplete,
     CollectStep, Captions, Truthful, ReportTruthful, ReportOfSteps, JobOfSteps, Incomplete
<1> QED
  BY <1>1, <1>2, <1>3 DEF IInv

\* The inductive invariant: every action of the execution, of its
\* interruption and of the retry preserves it.
THEOREM InvHolds == Spec => []IInv
<1>1. IInv /\ [Next]_vars => IInv'
  <2> SUFFICES ASSUME IInv, [Next]_vars PROVE IInv'
    OBVIOUS
  <2>1. CASE UNCHANGED vars
    BY <2>1, StutterKeeps
  <2>2. CASE Claim \/ Finalize \/ Interrupt
    BY <2>2, ClaimKeeps, FinalizeKeeps, InterruptKeeps
  <2>3. CASE CollectMetadata \/ CollectComments \/ CollectTranscript \/ CreateAnalysisRun
    BY <2>3, CollectMetadataKeeps, CollectCommentsKeeps, CollectTranscriptKeeps, CreateAnalysisRunKeeps
  <2>4. ASSUME NEW s \in Steps, BeginAnalysis(s) \/ Classify(s) \/ EndAnalysis(s) \/ Retry(s)
        PROVE  IInv'
    BY <2>4, BeginAnalysisKeeps, ClassifyKeeps, EndAnalysisKeeps, RetryKeeps
  <2>5. CASE BuildCommentNetwork \/ BuildReportSnapshot
    BY <2>5, BuildCommentNetworkKeeps, BuildReportSnapshotKeeps
  <2> QED
    BY <2>1, <2>2, <2>3, <2>4, <2>5 DEF Next
<1> QED
  BY <1>1, InitHolds, PTL DEF Spec

\* Statuses, artifacts and counters keep their types; only a live execution has
\* a running step, and results are of collected items.
THEOREM TypeCorrect == Spec => []TypeOK
<1>1. IInv => TypeOK
  BY DEF IInv
<1> QED
  BY <1>1, InvHolds, PTL

\* When a job is over and has not failed, job, latest run and latest report
\* agree, whatever was interrupted, retried or could not be set up.
THEOREM VerdictsAgree == Spec => []VerdictMatchesReport
<1>1. IInv => VerdictMatchesReport
  BY InvImplies
<1> QED
  BY <1>1, InvHolds, PTL

\* As long as only a job without metadata can find its runtime missing, a
\* succeeded analysis has a result for every item in the latest run.
THEOREM AnalysesComplete == ASSUME ~ResumeSetupFails PROVE Spec => []AnalysisComplete
<1>1. IInv => AnalysisComplete
  BY InvImplies
<1> QED
  BY <1>1, InvHolds, PTL

\* Under the same condition a report that says "succeeded" misses nothing.
THEOREM ReportsTruthful == ASSUME ~ResumeSetupFails PROVE Spec => []ReportTruthful
<1>1. IInv => ReportTruthful
  BY InvImplies
<1> QED
  BY <1>1, InvHolds, PTL

-----------------------------------------------------------------------------
(* The network of a report *)

\* a network built after all comments were analysed counts them all, and stays
\* the run's until a retry makes its step pending again
NetworkCounts == ~ResumeSetupFails =>
  (step[analyze_comments] = "succeeded" /\ step[build_comment_network] = "succeeded"
     => comments \in networks)

\* nothing is run again after a report that is a success
SuccessIsFinal == report.status = "succeeded" => \A s \in Steps : step[s] = "succeeded"

NInv == NetworkCounts /\ SuccessIsFinal

\* an action that takes its turn at a step before the network's
LEMMA BeforeNetwork ==
  ASSUME IInv, NInv, NEW s \in Steps, s < build_comment_network,
         Turn(s) \/ step[s] = "running",
         NEW o, End(s, o), UNCHANGED report
  PROVE  NInv'
<1>1. step[s] \in {"pending", "running"} /\ step[build_comment_network] = "pending"
  BY DEF Turn, IInv, StepInv, Ordered
<1>2. step'[build_comment_network] = "pending"
  BY <1>1 DEF End, IInv, TypeOK
<1>3. report.status # "succeeded"
  BY <1>1 DEF NInv, SuccessIsFinal
<1> QED
  BY <1>2, <1>3 DEF NInv, NetworkCounts, SuccessIsFinal

\* an action that leaves comments, networks and report alone, and makes no step succeed
LEMMA NothingSucceeds ==
  ASSUME NInv, UNCHANGED <<comments, networks, report>>,
         \A s \in Steps : step'[s] = "succeeded" => step[s] = "succeeded",
         report.status = "succeeded" => UNCHANGED step
  PROVE  NInv'
BY DEF NInv, NetworkCounts, SuccessIsFinal

LEMMA BuildCommentNetworkCounts == ASSUME IInv, NInv, BuildCommentNetwork PROVE NInv'
<1>1. Turn(build_comment_network) /\ step[build_comment_network] = "pending"
  BY DEF BuildCommentNetwork, Turn
<1>2. report.status # "succeeded" /\ report' = report
  BY <1>1 DEF NInv, SuccessIsFinal, BuildCommentNetwork
<1>3. CASE networks' = networks \cup {comments \cap analysed} /\ End(build_comment_network, "succeeded")
  <2>1. step'[analyze_comments] = step[analyze_comments] /\ comments' = comments
    BY <1>3 DEF End, IInv, TypeOK, BuildCommentNetwork
  <2>2. ~ResumeSetupFails /\ step[analyze_comments] = "succeeded" => comments \cap analysed = comments
    BY DEF IInv, TypeOK, DataInv, Analysed, AnalysisComplete
  <2> QED
    BY <1>2, <1>3, <2>1, <2>2 DEF NInv, NetworkCounts, SuccessIsFinal
<1>4. CASE networks' = networks /\ End(build_comment_network, "failed")
  <2>1. step'[build_comment_network] = "failed"
    BY <1>4 DEF End, IInv, TypeOK
  <2> QED
    BY <1>2, <2>1 DEF NInv, NetworkCounts, SuccessIsFinal
<1> QED
  BY <1>3, <1>4 DEF BuildCommentNetwork

LEMMA BuildReportSnapshotCounts == ASSUME IInv, NInv, BuildReportSnapshot PROVE NInv'
<1>1. Turn(build_report_snapshot) /\ step[build_report_snapshot] = "pending"
  BY DEF BuildReportSnapshot, Turn
<1>2. \A s \in Steps : s # build_report_snapshot => step'[s] = step[s]
  BY DEF BuildReportSnapshot, End, IInv, TypeOK
<1>3. NetworkCounts'
  BY <1>2 DEF BuildReportSnapshot, NInv, NetworkCounts
<1>4. SuccessIsFinal'
  <2> SUFFICES ASSUME report'.status = "succeeded"
               PROVE  \A s \in Steps : step'[s] = "succeeded"
    BY DEF SuccessIsFinal
  <2>1. report' # report
    BY <1>1 DEF NInv, SuccessIsFinal
  <2>2. /\ End(build_report_snapshot, "succeeded")
        /\ report'.status = IF Incomplete THEN "partial_success" ELSE "succeeded"
    BY <2>1 DEF BuildReportSnapshot
  <2>3. \A s \in Steps : s # build_report_snapshot => step[s] = "succeeded"
    BY <1>1, <2>2 DEF Turn, Incomplete, IInv, TypeOK
  <2> QED
    BY <1>2, <2>2, <2>3 DEF End, IInv, TypeOK
<1> QED
  BY <1>3, <1>4 DEF NInv

\* the actions that run none of the handlers
LEMMA OutsideCounts ==
  ASSUME IInv, NInv, Claim \/ Finalize \/ Interrupt \/ (\E f \in Steps : Retry(f)) PROVE NInv'
<1>1. UNCHANGED <<comments, networks, report>>
  BY DEF Claim, Finalize, Interrupt, Retry, artifacts
<1>2. \A s \in Steps : step'[s] = "succeeded" => step[s] = "succeeded"
  BY DEF Claim, Finalize, Interrupt, Released, Retry
<1>3. report.status = "succeeded" => UNCHANGED step
  <2> SUFFICES ASSUME report.status = "succeeded" PROVE step' = step
    OBVIOUS
  <2>1. \A s \in Steps : step[s] = "succeeded"
    BY DEF NInv, SuccessIsFinal
  <2>2. Claim \/ Finalize
    BY <2>1 DEF Interrupt, Retry
  <2>3. CASE Finalize
    <3>1. step' = [s \in Steps |-> step[s]]
      BY <2>1, <2>3 DEF Finalize
    <3> QED
      BY <3>1 DEF IInv, TypeOK
  <2> QED
    BY <2>2, <2>3 DEF Claim
<1> QED
  BY <1>1, <1>2, <1>3, NothingSucceeds

LEMMA CountsKept == ASSUME IInv, NInv, [Next]_vars PROVE NInv'
<1>1. CASE UNCHANGED vars
  BY <1>1, NothingSucceeds DEF vars, artifacts
<1>2. CASE Claim \/ Finalize \/ Interrupt \/ (\E f \in Steps : Retry(f))
  BY <1>2, OutsideCounts
<1>3. CASE CollectMetadata \/ CollectComments \/ CollectTranscript \/ CreateAnalysisRun
  BY <1>3, BeforeNetwork DEF CollectMetadata, CollectComments, CollectTranscript, CreateAnalysisRun
<1>4. ASSUME NEW s \in Steps, BeginAnalysis(s) \/ EndAnalysis(s) PROVE NInv'
  <2>1. /\ s \in {analyze_comments, analyze_script}
        /\ Turn(s) \/ step[s] = "running"
        /\ UNCHANGED report
    BY <1>4 DEF BeginAnalysis, EndAnalysis, Analysing, artifacts
  <2>2. \E o : End(s, o)
    BY <1>4 DEF BeginAnalysis, EndAnalysis
  <2> QED
    BY <2>1, <2>2, BeforeNetwork
<1>5. ASSUME NEW s \in Steps, Classify(s) PROVE NInv'
  BY <1>5, NothingSucceeds DEF Classify
<1>6. CASE BuildCommentNetwork \/ BuildReportSnapshot
  BY <1>6, BuildCommentNetworkCounts, BuildReportSnapshotCounts
<1> QED
  BY <1>1, <1>2, <1>3, <1>4, <1>5, <1>6 DEF Next

\* Under the same condition the run of a report that says "succeeded" has a
\* network which counts the result of every comment.
THEOREM NetworksFollow == ASSUME ~ResumeSetupFails PROVE Spec => []NetworkFollowsResults
<1>1. Init => NInv
  BY DEF Init, NoReport, NInv, NetworkCounts, SuccessIsFinal
<1>2. NInv => NetworkFollowsResults
  BY DEF NInv, NetworkCounts, SuccessIsFinal, NetworkFollowsResults
<1> QED
  BY <1>1, <1>2, CountsKept, InvHolds, PTL DEF Spec

-----------------------------------------------------------------------------
(* The handlers implement JobContract.  Under the inductive invariant every *)
(* action completes one step of the contract, settles or reopens the job,   *)
(* or is not seen.                                                          *)

ContractResult == [s \in 1..10 |-> Result(s)]

CRequired == {1, 10} \cup {s + 1 : s \in Required}

LEMMA Vocabulary ==
  /\ Contract!Jobs = 1..1 /\ Contract!Steps = 1..10
  /\ Contract!Done = {"succeeded", "failed", "skipped"}
  /\ Contract!Settled = {"succeeded", "partial_success", "failed"}
BY DEF Contract!Jobs, Contract!Steps, Contract!Done, Contract!Settled

\* a step of the contract, for its only job
LEMMA OneJob ==
  ASSUME NEW V, NEW R
  PROVE  /\ [j \in 1..1 |-> V] = [[j \in 1..1 |-> Verdict] EXCEPT ![1] = V]
         /\ [j \in 1..1 |-> R] = [[j \in 1..1 |-> ContractResult] EXCEPT ![1] = R]
<1>1. \A j \in 1..1 : j = 1
  OBVIOUS
<1> QED
  BY <1>1

\* what the contract sees is the job and the steps that are over
LEMMA Unseen ==
  ASSUME \/ job' = job
         \/ Open /\ Open',
         \A s \in Steps : \/ step'[s] = step[s]
                          \/ {step[s], step'[s]} \subseteq {"pending", "running"}
  PROVE  UNCHANGED Contract!cvars
<1>1. Verdict' = Verdict /\ (Open' <=> Open)
  BY DEF Verdict, Open
<1>2. \A s \in 1..10 : Result(s)' = Result(s)
  BY <1>1 DEF Result
<1>3. [s \in 1..10 |-> Result(s)]' = [s \in 1..10 |-> Result(s)]
  BY <1>2
<1> QED
  BY <1>1, <1>3 DEF Contract!cvars

LEMMA FailedMaps == TypeOK => (Contract!RequiredFailed(ContractResult) <=> Broken)
<1>1. \A s \in Steps : ContractResult[s + 1] = "failed" <=> step[s] = "failed"
  BY DEF ContractResult, Result
<1>2. ContractResult[1] # "failed"
  BY DEF ContractResult, Result
<1>3. CRequired \ {10} = {1} \cup {s + 1 : s \in Required}
  BY DEF CRequired
<1>4. Contract!RequiredFailed(ContractResult) <=> \E s \in CRequired \ {10} : ContractResult[s] = "failed"
  BY DEF Contract!RequiredFailed, CRequired
<1> QED
  BY <1>1, <1>2, <1>3, <1>4 DEF Broken

\* the end of one step, the loop having come to it
LEMMA CompleteMaps ==
  ASSUME TypeOK, NEW s \in Steps, NEW o \in {"succeeded", "failed", "skipped"},
         step[s] \in {"pending", "running"}, End(s, o), job = "running", job' = job, ~Broken,
         \A t \in Steps : t < s => step[t] \notin {"pending", "running"}
  PROVE  Contract!Next
<1>1. Open /\ Open' /\ Verdict = "open" /\ Verdict' = "open"
  BY DEF Open, Verdict
<1>2. ~Contract!RequiredFailed(ContractResult)
  BY FailedMaps
<1>3. /\ s + 1 \in 1..10 /\ s + 1 # 10 /\ ContractResult[s + 1] = "todo"
      /\ \A t \in 1..10 : t < s + 1 => ContractResult[t] \in {"succeeded", "failed", "skipped"}
  BY DEF ContractResult, Result, TypeOK
<1>4. [x \in 1..10 |-> Result(x)]' = [ContractResult EXCEPT ![s + 1] = o]
  <2>1. \A x \in Steps : step'[x] = (IF x = s THEN o ELSE step[x])
    BY DEF End, TypeOK
  <2>2. \A x \in 1..10 : Result(x)' = (IF x = s + 1 THEN o ELSE Result(x))
    BY <2>1, <1>1 DEF Result
  <2> QED
    BY <2>2 DEF ContractResult
<1>5. Contract!Complete(1, s + 1, o)
  BY <1>1, <1>2, <1>3, <1>4, Vocabulary DEF Contract!Complete, ContractResult
<1> QED
  BY <1>3, <1>5, Vocabulary DEF Contract!Next

\* the handlers that are one transaction
LEMMA TurnMaps ==
  ASSUME IInv, NEW s \in Steps, Turn(s), NEW o \in {"running", "succeeded", "failed", "skipped"},
         End(s, o), job' = job
  PROVE  Contract!Next \/ UNCHANGED Contract!cvars
<1>1. step[s] = "pending" /\ job = "running"
  BY DEF Turn, IInv, TypeOK
<1>2. CASE o = "running"
  <2>1. \A x \in Steps : step'[x] = (IF x = s THEN "running" ELSE step[x])
    BY <1>2 DEF End, IInv, TypeOK
  <2> QED
    BY <2>1, <1>1, Unseen
<1>3. CASE o # "running"
  BY <1>1, <1>3, CompleteMaps DEF Turn, IInv
<1> QED
  BY <1>2, <1>3

\* the analysis that was begun, ends before anything after it is run
LEMMA EndAnalysisMaps ==
  ASSUME IInv, NEW s \in Steps, EndAnalysis(s)
  PROVE  Contract!Next
<1>1. s \in {analyze_comments, analyze_script} /\ step[s] = "running" /\ job = "running" /\ job' = job
  BY DEF EndAnalysis, Analysing, IInv, TypeOK
<1>2. PICK o \in {"succeeded", "failed"} : End(s, o)
  BY DEF EndAnalysis
<1>3. \A t \in Steps : t < s => step[t] \notin {"pending", "running"}
  BY <1>1 DEF IInv, StepInv, Ordered
<1>4. ~Broken
  BY <1>1 DEF Broken, IInv, StepInv, Ordered, StoppedAtFailure
<1> QED
  BY <1>1, <1>2, <1>3, <1>4, CompleteMaps DEF IInv

LEMMA FinalizeMaps ==
  ASSUME IInv, Finalize
  PROVE  Contract!Settle(1)
<1>1. /\ job = "running" /\ Open /\ ~Open' /\ Verdict = "open" /\ Verdict' = job'
      /\ \A s \in Steps : step[s] # "running" \/ Broken
  BY DEF Finalize, Open, Verdict, IInv, TypeOK
<1>2. Broken => \A s \in Steps : step[s] # "running"
  BY DEF Broken, IInv, TypeOK, StepInv, Ordered, StoppedAtFailure
<1>3. \/ Contract!RequiredFailed(ContractResult)
      \/ \A s \in 1..10 \ {10} : ContractResult[s] \in {"succeeded", "failed", "skipped"}
  <2>1. ~Broken => \A s \in Steps : step[s] \in {"succeeded", "failed", "skipped"}
    BY DEF Finalize, IInv, TypeOK
  <2>2. ~Broken => \A s \in 1..10 \ {10} : ContractResult[s] \in {"succeeded", "failed", "skipped"}
    BY <2>1 DEF ContractResult, Result
  <2> QED
    BY <2>2, FailedMaps DEF IInv
<1>4. Verdict' = Contract!JobOutcome(ContractResult)
  <2>1. \A s \in Steps : ContractResult[s + 1] \in {"failed", "skipped"} <=> step[s] \in {"failed", "skipped"}
    BY DEF ContractResult, Result, IInv, TypeOK
  <2>2. \A s \in Steps \ Required : s + 1 \in 1..10 \ CRequired
    BY DEF CRequired
  <2>3. \A x \in 1..10 \ CRequired : x - 1 \in Steps \ Required /\ x = (x - 1) + 1
    BY DEF CRequired
  <2>4. (\E x \in 1..10 \ CRequired : ContractResult[x] \in {"failed", "skipped"})
          <=> \E s \in Steps \ Required : step[s] \in {"failed", "skipped"}
    BY <2>1, <2>2, <2>3
  <2>5. Contract!OptionalIncomplete(ContractResult)
          <=> \E x \in 1..10 \ CRequired : ContractResult[x] \in {"failed", "skipped"}
    BY Vocabulary DEF Contract!OptionalIncomplete, CRequired
  <2> QED
    BY <2>4, <2>5, <1>1, FailedMaps DEF Contract!JobOutcome, Finalize, IInv
<1>5. [x \in 1..10 |-> Result(x)]' =
        [x \in 1..10 |-> IF x = 10 THEN "succeeded"
                          ELSE IF ContractResult[x] = "todo" THEN "skipped" ELSE ContractResult[x]]
  <2>1. \A s \in Steps : step'[s] = IF step[s] = "pending" THEN "skipped" ELSE step[s]
    BY DEF Finalize, IInv, TypeOK
  <2>2. \A x \in 1..10 : Result(x)' = IF x = 10 THEN "succeeded"
                          ELSE IF ContractResult[x] = "todo" THEN "skipped" ELSE ContractResult[x]
    BY <2>1, <1>1, <1>2 DEF Result, ContractResult, IInv, TypeOK
  <2> QED
    BY <2>2
<1>6. /\ [j \in 1..1 |-> Verdict][1] = Verdict
      /\ [j \in 1..1 |-> [s \in 1..10 |-> Result(s)]][1] = ContractResult
  BY DEF ContractResult
<1>7. [j \in 1..1 |-> Verdict]'
        = [[j \in 1..1 |-> Verdict] EXCEPT ![1] = Contract!JobOutcome(ContractResult)]
  BY <1>4, OneJob
<1>8. [j \in 1..1 |-> [s \in 1..10 |-> Result(s)]]' =
        [[j \in 1..1 |-> ContractResult] EXCEPT ![1] =
          [x \in 1..10 |-> IF x = 10 THEN "succeeded"
                            ELSE IF ContractResult[x] = "todo" THEN "skipped" ELSE ContractResult[x]]]
  BY <1>5, OneJob
<1> QED
  BY <1>1, <1>3, <1>6, <1>7, <1>8, Vocabulary DEF Contract!Settle, ContractResult

LEMMA RetryMaps ==
  ASSUME IInv, NEW f \in Steps, Retry(f)
  PROVE  Contract!Reopen(1, f + 1)
<1>1. /\ job \in {"succeeded", "partial_success", "failed"} /\ Verdict = job
      /\ ~Open /\ Open' /\ Verdict' = "open"
  BY DEF Retry, Open, Verdict
<1>2. f + 1 \in 1..10 /\ ContractResult[f + 1] = "failed"
  BY DEF Retry, ContractResult, Result
<1>3. [x \in 1..10 |-> Result(x)]' =
        [x \in 1..10 |-> IF x >= f + 1 THEN "todo" ELSE ContractResult[x]]
  <2>1. \A s \in Steps : step'[s] = IF s >= f THEN "pending" ELSE step[s]
    BY DEF Retry, RetriedWith
  <2>2. \A x \in 1..10 : Result(x)' = IF x >= f + 1 THEN "todo" ELSE ContractResult[x]
    BY <2>1, <1>1 DEF Result, ContractResult
  <2> QED
    BY <2>2
<1> QED
  BY <1>1, <1>2, <1>3, Vocabulary, OneJob DEF Contract!Reopen, ContractResult

LEMMA NextMaps == IInv /\ [Next]_vars => [Contract!Next]_(Contract!cvars)
<1> SUFFICES ASSUME IInv, [Next]_vars
             PROVE  Contract!Next \/ UNCHANGED Contract!cvars
  OBVIOUS
<1>1. CASE UNCHANGED vars
  BY <1>1, Unseen DEF vars
<1>2. CASE Claim
  BY <1>2, Unseen DEF Claim, Open
<1>3. CASE Interrupt
  <2>1. Open /\ Open'
    BY <1>3 DEF Interrupt, Open, IInv, TypeOK
  <2>2. \A s \in Steps : \/ step'[s] = step[s]
                         \/ {step[s], step'[s]} \subseteq {"pending", "running"}
    BY <1>3 DEF Interrupt, Released
  <2> QED
    BY <2>1, <2>2, Unseen
<1>4. CASE Finalize
  BY <1>4, FinalizeMaps, Vocabulary DEF Contract!Next
<1>5. CASE \/ CollectMetadata \/ CollectComments \/ CollectTranscript \/ CreateAnalysisRun
           \/ BuildCommentNetwork \/ BuildReportSnapshot
  <2>1. PICK s \in Steps, o \in {"succeeded", "failed", "skipped"} :
          Turn(s) /\ End(s, o) /\ job' = job
    BY <1>5 DEF CollectMetadata, CollectComments, CollectTranscript, CreateAnalysisRun,
       BuildCommentNetwork, BuildReportSnapshot
  <2> QED
    BY <2>1, TurnMaps
<1>6. ASSUME NEW s \in Steps, BeginAnalysis(s)
      PROVE  Contract!Next \/ UNCHANGED Contract!cvars
  <2>1. PICK o \in {"running", "succeeded", "skipped"} : Turn(s) /\ End(s, o) /\ job' = job
    BY <1>6 DEF BeginAnalysis
  <2> QED
    BY <2>1, TurnMaps
<1>7. ASSUME NEW s \in Steps, Classify(s)
      PROVE  UNCHANGED Contract!cvars
  BY <1>7, Unseen DEF Classify
<1>8. ASSUME NEW f \in Steps, Retry(f)
      PROVE  Contract!Next
  <2>1. f + 1 \in 1..10
    OBVIOUS
  <2> QED
    BY <1>8, <2>1, RetryMaps, Vocabulary DEF Contract!Next
<1> QED
  BY <1>1, <1>2, <1>3, <1>4, <1>5, <1>6, <1>7, <1>8, EndAnalysisMaps DEF Next

\* The handlers keep the contract of the pipeline for every video, every missing
\* key and every interruption: a step is completed once per opening of the job
\* and in order, and the verdict is the one the outcomes call for.
THEOREM HandlersKeepContract == Spec => ImplementsContract
BY NextMaps, InvHolds, PTL DEF Spec, ImplementsContract
=============================================================================
