--------------------------- MODULE JobVocabulary ---------------------------
(***************************************************************************)
(* The words the job modules share: jobs, the steps of the pipeline in     *)
(* order, the values of the two status columns, and the verdict that       *)
(* JobOrchestrator._finalize draws from the step statuses.                 *)
(***************************************************************************)
EXTENDS Naturals

CONSTANTS
  NJobs,        \* jobs are 1..NJobs, numbered in the order of created_at
  N,            \* steps are 1..N: 1 is validate_input and N is finalize_job
  Required      \* the steps with is_required = True

ASSUME VocabularyAssumption ==
  /\ NJobs \in Nat
  /\ N \in Nat /\ N >= 2
  /\ Required \subseteq 1..N /\ {1, N} \subseteq Required

Jobs  == 1..NJobs
Steps == 1..N

Done       == {"succeeded", "failed", "skipped"}
StepStatus == Done \cup {"pending", "running"}
Settled    == {"succeeded", "partial_success", "failed"}
JobStatus  == Settled \cup {"absent", "pending", "running"}

\* a bug this project looks for: a failed required step is not noticed
RequiredNeverFails(status) == FALSE

RequiredFailed(status) == \E s \in Required \ {N} : status[s] = "failed"

OptionalIncomplete(status) == \E s \in Steps \ Required : status[s] \in {"failed", "skipped"}

JobOutcome(status) ==
  IF RequiredFailed(status) THEN "failed"
  ELSE IF OptionalIncomplete(status) THEN "partial_success" ELSE "succeeded"
=============================================================================
