---------------------------- MODULE JobContract ----------------------------
(***************************************************************************)
(* What the pipeline promises, with neither workers, attempts nor caches:  *)
(* the steps of a job are completed once, in order, none after a required  *)
(* step has failed; the job then settles with the verdict its steps call   *)
(* for; and a settled job is reopened only by an operator, from a failed   *)
(* step on.  JobPipeline is shown to implement this specification as long  *)
(* as jobs are retried only once they have settled, and JobArtifacts to    *)
(* keep it with the handlers that the pipeline runs.                       *)
(***************************************************************************)
EXTENDS JobVocabulary

VARIABLES
  verdict,   \* "absent", "open" or the final status of each job
  result     \* "todo" or the outcome of each step

cvars == <<verdict, result>>

Init ==
  /\ verdict = [j \in Jobs |-> "absent"]
  /\ result  = [j \in Jobs |-> [s \in Steps |-> "todo"]]

\* validate_input has been done by the time the job exists
Accept(j) ==
  /\ verdict[j] = "absent"
  /\ verdict' = [verdict EXCEPT ![j] = "open"]
  /\ result'  = [result EXCEPT ![j][1] = "succeeded"]

\* steps complete in order, and only while no required step has failed
Complete(j, s, outcome) ==
  /\ verdict[j] = "open"
  /\ result[j][s] = "todo" /\ s # N
  /\ \A t \in Steps : t < s => result[j][t] \in Done
  /\ ~RequiredFailed(result[j])
  /\ result' = [result EXCEPT ![j][s] = outcome]
  /\ UNCHANGED verdict

\* what is left after a required failure is skipped, finalize_job succeeds
Settle(j) ==
  /\ verdict[j] = "open"
  /\ \/ RequiredFailed(result[j])
     \/ \A s \in Steps \ {N} : result[j][s] \in Done
  /\ verdict' = [verdict EXCEPT ![j] = JobOutcome(result[j])]
  /\ result'  = [result EXCEPT ![j] = [s \in Steps |->
       IF s = N THEN "succeeded" ELSE IF @[s] = "todo" THEN "skipped" ELSE @[s]]]

Reopen(j, f) ==
  /\ verdict[j] \in Settled /\ result[j][f] = "failed"
  /\ verdict' = [verdict EXCEPT ![j] = "open"]
  /\ result'  = [result EXCEPT ![j] = [s \in Steps |-> IF s >= f THEN "todo" ELSE @[s]]]

Next ==
  \E j \in Jobs :
    \/ Accept(j) \/ Settle(j)
    \/ \E s \in Steps : Reopen(j, s) \/ \E o \in Done : Complete(j, s, o)

Spec == Init /\ [][Next]_cvars
=============================================================================
