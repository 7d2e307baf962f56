---------------------------- MODULE ItemFutures ----------------------------
(***************************************************************************)
(* What the coordinator of a RAG step and the threads which classify its   *)
(* items owe each other (RagRuntime.run, app/analysis/executor.py), with   *)
(* neither a pool, gates, retries nor rows.  A thread resolves each item   *)
(* it was given once, and gives one up only for a shutdown; the coordinator *)
(* hands no item out again before it has taken the resolution of the last  *)
(* time, or dropped everything; and a stop holds until nothing is left.    *)
(*                                                                         *)
(* RagStep implements this with threads that may do what they like, and    *)
(* RagClassifier with a coordinator that does: each assumes no more of the *)
(* other than what is said here.                                           *)
(***************************************************************************)
CONSTANT Items

VARIABLES
  future,    \* "none", "running" or how the item was resolved
  stopping   \* stop_event.is_set()

fvars == <<future, stopping>>

\* an outcome of either kind, WorkerShutdownRequested or any other exception
Resolved == {"succeeded", "failed", "aborted", "rejected"}

Nothing == [i \in Items |-> "none"]

Init == future = Nothing /\ stopping = FALSE

\* the resolutions of "back" are taken and the items of "out" submitted
Hand(out, back) ==
  /\ \A i \in out : future[i] = "none"
  /\ \A i \in back : future[i] \in Resolved
  /\ future' = [i \in Items |-> IF i \in out THEN "running"
                                ELSE IF i \in back THEN "none" ELSE future[i]]
  /\ UNCHANGED stopping

\* a thread is done with the item
Resolve(i, f) ==
  /\ future[i] = "running"
  /\ f = "aborted" => stopping
  /\ future' = [future EXCEPT ![i] = f]
  /\ UNCHANGED stopping

\* the step is over, or its process has died
Abandon == future' = Nothing /\ UNCHANGED stopping

\* SIGTERM
Stop == stopping' = TRUE /\ UNCHANGED future

\* the next process
Restart == future = Nothing /\ stopping' = FALSE /\ UNCHANGED future

Next ==
  \/ \E out, back \in SUBSET Items : Hand(out, back)
  \/ \E i \in Items, f \in Resolved : Resolve(i, f)
  \/ Abandon \/ Stop \/ Restart

Spec == Init /\ [][Next]_fvars
=============================================================================
