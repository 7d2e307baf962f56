---------------------------- MODULE ResultSheet ----------------------------
(***************************************************************************)
(* What an analysis step promises about its results, with neither workers, *)
(* thread pools nor attempts: the outcome of an item is entered once, only *)
(* while the step is open, and never altered; and the step is complete     *)
(* only once every item has an outcome.  RagStep implements this.          *)
(***************************************************************************)
CONSTANT Items

VARIABLES
  sheet,   \* the outcome of each item, or "none"
  state    \* "closed", "open" or "complete"

svars == <<sheet, state>>

Init ==
  /\ sheet = [i \in Items |-> "none"]
  /\ state = "closed"

\* an execution starts, even after another one has completed the step
Open == state' = "open" /\ UNCHANGED sheet

\* a failure, a release on shutdown, a recovery or an operator's retry
Suspend == state' = "closed" /\ UNCHANGED sheet

Enter(i, outcome) ==
  /\ state = "open" /\ sheet[i] = "none"
  /\ sheet' = [sheet EXCEPT ![i] = outcome]
  /\ UNCHANGED state

Complete ==
  /\ state = "open"
  /\ \A i \in Items : sheet[i] # "none"
  /\ state' = "complete"
  /\ UNCHANGED sheet

Next ==
  \/ Open \/ Suspend \/ Complete
  \/ \E i \in Items, o \in {"succeeded", "failed"} : Enter(i, o)

Spec == Init /\ [][Next]_svars
=============================================================================
