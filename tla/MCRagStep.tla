----------------------------- MODULE MCRagStep -----------------------------
(***************************************************************************)
(* Instances of RagStep for TLC: one or two executors, up to three items   *)
(* and a pool of two threads, so that a pool is filled, refilled and       *)
(* drained; the second executor is in sequential mode.                     *)
(***************************************************************************)
EXTENDS RagStep, TLC

CONSTANTS e1, e2, i1, i2, i3

OneExecutor  == {e1}
TwoExecutors == {e1, e2}
NoExecutor   == {}
TwoItems     == {i1, i2}
ThreeItems   == {i1, i2, i3}

Symmetry == Permutations(TwoItems)
=============================================================================
