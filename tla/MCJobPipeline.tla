--------------------------- MODULE MCJobPipeline ---------------------------
(***************************************************************************)
(* Instances of JobPipeline for TLC: two workers and a pipeline of four or *)
(* five steps, of which the analysis step heartbeats and obeys SIGTERM.    *)
(***************************************************************************)
EXTENDS JobPipeline, TLC

CONSTANTS w1, w2

TwoWorkers == {w1, w2}
Symmetry   == Permutations(TwoWorkers)

\* 1 validate_input, 2 collect_metadata, 3 analyze_comments,
\* 4 build_report_snapshot, 5 finalize_job
FiveRequired == {1, 2, 4, 5}
FiveRag      == {3}

\* 1 validate_input, 2 analyze_comments, 3 build_report_snapshot, 4 finalize_job
FourRequired == {1, 3, 4}
FourRag      == {2}
=============================================================================
