--------------------------- MODULE MCRagClassifier ---------------------------
(***************************************************************************)
(* RagClassifier for TLC.  Two threads and a classifier each compete for a *)
(* single permit per provider; the constants are model values of the .cfg. *)
(***************************************************************************)
EXTENDS RagClassifier, TLC
=============================================================================
