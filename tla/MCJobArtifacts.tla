--------------------------- MODULE MCJobArtifacts ---------------------------
(***************************************************************************)
(* Instances of JobArtifacts for TLC: a video of two comments whose        *)
(* captions are one segment.                                               *)
(***************************************************************************)
EXTENDS JobArtifacts, TLC

CONSTANTS c1, c2, g1

TwoComments == {c1, c2}
OneSegment  == {g1}
Symmetry    == Permutations(TwoComments)
=============================================================================
