------------------------- MODULE MCImproveComments -------------------------
(***************************************************************************)
(* Instances of ImproveComments for TLC.  The runs and the workers are     *)
(* interchangeable.                                                        *)
(***************************************************************************)
EXTENDS ImproveComments, TLC

Symmetry == Permutations(Runs) \cup Permutations(Workers)

=============================================================================
