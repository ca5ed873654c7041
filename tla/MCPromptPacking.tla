-------------------------- MODULE MCPromptPacking --------------------------
(***************************************************************************)
(* Instances of PromptPacking for TLC.  The sizes are scaled so that every *)
(* limit is met from both sides: the soft threshold is 4, the hard one 2,  *)
(* a header costs 1 and the model takes 12; one of the two prompts leaves  *)
(* room for patches and the other is past the hard limit by itself.        *)
(***************************************************************************)
EXTENDS PromptPacking

=============================================================================
