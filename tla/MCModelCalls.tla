---------------------------- MODULE MCModelCalls ----------------------------
(***************************************************************************)
(* Instances of ModelCalls for TLC: one command whose chunks are gathered  *)
(* while fallbacks go on, or two commands, of which the second starts with *)
(* the settings the first one left.                                        *)
(***************************************************************************)
EXTENDS ModelCalls

\* The chunks of one command are gathered; or two commands run, whose chunks do not.
SomeRequests == {[parallel |-> TRUE, commands |-> 1], [parallel |-> FALSE, commands |-> 2]}

=============================================================================
