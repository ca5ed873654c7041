--------------------------- MODULE MCPushTrigger ---------------------------
(***************************************************************************)
(* Instances of PushTrigger for TLC.  Each webhook can be pushed once, so  *)
(* the number of Events bounds every counter.                              *)
(***************************************************************************)
EXTENDS PushTrigger

=============================================================================
