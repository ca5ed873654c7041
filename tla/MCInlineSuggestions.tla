------------------------ MODULE MCInlineSuggestions ------------------------
(***************************************************************************)
(* Instances of InlineSuggestions for TLC.  Two hunks that are close, so   *)
(* that a suggestion can lie in one, between them, across both or far from *)
(* both; a file of one line; and a file that is deleted.                   *)
(***************************************************************************)
EXTENDS InlineSuggestions, TLC

TwoHunks == <<[start |-> 2, size |-> 2], [start |-> 6, size |-> 3]>>
OneLineFile == <<[start |-> 1, size |-> 1]>>
DeletedFile == <<[start |-> 0, size |-> 0]>>
SomeHunks == {TwoHunks, OneLineFile, DeletedFile}

=============================================================================
