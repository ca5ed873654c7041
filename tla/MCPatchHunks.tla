---------------------------- MODULE MCPatchHunks ----------------------------
(***************************************************************************)
(* Instances of PatchHunks for TLC: every change of up to six lines, with  *)
(* one unchanged line around changes where git has three, so that two      *)
(* hunks with lines in front of and between them fit.                      *)
(***************************************************************************)
EXTENDS PatchHunks

\* One line or two of the new file, or all of them, and one line of the old file.
SomeQuestions ==
    [side : {"left"}, start : {4}, end : {4}]
    \cup {q \in [side : {"right"}, start : 1..MaxLines, end : 1..MaxLines] :
            q.start <= q.end /\ q.end \in {q.start, q.start + 1, MaxLines}}

=============================================================================
