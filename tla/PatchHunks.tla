----------------------------- MODULE PatchHunks -----------------------------
(***************************************************************************)
(* What becomes of the patch of a file on its way into a prompt            *)
(* (garda/algo/git_patch_processing.py): it is extended with context       *)
(* (extend_patch) or loses its deletions (handle_patch_deletions), and its *)
(* lines are numbered for the model                                        *)
(* (decouple_and_convert_to_hunks_with_lines_numbers); or a user asks      *)
(* about some lines of it (extract_hunk_lines_from_patch).                 *)
(*                                                                         *)
(* A change is a script of lines that are kept, added or deleted, and a    *)
(* line is its place in the script, so that all lines differ.              *)
(***************************************************************************)
EXTENDS Integers, Sequences, FiniteSetsExt, SequencesExt

CONSTANTS MaxLines,  \* length of a script
          Context,   \* unchanged lines git shows around a change
          Befores,   \* values of patch_extra_lines_before
          Afters,    \* values of patch_extra_lines_after
          Dynamics,  \* values of max_extra_lines_before_dynamic_context; 0 is
                     \* allow_dynamic_context off
          Questions  \* the questions about lines that users may ask

ASSUME PatchHunksAssumption ==
    /\ MaxLines \in Nat /\ Context \in Nat \ {0}
    /\ Befores \cup Afters \cup Dynamics \subseteq Nat
    /\ Questions \subseteq [side : {"left", "right"}, start : Nat, end : Nat]

VARIABLES script,   \* script[k]: line k is kept (" "), added or deleted
          func,     \* the line of the old file that begins a function, or 0
          base_file, head_file, \* the files that were read, before and after the change
          patch,    \* the hunks
          before, after, dynamic, \* the settings it was extended with
          stage,
          hunk,     \* the hunk that is extended next
          shown,    \* what the model sees: per hunk, numbered lines and old lines
          asked, selected  \* the lines of a question, and the lines it was given

vars == <<script, func, base_file, head_file, patch, before, after, dynamic, stage, hunk,
          shown, asked, selected>>

change == <<script, func, head_file>>
settings == <<base_file, before, after, dynamic>>

-----------------------------------------------------------------------------
(* The two files and git's diff of them *)

Lines == 1..Len(script)

\* The members of a set of numbers, from the least on.  SelectSeq would be defined by
\* recursion, which the proofs cannot use.
InOrder(S) ==
    [i \in 1..Cardinality(S) |-> CHOOSE k \in S : Cardinality({j \in S : j <= k}) = i]

\* The tags of the lines of the old file, and of the new one.
Old == {" ", "-"}
New == {" ", "+"}

Kept(tags) == InOrder({k \in Lines : script[k] \in tags})
OldFile == Kept(Old)
NewFile == Kept(New)

InHunk(k) ==
    k \in Lines /\ \E j \in Lines : script[j] # " " /\ j - Context <= k /\ k <= j + Context

\* How many of the lines a to b are in a file.
Count(tags, a, b) == Cardinality({k \in a..b : script[k] \in tags})

\* A size of 1 is left out of the header, and extract_hunk_headers reads it as 0.
AsRead(size) == IF size = 1 THEN 0 ELSE size

HunkFrom(a, b) ==
    LET start(tags) == Count(tags, 1, a - 1) + (IF Count(tags, a, b) = 0 THEN 0 ELSE 1)
    IN [start1 |-> start(Old), size1 |-> AsRead(Count(Old, a, b)),
        start2 |-> start(New), size2 |-> AsRead(Count(New, a, b)),
        section |-> IF func < a THEN func ELSE 0,
        lines |-> [k \in 1..b - a + 1 |-> [tag |-> script[a + k - 1], line |-> a + k - 1]]]

\* The last line of the hunk that begins with line a.
HunkEnd(a) == Min({k \in Lines : k >= a /\ ~InHunk(k + 1)})

HunkStarts == InOrder({k \in Lines : InHunk(k) /\ ~InHunk(k - 1)})

GitPatch == [i \in DOMAIN HunkStarts |-> HunkFrom(HunkStarts[i], HunkEnd(HunkStarts[i]))]

\* git shows deleted lines before the lines that replace them.
Scripts == {s \in BoundedSeq({" ", "+", "-"}, MaxLines) :
              \A k \in 1..Len(s) - 1 : ~(s[k] = "+" /\ s[k + 1] = "-")}

Init ==
    /\ script \in Scripts
    /\ func \in {0} \cup Range(OldFile)
    /\ base_file = OldFile /\ head_file = NewFile
    /\ patch = GitPatch
    /\ before = 0 /\ after = 0 /\ dynamic = 0
    /\ stage = "given" /\ hunk = 0
    /\ shown = <<>>
    /\ asked = [side |-> "right", start |-> 0, end |-> 0] /\ selected = <<>>

-----------------------------------------------------------------------------
(* extend_patch and process_patch_lines *)

\* Lines first to last of a file, as far as there are any.
Slice(file, first, last) ==
    SubSeq(file, Max({1, first}), Min({last, Len(file)}))

ContextLines(lines) == [k \in DOMAIN lines |-> [tag |-> " ", line |-> lines[k]]]

\* check_if_hunk_lines_matches_to_file
Matches(h) ==
    h.lines[1].tag = " " /\ h.start1 \in DOMAIN base_file => base_file[h.start1] = h.lines[1].line

\* Faulty variant: the file has lines before its first.
FromBelow(start, n) == start - n

\* The first line when n lines are added in front.
From(start, n) == Max({1, start - n})

\* _calc_context_limits
Limits(h, n) ==
    LET s1 == From(h.start1, n)
        s2 == From(h.start2, n)
        z1 == h.size1 + (h.start1 - s1) + after
        z2 == h.size2 + (h.start2 - s2) + after
        over == Max({0, s1 - 1 + z1 - Len(base_file)})
    IN [start1 |-> s1, size1 |-> IF over > 0 THEN Max({z1 - over, h.size1}) ELSE z1,
        start2 |-> s2, size2 |-> IF over > 0 THEN Max({z2 - over, h.size2}) ELSE z2]

\* Without the first n of the lines added in front.
Later(l, n) ==
    [start1 |-> l.start1 + n, size1 |-> l.size1 - n,
     start2 |-> l.start2 + n, size2 |-> l.size2 - n]

\* An empty section header is found in every line.
Names(section, line) == section \in {0, line}

OldBefore(h, l) == Slice(base_file, l.start1, h.start1 - 1)
NewBefore(h, l) == Slice(head_file, l.start2, h.start2 - 1)

\* Number of lines in front of the first line of the function, if it is in reach and
\* the lines from there on are the same in both files; else the empty set.
Enclosing(h) ==
    LET far == Limits(h, dynamic)
        old == OldBefore(h, far)
        hits == {i \in DOMAIN old : Names(h.section, old[i])}
        i == Min(hits)
    IN IF dynamic = 0 \/ head_file = <<>> \/ hits = {} THEN {}
       ELSE IF Slice(old, i, Len(old)) = Slice(NewBefore(h, far), i, MaxLines + 1)
            THEN {i - 1} ELSE {}

\* Faulty variant: the lines in front are not compared.
AlignedAlways(h, l) == {l}

\* The limits l, less the first lines in front that differ between the files; none
\* when no line in front is left, or there are more of them in one file.
Aligned(h, l) ==
    LET old == OldBefore(h, l)
        new == NewBefore(h, l)
        same == {i \in 1..Len(old) : Slice(old, i, Len(old)) = Slice(new, i, MaxLines + 1)}
    IN IF head_file = <<>> \/ old = new THEN {l}
       ELSE IF same # {} THEN {Later(l, Min(same) - 1)} ELSE {}

\* The lines that follow the hunk in the old file, whatever was done before it.
Following(h) ==
    ContextLines(Slice(base_file, h.start1 + h.size1, h.start1 + h.size1 + after - 1))

\* With the lines back to the function when they are in reach, or as many as configured.
Wanted(h) ==
    LET enclosing == Enclosing(h)
    IN IF enclosing # {} THEN {Later(Limits(h, dynamic), n) : n \in enclosing}
                         ELSE {Limits(h, before)}

\* A section header that is among the lines in front is not repeated.
Section(h, added) ==
    IF Enclosing(h) # {} \/ (dynamic = 0 /\ \E k \in DOMAIN added : added[k] = h.section)
    THEN 0 ELSE h.section

ExtendedTo(h, l) ==
    LET added == OldBefore(h, l)
    IN [start1 |-> l.start1, size1 |-> l.size1, start2 |-> l.start2, size2 |-> l.size2,
        section |-> Section(h, added),
        lines |-> ContextLines(added) \o h.lines \o Following(h)]

Extend ==
    /\ stage = "given" /\ patch # <<>>
    /\ before' \in Befores /\ after' \in Afters /\ dynamic' \in Dynamics
    /\ base_file' = base_file \/ (base_file # <<>> /\ base_file' = <<0>> \o base_file)
    /\ IF (before' = 0 /\ after' = 0) \/ base_file' = <<>>
       THEN stage' = "extended" /\ hunk' = 0
       ELSE stage' = "extending" /\ hunk' = 1
    /\ UNCHANGED <<change, patch, shown, asked, selected>>

\* The next hunk is reached.  Where no line in front is the same in both files, it
\* keeps its header.
ExtendHunk ==
    /\ stage = "extending"
    /\ LET h == patch[hunk] IN
       IF ~Matches(h) THEN UNCHANGED patch
       ELSE \E wanted \in Wanted(h) : \E aligned \in {Aligned(h, wanted)} :
              \E l \in IF aligned # {} THEN aligned ELSE {h} :
                patch' = [patch EXCEPT ![hunk] = ExtendedTo(h, l)]
    /\ IF hunk = Len(patch) THEN stage' = "extended" /\ hunk' = 0
                           ELSE stage' = stage /\ hunk' = hunk + 1
    /\ UNCHANGED <<change, settings, shown, asked, selected>>

-----------------------------------------------------------------------------
(* handle_patch_deletions, omit_deletion_hunks *)

Has(h, tag) == \E k \in DOMAIN h.lines : h.lines[k].tag = tag

\* A hunk that only deletes is held until one comes that adds, and stays in front of
\* it: what goes are those after the last hunk that adds lines.
Pruned(hunks) ==
    SubSeq(hunks, 1, Max({0} \cup {k \in DOMAIN hunks : Has(hunks[k], "+")}))

\* The patch of a file that is empty now is not shown at all.
Prune ==
    /\ stage = "given" /\ patch # <<>>
    /\ patch' = IF head_file = <<>> THEN <<>> ELSE Pruned(patch)
    /\ stage' = "pruned"
    /\ UNCHANGED <<change, settings, hunk, shown, asked, selected>>

-----------------------------------------------------------------------------
(* decouple_and_convert_to_hunks_with_lines_numbers *)

Tagged(h, tags) ==
    LET places == InOrder({k \in DOMAIN h.lines : h.lines[k].tag \in tags})
    IN [k \in DOMAIN places |-> h.lines[places[k]]]

\* Faulty variant: deleted lines are counted too.
NumberedAll(h) == [k \in DOMAIN h.lines |-> [number |-> h.start2 + k - 1, text |-> h.lines[k]]]

Numbered(h) ==
    LET new == Tagged(h, New)
    IN [k \in DOMAIN new |-> [number |-> h.start2 + k - 1, text |-> new[k]]]

Changes(h) == Has(h, "+") \/ Has(h, "-")

\* The last hunk is shown only when it has lines of the new file.
ShownHunks ==
    InOrder({k \in DOMAIN patch : /\ Changes(patch[k])
                                  /\ k = Len(patch) => Tagged(patch[k], New) # <<>>})

Shown ==
    [i \in DOMAIN ShownHunks |->
        LET h == patch[ShownHunks[i]]
        IN [new |-> Numbered(h), old |-> IF Has(h, "-") THEN Tagged(h, Old) ELSE <<>>]]

\* A negative size, which RE_HUNK_HEADER does not match: the conversion raises.  It
\* takes a file that was emptied but not deleted.
Unreadable(h) == h.size1 < 0 \/ h.size2 < 0

Convert ==
    /\ stage \in {"extended", "pruned"}
    /\ IF \E k \in DOMAIN patch : Unreadable(patch[k])
       THEN stage' = "raised" /\ UNCHANGED shown
       ELSE stage' = "shown" /\ shown' = Shown
    /\ UNCHANGED <<change, patch, settings, hunk, asked, selected>>

-----------------------------------------------------------------------------
(* extract_hunk_lines_from_patch, for /ask on lines *)

\* Faulty variant: the line number is compared with the old file's.
InReachOld(h, q) == h.start1 <= q.start /\ q.start <= h.start1 + h.size1

\* Whether the hunk is looked at, one line beyond its end included.
InReach(h, q) ==
    IF q.side = "left" THEN h.start1 <= q.start /\ q.start <= h.start1 + h.size1
                       ELSE h.start2 <= q.start /\ q.start <= h.start2 + h.size2

\* How many lines of a file are in front of line k of a hunk.
InFront(h, tags, k) == Cardinality({j \in 1..k - 1 : h.lines[j].tag \in tags})

\* Deleted lines are not counted, on either side; on the left the first line of the
\* question is not looked at.
Answers(h, q, k) ==
    LET n == InFront(h, New, k)
    IN IF q.side = "left" THEN h.start1 + n <= q.end
                          ELSE q.start <= h.start2 + n /\ h.start2 + n <= q.end

SelectedIn(h, q) ==
    LET chosen == InOrder({k \in DOMAIN h.lines : Answers(h, q, k)})
    IN IF InReach(h, q) THEN [k \in DOMAIN chosen |-> h.lines[chosen[k]]] ELSE <<>>

\* A question may be about any lines, those that the diff does not show included.
Ask ==
    /\ stage = "given"
    /\ asked' \in Questions
    /\ selected' = [i \in DOMAIN patch |-> SelectedIn(patch[i], asked')]
    /\ stage' = "asked"
    /\ UNCHANGED <<change, patch, settings, hunk, shown>>

Next == Extend \/ ExtendHunk \/ Prune \/ Convert \/ Ask

Spec == Init /\ [][Next]_vars

-----------------------------------------------------------------------------
(* Properties *)

Hunks == [start1 : Nat, size1 : Int, start2 : Nat, size2 : Int, section : 0..MaxLines,
          lines : Seq([tag : {" ", "+", "-"}, line : 0..MaxLines])]

TypeOK ==
    /\ script \in Seq({" ", "+", "-"}) /\ func \in 0..MaxLines
    /\ base_file \in Seq(0..MaxLines) /\ head_file \in Seq(1..MaxLines)
    /\ patch \in Seq(Hunks)
    /\ before \in Befores \cup {0} /\ after \in Afters \cup {0}
    /\ dynamic \in Dynamics \cup {0}
    /\ hunk \in 0..MaxLines
    /\ stage \in {"given", "extending", "extended", "pruned", "shown", "raised", "asked"}
    /\ shown \in Seq([new : Seq([number : Nat, text : [tag : {" ", "+"}, line : 0..MaxLines]]),
                      old : Seq([tag : {" ", "-"}, line : 0..MaxLines])])
    /\ asked \in [side : {"left", "right"}, start : Nat, end : Nat]
    /\ selected \in Seq(Seq([tag : {" ", "+", "-"}, line : 0..MaxLines]))

\* A line has a number in a file.
IsAt(file, number, line) == number \in DOMAIN file /\ file[number] = line

\* The files have the lines of the hunk where its header says.
Faithful(h, file) ==
    \A k \in DOMAIN h.lines :
        LET x == h.lines[k]
        IN /\ x.tag \in Old => IsAt(file, h.start1 + InFront(h, Old, k), x.line)
           /\ x.tag \in New => IsAt(head_file, h.start2 + InFront(h, New, k), x.line)

\* Size 1 is left out of one of the headers.
SizeLeftOut(h) == h.size1 = 0 \/ h.size2 = 0

\* A hunk that was extended is still a hunk of a diff between the two files, also
\* where an earlier change moved the lines in front of it; and it is left alone
\* when the old file that was read does not match.  Not so when the next hunk may
\* be among the lines that follow, nor when a file has a single line.
ExtendedIsFaithful ==
    stage = "extended" /\ after <= Context + 1 =>
        LET file == OldFile
            given == GitPatch
        IN \A k \in DOMAIN patch :
             ~SizeLeftOut(given[k]) /\ (base_file # file => given[k].lines[1].tag = " ")
                 => Faithful(patch[k], file)

\* Every added line is shown to the model, once and under its number in the new
\* file, whether the patch was extended or lost its deletions.
AdditionsAreNumbered ==
    stage = "shown" /\ head_file # <<>> =>
        \A k \in Lines : script[k] = "+" =>
            \E i \in DOMAIN shown : \E p \in DOMAIN shown[i].new :
                /\ IsAt(head_file, shown[i].new[p].number, k)
                /\ \A i2 \in DOMAIN shown : \A p2 \in DOMAIN shown[i2].new :
                       shown[i2].new[p2].text = [tag |-> "+", line |-> k]
                           <=> i2 = i /\ p2 = p

\* A question about lines of the new file is given those lines: no other line of the
\* new file, and all of them that are in the hunk where the question begins.
SelectedIsAsked ==
    stage = "asked" /\ asked.side = "right" =>
        \A i \in DOMAIN patch :
            LET got == {selected[i][p] : p \in DOMAIN selected[i]}
                new == {k \in DOMAIN patch[i].lines : patch[i].lines[k].tag \in New}
                wanted == {head_file[n] : n \in (asked.start..asked.end) \cap DOMAIN head_file}
            IN /\ \A x \in got : x.tag \in New => x.line \in wanted
               /\ asked.start \in patch[i].start2..patch[i].start2 + Cardinality(new) - 1 =>
                      \A k \in new : patch[i].lines[k].line \in wanted => patch[i].lines[k] \in got

=============================================================================
