--------------------------- MODULE PromptPacking ---------------------------
(***************************************************************************)
(* How the files of a pull request are packed into prompts                 *)
(* (garda/algo/pr_processing.py).  One behaviour is one call of            *)
(*                                                                         *)
(*   "single"  get_pr_diff, one prompt, the rest listed by name            *)
(*   "large"   get_pr_diff with large_pr_handling and, when more than one  *)
(*             prompt is needed, get_pr_diff_multiple_patchs, which packs  *)
(*             the same files the same way (describe)                      *)
(*   "multi"   get_pr_multi_diffs, several prompts (improve)               *)
(*                                                                         *)
(* and one step is one turn of one of their loops over the files.  A patch *)
(* is its number of tokens; what the two thresholds compare is kept.       *)
(***************************************************************************)
EXTENDS Integers, Sequences, FiniteSets

CONSTANTS NumFiles,    \* files of the pull request, numbered in packing order
          Sizes,       \* tokens a patch may have, without deletions
          ExtraLines,  \* tokens the extra context lines add to a patch
          Header,      \* tokens "## File: ..." adds to a packed patch
          PromptSizes, \* tokens the prompt itself may have
          MaxTokens,   \* get_max_tokens(model)
          Delta,       \* delta_tokens
          Soft, Hard,  \* OUTPUT_BUFFER_TOKENS_SOFT_ and _HARD_THRESHOLD
          Excess,      \* tokens a text may be over its room after clip_tokens
          MaxCalls     \* max_ai_calls - 1, and max_number_of_calls

ASSUME PromptPackingAssumption ==
    /\ NumFiles \in Nat /\ Sizes \subseteq Nat \ {0} /\ PromptSizes \subseteq Nat
    /\ ExtraLines \in Nat /\ Header \in Nat /\ Delta \in Nat
    /\ MaxTokens \in Nat /\ Soft \in Nat /\ Hard \in Nat /\ Hard <= Soft
    /\ Excess \in Nat /\ MaxCalls \in Nat \ {0}

Files == 1..NumFiles

\* The places of a file, after handle_patch_deletions: a patch to pack; one left
\* empty (only deletions); None (the file is deleted); or no patch to begin with.
Kinds == {"added", "modified", "emptied", "deleted", "nopatch"}

Modes == {"single", "large", "multi"}
Policies == {"skip", "clip"}

VARIABLES mode, policy, prompt, \* the call, large_patch_policy, prompt_tokens
          numbered,  \* add_line_numbers_to_hunks
          file,      \* file[f]: its kind and size
          at,        \* the loop the call is in
          i,         \* the file that loop looks at next
          total,     \* total_tokens
          left,      \* remaining_files_list the pass started with
          skipped,   \* remaining_files_list_new of the pass
          chunk,     \* patches of the prompt being filled
          chunks,    \* the finished prompts, each a set of files
          totals,    \* their token counts
          passes,    \* passes of generate_full_patch so far
          listed     \* files named in the lists below the diff

vars == <<mode, policy, prompt, numbered, file, at, i, total, left, skipped, chunk, chunks, totals, passes, listed>>

call == <<mode, policy, prompt, numbered, file>>

TypeOK ==
    /\ mode \in Modes /\ policy \in Policies /\ prompt \in PromptSizes
    /\ numbered \in BOOLEAN
    /\ file \in [Files -> [kind : Kinds, size : Sizes]]
    /\ at \in {"extend", "pack", "multi", "lists", "done"}
    /\ i \in 1..NumFiles + 1
    /\ total \in Nat
    /\ {left, skipped, chunk, listed} \subseteq SUBSET Files
    /\ chunks \in Seq(SUBSET Files) /\ totals \in Seq(Nat)
    /\ passes \in 0..MaxCalls

-----------------------------------------------------------------------------

SoftLimit == MaxTokens - Soft
HardLimit == MaxTokens - Hard

HasPatch(f) == file[f].kind # "nopatch"

\* The keys of file_dict.
InFileDict(f) == file[f].kind \in {"added", "modified", "emptied"}

\* The tokens of the patch in file_dict.  With line numbers the patch begins with
\* the header, even one that has nothing else.
Tokens(f) ==
    IF file[f].kind # "emptied" THEN file[f].size
    ELSE IF numbered THEN Header ELSE 0

\* The tokens the header adds when the patch is packed.
Overhead == IF numbered THEN 0 ELSE Header

Init ==
    /\ mode \in Modes /\ policy \in Policies /\ prompt \in PromptSizes
    /\ numbered \in BOOLEAN
    /\ mode # "multi" => policy = "skip"   \* not read there
    /\ file \in [Files -> [kind : Kinds, size : Sizes]]
    /\ at = "extend"
    /\ i = 1
    /\ total = prompt
    /\ left = Files /\ skipped = {}
    /\ chunk = {} /\ chunks = <<>> /\ totals = <<>>
    /\ passes = 0
    /\ listed = {}

\* pr_generate_extended_diff: one file, extended with context lines.
Extend ==
    /\ at = "extend"
    /\ i <= NumFiles
    /\ i' = i + 1
    /\ IF HasPatch(i)
       THEN /\ total' = total + file[i].size + ExtraLines
            /\ chunk' = chunk \cup {i}
       ELSE UNCHANGED <<total, chunk>>
    /\ UNCHANGED <<call, at, left, skipped, chunks, totals, passes, listed>>

\* All files extended.  Under the limit the whole diff is the answer (no prompt
\* at all for an empty one in get_pr_multi_diffs); over it, packing begins from
\* the compressed patches.
EndExtend ==
    /\ at = "extend"
    /\ i = NumFiles + 1
    /\ IF total + Soft < MaxTokens
       THEN /\ at' = "done"
            /\ chunks' = IF mode = "multi" /\ chunk = {} THEN <<>> ELSE <<chunk>>
            /\ totals' = IF mode = "multi" /\ chunk = {} THEN <<>> ELSE <<total>>
            /\ UNCHANGED <<i, total, chunk>>
       ELSE /\ at' = IF mode = "multi" THEN "multi" ELSE "pack"
            /\ i' = 1 /\ total' = prompt /\ chunk' = {}
            /\ UNCHANGED <<chunks, totals>>
    /\ UNCHANGED <<call, left, skipped, passes, listed>>

-----------------------------------------------------------------------------
(* generate_full_patch, a pass over file_dict *)

\* Faulty variant: the check of the soft limit leaves the file's own tokens out.
FitsLate(f) == total <= SoftLimit

\* The prompt with the file's patch stays within the soft limit.
Fits(f) == total + Tokens(f) <= SoftLimit

\* Faulty variant: the hard stop at the soft limit.
HardStopEarly == total > SoftLimit

\* "Hard Stop, no more tokens"
HardStop == total > HardLimit

\* One file of the pass: not in file_dict or packed by an earlier pass; passed
\* over by the hard stop; too large for what is left of this prompt; packed; or
\* nothing to pack.
Pack ==
    /\ at = "pack"
    /\ i <= NumFiles
    /\ i' = i + 1
    /\ \/ /\ ~InFileDict(i) \/ i \notin left
          /\ UNCHANGED <<total, chunk, skipped>>
       \/ /\ InFileDict(i) /\ i \in left
          /\ HardStop
          /\ UNCHANGED <<total, chunk, skipped>>
       \/ /\ InFileDict(i) /\ i \in left
          /\ ~HardStop /\ ~Fits(i)
          /\ skipped' = skipped \cup {i}
          /\ UNCHANGED <<total, chunk>>
       \/ /\ InFileDict(i) /\ i \in left
          /\ ~HardStop /\ Fits(i)
          /\ IF Tokens(i) = 0 THEN UNCHANGED <<total, chunk>>
             ELSE /\ chunk' = chunk \cup {i}
                  /\ total' = total + Tokens(i) + Overhead
          /\ UNCHANGED skipped
    /\ UNCHANGED <<call, at, left, chunks, totals, passes, listed>>

\* Faulty variant: every pass starts from all files again.
RemainingAll == Files

\* The remaining_files_list the next pass starts from.
Remaining == skipped

\* Faulty variants: the passes are not counted, or one too many is allowed.
MorePassesUncounted == mode = "large" /\ Remaining # {}
MorePassesOffByOne == mode = "large" /\ Remaining # {} /\ passes < MaxCalls

\* range(NUMBER_OF_ALLOWED_ITERATIONS-1) after the first pass.
MorePasses ==
    /\ mode = "large"
    /\ Remaining # {}
    /\ passes + 1 < MaxCalls

\* Faulty variant: the count goes on from the previous pass.
FreshTotalKept == total

\* Each pass starts counting from the prompt.
FreshTotal == prompt

\* The end of a pass.  The first prompt is kept even when it is empty.
EndPass ==
    /\ at = "pack"
    /\ i = NumFiles + 1
    /\ IF passes = 0 \/ chunk # {}
       THEN chunks' = Append(chunks, chunk) /\ totals' = Append(totals, total)
       ELSE UNCHANGED <<chunks, totals>>
    /\ passes' = passes + 1
    /\ left' = Remaining
    /\ IF MorePasses
       THEN at' = "pack" /\ i' = 1 /\ total' = FreshTotal /\ chunk' = {} /\ skipped' = {}
       ELSE /\ at' = IF Len(chunks') > 1 THEN "done" ELSE "lists"
            /\ UNCHANGED <<i, total, chunk, skipped>>
    /\ UNCHANGED <<call, listed>>

-----------------------------------------------------------------------------
(* The lists of files below the diff, get_pr_diff *)

\* A list below the diff: the names it shows and the tokens it has.  A whole list
\* has one token per name and one for its title.
Nothing == [names |-> {}, tokens |-> 0]
Whole(S) == IF S = {} THEN Nothing ELSE [names |-> S, tokens |-> Cardinality(S) + 1]

\* What clip_tokens leaves of the list of S.  All of it when it fits into room.
\* Else a first part, measured by its characters, with a mark at its end that is
\* not counted, so that it may exceed the room (in a part without names the title
\* is cut); nothing when there is no room; or, when the encoder refuses the text,
\* all of it.
Clipped(S, room) ==
    IF S = {} \/ Whole(S).tokens <= room THEN {Whole(S)}
    ELSE {Nothing} \cup
         {l \in [names : SUBSET S, tokens : 1..room + Excess] :
            \/ l = Whole(S)
            \/ /\ room > 0 /\ l.names # S
               /\ Cardinality(l.names) < l.tokens
               /\ \A f \in l.names, g \in S : g < f => g \in l.names}

\* What a list adds to the count.
Cost(l) == IF l.tokens = 0 THEN 0 ELSE l.tokens + 2

\* The names to list, of the kinds K, none when Delta tokens or less are left.
Unpacked(K) ==
    IF HardLimit - totals[1] > Delta
    THEN {f \in Files : InFileDict(f) /\ f \notin chunks[1] /\ file[f].kind \in K}
    ELSE {}

\* Faulty variant: the first list is not counted before the second is clipped.
RoomAfterUncounted(added) == HardLimit - totals[1]

\* max_tokens - curr_token once the added files are listed
RoomAfter(added) == HardLimit - totals[1] - Cost(added)

\* The added and then the modified files the prompt has no room for.  (A deleted
\* file is not in file_dict, so the third list of the code is always empty.)
Lists ==
    /\ at = "lists"
    /\ \E added \in Clipped(Unpacked({"added"}), HardLimit - totals[1]) :
       \E modified \in Clipped(Unpacked({"modified", "emptied"}), RoomAfter(added)) :
            /\ listed' = added.names \cup modified.names
            /\ total' = totals[1] + Cost(added) + Cost(modified)
    /\ at' = "done"
    /\ UNCHANGED <<call, i, left, skipped, chunk, chunks, totals, passes>>

-----------------------------------------------------------------------------
(* get_pr_multi_diffs *)

\* The patch as it is packed: whole, clipped to some size that fits the limit
\* alone, or not at all (0).  Clipping aims at the limit but counts characters,
\* so the outcome may still be too large, and the file is then skipped.
MultiSizes(f) ==
    LET n == Tokens(f) + Overhead IN
    IF ~InFileDict(f) THEN {0}
    ELSE IF prompt + n <= SoftLimit THEN {n}
    ELSE IF policy = "skip" THEN {0}
    ELSE {k \in 0..n : k = 0 \/ prompt + k <= SoftLimit}

\* The limit of calls reached by closing the prompt being filled.
StopMulti == Len(chunks) + 1 = MaxCalls

\* Faulty variant: the file that closes a prompt is left out of the next.
OpenedEmpty(f) == {}

\* The next prompt begins with the file that did not fit into the last.
Opened(f) == {f}

\* One file: it joins the prompt being filled, or closes it and starts the next.
\* When that would be one prompt too many, the loop ends without a word.
Multi ==
    /\ at = "multi"
    /\ i <= NumFiles
    /\ \E n \in MultiSizes(i) :
        \/ /\ n = 0
           /\ i' = i + 1
           /\ UNCHANGED <<at, total, chunk, chunks, totals>>
        \/ /\ n # 0 /\ total + n <= SoftLimit
           /\ i' = i + 1
           /\ chunk' = chunk \cup {i}
           /\ total' = total + n
           /\ UNCHANGED <<at, chunks, totals>>
        \/ /\ n # 0 /\ total + n > SoftLimit
           /\ chunks' = Append(chunks, chunk)
           /\ totals' = Append(totals, total)
           /\ IF StopMulti
              THEN /\ at' = "done" /\ i' = NumFiles + 1
                   /\ chunk' = {} /\ total' = prompt
              ELSE /\ i' = i + 1
                   /\ chunk' = Opened(i) /\ total' = prompt + n
                   /\ UNCHANGED at
    /\ UNCHANGED <<call, left, skipped, passes, listed>>

\* "Add the last chunk"
EndMulti ==
    /\ at = "multi"
    /\ i = NumFiles + 1
    /\ at' = "done"
    /\ IF chunk # {}
       THEN chunks' = Append(chunks, chunk) /\ totals' = Append(totals, total)
       ELSE UNCHANGED <<chunks, totals>>
    /\ UNCHANGED <<call, i, total, left, skipped, chunk, passes, listed>>

Next == Extend \/ EndExtend \/ Pack \/ EndPass \/ Lists \/ Multi \/ EndMulti

Spec == Init /\ [][Next]_vars

-----------------------------------------------------------------------------
(* Properties *)

\* A finished prompt leaves the soft threshold for the answer, up to the header
\* of the file packed last.  A clipped list is appended without a check and may
\* exceed its room, but the next one is clipped to what is left after it: the lists
\* together exceed the hard limit by what one clip may, never by the sum.  (A
\* prompt that is past the soft limit without files is excepted.)
BudgetKept ==
    prompt <= SoftLimit =>
        /\ \A k \in 1..Len(totals) : totals[k] <= SoftLimit + Header
        /\ at = "done" /\ mode # "multi" => total <= HardLimit + Excess + 2

\* The number of prompts, and so of calls to the model, is bounded, none but the
\* first is sent without a file, and no file is sent twice.
CallsBounded ==
    /\ Len(chunks) <= MaxCalls
    /\ \A k \in 2..Len(chunks) : chunks[k] # {}
    /\ \A j, k \in 1..Len(chunks) : j # k => chunks[j] \cap chunks[k] = {}

\* A file passed over although there are calls left would not fit into a prompt
\* of its own: the passes never give up on a file that can be packed.
LeftoverTooLarge ==
    at = "done" /\ mode = "large" /\ passes > 0 /\ Len(chunks) < MaxCalls =>
        \A f \in left : prompt + Tokens(f) > SoftLimit

\* The file is too large for a prompt of its own.
TooLargeAlone(f) == prompt + Tokens(f) + Overhead > SoftLimit

\* No file with something to show falls between two prompts or two passes.  With
\* one prompt or passes, it is packed or one of the remaining files; the hard stop,
\* which reports to nobody, is only for a prompt that is past the hard limit
\* without any file (or a header above Soft - Hard).  With several prompts, a file
\* is missing only if it is too large, or if all calls are used and no file after
\* it got into one of them.
EveryFileAccountedFor ==
    at = "done" /\ prompt <= HardLimit /\ Header <= Soft - Hard =>
        \A f \in Files : InFileDict(f) /\ Tokens(f) > 0 =>
            \/ \E k \in 1..Len(chunks) : f \in chunks[k]
            \/ mode # "multi" /\ f \in left
            \/ mode = "multi" /\ TooLargeAlone(f)
            \/ /\ mode = "multi" /\ Len(chunks) = MaxCalls
               /\ \A k \in 1..Len(chunks) : \A g \in chunks[k] : g < f

\* compression_strategy.md: "If we haven't reached the max token length, add the
\* `deleted files` to the prompt".
DeletedFilesListed ==
    at = "done" /\ mode = "single" /\ passes > 0 =>
        \A f \in Files : file[f].kind = "deleted" =>
            f \in listed \/ total + Cost(Whole({f})) > HardLimit

=============================================================================
