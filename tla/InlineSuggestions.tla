------------------------- MODULE InlineSuggestions -------------------------
(***************************************************************************)
(* How committable suggestions become review comments on GitHub:           *)
(* push_inline_code_suggestions (garda/tools/pr_code_suggestions.py) and   *)
(* publish_code_suggestions with what it calls                             *)
(* (garda/git_providers/github_provider.py).  A review is accepted or      *)
(* rejected as a whole, so rejected comments are looked for one by one.    *)
(* One step is one call of the GitHub API.                                 *)
(***************************************************************************)
EXTENDS Integers, Sequences

CONSTANTS NumSuggestions,
          Starts, Lengths, \* where a suggestion may begin, and its last line - first
          HunkSets,        \* the hunks the file may have, numbered from 1
          Near,            \* distance to a hunk below which a suggestion is moved
          FaultSets        \* what the API calls of one behaviour may meet

\* An exception of the connection, or an answer other than 422, before the server
\* has done what was asked ("unsent") or after it ("unanswered").
AllFaults == {"unsent", "unanswered"}

ASSUME InlineSuggestionsAssumption ==
    /\ NumSuggestions \in Nat /\ Near \in Nat
    /\ Starts \subseteq Nat /\ Lengths \subseteq Nat
    /\ HunkSets \subseteq Seq([start : Nat, size : Nat])
    /\ FaultSets \subseteq SUBSET AllFaults

Suggestions == 1..NumSuggestions

VARIABLES lines,    \* lines[s]: relevant_lines_start and _end; start 0 is no line
          hunks,    \* the hunks of the patch: first new line, number of new lines
          tryFix,   \* try_fix_invalid_inline_comments
          faults,
          pc,
          whole,    \* in the call with all suggestions, the first one
          batch,    \* the suggestions of this call of publish_code_suggestions
          separate, \* the calls that are left once they are published one by one
          unchecked, verified, \* of the comments being verified
          fixes,    \* fixed_comments_as_one_liner that are left
          pending,  \* a pending review is left on the server
          posted,   \* posted[s]: times the comment of s was published
          oneLine   \* oneLine[s]: times the one-line comment of s was published

vars == <<lines, hunks, tryFix, faults, pc, whole, batch, separate, unchecked, verified,
          fixes, pending, posted, oneLine>>

given == <<lines, hunks, tryFix, faults>>

TypeOK ==
    /\ lines \in [Suggestions -> [start : Nat, end : Nat]]
    /\ hunks \in HunkSets /\ tryFix \in BOOLEAN /\ faults \in FaultSets
    /\ pc \in {"review", "verify", "unverify", "group", "fix", "done"}
    /\ whole \in BOOLEAN /\ batch \subseteq Suggestions /\ separate \subseteq Suggestions
    /\ unchecked \subseteq batch /\ verified \subseteq batch /\ fixes \subseteq batch
    /\ pending \in BOOLEAN
    /\ posted \in [Suggestions -> 0..2] /\ oneLine \in [Suggestions -> 0..2]

Init ==
    /\ lines \in [Suggestions -> {[start |-> a, end |-> a + n] : a \in Starts, n \in Lengths}]
    /\ hunks \in HunkSets /\ tryFix \in BOOLEAN /\ faults \in FaultSets
    /\ pc = "review"
    /\ whole = TRUE /\ batch = Suggestions /\ separate = {}
    /\ unchecked = {} /\ verified = {} /\ fixes = {}
    /\ pending = FALSE
    /\ posted = [s \in Suggestions |-> 0] /\ oneLine = [s \in Suggestions |-> 0]

-----------------------------------------------------------------------------
(* validate_comments_inside_hunks *)

\* Faulty variant: the line below the hunk is taken for its last.
ParsedLong(h) == [start |-> h.start, end |-> h.start + h.size]

\* patches_range.  A patch leaves out the size of a hunk with one new line, and
\* extract_hunk_headers reads a size that is left out as 0.
Parsed(h) == [start |-> h.start, end |-> h.start + (IF h.size = 1 THEN 0 ELSE h.size) - 1]

Ranges == [k \in DOMAIN hunks |-> Parsed(hunks[k])]

Larger(a, b) == IF a < b THEN b ELSE a
Smaller(a, b) == IF a < b THEN a ELSE b

Inside(r, h) == h.start <= r.start /\ r.end <= h.end

\* "comment is possibly inside the hunk", and by how much it is not
Before(r, h) == r.start - h.start
After(r, h) == h.end - r.end
Reaches(r, h) == Before(r, h) * After(r, h) <= 0
Distance(r, h) == Larger(-Smaller(0, Before(r, h)), -Smaller(0, After(r, h)))

\* The first of the closest hunks the range r reaches, if one is near enough.
Closest(r, hs) ==
    {k \in DOMAIN hs :
        /\ Reaches(r, hs[k]) /\ Distance(r, hs[k]) < Near
        /\ \A j \in DOMAIN hs : Reaches(r, hs[j]) =>
             /\ Distance(r, hs[k]) <= Distance(r, hs[j])
             /\ j < k => Distance(r, hs[k]) < Distance(r, hs[j])}

\* Faulty variant: the last line is left where it was.
CutStartOnly(r, h) == [start |-> Larger(r.start, h.start), end |-> r.end]

\* The part of r inside the hunk (with end < start when there is none).
Cut(r, h) == [start |-> Larger(r.start, h.start), end |-> Smaller(r.end, h.end)]

Stays(r, hs) ==
    r.start = 0 \/ r.end = 0 \/ (\E k \in DOMAIN hs : Inside(r, hs[k])) \/ Closest(r, hs) = {}

Moved(r, hs) == IF Stays(r, hs) THEN r ELSE Cut(r, hs[CHOOSE k \in Closest(r, hs) : TRUE])

-----------------------------------------------------------------------------
(* The comments, and what the server makes of them *)

Place(s) == Moved(lines[s], Ranges)

\* Suggestions of S that have lines to comment on.
Comments(S) == {s \in S : Place(s).start # 0 /\ Place(s).start <= Place(s).end}

\* The server takes a comment whose lines are all in one hunk.
InDiff(r) == \E k \in DOMAIN hunks :
    Inside(r, [start |-> hunks[k].start, end |-> hunks[k].start + hunks[k].size - 1])
Accepted(s) == InDiff(Place(s))

\* A comment on the first line only.
AcceptedOneLine(s) == InDiff([start |-> Place(s).start, end |-> Place(s).start])

\* A comment that _try_fix_invalid_inline_comments can change: it has a committable
\* part or several lines.
Fixable(s) == Place(s) = lines[s] \/ Place(s).start < Place(s).end

\* A user has one pending review at most, and an empty review is rejected.
TakesReview(S) == ~pending /\ S # {} /\ \A s \in S : Accepted(s)

Results == {"ok"} \cup faults
Done(res) == res # "unsent"

\* The call for the first suggestion of S, and the rest left.
CallFor(S) ==
    IF S = {}
    THEN pc' = "done" /\ UNCHANGED <<batch, separate>>
    ELSE \E s \in S :
           /\ \A q \in S : s <= q
           /\ pc' = "review" /\ batch' = {s} /\ separate' = S \ {s}

\* publish_code_suggestions returned True, or was a separate call.
NextCall == CallFor(separate) /\ UNCHANGED whole

\* Faulty variant: a separate call that fails starts them all over again.
SeparatelyAgain == CallFor(Suggestions) /\ whole' = FALSE

\* It returned False: after the first call each suggestion is tried on its own.
Separately == IF whole THEN CallFor(Suggestions) /\ whole' = FALSE ELSE NextCall

Plus(count, S) == [s \in Suggestions |-> IF s \in S THEN count[s] + 1 ELSE count[s]]

\* The server answered 422.
Rejected(res, S) == res = "ok" /\ ~TakesReview(S)

\* All comments in a single review.
Review ==
    /\ pc = "review"
    /\ LET S == Comments(batch) IN
       \E res \in Results :
         /\ posted' = IF Done(res) /\ TakesReview(S) THEN Plus(posted, S) ELSE posted
         /\ IF Rejected(res, S)
            THEN /\ pc' = "verify" /\ unchecked' = S /\ verified' = {}
                 /\ UNCHANGED <<whole, batch, separate>>
            ELSE /\ IF res = "ok" THEN NextCall ELSE Separately
                 /\ unchecked' = {} /\ verified' = {}
    /\ fixes' = {}
    /\ UNCHANGED <<given, pending, oneLine>>

\* _verify_code_comment: a pending review of this comment alone
Verify ==
    /\ pc = "verify"
    /\ \/ /\ unchecked = {}
          /\ pc' = "group"
          /\ UNCHANGED <<unchecked, pending>>
       \/ \E s \in unchecked, res \in Results :
            /\ \A q \in unchecked : s <= q
            /\ pending' = (pending \/ (Done(res) /\ Accepted(s)))
            /\ IF res = "ok" /\ TakesReview({s})
               THEN pc' = "unverify" /\ UNCHANGED unchecked
               ELSE pc' = "verify" /\ unchecked' = unchecked \ {s}
    /\ UNCHANGED <<given, whole, batch, separate, verified, fixes, posted, oneLine>>

\* Faulty variant: the pending review is not deleted.
AfterDeleteKept(res) == pending

\* What its deletion leaves, which nobody looks at.
AfterDelete(res) == pending /\ ~Done(res)

Unverify ==
    /\ pc = "unverify"
    /\ \E s \in unchecked, res \in Results :
         /\ \A q \in unchecked : s <= q
         /\ pending' = AfterDelete(res)
         /\ verified' = verified \cup {s}
         /\ unchecked' = unchecked \ {s}
    /\ pc' = "verify"
    /\ UNCHANGED <<given, whole, batch, separate, fixes, posted, oneLine>>

\* Faulty variants: every comment is tried on its first line; the wrong list is.
ToFixAll == {s \in Comments(batch) : Fixable(s)}
ToFixVerified == {s \in verified : Fixable(s)}

\* Comments that were not verified, when they can be changed.
ToFix == {s \in Comments(batch) \ verified : Fixable(s)}

\* The verified comments in a single review, whose failure is ignored.
Group ==
    /\ pc = "group"
    /\ \E res \in Results :
         posted' = IF Done(res) /\ TakesReview(verified) THEN Plus(posted, verified) ELSE posted
    /\ fixes' = IF tryFix THEN ToFix ELSE {}
    /\ pc' = "fix"
    /\ UNCHANGED <<given, whole, batch, separate, unchecked, verified, pending, oneLine>>

\* The others one by one on their first line, and their failures are ignored too.
Fix ==
    /\ pc = "fix"
    /\ \/ /\ fixes = {}
          /\ NextCall
          /\ UNCHANGED <<fixes, oneLine, verified>>
       \/ /\ \E s \in fixes, res \in Results :
               /\ \A q \in fixes : s <= q
               /\ fixes' = fixes \ {s}
               /\ oneLine' = IF Done(res) /\ ~pending /\ AcceptedOneLine(s)
                             THEN Plus(oneLine, {s}) ELSE oneLine
          /\ UNCHANGED <<pc, whole, batch, separate, verified>>
    /\ UNCHANGED <<given, unchecked, pending, posted>>

Next == Review \/ Verify \/ Unverify \/ Group \/ Fix

Spec == Init /\ [][Next]_vars

-----------------------------------------------------------------------------
(* Properties *)

\* Moving a suggestion to the hunk it is closest to makes its comment acceptable:
\* what is left of its lines, if any are, is inside that hunk.
MovedIsAccepted ==
    \A s \in Comments(Suggestions) : ~Stays(lines[s], Ranges) => Accepted(s)

\* One bad suggestion does not keep the others from the pull request: when every
\* call is answered, each comment the server accepts is published, once.
AcceptedIsPosted ==
    pc = "done" /\ faults = {} =>
        \A s \in Comments(Suggestions) : posted[s] = IF Accepted(s) THEN 1 ELSE 0

\* No suggestion stands on the pull request twice, neither whole and on its first
\* line nor by the group and the separate calls, unless an answer was lost.
PostedOnce ==
    "unanswered" \notin faults => \A s \in Suggestions : posted[s] + oneLine[s] <= 1

\* A comment the server rejects is still shown on its first line, when that line
\* is in the diff and try_fix_invalid_inline_comments is on.
RejectedIsShown ==
    pc = "done" /\ faults = {} /\ tryFix =>
        \A s \in Comments(Suggestions) :
            ~Accepted(s) /\ Fixable(s) /\ AcceptedOneLine(s) => oneLine[s] = 1

\* Verifying leaves no pending review on the pull request, which would make the
\* server reject every review that follows.
NoPendingReview == faults = {} /\ pc # "unverify" => ~pending

\* github_provider.py, validate_comments_inside_hunks: "check if the comment is
\* inside a valid hunk".  A suggestion whose lines the server takes as they are is
\* left where it is, and published.
InsideIsPosted ==
    pc = "done" /\ faults = {} =>
        \A s \in Suggestions :
            lines[s].start # 0 /\ InDiff(lines[s]) => Place(s) = lines[s] /\ posted[s] = 1

=============================================================================
