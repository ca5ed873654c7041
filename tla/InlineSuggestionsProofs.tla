----------------------- MODULE InlineSuggestionsProofs -----------------------
(***************************************************************************)
(* Proofs about InlineSuggestions, for every number of suggestions, every  *)
(* set of lines, hunks and faults, and every Near.                         *)
(***************************************************************************)
EXTENDS InlineSuggestions, TLAPS

\* What the lines and the hunks are; no step changes them.
GivenOK ==
    /\ lines \in [Suggestions -> [start : Nat, end : Nat]]
    /\ hunks \in Seq([start : Nat, size : Nat])

\* The range that the code reads in a hunk header is the hunk, except that it
\* reads one of a single line as empty.
LEMMA ParsedOrEmpty ==
    ASSUME NEW h \in [start : Nat, size : Nat]
    PROVE  /\ Parsed(h).start = h.start /\ Parsed(h).start \in Nat /\ Parsed(h).end \in Int
           /\ Parsed(h).end = h.start + h.size - 1 \/ Parsed(h).end = h.start - 1
  BY DEF Parsed

\* Cutting a range to a hunk leaves lines of that hunk, or nothing.
LEMMA CutInside ==
    ASSUME NEW r \in [start : Nat, end : Nat], NEW h \in [start : Nat, size : Nat],
           Cut(r, Parsed(h)).start <= Cut(r, Parsed(h)).end
    PROVE  Inside(Cut(r, Parsed(h)), [start |-> h.start, end |-> h.start + h.size - 1])
<1>1. r.start \in Nat /\ r.end \in Nat /\ h.start \in Nat /\ h.size \in Nat
  OBVIOUS
<1>2. Parsed(h).start = h.start /\ Parsed(h).end \in Int
  BY ParsedOrEmpty
<1>3. /\ Cut(r, Parsed(h)).start >= h.start /\ Cut(r, Parsed(h)).start \in Nat
      /\ Cut(r, Parsed(h)).end <= Parsed(h).end /\ Cut(r, Parsed(h)).end \in Int
  BY <1>1, <1>2 DEF Cut, Larger, Smaller
<1>4. Parsed(h).end # h.start - 1
  BY <1>1, <1>2, <1>3
<1>5. Parsed(h).end = h.start + h.size - 1
  BY <1>4, ParsedOrEmpty
<1> QED
  BY <1>1, <1>3, <1>5 DEF Inside

\* Init gives the lines and the hunks their types.
LEMMA GivenInit == Init => GivenOK
<1> SUFFICES ASSUME Init PROVE GivenOK
  OBVIOUS
<1>1. \A a \in Starts, n \in Lengths : a \in Nat /\ a + n \in Nat
  BY InlineSuggestionsAssumption
<1>2. {[start |-> a, end |-> a + n] : a \in Starts, n \in Lengths}
        \subseteq [start : Nat, end : Nat]
  BY <1>1
<1>3. lines \in [Suggestions -> [start : Nat, end : Nat]]
  BY <1>2 DEF Init
<1> QED
  BY <1>3, InlineSuggestionsAssumption DEF Init, GivenOK

\* A suggestion that is moved is moved into a hunk the server knows.
LEMMA MovedLemma == GivenOK => MovedIsAccepted
<1> SUFFICES ASSUME GivenOK, NEW s \in Comments(Suggestions), ~Stays(lines[s], Ranges)
             PROVE  Accepted(s)
  BY DEF MovedIsAccepted
<1>1. s \in Suggestions /\ lines[s] \in [start : Nat, end : Nat]
  BY DEF Comments, GivenOK
<1>2. PICK k \in Closest(lines[s], Ranges) : Place(s) = Cut(lines[s], Ranges[k])
  BY DEF Place, Moved, Stays
<1>3. k \in DOMAIN hunks /\ Ranges[k] = Parsed(hunks[k])
  BY <1>2 DEF Closest, Ranges
<1>4. hunks[k] \in [start : Nat, size : Nat]
  <2>1. hunks \in Seq([start : Nat, size : Nat])
    BY DEF GivenOK
  <2>2. \A S, q : q \in Seq(S) => \A i \in DOMAIN q : q[i] \in S
    OBVIOUS
  <2> QED
    BY <1>3, <2>1, <2>2
<1>5. Place(s).start <= Place(s).end
  BY DEF Comments
<1>6. Inside(Place(s), [start |-> hunks[k].start, end |-> hunks[k].start + hunks[k].size - 1])
  BY <1>1, <1>2, <1>3, <1>4, <1>5, CutInside
<1> QED
  BY <1>3, <1>6 DEF Accepted, InDiff

\* validate_comments_inside_hunks moves a suggestion only to lines that the server
\* accepts, whatever the hunks are and however near they have to be.
THEOREM MovedCorrectness == Spec => []MovedIsAccepted
<1>1. GivenOK /\ [Next]_vars => GivenOK'
  BY DEF GivenOK, Next, vars, given, Review, Verify, Unverify, Group, Fix
<1> QED
  BY <1>1, GivenInit, MovedLemma, PTL DEF Spec

-----------------------------------------------------------------------------
(* The pending review *)

\* When no call fails, the review of a comment that is verified is pending only
\* until the next call, which deletes it.
THEOREM PendingCorrectness == Spec => []NoPendingReview
<1>1. Init => NoPendingReview
  BY DEF Init, NoPendingReview
<1>2. NoPendingReview /\ [Next]_vars => NoPendingReview'
  <2> SUFFICES ASSUME NoPendingReview, [Next]_vars, faults' = {}, pc' # "unverify"
               PROVE  ~pending'
    BY DEF NoPendingReview
  <2>1. faults = {} /\ Results = {"ok"}
    BY DEF Next, vars, given, Review, Verify, Unverify, Group, Fix, Results
  <2>2. CASE Verify
    BY <2>1, <2>2 DEF Verify, NoPendingReview, Done, TakesReview
  <2>3. CASE Unverify
    BY <2>1, <2>3 DEF Unverify, AfterDelete, Done
  <2>4. CASE Review \/ Group \/ Fix \/ UNCHANGED vars
    BY <2>1, <2>4 DEF Review, Group, Fix, vars, NoPendingReview
  <2> QED
    BY <2>2, <2>3, <2>4 DEF Next
<1> QED
  BY <1>1, <1>2, PTL DEF Spec

-----------------------------------------------------------------------------
(* Nothing is published twice *)

None(S) == \A s \in S : posted[s] = 0 /\ oneLine[s] = 0

\* The sets the calls work on, in the places where they are used.
SetsOK ==
    /\ faults \in FaultSets
    /\ pc \in {"review", "verify", "unverify", "group", "fix", "done"}
    /\ posted \in [Suggestions -> Nat] /\ oneLine \in [Suggestions -> Nat]
    /\ batch \subseteq Suggestions /\ separate \subseteq Suggestions
    /\ batch \cap separate = {}
    /\ whole \in BOOLEAN /\ (whole => batch = Suggestions /\ separate = {})
    /\ pc \in {"verify", "unverify", "group"} => unchecked \subseteq batch /\ verified \subseteq batch
    /\ pc = "fix" => fixes \subseteq batch

\* What the calls that are left work on is not published yet.
Fresh ==
    /\ pc \in {"review", "verify", "unverify", "group"} => None(batch)
    /\ pc = "fix" => None(fixes)
    /\ pc # "done" => None(separate)

IInv == SetsOK /\ ("unanswered" \notin faults => Fresh /\ PostedOnce)

\* Every behaviour starts with one call for all suggestions, none of them published.
LEMMA OnceInit == Init => IInv
  BY DEF Init, IInv, SetsOK, Fresh, None, PostedOnce

\* The calls that follow work on what was left for them, disjointly; they are
\* fresh when that was.
LEMMA CallForOK ==
    ASSUME SetsOK, faults' = faults, NEW S \in SUBSET Suggestions, CallFor(S),
           posted' \in [Suggestions -> Nat], oneLine' \in [Suggestions -> Nat],
           whole' \in BOOLEAN, whole' => whole /\ S = {}
    PROVE  /\ SetsOK'
           /\ (\A s \in S : posted'[s] = 0 /\ oneLine'[s] = 0) => Fresh'
<1>1. \/ S = {} /\ pc' = "done" /\ batch' = batch /\ separate' = separate
      \/ /\ S # {} /\ pc' = "review" /\ batch' \cap separate' = {}
         /\ batch' \subseteq S /\ separate' \subseteq S
  BY DEF CallFor
<1>2. SetsOK'
  BY <1>1 DEF SetsOK
<1>3. (\A s \in S : posted'[s] = 0 /\ oneLine'[s] = 0) => Fresh'
  BY <1>1 DEF Fresh, None
<1> QED
  BY <1>2, <1>3

\* The same for the next of the separate calls.
LEMMA NextCallOK ==
    ASSUME SetsOK, faults' = faults, NextCall,
           posted' \in [Suggestions -> Nat], oneLine' \in [Suggestions -> Nat]
    PROVE  /\ SetsOK'
           /\ (\A s \in separate : posted'[s] = 0 /\ oneLine'[s] = 0) => Fresh'
<1>1. PICK S \in SUBSET Suggestions : S = separate
  BY DEF SetsOK
<1>2. CallFor(S) /\ whole' = whole /\ whole \in BOOLEAN /\ (whole => S = {})
  BY <1>1 DEF NextCall, SetsOK
<1> QED
  BY <1>1, <1>2, CallForOK

\* Publishing the suggestions of S counts each of them once more.
LEMMA PlusOK ==
    ASSUME NEW count \in [Suggestions -> Nat], NEW S
    PROVE  /\ Plus(count, S) \in [Suggestions -> Nat]
           /\ \A s \in Suggestions : Plus(count, S)[s] = IF s \in S THEN count[s] + 1 ELSE count[s]
  BY DEF Plus

\* The batch is published with an answer, or not at all; only when nothing of it
\* was published is it part of a later call.
LEMMA OnceReview == IInv /\ Review => IInv'
<1> SUFFICES ASSUME IInv, Review PROVE IInv'
  OBVIOUS
<1> USE DEF IInv
<1>1. PICK S \in SUBSET batch : S = Comments(batch)
  BY DEF Comments, SetsOK
<1>2. pc = "review" /\ faults' = faults /\ oneLine' = oneLine /\ fixes' = {}
  BY DEF Review, given
<1>3. PICK res \in Results :
         /\ posted' = IF Done(res) /\ TakesReview(S) THEN Plus(posted, S) ELSE posted
         /\ IF Rejected(res, S)
            THEN /\ pc' = "verify" /\ unchecked' = S /\ verified' = {}
                 /\ UNCHANGED <<whole, batch, separate>>
            ELSE IF res = "ok" THEN NextCall ELSE Separately
  BY <1>1 DEF Review
<1>4. \/ posted' = posted
      \/ Done(res) /\ TakesReview(S) /\ posted' = Plus(posted, S)
  BY <1>3
<1>5. /\ posted' \in [Suggestions -> Nat] /\ oneLine' \in [Suggestions -> Nat]
      /\ \A s \in Suggestions : posted'[s] = posted[s] \/ (s \in S /\ posted'[s] = posted[s] + 1)
  BY <1>2, <1>4, PlusOK DEF SetsOK
<1>6. "unanswered" \notin faults => PostedOnce'
  BY <1>1, <1>2, <1>5 DEF PostedOnce, Fresh, None, SetsOK
<1>7. \A s \in separate : posted'[s] = posted[s] /\ oneLine'[s] = oneLine[s]
  BY <1>1, <1>2, <1>5 DEF SetsOK
<1>8. CASE Rejected(res, S)
  <2>1. posted' = posted
    BY <1>4, <1>8 DEF Rejected
  <2>2. SetsOK'
    BY <1>1, <1>2, <1>3, <1>8, <2>1 DEF SetsOK
  <2>3. Fresh => Fresh'
    BY <1>2, <1>3, <1>8, <2>1 DEF Fresh, None
  <2> QED
    BY <1>2, <1>6, <2>2, <2>3
<1>9. CASE ~Rejected(res, S) /\ NextCall
  <2>1. SetsOK' /\ (Fresh => Fresh')
    BY <1>2, <1>5, <1>7, <1>9, NextCallOK DEF Fresh, None
  <2> QED
    BY <1>2, <1>6, <2>1
<1>10. CASE res # "ok" /\ whole /\ CallFor(Suggestions) /\ whole' = FALSE
  <2>1. SetsOK' /\ ((\A s \in Suggestions : posted'[s] = 0 /\ oneLine'[s] = 0) => Fresh')
    BY <1>2, <1>5, <1>10, CallForOK
  <2>2. "unanswered" \notin faults => res = "unsent"
    BY <1>10, InlineSuggestionsAssumption DEF Results, AllFaults, SetsOK
  <2>3. "unanswered" \notin faults => posted' = posted
    BY <1>4, <2>2 DEF Done
  <2>4. "unanswered" \notin faults => \A s \in Suggestions : posted'[s] = 0 /\ oneLine'[s] = 0
    BY <1>2, <1>10, <2>3 DEF Fresh, None, SetsOK
  <2> QED
    BY <1>2, <1>6, <2>1, <2>4
<1> QED
  BY <1>3, <1>8, <1>9, <1>10 DEF Separately

\* The verification looks at the batch's comments only, and publishes none.
LEMMA OnceVerify == IInv /\ (Verify \/ Unverify) => IInv'
<1> SUFFICES ASSUME IInv, Verify \/ Unverify PROVE IInv'
  OBVIOUS
<1>1. /\ pc \in {"verify", "unverify"} /\ pc' \in {"verify", "unverify", "group"}
      /\ unchecked' \subseteq batch /\ verified' \subseteq batch
      /\ UNCHANGED <<faults, whole, batch, separate, posted, oneLine>>
  <2>1. CASE Verify
    BY <2>1 DEF Verify, given, IInv, SetsOK
  <2>2. CASE Unverify
    BY <2>2 DEF Unverify, given, IInv, SetsOK
  <2> QED
    BY <2>1, <2>2
<1>2. SetsOK'
  BY <1>1 DEF IInv, SetsOK
<1>3. "unanswered" \notin faults => Fresh' /\ PostedOnce'
  BY <1>1 DEF IInv, Fresh, None, PostedOnce
<1> QED
  BY <1>1, <1>2, <1>3 DEF IInv

\* The verified comments are published; the others may still be fixed.
LEMMA OnceGroup == IInv /\ Group => IInv'
<1> SUFFICES ASSUME IInv, Group PROVE IInv'
  OBVIOUS
<1> USE DEF IInv
<1>1. PICK V \in SUBSET batch : V = verified
  BY DEF Group, SetsOK
<1>2. /\ pc = "group" /\ pc' = "fix" /\ fixes' \subseteq batch \ V
      /\ UNCHANGED <<faults, whole, batch, separate, oneLine>>
  BY <1>1 DEF Group, given, ToFix, Comments
<1>3. posted' = posted \/ posted' = Plus(posted, V)
  BY <1>1 DEF Group
<1>4. /\ posted' \in [Suggestions -> Nat]
      /\ \A s \in Suggestions : posted'[s] = posted[s] \/ (s \in V /\ posted'[s] = posted[s] + 1)
  BY <1>3, PlusOK DEF SetsOK
<1>5. SetsOK'
  BY <1>2, <1>4 DEF SetsOK
<1>6. "unanswered" \notin faults => Fresh'
  BY <1>1, <1>2, <1>4 DEF Fresh, None, SetsOK
<1>7. ASSUME "unanswered" \notin faults PROVE PostedOnce'
  <2> SUFFICES ASSUME NEW s \in Suggestions PROVE posted'[s] + oneLine'[s] <= 1
    BY DEF PostedOnce
  <2>1. s \in V => posted[s] = 0 /\ oneLine[s] = 0
    BY <1>1, <1>2, <1>7 DEF Fresh, None
  <2>2. posted[s] + oneLine[s] <= 1 /\ posted[s] \in Nat /\ oneLine[s] \in Nat
    BY <1>7 DEF PostedOnce, SetsOK
  <2>3. oneLine'[s] = oneLine[s]
    BY <1>2
  <2> QED
    BY <1>4, <2>1, <2>2, <2>3
<1> QED
  BY <1>2, <1>5, <1>6, <1>7

\* A comment that is fixed leaves the list and was not published before.
LEMMA OnceFix == IInv /\ Fix => IInv'
<1> SUFFICES ASSUME IInv, Fix PROVE IInv'
  OBVIOUS
<1> USE DEF IInv
<1>1. pc = "fix" /\ faults' = faults /\ posted' = posted
  BY DEF Fix, given
<1>2. CASE fixes = {} /\ NextCall /\ UNCHANGED <<fixes, oneLine, verified>>
  <2>1. SetsOK' /\ (Fresh => Fresh')
    BY <1>1, <1>2, NextCallOK DEF SetsOK, Fresh, None
  <2>2. "unanswered" \notin faults => PostedOnce'
    BY <1>1, <1>2 DEF PostedOnce
  <2> QED
    BY <1>1, <2>1, <2>2
<1>3. ASSUME NEW s \in fixes, fixes' = fixes \ {s},
             oneLine' = oneLine \/ oneLine' = Plus(oneLine, {s}),
             UNCHANGED <<pc, whole, batch, separate, verified>>
      PROVE  IInv'
  <2>1. /\ oneLine' \in [Suggestions -> Nat]
        /\ \A q \in Suggestions : oneLine'[q] = oneLine[q] \/ (q = s /\ oneLine'[q] = oneLine[q] + 1)
    BY <1>3, PlusOK DEF SetsOK
  <2>2. SetsOK'
    BY <1>1, <1>3, <2>1 DEF SetsOK
  <2>3. s \in batch /\ s \in Suggestions /\ s \notin separate
    BY <1>1, <1>3 DEF SetsOK
  <2>4. "unanswered" \notin faults => Fresh'
    BY <1>1, <1>3, <2>1, <2>3 DEF Fresh, None, SetsOK
  <2>5. "unanswered" \notin faults => PostedOnce'
    BY <1>1, <1>3, <2>1, <2>3 DEF Fresh, None, PostedOnce, SetsOK
  <2> QED
    BY <1>1, <2>2, <2>4, <2>5
<1> QED
  BY <1>2, <1>3 DEF Fix

\* No suggestion is published twice, neither whole and on its first line nor by the
\* first call and the separate ones, whatever calls fail, as long as no answer is lost.
THEOREM PostedOnceCorrectness == Spec => []PostedOnce
<1>1. IInv /\ UNCHANGED vars => IInv'
  BY DEF IInv, SetsOK, Fresh, None, PostedOnce, vars, given
<1>2. IInv /\ [Next]_vars => IInv'
  BY <1>1, OnceReview, OnceVerify, OnceGroup, OnceFix DEF Next
<1>3. IInv => PostedOnce
  BY DEF IInv, PostedOnce
<1> QED
  BY OnceInit, <1>2, <1>3, PTL DEF Spec

-----------------------------------------------------------------------------
(* What is accepted is published, what is rejected is shown *)

\* The suggestions that have lines to comment on.
All == Comments(Suggestions)

\* What the server makes of a comment depends on the lines and the hunks alone.
LEMMA GivenStays ==
    [Next]_vars => /\ UNCHANGED given /\ All' = All
                   /\ \A s : /\ Accepted(s)' <=> Accepted(s)
                             /\ AcceptedOneLine(s)' <=> AcceptedOneLine(s)
                             /\ Fixable(s)' <=> Fixable(s)
<1> SUFFICES ASSUME [Next]_vars PROVE
        /\ UNCHANGED given /\ All' = All
        /\ \A s : /\ Accepted(s)' <=> Accepted(s)
                  /\ AcceptedOneLine(s)' <=> AcceptedOneLine(s)
                  /\ Fixable(s)' <=> Fixable(s)
  OBVIOUS
<1>1. UNCHANGED given
  BY DEF Next, Review, Verify, Unverify, Group, Fix, vars, given
<1>2. lines' = lines /\ hunks' = hunks
  BY <1>1 DEF given
<1>3. Ranges' = Ranges
  BY <1>2 DEF Ranges
<1>4. \A s : Place(s)' = Place(s)
  BY <1>2, <1>3 DEF Place
<1>5. All' = All
  BY <1>4 DEF All, Comments
<1>6. \A r : InDiff(r)' <=> InDiff(r)
  BY <1>2 DEF InDiff
<1>7. \A s : Accepted(s)' <=> Accepted(s)
  BY <1>4, <1>6 DEF Accepted
<1>8. \A s : AcceptedOneLine(s)' <=> AcceptedOneLine(s)
  BY <1>4, <1>6 DEF AcceptedOneLine
<1>9. \A s : Fixable(s)' <=> Fixable(s)
  BY <1>2, <1>4 DEF Fixable
<1> QED
  BY <1>1, <1>5, <1>7, <1>8, <1>9

\* When every call is answered there is one call for all suggestions.
OneCall ==
    /\ faults = {} /\ whole /\ batch = Suggestions /\ separate = {}
    /\ posted \in [Suggestions -> Nat] /\ oneLine \in [Suggestions -> Nat]
    /\ pc \in {"review", "verify", "unverify", "group", "fix", "done"}
    /\ pc # "unverify" => ~pending

\* It publishes nothing before the group.
Waiting ==
    pc \in {"review", "verify", "unverify", "group"} =>
        \A s \in Suggestions : posted[s] = 0 /\ oneLine[s] = 0

\* The verification sorts the comments by what the server accepts.
Sorted ==
    pc \in {"verify", "unverify", "group"} =>
        /\ unchecked \subseteq All /\ verified \subseteq All
        /\ \A s \in All : s \in verified <=> Accepted(s) /\ s \notin unchecked
        /\ pc = "group" => unchecked = {}
        /\ pc = "unverify" =>
             \A s \in unchecked : (\A q \in unchecked : s <= q) => Accepted(s)

\* After the group the accepted comments stand, and the others are shown on their
\* first line or still to be.
Given ==
    pc \in {"fix", "done"} =>
        /\ \A s \in All : posted[s] = IF Accepted(s) THEN 1 ELSE 0
        /\ pc = "fix" => fixes \subseteq All /\ \A s \in fixes : oneLine[s] = 0
        /\ tryFix => \A s \in All :
             ~Accepted(s) /\ Fixable(s) /\ AcceptedOneLine(s) =>
                 oneLine[s] = 1 \/ (pc = "fix" /\ s \in fixes)

Reliable == faults = {} => OneCall /\ Waiting /\ Sorted /\ Given

\* There is no further call.
LEMMA NoFurtherCall ==
    ASSUME OneCall, NextCall
    PROVE  pc' = "done" /\ UNCHANGED <<batch, separate, whole>>
  BY DEF OneCall, NextCall, CallFor

LEMMA ReliableInit == Init => Reliable
  BY DEF Init, Reliable, OneCall, Waiting, Sorted, Given

LEMMA ReliableNext == Reliable /\ [Next]_vars => Reliable'
<1> SUFFICES ASSUME Reliable, [Next]_vars, faults' = {}
             PROVE  OneCall' /\ Waiting' /\ Sorted' /\ Given'
  BY DEF Reliable
<1>0. /\ UNCHANGED given /\ All' = All
      /\ \A s : /\ Accepted(s)' <=> Accepted(s)
                /\ AcceptedOneLine(s)' <=> AcceptedOneLine(s)
                /\ Fixable(s)' <=> Fixable(s)
  BY GivenStays
<1>a. faults = {} /\ tryFix' = tryFix
  BY <1>0 DEF given
<1>b. OneCall /\ Waiting /\ Sorted /\ Given
  BY <1>a DEF Reliable
<1>c. /\ Results = {"ok"} /\ Done("ok") /\ All = Comments(batch) /\ All \subseteq Suggestions
      /\ batch = Suggestions
  BY <1>a, <1>b DEF Results, Done, OneCall, All, Comments
<1>1. CASE Review
  <2>0. pc = "review" /\ ~pending /\ UNCHANGED <<pending, oneLine>> /\ fixes' = {}
    BY <1>1, <1>b DEF Review, OneCall
  <2>1. /\ posted' = IF TakesReview(All) THEN Plus(posted, All) ELSE posted
        /\ IF Rejected("ok", All)
           THEN /\ pc' = "verify" /\ unchecked' = All /\ verified' = {}
                /\ UNCHANGED <<whole, batch, separate>>
           ELSE NextCall
    BY <1>1, <1>c DEF Review
  <2>2. CASE TakesReview(All)
    <3>1. posted' = Plus(posted, All) /\ pc' = "done" /\ UNCHANGED <<whole, batch, separate>>
      BY <1>b, <2>1, <2>2, NoFurtherCall DEF Rejected
    <3>2. /\ posted' \in [Suggestions -> Nat]
          /\ \A s \in All : posted'[s] = 1
      BY <1>b, <1>c, <2>0, <3>1, PlusOK DEF OneCall, Waiting
    <3>3. \A s \in All : Accepted(s)
      BY <2>2 DEF TakesReview
    <3>4. OneCall'
      BY <1>b, <2>0, <3>1, <3>2 DEF OneCall
    <3> QED
      BY <1>0, <3>1, <3>2, <3>3, <3>4 DEF Waiting, Sorted, Given
  <2>3. CASE ~TakesReview(All)
    <3>1. /\ posted' = posted /\ pc' = "verify" /\ unchecked' = All /\ verified' = {}
          /\ UNCHANGED <<whole, batch, separate>>
      BY <2>1, <2>3 DEF Rejected
    <3> QED
      BY <1>0, <1>b, <2>0, <3>1 DEF OneCall, Waiting, Sorted, Given
  <2> QED
    BY <2>2, <2>3
<1>2. CASE Verify
  <2>0. pc = "verify" /\ ~pending /\ UNCHANGED <<whole, batch, separate, verified, posted, oneLine>>
    BY <1>2, <1>b DEF Verify, OneCall
  <2>1. CASE unchecked = {} /\ pc' = "group" /\ UNCHANGED <<unchecked, pending>>
    BY <1>0, <1>b, <2>0, <2>1 DEF OneCall, Waiting, Sorted, Given
  <2>2. ASSUME NEW s \in unchecked, \A q \in unchecked : s <= q,
               pending' = (pending \/ Accepted(s)),
               IF TakesReview({s})
               THEN pc' = "unverify" /\ UNCHANGED unchecked
               ELSE pc' = "verify" /\ unchecked' = unchecked \ {s}
        PROVE  OneCall' /\ Waiting' /\ Sorted' /\ Given'
    <3>1. TakesReview({s}) <=> Accepted(s)
      BY <2>0 DEF TakesReview
    <3>2. \A q \in unchecked : q \in Int
      BY <1>b, <1>c, <2>0 DEF Sorted, Suggestions
    <3>3. CASE Accepted(s)
      <4>1. pc' = "unverify" /\ unchecked' = unchecked
        BY <2>2, <3>1, <3>3
      <4>2. ASSUME NEW r \in unchecked, \A q \in unchecked : r <= q
            PROVE  Accepted(r)
        <5>1. r <= s /\ s <= r /\ r \in Int /\ s \in Int
          BY <2>2, <3>2, <4>2
        <5>2. r = s
          BY <5>1
        <5> QED
          BY <3>3, <5>2
      <4> QED
        BY <1>0, <1>b, <2>0, <4>1, <4>2 DEF OneCall, Waiting, Sorted, Given
    <3>4. CASE ~Accepted(s)
      <4>1. pc' = "verify" /\ unchecked' = unchecked \ {s} /\ ~pending'
        BY <2>0, <2>2, <3>1, <3>4
      <4> QED
        BY <1>0, <1>b, <2>0, <3>4, <4>1 DEF OneCall, Waiting, Sorted, Given
    <3> QED
      BY <3>3, <3>4
  <2> QED
    BY <1>2, <1>c, <2>1, <2>2 DEF Verify
<1>3. CASE Unverify
  <2>0. pc = "unverify" /\ pc' = "verify"
        /\ UNCHANGED <<whole, batch, separate, posted, oneLine>>
    BY <1>3 DEF Unverify
  <2>1. PICK s \in unchecked :
          /\ \A q \in unchecked : s <= q
          /\ ~pending'
          /\ verified' = verified \cup {s}
          /\ unchecked' = unchecked \ {s}
    BY <1>3, <1>c DEF Unverify, AfterDelete
  <2>2. Accepted(s) /\ s \in All
    BY <1>b, <2>0, <2>1 DEF Sorted
  <2> QED
    BY <1>0, <1>b, <2>0, <2>1, <2>2 DEF OneCall, Waiting, Sorted, Given
<1>4. CASE Group
  <2>0. /\ pc = "group" /\ pc' = "fix" /\ ~pending
        /\ UNCHANGED <<whole, batch, separate, pending, oneLine>>
        /\ fixes' = IF tryFix THEN ToFix ELSE {}
    BY <1>4, <1>b DEF Group, OneCall
  <2>1. /\ verified \subseteq All /\ \A s \in All : s \in verified <=> Accepted(s)
        /\ \A s \in Suggestions : posted[s] = 0 /\ oneLine[s] = 0
    BY <1>b, <2>0 DEF Sorted, Waiting
  <2>2. posted' = IF TakesReview(verified) THEN Plus(posted, verified) ELSE posted
    BY <1>4, <1>c DEF Group
  <2>3. TakesReview(verified) <=> verified # {}
    BY <2>0, <2>1 DEF TakesReview
  <2>4. /\ posted' \in [Suggestions -> Nat]
        /\ \A s \in All : posted'[s] = IF Accepted(s) THEN 1 ELSE 0
    <3>1. /\ Plus(posted, verified) \in [Suggestions -> Nat]
          /\ \A s \in Suggestions :
               Plus(posted, verified)[s] = IF s \in verified THEN posted[s] + 1 ELSE posted[s]
      BY <1>b, PlusOK DEF OneCall
    <3>2. CASE verified # {}
      BY <1>c, <2>1, <2>2, <2>3, <3>1, <3>2
    <3>3. CASE verified = {}
      BY <1>b, <1>c, <2>1, <2>2, <2>3, <3>3 DEF OneCall
    <3> QED
      BY <3>2, <3>3
  <2>5. OneCall'
    BY <1>a, <1>b, <2>0, <2>4 DEF OneCall
  <2>6. Given'
    BY <1>0, <1>a, <1>c, <2>0, <2>1, <2>4 DEF Given, ToFix
  <2> QED
    BY <2>0, <2>5, <2>6 DEF Waiting, Sorted
<1>5. CASE Fix
  <2>0. pc = "fix" /\ UNCHANGED <<pending, posted>> /\ ~pending
    BY <1>5, <1>b DEF Fix, OneCall
  <2>1. CASE fixes = {} /\ NextCall /\ UNCHANGED <<fixes, oneLine, verified>>
    <3>1. pc' = "done" /\ UNCHANGED <<whole, batch, separate>>
      BY <1>b, <2>1, NoFurtherCall
    <3> QED
      BY <1>0, <1>a, <1>b, <2>0, <2>1, <3>1 DEF OneCall, Waiting, Sorted, Given
  <2>2. ASSUME NEW s \in fixes, fixes' = fixes \ {s},
               oneLine' = IF AcceptedOneLine(s) THEN Plus(oneLine, {s}) ELSE oneLine,
               UNCHANGED <<pc, whole, batch, separate, verified>>
        PROVE  OneCall' /\ Waiting' /\ Sorted' /\ Given'
    <3>1. s \in All /\ s \in Suggestions /\ oneLine[s] = 0 /\ fixes \subseteq All
      BY <1>b, <1>c, <2>0, <2>2 DEF Given
    <3>2. /\ Plus(oneLine, {s}) \in [Suggestions -> Nat]
          /\ \A q \in Suggestions :
               Plus(oneLine, {s})[q] = IF q \in {s} THEN oneLine[q] + 1 ELSE oneLine[q]
      BY <1>b, PlusOK DEF OneCall
    <3>3. /\ oneLine' \in [Suggestions -> Nat]
          /\ AcceptedOneLine(s) => oneLine'[s] = 1
          /\ \A q \in Suggestions \ {s} : oneLine'[q] = oneLine[q]
      <4>1. CASE AcceptedOneLine(s)
        <5>1. oneLine' = Plus(oneLine, {s})
          BY <2>2, <4>1
        <5> QED
          BY <3>1, <3>2, <5>1
      <4>2. CASE ~AcceptedOneLine(s)
        BY <1>b, <2>2, <4>2 DEF OneCall
      <4> QED
        BY <4>1, <4>2
    <3>4. OneCall'
      BY <1>a, <1>b, <2>0, <2>2, <3>3 DEF OneCall
    <3>5. Given'
      BY <1>0, <1>a, <1>b, <1>c, <2>0, <2>2, <3>1, <3>3 DEF Given
    <3> QED
      BY <2>0, <2>2, <3>4, <3>5 DEF Waiting, Sorted
  <2> QED
    BY <1>5, <1>c, <2>0, <2>1, <2>2 DEF Fix
<1>6. CASE UNCHANGED vars
  BY <1>0, <1>a, <1>b, <1>6 DEF vars, OneCall, Waiting, Sorted, Given
<1> QED
  BY <1>1, <1>2, <1>3, <1>4, <1>5, <1>6 DEF Next

LEMMA ReliableInvariant == Spec => []Reliable
  BY ReliableInit, ReliableNext, PTL DEF Spec

\* One bad suggestion does not keep the others from the pull request, however many
\* there are: with every call answered, what the server accepts is published once.
THEOREM AcceptedCorrectness == Spec => []AcceptedIsPosted
<1>1. Reliable => AcceptedIsPosted
  BY DEF Reliable, Given, All, AcceptedIsPosted
<1> QED
  BY <1>1, ReliableInvariant, PTL

\* And what it rejects is shown on its first line, when that line can be.
THEOREM RejectedCorrectness == Spec => []RejectedIsShown
<1>1. Reliable => RejectedIsShown
  BY DEF Reliable, Given, All, RejectedIsShown
<1> QED
  BY <1>1, ReliableInvariant, PTL

-----------------------------------------------------------------------------
(* Types: nothing is counted more than twice, and what is verified is in the call *)

Trying == {"review", "verify", "unverify", "group"}

\* A separate call is for one suggestion that is verified only when the server has
\* just rejected it, so that nothing is verified and no review is pending.
Alone ==
    /\ pc = "review" => ~pending /\ verified = {} /\ fixes = {}
    /\ pc \notin {"verify", "unverify"} => unchecked = {}
    /\ whole => separate = {} /\ batch = Suggestions
    /\ ~whole => /\ ~pending /\ verified = {} /\ pc # "unverify"
                 /\ \A s \in unchecked : ~Accepted(s)
                 /\ \A r, s \in batch : r = s
    /\ batch \cap separate = {}

\* What a call may still publish was published at most by the first one.
Counts ==
    /\ pc # "done" => \A s \in separate : posted[s] <= 1 /\ oneLine[s] = 0
    /\ pc \in Trying => \A s \in batch : posted[s] <= 1 /\ oneLine[s] = 0
    /\ pc \in Trying /\ whole => \A s \in batch : posted[s] = 0
    /\ pc = "fix" => \A s \in fixes : oneLine[s] = 0

TInv == TypeOK /\ Alone /\ Counts

LEMMA TInit == Init => TInv
<1> SUFFICES ASSUME Init PROVE TInv
  OBVIOUS
<1>1. lines \in [Suggestions -> [start : Nat, end : Nat]]
  BY GivenInit DEF GivenOK
<1>2. posted \in [Suggestions -> 0..2] /\ oneLine \in [Suggestions -> 0..2]
  BY DEF Init
<1>3. /\ hunks \in HunkSets /\ faults \in FaultSets
      /\ pc = "review" /\ batch = Suggestions /\ separate = {}
      /\ unchecked = {} /\ verified = {} /\ fixes = {}
  BY DEF Init
<1>a. tryFix \in BOOLEAN
  BY DEF Init
<1>b. whole \in BOOLEAN
  BY DEF Init
<1>c. pending \in BOOLEAN
  BY DEF Init
<1>5. TypeOK
  BY <1>1, <1>2, <1>3, <1>a, <1>b, <1>c DEF TypeOK
<1>4. Alone /\ Counts
  BY DEF Init, Alone, Counts
<1> QED
  BY <1>4, <1>5 DEF TInv

\* The next call, if any, is for one suggestion of S.
LEMMA CallForOne ==
    ASSUME NEW S \in SUBSET Suggestions, CallFor(S)
    PROVE  \/ S = {} /\ pc' = "done" /\ UNCHANGED <<batch, separate>>
           \/ /\ pc' = "review" /\ batch' \subseteq S /\ separate' \subseteq S
              /\ batch' \cap separate' = {} /\ \A r, s \in batch' : r = s
  BY DEF CallFor

\* Publishing once more what was published at most once keeps the counts small.
LEMMA PlusBound ==
    ASSUME NEW count \in [Suggestions -> 0..2], NEW S, NEW n \in {0, 1},
           \A s \in S \cap Suggestions : count[s] <= n
    PROVE  /\ Plus(count, S) \in [Suggestions -> 0..2]
           /\ \A s \in Suggestions \ S : Plus(count, S)[s] = count[s]
           /\ \A s \in S \cap Suggestions : Plus(count, S)[s] <= n + 1
<1>1. \A s \in Suggestions : count[s] \in 0..2
  OBVIOUS
<1>2. \A s \in Suggestions : (IF s \in S THEN count[s] + 1 ELSE count[s]) \in 0..2
  BY <1>1
<1> QED
  BY <1>1, <1>2 DEF Plus

\* What follows a call: the next separate one, or the end.
LEMMA TNextCall ==
    ASSUME TInv, NextCall, UNCHANGED given,
           posted' \in [Suggestions -> 0..2], oneLine' \in [Suggestions -> 0..2],
           \A s \in separate : posted'[s] = posted[s] /\ oneLine'[s] = oneLine[s],
           pc # "done", pending' \in BOOLEAN,
           unchecked' = {}, verified' \subseteq batch, fixes' = {},
           ~whole => ~pending' /\ verified' = {}
    PROVE  TInv'
<1> USE DEF TInv
<1>1. whole' = whole /\ separate \in SUBSET Suggestions /\ CallFor(separate)
  BY DEF NextCall, TypeOK
<1>2. CASE separate = {} /\ pc' = "done" /\ UNCHANGED <<batch, separate>>
  <2>1. TypeOK'
    BY <1>1, <1>2 DEF TypeOK, given
  <2>2. Alone'
    BY <1>1, <1>2 DEF Alone
  <2>3. Counts'
    BY <1>1, <1>2 DEF Counts, Trying
  <2> QED
    BY <2>1, <2>2, <2>3
<1>3. CASE /\ pc' = "review" /\ batch' \subseteq separate /\ separate' \subseteq separate
           /\ batch' \cap separate' = {} /\ \A r, s \in batch' : r = s
           /\ separate # {}
  <2>1. ~whole
    BY <1>3 DEF Alone
  <2>2. TypeOK'
    BY <1>1, <1>3, <2>1 DEF TypeOK, given
  <2>3. Alone'
    BY <1>1, <1>3, <2>1 DEF Alone
  <2>4. Counts'
    BY <1>1, <1>3, <2>1 DEF Counts
  <2> QED
    BY <2>2, <2>3, <2>4
<1> QED
  BY <1>1, <1>2, <1>3, CallForOne DEF CallFor

LEMMA TReview == TInv /\ Review /\ UNCHANGED given => TInv'
<1> SUFFICES ASSUME TInv, Review, UNCHANGED given PROVE TInv'
  OBVIOUS
<1> USE DEF TInv
<1>1. PICK S \in SUBSET batch : S = Comments(batch)
  BY DEF Comments, TypeOK
<1>2. pc = "review" /\ UNCHANGED <<pending, oneLine>> /\ fixes' = {} /\ ~pending
  BY DEF Review, Alone
<1>3. PICK res \in Results :
         /\ posted' = IF Done(res) /\ TakesReview(S) THEN Plus(posted, S) ELSE posted
         /\ IF Rejected(res, S)
            THEN /\ pc' = "verify" /\ unchecked' = S /\ verified' = {}
                 /\ UNCHANGED <<whole, batch, separate>>
            ELSE /\ IF res = "ok" THEN NextCall ELSE Separately
                 /\ unchecked' = {} /\ verified' = {}
  BY <1>1 DEF Review
<1>4. /\ posted' \in [Suggestions -> 0..2]
      /\ \A s \in Suggestions \ batch : posted'[s] = posted[s]
      /\ whole => \A s \in Suggestions : posted'[s] <= 1
  <2>1. \A s \in S \cap Suggestions : posted[s] <= 1
    BY <1>1, <1>2 DEF Counts, Trying
  <2>2. whole => \A s \in Suggestions : posted[s] <= 0
    BY <1>2 DEF Counts, Trying, Alone
  <2>3. /\ Plus(posted, S) \in [Suggestions -> 0..2]
        /\ \A s \in Suggestions \ S : Plus(posted, S)[s] = posted[s]
    BY <2>1, PlusBound DEF TypeOK
  <2>4. whole => \A s \in S \cap Suggestions : Plus(posted, S)[s] <= 1
    BY <1>1, <2>2, PlusBound DEF TypeOK
  <2>5. whole => \A s \in Suggestions : Plus(posted, S)[s] <= 1
    BY <2>2, <2>3, <2>4
  <2>6. posted' \in {posted, Plus(posted, S)}
    BY <1>3
  <2>7. whole => \A s \in Suggestions : posted[s] <= 1
    BY <2>2 DEF TypeOK
  <2> QED
    BY <1>1, <2>3, <2>5, <2>6, <2>7 DEF TypeOK
<1>5. CASE Rejected(res, S)
  <2>1. /\ pc' = "verify" /\ unchecked' = S /\ verified' = {} /\ posted' = posted
        /\ UNCHANGED <<whole, batch, separate>>
    BY <1>3, <1>5 DEF Rejected
  <2>2. ~whole => \A s \in S : ~Accepted(s)
    BY <1>1, <1>2, <1>5 DEF Rejected, TakesReview, Alone
  <2>3. \A s : Accepted(s)' <=> Accepted(s)
    BY GivenStays DEF Next
  <2>4. TypeOK'
    BY <1>1, <1>2, <2>1 DEF TypeOK, given
  <2>5. Alone'
    BY <1>1, <1>2, <2>1, <2>2, <2>3 DEF Alone
  <2>6. Counts'
    BY <1>2, <2>1 DEF Counts, Trying
  <2> QED
    BY <2>4, <2>5, <2>6
<1>6. CASE NextCall /\ unchecked' = {} /\ verified' = {}
  <2>1. \A s \in separate : posted'[s] = posted[s]
    BY <1>4 DEF TypeOK, Alone
  <2>2. pending' \in BOOLEAN /\ oneLine' \in [Suggestions -> 0..2]
    BY <1>2 DEF TypeOK
  <2> QED
    BY <1>2, <1>4, <1>6, <2>1, <2>2, TNextCall
<1>7. CASE whole /\ CallFor(Suggestions) /\ whole' = FALSE /\ unchecked' = {} /\ verified' = {}
  <2>1. \A s \in Suggestions : posted'[s] <= 1 /\ oneLine'[s] = 0
    BY <1>2, <1>4, <1>7 DEF Alone, Counts, Trying
  <2>2. \/ Suggestions = {} /\ pc' = "done" /\ UNCHANGED <<batch, separate>>
        \/ /\ pc' = "review" /\ batch' \subseteq Suggestions /\ separate' \subseteq Suggestions
           /\ batch' \cap separate' = {} /\ \A r, s \in batch' : r = s
    BY <1>7, CallForOne
  <2>3. TypeOK'
    BY <1>2, <1>4, <1>7, <2>2 DEF TypeOK, given
  <2>4. Alone'
    BY <1>2, <1>7, <2>2 DEF Alone
  <2>5. Counts'
    BY <1>7, <2>1, <2>2 DEF Counts, TypeOK
  <2> QED
    BY <2>3, <2>4, <2>5
<1> QED
  BY <1>3, <1>5, <1>6, <1>7 DEF Separately

LEMMA TVerify == TInv /\ Verify /\ UNCHANGED given => TInv'
<1> SUFFICES ASSUME TInv, Verify, UNCHANGED given PROVE TInv'
  OBVIOUS
<1> USE DEF TInv
<1>1. /\ pc = "verify" /\ pc' \in {"verify", "unverify", "group"}
      /\ UNCHANGED <<whole, batch, separate, verified, fixes, posted, oneLine>>
      /\ unchecked' \subseteq unchecked
  BY DEF Verify
<1>2. pending' \in BOOLEAN
  BY DEF Verify, TypeOK
<1>3. ~whole => ~pending' /\ pc' # "unverify"
  BY <1>1 DEF Verify, Alone, TakesReview
<1>4. pc' = "group" => unchecked' = {}
  BY <1>1 DEF Verify
<1>5. \A s : Accepted(s)' <=> Accepted(s)
  BY GivenStays DEF Next
<1>6. TypeOK'
  BY <1>1, <1>2 DEF TypeOK, given
<1>7. Alone'
  BY <1>1, <1>3, <1>4, <1>5 DEF Alone
<1>8. Counts'
  BY <1>1 DEF Counts, Trying
<1> QED
  BY <1>6, <1>7, <1>8

LEMMA TUnverify == TInv /\ Unverify /\ UNCHANGED given => TInv'
<1> SUFFICES ASSUME TInv, Unverify, UNCHANGED given PROVE TInv'
  OBVIOUS
<1> USE DEF TInv
<1>1. /\ pc = "unverify" /\ pc' = "verify" /\ whole
      /\ UNCHANGED <<whole, batch, separate, fixes, posted, oneLine>>
      /\ unchecked' \subseteq unchecked /\ verified' \subseteq verified \cup unchecked
      /\ pending' \in BOOLEAN
  BY DEF Unverify, Alone, AfterDelete, TypeOK
<1>2. TypeOK'
  BY <1>1 DEF TypeOK, given
<1>3. Alone'
  BY <1>1 DEF Alone
<1>4. Counts'
  BY <1>1 DEF Counts, Trying
<1> QED
  BY <1>2, <1>3, <1>4

LEMMA TGroup == TInv /\ Group /\ UNCHANGED given => TInv'
<1> SUFFICES ASSUME TInv, Group, UNCHANGED given PROVE TInv'
  OBVIOUS
<1> USE DEF TInv
<1>1. /\ pc = "group" /\ pc' = "fix" /\ fixes' \subseteq batch
      /\ UNCHANGED <<whole, batch, separate, unchecked, verified, pending, oneLine>>
      /\ posted' \in {posted, Plus(posted, verified)}
  BY DEF Group, ToFix, Comments
<1>2. \A s \in verified \cap Suggestions : posted[s] <= 1
  BY <1>1 DEF Counts, Trying, TypeOK
<1>3. /\ posted' \in [Suggestions -> 0..2]
      /\ \A s \in Suggestions \ verified : posted'[s] = posted[s]
  BY <1>1, <1>2, PlusBound DEF TypeOK
<1>4. TypeOK'
  BY <1>1, <1>3 DEF TypeOK, given
<1>5. Alone'
  BY <1>1, GivenStays DEF Alone, Next
<1>6. Counts'
  <2>1. \A s \in separate : posted'[s] = posted[s]
    BY <1>3 DEF TypeOK, Alone
  <2>2. \A s \in fixes' : oneLine'[s] = 0
    BY <1>1 DEF Counts, Trying
  <2> QED
    BY <1>1, <2>1, <2>2 DEF Counts, Trying
<1> QED
  BY <1>4, <1>5, <1>6

LEMMA TFix == TInv /\ Fix /\ UNCHANGED given => TInv'
<1> SUFFICES ASSUME TInv, Fix, UNCHANGED given PROVE TInv'
  OBVIOUS
<1> USE DEF TInv
<1>1. pc = "fix" /\ unchecked = {} /\ UNCHANGED <<unchecked, pending, posted>>
  BY DEF Fix, Alone
<1>2. CASE fixes = {} /\ NextCall /\ UNCHANGED <<fixes, oneLine, verified>>
  <2>1. /\ posted' \in [Suggestions -> 0..2] /\ oneLine' \in [Suggestions -> 0..2]
        /\ pending' \in BOOLEAN /\ verified' \subseteq batch /\ fixes' = {}
        /\ ~whole => ~pending' /\ verified' = {}
    BY <1>1, <1>2 DEF TypeOK, Alone
  <2> QED
    BY <1>1, <1>2, <2>1, TNextCall
<1>3. ASSUME NEW s \in fixes, fixes' = fixes \ {s},
             oneLine' = oneLine \/ oneLine' = Plus(oneLine, {s}),
             UNCHANGED <<pc, whole, batch, separate, verified>>
      PROVE  TInv'
  <2>1. s \in Suggestions /\ s \in batch /\ s \notin separate /\ oneLine[s] = 0
    BY <1>1, <1>3 DEF TypeOK, Alone, Counts
  <2>2. \A q \in {s} \cap Suggestions : oneLine[q] <= 0
    BY <2>1
  <2>3. /\ Plus(oneLine, {s}) \in [Suggestions -> 0..2]
        /\ \A q \in Suggestions \ {s} : Plus(oneLine, {s})[q] = oneLine[q]
    BY <2>2, PlusBound DEF TypeOK
  <2>4. /\ oneLine' \in [Suggestions -> 0..2]
        /\ \A q \in Suggestions \ {s} : oneLine'[q] = oneLine[q]
    BY <1>3, <2>3 DEF TypeOK
  <2>5. TypeOK'
    BY <1>1, <1>3, <2>4 DEF TypeOK, given
  <2>6. Alone'
    BY <1>1, <1>3 DEF Alone
  <2>7. Counts'
    BY <1>1, <1>3, <2>1, <2>4 DEF Counts, Trying, TypeOK
  <2> QED
    BY <2>5, <2>6, <2>7
<1> QED
  BY <1>2, <1>3 DEF Fix

\* Every state is well typed; no comment is published more than twice, whatever
\* calls fail and however many answers are lost.
THEOREM SuggestionsTypeCorrectness == Spec => []TypeOK
<1>1. TInv /\ UNCHANGED vars => TInv'
  <2> SUFFICES ASSUME TInv, UNCHANGED vars PROVE TInv'
    OBVIOUS
  <2>1. \A s : Accepted(s)' <=> Accepted(s)
    BY GivenStays
  <2> QED
    BY <2>1 DEF TInv, TypeOK, Alone, Counts, Trying, vars
<1>2. TInv /\ [Next]_vars => TInv'
  BY <1>1, GivenStays, TReview, TVerify, TUnverify, TGroup, TFix DEF Next
<1>3. TInv => TypeOK
  BY DEF TInv
<1> QED
  BY TInit, <1>2, <1>3, PTL DEF Spec

=============================================================================
