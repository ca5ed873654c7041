----------------------- MODULE ImproveCommentsProofs -----------------------
(***************************************************************************)
(* Proofs about ImproveComments, for every set of runs and workers, every  *)
(* history length, and whatever the calls of the API meet.                 *)
(***************************************************************************)
EXTENDS ImproveComments, FiniteSetTheorems, WellFoundedInduction, TLAPS

-----------------------------------------------------------------------------
\* Facts about the data.

\* Of finitely many numbers one is the largest.
LEMMA LargestExists ==
    ASSUME NEW n \in Nat, NEW S, S \subseteq 1..n, S # {}
    PROVE  \E k \in S : \A j \in S : j <= k
<1> DEFINE R == {ss \in Nat \X Nat : ss[1] < ss[2]}
           T == {m \in Nat : \E k \in S : m = n - k}
<1>1. IsWellFoundedOn(R, Nat)
  BY NatLessThanWellFounded DEF OpToRel
<1>2. T \subseteq Nat /\ T # {}
  <2>1. PICK k \in S : TRUE
    OBVIOUS
  <2>2. n - k \in T
    OBVIOUS
  <2> QED
    BY <2>2
<1> HIDE DEF R
<1>3. PICK x \in T : \A y \in T : ~ (<<y, x>> \in R)
  BY <1>1, <1>2, WFMin
<1>4. PICK k \in S : x = n - k
  OBVIOUS
<1>5. ASSUME NEW j \in S PROVE j <= k
  <2>1. n - j \in T
    OBVIOUS
  <2>2. ~(n - j < x)
    BY <1>3, <2>1 DEF R
  <2> QED
    BY <1>4, <2>2
<1> QED
  BY <1>5

LEMMA Lengths == maxHistory \in HistoryLens => maxHistory \in Nat
  BY ImproveCommentsAssumption

\* The places where a history may be cut: Shortened keeps its first k entries.
LEMMA ShortenedPrefix ==
    ASSUME NEW h \in Seq(Entries), maxHistory \in Nat
    PROVE  \E k \in 0..Len(h) :
             /\ Shortened(h) = SubSeq(h, 1, k)
             /\ \/ k = Len(h) /\ (k < maxHistory \/ \A j \in 1..k : ~h[j].sought)
                \/ k < Len(h) /\ h[k + 1].sought /\ \A j \in k + 2..Len(h) : ~h[j].sought
<1> DEFINE named == {k \in 1..Len(h) : h[k].sought}
           last == CHOOSE k \in named : \A j \in named : j <= k
<1>0. Len(h) \in Nat /\ named \subseteq 1..Len(h)
  OBVIOUS
<1>1. CASE Len(h) < maxHistory \/ named = {}
  <2>1. Shortened(h) = h
    BY <1>1 DEF Shortened
  <2>2. h = SubSeq(h, 1, Len(h))
    OBVIOUS
  <2>3. Len(h) < maxHistory \/ \A j \in 1..Len(h) : ~h[j].sought
    BY <1>1
  <2>4. Len(h) \in 0..Len(h)
    BY <1>0
  <2> QED
    BY <2>1, <2>2, <2>3, <2>4
<1>2. CASE ~(Len(h) < maxHistory \/ named = {})
  <2>1. \E k \in named : \A j \in named : j <= k
    BY <1>0, <1>2, LargestExists
  <2>2. last \in named /\ \A j \in named : j <= last
    BY <2>1
  <2>3. Shortened(h) = SubSeq(h, 1, last - 1)
    BY <1>2 DEF Shortened
  <2> HIDE DEF last
  <2>4. last \in 1..Len(h) /\ h[last].sought /\ \A j \in last + 1..Len(h) : ~h[j].sought
    BY <1>0, <2>2
  <2>5. last - 1 \in 0..Len(h) /\ (last - 1) + 1 = last /\ (last - 1) + 2 = last + 1
    BY <1>0, <2>4
  <2> QED
    BY <1>0, <2>3, <2>4, <2>5
<1> QED
  BY <1>1, <1>2

\* The new history is the latest entry on a first part of the old history.
LEMMA HistoryOfFacts ==
    ASSUME NEW b \in Comments, maxHistory \in Nat
    PROVE  /\ HistoryOf(b) \in Seq(Entries)
           /\ Len(HistoryOf(b)) \in 1..Len(b.history) + 1 /\ Len(b.history) \in Nat
           /\ HistoryOf(b)[1] = b.latest
           /\ \A j \in 2..Len(HistoryOf(b)) : HistoryOf(b)[j] = b.history[j - 1]
<1>1. b.latest \in Entries /\ b.history \in Seq(Entries)
  BY DEF Comments
<1>2. PICK k \in 0..Len(b.history) : Shortened(b.history) = SubSeq(b.history, 1, k)
  BY <1>1, ShortenedPrefix
<1>3. /\ SubSeq(b.history, 1, k) \in Seq(Entries) /\ Len(SubSeq(b.history, 1, k)) = k
      /\ \A j \in 1..k : SubSeq(b.history, 1, k)[j] = b.history[j]
  BY <1>1
<1>4. PICK s \in Seq(Entries) : s = SubSeq(b.history, 1, k)
  BY <1>3
<1>5. HistoryOf(b) = <<b.latest>> \o s
  BY <1>2, <1>4 DEF HistoryOf
<1>6. /\ <<b.latest>> \o s \in Seq(Entries) /\ Len(<<b.latest>> \o s) = k + 1
      /\ (<<b.latest>> \o s)[1] = b.latest
      /\ \A j \in 2..k + 1 : (<<b.latest>> \o s)[j] = s[j - 1]
  BY <1>1, <1>3, <1>4
<1> QED
  BY <1>1, <1>3, <1>4, <1>5, <1>6

\* What becomes of the comments when one is changed, or one is added.
LEMMA ChangeFacts ==
    ASSUME comments \in Seq(Comments), NEW p \in 1..Len(comments), NEW b \in Comments
    PROVE  LET c == [comments EXCEPT ![p] = b] IN
           /\ c \in Seq(Comments) /\ Len(c) = Len(comments)
           /\ c[p] = b /\ \A k \in 1..Len(comments) : k # p => c[k] = comments[k]
  OBVIOUS

LEMMA AddFacts ==
    ASSUME comments \in Seq(Comments), NEW b \in Comments
    PROVE  /\ Append(comments, b) \in Seq(Comments)
           /\ Len(Append(comments, b)) = Len(comments) + 1
           /\ Append(comments, b)[Len(comments) + 1] = b
           /\ \A k \in 1..Len(comments) : Append(comments, b)[k] = comments[k]
  OBVIOUS

\* The comments after a step: as they were, one more, or one changed.
Added(b) == comments' = Append(comments, b)
Changed(p, b) == p \in 1..Len(comments) /\ comments' = [comments EXCEPT ![p] = b]

\* The bodies a run may write.
Bodies(r) ==
    {Plain(k) : k \in {"progress", "text", "removed", "suggestions"}}
      \cup {Suggestions(r, t, h) : t \in BOOLEAN, h \in Seq(Entries)}

LEMMA BodyTypes ==
    ASSUME TypeOK, NEW r \in Runs
    PROVE  Bodies(r) \subseteq Comments
<1>1. \A k \in {"progress", "text", "removed", "suggestions"} : Plain(k) \in Comments
  <2>1. NoEntry \in Entries /\ <<>> \in Seq(Entries)
    BY DEF NoEntry, Entries
  <2> QED
    BY <2>1 DEF Plain, Comments
<1>2. \A t \in BOOLEAN, h \in Seq(Entries) : Suggestions(r, t, h) \in Comments
  <2>1. Table(r) \in Runs \cup {None}
    BY DEF Table
  <2>2. \A t \in BOOLEAN : [run |-> Table(r), sought |-> t] \in Entries
    BY <2>1 DEF Entries
  <2>3. \A t \in BOOLEAN : (t /\ outcome[r] # "ticked") \in BOOLEAN
    OBVIOUS
  <2>4. \A t \in BOOLEAN : [run |-> Table(r), sought |-> t /\ outcome[r] # "ticked"] \in Entries
    BY <2>2, <2>3
  <2> QED
    BY <2>4 DEF Suggestions, Comments
<1> QED
  BY <1>1, <1>2 DEF Bodies

LEMMA PublishIs ==
    ASSUME NEW b, NEW res, comments' = Publish(b, res)
    PROVE  UNCHANGED comments \/ Added(b)
  BY DEF Publish, Added

LEMMA EditIs ==
    ASSUME NEW p \in 1..Len(comments), NEW b, NEW res, comments' = Edit(p, b, res)
    PROVE  UNCHANGED comments \/ (Changed(p, b) /\ comments[p].kind # "removed")
  BY DEF Edit, Changed

LEMMA DeleteIs ==
    ASSUME NEW p \in 1..Len(comments), NEW res, comments' = Delete(p, res)
    PROVE  UNCHANGED comments \/ Changed(p, Plain("removed"))
  BY DEF Delete, Changed

\* Whatever is written, comments are comments, and none is lost from the list.
LEMMA WriteType ==
    ASSUME TypeOK, NEW r \in Runs, NEW b \in Bodies(r), NEW p,
           UNCHANGED comments \/ Added(b) \/ Changed(p, b)
    PROVE  /\ comments' \in Seq(Comments) /\ Len(comments) \in Nat /\ Len(comments') \in Nat
           /\ Len(comments) <= Len(comments')
<1>1. b \in Comments /\ comments \in Seq(Comments)
  BY BodyTypes DEF TypeOK
<1>2. CASE UNCHANGED comments
  BY <1>1, <1>2
<1>3. CASE Added(b)
  BY <1>1, <1>3, AddFacts DEF Added
<1>4. CASE Changed(p, b)
  BY <1>1, <1>4, ChangeFacts DEF Changed
<1> QED
  BY <1>2, <1>3, <1>4

-----------------------------------------------------------------------------
\* Types.  A run removes a comment only after it found it.

Found == \A r \in Runs : pc[r] = "remove" => old[r] # 0

\* The variables that hold places, when the list grows.
LEMMA PlacesKept ==
    ASSUME TypeOK, Len(comments) <= Len(comments'), Len(comments) \in Nat, Len(comments') \in Nat
    PROVE  /\ progress \in [Runs -> 0..Len(comments')]
           /\ previous \in [Runs -> SUBSET [place : 1..Len(comments'), body : Comments]]
           /\ old \in [Runs -> 0..Len(comments')]
<1>1. 0..Len(comments) \subseteq 0..Len(comments') /\ 1..Len(comments) \subseteq 1..Len(comments')
  OBVIOUS
<1>2. [place : 1..Len(comments), body : Comments] \subseteq [place : 1..Len(comments'), body : Comments]
  BY <1>1
<1> QED
  BY <1>1, <1>2 DEF TypeOK

\* The comment a run found is one of the pull request, with a history that can be
\* moved on.
LEMMA FoundType ==
    ASSUME TypeOK, NEW r \in Runs, NEW found \in previous[r]
    PROVE  /\ found.place \in 1..Len(comments) /\ found.body \in Comments
           /\ HistoryOf(found.body) \in Seq(Entries)
<1>1. found \in [place : 1..Len(comments), body : Comments]
  BY DEF TypeOK
<1>2. maxHistory \in Nat
  BY Lengths DEF TypeOK
<1> QED
  BY <1>1, <1>2, HistoryOfFacts

\* The bodies the operations write.
LEMMA BodiesHas ==
    ASSUME NEW r
    PROVE  /\ Plain("progress") \in Bodies(r) /\ Plain("text") \in Bodies(r)
           /\ Plain("removed") \in Bodies(r) /\ Plain("suggestions") \in Bodies(r)
           /\ \A t \in BOOLEAN, h \in Seq(Entries) : Suggestions(r, t, h) \in Bodies(r)
           /\ \A t \in BOOLEAN : Suggestions(r, t, <<>>) \in Bodies(r)
<1>1. <<>> \in Seq(Entries)
  OBVIOUS
<1>2. \A t \in BOOLEAN, h \in Seq(Entries) : Suggestions(r, t, h) \in Bodies(r)
  BY DEF Bodies
<1>3. \A t \in BOOLEAN : Suggestions(r, t, <<>>) \in Bodies(r)
  BY <1>1, <1>2
<1>4. /\ Plain("progress") \in Bodies(r) /\ Plain("text") \in Bodies(r)
      /\ Plain("removed") \in Bodies(r) /\ Plain("suggestions") \in Bodies(r)
  BY DEF Bodies
<1> QED
  BY <1>2, <1>3, <1>4

\* What takes the place of a comment without a table.
LEMMA RenderedIs ==
    ASSUME NEW r
    PROVE  /\ Rendered(r) \in Bodies(r) /\ Rendered(r).kind # "progress"
           /\ Rendered(r).kind # "suggestions" \/ Rendered(r) = Suggestions(r, FALSE, <<>>)
<1>1. CASE Table(r) = None
  <2>1. Rendered(r) = Plain("text") /\ Plain("text") \in Bodies(r)
    BY <1>1, BodiesHas DEF Rendered
  <2> QED
    BY <2>1 DEF Plain
<1>2. CASE Table(r) # None
  <2>1. Rendered(r) = Suggestions(r, FALSE, <<>>) /\ Suggestions(r, FALSE, <<>>) \in Bodies(r)
    BY <1>2, BodiesHas DEF Rendered
  <2> QED
    BY <2>1 DEF Suggestions
<1> QED
  BY <1>1, <1>2

\* What a write of the API leaves of the types.
LEMMA WriteKeeps ==
    ASSUME TypeOK, NEW r \in Runs, NEW b \in Bodies(r), NEW p,
           UNCHANGED comments \/ Added(b) \/ Changed(p, b)
    PROVE  /\ comments' \in Seq(Comments)
           /\ progress \in [Runs -> 0..Len(comments')]
           /\ previous \in [Runs -> SUBSET [place : 1..Len(comments'), body : Comments]]
           /\ old \in [Runs -> 0..Len(comments')]
           /\ Len(comments) \in Nat /\ Len(comments') \in Nat /\ Len(comments) <= Len(comments')
<1>1. /\ comments' \in Seq(Comments) /\ Len(comments) \in Nat /\ Len(comments') \in Nat
      /\ Len(comments) <= Len(comments')
  BY WriteType
<1> QED
  BY <1>1, PlacesKept

LEMMA TypeInit == Init => TypeOK /\ Found
<1> SUFFICES ASSUME Init PROVE TypeOK /\ Found
  OBVIOUS
<1>1. Len(comments) = 0 /\ comments \in Seq(Comments) /\ published \in Seq(Runs)
  BY DEF Init
<1> QED
  BY <1>1 DEF Init, TypeOK, Found, Publishing

LEMMA TypeNext == TypeOK /\ Found /\ [Next]_vars => TypeOK' /\ Found'
<1> SUFFICES ASSUME TypeOK, Found, [Next]_vars PROVE TypeOK' /\ Found'
  OBVIOUS
<1>0. Len(comments) \in Nat /\ comments \in Seq(Comments)
  BY DEF TypeOK
<1>1. CASE UNCHANGED vars
  BY <1>1 DEF vars, TypeOK, Found
<1>2. ASSUME NEW r \in Runs, Start(r) PROVE TypeOK' /\ Found'
  <2>1. CASE progressOn[r]
    <3>1. PICK res \in Results :
            /\ comments' = Publish(Plain("progress"), res)
            /\ progress' = [progress EXCEPT ![r] = Response(res)]
            /\ Goto(r, IF PublishRaises(res) THEN "failed" ELSE "model")
      BY <1>2, <2>1 DEF Start
    <3>2. UNCHANGED comments \/ Added(Plain("progress"))
      BY <3>1, PublishIs
    <3>3. Plain("progress") \in Bodies(r)
      BY BodiesHas
    <3>4. /\ comments' \in Seq(Comments)
          /\ progress \in [Runs -> 0..Len(comments')]
          /\ previous \in [Runs -> SUBSET [place : 1..Len(comments'), body : Comments]]
          /\ old \in [Runs -> 0..Len(comments')]
          /\ Len(comments') \in Nat /\ Len(comments) <= Len(comments')
      BY <3>2, <3>3, WriteKeeps
    <3>5. Response(res) \in 0..Len(comments')
      <4>1. CASE PublishRaises(res)
        BY <3>4, <4>1 DEF Response
      <4>2. CASE ~PublishRaises(res)
        <5>1. comments' = Append(comments, Plain("progress"))
          BY <3>1, <4>2 DEF PublishRaises, Publish, Written
        <5>2. Len(comments') = Len(comments) + 1
          BY <1>0, <5>1
        <5> QED
          BY <1>0, <3>4, <4>2, <5>2 DEF Response
      <4> QED
        BY <4>1, <4>2
    <3>6. progress' \in [Runs -> 0..Len(comments')]
      BY <3>1, <3>4, <3>5
    <3> QED
      BY <1>2, <3>1, <3>4, <3>6 DEF Start, TypeOK, Found, Goto, conf, Publishing
  <2>2. CASE ~progressOn[r]
    BY <1>2, <2>2 DEF Start, TypeOK, Found, Goto, conf, Publishing
  <2> QED
    BY <2>1, <2>2
<1>3. ASSUME NEW r \in Runs, Answer(r) PROVE TypeOK' /\ Found'
  <2>1. PICK o \in Outcomes : 
          /\ outcome' = [outcome EXCEPT ![r] = o]
          /\ Goto(r, CASE o = "error" -> "failed"
                       [] o = "none" -> "none"
                       [] OTHER -> IF maxHistory > 0 THEN "list" ELSE "new")
    BY <1>3 DEF Answer
  <2>2. o \in AllOutcomes
    BY ImproveCommentsAssumption
  <2>3. \E there \in {"failed", "none", "list", "new"} : Goto(r, there)
    BY <2>1
  <2> QED
    BY <1>3, <2>1, <2>2, <2>3 DEF Answer, TypeOK, Found, Goto, conf, Publishing
<1>4. ASSUME NEW r \in Runs, NoSuggestions(r) PROVE TypeOK' /\ Found'
  <2>1. \/ UNCHANGED comments
        \/ Added(Plain("suggestions"))
        \/ Changed(progress[r], Plain("suggestions"))
    <3>1. progress[r] # 0 => progress[r] \in 1..Len(comments)
      BY <1>0 DEF TypeOK
    <3> QED
      BY <1>4, <3>1, PublishIs, EditIs DEF NoSuggestions
  <2>2. Plain("suggestions") \in Bodies(r)
    BY BodiesHas
  <2>3. /\ comments' \in Seq(Comments)
        /\ progress \in [Runs -> 0..Len(comments')]
        /\ previous \in [Runs -> SUBSET [place : 1..Len(comments'), body : Comments]]
        /\ old \in [Runs -> 0..Len(comments')]
    BY <2>1, <2>2, WriteKeeps
  <2>4. Goto(r, "done") \/ Goto(r, "failed")
    BY <1>4 DEF NoSuggestions
  <2> QED
    BY <1>4, <2>3, <2>4 DEF NoSuggestions, TypeOK, Found, Goto, conf, Publishing
<1>5. ASSUME NEW r \in Runs, List(r) PROVE TypeOK' /\ Found'
  <2>1. Listed \in SUBSET [place : 1..Len(comments), body : Comments]
    BY <1>0 DEF Listed
  <2> QED
    BY <1>5, <2>1 DEF List, TypeOK, Found, Goto, conf, Publishing
<1>6. ASSUME NEW r \in Runs, Scan(r) PROVE TypeOK' /\ Found'
  <2>1. CASE /\ previous[r] = {}
             /\ Goto(r, "new")
             /\ UNCHANGED <<comments, previous, old, published>>
    BY <1>6, <2>1 DEF Scan, TypeOK, Found, Goto, conf, Publishing
  <2>2. ASSUME NEW found \in previous[r], NEW res \in Results, ~HasTable(found.body),
               comments' = Edit(found.place, Rendered(r), res),
               previous' = [previous EXCEPT ![r] = IF EditRaises(res) THEN {} ELSE @ \ {found}],
               Goto(r, IF EditRaises(res) THEN "new" ELSE "scan"),
               UNCHANGED <<old, published>>
        PROVE  TypeOK' /\ Found'
    <3>1. found.place \in 1..Len(comments)
      BY FoundType
    <3>2. UNCHANGED comments \/ Changed(found.place, Rendered(r))
      BY <2>2, <3>1, EditIs
    <3>3. Rendered(r) \in Bodies(r)
      BY RenderedIs
    <3>4. /\ comments' \in Seq(Comments)
          /\ progress \in [Runs -> 0..Len(comments')]
          /\ previous \in [Runs -> SUBSET [place : 1..Len(comments'), body : Comments]]
          /\ old \in [Runs -> 0..Len(comments')]
      BY <3>2, <3>3, WriteKeeps
    <3>5. previous' \in [Runs -> SUBSET [place : 1..Len(comments'), body : Comments]]
      BY <2>2, <3>4
    <3>6. UNCHANGED <<conf, outcome, progress>>
      BY <1>6 DEF Scan
    <3> QED
      BY <2>2, <3>4, <3>5, <3>6 DEF TypeOK, Found, Goto, conf, Publishing
  <2>3. ASSUME NEW found \in previous[r], NEW res \in Results,
               comments' = Edit(IF progress[r] # 0 THEN progress[r] ELSE found.place,
                                Suggestions(r, TRUE, HistoryOf(found.body)), res),
               previous' = [previous EXCEPT ![r] = {}],
               IF EditRaises(res)
                 THEN Goto(r, "new") /\ UNCHANGED <<old, published>>
                 ELSE /\ Goto(r, AfterUpdate(r))
                      /\ old' = [old EXCEPT ![r] = found.place]
                      /\ published' = Append(published, r)
        PROVE  TypeOK' /\ Found'
    <3> DEFINE p == IF progress[r] # 0 THEN progress[r] ELSE found.place
               b == Suggestions(r, TRUE, HistoryOf(found.body))
    <3>1. found.place \in 1..Len(comments) /\ HistoryOf(found.body) \in Seq(Entries)
      BY FoundType
    <3>2. p \in 1..Len(comments)
      BY <1>0, <3>1 DEF TypeOK
    <3>3. b \in Bodies(r)
      BY <3>1, BodiesHas
    <3> HIDE DEF p, b
    <3>4. UNCHANGED comments \/ Changed(p, b)
      BY <2>3, <3>2, EditIs DEF p, b
    <3>5. /\ comments' \in Seq(Comments)
          /\ progress \in [Runs -> 0..Len(comments')]
          /\ previous \in [Runs -> SUBSET [place : 1..Len(comments'), body : Comments]]
          /\ old \in [Runs -> 0..Len(comments')]
          /\ Len(comments) \in Nat /\ Len(comments') \in Nat /\ Len(comments) <= Len(comments')
      BY <3>3, <3>4, WriteKeeps
    <3>6. previous' \in [Runs -> SUBSET [place : 1..Len(comments'), body : Comments]]
      BY <2>3, <3>5
    <3>7. UNCHANGED <<conf, outcome, progress>>
      BY <1>6 DEF Scan
    <3>8. found.place \in 0..Len(comments') /\ found.place # 0
      BY <3>1, <3>5
    <3>9. CASE EditRaises(res)
      BY <2>3, <3>5, <3>6, <3>7, <3>9 DEF TypeOK, Found, Goto, conf, Publishing
    <3>10. CASE ~EditRaises(res)
      <4>1. old' \in [Runs -> 0..Len(comments')] /\ old'[r] # 0
        BY <2>3, <3>5, <3>8, <3>10 DEF TypeOK
      <4>2. published' \in Seq(Runs)
        <5>1. published \in Seq(Runs)
          BY DEF TypeOK
        <5>2. Append(published, r) \in Seq(Runs)
          BY <5>1
        <5> QED
          BY <2>3, <3>10, <5>2
      <4>3. pc' \in [Runs -> Publishing \cup {"idle", "model", "done"}]
        BY <2>3, <3>10 DEF TypeOK, Goto, AfterUpdate, Publishing
      <4>4. Found'
        BY <2>3, <3>10, <4>1 DEF Found, Goto, TypeOK
      <4> QED
        BY <3>5, <3>6, <3>7, <4>1, <4>2, <4>3, <4>4 DEF TypeOK, conf
    <3> QED
      BY <3>9, <3>10
  <2> QED
    BY <1>6, <2>1, <2>2, <2>3 DEF Scan
<1>7. ASSUME NEW r \in Runs, RemoveOld(r) PROVE TypeOK' /\ Found'
  <2>1. old[r] \in 1..Len(comments)
    BY <1>0, <1>7 DEF RemoveOld, Found, TypeOK
  <2>2. UNCHANGED comments \/ Changed(old[r], Plain("removed"))
    BY <1>7, <2>1, DeleteIs DEF RemoveOld
  <2>3. Plain("removed") \in Bodies(r)
    BY BodiesHas
  <2>4. /\ comments' \in Seq(Comments)
        /\ progress \in [Runs -> 0..Len(comments')]
        /\ previous \in [Runs -> SUBSET [place : 1..Len(comments'), body : Comments]]
        /\ old \in [Runs -> 0..Len(comments')]
    BY <2>2, <2>3, WriteKeeps
  <2> QED
    BY <1>7, <2>4 DEF RemoveOld, TypeOK, Found, Goto, conf, Publishing
<1>8. ASSUME NEW r \in Runs, New(r) PROVE TypeOK' /\ Found'
  <2> DEFINE b == Suggestions(r, TRUE, <<>>)
  <2>1. UNCHANGED comments \/ Added(b) \/ Changed(progress[r], b)
    <3>1. progress[r] # 0 => progress[r] \in 1..Len(comments)
      BY <1>0 DEF TypeOK
    <3> QED
      BY <1>8, <3>1, PublishIs, EditIs DEF New
  <2>2. b \in Bodies(r)
    BY BodiesHas
  <2>3. /\ comments' \in Seq(Comments)
        /\ progress \in [Runs -> 0..Len(comments')]
        /\ previous \in [Runs -> SUBSET [place : 1..Len(comments'), body : Comments]]
        /\ old \in [Runs -> 0..Len(comments')]
    BY <2>1, <2>2, WriteKeeps
  <2>4. Goto(r, "done") \/ Goto(r, "failed")
    BY <1>8 DEF New
  <2>5. published' \in Seq(Runs)
    BY <1>8 DEF New, TypeOK
  <2> QED
    BY <1>8, <2>3, <2>4, <2>5 DEF New, TypeOK, Found, Goto, conf, Publishing
<1>9. ASSUME NEW r \in Runs, Failed(r) PROVE TypeOK' /\ Found'
  <2>1. \/ UNCHANGED comments
        \/ Added(Plain("text"))
        \/ Changed(progress[r], Plain("removed"))
    <3>1. progress[r] # 0 => progress[r] \in 1..Len(comments)
      BY <1>0 DEF TypeOK
    <3> QED
      BY <1>9, <3>1, PublishIs, DeleteIs DEF Failed, Cleared
  <2>2. Plain("text") \in Bodies(r) /\ Plain("removed") \in Bodies(r)
    BY BodiesHas
  <2>3. /\ comments' \in Seq(Comments)
        /\ progress \in [Runs -> 0..Len(comments')]
        /\ previous \in [Runs -> SUBSET [place : 1..Len(comments'), body : Comments]]
        /\ old \in [Runs -> 0..Len(comments')]
    BY <2>1, <2>2, WriteKeeps
  <2> QED
    BY <1>9, <2>3 DEF Failed, TypeOK, Found, Goto, conf, Publishing
<1> QED
  BY <1>1, <1>2, <1>3, <1>4, <1>5, <1>6, <1>7, <1>8, <1>9 DEF Next, Run

\* The comments and the variables of PRCodeSuggestions.run keep their types: a
\* place a run holds is the place of a comment, however the list grew meanwhile.
THEOREM CommentsTypeCorrectness == Spec => []TypeOK
<1>1. Spec => [](TypeOK /\ Found)
  BY TypeInit, TypeNext, PTL DEF Spec
<1> QED
  BY <1>1, PTL

-----------------------------------------------------------------------------
\* "Work in progress ...".  Without faults a run writes over its progress comment
\* or deletes it, and no write to a comment that is there makes one of it.

Gone ==
    faults = {} /\ reportNone =>
        \A r \in Runs : pc[r] \in {"remove", "done"} /\ progress[r] # 0 =>
            comments[progress[r]].kind # "progress"

\* No comment becomes a progress comment.
Fewer == \A k \in 1..Len(comments) : comments'[k].kind = "progress" => comments[k].kind = "progress"

LEMMA FewerIf ==
    ASSUME TypeOK, NEW r \in Runs, NEW b \in Bodies(r), NEW p,
           UNCHANGED comments \/ Added(b) \/ (Changed(p, b) /\ b.kind # "progress")
    PROVE  Fewer
<1>1. b \in Comments /\ comments \in Seq(Comments)
  BY BodyTypes DEF TypeOK
<1>2. CASE UNCHANGED comments
  BY <1>2 DEF Fewer
<1>3. CASE Added(b)
  BY <1>1, <1>3, AddFacts DEF Added, Fewer
<1>4. CASE Changed(p, b) /\ b.kind # "progress"
  BY <1>1, <1>4, ChangeFacts DEF Changed, Fewer
<1> QED
  BY <1>2, <1>3, <1>4

\* Without faults an edit leaves no progress comment where it is made.
LEMMA EditLands ==
    ASSUME TypeOK, faults = {}, NEW r \in Runs, NEW b \in Bodies(r), b.kind # "progress",
           NEW res \in Results, NEW p \in 1..Len(comments), comments' = Edit(p, b, res)
    PROVE  Fewer /\ comments'[p].kind # "progress"
<1>1. b \in Comments /\ comments \in Seq(Comments)
  BY BodyTypes DEF TypeOK
<1>2. UNCHANGED comments \/ (Changed(p, b) /\ comments[p].kind # "removed")
  BY EditIs
<1>3. Fewer
  BY <1>2, FewerIf
<1>4. res = "ok"
  BY DEF Results
<1>5. CASE comments[p].kind # "removed"
  <2>1. comments' = [comments EXCEPT ![p] = b]
    BY <1>4, <1>5 DEF Edit, Written
  <2> QED
    BY <1>1, <1>3, <2>1, ChangeFacts
<1>6. CASE comments[p].kind = "removed"
  BY <1>6, <1>3 DEF Edit
<1> QED
  BY <1>5, <1>6

LEMMA DeleteLands ==
    ASSUME TypeOK, faults = {}, NEW res \in Results, NEW p \in 1..Len(comments),
           NEW r \in Runs, comments' = Delete(p, res)
    PROVE  Fewer /\ comments'[p].kind # "progress"
<1>1. Plain("removed") \in Bodies(r) /\ Plain("removed").kind # "progress"
  BY BodiesHas DEF Plain
<1>2. Plain("removed") \in Comments /\ comments \in Seq(Comments)
  BY <1>1, BodyTypes DEF TypeOK
<1>3. comments' = [comments EXCEPT ![p] = Plain("removed")]
  BY DEF Delete, Results, Written
<1>4. Fewer
  BY <1>1, <1>3, FewerIf DEF Changed
<1> QED
  BY <1>1, <1>2, <1>3, <1>4, ChangeFacts

LEMMA GoneNext == TypeOK /\ Found /\ Gone /\ [Next]_vars => Gone'
<1> SUFFICES ASSUME TypeOK, Found, Gone, [Next]_vars PROVE Gone'
  OBVIOUS
<1>0. Len(comments) \in Nat /\ comments \in Seq(Comments) /\ \A q \in Runs : progress[q] \in 0..Len(comments)
  BY DEF TypeOK
<1>1. CASE UNCHANGED vars
  BY <1>1 DEF vars, conf, Gone
<1>2. ASSUME NEW r \in Runs, Run(r) PROVE Gone'
  <2>1. UNCHANGED conf /\ \A q \in Runs \ {r} : pc'[q] = pc[q] /\ progress'[q] = progress[q]
    BY <1>2 DEF Run, Start, Answer, NoSuggestions, List, Scan, RemoveOld, New, Failed, Goto, TypeOK
  <2> SUFFICES ASSUME faults = {}, reportNone
               PROVE  /\ Fewer
                      /\ pc'[r] \in {"remove", "done"} /\ progress'[r] # 0 =>
                             comments'[progress'[r]].kind # "progress"
    <3>1. ASSUME Fewer, faults = {}, reportNone, NEW q \in Runs \ {r},
                 pc'[q] \in {"remove", "done"}, progress'[q] # 0
          PROVE  comments'[progress'[q]].kind # "progress"
      <4>1. pc[q] \in {"remove", "done"} /\ progress[q] # 0 /\ progress'[q] = progress[q]
        BY <2>1, <3>1
      <4>2. comments[progress[q]].kind # "progress" /\ progress[q] \in 1..Len(comments)
        BY <1>0, <3>1, <4>1 DEF Gone
      <4> QED
        BY <3>1, <4>1, <4>2 DEF Fewer
    <3> QED
      BY <2>1, <3>1 DEF Gone, conf
  <2>2. /\ Plain("suggestions") \in Bodies(r) /\ Plain("suggestions").kind # "progress"
        /\ Plain("text") \in Bodies(r) /\ Plain("progress") \in Bodies(r)
    BY BodiesHas DEF Plain
  <2>3. \A t \in BOOLEAN, h \in Seq(Entries) :
           Suggestions(r, t, h) \in Bodies(r) /\ Suggestions(r, t, h).kind # "progress"
    BY BodiesHas DEF Suggestions
  <2>4. \A t \in BOOLEAN :
           Suggestions(r, t, <<>>) \in Bodies(r) /\ Suggestions(r, t, <<>>).kind # "progress"
    BY BodiesHas DEF Suggestions
  <2>5. \A res \in Results : ~EditRaises(res)
    BY DEF Results, EditRaises
  <2>6. CASE Start(r)
    <3>1. UNCHANGED comments \/ Added(Plain("progress"))
      BY <2>6, PublishIs DEF Start
    <3>2. Fewer
      BY <2>2, <3>1, FewerIf
    <3>3. pc'[r] \notin {"remove", "done"}
      BY <2>6 DEF Start, Goto, TypeOK
    <3> QED
      BY <3>2, <3>3
  <2>7. CASE Answer(r)
    <3>1. UNCHANGED comments /\ pc'[r] \notin {"remove", "done"}
      BY <2>7 DEF Answer, Goto, TypeOK
    <3> QED
      BY <3>1 DEF Fewer
  <2>8. CASE NoSuggestions(r)
    <3>1. PICK res \in Results :
            IF progress[r] # 0 THEN comments' = Edit(progress[r], Plain("suggestions"), res)
                               ELSE comments' = Publish(Plain("suggestions"), res)
      BY <2>8 DEF NoSuggestions
    <3>2. CASE progress[r] # 0
      <4>1. progress[r] \in 1..Len(comments)
        BY <1>0, <3>2
      <4>2. Fewer /\ comments'[progress[r]].kind # "progress"
        BY <2>2, <3>1, <3>2, <4>1, EditLands
      <4> QED
        BY <2>8, <4>2 DEF NoSuggestions
    <3>3. CASE progress[r] = 0
      <4>1. UNCHANGED comments \/ Added(Plain("suggestions"))
        BY <3>1, <3>3, PublishIs
      <4>2. Fewer
        BY <2>2, <4>1, FewerIf
      <4> QED
        BY <2>8, <3>3, <4>2 DEF NoSuggestions
    <3> QED
      BY <3>2, <3>3
  <2>9. CASE List(r)
    <3>1. UNCHANGED comments /\ pc'[r] \notin {"remove", "done"}
      BY <2>9 DEF List, Goto, TypeOK
    <3> QED
      BY <3>1 DEF Fewer
  <2>10. CASE Scan(r)
    <3>0. UNCHANGED progress
      BY <2>10 DEF Scan
    <3>1. CASE Goto(r, "new") /\ UNCHANGED comments
      <4>1. pc'[r] \notin {"remove", "done"}
        BY <3>1 DEF Goto, TypeOK
      <4> QED
        BY <3>1, <4>1 DEF Fewer
    <3>2. ASSUME NEW found \in previous[r], NEW res \in Results, Goto(r, "scan"),
                 comments' = Edit(found.place, Rendered(r), res)
          PROVE  Fewer /\ pc'[r] \notin {"remove", "done"}
      <4>1. found.place \in 1..Len(comments)
        BY FoundType
      <4>2. Fewer
        BY <3>2, <4>1, RenderedIs, EditLands
      <4>3. pc'[r] = "scan"
        BY <3>2 DEF Goto, TypeOK
      <4> QED
        BY <4>2, <4>3
    <3>3. ASSUME NEW found \in previous[r], NEW res \in Results,
                 comments' = Edit(IF progress[r] # 0 THEN progress[r] ELSE found.place,
                                  Suggestions(r, TRUE, HistoryOf(found.body)), res)
          PROVE  Fewer /\ (progress[r] # 0 => comments'[progress[r]].kind # "progress")
      <4> DEFINE p == IF progress[r] # 0 THEN progress[r] ELSE found.place
                 b == Suggestions(r, TRUE, HistoryOf(found.body))
      <4>1. found.place \in 1..Len(comments) /\ HistoryOf(found.body) \in Seq(Entries)
        BY FoundType
      <4>2. p \in 1..Len(comments)
        BY <1>0, <4>1
      <4>3. b \in Bodies(r) /\ b.kind # "progress"
        BY <2>3, <4>1
      <4>4. comments' = Edit(p, b, res)
        BY <3>3
      <4>5. progress[r] # 0 => p = progress[r]
        OBVIOUS
      <4> HIDE DEF p, b
      <4>6. Fewer /\ comments'[p].kind # "progress"
        BY <4>2, <4>3, <4>4, EditLands
      <4> QED
        BY <4>5, <4>6
    <3>4. \/ Goto(r, "new") /\ UNCHANGED comments
          \/ \E found \in previous[r], res \in Results :
               \/ /\ comments' = Edit(found.place, Rendered(r), res)
                  /\ Goto(r, "scan")
               \/ comments' = Edit(IF progress[r] # 0 THEN progress[r] ELSE found.place,
                                   Suggestions(r, TRUE, HistoryOf(found.body)), res)
      BY <2>5, <2>10 DEF Scan
    <3> QED
      BY <3>0, <3>1, <3>2, <3>3, <3>4
  <2>11. CASE RemoveOld(r)
    <3>1. old[r] \in 1..Len(comments)
      BY <1>0, <2>11 DEF RemoveOld, Found, TypeOK
    <3>2. Fewer
      BY <2>11, <3>1, DeleteLands DEF RemoveOld
    <3>3. progress[r] # 0 => comments[progress[r]].kind # "progress"
      BY <2>11 DEF RemoveOld, Gone
    <3>4. UNCHANGED progress
      BY <2>11 DEF RemoveOld
    <3> QED
      BY <1>0, <3>2, <3>3, <3>4 DEF Fewer
  <2>12. CASE New(r)
    <3> DEFINE b == Suggestions(r, TRUE, <<>>)
    <3>0. b \in Bodies(r) /\ b.kind # "progress"
      BY <2>4
    <3>1. PICK res \in Results :
            comments' = IF progress[r] # 0 THEN Edit(progress[r], b, res) ELSE Publish(b, res)
      BY <2>12 DEF New
    <3> HIDE DEF b
    <3>2. CASE progress[r] # 0
      <4>1. progress[r] \in 1..Len(comments)
        BY <1>0, <3>2
      <4>2. Fewer /\ comments'[progress[r]].kind # "progress"
        BY <3>0, <3>1, <3>2, <4>1, EditLands
      <4> QED
        BY <2>12, <4>2 DEF New
    <3>3. CASE progress[r] = 0
      <4>1. UNCHANGED comments \/ Added(b)
        BY <3>1, <3>3, PublishIs
      <4>2. Fewer
        BY <3>0, <4>1, FewerIf
      <4> QED
        BY <2>12, <3>3, <4>2 DEF New
    <3> QED
      BY <3>2, <3>3
  <2>13. CASE Failed(r)
    <3>1. PICK res \in Results : comments' = Cleared(r, res)
      BY <2>13 DEF Failed
    <3>2. CASE progress[r] # 0
      <4>1. progress[r] \in 1..Len(comments)
        BY <1>0, <3>2
      <4>2. Fewer /\ comments'[progress[r]].kind # "progress"
        BY <3>1, <3>2, <4>1, DeleteLands DEF Cleared
      <4> QED
        BY <2>13, <4>2 DEF Failed
    <3>3. CASE progress[r] = 0
      <4>1. UNCHANGED comments \/ Added(Plain("text"))
        BY <3>1, <3>3, PublishIs DEF Cleared
      <4>2. Fewer
        BY <2>2, <4>1, FewerIf
      <4> QED
        BY <2>13, <3>3, <4>2 DEF Failed
    <3> QED
      BY <3>2, <3>3
  <2> QED
    BY <1>2, <2>6, <2>7, <2>8, <2>9, <2>10, <2>11, <2>12, <2>13 DEF Run
<1> QED
  BY <1>1, <1>2 DEF Next

\* No "Work in progress ..." outlives its run (PRCodeSuggestions.run), whatever
\* the other runs do: nothing turns a comment back into one.
THEOREM ProgressCorrectness == Spec => []ProgressCleared
<1>1. Init => Gone
  BY DEF Init, Gone
<1>2. Gone => ProgressCleared
  BY DEF Gone, ProgressCleared
<1>3. Spec => [](TypeOK /\ Found /\ Gone)
  BY <1>1, TypeInit, TypeNext, GoneNext, PTL DEF Spec
<1> QED
  BY <1>2, <1>3, PTL

-----------------------------------------------------------------------------
\* What a step of a run writes, and what it does to the rest.

\* The bodies the next step of r may write.
Fresh(r, b) ==
    \/ b.kind # "suggestions"
    \/ pc[r] = "none" /\ b = Plain("suggestions")
    \/ pc[r] = "scan" /\ b = Suggestions(r, FALSE, <<>>)
                      /\ \E found \in previous[r] : ~HasTable(found.body)
    \/ pc[r] = "scan" /\ \E found \in previous[r] : b = Suggestions(r, TRUE, HistoryOf(found.body))
    \/ pc[r] = "new" /\ b = Suggestions(r, TRUE, <<>>)

Writes(r, p, b) ==
    /\ b \in Bodies(r) /\ Fresh(r, b)
    /\ UNCHANGED comments \/ Added(b) \/ Changed(p, b)

LEMMA StepWrites ==
    ASSUME TypeOK, Found, NEW r \in Runs, Run(r)
    PROVE  \E p, b : Writes(r, p, b)
<1>0. /\ Len(comments) \in Nat
      /\ \A q \in Runs : progress[q] \in 0..Len(comments) /\ old[q] \in 0..Len(comments)
  BY DEF TypeOK
<1>1. \A k \in {"progress", "text", "removed"} : Plain(k) \in Bodies(r) /\ Fresh(r, Plain(k))
  BY BodiesHas DEF Fresh, Plain
<1>2. ASSUME UNCHANGED comments PROVE \E p, b : Writes(r, p, b)
  BY <1>1, <1>2 DEF Writes
<1>3. CASE Start(r)
  <2>1. UNCHANGED comments \/ Added(Plain("progress"))
    BY <1>3, PublishIs DEF Start
  <2> QED
    BY <1>1, <2>1 DEF Writes
<1>4. CASE Answer(r) \/ List(r)
  BY <1>2, <1>4 DEF Answer, List
<1>5. CASE NoSuggestions(r)
  <2>1. UNCHANGED comments \/ Added(Plain("suggestions")) \/ Changed(progress[r], Plain("suggestions"))
    <3>1. progress[r] # 0 => progress[r] \in 1..Len(comments)
      BY <1>0
    <3> QED
      BY <1>5, <3>1, PublishIs, EditIs DEF NoSuggestions
  <2>2. Plain("suggestions") \in Bodies(r) /\ Fresh(r, Plain("suggestions"))
    BY <1>5, BodiesHas DEF NoSuggestions, Fresh
  <2> QED
    BY <2>1, <2>2 DEF Writes
<1>6. CASE Scan(r)
  <2>1. ASSUME NEW found \in previous[r], NEW res \in Results, ~HasTable(found.body),
               comments' = Edit(found.place, Rendered(r), res)
        PROVE  \E p, b : Writes(r, p, b)
    <3> DEFINE b == Rendered(r)
    <3>1. found.place \in 1..Len(comments)
      BY FoundType
    <3>2. UNCHANGED comments \/ Changed(found.place, b)
      BY <2>1, <3>1, EditIs
    <3>3. b \in Bodies(r)
      BY RenderedIs
    <3>4. Fresh(r, b)
      BY <1>6, <2>1, RenderedIs DEF Scan, Fresh
    <3> QED
      BY <3>2, <3>3, <3>4 DEF Writes
  <2>2. ASSUME NEW found \in previous[r], NEW res \in Results,
               comments' = Edit(IF progress[r] # 0 THEN progress[r] ELSE found.place,
                                Suggestions(r, TRUE, HistoryOf(found.body)), res)
        PROVE  \E p, b : Writes(r, p, b)
    <3> DEFINE p == IF progress[r] # 0 THEN progress[r] ELSE found.place
               b == Suggestions(r, TRUE, HistoryOf(found.body))
    <3>1. found.place \in 1..Len(comments) /\ HistoryOf(found.body) \in Seq(Entries)
      BY FoundType
    <3>2. p \in 1..Len(comments)
      BY <1>0, <3>1
    <3>3. UNCHANGED comments \/ Changed(p, b)
      BY <2>2, <3>2, EditIs
    <3>4. b \in Bodies(r)
      BY <3>1, BodiesHas
    <3>5. Fresh(r, b)
      BY <1>6, <2>2 DEF Scan, Fresh
    <3> QED
      BY <3>3, <3>4, <3>5 DEF Writes
  <2>3. \/ UNCHANGED comments
        \/ \E found \in previous[r], res \in Results :
             \/ ~HasTable(found.body) /\ comments' = Edit(found.place, Rendered(r), res)
             \/ comments' = Edit(IF progress[r] # 0 THEN progress[r] ELSE found.place,
                                 Suggestions(r, TRUE, HistoryOf(found.body)), res)
    BY <1>6 DEF Scan
  <2> QED
    BY <1>2, <2>1, <2>2, <2>3
<1>7. CASE RemoveOld(r)
  <2>1. old[r] \in 1..Len(comments)
    BY <1>0, <1>7 DEF RemoveOld, Found
  <2>2. UNCHANGED comments \/ Changed(old[r], Plain("removed"))
    BY <1>7, <2>1, DeleteIs DEF RemoveOld
  <2> QED
    BY <1>1, <2>2 DEF Writes
<1>8. CASE New(r)
  <2> DEFINE b == Suggestions(r, TRUE, <<>>)
  <2>1. UNCHANGED comments \/ Added(b) \/ Changed(progress[r], b)
    <3>1. progress[r] # 0 => progress[r] \in 1..Len(comments)
      BY <1>0
    <3> QED
      BY <1>8, <3>1, PublishIs, EditIs DEF New
  <2>2. b \in Bodies(r)
    BY BodiesHas
  <2>3. Fresh(r, b)
    BY <1>8 DEF New, Fresh
  <2> QED
    BY <2>1, <2>2, <2>3 DEF Writes
<1>9. CASE Failed(r)
  <2>1. \/ UNCHANGED comments \/ Added(Plain("text")) \/ Changed(progress[r], Plain("removed"))
    <3>1. progress[r] # 0 => progress[r] \in 1..Len(comments)
      BY <1>0
    <3> QED
      BY <1>9, <3>1, PublishIs, DeleteIs DEF Failed, Cleared
  <2> QED
    BY <1>1, <2>1 DEF Writes
<1> QED
  BY <1>3, <1>4, <1>5, <1>6, <1>7, <1>8, <1>9 DEF Run

\* A comment is what was written, or what it was.
LEMMA WrittenIs ==
    ASSUME TypeOK, NEW r \in Runs, NEW p, NEW b, Writes(r, p, b)
    PROVE  /\ b \in Comments
           /\ \A k \in Persistent' :
                \/ comments'[k] = b /\ b.kind = "suggestions"
                \/ k \in Persistent /\ comments'[k] = comments[k]
<1>1. b \in Comments /\ comments \in Seq(Comments) /\ Len(comments) \in Nat
  BY BodyTypes DEF TypeOK, Writes
<1>2. \A k \in 1..Len(comments') :
         comments'[k] = b \/ (k \in 1..Len(comments) /\ comments'[k] = comments[k])
  <2>1. CASE UNCHANGED comments
    BY <2>1
  <2>2. CASE Added(b)
    <3>1. /\ Len(comments') = Len(comments) + 1 /\ comments'[Len(comments) + 1] = b
          /\ \A k \in 1..Len(comments) : comments'[k] = comments[k]
      BY <1>1, <2>2, AddFacts DEF Added
    <3>2. \A k \in 1..Len(comments') : k \in 1..Len(comments) \/ k = Len(comments) + 1
      BY <1>1, <3>1
    <3> QED
      BY <3>1, <3>2
  <2>3. CASE Changed(p, b)
    BY <1>1, <2>3, ChangeFacts DEF Changed
  <2> QED
    BY <2>1, <2>2, <2>3 DEF Writes
<1> QED
  BY <1>1, <1>2 DEF Persistent

\* Whether a table was published in the step of r.
Posts(r) ==
    /\ pc[r] \in {"scan", "new"} /\ pc'[r] \in {"remove", "done"}
    /\ published' = Append(published, r)

LEMMA StepRest ==
    ASSUME TypeOK, NEW r \in Runs, Run(r)
    PROVE  /\ UNCHANGED conf
           /\ \A q \in Runs \ {r} : /\ pc'[q] = pc[q] /\ outcome'[q] = outcome[q]
                                    /\ previous'[q] = previous[q]
           /\ UNCHANGED published \/ Posts(r)
           /\ \/ previous'[r] \subseteq previous[r]
              \/ /\ pc[r] = "list" /\ previous'[r] = Listed
                 /\ pc'[r] = "scan" /\ UNCHANGED <<comments, published>>
           /\ pc[r] = "scan" /\ pc'[r] # "scan" => previous'[r] = {}
           /\ pc[r] # "scan" /\ pc'[r] # "scan" => previous'[r] = previous[r]
           /\ pc'[r] \in Publishing => pc[r] \in Publishing \/ HasLoop(r)
           /\ pc[r] \in {"remove", "done"} => pc'[r] = "done"
           /\ pc'[r] \in {"idle", "model", "list"} => pc[r] \in {"idle", "model"}
           /\ pc'[r] \in {"scan", "new"} => pc[r] \in {"model", "list", "scan", "new"}
<1>0. pc \in [Runs -> Publishing \cup {"idle", "model", "done"}]
  BY DEF TypeOK
<1>1. /\ UNCHANGED conf
      /\ \A q \in Runs \ {r} : /\ pc'[q] = pc[q] /\ outcome'[q] = outcome[q]
                               /\ previous'[q] = previous[q]
  BY DEF Run, Start, Answer, NoSuggestions, List, Scan, RemoveOld, New, Failed, Goto, TypeOK
<1> DEFINE Rest ==
           /\ UNCHANGED published \/ Posts(r)
           /\ \/ previous'[r] \subseteq previous[r]
              \/ /\ pc[r] = "list" /\ previous'[r] = Listed
                 /\ pc'[r] = "scan" /\ UNCHANGED <<comments, published>>
           /\ pc[r] = "scan" /\ pc'[r] # "scan" => previous'[r] = {}
           /\ pc[r] # "scan" /\ pc'[r] # "scan" => previous'[r] = previous[r]
           /\ pc'[r] \in Publishing => pc[r] \in Publishing \/ HasLoop(r)
           /\ pc[r] \in {"remove", "done"} => pc'[r] = "done"
           /\ pc'[r] \in {"idle", "model", "list"} => pc[r] \in {"idle", "model"}
           /\ pc'[r] \in {"scan", "new"} => pc[r] \in {"model", "list", "scan", "new"}
<1>2. ASSUME Start(r) \/ Answer(r) PROVE Rest
  <2>1. UNCHANGED <<published, previous>> /\ HasLoop(r) /\ pc[r] \in {"idle", "model"}
    BY <1>2 DEF Start, Answer
  <2>2. pc'[r] # "scan" /\ pc'[r] # "idle"
    BY <1>0, <1>2 DEF Start, Answer, Goto
  <2>3. pc'[r] = "new" => pc[r] = "model"
    BY <1>0, <1>2 DEF Start, Answer, Goto
  <2> QED
    BY <2>1, <2>2, <2>3
<1>3. ASSUME NoSuggestions(r) \/ RemoveOld(r) \/ Failed(r) PROVE Rest
  <2>1. UNCHANGED <<published, previous>> /\ pc[r] \in {"none", "remove", "failed"}
    BY <1>3 DEF NoSuggestions, RemoveOld, Failed
  <2>2. pc'[r] \in {"done", "failed"} /\ (pc[r] = "remove" => pc'[r] = "done")
    BY <1>0, <1>3 DEF NoSuggestions, RemoveOld, Failed, Goto
  <2> QED
    BY <2>1, <2>2 DEF Publishing
<1>4. ASSUME List(r) PROVE Rest
  <2>1. UNCHANGED <<published, comments>> /\ pc[r] = "list"
    BY <1>4 DEF List
  <2>2. \/ pc'[r] = "scan" /\ previous'[r] = Listed
        \/ pc'[r] = "new" /\ previous'[r] = previous[r]
    BY <1>0, <1>4 DEF List, Goto, TypeOK
  <2> QED
    BY <2>1, <2>2 DEF Publishing
<1>5. ASSUME Scan(r) PROVE Rest
  <2>1. pc[r] = "scan"
    BY <1>5 DEF Scan
  <2>2. \/ pc'[r] = "new" /\ previous[r] = {} /\ UNCHANGED <<published, previous>>
        \/ /\ pc'[r] \in {"new", "scan"} /\ (pc'[r] # "scan" => previous'[r] = {})
           /\ UNCHANGED published /\ previous'[r] \subseteq previous[r]
        \/ /\ pc'[r] \in {"remove", "done"} /\ previous'[r] = {}
           /\ published' = Append(published, r)
    <3>0. previous \in [Runs -> SUBSET [place : 1..Len(comments), body : Comments]]
      BY DEF TypeOK
    <3>1. CASE previous[r] = {} /\ Goto(r, "new") /\ UNCHANGED <<comments, previous, old, published>>
      BY <1>0, <3>1 DEF Goto
    <3>2. ASSUME NEW found \in previous[r], NEW res \in Results,
                 previous' = [previous EXCEPT ![r] = IF EditRaises(res) THEN {} ELSE @ \ {found}],
                 Goto(r, IF EditRaises(res) THEN "new" ELSE "scan"), UNCHANGED published
          PROVE  /\ pc'[r] \in {"new", "scan"} /\ (pc'[r] # "scan" => previous'[r] = {})
                 /\ UNCHANGED published /\ previous'[r] \subseteq previous[r]
      <4>1. CASE EditRaises(res)
        BY <1>0, <3>0, <3>2, <4>1 DEF Goto
      <4>2. CASE ~EditRaises(res)
        BY <1>0, <3>0, <3>2, <4>2 DEF Goto
      <4> QED
        BY <4>1, <4>2
    <3>3. ASSUME previous' = [previous EXCEPT ![r] = {}], Goto(r, "new"), UNCHANGED published
          PROVE  pc'[r] = "new" /\ previous'[r] = {}
      BY <1>0, <3>0, <3>3 DEF Goto
    <3>4. ASSUME previous' = [previous EXCEPT ![r] = {}], Goto(r, AfterUpdate(r)),
                 published' = Append(published, r)
          PROVE  pc'[r] \in {"remove", "done"} /\ previous'[r] = {}
      BY <1>0, <3>0, <3>4 DEF Goto, AfterUpdate
    <3> QED
      BY <1>5, <3>1, <3>2, <3>3, <3>4 DEF Scan
  <2> QED
    BY <2>1, <2>2 DEF Publishing, Posts
<1>6. ASSUME New(r) PROVE Rest
  <2>1. pc[r] = "new" /\ UNCHANGED previous
    BY <1>6 DEF New
  <2>2. \/ pc'[r] = "done" /\ published' = Append(published, r)
        \/ pc'[r] = "failed" /\ UNCHANGED published
    BY <1>0, <1>6 DEF New, Goto
  <2> QED
    BY <2>1, <2>2 DEF Publishing, Posts
<1>7. Rest
  BY <1>2, <1>3, <1>4, <1>5, <1>6 DEF Run
<1> QED
  BY <1>1, <1>7

-----------------------------------------------------------------------------
\* The length of a history.  As long as every run has a table, an entry that is not
\* found when the oldest is to go has a tick.

Told ==
    \A r \in Runs :
        /\ pc[r] \in {"idle", "model"} => outcome[r] = None
        /\ pc[r] = "none" => outcome[r] = "none"
        /\ pc[r] \in {"list", "scan", "new"} => outcome[r] \in {"table", "ticked", "plain"}
        /\ pc[r] \in {"list", "scan"} => maxHistory > 0

Marked(e) == e.run # None /\ (e.sought \/ outcome[e.run] = "ticked")

\* A history grows past the limit only by a second entry, and those below it, that
\* are not found.
Full(b) ==
    /\ Marked(b.latest)
    /\ \A j \in 1..Len(b.history) : Marked(b.history[j])
    /\ \/ Len(b.history) <= maxHistory
       \/ \A j \in 2..Len(b.history) : ~b.history[j].sought

Short ==
    OnlyTables =>
        /\ \A k \in Persistent : Full(comments[k])
        /\ \A r \in Runs : \A found \in previous[r] : Full(found.body)

LEMMA ToldNext == TypeOK /\ Told /\ [Next]_vars => Told'
<1> SUFFICES ASSUME TypeOK, Told, [Next]_vars PROVE Told'
  OBVIOUS
<1>0. /\ pc \in [Runs -> Publishing \cup {"idle", "model", "done"}]
      /\ outcome \in [Runs -> AllOutcomes \cup {None}]
  BY DEF TypeOK
<1>1. CASE UNCHANGED vars
  BY <1>1 DEF vars, conf, Told
<1>2. ASSUME NEW r \in Runs, Run(r) PROVE Told'
  <2>1. UNCHANGED conf /\ \A q \in Runs \ {r} : pc'[q] = pc[q] /\ outcome'[q] = outcome[q]
    BY <1>2, StepRest
  <2> SUFFICES /\ pc'[r] \in {"idle", "model"} => outcome'[r] = None
               /\ pc'[r] = "none" => outcome'[r] = "none"
               /\ pc'[r] \in {"list", "scan", "new"} => outcome'[r] \in {"table", "ticked", "plain"}
               /\ pc'[r] \in {"list", "scan"} => maxHistory > 0
    BY <2>1 DEF Told, conf
  <2>2. CASE Start(r)
    <3>1. pc'[r] \in {"model", "failed"} /\ pc[r] = "idle" /\ UNCHANGED outcome
      BY <1>0, <2>2 DEF Start, Goto
    <3> QED
      BY <3>1 DEF Told
  <2>3. CASE Answer(r)
    <3>1. PICK o \in Outcomes :
            /\ outcome' = [outcome EXCEPT ![r] = o]
            /\ Goto(r, CASE o = "error" -> "failed"
                         [] o = "none" -> "none"
                         [] OTHER -> IF maxHistory > 0 THEN "list" ELSE "new")
      BY <2>3 DEF Answer
    <3>2. o \in {"table", "ticked", "plain", "none", "error"} /\ outcome'[r] = o
      BY <1>0, <3>1, ImproveCommentsAssumption DEF AllOutcomes
    <3>3. CASE o = "error"
      BY <1>0, <3>1, <3>3 DEF Goto
    <3>4. CASE o = "none"
      BY <1>0, <3>1, <3>2, <3>4 DEF Goto
    <3>5. CASE o \in {"table", "ticked", "plain"}
      <4>1. pc'[r] = IF maxHistory > 0 THEN "list" ELSE "new"
        BY <1>0, <3>1, <3>5 DEF Goto
      <4> QED
        BY <3>2, <3>5, <4>1
    <3> QED
      BY <3>2, <3>3, <3>4, <3>5
  <2>4. CASE List(r)
    <3>1. pc'[r] \in {"scan", "new"} /\ pc[r] = "list" /\ UNCHANGED outcome
      BY <1>0, <2>4 DEF List, Goto
    <3> QED
      BY <3>1 DEF Told
  <2>5. CASE Scan(r)
    <3>1. pc[r] = "scan" /\ UNCHANGED outcome
      BY <2>5 DEF Scan
    <3>2. pc'[r] \in {"scan", "new", "remove", "done"}
      BY <1>0, <2>5 DEF Scan, Goto, AfterUpdate
    <3> QED
      BY <3>1, <3>2 DEF Told
  <2>6. CASE NoSuggestions(r) \/ RemoveOld(r) \/ New(r) \/ Failed(r)
    <3>1. pc'[r] \in {"done", "failed"}
      BY <1>0, <2>6 DEF NoSuggestions, RemoveOld, New, Failed, Goto
    <3> QED
      BY <3>1
  <2> QED
    BY <1>2, <2>2, <2>3, <2>4, <2>5, <2>6 DEF Run
<1> QED
  BY <1>1, <1>2 DEF Next

\* Under OnlyTables every earlier step was one of OnlyTables too.
LEMMA TablesBefore ==
    ASSUME TypeOK, Told, NEW r \in Runs, Run(r), OnlyTables'
    PROVE  OnlyTables
<1>1. \A q \in Runs \ {r} : outcome'[q] = outcome[q]
  BY StepRest
<1>2. outcome'[r] = outcome[r] \/ pc[r] = "model"
  BY DEF Run, Start, Answer, NoSuggestions, List, Scan, RemoveOld, New, Failed
<1> QED
  BY <1>1, <1>2 DEF Told, OnlyTables

\* An outcome does not change any more.
LEMMA OutcomeStays ==
    ASSUME TypeOK, Told, NEW r \in Runs, Run(r)
    PROVE  /\ \A q \in Runs : outcome[q] = "ticked" => outcome'[q] = "ticked"
           /\ Unticked' => Unticked
<1>1. \A q \in Runs \ {r} : outcome'[q] = outcome[q]
  BY StepRest
<1>2. outcome'[r] = outcome[r] \/ pc[r] = "model"
  BY DEF Run, Start, Answer, NoSuggestions, List, Scan, RemoveOld, New, Failed
<1>3. outcome[r] = "ticked" => outcome'[r] = "ticked"
  BY <1>2, ImproveCommentsAssumption DEF Told, AllOutcomes
<1>4. \A q \in Runs : outcome[q] = "ticked" => outcome'[q] = "ticked"
  BY <1>1, <1>3
<1> QED
  BY <1>4 DEF Unticked

LEMMA FullStays ==
    ASSUME TypeOK, Told, NEW r \in Runs, Run(r), NEW b \in Comments, Full(b)
    PROVE  /\ Marked(b.latest)'
           /\ \A j \in 1..Len(b.history) : Marked(b.history[j])'
           /\ \/ Len(b.history) <= maxHistory'
              \/ \A j \in 2..Len(b.history) : ~b.history[j].sought
<1>1. ASSUME NEW e \in Entries, Marked(e) PROVE Marked(e)'
  <2>1. e.run \in Runs
    BY <1>1 DEF Marked, Entries
  <2> QED
    BY <1>1, <2>1, OutcomeStays DEF Marked
<1>2. b.latest \in Entries /\ \A j \in 1..Len(b.history) : b.history[j] \in Entries
  BY DEF Comments
<1>3. maxHistory' = maxHistory
  BY StepRest DEF conf
<1>4. Marked(b.latest)'
  BY <1>1, <1>2 DEF Full
<1>5. \A j \in 1..Len(b.history) : Marked(b.history[j])'
  BY <1>1, <1>2 DEF Full
<1> QED
  BY <1>3, <1>4, <1>5 DEF Full

\* The entries of the history under a new table, and its length.
LEMMA HistoryFull ==
    ASSUME maxHistory \in Nat, maxHistory > 0, NEW b \in Comments, Full(b)
    PROVE  /\ \/ Len(HistoryOf(b)) <= maxHistory
              \/ \A j \in 2..Len(HistoryOf(b)) : ~HistoryOf(b)[j].sought
           /\ \A j \in 1..Len(HistoryOf(b)) : Marked(HistoryOf(b)[j])
<1>1. b.history \in Seq(Entries) /\ b.latest \in Entries /\ Len(b.history) \in Nat
  BY DEF Comments
<1>2. PICK k \in 0..Len(b.history) :
        /\ Shortened(b.history) = SubSeq(b.history, 1, k)
        /\ \/ k = Len(b.history) /\ (k < maxHistory \/ \A j \in 1..k : ~b.history[j].sought)
           \/ /\ k < Len(b.history) /\ b.history[k + 1].sought
              /\ \A j \in k + 2..Len(b.history) : ~b.history[j].sought
  BY <1>1, ShortenedPrefix
<1>3. Len(HistoryOf(b)) = k + 1
  <2>1. SubSeq(b.history, 1, k) \in Seq(Entries) /\ Len(SubSeq(b.history, 1, k)) = k
    BY <1>1
  <2> QED
    BY <1>1, <1>2, <2>1 DEF HistoryOf
<1>4. /\ HistoryOf(b)[1] = b.latest
      /\ \A j \in 2..k + 1 : HistoryOf(b)[j] = b.history[j - 1] /\ j - 1 \in 1..Len(b.history)
  <2>1. \A j \in 2..k + 1 : j - 1 \in 1..Len(b.history)
    BY <1>1
  <2> QED
    BY <1>3, <2>1, HistoryOfFacts
<1>5. k + 1 <= maxHistory \/ \A j \in 2..k + 1 : ~HistoryOf(b)[j].sought
  <2>1. CASE k < maxHistory
    BY <2>1
  <2>2. CASE \A j \in 1..k : ~b.history[j].sought
    <3>1. \A j \in 2..k + 1 : j - 1 \in 1..k
      OBVIOUS
    <3> QED
      BY <1>4, <2>2, <3>1
  <2>3. CASE k < Len(b.history) /\ b.history[k + 1].sought /\ ~(k < maxHistory)
    <3>1. k + 1 \in 2..Len(b.history)
      BY <1>1, <2>3
    <3>2. ~(Len(b.history) <= maxHistory)
      BY <1>1, <2>3
    <3> QED
      BY <2>3, <3>1, <3>2 DEF Full
  <2> QED
    BY <1>2, <2>1, <2>2, <2>3
<1>6. \A j \in 1..k + 1 : Marked(HistoryOf(b)[j])
  <2>1. Marked(HistoryOf(b)[1])
    BY <1>4 DEF Full
  <2>2. \A j \in 2..k + 1 : Marked(HistoryOf(b)[j])
    BY <1>4 DEF Full
  <2>3. \A j \in 1..k + 1 : j = 1 \/ j \in 2..k + 1
    OBVIOUS
  <2> QED
    BY <2>1, <2>2, <2>3
<1> QED
  BY <1>3, <1>5, <1>6

LEMMA ShortNext == TypeOK /\ Found /\ Told /\ Short /\ [Next]_vars => Short'
<1> SUFFICES ASSUME TypeOK, Found, Told, Short, [Next]_vars PROVE Short'
  OBVIOUS
<1>1. CASE UNCHANGED vars
  BY <1>1 DEF vars, conf, Short, OnlyTables, Persistent, Full, Marked
<1>2. ASSUME NEW r \in Runs, Run(r) PROVE Short'
  <2> SUFFICES ASSUME OnlyTables'
               PROVE  /\ \A k \in Persistent' : Full(comments[k])'
                      /\ \A q \in Runs : \A found \in previous'[q] : Full(found.body)'
    BY DEF Short
  <2>1. /\ OnlyTables
        /\ \A k \in Persistent : Full(comments[k])
        /\ \A q \in Runs : \A found \in previous[q] : Full(found.body)
    BY <1>2, TablesBefore DEF Short
  <2>2. PICK p, b : Writes(r, p, b)
    BY <1>2, StepWrites
  <2>3. /\ b \in Comments
        /\ \A k \in Persistent' :
             \/ comments'[k] = b /\ b.kind = "suggestions"
             \/ k \in Persistent /\ comments'[k] = comments[k]
    BY <2>2, WrittenIs
  <2>4. maxHistory \in Nat
    BY Lengths DEF TypeOK
  <2>5. pc[r] # "none"
    BY <2>1, ImproveCommentsAssumption DEF Told, OnlyTables, AllOutcomes
  <2>6. pc[r] \in {"scan", "new"} => outcome[r] \in {"table", "ticked"} /\ Table(r) = r
    <3>1. pc[r] \in {"scan", "new"} => outcome[r] \in {"table", "ticked", "plain"}
      BY DEF Told
    <3>2. outcome[r] \in {"table", "ticked", "error", None}
      BY <2>1 DEF OnlyTables
    <3>3. None # "plain"
      BY ImproveCommentsAssumption DEF AllOutcomes
    <3> QED
      BY <3>1, <3>2, <3>3 DEF Table
  <2>7. b.kind = "suggestions" => Full(b)
    <3>1. ASSUME NEW h \in Seq(Entries), pc[r] \in {"scan", "new"},
                 Len(h) <= maxHistory \/ \A j \in 2..Len(h) : ~h[j].sought,
                 \A j \in 1..Len(h) : Marked(h[j])
          PROVE  Full(Suggestions(r, TRUE, h))
      <4> DEFINE c == Suggestions(r, TRUE, h)
      <4>1. c.history = h /\ c.latest.run = r /\ c.latest.sought = (outcome[r] # "ticked")
        BY <2>6, <3>1 DEF Suggestions
      <4>2. r # None
        BY ImproveCommentsAssumption
      <4> HIDE DEF c
      <4>3. Marked(c.latest)
        BY <4>1, <4>2 DEF Marked
      <4>4. Full(c)
        BY <3>1, <4>1, <4>3 DEF Full
      <4> QED
        BY <4>4 DEF c
    <3>2. pc[r] = "new" => Full(Suggestions(r, TRUE, <<>>))
      <4>1. <<>> \in Seq(Entries) /\ Len(<<>>) = 0
        OBVIOUS
      <4>2. PICK h \in Seq(Entries) : h = <<>> /\ Len(h) = 0
        BY <4>1
      <4>3. Len(h) <= maxHistory /\ \A j \in 1..Len(h) : Marked(h[j])
        BY <2>4, <4>2
      <4> QED
        BY <3>1, <4>2, <4>3
    <3>3. \A found \in previous[r] : HasTable(found.body)
      BY <2>1 DEF HasTable, Full, Marked
    <3>4. ASSUME NEW found \in previous[r], pc[r] = "scan"
          PROVE  Full(Suggestions(r, TRUE, HistoryOf(found.body)))
      <4>1. maxHistory > 0
        BY <3>4 DEF Told
      <4>2. found.body \in Comments /\ HistoryOf(found.body) \in Seq(Entries)
        BY FoundType
      <4>3. Full(found.body)
        BY <2>1
      <4> QED
        BY <2>4, <3>1, <3>4, <4>1, <4>2, <4>3, HistoryFull
    <3> QED
      BY <2>2, <2>5, <3>2, <3>3, <3>4 DEF Writes, Fresh
  <2>8. ASSUME NEW k \in Persistent' PROVE Full(comments[k])'
    <3>1. PICK c \in Comments : comments'[k] = c /\ Full(c)
      <4>1. CASE comments'[k] = b /\ b.kind = "suggestions"
        BY <2>3, <2>7, <4>1
      <4>2. CASE k \in Persistent /\ comments'[k] = comments[k]
        <5>1. comments[k] \in Comments
          BY <4>2 DEF Persistent, TypeOK
        <5> QED
          BY <2>1, <4>2, <5>1
      <4> QED
        BY <2>3, <2>8, <4>1, <4>2
    <3> QED
      BY <1>2, <3>1, FullStays DEF Full
  <2>9. ASSUME NEW q \in Runs, NEW found \in previous'[q] PROVE Full(found.body)'
    <3>1. found.body \in Comments /\ Full(found.body)
      <4>1. CASE found \in previous[q]
        BY <2>1, <4>1, FoundType
      <4>2. CASE q = r /\ previous'[r] = Listed
        <5>1. PICK k \in Persistent : found.body = comments[k]
          BY <2>9, <4>2 DEF Listed, Persistent
        <5> QED
          BY <2>1, <5>1 DEF Persistent, TypeOK
      <4> QED
        BY <1>2, <2>9, <4>1, <4>2, StepRest
    <3> QED
      BY <1>2, <3>1, FullStays DEF Full
  <2> QED
    BY <2>8, <2>9
<1> QED
  BY <1>1, <1>2 DEF Next

-----------------------------------------------------------------------------
\* The order of the tables.  In one process only one run publishes at a time.
\* While it does, no comment it may move to a history shows its table, and
\* another may only show it on top: publishing puts it above all the others.

At(s, r) == CHOOSE k \in 1..Len(s) : s[k] = r

\* A body shows the tables of s from the latest to the oldest.
Sorted(s, b) ==
    /\ \A j \in 1..Len(b.history) :
          {b.latest.run, b.history[j].run} \subseteq Range(s) =>
              At(s, b.latest.run) > At(s, b.history[j].run)
    /\ \A i, j \in 1..Len(b.history) :
          i < j /\ {b.history[i].run, b.history[j].run} \subseteq Range(s) =>
              At(s, b.history[i].run) > At(s, b.history[j].run)

NotBelow(b, r) == \A j \in 1..Len(b.history) : b.history[j].run # r
Without(b, r) == b.latest.run # r /\ NotBelow(b, r)

Early(r) == pc[r] \in {"idle", "model", "list"}

Once ==
    /\ \A i, j \in 1..Len(published) : i # j => published[i] # published[j]
    /\ \A i \in 1..Len(published) : pc[published[i]] \in {"remove", "done"}

Ordered ==
    OneWorker =>
        /\ \A q, r \in Runs : q # r /\ pc[q] \in Publishing => pc[r] \notin Publishing
        /\ \A r \in Runs : pc[r] # "scan" => previous[r] = {}
        /\ \A k \in Persistent :
              /\ Sorted(published, comments[k])
              /\ \A q \in Runs : /\ Early(q) => Without(comments[k], q)
                                 /\ pc[q] \in {"scan", "new"} => NotBelow(comments[k], q)
        /\ \A r \in Runs : \A found \in previous[r] :
              /\ Sorted(published, found.body)
              /\ \A q \in Runs : Early(q) \/ q = r => Without(found.body, q)

LEMMA AtIs ==
    ASSUME NEW s \in Seq(Runs), \A i, j \in 1..Len(s) : i # j => s[i] # s[j],
           NEW k \in 1..Len(s)
    PROVE  At(s, s[k]) = k
  BY DEF At

LEMMA RangeIs ==
    ASSUME NEW s \in Seq(Runs)
    PROVE  \A x : x \in Range(s) <=> \E k \in 1..Len(s) : x = s[k]
  BY DEF Range

\* Where the runs stand after one more published.
LEMMA AppendAt ==
    ASSUME NEW s \in Seq(Runs), \A i, j \in 1..Len(s) : i # j => s[i] # s[j],
           NEW r \in Runs, r \notin Range(s)
    PROVE  LET t == Append(s, r) IN
           /\ \A i, j \in 1..Len(t) : i # j => t[i] # t[j]
           /\ At(t, r) = Len(s) + 1 /\ Len(s) \in Nat
           /\ \A x \in Range(s) : At(t, x) = At(s, x) /\ At(s, x) \in 1..Len(s)
           /\ \A x \in Range(t) : x \in Range(s) \/ x = r
<1> DEFINE n == Len(s)
           t == Append(s, r)
<1>1. /\ t \in Seq(Runs) /\ Len(t) = n + 1 /\ n \in Nat /\ t[n + 1] = r
      /\ \A k \in 1..n : t[k] = s[k]
  OBVIOUS
<1>2. \A k \in 1..n : s[k] # r
  BY RangeIs
<1>3. \A i, j \in 1..Len(t) : i # j => t[i] # t[j]
  BY <1>1, <1>2
<1> HIDE DEF t
<1>4. At(t, r) = n + 1
  <2>1. n + 1 \in 1..Len(t)
    BY <1>1
  <2>2. At(t, t[n + 1]) = n + 1
    BY <1>1, <1>3, <2>1, AtIs
  <2> QED
    BY <1>1, <2>2
<1>5. \A x \in Range(s) : At(t, x) = At(s, x) /\ At(s, x) \in 1..n
  <2>1. ASSUME NEW x \in Range(s) PROVE At(t, x) = At(s, x) /\ At(s, x) \in 1..n
    <3>1. PICK k \in 1..n : x = s[k]
      BY RangeIs
    <3>2. At(s, s[k]) = k
      BY AtIs
    <3>3. k \in 1..Len(t) /\ t[k] = s[k]
      BY <1>1
    <3>4. At(t, t[k]) = k
      BY <1>1, <1>3, <3>3, AtIs
    <3> QED
      BY <3>1, <3>2, <3>3, <3>4
  <2> QED
    BY <2>1
<1>6. \A x \in Range(t) : x \in Range(s) \/ x = r
  <2>1. ASSUME NEW x \in Range(t) PROVE x \in Range(s) \/ x = r
    <3>1. PICK k \in 1..Len(t) : x = t[k]
      BY <1>1, RangeIs
    <3>2. k \in 1..n \/ k = n + 1
      BY <1>1
    <3> QED
      BY <1>1, <3>1, <3>2, RangeIs
  <2> QED
    BY <2>1
<1> QED
  BY <1>1, <1>3, <1>4, <1>5, <1>6 DEF t

\* A run that publishes its table after all others changes no order but where it
\* stands below another.
LEMMA SortedAppend ==
    ASSUME NEW s \in Seq(Runs), \A i, j \in 1..Len(s) : i # j => s[i] # s[j],
           NEW r \in Runs, r \notin Range(s), NEW b \in Comments, Sorted(s, b), NotBelow(b, r)
    PROVE  Sorted(Append(s, r), b)
<1> DEFINE n == Len(s)
           t == Append(s, r)
<1>1. /\ At(t, r) = n + 1 /\ n \in Nat
      /\ \A x \in Range(s) : At(t, x) = At(s, x) /\ At(s, x) \in 1..n
      /\ \A x \in Range(t) : x \in Range(s) \/ x = r
  BY AppendAt
<1> HIDE DEF t
<1>2. \A x, y : y # r /\ {x, y} \subseteq Range(t)
                  /\ ({x, y} \subseteq Range(s) => At(s, x) > At(s, y))
          => At(t, x) > At(t, y)
  <2>1. ASSUME NEW x, NEW y, y # r, x \in Range(t), y \in Range(t),
               {x, y} \subseteq Range(s) => At(s, x) > At(s, y)
        PROVE  At(t, x) > At(t, y)
    <3>1. y \in Range(s) /\ At(t, y) = At(s, y) /\ At(s, y) \in 1..n
      BY <1>1, <2>1
    <3>2. CASE x = r
      BY <1>1, <3>1, <3>2
    <3>3. CASE x \in Range(s)
      BY <1>1, <2>1, <3>1, <3>3
    <3> QED
      BY <1>1, <2>1, <3>2, <3>3
  <2> QED
    BY <2>1
<1>3. \A j \in 1..Len(b.history) : b.history[j].run # r
  BY DEF NotBelow
<1>4. \A j \in 1..Len(b.history) :
        {b.latest.run, b.history[j].run} \subseteq Range(t) =>
            At(t, b.latest.run) > At(t, b.history[j].run)
  BY <1>2, <1>3 DEF Sorted
<1>5. \A i, j \in 1..Len(b.history) :
        i < j /\ {b.history[i].run, b.history[j].run} \subseteq Range(t) =>
            At(t, b.history[i].run) > At(t, b.history[j].run)
  BY <1>2, <1>3 DEF Sorted
<1>6. Sorted(t, b)
  BY <1>4, <1>5 DEF Sorted
<1> QED
  BY <1>6 DEF t

LEMMA OnceNext == TypeOK /\ Once /\ [Next]_vars => Once'
<1> SUFFICES ASSUME TypeOK, Once, [Next]_vars PROVE Once'
  OBVIOUS
<1>0. published \in Seq(Runs) /\ Len(published) \in Nat
  BY DEF TypeOK
<1>1. CASE UNCHANGED vars
  BY <1>1 DEF vars, Once
<1>2. ASSUME NEW r \in Runs, Run(r) PROVE Once'
  <2>1. /\ \A q \in Runs \ {r} : pc'[q] = pc[q]
        /\ UNCHANGED published \/ Posts(r)
        /\ pc[r] \in {"remove", "done"} => pc'[r] = "done"
    BY <1>2, StepRest
  <2>2. \A i \in 1..Len(published) : published[i] \in Runs /\ pc'[published[i]] \in {"remove", "done"}
    <3>1. ASSUME NEW i \in 1..Len(published)
          PROVE  published[i] \in Runs /\ pc'[published[i]] \in {"remove", "done"}
      <4>1. published[i] \in Runs /\ pc[published[i]] \in {"remove", "done"}
        BY <1>0 DEF Once
      <4> QED
        BY <2>1, <4>1
    <3> QED
      BY <3>1
  <2>3. CASE UNCHANGED published
    BY <2>2, <2>3 DEF Once
  <2>4. CASE Posts(r)
    <3>1. \A i \in 1..Len(published) : published[i] # r
      BY <2>4 DEF Posts, Once
    <3>2. /\ Len(published') = Len(published) + 1 /\ published'[Len(published) + 1] = r
          /\ \A i \in 1..Len(published) : published'[i] = published[i]
      BY <1>0, <2>4 DEF Posts
    <3>3. \A i \in 1..Len(published') : i \in 1..Len(published) \/ i = Len(published) + 1
      BY <1>0, <3>2
    <3>4. \A i, j \in 1..Len(published') : i # j => published'[i] # published'[j]
      BY <3>1, <3>2, <3>3 DEF Once
    <3>5. \A i \in 1..Len(published') : pc'[published'[i]] \in {"remove", "done"}
      BY <2>2, <2>4, <3>2, <3>3 DEF Posts
    <3> QED
      BY <3>4, <3>5 DEF Once
  <2> QED
    BY <2>1, <2>3, <2>4
<1> QED
  BY <1>1, <1>2 DEF Next

\* A table on top of a body that is in order.
LEMMA SortedOnTop ==
    ASSUME maxHistory \in Nat, NEW s, NEW r \in Runs, NEW f \in Comments, Sorted(s, f),
           r \notin Range(s), None \notin Range(s)
    PROVE  LET b == Suggestions(r, TRUE, HistoryOf(f)) IN
           /\ Sorted(s, b) /\ b.latest.run \in {r, None}
           /\ \A q : Without(f, q) => NotBelow(b, q)
<1> DEFINE h == HistoryOf(f)
           b == Suggestions(r, TRUE, h)
<1>1. /\ Len(h) \in 1..Len(f.history) + 1 /\ Len(f.history) \in Nat
      /\ h[1] = f.latest /\ \A j \in 2..Len(h) : h[j] = f.history[j - 1]
  BY HistoryOfFacts
<1>2. b.latest.run \in {r, None} /\ b.history = h
  BY DEF Suggestions, Table
<1> HIDE DEF h, b
<1>3. \A j \in 1..Len(h) : j = 1 \/ (j \in 2..Len(h) /\ j - 1 \in 1..Len(f.history))
  BY <1>1
<1>4. \A q : Without(f, q) => NotBelow(b, q)
  BY <1>1, <1>2, <1>3 DEF Without, NotBelow
<1>5. ASSUME NEW i \in 1..Len(h), NEW j \in 1..Len(h), i < j,
             h[i].run \in Range(s), h[j].run \in Range(s)
      PROVE  At(s, h[i].run) > At(s, h[j].run)
  <2>1. j \in 2..Len(h) /\ h[j] = f.history[j - 1] /\ j - 1 \in 1..Len(f.history)
    BY <1>1, <1>3, <1>5
  <2>2. CASE i = 1
    BY <1>1, <1>5, <2>1, <2>2 DEF Sorted
  <2>3. CASE i # 1
    <3>1. h[i] = f.history[i - 1] /\ i - 1 \in 1..Len(f.history) /\ i - 1 < j - 1
      BY <1>1, <1>3, <1>5, <2>3
    <3> QED
      BY <1>5, <2>1, <3>1 DEF Sorted
  <2> QED
    BY <2>2, <2>3
<1>6. Sorted(s, b)
  BY <1>2, <1>5 DEF Sorted
<1>7. Sorted(s, b) /\ b.latest.run \in {r, None} /\ \A q : Without(f, q) => NotBelow(b, q)
  BY <1>2, <1>4, <1>6
<1> QED
  BY <1>7 DEF b, h

\* The body a publishing run writes is in order, and shows no other run that has
\* yet to write.
LEMMA FreshSorted ==
    ASSUME TypeOK, Once, Ordered, OneWorker, NEW r \in Runs, NEW b, Fresh(r, b),
           b.kind = "suggestions"
    PROVE  /\ pc[r] \in {"none", "scan", "new"}
           /\ Sorted(published, b) /\ NotBelow(b, r)
           /\ \A q \in Runs \ {r} : Early(q) => Without(b, q)
<1>0. published \in Seq(Runs) /\ maxHistory \in Nat /\ None \notin Runs
  BY Lengths, ImproveCommentsAssumption DEF TypeOK
<1>1. pc[r] \in {"none", "scan", "new"}
  BY DEF Fresh
<1>2. r \notin Range(published) /\ None \notin Range(published)
  <2>1. \A k \in 1..Len(published) : published[k] # r
    BY <1>1 DEF Once
  <2>2. \A k \in 1..Len(published) : published[k] \in Runs
    BY <1>0
  <2> QED
    BY <1>0, <2>1, <2>2, RangeIs
<1>3. Table(r) \in {r, None}
  BY DEF Table
<1>4. ASSUME b.latest.run \in {r, None}, b.history = <<>>
      PROVE  Sorted(published, b) /\ NotBelow(b, r) /\ \A q \in Runs \ {r} : Without(b, q)
  <2>1. \A j \in 1..Len(b.history) : FALSE
    BY <1>4
  <2> QED
    BY <1>0, <1>4, <2>1 DEF Sorted, NotBelow, Without
<1>5. ASSUME NEW found \in previous[r], b = Suggestions(r, TRUE, HistoryOf(found.body))
      PROVE  /\ Sorted(published, b) /\ NotBelow(b, r)
             /\ \A q \in Runs \ {r} : Early(q) => Without(b, q)
  <2>1. /\ Sorted(published, found.body) /\ Without(found.body, r)
        /\ \A q \in Runs : Early(q) => Without(found.body, q)
    BY DEF Ordered
  <2>2. /\ Sorted(published, b) /\ b.latest.run \in {r, None}
        /\ \A q : Without(found.body, q) => NotBelow(b, q)
    BY <1>0, <1>2, <1>5, <2>1, FoundType, SortedOnTop
  <2> QED
    BY <1>0, <2>1, <2>2 DEF Without
<1>6. CASE b = Plain("suggestions")
  BY <1>1, <1>4, <1>6 DEF Plain, NoEntry
<1>7. CASE b = Suggestions(r, FALSE, <<>>) \/ b = Suggestions(r, TRUE, <<>>)
  BY <1>1, <1>3, <1>4, <1>7 DEF Suggestions
<1>8. \/ b = Plain("suggestions")
      \/ b = Suggestions(r, FALSE, <<>>) \/ b = Suggestions(r, TRUE, <<>>)
      \/ \E found \in previous[r] : b = Suggestions(r, TRUE, HistoryOf(found.body))
  BY DEF Fresh
<1> QED
  BY <1>1, <1>5, <1>6, <1>7, <1>8

LEMMA OrderedNext == TypeOK /\ Found /\ Once /\ Ordered /\ [Next]_vars => Ordered'
<1> SUFFICES ASSUME TypeOK, Found, Once, Ordered, [Next]_vars PROVE Ordered'
  OBVIOUS
<1>0. published \in Seq(Runs) /\ \A k \in Persistent : comments[k] \in Comments
  BY DEF TypeOK, Persistent
<1>1. CASE UNCHANGED vars
  BY <1>1 DEF vars, conf, Ordered, OneWorker, Persistent, Early
<1>2. ASSUME NEW r \in Runs, Run(r) PROVE Ordered'
  <2>0. UNCHANGED conf /\ (OneWorker' => OneWorker)
    BY <1>2, StepRest DEF conf, OneWorker
  <2> SUFFICES ASSUME OneWorker PROVE
        /\ \A q, s \in Runs : q # s /\ pc'[q] \in Publishing => pc'[s] \notin Publishing
        /\ \A q \in Runs : pc'[q] # "scan" => previous'[q] = {}
        /\ \A k \in Persistent' :
              /\ Sorted(published', comments'[k])
              /\ \A q \in Runs : /\ Early(q)' => Without(comments'[k], q)
                                 /\ pc'[q] \in {"scan", "new"} => NotBelow(comments'[k], q)
        /\ \A s \in Runs : \A found \in previous'[s] :
              /\ Sorted(published', found.body)
              /\ \A q \in Runs : Early(q)' \/ q = s => Without(found.body, q)
    BY <2>0 DEF Ordered
  <2>1. /\ \A q, s \in Runs : q # s /\ pc[q] \in Publishing => pc[s] \notin Publishing
        /\ \A q \in Runs : pc[q] # "scan" => previous[q] = {}
        /\ \A k \in Persistent :
              /\ Sorted(published, comments[k])
              /\ \A q \in Runs : /\ Early(q) => Without(comments[k], q)
                                 /\ pc[q] \in {"scan", "new"} => NotBelow(comments[k], q)
        /\ \A s \in Runs : \A found \in previous[s] :
              /\ Sorted(published, found.body)
              /\ \A q \in Runs : Early(q) \/ q = s => Without(found.body, q)
    BY DEF Ordered
  <2>2. /\ \A q \in Runs \ {r} : pc'[q] = pc[q] /\ previous'[q] = previous[q]
        /\ UNCHANGED published \/ Posts(r)
        /\ \/ previous'[r] \subseteq previous[r]
           \/ /\ pc[r] = "list" /\ previous'[r] = Listed
              /\ pc'[r] = "scan" /\ UNCHANGED <<comments, published>>
        /\ pc[r] = "scan" /\ pc'[r] # "scan" => previous'[r] = {}
        /\ pc[r] # "scan" /\ pc'[r] # "scan" => previous'[r] = previous[r]
        /\ pc'[r] \in Publishing => pc[r] \in Publishing \/ HasLoop(r)
        /\ pc'[r] \in {"idle", "model", "list"} => pc[r] \in {"idle", "model"}
        /\ pc'[r] \in {"scan", "new"} => pc[r] \in {"model", "list", "scan", "new"}
    BY <1>2, StepRest
  <2>3. PICK p, b : Writes(r, p, b)
    BY <1>2, StepWrites
  <2>4. /\ b \in Comments
        /\ \A k \in Persistent' :
             \/ comments'[k] = b /\ b.kind = "suggestions"
             \/ k \in Persistent /\ comments'[k] = comments[k]
    BY <2>3, WrittenIs
  <2>5. \A q \in Runs : Early(q)' => Early(q) /\ (q = r => pc[q] \in {"idle", "model"})
    BY <2>2 DEF Early
  <2>6. b.kind = "suggestions" =>
          /\ pc[r] \in {"none", "scan", "new"}
          /\ Sorted(published, b) /\ NotBelow(b, r)
          /\ \A q \in Runs \ {r} : Early(q) => Without(b, q)
    BY <2>3, FreshSorted DEF Writes
  <2>7. pc'[r] \in Publishing => \A q \in Runs \ {r} : pc[q] \notin Publishing
    <3>1. HasLoop(r) => \A q \in Runs \ {r} : pc[q] \notin Publishing
      BY DEF HasLoop, OneWorker
    <3> QED
      BY <2>1, <2>2, <3>1
  <2>8. \A c \in Comments : Sorted(published, c) /\ (Posts(r) => NotBelow(c, r)) => Sorted(published', c)
    <3>1. ASSUME NEW c \in Comments, Sorted(published, c), Posts(r), NotBelow(c, r)
          PROVE  Sorted(published', c)
      <4>1. \A i, j \in 1..Len(published) : i # j => published[i] # published[j]
        BY DEF Once
      <4>2. r \notin Range(published)
        <5>1. \A i \in 1..Len(published) : published[i] # r
          BY <3>1 DEF Posts, Once
        <5> QED
          BY <1>0, <5>1, RangeIs
      <4> QED
        BY <1>0, <3>1, <4>1, <4>2, SortedAppend DEF Posts
    <3>2. UNCHANGED published => \A c \in Comments : Sorted(published, c) => Sorted(published', c)
      OBVIOUS
    <3> QED
      BY <2>2, <3>1, <3>2
  <2>9. ASSUME NEW q \in Runs, NEW s \in Runs, q # s, pc'[q] \in Publishing
        PROVE  pc'[s] \notin Publishing
    <3>1. CASE q = r
      BY <2>2, <2>7, <2>9, <3>1
    <3>2. CASE s = r
      BY <2>2, <2>7, <2>9, <3>2
    <3>3. CASE q # r /\ s # r
      BY <2>1, <2>2, <2>9, <3>3
    <3> QED
      BY <3>1, <3>2, <3>3
  <2>10. ASSUME NEW q \in Runs, pc'[q] # "scan" PROVE previous'[q] = {}
    <3>1. CASE q = r
      BY <2>1, <2>2, <2>10, <3>1
    <3>2. CASE q # r
      BY <2>1, <2>2, <2>10, <3>2
    <3> QED
      BY <3>1, <3>2
  <2>11. ASSUME NEW k \in Persistent'
         PROVE  /\ Sorted(published', comments'[k])
                /\ \A q \in Runs : /\ Early(q)' => Without(comments'[k], q)
                                   /\ pc'[q] \in {"scan", "new"} => NotBelow(comments'[k], q)
    <3>1. CASE comments'[k] = b /\ b.kind = "suggestions"
      <4>1. Sorted(published', b)
        BY <2>4, <2>6, <2>8, <3>1
      <4>2. \A q \in Runs : Early(q)' => Without(b, q)
        BY <2>5, <2>6, <3>1
      <4>3. \A q \in Runs : pc'[q] \in {"scan", "new"} => q = r
        BY <2>1, <2>2, <2>6, <3>1 DEF Publishing
      <4> QED
        BY <2>6, <3>1, <4>1, <4>2, <4>3
    <3>2. CASE k \in Persistent /\ comments'[k] = comments[k]
      <4>1. Sorted(published', comments[k])
        BY <1>0, <2>1, <2>8, <3>2 DEF Posts
      <4>2. \A q \in Runs : Early(q)' => Without(comments[k], q)
        BY <2>1, <2>5, <3>2
      <4>3. ASSUME NEW q \in Runs, pc'[q] \in {"scan", "new"} PROVE NotBelow(comments[k], q)
        <5>1. pc[q] \in {"scan", "new"} \/ Early(q)
          BY <2>2, <4>3 DEF Early
        <5> QED
          BY <2>1, <3>2, <5>1 DEF Without
      <4> QED
        BY <3>2, <4>1, <4>2, <4>3
    <3> QED
      BY <2>4, <3>1, <3>2
  <2>12. ASSUME NEW s \in Runs, NEW found \in previous'[s]
         PROVE  /\ Sorted(published', found.body)
                /\ \A q \in Runs : Early(q)' \/ q = s => Without(found.body, q)
    <3>1. CASE found \in previous[s]
      <4>1. found.body \in Comments
        BY <3>1, FoundType
      <4>2. /\ Sorted(published, found.body)
            /\ \A q \in Runs : Early(q) \/ q = s => Without(found.body, q)
        BY <2>1, <3>1
      <4>3. Posts(r) => s = r
        BY <2>1, <3>1 DEF Posts, Publishing
      <4>4. Sorted(published', found.body)
        BY <2>8, <4>1, <4>2, <4>3 DEF Without
      <4> QED
        BY <2>5, <4>2, <4>4
    <3>2. CASE s = r /\ pc[r] = "list" /\ found \in Listed /\ UNCHANGED published
      <4>1. PICK k \in Persistent : found.body = comments[k]
        BY <3>2 DEF Listed, Persistent
      <4>2. Early(r)
        BY <3>2 DEF Early
      <4> QED
        BY <2>1, <2>5, <3>2, <4>1, <4>2
    <3> QED
      BY <2>2, <2>12, <3>1, <3>2
  <2> QED
    BY <2>9, <2>10, <2>11, <2>12
<1> QED
  BY <1>1, <1>2 DEF Next

-----------------------------------------------------------------------------
\* The two parts of HistoryInOrder.

LEMMA ShownIs ==
    ASSUME TypeOK, NEW k \in Persistent
    PROVE  /\ Len(Shown(k)) = Len(comments[k].history) + 1 /\ Len(comments[k].history) \in Nat
           /\ Shown(k)[1] = comments[k].latest.run
           /\ \A j \in 2..Len(Shown(k)) : Shown(k)[j] = comments[k].history[j - 1].run
<1>0. comments[k] \in Comments
  BY DEF TypeOK, Persistent
<1>1. comments[k].latest \in Entries /\ comments[k].history \in Seq(Entries)
  BY <1>0 DEF Comments
<1> DEFINE all == <<comments[k].latest>> \o comments[k].history
<1>2. /\ all \in Seq(Entries) /\ Len(all) = Len(comments[k].history) + 1
      /\ Len(comments[k].history) \in Nat /\ all[1] = comments[k].latest
      /\ \A j \in 2..Len(all) : all[j] = comments[k].history[j - 1]
  BY <1>1
<1>3. Shown(k) = [j \in 1..Len(all) |-> all[j].run]
  BY DEF Shown
<1> HIDE DEF all
<1>4. Len(Shown(k)) = Len(all) /\ \A j \in 1..Len(all) : Shown(k)[j] = all[j].run
  BY <1>2, <1>3
<1> QED
  BY <1>2, <1>4

LEMMA InOrder == TypeOK /\ Ordered /\ Short => HistoryInOrder
<1> SUFFICES ASSUME TypeOK, Ordered, Short PROVE HistoryInOrder
  OBVIOUS
<1>1. ASSUME OneWorker, NEW k \in Persistent,
             NEW i \in 1..Len(Shown(k)), NEW j \in 1..Len(Shown(k)), i < j,
             {Shown(k)[i], Shown(k)[j]} \subseteq Range(published)
      PROVE  Place(Shown(k)[i]) > Place(Shown(k)[j])
  <2> DEFINE b == comments[k]
  <2>1. Sorted(published, b)
    BY <1>1 DEF Ordered
  <2>2. /\ Len(Shown(k)) = Len(b.history) + 1 /\ Len(b.history) \in Nat
        /\ Shown(k)[1] = b.latest.run
        /\ \A m \in 2..Len(Shown(k)) : Shown(k)[m] = b.history[m - 1].run
    BY ShownIs
  <2>3. \A x : Place(x) = At(published, x)
    BY DEF Place, At
  <2> HIDE DEF b
  <2>4. j \in 2..Len(Shown(k)) /\ j - 1 \in 1..Len(b.history)
    BY <1>1, <2>2
  <2>5. CASE i = 1
    BY <1>1, <2>1, <2>2, <2>3, <2>4, <2>5 DEF Sorted
  <2>6. CASE i # 1
    <3>1. i \in 2..Len(Shown(k)) /\ i - 1 \in 1..Len(b.history) /\ i - 1 < j - 1
      BY <1>1, <2>2, <2>6
    <3> QED
      BY <1>1, <2>1, <2>2, <2>3, <2>4, <3>1 DEF Sorted
  <2> QED
    BY <2>5, <2>6
<1>2. ASSUME OnlyTables, NEW k \in Persistent
      PROVE  \/ Len(comments[k].history) <= maxHistory
             \/ \A j \in 2..Len(comments[k].history) :
                   outcome[comments[k].history[j].run] = "ticked"
  <2>1. Full(comments[k])
    BY <1>2 DEF Short
  <2>2. \A j \in 2..Len(comments[k].history) :
           ~comments[k].history[j].sought => outcome[comments[k].history[j].run] = "ticked"
    BY <2>1 DEF Full, Marked
  <2> QED
    BY <2>1, <2>2 DEF Full
<1> QED
  BY <1>1, <1>2 DEF HistoryInOrder

\* The history of a comment has the tables in the order they were published, in one
\* process and whatever an API call meets; and in any number of processes it is
\* longer than max_history_len only when all its entries but the newest have a tick
\* (publish_persistent_comment_with_history).
THEOREM HistoryCorrectness == Spec => []HistoryInOrder
<1>1. Init => Told /\ Short /\ Once /\ Ordered
  <2> SUFFICES ASSUME Init PROVE Told /\ Short /\ Once /\ Ordered
    OBVIOUS
  <2>1. Persistent = {} /\ \A i \in 1..Len(published) : FALSE
    BY DEF Init, Persistent
  <2>2. \A r \in Runs : previous[r] = {} /\ pc[r] = "idle" /\ outcome[r] = None
    BY DEF Init
  <2> QED
    BY <2>1, <2>2 DEF Told, Short, Once, Ordered, Publishing
<1>2. Spec => [](TypeOK /\ Found /\ Told /\ Short /\ Once /\ Ordered)
  BY <1>1, TypeInit, TypeNext, ToldNext, ShortNext, OnceNext, OrderedNext, PTL DEF Spec
<1> QED
  BY <1>2, InOrder, PTL

-----------------------------------------------------------------------------
\* One comment shows the last tables.  Of the comments with suggestions one stands;
\* another is about to be removed by the run that replaced it.  A run that looks
\* for it finds it as it is, because nobody else publishes meanwhile.

Good == OneWorker /\ OnlyTables /\ faults = {} /\ maxHistory > 0

Going == {old[r] : r \in {q \in Runs : pc[q] = "remove"}}
Standing == Persistent \ Going

\* How many of n tables a comment shows.
Kept(n, m) ==
    /\ m <= n
    /\ IF n <= maxHistory + 1 THEN m = n ELSE m >= 2 /\ (Unticked => m = maxHistory + 1)

\* A body shows the last tables of s, as many as there may be.
Shows(s, b) ==
    /\ Kept(Len(s), Len(b.history) + 1)
    /\ b.latest.run = s[Len(s)]
    /\ \A j \in 1..Len(b.history) : b.history[j].run = s[Len(s) - j]

\* Every run has a progress comment of its own, as it left it.
Own ==
    Good =>
        /\ \A q, r \in Runs : progress[q] # 0 /\ progress[q] = progress[r] => q = r
        /\ \A r \in Runs : progress[r] # 0 /\ pc[r] \notin {"remove", "done"} =>
               comments[progress[r]].kind = "progress"

OneStands ==
    Good =>
        /\ \A r \in Runs : pc[r] = "scan" => previous[r] = Listed
        /\ \A r \in Runs : pc[r] = "new" => published = <<>>
        /\ \A r \in Runs : pc[r] = "remove" => old[r] \in Persistent
        /\ published = <<>> <=> Standing = {}
        /\ \A k \in Standing : Shows(published, comments[k]) /\ \A l \in Standing : k = l

\* The history under a new table: all there was, until it is full; then all but the
\* last entry, when every entry is found.
LEMMA HistoryExact ==
    ASSUME maxHistory \in Nat, maxHistory > 0, NEW f \in Comments, Full(f)
    PROVE  LET h == HistoryOf(f) m == Len(f.history) IN
           /\ m \in Nat /\ Len(h) \in 1..m + 1
           /\ m < maxHistory => Len(h) = m + 1
           /\ Unticked => m <= maxHistory
           /\ Unticked /\ m = maxHistory => Len(h) = m
           /\ h[1] = f.latest
           /\ \A j \in 2..Len(h) : h[j] = f.history[j - 1] /\ j - 1 \in 1..m
<1> DEFINE m == Len(f.history)
           h == HistoryOf(f)
<1>1. f.history \in Seq(Entries) /\ f.latest \in Entries /\ m \in Nat
  BY DEF Comments
<1>2. PICK k \in 0..m :
        /\ Shortened(f.history) = SubSeq(f.history, 1, k)
        /\ \/ k = m /\ (k < maxHistory \/ \A j \in 1..k : ~f.history[j].sought)
           \/ /\ k < m /\ f.history[k + 1].sought
              /\ \A j \in k + 2..m : ~f.history[j].sought
  BY <1>1, ShortenedPrefix
<1>3. Len(h) = k + 1
  <2>1. SubSeq(f.history, 1, k) \in Seq(Entries) /\ Len(SubSeq(f.history, 1, k)) = k
    BY <1>1
  <2> QED
    BY <1>1, <1>2, <2>1 DEF HistoryOf
<1>4. m < maxHistory => Len(h) = m + 1
  <2>1. ASSUME m < maxHistory PROVE Len(<<f.latest>> \o Shortened(f.history)) = m + 1
    <3>1. Shortened(f.history) = f.history
      BY <2>1 DEF Shortened
    <3>2. Len(<<f.latest>> \o f.history) = m + 1
      BY <1>1
    <3> QED
      BY <3>1, <3>2
  <2> QED
    BY <2>1 DEF HistoryOf
<1>5. Unticked => \A j \in 1..m : f.history[j].sought
  <2>1. ASSUME Unticked, NEW j \in 1..m PROVE f.history[j].sought
    <3>1. f.history[j] \in Entries /\ Marked(f.history[j])
      BY <1>1 DEF Full
    <3>2. f.history[j].run \in Runs
      BY <3>1 DEF Marked, Entries
    <3> QED
      BY <2>1, <3>1, <3>2 DEF Marked, Unticked
  <2> QED
    BY <2>1
<1>6. Unticked => m <= maxHistory
  <2>1. ASSUME Unticked, ~(m <= maxHistory) PROVE FALSE
    <3>1. 2 \in 2..m /\ 2 \in 1..m
      BY <1>1, <2>1
    <3>2. \A j \in 2..m : ~f.history[j].sought
      BY <2>1 DEF Full
    <3> QED
      BY <1>5, <2>1, <3>1, <3>2
  <2> QED
    BY <2>1
<1>7. Unticked /\ m = maxHistory => Len(h) = m
  <2>1. ASSUME Unticked, m = maxHistory PROVE k + 1 = m
    <3>1. 1 \in 1..m /\ m \in 1..m
      BY <1>1, <2>1
    <3>2. \A j \in 1..m : f.history[j].sought
      BY <1>5, <2>1
    <3>3. ~(k = m)
      BY <1>2, <2>1, <3>1, <3>2
    <3>4. ~(m \in k + 2..m)
      BY <1>2, <3>1, <3>2, <3>3
    <3> QED
      BY <1>1, <1>2, <3>3, <3>4
  <2> QED
    BY <1>3, <2>1
<1>8. Len(h) \in 1..m + 1
  BY <1>1, <1>2, <1>3
<1>9. /\ h[1] = f.latest
      /\ \A j \in 2..Len(h) : h[j] = f.history[j - 1] /\ j - 1 \in 1..m
  <2>1. \A j \in 2..Len(h) : j - 1 \in 1..m
    BY <1>1, <1>8
  <2> QED
    BY <2>1, HistoryOfFacts
<1> QED
  BY <1>1, <1>4, <1>6, <1>7, <1>8, <1>9

\* One more table was published, and one more is shown, or the oldest is not.
LEMMA KeptMore ==
    ASSUME maxHistory \in Nat, maxHistory > 0, NEW n \in Nat \ {0}, NEW m \in Nat,
           NEW l \in 1..m + 1, Kept(n, m + 1),
           m < maxHistory => l = m + 1, Unticked => m <= maxHistory,
           Unticked /\ m = maxHistory => l = m
    PROVE  Kept(n + 1, l + 1)
<1>1. CASE n <= maxHistory
  <2>1. m + 1 = n
    BY <1>1 DEF Kept
  <2>2. l + 1 = n + 1
    BY <1>1, <2>1
  <2> QED
    BY <1>1, <2>2 DEF Kept
<1>2. CASE ~(n <= maxHistory)
  <2>1. l + 1 <= n + 1 /\ l + 1 >= 2 /\ ~(n + 1 <= maxHistory + 1)
    BY <1>2 DEF Kept
  <2>2. Unticked => m = maxHistory
    BY <1>2 DEF Kept
  <2>3. Unticked => l + 1 = maxHistory + 1
    BY <2>2
  <2> QED
    BY <2>1, <2>3 DEF Kept
<1> QED
  BY <1>1, <1>2

\* The table of a run on top of a body that shows the tables before it.
LEMMA ShowsOneMore ==
    ASSUME maxHistory \in Nat, maxHistory > 0, NEW f \in Comments, Full(f),
           NEW s \in Seq(Runs), s # <<>>, Shows(s, f), NEW r \in Runs, Table(r) = r
    PROVE  Shows(Append(s, r), Suggestions(r, TRUE, HistoryOf(f)))
<1> DEFINE n == Len(s)
           t == Append(s, r)
           m == Len(f.history)
           h == HistoryOf(f)
           b == Suggestions(r, TRUE, h)
<1>1. f.history \in Seq(Entries) /\ f.latest \in Entries /\ m \in Nat /\ n \in Nat \ {0}
  BY DEF Comments
<1>2. /\ Len(t) = n + 1 /\ t[n + 1] = r /\ \A k \in 1..n : t[k] = s[k]
  OBVIOUS
<1>3. /\ Kept(n, m + 1)
      /\ f.latest.run = s[n] /\ \A j \in 1..m : f.history[j].run = s[n - j]
  BY DEF Shows
<1>4. /\ Len(h) \in 1..m + 1
      /\ m < maxHistory => Len(h) = m + 1
      /\ Unticked => m <= maxHistory
      /\ Unticked /\ m = maxHistory => Len(h) = m
  BY HistoryExact
<1>5. /\ Len(h) \in Nat /\ h[1] = f.latest
      /\ \A j \in 2..Len(h) : h[j] = f.history[j - 1] /\ j - 1 \in 1..m
  BY <1>4, HistoryExact
<1>6. b.history = h /\ b.latest.run = r
  BY DEF Suggestions
<1> HIDE DEF h, m, n, t, b
<1>7. Kept(n + 1, Len(h) + 1)
  BY <1>1, <1>3, <1>4, KeptMore
<1>8. ASSUME NEW j \in 1..Len(h) PROVE h[j].run = t[n + 1 - j]
  <2>1. n + 1 - j \in 1..n
    BY <1>1, <1>3, <1>4 DEF Kept
  <2>2. CASE j = 1
    BY <1>1, <1>2, <1>3, <1>5, <2>1, <2>2
  <2>3. CASE j # 1
    <3>1. j \in 2..Len(h)
      BY <1>5, <2>3
    <3>2. h[j].run = s[n - (j - 1)]
      BY <1>3, <1>5, <3>1
    <3>3. n - (j - 1) = n + 1 - j
      BY <1>1, <1>5
    <3> QED
      BY <1>2, <2>1, <3>2, <3>3
  <2> QED
    BY <2>2, <2>3
<1>9. Shows(t, b)
  <2>1. Kept(Len(t), Len(b.history) + 1)
    BY <1>2, <1>6, <1>7
  <2>2. b.latest.run = t[Len(t)]
    BY <1>2, <1>6
  <2>3. ASSUME NEW j \in 1..Len(b.history) PROVE b.history[j].run = t[Len(t) - j]
    <3>1. j \in 1..Len(h) /\ b.history = h
      BY <1>6
    <3>2. h[j].run = t[n + 1 - j]
      BY <1>8, <3>1
    <3>3. Len(t) - j = n + 1 - j
      BY <1>1, <1>2, <1>5, <3>1
    <3> QED
      BY <3>1, <3>2, <3>3
  <2> QED
    BY <2>1, <2>2, <2>3 DEF Shows
<1> QED
  BY <1>9 DEF t, b, h

LEMMA ShowsFirst ==
    ASSUME maxHistory \in Nat, NEW r \in Runs, Table(r) = r
    PROVE  Shows(<<r>>, Suggestions(r, TRUE, <<>>))
<1>1. Len(<<r>>) = 1 /\ <<r>>[1] = r /\ Len(<<>>) = 0
  OBVIOUS
<1> QED
  BY <1>1 DEF Shows, Suggestions, Kept

\* What it shows, it still shows when a run learns that its table has a tick.
LEMMA ShowsStays ==
    ASSUME UNCHANGED <<published, maxHistory>>, Unticked' => Unticked,
           NEW k, comments'[k] = comments[k], Shows(published, comments[k])
    PROVE  Shows(published, comments[k])'
  BY DEF Shows, Kept

\* What no other run touches.
LEMMA OthersKept ==
    ASSUME TypeOK, NEW r \in Runs, Run(r)
    PROVE  \A q \in Runs \ {r} : progress'[q] = progress[q] /\ old'[q] = old[q]
  BY DEF Run, Start, Answer, NoSuggestions, List, Scan, RemoveOld, New, Failed, TypeOK

\* What holds while the next step is one of Good behaviours.
LEMMA GoodBefore ==
    ASSUME TypeOK, Told, NEW r \in Runs, Run(r), Good'
    PROVE  /\ Good /\ Results = {"ok"} /\ maxHistory \in Nat
           /\ UNCHANGED maxHistory /\ (Unticked' => Unticked)
           /\ ~NoSuggestions(r)
           /\ pc'[r] # "none"
           /\ pc[r] \in {"scan", "new"} => Table(r) = r
<1>1. OnlyTables /\ UNCHANGED conf
  BY TablesBefore, StepRest DEF Good
<1>2. OneWorker /\ faults = {} /\ maxHistory > 0
  BY <1>1 DEF Good, conf, OneWorker
<1>3. maxHistory \in Nat
  BY Lengths DEF TypeOK
<1>4. pc[r] # "none"
  BY <1>1, ImproveCommentsAssumption DEF Told, OnlyTables, AllOutcomes
<1>5. pc'[r] # "none"
  <2>1. Told'
    BY ToldNext DEF Next
  <2>2. OnlyTables'
    BY DEF Good
  <2> QED
    BY <2>1, <2>2, ImproveCommentsAssumption DEF Told, OnlyTables, AllOutcomes
<1>6. pc[r] \in {"scan", "new"} => Table(r) = r
  <2>1. pc[r] \in {"scan", "new"} => outcome[r] \in {"table", "ticked", "plain"}
    BY DEF Told
  <2>2. outcome[r] \in {"table", "ticked", "error", None} /\ None # "plain"
    BY <1>1, ImproveCommentsAssumption DEF OnlyTables, AllOutcomes
  <2> QED
    BY <2>1, <2>2 DEF Table
<1> QED
  BY <1>1, <1>2, <1>3, <1>4, <1>5, <1>6, OutcomeStays DEF Good, conf, Results, NoSuggestions

\* The comments with suggestions after a write.
LEMMA PersistentIs ==
    ASSUME comments \in Seq(Comments), NEW b \in Comments
    PROVE  /\ Added(b) =>
                /\ \A k \in Persistent : comments'[k] = comments[k]
                /\ b.kind # "suggestions" => Persistent' = Persistent
                /\ b.kind = "suggestions" => /\ Persistent' = Persistent \cup {Len(comments) + 1}
                                             /\ comments'[Len(comments) + 1] = b
           /\ \A p : Changed(p, b) =>
                /\ \A k \in Persistent \ {p} : comments'[k] = comments[k]
                /\ comments'[p] = b
                /\ b.kind # "suggestions" => Persistent' = Persistent \ {p}
                /\ b.kind = "suggestions" => Persistent' = Persistent \cup {p}
<1>0. Len(comments) \in Nat
  OBVIOUS
<1>1. ASSUME Added(b)
      PROVE  /\ \A k \in Persistent : comments'[k] = comments[k]
             /\ b.kind # "suggestions" => Persistent' = Persistent
             /\ b.kind = "suggestions" => /\ Persistent' = Persistent \cup {Len(comments) + 1}
                                          /\ comments'[Len(comments) + 1] = b
  <2>1. /\ Len(comments') = Len(comments) + 1 /\ comments'[Len(comments) + 1] = b
        /\ \A k \in 1..Len(comments) : comments'[k] = comments[k]
    BY <1>1, AddFacts DEF Added
  <2>2. \A k : k \in 1..Len(comments') <=> k \in 1..Len(comments) \/ k = Len(comments) + 1
    BY <1>0, <2>1
  <2> QED
    BY <2>1, <2>2 DEF Persistent
<1>2. ASSUME NEW p, Changed(p, b)
      PROVE  /\ \A k \in Persistent \ {p} : comments'[k] = comments[k]
             /\ comments'[p] = b
             /\ b.kind # "suggestions" => Persistent' = Persistent \ {p}
             /\ b.kind = "suggestions" => Persistent' = Persistent \cup {p}
  <2>1. /\ Len(comments') = Len(comments) /\ comments'[p] = b /\ p \in 1..Len(comments)
        /\ \A k \in 1..Len(comments) : k # p => comments'[k] = comments[k]
    BY <1>2, ChangeFacts DEF Changed
  <2> QED
    BY <2>1 DEF Persistent
<1> QED
  BY <1>1, <1>2

LEMMA ListedIs == Listed = {[place |-> k, body |-> comments[k]] : k \in Persistent}
  BY DEF Listed, Persistent

\* The comment that stands is not changed, nor is another removed.
LEMMA QuietStep ==
    ASSUME OneStands, Good, NEW r \in Runs, UNCHANGED <<published, old, maxHistory>>,
           Unticked' => Unticked,
           Persistent' = Persistent, \A k \in Persistent : comments'[k] = comments[k],
           \A q \in Runs \ {r} : pc'[q] = pc[q] /\ previous'[q] = previous[q],
           pc[r] # "remove", pc'[r] \notin {"remove", "new"},
           pc'[r] = "scan" => previous'[r] = Listed
    PROVE  OneStands'
<1>1. Going' = Going
  <2>1. {q \in Runs : pc'[q] = "remove"} = {q \in Runs : pc[q] = "remove"}
    OBVIOUS
  <2> QED
    BY <2>1 DEF Going
<1>2. Standing' = Standing /\ Standing \subseteq Persistent
  BY <1>1 DEF Standing
<1>3. Listed' = Listed
  <2>1. {[place |-> k, body |-> comments'[k]] : k \in Persistent'}
          = {[place |-> k, body |-> comments[k]] : k \in Persistent}
    OBVIOUS
  <2>2. Listed' = {[place |-> k, body |-> comments'[k]] : k \in Persistent'}
    BY DEF Listed, Persistent
  <2> QED
    BY <2>1, <2>2, ListedIs
<1>4. \A k \in Standing : Shows(published, comments[k]) => Shows(published, comments[k])'
  BY <1>2, ShowsStays
<1>5. \A q \in Runs : pc'[q] = "scan" => previous'[q] = Listed'
  BY <1>3 DEF OneStands
<1>6. \A q \in Runs : pc'[q] = "new" => published' = <<>>
  BY DEF OneStands
<1>7. \A q \in Runs : pc'[q] = "remove" => old'[q] \in Persistent'
  BY DEF OneStands
<1>8. published' = <<>> <=> Standing' = {}
  BY <1>2 DEF OneStands
<1>9. \A k \in Standing' : Shows(published, comments[k])' /\ \A l \in Standing' : k = l
  BY <1>2, <1>4 DEF OneStands
<1> QED
  BY <1>5, <1>6, <1>7, <1>8, <1>9 DEF OneStands

\* A run that publishes is alone with the comments.
LEMMA Busy ==
    ASSUME Ordered, Good, OneStands, NEW r \in Runs, pc[r] \in Publishing
    PROVE  /\ \A q \in Runs \ {r} : pc[q] \notin Publishing
           /\ Going = IF pc[r] = "remove" THEN {old[r]} ELSE {}
           /\ pc[r] # "remove" => /\ Standing = Persistent
                                  /\ published = <<>> <=> Persistent = {}
                                  /\ \A k, l \in Persistent : k = l
                                  /\ \A k \in Persistent : Shows(published, comments[k])
<1>1. \A q \in Runs \ {r} : pc[q] \notin Publishing
  BY DEF Ordered, Good
<1>2. \A q \in Runs : pc[q] = "remove" => q = r
  BY <1>1 DEF Publishing
<1>3. Going = IF pc[r] = "remove" THEN {old[r]} ELSE {}
  BY <1>2 DEF Going
<1>4. pc[r] # "remove" => Standing = Persistent
  BY <1>3 DEF Standing
<1> QED
  BY <1>1, <1>3, <1>4 DEF OneStands

\* After the step of a run that publishes only that run may still remove.
LEMMA BusyAfter ==
    ASSUME NEW r \in Runs, \A q \in Runs \ {r} : pc[q] \notin Publishing /\ pc'[q] = pc[q]
    PROVE  /\ \A q \in Runs : pc'[q] \in {"scan", "new", "remove"} => q = r
           /\ Going' = IF pc'[r] = "remove" THEN {old'[r]} ELSE {}
<1>1. \A q \in Runs : pc'[q] \in {"scan", "new", "remove"} => q = r
  BY DEF Publishing
<1> QED
  BY <1>1 DEF Going

\* What a run finds is the comment that stands; it puts its table there, or in the
\* place of its progress comment.
LEMMA ScanFinds ==
    ASSUME TypeOK, Told, Short, Ordered, Own, OneStands, NEW r \in Runs, Scan(r), Good'
    PROVE  /\ Good /\ maxHistory \in Nat /\ UNCHANGED maxHistory
           /\ \/ /\ Persistent = {} /\ pc'[r] = "new" /\ published = <<>>
                 /\ UNCHANGED <<comments, previous, old, published>>
              \/ \E k \in Persistent : \E p, b :
                   /\ p = (IF progress[r] # 0 THEN progress[r] ELSE k)
                   /\ p \notin Persistent \ {k} /\ (progress[r] # 0 => p # k)
                   /\ b \in Comments /\ b.kind = "suggestions" /\ Changed(p, b)
                   /\ Shows(Append(published, r), b)
                   /\ published' = Append(published, r) /\ old'[r] = k
                   /\ pc'[r] = (IF progress[r] # 0 THEN "remove" ELSE "done")
<1>0. /\ Good /\ Results = {"ok"} /\ maxHistory \in Nat /\ UNCHANGED maxHistory /\ Table(r) = r
      /\ maxHistory > 0 /\ OnlyTables
  BY GoodBefore DEF Run, Good, Scan
<1>1. /\ pc[r] = "scan" /\ previous[r] = Listed
  BY <1>0 DEF Scan, OneStands
<1>2. /\ published = <<>> <=> Persistent = {}
      /\ \A k, l \in Persistent : k = l
      /\ \A k \in Persistent : Shows(published, comments[k])
  BY <1>0, <1>1, Busy DEF Publishing
<1>3. /\ pc \in [Runs -> Publishing \cup {"idle", "model", "done"}] /\ comments \in Seq(Comments)
      /\ Len(comments) \in Nat /\ progress[r] \in 0..Len(comments)
      /\ old \in [Runs -> 0..Len(comments)] /\ published \in Seq(Runs)
  BY DEF TypeOK
<1>4. CASE /\ previous[r] = {} /\ Goto(r, "new")
           /\ UNCHANGED <<comments, previous, old, published>>
  <2>1. Persistent = {}
    BY <1>1, <1>4, ListedIs
  <2>2. pc'[r] = "new"
    BY <1>3, <1>4 DEF Goto
  <2> QED
    BY <1>0, <1>2, <1>4, <2>1, <2>2
<1>5. ASSUME NEW found \in previous[r], NEW res \in Results,
             \/ ~HasTable(found.body)
             \/ /\ comments' = Edit(IF progress[r] # 0 THEN progress[r] ELSE found.place,
                                    Suggestions(r, TRUE, HistoryOf(found.body)), res)
                /\ IF EditRaises(res)
                     THEN Goto(r, "new") /\ UNCHANGED <<old, published>>
                     ELSE /\ Goto(r, AfterUpdate(r))
                          /\ old' = [old EXCEPT ![r] = found.place]
                          /\ published' = Append(published, r)
      PROVE  \E k \in Persistent : \E p, b :
                   /\ p = (IF progress[r] # 0 THEN progress[r] ELSE k)
                   /\ p \notin Persistent \ {k} /\ (progress[r] # 0 => p # k)
                   /\ b \in Comments /\ b.kind = "suggestions" /\ Changed(p, b)
                   /\ Shows(Append(published, r), b)
                   /\ published' = Append(published, r) /\ old'[r] = k
                   /\ pc'[r] = (IF progress[r] # 0 THEN "remove" ELSE "done")
  <2>1. PICK k \in Persistent : found.place = k /\ found.body = comments[k]
    BY <1>1, ListedIs
  <2>2. /\ comments[k] \in Comments /\ Full(comments[k]) /\ k \in 1..Len(comments)
        /\ comments[k].kind = "suggestions"
    BY <1>0, <1>3 DEF Persistent, Short
  <2>3. HasTable(found.body)
    BY <2>1, <2>2 DEF Full, Marked, HasTable
  <2> DEFINE p == IF progress[r] # 0 THEN progress[r] ELSE k
             b == Suggestions(r, TRUE, HistoryOf(comments[k]))
  <2>4. res = "ok" /\ ~EditRaises(res) /\ Written(res)
    BY <1>0 DEF EditRaises, Written
  <2>5. /\ comments' = Edit(p, b, res) /\ Goto(r, AfterUpdate(r))
        /\ old' = [old EXCEPT ![r] = k] /\ published' = Append(published, r)
    BY <1>5, <2>1, <2>3, <2>4
  <2>6. p \in 1..Len(comments) /\ (progress[r] # 0 => comments[p].kind = "progress")
    <3>1. progress[r] # 0 => comments[progress[r]].kind = "progress"
      BY <1>0, <1>1 DEF Own
    <3>2. progress[r] # 0 => progress[r] \in 1..Len(comments)
      BY <1>3
    <3>3. CASE progress[r] # 0
      BY <3>1, <3>2, <3>3
    <3>4. CASE progress[r] = 0
      BY <2>2, <3>4
    <3> QED
      BY <3>3, <3>4
  <2>7. b \in Comments /\ b.kind = "suggestions"
    <3>1. HistoryOf(comments[k]) \in Seq(Entries)
      BY <1>0, <2>2, HistoryOfFacts
    <3>2. b \in Bodies(r)
      BY <3>1, BodiesHas
    <3> QED
      BY <3>2, BodyTypes DEF Suggestions
  <2>8. Shows(Append(published, r), b)
    BY <1>0, <1>2, <1>3, <2>1, <2>2, ShowsOneMore
  <2> HIDE DEF b
  <2>9. Changed(p, b)
    BY <2>2, <2>4, <2>5, <2>6 DEF Edit, Changed
  <2>10. p \notin Persistent \ {k} /\ (progress[r] # 0 => p # k)
    BY <1>2, <2>1, <2>2, <2>6 DEF Persistent
  <2>11. old'[r] = k /\ pc'[r] = (IF progress[r] # 0 THEN "remove" ELSE "done")
    BY <1>3, <2>5 DEF Goto, AfterUpdate
  <2> QED
    BY <2>5, <2>7, <2>8, <2>9, <2>10, <2>11
<1>6. \/ /\ previous[r] = {} /\ Goto(r, "new")
         /\ UNCHANGED <<comments, previous, old, published>>
      \/ \E found \in previous[r], res \in Results :
             \/ ~HasTable(found.body)
             \/ /\ comments' = Edit(IF progress[r] # 0 THEN progress[r] ELSE found.place,
                                    Suggestions(r, TRUE, HistoryOf(found.body)), res)
                /\ IF EditRaises(res)
                     THEN Goto(r, "new") /\ UNCHANGED <<old, published>>
                     ELSE /\ Goto(r, AfterUpdate(r))
                          /\ old' = [old EXCEPT ![r] = found.place]
                          /\ published' = Append(published, r)
  BY DEF Scan
<1> QED
  BY <1>0, <1>4, <1>5, <1>6

\* A write where r has its own comment, or where a comment with suggestions is,
\* touches no progress comment of another run.
LEMMA OwnKept ==
    ASSUME TypeOK, Own, Good, NEW r \in Runs, NEW b \in Comments, NEW p, UNCHANGED progress,
           \A q \in Runs \ {r} : pc'[q] = pc[q],
           \/ UNCHANGED comments \/ Added(b)
           \/ Changed(p, b) /\ (p = progress[r] \/ p \in Persistent),
           \/ pc'[r] \in {"remove", "done"}
           \/ UNCHANGED comments /\ pc[r] \notin {"remove", "done"}
    PROVE  Own'
<1>1. /\ comments \in Seq(Comments) /\ Len(comments) \in Nat
      /\ \A q \in Runs : progress[q] \in 0..Len(comments)
  BY DEF TypeOK
<1>2. ASSUME NEW q \in Runs \ {r}, progress[q] # 0, pc[q] \notin {"remove", "done"}
      PROVE  comments'[progress[q]].kind = "progress"
  <2>1. comments[progress[q]].kind = "progress" /\ progress[q] # progress[r]
    BY <1>2 DEF Own
  <2>2. progress[q] \in 1..Len(comments)
    BY <1>1, <1>2
  <2>3. CASE UNCHANGED comments
    BY <2>1, <2>3
  <2>4. CASE Added(b)
    BY <1>1, <2>1, <2>2, <2>4, AddFacts DEF Added
  <2>5. CASE Changed(p, b) /\ (p = progress[r] \/ p \in Persistent)
    <3>1. p # progress[q]
      BY <2>1, <2>5 DEF Persistent
    <3>2. comments'[progress[q]] = comments[progress[q]]
      BY <1>1, <2>2, <2>5, <3>1, ChangeFacts DEF Changed
    <3> QED
      BY <2>1, <3>2
  <2> QED
    BY <2>3, <2>4, <2>5
<1>3. \A q \in Runs : progress'[q] # 0 /\ pc'[q] \notin {"remove", "done"} =>
          comments'[progress'[q]].kind = "progress"
  <2>1. ASSUME NEW q \in Runs, progress'[q] # 0, pc'[q] \notin {"remove", "done"}
        PROVE  comments'[progress'[q]].kind = "progress"
    <3>1. CASE q = r
      BY <2>1, <3>1 DEF Own
    <3>2. CASE q # r
      BY <1>2, <2>1, <3>2
    <3> QED
      BY <3>1, <3>2
  <2> QED
    BY <2>1
<1>4. \A q, s \in Runs : progress'[q] # 0 /\ progress'[q] = progress'[s] => q = s
  BY DEF Own
<1> QED
  BY <1>3, <1>4 DEF Own

LEMMA StandsNext ==
    TypeOK /\ Found /\ Told /\ Short /\ Ordered /\ Own /\ OneStands /\ [Next]_vars
        => Own' /\ OneStands'
<1> SUFFICES ASSUME TypeOK, Found, Told, Short, Ordered, Own, OneStands, [Next]_vars
             PROVE  Own' /\ OneStands'
  OBVIOUS
<1>0. /\ pc \in [Runs -> Publishing \cup {"idle", "model", "done"}] /\ comments \in Seq(Comments)
      /\ Len(comments) \in Nat /\ progress \in [Runs -> 0..Len(comments)]
      /\ old \in [Runs -> 0..Len(comments)] /\ published \in Seq(Runs)
      /\ previous \in [Runs -> SUBSET [place : 1..Len(comments), body : Comments]]
  BY DEF TypeOK
<1>1. CASE UNCHANGED vars
  <2>1. UNCHANGED <<Persistent, Going, Listed, Good>>
    BY <1>1 DEF vars, conf, Persistent, Going, Listed, Good, OneWorker, OnlyTables
  <2>2. UNCHANGED Standing
    BY <2>1 DEF Standing
  <2>3. \A k : Shows(published, comments[k])' <=> Shows(published, comments[k])
    BY <1>1 DEF vars, conf, Shows, Kept, Unticked
  <2> QED
    BY <1>1, <2>1, <2>2, <2>3 DEF vars, Own, OneStands
<1>2. ASSUME NEW r \in Runs, Run(r), Good' PROVE Own' /\ OneStands'
  <2>1. /\ Good /\ Results = {"ok"} /\ maxHistory \in Nat /\ UNCHANGED maxHistory
        /\ Unticked' => Unticked
        /\ ~NoSuggestions(r) /\ pc'[r] # "none"
        /\ pc[r] \in {"scan", "new"} => Table(r) = r
    BY <1>2, GoodBefore
  <2>2. \A q \in Runs \ {r} : /\ pc'[q] = pc[q] /\ previous'[q] = previous[q]
                              /\ progress'[q] = progress[q] /\ old'[q] = old[q]
    BY <1>2, StepRest, OthersKept
  <2>3. /\ faults = {} /\ maxHistory > 0
        /\ \A res \in Results : ~EditRaises(res) /\ ~PublishRaises(res) /\ Written(res)
    BY <2>1 DEF Good, EditRaises, PublishRaises, Written
  <2>4. /\ \A k \in {"progress", "text", "removed"} :
              Plain(k) \in Comments /\ Plain(k).kind # "suggestions" /\ Plain(k).kind = k
        /\ Suggestions(r, TRUE, <<>>) \in Comments /\ Suggestions(r, TRUE, <<>>).kind = "suggestions"
    BY BodiesHas, BodyTypes DEF Plain, Suggestions
  <2>5. progress[r] # 0 /\ pc[r] \in {"new", "failed"} =>
           /\ progress[r] \in 1..Len(comments) /\ progress[r] \notin Persistent
           /\ comments[progress[r]].kind = "progress"
    <3>1. progress[r] # 0 => progress[r] \in 1..Len(comments)
      BY <1>0
    <3>2. progress[r] # 0 /\ pc[r] \in {"new", "failed"} => comments[progress[r]].kind = "progress"
      BY <2>1 DEF Own
    <3> QED
      BY <3>1, <3>2 DEF Persistent
  <2>6. CASE Start(r)
    <3>1. pc[r] = "idle" /\ pc'[r] \in {"model", "failed"} /\ UNCHANGED <<published, old>>
      BY <1>0, <2>6 DEF Start, Goto
    <3>2. CASE progressOn[r]
      <4>1. Added(Plain("progress")) /\ progress' = [progress EXCEPT ![r] = Len(comments) + 1]
        BY <2>3, <2>6, <3>2 DEF Start, Publish, Added, Response
      <4>2. Persistent' = Persistent /\ \A k \in Persistent : comments'[k] = comments[k]
        BY <1>0, <2>4, <4>1, PersistentIs
      <4>3. OneStands'
        BY <2>1, <2>2, <3>1, <4>2, QuietStep
      <4>4. progress'[r] = Len(comments) + 1 /\ comments'[progress'[r]].kind = "progress"
        BY <1>0, <2>4, <4>1, AddFacts DEF Added
      <4>5. \A q \in Runs \ {r} : progress'[q] \in 0..Len(comments) /\ progress'[q] = progress[q]
        BY <1>0, <2>2
      <4>6. \A q, s \in Runs : progress'[q] # 0 /\ progress'[q] = progress'[s] => q = s
        <5>1. ASSUME NEW q \in Runs, NEW s \in Runs, progress'[q] # 0, progress'[q] = progress'[s]
              PROVE  q = s
          <6>1. CASE q = r \/ s = r
            BY <1>0, <4>4, <4>5, <5>1, <6>1
          <6>2. CASE q # r /\ s # r
            BY <2>1, <4>5, <5>1, <6>2 DEF Own
          <6> QED
            BY <6>1, <6>2
        <5> QED
          BY <5>1
      <4>7. ASSUME NEW q \in Runs, progress'[q] # 0, pc'[q] \notin {"remove", "done"}
            PROVE  comments'[progress'[q]].kind = "progress"
        <5>1. CASE q = r
          BY <4>4, <5>1
        <5>2. CASE q # r
          <6>1. comments[progress[q]].kind = "progress" /\ progress[q] \in 1..Len(comments)
            BY <1>0, <2>1, <2>2, <4>5, <4>7, <5>2 DEF Own
          <6> QED
            BY <1>0, <2>4, <4>1, <4>5, <5>2, <6>1, AddFacts DEF Added
        <5> QED
          BY <5>1, <5>2
      <4> QED
        BY <4>3, <4>6, <4>7 DEF Own
    <3>3. CASE ~progressOn[r]
      <4>1. UNCHANGED <<comments, progress>>
        BY <2>6, <3>3 DEF Start
      <4>2. Persistent' = Persistent
        BY <4>1 DEF Persistent
      <4>3. OneStands'
        BY <2>1, <2>2, <3>1, <4>1, <4>2, QuietStep
      <4>4. Own'
        BY <2>1, <2>2, <2>4, <3>1, <4>1, OwnKept
      <4> QED
        BY <4>3, <4>4
    <3> QED
      BY <3>2, <3>3
  <2>7. CASE Answer(r) \/ List(r)
    <3>1. /\ pc[r] \in {"model", "list"} /\ UNCHANGED <<comments, progress, old, published>>
      BY <2>7 DEF Answer, List
    <3>2. /\ pc'[r] \in {"list", "scan", "failed"}
          /\ pc'[r] = "scan" => previous'[r] = Listed
      <4>1. CASE Answer(r)
        <5>1. \E there \in {"failed", "none", "list"} : Goto(r, there)
          BY <2>3, <4>1 DEF Answer
        <5> QED
          BY <1>0, <2>1, <5>1 DEF Goto
      <4>2. CASE List(r)
        BY <1>0, <2>3, <4>2 DEF List, Goto
      <4> QED
        BY <2>7, <4>1, <4>2
    <3>3. Persistent' = Persistent
      BY <3>1 DEF Persistent
    <3>4. OneStands'
      BY <2>1, <2>2, <3>1, <3>2, <3>3, QuietStep
    <3>5. Own'
      BY <2>1, <2>2, <2>4, <3>1, OwnKept
    <3> QED
      BY <3>4, <3>5
  <2>8. CASE Scan(r)
    <3>0. pc[r] = "scan" /\ UNCHANGED progress
      BY <2>8 DEF Scan
    <3>1. /\ \A q \in Runs \ {r} : pc[q] \notin Publishing
          /\ \A k, l \in Persistent : k = l
      BY <2>1, <3>0, Busy DEF Publishing
    <3>2. /\ \A q \in Runs : pc'[q] \in {"scan", "new", "remove"} => q = r
          /\ Going' = IF pc'[r] = "remove" THEN {old'[r]} ELSE {}
      BY <2>2, <3>1, BusyAfter
    <3>3. CASE /\ Persistent = {} /\ pc'[r] = "new" /\ published = <<>>
               /\ UNCHANGED <<comments, previous, old, published>>
      <4>1. Persistent' = {} /\ Standing' = {}
        BY <3>3 DEF Persistent, Standing
      <4>2. OneStands'
        BY <3>2, <3>3, <4>1 DEF OneStands
      <4>3. Own'
        BY <2>1, <2>2, <2>4, <3>0, <3>3, OwnKept
      <4> QED
        BY <4>2, <4>3
    <3>4. ASSUME NEW k \in Persistent, NEW p, NEW b,
                 p = (IF progress[r] # 0 THEN progress[r] ELSE k),
                 p \notin Persistent \ {k}, progress[r] # 0 => p # k,
                 b \in Comments, b.kind = "suggestions", Changed(p, b),
                 Shows(Append(published, r), b),
                 published' = Append(published, r), old'[r] = k,
                 pc'[r] = (IF progress[r] # 0 THEN "remove" ELSE "done")
          PROVE  Own' /\ OneStands'
      <4>1. Persistent' = Persistent \cup {p} /\ comments'[p] = b
        BY <1>0, <3>4, PersistentIs
      <4>2. Persistent = {k}
        BY <3>1
      <4>3. Standing' = {p}
        BY <3>2, <3>4, <4>1, <4>2 DEF Standing
      <4>4. Shows(published, comments[p])'
        BY <2>1, <3>4, <4>1 DEF Shows, Kept
      <4>5. published' # <<>>
        BY <1>0, <3>4
      <4>6. pc'[r] = "remove" => old'[r] \in Persistent'
        BY <3>4, <4>1
      <4>7. pc'[r] \notin {"scan", "new"}
        BY <3>4
      <4>8. OneStands'
        BY <3>2, <4>3, <4>4, <4>5, <4>6, <4>7 DEF OneStands
      <4>9. Own'
        BY <2>1, <2>2, <3>0, <3>4, OwnKept
      <4> QED
        BY <4>8, <4>9
    <3> QED
      BY <1>2, <2>8, <3>3, <3>4, ScanFinds
  <2>9. CASE RemoveOld(r)
    <3>1. pc[r] = "remove" /\ pc'[r] = "done" /\ UNCHANGED <<progress, old, published>>
      BY <1>0, <2>9 DEF RemoveOld, Goto
    <3>2. /\ \A q \in Runs \ {r} : pc[q] \notin Publishing
          /\ Going = {old[r]}
      BY <2>1, <3>1, Busy DEF Publishing
    <3>3. /\ \A q \in Runs : pc'[q] \in {"scan", "new", "remove"} => q = r
          /\ Going' = {}
      BY <2>2, <3>1, <3>2, BusyAfter
    <3>4. old[r] \in Persistent
      BY <2>1, <3>1 DEF OneStands
    <3>5. Changed(old[r], Plain("removed"))
      BY <2>3, <2>9, <3>4 DEF RemoveOld, Delete, Changed, Persistent
    <3>6. /\ Persistent' = Persistent \ {old[r]}
          /\ \A k \in Persistent \ {old[r]} : comments'[k] = comments[k]
      BY <1>0, <2>4, <3>5, PersistentIs
    <3>7. Standing' = Standing /\ \A k \in Standing : comments'[k] = comments[k]
      BY <3>2, <3>3, <3>6 DEF Standing
    <3>8. \A k \in Standing : Shows(published, comments[k])'
      BY <2>1, <3>1, <3>7, ShowsStays DEF OneStands
    <3>9. OneStands'
      BY <2>1, <3>1, <3>3, <3>7, <3>8 DEF OneStands
    <3>10. Own'
      BY <2>1, <2>2, <2>4, <3>1, <3>4, <3>5, OwnKept
    <3> QED
      BY <3>9, <3>10
  <2>10. CASE New(r)
    <3> DEFINE b == Suggestions(r, TRUE, <<>>)
    <3>1. pc[r] = "new" /\ UNCHANGED progress /\ published = <<>>
      BY <2>1, <2>10 DEF New, OneStands
    <3>2. /\ \A q \in Runs \ {r} : pc[q] \notin Publishing
          /\ Persistent = {}
      BY <2>1, <3>1, Busy DEF Publishing
    <3>3. /\ pc'[r] = "done" /\ published' = <<r>>
          /\ IF progress[r] # 0 THEN Changed(progress[r], b) ELSE Added(b)
      <4>1. PICK res \in Results :
              LET raises == IF progress[r] # 0 THEN EditRaises(res) ELSE PublishRaises(res) IN
              /\ comments' = IF progress[r] # 0 THEN Edit(progress[r], b, res)
                                                ELSE Publish(b, res)
              /\ Goto(r, IF raises THEN "failed" ELSE "done")
              /\ published' = IF raises THEN published ELSE Append(published, r)
        BY <2>10 DEF New
      <4>2. /\ comments' = IF progress[r] # 0 THEN Edit(progress[r], b, res) ELSE Publish(b, res)
            /\ Goto(r, "done") /\ published' = Append(<<>>, r)
        BY <2>3, <3>1, <4>1
      <4>3. Append(<<>>, r) = <<r>>
        OBVIOUS
      <4>4. pc'[r] = "done"
        BY <1>0, <4>2 DEF Goto
      <4>5. IF progress[r] # 0 THEN Changed(progress[r], b) ELSE Added(b)
        BY <2>3, <2>5, <3>1, <4>2 DEF Edit, Publish, Changed, Added
      <4> QED
        BY <4>2, <4>3, <4>4, <4>5
    <3>4. /\ \A q \in Runs : pc'[q] \in {"scan", "new", "remove"} => q = r
          /\ Going' = {}
      BY <2>2, <3>2, <3>3, BusyAfter
    <3>5. \E p : Persistent' = {p} /\ comments'[p] = b
      <4>0. b \in Comments /\ b.kind = "suggestions"
        BY <2>4
      <4> HIDE DEF b
      <4>1. CASE progress[r] # 0
        <5>1. Changed(progress[r], b)
          BY <3>3, <4>1
        <5>2. Persistent' = Persistent \cup {progress[r]} /\ comments'[progress[r]] = b
          BY <1>0, <4>0, <5>1, PersistentIs
        <5> QED
          BY <3>2, <5>2
      <4>2. CASE progress[r] = 0
        <5>1. Added(b)
          BY <3>3, <4>2
        <5>2. Persistent' = Persistent \cup {Len(comments) + 1} /\ comments'[Len(comments) + 1] = b
          BY <1>0, <4>0, <5>1, PersistentIs
        <5> QED
          BY <3>2, <5>2
      <4> QED
        BY <4>1, <4>2
    <3>6. PICK p : Standing' = {p} /\ comments'[p] = b
      BY <3>4, <3>5 DEF Standing
    <3>7. Shows(published, comments[p])'
      <4>1. Shows(<<r>>, b)
        BY <2>1, <3>1, ShowsFirst
      <4> QED
        BY <2>1, <3>3, <3>6, <4>1 DEF Shows, Kept
    <3>8. published' # <<>>
      BY <3>3
    <3>9. OneStands'
      BY <3>3, <3>4, <3>6, <3>7, <3>8 DEF OneStands
    <3>10. Own'
      BY <2>1, <2>2, <2>4, <3>1, <3>3, OwnKept
    <3> QED
      BY <3>9, <3>10
  <2>11. CASE Failed(r)
    <3>1. pc[r] = "failed" /\ pc'[r] = "done" /\ UNCHANGED <<progress, old, published>>
      BY <1>0, <2>11 DEF Failed, Goto
    <3>2. \/ progress[r] # 0 /\ Changed(progress[r], Plain("removed"))
          \/ Added(Plain("text"))
      BY <2>3, <2>5, <2>11, <3>1 DEF Failed, Cleared, Delete, Publish, Changed, Added
    <3>3. Persistent' = Persistent /\ \A k \in Persistent : comments'[k] = comments[k]
      <4>1. CASE progress[r] # 0 /\ Changed(progress[r], Plain("removed"))
        <5>1. Plain("removed") \in Comments /\ Plain("removed").kind # "suggestions"
          BY <2>4
        <5>2. /\ Persistent' = Persistent \ {progress[r]}
              /\ \A k \in Persistent \ {progress[r]} : comments'[k] = comments[k]
          BY <1>0, <4>1, <5>1, PersistentIs
        <5>3. progress[r] \notin Persistent
          BY <2>5, <3>1, <4>1
        <5> QED
          BY <5>2, <5>3
      <4>2. CASE Added(Plain("text"))
        BY <1>0, <2>4, <4>2, PersistentIs
      <4> QED
        BY <3>2, <4>1, <4>2
    <3>4. OneStands'
      BY <2>1, <2>2, <3>1, <3>3, QuietStep
    <3>5. Own'
      BY <2>1, <2>2, <2>4, <3>1, <3>2, OwnKept
    <3> QED
      BY <3>4, <3>5
  <2> QED
    BY <1>2, <2>1, <2>6, <2>7, <2>8, <2>9, <2>10, <2>11 DEF Run
<1>3. ~Good' => Own' /\ OneStands'
  BY DEF Own, OneStands
<1> QED
  BY <1>1, <1>2, <1>3 DEF Next

LEMMA OneShows == TypeOK /\ OneStands => OneCommentShowsTheLast
<1> SUFFICES ASSUME TypeOK, OneStands, OneWorker, OnlyTables, faults = {}, Quiet, maxHistory > 0
             PROVE  LET n == Len(published)
                    IN IF n = 0 THEN Persistent = {}
                       ELSE /\ Cardinality(Persistent) = 1
                            /\ \A k \in Persistent : \E m \in 1..n :
                                 /\ Shown(k) = [j \in 1..m |-> published[n + 1 - j]]
                                 /\ IF n <= maxHistory + 1 THEN m = n
                                    ELSE m >= 2 /\ (Unticked => m = maxHistory + 1)
  BY DEF OneCommentShowsTheLast
<1> DEFINE n == Len(published)
<1>1. published \in Seq(Runs) /\ n \in Nat /\ maxHistory \in Nat
  BY Lengths DEF TypeOK
<1>2. Going = {}
  BY DEF Quiet, Going, Publishing
<1>3. /\ published = <<>> <=> Persistent = {}
      /\ \A k \in Persistent : Shows(published, comments[k]) /\ \A l \in Persistent : k = l
  BY <1>2 DEF OneStands, Standing, Good
<1>4. CASE n = 0
  BY <1>1, <1>3, <1>4
<1>5. CASE n # 0
  <2>1. PICK k \in Persistent : Persistent = {k}
    BY <1>1, <1>3, <1>5
  <2>2. Cardinality(Persistent) = 1
    BY <2>1, FS_Singleton
  <2> DEFINE b == comments[k]
             kept == Len(b.history) + 1
  <2>3. /\ Len(Shown(k)) = Len(b.history) + 1 /\ Len(b.history) \in Nat
        /\ Shown(k)[1] = b.latest.run
        /\ \A j \in 2..Len(Shown(k)) : Shown(k)[j] = b.history[j - 1].run
    BY ShownIs
  <2>4. /\ Len(b.history) + 1 = kept /\ b.latest.run = published[n] /\ Kept(n, kept)
        /\ \A j \in 1..Len(b.history) : b.history[j].run = published[n - j]
    BY <1>3 DEF Shows
  <2>5. \A j \in 1..kept : Shown(k)[j] = published[n + 1 - j]
    <3>1. ASSUME NEW j \in 1..kept PROVE Shown(k)[j] = published[n + 1 - j]
      <4>1. kept \in Nat
        BY <2>3
      <4> HIDE DEF n, kept, b
      <4>2. CASE j = 1
        BY <1>1, <2>3, <2>4, <4>1, <4>2
      <4>3. CASE j # 1
        <5>1. j \in 2..Len(Shown(k)) /\ j - 1 \in 1..Len(b.history)
          BY <2>3, <2>4, <4>1, <4>3
        <5>2. Shown(k)[j] = published[n - (j - 1)]
          BY <2>3, <2>4, <5>1
        <5>3. n - (j - 1) = n + 1 - j
          BY <1>1, <4>1
        <5> QED
          BY <5>2, <5>3
      <4> QED
        BY <4>2, <4>3
    <3> QED
      BY <3>1
  <2>6. Shown(k) = [j \in 1..kept |-> Shown(k)[j]]
    <3>1. Shown(k) = [j \in 1..Len(<<b.latest>> \o b.history) |-> (<<b.latest>> \o b.history)[j].run]
      BY DEF Shown
    <3>2. Len(<<b.latest>> \o b.history) = kept
      <4>1. b \in Comments
        BY DEF TypeOK, Persistent
      <4>2. b.history \in Seq(Entries)
        BY <4>1 DEF Comments
      <4>3. Len(<<b.latest>> \o b.history) = Len(b.history) + 1
        BY <4>2
      <4> QED
        BY <2>4, <4>3
    <3> QED
      BY <3>1, <3>2
  <2>7. Shown(k) = [j \in 1..kept |-> published[n + 1 - j]]
    BY <2>5, <2>6
  <2> HIDE DEF kept, n, b
  <2>8. kept \in 1..n
    BY <1>1, <2>3, <2>4 DEF Kept
  <2>9. IF n <= maxHistory + 1 THEN kept = n ELSE kept >= 2 /\ (Unticked => kept = maxHistory + 1)
    BY <2>4 DEF Kept
  <2>10. \E m \in 1..n : /\ Shown(k) = [j \in 1..m |-> published[n + 1 - j]]
                         /\ IF n <= maxHistory + 1 THEN m = n
                            ELSE m >= 2 /\ (Unticked => m = maxHistory + 1)
    BY <2>7, <2>8, <2>9
  <2> QED
    BY <1>5, <2>1, <2>2, <2>10 DEF n
<1> QED
  BY <1>4, <1>5

\* In one process, and while every run has a table, there is one comment with the
\* last tables in the order they were published: all of them until the history is
\* full, then max_history_len + 1 of them unless a table had a tick, and the last two
\* in any case (publish_persistent_comment_with_history).
THEOREM PersistentCorrectness == Spec => []OneCommentShowsTheLast
<1>1. Init => Told /\ Short /\ Once /\ Ordered /\ Own /\ OneStands
  <2> SUFFICES ASSUME Init PROVE Told /\ Short /\ Once /\ Ordered /\ Own /\ OneStands
    OBVIOUS
  <2>1. Persistent = {} /\ \A i \in 1..Len(published) : FALSE
    BY DEF Init, Persistent
  <2>2. \A r \in Runs : previous[r] = {} /\ pc[r] = "idle" /\ outcome[r] = None /\ progress[r] = 0
    BY DEF Init
  <2>3. Standing = {} /\ published = <<>>
    BY <2>1 DEF Standing, Init
  <2> QED
    BY <2>1, <2>2, <2>3 DEF Told, Short, Once, Ordered, Publishing, Own, OneStands
<1>2. Spec => [](TypeOK /\ Found /\ Told /\ Short /\ Once /\ Ordered /\ Own /\ OneStands)
  BY <1>1, TypeInit, TypeNext, ToldNext, ShortNext, OnceNext, OrderedNext, StandsNext,
     PTL DEF Spec
<1> QED
  BY <1>2, OneShows, PTL

-----------------------------------------------------------------------------
\* Tables that were published.  Each stays in a comment that stands, or is older
\* than all in a full one that stands; a run that replaces that comment carries the
\* duty over to its own.

\* In several processes.
Apart == "unanswered" \notin faults /\ \A r \in Runs : progressOn[r]

Live(r) == pc[r] \notin {"remove", "done"}

\* A run writes to its progress comment before anyone else does; what a run has
\* listed is as it was, or removed; what it is about to remove is no progress comment.
Mine ==
    Lossless =>
        /\ \A q, r \in Runs : progress[q] # 0 /\ progress[q] = progress[r] => q = r
        /\ \A r \in Runs : progress[r] # 0 =>
              /\ Live(r) /\ (Apart \/ pc[r] \notin {"new", "failed"}) =>
                     comments[progress[r]].kind = "progress"
              /\ pc[r] = "new" => comments[progress[r]].kind # "removed"
        /\ \A r \in Runs : pc[r] \in {"model", "list", "scan", "new"} /\ Apart => progress[r] # 0
        /\ \A r \in Runs : \A found \in previous[r] :
              /\ found.body.kind = "suggestions"
              /\ \/ comments[found.place] = found.body
                 \/ ~OneWorker /\ comments[found.place].kind = "removed"
        /\ \A r \in Runs : pc[r] = "remove" => comments[old[r]].kind \in {"suggestions", "removed"}

Has(b, x) == b.latest.run = x \/ \E j \in 1..Len(b.history) : b.history[j].run = x
Known(b) == \A x : Has(b, x) => x \in Range(published)

\* In several processes only published tables are shown, in order.
Gathered ==
    Lossless /\ Apart =>
        /\ \A k \in Persistent : Known(comments[k]) /\ Sorted(published, comments[k])
        /\ \A r \in Runs : \A found \in previous[r] :
              Known(found.body) /\ Sorted(published, found.body)

\* A history from which a table may have been cut.
Filled(b) == b.history # <<>> /\ (Unticked => Len(b.history) = maxHistory)

\* The table of x is shown, or is older than what is shown of s where one was cut.
Covers(s, b, x) ==
    \/ Has(b, x)
    \/ /\ Filled(b)
       /\ \A y \in Range(s) : Has(b, y) => At(s, x) < At(s, y)

\* A comment that stays as it is until a run finds it.
Safe(k) == k \in Standing /\ \A q \in Runs : Live(q) => progress[q] # k

Covered ==
    Lossless =>
        \A x \in Range(published) :
            \E k \in 1..Len(comments) : Safe(k) /\ Covers(published, comments[k], x)

\* What holds while the next step is one of behaviours that lose nothing.
LEMMA LosslessBefore ==
    ASSUME TypeOK, Told, NEW r \in Runs, Run(r), Lossless'
    PROVE  /\ Lossless /\ (Apart' <=> Apart) /\ (OneWorker' <=> OneWorker)
           /\ OneWorker \/ Apart
           /\ UNCHANGED maxHistory /\ maxHistory \in Nat /\ (Unticked' => Unticked)
           /\ ~NoSuggestions(r) /\ pc'[r] # "none"
           /\ pc[r] \in {"scan", "new"} => Table(r) = r
           /\ Results \subseteq {"ok", "unsent", "unanswered"}
           /\ Apart => Results \subseteq {"ok", "unsent"}
<1>1. OnlyTables /\ UNCHANGED conf
  BY TablesBefore, StepRest DEF Lossless
<1>2. Lossless /\ (Apart' <=> Apart) /\ (OneWorker' <=> OneWorker)
  BY <1>1 DEF Lossless, conf, OneWorker, Apart
<1>3. maxHistory \in Nat /\ UNCHANGED maxHistory
  BY <1>1, Lengths DEF TypeOK, conf
<1>4. pc[r] # "none"
  BY <1>1, ImproveCommentsAssumption DEF Told, OnlyTables, AllOutcomes
<1>5. pc'[r] # "none"
  <2>1. Told'
    BY ToldNext DEF Next
  <2>2. OnlyTables'
    BY DEF Lossless
  <2> QED
    BY <2>1, <2>2, ImproveCommentsAssumption DEF Told, OnlyTables, AllOutcomes
<1>6. pc[r] \in {"scan", "new"} => Table(r) = r
  <2>1. pc[r] \in {"scan", "new"} => outcome[r] \in {"table", "ticked", "plain"}
    BY DEF Told
  <2>2. outcome[r] \in {"table", "ticked", "error", None} /\ None # "plain"
    BY <1>1, ImproveCommentsAssumption DEF OnlyTables, AllOutcomes
  <2> QED
    BY <2>1, <2>2 DEF Table
<1>7. Results \subseteq {"ok", "refused", "unsent", "unanswered"}
  BY ImproveCommentsAssumption DEF Results, AllFaults, TypeOK
<1>8. "refused" \notin Results /\ (Apart => "unanswered" \notin Results)
  BY <1>2 DEF Lossless, Results, Apart
<1> QED
  BY <1>2, <1>3, <1>4, <1>5, <1>6, <1>7, <1>8, OutcomeStays DEF NoSuggestions, Lossless, Apart

LEMMA ResultsAre ==
    \A res \in {"ok", "unsent", "unanswered"} :
        /\ EditRaises(res) <=> res # "ok"
        /\ PublishRaises(res) <=> res # "ok"
        /\ Written(res) <=> res # "unsent"
  BY DEF EditRaises, PublishRaises, Written

\* The body of a run with what was below the comment it found.
Moved(r, found) == Suggestions(r, TRUE, HistoryOf(found.body))

LEMMA MovedType ==
    ASSUME TypeOK, NEW r \in Runs, NEW found \in previous[r]
    PROVE  Moved(r, found) \in Comments /\ Moved(r, found).kind = "suggestions"
<1>1. HistoryOf(found.body) \in Seq(Entries)
  BY FoundType
<1>2. Moved(r, found) \in Bodies(r)
  BY <1>1, BodiesHas DEF Moved
<1> QED
  BY <1>2, BodyTypes DEF Moved, Suggestions

\* The scan finds nothing or does not get through; or it writes, and whether it
\* knows that it did decides what follows.
ScanWrote(r, found, p) ==
    /\ p = IF progress[r] # 0 THEN progress[r] ELSE found.place
    /\ Changed(p, Moved(r, found)) /\ comments[p].kind # "removed"
    /\ progress[r] # 0 => p # found.place /\ comments[p].kind = "progress"
    /\ progress[r] = 0 => OneWorker /\ comments[p] = found.body
    /\ previous'[r] = {}
    /\ \/ ~Apart /\ pc'[r] = "new" /\ UNCHANGED <<old, published>>
       \/ /\ pc'[r] = IF progress[r] # 0 THEN "remove" ELSE "done"
          /\ old'[r] = found.place /\ published' = Append(published, r)

LEMMA ScanDoes ==
    ASSUME TypeOK, Told, Short, Mine, NEW r \in Runs, Scan(r), Lossless'
    PROVE  \/ /\ UNCHANGED <<comments, old, published>>
              /\ pc'[r] = "new" /\ previous'[r] = {}
           \/ \E found \in previous[r] : \E p : ScanWrote(r, found, p)
<1>0. /\ Lossless /\ (OneWorker \/ Apart) /\ OnlyTables
      /\ Results \subseteq {"ok", "unsent", "unanswered"}
      /\ Apart => Results \subseteq {"ok", "unsent"}
  BY LosslessBefore DEF Run, Lossless
<1>1. /\ pc \in [Runs -> Publishing \cup {"idle", "model", "done"}] /\ comments \in Seq(Comments)
      /\ Len(comments) \in Nat /\ progress[r] \in 0..Len(comments)
      /\ old \in [Runs -> 0..Len(comments)]
      /\ previous \in [Runs -> SUBSET [place : 1..Len(comments), body : Comments]]
  BY DEF TypeOK
<1>2. pc[r] = "scan" /\ UNCHANGED progress
  BY DEF Scan
<1>3. CASE /\ previous[r] = {} /\ Goto(r, "new")
           /\ UNCHANGED <<comments, previous, old, published>>
  BY <1>1, <1>3 DEF Goto
<1>4. ASSUME NEW found \in previous[r], NEW res \in Results,
             comments' = Edit(IF progress[r] # 0 THEN progress[r] ELSE found.place,
                              Suggestions(r, TRUE, HistoryOf(found.body)), res),
             previous' = [previous EXCEPT ![r] = {}],
             IF EditRaises(res)
               THEN Goto(r, "new") /\ UNCHANGED <<old, published>>
               ELSE /\ Goto(r, AfterUpdate(r))
                    /\ old' = [old EXCEPT ![r] = found.place]
                    /\ published' = Append(published, r)
      PROVE  \/ /\ UNCHANGED <<comments, old, published>>
                /\ pc'[r] = "new" /\ previous'[r] = {}
             \/ \E p : ScanWrote(r, found, p)
  <2> DEFINE p == IF progress[r] # 0 THEN progress[r] ELSE found.place
             b == Moved(r, found)
  <2>1. previous'[r] = {}
    BY <1>1, <1>4
  <2>2. found.place \in 1..Len(comments) /\ p \in 1..Len(comments)
    BY <1>1, FoundType
  <2>3. /\ found.body.kind = "suggestions"
        /\ \/ comments[found.place] = found.body
           \/ ~OneWorker /\ comments[found.place].kind = "removed"
    BY <1>0 DEF Mine
  <2>4. progress[r] # 0 => comments[progress[r]].kind = "progress"
    BY <1>0, <1>2 DEF Mine, Live
  <2>5. progress[r] = 0 => OneWorker
    BY <1>0, <1>2 DEF Mine
  <2>6. /\ comments[p].kind # "removed"
        /\ progress[r] # 0 => p # found.place /\ comments[p].kind = "progress"
        /\ progress[r] = 0 => OneWorker /\ comments[p] = found.body
    BY <2>3, <2>4, <2>5
  <2>7. comments' = Edit(p, b, res)
    BY <1>4 DEF Moved
  <2> HIDE DEF p, b
  <2>8. CASE res = "unsent"
    <3>1. UNCHANGED comments
      BY <2>7, <2>8 DEF Edit, Written
    <3>2. EditRaises(res)
      BY <2>8 DEF EditRaises
    <3>3. pc'[r] = "new"
      BY <1>1, <1>4, <3>2 DEF Goto
    <3> QED
      BY <1>4, <2>1, <3>1, <3>2, <3>3
  <2>9. CASE res = "unanswered"
    <3>1. Changed(p, b)
      BY <2>2, <2>6, <2>7, <2>9 DEF Edit, Written, Changed
    <3>2. EditRaises(res) /\ ~Apart
      BY <1>0, <2>9 DEF EditRaises
    <3>3. pc'[r] = "new"
      BY <1>1, <1>4, <3>2 DEF Goto
    <3> QED
      BY <1>4, <2>1, <2>6, <3>1, <3>2, <3>3 DEF ScanWrote, p, b
  <2>10. CASE res = "ok"
    <3>1. Changed(p, b)
      BY <2>2, <2>6, <2>7, <2>10 DEF Edit, Written, Changed
    <3>2. ~EditRaises(res)
      BY <2>10 DEF EditRaises
    <3>3. pc'[r] = IF progress[r] # 0 THEN "remove" ELSE "done"
      BY <1>1, <1>4, <3>2 DEF Goto, AfterUpdate
    <3>4. old'[r] = found.place
      BY <1>1, <1>4, <3>2
    <3> QED
      BY <1>4, <2>1, <2>6, <3>1, <3>2, <3>3, <3>4 DEF ScanWrote, p, b
  <2> QED
    BY <1>0, <2>8, <2>9, <2>10
<1>5. \A found \in previous[r] : HasTable(found.body)
  BY <1>0 DEF Short, Full, Marked, HasTable
<1>6. \/ /\ previous[r] = {} /\ Goto(r, "new")
         /\ UNCHANGED <<comments, previous, old, published>>
      \/ \E found \in previous[r], res \in Results :
           /\ comments' = Edit(IF progress[r] # 0 THEN progress[r] ELSE found.place,
                               Suggestions(r, TRUE, HistoryOf(found.body)), res)
           /\ previous' = [previous EXCEPT ![r] = {}]
           /\ IF EditRaises(res)
                THEN Goto(r, "new") /\ UNCHANGED <<old, published>>
                ELSE /\ Goto(r, AfterUpdate(r))
                     /\ old' = [old EXCEPT ![r] = found.place]
                     /\ published' = Append(published, r)
  BY <1>5 DEF Scan
<1> QED
  BY <1>3, <1>4, <1>6

\* A new comment, or the progress comment, gets the table alone.
NewWrote(r) ==
    /\ \/ progress[r] # 0 /\ Changed(progress[r], Suggestions(r, TRUE, <<>>))
       \/ progress[r] = 0 /\ Added(Suggestions(r, TRUE, <<>>))
    /\ \/ ~Apart /\ pc'[r] = "failed" /\ UNCHANGED published
       \/ pc'[r] = "done" /\ published' = Append(published, r)

LEMMA NewDoes ==
    ASSUME TypeOK, Told, Mine, NEW r \in Runs, New(r), Lossless'
    PROVE  /\ UNCHANGED <<progress, previous, old>> /\ pc[r] = "new"
           /\ \/ UNCHANGED <<comments, published>> /\ pc'[r] = "failed"
              \/ NewWrote(r)
<1>0. /\ Lossless
      /\ Results \subseteq {"ok", "unsent", "unanswered"}
      /\ Apart => Results \subseteq {"ok", "unsent"}
  BY LosslessBefore DEF Run
<1>1. /\ pc \in [Runs -> Publishing \cup {"idle", "model", "done"}]
      /\ Len(comments) \in Nat /\ progress[r] \in 0..Len(comments)
  BY DEF TypeOK
<1>2. UNCHANGED <<progress, previous, old>> /\ pc[r] = "new"
  BY DEF New
<1>3. progress[r] # 0 => comments[progress[r]].kind # "removed" /\ progress[r] \in 1..Len(comments)
  BY <1>0, <1>1, <1>2 DEF Mine
<1> DEFINE b == Suggestions(r, TRUE, <<>>)
<1>4. PICK res \in Results :
        /\ comments' = IF progress[r] # 0 THEN Edit(progress[r], b, res) ELSE Publish(b, res)
        /\ Goto(r, IF (IF progress[r] # 0 THEN EditRaises(res) ELSE PublishRaises(res))
                   THEN "failed" ELSE "done")
        /\ published' = IF (IF progress[r] # 0 THEN EditRaises(res) ELSE PublishRaises(res))
                        THEN published ELSE Append(published, r)
  BY DEF New
<1> HIDE DEF b
<1>5. /\ pc'[r] = IF res # "ok" THEN "failed" ELSE "done"
      /\ published' = IF res # "ok" THEN published ELSE Append(published, r)
  BY <1>0, <1>1, <1>4, ResultsAre DEF Goto
<1>6. CASE res = "unsent"
  BY <1>2, <1>4, <1>5, <1>6 DEF Edit, Publish, Written
<1>7. CASE res # "unsent"
  <2>1. Written(res)
    BY <1>0, <1>7, ResultsAre
  <2>2. \/ progress[r] # 0 /\ Changed(progress[r], b)
        \/ progress[r] = 0 /\ Added(b)
    BY <1>3, <1>4, <2>1 DEF Edit, Publish, Changed, Added
  <2>3. res = "ok" \/ (res = "unanswered" /\ ~Apart)
    BY <1>0, <1>7
  <2> QED
    BY <1>2, <1>5, <2>2, <2>3 DEF NewWrote, b
<1> QED
  BY <1>6, <1>7

LEMMA StartDoes ==
    ASSUME TypeOK, NEW r \in Runs, Start(r)
    PROVE  /\ pc[r] = "idle" /\ UNCHANGED <<previous, old, published>>
           /\ \/ ~progressOn[r] /\ UNCHANGED <<comments, progress>> /\ pc'[r] = "model"
              \/ /\ UNCHANGED comments \/ Added(Plain("progress"))
                 /\ progress'[r] = 0 /\ pc'[r] = "failed"
              \/ /\ Added(Plain("progress"))
                 /\ progress'[r] = Len(comments) + 1 /\ pc'[r] = "model"
<1>0. /\ pc \in [Runs -> Publishing \cup {"idle", "model", "done"}]
      /\ progress \in [Runs -> 0..Len(comments)]
  BY DEF TypeOK
<1>1. pc[r] = "idle" /\ UNCHANGED <<previous, old, published>>
  BY DEF Start
<1>2. CASE ~progressOn[r]
  BY <1>0, <1>1, <1>2 DEF Start, Goto
<1>3. CASE progressOn[r]
  <2>1. PICK res \in Results :
          /\ comments' = Publish(Plain("progress"), res)
          /\ progress' = [progress EXCEPT ![r] = Response(res)]
          /\ Goto(r, IF PublishRaises(res) THEN "failed" ELSE "model")
    BY <1>3 DEF Start
  <2>2. CASE PublishRaises(res)
    <3>1. progress'[r] = 0 /\ pc'[r] = "failed"
      BY <1>0, <2>1, <2>2 DEF Goto, Response
    <3> QED
      BY <1>1, <2>1, <3>1, PublishIs
  <2>3. CASE ~PublishRaises(res)
    <3>1. progress'[r] = Len(comments) + 1 /\ pc'[r] = "model"
      BY <1>0, <2>1, <2>3 DEF Goto, Response
    <3>2. Added(Plain("progress"))
      BY <2>1, <2>3 DEF PublishRaises, Publish, Written, Added
    <3> QED
      BY <1>1, <3>1, <3>2
  <2> QED
    BY <2>2, <2>3
<1> QED
  BY <1>2, <1>3

LEMMA RemoveDoes ==
    ASSUME TypeOK, Found, NEW r \in Runs, RemoveOld(r)
    PROVE  /\ pc[r] = "remove" /\ pc'[r] = "done"
           /\ UNCHANGED <<progress, previous, old, published>>
           /\ UNCHANGED comments \/ Changed(old[r], Plain("removed"))
<1>0. /\ pc \in [Runs -> Publishing \cup {"idle", "model", "done"}]
      /\ Len(comments) \in Nat /\ old[r] \in 0..Len(comments)
  BY DEF TypeOK
<1>1. /\ pc[r] = "remove" /\ pc'[r] = "done"
      /\ UNCHANGED <<progress, previous, old, published>>
  BY <1>0 DEF RemoveOld, Goto
<1>2. old[r] \in 1..Len(comments)
  BY <1>0, <1>1 DEF Found
<1> QED
  BY <1>1, <1>2, DeleteIs DEF RemoveOld

LEMMA FailedDoes ==
    ASSUME TypeOK, NEW r \in Runs, Failed(r)
    PROVE  /\ pc[r] = "failed" /\ pc'[r] = "done"
           /\ UNCHANGED <<progress, previous, old, published>>
           /\ \/ UNCHANGED comments
              \/ Added(Plain("text"))
              \/ progress[r] # 0 /\ Changed(progress[r], Plain("removed"))
<1>0. /\ pc \in [Runs -> Publishing \cup {"idle", "model", "done"}]
      /\ Len(comments) \in Nat /\ progress[r] \in 0..Len(comments)
  BY DEF TypeOK
<1>1. /\ pc[r] = "failed" /\ pc'[r] = "done"
      /\ UNCHANGED <<progress, previous, old, published>>
  BY <1>0 DEF Failed, Goto
<1>2. progress[r] # 0 => progress[r] \in 1..Len(comments)
  BY <1>0
<1> QED
  BY <1>1, <1>2, PublishIs, DeleteIs DEF Failed, Cleared

\* What a run may touch: its progress comment; the one it found; the one it replaced.
Touch(r) ==
    \/ UNCHANGED comments
    \/ \E b \in Comments : Added(b)
    \/ /\ pc[r] \in {"scan", "new", "failed"} /\ progress[r] # 0
       /\ \E b \in Comments : Changed(progress[r], b)
    \/ /\ pc[r] = "scan" /\ progress[r] = 0 /\ OneWorker
       /\ \E found \in previous[r], b \in Comments :
            Changed(found.place, b) /\ comments[found.place] = found.body
    \/ pc[r] = "remove" /\ Changed(old[r], Plain("removed"))

LEMMA StepTouches ==
    ASSUME TypeOK, Found, Told, Short, Mine, NEW r \in Runs, Run(r), Lossless'
    PROVE  Touch(r)
<1>1. /\ Plain("progress") \in Comments /\ Plain("text") \in Comments
      /\ Plain("removed") \in Comments /\ Suggestions(r, TRUE, <<>>) \in Comments
  BY BodyTypes, BodiesHas
<1>2. CASE Start(r)
  BY <1>1, <1>2, StartDoes DEF Touch
<1>3. CASE Answer(r) \/ List(r)
  BY <1>3 DEF Answer, List, Touch
<1>4. CASE Scan(r)
  <2>1. ASSUME NEW found \in previous[r], NEW p, ScanWrote(r, found, p) PROVE Touch(r)
    <3>1. Moved(r, found) \in Comments /\ pc[r] = "scan"
      BY <1>4, MovedType DEF Scan
    <3>2. CASE progress[r] # 0
      <4>1. Changed(progress[r], Moved(r, found))
        BY <2>1, <3>2 DEF ScanWrote
      <4> QED
        BY <3>1, <3>2, <4>1 DEF Touch
    <3>3. CASE progress[r] = 0
      <4>1. Changed(found.place, Moved(r, found)) /\ OneWorker /\ comments[found.place] = found.body
        BY <2>1, <3>3 DEF ScanWrote
      <4> QED
        BY <3>1, <3>3, <4>1 DEF Touch
    <3> QED
      BY <3>2, <3>3
  <2> QED
    BY <1>4, <2>1, ScanDoes DEF Touch
<1>5. CASE RemoveOld(r)
  BY <1>5, RemoveDoes DEF Touch
<1>6. CASE New(r)
  BY <1>1, <1>6, NewDoes DEF Touch, NewWrote
<1>7. CASE Failed(r)
  BY <1>1, <1>7, FailedDoes DEF Touch
<1> QED
  BY <1>2, <1>3, <1>4, <1>5, <1>6, <1>7, LosslessBefore DEF Run

\* What a step of r leaves of what the runs hold.
LEMMA TouchKeeps ==
    ASSUME TypeOK, Ordered, Mine, Lossless, OneWorker \/ Apart, NEW r \in Runs, Touch(r)
    PROVE  /\ \A q \in Runs : \A found \in previous[q] : q # r \/ pc[r] # "scan" =>
                \/ comments'[found.place] = found.body
                \/ ~OneWorker /\ comments'[found.place].kind = "removed"
           /\ \A q \in Runs \ {r} : progress[q] # 0 =>
                /\ Live(q) /\ (Apart \/ pc[q] \notin {"new", "failed"}) =>
                     comments'[progress[q]].kind = "progress"
                /\ pc[q] = "new" => comments'[progress[q]].kind # "removed"
           /\ \A q \in Runs \ {r} : pc[q] = "remove" /\ old[q] # 0 =>
                comments'[old[q]].kind \in {"suggestions", "removed"}
<1>0. /\ comments \in Seq(Comments) /\ Len(comments) \in Nat
      /\ \A q \in Runs : progress[q] \in 0..Len(comments) /\ old[q] \in 0..Len(comments)
      /\ \A q \in Runs : \A found \in previous[q] : found.place \in 1..Len(comments)
  BY FoundType DEF TypeOK
<1>1. /\ \A q, s \in Runs : progress[q] # 0 /\ progress[q] = progress[s] => q = s
      /\ \A q \in Runs : progress[q] # 0 =>
            /\ Live(q) /\ (Apart \/ pc[q] \notin {"new", "failed"}) =>
                   comments[progress[q]].kind = "progress"
            /\ pc[q] = "new" => comments[progress[q]].kind # "removed"
      /\ \A q \in Runs : \A found \in previous[q] :
            /\ found.body.kind = "suggestions"
            /\ \/ comments[found.place] = found.body
               \/ ~OneWorker /\ comments[found.place].kind = "removed"
      /\ \A q \in Runs : pc[q] = "remove" => comments[old[q]].kind \in {"suggestions", "removed"}
  BY DEF Mine
<1>2. OneWorker /\ pc[r] \in Publishing =>
        /\ \A q \in Runs \ {r} : pc[q] \notin Publishing
        /\ \A q \in Runs : q # r \/ pc[r] # "scan" => previous[q] = {}
  BY DEF Ordered, Publishing
<1>3. CASE \A k \in 1..Len(comments) : comments'[k] = comments[k]
  BY <1>0, <1>1, <1>3
<1>4. ASSUME NEW p \in 1..Len(comments), NEW b \in Comments, Changed(p, b),
             pc[r] \in {"scan", "new", "failed", "remove"},
             \/ comments[p].kind = "progress"
             \/ OneWorker
             \/ b.kind = "removed" /\ comments[p].kind \in {"suggestions", "removed"},
             \A q \in Runs \ {r} : progress[q] # 0 /\ Live(q)
                  /\ (Apart \/ pc[q] \notin {"new", "failed"}) => progress[q] # p
      PROVE  /\ \A q \in Runs : \A found \in previous[q] : q # r \/ pc[r] # "scan" =>
                  \/ comments'[found.place] = found.body
                  \/ ~OneWorker /\ comments'[found.place].kind = "removed"
             /\ \A q \in Runs \ {r} : progress[q] # 0 =>
                  /\ Live(q) /\ (Apart \/ pc[q] \notin {"new", "failed"}) =>
                       comments'[progress[q]].kind = "progress"
                  /\ pc[q] = "new" => comments'[progress[q]].kind # "removed"
             /\ \A q \in Runs \ {r} : pc[q] = "remove" /\ old[q] # 0 =>
                  comments'[old[q]].kind \in {"suggestions", "removed"}
  <2>1. comments'[p] = b /\ \A k \in 1..Len(comments) : k # p => comments'[k] = comments[k]
    BY <1>0, <1>4, ChangeFacts DEF Changed
  <2>2. pc[r] \in Publishing
    BY <1>4 DEF Publishing
  <2>3. ASSUME NEW q \in Runs, NEW found \in previous[q], q # r \/ pc[r] # "scan"
        PROVE  \/ comments'[found.place] = found.body
               \/ ~OneWorker /\ comments'[found.place].kind = "removed"
    <3>1. ~OneWorker
      BY <1>2, <2>2, <2>3
    <3>2. CASE found.place # p
      BY <1>0, <1>1, <2>1, <3>2
    <3>3. CASE found.place = p
      BY <1>1, <1>4, <2>1, <3>1, <3>3
    <3> QED
      BY <3>2, <3>3
  <2>4. ASSUME NEW q \in Runs \ {r}, progress[q] # 0
        PROVE  /\ Live(q) /\ (Apart \/ pc[q] \notin {"new", "failed"}) =>
                    comments'[progress[q]].kind = "progress"
               /\ pc[q] = "new" => comments'[progress[q]].kind # "removed"
    <3>1. progress[q] \in 1..Len(comments)
      BY <1>0, <2>4
    <3>2. ASSUME Live(q), Apart \/ pc[q] \notin {"new", "failed"}
          PROVE  comments'[progress[q]].kind = "progress"
      BY <1>1, <1>4, <2>1, <2>4, <3>1, <3>2
    <3>3. ASSUME pc[q] = "new" PROVE comments'[progress[q]].kind # "removed"
      <4>1. ~OneWorker /\ Apart
        BY <1>2, <2>2, <3>3 DEF Publishing
      <4> QED
        BY <3>2, <3>3, <4>1 DEF Live
    <3> QED
      BY <3>2, <3>3
  <2>5. ASSUME NEW q \in Runs \ {r}, pc[q] = "remove", old[q] # 0
        PROVE  comments'[old[q]].kind \in {"suggestions", "removed"}
    <3>1. ~OneWorker /\ old[q] \in 1..Len(comments)
      BY <1>0, <1>2, <2>2, <2>5 DEF Publishing
    <3> QED
      BY <1>1, <1>4, <2>1, <2>5, <3>1
  <2> QED
    BY <2>3, <2>4, <2>5
<1>5. CASE UNCHANGED comments
  BY <1>3, <1>5
<1>6. CASE \E b \in Comments : Added(b)
  BY <1>0, <1>3, <1>6, AddFacts DEF Added
<1>7. CASE /\ pc[r] \in {"scan", "new", "failed"} /\ progress[r] # 0
           /\ \E b \in Comments : Changed(progress[r], b)
  <2>1. comments[progress[r]].kind = "progress" \/ OneWorker
    BY <1>1, <1>7 DEF Live
  <2>2. \A q \in Runs \ {r} : progress[q] # 0 => progress[q] # progress[r]
    BY <1>1
  <2> QED
    BY <1>0, <1>4, <1>7, <2>1, <2>2
<1>8. CASE /\ pc[r] = "scan" /\ progress[r] = 0 /\ OneWorker
           /\ \E found \in previous[r], b \in Comments :
                Changed(found.place, b) /\ comments[found.place] = found.body
  <2>1. PICK found \in previous[r], b \in Comments :
          Changed(found.place, b) /\ comments[found.place] = found.body
    BY <1>8
  <2>2. comments[found.place].kind = "suggestions" /\ found.place \in 1..Len(comments)
    BY <1>0, <1>1, <2>1
  <2>3. \A q \in Runs \ {r} : progress[q] # 0 /\ Live(q)
                  /\ (Apart \/ pc[q] \notin {"new", "failed"}) => progress[q] # found.place
    BY <1>1, <2>2
  <2> QED
    BY <1>4, <1>8, <2>1, <2>2, <2>3
<1>9. CASE pc[r] = "remove" /\ Changed(old[r], Plain("removed"))
  <2>1. /\ comments[old[r]].kind \in {"suggestions", "removed"} /\ old[r] \in 1..Len(comments)
        /\ Plain("removed") \in Comments /\ Plain("removed").kind = "removed"
    BY <1>1, <1>9, BodyTypes, BodiesHas DEF Changed, Plain
  <2>2. \A q \in Runs \ {r} : progress[q] # 0 /\ Live(q)
                  /\ (Apart \/ pc[q] \notin {"new", "failed"}) => progress[q] # old[r]
    BY <1>1, <2>1
  <2> QED
    BY <1>4, <1>9, <2>1, <2>2
<1> QED
  BY <1>5, <1>6, <1>7, <1>8, <1>9 DEF Touch

\* The clauses of Mine about the run that took a step.
MineOf(r) ==
    /\ progress[r] # 0 =>
          /\ Live(r) /\ (Apart \/ pc[r] \notin {"new", "failed"}) =>
                 comments[progress[r]].kind = "progress"
          /\ pc[r] = "new" => comments[progress[r]].kind # "removed"
    /\ pc[r] \in {"model", "list", "scan", "new"} /\ Apart => progress[r] # 0
    /\ pc[r] = "remove" => comments[old[r]].kind \in {"suggestions", "removed"}
    /\ \A found \in previous[r] : found.body.kind = "suggestions"
    /\ \A q \in Runs : progress[q] # 0 /\ progress[q] = progress[r] => q = r

LEMMA MineOfNext ==
    ASSUME TypeOK, Found, Told, Short, Ordered, Mine, NEW r \in Runs, Run(r), Lossless'
    PROVE  MineOf(r)'
<1>0. /\ comments \in Seq(Comments) /\ Len(comments) \in Nat
      /\ pc \in [Runs -> Publishing \cup {"idle", "model", "done"}]
      /\ previous \in [Runs -> SUBSET [place : 1..Len(comments), body : Comments]]
      /\ \A q \in Runs : progress[q] \in 0..Len(comments)
  BY DEF TypeOK
<1>1. /\ Lossless /\ (Apart' <=> Apart) /\ (OneWorker' <=> OneWorker) /\ (OneWorker \/ Apart)
      /\ ~NoSuggestions(r) /\ pc'[r] # "none"
  BY LosslessBefore
<1>2. MineOf(r)
  BY <1>1 DEF Mine, MineOf
<1>3. \A q \in Runs \ {r} : progress'[q] = progress[q]
  BY OthersKept
<1>4. CASE Start(r)
  <2>1. pc[r] = "idle" /\ UNCHANGED previous /\ Live(r)
    BY <1>4, StartDoes DEF Live
  <2>2. Plain("progress") \in Comments /\ Plain("progress").kind = "progress"
    BY BodyTypes, BodiesHas DEF Plain
  <2>3. CASE ~progressOn[r] /\ UNCHANGED <<comments, progress>> /\ pc'[r] = "model"
    <3>1. ~Apart
      BY <2>3 DEF Apart
    <3> QED
      BY <1>1, <1>2, <2>1, <2>3, <3>1 DEF MineOf
  <2>4. CASE progress'[r] = 0 /\ pc'[r] = "failed"
    <3>1. \A q \in Runs : progress'[q] # 0 /\ progress'[q] = progress'[r] => q = r
      BY <2>4
    <3> QED
      BY <1>2, <2>1, <2>4, <3>1 DEF MineOf
  <2>5. CASE /\ Added(Plain("progress"))
             /\ progress'[r] = Len(comments) + 1 /\ pc'[r] = "model"
    <3>1. comments'[progress'[r]].kind = "progress" /\ progress'[r] # 0
      BY <1>0, <2>2, <2>5, AddFacts DEF Added
    <3>2. \A q \in Runs : progress'[q] # 0 /\ progress'[q] = progress'[r] => q = r
      BY <1>0, <1>3, <2>5
    <3> QED
      BY <1>2, <2>1, <2>5, <3>1, <3>2 DEF MineOf
  <2> QED
    BY <1>4, <2>3, <2>4, <2>5, StartDoes
<1>5. CASE Answer(r)
  <2>1. pc[r] = "model" /\ UNCHANGED <<comments, progress, previous>>
    BY <1>5 DEF Answer
  <2>2. pc'[r] \in {"failed", "none", "list", "new"}
    BY <1>0, <1>5 DEF Answer, Goto
  <2> QED
    BY <1>1, <1>2, <2>1, <2>2 DEF MineOf, Live
<1>6. CASE List(r)
  <2>1. pc[r] = "list" /\ UNCHANGED <<comments, progress>>
    BY <1>6 DEF List
  <2>2. pc'[r] \in {"scan", "new"}
    BY <1>0, <1>6 DEF List, Goto
  <2>3. \A found \in previous'[r] : found.body.kind = "suggestions"
    <3>1. previous'[r] = Listed \/ UNCHANGED previous
      BY <1>0, <1>6 DEF List
    <3> QED
      BY <1>2, <3>1 DEF Listed, MineOf
  <2> QED
    BY <1>1, <1>2, <2>1, <2>2, <2>3 DEF MineOf, Live
<1>7. CASE Scan(r)
  <2>1. pc[r] = "scan" /\ UNCHANGED progress
    BY <1>7 DEF Scan
  <2>2. CASE UNCHANGED <<comments, old, published>> /\ pc'[r] = "new" /\ previous'[r] = {}
    BY <1>1, <1>2, <2>1, <2>2 DEF MineOf, Live
  <2>3. ASSUME NEW found \in previous[r], NEW p, ScanWrote(r, found, p) PROVE MineOf(r)'
    <3>1. Moved(r, found) \in Comments /\ Moved(r, found).kind = "suggestions"
      BY MovedType
    <3>2. comments'[p].kind = "suggestions" /\ \A k \in 1..Len(comments) : k # p => comments'[k] = comments[k]
      BY <1>0, <2>3, <3>1, ChangeFacts DEF ScanWrote, Changed
    <3>3. previous'[r] = {}
      BY <2>3 DEF ScanWrote
    <3>4. CASE pc'[r] = "new" /\ ~Apart
      <4>1. progress[r] # 0 => p = progress[r]
        BY <2>3 DEF ScanWrote
      <4> QED
        BY <1>1, <1>2, <2>1, <3>2, <3>3, <3>4, <4>1 DEF MineOf
    <3>5. CASE /\ pc'[r] = IF progress[r] # 0 THEN "remove" ELSE "done"
               /\ old'[r] = found.place
      <4>1. pc'[r] = "remove" => comments'[old'[r]].kind \in {"suggestions", "removed"}
        <5> SUFFICES ASSUME pc'[r] = "remove" PROVE comments'[old'[r]].kind \in {"suggestions", "removed"}
          OBVIOUS
        <5>1. p # found.place /\ found.place \in 1..Len(comments)
          BY <2>3, <3>5, FoundType DEF ScanWrote
        <5>2. comments[found.place].kind \in {"suggestions", "removed"}
          BY <1>1 DEF Mine
        <5> QED
          BY <3>2, <3>5, <5>1, <5>2
      <4>2. pc'[r] \in {"remove", "done"}
        BY <3>5
      <4> QED
        BY <1>2, <2>1, <3>3, <4>1, <4>2 DEF MineOf, Live
    <3> QED
      BY <2>3, <3>4, <3>5 DEF ScanWrote
  <2> QED
    BY <1>7, <2>2, <2>3, ScanDoes
<1>8. CASE RemoveOld(r)
  BY <1>2, <1>8, RemoveDoes DEF MineOf, Live
<1>9. CASE New(r)
  <2>1. UNCHANGED <<progress, previous>> /\ pc[r] = "new"
    BY <1>9, NewDoes
  <2>2. CASE UNCHANGED comments /\ pc'[r] = "failed"
    BY <1>1, <1>2, <2>1, <2>2 DEF MineOf, Live
  <2>3. CASE NewWrote(r)
    BY <1>1, <1>2, <2>1, <2>3 DEF MineOf, Live, NewWrote
  <2> QED
    BY <1>9, <2>2, <2>3, NewDoes
<1>10. CASE Failed(r)
  BY <1>2, <1>10, FailedDoes DEF MineOf, Live
<1> QED
  BY <1>1, <1>4, <1>5, <1>6, <1>7, <1>8, <1>9, <1>10 DEF Run

LEMMA MineNext == TypeOK /\ Found /\ Told /\ Short /\ Ordered /\ Mine /\ [Next]_vars => Mine'
<1> SUFFICES ASSUME TypeOK, Found, Told, Short, Ordered, Mine, [Next]_vars PROVE Mine'
  OBVIOUS
<1>1. CASE UNCHANGED vars
  BY <1>1 DEF vars, conf, Mine, Lossless, OnlyTables, OneWorker, Apart, Live
<1>2. ASSUME NEW r \in Runs, Run(r) PROVE Mine'
  <2> SUFFICES ASSUME Lossless' PROVE Mine'
    BY DEF Mine
  <2>1. /\ Lossless /\ (Apart' <=> Apart) /\ (OneWorker' <=> OneWorker) /\ (OneWorker \/ Apart)
    BY <1>2, LosslessBefore
  <2>2. MineOf(r)'
    BY <1>2, MineOfNext
  <2>3. Touch(r)
    BY <1>2, StepTouches
  <2>4. \A q \in Runs \ {r} : /\ progress'[q] = progress[q] /\ old'[q] = old[q]
                              /\ pc'[q] = pc[q] /\ previous'[q] = previous[q]
    BY <1>2, OthersKept, StepRest
  <2>5. \A q, s \in Runs : progress'[q] # 0 /\ progress'[q] = progress'[s] => q = s
    <3>1. \A q, s \in Runs : progress[q] # 0 /\ progress[q] = progress[s] => q = s
      BY <2>1 DEF Mine
    <3> QED
      BY <2>2, <2>4, <3>1 DEF MineOf
  <2>6. ASSUME NEW q \in Runs, progress'[q] # 0
        PROVE  /\ Live(q)' /\ (Apart' \/ pc'[q] \notin {"new", "failed"}) =>
                      comments'[progress'[q]].kind = "progress"
               /\ pc'[q] = "new" => comments'[progress'[q]].kind # "removed"
    <3>1. CASE q = r
      BY <2>2, <2>6, <3>1 DEF MineOf
    <3>2. CASE q # r
      BY <2>1, <2>3, <2>4, <2>6, <3>2, TouchKeeps DEF Live
    <3> QED
      BY <3>1, <3>2
  <2>7. \A q \in Runs : pc'[q] \in {"model", "list", "scan", "new"} /\ Apart' => progress'[q] # 0
    BY <2>1, <2>2, <2>4 DEF MineOf, Mine
  <2>8. ASSUME NEW q \in Runs, NEW found \in previous'[q]
        PROVE  /\ found.body.kind = "suggestions"
               /\ \/ comments'[found.place] = found.body
                  \/ ~OneWorker' /\ comments'[found.place].kind = "removed"
    <3>1. found.body.kind = "suggestions"
      BY <2>1, <2>2, <2>4, <2>8 DEF MineOf, Mine
    <3>2. CASE found \in previous[q] /\ (q # r \/ pc[r] # "scan")
      BY <2>1, <2>3, <3>1, <3>2, TouchKeeps
    <3>3. CASE q = r /\ pc[r] = "list" /\ previous'[r] = Listed /\ UNCHANGED comments
      BY <2>8, <3>1, <3>3 DEF Listed
    <3>4. CASE q = r /\ pc[r] = "scan"
      <4>1. previous'[r] = {}
        <5>1. Scan(r)
          BY <1>2, <3>4 DEF Run, Start, Answer, NoSuggestions, List, RemoveOld, New, Failed
        <5> QED
          BY <5>1, ScanDoes DEF ScanWrote
      <4> QED
        BY <2>8, <3>4, <4>1
    <3> QED
      BY <1>2, <2>4, <2>8, <3>2, <3>3, <3>4, StepRest
  <2>9. \A q \in Runs : pc'[q] = "remove" => comments'[old'[q]].kind \in {"suggestions", "removed"}
    <3>1. ASSUME NEW q \in Runs, pc'[q] = "remove"
          PROVE  comments'[old'[q]].kind \in {"suggestions", "removed"}
      <4>1. CASE q = r
        BY <2>2, <3>1, <4>1 DEF MineOf
      <4>2. CASE q # r
        BY <2>1, <2>3, <2>4, <3>1, <4>2, TouchKeeps DEF Found
      <4> QED
        BY <4>1, <4>2
    <3> QED
      BY <3>1
  <2> QED
    BY <2>5, <2>6, <2>7, <2>8, <2>9 DEF Mine
<1> QED
  BY <1>1, <1>2 DEF Next

\* A step writes no table, or it is one of Scan or New that wrote.
LEMMA StepTables ==
    ASSUME TypeOK, Found, Told, Short, Mine, NEW r \in Runs, Run(r), Lossless'
    PROVE  \/ /\ \A k \in Persistent' : k \in Persistent /\ comments'[k] = comments[k]
              /\ UNCHANGED published
           \/ Scan(r) /\ \E found \in previous[r] : \E p : ScanWrote(r, found, p)
           \/ New(r) /\ NewWrote(r)
<1>1. UNCHANGED comments =>
         \A k \in Persistent' : k \in Persistent /\ comments'[k] = comments[k]
  BY DEF Persistent
<1>2. CASE Scan(r)
  BY <1>1, <1>2, ScanDoes
<1>3. CASE New(r)
  BY <1>1, <1>3, NewDoes
<1>4. CASE ~Scan(r) /\ ~New(r)
  <2>1. PICK p, b : Writes(r, p, b)
    BY StepWrites
  <2>2. pc[r] \notin {"none", "scan", "new"}
    BY <1>4, LosslessBefore DEF Run, Start, Answer, List, RemoveOld, Failed
  <2>3. b.kind # "suggestions"
    BY <2>1, <2>2 DEF Writes, Fresh
  <2>4. UNCHANGED published
    BY <2>2, StepRest DEF Posts
  <2> QED
    BY <2>1, <2>3, <2>4, WrittenIs
<1> QED
  BY <1>2, <1>3, <1>4

\* A table that was not published yet, on top of ones that were.
LEMMA KnownOnTop ==
    ASSUME maxHistory \in Nat, NEW s \in Seq(Runs),
           \A i, j \in 1..Len(s) : i # j => s[i] # s[j],
           NEW r \in Runs, r \notin Range(s), None \notin Range(s), Table(r) = r,
           NEW f \in Comments, Sorted(s, f), \A x : Has(f, x) => x \in Range(s)
    PROVE  LET b == Suggestions(r, TRUE, HistoryOf(f)) IN
           /\ Sorted(Append(s, r), b) /\ \A x : Has(b, x) => x = r \/ x \in Range(s)
<1> DEFINE h == HistoryOf(f)
           b == Suggestions(r, TRUE, h)
<1>1. /\ h \in Seq(Entries)
      /\ Len(h) \in 1..Len(f.history) + 1 /\ Len(f.history) \in Nat
      /\ h[1] = f.latest /\ \A j \in 2..Len(h) : h[j] = f.history[j - 1]
  BY HistoryOfFacts
<1>2. b \in Comments /\ b.history = h /\ b.latest.run = r
  <2>1. \A t \in BOOLEAN : [run |-> r, sought |-> t] \in Entries
    BY DEF Entries
  <2>2. (TRUE /\ outcome[r] # "ticked") \in BOOLEAN
    OBVIOUS
  <2>3. [run |-> r, sought |-> TRUE /\ outcome[r] # "ticked"] \in Entries
    BY <2>1, <2>2
  <2> QED
    BY <1>1, <2>3 DEF Suggestions, Comments
<1>3. Sorted(s, b) /\ \A q : Without(f, q) => NotBelow(b, q)
  BY SortedOnTop
<1>4. Without(f, r)
  BY DEF Without, NotBelow, Has
<1> HIDE DEF b, h
<1>5. Sorted(Append(s, r), b)
  BY <1>2, <1>3, <1>4, SortedAppend
<1>6. ASSUME NEW j \in 1..Len(h) PROVE h[j].run \in Range(s)
  <2>1. CASE j = 1
    BY <1>1, <2>1 DEF Has
  <2>2. CASE j # 1
    <3>1. j \in 2..Len(h) /\ j - 1 \in 1..Len(f.history)
      BY <1>1, <2>2
    <3> QED
      BY <1>1, <3>1 DEF Has
  <2> QED
    BY <2>1, <2>2
<1>7. \A x : Has(b, x) => x = r \/ x \in Range(s)
  BY <1>2, <1>6 DEF Has
<1> QED
  BY <1>5, <1>7 DEF b, h

\* What was published before a run publishes.
LEMMA PublishedIs ==
    ASSUME TypeOK, Once, NEW r \in Runs
    PROVE  /\ published \in Seq(Runs) /\ Len(published) \in Nat /\ None \notin Range(published)
           /\ \A i, j \in 1..Len(published) : i # j => published[i] # published[j]
           /\ pc[r] \notin {"remove", "done"} => r \notin Range(published)
           /\ \A x : x \in Range(Append(published, r)) <=> x \in Range(published) \/ x = r
<1>1. published \in Seq(Runs) /\ Len(published) \in Nat
  BY DEF TypeOK
<1>2. \A i, j \in 1..Len(published) : i # j => published[i] # published[j]
  BY DEF Once
<1>3. pc[r] \notin {"remove", "done"} => r \notin Range(published)
  <2>1. \A i \in 1..Len(published) : published[i] = r => pc[r] \in {"remove", "done"}
    BY DEF Once
  <2> QED
    BY <1>1, <2>1, RangeIs
<1>4. None \notin Range(published)
  <2>1. \A i \in 1..Len(published) : published[i] # None
    BY <1>1, ImproveCommentsAssumption
  <2> QED
    BY <1>1, <2>1, RangeIs
<1>5. \A x : x \in Range(Append(published, r)) <=> x \in Range(published) \/ x = r
  <2> DEFINE t == Append(published, r)
  <2>1. /\ t \in Seq(Runs) /\ Len(t) = Len(published) + 1 /\ t[Len(published) + 1] = r
        /\ \A k \in 1..Len(published) : t[k] = published[k]
    BY <1>1
  <2> HIDE DEF t
  <2>2. \A k : k \in 1..Len(t) <=> k \in 1..Len(published) \/ k = Len(published) + 1
    BY <1>1, <2>1
  <2>3. \A x : x \in Range(t) <=> x \in Range(published) \/ x = r
    BY <1>1, <2>1, <2>2, RangeIs
  <2> QED
    BY <2>3 DEF t
<1> QED
  BY <1>1, <1>2, <1>3, <1>4, <1>5

LEMMA GatheredNext ==
    TypeOK /\ Found /\ Told /\ Short /\ Once /\ Mine /\ Gathered /\ [Next]_vars => Gathered'
<1> SUFFICES ASSUME TypeOK, Found, Told, Short, Once, Mine, Gathered, [Next]_vars PROVE Gathered'
  OBVIOUS
<1>1. CASE UNCHANGED vars
  BY <1>1 DEF vars, conf, Gathered, Lossless, OnlyTables, OneWorker, Apart, Persistent, Known
<1>2. ASSUME NEW r \in Runs, Run(r) PROVE Gathered'
  <2> SUFFICES ASSUME Lossless', Apart'
               PROVE  /\ \A k \in Persistent' :
                           Known(comments[k])' /\ Sorted(published, comments[k])'
                      /\ \A q \in Runs : \A found \in previous'[q] :
                           Known(found.body)' /\ Sorted(published, found.body)'
    BY DEF Gathered
  <2>1. /\ Lossless /\ Apart /\ maxHistory \in Nat
        /\ pc[r] \in {"scan", "new"} => Table(r) = r
    BY <1>2, LosslessBefore
  <2>2. /\ \A k \in Persistent : Known(comments[k]) /\ Sorted(published, comments[k])
        /\ \A q \in Runs : \A found \in previous[q] :
              Known(found.body) /\ Sorted(published, found.body)
    BY <2>1 DEF Gathered
  <2>3. /\ published \in Seq(Runs) /\ None \notin Range(published)
        /\ \A i, j \in 1..Len(published) : i # j => published[i] # published[j]
        /\ pc[r] \notin {"remove", "done"} => r \notin Range(published)
        /\ \A x : x \in Range(Append(published, r)) <=> x \in Range(published) \/ x = r
    BY <1>2, PublishedIs
  <2>4. UNCHANGED published \/ Posts(r)
    BY <1>2, StepRest
  <2>5. ASSUME NEW c \in Comments, Known(c), Sorted(published, c)
        PROVE  (\A x : Has(c, x) => x \in Range(published')) /\ Sorted(published', c)
    <3>1. CASE UNCHANGED published
      BY <2>5, <3>1 DEF Known
    <3>2. CASE Posts(r)
      <4>1. r \notin Range(published) /\ published' = Append(published, r)
        BY <2>3, <3>2 DEF Posts
      <4>2. NotBelow(c, r)
        BY <2>5, <4>1 DEF NotBelow, Known, Has
      <4> QED
        BY <2>3, <2>5, <4>1, <4>2, SortedAppend DEF Known
    <3> QED
      BY <2>4, <3>1, <3>2
  <2>6. ASSUME NEW k \in Persistent'
        PROVE  /\ \A x : Has(comments'[k], x) => x \in Range(published')
               /\ Sorted(published', comments'[k])
    <3>1. CASE k \in Persistent /\ comments'[k] = comments[k]
      <4>1. comments[k] \in Comments
        BY <3>1 DEF Persistent, TypeOK
      <4> QED
        BY <2>2, <2>5, <3>1, <4>1
    <3>2. ASSUME NEW found \in previous[r], NEW q, Scan(r), ScanWrote(r, found, q),
                 ~(k \in Persistent /\ comments'[k] = comments[k])
          PROVE  /\ \A x : Has(comments'[k], x) => x \in Range(published')
                 /\ Sorted(published', comments'[k])
      <4>1. comments'[k] = Moved(r, found)
        <5>1. Changed(q, Moved(r, found)) /\ Moved(r, found) \in Comments
          BY <3>2, MovedType DEF ScanWrote
        <5>2. k # q => k \in Persistent /\ comments'[k] = comments[k]
          BY <5>1, ChangeFacts DEF Changed, Persistent, TypeOK
        <5> QED
          BY <3>2, <5>1, <5>2, ChangeFacts DEF Changed, TypeOK
      <4>2. published' = Append(published, r) /\ pc[r] = "scan"
        BY <2>1, <3>2 DEF ScanWrote, Scan
      <4>3. found.body \in Comments /\ Known(found.body) /\ Sorted(published, found.body)
        BY <2>2, FoundType
      <4>4. /\ Sorted(Append(published, r), Moved(r, found))
            /\ \A x : Has(Moved(r, found), x) => x = r \/ x \in Range(published)
        BY <1>2, <2>1, <2>3, <4>2, <4>3, KnownOnTop DEF Known, Moved
      <4> QED
        BY <2>3, <4>1, <4>2, <4>4
    <3>3. ASSUME New(r), NewWrote(r), ~(k \in Persistent /\ comments'[k] = comments[k])
          PROVE  /\ \A x : Has(comments'[k], x) => x \in Range(published')
                 /\ Sorted(published', comments'[k])
      <4> DEFINE c == Suggestions(r, TRUE, <<>>)
      <4>1. c \in Comments
        BY <1>2, BodyTypes, BodiesHas
      <4> HIDE DEF c
      <4>2. comments'[k] = c
        <5>1. CASE Changed(progress[r], c)
          <6>1. k # progress[r] => k \in Persistent /\ comments'[k] = comments[k]
            BY <4>1, <5>1, ChangeFacts DEF Changed, Persistent, TypeOK
          <6>2. k = progress[r]
            BY <3>3, <6>1
          <6> QED
            BY <4>1, <5>1, <6>2, ChangeFacts DEF Changed, TypeOK
        <5>2. CASE Added(c)
          <6>1. k \in 1..Len(comments) => k \in Persistent /\ comments'[k] = comments[k]
            BY <4>1, <5>2, AddFacts DEF Added, Persistent, TypeOK
          <6>2. k \in 1..Len(comments) \/ k = Len(comments) + 1
            BY <4>1, <5>2, AddFacts DEF Added, Persistent, TypeOK
          <6> QED
            BY <3>3, <4>1, <5>2, <6>1, <6>2, AddFacts DEF Added, TypeOK
        <5> QED
          BY <3>3, <5>1, <5>2 DEF NewWrote, c
      <4>3. published' = Append(published, r) /\ pc[r] = "new"
        BY <2>1, <3>3 DEF NewWrote, New
      <4>4. c.latest.run = r /\ c.history = <<>>
        BY <2>1, <4>3 DEF Suggestions, c
      <4>5. \A j \in 1..Len(c.history) : FALSE
        <5>1. Len(<<>>) = 0
          OBVIOUS
        <5> QED
          BY <4>4, <5>1
      <4> QED
        BY <2>3, <4>2, <4>3, <4>4, <4>5 DEF Has, Sorted
    <3> QED
      BY <1>2, <3>1, <3>2, <3>3, StepTables
  <2>7. ASSUME NEW q \in Runs, NEW found \in previous'[q]
        PROVE  /\ \A x : Has(found.body, x) => x \in Range(published')
               /\ Sorted(published', found.body)
    <3>1. CASE found \in previous[q]
      BY <2>2, <2>5, <3>1, FoundType
    <3>2. CASE q = r /\ previous'[r] = Listed /\ UNCHANGED published
      <4>1. PICK k \in Persistent : found.body = comments[k]
        BY <2>7, <3>2 DEF Listed, Persistent
      <4> QED
        BY <2>2, <3>2, <4>1 DEF Known
    <3> QED
      BY <1>2, <2>7, <3>1, <3>2, StepRest
  <2> QED
    BY <2>6, <2>7 DEF Known, Has
<1> QED
  BY <1>1, <1>2 DEF Next

\* What a body covers, it covers when another run has published.
LEMMA CoversGrows ==
    ASSUME NEW s \in Seq(Runs), \A i, j \in 1..Len(s) : i # j => s[i] # s[j],
           NEW r \in Runs, r \notin Range(s), NEW b, NEW x \in Range(s), Covers(s, b, x)
    PROVE  Covers(Append(s, r), b, x)
<1> DEFINE t == Append(s, r)
<1>1. /\ At(t, r) = Len(s) + 1 /\ Len(s) \in Nat
      /\ \A y \in Range(s) : At(t, y) = At(s, y) /\ At(s, y) \in 1..Len(s)
      /\ \A y \in Range(t) : y \in Range(s) \/ y = r
  BY AppendAt
<1> HIDE DEF t
<1>2. Covers(t, b, x)
  <2>1. CASE Has(b, x)
    BY <2>1 DEF Covers
  <2>2. CASE /\ Filled(b)
             /\ \A y \in Range(s) : Has(b, y) => At(s, x) < At(s, y)
    <3>1. \A y \in Range(t) : Has(b, y) => At(t, x) < At(t, y)
      BY <1>1, <2>2
    <3> QED
      BY <2>2, <3>1 DEF Covers
  <2> QED
    BY <2>1, <2>2 DEF Covers
<1> QED
  BY <1>2 DEF t

\* What a body covers is covered by the body that has it in its history.
LEMMA CoversOnTop ==
    ASSUME maxHistory \in Nat, maxHistory > 0, NEW s, NEW r \in Runs, Table(r) = r,
           r \notin Range(s), NEW f \in Comments, Full(f), Sorted(s, f),
           NEW x \in Range(s), Covers(s, f, x)
    PROVE  Covers(s, Suggestions(r, TRUE, HistoryOf(f)), x)
<1> DEFINE m == Len(f.history)
           h == HistoryOf(f)
           b == Suggestions(r, TRUE, h)
<1>1. /\ m \in Nat /\ Len(h) \in 1..m + 1 /\ h[1] = f.latest
      /\ \A j \in 2..Len(h) : h[j] = f.history[j - 1] /\ j - 1 \in 1..m
  BY HistoryExact
<1>0. /\ m < maxHistory => Len(h) = m + 1
      /\ Unticked => m <= maxHistory
      /\ Unticked /\ m = maxHistory => Len(h) = m
  BY HistoryExact
<1>2. b.history = h /\ b.latest.run = r
  BY DEF Suggestions
<1> SUFFICES Covers(s, b, x)
  OBVIOUS
<1> HIDE DEF b, h
<1>3. \A y \in Range(s) : Has(b, y) =>
         \/ y = f.latest.run
         \/ \E j \in 2..Len(h) : j - 1 \in 1..m /\ f.history[j - 1].run = y
  <2>1. ASSUME NEW y \in Range(s), Has(b, y)
        PROVE  \/ y = f.latest.run
               \/ \E j \in 2..Len(h) : j - 1 \in 1..m /\ f.history[j - 1].run = y
    <3>1. PICK j \in 1..Len(h) : h[j].run = y
      BY <1>2, <2>1 DEF Has
    <3>2. CASE j = 1
      BY <1>1, <3>1, <3>2
    <3>3. CASE j # 1
      <4>1. j \in 2..Len(h)
        BY <1>1, <3>3
      <4> QED
        BY <1>1, <3>1, <4>1
    <3> QED
      BY <3>2, <3>3
  <2> QED
    BY <2>1
<1>4. CASE x = f.latest.run
  <2>1. 1 \in 1..Len(h)
    BY <1>1
  <2>2. 1 \in 1..Len(b.history) /\ b.history[1].run = x
    BY <1>1, <1>2, <1>4, <2>1
  <2>3. Has(b, x)
    BY <2>2 DEF Has
  <2> QED
    BY <2>3 DEF Covers
<1>7. h # <<>>
  BY <1>1
<1>5. ASSUME NEW j \in 1..m, f.history[j].run = x PROVE Covers(s, b, x)
  <2>1. CASE j + 1 <= Len(h)
    <3>1. j + 1 \in 2..Len(h) /\ (j + 1) - 1 = j
      BY <1>1, <2>1
    <3>2. h[j + 1] = f.history[j] /\ j + 1 \in 1..Len(h)
      BY <1>1, <3>1
    <3> QED
      BY <1>2, <1>5, <3>2 DEF Covers, Has
  <2>2. CASE ~(j + 1 <= Len(h))
    <3>1. Unticked => Len(h) = maxHistory
      BY <1>0, <1>1, <2>2
    <3>3. Filled(b)
      BY <1>2, <1>7, <3>1 DEF Filled
    <3>2. ASSUME NEW y \in Range(s), Has(b, y) PROVE At(s, x) < At(s, y)
      <4>1. CASE y = f.latest.run
        BY <1>5, <4>1 DEF Sorted
      <4>2. ASSUME NEW i \in 2..Len(h), i - 1 \in 1..m, f.history[i - 1].run = y
            PROVE  At(s, x) < At(s, y)
        <5>1. i - 1 < j
          BY <1>1, <2>2, <4>2
        <5> QED
          BY <1>5, <3>2, <4>2, <5>1 DEF Sorted
      <4> QED
        BY <1>3, <3>2, <4>1, <4>2
    <3> QED
      BY <3>2, <3>3 DEF Covers
  <2> QED
    BY <2>1, <2>2
<1>6. CASE /\ Filled(f)
           /\ \A y \in Range(s) : Has(f, y) => At(s, x) < At(s, y)
  <2>1. \A y \in Range(s) : Has(b, y) => Has(f, y)
    BY <1>3 DEF Has
  <2>2. Filled(b)
    <3>1. Unticked => Len(h) = maxHistory
      BY <1>0, <1>6 DEF Filled
    <3> QED
      BY <1>2, <1>7, <3>1 DEF Filled
  <2>3. \A y \in Range(s) : Has(b, y) => At(s, x) < At(s, y)
    BY <1>6, <2>1
  <2> QED
    BY <2>2, <2>3 DEF Covers
<1> QED
  <2>1. CASE Has(f, x)
    BY <1>4, <1>5, <2>1 DEF Has
  <2>2. CASE ~Has(f, x)
    BY <1>6, <2>2 DEF Covers
  <2> QED
    BY <2>1, <2>2

\* A comment stays safe when it is neither removed nor taken as replaced.
LEMMA SafeKept ==
    ASSUME TypeOK, NEW r \in Runs, Run(r), NEW k \in 1..Len(comments), Safe(k),
           k \in 1..Len(comments'),
           comments'[k] = comments[k] \/ comments'[k].kind = "suggestions",
           pc'[r] = "remove" => old'[r] # k
    PROVE  Safe(k)'
<1>0. Len(comments) \in Nat
  BY DEF TypeOK
<1>1. \A q \in Runs \ {r} : /\ progress'[q] = progress[q] /\ old'[q] = old[q]
                            /\ pc'[q] = pc[q]
  BY OthersKept, StepRest
<1>2. Live(r)' => Live(r)
  BY StepRest DEF Live
<1>3. progress'[r] \in {progress[r], 0, Len(comments) + 1}
  <2>1. CASE Start(r)
    BY <2>1, StartDoes
  <2>2. CASE ~Start(r)
    BY <2>2 DEF Run, Answer, NoSuggestions, List, Scan, RemoveOld, New, Failed
  <2> QED
    BY <2>1, <2>2
<1>4. k # 0 /\ k # Len(comments) + 1
  BY <1>0
<1>5. \A q \in Runs : Live(q)' => progress'[q] # k
  BY <1>1, <1>2, <1>3, <1>4 DEF Safe, Live
<1>6. k \in Persistent'
  BY DEF Safe, Standing, Persistent
<1>7. k \notin Going'
  BY <1>1 DEF Safe, Standing, Going
<1> QED
  BY <1>5, <1>6, <1>7 DEF Safe, Standing

\* A run that writes nowhere near a comment that is safe keeps it safe.
LEMMA SafeStays ==
    ASSUME TypeOK, Found, Told, Short, Ordered, Mine, NEW r \in Runs, Run(r), Lossless',
           NEW k \in 1..Len(comments), Safe(k),
           \A found \in previous[r] : pc[r] = "scan" => found.place # k,
           pc'[r] = "remove" => old'[r] # k
    PROVE  k \in 1..Len(comments') /\ comments'[k] = comments[k] /\ Safe(k)'
<1>1. comments \in Seq(Comments) /\ Touch(r)
  BY StepTouches DEF TypeOK
<1>2. k \in 1..Len(comments') /\ comments'[k] = comments[k]
  <2>1. CASE \E b \in Comments : Added(b)
    BY <1>1, <2>1, AddFacts DEF Added
  <2>2. ASSUME NEW p, p # k, NEW b \in Comments, Changed(p, b)
        PROVE  k \in 1..Len(comments') /\ comments'[k] = comments[k]
    BY <1>1, <2>2, ChangeFacts DEF Changed
  <2>3. Live(r) => progress[r] # k
    BY DEF Safe
  <2>4. pc[r] = "remove" => old[r] # k
    BY DEF Safe, Standing, Going
  <2>5. Plain("removed") \in Comments
    BY BodyTypes, BodiesHas
  <2> QED
    BY <1>1, <2>1, <2>2, <2>3, <2>4, <2>5 DEF Touch, Live
<1> QED
  BY <1>2, SafeKept

\* So is the comment in which a run published its table.
LEMMA SafeNew ==
    ASSUME TypeOK, Found, Ordered, Mine, Lossless, OneWorker \/ Apart, NEW r \in Runs, Run(r),
           pc[r] \in {"scan", "new"}, pc'[r] \in {"remove", "done"},
           NEW p \in 1..Len(comments'), comments'[p].kind = "suggestions",
           pc'[r] = "remove" => old'[r] # p,
           \/ progress[r] # 0 /\ p = progress[r]
           \/ progress[r] = 0 /\ p = Len(comments) + 1
           \/ progress[r] = 0 /\ OneWorker /\ p \in Persistent
    PROVE  Safe(p)'
<1>0. /\ Len(comments) \in Nat
      /\ \A q \in Runs : progress[q] \in 0..Len(comments) /\ old[q] \in 0..Len(comments)
  BY DEF TypeOK
<1>1. \A q \in Runs \ {r} : /\ progress'[q] = progress[q] /\ old'[q] = old[q]
                            /\ pc'[q] = pc[q]
  BY OthersKept, StepRest
<1>2. OneWorker => \A q \in Runs \ {r} : pc[q] \notin Publishing
  BY DEF Ordered, Publishing
<1>3. \A q \in Runs \ {r} : progress[q] # 0 => progress[q] # progress[r]
  BY DEF Mine
<1>4. ASSUME NEW q \in Runs \ {r}, pc[q] = "remove" PROVE old[q] # p
  <2>1. Apart /\ ~OneWorker /\ comments[old[q]].kind \in {"suggestions", "removed"}
    BY <1>2, <1>4 DEF Mine, Publishing
  <2>2. progress[r] # 0 => comments[progress[r]].kind = "progress"
    BY <2>1 DEF Mine, Live
  <2> QED
    BY <1>0, <2>1, <2>2
<1>5. ASSUME NEW q \in Runs \ {r}, Live(q) PROVE progress[q] # p
  <2>1. CASE progress[r] = 0 /\ OneWorker /\ p \in Persistent
    <3>1. pc[q] \notin {"new", "failed"}
      BY <1>2, <2>1 DEF Publishing
    <3>2. progress[q] # 0 => comments[progress[q]].kind = "progress"
      BY <1>5, <3>1 DEF Mine
    <3>3. comments[p].kind = "suggestions" /\ p # 0
      BY <1>0, <2>1 DEF Persistent
    <3> QED
      BY <3>2, <3>3
  <2>2. CASE ~(progress[r] = 0 /\ OneWorker /\ p \in Persistent)
    BY <1>0, <1>3, <2>2
  <2> QED
    BY <2>1, <2>2
<1>6. ~Live(r)'
  BY DEF Live
<1>7. \A q \in Runs : Live(q)' => progress'[q] # p
  BY <1>1, <1>5, <1>6 DEF Live
<1>8. p \notin Going'
  BY <1>1, <1>4 DEF Going
<1>9. p \in Persistent'
  BY DEF Persistent
<1> QED
  BY <1>7, <1>8, <1>9 DEF Safe, Standing

\* Only Scan goes on to remove.
LEMMA RemoveAfter ==
    ASSUME TypeOK, NEW r \in Runs, Run(r), ~Scan(r)
    PROVE  pc[r] # "scan" /\ pc'[r] # "remove"
<1>0. pc \in [Runs -> Publishing \cup {"idle", "model", "done"}]
  BY DEF TypeOK
<1>1. pc[r] # "scan"
  BY DEF Run, Start, Answer, NoSuggestions, List, RemoveOld, New, Failed
<1>2. CASE Start(r)
  BY <1>1, <1>2, StartDoes
<1>3. CASE Answer(r)
  <2>1. pc'[r] \in {"failed", "none", "list", "new"}
    BY <1>0, <1>3 DEF Answer, Goto
  <2> QED
    BY <1>1, <2>1
<1>4. CASE List(r)
  <2>1. pc'[r] \in {"scan", "new"}
    BY <1>0, <1>4 DEF List, Goto
  <2> QED
    BY <1>1, <2>1
<1>5. CASE NoSuggestions(r) \/ RemoveOld(r) \/ New(r) \/ Failed(r)
  <2>1. pc'[r] \in {"done", "failed"}
    BY <1>0, <1>5 DEF NoSuggestions, RemoveOld, New, Failed, Goto
  <2> QED
    BY <1>1, <2>1
<1> QED
  BY <1>2, <1>3, <1>4, <1>5 DEF Run

LEMMA CoveredNext ==
    TypeOK /\ Found /\ Told /\ Short /\ Once /\ Ordered /\ Mine /\ Gathered /\ Covered
      /\ [Next]_vars => Covered'
<1> SUFFICES ASSUME TypeOK, Found, Told, Short, Once, Ordered, Mine, Gathered, Covered,
                    [Next]_vars
             PROVE  Covered'
  OBVIOUS
<1>1. CASE UNCHANGED vars
  <2>1. \A k : Safe(k)' <=> Safe(k)
    BY <1>1 DEF vars, Safe, Standing, Persistent, Going, Live
  <2>2. Lossless' <=> Lossless
    BY <1>1 DEF vars, conf, Lossless, OnlyTables, OneWorker
  <2>3. \A k, x : Covers(published, comments[k], x)' <=> Covers(published, comments[k], x)
    BY <1>1 DEF vars, conf, Covers, Has, Filled, Unticked
  <2>4. UNCHANGED <<comments, published>>
    BY <1>1 DEF vars
  <2> QED
    BY <2>1, <2>2, <2>3, <2>4 DEF Covered
<1>2. ASSUME NEW r \in Runs, Run(r) PROVE Covered'
  <2> SUFFICES ASSUME Lossless' PROVE Covered'
    BY DEF Covered
  <2>1. /\ Lossless /\ (OneWorker \/ Apart)
        /\ UNCHANGED maxHistory /\ maxHistory \in Nat /\ (Unticked' => Unticked)
        /\ pc[r] \in {"scan", "new"} => Table(r) = r
    BY <1>2, LosslessBefore
  <2>2. /\ comments \in Seq(Comments) /\ Len(comments) \in Nat
        /\ progress[r] \in 0..Len(comments)
    BY DEF TypeOK
  <2>3. /\ published \in Seq(Runs)
        /\ \A i, j \in 1..Len(published) : i # j => published[i] # published[j]
        /\ pc[r] \notin {"remove", "done"} => r \notin Range(published)
        /\ \A x : x \in Range(Append(published, r)) <=> x \in Range(published) \/ x = r
    BY <1>2, PublishedIs
  <2>4. UNCHANGED published \/ Posts(r)
    BY <1>2, StepRest
  <2>5. ASSUME NEW b, NEW x \in Range(published), Covers(published, b, x)
        PROVE  Covers(published', b, x)
    <3>1. CASE UNCHANGED published
      BY <2>5, <3>1
    <3>2. CASE Posts(r)
      <4>1. published' = Append(published, r) /\ r \notin Range(published)
        BY <2>3, <3>2 DEF Posts
      <4> QED
        BY <1>2, <2>3, <2>5, <4>1, CoversGrows
    <3> QED
      BY <2>4, <3>1, <3>2
  <2> SUFFICES ASSUME NEW x \in Range(published')
               PROVE  \E k \in 1..Len(comments') : Safe(k)' /\ Covers(published', comments'[k], x)
    BY <2>1 DEF Covered, Covers, Has, Filled
  <2>6. x \in Range(published) =>
           \E k \in 1..Len(comments) : Safe(k) /\ Covers(published, comments[k], x)
    BY <2>1 DEF Covered
  <2>7. ASSUME x \in Range(published),
               NEW k \in 1..Len(comments), Safe(k), Covers(published, comments[k], x),
               \A found \in previous[r] : pc[r] = "scan" => found.place # k,
               pc'[r] = "remove" => old'[r] # k
        PROVE  \E l \in 1..Len(comments') : Safe(l)' /\ Covers(published', comments'[l], x)
    <3>1. k \in 1..Len(comments') /\ comments'[k] = comments[k] /\ Safe(k)'
      BY <1>2, <2>7, SafeStays
    <3>2. Covers(published', comments[k], x)
      BY <2>5, <2>7
    <3> QED
      BY <3>1, <3>2
  <2>8. CASE ~Scan(r)
    <3>1. pc[r] # "scan" /\ pc'[r] # "remove"
      BY <1>2, <2>8, RemoveAfter
    <3>2. CASE x \in Range(published)
      BY <2>6, <2>7, <3>1, <3>2
    <3>3. CASE x \notin Range(published)
      <4>1. published' = Append(published, r) /\ x = r /\ published' # published
        BY <2>3, <2>4, <3>3 DEF Posts
      <4>2. New(r) /\ NewWrote(r) /\ pc[r] = "new" /\ pc'[r] = "done"
        <5>1. New(r) /\ NewWrote(r)
          BY <1>2, <2>8, <4>1, StepTables
        <5> QED
          BY <4>1, <5>1 DEF New, NewWrote
      <4> DEFINE c == Suggestions(r, TRUE, <<>>)
      <4>3. c \in Comments /\ c.kind = "suggestions" /\ c.latest.run = r
        <5>1. c \in Comments
          BY BodyTypes, BodiesHas
        <5> QED
          BY <2>1, <4>2, <5>1 DEF Suggestions
      <4>4. \/ progress[r] # 0 /\ Changed(progress[r], c)
            \/ progress[r] = 0 /\ Added(c)
        BY <4>2 DEF NewWrote
      <4> HIDE DEF c
      <4>5. PICK p \in 1..Len(comments') :
              /\ comments'[p] = c
              /\ \/ progress[r] # 0 /\ p = progress[r]
                 \/ progress[r] = 0 /\ p = Len(comments) + 1
        <5>1. CASE progress[r] # 0 /\ Changed(progress[r], c)
          BY <2>2, <4>3, <5>1, ChangeFacts DEF Changed
        <5>2. CASE progress[r] = 0 /\ Added(c)
          BY <2>2, <4>3, <5>2, AddFacts DEF Added
        <5> QED
          BY <4>4, <5>1, <5>2
      <4>6. Safe(p)'
        BY <1>2, <2>1, <4>2, <4>3, <4>5, SafeNew
      <4>7. Covers(published', c, x)
        BY <4>1, <4>3 DEF Covers, Has
      <4> QED
        BY <4>5, <4>6, <4>7
    <3> QED
      BY <3>2, <3>3
  <2>9. CASE Scan(r)
    <3>1. pc[r] = "scan" /\ maxHistory > 0
      BY <2>9 DEF Scan, Told
    <3>2. CASE UNCHANGED <<comments, old, published>> /\ pc'[r] = "new"
      <4>1. PICK k \in 1..Len(comments) : Safe(k) /\ Covers(published, comments[k], x)
        BY <2>6, <3>2
      <4>2. Safe(k)'
        BY <1>2, <3>2, <4>1, SafeKept
      <4> QED
        BY <3>2, <4>1, <4>2
    <3>3. ASSUME NEW found \in previous[r], NEW p, ScanWrote(r, found, p)
          PROVE  \E k \in 1..Len(comments') : Safe(k)' /\ Covers(published', comments'[k], x)
      <4> DEFINE b == Moved(r, found)
      <4>1. b \in Comments /\ b.kind = "suggestions" /\ b.latest.run = r
        BY <2>1, <3>1, MovedType DEF Moved, Suggestions
      <4>2. b = Suggestions(r, TRUE, HistoryOf(found.body))
        BY DEF Moved
      <4>3. Changed(p, b)
        BY <3>3 DEF ScanWrote
      <4> HIDE DEF b
      <4>4. /\ p \in 1..Len(comments) /\ p \in 1..Len(comments') /\ comments'[p] = b
            /\ Len(comments') = Len(comments)
            /\ \A k \in 1..Len(comments) : k # p => comments'[k] = comments[k]
        BY <2>2, <4>1, <4>3, ChangeFacts DEF Changed
      <4>5. /\ found.place \in 1..Len(comments) /\ found.body \in Comments
            /\ found.body.kind = "suggestions" /\ Full(found.body)
            /\ \/ comments[found.place] = found.body
               \/ comments[found.place].kind = "removed"
        BY <2>1, FoundType DEF Mine, Short, Lossless
      <4>6. Sorted(published, found.body)
        BY <2>1 DEF Ordered, Gathered
      <4>7. r \notin Range(published)
        BY <2>3, <3>1
      <4>8. /\ p = IF progress[r] # 0 THEN progress[r] ELSE found.place
            /\ progress[r] # 0 => p # found.place
            /\ progress[r] = 0 => OneWorker /\ comments[p] = found.body
            /\ \/ pc'[r] = "new" /\ UNCHANGED <<old, published>>
               \/ /\ pc'[r] = IF progress[r] # 0 THEN "remove" ELSE "done"
                  /\ old'[r] = found.place /\ published' = Append(published, r)
        BY <3>3 DEF ScanWrote
      <4>9. ASSUME pc'[r] = (IF progress[r] # 0 THEN "remove" ELSE "done"),
                   old'[r] = found.place
            PROVE  Safe(p)'
        <5>1. progress[r] = 0 => p \in Persistent /\ OneWorker
          BY <4>4, <4>5, <4>8 DEF Persistent
        <5>2. pc'[r] \in {"remove", "done"} /\ (pc'[r] = "remove" => old'[r] # p)
          BY <4>8, <4>9
        <5> QED
          BY <1>2, <2>1, <3>1, <4>1, <4>4, <4>8, <5>1, <5>2, SafeNew
      <4>10. CASE x \notin Range(published)
        <5>1. published' = Append(published, r) /\ x = r
          BY <2>3, <2>4, <4>10 DEF Posts
        <5>2. published' # published
          BY <4>10
        <5>3. Safe(p)'
          BY <4>8, <4>9, <5>2
        <5>4. Covers(published', b, x)
          BY <4>1, <5>1 DEF Covers, Has
        <5> QED
          BY <4>4, <5>3, <5>4
      <4>11. CASE x \in Range(published)
        <5>1. PICK k \in 1..Len(comments) : Safe(k) /\ Covers(published, comments[k], x)
          BY <2>6, <4>11
        <5>2. k # found.place => k # p
          <6>1. progress[r] # 0 => progress[r] # k
            BY <3>1, <5>1 DEF Safe, Live
          <6> QED
            BY <4>8, <6>1
        <5>3. CASE k # found.place
          <6>1. comments'[k] = comments[k] /\ k \in 1..Len(comments')
            BY <4>4, <5>2, <5>3
          <6>2. pc'[r] = "remove" => old'[r] # k
            BY <4>8, <5>3
          <6>3. Safe(k)'
            BY <1>2, <5>1, <6>1, <6>2, SafeKept
          <6>4. Covers(published', comments[k], x)
            BY <2>5, <4>11, <5>1
          <6> QED
            BY <6>1, <6>3, <6>4
        <5>4. CASE k = found.place
          <6>1. comments[k] = found.body
            BY <4>5, <5>1, <5>4 DEF Safe, Standing, Persistent
          <6>2. Covers(published, b, x)
            BY <1>2, <2>1, <3>1, <4>2, <4>5, <4>6, <4>7, <4>11, <5>1, <6>1, CoversOnTop
          <6>3. Covers(published', b, x)
            BY <2>5, <4>11, <6>2
          <6>4. CASE pc'[r] = "new" /\ UNCHANGED <<old, published>>
            <7>1. k \in 1..Len(comments') /\ pc'[r] # "remove"
              BY <4>4, <6>4
            <7>2. comments'[k] = comments[k] \/ comments'[k] = b
              BY <4>4
            <7>3. Safe(k)'
              BY <1>2, <4>1, <5>1, <7>1, <7>2, SafeKept
            <7>4. Covers(published', comments[k], x)
              BY <2>5, <4>11, <5>1
            <7> QED
              BY <6>3, <7>1, <7>2, <7>3, <7>4
          <6>5. CASE /\ pc'[r] = IF progress[r] # 0 THEN "remove" ELSE "done"
                     /\ old'[r] = found.place
            BY <4>4, <4>9, <6>3, <6>5
          <6> QED
            BY <4>8, <6>4, <6>5
        <5> QED
          BY <5>3, <5>4
      <4> QED
        BY <4>10, <4>11
    <3> QED
      BY <2>9, <3>2, <3>3, ScanDoes
  <2> QED
    BY <2>8, <2>9
<1> QED
  BY <1>1, <1>2 DEF Next

LEMMA NothingVanishes == TypeOK /\ Short /\ Covered => NoTableVanishes
<1> SUFFICES ASSUME TypeOK, Short, Covered, Lossless, NEW r \in Range(published)
             PROVE  \/ \E k \in Persistent : r \in Range(Shown(k))
                    \/ \E k \in Persistent :
                         /\ comments[k].history # <<>>
                         /\ Unticked => Len(comments[k].history) = maxHistory
                         /\ \A q \in Range(Shown(k)) \cap Range(published) : Place(r) < Place(q)
  BY DEF NoTableVanishes
<1>1. PICK k \in 1..Len(comments) : Safe(k) /\ Covers(published, comments[k], r)
  BY DEF Covered
<1>2. k \in Persistent
  BY <1>1 DEF Safe, Standing
<1>3. \A x : x \in Range(Shown(k)) <=> Has(comments[k], x)
  <2> DEFINE b == comments[k]
             all == Shown(k)
  <2>1. /\ Len(all) = Len(b.history) + 1 /\ Len(b.history) \in Nat
        /\ all[1] = b.latest.run
        /\ \A j \in 2..Len(all) : all[j] = b.history[j - 1].run
    BY <1>2, ShownIs
  <2>2. \A x : x \in Range(all) <=> \E j \in 1..Len(all) : x = all[j]
    <3>1. DOMAIN all = 1..Len(all)
      BY <2>1 DEF Shown
    <3> QED
      BY <3>1 DEF Range
  <2> HIDE DEF all, b
  <2>3. ASSUME NEW j \in 1..Len(all) PROVE Has(b, all[j])
    <3>1. CASE j = 1
      BY <2>1, <3>1 DEF Has
    <3>2. CASE j # 1
      <4>1. j \in 2..Len(all) /\ j - 1 \in 1..Len(b.history)
        BY <2>1, <3>2
      <4> QED
        BY <2>1, <4>1 DEF Has
    <3> QED
      BY <3>1, <3>2
  <2>4. ASSUME NEW x, Has(b, x) PROVE \E j \in 1..Len(all) : x = all[j]
    <3>1. CASE x = b.latest.run
      <4>1. 1 \in 1..Len(all)
        BY <2>1
      <4> QED
        BY <2>1, <3>1, <4>1
    <3>2. ASSUME NEW j \in 1..Len(b.history), b.history[j].run = x
          PROVE  \E i \in 1..Len(all) : x = all[i]
      <4>1. j + 1 \in 2..Len(all) /\ (j + 1) - 1 = j /\ j + 1 \in 1..Len(all)
        BY <2>1
      <4> QED
        BY <2>1, <3>2, <4>1
    <3> QED
      BY <2>4, <3>1, <3>2 DEF Has
  <2>5. \A x : x \in Range(all) <=> Has(b, x)
    BY <2>2, <2>3, <2>4
  <2> QED
    BY <2>5 DEF all, b
<1>4. \A x : Place(x) = At(published, x)
  BY DEF Place, At
<1>5. CASE Has(comments[k], r)
  BY <1>2, <1>3, <1>5
<1>6. CASE /\ Filled(comments[k])
           /\ \A y \in Range(published) : Has(comments[k], y) => At(published, r) < At(published, y)
  BY <1>2, <1>3, <1>4, <1>6 DEF Filled
<1> QED
  BY <1>1, <1>5, <1>6 DEF Covers

\* A table that was published is shown, or was pushed out by newer ones (by fewer than
\* a history holds only when a table had a tick), when no write is refused (publish_persistent_comment_with_history): in one process
\* whatever else a call meets, in several when every run has a progress comment and
\* gets the answers to its calls.
THEOREM VanishCorrectness == Spec => []NoTableVanishes
<1>1. Init => Told /\ Short /\ Once /\ Ordered /\ Mine /\ Gathered /\ Covered
  <2> SUFFICES ASSUME Init
               PROVE  Told /\ Short /\ Once /\ Ordered /\ Mine /\ Gathered /\ Covered
    OBVIOUS
  <2>1. /\ Persistent = {} /\ \A i \in 1..Len(published) : FALSE
        /\ published \in Seq(Runs)
    BY DEF Init, Persistent
  <2>2. Range(published) = {}
    BY <2>1, RangeIs
  <2>3. \A r \in Runs : previous[r] = {} /\ pc[r] = "idle" /\ outcome[r] = None /\ progress[r] = 0
    BY DEF Init
  <2>4. Told /\ Short /\ Once /\ Ordered
    BY <2>1, <2>3 DEF Told, Short, Once, Ordered, Publishing
  <2>5. Mine /\ Gathered /\ Covered
    BY <2>1, <2>2, <2>3 DEF Mine, Gathered, Covered
  <2> QED
    BY <2>4, <2>5
<1>2. Spec => [](TypeOK /\ Found /\ Told /\ Short /\ Once /\ Ordered /\ Mine /\ Gathered /\ Covered)
  BY <1>1, TypeInit, TypeNext, ToldNext, ShortNext, OnceNext, OrderedNext, MineNext,
     GatheredNext, CoveredNext, PTL DEF Spec
<1> QED
  BY <1>2, NothingVanishes, PTL
=============================================================================
