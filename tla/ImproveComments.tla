-------------------------- MODULE ImproveComments --------------------------
(***************************************************************************)
(* The comments /improve keeps on a pull request                           *)
(* (garda/tools/pr_code_suggestions.py on the GitHub provider).  Several   *)
(* runs share the list of comments.  Between two awaits a run has the      *)
(* event loop of its worker process to itself; runs of other workers and   *)
(* the GitHub API may come in between any two API calls, and one API call  *)
(* is one step here.                                                       *)
(***************************************************************************)
EXTENDS Integers, Sequences, FiniteSets, SequencesExt

CONSTANTS Runs,       \* the /improve commands of one pull request
          Workers,    \* the worker processes
          Outcomes,   \* subset of AllOutcomes the model may give
          FaultSets,  \* what the API calls of one behaviour may meet
          HistoryLens, \* values of max_history_len
          None

\* What retry_with_fallback_models and generate_summarized_suggestions make of
\* a run: a table; one with a tick in its text; suggestions that could not be
\* rendered; none; an exception.
AllOutcomes == {"table", "ticked", "plain", "none", "error"}

\* What may become of a write: refused with a GithubException; an exception of
\* the connection before the server has the request, or after it.
AllFaults == {"refused", "unsent", "unanswered"}

ASSUME ImproveCommentsAssumption ==
    /\ Outcomes \subseteq AllOutcomes /\ FaultSets \subseteq SUBSET AllFaults
    /\ HistoryLens \subseteq Nat /\ None \notin Runs \cup AllOutcomes

VARIABLES worker,     \* worker[r]: the process that runs r
          progressOn, \* progressOn[r]: r is not an automatic command
          reportNone, \* publish_output_no_suggestions
          maxHistory, \* max_history_len
          faults,     \* the faults of this behaviour
          comments,   \* the comments of the pull request, oldest first
          pc, outcome,
          progress,   \* progress_response: a place in comments, or 0
          previous,   \* prev_comments that are left, as they were when listed
          old,        \* the comment that r is replacing
          published   \* runs that took their table for published, in order

vars == <<worker, progressOn, reportNone, maxHistory, faults, comments, pc, outcome,
          progress, previous, old, published>>

conf == <<worker, progressOn, reportNone, maxHistory, faults>>

\* A comment.  Only "suggestions" begins with the header "## PR Code Suggestions".
\* latest is the run whose table it shows, if it shows one; history is the section
\* below, latest first.  sought: in a history the entry has the heading that is
\* searched for when the oldest goes, "Suggestions up to commit", without a tick.
Entries == [run : Runs \cup {None}, sought : BOOLEAN]
Comments == [kind : {"progress", "text", "removed", "suggestions"},
             latest : Entries, history : Seq(Entries)]

NoEntry == [run |-> None, sought |-> FALSE]
Plain(k) == [kind |-> k, latest |-> NoEntry, history |-> <<>>]

\* The publishing part of run, which never awaits.
Publishing == {"none", "list", "scan", "remove", "new", "failed"}

TypeOK ==
    /\ worker \in [Runs -> Workers] /\ progressOn \in [Runs -> BOOLEAN]
    /\ reportNone \in BOOLEAN /\ maxHistory \in HistoryLens /\ faults \in FaultSets
    /\ comments \in Seq(Comments)
    /\ pc \in [Runs -> Publishing \cup {"idle", "model", "done"}]
    /\ outcome \in [Runs -> AllOutcomes \cup {None}]
    /\ progress \in [Runs -> 0..Len(comments)]
    /\ previous \in [Runs -> SUBSET [place : 1..Len(comments), body : Comments]]
    /\ old \in [Runs -> 0..Len(comments)]
    /\ published \in Seq(Runs)

Init ==
    /\ worker \in [Runs -> Workers] /\ progressOn \in [Runs -> BOOLEAN]
    /\ reportNone \in BOOLEAN /\ maxHistory \in HistoryLens /\ faults \in FaultSets
    /\ comments = <<>>
    /\ pc = [r \in Runs |-> "idle"]
    /\ outcome = [r \in Runs |-> None]
    /\ progress = [r \in Runs |-> 0]
    /\ previous = [r \in Runs |-> {}]
    /\ old = [r \in Runs |-> 0]
    /\ published = <<>>

-----------------------------------------------------------------------------
(* The API, garda/git_providers/github_provider.py *)

Results == {"ok"} \cup faults
Written(res) == res \in {"ok", "unanswered"}

\* publish_comment raises whatever goes wrong.
PublishRaises(res) == res # "ok"

\* edit_comment swallows a GithubException, the one for a removed comment too.
EditRaises(res) == res \in {"unsent", "unanswered"}

Publish(body, res) == IF Written(res) THEN Append(comments, body) ELSE comments

Edit(place, body, res) ==
    IF Written(res) /\ comments[place].kind # "removed"
    THEN [comments EXCEPT ![place] = body]
    ELSE comments

\* remove_comment, which swallows everything
Delete(place, res) ==
    IF Written(res) THEN [comments EXCEPT ![place] = Plain("removed")] ELSE comments

-----------------------------------------------------------------------------
(* The bodies of publish_persistent_comment_with_history *)

\* The table in the body of run r, if generate_summarized_suggestions made one.
Table(r) == IF outcome[r] \in {"table", "ticked"} THEN r ELSE None

\* tagged: the body names the commit.
Suggestions(r, tagged, history) ==
    [kind |-> "suggestions",
     latest |-> [run |-> Table(r), sought |-> tagged /\ outcome[r] # "ticked"],
     history |-> history]

\* What run r has to publish, as it is: without the header when nothing could be
\* rendered.
Rendered(r) == IF Table(r) = None THEN Plain("text") ELSE Suggestions(r, FALSE, <<>>)

HasTable(body) == body.latest.run # None \/ body.history # <<>>

\* Faulty variant: one entry too many before the oldest goes.
ShortenedLate(history) ==
    IF Len(history) <= maxHistory THEN history ELSE Front(history)

\* The history when it is full, and entries with a tick count: cut at the last
\* entry that is found.  The others below it, with a tick or without a commit, go
\* with it; and without one that is found the cut takes a character only.
Shortened(history) ==
    LET named == {k \in 1..Len(history) : history[k].sought}
        last == CHOOSE k \in named : \A j \in named : j <= k
    IN IF Len(history) < maxHistory \/ named = {} THEN history
       ELSE SubSeq(history, 1, last - 1)

\* Faulty variants: the section above the history is left in it; the latest table
\* is not kept.
HistoryOfTwice(body) == <<body.latest>> \o Shortened(<<body.latest>> \o body.history)
HistoryOfStale(body) == body.history

\* The latest table of the comment found moves on top of its history.
HistoryOf(body) == <<body.latest>> \o Shortened(body.history)

-----------------------------------------------------------------------------
(* PRCodeSuggestions.run *)

\* No other run of r's process is between two awaits.
HasLoop(r) == \A q \in Runs \ {r} : worker[q] = worker[r] => pc[q] \notin Publishing

\* Faulty variant: the response is recorded before the call came back.
ResponseEarly(res) == Len(comments) + 1

\* self.progress_response after publishing the progress comment
Response(res) == IF PublishRaises(res) THEN 0 ELSE Len(comments) + 1

Goto(r, place) == pc' = [pc EXCEPT ![r] = place]

\* The progress comment, which only a command of a user publishes.
Start(r) ==
    /\ pc[r] = "idle" /\ HasLoop(r)
    /\ IF progressOn[r]
       THEN \E res \in Results :
              /\ comments' = Publish(Plain("progress"), res)
              /\ progress' = [progress EXCEPT ![r] = Response(res)]
              /\ Goto(r, IF PublishRaises(res) THEN "failed" ELSE "model")
       ELSE Goto(r, "model") /\ UNCHANGED <<comments, progress>>
    /\ UNCHANGED <<conf, outcome, previous, old, published>>

\* retry_with_fallback_models returns or raises.
Answer(r) ==
    /\ pc[r] = "model" /\ HasLoop(r)
    /\ \E o \in Outcomes :
         /\ outcome' = [outcome EXCEPT ![r] = o]
         /\ Goto(r, CASE o = "error" -> "failed"
                      [] o = "none" -> "none"
                      [] OTHER -> IF maxHistory > 0 THEN "list" ELSE "new")
    /\ UNCHANGED <<conf, comments, progress, previous, old, published>>

\* publish_no_suggestions
NoSuggestions(r) ==
    /\ pc[r] = "none"
    /\ LET body == Plain("suggestions") IN
       IF ~reportNone
       THEN Goto(r, "done") /\ UNCHANGED comments
       ELSE \E res \in Results :
              IF progress[r] # 0
              THEN /\ comments' = Edit(progress[r], body, res)
                   /\ Goto(r, IF EditRaises(res) THEN "failed" ELSE "done")
              ELSE /\ comments' = Publish(body, res)
                   /\ Goto(r, IF PublishRaises(res) THEN "failed" ELSE "done")
    /\ UNCHANGED <<conf, outcome, progress, previous, old, published>>

\* Comments that begin with the header, as the API lists them now.
Listed == {[place |-> k, body |-> comments[k]] :
              k \in {j \in 1..Len(comments) : comments[j].kind = "suggestions"}}

\* get_issue_comments; on an exception the table goes to a new comment.
List(r) ==
    /\ pc[r] = "list"
    /\ \/ /\ previous' = [previous EXCEPT ![r] = Listed]
          /\ Goto(r, "scan")
       \/ /\ faults # {}
          /\ Goto(r, "new")
          /\ UNCHANGED previous
    /\ UNCHANGED <<conf, comments, outcome, progress, old, published>>

\* Faulty variant: the comment that was replaced is not removed.
AfterUpdateKept(r) == "done"

\* Where the run goes once its table is published with the history.
AfterUpdate(r) == IF progress[r] # 0 THEN "remove" ELSE "done"

\* The next comment of the list: one without a table is edited and passed over;
\* any other is replaced by the progress comment, or edited when there is none.
Scan(r) ==
    /\ pc[r] = "scan"
    /\ \/ /\ previous[r] = {}
          /\ Goto(r, "new")
          /\ UNCHANGED <<comments, previous, old, published>>
       \/ \E found \in previous[r], res \in Results :
            /\ \A other \in previous[r] : found.place <= other.place
            /\ IF ~HasTable(found.body)
               THEN /\ comments' = Edit(found.place, Rendered(r), res)
                    /\ previous' = [previous EXCEPT ![r] = IF EditRaises(res) THEN {} ELSE @ \ {found}]
                    /\ Goto(r, IF EditRaises(res) THEN "new" ELSE "scan")
                    /\ UNCHANGED <<old, published>>
               ELSE /\ comments' = Edit(IF progress[r] # 0 THEN progress[r] ELSE found.place,
                                        Suggestions(r, TRUE, HistoryOf(found.body)), res)
                    /\ previous' = [previous EXCEPT ![r] = {}]
                    /\ IF EditRaises(res)
                       THEN Goto(r, "new") /\ UNCHANGED <<old, published>>
                       ELSE /\ Goto(r, AfterUpdate(r))
                            /\ old' = [old EXCEPT ![r] = found.place]
                            /\ published' = Append(published, r)
    /\ UNCHANGED <<conf, outcome, progress>>

\* The comment that was replaced.
RemoveOld(r) ==
    /\ pc[r] = "remove"
    /\ \E res \in Results : comments' = Delete(old[r], res)
    /\ Goto(r, "done")
    /\ UNCHANGED <<conf, outcome, progress, previous, old, published>>

\* "if we are here, we did not find a previous comment to update"
New(r) ==
    /\ pc[r] = "new"
    /\ LET body == Suggestions(r, TRUE, <<>>) IN
       \E res \in Results :
         LET raises == IF progress[r] # 0 THEN EditRaises(res) ELSE PublishRaises(res) IN
         /\ comments' = IF progress[r] # 0 THEN Edit(progress[r], body, res)
                                           ELSE Publish(body, res)
         /\ Goto(r, IF raises THEN "failed" ELSE "done")
         /\ published' = IF raises THEN published ELSE Append(published, r)
    /\ UNCHANGED <<conf, outcome, progress, previous, old>>

\* Faulty variant: the progress comment is left to say that work is in progress.
ClearedKept(r, res) == comments

\* The handler of run: the progress comment goes, or a comment tells the failure.
Cleared(r, res) ==
    IF progress[r] # 0 THEN Delete(progress[r], res) ELSE Publish(Plain("text"), res)

Failed(r) ==
    /\ pc[r] = "failed"
    /\ \E res \in Results : comments' = Cleared(r, res)
    /\ Goto(r, "done")
    /\ UNCHANGED <<conf, outcome, progress, previous, old, published>>

Run(r) ==
    \/ Start(r) \/ Answer(r) \/ NoSuggestions(r) \/ List(r) \/ Scan(r)
    \/ RemoveOld(r) \/ New(r) \/ Failed(r)

Next == \E r \in Runs : Run(r)

Spec == Init /\ [][Next]_vars

-----------------------------------------------------------------------------
(* Properties *)

Persistent == {k \in 1..Len(comments) : comments[k].kind = "suggestions"}

OneWorker == \A q, r \in Runs : worker[q] = worker[r]

\* Every run so far had suggestions that could be shown, or failed.
OnlyTables == \A r \in Runs : outcome[r] \in {"table", "ticked", "error", None}

\* No table has a tick in its text.
Unticked == \A r \in Runs : outcome[r] # "ticked"

Quiet == \A r \in Runs : pc[r] \notin Publishing

\* The runs a comment shows, latest first.
Shown(k) == LET all == <<comments[k].latest>> \o comments[k].history
            IN [j \in 1..Len(all) |-> all[j].run]

Place(r) == CHOOSE k \in 1..Len(published) : published[k] = r

\* "every new improve request will edit the previous one" holds as long as each
\* run has a table: in one process, whatever overlaps while the model works, one
\* comment shows the last m tables in the order they were published.  Nothing is
\* left out until the history is full; then m is maxHistory + 1, unless a table had
\* a tick: of those the comment may show more, or none but the last two.
OneCommentShowsTheLast ==
    OneWorker /\ OnlyTables /\ faults = {} /\ Quiet /\ maxHistory > 0 =>
        LET n == Len(published)
        IN IF n = 0 THEN Persistent = {}
           ELSE /\ Cardinality(Persistent) = 1
                /\ \A k \in Persistent : \E m \in 1..n :
                     /\ Shown(k) = [j \in 1..m |-> published[n + 1 - j]]
                     /\ IF n <= maxHistory + 1 THEN m = n
                        ELSE m >= 2 /\ (Unticked => m = maxHistory + 1)

\* No comment shows a table twice, and newer tables stand above older ones, in
\* one process and whatever an API call meets.  The history section is within
\* max_history_len, in several processes too, unless all tables in it but the newest
\* have a tick: those count when it is full, and are not found when the oldest is
\* to go.
HistoryInOrder ==
    /\ OneWorker /\ Quiet => \A k \in Persistent :
          \A i, j \in 1..Len(Shown(k)) :
              i < j /\ {Shown(k)[i], Shown(k)[j]} \subseteq Range(published)
                  => Place(Shown(k)[i]) > Place(Shown(k)[j])
    /\ OnlyTables /\ maxHistory > 0 => \A k \in Persistent :
          \/ Len(comments[k].history) <= maxHistory
          \/ \A j \in 2..Len(comments[k].history) :
                outcome[comments[k].history[j].run] = "ticked"

\* No write is refused.  In several processes none is left unanswered either, and
\* every run has a progress comment to write to: else a table may be moved below
\* another before it is published, or two runs may write to one comment.
Lossless ==
    /\ "refused" \notin faults /\ OnlyTables
    /\ OneWorker \/ ("unanswered" \notin faults /\ \A r \in Runs : progressOn[r])

\* Then a table that was published is only ever pushed out by newer ones, of which
\* a comment shows the latest and a full history; a tick in a table may leave the
\* history with less.
NoTableVanishes ==
    Lossless =>
        \A r \in Range(published) :
            \/ \E k \in Persistent : r \in Range(Shown(k))
            \/ \E k \in Persistent :
                 /\ comments[k].history # <<>>
                 /\ Unticked => Len(comments[k].history) = maxHistory
                 /\ \A q \in Range(Shown(k)) \cap Range(published) : Place(r) < Place(q)

\* No "Work in progress ..." outlives its run, when a run without suggestions
\* reports that it found none.
ProgressCleared ==
    reportNone /\ faults = {} =>
        \A r \in Runs : pc[r] = "done" /\ progress[r] # 0 =>
            comments[progress[r]].kind # "progress"

\* improve.md: "If set to true, the improve comment will be persistent, meaning
\* that every new improve request will edit the previous one."
ImproveCommentIsPersistent ==
    OneWorker /\ faults = {} /\ Quiet => Cardinality(Persistent) <= 1

=============================================================================
