------------------------------- MODULE Tools -------------------------------
(***************************************************************************)
(* The commands (garda/tools), each in three steps between which other     *)
(* requests run and people push, edit and label: the tool is created, it   *)
(* reads the diff and asks the models, and it publishes what they said.    *)
(* /improve has modules of its own, ImproveComments and InlineSuggestions. *)
(***************************************************************************)
EXTENDS FrontEnds

\* The pull request of request r, the command it is at, and its progress
\* comment, "Preparing review..." and the like.
Pr(r) == conf.events[r].pr
HostOf(r) == host[Pr(r)]
Mine(r) == <<r, Len(req[r].ended) + 1>>

\* Some request on p has begun and not ended.
Busy(p) == \E q \in DOMAIN conf.events : Pr(q) = p /\ req[q].pc \notin {"sent", "done"}

-----------------------------------------------------------------------------
\* Creating a tool: a provider, with the pull request as it is at that moment,
\* and the list of its files.

CreatedWith(r, c, f) ==
    [list |-> f.list, diff |-> f.diff,
     cmd |-> [NoCommand EXCEPT !.tool = c.tool, !.arg = c.arg, !.keys = c.keys,
                               !.head = Len(HostOf(r).commits),
                               !.labels = HostOf(r).labels]]

\* What an earlier command has left: the GitHub app keeps the list and the diff
\* in the context of the request, the others in the provider.
Kept(r) == IF conf.server = "github" THEN [list |-> req[r].list, diff |-> req[r].diff]
           ELSE [list |-> 0, diff |-> {}]

\* The files that a constructor lists to find the main language.
Listed(r, inc) == [Kept(r) EXCEPT !.list = GetFiles(HostOf(r), Kept(r), inc).list]

\* What IncrementalPR comes to: only the GitHub provider looks for commits.
Incremental(h, asked) ==
    IF Provider = "github" THEN GetIncrementalCommits(h, asked)
    ELSE [is |-> asked, base |-> 0, unreviewed |-> {}]

\* PRReviewer.__init__
NewReview(r, c) ==
    LET inc == Incremental(HostOf(r), c.arg = "-i")
    IN [CreatedWith(r, c, Listed(r, inc)) EXCEPT !.cmd.inc = inc]

\* PRDescription.__init__: the diff and the user's text are read here.
NewDescription(r, c) ==
    [CreatedWith(r, c, GetDiffFiles(HostOf(r), Kept(r), NoCommand.inc))
        EXCEPT !.cmd.text = GetUserDescription(HostOf(r).body)]

\* _get_changelog_file: an error counts as an empty changelog.
GetChangelogFile(r) == {HostOf(r).log, {}}

\* PRUpdateChangelog.__init__: the changelog is read here.
NewUpdateChangelog(r, c) ==
    {[CreatedWith(r, c, Listed(r, NoCommand.inc)) EXCEPT !.cmd.log = g]
        : g \in GetChangelogFile(r)}

\* PRQuestions.__init__, and alike for the tools that read no more than that.
NewTool(r, c) == CreatedWith(r, c, Listed(r, NoCommand.inc))

\* command2class, and what its constructors may read.
Construct(r, c) ==
    CASE c.tool = "review" -> {NewReview(r, c)}
      [] c.tool = "describe" -> {NewDescription(r, c)}
      [] c.tool = "update_changelog" -> NewUpdateChangelog(r, c)
      [] OTHER -> {NewTool(r, c)}

\* Faulty variant: nobody notices that there are no commands left.
FinishedNever(q, how) ==
    [q EXCEPT !.pc = "commands", !.cmd = NoCommand, !.ended = Append(@, how)]

\* A command is over, and the next one follows.
Finished(q, how) ==
    [q EXCEPT !.pc = IF q.todo = <<>> THEN "done" ELSE "commands",
              !.cmd = NoCommand, !.ended = Append(@, how)]

\* Its tool is created, or not: an exception in a constructor ends the GitHub
\* action, and in the others the next command follows.
Made(q, o, k) ==
    [q EXCEPT !.pc = "made", !.todo = Tail(@), !.repo = o.repo,
              !.list = k.list, !.diff = k.diff, !.cmd = k.cmd]
Refused(q, o) ==
    LET left == IF conf.server = "action" /\ q.auto THEN <<>> ELSE Tail(q.todo)
    IN Finished([q EXCEPT !.repo = o.repo, !.todo = left], "refused")

\* The next command of request r.
NextCommand(r) ==
    /\ req[r].pc = "commands" /\ req[r].todo # <<>>
    /\ \E c \in {Head(req[r].todo)} : \E o \in Run(r, c), k \in Construct(r, c) :
          /\ settings' = [settings EXCEPT ![Store(r)] = o.s]
          /\ host' = Noticed(Pr(r), o.broken)
          /\ req' = [req EXCEPT ![r] =
                IF o.started THEN Made(@, o, k) ELSE Refused(@, o)]
    /\ UNCHANGED conf

-----------------------------------------------------------------------------
\* What the tools have in common.

At(r, pc, tool) == req[r].pc = pc /\ req[r].cmd.tool = tool

\* publish_comment(is_temporary): two providers publish none, and two servers
\* turn them off.
ShowsProgress == conf.server \notin {"bitbucket_server", "gerrit", "bitbucket", "polling"}

\* Tools that run by themselves show none, but for the older ones.
IsAuto(r) == On(settings[Store(r)], "is_auto")

WithProgress(r, shown) ==
    [HostOf(r) EXCEPT !.progress = IF shown /\ ShowsProgress THEN @ \cup {Mine(r)} ELSE @]

\* Faulty variant: the progress comment stays.
WithoutProgressNever(h, r) == {h}

\* remove_initial_comment, on the provider of the command.  A deletion that fails
\* is logged, and the command goes on.
WithoutProgress(h, r) ==
    {[h EXCEPT !.progress = @ \ {Mine(r)}],
     [h EXCEPT !.undeleted = @ \cup (h.progress \cap {Mine(r)})]}

\* The pull request becomes h, if anything is published at all.
Published(r, h) ==
    host' = [host EXCEPT ![Pr(r)] = IF Publishes(settings[Store(r)]) THEN h ELSE @]

\* The command ends, with the pull request as h.
End(r, h, how) ==
    /\ Published(r, h)
    /\ req' = [req EXCEPT ![r] = Finished(@, how)]
    /\ UNCHANGED <<conf, settings>>

\* The command has read the diff and waits for a model.
Ask(r, h) ==
    /\ Published(r, h)
    /\ \E f \in {GetDiffFiles(HostOf(r), req[r], req[r].cmd.inc)} :
          req' = [req EXCEPT ![r] = [@ EXCEPT !.pc = "asked", !.list = f.list,
                                              !.diff = f.diff, !.cmd.sees = f.sees]]
    /\ UNCHANGED conf

\* It ends after h, with its progress comment removed.
EndCleared(r, h, how) == \E g \in WithoutProgress(h, r) : End(r, g, how)

\* Some call fails, and the exception ends the command.
Fail(r, h) == End(r, h, "failed")

\* extract_and_cache_pr_tickets: only GitHub and Azure have tickets to read, and
\* what is there already is kept.
CachedTickets(s, p) ==
    IF On(s, "tickets") \/ Provider \notin {"github", "azure"} THEN {s}
    ELSE {s, Layer(s, {"tickets"}, Tickets(p))}

ExtractTickets(r) ==
    \E s \in CachedTickets(settings[Store(r)], Pr(r)) :
        settings' = [settings EXCEPT ![Store(r)] = s]

-----------------------------------------------------------------------------
\* /review

\* _can_run_incremental_review: on the other providers there is no list of
\* commits to count, and the exception ends the review.
CanRunIncrementalReview(r) ==
    IF ~req[r].cmd.inc.is THEN {"run"}
    ELSE IF Provider # "github" THEN {"failed"}
    ELSE IF "thresholds" \in conf.flags THEN {"run", "withheld"} ELSE {"run"}

\* PRReviewer.run, up to the models.  A pull request without files, or with none
\* that is new, is not reviewed.
ReviewRun(r) ==
    /\ At(r, "made", "review")
    /\ \/ End(r, HostOf(r), "withheld")
       \/ \E how \in CanRunIncrementalReview(r) \ {"run"} : End(r, HostOf(r), how)
       \/ /\ "run" \in CanRunIncrementalReview(r)
          /\ ExtractTickets(r)
          /\ IF req[r].cmd.inc.is /\ req[r].cmd.inc.unreviewed = {}
             THEN /\ req' = [req EXCEPT ![r] = Finished(@, "withheld")]
                  /\ UNCHANGED <<conf, host>>
             ELSE Ask(r, WithProgress(r, ~IsAuto(r)))

\* set_review_labels
SetReviewLabels(r, h) ==
    IF SupportsLabels
    THEN PublishLabels(h,
            {"effort"} \cup (GetPrLabels(h, req[r].cmd.labels, TRUE) \ {"effort"}))
    ELSE h

\* publish_persistent_comment_full: the first full review is edited, and the
\* edit may fail unnoticed; when the comments cannot be listed, or the edit or the
\* word about it raises, the review is published as a new comment.
PublishReview(r, h) ==
    LET inc == req[r].cmd.inc.is
        seen == [h EXCEPT !.covered = @ \cup req[r].cmd.sees]
        new == [seen EXCEPT !.reviews = Append(@, IF inc THEN "incremental" ELSE "full")]
    IN IF ~inc /\ "full" \in ToSet(h.reviews) /\ "not persistent" \notin conf.flags
       THEN {seen, h, new}
       ELSE {new}

\* The rest of PRReviewer.run.
ReviewPublish(r) ==
    /\ At(r, "asked", "review")
    /\ \/ Fail(r, HostOf(r))
       \/ EndCleared(r, HostOf(r), "empty")
       \/ \E h \in {SetReviewLabels(r, HostOf(r))} :
             \/ Fail(r, h)
             \/ "no suggestions" \in conf.flags /\ End(r, h, "withheld")
             \/ \E g \in PublishReview(r, h) : EndCleared(r, g, "published")

-----------------------------------------------------------------------------
\* /describe

\* PRDescription.run, up to the models: with marks asked for and none in the
\* user's text, no model is asked.
DescribeRun(r) ==
    /\ At(r, "made", "describe")
    /\ ExtractTickets(r)
    /\ IF "markers" \in conf.flags /\ ToSet(req[r].cmd.text) \cap Marks = {}
       THEN /\ req' = [req EXCEPT ![r] = Finished(@, "empty")]
            /\ UNCHANGED <<conf, host>>
       ELSE Ask(r, WithProgress(r, ~IsAuto(r)))

\* What the model may have written.
Answers == {{}, {"type", "description", "files"}, {"description", "diagram", "files"}}

\* The labels that run publishes, the model's first.
DescribeLabels(r, h, answer) ==
    IF SupportsLabels /\ "type" \in answer /\ "labels" \in conf.flags
    THEN PublishLabels(h,
            {"type"} \cup GetUserLabels(GetPrLabels(h, req[r].cmd.labels, TRUE)))
    ELSE h

\* publish_description, or a comment with it.
PublishDescription(r, h, answer) ==
    LET text == req[r].cmd.text
        body == IF "markers" \in conf.flags THEN PreparePrAnswerWithMarkers(text, answer)
                ELSE PreparePrAnswer(text, answer)
    IN IF \/ conf.server \in {"bitbucket", "polling"} \/ "as comment" \in conf.flags
       THEN h
       ELSE [h EXCEPT !.body = body,
                      !.raced = IF /\ "markers" \notin conf.flags
                                   /\ ToSet(body) \cap {"TYPE", "DESC"} = {}
                                THEN @ \cup {"bare"} ELSE @]

\* The rest of PRDescription.run.
DescribePublish(r) ==
    /\ At(r, "asked", "describe")
    /\ \/ Fail(r, HostOf(r))
       \/ EndCleared(r, HostOf(r), "empty")
       \/ \E answer \in Answers : \E h \in {DescribeLabels(r, HostOf(r), answer)} :
             \/ Fail(r, h)
             \/ EndCleared(r, PublishDescription(r, h, answer), "published")

-----------------------------------------------------------------------------
\* /ask and questions on lines

\* PRQuestions.run: the progress comment even of a command that runs by itself.
AskRun(r) ==
    /\ At(r, "made", "ask")
    /\ Ask(r, WithProgress(r, TRUE)) /\ UNCHANGED settings

\* _prepare_pr_answer: an empty answer is published as well.
AskPublish(r) ==
    /\ At(r, "asked", "ask")
    /\ \/ Fail(r, HostOf(r))
       \/ EndCleared(r, HostOf(r), "published")

\* PR_LineQuestions.run: without the lines of the comment there is no question.
AskLineRun(r) ==
    /\ At(r, "made", "ask_line")
    /\ \/ Ask(r, HostOf(r)) /\ UNCHANGED settings
       \/ End(r, HostOf(r), "empty")

AskLinePublish(r) ==
    /\ At(r, "asked", "ask_line")
    /\ \E how \in {"published", "failed"} : End(r, HostOf(r), how)

-----------------------------------------------------------------------------
\* /add_docs

AddDocsRun(r) ==
    /\ At(r, "made", "add_docs")
    /\ Ask(r, WithProgress(r, TRUE)) /\ UNCHANGED settings

\* PRAddDocs.run: the progress comment is removed before the docs are pushed,
\* and not at all when there are none.
AddDocsPublish(r) ==
    /\ At(r, "asked", "add_docs")
    /\ \/ Fail(r, HostOf(r))
       \/ End(r, HostOf(r), "withheld")
       \/ \E how \in {"published", "failed"} : EndCleared(r, HostOf(r), how)

-----------------------------------------------------------------------------
\* /generate_labels

GenerateLabelsRun(r) ==
    /\ At(r, "made", "generate_labels")
    /\ Ask(r, WithProgress(r, TRUE)) /\ UNCHANGED settings

\* PRGenerateLabels.run: the user's labels are those of the provider's creation;
\* Gerrit's provider raises when it is asked for them.
GenerateLabelsPublish(r) ==
    /\ At(r, "asked", "generate_labels")
    /\ \/ Fail(r, HostOf(r))
       \/ End(r, HostOf(r), "withheld")
       \/ \E mine \in {GetUserLabels(GetPrLabels(HostOf(r), req[r].cmd.labels, FALSE))} :
             /\ Provider # "gerrit"
             /\ EndCleared(r, IF SupportsLabels
                               THEN PublishLabels(HostOf(r), {"type"} \cup mine)
                               ELSE HostOf(r), "published")

-----------------------------------------------------------------------------
\* /update_changelog

\* Providers with create_or_update_pr_file.
PushesFiles == Provider \in {"github", "gitlab", "bitbucket"}

\* PRUpdateChangelog.run, up to the models.
UpdateChangelogRun(r) ==
    /\ At(r, "made", "update_changelog")
    /\ IF "push changelog" \in conf.flags /\ ~PushesFiles
       THEN End(r, HostOf(r), "withheld")
       ELSE Ask(r, WithProgress(r, TRUE)) /\ UNCHANGED settings

\* _push_changelog_update: the new entry above the changelog that was read when
\* the tool was created, in a commit of its own, while a request is under way.
PushChangelogUpdate(r, h) ==
    IF Len(h.commits) < MaxCommits
    THEN [h EXCEPT !.log = {r} \cup req[r].cmd.log,
                   !.commits = Append(@, Len(h.reviews)), !.raced = @ \cup {"commit"}]
    ELSE h

\* The rest of PRUpdateChangelog.run.
UpdateChangelogPublish(r) ==
    /\ At(r, "asked", "update_changelog")
    /\ \/ Fail(r, HostOf(r))
       \/ \E h \in WithoutProgress(HostOf(r), r) :
             \/ Fail(r, h)
             \/ IF "push changelog" \in conf.flags
                THEN End(r, PushChangelogUpdate(r, h), "published")
                ELSE End(r, h, "published")

-----------------------------------------------------------------------------
\* /help_docs, /help and /config

\* PRHelpDocs.run: nothing is done without a question, a clone and documents;
\* no diff is read and no progress shown.
HelpDocsRun(r) ==
    /\ At(r, "made", "help_docs")
    /\ \/ End(r, HostOf(r), "withheld")
       \/ /\ req[r].cmd.arg = "question"
          /\ req' = [req EXCEPT ![r].pc = "asked"]
          /\ UNCHANGED <<conf, settings, host>>

\* An answer that cannot be read, or without sections, is not published.
HelpDocsPublish(r) ==
    /\ At(r, "asked", "help_docs")
    /\ \E how \in {"published", "withheld", "failed"} : End(r, HostOf(r), how)

\* PRHelpMessage.run: with a question and without a key for OpenAI, the answer
\* is that a key is needed; without a question, the list of tools.
HelpRun(r) ==
    /\ At(r, "made", "help")
    /\ IF req[r].cmd.arg = "question" /\ "openai key" \in conf.flags
       THEN /\ req' = [req EXCEPT ![r].pc = "asked"]
            /\ UNCHANGED <<conf, settings, host>>
       ELSE \E how \in {"published", "failed"} : End(r, HostOf(r), how)

HelpPublish(r) ==
    /\ At(r, "asked", "help")
    /\ \E how \in {"published", "withheld", "failed"} : End(r, HostOf(r), how)

\* PRConfig.run
ConfigRun(r) ==
    /\ At(r, "made", "config")
    /\ \E how \in {"published", "failed"} : End(r, HostOf(r), how)

-----------------------------------------------------------------------------
RunTool(r) ==
    \/ ReviewRun(r) \/ DescribeRun(r) \/ AskRun(r) \/ AskLineRun(r) \/ AddDocsRun(r)
    \/ GenerateLabelsRun(r) \/ UpdateChangelogRun(r) \/ HelpDocsRun(r)
    \/ HelpRun(r) \/ ConfigRun(r)

PublishTool(r) ==
    \/ ReviewPublish(r) \/ DescribePublish(r) \/ AskPublish(r) \/ AskLinePublish(r)
    \/ AddDocsPublish(r) \/ GenerateLabelsPublish(r) \/ UpdateChangelogPublish(r)
    \/ HelpDocsPublish(r) \/ HelpPublish(r)
=============================================================================
