----------------------------- MODULE FrontEnds -----------------------------
(***************************************************************************)
(* From an event to the commands it starts: the webhook servers, the       *)
(* GitHub action and the command line (garda/servers, garda/cli.py), and   *)
(* the agent that starts each command (garda/agent/garda_agent.py).        *)
(*                                                                         *)
(* A request is one event, or one invocation.  What its server does with   *)
(* it before the first command is one step: nothing else runs in between   *)
(* but calls to the hosting service.  The duplicate pushes that the GitHub *)
(* app discards are the business of PushTrigger, not of this module.       *)
(***************************************************************************)
EXTENDS PullRequest

VARIABLE req            \* req[r]: how far request r is

\* The command a request is running, and what its tool read when it was
\* created.
NoCommand == [tool |-> "none", arg |-> "", text |-> <<>>, head |-> 0,
              inc |-> [is |-> FALSE, base |-> 0, unreviewed |-> {}],
              labels |-> {}, log |-> {}, sees |-> {}, keys |-> {}]

NewRequest == [pc |-> "sent", todo |-> <<>>, auto |-> FALSE, repo |-> "unread",
               list |-> 0, diff |-> {}, cmd |-> NoCommand, ended |-> <<>>]

\* The events of the deployment may come at any time; requests without one
\* are over from the start.
InitRequests ==
    req = [r \in Requests |->
             IF r \in DOMAIN conf.events THEN NewRequest
             ELSE [NewRequest EXCEPT !.pc = "done"]]

RunningCommand ==
    [tool : ToolNames \cup {"none"}, arg : {"", "-i", "question"}, text : Seq(Pieces),
     head : 0 .. MaxCommits,
     inc : [is : BOOLEAN, base : Nat, unreviewed : SUBSET (1 .. MaxCommits)],
     labels : SUBSET Labels, log : SUBSET Requests, sees : SUBSET (1 .. MaxCommits),
     keys : SUBSET FileKeys]

Endings == {"published", "empty", "withheld", "failed", "refused"}

Request == [pc : {"sent", "commands", "made", "asked", "done"},
            todo : Seq(Command),     \* the commands to come
            auto : BOOLEAN,          \* whether they run by themselves
            repo : {"unread", "none", "broken", "ok"},
                                     \* what the context knows of the file
            list : 0 .. MaxCommits,  \* what is kept: the list of files
            diff : SUBSET (1 .. MaxCommits),    \* and the diff
            cmd : RunningCommand, ended : Seq(Endings)]

RequestTypeOK ==
    /\ req \in [Requests -> Request]
    /\ \A r \in Requests :
          /\ req[r].pc = "commands" => req[r].todo # <<>>
          /\ req[r].pc \in {"made", "asked"} <=> req[r].cmd.tool # "none"

-----------------------------------------------------------------------------
\* What a server makes of an event: the settings it leaves, what its context
\* knows of the repository's file, whether that file was found broken, and the
\* commands to run.

Refuse(a) == [s |-> a.s, repo |-> a.state, broken |-> a.read = "broken",
              todo |-> <<>>, auto |-> FALSE]

\* The commands that a new pull request or a push starts by itself.
AutoCommands(a, commands, r) ==
    [s |-> Layer(a.s, {"is_auto"}, Args(r)), repo |-> a.state,
     broken |-> a.read = "broken", todo |-> commands, auto |-> TRUE]

\* The command that a comment asks for.
CommentCommand(a, c) == [Refuse(a) EXCEPT !.todo = <<c>>]

\* The settings as they are before anything is applied.
Unread(s) == [s |-> s, ok |-> TRUE, state |-> "unread", read |-> "none"]

Broken(outcomes, a) ==
    {[o EXCEPT !.broken = @ \/ (a.read = "broken")] : o \in outcomes}

\* should_process_pr_logic: the rules that the server knows and that the event
\* meets.  An exception in a rule lets the event through.
ShouldProcess(rules, e, s) == ~(On(s, "ignore") /\ e.meets \cap rules # {})

BranchRules == {"repository", "author", "title", "source", "target"}

Commands(kind) == IF kind = "pr" THEN conf.prCommands ELSE conf.pushCommands

\* Creating a provider for the pull request may fail.
Created == BOOLEAN

-----------------------------------------------------------------------------
\* The GitHub app.

\* should_process_pr_logic of github_app.py
GithubShouldProcess(e, s) == ShouldProcess(BranchRules \cup {"label"}, e, s)

\* _perform_auto_commands_github
PerformAutoCommandsGithub(e, s, state, kind, r) ==
    {IF \/ ~a.ok
        \/ kind = "pr" /\ On(a.s, "auto_off")
        \/ ~GithubShouldProcess(e, a.s)
        \/ Commands(kind) = <<>>
     THEN Refuse(a) ELSE AutoCommands(a, Commands(kind), r)
        : a \in ApplyRepoSettings(e.pr, s, state)}

\* _check_pull_request_event
CheckPullRequestEvent(e) ==
    /\ e.facts \cap {"draft", "closed"} = {}
    /\ e.kind = "push" => "first" \notin e.facts

\* handle_new_pr_opened
HandleNewPrOpened(e, s, r) ==
    IF ~CheckPullRequestEvent(e) \/ "other action" \in e.facts
    THEN {Refuse(Unread(s))}
    ELSE UNION {IF ~a.ok THEN {Refuse(a)}
                ELSE Broken(PerformAutoCommandsGithub(e, a.s, a.state, "pr", r), a)
                    : a \in ApplyRepoSettings(e.pr, s, "unread")}

\* handle_push_trigger_for_new_commits, but for the duplicates it discards.
HandlePushTrigger(e, s, r) ==
    IF ~CheckPullRequestEvent(e) THEN {Refuse(Unread(s))}
    ELSE UNION {IF ~a.ok \/ ~On(a.s, "trigger") \/ e.facts \cap {"same", "merge"} # {}
                THEN {Refuse(a)}
                ELSE Broken(PerformAutoCommandsGithub(e, a.s, a.state, "push", r), a)
                    : a \in ApplyRepoSettings(e.pr, s, "unread")}

\* handle_line_comments: a question on a line becomes an /ask_line.
HandleLineComments(e) ==
    IF e.kind = "line_comment" /\ e.command.tool = "ask"
    THEN [e.command EXCEPT !.tool = "ask_line"] ELSE e.command

\* handle_comments_on_pr: a comment that does not begin with a slash counts
\* when it is a quoted image followed by /ask.
HandleCommentsOnPr(e, s) ==
    IF e.facts \cap {"slash", "image"} = {} THEN {Refuse(Unread(s))}
    ELSE {IF ok THEN CommentCommand(Unread(s), HandleLineComments(e))
          ELSE Refuse(Unread(s)) : ok \in Created}

\* handle_request of github_app.py
GithubHandleRequest(e, s, r) ==
    IF \/ "bot" \in e.facts /\ "ignore bots" \in conf.flags
       \/ e.kind \in {"opened", "ready", "push"} /\ ~GithubShouldProcess(e, s)
    THEN {Refuse(Unread(s))}
    ELSE CASE e.kind \in {"comment", "line_comment"} -> HandleCommentsOnPr(e, s)
           [] e.kind \in {"opened", "ready"} -> HandleNewPrOpened(e, s, r)
           [] OTHER -> HandlePushTrigger(e, s, r)

-----------------------------------------------------------------------------
\* GitLab.

\* should_process_pr_logic of gitlab_webhook.py
GitlabShouldProcess(e, s) == ShouldProcess(BranchRules \cup {"label"}, e, s)

\* _perform_commands_gitlab: the flag is set even when there are no commands.
PerformCommandsGitlab(e, s, state, kind, r) ==
    {IF \/ ~a.ok
        \/ kind = "pr" /\ On(a.s, "auto_off")
        \/ ~GitlabShouldProcess(e, a.s)
     THEN Refuse(a) ELSE AutoCommands(a, Commands(kind), r)
        : a \in ApplyRepoSettings(e.pr, s, state)}

\* is_draft_ready: the change that takes a merge request out of draft.
IsDraftReady(e) == e.kind = "ready"

\* handle_ask_line: a question stays one when its lines cannot be read.
HandleAskLine(e) == {e.command, HandleLineComments(e)}

\* inner of gitlab_webhook, from the check of the token on.  A note needs no
\* slash: whatever it says is handed to the agent.
GitlabWebhook(e, s, r) ==
    IF \/ e.facts \cap {"bot", "unverified"} # {}
       \/ e.kind \in {"opened", "push", "ready"}
          /\ (GitlabShouldProcess(e, s) => ~IsDraftReady(e) /\ "draft" \in e.facts)
    THEN {Refuse(Unread(s))}
    ELSE CASE e.kind \in {"opened", "ready"} ->
                PerformCommandsGitlab(e, s, "unread", "pr", r)
           [] e.kind = "push" ->
                UNION {IF ~a.ok \/ conf.pushCommands = <<>> \/ ~On(a.s, "trigger")
                       THEN {Refuse(a)}
                       ELSE Broken(PerformCommandsGitlab(e, a.s, a.state, "push", r), a)
                         : a \in ApplyRepoSettings(e.pr, s, "unread")}
           [] OTHER ->
                {Refuse(Unread(s))}
                \cup {CommentCommand(Unread(s), c) : c \in HandleAskLine(e)}

-----------------------------------------------------------------------------
\* Bitbucket Cloud.

\* should_process_pr_logic of bitbucket_app.py
BitbucketShouldProcess(e, s) == ShouldProcess(BranchRules, e, s)

\* _validate_time_from_last_commit_to_pr_update: the newest commit is of the
\* same user, and at most 15 seconds older than the event.
ValidateTimeFromLastCommit(e) == "recent" \in e.facts

\* _perform_commands_bitbucket
PerformCommandsBitbucket(e, s, kind, r) ==
    {IF \/ ~a.ok
        \/ kind = "pr" /\ (On(a.s, "auto_off") \/ ~BitbucketShouldProcess(e, a.s))
        \/ kind = "push" /\ ~On(a.s, "trigger")
     THEN Refuse(a)
     ELSE AutoCommands(a, IF kind = "push" /\ ~ValidateTimeFromLastCommit(e)
                          THEN <<>> ELSE Commands(kind), r)
        : a \in ApplyRepoSettings(e.pr, s, "unread")}

\* inner of bitbucket_app's webhook.  There is no question on a line.
BitbucketWebhook(e, s, r) ==
    IF \/ e.facts \cap {"bot", "unverified"} # {}
       \/ e.kind = "opened" /\ ~BitbucketShouldProcess(e, s)
    THEN {Refuse(Unread(s))}
    ELSE CASE e.kind \in {"opened", "push"} ->
                LET kind == IF e.kind = "opened" THEN "pr" ELSE "push"
                IN IF Commands(kind) = <<>> THEN {Refuse(Unread(s))}
                   ELSE PerformCommandsBitbucket(e, s, kind, r)
           [] e.kind = "comment" -> {CommentCommand(Unread(s), e.command)}
           [] OTHER -> {Refuse(Unread(s))}

-----------------------------------------------------------------------------
\* Bitbucket Server: nothing is copied, so that what one request sets stays.

\* should_process_pr_logic of bitbucket_server_webhook.py
BitbucketServerShouldProcess(e, s) == ShouldProcess(BranchRules \cup {"folder"}, e, s)

\* handle_webhook of bitbucket_server_webhook.py.  A push is ignored only
\* after the flag is set.
BitbucketServerWebhook(e, s, r) ==
    IF "unverified" \in e.facts THEN {Refuse(Unread(s))}
    ELSE CASE e.kind \in {"opened", "push"} ->
                {IF ~a.ok \/ ~BitbucketServerShouldProcess(e, a.s) \/ On(a.s, "auto_off")
                 THEN Refuse(a)
                 ELSE AutoCommands(a, IF e.kind = "opened" THEN conf.prCommands
                                      ELSE IF On(a.s, "trigger") THEN conf.pushCommands
                                      ELSE <<>>, r)
                    : a \in ApplyRepoSettings(e.pr, s, "unread")}
           [] e.kind = "comment" -> {CommentCommand(Unread(s), e.command)}
           [] OTHER -> {Refuse(Unread(s))}

-----------------------------------------------------------------------------
\* Azure DevOps: nothing is copied, and nothing is filtered.

\* _perform_commands_azure
PerformCommandsAzure(e, s, r) ==
    {IF ~a.ok \/ On(a.s, "auto_off") \/ conf.prCommands = <<>>
     THEN Refuse(a) ELSE AutoCommands(a, conf.prCommands, r)
        : a \in ApplyRepoSettings(e.pr, s, "unread")}

\* handle_line_comment: the lines are those of the comment's thread, if any.
HandleLineComment(e) == {e.command, HandleLineComments(e)}

\* handle_request_comment: creating the provider may fail.
HandleRequestComment(e, s) ==
    {Refuse(Unread(s))} \cup {CommentCommand(Unread(s), c) : c \in HandleLineComment(e)}

\* handle_request_azure: a comment has to begin with the name of a command.
HandleRequestAzure(e, s, r) ==
    CASE e.kind = "opened" -> PerformCommandsAzure(e, s, r)
      [] e.kind \in {"comment", "line_comment"}
         /\ {"slash", "version 2"} \subseteq e.facts /\ e.command.known ->
            HandleRequestComment(e, s)
      [] OTHER -> {Refuse(Unread(s))}

-----------------------------------------------------------------------------
\* Gitea.

\* should_process_pr_logic of gitea_app.py
GiteaShouldProcess(e, s) == ShouldProcess(BranchRules \cup {"label"}, e, s)

\* _perform_commands_gitea
PerformCommandsGitea(e, s, kind, r) ==
    {IF \/ ~a.ok
        \/ kind = "pr" /\ On(a.s, "auto_off")
        \/ ~GiteaShouldProcess(e, a.s)
        \/ Commands(kind) = <<>>
     THEN Refuse(a) ELSE AutoCommands(a, Commands(kind), r)
        : a \in ApplyRepoSettings(e.pr, s, "unread")}

\* handle_pr_event: whether pushes count is read before the repository's
\* settings are.
HandlePrEvent(e, s, r) ==
    IF e.kind = "opened" THEN PerformCommandsGitea(e, s, "pr", r)
    ELSE IF conf.pushCommands = <<>> \/ ~On(s, "trigger") THEN {Refuse(Unread(s))}
    ELSE PerformCommandsGitea(e, s, "push", r)

\* handle_comment_event
HandleCommentEvent(e, s) ==
    {IF "slash" \in e.facts THEN CommentCommand(Unread(s), e.command)
     ELSE Refuse(Unread(s))}

\* handle_request of gitea_app.py
GiteaHandleRequest(e, s, r) ==
    IF \/ e.kind \notin {"opened", "push", "comment"} \/ "unverified" \in e.facts
       \/ e.kind # "comment" /\ ~GiteaShouldProcess(e, s)
    THEN {Refuse(Unread(s))}
    ELSE IF e.kind = "comment" THEN HandleCommentEvent(e, s)
    ELSE HandlePrEvent(e, s, r)

-----------------------------------------------------------------------------
\* The others.

\* handle_gerrit_request: a question without a text is refused, and without a
\* text there is no command.
HandleGerritRequest(e, s) ==
    IF "no text" \in e.facts /\ e.command.tool = "ask" THEN {Refuse(Unread(s))}
    ELSE {CommentCommand(Unread(s),
            [e.command EXCEPT !.known = @ /\ "no text" \notin e.facts])}

\* run_action: the settings of the repository are applied first where the
\* event names a pull request, and an error there is passed over.  An opened
\* one is described, reviewed and improved by the tools themselves, without
\* the agent.
RunAction(e, s, r) ==
    LET first == IF e.kind = "comment" THEN {Unread(s)}
                 ELSE ApplyRepoSettings(e.pr, s, "unread")
        asked == HandleLineComments(e)
    IN CASE e.kind \in {"comment", "line_comment"} ->
              {CommentCommand(a, asked) : a \in first} \cup {Refuse(a) : a \in first}
         [] e.kind \in {"opened", "ready"} /\ "other action" \notin e.facts ->
              {AutoCommands(a, conf.prCommands, r) : a \in first}
         [] OTHER -> {Refuse(a) : a \in first}

\* process_comment_sync of github_polling.py, in a process of its own.
ProcessCommentSync(e, s) ==
    {IF ok THEN CommentCommand(Unread(s), e.command) ELSE Refuse(Unread(s))
        : ok \in Created}

\* run of cli.py
CliRun(e, s) == {CommentCommand(Unread(s), e.command)}

\* route_and_run of mosaico: a task names a pull request or brings a diff, and
\* nothing is published for it.
RouteAndRun(e, s) ==
    IF e.facts \cap {"url", "diff"} = {} THEN {Refuse(Unread(s))}
    ELSE {CommentCommand(Unread(s), [e.command EXCEPT !.keys = {"publish"}])}
         \cup (IF "diff" \in e.facts THEN {Refuse(Unread(s))} ELSE {})

\* What the server makes of request r; get_settings() is the copy that was
\* made of the global settings, or these themselves.
Handled(r) ==
    LET e == conf.events[r]
        s == settings[Global]
    IN CASE conf.server = "github" -> GithubHandleRequest(e, s, r)
         [] conf.server = "gitlab" -> GitlabWebhook(e, s, r)
         [] conf.server = "bitbucket" -> BitbucketWebhook(e, s, r)
         [] conf.server = "bitbucket_server" -> BitbucketServerWebhook(e, s, r)
         [] conf.server = "azure" -> HandleRequestAzure(e, s, r)
         [] conf.server = "gitea" -> GiteaHandleRequest(e, s, r)
         [] conf.server = "gerrit" -> HandleGerritRequest(e, s)
         [] conf.server = "action" -> RunAction(e, s, r)
         [] conf.server = "polling" -> ProcessCommentSync(e, s)
         [] conf.server = "cli" -> CliRun(e, s)
         [] conf.server = "mosaico" -> RouteAndRun(e, s)

\* A configuration error is told once; the comment is edited from then on.
Noticed(p, broken) == [host EXCEPT ![p].notice = @ \/ broken]

\* A request is handled up to its first command.
Receive(r) ==
    /\ req[r].pc = "sent"
    /\ \E o \in Handled(r) :
          /\ settings' = [settings EXCEPT ![Store(r)] = o.s]
          /\ host' = Noticed(conf.events[r].pr, o.broken)
          /\ req' = [req EXCEPT ![r] =
                [@ EXCEPT !.pc = IF o.todo = <<>> THEN "done" ELSE "commands",
                          !.todo = o.todo, !.auto = o.auto, !.repo = o.repo]]
    /\ UNCHANGED conf

-----------------------------------------------------------------------------
\* The agent.

\* What becomes of one command: the settings, the file, whether its tool was
\* created.
Started(a, s, started) == [s |-> s, repo |-> a.state, broken |-> a.read = "broken",
                           started |-> started]

\* Faulty variant: the options first, and then the file.
AgentHandleRequestOptionsFirst(p, c, s, state, r) ==
    UNION {IF ~a.ok \/ ~c.allowed THEN {Started(a, a.s, FALSE)}
           ELSE {Started(a, a.s, ok) : ok \in IF c.known THEN BOOLEAN ELSE {FALSE}}
             : a \in ApplyRepoSettings(p, UpdateSettingsFromArgs(s, c, r), state)}

\* _handle_request of the agent, whose exceptions handle_request swallows: the
\* settings of the repository, then the options, then the tool.  Options that
\* were taken off the command before are not seen any more.  The tool may fail
\* to be created.
AgentHandleRequest(p, c, s, state, r) ==
    UNION {IF ~a.ok \/ ~c.allowed THEN {Started(a, a.s, FALSE)}
           ELSE {Started(a, UpdateSettingsFromArgs(a.s, c, r), ok)
                    : ok \in IF c.known THEN BOOLEAN ELSE {FALSE}}
             : a \in ApplyRepoSettings(p, s, state)}

\* What is left of a command when its options have been taken off.
Bare(c) == [c EXCEPT !.keys = {}, !.allowed = TRUE]

\* _process_command of bitbucket_server_webhook.py
ProcessCommand(p, c, s, state, r) ==
    UNION {IF ~a.ok THEN {Started(a, a.s, FALSE)}
           ELSE Broken(AgentHandleRequest(p, Bare(c),
                         UpdateSettingsFromArgs(a.s, c, r), a.state, r), a)
             : a \in ApplyRepoSettings(p, s, state)}

\* _run_garda: a diff has no repository whose settings could be read.
RunGarda(r, c, s) ==
    AgentHandleRequest(conf.events[r].pr, c, s,
        IF "diff" \in conf.events[r].facts THEN "none" ELSE "unread", r)

\* _run_ask: a question is answered without the agent.
RunAsk(r, c, s) ==
    {[s |-> UpdateSettingsFromArgs(s, c, r), repo |-> "unread",
      broken |-> FALSE, started |-> ok] : ok \in BOOLEAN}

MosaicoRun(r, c, s) == IF c.tool = "ask" THEN RunAsk(r, c, s) ELSE RunGarda(r, c, s)

\* How request r runs the command c: the options of the commands that run by
\* themselves are set before the agent applies the repository's settings; the
\* GitHub action creates the tools itself.
Run(r, c) ==
    LET p == conf.events[r].pr
        s == settings[Store(r)]
        q == req[r]
    IN IF conf.server = "bitbucket_server" THEN ProcessCommand(p, c, s, q.repo, r)
       ELSE IF conf.server = "mosaico" THEN MosaicoRun(r, c, s)
       ELSE IF conf.server = "action" /\ q.auto
       THEN {[s |-> s, repo |-> q.repo, broken |-> FALSE, started |-> ok] : ok \in BOOLEAN}
       ELSE IF q.auto
       THEN AgentHandleRequest(p, Bare(c), UpdateSettingsFromArgs(s, c, r), q.repo, r)
       ELSE AgentHandleRequest(p, c, s, q.repo, r)
=============================================================================
