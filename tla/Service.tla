------------------------------ MODULE Service ------------------------------
(***************************************************************************)
(* A deployment: its server, the agent and the tools, the polling loop,    *)
(* and the people who push, rewrite the description and label meanwhile.   *)
(* Requests interleave between the steps of Tools, as those of several     *)
(* worker processes do.                                                    *)
(***************************************************************************)
EXTENDS Tools, Polling

vars == <<conf, settings, host, req, poll>>

Init == InitSettings /\ InitHost /\ InitRequests /\ InitPoll

-----------------------------------------------------------------------------
\* What people do.

Running(p, tools) == \E q \in DOMAIN conf.events :
    /\ Pr(q) = p /\ req[q].pc \in {"made", "asked"} /\ req[q].cmd.tool \in tools

\* What is raced, in addition, when it happens in a race.
Raced(h, what, racing) == [h EXCEPT !.raced = IF racing THEN @ \cup {what} ELSE @]

\* A commit that was authored when `seen' review comments existed, and may merge
\* the default branch.  It is raced when it was authored before the last one, or
\* appears while a request is under way.
PushCommit(p) ==
    /\ Len(host[p].commits) < MaxCommits
    /\ \E seen \in 0 .. Len(host[p].reviews) :
       \E merged \in IF "merges" \in conf.flags THEN SUBSET {Len(host[p].commits) + 1}
                     ELSE {{}} :
          host' = [host EXCEPT ![p] =
             Raced([host[p] EXCEPT !.commits = Append(@, seen), !.merges = @ \cup merged],
                   "commit", seen < Len(host[p].reviews) \/ Busy(p))]

\* The author writes a description, which is raced while one is generated.
EditBody(p) ==
    /\ host[p].edits < MaxEdits
    /\ \E t \in UserTexts :
          host' = [host EXCEPT ![p] =
             Raced([host[p] EXCEPT !.body = t, !.text = t, !.edits = @ + 1], "body",
                   Running(p, {"describe"}))]

\* The tools whose labels were read when they were created.
LabelsReadEarly == CASE Provider = "azure" -> {}
                     [] Provider = "gitlab" -> {"review", "describe", "generate_labels"}
                     [] OTHER -> {"generate_labels"}

\* A user adds a label.
AddLabel(p) ==
    /\ ~host[p].labelled /\ SupportsLabels
    /\ host' = [host EXCEPT ![p] =
          Raced([host[p] EXCEPT !.labels = @ \cup {"mine"}, !.labelled = TRUE], "label",
                Running(p, LabelsReadEarly))]

\* The pull requests that something happens on, and what people do there.
People == \E p \in {Pr(r) : r \in DOMAIN conf.events} :
    \/ "commits" \in conf.flags /\ PushCommit(p)
    \/ "edits" \in conf.flags /\ EditBody(p)
    \/ "labels" \in conf.flags /\ AddLabel(p)

-----------------------------------------------------------------------------

\* A comment that is polled for is handled when a task was started for it; a
\* second task for it is counted and not followed.
Arrive(r) == (conf.server = "polling" => poll.started[r] > 0) /\ Receive(r)

Work(r) == (NextCommand(r) \/ RunTool(r) \/ PublishTool(r)) /\ UNCHANGED poll

Next ==
    \/ \E r \in Requests : (Arrive(r) /\ UNCHANGED poll) \/ Work(r)
    \/ (\E r \in Requests : WriteComment(r)) /\ UNCHANGED <<conf, settings, host, req>>
    \/ Poll /\ UNCHANGED <<conf, settings, host, req>>
    \/ People /\ UNCHANGED <<conf, settings, req, poll>>

\* Calls to models and to the service end, and the event loop is fair.
Spec == Init /\ [][Next]_vars /\ \A r \in Requests : WF_vars(Work(r))

-----------------------------------------------------------------------------
\* Properties.

ServiceTypeOK == SettingsTypeOK /\ HostTypeOK /\ RequestTypeOK /\ PollTypeOK

\* Where the settings are copied, what the settings file of a repository, the
\* options of a comment or the tickets of a pull request change stays with the
\* requests of that pull request, and the process keeps what it began with.
SettingsIsolated ==
    ~SharesSettings(conf.server) =>
        /\ settings[Global] = InitialSettings
        /\ \A r \in DOMAIN conf.events : \A k \in Keys :
              settings[r][k] \in {Default, Env, Extra, File(Pr(r)), Args(r), Tickets(Pr(r))}

\* The command that request r begins: where an option of it comes from.
StartsInOrder(r) ==
    LET early == req[r].auto \/ conf.server = "bitbucket_server"
        asked == IF early THEN {} ELSE Head(req[r].todo).keys
        file == IF req'[r].repo = "ok" THEN conf.file[Pr(r)].keys ELSE {}
        alone == ~early /\ ~SharesSettings(conf.server)
        env == IF alone \/ req'[r].repo = "ok" THEN conf.env ELSE {}
    IN \A k \in FileKeys :
         LET v == settings'[Store(r)][k]
         IN /\ k \in asked => v = Args(r)
            /\ k \in env \ asked => v = Env
            /\ k \in file \ (conf.env \cup asked) => v = File(Pr(r))

\* When a command starts, an option of the comment wins over all, then the
\* environment, then the settings file of the repository.  The options of
\* commands that run by themselves, and of comments on Bitbucket Server, are
\* applied before the file is, and lose to it; without a file they win, and
\* stay for the commands that follow.
OptionsPrecedence ==
    [][\A r \in DOMAIN conf.events :
         req[r].pc = "commands" /\ req'[r].pc = "made" => StartsInOrder(r)]_vars

\* The text t of the author is what can be read back from the description b;
\* with marks, all of it but the marks, each piece at its place.
ReadsBack(b, t) ==
    IF "markers" \in conf.flags
    THEN /\ Len(GetUserDescription(b)) = Len(t)
         /\ \A i \in DOMAIN t : t[i] \notin Marks => GetUserDescription(b)[i] = t[i]
    ELSE GetUserDescription(b) = t

\* Whatever is generated, the author's own text can be read back from the
\* description, and a label of a user stays, unless somebody edits while the
\* answer is generated, or the generated description has no heading.
UserWorkKept ==
    \A p \in PRs :
        LET h == host[p]
        IN /\ h.raced \cap {"body", "bare"} = {} => ReadsBack(h.body, h.text)
           /\ h.labelled /\ "label" \notin h.raced => "mine" \in h.labels

\* A review, incremental or not and whatever commands of its request ran before
\* it, sees with the reviews before it every commit that was there when it
\* began, unless one was authored earlier than a review that had not seen it or
\* came in while a request was under way.  The merges of the default branch are
\* excepted: an incremental review passes over them, and the next one begins
\* behind them.
ReviewMissesNothing ==
    \A r \in Requests :
        At(r, "asked", "review") /\ "commit" \notin HostOf(r).raced
        => (1 .. req[r].cmd.head) \ HostOf(r).merges
              \subseteq HostOf(r).covered \cup req[r].cmd.sees

\* The options that some command of the deployment sets.
AskedKeys ==
    UNION ({conf.prCommands[i].keys : i \in DOMAIN conf.prCommands}
           \cup {conf.pushCommands[i].keys : i \in DOMAIN conf.pushCommands}
           \cup {conf.events[i].command.keys : i \in DOMAIN conf.events})

\* A progress comment is that of a command that runs, or of one that failed or
\* withheld its answer, or one that the service refused to delete; where the
\* requests share their settings, unless one of them turns publishing off for the
\* others.
ProgressCleared ==
    (SharesSettings(conf.server) => "publish" \notin AskedKeys) =>
        \A p \in PRs : \A x \in host[p].progress \ host[p].undeleted :
            \/ x[2] = Len(req[x[1]].ended) + 1 /\ req[x[1]].pc = "asked"
            \/ x[2] \in DOMAIN req[x[1]].ended
               /\ req[x[1]].ended[x[2]] \in {"failed", "withheld"}

\* A comment is started once for itself, and at most once more for each comment
\* of its pull request that asks for nothing.
CommentStartedOnce ==
    conf.server = "polling" => \A r \in DOMAIN conf.events :
        poll.started[r] <= 1 + Cardinality({q \in DOMAIN conf.events :
                                              Pr(q) = Pr(r) /\ ~Asks(q)})

\* A task of mosaico leaves the pull request as it is, whatever the settings file
\* of the repository says; only a broken file is told there.
MosaicoIsQuiet ==
    [][conf.server = "mosaico" /\ req' # req =>
         \A p \in PRs : host'[p] = [host[p] EXCEPT !.notice = host'[p].notice]]_vars

\* Whatever fails on the way, there comes a time from which on every request
\* that was received has ended.
EveryRequestEnds == <>[](\A r \in Requests : req[r].pc \in {"sent", "done"})
=============================================================================
