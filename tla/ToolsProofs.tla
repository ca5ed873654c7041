---------------------------- MODULE ToolsProofs ----------------------------
(***************************************************************************)
(* That the requests of every deployment keep to their types, clear what   *)
(* they show, keep what users wrote and review what is new, and that the   *)
(* polling loop starts each comment once, for every deployment, every      *)
(* number of requests and commits and every order of their steps and of    *)
(* what people do meanwhile.                                               *)
(***************************************************************************)
EXTENDS ServiceProofs, FiniteSetTheorems, WellFoundedInduction

\* The states of a repository's settings file, as it was read.
Reads == {"unread", "none", "broken", "ok"}

\* The commands that set no options but those of K.
Cmds(K) == {c \in Command : c.keys \subseteq K}

\* The set S of stores is closed under whatever request r does with one, when it
\* sets options of K.
Closed(S, r, K) ==
    \A s \in S :
        /\ \A keys : keys \in ResolveExtraConfig => ApplySettingsFromFile(s, keys) \in S
        /\ \A f : MergeRepoFile(s, Pr(r), f) \in S
        /\ Layer(s, {"is_auto"}, Args(r)) \in S
        /\ Layer(s, {"tickets"}, Tickets(Pr(r))) \in S
        /\ \A c \in Cmds(K) : UpdateSettingsFromArgs(s, c, r) \in S

\* What apply_repo_settings, a server and the agent make of a store of S.
Applied(S) == [s : S, ok : BOOLEAN, state : Reads, read : Reads]
Outcomes(S, K) == [s : S, repo : Reads, broken : BOOLEAN, todo : Seq(Cmds(K)),
                   auto : BOOLEAN]
Results(S) == [s : S, repo : Reads, broken : BOOLEAN, started : BOOLEAN]

\* What is known of a deployment when a server handles request r.
Serves(S, r, K) ==
    /\ conf \in Deployment /\ r \in DOMAIN conf.events
    /\ AskedKeys \subseteq K
    /\ conf.server = "mosaico" => "publish" \in K
    /\ Closed(S, r, K)

-----------------------------------------------------------------------------
\* Every server makes an outcome over S of a store of S.

LEMMA SeqOver ==
    ASSUME NEW S, NEW T, NEW q \in Seq(S), \A i \in DOMAIN q : q[i] \in T
    PROVE  q \in Seq(T)
<1>1. Len(q) \in Nat /\ q \in [1 .. Len(q) -> T]
  OBVIOUS
<1> QED BY <1>1

LEMMA DeploymentIs ==
    ASSUME conf \in Deployment, NEW K, AskedKeys \subseteq K
    PROVE  /\ conf.prCommands \in Seq(Cmds(K)) /\ conf.pushCommands \in Seq(Cmds(K))
           /\ \A r \in DOMAIN conf.events :
                 /\ conf.events[r] \in Event /\ conf.events[r].command \in Cmds(K)
                 /\ Pr(r) \in PRs
           /\ \A p \in PRs : conf.file[p].state \in Reads
<1>1. /\ conf.prCommands \in Seq(Command) /\ conf.pushCommands \in Seq(Command)
      /\ conf.events \in Seq(Event)
      /\ \A p \in PRs : conf.file[p].state \in Reads
  BY DEF Deployment, Reads
<1>2. \A i \in DOMAIN conf.prCommands : conf.prCommands[i] \in Cmds(K)
  BY <1>1 DEF AskedKeys, Cmds
<1>3. \A i \in DOMAIN conf.pushCommands : conf.pushCommands[i] \in Cmds(K)
  BY <1>1 DEF AskedKeys, Cmds
<1>4. \A r \in DOMAIN conf.events : conf.events[r] \in Event
  BY <1>1
<1>6. conf.prCommands \in Seq(Cmds(K)) /\ conf.pushCommands \in Seq(Cmds(K))
  BY <1>1, <1>2, <1>3, SeqOver
<1>5. \A r \in DOMAIN conf.events : conf.events[r].command \in Cmds(K) /\ Pr(r) \in PRs
  BY <1>4 DEF AskedKeys, Cmds, Event, Pr
<1> QED BY <1>1, <1>4, <1>5, <1>6

LEMMA ApplyIn ==
    ASSUME NEW S, NEW r, NEW K, Serves(S, r, K), NEW s \in S, NEW state \in Reads,
           NEW a \in ApplyRepoSettings(Pr(r), s, state)
    PROVE  a \in Applied(S)
<1>1. Pr(r) \in PRs /\ conf.file[Pr(r)].state \in Reads
  BY DeploymentIs DEF Serves
<1>2. \A f \in GetRepoSettings(Pr(r)) : f \in Reads
  BY <1>1 DEF GetRepoSettings, Reads
<1>3. \A keys \in ResolveExtraConfig : ApplySettingsFromFile(s, keys) \in S
  BY DEF Serves, Closed
<1>4. \A x \in S : \A f : MergeRepoFile(x, Pr(r), f) \in S
  BY DEF Serves, Closed
<1>5. "unread" \in Reads /\ "none" \in Reads
  BY DEF Reads
<1>6. CASE a.ok
  <2>1. PICK x \in S, f \in Reads :
           a = [s |-> MergeRepoFile(x, Pr(r), f), ok |-> TRUE,
                state |-> IF HasContext THEN f ELSE "unread", read |-> f]
    BY <1>2, <1>3, <1>6 DEF ApplyRepoSettings
  <2> QED BY <1>4, <1>5, <2>1 DEF Applied
<1>7. CASE ~a.ok
  <2>1. PICK x \in S : a = [s |-> x, ok |-> FALSE, state |-> state, read |-> "none"]
    BY <1>3, <1>7 DEF ApplyRepoSettings
  <2> QED BY <1>5, <2>1 DEF Applied
<1> QED BY <1>6, <1>7

LEMMA UnreadIn ==
    ASSUME NEW S, NEW s \in S
    PROVE  Unread(s) \in Applied(S)
BY DEF Unread, Applied, Reads

LEMMA RefuseIn ==
    ASSUME NEW S, NEW K, NEW a \in Applied(S)
    PROVE  Refuse(a) \in Outcomes(S, K)
BY DEF Refuse, Applied, Outcomes

LEMMA CommentIn ==
    ASSUME NEW S, NEW K, NEW a \in Applied(S), NEW c \in Cmds(K)
    PROVE  CommentCommand(a, c) \in Outcomes(S, K)
<1>1. Refuse(a) \in Outcomes(S, K) /\ <<c>> \in Seq(Cmds(K))
  BY RefuseIn
<1> QED BY <1>1 DEF CommentCommand, Outcomes

LEMMA AutoIn ==
    ASSUME NEW S, NEW r, NEW K, Serves(S, r, K), NEW a \in Applied(S),
           NEW commands \in Seq(Cmds(K))
    PROVE  AutoCommands(a, commands, r) \in Outcomes(S, K)
<1>1. a.s \in S
  BY DEF Applied
<1>2. Layer(a.s, {"is_auto"}, Args(r)) \in S
  BY <1>1 DEF Serves, Closed
<1> QED BY <1>2 DEF AutoCommands, Applied, Outcomes

LEMMA BrokenIn ==
    ASSUME NEW S, NEW K, NEW T, T \subseteq Outcomes(S, K), NEW a, NEW o \in Broken(T, a)
    PROVE  o \in Outcomes(S, K)
BY DEF Broken, Outcomes

LEMMA BrokenResultIn ==
    ASSUME NEW S, NEW T, T \subseteq Results(S), NEW a, NEW o \in Broken(T, a)
    PROVE  o \in Results(S)
BY DEF Broken, Results

\* The GitHub app.
LEMMA CommandsOf ==
    ASSUME NEW S, NEW r, NEW K, Serves(S, r, K)
    PROVE  /\ \A kind : Commands(kind) \in Seq(Cmds(K))
           /\ conf.events[r].pr = Pr(r) /\ conf.events[r].command \in Cmds(K)
           /\ HandleLineComments(conf.events[r]) \in Cmds(K)
<1>1. conf.events[r] \in Event /\ conf.events[r].command \in Cmds(K)
  BY DeploymentIs DEF Serves
<1>2. \A kind : Commands(kind) \in Seq(Cmds(K))
  BY DeploymentIs DEF Serves, Commands
<1>3. HandleLineComments(conf.events[r]) \in Cmds(K)
  <2> DEFINE c == conf.events[r].command
  <2>1. c \in Cmds(K) /\ [c EXCEPT !.tool = "ask_line"] \in Cmds(K)
    BY <1>1 DEF Cmds, Command, ToolNames
  <2> QED BY <2>1 DEF HandleLineComments
<1> QED BY <1>1, <1>2, <1>3 DEF Pr

LEMMA GithubCommandsIn ==
    ASSUME NEW S, NEW r, NEW K, Serves(S, r, K), NEW s \in S, NEW state \in Reads, NEW kind,
           NEW e, e.pr = Pr(r), NEW o \in PerformAutoCommandsGithub(e, s, state, kind, r)
    PROVE  o \in Outcomes(S, K)
BY ApplyIn, RefuseIn, AutoIn, CommandsOf DEF PerformAutoCommandsGithub

LEMMA UnreadRefused ==
    ASSUME NEW S, NEW K, NEW s \in S
    PROVE  Refuse(Unread(s)) \in Outcomes(S, K)
BY UnreadIn, RefuseIn

LEMMA UnreadComment ==
    ASSUME NEW S, NEW K, NEW s \in S, NEW c \in Cmds(K)
    PROVE  CommentCommand(Unread(s), c) \in Outcomes(S, K)
BY UnreadIn, CommentIn

LEMMA UnreadState == "unread" \in Reads
BY DEF Reads

LEMMA AppliedHas ==
    ASSUME NEW S, NEW a \in Applied(S)
    PROVE  a.s \in S /\ a.state \in Reads
BY DEF Applied

LEMMA NewPrIn ==
    ASSUME NEW S, NEW r, NEW K, Serves(S, r, K), NEW s \in S,
           NEW e, e.pr = Pr(r), NEW o \in HandleNewPrOpened(e, s, r)
    PROVE  o \in Outcomes(S, K)
<1>1. CASE o \in {Refuse(Unread(s))}
  BY <1>1, UnreadRefused
<1>2. ASSUME NEW a \in ApplyRepoSettings(e.pr, s, "unread"),
             \/ o \in {Refuse(a)}
             \/ o \in Broken(PerformAutoCommandsGithub(e, a.s, a.state, "pr", r), a)
      PROVE  o \in Outcomes(S, K)
  <2>1. a \in Applied(S)
    BY ApplyIn, UnreadState
  <2>2. PerformAutoCommandsGithub(e, a.s, a.state, "pr", r) \subseteq Outcomes(S, K)
    BY <2>1, GithubCommandsIn, AppliedHas
  <2> QED BY <1>2, <2>1, <2>2, RefuseIn, BrokenIn
<1> QED BY <1>1, <1>2 DEF HandleNewPrOpened

LEMMA PushIn ==
    ASSUME NEW S, NEW r, NEW K, Serves(S, r, K), NEW s \in S,
           NEW e, e.pr = Pr(r), NEW o \in HandlePushTrigger(e, s, r)
    PROVE  o \in Outcomes(S, K)
<1>1. CASE o \in {Refuse(Unread(s))}
  BY <1>1, UnreadRefused
<1>2. ASSUME NEW a \in ApplyRepoSettings(e.pr, s, "unread"),
             \/ o \in {Refuse(a)}
             \/ o \in Broken(PerformAutoCommandsGithub(e, a.s, a.state, "push", r), a)
      PROVE  o \in Outcomes(S, K)
  <2>1. a \in Applied(S)
    BY ApplyIn, UnreadState
  <2>2. PerformAutoCommandsGithub(e, a.s, a.state, "push", r) \subseteq Outcomes(S, K)
    BY <2>1, GithubCommandsIn, AppliedHas
  <2> QED BY <1>2, <2>1, <2>2, RefuseIn, BrokenIn
<1> QED BY <1>1, <1>2 DEF HandlePushTrigger

LEMMA GithubIn ==
    ASSUME NEW S, NEW r, NEW K, Serves(S, r, K), NEW s \in S,
           NEW o \in GithubHandleRequest(conf.events[r], s, r)
    PROVE  o \in Outcomes(S, K)
<1> DEFINE e == conf.events[r]
<1>1. e.pr = Pr(r)
  BY CommandsOf
<1>2. \A x \in HandleCommentsOnPr(e, s) : x \in Outcomes(S, K)
  BY UnreadRefused, UnreadComment, CommandsOf DEF HandleCommentsOnPr
<1>3. \A x \in HandleNewPrOpened(e, s, r) : x \in Outcomes(S, K)
  BY <1>1, NewPrIn
<1>4. \A x \in HandlePushTrigger(e, s, r) : x \in Outcomes(S, K)
  BY <1>1, PushIn
<1> HIDE DEF e
<1>5. \/ o = Refuse(Unread(s)) \/ o \in HandleCommentsOnPr(e, s)
      \/ o \in HandleNewPrOpened(e, s, r) \/ o \in HandlePushTrigger(e, s, r)
  BY DEF GithubHandleRequest, e
<1> QED BY <1>2, <1>3, <1>4, <1>5, UnreadRefused

\* The other webhooks.
LEMMA GitlabCommandsIn ==
    ASSUME NEW S, NEW r, NEW K, Serves(S, r, K), NEW s \in S, NEW state \in Reads, NEW kind,
           NEW e, e.pr = Pr(r), NEW o \in PerformCommandsGitlab(e, s, state, kind, r)
    PROVE  o \in Outcomes(S, K)
BY ApplyIn, RefuseIn, AutoIn, CommandsOf DEF PerformCommandsGitlab

LEMMA GitlabIn ==
    ASSUME NEW S, NEW r, NEW K, Serves(S, r, K), NEW s \in S,
           NEW o \in GitlabWebhook(conf.events[r], s, r)
    PROVE  o \in Outcomes(S, K)
<1> DEFINE e == conf.events[r]
<1>1. e.pr = Pr(r)
  BY CommandsOf
<1>2. \A x \in PerformCommandsGitlab(e, s, "unread", "pr", r) : x \in Outcomes(S, K)
  BY <1>1, GitlabCommandsIn, UnreadState
<1>3. ASSUME NEW a \in ApplyRepoSettings(e.pr, s, "unread"),
             \/ o \in {Refuse(a)}
             \/ o \in Broken(PerformCommandsGitlab(e, a.s, a.state, "push", r), a)
      PROVE  o \in Outcomes(S, K)
  <2>1. a \in Applied(S)
    BY <1>1, ApplyIn, UnreadState
  <2>2. PerformCommandsGitlab(e, a.s, a.state, "push", r) \subseteq Outcomes(S, K)
    BY <1>1, <2>1, GitlabCommandsIn, AppliedHas
  <2> QED BY <1>3, <2>1, <2>2, RefuseIn, BrokenIn
<1>4. \A c \in HandleAskLine(e) : CommentCommand(Unread(s), c) \in Outcomes(S, K)
  BY UnreadComment, CommandsOf DEF HandleAskLine
<1> HIDE DEF e
<1>5. \/ o = Refuse(Unread(s)) \/ o \in PerformCommandsGitlab(e, s, "unread", "pr", r)
      \/ \E c \in HandleAskLine(e) : o = CommentCommand(Unread(s), c)
      \/ \E a \in ApplyRepoSettings(e.pr, s, "unread") :
            \/ o \in {Refuse(a)}
            \/ o \in Broken(PerformCommandsGitlab(e, a.s, a.state, "push", r), a)
  BY DEF GitlabWebhook, e
<1> QED BY <1>2, <1>3, <1>4, <1>5, UnreadRefused

LEMMA BitbucketCommandsIn ==
    ASSUME NEW S, NEW r, NEW K, Serves(S, r, K), NEW s \in S, NEW kind,
           NEW e, e.pr = Pr(r), NEW o \in PerformCommandsBitbucket(e, s, kind, r)
    PROVE  o \in Outcomes(S, K)
<1>1. PICK a \in ApplyRepoSettings(e.pr, s, "unread"), commands \in {<<>>, Commands(kind)} :
         o = Refuse(a) \/ o = AutoCommands(a, commands, r)
  BY DEF PerformCommandsBitbucket
<1>2. a \in Applied(S)
  BY ApplyIn, UnreadState
<1>3. <<>> \in Seq(Cmds(K)) /\ Commands(kind) \in Seq(Cmds(K))
  BY CommandsOf
<1> QED BY <1>1, <1>2, <1>3, RefuseIn, AutoIn

LEMMA BitbucketIn ==
    ASSUME NEW S, NEW r, NEW K, Serves(S, r, K), NEW s \in S,
           NEW o \in BitbucketWebhook(conf.events[r], s, r)
    PROVE  o \in Outcomes(S, K)
BY UnreadRefused, UnreadComment, BitbucketCommandsIn, CommandsOf DEF BitbucketWebhook

LEMMA BitbucketServerIn ==
    ASSUME NEW S, NEW r, NEW K, Serves(S, r, K), NEW s \in S,
           NEW o \in BitbucketServerWebhook(conf.events[r], s, r)
    PROVE  o \in Outcomes(S, K)
<1> DEFINE e == conf.events[r]
<1>1. e.pr = Pr(r) /\ e.command \in Cmds(K)
  BY CommandsOf
<1>2. /\ conf.prCommands \in Seq(Cmds(K)) /\ conf.pushCommands \in Seq(Cmds(K))
      /\ <<>> \in Seq(Cmds(K))
  BY DeploymentIs DEF Serves
<1>3. ASSUME NEW a \in ApplyRepoSettings(e.pr, s, "unread"),
             NEW commands \in {conf.prCommands, conf.pushCommands, <<>>},
             o = Refuse(a) \/ o = AutoCommands(a, commands, r)
      PROVE  o \in Outcomes(S, K)
  BY <1>1, <1>2, <1>3, ApplyIn, RefuseIn, AutoIn, UnreadState
<1> HIDE DEF e
<1>4. \/ o = Refuse(Unread(s)) \/ o = CommentCommand(Unread(s), e.command)
      \/ \E a \in ApplyRepoSettings(e.pr, s, "unread"),
            commands \in {conf.prCommands, conf.pushCommands, <<>>} :
               o = Refuse(a) \/ o = AutoCommands(a, commands, r)
  BY DEF BitbucketServerWebhook, e
<1> QED BY <1>1, <1>3, <1>4, UnreadRefused, UnreadComment

LEMMA AzureIn ==
    ASSUME NEW S, NEW r, NEW K, Serves(S, r, K), NEW s \in S,
           NEW o \in HandleRequestAzure(conf.events[r], s, r)
    PROVE  o \in Outcomes(S, K)
<1> DEFINE e == conf.events[r]
<1>1. e.pr = Pr(r) /\ conf.prCommands \in Seq(Cmds(K))
  BY CommandsOf, DeploymentIs DEF Serves
<1>2. \A x \in PerformCommandsAzure(e, s, r) : x \in Outcomes(S, K)
  BY <1>1, ApplyIn, RefuseIn, AutoIn, UnreadState DEF PerformCommandsAzure
<1>3. \A x \in HandleRequestComment(e, s) : x \in Outcomes(S, K)
  BY UnreadRefused, UnreadComment, CommandsOf DEF HandleRequestComment, HandleLineComment
<1> QED BY <1>2, <1>3, UnreadRefused DEF HandleRequestAzure

LEMMA GiteaIn ==
    ASSUME NEW S, NEW r, NEW K, Serves(S, r, K), NEW s \in S,
           NEW o \in GiteaHandleRequest(conf.events[r], s, r)
    PROVE  o \in Outcomes(S, K)
<1> DEFINE e == conf.events[r]
<1>1. e.pr = Pr(r)
  BY CommandsOf
<1>2. \A kind : \A x \in PerformCommandsGitea(e, s, kind, r) : x \in Outcomes(S, K)
  BY <1>1, ApplyIn, RefuseIn, AutoIn, CommandsOf, UnreadState DEF PerformCommandsGitea
<1>3. \A x \in HandlePrEvent(e, s, r) : x \in Outcomes(S, K)
  BY <1>2, UnreadRefused DEF HandlePrEvent
<1>4. \A x \in HandleCommentEvent(e, s) : x \in Outcomes(S, K)
  BY UnreadRefused, UnreadComment, CommandsOf DEF HandleCommentEvent
<1> QED BY <1>3, <1>4, UnreadRefused DEF GiteaHandleRequest

\* The others.
LEMMA GerritIn ==
    ASSUME NEW S, NEW r, NEW K, Serves(S, r, K), NEW s \in S,
           NEW o \in HandleGerritRequest(conf.events[r], s)
    PROVE  o \in Outcomes(S, K)
<1> DEFINE e == conf.events[r]
           c == [e.command EXCEPT !.known = e.command.known /\ "no text" \notin e.facts]
<1>1. c \in Cmds(K)
  <2>1. e.command \in Cmds(K)
    BY CommandsOf
  <2> QED BY <2>1 DEF Cmds, Command
<1>2. o = Refuse(Unread(s)) \/ o = CommentCommand(Unread(s), c)
  BY DEF HandleGerritRequest
<1> QED BY <1>1, <1>2, UnreadRefused, UnreadComment

LEMMA ActionIn ==
    ASSUME NEW S, NEW r, NEW K, Serves(S, r, K), NEW s \in S,
           NEW o \in RunAction(conf.events[r], s, r)
    PROVE  o \in Outcomes(S, K)
<1> DEFINE e == conf.events[r]
           first == IF e.kind = "comment" THEN {Unread(s)}
                    ELSE ApplyRepoSettings(e.pr, s, "unread")
<1>1. \A a \in first : a \in Applied(S)
  BY ApplyIn, UnreadIn, CommandsOf, UnreadState
<1>2. PICK a \in first : \/ o = CommentCommand(a, HandleLineComments(e))
                        \/ o = Refuse(a)
                        \/ o = AutoCommands(a, conf.prCommands, r)
  BY Zenon DEF RunAction
<1>3. HandleLineComments(e) \in Cmds(K) /\ conf.prCommands \in Seq(Cmds(K))
  BY CommandsOf, DeploymentIs DEF Serves
<1> QED BY <1>1, <1>2, <1>3, RefuseIn, CommentIn, AutoIn

LEMMA PollingIn ==
    ASSUME NEW S, NEW r, NEW K, Serves(S, r, K), NEW s \in S,
           NEW o \in ProcessCommentSync(conf.events[r], s)
    PROVE  o \in Outcomes(S, K)
BY UnreadRefused, UnreadComment, CommandsOf DEF ProcessCommentSync

LEMMA CliIn ==
    ASSUME NEW S, NEW r, NEW K, Serves(S, r, K), NEW s \in S,
           NEW o \in CliRun(conf.events[r], s)
    PROVE  o \in Outcomes(S, K)
BY UnreadComment, CommandsOf DEF CliRun

LEMMA MosaicoIn ==
    ASSUME NEW S, NEW r, NEW K, Serves(S, r, K), conf.server = "mosaico", NEW s \in S,
           NEW o \in RouteAndRun(conf.events[r], s)
    PROVE  o \in Outcomes(S, K)
<1> DEFINE e == conf.events[r]
           c == [e.command EXCEPT !.keys = {"publish"}]
<1>1. c \in Cmds(K)
  <2>1. e.command \in Cmds(K) /\ "publish" \in K
    BY CommandsOf DEF Serves
  <2> QED BY <2>1 DEF Cmds, Command, FileKeys
<1>2. o = Refuse(Unread(s)) \/ o = CommentCommand(Unread(s), c)
  BY DEF RouteAndRun
<1> QED BY <1>1, <1>2, UnreadRefused, UnreadComment

\* Whatever server handles request r, it makes an outcome over S.
LEMMA HandledIn ==
    ASSUME NEW S, NEW r, NEW K, Serves(S, r, K), settings[Global] \in S,
           NEW o \in Handled(r)
    PROVE  o \in Outcomes(S, K)
<1>1. conf.server \in {"github", "gitlab", "bitbucket", "bitbucket_server", "azure",
                       "gitea", "gerrit", "polling", "action", "cli", "mosaico"}
  BY DEF Serves, Deployment, Servers, Webhooks
<1>2. CASE conf.server = "github"
  BY <1>2, GithubIn DEF Handled
<1>3. CASE conf.server = "gitlab"
  BY <1>3, GitlabIn DEF Handled
<1>4. CASE conf.server = "bitbucket"
  BY <1>4, BitbucketIn DEF Handled
<1>5. CASE conf.server = "bitbucket_server"
  BY <1>5, BitbucketServerIn DEF Handled
<1>6. CASE conf.server = "azure"
  BY <1>6, AzureIn DEF Handled
<1>7. CASE conf.server = "gitea"
  BY <1>7, GiteaIn DEF Handled
<1>8. CASE conf.server = "gerrit"
  BY <1>8, GerritIn DEF Handled
<1>9. CASE conf.server = "polling"
  BY <1>9, PollingIn DEF Handled
<1>10. CASE conf.server = "action"
  BY <1>10, ActionIn DEF Handled
<1>11. CASE conf.server = "cli"
  BY <1>11, CliIn DEF Handled
<1>12. CASE conf.server = "mosaico"
  BY <1>12, MosaicoIn DEF Handled
<1> QED BY <1>1, <1>2, <1>3, <1>4, <1>5, <1>6, <1>7, <1>8, <1>9, <1>10, <1>11, <1>12

-----------------------------------------------------------------------------
\* So does the agent, for each command.

LEMMA AgentIn ==
    ASSUME NEW S, NEW r, NEW K, Serves(S, r, K), NEW s \in S, NEW state \in Reads,
           NEW c \in Cmds(K), NEW o \in AgentHandleRequest(Pr(r), c, s, state, r)
    PROVE  o \in Results(S)
<1>1. PICK a \in ApplyRepoSettings(Pr(r), s, state) :
         \E x \in {a.s, UpdateSettingsFromArgs(a.s, c, r)} :
            o = Started(a, x, TRUE) \/ o = Started(a, x, FALSE)
  BY DEF AgentHandleRequest
<1>2. a.s \in S /\ a.state \in Reads
  BY ApplyIn, AppliedHas
<1>3. UpdateSettingsFromArgs(a.s, c, r) \in S
  BY <1>2 DEF Serves, Closed
<1>4. \A x \in S : Started(a, x, TRUE) \in Results(S) /\ Started(a, x, FALSE) \in Results(S)
  BY <1>2 DEF Started, Results
<1> QED BY <1>1, <1>2, <1>3, <1>4

LEMMA ArgsIn ==
    ASSUME NEW S, NEW r, NEW K, Serves(S, r, K), NEW s \in S, NEW c \in Cmds(K)
    PROVE  UpdateSettingsFromArgs(s, c, r) \in S /\ Bare(c) \in Cmds(K)
BY DEF Serves, Closed, Bare, Cmds, Command

LEMMA ToldIn ==
    ASSUME NEW S, NEW s \in S, NEW state \in Reads, NEW ok \in BOOLEAN
    PROVE  [s |-> s, repo |-> state, broken |-> FALSE, started |-> ok] \in Results(S)
<1>1. CASE ok = TRUE
  BY <1>1 DEF Results
<1>2. CASE ok = FALSE
  BY <1>2 DEF Results
<1> QED BY <1>1, <1>2

LEMMA RunIn ==
    ASSUME NEW S, NEW r, NEW K, Serves(S, r, K), settings[Store(r)] \in S,
           req[r].repo \in Reads, NEW c \in Cmds(K), NEW o \in Run(r, c)
    PROVE  o \in Results(S)
<1> DEFINE s == settings[Store(r)]
<1>1. conf.events[r].pr = Pr(r)
  BY DEF Pr
<1>2. UpdateSettingsFromArgs(s, c, r) \in S /\ Bare(c) \in Cmds(K)
  BY ArgsIn
<1>3. CASE conf.server = "bitbucket_server"
  <2>1. PICK a \in ApplyRepoSettings(Pr(r), s, req[r].repo) :
           \/ o = Started(a, a.s, FALSE)
           \/ o \in Broken(AgentHandleRequest(Pr(r), Bare(c),
                       UpdateSettingsFromArgs(a.s, c, r), a.state, r), a)
    BY <1>1, <1>3 DEF Run, ProcessCommand
  <2>2. a.s \in S /\ a.state \in Reads
    BY ApplyIn, AppliedHas
  <2>3. AgentHandleRequest(Pr(r), Bare(c), UpdateSettingsFromArgs(a.s, c, r), a.state, r)
        \subseteq Results(S)
    BY <1>2, <2>2, ArgsIn, AgentIn
  <2>4. Started(a, a.s, FALSE) \in Results(S)
    BY <2>2 DEF Started, Results
  <2> QED BY <2>1, <2>3, <2>4, BrokenResultIn
<1>4. CASE conf.server = "mosaico"
  <2>1. CASE c.tool = "ask"
    <3>1. \E ok \in BOOLEAN :
             o = [s |-> UpdateSettingsFromArgs(s, c, r), repo |-> "unread",
                  broken |-> FALSE, started |-> ok]
      BY <1>4, <2>1 DEF Run, MosaicoRun, RunAsk
    <3> QED BY <1>2, <3>1, UnreadState, ToldIn
  <2>2. CASE c.tool # "ask"
    <3>1. \E state \in Reads : o \in AgentHandleRequest(Pr(r), c, s, state, r)
      BY <1>1, <1>4, <2>2 DEF Run, MosaicoRun, RunGarda, Reads
    <3> QED BY <3>1, AgentIn
  <2> QED BY <2>1, <2>2
<1>5. CASE conf.server = "action" /\ req[r].auto
  <2>1. \E ok \in BOOLEAN :
           o = [s |-> s, repo |-> req[r].repo, broken |-> FALSE, started |-> ok]
    BY <1>5 DEF Run
  <2> QED BY <2>1, ToldIn
<1>6. CASE /\ conf.server \notin {"bitbucket_server", "mosaico"}
           /\ ~(conf.server = "action" /\ req[r].auto)
  <2>1. \/ o \in AgentHandleRequest(Pr(r), Bare(c), UpdateSettingsFromArgs(s, c, r),
                                    req[r].repo, r)
        \/ o \in AgentHandleRequest(Pr(r), c, s, req[r].repo, r)
    BY <1>1, <1>6 DEF Run
  <2> QED BY <1>2, <2>1, AgentIn
<1> QED BY <1>3, <1>4, <1>5, <1>6

-----------------------------------------------------------------------------
\* Two closed sets: all stores, and those in which no request has turned
\* publishing off.

LEMMA StoresClosed ==
    ASSUME NEW r \in Requests, Pr(r) \in PRs, NEW K
    PROVE  Closed(StoreType, r, K)
<1>1. /\ Env \in Values /\ Extra \in Values /\ File(Pr(r)) \in Values
      /\ Args(r) \in Values /\ Tickets(Pr(r)) \in Values
  BY DEF Values
<1>2. \A s \in StoreType : /\ \A keys : ApplySettingsFromFile(s, keys) \in StoreType
                           /\ \A f : MergeRepoFile(s, Pr(r), f) \in StoreType
  BY <1>1, ExtraKeeps, FileKeeps DEF StoreType
<1>3. \A s \in StoreType : \A keys : /\ Layer(s, keys, Args(r)) \in StoreType
                                     /\ Layer(s, keys, Tickets(Pr(r))) \in StoreType
  BY <1>1, LayerKeeps DEF StoreType
<1> QED BY <1>2, <1>3 DEF Closed, UpdateSettingsFromArgs

Loud == {s \in StoreType : Publishes(s)}

LEMMA OwnValues ==
    ASSUME NEW q
    PROVE  /\ Args(q) # Env /\ Args(q) # Extra /\ Args(q) # Default
           /\ \A p : Args(q) # File(p)
BY DEF Args, Env, Extra, Default, File

LEMMA LoudClosed ==
    ASSUME NEW r \in Requests, Pr(r) \in PRs, NEW K, "publish" \notin K
    PROVE  Closed(Loud, r, K)
<1>1. Closed(StoreType, r, K)
  BY StoresClosed
<1>3. \A p : {Env, Extra, File(p)} \cap {Args(q) : q \in Requests} = {}
  BY OwnValues
<1>4. \A s : Publishes(s) => \A keys, v : v \notin {Args(q) : q \in Requests} \/ "publish" \notin keys
                                   => Publishes(Layer(s, keys, v))
  BY DEF Publishes, Layer, Keys, FileKeys
<1>5. \A s : Publishes(s) => \A keys : Publishes(ApplySettingsFromFile(s, keys))
  BY <1>3, <1>4 DEF ApplySettingsFromFile, ReapplyEnvOverrides
<1>6. \A s : Publishes(s) => \A f : Publishes(MergeRepoFile(s, Pr(r), f))
  BY <1>3, <1>4 DEF MergeRepoFile, ReapplyEnvOverrides
<1>7. \A s : Publishes(s) => /\ Publishes(Layer(s, {"is_auto"}, Args(r)))
                             /\ Publishes(Layer(s, {"tickets"}, Tickets(Pr(r))))
  BY <1>4
<1>8. \A s : Publishes(s) => \A c \in Cmds(K) : Publishes(UpdateSettingsFromArgs(s, c, r))
  BY <1>4 DEF UpdateSettingsFromArgs, Cmds
<1> QED BY <1>1, <1>5, <1>6, <1>7, <1>8 DEF Closed, Loud

-----------------------------------------------------------------------------
\* Descriptions.

\* Of some natural numbers one is the least.
LEMMA LeastExists ==
    ASSUME NEW T, T \subseteq Nat, T # {}
    PROVE  \E x \in T : \A y \in T : x <= y
<1> DEFINE R == {ss \in Nat \X Nat : ss[1] < ss[2]}
<1>1. IsWellFoundedOn(R, Nat)
  BY NatLessThanWellFounded DEF OpToRel
<1>2. \A x, y \in Nat : y < x => <<y, x>> \in R
  OBVIOUS
<1> HIDE DEF R
<1>3. PICK x \in T : \A y \in T : ~ (<<y, x>> \in R)
  BY <1>1, WFMin
<1>4. \A y \in T : ~(y < x)
  BY <1>2, <1>3
<1> QED BY <1>4

\* What Find finds.
Found(b, t, i) ==
    /\ i \in 1 .. Len(b) + 1
    /\ i = Len(b) + 1 \/ b[i] = t
    /\ \A j \in 1 .. i - 1 : b[j] # t

LEMMA FindFinds ==
    ASSUME NEW S, NEW b \in Seq(S), NEW t
    PROVE  Found(b, t, Find(b, t))
<1> DEFINE T == {j \in 1 .. Len(b) + 1 : j = Len(b) + 1 \/ b[j] = t}
<1>1. PICK i \in T : \A j \in T : i <= j
  <2>1. T \subseteq Nat /\ Len(b) + 1 \in T
    OBVIOUS
  <2> QED BY <2>1, LeastExists
<1>2. \A j \in 1 .. i - 1 : b[j] # t
  BY <1>1
<1>3. Found(b, t, i)
  BY <1>1, <1>2 DEF Found
<1> QED BY <1>3 DEF Find, Found

\* There is only one such place.
LEMMA FindIs ==
    ASSUME NEW S, NEW b \in Seq(S), NEW t, NEW i, Found(b, t, i)
    PROVE  Find(b, t) = i
<1>1. Found(b, t, Find(b, t))
  BY FindFinds
<1>2. ~(i < Find(b, t)) /\ ~(Find(b, t) < i)
  BY <1>1 DEF Found
<1> QED BY <1>1, <1>2 DEF Found

LEMMA PartOf ==
    ASSUME NEW S, NEW b \in Seq(S), NEW m \in Nat, NEW n \in Int, n <= Len(b), m >= 1
    PROVE  SubSeq(b, m, n) \in Seq(S)
OBVIOUS

LEMMA RuleOff ==
    ASSUME NEW S, NEW b \in Seq(S)
    PROVE  WithoutRule(b) \in Seq(S)
BY DEF WithoutRule, Front

LEMMA UserTextIn ==
    ASSUME NEW S, NEW b \in Seq(S)
    PROVE  GetUserDescription(b) \in Seq(S)
<1> DEFINE start == Find(b, "USER")
           stop == IF Find(b, "TYPE") < Find(b, "DESC")
                   THEN Find(b, "TYPE") ELSE Find(b, "DESC")
           head == SubSeq(b, 1, Find(b, "rule") - 1)
<1>1. \A t : Find(b, t) \in 1 .. Len(b) + 1
  BY FindFinds DEF Found
<1>2. head \in Seq(S)
  BY <1>1, PartOf
<1>3. SubSeq(b, start + 1, stop - 1) \in Seq(S)
  BY <1>1, PartOf
<1>4. WithoutRule(SubSeq(b, start + 1, stop - 1)) \in Seq(S)
  BY <1>3, RuleOff
<1>5. head # <<>> => Tail(head) \in Seq(S)
  BY <1>2
<1> HIDE DEF start, stop, head
<1> QED BY <1>2, <1>4, <1>5 DEF GetUserDescription, start, stop, head

LEMMA SectionOver ==
    ASSUME NEW S, NEW keys, NEW k, NEW heading, NEW written \in Seq(S), NEW later,
           k \in keys => heading \in S, "rule" \in S
    PROVE  Section(keys, k, heading, written, later) \in Seq(S)
<1>1. k \in keys => <<heading>> \in Seq(S)
  OBVIOUS
<1>2. <<"rule">> \in Seq(S) /\ <<>> \in Seq(S)
  OBVIOUS
<1> QED BY <1>1, <1>2 DEF Section

\* A generated description is made of the user's text, what the model writes and
\* the headings of the keys that are there.
LEMMA AnswerOver ==
    ASSUME NEW S, NEW text \in Seq(S), NEW answer,
           text # <<>> => "USER" \in S,
           "type" \in PrepareData(text, answer) => "TYPE" \in S,
           "description" \in PrepareData(text, answer) => "DESC" \in S,
           {"DIAGRAM", "FILES", "rule", "ai"} \subseteq S, "user" \notin answer
    PROVE  PreparePrAnswer(text, answer) \in Seq(S)
<1> DEFINE keys == PrepareData(text, answer)
           u == Section(keys, "user", "USER", text, {"type", "description", "diagram", "files"})
           t == Section(keys, "type", "TYPE", <<"ai">>, {"description", "diagram", "files"})
           d == Section(keys, "description", "DESC", <<"ai">>, {"diagram", "files"})
           g == Section(keys, "diagram", "DIAGRAM", <<"ai">>, {})
           f == IF "files" \in answer THEN <<"FILES", "rule">> ELSE <<"rule">>
<1>1. <<"ai">> \in Seq(S) /\ f \in Seq(S)
  OBVIOUS
<1>2. "user" \in keys => "USER" \in S
  BY DEF PrepareData
<1>3. u \in Seq(S) /\ t \in Seq(S) /\ d \in Seq(S) /\ g \in Seq(S)
  BY <1>1, <1>2, SectionOver
<1>4. PreparePrAnswer(text, answer) = u \o t \o d \o g \o f
  BY DEF PreparePrAnswer
<1> HIDE DEF u, t, d, g, f
<1> QED BY <1>1, <1>3, <1>4

LEMMA JoinedHas ==
    ASSUME NEW S, NEW u \in Seq(S), NEW v \in Seq(S)
    PROVE  /\ Len(u \o v) = Len(u) + Len(v)
           /\ \A i \in 1 .. Len(u) : (u \o v)[i] = u[i]
           /\ \A i \in 1 .. Len(v) : (u \o v)[Len(u) + i] = v[i]
OBVIOUS

\* A section that is there begins with its heading.
LEMMA SectionBegins ==
    ASSUME NEW S, NEW keys, NEW k \in keys, NEW heading \in S, NEW written \in Seq(S),
           NEW later, "rule" \in S
    PROVE  \E s : /\ s = Section(keys, k, heading, written, later)
                  /\ Len(s) >= 1 + Len(written) /\ s[1] = heading
                  /\ \A i \in 1 .. Len(written) : s[1 + i] = written[i]
                  /\ keys \cap later # {} =>
                        Len(s) = Len(written) + 2 /\ s[Len(written) + 2] = "rule"
<1> DEFINE w == <<heading>> \o written
           z == IF keys \cap later # {} THEN <<"rule">> ELSE <<>>
<1>1. /\ w \in Seq(S) /\ Len(w) = 1 + Len(written) /\ w[1] = heading
      /\ \A i \in 1 .. Len(written) : w[1 + i] = written[i]
  OBVIOUS
<1>2. z \in Seq(S)
  OBVIOUS
<1>3. Section(keys, k, heading, written, later) = w \o z
  BY DEF Section
<1> HIDE DEF w
<1>4. keys \cap later # {} => Len(z) = 1 /\ z[1] = "rule"
  OBVIOUS
<1> HIDE DEF z
<1>5. /\ Len(w \o z) = Len(w) + Len(z)
      /\ \A i \in 1 .. Len(w) : (w \o z)[i] = w[i]
      /\ \A i \in 1 .. Len(z) : (w \o z)[Len(w) + i] = z[i]
  <2>1. w \in Seq(S) /\ z \in Seq(S)
    BY <1>1, <1>2
  <2> QED BY <2>1, JoinedHas
<1>6. 1 \in 1 .. Len(w) /\ \A i \in 1 .. Len(written) : 1 + i \in 1 .. Len(w)
  BY <1>1
<1>7. keys \cap later # {} =>
         Len(w \o z) = Len(written) + 2 /\ (w \o z)[Len(written) + 2] = "rule"
  BY <1>1, <1>2, <1>4, <1>5
<1>8. Len(w \o z) >= 1 + Len(written)
  BY <1>1, <1>2, <1>5
<1> QED BY <1>1, <1>3, <1>5, <1>6, <1>7, <1>8

\* What the model wrote begins with its heading as well.
LEMMA AiSectionBegins ==
    ASSUME NEW keys, NEW k \in keys, NEW heading, NEW later
    PROVE  /\ Len(Section(keys, k, heading, <<"ai">>, later)) >= 1
           /\ Section(keys, k, heading, <<"ai">>, later)[1] = heading
<1> DEFINE x == Section(keys, k, heading, <<"ai">>, later)
<1>1. x = <<heading>> \o <<"ai">> \o <<"rule">> \/ x = <<heading>> \o <<"ai">> \o <<>>
  BY DEF Section
<1>2. CASE x = <<heading>> \o <<"ai">> \o <<"rule">>
  BY <1>2
<1>3. CASE x = <<heading>> \o <<"ai">> \o <<>>
  BY <1>3
<1> QED BY <1>1, <1>2, <1>3

LEMMA WithoutTheRule ==
    ASSUME NEW S, NEW q \in Seq(S), NEW text \in Seq(S), Len(q) = Len(text) + 1,
           q[Len(q)] = "rule", \A i \in 1 .. Len(text) : q[i] = text[i]
    PROVE  WithoutRule(q) = text
<1>1. q # <<>> /\ Last(q) = "rule"
  BY DEF Last
<1>2. SubSeq(q, 1, Len(q) - 1) = text
  OBVIOUS
<1> QED BY <1>1, <1>2 DEF WithoutRule, Front

\* What comes behind the user's section begins with a heading, when one of the
\* two is there at all.
LEMMA AnswerBegins ==
    ASSUME NEW text \in Seq(Pieces \ Headers), NEW answer, "user" \notin answer,
           ToSet(PreparePrAnswer(text, answer)) \cap {"TYPE", "DESC"} # {}
    PROVE  \E keys, u, b :
              /\ keys = PrepareData(text, answer)
              /\ u = Section(keys, "user", "USER", text,
                             {"type", "description", "diagram", "files"})
              /\ b = PreparePrAnswer(text, answer)
              /\ keys \cap {"type", "description"} # {}
              /\ u \in Seq(Pieces) /\ b \in Seq(Pieces) /\ Len(b) > Len(u)
              /\ \A i \in 1 .. Len(u) : b[i] = u[i]
              /\ b[Len(u) + 1] \in {"TYPE", "DESC"}
<1> DEFINE keys == PrepareData(text, answer)
           b == PreparePrAnswer(text, answer)
           u == Section(keys, "user", "USER", text, {"type", "description", "diagram", "files"})
           t == Section(keys, "type", "TYPE", <<"ai">>, {"description", "diagram", "files"})
           d == Section(keys, "description", "DESC", <<"ai">>, {"diagram", "files"})
           g == Section(keys, "diagram", "DIAGRAM", <<"ai">>, {})
           f == IF "files" \in answer THEN <<"FILES", "rule">> ELSE <<"rule">>
<1>1. /\ {"DIAGRAM", "FILES", "rule", "ai", "USER", "TYPE", "DESC"} \subseteq Pieces
      /\ {"DIAGRAM", "FILES", "rule", "ai", "USER"} \cap {"TYPE", "DESC"} = {}
  BY DEF Pieces, Headers
<1>2. text \in Seq(Pieces) /\ text \in Seq(Pieces \ {"TYPE", "DESC"})
  <2>1. \A i \in DOMAIN text : text[i] \in Pieces /\ text[i] \in Pieces \ {"TYPE", "DESC"}
    BY DEF Headers
  <2> QED BY <2>1, SeqOver
<1>3. keys \cap {"type", "description"} # {}
  <2> SUFFICES ASSUME keys \cap {"type", "description"} = {} PROVE FALSE
    OBVIOUS
  <2>1. b \in Seq(Pieces \ {"TYPE", "DESC"})
    BY <1>1, <1>2, AnswerOver
  <2>2. \A i \in DOMAIN b : b[i] \notin {"TYPE", "DESC"}
    BY <2>1
  <2> QED BY <2>2 DEF ToSet
<1>4. /\ u \in Seq(Pieces) /\ t \in Seq(Pieces) /\ d \in Seq(Pieces) /\ g \in Seq(Pieces)
      /\ f \in Seq(Pieces)
  <2>1. <<"ai">> \in Seq(Pieces) /\ f \in Seq(Pieces)
    BY <1>1
  <2> QED BY <1>1, <1>2, <2>1, SectionOver
<1>5. "type" \in keys => Len(t) >= 1 /\ t[1] = "TYPE"
  BY AiSectionBegins
<1>6. "description" \in keys => Len(d) >= 1 /\ d[1] = "DESC"
  BY AiSectionBegins
<1>7. "type" \notin keys => t = <<>>
  BY DEF Section
<1>8. b = u \o t \o d \o g \o f
  BY DEF PreparePrAnswer
<1> HIDE DEF u, t, d, g, f, b
<1> DEFINE x == u \o t
           y == x \o d
           z == y \o g
<1>9. /\ x \in Seq(Pieces) /\ Len(x) = Len(u) + Len(t)
      /\ \A i \in 1 .. Len(u) : x[i] = u[i]
      /\ \A i \in 1 .. Len(t) : x[Len(u) + i] = t[i]
  BY <1>4, JoinedHas
<1> HIDE DEF x
<1>10. /\ y \in Seq(Pieces) /\ Len(y) = Len(x) + Len(d)
       /\ \A i \in 1 .. Len(x) : y[i] = x[i]
       /\ \A i \in 1 .. Len(d) : y[Len(x) + i] = d[i]
  <2>1. x \in Seq(Pieces) /\ d \in Seq(Pieces)
    BY <1>4, <1>9
  <2> QED BY <2>1, JoinedHas
<1> HIDE DEF y
<1>11. z \in Seq(Pieces) /\ Len(z) = Len(y) + Len(g) /\ \A i \in 1 .. Len(y) : z[i] = y[i]
  <2>1. y \in Seq(Pieces) /\ g \in Seq(Pieces)
    BY <1>4, <1>10
  <2> QED BY <2>1, JoinedHas
<1> HIDE DEF z
<1>12. b \in Seq(Pieces) /\ Len(b) = Len(z) + Len(f) /\ \A i \in 1 .. Len(z) : b[i] = z[i]
  <2>1. b = z \o f
    BY <1>8 DEF z, y, x
  <2>2. z \in Seq(Pieces) /\ f \in Seq(Pieces)
    BY <1>4, <1>11
  <2> QED BY <2>1, <2>2, JoinedHas
<1>13. /\ Len(u) \in Nat /\ Len(t) \in Nat /\ Len(d) \in Nat /\ Len(g) \in Nat
       /\ Len(f) \in Nat
  BY <1>4
<1>14. \A i \in 1 .. Len(u) : b[i] = u[i]
  <2> TAKE i \in 1 .. Len(u)
  <2>1. i \in 1 .. Len(x) /\ i \in 1 .. Len(y) /\ i \in 1 .. Len(z)
    BY <1>9, <1>10, <1>11, <1>13
  <2> QED BY <1>9, <1>10, <1>11, <1>12, <2>1
<1>15. ASSUME "type" \in keys
       PROVE  Len(b) > Len(u) /\ b[Len(u) + 1] = "TYPE"
  <2>1. /\ 1 \in 1 .. Len(t) /\ Len(u) + 1 \in 1 .. Len(x) /\ Len(u) + 1 \in 1 .. Len(y)
        /\ Len(u) + 1 \in 1 .. Len(z)
    BY <1>5, <1>9, <1>10, <1>11, <1>13, <1>15
  <2>2. b[Len(u) + 1] = "TYPE"
    BY <1>5, <1>9, <1>10, <1>11, <1>12, <1>15, <2>1
  <2> QED BY <1>9, <1>10, <1>11, <1>12, <1>13, <2>1, <2>2
<1>16. ASSUME "type" \notin keys
       PROVE  Len(b) > Len(u) /\ b[Len(u) + 1] = "DESC"
  <2>1. "description" \in keys /\ Len(t) = 0
    BY <1>3, <1>7, <1>16
  <2>2. /\ 1 \in 1 .. Len(d) /\ Len(x) = Len(u) /\ Len(u) + 1 \in 1 .. Len(y)
        /\ Len(u) + 1 \in 1 .. Len(z)
    BY <1>6, <1>9, <1>10, <1>11, <1>13, <2>1
  <2>3. b[Len(u) + 1] = "DESC"
    BY <1>6, <1>10, <1>11, <1>12, <2>1, <2>2
  <2> QED BY <1>9, <1>10, <1>11, <1>12, <1>13, <2>2, <2>3
<1>17. Len(b) > Len(u) /\ b[Len(u) + 1] \in {"TYPE", "DESC"}
  BY <1>15, <1>16
<1>18. u = Section(keys, "user", "USER", text, {"type", "description", "diagram", "files"})
  BY DEF u
<1>19. b = PreparePrAnswer(text, answer)
  BY DEF b
<1> HIDE DEF keys
<1>20. keys = PrepareData(text, answer)
  BY DEF keys
<1> QED BY <1>3, <1>4, <1>12, <1>14, <1>17, <1>18, <1>19, <1>20

\* Up to the end of the user's section there is no other heading.
LEMMA UserSectionIs ==
    ASSUME NEW text \in Seq(Pieces \ Headers), NEW keys, NEW u, "user" \in keys,
           keys \cap {"type", "description"} # {},
           u = Section(keys, "user", "USER", text, {"type", "description", "diagram", "files"})
    PROVE  /\ Len(u) = Len(text) + 2 /\ u[1] = "USER" /\ u[Len(text) + 2] = "rule"
           /\ \A i \in 1 .. Len(text) : u[1 + i] = text[i]
           /\ \A i \in 1 .. Len(u) : u[i] \notin {"TYPE", "DESC"}
<1>1. "USER" \in Pieces /\ "rule" \in Pieces /\ "rule" \notin Headers
  BY DEF Pieces, Headers
<1>2. text \in Seq(Pieces)
  <2>1. \A i \in DOMAIN text : text[i] \in Pieces
    OBVIOUS
  <2> QED BY <2>1, SeqOver
<1> DEFINE later == {"type", "description", "diagram", "files"}
<1>3. keys \cap later # {}
  OBVIOUS
<1> HIDE DEF later
<1>4. u = Section(keys, "user", "USER", text, later)
  BY DEF later
<1>5. /\ Len(u) = Len(text) + 2 /\ u[1] = "USER" /\ u[Len(text) + 2] = "rule"
      /\ \A i \in 1 .. Len(text) : u[1 + i] = text[i]
  BY <1>1, <1>2, <1>3, <1>4, SectionBegins
<1>6. ASSUME NEW i \in 1 .. Len(u)
      PROVE  u[i] \notin {"TYPE", "DESC"}
  <2>1. Len(text) \in Nat
    OBVIOUS
  <2>2. CASE i = 1
    BY <1>5, <2>2
  <2>3. CASE i = Len(text) + 2
    BY <1>5, <2>3
  <2>4. CASE i - 1 \in 1 .. Len(text)
    <3>1. u[1 + (i - 1)] = text[i - 1] /\ 1 + (i - 1) = i
      BY <1>5, <2>4
    <3>2. text[i - 1] \notin Headers
      BY <2>4
    <3> QED BY <3>1, <3>2 DEF Headers
  <2> QED BY <1>5, <2>1, <2>2, <2>3, <2>4
<1> QED BY <1>5, <1>6

\* What the author wrote is read back from what the tool makes of it
\* (_prepare_pr_answer, get_user_description), when a type or a description
\* follows it.
LEMMA AnswerReadBack ==
    ASSUME NEW text \in Seq(Pieces \ Headers), NEW answer, "user" \notin answer,
           ToSet(PreparePrAnswer(text, answer)) \cap {"TYPE", "DESC"} # {}
    PROVE  GetUserDescription(PreparePrAnswer(text, answer)) = text
<1> PICK keys, u, b :
       /\ keys = PrepareData(text, answer)
       /\ u = Section(keys, "user", "USER", text,
                      {"type", "description", "diagram", "files"})
       /\ b = PreparePrAnswer(text, answer)
       /\ keys \cap {"type", "description"} # {}
       /\ u \in Seq(Pieces) /\ b \in Seq(Pieces) /\ Len(b) > Len(u)
       /\ \A i \in 1 .. Len(u) : b[i] = u[i]
       /\ b[Len(u) + 1] \in {"TYPE", "DESC"}
  BY AnswerBegins
<1>1. Len(u) \in Nat /\ Len(b) \in Nat /\ Len(text) \in Nat
  OBVIOUS
<1>2. CASE text = <<>>
  <2>1. "user" \notin keys
    BY <1>2 DEF PrepareData
  <2>2. u = <<>>
    BY <2>1 DEF Section
  <2>3. b[1] \in Headers /\ b # <<>>
    BY <1>1, <2>2 DEF Headers
  <2>4. b \in Seq(Pieces \ {"USER"})
    <3>1. text \in Seq(Pieces \ {"USER"})
      BY <1>2
    <3>2. {"TYPE", "DESC", "DIAGRAM", "FILES", "rule", "ai"} \subseteq Pieces \ {"USER"}
      BY DEF Pieces, Headers
    <3>3. /\ {"DIAGRAM", "FILES", "rule", "ai"} \subseteq Pieces \ {"USER"}
          /\ "TYPE" \in Pieces \ {"USER"} /\ "DESC" \in Pieces \ {"USER"}
      BY <3>2
    <3>4. PreparePrAnswer(text, answer) \in Seq(Pieces \ {"USER"})
      <4> DEFINE S == Pieces \ {"USER"}
      <4> HIDE DEF S
      <4>1. PreparePrAnswer(text, answer) \in Seq(S)
        BY <1>2, <3>1, <3>3, AnswerOver DEF S
      <4> QED BY <4>1 DEF S
    <3> QED BY <3>4
  <2>5. \A i \in 1 .. Len(b) : b[i] # "USER"
    BY <2>4
  <2>6. Find(b, "USER") = Len(b) + 1
    <3>1. Found(b, "USER", Len(b) + 1)
      BY <1>1, <2>5 DEF Found
    <3> QED BY <3>1, FindIs
  <2> QED BY <1>1, <1>2, <2>3, <2>6 DEF GetUserDescription, IsGeneratedByGarda
<1>3. CASE text # <<>>
  <2>1. "user" \in keys
    BY <1>3 DEF PrepareData
  <2>2. /\ Len(u) = Len(text) + 2 /\ u[1] = "USER" /\ u[Len(text) + 2] = "rule"
        /\ \A i \in 1 .. Len(text) : u[1 + i] = text[i]
        /\ \A i \in 1 .. Len(u) : u[i] \notin {"TYPE", "DESC"}
    <3>1. /\ keys \cap {"type", "description"} # {}
          /\ u = Section(keys, "user", "USER", text,
                         {"type", "description", "diagram", "files"})
      OBVIOUS
    <3> QED BY <2>1, <3>1, UserSectionIs
  <2>3. b[1] = "USER" /\ IsGeneratedByGarda(b)
    BY <1>1, <2>2 DEF IsGeneratedByGarda, Headers
  <2>4. Find(b, "USER") = 1
    <3>1. Found(b, "USER", 1)
      BY <1>1, <2>3 DEF Found
    <3> QED BY <3>1, FindIs
  <2>5. \A t \in {"TYPE", "DESC"} : Find(b, t) \in Nat /\ Find(b, t) >= Len(u) + 1
    <3> TAKE t \in {"TYPE", "DESC"}
    <3>1. Found(b, t, Find(b, t))
      BY FindFinds
    <3> QED BY <1>1, <2>2, <3>1 DEF Found
  <2>6. \E t \in {"TYPE", "DESC"} : Find(b, t) = Len(u) + 1
    <3>1. PICK t \in {"TYPE", "DESC"} : b[Len(u) + 1] = t
      OBVIOUS
    <3>2. \A j \in 1 .. Len(u) : b[j] # t
      <4> TAKE j \in 1 .. Len(u)
      <4>1. b[j] = u[j]
        OBVIOUS
      <4>2. u[j] \notin {"TYPE", "DESC"}
        BY <2>2
      <4> QED BY <3>1, <4>1, <4>2
    <3>3. Len(u) + 1 \in 1 .. Len(b) + 1 /\ Len(u) + 1 - 1 = Len(u)
      BY <1>1
    <3>4. Found(b, t, Len(u) + 1)
      BY <3>1, <3>2, <3>3 DEF Found
    <3> QED BY <3>1, <3>4, FindIs
  <2>7. (IF Find(b, "TYPE") < Find(b, "DESC") THEN Find(b, "TYPE") ELSE Find(b, "DESC"))
        = Len(u) + 1
    BY <1>1, <2>5, <2>6
  <2> DEFINE q == SubSeq(b, 2, Len(u))
  <2>8. /\ q \in Seq(Pieces) /\ Len(q) = Len(text) + 1
        /\ \A i \in 1 .. Len(q) : q[i] = b[i + 1]
    BY <1>1, <2>2
  <2>9. q[Len(q)] = "rule" /\ \A i \in 1 .. Len(text) : q[i] = text[i]
    BY <1>1, <2>2, <2>8
  <2>10. text \in Seq(Pieces)
    <3>1. \A i \in DOMAIN text : text[i] \in Pieces
      OBVIOUS
    <3> QED BY <3>1, SeqOver
  <2> HIDE DEF q
  <2>11. WithoutRule(q) = text
    BY <2>8, <2>9, <2>10, WithoutTheRule
  <2>12. q = SubSeq(b, 1 + 1, Len(u) + 1 - 1)
    BY <1>1 DEF q
  <2> QED BY <1>1, <2>2, <2>3, <2>4, <2>7, <2>11, <2>12 DEF GetUserDescription
<1> QED BY <1>2, <1>3

\* The same where marks are replaced (_prepare_pr_answer_with_markers).
LEMMA MarkersReadBack ==
    ASSUME NEW text \in Seq(Pieces \ Headers), NEW answer, NEW b,
           b = PreparePrAnswerWithMarkers(text, answer)
    PROVE  /\ b \in Seq(Pieces \ Headers) /\ Len(b) = Len(text)
           /\ \A i \in 1 .. Len(text) : text[i] \notin Marks => b[i] = text[i]
<1>1. /\ Len(text) \in Nat /\ DOMAIN text = 1 .. Len(text)
      /\ \A i \in 1 .. Len(text) : text[i] \in Pieces \ Headers
  OBVIOUS
<1>2. DOMAIN b = 1 .. Len(text)
  BY <1>1 DEF PreparePrAnswerWithMarkers
<1>3. \A i \in 1 .. Len(text) : b[i] = text[i] \/ (text[i] \in Marks /\ b[i] \in {"ai", "FILES"})
  BY <1>1 DEF PreparePrAnswerWithMarkers, Marks
<1>4. {"ai", "FILES"} \subseteq Pieces \ Headers
  BY DEF Pieces, Headers
<1>5. b = [i \in 1 .. Len(text) |-> b[i]]
  BY <1>1 DEF PreparePrAnswerWithMarkers
<1>6. b \in [1 .. Len(text) -> Pieces \ Headers]
  BY <1>1, <1>3, <1>4, <1>5
<1> QED BY <1>1, <1>3, <1>6

\* A description that nobody generated is all the author's.
LEMMA NotGenerated ==
    ASSUME NEW b \in Seq(Pieces \ Headers)
    PROVE  GetUserDescription(b) = b
BY DEF GetUserDescription, IsGeneratedByGarda

-----------------------------------------------------------------------------
\* The types.

\* The options that a command may bring.
Options == AskedKeys \cup (IF conf.server = "mosaico" THEN {"publish"} ELSE {})

HostGood == {h \in Host : Len(h.commits) \in 1 .. MaxCommits}

RequestGood ==
    {q \in Request : /\ q.pc = "commands" => q.todo # <<>>
                     /\ q.pc \in {"made", "asked"} <=> q.cmd.tool # "none"
                     /\ q.todo \in Seq(Cmds(Options))}

\* The inductive invariant for the types: besides, only requests with an event
\* ever run, and their commands are those of the deployment.
Typed ==
    /\ conf \in Deployments
    /\ settings \in [Stores -> StoreType]
    /\ host \in [PRs -> HostGood]
    /\ req \in [Requests -> RequestGood]
    /\ PollTypeOK
    /\ \A r \in Requests : req[r].pc # "done" => r \in DOMAIN conf.events

\* A tool, as it is created.
Creations == [list : 0 .. MaxCommits, diff : SUBSET (1 .. MaxCommits),
              cmd : RunningCommand]

Ranges == [is : BOOLEAN, base : Nat, unreviewed : SUBSET (1 .. MaxCommits)]

LEMMA NoCommandIn == NoCommand \in RunningCommand /\ NoCommand.inc \in Ranges
<1>1. MaxCommits \in Nat
  BY PullRequestAssumption
<1>2. <<>> \in Seq(Pieces)
  OBVIOUS
<1> QED BY <1>1, <1>2 DEF NoCommand, RunningCommand, Ranges

LEMMA NoCommandHas ==
    /\ NoCommand.tool = "none" /\ NoCommand.text = <<>> /\ NoCommand.labels = {}
    /\ NoCommand.sees = {} /\ NoCommand.keys = {} /\ NoCommand.log = {}
    /\ NoCommand.inc = [is |-> FALSE, base |-> 0, unreviewed |-> {}]
    /\ NoCommand.inc.unreviewed = {} /\ NoCommand.inc.is = FALSE
BY DEF NoCommand

LEMMA FinishedIs ==
    ASSUME NEW q \in Request, NEW how \in Endings
    PROVE  \E x : /\ x = Finished(q, how) /\ x \in Request
                  /\ x.pc = (IF q.todo = <<>> THEN "done" ELSE "commands")
                  /\ x.todo = q.todo /\ x.cmd = NoCommand
                  /\ x.ended = Append(q.ended, how)
                  /\ x.auto = q.auto /\ x.repo = q.repo /\ x.list = q.list /\ x.diff = q.diff
<1>1. NoCommand \in RunningCommand
  BY NoCommandIn
<1>2. Append(q.ended, how) \in Seq(Endings)
  BY DEF Request
<1> DEFINE e == Append(q.ended, how)
<1> HIDE DEF e
<1>3. Finished(q, how) = [q EXCEPT !.pc = IF q.todo = <<>> THEN "done" ELSE "commands",
                                   !.cmd = NoCommand, !.ended = e]
  BY DEF Finished, e
<1> QED BY <1>1, <1>2, <1>3 DEF Request, e

LEMMA FinishedGood ==
    ASSUME NEW q \in Request, q.todo \in Seq(Cmds(Options)), NEW how \in Endings
    PROVE  Finished(q, how) \in RequestGood
<1> PICK x : /\ x = Finished(q, how) /\ x \in Request
             /\ x.pc = (IF q.todo = <<>> THEN "done" ELSE "commands")
             /\ x.todo = q.todo /\ x.cmd = NoCommand
  BY FinishedIs
<1>1. x.cmd.tool = "none"
  BY NoCommandHas
<1> QED BY <1>1 DEF RequestGood

\* The records that the lemmas below speak of.
LEMMA HostHas ==
    ASSUME NEW h \in HostGood
    PROVE  /\ h \in Host /\ Len(h.commits) \in 1 .. MaxCommits /\ h.commits \in Seq(Nat)
           /\ h.reviews \in Seq(Kinds) /\ h.body \in Seq(Pieces) /\ h.text \in Seq(Pieces)
           /\ h.labels \in SUBSET Labels /\ h.log \in SUBSET Requests
           /\ h.covered \in SUBSET Nat /\ h.merges \in SUBSET Nat
           /\ h.progress \in SUBSET (Requests \X Nat)
           /\ h.undeleted \in SUBSET (Requests \X Nat)
           /\ h.raced \in SUBSET {"body", "bare", "label", "commit"}
           /\ Len(h.reviews) \in Nat /\ DOMAIN h.commits = 1 .. Len(h.commits)
<1>1. h.commits \in Seq(Nat) /\ h.reviews \in Seq(Kinds)
  BY DEF HostGood, Host
<1> QED BY <1>1 DEF HostGood, Host

LEMMA FilesGood ==
    ASSUME NEW h \in HostGood, NEW kept, kept.list \in 0 .. MaxCommits,
           NEW inc, inc.unreviewed \in SUBSET (1 .. MaxCommits)
    PROVE  \E f : /\ f = GetFiles(h, kept, inc)
                  /\ f.list \in 0 .. MaxCommits /\ f.sees \in SUBSET (1 .. MaxCommits)
                  /\ inc.unreviewed # {} => f.sees = inc.unreviewed /\ f.list = kept.list
                  /\ inc.unreviewed = {} /\ kept.list # 0 =>
                        f.sees = 1 .. kept.list /\ f.list \in {0, kept.list}
                  /\ inc.unreviewed = {} /\ kept.list = 0 =>
                        f.sees = 1 .. Len(h.commits) /\ f.list \in {0, Len(h.commits)}
<1>1. MaxCommits \in Nat /\ Len(h.commits) \in 1 .. MaxCommits
  BY HostHas, PullRequestAssumption
<1> DEFINE f == GetFiles(h, kept, inc)
           n == IF kept.list # 0 THEN kept.list ELSE Len(h.commits)
           l == IF Provider = "github" THEN n ELSE 0
<1>2. CASE inc.unreviewed # {}
  <2>1. f = [sees |-> inc.unreviewed, list |-> kept.list]
    BY <1>2 DEF GetFiles
  <2> QED BY <1>2, <2>1
<1>3. CASE inc.unreviewed = {}
  <2>1. f = [sees |-> 1 .. n, list |-> l]
    BY <1>3 DEF GetFiles
  <2>2. f.sees = 1 .. n /\ f.list = l
    BY <2>1
  <2>3. n \in 0 .. MaxCommits /\ l \in {0, n}
    BY <1>1
  <2>4. 1 .. n \in SUBSET (1 .. MaxCommits) /\ l \in 0 .. MaxCommits
    BY <1>1, <2>3
  <2> HIDE DEF f, l
  <2>5. f = GetFiles(h, kept, inc)
    BY DEF f
  <2> QED BY <1>1, <1>3, <2>2, <2>3, <2>4, <2>5
<1> QED BY <1>2, <1>3

LEMMA DiffFilesGood ==
    ASSUME NEW h \in HostGood, NEW kept, kept.list \in 0 .. MaxCommits,
           kept.diff \in SUBSET (1 .. MaxCommits),
           NEW inc, inc.unreviewed \in SUBSET (1 .. MaxCommits)
    PROVE  \E f, g : /\ f = GetFiles(h, kept, inc) /\ g = GetDiffFiles(h, kept, inc)
                     /\ g.list \in 0 .. MaxCommits /\ g.sees \in SUBSET (1 .. MaxCommits)
                     /\ g.diff = g.sees /\ g.list = f.list
                     /\ g.sees = IF kept.diff # {} THEN kept.diff ELSE f.sees
<1> PICK f : /\ f = GetFiles(h, kept, inc)
             /\ f.list \in 0 .. MaxCommits /\ f.sees \in SUBSET (1 .. MaxCommits)
  BY FilesGood
<1> DEFINE s == IF kept.diff # {} THEN kept.diff ELSE f.sees
           g == GetDiffFiles(h, kept, inc)
<1>1. g = [sees |-> s, list |-> f.list, diff |-> s]
  BY DEF GetDiffFiles
<1>2. s \in SUBSET (1 .. MaxCommits)
  OBVIOUS
<1> HIDE DEF g, s
<1>3. g = GetDiffFiles(h, kept, inc) /\ s = IF kept.diff # {} THEN kept.diff ELSE f.sees
  BY DEF g, s
<1>4. g.sees = s /\ g.diff = s /\ g.list = f.list
  BY <1>1
<1> QED BY <1>2, <1>3, <1>4

LEMMA IncrementalGood ==
    ASSUME NEW h \in HostGood, NEW asked \in BOOLEAN
    PROVE  Incremental(h, asked) \in Ranges
<1>1. /\ Len(h.reviews) \in Nat /\ Len(h.commits) \in 1 .. MaxCommits
      /\ DOMAIN h.commits = 1 .. Len(h.commits) /\ MaxCommits \in Nat
  BY HostHas, PullRequestAssumption
<1>2. GetCommitRange(h, GetPreviousReview(h)) \in SUBSET (1 .. MaxCommits)
  BY <1>1 DEF GetCommitRange
<1> DEFINE c == GetCommitRange(h, GetPreviousReview(h)) \ h.merges
<1> HIDE DEF c
<1>3. [is |-> TRUE, base |-> Len(h.reviews), unreviewed |-> c] \in Ranges
  BY <1>1, <1>2 DEF Ranges, c
<1>4. [is |-> FALSE, base |-> 0, unreviewed |-> {}] \in Ranges
  BY DEF Ranges
<1>5. \A ok \in BOOLEAN : [is |-> ok, base |-> 0, unreviewed |-> {}] \in Ranges
  BY DEF Ranges
<1>6. GetIncrementalCommits(h, asked) \in Ranges
  BY <1>3, <1>4 DEF GetIncrementalCommits, GetPreviousReview, c
<1> QED BY <1>5, <1>6 DEF Incremental

\* What a tool is created with: the pull request as it is at that moment.
Begins(r, c, k) ==
    /\ k \in Creations
    /\ k.cmd.tool = c.tool /\ k.cmd.sees = {} /\ k.cmd.keys = c.keys
    /\ k.cmd.head = Len(HostOf(r).commits) /\ k.cmd.labels = HostOf(r).labels

LEMMA CreatedBegins ==
    ASSUME NEW r, HostOf(r) \in HostGood, NEW c \in Command,
           NEW f, f.list \in 0 .. MaxCommits, f.diff \in SUBSET (1 .. MaxCommits)
    PROVE  \E k : /\ k = CreatedWith(r, c, f) /\ Begins(r, c, k)
                  /\ k.list = f.list /\ k.diff = f.diff
                  /\ k.cmd.inc = NoCommand.inc
<1> DEFINE n == Len(HostOf(r).commits)
           ls == HostOf(r).labels
           m == [NoCommand EXCEPT !.tool = c.tool, !.arg = c.arg, !.keys = c.keys,
                                  !.head = n, !.labels = ls]
           k == CreatedWith(r, c, f)
<1>1. n \in 0 .. MaxCommits /\ ls \in SUBSET Labels
  <2>1. n \in 1 .. MaxCommits /\ MaxCommits \in Nat
    BY HostHas, PullRequestAssumption
  <2> QED BY <2>1, HostHas
<1>2. c.tool \in ToolNames /\ c.arg \in {"", "-i", "question"} /\ c.keys \in SUBSET FileKeys
  BY DEF Command
<1>3. k = [list |-> f.list, diff |-> f.diff, cmd |-> m]
  BY DEF CreatedWith
<1> HIDE DEF n, ls, k
<1>4. /\ m \in RunningCommand /\ m.tool = c.tool /\ m.sees = NoCommand.sees
      /\ m.keys = c.keys /\ m.head = n /\ m.labels = ls /\ m.inc = NoCommand.inc
  <2>1. NoCommand \in RunningCommand
    BY NoCommandIn
  <2> QED BY <1>1, <1>2, <2>1 DEF RunningCommand
<1> HIDE DEF m
<1>5. k \in Creations /\ k.list = f.list /\ k.diff = f.diff /\ k.cmd = m
  BY <1>3, <1>4 DEF Creations
<1>6. k = CreatedWith(r, c, f) /\ n = Len(HostOf(r).commits) /\ ls = HostOf(r).labels
  BY DEF k, n, ls
<1>7. m.sees = {}
  BY <1>4, NoCommandHas
<1> QED BY <1>4, <1>5, <1>6, <1>7 DEF Begins

LEMMA ListedIs ==
    ASSUME Typed, NEW r \in Requests, HostOf(r) \in HostGood,
           NEW inc, inc.unreviewed \in SUBSET (1 .. MaxCommits)
    PROVE  /\ Kept(r).list \in 0 .. MaxCommits /\ Kept(r).diff \in SUBSET (1 .. MaxCommits)
           /\ Listed(r, inc).list = GetFiles(HostOf(r), Kept(r), inc).list
           /\ Listed(r, inc).list \in 0 .. MaxCommits
           /\ Listed(r, inc).diff = Kept(r).diff
<1>1. req[r] \in Request /\ MaxCommits \in Nat
  BY PullRequestAssumption DEF Typed, RequestGood
<1>2. /\ Kept(r).list \in 0 .. MaxCommits /\ Kept(r).diff \in SUBSET (1 .. MaxCommits)
      /\ DOMAIN Kept(r) = {"list", "diff"}
  BY <1>1 DEF Kept, Request
<1>3. GetFiles(HostOf(r), Kept(r), inc).list \in 0 .. MaxCommits
  BY <1>2, FilesGood
<1> QED BY <1>2, <1>3 DEF Listed

\* What the lemmas need of every constructor: PRReviewer looks for the commits
\* since the last review, and PRDescription reads the diff and the user's text.
Constructed(r, c, k) ==
    /\ Begins(r, c, k)
    /\ c.tool = "review" =>
          \E asked \in BOOLEAN : /\ k.cmd.inc = Incremental(HostOf(r), asked)
                                 /\ k.list = GetFiles(HostOf(r), Kept(r), k.cmd.inc).list
    /\ c.tool # "review" =>
          k.cmd.inc = NoCommand.inc
          /\ k.list = GetFiles(HostOf(r), Kept(r), NoCommand.inc).list
    /\ IF c.tool = "describe"
       THEN /\ k.cmd.text = GetUserDescription(HostOf(r).body)
            /\ k.diff = GetDiffFiles(HostOf(r), Kept(r), NoCommand.inc).diff
       ELSE k.diff = Kept(r).diff

LEMMA ReviewConstructed ==
    ASSUME Typed, NEW r \in Requests, HostOf(r) \in HostGood, NEW c \in Command,
           c.tool = "review"
    PROVE  Constructed(r, c, NewReview(r, c))
<1> DEFINE asked == c.arg = "-i"
           inc == Incremental(HostOf(r), asked)
<1>1. asked \in BOOLEAN /\ inc \in Ranges /\ inc.unreviewed \in SUBSET (1 .. MaxCommits)
  <2>1. asked \in BOOLEAN
    OBVIOUS
  <2>2. inc \in Ranges
    BY <2>1, IncrementalGood
  <2> QED BY <2>1, <2>2 DEF Ranges
<1>2. NewReview(r, c) = [CreatedWith(r, c, Listed(r, inc)) EXCEPT !.cmd.inc = inc]
  BY DEF NewReview
<1> HIDE DEF inc
<1>3. /\ Listed(r, inc).list = GetFiles(HostOf(r), Kept(r), inc).list
      /\ Listed(r, inc).list \in 0 .. MaxCommits
      /\ Listed(r, inc).diff = Kept(r).diff /\ Kept(r).diff \in SUBSET (1 .. MaxCommits)
  BY <1>1, ListedIs
<1> PICK k : /\ k = CreatedWith(r, c, Listed(r, inc)) /\ Begins(r, c, k)
             /\ k.list = Listed(r, inc).list /\ k.diff = Listed(r, inc).diff
  BY <1>3, CreatedBegins
<1> DEFINE x == [k EXCEPT !.cmd.inc = inc]
<1>4. /\ x.list = k.list /\ x.diff = k.diff /\ x.cmd = [k.cmd EXCEPT !.inc = inc]
      /\ x \in Creations /\ x.cmd.inc = inc /\ x.cmd.tool = k.cmd.tool
      /\ x.cmd.sees = k.cmd.sees /\ x.cmd.keys = k.cmd.keys
      /\ x.cmd.head = k.cmd.head /\ x.cmd.labels = k.cmd.labels
  BY <1>1 DEF Begins, Creations, RunningCommand, Ranges
<1>5. x = NewReview(r, c)
  BY <1>2
<1> HIDE DEF x
<1>6. Begins(r, c, x)
  BY <1>4 DEF Begins
<1>7. inc = Incremental(HostOf(r), asked)
  BY DEF inc
<1> HIDE DEF asked
<1>8. Constructed(r, c, x)
  BY <1>1, <1>3, <1>4, <1>6, <1>7 DEF Constructed
<1> QED BY <1>5, <1>8

LEMMA DescriptionConstructed ==
    ASSUME Typed, NEW r \in Requests, HostOf(r) \in HostGood, NEW c \in Command,
           c.tool = "describe"
    PROVE  Constructed(r, c, NewDescription(r, c))
<1> DEFINE inc == NoCommand.inc
           d == GetDiffFiles(HostOf(r), Kept(r), inc)
           t == GetUserDescription(HostOf(r).body)
<1>1. inc.unreviewed \in SUBSET (1 .. MaxCommits)
  BY NoCommandHas
<1> HIDE DEF inc
<1>2. Kept(r).list \in 0 .. MaxCommits /\ Kept(r).diff \in SUBSET (1 .. MaxCommits)
  BY <1>1, ListedIs
<1>3. /\ d.list \in 0 .. MaxCommits /\ d.diff \in SUBSET (1 .. MaxCommits)
      /\ d.list = GetFiles(HostOf(r), Kept(r), inc).list
  BY <1>1, <1>2, DiffFilesGood
<1>4. t \in Seq(Pieces)
  BY HostHas, UserTextIn
<1>5. NewDescription(r, c) = [CreatedWith(r, c, d) EXCEPT !.cmd.text = t]
  BY DEF NewDescription, inc
<1> HIDE DEF d, t
<1> PICK k : /\ k = CreatedWith(r, c, d) /\ Begins(r, c, k)
             /\ k.list = d.list /\ k.diff = d.diff /\ k.cmd.inc = NoCommand.inc
  BY <1>3, CreatedBegins
<1> DEFINE x == [k EXCEPT !.cmd.text = t]
<1>6. /\ x.list = k.list /\ x.diff = k.diff /\ x.cmd = [k.cmd EXCEPT !.text = t]
      /\ x \in Creations /\ x.cmd.text = t /\ x.cmd.tool = k.cmd.tool
      /\ x.cmd.inc = k.cmd.inc
      /\ x.cmd.sees = k.cmd.sees /\ x.cmd.keys = k.cmd.keys
      /\ x.cmd.head = k.cmd.head /\ x.cmd.labels = k.cmd.labels
  BY <1>4 DEF Begins, Creations, RunningCommand
<1>7. x = NewDescription(r, c)
  BY <1>5
<1> HIDE DEF x
<1>8. Begins(r, c, x)
  BY <1>6 DEF Begins
<1>9. /\ t = GetUserDescription(HostOf(r).body) /\ inc = NoCommand.inc
      /\ d = GetDiffFiles(HostOf(r), Kept(r), inc)
  BY DEF t, d, inc
<1>10. Constructed(r, c, x)
  BY <1>3, <1>6, <1>8, <1>9 DEF Constructed
<1> QED BY <1>7, <1>10

LEMMA ToolConstructed ==
    ASSUME Typed, NEW r \in Requests, HostOf(r) \in HostGood, NEW c \in Command,
           c.tool \notin {"review", "describe"}
    PROVE  Constructed(r, c, NewTool(r, c))
<1> DEFINE inc == NoCommand.inc
<1>1. inc.unreviewed \in SUBSET (1 .. MaxCommits)
  BY NoCommandHas
<1> HIDE DEF inc
<1>2. /\ Listed(r, inc).list = GetFiles(HostOf(r), Kept(r), inc).list
      /\ Listed(r, inc).list \in 0 .. MaxCommits
      /\ Listed(r, inc).diff = Kept(r).diff /\ Kept(r).diff \in SUBSET (1 .. MaxCommits)
  BY <1>1, ListedIs
<1> PICK k : /\ k = CreatedWith(r, c, Listed(r, inc)) /\ Begins(r, c, k)
             /\ k.list = Listed(r, inc).list /\ k.diff = Listed(r, inc).diff
             /\ k.cmd.inc = NoCommand.inc
  BY <1>2, CreatedBegins
<1>3. k = NewTool(r, c) /\ inc = NoCommand.inc
  BY DEF NewTool, inc
<1>4. Constructed(r, c, k)
  BY <1>2, <1>3 DEF Constructed
<1> QED BY <1>3, <1>4

LEMMA ChangelogConstructed ==
    ASSUME Typed, NEW r \in Requests, HostOf(r) \in HostGood, NEW c \in Command,
           c.tool = "update_changelog", NEW k \in NewUpdateChangelog(r, c)
    PROVE  Constructed(r, c, k)
<1> DEFINE b == NewTool(r, c)
<1>1. PICK g \in GetChangelogFile(r) : k = [b EXCEPT !.cmd.log = g]
  BY DEF NewUpdateChangelog, NewTool
<1>2. g \in SUBSET Requests
  <2>1. HostOf(r).log \in SUBSET Requests
    BY HostHas
  <2> QED BY <2>1 DEF GetChangelogFile
<1>3. Constructed(r, c, b)
  BY ToolConstructed
<1> HIDE DEF b
<1>4. /\ k.list = b.list /\ k.diff = b.diff /\ k \in Creations
      /\ k.cmd.inc = b.cmd.inc /\ k.cmd.tool = b.cmd.tool
      /\ k.cmd.sees = b.cmd.sees /\ k.cmd.keys = b.cmd.keys
      /\ k.cmd.head = b.cmd.head /\ k.cmd.labels = b.cmd.labels
  BY <1>1, <1>2, <1>3 DEF Constructed, Begins, Creations, RunningCommand
<1> QED BY <1>3, <1>4 DEF Constructed, Begins

LEMMA Constructs ==
    ASSUME Typed, NEW r \in Requests, HostOf(r) \in HostGood, NEW c \in Command,
           NEW k \in Construct(r, c)
    PROVE  Constructed(r, c, k)
<1>1. CASE c.tool = "review"
  BY <1>1, ReviewConstructed DEF Construct
<1>2. CASE c.tool = "describe"
  BY <1>2, DescriptionConstructed DEF Construct
<1>3. CASE c.tool = "update_changelog"
  BY <1>3, ChangelogConstructed DEF Construct
<1>4. CASE c.tool \notin {"review", "describe", "update_changelog"}
  BY <1>4, ToolConstructed DEF Construct
<1> QED BY <1>1, <1>2, <1>3, <1>4

-----------------------------------------------------------------------------
\* The steps of a request, each as what it leaves of the request and of its
\* pull request.

LEMMA OfRequest ==
    ASSUME Typed, NEW r \in Requests, req[r].pc # "done"
    PROVE  /\ r \in DOMAIN conf.events /\ Pr(r) \in PRs /\ HostOf(r) \in HostGood
           /\ conf.events[r] \in Event /\ conf.events[r].pr = Pr(r)
           /\ Serves(StoreType, r, Options)
           /\ Store(r) \in Stores /\ settings[Store(r)] \in StoreType
           /\ settings[Global] \in StoreType
           /\ req[r] \in RequestGood /\ req[r] \in Request
<1>1. r \in DOMAIN conf.events /\ conf \in Deployments
  BY DEF Typed
<1>2. conf \in Deployment /\ Pr(r) \in PRs /\ conf.events[r] \in Event
  BY <1>1, OfDeployment
<1>3. HostOf(r) \in HostGood
  BY <1>2 DEF Typed, HostOf
<1>4. Closed(StoreType, r, Options)
  BY <1>2, StoresClosed
<1>5. Serves(StoreType, r, Options)
  BY <1>1, <1>2, <1>4 DEF Serves, Options
<1>6. Store(r) \in Stores /\ Global \in Stores
  BY DEF Store, Stores
<1>7. conf.events[r].pr = Pr(r)
  BY DEF Pr
<1> QED BY <1>1, <1>2, <1>3, <1>5, <1>6, <1>7 DEF Typed, RequestGood

\* The host after a notice.
LEMMA NoticedIs ==
    ASSUME Typed, NEW p \in PRs, NEW broken \in BOOLEAN
    PROVE  /\ Noticed(p, broken) \in [PRs -> HostGood]
           /\ \A x \in PRs : \E ok \in BOOLEAN : Noticed(p, broken)[x] = [host[x] EXCEPT !.notice = ok]
<1> DEFINE ok == host[p].notice \/ broken
           h == [host[p] EXCEPT !.notice = ok]
<1>1. ok \in BOOLEAN
  BY DEF Typed, HostGood, Host
<1>2. \A g \in HostGood : \A y \in BOOLEAN : [g EXCEPT !.notice = y] \in HostGood
  <2> TAKE g \in HostGood, y \in BOOLEAN
  <2>1. [g EXCEPT !.notice = y] \in Host
    BY DEF HostGood, Host
  <2>2. [g EXCEPT !.notice = y].commits = g.commits
    BY DEF HostGood, Host
  <2> QED BY <2>1, <2>2 DEF HostGood
<1>3. Noticed(p, broken) = [host EXCEPT ![p] = h]
  BY DEF Noticed, Typed
<1> HIDE DEF ok
<1>4. h \in HostGood
  BY <1>1, <1>2 DEF Typed
<1>5. \A x \in PRs : x # p => Noticed(p, broken)[x] = [host[x] EXCEPT !.notice = host[x].notice]
  BY <1>3 DEF Typed, HostGood, Host
<1>6. \A x \in PRs : host[x].notice \in BOOLEAN
  BY DEF Typed, HostGood, Host
<1>7. Noticed(p, broken)[p] = [host[p] EXCEPT !.notice = ok]
  BY <1>3 DEF Typed
<1> HIDE DEF h
<1>8. Noticed(p, broken) \in [PRs -> HostGood]
  BY <1>3, <1>4 DEF Typed
<1> QED BY <1>1, <1>5, <1>6, <1>7, <1>8

\* The event of a request is handled.
Received(r, o, x) ==
    /\ o \in Handled(r) /\ o \in Outcomes(StoreType, Options)
    /\ settings' = [settings EXCEPT ![Store(r)] = o.s]
    /\ host' = Noticed(Pr(r), o.broken)
    /\ req' = [req EXCEPT ![r] = x]
    /\ x \in RequestGood
    /\ x.pc = (IF o.todo = <<>> THEN "done" ELSE "commands")
    /\ x.todo = o.todo /\ x.auto = o.auto /\ x.repo = o.repo /\ x.cmd = req[r].cmd
    /\ x.list = req[r].list /\ x.diff = req[r].diff /\ x.ended = req[r].ended
    /\ req[r].pc = "sent" /\ conf' = conf

LEMMA ReceiveIs ==
    ASSUME Typed, NEW r \in Requests, Receive(r)
    PROVE  \E o, x : Received(r, o, x)
<1> PICK o \in Handled(r) :
       /\ settings' = [settings EXCEPT ![Store(r)] = o.s]
       /\ host' = Noticed(conf.events[r].pr, o.broken)
       /\ req' = [req EXCEPT ![r] =
             [req[r] EXCEPT !.pc = IF o.todo = <<>> THEN "done" ELSE "commands",
                            !.todo = o.todo, !.auto = o.auto, !.repo = o.repo]]
  BY DEF Receive, Typed
<1>1. /\ req[r].pc = "sent" /\ conf' = conf
  BY DEF Receive
<1>2. /\ conf.events[r].pr = Pr(r) /\ Serves(StoreType, r, Options)
      /\ settings[Global] \in StoreType /\ req[r] \in RequestGood /\ req[r] \in Request
  BY <1>1, OfRequest
<1>3. o \in Outcomes(StoreType, Options)
  BY <1>2, HandledIn
<1>4. /\ o.todo \in Seq(Cmds(Options)) /\ o.auto \in BOOLEAN /\ o.repo \in Reads
  BY <1>3 DEF Outcomes
<1>5. o.todo \in Seq(Command)
  <2>1. \A i \in DOMAIN o.todo : o.todo[i] \in Command
    BY <1>4 DEF Cmds
  <2> QED BY <1>4, <2>1, SeqOver
<1> DEFINE x == [req[r] EXCEPT !.pc = IF o.todo = <<>> THEN "done" ELSE "commands",
                               !.todo = o.todo, !.auto = o.auto, !.repo = o.repo]
<1>6. /\ x \in Request
      /\ x.pc = (IF o.todo = <<>> THEN "done" ELSE "commands")
      /\ x.todo = o.todo /\ x.auto = o.auto /\ x.repo = o.repo /\ x.cmd = req[r].cmd
      /\ x.list = req[r].list /\ x.diff = req[r].diff /\ x.ended = req[r].ended
  BY <1>2, <1>4, <1>5 DEF Request, Reads
<1>7. req' = [req EXCEPT ![r] = x]
  OBVIOUS
<1> HIDE DEF x
<1>8. x \in RequestGood
  BY <1>1, <1>2, <1>4, <1>6 DEF RequestGood
<1>9. Received(r, o, x)
  BY <1>1, <1>2, <1>3, <1>6, <1>7, <1>8 DEF Received
<1> QED BY <1>9

\* The next command of a request: its tool is created, or not.
Began(r, c, o, k, x) ==
    /\ req[r].pc = "commands" /\ req[r].todo # <<>> /\ c = Head(req[r].todo)
    /\ c \in Cmds(Options) /\ c \in Command
    /\ o \in Run(r, c) /\ o \in Results(StoreType)
    /\ k \in Construct(r, c) /\ Constructed(r, c, k)
    /\ settings' = [settings EXCEPT ![Store(r)] = o.s]
    /\ host' = Noticed(Pr(r), o.broken)
    /\ req' = [req EXCEPT ![r] = x]
    /\ x \in RequestGood /\ x.auto = req[r].auto
    /\ o.started =>
          /\ x.pc = "made" /\ x.todo = Tail(req[r].todo) /\ x.ended = req[r].ended
          /\ x.cmd = k.cmd /\ x.list = k.list /\ x.diff = k.diff
    /\ ~o.started =>
          /\ x.pc \in {"done", "commands"} /\ x.todo \in {<<>>, Tail(req[r].todo)}
          /\ x.ended = Append(req[r].ended, "refused")
          /\ x.cmd = NoCommand /\ x.list = req[r].list /\ x.diff = req[r].diff
    /\ conf' = conf

LEMMA TailIs ==
    ASSUME NEW S, NEW q \in Seq(S), q # <<>>
    PROVE  Head(q) \in S /\ Tail(q) \in Seq(S)
OBVIOUS

LEMMA CommandIs ==
    ASSUME Typed, NEW r \in Requests, NextCommand(r)
    PROVE  \E c, o, k, x : Began(r, c, o, k, x)
<1> DEFINE c == Head(req[r].todo)
<1> PICK o \in Run(r, c), k \in Construct(r, c) :
       /\ settings' = [settings EXCEPT ![Store(r)] = o.s]
       /\ host' = Noticed(Pr(r), o.broken)
       /\ req' = [req EXCEPT ![r] =
             IF o.started THEN Made(req[r], o, k) ELSE Refused(req[r], o)]
  BY DEF NextCommand, Typed
<1>1. req[r].pc = "commands" /\ req[r].todo # <<>> /\ conf' = conf
  BY DEF NextCommand
<1>2. /\ HostOf(r) \in HostGood /\ Serves(StoreType, r, Options)
      /\ settings[Store(r)] \in StoreType /\ req[r] \in RequestGood /\ req[r] \in Request
  BY <1>1, OfRequest
<1>3. /\ req[r].todo \in Seq(Cmds(Options)) /\ req[r].repo \in Reads
      /\ req[r].todo \in Seq(Command)
  BY <1>2 DEF RequestGood, Request, Reads
<1>4. c \in Cmds(Options) /\ c \in Command /\ Tail(req[r].todo) \in Seq(Cmds(Options))
  <2>1. c \in Cmds(Options) /\ Tail(req[r].todo) \in Seq(Cmds(Options))
    BY <1>1, <1>3, TailIs
  <2> QED BY <2>1 DEF Cmds
<1>5. Tail(req[r].todo) \in Seq(Command)
  BY <1>1, <1>3, TailIs
<1> HIDE DEF c
<1>6. o \in Results(StoreType)
  BY <1>2, <1>3, <1>4, RunIn
<1>7. o.started \in BOOLEAN /\ o.repo \in Reads
  BY <1>6 DEF Results
<1>8. Constructed(r, c, k)
  BY <1>2, <1>4, Constructs
<1>9. c = Head(req[r].todo)
  BY DEF c
<1>10. CASE o.started
  <2> DEFINE x == Made(req[r], o, k)
  <2>1. /\ k \in Creations /\ k.cmd.tool # "none"
    <3>1. c.tool # "none"
      BY <1>4 DEF Command, ToolNames
    <3> QED BY <1>8, <3>1 DEF Constructed, Begins
  <2>2. /\ x \in Request /\ x.pc = "made" /\ x.todo = Tail(req[r].todo)
        /\ x.cmd = k.cmd /\ x.list = k.list /\ x.diff = k.diff
        /\ x.ended = req[r].ended /\ x.auto = req[r].auto
    BY <1>2, <1>5, <1>7, <2>1 DEF Made, Request, Creations, Reads
  <2>3. req' = [req EXCEPT ![r] = x]
    BY <1>10
  <2> HIDE DEF x
  <2>4. x \in RequestGood
    BY <1>4, <2>1, <2>2 DEF RequestGood
  <2>5. Began(r, c, o, k, x)
    BY <1>1, <1>4, <1>6, <1>8, <1>9, <1>10, <2>2, <2>3, <2>4 DEF Began
  <2> QED BY <2>5
<1>11. CASE ~o.started
  <2> DEFINE x == Refused(req[r], o)
             left == IF conf.server = "action" /\ req[r].auto THEN <<>> ELSE Tail(req[r].todo)
             q == [req[r] EXCEPT !.repo = o.repo, !.todo = left]
  <2>1. left \in Seq(Command) /\ left \in Seq(Cmds(Options)) /\ left \in {<<>>, Tail(req[r].todo)}
    BY <1>4, <1>5
  <2>2. x = Finished(q, "refused")
    BY DEF Refused
  <2>3. req' = [req EXCEPT ![r] = x]
    BY <1>11
  <2> HIDE DEF left
  <2>4. /\ q \in Request /\ q.todo = left /\ q.auto = req[r].auto /\ q.ended = req[r].ended
        /\ q.list = req[r].list /\ q.diff = req[r].diff
    BY <1>2, <1>7, <2>1 DEF Request, Reads
  <2> HIDE DEF q, x
  <2>5. "refused" \in Endings
    BY DEF Endings
  <2>6. /\ x \in Request /\ x.pc \in {"done", "commands"} /\ x.todo = q.todo
        /\ x.cmd = NoCommand /\ x.ended = Append(q.ended, "refused")
        /\ x.auto = q.auto /\ x.list = q.list /\ x.diff = q.diff
    <3> PICK y : /\ y = Finished(q, "refused") /\ y \in Request
                 /\ y.pc = (IF q.todo = <<>> THEN "done" ELSE "commands")
                 /\ y.todo = q.todo /\ y.cmd = NoCommand
                 /\ y.ended = Append(q.ended, "refused")
                 /\ y.auto = q.auto /\ y.list = q.list /\ y.diff = q.diff
      BY <2>4, <2>5, FinishedIs
    <3>1. y = x
      BY <2>2
    <3> QED BY <3>1
  <2>7. x \in RequestGood
    BY <2>1, <2>2, <2>4, <2>5, FinishedGood
  <2>8. Began(r, c, o, k, x)
    BY <1>1, <1>4, <1>6, <1>8, <1>9, <1>11, <2>1, <2>3, <2>4, <2>6, <2>7 DEF Began
  <2> QED BY <2>8
<1> QED BY <1>7, <1>10, <1>11

\* A command ends.
Ended(r, how, x) ==
    /\ req' = [req EXCEPT ![r] = x] /\ x \in RequestGood /\ how \in Endings
    /\ x.pc = (IF req[r].todo = <<>> THEN "done" ELSE "commands")
    /\ x.todo = req[r].todo /\ x.auto = req[r].auto /\ x.cmd = NoCommand
    /\ x.ended = Append(req[r].ended, how) /\ x.list = req[r].list /\ x.diff = req[r].diff

LEMMA FinishedEnds ==
    ASSUME Typed, NEW r \in Requests, NEW how \in Endings,
           req' = [req EXCEPT ![r] = Finished(req[r], how)]
    PROVE  \E x : Ended(r, how, x)
<1>1. req[r] \in Request /\ req[r].todo \in Seq(Cmds(Options))
  BY DEF Typed, RequestGood
<1> PICK x : /\ x = Finished(req[r], how) /\ x \in Request
             /\ x.pc = (IF req[r].todo = <<>> THEN "done" ELSE "commands")
             /\ x.todo = req[r].todo /\ x.cmd = NoCommand
             /\ x.ended = Append(req[r].ended, how) /\ x.auto = req[r].auto
             /\ x.list = req[r].list /\ x.diff = req[r].diff
  BY <1>1, FinishedIs
<1>2. x \in RequestGood
  BY <1>1, FinishedGood
<1>3. Ended(r, how, x)
  BY <1>2 DEF Ended
<1> QED BY <1>3

LEMMA EndEnds ==
    ASSUME Typed, NEW r \in Requests, NEW how \in Endings, NEW h, End(r, h, how)
    PROVE  /\ \E x : Ended(r, how, x)
           /\ Published(r, h) /\ conf' = conf /\ settings' = settings
<1>1. req' = [req EXCEPT ![r] = Finished(req[r], how)]
  BY DEF End, Typed
<1> QED BY <1>1, FinishedEnds DEF End

\* A command asks the models: what it has read of the pull request stays, and
\* but for the help it reads the diff.
Asked(r, x) ==
    /\ req' = [req EXCEPT ![r] = x] /\ x \in RequestGood /\ x.pc = "asked"
    /\ x.todo = req[r].todo /\ x.auto = req[r].auto /\ x.ended = req[r].ended
    /\ x.cmd.tool = req[r].cmd.tool /\ x.cmd.text = req[r].cmd.text
    /\ x.cmd.labels = req[r].cmd.labels /\ x.cmd.head = req[r].cmd.head
    /\ x.cmd.inc = req[r].cmd.inc

Read(r, x) ==
    \E f : /\ f = GetDiffFiles(HostOf(r), req[r], req[r].cmd.inc)
           /\ x.list = f.list /\ x.diff = f.diff /\ x.cmd.sees = f.sees
ReadNothing(r, x) ==
    /\ x.list = req[r].list /\ x.diff = req[r].diff /\ x.cmd.sees = req[r].cmd.sees
    /\ req[r].cmd.tool \in {"help", "help_docs"}

LEMMA AskAsks ==
    ASSUME Typed, NEW r \in Requests, req[r].pc = "made", NEW h, Ask(r, h)
    PROVE  /\ \E x : Asked(r, x) /\ Read(r, x)
           /\ Published(r, h) /\ conf' = conf
<1>1. HostOf(r) \in HostGood /\ req[r] \in RequestGood /\ req[r] \in Request
  BY OfRequest
<1>2. /\ req[r].list \in 0 .. MaxCommits /\ req[r].diff \in SUBSET (1 .. MaxCommits)
      /\ req[r].cmd.inc.unreviewed \in SUBSET (1 .. MaxCommits)
  BY <1>1 DEF Request, RunningCommand
<1> DEFINE f == GetDiffFiles(HostOf(r), req[r], req[r].cmd.inc)
<1>3. /\ f.list \in 0 .. MaxCommits /\ f.sees \in SUBSET (1 .. MaxCommits)
      /\ f.diff = f.sees
  BY <1>1, <1>2, DiffFilesGood
<1> DEFINE x == [req[r] EXCEPT !.pc = "asked", !.list = f.list, !.diff = f.diff,
                               !.cmd.sees = f.sees]
<1>4. req' = [req EXCEPT ![r] = x]
  BY DEF Ask, Typed
<1> HIDE DEF f
<1>5. /\ x \in Request /\ x.pc = "asked" /\ x.todo = req[r].todo /\ x.auto = req[r].auto
      /\ x.ended = req[r].ended /\ x.list = f.list /\ x.diff = f.diff
      /\ x.cmd = [req[r].cmd EXCEPT !.sees = f.sees]
  BY <1>1, <1>3 DEF Request, RunningCommand
<1> HIDE DEF x
<1>6. req[r].cmd \in RunningCommand
  BY <1>1 DEF Request
<1>7. /\ x.cmd.tool = req[r].cmd.tool /\ x.cmd.text = req[r].cmd.text
      /\ x.cmd.labels = req[r].cmd.labels /\ x.cmd.head = req[r].cmd.head
      /\ x.cmd.inc = req[r].cmd.inc /\ x.cmd.sees = f.sees
  BY <1>5, <1>6 DEF RunningCommand
<1>8. x \in RequestGood
  BY <1>1, <1>5, <1>7 DEF RequestGood
<1>9. Asked(r, x)
  BY <1>4, <1>5, <1>7, <1>8 DEF Asked
<1>10. Read(r, x)
  BY <1>5, <1>7 DEF Read, f
<1> QED BY <1>9, <1>10 DEF Ask

LEMMA HelpAsks ==
    ASSUME Typed, NEW r \in Requests, req[r].pc = "made",
           req[r].cmd.tool \in {"help", "help_docs"}, req' = [req EXCEPT ![r].pc = "asked"]
    PROVE  \E x : Asked(r, x) /\ ReadNothing(r, x)
<1>1. req[r] \in RequestGood /\ req[r] \in Request
  BY OfRequest
<1> DEFINE x == [req[r] EXCEPT !.pc = "asked"]
<1>2. req' = [req EXCEPT ![r] = x]
  BY DEF Typed
<1>3. /\ x \in Request /\ x.pc = "asked" /\ x.todo = req[r].todo /\ x.auto = req[r].auto
      /\ x.ended = req[r].ended /\ x.list = req[r].list /\ x.diff = req[r].diff
      /\ x.cmd = req[r].cmd
  BY <1>1 DEF Request
<1> HIDE DEF x
<1>4. x \in RequestGood
  BY <1>1, <1>3 DEF RequestGood
<1>5. Asked(r, x) /\ ReadNothing(r, x)
  BY <1>2, <1>3, <1>4 DEF Asked, ReadNothing
<1> QED BY <1>5

\* A tool shows that it is at work, or not; the models are asked, or the command
\* ends, and nothing else is done.
Showing == {"review", "describe", "ask", "add_docs", "generate_labels", "update_changelog"}

Shown(r) ==
    /\ req[r].cmd.tool \in Showing /\ Publishes(settings[Store(r)])
    /\ host' = [host EXCEPT ![Pr(r)] = [HostOf(r) EXCEPT !.progress =
                                           HostOf(r).progress \cup {Mine(r)}]]

Ran(r, x) ==
    /\ req[r].pc = "made" /\ conf' = conf
    /\ settings' = settings \/ ExtractTickets(r)
    /\ \/ host' = host /\ \E how : Ended(r, how, x)
       \/ host' = host /\ Asked(r, x) /\ (Read(r, x) \/ ReadNothing(r, x))
       \/ Shown(r) /\ Asked(r, x) /\ Read(r, x)

LEMMA PublishedNothing ==
    ASSUME Typed, NEW r \in Requests, Pr(r) \in PRs, Published(r, HostOf(r))
    PROVE  host' = host
<1>1. host' = [host EXCEPT ![Pr(r)] = host[Pr(r)]]
  BY DEF Published, HostOf
<1> QED BY <1>1 DEF Typed

LEMMA PublishedProgress ==
    ASSUME Typed, NEW r \in Requests, Pr(r) \in PRs, HostOf(r) \in HostGood,
           req[r].cmd.tool \in Showing, NEW shown, Published(r, WithProgress(r, shown))
    PROVE  host' = host \/ Shown(r)
<1>1. HostOf(r) \in Host /\ HostOf(r) = host[Pr(r)]
  BY DEF HostGood, HostOf
<1>2. CASE shown /\ ShowsProgress /\ Publishes(settings[Store(r)])
  BY <1>1, <1>2 DEF Published, WithProgress, Shown
<1>3. CASE ~(shown /\ ShowsProgress) /\ Publishes(settings[Store(r)])
  <2>1. WithProgress(r, shown) = HostOf(r)
    BY <1>1, <1>3 DEF WithProgress, Host
  <2> QED BY <2>1, PublishedNothing
<1>4. CASE ~Publishes(settings[Store(r)])
  <2>1. host' = [host EXCEPT ![Pr(r)] = host[Pr(r)]]
    BY <1>4 DEF Published
  <2> QED BY <2>1 DEF Typed
<1> QED BY <1>2, <1>3, <1>4

LEMMA MadeEnds ==
    ASSUME Typed, NEW r \in Requests, req[r].pc = "made", NEW how \in Endings,
           End(r, HostOf(r), how)
    PROVE  \E x : Ran(r, x)
<1>1. Pr(r) \in PRs
  BY OfRequest
<1>2. (\E x : Ended(r, how, x)) /\ conf' = conf /\ settings' = settings /\ host' = host
  BY <1>1, EndEnds, PublishedNothing
<1> QED BY <1>2 DEF Ran

LEMMA MadeWithheld ==
    ASSUME Typed, NEW r \in Requests, req[r].pc = "made", NEW how \in Endings,
           req' = [req EXCEPT ![r] = Finished(req[r], how)],
           conf' = conf, host' = host, settings' = settings \/ ExtractTickets(r)
    PROVE  \E x : Ran(r, x)
<1>1. \E x : Ended(r, how, x)
  BY FinishedEnds
<1> QED BY <1>1 DEF Ran

LEMMA MadeAsks ==
    ASSUME Typed, NEW r \in Requests, req[r].pc = "made",
           settings' = settings \/ ExtractTickets(r), req[r].cmd.tool \in Showing,
           NEW shown, Ask(r, WithProgress(r, shown))
    PROVE  \E x : Ran(r, x)
<1>1. Pr(r) \in PRs /\ HostOf(r) \in HostGood
  BY OfRequest
<1>2. /\ \E x : Asked(r, x) /\ Read(r, x)
      /\ Published(r, WithProgress(r, shown)) /\ conf' = conf
  BY AskAsks
<1>3. host' = host \/ Shown(r)
  BY <1>1, <1>2, PublishedProgress
<1> QED BY <1>2, <1>3 DEF Ran

LEMMA EndingsAre ==
    {"published", "empty", "withheld", "failed", "refused"} \subseteq Endings
BY DEF Endings

LEMMA RunIs ==
    ASSUME Typed, NEW r \in Requests, RunTool(r)
    PROVE  \E x : Ran(r, x)
<1>1. CASE ReviewRun(r)
  <2>1. /\ req[r].pc = "made" /\ req[r].cmd.tool \in Showing
    BY <1>1 DEF ReviewRun, At, Showing
  <2>2. \A how \in CanRunIncrementalReview(r) \ {"run"} : how \in Endings
    BY EndingsAre DEF CanRunIncrementalReview
  <2>3. CASE \/ End(r, HostOf(r), "withheld")
             \/ \E how \in CanRunIncrementalReview(r) \ {"run"} : End(r, HostOf(r), how)
    BY <2>1, <2>2, <2>3, EndingsAre, MadeEnds
  <2>4. ASSUME ExtractTickets(r), req' = [req EXCEPT ![r] = Finished(@, "withheld")],
               UNCHANGED <<conf, host>>
        PROVE  \E x : Ran(r, x)
    <3>1. req' = [req EXCEPT ![r] = Finished(req[r], "withheld")]
      BY <2>4 DEF Typed
    <3>2. "withheld" \in Endings /\ conf' = conf /\ host' = host
      BY <2>4, EndingsAre
    <3> QED BY <2>1, <2>4, <3>1, <3>2, MadeWithheld
  <2>5. ASSUME ExtractTickets(r), Ask(r, WithProgress(r, ~IsAuto(r)))
        PROVE  \E x : Ran(r, x)
    BY <2>1, <2>5, MadeAsks
  <2> QED BY <1>1, <2>3, <2>4, <2>5 DEF ReviewRun
<1>2. CASE DescribeRun(r)
  <2>1. /\ req[r].pc = "made" /\ req[r].cmd.tool \in Showing /\ ExtractTickets(r)
    BY <1>2 DEF DescribeRun, At, Showing
  <2>2. ASSUME req' = [req EXCEPT ![r] = Finished(@, "empty")], UNCHANGED <<conf, host>>
        PROVE  \E x : Ran(r, x)
    <3>1. req' = [req EXCEPT ![r] = Finished(req[r], "empty")]
      BY <2>2 DEF Typed
    <3>2. "empty" \in Endings /\ conf' = conf /\ host' = host
      BY <2>2, EndingsAre
    <3> QED BY <2>1, <3>1, <3>2, MadeWithheld
  <2>3. ASSUME Ask(r, WithProgress(r, ~IsAuto(r)))
        PROVE  \E x : Ran(r, x)
    BY <2>1, <2>3, MadeAsks
  <2> QED BY <1>2, <2>2, <2>3 DEF DescribeRun
<1>3. ASSUME req[r].pc = "made", req[r].cmd.tool \in Showing, Ask(r, WithProgress(r, TRUE)),
             UNCHANGED settings
      PROVE  \E x : Ran(r, x)
  BY <1>3, MadeAsks
<1>4. CASE AskRun(r) \/ AddDocsRun(r) \/ GenerateLabelsRun(r)
  BY <1>3, <1>4 DEF AskRun, AddDocsRun, GenerateLabelsRun, At, Showing
<1>5. ASSUME req[r].pc = "made", NEW how \in Endings, End(r, HostOf(r), how)
      PROVE  \E x : Ran(r, x)
  BY <1>5, MadeEnds
<1>6. CASE UpdateChangelogRun(r)
  BY <1>3, <1>5, <1>6, EndingsAre DEF UpdateChangelogRun, At, Showing
<1>7. CASE AskLineRun(r)
  <2>1. ASSUME Ask(r, HostOf(r)), UNCHANGED settings
        PROVE  \E x : Ran(r, x)
    <3>1. req[r].pc = "made" /\ Pr(r) \in PRs
      BY <1>7, OfRequest DEF AskLineRun, At
    <3>2. (\E x : Asked(r, x) /\ Read(r, x)) /\ Published(r, HostOf(r)) /\ conf' = conf
      BY <2>1, <3>1, AskAsks
    <3>3. host' = host
      BY <3>1, <3>2, PublishedNothing
    <3> QED BY <2>1, <3>1, <3>2, <3>3 DEF Ran
  <2> QED BY <1>5, <1>7, <2>1, EndingsAre DEF AskLineRun, At
<1>8. ASSUME req[r].pc = "made", req[r].cmd.tool \in {"help", "help_docs"},
             req' = [req EXCEPT ![r].pc = "asked"], UNCHANGED <<conf, settings, host>>
      PROVE  \E x : Ran(r, x)
  <2>1. \E x : Asked(r, x) /\ ReadNothing(r, x)
    BY <1>8, HelpAsks
  <2> QED BY <1>8, <2>1 DEF Ran
<1>9. CASE HelpDocsRun(r)
  BY <1>5, <1>8, <1>9, EndingsAre DEF HelpDocsRun, At
<1>10. CASE HelpRun(r)
  BY <1>5, <1>8, <1>10, EndingsAre DEF HelpRun, At
<1>11. CASE ConfigRun(r)
  BY <1>5, <1>11, EndingsAre DEF ConfigRun, At
<1> QED BY <1>1, <1>2, <1>4, <1>6, <1>7, <1>9, <1>10, <1>11 DEF RunTool

-----------------------------------------------------------------------------
\* What is published.

HostFields == {"commits", "merges", "reviews", "covered", "body", "text", "edits",
               "labels", "labelled", "raced", "log", "progress", "undeleted", "notice"}

\* h is g but for the fields of C.
Same(h, g, C) == \A f \in HostFields : f \notin C => h[f] = g[f]

LEMMA SameHas ==
    ASSUME NEW h, NEW g, NEW C, Same(h, g, C)
    PROVE  /\ "commits" \notin C => h.commits = g.commits
           /\ "merges" \notin C => h.merges = g.merges
           /\ "reviews" \notin C => h.reviews = g.reviews
           /\ "covered" \notin C => h.covered = g.covered
           /\ "body" \notin C => h.body = g.body
           /\ "text" \notin C => h.text = g.text
           /\ "edits" \notin C => h.edits = g.edits
           /\ "labels" \notin C => h.labels = g.labels
           /\ "labelled" \notin C => h.labelled = g.labelled
           /\ "raced" \notin C => h.raced = g.raced
           /\ "log" \notin C => h.log = g.log
           /\ "progress" \notin C => h.progress = g.progress
           /\ "undeleted" \notin C => h.undeleted = g.undeleted
           /\ "notice" \notin C => h.notice = g.notice
BY DEF Same, HostFields

LEMMA MineIn ==
    ASSUME Typed, NEW r \in Requests
    PROVE  Mine(r) \in Requests \X Nat
<1>1. req[r].ended \in Seq(Endings)
  BY DEF Typed, RequestGood, Request
<1> QED BY <1>1 DEF Mine

\* The progress comments that nobody has tried to delete in vain.
Pending(h) == h.progress \ h.undeleted

LEMMA WithoutProgressIs ==
    ASSUME NEW g \in HostGood, NEW r, NEW h \in WithoutProgress(g, r)
    PROVE  /\ h \in HostGood /\ Same(h, g, {"progress", "undeleted"})
           /\ Pending(h) \subseteq Pending(g) /\ Mine(r) \notin Pending(h)
<1> DEFINE p == g.progress \ {Mine(r)}
           u == g.undeleted \cup (g.progress \cap {Mine(r)})
<1>1. h = [g EXCEPT !.progress = p] \/ h = [g EXCEPT !.undeleted = u]
  BY DEF WithoutProgress
<1>2. g \in Host /\ Len(g.commits) \in 1 .. MaxCommits
  BY DEF HostGood
<1>3. p \in SUBSET (Requests \X Nat) /\ u \in SUBSET (Requests \X Nat)
  BY <1>2 DEF Host
<1> HIDE DEF p, u
<1>4. /\ h \in Host /\ Same(h, g, {"progress", "undeleted"})
      /\ \/ h.progress = p /\ h.undeleted = g.undeleted
         \/ h.progress = g.progress /\ h.undeleted = u
  <2>1. CASE h = [g EXCEPT !.progress = p]
    BY <1>2, <1>3, <2>1 DEF Host, Same, HostFields
  <2>2. CASE h = [g EXCEPT !.undeleted = u]
    BY <1>2, <1>3, <2>2 DEF Host, Same, HostFields
  <2> QED BY <1>1, <2>1, <2>2
<1>5. h.commits = g.commits
  BY <1>4, SameHas
<1>6. Pending(h) \subseteq Pending(g) /\ Mine(r) \notin Pending(h)
  BY <1>4 DEF Pending, p, u
<1> QED BY <1>2, <1>4, <1>5, <1>6 DEF HostGood

LEMMA PublishLabelsIs ==
    ASSUME NEW g \in HostGood, NEW ls \in SUBSET Labels
    PROVE  \E h : /\ h = PublishLabels(g, ls) /\ h \in HostGood
                  /\ Same(h, g, {"labels"}) /\ ls \subseteq h.labels
<1> DEFINE h == PublishLabels(g, ls)
           x == IF Provider \in {"azure", "gitea"} THEN g.labels \cup ls ELSE ls
<1>1. h = [g EXCEPT !.labels = x]
  BY DEF PublishLabels
<1>2. g \in Host /\ Len(g.commits) \in 1 .. MaxCommits
  BY DEF HostGood
<1>3. x \in SUBSET Labels /\ ls \subseteq x
  BY <1>2 DEF Host
<1> HIDE DEF x
<1>4. h \in Host /\ h.labels = x /\ Same(h, g, {"labels"})
  BY <1>1, <1>2, <1>3 DEF Host, Same, HostFields
<1>5. h.commits = g.commits
  BY <1>4, SameHas
<1> QED BY <1>2, <1>3, <1>4, <1>5 DEF HostGood

\* The user's label is among those that are published, if it is among those
\* that are read.
KeepsLabel(r, h, g) ==
    /\ "mine" \in g.labels
    /\ req[r].cmd.tool \in LabelsReadEarly => "mine" \in req[r].cmd.labels
    => "mine" \in h.labels

LEMMA SameIsSame ==
    ASSUME NEW g, NEW C
    PROVE  Same(g, g, C)
BY DEF Same

LEMMA LabelsOf ==
    ASSUME Typed, NEW r \in Requests, NEW g \in HostGood, NEW update
    PROVE  /\ GetPrLabels(g, req[r].cmd.labels, update) \in SUBSET Labels
           /\ "mine" \in Labels /\ "effort" \in Labels /\ "type" \in Labels
<1>1. g.labels \in SUBSET Labels
  BY HostHas
<1>2. req[r].cmd.labels \in SUBSET Labels
  BY DEF Typed, RequestGood, Request, RunningCommand
<1> QED BY <1>1, <1>2 DEF GetPrLabels, Labels

LEMMA ReviewLabelsIs ==
    ASSUME Typed, NEW r \in Requests, NEW g \in HostGood, req[r].cmd.tool = "review"
    PROVE  \E h : /\ h = SetReviewLabels(r, g) /\ h \in HostGood
                  /\ Same(h, g, {"labels"}) /\ KeepsLabel(r, h, g)
<1> DEFINE old == GetPrLabels(g, req[r].cmd.labels, TRUE)
           ls == {"effort"} \cup (old \ {"effort"})
<1>1. CASE SupportsLabels
  <2>1. ls \in SUBSET Labels
    BY LabelsOf
  <2>2. "mine" \in old => "mine" \in ls
    OBVIOUS
  <2>3. SetReviewLabels(r, g) = PublishLabels(g, ls)
    BY <1>1 DEF SetReviewLabels
  <2>4. "mine" \in g.labels
        /\ (req[r].cmd.tool \in LabelsReadEarly => "mine" \in req[r].cmd.labels)
        => "mine" \in old
    BY DEF LabelsReadEarly, GetPrLabels
  <2> HIDE DEF ls, old
  <2> PICK h : /\ h = PublishLabels(g, ls) /\ h \in HostGood
               /\ Same(h, g, {"labels"}) /\ ls \subseteq h.labels
    BY <2>1, PublishLabelsIs
  <2>5. KeepsLabel(r, h, g)
    BY <2>2, <2>4 DEF KeepsLabel
  <2> QED BY <2>3, <2>5
<1>2. CASE ~SupportsLabels
  BY <1>2, SameIsSame DEF SetReviewLabels, KeepsLabel
<1> QED BY <1>1, <1>2

LEMMA DescribeLabelsIs ==
    ASSUME Typed, NEW r \in Requests, NEW g \in HostGood, req[r].cmd.tool = "describe",
           NEW answer
    PROVE  \E h : /\ h = DescribeLabels(r, g, answer) /\ h \in HostGood
                  /\ Same(h, g, {"labels"}) /\ KeepsLabel(r, h, g)
<1> DEFINE old == GetPrLabels(g, req[r].cmd.labels, TRUE)
           ls == {"type"} \cup GetUserLabels(old)
<1>1. CASE SupportsLabels /\ "type" \in answer /\ "labels" \in conf.flags
  <2>1. ls \in SUBSET Labels
    BY LabelsOf DEF GetUserLabels
  <2>2. "mine" \in old => "mine" \in ls
    BY DEF GetUserLabels
  <2>3. DescribeLabels(r, g, answer) = PublishLabels(g, ls)
    BY <1>1 DEF DescribeLabels
  <2>4. "mine" \in g.labels
        /\ (req[r].cmd.tool \in LabelsReadEarly => "mine" \in req[r].cmd.labels)
        => "mine" \in old
    BY DEF LabelsReadEarly, GetPrLabels
  <2> HIDE DEF ls, old
  <2> PICK h : /\ h = PublishLabels(g, ls) /\ h \in HostGood
               /\ Same(h, g, {"labels"}) /\ ls \subseteq h.labels
    BY <2>1, PublishLabelsIs
  <2>5. KeepsLabel(r, h, g)
    BY <2>2, <2>4 DEF KeepsLabel
  <2> QED BY <2>3, <2>5
<1>2. CASE ~(SupportsLabels /\ "type" \in answer /\ "labels" \in conf.flags)
  BY <1>2, SameIsSame DEF DescribeLabels, KeepsLabel
<1> QED BY <1>1, <1>2

LEMMA GeneratedLabelsIs ==
    ASSUME Typed, NEW r \in Requests, NEW g \in HostGood,
           req[r].cmd.tool = "generate_labels"
    PROVE  \E h : /\ h = (IF SupportsLabels
                          THEN PublishLabels(g, {"type"} \cup
                                  GetUserLabels(GetPrLabels(g, req[r].cmd.labels, FALSE)))
                          ELSE g)
                  /\ h \in HostGood /\ Same(h, g, {"labels"}) /\ KeepsLabel(r, h, g)
<1> DEFINE old == GetPrLabels(g, req[r].cmd.labels, FALSE)
           ls == {"type"} \cup GetUserLabels(old)
<1>1. CASE SupportsLabels
  <2>1. ls \in SUBSET Labels
    BY LabelsOf DEF GetUserLabels
  <2>2. "mine" \in old => "mine" \in ls
    BY DEF GetUserLabels
  <2>4. "mine" \in g.labels
        /\ (req[r].cmd.tool \in LabelsReadEarly => "mine" \in req[r].cmd.labels)
        => "mine" \in old
    BY DEF LabelsReadEarly, GetPrLabels
  <2> HIDE DEF ls
  <2> PICK h : /\ h = PublishLabels(g, ls) /\ h \in HostGood
               /\ Same(h, g, {"labels"}) /\ ls \subseteq h.labels
    BY <2>1, PublishLabelsIs
  <2>5. KeepsLabel(r, h, g)
    BY <2>2, <2>4 DEF KeepsLabel
  <2> QED BY <1>1, <2>5 DEF ls
<1>2. CASE ~SupportsLabels
  BY <1>2, SameIsSame DEF KeepsLabel
<1> QED BY <1>1, <1>2

\* The review is appended, or edited, or the edit fails unnoticed.
Reviewed(r, h, g) ==
    \/ h.reviews = g.reviews /\ g.covered \subseteq h.covered
    \/ /\ req[r].cmd.tool = "review" /\ h.commits = g.commits
       /\ Len(h.reviews) = Len(g.reviews) + 1
       /\ g.covered \cup req[r].cmd.sees \subseteq h.covered

LEMMA PublishReviewIs ==
    ASSUME Typed, NEW r \in Requests, req[r].cmd.tool = "review", NEW g \in HostGood,
           NEW h \in PublishReview(r, g)
    PROVE  h \in HostGood /\ Same(h, g, {"reviews", "covered"}) /\ Reviewed(r, h, g)
<1> DEFINE cs == g.covered \cup req[r].cmd.sees
           seen == [g EXCEPT !.covered = cs]
           kind == IF req[r].cmd.inc.is THEN "incremental" ELSE "full"
           rs == Append(g.reviews, kind)
           new == [seen EXCEPT !.reviews = rs]
<1>1. g \in Host /\ Len(g.commits) \in 1 .. MaxCommits /\ g.reviews \in Seq(Kinds)
  BY HostHas
<1>2. cs \in SUBSET Nat /\ g.covered \subseteq cs /\ req[r].cmd.sees \subseteq cs
  <2>1. req[r].cmd.sees \in SUBSET (1 .. MaxCommits)
    BY DEF Typed, RequestGood, Request, RunningCommand
  <2> QED BY <1>1, <2>1 DEF Host
<1>3. rs \in Seq(Kinds) /\ Len(rs) = Len(g.reviews) + 1
  BY <1>1 DEF Kinds
<1>4. h = seen \/ h = g \/ h = new
  BY DEF PublishReview
<1> HIDE DEF cs, rs
<1>5. /\ seen \in Host /\ seen.covered = cs /\ seen.reviews = g.reviews
      /\ Same(seen, g, {"reviews", "covered"})
  BY <1>1, <1>2 DEF Host, Same, HostFields
<1> HIDE DEF seen
<1>6. /\ new \in Host /\ new.covered = cs /\ new.reviews = rs
      /\ Same(new, seen, {"reviews"})
  BY <1>3, <1>5 DEF Host, Same, HostFields
<1>7. Same(new, g, {"reviews", "covered"})
  BY <1>5, <1>6 DEF Same
<1> HIDE DEF new
<1>8. Same(h, g, {"reviews", "covered"}) /\ h \in Host
  BY <1>1, <1>4, <1>5, <1>6, <1>7, SameIsSame
<1>9. h.commits = g.commits
  BY <1>8, SameHas
<1>10. Reviewed(r, h, g)
  BY <1>2, <1>3, <1>4, <1>5, <1>6, <1>9 DEF Reviewed, cs
<1> QED BY <1>1, <1>8, <1>9, <1>10 DEF HostGood

\* The description becomes what the tool has made of the text it read.
Rewritten(r, h, answer) ==
    IF "markers" \in conf.flags
    THEN h.body = PreparePrAnswerWithMarkers(req[r].cmd.text, answer)
    ELSE /\ h.body = PreparePrAnswer(req[r].cmd.text, answer)
         /\ ToSet(h.body) \cap {"TYPE", "DESC"} = {} => "bare" \in h.raced

Described(r, h, g) ==
    \/ h.body = g.body
    \/ req[r].cmd.tool = "describe" /\ \E answer \in Answers : Rewritten(r, h, answer)

LEMMA PublishDescriptionIs ==
    ASSUME Typed, NEW r \in Requests, req[r].cmd.tool = "describe", NEW g \in HostGood,
           NEW answer \in Answers
    PROVE  \E h : /\ h = PublishDescription(r, g, answer) /\ h \in HostGood
                  /\ Same(h, g, {"body", "raced"}) /\ Described(r, h, g)
                  /\ g.raced \subseteq h.raced /\ h.raced \subseteq g.raced \cup {"bare"}
<1> DEFINE text == req[r].cmd.text
           body == IF "markers" \in conf.flags THEN PreparePrAnswerWithMarkers(text, answer)
                   ELSE PreparePrAnswer(text, answer)
           raced == IF "markers" \notin conf.flags /\ ToSet(body) \cap {"TYPE", "DESC"} = {}
                    THEN g.raced \cup {"bare"} ELSE g.raced
           h == PublishDescription(r, g, answer)
<1>1. g \in Host /\ Len(g.commits) \in 1 .. MaxCommits
  BY HostHas
<1>2. CASE conf.server \in {"bitbucket", "polling"} \/ "as comment" \in conf.flags
  BY <1>1, <1>2, SameIsSame DEF PublishDescription, Described
<1>3. CASE ~(conf.server \in {"bitbucket", "polling"} \/ "as comment" \in conf.flags)
  <2>1. text \in Seq(Pieces)
    BY DEF Typed, RequestGood, Request, RunningCommand
  <2>2. body \in Seq(Pieces)
    <3>1. PreparePrAnswer(text, answer) \in Seq(Pieces)
      <4>1. "user" \notin answer
        BY DEF Answers
      <4>2. {"USER", "TYPE", "DESC", "DIAGRAM", "FILES", "rule", "ai"} \subseteq Pieces
        BY DEF Pieces, Headers
      <4> QED BY <2>1, <4>1, <4>2, AnswerOver
    <3>2. PreparePrAnswerWithMarkers(text, answer) \in Seq(Pieces)
      <4>1. /\ Len(text) \in Nat /\ DOMAIN text = 1 .. Len(text)
            /\ \A i \in 1 .. Len(text) : text[i] \in Pieces
        BY <2>1
      <4>2. {"ai", "FILES"} \subseteq Pieces
        BY DEF Pieces
      <4>3. PreparePrAnswerWithMarkers(text, answer) \in [1 .. Len(text) -> Pieces]
        BY <4>1, <4>2 DEF PreparePrAnswerWithMarkers
      <4> QED BY <4>1, <4>3
    <3> QED BY <3>1, <3>2
  <2>3. /\ raced \in SUBSET {"body", "bare", "label", "commit"}
        /\ g.raced \subseteq raced /\ raced \subseteq g.raced \cup {"bare"}
    BY <1>1 DEF Host
  <2>4. h = [g EXCEPT !.body = body, !.raced = raced]
    BY <1>3 DEF PublishDescription
  <2>5. body = PreparePrAnswerWithMarkers(text, answer) \/ "markers" \notin conf.flags
    OBVIOUS
  <2>6. /\ "markers" \notin conf.flags => body = PreparePrAnswer(text, answer)
        /\ "markers" \notin conf.flags /\ ToSet(body) \cap {"TYPE", "DESC"} = {}
              => "bare" \in raced
    OBVIOUS
  <2> HIDE DEF body, raced
  <2>7. h \in Host /\ h.body = body /\ h.raced = raced /\ Same(h, g, {"body", "raced"})
    <3>1. h \in Host
      <4>1. ASSUME NEW x \in Host, NEW y \in Seq(Pieces),
                   NEW z \in SUBSET {"body", "bare", "label", "commit"}
            PROVE  [x EXCEPT !.body = y, !.raced = z] \in Host
        BY DEF Host
      <4> HIDE DEF h
      <4>2. g \in Host /\ body \in Seq(Pieces)
            /\ raced \in SUBSET {"body", "bare", "label", "commit"}
        BY <1>1, <2>2, <2>3
      <4>3. [g EXCEPT !.body = body, !.raced = raced] \in Host
        BY <4>1, <4>2
      <4> QED BY <2>4, <4>3
    <3>2. h.body = body /\ h.raced = raced
      BY <1>1, <2>4 DEF Host
    <3>3. Same(h, g, {"body", "raced"})
      BY <1>1, <2>4 DEF Host, Same, HostFields
    <3> QED BY <3>1, <3>2, <3>3
  <2>8. h.commits = g.commits
    BY <2>7, SameHas
  <2> HIDE DEF h
  <2>9. Described(r, h, g)
    BY <2>5, <2>6, <2>7 DEF Described, Rewritten
  <2>10. h = PublishDescription(r, g, answer)
    BY DEF h
  <2> QED BY <1>1, <2>3, <2>7, <2>8, <2>9, <2>10 DEF HostGood
<1> QED BY <1>2, <1>3

LEMMA PushChangelogIs ==
    ASSUME Typed, NEW r \in Requests, NEW g \in HostGood
    PROVE  \E h : /\ h = PushChangelogUpdate(r, g) /\ h \in HostGood
                  /\ Same(h, g, {"log", "commits", "raced"})
                  /\ g.raced \subseteq h.raced /\ h.raced \subseteq g.raced \cup {"commit"}
                  /\ h.commits = g.commits \/ "commit" \in h.raced
<1> DEFINE log == {r} \cup req[r].cmd.log
           cs == Append(g.commits, Len(g.reviews))
           raced == g.raced \cup {"commit"}
           h == PushChangelogUpdate(r, g)
<1>1. /\ g \in Host /\ Len(g.commits) \in 1 .. MaxCommits /\ g.commits \in Seq(Nat)
      /\ Len(g.reviews) \in Nat /\ MaxCommits \in Nat
  BY HostHas, PullRequestAssumption
<1>2. CASE Len(g.commits) < MaxCommits
  <2>1. log \in SUBSET Requests
    BY DEF Typed, RequestGood, Request, RunningCommand
  <2>2. cs \in Seq(Nat) /\ Len(cs) \in 1 .. MaxCommits
    BY <1>1, <1>2
  <2>3. raced \in SUBSET {"body", "bare", "label", "commit"}
    BY <1>1 DEF Host
  <2>4. h = [g EXCEPT !.log = log, !.commits = cs, !.raced = raced]
    BY <1>2 DEF PushChangelogUpdate
  <2> HIDE DEF log, cs
  <2>5. /\ h \in Host /\ h.commits = cs /\ h.raced = raced
        /\ Same(h, g, {"log", "commits", "raced"})
    BY <1>1, <2>1, <2>2, <2>3, <2>4 DEF Host, Same, HostFields
  <2> QED BY <2>2, <2>5 DEF HostGood
<1>3. CASE ~(Len(g.commits) < MaxCommits)
  BY <1>1, <1>3, SameIsSame DEF PushChangelogUpdate
<1> QED BY <1>2, <1>3

\* What a tool may make of a pull request before and while it publishes; how is
\* the way in which it ends.
Leaves(r, h) ==
    /\ h \in HostGood
    /\ h.text = HostOf(r).text /\ h.edits = HostOf(r).edits
    /\ h.labelled = HostOf(r).labelled /\ h.notice = HostOf(r).notice
    /\ HostOf(r).raced \subseteq h.raced
    /\ h.raced \subseteq HostOf(r).raced \cup {"bare", "commit"}
    /\ h.commits = HostOf(r).commits \/ "commit" \in h.raced
    /\ h.merges = HostOf(r).merges
    /\ Pending(h) \subseteq Pending(HostOf(r))
    /\ Reviewed(r, h, HostOf(r)) /\ Described(r, h, HostOf(r))
    /\ KeepsLabel(r, h, HostOf(r))

Clears(r, h, how) ==
    req[r].cmd.tool \in Showing /\ how \notin {"failed", "withheld"}
    => Mine(r) \notin Pending(h)

LEMMA LeavesAlone ==
    ASSUME NEW r, HostOf(r) \in HostGood
    PROVE  Leaves(r, HostOf(r))
BY DEF Leaves, Reviewed, Described, KeepsLabel

LEMMA LeavesCleared ==
    ASSUME NEW r, NEW g, Leaves(r, g), NEW h \in WithoutProgress(g, r)
    PROVE  Leaves(r, h) /\ Mine(r) \notin Pending(h)
<1>1. g \in HostGood
  BY DEF Leaves
<1> h \in HostGood /\ Same(h, g, {"progress", "undeleted"})
    /\ Pending(h) \subseteq Pending(g) /\ Mine(r) \notin Pending(h)
  BY <1>1, WithoutProgressIs
<1>2. /\ h.commits = g.commits /\ h.reviews = g.reviews /\ h.covered = g.covered
      /\ h.body = g.body /\ h.text = g.text /\ h.edits = g.edits /\ h.labels = g.labels
      /\ h.labelled = g.labelled /\ h.raced = g.raced /\ h.notice = g.notice
      /\ h.merges = g.merges
  BY SameHas
<1>3. /\ Reviewed(r, g, HostOf(r)) => Reviewed(r, h, HostOf(r))
      /\ Described(r, g, HostOf(r)) => Described(r, h, HostOf(r))
      /\ KeepsLabel(r, g, HostOf(r)) => KeepsLabel(r, h, HostOf(r))
  BY <1>2 DEF Reviewed, Described, Rewritten, KeepsLabel
<1>4. Leaves(r, h)
  BY <1>2, <1>3 DEF Leaves
<1> QED BY <1>4

\* A tool that has set labels.
LEMMA LeavesLabels ==
    ASSUME NEW r, HostOf(r) \in HostGood, NEW h \in HostGood,
           Same(h, HostOf(r), {"labels"}), KeepsLabel(r, h, HostOf(r))
    PROVE  Leaves(r, h)
<1>1. /\ h.commits = HostOf(r).commits /\ h.reviews = HostOf(r).reviews
      /\ h.covered = HostOf(r).covered
      /\ h.body = HostOf(r).body /\ h.text = HostOf(r).text /\ h.edits = HostOf(r).edits
      /\ h.labelled = HostOf(r).labelled /\ h.raced = HostOf(r).raced
      /\ h.notice = HostOf(r).notice /\ h.progress = HostOf(r).progress
      /\ h.merges = HostOf(r).merges /\ h.undeleted = HostOf(r).undeleted
  BY SameHas
<1> QED BY <1>1 DEF Leaves, Reviewed, Described, Pending

LEMMA LeavesReviewed ==
    ASSUME NEW r, HostOf(r) \in HostGood, NEW g \in HostGood, NEW h \in HostGood,
           Same(g, HostOf(r), {"labels"}), KeepsLabel(r, g, HostOf(r)),
           Same(h, g, {"reviews", "covered"}), Reviewed(r, h, g)
    PROVE  Leaves(r, h)
<1>1. /\ g.commits = HostOf(r).commits /\ g.reviews = HostOf(r).reviews
      /\ g.covered = HostOf(r).covered
      /\ g.body = HostOf(r).body /\ g.text = HostOf(r).text /\ g.edits = HostOf(r).edits
      /\ g.labelled = HostOf(r).labelled /\ g.raced = HostOf(r).raced
      /\ g.notice = HostOf(r).notice /\ g.progress = HostOf(r).progress
      /\ g.merges = HostOf(r).merges /\ g.undeleted = HostOf(r).undeleted
  BY SameHas
<1>2. /\ h.commits = g.commits /\ h.labels = g.labels
      /\ h.body = g.body /\ h.text = g.text /\ h.edits = g.edits
      /\ h.labelled = g.labelled /\ h.raced = g.raced
      /\ h.notice = g.notice /\ h.progress = g.progress
      /\ h.merges = g.merges /\ h.undeleted = g.undeleted
  BY SameHas
<1>3. Reviewed(r, h, HostOf(r)) /\ KeepsLabel(r, h, HostOf(r))
  BY <1>1, <1>2 DEF Reviewed, KeepsLabel
<1> QED BY <1>1, <1>2, <1>3 DEF Leaves, Described, Pending

LEMMA LeavesDescribed ==
    ASSUME NEW r, HostOf(r) \in HostGood, NEW g \in HostGood, NEW h \in HostGood,
           Same(g, HostOf(r), {"labels"}), KeepsLabel(r, g, HostOf(r)),
           Same(h, g, {"body", "raced"}), Described(r, h, g),
           g.raced \subseteq h.raced, h.raced \subseteq g.raced \cup {"bare"}
    PROVE  Leaves(r, h)
<1>1. /\ g.commits = HostOf(r).commits /\ g.reviews = HostOf(r).reviews
      /\ g.covered = HostOf(r).covered
      /\ g.body = HostOf(r).body /\ g.text = HostOf(r).text /\ g.edits = HostOf(r).edits
      /\ g.labelled = HostOf(r).labelled /\ g.raced = HostOf(r).raced
      /\ g.notice = HostOf(r).notice /\ g.progress = HostOf(r).progress
      /\ g.merges = HostOf(r).merges /\ g.undeleted = HostOf(r).undeleted
  BY SameHas
<1>2. /\ h.commits = g.commits /\ h.reviews = g.reviews /\ h.covered = g.covered
      /\ h.text = g.text /\ h.edits = g.edits /\ h.labels = g.labels
      /\ h.labelled = g.labelled /\ h.notice = g.notice /\ h.progress = g.progress
      /\ h.merges = g.merges /\ h.undeleted = g.undeleted
  BY SameHas
<1>3. Described(r, h, HostOf(r)) /\ KeepsLabel(r, h, HostOf(r))
  BY <1>1, <1>2 DEF Described, KeepsLabel
<1> QED BY <1>1, <1>2, <1>3 DEF Leaves, Reviewed, Pending

LEMMA LeavesPushed ==
    ASSUME NEW r, HostOf(r) \in HostGood, NEW g, Leaves(r, g), g.commits = HostOf(r).commits,
           g.reviews = HostOf(r).reviews, NEW h \in HostGood,
           Same(h, g, {"log", "commits", "raced"}),
           g.raced \subseteq h.raced, h.raced \subseteq g.raced \cup {"commit"},
           h.commits = g.commits \/ "commit" \in h.raced,
           g.body = HostOf(r).body
    PROVE  Leaves(r, h)
<1>1. /\ h.reviews = g.reviews /\ h.covered = g.covered /\ h.body = g.body
      /\ h.text = g.text /\ h.edits = g.edits /\ h.labels = g.labels
      /\ h.labelled = g.labelled /\ h.notice = g.notice /\ h.progress = g.progress
      /\ h.merges = g.merges /\ h.undeleted = g.undeleted
  BY SameHas
<1>2. Reviewed(r, h, HostOf(r)) /\ KeepsLabel(r, h, HostOf(r)) /\ Described(r, h, HostOf(r))
  BY <1>1 DEF Leaves, Reviewed, KeepsLabel, Described
<1> QED BY <1>1, <1>2 DEF Leaves, Pending

\* The command of request r ends, and leaves h.
Left(r, h, how, x) ==
    /\ req[r].pc = "asked" /\ conf' = conf /\ settings' = settings
    /\ Ended(r, how, x) /\ Leaves(r, h) /\ Clears(r, h, how)
    /\ host' = [host EXCEPT ![Pr(r)] =
                  IF Publishes(settings[Store(r)]) THEN h ELSE HostOf(r)]

LEMMA EndLeft ==
    ASSUME Typed, NEW r \in Requests, req[r].pc = "asked", NEW how \in Endings, NEW h,
           End(r, h, how), Leaves(r, h), Clears(r, h, how)
    PROVE  \E x, y, z : Left(r, x, y, z)
<1> PICK x : Ended(r, how, x)
  BY EndEnds
<1>1. host' = [host EXCEPT ![Pr(r)] = IF Publishes(settings[Store(r)]) THEN h ELSE host[Pr(r)]]
  BY DEF End, Published
<1>2. host[Pr(r)] = HostOf(r)
  BY DEF HostOf
<1>3. Left(r, h, how, x)
  BY <1>1, <1>2 DEF Left, End
<1> QED BY <1>3

\* A tool that shows nothing, and one that fails or has nothing to say.
LEMMA QuietLeft ==
    ASSUME Typed, NEW r \in Requests, req[r].pc = "asked", NEW how \in Endings,
           how \in {"failed", "withheld"} \/ req[r].cmd.tool \notin Showing,
           NEW h, End(r, h, how), Leaves(r, h)
    PROVE  \E x, y, z : Left(r, x, y, z)
<1>1. Clears(r, h, how)
  BY DEF Clears
<1> QED BY <1>1, EndLeft

\* A tool that has removed its progress comment.
LEMMA ClearedLeft ==
    ASSUME Typed, NEW r \in Requests, req[r].pc = "asked", NEW how \in Endings,
           NEW g, EndCleared(r, g, how), Leaves(r, g)
    PROVE  \E x, y, z : Left(r, x, y, z)
<1> PICK h \in WithoutProgress(g, r) : End(r, h, how)
  BY DEF EndCleared
<1> Leaves(r, h) /\ Mine(r) \notin Pending(h)
  BY LeavesCleared
<1>1. Clears(r, h, how)
  BY DEF Clears
<1> QED BY <1>1, EndLeft

LEMMA ReviewLeft ==
    ASSUME Typed, NEW r \in Requests, ReviewPublish(r)
    PROVE  \E x, y, z : Left(r, x, y, z)
<1>1. req[r].pc = "asked" /\ req[r].cmd.tool = "review"
  BY DEF ReviewPublish, At
<1>2. HostOf(r) \in HostGood /\ Leaves(r, HostOf(r))
  BY <1>1, OfRequest, LeavesAlone
<1>3. CASE Fail(r, HostOf(r))
  BY <1>1, <1>2, <1>3, EndingsAre, QuietLeft DEF Fail
<1>4. CASE EndCleared(r, HostOf(r), "empty")
  BY <1>1, <1>2, <1>4, EndingsAre, ClearedLeft
<1> PICK h : /\ h = SetReviewLabels(r, HostOf(r)) /\ h \in HostGood
             /\ Same(h, HostOf(r), {"labels"}) /\ KeepsLabel(r, h, HostOf(r))
  BY <1>1, <1>2, ReviewLabelsIs
<1>5. Leaves(r, h)
  BY <1>2, LeavesLabels
<1>6. CASE Fail(r, h) \/ End(r, h, "withheld")
  BY <1>1, <1>5, <1>6, EndingsAre, QuietLeft DEF Fail
<1>7. ASSUME NEW g \in PublishReview(r, h), EndCleared(r, g, "published")
      PROVE  \E x, y, z : Left(r, x, y, z)
  <2>1. g \in HostGood /\ Same(g, h, {"reviews", "covered"}) /\ Reviewed(r, g, h)
    BY <1>1, PublishReviewIs
  <2>2. Leaves(r, g)
    BY <1>2, <2>1, LeavesReviewed
  <2> QED BY <1>1, <1>7, <2>2, EndingsAre, ClearedLeft
<1> QED BY <1>3, <1>4, <1>6, <1>7 DEF ReviewPublish

LEMMA DescribeLeft ==
    ASSUME Typed, NEW r \in Requests, DescribePublish(r)
    PROVE  \E x, y, z : Left(r, x, y, z)
<1>1. req[r].pc = "asked" /\ req[r].cmd.tool = "describe"
  BY DEF DescribePublish, At
<1>2. HostOf(r) \in HostGood /\ Leaves(r, HostOf(r))
  BY <1>1, OfRequest, LeavesAlone
<1>3. CASE Fail(r, HostOf(r))
  BY <1>1, <1>2, <1>3, EndingsAre, QuietLeft DEF Fail
<1>4. CASE EndCleared(r, HostOf(r), "empty")
  BY <1>1, <1>2, <1>4, EndingsAre, ClearedLeft
<1>5. ASSUME NEW answer \in Answers, NEW h, h = DescribeLabels(r, HostOf(r), answer),
             \/ Fail(r, h)
             \/ EndCleared(r, PublishDescription(r, h, answer), "published")
      PROVE  \E x, y, z : Left(r, x, y, z)
  <2>1. /\ h \in HostGood /\ Same(h, HostOf(r), {"labels"})
        /\ KeepsLabel(r, h, HostOf(r))
    BY <1>1, <1>2, <1>5, DescribeLabelsIs
  <2>2. CASE Fail(r, h)
    <3>1. Leaves(r, h)
      BY <1>2, <2>1, LeavesLabels
    <3> QED BY <1>1, <2>2, <3>1, EndingsAre, QuietLeft DEF Fail
  <2>3. CASE EndCleared(r, PublishDescription(r, h, answer), "published")
    <3> PICK g : /\ g = PublishDescription(r, h, answer) /\ g \in HostGood
                 /\ Same(g, h, {"body", "raced"}) /\ Described(r, g, h)
                 /\ h.raced \subseteq g.raced /\ g.raced \subseteq h.raced \cup {"bare"}
      BY <1>1, <2>1, PublishDescriptionIs
    <3>1. Leaves(r, g)
      BY <1>2, <2>1, LeavesDescribed
    <3> QED BY <1>1, <2>3, <3>1, EndingsAre, ClearedLeft
  <2> QED BY <1>5, <2>2, <2>3
<1> QED BY <1>3, <1>4, <1>5 DEF DescribePublish

LEMMA LabelsLeft ==
    ASSUME Typed, NEW r \in Requests, GenerateLabelsPublish(r)
    PROVE  \E x, y, z : Left(r, x, y, z)
<1>1. req[r].pc = "asked" /\ req[r].cmd.tool = "generate_labels"
  BY DEF GenerateLabelsPublish, At
<1>2. HostOf(r) \in HostGood /\ Leaves(r, HostOf(r))
  BY <1>1, OfRequest, LeavesAlone
<1>3. CASE Fail(r, HostOf(r)) \/ End(r, HostOf(r), "withheld")
  BY <1>1, <1>2, <1>3, EndingsAre, QuietLeft DEF Fail
<1> PICK h : /\ h = (IF SupportsLabels
                     THEN PublishLabels(HostOf(r), {"type"} \cup
                             GetUserLabels(GetPrLabels(HostOf(r), req[r].cmd.labels, FALSE)))
                     ELSE HostOf(r))
             /\ h \in HostGood /\ Same(h, HostOf(r), {"labels"})
             /\ KeepsLabel(r, h, HostOf(r))
  BY <1>1, <1>2, GeneratedLabelsIs
<1>4. Leaves(r, h)
  BY <1>2, LeavesLabels
<1>5. CASE EndCleared(r, h, "published")
  BY <1>1, <1>4, <1>5, EndingsAre, ClearedLeft
<1> QED BY <1>3, <1>5 DEF GenerateLabelsPublish

LEMMA ChangelogLeft ==
    ASSUME Typed, NEW r \in Requests, UpdateChangelogPublish(r)
    PROVE  \E x, y, z : Left(r, x, y, z)
<1>1. req[r].pc = "asked" /\ req[r].cmd.tool = "update_changelog"
  BY DEF UpdateChangelogPublish, At
<1>2. HostOf(r) \in HostGood /\ Leaves(r, HostOf(r))
  BY <1>1, OfRequest, LeavesAlone
<1>3. CASE Fail(r, HostOf(r))
  BY <1>1, <1>2, <1>3, EndingsAre, QuietLeft DEF Fail
<1>4. ASSUME NEW h \in WithoutProgress(HostOf(r), r),
             \/ Fail(r, h)
             \/ End(r, h, "published")
             \/ End(r, PushChangelogUpdate(r, h), "published")
      PROVE  \E x, y, z : Left(r, x, y, z)
  <2>1. Leaves(r, h) /\ Mine(r) \notin Pending(h)
    BY <1>2, LeavesCleared
  <2>2. h \in HostGood /\ Same(h, HostOf(r), {"progress", "undeleted"})
    BY <1>2, WithoutProgressIs
  <2>3. /\ h.commits = HostOf(r).commits
        /\ h.reviews = HostOf(r).reviews /\ h.body = HostOf(r).body
    BY <2>2, SameHas
  <2>4. CASE Fail(r, h)
    BY <1>1, <2>1, <2>4, EndingsAre, QuietLeft DEF Fail
  <2>5. CASE End(r, h, "published")
    BY <1>1, <2>1, <2>5, EndingsAre, EndLeft DEF Clears
  <2>6. CASE End(r, PushChangelogUpdate(r, h), "published")
    <3> PICK g : /\ g = PushChangelogUpdate(r, h) /\ g \in HostGood
                 /\ Same(g, h, {"log", "commits", "raced"})
                 /\ h.raced \subseteq g.raced /\ g.raced \subseteq h.raced \cup {"commit"}
                 /\ g.commits = h.commits \/ "commit" \in g.raced
      BY <2>2, PushChangelogIs
    <3>1. Leaves(r, g)
      BY <1>2, <2>1, <2>3, LeavesPushed
    <3>2. g.progress = h.progress /\ g.undeleted = h.undeleted
      BY SameHas
    <3>3. Mine(r) \notin Pending(g)
      BY <2>1, <3>2 DEF Pending
    <3> QED BY <1>1, <2>6, <3>1, <3>3, EndingsAre, EndLeft DEF Clears
  <2> QED BY <1>4, <2>4, <2>5, <2>6
<1> QED BY <1>3, <1>4 DEF UpdateChangelogPublish

LEMMA PublishIs ==
    ASSUME Typed, NEW r \in Requests, PublishTool(r)
    PROVE  \E x, y, z : Left(r, x, y, z)
<1>1. req[r].pc = "asked"
  BY DEF PublishTool, ReviewPublish, DescribePublish, AskPublish, AskLinePublish,
         AddDocsPublish, GenerateLabelsPublish, UpdateChangelogPublish, HelpDocsPublish,
         HelpPublish, At
<1>2. HostOf(r) \in HostGood /\ Leaves(r, HostOf(r))
  BY <1>1, OfRequest, LeavesAlone
<1>3. ASSUME req[r].cmd.tool \notin Showing, NEW how \in Endings, End(r, HostOf(r), how)
      PROVE  \E x, y, z : Left(r, x, y, z)
  BY <1>1, <1>2, <1>3, QuietLeft
<1>4. CASE AskPublish(r)
  BY <1>1, <1>2, <1>4, EndingsAre, QuietLeft, ClearedLeft DEF AskPublish, Fail
<1>5. CASE AddDocsPublish(r)
  BY <1>1, <1>2, <1>5, EndingsAre, QuietLeft, ClearedLeft DEF AddDocsPublish, Fail
<1>6. CASE AskLinePublish(r) \/ HelpDocsPublish(r) \/ HelpPublish(r)
  BY <1>3, <1>6, EndingsAre
     DEF AskLinePublish, HelpDocsPublish, HelpPublish, At, Showing
<1> QED BY <1>4, <1>5, <1>6, ReviewLeft, DescribeLeft, LabelsLeft, ChangelogLeft
        DEF PublishTool

-----------------------------------------------------------------------------
\* What people do, and the polling loop.

LEMMA RacedIs ==
    ASSUME NEW g \in HostGood, NEW what \in {"body", "label", "commit"}, NEW racing \in BOOLEAN
    PROVE  \E h : /\ h = Raced(g, what, racing) /\ h \in HostGood
                  /\ Same(h, g, {"raced"})
                  /\ h.raced = IF racing THEN g.raced \cup {what} ELSE g.raced
<1> DEFINE x == IF racing THEN g.raced \cup {what} ELSE g.raced
           h == Raced(g, what, racing)
<1>1. g \in Host /\ Len(g.commits) \in 1 .. MaxCommits
  BY HostHas
<1>2. x \in SUBSET {"body", "bare", "label", "commit"}
  BY <1>1 DEF Host
<1>3. h = [g EXCEPT !.raced = x]
  BY DEF Raced
<1> HIDE DEF x
<1>4. h \in Host /\ h.raced = x /\ Same(h, g, {"raced"})
  BY <1>1, <1>2, <1>3 DEF Host, Same, HostFields
<1>5. h.commits = g.commits
  BY <1>4, SameHas
<1>6. h = Raced(g, what, racing) /\ x = IF racing THEN g.raced \cup {what} ELSE g.raced
  BY DEF x
<1> HIDE DEF h
<1> QED BY <1>1, <1>4, <1>5, <1>6 DEF HostGood

Pushed(p, h) ==
    /\ h \in HostGood /\ Same(h, host[p], {"commits", "merges", "raced"})
    /\ host[p].merges \subseteq h.merges
    /\ \E seen \in 0 .. Len(host[p].reviews) :
          /\ h.commits = Append(host[p].commits, seen)
          /\ h.raced = IF seen < Len(host[p].reviews) \/ Busy(p)
                       THEN host[p].raced \cup {"commit"} ELSE host[p].raced
    /\ host' = [host EXCEPT ![p] = h]

Edited(p, h) ==
    /\ h \in HostGood /\ Same(h, host[p], {"body", "text", "edits", "raced"})
    /\ h.text \in UserTexts /\ h.body = h.text
    /\ h.raced = IF Running(p, {"describe"})
                 THEN host[p].raced \cup {"body"} ELSE host[p].raced
    /\ host' = [host EXCEPT ![p] = h]

Labelled(p, h) ==
    /\ h \in HostGood /\ Same(h, host[p], {"labels", "labelled", "raced"})
    /\ "mine" \in h.labels
    /\ ~host[p].labelled
    /\ h.raced = IF Running(p, LabelsReadEarly)
                 THEN host[p].raced \cup {"label"} ELSE host[p].raced
    /\ host' = [host EXCEPT ![p] = h]

LEMMA PushIs ==
    ASSUME Typed, NEW p \in PRs, PushCommit(p)
    PROVE  \E h : Pushed(p, h)
<1> DEFINE n == Len(host[p].commits) + 1
<1>1. /\ host[p] \in HostGood /\ host[p] \in Host /\ Len(host[p].commits) \in 1 .. MaxCommits
      /\ host[p].commits \in Seq(Nat) /\ Len(host[p].reviews) \in Nat
      /\ Len(host[p].commits) < MaxCommits /\ MaxCommits \in Nat
      /\ host[p].merges \in SUBSET Nat
  BY HostHas, PullRequestAssumption DEF Typed, PushCommit
<1>2. n \in Nat
  BY <1>1
<1> PICK seen \in 0 .. Len(host[p].reviews), merged \in SUBSET {n} :
       host' = [host EXCEPT ![p] =
                  Raced([host[p] EXCEPT !.commits = Append(host[p].commits, seen),
                                        !.merges = host[p].merges \cup merged], "commit",
                        seen < Len(host[p].reviews) \/ Busy(p))]
  BY DEF PushCommit, Typed
<1> HIDE DEF n
<1> DEFINE cs == Append(host[p].commits, seen)
           ms == host[p].merges \cup merged
           g == [host[p] EXCEPT !.commits = cs, !.merges = ms]
           racing == seen < Len(host[p].reviews) \/ Busy(p)
<1>3. cs \in Seq(Nat) /\ Len(cs) \in 1 .. MaxCommits
  BY <1>1
<1>4. ms \in SUBSET Nat /\ host[p].merges \subseteq ms
  BY <1>1, <1>2
<1> HIDE DEF cs, ms
<1>5. /\ g \in Host /\ g.commits = cs /\ g.merges = ms
      /\ Same(g, host[p], {"commits", "merges"})
  BY <1>1, <1>3, <1>4 DEF Host, Same, HostFields
<1>6. racing \in BOOLEAN
  BY DEF Busy
<1> HIDE DEF racing
<1>7. host' = [host EXCEPT ![p] = Raced(g, "commit", racing)]
  BY DEF cs, ms, racing
<1> HIDE DEF g
<1>8. g \in HostGood
  BY <1>3, <1>5 DEF HostGood
<1> PICK h : /\ h = Raced(g, "commit", racing) /\ h \in HostGood
             /\ Same(h, g, {"raced"})
             /\ h.raced = IF racing THEN g.raced \cup {"commit"} ELSE g.raced
  BY <1>6, <1>8, RacedIs
<1>9. Same(h, host[p], {"commits", "merges", "raced"})
  BY <1>5 DEF Same
<1>10. h.commits = g.commits /\ g.raced = host[p].raced /\ h.merges = g.merges
  BY <1>5, SameHas
<1>11. Pushed(p, h)
  BY <1>4, <1>5, <1>7, <1>9, <1>10 DEF Pushed, cs, racing
<1> QED BY <1>11

LEMMA EditIs ==
    ASSUME Typed, NEW p \in PRs, EditBody(p)
    PROVE  \E h : Edited(p, h)
<1> PICK t \in UserTexts :
       host' = [host EXCEPT ![p] =
                  Raced([host[p] EXCEPT !.body = t, !.text = t, !.edits = host[p].edits + 1],
                        "body", Running(p, {"describe"}))]
  BY DEF EditBody, Typed
<1> DEFINE n == host[p].edits + 1
           g == [host[p] EXCEPT !.body = t, !.text = t, !.edits = n]
           racing == Running(p, {"describe"})
<1>1. host[p] \in HostGood /\ host[p] \in Host /\ Len(host[p].commits) \in 1 .. MaxCommits
  BY HostHas DEF Typed
<1>2. t \in Seq(Pieces)
  <2>1. t \in Seq(Pieces \ Headers)
    BY PullRequestAssumption
  <2>2. \A i \in DOMAIN t : t[i] \in Pieces
    BY <2>1
  <2> QED BY <2>1, <2>2, SeqOver
<1> n \in Nat
  BY <1>1 DEF Host
<1> HIDE DEF n
<1>3. /\ g \in Host /\ g.body = t /\ g.text = t
      /\ Same(g, host[p], {"body", "text", "edits"})
  BY <1>1, <1>2 DEF Host, Same, HostFields
<1>4. racing \in BOOLEAN
  BY DEF Running
<1> HIDE DEF racing
<1>5. host' = [host EXCEPT ![p] = Raced(g, "body", racing)]
  BY DEF racing, n
<1> HIDE DEF g
<1>6. g.commits = host[p].commits /\ g.raced = host[p].raced
  BY <1>3, SameHas
<1>7. g \in HostGood
  BY <1>1, <1>3, <1>6 DEF HostGood
<1> PICK h : /\ h = Raced(g, "body", racing) /\ h \in HostGood
             /\ Same(h, g, {"raced"})
             /\ h.raced = IF racing THEN g.raced \cup {"body"} ELSE g.raced
  BY <1>4, <1>7, RacedIs
<1>8. Same(h, host[p], {"body", "text", "edits", "raced"})
  BY <1>3 DEF Same
<1>9. h.body = g.body /\ h.text = g.text
  BY SameHas
<1>10. Edited(p, h)
  BY <1>3, <1>5, <1>6, <1>8, <1>9 DEF Edited, racing
<1> QED BY <1>10

LEMMA LabelIs ==
    ASSUME Typed, NEW p \in PRs, AddLabel(p)
    PROVE  \E h : Labelled(p, h)
<1> DEFINE ls == host[p].labels \cup {"mine"}
           g == [host[p] EXCEPT !.labels = ls, !.labelled = TRUE]
           racing == Running(p, LabelsReadEarly)
<1>1. host[p] \in HostGood /\ host[p] \in Host /\ Len(host[p].commits) \in 1 .. MaxCommits
  BY HostHas DEF Typed
<1>2. ls \in SUBSET Labels /\ "mine" \in ls
  BY <1>1 DEF Host, Labels
<1>3. host' = [host EXCEPT ![p] = Raced(g, "label", racing)] /\ ~host[p].labelled
  BY DEF AddLabel, Typed
<1> HIDE DEF ls
<1>4. g \in Host /\ g.labels = ls /\ Same(g, host[p], {"labels", "labelled"})
  BY <1>1, <1>2 DEF Host, Same, HostFields
<1>5. racing \in BOOLEAN
  BY DEF Running
<1> HIDE DEF g, racing
<1>6. g.commits = host[p].commits /\ g.raced = host[p].raced
  BY <1>4, SameHas
<1>7. g \in HostGood
  BY <1>1, <1>4, <1>6 DEF HostGood
<1> PICK h : /\ h = Raced(g, "label", racing) /\ h \in HostGood
             /\ Same(h, g, {"raced"})
             /\ h.raced = IF racing THEN g.raced \cup {"label"} ELSE g.raced
  BY <1>5, <1>7, RacedIs
<1>8. Same(h, host[p], {"labels", "labelled", "raced"})
  BY <1>4 DEF Same
<1>9. h.labels = g.labels
  BY SameHas
<1>10. Labelled(p, h)
  BY <1>2, <1>3, <1>4, <1>6, <1>8, <1>9 DEF Labelled, racing
<1> QED BY <1>10

\* The polling loop only knows comments that are requests.
LEMMA LastIn ==
    ASSUME PollTypeOK, NEW S, S \subseteq DOMAIN poll.written
    PROVE  LastOf(S) \subseteq Requests
BY DEF PollTypeOK, LastOf

LEMMA NotificationIn ==
    ASSUME PollTypeOK, NEW r \in Requests, NEW v \in IsValidNotification(r)
    PROVE  v.handled \in SUBSET Requests /\ v.start \in Seq(Requests)
           /\ (v.start = <<>> \/ \E q \in Requests : v.start = <<q>>)
<1>1. PreviousComments(OnPr(r)) \subseteq Requests
  BY LastIn DEF PreviousComments, Comments
<1>2. \/ v = [handled |-> {}, start |-> <<>>] \/ v = [handled |-> {r}, start |-> <<>>]
      \/ \E q \in Requests : v = [handled |-> {r}, start |-> <<q>>]
  BY <1>1 DEF IsValidNotification
<1>3. ASSUME NEW q \in Requests, v = [handled |-> {r}, start |-> <<q>>]
      PROVE  v.handled = {r} /\ v.start = <<q>> /\ <<q>> \in Seq(Requests)
  BY <1>3
<1>4. ASSUME v = [handled |-> {}, start |-> <<>>] \/ v = [handled |-> {r}, start |-> <<>>]
      PROVE  v.handled \in {{}, {r}} /\ v.start = <<>> /\ <<>> \in Seq(Requests)
  BY <1>4
<1> QED BY <1>2, <1>3, <1>4

\* The record of the polling loop, field by field.
LEMMA PollRecord ==
    ASSUME PollTypeOK
    PROVE  poll = [written |-> poll.written, unread |-> poll.unread, batch |-> poll.batch,
                   queue |-> poll.queue, handled |-> poll.handled, started |-> poll.started]
BY DEF PollTypeOK

LEMMA PollIs ==
    ASSUME NEW w \in Seq(Requests), NEW u \in SUBSET PRs, NEW b \in SUBSET Requests,
           NEW q \in Seq(Requests), NEW d \in SUBSET Requests, NEW s \in [Requests -> Nat],
           poll' = [written |-> w, unread |-> u, batch |-> b, queue |-> q, handled |-> d,
                    started |-> s]
    PROVE  PollTypeOK'
BY DEF PollTypeOK

LEMMA CountIn ==
    ASSUME NEW n \in Nat, NEW T, T \subseteq 1 .. n
    PROVE  IsFiniteSet(T) /\ Cardinality(T) \in Nat
<1>1. IsFiniteSet(1 .. n)
  BY FS_Interval
<1>2. IsFiniteSet(T)
  BY <1>1, FS_Subset
<1> QED BY <1>2, FS_CardinalityType

LEMMA PollTyped ==
    ASSUME Typed, Poll
    PROVE  PollTypeOK'
<1>1. /\ PollTypeOK /\ poll.written \in Seq(Requests) /\ poll.queue \in Seq(Requests)
      /\ poll.unread \in SUBSET PRs /\ poll.batch \in SUBSET Requests
      /\ poll.handled \in SUBSET Requests /\ poll.started \in [Requests -> Nat]
  BY DEF Typed, PollTypeOK
<1>2. CASE FetchNotifications
  <2> DEFINE b == UNION {LastOf(Comments(p)) : p \in poll.unread}
  <2>1. b \in SUBSET Requests
    BY <1>1, LastIn DEF Comments
  <2>2. poll' = [poll EXCEPT !.batch = b]
    BY <1>2 DEF FetchNotifications
  <2> HIDE DEF b
  <2> QED BY <1>1, <2>1, <2>2 DEF PollTypeOK
<1>3. CASE HandleNotification
  <2> PICK r \in poll.batch : \E unread \in MarkNotificationAsRead(OnPr(r)),
                                 v \in IsValidNotification(r) :
         poll' = [poll EXCEPT !.batch = poll.batch \ {r}, !.unread = unread,
                              !.handled = poll.handled \cup v.handled,
                              !.queue = poll.queue \o v.start]
    BY <1>1, <1>3 DEF HandleNotification, PollTypeOK
  <2> PICK unread \in MarkNotificationAsRead(OnPr(r)), v \in IsValidNotification(r) :
         poll' = [poll EXCEPT !.batch = poll.batch \ {r}, !.unread = unread,
                              !.handled = poll.handled \cup v.handled,
                              !.queue = poll.queue \o v.start]
    OBVIOUS
  <2>1. unread \in SUBSET PRs
    BY <1>1 DEF MarkNotificationAsRead
  <2>2. v.handled \in SUBSET Requests /\ v.start \in Seq(Requests)
    BY <1>1, NotificationIn
  <2> DEFINE q == poll.queue \o v.start
             d == poll.handled \cup v.handled
  <2>3. q \in Seq(Requests) /\ d \in SUBSET Requests
    BY <1>1, <2>2
  <2>4. poll' = [poll EXCEPT !.batch = poll.batch \ {r}, !.unread = unread,
                             !.handled = d, !.queue = q]
    OBVIOUS
  <2> DEFINE b == poll.batch \ {r}
  <2>5. b \in SUBSET Requests
    BY <1>1
  <2>6. poll' = [poll EXCEPT !.batch = b, !.unread = unread, !.handled = d, !.queue = q]
    BY <2>4
  <2> HIDE DEF q, d, b
  <2> QED BY <1>1, <2>1, <2>3, <2>5, <2>6 DEF PollTypeOK
<1>4. CASE LoseQueue
  <2> PICK r \in poll.batch : \E unread \in MarkNotificationAsRead(OnPr(r)) :
         poll' = [poll EXCEPT !.batch = {}, !.unread = unread, !.queue = <<>>]
    BY <1>4 DEF LoseQueue
  <2> PICK unread \in MarkNotificationAsRead(OnPr(r)) :
         poll' = [poll EXCEPT !.batch = {}, !.unread = unread, !.queue = <<>>]
    OBVIOUS
  <2>1. unread \in SUBSET PRs
    BY <1>1 DEF MarkNotificationAsRead
  <2>3. <<>> \in Seq(Requests) /\ {} \in SUBSET Requests
    OBVIOUS
  <2> QED BY <1>1, <2>1, <2>3 DEF PollTypeOK
<1>5. CASE StartTasks
  <2> DEFINE n == IF Len(poll.queue) > MaxParallel + 2 THEN MaxParallel + 2
                  ELSE Len(poll.queue)
             count(r) == Cardinality({i \in 1 .. n : poll.queue[i] = r})
             st == [r \in Requests |-> poll.started[r] + count(r)]
  <2>1. n \in Nat
    BY <1>1, PollingAssumption
  <2>2. poll' = [poll EXCEPT !.queue = <<>>, !.started = st]
    BY <1>5 DEF StartTasks, PollTypeOK, Typed
  <2> HIDE DEF n
  <2>3. \A r \in Requests : count(r) \in Nat
    BY <2>1, CountIn
  <2> HIDE DEF count
  <2>4. st \in [Requests -> Nat]
    BY <1>1, <2>3
  <2> HIDE DEF st
  <2>5. poll' = [written |-> poll.written, unread |-> poll.unread, batch |-> poll.batch,
                 queue |-> <<>>, handled |-> poll.handled, started |-> st]
    BY <1>1, <2>2, PollRecord
  <2>6. <<>> \in Seq(Requests)
    OBVIOUS
  <2> QED BY <1>1, <2>4, <2>5, <2>6, PollIs
<1> QED BY <1>2, <1>3, <1>4, <1>5 DEF Poll

LEMMA WriteTyped ==
    ASSUME Typed, NEW r \in Requests, WriteComment(r)
    PROVE  PollTypeOK'
<1>1. /\ PollTypeOK /\ poll.written \in Seq(Requests) /\ poll.unread \in SUBSET PRs
  BY DEF Typed, PollTypeOK
<1> DEFINE w == Append(poll.written, r)
           u == IF /\ "own" \notin conf.events[r].facts
                   /\ \/ Asks(r)
                      \/ \E i \in Comments(OnPr(r)) : Asks(poll.written[i])
                THEN poll.unread \cup {OnPr(r)} ELSE poll.unread
<1>2. OnPr(r) \in PRs
  BY OfDeployment DEF Typed, WriteComment, OnPr, Pr
<1>3. w \in Seq(Requests) /\ u \in SUBSET PRs
  BY <1>1, <1>2
<1>4. poll' = [poll EXCEPT !.written = w, !.unread = u]
  BY DEF WriteComment
<1> HIDE DEF w, u
<1> QED BY <1>1, <1>3, <1>4 DEF PollTypeOK

-----------------------------------------------------------------------------
\* The types, step by step.

LEMMA ConfStays ==
    ASSUME conf' = conf
    PROVE  Options' = Options /\ RequestGood' = RequestGood
<1>1. Options' = Options
  BY DEF Options, AskedKeys
<1> QED BY <1>1 DEF RequestGood

LEMMA TypedStep ==
    ASSUME Typed, NEW r \in Requests, req[r].pc # "done",
           NEW x \in RequestGood, req' = [req EXCEPT ![r] = x], conf' = conf,
           settings' \in [Stores -> StoreType], host' \in [PRs -> HostGood], poll' = poll
    PROVE  Typed'
<1>1. req' \in [Requests -> RequestGood']
  BY ConfStays DEF Typed
<1>2. \A q \in Requests : req'[q].pc # "done" => q \in DOMAIN conf.events
  BY DEF Typed
<1>3. PollTypeOK'
  BY DEF Typed, PollTypeOK
<1> QED BY <1>1, <1>2, <1>3 DEF Typed

LEMMA TypedTickets ==
    ASSUME Typed, NEW r \in Requests, req[r].pc # "done",
           settings' = settings \/ ExtractTickets(r)
    PROVE  settings' \in [Stores -> StoreType]
<1>1. CASE settings' = settings
  BY <1>1 DEF Typed
<1>2. CASE ExtractTickets(r)
  <2> PICK s \in CachedTickets(settings[Store(r)], Pr(r)) :
         settings' = [settings EXCEPT ![Store(r)] = s]
    BY <1>2 DEF ExtractTickets
  <2>1. Serves(StoreType, r, Options) /\ settings[Store(r)] \in StoreType
    BY OfRequest
  <2>2. s \in StoreType
    BY <2>1 DEF CachedTickets, Serves, Closed
  <2> QED BY <2>2 DEF Typed
<1> QED BY <1>1, <1>2

LEMMA TypedStore ==
    ASSUME Typed, NEW r \in Requests, req[r].pc # "done", NEW s \in StoreType,
           settings' = [settings EXCEPT ![Store(r)] = s]
    PROVE  settings' \in [Stores -> StoreType]
BY DEF Typed

LEMMA TypedReceive ==
    ASSUME Typed, NEW r \in Requests, Receive(r), poll' = poll
    PROVE  Typed'
<1> PICK o, x : Received(r, o, x)
  BY ReceiveIs
<1>1. /\ o.s \in StoreType /\ o.broken \in BOOLEAN /\ x \in RequestGood
      /\ req' = [req EXCEPT ![r] = x] /\ conf' = conf /\ req[r].pc # "done"
      /\ settings' = [settings EXCEPT ![Store(r)] = o.s] /\ host' = Noticed(Pr(r), o.broken)
  BY DEF Received, Outcomes
<1>2. Pr(r) \in PRs
  BY <1>1, OfRequest
<1>3. settings' \in [Stores -> StoreType]
  BY <1>1, TypedStore
<1>4. host' \in [PRs -> HostGood]
  BY <1>1, <1>2, NoticedIs
<1> QED BY <1>1, <1>3, <1>4, TypedStep

LEMMA TypedCommand ==
    ASSUME Typed, NEW r \in Requests, NextCommand(r), poll' = poll
    PROVE  Typed'
<1> PICK c, o, k, x : Began(r, c, o, k, x)
  BY CommandIs
<1>1. /\ o.s \in StoreType /\ o.broken \in BOOLEAN /\ x \in RequestGood
      /\ req' = [req EXCEPT ![r] = x] /\ conf' = conf /\ req[r].pc # "done"
      /\ settings' = [settings EXCEPT ![Store(r)] = o.s] /\ host' = Noticed(Pr(r), o.broken)
  BY DEF Began, Results
<1>2. Pr(r) \in PRs
  BY <1>1, OfRequest
<1>3. settings' \in [Stores -> StoreType]
  BY <1>1, TypedStore
<1>4. host' \in [PRs -> HostGood]
  BY <1>1, <1>2, NoticedIs
<1> QED BY <1>1, <1>3, <1>4, TypedStep

\* The host after one pull request has changed.
LEMMA HostStep ==
    ASSUME Typed, NEW p \in PRs, NEW h \in HostGood, host' = [host EXCEPT ![p] = h]
    PROVE  /\ host' \in [PRs -> HostGood] /\ host'[p] = h
           /\ \A q \in PRs : q # p => host'[q] = host[q]
BY DEF Typed

LEMMA ShownIs ==
    ASSUME Typed, NEW r \in Requests, Pr(r) \in PRs, HostOf(r) \in HostGood, Shown(r)
    PROVE  \E h : /\ h \in HostGood /\ Same(h, HostOf(r), {"progress"})
                  /\ h.progress = HostOf(r).progress \cup {Mine(r)}
                  /\ host' = [host EXCEPT ![Pr(r)] = h]
<1> DEFINE p == HostOf(r).progress \cup {Mine(r)}
           h == [HostOf(r) EXCEPT !.progress = p]
<1>1. HostOf(r) \in Host /\ Len(HostOf(r).commits) \in 1 .. MaxCommits
  BY DEF HostGood
<1>2. p \in SUBSET (Requests \X Nat)
  BY <1>1, MineIn DEF Host
<1>3. host' = [host EXCEPT ![Pr(r)] = h]
  BY DEF Shown
<1> HIDE DEF p
<1>4. h \in Host /\ h.progress = p /\ Same(h, HostOf(r), {"progress"})
  BY <1>1, <1>2 DEF Host, Same, HostFields
<1>5. h.commits = HostOf(r).commits
  BY <1>4, SameHas
<1> HIDE DEF h
<1> QED BY <1>1, <1>3, <1>4, <1>5 DEF HostGood, p

LEMMA TypedRun ==
    ASSUME Typed, NEW r \in Requests, RunTool(r), poll' = poll
    PROVE  Typed'
<1> PICK x : Ran(r, x)
  BY RunIs
<1>1. /\ req[r].pc # "done" /\ conf' = conf /\ (settings' = settings \/ ExtractTickets(r))
      /\ x \in RequestGood /\ req' = [req EXCEPT ![r] = x]
  BY DEF Ran, Ended, Asked
<1>2. Pr(r) \in PRs /\ HostOf(r) \in HostGood
  BY <1>1, OfRequest
<1>3. settings' \in [Stores -> StoreType]
  BY <1>1, TypedTickets
<1>4. host' \in [PRs -> HostGood]
  <2>1. CASE host' = host
    BY <2>1 DEF Typed
  <2>2. CASE Shown(r)
    BY <1>2, <2>2, ShownIs, HostStep
  <2> QED BY <2>1, <2>2 DEF Ran
<1> QED BY <1>1, <1>3, <1>4, TypedStep

LEMMA TypedPublish ==
    ASSUME Typed, NEW r \in Requests, PublishTool(r), poll' = poll
    PROVE  Typed'
<1> PICK h, how, x : Left(r, h, how, x)
  BY PublishIs
<1>1. /\ req[r].pc # "done" /\ conf' = conf /\ settings' = settings
      /\ x \in RequestGood /\ req' = [req EXCEPT ![r] = x] /\ h \in HostGood
  BY DEF Left, Ended, Leaves
<1>2. Pr(r) \in PRs /\ HostOf(r) \in HostGood
  BY <1>1, OfRequest
<1>3. settings' \in [Stores -> StoreType]
  BY <1>1 DEF Typed
<1>4. host' \in [PRs -> HostGood]
  BY <1>1, <1>2, HostStep DEF Left
<1> QED BY <1>1, <1>3, <1>4, TypedStep

LEMMA TypedPeople ==
    ASSUME Typed, People, UNCHANGED <<conf, settings, req, poll>>
    PROVE  Typed'
<1>1. PICK p \in {Pr(r) : r \in DOMAIN conf.events} :
         PushCommit(p) \/ EditBody(p) \/ AddLabel(p)
  BY DEF People
<1>2. p \in PRs
  BY OfDeployment DEF Typed
<1>3. host' \in [PRs -> HostGood]
  BY <1>1, <1>2, PushIs, EditIs, LabelIs, HostStep DEF Pushed, Edited, Labelled
<1>4. RequestGood' = RequestGood
  BY ConfStays
<1> QED BY <1>3, <1>4 DEF Typed, PollTypeOK

\* The first state, and steps that write nothing of the requests.
LEMMA NewPrGood == NewPr \in HostGood
<1>1. <<0>> \in Seq(Nat) /\ Len(<<0>>) = 1 /\ <<>> \in Seq(Kinds) /\ <<>> \in Seq(Pieces)
  OBVIOUS
<1>2. 1 \in 1 .. MaxCommits
  BY PullRequestAssumption
<1> QED BY <1>1, <1>2 DEF NewPr, HostGood, Host

LEMMA NewRequestGood ==
    /\ NewRequest \in RequestGood /\ [NewRequest EXCEPT !.pc = "done"] \in RequestGood
    /\ NewRequest.pc = "sent" /\ [NewRequest EXCEPT !.pc = "done"].pc = "done"
<1>1. NoCommand \in RunningCommand /\ NoCommand.tool = "none" /\ MaxCommits \in Nat
  BY NoCommandIn, NoCommandHas, PullRequestAssumption
<1>2. <<>> \in Seq(Command) /\ <<>> \in Seq(Cmds(Options)) /\ <<>> \in Seq(Endings)
  OBVIOUS
<1>3. /\ NewRequest \in Request /\ NewRequest.cmd = NoCommand /\ NewRequest.todo = <<>>
      /\ NewRequest.pc = "sent"
  BY <1>1, <1>2 DEF NewRequest, Request
<1> DEFINE x == [NewRequest EXCEPT !.pc = "done"]
<1>4. x \in Request /\ x.cmd = NoCommand /\ x.todo = <<>> /\ x.pc = "done"
  BY <1>3 DEF Request
<1> HIDE DEF x
<1>5. x \in RequestGood /\ NewRequest \in RequestGood
  BY <1>1, <1>2, <1>3, <1>4 DEF RequestGood
<1> QED BY <1>3, <1>4, <1>5 DEF x

LEMMA TypedInit == Init => Typed
<1> SUFFICES ASSUME Init PROVE Typed
  OBVIOUS
<1>1. conf \in Deployments /\ settings = [x \in Stores |-> InitialSettings]
  BY DEF Init, InitSettings
<1>2. InitialSettings \in StoreType
  BY DEF InitialSettings, StoreType, Layer, Values
<1>3. host \in [PRs -> HostGood]
  BY NewPrGood DEF Init, InitHost
<1>4. /\ req \in [Requests -> RequestGood]
      /\ \A r \in Requests : req[r].pc # "done" => r \in DOMAIN conf.events
  BY NewRequestGood DEF Init, InitRequests
<1>5. PollTypeOK
  <2>1. <<>> \in Seq(Requests) /\ [r \in Requests |-> 0] \in [Requests -> Nat]
    OBVIOUS
  <2> QED BY <2>1 DEF Init, InitPoll, PollTypeOK
<1> QED BY <1>1, <1>2, <1>3, <1>4, <1>5 DEF Typed

LEMMA TypedNext == Typed /\ [Next]_vars => Typed'
<1> SUFFICES ASSUME Typed, [Next]_vars PROVE Typed'
  OBVIOUS
<1>1. ASSUME UNCHANGED <<conf, settings, host, req>>, PollTypeOK'
      PROVE  Typed'
  BY <1>1, ConfStays DEF Typed
<1>2. CASE UNCHANGED vars
  BY <1>1, <1>2 DEF vars, Typed, PollTypeOK
<1>3. ASSUME NEW r \in Requests, Arrive(r), UNCHANGED poll
      PROVE  Typed'
  BY <1>3, TypedReceive DEF Arrive
<1>4. ASSUME NEW r \in Requests, Work(r)
      PROVE  Typed'
  BY <1>4, TypedCommand, TypedRun, TypedPublish DEF Work
<1>5. ASSUME NEW r \in Requests, WriteComment(r), UNCHANGED <<conf, settings, host, req>>
      PROVE  Typed'
  BY <1>1, <1>5, WriteTyped
<1>6. CASE Poll /\ UNCHANGED <<conf, settings, host, req>>
  BY <1>1, <1>6, PollTyped
<1>7. CASE People /\ UNCHANGED <<conf, settings, req, poll>>
  BY <1>7, TypedPeople
<1> QED BY <1>2, <1>3, <1>4, <1>5, <1>6, <1>7 DEF Next

\* Whatever the deployment and its events are, settings, pull requests, requests
\* and the polling loop keep to their types, so that no step is undefined.
THEOREM TypesCorrectness == Spec => []ServiceTypeOK
<1>1. Typed => ServiceTypeOK
  <2> SUFFICES ASSUME Typed PROVE ServiceTypeOK
    OBVIOUS
  <2>1. SettingsTypeOK
    BY OfDeployment DEF Typed, SettingsTypeOK
  <2>2. HostTypeOK
    BY DEF Typed, HostGood, HostTypeOK
  <2>3. RequestTypeOK
    BY DEF Typed, RequestGood, RequestTypeOK
  <2> QED BY <2>1, <2>2, <2>3 DEF Typed, ServiceTypeOK
<1> QED BY <1>1, TypedInit, TypedNext, PTL DEF Spec

-----------------------------------------------------------------------------
\* Every step, as one of a request, one of people, or one of neither.

\* Request r moves on to x, and its pull request to h.
Moves(r, x, h) ==
    /\ r \in Requests /\ req[r].pc # "done" /\ Pr(r) \in PRs /\ HostOf(r) \in HostGood
    /\ x \in RequestGood /\ req' = [req EXCEPT ![r] = x] /\ conf' = conf
    /\ h \in HostGood /\ host'[Pr(r)] = h
    /\ \A p \in PRs : p # Pr(r) => Same(host'[p], host[p], {"notice"})
    /\ \A z \in Stores : z # Store(r) => settings'[z] = settings[z]

\* Its settings say still whether anything is published.
SaysAsBefore(r) == settings'[Store(r)]["publish"] = settings[Store(r)]["publish"]

\* The commands to come, one at most, turn publishing off.
Silent(x) ==
    /\ x.pc = "commands" => Len(x.todo) = 1 /\ "publish" \in Head(x.todo).keys
    /\ x.pc \in {"made", "asked"} => x.todo = <<>>

\* It is received, or a command ends without its tool.
Rests(r, x, h) ==
    /\ x.pc \in {"done", "commands"} /\ x.cmd.tool = "none"
    /\ Same(h, HostOf(r), {"notice"})
    /\ x.list = req[r].list /\ x.diff = req[r].diff
    /\ x.ended = req[r].ended \/ x.ended = Append(req[r].ended, "refused")
    /\ \/ req[r].pc = "sent" /\ (conf.server = "mosaico" => Silent(x))
       \/ req[r].pc = "commands" /\ x.todo \in {<<>>, Tail(req[r].todo)}

\* The tool of command c is created.
Makes(r, x, h, c) ==
    /\ req[r].pc = "commands" /\ x.pc = "made" /\ x.ended = req[r].ended
    /\ c = Head(req[r].todo) /\ x.todo = Tail(req[r].todo)
    /\ conf.server = "mosaico" /\ "publish" \in c.keys
          => settings'[Store(r)]["publish"] = Args(r)
    /\ c.tool # "none" /\ Same(h, HostOf(r), {"notice"})
    /\ \E k : /\ Constructed(r, c, k)
              /\ x.cmd = k.cmd /\ x.list = k.list /\ x.diff = k.diff

\* It asks the models.
Consults(r, x, h) ==
    /\ req[r].pc = "made" /\ Asked(r, x) /\ (Read(r, x) \/ ReadNothing(r, x))
    /\ SaysAsBefore(r)
    /\ \/ h = HostOf(r)
       \/ /\ Same(h, HostOf(r), {"progress"})
          /\ h.progress = HostOf(r).progress \cup {Mine(r)}
          /\ req[r].cmd.tool \in Showing /\ Publishes(settings[Store(r)])
          /\ Read(r, x)

\* Its command ends.
Ends(r, x, h) ==
    /\ req[r].pc \in {"made", "asked"}
    /\ \E how : /\ Ended(r, how, x)
                /\ \/ /\ h = HostOf(r)
                      /\ req[r].pc = "asked" => ~Publishes(settings[Store(r)])
                   \/ /\ req[r].pc = "asked" /\ Publishes(settings[Store(r)])
                      /\ Leaves(r, h) /\ Clears(r, h, how)

Steps(r, x, h) ==
    /\ Moves(r, x, h)
    /\ \/ Rests(r, x, h) \/ (\E c : Makes(r, x, h, c)) \/ Consults(r, x, h) \/ Ends(r, x, h)

\* People push, write or label; nothing else changes.
Meanwhile(p, h) ==
    /\ p \in PRs /\ host[p] \in HostGood
    /\ UNCHANGED <<conf, settings, req, poll>>
    /\ h \in HostGood /\ host'[p] = h /\ \A q \in PRs : q # p => host'[q] = host[q]
    /\ Pushed(p, h) \/ Edited(p, h) \/ Labelled(p, h)

LEMMA NoticedSame ==
    ASSUME Typed, NEW p \in PRs, NEW broken \in BOOLEAN, NEW x \in PRs
    PROVE  /\ Noticed(p, broken)[x] \in HostGood
           /\ Same(Noticed(p, broken)[x], host[x], {"notice"})
<1>0. \A y \in PRs : \E ok \in BOOLEAN : Noticed(p, broken)[y] = [host[y] EXCEPT !.notice = ok]
  BY NoticedIs
<1> PICK ok \in BOOLEAN : Noticed(p, broken)[x] = [host[x] EXCEPT !.notice = ok]
  BY <1>0
<1>1. host[x] \in Host
  BY DEF Typed, HostGood
<1>2. Same([host[x] EXCEPT !.notice = ok], host[x], {"notice"})
  BY <1>1 DEF Host, Same, HostFields
<1> QED BY <1>2, NoticedIs

LEMMA StoresStay ==
    ASSUME Typed, NEW r \in Requests, NEW s, settings' = [settings EXCEPT ![Store(r)] = s]
    PROVE  /\ \A z \in Stores : z # Store(r) => settings'[z] = settings[z]
           /\ settings'[Store(r)] = s
<1>1. Store(r) \in Stores /\ DOMAIN settings = Stores
  BY DEF Typed, Store, Stores
<1> QED BY <1>1

LEMMA TicketsSay ==
    ASSUME Typed, NEW r \in Requests, settings' = settings \/ ExtractTickets(r)
    PROVE  SaysAsBefore(r) /\ \A z \in Stores : z # Store(r) => settings'[z] = settings[z]
<1>1. CASE settings' = settings
  BY <1>1 DEF SaysAsBefore
<1>2. CASE ExtractTickets(r)
  <2> PICK s \in CachedTickets(settings[Store(r)], Pr(r)) :
         settings' = [settings EXCEPT ![Store(r)] = s]
    BY <1>2 DEF ExtractTickets
  <2>1. s["publish"] = settings[Store(r)]["publish"]
    BY DEF CachedTickets, Layer, Keys, FileKeys
  <2> QED BY <2>1, StoresStay DEF SaysAsBefore
<1> QED BY <1>1, <1>2

\* What mosaico makes of a task, and of its command.
LEMMA TaskIs ==
    ASSUME NEW r, conf.server = "mosaico", conf.events[r] \in Event, NEW o \in Handled(r)
    PROVE  o.todo = <<>> \/ (Len(o.todo) = 1 /\ "publish" \in Head(o.todo).keys)
<1> DEFINE e == conf.events[r]
           c == [e.command EXCEPT !.keys = {"publish"}]
<1>1. o \in RouteAndRun(e, settings[Global])
  BY DEF Handled
<1>2. o = Refuse(Unread(settings[Global])) \/ o = CommentCommand(Unread(settings[Global]), c)
  BY <1>1 DEF RouteAndRun
<1>3. CASE o = Refuse(Unread(settings[Global]))
  BY <1>3 DEF Refuse
<1>4. CASE o = CommentCommand(Unread(settings[Global]), c)
  <2>1. o.todo = <<c>>
    BY <1>4 DEF CommentCommand, Refuse
  <2>2. c.keys = {"publish"}
    BY DEF Event, Command
  <2> HIDE DEF c
  <2>3. Len(<<c>>) = 1 /\ Head(<<c>>) = c
    OBVIOUS
  <2> QED BY <2>1, <2>2, <2>3
<1> QED BY <1>2, <1>3, <1>4

LEMMA TaskRuns ==
    ASSUME NEW r, conf.server = "mosaico", NEW c, "publish" \in c.keys,
           NEW o \in Run(r, c), o.started
    PROVE  o.s["publish"] = Args(r)
<1>1. o \in MosaicoRun(r, c, settings[Store(r)])
  BY DEF Run
<1>2. \E s : o.s = UpdateSettingsFromArgs(s, c, r)
  <2>1. CASE o \in RunAsk(r, c, settings[Store(r)])
    BY <2>1 DEF RunAsk
  <2>2. CASE o \in RunGarda(r, c, settings[Store(r)])
    <3>1. PICK p, s, state : o \in AgentHandleRequest(p, c, s, state, r)
      BY <2>2 DEF RunGarda
    <3>2. PICK a \in ApplyRepoSettings(p, s, state) :
             o \in IF ~a.ok \/ ~c.allowed THEN {Started(a, a.s, FALSE)}
                   ELSE {Started(a, UpdateSettingsFromArgs(a.s, c, r), ok)
                           : ok \in IF c.known THEN BOOLEAN ELSE {FALSE}}
      BY <3>1 DEF AgentHandleRequest
    <3>3. CASE o = Started(a, a.s, FALSE)
      BY <3>3 DEF Started
    <3>4. ASSUME NEW ok, o = Started(a, UpdateSettingsFromArgs(a.s, c, r), ok)
          PROVE  o.s = UpdateSettingsFromArgs(a.s, c, r)
      BY <3>4 DEF Started
    <3> QED BY <3>2, <3>3, <3>4
  <2> QED BY <1>1, <2>1, <2>2 DEF MosaicoRun
<1> QED BY <1>2 DEF UpdateSettingsFromArgs, Layer, Keys, FileKeys

LEMMA ReceiveMoves ==
    ASSUME Typed, NEW r \in Requests, Receive(r)
    PROVE  \E x, h : Steps(r, x, h)
<1> PICK o, x : Received(r, o, x)
  BY ReceiveIs
<1> DEFINE h == host'[Pr(r)]
<1>1. /\ req[r].pc = "sent" /\ host' = Noticed(Pr(r), o.broken) /\ o.broken \in BOOLEAN
      /\ x \in RequestGood /\ x.pc \in {"done", "commands"} /\ x.cmd = req[r].cmd
      /\ req' = [req EXCEPT ![r] = x] /\ conf' = conf
      /\ x.list = req[r].list /\ x.diff = req[r].diff /\ x.ended = req[r].ended
  BY DEF Received, Outcomes
<1>2. Pr(r) \in PRs /\ HostOf(r) \in HostGood
  BY <1>1, OfRequest
<1>3. h \in HostGood /\ Same(h, HostOf(r), {"notice"})
  BY <1>1, <1>2, NoticedSame DEF HostOf
<1>4. \A p \in PRs : Same(host'[p], host[p], {"notice"})
  BY <1>1, <1>2, NoticedSame
<1>5. x.cmd.tool = "none"
  BY <1>1 DEF RequestGood
<1>6. Moves(r, x, h)
  BY <1>1, <1>2, <1>3, <1>4, StoresStay DEF Moves, Received
<1>7. conf.server = "mosaico" => Silent(x)
  <2>1. conf.events[r] \in Event
    BY <1>1, OfRequest
  <2> QED BY <2>1, TaskIs DEF Received, Silent
<1>8. Rests(r, x, h)
  BY <1>1, <1>3, <1>5, <1>7 DEF Rests
<1> QED BY <1>6, <1>8 DEF Steps

LEMMA CommandMoves ==
    ASSUME Typed, NEW r \in Requests, NextCommand(r)
    PROVE  \E x, h : Steps(r, x, h)
<1> PICK c, o, k, x : Began(r, c, o, k, x)
  BY CommandIs
<1> DEFINE h == host'[Pr(r)]
<1>1. /\ req[r].pc = "commands" /\ host' = Noticed(Pr(r), o.broken) /\ o.broken \in BOOLEAN
      /\ x \in RequestGood /\ req' = [req EXCEPT ![r] = x] /\ conf' = conf
      /\ o.started \in BOOLEAN
  BY DEF Began, Results
<1>2. Pr(r) \in PRs /\ HostOf(r) \in HostGood
  BY <1>1, OfRequest
<1>3. h \in HostGood /\ Same(h, HostOf(r), {"notice"})
  BY <1>1, <1>2, NoticedSame DEF HostOf
<1>4. \A p \in PRs : Same(host'[p], host[p], {"notice"})
  BY <1>1, <1>2, NoticedSame
<1>5. Moves(r, x, h)
  BY <1>1, <1>2, <1>3, <1>4, StoresStay DEF Moves, Began
<1>6. CASE o.started
  <2>1. c.tool # "none"
    BY DEF Began, Command, ToolNames
  <2>2. conf.server = "mosaico" /\ "publish" \in c.keys
           => settings'[Store(r)]["publish"] = Args(r)
    <3>1. settings'[Store(r)] = o.s
      BY StoresStay DEF Began
    <3> QED BY <1>6, <3>1, TaskRuns DEF Began
  <2>3. Makes(r, x, h, c)
    BY <1>1, <1>3, <1>6, <2>1, <2>2 DEF Makes, Began
  <2> QED BY <1>5, <2>3 DEF Steps
<1>7. CASE ~o.started
  <2>1. x.cmd.tool = "none"
    BY <1>7, NoCommandHas DEF Began
  <2>2. Rests(r, x, h)
    BY <1>1, <1>3, <1>7, <2>1 DEF Rests, Began
  <2> QED BY <1>5, <2>2 DEF Steps
<1> QED BY <1>1, <1>6, <1>7

LEMMA RunMoves ==
    ASSUME Typed, NEW r \in Requests, RunTool(r)
    PROVE  \E x, h : Steps(r, x, h)
<1> PICK x : Ran(r, x)
  BY RunIs
<1>1. /\ req[r].pc = "made" /\ conf' = conf
      /\ x \in RequestGood /\ req' = [req EXCEPT ![r] = x]
  BY DEF Ran, Ended, Asked
<1>2. Pr(r) \in PRs /\ HostOf(r) \in HostGood /\ HostOf(r) = host[Pr(r)]
  BY <1>1, OfRequest DEF HostOf
<1>5. SaysAsBefore(r) /\ \A z \in Stores : z # Store(r) => settings'[z] = settings[z]
  BY TicketsSay DEF Ran
<1>3. CASE host' = host
  <2>1. Moves(r, x, HostOf(r))
    BY <1>1, <1>2, <1>3, <1>5, SameIsSame DEF Moves
  <2>2. CASE \E how : Ended(r, how, x)
    <3>1. Ends(r, x, HostOf(r))
      BY <1>1, <2>2 DEF Ends
    <3> QED BY <2>1, <3>1 DEF Steps
  <2>3. CASE Asked(r, x) /\ (Read(r, x) \/ ReadNothing(r, x))
    <3>1. Consults(r, x, HostOf(r))
      BY <1>1, <1>5, <2>3 DEF Consults
    <3> QED BY <2>1, <3>1 DEF Steps
  <2> QED BY <2>2, <2>3 DEF Ran
<1>4. CASE Shown(r) /\ Asked(r, x) /\ Read(r, x)
  <2> PICK h : /\ h \in HostGood /\ Same(h, HostOf(r), {"progress"})
               /\ h.progress = HostOf(r).progress \cup {Mine(r)}
               /\ host' = [host EXCEPT ![Pr(r)] = h]
    BY <1>2, <1>4, ShownIs
  <2>1. Moves(r, x, h)
    BY <1>1, <1>2, <1>5, HostStep, SameIsSame DEF Moves
  <2>2. Consults(r, x, h)
    BY <1>1, <1>4, <1>5 DEF Consults, Shown
  <2> QED BY <2>1, <2>2 DEF Steps
<1> QED BY <1>3, <1>4 DEF Ran

LEMMA PublishMoves ==
    ASSUME Typed, NEW r \in Requests, PublishTool(r)
    PROVE  \E x, h : Steps(r, x, h)
<1> PICK g, how, x : Left(r, g, how, x)
  BY PublishIs
<1> DEFINE h == IF Publishes(settings[Store(r)]) THEN g ELSE HostOf(r)
<1>1. /\ req[r].pc = "asked" /\ conf' = conf /\ settings' = settings
      /\ Ended(r, how, x) /\ g \in HostGood
      /\ x \in RequestGood /\ req' = [req EXCEPT ![r] = x] /\ Leaves(r, g) /\ Clears(r, g, how)
      /\ host' = [host EXCEPT ![Pr(r)] = h]
  BY DEF Left, Ended, Leaves
<1>2. Pr(r) \in PRs /\ HostOf(r) \in HostGood
  BY <1>1, OfRequest
<1>3. /\ h \in HostGood
      /\ \/ h = HostOf(r) /\ ~Publishes(settings[Store(r)])
         \/ h = g /\ Publishes(settings[Store(r)])
  BY <1>1, <1>2
<1> HIDE DEF h
<1>4. Moves(r, x, h)
  BY <1>1, <1>2, <1>3, HostStep, SameIsSame DEF Moves
<1>5. Ends(r, x, h)
  BY <1>1, <1>3 DEF Ends
<1> QED BY <1>4, <1>5 DEF Steps

LEMMA NextIs ==
    ASSUME Typed, [Next]_vars
    PROVE  \/ \E r, x, h : Steps(r, x, h)
           \/ \E p, h : Meanwhile(p, h)
           \/ UNCHANGED <<conf, settings, host, req>>
<1>1. CASE UNCHANGED vars
  BY <1>1 DEF vars
<1>2. ASSUME NEW r \in Requests, Arrive(r)
      PROVE  \E x, h : Steps(r, x, h)
  BY <1>2, ReceiveMoves DEF Arrive
<1>3. ASSUME NEW r \in Requests, Work(r)
      PROVE  \E x, h : Steps(r, x, h)
  BY <1>3, CommandMoves, RunMoves, PublishMoves DEF Work
<1>4. CASE People /\ UNCHANGED <<conf, settings, req, poll>>
  <2>1. PICK p \in {Pr(r) : r \in DOMAIN conf.events} :
           PushCommit(p) \/ EditBody(p) \/ AddLabel(p)
    BY <1>4 DEF People
  <2>2. p \in PRs /\ host[p] \in HostGood
    BY OfDeployment DEF Typed
  <2>3. \E h : Pushed(p, h) \/ Edited(p, h) \/ Labelled(p, h)
    BY <2>1, <2>2, PushIs, EditIs, LabelIs
  <2>4. ASSUME NEW h, Pushed(p, h) \/ Edited(p, h) \/ Labelled(p, h)
        PROVE  Meanwhile(p, h)
    <3>1. h \in HostGood /\ host' = [host EXCEPT ![p] = h]
      BY <2>4 DEF Pushed, Edited, Labelled
    <3>2. host'[p] = h /\ \A q \in PRs : q # p => host'[q] = host[q]
      BY <2>2, <3>1, HostStep
    <3> QED BY <1>4, <2>2, <2>4, <3>1, <3>2 DEF Meanwhile
  <2> QED BY <2>3, <2>4
<1> QED BY <1>1, <1>2, <1>3, <1>4 DEF Next

-----------------------------------------------------------------------------
\* What users wrote.

\* The text t, where the author's text is `text': the same, but for the marks.
AsRead(t, text) ==
    IF "markers" \in conf.flags
    THEN /\ Len(t) = Len(text)
         /\ \A i \in DOMAIN text : text[i] \notin Marks => t[i] = text[i]
    ELSE t = text

\* What the author wrote can be read back; marks are only ever replaced, so that
\* with them no description has a heading.
HostKept(h) ==
    /\ h.text \in Seq(Pieces \ Headers)
    /\ "markers" \in conf.flags => h.body \in Seq(Pieces \ Headers)
    /\ h.raced \cap {"body", "bare"} = {} => ReadsBack(h.body, h.text)
    /\ h.labelled /\ "label" \notin h.raced => "mine" \in h.labels

\* What a command has read of it is still so.
CommandKept(cmd, h) ==
    /\ cmd.tool = "describe" =>
          /\ "markers" \in conf.flags => cmd.text \in Seq(Pieces \ Headers)
          /\ h.raced \cap {"body", "bare"} = {} => AsRead(cmd.text, h.text)
    /\ cmd.tool \in LabelsReadEarly /\ h.labelled /\ "label" \notin h.raced
          => "mine" \in cmd.labels

UserKept ==
    /\ \A p \in PRs : HostKept(host[p])
    /\ \A q \in Requests : req[q].cmd.tool # "none" => CommandKept(req[q].cmd, HostOf(q))

LEMMA ReadsBackIs ==
    ASSUME NEW b, NEW t
    PROVE  ReadsBack(b, t) <=> AsRead(GetUserDescription(b), t)
BY DEF ReadsBack, AsRead

LEMMA HostKeptStays ==
    ASSUME NEW g, HostKept(g), NEW h, h.text = g.text, h.body = g.body, h.labels = g.labels,
           h.labelled = g.labelled, g.raced \subseteq h.raced
    PROVE  HostKept(h)
BY DEF HostKept

LEMMA CommandKeptStays ==
    ASSUME NEW g, NEW cmd, CommandKept(cmd, g), NEW h, h.text = g.text,
           h.labelled = g.labelled, g.raced \subseteq h.raced
    PROVE  CommandKept(cmd, h)
BY DEF CommandKept

LEMMA ConstructedKept ==
    ASSUME NEW r, HostOf(r) \in HostGood, HostKept(HostOf(r)), NEW c, NEW k,
           Constructed(r, c, k)
    PROVE  CommandKept(k.cmd, HostOf(r))
<1>1. /\ k.cmd.tool = c.tool /\ k.cmd.labels = HostOf(r).labels
      /\ c.tool = "describe" => k.cmd.text = GetUserDescription(HostOf(r).body)
  BY DEF Constructed, Begins
<1>2. c.tool = "describe" /\ "markers" \in conf.flags => k.cmd.text \in Seq(Pieces \ Headers)
  BY <1>1, NotGenerated DEF HostKept
<1>3. c.tool = "describe" /\ HostOf(r).raced \cap {"body", "bare"} = {}
      => AsRead(k.cmd.text, HostOf(r).text)
  BY <1>1, ReadsBackIs DEF HostKept
<1> QED BY <1>1, <1>2, <1>3 DEF CommandKept, HostKept

LEMMA RewrittenKept ==
    ASSUME NEW r, HostKept(HostOf(r)), CommandKept(req[r].cmd, HostOf(r)),
           req[r].cmd.tool = "describe", NEW answer \in Answers, NEW h,
           Rewritten(r, h, answer), h.text = HostOf(r).text, HostOf(r).raced \subseteq h.raced
    PROVE  /\ "markers" \in conf.flags => h.body \in Seq(Pieces \ Headers)
           /\ h.raced \cap {"body", "bare"} = {} => ReadsBack(h.body, h.text)
<1> DEFINE t == req[r].cmd.text
           text == h.text
           b == h.body
<1>1. /\ text \in Seq(Pieces \ Headers)
      /\ "markers" \in conf.flags => t \in Seq(Pieces \ Headers)
      /\ h.raced \cap {"body", "bare"} = {} => AsRead(t, text)
  BY DEF HostKept, CommandKept
<1>2. CASE "markers" \in conf.flags
  <2>1. b = PreparePrAnswerWithMarkers(t, answer) /\ t \in Seq(Pieces \ Headers)
    BY <1>1, <1>2 DEF Rewritten
  <2> HIDE DEF t, text, b
  <2>2. /\ b \in Seq(Pieces \ Headers) /\ Len(b) = Len(t)
        /\ \A i \in 1 .. Len(t) : t[i] \notin Marks => b[i] = t[i]
    BY <2>1, MarkersReadBack
  <2>3. GetUserDescription(b) = b
    BY <2>2, NotGenerated
  <2>4. AsRead(t, text) => AsRead(b, text)
    <3> SUFFICES ASSUME AsRead(t, text) PROVE AsRead(b, text)
      OBVIOUS
    <3>1. Len(t) = Len(text) /\ \A i \in DOMAIN text : text[i] \notin Marks => t[i] = text[i]
      BY <1>2 DEF AsRead
    <3>2. DOMAIN text = 1 .. Len(t)
      BY <1>1, <3>1
    <3>3. \A i \in DOMAIN text : text[i] \notin Marks => b[i] = text[i]
      BY <2>2, <3>1, <3>2
    <3> QED BY <1>2, <2>2, <3>1, <3>3 DEF AsRead
  <2>5. AsRead(t, text) => ReadsBack(b, text)
    BY <2>3, <2>4, ReadsBackIs
  <2> QED BY <1>1, <2>2, <2>5 DEF b, text
<1>3. CASE "markers" \notin conf.flags
  <2> SUFFICES ASSUME h.raced \cap {"body", "bare"} = {} PROVE ReadsBack(b, text)
    BY <1>3
  <2>1. /\ b = PreparePrAnswer(t, answer) /\ ToSet(b) \cap {"TYPE", "DESC"} # {}
    BY <1>3 DEF Rewritten
  <2>2. t = text
    BY <1>1, <1>3 DEF AsRead
  <2>3. "user" \notin answer
    BY DEF Answers
  <2> HIDE DEF t, text, b
  <2>4. GetUserDescription(b) = text
    BY <1>1, <2>1, <2>2, <2>3, AnswerReadBack
  <2> QED BY <1>3, <2>4 DEF ReadsBack
<1> QED BY <1>2, <1>3

LEMMA LeavesKept ==
    ASSUME NEW r, HostKept(HostOf(r)), CommandKept(req[r].cmd, HostOf(r)),
           NEW h, Leaves(r, h)
    PROVE  HostKept(h)
<1>1. /\ h.text = HostOf(r).text /\ h.labelled = HostOf(r).labelled
      /\ HostOf(r).raced \subseteq h.raced
      /\ Described(r, h, HostOf(r)) /\ KeepsLabel(r, h, HostOf(r))
  BY DEF Leaves
<1>2. h.labelled /\ "label" \notin h.raced => "mine" \in h.labels
  BY <1>1 DEF HostKept, CommandKept, KeepsLabel
<1>3. CASE h.body = HostOf(r).body
  BY <1>1, <1>2, <1>3 DEF HostKept
<1>4. ASSUME req[r].cmd.tool = "describe", NEW answer \in Answers, Rewritten(r, h, answer)
      PROVE  HostKept(h)
  <2>1. /\ "markers" \in conf.flags => h.body \in Seq(Pieces \ Headers)
        /\ h.raced \cap {"body", "bare"} = {} => ReadsBack(h.body, h.text)
    BY <1>1, <1>4, RewrittenKept
  <2> QED BY <1>1, <1>2, <2>1 DEF HostKept
<1> QED BY <1>1, <1>3, <1>4 DEF Described

\* The invariant is one of a state in which the deployment is the same.
LEMMA KeptThen ==
    ASSUME conf' = conf, \A p \in PRs : HostKept(host'[p]),
           \A q \in Requests : req'[q].cmd.tool # "none"
                                  => CommandKept(req'[q].cmd, host'[Pr(q)])
    PROVE  UserKept'
<1>1. /\ \A h : HostKept(h)' <=> HostKept(h)
      /\ \A cmd, h : CommandKept(cmd, h)' <=> CommandKept(cmd, h)
      /\ \A q : Pr(q)' = Pr(q)
  BY DEF HostKept, CommandKept, ReadsBack, AsRead, LabelsReadEarly, Provider, Pr
<1> QED BY <1>1 DEF UserKept, HostOf

\* A request moves on; what it leaves, and what the others have read.
LEMMA UserMoves ==
    ASSUME Typed, UserKept, NEW r, NEW x, NEW h, Moves(r, x, h), HostKept(h),
           h.text = HostOf(r).text, h.labelled = HostOf(r).labelled,
           HostOf(r).raced \subseteq h.raced,
           x.cmd.tool # "none" => CommandKept(x.cmd, h)
    PROVE  UserKept'
<1>1. /\ r \in Requests /\ Pr(r) \in PRs /\ conf' = conf /\ req' = [req EXCEPT ![r] = x]
      /\ host'[Pr(r)] = h /\ host[Pr(r)] = HostOf(r)
      /\ \A p \in PRs : p # Pr(r) => Same(host'[p], host[p], {"notice"})
  BY DEF Moves, HostOf
<1>2. ASSUME NEW p \in PRs
      PROVE  /\ HostKept(host'[p]) /\ host'[p].text = host[p].text
             /\ host'[p].labelled = host[p].labelled /\ host[p].raced \subseteq host'[p].raced
  <2>1. CASE p = Pr(r)
    BY <1>1, <2>1
  <2>2. CASE p # Pr(r)
    <3>1. /\ host'[p].text = host[p].text /\ host'[p].body = host[p].body
          /\ host'[p].labels = host[p].labels /\ host'[p].labelled = host[p].labelled
          /\ host'[p].raced = host[p].raced
      BY <1>1, <2>2, SameHas
    <3>2. HostKept(host[p])
      BY DEF UserKept
    <3> QED BY <3>1, <3>2, HostKeptStays
  <2> QED BY <2>1, <2>2
<1>3. ASSUME NEW q \in Requests, req'[q].cmd.tool # "none"
      PROVE  CommandKept(req'[q].cmd, host'[Pr(q)])
  <2>1. CASE q = r
    <3>1. req'[q] = x
      BY <1>1, <2>1 DEF Typed
    <3> QED BY <1>1, <1>3, <2>1, <3>1
  <2>2. CASE q # r
    <3>1. req'[q] = req[q]
      BY <1>1, <2>2
    <3>2. req[q].pc # "done"
      BY <1>3, <3>1 DEF Typed, RequestGood
    <3>3. Pr(q) \in PRs
      BY <3>2, OfRequest
    <3>4. CommandKept(req[q].cmd, host[Pr(q)])
      BY <1>3, <3>1 DEF UserKept, HostOf
    <3> QED BY <1>2, <3>1, <3>3, <3>4, CommandKeptStays
  <2> QED BY <2>1, <2>2
<1> QED BY <1>1, <1>2, <1>3, KeptThen

LEMMA UserSteps ==
    ASSUME Typed, UserKept, NEW r, NEW x, NEW h, Steps(r, x, h)
    PROVE  UserKept'
<1>1. /\ Moves(r, x, h) /\ r \in Requests /\ Pr(r) \in PRs /\ HostOf(r) \in HostGood
      /\ req[r] \in RequestGood
  BY DEF Steps, Moves, Typed
<1>2. HostKept(HostOf(r))
  BY <1>1 DEF UserKept, HostOf
<1>3. ASSUME Same(h, HostOf(r), {"notice"}) \/ Same(h, HostOf(r), {"progress"}) \/ h = HostOf(r)
      PROVE  /\ HostKept(h) /\ h.text = HostOf(r).text /\ h.labelled = HostOf(r).labelled
             /\ HostOf(r).raced \subseteq h.raced
  <2>1. /\ h.text = HostOf(r).text /\ h.labelled = HostOf(r).labelled
        /\ h.body = HostOf(r).body /\ h.labels = HostOf(r).labels /\ h.raced = HostOf(r).raced
    BY <1>3, SameHas
  <2> QED BY <1>2, <2>1, HostKeptStays
<1>4. CASE Rests(r, x, h)
  BY <1>1, <1>3, <1>4, UserMoves DEF Rests
<1>5. ASSUME NEW c, Makes(r, x, h, c)
      PROVE  UserKept'
  <2> PICK k : Constructed(r, c, k) /\ x.cmd = k.cmd
    BY <1>5 DEF Makes
  <2>1. CommandKept(x.cmd, HostOf(r))
    BY <1>1, <1>2, ConstructedKept
  <2>2. CommandKept(x.cmd, h)
    BY <1>3, <1>5, <2>1, CommandKeptStays DEF Makes
  <2> QED BY <1>1, <1>3, <1>5, <2>2, UserMoves DEF Makes
<1>6. ASSUME req[r].pc \in {"made", "asked"}
      PROVE  CommandKept(req[r].cmd, HostOf(r))
  BY <1>1, <1>6 DEF RequestGood, UserKept
<1>7. CASE Consults(r, x, h)
  <2>1. /\ x.cmd.tool = req[r].cmd.tool /\ x.cmd.text = req[r].cmd.text
        /\ x.cmd.labels = req[r].cmd.labels /\ req[r].pc = "made"
        /\ Same(h, HostOf(r), {"progress"}) \/ h = HostOf(r)
    BY <1>7 DEF Consults, Asked
  <2>2. CommandKept(req[r].cmd, h)
    BY <1>3, <1>6, <2>1, CommandKeptStays
  <2>3. CommandKept(x.cmd, h)
    BY <2>1, <2>2 DEF CommandKept
  <2> QED BY <1>1, <1>3, <2>1, <2>3, UserMoves
<1>8. CASE Ends(r, x, h)
  <2>1. x.cmd.tool = "none" /\ req[r].pc \in {"made", "asked"}
    BY <1>8, NoCommandHas DEF Ends, Ended
  <2>2. CASE h = HostOf(r)
    BY <1>1, <1>3, <2>1, <2>2, UserMoves
  <2>3. CASE Leaves(r, h)
    <3>1. HostKept(h)
      BY <1>2, <1>6, <2>1, <2>3, LeavesKept
    <3> QED BY <1>1, <2>1, <2>3, <3>1, UserMoves DEF Leaves
  <2>4. h = HostOf(r) \/ Leaves(r, h)
    BY <1>8 DEF Ends
  <2> QED BY <2>2, <2>3, <2>4
<1> QED BY <1>4, <1>5, <1>7, <1>8 DEF Steps

\* A tool of those that runs on p.
LEMMA RunningIs ==
    ASSUME Typed, NEW q \in Requests, NEW tools, req[q].cmd.tool \in tools, "none" \notin tools
    PROVE  Running(Pr(q), tools)
<1>1. req[q].pc \in {"made", "asked"}
  BY DEF Typed, RequestGood
<1>2. q \in DOMAIN conf.events
  BY <1>1 DEF Typed
<1> QED BY <1>1, <1>2 DEF Running

LEMMA UserMeanwhile ==
    ASSUME Typed, UserKept, NEW p, NEW h, Meanwhile(p, h)
    PROVE  UserKept'
<1>1. /\ p \in PRs /\ conf' = conf /\ req' = req /\ host'[p] = h
      /\ \A q \in PRs : q # p => host'[q] = host[q]
  BY DEF Meanwhile
<1>2. HostKept(host[p])
  BY <1>1 DEF UserKept
<1>3. host[p].raced \subseteq h.raced
  BY DEF Meanwhile, Pushed, Edited, Labelled
<1>4. HostKept(h)
  <2>1. CASE Pushed(p, h)
    <3>1. /\ h.text = host[p].text /\ h.labelled = host[p].labelled
          /\ h.body = host[p].body /\ h.labels = host[p].labels
      BY <2>1, SameHas DEF Pushed
    <3> QED BY <1>2, <1>3, <3>1, HostKeptStays
  <2>2. CASE Edited(p, h)
    <3>1. /\ h.text \in Seq(Pieces \ Headers) /\ h.body = h.text
          /\ h.labelled = host[p].labelled /\ h.labels = host[p].labels
      BY <2>2, SameHas, PullRequestAssumption DEF Edited
    <3>2. GetUserDescription(h.body) = h.text
      BY <3>1, NotGenerated
    <3>3. ReadsBack(h.body, h.text)
      BY <3>2 DEF ReadsBack
    <3> QED BY <1>2, <1>3, <3>1, <3>3 DEF HostKept
  <2>3. CASE Labelled(p, h)
    <3>1. h.text = host[p].text /\ h.body = host[p].body /\ "mine" \in h.labels
      BY <2>3, SameHas DEF Labelled
    <3> QED BY <1>2, <1>3, <3>1 DEF HostKept
  <2> QED BY <2>1, <2>2, <2>3 DEF Meanwhile
<1>5. ASSUME NEW q \in Requests, req[q].cmd.tool # "none", Pr(q) = p
      PROVE  CommandKept(req[q].cmd, h)
  <2>1. CommandKept(req[q].cmd, host[p])
    BY <1>5 DEF UserKept, HostOf
  <2>2. CASE Pushed(p, h)
    <3>1. h.text = host[p].text /\ h.labelled = host[p].labelled
      BY <2>2, SameHas DEF Pushed
    <3> QED BY <1>3, <2>1, <3>1, CommandKeptStays
  <2>3. CASE Edited(p, h)
    <3>1. h.labelled = host[p].labelled
      BY <2>3, SameHas DEF Edited
    <3>2. req[q].cmd.tool = "describe" => "body" \in h.raced
      BY <1>5, <2>3, RunningIs DEF Edited
    <3> QED BY <1>3, <2>1, <3>1, <3>2 DEF CommandKept
  <2>4. CASE Labelled(p, h)
    <3>1. h.text = host[p].text
      BY <2>4, SameHas DEF Labelled
    <3>2. "none" \notin LabelsReadEarly
      BY DEF LabelsReadEarly
    <3>3. req[q].cmd.tool \in LabelsReadEarly => "label" \in h.raced
      BY <1>5, <2>4, <3>2, RunningIs DEF Labelled
    <3> QED BY <1>3, <2>1, <3>1, <3>3 DEF CommandKept
  <2> QED BY <2>2, <2>3, <2>4 DEF Meanwhile
<1>6. ASSUME NEW q \in Requests, req[q].cmd.tool # "none"
      PROVE  CommandKept(req[q].cmd, host'[Pr(q)])
  <2>1. CASE Pr(q) = p
    BY <1>1, <1>5, <1>6, <2>1
  <2>2. CASE Pr(q) # p
    <3>1. req[q].pc # "done"
      BY <1>6 DEF Typed, RequestGood
    <3>2. Pr(q) \in PRs
      BY <3>1, OfRequest
    <3> QED BY <1>1, <1>6, <2>2, <3>2 DEF UserKept, HostOf
  <2> QED BY <2>1, <2>2
<1>7. \A q \in PRs : HostKept(host'[q])
  BY <1>1, <1>4 DEF UserKept
<1> QED BY <1>1, <1>6, <1>7, KeptThen

LEMMA UserInit == Init => UserKept
<1> SUFFICES ASSUME Init PROVE UserKept
  OBVIOUS
<1>1. <<>> \in Seq(Pieces \ Headers)
  OBVIOUS
<1>2. GetUserDescription(<<>>) = <<>>
  BY <1>1, NotGenerated
<1>3. ReadsBack(<<>>, <<>>)
  BY <1>2 DEF ReadsBack
<1>4. HostKept(NewPr)
  BY <1>1, <1>3 DEF HostKept, NewPr
<1>5. \A q \in Requests : req[q].cmd.tool = "none"
  BY NoCommandHas DEF Init, InitRequests, NewRequest
<1> QED BY <1>4, <1>5 DEF UserKept, Init, InitHost

LEMMA UserNext == Typed /\ UserKept /\ [Next]_vars => UserKept'
<1> SUFFICES ASSUME Typed, UserKept, [Next]_vars PROVE UserKept'
  OBVIOUS
<1>1. CASE UNCHANGED <<conf, settings, host, req>>
  <2>1. \A q \in Requests : req'[q].cmd.tool # "none" => CommandKept(req'[q].cmd, host'[Pr(q)])
    BY <1>1 DEF UserKept, HostOf
  <2>2. \A p \in PRs : HostKept(host'[p])
    BY <1>1 DEF UserKept
  <2> QED BY <1>1, <2>1, <2>2, KeptThen
<1> QED BY <1>1, NextIs, UserSteps, UserMeanwhile

\* What the author wrote can be read back from every description that the tools
\* make of it, with marks each piece at its place, and a user's label stays,
\* unless somebody edits while an answer is generated or the answer has neither
\* a type nor a description: whatever commands run on the pull request, and
\* however their steps interleave.
THEOREM UserWorkCorrectness == Spec => []UserWorkKept
<1>1. UserKept => UserWorkKept
  BY DEF UserKept, HostKept, UserWorkKept
<1> QED BY <1>1, TypedInit, TypedNext, UserInit, UserNext, PTL DEF Spec

-----------------------------------------------------------------------------
\* What reviews have seen.

\* The commits of S, with those that were reviewed before, are all there are but
\* merges of the default branch.
Covers(S, h) == (1 .. Len(h.commits)) \ h.merges \subseteq h.covered \cup S

\* A commit that was there before some review, and all before it, were reviewed.
Seen(h) ==
    \A d \in DOMAIN h.commits :
        h.commits[d] < Len(h.reviews) => (1 .. d) \ h.merges \subseteq h.covered

\* What a request has kept of the files, and what its command has read, leaves
\* no commit out.
Sees(q, h) ==
    /\ q.list \in {0, Len(h.commits)}
    /\ q.diff # {} => Covers(q.diff, h)
    /\ q.pc = "made" /\ q.cmd.inc.unreviewed # {} => Covers(q.cmd.inc.unreviewed, h)
    /\ q.pc = "asked" /\ q.cmd.tool = "review" => Covers(q.cmd.sees, h)
    /\ q.pc \in {"made", "asked"} => q.cmd.head \in 0 .. Len(h.commits)

AllSeen ==
    /\ \A p \in PRs : "commit" \notin host[p].raced => Seen(host[p])
    /\ \A q \in Requests :
          /\ req[q].pc = "sent" => req[q].list = 0 /\ req[q].diff = {}
          /\ req[q].pc \notin {"sent", "done"} /\ "commit" \notin HostOf(q).raced
                => Sees(req[q], HostOf(q))

LEMMA SeenStays ==
    ASSUME NEW g, Seen(g), NEW h, h.commits = g.commits, h.reviews = g.reviews,
           g.merges \subseteq h.merges, g.covered \subseteq h.covered
    PROVE  Seen(h)
BY DEF Seen

LEMMA SeesStays ==
    ASSUME NEW g, NEW q, Sees(q, g), NEW h, h.commits = g.commits,
           g.merges \subseteq h.merges, g.covered \subseteq h.covered
    PROVE  Sees(q, h)
BY DEF Sees, Covers

LEMMA ReviewedSeen ==
    ASSUME NEW r, NEW g \in HostGood, NEW h \in HostGood, Seen(g), h.commits = g.commits,
           h.merges = g.merges, Reviewed(r, h, g),
           req[r].cmd.tool = "review" => Covers(req[r].cmd.sees, g)
    PROVE  Seen(h)
<1>1. CASE h.reviews = g.reviews /\ g.covered \subseteq h.covered
  BY <1>1, SeenStays
<1>2. CASE /\ req[r].cmd.tool = "review"
           /\ g.covered \cup req[r].cmd.sees \subseteq h.covered
  <2>1. (1 .. Len(h.commits)) \ h.merges \subseteq h.covered
    BY <1>2 DEF Covers
  <2>2. DOMAIN h.commits = 1 .. Len(h.commits) /\ Len(h.commits) \in Nat
    BY HostHas
  <2>3. \A d \in 1 .. Len(h.commits) : 1 .. d \subseteq 1 .. Len(h.commits)
    BY <2>2
  <2> QED BY <2>1, <2>2, <2>3 DEF Seen
<1> QED BY <1>1, <1>2 DEF Reviewed

\* The commits since the last review.
LEMMA RangeCovers ==
    ASSUME NEW h \in HostGood, Seen(h), NEW asked
    PROVE  Incremental(h, asked).unreviewed # {} => Covers(Incremental(h, asked).unreviewed, h)
<1> DEFINE base == Len(h.reviews)
           range == GetCommitRange(h, base) \ h.merges
<1>1. /\ h.commits \in Seq(Nat) /\ Len(h.commits) \in Nat /\ base \in Nat
      /\ DOMAIN h.commits = 1 .. Len(h.commits)
  BY HostHas
<1>2. Covers(range, h)
  <2> SUFFICES ASSUME NEW c \in 1 .. Len(h.commits), c \notin h.merges, c \notin range
               PROVE  c \in h.covered
    BY DEF Covers
  <2>1. PICK d \in c .. Len(h.commits) : ~(h.commits[d] >= base)
    BY <1>1 DEF GetCommitRange
  <2>2. d \in DOMAIN h.commits /\ h.commits[d] \in Nat /\ c \in 1 .. d
    BY <1>1, <2>1
  <2>3. h.commits[d] < base
    BY <1>1, <2>1, <2>2
  <2> QED BY <2>2, <2>3 DEF Seen
<1>3. Incremental(h, asked).unreviewed \in {{}, range}
  <2>1. GetIncrementalCommits(h, asked).unreviewed \in {{}, range}
    BY DEF GetIncrementalCommits, GetPreviousReview
  <2> QED BY <2>1 DEF Incremental
<1> HIDE DEF range
<1> QED BY <1>2, <1>3

\* The files, of what is kept and what was asked for.
LEMMA FilesCover ==
    ASSUME NEW h \in HostGood, NEW kept, kept.list \in {0, Len(h.commits)},
           NEW inc, inc.unreviewed \in SUBSET (1 .. MaxCommits),
           inc.unreviewed # {} => Covers(inc.unreviewed, h)
    PROVE  /\ GetFiles(h, kept, inc).list \in {0, Len(h.commits)}
           /\ Covers(GetFiles(h, kept, inc).sees, h)
<1>1. MaxCommits \in Nat /\ Len(h.commits) \in 1 .. MaxCommits
  BY HostHas, PullRequestAssumption
<1>2. kept.list \in 0 .. MaxCommits
  BY <1>1
<1> PICK f : /\ f = GetFiles(h, kept, inc)
             /\ inc.unreviewed # {} => f.sees = inc.unreviewed /\ f.list = kept.list
             /\ inc.unreviewed = {} /\ kept.list # 0 =>
                   f.sees = 1 .. kept.list /\ f.list \in {0, kept.list}
             /\ inc.unreviewed = {} /\ kept.list = 0 =>
                   f.sees = 1 .. Len(h.commits) /\ f.list \in {0, Len(h.commits)}
  BY <1>2, FilesGood
<1>3. f.list \in {0, Len(h.commits)}
  BY <1>1
<1>4. Covers(1 .. Len(h.commits), h)
  BY DEF Covers
<1>5. Covers(f.sees, h)
  BY <1>1, <1>4
<1> QED BY <1>3, <1>5

LEMMA DiffCovers ==
    ASSUME NEW h \in HostGood, NEW kept, kept.list \in {0, Len(h.commits)},
           kept.diff \in SUBSET (1 .. MaxCommits), kept.diff # {} => Covers(kept.diff, h),
           NEW inc, inc.unreviewed \in SUBSET (1 .. MaxCommits),
           inc.unreviewed # {} => Covers(inc.unreviewed, h), NEW f, f = GetDiffFiles(h, kept, inc)
    PROVE  /\ f.list \in {0, Len(h.commits)} /\ f.diff = f.sees
           /\ Covers(f.sees, h)
<1>1. kept.list \in 0 .. MaxCommits
  BY HostHas, PullRequestAssumption
<1> PICK e, g : /\ e = GetFiles(h, kept, inc) /\ g = GetDiffFiles(h, kept, inc)
                /\ g.diff = g.sees /\ g.list = e.list
                /\ g.sees = IF kept.diff # {} THEN kept.diff ELSE e.sees
  BY <1>1, DiffFilesGood
<1>2. e.list \in {0, Len(h.commits)} /\ Covers(e.sees, h)
  BY FilesCover
<1> QED BY <1>2

LEMMA ConstructedSees ==
    ASSUME Typed, NEW r \in Requests, HostOf(r) \in HostGood, Seen(HostOf(r)),
           Sees(req[r], HostOf(r)), NEW c, NEW k, Constructed(r, c, k)
    PROVE  /\ k.list \in {0, Len(HostOf(r).commits)}
           /\ k.diff # {} => Covers(k.diff, HostOf(r))
           /\ k.cmd.inc.unreviewed # {} => Covers(k.cmd.inc.unreviewed, HostOf(r))
           /\ k.cmd.head \in 0 .. Len(HostOf(r).commits)
<1> DEFINE g == HostOf(r)
           inc == NoCommand.inc
<1>1. /\ Kept(r).list \in {0, Len(g.commits)} /\ Kept(r).diff \in SUBSET (1 .. MaxCommits)
      /\ Kept(r).diff # {} => Covers(Kept(r).diff, g)
  BY DEF Typed, RequestGood, Request, Kept, Sees
<1>2. inc.unreviewed = {} /\ inc.unreviewed \in SUBSET (1 .. MaxCommits)
  BY NoCommandHas
<1> HIDE DEF inc
<1>3. k.cmd.head \in 0 .. Len(g.commits)
  BY HostHas DEF Constructed, Begins
<1>4. k.cmd.inc.unreviewed \in SUBSET (1 .. MaxCommits)
  BY DEF Constructed, Begins, Creations, RunningCommand
<1>5. CASE c.tool = "review"
  <2>1. PICK asked : /\ k.cmd.inc = Incremental(g, asked)
                     /\ k.list = GetFiles(g, Kept(r), k.cmd.inc).list
    BY <1>5 DEF Constructed
  <2>2. k.cmd.inc.unreviewed # {} => Covers(k.cmd.inc.unreviewed, g)
    BY <2>1, RangeCovers
  <2>3. k.list \in {0, Len(g.commits)}
    BY <1>1, <1>4, <2>1, <2>2, FilesCover
  <2>4. k.diff = Kept(r).diff
    BY <1>5 DEF Constructed
  <2> QED BY <1>1, <1>3, <2>2, <2>3, <2>4
<1>6. CASE c.tool # "review"
  <2>1. k.cmd.inc = inc /\ k.list = GetFiles(g, Kept(r), inc).list
    BY <1>6 DEF Constructed, inc
  <2>2. k.list \in {0, Len(g.commits)}
    BY <1>1, <1>2, <2>1, FilesCover
  <2>3. CASE c.tool = "describe"
    <3>1. k.diff = GetDiffFiles(g, Kept(r), inc).diff
      BY <2>3 DEF Constructed, inc
    <3>2. Covers(k.diff, g)
      BY <1>1, <1>2, <3>1, DiffCovers
    <3> QED BY <1>2, <1>3, <2>1, <2>2, <3>2
  <2>4. CASE c.tool # "describe"
    <3>1. k.diff = Kept(r).diff
      BY <2>4 DEF Constructed
    <3> QED BY <1>1, <1>2, <1>3, <2>1, <2>2, <3>1
  <2> QED BY <2>3, <2>4
<1> QED BY <1>5, <1>6

LEMMA SeenThen ==
    ASSUME conf' = conf, \A p \in PRs : "commit" \notin host'[p].raced => Seen(host'[p]),
           \A q \in Requests :
              /\ req'[q].pc = "sent" => req'[q].list = 0 /\ req'[q].diff = {}
              /\ req'[q].pc \notin {"sent", "done"} /\ "commit" \notin host'[Pr(q)].raced
                    => Sees(req'[q], host'[Pr(q)])
    PROVE  AllSeen'
<1>1. \A q : Pr(q)' = Pr(q)
  BY DEF Pr
<1> QED BY <1>1 DEF AllSeen, HostOf

LEMMA SeenMoves ==
    ASSUME Typed, AllSeen, NEW r, NEW x, NEW h, Moves(r, x, h),
           "commit" \notin h.raced => Seen(h),
           h.commits = HostOf(r).commits \/ "commit" \in h.raced,
           HostOf(r).raced \subseteq h.raced, HostOf(r).covered \subseteq h.covered,
           HostOf(r).merges \subseteq h.merges,
           x.pc # "sent", x.pc # "done" /\ "commit" \notin h.raced => Sees(x, h)
    PROVE  AllSeen'
<1>1. /\ r \in Requests /\ Pr(r) \in PRs /\ conf' = conf /\ req' = [req EXCEPT ![r] = x]
      /\ host'[Pr(r)] = h /\ host[Pr(r)] = HostOf(r)
      /\ \A p \in PRs : p # Pr(r) => Same(host'[p], host[p], {"notice"})
  BY DEF Moves, HostOf
<1>2. ASSUME NEW p \in PRs
      PROVE  /\ host'[p].commits = host[p].commits \/ "commit" \in host'[p].raced
             /\ host[p].raced \subseteq host'[p].raced
             /\ host[p].covered \subseteq host'[p].covered
             /\ host[p].merges \subseteq host'[p].merges
             /\ "commit" \notin host'[p].raced => Seen(host'[p])
  <2>1. CASE p = Pr(r)
    BY <1>1, <2>1
  <2>2. CASE p # Pr(r)
    <3>1. /\ host'[p].commits = host[p].commits /\ host'[p].raced = host[p].raced
          /\ host'[p].covered = host[p].covered /\ host'[p].reviews = host[p].reviews
          /\ host'[p].merges = host[p].merges
      BY <1>1, <2>2, SameHas
    <3>2. "commit" \notin host[p].raced => Seen(host[p])
      BY DEF AllSeen
    <3> QED BY <3>1, <3>2, SeenStays
  <2> QED BY <2>1, <2>2
<1>3. ASSUME NEW q \in Requests
      PROVE  /\ req'[q].pc = "sent" => req'[q].list = 0 /\ req'[q].diff = {}
             /\ req'[q].pc \notin {"sent", "done"} /\ "commit" \notin host'[Pr(q)].raced
                   => Sees(req'[q], host'[Pr(q)])
  <2>1. CASE q = r
    <3>1. req'[q] = x
      BY <1>1, <2>1 DEF Typed
    <3> QED BY <1>1, <2>1, <3>1
  <2>2. CASE q # r
    <3>1. req'[q] = req[q]
      BY <1>1, <2>2
    <3>2. CASE req[q].pc = "sent"
      BY <3>1, <3>2 DEF AllSeen
    <3>3. ASSUME req[q].pc \notin {"sent", "done"}, "commit" \notin host'[Pr(q)].raced
          PROVE  Sees(req[q], host'[Pr(q)])
      <4>1. Pr(q) \in PRs
        BY <3>3, OfRequest
      <4>2. /\ "commit" \notin host[Pr(q)].raced
            /\ host'[Pr(q)].commits = host[Pr(q)].commits
            /\ host[Pr(q)].covered \subseteq host'[Pr(q)].covered
            /\ host[Pr(q)].merges \subseteq host'[Pr(q)].merges
        BY <1>2, <3>3, <4>1
      <4>3. Sees(req[q], host[Pr(q)])
        BY <3>3, <4>2 DEF AllSeen, HostOf
      <4> QED BY <4>2, <4>3, SeesStays
    <3> QED BY <3>1, <3>2, <3>3
  <2> QED BY <2>1, <2>2
<1> QED BY <1>1, <1>2, <1>3, SeenThen

LEMMA SeenSteps ==
    ASSUME Typed, AllSeen, NEW r, NEW x, NEW h, Steps(r, x, h)
    PROVE  AllSeen'
<1> DEFINE g == HostOf(r)
<1>1. /\ Moves(r, x, h) /\ r \in Requests /\ Pr(r) \in PRs /\ g \in HostGood
      /\ req[r] \in RequestGood /\ req[r] \in Request /\ req[r].pc # "done"
  BY DEF Steps, Moves, Typed, RequestGood
<1>2. "commit" \notin g.raced => Seen(g)
  BY <1>1 DEF AllSeen, HostOf
<1>3. ASSUME Same(h, g, {"notice"}) \/ Same(h, g, {"progress"}) \/ h = g
      PROVE  /\ h.commits = g.commits /\ h.raced = g.raced /\ h.covered = g.covered
             /\ h.merges = g.merges
             /\ "commit" \notin h.raced => Seen(h)
  <2>1. /\ h.commits = g.commits /\ h.raced = g.raced /\ h.covered = g.covered
        /\ h.merges = g.merges
        /\ h.reviews = g.reviews
    BY <1>3, SameHas
  <2> QED BY <1>2, <2>1, SeenStays
<1>4. req[r].list = 0 /\ req[r].diff = {} /\ req[r].pc = "sent" => Sees(req[r], g)
  BY DEF Sees
<1>5. "commit" \notin g.raced => Sees(req[r], g)
  BY <1>1, <1>4 DEF AllSeen
<1> HIDE DEF g
<1>6. CASE Rests(r, x, h)
  <2>1. Sees(req[r], g) => Sees(x, g)
    BY <1>6 DEF Rests, Sees
  <2>2. /\ x.pc # "sent" /\ h.commits = g.commits /\ h.raced = g.raced /\ h.covered = g.covered
        /\ h.merges = g.merges
        /\ "commit" \notin h.raced => Seen(h)
    BY <1>3, <1>6 DEF Rests, g
  <2>3. "commit" \notin h.raced => Sees(x, h)
    BY <1>5, <2>1, <2>2, SeesStays
  <2> QED BY <1>1, <2>2, <2>3, SeenMoves DEF g
<1>7. ASSUME NEW c, Makes(r, x, h, c)
      PROVE  AllSeen'
  <2> PICK k : /\ Constructed(r, c, k)
               /\ x.cmd = k.cmd /\ x.list = k.list /\ x.diff = k.diff
    BY <1>7 DEF Makes
  <2>1. /\ x.pc = "made" /\ h.commits = g.commits /\ h.raced = g.raced /\ h.covered = g.covered
        /\ h.merges = g.merges
        /\ "commit" \notin h.raced => Seen(h)
    BY <1>3, <1>7 DEF Makes, g
  <2>2. "commit" \notin g.raced => Sees(x, g)
    BY <1>1, <1>2, <1>5, <2>1, ConstructedSees DEF Sees, g
  <2>3. "commit" \notin h.raced => Sees(x, h)
    BY <2>1, <2>2, SeesStays
  <2> QED BY <1>1, <2>1, <2>3, SeenMoves DEF g
<1>8. CASE Consults(r, x, h)
  <2>1. /\ h.commits = g.commits /\ h.raced = g.raced /\ h.covered = g.covered
        /\ h.merges = g.merges
        /\ "commit" \notin h.raced => Seen(h)
    BY <1>3, <1>8 DEF Consults, g
  <2>2. /\ req[r].pc = "made" /\ x.pc = "asked" /\ x.cmd.tool = req[r].cmd.tool
        /\ x.cmd.head = req[r].cmd.head /\ (Read(r, x) \/ ReadNothing(r, x))
    BY <1>8 DEF Consults, Asked
  <2>3. Sees(req[r], g) => Sees(x, g)
    <3> SUFFICES ASSUME Sees(req[r], g) PROVE Sees(x, g)
      OBVIOUS
    <3>1. CASE Read(r, x)
      <4> PICK f : /\ f = GetDiffFiles(g, req[r], req[r].cmd.inc)
                   /\ x.list = f.list /\ x.diff = f.diff /\ x.cmd.sees = f.sees
        BY <3>1 DEF Read, g
      <4>1. /\ req[r].diff \in SUBSET (1 .. MaxCommits)
            /\ req[r].cmd.inc.unreviewed \in SUBSET (1 .. MaxCommits)
        BY <1>1 DEF Request, RunningCommand
      <4>2. /\ f.list \in {0, Len(g.commits)} /\ f.diff = f.sees /\ Covers(f.sees, g)
        BY <1>1, <2>2, <4>1, DiffCovers DEF Sees
      <4> QED BY <2>2, <4>2 DEF Sees
    <3>2. CASE ReadNothing(r, x)
      BY <2>2, <3>2 DEF ReadNothing, Sees
    <3> QED BY <2>2, <3>1, <3>2
  <2>4. "commit" \notin h.raced => Sees(x, h)
    BY <1>5, <2>1, <2>3, SeesStays
  <2> QED BY <1>1, <2>1, <2>2, <2>4, SeenMoves DEF g
<1>9. CASE Ends(r, x, h)
  <2>1. /\ x.pc \in {"done", "commands"} /\ x.list = req[r].list /\ x.diff = req[r].diff
        /\ req[r].pc \in {"made", "asked"} /\ (h = g \/ (req[r].pc = "asked" /\ Leaves(r, h)))
    BY <1>9 DEF Ends, Ended, g
  <2>2. /\ h.commits = g.commits \/ "commit" \in h.raced
        /\ g.raced \subseteq h.raced /\ g.covered \subseteq h.covered /\ h.merges = g.merges
    BY <2>1 DEF Leaves, Reviewed, g
  <2>3. "commit" \notin h.raced => Seen(h)
    <3>1. CASE h = g
      BY <1>2, <3>1
    <3>2. CASE req[r].pc = "asked" /\ Leaves(r, h)
      <4> SUFFICES ASSUME "commit" \notin h.raced PROVE Seen(h)
        OBVIOUS
      <4>1. /\ h.commits = g.commits /\ "commit" \notin g.raced /\ h \in HostGood
            /\ Reviewed(r, h, g)
        BY <2>2, <3>2 DEF Leaves, g
      <4>2. req[r].cmd.tool = "review" => Covers(req[r].cmd.sees, g)
        BY <1>5, <3>2, <4>1 DEF Sees
      <4> QED BY <1>1, <1>2, <2>2, <4>1, <4>2, ReviewedSeen
    <3> QED BY <2>1, <3>1, <3>2
  <2>4. Sees(req[r], g) => Sees(x, g)
    BY <2>1 DEF Sees
  <2>5. "commit" \notin h.raced => Sees(x, h)
    BY <1>5, <2>2, <2>4, SeesStays
  <2> QED BY <1>1, <2>1, <2>2, <2>3, <2>5, SeenMoves DEF g
<1> QED BY <1>6, <1>7, <1>8, <1>9 DEF Steps

LEMMA SeenMeanwhile ==
    ASSUME Typed, AllSeen, NEW p, NEW h, Meanwhile(p, h)
    PROVE  AllSeen'
<1> DEFINE g == host[p]
<1>1. /\ p \in PRs /\ conf' = conf /\ req' = req /\ host'[p] = h /\ g \in HostGood
      /\ h \in HostGood /\ \A q \in PRs : q # p => host'[q] = host[q]
  BY DEF Meanwhile
<1>2. /\ g.raced \subseteq h.raced /\ h.covered = g.covered /\ h.reviews = g.reviews
      /\ g.merges \subseteq h.merges
      /\ "commit" \notin g.raced => Seen(g)
  BY <1>1, SameHas DEF Meanwhile, Pushed, Edited, Labelled, AllSeen
<1>3. ASSUME "commit" \notin h.raced
      PROVE  h.commits = g.commits \/ ~Busy(p)
  BY <1>3, SameHas DEF Meanwhile, Pushed, Edited, Labelled
<1>4. ASSUME "commit" \notin h.raced
      PROVE  Seen(h)
  <2>1. CASE h.commits = g.commits
    BY <1>2, <1>4, <2>1, SeenStays
  <2>2. CASE Pushed(p, h)
    <3> PICK seen \in 0 .. Len(g.reviews) : /\ h.commits = Append(g.commits, seen)
                                            /\ ~(seen < Len(g.reviews))
      BY <1>4, <2>2 DEF Pushed
    <3>1. g.commits \in Seq(Nat) /\ Len(g.reviews) \in Nat
      BY <1>1, HostHas
    <3>2. seen = Len(g.reviews)
      BY <3>1
    <3>3. /\ DOMAIN h.commits = 1 .. Len(g.commits) + 1
          /\ h.commits[Len(g.commits) + 1] = seen
          /\ \A d \in 1 .. Len(g.commits) : h.commits[d] = g.commits[d] /\ d \in DOMAIN g.commits
      BY <3>1
    <3>4. ASSUME NEW d \in DOMAIN h.commits, h.commits[d] < Len(h.reviews)
          PROVE  (1 .. d) \ h.merges \subseteq h.covered
      <4>1. d # Len(g.commits) + 1
        BY <1>2, <3>1, <3>2, <3>3, <3>4
      <4>2. d \in 1 .. Len(g.commits)
        BY <3>1, <3>3, <4>1
      <4>3. g.commits[d] < Len(g.reviews) /\ d \in DOMAIN g.commits
        BY <1>2, <3>3, <3>4, <4>2
      <4> QED BY <1>2, <1>4, <4>3 DEF Seen
    <3> QED BY <3>4 DEF Seen
  <2>3. CASE Edited(p, h) \/ Labelled(p, h)
    BY <2>1, <2>3, SameHas DEF Edited, Labelled
  <2> QED BY <2>2, <2>3 DEF Meanwhile
<1>5. ASSUME NEW q \in Requests, req[q].pc \notin {"sent", "done"},
             "commit" \notin host'[Pr(q)].raced
      PROVE  Sees(req[q], host'[Pr(q)])
  <2>1. q \in DOMAIN conf.events /\ Pr(q) \in PRs
    BY <1>5, OfRequest
  <2>2. "commit" \notin host[Pr(q)].raced
    BY <1>1, <1>2, <1>5, <2>1
  <2>3. Sees(req[q], host[Pr(q)])
    BY <1>5, <2>2 DEF AllSeen, HostOf
  <2>4. CASE Pr(q) = p
    <3>1. Busy(p)
      BY <1>5, <2>1, <2>4 DEF Busy
    <3>2. h.commits = g.commits
      BY <1>1, <1>3, <1>5, <2>4, <3>1
    <3> QED BY <1>1, <1>2, <2>3, <2>4, <3>2, SeesStays
  <2>5. CASE Pr(q) # p
    BY <1>1, <2>1, <2>3, <2>5
  <2> QED BY <2>4, <2>5
<1>6. ASSUME NEW q \in PRs, "commit" \notin host'[q].raced
      PROVE  Seen(host'[q])
  <2>1. CASE q = p
    BY <1>1, <1>4, <1>6, <2>1
  <2>2. CASE q # p
    BY <1>1, <1>6, <2>2 DEF AllSeen
  <2> QED BY <2>1, <2>2
<1>7. \A q \in Requests : req'[q].pc = "sent" => req'[q].list = 0 /\ req'[q].diff = {}
  BY <1>1 DEF AllSeen
<1> QED BY <1>1, <1>5, <1>6, <1>7, SeenThen

LEMMA SeenInit == Init => AllSeen
<1> SUFFICES ASSUME Init PROVE AllSeen
  OBVIOUS
<1>1. Seen(NewPr)
  BY DEF Seen, NewPr
<1>2. \A q \in Requests : /\ req[q].list = 0 /\ req[q].diff = {}
                          /\ req[q].pc \in {"sent", "done"}
  BY NewRequestGood DEF Init, InitRequests, NewRequest
<1> QED BY <1>1, <1>2 DEF AllSeen, Init, InitHost

LEMMA SeenNext == Typed /\ AllSeen /\ [Next]_vars => AllSeen'
<1> SUFFICES ASSUME Typed, AllSeen, [Next]_vars PROVE AllSeen'
  OBVIOUS
<1>1. CASE UNCHANGED <<conf, settings, host, req>>
  BY <1>1, SeenThen DEF AllSeen, HostOf
<1> QED BY <1>1, NextIs, SeenSteps, SeenMeanwhile

\* A review sees, with the reviews before it, every commit that was there when
\* it began and is no merge of the default branch, for every number of commits,
\* whatever of the pull request an earlier command of its request has kept, and
\* whatever reviews ran before or run beside it; unless a commit came in while a
\* request was under way or was authored before a review that had not seen it.
THEOREM ReviewCorrectness == Spec => []ReviewMissesNothing
<1>1. Typed /\ AllSeen => ReviewMissesNothing
  <2> SUFFICES ASSUME Typed, AllSeen, NEW r \in Requests, At(r, "asked", "review"),
                      "commit" \notin HostOf(r).raced
               PROVE  (1 .. req[r].cmd.head) \ HostOf(r).merges
                         \subseteq HostOf(r).covered \cup req[r].cmd.sees
    BY DEF ReviewMissesNothing
  <2>1. Sees(req[r], HostOf(r)) /\ HostOf(r) \in HostGood
    BY OfRequest DEF At, AllSeen
  <2>2. /\ Covers(req[r].cmd.sees, HostOf(r)) /\ Len(HostOf(r).commits) \in Nat
        /\ req[r].cmd.head \in 0 .. Len(HostOf(r).commits)
    BY <2>1, HostHas DEF Sees, At
  <2>3. 1 .. req[r].cmd.head \subseteq 1 .. Len(HostOf(r).commits)
    BY <2>2
  <2> QED BY <2>2, <2>3 DEF Covers
<1> QED BY <1>1, TypedInit, TypedNext, SeenInit, SeenNext, PTL DEF Spec

-----------------------------------------------------------------------------
\* What tools show while they are at work.

\* Nobody turns publishing off for others.
Public == SharesSettings(conf.server) => "publish" \notin AskedKeys

\* The comment y is that of the command that request q is at, under settings s;
\* or of one that is over.
Working(y, q, s) ==
    /\ q.pc = "asked" /\ y[2] = Len(q.ended) + 1
    /\ q.cmd.tool \in Showing /\ Publishes(s)
Over(y, q) == y[2] \in DOMAIN q.ended /\ q.ended[y[2]] \in {"failed", "withheld"}

Accounted ==
    Public =>
        /\ SharesSettings(conf.server) => settings[Global] \in Loud
        /\ \A p \in PRs : \A y \in Pending(host[p]) :
              \/ Pr(y[1]) = p /\ Working(y, req[y[1]], settings[Store(y[1])])
              \/ Over(y, req[y[1]])

LEMMA SharedServes ==
    ASSUME Typed, Public, SharesSettings(conf.server), NEW r \in Requests, req[r].pc # "done"
    PROVE  /\ Serves(Loud, r, AskedKeys) /\ Options = AskedKeys /\ Store(r) = Global
           /\ settings[Global] \in Loud =>
                 \A s \in CachedTickets(settings[Global], Pr(r)) : s \in Loud
<1>1. conf \in Deployment /\ r \in DOMAIN conf.events /\ Pr(r) \in PRs
  BY OfDeployment, OfRequest DEF Typed
<1>2. "publish" \notin AskedKeys /\ conf.server # "mosaico" /\ Store(r) = Global
  BY DEF Public, SharesSettings, Store
<1>3. Closed(Loud, r, AskedKeys)
  BY <1>1, <1>2, LoudClosed
<1>4. Serves(Loud, r, AskedKeys)
  BY <1>1, <1>2, <1>3 DEF Serves
<1>5. Options = AskedKeys
  BY <1>2 DEF Options
<1>6. \A s \in Loud : Layer(s, {"tickets"}, Tickets(Pr(r))) \in Loud
  BY <1>3 DEF Closed
<1> QED BY <1>2, <1>4, <1>5, <1>6 DEF CachedTickets

LEMMA LoudStays ==
    ASSUME Typed, Public, SharesSettings(conf.server), settings[Global] \in Loud, [Next]_vars
    PROVE  settings'[Global] \in Loud
<1>1. CASE settings' = settings
  BY <1>1
<1>2. ASSUME NEW r \in Requests, req[r].pc # "done", NEW s \in Loud,
             settings' = [settings EXCEPT ![Store(r)] = s]
      PROVE  settings'[Global] \in Loud
  BY <1>2, SharedServes, StoresStay
<1>3. ASSUME NEW r \in Requests, Receive(r)
      PROVE  settings'[Global] \in Loud
  <2> PICK o, x : Received(r, o, x)
    BY <1>3, ReceiveIs
  <2>1. /\ o \in Handled(r) /\ req[r].pc # "done"
        /\ settings' = [settings EXCEPT ![Store(r)] = o.s]
    BY DEF Received
  <2>2. o \in Outcomes(Loud, AskedKeys)
    BY <2>1, SharedServes, HandledIn
  <2> QED BY <1>2, <2>1, <2>2 DEF Outcomes
<1>4. ASSUME NEW r \in Requests, NextCommand(r)
      PROVE  settings'[Global] \in Loud
  <2> PICK c, o, k, x : Began(r, c, o, k, x)
    BY <1>4, CommandIs
  <2>1. /\ c \in Cmds(Options) /\ o \in Run(r, c) /\ req[r].pc # "done"
        /\ settings' = [settings EXCEPT ![Store(r)] = o.s]
    BY DEF Began
  <2>2. Serves(Loud, r, AskedKeys) /\ c \in Cmds(AskedKeys) /\ settings[Store(r)] \in Loud
    BY <2>1, SharedServes
  <2>3. req[r].repo \in Reads
    BY DEF Typed, RequestGood, Request, Reads
  <2>4. o \in Results(Loud)
    BY <2>1, <2>2, <2>3, RunIn
  <2> QED BY <1>2, <2>1, <2>4 DEF Results
<1>5. ASSUME NEW r \in Requests, RunTool(r)
      PROVE  settings'[Global] \in Loud
  <2> PICK x : Ran(r, x)
    BY <1>5, RunIs
  <2>1. req[r].pc # "done" /\ (settings' = settings \/ ExtractTickets(r))
    BY DEF Ran
  <2>2. CASE ExtractTickets(r)
    <3> PICK s \in CachedTickets(settings[Store(r)], Pr(r)) :
           settings' = [settings EXCEPT ![Store(r)] = s]
      BY <2>2 DEF ExtractTickets
    <3>1. s \in Loud
      BY <2>1, SharedServes
    <3> QED BY <1>2, <2>1, <3>1
  <2> QED BY <1>1, <2>1, <2>2
<1>6. ASSUME NEW r \in Requests, PublishTool(r)
      PROVE  settings' = settings
  BY <1>6, PublishIs DEF Left
<1>7. CASE UNCHANGED settings
  BY <1>1, <1>7
<1> QED BY <1>3, <1>4, <1>5, <1>6, <1>7 DEF Next, Arrive, Work, vars

LEMMA OverStays ==
    ASSUME NEW q \in Request, NEW x \in Request, NEW how \in Endings,
           x.ended = q.ended \/ x.ended = Append(q.ended, how), NEW y \in Requests \X Nat
    PROVE  /\ Over(y, q) => Over(y, x)
           /\ y[2] = Len(q.ended) + 1 /\ how \in {"failed", "withheld"}
              /\ x.ended = Append(q.ended, how) => Over(y, x)
<1>1. q.ended \in Seq(Endings)
  BY DEF Request
<1>2. y[2] \in Nat
  OBVIOUS
<1>3. CASE x.ended = Append(q.ended, how)
  <2>1. /\ DOMAIN x.ended = 1 .. Len(q.ended) + 1 /\ x.ended[Len(q.ended) + 1] = how
        /\ \A i \in DOMAIN q.ended : i \in DOMAIN x.ended /\ x.ended[i] = q.ended[i]
    BY <1>1, <1>3
  <2>2. Len(q.ended) + 1 \in DOMAIN x.ended
    BY <1>1, <2>1
  <2> QED BY <2>1, <2>2 DEF Over
<1>4. CASE x.ended = q.ended
  <2>1. q.ended # Append(q.ended, how)
    BY <1>1
  <2> QED BY <1>4, <2>1 DEF Over
<1> QED BY <1>3, <1>4

LEMMA AccountedSteps ==
    ASSUME Typed, Accounted, Public, [Next]_vars, NEW r, NEW x, NEW h, Steps(r, x, h)
    PROVE  Accounted'
<1>1. /\ r \in Requests /\ Pr(r) \in PRs /\ conf' = conf /\ req' = [req EXCEPT ![r] = x]
      /\ HostOf(r) \in HostGood /\ h \in HostGood
      /\ host'[Pr(r)] = h /\ host[Pr(r)] = HostOf(r) /\ x \in Request /\ req[r] \in Request
      /\ \A p \in PRs : p # Pr(r) => Same(host'[p], host[p], {"notice"})
      /\ \A z \in Stores : z # Store(r) => settings'[z] = settings[z]
  BY DEF Steps, Moves, HostOf, Typed, RequestGood
<1>2. SharesSettings(conf.server) => settings'[Global] \in Loud
  BY LoudStays DEF Accounted
<1>3. /\ Public' /\ (SharesSettings(conf.server))' = SharesSettings(conf.server)
      /\ \A q : Store(q)' = Store(q) /\ Pr(q)' = Pr(q)
  BY <1>1 DEF Public, SharesSettings, AskedKeys, Store, Pr
<1>4. \E how \in Endings : x.ended = req[r].ended \/ x.ended = Append(req[r].ended, how)
  BY EndingsAre DEF Steps, Rests, Makes, Consults, Asked, Ends, Ended
<1>5. ASSUME NEW p \in PRs, NEW y \in Pending(host'[p]), y \in Pending(host[p]),
             ~(y[1] = r /\ Working(y, req[r], settings[Store(r)]))
      PROVE  \/ Pr(y[1]) = p /\ Working(y, req'[y[1]], settings'[Store(y[1])])
             \/ Over(y, req'[y[1]])
  <2>1. y \in Requests \X Nat /\ y[1] \in Requests
    BY <1>5, HostHas DEF Typed, Pending
  <2>2. CASE y[1] = r
    <3>1. Over(y, req[r])
      BY <1>5, <2>2 DEF Accounted
    <3>2. Over(y, x)
      BY <1>1, <1>4, <2>1, <3>1, OverStays
    <3>3. req'[r] = x
      BY <1>1 DEF Typed
    <3> QED BY <2>2, <3>2, <3>3
  <2>3. CASE y[1] # r
    <3>1. req'[y[1]] = req[y[1]]
      BY <1>1, <2>3
    <3>2. Publishes(settings[Store(y[1])]) => Publishes(settings'[Store(y[1])])
      <4>1. CASE SharesSettings(conf.server)
        BY <1>2, <4>1 DEF Store, Loud
      <4>2. CASE ~SharesSettings(conf.server)
        <5>1. Store(y[1]) \in Stores /\ Store(y[1]) # Store(r)
          BY <2>1, <2>3, <4>2 DEF Store, Stores
        <5> QED BY <1>1, <5>1
      <4> QED BY <4>1, <4>2
    <3>3. \/ Pr(y[1]) = p /\ Working(y, req[y[1]], settings[Store(y[1])])
          \/ Over(y, req[y[1]])
      BY <1>5 DEF Accounted
    <3> QED BY <3>1, <3>2, <3>3 DEF Working
  <2> QED BY <2>2, <2>3
<1>6. ASSUME NEW p \in PRs, NEW y \in Pending(host'[p])
      PROVE  \/ Pr(y[1]) = p /\ Working(y, req'[y[1]], settings'[Store(y[1])])
             \/ Over(y, req'[y[1]])
  <2>1. CASE p # Pr(r)
    <3>1. y \in Pending(host[p])
      BY <1>1, <1>6, <2>1, SameHas DEF Pending
    <3>2. CASE y[1] = r /\ Working(y, req[r], settings[Store(r)])
      <4>1. Over(y, req[r]) \/ Pr(r) = p
        BY <3>1, <3>2 DEF Accounted
      <4>2. y \in Requests \X Nat
        BY <3>1, HostHas DEF Typed, Pending
      <4>3. Over(y, x)
        BY <1>1, <1>4, <2>1, <4>1, <4>2, OverStays
      <4>4. req'[r] = x
        BY <1>1 DEF Typed
      <4> QED BY <3>2, <4>3, <4>4
    <3> QED BY <1>5, <3>1, <3>2
  <2>2. CASE p = Pr(r)
    <3>1. y \in Pending(h) /\ req'[r] = x /\ y \in Requests \X Nat
      BY <1>1, <1>6, <2>2, HostHas DEF Typed, Pending
    <3>2. CASE y \in Pending(HostOf(r)) /\ ~(y[1] = r /\ Working(y, req[r], settings[Store(r)]))
      BY <1>1, <1>5, <2>2, <3>2
    <3>3. CASE y \in Pending(HostOf(r)) /\ y[1] = r /\ Working(y, req[r], settings[Store(r)])
      <4>1. /\ req[r].pc = "asked" /\ y[2] = Len(req[r].ended) + 1
            /\ req[r].cmd.tool \in Showing /\ Publishes(settings[Store(r)])
        BY <3>3 DEF Working
      <4>2. Ends(r, x, h)
        BY <4>1 DEF Steps, Rests, Makes, Consults
      <4>3. PICK how : Ended(r, how, x) /\ Clears(r, h, how)
        BY <4>1, <4>2 DEF Ends
      <4>4. how \in Endings /\ x.ended = Append(req[r].ended, how)
        BY <4>3 DEF Ended
      <4>5. y = Mine(r)
        BY <3>1, <3>3, <4>1 DEF Mine
      <4>6. how \in {"failed", "withheld"}
        BY <3>1, <4>1, <4>3, <4>5 DEF Clears
      <4>7. Over(y, x)
        BY <1>1, <3>1, <4>1, <4>4, <4>6, OverStays
      <4> QED BY <3>1, <3>3, <4>7
    <3>4. CASE y \notin Pending(HostOf(r))
      <4>1. /\ Consults(r, x, h) /\ Pending(h) \subseteq Pending(HostOf(r)) \cup {Mine(r)}
            /\ req[r].cmd.tool \in Showing /\ Publishes(settings[Store(r)])
        <5>1. ~Rests(r, x, h) /\ \A c : ~Makes(r, x, h, c)
          BY <3>1, <3>4, SameHas DEF Rests, Makes, Pending
        <5>2. ~Ends(r, x, h)
          BY <3>1, <3>4 DEF Ends, Leaves
        <5>3. Consults(r, x, h)
          BY <5>1, <5>2 DEF Steps
        <5>4. /\ h.progress = HostOf(r).progress \cup {Mine(r)}
              /\ h.undeleted = HostOf(r).undeleted
              /\ req[r].cmd.tool \in Showing /\ Publishes(settings[Store(r)])
          BY <3>1, <3>4, <5>3, SameHas DEF Consults
        <5> QED BY <5>3, <5>4 DEF Pending
      <4>2. y = Mine(r) /\ y[1] = r /\ y[2] = Len(req[r].ended) + 1
        BY <3>1, <3>4, <4>1 DEF Mine
      <4>3. /\ x.pc = "asked" /\ x.ended = req[r].ended /\ x.cmd.tool = req[r].cmd.tool
            /\ settings'[Store(r)]["publish"] = settings[Store(r)]["publish"]
        BY <4>1 DEF Consults, Asked, SaysAsBefore
      <4>4. Working(y, x, settings'[Store(r)])
        BY <4>1, <4>2, <4>3 DEF Working, Publishes
      <4> QED BY <2>2, <3>1, <4>2, <4>4
    <3> QED BY <3>2, <3>3, <3>4
  <2> QED BY <2>1, <2>2
<1> QED BY <1>2, <1>3, <1>6 DEF Accounted

LEMMA AccountedRests ==
    ASSUME Typed, Accounted, conf' = conf, settings' = settings, req' = req,
           \A p \in PRs : Pending(host'[p]) = Pending(host[p])
    PROVE  Accounted'
<1>1. /\ Public' <=> Public
      /\ (SharesSettings(conf.server))' = SharesSettings(conf.server)
      /\ \A q : Store(q)' = Store(q) /\ Pr(q)' = Pr(q)
  BY DEF Public, SharesSettings, AskedKeys, Store, Pr
<1> QED BY <1>1 DEF Accounted

LEMMA AccountedInit == Init => Accounted
<1> SUFFICES ASSUME Init PROVE Accounted
  OBVIOUS
<1>1. settings[Global] = InitialSettings /\ InitialSettings \in StoreType
  BY DEF Init, InitSettings, InitialSettings, StoreType, Layer, Values, Stores
<1>2. InitialSettings["publish"] \in {Default, Env}
  BY DEF InitialSettings, Layer, Keys, FileKeys
<1>3. Publishes(InitialSettings)
  BY <1>2, OwnValues DEF Publishes
<1>4. \A p \in PRs : Pending(host[p]) = {}
  BY DEF Init, InitHost, NewPr, Pending
<1> QED BY <1>1, <1>3, <1>4 DEF Accounted, Loud

LEMMA AccountedNext == Typed /\ Accounted /\ [Next]_vars => Accounted'
<1> SUFFICES ASSUME Typed, Accounted, [Next]_vars PROVE Accounted'
  OBVIOUS
<1>1. ASSUME NEW r, NEW x, NEW h, Steps(r, x, h)
      PROVE  Accounted'
  <2>1. CASE Public
    BY <1>1, <2>1, AccountedSteps
  <2>2. CASE ~Public
    <3>1. conf' = conf
      BY <1>1 DEF Steps, Moves
    <3>2. Public' <=> Public
      BY <3>1 DEF Public, SharesSettings, AskedKeys
    <3> QED BY <2>2, <3>2 DEF Accounted
  <2> QED BY <2>1, <2>2
<1>2. ASSUME NEW p, NEW h, Meanwhile(p, h)
      PROVE  Accounted'
  <2>1. h.progress = host[p].progress /\ h.undeleted = host[p].undeleted
    BY <1>2, SameHas DEF Meanwhile, Pushed, Edited, Labelled
  <2>2. \A q \in PRs : Pending(host'[q]) = Pending(host[q])
    BY <1>2, <2>1 DEF Meanwhile, Pending
  <2> QED BY <1>2, <2>2, AccountedRests DEF Meanwhile
<1>3. CASE UNCHANGED <<conf, settings, host, req>>
  BY <1>3, AccountedRests
<1> QED BY <1>1, <1>2, <1>3, NextIs

\* A progress comment that the service has not refused to delete is that of a
\* command that is at work, or of one that failed or withheld its answer, whatever
\* else runs on its pull request; where the
\* requests share their settings, provided that none of them turns publishing off
\* for the others.
THEOREM ProgressCorrectness == Spec => []ProgressCleared
<1>1. Accounted => ProgressCleared
  BY DEF Accounted, Public, Working, Over, Pending, ProgressCleared
<1> QED BY <1>1, TypedInit, TypedNext, AccountedInit, AccountedNext, PTL DEF Spec

-----------------------------------------------------------------------------
\* The tasks of mosaico.

\* A task has one command, which turns publishing off for itself; from then on its
\* settings say so.
Quiet ==
    conf.server = "mosaico" => \A r \in Requests :
        /\ Silent(req[r])
        /\ req[r].pc \in {"made", "asked"} => settings[Store(r)]["publish"] = Args(r)

LEMMA ArgsSayNo == \A s : \A r \in Requests : s["publish"] = Args(r) => ~Publishes(s)
BY DEF Publishes

LEMMA MosaicoStore ==
    ASSUME conf.server = "mosaico", NEW r
    PROVE  Store(r) = r
BY DEF Store, SharesSettings

LEMMA TailOfOne ==
    ASSUME NEW S, NEW t \in Seq(S), Len(t) = 1
    PROVE  Tail(t) = <<>>
<1>1. t # <<>>
  OBVIOUS
<1>2. Tail(t) \in Seq(S) /\ Len(Tail(t)) = 0
  BY <1>1
<1>3. \A u \in Seq(S) : Len(u) = 0 => u = <<>>
  OBVIOUS
<1> QED BY <1>2, <1>3

LEMMA QuietSteps ==
    ASSUME Typed, Quiet, NEW r, NEW x, NEW h, Steps(r, x, h), conf.server = "mosaico"
    PROVE  /\ Silent(x)
           /\ x.pc \in {"made", "asked"} => settings'[Store(r)]["publish"] = Args(r)
           /\ Same(h, HostOf(r), {"notice"})
<1>1. /\ r \in Requests /\ x \in RequestGood /\ req[r] \in RequestGood
  BY DEF Steps, Moves, Typed
<1>2. /\ Silent(req[r])
      /\ req[r].pc \in {"made", "asked"} =>
            settings[Store(r)]["publish"] = Args(r) /\ ~Publishes(settings[Store(r)])
  BY <1>1, ArgsSayNo DEF Quiet
<1>3. req[r].pc = "commands" => Tail(req[r].todo) = <<>>
  <2>1. req[r].todo \in Seq(Cmds(Options))
    BY <1>1 DEF RequestGood
  <2>2. req[r].pc = "commands" => Len(req[r].todo) = 1
    BY <1>2 DEF Silent
  <2>3. ASSUME NEW t \in Seq(Cmds(Options)), Len(t) = 1
        PROVE  Tail(t) = <<>>
    BY <2>3, TailOfOne
  <2> QED BY <2>1, <2>2, <2>3
<1>4. x.pc = "commands" => x.todo # <<>>
  BY <1>1 DEF RequestGood
<1>5. CASE Rests(r, x, h)
  BY <1>3, <1>4, <1>5 DEF Rests, Silent
<1>6. ASSUME NEW c, Makes(r, x, h, c)
      PROVE  /\ Silent(x) /\ Same(h, HostOf(r), {"notice"})
             /\ settings'[Store(r)]["publish"] = Args(r)
  <2>1. "publish" \in c.keys
    BY <1>2, <1>6 DEF Makes, Silent
  <2> QED BY <1>3, <1>6, <2>1 DEF Makes, Silent
<1>7. CASE Consults(r, x, h)
  <2>1. h = HostOf(r) /\ x.pc = "asked" /\ x.todo = req[r].todo
    BY <1>2, <1>7 DEF Consults, Asked
  <2> QED BY <1>2, <1>7, <2>1, SameIsSame DEF Consults, Silent, SaysAsBefore
<1>8. CASE Ends(r, x, h)
  <2>1. h = HostOf(r)
    BY <1>2, <1>8 DEF Ends
  <2>2. x.todo = <<>> /\ x.pc \notin {"made", "asked"}
    BY <1>2, <1>8 DEF Ends, Ended, Silent
  <2> QED BY <1>4, <2>1, <2>2, SameIsSame DEF Silent
<1> QED BY <1>5, <1>6, <1>7, <1>8 DEF Steps

LEMMA QuietInit == Init => Quiet
<1> SUFFICES ASSUME Init, NEW r \in Requests
             PROVE  Silent(req[r]) /\ req[r].pc \notin {"made", "asked"}
  BY DEF Quiet
<1>1. req[r].pc \in {"sent", "done"}
  BY NewRequestGood DEF Init, InitRequests
<1> QED BY <1>1 DEF Silent

LEMMA QuietNext == Typed /\ Quiet /\ [Next]_vars => Quiet'
<1> SUFFICES ASSUME Typed, Quiet, [Next]_vars, conf'.server = "mosaico",
                    NEW z \in Requests
             PROVE  /\ Silent(req'[z])
                    /\ req'[z].pc \in {"made", "asked"} => settings'[Store(z)']["publish"] = Args(z)
  BY DEF Quiet, Silent, Args
<1>1. ASSUME conf' = conf
      PROVE  /\ conf.server = "mosaico" /\ Store(z)' = z /\ Store(z) = z /\ Silent(req[z])
             /\ req[z].pc \in {"made", "asked"} => settings[z]["publish"] = Args(z)
  BY <1>1, MosaicoStore DEF Quiet, Store, SharesSettings
<1>2. ASSUME NEW r, NEW x, NEW h, Steps(r, x, h)
      PROVE  /\ Silent(req'[z])
             /\ req'[z].pc \in {"made", "asked"} => settings'[Store(z)']["publish"] = Args(z)
  <2>1. /\ r \in Requests /\ conf' = conf /\ req' = [req EXCEPT ![r] = x]
        /\ \A y \in Stores : y # Store(r) => settings'[y] = settings[y]
    BY <1>2 DEF Steps, Moves
  <2>2. conf.server = "mosaico" /\ Store(z)' = z /\ Store(z) = z /\ Store(r) = r
    BY <1>1, <2>1, MosaicoStore
  <2>3. CASE z = r
    <3>1. req'[z] = x
      BY <2>1, <2>3 DEF Typed
    <3> QED BY <1>2, <2>2, <2>3, <3>1, QuietSteps
  <2>4. CASE z # r
    <3>1. req'[z] = req[z]
      BY <2>1, <2>4
    <3>2. settings'[z] = settings[z]
      BY <2>1, <2>2, <2>4 DEF Stores
    <3> QED BY <1>1, <2>1, <2>2, <3>1, <3>2
  <2> QED BY <2>3, <2>4
<1>3. CASE UNCHANGED <<conf, settings, req>>
  BY <1>1, <1>3
<1> QED BY <1>2, <1>3, NextIs DEF Meanwhile

\* What a task of mosaico may do to the pull requests.
QuietStep ==
    conf.server = "mosaico" /\ req' # req =>
        \A p \in PRs : host'[p] = [host[p] EXCEPT !.notice = host'[p].notice]

LEMMA SameButNotice ==
    ASSUME NEW h \in Host, NEW g \in Host, Same(h, g, {"notice"})
    PROVE  h = [g EXCEPT !.notice = h.notice]
<1> DEFINE n == h.notice
           x == [g EXCEPT !.notice = n]
<1>1. n \in BOOLEAN /\ h.notice = n
  BY DEF Host
<1> HIDE DEF n
<1>2. x \in Host /\ Same(x, g, {"notice"}) /\ x.notice = n
  BY <1>1 DEF Host, Same, HostFields
<1> HIDE DEF x
<1>3. Same(h, x, {})
  BY <1>1, <1>2 DEF Same, HostFields
<1>4. h = x
  <2>1. /\ h.commits = x.commits /\ h.reviews = x.reviews /\ h.covered = x.covered
        /\ h.body = x.body /\ h.text = x.text /\ h.edits = x.edits
        /\ h.labels = x.labels /\ h.labelled = x.labelled /\ h.raced = x.raced
        /\ h.log = x.log /\ h.progress = x.progress /\ h.notice = x.notice
        /\ h.merges = x.merges /\ h.undeleted = x.undeleted
    BY <1>3, SameHas
  <2>2. h = [commits |-> h.commits, merges |-> h.merges, reviews |-> h.reviews,
          covered |-> h.covered, body |-> h.body, text |-> h.text,
          edits |-> h.edits, labels |-> h.labels, labelled |-> h.labelled,
          raced |-> h.raced, log |-> h.log, progress |-> h.progress,
          undeleted |-> h.undeleted, notice |-> h.notice]
    BY DEF Host
  <2>3. x = [commits |-> x.commits, merges |-> x.merges, reviews |-> x.reviews,
          covered |-> x.covered, body |-> x.body, text |-> x.text,
          edits |-> x.edits, labels |-> x.labels, labelled |-> x.labelled,
          raced |-> x.raced, log |-> x.log, progress |-> x.progress,
          undeleted |-> x.undeleted, notice |-> x.notice]
    BY <1>2 DEF Host
  <2> QED BY <2>1, <2>2, <2>3
<1> QED BY <1>4 DEF x, n

LEMMA QuietSays == Typed /\ Quiet /\ [Next]_vars => QuietStep
<1> SUFFICES ASSUME Typed, Quiet, [Next]_vars, conf.server = "mosaico", req' # req,
                    NEW p \in PRs
             PROVE  host'[p] = [host[p] EXCEPT !.notice = host'[p].notice]
  BY DEF QuietStep
<1>1. ~(UNCHANGED <<conf, settings, host, req>>) /\ ~(\E q, h : Meanwhile(q, h))
  BY DEF Meanwhile
<1>2. PICK r, x, h : Steps(r, x, h)
  BY <1>1, NextIs
<1>3. Same(h, HostOf(r), {"notice"})
  BY <1>2, QuietSteps
<1>4. Same(host'[p], host[p], {"notice"})
  BY <1>2, <1>3 DEF Steps, Moves, HostOf
<1>5. host[p] \in Host /\ host'[p] \in Host
  BY TypedNext DEF Typed, HostGood
<1> QED BY <1>4, <1>5, SameButNotice

\* A task of mosaico changes nothing on a pull request but the notice about a broken
\* settings file, whatever the file says: its only command turns publishing off
\* before its tool is created, and nothing turns it on again.
THEOREM MosaicoCorrectness == Spec => MosaicoIsQuiet
<1>1. Typed /\ Quiet /\ [Next]_vars => [QuietStep]_vars
  BY QuietSays
<1> QED BY <1>1, TypedInit, TypedNext, QuietInit, QuietNext, PTL DEF Spec, MosaicoIsQuiet, QuietStep

-----------------------------------------------------------------------------
\* The comments that are polled for.

\* The comments of S that a start of r may be owed to; where r waits in q.
Owed(r, S) == {z \in S : z = r \/ (OnPr(z) = OnPr(r) /\ ~Asks(z))}
Places(r, q) == {i \in 1 .. Len(q) : q[i] = r}

\* Only comments are handled, and every start, done or waiting, is owed to a
\* comment of its own that was handled.
Charged ==
    /\ ToSet(poll.written) \cup poll.batch \cup poll.handled \subseteq DOMAIN conf.events
    /\ \A r \in Requests :
          poll.started[r] + Cardinality(Places(r, poll.queue))
             <= Cardinality(Owed(r, poll.handled))

LEMMA OwedFinite ==
    ASSUME NEW S, S \subseteq Requests, NEW r
    PROVE  IsFiniteSet(Owed(r, S)) /\ Cardinality(Owed(r, S)) \in Nat
<1>1. NumRequests \in Nat /\ Owed(r, S) \subseteq 1 .. NumRequests
  BY SettingsAssumption DEF Owed, Requests
<1> QED BY <1>1, CountIn

LEMMA OwedGrows ==
    ASSUME NEW S, S \subseteq Requests, NEW z \in Requests, NEW r
    PROVE  /\ Cardinality(Owed(r, S)) <= Cardinality(Owed(r, S \cup {z}))
           /\ z \notin S /\ (z = r \/ (OnPr(z) = OnPr(r) /\ ~Asks(z)))
              => Cardinality(Owed(r, S \cup {z})) = Cardinality(Owed(r, S)) + 1
<1>1. IsFiniteSet(Owed(r, S)) /\ Cardinality(Owed(r, S)) \in Nat
  BY OwedFinite
<1>2. CASE z = r \/ (OnPr(z) = OnPr(r) /\ ~Asks(z))
  <2>1. Owed(r, S \cup {z}) = Owed(r, S) \cup {z}
    BY <1>2 DEF Owed
  <2>2. z \notin S => z \notin Owed(r, S)
    BY DEF Owed
  <2>3. Cardinality(Owed(r, S) \cup {z}) =
           IF z \in Owed(r, S) THEN Cardinality(Owed(r, S)) ELSE Cardinality(Owed(r, S)) + 1
    BY <1>1, FS_AddElement
  <2> QED BY <1>1, <2>1, <2>2, <2>3
<1>3. CASE ~(z = r \/ (OnPr(z) = OnPr(r) /\ ~Asks(z)))
  <2>1. Owed(r, S \cup {z}) = Owed(r, S)
    BY <1>3 DEF Owed
  <2> QED BY <1>1, <1>3, <2>1
<1> QED BY <1>2, <1>3

LEMMA PlacesCount ==
    ASSUME NEW q \in Seq(Requests), NEW r
    PROVE  IsFiniteSet(Places(r, q)) /\ Cardinality(Places(r, q)) \in Nat
<1>1. Len(q) \in Nat /\ Places(r, q) \subseteq 1 .. Len(q)
  BY DEF Places
<1> QED BY <1>1, CountIn

LEMMA PlacesNone == \A r : Cardinality(Places(r, <<>>)) = 0
<1>1. \A r : Places(r, <<>>) = {}
  BY DEF Places
<1> QED BY <1>1, FS_EmptySet

LEMMA PlacesMore ==
    ASSUME NEW q \in Seq(Requests), NEW z \in Requests, NEW r
    PROVE  Cardinality(Places(r, q \o <<z>>)) =
              IF z = r THEN Cardinality(Places(r, q)) + 1 ELSE Cardinality(Places(r, q))
<1> DEFINE t == q \o <<z>>
<1>1. /\ Len(q) \in Nat /\ Len(t) = Len(q) + 1 /\ t[Len(q) + 1] = z
      /\ \A i \in 1 .. Len(q) : t[i] = q[i]
  OBVIOUS
<1> HIDE DEF t
<1>2. IsFiniteSet(Places(r, q)) /\ Cardinality(Places(r, q)) \in Nat
  BY PlacesCount
<1>3. CASE z = r
  <2>1. Places(r, t) = Places(r, q) \cup {Len(q) + 1}
    BY <1>1, <1>3 DEF Places
  <2>2. Len(q) + 1 \notin Places(r, q)
    BY <1>1 DEF Places
  <2>3. Cardinality(Places(r, q) \cup {Len(q) + 1}) = Cardinality(Places(r, q)) + 1
    BY <1>2, <2>2, FS_AddElement
  <2> QED BY <1>3, <2>1, <2>3 DEF t
<1>4. CASE z # r
  <2>1. Places(r, t) = Places(r, q)
    BY <1>1, <1>4 DEF Places
  <2> QED BY <1>4, <2>1 DEF t
<1> QED BY <1>3, <1>4

\* The comment that the search finds, if any, is one of the same pull request.
LEMMA PreviousIs ==
    ASSUME NEW p, NEW z \in PreviousComments(p)
    PROVE  OnPr(z) = p
BY DEF PreviousComments, LastOf, Comments

LEMMA ChargedHandle ==
    ASSUME Typed, Charged, HandleNotification, conf' = conf
    PROVE  Charged'
<1>1. /\ PollTypeOK /\ poll.queue \in Seq(Requests)
      /\ poll.batch \in SUBSET Requests /\ poll.handled \in SUBSET Requests
      /\ poll.started \in [Requests -> Nat]
  BY DEF Typed, PollTypeOK
<1> PICK r \in poll.batch : \E unread \in MarkNotificationAsRead(OnPr(r)),
                               v \in IsValidNotification(r) :
       poll' = [poll EXCEPT !.batch = poll.batch \ {r}, !.unread = unread,
                            !.handled = poll.handled \cup v.handled,
                            !.queue = poll.queue \o v.start]
  BY <1>1 DEF HandleNotification, PollTypeOK
<1> PICK unread \in MarkNotificationAsRead(OnPr(r)), v \in IsValidNotification(r) :
       poll' = [poll EXCEPT !.batch = poll.batch \ {r}, !.unread = unread,
                            !.handled = poll.handled \cup v.handled,
                            !.queue = poll.queue \o v.start]
  OBVIOUS
<1>2. /\ poll'.written = poll.written /\ poll'.batch = poll.batch \ {r}
      /\ poll'.handled = poll.handled \cup v.handled
      /\ poll'.queue = poll.queue \o v.start /\ poll'.started = poll.started
  BY <1>1 DEF PollTypeOK
<1>3. \A z, S : Owed(z, S)' = Owed(z, S')
  BY DEF Owed, OnPr, Asks
<1>4. \/ v.handled = {} /\ v.start = <<>>
      \/ r \notin poll.handled /\ v.handled = {r} /\ v.start = <<>>
      \/ /\ r \notin poll.handled /\ v.handled = {r}
         /\ \E q \in IF Asks(r) THEN {r} ELSE PreviousComments(OnPr(r)) : v.start = <<q>>
  BY DEF IsValidNotification, IsHandled
<1>5. r \in Requests /\ r \in DOMAIN conf.events
  BY <1>1 DEF Charged
<1>6. ToSet(poll'.written) \cup poll'.batch \cup poll'.handled \subseteq DOMAIN conf.events
  BY <1>2, <1>4, <1>5 DEF Charged
<1>7. ASSUME NEW z \in Requests
      PROVE  poll'.started[z] + Cardinality(Places(z, poll'.queue))
                <= Cardinality(Owed(z, poll.handled \cup v.handled))
  <2> DEFINE n == Cardinality(Places(z, poll.queue))
             m == Cardinality(Owed(z, poll.handled))
             n2 == Cardinality(Places(z, poll'.queue))
             m2 == Cardinality(Owed(z, poll.handled \cup v.handled))
  <2>1. /\ n \in Nat /\ m \in Nat /\ poll.started[z] \in Nat
        /\ poll.started[z] + n <= m
    BY <1>1, PlacesCount, OwedFinite DEF Charged
  <2>2. m <= m2 /\ m2 \in Nat
    <3>1. CASE v.handled = {}
      <4>1. poll.handled \cup v.handled = poll.handled
        BY <3>1
      <4>2. m2 = m
        BY <4>1
      <4> QED BY <2>1, <4>2
    <3>2. CASE v.handled = {r}
      <4>1. m <= Cardinality(Owed(z, poll.handled \cup {r}))
        BY <1>1, <1>5, OwedGrows
      <4>2. Cardinality(Owed(z, poll.handled \cup {r})) \in Nat
        BY <1>1, <1>5, OwedFinite
      <4> QED BY <3>2, <4>1, <4>2
    <3> QED BY <1>4, <3>1, <3>2
  <2>3. n2 = n \/ (n2 = n + 1 /\ m2 = m + 1)
    <3>1. CASE v.start = <<>>
      <4>1. poll'.queue = poll.queue
        <5>1. \A s \in Seq(Requests) : s \o <<>> = s
          OBVIOUS
        <5> QED BY <1>1, <1>2, <3>1, <5>1
      <4> QED BY <4>1
    <3>2. CASE v.start # <<>>
      <4> PICK q \in IF Asks(r) THEN {r} ELSE PreviousComments(OnPr(r)) : v.start = <<q>>
        BY <1>4, <3>2
      <4>1. r \notin poll.handled /\ v.handled = {r}
        BY <1>4, <3>2
      <4>2. r = q \/ (OnPr(r) = OnPr(q) /\ ~Asks(r))
        BY PreviousIs
      <4>3. q \in Requests
        <5>1. PreviousComments(OnPr(r)) \subseteq Requests
          BY <1>1, LastIn DEF PreviousComments, Comments
        <5> QED BY <1>5, <5>1
      <4>4. poll'.queue = poll.queue \o <<q>>
        BY <1>2
      <4>5. CASE q = z
        <5>1. Cardinality(Owed(z, poll.handled \cup {r})) = m + 1
          BY <1>1, <1>5, <4>1, <4>2, <4>5, OwedGrows
        <5>2. Cardinality(Places(z, poll.queue \o <<q>>)) = n + 1
          BY <1>1, <4>3, <4>5, PlacesMore
        <5> QED BY <4>1, <4>4, <5>1, <5>2
      <4>6. CASE q # z
        <5>1. Cardinality(Places(z, poll.queue \o <<q>>)) = n
          BY <1>1, <4>3, <4>6, PlacesMore
        <5> QED BY <4>4, <5>1
      <4> QED BY <4>5, <4>6
    <3> QED BY <3>1, <3>2
  <2>4. poll'.started[z] = poll.started[z]
    BY <1>2
  <2> HIDE DEF n, m, n2, m2
  <2>5. poll'.started[z] + n2 <= m2
    BY <2>1, <2>2, <2>3, <2>4
  <2> QED BY <2>5 DEF n2, m2
<1> QED BY <1>2, <1>3, <1>6, <1>7 DEF Charged, Places

LEMMA ChargedStart ==
    ASSUME Typed, Charged, StartTasks, conf' = conf
    PROVE  Charged'
<1> DEFINE n == IF Len(poll.queue) > MaxParallel + 2 THEN MaxParallel + 2
                ELSE Len(poll.queue)
           count(r) == Cardinality({i \in 1 .. n : poll.queue[i] = r})
           st == [r \in Requests |-> poll.started[r] + count(r)]
<1>1. /\ PollTypeOK /\ poll.queue \in Seq(Requests) /\ Len(poll.queue) \in Nat
      /\ poll.handled \in SUBSET Requests /\ poll.started \in [Requests -> Nat]
  BY DEF Typed, PollTypeOK
<1>2. n \in Nat /\ n <= Len(poll.queue)
  BY <1>1, PollingAssumption
<1>3. poll' = [poll EXCEPT !.queue = <<>>, !.started = st]
  BY DEF StartTasks, PollTypeOK, Typed
<1>4. /\ poll'.written = poll.written /\ poll'.batch = poll.batch
      /\ poll'.handled = poll.handled /\ poll'.queue = <<>> /\ poll'.started = st
  <2> HIDE DEF st
  <2> QED BY <1>1, <1>3 DEF PollTypeOK
<1>5. \A z, S : Owed(z, S)' = Owed(z, S')
  BY DEF Owed, OnPr, Asks
<1>6. ASSUME NEW z \in Requests
      PROVE  st[z] + Cardinality(Places(z, <<>>)) <= Cardinality(Owed(z, poll.handled))
  <2> DEFINE c == count(z)
             k == Cardinality(Places(z, poll.queue))
             m == Cardinality(Owed(z, poll.handled))
  <2>1. c \in Nat /\ c <= k /\ k \in Nat
    <3>1. {i \in 1 .. n : poll.queue[i] = z} \in SUBSET Places(z, poll.queue)
      <4> HIDE DEF n
      <4> QED BY <1>1, <1>2 DEF Places
    <3> HIDE DEF n
    <3>2. IsFiniteSet(Places(z, poll.queue)) /\ k \in Nat
      BY <1>1, PlacesCount
    <3>3. c \in Nat
      BY <1>2, CountIn
    <3>4. c <= k
      BY <3>1, <3>2, FS_Subset
    <3> QED BY <3>2, <3>3, <3>4
  <2>2. m \in Nat /\ poll.started[z] \in Nat /\ poll.started[z] + k <= m
    BY <1>1, OwedFinite DEF Charged
  <2>3. st[z] = poll.started[z] + c
    OBVIOUS
  <2>4. Cardinality(Places(z, <<>>)) = 0
    BY PlacesNone
  <2> HIDE DEF c, k, m, st
  <2>5. st[z] + Cardinality(Places(z, <<>>)) <= m
    BY <2>1, <2>2, <2>3, <2>4
  <2> QED BY <2>5 DEF m
<1> HIDE DEF st
<1> QED BY <1>4, <1>5, <1>6 DEF Charged, Places

\* What is left of it does no harm when some of it is lost.
LEMMA ChargedLose ==
    ASSUME Typed, Charged, LoseQueue, conf' = conf
    PROVE  Charged'
<1> PICK r \in poll.batch : \E unread \in MarkNotificationAsRead(OnPr(r)) :
       poll' = [poll EXCEPT !.batch = {}, !.unread = unread, !.queue = <<>>]
  BY DEF LoseQueue
<1> PICK unread \in MarkNotificationAsRead(OnPr(r)) :
       poll' = [poll EXCEPT !.batch = {}, !.unread = unread, !.queue = <<>>]
  OBVIOUS
<1>1. /\ poll'.written = poll.written /\ poll'.batch = {} /\ poll'.handled = poll.handled
      /\ poll'.queue = <<>> /\ poll'.started = poll.started
      /\ poll.queue \in Seq(Requests) /\ poll.handled \in SUBSET Requests
      /\ poll.started \in [Requests -> Nat]
  BY DEF Typed, PollTypeOK
<1>2. \A z, S : Owed(z, S)' = Owed(z, S')
  BY DEF Owed, OnPr, Asks
<1>3. ASSUME NEW z \in Requests
      PROVE  poll.started[z] + Cardinality(Places(z, <<>>))
                <= Cardinality(Owed(z, poll.handled))
  <2> DEFINE k == Cardinality(Places(z, poll.queue))
             m == Cardinality(Owed(z, poll.handled))
             o == Cardinality(Places(z, <<>>))
  <2>1. k \in Nat /\ m \in Nat /\ poll.started[z] \in Nat /\ poll.started[z] + k <= m /\ o = 0
    BY <1>1, PlacesCount, OwedFinite, PlacesNone DEF Charged
  <2> HIDE DEF k, m, o
  <2>2. poll.started[z] + o <= m
    BY <2>1
  <2> QED BY <2>2 DEF m, o
<1> QED BY <1>1, <1>2, <1>3 DEF Charged, Places

LEMMA ChargedStays ==
    ASSUME Typed, Charged, conf' = conf, poll'.queue = poll.queue,
           poll'.handled = poll.handled, poll'.started = poll.started,
           ToSet(poll'.written) \cup poll'.batch \subseteq DOMAIN conf.events
    PROVE  Charged'
<1>1. \A z, S : Owed(z, S)' = Owed(z, S')
  BY DEF Owed, OnPr, Asks
<1>2. poll'.handled \subseteq DOMAIN conf.events
  BY DEF Charged
<1> QED BY <1>1, <1>2 DEF Charged, Places

LEMMA ChargedInit == Init => Charged
<1> SUFFICES ASSUME Init PROVE Charged
  OBVIOUS
<1>1. /\ poll.written = <<>> /\ poll.batch = {} /\ poll.handled = {} /\ poll.queue = <<>>
      /\ \A r \in Requests : poll.started[r] = 0
  BY DEF Init, InitPoll
<1>2. ToSet(<<>>) = {}
  BY DEF ToSet
<1>3. \A r : Owed(r, {}) = {}
  BY DEF Owed
<1>4. \A r : Cardinality(Owed(r, {})) = 0 /\ Cardinality(Places(r, <<>>)) = 0
  BY <1>3, PlacesNone, FS_EmptySet
<1> QED BY <1>1, <1>2, <1>4 DEF Charged

LEMMA ChargedNext == Typed /\ Charged /\ [Next]_vars => Charged'
<1> SUFFICES ASSUME Typed, Charged, [Next]_vars PROVE Charged'
  OBVIOUS
<1>1. conf' = conf
  BY NextIs DEF Steps, Moves, Meanwhile
<1>2. CASE poll' = poll
  BY <1>1, <1>2, ChargedStays DEF Charged
<1>3. ASSUME NEW r \in Requests, WriteComment(r)
      PROVE  Charged'
  <2>1. /\ r \in DOMAIN conf.events /\ poll'.written = Append(poll.written, r)
        /\ poll'.batch = poll.batch /\ poll'.queue = poll.queue
        /\ poll'.handled = poll.handled /\ poll'.started = poll.started
        /\ poll.written \in Seq(Requests)
    BY <1>3 DEF WriteComment, Typed, PollTypeOK
  <2>2. ToSet(poll'.written) \subseteq ToSet(poll.written) \cup {r}
    BY <2>1 DEF ToSet
  <2> QED BY <1>1, <2>1, <2>2, ChargedStays DEF Charged
<1>4. CASE FetchNotifications
  <2> DEFINE b == UNION {LastOf(Comments(p)) : p \in poll.unread}
  <2>1. b \subseteq ToSet(poll.written)
    BY DEF LastOf, Comments, ToSet
  <2>2. poll' = [poll EXCEPT !.batch = b]
    BY <1>4 DEF FetchNotifications
  <2> HIDE DEF b
  <2>3. /\ poll'.written = poll.written /\ poll'.batch = b /\ poll'.queue = poll.queue
        /\ poll'.handled = poll.handled /\ poll'.started = poll.started
    BY <2>2 DEF Typed, PollTypeOK
  <2> QED BY <1>1, <2>1, <2>3, ChargedStays DEF Charged
<1>5. CASE Poll
  BY <1>1, <1>4, <1>5, ChargedHandle, ChargedLose, ChargedStart DEF Poll
<1> QED BY <1>2, <1>3, <1>5 DEF Next, Work, vars

\* A comment is started once for itself, and at most once more for each comment of
\* its pull request that asks for nothing, however notifications are marked, lost
\* and found again: each start is owed to a comment that was handled once.
THEOREM PollingCorrectness == Spec => []CommentStartedOnce
<1>1. Typed /\ Charged => CommentStartedOnce
  <2> SUFFICES ASSUME Typed, Charged, NEW r \in DOMAIN conf.events
               PROVE  poll.started[r] <= 1 + Cardinality({q \in DOMAIN conf.events :
                                                Pr(q) = Pr(r) /\ ~Asks(q)})
    BY DEF CommentStartedOnce
  <2> DEFINE T == {q \in DOMAIN conf.events : Pr(q) = Pr(r) /\ ~Asks(q)}
             k == Cardinality(Places(r, poll.queue))
             m == Cardinality(Owed(r, poll.handled))
             t == Cardinality(T)
             u == Cardinality(T \cup {r})
  <2>1. /\ DOMAIN conf.events \subseteq Requests /\ poll.handled \subseteq Requests
        /\ poll.queue \in Seq(Requests) /\ poll.started \in [Requests -> Nat]
    BY OfDeployment DEF Typed, PollTypeOK
  <2>2. k \in Nat /\ m \in Nat /\ poll.started[r] \in Nat /\ poll.started[r] + k <= m
    BY <2>1, PlacesCount, OwedFinite DEF Charged
  <2>3. IsFiniteSet(T) /\ t \in Nat
    <3>1. NumRequests \in Nat /\ T \subseteq 1 .. NumRequests
      BY <2>1, SettingsAssumption DEF Requests
    <3> QED BY <3>1, CountIn
  <2>4. IsFiniteSet(T \cup {r}) /\ u \in Nat /\ u <= t + 1
    <3>1. /\ IsFiniteSet(T \cup {r})
          /\ Cardinality(T \cup {r}) =
                IF r \in T THEN Cardinality(T) ELSE Cardinality(T) + 1
      <4> HIDE DEF T
      <4> QED BY <2>3, FS_AddElement
    <3>2. u = t \/ u = t + 1
      <4> HIDE DEF T
      <4> QED BY <3>1
    <3> HIDE DEF T, t, u
    <3> QED BY <2>3, <3>1, <3>2 DEF u
  <2>5. m <= u
    <3>1. Owed(r, poll.handled) \in SUBSET (T \cup {r})
      BY DEF Owed, Charged, OnPr, Pr
    <3> QED BY <2>4, <3>1, FS_Subset
  <2> HIDE DEF k, m, t, u
  <2>6. poll.started[r] <= 1 + t
    BY <2>2, <2>3, <2>4, <2>5
  <2> QED BY <2>6 DEF t
<1> QED BY <1>1, TypedInit, TypedNext, ChargedInit, ChargedNext, PTL DEF Spec
=============================================================================
