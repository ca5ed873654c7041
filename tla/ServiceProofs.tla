--------------------------- MODULE ServiceProofs ---------------------------
(***************************************************************************)
(* That the settings of requests stay apart, and that a command starts     *)
(* with its own in the order of precedence, for every deployment, every    *)
(* number of requests and every order of their steps.                      *)
(*                                                                         *)
(* The store of a request only ever holds values from its own sources: the *)
(* defaults, the environment, the extra file, the settings file and the    *)
(* tickets of its pull request and its own options.  Each layer keeps that *)
(* (LayerKeeps, ApplyKeeps), so every server and the agent do.             *)
(***************************************************************************)
EXTENDS Service, TLAPS

\* Where the settings of request r may come from, and the stores made of them.
Sources(r) == {Default, Env, Extra, File(Pr(r)), Args(r), Tickets(Pr(r))}
OwnStore(r) == [Keys -> Sources(r)]

\* Those that no command has touched: the environment is still on top.
FreshStore(r) == {s \in OwnStore(r) : \A k \in conf.env \cap Keys : s[k] = Env}

\* An outcome of a server with a store of r: commands that run by themselves,
\* none, or one with a fresh store; an outcome of the agent.
Outcome(o, r) ==
    /\ DOMAIN o = {"s", "repo", "broken", "todo", "auto"}
    /\ o.s \in OwnStore(r)
    /\ \/ o.auto
       \/ o.todo = <<>>
       \/ (\E c : o.todo = <<c>>) /\ o.s \in FreshStore(r)
Result(o, r) ==
    /\ DOMAIN o = {"s", "repo", "broken", "started"}
    /\ o.s \in OwnStore(r)

\* The inductive invariant.  It speaks of all requests, also of those without
\* an event.
Apart ==
    /\ conf \in Deployments /\ DOMAIN settings = Stores
    /\ ~SharesSettings(conf.server) =>
          /\ settings[Global] = InitialSettings
          /\ \A r \in Requests : settings[r] \in OwnStore(r)

\* What the assumption on the deployments says of the one that runs.
LEMMA OfDeployment ==
    ASSUME conf \in Deployments
    PROVE  /\ conf \in Deployment /\ conf.server \in Servers
           /\ DOMAIN conf.events \subseteq Requests
           /\ \A r \in DOMAIN conf.events : conf.events[r] \in Event /\ Pr(r) \in PRs
<1>1. conf \in Deployment /\ DOMAIN conf.events \subseteq Requests
  BY SettingsAssumption
<1>2. conf.server \in Servers /\ conf.events \in Seq(Event)
  BY <1>1 DEF Deployment
<1>3. \A r \in DOMAIN conf.events : conf.events[r] \in Event
  BY <1>2
<1>4. \A r \in DOMAIN conf.events : Pr(r) \in PRs
  BY <1>3 DEF Event, Pr
<1> QED BY <1>1, <1>2, <1>3, <1>4

-----------------------------------------------------------------------------
\* The layers.

LEMMA LayerKeeps ==
    ASSUME NEW A, NEW s \in [Keys -> A], NEW keys, NEW v \in A
    PROVE  Layer(s, keys, v) \in [Keys -> A]
BY DEF Layer

LEMMA ReapplyKeeps ==
    ASSUME NEW A, NEW s \in [Keys -> A], Env \in A
    PROVE  ReapplyEnvOverrides(s) \in [Keys -> A]
BY LayerKeeps DEF ReapplyEnvOverrides

LEMMA ExtraKeeps ==
    ASSUME NEW A, NEW s \in [Keys -> A], NEW keys, Env \in A, Extra \in A
    PROVE  ApplySettingsFromFile(s, keys) \in [Keys -> A]
BY LayerKeeps, ReapplyKeeps DEF ApplySettingsFromFile

LEMMA FileKeeps ==
    ASSUME NEW A, NEW s \in [Keys -> A], NEW p, NEW f, Env \in A, File(p) \in A
    PROVE  MergeRepoFile(s, p, f) \in [Keys -> A]
BY LayerKeeps, ReapplyKeeps DEF MergeRepoFile

\* apply_repo_settings adds nothing but the extra file, the environment and the
\* settings file of the repository it is called for.
LEMMA ApplyKeeps ==
    ASSUME NEW A, NEW s \in [Keys -> A], NEW p, NEW state,
           Env \in A, Extra \in A, File(p) \in A,
           NEW a \in ApplyRepoSettings(p, s, state)
    PROVE  a.s \in [Keys -> A]
<1>1. \A k : ApplySettingsFromFile(s, k) \in [Keys -> A]
  BY ExtraKeeps
<1>2. \A x \in [Keys -> A] : \A f : MergeRepoFile(x, p, f) \in [Keys -> A]
  BY FileKeeps
<1> QED BY <1>1, <1>2 DEF ApplyRepoSettings

\* The same for request r and its pull request.
LEMMA ApplyOwn ==
    ASSUME NEW r, NEW p, p = Pr(r), NEW s \in OwnStore(r), NEW state,
           NEW a \in ApplyRepoSettings(p, s, state)
    PROVE  a.s \in OwnStore(r)
<1>1. Env \in Sources(r) /\ Extra \in Sources(r) /\ File(p) \in Sources(r)
  BY DEF Sources
<1> QED BY <1>1, ApplyKeeps DEF OwnStore

\* Whatever apply_repo_settings puts on, it puts the environment back.
LEMMA ApplyFresh ==
    ASSUME NEW r, NEW p, p = Pr(r), NEW s \in FreshStore(r), NEW state,
           NEW a \in ApplyRepoSettings(p, s, state)
    PROVE  a.s \in FreshStore(r)
<1>1. s \in OwnStore(r) /\ s \in [Keys -> Sources(r)]
  BY DEF FreshStore, OwnStore
<1>2. a.s \in OwnStore(r)
  BY <1>1, ApplyOwn
<1>3. \A x, f : (\A k \in conf.env : k \in Keys => x[k] = Env)
                => \A k \in conf.env : k \in Keys => MergeRepoFile(x, p, f)[k] = Env
  BY DEF MergeRepoFile, ReapplyEnvOverrides, Layer
<1>4. \A keys : \A k \in conf.env :
         k \in Keys => ApplySettingsFromFile(s, keys)[k] = Env
  BY DEF ApplySettingsFromFile, ReapplyEnvOverrides, Layer, FreshStore
<1> QED BY <1>2, <1>3, <1>4 DEF ApplyRepoSettings, FreshStore

LEMMA ArgsOwn ==
    ASSUME NEW r, NEW s \in OwnStore(r), NEW c
    PROVE  UpdateSettingsFromArgs(s, c, r) \in OwnStore(r)
<1>1. Args(r) \in Sources(r)
  BY DEF Sources
<1> QED BY <1>1, LayerKeeps DEF OwnStore, UpdateSettingsFromArgs

-----------------------------------------------------------------------------
\* What servers make of a store.

LEMMA RefuseOwn ==
    ASSUME NEW r, NEW a, a.s \in FreshStore(r)
    PROVE  Outcome(Refuse(a), r)
BY DEF Refuse, Outcome, FreshStore

LEMMA CommentOwn ==
    ASSUME NEW r, NEW a, NEW c, a.s \in FreshStore(r)
    PROVE  Outcome(CommentCommand(a, c), r)
BY DEF Refuse, CommentCommand, Outcome, FreshStore

LEMMA AutoOwn ==
    ASSUME NEW r, NEW a, NEW commands, a.s \in FreshStore(r)
    PROVE  Outcome(AutoCommands(a, commands, r), r)
<1>1. Args(r) \in Sources(r)
  BY DEF Sources
<1>2. Layer(a.s, {"is_auto"}, Args(r)) \in OwnStore(r)
  BY <1>1, LayerKeeps DEF OwnStore, FreshStore
<1> QED BY <1>2 DEF AutoCommands, Outcome

LEMMA UnreadOwn ==
    ASSUME NEW r, NEW s \in FreshStore(r)
    PROVE  Unread(s).s \in FreshStore(r)
BY DEF Unread

LEMMA BrokenOwn ==
    ASSUME NEW r, NEW S, NEW a, \A o \in S : Outcome(o, r), NEW o \in Broken(S, a)
    PROVE  Outcome(o, r)
BY DEF Broken, Outcome

LEMMA BrokenResult ==
    ASSUME NEW r, NEW S, NEW a, \A o \in S : Result(o, r), NEW o \in Broken(S, a)
    PROVE  Result(o, r)
BY DEF Broken, Result

\* The GitHub app.
LEMMA AutoCommandsGithub ==
    ASSUME NEW r, NEW e, e.pr = Pr(r), NEW s \in FreshStore(r), NEW state, NEW kind,
           NEW o \in PerformAutoCommandsGithub(e, s, state, kind, r)
    PROVE  Outcome(o, r)
BY ApplyFresh, RefuseOwn, AutoOwn
   DEF PerformAutoCommandsGithub

LEMMA NewPrOpened ==
    ASSUME NEW r, NEW e, e.pr = Pr(r), NEW s \in FreshStore(r),
           NEW o \in HandleNewPrOpened(e, s, r)
    PROVE  Outcome(o, r)
<1>1. CASE o \in {Refuse(Unread(s))}
  BY <1>1, RefuseOwn, UnreadOwn
<1>2. ASSUME NEW a \in ApplyRepoSettings(e.pr, s, "unread"),
             \/ o \in {Refuse(a)}
             \/ o \in Broken(PerformAutoCommandsGithub(e, a.s, a.state, "pr", r), a)
      PROVE  Outcome(o, r)
  <2>1. a.s \in FreshStore(r)
    BY ApplyFresh
  <2>2. \A x \in PerformAutoCommandsGithub(e, a.s, a.state, "pr", r) : Outcome(x, r)
    BY <2>1, AutoCommandsGithub
  <2> QED BY <1>2, <2>1, <2>2, RefuseOwn, BrokenOwn
<1> QED BY <1>1, <1>2 DEF HandleNewPrOpened

LEMMA PushTriggered ==
    ASSUME NEW r, NEW e, e.pr = Pr(r), NEW s \in FreshStore(r),
           NEW o \in HandlePushTrigger(e, s, r)
    PROVE  Outcome(o, r)
BY ApplyFresh, RefuseOwn, UnreadOwn, BrokenOwn, AutoCommandsGithub
   DEF HandlePushTrigger

LEMMA CommentsOnPr ==
    ASSUME NEW r, NEW e, e.pr = Pr(r), NEW s \in FreshStore(r),
           NEW o \in HandleCommentsOnPr(e, s)
    PROVE  Outcome(o, r)
BY RefuseOwn, CommentOwn, UnreadOwn
   DEF HandleCommentsOnPr

LEMMA Github ==
    ASSUME NEW r, NEW e, e.pr = Pr(r), NEW s \in FreshStore(r),
           NEW o \in GithubHandleRequest(e, s, r)
    PROVE  Outcome(o, r)
BY RefuseOwn, UnreadOwn, NewPrOpened, PushTriggered, CommentsOnPr
   DEF GithubHandleRequest

\* The other webhooks.
LEMMA CommandsGitlab ==
    ASSUME NEW r, NEW e, e.pr = Pr(r), NEW s \in FreshStore(r), NEW state, NEW kind,
           NEW o \in PerformCommandsGitlab(e, s, state, kind, r)
    PROVE  Outcome(o, r)
BY ApplyFresh, RefuseOwn, AutoOwn
   DEF PerformCommandsGitlab

LEMMA Gitlab ==
    ASSUME NEW r, NEW e, e.pr = Pr(r), NEW s \in FreshStore(r),
           NEW o \in GitlabWebhook(e, s, r)
    PROVE  Outcome(o, r)
BY ApplyFresh, RefuseOwn, CommentOwn, UnreadOwn, BrokenOwn, CommandsGitlab
   DEF GitlabWebhook

LEMMA CommandsBitbucket ==
    ASSUME NEW r, NEW e, e.pr = Pr(r), NEW s \in FreshStore(r), NEW kind,
           NEW o \in PerformCommandsBitbucket(e, s, kind, r)
    PROVE  Outcome(o, r)
BY ApplyFresh, RefuseOwn, AutoOwn
   DEF PerformCommandsBitbucket

LEMMA Bitbucket ==
    ASSUME NEW r, NEW e, e.pr = Pr(r), NEW s \in FreshStore(r),
           NEW o \in BitbucketWebhook(e, s, r)
    PROVE  Outcome(o, r)
BY RefuseOwn, CommentOwn, UnreadOwn, CommandsBitbucket
   DEF BitbucketWebhook

LEMMA CommandsGitea ==
    ASSUME NEW r, NEW e, e.pr = Pr(r), NEW s \in FreshStore(r), NEW kind,
           NEW o \in PerformCommandsGitea(e, s, kind, r)
    PROVE  Outcome(o, r)
BY ApplyFresh, RefuseOwn, AutoOwn
   DEF PerformCommandsGitea

LEMMA Gitea ==
    ASSUME NEW r, NEW e, e.pr = Pr(r), NEW s \in FreshStore(r),
           NEW o \in GiteaHandleRequest(e, s, r)
    PROVE  Outcome(o, r)
BY RefuseOwn, CommentOwn, UnreadOwn, CommandsGitea
   DEF GiteaHandleRequest, HandlePrEvent, HandleCommentEvent

LEMMA Gerrit ==
    ASSUME NEW r, NEW e, e.pr = Pr(r), NEW s \in FreshStore(r),
           NEW o \in HandleGerritRequest(e, s)
    PROVE  Outcome(o, r)
<1>1. \A c : Outcome(CommentCommand(Unread(s), c), r)
  BY CommentOwn, UnreadOwn
<1>2. Outcome(Refuse(Unread(s)), r)
  BY RefuseOwn, UnreadOwn
<1> QED BY <1>1, <1>2, Zenon DEF HandleGerritRequest

\* The others.
LEMMA Action ==
    ASSUME NEW r, NEW e, e.pr = Pr(r), NEW s \in FreshStore(r),
           NEW o \in RunAction(e, s, r)
    PROVE  Outcome(o, r)
<1> DEFINE first == IF e.kind = "comment" THEN {Unread(s)}
                    ELSE ApplyRepoSettings(e.pr, s, "unread")
<1>1. \A a \in first : a.s \in FreshStore(r)
  BY ApplyFresh, UnreadOwn
<1>2. PICK a \in first : \/ o = CommentCommand(a, HandleLineComments(e))
                        \/ o = Refuse(a)
                        \/ o = AutoCommands(a, conf.prCommands, r)
  BY Zenon DEF RunAction
<1> QED BY <1>1, <1>2, RefuseOwn, CommentOwn, AutoOwn

LEMMA Polled ==
    ASSUME NEW r, NEW e, e.pr = Pr(r), NEW s \in FreshStore(r),
           NEW o \in ProcessCommentSync(e, s)
    PROVE  Outcome(o, r)
BY RefuseOwn, CommentOwn, UnreadOwn
   DEF ProcessCommentSync

LEMMA CommandLine ==
    ASSUME NEW r, NEW e, e.pr = Pr(r), NEW s \in FreshStore(r),
           NEW o \in CliRun(e, s)
    PROVE  Outcome(o, r)
BY CommentOwn, UnreadOwn
   DEF CliRun

LEMMA Mosaico ==
    ASSUME NEW r, NEW e, e.pr = Pr(r), NEW s \in FreshStore(r),
           NEW o \in RouteAndRun(e, s)
    PROVE  Outcome(o, r)
BY RefuseOwn, CommentOwn, UnreadOwn
   DEF RouteAndRun

\* The settings of the process are a store of every request.
LEMMA InitialOwn ==
    ASSUME NEW r
    PROVE  InitialSettings \in OwnStore(r)
<1>1. Env \in Sources(r) /\ Default \in Sources(r)
  BY DEF Sources
<1>2. [k \in Keys |-> Default] \in [Keys -> Sources(r)]
  BY <1>1
<1> QED BY <1>1, <1>2, LayerKeeps DEF OwnStore, InitialSettings

LEMMA InitialFresh ==
    ASSUME NEW r
    PROVE  InitialSettings \in FreshStore(r)
BY InitialOwn DEF FreshStore, InitialSettings, Layer

\* Whatever server runs, it makes a store of r of a store of r.
LEMMA HandledOwn ==
    ASSUME NEW r, conf.server \in Servers, ~SharesSettings(conf.server),
           settings[Global] \in FreshStore(r), NEW o \in Handled(r)
    PROVE  Outcome(o, r)
<1>1. conf.events[r].pr = Pr(r)
  BY DEF Pr
<1>2. conf.server \in {"github", "gitlab", "bitbucket", "gitea", "gerrit", "polling",
                       "action", "cli", "mosaico"}
  BY DEF Servers, Webhooks, SharesSettings
<1>3. CASE conf.server = "github"
  BY <1>1, <1>3, Github DEF Handled
<1>4. CASE conf.server = "gitlab"
  BY <1>1, <1>4, Gitlab DEF Handled
<1>5. CASE conf.server = "bitbucket"
  BY <1>1, <1>5, Bitbucket DEF Handled
<1>6. CASE conf.server = "gitea"
  BY <1>1, <1>6, Gitea DEF Handled
<1>7. CASE conf.server = "gerrit"
  BY <1>1, <1>7, Gerrit DEF Handled
<1>8. CASE conf.server = "polling"
  BY <1>1, <1>8, Polled DEF Handled
<1>9. CASE conf.server = "action"
  BY <1>1, <1>9, Action DEF Handled
<1>10. CASE conf.server = "cli"
  BY <1>1, <1>10, CommandLine DEF Handled
<1>11. CASE conf.server = "mosaico"
  BY <1>1, <1>11, Mosaico DEF Handled
<1> QED BY <1>2, <1>3, <1>4, <1>5, <1>6, <1>7, <1>8, <1>9, <1>10, <1>11

-----------------------------------------------------------------------------
\* What the agent makes of a store.

LEMMA AgentOwn ==
    ASSUME NEW r, NEW p, p = Pr(r), NEW c, NEW s \in OwnStore(r), NEW state,
           NEW o \in AgentHandleRequest(p, c, s, state, r)
    PROVE  Result(o, r)
<1>1. PICK a \in ApplyRepoSettings(p, s, state), ok \in BOOLEAN :
         \/ o = Started(a, a.s, FALSE)
         \/ o = Started(a, UpdateSettingsFromArgs(a.s, c, r), ok)
  BY DEF AgentHandleRequest
<1>2. a.s \in OwnStore(r)
  BY ApplyOwn
<1>3. UpdateSettingsFromArgs(a.s, c, r) \in OwnStore(r)
  BY <1>2, ArgsOwn
<1> QED BY <1>1, <1>2, <1>3 DEF Started, Result

LEMMA AskOwn ==
    ASSUME NEW r, NEW c, NEW s \in OwnStore(r), NEW o \in RunAsk(r, c, s)
    PROVE  Result(o, r)
BY ArgsOwn DEF RunAsk, Result

\* The servers that copy the settings run a command in one of four ways.
LEMMA RunOwn ==
    ASSUME NEW r, NEW c, ~SharesSettings(conf.server),
           settings[Store(r)] \in OwnStore(r), NEW o \in Run(r, c)
    PROVE  Result(o, r)
<1>1. conf.events[r].pr = Pr(r)
  BY DEF Pr
<1>2. CASE conf.server = "mosaico"
  BY <1>1, <1>2, AgentOwn, AskOwn DEF Run, MosaicoRun, RunGarda
<1>3. CASE conf.server = "action" /\ req[r].auto
  BY <1>3 DEF Run, Result
<1>4. CASE conf.server # "mosaico" /\ ~(conf.server = "action" /\ req[r].auto)
  <2>1. UpdateSettingsFromArgs(settings[Store(r)], c, r) \in OwnStore(r)
    BY ArgsOwn
  <2>2. CASE req[r].auto
    <3>1. o \in AgentHandleRequest(Pr(r), Bare(c),
                    UpdateSettingsFromArgs(settings[Store(r)], c, r), req[r].repo, r)
      BY <1>1, <1>4, <2>2 DEF Run, SharesSettings
    <3> QED BY <2>1, <3>1, AgentOwn
  <2>3. CASE ~req[r].auto
    <3>1. o \in AgentHandleRequest(Pr(r), c, settings[Store(r)], req[r].repo, r)
      BY <1>1, <1>4, <2>3 DEF Run, SharesSettings
    <3> QED BY <3>1, AgentOwn
  <2> QED BY <2>2, <2>3
<1> QED BY <1>2, <1>3, <1>4

LEMMA TicketsOwn ==
    ASSUME NEW r, NEW s \in OwnStore(r), NEW t \in CachedTickets(s, Pr(r))
    PROVE  t \in OwnStore(r)
<1>1. Tickets(Pr(r)) \in Sources(r)
  BY DEF Sources
<1> QED BY <1>1, LayerKeeps DEF CachedTickets, OwnStore

-----------------------------------------------------------------------------
\* The invariant is kept by a step that leaves the settings, or gives the store
\* of one request a value of its own.

LEMMA StoreStep ==
    ASSUME Apart, conf' = conf, NEW r \in Requests, NEW s,
           ~SharesSettings(conf.server) => s \in OwnStore(r),
           settings' = [settings EXCEPT ![Store(r)] = s]
    PROVE  Apart'
<1>1. DOMAIN settings' = Stores
  BY DEF Apart
<1>2. ASSUME ~SharesSettings(conf.server)
      PROVE  /\ settings'[Global] = InitialSettings
             /\ \A q \in Requests : settings'[q] \in OwnStore(q)
  <2>1. Store(r) = r /\ r # Global /\ r \in Stores /\ Global \in Stores
    BY <1>2, SettingsAssumption DEF Store, Global, Requests, Stores
  <2>2. settings'[Global] = settings[Global] /\ settings'[r] = s
    BY <2>1 DEF Apart
  <2>3. \A q \in Requests : q # r => settings'[q] = settings[q]
    BY <2>1 DEF Apart, Stores
  <2> QED BY <1>2, <2>2, <2>3 DEF Apart
<1>3. InitialSettings' = InitialSettings
  BY DEF InitialSettings, Layer, Default, Env, Keys, FileKeys
<1>4. \A q : OwnStore(q)' = OwnStore(q)
  BY DEF OwnStore, Sources, Pr, Default, Env, Extra, File, Args, Tickets, Keys, FileKeys
<1> QED BY <1>1, <1>2, <1>3, <1>4 DEF Apart, Stores, Requests, Global

LEMMA StutterStep ==
    ASSUME Apart, conf' = conf, settings' = settings
    PROVE  Apart'
<1>1. InitialSettings' = InitialSettings
  BY DEF InitialSettings, Layer, Default, Env, Keys, FileKeys
<1>2. \A q : OwnStore(q)' = OwnStore(q)
  BY DEF OwnStore, Sources, Pr, Default, Env, Extra, File, Args, Tickets, Keys, FileKeys
<1> QED BY <1>1, <1>2 DEF Apart, Stores, Requests, Global

-----------------------------------------------------------------------------
\* The steps of a request.

LEMMA OwnOfApart ==
    ASSUME Apart, ~SharesSettings(conf.server), NEW r \in Requests
    PROVE  /\ settings[Store(r)] \in OwnStore(r)
           /\ settings[Global] \in FreshStore(r)
BY InitialFresh DEF Apart, Store

LEMMA ReceiveStep ==
    ASSUME Apart, NEW r \in Requests, Receive(r)
    PROVE  Apart'
<1>1. PICK o \in Handled(r) : settings' = [settings EXCEPT ![Store(r)] = o.s]
  BY DEF Receive
<1>2. ASSUME ~SharesSettings(conf.server)
      PROVE  o.s \in OwnStore(r)
  <2>1. conf.server \in Servers
    BY OfDeployment DEF Apart
  <2>2. Outcome(o, r)
    BY <1>2, <2>1, OwnOfApart, HandledOwn
  <2> QED BY <2>2 DEF Outcome
<1>3. conf' = conf
  BY DEF Receive
<1> QED BY <1>1, <1>2, <1>3, StoreStep

LEMMA NextCommandStep ==
    ASSUME Apart, NEW r \in Requests, NextCommand(r)
    PROVE  Apart'
<1>1. PICK c : \E o \in Run(r, c) : settings' = [settings EXCEPT ![Store(r)] = o.s]
  BY DEF NextCommand
<1> PICK o \in Run(r, c) : settings' = [settings EXCEPT ![Store(r)] = o.s]
  BY <1>1
<1>2. ASSUME ~SharesSettings(conf.server)
      PROVE  o.s \in OwnStore(r)
  <2>1. Result(o, r)
    BY <1>2, OwnOfApart, RunOwn
  <2> QED BY <2>1 DEF Result
<1>3. conf' = conf
  BY DEF NextCommand
<1> QED BY <1>2, <1>3, StoreStep

LEMMA TicketsStep ==
    ASSUME Apart, NEW r \in Requests, ExtractTickets(r), conf' = conf
    PROVE  Apart'
<1>1. PICK s \in CachedTickets(settings[Store(r)], Pr(r)) :
         settings' = [settings EXCEPT ![Store(r)] = s]
  BY DEF ExtractTickets
<1>2. ~SharesSettings(conf.server) => s \in OwnStore(r)
  BY OwnOfApart, TicketsOwn
<1> QED BY <1>1, <1>2, StoreStep

\* A tool writes the settings only where it looks for tickets.
LEMMA ToolStep ==
    ASSUME Apart, NEW r \in Requests, RunTool(r) \/ PublishTool(r)
    PROVE  Apart'
<1>1. CASE ReviewRun(r)
  BY <1>1, TicketsStep, StutterStep DEF ReviewRun, End, Ask
<1>2. CASE DescribeRun(r)
  BY <1>2, TicketsStep DEF DescribeRun, Ask
<1>3. CASE ~ReviewRun(r) /\ ~DescribeRun(r)
  <2>1. conf' = conf /\ settings' = settings
    BY <1>3 DEF RunTool, AskRun, AskLineRun, AddDocsRun, GenerateLabelsRun,
          UpdateChangelogRun, HelpDocsRun, HelpRun, ConfigRun, PublishTool,
          ReviewPublish, DescribePublish, AskPublish, AskLinePublish,
          AddDocsPublish, GenerateLabelsPublish, UpdateChangelogPublish,
          HelpDocsPublish, HelpPublish, End, Ask, Fail, EndCleared
  <2> QED BY <2>1, StutterStep
<1> QED BY <1>1, <1>2, <1>3

-----------------------------------------------------------------------------
\* The theorem.

LEMMA ApartInit == Init => Apart
<1> SUFFICES ASSUME Init PROVE Apart
  OBVIOUS
<1>1. conf \in Deployments
  BY DEF Init, InitSettings
<1>2. settings = [x \in Stores |-> InitialSettings]
  BY DEF Init, InitSettings
<1>3. Global \in Stores /\ Requests \subseteq Stores
  BY DEF Stores
<1> QED BY <1>1, <1>2, <1>3, InitialOwn DEF Apart

LEMMA ApartNext == Apart /\ [Next]_vars => Apart'
<1> SUFFICES ASSUME Apart, [Next]_vars PROVE Apart'
  OBVIOUS
<1>1. CASE UNCHANGED vars
  BY <1>1, StutterStep DEF vars
<1>2. ASSUME NEW r \in Requests, Arrive(r)
      PROVE  Apart'
  BY <1>2, ReceiveStep DEF Arrive
<1>3. ASSUME NEW r \in Requests, Work(r)
      PROVE  Apart'
  BY <1>3, NextCommandStep, ToolStep DEF Work
<1>4. CASE conf' = conf /\ settings' = settings
  BY <1>4, StutterStep
<1> QED BY <1>1, <1>2, <1>3, <1>4 DEF Next

\* Where the settings are copied, the settings of a request come from its own
\* sources, whatever the other requests do, and those of the process never
\* change (get_settings, apply_repo_settings and all servers that call them).
THEOREM Isolation == Spec => []SettingsIsolated
<1>1. Apart => SettingsIsolated
  <2> SUFFICES ASSUME Apart, ~SharesSettings(conf.server), NEW r \in DOMAIN conf.events
               PROVE  \A k \in Keys : settings[r][k] \in Sources(r)
    BY DEF Apart, SettingsIsolated, Sources
  <2>1. r \in Requests
    BY OfDeployment DEF Apart
  <2> QED BY <2>1 DEF Apart, OwnStore
<1> QED BY <1>1, ApartInit, ApartNext, PTL DEF Spec

-----------------------------------------------------------------------------
(***************************************************************************)
(* That a command starts with its settings in the order of precedence.     *)
(* The agent merges the file, puts the environment back and then sets the  *)
(* options (AgentLayers), but it does the first two only where there is a  *)
(* file.  Without one, the environment is still on top because a comment   *)
(* starts one command, and nobody else writes the store meanwhile: that is *)
(* the inductive invariant, Once.                                          *)
(***************************************************************************)

Fields == DOMAIN NewRequest

\* What a request q, with its settings s, may look like: a comment starts one
\* command, which finds the store fresh; without a context no file is
\* remembered.
Single(q, r, s) ==
    /\ DOMAIN q = Fields
    /\ conf.server = "action" => q.repo # "ok"
    /\ conf.server = "mosaico" => ~q.auto
    /\ ~SharesSettings(conf.server) /\ ~q.auto =>
          /\ q.pc = "commands" => (\E c : q.todo = <<c>>) /\ s \in FreshStore(r)
          /\ q.pc \in {"made", "asked"} => q.todo = <<>>

Once ==
    /\ DOMAIN req = Requests
    /\ \A r \in Requests : Single(req[r], r, settings[r])

-----------------------------------------------------------------------------
\* A step of request r leaves the others alone.


LEMMA OnceStep ==
    ASSUME Once, DOMAIN settings = Stores, conf' = conf, NEW r \in Requests,
           NEW x, req' = [req EXCEPT ![r] = x],
           \/ settings' = settings
           \/ \E s : settings' = [settings EXCEPT ![Store(r)] = s],
           Single(x, r, settings'[r])
    PROVE  Once'
<1>1. DOMAIN req' = Requests /\ req'[r] = x
  BY DEF Once
<1>2. ASSUME NEW q, NEW y, NEW s, Single(y, q, s)
      PROVE  /\ DOMAIN y = Fields
             /\ conf'.server = "action" => y.repo # "ok"
             /\ conf'.server = "mosaico" => ~y.auto
             /\ ~SharesSettings(conf'.server) /\ ~y.auto =>
                   /\ y.pc = "commands" =>
                         /\ \E c : y.todo = <<c>>
                         /\ s \in FreshStore(q)'
                   /\ y.pc \in {"made", "asked"} => y.todo = <<>>
  <2>1. FreshStore(q)' = FreshStore(q)
    BY DEF FreshStore, OwnStore, Sources, Pr, Default, Env, Extra, File, Args,
           Tickets, Keys, FileKeys
  <2> QED BY <1>2, <2>1 DEF Single
<1>3. ASSUME NEW q \in Requests, q # r
      PROVE  /\ req'[q] = req[q]
             /\ ~SharesSettings(conf.server) => settings'[q] = settings[q]
  BY <1>3 DEF Once, Store, Stores, SharesSettings
<1>4. ASSUME NEW q \in Requests
      PROVE  Single(req[q], q, settings[q])'
  <2>1. Single(req'[q], q, settings'[q])
    <3>1. CASE q = r
      BY <3>1, <1>1
    <3>2. CASE q # r
      <4>1. Single(req[q], q, settings[q])
        BY DEF Once
      <4> QED BY <3>2, <4>1, <1>3 DEF Single
    <3> QED BY <3>1, <3>2
  <2>2. Fields' = Fields
    BY DEF Fields, NewRequest, NoCommand
  <2> QED BY <2>1, <2>2, <1>2 DEF Single, SharesSettings
<1> QED BY <1>1, <1>4 DEF Once, Requests

\* A step that leaves requests and settings alone.
LEMMA OnceStutter ==
    ASSUME Once, conf' = conf, req' = req, settings' = settings
    PROVE  Once'
<1>1. \A q : FreshStore(q)' = FreshStore(q)
  BY DEF FreshStore, OwnStore, Sources, Pr, Default, Env, Extra, File, Args,
         Tickets, Keys, FileKeys
<1> QED BY <1>1 DEF Once, Single, Fields, NewRequest, NoCommand, Requests, SharesSettings

-----------------------------------------------------------------------------
\* The tools.

\* How a tool may leave request q: it waits for a model, or the command is over.
Moved(q, x) ==
    /\ DOMAIN x = DOMAIN q
    /\ x.todo = q.todo /\ x.auto = q.auto /\ x.repo = q.repo
    /\ x.pc = "asked" \/ x.pc = IF q.todo = <<>> THEN "done" ELSE "commands"

MovedBy(r) == \E x : req' = [req EXCEPT ![r] = x] /\ Moved(req[r], x)

LEMMA FinishedMoves ==
    ASSUME NEW q, NEW how, DOMAIN q = Fields
    PROVE  Moved(q, Finished(q, how))
BY DEF Finished, Moved, Fields, NewRequest

LEMMA EndMoves ==
    ASSUME NEW r \in Requests, Once, NEW h, NEW how, End(r, h, how)
    PROVE  MovedBy(r) /\ conf' = conf /\ settings' = settings
<1>1. DOMAIN req[r] = Fields /\ r \in DOMAIN req
  BY DEF Once, Single
<1>2. req' = [req EXCEPT ![r] = Finished(req[r], how)]
  BY DEF End
<1> QED BY <1>1, <1>2, FinishedMoves DEF End, MovedBy

LEMMA AskMoves ==
    ASSUME NEW r \in Requests, Once, NEW h, Ask(r, h)
    PROVE  MovedBy(r) /\ conf' = conf
<1>1. DOMAIN req[r] = Fields /\ r \in DOMAIN req
  BY DEF Once, Single
<1>2. PICK f : req' = [req EXCEPT ![r] = [req[r] EXCEPT !.pc = "asked", !.list = f.list,
                                              !.diff = f.diff, !.cmd.sees = f.sees]]
  BY DEF Ask
<1> DEFINE x == [req[r] EXCEPT !.pc = "asked", !.list = f.list,
                               !.diff = f.diff, !.cmd.sees = f.sees]
<1>3. /\ DOMAIN x = Fields /\ x.pc = "asked" /\ x.todo = req[r].todo
      /\ x.auto = req[r].auto /\ x.repo = req[r].repo
  BY <1>1 DEF Fields, NewRequest
<1>4. Moved(req[r], x)
  BY <1>1, <1>3 DEF Moved
<1> QED BY <1>2, <1>4 DEF Ask, MovedBy

\* A question about the documents or the tools is asked without a diff.
LEMMA AskedMoves ==
    ASSUME NEW r \in Requests, Once, req' = [req EXCEPT ![r].pc = "asked"]
    PROVE  MovedBy(r)
<1>1. DOMAIN req[r] = Fields /\ r \in DOMAIN req
  BY DEF Once, Single
<1>2. req' = [req EXCEPT ![r] = [req[r] EXCEPT !.pc = "asked"]]
  OBVIOUS
<1> QED BY <1>1, <1>2 DEF MovedBy, Moved, Fields, NewRequest

LEMMA ToolMoves ==
    ASSUME NEW r \in Requests, Once, RunTool(r) \/ PublishTool(r)
    PROVE  /\ req[r].pc \in {"made", "asked"}
           /\ MovedBy(r) /\ conf' = conf
           /\ \/ settings' = settings
              \/ \E s : settings' = [settings EXCEPT ![Store(r)] = s]
<1>1. CASE ReviewRun(r)
  <2>1. CASE \E how : End(r, HostOf(r), how)
    BY <1>1, <2>1, EndMoves DEF ReviewRun, At
  <2>2. CASE ~ \E how : End(r, HostOf(r), how)
    <3>1. \E s : settings' = [settings EXCEPT ![Store(r)] = s]
      BY <1>1, <2>2 DEF ReviewRun, ExtractTickets
    <3>2. MovedBy(r) /\ conf' = conf
      <4>1. DOMAIN req[r] = Fields
        BY DEF Once, Single
      <4> QED BY <1>1, <2>2, <4>1, AskMoves, FinishedMoves DEF ReviewRun, MovedBy
    <3> QED BY <1>1, <3>1, <3>2 DEF ReviewRun, At
  <2> QED BY <2>1, <2>2
<1>2. CASE DescribeRun(r)
  <2>1. \E s : settings' = [settings EXCEPT ![Store(r)] = s]
    BY <1>2 DEF DescribeRun, ExtractTickets
  <2>2. MovedBy(r) /\ conf' = conf
    <3>1. DOMAIN req[r] = Fields
      BY DEF Once, Single
    <3> QED BY <1>2, <3>1, AskMoves, FinishedMoves DEF DescribeRun, MovedBy
  <2> QED BY <1>2, <2>1, <2>2 DEF DescribeRun, At
<1>3. CASE AskRun(r) \/ AskLineRun(r) \/ AddDocsRun(r) \/ GenerateLabelsRun(r)
  BY <1>3, AskMoves, EndMoves
     DEF AskRun, AskLineRun, AddDocsRun, GenerateLabelsRun, At
<1>4. CASE UpdateChangelogRun(r)
  BY <1>4, AskMoves, EndMoves DEF UpdateChangelogRun, At
<1>5. CASE HelpDocsRun(r) \/ HelpRun(r) \/ ConfigRun(r)
  BY <1>5, AskedMoves, EndMoves DEF HelpDocsRun, HelpRun, ConfigRun, At
<1>6. CASE ReviewPublish(r)
  BY <1>6, EndMoves DEF ReviewPublish, Fail, EndCleared, At
<1>7. CASE DescribePublish(r)
  BY <1>7, EndMoves DEF DescribePublish, Fail, EndCleared, At
<1>8. CASE AskPublish(r) \/ AskLinePublish(r) \/ AddDocsPublish(r)
  BY <1>8, EndMoves
     DEF AskPublish, AskLinePublish, AddDocsPublish, Fail, EndCleared, At
<1>9. CASE GenerateLabelsPublish(r)
  BY <1>9, EndMoves DEF GenerateLabelsPublish, Fail, EndCleared, At
<1>10. CASE UpdateChangelogPublish(r)
  BY <1>10, EndMoves DEF UpdateChangelogPublish, Fail, At
<1>11. CASE HelpDocsPublish(r) \/ HelpPublish(r)
  BY <1>11, EndMoves DEF HelpDocsPublish, HelpPublish, At
<1> QED BY <1>1, <1>2, <1>3, <1>4, <1>5, <1>6, <1>7, <1>8, <1>9, <1>10, <1>11
       DEF RunTool, PublishTool

LEMMA OnceTool ==
    ASSUME Once, DOMAIN settings = Stores, NEW r \in Requests, RunTool(r) \/ PublishTool(r)
    PROVE  Once'
<1>1. PICK x : req' = [req EXCEPT ![r] = x] /\ Moved(req[r], x)
  BY ToolMoves DEF MovedBy
<1>2. Single(req[r], r, settings[r]) /\ req[r].pc \in {"made", "asked"}
  BY ToolMoves DEF Once
<1>3. Single(x, r, settings'[r])
  BY <1>1, <1>2 DEF Single, Moved
<1> QED BY <1>1, <1>3, ToolMoves, OnceStep

-----------------------------------------------------------------------------
\* What the action and mosaico do differently.

\* Without a context, no file is remembered.
LEMMA NoContext ==
    ASSUME conf.server = "action", NEW p, NEW s, NEW state, state # "ok",
           NEW a \in ApplyRepoSettings(p, s, state)
    PROVE  a.state # "ok"
BY DEF ApplyRepoSettings, HasContext, Webhooks

LEMMA ActionReads ==
    ASSUME conf.server = "action", NEW r, NEW o \in Handled(r)
    PROVE  o.repo # "ok"
<1> DEFINE e == conf.events[r]
           s == settings[Global]
           first == IF e.kind = "comment" THEN {Unread(s)}
                    ELSE ApplyRepoSettings(e.pr, s, "unread")
<1>1. \A a \in first : a.state # "ok"
  BY NoContext DEF Unread
<1>2. o \in RunAction(e, s, r)
  BY DEF Handled
<1>3. PICK a \in first : \/ o = CommentCommand(a, HandleLineComments(e))
                        \/ o = Refuse(a)
                        \/ o = AutoCommands(a, conf.prCommands, r)
  BY <1>2, Zenon DEF RunAction
<1> QED BY <1>1, <1>3 DEF CommentCommand, Refuse, AutoCommands

LEMMA MosaicoAsked ==
    ASSUME conf.server = "mosaico", NEW r, NEW o \in Handled(r)
    PROVE  ~o.auto
BY DEF Handled, RouteAndRun, CommentCommand, Refuse

LEMMA OnceReceive ==
    ASSUME Apart, Once, NEW r \in Requests, Receive(r)
    PROVE  Once'
<1> PICK o \in Handled(r) :
       /\ settings' = [settings EXCEPT ![Store(r)] = o.s]
       /\ req' = [req EXCEPT ![r] =
             [req[r] EXCEPT !.pc = IF o.todo = <<>> THEN "done" ELSE "commands",
                            !.todo = o.todo, !.auto = o.auto, !.repo = o.repo]]
  BY DEF Receive
<1> DEFINE x == [req[r] EXCEPT !.pc = IF o.todo = <<>> THEN "done" ELSE "commands",
                               !.todo = o.todo, !.auto = o.auto, !.repo = o.repo]
<1>1. DOMAIN req[r] = Fields
  BY DEF Once, Single
<1>2. /\ DOMAIN x = Fields /\ x.auto = o.auto /\ x.repo = o.repo /\ x.todo = o.todo
      /\ x.pc = IF o.todo = <<>> THEN "done" ELSE "commands"
  BY <1>1 DEF Fields, NewRequest
<1>3. ASSUME ~SharesSettings(conf.server), ~o.auto, o.todo # <<>>
      PROVE  (\E c : o.todo = <<c>>) /\ settings'[r] \in FreshStore(r)
  <2>1. conf.server \in Servers
    BY OfDeployment DEF Apart
  <2>2. Outcome(o, r)
    BY <1>3, <2>1, OwnOfApart, HandledOwn
  <2>3. settings'[r] = o.s
    BY <1>3 DEF Apart, Store, Stores
  <2> QED BY <1>3, <2>2, <2>3 DEF Outcome
<1>4. Single(x, r, settings'[r])
  BY <1>2, <1>3, ActionReads, MosaicoAsked DEF Single
<1> QED BY <1>4, OnceStep DEF Apart, Receive

-----------------------------------------------------------------------------
\* The next command.

\* What the agent makes of the settings s for a command that it starts.
Layered(o, p, c, s, r) ==
    \A k \in Keys :
        /\ k \in c.keys => o.s[k] = Args(r)
        /\ k \in conf.env \ c.keys /\ (o.repo = "ok" \/ s[k] = Env) => o.s[k] = Env
        /\ o.repo = "ok" /\ k \in conf.file[p].keys \ (conf.env \cup c.keys)
              => o.s[k] = File(p)

LEMMA MergeLayers ==
    ASSUME NEW p, NEW s, NEW state, NEW a \in ApplyRepoSettings(p, s, state), a.ok
    PROVE  \A k \in Keys :
              /\ k \in conf.env /\ (a.state = "ok" \/ s[k] = Env) => a.s[k] = Env
              /\ a.state = "ok" /\ k \in conf.file[p].keys \ conf.env => a.s[k] = File(p)
<1>1. PICK keys, f : a.s = MergeRepoFile(ApplySettingsFromFile(s, keys), p, f)
                     /\ (a.state = "ok" => f = "ok")
  BY DEF ApplyRepoSettings
<1> DEFINE x == ApplySettingsFromFile(s, keys)
<1>2. \A k \in Keys : k \in conf.env /\ s[k] = Env => x[k] = Env
  BY DEF ApplySettingsFromFile, ReapplyEnvOverrides, Layer
<1> HIDE DEF x
<1>3. CASE f = "ok"
  BY <1>1, <1>3 DEF MergeRepoFile, ReapplyEnvOverrides, Layer
<1>4. CASE f # "ok"
  <2>1. a.s = x
    BY <1>1, <1>4 DEF MergeRepoFile, x
  <2> QED BY <1>1, <1>2, <1>4, <2>1
<1> QED BY <1>3, <1>4

LEMMA AgentOutcome ==
    ASSUME NEW p, NEW c, NEW s, NEW state, NEW r,
           NEW o \in AgentHandleRequest(p, c, s, state, r)
    PROVE  \E a \in ApplyRepoSettings(p, s, state), ok \in BOOLEAN :
              \/ o = Started(a, a.s, FALSE)
              \/ a.ok /\ o = Started(a, UpdateSettingsFromArgs(a.s, c, r), ok)
BY DEF AgentHandleRequest

LEMMA AgentLayers ==
    ASSUME NEW p, NEW c, NEW s, NEW state, NEW r,
           NEW o \in AgentHandleRequest(p, c, s, state, r), o.started
    PROVE  Layered(o, p, c, s, r)
<1>1. PICK a \in ApplyRepoSettings(p, s, state), ok \in BOOLEAN :
         \/ o = Started(a, a.s, FALSE)
         \/ a.ok /\ o = Started(a, UpdateSettingsFromArgs(a.s, c, r), ok)
  BY DEF AgentHandleRequest
<1>2. a.ok /\ o.s = Layer(a.s, c.keys, Args(r)) /\ o.repo = a.state
  BY <1>1 DEF Started, UpdateSettingsFromArgs
<1> QED BY <1>2, MergeLayers DEF Layered, Layer

\* On Bitbucket Server, and for commands that run by themselves, the agent sees
\* no options; elsewhere it sees those of the comment.
LEMMA RunLayers ==
    ASSUME NEW r, NEW c, NEW o \in Run(r, c), o.started,
           conf.server = "action" => req[r].repo # "ok",
           conf.server = "mosaico" => ~req[r].auto
    PROVE  LET early == req[r].auto \/ conf.server = "bitbucket_server"
           IN /\ early => \E s : Layered(o, Pr(r), Bare(c), s, r)
                                 \/ o.repo # "ok"
              /\ ~early => Layered(o, Pr(r), c, settings[Store(r)], r)
<1>1. conf.events[r].pr = Pr(r)
  BY DEF Pr
<1>2. CASE conf.server = "bitbucket_server"
  <2>1. o \in ProcessCommand(Pr(r), c, settings[Store(r)], req[r].repo, r)
    BY <1>1, <1>2 DEF Run
  <2>2. \E a, s : o \in Broken(AgentHandleRequest(Pr(r), Bare(c), s, a.state, r), a)
    <3>1. PICK a \in ApplyRepoSettings(Pr(r), settings[Store(r)], req[r].repo) :
             \/ o = Started(a, a.s, FALSE)
             \/ o \in Broken(AgentHandleRequest(Pr(r), Bare(c),
                         UpdateSettingsFromArgs(a.s, c, r), a.state, r), a)
      BY <2>1 DEF ProcessCommand
    <3>2. o # Started(a, a.s, FALSE)
      BY DEF Started
    <3> QED BY <3>1, <3>2
  <2> PICK a, s : \E q \in AgentHandleRequest(Pr(r), Bare(c), s, a.state, r) :
                     o = [q EXCEPT !.broken = q.broken \/ (a.read = "broken")]
    BY <2>2 DEF Broken
  <2> PICK q \in AgentHandleRequest(Pr(r), Bare(c), s, a.state, r) :
         o = [q EXCEPT !.broken = q.broken \/ (a.read = "broken")]
    OBVIOUS
  <2>3. DOMAIN q = {"s", "repo", "broken", "started"}
    BY AgentOutcome DEF Started
  <2>4. q.started /\ o.s = q.s /\ o.repo = q.repo
    BY <2>3
  <2>5. Layered(q, Pr(r), Bare(c), s, r)
    BY <2>4, AgentLayers
  <2> QED BY <1>2, <2>4, <2>5 DEF Layered
<1>3. CASE conf.server = "mosaico"
  <2>1. CASE c.tool = "ask"
    <3>1. o.s = Layer(settings[Store(r)], c.keys, Args(r)) /\ o.repo = "unread"
      BY <1>3, <2>1 DEF Run, MosaicoRun, RunAsk, UpdateSettingsFromArgs
    <3> QED BY <1>3, <3>1 DEF Layered, Layer
  <2>2. CASE c.tool # "ask"
    BY <1>1, <1>3, <2>2, AgentLayers DEF Run, MosaicoRun, RunGarda
  <2> QED BY <2>1, <2>2
<1>4. CASE conf.server = "action" /\ req[r].auto
  BY <1>4 DEF Run
<1>5. CASE /\ conf.server \notin {"bitbucket_server", "mosaico"}
           /\ ~(conf.server = "action" /\ req[r].auto)
  <2>1. CASE req[r].auto
    <3>1. o \in AgentHandleRequest(Pr(r), Bare(c),
                    UpdateSettingsFromArgs(settings[Store(r)], c, r), req[r].repo, r)
      BY <1>1, <1>5, <2>1 DEF Run
    <3> QED BY <2>1, <3>1, AgentLayers
  <2>2. CASE ~req[r].auto
    <3>1. o \in AgentHandleRequest(Pr(r), c, settings[Store(r)], req[r].repo, r)
      BY <1>1, <1>5, <2>2 DEF Run
    <3> QED BY <1>5, <2>2, <3>1, AgentLayers
  <2> QED BY <2>1, <2>2
<1> QED BY <1>2, <1>3, <1>4, <1>5

LEMMA RunReads ==
    ASSUME conf.server = "action", NEW r, req[r].repo # "ok", NEW c, NEW o \in Run(r, c)
    PROVE  o.repo # "ok"
<1>1. ASSUME NEW p, NEW s, NEW q, NEW x \in AgentHandleRequest(p, q, s, req[r].repo, r)
      PROVE  x.repo # "ok"
  BY AgentOutcome, NoContext DEF Started
<1> QED BY <1>1 DEF Run

LEMMA NextCommandIs ==
    ASSUME NEW r \in Requests, NextCommand(r)
    PROVE  /\ req[r].pc = "commands" /\ conf' = conf
           /\ \E k : \E o \in Run(r, Head(req[r].todo)) :
                 /\ settings' = [settings EXCEPT ![Store(r)] = o.s]
                 /\ req' = [req EXCEPT ![r] = IF o.started THEN Made(req[r], o, k)
                                              ELSE Refused(req[r], o)]
BY DEF NextCommand

LEMMA OnceCommand ==
    ASSUME Apart, Once, NEW r \in Requests, NextCommand(r)
    PROVE  Once'
<1> DEFINE c == Head(req[r].todo)
<1> PICK k : \E o \in Run(r, c) :
       /\ settings' = [settings EXCEPT ![Store(r)] = o.s]
       /\ req' = [req EXCEPT ![r] = IF o.started THEN Made(req[r], o, k)
                                    ELSE Refused(req[r], o)]
  BY NextCommandIs
<1> PICK o \in Run(r, c) :
       /\ settings' = [settings EXCEPT ![Store(r)] = o.s]
       /\ req' = [req EXCEPT ![r] = IF o.started THEN Made(req[r], o, k)
                                    ELSE Refused(req[r], o)]
  OBVIOUS
<1> DEFINE x == Made(req[r], o, k)
           y == Refused(req[r], o)
           left == IF conf.server = "action" /\ req[r].auto THEN <<>> ELSE Tail(req[r].todo)
<1>1. DOMAIN req[r] = Fields /\ Single(req[r], r, settings[r])
  BY DEF Once, Single
<1>2. conf.server = "action" => o.repo # "ok"
  BY <1>1, RunReads DEF Single
<1>3. ~SharesSettings(conf.server) /\ ~req[r].auto => Tail(req[r].todo) = <<>>
  <2> SUFFICES ASSUME ~SharesSettings(conf.server), ~req[r].auto
               PROVE  Tail(req[r].todo) = <<>>
    OBVIOUS
  <2>1. PICK d : req[r].todo = <<d>>
    BY <1>1 DEF Single, NextCommand
  <2> QED BY <2>1
<1>4. Single(x, r, settings'[r])
  <2>1. /\ DOMAIN x = Fields /\ x.pc = "made" /\ x.todo = Tail(req[r].todo)
        /\ x.repo = o.repo /\ x.auto = req[r].auto
    BY <1>1 DEF Fields, NewRequest, Made
  <2> HIDE DEF x
  <2> QED BY <1>1, <1>2, <1>3, <2>1 DEF Single
<1>5. Single(y, r, settings'[r])
  <2>1. /\ DOMAIN y = Fields /\ y.repo = o.repo /\ y.auto = req[r].auto
        /\ y.todo = left /\ y.pc = IF left = <<>> THEN "done" ELSE "commands"
    BY <1>1 DEF Fields, NewRequest, Finished, Refused
  <2>2. ~SharesSettings(conf.server) /\ ~req[r].auto => left = <<>>
    BY <1>3
  <2> HIDE DEF y, left
  <2> QED BY <1>1, <1>2, <2>1, <2>2 DEF Single
<1>6. Single(IF o.started THEN x ELSE y, r, settings'[r])
  BY <1>4, <1>5
<1> QED BY <1>6, OnceStep DEF Apart, NextCommand

-----------------------------------------------------------------------------
\* The theorem.

LEMMA OnceInit == Init => Once
<1> SUFFICES ASSUME Init PROVE Once
  OBVIOUS
<1>1. /\ DOMAIN req = Requests
      /\ \A r \in Requests : \/ req[r] = NewRequest
                             \/ req[r] = [NewRequest EXCEPT !.pc = "done"]
  BY DEF Init, InitRequests
<1>2. \A r \in Requests : /\ DOMAIN req[r] = Fields /\ req[r].repo = "unread"
                          /\ req[r].auto = FALSE /\ req[r].pc \in {"sent", "done"}
  BY <1>1 DEF Fields, NewRequest
<1> QED BY <1>1, <1>2 DEF Once, Single

LEMMA OnceNext == Apart /\ Once /\ [Next]_vars => Once'
<1> SUFFICES ASSUME Apart, Once, [Next]_vars PROVE Once'
  OBVIOUS
<1>1. CASE UNCHANGED vars
  BY <1>1, OnceStutter DEF vars
<1>2. ASSUME NEW r \in Requests, Arrive(r)
      PROVE  Once'
  BY <1>2, OnceReceive DEF Arrive
<1>3. ASSUME NEW r \in Requests, Work(r)
      PROVE  Once'
  BY <1>3, OnceCommand, OnceTool DEF Work, Apart
<1>4. CASE conf' = conf /\ settings' = settings /\ req' = req
  BY <1>4, OnceStutter
<1> QED BY <1>1, <1>2, <1>3, <1>4 DEF Next

\* A request comes from "commands" to "made" by its next command only.
LEMMA MadeByCommand ==
    ASSUME Once, [Next]_vars, NEW r \in Requests,
           req[r].pc = "commands", req'[r].pc = "made"
    PROVE  NextCommand(r)
<1>1. CASE UNCHANGED vars \/ req' = req
  BY <1>1 DEF vars
<1>2. ASSUME NEW q \in Requests, Arrive(q)
      PROVE  FALSE
  <2>1. q # r
    BY <1>2 DEF Arrive, Receive
  <2>2. \E x : req' = [req EXCEPT ![q] = x]
    BY <1>2 DEF Arrive, Receive
  <2> QED BY <2>1, <2>2 DEF Once
<1>3. ASSUME NEW q \in Requests, Work(q)
      PROVE  NextCommand(r)
  <2>1. \E x : req' = [req EXCEPT ![q] = x]
    BY <1>3, ToolMoves DEF Work, MovedBy, NextCommand
  <2>2. q = r
    BY <2>1 DEF Once
  <2>3. req[r].pc \notin {"made", "asked"}
    OBVIOUS
  <2> QED BY <1>3, <2>2, <2>3, ToolMoves DEF Work
<1> QED BY <1>1, <1>2, <1>3 DEF Next

\* What OptionsPrecedence says of a command of request r that starts.
LEMMA CommandStarts ==
    ASSUME Apart, Once, NEW r \in Requests, NextCommand(r), req'[r].pc = "made"
    PROVE  StartsInOrder(r)
<1> DEFINE c == Head(req[r].todo)
<1> PICK k : \E o \in Run(r, c) :
       /\ settings' = [settings EXCEPT ![Store(r)] = o.s]
       /\ req' = [req EXCEPT ![r] = IF o.started THEN Made(req[r], o, k)
                                    ELSE Refused(req[r], o)]
  BY NextCommandIs
<1> PICK o \in Run(r, c) :
       /\ settings' = [settings EXCEPT ![Store(r)] = o.s]
       /\ req' = [req EXCEPT ![r] = IF o.started THEN Made(req[r], o, k)
                                    ELSE Refused(req[r], o)]
  OBVIOUS
<1>1. DOMAIN req[r] = Fields /\ Single(req[r], r, settings[r]) /\ r \in DOMAIN req
  BY DEF Once, Single
<1>2. o.started
  <2>1. Refused(req[r], o).pc # "made"
    BY <1>1 DEF Refused, Finished, Fields, NewRequest
  <2> QED BY <1>1, <2>1
<1>3. req'[r].repo = o.repo
  <2>1. Made(req[r], o, k).repo = o.repo
    BY <1>1 DEF Made, Fields, NewRequest
  <2> QED BY <1>1, <1>2, <2>1
<1>4. settings'[Store(r)] = o.s
  <2>1. Store(r) \in Stores
    BY DEF Store, Stores
  <2> QED BY <2>1 DEF Apart
<1>5. FileKeys \subseteq Keys
  BY DEF Keys
<1>6. CASE req[r].auto \/ conf.server = "bitbucket_server"
  <2>1. \E s : Layered(o, Pr(r), Bare(c), s, r) \/ o.repo # "ok"
    BY <1>1, <1>2, <1>6, RunLayers DEF Single
  <2>2. Bare(c).keys = {}
    BY DEF Bare
  <2> QED BY <1>3, <1>4, <1>5, <1>6, <2>1, <2>2 DEF Layered, StartsInOrder
<1>7. CASE ~(req[r].auto \/ conf.server = "bitbucket_server")
  <2>1. Layered(o, Pr(r), c, settings[Store(r)], r)
    BY <1>1, <1>2, <1>7, RunLayers DEF Single
  <2>2. ~SharesSettings(conf.server) => \A j \in conf.env \cap Keys : settings[Store(r)][j] = Env
    BY <1>1, <1>7 DEF Single, NextCommand, Store, FreshStore
  <2> QED BY <1>3, <1>4, <1>5, <1>7, <2>1, <2>2 DEF Layered, StartsInOrder
<1> QED BY <1>6, <1>7

\* When a command starts, the options of a comment win over the environment,
\* and that over the settings file of the repository; the options of commands
\* that run by themselves lose to a file (apply_repo_settings, the agent's
\* _handle_request and every server that calls it).
THEOREM PrecedenceCorrectness == Spec => OptionsPrecedence
<1>1. ASSUME Apart, Once, [Next]_vars
      PROVE  \A r \in DOMAIN conf.events :
                req[r].pc = "commands" /\ req'[r].pc = "made" => StartsInOrder(r)
  <2> SUFFICES ASSUME NEW r \in DOMAIN conf.events,
                      req[r].pc = "commands", req'[r].pc = "made"
               PROVE  StartsInOrder(r)
    OBVIOUS
  <2>1. r \in Requests
    BY <1>1, OfDeployment DEF Apart
  <2>2. NextCommand(r)
    BY <1>1, <2>1, MadeByCommand
  <2> QED BY <1>1, <2>1, <2>2, CommandStarts
<1> QED BY <1>1, ApartInit, ApartNext, OnceInit, OnceNext, PTL
       DEF Spec, OptionsPrecedence

=============================================================================
