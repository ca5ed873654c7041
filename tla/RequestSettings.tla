-------------------------- MODULE RequestSettings --------------------------
(***************************************************************************)
(* The settings a command runs under (garda/config_loader.py,              *)
(* garda/git_providers/utils.py, garda/algo/utils.py).                     *)
(*                                                                         *)
(* A setting is known by where its value comes from: a key of the model    *)
(* stands for all the options that are handled alike.  "option" is any     *)
(* option that a tool reads; the others are read on the way to a command.  *)
(* A store is a copy of the settings: one that the whole process shares,   *)
(* and one per request on the servers that make a copy of it.              *)
(***************************************************************************)
EXTENDS Naturals, Sequences, FiniteSets

CONSTANTS PRs,          \* pull requests, each of a repository of its own
          NumRequests,  \* how many events or invocations there are
          Deployments   \* the deployments, with their events: see Deployment

VARIABLES conf,         \* the deployment; never changes
          settings      \* settings[store][key]: where the value comes from

Requests == 1..NumRequests
Global == 0
Stores == Requests \cup {Global}

FileKeys == {"option", "ignore", "auto_off", "trigger", "publish"}
Keys == FileKeys \cup {"is_auto", "tickets"}

Default == <<"default">>
Env == <<"env">>
Extra == <<"extra">>
File(p) == <<"file", p>>
Args(r) == <<"args", r>>
Tickets(p) == <<"tickets", p>>

Values == {Default, Env, Extra} \cup {File(p) : p \in PRs}
          \cup {Args(r) : r \in Requests} \cup {Tickets(p) : p \in PRs}

\* The values of one store.
StoreType == [Keys -> Values]

\* Options that are off unless somebody sets them; Args(r) are also the values
\* that the server of request r sets itself.
On(s, k) == s[k] # Default

Webhooks == {"github", "gitlab", "bitbucket", "bitbucket_server", "azure",
             "gitea", "gerrit"}
Servers == Webhooks \cup {"polling", "action", "cli", "mosaico"}

\* The hosting service: the polling server and the action are for GitHub, and
\* the command line and mosaico are modelled as used with it.
Provider == IF conf.server \in {"polling", "action", "cli", "mosaico"} THEN "github"
            ELSE conf.server

\* The tools that Tools models.
ToolNames == {"review", "describe", "ask", "ask_line", "add_docs", "generate_labels",
              "update_changelog", "help_docs", "help", "config"}

\* What a request may ask for: a tool, options set with --key=value, whether
\* the tool exists and the options may be set, -i or a question.
Command == [tool : ToolNames, keys : SUBSET FileKeys, known : BOOLEAN,
            allowed : BOOLEAN, arg : {"", "-i", "question"}]

\* What starts a request, and what the webhook says of it.
Event == [kind : {"opened", "push", "ready", "comment", "line_comment"},
          pr : PRs, command : Command, meets : SUBSET STRING,
          facts : SUBSET STRING]

\* A deployment: which server runs, what is set where, which commands run by
\* themselves, and what happens.  file[p].state says whether the repository
\* of p has a settings file, and one that can be read.
Deployment ==
    [server : Servers, env : SUBSET FileKeys, extra : SUBSET FileKeys,
     file : [PRs -> [state : {"none", "broken", "ok"}, keys : SUBSET FileKeys]],
     prCommands : Seq(Command), pushCommands : Seq(Command),
     flags : SUBSET STRING, events : Seq(Event)]

ASSUME SettingsAssumption ==
    /\ PRs # {} /\ NumRequests \in Nat
    /\ \A d \in Deployments : d \in Deployment /\ DOMAIN d.events \subseteq Requests

-----------------------------------------------------------------------------

\* Every server but these two copies the settings for each request; the
\* commands of the others run in a process of their own.
SharesSettings(server) == server \in {"bitbucket_server", "azure"}

\* Faulty variant: no server copies them.
StoreNeverCopied(r) == Global

\* The settings that get_settings() returns while request r is handled.
Store(r) == IF SharesSettings(conf.server) THEN Global ELSE r

\* A context that lives as long as the request.
HasContext == conf.server \in Webhooks \cup {"mosaico"}

\* publish_output: only the options of a command turn it off.
Publishes(s) == s["publish"] \notin {Args(r) : r \in Requests}

\* A layer of settings on top of others.
Layer(s, keys, v) == [k \in Keys |-> IF k \in keys THEN v ELSE s[k]]

\* The settings of the process before the first request.
InitialSettings == Layer([k \in Keys |-> Default], conf.env, Env)

-----------------------------------------------------------------------------

\* Faulty variant: what the environment says is not put back.
ReapplyEnvOverridesNot(s) == s

\* _reapply_env_overrides
ReapplyEnvOverrides(s) == Layer(s, conf.env, Env)

\* _resolve_extra_config_to_file: there is no such file, or it cannot be
\* fetched, or it is read.
ResolveExtraConfig == IF conf.extra = {} THEN {{}} ELSE {{}, conf.extra}

\* _apply_settings_from_file
ApplySettingsFromFile(s, keys) ==
    IF keys = {} THEN s ELSE ReapplyEnvOverrides(Layer(s, keys, Extra))

\* get_repo_settings of the providers: an error counts as an empty file.
GetRepoSettings(p) == {conf.file[p].state, "none"}

\* Faulty variant: the options of the file lose to what is set already.
MergeRepoFileKeeping(s, p, state) ==
    IF state = "ok"
    THEN [k \in Keys |-> IF k \in conf.file[p].keys /\ s[k] = Default
                         THEN File(p) ELSE s[k]]
    ELSE s

\* The part of apply_repo_settings that merges the file, once it is read.
MergeRepoFile(s, p, state) ==
    IF state = "ok"
    THEN ReapplyEnvOverrides(Layer(s, conf.file[p].keys, File(p)))
    ELSE s

\* apply_repo_settings: how it may leave the settings s, when `state' is what
\* the context remembers of the repository's file.  Creating the provider may
\* fail; then the exception reaches the caller.
ApplyRepoSettings(p, s, state) ==
    LET extra == {ApplySettingsFromFile(s, k) : k \in ResolveExtraConfig}
        files == IF state # "unread" THEN {state} ELSE GetRepoSettings(p)
    IN {[s |-> MergeRepoFile(x, p, f), ok |-> TRUE,
         state |-> IF HasContext THEN f ELSE "unread", read |-> f]
           : x \in extra, f \in files}
       \cup {[s |-> x, ok |-> FALSE, state |-> state, read |-> "none"]
           : x \in extra}

\* update_settings_from_args
UpdateSettingsFromArgs(s, c, r) == Layer(s, c.keys, Args(r))

SettingsTypeOK ==
    /\ conf.server \in Servers
    /\ settings \in [Stores -> StoreType]

InitSettings ==
    /\ conf \in Deployments
    /\ settings = [x \in Stores |-> InitialSettings]
=============================================================================
