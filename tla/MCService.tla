----------------------------- MODULE MCService -----------------------------
(***************************************************************************)
(* Small deployments of every server, each with the events that its own    *)
(* code tells apart.                                                       *)
(***************************************************************************)
EXTENDS Service

MCPRs == {1, 2}
MCTexts == {<<"mine">>, <<"mine", "mark description">>}

Cmd(tool, keys) == [tool |-> tool, keys |-> keys, known |-> TRUE,
                    allowed |-> TRUE, arg |-> ""]
With(tool, arg) == [Cmd(tool, {}) EXCEPT !.arg = arg]

Review == Cmd("review", {})
Update == With("review", "-i")
Describe == Cmd("describe", {})
Config == Cmd("config", {})
Unknown == [Config EXCEPT !.known = FALSE]
Forbidden == [Config EXCEPT !.allowed = FALSE]

On1(kind, c, facts) == [kind |-> kind, pr |-> 1, command |-> c, meets |-> {},
                        facts |-> facts]
On2(kind, c, facts) == [On1(kind, c, facts) EXCEPT !.pr = 2]
Meets(e, rules) == [e EXCEPT !.meets = rules]
Says(c) == On1("comment", c, {"slash", "version 2"})
Asks1(c) == On1("comment", c, {"mention"})

NoFiles == [p \in PRs |-> [state |-> "none", keys |-> {}]]
FileOf1(state, keys) == [NoFiles EXCEPT ![1] = [state |-> state, keys |-> keys]]

D(server, flags, events) ==
    [server |-> server, env |-> {}, extra |-> {}, file |-> NoFiles,
     prCommands |-> <<>>, pushCommands |-> <<>>, flags |-> flags, events |-> events]

\* Whose settings: a settings file for 1, options for 1 or 2.
Isolation ==
    {[D(s, {}, <<On1("opened", Config, {}),
                 On2("comment", Cmd("config", {"option"}), {"slash", "version 2"})>>)
        EXCEPT !.prCommands = <<Cmd("config", {"option"}), Config>>,
               !.file = FileOf1("ok", k), !.env = e, !.extra = x]
       : s \in Webhooks, k \in {{"option"}, {"auto_off"}, {"ignore"}},
         e \in {{}, {"option"}}, x \in {{}}}
    \cup {[D(s, {}, <<Says(Cmd("config", {"option"}))>>)
             EXCEPT !.file = FileOf1(f, {"option"}), !.env = e, !.extra = x]
            : s \in {"github", "bitbucket_server", "action", "cli"}, f \in {"ok", "broken"},
              e \in {{}, {"option"}}, x \in {{}, {"option"}}}

\* What each server makes of each kind of event.
Events ==
    {[D(s, {"ignore bots"}, <<e>>)
        EXCEPT !.prCommands = <<Config>>, !.pushCommands = <<Config>>, !.env = v]
       : s \in Webhooks \cup {"action"}, v \in {{}, {"trigger", "ignore"}},
         e \in {On1(k, c, f) :
                  k \in {"opened", "ready", "push", "comment", "line_comment"},
                  c \in {With("ask", "question")},
                  f \in {{}, {"slash", "recent", "version 2"}, {"image"}, {"bot"},
                         {"draft"}, {"closed"}, {"first"}, {"other action"},
                         {"same"}, {"unverified"}, {"no text"}}}
               \cup {Meets(On1(k, Config, {}), m) : k \in {"opened", "push"},
                       m \in {{"label"}, {"folder"}, {"title"}}}
               \cup {Says(Unknown), Says(Forbidden)}}

\* Reviews while commits are pushed.
Reviews ==
    {[D("github", {"commits"}, <<On1("opened", Config, {}), On1("push", Config, {}),
                                 On1("push", Config, {})>>)
         EXCEPT !.prCommands = <<Review>>, !.pushCommands = <<Update>>,
                !.env = {"trigger"}],
     D("github", {"commits", "merges", "not persistent"}, <<Says(Review), Says(Update)>>),
     D("github", {"commits", "merges", "thresholds"}, <<Says(Review), Says(Update)>>),
     [D("github", {"commits"}, <<On1("opened", Config, {}), On1("push", Config, {})>>)
         EXCEPT !.prCommands = <<Describe, Review>>, !.pushCommands = <<Update>>,
                !.env = {"trigger"}]}
    \cup {D(s, {"no suggestions"}, <<Says(Review), Says(Update)>>)
            : s \in {"gitlab", "azure", "bitbucket", "gerrit"}}

\* Descriptions and labels while people write and label.
Descriptions ==
    {D(s, {"labels", "edits"} \cup f, <<Says(Describe), Says(Describe)>>)
        : s \in {"github", "bitbucket", "gitea"},
          f \in {{}, {"markers"}, {"no_type"}, {"as comment"}}}
    \cup {D(s, {"labels"}, <<Says(Describe), Says(c)>>)
            : s \in {"github", "gitlab", "azure", "gerrit", "bitbucket"},
              c \in {Review, Cmd("generate_labels", {})}}

\* The other tools, two requests at a time.
Others ==
    {D("github", f, <<Says(Cmd("update_changelog", {})), Says(Cmd(t, {}))>>)
        : t \in {"update_changelog", "ask", "ask_line", "add_docs", "help", "config"},
          f \in {{}, {"push changelog"}}}
    \cup {D(s, {"openai key", "push changelog"}, <<Says(With(t, "question"))>>)
        : s \in {"cli", "azure"}, t \in {"help_docs", "help", "update_changelog"}}

\* Options that turn publishing off, with and without a shared store.
Silent ==
    {D(s, {}, <<Says(Cmd("ask", {})), Says(Cmd("ask", {"publish"}))>>)
        : s \in {"github", "azure"}}

\* Comments that are polled for, on two pull requests.
Polled ==
    {D("polling", {}, <<Asks1(Unknown), b, c>>)
       : b \in {Asks1(Unknown), On1("comment", Unknown, {"own", "mention"})},
         c \in {On1("comment", Unknown, {}), On2("comment", Config, {"mention"})}}

\* Tasks of mosaico, on pull requests and on diffs.
Tasks ==
    {[D("mosaico", {}, <<On1("comment", c, f)>>)
        EXCEPT !.file = FileOf1(s, {"publish", "option"}), !.env = e]
       : c \in {Review, Describe, With("ask", "question")}, s \in {"ok", "broken"},
         f \in {{"url"}, {"diff"}, {}}, e \in {{}, {"publish"}}}

MCDeployments == Isolation \cup Events \cup Reviews \cup Descriptions \cup Others \cup Silent \cup Polled \cup Tasks
=============================================================================
