# A verification project for Garda Code Action

Garda Code Action answers events of a git hosting service (a new pull request, a
push, a comment such as `/improve`) with one or more *commands*, each of which
reads the diff, asks a language model and writes comments back. The code is
sequential inside a command; what is hard is around it: webhooks of the same
pull request that overlap in one event loop and over several processes, calls to
the model and to the hosting service that fail half-way, state that is cached
or remembered for a request and used after it has changed, and budgets that are
counted along the way.

Line numbers below and in `PROJECT.json` refer to `src/`.

## 1. The system

| Part | State | Operations | Talks to |
| --- | --- | --- | --- |
| GitHub app, `servers/github_app.py` | per process: `_duplicate_push_triggers`, `_pending_task_duplicate_push_conditions` | webhooks for comments, new pull requests, pushes, closed pull requests | agent, settings, identity provider |
| Other webhook servers (`servers/*`) | none, or Bitbucket tokens | the same events of GitLab, Bitbucket, Azure DevOps, Gitea, Gerrit | agent, settings |
| GitHub polling, `servers/github_polling.py` | `handled_ids`, `since`, `last_modified`, a task queue | poll notifications, start one process per comment | agent |
| CLI, action runner, mosaico | none | parse arguments or an event, run one command | agent |
| Agent, `agent/garda_agent.py` | none | apply the settings, find the tool, run it | settings, tools |
| Settings, `config_loader.py`, `git_providers/utils.py` | global settings; a copy per request in `context["settings"]` | load, merge repository and extra files, command line overrides | providers |
| Tools (`tools/*`) | one object per command | `/review`, `/improve`, `/describe`, `/ask` and others: prepare prompts, ask the model, publish | packing, model calls, provider |
| Prompt packing, `algo/pr_processing.py` | local | choose the files and patches that fit into one or several prompts | patch algorithms, token counting |
| Model calls, `algo/pr_processing.py`, `algo/ai_handlers/*` | `openai.deployment_id` in the settings of the request | fallback over models, retries of one call | client libraries |
| Patch algorithms, `algo/git_patch_processing.py` | local | extend hunks, leave out deletions, number lines | |
| Providers (`git_providers/*`) | one object per command; `diff_files` and `git_files` per request in the context | read files and diff; publish, edit and remove comments and reviews | the hosting service |
| Token counting, identity and secret providers, logging | encoder of a model | lookups | libraries |

What is hard, and what makes each part correct:

* **Push trigger.** Webhooks of pushes arrive in any order and overlap; one is
  processed, one waits, the rest are dropped. Correct when counter, condition and
  tasks agree and every dropped push is seen by an attempt that is still to look.
* **Packing.** Budgets, passes and limits of calls. Correct when no prompt exceeds
  its budget, no file is sent twice and none that would fit is lost.
* **Model calls.** Retries inside fallbacks, gathered coroutines that outlive the
  attempt that started them, a setting used as a parameter. Correct when an answer
  is whole, an error means every model failed, everything ends, and a model is only
  called under its own deployment.
* **Persistent comment of `/improve`.** Runs that overlap, in one process or in
  several, and writes that fail. Correct when one comment shows the last tables, in
  order, and no table disappears.
* **Committable suggestions.** A review is accepted or rejected as a whole. Correct
  when one bad comment does not keep the others from the pull request and none is
  published twice.
* **Patch algorithms.** Lines of the old file are put in front of hunks that are numbered
  in the new one. Correct when a hunk stays a hunk of the two files, no addition gets a
  wrong number or is lost, and a question is given the lines it asks about.
* **Request settings.** A setting has up to six sources, merged in an order that differs
  by front end, into a copy per request that not every server makes. Correct when a
  request sees only its own sources, and the strongest of them.
* **Front ends.** Each server has its own filters and its own places where it applies the
  settings of the repository. Correct when whatever fails on the way, a request ends.
* **Incremental reviews and caches.** What is new since the last review is found by
  comparing times; the diff is kept for a request, the last commit is not. Correct when
  no commit goes unreviewed.
* **Descriptions and labels.** What a command generates is written over what people wrote,
  who go on writing. Correct when the author's text and labels can always be found again.
* **Progress comments.** Published and removed by different steps. Correct when one stays
  only where something failed.
* **Polling.** Notifications are marked, noted and searched before anything is started.
  Correct when no comment is started more often than that can explain.

A worker that is restarted loses the webhooks it had acknowledged and not handled.
Nothing is persisted and nobody retries them, so there is no recovery to verify.

## 2. Modules

| Module | What it is |
| --- | --- |
| `PushDelegate` | abstract: a push that is taken on is answered by an attempt that reads the head at that commit or later |
| `PushTrigger` | `handle_push_trigger_for_new_commits` in any number of worker processes; implements `PushDelegate` |
| `PushTriggerProofs` | proofs about `PushTrigger` for every value of its constants |
| `PromptPacking` | `get_pr_diff`, `get_pr_diff_multiple_patchs`, `get_pr_multi_diffs` |
| `PromptPackingProofs` | proofs about `PromptPacking` |
| `ModelCalls` | `retry_with_fallback_models` around the calls of `/improve` |
| `ModelCallsProofs` | proofs about `ModelCalls` |
| `ImproveComments` | the comments of `/improve` on a pull request, over several runs |
| `ImproveCommentsProofs` | proofs about `ImproveComments` |
| `InlineSuggestions` | suggestions that become review comments |
| `InlineSuggestionsProofs` | proofs about `InlineSuggestions` |
| `RequestSettings` | the copies of the settings and how files, environment and options are merged into them |
| `PullRequest` | a pull request on the service; what an incremental review looks at, descriptions, labels, kept diffs |
| `FrontEnds` | from an event to its commands: seven webhook servers, the action, the command line, polling, mosaico; the agent |
| `Tools` | the commands but `/improve`: created, then asking, then publishing |
| `Polling` | the notifications of GitHub and the comments they start |
| `Service` | composes these with people who push, write and label |
| `ServiceProofs`, `ToolsProofs` | proofs about `Service`: isolation, precedence, and everything the tools and the polling loop promise |
| `PatchHunks` | extension, removal of deletions, numbering and selection of the lines of a patch |
| `PatchHunksProofs` | proofs about `PatchHunks` for scripts of every length |
| `MC...` | instances for TLC; a `.cfg` per run |

`Service` extends `Tools` and `Polling`; `Tools` extends `FrontEnds`, which extends
`PullRequest`, which extends `RequestSettings`. The other modules stand alone: each is a
part whose steps are finer than those of `Service`.

A definition called "Faulty variant" in a module is the definition next to it with
a plausible mistake. No specification uses one: they are there to show that each
property can fail.

### How the modules correspond to the code

**PushTrigger.** One event is one `synchronize` webhook and its task. The code between
two awaits is one step, because one event loop runs the tasks of a process:
`Filter`, `AdmitFirst`, `AdmitSecond` and `Discard` are the handler up to its first
await, `Resume` is the return from `wait()`, `Finish` the end of the commands with
the `finally` block. `active[w][p]` is the counter of worker `w`. The condition's
lock is never held across an await other than `wait()`, so taking it is no step. The
filters before the counter (draft, closed, equal commits, a merge commit, the global
filters) are one boolean of the webhook; the filter after it, `should_process_pr_logic`
under the settings of the repository, depends on the sender. `attempted[p]` is the
head that the first command of an attempt reads, which it does before its first
await.

**PromptPacking.** A patch is a number of tokens. The loops over the files are steps,
one file each; the thresholds, the order of the checks, and what each branch does with
the file are the code's. What `handle_patch_deletions` returns is the kind of the file.
`clip_tokens` is an outcome: everything when it fits, else some first part, of a size that
need not fit. It measures by characters, keeps nine tenths of what fits on average, and
appends `...(truncated)` without counting again, so that a text of short tokens, or one that
is clipped to a few tokens, may exceed its room. `Excess` is how far; nothing in the code
bounds it but the size of the text, and the theorems are for every value. The lists below the
diff are appended as they come out of it; a clipped patch is any size up to the patch's that
passes the check the code makes afterwards. Where `get_pr_multi_diffs` reaches the limit of
calls it leaves the loop, and the model, like the code, keeps no account of the files behind.

**ModelCalls.** A task is the coroutine of one chunk in one attempt of one command.
`Attempt` is the loop of `retry_with_fallback_models` up to the calls, `Predicted` and
`Reflected` are answers, with the retries of `chat_completion` as `Again`. `Gather` is
`asyncio.gather`, or the loop over the chunks when `parallel_calls` is off; it does not
cancel what it no longer waits for. `strays` records calls made while the settings name
the deployment of another model. The additional call made when `decouple_hunks` is off is
not modelled, and `model_reasoning` is not set, which is the default.

**ImproveComments.** One run is one `/improve` command. A step is one call of the API,
and within one process the publishing part is never interleaved with another run's, as
it does not await (`HasLoop`). Each write may be refused (`edit_comment` swallows that),
break before the server has the request, or break after it. A comment is the run whose
table it shows and the history below. A table may have a tick in its text (outcome
`ticked`; the code looks for one anywhere in the table): its entry in a history gets a tick
before its name, is counted when the code asks whether the history is full, and is not found when
the code looks for the oldest entry to cut, nor is an entry without a commit. `sought` says
that an entry is found. Where none is, `rfind` answers -1 and the code cuts the last
character of the history, which the model leaves out. A comment that is overwritten because
nothing could be rendered has no header any more (`Rendered`). The settings are the
defaults: publishing on, persistent comment on, no committable suggestions. Truncation
of long comments and `only_fold` are left out.

**InlineSuggestions.** One behaviour is one call of `push_inline_code_suggestions`. A
step is one call of the API. The server is external: it takes a review when all its
comments lie in a hunk and the user has no pending review. `Parsed` is the range that
the code computes from a hunk header, `InDiff` the lines the server accepts; they differ
when the header leaves out a size.

**PatchHunks.** One behaviour is the way of one patch. A change is a script of kept, added
and deleted lines; git's diff of it (external) gives the hunks. A line is its place in the
script, so that the model can tell whether a number names the right line. `Extend` is
`extend_patch`, `ExtendHunk` one round of its loop over the hunks, `Prune` is
`handle_patch_deletions`, `Convert` is `decouple_and_convert_to_hunks_with_lines_numbers`,
`Ask` is `extract_hunk_lines_from_patch`. The old file that was read may be one line ahead
of the patch. Encodings, the skipped file types and the text of headers are left out.

**RequestSettings.** A key of the model stands for all options that are handled alike, and
its value is where it comes from: the defaults, the environment, the extra file, the file
of a repository, the options of a request, the tickets of a pull request. `Store(r)` is
what `get_settings()` returns while request `r` is handled: a copy, or on Azure DevOps and
Bitbucket Server the settings of the process. `ApplyRepoSettings` is the set of ways
`apply_repo_settings` may end: the extra file fetched or not, the file of the repository
absent, broken, read or remembered by the context, no provider.

**PullRequest.** A commit is its place, with the number of review comments there were when
it was authored; that is what `get_commit_range` compares. `merges` are the commits whose
message begins with `Merge branch '<default>'`: they are in the range, and their files are
not in `unreviewed_files_set`. A description is a sequence of
headings, rules and pieces, and `GetUserDescription` cuts the author's part out of it as
the code does, by the first place of each. `raced` records that somebody wrote while a
command was under way.

**FrontEnds.** One operator per handler, each the set of outcomes: the settings it leaves,
what the context remembers, and the commands to run. What the webhook says (a draft, a
bot, a merge commit, a rule on names that it meets) is a set of facts of the event. What a
server does before the first command is one step, `Receive`; each command then begins with
`NextCommand`, which is the agent: settings, options, tool. Exceptions of an agent end the
command and go on with the next. The duplicate pushes of the GitHub app are
`PushTrigger`'s. On mosaico a diff is a pull request of its own.

**Tools.** A command is three steps, at the awaits of its `run`: `NextCommand` creates the
tool (with what its constructor reads), `...Run` reads the diff and asks, `...Publish`
takes the answer and publishes. A call that fails ends the command wherever it is, but for
those the code swallows: an edit of the persistent comment, in whose place a new comment may
be published, and the deletion of a progress comment, which then stays (`undeleted`).
`Finished` is the end of a command with its result. Every command is here but `/improve`,
which has its own modules, `/similar_issue`, and `/answer`.

**Polling.** A notification names the latest comment of a pull request. A round of the loop
is a step (`HandleNotification`), and an exception in it drops what is queued
(`LoseQueue`). A comment that is started becomes a request of `Service`; a second start is
counted and not run again.

**Service.** Requests interleave between these steps, as in several worker processes. People
push, rewrite the description and add labels at any time, each where a deployment says so.
A *deployment* is a server with what is set where, which commands run by themselves, and
up to three events; it is chosen in the initial state and never changes, so that one run
checks many.

## 3. Runs

| Run | Bounds | What it shows |
| --- | --- | --- |
| `push_trigger` | 4 pushes, 1 pull request, 2 workers, a user and an ignored account, with backlog | counter, delegation, refinement of `PushDelegate`, and that every push taken on is attempted unless a delegate was told to skip |
| `push_ignored` | 3 pushes, 1 worker | violation: an ignored account's webhook is the delegate and a user's push is lost |
| `prompt_packing` | 3 files, 5 kinds, 3 sizes, 2 prompts, all modes, clipped lists up to 1 token too long | budgets with the limit on the lists, calls bounded and no file in two of them, none lost between two prompts or passes |
| `deleted_files` | the same | violation: deleted files are never listed |
| `improve_comments` | 3 runs, 1 or 2 workers, history of 0 or 1, tables with and without a tick, no faults or one of 3 kinds | the last tables, in order and not too many; none vanishes; no progress comment stays |
| `improve_persistent` | 2 runs, 1 worker, no faults | violation: a run without suggestions leads to a second comment |
| `inline_suggestions` | 2 suggestions on 8 first lines, 4 lengths, 3 files, 3 kinds of faults | accepted comments are published once, rejected ones on their first line, no pending review stays |
| `hunk_size` | 1 suggestion | violation: a suggestion on a hunk of one line is dropped |
| `model_calls` | 1 command with `parallel_calls` or 2 without; 3 models, 2 chunks, 2 attempts per call, 1 or 2 fallback deployments | whole answers, all models tried, one call at a time without `parallel_calls` and under the deployment of its model, everything ends |
| `patch_hunks` | scripts of up to 6 lines, 1 line of context, 0 or 3 extra lines before, 0 to 2 after, up to 4 with dynamic context | hunks stay hunks of the two files, every addition is shown once under its number, a question gets its lines |
| `service` | 1172 deployments of eleven front ends on 2 pull requests, up to 3 events, 3 commits, which may be merges, 1 edit, 1 label; 1 earlier comment searched, 2 tasks started | the settings of requests stay apart and in order, the author's text and labels survive, an incremental review sees what is new, progress comments go, comments are started once, mosaico publishes nothing, everything ends |
| `calls_paired` | the same as `model_calls`, 2 models | violation: a call under the deployment of another model |

Why the bounds are enough: the counter of the push trigger has three values, and four
pushes give one that is processed, one that waits, one that is discarded and one after
them, in two workers at once; the theorems cover every other number. Three files meet
the two thresholds and the limit of calls from both sides and leave one over. Three runs
fill a history of one and push an entry out, or, with ticks, leave it longer than one. The
faults of a behaviour are of one kind there; the theorems are for every combination, and for
histories that are cut in the middle, which takes a history of two and four runs. A clip
that is one token too long is enough to put a list over the limit. Two suggestions are a group that can be
half valid. Six lines with one line of context hold two hunks, a line between them, and a
changed line within reach of the second hunk's extension. Three models and two chunks are fallbacks with coroutines left behind; two
commands are one that starts from the settings another one left.

The deployments of `service` come in groups, one per question: two requests
of different repositories on each webhook server, with options, files and environment
(isolation and precedence); each kind of event with each fact that some handler tells
apart, on each server; reviews with pushes; descriptions and labels; the other tools two
at a time; options that turn publishing off, in a copy and in shared settings; polled comments;
tasks of mosaico. Three commits are one that was reviewed,
one that is new, and one that is pushed while it is looked at. The limit of parallel tasks
is 0, so that the two that are started beyond it are all, and a third is dropped; one
earlier comment is searched instead of four, and there are two.

Deadlock is not checked where a behaviour ends: all modules describe a finite number of
webhooks, files, runs, suggestions or commands, after which nothing is left to do.

Symmetry is used for the runs and the workers of `ImproveComments` (no liveness there).

Conditions in the properties are the cases in which the code does *not* keep the
promise. `NoTableVanishes` needs that no write is refused: when the edit of the progress
comment is refused, `edit_comment` swallows that and the comment with the history is
removed all the same. With several processes it also needs that every run has a progress
comment, as two automatic runs overwrite each other's edit, and that no answer is lost:
after one, a second run may move the table that was written below its own before the first
run publishes it, and the next run cuts it off although it was published later. That
takes four runs, one more than the bound, so `Lossless` leaves it out. `AcceptedIsPosted` needs that
every call is answered: a broken connection while the verified comments are published is
swallowed. `PostedOnce` needs that no answer is lost: a review whose answer was lost is
published again. `ProgressCleared` needs `publish_output_no_suggestions`.

A tick in a table weakens three properties of the comment of `/improve`, each as far as the
code does (pr_code_suggestions.py:314-321). `HistoryInOrder` lets a history exceed
`max_history_len` when all its entries but the newest are ticked: those count, none is found,
and nothing is cut. In `OneCommentShowsTheLast` and `NoTableVanishes` the tables shown may be
fewer than a full history where some table had a tick, as an unticked entry above ticked ones
is taken for the last and cut with all below it; at least the two newest stay, in order.
Without ticks the comment shows exactly the last `max_history_len + 1`. Nothing but the name
of the setting (settings/configuration.toml:144) promises a length, so that
this is a hazard here and not a finding.

`BudgetKept` lets the lists below a diff exceed the hard limit by `Excess`, once: the second
list is clipped to what the first has left, so that the sum exceeds the limit by one clip.
`EveryFileAccountedFor` of several prompts excepts the files that are too large, and those
that come behind the last file packed when all calls are used: there the loop ends, and at the
default verbosity the log does not tell.

The properties of `Service` name their conditions in the same way. `UserWorkKept` leaves out
text and labels written while an answer is generated (the code writes what it read before),
and a description that was generated without the heading `PR Type` or `Description`, whose
end is not found again. With marks in place of a generated description the text is read back
but for its marks. `ReviewMissesNothing` is about every review, the later ones of a request
too, which get the diff that is kept; it leaves out commits that come in while a request is
under way (which the kept diff does not have), commits authored before a review that had
not seen them (their time is before the comment's, and every later incremental review
skips them), and merges of the default branch, which the code passes over on purpose
(github_provider.py:162): when such a commit changes more than it merges, as in a conflict, no
incremental review sees that. `ProgressCleared` leaves out commands that failed or withheld
their answer, comments whose deletion the service refused (`remove_comment` logs that), and,
where requests share their settings, deployments in which some command turns publishing off:
there the command of another request may do so between a progress comment and its removal,
which then does nothing.
`SettingsIsolated` is about the servers that copy the settings: on Azure DevOps and Bitbucket
Server the next request does see them. `CommentStartedOnce` allows one more start for each
comment without a mention, as such a comment makes the poll search the earlier ones, of
which it does not ask whether they were handled. `MosaicoIsQuiet` is about each step of a task and leaves
out the notice about a settings file that cannot be parsed. Some losses are in the model and in no property, as
nothing in the repository promises otherwise: entries of the changelog pushed by two commands
at once, tasks queued when the polling loop breaks off, comments beyond the parallel limit,
and the first of two mentions between two polls.

`ExtendedIsFaithful` needs that at most `Context + 1` lines are added behind a hunk (the
default is 1, git's context 3), or they may be lines that the next hunk changes, and that
no header leaves out a size: for a file of one line the line is added once more behind the
hunk, as the size is read as 0. Three things the code does are part of the model and of no
property: a hunk whose lines in front differ keeps a header that does not count the lines
added behind it; a hunk that only deletes is kept when a later one adds (the documentation,
compression_strategy.md:42, has all of them removed); on the left side `/ask` counts the
lines of the new file. A patch that empties a file may get a negative size when it is
extended, and its conversion then raises.

### Fairness

`PushTrigger`: a webhook that was sent is delivered and handled (it is acknowledged
first and the handler is a background task), a task that is ready runs (one event loop,
no priorities), and a command ends (every call has a timeout). Nobody has to push.
`ModelCalls`: a coroutine that is ready runs, and a call is answered or times out
(`ai_timeout`). `Service`: each request goes on (`WF` on `Work(r)`): calls to the model and to
the service are answered or time out, and the event loop runs what is ready. Nobody has to
comment, push or write, no event has to be delivered, and the polling loop need not go on;
`EveryRequestEnds` is about requests that were received. The other modules state safety only.

## 4. Proofs

`PushTriggerProofs` proves for every number of pushes, pull requests, workers, accounts
and every set of settings, from the assumptions of `PushTrigger` alone
(`PushTriggerAssumption`: there are pull requests, workers and senders):

* `TypeCorrectness`, `Spec => []TypeOK`;
* `CounterCorrectness`, `Spec => []CounterMatchesTasks`;
* `DelegationCorrectness`, `Spec => []DiscardedPushIsDelegated`;
* `Implements`, `Spec => ImplementsDelegate`, the refinement of `PushDelegate`.

The inductive invariant is `IInv`. `CounterMatchesTasks` speaks of cardinalities and is
not convenient to carry through the steps, so `IInv` has `Slots` in its place: a counter
of 0 means no task inside, 1 means exactly one past the wait and none waiting, 2 one of
each. The cardinalities follow. `HeadIsLast` says that no webhook and no attempt names a
commit beyond the head (and no head runs ahead of the webhooks still to be sent), so that
an attempt, which reads the head, covers every webhook sent before it.
With `Slots`, a discard under the backlog setting (counter 2) finds a waiting task, and
the waiting task can only leave `Pending` by an attempt at the head or by being told to
skip: that is `DiscardedPushIsDelegated`. `Slots` speaks of one worker and one pull request
at a time: three lemmas say what the two admissions and a departure do to the tasks they
are about, and one that a step leaves all other pairs as they were.

`ModelCallsProofs` proves, for every number of commands, models, chunks and retries, from
`ModelCallsAssumption` (at least one command, model and try):

* `CallsTypeCorrectness`, `Spec => []TypeOK`;
* `WholeCorrectness`, `Spec => []AnswerIsWhole`;
* `RaisedCorrectness`, `Spec => []RaisedAfterEveryModel`;
* `OneCallCorrectness`, `Spec => []OneCallAtATime`;
* `PairedCorrectness`, `Spec => []SequentialCallsArePaired`.

None is inductive alone. `Order` adds that no coroutine exists for an attempt that has not
begun and no outcome for a command that has not ended, so that what begins is new and
what is answered stays so; `Tried` that the models before the current one failed, and a
failure stays; `Single` that without `parallel_calls` the one call out belongs to the
running attempt, whose other chunks are answered or still to come; `Paired` that before any
command fell back, the settings name the deployment of the model that is tried. One lemma each is
about the end of a command, a fallback and the start of coroutines, which several actions
share, and one about each action.

`InlineSuggestionsProofs` proves, for every number of suggestions and every set of lines,
hunks and faults, from `InlineSuggestionsAssumption` (they are natural numbers):

* `MovedCorrectness`, `Spec => []MovedIsAccepted`: the cut of a range to a hunk is inside
  that hunk or empty (`CutInside`), also when the size of the hunk is misread;
* `PendingCorrectness`, `Spec => []NoPendingReview`, which is inductive;
* `PostedOnceCorrectness`, `Spec => []PostedOnce`: the invariant adds that the calls still
  to be made work on disjoint sets (`SetsOK`) of which nothing is published (`Fresh`);
* `SuggestionsTypeCorrectness`, `Spec => []TypeOK`: the bound of two on what is published
  needs `Counts`, that what a call may still publish was published once at most;
* `AcceptedCorrectness`, `Spec => []AcceptedIsPosted`, and `RejectedCorrectness`,
  `Spec => []RejectedIsShown`, from `Reliable`, which holds without faults: there is one call
  for all suggestions (`OneCall`), which publishes nothing before the group (`Waiting`); the
  verification sorts the comments by what the server accepts (`Sorted`); after the group the
  accepted ones stand and the others are shown on their first line or still to be (`Given`).

`ImproveCommentsProofs` proves, for every number of runs and processes, every history length
and every set of faults, from `ImproveCommentsAssumption`:

* `CommentsTypeCorrectness`, `Spec => []TypeOK`;
* `ProgressCorrectness`, `Spec => []ProgressCleared`: no write turns a comment that is there
  into a progress comment (`Fewer`), and a run ends with a write to its own;
* `HistoryCorrectness`, `Spec => []HistoryInOrder`;
* `PersistentCorrectness`, `Spec => []OneCommentShowsTheLast`;
* `VanishCorrectness`, `Spec => []NoTableVanishes`.

The length of a history rests on `Short`: while every run has a table, an entry is found or
has a tick (`Marked`), so that a full history is cut by an entry, or by none when all have a
tick (`Full`; `ShortenedPrefix` says where it is cut in general). That survives the steps in
which a run learns its outcome, as no comment shows a table before (`FullStays`). The order rests on `Ordered`: in one process one run publishes at a
time; until it has written, no comment shows its table, nor does any it has listed, and
afterwards other tables are only below its own, so that publishing it puts it above all
others (`SortedAppend`). What was listed stays in order because nobody else publishes
between the list and the write. `StepWrites` and `StepRest` say once what a step may write.
One comment shows the last tables because one comment stands (`OneStands`): another comment
with suggestions is about to be removed by the run that replaced it. A run owns its progress
comment (`Own`), so nobody else's write is in its way; it finds the standing comment as it is
(`ScanFinds`), and its own then shows one table more (`ShowsOneMore`), or that table and fewer
of the others; `Kept` says how many of the tables may be shown, and `KeptMore` that adding one
keeps to it.

That no table vanishes rests on `Covered`: each table that was published is shown, or is
older than all in a full history (`Covers`), by a comment that is safe, one that no run
writes to before it finds it; `Filled` says what a full history is where ticks count. A run that replaces that comment puts what it showed into a
comment that is safe in turn (`CoversOnTop`, `SafeNew`), because the comment it writes to is
still its own and what it found is still what it listed (`Mine`). The order that
`CoversOnTop` needs comes from `Ordered` in one process and from `Gathered` in several, where
without lost answers a table is published in the step that writes it.

`PromptPackingProofs` proves, for every number of files, every size, prompt and limit, from
`PromptPackingAssumption` (sizes and thresholds are natural numbers, the hard threshold is
not above the soft one, and at least one call is allowed):

* `TypeCorrectness`, `Spec => []TypeOK`;
* `CallsCorrectness`, `Spec => []CallsBounded`;
* `LeftoverCorrectness`, `Spec => []LeftoverTooLarge`;
* `BudgetCorrectness`, `ShortHeader => (Spec => []BudgetKept)`, where `ShortHeader` says that
  a header has at most `Soft - Hard + Excess + 2` tokens (502 in the code without an excess, as
  its thresholds are constants: 1500 and 1000; a header is a file name and a few words);
* `AccountCorrectness`, `Spec => []EveryFileAccountedFor`.

`Shape` says of each loop what it may rely on: while the files are extended there is one
prompt, with every patch so far (`Extending`); a pass divides the files left to it into
packed and skipped ones, none of which is in a finished prompt (`Packing`); the prompts of
`get_pr_multi_diffs` hold different files before the current one, and one more may be closed
(`Gathering`); the lists go below the only prompt (`Listing`). On it rest `Leftovers` (a pass
that packs nothing has counted from the prompt alone, so all it skips is too large, and so
is what later passes start from), `Limited` (each count against the limit of its loop, with
`ClippedCost` for the lists, of which the second is clipped to what the first left) and
`Accounted` (where each file is while a loop runs: of several prompts, each file before the
current one is packed, in the prompt being filled, or too large; the hard stop is never met).

`ServiceProofs` proves for every set of deployments (any servers, files, commands and
events), from `SettingsAssumption` (keys and pull requests are what they are said to be):

* `Isolation`, `Spec => []SettingsIsolated`;
* `PrecedenceCorrectness`, `Spec => OptionsPrecedence`, an action property.

For isolation, the invariant `Apart` says of every store, with or without an event, that it holds values
of `Sources(r)` only. The argument follows the layers: a layer of an allowed value keeps that
(`LayerKeeps`), hence so do the files and the environment (`ApplyKeeps`, for whatever
repository the call names, and each server names that of its event), hence each server
(`HandledOwn`, one lemma per handler) and the agent (`RunOwn`). Of the tools only the
extraction of tickets writes settings (`ToolStep`). `StoreStep` is where copying matters:
the store that a request writes is its own. Servers give a command of a comment a
`FreshStore`, where the environment is still on top (`ApplyFresh`, `Outcome`).

For precedence: a command starts by `NextCommand` only (`MadeByCommand`), and the agent merges the file, puts
the environment back and sets the options (`AgentLayers`, `RunLayers`). It puts the
environment back only where it finds a file, so the property needs to know what the store
held before. That is the invariant `Once`: a comment starts one command, and its store is
fresh until then; where there is no context (the action) no file is remembered; mosaico
starts nothing by itself. `ToolMoves` says what all tools have in common: none adds commands.

`ToolsProofs` proves the rest of `Service`, for every set of deployments, every number of
requests, commits, edits and polled comments, from the assumptions of the modules it
extends: that deployments are what they are said to be and have at most `NumRequests` events
(`SettingsAssumption`), that a pull request has a commit and authors do not write the
headings of a generated description themselves (`PullRequestAssumption`), and that the
limits of the polling loop are numbers (`PollingAssumption`):

* `TypesCorrectness`, `Spec => []ServiceTypeOK`;
* `UserWorkCorrectness`, `Spec => []UserWorkKept`;
* `ReviewCorrectness`, `Spec => []ReviewMissesNothing`;
* `ProgressCorrectness`, `Spec => []ProgressCleared`;
* `MosaicoCorrectness`, `Spec => MosaicoIsQuiet`, an action property;
* `PollingCorrectness`, `Spec => []CommentStartedOnce`.

It goes in four layers. *Servers and agent*: an outcome of each of the eleven front ends lies
over any set of stores that is closed under what the server may write (`Closed`, `Serves`,
`HandledIn`, `RunIn`); the set of all stores gives the types, that of the stores which
publish (`Loud`) is needed for progress comments. *Operators*: what `Find` finds is unique
(`FindIs`, from the least element of a set of numbers), so that `GetUserDescription` of what
`PreparePrAnswer` makes of a text is that text (`AnswerReadBack`), and with marks all of it
but the marks (`MarkersReadBack`). *Steps*: one lemma per step of a tool says what it writes,
and `NextIs` puts every step of the system into one of six shapes, in terms of the request
`x` and the pull request `h` it leaves: a request rests (`Rests`), a tool is created (`Makes`),
asks (`Consults`) or ends (`Ends`), people do something (`Meanwhile`), or nothing of it changes.
*Invariants*, each carried over these shapes on top of the inductive type invariant `Typed`,
which adds to the types that only requests with an event run, that a request between two
commands has commands left, and that a tool is there exactly while one is at work:

* `UserKept`: the description reads back as the author's text, and so does what any tool at
  work holds of it, unless somebody wrote meanwhile; likewise a user's label and the labels
  a tool has read. Without the second half a description that is about to be written could
  be anything.
* `AllSeen`: a commit that was authored before the last review comment, and all before it,
  were reviewed (`Seen`), and what a request has kept of the files, or its command has found
  to be new or has read, leaves out no other commit but merges of the default branch
  (`Covers`, `Sees`), unless one came in while a request was under way.
* `Accounted`: a progress comment that was not refused its deletion (`Pending`) belongs to a
  command that publishes and is at work (`Working`), or to one that ended badly (`Over`). A command that publishes goes on doing
  so, as nobody else writes its settings, or nobody turns publishing off (`LoudStays`).
* `Quiet`: a task of mosaico has one command, which brings the option that turns publishing
  off (`TaskIs`), and once its tool exists the settings say so (`TaskRuns`).
* `Charged`: every start of a comment, done or still queued, is charged to a comment that
  was handled and to no other start: `handled` grows by one comment per entry of the queue.

Stating these led to changes in what was checked: `ReviewMissesNothing` was about the first
command only, and `UserWorkKept` said nothing of marks; both now say what the invariant does.
`ProgressCleared` turned out to be false where another request of a shared store turns
publishing off, and names that condition.

`PatchHunksProofs` proves for scripts of every length, every number of context lines, and all
settings and questions, from `PatchHunksAssumption` (the bounds and settings are natural
numbers and git shows some context):

* `PatchTypes`, `Spec => []TypeOK`;
* `ExtensionCorrectness`, `Spec => []ExtendedIsFaithful`;
* `NumbersCorrectness`, `Spec => []AdditionsAreNumbered`;
* `SelectionCorrectness`, `Spec => []SelectedIsAsked`.

There is no induction over the lines: lines are counted. A file is the lines of the script
with some tags, in their order (`InOrder`), and `Among(S, a, b)`, how many members of `S` lie
between two lines, says at which place of it a line is (`InOrderIs`, `KeptIs`). From
`AmongSplit`, that counts over neighbouring ranges add up, it follows that a hunk header says
where its lines are (`GivenIsAt`), that no line is in two hunks (`HunksAreApart`), and where the lines of a hunk come to stand that got others in front and
behind (`InFrontOfPadded`). For an extension, `LimitsFit` and
`WantedFits` say that it begins neither before the files nor behind the hunk, `AlignedFits`
that what is left of it after the comparison is as long in both files, with the same lines,
and `BehindIsAt` that the lines behind are in both files too.

`IInv` has four parts: the files belong to the script (`FilesOK`); types; `Kin`, that the
hunks of a patch keep the numbers of their lines in the new file and that those which add
lines are all there; and `Stages`, that while hunks are extended those before the next one
are `Grown` and the others as git gave them. `Grown` says that a hunk is the given one with
lines in front and behind, and, where the condition of `ExtendedIsFaithful` holds, that these
are in both files at the lines its header names. `AdditionsAreNumbered` rests on `Kin` alone,
which holds of every extension: also where the old file that was read does not match, or a
size is left out, the lines in front are counted in the header of the new file.

Only model-checked:

* `EveryTakenPushIsAttempted`, `EveryCallEnds` and `EveryRequestEnds`: liveness under fairness.

## 5. Disagreements met while modelling

Each is a run of its own and a finding in `PROJECT.json`: a push discarded in favour of
a delegate that is told to skip; deleted files that are never listed; a second persistent
comment after a run without suggestions; suggestions on a hunk of one line that are
dropped; models called under another model's deployment.

## 6. What is left

No invariant or action property that a run checks is without a theorem.

Not modelled:

* `/similar_issue`, which keeps an index in a vector database; the questions `/review` puts
  to the author and `/answer`; the split of a large `/describe` over several prompts;
* the parsing and repair of answers (`load_yaml`), the file filters, the conversion of
  diffs of mosaico: functions on text; where they fail is an outcome of a tool's step;
* the expiry of `DefaultDictWithTimeout`: its refresh deletes entries only within a minute
  of the refresh before, so that what remains is memory, not behaviour;
* what the adapters to other hosting services and to AI clients do beyond the differences
  that `Tools` and `PullRequest` name; the text of prompts, comments and help; token
  counting, which is a library; identity and secret providers, which are lookups.
