---------------------------- MODULE PullRequest ----------------------------
(***************************************************************************)
(* A pull request on the hosting service, and what the providers and tools *)
(* read from it and make of it: the diff, whole or since the last review   *)
(* (garda/git_providers/github_provider.py), the user's part of the        *)
(* description (garda/git_providers/git_provider.py), the new description  *)
(* (garda/tools/pr_description.py) and the labels.                         *)
(*                                                                         *)
(* A commit is its position; commits[i] is the number of review comments   *)
(* that existed when commit i was authored, so that "authored after review *)
(* comment k was created" is commits[i] >= k; merges are the commits that  *)
(* merge the default branch.  A description is a sequence of headings,     *)
(* rules and pieces of text.                                               *)
(***************************************************************************)
EXTENDS RequestSettings, SequencesExt

CONSTANTS MaxCommits,   \* how many commits a pull request gets, at most
          MaxEdits,     \* how often its author rewrites the description
          UserTexts     \* descriptions the author may write

VARIABLE host           \* host[p]: the pull request as the service has it

Kinds == {"full", "incremental"}

\* The headings of a generated description, and the other pieces.
Headers == {"USER", "TYPE", "DESC"}
Marks == {"mark type", "mark description", "mark files"}
Pieces == Headers \cup Marks \cup {"DIAGRAM", "FILES", "rule", "ai", "mine"}

Labels == {"mine", "type", "effort"}

Host == [commits : Seq(Nat),
         merges : SUBSET Nat,     \* those with the message "Merge branch '<default>'"
         reviews : Seq(Kinds),
         covered : SUBSET Nat,    \* commits that some posted review has seen
         body : Seq(Pieces),
         text : Seq(Pieces),      \* what the author wrote last
         edits : Nat,
         labels : SUBSET Labels,
         labelled : BOOLEAN,      \* whether a user has added a label
         raced : SUBSET {"body", "bare", "label", "commit"},
         log : SUBSET Requests,   \* the entries of the changelog
         progress : SUBSET (Requests \X Nat),
         undeleted : SUBSET (Requests \X Nat),  \* whose deletion was refused
         notice : BOOLEAN]

\* Authors do not write the headings of a generated description themselves.
ASSUME PullRequestAssumption ==
    /\ MaxCommits \in Nat \ {0} /\ MaxEdits \in Nat
    /\ UserTexts \subseteq Seq(Pieces \ Headers)

HostTypeOK ==
    /\ host \in [PRs -> Host]
    /\ \A p \in PRs : Len(host[p].commits) \in 1 .. MaxCommits

\* A new pull request: one commit, and no description yet.
NewPr == [commits |-> <<0>>, merges |-> {}, reviews |-> <<>>, covered |-> {},
          body |-> <<>>, text |-> <<>>, edits |-> 0, labels |-> {}, labelled |-> FALSE,
          raced |-> {}, log |-> {}, progress |-> {}, undeleted |-> {}, notice |-> FALSE]

InitHost == host = [p \in PRs |-> NewPr]

-----------------------------------------------------------------------------
\* Reviewing what is new.

\* get_previous_review: the last comment with a review, as its place among
\* them; 0 when there is none.
GetPreviousReview(h) == Len(h.reviews)

\* Faulty variant: the first new commit is left out.
GetCommitRangeShort(h, base) ==
    {c \in DOMAIN h.commits : \A d \in c - 1 .. Len(h.commits) :
        d > 0 => h.commits[d] >= base}

\* get_commit_range: from the last commit backwards, up to one that was
\* authored before the review comment was created.
GetCommitRange(h, base) ==
    {c \in DOMAIN h.commits : \A d \in c .. Len(h.commits) :
        h.commits[d] >= base}

\* _get_incremental_commits: without an earlier review, the whole pull request
\* is reviewed.  is_incremental, and the commits whose files are put into
\* unreviewed_files_set: all of the range but the merges of the default branch.
GetIncrementalCommits(h, asked) ==
    LET base == GetPreviousReview(h)
    IN IF asked /\ base # 0
       THEN [is |-> TRUE, base |-> base,
             unreviewed |-> GetCommitRange(h, base) \ h.merges]
       ELSE [is |-> FALSE, base |-> 0, unreviewed |-> {}]

\* get_files: what is new, else the list that is kept, else the list of now.  A
\* list is the number of commits it shows; GitHub's is kept.
GetFiles(h, kept, inc) ==
    IF inc.unreviewed # {} THEN [sees |-> inc.unreviewed, list |-> kept.list]
    ELSE LET n == IF kept.list # 0 THEN kept.list ELSE Len(h.commits)
         IN [sees |-> 1 .. n, list |-> IF Provider = "github" THEN n ELSE 0]

\* _get_diff_files: the diff that is kept, whatever was asked for, else that of
\* the files.
GetDiffFiles(h, kept, inc) ==
    LET f == GetFiles(h, kept, inc)
        sees == IF kept.diff # {} THEN kept.diff ELSE f.sees
    IN [sees |-> sees, list |-> f.list, diff |-> sees]

-----------------------------------------------------------------------------
\* The description.

\* The place of the first t in b; behind the end when there is none.
Find(b, t) ==
    CHOOSE i \in 1 .. Len(b) + 1 :
        /\ i = Len(b) + 1 \/ b[i] = t
        /\ \A j \in 1 .. i - 1 : b[j] # t

\* _is_generated_by_garda; _possible_headers does not know the diagram.
IsGeneratedByGarda(b) == b # <<>> /\ b[1] \in Headers

\* endswith("___")
WithoutRule(b) ==
    IF b # <<>> /\ Last(b) = "rule" THEN Front(b) ELSE b

\* Faulty variant: the rule that the tool added is taken for the user's.
GetUserDescriptionWithRule(b) ==
    IF ~IsGeneratedByGarda(b) THEN b
    ELSE LET start == Find(b, "USER")
             next == Find(b, "TYPE")
         IN SubSeq(b, start + 1, next - 1)

\* get_user_description
GetUserDescription(b) ==
    LET start == Find(b, "USER")
        stop == IF Find(b, "TYPE") < Find(b, "DESC")
                THEN Find(b, "TYPE") ELSE Find(b, "DESC")
        head == SubSeq(b, 1, Find(b, "rule") - 1)
    IN IF ~IsGeneratedByGarda(b) THEN b
       ELSE IF start > Len(b) THEN <<>>
       ELSE IF stop <= Len(b) /\ stop > start
            THEN WithoutRule(SubSeq(b, start + 1, stop - 1))
       ELSE IF head # <<>> /\ head[1] = "USER" THEN Tail(head) ELSE head

\* _prepare_data: the keys that the description is made of.  The user's text
\* comes first, then what the model wrote: type, description, diagram, files.
PrepareData(text, answer) ==
    (IF text # <<>> THEN {"user"} ELSE {})
    \cup (IF "no_type" \in conf.flags THEN answer \ {"type"} ELSE answer)

\* The section of key k, if it is there: a rule follows it as long as one of the
\* later keys is there.
Section(keys, k, heading, written, later) ==
    IF k \in keys
    THEN <<heading>> \o written \o (IF keys \cap later # {} THEN <<"rule">> ELSE <<>>)
    ELSE <<>>

\* _prepare_pr_answer, and the table of files that run appends.  No rule follows
\* the diagram.
PreparePrAnswer(text, answer) ==
    LET keys == PrepareData(text, answer)
    IN Section(keys, "user", "USER", text, {"type", "description", "diagram", "files"})
       \o Section(keys, "type", "TYPE", <<"ai">>, {"description", "diagram", "files"})
       \o Section(keys, "description", "DESC", <<"ai">>, {"diagram", "files"})
       \o Section(keys, "diagram", "DIAGRAM", <<"ai">>, {})
       \o (IF "files" \in answer THEN <<"FILES", "rule">> ELSE <<"rule">>)

\* _prepare_pr_answer_with_markers: each mark whose part the model wrote is
\* replaced.
PreparePrAnswerWithMarkers(text, answer) ==
    [i \in DOMAIN text |->
        CASE text[i] = "mark type" /\ "type" \in answer -> "ai"
          [] text[i] = "mark description" /\ "description" \in answer -> "ai"
          [] text[i] = "mark files" /\ "files" \in answer -> "FILES"
          [] OTHER -> text[i]]

-----------------------------------------------------------------------------
\* Labels.

SupportsLabels == Provider \notin {"bitbucket", "bitbucket_server", "gerrit"}

\* get_pr_labels: GitHub and Gitea ask the service again when told to, Azure
\* always; GitLab has the labels it read when the provider was created.
GetPrLabels(h, old, update) ==
    IF Provider = "azure" \/ (update /\ Provider # "gitlab") THEN h.labels ELSE old

\* publish_labels: Azure and Gitea only add labels.
PublishLabels(h, labels) ==
    [h EXCEPT !.labels = IF Provider \in {"azure", "gitea"} THEN @ \cup labels ELSE labels]

\* Faulty variant: nothing is the user's.
GetUserLabelsNone(labels) == {}

\* get_user_labels
GetUserLabels(labels) == labels \ {"type"}
=============================================================================
