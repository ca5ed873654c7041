---------------------------- MODULE PushTrigger ----------------------------
(***************************************************************************)
(* The push trigger of the GitHub app (garda/servers/github_app.py): what  *)
(* happens to the "synchronize" webhooks GitHub sends when commits are     *)
(* pushed to a pull request.                                               *)
(*                                                                         *)
(* Every webhook is handled by one asyncio task of one gunicorn worker.    *)
(* Each worker process has its own counter of active tasks per pull        *)
(* request (_duplicate_push_triggers) and its own condition variable per   *)
(* pull request (_pending_task_duplicate_push_conditions).  The code       *)
(* between two awaits is one step.  The lock of the condition is never     *)
(* held across an await other than wait() itself, so taking it never       *)
(* suspends and it is not a step of its own.                               *)
(***************************************************************************)
EXTENDS Naturals, FiniteSets

CONSTANTS NumEvents,       \* how many webhooks GitHub sends, at most
          PRs,             \* pull requests
          Workers,         \* worker processes of the server
          Senders,         \* accounts that push
          IgnoredSenders,  \* those the repository's settings tell to ignore
          BacklogSettings  \* values push_trigger_pending_tasks_backlog may have

ASSUME PushTriggerAssumption ==
    /\ NumEvents \in Nat
    /\ PRs # {} /\ Workers # {} /\ Senders # {}
    /\ IgnoredSenders \subseteq Senders
    /\ BacklogSettings \subseteq BOOLEAN

VARIABLES head,      \* head[p]: number of commits pushed to p
          ev,        \* ev[e]: what webhook e carries, and how it was handled
          pc,        \* pc[e]: where the task that handles e stands
          active,    \* active[w][p]: _duplicate_push_triggers of worker w
          attempted  \* attempted[p]: last commit whose processing was begun

vars == <<head, ev, pc, active, attempted>>

\* The webhooks, in the order GitHub creates them.
Events == 1..NumEvents

PCs == {"unsent", "sent", "filtered", "discarded", "waiting", "notified",
        "processing", "skipped", "done"}

Event == [pr : PRs, ver : Nat, sender : Senders, void : BOOLEAN,
          worker : Workers, backlog : BOOLEAN]

TypeOK ==
    /\ head \in [PRs -> Nat]
    /\ ev \in [Events -> Event]
    /\ pc \in [Events -> PCs]
    /\ active \in [Workers -> [PRs -> 0..2]]
    /\ attempted \in [PRs -> Nat]

-----------------------------------------------------------------------------

\* Tasks of worker w that handle a push to p and stand at one of the places S.
TasksAt(w, p, S) ==
    {e \in Events : ev[e].worker = w /\ ev[e].pr = p /\ pc[e] \in S}

\* Blocked in wait() of the condition of (w, p).
Waiters(w, p) == TasksAt(w, p, {"waiting"})

\* Past the wait, or never in it, and still to reach the finally block.
Holders(w, p) == TasksAt(w, p, {"notified", "processing"})

\* Tasks whose processing, and so whose look at the head, is still to come.
Pending(w, p) == TasksAt(w, p, {"waiting", "notified"})

\* Faulty variants: a third task let in, and the backlog never used.
MaxActiveTasksOffByOne(backlog) == IF backlog THEN 3 ELSE 1
MaxActiveTasksNoBacklog(backlog) == 1

\* max_active_tasks
MaxActiveTasks(backlog) == IF backlog THEN 2 ELSE 1

-----------------------------------------------------------------------------

\* A webhook not sent yet; Push and Deliver fill it in.
Blank == [pr |-> CHOOSE p \in PRs : TRUE, ver |-> 0,
          sender |-> CHOOSE s \in Senders : TRUE, void |-> FALSE,
          worker |-> CHOOSE w \in Workers : TRUE, backlog |-> FALSE]

Init ==
    /\ head = [p \in PRs |-> 0]
    /\ ev = [e \in Events |-> Blank]
    /\ pc = [e \in Events |-> "unsent"]
    /\ active = [w \in Workers |-> [p \in PRs |-> 0]]
    /\ attempted = [p \in PRs |-> 0]

\* GitHub: sender s pushes a commit to p, and webhook e is sent.  A void
\* webhook is one the handler returns from before it counts: a draft or closed
\* pull request, created_at = updated_at, equal before and after, a merge
\* commit, or handle_push_trigger off.
Push(e, p, s, v) ==
    /\ pc[e] = "unsent"
    /\ \A f \in Events : f < e => pc[f] # "unsent"
    /\ head' = [head EXCEPT ![p] = @ + 1]
    /\ ev' = [ev EXCEPT ![e] = [@ EXCEPT !.pr = p, !.ver = head[p] + 1,
                                         !.sender = s, !.void = v]]
    /\ pc' = [pc EXCEPT ![e] = "sent"]
    /\ UNCHANGED <<active, attempted>>

\* The early returns of the handler, before the counter is read.
Filter(e, w) ==
    /\ pc[e] = "sent"
    /\ ev[e].void
    /\ ev' = [ev EXCEPT ![e] = [@ EXCEPT !.worker = w]]
    /\ pc' = [pc EXCEPT ![e] = "filtered"]
    /\ UNCHANGED <<head, active, attempted>>

\* should_process_pr_logic, with the repository's settings applied, lets the
\* sender of this webhook through.
Eligible(e) == ev[e].sender \notin IgnoredSenders

\* Faulty variant: the commands look at the commit the webhook names.
BeginAtOwnCommit(e) ==
    /\ pc' = [pc EXCEPT ![e] = "processing"]
    /\ attempted' = [attempted EXCEPT ![ev[e].pr] = ev[e].ver]

\* _perform_auto_commands_github up to its first await: the first command reads
\* the pull request as it is now.
Begin(e) ==
    /\ pc' = [pc EXCEPT ![e] = "processing"]
    /\ attempted' = [attempted EXCEPT ![ev[e].pr] = head[ev[e].pr]]

\* current_active_tasks = 0: the task is counted, does not wait and starts at
\* once.  If its commands are not to run it has left again by its first await.
AdmitFirst(e, w, b) ==
    LET p == ev[e].pr IN
    /\ pc[e] = "sent"
    /\ ~ev[e].void
    /\ active[w][p] = 0
    /\ ev' = [ev EXCEPT ![e] = [@ EXCEPT !.worker = w, !.backlog = b]]
    /\ IF Eligible(e)
       THEN /\ active' = [active EXCEPT ![w][p] = 1]
            /\ Begin(e)
       ELSE /\ pc' = [pc EXCEPT ![e] = "skipped"]
            /\ UNCHANGED <<active, attempted>>
    /\ UNCHANGED head

\* 0 < current_active_tasks < max_active_tasks: counted, and waits.
AdmitSecond(e, w, b) ==
    LET p == ev[e].pr IN
    /\ pc[e] = "sent"
    /\ ~ev[e].void
    /\ active[w][p] # 0
    /\ active[w][p] < MaxActiveTasks(b)
    /\ active' = [active EXCEPT ![w][p] = @ + 1]
    /\ ev' = [ev EXCEPT ![e] = [@ EXCEPT !.worker = w, !.backlog = b]]
    /\ pc' = [pc EXCEPT ![e] = "waiting"]
    /\ UNCHANGED <<head, attempted>>

\* The else branch: the event is dropped, the active tasks stand in for it.
Discard(e, w, b) ==
    /\ pc[e] = "sent"
    /\ ~ev[e].void
    /\ ~(active[w][ev[e].pr] < MaxActiveTasks(b))
    /\ ev' = [ev EXCEPT ![e] = [@ EXCEPT !.worker = w, !.backlog = b]]
    /\ pc' = [pc EXCEPT ![e] = "discarded"]
    /\ UNCHANGED <<head, active, attempted>>

\* Faulty variant: the finally block forgets notify(1).
LeaveSilently(e, final) ==
    /\ active' = [active EXCEPT ![ev[e].worker][ev[e].pr] = @ - 1]
    /\ pc' = [pc EXCEPT ![e] = final]

\* The finally block: notify(1), which wakes one waiter if there is one, and
\* the decrement; e itself goes to final.
Leave(e, final) ==
    LET w == ev[e].worker
        p == ev[e].pr
    IN  /\ active' = [active EXCEPT ![w][p] = @ - 1]
        /\ \/ /\ Waiters(w, p) = {}
              /\ pc' = [pc EXCEPT ![e] = final]
           \/ \E t \in Waiters(w, p) :
                 pc' = [pc EXCEPT ![e] = final, ![t] = "notified"]

\* A notified waiter takes the lock again, returns from wait() and starts.
Resume(e) ==
    /\ pc[e] = "notified"
    /\ IF Eligible(e)
       THEN /\ Begin(e)
            /\ UNCHANGED active
       ELSE /\ Leave(e, "skipped")
            /\ UNCHANGED attempted
    /\ UNCHANGED <<head, ev>>

\* The push commands have all run, or one raised: the finally block either way.
Finish(e) ==
    /\ pc[e] = "processing"
    /\ Leave(e, "done")
    /\ UNCHANGED <<head, ev, attempted>>

\* GitHub delivers webhook e to some worker, which runs the handler up to its
\* first await.  Webhooks may arrive in any order.
Deliver(e) ==
    \E w \in Workers :
        \/ Filter(e, w)
        \/ \E b \in BacklogSettings : AdmitFirst(e, w, b) \/ AdmitSecond(e, w, b) \/ Discard(e, w, b)

\* One step of the event loop on behalf of a task that is ready to run.
Task(e) == Resume(e) \/ Finish(e)

Next ==
    \E e \in Events :
        \/ \E p \in PRs, s \in Senders, v \in BOOLEAN : Push(e, p, s, v)
        \/ Deliver(e)
        \/ Task(e)

Spec == Init /\ [][Next]_vars

\* GitHub retries nothing the server acknowledged, and it acknowledges before it
\* handles, so a sent webhook is handled; the event loop runs a ready task; a
\* command ends because every call to the model and to GitHub has a timeout.
\* Nobody has to push.
FairSpec == Spec /\ \A e \in Events : WF_vars(Deliver(e)) /\ WF_vars(Task(e))

-----------------------------------------------------------------------------
(* Safety *)

\* The counter and the condition agree with the tasks that exist: within one
\* worker at most one task is past the wait and at most one waits, one waits
\* only behind another, and the counter says exactly which of the three it is.
CounterMatchesTasks ==
    \A w \in Workers, p \in PRs :
        /\ active[w][p] = Cardinality(Holders(w, p)) + Cardinality(Waiters(w, p))
        /\ Cardinality(Holders(w, p)) <= 1
        /\ Cardinality(Waiters(w, p)) <= Cardinality(Holders(w, p))

\* "Any more events will be discarded, because they will all trigger the exact
\* same processing": an event discarded under the backlog setting is covered by
\* an attempt that saw its commit, or by a delegate on the same worker whose
\* look at the head is still to come -- unless that delegate was told to skip.
DiscardedPushIsDelegated ==
    \A e \in Events :
        pc[e] = "discarded" /\ ev[e].backlog =>
            \/ attempted[ev[e].pr] >= ev[e].ver
            \/ Pending(ev[e].worker, ev[e].pr) # {}
            \/ TasksAt(ev[e].worker, ev[e].pr, {"skipped"}) # {}

\* The same without the escape: what the comment in the handler says.  A webhook
\* from an ignored account may be the waiting delegate, and then the discarded
\* webhook of another account is processed by nobody.
DiscardedPushIsProcessed ==
    \A e \in Events :
        pc[e] = "discarded" /\ ev[e].backlog /\ ev[e].sender \notin IgnoredSenders =>
            \/ attempted[ev[e].pr] >= ev[e].ver
            \/ Pending(ev[e].worker, ev[e].pr) # {}

-----------------------------------------------------------------------------
(* What the trigger promises, see PushDelegate. *)

\* Webhooks the handler took on: admitted, or discarded in favour of a delegate.
TakenOn(e) ==
    \/ pc[e] \in {"waiting", "notified", "processing", "skipped", "done"}
    \/ pc[e] = "discarded" /\ ev[e].backlog

Delegate == INSTANCE PushDelegate WITH
    Versions <- Events,
    taken <- [p \in PRs |->
                {ev[e].ver : e \in {f \in Events : TakenOn(f) /\ ev[f].pr = p}}]

\* Every step of the trigger is a step of PushDelegate or changes nothing there.
ImplementsDelegate == Delegate!Spec

\* With the fairness above, every push taken on is eventually seen by an attempt,
\* unless a webhook of an ignored account was told to skip.
EveryTakenPushIsAttempted == Delegate!Service \/ <>(\E e \in Events : pc[e] = "skipped")

=============================================================================
