------------------------------ MODULE Polling ------------------------------
(***************************************************************************)
(* The server that polls GitHub for mentions of its user                   *)
(* (garda/servers/github_polling.py).  A request is a comment; the service *)
(* has one notification per pull request, which names the latest comment.  *)
(***************************************************************************)
EXTENDS RequestSettings, SequencesExt

CONSTANTS MaxScan,      \* how many earlier comments are searched: 4
          MaxParallel   \* the limit of parallel tasks: 10

VARIABLE poll           \* written: the comments, in order; unread: pull
                        \* requests with a notification; batch: the latest
                        \* comments of the notifications being handled;
                        \* queue: comments to start; handled; started: how
                        \* often each was

ASSUME PollingAssumption == MaxScan \in Nat /\ MaxParallel \in Nat

PollTypeOK ==
    poll \in [written : Seq(Requests), unread : SUBSET PRs, batch : SUBSET Requests,
              queue : Seq(Requests), handled : SUBSET Requests,
              started : [Requests -> Nat]]

InitPoll == poll = [written |-> <<>>, unread |-> {}, batch |-> {}, queue |-> <<>>,
                    handled |-> {}, started |-> [r \in Requests |-> 0]]

OnPr(r) == conf.events[r].pr

\* A comment that the search accepts: of somebody else, and with a mention.
Asks(r) == "mention" \in conf.events[r].facts /\ "own" \notin conf.events[r].facts

\* The comments of p, as their places among all; the last of some of them.
Comments(p) == {i \in DOMAIN poll.written : OnPr(poll.written[i]) = p}
LastOf(S) == {poll.written[i] : i \in {j \in S : \A k \in S : k <= j}}

-----------------------------------------------------------------------------

\* Somebody comments.  Who was mentioned once is told of every later comment,
\* but not of one's own.
WriteComment(r) ==
    /\ conf.server = "polling" /\ r \in DOMAIN conf.events
    /\ r \notin ToSet(poll.written)
    /\ poll' = [poll EXCEPT
          !.written = Append(@, r),
          !.unread = IF /\ "own" \notin conf.events[r].facts
                        /\ \/ Asks(r)
                           \/ \E i \in Comments(OnPr(r)) : Asks(poll.written[i])
                     THEN @ \cup {OnPr(r)} ELSE @]

\* polling_loop: a batch of notifications is fetched.
FetchNotifications ==
    /\ poll.batch = {} /\ poll.queue = <<>> /\ poll.unread # {}
    /\ poll' = [poll EXCEPT !.batch = UNION {LastOf(Comments(p)) : p \in poll.unread}]

\* mark_notification_as_read, before the notification is looked at: an answer
\* other than 205 is only logged.
MarkNotificationAsRead(p) == {poll.unread, poll.unread \ {p}}

\* Faulty variant: what was handled is forgotten.
IsHandledNever(r) == FALSE

IsHandled(r) == r \in poll.handled

\* The search through the latest comments, newest first, at the time it is
\* made.  What it finds may have been handled.
PreviousComments(p) ==
    LET recent == {i \in Comments(p) : Cardinality({j \in Comments(p) : j > i}) < MaxScan}
    IN LastOf({i \in recent : Asks(poll.written[i])})

\* is_valid_notification: what is handled now and what is to be started.  An
\* error, before or after the comment is noted, skips the notification.
IsValidNotification(r) ==
    {[handled |-> {}, start |-> <<>>]}
    \cup (IF IsHandled(r) THEN {}
          ELSE {[handled |-> {r}, start |-> <<>>]}
               \cup {[handled |-> {r}, start |-> <<q>>]
                       : q \in IF Asks(r) THEN {r} ELSE PreviousComments(OnPr(r))})

\* One round of the loop over the notifications.
HandleNotification ==
    \E r \in poll.batch : \E unread \in MarkNotificationAsRead(OnPr(r)),
                             v \in IsValidNotification(r) :
        poll' = [poll EXCEPT !.batch = @ \ {r}, !.unread = unread,
                             !.handled = @ \cup v.handled, !.queue = @ \o v.start]

\* An exception in the loop, as when marking breaks off: the rest of the batch
\* waits for the next poll, and the queue is lost.
LoseQueue ==
    \E r \in poll.batch : \E unread \in MarkNotificationAsRead(OnPr(r)) :
        poll' = [poll EXCEPT !.batch = {}, !.unread = unread, !.queue = <<>>]

\* The limit is looked at after a task is started, and with >, so that two
\* more are started; the rest is dropped.
StartTasks ==
    /\ poll.batch = {} /\ poll.queue # <<>>
    /\ LET n == IF Len(poll.queue) > MaxParallel + 2 THEN MaxParallel + 2
                ELSE Len(poll.queue)
       IN poll' = [poll EXCEPT
             !.queue = <<>>,
             !.started = [r \in Requests |-> @[r]
                            + Cardinality({i \in 1 .. n : poll.queue[i] = r})]]

Poll == FetchNotifications \/ HandleNotification \/ LoseQueue \/ StartTasks
=============================================================================
