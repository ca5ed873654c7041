------------------------- MODULE PushTriggerProofs -------------------------
(***************************************************************************)
(* Proofs about PushTrigger, for every number of webhooks, pull requests,  *)
(* workers and senders.  The inductive invariant speaks of the tasks of a  *)
(* (worker, pull request) pair without counting them; the counting form    *)
(* that the model checker checks follows from it at the end.               *)
(***************************************************************************)
EXTENDS PushTrigger, FiniteSetTheorems, TLAPS

\* At most one task past the wait, at most one waiting, and that one behind the
\* other; the counter tells the three situations apart.
Slots ==
    \A w \in Workers, p \in PRs :
        /\ \A e, f \in Holders(w, p) : e = f
        /\ \A e, f \in Waiters(w, p) : e = f
        /\ Waiters(w, p) # {} => Holders(w, p) # {}
        /\ Holders(w, p) = {} => active[w][p] = 0
        /\ Holders(w, p) # {} /\ Waiters(w, p) = {} => active[w][p] = 1
        /\ Waiters(w, p) # {} => active[w][p] = 2

\* Webhooks are sent in order, so no commit count passes the webhook's number,
\* and no webhook or attempt is ahead of the head.
HeadIsLast ==
    /\ \A e \in Events, p \in PRs : pc[e] = "unsent" => head[p] < e
    /\ \A e \in Events : pc[e] # "unsent" => ev[e].ver \in Events /\ ev[e].ver <= head[ev[e].pr]
    /\ \A p \in PRs : attempted[p] <= head[p]

IInv == TypeOK /\ Slots /\ HeadIsLast /\ DiscardedPushIsDelegated

-----------------------------------------------------------------------------

\* Init gives every variable a value of its type: Blank is a webhook because
\* there is some pull request, worker and sender.
LEMMA BlankType == Blank \in Event
  BY PushTriggerAssumption DEF Blank, Event

\* Every action keeps the type of every variable.  The counter stays within
\* 0..2 on the way down because a task that leaves was counted (Slots).
LEMMA TypeCorrect == TypeOK /\ Slots /\ [Next]_vars => TypeOK'
<1> SUFFICES ASSUME TypeOK, Slots, [Next]_vars PROVE TypeOK'
  OBVIOUS
<1> USE PushTriggerAssumption
<1>1. ASSUME NEW e \in Events, NEW p \in PRs, NEW s \in Senders, NEW v \in BOOLEAN,
             Push(e, p, s, v)
      PROVE  TypeOK'
  <2>1. head' \in [PRs -> Nat] /\ head[p] + 1 \in Nat
    BY <1>1 DEF Push, TypeOK
  <2>2. ev[e] \in Event
    BY DEF TypeOK
  <2>3. [ev[e] EXCEPT !.pr = p, !.ver = head[p] + 1, !.sender = s, !.void = v] \in Event
    BY <2>1, <2>2 DEF Event
  <2>4. ev' \in [Events -> Event]
    BY <1>1, <2>3 DEF Push, TypeOK
  <2> QED
    BY <1>1, <2>1, <2>4 DEF Push, TypeOK, PCs
<1>2. ASSUME NEW e \in Events, NEW w \in Workers, Filter(e, w)
      PROVE  TypeOK'
  BY <1>2 DEF Filter, Event, PCs, TypeOK
<1>3. ASSUME NEW e \in Events, NEW w \in Workers, NEW b \in BacklogSettings,
             AdmitFirst(e, w, b)
      PROVE  TypeOK'
  <2>1. ev[e] \in Event /\ ev[e].pr \in PRs /\ b \in BOOLEAN
    BY DEF TypeOK, Event
  <2>2. [ev[e] EXCEPT !.worker = w, !.backlog = b] \in Event
    BY <2>1 DEF Event
  <2>3. ev' \in [Events -> Event] /\ head' \in [PRs -> Nat]
    BY <1>3, <2>2 DEF AdmitFirst, TypeOK
  <2>4. CASE Eligible(e)
    <3>1. active' \in [Workers -> [PRs -> 0..2]]
      BY <1>3, <2>1, <2>4 DEF AdmitFirst, TypeOK
    <3>2. pc' \in [Events -> PCs]
      BY <1>3, <2>4 DEF AdmitFirst, Begin, TypeOK, PCs
    <3>3. attempted' \in [PRs -> Nat]
      BY <1>3, <2>1, <2>4 DEF AdmitFirst, Begin, TypeOK
    <3> QED
      BY <2>3, <3>1, <3>2, <3>3 DEF TypeOK
  <2>5. CASE ~Eligible(e)
    BY <1>3, <2>1, <2>3, <2>5 DEF AdmitFirst, TypeOK, PCs
  <2> QED
    BY <2>4, <2>5
<1>4. ASSUME NEW e \in Events, NEW w \in Workers, NEW b \in BacklogSettings,
             AdmitSecond(e, w, b)
      PROVE  TypeOK'
  <2>1. ev[e] \in Event /\ ev[e].pr \in PRs /\ b \in BOOLEAN
    BY DEF TypeOK, Event
  <2>2. [ev[e] EXCEPT !.worker = w, !.backlog = b] \in Event
    BY <2>1 DEF Event
  <2>3. ev' \in [Events -> Event] /\ UNCHANGED <<head, attempted>>
    BY <1>4, <2>2 DEF AdmitSecond, TypeOK
  <2>4. active[w][ev[e].pr] \in 0..2 /\ active[w][ev[e].pr] < 2
    BY <1>4, <2>1 DEF AdmitSecond, MaxActiveTasks, TypeOK
  <2>5. active' \in [Workers -> [PRs -> 0..2]]
    BY <1>4, <2>1, <2>4 DEF AdmitSecond, TypeOK
  <2> QED
    BY <1>4, <2>3, <2>5 DEF AdmitSecond, TypeOK, PCs
<1>5. ASSUME NEW e \in Events, NEW w \in Workers, NEW b \in BacklogSettings,
             Discard(e, w, b)
      PROVE  TypeOK'
  BY <1>5 DEF Discard, Event, PCs, TypeOK
<1>6. ASSUME NEW e \in Events, NEW final \in {"done", "skipped"},
             pc[e] \in {"notified", "processing"}, Leave(e, final),
             UNCHANGED <<head, ev, attempted>>
      PROVE  TypeOK'
  <2>1. ev[e].worker \in Workers /\ ev[e].pr \in PRs
    BY DEF TypeOK, Event
  <2>2. e \in Holders(ev[e].worker, ev[e].pr)
    BY <1>6 DEF Holders, TasksAt
  <2>a. \/ active[ev[e].worker][ev[e].pr] = 1
        \/ active[ev[e].worker][ev[e].pr] = 2
    <3>1. Holders(ev[e].worker, ev[e].pr) # {}
      BY <2>2
    <3> QED
      BY <2>1, <3>1 DEF Slots
  <2>3. active[ev[e].worker][ev[e].pr] \in 1..2
    BY <2>a
  <2>4. active' \in [Workers -> [PRs -> 0..2]]
    BY <1>6, <2>1, <2>3 DEF Leave, TypeOK
  <2>5. pc' \in [Events -> PCs]
    BY <1>6 DEF Leave, Waiters, TasksAt, TypeOK, PCs
  <2> QED
    BY <1>6, <2>4, <2>5 DEF TypeOK
<1>7. ASSUME NEW e \in Events, Resume(e)
      PROVE  TypeOK'
  <2>1. CASE Eligible(e)
    BY <1>7, <2>1 DEF Resume, Begin, TypeOK, Event, PCs
  <2>2. CASE ~Eligible(e)
    BY <1>6, <1>7, <2>2 DEF Resume
  <2> QED
    BY <2>1, <2>2
<1>8. ASSUME NEW e \in Events, Finish(e)
      PROVE  TypeOK'
  BY <1>6, <1>8 DEF Finish
<1>9. CASE UNCHANGED vars
  BY <1>9 DEF vars, TypeOK
<1> QED
  BY <1>1, <1>2, <1>3, <1>4, <1>5, <1>7, <1>8, <1>9 DEF Next, Deliver, Task

-----------------------------------------------------------------------------

\* A step that moves only tasks which neither hold a slot nor wait, before or
\* after, leaves the slots alone.
LEMMA SlotsUntouched ==
  ASSUME TypeOK, Slots, UNCHANGED active,
         NEW e \in Events,
         \A f \in Events \ {e} : ev'[f] = ev[f] /\ pc'[f] = pc[f],
         pc[e] \notin {"notified", "processing", "waiting"},
         pc'[e] \notin {"notified", "processing", "waiting"}
  PROVE  Slots'
<1>1. \A w \in Workers, p \in PRs : Holders(w, p)' = Holders(w, p)
  BY DEF Holders, TasksAt
<1>2. \A w \in Workers, p \in PRs : Waiters(w, p)' = Waiters(w, p)
  BY DEF Waiters, TasksAt
<1> QED
  BY <1>1, <1>2 DEF Slots

\* The first task of a pull request takes the free slot.
LEMMA SlotsAdmitFirst ==
  ASSUME TypeOK, Slots,
         NEW e \in Events, NEW w \in Workers, NEW b \in BacklogSettings,
         AdmitFirst(e, w, b), Eligible(e)
  PROVE  Slots'
<1> DEFINE q == ev[e].pr
<1>1. q \in PRs /\ ev[e] \in Event
  BY DEF TypeOK, Event
<1>2. ev'[e].worker = w /\ ev'[e].pr = q /\ pc'[e] = "processing"
  BY <1>1 DEF AdmitFirst, Begin, TypeOK, Event
<1>3. \A f \in Events \ {e} : ev'[f] = ev[f] /\ pc'[f] = pc[f]
  BY DEF AdmitFirst, Begin, TypeOK
<1>4. \A v \in Workers, p \in PRs : Waiters(v, p)' = Waiters(v, p)
  BY <1>2, <1>3 DEF Waiters, TasksAt, AdmitFirst
<1>5. \A v \in Workers, p \in PRs :
         Holders(v, p)' = IF v = w /\ p = q THEN Holders(v, p) \cup {e} ELSE Holders(v, p)
  BY <1>2, <1>3 DEF Holders, TasksAt, AdmitFirst
<1>6. active[w][q] = 0
  BY DEF AdmitFirst
<1>7. Holders(w, q) = {} /\ Waiters(w, q) = {}
  BY <1>1, <1>6 DEF Slots
<1>8. \A v \in Workers, p \in PRs :
         active'[v][p] = IF v = w /\ p = q THEN 1 ELSE active[v][p]
  BY <1>1 DEF AdmitFirst, TypeOK
<1> SUFFICES ASSUME NEW v \in Workers, NEW p \in PRs
             PROVE  /\ \A f, g \in Holders(v, p)' : f = g
                    /\ \A f, g \in Waiters(v, p)' : f = g
                    /\ Waiters(v, p)' # {} => Holders(v, p)' # {}
                    /\ Holders(v, p)' = {} => active'[v][p] = 0
                    /\ Holders(v, p)' # {} /\ Waiters(v, p)' = {} => active'[v][p] = 1
                    /\ Waiters(v, p)' # {} => active'[v][p] = 2
  BY DEF Slots
<1>9. CASE v = w /\ p = q
  BY <1>4, <1>5, <1>7, <1>8, <1>9
<1>10. CASE ~(v = w /\ p = q)
  BY <1>4, <1>5, <1>8, <1>10 DEF Slots
<1> QED
  BY <1>9, <1>10

\* The second task waits behind the first.
LEMMA SlotsAdmitSecond ==
  ASSUME TypeOK, Slots,
         NEW e \in Events, NEW w \in Workers, NEW b \in BacklogSettings,
         AdmitSecond(e, w, b)
  PROVE  Slots'
<1> DEFINE q == ev[e].pr
<1>1. q \in PRs /\ ev[e] \in Event
  BY DEF TypeOK, Event
<1>2. ev'[e].worker = w /\ ev'[e].pr = q /\ pc'[e] = "waiting"
  BY <1>1 DEF AdmitSecond, TypeOK, Event
<1>3. \A f \in Events \ {e} : ev'[f] = ev[f] /\ pc'[f] = pc[f]
  BY DEF AdmitSecond, TypeOK
<1>4. \A v \in Workers, p \in PRs : Holders(v, p)' = Holders(v, p)
  BY <1>2, <1>3 DEF Holders, TasksAt, AdmitSecond
<1>5. \A v \in Workers, p \in PRs :
         Waiters(v, p)' = IF v = w /\ p = q THEN Waiters(v, p) \cup {e} ELSE Waiters(v, p)
  BY <1>2, <1>3 DEF Waiters, TasksAt, AdmitSecond
<1>6. active[w][q] = 1
  BY <1>1 DEF AdmitSecond, MaxActiveTasks, TypeOK
<1>7. Holders(w, q) # {} /\ Waiters(w, q) = {}
  BY <1>1, <1>6 DEF Slots
<1>8. \A v \in Workers, p \in PRs :
         active'[v][p] = IF v = w /\ p = q THEN 2 ELSE active[v][p]
  BY <1>1, <1>6 DEF AdmitSecond, TypeOK
<1> SUFFICES ASSUME NEW v \in Workers, NEW p \in PRs
             PROVE  /\ \A f, g \in Holders(v, p)' : f = g
                    /\ \A f, g \in Waiters(v, p)' : f = g
                    /\ Waiters(v, p)' # {} => Holders(v, p)' # {}
                    /\ Holders(v, p)' = {} => active'[v][p] = 0
                    /\ Holders(v, p)' # {} /\ Waiters(v, p)' = {} => active'[v][p] = 1
                    /\ Waiters(v, p)' # {} => active'[v][p] = 2
  BY DEF Slots
<1>9. CASE v = w /\ p = q
  BY <1>1, <1>4, <1>5, <1>7, <1>8, <1>9 DEF Slots
<1>10. CASE ~(v = w /\ p = q)
  BY <1>4, <1>5, <1>8, <1>10 DEF Slots
<1> QED
  BY <1>9, <1>10

\* The finally block hands the slot to the waiter, or frees it.
LEMMA SlotsLeave ==
  ASSUME TypeOK, Slots, UNCHANGED ev,
         NEW e \in Events, NEW final \in {"done", "skipped"},
         pc[e] \in {"notified", "processing"}, Leave(e, final)
  PROVE  Slots'
<1> DEFINE w == ev[e].worker
           q == ev[e].pr
<1>1. w \in Workers /\ q \in PRs
  BY DEF TypeOK, Event
<1>2. e \in Holders(w, q) /\ Holders(w, q) = {e}
  <2>1. e \in Holders(w, q)
    BY DEF Holders, TasksAt
  <2> QED
    BY <1>1, <2>1 DEF Slots
<1>3. CASE Waiters(w, q) = {} /\ pc' = [pc EXCEPT ![e] = final]
  <2>1. \A v \in Workers, p \in PRs : Waiters(v, p)' = Waiters(v, p)
    BY <1>3 DEF Waiters, TasksAt, TypeOK
  <2>2. \A v \in Workers, p \in PRs :
           Holders(v, p)' = IF v = w /\ p = q THEN {} ELSE Holders(v, p)
    <3>1. \A v \in Workers, p \in PRs : Holders(v, p)' = Holders(v, p) \ {e}
      BY <1>3 DEF Holders, TasksAt, TypeOK
    <3>2. \A v \in Workers, p \in PRs : e \in Holders(v, p) => v = w /\ p = q
      BY DEF Holders, TasksAt
    <3> QED
      BY <1>2, <3>1, <3>2
  <2>3. active[w][q] = 1
    BY <1>1, <1>2, <1>3 DEF Slots
  <2>4. \A v \in Workers, p \in PRs :
           active'[v][p] = IF v = w /\ p = q THEN 0 ELSE active[v][p]
    BY <1>1, <2>3 DEF Leave, TypeOK
  <2> SUFFICES ASSUME NEW v \in Workers, NEW p \in PRs
               PROVE  /\ \A f, g \in Holders(v, p)' : f = g
                      /\ \A f, g \in Waiters(v, p)' : f = g
                      /\ Waiters(v, p)' # {} => Holders(v, p)' # {}
                      /\ Holders(v, p)' = {} => active'[v][p] = 0
                      /\ Holders(v, p)' # {} /\ Waiters(v, p)' = {} => active'[v][p] = 1
                      /\ Waiters(v, p)' # {} => active'[v][p] = 2
    BY DEF Slots
  <2>5. CASE v = w /\ p = q
    BY <1>1, <1>3, <2>1, <2>2, <2>4, <2>5
  <2>6. CASE ~(v = w /\ p = q)
    BY <2>1, <2>2, <2>4, <2>6 DEF Slots
  <2> QED
    BY <2>5, <2>6
<1>4. ASSUME NEW t \in Waiters(w, q), pc' = [pc EXCEPT ![e] = final, ![t] = "notified"]
      PROVE  Slots'
  <2>0. t \in Events /\ t # e /\ Waiters(w, q) = {t}
    <3>1. t \in Events /\ pc[t] = "waiting"
      BY <1>4 DEF Waiters, TasksAt
    <3> QED
      BY <1>1, <3>1 DEF Slots
  <2>1. \A v \in Workers, p \in PRs :
           Waiters(v, p)' = IF v = w /\ p = q THEN {} ELSE Waiters(v, p)
    <3>1. \A v \in Workers, p \in PRs : Waiters(v, p)' = Waiters(v, p) \ {t}
      BY <1>4, <2>0 DEF Waiters, TasksAt, TypeOK
    <3>2. \A v \in Workers, p \in PRs : t \in Waiters(v, p) => v = w /\ p = q
      BY <1>4 DEF Waiters, TasksAt
    <3> QED
      BY <2>0, <3>1, <3>2
  <2>2. \A v \in Workers, p \in PRs :
           Holders(v, p)' = IF v = w /\ p = q THEN {t} ELSE Holders(v, p)
    <3>1. t \notin Holders(w, q) /\ ev[t].worker = w /\ ev[t].pr = q
      BY <1>4 DEF Waiters, Holders, TasksAt
    <3>2. \A v \in Workers, p \in PRs : ~(v = w /\ p = q) => Holders(v, p)' = Holders(v, p)
      BY <1>4, <2>0, <3>1 DEF Holders, TasksAt, TypeOK
    <3>3. Holders(w, q)' = (Holders(w, q) \ {e}) \cup {t}
      BY <1>4, <2>0, <3>1 DEF Holders, TasksAt, TypeOK
    <3> QED
      BY <1>2, <3>2, <3>3
  <2>3. active[w][q] = 2
    BY <1>1, <1>4 DEF Slots
  <2>4. \A v \in Workers, p \in PRs :
           active'[v][p] = IF v = w /\ p = q THEN 1 ELSE active[v][p]
    BY <1>1, <2>3 DEF Leave, TypeOK
  <2> SUFFICES ASSUME NEW v \in Workers, NEW p \in PRs
               PROVE  /\ \A f, g \in Holders(v, p)' : f = g
                      /\ \A f, g \in Waiters(v, p)' : f = g
                      /\ Waiters(v, p)' # {} => Holders(v, p)' # {}
                      /\ Holders(v, p)' = {} => active'[v][p] = 0
                      /\ Holders(v, p)' # {} /\ Waiters(v, p)' = {} => active'[v][p] = 1
                      /\ Waiters(v, p)' # {} => active'[v][p] = 2
    BY DEF Slots
  <2>5. CASE v = w /\ p = q
    BY <2>1, <2>2, <2>4, <2>5
  <2>6. CASE ~(v = w /\ p = q)
    BY <2>1, <2>2, <2>4, <2>6 DEF Slots
  <2> QED
    BY <2>5, <2>6
<1> QED
  BY <1>3, <1>4 DEF Leave

\* Every action keeps the slots.
LEMMA SlotsCorrect == TypeOK /\ Slots /\ [Next]_vars => Slots'
<1> SUFFICES ASSUME TypeOK, Slots, [Next]_vars PROVE Slots'
  OBVIOUS
<1>1. ASSUME NEW e \in Events, NEW p \in PRs, NEW s \in Senders, NEW v \in BOOLEAN,
             Push(e, p, s, v)
      PROVE  Slots'
  <2>1. \A f \in Events \ {e} : ev'[f] = ev[f] /\ pc'[f] = pc[f]
    BY <1>1 DEF Push, TypeOK
  <2>2. pc[e] = "unsent" /\ pc'[e] = "sent" /\ UNCHANGED active
    BY <1>1 DEF Push, TypeOK
  <2> QED
    BY <2>1, <2>2, SlotsUntouched
<1>2. ASSUME NEW e \in Events, NEW w \in Workers, Filter(e, w)
      PROVE  Slots'
  <2>1. \A f \in Events \ {e} : ev'[f] = ev[f] /\ pc'[f] = pc[f]
    BY <1>2 DEF Filter, TypeOK
  <2>2. pc[e] = "sent" /\ pc'[e] = "filtered" /\ UNCHANGED active
    BY <1>2 DEF Filter, TypeOK
  <2> QED
    BY <2>1, <2>2, SlotsUntouched
<1>3. ASSUME NEW e \in Events, NEW w \in Workers, NEW b \in BacklogSettings,
             AdmitFirst(e, w, b)
      PROVE  Slots'
  <2>1. CASE Eligible(e)
    BY <1>3, <2>1, SlotsAdmitFirst
  <2>2. CASE ~Eligible(e)
    <3>1. \A f \in Events \ {e} : ev'[f] = ev[f] /\ pc'[f] = pc[f]
      BY <1>3, <2>2 DEF AdmitFirst, TypeOK
    <3>2. pc[e] = "sent" /\ pc'[e] = "skipped" /\ UNCHANGED active
      BY <1>3, <2>2 DEF AdmitFirst, TypeOK
    <3> QED
      BY <3>1, <3>2, SlotsUntouched
  <2> QED
    BY <2>1, <2>2
<1>4. ASSUME NEW e \in Events, NEW w \in Workers, NEW b \in BacklogSettings,
             AdmitSecond(e, w, b)
      PROVE  Slots'
  BY <1>4, SlotsAdmitSecond
<1>5. ASSUME NEW e \in Events, NEW w \in Workers, NEW b \in BacklogSettings,
             Discard(e, w, b)
      PROVE  Slots'
  <2>1. \A f \in Events \ {e} : ev'[f] = ev[f] /\ pc'[f] = pc[f]
    BY <1>5 DEF Discard, TypeOK
  <2>2. pc[e] = "sent" /\ pc'[e] = "discarded" /\ UNCHANGED active
    BY <1>5 DEF Discard, TypeOK
  <2> QED
    BY <2>1, <2>2, SlotsUntouched
<1>6. ASSUME NEW e \in Events, Resume(e)
      PROVE  Slots'
  <2>1. CASE Eligible(e)
    <3>1. pc[e] = "notified" /\ pc' = [pc EXCEPT ![e] = "processing"]
          /\ UNCHANGED <<ev, active>>
      BY <1>6, <2>1 DEF Resume, Begin
    <3>2. \A w \in Workers, p \in PRs :
             Holders(w, p)' = Holders(w, p) /\ Waiters(w, p)' = Waiters(w, p)
      BY <3>1 DEF Holders, Waiters, TasksAt, TypeOK
    <3> QED
      BY <3>1, <3>2 DEF Slots
  <2>2. CASE ~Eligible(e)
    BY <1>6, <2>2, SlotsLeave DEF Resume
  <2> QED
    BY <2>1, <2>2
<1>7. ASSUME NEW e \in Events, Finish(e)
      PROVE  Slots'
  BY <1>7, SlotsLeave DEF Finish
<1>8. CASE UNCHANGED vars
  <2>1. \A w \in Workers, p \in PRs :
           Holders(w, p)' = Holders(w, p) /\ Waiters(w, p)' = Waiters(w, p)
    BY <1>8 DEF Holders, Waiters, TasksAt, vars
  <2> QED
    BY <1>8, <2>1 DEF Slots, vars
<1> QED
  BY <1>1, <1>2, <1>3, <1>4, <1>5, <1>6, <1>7, <1>8 DEF Next, Deliver, Task

\* What the actions other than Push leave alone: the head, the webhooks' commits
\* and pull requests, and which webhooks are unsent.  An attempt reads the head.
OnlyReadsHead ==
    /\ head' = head
    /\ \A f \in Events :
          /\ ev'[f].ver = ev[f].ver
          /\ ev'[f].pr = ev[f].pr
          /\ pc'[f] = "unsent" <=> pc[f] = "unsent"
    /\ \A p \in PRs : attempted'[p] \in {attempted[p], head[p]}

LEMMA NotPush ==
  ASSUME TypeOK,
         (\E e \in Events : Deliver(e) \/ Task(e)) \/ UNCHANGED vars
  PROVE  OnlyReadsHead
<1> USE DEF OnlyReadsHead
<1>1. ASSUME NEW e \in Events, NEW w \in Workers, Filter(e, w)
      PROVE  OnlyReadsHead
  BY <1>1 DEF Filter, TypeOK, Event
<1>2. ASSUME NEW e \in Events, NEW w \in Workers, NEW b \in BacklogSettings,
             AdmitFirst(e, w, b)
      PROVE  OnlyReadsHead
  <2>1. CASE Eligible(e)
    BY <1>2, <2>1 DEF AdmitFirst, Begin, TypeOK, Event
  <2>2. CASE ~Eligible(e)
    BY <1>2, <2>2 DEF AdmitFirst, TypeOK, Event
  <2> QED
    BY <2>1, <2>2
<1>3. ASSUME NEW e \in Events, NEW w \in Workers, NEW b \in BacklogSettings,
             AdmitSecond(e, w, b)
      PROVE  OnlyReadsHead
  BY <1>3 DEF AdmitSecond, TypeOK, Event
<1>4. ASSUME NEW e \in Events, NEW w \in Workers, NEW b \in BacklogSettings,
             Discard(e, w, b)
      PROVE  OnlyReadsHead
  BY <1>4 DEF Discard, TypeOK, Event
<1>5. ASSUME NEW e \in Events, NEW final \in {"done", "skipped"},
             pc[e] \in {"notified", "processing"}, Leave(e, final),
             UNCHANGED <<head, ev, attempted>>
      PROVE  OnlyReadsHead
  BY <1>5 DEF Leave, Waiters, TasksAt, TypeOK
<1>6. ASSUME NEW e \in Events, Resume(e)
      PROVE  OnlyReadsHead
  <2>1. CASE Eligible(e)
    BY <1>6, <2>1 DEF Resume, Begin, TypeOK
  <2>2. CASE ~Eligible(e)
    BY <1>5, <1>6, <2>2 DEF Resume
  <2> QED
    BY <2>1, <2>2
<1>7. ASSUME NEW e \in Events, Finish(e)
      PROVE  OnlyReadsHead
  BY <1>5, <1>7 DEF Finish
<1>8. CASE UNCHANGED vars
  BY <1>8 DEF vars
<1> QED
  BY <1>1, <1>2, <1>3, <1>4, <1>6, <1>7, <1>8 DEF Deliver, Task

\* Nothing is ever ahead of the head.
LEMMA HeadCorrect == TypeOK /\ HeadIsLast /\ [Next]_vars => HeadIsLast'
<1> SUFFICES ASSUME TypeOK, HeadIsLast, [Next]_vars PROVE HeadIsLast'
  OBVIOUS
<1>1. ASSUME NEW e \in Events, NEW p \in PRs, NEW s \in Senders, NEW v \in BOOLEAN,
             Push(e, p, s, v)
      PROVE  HeadIsLast'
  <2>1. head[p] \in Nat /\ head[p] < e /\ e \in Nat /\ NumEvents \in Nat
    BY <1>1, PushTriggerAssumption DEF Push, HeadIsLast, TypeOK, Events
  <2>2. ev'[e].ver = head[p] + 1 /\ ev'[e].pr = p
    BY <1>1 DEF Push, TypeOK, Event
  <2>3. head' = [head EXCEPT ![p] = @ + 1] /\ UNCHANGED attempted
    BY <1>1 DEF Push
  <2>4. \A f \in Events \ {e} : ev'[f] = ev[f] /\ pc'[f] = pc[f]
    BY <1>1 DEF Push, TypeOK
  <2>5. \A f \in Events : pc'[f] = "unsent" => f > e
    BY <1>1 DEF Push, TypeOK, Events
  <2>6. \A f \in Events, q \in PRs : pc'[f] = "unsent" => head'[q] < f
    BY <2>1, <2>3, <2>4, <2>5 DEF HeadIsLast, TypeOK, Events
  <2>7. ev'[e].ver \in Events /\ ev'[e].ver <= head'[ev'[e].pr]
    BY <2>1, <2>2, <2>3 DEF TypeOK, Events
  <2>8. \A f \in Events \ {e} : ev[f].pr \in PRs /\ ev[f].ver \in Nat
    BY DEF TypeOK, Event
  <2>9. \A f \in Events \ {e} : pc'[f] # "unsent" =>
            ev'[f].ver \in Events /\ ev'[f].ver <= head'[ev'[f].pr]
    BY <2>1, <2>3, <2>4, <2>8 DEF HeadIsLast, TypeOK
  <2>10. \A q \in PRs : attempted'[q] <= head'[q]
    BY <2>3 DEF HeadIsLast, TypeOK
  <2> QED
    BY <2>6, <2>7, <2>9, <2>10 DEF HeadIsLast
<1>2. CASE (\E e \in Events : Deliver(e) \/ Task(e)) \/ UNCHANGED vars
  <2>1. OnlyReadsHead
    BY <1>2, NotPush
  <2> QED
    BY <2>1 DEF HeadIsLast, OnlyReadsHead, TypeOK
<1> QED
  BY <1>1, <1>2 DEF Next

\* Where a task may go from the places the delegation depends on: a delegate
\* whose look at the head is to come keeps waiting, skips, or looks; the
\* discarded and the skipped ones stay.
Forward ==
    \A t \in Events :
        /\ pc[t] \in {"waiting", "notified", "skipped", "discarded"} => ev'[t] = ev[t]
        /\ pc[t] \in {"waiting", "notified"} =>
              \/ pc'[t] \in {"waiting", "notified", "skipped"}
              \/ attempted'[ev[t].pr] = head[ev[t].pr]
        /\ pc[t] = "skipped" => pc'[t] = "skipped"
        /\ pc[t] = "discarded" => pc'[t] = "discarded"
        /\ pc'[t] = "discarded" /\ pc[t] # "discarded" =>
              \E w \in Workers, b \in BacklogSettings : Discard(t, w, b)

LEMMA MovesForward == TypeOK /\ [Next]_vars => Forward
<1> SUFFICES ASSUME TypeOK, [Next]_vars PROVE Forward
  OBVIOUS
<1> USE DEF Forward
<1>1. ASSUME NEW e \in Events, NEW p \in PRs, NEW s \in Senders, NEW v \in BOOLEAN,
             Push(e, p, s, v)
      PROVE  Forward
  BY <1>1 DEF Push, TypeOK
<1>2. ASSUME NEW e \in Events, NEW w \in Workers, Filter(e, w)
      PROVE  Forward
  BY <1>2 DEF Filter, TypeOK
<1>3. ASSUME NEW e \in Events, NEW w \in Workers, NEW b \in BacklogSettings,
             AdmitFirst(e, w, b)
      PROVE  Forward
  <2>1. CASE Eligible(e)
    BY <1>3, <2>1 DEF AdmitFirst, Begin, TypeOK
  <2>2. CASE ~Eligible(e)
    BY <1>3, <2>2 DEF AdmitFirst, TypeOK
  <2> QED
    BY <2>1, <2>2
<1>4. ASSUME NEW e \in Events, NEW w \in Workers, NEW b \in BacklogSettings,
             AdmitSecond(e, w, b)
      PROVE  Forward
  BY <1>4 DEF AdmitSecond, TypeOK
<1>5. ASSUME NEW e \in Events, NEW w \in Workers, NEW b \in BacklogSettings,
             Discard(e, w, b)
      PROVE  Forward
  <2>1. pc[e] = "sent" /\ pc' = [pc EXCEPT ![e] = "discarded"]
        /\ \A t \in Events \ {e} : ev'[t] = ev[t]
    BY <1>5 DEF Discard, TypeOK
  <2> QED
    BY <1>5, <2>1 DEF TypeOK
<1>6. ASSUME NEW e \in Events, NEW final \in {"done", "skipped"},
             pc[e] \in {"notified", "processing"}, Leave(e, final),
             pc[e] = "notified" => final = "skipped",
             UNCHANGED <<head, ev, attempted>>
      PROVE  Forward
  BY <1>6 DEF Leave, Waiters, TasksAt, TypeOK
<1>7. ASSUME NEW e \in Events, Resume(e)
      PROVE  Forward
  <2>1. CASE Eligible(e)
    <3>1. ev[e].pr \in PRs
      BY DEF TypeOK, Event
    <3> QED
      BY <1>7, <2>1, <3>1 DEF Resume, Begin, TypeOK
  <2>2. CASE ~Eligible(e)
    BY <1>6, <1>7, <2>2 DEF Resume
  <2> QED
    BY <2>1, <2>2
<1>8. ASSUME NEW e \in Events, Finish(e)
      PROVE  Forward
  BY <1>6, <1>8 DEF Finish
<1>9. CASE UNCHANGED vars
  BY <1>9 DEF vars
<1> QED
  BY <1>1, <1>2, <1>3, <1>4, <1>5, <1>7, <1>8, <1>9 DEF Next, Deliver, Task

\* Every action keeps the discarded webhooks delegated.
LEMMA DelegationCorrect == IInv /\ [Next]_vars => DiscardedPushIsDelegated'
<1> SUFFICES ASSUME IInv, [Next]_vars,
                    NEW e \in Events, pc'[e] = "discarded", ev'[e].backlog
             PROVE  \/ attempted'[ev'[e].pr] >= ev'[e].ver
                    \/ Pending(ev[e].worker, ev[e].pr)' # {}
                    \/ TasksAt(ev[e].worker, ev[e].pr, {"skipped"})' # {}
  BY DEF DiscardedPushIsDelegated, Pending, TasksAt
<1>1. Forward /\ TypeOK'
  BY MovesForward, TypeCorrect DEF IInv
<1>2. HeadIsLast'
  BY HeadCorrect DEF IInv
<1>3. CASE pc[e] # "discarded"
  <2>1. PICK w \in Workers, b \in BacklogSettings : Discard(e, w, b)
    BY <1>1, <1>3 DEF Forward
  <2>2. ev'[e].worker = w /\ ev'[e].pr = ev[e].pr /\ ev'[e].backlog = b /\ ev[e].pr \in PRs
    BY <2>1 DEF Discard, IInv, TypeOK, Event
  <2>3. ~(active[w][ev[e].pr] < 2) /\ active[w][ev[e].pr] \in 0..2
    BY <2>1, <2>2 DEF Discard, MaxActiveTasks, IInv, TypeOK
  <2>4. Waiters(w, ev[e].pr) # {}
    BY <2>2, <2>3 DEF IInv, Slots
  <2>5. PICK t \in Events : ev[t].worker = w /\ ev[t].pr = ev[e].pr /\ pc[t] = "waiting"
    BY <2>4 DEF Waiters, TasksAt
  <2>6. pc'[t] = "waiting" /\ ev'[t] = ev[t]
    BY <2>1, <2>5 DEF Discard, IInv, TypeOK
  <2>7. t \in Pending(ev[e].worker, ev[e].pr)'
    BY <2>2, <2>5, <2>6 DEF Pending, TasksAt
  <2> QED
    BY <2>7
<1>4. CASE pc[e] = "discarded"
  <2>1. ev'[e] = ev[e] /\ ev[e].pr \in PRs /\ ev[e].ver \in Nat
    BY <1>1, <1>4 DEF Forward, IInv, TypeOK, Event
  <2>2. head[ev[e].pr] >= ev[e].ver
    BY <1>4 DEF IInv, HeadIsLast, TypeOK, Event
  <2>3. attempted'[ev[e].pr] \in {attempted[ev[e].pr], head[ev[e].pr]}
    <3>1. CASE \E f \in Events, p \in PRs, s \in Senders, v \in BOOLEAN : Push(f, p, s, v)
      BY <3>1 DEF Push
    <3>2. CASE (\E f \in Events : Deliver(f) \/ Task(f)) \/ UNCHANGED vars
      BY <2>1, <3>2, NotPush DEF OnlyReadsHead, IInv
    <3> QED
      BY <3>1, <3>2 DEF Next
  <2>4. CASE attempted[ev[e].pr] >= ev[e].ver
    BY <2>1, <2>2, <2>3, <2>4 DEF IInv, TypeOK
  <2>5. ASSUME NEW t \in Pending(ev[e].worker, ev[e].pr)
        PROVE  \/ attempted'[ev'[e].pr] >= ev'[e].ver
               \/ Pending(ev[e].worker, ev[e].pr)' # {}
               \/ TasksAt(ev[e].worker, ev[e].pr, {"skipped"})' # {}
    <3>1. t \in Events /\ pc[t] \in {"waiting", "notified"}
          /\ ev[t].worker = ev[e].worker /\ ev[t].pr = ev[e].pr
      BY <2>5 DEF Pending, TasksAt
    <3>2. ev'[t] = ev[t]
      BY <1>1, <3>1 DEF Forward
    <3>3. CASE pc'[t] \in {"waiting", "notified"}
      <4>1. t \in Pending(ev[e].worker, ev[e].pr)'
        BY <2>1, <3>1, <3>2, <3>3 DEF Pending, TasksAt
      <4> QED
        BY <4>1
    <3>4. CASE pc'[t] = "skipped"
      <4>1. t \in TasksAt(ev[e].worker, ev[e].pr, {"skipped"})'
        BY <2>1, <3>1, <3>2, <3>4 DEF TasksAt
      <4> QED
        BY <4>1
    <3>5. CASE attempted'[ev[t].pr] = head[ev[t].pr]
      BY <2>1, <2>2, <3>1, <3>5
    <3> QED
      BY <1>1, <3>1, <3>3, <3>4, <3>5 DEF Forward
  <2>6. ASSUME NEW t \in TasksAt(ev[e].worker, ev[e].pr, {"skipped"})
        PROVE  TasksAt(ev[e].worker, ev[e].pr, {"skipped"})' # {}
    <3>1. t \in Events /\ pc[t] = "skipped"
          /\ ev[t].worker = ev[e].worker /\ ev[t].pr = ev[e].pr
      BY <2>6 DEF TasksAt
    <3>2. ev'[t] = ev[t] /\ pc'[t] = "skipped"
      BY <1>1, <3>1 DEF Forward
    <3>3. t \in TasksAt(ev[e].worker, ev[e].pr, {"skipped"})'
      BY <2>1, <3>1, <3>2 DEF TasksAt
    <3> QED
      BY <3>3
  <2>7. ev[e].backlog
    BY <2>1
  <2> QED
    BY <1>4, <2>4, <2>5, <2>6, <2>7 DEF IInv, DiscardedPushIsDelegated
<1> QED
  BY <1>3, <1>4

-----------------------------------------------------------------------------

\* The inductive invariant holds initially and is preserved.
LEMMA InitIInv == Init => IInv
<1> SUFFICES ASSUME Init PROVE IInv
  OBVIOUS
<1>1. TypeOK
  BY BlankType DEF Init, TypeOK, PCs
<1>2. \A w \in Workers, p \in PRs : Holders(w, p) = {} /\ Waiters(w, p) = {}
  BY DEF Init, Holders, Waiters, TasksAt
<1>3. Slots
  BY <1>2 DEF Init, Slots
<1>4. HeadIsLast
  BY PushTriggerAssumption DEF Init, HeadIsLast, Events
<1>5. DiscardedPushIsDelegated
  BY DEF Init, DiscardedPushIsDelegated
<1> QED
  BY <1>1, <1>3, <1>4, <1>5 DEF IInv

LEMMA NextIInv == IInv /\ [Next]_vars => IInv'
  BY TypeCorrect, SlotsCorrect, HeadCorrect, DelegationCorrect DEF IInv

LEMMA SpecIInv == Spec => []IInv
  BY InitIInv, NextIInv, PTL DEF Spec

\* Type correctness: among the rest, no counter of active tasks leaves 0..2,
\* whatever the webhooks, their order and the settings.
THEOREM TypeCorrectness == Spec => []TypeOK
  BY SpecIInv, PTL DEF IInv

\* The slots, counted.
LEMMA SlotsCounted == IInv => CounterMatchesTasks
<1> SUFFICES ASSUME IInv, NEW w \in Workers, NEW p \in PRs
             PROVE  /\ active[w][p] = Cardinality(Holders(w, p)) + Cardinality(Waiters(w, p))
                    /\ Cardinality(Holders(w, p)) <= 1
                    /\ Cardinality(Waiters(w, p)) <= Cardinality(Holders(w, p))
  BY DEF CounterMatchesTasks
<1>1. Holders(w, p) = {} => Cardinality(Holders(w, p)) = 0
  BY FS_EmptySet
<1>2. Waiters(w, p) = {} => Cardinality(Waiters(w, p)) = 0
  BY FS_EmptySet
<1>3. Holders(w, p) # {} => Cardinality(Holders(w, p)) = 1
  <2> SUFFICES ASSUME NEW e \in Holders(w, p) PROVE Cardinality(Holders(w, p)) = 1
    OBVIOUS
  <2>1. Holders(w, p) = {e}
    BY DEF IInv, Slots
  <2> QED
    BY <2>1, FS_Singleton
<1>4. Waiters(w, p) # {} => Cardinality(Waiters(w, p)) = 1
  <2> SUFFICES ASSUME NEW e \in Waiters(w, p) PROVE Cardinality(Waiters(w, p)) = 1
    OBVIOUS
  <2>1. Waiters(w, p) = {e}
    BY DEF IInv, Slots
  <2> QED
    BY <2>1, FS_Singleton
<1> QED
  BY <1>1, <1>2, <1>3, <1>4 DEF IInv, Slots

\* Within one worker at most one task processes a pull request and at most one
\* waits, behind it, and the counter is exactly their number.
THEOREM CounterCorrectness == Spec => []CounterMatchesTasks
  BY SpecIInv, SlotsCounted, PTL

\* A webhook discarded in favour of a delegate is covered by an attempt that saw
\* its commit, by a delegate still to look, or its delegate was told to skip.
THEOREM DelegationCorrectness == Spec => []DiscardedPushIsDelegated
  BY SpecIInv, PTL DEF IInv

-----------------------------------------------------------------------------
(* The trigger implements PushDelegate. *)

\* The refinement mapping's value for PushDelegate's variable taken.
Taken == [p \in PRs |-> {ev[e].ver : e \in {f \in Events : TakenOn(f) /\ ev[f].pr = p}}]

\* A step that takes on no webhook leaves taken alone.
LEMMA TakenUnchanged ==
  ASSUME \A f \in Events :
            /\ TakenOn(f)' <=> TakenOn(f)
            /\ TakenOn(f) => ev'[f].ver = ev[f].ver /\ ev'[f].pr = ev[f].pr
  PROVE  Taken' = Taken
<1>1. \A p \in PRs : Taken'[p] = Taken[p]
  BY DEF Taken
<1> QED
  BY <1>1 DEF Taken

\* A step that takes on e adds its commit.
LEMMA TakenGrows ==
  ASSUME NEW e \in Events,
         ev[e].pr \in PRs, TakenOn(e)', ~TakenOn(e),
         ev'[e].ver = ev[e].ver, ev'[e].pr = ev[e].pr,
         \A f \in Events \ {e} : ev'[f] = ev[f] /\ (TakenOn(f)' <=> TakenOn(f))
  PROVE  Taken' = [Taken EXCEPT ![ev[e].pr] = @ \cup {ev[e].ver}]
<1> DEFINE q == ev[e].pr
<1>1. \A p \in PRs : p # q => Taken'[p] = Taken[p]
  BY DEF Taken
<1>2. Taken'[q] = Taken[q] \cup {ev[e].ver}
  BY DEF Taken
<1> QED
  BY <1>1, <1>2 DEF Taken

LEMMA InitImplements == Init => Delegate!Init
<1> SUFFICES ASSUME Init PROVE Delegate!Init
  OBVIOUS
<1>1. \A f \in Events : ~TakenOn(f)
  BY DEF Init, TakenOn
<1>2. Taken = [p \in PRs |-> {}]
  BY <1>1 DEF Taken
<1> QED
  BY <1>2 DEF Init, Delegate!Init, Taken

\* Each action is a step of PushDelegate: Push is Push, admitting or discarding
\* with the backlog takes a push on, a notified task that runs is an attempt,
\* and the rest changes nothing there.
LEMMA NextImplements == IInv /\ [Next]_vars => [Delegate!Next]_(Delegate!vars)
<1> SUFFICES ASSUME IInv, [Next]_vars
             PROVE  [Delegate!Next]_(Delegate!vars)
  OBVIOUS
<1> USE DEF IInv
<1>0. UNCHANGED <<head, Taken, attempted>> => [Delegate!Next]_(Delegate!vars)
  BY DEF Delegate!vars, Taken
<1>1. ASSUME NEW e \in Events, NEW p \in PRs, NEW s \in Senders, NEW v \in BOOLEAN,
             Push(e, p, s, v)
      PROVE  Delegate!Push(p)
  <2>1. pc[e] = "unsent" /\ pc'[e] = "sent"
        /\ \A f \in Events \ {e} : ev'[f] = ev[f] /\ pc'[f] = pc[f]
    BY <1>1 DEF Push, TypeOK
  <2>2. Taken' = Taken
    BY <2>1, TakenUnchanged DEF TakenOn
  <2> QED
    BY <1>1, <2>2 DEF Push, Delegate!Push, Taken
<1>2. ASSUME NEW e \in Events, NEW w \in Workers, Filter(e, w)
      PROVE  UNCHANGED <<head, Taken, attempted>>
  <2>1. pc[e] = "sent" /\ pc'[e] = "filtered"
        /\ \A f \in Events \ {e} : ev'[f] = ev[f] /\ pc'[f] = pc[f]
    BY <1>2 DEF Filter, TypeOK
  <2>2. Taken' = Taken
    BY <2>1, TakenUnchanged DEF TakenOn
  <2> QED
    BY <1>2, <2>2 DEF Filter
<1>3. ASSUME NEW e \in Events, pc[e] = "sent", TakenOn(e)',
             ev'[e].ver = ev[e].ver, ev'[e].pr = ev[e].pr,
             \A f \in Events \ {e} : ev'[f] = ev[f] /\ pc'[f] = pc[f],
             head' = head,
             attempted' \in {attempted, [attempted EXCEPT ![ev[e].pr] = head[ev[e].pr]]}
      PROVE  Delegate!Next
  <2>1. ev[e].pr \in PRs /\ ev[e].ver \in Events /\ ev[e].ver <= head[ev[e].pr]
    BY <1>3 DEF TypeOK, Event, HeadIsLast
  <2>2. Taken' = [Taken EXCEPT ![ev[e].pr] = @ \cup {ev[e].ver}]
    BY <1>3, <2>1, TakenGrows DEF TakenOn
  <2>3. PICK p \in PRs : p = ev[e].pr
    BY <2>1
  <2>4. Delegate!TakeOn(p)
    BY <1>3, <2>1, <2>2, <2>3 DEF Delegate!TakeOn, Taken
  <2> QED
    BY <2>4 DEF Delegate!Next
<1>4. ASSUME NEW e \in Events, NEW w \in Workers, NEW b \in BacklogSettings,
             AdmitFirst(e, w, b)
      PROVE  Delegate!Next
  <2>1. /\ pc[e] = "sent" /\ pc'[e] \in {"processing", "skipped"}
        /\ ev'[e].ver = ev[e].ver /\ ev'[e].pr = ev[e].pr
        /\ \A f \in Events \ {e} : ev'[f] = ev[f] /\ pc'[f] = pc[f]
    BY <1>4 DEF AdmitFirst, Begin, TypeOK, Event
  <2>2. attempted' \in {attempted, [attempted EXCEPT ![ev[e].pr] = head[ev[e].pr]]}
    BY <1>4 DEF AdmitFirst, Begin
  <2>3. head' = head
    BY <1>4 DEF AdmitFirst
  <2> QED
    BY <1>3, <2>1, <2>2, <2>3 DEF TakenOn
<1>5. ASSUME NEW e \in Events, NEW w \in Workers, NEW b \in BacklogSettings,
             AdmitSecond(e, w, b)
      PROVE  Delegate!Next
  <2>1. /\ pc[e] = "sent" /\ pc'[e] = "waiting"
        /\ ev'[e].ver = ev[e].ver /\ ev'[e].pr = ev[e].pr
        /\ \A f \in Events \ {e} : ev'[f] = ev[f] /\ pc'[f] = pc[f]
    BY <1>5 DEF AdmitSecond, TypeOK, Event
  <2> QED
    BY <1>3, <1>5, <2>1 DEF TakenOn, AdmitSecond
<1>6. ASSUME NEW e \in Events, NEW w \in Workers, NEW b \in BacklogSettings,
             Discard(e, w, b)
      PROVE  Delegate!Next \/ UNCHANGED <<head, Taken, attempted>>
  <2>1. /\ pc[e] = "sent" /\ pc'[e] = "discarded"
        /\ ev'[e].ver = ev[e].ver /\ ev'[e].pr = ev[e].pr /\ ev'[e].backlog = b
        /\ \A f \in Events \ {e} : ev'[f] = ev[f] /\ pc'[f] = pc[f]
        /\ head' = head /\ attempted' = attempted
    BY <1>6 DEF Discard, TypeOK, Event
  <2>2. CASE b
    BY <1>3, <2>1, <2>2 DEF TakenOn
  <2>3. CASE ~b
    <3>1. Taken' = Taken
      BY <2>1, <2>3, TakenUnchanged DEF TakenOn
    <3> QED
      BY <2>1, <3>1
  <2> QED
    BY <2>2, <2>3
<1>7. ASSUME NEW e \in Events, NEW final \in {"done", "skipped"},
             pc[e] \in {"notified", "processing"}, Leave(e, final),
             UNCHANGED <<head, ev, attempted>>
      PROVE  UNCHANGED <<head, Taken, attempted>>
  <2>1. \A f \in Events : TakenOn(f)' <=> TakenOn(f)
    BY <1>7 DEF Leave, Waiters, TasksAt, TakenOn, TypeOK
  <2> QED
    BY <1>7, <2>1, TakenUnchanged
<1>8. ASSUME NEW e \in Events, Resume(e)
      PROVE  Delegate!Next \/ UNCHANGED <<head, Taken, attempted>>
  <2>1. CASE Eligible(e)
    <3>1. /\ pc[e] = "notified" /\ pc' = [pc EXCEPT ![e] = "processing"]
          /\ ev' = ev /\ head' = head
          /\ attempted' = [attempted EXCEPT ![ev[e].pr] = head[ev[e].pr]]
      BY <1>8, <2>1 DEF Resume, Begin
    <3>2. \A f \in Events : TakenOn(f)' <=> TakenOn(f)
      BY <3>1 DEF TakenOn, TypeOK
    <3>3. Taken' = Taken
      BY <3>1, <3>2, TakenUnchanged
    <3>4. ev[e].pr \in PRs /\ TakenOn(e)
      BY <3>1 DEF TakenOn, TypeOK, Event
    <3>5. ev[e].ver \in Taken[ev[e].pr]
      BY <3>4 DEF Taken
    <3>6. PICK p \in PRs : p = ev[e].pr
      BY <3>4
    <3>7. Delegate!Attempt(p)
      BY <3>1, <3>3, <3>5, <3>6 DEF Delegate!Attempt, Taken
    <3> QED
      BY <3>7 DEF Delegate!Next
  <2>2. CASE ~Eligible(e)
    BY <1>7, <1>8, <2>2 DEF Resume
  <2> QED
    BY <2>1, <2>2
<1>9. ASSUME NEW e \in Events, Finish(e)
      PROVE  UNCHANGED <<head, Taken, attempted>>
  BY <1>7, <1>9 DEF Finish
<1>10. CASE UNCHANGED vars
  <2>1. \A f \in Events : TakenOn(f)' <=> TakenOn(f)
    BY <1>10 DEF vars, TakenOn
  <2>2. Taken' = Taken
    BY <1>10, <2>1, TakenUnchanged DEF vars
  <2> QED
    BY <1>0, <1>10, <2>2 DEF vars
<1>12. ASSUME NEW e \in Events, Deliver(e)
       PROVE  [Delegate!Next]_(Delegate!vars)
  <2>1. \/ Delegate!Next
        \/ UNCHANGED <<head, Taken, attempted>>
    <3>1. PICK w \in Workers :
             Filter(e, w) \/ \E b \in BacklogSettings :
                AdmitFirst(e, w, b) \/ AdmitSecond(e, w, b) \/ Discard(e, w, b)
      BY <1>12 DEF Deliver
    <3>2. CASE Filter(e, w)
      BY <1>2, <3>2
    <3>3. ASSUME NEW b \in BacklogSettings,
                 AdmitFirst(e, w, b) \/ AdmitSecond(e, w, b) \/ Discard(e, w, b)
          PROVE  Delegate!Next \/ UNCHANGED <<head, Taken, attempted>>
      BY <1>4, <1>5, <1>6, <3>3
    <3> QED
      BY <3>1, <3>2, <3>3
  <2> QED
    BY <1>0, <2>1
<1>13. ASSUME NEW e \in Events, Task(e)
       PROVE  [Delegate!Next]_(Delegate!vars)
  <2>1. \/ Delegate!Next
        \/ UNCHANGED <<head, Taken, attempted>>
    BY <1>8, <1>9, <1>13 DEF Task
  <2> QED
    BY <1>0, <2>1
<1>14. ASSUME NEW e \in Events, NEW p \in PRs, NEW s \in Senders, NEW v \in BOOLEAN,
              Push(e, p, s, v)
       PROVE  [Delegate!Next]_(Delegate!vars)
  BY <1>1, <1>14 DEF Delegate!Next
<1> QED
  BY <1>10, <1>12, <1>13, <1>14 DEF Next

\* The safety part of the refinement, for every instance: what is attempted is
\* the head of a pull request with a push taken on, and pushes taken on exist.
THEOREM Implements == Spec => ImplementsDelegate
<1>1. Init => Delegate!Init
  BY InitImplements
<1>2. IInv /\ [Next]_vars => [Delegate!Next]_(Delegate!vars)
  BY NextImplements
<1> QED
  BY <1>1, <1>2, SpecIInv, PTL DEF Spec, ImplementsDelegate, Delegate!Spec

=============================================================================
