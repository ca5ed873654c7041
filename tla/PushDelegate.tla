---------------------------- MODULE PushDelegate ---------------------------
(***************************************************************************)
(* What the push trigger promises, without tasks, workers or counters: a   *)
(* push that is taken on is answered by an attempt that reads the head of  *)
(* the pull request at that commit or later.                               *)
(***************************************************************************)
EXTENDS Naturals

CONSTANTS PRs,
          Versions   \* the commits an instance may count up to

VARIABLES head,       \* head[p]: number of commits pushed to p
          taken,      \* taken[p]: the commits whose webhook was taken on
          attempted   \* attempted[p]: last commit an attempt has seen

vars == <<head, taken, attempted>>

Init ==
    /\ head = [p \in PRs |-> 0]
    /\ taken = [p \in PRs |-> {}]
    /\ attempted = [p \in PRs |-> 0]

Push(p) ==
    /\ head' = [head EXCEPT ![p] = @ + 1]
    /\ UNCHANGED <<taken, attempted>>

\* A push is taken on; it may be answered at once.
TakeOn(p) ==
    /\ \E v \in Versions :
          /\ v <= head[p]
          /\ taken' = [taken EXCEPT ![p] = @ \cup {v}]
    /\ attempted' \in {attempted, [attempted EXCEPT ![p] = head[p]]}
    /\ UNCHANGED head

\* Only for a push that was taken on, and always at the current head.
Attempt(p) ==
    /\ taken[p] # {}
    /\ attempted' = [attempted EXCEPT ![p] = head[p]]
    /\ UNCHANGED <<head, taken>>

Next == \E p \in PRs : Push(p) \/ TakeOn(p) \/ Attempt(p)

Spec == Init /\ [][Next]_vars

\* Every commit taken on is eventually seen by an attempt.
Service ==
    \A p \in PRs : \A v \in Versions :
        (v \in taken[p]) ~> (attempted[p] >= v)

=============================================================================
