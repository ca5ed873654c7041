-------------------------- MODULE ModelCallsProofs --------------------------
(***************************************************************************)
(* Proofs about ModelCalls, for every number of commands, models, chunks   *)
(* and attempts.                                                           *)
(***************************************************************************)
EXTENDS ModelCalls, FiniteSetTheorems, TLAPS

Strays == [command : Commands, kind : {"predict", "reflect"},
           model : Models, deployment : Deployments]

\* Commands, models and deployments are numbered from 1.
LEMMA Numbers ==
    /\ NumCommands \in Nat /\ NumModels \in Nat /\ Retries \in Nat /\ MaxChunks \in Nat
    /\ 1 \in Commands /\ 1 \in Models /\ 1 \in Deployments /\ 1 \in 1..Retries
    /\ Models = Deployments /\ Commands \subseteq Nat /\ Models \subseteq Nat
    /\ FallbackCounts \subseteq Nat /\ Requests \subseteq [parallel : BOOLEAN, commands : Commands]
  BY ModelCallsAssumption DEF Commands, Models, Deployments

\* The number of an attempt stays within MODEL_RETRIES.
LEMMA TriesBounded == ASSUME NEW n \in 0..Retries PROVE (n % Retries) + 1 \in 0..Retries
<1>1. Retries \in Nat /\ Retries > 0
  BY ModelCallsAssumption
<1>2. n % Retries \in 0..Retries - 1
  BY <1>1
<1> QED
  BY <1>1, <1>2

\* A call that is recorded as astray is one of a model to a deployment.
LEMMA StrayType ==
    ASSUME NEW c \in Commands, NEW kind \in {"predict", "reflect"}, NEW m \in Models,
           NEW d \in Deployments
    PROVE  Stray(c, kind, m, d) \subseteq Strays
  BY DEF Stray, Strays

\* The end of a command leaves the command in range.
LEMMA EndType ==
    ASSUME TypeOK, NEW m \in 0..NumModels, End(m)
    PROVE  /\ command' \in Commands /\ outcome' \in [Commands -> 0..NumModels]
           /\ at' \in {"start", "done"}
  BY Numbers DEF End, TypeOK, Commands

\* Falling back leaves the command and the model in range.
LEMMA FallbackType ==
    ASSUME TypeOK, Fallback
    PROVE  /\ command' \in Commands /\ outcome' \in [Commands -> 0..NumModels]
           /\ attempt' \in Models /\ at' \in {"attempt", "start", "done"}
<1>1. CASE ModelsLeft
  BY <1>1, Numbers DEF Fallback, ModelsLeft, TypeOK, Models
<1>2. CASE ~ModelsLeft
  <2>1. 0 \in 0..NumModels /\ End(0) /\ attempt' = attempt
    BY <1>2, Numbers DEF Fallback
  <2> QED
    BY <2>1, EndType DEF TypeOK
<1> QED
  BY <1>1, <1>2

\* The coroutines that begin are well typed.
LEMMA BeginType ==
    ASSUME TypeOK, NEW C, deployment' \in Deployments, Begin(C)
    PROVE  /\ stage' \in [Tasks -> {"none", "predict", "reflect", "ok", "failed"}]
           /\ tries' \in [Tasks -> 0..Retries]
           /\ strays' \subseteq Strays
<1>1. Stray(command, "predict", attempt, deployment') \subseteq Strays
  BY StrayType DEF TypeOK
<1>2. 1 \in 0..Retries
  BY Numbers
<1> QED
  BY <1>1, <1>2 DEF Begin, TypeOK, Strays

\* Every action keeps the type of every variable.
LEMMA TypeCorrect == TypeOK /\ [Next]_vars => TypeOK'
<1> SUFFICES ASSUME TypeOK, [Next]_vars PROVE TypeOK'
  OBVIOUS
<1>1. CASE Start
  <2>1. deployment \in Deployments /\ 1 \in Models /\ 0 \in 0..NumModels
    BY Numbers DEF TypeOK
  <2>2. /\ command' \in Commands /\ outcome' \in [Commands -> 0..NumModels]
        /\ at' \in {"attempt", "start", "done"}
    BY <1>1, <2>1, EndType DEF Start, TypeOK
  <2> QED
    BY <1>1, <2>1, <2>2 DEF Start, TypeOK
<1>2. CASE Attempt
  <2>1. deployment' \in Deployments
    BY <1>2, Numbers DEF Attempt, DeploymentOf, TypeOK
  <2>2. CASE Fallback /\ broken' = broken \cup {<<command, attempt>>}
             /\ UNCHANGED <<chunks, stage, tries, strays>>
    BY <1>2, <2>1, <2>2, FallbackType DEF Attempt, TypeOK
  <2>3. ASSUME NEW n \in 0..MaxChunks, chunks' = n, Begin(FirstTasks(n)),
               IF n = 0 THEN End(attempt) ELSE at' = "gather" /\ UNCHANGED <<outcome, command>>,
               UNCHANGED <<attempt, broken>>
        PROVE  TypeOK'
    <3>1. attempt \in 0..NumModels
      BY Numbers DEF TypeOK, Models
    <3>2. /\ command' \in Commands /\ outcome' \in [Commands -> 0..NumModels]
          /\ at' \in {"gather", "start", "done"}
      BY <2>3, <3>1, EndType DEF TypeOK
    <3>3. PICK C : C = FirstTasks(n)
      OBVIOUS
    <3>4. /\ stage' \in [Tasks -> {"none", "predict", "reflect", "ok", "failed"}]
          /\ tries' \in [Tasks -> 0..Retries] /\ strays' \subseteq Strays
      BY <2>1, <2>3, <3>3, BeginType
    <3> QED
      BY <1>2, <2>1, <2>3, <3>2, <3>4 DEF Attempt, TypeOK, Strays
  <2> QED
    BY <1>2, <2>2, <2>3 DEF Attempt
<1>3. CASE Gather
  <2>1. CASE AnyFailed
    BY <1>3, <2>1, FallbackType DEF Gather, TypeOK
  <2>2. ASSUME NEW C, Begin(C), UNCHANGED <<attempt, outcome, command, at>>
        PROVE  TypeOK'
    <3>1. /\ stage' \in [Tasks -> {"none", "predict", "reflect", "ok", "failed"}]
          /\ tries' \in [Tasks -> 0..Retries] /\ strays' \subseteq Strays
      BY <1>3, <2>2, BeginType DEF Gather, TypeOK
    <3> QED
      BY <1>3, <2>2, <3>1 DEF Gather, TypeOK, Strays
  <2>3. CASE End(attempt) /\ UNCHANGED <<attempt, stage, tries, strays>>
    <3>1. attempt \in 0..NumModels
      BY Numbers DEF TypeOK, Models
    <3>2. /\ command' \in Commands /\ outcome' \in [Commands -> 0..NumModels]
          /\ at' \in {"start", "done"}
      BY <2>3, <3>1, EndType
    <3> QED
      BY <1>3, <2>3, <3>2 DEF Gather, TypeOK
  <2> QED
    BY <1>3, <2>1, <2>2, <2>3 DEF Gather
<1>4. ASSUME NEW t \in Tasks, Predicted(t) \/ Reflected(t)
      PROVE  TypeOK'
  <2>1. /\ t[1] \in Commands /\ t[2] \in Models /\ Reflector(t[2]) \in Models
        /\ 1 \in 0..Retries /\ 0 \in 0..Retries
    BY Numbers DEF Tasks, Reflector
  <2>2. (tries[t] % Retries) + 1 \in 0..Retries
    BY TriesBounded DEF TypeOK
  <2>3. \A k \in {"predict", "reflect"}, m \in Models :
            Stray(t[1], k, m, deployment) \subseteq Strays
    BY <2>1, StrayType DEF TypeOK
  <2>4. /\ stage' \in [Tasks -> {"none", "predict", "reflect", "ok", "failed"}]
        /\ tries' \in [Tasks -> 0..Retries]
    BY <1>4, <2>1, <2>2 DEF Predicted, Reflected, Ends, Again, TypeOK
  <2>5. strays' \subseteq Strays
    BY <1>4, <2>1, <2>3 DEF Predicted, Reflected, Ends, Again, TypeOK, Strays
  <2> QED
    BY <1>4, <2>4, <2>5 DEF Predicted, Reflected, TypeOK, Strays
<1>5. CASE UNCHANGED vars
  BY <1>5 DEF vars, TypeOK
<1> QED
  BY <1>1, <1>2, <1>3, <1>4, <1>5 DEF Next
\* Every variable of the calls stays within its type: no attempt beyond the last
\* model, no retry beyond MODEL_RETRIES.
THEOREM CallsTypeCorrectness == Spec => []TypeOK
<1>1. Init => TypeOK
  BY Numbers DEF Init, TypeOK
<1> QED
  BY <1>1, TypeCorrect, PTL DEF Spec

-----------------------------------------------------------------------------
(* The inductive invariant *)

\* A coroutine exists only for an attempt that has begun.
Begun(t) ==
    \/ at = "done" \/ t[1] < command
    \/ at \in {"attempt", "gather"} /\ t[1] = command /\ t[2] < attempt
    \/ at = "gather" /\ t[1] = command /\ t[2] = attempt /\ t[3] <= chunks

\* What is still to come has left no trace.
Order ==
    /\ at # "done" => \A c \in Commands : command <= c => outcome[c] = 0
    /\ \A t \in Tasks : stage[t] # "none" => Begun(t)

\* Model m failed command c.
Failed(c, m) ==
    \/ <<c, m>> \in broken
    \/ \E k \in 1..MaxChunks : stage[<<c, m, k>>] = "failed"

\* The models before the one that is tried have failed.
Tried ==
    at \in {"attempt", "gather"} => \A m \in Models : m < attempt => Failed(command, m)

\* Without parallel_calls only the running attempt has a call out, and its other
\* chunks are answered or still to come.
Single ==
    ~parallel => \A t \in InFlight :
        /\ at = "gather" /\ t \in Current
        /\ \A u \in Current : u = t \/ stage[u] \in {"none", "ok"}

IInv == TypeOK /\ Order /\ AnswerIsWhole /\ Tried /\ RaisedAfterEveryModel /\ Single

\* While a command runs, only its attempts so far and earlier commands have begun.
LEMMA NothingAhead ==
    ASSUME IInv, at # "done", NEW t \in Tasks, stage[t] # "none"
    PROVE  t[1] < command \/ (t[1] = command /\ at # "start" /\ t[2] <= attempt)
<1>1. Begun(t)
  BY DEF IInv, Order
<1>2. t[2] \in Nat /\ attempt \in Nat
  BY Numbers DEF Tasks, IInv, TypeOK
<1> QED
  BY <1>1, <1>2 DEF Begun

\* The end of a command keeps the invariant, when the answer is whole or every
\* model failed.
LEMMA EndKeeps ==
    ASSUME IInv, TypeOK', at # "done", NEW m \in 0..NumModels, End(m),
           stage' = stage, broken \subseteq broken', parallel' = parallel,
           commands' = commands, fallbacks' = fallbacks,
           m # 0 => \A k \in 1..MaxChunks : stage[<<command, m, k>>] \in {"none", "ok"},
           m = 0 => \/ fallbacks > 0 /\ fallbacks + 1 < NumModels
                    \/ \A c \in Commands, n \in Models : c = command => Failed(c, n)',
           ~parallel => InFlight = {}
    PROVE  IInv'
<1>1. /\ command \in Commands /\ command \in Nat /\ commands \in Commands
      /\ outcome \in [Commands -> 0..NumModels]
  BY Numbers DEF IInv, TypeOK
<1>2. /\ outcome' = [outcome EXCEPT ![command] = m]
      /\ \/ command < commands /\ command' = command + 1 /\ at' = "start"
         \/ ~(command < commands) /\ at' = "done" /\ command' = command
  BY DEF End
<1>3. Order'
  <2>1. at' # "done" => \A c \in Commands : command' <= c => outcome'[c] = 0
    BY <1>1, <1>2, Numbers DEF IInv, Order
  <2>2. ASSUME NEW t \in Tasks, stage'[t] # "none" PROVE Begun(t)'
    <3>1. t[1] < command \/ t[1] = command
      BY <2>2, NothingAhead
    <3>2. t[1] \in Nat
      BY Numbers DEF Tasks
    <3> QED
      BY <1>1, <1>2, <3>1, <3>2 DEF Begun
  <2> QED
    BY <2>1, <2>2 DEF Order
<1>4. AnswerIsWhole'
  <2> SUFFICES ASSUME NEW c \in Commands, NEW n \in Models, outcome'[c] = n,
                      NEW k \in 1..MaxChunks
               PROVE  stage[<<c, n, k>>] \in {"none", "ok"}
    BY DEF AnswerIsWhole
  <2>1. CASE c = command
    <3>1. n = m /\ n # 0
      BY <1>1, <1>2, <2>1 DEF Models
    <3> QED
      BY <2>1, <3>1
  <2>2. CASE c # command
    BY <1>1, <1>2, <2>2 DEF IInv, AnswerIsWhole
  <2> QED
    BY <2>1, <2>2
<1>5. Tried'
  BY <1>2 DEF Tried
<1>6. RaisedAfterEveryModel'
  <2> SUFFICES ASSUME NEW c \in Commands, outcome'[c] = 0,
                      c < command' \/ (c = command' /\ at' = "done")
               PROVE  \/ fallbacks > 0 /\ fallbacks + 1 < NumModels
                      \/ \A n \in Models : Failed(c, n)'
    BY DEF RaisedAfterEveryModel, Failed
  <2>1. CASE c = command
    BY <1>1, <1>2, <2>1
  <2>2. CASE c # command
    <3>1. c \in Nat /\ c < command
      BY <1>1, <1>2, <2>2, Numbers DEF Commands
    <3>2. outcome[c] = 0
      BY <1>1, <1>2, <2>2
    <3> QED
      BY <3>1, <3>2 DEF IInv, RaisedAfterEveryModel, Failed
  <2> QED
    BY <2>1, <2>2
<1>7. Single'
  BY DEF Single, InFlight
<1> QED
  BY <1>3, <1>4, <1>5, <1>6, <1>7 DEF IInv

\* A failed attempt keeps the invariant.
LEMMA FallbackKeeps ==
    ASSUME IInv, TypeOK', at \in {"attempt", "gather"}, Fallback,
           stage' = stage, broken \subseteq broken', parallel' = parallel,
           commands' = commands, fallbacks' = fallbacks,
           \A c \in Commands : c = command => \A m \in Models : m = attempt => Failed(c, m)',
           ~parallel => InFlight = {}
    PROVE  IInv'
<1>1. attempt \in Models /\ attempt \in 1..NumModels /\ attempt \in Nat /\ NumModels \in Nat
  BY Numbers DEF IInv, TypeOK, Models
<1>2. \A c \in Commands, m \in Models : c = command /\ m <= attempt => Failed(c, m)'
  BY <1>1, Numbers DEF IInv, Tried, Failed
<1>3. CASE ModelsLeft
  <2>1. at' = "attempt" /\ attempt' = attempt + 1 /\ outcome' = outcome /\ command' = command
    BY <1>3 DEF Fallback
  <2>2. Order'
    <3>1. ASSUME NEW t \in Tasks, stage'[t] # "none" PROVE Begun(t)'
      <4>1. t[1] < command \/ (t[1] = command /\ t[2] <= attempt)
        BY <3>1, NothingAhead
      <4>2. t[2] \in Nat
        BY Numbers DEF Tasks
      <4> QED
        BY <1>1, <2>1, <4>1, <4>2 DEF Begun
    <3> QED
      BY <2>1, <3>1 DEF IInv, Order
  <2>3. AnswerIsWhole' /\ RaisedAfterEveryModel'
    BY <1>3, <2>1 DEF IInv, AnswerIsWhole, RaisedAfterEveryModel
  <2>4. Tried'
    <3>1. PICK c \in Commands : c = command /\ c = command'
      BY <2>1 DEF IInv, TypeOK
    <3>2. ASSUME NEW m \in Models, m < attempt' PROVE Failed(c, m)'
      BY <1>1, <1>2, <2>1, <3>1, <3>2, Numbers
    <3> QED
      BY <3>1, <3>2 DEF Tried
  <2>5. Single'
    BY DEF Single, InFlight
  <2> QED
    BY <2>2, <2>3, <2>4, <2>5 DEF IInv
<1>4. CASE ~ModelsLeft
  <2>1. End(0) /\ 0 \in 0..NumModels
    BY <1>1, <1>4 DEF Fallback
  <2>2. \A c \in Commands, m \in Models : c = command => Failed(c, m)'
    BY <1>1, <1>2, <1>4 DEF ModelsLeft, Models
  <2> QED
    BY <2>1, <2>2, EndKeeps
<1> QED
  BY <1>3, <1>4

\* The coroutines an attempt begins keep the invariant when they are new, and,
\* without parallel_calls, when there is one and nothing else is out.
LEMMA BeginKeeps ==
    ASSUME IInv, TypeOK', at \in {"attempt", "gather"}, at' = "gather", NEW C, Begin(C),
           UNCHANGED <<attempt, command, outcome, parallel, commands, fallbacks, broken>>,
           at = "gather" => chunks' = chunks,
           \A c \in C : /\ c \in 1..MaxChunks /\ c <= chunks'
                        /\ stage[<<command, attempt, c>>] = "none",
           ~parallel => /\ InFlight = {} /\ \A c, d \in C : c = d
                        /\ \A u \in Current' : stage[u] \in {"none", "ok"}
    PROVE  IInv'
<1> DEFINE new == {<<command, attempt, c>> : c \in C}
<1>1. /\ command \in Commands /\ attempt \in Models /\ at # "done"
      /\ stage \in [Tasks -> {"none", "predict", "reflect", "ok", "failed"}]
  BY DEF IInv, TypeOK
<1>2. stage' = [t \in Tasks |-> IF t \in new THEN "predict" ELSE stage[t]]
  BY DEF Begin
<1>3. \A t \in new : stage[t] = "none" /\ t \in Tasks
  BY <1>1 DEF Tasks
<1>4. \A t \in Tasks : stage[t] # "none" => stage'[t] = stage[t]
  BY <1>2, <1>3
<1>5. Order'
  <2>1. ASSUME NEW t \in Tasks, stage'[t] # "none" PROVE Begun(t)'
    <3>1. CASE t \in new
      BY <3>1 DEF Begun
    <3>2. CASE t \notin new
      <4>1. Begun(t)
        BY <1>2, <2>1, <3>2 DEF IInv, Order
      <4> QED
        BY <4>1 DEF Begun
    <3> QED
      BY <3>1, <3>2
  <2> QED
    BY <1>1, <2>1 DEF IInv, Order
<1>6. AnswerIsWhole'
  <2> SUFFICES ASSUME NEW c \in Commands, NEW n \in Models, outcome[c] = n,
                      NEW k \in 1..MaxChunks
               PROVE  stage'[<<c, n, k>>] \in {"none", "ok"}
    BY DEF AnswerIsWhole
  <2>1. outcome[command] = 0 /\ n # 0
    BY <1>1, Numbers DEF IInv, Order, Models
  <2>2. <<c, n, k>> \notin new /\ <<c, n, k>> \in Tasks
    BY <2>1 DEF Tasks
  <2>3. stage[<<c, n, k>>] \in {"none", "ok"}
    BY DEF IInv, AnswerIsWhole
  <2> QED
    BY <1>2, <2>2, <2>3
<1>7. \A c \in Commands, m \in Models : Failed(c, m) => Failed(c, m)'
  <2> SUFFICES ASSUME NEW c \in Commands, NEW m \in Models, NEW k \in 1..MaxChunks,
                      stage[<<c, m, k>>] = "failed"
               PROVE  stage'[<<c, m, k>>] = "failed"
    BY DEF Failed
  <2> QED
    BY <1>4 DEF Tasks
<1>8. Tried'
  BY <1>1, <1>7 DEF IInv, Tried
<1>9. RaisedAfterEveryModel'
  BY <1>1, <1>7 DEF IInv, RaisedAfterEveryModel, Failed
<1>10. Single'
  <2> SUFFICES ASSUME ~parallel, NEW t \in InFlight'
               PROVE  t \in Current' /\ \A u \in Current' : u = t \/ stage'[u] \in {"none", "ok"}
    BY DEF Single
  <2>1. t \in Tasks /\ stage'[t] \in {"predict", "reflect"} /\ t \notin InFlight
    BY DEF InFlight
  <2>2. t \in new
    BY <1>2, <2>1 DEF InFlight
  <2>3. PICK c \in C : t = <<command, attempt, c>> /\ c \in 1..MaxChunks /\ c <= chunks'
    BY <2>2
  <2>4. t \in Current' /\ chunks' \in Nat /\ chunks' <= MaxChunks
    BY <2>3, Numbers DEF Current, TypeOK
  <2>5. ASSUME NEW u \in Current', u # t PROVE stage'[u] \in {"none", "ok"}
    <3>1. u \notin new
      BY <2>3, <2>5
    <3>2. u \in Tasks
      BY <1>1, <2>4, Numbers DEF Current, Tasks
    <3> QED
      BY <1>2, <3>1, <3>2
  <2> QED
    BY <2>4, <2>5
<1> QED
  BY <1>5, <1>6, <1>8, <1>9, <1>10 DEF IInv

\* A command that starts tries the first model; nothing of it has begun.
LEMMA StartKeeps == IInv /\ Start => IInv'
<1> SUFFICES ASSUME IInv, Start PROVE IInv'
  OBVIOUS
<1>1. TypeOK'
  BY TypeCorrect DEF IInv, Next
<1>2. at = "start" /\ UNCHANGED <<parallel, commands, fallbacks, chunks, stage, broken>>
  BY DEF Start
<1>3. ~parallel => InFlight = {}
  BY <1>2 DEF IInv, Single
<1>4. CASE fallbacks > 0 /\ fallbacks + 1 < NumModels /\ End(0)
  BY <1>1, <1>2, <1>3, <1>4, EndKeeps, Numbers
<1>5. CASE at' = "attempt" /\ attempt' = 1 /\ UNCHANGED <<outcome, command>>
  <2>1. Order'
    <3>1. ASSUME NEW t \in Tasks, stage'[t] # "none" PROVE Begun(t)'
      <4>1. t[1] < command
        BY <1>2, <3>1, NothingAhead
      <4> QED
        BY <1>5, <4>1 DEF Begun
    <3> QED
      BY <1>2, <1>5, <3>1 DEF IInv, Order
  <2>2. AnswerIsWhole' /\ RaisedAfterEveryModel'
    BY <1>2, <1>5 DEF IInv, AnswerIsWhole, RaisedAfterEveryModel
  <2>3. Tried'
    BY <1>5, Numbers DEF Tried, Models
  <2>4. Single'
    BY <1>2, <1>3 DEF Single, InFlight
  <2> QED
    BY <1>1, <2>1, <2>2, <2>3, <2>4 DEF IInv
<1> QED
  BY <1>4, <1>5 DEF Start

\* An attempt fails at once, is answered without a call, or begins its chunks.
LEMMA AttemptKeeps == IInv /\ Attempt => IInv'
<1> SUFFICES ASSUME IInv, Attempt PROVE IInv'
  OBVIOUS
<1>1. TypeOK'
  BY TypeCorrect DEF IInv, Next
<1>2. at = "attempt" /\ UNCHANGED <<parallel, commands, fallbacks, first>>
  BY DEF Attempt
<1>3. ~parallel => InFlight = {}
  BY <1>2 DEF IInv, Single
<1>4. command \in Commands /\ attempt \in Models /\ attempt \in Nat /\ MaxChunks \in Nat
  BY Numbers DEF IInv, TypeOK
<1>5. \A k \in 1..MaxChunks : stage[<<command, attempt, k>>] = "none"
  <2> SUFFICES ASSUME NEW k \in 1..MaxChunks, stage[<<command, attempt, k>>] # "none"
               PROVE  FALSE
    OBVIOUS
  <2>1. PICK t \in Tasks : t = <<command, attempt, k>>
    BY <1>4 DEF Tasks
  <2>2. Begun(t)
    BY <2>1 DEF IInv, Order
  <2> QED
    BY <1>2, <1>4, <2>1, <2>2, Numbers DEF Begun
<1>6. CASE Fallback /\ broken' = broken \cup {<<command, attempt>>}
           /\ UNCHANGED <<chunks, stage, tries, strays>>
  <2>1. \A c \in Commands, m \in Models : c = command /\ m = attempt => Failed(c, m)'
    BY <1>6 DEF Failed
  <2> QED
    BY <1>1, <1>2, <1>3, <1>6, <2>1, FallbackKeeps
<1>7. ASSUME NEW n \in 0..MaxChunks, chunks' = n, Begin(FirstTasks(n)),
             IF n = 0 THEN End(attempt) ELSE at' = "gather" /\ UNCHANGED <<outcome, command>>,
             UNCHANGED <<attempt, broken>>
      PROVE  IInv'
  <2>1. PICK C : C = FirstTasks(n)
    OBVIOUS
  <2>2. CASE n = 0
    <3>1. C = {}
      BY <2>1, <2>2 DEF FirstTasks
    <3>2. stage' = stage
      BY <1>7, <2>1, <3>1 DEF Begin, IInv, TypeOK
    <3>3. attempt \in 0..NumModels /\ attempt # 0
      BY <1>4, Numbers DEF Models
    <3> QED
      BY <1>1, <1>2, <1>3, <1>5, <1>7, <2>2, <3>2, <3>3, EndKeeps
  <2>3. CASE n # 0
    <3>1. \A c \in C : c \in 1..n
      BY <2>1, <2>3 DEF FirstTasks
    <3>2. ~parallel => \A c, d \in C : c = d
      BY <2>1, <2>3 DEF FirstTasks
    <3>3. \A c \in C : c \in 1..MaxChunks /\ c <= chunks'
                       /\ stage[<<command, attempt, c>>] = "none"
      BY <1>4, <1>5, <1>7, <3>1
    <3>4. \A u \in Current' : stage[u] \in {"none", "ok"}
      BY <1>4, <1>5, <1>7, <2>3 DEF Current
    <3> QED
      BY <1>1, <1>2, <1>3, <1>7, <2>1, <2>3, <3>2, <3>3, <3>4, BeginKeeps
  <2> QED
    BY <2>2, <2>3
<1> QED
  BY <1>6, <1>7 DEF Attempt

\* gather returns when all chunks are answered, raises with the first failure, or,
\* in the loop, goes on with the next chunk.
LEMMA GatherKeeps == IInv /\ Gather => IInv'
<1> SUFFICES ASSUME IInv, Gather PROVE IInv'
  OBVIOUS
<1>1. TypeOK'
  BY TypeCorrect DEF IInv, Next
<1>2. at = "gather" /\ UNCHANGED <<parallel, commands, fallbacks, first, chunks, deployment, broken>>
  BY DEF Gather
<1>3. /\ command \in Commands /\ attempt \in Models /\ attempt \in Nat /\ MaxChunks \in Nat
      /\ chunks \in 0..MaxChunks
      /\ stage \in [Tasks -> {"none", "predict", "reflect", "ok", "failed"}]
  BY Numbers DEF IInv, TypeOK
<1>4. Current \subseteq Tasks
  BY <1>3 DEF Current, Tasks
<1>5. CASE AnyFailed
  <2>1. PICK c \in 1..chunks : stage[<<command, attempt, c>>] = "failed"
    BY <1>5 DEF AnyFailed, Current
  <2>2. \A d \in Commands, m \in Models : d = command /\ m = attempt => Failed(d, m)'
    <3>1. stage' = stage /\ c \in 1..MaxChunks
      BY <1>3, <1>5, <2>1 DEF Gather
    <3> QED
      BY <2>1, <3>1 DEF Failed
  <2>3. ~parallel => InFlight = {}
    <3> SUFFICES ASSUME ~parallel, NEW t \in InFlight PROVE FALSE
      OBVIOUS
    <3>1. <<command, attempt, c>> \in Current
      BY <2>1 DEF Current
    <3>2. t # <<command, attempt, c>>
      BY <2>1 DEF InFlight
    <3> QED
      BY <2>1, <3>1, <3>2 DEF IInv, Single
  <2> QED
    BY <1>1, <1>2, <1>5, <2>2, <2>3, FallbackKeeps DEF Gather
<1>6. CASE ~AnyFailed
  <2>1. \A t \in Current : stage[t] \in {"none", "ok"}
    BY <1>6 DEF Gather, AnyFailed
  <2>2. ~parallel => InFlight = {}
    BY <2>1 DEF IInv, Single, InFlight
  <2>3. ASSUME NEW c \in 1..chunks, stage[<<command, attempt, c>>] = "none", Begin({c}),
               UNCHANGED <<outcome, command, at, attempt>>
        PROVE  IInv'
    <3>1. Current' = Current
      BY <1>2, <2>3 DEF Current
    <3> QED
      BY <1>1, <1>2, <1>3, <2>1, <2>2, <2>3, <3>1, BeginKeeps
  <2>4. CASE End(attempt) /\ (\A t \in Current : stage[t] # "none")
             /\ UNCHANGED <<attempt, stage, tries, strays>>
    <3>1. attempt \in 0..NumModels /\ attempt # 0
      BY <1>3, Numbers DEF Models
    <3>2. ASSUME NEW k \in 1..MaxChunks PROVE stage[<<command, attempt, k>>] \in {"none", "ok"}
      <4>1. PICK t \in Tasks : t = <<command, attempt, k>>
        BY <1>3 DEF Tasks
      <4>2. CASE k <= chunks
        BY <1>3, <2>1, <4>2 DEF Current
      <4>3. CASE ~(k <= chunks)
        <5>1. ~Begun(t)
          BY <1>2, <1>3, <4>1, <4>3, Numbers DEF Begun
        <5> QED
          BY <4>1, <5>1 DEF IInv, Order
      <4> QED
        BY <4>2, <4>3
    <3> QED
      BY <1>1, <1>2, <2>2, <2>4, <3>1, <3>2, EndKeeps
  <2> QED
    BY <1>6, <2>3, <2>4 DEF Gather
<1> QED
  BY <1>5, <1>6

\* An answer changes one coroutine, whose call was out, and nothing else.
LEMMA AnswerKeeps ==
    ASSUME IInv, NEW t \in Tasks, Predicted(t) \/ Reflected(t)
    PROVE  IInv'
<1>1. TypeOK'
  BY TypeCorrect DEF IInv, Next
<1>2. /\ UNCHANGED <<parallel, commands, fallbacks, command, at, attempt, chunks, outcome, broken>>
      /\ t \in InFlight /\ stage[t] \in {"predict", "reflect"}
      /\ \A u \in Tasks : u # t => stage'[u] = stage[u]
  BY DEF Predicted, Reflected, Ends, Again, InFlight, IInv, TypeOK
<1>3. Order'
  <2>1. ASSUME NEW u \in Tasks, stage'[u] # "none" PROVE Begun(u)'
    <3>1. Begun(u)
      BY <1>2, <2>1 DEF IInv, Order
    <3> QED
      BY <1>2, <3>1 DEF Begun
  <2> QED
    BY <1>2, <2>1 DEF IInv, Order
<1>4. AnswerIsWhole'
  <2> SUFFICES ASSUME NEW c \in Commands, NEW m \in Models, outcome[c] = m,
                      NEW k \in 1..MaxChunks
               PROVE  stage'[<<c, m, k>>] \in {"none", "ok"}
    BY <1>2 DEF AnswerIsWhole
  <2>1. stage[<<c, m, k>>] \in {"none", "ok"} /\ <<c, m, k>> \in Tasks
    BY DEF IInv, AnswerIsWhole, Tasks
  <2> QED
    BY <1>2, <2>1
<1>5. \A c \in Commands, m \in Models : Failed(c, m) => Failed(c, m)'
  <2> SUFFICES ASSUME NEW c \in Commands, NEW m \in Models, NEW k \in 1..MaxChunks,
                      stage[<<c, m, k>>] = "failed"
               PROVE  stage'[<<c, m, k>>] = "failed"
    BY <1>2 DEF Failed
  <2> QED
    BY <1>2 DEF Tasks
<1>6. Tried'
  BY <1>2, <1>5 DEF IInv, TypeOK, Tried
<1>7. RaisedAfterEveryModel'
  BY <1>2, <1>5 DEF IInv, RaisedAfterEveryModel, Failed
<1>8. Single'
  <2> SUFFICES ASSUME ~parallel, NEW u \in InFlight'
               PROVE  /\ at = "gather" /\ u \in Current
                      /\ \A v \in Current : v = u \/ stage'[v] \in {"none", "ok"}
    BY <1>2 DEF Single, Current
  <2>1. /\ at = "gather" /\ t \in Current /\ Current \subseteq Tasks
        /\ \A v \in Current : v = t \/ stage[v] \in {"none", "ok"}
    BY <1>2, Numbers DEF IInv, Single, TypeOK, Current, Tasks
  <2>2. u = t
    <3> SUFFICES ASSUME u # t PROVE FALSE
      OBVIOUS
    <3>1. u \in InFlight
      BY <1>2 DEF InFlight
    <3>2. u \in Current /\ stage[t] \in {"none", "ok"}
      BY <2>1, <3>1 DEF IInv, Single
    <3> QED
      BY <1>2, <3>2
  <2> QED
    BY <1>2, <2>1, <2>2
<1> QED
  BY <1>1, <1>3, <1>4, <1>6, <1>7, <1>8 DEF IInv

\* At the start nothing has begun.
LEMMA InvInit == Init => IInv
<1> SUFFICES ASSUME Init PROVE IInv
  OBVIOUS
<1>1. TypeOK
  BY Numbers DEF Init, TypeOK
<1>2. Order /\ Single
  BY DEF Init, Order, Single, InFlight
<1>3. AnswerIsWhole /\ Tried
  BY Numbers DEF Init, AnswerIsWhole, Tried, Models
<1>4. RaisedAfterEveryModel
  BY DEF Init, RaisedAfterEveryModel, Commands
<1> QED
  BY <1>1, <1>2, <1>3, <1>4 DEF IInv

\* Every step keeps the invariant.
LEMMA Inductive == IInv /\ [Next]_vars => IInv'
<1> SUFFICES ASSUME IInv, UNCHANGED vars PROVE IInv'
  BY StartKeeps, AttemptKeeps, GatherKeeps, AnswerKeeps DEF Next
<1>1. TypeOK' /\ AnswerIsWhole' /\ RaisedAfterEveryModel'
  BY DEF IInv, vars, TypeOK, AnswerIsWhole, RaisedAfterEveryModel
<1>2. Order' /\ Tried' /\ Single'
  BY DEF IInv, vars, Order, Begun, Tried, Failed, Single, InFlight, Current
<1> QED
  BY <1>1, <1>2 DEF IInv

\* So it holds in every state.
LEMMA Invariant == Spec => []IInv
  BY InvInit, Inductive, PTL DEF Spec

-----------------------------------------------------------------------------

\* retry_with_fallback_models never returns while a chunk of the attempt that
\* answered is out or has failed, and no late answer changes that.
THEOREM WholeCorrectness == Spec => []AnswerIsWhole
<1>1. IInv => AnswerIsWhole
  BY DEF IInv
<1> QED
  BY <1>1, Invariant, PTL

\* It raises only when every model has failed, or the settings name too few
\* deployments.
THEOREM RaisedCorrectness == Spec => []RaisedAfterEveryModel
<1>1. IInv => RaisedAfterEveryModel
  BY DEF IInv
<1> QED
  BY <1>1, Invariant, PTL

\* Without parallel_calls two calls are never out at once, not even when an attempt
\* failed and the next one runs.
THEOREM OneCallCorrectness == Spec => []OneCallAtATime
<1>1. IInv => OneCallAtATime
  <2> SUFFICES ASSUME IInv, ~parallel PROVE Cardinality(InFlight) <= 1
    BY DEF OneCallAtATime
  <2>1. \A t, u \in InFlight : t = u
    BY DEF IInv, Single, InFlight
  <2>2. InFlight = {} \/ \E t \in InFlight : InFlight = {t}
    BY <2>1
  <2>3. CASE InFlight = {}
    <3>1. Cardinality(InFlight) = 0
      BY <2>3, FS_EmptySet
    <3> QED
      BY <3>1
  <2>4. ASSUME NEW t \in InFlight, InFlight = {t} PROVE Cardinality(InFlight) <= 1
    <3>1. Cardinality({t}) = 1
      BY FS_Singleton
    <3> QED
      BY <2>4, <3>1
  <2> QED
    BY <2>2, <2>3, <2>4
<1> QED
  BY <1>1, Invariant, PTL

-----------------------------------------------------------------------------
(* Models and deployments *)

\* Every command before c was answered by the first model.
Clean(c) == \A d \in Commands : d < c => outcome[d] = 1

\* Up to the first command that fell back, the deployment is that of the model that
\* is tried, and no call for suggestions goes astray.
Paired ==
    ~parallel /\ fallbacks > 0 =>
        /\ \A x \in strays : /\ x.command \in Commands /\ x.command <= command
                             /\ x.kind = "predict" => ~Clean(x.command)
        /\ Clean(command) => /\ at = "start" => deployment = 1
                             /\ at \in {"attempt", "gather"} => first = 1
                             /\ at = "gather" => deployment = attempt

\* What a call adds to the strays.
LEMMA StrayIs ==
    ASSUME NEW c, NEW kind, NEW m, NEW d, NEW x \in Stray(c, kind, m, d)
    PROVE  x.command = c /\ x.kind = kind /\ d # m
  BY DEF Stray

\* The calls so far stay as they were judged when no earlier command gets another
\* outcome.
LEMMA StraysKept ==
    ASSUME TypeOK, Paired, ~parallel, fallbacks > 0, command' \in Commands, command <= command',
           \A d \in Commands : d < command => outcome'[d] = outcome[d],
           \A x \in strays' \ strays :
               /\ x.command = command
               /\ x.kind = "predict" => ~Clean(command)
    PROVE  \A x \in strays' : /\ x.command \in Commands /\ x.command <= command'
                              /\ x.kind = "predict" => ~Clean(x.command)'
<1>1. command \in Commands /\ \A c \in Commands : c \in Nat
  BY Numbers DEF TypeOK, Commands
<1>2. \A c \in Commands : c <= command /\ ~Clean(c) => ~Clean(c)'
  BY <1>1 DEF Clean
<1>3. \A x \in strays : /\ x.command \in Commands /\ x.command <= command
                        /\ x.kind = "predict" => ~Clean(x.command)
  BY DEF Paired
<1> SUFFICES ASSUME NEW x \in strays'
             PROVE  /\ x.command \in Commands /\ x.command <= command'
                    /\ x.kind = "predict" => ~Clean(x.command)'
  OBVIOUS
<1>4. CASE x \in strays
  BY <1>1, <1>2, <1>3, <1>4
<1>5. CASE x \notin strays
  <2>1. x.command = command /\ command <= command
    BY <1>1, <1>5
  <2> QED
    BY <1>1, <1>2, <1>5, <2>1
<1> QED
  BY <1>4, <1>5

\* The command after this one starts with the first deployment when this one was
\* answered by the first model.
LEMMA EndPaired ==
    ASSUME TypeOK, Paired, ~parallel, fallbacks > 0, NEW m, End(m), strays' = strays,
           Clean(command) /\ m = 1 => deployment' = 1,
           parallel' = parallel, fallbacks' = fallbacks
    PROVE  Paired'
<1>1. /\ command \in Commands /\ command \in Nat /\ commands \in Commands
      /\ outcome \in [Commands -> 0..NumModels]
  BY Numbers DEF TypeOK
<1>2. /\ outcome' = [outcome EXCEPT ![command] = m]
      /\ \/ command < commands /\ command' = command + 1 /\ at' = "start"
         \/ ~(command < commands) /\ at' = "done" /\ command' = command
  BY DEF End
<1>3. command' \in Commands /\ command <= command'
  BY <1>1, <1>2, Numbers DEF Commands
<1>4. \A d \in Commands : d < command => outcome'[d] = outcome[d]
  BY <1>1, <1>2
<1>5. \A x \in strays' : /\ x.command \in Commands /\ x.command <= command'
                         /\ x.kind = "predict" => ~Clean(x.command)'
  BY <1>3, <1>4, StraysKept
<1>6. ASSUME Clean(command)', at' = "start" PROVE deployment' = 1
  <2>1. command' = command + 1
    BY <1>2, <1>6
  <2>2. outcome'[command] = 1
    BY <1>1, <1>6, <2>1 DEF Clean
  <2>3. m = 1
    BY <1>1, <1>2, <2>2
  <2>4. \A d \in Commands : d < command => d < command'
    BY <1>1, <2>1, Numbers DEF Commands
  <2>5. Clean(command)
    BY <1>4, <1>6, <2>4 DEF Clean
  <2> QED
    BY <2>3, <2>5
<1> QED
  BY <1>2, <1>5, <1>6 DEF Paired

LEMMA PairedInit == Init => Paired
  BY DEF Init, Paired

LEMMA PairedNext == IInv /\ Paired /\ [Next]_vars => Paired'
<1> SUFFICES ASSUME IInv, Paired, [Next]_vars, ~parallel', fallbacks' > 0 PROVE Paired'
  BY DEF Paired
<1>0. TypeOK /\ command \in Commands /\ command <= command /\ attempt \in Models
  BY Numbers DEF IInv, TypeOK
<1>a. ~parallel /\ fallbacks > 0 /\ UNCHANGED <<parallel, fallbacks>>
  BY DEF Next, Start, Attempt, Gather, Predicted, Reflected, vars
<1>1. CASE Start
  <2>1. at = "start" /\ first' = deployment /\ strays' = strays /\ deployment' = deployment
    BY <1>1 DEF Start
  <2>2. CASE End(0)
    BY <1>0, <1>a, <2>1, <2>2, EndPaired
  <2>3. CASE at' = "attempt" /\ UNCHANGED <<outcome, command>>
    BY <1>a, <2>1, <2>3 DEF Paired, Clean
  <2> QED
    BY <1>1, <2>2, <2>3 DEF Start
<1>2. CASE Attempt
  <2>1. at = "attempt" /\ first' = first /\ deployment' = DeploymentOf(attempt)
    BY <1>2 DEF Attempt
  <2>2. Clean(command) => first = 1 /\ deployment' = attempt
    BY <1>a, <2>1 DEF Paired, DeploymentOf
  <2>3. CASE Fallback /\ UNCHANGED <<chunks, stage, tries, strays>>
    <3>1. CASE End(0)
      BY <1>0, <1>a, <2>3, <3>1, EndPaired
    <3>2. CASE at' = "attempt" /\ UNCHANGED <<outcome, command>>
      BY <1>a, <2>1, <2>3, <3>2 DEF Paired, Clean
    <3> QED
      BY <2>3, <3>1, <3>2 DEF Fallback
  <2>4. ASSUME NEW n \in 0..MaxChunks, Begin(FirstTasks(n)),
               IF n = 0 THEN End(attempt) ELSE at' = "gather" /\ UNCHANGED <<outcome, command>>,
               attempt' = attempt
        PROVE  Paired'
    <3>1. CASE n = 0
      <4>1. strays' = strays
        BY <2>4, <3>1 DEF Begin, FirstTasks
      <4> QED
        BY <1>0, <1>a, <2>2, <2>4, <3>1, <4>1, EndPaired
    <3>2. CASE n # 0
      <4>1. \A x \in strays' \ strays : x \in Stray(command, "predict", attempt, deployment')
        BY <2>4 DEF Begin
      <4>2. \A x \in strays' \ strays : x.command = command /\ ~Clean(command)
        BY <2>2, <4>1, StrayIs
      <4>3. at' = "gather" /\ UNCHANGED <<outcome, command>>
        BY <2>4, <3>2
      <4>4. \A x \in strays' : /\ x.command \in Commands /\ x.command <= command'
                               /\ x.kind = "predict" => ~Clean(x.command)'
        BY <1>0, <1>a, <4>2, <4>3, StraysKept
      <4> QED
        BY <2>1, <2>2, <2>4, <4>3, <4>4 DEF Paired, Clean
    <3> QED
      BY <3>1, <3>2
  <2> QED
    BY <1>2, <2>3, <2>4 DEF Attempt
<1>3. CASE Gather
  <2>1. at = "gather" /\ UNCHANGED <<first, deployment>>
    BY <1>3 DEF Gather
  <2>2. Clean(command) => first = 1 /\ deployment = attempt
    BY <1>a, <2>1 DEF Paired
  <2>3. CASE Fallback /\ UNCHANGED strays
    <3>1. CASE End(0)
      BY <1>0, <1>a, <2>3, <3>1, EndPaired
    <3>2. CASE at' = "attempt" /\ UNCHANGED <<outcome, command>>
      BY <1>a, <2>1, <2>3, <3>2 DEF Paired, Clean
    <3> QED
      BY <2>3, <3>1, <3>2 DEF Fallback
  <2>4. CASE End(attempt) /\ UNCHANGED <<attempt, strays>>
    BY <1>0, <1>a, <2>1, <2>2, <2>4, EndPaired
  <2>5. ASSUME NEW c \in 1..chunks, Begin({c}), UNCHANGED <<outcome, command, at, attempt>>
        PROVE  Paired'
    <3>1. \A x \in strays' \ strays : x \in Stray(command, "predict", attempt, deployment)
      BY <2>1, <2>5 DEF Begin
    <3>2. \A x \in strays' \ strays : x.command = command /\ ~Clean(command)
      BY <2>2, <3>1, StrayIs
    <3>3. \A x \in strays' : /\ x.command \in Commands /\ x.command <= command'
                             /\ x.kind = "predict" => ~Clean(x.command)'
      BY <1>0, <1>a, <2>5, <3>2, StraysKept
    <3> QED
      BY <2>1, <2>2, <2>5, <3>3 DEF Paired, Clean
  <2> QED
    BY <1>3, <2>3, <2>4, <2>5 DEF Gather
<1>4. ASSUME NEW t \in Tasks, Predicted(t) \/ Reflected(t) PROVE Paired'
  <2>1. UNCHANGED <<command, at, attempt, first, deployment, outcome>> /\ t \in InFlight
    BY <1>4 DEF Predicted, Reflected, InFlight
  <2>2. at = "gather" /\ t[1] = command /\ t[2] = attempt
    BY <1>a, <2>1 DEF IInv, Single, Current
  <2>3. Clean(command) => deployment = attempt
    BY <1>a, <2>2 DEF Paired
  <2>4. \A x \in strays' \ strays :
            \/ x \in Stray(command, "predict", attempt, deployment)
            \/ x \in Stray(command, "reflect", Reflector(attempt), deployment)
    BY <1>4, <2>2 DEF Predicted, Reflected, Ends, Again
  <2>5. \A x \in strays' \ strays :
            x.command = command /\ (x.kind = "predict" => ~Clean(command))
    BY <2>3, <2>4, StrayIs
  <2>6. \A x \in strays' : /\ x.command \in Commands /\ x.command <= command'
                           /\ x.kind = "predict" => ~Clean(x.command)'
    BY <1>0, <1>a, <2>1, <2>5, StraysKept
  <2> QED
    BY <1>a, <2>1, <2>2, <2>6 DEF Paired, Clean
<1>5. CASE UNCHANGED vars
  BY <1>5 DEF vars, Paired, Clean
<1> QED
  BY <1>1, <1>2, <1>3, <1>4, <1>5 DEF Next

\* Without parallel_calls the prompts go to the deployment of their model, for any
\* models, chunks and retries, until a command of the request fell back.
THEOREM PairedCorrectness == Spec => []SequentialCallsArePaired
<1>1. TypeOK /\ Paired => SequentialCallsArePaired
  <2> SUFFICES ASSUME TypeOK, Paired, ~parallel, fallbacks > 0,
                      NEW x \in strays, x.kind = "predict"
               PROVE  \E c \in 1..x.command - 1 : outcome[c] # 1
    BY DEF SequentialCallsArePaired
  <2>1. x.command \in Commands /\ ~Clean(x.command)
    BY DEF Paired
  <2>2. PICK d \in Commands : d < x.command /\ outcome[d] # 1
    BY <2>1 DEF Clean
  <2>3. d \in 1..x.command - 1
    BY <2>1, <2>2, Numbers DEF Commands
  <2> QED
    BY <2>2, <2>3
<1>2. IInv => TypeOK
  BY DEF IInv
<1> QED
  BY <1>1, <1>2, Invariant, PairedInit, PairedNext, PTL DEF Spec

=============================================================================
