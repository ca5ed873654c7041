----------------------------- MODULE ModelCalls -----------------------------
(***************************************************************************)
(* The calls to the model behind /improve: retry_with_fallback_models      *)
(* (garda/algo/pr_processing.py) around prepare_prediction_main            *)
(* (garda/tools/pr_code_suggestions.py), which asks for the suggestions of *)
(* each chunk of the diff and then for a reflection on them, through the   *)
(* retries of chat_completion (garda/algo/ai_handlers).  The commands of   *)
(* one request share its settings, and openai.deployment_id is one.        *)
(*                                                                         *)
(* One step is what a coroutine does from an answer to its next call.  A   *)
(* coroutine that asyncio.gather no longer waits for goes on.              *)
(***************************************************************************)
EXTENDS Integers, FiniteSets

CONSTANTS NumCommands,    \* commands a request may have, run one after the other
          NumModels,      \* the model and its fallback_models, in order
          MaxChunks,      \* prompts get_pr_multi_diffs may return
          Retries,        \* MODEL_RETRIES
          Requests,       \* the requests: parallel_calls and the number of commands
          FallbackCounts  \* lengths fallback_deployments may have

Commands == 1..NumCommands

ASSUME ModelCallsAssumption ==
    /\ {NumCommands, NumModels, Retries} \subseteq Nat \ {0}
    /\ MaxChunks \in Nat /\ FallbackCounts \subseteq Nat
    /\ Requests \subseteq [parallel : BOOLEAN, commands : Commands]

Models == 1..NumModels

\* Deployment m is the one configured for model m.
Deployments == 1..NumModels

\* The coroutine of a chunk, of one attempt of one command.
Tasks == Commands \X Models \X (1..MaxChunks)

VARIABLES parallel,   \* parallel_calls
          commands,   \* number of commands of the request
          fallbacks,  \* number of fallback_deployments
          command,    \* the command that is running
          at,         \* where its retry_with_fallback_models is
          attempt,    \* the model it tries
          first,      \* the deployment it read at the start
          chunks,     \* prompts of this attempt
          deployment, \* openai.deployment_id
          stage,      \* stage[t]: what coroutine t does
          tries,      \* tries[t]: attempts of the chat_completion that is out
          strays,     \* calls made to the deployment of another model
          outcome,    \* outcome[c]: the model that answered command c, or 0
          broken      \* attempts whose prompts could not be prepared

vars == <<parallel, commands, fallbacks, command, at, attempt, first, chunks, deployment, stage,
          tries, strays, outcome, broken>>

InFlight == {t \in Tasks : stage[t] \in {"predict", "reflect"}}

TypeOK ==
    /\ parallel \in BOOLEAN /\ commands \in Commands /\ fallbacks \in FallbackCounts
    /\ command \in Commands
    /\ at \in {"start", "attempt", "gather", "done"}
    /\ attempt \in Models /\ first \in Deployments /\ deployment \in Deployments
    /\ chunks \in 0..MaxChunks
    /\ stage \in [Tasks -> {"none", "predict", "reflect", "ok", "failed"}]
    /\ tries \in [Tasks -> 0..Retries]
    /\ strays \subseteq [command : Commands, kind : {"predict", "reflect"},
                         model : Models, deployment : Deployments]
    /\ outcome \in [Commands -> 0..NumModels]
    /\ broken \subseteq Commands \X Models

Init ==
    /\ \E q \in Requests : parallel = q.parallel /\ commands = q.commands
    /\ fallbacks \in FallbackCounts
    /\ command = 1 /\ at = "start" /\ attempt = 1
    /\ first = 1 /\ deployment = 1 /\ chunks = 0
    /\ stage = [t \in Tasks |-> "none"] /\ tries = [t \in Tasks |-> 0]
    /\ strays = {}
    /\ outcome = [c \in Commands |-> 0]
    /\ broken = {}

-----------------------------------------------------------------------------
(* retry_with_fallback_models *)

\* The command ended, answered by model m or by none (0); the next one starts.
End(m) ==
    /\ outcome' = [outcome EXCEPT ![command] = m]
    /\ IF command < commands
       THEN command' = command + 1 /\ at' = "start"
       ELSE at' = "done" /\ UNCHANGED command

\* _get_all_models and _get_all_deployments: the first deployment is whatever the
\* setting says by now, and too few fallback deployments are an error.
Start ==
    /\ at = "start"
    /\ first' = deployment
    /\ attempt' = 1
    /\ IF fallbacks > 0 /\ fallbacks + 1 < NumModels
       THEN End(0)
       ELSE at' = "attempt" /\ UNCHANGED <<outcome, command>>
    /\ UNCHANGED <<parallel, commands, fallbacks, chunks, deployment, stage, tries, strays, broken>>

\* Faulty variant: the model is paired with the next deployment.
DeploymentOfNext(m) == IF m = 1 \/ fallbacks = 0 THEN first ELSE (m % NumModels) + 1

\* all_deployments[m]
DeploymentOf(m) == IF m = 1 \/ fallbacks = 0 THEN first ELSE m

\* Faulty variants: the last model is not tried; one past the last is.
ModelsLeftEarly == attempt + 1 < NumModels
ModelsLeftLate == attempt <= NumModels
ModelsLeft == attempt < NumModels

\* The exception of an attempt: the next model, or the end of the command.
Fallback ==
    IF ModelsLeft
    THEN at' = "attempt" /\ attempt' = attempt + 1 /\ UNCHANGED <<outcome, command>>
    ELSE End(0) /\ UNCHANGED attempt

\* The call of command c to model m, with the deployment d, if it is astray.
Stray(c, kind, m, d) ==
    IF d = m THEN {} ELSE {[command |-> c, kind |-> kind, model |-> m, deployment |-> d]}

\* Faulty variant: all chunks at once whatever parallel_calls says.
FirstTasksAll(n) == 1..n

\* The chunks an attempt begins with.
FirstTasks(n) == IF parallel \/ n = 0 THEN 1..n ELSE {1}

\* The coroutines of the chunks C begin, each with its first call.
Begin(C) ==
    LET new == {<<command, attempt, c>> : c \in C} IN
    /\ stage' = [t \in Tasks |-> IF t \in new THEN "predict" ELSE stage[t]]
    /\ tries' = [t \in Tasks |-> IF t \in new THEN 1 ELSE tries[t]]
    /\ strays' = IF C = {} THEN strays
                 ELSE strays \cup Stray(command, "predict", attempt, deployment')

\* An attempt sets the deployment and prepares the prompts; no prompt at all is an
\* answer without suggestions.
Attempt ==
    /\ at = "attempt"
    /\ deployment' = DeploymentOf(attempt)
    /\ \/ /\ Fallback
          /\ broken' = broken \cup {<<command, attempt>>}
          /\ UNCHANGED <<chunks, stage, tries, strays>>
       \/ \E n \in 0..MaxChunks :
            /\ chunks' = n
            /\ Begin(FirstTasks(n))
            /\ IF n = 0 THEN End(attempt)
                        ELSE at' = "gather" /\ UNCHANGED <<outcome, command>>
            /\ UNCHANGED <<attempt, broken>>
    /\ UNCHANGED <<parallel, commands, fallbacks, first>>

-----------------------------------------------------------------------------
(* _get_prediction *)

\* The model that reflects when model_reasoning is not set.
Reflector(m) == IF m = 2 THEN 2 ELSE 1

\* Faulty variant: no limit.
MayRetryAlways(t) == TRUE

\* stop_after_attempt
MayRetry(t) == tries[t] < Retries

\* A retry of the call reads the deployment again.
Again(t, kind, m) ==
    /\ MayRetry(t)
    /\ tries' = [tries EXCEPT ![t] = (@ % Retries) + 1]
    /\ strays' = strays \cup Stray(t[1], kind, m, deployment)
    /\ UNCHANGED stage

\* The coroutine ends.
Ends(t, s) ==
    /\ stage' = [stage EXCEPT ![t] = s]
    /\ tries' = [tries EXCEPT ![t] = 0]
    /\ UNCHANGED strays

\* The answer with the suggestions: none of them; some, which are reflected on; one
\* that cannot be parsed, a rate limit or the last retry; or an error.
Predicted(t) ==
    /\ stage[t] = "predict"
    /\ \/ Ends(t, "ok") \/ Ends(t, "failed")
       \/ /\ stage' = [stage EXCEPT ![t] = "reflect"]
          /\ tries' = [tries EXCEPT ![t] = 1]
          /\ strays' = strays \cup Stray(t[1], "reflect", Reflector(t[2]), deployment)
       \/ Again(t, "predict", t[2])
    /\ UNCHANGED <<parallel, commands, fallbacks, command, at, attempt, first, chunks, deployment,
                   outcome, broken>>

\* The answer with the reflection; without one the suggestions get score 7, and
\* one that cannot be read fails the chunk.
Reflected(t) ==
    /\ stage[t] = "reflect"
    /\ \/ Ends(t, "ok") \/ Ends(t, "failed")
       \/ Again(t, "reflect", Reflector(t[2]))
    /\ UNCHANGED <<parallel, commands, fallbacks, command, at, attempt, first, chunks, deployment,
                   outcome, broken>>

Current == {<<command, attempt, c>> : c \in 1..chunks}

\* Faulty variant: failed chunks are left out of the answer (return_exceptions).
AnyFailedIgnored == FALSE
AnyFailed == \E t \in Current : stage[t] = "failed"

\* asyncio.gather, or the loop over the chunks: the first failure fails the attempt.
Gather ==
    /\ at = "gather"
    /\ UNCHANGED <<parallel, commands, fallbacks, first, chunks, deployment, broken>>
    /\ IF AnyFailed
       THEN Fallback /\ UNCHANGED <<stage, tries, strays>>
       ELSE /\ \A t \in Current : stage[t] \in {"none", "ok", "failed"}
            /\ UNCHANGED attempt
            /\ IF \E t \in Current : stage[t] = "none"
               THEN /\ \E c \in 1..chunks :
                         /\ stage[<<command, attempt, c>>] = "none"
                         /\ \A d \in 1..c - 1 : stage[<<command, attempt, d>>] # "none"
                         /\ Begin({c})
                    /\ UNCHANGED <<outcome, command, at>>
               ELSE End(attempt) /\ UNCHANGED <<stage, tries, strays>>

Next == Start \/ Attempt \/ Gather \/ \E t \in Tasks : Predicted(t) \/ Reflected(t)

Spec == Init /\ [][Next]_vars

\* Calls are answered or time out (ai_timeout), and the event loop runs whatever
\* is ready.
FairSpec ==
    /\ Spec
    /\ WF_vars(Start) /\ WF_vars(Attempt) /\ WF_vars(Gather)
    /\ \A t \in Tasks : WF_vars(Predicted(t) \/ Reflected(t))

-----------------------------------------------------------------------------
(* Properties *)

\* The answer of a command is whole: no chunk of the attempt that answered failed
\* or is still out, whatever coroutines of earlier attempts do meanwhile.
AnswerIsWhole ==
    \A c \in Commands, m \in Models : outcome[c] = m =>
        \A k \in 1..MaxChunks : stage[<<c, m, k>>] \in {"none", "ok"}

\* A command that raises has had a failure from every model, unless the settings
\* name too few deployments.
RaisedAfterEveryModel ==
    \A c \in Commands :
        outcome[c] = 0 /\ (c < command \/ (c = command /\ at = "done")) =>
            \/ fallbacks > 0 /\ fallbacks + 1 < NumModels
            \/ \A m \in Models :
                 \/ <<c, m>> \in broken
                 \/ \E k \in 1..MaxChunks : stage[<<c, m, k>>] = "failed"

\* Without parallel_calls at most one call is out, over all attempts and commands.
OneCallAtATime == ~parallel => Cardinality(InFlight) <= 1

\* Without parallel_calls every prompt goes to the deployment of its model as long
\* as no earlier command of the request fell back.
SequentialCallsArePaired ==
    ~parallel /\ fallbacks > 0 =>
        \A x \in strays :
            x.kind = "predict" => \E c \in 1..x.command - 1 : outcome[c] # 1

\* Every command ends, and the coroutines nobody waits for end too.
EveryCallEnds == <>[](at = "done" /\ InFlight = {})

\* .secrets_template.toml, fallback_deployments: "For each fallback model specified
\* in configuration.toml in the [config] section, specify the appropriate
\* deployment_id".
CallsArePaired == fallbacks > 0 => strays = {}

=============================================================================
