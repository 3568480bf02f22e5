------------------------------ MODULE StepCalls ------------------------------
(***************************************************************************)
(* The steps of runs on top of the language-model service: the executor    *)
(* repeats a tool that raises (_invoke_with_retry, src/app/agent/          *)
(* executor.py), the tool makes one call of the service per invocation     *)
(* (src/app/agent/tools.py), and the call repeats its requests on its own  *)
(* (LLMService).  How often the backends are asked for one step, and       *)
(* whether a step ends, is decided by the three together.                  *)
(*                                                                         *)
(* The executor awaits nothing between the end of a failed invocation and  *)
(* the first request of the next one: while a step is due, no other        *)
(* coroutine moves, no time passes and no backend changes.                 *)
(***************************************************************************)
EXTENDS LLMService

CONSTANTS Steps,        \* runs whose current step calls the model
          StepAttempts  \* total_attempts: max_retries + 1

ASSUME StepsAssumption == /\ Steps \subseteq Callers
                          /\ StepAttempts \in Nat \ {0}

VARIABLES enable_offline_fallback,  \* LLM_OFFLINE_FALLBACK, fixed at start-up
          steps                     \* the current step of each run

step_vars == <<enable_offline_fallback, steps>>
all_vars == <<vars, step_vars>>

(***************************************************************************)
(* attempt: the invocations of the tool so far; spent: the requests that   *)
(* those which are over have sent.                                         *)
(***************************************************************************)
Step == [outcome : {"idle", "running", "completed", "failed"},
         attempt : 0 .. StepAttempts, spent : Nat]

IdleStep == [outcome |-> "idle", attempt |-> 0, spent |-> 0]

StepsInit == /\ Init
             /\ enable_offline_fallback \in BOOLEAN
             /\ steps = [s \in Steps |-> IdleStep]

\* The requests of the latest call of c.
Requests(c) == calls[c].sent["groq"] + calls[c].sent["ollama"]

\* An invocation of the tool of s is over and the executor has to go on.
Due(s) == steps[s].outcome = "running" /\ calls[s].state = "ended"

Settled == \A s \in Steps : ~Due(s)

\* A tool returns what complete or complete_json returns, and raises its error.
Raised(s) == calls[s].result \in {"error", "raised"}

\* A tool passes a fallback exactly when the registry was built with them.
dispatch(s) == /\ ShortCircuit(s) \/ Start(s)
               /\ calls'[s].offline = enable_offline_fallback

\* The executor reaches the next step of s and invokes its tool.
StartStep(s) ==
  /\ Settled
  /\ steps[s].outcome # "running"
  /\ dispatch(s)
  /\ steps' = [steps EXCEPT ![s] = [outcome |-> "running", attempt |-> 1,
                                    spent |-> 0]]
  /\ UNCHANGED enable_offline_fallback

\* MUTANT of Retry: the attempt is not counted.
RetryUncounted(s) ==
  /\ Due(s)
  /\ Raised(s)
  /\ dispatch(s)
  /\ steps' = [steps EXCEPT ![s].spent = 0]
  /\ UNCHANGED enable_offline_fallback

\* The tool raised and is invoked again at once.
Retry(s) ==
  /\ Due(s)
  /\ Raised(s)
  /\ steps[s].attempt < StepAttempts
  /\ dispatch(s)
  /\ steps' = [steps EXCEPT ![s].attempt = @ + 1,
                            ![s].spent = @ + Requests(s)]
  /\ UNCHANGED enable_offline_fallback

\* The tool returned, or raised for the last time.
EndStep(s) ==
  /\ Due(s)
  /\ \/ /\ ~Raised(s)
        /\ steps' = [steps EXCEPT ![s].outcome = "completed"]
     \/ /\ Raised(s)
        /\ steps[s].attempt = StepAttempts
        /\ steps' = [steps EXCEPT ![s].outcome = "failed"]
  /\ UNCHANGED <<vars, enable_offline_fallback>>

(***************************************************************************)
(* Guardrail, planner, reflector and the summary that a build synthesises  *)
(* call once.  Of these the planner and the summary pass a fallback, and   *)
(* only if fallbacks are enabled.                                          *)
(***************************************************************************)
OtherCall(c) == /\ ShortCircuit(c) \/ Start(c)
                /\ calls'[c].offline => enable_offline_fallback

\* Everything that is not the executor.
Elsewhere == /\ Settled
             /\ \/ \E c \in Callers : Reply(c) \/ Wake(c)
                \/ \E c \in Callers \ Steps : OtherCall(c)
                \/ Tick
                \/ \E b \in Backends : BackendDown(b) \/ BackendUp(b)
             /\ UNCHANGED step_vars

StepsNext == \/ \E s \in Steps : StartStep(s) \/ Retry(s) \/ EndStep(s)
             \/ Elsewhere

StepsSpec == StepsInit /\ [][StepsNext]_all_vars

(***************************************************************************)
(* Every request is bounded by LLM_TIMEOUT_SECONDS, so that a reply or a   *)
(* timeout arrives; time passes; the event loop resumes a coroutine whose  *)
(* sleep is over, and an executor whose step is due.  The moments at which *)
(* a step is due come between, but the loop runs what is ready in order of *)
(* arrival and passes nothing over for ever: strong fairness.  That a      *)
(* caller calls again, or that a backend recovers, is not assumed.         *)
(***************************************************************************)
FairStepsSpec ==
  /\ StepsSpec
  /\ SF_all_vars(Settled /\ Tick /\ UNCHANGED step_vars)
  /\ \A c \in Callers :
       /\ SF_all_vars(Settled /\ Reply(c) /\ UNCHANGED step_vars)
       /\ SF_all_vars(Settled /\ Wake(c) /\ UNCHANGED step_vars)
  /\ \A s \in Steps : WF_all_vars(Retry(s) \/ EndStep(s))

-------------------------------------------------------------------------------
\* StepTypeOK: each variable holds a value of its type (the state of the
\* service and of _invoke_with_retry).
StepTypeOK == /\ TypeOK
              /\ enable_offline_fallback \in BOOLEAN
              /\ steps \in [Steps -> Step]

(***************************************************************************)
(* StepCost: one step asks the backends a bounded number of times.  The    *)
(* executor's attempts multiply those of the service when there is no      *)
(* fallback.  With one, a call that fails has opened the breaker, so every *)
(* later attempt of the step is answered without the network: the step     *)
(* costs no more than one call, whatever the fallback raises.              *)
(***************************************************************************)
CallCost == Len(chain) * max_attempts

StepCost ==
  \A s \in Steps :
    steps[s].outcome = "running" =>
      steps[s].spent + Requests(s) <=
        IF enable_offline_fallback /\ Cooldown > 0
        THEN CallCost ELSE steps[s].attempt * CallCost

(***************************************************************************)
(* StepEnds: every step that is started completes or fails, whatever the   *)
(* backends do.                                                            *)
(***************************************************************************)
StepEnds == \A s \in Steps :
              steps[s].outcome = "running" ~> steps[s].outcome # "running"

===============================================================================
