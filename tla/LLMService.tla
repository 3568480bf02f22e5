------------------------------ MODULE LLMService ------------------------------
(***************************************************************************)
(* The language-model service every agent component calls                  *)
(* (src/app/services/llm.py): retries with exponential backoff on each     *)
(* backend of the chain, the step from Groq to Ollama, the circuit breaker *)
(* that all concurrent calls share, and the offline fallback.              *)
(*                                                                         *)
(* complete and complete_json run the same control over different          *)
(* attempts, so they are one operation here: a reply that complete_json    *)
(* cannot parse is one more error that is not a connection error.          *)
(*                                                                         *)
(* An action is what runs between two awaits: a call up to its first       *)
(* network request, the handling of one reply, the end of one sleep.       *)
(* Times are in units of _BACKOFF_BASE_SECONDS and are kept as what is     *)
(* left of them: open_for is _breaker_open_until - _clock(), floored at 0, *)
(* and the breaker is open exactly while it is positive.                   *)
(***************************************************************************)
EXTENDS Naturals, Sequences

CONSTANTS Callers,      \* coroutines of the process that call the service
          Key,          \* is GROQ_API_KEY set
          MaxAttempts,  \* LLM_MAX_RETRIES
          Cooldown      \* LLM_CIRCUIT_BREAKER_COOLDOWN_SECONDS

ASSUME LLMAssumption == /\ Key \in BOOLEAN
                        /\ MaxAttempts \in Nat
                        /\ Cooldown \in Nat

VARIABLES calls,      \* the latest call of each caller
          open_for,   \* how long the breaker stays open
          up,         \* environment: the backends that can be reached
          latest      \* history: how the latest call that used the network ended

vars == <<calls, open_for, up, latest>>

Backends == {"groq", "ollama"}

chain == IF Key THEN <<"groq", "ollama">> ELSE <<"ollama">>

ChainBackends == {chain[i] : i \in DOMAIN chain}

\* max_attempts of _with_backoff.
max_attempts == IF MaxAttempts = 0 THEN 1 ELSE MaxAttempts

\* The sleep after the k-th attempt on a backend.
backoff(k) == 2 ^ (k - 1)

\* No assumption about the code: the provers know nothing of ^.
ASSUME BackoffAssumption == \A k \in 1 .. max_attempts : backoff(k) \in Nat

(***************************************************************************)
(* A call asks a backend (waits for its reply), sleeps before another      *)
(* attempt, or has ended.  offline: the caller passed an offline_fallback. *)
(* at: the position in the chain; sent: requests sent to each backend;     *)
(* refused: backends that failed with a connection error.                  *)
(*                                                                         *)
(* result: "answer", a backend's; "skipped", the fallback's value because  *)
(* the breaker was open; "offline", the fallback's value after every       *)
(* backend failed; "error", an LLMError; "raised", whatever an offline     *)
(* fallback raised that nothing caught.                                    *)
(***************************************************************************)
Results == {"none", "answer", "skipped", "offline", "error", "raised"}

Call == [state : {"ended", "asking", "sleeping"}, offline : BOOLEAN,
         at : 1 .. 2, sent : [Backends -> Nat],
         refused : SUBSET Backends, sleep : Nat, result : Results]

NoCall == [state |-> "ended", offline |-> FALSE, at |-> 1,
           sent |-> [b \in Backends |-> 0], refused |-> {}, sleep |-> 0,
           result |-> "none"]

backend(c) == chain[calls[c].at]

Init == /\ calls = [c \in Callers |-> NoCall]
        /\ open_for = 0
        /\ up \in SUBSET ChainBackends
        /\ latest = "none"

breaker_is_open == open_for > 0

(***************************************************************************)
(* A caller with a fallback finds the breaker open.  Nothing catches what  *)
(* the fallback raises on this path.                                       *)
(***************************************************************************)
ShortCircuit(c) ==
  /\ calls[c].state = "ended"
  /\ breaker_is_open
  /\ \E result \in {"skipped", "raised"} :
       calls' = [calls EXCEPT ![c] = [NoCall EXCEPT !.offline = TRUE,
                                                    !.result = result]]
  /\ UNCHANGED <<open_for, up, latest>>

\* The request of the next attempt leaves for the backend at position i.
Asking(call, i) == [call EXCEPT !.state = "asking", !.at = i, !.sleep = 0,
                                !.sent[chain[i]] = @ + 1]

\* Any other call asks the first backend of the chain.
Start(c) ==
  /\ calls[c].state = "ended"
  /\ \E offline \in BOOLEAN :
       /\ offline => ~breaker_is_open
       /\ calls' = [calls EXCEPT
                      ![c] = Asking([NoCall EXCEPT !.offline = offline], 1)]
  /\ UNCHANGED <<open_for, up, latest>>

Ended(call, result) == [call EXCEPT !.state = "ended", !.result = result]

\* MUTANT of Answer: the breaker is not reset by a success.
AnswerWithoutReset(c) ==
  /\ calls[c].state = "asking"
  /\ backend(c) \in up
  /\ calls' = [calls EXCEPT ![c] = Ended(@, "answer")]
  /\ latest' = "answered"
  /\ UNCHANGED <<open_for, up>>

\* A usable reply ends the call and resets the breaker.
Answer(c) ==
  /\ calls[c].state = "asking"
  /\ backend(c) \in up
  /\ calls' = [calls EXCEPT ![c] = Ended(@, "answer")]
  /\ open_for' = 0
  /\ latest' = "answered"
  /\ UNCHANGED up

\* MUTANT of NextBackend: each failure extends the cooldown that is running.
NextBackendExtends(c, call) ==
  \/ /\ call.at < Len(chain)
     /\ calls' = [calls EXCEPT ![c] = Asking(call, call.at + 1)]
     /\ UNCHANGED <<open_for, latest>>
  \/ /\ call.at = Len(chain)
     /\ \E result \in IF call.offline THEN {"offline", "error"} ELSE {"error"} :
          calls' = [calls EXCEPT ![c] = Ended(call, result)]
     /\ open_for' = open_for + Cooldown
     /\ latest' = "failed"

\* MUTANT of NextBackend: the end of the chain is found one backend early.
NextBackendTooShort(c, call) ==
  \E result \in IF call.offline THEN {"offline", "error"} ELSE {"error"} :
    /\ calls' = [calls EXCEPT ![c] = Ended(call, result)]
    /\ open_for' = Cooldown
    /\ latest' = "failed"

\* MUTANT of NextBackend: the breaker is tripped only if there is no fallback.
NextBackendWithoutTrip(c, call) ==
  \/ /\ call.at < Len(chain)
     /\ calls' = [calls EXCEPT ![c] = Asking(call, call.at + 1)]
     /\ UNCHANGED <<open_for, latest>>
  \/ /\ call.at = Len(chain)
     /\ \E result \in IF call.offline THEN {"offline", "error"} ELSE {"error"} :
          calls' = [calls EXCEPT ![c] = Ended(call, result)]
     /\ open_for' = IF call.offline THEN open_for ELSE Cooldown
     /\ latest' = "failed"

(***************************************************************************)
(* The backend that call was at is exhausted.  The next one of the chain   *)
(* is asked; after the last one the breaker trips and the offline fallback *)
(* gives the value, unless there is none or it raises.                     *)
(***************************************************************************)
NextBackend(c, call) ==
  \/ /\ call.at < Len(chain)
     /\ calls' = [calls EXCEPT ![c] = Asking(call, call.at + 1)]
     /\ UNCHANGED <<open_for, latest>>
  \/ /\ call.at = Len(chain)
     /\ \E result \in IF call.offline THEN {"offline", "error"} ELSE {"error"} :
          calls' = [calls EXCEPT ![c] = Ended(call, result)]
     /\ open_for' = Cooldown
     /\ latest' = "failed"

\* MUTANT of ConnectionError: the error is retried at once, as if not counted.
ConnectionErrorRetried(c) ==
  /\ calls[c].state = "asking"
  /\ calls' = [calls EXCEPT ![c].refused = @ \cup {backend(c)},
                            ![c].state = "sleeping", ![c].sleep = 1]
  /\ UNCHANGED <<open_for, latest, up>>

(***************************************************************************)
(* An attempt fails with what _is_connection_error takes for a connection  *)
(* error: a backend that is down, a timeout of one that is up, or any      *)
(* error whose text mentions one.  The backend gets no other attempt.      *)
(***************************************************************************)
ConnectionError(c) ==
  /\ calls[c].state = "asking"
  /\ NextBackend(c, [calls[c] EXCEPT !.refused = @ \cup {backend(c)}])
  /\ UNCHANGED up

\* MUTANT of OtherError: an attempt that failed is not counted.
OtherErrorUncounted(c) ==
  /\ calls[c].state = "asking"
  /\ backend(c) \in up
  /\ calls' = [calls EXCEPT ![c].state = "sleeping", ![c].sleep = 1,
                            ![c].sent[backend(c)] = 0]
  /\ UNCHANGED <<open_for, latest, up>>

(***************************************************************************)
(* The backend replies, with an error status or with something that does   *)
(* not parse.  The call sleeps before the next attempt, twice as long each *)
(* time; after the last attempt the backend is exhausted.                  *)
(***************************************************************************)
OtherError(c) ==
  /\ calls[c].state = "asking"
  /\ backend(c) \in up
  /\ \/ /\ calls[c].sent[backend(c)] < max_attempts
        /\ calls' = [calls EXCEPT
             ![c].state = "sleeping",
             ![c].sleep = backoff(calls[c].sent[backend(c)])]
        /\ UNCHANGED <<open_for, latest>>
     \/ /\ calls[c].sent[backend(c)] = max_attempts
        /\ NextBackend(c, calls[c])
  /\ UNCHANGED up

\* The sleep is over and the next attempt on the same backend is made.
Wake(c) == /\ calls[c].state = "sleeping"
           /\ calls[c].sleep = 0
           /\ calls' = [calls EXCEPT ![c] = Asking(@, @.at)]
           /\ UNCHANGED <<open_for, up, latest>>

less(t) == IF t = 0 THEN 0 ELSE t - 1

\* Time passes for the breaker and for every sleeping call.
Tick == /\ open_for > 0 \/ \E c \in Callers : calls[c].sleep > 0
        /\ open_for' = less(open_for)
        /\ calls' = [c \in Callers |->
                       [calls[c] EXCEPT !.sleep = less(@)]]
        /\ UNCHANGED <<up, latest>>

BackendDown(b) == /\ b \in up
                  /\ up' = up \ {b}
                  /\ UNCHANGED <<calls, open_for, latest>>

BackendUp(b) == /\ b \in ChainBackends \ up
                /\ up' = up \cup {b}
                /\ UNCHANGED <<calls, open_for, latest>>

Reply(c) == Answer(c) \/ ConnectionError(c) \/ OtherError(c)

Next == \/ \E c \in Callers : ShortCircuit(c) \/ Start(c) \/ Reply(c) \/ Wake(c)
        \/ Tick
        \/ \E b \in Backends : BackendDown(b) \/ BackendUp(b)

Spec == Init /\ [][Next]_vars

-------------------------------------------------------------------------------
\* TypeOK: each variable holds a value of its type (the state of LLMService
\* and of the coroutines inside complete and complete_json).
TypeOK == /\ calls \in [Callers -> Call]
          /\ \A c \in Callers : calls[c].at <= Len(chain)
          /\ open_for \in 0 .. Cooldown
          /\ up \subseteq ChainBackends
          /\ latest \in {"none", "answered", "failed"}

(***************************************************************************)
(* BreakerTracksLatest: however the calls of several coroutines interleave,*)
(* the breaker is open only if the call that last used the network failed  *)
(* on every backend: a success of any call closes it, and it never opens   *)
(* without a total failure.                                                *)
(***************************************************************************)
BreakerTracksLatest == breaker_is_open => latest = "failed"

(***************************************************************************)
(* AttemptsBounded: within one call no backend gets more than max_attempts *)
(* requests, and one that failed with a connection error is not asked      *)
(* again: the call has ended or is at a later backend, however many errors *)
(* of other kinds came before.                                             *)
(***************************************************************************)
AttemptsBounded ==
  \A c \in Callers :
    /\ \A b \in Backends : calls[c].sent[b] <= max_attempts
    /\ calls[c].state # "ended" => backend(c) \notin calls[c].refused

(***************************************************************************)
(* FailureMeansAllTried: an LLMError, and the fallback's value after a     *)
(* failure, are given only once every backend of the chain was tried and   *)
(* either refused the connection or failed max_attempts times.  A caller   *)
(* without a fallback gets one of those or an answer, never a skip.        *)
(***************************************************************************)
FailureMeansAllTried ==
  \A c \in Callers :
    /\ calls[c].result \in {"offline", "error"} =>
         \A b \in ChainBackends : \/ calls[c].sent[b] = max_attempts
                                  \/ b \in calls[c].refused
    /\ calls[c].result \in {"skipped", "raised", "offline"} => calls[c].offline

(***************************************************************************)
(* CallEnds: every call returns or raises, whatever the backends do and    *)
(* however they mix the kinds of error, given that requests time out.      *)
(***************************************************************************)
CallEnds == \A c \in Callers :
              calls[c].state # "ended" ~> calls[c].state = "ended"

===============================================================================
