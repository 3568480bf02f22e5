---------------------------- MODULE StepCallsProofs ----------------------------
(***************************************************************************)
(* Proofs about LLMService and about StepCalls, which drives it, for any   *)
(* callers, steps, attempts, cooldown and chain.                           *)
(*                                                                         *)
(* First the service by itself.  What a failed call has tried is not       *)
(* inductive alone.  It follows from where a call under way is: every      *)
(* backend before the one it asks is exhausted, and none after it was      *)
(* asked (Orderly).                                                        *)
(*                                                                         *)
(* Then the executor's steps on top of it.  They are steps of LLMService,  *)
(* so that what holds of the service holds under the executor's retries;   *)
(* and what a step costs is bounded.  That a step with a fallback pays for *)
(* one call only rests on the breaker being open whenever its tool has     *)
(* just raised (Cut): nothing moves between the failure and the retry,     *)
(* which is therefore short-circuited.                                     *)
(***************************************************************************)
EXTENDS Integers, StepCalls, TLAPS


\* backend b has had all the attempts it gets in this call.
Exhausted(call, b) == call.sent[b] = max_attempts \/ b \in call.refused

\* A call under way has exhausted the backends before its own, has attempts
\* left on its own, and has not asked a later one.
UnderWay(call) ==
  /\ call.result = "none"
  /\ chain[call.at] \notin call.refused
  /\ call.sent[chain[call.at]] >= 1
  /\ call.state = "sleeping" => call.sent[chain[call.at]] < max_attempts
  /\ \A i \in DOMAIN chain :
       /\ i < call.at => Exhausted(call, chain[i])
       /\ i > call.at => call.sent[chain[i]] = 0 /\ chain[i] \notin call.refused

\* What the end of a call says of its attempts and of its caller.
Finished(call) ==
  /\ call.result \in {"offline", "error"} =>
       \A b \in ChainBackends : Exhausted(call, b)
  /\ call.result \in {"skipped", "raised", "offline"} => call.offline

Orderly(call) == /\ \A b \in Backends : call.sent[b] <= max_attempts
                 /\ call.state # "ended" => UnderWay(call)
                 /\ Finished(call)

\* The inductive invariant.
IInv == TypeOK /\ BreakerTracksLatest /\ \A c \in Callers : Orderly(calls[c])

-------------------------------------------------------------------------------
\* The records that the record updates of LLMService stand for.
LEMMA CallRecord ==
  ASSUME NEW call \in Call
  PROVE  call = [state |-> call.state, offline |-> call.offline, at |-> call.at,
                 sent |-> call.sent, refused |-> call.refused,
                 sleep |-> call.sleep, result |-> call.result]
  BY DEF Call

LEMMA EndedRecord ==
  ASSUME NEW call \in Call, NEW result
  PROVE  Ended(call, result) =
           [state |-> "ended", offline |-> call.offline, at |-> call.at,
            sent |-> call.sent, refused |-> call.refused,
            sleep |-> call.sleep, result |-> result]
  <1> DEFINE one == [call EXCEPT !.state = "ended"]
  <1>1. one = [state |-> "ended", offline |-> call.offline, at |-> call.at,
               sent |-> call.sent, refused |-> call.refused,
               sleep |-> call.sleep, result |-> call.result]
    BY CallRecord
  <1>2. Ended(call, result) = [one EXCEPT !.result = result]
    BY DEF Ended
  <1> HIDE DEF one
  <1> QED
    BY <1>1, <1>2

LEMMA RefusedRecord ==
  ASSUME NEW call \in Call, NEW b
  PROVE  [call EXCEPT !.refused = @ \cup {b}] =
           [state |-> call.state, offline |-> call.offline, at |-> call.at,
            sent |-> call.sent, refused |-> call.refused \cup {b},
            sleep |-> call.sleep, result |-> call.result]
  <1> DEFINE r == call.refused \cup {b}
  <1>1. [call EXCEPT !.refused = @ \cup {b}] = [call EXCEPT !.refused = r]
    OBVIOUS
  <1> HIDE DEF r
  <1>2. [call EXCEPT !.refused = r] =
           [state |-> call.state, offline |-> call.offline, at |-> call.at,
            sent |-> call.sent, refused |-> r,
            sleep |-> call.sleep, result |-> call.result]
    BY CallRecord
  <1> QED
    BY <1>1, <1>2 DEF r

LEMMA AskingRecord ==
  ASSUME NEW call \in Call, NEW i
  PROVE  Asking(call, i) =
           [state |-> "asking", offline |-> call.offline, at |-> i,
            sent |-> [call.sent EXCEPT ![chain[i]] = @ + 1],
            refused |-> call.refused, sleep |-> 0, result |-> call.result]
  <1> DEFINE one == [call EXCEPT !.state = "asking"]
             two == [one EXCEPT !.at = i]
             three == [two EXCEPT !.sleep = 0]
  <1>1. one = [state |-> "asking", offline |-> call.offline, at |-> call.at,
               sent |-> call.sent, refused |-> call.refused,
               sleep |-> call.sleep, result |-> call.result]
    BY CallRecord
  <1>2. Asking(call, i) = [three EXCEPT !.sent[chain[i]] = @ + 1]
    BY DEF Asking
  <1> HIDE DEF one
  <1>3. two = [state |-> "asking", offline |-> call.offline, at |-> i,
               sent |-> call.sent, refused |-> call.refused,
               sleep |-> call.sleep, result |-> call.result]
    BY <1>1
  <1> HIDE DEF two
  <1>4. three = [state |-> "asking", offline |-> call.offline, at |-> i,
                 sent |-> call.sent, refused |-> call.refused,
                 sleep |-> 0, result |-> call.result]
    BY <1>3
  <1> HIDE DEF three
  <1> QED
    BY <1>2, <1>4

-------------------------------------------------------------------------------
\* The chain has one or two backends, all different.
LEMMA ChainFacts == /\ Len(chain) \in 1 .. 2
                    /\ DOMAIN chain = 1 .. Len(chain)
                    /\ \A i \in 1 .. Len(chain) : chain[i] \in Backends
                    /\ \A i, j \in 1 .. Len(chain) : chain[i] = chain[j] => i = j
                    /\ ChainBackends \subseteq Backends
                    /\ \A b \in ChainBackends :
                         \E i \in 1 .. Len(chain) : b = chain[i]
                    /\ \A i \in 1 .. Len(chain) : chain[i] \in ChainBackends
  <1>1. CASE Key
    <2>1. chain = <<"groq", "ollama">>
      BY <1>1 DEF chain
    <2>2. /\ Len(chain) = 2 /\ DOMAIN chain = 1 .. 2
          /\ chain[1] = "groq" /\ chain[2] = "ollama"
      BY <2>1
    <2> QED
      BY <2>2 DEF Backends, ChainBackends
  <1>2. CASE ~Key
    <2>1. chain = <<"ollama">>
      BY <1>2 DEF chain
    <2>2. Len(chain) = 1 /\ DOMAIN chain = 1 .. 1 /\ chain[1] = "ollama"
      BY <2>1
    <2> QED
      BY <2>2 DEF Backends, ChainBackends
  <1> QED
    BY <1>1, <1>2

\* _with_backoff makes at least one attempt.
LEMMA AttemptsFacts == max_attempts \in Nat /\ max_attempts >= 1
  BY LLMAssumption DEF max_attempts

\* A request to the backend at position i that has attempts left keeps a call
\* in order.
LEMMA AskingOrderly ==
  ASSUME NEW call \in Call, NEW i \in 1 .. Len(chain),
         \A b \in Backends : call.sent[b] <= max_attempts,
         call.result = "none",
         call.sent[chain[i]] < max_attempts,
         chain[i] \notin call.refused,
         \A j \in 1 .. Len(chain) : j < i => Exhausted(call, chain[j]),
         \A j \in 1 .. Len(chain) :
           j > i => call.sent[chain[j]] = 0 /\ chain[j] \notin call.refused
  PROVE  Asking(call, i) \in Call /\ Orderly(Asking(call, i))
  <1> DEFINE new == Asking(call, i)
  <1>1. /\ call.sent \in [Backends -> Nat]
        /\ new = [state |-> "asking", offline |-> call.offline, at |-> i,
                  sent |-> [call.sent EXCEPT ![chain[i]] = @ + 1],
                  refused |-> call.refused, sleep |-> 0, result |-> call.result]
    BY AskingRecord DEF Call
  <1>0. /\ new.state = "asking" /\ new.at = i /\ new.refused = call.refused
        /\ new.result = call.result /\ new.offline = call.offline
        /\ new.sent = [call.sent EXCEPT ![chain[i]] = @ + 1]
    BY <1>1
  <1>2. \A b \in Backends :
          new.sent[b] = IF b = chain[i] THEN call.sent[b] + 1 ELSE call.sent[b]
    <2> HIDE DEF new
    <2> QED
      BY <1>0, <1>1, ChainFacts
  <1>3. new \in Call
    <2>1. new.sent \in [Backends -> Nat]
      <3> HIDE DEF new
      <3> QED
        BY <1>0, <1>1, ChainFacts
    <2>2. call.offline \in BOOLEAN /\ call.refused \in SUBSET Backends /\ i \in 1 .. 2
      BY ChainFacts DEF Call
    <2> QED
      BY <1>1, <2>1, <2>2 DEF Call, Results
  <1>4. \A b \in Backends : new.sent[b] <= max_attempts
    BY <1>1, <1>2, ChainFacts, AttemptsFacts
  <1>5. \A j \in 1 .. Len(chain) : j # i => chain[j] # chain[i]
    BY ChainFacts
  <1>6. UnderWay(new)
    <2> HIDE DEF new
    <2>1. new.sent[chain[i]] >= 1
      BY <1>1, <1>2, ChainFacts
    <2>2. ASSUME NEW j \in DOMAIN chain
          PROVE  /\ j < i => Exhausted(new, chain[j])
                 /\ j > i => new.sent[chain[j]] = 0 /\ chain[j] \notin new.refused
      BY <1>0, <1>2, <1>5, ChainFacts DEF Exhausted
    <2> QED
      BY <1>0, <2>1, <2>2 DEF UnderWay
  <1>7. Finished(new)
    BY <1>1 DEF Finished
  <1> QED
    BY <1>3, <1>4, <1>6, <1>7 DEF Orderly

\* A call whose backend is exhausted goes on, or ends, in order.
LEMMA NextBackendOrderly ==
  ASSUME IInv, NEW c \in Callers, NEW call \in Call,
         call.at <= Len(chain),
         \A b \in Backends : call.sent[b] <= max_attempts,
         call.result = "none",
         \A i \in 1 .. Len(chain) : i <= call.at => Exhausted(call, chain[i]),
         \A i \in 1 .. Len(chain) :
           i > call.at => call.sent[chain[i]] = 0 /\ chain[i] \notin call.refused,
         NextBackend(c, call), UNCHANGED up
  PROVE  IInv'
  <1> USE DEF IInv
  <1>1. CASE call.at < Len(chain)
    <2> DEFINE i == call.at + 1
    <2>1. i \in 1 .. Len(chain) /\ call.at \in 1 .. 2
      BY <1>1, ChainFacts DEF Call
    <2>2. /\ calls' = [calls EXCEPT ![c] = Asking(call, i)]
          /\ UNCHANGED <<open_for, latest>>
      BY <1>1, ChainFacts, <2>1 DEF NextBackend
    <2>3. call.sent[chain[i]] = 0 /\ chain[i] \notin call.refused
      BY <2>1
    <2>4. \A j \in 1 .. Len(chain) : j < i => Exhausted(call, chain[j])
      BY <2>1
    <2>5. \A j \in 1 .. Len(chain) :
            j > i => call.sent[chain[j]] = 0 /\ chain[j] \notin call.refused
      BY <2>1
    <2>6. Asking(call, i) \in Call /\ Orderly(Asking(call, i))
      <3> HIDE DEF i, IInv
      <3> QED
        BY AskingOrderly, AttemptsFacts, <2>1, <2>3, <2>4, <2>5
    <2>7. Asking(call, i).at = i
      BY DEF Asking, Call
    <2> QED
      BY <2>1, <2>2, <2>6, <2>7 DEF TypeOK, BreakerTracksLatest, breaker_is_open
  <1>2. CASE call.at = Len(chain)
    <2>1. PICK result \in IF call.offline THEN {"offline", "error"} ELSE {"error"} :
            /\ calls' = [calls EXCEPT ![c] = Ended(call, result)]
            /\ open_for' = Cooldown /\ latest' = "failed"
      BY <1>2, ChainFacts DEF NextBackend
    <2> DEFINE new == Ended(call, result)
    <2>2. new = [state |-> "ended", offline |-> call.offline, at |-> call.at,
                 sent |-> call.sent, refused |-> call.refused,
                 sleep |-> call.sleep, result |-> result]
      BY EndedRecord
    <2>3. new \in Call /\ new.at <= Len(chain)
      BY <2>1, <2>2 DEF Call, Results
    <2>4. \A b \in ChainBackends : Exhausted(call, b)
      BY <1>2, ChainFacts
    <2>5. Orderly(new)
      BY <2>1, <2>2, <2>4 DEF Orderly, Finished, Exhausted
    <2> HIDE DEF new
    <2> QED
      BY <2>1, <2>3, <2>5, LLMAssumption
      DEF TypeOK, BreakerTracksLatest, breaker_is_open, new
  <1> QED
    BY <1>1, <1>2, ChainFacts DEF NextBackend

-------------------------------------------------------------------------------
\* What IInv says of a call that waits for a reply.
LEMMA AskingFacts ==
  ASSUME IInv, NEW c \in Callers, calls[c].state = "asking"
  PROVE  /\ calls[c] \in Call /\ calls[c].at \in 1 .. Len(chain)
         /\ \A b \in Backends : calls[c].sent[b] <= max_attempts
         /\ UnderWay(calls[c])
         /\ backend(c) \in Backends
         /\ calls[c].sent[backend(c)] \in Nat
  <1>1. calls[c] \in Call /\ calls[c].at <= Len(chain) /\ Orderly(calls[c])
    BY DEF IInv, TypeOK
  <1>2. calls[c].at \in 1 .. Len(chain) /\ calls[c].sent \in [Backends -> Nat]
    BY <1>1, ChainFacts DEF Call
  <1> QED
    BY <1>1, <1>2, ChainFacts DEF Orderly, backend

\* One call is replaced by an orderly one, and nothing else of IInv moves.
LEMMA OneCallStep ==
  ASSUME IInv, NEW c \in Callers, NEW call \in Call,
         call.at <= Len(chain), Orderly(call),
         calls' = [calls EXCEPT ![c] = call],
         UNCHANGED <<open_for, up, latest>>
  PROVE  IInv'
  BY DEF IInv, TypeOK, BreakerTracksLatest, breaker_is_open

\* A call before its first attempt.
LEMMA NoCallFacts ==
  /\ NoCall \in Call
  /\ NoCall.state = "ended" /\ NoCall.at = 1 /\ NoCall.refused = {}
  /\ NoCall.result = "none" /\ \A b \in Backends : NoCall.sent[b] = 0
  BY DEF NoCall, Call, Results

LEMMA ShortCircuitStep ==
  ASSUME IInv, NEW c \in Callers, ShortCircuit(c) PROVE IInv'
  <1>1. PICK result \in {"skipped", "raised"} :
          calls' = [calls EXCEPT ![c] = [NoCall EXCEPT !.offline = TRUE,
                                                       !.result = result]]
    BY DEF ShortCircuit
  <1> DEFINE yes == TRUE
             one == [NoCall EXCEPT !.offline = yes]
             call == [one EXCEPT !.result = result]
  <1>2. calls' = [calls EXCEPT ![c] = call]
    BY <1>1
  <1>8. yes \in BOOLEAN /\ yes
    OBVIOUS
  <1> HIDE DEF yes
  <1>3. one = [state |-> "ended", offline |-> yes, at |-> 1,
               sent |-> NoCall.sent, refused |-> {}, sleep |-> NoCall.sleep,
               result |-> "none"]
    BY NoCallFacts, CallRecord
  <1> HIDE DEF one
  <1>4. call = [state |-> "ended", offline |-> yes, at |-> 1,
                sent |-> NoCall.sent, refused |-> {}, sleep |-> NoCall.sleep,
                result |-> result]
    BY <1>3
  <1> HIDE DEF call
  <1>5. call \in Call /\ call.at <= Len(chain)
    BY <1>4, <1>8, NoCallFacts, ChainFacts DEF Call, Results
  <1>6. Orderly(call)
    <2>1. /\ \A b \in Backends : call.sent[b] = 0
          /\ call.state = "ended" /\ call.offline
          /\ call.result \in {"skipped", "raised"}
      BY <1>4, <1>8, NoCallFacts
    <2> QED
      BY <2>1, AttemptsFacts DEF Orderly, Finished
  <1>7. UNCHANGED <<open_for, up, latest>>
    BY DEF ShortCircuit
  <1> QED
    BY <1>2, <1>5, <1>6, <1>7, OneCallStep

LEMMA StartCallStep ==
  ASSUME IInv, NEW c \in Callers, Start(c) PROVE IInv'
  <1>1. PICK offline \in BOOLEAN :
          calls' = [calls EXCEPT
                      ![c] = Asking([NoCall EXCEPT !.offline = offline], 1)]
    BY DEF Start
  <1> DEFINE call == [NoCall EXCEPT !.offline = offline]
             new == Asking(call, 1)
  <1>2. call = [state |-> "ended", offline |-> offline, at |-> 1,
                sent |-> NoCall.sent, refused |-> {}, sleep |-> NoCall.sleep,
                result |-> "none"]
    BY NoCallFacts, CallRecord
  <1>3. calls' = [calls EXCEPT ![c] = new]
    BY <1>1
  <1> HIDE DEF call
  <1>4. /\ call \in Call
        /\ \A b \in Backends : call.sent[b] = 0
        /\ call.refused = {} /\ call.result = "none"
    BY <1>2, NoCallFacts DEF Call, Results
  <1>5. 1 \in 1 .. Len(chain) /\ \A j \in 1 .. Len(chain) : ~(j < 1)
    BY ChainFacts
  <1>6. new \in Call /\ Orderly(new)
    BY <1>4, <1>5, AskingOrderly, ChainFacts, AttemptsFacts
  <1>7. new.at <= Len(chain)
    BY <1>4, <1>5, AskingRecord, ChainFacts
  <1>8. UNCHANGED <<open_for, up, latest>>
    BY DEF Start
  <1> HIDE DEF new
  <1> QED
    BY <1>3, <1>6, <1>7, <1>8, OneCallStep

LEMMA AnswerStep ==
  ASSUME IInv, NEW c \in Callers, Answer(c) PROVE IInv'
  <1> DEFINE call == Ended(calls[c], "answer")
  <1>1. calls[c].state = "asking"
    BY DEF Answer
  <1>2. calls[c] \in Call /\ calls[c].at \in 1 .. Len(chain)
    BY <1>1, AskingFacts
  <1>3. call = [state |-> "ended", offline |-> calls[c].offline,
                at |-> calls[c].at, sent |-> calls[c].sent,
                refused |-> calls[c].refused, sleep |-> calls[c].sleep,
                result |-> "answer"]
    BY <1>2, EndedRecord
  <1>4. call \in Call /\ call.at <= Len(chain)
    BY <1>2, <1>3, ChainFacts DEF Call, Results
  <1>5. Orderly(call)
    BY <1>1, <1>3, AskingFacts DEF Orderly, Finished
  <1> HIDE DEF call
  <1>6. calls' = [calls EXCEPT ![c] = call]
    BY DEF Answer, call
  <1> QED
    BY <1>4, <1>5, <1>6, LLMAssumption
    DEF IInv, TypeOK, BreakerTracksLatest, breaker_is_open, Answer

LEMMA ConnectionErrorStep ==
  ASSUME IInv, NEW c \in Callers, ConnectionError(c) PROVE IInv'
  <1> DEFINE call == [calls[c] EXCEPT !.refused = @ \cup {backend(c)}]
  <1>1. calls[c].state = "asking"
    BY DEF ConnectionError
  <1>2. /\ calls[c] \in Call /\ calls[c].at \in 1 .. Len(chain)
        /\ \A b \in Backends : calls[c].sent[b] <= max_attempts
        /\ UnderWay(calls[c]) /\ backend(c) \in Backends
    BY <1>1, AskingFacts
  <1>3. call = [state |-> calls[c].state, offline |-> calls[c].offline,
                at |-> calls[c].at, sent |-> calls[c].sent,
                refused |-> calls[c].refused \cup {backend(c)},
                sleep |-> calls[c].sleep, result |-> calls[c].result]
    BY <1>2, RefusedRecord
  <1>4. call \in Call
    BY <1>2, <1>3 DEF Call
  <1>5. /\ call.at = calls[c].at /\ call.sent = calls[c].sent
        /\ call.refused = calls[c].refused \cup {chain[calls[c].at]}
        /\ call.result = "none"
    BY <1>2, <1>3 DEF UnderWay, backend
  <1> HIDE DEF call
  <1>6. ASSUME NEW i \in 1 .. Len(chain)
        PROVE  /\ i <= call.at => Exhausted(call, chain[i])
               /\ i > call.at => /\ call.sent[chain[i]] = 0
                                 /\ chain[i] \notin call.refused
    BY <1>2, <1>5, ChainFacts DEF UnderWay, Exhausted
  <1>7. NextBackend(c, call) /\ UNCHANGED up
    BY DEF ConnectionError, call
  <1> QED
    BY <1>2, <1>4, <1>5, <1>6, <1>7, NextBackendOrderly

LEMMA OtherErrorStep ==
  ASSUME IInv, NEW c \in Callers, OtherError(c) PROVE IInv'
  <1>1. calls[c].state = "asking"
    BY DEF OtherError
  <1>2. /\ calls[c] \in Call /\ calls[c].at \in 1 .. Len(chain)
        /\ \A b \in Backends : calls[c].sent[b] <= max_attempts
        /\ UnderWay(calls[c]) /\ backend(c) \in Backends
        /\ calls[c].sent[backend(c)] \in Nat
    BY <1>1, AskingFacts
  <1>3. CASE calls[c].sent[backend(c)] = max_attempts
    <2>1. ASSUME NEW i \in 1 .. Len(chain)
          PROVE  /\ i <= calls[c].at => Exhausted(calls[c], chain[i])
                 /\ i > calls[c].at => /\ calls[c].sent[chain[i]] = 0
                                       /\ chain[i] \notin calls[c].refused
      BY <1>2, <1>3, ChainFacts DEF UnderWay, Exhausted, backend
    <2>2. NextBackend(c, calls[c]) /\ UNCHANGED up
      BY <1>3, AttemptsFacts DEF OtherError
    <2>3. calls[c].result = "none"
      BY <1>2 DEF UnderWay
    <2> QED
      BY <1>2, <2>1, <2>2, <2>3, NextBackendOrderly
  <1>4. CASE calls[c].sent[backend(c)] # max_attempts
    <2> DEFINE k == backoff(calls[c].sent[backend(c)])
               one == [calls[c] EXCEPT !.state = "sleeping"]
               call == [one EXCEPT !.sleep = k]
    <2>1. /\ calls[c].sent[backend(c)] < max_attempts
          /\ calls' = [calls EXCEPT ![c].state = "sleeping", ![c].sleep = k]
          /\ UNCHANGED <<open_for, up, latest>>
      BY <1>4 DEF OtherError
    <2>2. k \in Nat
      BY <1>2, <2>1, AttemptsFacts, BackoffAssumption DEF UnderWay, backend
    <2> HIDE DEF k
    <2>3. one = [state |-> "sleeping", offline |-> calls[c].offline,
                 at |-> calls[c].at, sent |-> calls[c].sent,
                 refused |-> calls[c].refused, sleep |-> calls[c].sleep,
                 result |-> calls[c].result]
      BY <1>2, CallRecord
    <2>4. calls' = [calls EXCEPT ![c] = call]
      BY <2>1 DEF IInv, TypeOK
    <2> HIDE DEF one
    <2>5. call = [state |-> "sleeping", offline |-> calls[c].offline,
                  at |-> calls[c].at, sent |-> calls[c].sent,
                  refused |-> calls[c].refused, sleep |-> k,
                  result |-> calls[c].result]
      BY <2>3
    <2>6. call \in Call /\ call.at <= Len(chain)
      BY <1>2, <2>2, <2>5, ChainFacts DEF Call
    <2>7. Orderly(call)
      BY <1>2, <2>1, <2>5 DEF Orderly, UnderWay, Finished, Exhausted, backend
    <2> HIDE DEF call
    <2> QED
      BY <2>1, <2>4, <2>6, <2>7, OneCallStep
  <1> QED
    BY <1>3, <1>4

LEMMA WakeStep ==
  ASSUME IInv, NEW c \in Callers, Wake(c) PROVE IInv'
  <1> DEFINE new == Asking(calls[c], calls[c].at)
  <1>1. /\ calls[c].state = "sleeping"
        /\ calls' = [calls EXCEPT ![c] = new]
        /\ UNCHANGED <<open_for, up, latest>>
    BY DEF Wake, IInv, TypeOK
  <1>2. /\ calls[c] \in Call /\ calls[c].at <= Len(chain)
        /\ Orderly(calls[c]) /\ calls[c].at \in 1 .. 2
    BY DEF IInv, TypeOK, Call
  <1>3. /\ calls[c].at \in 1 .. Len(chain)
        /\ UnderWay(calls[c])
        /\ \A b \in Backends : calls[c].sent[b] <= max_attempts
    BY <1>1, <1>2, ChainFacts DEF Orderly
  <1>4. /\ calls[c].result = "none"
        /\ calls[c].sent[chain[calls[c].at]] < max_attempts
        /\ chain[calls[c].at] \notin calls[c].refused
        /\ \A j \in 1 .. Len(chain) :
             /\ j < calls[c].at => Exhausted(calls[c], chain[j])
             /\ j > calls[c].at => /\ calls[c].sent[chain[j]] = 0
                                   /\ chain[j] \notin calls[c].refused
    BY <1>1, <1>3, ChainFacts DEF UnderWay
  <1>5. new \in Call /\ Orderly(new)
    BY <1>2, <1>3, <1>4, AskingOrderly
  <1>6. new.at = calls[c].at
    BY <1>2, AskingRecord
  <1> HIDE DEF new
  <1> QED
    BY <1>1, <1>2, <1>5, <1>6, OneCallStep

LEMMA TickStep ==
  ASSUME IInv, Tick PROVE IInv'
  <1>1. \A t \in Nat : less(t) \in Nat /\ less(t) <= t
    BY DEF less
  <1>2. open_for' \in 0 .. Cooldown /\ (open_for' > 0 => open_for > 0)
    BY <1>1, LLMAssumption DEF Tick, IInv, TypeOK, less
  <1>3. ASSUME NEW c \in Callers
        PROVE  calls'[c] \in Call /\ calls'[c].at <= Len(chain) /\ Orderly(calls'[c])
    <2> DEFINE s == less(calls[c].sleep)
               new == [calls[c] EXCEPT !.sleep = s]
    <2>1. calls'[c] = new
      BY DEF Tick
    <2>2. calls[c] \in Call /\ calls[c].at <= Len(chain) /\ Orderly(calls[c])
      BY DEF IInv, TypeOK
    <2>3. s \in Nat
      BY <1>1, <2>2 DEF Call
    <2> HIDE DEF s
    <2>4. new = [state |-> calls[c].state, offline |-> calls[c].offline,
                 at |-> calls[c].at, sent |-> calls[c].sent,
                 refused |-> calls[c].refused, sleep |-> s,
                 result |-> calls[c].result]
      BY <2>2, CallRecord
    <2> HIDE DEF new
    <2>5. new \in Call /\ new.at <= Len(chain)
      BY <2>2, <2>3, <2>4 DEF Call
    <2>6. Orderly(new)
      BY <2>2, <2>4 DEF Orderly, UnderWay, Finished, Exhausted
    <2> QED
      BY <2>1, <2>5, <2>6
  <1>4. calls' \in [Callers -> Call]
    BY <1>3 DEF Tick
  <1>5. UNCHANGED <<up, latest>>
    BY DEF Tick
  <1> QED
    BY <1>2, <1>3, <1>4, <1>5
    DEF IInv, TypeOK, BreakerTracksLatest, breaker_is_open

LEMMA BackendStep ==
  ASSUME IInv, NEW b \in Backends, BackendDown(b) \/ BackendUp(b) PROVE IInv'
  <1>1. UNCHANGED <<calls, open_for, latest>>
    BY DEF BackendDown, BackendUp
  <1>2. up' \subseteq ChainBackends
    BY DEF BackendDown, BackendUp, IInv, TypeOK
  <1> QED
    BY <1>1, <1>2 DEF IInv, TypeOK, BreakerTracksLatest, breaker_is_open

LEMMA InitInv == Init => IInv
  <1> SUFFICES ASSUME Init PROVE IInv
    OBVIOUS
  <1>1. \A c \in Callers : calls[c] = NoCall
    BY DEF Init
  <1>2. Orderly(NoCall) /\ NoCall.at <= Len(chain)
    BY NoCallFacts, AttemptsFacts, ChainFacts DEF Orderly, Finished
  <1>3. calls \in [Callers -> Call]
    BY NoCallFacts DEF Init
  <1> QED
    BY <1>1, <1>2, <1>3, LLMAssumption
    DEF Init, IInv, TypeOK, BreakerTracksLatest, breaker_is_open

LEMMA NextInv == IInv /\ [Next]_vars => IInv'
  <1> SUFFICES ASSUME IInv, [Next]_vars PROVE IInv'
    OBVIOUS
  <1>1. ASSUME NEW c \in Callers, ShortCircuit(c) PROVE IInv'
    BY <1>1, ShortCircuitStep
  <1>2. ASSUME NEW c \in Callers, Start(c) PROVE IInv'
    BY <1>2, StartCallStep
  <1>3. ASSUME NEW c \in Callers, Reply(c) PROVE IInv'
    BY <1>3, AnswerStep, ConnectionErrorStep, OtherErrorStep DEF Reply
  <1>4. ASSUME NEW c \in Callers, Wake(c) PROVE IInv'
    BY <1>4, WakeStep
  <1>5. CASE Tick
    BY <1>5, TickStep
  <1>6. ASSUME NEW b \in Backends, BackendDown(b) \/ BackendUp(b) PROVE IInv'
    BY <1>6, BackendStep
  <1>7. CASE UNCHANGED vars
    BY <1>7 DEF vars, IInv, TypeOK, BreakerTracksLatest, breaker_is_open
  <1> QED
    BY <1>1, <1>2, <1>3, <1>4, <1>5, <1>6, <1>7 DEF Next

-------------------------------------------------------------------------------
\* Every variable keeps its type, and every call under way is where its attempts
\* say it is (llm.py:721-786).
THEOREM Invariant == Spec => []IInv
  BY InitInv, NextInv, PTL DEF Spec

\* The breaker is open only while the call that last used the network is one
\* that failed on every backend, for any number of concurrent calls
\* (llm.py:503-530, 584-596).
THEOREM BreakerHolds == Spec => []BreakerTracksLatest
  <1>1. IInv => BreakerTracksLatest
    BY DEF IInv
  <1> QED
    BY <1>1, Invariant, PTL

\* No backend gets more than its attempts in a call, nor another one after a
\* connection error (llm.py:772-785).
THEOREM AttemptsHold == Spec => []AttemptsBounded
  <1>1. IInv => AttemptsBounded
    BY DEF IInv, Orderly, UnderWay, AttemptsBounded, backend
  <1> QED
    BY <1>1, Invariant, PTL

\* Failing means having tried every backend of the chain (llm.py:739-748).
THEOREM FailureHolds == Spec => []FailureMeansAllTried
  <1>1. IInv => FailureMeansAllTried
    BY DEF IInv, Orderly, Finished, Exhausted, FailureMeansAllTried
  <1> QED
    BY <1>1, Invariant, PTL

-------------------------------------------------------------------------------
(***************************************************************************)
(* The steps on top of the service.                                        *)
(***************************************************************************)

\* Everything the service does is one of its steps, or none.
LEMMA StepsNextCalls == [StepsNext]_all_vars => [Next]_vars
  <1> SUFFICES ASSUME [StepsNext]_all_vars PROVE [Next]_vars
    OBVIOUS
  <1>1. ASSUME NEW s \in Steps, StartStep(s) \/ Retry(s) PROVE Next
    BY <1>1, StepsAssumption DEF StartStep, Retry, dispatch, Next
  <1>2. ASSUME NEW s \in Steps, EndStep(s) PROVE UNCHANGED vars
    BY <1>2 DEF EndStep
  <1>3. CASE Elsewhere
    <2>1. ASSUME NEW c \in Callers \ Steps, OtherCall(c) PROVE Next
      BY <2>1 DEF OtherCall, Next
    <2> QED
      BY <1>3, <2>1 DEF Elsewhere, Next
  <1>4. CASE UNCHANGED all_vars
    BY <1>4 DEF all_vars
  <1> QED
    BY <1>1, <1>2, <1>3, <1>4 DEF StepsNext

\* With the executor on top, LLMService still behaves as it is specified: the
\* retries of _invoke_with_retry are calls like any other.
THEOREM StepsImplementCalls == StepsSpec => Spec
  <1>1. StepsInit => Init
    BY DEF StepsInit
  <1> QED
    BY <1>1, StepsNextCalls, PTL DEF StepsSpec, Spec

\* The types and the order of every call.
LEMMA CallsInvariant == StepsSpec => []IInv
  BY StepsImplementCalls, Invariant, PTL

-------------------------------------------------------------------------------
\* The requests of a call are a number.
LEMMA RequestsType ==
  ASSUME TypeOK, NEW s \in Steps PROVE Requests(s) \in Nat
  <1>1. calls[s] \in Call
    BY StepsAssumption DEF TypeOK
  <1>2. calls[s].sent["groq"] \in Nat /\ calls[s].sent["ollama"] \in Nat
    BY <1>1 DEF Call, Backends
  <1> QED
    BY <1>2 DEF Requests

\* The types of the variables that StepCalls adds.
StepTypes == enable_offline_fallback \in BOOLEAN /\ steps \in [Steps -> Step]

LEMMA StepTypesNext ==
  ASSUME TypeOK, StepTypes, [StepsNext]_all_vars PROVE StepTypes'
  <1>1. ASSUME NEW s \in Steps, StartStep(s) PROVE StepTypes'
    <2>1. [outcome |-> "running", attempt |-> 1, spent |-> 0] \in Step
      BY StepsAssumption DEF Step
    <2> QED
      BY <1>1, <2>1 DEF StartStep, StepTypes
  <1>2. ASSUME NEW s \in Steps, Retry(s) PROVE StepTypes'
    <2>1. Requests(s) \in Nat /\ steps[s] \in Step
      BY RequestsType DEF StepTypes
    <2>2. steps[s].attempt + 1 \in 0 .. StepAttempts
      BY <1>2, <2>1, StepsAssumption DEF Retry, Step
    <2>3. steps[s].spent + Requests(s) \in Nat
      BY <2>1 DEF Step
    <2> QED
      BY <1>2, <2>1, <2>2, <2>3 DEF Retry, StepTypes, Step
  <1>3. ASSUME NEW s \in Steps, EndStep(s) PROVE StepTypes'
    BY <1>3 DEF EndStep, StepTypes, Step
  <1>4. CASE UNCHANGED step_vars
    BY <1>4 DEF step_vars, StepTypes
  <1> QED
    BY <1>1, <1>2, <1>3, <1>4 DEF StepsNext, Elsewhere, all_vars

\* The service, the callers and the steps keep their types.
THEOREM StepTypeCorrect == StepsSpec => []StepTypeOK
  <1>1. IInv => TypeOK
    BY DEF IInv
  <1>2. StepsInit => StepTypes
    BY StepsAssumption DEF StepsInit, StepTypes, Step, IdleStep
  <1>3. IInv /\ StepTypes /\ [StepsNext]_all_vars => StepTypes'
    BY <1>1, StepTypesNext
  <1>4. StepsSpec => []StepTypes
    BY <1>2, <1>3, CallsInvariant, PTL DEF StepsSpec
  <1>5. IInv /\ StepTypes => StepTypeOK
    BY <1>1 DEF StepTypes, StepTypeOK
  <1> QED
    BY <1>4, <1>5, CallsInvariant, PTL

-------------------------------------------------------------------------------
\* What a step of the service does to its call, besides what IInv says of it:
\* the fallback stays, and backends outside of the chain are not asked.
Kept(old, new) == /\ new.offline = old.offline
                  /\ \A b \in Backends \ ChainBackends : new.sent[b] = old.sent[b]

LEMMA AskingKeeps ==
  ASSUME NEW call \in Call, NEW i \in 1 .. Len(chain)
  PROVE  Asking(call, i).state = "asking" /\ Kept(call, Asking(call, i))
  <1>1. /\ Asking(call, i).state = "asking"
        /\ Asking(call, i).offline = call.offline
        /\ Asking(call, i).sent = [call.sent EXCEPT ![chain[i]] = @ + 1]
    BY AskingRecord
  <1>2. call.sent \in [Backends -> Nat] /\ chain[i] \in ChainBackends
    BY ChainFacts DEF Call
  <1> QED
    BY <1>1, <1>2 DEF Kept

LEMMA NextBackendKeeps ==
  ASSUME IInv, NEW c \in Callers, NEW call \in Call, call.at \in 1 .. Len(chain),
         NextBackend(c, call)
  PROVE  /\ \A d \in Callers : d # c => calls'[d] = calls[d]
         /\ Kept(call, calls'[c])
         /\ calls'[c].state = "ended" => open_for' = Cooldown
  <1>1. calls \in [Callers -> Call]
    BY DEF IInv, TypeOK
  <1>2. CASE call.at < Len(chain) /\ calls' = [calls EXCEPT ![c] = Asking(call, call.at + 1)]
    <2>1. call.at + 1 \in 1 .. Len(chain)
      BY <1>2, ChainFacts
    <2>2. calls'[c] = Asking(call, call.at + 1)
      BY <1>1, <1>2
    <2> QED
      BY <1>1, <1>2, <2>1, <2>2, AskingKeeps
  <1>3. ASSUME NEW result, calls' = [calls EXCEPT ![c] = Ended(call, result)],
               open_for' = Cooldown
        PROVE  /\ \A d \in Callers : d # c => calls'[d] = calls[d]
               /\ Kept(call, calls'[c])
    <2>1. calls'[c] = Ended(call, result)
      BY <1>1, <1>3
    <2>2. /\ Ended(call, result).offline = call.offline
          /\ Ended(call, result).sent = call.sent
      BY EndedRecord
    <2> QED
      BY <1>1, <1>3, <2>1, <2>2 DEF Kept
  <1> QED
    BY <1>2, <1>3 DEF NextBackend

\* A reply or the end of a sleep: a call that ends with an error has opened
\* the breaker, and no other call moves.
LEMMA CallStepKeeps ==
  ASSUME IInv, NEW c \in Callers, Reply(c) \/ Wake(c)
  PROVE  /\ calls[c].state # "ended"
         /\ \A d \in Callers : d # c => calls'[d] = calls[d]
         /\ Kept(calls[c], calls'[c])
         /\ calls'[c].state = "ended" /\ calls'[c].result # "answer" =>
              open_for' = Cooldown
  <1>1. calls \in [Callers -> Call] /\ calls[c] \in Call
    BY DEF IInv, TypeOK
  <1>2. CASE Answer(c)
    <2>1. calls'[c] = Ended(calls[c], "answer")
      BY <1>1, <1>2 DEF Answer
    <2>2. /\ Ended(calls[c], "answer").offline = calls[c].offline
          /\ Ended(calls[c], "answer").sent = calls[c].sent
          /\ Ended(calls[c], "answer").result = "answer"
      BY <1>1, EndedRecord
    <2> QED
      BY <1>1, <1>2, <2>1, <2>2 DEF Answer, Kept
  <1>3. CASE ConnectionError(c)
    <2> DEFINE call == [calls[c] EXCEPT !.refused = @ \cup {backend(c)}]
    <2>1. calls[c].state = "asking" /\ NextBackend(c, call)
      BY <1>3 DEF ConnectionError
    <2>2. calls[c].at \in 1 .. Len(chain) /\ backend(c) \in Backends
      BY <2>1, AskingFacts
    <2>3. call = [state |-> calls[c].state, offline |-> calls[c].offline,
                  at |-> calls[c].at, sent |-> calls[c].sent,
                  refused |-> calls[c].refused \cup {backend(c)},
                  sleep |-> calls[c].sleep, result |-> calls[c].result]
      BY <1>1, RefusedRecord
    <2>4. call \in Call /\ call.at = calls[c].at /\ Kept(calls[c], call)
      BY <1>1, <2>2, <2>3 DEF Call, Kept
    <2> HIDE DEF call
    <2> QED
      BY <2>1, <2>2, <2>4, NextBackendKeeps DEF Kept
  <1>4. CASE OtherError(c)
    <2>1. calls[c].state = "asking" /\ calls[c].at \in 1 .. Len(chain)
      BY <1>4, AskingFacts DEF OtherError
    <2>2. CASE NextBackend(c, calls[c])
      BY <1>1, <2>1, <2>2, NextBackendKeeps
    <2>3. ASSUME NEW k, calls' = [calls EXCEPT ![c].state = "sleeping", ![c].sleep = k]
          PROVE  /\ \A d \in Callers : d # c => calls'[d] = calls[d]
                 /\ Kept(calls[c], calls'[c])
                 /\ calls'[c].state = "sleeping"
      <3> DEFINE one == [calls[c] EXCEPT !.state = "sleeping"]
      <3>1. one = [state |-> "sleeping", offline |-> calls[c].offline,
                   at |-> calls[c].at, sent |-> calls[c].sent,
                   refused |-> calls[c].refused, sleep |-> calls[c].sleep,
                   result |-> calls[c].result]
        BY <1>1, CallRecord
      <3>2. calls' = [calls EXCEPT ![c] = [one EXCEPT !.sleep = k]]
        BY <1>1, <2>3
      <3> HIDE DEF one
      <3>3. calls'[c] = [one EXCEPT !.sleep = k]
        BY <1>1, <3>2
      <3> QED
        BY <1>1, <3>1, <3>2, <3>3 DEF Kept
    <2> QED
      BY <1>4, <2>1, <2>2, <2>3 DEF OtherError
  <1>5. CASE Wake(c)
    <2>1. calls[c].state = "sleeping" /\ calls'[c] = Asking(calls[c], calls[c].at)
      BY <1>1, <1>5 DEF Wake
    <2>2. calls[c].at \in 1 .. Len(chain)
      BY <1>1, ChainFacts DEF IInv, TypeOK, Call
    <2> QED
      BY <1>1, <1>5, <2>1, <2>2, AskingKeeps DEF Wake
  <1> QED
    BY <1>2, <1>3, <1>4, <1>5 DEF Reply

\* A call is begun: answered from the fallback, for the breaker is open, or
\* sent to the first backend.
LEMMA BegunCall ==
  ASSUME IInv, NEW c \in Callers, ShortCircuit(c) \/ Start(c)
  PROVE  /\ calls[c].state = "ended"
         /\ \A d \in Callers : d # c => calls'[d] = calls[d]
         /\ \A b \in Backends \ ChainBackends : calls'[c].sent[b] = 0
         /\ open_for' = open_for
         /\ \/ /\ breaker_is_open
               /\ calls'[c].state = "ended"
               /\ \A b \in Backends : calls'[c].sent[b] = 0
            \/ /\ calls'[c].state = "asking"
               /\ calls'[c].offline => ~breaker_is_open
  <1>1. calls \in [Callers -> Call]
    BY DEF IInv, TypeOK
  <1>2. CASE ShortCircuit(c)
    <2>1. PICK result :
            calls' = [calls EXCEPT ![c] = [NoCall EXCEPT !.offline = TRUE,
                                                         !.result = result]]
      BY <1>2 DEF ShortCircuit
    <2>2. calls'[c] = [NoCall EXCEPT !.offline = TRUE, !.result = result]
      BY <1>1, <2>1
    <2>3. calls'[c].state = "ended" /\ calls'[c].sent = NoCall.sent
      BY <2>2 DEF NoCall
    <2> QED
      BY <1>1, <1>2, <2>1, <2>3, NoCallFacts DEF ShortCircuit
  <1>3. CASE Start(c)
    <2>1. PICK offline \in BOOLEAN :
            /\ offline => ~breaker_is_open
            /\ calls' = [calls EXCEPT
                           ![c] = Asking([NoCall EXCEPT !.offline = offline], 1)]
      BY <1>3 DEF Start
    <2> DEFINE call == [NoCall EXCEPT !.offline = offline]
    <2>2. call = [state |-> "ended", offline |-> offline, at |-> 1,
                  sent |-> NoCall.sent, refused |-> {}, sleep |-> NoCall.sleep,
                  result |-> "none"]
      BY NoCallFacts, CallRecord
    <2>3. calls' = [calls EXCEPT ![c] = Asking(call, 1)]
      BY <2>1
    <2> HIDE DEF call
    <2>4. call \in Call /\ call.offline = offline /\ call.sent = NoCall.sent
      BY <2>2, NoCallFacts DEF Call, Results
    <2>5. Asking(call, 1).state = "asking" /\ Kept(call, Asking(call, 1))
      BY <2>4, AskingKeeps, ChainFacts
    <2>6. calls'[c] = Asking(call, 1)
      BY <1>1, <2>3
    <2> QED
      BY <1>1, <1>3, <2>1, <2>3, <2>4, <2>5, <2>6, NoCallFacts DEF Start, Kept
  <1> QED
    BY <1>2, <1>3

-------------------------------------------------------------------------------
\* No call asks a backend that is not in its chain.
Unasked == \A c \in Callers : \A b \in Backends \ ChainBackends : calls[c].sent[b] = 0

\* The attempts of a step that are over have cost a call each.
Paid(s) == steps[s].outcome = "running" =>
             /\ steps[s].attempt >= 1
             /\ steps[s].spent <= (steps[s].attempt - 1) * CallCost

\* With a fallback and a cooldown, a step whose tool has raised finds the
\* breaker open, and has asked for nothing since its first attempt.
Cut(s) == steps[s].outcome = "running" /\ enable_offline_fallback /\ Cooldown > 0 =>
            /\ calls[s].offline
            /\ Due(s) /\ Raised(s) => breaker_is_open
            /\ \/ steps[s].attempt = 1 /\ steps[s].spent = 0
               \/ /\ calls[s].state = "ended" /\ Requests(s) = 0
                  /\ steps[s].spent <= CallCost

CostInv == Unasked /\ \A s \in Steps : Paid(s) /\ Cut(s)

\* What a call costs at most, by the bound on attempts of AttemptsBounded.
LEMMA CallCostBounds ==
  ASSUME IInv, Unasked, NEW s \in Steps
  PROVE  CallCost \in Nat /\ Requests(s) \in Nat /\ Requests(s) <= CallCost
  <1>1. /\ calls[s] \in Call
        /\ \A b \in Backends : calls[s].sent[b] <= max_attempts
        /\ \A b \in Backends \ ChainBackends : calls[s].sent[b] = 0
    BY StepsAssumption DEF IInv, TypeOK, Orderly, Unasked
  <1>2. calls[s].sent["groq"] \in Nat /\ calls[s].sent["ollama"] \in Nat
    BY <1>1 DEF Call, Backends
  <1>3. CASE Key
    <2>1. CallCost = max_attempts + max_attempts
      <3>1. chain = <<"groq", "ollama">>
        BY <1>3 DEF chain
      <3>2. Len(chain) = 2
        BY <3>1
      <3> QED
        BY <3>2, AttemptsFacts DEF CallCost
    <2> QED
      BY <1>1, <1>2, <2>1, AttemptsFacts DEF Requests, Backends
  <1>4. CASE ~Key
    <2>1. chain = <<"ollama">>
      BY <1>4 DEF chain
    <2>2. Len(chain) = 1 /\ ChainBackends = {"ollama"}
      BY <2>1 DEF ChainBackends
    <2>3. CallCost = max_attempts
      BY <2>2, AttemptsFacts DEF CallCost
    <2>4. calls[s].sent["groq"] = 0
      BY <1>1, <2>2 DEF Backends
    <2> QED
      BY <1>1, <1>2, <2>3, <2>4, AttemptsFacts DEF Requests, Backends
  <1> QED
    BY <1>3, <1>4

\* One more attempt adds one more call to the bound.
LEMMA OneMoreCall ==
  ASSUME NEW n \in Nat, NEW cost \in Nat
  PROVE  /\ (n - 1) * cost + cost = n * cost
         /\ (n + 1 - 1) * cost = n * cost
         /\ (1 - 1) * cost = 0
  OBVIOUS

\* The backends outside of the chain stay unasked.
LEMMA UnaskedNext ==
  ASSUME IInv, Unasked, [Next]_vars PROVE Unasked'
  <1>1. ASSUME NEW c \in Callers, ShortCircuit(c) \/ Start(c) PROVE Unasked'
    BY <1>1, BegunCall DEF Unasked
  <1>2. ASSUME NEW c \in Callers, Reply(c) \/ Wake(c) PROVE Unasked'
    BY <1>2, CallStepKeeps DEF Unasked, Kept
  <1>3. CASE Tick
    <2>1. ASSUME NEW c \in Callers PROVE calls'[c].sent = calls[c].sent
      <3>1. calls[c] \in Call
        BY DEF IInv, TypeOK
      <3> QED
        BY <1>3, <3>1 DEF Tick, Call
    <2> QED
      BY <2>1 DEF Unasked
  <1>4. ASSUME NEW b \in Backends, BackendDown(b) \/ BackendUp(b) PROVE Unasked'
    BY <1>4 DEF BackendDown, BackendUp, Unasked
  <1>5. CASE UNCHANGED vars
    BY <1>5 DEF vars, Unasked
  <1> QED
    BY <1>1, <1>2, <1>3, <1>4, <1>5 DEF Next

\* A step about which nothing changes keeps its bounds.
LEMMA CostUntouched ==
  ASSUME NEW s \in Steps, Paid(s), Cut(s),
         UNCHANGED <<steps[s], calls[s], enable_offline_fallback>>,
         open_for' = open_for \/ ~Due(s)
  PROVE  (Paid(s) /\ Cut(s))'
  <1>1. Due(s)' = Due(s) /\ Raised(s)' = Raised(s) /\ Requests(s)' = Requests(s)
    BY DEF Due, Raised, Requests
  <1>2. (chain = chain)' /\ CallCost' = CallCost
    BY DEF CallCost, chain, max_attempts
  <1> QED
    BY <1>1, <1>2 DEF Paid, Cut, breaker_is_open

\* The executor starts a step, or repeats its tool: the other steps keep their
\* bounds.
LEMMA DispatchOthers ==
  ASSUME IInv, CostInv, NEW s \in Steps, dispatch(s),
         NEW r \in Steps, r # s, steps'[r] = steps[r],
         UNCHANGED enable_offline_fallback
  PROVE  (Paid(r) /\ Cut(r))'
  <1>1. s \in Callers /\ r \in Callers
    BY StepsAssumption
  <1>2. calls'[r] = calls[r] /\ open_for' = open_for
    BY <1>1, BegunCall DEF dispatch
  <1> QED
    BY <1>2, CostUntouched DEF CostInv

LEMMA StartStepCost ==
  ASSUME IInv, StepTypes, CostInv, NEW s \in Steps, StartStep(s)
  PROVE  (\A r \in Steps : Paid(r) /\ Cut(r))'
  <1>1. /\ steps' = [steps EXCEPT ![s] = [outcome |-> "running", attempt |-> 1,
                                          spent |-> 0]]
        /\ dispatch(s) /\ s \in Callers
        /\ UNCHANGED enable_offline_fallback
    BY StepsAssumption DEF StartStep
  <1>2. steps \in [Steps -> Step]
    BY DEF StepTypes
  <1>3. /\ steps'[s].outcome = "running"
        /\ steps'[s].attempt = 1 /\ steps'[s].spent = 0
    BY <1>1, <1>2
  <1>4. CallCost' = CallCost /\ CallCost \in Nat
    BY CallCostBounds DEF CallCost, chain, max_attempts, CostInv
  <1>5. Paid(s)'
    BY <1>3, <1>4, OneMoreCall DEF Paid
  <1>6. Cut(s)'
    <2>1. calls'[s].offline = enable_offline_fallback
      BY <1>1 DEF dispatch
    <2>2. \/ breaker_is_open /\ calls'[s].state = "ended"
          \/ calls'[s].state = "asking"
      BY <1>1, BegunCall DEF dispatch
    <2>3. open_for' = open_for
      BY <1>1, BegunCall DEF dispatch
    <2>4. Due(s)' => breaker_is_open'
      BY <2>2, <2>3 DEF Due, breaker_is_open
    <2> QED
      BY <1>1, <1>3, <2>1, <2>4 DEF Cut
  <1>7. ASSUME NEW r \in Steps, r # s PROVE (Paid(r) /\ Cut(r))'
    BY <1>1, <1>2, <1>7, DispatchOthers
  <1> QED
    BY <1>5, <1>6, <1>7

LEMMA RetryCost ==
  ASSUME IInv, StepTypes, CostInv, NEW s \in Steps, Retry(s)
  PROVE  (\A r \in Steps : Paid(r) /\ Cut(r))'
  <1>1. /\ steps' = [steps EXCEPT ![s].attempt = @ + 1, ![s].spent = @ + Requests(s)]
        /\ dispatch(s) /\ s \in Callers /\ Due(s) /\ Raised(s)
        /\ UNCHANGED enable_offline_fallback
    BY StepsAssumption DEF Retry
  <1>2. steps \in [Steps -> Step] /\ steps[s] \in Step
    BY DEF StepTypes
  <1>3. /\ steps'[s].outcome = "running"
        /\ steps'[s].attempt = steps[s].attempt + 1
        /\ steps'[s].spent = steps[s].spent + Requests(s)
    BY <1>1, <1>2 DEF Step, Due
  <1>4. /\ CallCost' = CallCost /\ CallCost \in Nat
        /\ Requests(s) \in Nat /\ Requests(s) <= CallCost
    BY CallCostBounds DEF CallCost, chain, max_attempts, CostInv
  <1>5. /\ steps[s].attempt \in Nat /\ steps[s].spent \in Nat
        /\ steps[s].outcome = "running"
    BY <1>1, <1>2 DEF Step, Due
  <1>6. Paid(s)'
    <2>1. steps[s].attempt >= 1 /\ steps[s].spent <= (steps[s].attempt - 1) * CallCost
      BY <1>5 DEF CostInv, Paid
    <2> DEFINE before == (steps[s].attempt - 1) * CallCost
               after == (steps[s].attempt + 1 - 1) * CallCost
    <2>2. before + CallCost = after /\ before \in Int
      BY <1>4, <1>5, OneMoreCall
    <2> HIDE DEF before, after
    <2>3. steps[s].spent + Requests(s) <= after
      BY <1>4, <1>5, <2>1, <2>2 DEF before
    <2> QED
      BY <1>3, <1>4, <1>5, <2>1, <2>3 DEF Paid, after
  <1>7. Cut(s)'
    <2> SUFFICES ASSUME enable_offline_fallback, Cooldown > 0
                 PROVE  Cut(s)'
      BY <1>1 DEF Cut
    <2>1. /\ breaker_is_open
          /\ \/ steps[s].attempt = 1 /\ steps[s].spent = 0
             \/ Requests(s) = 0 /\ steps[s].spent <= CallCost
      BY <1>1, <1>5 DEF CostInv, Cut
    <2>2. calls'[s].offline
      BY <1>1 DEF dispatch
    <2>3. /\ calls'[s].state = "ended" /\ open_for' = open_for
          /\ \A b \in Backends : calls'[s].sent[b] = 0
      BY <1>1, <2>1, <2>2, BegunCall DEF dispatch
    <2>4. Requests(s)' = 0 /\ breaker_is_open'
      BY <2>1, <2>3 DEF Requests, Backends, breaker_is_open
    <2>5. steps'[s].spent <= CallCost'
      BY <1>3, <1>4, <1>5, <2>1
    <2> QED
      BY <2>2, <2>3, <2>4, <2>5 DEF Cut
  <1>8. ASSUME NEW r \in Steps, r # s PROVE (Paid(r) /\ Cut(r))'
    BY <1>1, <1>2, <1>8, DispatchOthers
  <1> QED
    BY <1>6, <1>7, <1>8

LEMMA EndStepCost ==
  ASSUME StepTypes, CostInv, NEW s \in Steps, EndStep(s)
  PROVE  (\A r \in Steps : Paid(r) /\ Cut(r))'
  <1>1. UNCHANGED <<vars, enable_offline_fallback>>
    BY DEF EndStep
  <1>2. steps'[s].outcome # "running"
    BY DEF EndStep, StepTypes, Step
  <1>3. ASSUME NEW r \in Steps, r # s PROVE (Paid(r) /\ Cut(r))'
    <2>1. steps'[r] = steps[r]
      BY <1>3 DEF EndStep, StepTypes
    <2> QED
      BY <1>1, <2>1, CostUntouched DEF CostInv, vars
  <1> QED
    BY <1>2, <1>3 DEF Paid, Cut

\* The rest of the program moves only while no step is due.
LEMMA ElsewhereCost ==
  ASSUME IInv, StepTypes, CostInv, Elsewhere
  PROVE  (\A r \in Steps : Paid(r) /\ Cut(r))'
  <1> SUFFICES ASSUME NEW r \in Steps PROVE (Paid(r) /\ Cut(r))'
    OBVIOUS
  <1>1. /\ ~Due(r) /\ UNCHANGED <<steps, enable_offline_fallback>>
        /\ r \in Callers /\ Paid(r) /\ Cut(r)
    BY StepsAssumption DEF Elsewhere, Settled, step_vars, CostInv
  <1>2. CallCost' = CallCost
    BY DEF CallCost, chain, max_attempts
  <1>3. Paid(r)'
    BY <1>1, <1>2 DEF Paid
  <1>4. CASE UNCHANGED calls[r]
    BY <1>1, <1>4, CostUntouched
  <1>5. ASSUME NEW c \in Callers, Reply(c) \/ Wake(c) PROVE Cut(r)'
    <2>1. CASE c # r
      <3>1. calls'[r] = calls[r]
        BY <1>1, <1>5, <2>1, CallStepKeeps
      <3> QED
        BY <1>4, <3>1
    <2>2. CASE c = r
      <3>1. /\ calls[r].state # "ended" /\ calls'[r].offline = calls[r].offline
            /\ calls'[r].state = "ended" /\ calls'[r].result # "answer" =>
                 open_for' = Cooldown
        BY <1>5, <2>2, CallStepKeeps DEF Kept
      <3>2. Cooldown > 0 => (Due(r)' /\ Raised(r)' => breaker_is_open')
        BY <3>1 DEF Due, Raised, breaker_is_open
      <3> QED
        BY <1>1, <3>1, <3>2 DEF Cut
    <2> QED
      BY <2>1, <2>2
  <1>6. ASSUME NEW c \in Callers \ Steps, OtherCall(c) PROVE Cut(r)'
    <2>1. calls'[r] = calls[r]
      BY <1>1, <1>6, BegunCall DEF OtherCall
    <2> QED
      BY <1>4, <2>1
  <1>7. CASE Tick
    <2>1. calls[r] \in Call
      BY <1>1 DEF IInv, TypeOK
    <2>2. /\ calls'[r].state = calls[r].state /\ calls'[r].sent = calls[r].sent
          /\ calls'[r].offline = calls[r].offline
      BY <1>1, <1>7, <2>1 DEF Tick, Call
    <2>3. ~Due(r)' /\ Requests(r)' = Requests(r)
      BY <1>1, <2>2 DEF Due, Requests
    <2> QED
      BY <1>1, <1>2, <1>3, <2>2, <2>3 DEF Cut
  <1>8. ASSUME NEW b \in Backends, BackendDown(b) \/ BackendUp(b) PROVE Cut(r)'
    BY <1>4, <1>8 DEF BackendDown, BackendUp
  <1> QED
    BY <1>3, <1>5, <1>6, <1>7, <1>8 DEF Elsewhere

LEMMA CostNext ==
  ASSUME IInv, StepTypes, CostInv, [StepsNext]_all_vars PROVE CostInv'
  <1>1. Unasked'
    BY StepsNextCalls, UnaskedNext DEF CostInv
  <1>2. (\A r \in Steps : Paid(r) /\ Cut(r))'
    <2>1. CASE UNCHANGED all_vars
      BY <2>1, CostUntouched DEF all_vars, vars, step_vars, CostInv
    <2> QED
      BY <2>1, StartStepCost, RetryCost, EndStepCost, ElsewhereCost DEF StepsNext
  <1> QED
    BY <1>1, <1>2 DEF CostInv

\* A step asks the backends no more often than its attempts allow, and with a
\* fallback no more often than one call does (_invoke_with_retry, executor.py).
THEOREM StepCostHolds == StepsSpec => []StepCost
  <1>1. StepsInit => StepTypes
    BY StepsAssumption DEF StepsInit, StepTypes, Step, IdleStep
  <1>2. StepsInit => CostInv
    <2> SUFFICES ASSUME StepsInit PROVE CostInv
      OBVIOUS
    <2>1. Unasked
      BY NoCallFacts DEF StepsInit, Init, Unasked
    <2>2. \A s \in Steps : steps[s].outcome = "idle"
      BY DEF StepsInit, IdleStep
    <2> QED
      BY <2>1, <2>2 DEF CostInv, Paid, Cut
  <1>3. IInv /\ StepTypes /\ [StepsNext]_all_vars => StepTypes'
    BY StepTypesNext DEF IInv
  <1>4. IInv /\ StepTypes /\ CostInv /\ [StepsNext]_all_vars => CostInv'
    BY CostNext
  <1>5. IInv /\ StepTypes /\ CostInv => StepCost
    <2> SUFFICES ASSUME IInv, StepTypes, CostInv, NEW s \in Steps,
                        steps[s].outcome = "running"
                 PROVE  steps[s].spent + Requests(s) <=
                          IF enable_offline_fallback /\ Cooldown > 0
                          THEN CallCost ELSE steps[s].attempt * CallCost
      BY DEF StepCost
    <2>1. CallCost \in Nat /\ Requests(s) \in Nat /\ Requests(s) <= CallCost
      BY CallCostBounds DEF CostInv
    <2>2. steps[s].attempt \in Nat /\ steps[s].spent \in Nat
      BY DEF StepTypes, Step
    <2>3. CASE enable_offline_fallback /\ Cooldown > 0
      BY <2>1, <2>2, <2>3 DEF CostInv, Cut
    <2>4. steps[s].spent + Requests(s) <= steps[s].attempt * CallCost
      <3> DEFINE before == (steps[s].attempt - 1) * CallCost
                 all == steps[s].attempt * CallCost
      <3>1. before + CallCost = all /\ before \in Int
        BY <2>1, <2>2, OneMoreCall
      <3>2. steps[s].spent <= before
        BY DEF CostInv, Paid
      <3> HIDE DEF before, all
      <3>3. steps[s].spent + Requests(s) <= all
        BY <2>1, <2>2, <3>1, <3>2
      <3> QED
        BY <3>3 DEF all
    <2> QED
      BY <2>3, <2>4
  <1> QED
    BY <1>1, <1>2, <1>3, <1>4, <1>5, CallsInvariant, PTL DEF StepsSpec

===============================================================================
