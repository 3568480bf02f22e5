------------------------------- MODULE AgentApi -------------------------------
(***************************************************************************)
(* POST /agent (create_agent_run, src/app/api/agent.py): the rate limiter, *)
(* the validation of the body, the guardrail (src/app/agent/guardrail.py), *)
(* the run store and the run, for any number of requests at once.  Each    *)
(* request is one coroutine.  It is suspended while it reads its body,     *)
(* while the guardrail waits for the model, and inside execute_run; what   *)
(* the code does between two of these is one action.                       *)
(*                                                                         *)
(* The limiter is RateLimiter.  A run is what EventStream makes of it: a   *)
(* log of numbered events, of which the last may be terminal, and whether  *)
(* it is over; RunLoop says what happens inside.  Its run_id is a fresh    *)
(* uuid4: here the number of the request that created it.                  *)
(***************************************************************************)
EXTENDS Integers, Sequences

CONSTANTS IPs, Limit, WindowSeconds, TicksPerSecond, MaxClock, \* of RateLimiter
          MaxPosts,    \* bound of the model: requests ever sent
          MaxProgress  \* bound of the model: events before run_completed

ASSUME ApiAssumption == /\ MaxPosts \in Nat /\ MaxProgress \in Nat
                        /\ Limit \in Nat /\ WindowSeconds \in Nat
                        /\ TicksPerSecond \in Nat \ {0} /\ MaxClock \in Nat

VARIABLES clock, hits, allowed, promise, \* of RateLimiter
          posts,     \* posts[p]: the coroutine of request p
          runs,      \* RunStore._runs
          security   \* history: requests a security_event was emitted for

limiterVars == <<clock, hits, allowed, promise>>
apiVars == <<limiterVars, posts, runs, security>>

Limiter == INSTANCE RateLimiter

Posts == 1 .. MaxPosts

Intents == {"valid_document_request", "malicious", "non_document"}

\* "sent": on its way; "reading": waits for its body; "classifying": for the
\* guardrail's model; "working": inside execute_run.
Stages == {"unsent", "sent", "reading", "classifying", "working", "answered"}

\* The responses: 200, 429, 422 twice, 503.
Codes == {"none", "ok", "rate_limited", "invalid", "rejected", "planning_failed"}

\* verdict: what the model said the request was, or "none", and "undecided" if
\* it failed to say.
Post == [stage : Stages, ip : IPs, code : Codes,
         verdict : Intents \cup {"none", "undecided"}]

\* "settled" stands for what derive_status makes of a run that was executed.
Run == [status : {"absent", "running", "settled", "failed"},
        log : Seq([run : Posts, n : Nat \ {0}, last : BOOLEAN])]

NoRunYet == [status |-> "absent", log |-> <<>>]

ApiInit == /\ Limiter!Init
           /\ posts \in [Posts -> {[stage |-> "unsent", ip |-> ip, code |-> "none",
                                    verdict |-> "none"] : ip \in IPs}]
           /\ runs = [p \in Posts |-> NoRunYet]
           /\ security = {}

Moved(post, stage) == [post EXCEPT !.stage = stage]

Answered(post, code) == [post EXCEPT !.stage = "answered", !.code = code]

\* MUTANT of Extended: frames are numbered from 0.
ExtendedFromZero(p, last) ==
  Append(runs[p].log, [run |-> p, n |-> Len(runs[p].log), last |-> last])

\* The log of run p with one more event.
Extended(p, last) ==
  Append(runs[p].log, [run |-> p, n |-> Len(runs[p].log) + 1, last |-> last])

\* The limiter is asked before anything else of the request is looked at.
Arrive(p) ==
  /\ posts[p].stage = "sent"
  /\ \/ /\ Limiter!Allow(posts[p].ip)
        /\ posts' = [posts EXCEPT ![p] = Moved(@, "reading")]
     \/ /\ Limiter!Deny(posts[p].ip)
        /\ posts' = [posts EXCEPT ![p] = Answered(@, "rate_limited")]
  /\ UNCHANGED <<runs, security>>

\* MUTANT of StartRun: the run is registered when the planner has answered.
StartRunLate(p, post) ==
  /\ posts' = [posts EXCEPT ![p] = Moved(post, "working")]
  /\ UNCHANGED runs

\* store.create, and execute_run up to the planner's call: planning_started.
StartRun(p, post) ==
  /\ posts' = [posts EXCEPT ![p] = Moved(post, "working")]
  /\ runs' = [runs EXCEPT ![p] = [status |-> "running", log |-> Extended(p, FALSE)]]

(***************************************************************************)
(* The body has arrived, or its connection broke.  It is invalid, or it    *)
(* names a kind of document and passes the guardrail without a model, or   *)
(* the model is asked.                                                     *)
(***************************************************************************)
Read(p) ==
  /\ posts[p].stage = "reading"
  /\ \/ posts' = [posts EXCEPT ![p] = Answered(@, "invalid")] /\ UNCHANGED runs
     \/ posts' = [posts EXCEPT ![p] = Moved(@, "classifying")] /\ UNCHANGED runs
     \/ StartRun(p, posts[p])
  /\ UNCHANGED <<limiterVars, security>>

\* MUTANT of classify: a model that fails rejects the request.
classify_fails_closed(p) ==
  /\ posts[p].stage = "classifying"
  /\ \E v \in Intents \cup {"undecided"} :
       LET post == [posts[p] EXCEPT !.verdict = v]
       IN  /\ IF v = "valid_document_request" THEN StartRun(p, post)
              ELSE /\ posts' = [posts EXCEPT ![p] = Answered(post, "rejected")]
                   /\ UNCHANGED runs
           /\ security' = IF v = "malicious" THEN security \cup {p} ELSE security
  /\ UNCHANGED limiterVars

\* The model decides, or fails to and the request is let through.
classify(p) ==
  /\ posts[p].stage = "classifying"
  /\ \E v \in Intents \cup {"undecided"} :
       LET post == [posts[p] EXCEPT !.verdict = v]
       IN  /\ IF v \in {"malicious", "non_document"}
              THEN /\ posts' = [posts EXCEPT ![p] = Answered(post, "rejected")]
                   /\ UNCHANGED runs
              ELSE StartRun(p, post)
           /\ security' = IF v = "malicious" THEN security \cup {p} ELSE security
  /\ UNCHANGED limiterVars

Executing(p) == posts[p].stage = "working" /\ runs[p].status = "running"

\* PlanningError, raised before anything but planning_started was published.
PlanningFails(p) ==
  /\ Executing(p) /\ Len(runs[p].log) = 1
  /\ runs' = [runs EXCEPT ![p].status = "failed"]
  /\ posts' = [posts EXCEPT ![p] = Answered(@, "planning_failed")]
  /\ UNCHANGED <<limiterVars, security>>

Progress(p) ==
  /\ Executing(p) /\ Len(runs[p].log) < MaxProgress
  /\ runs' = [runs EXCEPT ![p].log = Extended(p, FALSE)]
  /\ UNCHANGED <<limiterVars, posts, security>>

\* MUTANT of Complete: the response is sent, the run goes on in the background.
CompleteInBackground(p) ==
  /\ Executing(p) /\ Len(runs[p].log) > 1
  /\ posts' = [posts EXCEPT ![p] = Answered(@, "ok")]
  /\ UNCHANGED <<limiterVars, runs, security>>

\* The status is settled, run_completed is published, the response is sent.
Complete(p) ==
  /\ Executing(p) /\ Len(runs[p].log) > 1
  /\ runs' = [runs EXCEPT ![p] = [status |-> "settled", log |-> Extended(p, TRUE)]]
  /\ posts' = [posts EXCEPT ![p] = Answered(@, "ok")]
  /\ UNCHANGED <<limiterVars, security>>

create_agent_run(p) == \/ Arrive(p) \/ Read(p) \/ classify(p)
                       \/ PlanningFails(p) \/ Progress(p) \/ Complete(p)

\* The limiter's clock.
Clock == Limiter!Tick /\ UNCHANGED <<posts, runs, security>>
===============================================================================
