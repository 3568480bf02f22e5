---------------------------- MODULE EventStream ----------------------------
(***************************************************************************)
(* The per-run event bus (app/core/event_bus.py) and the SSE endpoint that *)
(* reads it (stream_agent_run and _event_stream, app/api/agent.py).        *)
(*                                                                         *)
(* All of this runs on one asyncio loop.  publish, subscribe and           *)
(* unsubscribe contain no suspension point, so each is one step; the       *)
(* generator is suspended wherever it yields a frame and wherever it waits *)
(* for its queue, and there anything else may happen: events, other        *)
(* clients, the client's own disconnect.  A step never spans more than the *)
(* code does between two suspensions; it may span less.                    *)
(*                                                                         *)
(* An event is abstracted to its run, its place in that run's log and      *)
(* whether it is the terminal run_completed.  An SSE id is the number of   *)
(* frames sent before on the same connection (`index`), so it is implied   *)
(* by a frame's place in frames[c].                                        *)
(***************************************************************************)
EXTENDS Naturals, Sequences

CONSTANTS Runs,        \* run identifiers
          Clients,     \* stream clients (browsers); each may reconnect
          NoRun,       \* "not connected to any run"
          MaxProgress  \* bound: events a run publishes before run_completed

ASSUME NoRunAssumption == NoRun \notin Runs
ASSUME MaxProgressAssumption == MaxProgress \in Nat \ {0}

VARIABLES
  phase,   \* phase[r]: is r in the store, executing, over, or over in silence
  log,     \* log[r]: RunState.events, the replay buffer
  subs,    \* subs[r]: EventBus._queues[r], named by the owners of the queues
  pc,      \* pc[c]: where the request of client c is suspended
  watch,   \* watch[c]: the run_id of that request
  replay,  \* replay[c]: what is left of the snapshot `buffered`
  queue,   \* queue[c]: the subscriber's asyncio.Queue
  frames,  \* frames[c]: event frames sent on the current connection
  lastId   \* lastId[c]: frames the client has of this run, 1 + its last id

vars == <<phase, log, subs, pc, watch, replay, queue, frames, lastId>>
runVars == <<phase, log>>

Event == [run : Runs, n : Nat \ {0}, last : BOOLEAN]

\* "absent": not in the RunStore; "silent": planning failed, the run is over
\* and nothing was published about it.
Phases == {"absent", "executing", "completed", "silent"}

\* "accepted": the 200 response exists but its generator has not started;
\* "yielding": the generator is suspended at a yield (or about to reach one);
\* "waiting": it is suspended in wait_for(queue.get()).
Places == {"idle", "refused", "accepted", "yielding", "waiting", "closed"}
Started == {"yielding", "waiting"}
Open == {"accepted"} \cup Started

----------------------------------------------------------------------------
Init == /\ phase = [r \in Runs |-> "absent"]
        /\ log = [r \in Runs |-> <<>>]
        /\ subs = [r \in Runs |-> {}]
        /\ pc = [c \in Clients |-> "idle"]
        /\ watch = [c \in Clients |-> NoRun]
        /\ replay = [c \in Clients |-> <<>>]
        /\ queue = [c \in Clients |-> <<>>]
        /\ frames = [c \in Clients |-> <<>>]
        /\ lastId = [c \in Clients |-> 0]

(***************************************************************************)
(* Faulty variants.  Each run's cfg is meant to refute its property when   *)
(* the named variant stands in for the definition that follows it.         *)
(***************************************************************************)

\* publish without the per-run key: every queue of every run gets the event.
publishToAllRuns(r, last) ==
    LET e == [run |-> r, n |-> Len(log[r]) + 1, last |-> last]
    IN  /\ log' = [log EXCEPT ![r] = Append(@, e)]
        /\ queue' = [c \in Clients |->
                       IF c \in UNION {subs[q] : q \in Runs} THEN Append(queue[c], e)
                                                            ELSE queue[c]]

\* publish that fills the replay buffer only.
publishBufferOnly(r, last) ==
    /\ log' = [log EXCEPT ![r] =
                 Append(@, [run |-> r, n |-> Len(@) + 1, last |-> last])]
    /\ UNCHANGED queue

(***************************************************************************)
(* EventBus.publish: append to the replay buffer, then hand the event to   *)
(* every queue registered for that run.                                    *)
(***************************************************************************)
publish(r, last) ==
    LET e == [run |-> r, n |-> Len(log[r]) + 1, last |-> last]
    IN  /\ log' = [log EXCEPT ![r] = Append(@, e)]
        /\ queue' = [c \in Clients |->
                       IF c \in subs[r] THEN Append(queue[c], e) ELSE queue[c]]

\* store.create, then execute_run up to its first suspension: planning_started.
CreateRun(r) ==
    /\ phase[r] = "absent"
    /\ phase' = [phase EXCEPT ![r] = "executing"]
    /\ publish(r, FALSE)
    /\ UNCHANGED <<subs, pc, watch, replay, frames, lastId>>

\* plan_created, step_started, step_completed, step_failed, reflection.
Progress(r) ==
    /\ phase[r] = "executing"
    /\ Len(log[r]) < MaxProgress
    /\ publish(r, FALSE)
    /\ UNCHANGED <<phase, subs, pc, watch, replay, frames, lastId>>

\* Faulty variant: run_completed is announced while the run still goes on.
CompleteTooEarly(r) ==
    /\ phase[r] = "executing"
    /\ publish(r, TRUE)
    /\ UNCHANGED <<phase, subs, pc, watch, replay, frames, lastId>>

CompleteRun(r) ==
    /\ phase[r] = "executing"
    /\ phase' = [phase EXCEPT ![r] = "completed"]
    /\ publish(r, TRUE)
    /\ UNCHANGED <<subs, pc, watch, replay, frames, lastId>>

\* PlanningError: the run becomes failed and persistent, and no event is sent.
PlanningFails(r) ==
    /\ phase[r] = "executing" /\ Len(log[r]) = 1
    /\ phase' = [phase EXCEPT ![r] = "silent"]
    /\ UNCHANGED <<log, subs, pc, watch, replay, queue, frames, lastId>>

----------------------------------------------------------------------------
\* EventBus.subscribe and EventBus.unsubscribe.
subscribe(c) == subs' = [subs EXCEPT ![watch[c]] = @ \cup {c}]

unsubscribe(c) == subs' = [subs EXCEPT ![watch[c]] = @ \ {c}]

\* Faulty variant: the terminal check looks at the first frame.
EndSeenFirst(c) == frames[c] # <<>> /\ frames[c][1].last

\* The frame that makes _event_stream return.
EndSeen(c) == frames[c] # <<>> /\ frames[c][Len(frames[c])].last

Send(c, e) ==
    /\ frames' = [frames EXCEPT ![c] = Append(@, e)]
    /\ lastId' = [lastId EXCEPT ![c] = Len(frames[c]) + 1]

\* GET /agent/{run_id}/stream; a client comes back after any earlier ending,
\* with the id of its last frame when it is still about the same run.
stream_agent_run(c, r) ==
    /\ pc[c] \notin Open
    /\ pc' = [pc EXCEPT ![c] = IF phase[r] = "absent" THEN "refused" ELSE "accepted"]
    /\ watch' = [watch EXCEPT ![c] = r]
    /\ lastId' = [lastId EXCEPT ![c] = IF watch[c] = r THEN @ ELSE 0]
    /\ UNCHANGED <<runVars, subs, replay, queue, frames>>

\* The generator starts: it registers a fresh queue and takes its snapshot.
Start(c) ==
    /\ pc[c] = "accepted"
    /\ subscribe(c)
    /\ replay' = [replay EXCEPT ![c] = log[watch[c]]]
    /\ queue' = [queue EXCEPT ![c] = <<>>]
    /\ frames' = [frames EXCEPT ![c] = <<>>]
    /\ pc' = [pc EXCEPT ![c] = "yielding"]
    /\ UNCHANGED <<runVars, watch, lastId>>

YieldBuffered(c) ==
    /\ pc[c] = "yielding" /\ ~EndSeen(c)
    /\ replay[c] # <<>>
    /\ Send(c, Head(replay[c]))
    /\ replay' = [replay EXCEPT ![c] = Tail(@)]
    /\ UNCHANGED <<runVars, subs, pc, watch, queue>>

AwaitLive(c) ==
    /\ pc[c] = "yielding" /\ ~EndSeen(c)
    /\ replay[c] = <<>>
    /\ pc' = [pc EXCEPT ![c] = "waiting"]
    /\ UNCHANGED <<runVars, subs, watch, replay, queue, frames, lastId>>

YieldLive(c) ==
    /\ pc[c] = "waiting"
    /\ queue[c] # <<>>
    /\ Send(c, Head(queue[c]))
    /\ queue' = [queue EXCEPT ![c] = Tail(@)]
    /\ pc' = [pc EXCEPT ![c] = "yielding"]
    /\ UNCHANGED <<runVars, subs, watch, replay>>

\* Faulty variant: the timeout cancels a get that already took an event.
KeepAliveLosesEvent(c) ==
    /\ pc[c] = "waiting"
    /\ pc' = [pc EXCEPT ![c] = "yielding"]
    /\ queue' = [queue EXCEPT ![c] = IF @ = <<>> THEN @ ELSE Tail(@)]
    /\ UNCHANGED <<runVars, subs, watch, replay, frames, lastId>>

\* Faulty variant: the keep-alive goes out as an event frame.
KeepAliveAsFrame(c) ==
    /\ pc[c] = "waiting"
    /\ queue[c] = <<>>
    /\ Send(c, NoRun)
    /\ pc' = [pc EXCEPT ![c] = "waiting"]
    /\ UNCHANGED <<runVars, subs, watch, replay, queue>>

\* wait_for times out on an empty queue; a comment is yielded.
KeepAlive(c) ==
    /\ pc[c] = "waiting"
    /\ queue[c] = <<>>
    /\ pc' = [pc EXCEPT ![c] = "yielding"]
    /\ UNCHANGED <<runVars, subs, watch, replay, queue, frames, lastId>>

\* The finally block, and with it the end of the generator's locals.
Finally(c) ==
    /\ unsubscribe(c)
    /\ pc' = [pc EXCEPT ![c] = "closed"]
    /\ replay' = [replay EXCEPT ![c] = <<>>]
    /\ queue' = [queue EXCEPT ![c] = <<>>]
    /\ UNCHANGED <<runVars, watch, frames, lastId>>

Return(c) == pc[c] = "yielding" /\ EndSeen(c) /\ Finally(c)

\* Faulty variant: clean-up only after the terminal event, not in a finally.
DisconnectLeaks(c) ==
    /\ pc[c] \in Started
    /\ pc' = [pc EXCEPT ![c] = "closed"]
    /\ UNCHANGED <<runVars, subs, watch, replay, queue, frames, lastId>>

\* GeneratorExit or cancellation at a suspension of the started generator.
Disconnect(c) == pc[c] \in Started /\ Finally(c)

\* The client goes before the generator ran: there is no try block to leave.
Abandon(c) ==
    /\ pc[c] = "accepted"
    /\ pc' = [pc EXCEPT ![c] = "closed"]
    /\ UNCHANGED <<runVars, subs, watch, replay, queue, frames, lastId>>

----------------------------------------------------------------------------
RunStep(r) == CreateRun(r) \/ Progress(r) \/ CompleteRun(r) \/ PlanningFails(r)

\* What the server does for c on its own.
Serve(c) == \/ Start(c) \/ YieldBuffered(c) \/ AwaitLive(c)
            \/ YieldLive(c) \/ KeepAlive(c) \/ Return(c)

ClientStep(c) == (\E r \in Runs : stream_agent_run(c, r)) \/ Disconnect(c) \/ Abandon(c)

Next == \/ \E r \in Runs : RunStep(r)
        \/ \E c \in Clients : Serve(c) \/ ClientStep(c)

Spec == Init /\ [][Next]_vars

(***************************************************************************)
(* The event loop resumes every task that can go on and every timer fires. *)
(* Nothing is assumed of the clients or of the runs.                       *)
(***************************************************************************)
FairSpec == Spec /\ \A c \in Clients : WF_vars(Serve(c))

----------------------------------------------------------------------------
\* Each variable holds a value of its type: the bus, the store's logs and the
\* locals of every generator.
TypeOK == /\ phase \in [Runs -> Phases]
          /\ log \in [Runs -> Seq(Event)]
          /\ subs \in [Runs -> SUBSET Clients]
          /\ pc \in [Clients -> Places]
          /\ watch \in [Clients -> Runs \cup {NoRun}]
          /\ replay \in [Clients -> Seq(Event)]
          /\ queue \in [Clients -> Seq(Event)]
          /\ frames \in [Clients -> Seq(Event)]
          /\ lastId \in [Clients -> Nat]

(***************************************************************************)
(* A started connection holds its run's log, split in three: what was      *)
(* sent, what is left of the snapshot, what has queued up since.  Nothing  *)
(* is missing, repeated, out of order or from another run, whenever        *)
(* publications fall between subscribe, snapshot, replay and the live loop *)
(* ("the snapshot and the live queue partition the events with no overlap",*)
(* agent.py:231-232).                                                      *)
(***************************************************************************)
Partition ==
    \A c \in Clients : pc[c] \in Started =>
        (frames[c] \o replay[c]) \o queue[c] = log[watch[c]]

(***************************************************************************)
(* The bus holds a queue for exactly the started, unfinished generators of *)
(* a run: no disconnect, return or reconnect leaks a subscriber, and none  *)
(* is unregistered while it still listens (agent.py:276-278).              *)
(***************************************************************************)
SubscribersExact ==
    \A r \in Runs : subs[r] = {c \in Clients : pc[c] \in Started /\ watch[c] = r}

(***************************************************************************)
(* A client that was sent run_completed was sent the whole log of that run:*)
(* nothing is published after the terminal event and nothing before it was *)
(* dropped on the way.                                                     *)
(***************************************************************************)
EndMeansWholeLog ==
    \A c \in Clients : EndSeen(c) /\ pc[c] \in Started => frames[c] = log[watch[c]]

(***************************************************************************)
(* An event published while a client is connected reaches it: the k-th     *)
(* event of the watched run is sent unless the client leaves, whatever     *)
(* keep-alive timeouts fall in between (agent.py:264-275).                 *)
(***************************************************************************)
EveryEventSent ==
    \A c \in Clients : \A r \in Runs : \A k \in 1 .. MaxProgress + 1 :
        (pc[c] \in Open /\ watch[c] = r /\ Len(log[r]) >= k)
          ~> (pc[c] # "accepted" /\ (pc[c] \in Started => Len(frames[c]) >= k))

(***************************************************************************)
(* The stream of a run that published run_completed ends on its own, for   *)
(* early and for late subscribers (agent.py:258-261, 274-275).             *)
(***************************************************************************)
CompletedStreamEnds ==
    \A c \in Clients : \A r \in Runs :
        (pc[c] \in Open /\ watch[c] = r /\ phase[r] = "completed") ~> (pc[c] \notin Open)

(***************************************************************************)
(* The stream of any run that is over ends on its own, as schemas.py:329   *)
(* would have it ("Emitted once as the terminal event when a Run           *)
(* finishes").  It does not: a run whose planning failed sends none.       *)
(***************************************************************************)
FinishedStreamEnds ==
    \A c \in Clients : \A r \in Runs :
        (pc[c] \in Open /\ watch[c] = r /\ phase[r] \in {"completed", "silent"})
          ~> (pc[c] \notin Open)

(***************************************************************************)
(* A reconnecting client is sent only frames it does not have, which is    *)
(* what the frame id is documented to be for ("a monotonic id: for         *)
(* Last-Event-ID resumption", agent.py:285).  Last-Event-ID is never read. *)
(***************************************************************************)
ResumesAfterLastId ==
    [][\A c \in Clients : Len(frames'[c]) > Len(frames[c]) => Len(frames'[c]) > lastId[c]]_vars

(***************************************************************************)
(* EventStream implements RunFeed.                                         *)
(***************************************************************************)
Feed == INSTANCE RunFeed
          WITH watching <- [c \in Clients |-> IF pc[c] \in Started THEN watch[c] ELSE NoRun],
               feed <- frames

(***************************************************************************)
(* Replay buffer, queues and subscriber list together behave as one cursor *)
(* per client over one log per run.                                        *)
(***************************************************************************)
FeedSpec == Feed!Spec
=============================================================================
