# Autonomus: a formal model of the agent service

TLA+ specifications of the autonomous document agent in `src/`: a FastAPI
service that takes a request (`POST /agent`), plans it with a language model,
executes the plan step by step, streams its progress to browsers over
server-sent events, and serves the document it built. The modules are written
from the code; the `map` of `PROJECT.json` says which lines each definition
stands for. TLC checks them on small instances, and TLAPS proves the most
important results for every value of the constants.

Contents: [inventory](#inventory) · [modules](#modules-and-the-code) ·
[runs](#what-the-runs-check) · [fairness](#fairness) · [proofs](#what-is-proved) ·
[disagreements](#where-the-code-and-its-texts-disagree) ·
[not modelled](#what-is-not-modelled) · [plan](#plan)

## Inventory

Everything runs in one process on one asyncio loop, so two pieces of code
interleave only where one of them awaits. Nothing but the built document is
persisted: a restart loses every run.

| Component | State | Operations | Talks to | Hard behaviour | Correct when |
|---|---|---|---|---|---|
| Event bus `core/event_bus.py` | a set of queues per run; the replay buffer is `RunState.events` | `publish`, `subscribe`, `unsubscribe` | orchestrator, executor and reflector publish; SSE endpoint reads | publications between any two suspensions of a subscriber; leaks on disconnect | a subscriber gets its run's log, whole, once, in order; exactly the live ones are registered |
| SSE endpoint `api/agent.py` | per connection: snapshot, queue, frames sent | connect, replay, wait, keep-alive, return, disconnect | bus, run store, browser | keep-alive timeout racing an event; disconnect anywhere; reconnection; late subscribers | every event arrives; the stream ends when the run does |
| Run store `core/run_store.py` | run id → `RunState` | create, get, update | all | grows for ever | a run is found from its creation on |
| Orchestrator `agent/orchestrator.py` | `RunState` | `execute_run`, `derive_status`, fallback document | planner, executor, reflector, builder, bus | each stage may fail; status, URL, path and file are set apart | the status says what there is; one terminal event, last |
| Executor `agent/executor.py` | step statuses, sections, document path | `run`, dependencies, retries, summary synthesis | tools, bus | failures mixed with dependencies; several builds; torn saves | steps run after what they need; sections are neither lost nor doubled |
| Reflector `agent/reflector.py` | none | `reflect` | LLM service, bus | any failure is swallowed | one event; its revisions are used |
| Planner `agent/planner.py`, plan validator `models/schemas.py` | none | `create_plan`, `steps_sequential` | LLM service | the model's numbering is arbitrary | steps keep the dependencies they were given |
| LLM service `services/llm.py` | breaker's deadline; per call: backend, attempt | `complete`, `complete_json` | Groq, Ollama; every agent component | concurrent calls share the breaker; two kinds of error on two backends; the executor retries on top | attempts are bounded; a failure means all was tried; the breaker does not outlive a success; a step costs a bounded number of requests and ends |
| JSON repair `services/llm.py` | none; the locals of a scan | `_parse_json`, `_repair_json`, `_extract_balanced` | `complete_json` | prose, fences, truncation, trailing commas, brackets and quotes inside strings | what is returned is the object that was meant, whole; a whole object is accepted whatever is around it |
| Rate limiter `core/rate_limiter.py` | a queue of times per address | `check` | `POST /agent` | a hit exactly one window old; header in whole seconds | the limit holds in every window; denials are earned; `Retry-After` is true |
| Documents endpoint `api/documents.py` | none | `get_document` | run store, file | asked at any moment of a run | an answer is never taken back |
| Document builder `services/docx_builder.py` | the document; the file | `build` | executor, orchestrator | the contents are computed before the sections are rendered; tables that turn out to be none; a save that raises half way | the contents are the headings that follow; every line is rendered once; what is offered is whole |
| Tools `agent/tools.py`, offline content | none | `dispatch` and each tool | LLM service, builder | a fallback if the registry was built with them | one call of the service per invocation |
| Agent API `api/agent.py`, guardrail `agent/guardrail.py` | none of their own; one coroutine per request | `POST /agent`, `classify` | limiter, LLM service, run store, orchestrator | awaits between the checks and the run; requests overtake each other; the guardrail's model fails | a refused request starts nothing, and none is refused because a model failed; an answer agrees with the store |
| Browser console `frontend/app.js` | one page's form, timer, card, event source and log | submit, response, error, event, stream error, New run | `POST /agent`, the stream | the network fails while the server works on; streams end in several ways, runs follow each other | the page shows one run's events, once; it can always be used again |
| Health, configuration, logging, wiring, page | - | - | - | - | - |

`PROJECT.json` lists the components with their status, and under `hazards` each
place where the code could go wrong in a way tests hardly reach, with the
properties that watch it.

## Modules and the code

```
RunFeed  <-- implemented by --  EventStream  <-- implemented by --  RunOnStream
                                     |                                   |
                             EventStreamProofs               RunLoop (extended by RunOnStream)
                                                                         |
                                                                   RunLoopProofs
LLMService -- extended by -> StepCalls
                                 |
                          StepCallsProofs (of both)

RateLimiter -- instantiated by -> AgentApi -- extended by -> Console
     |                                                          |
RateLimiterProofs ------------- instantiated by ---------> ConsoleProofs

JsonRepair              DocumentBuilder
     |                         |
JsonRepairProofs        DocumentBuilderProofs       MC*: instances for TLC

FoldTheorems: instantiated by RunLoopProofs, JsonRepairProofs, DocumentBuilderProofs
EventStream: instantiated by ConsoleProofs too, for the runs in the store
```

**EventStream** models the bus and the SSE endpoint together, since their
contract is the order of `subscribe`, the snapshot and `publish`. The state is
the bus's subscriber sets (`subs`), the replay buffers (`log`), and of each
client the place where its generator is suspended (`pc`), the run it asked for,
what is left of the snapshot (`replay`), its queue, and the frames it was sent.
`stream_agent_run` is the request; `Start`, `YieldBuffered`, `AwaitLive`,
`YieldLive`, `KeepAlive` and `Return` are what the generator does between two
suspensions; `Disconnect` closes it at a suspension and `Abandon` before it
started. A run is reduced to the events it publishes: `CreateRun`, `Progress`,
`CompleteRun`, `PlanningFails`. Two steps of one uninterrupted stretch of code
may be separate actions (the model then has more interleavings than the code),
never the other way round. `lastId` is what a browser would send as
`Last-Event-ID`.

**RunFeed** is the promise: one growing log per run, one cursor per client. No
queue, no buffer, no subscriber list. `FeedSpec` is the claim that EventStream
implements it (`watching` is the watched run of a started connection, `feed` its
frames).

**RunLoop** models one run from `store.create` to its response: `Begin`,
`PlanFails`/`PlanCreated`, the executor's loop (`SkipStep`, `StartStep`,
`SynthesisOk`/`SynthesisFails`, `ContentOk`, `BuildOk`, `AttemptFails`,
`GiveUp`, `EndLoop`), `Reflect`, and `Finish` with the fallback document, the
URL, the status and the terminal event. A step is what its tool and heading make
of it: `content`, `summary` (headed Executive Summary) or `build`. A section is
the step it came from. The file is absent, torn (a save raised half way) or
whole with its sections. `get_document` is the answer of the documents endpoint.

**RunOnStream** closes the gap between the two: a run of RunLoop, seen through
its phase and the types of its events, is a run as EventStream assumes it
(`StreamSpec`). What EventStream establishes therefore applies to the events
the orchestrator really publishes.

**LLMService** models what all calls share and what one call does: `Start` or
`ShortCircuit` (breaker open, fallback given), one action per kind of reply
(`Answer`, `ConnectionError`, `OtherError`), `Wake` after a backoff sleep, and
`NextBackend` for the step down the chain, which ends in the breaker and the
fallback. `complete` and `complete_json` are one operation: a reply that does not
parse is one more error of the other kind. `Tick`, `BackendDown` and `BackendUp`
are the environment. Times count down in units of `_BACKOFF_BASE_SECONDS`.
MCLLMService adds the history that one run needs: `witnessed`, the backends that
answered a call and have stayed up since.

**StepCalls** puts the executor's retries on top of LLMService. A step of a run
is a caller whose calls `_invoke_with_retry` makes: `StartStep`, then `Retry` at
once after an invocation that raised, or `EndStep`. A tool makes one call of the
service per invocation and passes its error on, so invocation and call are one
thing (`dispatch`). Between the end of an invocation and the next one nothing is
awaited: while a step is due, `Elsewhere` (other callers, backends, time) stands
still. `spent` adds up the requests of the invocations that are over. Whether
fallbacks are passed is fixed at start-up (`enable_offline_fallback`).

**JsonRepair** is what `complete_json` makes of a reply: parse, strip fences, cut
out the first balanced region, drop trailing commas, parse again. A text is a
sequence of structural tokens; a key is one more string. The scan of
`_extract_balanced` goes one character a step, so that it can be compared, at
every character, with a JSON parser (`Read`, external) on the same text.

**DocumentBuilder** is `build`: `ComputeEntries` and `EstimatePage` make the
table of contents from the sections alone, then `AddSection`, `BodyLine` and
`EndSection` render them, one turn of a loop a step. A line of a body is its kind;
a block remembers the section and the lines it shows, and the bookmark a
`PAGEREF` field refers to. In RunLoop the same `build` is one call that leaves a
file, whole or torn.

**RateLimiter** models `check` as one step (it has no await), with the eviction
it starts with, and the `Retry-After` header `_rate_limited_response` makes of
the decision, in ticks finer than a second so that rounding matters.

**AgentApi** models `create_agent_run` for any number of requests at once. A
request is one coroutine, and an action is what the code does between two of its
suspensions: `Arrive` up to the body (the limiter, instantiated from
RateLimiter, allows or denies), `Read` up to the guardrail's model or, for a
request with a keyword of the allow-list, into the run; `classify`; then the run,
`PlanningFails`, `Progress`, `Complete`. `posts[p]` is the coroutine with the code
of its answer, `runs` the store, where a run is the phase and log EventStream
makes of it. The module has no specification of its own: its clients drive it.

**Console** puts pages on top. Each callback of a page is one action. `awaits` is
the request a page waits for: `NetworkError` may end the waiting at any moment,
the coroutine goes on all the same, and the user may submit again. A stream
delivers the run's events from the first, which is what RunFeed promises and
EventStream is proved to keep, so `cursor` stands for it. The rows of the timeline
and the counters are drawn once, from the response, and are left out.

Definitions marked MUTANT or "faulty variant" are the same operations with a
plausible bug; no specification uses them. Each property must be refuted when
its variant takes the place of the original.

## What the runs check

| Run | Instance | What it shows |
|---|---|---|
| `event_stream` | two runs, two clients, up to three events each and the terminal one | `Partition`: sent, snapshot and queue of a connection always add up to the run's log. `SubscribersExact`: no leak, no early removal. `EndMeansWholeLog`: after `run_completed` nothing is missing. `FeedSpec`: the whole implements RunFeed. `EveryEventSent`: every event reaches a client that stays. `CompletedStreamEnds` |
| `run_loop` | all plans of three steps with earlier dependencies, of two steps with any (cycles too), of four without, and three content steps with one dependency of any number; two attempts | `DependenciesDone`, `BackwardStepsRun`: what may run and what must. `EventLogFaithful`: the log and the statuses tell the same story. `StatusHonest`, `DamageShows`: status, URL, path, file and endpoint agree although different components set them. `DocumentContents`: no section is lost, doubled or out of order over retries and rebuilds. `AnswerStable`: the endpoint never takes an answer back. `RunEnds`. `StreamSpec` |
| `step_calls` | one run's step and another caller, both backends, two attempts of the executor and of each backend, a cooldown of one backoff, with fallbacks and without | `BreakerTracksLatest`, `AttemptsBounded`, `FailureMeansAllTried` whatever the backends do and however the calls interleave. `StepCost`: the executor's attempts multiply the service's, but with a fallback the breaker cuts all after the first short. `CallEnds`, `StepEnds` |
| `json_repair` | objects with nested brackets, strings with quotes, escapes, brackets, commas and fences, whole or broken off anywhere, with prose and fences around | `ScannerAgrees`: the scanner is where a JSON parser would be. `NeverPartial`: no part of an object, and nothing else, is returned for it. `WrappedAccepted`: a whole object is never rejected for its surroundings |
| `document_builder` | every body of up to four lines of nine kinds; every pair of sections of three levels, with and without bullets and tables, of sizes at the end of a page | `EntriesMatchHeadings`: the table of contents is the bookmarked headings that follow. `PagesHonest`: its numbers are the estimate, start at 2, never decrease, and the cap changes none. `LinesOnce`: no line is lost or rendered twice, and a table is one exactly when it has a header and a separator |
| `console` | two pages behind one address, two requests, a limit of one in a window of one tick, runs of up to four events | `AnswersMatchStore`: what a client was told is what the store says for good, and a refused request left no run. `RejectionsEarned`: the guardrail refuses, and reports, only what the model said of that request. `LogOfShownRun`: the log has the events of the run shown, once and in order. `FormFree`, `PageSettles`: a page is free exactly when nothing is under way, and gets there on every path |
| `rate_limiter` | two addresses, limit two, window of two seconds, half-second ticks, nine of them | `WindowRespected`, `DenialEarned`, `RetryAfterHonest` |

Five more runs are expected to be violated; see
[below](#where-the-code-and-its-texts-disagree).

Why the bounds are enough:

- EventStream: `MaxProgress = 2` lets a snapshot be empty, partial or whole, with
  events before and after it; clients share nothing but the bus, so two
  show all interference, and two runs show leaks between runs. `MaxProgress` is a
  guard of `Progress` only.
- RunLoop: three steps show a dependency that is done, failed, skipped or to come
  in front of another; four without dependencies show two builds with contents
  and summaries around them; two attempts show a first, a last and a failed one
  in between. A run is a single coroutine, and each plan gives a finite run.
- StepCalls: the other caller makes the step's call fail while it succeeds, or
  closes and opens the breaker between two attempts. Two attempts have a first
  and a last, so a retry, an exhausted backend and both kinds of error in either
  order. A cooldown of one is over while another call sleeps. The proofs cover
  every other number of callers, attempts and every cooldown.
- JsonRepair: the documents are those of MCJsonRepair, nested once and with every
  token inside a string; a reply breaks off at each of its characters.
- DocumentBuilder: four lines have room for pipe-delimited lines that are no
  table in front of ones that are, and for the end of a block; sections affect
  each other through `has_bullets` and the pages only, which two show.
- Console: `MaxPosts = 2` lets one page show two runs after each other, retry
  after a network error while its first request is under way, or overlap with the
  other page; the limit of one makes the second request be denied or, a tick
  later, allowed. `MaxProgress = 3` gives logs that are read before, at and after
  their end. `Fresh` bounds the requests, `Progress` the events, `Tick` the clock.
- RateLimiter: `MaxClock = 9` is more than two windows of four ticks, so that
  hits expire, come back and expire again; two ticks a second give delays that
  are whole seconds and ones that are not.

`CHECK_DEADLOCK FALSE` stands where the system stops: a run ends, the
limiter's clock reaches its bound, users have sent all their requests, a reply is
parsed, a document is saved. In `EventStream`, `LLMService` and `StepCalls`
something is always possible and deadlock is checked. Addresses and callers are
interchangeable; symmetry is used in runs without liveness only.

## Fairness

- `EventStream!FairSpec`: weak fairness of `Serve(c)` for each client. The loop
  resumes every task that can run and `wait_for`'s timer fires. A client need
  not come, stay or leave, and a run need not make progress.
- `RunLoop!FairSpec`: weak fairness of `Resume`. The planner's, tools' and
  reflector's calls end (LLMService's `CallEnds` is the reason), the builder is
  synchronous. Nothing makes a client start a run, so `Begin` is not fair.
- `StepCalls!FairStepsSpec`: weak fairness of a step that is due, strong fairness
  of `Tick`, and of `Reply` and `Wake` of each caller while no step is due.
  `LLM_TIMEOUT_SECONDS` bounds every request; a timeout is a connection error.
  Strong, because these are not enabled at the moments at which a step is due:
  the loop runs what is ready in the order in which it became ready, so nothing
  waits for ever behind steps that are. Backends need not recover, and callers
  need not call.
- `Console!FairSpec`: weak fairness of each `create_agent_run(p)`, for the same
  reasons as in RunLoop, and of `Receive(c)` and `LogEvent(c)`: the browser runs
  the callbacks that are due. Clicks and failures of the network are not fair:
  the properties hold whether they happen or not.

## What is proved

TLAPS checks the proofs in eight modules, for all values of the constants that
satisfy the named assumptions:

- parameters are naturals, or naturals above 0 where the code needs one
  (`MaxProgressAssumption`, `MaxAttemptsAssumption`, `LLMAssumption`,
  `StepsAssumption`, `RateAssumption`, `ApiAssumption`);
- inputs have their types: plans have at least two steps, as `Plan` requires
  (`PlansAssumption`); sections are sections (`InputsAssumption`); documents are
  texts of at least one token, and no bracket stands in front of one
  (`RepairAssumption`); a page has an address (`PagesAssumption`);
- what the model means to send is an object, from one brace to the other
  (`ObjectsAssumption`), and the first two fences of a reply are not both in front
  of it nor both behind it (`FencesAssumption`): the code takes what is between
  them for the reply. `NeverPartialHolds` and `WrappedHolds` need the two,
  `ScannerHolds` does not;
- `NoRunAssumption` and `ThisRunAssumption`: no run is called what means no run;
- `BackoffAssumption` is not about the code: that `2 ^ (k - 1)` is a natural
  number, of which the provers know nothing.

Every safety property of a passing run is the conclusion of a theorem.

**EventStreamProofs**: `TypeCorrect`, `PartitionHolds`, `SubscribersHold`,
`EndMeansWholeLogHolds`, and `ImplementsRunFeed`. The inductive invariant `IInv`
adds to the properties that a connection watches a run of the store
(`Watching`), that a terminal event is a log's last and comes with the completed
phase (`LogEnds`), and that a generator waits only with its snapshot spent
(`ReplayFirst`). The last one is needed: a live event sent before the rest of the
snapshot would leave the sum of the parts the same and its order wrong. The
refinement follows because, under the partition, the next frame is the log's
next event.

**RunLoopProofs**: `TypeCorrect`, `DependenciesHold`, `BackwardStepsHold`,
`StatusHonestHolds`, `DamageShowsHolds`, `AnswerStableHolds`, `DocumentsHold`,
`EventLogHolds`, `StreamRefined`, `RunShortens`.

- `Control` says where the coroutine can be: one step at most is running, the one
  the loop is at, all after it are pending. With it a step's dependencies, once
  done, stay done (`StepsGrow`), and a step the loop has passed over stays with
  the dependency that was not (`PassedOver`).
- `RunStatus` and `DamageShows` make the final status honest: if all steps are
  done then no build failed or is being retried, so a recorded document is whole.
- `DocumentInv`: at every moment the executor's sections carry exactly the content
  steps done so far, in plan order, with a synthesised summary in front only; an
  undamaged document carries those of before its build, whatever became of the
  builds after it. The fallback's sections come from a loop over the plan, which
  is a fold; that it carries the same steps is an induction over the prefixes of
  the plan, by `FoldOneMore`.
- `LogSupport` ties every event to a step or a milestone that was passed, so that
  no event can come twice.
- `Published` counts the events: a step publishes two at most however often it is
  retried. That is what makes a run of the orchestrator a run as EventStream
  assumes it (`StreamRefined`), step by step or by stuttering. `ImplementsRunFeed`
  then speaks about real runs.
- `StepsLeft` bounds what a planned run still has before it: `MaxAttempts + 2` steps
  for each turn of the loop and three for its end. Every step makes it less and it
  never falls below 0 (`RunShortens`), because the loop does not go back (`InTurn`).
  That a run which is not over can always take a step (`ENABLED Resume`) is left to
  TLC, which finds it with `RunEnds`; with that and the fairness of `Resume`, a
  planned run ends for every plan.

**StepCallsProofs** is about LLMService first: `Invariant`, `BreakerHolds`,
`AttemptsHold`, `FailureHolds`. A call under way has exhausted every backend
before its own, has attempts left on its own, and has asked none after it
(`Orderly`); at the end of the chain this becomes "all was tried". Then about the
steps on top of it: `StepsImplementCalls`, `StepTypeCorrect`, `StepCostHolds`.
Every step of StepCalls is a step of LLMService or leaves it alone, so the
theorems above hold under the executor's retries too. Without a fallback a step
has paid one call per attempt that is over (`Paid`). With one, the breaker is open
whenever its tool has just raised, because the failure opened it and nothing
moves before the retry; the retry is therefore answered without the network, and
the step has asked for nothing since its first attempt (`Cut`).

**RateLimiterProofs**: `TypeCorrect`, `WindowHolds`, `DenialEarnedHolds`,
`RetryAfterHolds`. An address's queue is a suffix of the times of all its
allowed requests, and what was dropped has left the window for good (`Recent`);
a promise points at the first whole second, counted from the denial, at which
the request that stands `Limit` places back has left (`Kept`). `RetryAfterHolds`
assumes `Limit > 0`: with a limit of 0 every request is denied, and the header's
default of 60 seconds is a promise nobody keeps.

**ConsoleProofs** is for any number of pages, addresses and requests:
`TypeCorrect`, `AnswersHold`, `RejectionsHold`, `LogHolds`, `FormHolds`,
`LimiterObeyed`, `RequestsLimited`, `RunsOnBus`. The invariant has a part for every request and
one for every page. `Fits`: a coroutine's stage, its code, the verdict, the run in
the store and the report to the log tell one story, and a log ends with a terminal
event exactly when its run has settled. `PageFits`: what a page awaits and shows
are requests it sent itself, and its lines are the prefix of the run's log at
which its stream stands. Requests interfere with pages in one direction only: a
request moves forward, an answer given stays, a log grows (`Forward`), and under
that every page's part is kept (`PageUntouched`). `LimiterObeyed` is a refinement:
whatever the rest of the service does, the API drives its limiter as RateLimiter
allows, so the theorems about the limiter hold of the service; `RequestsLimited`
is one of them, carried over. `RunsOnBus` is another: the runs in the store, however
requests overlap, are runs as EventStream assumes them, so a run means the same to
RunLoop, to EventStream and to the API.

**DocumentBuilderProofs**, for any sections: `EntriesHold`, `PagesHold`,
`LinesHold`. `Phases` says what is computed and rendered when; that `has_bullets`
stands for the sections rendered so far is the link between the announcement of
the key considerations, computed before, and their rendering, decided after.
`MarksInv`: the bookmarks in the document are those of the headings rendered so
far, in order, and none is left out. `PagesInv`: `cumulative` is the sum of the
sizes before the next entry, so a page is the estimate, and the cap, which is
computed by a rounding of its own, never applies, because no entry is without
characters. `LinesOnce` is inductive with the two: a turn that renders the
block from `index` covers exactly its lines, and `BlockEnd` says that the block is
all the pipe-delimited lines that follow, which is why no line of it can be
taken for a header again.

**JsonRepairProofs**, for any documents and surroundings: `ScannerHolds`,
`NeverPartialHolds`, `WrappedHolds`. That the scanner agrees with a parser is not inductive alone. As long as the
parser has not refused the text it has the delimiter at which the scan began as
its outermost bracket (`Together`): it is done only when that bracket is closed,
and so the depth the scanner counts, of one kind of bracket, cannot reach 0
before. The parser's reading of a text is a fold, taken one token further by
`FoldOneMore`.

What is returned, and what is rejected, follows from one invariant (`StoryInv`)
that says at each step where the document is.

- `Held`: it lies in the text without a gap, all of it or, in a reply that breaks
  off, what there is of it, with no bracket in front. Prose is thereby harmless,
  and the first brace is the document's. `strip` and the removal of fences keep it
  (`StripHolds`, `FencesHold`): a fence is never inside, and of the first two one
  at most is on each side.
- `Scanned`: the scan has not passed the document's last brace, and when it gets
  there it is one level deep and outside strings (`LastLevel`). It does not end
  before: by `Together` the parser would have to be done too, and a parser that is
  done reads only spaces without an error (`UptoDone`). In a reply that breaks off
  it never ends, because the parser would then be done with a beginning.
- After the scan the text is the document, perhaps with its trailing comma, or it
  still breaks off. `DocumentKept`, `TrailingComma` and `CommaGoes`: the removal of
  commas takes none that a parser accepts in a plain document, and takes the one
  it does not. `CutRejected`: without commas a beginning stays a beginning, which
  no parser accepts, prose in front or not.

**FoldTheorems**: `FoldNothing` and `FoldOneMore` for any operation. `FoldLeft` of
the community modules is a recursive function on sets of positions, of which the
provers know nothing. That a function with these equations exists is proved by
induction on the length, that prefixes of different sequences with the same
elements fold alike as well. The induction is a descent to a least counterexample
(`LeastMember`), since the library's induction theorems take an operator the
provers cannot instantiate. A proof about a loop instantiates the module with the
loop's body for `Op`: `collect`, `add`, `Read`, `keep`.

Only model-checked: every liveness property (`RunEnds` and its like), since fairness
and `ENABLED` are out of the provers' reach, and the texts that the five violation
runs refute.

## Where the code and its texts disagree

Each is a run that TLC must find violated; `findings` quotes the texts.

| Run | The text | The code |
|---|---|---|
| `event_stream_silent_run` | `run_completed` is emitted once when a run finishes | a run whose planning failed publishes nothing; its streams get keep-alives for ever |
| `event_stream_resume` | frame ids are for `Last-Event-ID` resumption | the header is never read; everything is sent again |
| `run_loop_renumbered` | `depends_on` names step numbers | numbers are reassigned, `depends_on` is not |
| `llm_service_suppresses` | the breaker never suppresses a reachable backend | one call whose replies do not parse opens it for all |
| `json_repair_strings` | a truncated response fails to parse | a truncated reply whose string quotes a fenced object is accepted as the quoted object |

Other things the code does that a reader of its texts would not expect, without a
run of their own because they follow from a line or two:

- `execute_run` drops what `reflect` returns (`orchestrator.py:289`); `README.md`
  says that the reflector revises weak or missing sections.
- The page opens the stream of a run with the id in the response to its request,
  which is sent when the run is over (`app.js:880`); it watches replays only.
- The removal of trailing commas does not spare strings (`llm.py:873`), and prose
  with a bracket in front of an object is taken for the object (`llm.py:893`).
  JsonRepair's properties are stated for replies without either.
- Two fences in front of an object, or two behind it, are taken for its wrapping
  (`llm.py:859`): what is between them is parsed. JsonRepair's properties are
  stated for replies without (`FencesAssumption`).
- `_strip_wrapping_bold` takes a line `**A** and **B**` for one bold span, and cells
  of a data row beyond the header's width are dropped (`_add_table` says so).

Three consequences of the executor's code are stated as they are, in properties
that hold. A content step that comes after `build_docx` completes, and the
completed run's document lacks it (`DocumentContents`). The loop visits each step
once, so a step that needs a later one stays pending although that one is done in
the end; `BackwardStepsRun` is therefore about the others. Of several sections
headed Executive Summary only the first makes way for the synthesised one.

## What is not modelled

- The content of prompts, sections, frames and summaries; what is inside a line of
  a document (bold, italic), its styles and layout; log records; field validation.
  No property is about them.
- The two HTTP transports, health probes, configuration, wiring, static pages:
  they hold no state and no control of their own.
- The planner's prompt and its default plan: plans are a constant set. It is
  assumed that the planner's JSON does not preset a step's `status` or output.
- Growth of the run store and of the limiter's map: memory only.
- `RunStore.update`, which replaces a run by itself.
- Keys, numbers and literals of JSON, which its repair does not tell from other
  characters; schemas that demand fields only reject more.
- Offline content: templated text without state. The health badge of the page,
  which polls `/health` and shows the latest answer.
- A restart of the server: it forgets every run, and nothing is persisted that
  could disagree. A page's own closing: it takes its state with it.

## Plan

Done, in this order: EventStream with RunFeed (the contract between concurrent
runs and clients), RunLoop, RunOnStream, LLMService, RateLimiter, the proofs of
each, AgentApi and Console, StepCalls with its proofs, JsonRepair,
DocumentBuilder, FoldTheorems and the proofs about Console, DocumentBuilder,
JsonRepair and the rest of RunLoop. The properties of DocumentBuilder,
`DocumentContents` and the depth in `ScannerAgrees` are stated by positions and
cardinalities, and the removal of characters in JsonRepair by one fold
(`without`), not by filtered sequences, which says the same and can be reasoned
about.

The last additions are the proof that the repair returns the object that was meant,
and the two that tie a run's three views together and bound its length
(`RunsOnBus`, `RunShortens`).

Open:

1. `RunFeed` on the side of the clients: a page and its stream implement one
   cursor over one log. `LogOfShownRun` says most of it; a page that clears its log,
   or closes its stream upon the terminal event, does in one step what is two in
   RunFeed.
2. That the retries of RunLoop's steps are those of StepCalls: an attempt of the
   one is an invocation of the other.
