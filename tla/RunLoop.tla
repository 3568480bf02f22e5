------------------------------ MODULE RunLoop ------------------------------
(***************************************************************************)
(* One run, from store.create to its response: the orchestrator            *)
(* (app/agent/orchestrator.py), the step executor (app/agent/executor.py), *)
(* the reflector (app/agent/reflector.py), the validator of a plan         *)
(* (app/models/schemas.py), the file the document builder writes           *)
(* (app/services/docx_builder.py) and what GET /documents/{run_id}.docx    *)
(* answers about it (app/api/documents.py).                                *)
(*                                                                         *)
(* The coroutine is suspended while it waits for the planner (planning),   *)
(* a tool (synthesising, invoking) and the reflector (reflecting); the     *)
(* places loop and finalising cut the code between two suspensions in      *)
(* smaller steps, so the model has the code's interleavings and more.      *)
(*                                                                         *)
(* A step is what routing and the headings make of it: "content" (any      *)
(* content tool), "summary" (a content step headed "Executive Summary") or *)
(* "build" (build_docx).  A section is the number of the step it came      *)
(* from, 0 when synthesised, and whether that is its heading.              *)
(***************************************************************************)
EXTENDS Naturals, SequencesExt

CONSTANTS Plans,       \* the step lists a planner may return
          MaxAttempts  \* invocations of a tool per step: 1 + max_retries

Kinds == {"content", "summary", "build"}

\* A step as parsed: `given` is the step number the planner wrote.
RawStep == [given : Nat, kind : Kinds, depends_on : SUBSET Nat]

\* Plan.steps has min_length=2 (schemas.py:188).
ASSUME PlansAssumption == \A p \in Plans : p \in Seq(RawStep) /\ Len(p) >= 2
ASSUME MaxAttemptsAssumption == MaxAttempts \in Nat \ {0}

VARIABLES
  pc,             \* where execute_run is
  status,         \* RunState.status
  plan,           \* RunState.plan.steps, <<>> for None
  at,             \* the step the executor's loop is at
  attempt,        \* the attempt under way in _invoke_with_retry
  sections,       \* the executor's accumulated sections
  document_path,  \* is RunState.document_path set?
  document_url,   \* is RunState.document_url set?
  disk,           \* the file at the run's output path
  events          \* RunState.events

vars == <<pc, status, plan, at, attempt, sections, document_path, document_url,
          disk, events>>

Places == {"absent", "planning", "loop", "synthesising", "invoking", "reflecting",
           "finalising", "returned", "raised"}
RunStatuses == {"pending", "running", "completed", "partial", "failed"}
StepStatuses == {"pending", "running", "done", "failed"}
EventTypes == {"planning_started", "plan_created", "step_started", "step_completed",
               "step_failed", "reflection", "run_completed"}

PlanStep == [step : Nat, given : Nat, kind : Kinds, depends_on : SUBSET Nat,
             status : StepStatuses]
Section == [from : Nat, summary : BOOLEAN]
Event == [type : EventTypes, step : Nat]

\* Nothing written; a save that raised half way; a document of full sections
\* or of the truncated summaries the fallback has.
NoFile == [state |-> "none", body |-> "none", sections |-> <<>>]
TornFile == [state |-> "torn", body |-> "none", sections |-> <<>>]
Document(how, secs) == [state |-> "whole", body |-> how, sections |-> secs]

Over == pc \in {"returned", "raised"}

----------------------------------------------------------------------------
Init == /\ pc = "absent" /\ status = "pending"
        /\ plan = <<>> /\ at = 0 /\ attempt = 0
        /\ sections = <<>>
        /\ document_path = FALSE /\ document_url = FALSE
        /\ disk = NoFile
        /\ events = <<>>

publish(type, step) == events' = Append(events, [type |-> type, step |-> step])

\* store.create and the first stage of execute_run, up to the planner's call.
Begin ==
    /\ pc = "absent" /\ pc' = "planning"
    /\ status' = "running"
    /\ publish("planning_started", 0)
    /\ UNCHANGED <<plan, at, attempt, sections, document_path, document_url, disk>>

\* Faulty variant: the failed run is announced as completed.
PlanFailsAloud ==
    /\ pc = "planning" /\ pc' = "raised"
    /\ status' = "failed"
    /\ publish("run_completed", 0)
    /\ UNCHANGED <<plan, at, attempt, sections, document_path, document_url, disk>>

\* PlanningError on every backend: the run is failed, nothing is published.
PlanFails ==
    /\ pc = "planning" /\ pc' = "raised"
    /\ status' = "failed"
    /\ UNCHANGED <<plan, at, attempt, sections, document_path, document_url, disk, events>>

\* Plan.steps_sequential: numbers become positions; depends_on stays as it is.
steps_sequential(raw) ==
    [i \in DOMAIN raw |-> [step |-> i, given |-> raw[i].given, kind |-> raw[i].kind,
                           depends_on |-> raw[i].depends_on, status |-> "pending"]]

PlanCreated ==
    /\ pc = "planning" /\ pc' = "loop"
    /\ \E raw \in Plans : plan' = steps_sequential(raw)
    /\ at' = 1
    /\ publish("plan_created", 0)
    /\ UNCHANGED <<status, attempt, sections, document_path, document_url, disk>>

----------------------------------------------------------------------------
\* Faulty variant: a dependency that was attempted is good enough.
dependencies_attempted(s) ==
    \A d \in s.depends_on :
        \E j \in DOMAIN plan : plan[j].step = d /\ plan[j].status # "pending"

\* The executor's loop.
dependencies_satisfied(s) ==
    \A d \in s.depends_on :
        \E j \in DOMAIN plan : plan[j].step = d /\ plan[j].status = "done"

InLoop == pc = "loop" /\ at \in DOMAIN plan

\* Faulty variant: after a step that cannot run yet the loop starts over.
SkipStepStartsOver ==
    /\ InLoop /\ ~dependencies_satisfied(plan[at])
    /\ at' = 1
    /\ UNCHANGED <<pc, status, plan, attempt, sections, document_path, document_url,
                   disk, events>>

SkipStep ==
    /\ InLoop /\ ~dependencies_satisfied(plan[at])
    /\ at' = at + 1
    /\ UNCHANGED <<pc, status, plan, attempt, sections, document_path, document_url,
                   disk, events>>

\* The first section headed "Executive Summary", 0 if there is none.
existing_index == SelectInSeq(sections, LAMBDA s : s.summary)

\* _assemble_summary_context is not blank.
HasSummaryContext == \E i \in DOMAIN sections : i # existing_index

StartStep ==
    /\ InLoop /\ dependencies_satisfied(plan[at])
    /\ plan' = [plan EXCEPT ![at].status = "running"]
    /\ publish("step_started", plan[at].step)
    /\ attempt' = 1
    /\ pc' = IF plan[at].kind = "build" /\ HasSummaryContext THEN "synthesising"
                                                            ELSE "invoking"
    /\ UNCHANGED <<status, at, sections, document_path, document_url, disk>>

\* Faulty variant: the summary of an earlier build is not taken out.
SynthesisDuplicates ==
    /\ pc = "synthesising" /\ pc' = "invoking"
    /\ sections' = <<[from |-> 0, summary |-> TRUE]>> \o sections
    /\ UNCHANGED <<status, plan, at, attempt, document_path, document_url, disk, events>>

SynthesisOk ==
    /\ pc = "synthesising" /\ pc' = "invoking"
    /\ sections' = <<[from |-> 0, summary |-> TRUE]>> \o
                   (IF existing_index = 0 THEN sections ELSE RemoveAt(sections, existing_index))
    /\ UNCHANGED <<status, plan, at, attempt, document_path, document_url, disk, events>>

\* The tool raised or answered with blank text: best effort, suppressed.
SynthesisFails ==
    /\ pc = "synthesising" /\ pc' = "invoking"
    /\ UNCHANGED <<status, plan, at, attempt, sections, document_path, document_url,
                   disk, events>>

\* The step's terminal status, its event, and the loop's next iteration.
EndStep(outcome, type) ==
    /\ plan' = [plan EXCEPT ![at].status = outcome]
    /\ publish(type, plan[at].step)
    /\ at' = at + 1
    /\ pc' = "loop"
    /\ UNCHANGED <<status, attempt, document_url>>

ContentOk ==
    /\ pc = "invoking" /\ plan[at].kind # "build"
    /\ EndStep("done", "step_completed")
    /\ sections' = Append(sections, [from |-> plan[at].step,
                                     summary |-> plan[at].kind = "summary"])
    /\ UNCHANGED <<document_path, disk>>

BuildOk ==
    /\ pc = "invoking" /\ plan[at].kind = "build"
    /\ EndStep("done", "step_completed")
    /\ disk' = Document("full", sections)
    /\ document_path' = TRUE
    /\ UNCHANGED sections

\* A tool call that raises; for build_docx, before or while it saves.
CallRaises == disk' \in {disk} \cup (IF plan[at].kind = "build" THEN {TornFile} ELSE {})

\* Faulty variants: one attempt too many, and one step_failed per attempt.
AttemptOffByOne ==
    /\ pc = "invoking" /\ attempt <= MaxAttempts
    /\ attempt' = attempt + 1
    /\ CallRaises
    /\ UNCHANGED <<pc, status, plan, at, sections, document_path, document_url, events>>

AttemptFailsAloud ==
    /\ pc = "invoking" /\ attempt < MaxAttempts
    /\ attempt' = attempt + 1
    /\ CallRaises
    /\ publish("step_failed", plan[at].step)
    /\ UNCHANGED <<pc, status, plan, at, sections, document_path, document_url>>

AttemptFails ==
    /\ pc = "invoking" /\ attempt < MaxAttempts
    /\ attempt' = attempt + 1
    /\ CallRaises
    /\ UNCHANGED <<pc, status, plan, at, sections, document_path, document_url, events>>

\* Faulty variants: a failed step ends the loop; a failed build takes back the
\* document an earlier one made.
GiveUpHalts ==
    /\ pc = "invoking" /\ attempt = MaxAttempts
    /\ plan' = [plan EXCEPT ![at].status = "failed"]
    /\ publish("step_failed", plan[at].step)
    /\ at' = Len(plan) + 1
    /\ pc' = "loop"
    /\ CallRaises
    /\ UNCHANGED <<status, attempt, sections, document_path, document_url>>

GiveUpForgets ==
    /\ pc = "invoking" /\ attempt = MaxAttempts
    /\ EndStep("failed", "step_failed")
    /\ CallRaises
    /\ document_path' = (document_path /\ plan[at].kind # "build")
    /\ UNCHANGED sections

GiveUp ==
    /\ pc = "invoking" /\ attempt = MaxAttempts
    /\ EndStep("failed", "step_failed")
    /\ CallRaises
    /\ UNCHANGED <<sections, document_path>>

EndLoop ==
    /\ pc = "loop" /\ at \notin DOMAIN plan
    /\ pc' = "reflecting"
    /\ UNCHANGED <<status, plan, at, attempt, sections, document_path, document_url,
                   disk, events>>

----------------------------------------------------------------------------
\* reflect(): one call, ok or not, and one event.  Its result is not used.
Reflect ==
    /\ pc = "reflecting" /\ pc' = "finalising"
    /\ publish("reflection", 0)
    /\ UNCHANGED <<status, plan, at, attempt, sections, document_path, document_url, disk>>

artifact_exists == document_path /\ disk.state # "none"

\* What the completed steps left in their output summaries; the steps are
\* already sorted by number.
collect(secs, s) ==
    IF s.status = "done"
    THEN Append(secs, [from |-> s.step, summary |-> s.kind = "summary"]) ELSE secs

collect_sections == FoldLeft(collect, <<>>, plan)

FallbackNeeded == ~artifact_exists /\ collect_sections # <<>>

FallbackBuilt ==
    /\ FallbackNeeded
    /\ disk' = Document("digest", collect_sections)
    /\ document_path' = TRUE

\* Faulty variant: the path is recorded before the document is built.
FallbackPathFirst ==
    /\ FallbackNeeded
    /\ disk' \in {disk, TornFile}
    /\ document_path' = TRUE

FallbackRaises ==
    /\ FallbackNeeded
    /\ disk' \in {disk, TornFile}
    /\ UNCHANGED document_path

\* _maybe_build_fallback_document.
maybe_build_fallback_document ==
    \/ FallbackBuilt
    \/ FallbackRaises
    \/ ~FallbackNeeded /\ UNCHANGED <<disk, document_path>>

\* Faulty variant: a run without failures is a success.
derive_from_failures(steps, artifact) ==
    IF artifact /\ \A i \in DOMAIN steps : steps[i].status # "failed" THEN "completed"
    ELSE IF artifact THEN "partial" ELSE "failed"

\* The generated summary is never blank, so it does not count here.
derive_status(steps, artifact) ==
    IF artifact /\ \A i \in DOMAIN steps : steps[i].status = "done" THEN "completed"
    ELSE IF artifact THEN "partial" ELSE "failed"

Finish ==
    /\ pc = "finalising" /\ pc' = "returned"
    /\ maybe_build_fallback_document
    /\ document_url' = artifact_exists'
    /\ status' = derive_status(plan, artifact_exists')
    /\ publish("run_completed", 0)
    /\ UNCHANGED <<plan, at, attempt, sections>>

----------------------------------------------------------------------------
Synthesis == SynthesisOk \/ SynthesisFails
Invocation == ContentOk \/ BuildOk \/ AttemptFails \/ GiveUp
Execute == SkipStep \/ StartStep \/ Synthesis \/ Invocation \/ EndLoop
Resume == PlanFails \/ PlanCreated \/ Execute \/ Reflect \/ Finish

Next == Begin \/ Resume

Spec == Init /\ [][Next]_vars

(***************************************************************************)
(* Every call the run waits for ends: the backends have read timeouts, the *)
(* builder is synchronous.  Nothing makes a client start a run.            *)
(***************************************************************************)
FairSpec == Spec /\ WF_vars(Resume)

\* What GET /documents/{run_id}.docx says.
get_document ==
    IF pc = "absent" THEN "unknown_run"
    ELSE IF artifact_exists THEN "document"
    ELSE IF status \in {"pending", "running"} THEN "in_progress"
    ELSE "failed_no_document"

----------------------------------------------------------------------------
\* Each variable holds a value of its type: the RunState, the executor's
\* locals and the file.
TypeOK == /\ pc \in Places
          /\ status \in RunStatuses
          /\ plan \in Seq(PlanStep)
          /\ at \in Nat
          /\ attempt \in 0 .. MaxAttempts
          /\ sections \in Seq(Section)
          /\ document_path \in BOOLEAN
          /\ document_url \in BOOLEAN
          /\ disk.state \in {"none", "torn", "whole"}
          /\ disk.body \in {"none", "full", "digest"}
          /\ events \in Seq(Event)

Met(i) == \A d \in plan[i].depends_on : d \in DOMAIN plan /\ plan[d].status = "done"

(***************************************************************************)
(* A step that was ever started had, and still has, every dependency done  *)
(* (executor.py:445-469): no failed, skipped, later or missing step counts.*)
(***************************************************************************)
DependenciesDone ==
    \A i \in DOMAIN plan : plan[i].status # "pending" => Met(i)

(***************************************************************************)
(* A failure costs the run only what depends on it: a step whose           *)
(* dependencies all name earlier steps, and were met, is never left        *)
(* pending (executor.py:398-402, 427-443).                                 *)
(***************************************************************************)
BackwardStepsRun ==
    Over => \A i \in DOMAIN plan :
        (plan[i].status = "pending" /\ \A d \in plan[i].depends_on : d < i)
            => ~Met(i)

(***************************************************************************)
(* depends_on names "step numbers this step depends on before it can       *)
(* execute" (schemas.py:149).  Numbers are reassigned by position and      *)
(* depends_on is not, so a step can start before the one its planner meant.*)
(***************************************************************************)
NamedDependenciesDone ==
    \A i, j \in DOMAIN plan :
        (plan[i].status # "pending" /\ plan[j].given \in plan[i].depends_on)
            => plan[j].status = "done"

Logged(type, step) == \E k \in DOMAIN events : events[k] = [type |-> type, step |-> step]

\* The parts of EventLogFaithful: the log has an event exactly for what happened
\* to a step, and has it once and in order.
StepsLogged ==
    \A i \in DOMAIN plan :
        /\ Logged("step_started", i) <=> plan[i].status # "pending"
        /\ Logged("step_completed", i) <=> plan[i].status = "done"
        /\ Logged("step_failed", i) <=> plan[i].status = "failed"

LogOrdered ==
    \A j, k \in DOMAIN events :
        /\ events[j] = events[k] => j = k
        /\ (events[j].type = "step_started" /\ events[k].step = events[j].step) => j <= k
        /\ events[k].type = "run_completed" => k = Len(events)

(***************************************************************************)
(* What the log shows of a step is what the step went through: started     *)
(* when it left pending, then one terminal event that agrees with its      *)
(* status, each once and in that order; and run_completed is the last      *)
(* event, there exactly when the run returned (design.md, Property 9).     *)
(***************************************************************************)
EventLogFaithful ==
    StepsLogged /\ LogOrdered /\ (Logged("run_completed", 0) <=> pc = "returned")

(***************************************************************************)
(* The final status says what there is: completed only with every step     *)
(* done and an undamaged document, failed exactly when the documents       *)
(* endpoint has nothing, a URL exactly when it has something.              *)
(***************************************************************************)
StatusHonest ==
    Over => /\ status = "completed" =>
                 /\ \A i \in DOMAIN plan : plan[i].status = "done"
                 /\ disk.state = "whole"
            /\ (\A i \in DOMAIN plan : plan[i].status = "done") /\ document_path
                 => status = "completed"
            /\ status \in {"completed", "partial", "failed"}
            /\ status = "failed" <=> get_document = "failed_no_document"
            /\ document_url <=> get_document = "document"

\* The content sections of a document, and the content steps done before step b.
ContentOf(secs) == {k \in DOMAIN secs : ~secs[k].summary}

DoneContent(b) ==
    {i \in DOMAIN plan : i < b /\ plan[i].kind = "content" /\ plan[i].status = "done"}

\* secs has a content section of each of the steps S, in plan order, and no other.
Carries(secs, S) ==
    /\ \A j, k \in ContentOf(secs) : j < k => secs[j].from < secs[k].from
    /\ {secs[k].from : k \in ContentOf(secs)} = S

DoneBuilds == {i \in DOMAIN plan : plan[i].kind = "build" /\ plan[i].status = "done"}

(***************************************************************************)
(* An undamaged document of build_docx has the content of every step done  *)
(* before the last successful build, each once and in plan order, and at   *)
(* most one synthesised summary, in front; the fallback document has that  *)
(* of every step done.  Retries, failed builds and repeated synthesis do   *)
(* not drop, duplicate or reorder a section.                               *)
(***************************************************************************)
DocumentContents ==
    disk.state = "whole" =>
        /\ disk.sections \in Seq(Section)
        /\ Carries(disk.sections,
                   DoneContent(IF disk.body = "full" THEN Max(DoneBuilds) ELSE Len(plan) + 1))
        /\ \A k \in DOMAIN disk.sections : disk.sections[k].from = 0 => k = 1

(***************************************************************************)
(* A document that is offered for download but was damaged by a save that  *)
(* raised has a build step to show for it: failed, or still being retried. *)
(* The fallback and the retries leave no silent damage.                    *)
(***************************************************************************)
DamageShows ==
    document_path /\ disk.state = "torn" =>
        \E i \in DOMAIN plan : plan[i].kind = "build" /\ plan[i].status \in {"running", "failed"}

(***************************************************************************)
(* What the documents endpoint answers about a run only moves forward:     *)
(* unknown, in progress, then a document for good or none for good, over   *)
(* failed rebuilds, the fallback and the final status (documents.py:60-77).*)
(***************************************************************************)
AnswerStable ==
    [][/\ get_document \in {"document", "failed_no_document"} => get_document' = get_document
       /\ get_document = "in_progress" => get_document' # "unknown_run"]_vars

(***************************************************************************)
(* A run that started ends, however its calls fail (executor.py:393-443).  *)
(***************************************************************************)
RunEnds == (pc = "planning") ~> Over
=============================================================================
