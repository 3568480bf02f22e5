--------------------------- MODULE RunLoopProofs ---------------------------
(***************************************************************************)
(* Proofs about RunLoop, for every set of plans and every retry bound:     *)
(* types, which steps may run and which must, the honesty of the final     *)
(* status, the contents of the document, the event log, that a run is one  *)
(* as EventStream assumes it, and last that it has an end.                 *)
(***************************************************************************)
EXTENDS RunOnStream, FiniteSetTheorems, SequenceTheorems, TLAPS

----------------------------------------------------------------------------
(***************************************************************************)
(* Lemmas about the helpers.                                               *)
(***************************************************************************)

Collecting == INSTANCE FoldTheorems WITH Op <- collect, Base <- <<>>

LEMMA MinIsMember ==
    ASSUME NEW I \in SUBSET Nat, I # {}
    PROVE  Min(I) \in I /\ \A k \in I : Min(I) <= k
  <1>1. PICK m \in I : \A k \in I : m <= k
    BY Collecting!LeastMember
  <1> QED
    BY <1>1 DEF Min

\* The executive summary to replace is one of the sections, if there is one.
LEMMA ExistingIndexInRange ==
    ASSUME sections \in Seq(Section)
    PROVE  existing_index \in 0 .. Len(sections)
  <1> DEFINE I == {i \in 1 .. Len(sections) : sections[i].summary}
  <1>1. CASE I = {}
    BY <1>1 DEF existing_index, SelectInSeq
  <1>2. CASE I # {}
    <2>1. existing_index = Min(I)
      BY <1>2 DEF existing_index, SelectInSeq
    <2>2. I \in SUBSET Nat
      OBVIOUS
    <2>3. Min(I) \in I
      BY <1>2, <2>2, MinIsMember
    <2> QED
      BY <2>1, <2>3
  <1> QED
    BY <1>1, <1>2

\* Replacing the summary keeps a sequence of sections.
LEMMA SynthesisKeepsType ==
    ASSUME sections \in Seq(Section), SynthesisOk
    PROVE  sections' \in Seq(Section)
  <1> DEFINE rest == IF existing_index = 0 THEN sections
                                           ELSE RemoveAt(sections, existing_index)
  <1>1. rest \in Seq(Section)
    <2>1. CASE existing_index = 0
      BY <2>1
    <2>2. CASE existing_index # 0
      <3>1. existing_index \in 1 .. Len(sections)
        BY <2>2, ExistingIndexInRange
      <3>2. RemoveAt(sections, existing_index) \in Seq(Section)
        BY <3>1 DEF RemoveAt
      <3> QED
        BY <2>2, <3>2
    <2> QED
      BY <2>1, <2>2
  <1>2. <<[from |-> 0, summary |-> TRUE]>> \in Seq(Section)
    BY DEF Section
  <1>3. sections' = <<[from |-> 0, summary |-> TRUE]>> \o rest
    BY DEF SynthesisOk
  <1> HIDE DEF rest
  <1> QED
    BY <1>1, <1>2, <1>3

\* Changing the status of one step touches nothing else of the plan.
LEMMA StatusChange ==
    ASSUME plan \in Seq(PlanStep), at \in DOMAIN plan, NEW new \in StepStatuses,
           plan' = [plan EXCEPT ![at].status = new]
    PROVE  /\ plan' \in Seq(PlanStep)
           /\ DOMAIN plan' = DOMAIN plan /\ Len(plan') = Len(plan)
           /\ plan'[at].status = new
           /\ \A i \in DOMAIN plan : i # at => plan'[i] = plan[i]
           /\ \A i \in DOMAIN plan : /\ plan'[i].step = plan[i].step
                                     /\ plan'[i].kind = plan[i].kind
                                     /\ plan'[i].depends_on = plan[i].depends_on
  <1> DEFINE step == [plan[at] EXCEPT !.status = new]
  <1>1. plan[at] \in PlanStep
    OBVIOUS
  <1>2. /\ step \in PlanStep
        /\ step.status = new
        /\ step.step = plan[at].step
        /\ step.kind = plan[at].kind
        /\ step.depends_on = plan[at].depends_on
    BY <1>1 DEF PlanStep
  <1>3. plan' = [plan EXCEPT ![at] = step]
    OBVIOUS
  <1> HIDE DEF step
  <1>4. /\ DOMAIN plan' = DOMAIN plan /\ plan'[at] = step
        /\ \A i \in DOMAIN plan : i # at => plan'[i] = plan[i]
    BY <1>3
  <1>5. plan' \in Seq(PlanStep) /\ Len(plan') = Len(plan)
    BY <1>2, <1>3
  <1>6. plan'[at].status = new
    BY <1>2, <1>4
  <1>7. ASSUME NEW i \in DOMAIN plan
        PROVE  /\ plan'[i].step = plan[i].step
               /\ plan'[i].kind = plan[i].kind
               /\ plan'[i].depends_on = plan[i].depends_on
    BY <1>2, <1>4
  <1> QED
    BY <1>4, <1>5, <1>6, <1>7

\* The validator returns steps numbered by position, all of them pending.
LEMMA PlanIsFresh ==
    ASSUME NEW raw \in Plans
    PROVE  /\ steps_sequential(raw) \in Seq(PlanStep)
           /\ DOMAIN steps_sequential(raw) = DOMAIN raw
           /\ steps_sequential(raw) # <<>>
           /\ \A i \in DOMAIN raw : /\ steps_sequential(raw)[i].step = i
                                    /\ steps_sequential(raw)[i].status = "pending"
  <1> DEFINE n == Len(raw)
             p == steps_sequential(raw)
  <1>1. raw \in Seq(RawStep) /\ n >= 2 /\ n \in Nat /\ DOMAIN raw = 1 .. n
    BY PlansAssumption
  <1>2. \A i \in 1 .. n : raw[i] \in RawStep
    BY <1>1
  <1>3. p \in [1 .. n -> PlanStep]
    BY <1>1, <1>2 DEF steps_sequential, PlanStep, RawStep, StepStatuses
  <1>4. p \in Seq(PlanStep) /\ Len(p) = n
    <2> HIDE DEF n, p
    <2> QED
      BY <1>1, <1>3
  <1>5. p # <<>>
    BY <1>1, <1>4
  <1> QED
    BY <1>1, <1>4, <1>5 DEF steps_sequential

----------------------------------------------------------------------------
(***************************************************************************)
(* Types, and where the control is: which steps can be pending or running  *)
(* at each place of the code, and what the run's status is there.          *)
(***************************************************************************)
Working == pc \in {"synthesising", "invoking"}

Control ==
    /\ \A i \in DOMAIN plan : plan[i].step = i
    /\ pc \in {"absent", "planning", "raised"} <=> plan = <<>>
    /\ plan # <<>> => at >= 1
    /\ Working => at \in DOMAIN plan /\ plan[at].status = "running"
    /\ \A i \in DOMAIN plan :
         /\ plan[i].status = "running" => i = at /\ Working
         /\ i > at \/ (i = at /\ pc = "loop") => plan[i].status = "pending"

LEMMA PublishType ==
    ASSUME TypeOK, NEW type \in EventTypes, NEW step \in Nat, publish(type, step)
    PROVE  events' \in Seq(Event)
  BY DEF TypeOK, publish, Event

\* The part of TypeOK and Control a terminal status leaves to be shown.
LEMMA EndStepKeeps ==
    ASSUME TypeOK, Control, pc = "invoking",
           NEW outcome \in {"done", "failed"},
           NEW type \in {"step_completed", "step_failed"},
           EndStep(outcome, type)
    PROVE  /\ plan' \in Seq(PlanStep) /\ at' \in Nat /\ events' \in Seq(Event)
           /\ Control'
  <1>1. at \in DOMAIN plan /\ plan[at] \in PlanStep /\ plan \in Seq(PlanStep) /\ plan # <<>>
    BY DEF TypeOK, Control, Working
  <1>2. at \in Nat /\ plan[at].step \in Nat
    BY <1>1 DEF TypeOK, PlanStep
  <1>3. events' \in Seq(Event)
    BY <1>2, PublishType DEF EndStep, EventTypes
  <1>4. /\ plan' \in Seq(PlanStep) /\ DOMAIN plan' = DOMAIN plan /\ Len(plan') = Len(plan)
        /\ plan'[at].status = outcome
        /\ \A i \in DOMAIN plan : i # at => plan'[i] = plan[i]
        /\ \A i \in DOMAIN plan : plan'[i].step = plan[i].step
    BY <1>1, StatusChange DEF EndStep, StepStatuses
  <1>5. plan' # <<>>
    BY <1>1, <1>4
  <1>6. pc' = "loop" /\ at' = at + 1
    BY DEF EndStep
  <1>7. ASSUME NEW i \in DOMAIN plan'
        PROVE  /\ plan'[i].step = i
               /\ plan'[i].status # "running"
               /\ i >= at' => plan'[i].status = "pending"
    <2>1. CASE i = at
      BY <1>2, <1>4, <1>6, <2>1 DEF Control
    <2>2. CASE i # at
      <3>1. plan'[i] = plan[i] /\ i \in DOMAIN plan
        BY <1>4, <2>2
      <3>2. i \in Nat
        BY <1>1, <3>1
      <3> QED
        BY <1>2, <1>6, <2>2, <3>1, <3>2 DEF Control
    <2> QED
      BY <2>1, <2>2
  <1>8. Control'
    <2>1. \A i \in DOMAIN plan' : i \in Nat
      BY <1>4
    <2> QED
      BY <1>2, <1>5, <1>6, <1>7, <2>1 DEF Control, Working
  <1> QED
    BY <1>2, <1>3, <1>4, <1>6, <1>8

\* The initial state.
LEMMA TypesInit == Init => TypeOK /\ Control
  <1> SUFFICES ASSUME Init PROVE TypeOK /\ Control
    OBVIOUS
  <1>1. plan \in Seq(PlanStep) /\ sections \in Seq(Section) /\ events \in Seq(Event)
    BY DEF Init
  <1>2. TypeOK
    <2>1. attempt \in 0 .. MaxAttempts
      BY MaxAttemptsAssumption DEF Init
    <2>2. disk.state = "none" /\ disk.body = "none"
      BY DEF Init, NoFile
    <2>3. pc \in Places /\ status \in RunStatuses
      BY DEF Init, Places, RunStatuses
    <2>4. at \in Nat /\ ~document_path /\ ~document_url
      BY DEF Init
    <2>5. document_path \in BOOLEAN /\ document_url \in BOOLEAN
      BY DEF Init
    <2> QED
      BY <1>1, <2>1, <2>2, <2>3, <2>4, <2>5 DEF TypeOK
  <1>3. DOMAIN plan = {}
    BY DEF Init
  <1> QED
    BY <1>2, <1>3 DEF Init, Control, Working

\* Every step keeps the types and the shape of the control.
LEMMA TypesNext == TypeOK /\ Control /\ [Next]_vars => TypeOK' /\ Control'
  <1> SUFFICES ASSUME TypeOK, Control, [Next]_vars
               PROVE  TypeOK' /\ Control'
    OBVIOUS
  <1>1. CASE Begin
    <2>1. events' \in Seq(Event)
      BY <1>1, PublishType DEF Begin, EventTypes
    <2> QED
      BY <1>1, <2>1 DEF Begin, TypeOK, Control, Working, Places, RunStatuses
  <1>2. CASE PlanFails
    BY <1>2 DEF PlanFails, TypeOK, Control, Working, Places, RunStatuses
  <1>3. CASE PlanCreated
    <2>1. PICK raw \in Plans : plan' = steps_sequential(raw)
      BY <1>3 DEF PlanCreated
    <2>2. /\ plan' \in Seq(PlanStep) /\ plan' # <<>>
          /\ \A i \in DOMAIN plan' : plan'[i].step = i /\ plan'[i].status = "pending"
      BY <2>1, PlanIsFresh
    <2>3. events' \in Seq(Event)
      BY <1>3, PublishType DEF PlanCreated, EventTypes
    <2>4. pc' = "loop" /\ at' = 1
      BY <1>3 DEF PlanCreated
    <2>5. TypeOK'
      BY <1>3, <2>2, <2>3, <2>4 DEF PlanCreated, TypeOK, Places
    <2> QED
      BY <2>2, <2>4, <2>5 DEF Control, Working
  <1>4. CASE SkipStep
    <2>1. /\ pc = "loop" /\ pc' = pc /\ plan' = plan
          /\ at \in DOMAIN plan /\ at \in Nat /\ at' = at + 1
          /\ \A i \in DOMAIN plan : i \in Nat
      BY <1>4 DEF SkipStep, InLoop, TypeOK
    <2>2. TypeOK'
      BY <1>4, <2>1 DEF SkipStep, TypeOK
    <2> QED
      BY <2>1, <2>2 DEF Control, Working
  <1>5. CASE StartStep
    <2>1. pc = "loop" /\ at \in DOMAIN plan /\ plan[at] \in PlanStep
      BY <1>5 DEF StartStep, InLoop, TypeOK
    <2>2. /\ plan' \in Seq(PlanStep) /\ DOMAIN plan' = DOMAIN plan /\ Len(plan') = Len(plan)
          /\ plan'[at].status = "running"
          /\ \A i \in DOMAIN plan : i # at => plan'[i] = plan[i]
          /\ \A i \in DOMAIN plan : plan'[i].step = plan[i].step
      BY <1>5, <2>1, StatusChange DEF StartStep, StepStatuses, TypeOK
    <2>3. plan[at].step \in Nat
      BY <2>1 DEF PlanStep
    <2>4. events' \in Seq(Event)
      BY <1>5, <2>3, PublishType DEF StartStep, EventTypes
    <2>5. /\ pc' \in {"synthesising", "invoking"} /\ at' = at /\ attempt' = 1
          /\ at \in Nat /\ plan # <<>> /\ plan' # <<>>
      BY <1>5, <2>1, <2>2 DEF StartStep, TypeOK
    <2>6. TypeOK'
      BY <1>5, <2>2, <2>4, <2>5, MaxAttemptsAssumption DEF StartStep, TypeOK, Places
    <2>7. ASSUME NEW i \in DOMAIN plan'
          PROVE  /\ plan'[i].step = i
                 /\ plan'[i].status = "running" => i = at'
                 /\ i > at' => plan'[i].status = "pending"
      <3>1. CASE i = at
        BY <2>2, <2>5, <3>1 DEF Control
      <3>2. CASE i # at
        BY <2>1, <2>2, <2>5, <3>2 DEF Control, Working
      <3> QED
        BY <3>1, <3>2
    <2> QED
      BY <2>1, <2>2, <2>5, <2>6, <2>7 DEF Control, Working
  <1>6. CASE SynthesisOk
    <2>1. sections' \in Seq(Section)
      BY <1>6, SynthesisKeepsType DEF TypeOK
    <2> QED
      BY <1>6, <2>1 DEF SynthesisOk, TypeOK, Control, Working, Places
  <1>7. CASE SynthesisFails
    BY <1>7 DEF SynthesisFails, TypeOK, Control, Working, Places
  <1>8. CASE ContentOk
    <2>1. plan' \in Seq(PlanStep) /\ at' \in Nat /\ events' \in Seq(Event) /\ Control'
      BY <1>8, EndStepKeeps DEF ContentOk
    <2>2. plan[at] \in PlanStep
      BY <1>8 DEF ContentOk, TypeOK, Control, Working
    <2>3. [from |-> plan[at].step, summary |-> plan[at].kind = "summary"] \in Section
      BY <2>2 DEF PlanStep, Section
    <2>4. sections' \in Seq(Section)
      BY <1>8, <2>3 DEF ContentOk, TypeOK
    <2> QED
      BY <1>8, <2>1, <2>4 DEF ContentOk, EndStep, TypeOK, Places
  <1>9. CASE BuildOk
    <2>1. plan' \in Seq(PlanStep) /\ at' \in Nat /\ events' \in Seq(Event) /\ Control'
      BY <1>9, EndStepKeeps DEF BuildOk
    <2> QED
      BY <1>9, <2>1 DEF BuildOk, EndStep, Document, TypeOK, Places
  <1>10. CASE AttemptFails
    <2>1. attempt' \in 0 .. MaxAttempts
      BY <1>10, MaxAttemptsAssumption DEF AttemptFails, TypeOK
    <2>2. disk' = disk \/ disk' = TornFile
      BY <1>10 DEF AttemptFails, CallRaises
    <2> QED
      BY <1>10, <2>1, <2>2 DEF AttemptFails, TornFile, TypeOK, Control, Working
  <1>11. CASE GiveUp
    <2>1. plan' \in Seq(PlanStep) /\ at' \in Nat /\ events' \in Seq(Event) /\ Control'
      BY <1>11, EndStepKeeps DEF GiveUp
    <2>2. disk' = disk \/ disk' = TornFile
      BY <1>11 DEF GiveUp, CallRaises
    <2> QED
      BY <1>11, <2>1, <2>2 DEF GiveUp, EndStep, TornFile, TypeOK, Places
  <1>12. CASE EndLoop
    BY <1>12 DEF EndLoop, TypeOK, Control, Working, Places
  <1>13. CASE Reflect
    <2>1. events' \in Seq(Event)
      BY <1>13, PublishType DEF Reflect, EventTypes
    <2> QED
      BY <1>13, <2>1 DEF Reflect, TypeOK, Control, Working, Places
  <1>14. CASE Finish
    <2>1. events' \in Seq(Event)
      BY <1>14, PublishType DEF Finish, EventTypes
    <2>2. /\ disk' = disk \/ disk' = TornFile \/ disk' = Document("digest", collect_sections)
          /\ document_path' \in BOOLEAN
      BY <1>14 DEF Finish, maybe_build_fallback_document, FallbackBuilt, FallbackRaises, TypeOK
    <2>3. /\ disk'.state \in {"none", "torn", "whole"}
          /\ disk'.body \in {"none", "full", "digest"}
      BY <2>2 DEF TornFile, Document, TypeOK
    <2>4. document_url' \in BOOLEAN /\ status' \in RunStatuses
      BY <1>14 DEF Finish, artifact_exists, derive_status, RunStatuses
    <2> QED
      BY <1>14, <2>1, <2>2, <2>3, <2>4 DEF Finish, TypeOK, Control, Working, Places
  <1>15. CASE UNCHANGED vars
    BY <1>15 DEF vars, TypeOK, Control, Working
  <1> QED
    BY <1>1, <1>2, <1>3, <1>4, <1>5, <1>6, <1>7, <1>8, <1>9, <1>10, <1>11, <1>12,
       <1>13, <1>14, <1>15
    DEF Next, Resume, Execute, Synthesis, Invocation

\* Every variable keeps its type, and a step is running only while the
\* executor is at it (executor.py:393-443).
THEOREM TypeCorrect == Spec => [](TypeOK /\ Control)
  BY TypesInit, TypesNext, PTL DEF Spec

----------------------------------------------------------------------------
(***************************************************************************)
(* Dependencies.  done is final, so a step that was started keeps its      *)
(* dependencies done.                                                      *)
(***************************************************************************)

\* What any step does to the steps of an existing plan.
StepsGrow ==
    plan # <<>> =>
        /\ DOMAIN plan' = DOMAIN plan
        /\ \A i \in DOMAIN plan :
             /\ plan'[i].depends_on = plan[i].depends_on
             /\ plan'[i].kind = plan[i].kind
             /\ plan[i].status = "done" => plan'[i].status = "done"
             /\ plan[i].status # "pending" => plan'[i].status # "pending"
             /\ plan[i].status = "failed" => plan'[i].status = "failed"

LEMMA EndStepGrows ==
    ASSUME TypeOK, Control, pc = "invoking",
           NEW outcome \in {"done", "failed"}, NEW type, EndStep(outcome, type)
    PROVE  StepsGrow /\ (\A i \in DOMAIN plan : i # at => plan'[i] = plan[i])
                     /\ plan'[at].status = outcome /\ at \in DOMAIN plan
  <1>1. at \in DOMAIN plan /\ plan \in Seq(PlanStep) /\ plan[at].status = "running"
    BY DEF TypeOK, Control, Working
  <1>2. /\ DOMAIN plan' = DOMAIN plan /\ plan'[at].status = outcome
        /\ \A i \in DOMAIN plan : i # at => plan'[i] = plan[i]
        /\ \A i \in DOMAIN plan : /\ plan'[i].kind = plan[i].kind
                                  /\ plan'[i].depends_on = plan[i].depends_on
    BY <1>1, StatusChange DEF EndStep, StepStatuses
  <1> QED
    BY <1>1, <1>2 DEF StepsGrow

LEMMA StepsOnlyGrow == TypeOK /\ Control /\ [Next]_vars => StepsGrow
  <1> SUFFICES ASSUME TypeOK, Control, [Next]_vars PROVE StepsGrow
    OBVIOUS
  <1>1. CASE StartStep
    <2>1. at \in DOMAIN plan /\ plan \in Seq(PlanStep) /\ plan[at].status = "pending"
      BY <1>1 DEF StartStep, InLoop, TypeOK, Control
    <2>2. /\ DOMAIN plan' = DOMAIN plan /\ plan'[at].status = "running"
          /\ \A i \in DOMAIN plan : i # at => plan'[i] = plan[i]
          /\ \A i \in DOMAIN plan : /\ plan'[i].kind = plan[i].kind
                                    /\ plan'[i].depends_on = plan[i].depends_on
      BY <1>1, <2>1, StatusChange DEF StartStep, StepStatuses
    <2> QED
      BY <2>1, <2>2 DEF StepsGrow
  <1>2. CASE ContentOk
    BY <1>2, EndStepGrows DEF ContentOk
  <1>3. CASE BuildOk
    BY <1>3, EndStepGrows DEF BuildOk
  <1>4. CASE GiveUp
    BY <1>4, EndStepGrows DEF GiveUp
  <1>5. CASE plan' = plan \/ plan = <<>>
    BY <1>5 DEF StepsGrow
  <1>6. StartStep \/ ContentOk \/ BuildOk \/ GiveUp \/ plan' = plan \/ plan = <<>>
    BY DEF Next, Resume, Execute, Synthesis, Invocation, Begin, PlanFails, PlanCreated,
           SkipStep, SynthesisOk, SynthesisFails, AttemptFails, EndLoop, Reflect, Finish,
           vars, Control
  <1> QED
    BY <1>1, <1>2, <1>3, <1>4, <1>5, <1>6

\* A step leaves pending only in StartStep.
LEMMA OnlyStartLeavesPending ==
    ASSUME TypeOK, Control, [Next]_vars, plan # <<>>,
           NEW i \in DOMAIN plan, plan[i].status = "pending", plan'[i].status # "pending"
    PROVE  StartStep /\ i = at
  <1>1. CASE StartStep
    <2>1. at \in DOMAIN plan /\ plan \in Seq(PlanStep)
      BY <1>1 DEF StartStep, InLoop, TypeOK
    <2>2. i # at => plan'[i] = plan[i]
      BY <1>1, <2>1, StatusChange DEF StartStep, StepStatuses
    <2> QED
      BY <1>1, <2>2
  <1>2. ASSUME pc = "invoking" PROVE plan[at].status = "running"
    BY <1>2 DEF Control, Working
  <1>3. CASE ContentOk
    BY <1>2, <1>3, EndStepGrows DEF ContentOk
  <1>4. CASE BuildOk
    BY <1>2, <1>4, EndStepGrows DEF BuildOk
  <1>5. CASE GiveUp
    BY <1>2, <1>5, EndStepGrows DEF GiveUp
  <1>6. StartStep \/ ContentOk \/ BuildOk \/ GiveUp \/ plan' = plan
    BY DEF Next, Resume, Execute, Synthesis, Invocation, Begin, PlanFails, PlanCreated,
           SkipStep, SynthesisOk, SynthesisFails, AttemptFails, EndLoop, Reflect, Finish,
           vars, Control
  <1> QED
    BY <1>1, <1>3, <1>4, <1>5, <1>6

LEMMA DependenciesNext ==
    TypeOK /\ Control /\ DependenciesDone /\ [Next]_vars => DependenciesDone'
  <1> SUFFICES ASSUME TypeOK, Control, DependenciesDone, [Next]_vars
               PROVE  DependenciesDone'
    OBVIOUS
  <1>1. CASE plan = <<>>
    <2>1. CASE PlanCreated
      <3>1. PICK raw \in Plans : plan' = steps_sequential(raw)
        BY <2>1 DEF PlanCreated
      <3>2. \A i \in DOMAIN plan' : plan'[i].status = "pending"
        BY <3>1, PlanIsFresh
      <3> QED
        BY <3>2 DEF DependenciesDone
    <2>2. CASE plan' = plan
      BY <1>1, <2>2 DEF DependenciesDone
    <2>3. pc \in {"absent", "planning", "raised"}
      BY <1>1 DEF Control
    <2>4. PlanCreated \/ plan' = plan
      BY <2>3 DEF Next, Resume, Execute, Synthesis, Invocation, Begin, PlanFails, SkipStep,
         InLoop, StartStep, SynthesisOk, SynthesisFails, ContentOk, BuildOk, AttemptFails,
         GiveUp, EndLoop, Reflect, Finish, vars
    <2> QED
      BY <2>1, <2>2, <2>4
  <1>2. CASE plan # <<>>
    <2>1. StepsGrow
      BY StepsOnlyGrow
    <2>2. ASSUME NEW i \in DOMAIN plan', plan'[i].status # "pending" PROVE Met(i)'
      <3>1. i \in DOMAIN plan /\ plan'[i].depends_on = plan[i].depends_on
        BY <1>2, <2>1 DEF StepsGrow
      <3>2. Met(i)
        <4>1. CASE plan[i].status = "pending"
          <5>1. StartStep /\ i = at
            BY <1>2, <2>2, <3>1, <4>1, OnlyStartLeavesPending
          <5>2. dependencies_satisfied(plan[i])
            BY <5>1 DEF StartStep
          <5>3. ASSUME NEW d \in plan[i].depends_on
                PROVE  d \in DOMAIN plan /\ plan[d].status = "done"
            <6>1. PICK j \in DOMAIN plan : plan[j].step = d /\ plan[j].status = "done"
              BY <5>2, <5>3 DEF dependencies_satisfied
            <6> QED
              BY <6>1 DEF Control
          <5> QED
            BY <5>3 DEF Met
        <4>2. CASE plan[i].status # "pending"
          BY <3>1, <4>2 DEF DependenciesDone
        <4> QED
          BY <4>1, <4>2
      <3> QED
        BY <1>2, <2>1, <3>1, <3>2 DEF Met, StepsGrow
    <2> QED
      BY <2>2 DEF DependenciesDone
  <1> QED
    BY <1>1, <1>2

\* A step that was ever started has every dependency done (executor.py:445-469).
THEOREM DependenciesHold == Spec => []DependenciesDone
  <1>1. Init => DependenciesDone
    BY DEF Init, DependenciesDone
  <1> QED
    BY <1>1, TypesInit, TypesNext, DependenciesNext, PTL DEF Spec

----------------------------------------------------------------------------
(***************************************************************************)
(* What a failure costs.  The loop only moves forward: no step before the  *)
(* one it is at changes any more, so a step it passed over stays with the  *)
(* dependency that was not done.                                           *)
(***************************************************************************)
Backward(i) == \A d \in plan[i].depends_on : d < i

PassedOver ==
    /\ \A i \in DOMAIN plan :
         (i < at /\ plan[i].status = "pending" /\ Backward(i)) => ~Met(i)
    /\ pc \in {"reflecting", "finalising", "returned"} => at \notin DOMAIN plan

\* A change of the step the loop is at does not help a step before it.
LEMMA PassedOverStays ==
    ASSUME TypeOK, Control, PassedOver, at \in DOMAIN plan,
           DOMAIN plan' = DOMAIN plan, plan'[at].status # "pending",
           \A i \in DOMAIN plan : i # at => plan'[i] = plan[i],
           at' \in {at, at + 1},
           NEW i \in DOMAIN plan', i < at', plan'[i].status = "pending", Backward(i)'
    PROVE  ~Met(i)'
  <1>1. i # at /\ i \in DOMAIN plan /\ i \in Nat /\ at \in Nat /\ plan'[i] = plan[i]
    BY DEF TypeOK
  <1>2. i < at /\ Backward(i)
    BY <1>1 DEF Backward
  <1>3. PICK d \in plan[i].depends_on : ~(d \in DOMAIN plan /\ plan[d].status = "done")
    BY <1>1, <1>2 DEF PassedOver, Met
  <1>4. d < i /\ d \in Nat
    <2>1. plan[i] \in PlanStep
      BY <1>1 DEF TypeOK
    <2> QED
      BY <1>2, <2>1 DEF Backward, PlanStep
  <1>5. d # at
    BY <1>1, <1>2, <1>4
  <1>6. d \in plan'[i].depends_on /\ ~(d \in DOMAIN plan' /\ plan'[d].status = "done")
    BY <1>1, <1>3, <1>5
  <1> QED
    BY <1>6 DEF Met

LEMMA PassedOverNext == TypeOK /\ Control /\ PassedOver /\ [Next]_vars => PassedOver'
  <1> SUFFICES ASSUME TypeOK, Control, PassedOver, [Next]_vars PROVE PassedOver'
    OBVIOUS
  <1>1. CASE PlanCreated
    <2>1. pc' = "loop" /\ at' = 1
      BY <1>1 DEF PlanCreated
    <2>2. plan' \in Seq(PlanStep)
      BY TypesNext DEF TypeOK
    <2>3. \A i \in DOMAIN plan' : ~(i < at')
      BY <2>1, <2>2
    <2> QED
      BY <2>1, <2>3 DEF PassedOver
  <1>2. CASE SkipStep
    <2>1. /\ pc' = "loop" /\ plan' = plan /\ at' = at + 1 /\ at \in DOMAIN plan
          /\ at \in Nat /\ DOMAIN plan \subseteq Nat
          /\ ~dependencies_satisfied(plan[at])
      BY <1>2 DEF SkipStep, InLoop, TypeOK
    <2>2. ~Met(at)
      <3>1. PICK d \in plan[at].depends_on :
              \A j \in DOMAIN plan : ~(plan[j].step = d /\ plan[j].status = "done")
        BY <2>1 DEF dependencies_satisfied
      <3>2. d \in DOMAIN plan => plan[d].step = d
        BY DEF Control
      <3> QED
        BY <3>1, <3>2 DEF Met
    <2>3. ASSUME NEW i \in DOMAIN plan', i < at', plan'[i].status = "pending", Backward(i)'
          PROVE  ~Met(i)'
      <3>1. i \in DOMAIN plan /\ i \in Nat /\ Backward(i)
        BY <2>1, <2>3 DEF Backward
      <3>2. i = at \/ i < at
        BY <2>1, <2>3, <3>1
      <3>3. ~Met(i)
        BY <2>1, <2>2, <2>3, <3>1, <3>2 DEF PassedOver
      <3> QED
        BY <2>1, <3>3 DEF Met
    <2> QED
      BY <2>1, <2>3 DEF PassedOver
  <1>3. CASE StartStep
    <2>1. at \in DOMAIN plan /\ plan \in Seq(PlanStep) /\ at' = at
      BY <1>3 DEF StartStep, InLoop, TypeOK
    <2>2. /\ DOMAIN plan' = DOMAIN plan /\ plan'[at].status = "running"
          /\ \A i \in DOMAIN plan : i # at => plan'[i] = plan[i]
      BY <1>3, <2>1, StatusChange DEF StartStep, StepStatuses
    <2>3. pc' \in {"synthesising", "invoking"}
      BY <1>3 DEF StartStep
    <2>4. ASSUME NEW i \in DOMAIN plan', i < at', plan'[i].status = "pending", Backward(i)'
          PROVE  ~Met(i)'
      BY <2>1, <2>2, <2>4, PassedOverStays
    <2> QED
      BY <2>3, <2>4 DEF PassedOver
  <1>4. CASE ContentOk \/ BuildOk \/ GiveUp
    <2>1. PICK outcome \in {"done", "failed"}, type \in EventTypes :
            pc = "invoking" /\ EndStep(outcome, type)
      BY <1>4 DEF ContentOk, BuildOk, GiveUp, EventTypes
    <2>2. /\ at \in DOMAIN plan /\ plan # <<>> /\ plan'[at].status = outcome
          /\ \A i \in DOMAIN plan : i # at => plan'[i] = plan[i]
          /\ StepsGrow
      BY <2>1, EndStepGrows
    <2>3. DOMAIN plan' = DOMAIN plan /\ pc' = "loop" /\ at' = at + 1
      BY <2>1, <2>2 DEF StepsGrow, EndStep
    <2>4. ASSUME NEW i \in DOMAIN plan', i < at', plan'[i].status = "pending", Backward(i)'
          PROVE  ~Met(i)'
      BY <2>2, <2>3, <2>4, PassedOverStays
    <2> QED
      BY <2>3, <2>4 DEF PassedOver
  <1>5. CASE /\ UNCHANGED <<plan, at>>
             /\ pc' \in {"reflecting", "finalising", "returned"} =>
                  at \notin DOMAIN plan
    BY <1>5 DEF PassedOver, Backward, Met
  <1>6. \/ PlanCreated \/ SkipStep \/ StartStep \/ ContentOk \/ BuildOk \/ GiveUp
        \/ /\ UNCHANGED <<plan, at>>
           /\ pc' \in {"reflecting", "finalising", "returned"} => at \notin DOMAIN plan
    BY DEF Next, Resume, Execute, Synthesis, Invocation, Begin, PlanFails, SynthesisOk,
           SynthesisFails, AttemptFails, EndLoop, Reflect, Finish, vars, PassedOver
  <1> QED
    BY <1>1, <1>2, <1>3, <1>4, <1>5, <1>6

\* A failed or skipped step costs the run only the steps that depend on it:
\* at the end, a step that is still pending and names only earlier steps has
\* one among them that is not done (executor.py:398-402, 427-443).
THEOREM BackwardStepsHold == Spec => []BackwardStepsRun
  <1>1. Init => PassedOver
    BY DEF Init, PassedOver
  <1>2. TypeOK /\ Control /\ PassedOver => BackwardStepsRun
    <2> SUFFICES ASSUME TypeOK, Control, PassedOver, Over, NEW i \in DOMAIN plan,
                        plan[i].status = "pending", Backward(i)
                 PROVE  ~Met(i)
      BY DEF BackwardStepsRun, Backward
    <2>1. pc = "returned"
      BY DEF Over, Control
    <2>2. at \notin DOMAIN plan /\ at >= 1 /\ at \in Nat /\ plan \in Seq(PlanStep)
      BY <2>1 DEF PassedOver, Control, TypeOK
    <2>3. i < at
      BY <2>2
    <2> QED
      BY <2>3 DEF PassedOver
  <1> QED
    BY <1>1, <1>2, TypesInit, TypesNext, PassedOverNext, PTL DEF Spec

----------------------------------------------------------------------------
(***************************************************************************)
(* The final status.  DamageShows is what makes it honest: when every step *)
(* is done no build failed or is being retried, so a recorded document is  *)
(* undamaged.                                                              *)
(***************************************************************************)
RunStatus ==
    /\ pc = "absent" => status = "pending"
    /\ pc = "raised" => status = "failed"
    /\ pc \notin {"absent", "raised", "returned"} => status = "running"
    /\ plan = <<>> => ~document_path
    /\ pc # "returned" => ~document_url
    /\ document_path => disk.state # "none"

AllDone == \A i \in DOMAIN plan : plan[i].status = "done"

LEMMA DamageNext ==
    TypeOK /\ Control /\ RunStatus /\ DamageShows /\ [Next]_vars => DamageShows'
  <1> SUFFICES ASSUME TypeOK, Control, RunStatus, DamageShows, [Next]_vars,
                      document_path', disk'.state = "torn"
               PROVE  \E i \in DOMAIN plan' :
                        plan'[i].kind = "build" /\ plan'[i].status \in {"running", "failed"}
    BY DEF DamageShows
  <1> DEFINE Shows(i) == plan[i].kind = "build" /\ plan[i].status \in {"running", "failed"}
  <1>1. CASE StartStep
    <2>1. PICK i \in DOMAIN plan : Shows(i)
      BY <1>1 DEF StartStep, DamageShows
    <2>2. StepsGrow /\ plan # <<>> /\ at \in DOMAIN plan /\ plan \in Seq(PlanStep)
      BY <1>1, StepsOnlyGrow DEF StartStep, InLoop, TypeOK
    <2>3. /\ plan'[at].status = "running"
          /\ i # at => plan'[i] = plan[i]
      BY <1>1, <2>2, StatusChange DEF StartStep, StepStatuses
    <2> QED
      BY <2>1, <2>2, <2>3 DEF StepsGrow
  <1>2. CASE ContentOk
    <2>1. PICK i \in DOMAIN plan : Shows(i)
      BY <1>2 DEF ContentOk, DamageShows
    <2>2. i # at /\ plan # <<>>
      BY <1>2, <2>1 DEF ContentOk
    <2>3. StepsGrow /\ plan'[i] = plan[i]
      BY <1>2, <2>2, EndStepGrows DEF ContentOk
    <2> QED
      BY <2>1, <2>2, <2>3 DEF StepsGrow
  <1>3. CASE BuildOk
    BY <1>3 DEF BuildOk, Document
  <1>4. CASE AttemptFails
    <2>1. document_path /\ plan' = plan /\ pc = "invoking"
      BY <1>4 DEF AttemptFails
    <2>2. at \in DOMAIN plan /\ plan[at].status = "running"
      BY <2>1 DEF Control, Working
    <2>3. disk.state = "torn" \/ plan[at].kind = "build"
      BY <1>4 DEF AttemptFails, CallRaises
    <2> QED
      BY <2>1, <2>2, <2>3 DEF DamageShows
  <1>5. CASE GiveUp
    <2>1. document_path /\ pc = "invoking"
      BY <1>5 DEF GiveUp
    <2>2. /\ StepsGrow /\ at \in DOMAIN plan /\ plan'[at].status = "failed" /\ plan # <<>>
          /\ \A i \in DOMAIN plan : i # at => plan'[i] = plan[i]
      BY <1>5, EndStepGrows DEF GiveUp
    <2>3. disk.state = "torn" \/ plan[at].kind = "build"
      BY <1>5 DEF GiveUp, CallRaises
    <2>4. CASE plan[at].kind = "build"
      BY <2>2, <2>4 DEF StepsGrow
    <2>5. CASE disk.state = "torn"
      <3>1. PICK i \in DOMAIN plan : Shows(i)
        BY <2>1, <2>5 DEF DamageShows
      <3> QED
        BY <2>2, <3>1 DEF StepsGrow
    <2> QED
      BY <2>3, <2>4, <2>5
  <1>6. CASE Finish
    <2>1. CASE FallbackBuilt
      BY <2>1 DEF FallbackBuilt, Document
    <2>2. CASE FallbackRaises
      BY <2>2 DEF FallbackRaises, FallbackNeeded, artifact_exists, RunStatus
    <2>3. CASE UNCHANGED <<disk, document_path>>
      BY <1>6, <2>3 DEF Finish, DamageShows
    <2> QED
      BY <1>6, <2>1, <2>2, <2>3 DEF Finish, maybe_build_fallback_document
  <1>7. CASE PlanCreated
    BY <1>7 DEF PlanCreated, Control, RunStatus
  <1>8. CASE UNCHANGED <<plan, document_path, disk>>
    BY <1>8 DEF DamageShows
  <1>9. \/ StartStep \/ ContentOk \/ BuildOk \/ AttemptFails \/ GiveUp \/ Finish
        \/ PlanCreated \/ UNCHANGED <<plan, document_path, disk>>
    BY DEF Next, Resume, Execute, Synthesis, Invocation, Begin, PlanFails, SkipStep,
           SynthesisOk, SynthesisFails, EndLoop, Reflect, vars
  <1> QED
    BY <1>1, <1>2, <1>3, <1>4, <1>5, <1>6, <1>7, <1>8, <1>9

LEMMA RunStatusNext ==
    TypeOK /\ Control /\ RunStatus /\ [Next]_vars => RunStatus'
  <1> SUFFICES ASSUME TypeOK, Control, RunStatus, [Next]_vars PROVE RunStatus'
    OBVIOUS
  <1>1. CASE Begin
    BY <1>1 DEF Begin, RunStatus
  <1>2. CASE PlanFails
    BY <1>2 DEF PlanFails, RunStatus
  <1>3. CASE PlanCreated
    BY <1>3 DEF PlanCreated, Control, RunStatus
  <1>4. CASE SkipStep \/ SynthesisOk \/ SynthesisFails \/ EndLoop \/ Reflect
    BY <1>4 DEF SkipStep, InLoop, SynthesisOk, SynthesisFails, EndLoop, Reflect, RunStatus
  <1>5. CASE StartStep
    BY <1>5, TypesNext DEF StartStep, InLoop, RunStatus, Control
  <1>6. CASE ContentOk
    BY <1>6, TypesNext DEF ContentOk, EndStep, RunStatus, Control
  <1>7. CASE BuildOk
    BY <1>7, TypesNext DEF BuildOk, EndStep, Document, RunStatus, Control
  <1>8. CASE AttemptFails
    BY <1>8 DEF AttemptFails, CallRaises, TornFile, RunStatus
  <1>9. CASE GiveUp
    BY <1>9, TypesNext DEF GiveUp, EndStep, CallRaises, TornFile, RunStatus, Control
  <1>10. CASE Finish
    <2>1. pc' = "returned" /\ plan' = plan /\ plan # <<>>
      BY <1>10 DEF Finish, Control
    <2>2. document_path' => disk'.state # "none"
      <3>1. CASE FallbackBuilt
        BY <3>1 DEF FallbackBuilt, Document
      <3>2. CASE FallbackRaises
        BY <3>2 DEF FallbackRaises, TornFile, RunStatus
      <3>3. CASE UNCHANGED <<disk, document_path>>
        BY <3>3 DEF RunStatus
      <3> QED
        BY <1>10, <3>1, <3>2, <3>3 DEF Finish, maybe_build_fallback_document
    <2> QED
      BY <2>1, <2>2 DEF RunStatus
  <1>11. CASE UNCHANGED vars
    BY <1>11 DEF vars, RunStatus
  <1> QED
    BY <1>1, <1>2, <1>3, <1>4, <1>5, <1>6, <1>7, <1>8, <1>9, <1>10, <1>11
    DEF Next, Resume, Execute, Synthesis, Invocation

LEMMA HonestNext ==
    TypeOK /\ Control /\ RunStatus /\ DamageShows /\ StatusHonest /\ [Next]_vars
      => StatusHonest'
  <1> SUFFICES ASSUME TypeOK, Control, RunStatus, DamageShows, StatusHonest, [Next]_vars
               PROVE  StatusHonest'
    OBVIOUS
  <1>1. CASE PlanFails
    <2>1. /\ pc' = "raised" /\ status' = "failed"
          /\ ~document_path' /\ document_url' = document_url
      BY <1>1 DEF PlanFails, Control, RunStatus
    <2>2. ~document_url' /\ ~artifact_exists'
      BY <1>1, <2>1 DEF PlanFails, RunStatus, artifact_exists
    <2>3. get_document' = "failed_no_document"
      BY <2>1, <2>2 DEF get_document
    <2> QED
      BY <2>1, <2>2, <2>3 DEF StatusHonest
  <1>2. CASE Finish
    <2>1. plan' = plan /\ pc' = "returned" /\ document_url' = artifact_exists'
          /\ status' = derive_status(plan, artifact_exists')
      BY <1>2 DEF Finish
    <2>2. /\ document_path' => disk'.state # "none"
          /\ AllDone /\ document_path' => disk'.state # "torn"
      <3>1. RunStatus' /\ DamageShows'
        BY RunStatusNext, DamageNext
      <3> QED
        BY <2>1, <3>1 DEF RunStatus, DamageShows, AllDone
    <2>3. TypeOK'
      BY TypesNext
    <2>4. artifact_exists' <=> document_path'
      BY <2>2 DEF artifact_exists
    <2>5. artifact_exists' /\ AllDone => disk'.state = "whole"
      BY <2>2, <2>3, <2>4 DEF TypeOK
    <2>6. /\ status' = "completed" <=> artifact_exists' /\ AllDone
          /\ status' = "failed" <=> ~artifact_exists'
          /\ status' \in {"completed", "partial", "failed"}
      BY <2>1 DEF derive_status, AllDone
    <2>7. get_document' = IF artifact_exists' THEN "document" ELSE "failed_no_document"
      BY <2>1, <2>6 DEF get_document
    <2>8. document_url' <=> get_document' = "document"
      BY <2>1, <2>7
    <2>9. status' = "failed" <=> get_document' = "failed_no_document"
      BY <2>6, <2>7
    <2> QED
      BY <2>1, <2>4, <2>5, <2>6, <2>8, <2>9 DEF StatusHonest, AllDone
  <1>3. CASE UNCHANGED vars
    BY <1>3 DEF vars, StatusHonest, Over, get_document, artifact_exists
  <1>4. PlanFails \/ Finish \/ UNCHANGED vars \/ ~Over'
    BY DEF Next, Resume, Execute, Synthesis, Invocation, Over, Begin, PlanCreated, SkipStep,
       InLoop, StartStep, SynthesisOk, SynthesisFails, ContentOk, BuildOk, AttemptFails,
       GiveUp, EndStep, EndLoop, Reflect
  <1> QED
    BY <1>1, <1>2, <1>3, <1>4 DEF StatusHonest

Honest == RunStatus /\ DamageShows /\ StatusHonest

LEMMA HonestInit == Init => Honest
  BY DEF Init, Honest, RunStatus, DamageShows, StatusHonest, Over, NoFile

\* The status, the URL and the documents endpoint agree about what there is,
\* and completed means every step done and an undamaged document, whatever
\* the plan and however calls and saves fail (orchestrator.py:46-105, 291-306).
THEOREM StatusHonestHolds == Spec => []StatusHonest
  <1>1. TypeOK /\ Control /\ Honest /\ [Next]_vars => Honest'
    BY RunStatusNext, DamageNext, HonestNext DEF Honest
  <1>2. Honest => StatusHonest
    BY DEF Honest
  <1> QED
    BY <1>1, <1>2, TypesInit, TypesNext, HonestInit, PTL DEF Spec

\* A damaged document is never offered without a failed or retried build step
\* to show for it (executor.py:761-777, orchestrator.py:458-477).
THEOREM DamageShowsHolds == Spec => []DamageShows
  <1>1. TypeOK /\ Control /\ Honest /\ [Next]_vars => Honest'
    BY RunStatusNext, DamageNext, HonestNext DEF Honest
  <1>2. Honest => DamageShows
    BY DEF Honest
  <1> QED
    BY <1>1, <1>2, TypesInit, TypesNext, HonestInit, PTL DEF Spec

\* A recorded document stays recorded, and its file stays on the disk.
LEMMA ArtifactStays ==
    ASSUME [Next]_vars, artifact_exists
    PROVE  artifact_exists'
  <1>1. CASE Finish
    BY <1>1 DEF Finish, maybe_build_fallback_document, FallbackBuilt, FallbackRaises,
                FallbackNeeded, artifact_exists
  <1>2. CASE BuildOk
    BY <1>2 DEF BuildOk, Document, artifact_exists
  <1>3. CASE AttemptFails \/ GiveUp
    <2>1. document_path' = document_path /\ disk' \in {disk, TornFile}
      BY <1>3 DEF AttemptFails, GiveUp, CallRaises
    <2>2. disk'.state # "none"
      BY <2>1 DEF TornFile, artifact_exists
    <2> QED
      BY <2>1, <2>2 DEF artifact_exists
  <1>4. CASE UNCHANGED <<document_path, disk>>
    BY <1>4 DEF artifact_exists
  <1>5. \/ Finish \/ BuildOk \/ AttemptFails \/ GiveUp \/ UNCHANGED <<document_path, disk>>
    BY DEF Next, Resume, Execute, Synthesis, Invocation, Begin, PlanFails, PlanCreated,
           SkipStep, StartStep, SynthesisOk, SynthesisFails, ContentOk, EndLoop, Reflect, vars
  <1> QED
    BY <1>1, <1>2, <1>3, <1>4, <1>5

\* The documents endpoint never takes an answer back (documents.py:60-77).
THEOREM AnswerStableHolds == Spec => AnswerStable
  <1> DEFINE Stable ==
        /\ get_document \in {"document", "failed_no_document"} => get_document' = get_document
        /\ get_document = "in_progress" => get_document' # "unknown_run"
  <1>1. ASSUME TypeOK, Control, Honest, [Next]_vars PROVE Stable
    <2>1. pc # "absent" => pc' # "absent"
      BY <1>1 DEF Next, Resume, Execute, Synthesis, Invocation, Begin, PlanFails, PlanCreated,
         SkipStep, StartStep, SynthesisOk, SynthesisFails, ContentOk, BuildOk, AttemptFails,
         GiveUp, EndStep, EndLoop, Reflect, Finish, vars
    <2>2. CASE get_document = "document"
      <3>1. pc # "absent" /\ artifact_exists
        BY <2>2 DEF get_document
      <3>2. pc' # "absent" /\ artifact_exists'
        BY <1>1, <2>1, <3>1, ArtifactStays
      <3> QED
        BY <2>2, <3>2 DEF get_document
    <2>3. CASE get_document = "failed_no_document"
      <3>1. pc # "absent" /\ status \notin {"pending", "running"}
        BY <2>3 DEF get_document
      <3>2. Over
        BY <1>1, <3>1 DEF Honest, RunStatus, Over
      <3>3. UNCHANGED vars
        BY <1>1, <3>2 DEF Over, Next, Resume, Execute, Synthesis, Invocation, Begin, PlanFails,
           PlanCreated, SkipStep, InLoop, StartStep, SynthesisOk, SynthesisFails, ContentOk,
           BuildOk, AttemptFails, GiveUp, EndLoop, Reflect, Finish
      <3> QED
        BY <2>3, <3>3 DEF get_document, artifact_exists, vars
    <2>4. CASE get_document = "in_progress"
      BY <2>1, <2>4 DEF get_document
    <2> QED
      BY <2>2, <2>3, <2>4
  <1>2. TypeOK /\ Control /\ Honest /\ [Next]_vars => [Stable]_vars
    BY <1>1
  <1>3. TypeOK /\ Control /\ Honest /\ [Next]_vars => Honest'
    BY RunStatusNext, DamageNext, HonestNext DEF Honest
  <1> QED
    BY <1>2, <1>3, TypesInit, TypesNext, HonestInit, PTL DEF Spec, AnswerStable

----------------------------------------------------------------------------
(***************************************************************************)
(* The document.  The sections the executor accumulates always are the     *)
(* content of the steps done so far; what a build writes stays right,      *)
(* because every step done later comes after the build.                    *)
(***************************************************************************)

\* A synthesised summary stands in front.
FrontOnly(secs) == \A k \in DOMAIN secs : secs[k].from = 0 => k = 1 /\ secs[k].summary

Sound(secs, S) == secs \in Seq(Section) /\ Carries(secs, S) /\ FrontOnly(secs)

\* The steps whose sections the executor has.
AllContent == DoneContent(Len(plan) + 1)

DocumentInv ==
    /\ Sound(sections, AllContent)
    /\ DoneBuilds # {} => document_path
    /\ disk.state = "whole" /\ disk.body = "full" =>
         \E b \in DoneBuilds : /\ \A c \in DoneBuilds : c <= b
                               /\ Sound(disk.sections, DoneContent(b))
    /\ disk.state = "whole" /\ disk.body # "full" =>
         pc = "returned" /\ Sound(disk.sections, AllContent)

\* One more section behind sections of earlier steps.
LEMMA CarriesAppend ==
    ASSUME NEW secs, NEW S \in SUBSET Nat, Sound(secs, S),
           NEW e \in Section, e.from # 0, \A i \in S : i < e.from
    PROVE  Sound(Append(secs, e), IF e.summary THEN S ELSE S \cup {e.from})
  <1> DEFINE new == Append(secs, e)
             n == Len(secs)
  <1>1. /\ secs \in Seq(Section) /\ n \in Nat /\ DOMAIN secs = 1 .. n
        /\ new \in Seq(Section) /\ DOMAIN new = 1 .. n + 1 /\ new[n + 1] = e
        /\ \A k \in 1 .. n : new[k] = secs[k]
    BY DEF Sound
  <1> HIDE DEF new, n
  <1>2. FrontOnly(new)
    <2>1. \A k \in 1 .. n + 1 : k \in 1 .. n \/ k = n + 1
      BY <1>1
    <2> QED
      BY <1>1, <2>1 DEF Sound, FrontOnly
  <1>3. ContentOf(new) = ContentOf(secs) \cup (IF e.summary THEN {} ELSE {n + 1})
    <2>1. ASSUME NEW k
          PROVE  k \in ContentOf(new)
                   <=> k \in ContentOf(secs) \/ (~e.summary /\ k = n + 1)
      <3>1. CASE k \in 1 .. n
        <4>1. k # n + 1 /\ k \in 1 .. n + 1 /\ new[k] = secs[k]
          BY <1>1, <3>1
        <4> QED
          BY <1>1, <3>1, <4>1 DEF ContentOf
      <3>2. CASE k = n + 1
        <4>1. k \in 1 .. n + 1 /\ k \notin 1 .. n
          BY <1>1, <3>2
        <4> QED
          BY <1>1, <3>2, <4>1 DEF ContentOf
      <3>3. CASE k \notin 1 .. n + 1
        <4>1. k \notin 1 .. n /\ k # n + 1
          BY <1>1, <3>3
        <4> QED
          BY <1>1, <3>3, <4>1 DEF ContentOf
      <3>4. \A j \in 1 .. n + 1 : j \in 1 .. n \/ j = n + 1
        BY <1>1
      <3> QED
        BY <3>1, <3>2, <3>3, <3>4
    <2> QED
      BY <2>1
  <1>4. \A k \in ContentOf(secs) : k \in 1 .. n /\ secs[k].from \in S
    BY <1>1 DEF Sound, Carries, ContentOf
  <1>5. ASSUME NEW j \in ContentOf(new), NEW k \in ContentOf(new), j < k
        PROVE  new[j].from < new[k].from
    <2>1. j \in ContentOf(secs)
      <3>1. k \in 1 .. n + 1
        BY <1>1 DEF ContentOf
      <3>2. j # n + 1
        BY <1>1, <1>5, <3>1
      <3> QED
        BY <1>3, <3>2
    <2>2. CASE k \in ContentOf(secs)
      BY <1>1, <1>4, <1>5, <2>1, <2>2 DEF Sound, Carries
    <2>3. CASE k = n + 1
      BY <1>1, <1>4, <2>1, <2>3
    <2> QED
      BY <1>3, <2>2, <2>3
  <1>6. {new[k].from : k \in ContentOf(new)}
          = {secs[k].from : k \in ContentOf(secs)} \cup (IF e.summary THEN {} ELSE {e.from})
    BY <1>1, <1>3, <1>4
  <1>7. {secs[k].from : k \in ContentOf(secs)} = S
    BY DEF Sound, Carries
  <1> QED
    BY <1>1, <1>2, <1>5, <1>6, <1>7 DEF Sound, Carries, new

\* A summary in front of what is left when summaries are taken out.
LEMMA CarriesThinned ==
    ASSUME NEW secs \in Seq(Section), NEW S, Carries(secs, S),
           NEW t \in Seq(Section), Len(t) >= 1, t[1].summary,
           NEW old \in [2 .. Len(t) -> DOMAIN secs],
           \A j, k \in 2 .. Len(t) : j < k => old[j] < old[k],
           \A k \in 2 .. Len(t) : t[k] = secs[old[k]],
           \A i \in DOMAIN secs : secs[i].summary \/ \E k \in 2 .. Len(t) : old[k] = i
    PROVE  Carries(t, S)
  <1>1. ASSUME NEW k \in ContentOf(t)
        PROVE  /\ k \in 2 .. Len(t) /\ old[k] \in ContentOf(secs)
               /\ t[k] = secs[old[k]]
    <2>1. k \in 1 .. Len(t) /\ k # 1 /\ ~t[k].summary
      BY DEF ContentOf
    <2>2. k \in 2 .. Len(t)
      BY <2>1
    <2> QED
      BY <2>1, <2>2 DEF ContentOf
  <1>2. ASSUME NEW i \in ContentOf(secs)
        PROVE  \E k \in ContentOf(t) : t[k] = secs[i]
    <2>1. PICK k \in 2 .. Len(t) : old[k] = i
      BY DEF ContentOf
    <2>2. k \in DOMAIN t
      OBVIOUS
    <2> QED
      BY <2>1, <2>2 DEF ContentOf
  <1>3. \A j, k \in ContentOf(t) : j < k => t[j].from < t[k].from
    BY <1>1 DEF Carries
  <1>4. {t[k].from : k \in ContentOf(t)} = {secs[k].from : k \in ContentOf(secs)}
    BY <1>1, <1>2
  <1> QED
    BY <1>3, <1>4 DEF Carries

\* existing_index is the first summary.
LEMMA ExistingIndexFirst ==
    ASSUME sections \in Seq(Section)
    PROVE  /\ existing_index = 0 => \A i \in DOMAIN sections : ~sections[i].summary
           /\ existing_index # 0 => /\ existing_index \in DOMAIN sections
                                    /\ sections[existing_index].summary
           /\ \A i \in DOMAIN sections : sections[i].summary => existing_index <= i
  <1> DEFINE I == {i \in 1 .. Len(sections) : sections[i].summary}
  <1>1. CASE I = {}
    BY <1>1 DEF existing_index, SelectInSeq
  <1>2. CASE I # {}
    <2>1. existing_index = Min(I)
      BY <1>2 DEF existing_index, SelectInSeq
    <2>2. I \in SUBSET Nat
      OBVIOUS
    <2>3. Min(I) \in I /\ \A i \in I : Min(I) <= i
      BY <1>2, <2>2, MinIsMember
    <2>4. existing_index \in I /\ existing_index # 0
      BY <2>1, <2>3
    <2> QED
      BY <2>1, <2>3, <2>4
  <1> QED
    BY <1>1, <1>2

\* Replacing the executive summary drops, duplicates and reorders nothing.
LEMMA SynthesisKeepsContent ==
    ASSUME NEW S, Sound(sections, S), SynthesisOk
    PROVE  Sound(sections', S)
  <1> DEFINE front == [from |-> 0, summary |-> TRUE]
             n == Len(sections)
             t == sections'
             e == existing_index
  <1>1. sections \in Seq(Section) /\ t \in Seq(Section) /\ front \in Section /\ n \in Nat
    BY SynthesisKeepsType DEF Sound, Section
  <1>2. CASE e = 0
    <2>1. t = <<front>> \o sections
      BY <1>2 DEF SynthesisOk
    <2> DEFINE old == [k \in 2 .. Len(t) |-> k - 1]
    <2> HIDE DEF front, t
    <2>2. /\ Len(t) = n + 1 /\ t[1] = front
          /\ \A k \in 2 .. n + 1 : t[k] = sections[k - 1] /\ k - 1 \in 1 .. n
      BY <1>1, <2>1
    <2>3. /\ old \in [2 .. Len(t) -> DOMAIN sections]
          /\ \A k \in 2 .. Len(t) : t[k] = sections[old[k]]
          /\ \A j, k \in 2 .. Len(t) : j < k => old[j] < old[k]
      BY <1>1, <2>2
    <2>4. \A i \in DOMAIN sections : \E k \in 2 .. Len(t) : old[k] = i
      <3> TAKE i \in DOMAIN sections
      <3>1. i + 1 \in 2 .. Len(t) /\ (i + 1) - 1 = i
        BY <1>1, <2>2
      <3> QED
        BY <3>1
    <2>5. t[1].summary /\ t[1].from = 0 /\ Len(t) >= 1
      BY <1>1, <2>2 DEF front
    <2>6. \A k \in 2 .. Len(t) : t[k].from # 0
      <3>1. \A i \in DOMAIN sections : sections[i].from # 0
        BY <1>1, <1>2, ExistingIndexFirst DEF Sound, FrontOnly
      <3> QED
        BY <2>3, <3>1
    <2> HIDE DEF old
    <2>7. Carries(t, S)
      <3>1. \A i \in DOMAIN sections : sections[i].summary \/ \E k \in 2 .. Len(t) : old[k] = i
        BY <2>4
      <3>2. t \in Seq(Section)
        BY <1>1 DEF t
      <3> QED
        BY <1>1, <2>3, <2>5, <3>1, <3>2, CarriesThinned DEF Sound
    <2>8. FrontOnly(t)
      <3>1. \A k \in DOMAIN t : k = 1 \/ k \in 2 .. Len(t)
        BY <1>1 DEF t
      <3> QED
        BY <2>5, <2>6, <3>1 DEF FrontOnly
    <2> QED
      BY <1>1, <2>7, <2>8 DEF Sound, t
  <1>3. CASE e # 0
    <2>1. t = <<front>> \o RemoveAt(sections, e)
      BY <1>3 DEF SynthesisOk
    <2>2. e \in 1 .. n /\ sections[e].summary
      BY <1>1, <1>3, ExistingIndexFirst
    <2>3. t = <<front>> \o (SubSeq(sections, 1, e - 1) \o SubSeq(sections, e + 1, n))
      BY <2>1 DEF RemoveAt
    <2> DEFINE old == [k \in 2 .. Len(t) |-> IF k - 1 < e THEN k - 1 ELSE k]
    <2> HIDE DEF front, t, e, n
    <2>4. /\ Len(t) = n /\ t[1] = front
          /\ \A k \in 2 .. n : t[k] = sections[IF k - 1 < e THEN k - 1 ELSE k]
      <3> DEFINE a == SubSeq(sections, 1, e - 1)
                 b == SubSeq(sections, e + 1, n)
      <3>1. /\ a \in Seq(Section) /\ Len(a) = e - 1
            /\ \A k \in 1 .. e - 1 : a[k] = sections[k]
        BY <1>1, <2>2 DEF n
      <3>2. /\ b \in Seq(Section) /\ Len(b) = n - e
            /\ \A k \in 1 .. n - e : b[k] = sections[e + k]
        BY <1>1, <2>2 DEF n
      <3>3. t = <<front>> \o (a \o b)
        BY <2>3
      <3> HIDE DEF a, b
      <3>4. /\ a \o b \in Seq(Section) /\ Len(a \o b) = n - 1
            /\ \A k \in 1 .. e - 1 : (a \o b)[k] = a[k]
            /\ \A k \in 1 .. n - e : (a \o b)[(e - 1) + k] = b[k]
        <4>1. a \o b \in Seq(Section) /\ Len(a \o b) = Len(a) + Len(b)
          BY <3>1, <3>2
        <4>2. Len(a \o b) = n - 1
          BY <1>1, <2>2, <3>1, <3>2, <4>1
        <4>3. ASSUME NEW k \in 1 .. e - 1 PROVE (a \o b)[k] = a[k]
          BY <1>1, <2>2, <3>1, <3>2
        <4>4. ASSUME NEW k \in 1 .. n - e PROVE (a \o b)[(e - 1) + k] = b[k]
          BY <1>1, <2>2, <3>1, <3>2
        <4> QED
          BY <4>1, <4>2, <4>3, <4>4
      <3>5. /\ Len(t) = n /\ t[1] = front
            /\ \A k \in 2 .. n : t[k] = (a \o b)[k - 1]
        BY <1>1, <2>2, <3>3, <3>4
      <3>6. ASSUME NEW k \in 2 .. n
            PROVE  t[k] = sections[IF k - 1 < e THEN k - 1 ELSE k]
        <4>1. CASE k - 1 < e
          BY <1>1, <2>2, <3>1, <3>4, <3>5, <4>1
        <4>2. CASE ~(k - 1 < e)
          <5>1. k - e \in 1 .. n - e /\ (e - 1) + (k - e) = k - 1 /\ e + (k - e) = k
            BY <1>1, <2>2, <4>2
          <5>2. (a \o b)[k - 1] = b[k - e] /\ b[k - e] = sections[k]
            BY <3>2, <3>4, <5>1
          <5> QED
            BY <3>5, <4>2, <5>2
        <4> QED
          BY <4>1, <4>2
      <3> QED
        BY <3>5, <3>6
    <2>5. DOMAIN sections = 1 .. n
      BY <1>1 DEF n
    <2>6. /\ old \in [2 .. Len(t) -> DOMAIN sections]
          /\ \A k \in 2 .. Len(t) : t[k] = sections[old[k]] /\ old[k] # e
          /\ \A j, k \in 2 .. Len(t) : j < k => old[j] < old[k]
      BY <1>1, <2>2, <2>4, <2>5
    <2>7. ASSUME NEW i \in DOMAIN sections, i # e PROVE \E k \in 2 .. Len(t) : old[k] = i
      <3>1. CASE i < e
        <4>1. i + 1 \in 2 .. Len(t) /\ old[i + 1] = i
          BY <1>1, <2>2, <2>4, <2>5, <3>1
        <4> QED
          BY <4>1
      <3>2. CASE ~(i < e)
        <4>1. i \in 2 .. Len(t) /\ old[i] = i
          BY <1>1, <2>2, <2>4, <2>5, <2>7, <3>2
        <4> QED
          BY <4>1
      <3> QED
        BY <3>1, <3>2
    <2>8. t[1].summary /\ t[1].from = 0 /\ Len(t) >= 1
      BY <1>1, <2>2, <2>4 DEF front
    <2>9. \A k \in 2 .. Len(t) : t[k].from # 0
      <3>1. ASSUME NEW i \in DOMAIN sections, sections[i].from = 0 PROVE i = e
        <4>1. i = 1 /\ sections[i].summary
          BY <3>1 DEF Sound, FrontOnly
        <4>2. e <= i
          BY <1>1, <4>1, ExistingIndexFirst DEF e
        <4> QED
          BY <1>1, <2>2, <4>1, <4>2
      <3> QED
        BY <2>6, <3>1
    <2> HIDE DEF old
    <2>10. Carries(t, S)
      <3>1. \A i \in DOMAIN sections : sections[i].summary \/ \E k \in 2 .. Len(t) : old[k] = i
        BY <2>2, <2>7
      <3> QED
        BY <1>1, <2>6, <2>8, <3>1, CarriesThinned DEF Sound, t
    <2>11. FrontOnly(t)
      <3>1. \A k \in DOMAIN t : k = 1 \/ k \in 2 .. Len(t)
        BY <1>1 DEF t
      <3> QED
        BY <2>8, <2>9, <3>1 DEF FrontOnly
    <2> QED
      BY <1>1, <2>10, <2>11 DEF Sound, t
  <1> QED
    BY <1>2, <1>3

\* The loop of collect_sections: before its first turn, and one turn more.
LEMMA CollectNothing == FoldLeft(collect, <<>>, <<>>) = <<>>
  BY Collecting!FoldNothing
  DEF FoldLeft, Collecting!FoldLeft, MapThenFoldSet, Collecting!MapThenFoldSet,
      Max, Collecting!Max

LEMMA CollectOneMore ==
    ASSUME NEW s, NEW t, NEW n \in Nat, DOMAIN s = 1 .. n, DOMAIN t = 1 .. n + 1,
           \A i \in 1 .. n : t[i] = s[i]
    PROVE  FoldLeft(collect, <<>>, t) = collect(FoldLeft(collect, <<>>, s), t[n + 1])
  <1>1. Collecting!FoldLeft(collect, <<>>, t)
          = collect(Collecting!FoldLeft(collect, <<>>, s), t[n + 1])
    BY Collecting!FoldOneMore
  <1> QED
    BY <1>1
    DEF FoldLeft, Collecting!FoldLeft, MapThenFoldSet, Collecting!MapThenFoldSet,
        Max, Collecting!Max

\* The loop over the completed steps, turn by turn: while no build is done,
\* it collects the content of the steps done, in plan order.
LEMMA CollectSound ==
    ASSUME TypeOK, Control, DoneBuilds = {}
    PROVE  Sound(collect_sections, AllContent)
  <1> DEFINE L == Len(plan)
             C(n) == FoldLeft(collect, <<>>, SubSeq(plan, 1, n))
             D(n) == {i \in 1 .. n : plan[i].status = "done" /\ plan[i].kind # "summary"}
             I == {n \in Nat : n <= L => Sound(C(n), D(n))}
  <1>1. plan \in Seq(PlanStep) /\ L \in Nat /\ DOMAIN plan = 1 .. L
    BY DEF TypeOK
  <1>2. ASSUME NEW n \in 0 .. L
        PROVE  /\ DOMAIN SubSeq(plan, 1, n) = 1 .. n
               /\ \A i \in 1 .. n : SubSeq(plan, 1, n)[i] = plan[i]
    BY <1>1
  <1>3. 0 \in I
    <2>1. SubSeq(plan, 1, 0) = <<>>
      BY <1>1
    <2>2. C(0) = <<>>
      BY <2>1, CollectNothing
    <2>3. D(0) = {}
      OBVIOUS
    <2>4. <<>> \in Seq(Section) /\ ContentOf(<<>>) = {} /\ FrontOnly(<<>>)
      BY DEF ContentOf, FrontOnly
    <2>5. Sound(<<>>, {})
      BY <2>4 DEF Sound, Carries
    <2> QED
      BY <2>2, <2>3, <2>5
  <1>4. ASSUME NEW n \in I PROVE n + 1 \in I
    <2> DEFINE s == plan[n + 1]
               e == [from |-> s.step, summary |-> s.kind = "summary"]
    <2>1. n \in Nat
      OBVIOUS
    <2>2. SUFFICES ASSUME n + 1 <= L PROVE Sound(C(n + 1), D(n + 1))
      BY <2>1
    <2>3. Sound(C(n), D(n)) /\ n \in 0 .. L /\ n + 1 \in 0 .. L /\ n + 1 \in 1 .. L
      <3>1. n <= L /\ n \in 0 .. L /\ n + 1 \in 0 .. L /\ n + 1 \in 1 .. L
        BY <1>1, <2>1, <2>2
      <3> HIDE DEF L, C, D
      <3> QED
        BY <3>1
    <2>4. SubSeq(plan, 1, n + 1)[n + 1] = s /\ n + 1 \in 1 .. n + 1
      BY <1>2, <2>1, <2>3
    <2>5. C(n + 1) = collect(C(n), s)
      <3>1. \A i \in 1 .. n : SubSeq(plan, 1, n + 1)[i] = SubSeq(plan, 1, n)[i]
        BY <1>2, <2>1, <2>3
      <3>2. DOMAIN SubSeq(plan, 1, n) = 1 .. n /\ DOMAIN SubSeq(plan, 1, n + 1) = 1 .. n + 1
        BY <1>2, <2>3
      <3>3. C(n + 1) = collect(C(n), SubSeq(plan, 1, n + 1)[n + 1])
        BY <2>1, <3>1, <3>2, CollectOneMore
      <3> QED
        BY <2>4, <3>3
    <2>6. s \in PlanStep /\ s.step = n + 1
      BY <1>1, <2>3 DEF Control
    <2> HIDE DEF s, C, I
    <2>7. CASE s.status = "done"
      <3>1. e \in Section /\ e.from = n + 1 /\ (e.summary <=> s.kind = "summary") /\ e.from # 0
        <4>1. n + 1 \in Nat /\ n + 1 # 0
          BY <2>1
        <4>2. s.step \in Nat /\ (s.kind = "summary") \in BOOLEAN
          BY <2>6 DEF PlanStep
        <4> QED
          BY <2>6, <4>1, <4>2 DEF Section
      <3>2. D(n) \in SUBSET Nat /\ \A i \in D(n) : i < e.from
        BY <2>1, <3>1
      <3>3. D(n + 1) = IF e.summary THEN D(n) ELSE D(n) \cup {e.from}
        <4>1. D(n + 1) = D(n) \cup (IF s.kind = "summary" THEN {} ELSE {n + 1})
          <5>1. \A i \in 1 .. n + 1 : i \in 1 .. n \/ i = n + 1
            BY <2>1
          <5>2. \A i \in 1 .. n : i \in 1 .. n + 1
            BY <2>1
          <5> QED
            BY <2>4, <2>7, <5>1, <5>2 DEF s
        <4> QED
          BY <3>1, <4>1
      <3>4. C(n + 1) = Append(C(n), e)
        BY <2>5, <2>7 DEF collect
      <3> HIDE DEF e, D
      <3>5. Sound(Append(C(n), e), IF e.summary THEN D(n) ELSE D(n) \cup {e.from})
        BY <2>3, <3>1, <3>2, CarriesAppend
      <3> QED
        BY <3>3, <3>4, <3>5
    <2>8. CASE s.status # "done"
      <3>1. D(n + 1) = D(n)
        <4>1. \A i \in 1 .. n + 1 : i \in 1 .. n \/ i = n + 1
          BY <2>1
        <4>2. \A i \in 1 .. n : i \in 1 .. n + 1
          BY <2>1
        <4> QED
          BY <2>8, <4>1, <4>2 DEF s
      <3>2. C(n + 1) = C(n)
        BY <2>5, <2>8 DEF collect
      <3> QED
        BY <2>3, <3>1, <3>2
    <2> QED
      BY <2>7, <2>8
  <1> HIDE DEF I
  <1>5. I = Nat
    <2>1. I \in SUBSET Nat
      BY DEF I
    <2> QED
      BY <1>3, <1>4, <2>1, Collecting!SetInduction
  <1>6. Sound(C(L), D(L))
    BY <1>1, <1>5 DEF I
  <1>7. SubSeq(plan, 1, L) = plan
    BY <1>1, SubSeqFull
  <1>8. D(L) = AllContent
    <2>1. ASSUME NEW i \in 1 .. L, plan[i].status = "done"
          PROVE  plan[i].kind # "summary" <=> plan[i].kind = "content"
      <3>1. plan[i] \in PlanStep /\ plan[i].kind # "build"
        BY <1>1, <2>1 DEF DoneBuilds
      <3> QED
        BY <3>1 DEF PlanStep, Kinds
    <2>2. \A i \in 1 .. L : i < L + 1
      BY <1>1
    <2> QED
      BY <1>1, <2>1, <2>2 DEF AllContent, DoneContent
  <1> QED
    BY <1>6, <1>7, <1>8 DEF collect_sections

\* What a new status of the step the executor is at does to the steps done.
LEMMA DoneGrows ==
    ASSUME TypeOK, Control, at \in DOMAIN plan, plan[at].status # "done",
           NEW new \in StepStatuses, plan' = [plan EXCEPT ![at].status = new]
    PROVE  /\ \A b : DoneContent(b)' = DoneContent(b) \cup
                       (IF new = "done" /\ plan[at].kind = "content" /\ at < b
                        THEN {at} ELSE {})
           /\ DoneBuilds' = DoneBuilds \cup
                (IF new = "done" /\ plan[at].kind = "build" THEN {at} ELSE {})
           /\ AllContent' = AllContent \cup
                (IF new = "done" /\ plan[at].kind = "content" THEN {at} ELSE {})
           /\ \A i \in DOMAIN plan : plan[i].status = "done" => i < at
  <1>1. plan \in Seq(PlanStep) /\ at \in Nat /\ at < Len(plan) + 1
    BY DEF TypeOK
  <1>2. /\ DOMAIN plan' = DOMAIN plan /\ Len(plan') = Len(plan)
        /\ plan'[at].status = new
        /\ \A i \in DOMAIN plan : i # at => plan'[i] = plan[i]
        /\ \A i \in DOMAIN plan : plan'[i].kind = plan[i].kind
    BY <1>1, StatusChange
  <1>3. ASSUME NEW b
        PROVE  DoneContent(b)' = DoneContent(b) \cup
                 (IF new = "done" /\ plan[at].kind = "content" /\ at < b THEN {at} ELSE {})
    BY <1>2 DEF DoneContent
  <1>4. DoneBuilds' = DoneBuilds \cup
          (IF new = "done" /\ plan[at].kind = "build" THEN {at} ELSE {})
    BY <1>2 DEF DoneBuilds
  <1>5. AllContent' = AllContent \cup
          (IF new = "done" /\ plan[at].kind = "content" THEN {at} ELSE {})
    <2>1. AllContent' = DoneContent(Len(plan) + 1)'
      BY <1>2 DEF AllContent, DoneContent
    <2> QED
      BY <1>1, <1>2 DEF AllContent, DoneContent
  <1>6. ASSUME NEW i \in DOMAIN plan, plan[i].status = "done" PROVE i < at
    <2>1. i # at /\ i \in Nat /\ ~(i > at)
      BY <1>1, <1>6 DEF Control
    <2> QED
      BY <1>1, <2>1
  <1> QED
    BY <1>3, <1>4, <1>5, <1>6

\* A document on disk stays right while later steps are done.
LEMMA DocumentStays ==
    ASSUME TypeOK, Control, DocumentInv, at \in DOMAIN plan, plan[at].status # "done",
           NEW new \in StepStatuses, plan' = [plan EXCEPT ![at].status = new],
           plan[at].kind # "build" \/ new # "done",
           pc # "returned", disk' \in {disk, TornFile}
    PROVE  /\ disk'.state = "whole" /\ disk'.body = "full" =>
                \E b \in DoneBuilds' : /\ \A c \in DoneBuilds' : c <= b
                                       /\ Sound(disk'.sections, DoneContent(b)')
           /\ disk'.state = "whole" => disk'.body = "full"
           /\ DoneBuilds' = DoneBuilds
  <1>1. DoneBuilds' = DoneBuilds
    BY DoneGrows
  <1>2. disk'.state = "whole" => disk' = disk
    BY DEF TornFile
  <1>3. ASSUME disk.state = "whole", disk.body = "full"
        PROVE  \E b \in DoneBuilds : /\ \A c \in DoneBuilds : c <= b
                                     /\ Sound(disk.sections, DoneContent(b)')
    <2>1. PICK b \in DoneBuilds : /\ \A c \in DoneBuilds : c <= b
                                  /\ Sound(disk.sections, DoneContent(b))
      BY <1>3 DEF DocumentInv
    <2>2. b < at
      BY <2>1, DoneGrows DEF DoneBuilds
    <2>3. b \in Nat /\ at \in Nat /\ ~(at < b)
      BY <2>1, <2>2 DEF DoneBuilds, TypeOK
    <2>4. DoneContent(b)' = DoneContent(b)
      BY <2>3, DoneGrows
    <2> QED
      BY <2>1, <2>4
  <1> QED
    BY <1>1, <1>2, <1>3 DEF DocumentInv

LEMMA DocumentNext ==
    TypeOK /\ Control /\ RunStatus /\ DocumentInv /\ [Next]_vars => DocumentInv'
  <1> SUFFICES ASSUME TypeOK, Control, RunStatus, DocumentInv, [Next]_vars
               PROVE  DocumentInv'
    OBVIOUS
  <1>1. ASSUME pc = "invoking"
        PROVE  at \in DOMAIN plan /\ plan[at].status = "running" /\ plan[at].step = at
    BY <1>1 DEF Control, Working
  <1>2. at \in DOMAIN plan => at # 0 /\ at \in Nat /\ plan[at] \in PlanStep
    BY DEF TypeOK
  <1>3. AllContent \in SUBSET Nat
    BY DEF AllContent, DoneContent, TypeOK
  <1>4. CASE PlanCreated
    <2>1. plan = <<>> /\ sections' = sections /\ disk' = disk /\ pc = "planning"
          /\ document_path' = document_path
      BY <1>4 DEF PlanCreated, Control
    <2>2. DOMAIN plan = {}
      BY <2>1
    <2>3. AllContent = {} /\ DoneBuilds = {}
      BY <2>2 DEF AllContent, DoneContent, DoneBuilds
    <2>4. \A i \in DOMAIN plan' : plan'[i].status = "pending"
      <3>1. PICK raw \in Plans : plan' = steps_sequential(raw)
        BY <1>4 DEF PlanCreated
      <3> QED
        BY <3>1, PlanIsFresh
    <2>5. AllContent' = {} /\ DoneBuilds' = {}
      BY <2>4 DEF AllContent, DoneContent, DoneBuilds
    <2> QED
      BY <2>1, <2>3, <2>5 DEF DocumentInv
  <1>5. CASE StartStep
    <2>1. /\ at \in DOMAIN plan /\ plan[at].status = "pending" /\ pc = "loop"
          /\ plan' = [plan EXCEPT ![at].status = "running"]
          /\ UNCHANGED <<sections, disk, document_path>>
      BY <1>5 DEF StartStep, InLoop, Control
    <2>2. AllContent' = AllContent
      BY <2>1, DoneGrows DEF StepStatuses
    <2> QED
      BY <2>1, <2>2, DocumentStays DEF DocumentInv, StepStatuses
  <1>6. CASE SynthesisOk
    <2>1. Sound(sections', AllContent)
      BY <1>6, SynthesisKeepsContent DEF DocumentInv
    <2>2. pc # "returned" /\ UNCHANGED <<plan, disk, document_path>>
      BY <1>6 DEF SynthesisOk
    <2> QED
      BY <2>1, <2>2 DEF DocumentInv, AllContent, DoneContent, DoneBuilds
  <1>7. CASE ContentOk
    <2> DEFINE e == [from |-> plan[at].step, summary |-> plan[at].kind = "summary"]
    <2>1. /\ pc = "invoking" /\ plan[at].kind # "build"
          /\ plan' = [plan EXCEPT ![at].status = "done"]
          /\ sections' = Append(sections, e)
          /\ UNCHANGED <<disk, document_path>>
      BY <1>7 DEF ContentOk, EndStep
    <2>2. at \in DOMAIN plan /\ plan[at].status = "running" /\ plan[at].step = at
          /\ plan[at].kind \in Kinds /\ at \in Nat \ {0}
      BY <1>1, <1>2, <2>1 DEF PlanStep
    <2>3. /\ AllContent' = AllContent \cup (IF plan[at].kind = "content" THEN {at} ELSE {})
          /\ \A i \in AllContent : i < at
      BY <2>1, <2>2, DoneGrows DEF StepStatuses, AllContent, DoneContent
    <2>4. /\ e \in Section /\ e.from = at /\ e.from # 0
          /\ e.summary <=> plan[at].kind = "summary"
      BY <2>2 DEF Section
    <2>5. Sound(sections', IF e.summary THEN AllContent ELSE AllContent \cup {e.from})
      <3> HIDE DEF e
      <3> QED
        BY <1>3, <2>1, <2>3, <2>4, CarriesAppend DEF DocumentInv
    <2>6. AllContent' = IF e.summary THEN AllContent ELSE AllContent \cup {e.from}
      BY <2>1, <2>2, <2>3, <2>4 DEF Kinds
    <2> HIDE DEF e
    <2>7. Sound(sections', AllContent')
      BY <2>5, <2>6
    <2> QED
      BY <2>1, <2>2, <2>7, DocumentStays DEF DocumentInv, StepStatuses
  <1>8. CASE BuildOk
    <2>1. /\ pc = "invoking" /\ plan[at].kind = "build"
          /\ plan' = [plan EXCEPT ![at].status = "done"]
          /\ disk' = Document("full", sections) /\ document_path' /\ sections' = sections
      BY <1>8 DEF BuildOk, EndStep
    <2>2. at \in DOMAIN plan /\ plan[at].status = "running" /\ at \in Nat
      BY <1>1, <1>2, <2>1
    <2>3. /\ AllContent' = AllContent /\ DoneBuilds' = DoneBuilds \cup {at}
          /\ \A b : DoneContent(b)' = DoneContent(b)
          /\ \A i \in DOMAIN plan : plan[i].status = "done" => i < at
      BY <2>1, <2>2, DoneGrows DEF StepStatuses
    <2>4. DoneContent(at) = AllContent
      BY <2>2, <2>3 DEF AllContent, DoneContent, TypeOK
    <2>5. \A c \in DoneBuilds' : c <= at
      BY <2>2, <2>3 DEF DoneBuilds, TypeOK
    <2>6. /\ disk'.state = "whole" /\ disk'.body = "full"
          /\ disk'.sections = sections
      BY <2>1 DEF Document
    <2>7. Sound(sections, AllContent)
      BY DEF DocumentInv
    <2>8. \E b \in DoneBuilds' : /\ \A c \in DoneBuilds' : c <= b
                                 /\ Sound(disk'.sections, DoneContent(b)')
      BY <2>3, <2>4, <2>5, <2>6, <2>7
    <2> QED
      BY <2>1, <2>3, <2>6, <2>7, <2>8 DEF DocumentInv
  <1>9. CASE AttemptFails
    <2>1. /\ pc = "invoking" /\ UNCHANGED <<plan, sections, document_path>>
          /\ disk' = disk \/ disk' = TornFile
      BY <1>9 DEF AttemptFails, CallRaises
    <2>2. TornFile.state # "whole"
      BY DEF TornFile
    <2> QED
      BY <2>1, <2>2 DEF DocumentInv, AllContent, DoneContent, DoneBuilds
  <1>10. CASE GiveUp
    <2>1. /\ pc = "invoking" /\ plan' = [plan EXCEPT ![at].status = "failed"]
          /\ disk' \in {disk, TornFile}
          /\ UNCHANGED <<sections, document_path>>
      BY <1>10 DEF GiveUp, EndStep, CallRaises
    <2>2. at \in DOMAIN plan /\ plan[at].status = "running"
      BY <1>1, <2>1
    <2>3. AllContent' = AllContent
      BY <2>1, <2>2, DoneGrows DEF StepStatuses
    <2> QED
      BY <2>1, <2>2, <2>3, DocumentStays DEF DocumentInv, StepStatuses
  <1>11. CASE Finish
    <2>1. pc # "returned" /\ pc' = "returned" /\ UNCHANGED <<plan, sections>>
      BY <1>11 DEF Finish
    <2>2. /\ AllContent' = AllContent /\ DoneBuilds' = DoneBuilds
          /\ \A b : DoneContent(b)' = DoneContent(b)
      BY <2>1 DEF AllContent, DoneContent, DoneBuilds
    <2>3. CASE FallbackBuilt
      <3>1. DoneBuilds = {}
        BY <2>3 DEF FallbackBuilt, FallbackNeeded, artifact_exists, RunStatus, DocumentInv
      <3>2. Sound(collect_sections, AllContent)
        BY <3>1, CollectSound
      <3>3. /\ disk'.state = "whole" /\ disk'.body = "digest"
            /\ disk'.sections = collect_sections /\ document_path'
        BY <2>3 DEF FallbackBuilt, Document
      <3> QED
        BY <2>1, <2>2, <3>2, <3>3 DEF DocumentInv
    <2>4. CASE disk' \in {disk, TornFile} /\ document_path' = document_path
      <3>1. disk'.state = "whole" => disk' = disk
        BY <2>4 DEF TornFile
      <3> QED
        BY <2>1, <2>2, <2>4, <3>1 DEF DocumentInv
    <2> QED
      BY <1>11, <2>3, <2>4 DEF Finish, maybe_build_fallback_document, FallbackRaises
  <1>12. CASE /\ UNCHANGED <<plan, sections, disk, document_path>>
              /\ pc = "returned" => pc' = "returned"
    BY <1>12 DEF DocumentInv, AllContent, DoneContent, DoneBuilds
  <1>13. \/ PlanCreated \/ StartStep \/ SynthesisOk \/ ContentOk \/ BuildOk \/ AttemptFails
         \/ GiveUp \/ Finish
         \/ /\ UNCHANGED <<plan, sections, disk, document_path>>
            /\ pc = "returned" => pc' = "returned"
    BY DEF Next, Resume, Execute, Synthesis, Invocation, Begin, PlanFails, SkipStep, InLoop,
           SynthesisFails, EndLoop, Reflect, vars
  <1> QED
    BY <1>4, <1>5, <1>6, <1>7, <1>8, <1>9, <1>10, <1>11, <1>12, <1>13

\* An undamaged document holds the content of every step done before it was
\* built, each once and in plan order, behind at most one synthesised summary
\* (executor.py:398-443, 542-571; orchestrator.py:431-499).
THEOREM DocumentsHold == Spec => []DocumentContents
  <1>1. Init => DocumentInv
    <2> SUFFICES ASSUME Init PROVE DocumentInv
      OBVIOUS
    <2>1. DOMAIN plan = {} /\ sections = <<>> /\ disk.state = "none"
      BY DEF Init, NoFile
    <2>2. AllContent = {} /\ DoneBuilds = {}
      BY <2>1 DEF AllContent, DoneContent, DoneBuilds
    <2>3. Sound(sections, {})
      BY <2>1 DEF Sound, Carries, ContentOf, FrontOnly
    <2> QED
      BY <2>1, <2>2, <2>3 DEF DocumentInv
  <1>2. TypeOK /\ DocumentInv => DocumentContents
    <2> SUFFICES ASSUME TypeOK, DocumentInv, disk.state = "whole"
                 PROVE  /\ disk.sections \in Seq(Section)
                        /\ Carries(disk.sections,
                                   DoneContent(IF disk.body = "full" THEN Max(DoneBuilds)
                                                                     ELSE Len(plan) + 1))
                        /\ \A k \in DOMAIN disk.sections : disk.sections[k].from = 0 => k = 1
      BY DEF DocumentContents
    <2>1. CASE disk.body = "full"
      <3>1. PICK b \in DoneBuilds : /\ \A c \in DoneBuilds : c <= b
                                    /\ Sound(disk.sections, DoneContent(b))
        BY <2>1 DEF DocumentInv
      <3>2. Max(DoneBuilds) = b
        <4>1. DoneBuilds \subseteq Nat
          BY DEF DoneBuilds, TypeOK
        <4>2. Max(DoneBuilds) \in DoneBuilds /\ \A c \in DoneBuilds : Max(DoneBuilds) >= c
          BY <3>1, <4>1 DEF Max
        <4>3. Max(DoneBuilds) <= b /\ Max(DoneBuilds) >= b
          BY <3>1, <4>2
        <4>4. b \in Nat /\ Max(DoneBuilds) \in Nat
          BY <4>1, <4>2
        <4> QED
          BY <4>3, <4>4
      <3> QED
        BY <2>1, <3>1, <3>2 DEF Sound, FrontOnly
    <2>2. CASE disk.body # "full"
      BY <2>2 DEF DocumentInv, Sound, FrontOnly, AllContent
    <2> QED
      BY <2>1, <2>2
  <1>3. Init => RunStatus
    BY DEF Init, RunStatus, NoFile
  <1> QED
    BY <1>1, <1>2, <1>3, TypesInit, TypesNext, RunStatusNext, DocumentNext, PTL DEF Spec

----------------------------------------------------------------------------
(***************************************************************************)
(* The event log.                                                          *)
(***************************************************************************)
StepEvents == {"step_started", "step_completed", "step_failed"}

\* Step events are about steps of the plan, the others about the run; and a
\* milestone that was announced has been passed.
LogSupport ==
    /\ \A k \in DOMAIN events :
         IF events[k].type \in StepEvents THEN events[k].step \in DOMAIN plan
                                          ELSE events[k].step = 0
    /\ Logged("planning_started", 0) => pc # "absent"
    /\ Logged("plan_created", 0) => plan # <<>>
    /\ Logged("reflection", 0) => pc \in {"finalising", "returned"}

LogInv == EventLogFaithful /\ LogSupport

\* publish adds one event at the end.
LEMMA LogGrows ==
    ASSUME events \in Seq(Event), NEW type, NEW step, publish(type, step)
    PROVE  /\ Len(events') = Len(events) + 1 /\ Len(events) \in Nat
           /\ DOMAIN events = 1 .. Len(events) /\ DOMAIN events' = 1 .. Len(events) + 1
           /\ \A k \in DOMAIN events : events'[k] = events[k]
           /\ events'[Len(events) + 1] = [type |-> type, step |-> step]
           /\ \A t, n : Logged(t, n)' <=> Logged(t, n) \/ (t = type /\ n = step)
  <1> DEFINE e == [type |-> type, step |-> step]
  <1>1. events' = Append(events, e)
    BY DEF publish
  <1>2. /\ Len(events') = Len(events) + 1 /\ Len(events) \in Nat
        /\ DOMAIN events = 1 .. Len(events) /\ DOMAIN events' = 1 .. Len(events) + 1
        /\ \A k \in DOMAIN events : events'[k] = events[k]
        /\ events'[Len(events) + 1] = e
    <2> HIDE DEF e
    <2> QED
      BY <1>1
  <1>3. ASSUME NEW t, NEW n
        PROVE  Logged(t, n)' <=> Logged(t, n) \/ (t = type /\ n = step)
    <2>1. ASSUME Logged(t, n)' PROVE Logged(t, n) \/ (t = type /\ n = step)
      <3>1. PICK k \in DOMAIN events' : events'[k] = [type |-> t, step |-> n]
        BY <2>1 DEF Logged
      <3>2. CASE k = Len(events) + 1
        BY <1>2, <3>1, <3>2
      <3>3. CASE k \in DOMAIN events
        BY <1>2, <3>1, <3>3 DEF Logged
      <3> QED
        BY <1>2, <3>2, <3>3
    <2>2. ASSUME Logged(t, n) PROVE Logged(t, n)'
      BY <1>2, <2>2 DEF Logged
    <2>3. ASSUME t = type, n = step PROVE Logged(t, n)'
      BY <1>2, <2>3 DEF Logged
    <2> QED
      BY <2>1, <2>2, <2>3
  <1> QED
    BY <1>2, <1>3

\* An event of a type and step that were not logged keeps the order, while
\* the run has not announced its end.
LEMMA OrderKept ==
    ASSUME TypeOK, LogInv, pc # "returned",
           NEW type, NEW step, publish(type, step), ~Logged(type, step),
           type = "step_started" => \A k \in DOMAIN events : events[k].step # step
    PROVE  LogOrdered'
  <1> DEFINE n == Len(events)
             e == [type |-> type, step |-> step]
  <1>1. /\ Len(events') = n + 1 /\ n \in Nat
        /\ DOMAIN events = 1 .. n /\ DOMAIN events' = 1 .. n + 1
        /\ \A k \in DOMAIN events : events'[k] = events[k]
        /\ events'[n + 1] = e
    BY LogGrows DEF TypeOK
  <1>2. \A k \in DOMAIN events : events[k] # e
    BY DEF Logged
  <1>3. \A k \in DOMAIN events : events[k].type # "run_completed"
    <2> SUFFICES ASSUME NEW k \in DOMAIN events, events[k].type = "run_completed" PROVE FALSE
      OBVIOUS
    <2>1. events[k] \in Event /\ events[k].step = 0
      BY DEF TypeOK, LogInv, LogSupport, StepEvents
    <2>2. events[k] = [type |-> "run_completed", step |-> 0]
      BY <2>1 DEF Event
    <2>3. Logged("run_completed", 0)
      BY <2>2 DEF Logged
    <2> QED
      BY <2>3 DEF LogInv, EventLogFaithful
  <1>4. ASSUME NEW j \in DOMAIN events', NEW k \in DOMAIN events'
        PROVE  /\ events'[j] = events'[k] => j = k
               /\ (events'[j].type = "step_started" /\ events'[k].step = events'[j].step)
                    => j <= k
               /\ events'[k].type = "run_completed" => k = Len(events')
    <2>1. e.type = type /\ e.step = step
      OBVIOUS
    <2>2. j \in Nat /\ k \in Nat /\ j <= n + 1 /\ k <= n + 1
      BY <1>1
    <2> HIDE DEF e
    <2>3. CASE j \in DOMAIN events /\ k \in DOMAIN events
      BY <1>1, <1>3, <2>3 DEF LogInv, EventLogFaithful, LogOrdered
    <2>4. CASE j = n + 1 /\ k \in DOMAIN events
      BY <1>1, <1>2, <1>3, <2>1, <2>2, <2>4
    <2>5. CASE j \in DOMAIN events /\ k = n + 1
      BY <1>1, <1>2, <2>1, <2>2, <2>5
    <2>6. CASE j = n + 1 /\ k = n + 1
      BY <1>1, <2>2, <2>6
    <2> QED
      BY <1>1, <2>3, <2>4, <2>5, <2>6
  <1> QED
    BY <1>4 DEF LogOrdered

\* Announcing something about the run, not about a step.
LEMMA MilestoneLogged ==
    ASSUME TypeOK, LogInv, pc # "returned", plan' = plan,
           NEW type \in EventTypes \ StepEvents, publish(type, 0), ~Logged(type, 0)
    PROVE  /\ StepsLogged' /\ LogOrdered'
           /\ \A k \in DOMAIN events' :
                IF events'[k].type \in StepEvents THEN events'[k].step \in DOMAIN plan'
                                                  ELSE events'[k].step = 0
           /\ \A t : Logged(t, 0)' <=> Logged(t, 0) \/ t = type
  <1>1. /\ DOMAIN events = 1 .. Len(events) /\ DOMAIN events' = 1 .. Len(events) + 1
        /\ \A k \in DOMAIN events : events'[k] = events[k]
        /\ events'[Len(events) + 1] = [type |-> type, step |-> 0]
        /\ \A t, n : Logged(t, n)' <=> Logged(t, n) \/ (t = type /\ n = 0)
    BY LogGrows DEF TypeOK
  <1>2. LogOrdered'
    BY OrderKept DEF StepEvents
  <1>3. StepsLogged'
    BY <1>1 DEF LogInv, EventLogFaithful, StepsLogged, StepEvents
  <1>4. ASSUME NEW k \in DOMAIN events'
        PROVE  IF events'[k].type \in StepEvents THEN events'[k].step \in DOMAIN plan'
                                                 ELSE events'[k].step = 0
    <2>1. CASE k \in DOMAIN events
      BY <1>1, <2>1 DEF LogInv, LogSupport
    <2>2. CASE k = Len(events) + 1
      BY <1>1, <2>2
    <2> QED
      BY <1>1, <2>1, <2>2
  <1> QED
    BY <1>1, <1>2, <1>3, <1>4

\* Announcing the new status of the step the executor is at.
LEMMA StepEventLogged ==
    ASSUME TypeOK, Control, LogInv, pc \in {"loop", "invoking"}, at \in DOMAIN plan,
           NEW new \in {"running", "done", "failed"}, NEW type,
           plan' = [plan EXCEPT ![at].status = new],
           \/ new = "running" /\ type = "step_started" /\ plan[at].status = "pending"
           \/ new = "done" /\ type = "step_completed" /\ plan[at].status = "running"
           \/ new = "failed" /\ type = "step_failed" /\ plan[at].status = "running",
           publish(type, plan[at].step),
           pc' \in {"loop", "synthesising", "invoking"}
    PROVE  LogInv'
  <1>1. plan[at].step = at /\ at >= 1 /\ at \in Nat /\ plan \in Seq(PlanStep) /\ plan # <<>>
    BY DEF TypeOK, Control
  <1>2. /\ DOMAIN events = 1 .. Len(events) /\ DOMAIN events' = 1 .. Len(events) + 1
        /\ \A k \in DOMAIN events : events'[k] = events[k]
        /\ events'[Len(events) + 1] = [type |-> type, step |-> at]
        /\ \A t, n : Logged(t, n)' <=> Logged(t, n) \/ (t = type /\ n = at)
    BY <1>1, LogGrows DEF TypeOK
  <1>3. /\ DOMAIN plan' = DOMAIN plan /\ Len(plan') = Len(plan)
        /\ plan'[at].status = new
        /\ \A i \in DOMAIN plan : i # at => plan'[i] = plan[i]
    BY <1>1, StatusChange DEF StepStatuses
  <1>4. ~Logged(type, at)
    BY DEF LogInv, EventLogFaithful, StepsLogged
  <1>5. ASSUME type = "step_started", NEW k \in DOMAIN events PROVE events[k].step # at
    <2> SUFFICES ASSUME events[k].step = at PROVE FALSE
      OBVIOUS
    <2>1. plan[at].status = "pending"
      BY <1>5
    <2>2. events[k].type \in StepEvents /\ events[k] \in Event
      BY <1>1 DEF LogInv, LogSupport, TypeOK
    <2>3. events[k] = [type |-> events[k].type, step |-> at]
      BY <2>2 DEF Event
    <2>4. Logged(events[k].type, at)
      BY <2>3 DEF Logged
    <2> QED
      BY <2>1, <2>2, <2>4 DEF LogInv, EventLogFaithful, StepsLogged, StepEvents
  <1>6. LogOrdered'
    BY <1>1, <1>4, <1>5, OrderKept
  <1>7. ASSUME NEW i \in DOMAIN plan'
        PROVE  /\ Logged("step_started", i)' <=> plan'[i].status # "pending"
               /\ Logged("step_completed", i)' <=> plan'[i].status = "done"
               /\ Logged("step_failed", i)' <=> plan'[i].status = "failed"
    <2>1. CASE i = at
      BY <1>2, <1>3, <2>1 DEF LogInv, EventLogFaithful, StepsLogged
    <2>2. CASE i # at
      BY <1>2, <1>3, <2>2 DEF LogInv, EventLogFaithful, StepsLogged
    <2> QED
      BY <2>1, <2>2
  <1>8. ASSUME NEW k \in DOMAIN events'
        PROVE  IF events'[k].type \in StepEvents THEN events'[k].step \in DOMAIN plan'
                                                 ELSE events'[k].step = 0
    <2>1. CASE k \in DOMAIN events
      BY <1>2, <1>3, <2>1 DEF LogInv, LogSupport
    <2>2. CASE k = Len(events) + 1
      BY <1>2, <1>3, <2>2 DEF StepEvents
    <2> QED
      BY <1>2, <2>1, <2>2
  <1>9. \A t : Logged(t, 0)' <=> Logged(t, 0)
    BY <1>1, <1>2
  <1>10. plan' # <<>>
    BY <1>1, <1>3
  <1>11. LogSupport'
    BY <1>8, <1>9, <1>10 DEF LogInv, LogSupport
  <1>12. Logged("run_completed", 0)' <=> pc' = "returned"
    BY <1>9 DEF LogInv, EventLogFaithful
  <1> QED
    BY <1>6, <1>7, <1>11, <1>12 DEF LogInv, EventLogFaithful, StepsLogged

LEMMA LogNext == TypeOK /\ Control /\ LogInv /\ [Next]_vars => LogInv'
  <1> SUFFICES ASSUME TypeOK, Control, LogInv, [Next]_vars PROVE LogInv'
    OBVIOUS
  <1>1. CASE Begin
    BY <1>1, MilestoneLogged
    DEF Begin, LogInv, LogSupport, EventLogFaithful, EventTypes, StepEvents
  <1>2. CASE PlanCreated
    <2>1. plan = <<>> /\ plan' # <<>> /\ pc = "planning" /\ pc' = "loop"
      <3>1. PICK raw \in Plans : plan' = steps_sequential(raw)
        BY <1>2 DEF PlanCreated
      <3> QED
        BY <1>2, <3>1, PlanIsFresh DEF PlanCreated, Control
    <2>2. \A i \in DOMAIN plan' : plan'[i].status = "pending" /\ i \in Nat \ {0}
      <3>1. PICK raw \in Plans : plan' = steps_sequential(raw)
        BY <1>2 DEF PlanCreated
      <3>2. raw \in Seq(RawStep) /\ DOMAIN raw = 1 .. Len(raw)
        BY PlansAssumption
      <3> QED
        BY <3>1, <3>2, PlanIsFresh
    <2>3. \A k \in DOMAIN events : events[k].type \notin StepEvents /\ events[k].step = 0
      BY <2>1 DEF LogInv, LogSupport
    <2>4. /\ DOMAIN events = 1 .. Len(events) /\ DOMAIN events' = 1 .. Len(events) + 1
          /\ \A k \in DOMAIN events : events'[k] = events[k]
          /\ events'[Len(events) + 1] = [type |-> "plan_created", step |-> 0]
          /\ \A t, n : Logged(t, n)' <=> Logged(t, n) \/ (t = "plan_created" /\ n = 0)
      BY <1>2, LogGrows DEF PlanCreated, TypeOK
    <2>5. LogOrdered'
      BY <1>2, <2>1, OrderKept DEF PlanCreated, LogInv, LogSupport
    <2>6. \A t, n : n # 0 => ~Logged(t, n)
      BY <2>3 DEF Logged
    <2>7. StepsLogged'
      BY <2>2, <2>4, <2>6 DEF StepsLogged
    <2>8. ASSUME NEW k \in DOMAIN events'
          PROVE  events'[k].type \notin StepEvents /\ events'[k].step = 0
      <3>1. CASE k \in DOMAIN events
        BY <2>3, <2>4, <3>1
      <3>2. CASE k = Len(events) + 1
        BY <2>4, <3>2 DEF StepEvents
      <3> QED
        BY <2>4, <3>1, <3>2
    <2>9. LogSupport'
      BY <2>1, <2>4, <2>8 DEF LogInv, LogSupport
    <2> QED
      BY <2>1, <2>4, <2>5, <2>7, <2>9 DEF LogInv, EventLogFaithful
  <1>3. CASE StartStep
    <2>1. /\ pc = "loop" /\ at \in DOMAIN plan /\ plan[at].status = "pending"
          /\ pc' \in {"synthesising", "invoking"}
      BY <1>3 DEF StartStep, InLoop, Control
    <2> QED
      BY <1>3, <2>1, StepEventLogged DEF StartStep
  <1>4. ASSUME pc = "invoking" PROVE at \in DOMAIN plan /\ plan[at].status = "running"
    BY <1>4 DEF Control, Working
  <1>5. CASE ContentOk
    BY <1>4, <1>5, StepEventLogged DEF ContentOk, EndStep
  <1>6. CASE BuildOk
    BY <1>4, <1>6, StepEventLogged DEF BuildOk, EndStep
  <1>7. CASE GiveUp
    BY <1>4, <1>7, StepEventLogged DEF GiveUp, EndStep
  <1>8. CASE Reflect
    <2>1. ~Logged("reflection", 0)
      BY <1>8 DEF Reflect, LogInv, LogSupport
    <2> QED
      BY <1>8, <2>1, MilestoneLogged
      DEF Reflect, LogInv, LogSupport, EventLogFaithful, EventTypes, StepEvents
  <1>9. CASE Finish
    <2>1. ~Logged("run_completed", 0)
      BY <1>9 DEF Finish, LogInv, EventLogFaithful
    <2> QED
      BY <1>9, <2>1, MilestoneLogged
      DEF Finish, LogInv, LogSupport, EventLogFaithful, EventTypes, StepEvents
  <1>10. CASE /\ UNCHANGED <<events, plan>>
              /\ pc' = pc \/ (pc # "returned" /\ pc' \in
                      {"raised", "invoking", "reflecting"} /\ pc # "finalising")
    BY <1>10 DEF LogInv, LogSupport, EventLogFaithful, StepsLogged, LogOrdered, Logged
  <1>11. \/ Begin \/ PlanCreated \/ StartStep \/ ContentOk \/ BuildOk \/ GiveUp
         \/ Reflect \/ Finish
         \/ /\ UNCHANGED <<events, plan>>
            /\ pc' = pc \/ (pc # "returned" /\ pc' \in
                    {"raised", "invoking", "reflecting"} /\ pc # "finalising")
    BY DEF Next, Resume, Execute, Synthesis, Invocation, PlanFails, SkipStep, SynthesisOk,
           SynthesisFails, AttemptFails, EndLoop, vars
  <1> QED
    BY <1>1, <1>2, <1>3, <1>5, <1>6, <1>7, <1>8, <1>9, <1>10, <1>11

\* What the log shows of every step is what the step went through, in order
\* and once, and run_completed closes it exactly when the run returned
\* (executor.py:506-525, 783-872; orchestrator.py:308-318).
THEOREM EventLogHolds == Spec => []EventLogFaithful
  <1>1. Init => LogInv
    BY DEF Init, LogInv, LogSupport, EventLogFaithful, StepsLogged, LogOrdered, Logged
  <1>2. LogInv => EventLogFaithful
    BY DEF LogInv
  <1> QED
    BY <1>1, <1>2, TypesInit, TypesNext, LogNext, PTL DEF Spec
----------------------------------------------------------------------------
(***************************************************************************)
(* The run as the event bus sees it: RunLoop implements a run of           *)
(* EventStream.  What has to be known of the code is that each step        *)
(* publishes at most two events of its own, whatever its retries, so the   *)
(* bound on a run's events is one by the length of the plan.               *)
(***************************************************************************)
AnyPlan == plan # <<>> => \E raw \in Plans : Len(raw) = Len(plan)

Published ==
    /\ pc \in {"planning", "raised"} => Len(events) = 1
    /\ pc = "absent" => events = <<>>
    /\ pc = "loop" => Len(events) <= 2 * at
    /\ Working => Len(events) <= 2 * at + 1
    /\ pc = "reflecting" => Len(events) <= 2 * Len(plan) + 2
    /\ plan # <<>> => at <= Len(plan) + 1

LEMMA PublishedNext ==
    TypeOK /\ Control /\ AnyPlan /\ Published /\ [Next]_vars => AnyPlan' /\ Published'
  <1> SUFFICES ASSUME TypeOK, Control, AnyPlan, Published, [Next]_vars
               PROVE  AnyPlan' /\ Published'
    OBVIOUS
  <1>1. /\ plan \in Seq(PlanStep) /\ at \in Nat /\ Len(plan) \in Nat
        /\ events \in Seq(Event) /\ Len(events) \in Nat /\ DOMAIN plan = 1 .. Len(plan)
    BY DEF TypeOK
  <1>2. ASSUME NEW type, NEW step, publish(type, step) PROVE Len(events') = Len(events) + 1
    BY <1>1, <1>2, LogGrows
  <1>3. CASE Begin
    BY <1>1, <1>2, <1>3 DEF Begin, Published, AnyPlan, Control, Working
  <1>4. CASE PlanFails
    BY <1>4 DEF PlanFails, Published, AnyPlan, Control, Working
  <1>5. CASE PlanCreated
    <2>1. PICK raw \in Plans : plan' = steps_sequential(raw)
      BY <1>5 DEF PlanCreated
    <2>2. Len(plan') = Len(raw) /\ Len(raw) \in Nat /\ Len(raw) >= 2
      <3>1. raw \in Seq(RawStep) /\ Len(raw) >= 2
        BY PlansAssumption
      <3>2. plan' \in Seq(PlanStep) /\ DOMAIN plan' = DOMAIN raw
        BY <2>1, PlanIsFresh
      <3> QED
        BY <3>1, <3>2
    <2>3. pc' = "loop" /\ at' = 1 /\ Len(events') = 2
      <3>1. Len(events) = 1 /\ publish("plan_created", 0)
        BY <1>5 DEF PlanCreated, Published
      <3>2. Len(events') = 2
        BY <1>2, <3>1
      <3> QED
        BY <1>5, <3>2 DEF PlanCreated
    <2> QED
      BY <2>2, <2>3 DEF AnyPlan, Published, Working
  <1>6. CASE SkipStep
    <2>1. pc = "loop" /\ pc' = pc /\ at' = at + 1 /\ at \in 1 .. Len(plan)
          /\ UNCHANGED <<plan, events>>
      BY <1>1, <1>6 DEF SkipStep, InLoop
    <2>2. Len(events') <= 2 * at' /\ at' <= Len(plan') + 1
      BY <1>1, <2>1 DEF Published
    <2> QED
      BY <2>1, <2>2 DEF Published, AnyPlan, Working
  <1>7. CASE StartStep
    <2>1. /\ pc = "loop" /\ pc' \in {"synthesising", "invoking"} /\ at' = at
          /\ at \in 1 .. Len(plan) /\ Len(plan') = Len(plan) /\ plan # <<>>
          /\ Len(events') = Len(events) + 1
      BY <1>1, <1>2, <1>7 DEF StartStep, InLoop
    <2>2. Len(events') <= 2 * at' + 1 /\ at' <= Len(plan') + 1
      BY <1>1, <2>1 DEF Published
    <2> QED
      BY <2>1, <2>2 DEF Published, AnyPlan, Working
  <1>8. CASE SynthesisOk \/ SynthesisFails \/ AttemptFails
    <2>1. /\ pc' = "invoking" /\ pc \in {"synthesising", "invoking"}
          /\ UNCHANGED <<plan, at, events>>
      BY <1>8 DEF SynthesisOk, SynthesisFails, AttemptFails
    <2> QED
      BY <2>1 DEF Published, AnyPlan, Working
  <1>9. CASE ContentOk \/ BuildOk \/ GiveUp
    <2>1. PICK outcome, type : pc = "invoking" /\ EndStep(outcome, type)
      BY <1>9 DEF ContentOk, BuildOk, GiveUp
    <2>2. /\ pc' = "loop" /\ at' = at + 1 /\ Len(plan') = Len(plan)
          /\ Len(events') = Len(events) + 1
      BY <1>1, <1>2, <2>1 DEF EndStep
    <2>3. at \in 1 .. Len(plan) /\ plan # <<>>
      BY <1>1, <2>1 DEF Control, Working
    <2>4. Len(events) <= 2 * at + 1
      BY <2>1 DEF Published, Working
    <2>5. Len(events') <= 2 * at' /\ at' <= Len(plan') + 1
      BY <1>1, <2>2, <2>3, <2>4
    <2> QED
      BY <2>2, <2>3, <2>5 DEF Published, AnyPlan, Working
  <1>10. CASE EndLoop
    <2>1. /\ pc = "loop" /\ pc' = "reflecting" /\ UNCHANGED <<plan, at, events>>
      BY <1>10 DEF EndLoop
    <2>2. Len(events) <= 2 * at /\ at <= Len(plan) + 1
      BY <2>1 DEF Published, Control
    <2>3. Len(events) <= 2 * Len(plan) + 2
      BY <1>1, <2>2
    <2> QED
      BY <2>1, <2>3 DEF Published, AnyPlan, Working
  <1>11. CASE Reflect
    BY <1>11 DEF Reflect, Published, AnyPlan, Working
  <1>12. CASE Finish
    BY <1>12 DEF Finish, Published, AnyPlan, Working
  <1>13. CASE UNCHANGED vars
    BY <1>13 DEF vars, Published, AnyPlan, Working
  <1> QED
    BY <1>3, <1>4, <1>5, <1>6, <1>7, <1>8, <1>9, <1>10, <1>11, <1>12, <1>13
    DEF Next, Resume, Execute, Synthesis, Invocation

\* Publishing is publishing: the event is the next one of this run's log, and
\* there is no queue to put it in.
LEMMA PublishMaps ==
    ASSUME events \in Seq(Event), NEW type, NEW step, publish(type, step),
           NEW last \in BOOLEAN, last <=> type = "run_completed"
    PROVE  Stream!publish(ThisRun, last)
  <1> DEFINE n == Len(events)
             e == [run |-> ThisRun, n |-> n + 1, last |-> last]
             log == [r \in {ThisRun} |-> LogOf(events)]
             new == [r \in {ThisRun} |-> LogOf(events')]
  <1>1. /\ DOMAIN events = 1 .. n /\ DOMAIN events' = 1 .. n + 1 /\ n \in Nat
        /\ \A k \in DOMAIN events : events'[k] = events[k]
        /\ events'[n + 1] = [type |-> type, step |-> step]
    BY LogGrows
  <1>2. LogOf(events) \in Seq([run : {ThisRun}, n : Nat, last : BOOLEAN])
        /\ Len(LogOf(events)) = n
    BY <1>1 DEF LogOf
  <1>3. LogOf(events') = Append(LogOf(events), e)
    <2> DEFINE T == [run : {ThisRun}, n : Nat, last : BOOLEAN]
    <2>1. /\ LogOf(events') \in Seq(T) /\ Len(LogOf(events')) = n + 1
      BY <1>1 DEF LogOf
    <2>2. e \in T
      BY <1>1
    <2>3. Append(LogOf(events), e) \in Seq(T) /\ Len(Append(LogOf(events), e)) = n + 1
      BY <1>2, <2>2
    <2>4. ASSUME NEW k \in 1 .. n + 1 PROVE LogOf(events')[k] = Append(LogOf(events), e)[k]
      <3>1. CASE k = n + 1
        <4>1. LogOf(events')[k] = [run |-> ThisRun, n |-> n + 1,
                                   last |-> type = "run_completed"]
          BY <1>1, <3>1 DEF LogOf
        <4>2. Append(LogOf(events), e)[k] = e
          BY <1>2, <3>1
        <4> QED
          BY <4>1, <4>2
      <3>2. CASE k # n + 1
        <4>1. k \in 1 .. n
          BY <1>1, <3>2
        <4>2. LogOf(events')[k] = LogOf(events)[k]
          BY <1>1, <4>1 DEF LogOf
        <4>3. Append(LogOf(events), e)[k] = LogOf(events)[k]
          BY <1>2, <4>1
        <4> QED
          BY <4>2, <4>3
      <3> QED
        BY <3>1, <3>2
    <2> QED
      BY <2>1, <2>3, <2>4, SeqEqual
  <1>4. log[ThisRun] = LogOf(events)
    OBVIOUS
  <1> HIDE DEF e
  <1>5. new = [log EXCEPT ![ThisRun] = Append(@, e)]
    BY <1>3
  <1> QED
    BY <1>2, <1>4, <1>5 DEF Stream!publish, e

\* A step of the code is a step of the run's life on the bus, or none.
LEMMA StreamNext ==
    TypeOK /\ Control /\ AnyPlan /\ Published /\ [Next]_vars
      => [Stream!Next]_(Stream!vars)
  <1> SUFFICES ASSUME TypeOK, Control, AnyPlan, Published, [Next]_vars
               PROVE  [Stream!Next]_(Stream!vars)
    OBVIOUS
  <1> DEFINE phase == [r \in {ThisRun} |-> PhaseOf(pc)]
             log == [r \in {ThisRun} |-> LogOf(events)]
             Still == UNCHANGED <<[r \in {ThisRun} |-> {}], [c \in {} |-> "idle"],
                                  [c \in {} |-> NoRun], [c \in {} |-> <<>>],
                                  [c \in {} |-> 0]>>
  <1>1. /\ events \in Seq(Event) /\ Len(events) \in Nat /\ Len(plan) \in Nat
        /\ plan \in Seq(PlanStep) /\ at \in Nat
    BY DEF TypeOK
  <1>2. phase[ThisRun] = PhaseOf(pc) /\ log[ThisRun] = LogOf(events) /\ Still
    OBVIOUS
  <1>3. Len(LogOf(events)) = Len(events)
    BY <1>1 DEF LogOf
  <1>4. ASSUME UNCHANGED events, PhaseOf(pc') = PhaseOf(pc)
        PROVE  UNCHANGED Stream!vars
    BY <1>2, <1>4 DEF Stream!vars
  <1>5. ASSUME NEW type \in EventTypes, type # "run_completed", NEW step, publish(type, step),
               PhaseOf(pc) = "executing", PhaseOf(pc') = "executing",
               Len(events) < MaxProgress
        PROVE  Stream!Next
    <2>1. Stream!publish(ThisRun, FALSE)
      BY <1>1, <1>5, PublishMaps
    <2>2. Stream!Progress(ThisRun)
      BY <1>2, <1>3, <1>5, <2>1 DEF Stream!Progress
    <2> QED
      BY <2>2 DEF Stream!Next, Stream!RunStep
  <1>6. plan # <<>> => MaxProgress \in Nat /\ MaxProgress >= 2 * Len(plan) + 3
    <2>1. ASSUME plan # <<>> PROVE \E raw \in Plans : Len(raw) = Len(plan)
      BY <2>1 DEF AnyPlan
    <2> QED
      BY <2>1, MaxProgressAssumption
  <1>7. CASE Begin
    <2>1. Stream!publish(ThisRun, FALSE)
      <3>1. publish("planning_started", 0)
        BY <1>7 DEF Begin
      <3>2. FALSE \in BOOLEAN /\ (FALSE <=> "planning_started" = "run_completed")
        OBVIOUS
      <3> QED
        BY <1>1, <3>1, <3>2, PublishMaps
    <2>2. PhaseOf(pc) = "absent" /\ PhaseOf(pc') = "executing"
      BY <1>7 DEF Begin, PhaseOf
    <2>3. [r \in {ThisRun} |-> PhaseOf(pc')] = [phase EXCEPT ![ThisRun] = "executing"]
      BY <2>2
    <2>4. Stream!CreateRun(ThisRun)
      BY <1>2, <2>1, <2>2, <2>3 DEF Stream!CreateRun
    <2> QED
      BY <2>4 DEF Stream!Next, Stream!RunStep
  <1>8. CASE PlanFails
    <2>1. PhaseOf(pc) = "executing" /\ PhaseOf(pc') = "silent" /\ UNCHANGED events
      BY <1>8 DEF PlanFails, PhaseOf
    <2>2. [r \in {ThisRun} |-> PhaseOf(pc')] = [phase EXCEPT ![ThisRun] = "silent"]
      BY <2>1
    <2>3. Len(LogOf(events)) = 1
      BY <1>3, <1>8 DEF PlanFails, Published
    <2>4. Stream!PlanningFails(ThisRun)
      BY <1>2, <2>1, <2>2, <2>3 DEF Stream!PlanningFails
    <2> QED
      BY <2>4 DEF Stream!Next, Stream!RunStep
  <1>9. CASE PlanCreated
    <2>1. PICK raw \in Plans : TRUE
      BY <1>9 DEF PlanCreated
    <2>2. MaxProgress >= 2 * Len(raw) + 3 /\ Len(raw) \in Nat /\ Len(raw) >= 2
      BY <2>1, PlansAssumption, MaxProgressAssumption
    <2>3. Len(events) < MaxProgress
      <3>1. Len(events) = 1
        BY <1>9 DEF PlanCreated, Published
      <3> QED
        BY <2>2, <3>1, MaxProgressAssumption
    <2>4. publish("plan_created", 0)
      BY <1>9 DEF PlanCreated
    <2> QED
      BY <1>5, <1>9, <2>3, <2>4 DEF PlanCreated, PhaseOf, EventTypes
  <1>10. CASE StartStep
    <2>1. at <= Len(plan) /\ plan # <<>> /\ Len(events) <= 2 * at
      BY <1>1, <1>10 DEF StartStep, InLoop, Published
    <2>2. Len(events) < MaxProgress
      BY <1>1, <1>6, <2>1
    <2>3. PhaseOf(pc) = "executing" /\ PhaseOf(pc') = "executing"
      BY <1>10 DEF StartStep, InLoop, PhaseOf
    <2>4. publish("step_started", plan[at].step)
      BY <1>10 DEF StartStep
    <2> QED
      BY <1>5, <2>2, <2>3, <2>4 DEF EventTypes
  <1>11. CASE ContentOk \/ BuildOk \/ GiveUp
    <2>1. PICK outcome \in {"done", "failed"}, type \in {"step_completed", "step_failed"} :
            pc = "invoking" /\ EndStep(outcome, type)
      BY <1>11 DEF ContentOk, BuildOk, GiveUp
    <2>2. at <= Len(plan) /\ plan # <<>> /\ Len(events) <= 2 * at + 1
      BY <1>1, <2>1 DEF Control, Working, Published
    <2>3. Len(events) < MaxProgress
      BY <1>1, <1>6, <2>2
    <2>4. PhaseOf(pc) = "executing" /\ PhaseOf(pc') = "executing"
      BY <2>1 DEF EndStep, PhaseOf
    <2>5. publish(type, plan[at].step)
      BY <2>1 DEF EndStep
    <2> QED
      BY <1>5, <2>3, <2>4, <2>5 DEF EventTypes
  <1>12. CASE Reflect
    <2>1. plan # <<>> /\ Len(events) <= 2 * Len(plan) + 2
      BY <1>12 DEF Reflect, Control, Published
    <2>2. Len(events) < MaxProgress
      BY <1>1, <1>6, <2>1
    <2>3. PhaseOf(pc) = "executing" /\ PhaseOf(pc') = "executing"
      BY <1>12 DEF Reflect, PhaseOf
    <2>4. publish("reflection", 0)
      BY <1>12 DEF Reflect
    <2> QED
      BY <1>5, <2>2, <2>3, <2>4 DEF EventTypes
  <1>13. CASE Finish
    <2>1. Stream!publish(ThisRun, TRUE)
      BY <1>1, <1>13, PublishMaps DEF Finish
    <2>2. PhaseOf(pc) = "executing" /\ PhaseOf(pc') = "completed"
      BY <1>13 DEF Finish, PhaseOf
    <2>3. [r \in {ThisRun} |-> PhaseOf(pc')] = [phase EXCEPT ![ThisRun] = "completed"]
      BY <2>2
    <2>4. Stream!CompleteRun(ThisRun)
      BY <1>2, <2>1, <2>2, <2>3 DEF Stream!CompleteRun
    <2> QED
      BY <2>4 DEF Stream!Next, Stream!RunStep
  <1>14. CASE SkipStep \/ SynthesisOk \/ SynthesisFails \/ AttemptFails \/ EndLoop
    BY <1>4, <1>14
    DEF SkipStep, InLoop, SynthesisOk, SynthesisFails, AttemptFails, EndLoop, PhaseOf
  <1>15. CASE UNCHANGED vars
    BY <1>4, <1>15 DEF vars
  <1> QED
    BY <1>7, <1>8, <1>9, <1>10, <1>11, <1>12, <1>13, <1>14, <1>15
    DEF Next, Resume, Execute, Synthesis, Invocation

\* What EventStream assumes of a run is what execute_run does: every theorem
\* about its clients holds for the events this orchestrator publishes
\* (orchestrator.py:240-318).
THEOREM StreamRefined == Spec => StreamSpec
  <1>1. Init => Stream!Init
    <2> SUFFICES ASSUME Init PROVE Stream!Init
      OBVIOUS
    <2>1. PhaseOf(pc) = "absent" /\ LogOf(events) = <<>>
      BY DEF Init, PhaseOf, LogOf
    <2> QED
      BY <2>1 DEF Stream!Init
  <1>2. Init => AnyPlan /\ Published
    BY DEF Init, AnyPlan, Published, Working
  <1> QED
    BY <1>1, <1>2, TypesInit, TypesNext, PublishedNext, StreamNext, PTL
    DEF Spec, StreamSpec, Stream!Spec

----------------------------------------------------------------------------
(***************************************************************************)
(* A run comes to its end: how many steps it still has at most.  A turn of *)
(* the loop is the start of a step, a synthesis, and an end or a raise for *)
(* each attempt.                                                           *)
(***************************************************************************)
Turn == MaxAttempts + 2

StepsLeft ==
    CASE pc = "loop" -> (Len(plan) + 1 - at) * Turn + 3
      [] pc = "synthesising" -> (Len(plan) - at) * Turn + MaxAttempts + 4
      [] pc = "invoking" -> (Len(plan) - at) * Turn + MaxAttempts + 4 - attempt
      [] pc = "reflecting" -> 2
      [] pc = "finalising" -> 1
      [] OTHER -> 0

InTurn ==
    /\ plan # <<>> => at <= Len(plan) + 1
    /\ Working => attempt >= 1

LEMMA TurnsLeft ==
    ASSUME NEW n \in Nat
    PROVE  n * Turn \in Nat /\ (n + 1) * Turn = n * Turn + MaxAttempts + 2
  BY MaxAttemptsAssumption DEF Turn

LEMMA StepsLeftTyped == TypeOK /\ Control /\ InTurn => StepsLeft \in Nat
  <1> SUFFICES ASSUME TypeOK, Control, InTurn PROVE StepsLeft \in Nat
    OBVIOUS
  <1>1. attempt \in Nat /\ attempt <= MaxAttempts /\ MaxAttempts \in Nat
    BY MaxAttemptsAssumption DEF TypeOK
  <1>2. at \in Nat /\ Len(plan) \in Nat
    BY DEF TypeOK
  <1>3. CASE pc = "loop"
    <2>1. Len(plan) + 1 - at \in Nat
      BY <1>2, <1>3 DEF InTurn, Control
    <2> QED
      BY <1>3, <2>1, TurnsLeft DEF StepsLeft
  <1>4. CASE Working
    <2>1. Len(plan) - at \in Nat
      BY <1>2, <1>4 DEF Control, TypeOK
    <2>2. (Len(plan) - at) * Turn \in Nat
      BY <2>1, TurnsLeft
    <2> DEFINE m == (Len(plan) - at) * Turn
    <2>3. StepsLeft = m + MaxAttempts + 4 \/ StepsLeft = m + MaxAttempts + 4 - attempt
      BY <1>4 DEF StepsLeft, Working
    <2> HIDE DEF m
    <2>4. m \in Nat
      BY <2>2 DEF m
    <2> QED
      BY <1>1, <2>3, <2>4
  <1> QED
    BY <1>3, <1>4 DEF StepsLeft, Working

\* The end of a turn: the next one begins, one step nearer to the end.
LEMMA TurnOver ==
    ASSUME TypeOK, Control, InTurn, InLoop \/ Working,
           pc' = "loop", at' = at + 1, Len(plan') = Len(plan), attempt' = attempt
    PROVE  StepsLeft' < StepsLeft /\ InTurn'
  <1> DEFINE n == Len(plan) - at
             m == n * Turn
  <1>1. /\ at \in Nat /\ Len(plan) \in Nat /\ at <= Len(plan) /\ n \in Nat
        /\ Len(plan) + 1 - at = n + 1 /\ Len(plan') + 1 - at' = n
    BY DEF TypeOK, Control, InLoop
  <1>2. m \in Nat /\ (n + 1) * Turn = m + MaxAttempts + 2
    BY <1>1, TurnsLeft
  <1>3. StepsLeft' = m + 3
    BY <1>1 DEF StepsLeft, Turn
  <1>4. \/ StepsLeft = (n + 1) * Turn + 3
        \/ StepsLeft = m + MaxAttempts + 4
        \/ StepsLeft = m + MaxAttempts + 4 - attempt
    BY <1>1 DEF StepsLeft, InLoop, Working
  <1>5. attempt \in Nat /\ attempt <= MaxAttempts /\ MaxAttempts \in Nat
    BY MaxAttemptsAssumption DEF TypeOK
  <1> HIDE DEF n, m
  <1>6. StepsLeft' < StepsLeft
    BY <1>2, <1>3, <1>4, <1>5
  <1>7. InTurn'
    BY <1>1 DEF InTurn, Working
  <1> QED
    BY <1>6, <1>7

LEMMA StepsLeftNext ==
    TypeOK /\ Control /\ InTurn /\ [Next]_vars
        => InTurn' /\ (plan # <<>> /\ vars' # vars => StepsLeft' < StepsLeft)
  <1> SUFFICES ASSUME TypeOK, Control, InTurn, [Next]_vars
               PROVE  InTurn' /\ (plan # <<>> /\ vars' # vars => StepsLeft' < StepsLeft)
    OBVIOUS
  <1> DEFINE m == (Len(plan) - at) * Turn
  <1>1. MaxAttempts \in Nat \ {0} /\ attempt \in 0 .. MaxAttempts /\ at \in Nat /\ Len(plan) \in Nat
    BY MaxAttemptsAssumption DEF TypeOK
  <1>2. ASSUME InLoop \/ Working
        PROVE  m \in Nat /\ (Len(plan) + 1 - at) * Turn = m + MaxAttempts + 2
    <2>1. Len(plan) - at \in Nat /\ Len(plan) + 1 - at = (Len(plan) - at) + 1
      BY <1>1, <1>2 DEF InLoop, Control, TypeOK
    <2> QED
      BY <2>1, TurnsLeft
  <1>3. ASSUME NEW s, plan' = [plan EXCEPT ![at].status = s] PROVE Len(plan') = Len(plan)
    BY <1>3 DEF TypeOK
  <1>4. CASE Begin
    BY <1>4 DEF Begin, InTurn, Control, Working
  <1>5. CASE PlanFails
    BY <1>5 DEF PlanFails, InTurn, Control, Working
  <1>6. CASE PlanCreated
    <2>1. plan = <<>> /\ at' = 1 /\ pc' = "loop"
      BY <1>6 DEF PlanCreated, Control
    <2>2. Len(plan') \in Nat
      BY <1>6, PlanIsFresh DEF PlanCreated
    <2> QED
      BY <2>1, <2>2 DEF InTurn, Working
  <1>7. CASE SkipStep
    <2>1. /\ InLoop /\ pc' = "loop" /\ at' = at + 1 /\ plan' = plan /\ attempt' = attempt
      BY <1>7 DEF SkipStep, InLoop
    <2> QED
      BY <2>1, TurnOver
  <1>8. CASE StartStep
    <2>1. /\ pc = "loop" /\ pc' \in {"synthesising", "invoking"} /\ at' = at /\ attempt' = 1
          /\ Len(plan') = Len(plan) /\ at \in DOMAIN plan
      BY <1>3, <1>8 DEF StartStep, InLoop
    <2>2. StepsLeft = (Len(plan) + 1 - at) * Turn + 3
      BY <2>1 DEF StepsLeft
    <2>3. StepsLeft' = m + MaxAttempts + 4 \/ StepsLeft' = m + MaxAttempts + 4 - 1
      BY <2>1 DEF StepsLeft, Turn
    <2>4. InTurn'
      BY <1>1, <2>1 DEF InTurn, Working, TypeOK
    <2>5. InLoop
      BY <2>1 DEF InLoop
    <2> HIDE DEF m
    <2> QED
      BY <1>1, <1>2, <2>2, <2>3, <2>4, <2>5
  <1>9. CASE Synthesis
    <2>1. /\ pc = "synthesising" /\ pc' = "invoking"
          /\ UNCHANGED <<at, plan, attempt>> /\ attempt >= 1
      BY <1>9 DEF Synthesis, SynthesisOk, SynthesisFails, InTurn, Working
    <2>2. StepsLeft = m + MaxAttempts + 4 /\ StepsLeft' = m + MaxAttempts + 4 - attempt
      BY <2>1 DEF StepsLeft, Turn
    <2>3. InTurn' /\ m \in Nat
      BY <1>2, <2>1 DEF InTurn, Working
    <2> HIDE DEF m
    <2> QED
      BY <1>1, <2>1, <2>2, <2>3
  <1>10. CASE ContentOk \/ BuildOk \/ GiveUp
    <2>1. /\ pc = "invoking" /\ pc' = "loop" /\ at' = at + 1 /\ attempt' = attempt
          /\ \E s \in StepStatuses : plan' = [plan EXCEPT ![at].status = s]
      BY <1>10 DEF ContentOk, BuildOk, GiveUp, EndStep, StepStatuses
    <2> QED
      BY <1>3, <2>1, TurnOver DEF Working
  <1>11. CASE AttemptFails
    <2>1. /\ pc = "invoking" /\ pc' = "invoking" /\ attempt' = attempt + 1
          /\ UNCHANGED <<at, plan>> /\ attempt < MaxAttempts
      BY <1>11 DEF AttemptFails
    <2>2. StepsLeft = m + MaxAttempts + 4 - attempt
      BY <2>1 DEF StepsLeft
    <2>3. StepsLeft' = m + MaxAttempts + 4 - (attempt + 1)
      BY <2>1 DEF StepsLeft, Turn
    <2>4. InTurn' /\ m \in Nat
      BY <1>1, <1>2, <2>1 DEF InTurn, Working
    <2> HIDE DEF m
    <2> QED
      BY <1>1, <2>1, <2>2, <2>3, <2>4
  <1>12. CASE EndLoop
    <2>1. /\ pc = "loop" /\ pc' = "reflecting" /\ UNCHANGED <<at, plan>>
          /\ plan # <<>> /\ at \notin DOMAIN plan
      BY <1>12 DEF EndLoop, Control
    <2>2. Len(plan) + 1 - at \in Nat
      BY <1>1, <2>1 DEF InTurn
    <2>3. StepsLeft = (Len(plan) + 1 - at) * Turn + 3 /\ StepsLeft' = 2
      BY <2>1 DEF StepsLeft
    <2>4. (Len(plan) + 1 - at) * Turn \in Nat
      BY <2>2, TurnsLeft
    <2>5. InTurn'
      BY <2>1 DEF InTurn, Working
    <2> QED
      BY <2>3, <2>4, <2>5
  <1>13. CASE Reflect
    BY <1>13 DEF Reflect, StepsLeft, InTurn, Working
  <1>14. CASE Finish
    BY <1>14 DEF Finish, StepsLeft, InTurn, Working
  <1>15. CASE UNCHANGED vars
    BY <1>15 DEF vars, InTurn, Working
  <1> QED
    BY <1>4, <1>5, <1>6, <1>7, <1>8, <1>9, <1>10, <1>11, <1>12, <1>13, <1>14, <1>15
    DEF Next, Resume, Execute, Invocation

\* Once planned, a run is over after at most (MaxAttempts + 2) * Len(plan) + 3 steps
\* of execute_run, whatever fails: the loop visits a step once and retries are
\* counted (executor.py:393-443, 734-760), so no run is for ever on its way.
THEOREM RunShortens ==
    Spec => [](StepsLeft \in Nat) /\ [][plan # <<>> => StepsLeft' < StepsLeft]_vars
  <1>1. Init => InTurn
    BY DEF Init, InTurn, Working
  <1>2. TypeOK /\ Control /\ InTurn /\ [Next]_vars
            => [plan # <<>> => StepsLeft' < StepsLeft]_vars
    BY StepsLeftNext
  <1> QED
    BY <1>1, <1>2, TypesInit, TypesNext, StepsLeftNext, StepsLeftTyped, PTL DEF Spec
=============================================================================
