-------------------------- MODULE EventStreamProofs --------------------------
(***************************************************************************)
(* Proofs about EventStream, for every set of runs and clients and every   *)
(* bound: types, the partition of the log, exact subscriber lists, and the *)
(* implementation of RunFeed.                                              *)
(***************************************************************************)
EXTENDS EventStream, SequenceTheorems, TLAPS

----------------------------------------------------------------------------
(***************************************************************************)
(* Sequence lemmas: moving an element across the boundary between two      *)
(* parts, and appending to the last of three parts.                        *)
(***************************************************************************)

\* Sending the head of what is left moves it, and changes nothing overall.
LEMMA MoveHead ==
    ASSUME NEW S, NEW s \in Seq(S), NEW t \in Seq(S), t # <<>>
    PROVE  /\ Append(s, Head(t)) \in Seq(S)
           /\ Tail(t) \in Seq(S)
           /\ Append(s, Head(t)) \o Tail(t) = s \o t
  OBVIOUS

\* As MoveHead, with a third part behind the second.
LEMMA MoveHeadMiddle ==
    ASSUME NEW s \in Seq(Event), NEW t \in Seq(Event), NEW u \in Seq(Event), t # <<>>
    PROVE  (Append(s, Head(t)) \o Tail(t)) \o u = (s \o t) \o u
  <1>1. Append(s, Head(t)) \o Tail(t) = s \o t
    BY MoveHead
  <1> QED
    BY <1>1

\* Three parts read as a first part and the rest.
LEMMA PartsAssociative ==
    ASSUME NEW s \in Seq(Event), NEW t \in Seq(Event), NEW u \in Seq(Event)
    PROVE  t \o u \in Seq(Event) /\ (s \o t) \o u = s \o (t \o u)
  OBVIOUS

\* Appending to the third part appends to the whole.
LEMMA AppendLast ==
    ASSUME NEW S, NEW s \in Seq(S), NEW t \in Seq(S), NEW u \in Seq(S), NEW e \in S
    PROVE  (s \o t) \o Append(u, e) = Append((s \o t) \o u, e)
  <1>1. s \o t \in Seq(S)
    BY ConcatProperties
  <1> QED
    BY <1>1

\* What comes first in a non-empty first part comes first overall.
LEMMA HeadOfParts ==
    ASSUME NEW s \in Seq(Event), NEW t \in Seq(Event), s # <<>>
    PROVE  s \o t # <<>> /\ Head(s \o t) = Head(s)
  OBVIOUS

\* The element after the first part is the head of the rest.
LEMMA NextOfParts ==
    ASSUME NEW S, NEW s \in Seq(S), NEW t \in Seq(S), t # <<>>
    PROVE  /\ Len(s) < Len(s \o t)
           /\ (s \o t)[Len(s) + 1] = Head(t)
  OBVIOUS

----------------------------------------------------------------------------
(***************************************************************************)
(* Type correctness.                                                       *)
(***************************************************************************)

\* EventBus.publish builds an event and keeps the types of log and queue.
LEMMA PublishType ==
    ASSUME TypeOK, NEW r \in Runs, NEW last \in BOOLEAN, publish(r, last)
    PROVE  /\ log' \in [Runs -> Seq(Event)]
           /\ queue' \in [Clients -> Seq(Event)]
  <1> DEFINE e == [run |-> r, n |-> Len(log[r]) + 1, last |-> last]
  <1>1. e \in Event
    BY DEF TypeOK, Event
  <1>2. \A c \in Clients : Append(queue[c], e) \in Seq(Event)
    BY <1>1 DEF TypeOK
  <1>3. log' \in [Runs -> Seq(Event)]
    BY <1>1 DEF TypeOK, publish
  <1>4. queue' \in [Clients -> Seq(Event)]
    BY <1>2 DEF TypeOK, publish
  <1> QED
    BY <1>3, <1>4

\* A started or accepted request is about a run.
Watching == \A c \in Clients : pc[c] \in Open => watch[c] \in Runs

\* Every step keeps the types, and every open request is about a run.
LEMMA TypeStep == TypeOK /\ Watching /\ [Next]_vars => TypeOK' /\ Watching'
  <1> SUFFICES ASSUME TypeOK, Watching, [Next]_vars
               PROVE  TypeOK' /\ Watching'
    OBVIOUS
  <1> USE DEF TypeOK, Watching, Open, Started, Places
  <1>1. ASSUME NEW r \in Runs, RunStep(r)
        PROVE  TypeOK' /\ Watching'
    <2>1. CASE CreateRun(r)
      BY <2>1, PublishType DEF CreateRun, Phases
    <2>2. CASE Progress(r)
      BY <2>2, PublishType DEF Progress
    <2>3. CASE CompleteRun(r)
      BY <2>3, PublishType DEF CompleteRun, Phases
    <2>4. CASE PlanningFails(r)
      BY <2>4 DEF PlanningFails, Phases
    <2> QED
      BY <1>1, <2>1, <2>2, <2>3, <2>4 DEF RunStep
  <1>2. ASSUME NEW c \in Clients, Serve(c)
        PROVE  TypeOK' /\ Watching'
    <2>1. CASE Start(c)
      <3>1. log[watch[c]] \in Seq(Event) /\ <<>> \in Seq(Event)
        BY <2>1 DEF Start
      <3> QED
        BY <2>1, <3>1 DEF Start, subscribe, runVars
    <2>2. CASE YieldBuffered(c)
      <3>1. /\ Append(frames[c], Head(replay[c])) \in Seq(Event)
            /\ Tail(replay[c]) \in Seq(Event)
        BY <2>2, MoveHead DEF YieldBuffered
      <3> QED
        BY <2>2, <3>1 DEF YieldBuffered, Send, runVars
    <2>3. CASE AwaitLive(c)
      BY <2>3 DEF AwaitLive, runVars
    <2>4. CASE YieldLive(c)
      <3>1. /\ Append(frames[c], Head(queue[c])) \in Seq(Event)
            /\ Tail(queue[c]) \in Seq(Event)
        BY <2>4, MoveHead DEF YieldLive
      <3> QED
        BY <2>4, <3>1 DEF YieldLive, Send, runVars
    <2>5. CASE KeepAlive(c)
      BY <2>5 DEF KeepAlive, runVars
    <2>6. CASE Return(c)
      BY <2>6 DEF Return, Finally, unsubscribe, runVars
    <2> QED
      BY <1>2, <2>1, <2>2, <2>3, <2>4, <2>5, <2>6 DEF Serve
  <1>3. ASSUME NEW c \in Clients, ClientStep(c)
        PROVE  TypeOK' /\ Watching'
    <2>1. ASSUME NEW r \in Runs, stream_agent_run(c, r)
          PROVE  TypeOK' /\ Watching'
      BY <2>1 DEF stream_agent_run, runVars
    <2>2. CASE Disconnect(c)
      BY <2>2 DEF Disconnect, Finally, unsubscribe, runVars
    <2>3. CASE Abandon(c)
      BY <2>3 DEF Abandon, runVars
    <2> QED
      BY <1>3, <2>1, <2>2, <2>3 DEF ClientStep
  <1>4. CASE UNCHANGED vars
    BY <1>4 DEF vars
  <1> QED
    BY <1>1, <1>2, <1>3, <1>4 DEF Next

\* Initially nothing is known, queued or sent.
LEMMA TypeInit == Init => TypeOK /\ Watching
  BY EmptySeq DEF Init, TypeOK, Watching, Open, Started, Places, Phases

\* The variables of the bus and of every stream keep their types.
THEOREM TypeCorrect == Spec => []TypeOK
  <1>1. Spec => [](TypeOK /\ Watching)
    BY TypeInit, TypeStep, PTL DEF Spec
  <1> QED
    BY <1>1, PTL

----------------------------------------------------------------------------
(***************************************************************************)
(* The inductive invariant.  Partition alone is not inductive: that a      *)
(* publication reaches a started client's queue, and no other's, is what   *)
(* SubscribersExact says; that the live queue is read only after the       *)
(* snapshot is ReplayFirst; that a run is silent after its terminal event  *)
(* is LogEnds.                                                             *)
(***************************************************************************)
LogEnds ==
    \A r \in Runs : \A i \in 1 .. Len(log[r]) :
        log[r][i].last => i = Len(log[r]) /\ phase[r] = "completed"

ReplayFirst == \A c \in Clients : pc[c] = "waiting" => replay[c] = <<>>

IInv == TypeOK /\ Watching /\ SubscribersExact /\ LogEnds /\ ReplayFirst /\ Partition

\* The invariant holds before the first run and the first client.
LEMMA InvInit == Init => IInv
  BY TypeInit, EmptySeq
     DEF Init, IInv, SubscribersExact, LogEnds, ReplayFirst, Partition, Started

\* Registration follows the generator: in at Start, out at Finally.
LEMMA SubscribersStep ==
    IInv /\ [Next]_vars => SubscribersExact'
  <1> SUFFICES ASSUME IInv, [Next]_vars
               PROVE  SubscribersExact'
    OBVIOUS
  <1> USE DEF IInv, TypeOK, Watching, SubscribersExact, Open, Started, runVars
  <1>1. ASSUME NEW r \in Runs, RunStep(r)
        PROVE  SubscribersExact'
    <2>1. UNCHANGED <<subs, pc, watch>>
      BY <1>1 DEF RunStep, CreateRun, Progress, CompleteRun, PlanningFails
    <2> QED
      BY <2>1
  <1>2. ASSUME NEW c \in Clients, Serve(c)
        PROVE  SubscribersExact'
    <2>1. CASE Start(c)
      BY <2>1 DEF Start, subscribe
    <2>2. CASE YieldBuffered(c)
      BY <2>2 DEF YieldBuffered
    <2>3. CASE AwaitLive(c)
      BY <2>3 DEF AwaitLive
    <2>4. CASE YieldLive(c)
      BY <2>4 DEF YieldLive
    <2>5. CASE KeepAlive(c)
      BY <2>5 DEF KeepAlive
    <2>6. CASE Return(c)
      BY <2>6 DEF Return, Finally, unsubscribe
    <2> QED
      BY <1>2, <2>1, <2>2, <2>3, <2>4, <2>5, <2>6 DEF Serve
  <1>3. ASSUME NEW c \in Clients, ClientStep(c)
        PROVE  SubscribersExact'
    <2>1. ASSUME NEW r \in Runs, stream_agent_run(c, r)
          PROVE  SubscribersExact'
      BY <2>1 DEF stream_agent_run
    <2>2. CASE Disconnect(c)
      BY <2>2 DEF Disconnect, Finally, unsubscribe
    <2>3. CASE Abandon(c)
      BY <2>3 DEF Abandon
    <2> QED
      BY <1>3, <2>1, <2>2, <2>3 DEF ClientStep
  <1>4. CASE UNCHANGED vars
    BY <1>4 DEF vars
  <1> QED
    BY <1>1, <1>2, <1>3, <1>4 DEF Next

\* A run that is executing has published no terminal event.
LEMMA LogEndsStep == IInv /\ [Next]_vars => LogEnds'
  <1> SUFFICES ASSUME IInv, [Next]_vars
               PROVE  LogEnds'
    OBVIOUS
  <1> USE DEF IInv, TypeOK, LogEnds
  <1>1. ASSUME NEW r \in Runs, RunStep(r)
        PROVE  LogEnds'
    <2> DEFINE e(last) == [run |-> r, n |-> Len(log[r]) + 1, last |-> last]
    <2>1. ASSUME NEW last \in BOOLEAN, publish(r, last), phase[r] # "completed",
                 phase' \in [Runs -> Phases],
                 \A q \in Runs \ {r} : phase'[q] = phase[q],
                 last => phase'[r] = "completed"
          PROVE  LogEnds'
      <3>1. e(last) \in Event
        BY DEF Event
      <3>2. log' = [log EXCEPT ![r] = Append(@, e(last))]
        BY <2>1 DEF publish
      <3> HIDE DEF e
      <3>3. /\ Len(log'[r]) = Len(log[r]) + 1
            /\ \A i \in 1 .. Len(log[r]) : log'[r][i] = log[r][i]
            /\ log'[r][Len(log[r]) + 1] = e(last)
        BY <3>1, <3>2, AppendProperties
      <3>4. \A i \in 1 .. Len(log[r]) : ~log[r][i].last
        BY <2>1
      <3>5. e(last).last = last
        BY DEF e
      <3>6. \A i \in 1 .. Len(log'[r]) :
               log'[r][i].last => i = Len(log'[r]) /\ phase'[r] = "completed"
        <4> TAKE i \in 1 .. Len(log'[r])
        <4>1. Len(log[r]) \in Nat
          BY LenProperties
        <4>2. i \in 1 .. Len(log[r]) \/ i = Len(log[r]) + 1
          BY <3>3, <4>1
        <4>3. CASE i \in 1 .. Len(log[r])
          BY <4>3, <3>3, <3>4
        <4>4. CASE i = Len(log[r]) + 1
          BY <4>4, <2>1, <3>3, <3>5
        <4> QED
          BY <4>2, <4>3, <4>4
      <3>7. \A q \in Runs \ {r} : log'[q] = log[q] /\ phase'[q] = phase[q]
        BY <2>1, <3>2
      <3> QED
        BY <3>6, <3>7
    <2>2. CASE CreateRun(r)
      BY <2>2, <2>1 DEF CreateRun, Phases
    <2>3. CASE Progress(r)
      BY <2>3, <2>1 DEF Progress
    <2>4. CASE CompleteRun(r)
      BY <2>4, <2>1 DEF CompleteRun, Phases
    <2>5. CASE PlanningFails(r)
      BY <2>5 DEF PlanningFails
    <2> QED
      BY <1>1, <2>2, <2>3, <2>4, <2>5 DEF RunStep
  <1>2. CASE UNCHANGED runVars
    BY <1>2 DEF runVars
  <1>3. ASSUME NEW c \in Clients, Serve(c) \/ ClientStep(c)
        PROVE  UNCHANGED runVars
    BY <1>3 DEF Serve, ClientStep, Start, YieldBuffered, AwaitLive, YieldLive, KeepAlive,
                Return, Disconnect, Finally, Abandon, stream_agent_run
  <1> QED
    BY <1>1, <1>2, <1>3 DEF Next, vars, runVars

\* The generator goes to wait only with its snapshot used up.
LEMMA ReplayFirstStep == IInv /\ [Next]_vars => ReplayFirst'
  <1> SUFFICES ASSUME IInv, [Next]_vars
               PROVE  ReplayFirst'
    OBVIOUS
  <1> USE DEF IInv, TypeOK, ReplayFirst, Open, Started, runVars
  <1>1. ASSUME NEW r \in Runs, RunStep(r)
        PROVE  ReplayFirst'
    <2>1. UNCHANGED <<pc, replay>>
      BY <1>1 DEF RunStep, CreateRun, Progress, CompleteRun, PlanningFails
    <2> QED
      BY <2>1
  <1>2. ASSUME NEW c \in Clients, Serve(c)
        PROVE  ReplayFirst'
    BY <1>2 DEF Serve, Start, YieldBuffered, AwaitLive, YieldLive, KeepAlive, Return, Finally
  <1>3. ASSUME NEW c \in Clients, ClientStep(c)
        PROVE  ReplayFirst'
    BY <1>3 DEF ClientStep, Disconnect, Finally, Abandon, stream_agent_run
  <1>4. CASE UNCHANGED vars
    BY <1>4 DEF vars
  <1> QED
    BY <1>1, <1>2, <1>3, <1>4 DEF Next

\* A publication extends the log and the queues of its run alike.
LEMMA PartitionPublish ==
    ASSUME IInv, NEW r \in Runs, NEW last \in BOOLEAN, publish(r, last),
           UNCHANGED <<pc, watch, replay, frames>>
    PROVE  Partition'
  <1> USE DEF IInv, TypeOK
  <1> DEFINE e == [run |-> r, n |-> Len(log[r]) + 1, last |-> last]
  <1>1. e \in Event
    BY DEF Event
  <1>2. /\ log' = [log EXCEPT ![r] = Append(@, e)]
        /\ queue' = [c \in Clients |->
                       IF c \in subs[r] THEN Append(queue[c], e) ELSE queue[c]]
    BY DEF publish
  <1> HIDE DEF e
  <1> SUFFICES ASSUME NEW c \in Clients, pc[c] \in Started
               PROVE  (frames[c] \o replay[c]) \o queue'[c] = log'[watch[c]]
    BY DEF Partition
  <1>3. /\ watch[c] \in Runs
        /\ (frames[c] \o replay[c]) \o queue[c] = log[watch[c]]
        /\ c \in subs[r] <=> watch[c] = r
    BY DEF Watching, Open, Partition, SubscribersExact
  <1>4. CASE watch[c] = r
    <2>1. queue'[c] = Append(queue[c], e) /\ log'[watch[c]] = Append(log[r], e)
      BY <1>2, <1>3, <1>4
    <2>2. (frames[c] \o replay[c]) \o Append(queue[c], e)
            = Append((frames[c] \o replay[c]) \o queue[c], e)
      BY <1>1, AppendLast
    <2> QED
      BY <2>1, <2>2, <1>3, <1>4
  <1>5. CASE watch[c] # r
    BY <1>2, <1>3, <1>5
  <1> QED
    BY <1>4, <1>5

\* A step of a client moves the boundaries of its own partition at most.
LEMMA PartitionClient ==
    ASSUME IInv, NEW c \in Clients, Serve(c) \/ ClientStep(c)
    PROVE  Partition'
  <1> DEFINE Parts(k) == (frames[k] \o replay[k]) \o queue[k] = log[watch[k]]
  <1>1. /\ UNCHANGED log
        /\ \A k \in Clients \ {c} : /\ frames'[k] = frames[k] /\ replay'[k] = replay[k]
                                    /\ queue'[k] = queue[k] /\ watch'[k] = watch[k]
                                    /\ pc'[k] = pc[k]
    BY DEF IInv, TypeOK, runVars, Serve, ClientStep, Start, YieldBuffered, AwaitLive, YieldLive, KeepAlive, Send,
           Return, Disconnect, Finally, Abandon, stream_agent_run
  <1>2. SUFFICES ASSUME pc'[c] \in Started
                 PROVE  (frames'[c] \o replay'[c]) \o queue'[c] = log[watch'[c]]
    BY <1>1 DEF Partition, IInv
  <1>3. pc[c] \in Started => Parts(c)
    BY DEF Partition, IInv
  <1> HIDE DEF Parts
  <1>t. /\ frames \in [Clients -> Seq(Event)] /\ replay \in [Clients -> Seq(Event)]
        /\ queue \in [Clients -> Seq(Event)] /\ log \in [Runs -> Seq(Event)]
        /\ pc \in [Clients -> Places]
    BY DEF IInv, TypeOK
  <1>4. CASE Start(c)
    <2>1. log[watch[c]] \in Seq(Event)
      BY <1>4, <1>t DEF Start, Watching, Open, IInv
    <2>2. /\ frames'[c] = <<>> /\ queue'[c] = <<>>
          /\ replay'[c] = log[watch[c]] /\ watch'[c] = watch[c]
      BY <1>4, <1>t DEF Start
    <2> QED
      BY <2>1, <2>2, ConcatEmptySeq
  <1>5. CASE YieldBuffered(c)
    <2>1. /\ frames'[c] = Append(frames[c], Head(replay[c]))
          /\ replay'[c] = Tail(replay[c])
          /\ UNCHANGED <<queue, watch>>
          /\ Parts(c)
      BY <1>3, <1>5, <1>t DEF YieldBuffered, Send, Started
    <2>2. /\ frames[c] \in Seq(Event) /\ replay[c] \in Seq(Event) /\ queue[c] \in Seq(Event)
          /\ replay[c] # <<>>
      BY <1>5, <1>t DEF YieldBuffered
    <2>3. (Append(frames[c], Head(replay[c])) \o Tail(replay[c])) \o queue[c]
            = (frames[c] \o replay[c]) \o queue[c]
      BY <2>2, MoveHeadMiddle
    <2> QED
      BY <1>1, <2>1, <2>3 DEF Parts
  <1>6. CASE YieldLive(c)
    <2>1. /\ frames'[c] = Append(frames[c], Head(queue[c]))
          /\ queue'[c] = Tail(queue[c])
          /\ UNCHANGED <<replay, watch>>
          /\ replay[c] = <<>>
          /\ Parts(c)
      BY <1>3, <1>6, <1>t DEF YieldLive, Send, Started, ReplayFirst, IInv
    <2>2. frames[c] \in Seq(Event) /\ queue[c] \in Seq(Event) /\ queue[c] # <<>>
      BY <1>6, <1>t DEF YieldLive
    <2>3. /\ Append(frames[c], Head(queue[c])) \in Seq(Event)
          /\ Append(frames[c], Head(queue[c])) \o Tail(queue[c]) = frames[c] \o queue[c]
      BY <2>2, MoveHead
    <2>4. /\ frames[c] \o <<>> = frames[c]
          /\ Append(frames[c], Head(queue[c])) \o <<>> = Append(frames[c], Head(queue[c]))
      BY <2>2, <2>3, ConcatEmptySeq
    <2> QED
      BY <1>1, <2>1, <2>3, <2>4 DEF Parts
  <1>7. CASE AwaitLive(c) \/ KeepAlive(c)
    BY <1>1, <1>3, <1>7 DEF AwaitLive, KeepAlive, Started, Parts, runVars
  <1>8. CASE Return(c) \/ ClientStep(c)
    <2>1. ASSUME NEW r \in Runs, stream_agent_run(c, r)
          PROVE  pc'[c] \notin Started
      BY <2>1, <1>t DEF stream_agent_run, Started
    <2>2. ASSUME Finally(c) \/ Abandon(c)
          PROVE  pc'[c] \notin Started
      BY <2>2, <1>t DEF Finally, Abandon, Started
    <2> QED
      BY <1>2, <1>8, <2>1, <2>2 DEF Return, ClientStep, Disconnect
  <1> QED
    BY <1>4, <1>5, <1>6, <1>7, <1>8 DEF Serve

\* No step loses, repeats or reorders an event of a started connection.
LEMMA PartitionStep == IInv /\ [Next]_vars => Partition'
  <1> SUFFICES ASSUME IInv, [Next]_vars
               PROVE  Partition'
    OBVIOUS
  <1>1. ASSUME NEW r \in Runs, RunStep(r)
        PROVE  Partition'
    <2>1. CASE CreateRun(r)
      BY <2>1, PartitionPublish DEF CreateRun
    <2>2. CASE Progress(r)
      BY <2>2, PartitionPublish DEF Progress
    <2>3. CASE CompleteRun(r)
      BY <2>3, PartitionPublish DEF CompleteRun
    <2>4. CASE PlanningFails(r)
      BY <2>4 DEF PlanningFails, IInv, Partition
    <2> QED
      BY <1>1, <2>1, <2>2, <2>3, <2>4 DEF RunStep
  <1>2. ASSUME NEW c \in Clients, Serve(c) \/ ClientStep(c)
        PROVE  Partition'
    BY <1>2, PartitionClient
  <1>3. CASE UNCHANGED vars
    BY <1>3 DEF vars, IInv, Partition
  <1> QED
    BY <1>1, <1>2, <1>3 DEF Next

\* IInv is inductive.
LEMMA InvStep == IInv /\ [Next]_vars => IInv'
  BY TypeStep, SubscribersStep, LogEndsStep, ReplayFirstStep, PartitionStep DEF IInv

\* The inductive invariant: where every generator is, what its frames, snapshot
\* and queue hold, and which queues are registered (agent.py:225-278).
THEOREM Invariant == Spec => []IInv
  BY InvInit, InvStep, PTL DEF Spec

----------------------------------------------------------------------------
(***************************************************************************)
(* The safety properties of the runs.                                      *)
(***************************************************************************)

\* Whenever publications fall between subscribe, snapshot, replay and the
\* live loop, sent frames, snapshot and queue partition the run's log.
THEOREM PartitionHolds == Spec => []Partition
  BY Invariant, PTL DEF IInv

\* No disconnect, return or reconnect leaks or loses a subscriber queue.
THEOREM SubscribersHold == Spec => []SubscribersExact
  BY Invariant, PTL DEF IInv

\* A client that was sent run_completed was sent the whole log.
THEOREM EndMeansWholeLogHolds == Spec => []EndMeansWholeLog
  <1>1. IInv => EndMeansWholeLog
    <2> SUFFICES ASSUME IInv, NEW c \in Clients, EndSeen(c), pc[c] \in Started
                 PROVE  frames[c] = log[watch[c]]
      BY DEF EndMeansWholeLog
    <2> DEFINE rest == replay[c] \o queue[c]
    <2>1. /\ watch[c] \in Runs /\ log[watch[c]] \in Seq(Event)
          /\ frames[c] \in Seq(Event) /\ replay[c] \in Seq(Event) /\ queue[c] \in Seq(Event)
      BY DEF IInv, TypeOK, Watching, Open
    <2>2. rest \in Seq(Event) /\ frames[c] \o rest = log[watch[c]]
      <3>1. (frames[c] \o replay[c]) \o queue[c] = log[watch[c]]
        BY DEF IInv, Partition
      <3>2. rest \in Seq(Event) /\ (frames[c] \o replay[c]) \o queue[c] = frames[c] \o rest
        BY <2>1, PartsAssociative
      <3> QED
        BY <3>1, <3>2
    <2>3. Len(frames[c]) \in 1 .. Len(frames[c]) /\ frames[c][Len(frames[c])].last
      BY <2>1 DEF EndSeen
    <2> HIDE DEF rest
    <2>4. /\ Len(log[watch[c]]) = Len(frames[c]) + Len(rest)
          /\ log[watch[c]][Len(frames[c])] = frames[c][Len(frames[c])]
      <3>1. /\ Len(frames[c] \o rest) = Len(frames[c]) + Len(rest)
            /\ \A i \in 1 .. Len(frames[c]) + Len(rest) :
                 (frames[c] \o rest)[i] = IF i <= Len(frames[c]) THEN frames[c][i]
                                          ELSE rest[i - Len(frames[c])]
        BY <2>1, <2>2, ConcatProperties
      <3>2. Len(frames[c]) \in Nat /\ Len(rest) \in Nat
        BY <2>1, <2>2, LenProperties
      <3>3. Len(frames[c]) \in 1 .. Len(frames[c]) + Len(rest)
        BY <2>3, <3>2
      <3> QED
        BY <2>2, <3>1, <3>2, <3>3
    <2>5. Len(frames[c]) = Len(log[watch[c]])
      BY <2>1, <2>2, <2>3, <2>4 DEF IInv, LogEnds
    <2>6. rest = <<>>
      BY <2>1, <2>2, <2>4, <2>5, EmptySeq, LenProperties
    <2> QED
      BY <2>1, <2>2, <2>6, ConcatEmptySeq
  <1> QED
    BY <1>1, Invariant, PTL

----------------------------------------------------------------------------
(***************************************************************************)
(* EventStream implements RunFeed: publications are Emit, a generator's    *)
(* start is Watch, a frame is Hear, the finally block is Leave, and all    *)
(* else is invisible.                                                      *)
(***************************************************************************)
Listening == [c \in Clients |-> IF pc[c] \in Started THEN watch[c] ELSE NoRun]

\* The abstract state reads the log, the frames and who is listening.
LEMMA FeedVars == UNCHANGED <<log, frames>> /\ Listening' = Listening => UNCHANGED Feed!vars
  BY DEF Feed!vars, Listening

\* A publication of a run that is executing is an abstract Emit.
LEMMA PublishEmits ==
    ASSUME IInv, NEW r \in Runs, NEW last \in BOOLEAN, publish(r, last),
           phase[r] # "completed", UNCHANGED <<pc, watch, frames>>
    PROVE  Feed!Emit(r)
  <1>1. ~Feed!Ended(r)
    <2> SUFFICES ASSUME log[r] # <<>>
                 PROVE  ~log[r][Len(log[r])].last
      BY DEF Feed!Ended
    <2>1. Len(log[r]) \in 1 .. Len(log[r])
      BY EmptySeq DEF IInv, TypeOK
    <2> QED
      BY <2>1 DEF IInv, LogEnds
  <1>2. log' = [log EXCEPT ![r] =
                  Append(@, [run |-> r, n |-> Len(@) + 1, last |-> last])]
    BY DEF publish
  <1> QED
    BY <1>1, <1>2 DEF Feed!Emit

\* A frame sent from the snapshot or from the queue is the next event.
LEMMA SendHears ==
    ASSUME IInv, NEW c \in Clients, pc[c] \in Started,
           UNCHANGED <<log, watch>>, Listening' = Listening,
           NEW e \in Event, NEW rest \in Seq(Event), rest # <<>>, e = Head(rest),
           frames[c] \o rest = log[watch[c]],
           frames' = [frames EXCEPT ![c] = Append(@, e)]
    PROVE  Feed!Hear(c)
  <1>1. Listening[c] = watch[c] /\ watch[c] \in Runs /\ watch[c] # NoRun
    BY NoRunAssumption DEF Listening, IInv, Watching, Open
  <1>2. frames[c] \in Seq(Event)
    BY DEF IInv, TypeOK
  <1>3. Len(frames[c]) < Len(log[watch[c]]) /\ log[watch[c]][Len(frames[c]) + 1] = e
    BY <1>2, NextOfParts
  <1> QED
    BY <1>1, <1>3 DEF Feed!Hear, Listening

\* The initial state of the bus is the initial abstract state.
LEMMA FeedInit == Init => Feed!Init
  BY DEF Init, Feed!Init, Started

\* Every step of a run, of the server or of a client is an abstract step.
LEMMA FeedStep == IInv /\ [Next]_vars => [Feed!Next]_(Feed!vars)
  <1> SUFFICES ASSUME IInv, [Next]_vars
               PROVE  Feed!Next \/ UNCHANGED Feed!vars
    OBVIOUS
  <1>t. TypeOK /\ Watching
    BY DEF IInv
  <1>1. ASSUME NEW r \in Runs, RunStep(r)
        PROVE  Feed!Next \/ UNCHANGED Feed!vars
    <2>1. CASE CreateRun(r)
      BY <2>1, PublishEmits DEF CreateRun, Feed!Next
    <2>2. CASE Progress(r)
      BY <2>2, PublishEmits DEF Progress, Feed!Next
    <2>3. CASE CompleteRun(r)
      BY <2>3, PublishEmits DEF CompleteRun, Feed!Next
    <2>4. CASE PlanningFails(r)
      BY <2>4, FeedVars DEF PlanningFails, Listening
    <2> QED
      BY <1>1, <2>1, <2>2, <2>3, <2>4 DEF RunStep
  <1>2. ASSUME NEW c \in Clients, Start(c)
        PROVE  Feed!Next
    <2>1. watch[c] \in Runs /\ Listening[c] = NoRun
      BY <1>2, <1>t DEF Start, Watching, Open, Started, Listening
    <2>2. Listening' = [Listening EXCEPT ![c] = watch[c]]
      BY <1>2, <1>t DEF Start, Started, Listening, TypeOK
    <2>3. PICK r \in Runs : r = watch[c]
      BY <2>1
    <2>4. Feed!Watch(c, r)
      BY <1>2, <2>1, <2>2, <2>3 DEF Start, Feed!Watch, Listening, runVars
    <2> QED
      BY <2>4 DEF Feed!Next
  <1>3. ASSUME NEW c \in Clients, YieldBuffered(c)
        PROVE  Feed!Next
    <2>1. /\ pc[c] \in Started /\ replay[c] # <<>> /\ UNCHANGED <<log, watch, pc>>
          /\ frames' = [frames EXCEPT ![c] = Append(@, Head(replay[c]))]
      BY <1>3 DEF YieldBuffered, Send, Started, runVars
    <2>2. /\ frames[c] \in Seq(Event) /\ replay[c] \in Seq(Event) /\ queue[c] \in Seq(Event)
          /\ Head(replay[c]) \in Event
      BY <1>t, <2>1, HeadTailProperties DEF TypeOK
    <2> DEFINE rest == replay[c] \o queue[c]
    <2>3. rest \in Seq(Event) /\ (frames[c] \o replay[c]) \o queue[c] = frames[c] \o rest
      BY <2>2, PartsAssociative
    <2>4. rest # <<>> /\ Head(rest) = Head(replay[c])
      BY <2>1, <2>2, HeadOfParts
    <2>5. frames[c] \o rest = log[watch[c]]
      BY <2>1, <2>3 DEF IInv, Partition
    <2>6. Listening' = Listening
      BY <2>1 DEF Listening
    <2> HIDE DEF rest
    <2>7. Feed!Hear(c)
      BY <2>1, <2>2, <2>3, <2>4, <2>5, <2>6, SendHears
    <2> QED
      BY <2>7 DEF Feed!Next
  <1>4. ASSUME NEW c \in Clients, YieldLive(c)
        PROVE  Feed!Next
    <2>1. /\ pc[c] \in Started /\ queue[c] # <<>> /\ UNCHANGED <<log, watch>>
          /\ frames' = [frames EXCEPT ![c] = Append(@, Head(queue[c]))]
      BY <1>4 DEF YieldLive, Send, Started, runVars
    <2>2. frames[c] \in Seq(Event) /\ queue[c] \in Seq(Event) /\ Head(queue[c]) \in Event
      BY <1>t, <2>1, HeadTailProperties DEF TypeOK
    <2>3. frames[c] \o queue[c] = log[watch[c]]
      BY <1>4, <2>1, <2>2, ConcatEmptySeq DEF IInv, Partition, ReplayFirst, YieldLive
    <2>4. Listening' = Listening
      BY <1>4, <1>t DEF YieldLive, Listening, Started, TypeOK
    <2>5. Feed!Hear(c)
      BY <2>1, <2>2, <2>3, <2>4, SendHears
    <2> QED
      BY <2>5 DEF Feed!Next
  <1>5. ASSUME NEW c \in Clients, AwaitLive(c) \/ KeepAlive(c) \/ Abandon(c)
        PROVE  UNCHANGED Feed!vars
    <2>1. Listening' = Listening /\ UNCHANGED <<log, frames>>
      BY <1>5, <1>t DEF AwaitLive, KeepAlive, Abandon, Listening, Started, TypeOK, runVars
    <2> QED
      BY <2>1, FeedVars
  <1>6. ASSUME NEW c \in Clients, Return(c) \/ Disconnect(c)
        PROVE  Feed!Next
    <2>1. Listening' = [Listening EXCEPT ![c] = NoRun] /\ UNCHANGED <<log, frames>>
      BY <1>6, <1>t DEF Return, Disconnect, Finally, Listening, Started, TypeOK, runVars
    <2>2. Listening[c] # NoRun
      BY <1>6, <1>t, NoRunAssumption
         DEF Return, Disconnect, Listening, Started, Watching, Open
    <2>3. Feed!Leave(c)
      BY <2>1, <2>2 DEF Feed!Leave, Listening
    <2> QED
      BY <2>3 DEF Feed!Next
  <1>7. ASSUME NEW c \in Clients, NEW r \in Runs, stream_agent_run(c, r)
        PROVE  UNCHANGED Feed!vars
    <2>1. Listening' = Listening /\ UNCHANGED <<log, frames>>
      BY <1>7, <1>t DEF stream_agent_run, Listening, Open, Started, TypeOK, runVars
    <2> QED
      BY <2>1, FeedVars
  <1>8. CASE UNCHANGED vars
    BY <1>8, FeedVars DEF vars, Listening
  <1> QED
    BY <1>1, <1>2, <1>3, <1>4, <1>5, <1>6, <1>7, <1>8 DEF Next, Serve, ClientStep

\* Replay buffer, queues and subscriber lists together behave as one cursor
\* per client over one log per run.
THEOREM ImplementsRunFeed == Spec => FeedSpec
  BY FeedInit, FeedStep, Invariant, PTL DEF Spec, FeedSpec, Feed!Spec
=============================================================================
