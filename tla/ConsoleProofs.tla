---------------------------- MODULE ConsoleProofs ----------------------------
(***************************************************************************)
(* For every number of pages, addresses and requests, every limit and      *)
(* every length of a run: what a page shows and is told agrees with what   *)
(* the service did, the service keeps the promises of its limiter, and     *)
(* its runs are those that EventStream is about.                           *)
(*                                                                         *)
(* The invariant has a part for each request (Fits: its coroutine, its run *)
(* and the reports about it tell one story) and a part for each page       *)
(* (PageFits: what it awaits and shows are requests of its own, and the    *)
(* lines of its log are the events its stream has delivered).              *)
(***************************************************************************)
EXTENDS Console, SequenceTheorems, TLAPS

LimiterProofs == INSTANCE RateLimiterProofs

Events == [run : Posts, n : Nat \ {0}, last : BOOLEAN]

\* TypeOK without the limiter, the cursors and the lines.
StoreTypes == /\ posts \in [Posts -> Post]
              /\ runs \in [Posts -> Run]
              /\ security \subseteq Posts

PageTypes == /\ form \in [Pages -> BOOLEAN]
             /\ awaits \in [Pages -> Posts \cup {0}]
             /\ timer \in [Pages -> BOOLEAN]
             /\ card \in [Pages -> Posts \cup {0}]
             /\ source \in [Pages -> Posts \cup {0}]
             /\ cursor \in [Pages -> 0 .. MaxProgress + 1]
             /\ lines \in [Pages -> Seq(Events)]

\* A request, its run, and whether it was reported.  A run is there from the
\* moment its request is worked on, and over when the request is answered.
StageFits(post, run, reported) ==
  /\ post.stage = "answered" <=> post.code # "none"
  /\ post.stage = "working" <=> run.status = "running"
  /\ post.code = "ok" <=> run.status = "settled"
  /\ post.code = "planning_failed" <=> run.status = "failed"
  /\ post.verdict # "none" => post.stage \in {"working", "answered"}
  /\ post.code = "rejected" <=> post.verdict \in {"malicious", "non_document"}
  /\ reported <=> post.verdict = "malicious"

\* A log ends in a terminal event when the run has settled, and only then.
LogFits(status, log) ==
  /\ status = "absent" => log = <<>>
  /\ status = "settled" => Len(log) >= 1
  /\ status = "running" => Len(log) = 1 \/ Len(log) <= MaxProgress
  /\ Len(log) <= MaxProgress + 1
  /\ \A i \in DOMAIN log : log[i].last <=> i = Len(log) /\ status = "settled"

Fits(post, run, reported) ==
  StageFits(post, run, reported) /\ LogFits(run.status, run.log)

StoreFits == \A p \in Posts : Fits(posts[p], runs[p], p \in security)

\* shown is the beginning of log.
Begins(shown, log) ==
  Len(shown) <= Len(log) /\ \A i \in 1 .. Len(shown) : shown[i] = log[i]

\* What page c awaits and shows are requests it sent, and its log is what its
\* stream, as long as it is open, has delivered of the run it shows.
PageFits(c) ==
  /\ form[c] <=> awaits[c] = 0
  /\ timer[c] <=> awaits[c] # 0
  /\ awaits[c] # 0 => /\ card[c] = 0
                      /\ posts[awaits[c]].stage # "unsent"
                      /\ posts[awaits[c]].ip = IpOf[c]
  /\ card[c] # 0 => /\ posts[card[c]].code = "ok"
                    /\ posts[card[c]].ip = IpOf[c]
                    /\ Begins(lines[c], runs[card[c]].log)
  /\ card[c] = 0 => lines[c] = <<>>
  /\ source[c] # 0 => source[c] = card[c] /\ cursor[c] = Len(lines[c])

IInv == StoreTypes /\ PageTypes /\ StoreFits /\ \A c \in Pages : PageFits(c)

-------------------------------------------------------------------------------
LEMMA PostsNat == Posts \subseteq Nat \ {0} /\ 0 \notin Posts
  BY ApiAssumption DEF Posts

\* A log with one more event.
LEMMA OneMoreEvent ==
  ASSUME NEW log \in Seq(Events), NEW e \in Events
  PROVE  /\ Append(log, e) \in Seq(Events)
         /\ Len(log) \in Nat /\ Len(Append(log, e)) = Len(log) + 1
         /\ \A i \in 1 .. Len(log) : Append(log, e)[i] = log[i]
         /\ Append(log, e)[Len(log) + 1] = e
         /\ DOMAIN log = 1 .. Len(log) /\ DOMAIN Append(log, e) = 1 .. Len(log) + 1
  BY AppendProperties

LEMMA StartedLog ==
  ASSUME NEW e \in Events, ~ e.last
  PROVE  LogFits("running", Append(<<>>, e))
  <1>1. Append(<<>>, e) = <<e>>
    OBVIOUS
  <1> QED
    BY <1>1, ApiAssumption DEF LogFits

LEMMA ProgressLog ==
  ASSUME NEW log \in Seq(Events), NEW e \in Events, ~ e.last,
         LogFits("running", log), Len(log) < MaxProgress
  PROVE  LogFits("running", Append(log, e))
  BY OneMoreEvent, ApiAssumption DEF LogFits

LEMMA SettledLog ==
  ASSUME NEW log \in Seq(Events), NEW e \in Events, e.last,
         LogFits("running", log), Len(log) > 1
  PROVE  LogFits("settled", Append(log, e))
  <1> DEFINE new == Append(log, e)
  <1>1. /\ Len(new) = Len(log) + 1 /\ Len(log) \in Nat /\ DOMAIN new = 1 .. Len(log) + 1
        /\ \A i \in 1 .. Len(log) : new[i] = log[i]
        /\ new[Len(log) + 1] = e
    BY OneMoreEvent
  <1>2. Len(log) <= MaxProgress /\ \A i \in 1 .. Len(log) : ~ log[i].last
    <2>1. Len(log) = 1 \/ Len(log) <= MaxProgress
      BY DEF LogFits
    <2>2. \A i \in DOMAIN log : ~ log[i].last
      BY DEF LogFits
    <2>3. DOMAIN log = 1 .. Len(log) /\ Len(log) \in Nat
      OBVIOUS
    <2>4. Len(log) <= MaxProgress
      BY <2>1, <2>3, ApiAssumption
    <2> QED
      BY <2>2, <2>3, <2>4
  <1> HIDE DEF new
  <1>3. \A i \in DOMAIN new : new[i].last <=> i = Len(new)
    BY <1>1, <1>2
  <1> QED
    BY <1>1, <1>2, <1>3, ApiAssumption DEF LogFits, new

\* The event that Extended adds to the log of run p.
LEMMA ExtendedBy ==
  ASSUME StoreTypes, NEW p \in Posts
  PROVE  /\ runs[p].log \in Seq(Events)
         /\ \E e \in Events : ~ e.last /\ Extended(p, FALSE) = Append(runs[p].log, e)
         /\ \E e \in Events : e.last /\ Extended(p, TRUE) = Append(runs[p].log, e)
  <1> DEFINE e == [run |-> p, n |-> Len(runs[p].log) + 1, last |-> FALSE]
             f == [run |-> p, n |-> Len(runs[p].log) + 1, last |-> TRUE]
  <1>1. runs[p].log \in Seq(Events)
    <2>1. runs[p] \in Run
      BY DEF StoreTypes
    <2> QED
      BY <2>1 DEF Run, Events
  <1>2. e \in Events /\ ~ e.last /\ f \in Events /\ f.last
    BY <1>1 DEF Events
  <1>3. Extended(p, FALSE) = Append(runs[p].log, e) /\ Extended(p, TRUE) = Append(runs[p].log, f)
    BY DEF Extended
  <1> HIDE DEF e, f
  <1> QED
    BY <1>1, <1>2, <1>3

\* A step that changes one request and its run: the others still fit.
LEMMA OneRequest ==
  ASSUME StoreTypes, StoreFits, NEW p \in Posts, NEW post \in Post, NEW run \in Run,
         posts' = [posts EXCEPT ![p] = post],
         runs' = [runs EXCEPT ![p] = run],
         security' \in {security, security \cup {p}},
         Fits(post, run, p \in security')
  PROVE  StoreTypes' /\ StoreFits'
  <1>1. StoreTypes'
    BY DEF StoreTypes
  <1>2. ASSUME NEW q \in Posts PROVE Fits(posts'[q], runs'[q], q \in security')
    <2>1. CASE q = p
      <3>1. posts'[q] = post /\ runs'[q] = run
        BY <2>1 DEF StoreTypes
      <3> QED
        BY <2>1, <3>1
    <2>2. CASE q # p
      <3>1. posts'[q] = posts[q] /\ runs'[q] = runs[q]
        BY <2>2 DEF StoreTypes
      <3>2. q \in security' <=> q \in security
        BY <2>2
      <3> QED
        BY <3>1, <3>2 DEF StoreFits, Fits
    <2> QED
      BY <2>1, <2>2
  <1> QED
    BY <1>1, <1>2 DEF StoreFits

\* store.create: the run fits a request that is worked on.
LEMMA StartedFits ==
  ASSUME StoreTypes, StoreFits, NEW p \in Posts, NEW post \in Post,
         posts[p].stage \in {"reading", "classifying"},
         post.code = "none",
         post.verdict \notin {"malicious", "non_document"},
         p \notin security'
  PROVE  /\ Moved(post, "working") \in Post
         /\ [status |-> "running", log |-> Extended(p, FALSE)] \in Run
         /\ Fits(Moved(post, "working"),
                 [status |-> "running", log |-> Extended(p, FALSE)], p \in security')
  <1> DEFINE log == Extended(p, FALSE)
  <1>1. runs[p].log = <<>>
    <2>1. /\ Fits(posts[p], runs[p], p \in security)
          /\ posts[p] \in Post /\ runs[p] \in Run
      BY DEF StoreFits, StoreTypes
    <2>2. runs[p].status = "absent"
      BY <2>1 DEF Fits, StageFits, Run
    <2> QED
      BY <2>1, <2>2 DEF Fits, LogFits
  <1>2. log \in Seq(Events) /\ LogFits("running", log)
    <2>1. PICK e \in Events : ~ e.last /\ log = Append(runs[p].log, e)
      BY ExtendedBy
    <2> HIDE DEF log
    <2> QED
      BY <1>1, <2>1, StartedLog, OneMoreEvent
  <1> HIDE DEF log
  <1>3. /\ Moved(post, "working") \in Post
        /\ Moved(post, "working").stage = "working"
        /\ Moved(post, "working").code = "none"
        /\ Moved(post, "working").verdict = post.verdict
    BY DEF Moved, Post, Stages
  <1>4. [status |-> "running", log |-> log] \in Run
    BY <1>2 DEF Run, Events
  <1>5. StageFits(Moved(post, "working"), [status |-> "running", log |-> log],
                  p \in security')
    BY <1>3 DEF StageFits
  <1> QED
    BY <1>2, <1>3, <1>4, <1>5 DEF Fits, log

\* Every step of a request's coroutine keeps the store in order.
LEMMA RequestFits ==
  ASSUME StoreTypes, StoreFits, NEW p \in Posts, create_agent_run(p)
  PROVE  StoreTypes' /\ StoreFits'
  <1>0. /\ posts[p] \in Post /\ runs[p] \in Run
        /\ Fits(posts[p], runs[p], p \in security)
    BY DEF StoreTypes, StoreFits
  <1>1. posts = [posts EXCEPT ![p] = posts[p]] /\ runs = [runs EXCEPT ![p] = runs[p]]
    BY DEF StoreTypes
  <1>2. CASE Arrive(p)
    <2>1. PICK post \in {Moved(posts[p], "reading"), Answered(posts[p], "rate_limited")} :
            posts' = [posts EXCEPT ![p] = post]
      BY <1>2 DEF Arrive
    <2>2. /\ post \in Post
          /\ Fits(post, runs[p], p \in security)
      BY <1>0, <1>2, <2>1 DEF Arrive, Moved, Answered, Post, Stages, Codes, Fits, StageFits, Run
    <2> QED
      BY <1>0, <1>1, <1>2, <2>1, <2>2, OneRequest DEF Arrive
  <1>3. CASE Read(p)
    <2>1. CASE StartRun(p, posts[p])
      <3>1. posts[p].code = "none" /\ posts[p].verdict = "none" /\ p \notin security'
        BY <1>0, <1>3 DEF Read, Fits, StageFits, Post
      <3>2. security' = security /\ posts[p].stage = "reading"
        BY <1>3 DEF Read
      <3> QED
        BY <1>0, <2>1, <3>1, <3>2, StartedFits, OneRequest DEF StartRun
    <2>2. CASE /\ posts' = [posts EXCEPT ![p] = Answered(@, "invalid")]
               /\ UNCHANGED runs
      <3>1. /\ Answered(posts[p], "invalid") \in Post
            /\ Fits(Answered(posts[p], "invalid"), runs[p], p \in security)
        BY <1>0, <1>3 DEF Read, Answered, Post, Stages, Codes, Fits, StageFits, Run
      <3> QED
        BY <1>0, <1>1, <1>3, <2>2, <3>1, OneRequest DEF Read
    <2>3. CASE /\ posts' = [posts EXCEPT ![p] = Moved(@, "classifying")]
               /\ UNCHANGED runs
      <3>1. /\ Moved(posts[p], "classifying") \in Post
            /\ Fits(Moved(posts[p], "classifying"), runs[p], p \in security)
        BY <1>0, <1>3 DEF Read, Moved, Post, Stages, Fits, StageFits, Run
      <3> QED
        BY <1>0, <1>1, <1>3, <2>3, <3>1, OneRequest DEF Read
    <2> QED
      BY <1>3, <2>1, <2>2, <2>3 DEF Read
  <1>4. CASE classify(p)
    <2>1. PICK v \in Intents \cup {"undecided"} :
            LET post == [posts[p] EXCEPT !.verdict = v]
            IN  /\ IF v \in {"malicious", "non_document"}
                   THEN /\ posts' = [posts EXCEPT ![p] = Answered(post, "rejected")]
                        /\ UNCHANGED runs
                   ELSE StartRun(p, post)
                /\ security' = IF v = "malicious" THEN security \cup {p} ELSE security
      BY <1>4 DEF classify
    <2> DEFINE post == [posts[p] EXCEPT !.verdict = v]
    <2>2. /\ post \in Post /\ post.code = posts[p].code
          /\ post.stage = posts[p].stage /\ post.verdict = v
      BY <1>0 DEF Post
    <2>3. posts[p].stage = "classifying" /\ posts[p].code = "none" /\ p \notin security
      BY <1>0, <1>4 DEF classify, Fits, StageFits, Post
    <2>4. CASE v \in {"malicious", "non_document"}
      <3>1. /\ posts' = [posts EXCEPT ![p] = Answered(post, "rejected")]
            /\ runs' = runs
            /\ security' \in {security, security \cup {p}}
            /\ p \in security' <=> v = "malicious"
        BY <2>1, <2>3, <2>4
      <3> HIDE DEF post
      <3>2. /\ Answered(post, "rejected") \in Post
            /\ Answered(post, "rejected").stage = "answered"
            /\ Answered(post, "rejected").code = "rejected"
            /\ Answered(post, "rejected").verdict = v
        BY <2>2 DEF Answered, Post, Stages, Codes
      <3>3. Fits(Answered(post, "rejected"), runs[p], p \in security')
        BY <1>0, <2>3, <2>4, <3>1, <3>2 DEF Fits, StageFits, Run
      <3> QED
        BY <1>0, <1>1, <3>1, <3>2, <3>3, OneRequest
    <2>5. CASE v \notin {"malicious", "non_document"}
      <3>1. StartRun(p, post) /\ security' = security
        BY <2>1, <2>5
      <3> HIDE DEF post
      <3> QED
        BY <2>2, <2>3, <2>5, <3>1, StartedFits, OneRequest DEF StartRun
    <2> QED
      BY <2>4, <2>5
  <1>5. CASE PlanningFails(p)
    <2> DEFINE run == [runs[p] EXCEPT !.status = "failed"]
               post == Answered(posts[p], "planning_failed")
    <2>1. run \in Run /\ run.status = "failed" /\ run.log = runs[p].log
      BY <1>0 DEF Run
    <2>2. /\ post \in Post /\ post.stage = "answered" /\ post.code = "planning_failed"
          /\ post.verdict = posts[p].verdict
      BY <1>0 DEF Answered, Post, Stages, Codes
    <2>3. /\ posts' = [posts EXCEPT ![p] = post]
          /\ runs' = [runs EXCEPT ![p] = run]
          /\ security' = security
          /\ posts[p].stage = "working" /\ runs[p].status = "running"
      BY <1>5 DEF PlanningFails, Executing
    <2> HIDE DEF run, post
    <2>4. StageFits(post, run, p \in security)
      BY <1>0, <2>1, <2>2, <2>3 DEF Fits, StageFits
    <2>5. LogFits("failed", run.log)
      BY <1>0, <2>1, <2>3 DEF Fits, LogFits
    <2> QED
      BY <2>1, <2>2, <2>3, <2>4, <2>5, OneRequest DEF Fits
  <1>6. CASE Progress(p)
    <2> DEFINE run == [runs[p] EXCEPT !.log = Extended(p, FALSE)]
    <2>1. PICK e \in Events : ~ e.last /\ Extended(p, FALSE) = Append(runs[p].log, e)
      BY ExtendedBy
    <2>2. run.status = runs[p].status /\ run.log = Append(runs[p].log, e)
      BY <1>0, <2>1 DEF Run
    <2>3. /\ posts' = posts /\ runs' = [runs EXCEPT ![p] = run]
          /\ security' = security
          /\ runs[p].status = "running" /\ Len(runs[p].log) < MaxProgress
      BY <1>6 DEF Progress, Executing
    <2>4. run.log \in Seq(Events) /\ LogFits("running", run.log)
      <3>1. LogFits("running", runs[p].log) /\ runs[p].log \in Seq(Events)
        BY <1>0, <2>3, ExtendedBy DEF Fits
      <3>2. /\ Append(runs[p].log, e) \in Seq(Events)
            /\ LogFits("running", Append(runs[p].log, e))
        BY <2>1, <2>3, <3>1, OneMoreEvent, ProgressLog
      <3> QED
        BY <2>2, <3>2
    <2>5. run \in Run
      BY <1>0, <2>1, <2>4, <2>2 DEF Run, Events
    <2> HIDE DEF run
    <2>6. StageFits(posts[p], run, p \in security)
      BY <1>0, <2>2 DEF Fits, StageFits
    <2> QED
      BY <1>0, <1>1, <2>2, <2>3, <2>4, <2>5, <2>6, OneRequest DEF Fits
  <1>7. CASE Complete(p)
    <2> DEFINE run == [status |-> "settled", log |-> Extended(p, TRUE)]
               post == Answered(posts[p], "ok")
    <2>1. PICK e \in Events : e.last /\ Extended(p, TRUE) = Append(runs[p].log, e)
      BY ExtendedBy
    <2>2. /\ post \in Post /\ post.stage = "answered" /\ post.code = "ok"
          /\ post.verdict = posts[p].verdict
      BY <1>0 DEF Answered, Post, Stages, Codes
    <2>3. /\ posts' = [posts EXCEPT ![p] = post]
          /\ runs' = [runs EXCEPT ![p] = run]
          /\ security' = security
          /\ posts[p].stage = "working" /\ runs[p].status = "running"
          /\ Len(runs[p].log) > 1
      BY <1>7 DEF Complete, Executing
    <2>4. run.log \in Seq(Events) /\ LogFits("settled", run.log)
      <3>1. LogFits("running", runs[p].log) /\ runs[p].log \in Seq(Events)
        BY <1>0, <2>3, ExtendedBy DEF Fits
      <3>2. /\ Append(runs[p].log, e) \in Seq(Events)
            /\ LogFits("settled", Append(runs[p].log, e))
        BY <2>1, <2>3, <3>1, OneMoreEvent, SettledLog
      <3> QED
        BY <2>1, <3>2
    <2>5. run \in Run /\ run.status = "settled"
      BY <2>4 DEF Run, Events
    <2> HIDE DEF run, post
    <2>6. StageFits(post, run, p \in security)
      BY <1>0, <2>2, <2>3, <2>5 DEF Fits, StageFits
    <2> QED
      BY <2>2, <2>3, <2>4, <2>5, <2>6, OneRequest DEF Fits
  <1> QED
    BY <1>2, <1>3, <1>4, <1>5, <1>6, <1>7 DEF create_agent_run

-------------------------------------------------------------------------------
(***************************************************************************)
(* What the store does not take back: a request stays sent, with the       *)
(* address it came from, and a run that succeeded stays as it is.          *)
(***************************************************************************)
Forward ==
  \A p \in Posts :
    /\ posts[p].stage # "unsent" => /\ posts'[p].stage # "unsent"
                                    /\ posts'[p].ip = posts[p].ip
    /\ posts[p].code = "ok" => /\ posts'[p].code = "ok"
                               /\ posts'[p].ip = posts[p].ip
                               /\ runs'[p] = runs[p]

LEMMA KeepsAddress ==
  ASSUME NEW post \in Post, NEW stage, NEW code
  PROVE  /\ Moved(post, stage).stage = stage /\ Moved(post, stage).ip = post.ip
         /\ Answered(post, code).stage = "answered" /\ Answered(post, code).ip = post.ip
  BY DEF Moved, Answered, Post

LEMMA RequestForward ==
  ASSUME StoreTypes, StoreFits, NEW p \in Posts, create_agent_run(p)
  PROVE  Forward
  <1>0. posts[p] \in Post /\ Fits(posts[p], runs[p], p \in security)
    BY DEF StoreTypes, StoreFits
  <1>1. posts[p].code # "ok"
    BY <1>0 DEF create_agent_run, Arrive, Read, classify, PlanningFails, Progress, Complete,
       Executing, Fits, StageFits
  <1>2. posts[p].stage # "unsent"
    BY DEF create_agent_run, Arrive, Read, classify, PlanningFails, Progress, Complete,
       Executing
  <1>3. posts'[p].stage # "unsent" /\ posts'[p].ip = posts[p].ip
    <2>1. CASE Arrive(p)
      <3>1. posts'[p] \in {Moved(posts[p], "reading"), Answered(posts[p], "rate_limited")}
        BY <2>1 DEF Arrive, StoreTypes
      <3> QED
        BY <1>0, <3>1, KeepsAddress
    <2>2. CASE Read(p)
      <3>1. posts'[p] \in {Answered(posts[p], "invalid"), Moved(posts[p], "classifying"),
                           Moved(posts[p], "working")}
        BY <2>2 DEF Read, StartRun, StoreTypes
      <3> QED
        BY <1>0, <3>1, KeepsAddress
    <2>3. CASE classify(p)
      <3>1. PICK v \in Intents \cup {"undecided"} :
              \/ posts' = [posts EXCEPT ![p] = Answered([posts[p] EXCEPT !.verdict = v],
                                                       "rejected")]
              \/ posts' = [posts EXCEPT ![p] = Moved([posts[p] EXCEPT !.verdict = v],
                                                    "working")]
        BY <2>3 DEF classify, StartRun
      <3> DEFINE post == [posts[p] EXCEPT !.verdict = v]
      <3>2. posts'[p] = Answered(post, "rejected") \/ posts'[p] = Moved(post, "working")
        BY <3>1 DEF StoreTypes
      <3>3. post \in Post /\ post.ip = posts[p].ip
        BY <1>0 DEF Post
      <3> HIDE DEF post
      <3> QED
        BY <3>2, <3>3, KeepsAddress
    <2>4. CASE PlanningFails(p)
      BY <1>0, <2>4 DEF PlanningFails, Answered, StoreTypes, Post
    <2>5. CASE Progress(p)
      BY <1>2, <2>5 DEF Progress
    <2>6. CASE Complete(p)
      BY <1>0, <2>6 DEF Complete, Answered, StoreTypes, Post
    <2> QED
      BY <2>1, <2>2, <2>3, <2>4, <2>5, <2>6 DEF create_agent_run
  <1>4. ASSUME NEW q \in Posts, q # p PROVE posts'[q] = posts[q] /\ runs'[q] = runs[q]
    <2>1. CASE Arrive(p) \/ Read(p) \/ classify(p)
      <3>1. /\ \E post : posts' = [posts EXCEPT ![p] = post]
            /\ runs' = runs \/ \E run : runs' = [runs EXCEPT ![p] = run]
        BY <2>1 DEF Arrive, Read, classify, StartRun
      <3> QED
        BY <1>4, <3>1 DEF StoreTypes
    <2>2. CASE PlanningFails(p) \/ Progress(p) \/ Complete(p)
      <3>1. /\ posts' = posts \/ \E post : posts' = [posts EXCEPT ![p] = post]
            /\ \E run : runs' = [runs EXCEPT ![p] = run]
        BY <2>2 DEF PlanningFails, Progress, Complete
      <3> QED
        BY <1>4, <3>1 DEF StoreTypes
    <2> QED
      BY <2>1, <2>2 DEF create_agent_run
  <1> QED
    BY <1>1, <1>3, <1>4 DEF Forward

\* What the server does, and other pages do, leaves a page's part of the
\* invariant as it is.
LEMMA PageUntouched ==
  ASSUME PageTypes, NEW c \in Pages, PageFits(c), Forward,
         form'[c] = form[c], awaits'[c] = awaits[c], timer'[c] = timer[c],
         card'[c] = card[c], source'[c] = source[c], cursor'[c] = cursor[c],
         lines'[c] = lines[c]
  PROVE  PageFits(c)'
  <1>1. awaits[c] # 0 => /\ posts'[awaits[c]].stage # "unsent"
                         /\ posts'[awaits[c]].ip = IpOf[c]
    BY DEF PageTypes, PageFits, Forward
  <1>2. card[c] # 0 => /\ posts'[card[c]].code = "ok"
                       /\ posts'[card[c]].ip = IpOf[c]
                       /\ runs'[card[c]] = runs[card[c]]
    BY DEF PageTypes, PageFits, Forward
  <1> QED
    BY <1>1, <1>2 DEF PageFits

-------------------------------------------------------------------------------
(***************************************************************************)
(* The steps of a page.                                                    *)
(***************************************************************************)
OnlyPage(c) ==
  \A d \in Pages \ {c} :
    /\ form'[d] = form[d] /\ awaits'[d] = awaits[d] /\ timer'[d] = timer[d]
    /\ card'[d] = card[d] /\ source'[d] = source[d] /\ cursor'[d] = cursor[d]
    /\ lines'[d] = lines[d]

LEMMA PageStepIsLocal ==
  ASSUME PageTypes, NEW c \in Pages, PageStep(c)
  PROVE  OnlyPage(c)
  <1>1. CASE submitRequest(c)
    BY <1>1 DEF submitRequest, resetRunState, PageTypes, OnlyPage
  <1>2. CASE NetworkError(c) \/ ErrorResponse(c)
    BY <1>2 DEF NetworkError, ErrorResponse, showError, PageTypes, OnlyPage
  <1>3. CASE renderFromResponse(c)
    BY <1>3 DEF renderFromResponse, finishRun, openLogStream, PageTypes, OnlyPage
  <1>4. CASE LogEvent(c)
    BY <1>4 DEF LogEvent, appendEventLog, PageTypes, OnlyPage
  <1>5. CASE StreamError(c)
    BY <1>5 DEF StreamError, PageTypes, OnlyPage
  <1>6. CASE resetToIdle(c)
    BY <1>6 DEF resetToIdle, resetRunState, PageTypes, OnlyPage
  <1> QED
    BY <1>1, <1>2, <1>3, <1>4, <1>5, <1>6 DEF PageStep, Receive

\* Only submitRequest touches the store: it sends a request nobody sent yet.
LEMMA SubmitForward ==
  ASSUME StoreTypes, StoreFits, NEW c \in Pages, NEW p \in Posts, Fresh(p),
         posts' = [posts EXCEPT ![p] = [@ EXCEPT !.stage = "sent", !.ip = IpOf[c]]],
         UNCHANGED <<runs, security>>
  PROVE  /\ StoreTypes' /\ StoreFits' /\ Forward
         /\ posts'[p].stage = "sent" /\ posts'[p].ip = IpOf[c]
  <1> DEFINE post == [posts[p] EXCEPT !.stage = "sent", !.ip = IpOf[c]]
  <1>0. /\ posts[p] \in Post /\ runs[p] \in Run /\ IpOf[c] \in IPs
        /\ Fits(posts[p], runs[p], p \in security)
        /\ posts[p].stage = "unsent"
    BY PagesAssumption DEF StoreTypes, StoreFits, Fresh
  <1>1. /\ post \in Post /\ post.stage = "sent" /\ post.ip = IpOf[c]
        /\ post.code = posts[p].code /\ post.verdict = posts[p].verdict
    BY <1>0 DEF Post, Stages
  <1>2. posts' = [posts EXCEPT ![p] = post] /\ runs' = [runs EXCEPT ![p] = runs[p]]
    BY DEF StoreTypes
  <1> HIDE DEF post
  <1>3. StageFits(post, runs[p], p \in security)
    BY <1>0, <1>1 DEF Fits, StageFits
  <1>4. StoreTypes' /\ StoreFits'
    BY <1>0, <1>1, <1>2, <1>3, OneRequest DEF Fits
  <1>5. posts'[p] = post /\ \A q \in Posts : q # p => posts'[q] = posts[q]
    BY <1>2 DEF StoreTypes
  <1>6. posts[p].code # "ok"
    BY <1>0 DEF Fits, StageFits
  <1> QED
    BY <1>0, <1>1, <1>4, <1>5, <1>6 DEF Forward

LEMMA SameStore ==
  ASSUME UNCHANGED apiVars
  PROVE  /\ StoreTypes => StoreTypes'
         /\ StoreFits => StoreFits'
         /\ Forward
  BY DEF apiVars, StoreTypes, StoreFits, Forward

\* One more line: the next event of the log.
LEMMA OneMoreLine ==
  ASSUME NEW shown \in Seq(Events), NEW log \in Seq(Events), Begins(shown, log),
         Len(shown) < Len(log)
  PROVE  /\ Append(shown, log[Len(shown) + 1]) \in Seq(Events)
         /\ Len(Append(shown, log[Len(shown) + 1])) = Len(shown) + 1
         /\ Begins(Append(shown, log[Len(shown) + 1]), log)
  <1>1. log[Len(shown) + 1] \in Events
    OBVIOUS
  <1> QED
    BY <1>1, OneMoreEvent DEF Begins

LEMMA SubmitKeeps ==
  ASSUME IInv, NEW c \in Pages, submitRequest(c)
  PROVE  StoreTypes' /\ StoreFits' /\ Forward /\ PageTypes' /\ PageFits(c)'
  <1>1. PICK p \in Posts :
          /\ Fresh(p)
          /\ posts' = [posts EXCEPT ![p] = [@ EXCEPT !.stage = "sent", !.ip = IpOf[c]]]
          /\ awaits' = [awaits EXCEPT ![c] = p]
    BY DEF submitRequest
  <1>2. /\ StoreTypes' /\ StoreFits' /\ Forward
        /\ posts'[p].stage = "sent" /\ posts'[p].ip = IpOf[c]
    BY <1>1, SubmitForward DEF IInv, submitRequest
  <1>3. PageTypes'
    BY <1>1, ApiAssumption DEF IInv, PageTypes, submitRequest, resetRunState
  <1>4. /\ awaits'[c] = p /\ p # 0 /\ card'[c] = 0 /\ lines'[c] = <<>>
        /\ source'[c] = 0 /\ ~ form'[c] /\ timer'[c]
    BY <1>1, PostsNat DEF IInv, PageTypes, submitRequest, resetRunState
  <1> QED
    BY <1>2, <1>3, <1>4 DEF PageFits

LEMMA ErrorKeeps ==
  ASSUME IInv, NEW c \in Pages, NetworkError(c) \/ ErrorResponse(c)
  PROVE  UNCHANGED apiVars /\ PageTypes' /\ PageFits(c)'
  <1>1. showError(c)
    BY DEF NetworkError, ErrorResponse
  <1>2. PageTypes'
    BY <1>1 DEF IInv, PageTypes, showError
  <1>3. /\ awaits'[c] = 0 /\ form'[c] /\ ~ timer'[c]
        /\ UNCHANGED <<posts, runs, card, source, cursor, lines>>
    BY <1>1 DEF IInv, PageTypes, showError, apiVars
  <1> QED
    BY <1>1, <1>2, <1>3 DEF IInv, PageFits, showError

LEMMA RenderKeeps ==
  ASSUME IInv, NEW c \in Pages, renderFromResponse(c)
  PROVE  UNCHANGED apiVars /\ PageTypes' /\ PageFits(c)'
  <1> DEFINE p == awaits[c]
  <1>1. /\ p \in Posts /\ p # 0 /\ posts[p].code = "ok"
        /\ card[c] = 0 /\ lines[c] = <<>> /\ posts[p].ip = IpOf[c]
    BY DEF IInv, PageTypes, PageFits, renderFromResponse, HasResponse
  <1>2. PageTypes'
    BY <1>1, ApiAssumption
    DEF IInv, PageTypes, renderFromResponse, finishRun, openLogStream
  <1>3. /\ awaits'[c] = 0 /\ form'[c] /\ ~ timer'[c]
        /\ card'[c] = p /\ source'[c] = p /\ cursor'[c] = 0 /\ lines'[c] = <<>>
        /\ UNCHANGED apiVars
    BY <1>1 DEF IInv, PageTypes, renderFromResponse, finishRun, openLogStream
  <1>4. posts'[p] = posts[p] /\ runs'[p] = runs[p]
    BY <1>3 DEF apiVars
  <1>5. runs[p].log \in Seq(Events)
    BY <1>1, ExtendedBy DEF IInv
  <1>6. Begins(<<>>, runs[p].log)
    BY <1>5 DEF Begins
  <1> QED
    BY <1>1, <1>2, <1>3, <1>4, <1>6 DEF PageFits

LEMMA LogKeeps ==
  ASSUME IInv, NEW c \in Pages, LogEvent(c)
  PROVE  UNCHANGED apiVars /\ PageTypes' /\ PageFits(c)'
  <1> DEFINE p == source[c]
             log == runs[p].log
             e == log[cursor[c] + 1]
             shown == lines[c]
  <1>1. /\ p \in Posts /\ p # 0 /\ card[c] = p /\ cursor[c] = Len(shown)
        /\ posts[p].code = "ok" /\ posts[p].ip = IpOf[c] /\ Begins(shown, log)
        /\ shown \in Seq(Events)
    BY DEF IInv, PageTypes, PageFits, LogEvent
  <1>2. log \in Seq(Events) /\ Len(log) <= MaxProgress + 1
    <2>1. Fits(posts[p], runs[p], p \in security)
      BY <1>1 DEF IInv, StoreFits
    <2> QED
      BY <1>1, <2>1, ExtendedBy DEF IInv, Fits, LogFits
  <1>3. Len(shown) < Len(log)
    BY <1>1 DEF LogEvent
  <1>4. /\ lines' = [lines EXCEPT ![c] = Append(shown, e)]
        /\ source' = [source EXCEPT ![c] = IF e.last THEN 0 ELSE p]
        /\ cursor' = [cursor EXCEPT ![c] = cursor[c] + 1]
        /\ UNCHANGED <<apiVars, form, awaits, timer, card>>
    BY DEF LogEvent, appendEventLog
  <1>5. e = log[Len(shown) + 1]
    BY <1>1
  <1>6. /\ Append(shown, e) \in Seq(Events)
        /\ Len(Append(shown, e)) = Len(shown) + 1
        /\ Begins(Append(shown, e), log)
    <2> HIDE DEF log, shown, e
    <2> QED
      BY <1>1, <1>2, <1>3, <1>5, OneMoreLine
  <1>7. cursor[c] + 1 \in 0 .. MaxProgress + 1
    <2> HIDE DEF log, shown
    <2>1. Len(shown) \in Nat /\ Len(log) \in Nat
      BY <1>1, <1>2
    <2> QED
      BY <1>1, <1>2, <1>3, <2>1, ApiAssumption
  <1> HIDE DEF e, shown
  <1>8. PageTypes'
    BY <1>1, <1>4, <1>6, <1>7 DEF IInv, PageTypes
  <1>9. /\ lines'[c] = Append(shown, e) /\ source'[c] \in {0, p}
        /\ cursor'[c] = cursor[c] + 1
        /\ card'[c] = p /\ form'[c] = form[c] /\ awaits'[c] = awaits[c]
        /\ timer'[c] = timer[c]
        /\ posts' = posts /\ runs' = runs
    BY <1>1, <1>4 DEF IInv, PageTypes, apiVars
  <1>10. awaits[c] = 0 /\ form[c] /\ ~ timer[c]
    BY <1>1 DEF IInv, PageFits
  <1> QED
    BY <1>1, <1>4, <1>6, <1>8, <1>9, <1>10 DEF PageFits

LEMMA StreamErrorKeeps ==
  ASSUME IInv, NEW c \in Pages, StreamError(c)
  PROVE  UNCHANGED apiVars /\ PageTypes' /\ PageFits(c)'
  <1>1. PageTypes'
    BY DEF IInv, PageTypes, StreamError
  <1>2. source'[c] = 0 /\ UNCHANGED <<apiVars, form, awaits, timer, card, cursor, lines>>
    BY DEF IInv, PageTypes, StreamError
  <1> QED
    BY <1>1, <1>2 DEF IInv, PageFits, apiVars

LEMMA ResetKeeps ==
  ASSUME IInv, NEW c \in Pages, resetToIdle(c)
  PROVE  UNCHANGED apiVars /\ PageTypes' /\ PageFits(c)'
  <1>1. PageTypes'
    BY ApiAssumption DEF IInv, PageTypes, resetToIdle, resetRunState
  <1>2. awaits[c] = 0
    BY DEF IInv, PageFits, resetToIdle
  <1>3. /\ card'[c] = 0 /\ lines'[c] = <<>> /\ source'[c] = 0 /\ form'[c] /\ ~ timer'[c]
        /\ awaits'[c] = 0 /\ UNCHANGED apiVars
    BY <1>2 DEF IInv, PageTypes, resetToIdle, resetRunState
  <1> QED
    BY <1>1, <1>3 DEF PageFits

-------------------------------------------------------------------------------
(***************************************************************************)
(* The invariant, and what follows from it.                                *)
(***************************************************************************)
LEMMA InitInv == Init => IInv
  <1> SUFFICES ASSUME Init PROVE IInv
    OBVIOUS
  <1>1. StoreTypes
    <2>1. posts \in [Posts -> Post]
      BY DEF Init, ApiInit, Post, Stages, Codes
    <2>2. <<>> \in Seq(Events)
      OBVIOUS
    <2>3. NoRunYet \in Run
      BY <2>2 DEF NoRunYet, Run, Events
    <2> QED
      BY <2>1, <2>3 DEF Init, ApiInit, StoreTypes
  <1>2. PageTypes
    BY ApiAssumption DEF Init, PageTypes
  <1>3. ASSUME NEW p \in Posts PROVE Fits(posts[p], runs[p], p \in security)
    <2>1. /\ posts[p].stage = "unsent" /\ posts[p].code = "none"
          /\ posts[p].verdict = "none" /\ p \notin security
          /\ runs[p].status = "absent" /\ runs[p].log = <<>>
      BY DEF Init, ApiInit, NoRunYet
    <2>2. StageFits(posts[p], runs[p], p \in security)
      BY <2>1 DEF StageFits
    <2>3. LogFits("absent", <<>>)
      BY ApiAssumption DEF LogFits
    <2> QED
      BY <2>1, <2>2, <2>3 DEF Fits
  <1>4. ASSUME NEW c \in Pages PROVE PageFits(c)
    BY DEF Init, PageFits
  <1> QED
    BY <1>1, <1>2, <1>3, <1>4 DEF IInv, StoreFits

LEMMA NextInv == IInv /\ [Next]_vars => IInv'
  <1> SUFFICES ASSUME IInv, [Next]_vars PROVE IInv'
    OBVIOUS
  <1>1. ASSUME NEW p \in Posts, create_agent_run(p), UNCHANGED pageVars PROVE IInv'
    <2>1. StoreTypes' /\ StoreFits' /\ Forward
      BY <1>1, RequestFits, RequestForward DEF IInv
    <2>2. PageTypes'
      BY <1>1 DEF IInv, PageTypes, pageVars
    <2>3. ASSUME NEW c \in Pages PROVE PageFits(c)'
      BY <1>1, <2>1, PageUntouched DEF IInv, pageVars
    <2> QED
      BY <2>1, <2>2, <2>3 DEF IInv
  <1>2. CASE UNCHANGED <<posts, runs, security, pageVars>>
    <2>1. StoreTypes' /\ StoreFits' /\ PageTypes'
      BY <1>2 DEF IInv, StoreTypes, StoreFits, PageTypes, pageVars
    <2>2. Forward
      BY <1>2 DEF Forward
    <2>3. ASSUME NEW c \in Pages PROVE PageFits(c)'
      BY <1>2, <2>2, PageUntouched DEF IInv, pageVars
    <2> QED
      BY <2>1, <2>3 DEF IInv
  <1>3. ASSUME NEW c \in Pages, PageStep(c) PROVE IInv'
    <2>1. StoreTypes' /\ StoreFits' /\ Forward /\ PageTypes' /\ PageFits(c)'
      <3>1. CASE submitRequest(c)
        BY <3>1, SubmitKeeps
      <3>2. CASE ~ submitRequest(c)
        <4>1. UNCHANGED apiVars /\ PageTypes' /\ PageFits(c)'
          BY <1>3, <3>2, ErrorKeeps, RenderKeeps, LogKeeps, StreamErrorKeeps, ResetKeeps
          DEF PageStep, Receive
        <4> QED
          BY <4>1, SameStore DEF IInv
      <3> QED
        BY <3>1, <3>2
    <2>2. ASSUME NEW d \in Pages, d # c PROVE PageFits(d)'
      <3>1. OnlyPage(c)
        BY <1>3, PageStepIsLocal DEF IInv
      <3> QED
        BY <2>1, <2>2, <3>1, PageUntouched DEF IInv, OnlyPage
    <2> QED
      BY <2>1, <2>2 DEF IInv
  <1>4. Clock => UNCHANGED <<posts, runs, security>>
    BY DEF Clock
  <1> QED
    BY <1>1, <1>2, <1>3, <1>4 DEF Next, vars, apiVars

\* In every state each request's coroutine, run and reports tell one story
\* (agent.py:95-173), and each page awaits and shows requests of its own
\* (app.js:823-887).
THEOREM Invariant == Spec => []IInv
  BY InitInv, NextInv, PTL DEF Spec

\* The API consults its limiter as RateLimiter says: a page, a request or a run
\* never touches the queues, and the limiter is asked for addresses it knows
\* (agent.py:96-131).
THEOREM LimiterObeyed == Spec => Limiter!Spec
  <1>1. Init => Limiter!Init
    BY DEF Init, ApiInit
  <1>2. IInv /\ [Next]_vars => [Limiter!Next]_Limiter!vars
    <2> SUFFICES ASSUME IInv, [Next]_vars PROVE Limiter!Next \/ UNCHANGED Limiter!vars
      BY DEF Limiter!vars
    <2>1. ASSUME NEW p \in Posts, create_agent_run(p)
          PROVE  Limiter!Next \/ UNCHANGED limiterVars
      <3>1. posts[p].ip \in IPs
        BY DEF IInv, StoreTypes, Post
      <3>2. CASE Arrive(p)
        BY <3>1, <3>2 DEF Arrive, Limiter!Next, Limiter!check
      <3> QED
        BY <2>1, <3>2 DEF create_agent_run, Read, classify, PlanningFails, Progress, Complete
    <2>2. Clock => Limiter!Next
      BY DEF Clock, Limiter!Next
    <2>3. ASSUME NEW c \in Pages, PageStep(c) PROVE UNCHANGED limiterVars
      BY <2>3 DEF PageStep, Receive, submitRequest, NetworkError, ErrorResponse, showError,
         renderFromResponse, LogEvent, appendEventLog, StreamError, resetToIdle, apiVars
    <2> QED
      BY <2>1, <2>2, <2>3 DEF Next, vars, apiVars, limiterVars, Limiter!vars
  <1> QED
    BY <1>1, <1>2, Invariant, PTL DEF Spec, Limiter!Spec

\* What RateLimiterProofs establishes of a limiter holds of this one.
LEMMA SameLimiter ==
  /\ Limiter!Spec => LimiterProofs!Spec
  /\ LimiterProofs!TypeOK => Limiter!TypeOK
  /\ LimiterProofs!WindowRespected => Limiter!WindowRespected
  <1>1. Limiter!Init => LimiterProofs!Init
    BY DEF Limiter!Init, LimiterProofs!Init, Limiter!NoPromise, LimiterProofs!NoPromise
  <1>2. [Limiter!Next]_Limiter!vars => [LimiterProofs!Next]_LimiterProofs!vars
    BY DEF Limiter!Next, LimiterProofs!Next, Limiter!vars, LimiterProofs!vars,
       Limiter!Tick, LimiterProofs!Tick, Limiter!check, LimiterProofs!check,
       Limiter!Allow, LimiterProofs!Allow, Limiter!Deny, LimiterProofs!Deny,
       Limiter!evict_stale, LimiterProofs!evict_stale,
       Limiter!retry_after, LimiterProofs!retry_after,
       Limiter!header_seconds, LimiterProofs!header_seconds,
       Limiter!Window, LimiterProofs!Window,
       Limiter!NoPromise, LimiterProofs!NoPromise,
       Limiter!DefaultRetryAfter, LimiterProofs!DefaultRetryAfter
  <1>3. LimiterProofs!TypeOK => Limiter!TypeOK
    BY DEF LimiterProofs!TypeOK, Limiter!TypeOK
  <1>4. LimiterProofs!WindowRespected => Limiter!WindowRespected
    BY DEF LimiterProofs!WindowRespected, Limiter!WindowRespected,
       LimiterProofs!Window, Limiter!Window
  <1> QED
    BY <1>1, <1>2, <1>3, <1>4, PTL DEF Limiter!Spec, LimiterProofs!Spec

\* Whatever pages and requests do at once, no address gets more than Limit
\* requests past the limiter in any window (agent.py:96-131, rate_limiter.py:90-131).
THEOREM RequestsLimited == Spec => []Limiter!WindowRespected
  <1>1. LimiterProofs!RateAssumption
    BY ApiAssumption DEF LimiterProofs!RateAssumption
  <1>2. LimiterProofs!Spec => []LimiterProofs!WindowRespected
    BY <1>1, LimiterProofs!WindowHolds
  <1> QED
    BY <1>2, LimiterObeyed, SameLimiter, PTL

-------------------------------------------------------------------------------
(***************************************************************************)
(* The runs of the store are runs of the event bus.                        *)
(***************************************************************************)

\* The phase of EventStream that a status of the store stands for.
PhaseOf(status) == CASE status = "running" -> "executing"
                     [] status = "settled" -> "completed"
                     [] status = "failed" -> "silent"
                     [] OTHER -> "absent"

Bus == INSTANCE EventStream
         WITH Runs <- Posts, Clients <- {}, NoRun <- 0,
              phase <- [p \in Posts |-> PhaseOf(runs[p].status)],
              log <- [p \in Posts |-> runs[p].log],
              subs <- [p \in Posts |-> {}],
              pc <- [c \in {} |-> "idle"], watch <- [c \in {} |-> 0],
              replay <- [c \in {} |-> <<>>], queue <- [c \in {} |-> <<>>],
              frames <- [c \in {} |-> <<>>], lastId <- [c \in {} |-> 0]

LEMMA OneChanged ==
  ASSUME NEW S, NEW p \in S, NEW v, NEW f, NEW g, DOMAIN f = S, DOMAIN g = S,
         f = [q \in S |-> f[q]], g = [q \in S |-> g[q]],
         g[p] = v, \A q \in S : q # p => g[q] = f[q]
  PROVE  g = [f EXCEPT ![p] = v]
  OBVIOUS

\* One run with one event more, seen from the bus.
LEMMA BusPublishes ==
  ASSUME StoreTypes, NEW p \in Posts, NEW last \in BOOLEAN, NEW run,
         run.log = Extended(p, last), runs' = [runs EXCEPT ![p] = run]
  PROVE  Bus!publish(p, last)
  <1> DEFINE log == [q \in Posts |-> runs[q].log]
             e == [run |-> p, n |-> Len(runs[p].log) + 1, last |-> last]
  <1>1. log[p] = runs[p].log /\ Extended(p, last) = Append(log[p], e)
    BY DEF Extended
  <1> DEFINE new == [q \in Posts |-> runs'[q].log]
  <1>2. runs'[p] = run /\ \A q \in Posts : q # p => runs'[q] = runs[q]
    BY DEF StoreTypes
  <1>3. /\ DOMAIN log = Posts /\ DOMAIN new = Posts
        /\ log = [q \in Posts |-> log[q]] /\ new = [q \in Posts |-> new[q]]
    OBVIOUS
  <1>4. new[p] = Append(log[p], e) /\ \A q \in Posts : q # p => new[q] = log[q]
    BY <1>1, <1>2
  <1>5. new = [log EXCEPT ![p] = Append(@, e)]
    <2> HIDE DEF log, new, e
    <2> QED
      BY <1>3, <1>4, OneChanged
  <1> QED
    BY <1>1, <1>5 DEF Bus!publish

LEMMA BusPhase ==
  ASSUME StoreTypes, NEW p \in Posts, NEW run, runs' = [runs EXCEPT ![p] = run]
  PROVE  [q \in Posts |-> PhaseOf(runs'[q].status)]
           = [[q \in Posts |-> PhaseOf(runs[q].status)] EXCEPT ![p] = PhaseOf(run.status)]
  <1> DEFINE old == [q \in Posts |-> PhaseOf(runs[q].status)]
             new == [q \in Posts |-> PhaseOf(runs'[q].status)]
  <1>1. runs'[p] = run /\ \A q \in Posts : q # p => runs'[q] = runs[q]
    BY DEF StoreTypes
  <1>2. /\ DOMAIN old = Posts /\ DOMAIN new = Posts
        /\ old = [q \in Posts |-> old[q]] /\ new = [q \in Posts |-> new[q]]
    OBVIOUS
  <1>3. new[p] = PhaseOf(run.status) /\ \A q \in Posts : q # p => new[q] = old[q]
    BY <1>1
  <1>4. new = [old EXCEPT ![p] = PhaseOf(run.status)]
    <2> HIDE DEF old, new
    <2> QED
      BY <1>2, <1>3, OneChanged
  <1> QED
    BY <1>4

LEMMA RunOnBus ==
  ASSUME IInv, NEW p \in Posts, create_agent_run(p)
  PROVE  Bus!RunStep(p) \/ UNCHANGED runs
  <1> DEFINE phase == [q \in Posts |-> PhaseOf(runs[q].status)]
             Still == UNCHANGED <<[q \in Posts |-> {}], [c \in {} |-> "idle"],
                                  [c \in {} |-> 0], [c \in {} |-> <<>>]>>
  <1>1. /\ StoreTypes /\ Fits(posts[p], runs[p], p \in security)
        /\ posts[p] \in Post /\ runs[p] \in Run
    BY DEF IInv, StoreFits, StoreTypes
  <1>2. phase[p] = PhaseOf(runs[p].status) /\ Still
    OBVIOUS
  <1>3. ASSUME NEW post, StartRun(p, post), posts[p].stage \in {"reading", "classifying"}
        PROVE  Bus!CreateRun(p)
    <2> DEFINE run == [status |-> "running", log |-> Extended(p, FALSE)]
    <2>1. runs' = [runs EXCEPT ![p] = run] /\ run.status = "running"
          /\ run.log = Extended(p, FALSE)
      BY <1>3 DEF StartRun
    <2>2. runs[p].status = "absent"
      BY <1>1, <1>3 DEF Fits, StageFits, Run
    <2> HIDE DEF run
    <2>3. Bus!publish(p, FALSE)
      BY <1>1, <2>1, BusPublishes
    <2>4. [q \in Posts |-> PhaseOf(runs'[q].status)] = [phase EXCEPT ![p] = "executing"]
      BY <1>1, <2>1, BusPhase DEF PhaseOf
    <2> QED
      BY <1>2, <2>2, <2>3, <2>4 DEF Bus!CreateRun, PhaseOf
  <1>4. CASE Arrive(p)
    BY <1>4 DEF Arrive
  <1>5. CASE Read(p)
    BY <1>3, <1>5 DEF Read, Bus!RunStep
  <1>6. CASE classify(p)
    <2>1. UNCHANGED runs \/ \E post : StartRun(p, post)
      BY <1>6 DEF classify
    <2> QED
      BY <1>3, <1>6, <2>1 DEF classify, Bus!RunStep
  <1>7. CASE PlanningFails(p)
    <2> DEFINE run == [runs[p] EXCEPT !.status = "failed"]
    <2>1. runs' = [runs EXCEPT ![p] = run] /\ runs[p].status = "running"
          /\ Len(runs[p].log) = 1
      BY <1>7 DEF PlanningFails, Executing
    <2>2. run.status = "failed" /\ run.log = runs[p].log
      BY <1>1 DEF Run
    <2> HIDE DEF run
    <2>3. [q \in Posts |-> PhaseOf(runs'[q].status)] = [phase EXCEPT ![p] = "silent"]
      BY <1>1, <2>1, <2>2, BusPhase DEF PhaseOf
    <2>4. [q \in Posts |-> runs'[q].log] = [q \in Posts |-> runs[q].log]
      BY <1>1, <2>1, <2>2 DEF StoreTypes
    <2>5. Bus!PlanningFails(p)
      BY <1>2, <2>1, <2>3, <2>4 DEF Bus!PlanningFails, PhaseOf
    <2> QED
      BY <2>5 DEF Bus!RunStep
  <1>8. CASE Progress(p)
    <2> DEFINE run == [runs[p] EXCEPT !.log = Extended(p, FALSE)]
    <2>1. runs' = [runs EXCEPT ![p] = run] /\ runs[p].status = "running"
          /\ Len(runs[p].log) < MaxProgress
      BY <1>8 DEF Progress, Executing
    <2>2. run.status = "running" /\ run.log = Extended(p, FALSE)
      BY <1>1, <2>1 DEF Run
    <2> HIDE DEF run
    <2>3. Bus!publish(p, FALSE)
      BY <1>1, <2>1, <2>2, BusPublishes
    <2>4. [q \in Posts |-> PhaseOf(runs'[q].status)] = phase
      BY <1>1, <2>1, <2>2 DEF StoreTypes
    <2>5. Bus!Progress(p)
      BY <1>2, <2>1, <2>3, <2>4 DEF Bus!Progress, PhaseOf
    <2> QED
      BY <2>5 DEF Bus!RunStep
  <1>9. CASE Complete(p)
    <2> DEFINE run == [status |-> "settled", log |-> Extended(p, TRUE)]
    <2>1. runs' = [runs EXCEPT ![p] = run] /\ runs[p].status = "running"
          /\ run.status = "settled" /\ run.log = Extended(p, TRUE)
      BY <1>9 DEF Complete, Executing
    <2> HIDE DEF run
    <2>2. Bus!publish(p, TRUE)
      BY <1>1, <2>1, BusPublishes
    <2>3. [q \in Posts |-> PhaseOf(runs'[q].status)] = [phase EXCEPT ![p] = "completed"]
      BY <1>1, <2>1, BusPhase DEF PhaseOf
    <2>4. Bus!CompleteRun(p)
      BY <1>2, <2>1, <2>2, <2>3 DEF Bus!CompleteRun, PhaseOf
    <2> QED
      BY <2>4 DEF Bus!RunStep
  <1> QED
    BY <1>4, <1>5, <1>6, <1>7, <1>8, <1>9 DEF create_agent_run

\* However requests overlap, each run they start lives as EventStream assumes it of a
\* run: registered with its first event, numbered events, the terminal one with the end,
\* and none if planning fails (agent.py:133-172, orchestrator.py:240-318).
THEOREM RunsOnBus == Spec => Bus!Spec
  <1>1. Init => Bus!Init
    <2> SUFFICES ASSUME Init PROVE Bus!Init
      OBVIOUS
    <2>1. \A p \in Posts : PhaseOf(runs[p].status) = "absent" /\ runs[p].log = <<>>
      BY DEF Init, ApiInit, NoRunYet, PhaseOf
    <2> QED
      BY <2>1 DEF Bus!Init
  <1>2. IInv /\ [Next]_vars => [Bus!Next]_(Bus!vars)
    <2> SUFFICES ASSUME IInv, [Next]_vars PROVE [Bus!Next]_(Bus!vars)
      OBVIOUS
    <2>1. UNCHANGED runs => UNCHANGED Bus!vars
      BY DEF Bus!vars
    <2>2. ASSUME NEW p \in Posts, create_agent_run(p) PROVE Bus!Next \/ UNCHANGED runs
      BY <2>2, RunOnBus DEF Bus!Next
    <2>3. Clock => UNCHANGED runs
      BY DEF Clock
    <2>4. ASSUME NEW c \in Pages, PageStep(c) PROVE UNCHANGED runs
      <3>1. CASE submitRequest(c)
        BY <3>1 DEF submitRequest
      <3>2. CASE NetworkError(c) \/ Receive(c)
        BY <3>2 DEF NetworkError, Receive, ErrorResponse, showError, renderFromResponse, apiVars
      <3>3. CASE LogEvent(c)
        BY <3>3 DEF LogEvent, appendEventLog, apiVars
      <3>4. CASE StreamError(c) \/ resetToIdle(c)
        BY <3>4 DEF StreamError, resetToIdle, apiVars
      <3> QED
        BY <2>4, <3>1, <3>2, <3>3, <3>4 DEF PageStep
    <2> QED
      BY <2>1, <2>2, <2>3, <2>4 DEF Next, vars, apiVars
  <1> QED
    BY <1>1, <1>2, Invariant, PTL DEF Spec, Bus!Spec

-------------------------------------------------------------------------------
\* Every variable of the service and of the pages keeps its type.
THEOREM TypeCorrect == Spec => []TypeOK
  <1>1. LimiterProofs!RateAssumption
    BY ApiAssumption DEF LimiterProofs!RateAssumption
  <1>2. LimiterProofs!Spec => []LimiterProofs!TypeOK
    BY <1>1, LimiterProofs!TypeCorrect
  <1>3. Limiter!TypeOK /\ IInv => TypeOK
    BY DEF IInv, StoreTypes, PageTypes, Events, TypeOK
  <1> QED
    BY <1>2, <1>3, LimiterObeyed, SameLimiter, Invariant, PTL

\* What a client is told of its request is what the store says for good
\* (agent.py:133-172).
THEOREM AnswersHold == Spec => []AnswersMatchStore
  <1>1. IInv => AnswersMatchStore
    <2> SUFFICES ASSUME IInv PROVE AnswersMatchStore
      OBVIOUS
    <2>1. ASSUME NEW p \in Posts, posts[p].stage = "answered"
          PROVE  runs[p].status = CASE posts[p].code = "ok" -> "settled"
                                    [] posts[p].code = "planning_failed" -> "failed"
                                    [] OTHER -> "absent"
      <3>1. posts[p] \in Post /\ runs[p] \in Run /\ Fits(posts[p], runs[p], p \in security)
        BY DEF IInv, StoreTypes, StoreFits
      <3>2. runs[p].status \in {"absent", "running", "settled", "failed"}
        BY <3>1 DEF Run
      <3> QED
        BY <2>1, <3>1, <3>2 DEF Fits, StageFits
    <2>2. ASSUME NEW p \in Posts
          PROVE  (runs[p].status = "settled") <=>
                    \E i \in DOMAIN runs[p].log : runs[p].log[i].last
      <3>1. LogFits(runs[p].status, runs[p].log) /\ runs[p].log \in Seq(Events)
        BY ExtendedBy DEF IInv, StoreFits, Fits
      <3>2. runs[p].status = "settled" => Len(runs[p].log) \in DOMAIN runs[p].log
        BY <3>1 DEF LogFits
      <3> QED
        BY <3>1, <3>2 DEF LogFits
    <2>3. ASSUME NEW c \in Pages, card[c] # 0
          PROVE  runs[card[c]].status = "settled" /\ posts[card[c]].ip = IpOf[c]
      <3>1. card[c] \in Posts /\ posts[card[c]].code = "ok" /\ posts[card[c]].ip = IpOf[c]
        BY <2>3 DEF IInv, PageTypes, PageFits
      <3> QED
        BY <3>1 DEF IInv, StoreFits, Fits, StageFits
    <2> QED
      BY <2>1, <2>2, <2>3 DEF AnswersMatchStore
  <1> QED
    BY <1>1, Invariant, PTL

\* The guardrail refuses and reports only what the model said of that request
\* (guardrail.py:139-142).
THEOREM RejectionsHold == Spec => []RejectionsEarned
  <1>1. IInv => RejectionsEarned
    BY DEF IInv, StoreTypes, StoreFits, Fits, StageFits, RejectionsEarned
  <1> QED
    BY <1>1, Invariant, PTL

\* The lines of a page are the first events of the run it shows (app.js:14-21).
THEOREM LogHolds == Spec => []LogOfShownRun
  <1>1. IInv => LogOfShownRun
    <2> SUFFICES ASSUME IInv, NEW c \in Pages
                 PROVE  /\ source[c] \in {0, card[c]}
                        /\ card[c] = 0 => lines[c] = <<>>
                        /\ card[c] # 0 =>
                             /\ Len(lines[c]) <= Len(runs[card[c]].log)
                             /\ lines[c] = SubSeq(runs[card[c]].log, 1, Len(lines[c]))
      BY DEF LogOfShownRun
    <2>1. ASSUME card[c] # 0
          PROVE  /\ Len(lines[c]) <= Len(runs[card[c]].log)
                 /\ lines[c] = SubSeq(runs[card[c]].log, 1, Len(lines[c]))
      <3> DEFINE shown == lines[c]
                 log == runs[card[c]].log
      <3>1. Begins(shown, log) /\ shown \in Seq(Events) /\ log \in Seq(Events)
        <4>1. card[c] \in Posts
          BY <2>1 DEF IInv, PageTypes
        <4> QED
          BY <2>1, <4>1, ExtendedBy DEF IInv, PageTypes, PageFits
      <3> HIDE DEF shown, log
      <3>2. /\ Len(shown) \in Nat /\ Len(log) \in Nat /\ Len(shown) <= Len(log)
            /\ \A i \in 1 .. Len(shown) : shown[i] = log[i]
        BY <3>1 DEF Begins
      <3>3. shown = SubSeq(log, 1, Len(shown))
        BY <3>1, <3>2
      <3> QED
        BY <3>2, <3>3 DEF shown, log
    <2> QED
      BY <2>1 DEF IInv, PageFits
  <1> QED
    BY <1>1, Invariant, PTL

\* A page is free exactly when nothing of it is under way (app.js:117-135).
THEOREM FormHolds == Spec => []FormFree
  <1>1. IInv => FormFree
    BY DEF IInv, PageTypes, PageFits, FormFree
  <1> QED
    BY <1>1, Invariant, PTL
===============================================================================
