-------------------------------- MODULE Console -------------------------------
(***************************************************************************)
(* The browser console (src/frontend/app.js) on top of the API: pages send *)
(* requests, render the response, and read the run's events into their     *)
(* log.  Each callback of a page (a click, a response, an event, an error  *)
(* of the stream) runs to its end, so each is one action; between them     *)
(* come the steps of the server and of other pages, and a page's request   *)
(* may fail on the network while the server works on it.                   *)
(*                                                                         *)
(* A stream gives what RunFeed promises and EventStream keeps: the events  *)
(* of the run from its first, one at a time.  Only lines of the log that   *)
(* come from events are kept.                                              *)
(***************************************************************************)
EXTENDS AgentApi

CONSTANTS Pages,  \* browser pages
          IpOf    \* IpOf[c]: the address page c comes from

ASSUME PagesAssumption == IpOf \in [Pages -> IPs]

VARIABLES form,    \* form[c]: can the input and the button be used?
          awaits,  \* awaits[c]: the request whose response c awaits; 0: none
          timer,   \* timer[c]: does the elapsed timer run?
          card,    \* card[c]: the run whose result card is shown; 0: none
          source,  \* source[c]: the run of eventSource; 0: null
          cursor,  \* cursor[c]: events the stream of c has delivered
          lines    \* lines[c]: the events logged in the reasoning log

pageVars == <<form, awaits, timer, card, source, cursor, lines>>
vars == <<apiVars, pageVars>>

Init == /\ ApiInit
        /\ form = [c \in Pages |-> TRUE]
        /\ awaits = [c \in Pages |-> 0]
        /\ timer = [c \in Pages |-> FALSE]
        /\ card = [c \in Pages |-> 0]
        /\ source = [c \in Pages |-> 0]
        /\ cursor = [c \in Pages |-> 0]
        /\ lines = [c \in Pages |-> <<>>]

\* The stream is closed; card and log are cleared.
resetRunState(c) ==
  /\ card' = [card EXCEPT ![c] = 0]
  /\ lines' = [lines EXCEPT ![c] = <<>>]
  /\ source' = [source EXCEPT ![c] = 0]
  /\ cursor' = [cursor EXCEPT ![c] = 0]

Fresh(p) == posts[p].stage = "unsent" /\ \A q \in 1 .. p - 1 : posts[q].stage # "unsent"

\* The form is submitted and fetch sends the request.
submitRequest(c) ==
  /\ form[c]
  /\ \E p \in Posts :
       /\ Fresh(p)
       /\ posts' = [posts EXCEPT ![p] = [@ EXCEPT !.stage = "sent", !.ip = IpOf[c]]]
       /\ awaits' = [awaits EXCEPT ![c] = p]
  /\ resetRunState(c)
  /\ form' = [form EXCEPT ![c] = FALSE]
  /\ timer' = [timer EXCEPT ![c] = TRUE]
  /\ UNCHANGED <<limiterVars, runs, security>>

\* MUTANT of showError: the form stays as submitRequest left it.
showErrorOnly(c) ==
  /\ awaits' = [awaits EXCEPT ![c] = 0]
  /\ timer' = [timer EXCEPT ![c] = FALSE]
  /\ UNCHANGED <<apiVars, form, card, source, cursor, lines>>

\* showError, with what every path to it does besides.
showError(c) ==
  /\ awaits' = [awaits EXCEPT ![c] = 0]
  /\ form' = [form EXCEPT ![c] = TRUE]
  /\ timer' = [timer EXCEPT ![c] = FALSE]
  /\ UNCHANGED <<apiVars, card, source, cursor, lines>>

\* fetch rejects at any time: the server never hears of it, or goes on alone.
NetworkError(c) == awaits[c] # 0 /\ showError(c)

HasResponse(c) == awaits[c] # 0 /\ posts[awaits[c]].stage = "answered"

\* handleErrorResponse, or a response of 200 whose body does not parse.
ErrorResponse(c) == HasResponse(c) /\ showError(c)

finishRun(c) == /\ form' = [form EXCEPT ![c] = TRUE]
                /\ timer' = [timer EXCEPT ![c] = FALSE]

openLogStream(c, p) == /\ source' = [source EXCEPT ![c] = p]
                       /\ cursor' = [cursor EXCEPT ![c] = 0]

\* The card is drawn from the response alone; only then the stream is opened.
renderFromResponse(c) ==
  /\ HasResponse(c) /\ posts[awaits[c]].code = "ok"
  /\ card' = [card EXCEPT ![c] = awaits[c]]
  /\ awaits' = [awaits EXCEPT ![c] = 0]
  /\ finishRun(c)
  /\ openLogStream(c, awaits[c])
  /\ UNCHANGED <<apiVars, lines>>

\* One line for an event; nothing else of the page changes.
appendEventLog(c, e) ==
  /\ lines' = [lines EXCEPT ![c] = Append(@, e)]
  /\ UNCHANGED <<apiVars, form, awaits, timer, card>>

\* onEvent: one more line; run_completed closes the stream.
LogEvent(c) ==
  /\ source[c] # 0
  /\ cursor[c] < Len(runs[source[c]].log)
  /\ LET e == runs[source[c]].log[cursor[c] + 1]
     IN  /\ appendEventLog(c, e)
         /\ source' = [source EXCEPT ![c] = IF e.last THEN 0 ELSE @]
  /\ cursor' = [cursor EXCEPT ![c] = @ + 1]

\* MUTANT of StreamError: the EventSource reconnects on its own.
StreamReconnects(c) ==
  /\ source[c] # 0
  /\ cursor' = [cursor EXCEPT ![c] = 0]
  /\ UNCHANGED <<apiVars, form, awaits, timer, card, source, lines>>

\* onerror closes the stream for good.
StreamError(c) ==
  /\ source[c] # 0
  /\ source' = [source EXCEPT ![c] = 0]
  /\ UNCHANGED <<apiVars, form, awaits, timer, card, cursor, lines>>

\* The New run button stands on the result card.
resetToIdle(c) ==
  /\ card[c] # 0
  /\ resetRunState(c)
  /\ form' = [form EXCEPT ![c] = TRUE]
  /\ timer' = [timer EXCEPT ![c] = FALSE]
  /\ UNCHANGED <<apiVars, awaits>>

Receive(c) == renderFromResponse(c) \/ ErrorResponse(c)

PageStep(c) == \/ submitRequest(c) \/ NetworkError(c) \/ Receive(c)
               \/ LogEvent(c) \/ StreamError(c) \/ resetToIdle(c)

Next == \/ \E p \in Posts : create_agent_run(p) /\ UNCHANGED pageVars
        \/ Clock /\ UNCHANGED pageVars
        \/ \E c \in Pages : PageStep(c)

Spec == Init /\ [][Next]_vars

(***************************************************************************)
(* The loop resumes every coroutine that can go on, and the calls a run    *)
(* and the guardrail wait for end; the browser runs every callback that is *)
(* due.  No one need submit anything, and no connection need break.        *)
(***************************************************************************)
FairSpec == /\ Spec
            /\ \A p \in Posts : WF_vars(create_agent_run(p) /\ UNCHANGED pageVars)
            /\ \A c \in Pages : WF_vars(Receive(c)) /\ WF_vars(LogEvent(c))

-------------------------------------------------------------------------------
\* TypeOK: each variable holds a value of its type (the coroutines of
\* create_agent_run, the run store, the variables of every page).
TypeOK == /\ Limiter!TypeOK
          /\ posts \in [Posts -> Post]
          /\ runs \in [Posts -> Run]
          /\ security \subseteq Posts
          /\ form \in [Pages -> BOOLEAN]
          /\ awaits \in [Pages -> Posts \cup {0}]
          /\ timer \in [Pages -> BOOLEAN]
          /\ card \in [Pages -> Posts \cup {0}]
          /\ source \in [Pages -> Posts \cup {0}]
          /\ cursor \in [Pages -> 0 .. MaxProgress + 1]
          /\ lines \in [Pages -> Seq([run : Posts, n : Nat \ {0}, last : BOOLEAN])]

(***************************************************************************)
(* AnswersMatchStore: what a client is told of its request is what the     *)
(* store says for good: 200 and a card are about a run that is over, 503   *)
(* about a failed one without a terminal event, and a request that was     *)
(* refused, at whichever stage, left no run behind (agent.py:133-172).     *)
(***************************************************************************)
AnswersMatchStore ==
  /\ \A p \in Posts : posts[p].stage = "answered" =>
       runs[p].status = CASE posts[p].code = "ok" -> "settled"
                          [] posts[p].code = "planning_failed" -> "failed"
                          [] OTHER -> "absent"
  /\ \A p \in Posts : (runs[p].status = "settled") <=> \E i \in DOMAIN runs[p].log : runs[p].log[i].last
  /\ \A c \in Pages : card[c] # 0 =>
       /\ runs[card[c]].status = "settled"
       /\ posts[card[c]].ip = IpOf[c]

(***************************************************************************)
(* RejectionsEarned: the guardrail refuses a request only when the model   *)
(* said so of that very request; a model that fails, or is not asked,      *)
(* refuses nothing ("fails OPEN", guardrail.py:139-142); and a             *)
(* security_event is emitted for the malicious ones and for no other.      *)
(***************************************************************************)
RejectionsEarned ==
  /\ \A p \in Posts :
       posts[p].code = "rejected" <=> posts[p].verdict \in {"malicious", "non_document"}
  /\ security = {p \in Posts : posts[p].verdict = "malicious"}

(***************************************************************************)
(* LogOfShownRun: the event lines of a page are the first events of the    *)
(* run whose card it shows, each once and in order, whatever runs the page *)
(* showed before and however its streams ended: "it can neither zero-out   *)
(* the authoritative state nor double-count" (app.js:14-21).               *)
(***************************************************************************)
LogOfShownRun ==
  \A c \in Pages :
    /\ source[c] \in {0, card[c]}
    /\ card[c] = 0 => lines[c] = <<>>
    /\ card[c] # 0 => /\ Len(lines[c]) <= Len(runs[card[c]].log)
                      /\ lines[c] = SubSeq(runs[card[c]].log, 1, Len(lines[c]))

(***************************************************************************)
(* FormFree: a page cannot be submitted while its request is under way, so *)
(* its runs never mix; and on every other path, errors included, it can be *)
(* used again and its timer stands still (app.js:117-135, 822-887).        *)
(***************************************************************************)
FormFree ==
  \A c \in Pages : /\ form[c] <=> awaits[c] = 0
                   /\ timer[c] <=> awaits[c] # 0
                   /\ awaits[c] # 0 => card[c] = 0 /\ source[c] = 0

(***************************************************************************)
(* PageSettles: a page that sent a request can be used again, however that *)
(* request ends and whatever the other requests do (app.js:838-887).       *)
(***************************************************************************)
PageSettles == \A c \in Pages : awaits[c] # 0 ~> form[c]

===============================================================================
