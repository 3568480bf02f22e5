----------------------------- MODULE RateLimiter -----------------------------
(***************************************************************************)
(* The per-IP sliding window in front of POST /agent                       *)
(* (src/app/core/rate_limiter.py) with the Retry-After header the API      *)
(* derives from its decisions (src/app/api/agent.py).                      *)
(*                                                                         *)
(* check has no await: it is one step.  The clock is time.monotonic, in    *)
(* ticks of 1/TicksPerSecond of a second, so that requests fall between    *)
(* whole seconds and the header is rounded.                                *)
(***************************************************************************)
EXTENDS Integers, Sequences

CONSTANTS IPs,             \* client addresses
          Limit,           \* RATE_LIMIT_MAX
          WindowSeconds,   \* RATE_LIMIT_WINDOW_SECONDS
          TicksPerSecond,  \* resolution of the clock
          MaxClock         \* bound of the model: the latest tick

ASSUME RateAssumption == /\ Limit \in Nat /\ WindowSeconds \in Nat
                         /\ TicksPerSecond \in Nat \ {0} /\ MaxClock \in Nat

VARIABLES clock,     \* _time_fn()
          hits,      \* _hits: times of the requests still in the window
          allowed,   \* history: times of every request ever allowed
          promise    \* history: what the latest 429 since the latest allowed
                     \* request told each IP, as the tick it may come back

vars == <<clock, hits, allowed, promise>>

Window == WindowSeconds * TicksPerSecond

DefaultRetryAfter == 60

NoPromise == [asked |-> 0, back |-> -1]

Init == /\ clock = 0
        /\ hits = [ip \in IPs |-> <<>>]
        /\ allowed = [ip \in IPs |-> <<>>]
        /\ promise = [ip \in IPs |-> NoPromise]

\* MUTANT of evict_stale: a hit exactly one window old is kept.
evict_stale_late(h) ==
  LET first == CHOOSE i \in 1 .. Len(h) + 1 :
                 /\ \A j \in 1 .. i - 1 : h[j] < clock - Window
                 /\ i <= Len(h) => h[i] >= clock - Window
  IN  SubSeq(h, first, Len(h))

\* MUTANT of evict_stale: the oldest hit goes, whatever its age.
evict_oldest(h) == IF h = <<>> THEN h ELSE Tail(h)

\* Hits are dropped from the left up to the first one inside the window.
evict_stale(h) ==
  LET first == CHOOSE i \in 1 .. Len(h) + 1 :
                 /\ \A j \in 1 .. i - 1 : h[j] <= clock - Window
                 /\ i <= Len(h) => h[i] > clock - Window
  IN  SubSeq(h, first, Len(h))

\* Ticks until the oldest hit leaves the window; 0 stands for None.
retry_after(h) ==
  IF h = <<>> \/ h[1] + Window <= clock THEN 0 ELSE h[1] + Window - clock

\* MUTANT of header_seconds: the delay is rounded down.
header_rounded_down(ticks) ==
  IF ticks > 0 THEN ticks \div TicksPerSecond ELSE DefaultRetryAfter

\* The Retry-After header: whole seconds, rounded up, or the default.
header_seconds(ticks) ==
  IF ticks > 0 THEN (ticks + TicksPerSecond - 1) \div TicksPerSecond
               ELSE DefaultRetryAfter

\* MUTANT of Allow: the time the hit expires is stored, not its own.
AllowStoresExpiry(ip) ==
  LET h == evict_stale(hits[ip])
  IN  /\ Len(h) < Limit
      /\ hits' = [hits EXCEPT ![ip] = Append(h, clock + Window)]
      /\ allowed' = [allowed EXCEPT ![ip] = Append(@, clock)]
      /\ promise' = [promise EXCEPT ![ip] = NoPromise]
      /\ UNCHANGED clock

Allow(ip) == LET h == evict_stale(hits[ip])
             IN  /\ Len(h) < Limit
                 /\ hits' = [hits EXCEPT ![ip] = Append(h, clock)]
                 /\ allowed' = [allowed EXCEPT ![ip] = Append(@, clock)]
                 /\ promise' = [promise EXCEPT ![ip] = NoPromise]
                 /\ UNCHANGED clock

\* A denied request is not recorded; the eviction before it stays done.
Deny(ip) == LET h == evict_stale(hits[ip])
            IN  /\ Len(h) >= Limit
                /\ hits' = [hits EXCEPT ![ip] = h]
                /\ promise' = [promise EXCEPT ![ip] =
                     [asked |-> clock,
                      back  |-> clock
                        + TicksPerSecond * header_seconds(retry_after(h))]]
                /\ UNCHANGED <<clock, allowed>>

check(ip) == Allow(ip) \/ Deny(ip)

Tick == /\ clock < MaxClock
        /\ clock' = clock + 1
        /\ UNCHANGED <<hits, allowed, promise>>

Next == Tick \/ \E ip \in IPs : check(ip)

Spec == Init /\ [][Next]_vars

-------------------------------------------------------------------------------
\* A request of ip is answered 429 by this step.
Denied(ip) == promise'[ip] # promise[ip] /\ promise'[ip] # NoPromise

\* A request of ip is let in by this step.
LetIn(ip) == allowed'[ip] # allowed[ip]

\* TypeOK: each variable holds a value of its type (RateLimiter._hits and the
\* clock it reads).
TypeOK == /\ clock \in 0 .. MaxClock
          /\ hits \in [IPs -> Seq(0 .. MaxClock)]
          /\ allowed \in [IPs -> Seq(0 .. MaxClock)]
          /\ promise \in [IPs -> [asked : Nat, back : Int]]

(***************************************************************************)
(* WindowRespected: no stretch of time as long as the window, wherever it  *)
(* begins, holds more than Limit allowed requests of one IP: evictions,    *)
(* denials and the requests of other IPs in between never let one more in. *)
(* Allowed requests are in time order, so Limit + 1 of them in one window  *)
(* are consecutive.                                                        *)
(***************************************************************************)
WindowRespected ==
  \A ip \in IPs : \A i \in DOMAIN allowed[ip] :
    i > Limit => allowed[ip][i] - allowed[ip][i - Limit] >= Window

(***************************************************************************)
(* DenialEarned: a request is answered 429 only when its own IP had Limit  *)
(* requests allowed in the window that ends now, whatever other IPs sent   *)
(* and however often this one was denied before: denials cost nothing.     *)
(***************************************************************************)
DenialEarned ==
  [][\A ip \in IPs :
       Denied(ip) => /\ Len(allowed[ip]) >= Limit
                     /\ Limit > 0 => clock - allowed[ip][Len(allowed[ip]) + 1 - Limit]
                                       < Window]_vars

(***************************************************************************)
(* RetryAfterHonest: a client that waits as long as Retry-After says is    *)
(* let in, unless another request of its IP was let in since; and it is    *)
(* not told to stay away a second too long: nobody is let in from its IP   *)
(* a whole second or more before the time it was given.                    *)
(***************************************************************************)
RetryAfterHonest ==
  [][\A ip \in IPs :
       promise[ip] # NoPromise =>
         /\ Denied(ip) => clock < promise[ip].back
         /\ LetIn(ip)  => clock > promise[ip].back - TicksPerSecond]_vars

===============================================================================
