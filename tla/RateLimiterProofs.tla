-------------------------- MODULE RateLimiterProofs --------------------------
(***************************************************************************)
(* For every number of addresses, limit, window and resolution of the      *)
(* clock: the limiter respects its limit in every window, denies only when *)
(* it must, and tells the truth in Retry-After.                            *)
(*                                                                         *)
(* The inductive invariant says what the queue of an address is: a suffix  *)
(* of the times of all its allowed requests, of which all that was dropped *)
(* has left the window for good; and what a promise is: the first whole    *)
(* second, counted from the denial, at which the request that stands Limit *)
(* places back has left the window.                                        *)
(***************************************************************************)
EXTENDS RateLimiter, SequenceTheorems, WellFoundedInduction, TLAPS

Times == 0 .. MaxClock

\* a is in time order and not in the future.
Ordered(a) == /\ \A i, j \in 1 .. Len(a) : i <= j => a[i] <= a[j]
              /\ \A i \in 1 .. Len(a) : a[i] <= clock

\* h is a suffix of a, and what comes before it in a has left the window.
Recent(h, a) == /\ Len(h) <= Len(a)
                /\ Len(h) <= Limit
                /\ \A i \in 1 .. Len(h) : h[i] = a[Len(a) - Len(h) + i]
                /\ \A i \in 1 .. Len(a) - Len(h) : a[i] <= clock - Window

\* Any Limit + 1 consecutive requests span at least a window.
Spread(a) == \A i \in 1 .. Len(a) : i > Limit => a[i] - a[i - Limit] >= Window

\* When the oldest of the latest Limit requests leaves the window.
FreeAgain(a) == a[Len(a) + 1 - Limit] + Window

\* p was made for the requests in a.
Kept(p, a) == p # NoPromise => /\ Len(a) >= Limit
                               /\ FreeAgain(a) <= p.back
                               /\ p.back < FreeAgain(a) + TicksPerSecond

IInv == /\ TypeOK
        /\ \A ip \in IPs : /\ Ordered(allowed[ip])
                           /\ Recent(hits[ip], allowed[ip])
                           /\ Spread(allowed[ip])
                           /\ Limit > 0 => Kept(promise[ip], allowed[ip])
-------------------------------------------------------------------------------
\* A set of naturals that is not empty has a least element.
LEMMA LeastNatural ==
  ASSUME NEW T \in SUBSET Nat, T # {}
  PROVE  \E x \in T : \A y \in T : x <= y
  <1> DEFINE R == OpToRel(<, Nat)
  <1>1. PICK x \in T : \A y \in T : ~ (<<y, x>> \in R)
    <2>1. IsWellFoundedOn(R, Nat)
      BY NatLessThanWellFounded
    <2> HIDE DEF R
    <2> QED
      BY <2>1, WFMin
  <1>2. ASSUME NEW y \in T PROVE x <= y
    <2>1. ~ (y < x)
      BY <1>1 DEF OpToRel
    <2> QED
      BY <2>1
  <1> QED
    BY <1>2

LEMMA WindowNat == Window \in Nat
  BY RateAssumption DEF Window

\* What is left after the eviction: a suffix of h, all of it inside the window
\* if h is in time order, and nothing before it.
LEMMA EvictStale ==
  ASSUME NEW h \in Seq(Times), clock \in Nat
  PROVE  \E n \in 0 .. Len(h) :
           /\ evict_stale(h) \in Seq(Times)
           /\ Len(evict_stale(h)) = Len(h) - n
           /\ \A i \in 1 .. Len(h) - n : evict_stale(h)[i] = h[n + i]
           /\ \A i \in 1 .. n : h[i] <= clock - Window
           /\ n < Len(h) => h[n + 1] > clock - Window
  <1> DEFINE Inside == {i \in 1 .. Len(h) + 1 : i <= Len(h) => h[i] > clock - Window}
             Is(i)  == /\ \A j \in 1 .. i - 1 : h[j] <= clock - Window
                       /\ i <= Len(h) => h[i] > clock - Window
             first == CHOOSE i \in 1 .. Len(h) + 1 : Is(i)
  <1>0. /\ Len(h) \in Nat
        /\ \A i \in 1 .. Len(h) : h[i] \in Times /\ h[i] \in Int
        /\ clock - Window \in Int
    BY WindowNat, RateAssumption DEF Times
  <1>1. PICK x \in Inside : \A y \in Inside : x <= y
    <2>1. Len(h) + 1 \in Inside /\ Inside \subseteq Nat
      BY <1>0
    <2> HIDE DEF Inside
    <2> QED
      BY <2>1, LeastNatural
  <1>2. x \in 1 .. Len(h) + 1 /\ Is(x)
    <2>1. ASSUME NEW j \in 1 .. x - 1 PROVE h[j] <= clock - Window
      BY <1>0, <1>1
    <2> QED
      BY <2>1, <1>1
  <1> HIDE DEF Is
  <1>3. first \in 1 .. Len(h) + 1 /\ Is(first)
    BY <1>2
  <1>4. evict_stale(h) = SubSeq(h, first, Len(h))
    BY DEF evict_stale, Is
  <1> HIDE DEF first
  <1>5. /\ SubSeq(h, first, Len(h)) \in Seq(Times)
        /\ Len(SubSeq(h, first, Len(h)))
             = IF first <= Len(h) THEN Len(h) - first + 1 ELSE 0
        /\ \A i \in 1 .. Len(h) - first + 1 :
             SubSeq(h, first, Len(h))[i] = h[first + i - 1]
    <2>1. \A i \in first .. Len(h) : h[i] \in Times
      BY <1>0, <1>3
    <2> QED
      BY <1>0, <1>3, <2>1, SubSeqProperties
  <1>6. first - 1 \in 0 .. Len(h)
    BY <1>0, <1>3
  <1>7. /\ Len(evict_stale(h)) = Len(h) - (first - 1)
        /\ \A i \in 1 .. Len(h) - (first - 1) :
             evict_stale(h)[i] = h[first - 1 + i]
    BY <1>0, <1>3, <1>4, <1>5
  <1>8. first - 1 < Len(h) => h[first - 1 + 1] > clock - Window
    <2>1. first - 1 + 1 = first
      BY <1>3
    <2> QED
      BY <1>0, <1>3, <2>1 DEF Is
  <1>9. \A i \in 1 .. first - 1 : h[i] <= clock - Window
    BY <1>3 DEF Is
  <1> WITNESS first - 1 \in 0 .. Len(h)
  <1> QED
    BY <1>4, <1>5, <1>7, <1>8, <1>9

\* In the terms of the invariant: the eviction leaves a suffix of the allowed
\* requests, the whole of the window that ends now.
LEMMA EvictedRecent ==
  ASSUME NEW h \in Seq(Times), NEW a \in Seq(Times), clock \in Nat,
         Ordered(a), Recent(h, a)
  PROVE  /\ evict_stale(h) \in Seq(Times)
         /\ Recent(evict_stale(h), a)
         /\ \A i \in 1 .. Len(evict_stale(h)) : evict_stale(h)[i] > clock - Window
  <1> DEFINE g == evict_stale(h)
  <1>0. /\ Len(h) \in Nat /\ Len(a) \in Nat /\ Limit \in Nat
        /\ clock - Window \in Int
        /\ \A i \in 1 .. Len(a) : a[i] \in Int
    BY WindowNat, RateAssumption DEF Times
  <1>1. PICK n \in 0 .. Len(h) :
          /\ evict_stale(h) \in Seq(Times)
          /\ Len(evict_stale(h)) = Len(h) - n
          /\ \A i \in 1 .. Len(h) - n : evict_stale(h)[i] = h[n + i]
          /\ \A i \in 1 .. n : h[i] <= clock - Window
          /\ n < Len(h) => h[n + 1] > clock - Window
    BY EvictStale
  <1> HIDE DEF g
  <1>2. g \in Seq(Times) /\ Len(g) = Len(h) - n
    BY <1>1 DEF g
  <1>3. ASSUME NEW i \in 1 .. Len(g) PROVE g[i] = a[Len(a) - Len(g) + i]
    <2>1. g[i] = h[n + i] /\ n + i \in 1 .. Len(h)
      BY <1>0, <1>1, <1>2 DEF g
    <2>2. h[n + i] = a[Len(a) - Len(h) + (n + i)]
      BY <2>1 DEF Recent
    <2>3. Len(a) - Len(h) + (n + i) = Len(a) - Len(g) + i
      BY <1>0, <1>2
    <2> QED
      BY <2>1, <2>2, <2>3
  <1>4. ASSUME NEW i \in 1 .. Len(a) - Len(g) PROVE a[i] <= clock - Window
    <2>1. CASE i <= Len(a) - Len(h)
      BY <1>0, <2>1 DEF Recent
    <2>2. CASE i > Len(a) - Len(h)
      <3>1. i - (Len(a) - Len(h)) \in 1 .. n
        BY <1>0, <1>2, <2>2
      <3>2. h[i - (Len(a) - Len(h))] <= clock - Window
        BY <1>1, <3>1
      <3>3. i - (Len(a) - Len(h)) \in 1 .. Len(h)
        BY <1>0, <3>1
      <3>4. h[i - (Len(a) - Len(h))]
              = a[Len(a) - Len(h) + (i - (Len(a) - Len(h)))]
        BY <3>3 DEF Recent
      <3>5. Len(a) - Len(h) + (i - (Len(a) - Len(h))) = i
        BY <1>0
      <3> QED
        BY <3>2, <3>4, <3>5
    <2> QED
      BY <1>0, <2>1, <2>2
  <1>5. ASSUME NEW i \in 1 .. Len(g) PROVE g[i] > clock - Window
    <2>1. n < Len(h) /\ 1 \in 1 .. Len(g)
      BY <1>0, <1>2
    <2>2. g[1] = h[n + 1]
      BY <1>1, <1>2, <2>1 DEF g
    <2>3. g[1] > clock - Window
      BY <1>1, <2>1, <2>2
    <2>4. g[1] = a[Len(a) - Len(g) + 1] /\ g[i] = a[Len(a) - Len(g) + i]
      BY <1>3, <2>1
    <2>5. /\ Len(a) - Len(g) + 1 \in 1 .. Len(a)
          /\ Len(a) - Len(g) + i \in 1 .. Len(a)
          /\ Len(a) - Len(g) + 1 <= Len(a) - Len(g) + i
      BY <1>0, <1>2 DEF Recent
    <2>6. a[Len(a) - Len(g) + 1] <= a[Len(a) - Len(g) + i]
      BY <2>5 DEF Ordered
    <2>7. /\ a[Len(a) - Len(g) + 1] \in Int
          /\ a[Len(a) - Len(g) + i] \in Int
      BY <1>0, <2>5
    <2>8. g[1] <= g[i] /\ g[1] \in Int /\ g[i] \in Int
      BY <2>4, <2>6, <2>7
    <2> QED
      BY <1>0, <2>3, <2>8
  <1>6. Len(g) <= Len(a) /\ Len(g) <= Limit
    BY <1>0, <1>2 DEF Recent
  <1> QED
    BY <1>2, <1>3, <1>4, <1>5, <1>6 DEF g, Recent

\* The header is the first whole second at or after the delay.
LEMMA HeaderSeconds ==
  ASSUME NEW t \in Nat, t > 0
  PROVE  /\ header_seconds(t) \in Nat
         /\ t <= TicksPerSecond * header_seconds(t)
         /\ TicksPerSecond * header_seconds(t) < t + TicksPerSecond
  <1> DEFINE n == TicksPerSecond
             q == (t + n - 1) \div n
             r == (t + n - 1) % n
  <1>1. n \in Nat /\ n > 0 /\ t + n - 1 \in Nat
    BY RateAssumption
  <1>2. header_seconds(t) = q
    BY DEF header_seconds
  <1>3. q \in Nat /\ r \in 0 .. n - 1 /\ t + n - 1 = n * q + r
    BY <1>1
  <1>4. n * q \in Nat
    BY <1>1, <1>3
  <1> HIDE DEF n, q, r
  <1> QED
    BY <1>1, <1>2, <1>3, <1>4 DEF n

\* When the limit is reached, the delay leads to the time the request that
\* stands Limit places back leaves the window.
LEMMA RetryAfter ==
  ASSUME NEW g \in Seq(Times), NEW a \in Seq(Times), clock \in Nat, Limit > 0,
         Recent(g, a), Ordered(a), Len(g) >= Limit,
         \A i \in 1 .. Len(g) : g[i] > clock - Window
  PROVE  /\ Len(a) >= Limit
         /\ retry_after(g) \in Nat /\ retry_after(g) > 0
         /\ clock + retry_after(g) = FreeAgain(a)
         /\ FreeAgain(a) > clock
  <1>1. /\ Len(g) \in Nat /\ Len(a) \in Nat /\ Limit \in Nat
        /\ Window \in Nat /\ Len(g) = Limit
    BY WindowNat, RateAssumption DEF Recent
  <1>2. 1 \in 1 .. Len(g) /\ g # <<>>
    BY <1>1
  <1>3. g[1] \in Nat
    <2>1. g[1] \in Times
      BY <1>2
    <2> QED
      BY <2>1, RateAssumption DEF Times
  <1>4. g[1] = a[Len(a) + 1 - Limit]
    <2>1. g[1] = a[Len(a) - Len(g) + 1]
      BY <1>2 DEF Recent
    <2>2. Len(a) - Len(g) + 1 = Len(a) + 1 - Limit
      BY <1>1
    <2> QED
      BY <2>1, <2>2
  <1>5. Len(a) >= Limit
    BY <1>1 DEF Recent
  <1>6. g[1] > clock - Window
    BY <1>2
  <1>7. ~ (g[1] + Window <= clock)
    BY <1>1, <1>3, <1>6
  <1>8. retry_after(g) = g[1] + Window - clock
    BY <1>2, <1>7 DEF retry_after
  <1> QED
    BY <1>1, <1>3, <1>4, <1>5, <1>7, <1>8 DEF FreeAgain
-------------------------------------------------------------------------------
LEMMA InitInv == Init => IInv
  <1> SUFFICES ASSUME Init PROVE IInv
    OBVIOUS
  <1>1. TypeOK
    BY RateAssumption DEF Init, TypeOK, NoPromise
  <1>2. ASSUME NEW ip \in IPs
        PROVE  /\ Ordered(allowed[ip])
               /\ Recent(hits[ip], allowed[ip])
               /\ Spread(allowed[ip])
               /\ Kept(promise[ip], allowed[ip])
    <2>1. hits[ip] = <<>> /\ allowed[ip] = <<>> /\ promise[ip] = NoPromise
      BY DEF Init
    <2> QED
      BY <2>1, RateAssumption DEF Ordered, Recent, Spread, Kept
  <1> QED
    BY <1>1, <1>2 DEF IInv

\* What the invariant gives for one address.
LEMMA OfOne ==
  ASSUME IInv, NEW ip \in IPs
  PROVE  /\ clock \in Nat /\ clock <= MaxClock
         /\ hits[ip] \in Seq(Times)
         /\ allowed[ip] \in Seq(Times)
         /\ Ordered(allowed[ip])
         /\ Recent(hits[ip], allowed[ip])
         /\ Spread(allowed[ip])
         /\ Limit > 0 => Kept(promise[ip], allowed[ip])
  BY RateAssumption DEF IInv, TypeOK, Times

LEMMA TickInv == IInv /\ Tick => IInv'
  <1> SUFFICES ASSUME IInv, Tick PROVE IInv'
    OBVIOUS
  <1>1. TypeOK'
    BY RateAssumption DEF IInv, TypeOK, Tick
  <1>2. clock \in Nat /\ clock' = clock + 1 /\ Window \in Nat
    BY WindowNat, RateAssumption DEF Tick, IInv, TypeOK
  <1>3. UNCHANGED <<hits, allowed, promise>>
    BY DEF Tick
  <1>4. ASSUME NEW ip \in IPs
        PROVE  /\ Ordered(allowed[ip])'
               /\ Recent(hits[ip], allowed[ip])'
               /\ Spread(allowed[ip])'
               /\ (Limit > 0 => Kept(promise[ip], allowed[ip]))'
    <2>1. /\ Ordered(allowed[ip]) /\ Recent(hits[ip], allowed[ip])
          /\ Spread(allowed[ip])
          /\ Limit > 0 => Kept(promise[ip], allowed[ip])
          /\ allowed[ip] \in Seq(Times) /\ hits[ip] \in Seq(Times)
      BY OfOne
    <2>2. /\ \A i \in 1 .. Len(allowed[ip]) : allowed[ip][i] \in Int
          /\ Len(allowed[ip]) \in Nat /\ Len(hits[ip]) \in Nat
      BY <2>1, RateAssumption DEF Times
    <2>3. Ordered(allowed[ip])'
      BY <1>2, <1>3, <2>1, <2>2 DEF Ordered
    <2>4. \A i \in 1 .. Len(allowed[ip]) - Len(hits[ip]) :
            allowed[ip][i] <= clock' - Window
      <3> TAKE i \in 1 .. Len(allowed[ip]) - Len(hits[ip])
      <3>0. allowed[ip][i] <= clock - Window
        BY <2>1 DEF Recent
      <3>1. i \in 1 .. Len(allowed[ip])
        <4>1. Len(allowed[ip]) \in Nat /\ Len(hits[ip]) \in Nat
          BY <2>2
        <4> QED
          BY <4>1
      <3>2. allowed[ip][i] \in Int
        BY <2>2, <3>1
      <3> QED
        BY <1>2, <3>0, <3>2
    <2>5. Recent(hits[ip], allowed[ip])'
      BY <1>3, <2>1, <2>4 DEF Recent, Window
    <2>6. Spread(allowed[ip])'
      BY <1>3, <2>1 DEF Spread, Window
    <2>7. (Limit > 0 => Kept(promise[ip], allowed[ip]))'
      BY <1>3, <2>1 DEF Kept, FreeAgain, Window
    <2> QED
      BY <2>3, <2>5, <2>6, <2>7
  <1> QED
    BY <1>1, <1>4 DEF IInv

\* The times of an address whose request is allowed now.
LEMMA AllowedNow ==
  ASSUME NEW h \in Seq(Times), NEW a \in Seq(Times), clock \in Times,
         Ordered(a), Recent(h, a), Spread(a), Len(h) < Limit
  PROVE  /\ Append(h, clock) \in Seq(Times)
         /\ Append(a, clock) \in Seq(Times)
         /\ Ordered(Append(a, clock))
         /\ Recent(Append(h, clock), Append(a, clock))
         /\ Spread(Append(a, clock))
  <1> DEFINE b == Append(a, clock)
             g == Append(h, clock)
  <1>0. /\ Len(h) \in Nat /\ Len(a) \in Nat /\ Limit \in Nat
        /\ clock \in Nat /\ Window \in Nat
        /\ \A i \in 1 .. Len(a) : a[i] \in Int
    BY WindowNat, RateAssumption DEF Times
  <1>1. /\ b \in Seq(Times) /\ Len(b) = Len(a) + 1 /\ b[Len(a) + 1] = clock
        /\ \A i \in 1 .. Len(a) : b[i] = a[i]
        /\ g \in Seq(Times) /\ Len(g) = Len(h) + 1 /\ g[Len(h) + 1] = clock
        /\ \A i \in 1 .. Len(h) : g[i] = h[i]
    OBVIOUS
  <1> HIDE DEF b, g
  <1>2. \A i \in 1 .. Len(b) : b[i] <= clock /\ b[i] \in Int
    <2> TAKE i \in 1 .. Len(b)
    <2>1. CASE i = Len(a) + 1
      BY <1>0, <1>1, <2>1
    <2>2. CASE i \in 1 .. Len(a)
      BY <1>0, <1>1, <2>2 DEF Ordered
    <2> QED
      BY <1>0, <1>1, <2>1, <2>2
  <1>3. ASSUME NEW i \in 1 .. Len(b), NEW j \in 1 .. Len(b), i <= j
        PROVE  b[i] <= b[j]
    <2>1. CASE j = Len(a) + 1
      BY <1>1, <1>2, <2>1
    <2>2. CASE j \in 1 .. Len(a)
      <3>1. i \in 1 .. Len(a)
        BY <1>0, <1>3, <2>2
      <3>2. a[i] <= a[j]
        BY <1>3, <2>2, <3>1 DEF Ordered
      <3> QED
        BY <1>1, <2>2, <3>1, <3>2
    <2> QED
      BY <1>0, <1>1, <2>1, <2>2
  <1>4. ASSUME NEW i \in 1 .. Len(g) PROVE g[i] = b[Len(b) - Len(g) + i]
    <2>1. Len(b) - Len(g) + i = Len(a) - Len(h) + i
      BY <1>0, <1>1
    <2>2. CASE i = Len(h) + 1
      <3>1. Len(a) - Len(h) + i = Len(a) + 1
        BY <1>0, <2>2
      <3> QED
        BY <1>1, <2>1, <2>2, <3>1
    <2>3. CASE i \in 1 .. Len(h)
      <3>1. h[i] = a[Len(a) - Len(h) + i]
        BY <2>3 DEF Recent
      <3>2. Len(a) - Len(h) + i \in 1 .. Len(a)
        BY <1>0, <2>3 DEF Recent
      <3>3. b[Len(a) - Len(h) + i] = a[Len(a) - Len(h) + i]
        BY <1>1, <3>2
      <3> QED
        BY <1>1, <2>1, <2>3, <3>1, <3>3
    <2> QED
      BY <1>0, <1>1, <2>2, <2>3
  <1>5. ASSUME NEW i \in 1 .. Len(b) - Len(g) PROVE b[i] <= clock - Window
    <2>1. i \in 1 .. Len(a) - Len(h) /\ i \in 1 .. Len(a)
      BY <1>0, <1>1 DEF Recent
    <2>2. a[i] <= clock - Window
      BY <2>1 DEF Recent
    <2> QED
      BY <1>1, <2>1, <2>2
  <1>6. ASSUME NEW i \in 1 .. Len(b), i > Limit
        PROVE  b[i] - b[i - Limit] >= Window
    <2>1. CASE i \in 1 .. Len(a)
      <3>1. a[i] - a[i - Limit] >= Window
        BY <1>6, <2>1 DEF Spread
      <3>2. i - Limit \in 1 .. Len(a)
        BY <1>0, <1>6, <2>1
      <3>3. b[i] = a[i] /\ b[i - Limit] = a[i - Limit]
        BY <1>1, <2>1, <3>2
      <3> QED
        BY <3>1, <3>3
    <2>2. CASE i = Len(a) + 1
      <3>1. i - Limit \in 1 .. Len(a) - Len(h) /\ i - Limit \in 1 .. Len(a)
        BY <1>0, <1>6, <2>2 DEF Recent
      <3>2. a[i - Limit] <= clock - Window
        BY <3>1 DEF Recent
      <3>3. b[i] = clock /\ b[i - Limit] = a[i - Limit] /\ a[i - Limit] \in Int
        BY <1>0, <1>1, <2>2, <3>1
      <3> QED
        BY <1>0, <3>2, <3>3
    <2> QED
      BY <1>0, <1>1, <2>1, <2>2
  <1>7. Len(g) <= Len(b) /\ Len(g) <= Limit
    BY <1>0, <1>1 DEF Recent
  <1>8. Ordered(b)
    BY <1>2, <1>3 DEF Ordered
  <1>9. Recent(g, b)
    BY <1>4, <1>5, <1>7 DEF Recent
  <1>10. Spread(b)
    BY <1>6 DEF Spread
  <1> QED
    BY <1>1, <1>8, <1>9, <1>10 DEF b, g

LEMMA AllowInv == ASSUME IInv, NEW ip \in IPs, Allow(ip) PROVE IInv'
  <1> DEFINE h == evict_stale(hits[ip])
  <1>0. /\ clock \in Nat /\ clock \in Times /\ Limit \in Nat
        /\ hits[ip] \in Seq(Times) /\ allowed[ip] \in Seq(Times)
        /\ Ordered(allowed[ip]) /\ Recent(hits[ip], allowed[ip])
        /\ Spread(allowed[ip])
    BY OfOne, RateAssumption DEF Times
  <1>1. h \in Seq(Times) /\ Recent(h, allowed[ip])
    BY <1>0, EvictedRecent
  <1>2. /\ Len(h) < Limit
        /\ hits' = [hits EXCEPT ![ip] = Append(h, clock)]
        /\ allowed' = [allowed EXCEPT ![ip] = Append(allowed[ip], clock)]
        /\ promise' = [promise EXCEPT ![ip] = NoPromise]
        /\ clock' = clock
    BY DEF Allow
  <1> HIDE DEF h
  <1>3. /\ Append(h, clock) \in Seq(Times)
        /\ Append(allowed[ip], clock) \in Seq(Times)
        /\ Ordered(Append(allowed[ip], clock))
        /\ Recent(Append(h, clock), Append(allowed[ip], clock))
        /\ Spread(Append(allowed[ip], clock))
    BY <1>0, <1>1, <1>2, AllowedNow
  <1>4. /\ hits \in [IPs -> Seq(Times)] /\ allowed \in [IPs -> Seq(Times)]
        /\ promise \in [IPs -> [asked : Nat, back : Int]]
    BY DEF IInv, TypeOK, Times
  <1>5. TypeOK'
    <2>1. NoPromise \in [asked : Nat, back : Int]
      BY DEF NoPromise
    <2>2. /\ hits' \in [IPs -> Seq(Times)] /\ allowed' \in [IPs -> Seq(Times)]
          /\ promise' \in [IPs -> [asked : Nat, back : Int]]
      BY <1>2, <1>3, <1>4, <2>1
    <2> QED
      BY <1>2, <2>2 DEF IInv, TypeOK, Times
  <1>6. ASSUME NEW x \in IPs
        PROVE  /\ Ordered(allowed[x])'
               /\ Recent(hits[x], allowed[x])'
               /\ Spread(allowed[x])'
               /\ (Limit > 0 => Kept(promise[x], allowed[x]))'
    <2>1. CASE x = ip
      <3>1. /\ hits'[x] = Append(h, clock)
            /\ allowed'[x] = Append(allowed[ip], clock)
            /\ promise'[x] = NoPromise
        BY <1>2, <1>4, <2>1
      <3> QED
        BY <1>2, <1>3, <3>1 DEF Ordered, Recent, Spread, Kept, Window
    <2>2. CASE x # ip
      <3>1. /\ hits'[x] = hits[x] /\ allowed'[x] = allowed[x]
            /\ promise'[x] = promise[x]
        BY <1>2, <1>4, <2>2
      <3>2. /\ Ordered(allowed[x]) /\ Recent(hits[x], allowed[x])
            /\ Spread(allowed[x])
            /\ Limit > 0 => Kept(promise[x], allowed[x])
        BY OfOne
      <3> QED
        BY <1>2, <3>1, <3>2
           DEF Ordered, Recent, Spread, Kept, FreeAgain, Window
    <2> QED
      BY <2>1, <2>2
  <1> QED
    BY <1>5, <1>6 DEF IInv

\* What a denial finds out and answers.
LEMMA DeniedNow ==
  ASSUME IInv, NEW ip \in IPs, Deny(ip), Limit > 0
  PROVE  /\ Len(allowed[ip]) >= Limit
         /\ FreeAgain(allowed[ip]) > clock
         /\ promise'[ip].back \in Nat
         /\ FreeAgain(allowed[ip]) <= promise'[ip].back
         /\ promise'[ip].back < FreeAgain(allowed[ip]) + TicksPerSecond
  <1> DEFINE h == evict_stale(hits[ip])
             t == retry_after(h)
             s == TicksPerSecond * header_seconds(t)
  <1>0. /\ clock \in Nat
        /\ hits[ip] \in Seq(Times) /\ allowed[ip] \in Seq(Times)
        /\ Ordered(allowed[ip]) /\ Recent(hits[ip], allowed[ip])
        /\ promise \in [IPs -> [asked : Nat, back : Int]]
        /\ TicksPerSecond \in Nat
    BY OfOne, RateAssumption DEF IInv, TypeOK
  <1>1. /\ h \in Seq(Times) /\ Recent(h, allowed[ip])
        /\ \A i \in 1 .. Len(h) : h[i] > clock - Window
    BY <1>0, EvictedRecent
  <1>2. Len(h) >= Limit
    BY DEF Deny
  <1>3. promise'[ip] = [asked |-> clock, back |-> clock + s]
    BY <1>0 DEF Deny
  <1> HIDE DEF h
  <1>4. /\ Len(allowed[ip]) >= Limit
        /\ t \in Nat /\ t > 0
        /\ clock + t = FreeAgain(allowed[ip])
        /\ FreeAgain(allowed[ip]) > clock
    BY <1>0, <1>1, <1>2, RetryAfter
  <1> HIDE DEF t
  <1>5. header_seconds(t) \in Nat /\ t <= s /\ s < t + TicksPerSecond
    BY <1>4, HeaderSeconds
  <1>6. s \in Nat
    BY <1>0, <1>5
  <1> HIDE DEF s
  <1>7. promise'[ip].back = clock + s
    BY <1>3
  <1> QED
    BY <1>0, <1>4, <1>5, <1>6, <1>7

LEMMA DenyInv == ASSUME IInv, NEW ip \in IPs, Deny(ip) PROVE IInv'
  <1> DEFINE h == evict_stale(hits[ip])
             s == TicksPerSecond * header_seconds(retry_after(h))
             p == [asked |-> clock, back |-> clock + s]
  <1>0. /\ clock \in Nat /\ Limit \in Nat
        /\ hits[ip] \in Seq(Times) /\ allowed[ip] \in Seq(Times)
        /\ Ordered(allowed[ip]) /\ Recent(hits[ip], allowed[ip])
    BY OfOne, RateAssumption
  <1>1. h \in Seq(Times) /\ Recent(h, allowed[ip])
    BY <1>0, EvictedRecent
  <1>2. /\ hits' = [hits EXCEPT ![ip] = h]
        /\ promise' = [promise EXCEPT ![ip] = p]
        /\ clock' = clock /\ allowed' = allowed
    BY DEF Deny
  <1>3. s \in Int
    <2>1. header_seconds(retry_after(h)) \in Int
      <3>1. retry_after(h) \in Int
        <4>1. h # <<>> => h[1] \in Int
          BY <1>1, RateAssumption DEF Times
        <4> HIDE DEF h
        <4> QED
          BY <1>0, <4>1, WindowNat DEF retry_after
      <3>2. CASE retry_after(h) > 0
        BY <3>1, <3>2, HeaderSeconds
      <3>3. CASE ~ (retry_after(h) > 0)
        BY <3>3 DEF header_seconds, DefaultRetryAfter
      <3> QED
        BY <3>2, <3>3
    <2> QED
      BY <2>1, RateAssumption
  <1> HIDE DEF h, s
  <1>4. p \in [asked : Nat, back : Int]
    BY <1>0, <1>3
  <1> HIDE DEF p
  <1>5. /\ hits \in [IPs -> Seq(Times)] /\ allowed \in [IPs -> Seq(Times)]
        /\ promise \in [IPs -> [asked : Nat, back : Int]]
    BY DEF IInv, TypeOK, Times
  <1>6. TypeOK'
    <2>1. /\ hits' \in [IPs -> Seq(Times)] /\ allowed' \in [IPs -> Seq(Times)]
          /\ promise' \in [IPs -> [asked : Nat, back : Int]]
      BY <1>1, <1>2, <1>4, <1>5
    <2> QED
      BY <1>2, <2>1 DEF IInv, TypeOK, Times
  <1>7. ASSUME NEW x \in IPs
        PROVE  /\ Ordered(allowed[x])'
               /\ Recent(hits[x], allowed[x])'
               /\ Spread(allowed[x])'
               /\ (Limit > 0 => Kept(promise[x], allowed[x]))'
    <2>1. /\ Ordered(allowed[x]) /\ Recent(hits[x], allowed[x])
          /\ Spread(allowed[x])
          /\ Limit > 0 => Kept(promise[x], allowed[x])
      BY OfOne
    <2>2. Ordered(allowed[x])' /\ Spread(allowed[x])'
      BY <1>2, <2>1 DEF Ordered, Spread, Window
    <2>3. CASE x = ip
      <3>1. hits'[x] = h /\ allowed'[x] = allowed[ip]
        BY <1>2, <1>5, <2>3
      <3>2. Recent(hits[x], allowed[x])'
        BY <1>1, <1>2, <3>1 DEF Recent, Window
      <3>3. (Limit > 0 => Kept(promise[x], allowed[x]))'
        BY <1>2, <2>3, DeniedNow DEF Kept, FreeAgain, Window
      <3> QED
        BY <2>2, <3>2, <3>3
    <2>4. CASE x # ip
      <3>1. /\ hits'[x] = hits[x] /\ allowed'[x] = allowed[x]
            /\ promise'[x] = promise[x]
        BY <1>2, <1>5, <2>4
      <3> QED
        BY <1>2, <2>1, <2>2, <3>1 DEF Recent, Kept, FreeAgain, Window
    <2> QED
      BY <2>3, <2>4
  <1> QED
    BY <1>6, <1>7 DEF IInv

LEMMA NextInv == IInv /\ [Next]_vars => IInv'
  <1> SUFFICES ASSUME IInv, [Next]_vars PROVE IInv'
    OBVIOUS
  <1>1. CASE Tick
    BY <1>1, TickInv
  <1>2. ASSUME NEW ip \in IPs, check(ip) PROVE IInv'
    BY <1>2, AllowInv, DenyInv DEF check
  <1>3. CASE UNCHANGED vars
    BY <1>3 DEF vars, IInv, TypeOK, Ordered, Recent, Spread, Kept, FreeAgain,
                Window
  <1> QED
    BY <1>1, <1>2, <1>3 DEF Next

-------------------------------------------------------------------------------
\* The clock, the queues and the histories keep their types
\* (rate_limiter.py:65-88).
THEOREM TypeCorrect == Spec => []TypeOK
  <1>1. IInv => TypeOK
    BY DEF IInv
  <1> QED
    BY <1>1, InitInv, NextInv, PTL DEF Spec

\* No stretch of time as long as the window holds more than Limit allowed
\* requests of an address (rate_limiter.py:90-139).
THEOREM WindowHolds == Spec => []WindowRespected
  <1>1. ASSUME IInv PROVE WindowRespected
    <2>1. ASSUME NEW ip \in IPs, NEW i \in DOMAIN allowed[ip], i > Limit
          PROVE  allowed[ip][i] - allowed[ip][i - Limit] >= Window
      <3>1. allowed[ip] \in Seq(Times) /\ Spread(allowed[ip])
        BY OfOne, <1>1
      <3>2. i \in 1 .. Len(allowed[ip])
        BY <3>1
      <3> QED
        BY <2>1, <3>1, <3>2 DEF Spread
    <2> QED
      BY <2>1 DEF WindowRespected
  <1> QED
    BY <1>1, InitInv, NextInv, PTL DEF Spec

\* The cause of a 429: this step denies a request of ip, and no other step does.
LEMMA OnlyDenyDenies ==
  ASSUME IInv, [Next]_vars, NEW ip \in IPs, Denied(ip)
  PROVE  Deny(ip)
  <1>1. promise'[ip] # promise[ip] /\ promise'[ip] # NoPromise
    BY DEF Denied
  <1>2. promise \in [IPs -> [asked : Nat, back : Int]]
    BY DEF IInv, TypeOK
  <1>3. ~ Tick /\ ~ UNCHANGED vars
    BY <1>1 DEF Tick, vars
  <1>4. PICK x \in IPs : check(x)
    BY <1>3 DEF Next
  <1>5. ~ Allow(x)
    BY <1>1, <1>2 DEF Allow
  <1>6. Deny(x)
    BY <1>4, <1>5 DEF check
  <1>7. x = ip
    BY <1>1, <1>2, <1>6 DEF Deny
  <1> QED
    BY <1>6, <1>7

\* The cause of an allowed request.
LEMMA OnlyAllowLetsIn ==
  ASSUME IInv, [Next]_vars, NEW ip \in IPs, LetIn(ip)
  PROVE  Allow(ip)
  <1>1. allowed'[ip] # allowed[ip]
    BY DEF LetIn
  <1>2. allowed \in [IPs -> Seq(Times)]
    BY DEF IInv, TypeOK, Times
  <1>3. ~ Tick /\ ~ UNCHANGED vars
    BY <1>1 DEF Tick, vars
  <1>4. PICK x \in IPs : check(x)
    BY <1>3 DEF Next
  <1>5. ~ Deny(x)
    BY <1>1 DEF Deny
  <1>6. Allow(x)
    BY <1>4, <1>5 DEF check
  <1>7. x = ip
    BY <1>1, <1>2, <1>6 DEF Allow
  <1> QED
    BY <1>6, <1>7

\* A request is denied only when its address had Limit requests allowed in the
\* window that ends now (rate_limiter.py:113-120).
THEOREM DenialEarnedHolds == Spec => DenialEarned
  <1> DEFINE Earned(ip) ==
               Denied(ip) => /\ Len(allowed[ip]) >= Limit
                             /\ Limit > 0 => clock - allowed[ip][Len(allowed[ip]) + 1 - Limit]
                                               < Window
  <1>1. ASSUME IInv, [Next]_vars, NEW ip \in IPs PROVE Earned(ip)
    <2> SUFFICES ASSUME Denied(ip)
                 PROVE  /\ Len(allowed[ip]) >= Limit
                        /\ Limit > 0 => clock - allowed[ip][Len(allowed[ip]) + 1 - Limit]
                                          < Window
      OBVIOUS
    <2>1. Deny(ip)
      BY <1>1, OnlyDenyDenies
    <2>2. /\ allowed[ip] \in Seq(Times) /\ Len(allowed[ip]) \in Nat
          /\ clock \in Nat /\ Limit \in Nat /\ Window \in Nat
      BY <1>1, OfOne, RateAssumption, WindowNat
    <2>3. CASE Limit > 0
      <3>1. Len(allowed[ip]) >= Limit /\ FreeAgain(allowed[ip]) > clock
        BY <1>1, <2>1, <2>3, DeniedNow
      <3>2. allowed[ip][Len(allowed[ip]) + 1 - Limit] \in Int
        <4>1. Len(allowed[ip]) + 1 - Limit \in 1 .. Len(allowed[ip])
          BY <2>2, <2>3, <3>1
        <4>2. allowed[ip][Len(allowed[ip]) + 1 - Limit] \in Times
          BY <2>2, <4>1
        <4> QED
          BY <4>2, RateAssumption DEF Times
      <3> QED
        BY <2>2, <3>1, <3>2 DEF FreeAgain
    <2>4. CASE ~ (Limit > 0)
      BY <2>2, <2>4
    <2> QED
      BY <2>3, <2>4
  <1> HIDE DEF Earned
  <1>2. IInv /\ [Next]_vars => [\A ip \in IPs : Earned(ip)]_vars
    BY <1>1
  <1>3. Spec => [][\A ip \in IPs : Earned(ip)]_vars
    BY <1>2, InitInv, NextInv, PTL DEF Spec
  <1> QED
    BY <1>3 DEF DenialEarned, Earned

\* With a limit of at least one request, Retry-After is neither too short nor a
\* second too long (rate_limiter.py:141-161, agent.py:333-357).
THEOREM RetryAfterHolds == ASSUME Limit > 0 PROVE Spec => RetryAfterHonest
  <1> DEFINE Honest(ip) ==
               promise[ip] # NoPromise =>
                 /\ Denied(ip) => clock < promise[ip].back
                 /\ LetIn(ip)  => clock > promise[ip].back - TicksPerSecond
  <1>1. ASSUME IInv, [Next]_vars, NEW ip \in IPs PROVE Honest(ip)
    <2> DEFINE e == FreeAgain(allowed[ip])
    <2> SUFFICES ASSUME promise[ip] # NoPromise
                 PROVE  /\ Denied(ip) => clock < promise[ip].back
                        /\ LetIn(ip)  => clock > promise[ip].back - TicksPerSecond
      OBVIOUS
    <2>1. /\ clock \in Nat /\ Limit \in Nat /\ Window \in Nat
          /\ TicksPerSecond \in Nat
          /\ hits[ip] \in Seq(Times) /\ allowed[ip] \in Seq(Times)
          /\ Len(allowed[ip]) \in Nat
          /\ Ordered(allowed[ip]) /\ Recent(hits[ip], allowed[ip])
          /\ promise[ip].back \in Int
      BY <1>1, OfOne, WindowNat, RateAssumption DEF IInv, TypeOK
    <2>2. /\ Len(allowed[ip]) >= Limit
          /\ e <= promise[ip].back
          /\ promise[ip].back < e + TicksPerSecond
      BY <1>1, OfOne DEF Kept
    <2>3. allowed[ip][Len(allowed[ip]) + 1 - Limit] \in Int
      <3>1. Len(allowed[ip]) + 1 - Limit \in 1 .. Len(allowed[ip])
        BY <2>1, <2>2
      <3>2. allowed[ip][Len(allowed[ip]) + 1 - Limit] \in Times
        BY <2>1, <3>1
      <3> QED
        BY <3>2, RateAssumption DEF Times
    <2>4. e \in Int
      BY <2>1, <2>3 DEF FreeAgain
    <2>5. ASSUME Denied(ip) PROVE clock < promise[ip].back
      <3>1. e > clock
        BY <1>1, <2>5, OnlyDenyDenies, DeniedNow
      <3> HIDE DEF e
      <3> QED
        BY <2>1, <2>2, <2>4, <3>1
    <2>6. ASSUME LetIn(ip) PROVE clock > promise[ip].back - TicksPerSecond
      <3> DEFINE h == evict_stale(hits[ip])
      <3>1. h \in Seq(Times) /\ Recent(h, allowed[ip]) /\ Len(h) < Limit
        BY <1>1, <2>1, <2>6, EvictedRecent, OnlyAllowLetsIn DEF Allow
      <3> HIDE DEF h
      <3>2. Len(allowed[ip]) + 1 - Limit \in 1 .. Len(allowed[ip]) - Len(h)
        BY <2>1, <2>2, <3>1
      <3>3. allowed[ip][Len(allowed[ip]) + 1 - Limit] <= clock - Window
        BY <3>1, <3>2 DEF Recent
      <3>4. e <= clock
        BY <2>1, <2>3, <3>3 DEF FreeAgain
      <3> HIDE DEF e
      <3> QED
        BY <2>1, <2>2, <2>4, <3>4
    <2> QED
      BY <2>5, <2>6
  <1> HIDE DEF Honest
  <1>2. IInv /\ [Next]_vars => [\A ip \in IPs : Honest(ip)]_vars
    BY <1>1
  <1>3. Spec => [][\A ip \in IPs : Honest(ip)]_vars
    BY <1>2, InitInv, NextInv, PTL DEF Spec
  <1> QED
    BY <1>3 DEF RetryAfterHonest, Honest

===============================================================================
