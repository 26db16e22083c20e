---------------------------- MODULE RateLimiter ----------------------------
(***************************************************************************)
(* allowRequest of server.go: a window per address and class of request,   *)
(* in one table of bounded size, under rateMu.  The window of a key starts *)
(* with its first request; a table that has grown is swept when the next   *)
(* request comes.  A request reads the clock before it has the mutex, so   *)
(* requests may come in with times that are out of order.                  *)
(***************************************************************************)
EXTENDS Integers, Sequences, FiniteSets

CONSTANTS
  Keys,        \* an address with "auth" or "general"
  Limit,       \* requests in a window, by key: 20 and 120
  Minute,      \* the length of a window
  SweepAbove,  \* 1024
  Capacity,    \* 4096
  MaxNow,      \* the clock (bound)
  MaxLate      \* late requests (bound)

ASSUME RateAssumption ==
  /\ Limit \in [Keys -> Nat]
  /\ Minute \in Nat \ {0} /\ {MaxNow, MaxLate} \subseteq Nat
  /\ SweepAbove \in Nat /\ Capacity \in Nat /\ SweepAbove < Capacity

VARIABLES
  rate,        \* Server.rate
  clock,       \* time.Now
  latest,      \* history: the greatest time a request came in with
  lates,       \* history: requests that came in late
  admitted     \* history: requests of a key that were let through

rateVars == <<rate, clock, latest, lates, admitted>>

RateInit ==
  /\ rate = <<>> /\ clock = 0 /\ latest = 0 /\ lates = 0
  /\ admitted = [k \in Keys |-> <<>>]

Elapsed(window, now) == now - window.started >= Minute

\* A sweep takes every entry it finds.
SweptAll(now) == IF Cardinality(DOMAIN rate) > SweepAbove THEN <<>> ELSE rate

Swept(now) ==
  IF Cardinality(DOMAIN rate) > SweepAbove
  THEN [k \in {c \in DOMAIN rate : ~Elapsed(rate[c], now)} |-> rate[k]] ELSE rate

RefusesNew(k, now) == k \notin DOMAIN Swept(now) /\ Cardinality(DOMAIN Swept(now)) >= Capacity

\* The count stops one above the limit: beyond it the answer is the same.
Window(k, now) ==
  IF k \notin DOMAIN Swept(now) \/ Elapsed(Swept(now)[k], now) THEN [started |-> now, count |-> 1]
  ELSE [Swept(now)[k] EXCEPT !.count = IF @ > Limit[k] THEN @ ELSE @ + 1]

Allowed(k, now) == ~RefusesNew(k, now) /\ Window(k, now).count <= Limit[k]

\* limitMiddleware hands a request that is let through to its handler.  It
\* read the clock at some time up to now, and is late if one that read it later
\* came in before.
Late(now) == now < latest

Request(k, now) ==
  /\ Late(now) => lates < MaxLate
  /\ rate' = IF RefusesNew(k, now) THEN Swept(now)
             ELSE [c \in DOMAIN Swept(now) \union {k} |->
                     IF c = k THEN Window(k, now) ELSE Swept(now)[c]]
  /\ admitted' = IF Allowed(k, now)
                 THEN [admitted EXCEPT ![k] = Append(@, [now |-> now, at |-> clock, late |-> Late(now)])]
                 ELSE admitted
  /\ latest' = IF Late(now) THEN latest ELSE now
  /\ lates' = IF Late(now) THEN lates + 1 ELSE lates
  /\ UNCHANGED clock

Pass == clock < MaxNow /\ clock' = clock + 1 /\ UNCHANGED <<rate, latest, lates, admitted>>

RateNext == Pass \/ \E k \in Keys, now \in 0 .. clock : Request(k, now)

RateSpec == RateInit /\ [][RateNext]_rateVars

-----------------------------------------------------------------------------
\* Requests of a key that were let through: with a time in the minute from t,
\* late ones with a time less than a minute before or after t, and those that
\* came in after some time.
InMinute(k, t)   == {i \in DOMAIN admitted[k] : admitted[k][i].now >= t /\ admitted[k][i].now < t + Minute}
LateAround(k, t) == {i \in DOMAIN admitted[k] : /\ admitted[k][i].late
                                                /\ admitted[k][i].now > t - Minute
                                                /\ admitted[k][i].now < t + Minute}
CameAfter(k, t)  == {i \in DOMAIN admitted[k] : admitted[k][i].at > t}

\* An entry counts from one to one above its limit, from a time that was read.
RateTypeOK ==
  /\ DOMAIN rate \subseteq Keys
  /\ \A k \in DOMAIN rate : rate[k].count \in 1 .. Limit[k] + 1 /\ rate[k].started \in 0 .. latest
  /\ latest \in 0 .. clock /\ lates \in 0 .. MaxLate

\* Wherever a minute is laid over the times of a key's requests, at most two
\* windows' worth of them got through, and one more for each of them that came
\* in late, having lost the mutex to a request with a later time: it may open
\* a window in the past once the key's own was swept.  The table never grows
\* over its limit.  A request is refused only when its key's limit was let
\* through since a minute before the time it read, or for want of room: its
\* key is not in the table, which is full of entries younger than a minute
\* (server.go:1281-1300).
LimiterIsFair ==
  /\ \A k \in Keys, t \in 0 .. clock :
       Cardinality(InMinute(k, t)) <= Limit[k] * (2 + Cardinality(LateAround(k, t)))
  /\ Cardinality(DOMAIN rate) <= Capacity
  /\ \A k \in Keys, now \in 0 .. clock : ~Allowed(k, now) =>
       \/ Cardinality(CameAfter(k, now - Minute)) >= Limit[k]
       \/ /\ k \notin DOMAIN rate
          /\ Cardinality({c \in DOMAIN rate : ~Elapsed(rate[c], now)}) >= Capacity
=============================================================================
