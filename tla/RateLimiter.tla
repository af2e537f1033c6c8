---------------------------- MODULE RateLimiter ----------------------------
(***************************************************************************)
(* The fixed-window limiter in front of the authentication endpoints       *)
(* (internal/httpapi/ratelimit.go).                                        *)
(*                                                                         *)
(* A request reads the clock, then takes the mutex: it may decide with a   *)
(* time that is over.  It waits for the mutex at most one instant of the   *)
(* clock, which is far shorter than a window.                              *)
(***************************************************************************)
EXTENDS Integers, FiniteSets, FiniteSetsExt

CONSTANTS
    Ip,          \* keys: client addresses
    Hit,         \* requests between the clock and the mutex
    Limit,       \* requests of a key per window
    Window,      \* length of a window
    MaxTime,     \* bound: the clock
    NoBucket     \* no entry in the map

ASSUME RateLimiterAssumption ==
    /\ Limit \in Nat \ {0} /\ Window \in Nat \ {0} /\ MaxTime \in Nat
    /\ NoBucket \notin [count: Nat, resetAt: Nat]

VARIABLES
    time,        \* the clock
    buckets,     \* rl.buckets
    lastGC,      \* rl.lastGC
    hit,         \* requests that have read the clock
    admitted     \* requests let through, by key and time of the decision (history)

limiterVars == <<time, buckets, lastGC, hit, admitted>>

-----------------------------------------------------------------------------
NoHit == [ip |-> "none", now |-> 0]

LTypeOK ==
    /\ time \in 0 .. MaxTime
    /\ buckets \in [Ip -> [count: Nat \ {0}, resetAt: 0 .. MaxTime + Window] \cup {NoBucket}]
    /\ lastGC \in 0 .. MaxTime
    /\ hit \in [Hit -> [ip: Ip, now: 0 .. MaxTime] \cup {NoHit}]
    /\ admitted \in [Ip -> [0 .. MaxTime -> Nat]]

LInit ==
    /\ time = 0
    /\ buckets = [k \in Ip |-> NoBucket]
    /\ lastGC = 0
    /\ hit = [h \in Hit |-> NoHit]
    /\ admitted = [k \in Ip |-> [t \in 0 .. MaxTime |-> 0]]

Pass ==
    /\ time < MaxTime
    /\ \A h \in Hit : hit[h] = NoHit \/ hit[h].now = time
    /\ time' = time + 1
    /\ UNCHANGED <<buckets, lastGC, hit, admitted>>

middleware(h, k) ==
    /\ hit[h] = NoHit
    /\ hit' = [hit EXCEPT ![h] = [ip |-> k, now |-> time]]
    /\ UNCHANGED <<time, buckets, lastGC, admitted>>

Expired(b, now) == b # NoBucket /\ now > b.resetAt

\* Once per window the expired buckets are dropped.
Cleaned(now) ==
    IF now - lastGC > Window
    THEN [k \in Ip |-> IF Expired(buckets[k], now) THEN NoBucket ELSE buckets[k]]
    ELSE buckets

\* Mutant of Within: the request beyond the limit passes.
WithinPlus(n) == n <= Limit + 1

Within(n) == n <= Limit

allow(h) ==
    /\ hit[h] # NoHit
    /\ LET k   == hit[h].ip
           now == hit[h].now
           B   == Cleaned(now)
           new == B[k] = NoBucket \/ now > B[k].resetAt
           n   == IF new THEN 1 ELSE B[k].count + 1
       IN  /\ buckets' = [B EXCEPT ![k] =
                  IF new THEN [count |-> 1, resetAt |-> now + Window] ELSE [@ EXCEPT !.count = n]]
           /\ lastGC' = IF now - lastGC > Window THEN now ELSE lastGC
           /\ admitted' = IF Within(n) THEN [admitted EXCEPT ![k][time] = @ + 1] ELSE admitted
    /\ hit' = [hit EXCEPT ![h] = NoHit]
    /\ UNCHANGED time

LNext ==
    \/ Pass
    \/ \E h \in Hit : allow(h) \/ \E k \in Ip : middleware(h, k)

LSpec == LInit /\ [][LNext]_limiterVars

-----------------------------------------------------------------------------
Instants(from, to) == {u \in 0 .. MaxTime : from <= u /\ u <= to}

\* Requests of key k let through from one instant to another.
Admitted(k, from, to) == SumFunctionOnSet(admitted[k], Instants(from, to))

\* Any stretch of Window instants, which is shorter than a window of the limiter
\* by the wait for the mutex, lets at most twice the limit of a key through, also
\* when requests decide out of the order of their clocks and the cleanup runs
\* between them.
TwiceTheLimit ==
    \A k \in Ip, t \in 0 .. MaxTime : Admitted(k, t, t + Window - 1) <= 2 * Limit

\* "Fixed windows admit at most 2x the limit across a window boundary": in any
\* stretch as long as a window of the limiter, which has both its ends.
TwiceAcrossBoundary ==
    \A k \in Ip, t \in 0 .. MaxTime : Admitted(k, t, t + Window) <= 2 * Limit
=============================================================================
