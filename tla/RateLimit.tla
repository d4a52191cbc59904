----------------------------- MODULE RateLimit -----------------------------
(***************************************************************************)
(* RateLimiter: a token bucket per system, refilled when it is asked.      *)
(* main.rs builds one limiter for each handler, so a system has a bucket   *)
(* in each.                                                                *)
(*                                                                         *)
(* Time goes in ticks of 1 / TicksPerSecond; tokens are counted in units   *)
(* of 1 / TicksPerSecond, so that a tick refills Rate units and all of it  *)
(* is exact.  idle is the time since `last', counted up to a second: after *)
(* one the bucket is full anyway.  Time is unbounded, the states finite.   *)
(*                                                                         *)
(* watched, elapsed and taken are an observer: a stretch of time that may  *)
(* begin anywhere, and the requests one bucket has admitted in it.         *)
(***************************************************************************)
EXTENDS Integers

CONSTANTS
    System,
    Limiter,         \* one per handler
    Rate,            \* rate_limit_rps, 0 when a system has none
    TicksPerSecond,
    Horizon          \* bound: the longest stretch of time observed, in ticks

ASSUME RateAssumption ==
    /\ Rate \in [System -> Nat]
    /\ TicksPerSecond \in Nat \ {0}
    /\ Horizon \in Nat

VARIABLES
    tokens,    \* tokens[b], as of the last time b was asked
    idle,      \* idle[b]: ticks since then
    watched, elapsed, taken

buckets == <<tokens, idle>>
observer == <<watched, elapsed, taken>>
limits == <<buckets, observer>>

Bucket == Limiter \X System
RateOf(b) == Rate[b[2]]
Capacity(b) == RateOf(b) * TicksPerSecond
Least(m, n) == IF m <= n THEN m ELSE n

\* A bucket is created full when it is first asked, which is what one that
\* has not been asked for a second looks like.
LimitsInit ==
    /\ tokens = [b \in Bucket |-> Capacity(b)]
    /\ idle = [b \in Bucket |-> TicksPerSecond]
    /\ watched \in {b \in Bucket : RateOf(b) > 0} /\ elapsed = 0 /\ taken = 0

-----------------------------------------------------------------------------

RefilledUncapped(b) == tokens[b] + idle[b] * RateOf(b)
Refilled(b) == Least(tokens[b] + idle[b] * RateOf(b), Capacity(b))

HasToken(b) == RateOf(b) = 0 \/ Refilled(b) >= TicksPerSecond

Observe(b) == taken' = IF b = watched THEN taken + 1 ELSE taken

AdmitsForgetful(b) ==
    /\ HasToken(b)
    /\ IF RateOf(b) = 0 THEN UNCHANGED buckets
       ELSE /\ tokens' = [tokens EXCEPT ![b] = Refilled(b) - TicksPerSecond]
            /\ UNCHANGED idle
    /\ Observe(b) /\ UNCHANGED <<watched, elapsed>>
\* check answers Ok: try_take has taken a token, or there is no limit.
Admits(b) ==
    /\ HasToken(b)
    /\ IF RateOf(b) = 0 THEN UNCHANGED buckets
       ELSE /\ tokens' = [tokens EXCEPT ![b] = Refilled(b) - TicksPerSecond]
            /\ idle' = [idle EXCEPT ![b] = 0]
    /\ Observe(b) /\ UNCHANGED <<watched, elapsed>>

\* The time is taken note of, what it brought is not.
RefusesAndLoses(b) ==
    /\ ~HasToken(b)
    /\ idle' = [idle EXCEPT ![b] = 0]
    /\ UNCHANGED <<tokens, observer>>
\* check answers Err: the bucket is refilled all the same.
Refuses(b) ==
    /\ ~HasToken(b)
    /\ tokens' = [tokens EXCEPT ![b] = Refilled(b)]
    /\ idle' = [idle EXCEPT ![b] = 0]
    /\ UNCHANGED observer

-----------------------------------------------------------------------------

Tick ==
    /\ idle' = [b \in Bucket |-> Least(idle[b] + 1, TicksPerSecond)]
    /\ IF elapsed < Horizon
       THEN elapsed' = elapsed + 1 /\ UNCHANGED taken
       ELSE elapsed' = 0 /\ taken' = 0
    /\ UNCHANGED <<tokens, watched>>

\* A stretch of time may begin at any moment.
Watch ==
    /\ elapsed' = 0 /\ taken' = 0
    /\ UNCHANGED <<buckets, watched>>

LimitsNext == Tick \/ Watch \/ \E b \in Bucket : Admits(b) \/ Refuses(b)

LimitsSpec == LimitsInit /\ [][LimitsNext]_limits

-----------------------------------------------------------------------------
(* Properties.                                                             *)

LimitsTypeOK ==
    /\ tokens \in [Bucket -> Nat] /\ \A b \in Bucket : tokens[b] <= Capacity(b)
    /\ idle \in [Bucket -> 0..TicksPerSecond]
    /\ watched \in Bucket /\ elapsed \in 0..Horizon /\ taken \in Nat

(* In no stretch of time, wherever it begins, does a handler admit more    *)
(* requests of a system than a full bucket and the rate over that time.    *)
NeverOverRate ==
    taken * TicksPerSecond <= RateOf(watched) * (TicksPerSecond + elapsed)

(* A system that has used less than its rate in the last second or longer  *)
(* is not refused, whatever it and the other systems asked before.         *)
AdmitsUpToRate ==
    /\ elapsed >= TicksPerSecond
    /\ taken < RateOf(watched)
    => HasToken(watched)
=============================================================================
