------------------------------ MODULE RateLimiter ------------------------------
(***************************************************************************)
(* RateLimiter, apps/api/deps.py: the requests of one tenant to one        *)
(* endpoint, counted in Redis under a key for each minute.                 *)
(*                                                                         *)
(* A request takes the minute from its clock before it connects, so its    *)
(* INCR may come when that minute is over and even when the minute's key   *)
(* has expired.  EXPIRE is a call of its own, made by the request that     *)
(* found the key new, and any call may fail, which lets the request in.    *)
(***************************************************************************)
EXTENDS Integers, FiniteSets

CONSTANTS
    Requests,   \* the requests
    Limit,      \* requests_per_minute
    Minutes     \* bound: the number of minutes

ASSUME LimiterAssumption == IsFiniteSet(Requests) /\ Limit \in Nat \ {0} /\ Minutes \in Nat \ {0}

VARIABLES
    minute,     \* the minute it is
    count,      \* count[m]: the value of the key of minute m, 0 if there is no such key
    expires,    \* minutes whose key has a TTL
    at,         \* at[r]: where request r is
    bucket,     \* bucket[r]: the minute it is counted in, 0 before
    found,      \* found[r]: what its INCR returned
    renewed,    \* history: minutes whose key was made again after it had expired
    uncounted,  \* history: requests let in because Redis failed
    cut         \* history: minutes whose key was made by a request that did not get to its EXPIRE

limiterVars == <<minute, count, expires, at, bucket, found, renewed, uncounted, cut>>

Whereabouts == {"new", "connecting", "counted", "expired", "admitted", "refused", "gone"}

LimiterInit ==
    /\ minute = 1
    /\ count = [m \in 1 .. Minutes |-> 0]
    /\ expires = {}
    /\ at = [r \in Requests |-> "new"]
    /\ bucket = [r \in Requests |-> 0]
    /\ found = [r \in Requests |-> 0]
    /\ renewed = {} /\ uncounted = {} /\ cut = {}

\* minute_bucket
Arrive(r) ==
    /\ at[r] = "new"
    /\ bucket' = [bucket EXCEPT ![r] = minute]
    /\ at' = [at EXCEPT ![r] = "connecting"]
    /\ UNCHANGED <<minute, count, expires, found, renewed, uncounted, cut>>

Seen(m) == {r \in Requests : bucket[r] = m /\ found[r] # 0}

Renewal(m) == IF count[m] = 0 /\ Seen(m) # {} THEN renewed \cup {m} ELSE renewed

Incr(r) ==
    /\ at[r] = "connecting"
    /\ count' = [count EXCEPT ![bucket[r]] = @ + 1]
    /\ found' = [found EXCEPT ![r] = count[bucket[r]] + 1]
    /\ at' = [at EXCEPT ![r] = "counted"]
    /\ renewed' = Renewal(bucket[r])
    /\ UNCHANGED <<minute, expires, bucket, uncounted, cut>>

\* Only for a key that was new, so for 60 seconds from a moment within its minute.
Expire(r) ==
    /\ at[r] = "counted" /\ found[r] = 1
    /\ expires' = IF count[bucket[r]] = 0 THEN expires ELSE expires \cup {bucket[r]}
    /\ at' = [at EXCEPT ![r] = "expired"]
    /\ UNCHANGED <<minute, count, bucket, found, renewed, uncounted, cut>>

OneTooMany(n) == n <= Limit + 1

Allowed(n) == n <= Limit

Decide(r) ==
    /\ at[r] = "expired" \/ (at[r] = "counted" /\ found[r] # 1)
    /\ at' = [at EXCEPT ![r] = IF Allowed(found[r]) THEN "admitted" ELSE "refused"]
    /\ UNCHANGED <<minute, count, expires, bucket, found, renewed, uncounted, cut>>

\* The connection or the INCR raises, which may have been carried out.
IncrFails(r) ==
    /\ at[r] = "connecting"
    /\ at' = [at EXCEPT ![r] = "admitted"]
    /\ uncounted' = uncounted \cup {r}
    /\ \/ UNCHANGED <<count, renewed, cut>>
       \/ /\ count' = [count EXCEPT ![bucket[r]] = @ + 1]
          /\ renewed' = Renewal(bucket[r])
          /\ cut' = IF count[bucket[r]] = 0 THEN cut \cup {bucket[r]} ELSE cut
    /\ UNCHANGED <<minute, expires, bucket, found>>

ExpireFails(r) ==
    /\ at[r] = "counted" /\ found[r] = 1
    /\ at' = [at EXCEPT ![r] = "admitted"]
    /\ cut' = cut \cup {bucket[r]}
    /\ UNCHANGED <<minute, count, expires, bucket, found, renewed, uncounted>>

\* The API process dies with the request in it.
Dies(r) ==
    /\ at[r] \in {"connecting", "counted", "expired"}
    /\ at' = [at EXCEPT ![r] = "gone"]
    /\ cut' = IF at[r] = "counted" /\ found[r] = 1 THEN cut \cup {bucket[r]} ELSE cut
    /\ UNCHANGED <<minute, count, expires, bucket, found, renewed, uncounted>>

NextMinute ==
    /\ minute < Minutes
    /\ minute' = minute + 1
    /\ UNCHANGED <<count, expires, at, bucket, found, renewed, uncounted, cut>>

OutlivesItsMinute(m) == m < minute

\* 60 seconds after it was set, which is never within the minute.
KeyExpires(m) ==
    /\ m \in expires /\ OutlivesItsMinute(m)
    /\ count' = [count EXCEPT ![m] = 0]
    /\ expires' = expires \ {m}
    /\ UNCHANGED <<minute, at, bucket, found, renewed, uncounted, cut>>

LimiterNext ==
    \/ \E r \in Requests : Arrive(r) \/ Incr(r) \/ Expire(r) \/ Decide(r) \/ IncrFails(r) \/ ExpireFails(r) \/ Dies(r)
    \/ \E m \in 1 .. Minutes : KeyExpires(m)
    \/ NextMinute

LimiterSpec == LimiterInit /\ [][LimiterNext]_limiterVars

------------------------------------------------------------------------------
(* Properties. *)

LimiterTypeOK ==
    /\ minute \in 1 .. Minutes
    /\ count \in [1 .. Minutes -> Nat]
    /\ expires \subseteq 1 .. Minutes
    /\ at \in [Requests -> Whereabouts]
    /\ bucket \in [Requests -> 0 .. Minutes]
    /\ found \in [Requests -> Nat]
    /\ renewed \subseteq 1 .. Minutes /\ uncounted \subseteq Requests /\ cut \subseteq 1 .. Minutes

Admitted(m) == {r \in Requests \ uncounted : bucket[r] = m /\ at[r] = "admitted"}

\* In a minute no more than Limit requests are let in, but for those Redis could not count.
\* The one exception is a minute whose key was counted from 1 again by a request that
\* reached Redis when the key had expired, long after it had read its clock (deps.py:132).
\* Nobody is refused unless more than Limit requests came in the same minute, and a key stays
\* for good only if the request that made it did not get to its EXPIRE (deps.py:139).
LimitHolds ==
    /\ \A m \in 1 .. Minutes \ renewed : Cardinality(Admitted(m)) <= Limit
    /\ \A r \in Requests : at[r] = "refused" => Cardinality({q \in Requests : bucket[q] = bucket[r]}) > Limit
    /\ \A m \in 1 .. Minutes \ (expires \cup cut) :
          count[m] > 0 => \E r \in Requests : bucket[r] = m /\ found[r] = 1 /\ at[r] = "counted"
================================================================================
