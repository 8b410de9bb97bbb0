----------------------------- MODULE RateLimits -----------------------------
(* The fixed-window request counters of RateLimitService, as the guard of a *)
(* request uses them: a first stage by caller, a second by endpoint, each a *)
(* read and a write of the cache, so that overlapping requests interleave.  *)
(* Times are relative: a window has the time it has left.                   *)
EXTENDS Integers, FiniteSets

CONSTANTS RateReq,     \* requests that may overlap
          WindowTicks, \* windowMs, in ticks
          Callers,     \* user tiers and "anonymous"
          TierMax,     \* [Callers -> Nat], USER_TIER_RATE_LIMITS
          IpMax, UserIpMax, EndpointMax,  \* the other limits
          MaxCount     \* bound: largest count

ASSUME RateLimitsAssumption ==
    /\ IsFiniteSet(RateReq) /\ Callers # {} /\ WindowTicks \in Nat \ {0} /\ MaxCount \in Nat
    /\ TierMax \in [Callers -> 0..(MaxCount - 1)]
    /\ {IpMax, UserIpMax, EndpointMax} \subseteq 0..(MaxCount - 1)

VARIABLES buckets,  \* the cached records; left = 0: none, or past resetAt
          calls     \* the guard's progress for each request

rlVars == <<buckets, calls>>

Buckets == {"user", "userIp", "ip", "endpoint"}
Record == [count : 0..MaxCount, left : 0..WindowTicks]
NoRecord == [count |-> 0, left |-> 0]

\* checkUserRateLimit (keyed by the user, whatever the tier),
\* checkUserIpRateLimit, checkIpRateLimit and checkEndpointRateLimit
LimitOf(b, caller) == CASE b = "user" -> TierMax[caller]
                        [] b = "userIp" -> UserIpMax
                        [] b = "ip" -> IpMax
                        [] b = "endpoint" -> EndpointMax

\* the counters a request of this caller meets, stage by stage
StageOf(caller, stage) == CASE stage = 2 -> {"endpoint"}
                            [] stage = 1 /\ caller = "anonymous" -> {"ip"}
                            [] OTHER -> {"user", "userIp"}

IdleCall == [at |-> "idle", stage |-> 1, caller |-> CHOOSE c \in Callers : TRUE, next |-> [b \in Buckets |-> NoRecord]]
Call == [at : {"idle", "get", "set"}, stage : 1..2, caller : Callers, next : [Buckets -> Record]]

RLTypeOK == buckets \in [Buckets -> Record] /\ calls \in [RateReq -> Call]

RLInit == buckets = [b \in Buckets |-> NoRecord] /\ calls = [q \in RateReq |-> IdleCall]

\* canActivate of a route that does not skip the limits
canActivate(q) ==
    /\ calls[q].at = "idle"
    /\ \E c \in Callers : calls' = [calls EXCEPT ![q] = [IdleCall EXCEPT !.at = "get", !.caller = c]]
    /\ UNCHANGED buckets

Counted_Sliding(rec) == [count |-> IF rec.left = 0 THEN 1 ELSE IF rec.count < MaxCount THEN rec.count + 1
                                  ELSE MaxCount, left |-> WindowTicks]

\* checkRateLimit: the record the request will store, in a live window or a new one
Counted(rec) == IF rec.left > 0 THEN [rec EXCEPT !.count = IF @ < MaxCount THEN @ + 1 ELSE @]
                ELSE [count |-> 1, left |-> WindowTicks]

checkRateLimit(q) ==
    /\ calls[q].at = "get"
    /\ calls' = [calls EXCEPT ![q].at = "set", ![q].next =
          [b \in Buckets |-> IF b \in StageOf(calls[q].caller, calls[q].stage)
                             THEN Counted(buckets[b]) ELSE NoRecord]]
    /\ UNCHANGED buckets

Advance(q) == calls' = [calls EXCEPT ![q] =
    IF calls[q].stage = 2 THEN IdleCall
    ELSE [IdleCall EXCEPT !.at = "get", !.stage = 2, !.caller = calls[q].caller]]

\* the stores; a request over a limit ends with 429, the count stored all the same
StoreCount(q) ==
    LET c == calls[q]
        stage == StageOf(c.caller, c.stage)
        exceeded == \E b \in stage : c.next[b].count > LimitOf(b, c.caller)
    IN /\ c.at = "set"
       /\ buckets' = [b \in Buckets |-> IF b \in stage THEN c.next[b] ELSE buckets[b]]
       /\ IF exceeded THEN calls' = [calls EXCEPT ![q] = IdleCall] ELSE Advance(q)

\* the cache is unavailable: the request is allowed and nothing is counted
CacheFails(q) == calls[q].at \in {"get", "set"} /\ Advance(q) /\ UNCHANGED buckets

\* resetUserRateLimit, resetIpRateLimit and resetEndpointRateLimit
resetRateLimit(b) == buckets' = [buckets EXCEPT ![b] = NoRecord] /\ UNCHANGED calls

\* getUserRateLimitStats: reading the status counts as a request
getUserRateLimitStats ==
    buckets' = [buckets EXCEPT !["user"] = Counted(@)] /\ UNCHANGED calls

Older(rec) == IF rec.left <= 1 THEN NoRecord ELSE [rec EXCEPT !.left = @ - 1]

RateTick == /\ buckets' = [b \in Buckets |-> Older(buckets[b])]
            /\ calls' = [q \in RateReq |-> [calls[q] EXCEPT !.next = [b \in Buckets |-> Older(@[b])]]]

RLNext == \/ \E q \in RateReq : canActivate(q) \/ checkRateLimit(q) \/ StoreCount(q) \/ CacheFails(q)
          \/ \E b \in Buckets \ {"userIp"} : resetRateLimit(b)
          \/ getUserRateLimitStats \/ RateTick

RLSpec == RLInit /\ [][RLNext]_rlVars

-----------------------------------------------------------------------------
OverLimit(b) == \E c \in Callers : b \in StageOf(c, 1) /\ buckets[b].count > LimitOf(b, c)

(* A caller over its limit is admitted again one day although every refused *)
(* request is counted too: the window is fixed and overlapping requests     *)
(* cannot renew it for ever (checkRateLimit, rate-limit.service.ts:107-129).*)
OverLimitEnds == \A c \in Callers : \A b \in StageOf(c, 1) : []<>~OverLimit(b)
=============================================================================
