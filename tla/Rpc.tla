--------------------------------- MODULE Rpc --------------------------------
(***************************************************************************)
(* Health checks of the RPC providers and the choice of the active one,     *)
(* blockchain.service.ts.  The job runs every 30 seconds and a check may    *)
(* take up to 20, so that the answer of a slow provider may be recorded     *)
(* while the next run is already under way.                                 *)
(***************************************************************************)
EXTENDS Integers, FiniteSets

CONSTANTS Providers,   \* 1..n, in the order of the configuration
          RpcRuns,     \* runs of the job that may overlap
          MaxFailures  \* MAX_CONSECUTIVE_FAILURES

ASSUME RpcAssumption ==
    /\ Providers \subseteq Nat /\ IsFiniteSet(Providers) /\ 1 \in Providers
    /\ MaxFailures \in Nat

VARIABLES
    rpUp,      \* [Providers -> the provider answers]
    rpFails,   \* [Providers -> consecutiveFailures]
    rpHealthy, \* [Providers -> isHealthy]
    rpActive,  \* activeRpcIndex
    rpCheck    \* [RpcRuns -> "idle", or each provider's answer]

rpVars == <<rpUp, rpFails, rpHealthy, rpActive, rpCheck>>

RpIdle == [p \in Providers |-> "idle"]
Recorded == [p \in Providers |-> "recorded"]

RpTypeOK ==
    /\ rpUp \in [Providers -> BOOLEAN] /\ rpHealthy \in [Providers -> BOOLEAN]
    /\ rpFails \in [Providers -> 0..MaxFailures]
    /\ rpActive \in Providers
    /\ rpCheck \in [RpcRuns -> [Providers -> {"idle", "asked", "ok", "error", "recorded"}]]

\* initializeRpcProviders
RpInit ==
    /\ rpUp \in [Providers -> BOOLEAN]
    /\ rpFails = [p \in Providers |-> 0] /\ rpHealthy = [p \in Providers |-> TRUE]
    /\ rpActive = 1 /\ rpCheck = [r \in RpcRuns |-> RpIdle]

\* A provider goes down or comes back.
providerChanges(p) ==
    /\ rpUp' = [rpUp EXCEPT ![p] = ~@]
    /\ UNCHANGED <<rpFails, rpHealthy, rpActive, rpCheck>>

checkRpcHealth(r) ==
    /\ rpCheck[r] = RpIdle
    /\ rpCheck' = [rpCheck EXCEPT ![r] = [p \in Providers |-> "asked"]]
    /\ UNCHANGED <<rpUp, rpFails, rpHealthy, rpActive>>

\* fetch: an answer, or an error, a bad status or the timeout.
fetchBlockNumber(r, p) ==
    /\ rpCheck[r][p] = "asked"
    /\ rpCheck' = [rpCheck EXCEPT ![r][p] = IF rpUp[p] THEN "ok" ELSE "error"]
    /\ UNCHANGED <<rpUp, rpFails, rpHealthy, rpActive>>

\* Mutant of checkSingleRpcHealth: an error leaves the count as it was.
checkSingleRpcHealth_Uncounted(r, p) ==
    /\ rpCheck[r][p] \in {"ok", "error"}
    /\ rpFails' = [rpFails EXCEPT ![p] = IF rpCheck[r][p] = "ok" THEN 0 ELSE @]
    /\ rpHealthy' = [rpHealthy EXCEPT ![p] = rpFails'[p] < MaxFailures]
    /\ rpCheck' = [rpCheck EXCEPT ![r][p] = "recorded"]
    /\ UNCHANGED <<rpUp, rpActive>>

\* The answer is recorded, a success after the second call for the gas price.  The count
\* stops at MaxFailures: beyond it, it is compared only.
checkSingleRpcHealth(r, p) ==
    LET fails == IF rpFails[p] < MaxFailures THEN rpFails[p] + 1 ELSE MaxFailures IN
    /\ rpCheck[r][p] \in {"ok", "error"}
    /\ rpFails' = [rpFails EXCEPT ![p] = IF rpCheck[r][p] = "ok" THEN 0 ELSE fails]
    /\ rpHealthy' = [rpHealthy EXCEPT ![p] = rpCheck[r][p] = "ok" \/ fails < MaxFailures]
    /\ rpCheck' = [rpCheck EXCEPT ![r][p] = "recorded"]
    /\ UNCHANGED <<rpUp, rpActive>>

\* Mutant of failover: the index is stored even if no other provider is healthy.
failover_NotFound(r) ==
    LET others == {p \in Providers \ {rpActive} : rpHealthy[p]} IN
    /\ rpCheck[r] = Recorded
    /\ rpActive' = IF rpHealthy[rpActive] THEN rpActive
                   ELSE IF others = {} THEN 0 ELSE CHOOSE p \in others : \A o \in others : p <= o
    /\ rpCheck' = [rpCheck EXCEPT ![r] = RpIdle]
    /\ UNCHANGED <<rpUp, rpFails, rpHealthy>>

\* The first healthy provider other than the active one, in the order of the list.
failover(r) ==
    LET others == {p \in Providers \ {rpActive} : rpHealthy[p]} IN
    /\ rpCheck[r] = Recorded
    /\ rpActive' = IF rpHealthy[rpActive] \/ others = {} THEN rpActive
                   ELSE CHOOSE p \in others : \A o \in others : p <= o
    /\ rpCheck' = [rpCheck EXCEPT ![r] = RpIdle]
    /\ UNCHANGED <<rpUp, rpFails, rpHealthy>>

RpNext ==
    \/ \E p \in Providers : providerChanges(p)
    \/ \E r \in RpcRuns :
          \/ checkRpcHealth(r) \/ failover(r)
          \/ \E p \in Providers : fetchBlockNumber(r, p) \/ checkSingleRpcHealth(r, p)

RpSpec == RpInit /\ [][RpNext]_rpVars

-----------------------------------------------------------------------------
(* Properties.                                                               *)

\* A provider that stays down is left for good once another one stays up, although late
\* answers of overlapping runs reset and raise the counts in any order.
DownProviderIsLeft ==
    \A p \in Providers : \A q \in Providers \ {p} : <>[](~rpUp[p] /\ rpUp[q]) => <>[](rpActive # p)
=============================================================================
