----------------------------- MODULE LiveProofs -----------------------------
(***************************************************************************)
(* The types of the modules that only MCLive runs - request limits, the    *)
(* daily clean-up, the RPC providers - for any number of requests, rows,   *)
(* instances and providers, and of their composition in MCLive.            *)
(***************************************************************************)
EXTENDS MCLive, FiniteSetTheorems, WellFoundedInduction, TLAPS

-----------------------------------------------------------------------------
(* Request limits.                                                         *)

\* A record is counted, and grows older, within its bounds.
LEMMA RecordKept == \A rec \in Record : Counted(rec) \in Record /\ Older(rec) \in Record
<1> SUFFICES ASSUME NEW rec \in Record PROVE Counted(rec) \in Record /\ Older(rec) \in Record
  OBVIOUS
<1>1. PICK c \in 0..MaxCount, l \in 0..WindowTicks : rec = [count |-> c, left |-> l]
  BY DEF Record
<1>2. WindowTicks \in Nat \ {0} /\ MaxCount \in Nat \ {0}
  <2>1. PICK caller \in Callers : TRUE
    BY RateLimitsAssumption
  <2>2. TierMax[caller] \in 0..(MaxCount - 1)
    BY RateLimitsAssumption
  <2> QED BY <2>2, RateLimitsAssumption
<1>3. Counted(rec) \in Record
  BY <1>1, <1>2 DEF Counted, Record
<1>4. Older(rec) \in Record
  BY <1>1, <1>2 DEF Older, NoRecord, Record
<1> QED BY <1>3, <1>4

\* An idle guard holds no record.
LEMMA IdleTyped == NoRecord \in Record /\ IdleCall \in Call
<1>1. WindowTicks \in Nat /\ MaxCount \in Nat /\ (CHOOSE c \in Callers : TRUE) \in Callers
  BY RateLimitsAssumption
<1>2. NoRecord \in Record
  BY <1>1 DEF NoRecord, Record
<1> QED BY <1>1, <1>2 DEF IdleCall, Call

\* One step of a request, an administrator or time.
LEMMA LimitStepTyped == RLTypeOK /\ [RLNext]_rlVars => RLTypeOK'
<1> SUFFICES ASSUME RLTypeOK, [RLNext]_rlVars PROVE RLTypeOK'
  OBVIOUS
<1>0. /\ buckets \in [Buckets -> Record] /\ calls \in [RateReq -> Call]
      /\ \A q \in RateReq : /\ calls[q].stage \in 1..2 /\ calls[q].caller \in Callers
                            /\ calls[q].next \in [Buckets -> Record]
  BY DEF RLTypeOK, Call
<1>1. ASSUME NEW q \in RateReq, canActivate(q) PROVE RLTypeOK'
  <2>1. PICK c \in Callers :
              calls' = [calls EXCEPT ![q] = [IdleCall EXCEPT !.at = "get", !.caller = c]]
    BY <1>1 DEF canActivate
  <2>2. [IdleCall EXCEPT !.at = "get", !.caller = c] \in Call
    BY IdleTyped DEF Call
  <2> QED BY <1>0, <1>1, <2>1, <2>2 DEF canActivate, RLTypeOK
<1>2. ASSUME NEW q \in RateReq, checkRateLimit(q) PROVE RLTypeOK'
  <2> DEFINE next == [b \in Buckets |-> IF b \in StageOf(calls[q].caller, calls[q].stage)
                                        THEN Counted(buckets[b]) ELSE NoRecord]
             c == [calls[q] EXCEPT !.at = "set", !.next = next]
  <2>1. next \in [Buckets -> Record]
    BY <1>0, RecordKept, IdleTyped
  <2>2. calls' = [calls EXCEPT ![q] = c] /\ UNCHANGED buckets
    BY <1>0, <1>2 DEF checkRateLimit
  <2> HIDE DEF next
  <2>3. c \in Call
    BY <1>0, <2>1 DEF Call
  <2> HIDE DEF c
  <2> QED BY <1>0, <2>2, <2>3 DEF RLTypeOK
<1>3. ASSUME NEW q \in RateReq, Advance(q) PROVE calls' \in [RateReq -> Call]
  <2> DEFINE caller == calls[q].caller
             c == [IdleCall EXCEPT !.at = "get", !.stage = 2, !.caller = caller]
  <2>1. caller \in Callers
    BY <1>0
  <2>2. calls' = [calls EXCEPT ![q] = IdleCall] \/ calls' = [calls EXCEPT ![q] = c]
    BY <1>3 DEF Advance
  <2> HIDE DEF caller
  <2> DEFINE begun == [IdleCall EXCEPT !.at = "get", !.stage = 2]
  <2>3. c = [begun EXCEPT !.caller = caller]
    OBVIOUS
  <2> HIDE DEF c
  <2>4. c \in Call
    <3> DEFINE asked == [IdleCall EXCEPT !.at = "get"]
    <3>1. asked \in Call /\ begun = [asked EXCEPT !.stage = 2]
      BY IdleTyped DEF Call
    <3> HIDE DEF begun, asked
    <3>2. begun \in Call
      BY <3>1 DEF Call
    <3> QED BY <2>1, <2>3, <3>2 DEF Call
  <2> QED BY <1>0, <2>2, <2>4, IdleTyped
<1>4. ASSUME NEW q \in RateReq, StoreCount(q) PROVE RLTypeOK'
  <2>1. calls' = [calls EXCEPT ![q] = IdleCall] \/ Advance(q)
    BY <1>4 DEF StoreCount
  <2>2. calls' \in [RateReq -> Call]
    BY <1>0, <1>3, <2>1, IdleTyped
  <2>3. buckets' \in [Buckets -> Record]
    BY <1>0, <1>4 DEF StoreCount
  <2> QED BY <2>2, <2>3 DEF RLTypeOK
<1>5. ASSUME NEW q \in RateReq, CacheFails(q) PROVE RLTypeOK'
  BY <1>0, <1>3, <1>5 DEF CacheFails, RLTypeOK
<1>6. ASSUME NEW b \in Buckets, resetRateLimit(b) PROVE RLTypeOK'
  BY <1>0, <1>6, IdleTyped DEF resetRateLimit, RLTypeOK
<1>7. CASE getUserRateLimitStats
  BY <1>0, <1>7, RecordKept DEF getUserRateLimitStats, RLTypeOK
<1>8. CASE RateTick
  <2>1. buckets' \in [Buckets -> Record]
    BY <1>0, <1>8, RecordKept DEF RateTick
  <2>2. ASSUME NEW q \in RateReq
        PROVE  [calls[q] EXCEPT !.next = [b \in Buckets |-> Older(@[b])]] \in Call
    <3> DEFINE next == [b \in Buckets |-> Older(calls[q].next[b])]
    <3>1. next \in [Buckets -> Record]
      BY <1>0, RecordKept
    <3> HIDE DEF next
    <3>2. [calls[q] EXCEPT !.next = next] \in Call
      BY <1>0, <3>1 DEF Call
    <3> QED BY <3>2 DEF next
  <2>3. calls' \in [RateReq -> Call]
    BY <1>8, <2>2 DEF RateTick
  <2> QED BY <2>1, <2>3 DEF RLTypeOK
<1>9. CASE UNCHANGED rlVars
  BY <1>9 DEF rlVars, RLTypeOK
<1> QED BY <1>1, <1>2, <1>4, <1>5, <1>6, <1>7, <1>8, <1>9 DEF RLNext

\* For any number of overlapping requests, the counters stay within their bounds.
THEOREM LimitsTyped == RLSpec => []RLTypeOK
<1>1. RLInit => RLTypeOK
  BY IdleTyped DEF RLInit, RLTypeOK
<1> QED BY <1>1, LimitStepTyped, PTL DEF RLSpec

-----------------------------------------------------------------------------
(* The daily clean-up.                                                     *)

\* The progress of one instance.
ClRun == [task : 0..Len(Tasks), batch : SUBSET RowIds, due : SUBSET RowIds]

\* There are eight tasks.
LEMMA TaskCount == Len(Tasks) = 8
  BY DEF Tasks

\* One step of an instance, or of the rows.
LEMMA CleanStepTyped == ClTypeOK /\ [ClNext]_clVars => ClTypeOK'
<1> SUFFICES ASSUME ClTypeOK, [ClNext]_clVars PROVE ClTypeOK'
  OBVIOUS
<1>0. /\ rows \in [RowIds -> {"none", "kept", "expired"}] /\ runner \in [Runners -> ClRun]
      /\ Len(Tasks) = 8
      /\ \A c \in Runners : /\ runner[c].task \in 0..8 /\ runner[c].batch \subseteq RowIds
                            /\ runner[c].due \subseteq RowIds
  BY TaskCount DEF ClTypeOK, ClRun
<1>f. failed \in BOOLEAN
  BY DEF ClTypeOK
<1>o. Off \in ClRun
  BY TaskCount DEF Off, ClRun
<1>n. ASSUME NEW c \in Runners, NextTask(c) PROVE runner' \in [Runners -> ClRun]
  <2> DEFINE next == [task |-> runner[c].task + 1, batch |-> {}, due |-> runner[c].due]
  <2>1. runner' = [runner EXCEPT ![c] = IF runner[c].task = 8 THEN Off ELSE next]
    BY <1>0, <1>n DEF NextTask
  <2>2. runner[c].task # 8 => next \in ClRun
    BY <1>0 DEF ClRun
  <2> HIDE DEF next
  <2> QED BY <1>0, <1>o, <2>1, <2>2
<1>1. ASSUME NEW i \in RowIds, InsertRow(i) \/ RowExpires(i) \/ RepeatSearch(i) PROVE ClTypeOK'
  <2>1. rows' \in [RowIds -> {"none", "kept", "expired"}]
    BY <1>0, <1>1 DEF InsertRow, RowExpires, RepeatSearch
  <2>2. Young(i) \/ UNCHANGED runner
    BY <1>1 DEF InsertRow, RowExpires, RepeatSearch
  <2>3. ASSUME NEW c \in Runners PROVE [runner[c] EXCEPT !.due = @ \ {i}] \in ClRun
    BY <1>0 DEF ClRun
  <2>4. runner' \in [Runners -> ClRun]
    BY <1>0, <2>2, <2>3 DEF Young
  <2>5. UNCHANGED failed
    BY <1>1 DEF InsertRow, RowExpires, RepeatSearch
  <2> QED BY <1>f, <2>1, <2>4, <2>5 DEF ClTypeOK, ClRun
<1>2. ASSUME NEW c \in Runners, runDailyCleanup(c) PROVE ClTypeOK'
  <2>1. [task |-> 1, batch |-> {}, due |-> {i \in RowIds : rows[i] = "expired"}] \in ClRun
    BY <1>0 DEF ClRun
  <2> QED BY <1>0, <1>f, <1>2, <2>1 DEF runDailyCleanup, ClTypeOK, ClRun
<1>3. ASSUME NEW c \in Runners, NEW t, ReadBatch(c, t) PROVE ClTypeOK'
  <2>1. CASE Expired(c, t) = {}
    BY <1>0, <1>f, <1>n, <1>3, <2>1 DEF ReadBatch, ClTypeOK, ClRun
  <2>2. CASE Expired(c, t) # {}
    <3>1. PICK B \in Batches(Expired(c, t)) : runner' = [runner EXCEPT ![c].batch = B]
      BY <1>3, <2>2 DEF ReadBatch
    <3>2. B \subseteq RowIds
      BY <1>0 DEF Batches, Expired
    <3>3. [runner[c] EXCEPT !.batch = B] \in ClRun
      BY <1>0, <3>2 DEF ClRun
    <3>4. runner' \in [Runners -> ClRun]
      BY <1>0, <3>1, <3>3
    <3> QED BY <1>0, <1>f, <1>3, <3>4 DEF ReadBatch, ClTypeOK, ClRun
  <2> QED BY <2>1, <2>2
<1>4. ASSUME NEW c \in Runners, DeleteBatch(c) PROVE ClTypeOK'
  <2>1. rows' \in [RowIds -> {"none", "kept", "expired"}]
    BY <1>0, <1>4 DEF DeleteBatch
  <2>2. [runner[c] EXCEPT !.batch = {}] \in ClRun
    BY <1>0 DEF ClRun
  <2>3. NextTask(c) \/ runner' = [runner EXCEPT ![c].batch = {}]
    BY <1>4 DEF DeleteBatch
  <2>4. runner' \in [Runners -> ClRun]
    BY <1>0, <1>n, <1>4, <2>2, <2>3
  <2> QED BY <1>f, <1>4, <2>1, <2>4 DEF DeleteBatch, ClTypeOK, ClRun
<1>5. ASSUME NEW c \in Runners, CleanupFails(c) PROVE ClTypeOK'
  BY <1>0, <1>o, <1>5 DEF CleanupFails, ClTypeOK, ClRun
<1>6. ASSUME NEW c \in Runners, CleanStep(c) PROVE ClTypeOK'
  <2>1. DeleteBatch(c) \/ \E t : ReadBatch(c, t)
    BY <1>6 DEF CleanStep, cleanBlacklistedTokens, cleanResetTokens, cleanExpiredSessions,
       cleanOldLoginHistory, cleanOldSearchAnalytics, cleanOldSearchHistory,
       cleanWebhookDeliveryLogs, cleanRequestLogs
  <2> QED BY <1>3, <1>4, <2>1
<1>7. CASE UNCHANGED clVars
  BY <1>7 DEF clVars, ClTypeOK
<1> QED BY <1>1, <1>2, <1>5, <1>6, <1>7 DEF ClNext

\* For any number of instances, rows and batches, the runs go through the eight tasks and
\* a batch is a set of rows.
THEOREM CleanupTyped == ClSpec => []ClTypeOK
<1>1. ASSUME ClInit PROVE ClTypeOK
  <2>1. /\ rows \in [RowIds -> {"none", "kept", "expired"}]
        /\ runner \in [Runners -> ClRun]
    BY <1>1, TaskCount DEF ClInit, Off, ClRun
  <2>2. failed \in BOOLEAN
    BY <1>1 DEF ClInit
  <2> QED BY <2>1, <2>2 DEF ClTypeOK, ClRun
<1> QED BY <1>1, CleanStepTyped, PTL DEF ClSpec

-----------------------------------------------------------------------------
(* The RPC providers.                                                      *)

\* A finite and non-empty set of numbers has a first member.
LEMMA FirstExists ==
  ASSUME NEW S \in SUBSET Nat, IsFiniteSet(S), S # {}
  PROVE  \E p \in S : \A o \in S : p <= o
<1> DEFINE Below(p) == {o \in S : o < p}
           Belows == {Below(p) : p \in S}
<1>1. Belows \subseteq FiniteSubsetsOf(S) /\ Belows # {}
  <2>1. \A p \in S : IsFiniteSet(Below(p))
    BY FS_Subset
  <2> QED BY <2>1 DEF FiniteSubsetsOf
<1>2. PICK A \in Belows : \A B \in Belows : ~(<<B, A>> \in StrictSubsetOrdering(S))
  <2> HIDE DEF Belows
  <2> QED BY <1>1, FS_StrictSubsetOrderingWellFounded, WFMin
<1>3. PICK p \in S : A = Below(p)
  OBVIOUS
<1>4. ASSUME NEW o \in S, ~(p <= o) PROVE FALSE
  <2>0. o < p /\ ~(o < o) /\ \A z \in S : z < o => z < p
    BY <1>4
  <2>1. Below(o) \subseteq Below(p) /\ o \in Below(p) /\ o \notin Below(o)
    BY <2>0
  <2>2. <<Below(o), Below(p)>> \in StrictSubsetOrdering(S)
    <3>1. Below(o) \in SUBSET S /\ Below(p) \in SUBSET S /\ Below(o) # Below(p)
      BY <2>1
    <3> HIDE DEF Below
    <3> QED BY <2>1, <3>1 DEF StrictSubsetOrdering
  <2>3. Below(o) \in Belows
    OBVIOUS
  <2> QED BY <1>2, <1>3, <2>2, <2>3
<1> QED BY <1>3, <1>4

\* One step of a run or of a provider.
LEMMA RpcStepTyped == RpTypeOK /\ [RpNext]_rpVars => RpTypeOK'
<1> SUFFICES ASSUME RpTypeOK, [RpNext]_rpVars PROVE RpTypeOK'
  OBVIOUS
<1> DEFINE Answers == {"idle", "asked", "ok", "error", "recorded"}
<1>0. /\ rpFails \in [Providers -> 0..MaxFailures] /\ MaxFailures \in Nat
      /\ rpActive \in Providers /\ rpCheck \in [RpcRuns -> [Providers -> Answers]]
  BY RpcAssumption DEF RpTypeOK
<1>b. rpUp \in [Providers -> BOOLEAN] /\ rpHealthy \in [Providers -> BOOLEAN]
  BY DEF RpTypeOK
<1>1. ASSUME NEW p \in Providers, providerChanges(p) PROVE RpTypeOK'
  <2>1. rpUp' \in [Providers -> BOOLEAN]
    BY <1>b, <1>1 DEF providerChanges
  <2> QED BY <1>0, <1>b, <1>1, <2>1 DEF providerChanges, RpTypeOK
<1>2. ASSUME NEW r \in RpcRuns, checkRpcHealth(r) PROVE RpTypeOK'
  BY <1>0, <1>b, <1>2 DEF checkRpcHealth, RpTypeOK
<1>3. ASSUME NEW r \in RpcRuns, NEW p \in Providers, fetchBlockNumber(r, p) PROVE RpTypeOK'
  <2>1. rpCheck' \in [RpcRuns -> [Providers -> Answers]]
    BY <1>0, <1>3 DEF fetchBlockNumber
  <2> QED BY <1>0, <1>b, <1>3, <2>1 DEF fetchBlockNumber, RpTypeOK
<1>4. ASSUME NEW r \in RpcRuns, NEW p \in Providers, checkSingleRpcHealth(r, p) PROVE RpTypeOK'
  <2>1. rpFails' \in [Providers -> 0..MaxFailures]
    BY <1>0, <1>4 DEF checkSingleRpcHealth
  <2>2. \E h \in BOOLEAN : rpHealthy' = [rpHealthy EXCEPT ![p] = h]
    BY <1>4 DEF checkSingleRpcHealth
  <2>3. rpHealthy' \in [Providers -> BOOLEAN]
    BY <1>b, <2>2
  <2>4. rpCheck' \in [RpcRuns -> [Providers -> Answers]]
    BY <1>0, <1>4 DEF checkSingleRpcHealth
  <2> QED BY <1>0, <1>b, <1>4, <2>1, <2>3, <2>4 DEF checkSingleRpcHealth, RpTypeOK
<1>5. ASSUME NEW r \in RpcRuns, failover(r) PROVE RpTypeOK'
  <2> DEFINE rest == {p \in Providers \ {rpActive} : rpHealthy[p]}
  <2>1. \/ rpActive' = rpActive
        \/ rest # {} /\ rpActive' = CHOOSE p \in rest : \A o \in rest : p <= o
    BY <1>5 DEF failover
  <2>2. rest # {} => \E p \in rest : \A o \in rest : p <= o
    BY RpcAssumption, FirstExists, FS_Subset
  <2>3. rest \subseteq Providers
    OBVIOUS
  <2> HIDE DEF rest
  <2>4. rpActive' \in Providers
    BY <1>0, <2>1, <2>2, <2>3
  <2>5. rpCheck' \in [RpcRuns -> [Providers -> Answers]]
    BY <1>0, <1>5 DEF failover, RpIdle
  <2> QED BY <1>0, <1>b, <1>5, <2>4, <2>5 DEF failover, RpTypeOK
<1>6. CASE UNCHANGED rpVars
  BY <1>6 DEF rpVars, RpTypeOK
<1> QED BY <1>1, <1>2, <1>3, <1>4, <1>5, <1>6 DEF RpNext

\* For any number of providers and overlapping runs, the active one is always one of the
\* list and no count passes its bound.
THEOREM ProvidersTyped == RpSpec => []RpTypeOK
<1>1. RpInit => RpTypeOK
  BY RpcAssumption DEF RpInit, RpTypeOK, RpIdle
<1> QED BY <1>1, RpcStepTyped, PTL DEF RpSpec

-----------------------------------------------------------------------------
(* The composition.  Without its fairness, a behaviour of MCLive is one of *)
(* each module by itself.                                                  *)
liveVars == <<part, core, access, others>>

\* In MCLive every record, run and count keeps its type (LiveTypeOK).
THEOREM LiveTyped == LiveSpec => []LiveTypeOK
<1>1. LiveInit => RLInit /\ ClInit /\ RpInit
  BY DEF LiveInit
<1>2. [LiveNext]_liveVars => [RLNext]_rlVars /\ [ClNext]_clVars /\ [RpNext]_rpVars
  BY DEF LiveNext, liveVars, core, access, others
<1>3. LiveSpec => RLSpec /\ ClSpec /\ RpSpec
  BY <1>1, <1>2, PTL DEF LiveSpec, RLSpec, ClSpec, RpSpec, liveVars
<1>4. RLTypeOK /\ ClTypeOK /\ RpTypeOK => LiveTypeOK
  BY DEF LiveTypeOK
<1> QED BY <1>3, <1>4, LimitsTyped, CleanupTyped, ProvidersTyped, PTL
=============================================================================
