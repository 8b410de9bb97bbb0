------------------------------ MODULE ApiKeys -------------------------------
(* The API keys of one user and the calls made with them: a call looks the  *)
(* key up, checks the monthly quota and records its use in later queries.   *)
EXTENDS Integers, FiniteSets

CONSTANTS KeyIds,    \* rows of api_keys
          KeyCalls,  \* calls that may overlap
          Quota,     \* the monthlyQuota a key is created with (0: none)
          MaxUse     \* bound: recorded uses of one key in a month

ASSUME ApiKeysAssumption == IsFiniteSet(KeyIds) /\ IsFiniteSet(KeyCalls)
                            /\ Quota \in Nat /\ MaxUse \in Nat

VARIABLES keys,     \* [KeyIds -> row, with the requestCount of this month]
          keyCalls, \* the key each call has looked up, and what comes next
          rotating  \* the quota-less copies rotateApiKey has still to create

akVars == <<keys, keyCalls, rotating>>

NoKey == [st |-> "none", quota |-> 0, used |-> 0]
CallIdle == [at |-> "idle", key |-> {}]

AkTypeOK ==
    /\ keys \in [KeyIds -> [st : {"none", "live", "revoked"}, quota : {0, Quota}, used : 0..MaxUse]]
    /\ keyCalls \in [KeyCalls -> [at : {"idle", "quota", "record"}, key : SUBSET KeyIds]]
    /\ rotating \in 0..1

AkInit == /\ keys = [k \in KeyIds |-> NoKey]
          /\ keyCalls = [c \in KeyCalls |-> CallIdle] /\ rotating = 0

createApiKey(q) ==
    /\ \E k \in KeyIds : keys[k].st = "none"
          /\ keys' = [keys EXCEPT ![k] = [st |-> "live", quota |-> q, used |-> 0]]

CreateKey == \E q \in {0, Quota} : createApiKey(q) /\ UNCHANGED <<keyCalls, rotating>>

\* revokeApiKey, or expiresAt has come
revokeApiKey(k) == /\ keys[k].st = "live" /\ keys' = [keys EXCEPT ![k].st = "revoked"]
                   /\ UNCHANGED <<keyCalls, rotating>>

\* rotateApiKey revokes the key first; the new one is created without a quota
rotateApiKey(k) == /\ keys[k].st # "none" /\ rotating = 0 /\ rotating' = 1
                   /\ keys' = [keys EXCEPT ![k].st = "revoked"] /\ UNCHANGED keyCalls
RotateCreates == rotating = 1 /\ createApiKey(0) /\ rotating' = 0 /\ UNCHANGED keyCalls

\* validateApiKey finds a key that is not revoked, of a user who is not blocked
validateApiKey(c, k) ==
    /\ keyCalls[c].at = "idle" /\ keys[k].st = "live"
    /\ keyCalls' = [keyCalls EXCEPT ![c] = [at |-> "quota", key |-> {k}]]
    /\ UNCHANGED <<keys, rotating>>

\* checkQuota: 429 from the quota on
OverQuota_OffByOne(k) == keys[k].quota > 0 /\ keys[k].used > keys[k].quota
OverQuota(k) == keys[k].quota > 0 /\ keys[k].used >= keys[k].quota
checkQuota(c) ==
    \E k \in keyCalls[c].key :
      /\ keyCalls[c].at = "quota"
      /\ keyCalls' = [keyCalls EXCEPT ![c] = IF OverQuota(k) THEN CallIdle ELSE [@ EXCEPT !.at = "record"]]
      /\ UNCHANGED <<keys, rotating>>

\* recordUsage increments the counter of the day; a failure is only logged
recordUsage(c) ==
    \E k \in keyCalls[c].key :
      /\ keyCalls[c].at = "record" /\ keyCalls' = [keyCalls EXCEPT ![c] = CallIdle]
      /\ \/ keys[k].used < MaxUse /\ keys' = [keys EXCEPT ![k].used = @ + 1]
         \/ UNCHANGED keys
      /\ UNCHANGED rotating

\* a new month: getMonthlyUsage counts from zero
NewMonth == /\ keys' = [k \in KeyIds |-> [keys[k] EXCEPT !.used = 0]]
            /\ UNCHANGED <<keyCalls, rotating>>

AkNext == \/ CreateKey \/ RotateCreates \/ NewMonth
          \/ \E k \in KeyIds : revokeApiKey(k) \/ rotateApiKey(k)
          \/ \E c \in KeyCalls : checkQuota(c) \/ recordUsage(c) \/ \E k \in KeyIds : validateApiKey(c, k)

AkSpec == AkInit /\ [][AkNext]_akVars

-----------------------------------------------------------------------------
(* The quota is read before the use is recorded, so overlapping calls go    *)
(* past it; by no more than one use per call in flight beside the first     *)
(* (api-key-analytics.service.ts:47-64, auth.service.ts:1517-1528).         *)
QuotaBounded == \A k \in KeyIds : keys[k].quota > 0
                   => keys[k].used <= keys[k].quota + Cardinality(KeyCalls) - 1
=============================================================================
