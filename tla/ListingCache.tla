---------------------------- MODULE ListingCache -----------------------------
(* The cached detail view and search page of a listing.  Requests of several *)
(* instances share the Redis entries, but the map from a tag to its keys is  *)
(* kept in the memory of each instance.                                      *)
EXTENDS Integers, FiniteSets

CONSTANTS ViewReq,    \* requests that may overlap
          Instances   \* server processes, each with its own cacheTagMap

ASSUME ListingCacheAssumption == IsFiniteSet(ViewReq) /\ IsFiniteSet(Instances) /\ Instances # {}

VARIABLES entry,      \* Redis: what each key holds compared with the database
          tagged,     \* cacheTagMap of each instance, for the tag PROPERTIES
          vwReq,      \* what each request does next
          excused     \* history: keys whose entry a known gap may leave outdated

vwVars == <<entry, tagged, vwReq, excused>>

Keys == {"detail", "search"}
VwAt(op, i) == [op |-> op, at |-> i, keys |-> {}, fresh |-> TRUE]
VwIdle == VwAt("idle", CHOOSE i \in Instances : TRUE)

VwTypeOK ==
    /\ entry \in [Keys -> {"none", "fresh", "outdated"}]
    /\ tagged \in [Instances -> SUBSET Keys] /\ excused \subseteq Keys
    /\ vwReq \in [ViewReq -> [op : {"idle", "load", "stored", "snapshot", "tag", "detail", "write", "clear"},
                              at : Instances, keys : SUBSET Keys, fresh : BOOLEAN]]

VwInit == /\ entry = [k \in Keys |-> "none"] /\ tagged = [i \in Instances |-> {}]
          /\ vwReq = [r \in ViewReq |-> VwIdle] /\ excused = {}

Present == {k \in Keys : entry[k] # "none"}
VwDone(r) == vwReq' = [vwReq EXCEPT ![r] = VwIdle]
Drop(K) == /\ entry' = [k \in Keys |-> IF k \in K THEN "none" ELSE entry[k]]
           /\ excused' = excused \ K

-----------------------------------------------------------------------------
(* Reading: remember, rememberSearch                                         *)

\* the value of the key as it is now, after a miss or an error of the cache
load(r) == \E i \in Instances, k \in Keys :
    /\ vwReq[r].op = "idle"
    /\ vwReq' = [vwReq EXCEPT ![r] = [op |-> "load", at |-> i, keys |-> {k}, fresh |-> TRUE]]
    /\ UNCHANGED <<entry, tagged, excused>>

\* Redis stores what was loaded, outdated or not
Store(r) ==
    entry' = [k \in Keys |-> IF k \notin vwReq[r].keys THEN entry[k]
                             ELSE IF vwReq[r].fresh THEN "fresh" ELSE "outdated"]

set_Untagged(r) ==
    /\ vwReq[r].op = "load" /\ VwDone(r) /\ UNCHANGED tagged /\ Store(r)
    /\ excused' = IF vwReq[r].fresh THEN excused \ vwReq[r].keys ELSE excused \union vwReq[r].keys

\* CacheService.set up to the answer of Redis
set(r) ==
    /\ vwReq[r].op = "load" /\ Store(r) /\ UNCHANGED tagged
    /\ vwReq' = [vwReq EXCEPT ![r].op = "stored"]
    /\ excused' = IF vwReq[r].fresh THEN excused \ vwReq[r].keys ELSE excused \union vwReq[r].keys

\* and after it, in the map of this instance
tagKey(r) ==
    /\ vwReq[r].op = "stored" /\ VwDone(r)
    /\ tagged' = [tagged EXCEPT ![vwReq[r].at] = @ \union vwReq[r].keys]
    /\ UNCHANGED <<entry, excused>>

\* the set, or only its answer, fails: the value is returned all the same, without a tag
setFails(r) ==
    /\ vwReq[r].op = "load" /\ VwDone(r) /\ UNCHANGED tagged
    /\ \/ UNCHANGED <<entry, excused>>
       \/ Store(r) /\ excused' = excused \union vwReq[r].keys

\* the time to live of an entry ends; its key stays in the tag map
Lapse(k) == entry[k] # "none" /\ Drop({k}) /\ UNCHANGED <<tagged, vwReq>>

-----------------------------------------------------------------------------
(* Writing                                                                   *)

\* The row changes: entries, and values on their way to one, are outdated.
\* The ones the request will not delete afterwards are not its to repair.
Commit(r, next, at, repaired) ==
    /\ entry' = [k \in Keys |-> IF k \in Present THEN "outdated" ELSE "none"]
    /\ excused' = excused \union (Present \ repaired)
    /\ vwReq' = [s \in ViewReq |->
                    IF s = r THEN VwAt(next, at)
                    ELSE [vwReq[s] EXCEPT !.fresh = @ /\ vwReq[s].op # "load"]]
    /\ UNCHANGED tagged

\* create, update, remove, restore: commit, invalidateByTag, then the detail view
writeAndInvalidate(r) == vwReq[r].op = "idle" /\ \E i \in Instances : Commit(r, "snapshot", i, Keys)

\* A key that is in Redis and waits for its tag.
Untagged(k) == \E s \in ViewReq : vwReq[s].op = "stored" /\ k \in vwReq[s].keys

\* invalidateByTag looks its keys up in the map of this instance only, and misses the keys
\* that another instance knows and those that are stored but not yet tagged
invalidateByTag(r) ==
    LET mine == tagged[vwReq[r].at] IN
    /\ vwReq[r].op = "snapshot"
    /\ vwReq' = [vwReq EXCEPT ![r].op = IF mine = {} THEN "detail" ELSE "tag", ![r].keys = mine]
    /\ excused' = excused \union
           {k \in Keys \ mine : Untagged(k) \/ \E j \in Instances \ {vwReq[r].at} : k \in tagged[j]}
    /\ UNCHANGED <<entry, tagged>>

\* its DELs run at once and end in any order
delMultiple(r) == \E k \in vwReq[r].keys :
    /\ vwReq[r].op = "tag"
    /\ vwReq' = [vwReq EXCEPT ![r].keys = @ \ {k}]
    /\ Drop({k}) /\ UNCHANGED tagged

\* one DEL fails: the tag is kept, the error only reported; a DEL that is still under way
\* is a Lapse of its key
delMultipleFails(r) ==
    /\ vwReq[r].op = "tag" /\ vwReq[r].keys # {}
    /\ vwReq' = [vwReq EXCEPT ![r].op = "detail", ![r].keys = {}]
    /\ excused' = excused \union vwReq[r].keys /\ UNCHANGED <<entry, tagged>>

\* The map of instance i loses its tag, with whatever was stored and tagged meanwhile.
ForgetTag(i) ==
    /\ tagged' = [tagged EXCEPT ![i] = {}]
    /\ excused' = excused \union (tagged[i] \intersect Present)

\* all DELs were answered: cacheTagMap.delete
dropTag(r) ==
    /\ vwReq[r].op = "tag" /\ vwReq[r].keys = {}
    /\ vwReq' = [vwReq EXCEPT ![r].op = "detail"]
    /\ ForgetTag(vwReq[r].at) /\ UNCHANGED entry

invalidateCachedProperty_Skipped(r) ==
    vwReq[r].op = "detail" /\ VwDone(r) /\ UNCHANGED <<entry, excused, tagged>>

\* the last step, and the only one of transitionStatus; a failure is ignored
invalidateCachedProperty(r) ==
    /\ vwReq[r].op = "detail" /\ VwDone(r) /\ UNCHANGED tagged
    /\ \/ Drop({"detail"})
       \/ UNCHANGED entry /\ excused' = excused \union {"detail"}

transition(r) == vwReq[r].op = "idle" /\ \E i \in Instances : Commit(r, "detail", i, {"detail"})

\* agents and amenities: the detail view is dropped before the write, so a read
\* in between puts the old view back
InvalidateFirst(r) ==
    /\ vwReq[r].op = "idle" /\ vwReq' = [vwReq EXCEPT ![r].op = "write"]
    /\ (Drop({"detail"}) \/ UNCHANGED <<entry, excused>>) /\ UNCHANGED tagged
assignAgent(r) == InvalidateFirst(r)
updateAgentAssignment(r) == InvalidateFirst(r)
removeAgentAssignment(r) == InvalidateFirst(r)
addAmenity(r) == InvalidateFirst(r)
updateAmenity(r) == InvalidateFirst(r)
removeAmenity(r) == InvalidateFirst(r)
writeAgent(r) == vwReq[r].op = "write" /\ Commit(r, "idle", VwIdle.at, {})

\* expiry, renewal, moderation and bulk changes leave the cache alone
writeOnly(r) == vwReq[r].op = "idle" /\ Commit(r, "idle", VwIdle.at, {})

\* the whole cache is cleared, and then this instance forgets its tags
clear(r) == /\ vwReq[r].op = "idle" /\ Drop(Keys) /\ UNCHANGED tagged
            /\ \E i \in Instances : vwReq' = [vwReq EXCEPT ![r] = VwAt("clear", i)]
clearTags(r) == vwReq[r].op = "clear" /\ VwDone(r) /\ ForgetTag(vwReq[r].at) /\ UNCHANGED entry

VwStep(r) == \/ load(r) \/ set(r) \/ tagKey(r) \/ setFails(r) \/ writeAndInvalidate(r)
             \/ invalidateByTag(r) \/ delMultiple(r) \/ delMultipleFails(r) \/ dropTag(r)
             \/ invalidateCachedProperty(r) \/ transition(r) \/ assignAgent(r)
             \/ updateAgentAssignment(r) \/ removeAgentAssignment(r) \/ addAmenity(r)
             \/ updateAmenity(r) \/ removeAmenity(r) \/ writeAgent(r) \/ writeOnly(r)
             \/ clear(r) \/ clearTags(r)

VwNext == (\E r \in ViewReq : VwStep(r)) \/ (\E k \in Keys : Lapse(k))

VwSpec == VwInit /\ [][VwNext]_vwVars

-----------------------------------------------------------------------------
Repairing(k) == \E r \in ViewReq : \/ vwReq[r].op = "snapshot"
                                   \/ vwReq[r].op = "tag" /\ k \in vwReq[r].keys \union {"detail"}
                                   \/ vwReq[r].op = "detail" /\ k = "detail"

(* An edit, a deletion or a status change leaves no outdated detail view or  *)
(* search page behind: an outdated entry is about to be deleted, or comes    *)
(* from a loader that was overtaken, was tagged in another instance or not   *)
(* yet when the keys of the tag were looked up, or lost its tag to an        *)
(* overlapping invalidation, or from a Redis error, or from one of the       *)
(* writes that do not, or too early, invalidate (properties.service.ts:521-  *)
(* 522, 1157).                                                               *)
OutdatedViewsExplained == \A k \in Keys : entry[k] = "outdated" => k \in excused \/ Repairing(k)

(* A key that is cached is in the tag map of some instance, or about to be,  *)
(* so that the next edit there can delete it, unless an invalidation dropped *)
(* the tag it got while that invalidation was waiting for Redis              *)
(* (cache.service.ts:74-76, 235-252).                                        *)
CachedKeysTagged ==
    \A k \in Keys : entry[k] # "none" /\ k \notin excused =>
                        Untagged(k) \/ \E i \in Instances : k \in tagged[i]
=============================================================================
