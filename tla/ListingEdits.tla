---------------------------- MODULE ListingEdits -----------------------------
(* Creating and editing listings: the address that must be unique, and the   *)
(* coordinates a geocoder supplies.                                          *)
EXTENDS Integers, FiniteSets

CONSTANTS EditReq,      \* requests that may overlap
          Homes,        \* rows of the property table
          Addresses,    \* postal addresses
          GeocodeMax    \* geocodeMaxPerMinute

ASSUME ListingEditsAssumption ==
    /\ IsFiniteSet(EditReq) /\ IsFiniteSet(Homes) /\ IsFiniteSet(Addresses)
    /\ EditReq # {} /\ Homes # {} /\ Addresses # {} /\ GeocodeMax \in Nat

VARIABLES home,     \* the rows: at (or "none"), coords (known or not)
          calls,    \* geocodeTimestamps inside the current minute
          edReq,    \* what each request has read and does next
          edSlip    \* history: listings written by a request that relied on an old read

edVars == <<home, calls, edReq, edSlip>>

EdIdle == [op |-> "idle", home |-> CHOOSE h \in Homes : TRUE, to |-> CHOOSE a \in Addresses : TRUE,
           moves |-> FALSE, stale |-> FALSE, coords |-> FALSE]

EdTypeOK ==
    /\ home \in [Homes -> [at : Addresses \union {"none"}, coords : BOOLEAN]]
    /\ edSlip \subseteq Homes
    /\ calls \in 0 .. GeocodeMax + Cardinality(EditReq)
    /\ edReq \in [EditReq -> [op : {"idle", "insert", "check", "locate", "ask", "write"},
                              home : Homes, to : Addresses, moves : BOOLEAN,
                              stale : BOOLEAN, coords : BOOLEAN]]

EdInit == /\ home = [h \in Homes |-> [at |-> "none", coords |-> FALSE]]
          /\ calls = 0 /\ edSlip = {}
          /\ edReq = [r \in EditReq |-> EdIdle]

Listed == {h \in Homes : home[h].at # "none"}
Taken(a, h) == \E g \in Listed \ {h} : home[g].at = a
EdGoto(r, op) == edReq' = [edReq EXCEPT ![r].op = op]
EdDone(r) == edReq' = [edReq EXCEPT ![r] = EdIdle]

\* a write of a row makes what the others have read of the table an old read
EdWrite(r, h, row) ==
    /\ home' = [home EXCEPT ![h] = row]
    /\ edReq' = [s \in EditReq |-> IF s = r THEN EdIdle
                                   ELSE [edReq[s] EXCEPT !.stale = edReq[s].op = "insert" \/ edReq[s].moves]]
    /\ edSlip' = IF edReq[r].stale THEN edSlip \union {h} ELSE edSlip

-----------------------------------------------------------------------------
(* create: look for the address, then insert.  attemptGeocode('new') finds   *)
(* no row 'new' and never asks the geocoder.                                 *)
create(r) == \E h \in Homes \ Listed, a \in Addresses, c \in BOOLEAN :
    /\ edReq[r].op = "idle" /\ ~Taken(a, h)
    /\ \A s \in EditReq : edReq[s].op = "insert" => edReq[s].home # h
    /\ edReq' = [edReq EXCEPT ![r] = [EdIdle EXCEPT !.op = "insert", !.home = h, !.to = a, !.coords = c]]
    /\ UNCHANGED <<home, calls, edSlip>>
insert(r) ==
    LET q == edReq[r] IN
    /\ q.op = "insert"
    /\ EdWrite(r, q.home, [at |-> q.to, coords |-> q.coords])
    /\ UNCHANGED calls

-----------------------------------------------------------------------------
(* update                                                                    *)

\* the row is read; the body has an address, coordinates or both
updateRead(r) == \E h \in Listed, a \in Addresses, c \in BOOLEAN :
    /\ edReq[r].op = "idle" /\ (a # home[h].at \/ c)
    /\ edReq' = [edReq EXCEPT ![r] =
                    [op |-> "check", home |-> h, to |-> a, moves |-> a # home[h].at,
                     stale |-> FALSE, coords |-> c]]
    /\ UNCHANGED <<home, calls, edSlip>>

checkAddress_Skipped(r) ==
    /\ edReq[r].op = "check"
    /\ EdGoto(r, IF edReq[r].moves /\ ~edReq[r].coords THEN "locate" ELSE "write")
    /\ UNCHANGED <<home, calls, edSlip>>

\* an address that another listing has ends the update
checkAddress(r) ==
    LET q == edReq[r] IN
    /\ q.op = "check" /\ UNCHANGED <<home, calls, edSlip>>
    /\ IF q.moves /\ Taken(q.to, q.home) THEN EdDone(r)
       ELSE EdGoto(r, IF q.moves /\ ~q.coords THEN "locate" ELSE "write")

attemptGeocode_Unlimited(r) ==
    LET q == edReq[r] IN
    /\ q.op = "locate" /\ UNCHANGED <<home, calls, edSlip>>
    /\ edReq' = [edReq EXCEPT ![r].coords = home[q.home].coords,
                              ![r].op = IF home[q.home].coords THEN "write" ELSE "ask"]

\* a moved listing keeps the coordinates it has; without any, the geocoder is
\* asked while the budget of the minute lasts
attemptGeocode(r) ==
    LET q == edReq[r] IN
    /\ q.op = "locate" /\ UNCHANGED <<home, calls, edSlip>>
    /\ edReq' = [edReq EXCEPT ![r].coords = home[q.home].coords,
                              ![r].op = IF ~home[q.home].coords /\ calls < GeocodeMax
                                        THEN "ask" ELSE "write"]
recordGeocodeCall(r) ==
    /\ edReq[r].op = "ask" /\ calls' = calls + 1
    /\ \E c \in BOOLEAN :  \* geocodeAddress turns every failure into null
          edReq' = [edReq EXCEPT ![r].coords = c, ![r].op = "write"]
    /\ UNCHANGED <<home, edSlip>>

commitEdit(r) ==
    LET q == edReq[r] IN
    /\ q.op = "write" /\ UNCHANGED calls
    /\ EdWrite(r, q.home, [at |-> IF q.moves THEN q.to ELSE home[q.home].at,
                           coords |-> q.coords \/ home[q.home].coords])

MinutePasses == calls > 0 /\ calls' = 0 /\ UNCHANGED <<home, edReq, edSlip>>

EdStep(r) == \/ create(r) \/ insert(r) \/ updateRead(r) \/ checkAddress(r)
             \/ attemptGeocode(r) \/ recordGeocodeCall(r) \/ commitEdit(r)

EdNext == (\E r \in EditReq : EdStep(r)) \/ MinutePasses

EdSpec == EdInit /\ [][EdNext]_edVars

-----------------------------------------------------------------------------
(* Two listings share an address only when one of them was created or moved  *)
(* while the other request was under way: no constraint backs the look-up    *)
(* (properties.service.ts:215-227, 435-453).                                 *)
AddressesDistinct ==
    \A g, h \in Listed : g # h /\ home[g].at = home[h].at => g \in edSlip \/ h \in edSlip

(* The geocoder is asked at most geocodeMaxPerMinute times a minute, plus    *)
(* once for each request that passed the check before another one recorded   *)
(* its call (properties.service.ts:98-108, 161-169).                         *)
GeocodeBudgetKept ==
    calls + Cardinality({r \in EditReq : edReq[r].op = "ask"}) < GeocodeMax + Cardinality(EditReq)
=============================================================================
