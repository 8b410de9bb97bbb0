--------------------------- MODULE Notifications ----------------------------
(***************************************************************************)
(* Notifications of one user, notifications.service.ts with sendToUser of    *)
(* notifications.gateway.ts, sent by one instance.  How sockets are entered *)
(* and removed is module Presence; here only whether one is open (ntLive,   *)
(* and ntHere on this instance), whether Redis names one (ntPresent, which  *)
(* may change at any time) and whether userSockets names a client that left *)
(* while its handshake was awaited (ntGhost).  deliverPending,              *)
(* handleTransactionUpdate and scheduleNotification have no caller.         *)
(***************************************************************************)
EXTENDS Integers, FiniteSets

CONSTANTS Notes  \* notifications

VARIABLES
    ntStatus,   \* [Notes -> status of the row, "none" before and after it exists]
    ntTask,     \* [Notes -> what sendNotification does next]
    ntSeen,     \* notifications some client received
    ntLive,     \* the user has a socket in its room
    ntHere,     \* one of them belongs to the sending instance
    ntGhost,    \* userSockets has an entry whose client had left before it was made
    ntPresent,  \* presence:user has an entry
    ntGap       \* notifications the answer of sendToUser may be wrong about

ntSockets == <<ntLive, ntHere, ntGhost, ntPresent>>

ntVars == <<ntStatus, ntTask, ntSeen, ntSockets, ntGap>>

NtTypeOK ==
    /\ ntStatus \in [Notes -> {"none", "PENDING", "DELIVERED", "READ"}]
    /\ ntTask \in [Notes -> {"new", "emit", "check", "update", "done"}]
    /\ ntSeen \subseteq Notes /\ ntGap \subseteq Notes
    /\ ntLive \in BOOLEAN /\ ntHere \in BOOLEAN /\ ntGhost \in BOOLEAN /\ ntPresent \in BOOLEAN

NtInit ==
    /\ ntStatus = [n \in Notes |-> "none"] /\ ntTask = [n \in Notes |-> "new"]
    /\ ntSeen = {} /\ ntGap = {}
    /\ ntLive = FALSE /\ ntHere = FALSE /\ ntGhost = FALSE /\ ntPresent = FALSE

-----------------------------------------------------------------------------
(* The sockets of the user.  Those that come or go between the emit and the *)
(* check of a notification make the answer wrong.                            *)

LiveSockets(live, here) ==
    /\ ntLive' = live /\ ntHere' = here
    /\ ntGap' = IF live = ntLive THEN ntGap ELSE ntGap \cup {n \in Notes : ntTask[n] = "check"}
    /\ UNCHANGED <<ntStatus, ntTask, ntSeen, ntGhost, ntPresent>>

connect == \E here \in BOOLEAN : LiveSockets(TRUE, ntHere \/ here)

\* A socket closes, or the instance it belongs to is lost; others may stay.
disconnect ==
    /\ ntLive
    /\ \E live \in BOOLEAN : \E here \in {FALSE, ntHere /\ live} : LiveSockets(live, here)

\* handleConnection goes on although the client left while authenticateClient was awaited.
handshakeAbandoned ==
    /\ ntGhost' = TRUE
    /\ UNCHANGED <<ntStatus, ntTask, ntSeen, ntLive, ntHere, ntPresent, ntGap>>

\* register, unregister and the TTL, which may come late or fail: see module Presence.
presenceChanges ==
    /\ ntPresent' = ~ntPresent
    /\ UNCHANGED <<ntStatus, ntTask, ntSeen, ntLive, ntHere, ntGhost, ntGap>>

-----------------------------------------------------------------------------
(* Notifications.                                                            *)

Unchanged == UNCHANGED <<ntSockets, ntGap>>

\* The row is created PENDING.
sendNotification(n) ==
    /\ ntTask[n] = "new"
    /\ ntStatus' = [ntStatus EXCEPT ![n] = "PENDING"]
    /\ ntTask' = [ntTask EXCEPT ![n] = "emit"]
    /\ UNCHANGED ntSeen /\ Unchanged

\* The event goes to the sockets in the room of the user; between instances it travels
\* through Redis and may be lost.
Emit(n) ==
    \E reached \in BOOLEAN :
        /\ (ntHere => reached) /\ (reached => ntLive)
        /\ ntSeen' = IF reached THEN ntSeen \cup {n} ELSE ntSeen
        /\ ntGap' = IF ntLive /\ ~reached THEN ntGap \cup {n} ELSE ntGap

\* Mutant of sendToUser: the answer is not awaited, so that it counts as true.
sendToUser_Unawaited(n) ==
    /\ ntTask[n] = "emit"
    /\ Emit(n)
    /\ ntTask' = [ntTask EXCEPT ![n] = "update"]
    /\ UNCHANGED <<ntStatus, ntSockets>>

sendToUser(n) ==
    /\ ntTask[n] = "emit"
    /\ Emit(n)
    /\ ntTask' = [ntTask EXCEPT ![n] = "check"]
    /\ UNCHANGED <<ntStatus, ntSockets>>

\* What the answer is made from: the hash in Redis, or userSockets of this instance.
Answers == {"redis", "userSockets"}

Connected(answer) == IF answer = "redis" THEN ntPresent ELSE ntHere \/ ntGhost

\* An entry that stands for no open socket: any in Redis, in the map only an abandoned one.
Stale(answer) == ~ntLive /\ (answer = "redis" \/ ntGhost)

\* Then Redis is asked; without an answer the map of this instance decides.
isUserConnected(n) ==
    /\ ntTask[n] = "check"
    /\ \E answer \in Answers :
          /\ ntTask' = [ntTask EXCEPT ![n] = IF Connected(answer) THEN "update" ELSE "done"]
          /\ ntGap' = IF Connected(answer) /\ Stale(answer) THEN ntGap \cup {n} ELSE ntGap
    /\ UNCHANGED <<ntStatus, ntSeen, ntSockets>>

\* The update names the id alone: it overwrites READ, and fails if the row is gone.
markDelivered(n) ==
    /\ ntTask[n] = "update"
    /\ ntStatus' = IF ntStatus[n] = "none" THEN ntStatus ELSE [ntStatus EXCEPT ![n] = "DELIVERED"]
    /\ ntTask' = [ntTask EXCEPT ![n] = "done"]
    /\ UNCHANGED ntSeen /\ Unchanged

markAsRead(n) ==
    /\ ntStatus[n] # "none"
    /\ ntStatus' = [ntStatus EXCEPT ![n] = "READ"]
    /\ UNCHANGED <<ntTask, ntSeen>> /\ Unchanged

markAllAsRead ==
    /\ \E n \in Notes : ntStatus[n] \in {"PENDING", "DELIVERED"}
    /\ ntStatus' = [n \in Notes |-> IF ntStatus[n] = "none" THEN "none" ELSE "READ"]
    /\ UNCHANGED <<ntTask, ntSeen>> /\ Unchanged

deleteNotification(n) ==
    /\ ntStatus[n] # "none"
    /\ ntStatus' = [ntStatus EXCEPT ![n] = "none"]
    /\ UNCHANGED <<ntTask, ntSeen>> /\ Unchanged

NtNext ==
    \/ connect \/ disconnect \/ handshakeAbandoned \/ presenceChanges
    \/ \E n \in Notes :
          \/ sendNotification(n) \/ sendToUser(n) \/ isUserConnected(n) \/ markDelivered(n)
          \/ markAsRead(n) \/ deleteNotification(n)
    \/ markAllAsRead

NtSpec == NtInit /\ [][NtNext]_ntVars

-----------------------------------------------------------------------------
(* Properties.                                                               *)

\* A notification marked DELIVERED reached a client, unless its emit was lost between two
\* instances, a socket came or went between the emit and the check, or the answer came
\* from an entry for no open socket: in Redis one that is out of date, in the map of this
\* instance one that an abandoned handshake left (notifications.gateway.ts:391).
DeliveredWasSeen == \A n \in Notes : ntStatus[n] = "DELIVERED" => n \in ntSeen \/ n \in ntGap
=============================================================================
