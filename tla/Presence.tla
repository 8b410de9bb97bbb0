------------------------------ MODULE Presence ------------------------------
(***************************************************************************)
(* The sockets of one user: notifications.gateway.ts, redis-presence.       *)
(* service.ts, ws-ticket.service.ts and session-revocation.service.ts.      *)
(* Every socket is connected to an instance of its own and bound to a       *)
(* session of its own.  The gateway may run any other callback while one    *)
(* awaits; commands to Redis are executed in the order an instance sends    *)
(* them.  Time is counted in heartbeat intervals.  The legacy handshake     *)
(* without a ticket, which binds no session, is left out.                   *)
(*                                                                           *)
(* disconnectSocket looks the socket up in server.sockets.sockets; the      *)
(* gateway has a namespace, whose `sockets` is the map itself, so that the  *)
(* lookup finds nothing and only the entry in socketSessions goes.          *)
(***************************************************************************)
EXTENDS Integers, FiniteSets

CONSTANTS Sockets,     \* socket ids
          PresenceTtl  \* PRESENCE_TTL in heartbeat intervals (3)

ASSUME PresenceAssumption == PresenceTtl \in Nat

VARIABLES
    psLink,     \* [Sockets -> {"none", "up", "down"}]: the connection of the client
    psTask,     \* [Sockets -> ...]: what handleConnection or handleDisconnect awaits
    psTracked,  \* sockets in userSockets and socketUsers
    psBound,    \* sockets in socketSessions
    psRoom,     \* sockets in the room of their session
    psHash,     \* fields of the hash presence:user in Redis
    psTtl,      \* heartbeat intervals until the hash expires
    psRevoked,  \* sockets whose session is revoked
    psPublish,  \* revocations on their way to the gateways
    psMissed,   \* revocations lost, or handled when the socket was not yet in its room
    psLost      \* sockets whose instance crashed or whose unregister failed

psVars == <<psLink, psTask, psTracked, psBound, psRoom, psHash, psTtl, psRevoked, psPublish,
            psMissed, psLost>>

PsTypeOK ==
    /\ psLink \in [Sockets -> {"none", "up", "down"}]
    /\ psTask \in [Sockets -> {"none", "ticket", "accept", "register", "unregister"}]
    /\ \A S \in {psTracked, psBound, psRoom, psHash, psRevoked, psPublish, psMissed, psLost} :
          S \subseteq Sockets
    /\ psTtl \in 0..PresenceTtl

PsInit ==
    /\ psLink = [s \in Sockets |-> "none"] /\ psTask = [s \in Sockets |-> "none"]
    /\ psTracked = {} /\ psBound = {} /\ psRoom = {}
    /\ psHash = {} /\ psTtl = 0
    /\ psRevoked = {} /\ psPublish = {} /\ psMissed = {} /\ psLost = {}

-----------------------------------------------------------------------------
(* Connections.                                                              *)

\* A handshake with a ticket, which stays valid when its session is revoked.
handleConnection(s) ==
    /\ psLink[s] = "none"
    /\ psLink' = [psLink EXCEPT ![s] = "up"]
    /\ psTask' = [psTask EXCEPT ![s] = "ticket"]
    /\ UNCHANGED <<psTracked, psBound, psRoom, psHash, psTtl, psRevoked, psPublish, psMissed, psLost>>

\* The answer of isSessionValid; a refused client is disconnected.
authenticateClient(s) ==
    /\ psTask[s] = "ticket"
    /\ IF s \in psRevoked
       THEN /\ psTask' = [psTask EXCEPT ![s] = "none"]
            /\ psLink' = [psLink EXCEPT ![s] = "down"]
       ELSE /\ psTask' = [psTask EXCEPT ![s] = "accept"]
            /\ UNCHANGED psLink
    /\ UNCHANGED <<psTracked, psBound, psRoom, psHash, psTtl, psRevoked, psPublish, psMissed, psLost>>

\* handleConnection goes on, whether or not the client is still there.
accept(s) ==
    /\ psTask[s] = "accept"
    /\ psTracked' = psTracked \cup {s}
    /\ psBound' = psBound \cup {s}
    /\ psRoom' = IF psLink[s] = "up" THEN psRoom \cup {s} ELSE psRoom
    /\ psTask' = [psTask EXCEPT ![s] = "register"]
    /\ UNCHANGED <<psLink, psHash, psTtl, psRevoked, psPublish, psMissed, psLost>>

\* Mutant of register: the hash is written without its expire.
register_NoTtl(s) ==
    /\ psTask[s] = "register"
    /\ psHash' = psHash \cup {s}
    /\ psTask' = [psTask EXCEPT ![s] = IF psLink[s] = "down" /\ s \notin psTracked
                                       THEN "unregister" ELSE "none"]
    /\ UNCHANGED <<psLink, psTtl, psTracked, psBound, psRoom, psRevoked, psPublish, psMissed, psLost>>

\* Redis answers, or the error is logged.  An unregister sent meanwhile comes next.
register(s) ==
    /\ psTask[s] = "register"
    /\ \/ psHash' = psHash \cup {s} /\ psTtl' = PresenceTtl
       \/ UNCHANGED <<psHash, psTtl>>
    /\ psTask' = [psTask EXCEPT ![s] = IF psLink[s] = "down" /\ s \notin psTracked
                                       THEN "unregister" ELSE "none"]
    /\ UNCHANGED <<psLink, psTracked, psBound, psRoom, psRevoked, psPublish, psMissed, psLost>>

\* Mutant of handleDisconnect: a socket whose registration is pending is not unregistered.
handleDisconnect_Early(s) ==
    /\ psLink' = [psLink EXCEPT ![s] = "down"]
    /\ psRoom' = psRoom \ {s}
    /\ psBound' = psBound \ {s}
    /\ psTracked' = psTracked \ {s}
    /\ psTask' = [psTask EXCEPT ![s] = "none"]
    /\ UNCHANGED <<psHash, psTtl, psRevoked, psMissed, psLost>>

\* The local maps are cleaned at once, then presence.unregister is awaited; a socket that
\* is not tracked yet leaves nothing to clean.
handleDisconnect(s) ==
    /\ psLink' = [psLink EXCEPT ![s] = "down"]
    /\ psRoom' = psRoom \ {s}
    /\ psBound' = psBound \ {s}
    /\ psTracked' = psTracked \ {s}
    /\ psTask' = IF s \in psTracked /\ psTask[s] = "none"
                 THEN [psTask EXCEPT ![s] = "unregister"] ELSE psTask
    /\ UNCHANGED <<psHash, psTtl, psRevoked, psMissed, psLost>>

clientLeaves(s) == psLink[s] = "up" /\ handleDisconnect(s) /\ UNCHANGED psPublish

\* A hash without fields does not exist.
SetHash(H) == psHash' = H /\ psTtl' = IF H = {} THEN 0 ELSE psTtl

unregister(s) ==
    /\ psTask[s] = "unregister"
    /\ \/ SetHash(psHash \ {s}) /\ UNCHANGED psLost
       \/ psLost' = psLost \cup {s} /\ UNCHANGED <<psHash, psTtl>>
    /\ psTask' = [psTask EXCEPT ![s] = "none"]
    /\ UNCHANGED <<psLink, psTracked, psBound, psRoom, psRevoked, psPublish, psMissed>>

-----------------------------------------------------------------------------
(* The heartbeat, and the expiry in Redis.                                   *)

\* The loop of startHeartbeat over socketUsers: expire does nothing for a missing key.
heartbeat(s) ==
    /\ s \in psTracked /\ psHash # {}
    /\ psTtl' = PresenceTtl
    /\ UNCHANGED <<psLink, psTask, psTracked, psBound, psRoom, psHash, psRevoked, psPublish, psMissed,
                   psLost>>

\* The loop over socketSessions: isSessionValid, and disconnectSocket if it is not.
revalidate(s) ==
    /\ s \in psBound /\ s \in psRevoked
    /\ psBound' = psBound \ {s}
    /\ UNCHANGED <<psLink, psTask, psTracked, psRoom, psHash, psTtl, psRevoked, psPublish, psMissed,
                   psLost>>

\* A heartbeat interval passes.
interval ==
    /\ psTtl > 0
    /\ psTtl' = psTtl - 1
    /\ psHash' = IF psTtl = 1 THEN {} ELSE psHash
    /\ UNCHANGED <<psLink, psTask, psTracked, psBound, psRoom, psRevoked, psPublish, psMissed, psLost>>

\* Redis restarts without its data.
redisRestarts ==
    /\ psHash # {}
    /\ SetHash({})
    /\ UNCHANGED <<psLink, psTask, psTracked, psBound, psRoom, psRevoked, psPublish, psMissed, psLost>>

\* The instance of the socket dies: no handler runs.
instanceDies(s) ==
    /\ psLink[s] = "up" \/ psTask[s] # "none" \/ s \in psTracked
    /\ psLink' = [psLink EXCEPT ![s] = "down"]
    /\ psTask' = [psTask EXCEPT ![s] = "none"]
    /\ psTracked' = psTracked \ {s} /\ psBound' = psBound \ {s} /\ psRoom' = psRoom \ {s}
    /\ psLost' = psLost \cup {s}
    /\ UNCHANGED <<psHash, psTtl, psRevoked, psPublish, psMissed>>

-----------------------------------------------------------------------------
(* Revocation.                                                               *)

\* publishRevoked after the row is written; a failure of Redis is swallowed.
publishRevoked(s) ==
    /\ s \notin psRevoked
    /\ psRevoked' = psRevoked \cup {s}
    /\ \/ psPublish' = psPublish \cup {s} /\ UNCHANGED psMissed
       \/ psMissed' = psMissed \cup {s} /\ UNCHANGED psPublish
    /\ UNCHANGED <<psLink, psTask, psTracked, psBound, psRoom, psHash, psTtl, psLost>>

\* Mutant of handleSessionRevoked: the local maps only, not the room.
handleSessionRevoked_Local(s) ==
    /\ s \in psPublish
    /\ psPublish' = psPublish \ {s}
    /\ psBound' = psBound \ {s}
    /\ UNCHANGED <<psLink, psTask, psTracked, psRoom, psHash, psTtl, psRevoked, psMissed, psLost>>

\* disconnectSockets on the room of the session.
handleSessionRevoked(s) ==
    /\ s \in psPublish
    /\ psPublish' = psPublish \ {s}
    /\ IF s \in psRoom
       THEN handleDisconnect(s)
       ELSE /\ psMissed' = IF psLink[s] = "up" THEN psMissed \cup {s} ELSE psMissed
            /\ psBound' = psBound \ {s}
            /\ UNCHANGED <<psLink, psTask, psTracked, psRoom, psHash, psTtl, psRevoked, psLost>>

PsNext ==
    \/ \E s \in Sockets :
          \/ handleConnection(s) \/ authenticateClient(s) \/ accept(s) \/ register(s)
          \/ clientLeaves(s) \/ unregister(s)
          \/ heartbeat(s) \/ revalidate(s) \/ instanceDies(s)
          \/ publishRevoked(s) \/ handleSessionRevoked(s)
    \/ interval \/ redisRestarts

PsSpec == PsInit /\ [][PsNext]_psVars

-----------------------------------------------------------------------------
(* Properties.                                                               *)

\* Redis names a socket whose connection has ended only while its removal is under way,
\* after a crash or a failed removal, or when the client left while its ticket was
\* checked, so that handleConnection entered a socket that was gone.
PresenceExplained ==
    \A s \in psHash : psLink[s] = "down" =>
        psTask[s] \in {"register", "unregister"} \/ s \in psLost \/ s \in psTracked

\* A user none of whose sockets is tracked any more is seen as offline after a while:
\* what crashed instances left in Redis expires, as no heartbeat extends it
\* (notifications.gateway.ts:33).
OfflineNoticed ==
    []<>((\A s \in Sockets : psLink[s] = "down" /\ s \notin psTracked /\ psTask[s] = "none")
            => psHash = {})

\* The socket of a revoked session is closed, unless the revocation was lost or handled
\* before the socket had joined the room of its session; for those the re-validation of
\* the heartbeat forgets the session and the connection stays.
RevokedSocketsClose ==
    \A s \in Sockets : []<>(s \in psRevoked /\ psLink[s] = "up" => s \in psMissed)
=============================================================================
