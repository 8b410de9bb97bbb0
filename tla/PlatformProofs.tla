--------------------------- MODULE PlatformProofs ---------------------------
(***************************************************************************)
(* The invariants of the parts that serve all the others - mail, notifica- *)
(* tions, presence, backups and their timer, the archive, reminders,       *)
(* tours, tickets, seeding, routes and guards - for any number of          *)
(* requests, jobs, sockets, instances and runs: one section for each       *)
(* module, one for their types, and at the end the properties of their     *)
(* composition in MCPlatform.                                              *)
(***************************************************************************)
EXTENDS MCPlatform, FiniteSetTheorems, WellFoundedInduction, TLAPS

-----------------------------------------------------------------------------
(* Mail.                                                                   *)

\* A call that named the user after the mark never gets past the check of the user,
\* because nothing takes the mark back; and an idle call has no job yet.
WarnedStopped ==
    /\ mlSend \in [MailReq -> {"idle", "address", "user", "queue", "end"}]
    /\ mlJob \in [MailReq -> [at : {"none", "waiting", "sent", "failed"}, left : Int]]
    /\ mlWarned \subseteq MailReq
    /\ mlWarned # {} => mlStatus = "BOUNCED"
    /\ \A q \in MailReq : mlSend[q] # "end" => mlJob[q] = NoJob
    /\ \A q \in mlWarned \cap UserMail : mlSend[q] \notin {"idle", "queue"} /\ mlJob[q] = NoJob

\* The calls of the provider, and time, only ever set the mark.
LEMMA MarkKept ==
  ASSUME WarnedStopped,
         \/ markBounced \/ disableMail \/ hookFails \/ lookbackEnds
         \/ \E hard \in BOOLEAN : recordBounce(hard)
  PROVE  WarnedStopped'
  BY DEF WarnedStopped, markBounced, disableMail, hookFails, lookbackEnds, recordBounce

\* The steps of one call of sendEmail and of the worker.
LEMMA CallStep ==
  ASSUME WarnedStopped, NEW q \in MailReq,
         \/ sendEmail(q) \/ shouldSuppressAddress(q) \/ checkRecipient(q) \/ queueMail(q)
         \/ queueFails(q) \/ \E delivered \in BOOLEAN : processMail(q, delivered)
  PROVE  WarnedStopped'
<1>1. CASE sendEmail(q)
  BY <1>1 DEF WarnedStopped, sendEmail, GotoSend
<1>2. CASE shouldSuppressAddress(q)
  BY <1>2 DEF WarnedStopped, shouldSuppressAddress, GotoSend
<1>3. CASE checkRecipient(q)
  BY <1>3 DEF WarnedStopped, checkRecipient, GotoSend
<1>4. CASE queueMail(q)
  <2>1. q \notin mlWarned \cap UserMail
    BY <1>4 DEF WarnedStopped, queueMail
  <2> QED BY <1>4, <2>1, MailAssumption DEF WarnedStopped, queueMail, GotoSend, NoJob
<1>5. CASE queueFails(q)
  BY <1>5 DEF WarnedStopped, queueFails, GotoSend
<1>6. ASSUME NEW delivered \in BOOLEAN, processMail(q, delivered) PROVE WarnedStopped'
  <2>1. /\ mlJob[q] # NoJob
        /\ q \notin mlWarned \cap UserMail
        /\ mlSend[q] = "end"
    BY <1>6 DEF WarnedStopped, processMail, NoJob
  <2> QED BY <1>6, <2>1 DEF WarnedStopped, processMail
<1> QED BY <1>1, <1>2, <1>3, <1>4, <1>5, <1>6

\* sendEmail: for any number of overlapping calls, bounces and attempts, no mail that
\* names a user already marked as bounced is ever queued (NoMailToBouncedUser).
THEOREM BouncedUserSafe == MlSpec => []NoMailToBouncedUser
<1>1. MlInit => WarnedStopped
  BY DEF MlInit, WarnedStopped, NoJob
<1>2. WarnedStopped /\ [MlNext]_mlVars => WarnedStopped'
  <2> SUFFICES ASSUME WarnedStopped, [MlNext]_mlVars
               PROVE  WarnedStopped'
    OBVIOUS
  <2>1. CASE UNCHANGED mlVars
    BY <2>1 DEF WarnedStopped, mlVars
  <2>2. CASE MlNext
    BY <2>2, MarkKept, CallStep DEF MlNext
  <2> QED BY <2>1, <2>2
<1>3. WarnedStopped => NoMailToBouncedUser
  BY DEF WarnedStopped, NoMailToBouncedUser
<1> QED BY <1>1, <1>2, <1>3, PTL DEF MlSpec

-----------------------------------------------------------------------------
(* Notifications.                                                          *)

\* A socket of this instance is open; and while a notification waits for its check, a
\* client has the event if there is one, unless the notification is in ntGap.
MarksEarned ==
    /\ NtTypeOK
    /\ ntHere => ntLive
    /\ \A n \in Notes :
          /\ ntTask[n] = "check" /\ ntLive => n \in ntSeen \/ n \in ntGap
          /\ ntTask[n] = "update" => n \in ntSeen \/ n \in ntGap
          /\ ntStatus[n] = "DELIVERED" => n \in ntSeen \/ n \in ntGap

\* A socket that comes or goes puts every notification that it could mislead into ntGap.
LEMMA SocketsStep ==
  ASSUME MarksEarned, NEW live \in BOOLEAN, NEW here \in BOOLEAN, here => live,
         LiveSockets(live, here)
  PROVE  MarksEarned'
<1>1. NtTypeOK'
  BY DEF MarksEarned, NtTypeOK, LiveSockets
<1>2. ntHere' => ntLive'
  BY DEF LiveSockets
<1>3. ASSUME NEW n \in Notes
      PROVE  /\ n \in ntGap => n \in ntGap'
             /\ ntTask'[n] = "check" /\ ntLive' => ntLive \/ n \in ntGap'
  BY <1>3 DEF LiveSockets, MarksEarned, NtTypeOK
<1> QED BY <1>1, <1>2, <1>3 DEF MarksEarned, LiveSockets

\* Handshakes and entries come and go without touching a notification.
LEMMA EntriesStep ==
  ASSUME MarksEarned, connect \/ disconnect \/ handshakeAbandoned \/ presenceChanges
  PROVE  MarksEarned'
<1>1. ntLive \in BOOLEAN /\ ntHere \in BOOLEAN /\ (ntHere => ntLive)
  BY DEF MarksEarned, NtTypeOK
<1>2. CASE connect
  <2>1. PICK here \in BOOLEAN : LiveSockets(TRUE, ntHere \/ here)
    BY <1>2 DEF connect
  <2>2. (ntHere \/ here) \in BOOLEAN
    BY <1>1, <2>1
  <2> QED BY <2>1, <2>2, SocketsStep
<1>3. CASE disconnect
  <2>1. PICK live \in BOOLEAN : \E here \in {FALSE, ntHere /\ live} : LiveSockets(live, here)
    BY <1>3 DEF disconnect
  <2>2. PICK here \in {FALSE, ntHere /\ live} : LiveSockets(live, here)
    BY <2>1
  <2>3. here \in BOOLEAN /\ (here => live)
    BY <1>1, <2>1, <2>2
  <2> QED BY <2>1, <2>2, <2>3, SocketsStep
<1>4. CASE handshakeAbandoned
  BY <1>4 DEF handshakeAbandoned, MarksEarned, NtTypeOK
<1>5. CASE presenceChanges
  <2>1. ntPresent' \in BOOLEAN
    BY <1>5 DEF presenceChanges
  <2> QED BY <1>5, <2>1 DEF presenceChanges, MarksEarned, NtTypeOK
<1> QED BY <1>2, <1>3, <1>4, <1>5

\* The emit reaches a client, or there is none, or it is lost and in ntGap; nothing else
\* about the user changes.
LEMMA EmitFacts ==
  ASSUME MarksEarned, NEW n \in Notes, Emit(n)
  PROVE  /\ ntSeen \subseteq ntSeen' /\ ntGap \subseteq ntGap'
         /\ ntSeen' \subseteq Notes /\ ntGap' \subseteq Notes
         /\ ntLive => n \in ntSeen' \/ n \in ntGap'
<1>1. PICK reached \in BOOLEAN :
        /\ ntSeen' = IF reached THEN ntSeen \cup {n} ELSE ntSeen
        /\ ntGap' = IF ntLive /\ ~reached THEN ntGap \cup {n} ELSE ntGap
  BY DEF Emit
<1> QED BY <1>1 DEF MarksEarned, NtTypeOK

\* The steps of sendNotification and of the calls on the rows.
LEMMA NoteStep ==
  ASSUME MarksEarned, NEW n \in Notes,
         \/ sendNotification(n) \/ sendToUser(n) \/ isUserConnected(n) \/ markDelivered(n)
         \/ markAsRead(n) \/ deleteNotification(n)
  PROVE  MarksEarned'
<1>1. CASE sendNotification(n)
  BY <1>1 DEF MarksEarned, NtTypeOK, sendNotification, Unchanged, ntSockets
<1>2. CASE sendToUser(n)
  <2>1. /\ ntTask[n] = "emit" /\ ntTask' = [ntTask EXCEPT ![n] = "check"]
        /\ UNCHANGED <<ntStatus, ntSockets>>
    BY <1>2 DEF sendToUser
  <2>2. /\ ntSeen \subseteq ntSeen' /\ ntGap \subseteq ntGap'
        /\ ntSeen' \subseteq Notes /\ ntGap' \subseteq Notes
        /\ ntLive => n \in ntSeen' \/ n \in ntGap'
    BY <1>2, EmitFacts DEF sendToUser
  <2> QED BY <2>1, <2>2 DEF MarksEarned, NtTypeOK, ntSockets
<1>3. CASE isUserConnected(n)
  <2>1. PICK answer \in Answers :
          /\ ntTask' = [ntTask EXCEPT ![n] = IF Connected(answer) THEN "update" ELSE "done"]
          /\ ntGap' = IF Connected(answer) /\ Stale(answer) THEN ntGap \cup {n} ELSE ntGap
    BY <1>3 DEF isUserConnected
  <2>2. /\ ntTask[n] = "check"
        /\ UNCHANGED <<ntStatus, ntSeen, ntSockets>>
    BY <1>3 DEF isUserConnected
  <2>3. ntGap \subseteq ntGap' /\ ntGap' \subseteq Notes
    BY <2>1 DEF MarksEarned, NtTypeOK
  <2>4. CASE Connected(answer)
    <3>1. ntTask' = [ntTask EXCEPT ![n] = "update"]
      BY <2>1, <2>4
    <3>2. n \in ntSeen' \/ n \in ntGap'
      BY <2>1, <2>2, <2>3, <2>4 DEF Connected, Stale, Answers, MarksEarned
    <3> QED BY <2>2, <2>3, <3>1, <3>2 DEF MarksEarned, NtTypeOK, ntSockets
  <2>5. CASE ~Connected(answer)
    <3>1. ntTask' = [ntTask EXCEPT ![n] = "done"]
      BY <2>1, <2>5
    <3> QED BY <2>2, <2>3, <3>1 DEF MarksEarned, NtTypeOK, ntSockets
  <2> QED BY <2>4, <2>5
<1>4. CASE markDelivered(n)
  BY <1>4 DEF MarksEarned, NtTypeOK, markDelivered, Unchanged, ntSockets
<1>5. CASE markAsRead(n)
  BY <1>5 DEF MarksEarned, NtTypeOK, markAsRead, Unchanged, ntSockets
<1>6. CASE deleteNotification(n)
  BY <1>6 DEF MarksEarned, NtTypeOK, deleteNotification, Unchanged, ntSockets
<1> QED BY <1>1, <1>2, <1>3, <1>4, <1>5, <1>6

\* sendToUser, isUserConnected: for any number of notifications, whatever the sockets of
\* the user do between the emit and the check (NtTypeOK, DeliveredWasSeen).
THEOREM DeliveredSafe == NtSpec => [](NtTypeOK /\ DeliveredWasSeen)
<1>1. NtInit => MarksEarned
  BY DEF NtInit, MarksEarned, NtTypeOK
<1>2. MarksEarned /\ [NtNext]_ntVars => MarksEarned'
  <2> SUFFICES ASSUME MarksEarned, [NtNext]_ntVars
               PROVE  MarksEarned'
    OBVIOUS
  <2>1. CASE UNCHANGED ntVars
    BY <2>1 DEF MarksEarned, NtTypeOK, ntVars, ntSockets
  <2>2. CASE connect \/ disconnect \/ handshakeAbandoned \/ presenceChanges
    BY <2>2, EntriesStep
  <2>3. CASE markAllAsRead
    BY <2>3 DEF MarksEarned, NtTypeOK, markAllAsRead, Unchanged, ntSockets
  <2> QED BY <2>1, <2>2, <2>3, NoteStep DEF NtNext
<1>3. MarksEarned => NtTypeOK /\ DeliveredWasSeen
  BY DEF MarksEarned, DeliveredWasSeen
<1> QED BY <1>1, <1>2, <1>3, PTL DEF NtSpec

-----------------------------------------------------------------------------
(* Presence.                                                               *)

PsTasks == {"none", "ticket", "accept", "register", "unregister"}

\* The life of one socket: no entry before it is registered, tracked while it is up and
\* accepted, in its room only while it is up; and what PresenceExplained says.
SocketLife ==
    /\ psLink \in [Sockets -> {"none", "up", "down"}]
    /\ psTask \in [Sockets -> PsTasks] /\ psHash \subseteq Sockets
    /\ \A s \in Sockets :
          /\ psLink[s] = "none" => psTask[s] = "none" /\ s \notin psHash
          /\ psTask[s] \in {"ticket", "accept"} => s \notin psHash /\ s \notin psRoom
          /\ psLink[s] = "up" /\ psTask[s] \in {"none", "register"} => s \in psTracked
          /\ psTask[s] = "unregister" => psLink[s] = "down"
          /\ s \in psRoom => psLink[s] = "up"
          /\ s \in psHash /\ psLink[s] = "down" =>
                psTask[s] \in {"register", "unregister"} \/ s \in psLost \/ s \in psTracked

\* The callbacks of one socket.
LEMMA SocketStep ==
  ASSUME SocketLife, NEW s \in Sockets,
         \/ handleConnection(s) \/ authenticateClient(s) \/ accept(s) \/ register(s)
         \/ clientLeaves(s) \/ unregister(s) \/ instanceDies(s) \/ handleSessionRevoked(s)
  PROVE  SocketLife'
<1>1. ASSUME handleDisconnect(s), psLink[s] = "up" PROVE SocketLife'
  BY <1>1 DEF SocketLife, PsTasks, handleDisconnect
<1>2. CASE handleConnection(s)
  BY <1>2 DEF SocketLife, PsTasks, handleConnection
<1>3. CASE authenticateClient(s)
  <2>1. CASE s \in psRevoked
    BY <1>3, <2>1 DEF SocketLife, PsTasks, authenticateClient
  <2>2. CASE s \notin psRevoked
    BY <1>3, <2>2 DEF SocketLife, PsTasks, authenticateClient
  <2> QED BY <2>1, <2>2
<1>4. CASE accept(s)
  BY <1>4 DEF SocketLife, PsTasks, accept
<1>5. CASE register(s)
  BY <1>5 DEF SocketLife, PsTasks, register
<1>6. CASE clientLeaves(s)
  BY <1>1, <1>6 DEF clientLeaves
<1>7. CASE unregister(s)
  BY <1>7 DEF SocketLife, PsTasks, unregister, SetHash
<1>8. CASE instanceDies(s)
  BY <1>8 DEF SocketLife, PsTasks, instanceDies
<1>9. CASE handleSessionRevoked(s)
  <2>1. CASE s \in psRoom
    BY <1>1, <1>9, <2>1 DEF handleSessionRevoked, SocketLife
  <2>2. CASE s \notin psRoom
    BY <1>9, <2>2 DEF handleSessionRevoked, SocketLife, PsTasks
  <2> QED BY <2>1, <2>2
<1> QED BY <1>2, <1>3, <1>4, <1>5, <1>6, <1>7, <1>8, <1>9

\* The gateway and redis-presence.service.ts: for any number of sockets, whatever the order
\* of their callbacks, with crashes, failures of Redis and revocations (PresenceExplained).
THEOREM PresenceSafe == PsSpec => []PresenceExplained
<1>1. PsInit => SocketLife
  BY DEF PsInit, SocketLife, PsTasks
<1>2. SocketLife /\ [PsNext]_psVars => SocketLife'
  <2> SUFFICES ASSUME SocketLife, [PsNext]_psVars
               PROVE  SocketLife'
    OBVIOUS
  <2>1. CASE UNCHANGED psVars
    BY <2>1 DEF SocketLife, psVars
  <2>2. ASSUME NEW s \in Sockets, heartbeat(s) \/ revalidate(s) \/ publishRevoked(s)
        PROVE  SocketLife'
    BY <2>2 DEF SocketLife, heartbeat, revalidate, publishRevoked
  <2>3. CASE interval \/ redisRestarts
    <3>1. /\ psHash' \subseteq psHash
          /\ UNCHANGED <<psLink, psTask, psTracked, psRoom, psLost>>
      BY <2>3 DEF interval, redisRestarts, SetHash
    <3> QED BY <3>1 DEF SocketLife
  <2> QED BY <2>1, <2>2, <2>3, SocketStep DEF PsNext
<1>3. SocketLife => PresenceExplained
  <2> SUFFICES ASSUME SocketLife, NEW s \in psHash, psLink[s] = "down"
               PROVE  psTask[s] \in {"register", "unregister"} \/ s \in psLost \/ s \in psTracked
    BY DEF PresenceExplained
  <2> QED BY DEF SocketLife
<1> QED BY <1>1, <1>2, <1>3, PTL DEF PsSpec

-----------------------------------------------------------------------------
(* Backups.                                                                *)

BkTasks == [step : BkSteps, id : 0..MaxBackups, doomed : SUBSET BackupIds, attempt : Int]

\* Job j writes the dump of a backup whose row it has created; it has ended that dump; it
\* restores its backup.
Dumping(j) == bkTask[j].step \in {"dump", "complete"}
Finishing(j) == bkTask[j].step \in {"retain", "delete", "fail", "unlink"}
Restoring(j) == bkTask[j].step \in {"psql", "record"}

BackupShape ==
    /\ bkRow \in [BackupIds -> BkRows]
    /\ bkFile \in [BackupIds -> SUBSET [BackupIds -> BkRows]]
    /\ bkAbandoned \subseteq BackupIds /\ bkRevived \subseteq BackupIds /\ bkSpoiled \in BOOLEAN
    /\ bkNext \in 1..(MaxBackups + 1)
    /\ bkTask \in [BkJobs -> BkTasks]
    /\ \A j \in BkJobs : bkTask[j].step \notin {"none", "create", "wait"} => bkTask[j].id \in BackupIds

\* A row is RUNNING while its own job dumps or restores, or as RunningExplained says.
RunningOwned ==
    \A i \in BackupIds :
        /\ bkRow[i].status = "RUNNING" =>
              (\E j \in BkJobs : Dumping(j) /\ bkTask[j].id = i) \/ i \in bkAbandoned \/ i \in bkRevived
        /\ bkRow[i].restoring =>
              (\E j \in BkJobs : Restoring(j) /\ bkTask[j].id = i) \/ i \in bkAbandoned \/ i \in bkRevived

\* No restore has replaced the table and no complete backup was marked as failed.
Calm == bkRevived = {} /\ ~bkSpoiled

\* The rows follow their jobs: none beyond the last number, RUNNING while dumped, by one
\* job each, and not afterwards; nobody wants to delete a RUNNING row or removes the file
\* of a complete one for a failure; and a dump shows its own row RUNNING.
RowsFollow ==
    /\ \A i \in BackupIds : i >= bkNext => bkRow[i].status = "none"
    /\ \A j \in BkJobs : Dumping(j) => bkRow[bkTask[j].id].status = "RUNNING"
    /\ \A j, k \in BkJobs : Dumping(j) /\ Dumping(k) /\ bkTask[j].id = bkTask[k].id => j = k
    /\ \A j \in BkJobs : Finishing(j) =>
          /\ bkRow[bkTask[j].id].status # "RUNNING" /\ bkTask[j].id < bkNext
          /\ bkTask[j].step = "unlink" => bkRow[bkTask[j].id].status # "COMPLETED"
    /\ \A j \in BkJobs : \A d \in bkTask[j].doomed : bkRow[d].status # "RUNNING" /\ d < bkNext
    /\ \A i \in BackupIds : \A t \in bkFile[i] : t[i].status = "RUNNING"

\* Backup m is the latest one that is complete, has its file, and nobody deletes it.
Newest(m) ==
    /\ bkRow[m].status = "COMPLETED" /\ bkFile[m] # {}
    /\ \A k \in BackupIds : bkRow[k].status = "COMPLETED" => k <= m
    /\ \A j \in BkJobs : m \notin bkTask[j].doomed

NewestKept ==
    (\A i \in BackupIds : bkRow[i].status # "COMPLETED") \/ (\E m \in BackupIds : Newest(m))

BackupInv ==
    /\ BackupShape
    /\ RunningOwned
    /\ Calm => RowsFollow /\ NewestKept

\* A step of job j that writes no status and no file and gives j no more rows to delete; a
\* RUNNING row it gives up is in bkAbandoned.
LEMMA TaskOnly ==
  ASSUME BackupInv, NEW j \in BkJobs, NEW t \in BkTasks,
         bkRow' \in [BackupIds -> BkRows], \A i \in BackupIds : bkRow'[i].status = bkRow[i].status,
         UNCHANGED <<bkFile, bkNext, bkRevived, bkSpoiled>>,
         bkTask' = [bkTask EXCEPT ![j] = t],
         bkAbandoned \subseteq bkAbandoned', bkAbandoned' \subseteq BackupIds,
         t.step \in {"none", "wait", "create", "mark", "psql", "record"},
         t.doomed \subseteq bkTask[j].doomed,
         t.step \in {"mark", "psql", "record"} => t.id \in BackupIds,
         Dumping(j) /\ bkRow[bkTask[j].id].status = "RUNNING" => bkTask[j].id \in bkAbandoned',
         \A i \in BackupIds : bkRow'[i].restoring =>
            \/ bkRow[i].restoring /\ (Restoring(j) => bkTask[j].id # i)
            \/ t.step \in {"psql", "record"} /\ t.id = i
            \/ i \in bkAbandoned'
  PROVE  BackupInv'
<1>1. /\ bkTask'[j] = t
      /\ \A k \in BkJobs : k # j => bkTask'[k] = bkTask[k]
      /\ bkTask' \in [BkJobs -> BkTasks]
      /\ \A k \in BkJobs : bkTask[k].doomed \subseteq BackupIds
      /\ \A k \in BkJobs : Dumping(k) \/ Finishing(k) => bkTask[k].id \in BackupIds
  BY DEF BackupInv, BackupShape, BkTasks, Dumping, Finishing
<1>2. /\ \A k \in BkJobs : Dumping(k)' <=> Dumping(k) /\ k # j
      /\ \A k \in BkJobs : Finishing(k)' <=> Finishing(k) /\ k # j
      /\ \A k \in BkJobs : k # j => (Restoring(k)' <=> Restoring(k))
      /\ Restoring(j)' <=> t.step \in {"psql", "record"}
  BY <1>1 DEF Dumping, Finishing, Restoring
<1>3. BackupShape'
  BY <1>1 DEF BackupInv, BackupShape
<1>4. RunningOwned'
  <2>1. ASSUME NEW i \in BackupIds, bkRow[i].status = "RUNNING"
        PROVE  (\E k \in BkJobs : Dumping(k)' /\ bkTask'[k].id = i) \/ i \in bkAbandoned' \/ i \in bkRevived
    <3>1. (\E k \in BkJobs : Dumping(k) /\ bkTask[k].id = i) \/ i \in bkAbandoned \/ i \in bkRevived
      BY <2>1 DEF BackupInv, RunningOwned
    <3> QED BY <1>1, <1>2, <2>1, <3>1
  <2>2. ASSUME NEW i \in BackupIds, bkRow'[i].restoring
        PROVE  (\E k \in BkJobs : Restoring(k)' /\ bkTask'[k].id = i) \/ i \in bkAbandoned' \/ i \in bkRevived
    <3>1. CASE bkRow[i].restoring /\ (Restoring(j) => bkTask[j].id # i)
      <4>1. (\E k \in BkJobs : Restoring(k) /\ bkTask[k].id = i) \/ i \in bkAbandoned \/ i \in bkRevived
        BY <3>1 DEF BackupInv, RunningOwned
      <4> QED BY <1>1, <1>2, <3>1, <4>1
    <3> QED BY <1>1, <1>2, <2>2, <3>1
  <2> QED BY <2>1, <2>2 DEF RunningOwned
<1>5. RowsFollow => RowsFollow'
  BY <1>1, <1>2 DEF RowsFollow
<1>6. NewestKept => NewestKept'
  <2>1. \A m \in BackupIds : Newest(m) => Newest(m)'
    BY <1>1 DEF Newest
  <2> QED BY <2>1 DEF NewestKept
<1>7. Calm' = Calm
  BY DEF Calm
<1> QED BY <1>3, <1>4, <1>5, <1>6, <1>7 DEF BackupInv

\* What a job leaves RUNNING is remembered.
LEMMA Abandoned ==
  ASSUME BackupInv, NEW i \in Int, Abandon(i)
  PROVE  /\ bkAbandoned \subseteq bkAbandoned' /\ bkAbandoned' \subseteq BackupIds
         /\ i \in BackupIds /\ Running(i) => i \in bkAbandoned'
BY DEF BackupInv, BackupShape, Abandon

\* A job that ends, well or not, or that waits for its next attempt.
LEMMA JobEnds ==
  ASSUME BackupInv, NEW j \in BkJobs, JobDone(j) \/ JobThrows(j)
  PROVE  \E t \in BkTasks : /\ bkTask' = [bkTask EXCEPT ![j] = t]
                            /\ t.step \in {"none", "wait"} /\ t.doomed = {} /\ t.id = 0
<1>1. bkTask[j] \in BkTasks /\ bkTask[j].attempt \in Int
  BY DEF BackupInv, BackupShape, BkTasks
<1>2. NoTask \in BkTasks /\ Task("wait", 0, bkTask[j].attempt) \in BkTasks
  BY <1>1, BackupsAssumption DEF NoTask, Task, BkTasks, BkSteps
<1>3. CASE JobDone(j)
  BY <1>2, <1>3 DEF JobDone, NoTask, Task
<1>4. CASE JobThrows(j)
  <2>1. CASE bkTask[j].attempt \in 1..(MaxAttempts - 1)
    <3>1. bkTask' = [bkTask EXCEPT ![j] = Task("wait", 0, bkTask[j].attempt)]
      BY <1>4, <2>1 DEF JobThrows, Throws
    <3>2. LET t == Task("wait", 0, bkTask[j].attempt)
          IN  t.step = "wait" /\ t.doomed = {} /\ t.id = 0
      BY DEF NoTask, Task
    <3> QED BY <1>2, <3>1, <3>2
  <2>2. CASE bkTask[j].attempt \notin 1..(MaxAttempts - 1)
    BY <1>2, <1>4, <2>2 DEF JobThrows, Throws, NoTask, Task
  <2> QED BY <2>1, <2>2
<1> QED BY <1>3, <1>4

\* The jobs start: ensureNoActiveJobs writes nothing.
LEMMA StartBackupStep ==
  ASSUME BackupInv, NEW j \in BkJobs,
         \/ createManualBackup(j) \/ scheduledBackup(j) \/ retryBackup(j)
         \/ \E i \in BackupIds : restoreBackup(j, i)
         \/ jobDies(j)
  PROVE  BackupInv'
<1>0. bkTask[j] \in BkTasks /\ bkTask[j].attempt \in Int
  BY DEF BackupInv, BackupShape, BkTasks
<1>1. ASSUME NEW attempt \in Int, startBackup(j, attempt), bkTask[j].step \in {"none", "wait"}
      PROVE  BackupInv'
  <2> DEFINE Tr == Task("wait", 0, attempt)
             Cr == Task("create", 0, attempt)
  <2>1. /\ Tr \in BkTasks /\ Tr.step = "wait" /\ Tr.doomed = {}
        /\ Cr \in BkTasks /\ Cr.step = "create" /\ Cr.doomed = {}
        /\ NoTask \in BkTasks /\ NoTask.step = "none" /\ NoTask.doomed = {}
    BY BackupsAssumption, <1>1 DEF NoTask, Task, BkTasks, BkSteps
  <2>2. \E t \in {Tr, Cr, NoTask} : bkTask' = [bkTask EXCEPT ![j] = t]
    BY <1>1 DEF startBackup, Throws
  <2> HIDE DEF Tr, Cr
  <2>3. /\ UNCHANGED <<bkRow, bkFile, bkNext, bkRevived, bkSpoiled, bkAbandoned>>
        /\ bkAbandoned \subseteq BackupIds /\ bkRow \in [BackupIds -> BkRows]
    BY <1>1 DEF startBackup, BackupInv, BackupShape
  <2>4. ~Dumping(j) /\ ~Restoring(j)
    BY <1>1 DEF Dumping, Restoring
  <2> QED BY <2>1, <2>2, <2>3, <2>4, TaskOnly
<1>2. CASE createManualBackup(j) \/ scheduledBackup(j) \/ retryBackup(j)
  BY <1>0, <1>1, <1>2 DEF createManualBackup, scheduledBackup, retryBackup
<1>3. ASSUME NEW i \in BackupIds, restoreBackup(j, i) PROVE BackupInv'
  <2> DEFINE t == Task("mark", i, 0)
  <2>1. t \in BkTasks /\ t.step = "mark" /\ t.doomed = {} /\ t.id = i
    BY <1>3, BackupsAssumption DEF NoTask, Task, BkTasks, BkSteps, BackupIds
  <2>2. bkTask' = [bkTask EXCEPT ![j] = t]
    BY <1>3 DEF restoreBackup
  <2> HIDE DEF t
  <2>3. /\ UNCHANGED <<bkRow, bkFile, bkNext, bkRevived, bkSpoiled, bkAbandoned>>
        /\ bkAbandoned \subseteq BackupIds /\ bkRow \in [BackupIds -> BkRows]
    BY <1>3 DEF restoreBackup, BackupInv, BackupShape
  <2>4. ~Dumping(j) /\ ~Restoring(j)
    BY <1>3 DEF restoreBackup, Dumping, Restoring
  <2> QED BY <1>3, <2>1, <2>2, <2>3, <2>4, TaskOnly
<1>4. CASE jobDies(j)
  <2>1. PICK t \in BkTasks : /\ bkTask' = [bkTask EXCEPT ![j] = t]
                             /\ t.step \in {"none", "wait"} /\ t.doomed = {}
    BY <1>4, JobEnds DEF jobDies
  <2>2. UNCHANGED <<bkRow, bkFile, bkNext, bkRevived, bkSpoiled>> /\ Abandon(bkTask[j].id)
    BY <1>4 DEF jobDies
  <2>3. bkTask[j].id \in Int /\ bkRow \in [BackupIds -> BkRows]
    BY <1>0, BackupsAssumption DEF BkTasks, BackupInv, BackupShape
  <2>4. /\ bkAbandoned \subseteq bkAbandoned' /\ bkAbandoned' \subseteq BackupIds
        /\ bkTask[j].id \in BackupIds /\ Running(bkTask[j].id) => bkTask[j].id \in bkAbandoned'
    BY <2>2, <2>3, Abandoned
  <2>5. Dumping(j) \/ Restoring(j) => bkTask[j].id \in BackupIds
    BY DEF Dumping, Restoring, BackupInv, BackupShape
  <2> QED BY <2>1, <2>2, <2>3, <2>4, <2>5, TaskOnly DEF Running
<1> QED BY <1>2, <1>3, <1>4

\* What an update of the status of one row does to the table.
LEMMA StatusWritten ==
  ASSUME NEW table \in [BackupIds -> BkRows], NEW i \in BackupIds,
         NEW v \in {"none", "RUNNING", "COMPLETED", "FAILED"},
         NEW new, new = [table EXCEPT ![i].status = v]
  PROVE  /\ new \in [BackupIds -> BkRows]
         /\ new[i].status = v
         /\ \A k \in BackupIds : k # i => new[k] = table[k]
  BY DEF BkRows

\* The job goes on with its next step.
LEMMA StepOn ==
  ASSUME BackupInv, NEW j \in BkJobs, NEW step \in BkSteps, Goto(j, step)
  PROVE  \E t \in BkTasks : /\ bkTask' = [bkTask EXCEPT ![j] = t]
                            /\ t.step = step /\ t.doomed = bkTask[j].doomed /\ t.id = bkTask[j].id
<1> DEFINE t == [bkTask[j] EXCEPT !.step = step]
<1>1. bkTask[j] \in BkTasks
  BY DEF BackupInv, BackupShape
<1>2. t \in BkTasks /\ t.step = step /\ t.doomed = bkTask[j].doomed /\ t.id = bkTask[j].id
  BY <1>1 DEF BkTasks
<1>3. bkTask' = [bkTask EXCEPT ![j] = t]
  BY DEF Goto
<1> QED BY <1>2, <1>3

\* restoreBackup after its check: only psql changes more than the restore status, and the
\* first restore that does replaces the table by one with a RUNNING row.
LEMMA RestoreStep ==
  ASSUME BackupInv, NEW j \in BkJobs, markRestore(j) \/ runRestoreCommand(j) \/ recordRestore(j)
  PROVE  BackupInv'
<1>i. PICK i \in BackupIds : i = bkTask[j].id
  BY DEF BackupInv, BackupShape, markRestore, runRestoreCommand, recordRestore
<1>0. /\ bkRow \in [BackupIds -> BkRows] /\ bkAbandoned \subseteq BackupIds
      /\ bkTask[j].doomed \subseteq BackupIds /\ i \in Int
      /\ ~Dumping(j) /\ bkFile' = bkFile /\ bkNext' = bkNext /\ bkSpoiled' = bkSpoiled
  BY <1>i DEF BackupInv, BackupShape, BkTasks, BackupIds, Dumping, markRestore, runRestoreCommand, recordRestore
<1>2. CASE markRestore(j)
  <2>0. ~Restoring(j) /\ UNCHANGED <<bkAbandoned, bkRevived>>
    BY <1>2 DEF markRestore, Restoring
  <2>1. CASE bkRow' = [bkRow EXCEPT ![i].restoring = TRUE] /\ Goto(j, "psql")
    <3>1. PICK t \in BkTasks : /\ bkTask' = [bkTask EXCEPT ![j] = t] /\ t.step = "psql"
                               /\ t.doomed = bkTask[j].doomed /\ t.id = bkTask[j].id
      BY <2>1, StepOn DEF BkSteps
    <3>2. /\ bkRow' \in [BackupIds -> BkRows] /\ \A k \in BackupIds : bkRow'[k].status = bkRow[k].status
          /\ \A k \in BackupIds : k # i => bkRow'[k] = bkRow[k]
      <4> DEFINE r == [bkRow[i] EXCEPT !.restoring = TRUE]
      <4>1. bkRow[i] \in BkRows /\ bkRow' = [bkRow EXCEPT ![i] = r]
        BY <1>0, <2>1
      <4>2. r \in BkRows /\ r.status = bkRow[i].status /\ r.restoring = TRUE
        BY <4>1 DEF BkRows
      <4> HIDE DEF r
      <4> QED BY <1>0, <4>1, <4>2
    <3>3. \A k \in BackupIds : bkRow'[k].restoring =>
             \/ bkRow[k].restoring /\ (Restoring(j) => bkTask[j].id # k)
             \/ t.step \in {"psql", "record"} /\ t.id = k
             \/ k \in bkAbandoned'
      <4> SUFFICES ASSUME NEW k \in BackupIds, bkRow'[k].restoring
                   PROVE  (bkRow[k].restoring /\ ~Restoring(j)) \/ (t.step = "psql" /\ t.id = k)
        BY <2>0
      <4>1. CASE k = i
        BY <1>i, <3>1, <4>1
      <4>2. CASE k # i
        BY <2>0, <3>2, <4>2
      <4> QED BY <4>1, <4>2
    <3>4. /\ bkAbandoned \subseteq bkAbandoned' /\ bkAbandoned' \subseteq BackupIds
          /\ t.step \in {"mark", "psql", "record"} => t.id \in BackupIds
          /\ t.step \in {"none", "wait", "create", "mark", "psql", "record"}
      BY <1>i, <1>0, <2>0, <3>1
    <3> QED BY <1>0, <2>0, <3>1, <3>2, <3>3, <3>4, TaskOnly
  <2>2. CASE bkRow' = bkRow /\ JobThrows(j)
    <3>1. PICK t \in BkTasks : /\ bkTask' = [bkTask EXCEPT ![j] = t]
                               /\ t.step \in {"none", "wait"} /\ t.doomed = {}
      BY <2>2, JobEnds
    <3> QED BY <1>0, <2>0, <2>2, <3>1, TaskOnly
  <2> QED BY <1>i, <1>2, <2>1, <2>2 DEF markRestore
<1>3. CASE recordRestore(j)
  <2>1. PICK t \in BkTasks : /\ bkTask' = [bkTask EXCEPT ![j] = t]
                             /\ t.step \in {"none", "wait"} /\ t.doomed = {}
    BY <1>3, JobEnds DEF recordRestore
  <2>2. CASE bkRow' = [bkRow EXCEPT ![i].restoring = FALSE] /\ UNCHANGED bkAbandoned
    <3>1. /\ bkRow' \in [BackupIds -> BkRows] /\ \A k \in BackupIds : bkRow'[k].status = bkRow[k].status
          /\ ~bkRow'[i].restoring /\ \A k \in BackupIds : k # i => bkRow'[k] = bkRow[k]
      <4> DEFINE r == [bkRow[i] EXCEPT !.restoring = FALSE]
      <4>1. bkRow[i] \in BkRows /\ bkRow' = [bkRow EXCEPT ![i] = r]
        BY <1>0, <2>2
      <4>2. r \in BkRows /\ r.status = bkRow[i].status /\ r.restoring = FALSE
        BY <4>1 DEF BkRows
      <4> HIDE DEF r
      <4> QED BY <1>0, <4>1, <4>2
    <3>2. bkRevived' = bkRevived
      BY <1>3 DEF recordRestore
    <3>3. \A k \in BackupIds : bkRow'[k].restoring => bkRow[k].restoring /\ bkTask[j].id # k
      BY <1>i, <3>1
    <3> QED BY <1>i, <1>0, <2>1, <2>2, <3>1, <3>2, <3>3, TaskOnly
  <2>3. CASE bkRow' = bkRow /\ Abandon(i)
    <3>1. /\ bkAbandoned \subseteq bkAbandoned' /\ bkAbandoned' \subseteq BackupIds
          /\ Running(i) => i \in bkAbandoned'
      BY <1>0, <2>3, Abandoned
    <3>2. bkRevived' = bkRevived
      BY <1>3 DEF recordRestore
    <3>3. \A k \in BackupIds : bkRow'[k].restoring =>
             \/ bkRow[k].restoring /\ (Restoring(j) => bkTask[j].id # k)
             \/ k \in bkAbandoned'
      BY <1>i, <2>3, <3>1 DEF Running
    <3> QED BY <1>0, <2>1, <2>3, <3>1, <3>2, <3>3, TaskOnly
  <2> QED BY <1>i, <1>3, <2>2, <2>3 DEF recordRestore
<1>4. CASE runRestoreCommand(j)
  <2>1. PICK t \in BkTasks : /\ bkTask' = [bkTask EXCEPT ![j] = t] /\ t.step = "record"
                             /\ t.doomed = bkTask[j].doomed /\ t.id = bkTask[j].id
    BY <1>4, StepOn DEF runRestoreCommand, BkSteps
  <2>a. bkAbandoned' = bkAbandoned
    BY <1>4 DEF runRestoreCommand
  <2>2. CASE i \notin bkWhole
    <3>1. bkRow' = bkRow /\ bkRevived' = bkRevived
      BY <1>i, <1>4, <2>2 DEF runRestoreCommand
    <3> QED BY <1>i, <1>0, <2>1, <2>a, <3>1, TaskOnly
  <2>3. CASE i \in bkWhole
    <3>1. /\ bkRow' \in bkFile[i]
          /\ bkRevived' = bkRevived \cup {k \in BackupIds : Running(k)'}
      BY <1>i, <1>4, <2>3 DEF runRestoreCommand
    <3>2. bkRow' \in [BackupIds -> BkRows]
      BY <1>0, <3>1 DEF BackupInv, BackupShape
    <3>3. bkTask' \in [BkJobs -> BkTasks] /\ bkTask'[j] = t /\ \A k \in BkJobs : k # j => bkTask'[k] = bkTask[k]
      BY <2>1 DEF BackupInv, BackupShape
    <3>4. BackupShape'
      BY <1>i, <1>0, <2>1, <2>a, <3>1, <3>2, <3>3 DEF BackupInv, BackupShape
    <3>5. RunningOwned'
      BY <3>1 DEF RunningOwned, Running
    <3>6. Calm' => Calm
      BY <1>0, <3>1 DEF Calm
    <3>7. ~Calm'
      <4> SUFFICES ASSUME Calm, Calm' PROVE FALSE
        BY <3>6
      <4>1. bkRow'[i].status = "RUNNING"
        BY <1>0, <3>1 DEF BackupInv, RowsFollow
      <4> QED BY <1>0, <3>1, <4>1 DEF Calm, Running
    <3> QED BY <3>4, <3>5, <3>7 DEF BackupInv
  <2> QED BY <2>2, <2>3
<1> QED BY <1>2, <1>3, <1>4

\* createBackup: the new row has a number nobody has seen.
LEMMA RowCreated ==
  ASSUME BackupInv, NEW j \in BkJobs, createBackup(j), bkNext <= MaxBackups,
         bkRow' = [bkRow EXCEPT ![bkNext] = [status |-> "RUNNING", restoring |-> FALSE]],
         bkTask' = [bkTask EXCEPT ![j] = Task("dump", bkNext, bkTask[j].attempt)],
         bkNext' = bkNext + 1
  PROVE  BackupInv'
<1> DEFINE t == Task("dump", bkNext, bkTask[j].attempt)
<1>0. /\ bkRow \in [BackupIds -> BkRows] /\ bkNext \in BackupIds /\ bkNext \in Int
      /\ bkTask[j] \in BkTasks /\ ~Dumping(j) /\ ~Finishing(j) /\ ~Restoring(j)
      /\ UNCHANGED <<bkFile, bkAbandoned, bkRevived, bkSpoiled>> /\ bkNext' = bkNext + 1
  BY BackupsAssumption DEF BackupInv, BackupShape, createBackup, Dumping, Finishing, Restoring, BackupIds
<1>1. t \in BkTasks /\ t.step = "dump" /\ t.id = bkNext /\ t.doomed = {}
  BY <1>0, BackupsAssumption DEF BkTasks, BkSteps, BackupIds, Task
<1>2. bkTask' = [bkTask EXCEPT ![j] = t]
  OBVIOUS
<1> HIDE DEF t
<1>3. /\ bkTask' \in [BkJobs -> BkTasks] /\ bkTask'[j] = t
      /\ \A k \in BkJobs : k # j => bkTask'[k] = bkTask[k]
      /\ \A k \in BkJobs : bkTask[k].doomed \subseteq BackupIds
      /\ \A k \in BkJobs : bkTask'[k].doomed \subseteq bkTask[k].doomed
      /\ \A k \in BkJobs : Dumping(k) \/ Finishing(k) => bkTask[k].id \in BackupIds
  BY <1>1, <1>2 DEF BackupInv, BackupShape, BkTasks, Dumping, Finishing
<1>4. /\ bkRow' \in [BackupIds -> BkRows] /\ bkRow'[bkNext].status = "RUNNING"
      /\ ~bkRow'[bkNext].restoring
      /\ \A i \in BackupIds : i # bkNext => bkRow'[i] = bkRow[i]
  BY <1>0 DEF BkRows
<1>5. /\ \A k \in BkJobs : Dumping(k)' <=> Dumping(k) \/ k = j
      /\ \A k \in BkJobs : Finishing(k)' <=> Finishing(k)
      /\ \A k \in BkJobs : Finishing(k) => bkTask'[k] = bkTask[k]
      /\ \A k \in BkJobs : Restoring(k)' <=> Restoring(k)
      /\ \A k \in BkJobs : Restoring(k) => bkTask'[k] = bkTask[k]
  BY <1>0, <1>1, <1>3 DEF Dumping, Finishing, Restoring
<1>6. BackupShape'
  <2>1. bkNext' \in 1..(MaxBackups + 1)
    BY <1>0, BackupsAssumption DEF BackupIds
  <2>2. \A k \in BkJobs : bkTask'[k].step \notin {"none", "create", "wait"} => bkTask'[k].id \in BackupIds
    BY <1>0, <1>1, <1>3 DEF BackupInv, BackupShape
  <2> QED BY <1>0, <1>3, <1>4, <2>1, <2>2 DEF BackupInv, BackupShape
<1>7. RunningOwned'
  <2>1. ASSUME NEW i \in BackupIds, bkRow'[i].status = "RUNNING"
        PROVE  (\E k \in BkJobs : Dumping(k)' /\ bkTask'[k].id = i) \/ i \in bkAbandoned \/ i \in bkRevived
    <3>1. CASE i = bkNext
      BY <1>1, <1>3, <1>5, <3>1
    <3>2. CASE i # bkNext
      <4>1. bkRow[i].status = "RUNNING"
        BY <1>4, <2>1, <3>2
      <4>2. (\E k \in BkJobs : Dumping(k) /\ bkTask[k].id = i) \/ i \in bkAbandoned \/ i \in bkRevived
        BY <4>1 DEF BackupInv, RunningOwned
      <4> QED BY <1>0, <1>3, <1>5, <4>2
    <3> QED BY <3>1, <3>2
  <2>2. ASSUME NEW i \in BackupIds, bkRow'[i].restoring
        PROVE  (\E k \in BkJobs : Restoring(k)' /\ bkTask'[k].id = i) \/ i \in bkAbandoned \/ i \in bkRevived
    <3>1. bkRow[i].restoring
      BY <1>4, <2>2
    <3>2. (\E k \in BkJobs : Restoring(k) /\ bkTask[k].id = i) \/ i \in bkAbandoned \/ i \in bkRevived
      BY <3>1 DEF BackupInv, RunningOwned
    <3> QED BY <1>5, <3>2
  <2> QED BY <1>0, <2>1, <2>2 DEF RunningOwned
<1>8. ASSUME Calm' PROVE RowsFollow' /\ NewestKept'
  <2>1. RowsFollow /\ NewestKept
    BY <1>0, <1>8 DEF BackupInv, Calm
  <2>2. bkRow[bkNext].status = "none" /\ \A k \in BkJobs : Dumping(k) => bkTask[k].id # bkNext
    BY <1>0, <2>1 DEF RowsFollow
  <2>3. \A i \in BackupIds : i >= bkNext' => bkRow'[i].status = "none"
    <3> SUFFICES ASSUME NEW i \in BackupIds, i >= bkNext + 1 PROVE bkRow'[i].status = "none"
      BY <1>0
    <3>1. i # bkNext /\ i >= bkNext
      BY <1>0 DEF BackupIds
    <3> QED BY <1>4, <2>1, <3>1 DEF RowsFollow
  <2>4. \A k \in BkJobs : Dumping(k)' => bkRow'[bkTask'[k].id].status = "RUNNING"
    BY <1>1, <1>3, <1>4, <1>5, <2>1, <2>2 DEF RowsFollow
  <2>5. \A k, l \in BkJobs : Dumping(k)' /\ Dumping(l)' /\ bkTask'[k].id = bkTask'[l].id => k = l
    BY <1>1, <1>3, <1>5, <2>1, <2>2 DEF RowsFollow
  <2>6. \A k \in BkJobs : \A d \in bkTask'[k].doomed : bkRow'[d].status # "RUNNING" /\ d < bkNext'
    <3> SUFFICES ASSUME NEW k \in BkJobs, NEW d \in bkTask[k].doomed
                 PROVE  bkRow'[d].status # "RUNNING" /\ d < bkNext + 1
      BY <1>0, <1>3
    <3>1. d \in BackupIds /\ bkRow[d].status # "RUNNING" /\ d < bkNext
      BY <1>3, <2>1 DEF RowsFollow
    <3>2. d # bkNext /\ d < bkNext + 1
      BY <1>0, <3>1 DEF BackupIds
    <3> QED BY <1>4, <3>1, <3>2
  <2>8. \A k \in BkJobs : Finishing(k)' =>
           /\ bkRow'[bkTask'[k].id].status # "RUNNING" /\ bkTask'[k].id < bkNext'
           /\ bkTask'[k].step = "unlink" => bkRow'[bkTask'[k].id].status # "COMPLETED"
    <3> SUFFICES ASSUME NEW k \in BkJobs, Finishing(k)
                 PROVE  /\ bkRow'[bkTask[k].id].status # "RUNNING" /\ bkTask[k].id < bkNext + 1
                        /\ bkTask[k].step = "unlink" => bkRow'[bkTask[k].id].status # "COMPLETED"
      BY <1>0, <1>5
    <3>1. /\ bkTask[k].id \in BackupIds /\ bkTask[k].id < bkNext
          /\ bkRow[bkTask[k].id].status # "RUNNING"
          /\ bkTask[k].step = "unlink" => bkRow[bkTask[k].id].status # "COMPLETED"
      BY <1>3, <2>1 DEF RowsFollow
    <3>2. bkTask[k].id # bkNext /\ bkTask[k].id < bkNext + 1
      BY <1>0, <3>1 DEF BackupIds
    <3> QED BY <1>4, <3>1, <3>2
  <2>7. NewestKept'
    <3>1. \A i \in BackupIds : bkRow'[i].status = "COMPLETED" <=> bkRow[i].status = "COMPLETED"
      BY <1>4, <2>2
    <3>2. \A m \in BackupIds : Newest(m) => Newest(m)'
      BY <1>0, <1>3, <3>1 DEF Newest
    <3> QED BY <2>1, <3>1, <3>2 DEF NewestKept
  <2> QED BY <1>0, <2>1, <2>3, <2>4, <2>5, <2>6, <2>7, <2>8 DEF RowsFollow
<1> QED BY <1>6, <1>7, <1>8 DEF BackupInv

\* createBackup, or the query that creates the row throws.
LEMMA CreateBackupStep ==
  ASSUME BackupInv, NEW j \in BkJobs, createBackup(j)
  PROVE  BackupInv'
<1>1. CASE JobThrows(j) /\ UNCHANGED <<bkRow, bkNext>>
  <2>1. PICK t \in BkTasks : /\ bkTask' = [bkTask EXCEPT ![j] = t]
                             /\ t.step \in {"none", "wait"} /\ t.doomed = {}
    BY <1>1, JobEnds
  <2>2. /\ UNCHANGED <<bkRow, bkNext, bkFile, bkAbandoned, bkRevived, bkSpoiled>>
        /\ bkRow \in [BackupIds -> BkRows] /\ bkAbandoned \subseteq BackupIds
    BY <1>1 DEF createBackup, BackupInv, BackupShape
  <2>3. ~Dumping(j) /\ ~Restoring(j)
    BY DEF createBackup, Dumping, Restoring
  <2> QED BY <2>1, <2>2, <2>3, TaskOnly
<1> QED BY <1>1, RowCreated DEF createBackup

\* pg_dump: the dump shows the row of its own backup.
LEMMA DumpStep ==
  ASSUME BackupInv, NEW j \in BkJobs, runBackupCommand(j)
  PROVE  BackupInv'
<1> DEFINE i == bkTask[j].id
<1>0. /\ bkRow \in [BackupIds -> BkRows] /\ i \in BackupIds /\ Dumping(j) /\ ~Finishing(j) /\ ~Restoring(j)
      /\ UNCHANGED <<bkRow, bkNext, bkAbandoned, bkRevived, bkSpoiled>>
  BY DEF BackupInv, BackupShape, runBackupCommand, Dumping, Finishing, Restoring
<1>1. PICK t \in BkTasks : /\ bkTask' = [bkTask EXCEPT ![j] = t] /\ t.step = "complete"
                           /\ t.doomed = bkTask[j].doomed /\ t.id = bkTask[j].id
  BY StepOn DEF runBackupCommand, BkSteps
<1>2. /\ bkTask' \in [BkJobs -> BkTasks] /\ bkTask'[j] = t
      /\ \A k \in BkJobs : k # j => bkTask'[k] = bkTask[k]
      /\ \A k \in BkJobs : bkTask'[k].doomed = bkTask[k].doomed /\ bkTask'[k].id = bkTask[k].id
  BY <1>1 DEF BackupInv, BackupShape
<1>3. /\ \A k \in BkJobs : Dumping(k)' <=> Dumping(k)
      /\ \A k \in BkJobs : Finishing(k)' <=> Finishing(k)
      /\ \A k \in BkJobs : Restoring(k)' <=> Restoring(k)
      /\ \A k \in BkJobs : Finishing(k) => bkTask'[k].step = bkTask[k].step
  BY <1>0, <1>1, <1>2 DEF Dumping, Finishing, Restoring
<1>4. /\ bkFile' \in [BackupIds -> SUBSET [BackupIds -> BkRows]]
      /\ bkFile'[i] = {bkRow} /\ \A k \in BackupIds : k # i => bkFile'[k] = bkFile[k]
  BY <1>0 DEF BackupInv, BackupShape, runBackupCommand
<1> HIDE DEF i
<1>5. BackupShape'
  BY <1>0, <1>1, <1>2, <1>4 DEF BackupInv, BackupShape, i
<1>6. RunningOwned'
  BY <1>0, <1>2, <1>3 DEF BackupInv, RunningOwned
<1>7. ASSUME Calm' PROVE RowsFollow' /\ NewestKept'
  <2>1. RowsFollow /\ NewestKept
    BY <1>0, <1>7 DEF BackupInv, Calm
  <2>2. bkRow[i].status = "RUNNING"
    BY <1>0, <2>1 DEF RowsFollow, i
  <2>3. \A k \in BackupIds : \A u \in bkFile'[k] : u[k].status = "RUNNING"
    BY <1>4, <2>1, <2>2 DEF RowsFollow
  <2>4. \A m \in BackupIds : Newest(m) => Newest(m)'
    BY <1>0, <1>2, <1>4 DEF Newest
  <2> QED BY <1>0, <1>2, <1>3, <2>1, <2>3, <2>4 DEF RowsFollow, NewestKept
<1> QED BY <1>5, <1>6, <1>7 DEF BackupInv

\* The two updates of createBackup: pg_dump has ended and the row becomes COMPLETED, or the
\* catch makes it FAILED, which bkSpoiled records when it was COMPLETED.
LEMMA StatusStep ==
  ASSUME BackupInv, NEW j \in BkJobs, NEW i \in BackupIds, i = bkTask[j].id, Exists(i),
         NEW v \in {"COMPLETED", "FAILED"}, bkRow' = [bkRow EXCEPT ![i].status = v],
         NEW step \in {"retain", "unlink"}, step = "unlink" <=> v = "FAILED", Goto(j, step),
         Dumping(j) \/ Finishing(j),
         v = "COMPLETED" => Dumping(j) /\ bkFile[i] # {},
         bkSpoiled' \in BOOLEAN, bkSpoiled => bkSpoiled',
         v = "FAILED" /\ bkRow[i].status = "COMPLETED" => bkSpoiled',
         UNCHANGED <<bkFile, bkNext, bkAbandoned, bkRevived>>
  PROVE  BackupInv'
<1>0. /\ bkRow \in [BackupIds -> BkRows] /\ ~Restoring(j) /\ bkNext \in Int
      /\ bkFile \in [BackupIds -> SUBSET [BackupIds -> BkRows]]
  BY DEF BackupInv, BackupShape, Dumping, Finishing, Restoring
<1>1. PICK t \in BkTasks : /\ bkTask' = [bkTask EXCEPT ![j] = t]
                           /\ t.step = step /\ t.doomed = bkTask[j].doomed /\ t.id = i
  BY StepOn DEF BkSteps
<1>2. /\ bkTask' \in [BkJobs -> BkTasks] /\ bkTask'[j] = t
      /\ \A k \in BkJobs : k # j => bkTask'[k] = bkTask[k]
      /\ \A k \in BkJobs : bkTask'[k].doomed = bkTask[k].doomed /\ bkTask'[k].id = bkTask[k].id
      /\ \A k \in BkJobs : bkTask[k].doomed \subseteq BackupIds
      /\ \A k \in BkJobs : Dumping(k) \/ Finishing(k) => bkTask[k].id \in BackupIds
  BY <1>1 DEF BackupInv, BackupShape, BkTasks, Dumping, Finishing
<1>3. /\ \A k \in BkJobs : Dumping(k)' <=> Dumping(k) /\ k # j
      /\ \A k \in BkJobs : Finishing(k)' <=> Finishing(k) \/ k = j
      /\ \A k \in BkJobs : Restoring(k)' <=> Restoring(k)
  BY <1>0, <1>1, <1>2 DEF Dumping, Finishing, Restoring
<1>4. /\ bkRow' \in [BackupIds -> BkRows] /\ bkRow'[i].status = v
      /\ \A k \in BackupIds : k # i => bkRow'[k] = bkRow[k]
  <2>1. bkRow' = [bkRow EXCEPT ![i].status = v] /\ bkRow \in [BackupIds -> BkRows]
    BY <1>0
  <2> QED BY <2>1, StatusWritten
<1>r. \A k \in BackupIds : bkRow'[k].restoring = bkRow[k].restoring
  BY <1>0 DEF BkRows
<1>5. BackupShape'
  BY <1>0, <1>1, <1>2, <1>4 DEF BackupInv, BackupShape
<1>6. RunningOwned'
  <2>1. ASSUME NEW k \in BackupIds, bkRow'[k].status = "RUNNING"
        PROVE  (\E l \in BkJobs : Dumping(l)' /\ bkTask'[l].id = k) \/ k \in bkAbandoned \/ k \in bkRevived
    <3>1. k # i /\ bkRow[k].status = "RUNNING"
      BY <1>4, <2>1
    <3>2. (\E l \in BkJobs : Dumping(l) /\ bkTask[l].id = k) \/ k \in bkAbandoned \/ k \in bkRevived
      BY <3>1 DEF BackupInv, RunningOwned
    <3> QED BY <1>2, <1>3, <3>1, <3>2
  <2>2. ASSUME NEW k \in BackupIds, bkRow'[k].restoring
        PROVE  (\E l \in BkJobs : Restoring(l)' /\ bkTask'[l].id = k) \/ k \in bkAbandoned \/ k \in bkRevived
    <3>1. (\E l \in BkJobs : Restoring(l) /\ bkTask[l].id = k) \/ k \in bkAbandoned \/ k \in bkRevived
      BY <1>r, <2>2 DEF BackupInv, RunningOwned
    <3> QED BY <1>2, <1>3, <3>1
  <2> QED BY <2>1, <2>2 DEF RunningOwned
<1>7. ASSUME Calm' PROVE RowsFollow' /\ NewestKept'
  <2>1. RowsFollow /\ NewestKept
    BY <1>7 DEF BackupInv, Calm
  <2>2. i < bkNext
    <3>1. ~(i >= bkNext)
      BY <2>1 DEF RowsFollow, Exists
    <3> QED BY <1>0, <3>1 DEF BackupIds
  <2>3. \A k \in BkJobs : Dumping(k) /\ k # j => bkTask[k].id # i
    BY <2>1 DEF RowsFollow
  <2>a. v = "COMPLETED" => bkRow[i].status = "RUNNING"
    BY <2>1 DEF RowsFollow
  <2>b. v = "FAILED" => bkRow[i].status # "COMPLETED"
    BY <1>7 DEF Calm
  <2>4. \A k \in BackupIds : k >= bkNext => bkRow'[k].status = "none"
    <3> SUFFICES ASSUME NEW k \in BackupIds, k >= bkNext PROVE bkRow'[k].status = "none"
      OBVIOUS
    <3>1. k # i
      BY <1>0, <2>2 DEF BackupIds
    <3> QED BY <1>4, <2>1, <3>1 DEF RowsFollow
  <2>5. \A k \in BkJobs : Dumping(k)' => bkRow'[bkTask'[k].id].status = "RUNNING"
    BY <1>2, <1>3, <1>4, <2>1, <2>3 DEF RowsFollow
  <2>6. \A k, l \in BkJobs : Dumping(k)' /\ Dumping(l)' /\ bkTask'[k].id = bkTask'[l].id => k = l
    BY <1>2, <1>3, <2>1 DEF RowsFollow
  <2>7. \A k \in BkJobs : Finishing(k)' =>
           /\ bkRow'[bkTask'[k].id].status # "RUNNING" /\ bkTask'[k].id < bkNext
           /\ bkTask'[k].step = "unlink" => bkRow'[bkTask'[k].id].status # "COMPLETED"
    <3> SUFFICES ASSUME NEW k \in BkJobs, Finishing(k) \/ k = j
                 PROVE  /\ bkRow'[bkTask[k].id].status # "RUNNING" /\ bkTask[k].id < bkNext
                        /\ bkTask'[k].step = "unlink" => bkRow'[bkTask[k].id].status # "COMPLETED"
      BY <1>2, <1>3
    <3>1. CASE k = j
      BY <1>1, <1>2, <1>4, <2>2, <3>1
    <3>2. CASE k # j /\ bkTask[k].id # i
      BY <1>2, <1>4, <2>1, <3>2 DEF RowsFollow
    <3>3. CASE k # j /\ bkTask[k].id = i
      <4>1. bkRow[i].status # "RUNNING"
        BY <2>1, <3>3 DEF RowsFollow
      <4>2. v = "FAILED"
        BY <2>a, <4>1
      <4> QED BY <1>4, <2>2, <3>3, <4>2
    <3> QED BY <3>1, <3>2, <3>3
  <2>8. \A k \in BkJobs : \A d \in bkTask'[k].doomed : bkRow'[d].status # "RUNNING" /\ d < bkNext
    <3> SUFFICES ASSUME NEW k \in BkJobs, NEW d \in bkTask[k].doomed
                 PROVE  bkRow'[d].status # "RUNNING" /\ d < bkNext
      BY <1>2
    <3>1. d \in BackupIds /\ bkRow[d].status # "RUNNING" /\ d < bkNext
      BY <1>2, <2>1 DEF RowsFollow
    <3> QED BY <1>4, <3>1
  <2>9. RowsFollow'
    BY <2>1, <2>4, <2>5, <2>6, <2>7, <2>8 DEF RowsFollow
  <2>10. NewestKept'
    <3>1. CASE v = "FAILED"
      <4>1. \A k \in BackupIds : bkRow'[k].status = "COMPLETED" <=> bkRow[k].status = "COMPLETED"
        BY <1>4, <2>b, <3>1
      <4>2. \A m \in BackupIds : Newest(m) => Newest(m)'
        BY <1>2, <4>1 DEF Newest
      <4> QED BY <2>1, <4>1, <4>2 DEF NewestKept
    <3>2. CASE v = "COMPLETED"
      <4>1. /\ bkRow'[i].status = "COMPLETED" /\ bkFile'[i] # {} /\ bkRow[i].status = "RUNNING"
            /\ \A k \in BkJobs : i \notin bkTask'[k].doomed
        BY <1>2, <1>4, <2>1, <2>a, <3>2 DEF RowsFollow
      <4>2. CASE \A k \in BackupIds : bkRow[k].status # "COMPLETED"
        <5>1. Newest(i)'
          BY <1>4, <4>1, <4>2 DEF Newest, BackupIds
        <5> QED BY <5>1 DEF NewestKept
      <4>3. ASSUME NEW m \in BackupIds, Newest(m) PROVE NewestKept'
        <5>1. m # i /\ m \in Int /\ i \in Int
          BY <4>1, <4>3 DEF Newest, BackupIds
        <5>2. \A k \in BackupIds : bkRow'[k].status = "COMPLETED" => k = i \/ k <= m
          BY <1>4, <4>3 DEF Newest
        <5>3. CASE m < i
          <6>1. \A k \in BackupIds : bkRow'[k].status = "COMPLETED" => k <= i
            BY <5>1, <5>2, <5>3 DEF BackupIds
          <6>2. Newest(i)'
            BY <4>1, <6>1 DEF Newest
          <6> QED BY <6>2 DEF NewestKept
        <5>4. CASE ~(m < i)
          <6>1. \A k \in BackupIds : bkRow'[k].status = "COMPLETED" => k <= m
            BY <5>1, <5>2, <5>4 DEF BackupIds
          <6>2. bkRow'[m].status = "COMPLETED" /\ bkFile'[m] # {}
            BY <1>4, <4>3, <5>1 DEF Newest
          <6>3. \A k \in BkJobs : m \notin bkTask'[k].doomed
            BY <1>2, <4>3 DEF Newest
          <6>4. Newest(m)'
            BY <6>1, <6>2, <6>3 DEF Newest
          <6> QED BY <6>4 DEF NewestKept
        <5> QED BY <5>3, <5>4
      <4> QED BY <2>1, <4>2, <4>3 DEF NewestKept
    <3> QED BY <3>1, <3>2
  <2> QED BY <2>9, <2>10
<1> QED BY <1>5, <1>6, <1>7 DEF BackupInv

\* completeBackup and the catch, whose update may throw as well.
LEMMA CompleteOrFailStep ==
  ASSUME BackupInv, NEW j \in BkJobs, completeBackup(j) \/ failBackup(j)
  PROVE  BackupInv'
<1>i. PICK i \in BackupIds : i = bkTask[j].id
  BY DEF BackupInv, BackupShape, completeBackup, failBackup
<1>0. /\ bkRow \in [BackupIds -> BkRows] /\ bkAbandoned \subseteq BackupIds /\ bkSpoiled \in BOOLEAN
      /\ i \in Int /\ ~Restoring(j) /\ (Dumping(j) \/ Finishing(j))
  BY DEF BackupInv, BackupShape, BackupIds, completeBackup, failBackup, Dumping, Finishing, Restoring
<1>1. CASE completeBackup(j)
  <2>1. /\ Exists(i) /\ bkFile[i] # {} /\ bkRow' = [bkRow EXCEPT ![i].status = "COMPLETED"]
        /\ Goto(j, "retain") /\ Dumping(j)
        /\ UNCHANGED <<bkFile, bkNext, bkAbandoned, bkRevived>> /\ bkSpoiled' = bkSpoiled
    BY <1>i, <1>1 DEF completeBackup, Dumping
  <2> QED BY <1>i, <1>0, <2>1, StatusStep
<1>2. CASE failBackup(j) /\ Goto(j, "unlink") /\ Exists(i) /\ UNCHANGED bkAbandoned
           /\ bkRow' = [bkRow EXCEPT ![i].status = "FAILED"]
           /\ bkSpoiled' = (bkSpoiled \/ bkRow[i].status = "COMPLETED")
  <2>1. UNCHANGED <<bkFile, bkNext, bkAbandoned, bkRevived>>
    BY <1>2 DEF failBackup
  <2>2. /\ bkSpoiled' \in BOOLEAN /\ (bkSpoiled => bkSpoiled')
        /\ bkRow[i].status = "COMPLETED" => bkSpoiled'
    BY <1>2
  <2> QED BY <1>i, <1>0, <1>2, <2>1, <2>2, StatusStep
<1>3. CASE failBackup(j) /\ Abandon(i) /\ JobThrows(j) /\ UNCHANGED <<bkRow, bkSpoiled>>
  <2>1. PICK t \in BkTasks : /\ bkTask' = [bkTask EXCEPT ![j] = t]
                             /\ t.step \in {"none", "wait"} /\ t.doomed = {}
    BY <1>3, JobEnds
  <2>2. UNCHANGED <<bkRow, bkNext, bkFile, bkRevived, bkSpoiled>>
    BY <1>3 DEF failBackup
  <2>3. /\ bkAbandoned \subseteq bkAbandoned' /\ bkAbandoned' \subseteq BackupIds
        /\ Running(i) => i \in bkAbandoned'
    BY <1>0, <1>3, Abandoned
  <2>4. bkRow[i].status = "RUNNING" => i \in bkAbandoned'
    BY <2>3 DEF Running
  <2>5. \A k \in BackupIds : bkRow'[k].restoring => (bkRow[k].restoring /\ (Restoring(j) => bkTask[j].id # k))
    BY <1>0, <2>2
  <2> QED BY <1>i, <1>0, <2>1, <2>2, <2>3, <2>4, <2>5, TaskOnly
<1> QED BY <1>i, <1>1, <1>2, <1>3 DEF failBackup

\* The file of a backup that was marked as failed goes, or stays.
LEMMA UnlinkStep ==
  ASSUME BackupInv, NEW j \in BkJobs, unlinkFailed(j)
  PROVE  BackupInv'
<1>i. PICK i \in BackupIds : i = bkTask[j].id
  BY DEF BackupInv, BackupShape, unlinkFailed
<1>0. /\ bkFile \in [BackupIds -> SUBSET [BackupIds -> BkRows]] /\ Finishing(j) /\ ~Dumping(j) /\ ~Restoring(j)
      /\ UNCHANGED <<bkRow, bkNext, bkAbandoned, bkRevived, bkSpoiled>>
  BY DEF BackupInv, BackupShape, unlinkFailed, Dumping, Finishing, Restoring
<1>1. PICK t \in BkTasks : /\ bkTask' = [bkTask EXCEPT ![j] = t]
                           /\ t.step \in {"none", "wait"} /\ t.doomed = {}
  BY JobEnds DEF unlinkFailed
<1>2. /\ bkTask' \in [BkJobs -> BkTasks] /\ bkTask'[j] = t
      /\ \A k \in BkJobs : k # j => bkTask'[k] = bkTask[k]
      /\ \A k \in BkJobs : bkTask'[k].doomed \subseteq bkTask[k].doomed
  BY <1>1 DEF BackupInv, BackupShape
<1>3. /\ \A k \in BkJobs : Dumping(k)' <=> Dumping(k)
      /\ \A k \in BkJobs : Finishing(k)' <=> Finishing(k) /\ k # j
      /\ \A k \in BkJobs : Restoring(k)' <=> Restoring(k)
      /\ \A k \in BkJobs : Dumping(k) \/ Restoring(k) => bkTask'[k] = bkTask[k]
  BY <1>0, <1>1, <1>2 DEF Dumping, Finishing, Restoring
<1>4. /\ bkFile' \in [BackupIds -> SUBSET [BackupIds -> BkRows]]
      /\ \A k \in BackupIds : bkFile'[k] \subseteq bkFile[k] /\ (k # i => bkFile'[k] = bkFile[k])
  <2>1. CASE bkFile' = [bkFile EXCEPT ![i] = {}]
    BY <1>0, <2>1
  <2>2. CASE bkFile' = bkFile
    BY <1>0, <2>2
  <2> QED BY <1>i, <2>1, <2>2 DEF unlinkFailed
<1>5. BackupShape'
  BY <1>0, <1>1, <1>2, <1>4 DEF BackupInv, BackupShape
<1>6. RunningOwned'
  BY <1>0, <1>3 DEF BackupInv, RunningOwned
<1>7. ASSUME Calm' PROVE RowsFollow' /\ NewestKept'
  <2>1. RowsFollow /\ NewestKept
    BY <1>0, <1>7 DEF BackupInv, Calm
  <2>2. bkRow[i].status # "COMPLETED"
    BY <1>i, <2>1, <1>0 DEF RowsFollow, unlinkFailed
  <2>3. RowsFollow'
    BY <1>0, <1>2, <1>3, <1>4, <2>1 DEF RowsFollow
  <2>4. \A m \in BackupIds : Newest(m) => Newest(m)'
    BY <1>0, <1>2, <1>4, <2>2 DEF Newest
  <2> QED BY <1>0, <2>1, <2>3, <2>4 DEF NewestKept
<1> QED BY <1>5, <1>6, <1>7 DEF BackupInv

\* enforceRetentionPolicy picks its rows: never the newest one, since at least one newer
\* backup must be complete.
LEMMA RetainStep ==
  ASSUME BackupInv, NEW j \in BkJobs, enforceRetentionPolicy(j)
  PROVE  BackupInv'
<1> DEFINE t == [step |-> "delete", id |-> bkTask[j].id, doomed |-> Doomed,
                 attempt |-> bkTask[j].attempt]
<1>0. /\ bkFile \in [BackupIds -> SUBSET [BackupIds -> BkRows]]
      /\ bkTask[j] \in BkTasks /\ bkTask[j].id \in BackupIds
      /\ ~Dumping(j) /\ ~Restoring(j) /\ Finishing(j) /\ bkTask[j].step # "unlink"
      /\ UNCHANGED <<bkRow, bkNext, bkAbandoned, bkRevived, bkSpoiled>>
      /\ bkTask' = [bkTask EXCEPT ![j] = t]
  BY DEF BackupInv, BackupShape, enforceRetentionPolicy, Dumping, Finishing, Restoring
<1>g. PICK gone \in SUBSET Doomed : bkFile' = [i \in BackupIds |-> IF i \in gone THEN {} ELSE bkFile[i]]
  BY DEF enforceRetentionPolicy
<1>1. Doomed \subseteq BackupIds /\ \A d \in Doomed : bkRow[d].status = "COMPLETED"
  BY DEF Doomed
<1>2. t \in BkTasks /\ t.step = "delete" /\ t.id = bkTask[j].id /\ t.doomed = Doomed
  BY <1>0, <1>1 DEF BkTasks, BkSteps
<1> HIDE DEF t
<1>3. /\ bkTask' \in [BkJobs -> BkTasks] /\ bkTask'[j] = t
      /\ \A k \in BkJobs : k # j => bkTask'[k] = bkTask[k]
  BY <1>0, <1>2 DEF BackupInv, BackupShape
<1>4. /\ \A k \in BkJobs : Dumping(k)' <=> Dumping(k)
      /\ \A k \in BkJobs : Finishing(k)' <=> Finishing(k)
      /\ \A k \in BkJobs : Restoring(k)' <=> Restoring(k)
      /\ \A k \in BkJobs : bkTask'[k].id = bkTask[k].id
      /\ \A k \in BkJobs : bkTask'[k].step = "unlink" => bkTask[k].step = "unlink"
  BY <1>0, <1>2, <1>3 DEF Dumping, Finishing, Restoring
<1>5. /\ bkFile' \in [BackupIds -> SUBSET [BackupIds -> BkRows]]
      /\ \A k \in BackupIds : bkFile'[k] \subseteq bkFile[k] /\ (k \notin Doomed => bkFile'[k] = bkFile[k])
  BY <1>0, <1>g
<1>6. BackupShape'
  BY <1>0, <1>2, <1>3, <1>5 DEF BackupInv, BackupShape
<1>7. RunningOwned'
  BY <1>0, <1>4 DEF BackupInv, RunningOwned
<1>8. ASSUME Calm' PROVE RowsFollow' /\ NewestKept'
  <2>1. RowsFollow /\ NewestKept
    BY <1>0, <1>8 DEF BackupInv, Calm
  <2>2. \A k \in BkJobs : Dumping(k) => bkTask'[k] = bkTask[k]
    BY <1>0, <1>3
  <2>3. \A d \in Doomed : bkRow[d].status # "RUNNING" /\ d < bkNext
    <3> SUFFICES ASSUME NEW d \in Doomed PROVE d < bkNext
      BY <1>1
    <3>1. ~(d >= bkNext)
      BY <1>1, <2>1 DEF RowsFollow
    <3>2. d \in Int /\ bkNext \in Int
      BY <1>1, BackupsAssumption DEF BackupIds, BackupInv, BackupShape
    <3> QED BY <3>1, <3>2
  <2>4. RowsFollow'
    <3>1. \A k \in BkJobs : \A d \in bkTask'[k].doomed : bkRow[d].status # "RUNNING" /\ d < bkNext
      BY <1>2, <1>3, <2>1, <2>3 DEF RowsFollow
    <3>2. \A k \in BkJobs : Finishing(k)' =>
             /\ bkRow'[bkTask'[k].id].status # "RUNNING" /\ bkTask'[k].id < bkNext'
             /\ bkTask'[k].step = "unlink" => bkRow'[bkTask'[k].id].status # "COMPLETED"
      BY <1>0, <1>4, <2>1 DEF RowsFollow
    <3> QED BY <1>0, <1>4, <1>5, <2>1, <2>2, <3>1, <3>2 DEF RowsFollow
  <2>5. ASSUME NEW m \in BackupIds, Newest(m) PROVE Newest(m)'
    <3> DEFINE done == {i \in BackupIds : bkRow[i].status = "COMPLETED"}
    <3>1. {k \in done : k > m} = {}
      BY <2>5 DEF Newest, BackupIds
    <3>2. Cardinality({k \in done : k > m}) = 0 /\ ~(0 >= Retention)
      BY <3>1, FS_EmptySet, BackupsAssumption
    <3>3. m \notin Doomed
      BY <3>2 DEF Doomed
    <3>4. \A k \in BkJobs : m \notin bkTask'[k].doomed
      BY <1>2, <1>3, <2>5, <3>3 DEF Newest
    <3> QED BY <1>0, <1>5, <2>5, <3>3, <3>4 DEF Newest
  <2> QED BY <1>0, <2>1, <2>4, <2>5 DEF NewestKept
<1> QED BY <1>6, <1>7, <1>8 DEF BackupInv

\* The rows go, all or some; no dump and not the newest one is among them.
LEMMA DeleteStep ==
  ASSUME BackupInv, NEW j \in BkJobs, deleteDoomed(j)
  PROVE  BackupInv'
<1> DEFINE i == bkTask[j].id
           doomed == bkTask[j].doomed
<1>0. /\ bkRow \in [BackupIds -> BkRows] /\ i \in BackupIds /\ doomed \subseteq BackupIds
      /\ ~Dumping(j) /\ ~Restoring(j) /\ Finishing(j) /\ bkTask[j].step # "unlink"
      /\ bkTask[j].attempt \in Int
      /\ UNCHANGED <<bkFile, bkNext, bkAbandoned, bkRevived, bkSpoiled>>
  BY DEF BackupInv, BackupShape, BkTasks, deleteDoomed, Dumping, Finishing, Restoring
<1>g. PICK gone \in SUBSET doomed :
         /\ bkRow' = [k \in BackupIds |-> IF k \in gone THEN NoBackup ELSE bkRow[k]]
         /\ JobDone(j) \/ bkTask' = [bkTask EXCEPT ![j] = Task("fail", i, bkTask[j].attempt)]
  BY DEF deleteDoomed
<1>1. PICK t \in BkTasks : /\ bkTask' = [bkTask EXCEPT ![j] = t] /\ t.doomed = {}
                           /\ t.step \in {"none", "wait", "fail"} /\ (t.step = "fail" => t.id = i)
  <2>1. CASE JobDone(j)
    BY <2>1, JobEnds
  <2>2. CASE bkTask' = [bkTask EXCEPT ![j] = Task("fail", i, bkTask[j].attempt)]
    <3>1. LET t == Task("fail", i, bkTask[j].attempt)
          IN  t \in BkTasks /\ t.doomed = {} /\ t.step = "fail" /\ t.id = i
      BY <1>0, BackupsAssumption DEF Task, BkTasks, BkSteps, BackupIds
    <3> QED BY <2>2, <3>1
  <2> QED BY <1>g, <2>1, <2>2
<1> HIDE DEF i
<1>2. /\ bkTask' \in [BkJobs -> BkTasks] /\ bkTask'[j] = t
      /\ \A k \in BkJobs : k # j => bkTask'[k] = bkTask[k]
      /\ \A k \in BkJobs : bkTask'[k].doomed \subseteq bkTask[k].doomed
      /\ \A k \in BkJobs : bkTask[k].doomed \subseteq BackupIds
      /\ \A k \in BkJobs : Dumping(k) \/ Finishing(k) => bkTask[k].id \in BackupIds
  BY <1>0, <1>1 DEF BackupInv, BackupShape, BkTasks, Dumping, Finishing
<1>3. /\ \A k \in BkJobs : Dumping(k)' <=> Dumping(k)
      /\ \A k \in BkJobs : Finishing(k)' => Finishing(k)
      /\ \A k \in BkJobs : Restoring(k)' <=> Restoring(k)
      /\ \A k \in BkJobs : Dumping(k) \/ Restoring(k) => bkTask'[k] = bkTask[k]
      /\ \A k \in BkJobs : Finishing(k)' =>
            bkTask'[k].id = bkTask[k].id /\ (bkTask'[k].step = "unlink" => bkTask[k].step = "unlink")
  BY <1>0, <1>1, <1>2 DEF Dumping, Finishing, Restoring, i
<1> HIDE DEF doomed
<1>4. /\ bkRow' \in [BackupIds -> BkRows]
      /\ \A k \in BackupIds : k \notin gone => bkRow'[k] = bkRow[k]
      /\ \A k \in BackupIds : k \in gone => bkRow'[k].status = "none" /\ ~bkRow'[k].restoring
  BY <1>0, <1>g DEF NoBackup, BkRows
<1>5. BackupShape'
  BY <1>0, <1>1, <1>2, <1>4 DEF BackupInv, BackupShape
<1>6. RunningOwned'
  <2>1. ASSUME NEW k \in BackupIds, bkRow'[k].status = "RUNNING"
        PROVE  (\E l \in BkJobs : Dumping(l)' /\ bkTask'[l].id = k) \/ k \in bkAbandoned \/ k \in bkRevived
    <3>1. bkRow[k].status = "RUNNING"
      BY <1>4, <2>1
    <3>2. (\E l \in BkJobs : Dumping(l) /\ bkTask[l].id = k) \/ k \in bkAbandoned \/ k \in bkRevived
      BY <3>1 DEF BackupInv, RunningOwned
    <3> QED BY <1>3, <3>2
  <2>2. ASSUME NEW k \in BackupIds, bkRow'[k].restoring
        PROVE  (\E l \in BkJobs : Restoring(l)' /\ bkTask'[l].id = k) \/ k \in bkAbandoned \/ k \in bkRevived
    <3>1. bkRow[k].restoring
      BY <1>4, <2>2
    <3>2. (\E l \in BkJobs : Restoring(l) /\ bkTask[l].id = k) \/ k \in bkAbandoned \/ k \in bkRevived
      BY <3>1 DEF BackupInv, RunningOwned
    <3> QED BY <1>3, <3>2
  <2> QED BY <1>0, <2>1, <2>2 DEF RunningOwned
<1>7. ASSUME Calm' PROVE RowsFollow' /\ NewestKept'
  <2>1. RowsFollow /\ NewestKept
    BY <1>0, <1>7 DEF BackupInv, Calm
  <2>2. \A d \in gone : bkRow[d].status # "RUNNING"
    BY <2>1 DEF RowsFollow, doomed
  <2>3. /\ \A k \in BackupIds : bkRow[k].status \in {"RUNNING", "none"} => bkRow'[k].status = bkRow[k].status
        /\ \A k \in BackupIds : bkRow'[k].status = bkRow[k].status \/ bkRow'[k].status = "none"
    BY <1>4, <2>2
  <2>4. RowsFollow'
    <3>1. \A k \in BackupIds : k >= bkNext => bkRow'[k].status = "none"
      BY <2>1, <2>3 DEF RowsFollow
    <3>2. \A k \in BkJobs : Dumping(k) => bkRow'[bkTask[k].id].status = "RUNNING"
      BY <1>2, <2>1, <2>3 DEF RowsFollow
    <3>3. \A k \in BkJobs : \A d \in bkTask'[k].doomed : bkRow'[d].status # "RUNNING" /\ d < bkNext
      <4> SUFFICES ASSUME NEW k \in BkJobs, NEW d \in bkTask'[k].doomed
                   PROVE  bkRow'[d].status # "RUNNING" /\ d < bkNext
        OBVIOUS
      <4>1. d \in bkTask[k].doomed /\ d \in BackupIds
        BY <1>2
      <4> QED BY <2>1, <2>3, <4>1 DEF RowsFollow
    <3>4. \A k \in BkJobs : Finishing(k)' =>
             /\ bkRow'[bkTask'[k].id].status # "RUNNING" /\ bkTask'[k].id < bkNext
             /\ bkTask'[k].step = "unlink" => bkRow'[bkTask'[k].id].status # "COMPLETED"
      <4> SUFFICES ASSUME NEW k \in BkJobs, Finishing(k)'
                   PROVE  /\ bkRow'[bkTask[k].id].status # "RUNNING" /\ bkTask[k].id < bkNext
                          /\ bkTask[k].step = "unlink" => bkRow'[bkTask[k].id].status # "COMPLETED"
        BY <1>3
      <4>1. Finishing(k) /\ bkTask[k].id \in BackupIds
        BY <1>2, <1>3
      <4> QED BY <2>1, <2>3, <4>1 DEF RowsFollow
    <3> QED BY <1>0, <1>3, <2>1, <3>1, <3>2, <3>3, <3>4 DEF RowsFollow
  <2>5. ASSUME NEW m \in BackupIds, Newest(m) PROVE Newest(m)'
    <3>1. m \notin gone
      BY <2>5 DEF Newest, doomed
    <3>2. bkRow'[m].status = "COMPLETED"
      BY <1>4, <2>5, <3>1 DEF Newest
    <3>3. \A k \in BackupIds : bkRow'[k].status = "COMPLETED" => k <= m
      BY <2>3, <2>5 DEF Newest
    <3> QED BY <1>0, <1>2, <2>5, <3>2, <3>3 DEF Newest
  <2>6. (\A k \in BackupIds : bkRow[k].status # "COMPLETED") => NewestKept'
    BY <2>3 DEF NewestKept
  <2> QED BY <2>1, <2>4, <2>5, <2>6 DEF NewestKept
<1> QED BY <1>5, <1>6, <1>7 DEF BackupInv

\* createBackup, restoreBackup: for any number of jobs, backups and attempts and any
\* retention, a RUNNING row is explained, and the newest complete backup has its file until
\* a restore, or a failure after the dump of a backup (RunningExplained, LatestBackupKept).
THEOREM BackupsSafe == BkSpec => [](RunningExplained /\ LatestBackupKept)
<1>1. BkInit => BackupInv
  <2> SUFFICES ASSUME BkInit PROVE BackupInv
    OBVIOUS
  <2>1. /\ bkRow = [i \in BackupIds |-> NoBackup] /\ bkFile = [i \in BackupIds |-> {}]
        /\ bkTask = [j \in BkJobs |-> NoTask]
        /\ bkAbandoned = {} /\ bkRevived = {} /\ bkSpoiled = FALSE /\ bkNext = 1
    BY DEF BkInit
  <2>2. NoBackup \in BkRows /\ NoBackup.status = "none"
    BY DEF NoBackup, BkRows
  <2>3. NoTask \in BkTasks /\ NoTask.step = "none" /\ NoTask.doomed = {}
    BY BackupsAssumption DEF NoTask, Task, BkTasks, BkSteps
  <2>4. BackupShape
    <3>1. bkRow \in [BackupIds -> BkRows]
      BY <2>1, <2>2
    <3>2. bkFile \in [BackupIds -> SUBSET [BackupIds -> BkRows]]
      <4>1. {} \in SUBSET [BackupIds -> BkRows]
        OBVIOUS
      <4> QED BY <2>1, <4>1
    <3>3. bkNext \in 1..(MaxBackups + 1)
      BY <2>1, BackupsAssumption
    <3>4. bkTask \in [BkJobs -> BkTasks] /\ (\A j \in BkJobs : bkTask[j].step = "none")
      BY <2>1, <2>3
    <3>5. \A j \in BkJobs : bkTask[j].step \notin {"none", "create", "wait"} => bkTask[j].id \in BackupIds
      BY <3>4
    <3> QED BY <2>1, <3>1, <3>2, <3>3, <3>4, <3>5 DEF BackupShape
  <2>5. \A i \in BackupIds : bkRow[i].status = "none" /\ ~bkRow[i].restoring /\ bkFile[i] = {}
    BY <2>1, <2>2 DEF NoBackup
  <2>6. \A j \in BkJobs : ~Dumping(j) /\ ~Finishing(j) /\ bkTask[j].doomed = {}
    BY <2>1, <2>3 DEF Dumping, Finishing
  <2> QED BY <2>4, <2>5, <2>6 DEF BackupInv, RunningOwned, RowsFollow, NewestKept
<1>2. BackupInv /\ [BkNext]_bkVars => BackupInv'
  <2> SUFFICES ASSUME BackupInv, [BkNext]_bkVars
               PROVE  BackupInv'
    OBVIOUS
  <2>1. CASE UNCHANGED bkVars
    BY <2>1 DEF BackupInv, BackupShape, RunningOwned, Calm, RowsFollow, NewestKept, Newest, Dumping,
                    Finishing, Restoring, bkVars
  <2> QED BY <2>1, StartBackupStep, CreateBackupStep, DumpStep, CompleteOrFailStep, UnlinkStep,
             RetainStep, DeleteStep, RestoreStep DEF BkNext
<1>3. BackupInv => RunningExplained /\ LatestBackupKept
  <2> SUFFICES ASSUME BackupInv PROVE RunningExplained /\ LatestBackupKept
    OBVIOUS
  <2>1. RunningExplained
    BY DEF BackupInv, RunningOwned, RunningExplained, Running
  <2>2. LatestBackupKept
    <3> SUFFICES ASSUME Calm, NEW i \in BackupIds, bkRow[i].status = "COMPLETED",
                        \A k \in BackupIds : bkRow[k].status = "COMPLETED" => k <= i
                 PROVE  bkFile[i] # {}
      BY DEF LatestBackupKept, Calm
    <3>1. PICK m \in BackupIds : Newest(m)
      BY DEF BackupInv, NewestKept
    <3>2. i <= m /\ m <= i /\ i \in Int /\ m \in Int
      BY <3>1 DEF Newest, BackupIds
    <3>3. i = m
      BY <3>2
    <3> QED BY <3>1, <3>3 DEF Newest
  <2> QED BY <2>1, <2>2
<1> QED BY <1>1, <1>2, <1>3, PTL DEF BkSpec

-----------------------------------------------------------------------------
(* The timer of the backups.                                               *)

Refreshing(u) == bsTask[u] \in {"read", "start"}

\* As long as no two refreshes overlap: the timer that runs is the current one, none runs
\* during a refresh, and unless a change waits for its refresh what the refresh has read,
\* or the timer it has left, is what the schedule says; none is left by one that failed.
TimerFollows ==
    /\ bsTask \in [Updates -> {"new", "stop", "read", "start", "done"}]
    /\ bsRead \in [Updates -> BOOLEAN] /\ bsEnabled \in BOOLEAN
    /\ bsOverlap \in BOOLEAN /\ bsFailed \in BOOLEAN
    /\ ~bsOverlap =>
          /\ bsTimers = bsCurrent
          /\ \A u, v \in Updates : Refreshing(u) /\ Refreshing(v) => u = v
          /\ (\E u \in Updates : Refreshing(u)) => bsTimers = {}
          /\ (\A u \in Updates : bsTask[u] # "stop") =>
                /\ \A u \in Updates : bsTask[u] = "start" => bsRead[u] = bsEnabled
                /\ (\A u \in Updates : ~Refreshing(u)) =>
                      /\ bsEnabled /\ ~bsFailed => \E u \in Updates : bsTimers = {u}
                      /\ ~bsEnabled \/ bsFailed => bsTimers = {}

\* updateSchedule: the change waits for its refresh.
LEMMA UpdateStep ==
  ASSUME TimerFollows, NEW u \in Updates, NEW enabled \in BOOLEAN, updateSchedule(u, enabled)
  PROVE  TimerFollows'
<1>1. /\ bsTask'[u] = "stop" /\ bsTask[u] = "new"
      /\ \A v \in Updates : v # u => bsTask'[v] = bsTask[v]
      /\ bsTask' \in [Updates -> {"new", "stop", "read", "start", "done"}]
  BY DEF TimerFollows, updateSchedule
<1>2. \A v \in Updates : Refreshing(v)' <=> Refreshing(v)
  BY <1>1 DEF Refreshing
<1> QED BY <1>1, <1>2 DEF TimerFollows, updateSchedule

\* refreshSchedule stops the current timer, which is the only one.
LEMMA RefreshStep ==
  ASSUME TimerFollows, NEW u \in Updates, refreshSchedule(u)
  PROVE  TimerFollows'
<1>1. /\ bsTask'[u] = "read" /\ bsTask[u] = "stop"
      /\ \A v \in Updates : v # u => bsTask'[v] = bsTask[v]
      /\ bsTask' \in [Updates -> {"new", "stop", "read", "start", "done"}]
  BY DEF TimerFollows, refreshSchedule
<1>2. bsOverlap' \in BOOLEAN
  BY DEF refreshSchedule
<1>3. ~bsOverlap' => ~bsOverlap /\ \A v \in Updates : ~Refreshing(v)
  BY DEF refreshSchedule, Refreshing
<1>4. ~bsOverlap' => bsTimers' = {} /\ bsCurrent' = {}
  BY <1>3 DEF TimerFollows, refreshSchedule
<1>5. ~bsOverlap' => \A v \in Updates : Refreshing(v)' <=> v = u
  BY <1>1, <1>3 DEF Refreshing
<1>6. bsRead' \in [Updates -> BOOLEAN] /\ bsEnabled' \in BOOLEAN
  BY DEF TimerFollows, refreshSchedule
<1>8. bsFailed' \in BOOLEAN
  BY DEF TimerFollows, refreshSchedule
<1>7. ~bsOverlap' => \A v \in Updates : bsTask'[v] # "start"
  BY <1>1, <1>3 DEF Refreshing
<1> QED BY <1>1, <1>2, <1>4, <1>5, <1>6, <1>7, <1>8 DEF TimerFollows

\* getScheduleConfig reads what the schedule says now, or throws.
LEMMA ConfigStep ==
  ASSUME TimerFollows, NEW u \in Updates, getScheduleConfig(u)
  PROVE  TimerFollows'
<1>1. /\ bsTask[u] = "read" /\ Refreshing(u)
      /\ UNCHANGED <<bsEnabled, bsTimers, bsCurrent, bsOverlap>>
  BY DEF getScheduleConfig, Refreshing
<1>2. CASE /\ bsRead' = [bsRead EXCEPT ![u] = bsEnabled]
           /\ bsTask' = [bsTask EXCEPT ![u] = "start"]
           /\ UNCHANGED bsFailed
  <2>1. /\ bsTask'[u] = "start"
        /\ \A v \in Updates : v # u => bsTask'[v] = bsTask[v]
        /\ bsTask' \in [Updates -> {"new", "stop", "read", "start", "done"}]
    BY <1>2 DEF TimerFollows
  <2>2. /\ bsRead' \in [Updates -> BOOLEAN]
        /\ bsRead'[u] = bsEnabled
        /\ \A v \in Updates : v # u => bsRead'[v] = bsRead[v]
    BY <1>2 DEF TimerFollows
  <2>3. \A v \in Updates : Refreshing(v)' <=> Refreshing(v)
    BY <1>1, <2>1 DEF Refreshing
  <2> QED BY <1>1, <1>2, <2>1, <2>2, <2>3 DEF TimerFollows
<1>3. CASE bsTask' = [bsTask EXCEPT ![u] = "done"] /\ bsFailed' = TRUE /\ UNCHANGED bsRead
  <2>1. /\ bsTask'[u] = "done"
        /\ \A v \in Updates : v # u => bsTask'[v] = bsTask[v]
        /\ bsTask' \in [Updates -> {"new", "stop", "read", "start", "done"}]
    BY <1>3 DEF TimerFollows
  <2>2. \A v \in Updates : Refreshing(v)' <=> Refreshing(v) /\ v # u
    BY <2>1 DEF Refreshing
  <2>3. CASE ~bsOverlap
    <3>1. bsTimers = {} /\ bsTimers = bsCurrent /\ \A v \in Updates : ~Refreshing(v)'
      BY <1>1, <2>2, <2>3 DEF TimerFollows
    <3>2. \A v \in Updates : bsTask'[v] # "start"
      BY <3>1 DEF Refreshing
    <3> QED BY <1>1, <1>3, <2>1, <3>1, <3>2 DEF TimerFollows
  <2>4. CASE bsOverlap
    BY <1>1, <1>3, <2>1, <2>4 DEF TimerFollows
  <2> QED BY <2>3, <2>4
<1> QED BY <1>2, <1>3 DEF getScheduleConfig

\* The new timer is the only one.
LEMMA StartStep ==
  ASSUME TimerFollows, NEW u \in Updates, startJob(u)
  PROVE  TimerFollows'
<1>1. /\ bsTask'[u] = "done" /\ bsTask[u] = "start"
      /\ \A v \in Updates : v # u => bsTask'[v] = bsTask[v]
      /\ bsTask' \in [Updates -> {"new", "stop", "read", "start", "done"}]
  BY DEF TimerFollows, startJob
<1>2. UNCHANGED <<bsEnabled, bsRead, bsOverlap>> /\ bsFailed' = FALSE /\ Refreshing(u)
  BY <1>1 DEF startJob, Refreshing
<1>3. \A v \in Updates : Refreshing(v)' <=> Refreshing(v) /\ v # u
  BY <1>1 DEF Refreshing
<1>4. CASE ~bsOverlap
  <2>1. bsTimers = {} /\ bsCurrent = {} /\ \A v \in Updates : ~Refreshing(v)'
    BY <1>2, <1>3, <1>4 DEF TimerFollows
  <2>2. \A v \in Updates : bsTask'[v] # "start"
    BY <2>1 DEF Refreshing
  <2>3. (\A v \in Updates : bsTask'[v] # "stop") => bsRead[u] = bsEnabled
    BY <1>1, <1>4 DEF TimerFollows
  <2>4. /\ bsTimers' = bsCurrent'
        /\ bsRead[u] => bsTimers' = {u}
        /\ ~bsRead[u] => bsTimers' = {}
    BY <2>1 DEF startJob
  <2> QED BY <1>1, <1>2, <2>1, <2>2, <2>3, <2>4 DEF TimerFollows
<1>5. CASE bsOverlap
  BY <1>1, <1>2, <1>5 DEF TimerFollows
<1> QED BY <1>4, <1>5 DEF TimerFollows

\* updateSchedule and refreshSchedule: for any number of changes of the schedule
\* (TimerMatchesSchedule).
THEOREM TimerSafe == BsSpec => []TimerMatchesSchedule
<1>1. BsInit => TimerFollows
  BY DEF BsInit, TimerFollows, Refreshing
<1>2. TimerFollows /\ [BsNext]_bsVars => TimerFollows'
  <2> SUFFICES ASSUME TimerFollows, [BsNext]_bsVars
               PROVE  TimerFollows'
    OBVIOUS
  <2>1. CASE UNCHANGED bsVars
    BY <2>1 DEF TimerFollows, Refreshing, bsVars
  <2> QED BY <2>1, UpdateStep, RefreshStep, ConfigStep, StartStep DEF BsNext
<1>3. TimerFollows => TimerMatchesSchedule
  <2> SUFFICES ASSUME TimerFollows, \A u \in Updates : bsTask[u] \in {"new", "done"}, ~bsOverlap
               PROVE  Cardinality(bsTimers) = (IF bsEnabled /\ ~bsFailed THEN 1 ELSE 0)
    BY DEF TimerMatchesSchedule
  <2>1. /\ bsEnabled /\ ~bsFailed => \E u \in Updates : bsTimers = {u}
        /\ ~bsEnabled \/ bsFailed => bsTimers = {}
    BY DEF TimerFollows, Refreshing
  <2>2. Cardinality({}) = 0 /\ \A u : Cardinality({u}) = 1
    BY FS_EmptySet, FS_Singleton
  <2> QED BY <2>1, <2>2
<1> QED BY <1>1, <1>2, <1>3, PTL DEF BsSpec

-----------------------------------------------------------------------------
(* Deadline reminders.                                                     *)

\* The milestones a request has still to deal with, or has reminded of without a stamp.
OnList(q) == rmTask[q].todo \cup rmTask[q].at

\* A milestone without an excuse is on the list of one request at most; once reminded of
\* it is on nobody's list of work, and it has its stamp or a request is about to give it.
ListsDisjoint ==
    /\ rmTask \in [RemindReq -> [step : {"idle", "find", "send", "stamp", "unlock"},
                                 todo : SUBSET Milestones, at : SUBSET Milestones]]
    /\ rmSent \in [Milestones -> Nat]
    /\ \A q \in RemindReq :
          /\ rmTask[q].step # "stamp" => rmTask[q].at = {}
          /\ rmTask[q].step \notin {"send", "stamp"} => rmTask[q].todo = {}
    /\ \A m \in Milestones \ rmExcuse :
          /\ \A q, r \in RemindReq : m \in OnList(q) /\ m \in OnList(r) => q = r
          /\ rmSent[m] <= 1
          /\ rmSent[m] = 1 =>
                /\ \A q \in RemindReq : m \notin rmTask[q].todo
                /\ m \in rmStamped \/ \E q \in RemindReq : m \in rmTask[q].at

\* A step of one request that gives nobody more work.
LEMMA ShrinkStep ==
  ASSUME ListsDisjoint, NEW q \in RemindReq,
         sendDeadlineReminders(q) \/ stampReminder(q) \/ releaseLock(q) \/ remindDies(q)
  PROVE  ListsDisjoint'
<1>0. rmTask[q] \in [step : {"idle", "find", "send", "stamp", "unlock"},
                     todo : SUBSET Milestones, at : SUBSET Milestones]
  BY DEF ListsDisjoint
<1>1. /\ rmTask' \in [RemindReq -> [step : {"idle", "find", "send", "stamp", "unlock"},
                                    todo : SUBSET Milestones, at : SUBSET Milestones]]
      /\ \A r \in RemindReq : r # q => rmTask'[r] = rmTask[r]
      /\ rmTask'[q].at = {}
      /\ rmTask'[q].todo \subseteq rmTask[q].todo
      /\ rmTask'[q].step # "send" => rmTask'[q].todo = {}
      /\ rmTask[q].at \subseteq rmStamped' \cup rmExcuse'
  <2>1. CASE sendDeadlineReminders(q)
    BY <2>1, <1>0 DEF ListsDisjoint, sendDeadlineReminders, RmIdle
  <2>2. CASE stampReminder(q)
    BY <2>2, <1>0 DEF ListsDisjoint, stampReminder
  <2>3. CASE releaseLock(q)
    BY <2>3, <1>0 DEF ListsDisjoint, releaseLock, RmIdle
  <2>4. CASE remindDies(q)
    BY <2>4, <1>0 DEF ListsDisjoint, remindDies, RmIdle
  <2> QED BY <2>1, <2>2, <2>3, <2>4
<1>2. rmSent' = rmSent /\ rmExcuse \subseteq rmExcuse' /\ rmStamped \subseteq rmStamped'
  BY DEF sendDeadlineReminders, stampReminder, releaseLock, remindDies
<1>3. ASSUME NEW m \in Milestones \ rmExcuse'
      PROVE  /\ \A r \in RemindReq : m \in OnList(r)' => m \in OnList(r)
             /\ rmSent[m] = 1 =>
                   /\ \A r \in RemindReq : m \notin rmTask'[r].todo
                   /\ m \in rmStamped' \/ \E r \in RemindReq : m \in rmTask'[r].at
  <2>1. m \in Milestones \ rmExcuse
    BY <1>2
  <2>2. \A r \in RemindReq : m \in OnList(r)' => m \in OnList(r)
    BY <1>1 DEF OnList
  <2>3. ASSUME rmSent[m] = 1
        PROVE  /\ \A r \in RemindReq : m \notin rmTask'[r].todo
               /\ m \in rmStamped' \/ \E r \in RemindReq : m \in rmTask'[r].at
    <3>1. /\ \A r \in RemindReq : m \notin rmTask[r].todo
          /\ m \in rmStamped \/ \E r \in RemindReq : m \in rmTask[r].at
      BY <2>1, <2>3 DEF ListsDisjoint
    <3> QED BY <3>1, <1>1, <1>2, <1>3
  <2> QED BY <2>2, <2>3
<1>4. ListsDisjoint'
  <2>1. \A m \in Milestones \ rmExcuse' :
          /\ \A p, r \in RemindReq : m \in OnList(p)' /\ m \in OnList(r)' => p = r
          /\ rmSent'[m] <= 1
    BY <1>2, <1>3 DEF ListsDisjoint
  <2>2. \A r \in RemindReq :
          /\ rmTask'[r].step # "stamp" => rmTask'[r].at = {}
          /\ rmTask'[r].step \notin {"send", "stamp"} => rmTask'[r].todo = {}
    BY <1>1 DEF ListsDisjoint
  <2> QED BY <1>1, <1>2, <1>3, <2>1, <2>2 DEF ListsDisjoint
<1> QED BY <1>4

\* findDue: what anybody has on a list is excused, so that nothing reminded of and not
\* excused can be without a stamp.
LEMMA FindStep ==
  ASSUME ListsDisjoint, NEW q \in RemindReq, findDue(q)
  PROVE  ListsDisjoint'
<1>1. /\ rmTask' \in [RemindReq -> [step : {"idle", "find", "send", "stamp", "unlock"},
                                    todo : SUBSET Milestones, at : SUBSET Milestones]]
      /\ \A r \in RemindReq : r # q => rmTask'[r] = rmTask[r]
      /\ rmTask'[q] = [step |-> "send", todo |-> Milestones \ rmStamped, at |-> {}]
  BY DEF ListsDisjoint, findDue
<1>2. rmSent' = rmSent /\ rmStamped' = rmStamped
  BY DEF findDue
<1>3. ASSUME NEW m \in Milestones \ rmExcuse'
      PROVE  m \notin rmExcuse /\ \A r \in RemindReq : m \notin OnList(r)
  BY DEF findDue, OnList
<1>4. ASSUME NEW m \in Milestones \ rmExcuse'
      PROVE  /\ \A r \in RemindReq : m \in OnList(r)' => r = q
             /\ rmSent[m] <= 1
             /\ rmSent[m] = 1 =>
                   /\ \A r \in RemindReq : m \notin rmTask'[r].todo
                   /\ m \in rmStamped'
  <2>1. m \in Milestones \ rmExcuse /\ \A r \in RemindReq : m \notin OnList(r)
    BY <1>3
  <2>2. rmSent[m] = 1 => m \in rmStamped
    BY <2>1 DEF ListsDisjoint, OnList
  <2>3. \A r \in RemindReq : r # q => m \notin rmTask'[r].todo /\ m \notin rmTask'[r].at
    BY <2>1, <1>1 DEF OnList
  <2> QED BY <1>1, <1>2, <2>1, <2>2, <2>3 DEF ListsDisjoint, OnList
<1>5. \A r \in RemindReq :
          /\ rmTask'[r].step # "stamp" => rmTask'[r].at = {}
          /\ rmTask'[r].step \notin {"send", "stamp"} => rmTask'[r].todo = {}
  BY <1>1 DEF ListsDisjoint
<1> QED BY <1>1, <1>2, <1>4, <1>5 DEF ListsDisjoint

\* The reminder of one milestone: it was on this list alone and had not been sent.
LEMMA RemindStep ==
  ASSUME ListsDisjoint, NEW q \in RemindReq, NEW m \in Milestones, remind(q, m)
  PROVE  ListsDisjoint'
<1>0. /\ rmTask[q].step = "send" /\ m \in rmTask[q].todo /\ rmTask[q].at = {}
      /\ rmStamped' = rmStamped
      /\ rmTask[q].todo \subseteq Milestones
  BY DEF ListsDisjoint, remind
<1>1. m \notin rmExcuse => rmSent[m] = 0 /\ \A r \in RemindReq : r # q => m \notin OnList(r)
  BY <1>0 DEF ListsDisjoint, OnList
<1>2. CASE /\ rmSent' = [rmSent EXCEPT ![m] = @ + 1]
           /\ rmTask' = [rmTask EXCEPT ![q] = [step |-> "stamp", todo |-> @.todo \ {m}, at |-> {m}]]
           /\ UNCHANGED rmExcuse
  <2>1. /\ rmTask' \in [RemindReq -> [step : {"idle", "find", "send", "stamp", "unlock"},
                                      todo : SUBSET Milestones, at : SUBSET Milestones]]
        /\ \A r \in RemindReq : r # q => rmTask'[r] = rmTask[r]
        /\ rmTask'[q] = [step |-> "stamp", todo |-> rmTask[q].todo \ {m}, at |-> {m}]
    BY <1>0, <1>2 DEF ListsDisjoint
  <2>2. /\ rmSent' \in [Milestones -> Nat]
        /\ rmSent'[m] = rmSent[m] + 1
        /\ \A n \in Milestones : n # m => rmSent'[n] = rmSent[n]
    BY <1>2 DEF ListsDisjoint
  <2>3. \A n \in Milestones, r \in RemindReq : n \in OnList(r)' => n \in OnList(r)
    BY <2>1, <1>0 DEF OnList
  <2>4. ASSUME NEW n \in Milestones \ rmExcuse
        PROVE  /\ rmSent'[n] <= 1
               /\ rmSent'[n] = 1 =>
                     /\ \A r \in RemindReq : n \notin rmTask'[r].todo
                     /\ n \in rmStamped' \/ \E r \in RemindReq : n \in rmTask'[r].at
    <3>1. CASE n = m
      BY <3>1, <2>4, <1>1, <2>1, <2>2 DEF OnList
    <3>2. CASE n # m
      BY <3>2, <2>1, <2>2, <1>0 DEF ListsDisjoint
    <3> QED BY <3>1, <3>2
  <2>5. \A r \in RemindReq :
          /\ rmTask'[r].step # "stamp" => rmTask'[r].at = {}
          /\ rmTask'[r].step \notin {"send", "stamp"} => rmTask'[r].todo = {}
    BY <2>1 DEF ListsDisjoint
  <2>6. \A n \in Milestones \ rmExcuse : \A p, r \in RemindReq :
           n \in OnList(p)' /\ n \in OnList(r)' => p = r
    BY <2>3 DEF ListsDisjoint
  <2> QED BY <1>2, <2>1, <2>2, <2>4, <2>5, <2>6 DEF ListsDisjoint
<1>3. CASE /\ rmSent' \in {rmSent, [rmSent EXCEPT ![m] = @ + 1]}
           /\ rmExcuse' = rmExcuse \cup {m}
           /\ rmTask' = [rmTask EXCEPT ![q] = [RmIdle EXCEPT !.step = "unlock"]]
  <2>1. /\ rmTask' \in [RemindReq -> [step : {"idle", "find", "send", "stamp", "unlock"},
                                      todo : SUBSET Milestones, at : SUBSET Milestones]]
        /\ \A r \in RemindReq : r # q => rmTask'[r] = rmTask[r]
        /\ rmTask'[q] = [step |-> "unlock", todo |-> {}, at |-> {}]
    BY <1>3 DEF ListsDisjoint, RmIdle
  <2>2. /\ rmSent' \in [Milestones -> Nat]
        /\ \A n \in Milestones : n # m => rmSent'[n] = rmSent[n]
    BY <1>3 DEF ListsDisjoint
  <2>3. \A n \in Milestones, r \in RemindReq : n \in OnList(r)' => n \in OnList(r)
    BY <2>1 DEF OnList
  <2>4. ASSUME NEW n \in Milestones \ rmExcuse'
        PROVE  /\ rmSent'[n] <= 1
               /\ rmSent'[n] = 1 =>
                     /\ \A r \in RemindReq : n \notin rmTask'[r].todo
                     /\ n \in rmStamped' \/ \E r \in RemindReq : n \in rmTask'[r].at
    <3>1. n # m /\ n \in Milestones \ rmExcuse
      BY <1>3, <2>4
    <3> QED BY <3>1, <2>1, <2>2, <1>0 DEF ListsDisjoint
  <2>5. \A r \in RemindReq :
          /\ rmTask'[r].step # "stamp" => rmTask'[r].at = {}
          /\ rmTask'[r].step \notin {"send", "stamp"} => rmTask'[r].todo = {}
    BY <2>1 DEF ListsDisjoint
  <2>6. \A n \in Milestones \ rmExcuse' : \A p, r \in RemindReq :
           n \in OnList(p)' /\ n \in OnList(r)' => p = r
    BY <1>3, <2>3 DEF ListsDisjoint
  <2> QED BY <2>1, <2>2, <2>4, <2>5, <2>6 DEF ListsDisjoint
<1> QED BY <1>2, <1>3 DEF remind

\* sendDeadlineReminders: for any number of overlapping requests and of milestones
\* (RemindedTwiceExplained).
THEOREM RemindedSafe == RmSpec => []RemindedTwiceExplained
<1>1. RmInit => ListsDisjoint
  BY DEF RmInit, ListsDisjoint, RmIdle, OnList
<1>2. ListsDisjoint /\ [RmNext]_rmVars => ListsDisjoint'
  <2> SUFFICES ASSUME ListsDisjoint, [RmNext]_rmVars
               PROVE  ListsDisjoint'
    OBVIOUS
  <2>1. CASE UNCHANGED rmVars
    BY <2>1 DEF ListsDisjoint, OnList, rmVars
  <2> QED BY <2>1, ShrinkStep, FindStep, RemindStep DEF RmNext
<1>3. ListsDisjoint => RemindedTwiceExplained
  BY DEF ListsDisjoint, RemindedTwiceExplained
<1> QED BY <1>1, <1>2, <1>3, PTL DEF RmSpec

-----------------------------------------------------------------------------
(* Tours.                                                                  *)

\* The quarter of an hour a day before the tour.
DayBefore == trTour.at - DayLead

\* The hours lie at the multiples of 4; hour k has been worked through by some instance.
HourServed(k) == trNow > 4 * k \/ (trNow = 4 * k /\ trRan # {})

TourTyped ==
    /\ trNow \in Nat /\ trDay \in Nat /\ trRan \subseteq TourInstances
    /\ trTour \in [at : TourAt, status : {"none", "PENDING", "CONFIRMED", "CANCELLED"}, since : Nat]

\* A tour that was confirmed before its window has been reminded of once an hour in the
\* window has been served.
HoursServed ==
    \A k \in Int :
        /\ DayBefore - 2 <= 4 * k /\ 4 * k <= DayBefore + 2
        /\ trTour.status = "CONFIRMED" /\ trTour.since < DayBefore - 2
        /\ HourServed(k)
        => trDay > 0

\* What the first hour k of the window, and the next one where it is still inside, allow.
RemindersCounted ==
    \A k \in Int :
        DayBefore - 2 <= 4 * k /\ 4 * k < DayBefore + 2 =>
            /\ trNow < 4 * k => trDay = 0
            /\ trNow = 4 * k => trDay <= Cardinality(trRan)
            /\ trNow > 4 * k /\ trNow < 4 * k + 4 => trDay <= Cardinality(TourInstances)
            /\ trNow = 4 * k + 4 /\ 4 * k = DayBefore - 2
                  => trDay <= Cardinality(TourInstances) + Cardinality(trRan)
            /\ trNow >= 4 * k + 4 /\ 4 * k # DayBefore - 2 => trDay <= Cardinality(TourInstances)
            /\ trDay <= 2 * Cardinality(TourInstances)

TourInv == TourTyped /\ HoursServed /\ RemindersCounted

\* Sizes of the sets of instances.
LEMMA RanSize ==
  ASSUME TourTyped
  PROVE  /\ Cardinality(TourInstances) \in Nat /\ Cardinality(trRan) \in Nat
         /\ Cardinality(trRan) <= Cardinality(TourInstances)
         /\ \A i \in TourInstances \ trRan :
               /\ Cardinality(trRan \cup {i}) = Cardinality(trRan) + 1
               /\ Cardinality(trRan) + 1 <= Cardinality(TourInstances)
         /\ Cardinality({}) = 0
<1>1. IsFiniteSet(TourInstances) /\ trRan \subseteq TourInstances
  BY ToursAssumption DEF TourTyped
<1>2. /\ IsFiniteSet(trRan) /\ Cardinality(trRan) <= Cardinality(TourInstances)
      /\ Cardinality(TourInstances) \in Nat /\ Cardinality(trRan) \in Nat
  BY <1>1, FS_Subset, FS_CardinalityType
<1>3. ASSUME NEW i \in TourInstances \ trRan
      PROVE  /\ Cardinality(trRan \cup {i}) = Cardinality(trRan) + 1
             /\ Cardinality(trRan) + 1 <= Cardinality(TourInstances)
  <2>1. Cardinality(trRan \cup {i}) = Cardinality(trRan) + 1
    BY <1>2, FS_AddElement
  <2>2. trRan \cup {i} \subseteq TourInstances
    BY <1>1
  <2> QED BY <1>1, <2>1, <2>2, FS_Subset
<1> QED BY <1>2, <1>3, FS_EmptySet

\* The times are numbers.
LEMMA TourTimes ==
  ASSUME TourTyped
  PROVE  /\ trNow \in Nat /\ trDay \in Nat /\ trTour.at \in Nat /\ trTour.since \in Nat
         /\ DayBefore \in Int
<1>1. trTour.at \in TourAt /\ trTour.since \in Nat /\ trNow \in Nat /\ trDay \in Nat
  BY DEF TourTyped
<1>2. trTour.at \in Nat /\ DayLead \in Nat
  BY <1>1, ToursAssumption
<1> QED BY <1>1, <1>2 DEF DayBefore

\* A quarter of an hour: an hour is left only when every instance has served it.
LEMMA QuarterStep ==
  ASSUME TourInv, quarter
  PROVE  TourInv'
<1> USE ToursAssumption
<1>0. /\ trNow \in Nat /\ trDay \in Nat /\ trTour.at \in Nat /\ trTour.since \in Nat
      /\ trNow' = trNow + 1 /\ trRan' = {} /\ UNCHANGED <<trTour, trDay>>
      /\ DayBefore \in Int /\ DayBefore' = DayBefore
  BY TourTimes DEF TourInv, quarter, DayBefore
<1>1. ASSUME NEW k \in Int, trNow = 4 * k
      PROVE  trRan = TourInstances
  BY <1>0, <1>1 DEF quarter
<1>2. TourTyped'
  BY <1>0 DEF TourInv, TourTyped
<1>3. HoursServed'
  <2> SUFFICES ASSUME NEW k \in Int, DayBefore - 2 <= 4 * k, 4 * k <= DayBefore + 2,
                      trTour.status = "CONFIRMED", trTour.since < DayBefore - 2, HourServed(k)'
               PROVE  trDay > 0
    BY <1>0 DEF HoursServed
  <2>1. trNow + 1 > 4 * k
    BY <1>0 DEF HourServed
  <2>2. trNow > 4 * k \/ trNow = 4 * k
    BY <1>0, <2>1
  <2>3. HourServed(k)
    BY <1>0, <1>1, <2>2 DEF HourServed
  <2> QED BY <2>3 DEF TourInv, HoursServed
<1>4. RemindersCounted'
  <2> SUFFICES ASSUME NEW k \in Int, DayBefore - 2 <= 4 * k, 4 * k < DayBefore + 2
               PROVE  /\ trNow + 1 < 4 * k => trDay = 0
                      /\ trNow + 1 = 4 * k => trDay <= Cardinality({})
                      /\ trNow + 1 > 4 * k /\ trNow + 1 < 4 * k + 4 => trDay <= Cardinality(TourInstances)
                      /\ trNow + 1 = 4 * k + 4 /\ 4 * k = DayBefore - 2
                            => trDay <= Cardinality(TourInstances) + Cardinality({})
                      /\ trNow + 1 >= 4 * k + 4 /\ 4 * k # DayBefore - 2
                            => trDay <= Cardinality(TourInstances)
                      /\ trDay <= 2 * Cardinality(TourInstances)
    BY <1>0 DEF RemindersCounted
  <2>1. /\ trNow < 4 * k => trDay = 0
        /\ trNow = 4 * k => trDay <= Cardinality(trRan)
        /\ trNow > 4 * k /\ trNow < 4 * k + 4 => trDay <= Cardinality(TourInstances)
        /\ trNow >= 4 * k + 4 /\ 4 * k # DayBefore - 2 => trDay <= Cardinality(TourInstances)
        /\ trDay <= 2 * Cardinality(TourInstances)
    BY DEF TourInv, RemindersCounted
  <2>2. /\ Cardinality(TourInstances) \in Nat /\ Cardinality(trRan) \in Nat
        /\ Cardinality(trRan) <= Cardinality(TourInstances)
        /\ Cardinality({}) = 0
    BY RanSize DEF TourInv
  <2> QED BY <1>0, <2>1, <2>2
<1> QED BY <1>2, <1>3, <1>4 DEF TourInv

\* The jobs of one instance on the hour: inside the window the reminder goes out, and an
\* instance counts once for an hour.
LEMMA RemindersStep ==
  ASSUME TourInv, NEW i \in TourInstances, sendTourReminders(i)
  PROVE  TourInv'
<1> USE ToursAssumption
<1>0. /\ trNow \in Nat /\ trDay \in Nat /\ trTour.at \in Nat /\ trTour.since \in Nat
      /\ trNow' = trNow /\ trRan' = trRan \cup {i} /\ i \in TourInstances \ trRan /\ UNCHANGED trTour
      /\ DayBefore \in Int /\ DayBefore' = DayBefore
  BY TourTimes DEF TourInv, sendTourReminders, DayBefore
<1>1. PICK h \in Int : trNow = 4 * h
  <2>1. trNow % 4 = 0
    BY DEF sendTourReminders
  <2>2. trNow = 4 * (trNow \div 4) /\ (trNow \div 4) \in Int
    BY <1>0, <2>1
  <2> QED BY <2>2
<1>2. /\ trTour.status = "CONFIRMED" /\ DayBefore - 2 <= trNow /\ trNow <= DayBefore + 2
            => trDay' = trDay + 1
      /\ ~(DayBefore - 2 <= trNow /\ trNow <= DayBefore + 2) => trDay' = trDay
      /\ trDay' = trDay \/ trDay' = trDay + 1
  BY <1>0 DEF sendTourReminders, InWindow, DayBefore
<1>3. TourTyped'
  BY <1>0, <1>2 DEF TourInv, TourTyped
<1>4. HoursServed'
  <2> SUFFICES ASSUME NEW k \in Int, DayBefore - 2 <= 4 * k, 4 * k <= DayBefore + 2,
                      trTour.status = "CONFIRMED", trTour.since < DayBefore - 2, HourServed(k)'
               PROVE  trDay' > 0
    BY <1>0 DEF HoursServed
  <2>1. trNow > 4 * k \/ trNow = 4 * k
    BY <1>0 DEF HourServed
  <2>2. CASE trNow = 4 * k
    BY <1>0, <1>2, <2>2
  <2>3. CASE trNow > 4 * k
    <3>1. trDay > 0
      <4>1. HourServed(k)
        BY <2>3 DEF HourServed
      <4> QED BY <4>1 DEF TourInv, HoursServed
    <3> QED BY <1>0, <1>2, <3>1
  <2> QED BY <2>1, <2>2, <2>3
<1>5. RemindersCounted'
  <2> SUFFICES ASSUME NEW k \in Int, DayBefore - 2 <= 4 * k, 4 * k < DayBefore + 2
               PROVE  /\ trNow < 4 * k => trDay' = 0
                      /\ trNow = 4 * k => trDay' <= Cardinality(trRan \cup {i})
                      /\ trNow > 4 * k /\ trNow < 4 * k + 4 => trDay' <= Cardinality(TourInstances)
                      /\ trNow = 4 * k + 4 /\ 4 * k = DayBefore - 2
                            => trDay' <= Cardinality(TourInstances) + Cardinality(trRan \cup {i})
                      /\ trNow >= 4 * k + 4 /\ 4 * k # DayBefore - 2
                            => trDay' <= Cardinality(TourInstances)
                      /\ trDay' <= 2 * Cardinality(TourInstances)
    BY <1>0 DEF RemindersCounted
  <2>1. /\ trNow < 4 * k => trDay = 0
        /\ trNow = 4 * k => trDay <= Cardinality(trRan)
        /\ trNow > 4 * k /\ trNow < 4 * k + 4 => trDay <= Cardinality(TourInstances)
        /\ trNow = 4 * k + 4 /\ 4 * k = DayBefore - 2
              => trDay <= Cardinality(TourInstances) + Cardinality(trRan)
        /\ trNow >= 4 * k + 4 /\ 4 * k # DayBefore - 2 => trDay <= Cardinality(TourInstances)
        /\ trDay <= 2 * Cardinality(TourInstances)
    BY DEF TourInv, RemindersCounted
  <2>2. /\ Cardinality(TourInstances) \in Nat /\ Cardinality(trRan) \in Nat
        /\ Cardinality(trRan \cup {i}) = Cardinality(trRan) + 1
        /\ Cardinality(trRan) + 1 <= Cardinality(TourInstances)
    BY <1>0, RanSize DEF TourInv
  <2>3. h < k \/ h = k \/ h = k + 1 \/ h > k + 1
    OBVIOUS
  <2>4. CASE h < k
    <3>1. trNow < 4 * k /\ trNow < DayBefore - 2
      BY <1>0, <1>1, <2>4
    <3> QED BY <1>0, <1>2, <2>1, <2>2, <3>1
  <2>5. CASE h = k
    BY <1>0, <1>1, <1>2, <2>1, <2>2, <2>5
  <2>6. CASE h = k + 1
    <3>1. trNow = 4 * k + 4
      BY <1>1, <2>6
    <3>2. 4 * k # DayBefore - 2 => trNow > DayBefore + 2
      BY <1>0, <3>1
    <3> QED BY <1>0, <1>2, <2>1, <2>2, <3>1, <3>2
  <2>7. CASE h > k + 1
    <3>1. trNow >= 4 * k + 8 /\ trNow > DayBefore + 2
      BY <1>0, <1>1, <2>7
    <3> QED BY <1>0, <1>2, <2>1, <2>2, <3>1
  <2> QED BY <2>3, <2>4, <2>5, <2>6, <2>7
<1> QED BY <1>3, <1>4, <1>5 DEF TourInv

\* The calls on the tour: a change of the status inside the window starts anew.
LEMMA TourStep ==
  ASSUME TourInv, createTourRequest \/ \E status \in {"CONFIRMED", "CANCELLED"} : updateTourStatus(status)
  PROVE  TourInv'
<1> USE ToursAssumption
<1>0. /\ trNow \in Nat /\ trDay \in Nat /\ trTour.at \in Nat /\ trTour.since \in Nat
      /\ UNCHANGED <<trNow, trRan, trDay>> /\ trTour'.at = trTour.at
      /\ DayBefore \in Int /\ DayBefore' = DayBefore
  <2>1. UNCHANGED <<trNow, trRan, trDay>> /\ trTour'.at = trTour.at
    BY DEF TourInv, TourTyped, createTourRequest, updateTourStatus
  <2> QED BY <2>1, TourTimes DEF TourInv, DayBefore
<1>1. TourTyped'
  BY DEF TourInv, TourTyped, createTourRequest, updateTourStatus
<1>2. RemindersCounted'
  BY <1>0 DEF TourInv, RemindersCounted
<1>3. trTour'.status = "CONFIRMED" => trTour'.since = trNow
  BY DEF TourInv, TourTyped, createTourRequest, updateTourStatus
<1>4. HoursServed'
  <2> SUFFICES ASSUME NEW k \in Int, DayBefore - 2 <= 4 * k, trNow < DayBefore - 2, HourServed(k)
               PROVE  FALSE
    BY <1>0, <1>3 DEF HoursServed, HourServed
  <2> QED BY <1>0 DEF HourServed
<1> QED BY <1>1, <1>2, <1>4 DEF TourInv

\* send24hTourReminders: for any number of instances and any time of the tour, a tour that
\* was confirmed in time is reminded of, and no instance sends more than the windows of
\* successive hours allow (TourRemindedDayAhead, TourRemindersBounded).
THEOREM ToursSafe == TrSpec => [](TourRemindedDayAhead /\ TourRemindersBounded)
<1> USE ToursAssumption
<1>1. TrInit => TourInv
  <2> SUFFICES ASSUME TrInit PROVE TourInv
    OBVIOUS
  <2>1. /\ trNow = 0 /\ trDay = 0 /\ trRan = {} /\ trTour.status = "none"
        /\ trTour \in [at : TourAt, status : {"none"}, since : {0}] /\ TourTyped
    BY DEF TrInit, TourTyped
  <2>2. HoursServed
    BY <2>1 DEF HoursServed
  <2>3. RemindersCounted
    <3>1. Cardinality(TourInstances) \in Nat /\ Cardinality(trRan) = 0
      BY <2>1, RanSize, FS_EmptySet
    <3> QED BY <2>1, <3>1 DEF RemindersCounted
  <2> QED BY <2>1, <2>2, <2>3 DEF TourInv
<1>2. TourInv /\ [TrNext]_trVars => TourInv'
  <2> SUFFICES ASSUME TourInv, [TrNext]_trVars
               PROVE  TourInv'
    OBVIOUS
  <2>1. CASE UNCHANGED trVars
    BY <2>1 DEF TourInv, TourTyped, HoursServed, HourServed, RemindersCounted, DayBefore, trVars
  <2> QED BY <2>1, QuarterStep, RemindersStep, TourStep DEF TrNext
<1>3. TourInv => TourRemindedDayAhead /\ TourRemindersBounded
  <2> SUFFICES ASSUME TourInv PROVE TourRemindedDayAhead /\ TourRemindersBounded
    OBVIOUS
  <2>0. /\ trNow \in Nat /\ trDay \in Nat /\ trTour.at \in Nat /\ DayBefore \in Int
        /\ trTour.since \in Nat
    BY TourTimes DEF TourInv
  <2>1. PICK k \in Int : DayBefore - 2 <= 4 * k /\ 4 * k < DayBefore + 2
    <3> DEFINE k == (DayBefore + 1) \div 4
    <3>1. k \in Int /\ DayBefore - 2 <= 4 * k /\ 4 * k < DayBefore + 2
      BY <2>0
    <3> QED BY <3>1
  <2>2. TourRemindedDayAhead
    <3> SUFFICES ASSUME trTour.status = "CONFIRMED", trNow > DayBefore + 2,
                        trTour.since < DayBefore - 2
                 PROVE  trDay > 0
      BY <2>0 DEF TourRemindedDayAhead, DayBefore
    <3>1. HourServed(k)
      <4>1. trNow > 4 * k
        BY <2>0, <2>1
      <4> QED BY <4>1 DEF HourServed
    <3>2. 4 * k <= DayBefore + 2
      BY <2>0, <2>1
    <3> QED BY <2>1, <3>1, <3>2 DEF TourInv, HoursServed
  <2>3. TourRemindersBounded
    <3>1. /\ Cardinality(TourInstances) \in Nat /\ Cardinality(trRan) \in Nat
          /\ Cardinality(trRan) <= Cardinality(TourInstances)
      BY RanSize DEF TourInv
    <3>2. 4 * k = DayBefore - 2 <=> trTour.at % 4 = 2
      <4>1. PICK d \in Int : DayLead = 4 * d
        <5>1. DayLead = 4 * (DayLead \div 4) /\ DayLead \div 4 \in Int
          OBVIOUS
        <5> QED BY <5>1
      <4>2. trTour.at = DayBefore + 4 * d
        BY <2>0, <4>1 DEF DayBefore
      <4> QED BY <2>0, <2>1, <4>2
    <3>3. /\ trNow < 4 * k => trDay = 0
          /\ trNow = 4 * k => trDay <= Cardinality(trRan)
          /\ trNow > 4 * k /\ trNow < 4 * k + 4 => trDay <= Cardinality(TourInstances)
          /\ trNow >= 4 * k + 4 /\ 4 * k # DayBefore - 2 => trDay <= Cardinality(TourInstances)
          /\ trDay <= 2 * Cardinality(TourInstances)
      BY <2>1 DEF TourInv, RemindersCounted
    <3>4. 4 * k # DayBefore - 2 => trDay <= Cardinality(TourInstances)
      BY <2>0, <3>1, <3>3
    <3> QED BY <2>0, <3>1, <3>2, <3>3, <3>4 DEF TourRemindersBounded
  <2> QED BY <2>2, <2>3
<1> QED BY <1>1, <1>2, <1>3, PTL DEF TrSpec

-----------------------------------------------------------------------------
(* Tickets.                                                                *)

Worked == {"IN_PROGRESS", "WAITING_ON_CUSTOMER", "RESOLVED"}

\* What an operation has decided to write stays right until it writes: the dates it does
\* not set itself were set when it read the row, and no operation clears a date.
DecisionsHold ==
    /\ tkStatus \in TicketStatuses \cup {"none"}
    /\ tkTask \in [TicketReq -> [op : {"none", "status", "assign", "note"},
                                 target : TicketStatuses, stamp : BOOLEAN]]
    /\ TicketStamped
    /\ \A q \in TicketReq :
          /\ tkTask[q].op \in {"status", "assign"} /\ tkTask[q].target \in Worked
                => tkTask[q].stamp \/ tkAnswered
          /\ tkTask[q].op = "assign" /\ tkTask[q].target = "RESOLVED" => tkResolved
          /\ tkTask[q].op = "assign" /\ tkTask[q].target = "CLOSED" => tkClosed

\* An operation reads the row: what it is going to write fits the dates it has seen.
LEMMA ReadStep ==
  ASSUME DecisionsHold, NEW q \in TicketReq,
         updateTicketStatus(q) \/ assignTicket(q) \/ addNote(q)
  PROVE  DecisionsHold'
<1>1. ASSUME NEW op \in {"status", "assign", "note"}, NEW target \in TicketStatuses,
             NEW stamp \in BOOLEAN, ReadTicket(q, op, target, stamp),
             op # "note" /\ target \in Worked => stamp \/ tkAnswered,
             op = "assign" /\ target = "RESOLVED" => tkResolved,
             op = "assign" /\ target = "CLOSED" => tkClosed
      PROVE  DecisionsHold'
  <2>1. /\ tkTask'[q] = [op |-> op, target |-> target, stamp |-> stamp]
        /\ \A r \in TicketReq : r # q => tkTask'[r] = tkTask[r]
        /\ tkTask' \in [TicketReq -> [op : {"none", "status", "assign", "note"},
                                      target : TicketStatuses, stamp : BOOLEAN]]
    BY <1>1 DEF DecisionsHold, ReadTicket
  <2>2. UNCHANGED <<tkStatus, tkAnswered, tkResolved, tkClosed>>
    BY <1>1 DEF ReadTicket
  <2> QED BY <1>1, <2>1, <2>2 DEF DecisionsHold, TicketStamped
<1>2. CASE updateTicketStatus(q)
  <2>1. PICK target \in NextStatuses[tkStatus] :
             ReadTicket(q, "status", target, target = "IN_PROGRESS" /\ ~tkAnswered)
    BY <1>2 DEF updateTicketStatus
  <2>2. tkStatus \in TicketStatuses
    BY <1>2 DEF updateTicketStatus, DecisionsHold
  <2>3. /\ target \in TicketStatuses
        /\ target \in Worked => target = "IN_PROGRESS" \/ tkStatus \in Worked
    BY <2>1, <2>2 DEF NextStatuses, TicketStatuses, Worked
  <2>4. target \in Worked => (target = "IN_PROGRESS" /\ ~tkAnswered) \/ tkAnswered
    BY <2>3 DEF DecisionsHold, TicketStamped, Worked
  <2>5. (target = "IN_PROGRESS" /\ ~tkAnswered) \in BOOLEAN
    OBVIOUS
  <2> QED BY <2>1, <2>3, <2>4, <2>5, <1>1
<1>3. CASE assignTicket(q)
  <2> DEFINE target == IF tkStatus = "NEW" THEN "IN_PROGRESS" ELSE tkStatus
  <2>1. ReadTicket(q, "assign", target, tkStatus = "NEW") /\ tkStatus # "none"
    BY <1>3 DEF assignTicket, ReadTicket
  <2>2. target \in TicketStatuses
    BY <2>1 DEF DecisionsHold, TicketStatuses
  <2>3. /\ target \in Worked => (tkStatus = "NEW") \/ tkAnswered
        /\ target = "RESOLVED" => tkResolved
        /\ target = "CLOSED" => tkClosed
    BY DEF DecisionsHold, TicketStamped, Worked
  <2>4. (tkStatus = "NEW") \in BOOLEAN
    OBVIOUS
  <2> HIDE DEF target
  <2> QED BY <2>1, <2>2, <2>3, <2>4, <1>1
<1>4. CASE addNote(q)
  <2>1. ReadTicket(q, "note", tkStatus, ~tkAnswered) /\ tkStatus # "none"
    BY <1>4 DEF addNote, ReadTicket
  <2>2. tkStatus \in TicketStatuses
    BY <2>1 DEF DecisionsHold
  <2>3. (~tkAnswered) \in BOOLEAN
    OBVIOUS
  <2> QED BY <2>1, <2>2, <2>3, <1>1
<1> QED BY <1>2, <1>3, <1>4

\* An operation writes the row: no date that another one relies on is cleared.
LEMMA WriteStep ==
  ASSUME DecisionsHold, NEW q \in TicketReq,
         writeStatus(q) \/ writeAssignment(q) \/ writeNote(q)
  PROVE  DecisionsHold'
<1>1. /\ tkTask' = [tkTask EXCEPT ![q] = TkIdle]
      /\ tkAnswered => tkAnswered'
      /\ tkResolved => tkResolved'
      /\ tkClosed => tkClosed'
  <2>1. CASE writeStatus(q)
    BY <2>1, Zenon DEF writeStatus
  <2>2. CASE writeAssignment(q)
    BY <2>2, Zenon DEF writeAssignment
  <2>3. CASE writeNote(q)
    BY <2>3, Zenon DEF writeNote
  <2> QED BY <2>1, <2>2, <2>3
<1>2. /\ tkTask'[q] = TkIdle
      /\ \A r \in TicketReq : r # q => tkTask'[r] = tkTask[r]
      /\ tkTask' \in [TicketReq -> [op : {"none", "status", "assign", "note"},
                                    target : TicketStatuses, stamp : BOOLEAN]]
  BY <1>1 DEF DecisionsHold, TkIdle, TicketStatuses
<1>3. tkTask[q].target \in TicketStatuses
  BY DEF DecisionsHold
<1>4. tkStatus' \in TicketStatuses \cup {"none"} /\ TicketStamped'
  <2>1. CASE writeStatus(q)
    BY <2>1, <1>3 DEF DecisionsHold, TicketStamped, Worked, writeStatus
  <2>2. CASE writeAssignment(q)
    BY <2>2, <1>3 DEF DecisionsHold, TicketStamped, Worked, writeAssignment
  <2>3. CASE writeNote(q)
    BY <2>3 DEF DecisionsHold, TicketStamped, writeNote
  <2> QED BY <2>1, <2>2, <2>3
<1> QED BY <1>1, <1>2, <1>4 DEF DecisionsHold, TkIdle

\* updateTicketStatus, assignTicket, addNote: for any number of operations whose reads and
\* writes overlap, the dates of the ticket go with its status (TicketStamped).
THEOREM TicketSafe == TkSpec => []TicketStamped
<1>1. TkInit => DecisionsHold
  BY DEF TkInit, DecisionsHold, TicketStamped, TkIdle, TicketStatuses
<1>2. DecisionsHold /\ [TkNext]_tkVars => DecisionsHold'
  <2> SUFFICES ASSUME DecisionsHold, [TkNext]_tkVars
               PROVE  DecisionsHold'
    OBVIOUS
  <2>1. CASE UNCHANGED <<tkStatus, tkAnswered, tkResolved, tkClosed, tkTask>>
    BY <2>1 DEF DecisionsHold, TicketStamped
  <2>2. CASE createTicket
    BY <2>2 DEF DecisionsHold, TicketStamped, createTicket, TicketStatuses
  <2>3. (deadlinePasses \/ \E i \in SlaInstances : checkSlaBreaches(i) \/ flagBreach(i) \/ notifyBreach(i))
           => UNCHANGED <<tkStatus, tkAnswered, tkResolved, tkClosed, tkTask>>
    BY DEF deadlinePasses, checkSlaBreaches, flagBreach, notifyBreach
  <2>4. UNCHANGED tkVars => UNCHANGED <<tkStatus, tkAnswered, tkResolved, tkClosed, tkTask>>
    BY DEF tkVars
  <2> QED BY <2>1, <2>2, <2>3, <2>4, ReadStep, WriteStep DEF TkNext
<1>3. DecisionsHold => TicketStamped
  BY DEF DecisionsHold
<1> QED BY <1>1, <1>2, <1>3, PTL DEF TkSpec

-----------------------------------------------------------------------------
(* Seeding.                                                                *)

\* The deletions are 47, and no Property or User goes before notes, disputes and transactions.
LEMMA DeletionSteps ==
    /\ DOMAIN DeletionOrder = 1..47 /\ Len(DeletionOrder) = 47 /\ MarkerAt = 48
    /\ DeletionOrder[3] = "TransactionNote" /\ DeletionOrder[7] = "Dispute"
    /\ DeletionOrder[17] = "Transaction"
    /\ DeletionOrder[46] = "DatabaseBackup" /\ DeletionOrder[47] = "BackupScheduleConfig"
    /\ \A i \in 1..47 : DeletionOrder[i] = "User" => i = 45
    /\ \A i \in 1..17 : DeletionOrder[i] \notin {"User", "Property"}
  BY DEF DeletionOrder, MarkerAt

\* No cascade takes a user with it, and only that of a user takes a property.
LEMMA NoWayToUser ==
  \A t : "User" \notin Cascades(t) /\ ("Property" \in Cascades(t) => t = "User")
  BY DEF Cascades

\* Only transactions, disputes and their notes keep a parent from being deleted.
LEMMA OnlyRestricting ==
  \A t : Restricts(t) # {} =>
            /\ t \in {"User", "Property"}
            /\ Restricts(t) \subseteq {"Transaction", "Dispute", "TransactionNote"}
  BY DEF Restricts

\* A deletion takes its own table, and users and properties only by their own deletions.
LEMMA ClosureRoots ==
  \A t : /\ t \in Closure(t)
         /\ "User" \in Closure(t) => t = "User"
         /\ "Property" \in Closure(t) => t \in {"Property", "User"}
  BY NoWayToUser DEF Closure, Reached

\* The tables that the reset names.
Deleted == {DeletionOrder[i] : i \in 1..47}

\* The names of DeletionOrder as a set.
LEMMA DeletedNames == Deleted =
    {"OpenHouseRsvp", "OpenHouse", "TransactionNote", "TransactionMilestone",
      "TransactionHistory", "TransactionTaxStrategy", "Dispute", "Commission", "PropertyAgent",
      "PropertyFavorite", "PropertyView", "PropertyAmenity", "PropertyDuplicate", "PropertyImage",
      "DocumentVersion", "Document", "Transaction", "NeighborhoodSchool", "NeighborhoodAmenity",
      "Neighborhood", "Property", "Notification", "FraudInvestigationNote", "FraudAlert",
      "Session", "LoginHistory", "LoginAttempt", "PasswordResetToken", "BlacklistedToken",
      "PasswordHistory", "ApiKey", "ActivityLog", "UserPreferences", "SavedFilter",
      "SearchAnalytics", "SearchHistory", "PopularSearch", "SearchSuggestion", "EmailEngagement",
      "EmailBounce", "DigestPreference", "LinkClick", "VerificationDocument", "ExportJob", "User",
      "DatabaseBackup", "BackupScheduleConfig"}
  BY DEF Deleted, DeletionOrder

\* The tables that only a cascade empties.
LEMMA Cascaded ==
    /\ {"TrustedDevice", "Webhook", "TourRequest", "AgentAvailability", "SupportTicket",
     "SupportTicketNote"}
          \subseteq Cascades("User")
    /\ "PropertyPriceHistory" \in Cascades("Property")
    /\ "ApiKeyUsageDaily" \in Cascades("ApiKey") /\ "WebhookDeliveryLog" \in Cascades("Webhook")
  BY DEF Cascades

\* What the deletion of a parent takes with it is deleted by name, or is one of these.
LEMMA CascadesCovered ==
  \A p \in Parents : Cascades(p) \subseteq Deleted \cup
     {"TrustedDevice", "Webhook", "TourRequest", "AgentAvailability", "SupportTicket",
      "SupportTicketNote",
      "PropertyPriceHistory", "ApiKeyUsageDaily", "WebhookDeliveryLog"}
  BY DeletedNames DEF Parents, Cascades

\* Every table but the survivors is reached by one of the deletions of the reset.
LEMMA TablesReached ==
  \A t \in Tables \ Survivors : \E k \in 1..47 : t \in Closure(DeletionOrder[k])
<1> SUFFICES ASSUME NEW t \in Tables \ Survivors PROVE \E d \in Deleted : t \in Closure(d)
  BY DEF Deleted
<1>1. CASE t \in Deleted
  BY <1>1, ClosureRoots
<1>2. CASE t \in {"TrustedDevice", "Webhook", "TourRequest", "AgentAvailability",
                  "SupportTicket", "SupportTicketNote", "PropertyPriceHistory", "ApiKeyUsageDaily", "WebhookDeliveryLog"}
  <2>1. {"User", "Property", "ApiKey"} \subseteq Deleted
    BY DeletedNames
  <2>2. t \in Closure("User") \cup Closure("Property") \cup Closure("ApiKey")
    BY <1>2, Cascaded DEF Closure, Reached
  <2> QED BY <2>1, <2>2
<1>3. CASE t \in Parents
  BY <1>1, <1>2, <1>3, DeletedNames DEF Parents
<1>4. CASE t \in {"LoginAttempt", "BlacklistedToken", "SearchAnalytics", "PopularSearch",
                  "LinkClick", "SearchSuggestion", "ExportJob", "DatabaseBackup", "BackupScheduleConfig"}
  BY <1>1, <1>4, DeletedNames
<1>5. ASSUME NEW p \in Parents, t \in Cascades(p) PROVE \E d \in Deleted : t \in Closure(d)
  BY <1>1, <1>2, <1>5, CascadesCovered
<1>6. \/ t \in Parents \/ \E p \in Parents : t \in Cascades(p)
      \/ t \in {"LoginAttempt", "BlacklistedToken", "SearchAnalytics", "PopularSearch", "LinkClick",
                "SearchSuggestion", "ExportJob", "DatabaseBackup", "BackupScheduleConfig"}
  BY DEF Tables
<1> QED BY <1>3, <1>4, <1>5, <1>6

\* The 18 blocks of fixtures, each of which draws at least one row.
LEMMA BlockList ==
  /\ Len(Blocks) = 18 /\ DOMAIN Blocks = 1..18
  /\ \A i \in 1..18 : Blocks[i].drawn # 0 /\ Blocks[i].mode \in {"upsert", "create", "unique"}
  BY DEF Blocks, UserBlock, NeighborhoodBlocks, PropertyBlocks, TransactionBlocks,
     DocumentBlocks, OpenHouseBlocks, AccountBlocks, Block,
     NEIGHBORHOODS, PROPERTY_TEMPLATES, USERS_DATA

\* No two blocks fill the same table.
LEMMA BlocksDiffer ==
  \A i, j \in 1..18 : Blocks[i].table = Blocks[j].table => i = j
  BY DEF Blocks, UserBlock, NeighborhoodBlocks, PropertyBlocks, TransactionBlocks,
     DocumentBlocks, OpenHouseBlocks, AccountBlocks, Block

\* A block refers only to tables that an earlier block has filled.
LEMMA BlocksRefer ==
  \A i \in 1..18 : \A t \in Blocks[i].refs : \E k \in 1..(i - 1) : Blocks[k].table = t
<1>1. /\ Blocks[1].table = "User" /\ Blocks[2].table = "Neighborhood"
      /\ Blocks[5].table = "Property" /\ Blocks[9].table = "Transaction" /\ Blocks[14].table = "OpenHouse"
  BY DEF Blocks, UserBlock, NeighborhoodBlocks, PropertyBlocks, TransactionBlocks,
     DocumentBlocks, OpenHouseBlocks, AccountBlocks, Block
<1>2. \A i \in 1..18 : \A t \in Blocks[i].refs :
        \/ t = "User" /\ i > 1
        \/ t = "Neighborhood" /\ i > 2
        \/ t = "Property" /\ i > 5
        \/ t = "Transaction" /\ i > 9
        \/ t = "OpenHouse" /\ i > 14
  BY DEF Blocks, UserBlock, NeighborhoodBlocks, PropertyBlocks, TransactionBlocks,
     DocumentBlocks, OpenHouseBlocks, AccountBlocks, Block
<1> QED BY <1>1, <1>2

\* Every table that a block fills is one that the reset names.
LEMMA BlockTables ==
  \A i \in 1..18 : Blocks[i].table \in Deleted \ {"DatabaseBackup", "BackupScheduleConfig"}
  BY DeletedNames DEF Blocks, UserBlock, NeighborhoodBlocks, PropertyBlocks, TransactionBlocks,
     DocumentBlocks, OpenHouseBlocks, AccountBlocks, Block

\* Where a run is in its deletions, the tables it has emptied are empty.
EmptiedSoFar ==
    sdAt \in 1..47 => \A k \in 1..(sdAt - 1) : Closure(DeletionOrder[k]) \cap sdRows = {}

\* Behind its marker a run has filled the tables of the blocks before its position; the
\* others have been filled by the runs before it only.
FilledSoFar ==
    sdAt > 48 =>
        /\ "User" \in sdRows
        /\ \A k \in 1..18 : k < sdAt - 48 => Blocks[k].table \in sdRows
        /\ \A k \in 1..18 : k >= sdAt - 48 => sdFixtures[Blocks[k].table] < Cardinality(sdMarkers)

\* Each marker stands for a run, and each set of fixtures for a marker.
MarkersCounted ==
    /\ IsFiniteSet(sdMarkers)
    /\ Cardinality(sdMarkers) <= sdSeeds
    /\ sdAt \in 1..48 => Cardinality(sdMarkers) < sdSeeds
    /\ \A t \in FixtureTables : /\ sdFixtures[t] <= Cardinality(sdMarkers)
                                /\ sdFixtures[t] > 0 => t \in sdRows

\* The inductive invariant of a run of seed.ts and of the runs before it.
SeedInv ==
    /\ SdTypeOK /\ (sdAt # 0 => sdRun \in Envs)
    /\ EmptiedSoFar /\ FilledSoFar /\ MarkersCounted /\ ForeignKeysKept

\* The tables of the fixtures, block by block.
LEMMA FixtureNames ==
    /\ FixtureTables = {Blocks[i].table : i \in 1..18}
    /\ FixtureTables \subseteq Deleted \ {"DatabaseBackup", "BackupScheduleConfig"}
  BY BlockList, BlockTables DEF FixtureTables

\* Every table of fixtures is a table of the schema.
LEMMA FixturesAreTables == FixtureTables \subseteq Tables
<1>1. /\ {"PropertyAgent", "PropertyFavorite", "Notification", "UserPreferences", "OpenHouseRsvp"}
           \subseteq Cascades("User")
      /\ {"PropertyImage", "PropertyAmenity"} \subseteq Cascades("Property")
      /\ {"NeighborhoodSchool", "NeighborhoodAmenity"} \subseteq Cascades("Neighborhood")
      /\ {"TransactionHistory", "TransactionMilestone"} \subseteq Cascades("Transaction")
  BY DEF Cascades
<1>2. \A i \in 1..18 : \/ Blocks[i].table \in Parents
                        \/ Blocks[i].table \in
                             {"PropertyAgent", "PropertyFavorite", "Notification",
                              "UserPreferences", "OpenHouseRsvp", "PropertyImage",
                              "PropertyAmenity", "NeighborhoodSchool", "NeighborhoodAmenity",
                              "TransactionHistory", "TransactionMilestone"}
  BY DEF Parents, Blocks, UserBlock, NeighborhoodBlocks, PropertyBlocks, TransactionBlocks,
     DocumentBlocks, OpenHouseBlocks, AccountBlocks, Block
<1>3. Parents \subseteq Tables /\ \A p \in Parents : Cascades(p) \subseteq Tables
  BY DEF Tables
<1>4. {"User", "Property", "Neighborhood", "Transaction"} \subseteq Parents
  BY DEF Parents
<1> QED BY <1>1, <1>2, <1>3, <1>4, FixtureNames

\* An empty or a filled database without a run.
LEMMA SdInitInv == SdInit => SeedInv
<1> SUFFICES ASSUME SdInit PROVE SeedInv OBVIOUS
<1>1. IsFiniteSet({}) /\ Cardinality({}) = 0
  BY FS_EmptySet
<1> QED
  BY <1>1, SeedAssumption, BlockList, DeletionSteps
     DEF SdInit, SeedInv, SdTypeOK, EmptiedSoFar, FilledSoFar, MarkersCounted, ForeignKeysKept

\* main: a run starts, with or without a reset.
LEMMA MainStep ==
  ASSUME SeedInv, NEW e \in Envs, NEW reset \in BOOLEAN, main(e, reset)
  PROVE  SeedInv'
<1>0. Cardinality(sdMarkers) \in Nat
  BY FS_CardinalityType DEF SeedInv, MarkersCounted
<1>1. /\ UNCHANGED <<sdRows, sdFixtures, sdMarkers>>
      /\ sdSeeds' = sdSeeds + 1 /\ sdSeeds' \in 0..MaxSeeds /\ sdSeeds \in Nat
  BY SeedAssumption DEF main, SeedInv, SdTypeOK
<1>2. /\ sdAt = 0 /\ sdAt' \in {0, 1, 48} /\ sdOutcome' \in {"skipped", "none"}
      /\ sdAt' = 0 => sdRun' = "none"
      /\ sdAt' # 0 => sdRun' = e
  BY DeletionSteps DEF main, Stop
<1>3. SdTypeOK' /\ (sdAt' # 0 => sdRun' \in Envs)
  BY <1>1, <1>2, BlockList, DeletionSteps DEF SeedInv, SdTypeOK
<1>4. EmptiedSoFar' /\ FilledSoFar' /\ ForeignKeysKept'
  <2>2. EmptiedSoFar'
    <3>1. sdAt' \in 1..47 => sdAt' = 1
      BY <1>2
    <3>2. \A k : k \notin 1..(1 - 1)
      OBVIOUS
    <3> QED BY <3>1, <3>2 DEF EmptiedSoFar
  <2>3. FilledSoFar'
    BY <1>2 DEF FilledSoFar
  <2>4. ForeignKeysKept'
    BY <1>2 DEF ForeignKeysKept
  <2> QED BY <2>2, <2>3, <2>4
<1>5. MarkersCounted'
  BY <1>0, <1>1 DEF SeedInv, MarkersCounted
<1> QED BY <1>3, <1>4, <1>5 DEF SeedInv

\* However a run ends, its transactions and their rows stay as they are.
LEMMA StopStep ==
  ASSUME SeedInv, NEW how \in {"skipped", "done", "died", "unique"}, Stop(how),
         UNCHANGED <<sdRows, sdFixtures, sdMarkers, sdSeeds>>
  PROVE  SeedInv'
  BY BlockList, DeletionSteps
     DEF Stop, SeedInv, SdTypeOK, EmptiedSoFar, FilledSoFar, MarkersCounted, ForeignKeysKept

\* No deletion meets a row that restricts it: those went before (ForeignKeysKept).
LEMMA NeverBlocked ==
  ASSUME SeedInv, sdAt \in 1..47
  PROVE  ~Blocked(DeletionOrder[sdAt])
<1> DEFINE t == DeletionOrder[sdAt]
<1> SUFFICES ASSUME NEW x \in Closure(t), NEW r \in Restricts(x), r \in sdRows PROVE FALSE
  BY DEF Blocked
<1>1. x \in {"User", "Property"} /\ r \in {"Transaction", "Dispute", "TransactionNote"}
  BY OnlyRestricting
<1>2. t \in {"User", "Property"}
  BY <1>1, ClosureRoots
<1>3. sdAt > 17
  BY <1>2, DeletionSteps
<1>4. \A k \in {3, 7, 17} : DeletionOrder[k] \notin sdRows
  BY <1>3, ClosureRoots DEF SeedInv, EmptiedSoFar
<1> QED BY <1>1, <1>4, DeletionSteps

\* deleteMany: a deletion empties its table and the cascades of that.
LEMMA DeletionStep ==
  ASSUME SeedInv, deleteMany
  PROVE  SeedInv'
<1> DEFINE t == DeletionOrder[sdAt]
           gone == Closure(t)
<1>0. Cardinality(sdMarkers) \in Nat /\ IsFiniteSet({}) /\ Cardinality({}) = 0
  BY FS_CardinalityType, FS_EmptySet DEF SeedInv, MarkersCounted
<1>1. sdAt \in 1..47 /\ ~Blocked(t)
  BY NeverBlocked, DeletionSteps DEF deleteMany
<1>2. /\ sdRows' = sdRows \ gone
      /\ sdFixtures' = [x \in FixtureTables |-> IF x \in gone THEN 0 ELSE sdFixtures[x]]
      /\ sdMarkers' = IF "User" \in gone THEN {} ELSE sdMarkers
      /\ sdAt' = sdAt + 1 /\ UNCHANGED <<sdRun, sdOutcome, sdSeeds>>
  BY <1>1 DEF deleteMany
<1>3. SdTypeOK' /\ sdRun' \in Envs
  BY <1>1, <1>2, SeedAssumption, DeletionSteps, BlockList DEF SeedInv, SdTypeOK
<1>4. EmptiedSoFar'
  BY <1>1, <1>2 DEF SeedInv, EmptiedSoFar
<1>5. FilledSoFar' /\ ForeignKeysKept'
  BY <1>1, <1>2 DEF SeedInv, FilledSoFar, ForeignKeysKept
<1>6. ASSUME NEW x \in FixtureTables, t = "User" PROVE sdFixtures'[x] = 0
  <2>1. PICK k \in 1..47 : x = DeletionOrder[k]
    BY FixtureNames DEF Deleted
  <2>2. sdAt = 45 /\ k <= 45
    BY <1>1, <1>6, <2>1, FixtureNames, DeletionSteps
  <2>3. x \notin sdRows \/ x \in gone
    BY <1>1, <2>1, <2>2, ClosureRoots DEF SeedInv, EmptiedSoFar
  <2> QED BY <1>2, <2>3 DEF SeedInv, SdTypeOK, MarkersCounted
<1>7. MarkersCounted'
  BY <1>0, <1>1, <1>2, <1>6, ClosureRoots DEF SeedInv, SdTypeOK, MarkersCounted
<1> QED BY <1>3, <1>4, <1>5, <1>7, DeletionSteps DEF SeedInv

\* The user that marks a scope: a second run of the scope stops here.
LEMMA MarkerStep ==
  ASSUME SeedInv, createMarker
  PROVE  SeedInv'
<1>0. Cardinality(sdMarkers) \in Nat /\ sdAt = 48 /\ sdRun \in Envs
  BY FS_CardinalityType, DeletionSteps DEF SeedInv, MarkersCounted, createMarker
<1>1. CASE sdRun \in sdMarkers
  BY <1>1, StopStep DEF createMarker
<1>2. CASE sdRun \notin sdMarkers
  <2>1. /\ sdMarkers' = sdMarkers \cup {sdRun} /\ sdRows' = sdRows \cup {"User"} /\ sdAt' = 49
        /\ UNCHANGED <<sdRun, sdOutcome, sdFixtures, sdSeeds>>
    BY <1>0, <1>2 DEF createMarker
  <2>2. IsFiniteSet(sdMarkers') /\ Cardinality(sdMarkers') = Cardinality(sdMarkers) + 1
    BY <1>2, <2>1, FS_AddElement DEF SeedInv, MarkersCounted
  <2>3. SdTypeOK'
    BY <1>0, <2>1, BlockList, DeletionSteps DEF SeedInv, SdTypeOK, Tables, Parents
  <2>4. EmptiedSoFar' /\ ForeignKeysKept' /\ sdRun' \in Envs
    BY <1>0, <2>1 DEF SeedInv, EmptiedSoFar, ForeignKeysKept
  <2>5. MarkersCounted'
    <3>1. Cardinality(sdMarkers') <= sdSeeds'
      BY <1>0, <2>1, <2>2 DEF SeedInv, SdTypeOK, MarkersCounted
    <3>2. \A t \in FixtureTables : /\ sdFixtures[t] <= Cardinality(sdMarkers) + 1
                                   /\ sdFixtures[t] > 0 => t \in sdRows'
      BY <1>0, <2>1 DEF SeedInv, SdTypeOK, MarkersCounted
    <3> QED BY <2>1, <2>2, <3>1, <3>2 DEF MarkersCounted
  <2>6. FilledSoFar'
    <3>1. \A t \in FixtureTables : sdFixtures[t] < Cardinality(sdMarkers)'
      BY <1>0, <2>2 DEF SeedInv, SdTypeOK, MarkersCounted
    <3>2. \A k \in 1..18 : Blocks[k].table \in FixtureTables
      BY FixtureNames
    <3>3. sdAt' = 49 /\ sdAt' - 48 = 1 /\ "User" \in sdRows' /\ UNCHANGED sdFixtures
      BY <2>1
    <3>4. \A k \in 1..18 : ~(k < 1)
      OBVIOUS
    <3> QED BY <3>1, <3>2, <3>3, <3>4 DEF FilledSoFar
  <2> QED BY <2>3, <2>4, <2>5, <2>6 DEF SeedInv
<1> QED BY <1>1, <1>2

\* A block of fixtures finds its parents, and fills its table once for each marker.
LEMMA InsertStep ==
  ASSUME SeedInv, insertBlock
  PROVE  SeedInv'
<1>1. PICK at \in 1..18 : sdAt = at + 48
  <2>1. sdAt > 48
    BY DeletionSteps DEF insertBlock
  <2>2. sdAt \in 0..66
    BY DeletionSteps, BlockList DEF SeedInv, SdTypeOK
  <2>3. sdAt - 48 \in 1..18 /\ sdAt = (sdAt - 48) + 48
    BY <2>1, <2>2
  <2> QED BY <2>3
<1> DEFINE b == Blocks[at]
           n == sdFixtures[b.table]
           made == Cardinality(sdMarkers)
<1>2. sdRun \in Envs /\ at = sdAt - MarkerAt
  BY <1>1, DeletionSteps DEF SeedInv
<1>3. b.drawn # 0 /\ b.refs \subseteq sdRows /\ b.table \in FixtureTables /\ b.table \in Tables
  <2>1. \A k \in 1..18 : k < at => Blocks[k].table \in sdRows
    BY <1>1 DEF SeedInv, FilledSoFar
  <2>2. \A t \in b.refs : \E k \in 1..18 : k < at /\ Blocks[k].table = t
    BY BlocksRefer
  <2>3. b.table \in FixtureTables /\ b.drawn # 0
    BY BlockList, FixtureNames
  <2> QED BY <2>1, <2>2, <2>3, FixturesAreTables
<1>4. n \in Nat /\ made \in Nat /\ n < made /\ made <= MaxSeeds
  <2>1. made \in Nat /\ made <= sdSeeds
    BY FS_CardinalityType DEF SeedInv, MarkersCounted
  <2>2. n \in Nat /\ sdSeeds \in 0..MaxSeeds
    BY <1>3 DEF SeedInv, SdTypeOK
  <2>3. n < made
    BY <1>1 DEF SeedInv, FilledSoFar
  <2> QED BY <2>1, <2>2, <2>3, SeedAssumption
<1>5. CASE b.mode = "unique" /\ n > 0
  BY <1>2, <1>3, <1>5, StopStep DEF insertBlock
<1>6. CASE ~(b.mode = "unique" /\ n > 0)
  <2>1. /\ sdRows' = sdRows \cup {b.table}
        /\ sdFixtures' = [sdFixtures EXCEPT ![b.table] = IF b.mode = "upsert" THEN 1 ELSE n + 1]
        /\ IF sdAt = MarkerAt + Len(Blocks)
           THEN Stop("done")
           ELSE sdAt' = sdAt + 1 /\ UNCHANGED <<sdRun, sdOutcome>>
        /\ UNCHANGED <<sdMarkers, sdSeeds>>
    BY <1>2, <1>3, <1>6 DEF insertBlock
  <2> DEFINE m == IF b.mode = "upsert" THEN 1 ELSE n + 1
  <2>2. m \in 1..made /\ m \in 0..MaxSeeds /\ sdFixtures' = [sdFixtures EXCEPT ![b.table] = m]
    BY <1>4, <2>1, SeedAssumption
  <2> HIDE DEF m
  <2>3. \/ at = 18 /\ sdAt' = 0 /\ sdRun' = "none" /\ sdOutcome' = "done"
        \/ at < 18 /\ sdAt' = at + 49 /\ UNCHANGED <<sdRun, sdOutcome>>
    BY <1>1, <2>1, DeletionSteps, BlockList DEF Stop
  <2>4. SdTypeOK' /\ (sdAt' # 0 => sdRun' \in Envs)
    <3>1. sdRows' \subseteq Tables
      BY <1>3, <2>1 DEF SeedInv, SdTypeOK
    <3>2. sdFixtures' \in [FixtureTables -> 0..MaxSeeds]
      BY <2>2 DEF SeedInv, SdTypeOK
    <3>3. sdAt' \in 0..66
      BY <2>3
    <3> QED BY <1>2, <2>1, <2>3, <3>1, <3>2, <3>3, DeletionSteps, BlockList DEF SeedInv, SdTypeOK
  <2>5. EmptiedSoFar' /\ ForeignKeysKept'
    BY <2>3 DEF SeedInv, EmptiedSoFar, ForeignKeysKept
  <2>6. \A t \in FixtureTables : sdFixtures'[t] = IF t = b.table THEN m ELSE sdFixtures[t]
    BY <2>2 DEF SeedInv, SdTypeOK
  <2>7. MarkersCounted'
    <3>1. \A t \in FixtureTables : sdFixtures'[t] <= made /\ (sdFixtures'[t] > 0 => t \in sdRows')
      <4>1. \A t \in FixtureTables : sdFixtures[t] <= made /\ (sdFixtures[t] > 0 => t \in sdRows)
        BY DEF SeedInv, MarkersCounted
      <4>2. sdRows' = sdRows \cup {b.table} /\ m <= made
        BY <2>1, <2>2
      <4> QED BY <2>6, <4>1, <4>2
    <3>2. sdAt' \notin 1..48
      BY <2>3
    <3> QED BY <2>1, <3>1, <3>2 DEF SeedInv, MarkersCounted
  <2>8. FilledSoFar'
    <3> SUFFICES ASSUME at < 18, sdAt' = at + 49
                 PROVE  /\ "User" \in sdRows'
                        /\ \A k \in 1..18 : k < at + 1 => Blocks[k].table \in sdRows'
                        /\ \A k \in 1..18 : k >= at + 1 => sdFixtures'[Blocks[k].table] < made
      <4>1. Cardinality(sdMarkers)' = made
        BY <2>1
      <4>2. sdAt' > 48 => at < 18 /\ sdAt' = at + 49 /\ sdAt' - 48 = at + 1
        BY <2>3
      <4> QED BY <4>1, <4>2 DEF FilledSoFar
    <3>1. \A k \in 1..18 : k < at + 1 => k = at \/ k < at
      OBVIOUS
    <3>2. \A k \in 1..18 : k >= at + 1 => k >= at /\ Blocks[k].table # b.table
      BY BlocksDiffer
    <3>3. \A k \in 1..18 : k >= at + 1 => sdFixtures'[Blocks[k].table] < made
      BY <1>1, <2>6, <3>2, FixtureNames DEF SeedInv, FilledSoFar
    <3>4. "User" \in sdRows /\ \A k \in 1..18 : k < at => Blocks[k].table \in sdRows
      BY <1>1 DEF SeedInv, FilledSoFar
    <3> QED BY <2>1, <3>1, <3>3, <3>4
  <2> QED BY <2>4, <2>5, <2>7, <2>8 DEF SeedInv
<1> QED BY <1>5, <1>6

\* Every step of seed.ts preserves the invariant.
LEMMA SdNextInv == SeedInv /\ [SdNext]_sdVars => SeedInv'
<1> SUFFICES ASSUME SeedInv, [SdNext]_sdVars PROVE SeedInv'
  OBVIOUS
<1>1. CASE UNCHANGED sdVars
  BY <1>1
     DEF sdVars, SeedInv, SdTypeOK, EmptiedSoFar, FilledSoFar, MarkersCounted, ForeignKeysKept
<1>2. CASE dies
  BY <1>2, StopStep DEF dies
<1> QED BY <1>1, <1>2, MainStep, DeletionStep, MarkerStep, InsertStep DEF SdNext

\* Behind the last deletion only the tables are filled that no deletion reaches.
LEMMA LastDeletion ==
  SeedInv /\ [SdNext]_sdVars =>
    [sdAt = Len(DeletionOrder) /\ sdAt' = MarkerAt => sdRows' \subseteq Survivors]_sdVars
<1> SUFFICES ASSUME SeedInv, SdNext, sdAt = 47, sdAt' = 48 PROVE sdRows' \subseteq Survivors
  BY DeletionSteps
<1>1. deleteMany
  BY DeletionSteps DEF SdNext, main, createMarker, insertBlock, dies, Stop
<1>2. sdRows' = sdRows \ Closure(DeletionOrder[47])
  BY <1>1, NeverBlocked DEF deleteMany
<1>3. \A k \in 1..46 : Closure(DeletionOrder[k]) \cap sdRows = {}
  BY DEF SeedInv, EmptiedSoFar
<1>4. sdRows \subseteq Tables
  BY DEF SeedInv, SdTypeOK
<1> QED BY <1>2, <1>3, <1>4, TablesReached

\* seed.ts: for any number of runs and scopes, and wherever a run dies: no statement meets
\* a foreign key, no scope is filled twice, and a reset leaves nothing of a user.
THEOREM SeedSafe ==
  SdSpec => []SdTypeOK /\ [](ForeignKeysKept /\ FixturesOncePerScope) /\ ResetEmpties
<1>1. SeedInv => SdTypeOK /\ ForeignKeysKept /\ FixturesOncePerScope
  <2> SUFFICES ASSUME SeedInv, NEW t \in FixtureTables, sdFixtures[t] > 1
               PROVE  Cardinality(sdMarkers) > 1
    BY DEF SeedInv, FixturesOncePerScope
  <2> QED BY FS_CardinalityType DEF SeedInv, SdTypeOK, MarkersCounted
<1> QED BY <1>1, SdInitInv, SdNextInv, LastDeletion, PTL DEF SdSpec, ResetEmpties

-----------------------------------------------------------------------------
(* Types: the progress of every job and request, and every row, holds a    *)
(* value of its type, whatever the number of jobs, requests and rows.      *)

\* The socket gateway starts with no socket and nothing in Redis.
LEMMA PsInitTyped == PsInit => PsTypeOK
  BY PresenceAssumption DEF PsInit, PsTypeOK

\* handleDisconnect: the socket leaves its room and is no longer tracked.
LEMMA HandleDisconnectTyped ==
  ASSUME PsTypeOK, NEW s \in Sockets, handleDisconnect(s), psPublish' \subseteq Sockets
  PROVE  PsTypeOK'
  BY DEF PsTypeOK, handleDisconnect

\* The callbacks of one socket, and the checks of one socket.
LEMMA PsStepTyped ==
  ASSUME PsTypeOK, NEW s \in Sockets,
         \/ handleConnection(s) \/ authenticateClient(s) \/ accept(s) \/ register(s)
         \/ unregister(s) \/ instanceDies(s) \/ handleSessionRevoked(s) \/ clientLeaves(s)
         \/ heartbeat(s) \/ revalidate(s) \/ publishRevoked(s)
  PROVE  PsTypeOK'
<1>1. CASE handleConnection(s)
  BY <1>1 DEF PsTypeOK, handleConnection
<1>2. CASE authenticateClient(s)
  BY <1>2 DEF PsTypeOK, authenticateClient
<1>3. CASE accept(s)
  BY <1>3 DEF PsTypeOK, accept
<1>4. CASE register(s)
  BY <1>4, PresenceAssumption DEF PsTypeOK, register
<1>5. CASE unregister(s)
  BY <1>5, PresenceAssumption DEF PsTypeOK, unregister, SetHash
<1>6. CASE instanceDies(s)
  BY <1>6 DEF PsTypeOK, instanceDies
<1>7. CASE handleSessionRevoked(s)
  BY <1>7, HandleDisconnectTyped DEF PsTypeOK, handleSessionRevoked
<1>8. CASE clientLeaves(s)
  BY <1>8, HandleDisconnectTyped DEF PsTypeOK, clientLeaves
<1>9. CASE heartbeat(s) \/ revalidate(s) \/ publishRevoked(s)
  BY <1>9, PresenceAssumption DEF PsTypeOK, heartbeat, revalidate, publishRevoked
<1> QED BY <1>1, <1>2, <1>3, <1>4, <1>5, <1>6, <1>7, <1>8, <1>9

\* The gateway and redis-presence.service.ts, for any number of sockets and any life of an
\* entry: links, callbacks, rooms and entries keep their types (PsTypeOK).
THEOREM PresenceTyped == PsSpec => []PsTypeOK
<1>2. PsTypeOK /\ [PsNext]_psVars => PsTypeOK'
  <2> SUFFICES ASSUME PsTypeOK, [PsNext]_psVars PROVE PsTypeOK'
    OBVIOUS
  <2>1. CASE UNCHANGED psVars
    BY <2>1 DEF PsTypeOK, psVars
  <2>2. CASE interval \/ redisRestarts
    BY <2>2, PresenceAssumption DEF PsTypeOK, interval, redisRestarts, SetHash
  <2> QED BY <2>1, <2>2, PsStepTyped DEF PsNext
<1> QED BY PsInitTyped, <1>2, PTL DEF PsSpec

\* A job that waits has an attempt left; only a call that names a user looks the user up.
MailTyped ==
    /\ MlTypeOK
    /\ \A q \in MailReq : mlJob[q].at = "waiting" => mlJob[q].left > 0
    /\ \A q \in MailReq : mlSend[q] = "user" => q \in UserMail

\* The steps of one call of sendEmail and of the worker, which counts the attempts down.
LEMMA MailStepTyped ==
  ASSUME MailTyped, NEW q \in MailReq,
         \/ sendEmail(q) \/ shouldSuppressAddress(q) \/ checkRecipient(q) \/ queueMail(q)
         \/ queueFails(q) \/ \E delivered \in BOOLEAN : processMail(q, delivered)
  PROVE  MailTyped'
<1>1. CASE sendEmail(q) \/ queueFails(q)
  BY <1>1 DEF MailTyped, MlTypeOK, sendEmail, queueFails, GotoSend
<1>5. CASE shouldSuppressAddress(q)
  BY <1>5 DEF MailTyped, MlTypeOK, shouldSuppressAddress, GotoSend
<1>2. CASE checkRecipient(q)
  <2>1. q \in UserMail
    BY <1>2 DEF MailTyped, checkRecipient
  <2> QED BY <1>2, <2>1 DEF MailTyped, MlTypeOK, checkRecipient, GotoSend
<1>3. CASE queueMail(q)
  BY <1>3, MailAssumption DEF MailTyped, MlTypeOK, queueMail, GotoSend
<1>4. ASSUME NEW delivered \in BOOLEAN, processMail(q, delivered) PROVE MailTyped'
  <2> DEFINE left == mlJob[q].left - 1
             at == IF delivered THEN "sent" ELSE IF left = 0 THEN "failed" ELSE "waiting"
  <2>1. mlJob[q].left \in 1..MailAttempts
    BY <1>4 DEF MailTyped, MlTypeOK, processMail
  <2>2. left \in 0..MailAttempts /\ at \in {"sent", "failed", "waiting"}
        /\ (at = "waiting" => left > 0)
    BY <2>1, MailAssumption
  <2>3. mlJob' = [mlJob EXCEPT ![q] = [at |-> at, left |-> left]]
        /\ UNCHANGED <<mlHard, mlStatus, mlPrefs, mlHook, mlSend, mlOpens, mlWarned>>
    BY <1>4 DEF processMail
  <2> HIDE DEF at, left
  <2> QED BY <2>2, <2>3 DEF MailTyped, MlTypeOK
<1> QED BY <1>1, <1>2, <1>3, <1>4, <1>5

\* email.service.ts and the mail queue, for any number of calls and attempts: a job never has
\* fewer attempts left than none (MlTypeOK).
THEOREM MailTypeSafe == MlSpec => []MlTypeOK
<1>1. MlInit => MailTyped
  BY MailAssumption DEF MlInit, MailTyped, MlTypeOK, NoJob, HookIdle
<1>2. MailTyped /\ [MlNext]_mlVars => MailTyped'
  <2> SUFFICES ASSUME MailTyped, [MlNext]_mlVars PROVE MailTyped'
    OBVIOUS
  <2>1. CASE UNCHANGED mlVars
    BY <2>1 DEF MailTyped, MlTypeOK, mlVars
  <2>2. CASE markBounced \/ disableMail \/ hookFails \/ lookbackEnds
    <3>1. mlHook' \in [at : {"idle", "status", "prefs"}, hard : BOOLEAN]
      <4>1. HookIdle \in [at : {"idle", "status", "prefs"}, hard : BOOLEAN]
        BY DEF HookIdle
      <4>2. mlHook \in [at : {"idle", "status", "prefs"}, hard : BOOLEAN]
        BY DEF MailTyped, MlTypeOK
      <4>3. [mlHook EXCEPT !.at = "prefs"] \in [at : {"idle", "status", "prefs"}, hard : BOOLEAN]
        BY <4>2
      <4>4. mlHook' \in {HookIdle, mlHook, [mlHook EXCEPT !.at = "prefs"]}
        BY <2>2 DEF markBounced, disableMail, hookFails, lookbackEnds
      <4> QED BY <4>1, <4>2, <4>3, <4>4
    <3>2. /\ mlHard' \in {"none", "recent", "old"} /\ mlStatus' \in {"VALID", "BOUNCED"}
          /\ mlPrefs' \in BOOLEAN /\ UNCHANGED <<mlSend, mlOpens, mlJob, mlWarned>>
      BY <2>2 DEF MailTyped, MlTypeOK, markBounced, disableMail, hookFails, lookbackEnds
    <3> QED BY <3>1, <3>2 DEF MailTyped, MlTypeOK
  <2>3. ASSUME NEW hard \in BOOLEAN, recordBounce(hard) PROVE MailTyped'
    BY <2>3 DEF MailTyped, MlTypeOK, recordBounce
  <2> QED BY <2>1, <2>2, <2>3, MailStepTyped DEF MlNext
<1>3. MailTyped => MlTypeOK
  BY DEF MailTyped
<1> QED BY <1>1, <1>2, <1>3, PTL DEF MlSpec

\* What a run of the deadline reminders is about to do.
RmTasks == [step : {"idle", "find", "send", "stamp", "unlock"},
            todo : SUBSET Milestones, at : SUBSET Milestones]

\* The steps of one run of sendDeadlineReminders.
LEMMA RmStepTyped ==
  ASSUME RmTypeOK, NEW q \in RemindReq,
         \/ sendDeadlineReminders(q) \/ findDue(q) \/ stampReminder(q) \/ releaseLock(q)
         \/ remindDies(q) \/ \E m \in Milestones : remind(q, m)
  PROVE  RmTypeOK'
<1>0. rmTask[q] \in RmTasks /\ rmTask \in [RemindReq -> RmTasks]
  BY DEF RmTypeOK, RmTasks
<1>1. CASE sendDeadlineReminders(q)
  BY <1>1 DEF RmTypeOK, sendDeadlineReminders, RmIdle
<1>2. CASE findDue(q)
  <2>1. UNION {rmTask[r].todo \cup rmTask[r].at : r \in RemindReq} \subseteq Milestones
    BY DEF RmTypeOK
  <2> QED BY <1>2, <2>1 DEF RmTypeOK, findDue
<1>3. CASE stampReminder(q)
  <2>1. rmTask' \in [RemindReq -> RmTasks]
    BY <1>0, <1>3 DEF stampReminder, RmTasks
  <2>2. rmTask[q].at \subseteq Milestones
    BY <1>0 DEF RmTasks
  <2> QED BY <1>3, <2>1, <2>2 DEF RmTypeOK, RmTasks, stampReminder
<1>4. CASE releaseLock(q) \/ remindDies(q)
  <2>1. rmTask' \in [RemindReq -> RmTasks]
    <3>1. RmIdle \in RmTasks
      BY DEF RmIdle, RmTasks
    <3> QED BY <1>0, <1>4, <3>1 DEF releaseLock, remindDies
  <2>2. rmTask[q].at \subseteq Milestones
    BY <1>0 DEF RmTasks
  <2> QED BY <1>4, <2>1, <2>2 DEF RmTypeOK, RmTasks, releaseLock, remindDies
<1>5. ASSUME NEW m \in Milestones, remind(q, m) PROVE RmTypeOK'
  <2>1. PICK t \in RmTasks : rmTask' = [rmTask EXCEPT ![q] = t]
    <3>1. CASE rmTask' = [rmTask EXCEPT ![q] =
                             [step |-> "stamp", todo |-> @.todo \ {m}, at |-> {m}]]
      <4>1. [step |-> "stamp", todo |-> rmTask[q].todo \ {m}, at |-> {m}] \in RmTasks
        BY <1>0 DEF RmTasks
      <4> QED BY <3>1, <4>1
    <3>2. CASE rmTask' = [rmTask EXCEPT ![q] = [RmIdle EXCEPT !.step = "unlock"]]
      <4>1. [RmIdle EXCEPT !.step = "unlock"] \in RmTasks
        BY DEF RmTasks, RmIdle
      <4> QED BY <3>2, <4>1
    <3> QED BY <1>5, <3>1, <3>2 DEF remind
  <2>2. rmSent' \in [Milestones -> 0..MaxReminders]
    <3>1. rmSent[m] + 1 \in 0..MaxReminders /\ rmSent \in [Milestones -> 0..MaxReminders]
      BY <1>5, RemindersAssumption DEF RmTypeOK, remind
    <3>2. rmSent' = [rmSent EXCEPT ![m] = rmSent[m] + 1] \/ rmSent' = rmSent
      BY <1>5 DEF remind
    <3> QED BY <3>1, <3>2
  <2>3. rmExcuse' \subseteq Milestones /\ rmStamped' \subseteq Milestones /\ rmLock' \in BOOLEAN
    BY <1>5 DEF RmTypeOK, remind
  <2> QED BY <1>0, <2>1, <2>2, <2>3 DEF RmTypeOK, RmTasks
<1> QED BY <1>1, <1>2, <1>3, <1>4, <1>5

\* transaction-reminder.service.ts, for any number of runs and milestones: a run only sends and
\* stamps milestones that exist (RmTypeOK).
THEOREM DeadlinesTyped == RmSpec => []RmTypeOK
<1>1. RmInit => RmTypeOK
  <2>1. RmIdle \in RmTasks
    BY DEF RmIdle, RmTasks
  <2>2. RmInit => rmTask \in [RemindReq -> RmTasks]
    BY <2>1 DEF RmInit
  <2>3. RmInit => rmSent \in [Milestones -> 0..MaxReminders]
    BY RemindersAssumption DEF RmInit
  <2> QED BY <2>2, <2>3 DEF RmInit, RmTypeOK, RmTasks
<1>2. RmTypeOK /\ [RmNext]_rmVars => RmTypeOK'
  <2> SUFFICES ASSUME RmTypeOK, [RmNext]_rmVars PROVE RmTypeOK'
    OBVIOUS
  <2>1. CASE UNCHANGED rmVars
    BY <2>1 DEF RmTypeOK, rmVars
  <2> QED BY <2>1, RmStepTyped DEF RmNext
<1> QED BY <1>1, <1>2, PTL DEF RmSpec

\* The requests and confirmations of a visit, the two jobs and the hours that pass.
LEMMA TrStepTyped == TrTypeOK /\ [TrNext]_trVars => TrTypeOK'
<1> SUFFICES ASSUME TrTypeOK, [TrNext]_trVars PROVE TrTypeOK'
  OBVIOUS
<1>1. CASE UNCHANGED trVars
  BY <1>1 DEF TrTypeOK, trVars
<1>2. CASE createTourRequest
  BY <1>2 DEF TrTypeOK, createTourRequest
<1>3. ASSUME NEW status \in {"CONFIRMED", "CANCELLED"}, updateTourStatus(status) PROVE TrTypeOK'
  BY <1>3 DEF TrTypeOK, updateTourStatus
<1>4. ASSUME NEW i \in TourInstances, sendTourReminders(i) PROVE TrTypeOK'
  <2>1. trDay' \in Nat /\ trHour' \in Nat
    BY <1>4 DEF TrTypeOK, sendTourReminders
  <2> QED BY <1>4, <2>1 DEF TrTypeOK, sendTourReminders
<1>5. CASE quarter
  BY <1>5, ToursAssumption DEF TrTypeOK, quarter
<1> QED BY <1>1, <1>2, <1>3, <1>4, <1>5 DEF TrNext

\* tour-reminder.service.ts, for any number of instances and any time of the visit: the clock
\* stays within the day the model follows (TrTypeOK).
THEOREM ToursTyped == TrSpec => []TrTypeOK
<1>1. TrInit => TrTypeOK
  BY ToursAssumption DEF TrInit, TrTypeOK
<1> QED BY <1>1, TrStepTyped, PTL DEF TrSpec

\* An instance is about to warn once at most of each breach.
Warning == {i \in SlaInstances : tkSla[i].at # "idle"}

\* What a request and a run of the SLA job are about to do.
TkTasks == [op : {"none", "status", "assign", "note"}, target : TicketStatuses, stamp : BOOLEAN]
SlaTasks == [at : {"idle", "flag", "notify"}, agent : BOOLEAN]

\* tkAlerts of the typed invariant: no instance begins another warning once the first has
\* flagged the ticket; so those that have warned, and those that are going to, are different.
TicketTyped ==
    /\ tkStatus \in TicketStatuses \cup {"none"}
    /\ tkAnswered \in BOOLEAN /\ tkResolved \in BOOLEAN /\ tkClosed \in BOOLEAN
    /\ tkAgent \in BOOLEAN /\ tkLate \in BOOLEAN /\ tkBreached \in BOOLEAN
    /\ tkTask \in [TicketReq -> TkTasks]
    /\ tkSla \in [SlaInstances -> SlaTasks]
    /\ tkAlerts \in Nat
    /\ ~tkBreached => tkAlerts = 0 /\ \A i \in SlaInstances : tkSla[i].at # "notify"
    /\ tkAlerts + Cardinality(Warning) <= Cardinality(SlaInstances)

\* There are no more warnings under way than instances.
LEMMA WarningSize ==
    /\ IsFiniteSet(Warning) /\ Cardinality(Warning) \in Nat /\ Cardinality(SlaInstances) \in Nat
    /\ Cardinality(Warning) <= Cardinality(SlaInstances)
  BY TicketsAssumption, FS_Subset, FS_CardinalityType DEF Warning

\* A request on a ticket reads the row first, and remembers a status that exists.
LEMMA ReadTyped ==
  ASSUME TicketTyped, NEW q \in TicketReq, NEW op \in {"status", "assign", "note"},
         NEW target \in TicketStatuses, NEW stamp \in BOOLEAN, ReadTicket(q, op, target, stamp)
  PROVE  TicketTyped'
<1>1. [op |-> op, target |-> target, stamp |-> stamp] \in TkTasks
  BY DEF TkTasks
<1>2. Warning' = Warning
  BY DEF Warning, ReadTicket
<1> QED BY <1>1, <1>2 DEF TicketTyped, ReadTicket

\* updateTicketStatus, assignTicket and addNote: their reads and their writes.
LEMMA RequestTyped ==
  ASSUME TicketTyped, NEW q \in TicketReq,
         \/ updateTicketStatus(q) \/ assignTicket(q) \/ addNote(q)
         \/ writeStatus(q) \/ writeAssignment(q) \/ writeNote(q)
  PROVE  TicketTyped'
<1>0. tkTask[q] \in TkTasks /\ TkIdle \in TkTasks
  BY DEF TicketTyped, TkTasks, TkIdle, TicketStatuses
<1>1. CASE updateTicketStatus(q)
  <2>1. tkStatus \in TicketStatuses
    BY <1>1 DEF TicketTyped, updateTicketStatus
  <2>2. PICK target \in NextStatuses[tkStatus] :
           ReadTicket(q, "status", target, target = "IN_PROGRESS" /\ ~tkAnswered)
    BY <1>1 DEF updateTicketStatus
  <2>3. target \in TicketStatuses
    BY <2>1 DEF NextStatuses, TicketStatuses
  <2>4. (target = "IN_PROGRESS" /\ ~tkAnswered) \in BOOLEAN
    OBVIOUS
  <2> QED BY <2>2, <2>3, <2>4, ReadTyped
<1>2. CASE assignTicket(q)
  <2>1. tkStatus \in TicketStatuses
    BY <1>2 DEF TicketTyped, assignTicket, ReadTicket
  <2>2. (IF tkStatus = "NEW" THEN "IN_PROGRESS" ELSE tkStatus) \in TicketStatuses
    BY <2>1 DEF TicketStatuses
  <2>3. (tkStatus = "NEW") \in BOOLEAN
    OBVIOUS
  <2> QED BY <1>2, <2>2, <2>3, ReadTyped DEF assignTicket
<1>3. CASE addNote(q)
  <2>1. tkStatus \in TicketStatuses
    BY <1>3 DEF TicketTyped, addNote, ReadTicket
  <2>2. (~tkAnswered) \in BOOLEAN
    OBVIOUS
  <2> QED BY <1>3, <2>1, <2>2, ReadTyped DEF addNote
<1>4. CASE writeStatus(q) \/ writeAssignment(q) \/ writeNote(q)
  <2>1. Warning' = Warning /\ UNCHANGED <<tkSla, tkAlerts, tkBreached, tkLate>>
    BY <1>4 DEF Warning, writeStatus, writeAssignment, writeNote
  <2>2. tkTask' \in [TicketReq -> TkTasks]
    BY <1>0, <1>4 DEF TicketTyped, writeStatus, writeAssignment, writeNote
  <2>3. tkStatus' \in TicketStatuses \cup {"none"}
    BY <1>0, <1>4 DEF TicketTyped, TkTasks, writeStatus, writeAssignment, writeNote
  <2>4. tkAnswered' \in BOOLEAN /\ tkResolved' \in BOOLEAN /\ tkClosed' \in BOOLEAN
        /\ tkAgent' \in BOOLEAN
    BY <1>4 DEF TicketTyped, writeStatus, writeAssignment, writeNote
  <2> QED BY <2>1, <2>2, <2>3, <2>4 DEF TicketTyped
<1> QED BY <1>1, <1>2, <1>3, <1>4

\* checkSlaBreaches: an instance moves from those that will warn to those that have.
LEMMA SlaTyped ==
  ASSUME TicketTyped, NEW i \in SlaInstances,
         checkSlaBreaches(i) \/ flagBreach(i) \/ notifyBreach(i)
  PROVE  TicketTyped'
<1>0. /\ tkSla[i] \in SlaTasks /\ SlaIdle \in SlaTasks
      /\ UNCHANGED <<tkStatus, tkAnswered, tkResolved, tkClosed, tkAgent, tkLate, tkTask>>
  BY DEF TicketTyped, SlaTasks, SlaIdle, checkSlaBreaches, flagBreach, notifyBreach
<1>1. CASE checkSlaBreaches(i)
  <2>1. [at |-> "flag", agent |-> tkAgent] \in SlaTasks
    BY DEF TicketTyped, SlaTasks
  <2>2. /\ tkSla' = [tkSla EXCEPT ![i] = [at |-> "flag", agent |-> tkAgent]]
        /\ UNCHANGED <<tkAlerts, tkBreached>> /\ ~tkBreached /\ tkAlerts = 0
    BY <1>1 DEF checkSlaBreaches, TicketTyped
  <2>3. \A k \in SlaInstances : tkSla'[k].at # "notify"
    BY <2>2 DEF TicketTyped
  <2>4. Cardinality(Warning)' <= Cardinality(SlaInstances) /\ Cardinality(Warning)' \in Nat
    BY TicketsAssumption, FS_Subset, FS_CardinalityType DEF Warning
  <2> QED BY <1>0, <2>1, <2>2, <2>3, <2>4 DEF TicketTyped
<1>2. CASE flagBreach(i)
  <2>1. /\ tkSla' = [tkSla EXCEPT ![i] = [tkSla[i] EXCEPT !.at = "notify"]]
        /\ tkSla[i].at = "flag" /\ tkBreached' = TRUE /\ UNCHANGED tkAlerts
    BY <1>2 DEF flagBreach
  <2>2. /\ [tkSla[i] EXCEPT !.at = "notify"] \in SlaTasks
        /\ [tkSla[i] EXCEPT !.at = "notify"].at = "notify"
    BY <1>0 DEF SlaTasks
  <2>3. Warning' = Warning
    BY <2>1 DEF Warning, TicketTyped
  <2> QED BY <1>0, <2>1, <2>2, <2>3 DEF TicketTyped
<1>3. CASE notifyBreach(i)
  <2>1. /\ tkSla' = [tkSla EXCEPT ![i] = SlaIdle] /\ tkSla[i].at = "notify"
        /\ tkBreached' = tkBreached /\ tkBreached
        /\ tkAlerts' \in {tkAlerts, tkAlerts + 1}
    BY <1>3 DEF notifyBreach, TicketTyped
  <2>2. Warning' = Warning \ {i} /\ i \in Warning
    BY <2>1 DEF Warning, TicketTyped, SlaIdle
  <2>3. Cardinality(Warning') = Cardinality(Warning) - 1
    BY <2>2, WarningSize, FS_RemoveElement
  <2>4. tkSla' \in [SlaInstances -> SlaTasks]
    BY <1>0, <2>1 DEF TicketTyped
  <2>5. tkAlerts' \in Nat /\ tkAlerts' + Cardinality(Warning') <= Cardinality(SlaInstances)
    BY <2>1, <2>3, WarningSize DEF TicketTyped
  <2> QED BY <1>0, <2>1, <2>4, <2>5 DEF TicketTyped
<1> QED BY <1>1, <1>2, <1>3

\* support-tickets.service.ts, for any number of requests and instances: statuses exist, and
\* no more breach notifications go out than instances run the job (TkTypeOK).
THEOREM TicketsTyped == TkSpec => []TkTypeOK
<1>1. TkInit => TicketTyped
  <2>1. TkIdle \in TkTasks /\ SlaIdle \in SlaTasks
    BY DEF TkTasks, TkIdle, TicketStatuses, SlaTasks, SlaIdle
  <2>2. TkInit => Cardinality(Warning) <= Cardinality(SlaInstances)
    BY WarningSize
  <2>3. TkInit => tkTask \in [TicketReq -> TkTasks] /\ tkSla \in [SlaInstances -> SlaTasks]
    BY <2>1 DEF TkInit
  <2>4. TkInit => \A i \in SlaInstances : tkSla[i].at # "notify"
    BY DEF TkInit, SlaIdle
  <2>5. TkInit => tkAlerts \in Nat /\ tkAlerts + Cardinality(Warning) <= Cardinality(SlaInstances)
    BY <2>2, WarningSize DEF TkInit
  <2>6. TkInit => /\ tkStatus \in TicketStatuses \cup {"none"} /\ tkAlerts = 0
                  /\ tkAnswered \in BOOLEAN /\ tkResolved \in BOOLEAN /\ tkClosed \in BOOLEAN
                  /\ tkAgent \in BOOLEAN /\ tkLate \in BOOLEAN /\ tkBreached \in BOOLEAN
    BY DEF TkInit
  <2> QED BY <2>3, <2>4, <2>5, <2>6 DEF TicketTyped
<1>2. TicketTyped /\ [TkNext]_tkVars => TicketTyped'
  <2> SUFFICES ASSUME TicketTyped, [TkNext]_tkVars PROVE TicketTyped'
    OBVIOUS
  <2>1. CASE UNCHANGED tkVars
    BY <2>1 DEF TicketTyped, tkVars, Warning
  <2>2. CASE createTicket \/ deadlinePasses
    BY <2>2 DEF TicketTyped, TicketStatuses, createTicket, deadlinePasses, Warning
  <2> QED BY <2>1, <2>2, RequestTyped, SlaTyped DEF TkNext
<1>3. TicketTyped => TkTypeOK
  <2>1. TicketTyped => tkAlerts \in 0..Cardinality(SlaInstances)
    BY WarningSize DEF TicketTyped
  <2> QED BY <2>1 DEF TicketTyped, TkTypeOK, TkTasks, SlaTasks
<1> QED BY <1>1, <1>2, <1>3, PTL DEF TkSpec

\* No timer, or one timer, is the registered one.
TimerTyped ==
    /\ bsEnabled \in BOOLEAN /\ bsOverlap \in BOOLEAN /\ bsFailed \in BOOLEAN
    /\ bsTask \in [Updates -> {"new", "stop", "read", "start", "done"}]
    /\ bsRead \in [Updates -> BOOLEAN]
    /\ bsTimers \subseteq Updates /\ bsCurrent \subseteq bsTimers
    /\ bsCurrent = {} \/ \E u \in Updates : bsCurrent = {u}

\* backup.service.ts: for any number of overlapping updates of the schedule, the registry names
\* at most one of the timers that run (BsTypeOK).
THEOREM TimersTyped == BsSpec => []BsTypeOK
<1>1. BsInit => TimerTyped
  BY DEF BsInit, TimerTyped
<1>2. TimerTyped /\ [BsNext]_bsVars => TimerTyped'
  <2> SUFFICES ASSUME TimerTyped, [BsNext]_bsVars PROVE TimerTyped'
    OBVIOUS
  <2>1. CASE UNCHANGED bsVars
    BY <2>1 DEF TimerTyped, bsVars
  <2>2. ASSUME NEW u \in Updates, NEW enabled \in BOOLEAN, updateSchedule(u, enabled)
        PROVE  TimerTyped'
    BY <2>2 DEF TimerTyped, updateSchedule
  <2>3. ASSUME NEW u \in Updates, refreshSchedule(u) PROVE TimerTyped'
    BY <2>3 DEF TimerTyped, refreshSchedule
  <2>4. ASSUME NEW u \in Updates, getScheduleConfig(u) PROVE TimerTyped'
    <3>1. bsRead' \in [Updates -> BOOLEAN]
      BY <2>4 DEF TimerTyped, getScheduleConfig
    <3> QED BY <2>4, <3>1 DEF TimerTyped, getScheduleConfig
  <2>5. ASSUME NEW u \in Updates, startJob(u) PROVE TimerTyped'
    <3>1. CASE bsRead[u]
      BY <2>5, <3>1 DEF TimerTyped, startJob
    <3>2. CASE ~bsRead[u]
      BY <2>5, <3>2 DEF TimerTyped, startJob
    <3> QED BY <3>1, <3>2
  <2> QED BY <2>1, <2>2, <2>3, <2>4, <2>5 DEF BsNext
<1>3. TimerTyped => BsTypeOK
  <2>1. Cardinality({}) = 0 /\ \A u : Cardinality({u}) = 1
    BY FS_EmptySet, FS_Singleton
  <2>2. bsCurrent = {} => Cardinality(bsCurrent) = 0
    BY <2>1
  <2>3. \A u : bsCurrent = {u} => Cardinality(bsCurrent) = 1
    BY <2>1
  <2>4. TimerTyped => Cardinality(bsCurrent) = 0 \/ Cardinality(bsCurrent) = 1
    BY <2>2, <2>3 DEF TimerTyped
  <2>5. TimerTyped => Cardinality(bsCurrent) <= 1
    BY <2>4
  <2> QED BY <2>5 DEF TimerTyped, BsTypeOK
<1> QED BY <1>1, <1>2, <1>3, PTL DEF BsSpec

\* A finite set of numbers that is not empty has a greatest one.
LEMMA GreatestExists ==
  ASSUME NEW S \in SUBSET Nat, IsFiniteSet(S), S # {}
  PROVE  \E x \in S : \A y \in S : y <= x
<1> DEFINE Above(x) == {y \in S : y > x}
           Aboves == {Above(x) : x \in S}
<1>1. Aboves \subseteq FiniteSubsetsOf(S) /\ Aboves # {}
  <2>1. \A x \in S : IsFiniteSet(Above(x))
    BY FS_Subset
  <2> QED BY <2>1 DEF FiniteSubsetsOf
<1>2. PICK A \in Aboves : \A B \in Aboves : ~(<<B, A>> \in StrictSubsetOrdering(S))
  <2> HIDE DEF Aboves
  <2> QED BY <1>1, FS_StrictSubsetOrderingWellFounded, WFMin
<1>3. PICK x \in S : A = Above(x)
  OBVIOUS
<1>4. ASSUME NEW y \in S, ~(y <= x) PROVE FALSE
  <2>0. y > x /\ \A z \in S : z \in Nat /\ ~(y > y)
    BY <1>4
  <2>1. Above(y) \subseteq Above(x) /\ y \in Above(x) /\ y \notin Above(y)
    <3>1. \A z \in S : z > y => z > x
      BY <2>0
    <3> QED BY <2>0, <3>1
  <2>2. <<Above(y), Above(x)>> \in StrictSubsetOrdering(S)
    <3>1. Above(y) \in SUBSET S /\ Above(x) \in SUBSET S /\ Above(y) # Above(x)
      BY <2>1
    <3> HIDE DEF Above
    <3> QED BY <2>1, <3>1 DEF StrictSubsetOrdering
  <2>3. Above(y) \in Aboves
    OBVIOUS
  <2> QED BY <1>2, <1>3, <2>2, <2>3
<1> QED BY <1>3, <1>4

\* What a run of the archive job is about to do.
ArTasks == [job : 0..3, second : 0..MaxSeconds, step : {"idle", "open", "fetch", "delete", "end"},
            cutoff : SUBSET Records, cursor : Records \cup {0}, batch : SUBSET Records,
            shared : BOOLEAN]

\* A run that is under way is at one of the three tables and began in some second, and it
\* deletes at least one row.
UnderWay(n) ==
    /\ n.step # "idle" => n.job \in 1..3 /\ n.second \in Seconds
    /\ n.step = "delete" => n.batch # {}

ArchiveTyped == ArTypeOK /\ \A a \in Archivers : UnderWay(arTask[a])

\* One run goes on to another step, and writes rows and files of the table.
LEMMA ArRunTyped ==
  ASSUME ArchiveTyped, NEW a \in Archivers, NEW n \in ArTasks, UnderWay(n),
         arTask' = [arTask EXCEPT ![a] = n],
         arDb' \subseteq Records, arFiles' \in [Seconds -> SUBSET Records],
         arBroken' \subseteq Records, arLost' \subseteq Records,
         arDoubled' \in BOOLEAN, arSecond' \in 0..MaxSeconds,
         NEW S \in SUBSET Records, arStream' = [arStream EXCEPT ![a] = S],
         UNCHANGED <<arOld, arBack>>
  PROVE  ArchiveTyped'
<1>1. arTask \in [Archivers -> ArTasks]
  BY DEF ArchiveTyped, ArTypeOK, ArTasks
<1>2. arTask' \in [Archivers -> ArTasks] /\ arStream' \in [Archivers -> SUBSET Records]
  BY <1>1 DEF ArchiveTyped, ArTypeOK
<1>3. \A b \in Archivers : arTask'[b] = IF b = a THEN n ELSE arTask[b]
  BY <1>1
<1>4. \A b \in Archivers : UnderWay(arTask'[b])
  BY <1>3 DEF ArchiveTyped
<1>5. arOld' \subseteq Records /\ arBack' \in 0..MaxRestores
  BY DEF ArchiveTyped, ArTypeOK
<1> QED BY <1>2, <1>4, <1>5 DEF ArchiveTyped, ArTypeOK, ArTasks

LEMMA ArIdleTyped == ArIdle \in ArTasks /\ UnderWay(ArIdle)
BY ArchiveAssumption DEF ArIdle, ArTasks, UnderWay

\* A run that is through with a table begins the next one, or ends after the third.
LEMMA NextTableTyped ==
  ASSUME ArchiveTyped, NEW a \in Archivers, NextTable(a), arTask[a].step # "idle"
  PROVE  \E n \in ArTasks : UnderWay(n) /\ arTask' = [arTask EXCEPT ![a] = n]
<1>1. Len(ArchiveOrder) = 3
  BY DEF ArchiveOrder
<1>2. arTask[a].job \in 1..3 /\ arTask[a].second \in Seconds /\ arTask[a].cutoff \subseteq Records
  BY DEF ArchiveTyped, ArTypeOK, UnderWay
<1>3. CASE arTask[a].job = 3
  <2>1. ArIdle \in ArTasks /\ UnderWay(ArIdle)
    BY ArIdleTyped
  <2> QED BY <1>1, <1>3, <2>1 DEF NextTable
<1>4. CASE arTask[a].job # 3
  <2> DEFINE n == TableStart(arTask[a].job + 1, arTask[a].second, arTask[a].cutoff)
  <2>1. n \in ArTasks /\ UnderWay(n)
    BY <1>2, <1>4 DEF TableStart, ArTasks, UnderWay, Seconds
  <2>2. arTask' = [arTask EXCEPT ![a] = n]
    BY <1>1, <1>4 DEF NextTable
  <2> QED BY <2>1, <2>2
<1> QED BY <1>3, <1>4

\* The truncated file leaves the other files, and the open streams are told.
LEMMA OpenTyped ==
  ASSUME ArchiveTyped, NEW a \in Archivers, openArchive(a)
  PROVE  ArchiveTyped'
<1>1. /\ arTask \in [Archivers -> ArTasks] /\ arTask[a].second \in Seconds
      /\ arFiles \in [Seconds -> SUBSET Records]
  BY DEF ArchiveTyped, ArTypeOK, ArTasks, openArchive, UnderWay
<1>2. \A b \in Archivers : arTask'[b] \in ArTasks /\ UnderWay(arTask'[b])
  <2> SUFFICES ASSUME NEW b \in Archivers PROVE arTask'[b] \in ArTasks /\ UnderWay(arTask'[b])
    OBVIOUS
  <2> DEFINE t == arTask[b]
  <2>1. t \in ArTasks /\ UnderWay(t)
    BY <1>1 DEF ArchiveTyped
  <2>2. \E v \in BOOLEAN : \/ arTask'[b] = [t EXCEPT !.step = "fetch", !.shared = v] /\ t.step = "open"
                           \/ arTask'[b] = [t EXCEPT !.shared = v]
                           \/ arTask'[b] = t
    BY DEF openArchive
  <2> HIDE DEF t
  <2>3. ASSUME NEW v \in BOOLEAN
        PROVE  /\ [t EXCEPT !.shared = v] \in ArTasks /\ UnderWay([t EXCEPT !.shared = v])
               /\ t.step = "open" => LET n == [t EXCEPT !.step = "fetch", !.shared = v]
                                     IN  n \in ArTasks /\ UnderWay(n)
    BY <2>1 DEF ArTasks, UnderWay
  <2> QED BY <2>1, <2>2, <2>3
<1>3. arTask' \in [Archivers -> ArTasks]
  BY <1>2 DEF openArchive
<1>4. FileRows(a) \subseteq Records /\ arFiles' \in [Seconds -> SUBSET Records]
  BY <1>1 DEF openArchive, FileRows
<1>5. /\ arDb' \subseteq Records /\ arOld' \subseteq Records /\ arBroken' \subseteq Records
      /\ arLost' \subseteq Records /\ arDoubled' \in BOOLEAN /\ arSecond' \in 0..MaxSeconds
      /\ arStream' \in [Archivers -> SUBSET Records] /\ arBack' \in 0..MaxRestores
  BY <1>4 DEF openArchive, ArchiveTyped, ArTypeOK
<1> QED BY <1>2, <1>3, <1>4, <1>5 DEF ArchiveTyped, ArTypeOK, ArTasks

\* runArchival: its queries, streams and deletes, and the ways it fails.
LEMMA ArStepTyped ==
  ASSUME ArchiveTyped, NEW a \in Archivers,
         \/ runArchival(a) \/ openArchive(a) \/ archiveBatch(a) \/ deleteBatch(a)
         \/ endArchive(a) \/ archiveFails(a) \/ archiverDies(a)
  PROVE  ArchiveTyped'
<1>0. /\ arTask \in [Archivers -> ArTasks] /\ arTask[a] \in ArTasks /\ UnderWay(arTask[a])
      /\ arStream \in [Archivers -> SUBSET Records] /\ arStream[a] \in SUBSET Records
      /\ arDb \subseteq Records /\ arOld \subseteq Records
      /\ arFiles \in [Seconds -> SUBSET Records] /\ arBroken \subseteq Records
      /\ arLost \subseteq Records /\ arDoubled \in BOOLEAN /\ arSecond \in 0..MaxSeconds
  BY DEF ArchiveTyped, ArTypeOK, ArTasks
<1>1. arStream = [arStream EXCEPT ![a] = arStream[a]]
  BY <1>0
<1>2. CASE runArchival(a)
  <2>1. PICK second \in Seconds : /\ arTask' = [arTask EXCEPT ![a] = TableStart(1, second, arOld)]
                                  /\ arSecond' = second
    BY <1>2 DEF runArchival
  <2> DEFINE n == TableStart(1, second, arOld)
  <2>2. n \in ArTasks /\ UnderWay(n)
    BY <1>0 DEF TableStart, ArTasks, UnderWay, Seconds
  <2>3. /\ arTask' = [arTask EXCEPT ![a] = n]
        /\ arStream' = [arStream EXCEPT ![a] = arStream[a]]
        /\ UNCHANGED <<arDb, arOld, arFiles, arBroken, arLost, arBack>>
    BY <1>1, <1>2, <2>1 DEF runArchival
  <2>4. arDoubled' \in BOOLEAN /\ arSecond' \in 0..MaxSeconds
    BY <1>2, <2>1 DEF runArchival, Seconds
  <2> HIDE DEF n
  <2> QED BY <1>0, <2>2, <2>3, <2>4, ArRunTyped
<1>3. CASE archiveBatch(a)
  <2> DEFINE batch == FetchBatch(a)
             n == [arTask[a] EXCEPT !.step = IF batch = {} THEN "end" ELSE "delete",
                                    !.batch = batch]
  <2>1. batch \subseteq Records
    BY <1>0 DEF FetchBatch
  <2>2. arTask[a].step = "fetch"
    BY <1>3 DEF archiveBatch
  <2> HIDE DEF batch
  <2>3. n \in ArTasks /\ UnderWay(n)
    BY <1>0, <2>1, <2>2 DEF ArTasks, UnderWay
  <2>4. /\ arTask' = [arTask EXCEPT ![a] = n]
        /\ arStream' = [arStream EXCEPT ![a] = arStream[a] \cup batch]
        /\ UNCHANGED <<arDb, arOld, arSecond, arFiles, arBroken, arLost, arDoubled, arBack>>
    BY <1>3 DEF archiveBatch, batch
  <2>5. arStream[a] \cup batch \in SUBSET Records
    BY <1>0, <2>1
  <2> HIDE DEF n
  <2> QED BY <1>0, <2>3, <2>4, <2>5, ArRunTyped
<1>4. CASE deleteBatch(a)
  <2> DEFINE batch == arTask[a].batch
             step == IF Cardinality(batch) < ArBatchSize THEN "end" ELSE "fetch"
             n == [arTask[a] EXCEPT !.step = step, !.cursor = LastId(batch), !.batch = {}]
  <2>1. LastId(batch) \in Records
    <3>1. batch \in SUBSET Records /\ batch # {}
      BY <1>0, <1>4 DEF deleteBatch, UnderWay, ArTasks
    <3>2. batch \in SUBSET Nat /\ IsFiniteSet(batch)
      BY <3>1, ArchiveAssumption, FS_Subset
    <3>3. \E x \in batch : \A y \in batch : y <= x
      BY <3>1, <3>2, GreatestExists
    <3> QED BY <3>1, <3>3 DEF LastId
  <2>2. arTask[a].step = "delete"
    BY <1>4 DEF deleteBatch
  <2>3. n \in ArTasks /\ UnderWay(n)
    BY <1>0, <2>1, <2>2 DEF ArTasks, UnderWay
  <2>4. /\ arTask' = [arTask EXCEPT ![a] = n]
        /\ arDb' \subseteq arDb
        /\ UNCHANGED <<arOld, arSecond, arFiles, arStream, arBroken, arLost, arDoubled, arBack>>
    BY <1>4 DEF deleteBatch, AfterDelete
  <2>5. arStream' = [arStream EXCEPT ![a] = arStream[a]]
    BY <1>1, <2>4
  <2> HIDE DEF n
  <2> QED BY <1>0, <2>3, <2>4, <2>5, ArRunTyped
<1>5. CASE endArchive(a) \/ archiveFails(a) \/ archiverDies(a)
  <2>1. PICK n \in ArTasks : UnderWay(n) /\ arTask' = [arTask EXCEPT ![a] = n]
    <3>1. CASE endArchive(a) \/ archiveFails(a)
      <4>1. NextTable(a) /\ arTask[a].step # "idle"
        BY <3>1 DEF endArchive, archiveFails
      <4> QED BY <4>1, NextTableTyped
    <3>2. CASE archiverDies(a)
      BY <3>2, ArIdleTyped DEF archiverDies
    <3> QED BY <1>5, <3>1, <3>2
  <2>2. /\ arStream' = [arStream EXCEPT ![a] = {}]
        /\ arDb' \subseteq Records /\ arBroken' \subseteq Records
        /\ arDoubled' \in BOOLEAN /\ arSecond' \in 0..MaxSeconds
        /\ UNCHANGED <<arOld, arBack>>
    BY <1>0, <1>5 DEF endArchive, archiveFails, archiverDies
  <2>4. arFiles' \in [Seconds -> SUBSET Records] /\ arLost' \subseteq Records
    <3>1. CASE endArchive(a)
      <4>1. arTask[a].second \in Seconds
        BY <1>0, <3>1 DEF endArchive, UnderWay
      <4>2. FileRows(a) \subseteq Records
        BY <1>0, <4>1 DEF FileRows
      <4>3. \A rows \in Endings(a) : rows \subseteq Records
        BY <1>0, <4>2 DEF Endings
      <4> QED BY <1>0, <3>1, <4>1, <4>2, <4>3 DEF endArchive
    <3>2. CASE archiveFails(a) \/ archiverDies(a)
      BY <1>0, <3>2 DEF archiveFails, archiverDies
    <3> QED BY <1>5, <3>1, <3>2
  <2>3. {} \in SUBSET Records
    OBVIOUS
  <2> QED BY <2>1, <2>2, <2>3, <2>4, ArRunTyped
<1>6. CASE openArchive(a)
  BY <1>6, OpenTyped
<1> QED BY <1>2, <1>3, <1>4, <1>5, <1>6

\* Whatever the runs do, and when rows age and come back.
LEMMA ArchiveStepTyped ==
  ASSUME ArchiveTyped, [ArNext]_arVars
  PROVE  ArchiveTyped'
<1>1. CASE UNCHANGED arVars
  BY <1>1 DEF ArchiveTyped, ArTypeOK, UnderWay, arVars
<1>2. ASSUME NEW x \in Records, rowAges(x) \/ restoreFromArchive(x) PROVE ArchiveTyped'
  <2>1. arBack' \in 0..MaxRestores
    BY <1>2, ArchiveAssumption DEF rowAges, restoreFromArchive, ArchiveTyped, ArTypeOK
  <2>2. /\ arDb' \subseteq Records /\ arOld' \subseteq Records
        /\ UNCHANGED <<arTask, arSecond, arStream, arFiles, arBroken, arLost, arDoubled>>
    BY <1>2 DEF rowAges, restoreFromArchive, ArchiveTyped, ArTypeOK
  <2> QED BY <2>1, <2>2 DEF ArchiveTyped, ArTypeOK, UnderWay
<1> QED BY <1>1, <1>2, ArStepTyped DEF ArNext

LEMMA ArchiveInitTyped == ArInit => ArchiveTyped
<1> SUFFICES ASSUME ArInit PROVE ArchiveTyped
  OBVIOUS
<1>1. arTask \in [Archivers -> ArTasks] /\ \A a \in Archivers : UnderWay(arTask[a])
  BY ArIdleTyped DEF ArInit
<1>2. arBack \in 0..MaxRestores /\ arSecond \in 0..MaxSeconds
  BY ArchiveAssumption DEF ArInit
<1>3. arFiles \in [Seconds -> SUBSET Records] /\ arStream \in [Archivers -> SUBSET Records]
  BY DEF ArInit
<1> QED BY <1>1, <1>2, <1>3 DEF ArInit, ArchiveTyped, ArTypeOK, ArTasks

\* archive.service.ts, for any rows and any number of runs: the cursor of a run is the
\* last row it deleted, so that a page always has one (ArTypeOK).
THEOREM ArchivesTyped == ArSpec => []ArTypeOK
<1>1. ArchiveTyped /\ [ArNext]_arVars => ArchiveTyped'
  BY ArchiveStepTyped
<1>2. ArchiveTyped => ArTypeOK
  BY DEF ArchiveTyped
<1> QED BY ArchiveInitTyped, <1>1, <1>2, PTL DEF ArSpec

\* A batch that is about to be deleted is in the stream of its run, and what is no longer
\* in the database is in a stream or a file, or was in a file that is gone.
BatchesWritten ==
    /\ \A a \in Archivers : arTask[a].step = "delete" => arTask[a].batch \subseteq arStream[a]
    /\ \A x \in Records \ arDb :
          \/ \E s \in Seconds : x \in arFiles[s]
          \/ x \in arBroken \/ (\E a \in Archivers : x \in arStream[a]) \/ x \in arLost

\* The run n, whose stream holds S, has its files to itself: the files of the tables it has
\* not ended are empty.
OwnFiles(n, S, files, second) ==
    /\ n.step \in {"idle", "open"} => S = {}
    /\ n.step # "idle" =>
          /\ n.second <= second /\ ~n.shared
          /\ \A x \in files[n.second] : \A k \in n.job..3 : RecordTable[x] # ArchiveOrder[k]
          /\ \A x \in S : RecordTable[x] = ArchiveOrder[n.job]

\* As long as no two runs began in one second, no file is written by two.
FilesOwned ==
    ~arDoubled =>
       /\ arLost = {}
       /\ \A s \in Seconds : s > arSecond => arFiles[s] = {}
       /\ \A a \in Archivers : OwnFiles(arTask[a], arStream[a], arFiles, arSecond)
       /\ \A a, b \in Archivers :
             a # b /\ arTask[a].step # "idle" /\ arTask[b].step # "idle"
                => arTask[a].second # arTask[b].second

\* What a step of run a makes of its own record, stream and file.
LEMMA OwnStep ==
  ASSUME ArchiveTyped, FilesOwned, ~arDoubled, NEW a \in Archivers, arTask[a].step # "idle",
         NEW n, NEW S, n.step # "idle" => n.second = arTask[a].second,
         \A b \in Archivers : arTask'[b] = IF b = a THEN n ELSE arTask[b],
         \A b \in Archivers : arStream'[b] = IF b = a THEN S ELSE arStream[b],
         \A s \in Seconds : s # arTask[a].second => arFiles'[s] = arFiles[s],
         OwnFiles(n, S, arFiles', arSecond), arLost' = {}, arSecond' = arSecond
  PROVE  FilesOwned'
<1>1. /\ arTask[a].second \in Seconds /\ arTask[a].second <= arSecond /\ arSecond \in Int
      /\ \A s \in Seconds : s \in Int
  BY DEF ArchiveTyped, ArTypeOK, UnderWay, FilesOwned, OwnFiles, Seconds
<1>2. \A s \in Seconds : s > arSecond' => arFiles'[s] = {}
  BY <1>1 DEF FilesOwned
<1>3. ASSUME NEW b \in Archivers, b # a
      PROVE  /\ arTask'[b] = arTask[b] /\ arStream'[b] = arStream[b]
             /\ arTask[b].step # "idle" => /\ arTask[b].second # arTask[a].second
                                           /\ arFiles'[arTask[b].second] = arFiles[arTask[b].second]
  BY <1>3 DEF FilesOwned, ArchiveTyped, UnderWay
<1>4. ASSUME NEW b \in Archivers PROVE OwnFiles(arTask'[b], arStream'[b], arFiles', arSecond')
  <2>1. CASE b = a
    BY <2>1
  <2>2. CASE b # a
    BY <1>3, <2>2 DEF FilesOwned, OwnFiles
  <2> QED BY <2>1, <2>2
<1>5. \A b, c \in Archivers : b # c /\ arTask'[b].step # "idle" /\ arTask'[c].step # "idle"
                                 => arTask'[b].second # arTask'[c].second
  BY <1>3 DEF FilesOwned
<1> QED BY <1>2, <1>4, <1>5 DEF FilesOwned

\* The run begins in a second of its own, or two began in it.
LEMMA OwnBegins ==
  ASSUME ArchiveTyped, FilesOwned, NEW a \in Archivers, runArchival(a)
  PROVE  FilesOwned'
<1> SUFFICES ASSUME ~arDoubled' PROVE FilesOwned'
  BY DEF FilesOwned
<1>1. PICK s \in Seconds : /\ s \in {arSecond, arSecond + 1} /\ arSecond' = s
                           /\ arTask' = [arTask EXCEPT ![a] = TableStart(1, s, arOld)]
                           /\ s # arSecond
  BY DEF runArchival
<1>2. ~arDoubled /\ UNCHANGED <<arStream, arFiles, arLost>>
  BY DEF runArchival
<1>3. s = arSecond + 1 /\ arSecond \in Int /\ \A r \in Seconds : r \in Int
  BY <1>1 DEF ArchiveTyped, ArTypeOK, Seconds
<1>4. /\ arFiles[s] = {} /\ arStream[a] = {}
  BY <1>2, <1>3 DEF FilesOwned, OwnFiles, runArchival
<1>5. \A b \in Archivers : /\ b # a => arTask'[b] = arTask[b]
                           /\ arTask[b].step # "idle" => arTask[b].second < s /\ arTask[b].second \in Int
  BY <1>1, <1>2, <1>3 DEF FilesOwned, OwnFiles, ArchiveTyped, ArTypeOK, UnderWay
<1>6. arTask'[a] = TableStart(1, s, arOld)
  BY <1>1 DEF ArchiveTyped, ArTypeOK
<1>7. OwnFiles(arTask'[a], arStream'[a], arFiles', arSecond')
  BY <1>1, <1>2, <1>3, <1>4, <1>6 DEF OwnFiles, TableStart
<1>8. ASSUME NEW b \in Archivers, b # a PROVE OwnFiles(arTask'[b], arStream'[b], arFiles', arSecond')
  <2>1. arTask[b].step # "idle" => arTask[b].second <= s
    BY <1>3, <1>5
  <2> QED BY <1>1, <1>2, <1>5, <1>8, <2>1 DEF FilesOwned, OwnFiles
<1>9. arTask'[a].second = s
  BY <1>6 DEF TableStart
<1>10. \A b, c \in Archivers : b # c /\ arTask'[b].step # "idle" /\ arTask'[c].step # "idle"
                                 => arTask'[b].second # arTask'[c].second
  BY <1>2, <1>3, <1>5, <1>9 DEF FilesOwned
<1>11. arLost' = {} /\ \A r \in Seconds : r > arSecond' => arFiles'[r] = {}
  <2>1. arLost = {} /\ \A r \in Seconds : r > arSecond => arFiles[r] = {}
    BY <1>2 DEF FilesOwned
  <2>2. \A r \in Seconds : r > arSecond' => r > arSecond
    BY <1>1, <1>3
  <2> QED BY <1>2, <2>1, <2>2
<1> QED BY <1>7, <1>8, <1>10, <1>11 DEF FilesOwned

LEMMA OwnKept ==
  ASSUME ArchiveTyped, FilesOwned, NEW a \in Archivers,
         \/ runArchival(a) \/ openArchive(a) \/ archiveBatch(a) \/ deleteBatch(a)
         \/ endArchive(a) \/ archiveFails(a) \/ archiverDies(a)
  PROVE  FilesOwned'
<1>1. CASE runArchival(a)
  BY <1>1, OwnBegins
<1> SUFFICES ASSUME ~runArchival(a), ~arDoubled' PROVE FilesOwned'
  BY <1>1 DEF FilesOwned
<1> DEFINE t == arTask[a]
           s == t.second
<1>2. /\ ~arDoubled /\ t.step # "idle" /\ arSecond' = arSecond /\ arLost = {}
      /\ OwnFiles(t, arStream[a], arFiles, arSecond)
  <2>1. arTask[a].step # "idle" /\ arSecond' = arSecond /\ arDoubled' = arDoubled
    BY DEF openArchive, archiveBatch, deleteBatch, endArchive, archiveFails, archiverDies
  <2> QED BY <2>1 DEF FilesOwned
<1>3. /\ t \in ArTasks /\ s \in Seconds /\ t.job \in 1..3 /\ arTask \in [Archivers -> ArTasks]
      /\ arStream \in [Archivers -> SUBSET Records] /\ arFiles \in [Seconds -> SUBSET Records]
  BY <1>2 DEF ArchiveTyped, ArTypeOK, ArTasks, UnderWay
<1>4. FileRows(a) = {}
  BY <1>2, <1>3 DEF FileRows, OwnFiles
<1>5. CASE openArchive(a)
  <2> DEFINE n == [t EXCEPT !.step = "fetch", !.shared = FALSE]
  <2>1. \A b \in Archivers : ~SameFileOpen(a, b)
    BY <1>2 DEF SameFileOpen, FilesOwned
  <2>2. {b \in Archivers : SameFileOpen(a, b)} = {}
    BY <2>1
  <2>3. \A b \in Archivers : arTask'[b] = IF b = a THEN n ELSE arTask[b]
    BY <1>5, <2>2 DEF openArchive
  <2>4. arLost' = {} /\ arStream' = arStream /\ arFiles' = arFiles
    BY <1>2, <1>3, <1>4, <1>5 DEF openArchive
  <2>5. n.second = s /\ n.step = "fetch" /\ n.job = t.job /\ ~n.shared
    BY <1>3 DEF ArTasks
  <2> HIDE DEF n
  <2>6. OwnFiles(n, arStream[a], arFiles', arSecond)
    BY <1>2, <2>4, <2>5 DEF OwnFiles
  <2>7. \A b \in Archivers : arStream'[b] = IF b = a THEN arStream[a] ELSE arStream[b]
    BY <2>4
  <2> QED BY <1>2, <2>3, <2>4, <2>5, <2>6, <2>7, OwnStep
<1>6. CASE archiveBatch(a)
  <2> DEFINE batch == FetchBatch(a)
             n == [t EXCEPT !.step = IF batch = {} THEN "end" ELSE "delete", !.batch = batch]
             S == arStream[a] \cup batch
  <2>1. \A x \in batch : RecordTable[x] = ArchiveOrder[t.job]
    BY DEF FetchBatch
  <2>2. /\ \A b \in Archivers : arTask'[b] = IF b = a THEN n ELSE arTask[b]
        /\ \A b \in Archivers : arStream'[b] = IF b = a THEN S ELSE arStream[b]
    BY <1>3, <1>6 DEF archiveBatch
  <2>3. arLost' = {} /\ arFiles' = arFiles
    BY <1>2, <1>6 DEF archiveBatch
  <2> HIDE DEF batch
  <2>4. n.second = s /\ n.step \in {"end", "delete"} /\ n.job = t.job /\ n.shared = t.shared
    BY <1>3 DEF ArTasks
  <2> HIDE DEF n
  <2>5. OwnFiles(n, S, arFiles', arSecond)
    BY <1>2, <2>1, <2>3, <2>4 DEF OwnFiles
  <2> HIDE DEF S
  <2> QED BY <1>2, <2>2, <2>3, <2>4, <2>5, OwnStep
<1>7. CASE deleteBatch(a)
  <2> DEFINE step == IF Cardinality(t.batch) < ArBatchSize THEN "end" ELSE "fetch"
             n == [t EXCEPT !.step = step, !.cursor = LastId(t.batch), !.batch = {}]
  <2>1. \A b \in Archivers : arTask'[b] = IF b = a THEN n ELSE arTask[b]
    BY <1>3, <1>7 DEF deleteBatch, AfterDelete
  <2>2. arLost' = {} /\ arFiles' = arFiles /\ arStream' = arStream
    BY <1>2, <1>7 DEF deleteBatch
  <2>3. step \in {"end", "fetch"}
    OBVIOUS
  <2> HIDE DEF step
  <2>4. n.second = s /\ n.step = step /\ n.job = t.job /\ n.shared = t.shared
    BY <1>3 DEF ArTasks
  <2> HIDE DEF n
  <2>5. OwnFiles(n, arStream[a], arFiles', arSecond)
    BY <1>2, <2>2, <2>3, <2>4 DEF OwnFiles
  <2>6. \A b \in Archivers : arStream'[b] = IF b = a THEN arStream[a] ELSE arStream[b]
    BY <2>2
  <2> QED BY <1>2, <2>1, <2>2, <2>4, <2>5, <2>6, OwnStep
<1>8. CASE endArchive(a) \/ archiveFails(a) \/ archiverDies(a)
  <2>1. PICK n : /\ arTask' = [arTask EXCEPT ![a] = n]
                 /\ n.step = "idle" \/ n = TableStart(t.job + 1, s, t.cutoff)
    BY <1>8 DEF endArchive, archiveFails, archiverDies, NextTable, ArIdle
  <2>2. /\ \A b \in Archivers : arTask'[b] = IF b = a THEN n ELSE arTask[b]
        /\ \A b \in Archivers : arStream'[b] = IF b = a THEN {} ELSE arStream[b]
    BY <1>3, <1>8, <2>1 DEF endArchive, archiveFails, archiverDies
  <2>3. /\ arLost' = {} /\ \A r \in Seconds : r # s => arFiles'[r] = arFiles[r]
        /\ arFiles'[s] \subseteq arFiles[s] \cup arStream[a]
    <3>1. CASE endArchive(a)
      <4>1. Endings(a) = {arStream[a]}
        BY <1>2 DEF Endings, OwnFiles
      <4> QED BY <1>2, <1>3, <1>4, <3>1, <4>1 DEF endArchive
    <3>2. CASE archiveFails(a) \/ archiverDies(a)
      BY <1>2, <3>2 DEF archiveFails, archiverDies
    <3> QED BY <1>8, <3>1, <3>2
  <2>4. ASSUME n.step # "idle" PROVE n.second = s /\ n.step = "open" /\ n.job = t.job + 1 /\ ~n.shared
    BY <2>1, <2>4 DEF TableStart
  <2>5. \A x \in arFiles'[s] : \A k \in (t.job + 1)..3 : RecordTable[x] # ArchiveOrder[k]
    <3>1. \A k \in (t.job + 1)..3 : k \in t.job..3 /\ ArchiveOrder[k] # ArchiveOrder[t.job]
      BY <1>3 DEF ArchiveOrder
    <3>2. \A x \in arFiles[s] : \A k \in t.job..3 : RecordTable[x] # ArchiveOrder[k]
      BY <1>2 DEF OwnFiles
    <3>3. \A x \in arStream[a] : RecordTable[x] = ArchiveOrder[t.job]
      BY <1>2 DEF OwnFiles
    <3> QED BY <2>3, <3>1, <3>2, <3>3
  <2>6. OwnFiles(n, {}, arFiles', arSecond)
    BY <1>2, <2>4, <2>5 DEF OwnFiles
  <2> QED BY <1>2, <2>2, <2>3, <2>4, <2>6, OwnStep
<1> QED BY <1>5, <1>6, <1>7, <1>8

\* A row leaves the database after its batch went to the stream, and a stream its run when
\* its rows went to a file.
LEMMA WrittenKept ==
  ASSUME ArchiveTyped, BatchesWritten, NEW a \in Archivers,
         \/ runArchival(a) \/ openArchive(a) \/ archiveBatch(a) \/ deleteBatch(a)
         \/ endArchive(a) \/ archiveFails(a) \/ archiverDies(a)
  PROVE  BatchesWritten'
<1>1. /\ arTask \in [Archivers -> ArTasks] /\ arTask[a] \in ArTasks
      /\ arStream \in [Archivers -> SUBSET Records] /\ arFiles \in [Seconds -> SUBSET Records]
      /\ UnderWay(arTask[a])
  BY DEF ArchiveTyped, ArTypeOK, ArTasks
<1> DEFINE t == arTask[a]
           Placed(x) == \/ \E s \in Seconds : x \in arFiles[s]
                        \/ x \in arBroken \/ (\E b \in Archivers : x \in arStream[b]) \/ x \in arLost
           Placed1(x) == \/ \E s \in Seconds : x \in arFiles'[s]
                         \/ x \in arBroken' \/ (\E b \in Archivers : x \in arStream'[b]) \/ x \in arLost'
<1>2. \A b \in Archivers : b # a => /\ arTask'[b].step = arTask[b].step
                                    /\ arTask'[b].batch = arTask[b].batch
                                    /\ arStream'[b] = arStream[b]
  <2>1. CASE openArchive(a)
    <3> SUFFICES ASSUME NEW b \in Archivers, b # a
                 PROVE  /\ arTask'[b].step = arTask[b].step /\ arTask'[b].batch = arTask[b].batch
                        /\ arStream'[b] = arStream[b]
      OBVIOUS
    <3>1. arTask'[b] \in {arTask[b], [arTask[b] EXCEPT !.shared = TRUE]} /\ arStream'[b] = arStream[b]
      BY <2>1 DEF openArchive
    <3>2. arTask[b] \in ArTasks
      BY <1>1
    <3> QED BY <3>1, <3>2 DEF ArTasks
  <2>2. CASE ~openArchive(a)
    BY <1>1, <2>2 DEF runArchival, archiveBatch, deleteBatch, AfterDelete, endArchive, archiveFails,
                      archiverDies, NextTable
  <2> QED BY <2>1, <2>2
<1>3. ASSUME arTask'[a].step = "delete" => arTask'[a].batch \subseteq arStream'[a],
             \A x \in Records \ arDb' : Placed1(x)
      PROVE  BatchesWritten'
  BY <1>2, <1>3 DEF BatchesWritten
<1>4. CASE runArchival(a)
  <2>1. arTask'[a].step # "delete"
    BY <1>1, <1>4 DEF runArchival, TableStart
  <2> QED BY <1>3, <1>4, <2>1 DEF runArchival, BatchesWritten
<1>5. CASE openArchive(a)
  <2>1. arTask'[a].step = "fetch"
    BY <1>1, <1>5 DEF openArchive, ArTasks
  <2>2. arDb' = arDb /\ arStream' = arStream /\ arBroken' = arBroken /\ arLost' = arLost \cup FileRows(a)
    BY <1>5 DEF openArchive
  <2>3. \A s \in Seconds : \A x \in arFiles[s] : x \in arFiles'[s] \/ x \in arLost'
    BY <1>1, <1>5, <2>2 DEF openArchive
  <2>4. \A x \in Records \ arDb' : Placed1(x)
    BY <2>2, <2>3 DEF BatchesWritten
  <2> HIDE DEF Placed1
  <2> QED BY <1>3, <2>1, <2>4
<1>6. CASE archiveBatch(a)
  <2> DEFINE batch == FetchBatch(a)
  <2>1. arTask'[a] = [t EXCEPT !.step = IF batch = {} THEN "end" ELSE "delete", !.batch = batch]
    BY <1>1, <1>6 DEF archiveBatch
  <2>2. arStream'[a] = arStream[a] \cup batch
    BY <1>1, <1>6 DEF archiveBatch
  <2>3. arTask'[a].batch = batch
    BY <1>1, <2>1 DEF ArTasks
  <2>4. \A x \in Records \ arDb' : Placed1(x)
    <3>1. UNCHANGED <<arDb, arFiles, arBroken, arLost>>
      BY <1>6 DEF archiveBatch
    <3> HIDE DEF batch
    <3> QED BY <1>2, <2>2, <3>1 DEF BatchesWritten
  <2> HIDE DEF batch, Placed1
  <2> QED BY <1>3, <2>2, <2>3, <2>4
<1>7. CASE deleteBatch(a)
  <2> DEFINE step == IF Cardinality(t.batch) < ArBatchSize THEN "end" ELSE "fetch"
  <2>1. arTask'[a] = [t EXCEPT !.step = step, !.cursor = LastId(t.batch), !.batch = {}]
    BY <1>1, <1>7 DEF deleteBatch, AfterDelete
  <2>2. step # "delete"
    OBVIOUS
  <2> HIDE DEF step
  <2>3. arTask'[a].step # "delete"
    BY <1>1, <2>1, <2>2 DEF ArTasks
  <2>4. t.batch \subseteq arStream[a] /\ arDb' = arDb \ t.batch
    BY <1>7 DEF deleteBatch, BatchesWritten
  <2>5. \A x \in Records \ arDb' : Placed1(x)
    <3>1. UNCHANGED <<arStream, arFiles, arBroken, arLost>>
      BY <1>7 DEF deleteBatch
    <3> QED BY <2>4, <3>1 DEF BatchesWritten
  <2> HIDE DEF Placed1
  <2> QED BY <1>3, <2>3, <2>5
<1>8. CASE endArchive(a) \/ archiveFails(a) \/ archiverDies(a)
  <2>1. arTask'[a].step # "delete"
    BY <1>1, <1>8 DEF endArchive, archiveFails, archiverDies, NextTable, ArIdle, TableStart
  <2>2. arDb' = arDb /\ arBroken \subseteq arBroken' /\ arLost \subseteq arLost'
    BY <1>8 DEF endArchive, archiveFails, archiverDies
  <2>3. /\ \A x \in arStream[a] : (\E s \in Seconds : x \in arFiles'[s]) \/ x \in arBroken' \/ x \in arLost'
        /\ \A s \in Seconds : \A x \in arFiles[s] : x \in arFiles'[s] \/ x \in arLost'
    <3>1. CASE endArchive(a)
      <4>1. t.second \in Seconds
        BY <1>1, <3>1 DEF endArchive, UnderWay
      <4>2. PICK rows \in Endings(a) :
               /\ arFiles' = [arFiles EXCEPT ![t.second] = (@ \ FileRows(a)) \cup rows]
               /\ arLost' = arLost \cup ((FileRows(a) \cup arStream[a]) \ rows)
        BY <3>1 DEF endArchive
      <4>3. arFiles'[t.second] = (arFiles[t.second] \ FileRows(a)) \cup rows
        BY <1>1, <4>1, <4>2
      <4>4. \A s \in Seconds : s # t.second => arFiles'[s] = arFiles[s]
        BY <1>1, <4>2
      <4>5. \A x \in arFiles[t.second] : x \in arFiles'[t.second] \/ x \in arLost'
        BY <4>2, <4>3
      <4> QED BY <4>1, <4>2, <4>3, <4>4, <4>5
    <3>2. CASE archiveFails(a) \/ archiverDies(a)
      BY <3>2 DEF archiveFails, archiverDies
    <3> QED BY <1>8, <3>1, <3>2
  <2>4. \A x \in Records \ arDb' : Placed1(x)
    <3> SUFFICES ASSUME NEW x \in Records \ arDb' PROVE Placed1(x)
      OBVIOUS
    <3>1. Placed(x)
      BY <2>2 DEF BatchesWritten
    <3>2. CASE \E b \in Archivers : x \in arStream[b]
      BY <1>2, <2>3, <3>2
    <3>3. CASE ~\E b \in Archivers : x \in arStream[b]
      BY <2>2, <2>3, <3>1, <3>3
    <3> QED BY <3>2, <3>3
  <2> HIDE DEF Placed1
  <2> QED BY <1>3, <2>1, <2>4
<1> QED BY <1>4, <1>5, <1>6, <1>7, <1>8

\* archiveLoginHistory and the others: for any number of runs, tables, rows and sizes of a
\* batch, whatever fails or dies in between, and with runs of one second that take each
\* other's files (RecordsKept).
THEOREM ArchiveSafe == ArSpec => []RecordsKept
<1> DEFINE ArchiveInv == ArchiveTyped /\ BatchesWritten /\ FilesOwned
<1>1. ArInit => ArchiveInv
  <2> SUFFICES ASSUME ArInit PROVE BatchesWritten /\ FilesOwned
    BY ArchiveInitTyped
  <2>1. \A a \in Archivers : arTask[a].step = "idle" /\ arStream[a] = {}
    BY DEF ArInit, ArIdle
  <2>2. BatchesWritten
    BY <2>1 DEF ArInit, BatchesWritten
  <2>3. \A s \in Seconds : arFiles[s] = {}
    BY DEF ArInit
  <2>4. FilesOwned
    BY <2>1, <2>3 DEF ArInit, FilesOwned, OwnFiles
  <2> QED BY <2>2, <2>4
<1>2. ArchiveInv /\ [ArNext]_arVars => ArchiveInv'
  <2> SUFFICES ASSUME ArchiveInv, [ArNext]_arVars PROVE BatchesWritten' /\ FilesOwned'
    BY ArchiveStepTyped
  <2>1. CASE UNCHANGED arVars
    BY <2>1 DEF BatchesWritten, FilesOwned, OwnFiles, arVars
  <2>2. ASSUME NEW x \in Records, rowAges(x) \/ restoreFromArchive(x)
        PROVE  BatchesWritten' /\ FilesOwned'
    <3>1. /\ UNCHANGED <<arTask, arSecond, arStream, arFiles, arBroken, arLost, arDoubled>>
          /\ arDb \subseteq arDb'
      BY <2>2 DEF rowAges, restoreFromArchive
    <3> QED BY <3>1 DEF BatchesWritten, FilesOwned, OwnFiles
  <2> QED BY <2>1, <2>2, OwnKept, WrittenKept DEF ArNext
<1>3. ArchiveInv => RecordsKept
  BY DEF BatchesWritten, FilesOwned, RecordsKept
<1> QED BY <1>1, <1>2, <1>3, PTL DEF ArSpec

\* A job that has its row names a backup that exists, and one that waits has a retry left.
BkTyped(t) ==
    /\ t \in [step : BkSteps, id : 0..MaxBackups, doomed : SUBSET BackupIds,
              attempt : 0..MaxAttempts]
    /\ t.step \notin {"none", "create", "wait"} => t.id \in BackupIds
    /\ t.step = "wait" => t.attempt < MaxAttempts

\* The file of a backup holds one dump.
OneDump(file) == file = {} \/ \E table \in [BackupIds -> BkRows] : file = {table}

\* Every backup has at most one file, which holds the whole table of backups when it was made.
BackupTyped ==
    /\ bkRow \in [BackupIds -> BkRows]
    /\ \A i \in BackupIds : OneDump(bkFile[i])
    /\ bkWhole \subseteq BackupIds /\ bkAbandoned \subseteq BackupIds /\ bkRevived \subseteq BackupIds
    /\ bkNext \in 1..(MaxBackups + 1) /\ bkSpoiled \in BOOLEAN
    /\ bkTask = [j \in BkJobs |-> bkTask[j]] /\ \A j \in BkJobs : BkTyped(bkTask[j])
    /\ bkFile = [i \in BackupIds |-> bkFile[i]]

\* One job goes on to another step, and the rows and files stay of their types.
LEMMA BkJobTyped ==
  ASSUME BackupTyped, NEW j \in BkJobs, NEW t, BkTyped(t), bkTask' = [bkTask EXCEPT ![j] = t],
         bkRow' \in [BackupIds -> BkRows], bkFile' = [i \in BackupIds |-> bkFile'[i]],
         \A i \in BackupIds : OneDump(bkFile'[i]),
         bkWhole' \subseteq BackupIds, bkAbandoned' \subseteq BackupIds, bkRevived' \subseteq BackupIds,
         bkNext' \in 1..(MaxBackups + 1), bkSpoiled' \in BOOLEAN
  PROVE  BackupTyped'
<1>1. /\ bkTask' = [k \in BkJobs |-> bkTask'[k]]
      /\ \A k \in BkJobs : bkTask'[k] = IF k = j THEN t ELSE bkTask[k]
  BY DEF BackupTyped
<1>2. \A k \in BkJobs : BkTyped(bkTask'[k])
  BY <1>1 DEF BackupTyped
<1> QED BY <1>1, <1>2 DEF BackupTyped

\* The progress of a job that does nothing, or waits for its next attempt.
LEMMA BkIdle == BkTyped(NoTask) /\ \A n \in 1..(MaxAttempts - 1) : BkTyped(Task("wait", 0, n))
  BY BackupsAssumption DEF BkTyped, NoTask, Task, BkSteps

\* A job that throws waits for the next attempt or gives up.
LEMMA BkThrows ==
  ASSUME NEW j \in BkJobs, JobThrows(j)
  PROVE  \E t : BkTyped(t) /\ bkTask' = [bkTask EXCEPT ![j] = t]
  BY BkIdle DEF JobThrows, Throws

\* A job that has its row goes on with it.
LEMMA BkGoto ==
  ASSUME BackupTyped, NEW j \in BkJobs,
         NEW step \in {"dump", "complete", "retain", "delete", "unlink", "psql", "record"},
         bkTask[j].step \notin {"none", "create", "wait"}, Goto(j, step)
  PROVE  \E t : BkTyped(t) /\ bkTask' = [bkTask EXCEPT ![j] = t]
<1> DEFINE t == [bkTask[j] EXCEPT !.step = step]
<1>1. BkTyped(bkTask[j])
  BY DEF BackupTyped
<1>2. BkTyped(t)
  BY <1>1 DEF BkTyped, BkSteps
<1>3. bkTask' = [bkTask EXCEPT ![j] = t]
  BY DEF Goto
<1> QED BY <1>2, <1>3

\* startBackup takes the lock, waits or gives up.
LEMMA BkStartTyped ==
  ASSUME BackupTyped, NEW j \in BkJobs, NEW attempt \in 0..MaxAttempts, startBackup(j, attempt)
  PROVE  BackupTyped'
<1>1. \E t : BkTyped(t) /\ bkTask' = [bkTask EXCEPT ![j] = t]
  <2>1. BkTyped(Task("create", 0, attempt))
    BY BackupsAssumption DEF BkTyped, Task, BkSteps
  <2>2. \/ bkTask' = [bkTask EXCEPT ![j] = Task("create", 0, attempt)]
        \/ /\ attempt \in 1..(MaxAttempts - 1)
           /\ bkTask' = [bkTask EXCEPT ![j] = Task("wait", 0, attempt)]
        \/ bkTask' = [bkTask EXCEPT ![j] = NoTask]
    BY DEF startBackup, Throws
  <2> QED BY <2>1, <2>2, BkIdle
<1>2. UNCHANGED <<bkRow, bkFile, bkWhole, bkNext, bkAbandoned, bkRevived, bkSpoiled>>
  BY DEF startBackup
<1> QED BY <1>1, <1>2, BkJobTyped DEF BackupTyped

\* The ways a job begins, up to its row in the database.
LEMMA BkCreateTyped ==
  ASSUME BackupTyped, NEW j \in BkJobs,
         \/ createManualBackup(j) \/ scheduledBackup(j) \/ retryBackup(j) \/ createBackup(j)
         \/ \E i \in BackupIds : restoreBackup(j, i)
  PROVE  BackupTyped'
<1>0. BkTyped(bkTask[j])
  BY DEF BackupTyped
<1>1. CASE createManualBackup(j) \/ scheduledBackup(j)
  BY <1>1, BackupsAssumption, BkStartTyped DEF createManualBackup, scheduledBackup
<1>2. CASE retryBackup(j)
  <2>1. bkTask[j].attempt + 1 \in 0..MaxAttempts
    BY <1>0, <1>2, BackupsAssumption DEF retryBackup, BkTyped
  <2> QED BY <1>2, <2>1, BkStartTyped DEF retryBackup
<1>3. CASE /\ createBackup(j) /\ bkNext <= MaxBackups
           /\ bkRow' = [bkRow EXCEPT ![bkNext] = [status |-> "RUNNING", restoring |-> FALSE]]
           /\ bkTask' = [bkTask EXCEPT ![j] = Task("dump", bkNext, bkTask[j].attempt)]
           /\ bkNext' = bkNext + 1
  <2>1. bkNext \in BackupIds
    BY <1>3 DEF createBackup, BackupTyped, BackupIds
  <2>2. BkTyped(Task("dump", bkNext, bkTask[j].attempt))
    BY <1>0, <2>1 DEF BkTyped, Task, BkSteps, BackupIds
  <2>3. bkRow' \in [BackupIds -> BkRows]
    <3> DEFINE r == [status |-> "RUNNING", restoring |-> FALSE]
    <3>1. r \in BkRows /\ bkRow \in [BackupIds -> BkRows] /\ bkRow' = [bkRow EXCEPT ![bkNext] = r]
      BY <1>3 DEF BackupTyped, BkRows
    <3> HIDE DEF r
    <3> QED BY <2>1, <3>1
  <2>4. bkNext' \in 1..(MaxBackups + 1)
    BY <1>3, <2>1, BackupsAssumption DEF createBackup, BackupIds
  <2>5. UNCHANGED <<bkFile, bkWhole, bkAbandoned, bkRevived, bkSpoiled>>
        /\ bkTask' = [bkTask EXCEPT ![j] = Task("dump", bkNext, bkTask[j].attempt)]
    BY <1>3 DEF createBackup
  <2> QED BY <2>2, <2>3, <2>4, <2>5, BkJobTyped DEF BackupTyped
<1>5. CASE JobThrows(j) /\ UNCHANGED <<bkRow, bkNext, bkFile, bkWhole, bkAbandoned, bkRevived, bkSpoiled>>
  <2>1. \E t : BkTyped(t) /\ bkTask' = [bkTask EXCEPT ![j] = t]
    BY <1>5, BkThrows
  <2> QED BY <1>5, <2>1, BkJobTyped DEF BackupTyped
<1>6. CASE createBackup(j)
  BY <1>3, <1>5, <1>6 DEF createBackup
<1>4. ASSUME NEW i \in BackupIds, restoreBackup(j, i) PROVE BackupTyped'
  <2>1. BkTyped(Task("mark", i, 0))
    BY BackupsAssumption DEF BkTyped, Task, BkSteps, BackupIds
  <2>2. UNCHANGED <<bkRow, bkFile, bkWhole, bkNext, bkAbandoned, bkRevived, bkSpoiled>>
        /\ bkTask' = [bkTask EXCEPT ![j] = Task("mark", i, 0)]
    BY <1>4 DEF restoreBackup
  <2> QED BY <2>1, <2>2, BkJobTyped DEF BackupTyped
<1> QED BY <1>1, <1>2, <1>4, <1>6

\* What a job has left RUNNING is a set of backups.
LEMMA AbandonTyped ==
  ASSUME BackupTyped, NEW i, Abandon(i)
  PROVE  bkAbandoned' \subseteq BackupIds
  BY DEF BackupTyped, Abandon

\* The dump, the row that completes or fails, and the choice of the backups to delete.
LEMMA BkDumpTyped ==
  ASSUME BackupTyped, NEW j \in BkJobs,
         \/ runBackupCommand(j) \/ completeBackup(j) \/ failBackup(j) \/ unlinkFailed(j)
         \/ enforceRetentionPolicy(j)
  PROVE  BackupTyped'
<1>0. /\ BkTyped(bkTask[j])
      /\ bkTask[j].step \notin {"none", "create", "wait"} /\ bkTask[j].id \in BackupIds
  BY DEF BackupTyped, BkTyped, runBackupCommand, completeBackup, failBackup, unlinkFailed, enforceRetentionPolicy
<1>1. CASE runBackupCommand(j)
  <2>1. \E t : BkTyped(t) /\ bkTask' = [bkTask EXCEPT ![j] = t]
    BY <1>0, <1>1, BkGoto DEF runBackupCommand
  <2>2. bkFile' = [bkFile EXCEPT ![bkTask[j].id] = {bkRow}]
    BY <1>1 DEF runBackupCommand
  <2>3. bkFile' = [i \in BackupIds |-> bkFile'[i]] /\ \A i \in BackupIds : OneDump(bkFile'[i])
    BY <1>0, <2>2 DEF BackupTyped, OneDump
  <2>4. UNCHANGED <<bkRow, bkWhole, bkNext, bkAbandoned, bkRevived, bkSpoiled>>
    BY <1>1 DEF runBackupCommand
  <2> QED BY <2>1, <2>3, <2>4, BkJobTyped DEF BackupTyped
<1>2. CASE completeBackup(j)
  <2>1. \E t : BkTyped(t) /\ bkTask' = [bkTask EXCEPT ![j] = t]
    BY <1>0, <1>2, BkGoto DEF completeBackup
  <2>2. bkRow' \in [BackupIds -> BkRows] /\ bkWhole' \subseteq BackupIds
    BY <1>0, <1>2 DEF completeBackup, BackupTyped, BkRows
  <2>3. UNCHANGED <<bkFile, bkNext, bkAbandoned, bkRevived, bkSpoiled>>
    BY <1>2 DEF completeBackup
  <2> QED BY <2>1, <2>2, <2>3, BkJobTyped DEF BackupTyped
<1>3. CASE failBackup(j)
  <2>1. \E t : BkTyped(t) /\ bkTask' = [bkTask EXCEPT ![j] = t]
    BY <1>0, <1>3, BkGoto, BkThrows DEF failBackup
  <2>2. bkRow' \in [BackupIds -> BkRows]
    BY <1>0, <1>3 DEF failBackup, BackupTyped, BkRows
  <2>3. bkSpoiled' \in BOOLEAN
    BY <1>3 DEF failBackup, BackupTyped
  <2>4. bkAbandoned' \subseteq BackupIds
    BY <1>3, AbandonTyped DEF failBackup, BackupTyped
  <2>5. UNCHANGED <<bkFile, bkWhole, bkNext, bkRevived>>
    BY <1>3 DEF failBackup
  <2> QED BY <2>1, <2>2, <2>3, <2>4, <2>5, BkJobTyped DEF BackupTyped
<1>4. CASE unlinkFailed(j)
  <2>1. \E t : BkTyped(t) /\ bkTask' = [bkTask EXCEPT ![j] = t]
    BY <1>4, BkThrows DEF unlinkFailed
  <2>2. bkFile' = [bkFile EXCEPT ![bkTask[j].id] = {}] \/ bkFile' = bkFile
    BY <1>4 DEF unlinkFailed
  <2>3. bkFile' = [i \in BackupIds |-> bkFile'[i]] /\ \A i \in BackupIds : OneDump(bkFile'[i])
    BY <1>0, <2>2 DEF BackupTyped, OneDump
  <2>4. UNCHANGED <<bkRow, bkNext, bkAbandoned, bkRevived, bkSpoiled>> /\ bkWhole' \subseteq BackupIds
    BY <1>4 DEF unlinkFailed, BackupTyped
  <2> QED BY <2>1, <2>3, <2>4, BkJobTyped DEF BackupTyped
<1>5. CASE enforceRetentionPolicy(j)
  <2> DEFINE t == [step |-> "delete", id |-> bkTask[j].id, doomed |-> Doomed,
                   attempt |-> bkTask[j].attempt]
  <2>1. Doomed \subseteq BackupIds
    BY DEF Doomed
  <2>2. BkTyped(t)
    BY <1>0, <2>1 DEF BkTyped, BkSteps
  <2>3. PICK gone \in SUBSET Doomed :
           /\ bkFile' = [i \in BackupIds |-> IF i \in gone THEN {} ELSE bkFile[i]]
           /\ bkWhole' = bkWhole \ gone
    BY <1>5 DEF enforceRetentionPolicy
  <2>4. bkFile' = [i \in BackupIds |-> bkFile'[i]] /\ \A i \in BackupIds : OneDump(bkFile'[i])
    BY <2>3 DEF BackupTyped, OneDump
  <2>5. /\ bkTask' = [bkTask EXCEPT ![j] = t] /\ bkWhole' \subseteq bkWhole
        /\ UNCHANGED <<bkRow, bkNext, bkAbandoned, bkRevived, bkSpoiled>>
    BY <1>5, <2>3 DEF enforceRetentionPolicy
  <2> HIDE DEF t
  <2> QED BY <2>2, <2>4, <2>5, BkJobTyped DEF BackupTyped
<1> QED BY <1>1, <1>2, <1>3, <1>4, <1>5

\* The deletes of the retention, of which some may throw.
LEMMA BkDeleteTyped ==
  ASSUME BackupTyped, NEW j \in BkJobs, deleteDoomed(j)
  PROVE  BackupTyped'
<1>0. BkTyped(bkTask[j]) /\ bkTask[j].id \in BackupIds
  BY DEF BackupTyped, BkTyped, deleteDoomed
<1>1. PICK gone \in SUBSET BackupIds :
         bkRow' = [k \in BackupIds |-> IF k \in gone THEN NoBackup ELSE bkRow[k]]
  BY <1>0 DEF deleteDoomed, BkTyped
<1>2. bkRow' \in [BackupIds -> BkRows]
  BY <1>1 DEF BackupTyped, BkRows, NoBackup
<1>3. BkTyped(Task("fail", bkTask[j].id, bkTask[j].attempt))
  BY <1>0 DEF BkTyped, Task, BkSteps
<1>4. /\ bkTask' = [bkTask EXCEPT ![j] = NoTask]
         \/ bkTask' = [bkTask EXCEPT ![j] = Task("fail", bkTask[j].id, bkTask[j].attempt)]
      /\ UNCHANGED <<bkFile, bkWhole, bkSpoiled, bkNext, bkAbandoned, bkRevived>>
  BY DEF deleteDoomed, JobDone
<1> QED BY <1>2, <1>3, <1>4, BkIdle, BkJobTyped DEF BackupTyped

\* A restore puts the rows of the dump back, over whatever has been written since.
LEMMA BkRestoreTyped ==
  ASSUME BackupTyped, NEW j \in BkJobs,
         markRestore(j) \/ runRestoreCommand(j) \/ recordRestore(j) \/ jobDies(j)
  PROVE  BackupTyped'
<1>0. BkTyped(bkTask[j])
  BY DEF BackupTyped
<1>1. CASE markRestore(j)
  <2>1. \E t : BkTyped(t) /\ bkTask' = [bkTask EXCEPT ![j] = t]
    BY <1>1, BkGoto, BkThrows DEF markRestore
  <2>2. bkRow' \in [BackupIds -> BkRows]
    <3>1. bkTask[j].id \in BackupIds /\ bkRow \in [BackupIds -> BkRows]
      BY <1>0, <1>1 DEF markRestore, BkTyped, BackupTyped
    <3>2. CASE bkRow' = [bkRow EXCEPT ![bkTask[j].id].restoring = TRUE]
      <4> DEFINE r == [bkRow[bkTask[j].id] EXCEPT !.restoring = TRUE]
      <4>1. bkRow[bkTask[j].id] \in BkRows /\ bkRow' = [bkRow EXCEPT ![bkTask[j].id] = r]
        BY <3>1, <3>2
      <4>2. r \in BkRows
        BY <4>1 DEF BkRows
      <4> HIDE DEF r
      <4> QED BY <3>1, <4>1, <4>2
    <3> QED BY <1>1, <3>1, <3>2 DEF markRestore
  <2>3. UNCHANGED <<bkFile, bkWhole, bkNext, bkAbandoned, bkRevived, bkSpoiled>>
    BY <1>1 DEF markRestore
  <2> QED BY <2>1, <2>2, <2>3, BkJobTyped DEF BackupTyped
<1>2. CASE runRestoreCommand(j)
  <2>1. \E t : BkTyped(t) /\ bkTask' = [bkTask EXCEPT ![j] = t]
    BY <1>2, BkGoto DEF runRestoreCommand
  <2>2. bkRow' \in [BackupIds -> BkRows]
    <3>1. bkTask[j].id \in BackupIds
      BY <1>0, <1>2 DEF BkTyped, runRestoreCommand
    <3>2. OneDump(bkFile[bkTask[j].id]) /\ bkRow \in [BackupIds -> BkRows]
      BY <3>1 DEF BackupTyped
    <3>3. bkRow' \in bkFile[bkTask[j].id] \/ bkRow' = bkRow
      BY <1>2 DEF runRestoreCommand
    <3> QED BY <3>2, <3>3 DEF OneDump
  <2>3. bkRevived' \subseteq BackupIds /\ UNCHANGED <<bkFile, bkWhole, bkNext, bkAbandoned, bkSpoiled>>
    BY <1>2 DEF runRestoreCommand, BackupTyped
  <2> QED BY <2>1, <2>2, <2>3, BkJobTyped DEF BackupTyped
<1>3. CASE recordRestore(j)
  <2>1. bkTask' = [bkTask EXCEPT ![j] = NoTask]
        /\ UNCHANGED <<bkFile, bkWhole, bkNext, bkRevived, bkSpoiled>>
    BY <1>3 DEF recordRestore, JobDone
  <2>3. bkAbandoned' \subseteq BackupIds
    BY <1>3, AbandonTyped DEF recordRestore, BackupTyped
  <2>2. bkRow' \in [BackupIds -> BkRows]
    <3>1. bkTask[j].id \in BackupIds /\ bkRow \in [BackupIds -> BkRows]
      BY <1>0, <1>3 DEF BkTyped, recordRestore, BackupTyped
    <3>2. CASE bkRow' = [bkRow EXCEPT ![bkTask[j].id].restoring = FALSE]
      <4> DEFINE r == [bkRow[bkTask[j].id] EXCEPT !.restoring = FALSE]
      <4>1. bkRow[bkTask[j].id] \in BkRows /\ bkRow' = [bkRow EXCEPT ![bkTask[j].id] = r]
        BY <3>1, <3>2
      <4>2. r \in BkRows
        BY <4>1 DEF BkRows
      <4> HIDE DEF r
      <4> QED BY <3>1, <4>1, <4>2
    <3> QED BY <1>3, <3>1, <3>2 DEF recordRestore
  <2> QED BY <2>1, <2>2, <2>3, BkIdle, BkJobTyped DEF BackupTyped
<1>4. CASE jobDies(j)
  <2>1. bkTask' = [bkTask EXCEPT ![j] = NoTask]
        /\ UNCHANGED <<bkRow, bkFile, bkWhole, bkNext, bkRevived, bkSpoiled>>
    BY <1>4 DEF jobDies, JobDone
  <2>2. bkAbandoned' \subseteq BackupIds
    BY <1>4, AbandonTyped DEF jobDies
  <2> QED BY <2>1, <2>2, BkIdle, BkJobTyped DEF BackupTyped
<1> QED BY <1>1, <1>2, <1>3, <1>4

\* backup.service.ts, for any number of jobs, backups and attempts: whatever the restores put
\* back and the retention deletes, rows, files and jobs keep their types (BkTypeOK).
THEOREM BackupsTyped == BkSpec => []BkTypeOK
<1>1. BkInit => BackupTyped
  <2>1. BkInit => bkRow \in [BackupIds -> BkRows]
    BY DEF BkInit, NoBackup, BkRows
  <2>2. BkInit => bkNext \in 1..(MaxBackups + 1)
    BY BackupsAssumption DEF BkInit
  <2> QED BY <2>1, <2>2, BkIdle DEF BkInit, BackupTyped, OneDump
<1>2. BackupTyped /\ [BkNext]_bkVars => BackupTyped'
  <2> SUFFICES ASSUME BackupTyped, [BkNext]_bkVars PROVE BackupTyped'
    OBVIOUS
  <2>1. CASE UNCHANGED bkVars
    BY <2>1 DEF BackupTyped, bkVars
  <2> QED BY <2>1, BkCreateTyped, BkDumpTyped, BkDeleteTyped, BkRestoreTyped DEF BkNext
<1>3. BackupTyped => BkTypeOK
  <2>1. Cardinality({}) = 0 /\ \A u : Cardinality({u}) = 1
    BY FS_EmptySet, FS_Singleton
  <2>2. ASSUME NEW file, OneDump(file)
        PROVE  Cardinality(file) <= 1 /\ file \subseteq [BackupIds -> BkRows]
    <3>1. CASE file = {}
      BY <2>1, <3>1
    <3>2. ASSUME NEW table \in [BackupIds -> BkRows], file = {table}
          PROVE  Cardinality(file) <= 1 /\ file \subseteq [BackupIds -> BkRows]
      BY <2>1, <3>2
    <3> QED BY <2>2, <3>1, <3>2 DEF OneDump
  <2>3. BackupTyped => bkTask \in [BkJobs -> [step : BkSteps, id : 0..MaxBackups,
                                     doomed : SUBSET BackupIds, attempt : 0..MaxAttempts]]
    BY DEF BackupTyped, BkTyped
  <2> QED BY <2>2, <2>3 DEF BackupTyped, BkTypeOK
<1> QED BY <1>1, <1>2, <1>3, PTL DEF BkSpec

-----------------------------------------------------------------------------
(* Routes and guards.                                                      *)

\* The names of the guards.
GuardNames == {"jwt", "key", "roles", "scopes", "fresh", "optional", "google",
               "clientLimit", "callerLimit", "metrics", "globalLimit"}

\* The guards that set request.authUser before they let a request pass.
Identifies(g) == g \in {"jwt", "key"}

\* The bulk routes of the listings.
Bulk(path) == Len(path) = 3 /\ SubSeq(path, 1, 2) = <<"properties", "bulk">>

\* What a list of guards does for the handler behind it: one of them identifies the
\* caller, one checks the role, and the caller is known wherever a limit counts by it.
Authenticated(gs) == \E k \in DOMAIN gs : Identifies(gs[k])
RoleChecked(gs) == \E k \in DOMAIN gs : gs[k] = "roles"
CallerCounted(gs) ==
    \A k \in DOMAIN gs : gs[k] = "callerLimit" => \E j \in DOMAIN gs : j < k /\ Identifies(gs[j])

\* A record with the fields of a route.
IsRoute(r) == r = [method |-> r.method, path |-> r.path, guards |-> r.guards, roles |-> r.roles,
                   scope |-> r.scope, reads |-> r.reads]

\* What the guards of a route owe its handler: the caller it reads, the role it asks for,
\* and a limit that counts by the caller, except on the bulk routes.
Guarded(r) ==
    /\ IsRoute(r) /\ r.guards \in Seq(GuardNames)
    /\ r.reads = "sub" => Authenticated(r.guards)
    /\ r.roles # {} => RoleChecked(r.guards)
    /\ CallerCounted(r.guards) \/ Bulk(r.path)

\* A handler in a class with this prefix, these guards and roles.
InClass(prefix, guards, roles, r) ==
    [r EXCEPT !.path = prefix \o @, !.guards = guards \o @, !.roles = IF @ = {} THEN roles ELSE @]

\* The roles of a handler, and where it declares none those of its class.
Declares(own, class) == IF own = {} THEN class ELSE own

\* The handler is guarded once its class has added its guards.
Fit(prefix, guards, roles, r) == Guarded(InClass(prefix, guards, roles, r))

\* A table of guarded routes.
GuardedTable(s) ==
    Len(s) \in Nat /\ s = [i \in 1..Len(s) |-> s[i]] /\ \A i \in 1..Len(s) : Guarded(s[i])

\* s is r but for one field.
SameBut(field, r, s) ==
    /\ IsRoute(s)
    /\ field # "path" => s.path = r.path
    /\ field # "guards" => s.guards = r.guards
    /\ field # "roles" => s.roles = r.roles
    /\ field # "reads" => s.reads = r.reads

\* r with one field replaced.
SetPath(r, v) == [r EXCEPT !.path = v]
SetGuards(r, v) == [r EXCEPT !.guards = v]
SetRoles(r, v) == [r EXCEPT !.roles = v]
SetScope(r, v) == [r EXCEPT !.scope = v]
SetReads(r, v) == [r EXCEPT !.reads = v]

\* Replacing a field gives the field its value and leaves the others.
LEMMA FieldSet ==
  \A r, v : IsRoute(r) =>
     /\ SetPath(r, v).path = v /\ SameBut("path", r, SetPath(r, v))
     /\ SetGuards(r, v).guards = v /\ SameBut("guards", r, SetGuards(r, v))
     /\ SetRoles(r, v).roles = v /\ SameBut("roles", r, SetRoles(r, v))
     /\ SetReads(r, v).reads = v /\ SameBut("reads", r, SetReads(r, v))
     /\ SameBut("scope", r, SetScope(r, v))
<1> SUFFICES ASSUME NEW r, NEW v, IsRoute(r)
             PROVE  /\ SetPath(r, v).path = v /\ SameBut("path", r, SetPath(r, v))
                    /\ SetGuards(r, v).guards = v /\ SameBut("guards", r, SetGuards(r, v))
                    /\ SetRoles(r, v).roles = v /\ SameBut("roles", r, SetRoles(r, v))
                    /\ SetReads(r, v).reads = v /\ SameBut("reads", r, SetReads(r, v))
                    /\ SameBut("scope", r, SetScope(r, v))
  OBVIOUS
<1>1. SetPath(r, v).path = v /\ SameBut("path", r, SetPath(r, v))
  <2>1. SetPath(r, v) = [method |-> r.method, path |-> v, guards |-> r.guards,
          roles |-> r.roles, scope |-> r.scope, reads |-> r.reads]
    BY DEF IsRoute, SetPath
  <2> QED BY <2>1 DEF SameBut, IsRoute
<1>2. SetGuards(r, v).guards = v /\ SameBut("guards", r, SetGuards(r, v))
  <2>1. SetGuards(r, v) = [method |-> r.method, path |-> r.path, guards |-> v,
          roles |-> r.roles, scope |-> r.scope, reads |-> r.reads]
    BY DEF IsRoute, SetGuards
  <2> QED BY <2>1 DEF SameBut, IsRoute
<1>3. SetRoles(r, v).roles = v /\ SameBut("roles", r, SetRoles(r, v))
  <2>1. SetRoles(r, v) = [method |-> r.method, path |-> r.path, guards |-> r.guards,
          roles |-> v, scope |-> r.scope, reads |-> r.reads]
    BY DEF IsRoute, SetRoles
  <2> QED BY <2>1 DEF SameBut, IsRoute
<1>4. SameBut("scope", r, SetScope(r, v))
  <2>1. SetScope(r, v) = [method |-> r.method, path |-> r.path, guards |-> r.guards,
          roles |-> r.roles, scope |-> v, reads |-> r.reads]
    BY DEF IsRoute, SetScope
  <2> QED BY <2>1 DEF SameBut, IsRoute
<1>5. SetReads(r, v).reads = v /\ SameBut("reads", r, SetReads(r, v))
  <2>1. SetReads(r, v) = [method |-> r.method, path |-> r.path, guards |-> r.guards,
          roles |-> r.roles, scope |-> r.scope, reads |-> v]
    BY DEF IsRoute, SetReads
  <2> QED BY <2>1 DEF SameBut, IsRoute
<1> QED BY <1>1, <1>2, <1>3, <1>4, <1>5

\* What a class makes of its handler: prefix and guards in front, its roles by default.
LEMMA InClassIs ==
  ASSUME NEW prefix, NEW guards, NEW roles, NEW r, IsRoute(r)
  PROVE  /\ IsRoute(InClass(prefix, guards, roles, r))
         /\ InClass(prefix, guards, roles, r).path = prefix \o r.path
         /\ InClass(prefix, guards, roles, r).guards = guards \o r.guards
         /\ InClass(prefix, guards, roles, r).roles = Declares(r.roles, roles)
         /\ InClass(prefix, guards, roles, r).reads = r.reads
<1> DEFINE p == prefix \o r.path
           g == guards \o r.guards
           rs == Declares(r.roles, roles)
<1>1. InClass(prefix, guards, roles, r) = SetRoles(SetGuards(SetPath(r, p), g), rs)
  BY DEF InClass, SetRoles, SetGuards, SetPath, Declares
<1> HIDE DEF p, g, rs
<1>2. LET c == SetRoles(SetGuards(SetPath(r, p), g), rs)
      IN  IsRoute(c) /\ c.path = p /\ c.guards = g /\ c.roles = rs /\ c.reads = r.reads
  BY FieldSet DEF SameBut
<1> QED BY <1>1, <1>2 DEF p, g, rs

\* A controller is guarded when each of its handlers fits its class.
LEMMA AtTable ==
  ASSUME NEW prefix, NEW guards, NEW roles, NEW n \in Nat, NEW s,
         s = [i \in 1..n |-> s[i]], \A i \in 1..n : Fit(prefix, guards, roles, s[i])
  PROVE  GuardedTable(At(prefix, guards, roles, s))
<1> DEFINE t == At(prefix, guards, roles, s)
<1>1. t = [i \in 1..n |-> InClass(prefix, guards, roles, s[i])]
  BY DEF At, InClass
<1>2. Len(t) = n
  BY <1>1
<1>3. \A i \in 1..n : Guarded(t[i])
  BY <1>1 DEF Fit
<1> QED BY <1>1, <1>2, <1>3 DEF GuardedTable

\* A controller of 1 handler.
LEMMA Rows1 ==
  ASSUME NEW p, NEW g, NEW r, NEW a1,
         Fit(p, g, r, a1)
  PROVE  GuardedTable(At(p, g, r, <<a1>>))
<1> DEFINE s == <<a1>>
<1>1. s = [i \in 1..1 |-> s[i]] /\ \A i \in 1..1 : Fit(p, g, r, s[i])
  OBVIOUS
<1> QED BY <1>1, AtTable

\* A controller of 2 handlers.
LEMMA Rows2 ==
  ASSUME NEW p, NEW g, NEW r, NEW a1, NEW a2,
         Fit(p, g, r, a1), Fit(p, g, r, a2)
  PROVE  GuardedTable(At(p, g, r, <<a1, a2>>))
<1> DEFINE s == <<a1, a2>>
<1>1. s = [i \in 1..2 |-> s[i]] /\ \A i \in 1..2 : Fit(p, g, r, s[i])
  OBVIOUS
<1> QED BY <1>1, AtTable

\* A controller of 3 handlers.
LEMMA Rows3 ==
  ASSUME NEW p, NEW g, NEW r, NEW a1, NEW a2, NEW a3,
         Fit(p, g, r, a1), Fit(p, g, r, a2), Fit(p, g, r, a3)
  PROVE  GuardedTable(At(p, g, r, <<a1, a2, a3>>))
<1> DEFINE s == <<a1, a2, a3>>
<1>1. s = [i \in 1..3 |-> s[i]] /\ \A i \in 1..3 : Fit(p, g, r, s[i])
  OBVIOUS
<1> QED BY <1>1, AtTable

\* A controller of 4 handlers.
LEMMA Rows4 ==
  ASSUME NEW p, NEW g, NEW r, NEW a1, NEW a2, NEW a3, NEW a4,
         Fit(p, g, r, a1), Fit(p, g, r, a2), Fit(p, g, r, a3), Fit(p, g, r, a4)
  PROVE  GuardedTable(At(p, g, r, <<a1, a2, a3, a4>>))
<1> DEFINE s == <<a1, a2, a3, a4>>
<1>1. s = [i \in 1..4 |-> s[i]] /\ \A i \in 1..4 : Fit(p, g, r, s[i])
  OBVIOUS
<1> QED BY <1>1, AtTable

\* A controller of 5 handlers.
LEMMA Rows5 ==
  ASSUME NEW p, NEW g, NEW r, NEW a1, NEW a2, NEW a3, NEW a4, NEW a5,
         Fit(p, g, r, a1), Fit(p, g, r, a2), Fit(p, g, r, a3), Fit(p, g, r, a4), Fit(p, g, r, a5)
  PROVE  GuardedTable(At(p, g, r, <<a1, a2, a3, a4, a5>>))
<1> DEFINE s == <<a1, a2, a3, a4, a5>>
<1>1. s = [i \in 1..5 |-> s[i]] /\ \A i \in 1..5 : Fit(p, g, r, s[i])
  OBVIOUS
<1> QED BY <1>1, AtTable

\* A controller of 6 handlers.
LEMMA Rows6 ==
  ASSUME NEW p, NEW g, NEW r, NEW a1, NEW a2, NEW a3, NEW a4, NEW a5, NEW a6,
         Fit(p, g, r, a1), Fit(p, g, r, a2), Fit(p, g, r, a3), Fit(p, g, r, a4),
         Fit(p, g, r, a5), Fit(p, g, r, a6)
  PROVE  GuardedTable(At(p, g, r, <<a1, a2, a3, a4, a5, a6>>))
<1> DEFINE s == <<a1, a2, a3, a4, a5, a6>>
<1>1. s = [i \in 1..6 |-> s[i]] /\ \A i \in 1..6 : Fit(p, g, r, s[i])
  OBVIOUS
<1> QED BY <1>1, AtTable

\* A controller of 7 handlers.
LEMMA Rows7 ==
  ASSUME NEW p, NEW g, NEW r, NEW a1, NEW a2, NEW a3, NEW a4, NEW a5, NEW a6, NEW a7,
         Fit(p, g, r, a1), Fit(p, g, r, a2), Fit(p, g, r, a3), Fit(p, g, r, a4),
         Fit(p, g, r, a5), Fit(p, g, r, a6), Fit(p, g, r, a7)
  PROVE  GuardedTable(At(p, g, r, <<a1, a2, a3, a4, a5, a6, a7>>))
<1> DEFINE s == <<a1, a2, a3, a4, a5, a6, a7>>
<1>1. s = [i \in 1..7 |-> s[i]] /\ \A i \in 1..7 : Fit(p, g, r, s[i])
  OBVIOUS
<1> QED BY <1>1, AtTable

\* A controller of 8 handlers.
LEMMA Rows8 ==
  ASSUME NEW p, NEW g, NEW r, NEW a1, NEW a2, NEW a3, NEW a4, NEW a5, NEW a6, NEW a7, NEW a8,
         Fit(p, g, r, a1), Fit(p, g, r, a2), Fit(p, g, r, a3), Fit(p, g, r, a4),
         Fit(p, g, r, a5), Fit(p, g, r, a6), Fit(p, g, r, a7), Fit(p, g, r, a8)
  PROVE  GuardedTable(At(p, g, r, <<a1, a2, a3, a4, a5, a6, a7, a8>>))
<1> DEFINE s == <<a1, a2, a3, a4, a5, a6, a7, a8>>
<1>1. s = [i \in 1..8 |-> s[i]] /\ \A i \in 1..8 : Fit(p, g, r, s[i])
  OBVIOUS
<1> QED BY <1>1, AtTable

\* A controller of 9 handlers.
LEMMA Rows9 ==
  ASSUME NEW p, NEW g, NEW r, NEW a1, NEW a2, NEW a3, NEW a4, NEW a5, NEW a6, NEW a7, NEW a8,
         NEW a9,
         Fit(p, g, r, a1), Fit(p, g, r, a2), Fit(p, g, r, a3), Fit(p, g, r, a4),
         Fit(p, g, r, a5), Fit(p, g, r, a6), Fit(p, g, r, a7), Fit(p, g, r, a8), Fit(p, g, r, a9)
  PROVE  GuardedTable(At(p, g, r, <<a1, a2, a3, a4, a5, a6, a7, a8, a9>>))
<1> DEFINE s == <<a1, a2, a3, a4, a5, a6, a7, a8, a9>>
<1>1. s = [i \in 1..9 |-> s[i]] /\ \A i \in 1..9 : Fit(p, g, r, s[i])
  OBVIOUS
<1> QED BY <1>1, AtTable

\* A controller of 10 handlers.
LEMMA Rows10 ==
  ASSUME NEW p, NEW g, NEW r, NEW a1, NEW a2, NEW a3, NEW a4, NEW a5, NEW a6, NEW a7, NEW a8,
         NEW a9, NEW a10,
         Fit(p, g, r, a1), Fit(p, g, r, a2), Fit(p, g, r, a3), Fit(p, g, r, a4),
         Fit(p, g, r, a5), Fit(p, g, r, a6), Fit(p, g, r, a7), Fit(p, g, r, a8),
         Fit(p, g, r, a9), Fit(p, g, r, a10)
  PROVE  GuardedTable(At(p, g, r, <<a1, a2, a3, a4, a5, a6, a7, a8, a9, a10>>))
<1> DEFINE s == <<a1, a2, a3, a4, a5, a6, a7, a8, a9, a10>>
<1>1. s = [i \in 1..10 |-> s[i]] /\ \A i \in 1..10 : Fit(p, g, r, s[i])
  OBVIOUS
<1> QED BY <1>1, AtTable

\* A controller of 11 handlers.
LEMMA Rows11 ==
  ASSUME NEW p, NEW g, NEW r, NEW a1, NEW a2, NEW a3, NEW a4, NEW a5, NEW a6, NEW a7, NEW a8,
         NEW a9, NEW a10, NEW a11,
         Fit(p, g, r, a1), Fit(p, g, r, a2), Fit(p, g, r, a3), Fit(p, g, r, a4),
         Fit(p, g, r, a5), Fit(p, g, r, a6), Fit(p, g, r, a7), Fit(p, g, r, a8),
         Fit(p, g, r, a9), Fit(p, g, r, a10), Fit(p, g, r, a11)
  PROVE  GuardedTable(At(p, g, r, <<a1, a2, a3, a4, a5, a6, a7, a8, a9, a10, a11>>))
<1> DEFINE s == <<a1, a2, a3, a4, a5, a6, a7, a8, a9, a10, a11>>
<1>1. s = [i \in 1..11 |-> s[i]] /\ \A i \in 1..11 : Fit(p, g, r, s[i])
  OBVIOUS
<1> QED BY <1>1, AtTable

\* A controller of 12 handlers.
LEMMA Rows12 ==
  ASSUME NEW p, NEW g, NEW r, NEW a1, NEW a2, NEW a3, NEW a4, NEW a5, NEW a6, NEW a7, NEW a8,
         NEW a9, NEW a10, NEW a11, NEW a12,
         Fit(p, g, r, a1), Fit(p, g, r, a2), Fit(p, g, r, a3), Fit(p, g, r, a4),
         Fit(p, g, r, a5), Fit(p, g, r, a6), Fit(p, g, r, a7), Fit(p, g, r, a8),
         Fit(p, g, r, a9), Fit(p, g, r, a10), Fit(p, g, r, a11), Fit(p, g, r, a12)
  PROVE  GuardedTable(At(p, g, r, <<a1, a2, a3, a4, a5, a6, a7, a8, a9, a10, a11, a12>>))
<1> DEFINE s == <<a1, a2, a3, a4, a5, a6, a7, a8, a9, a10, a11, a12>>
<1>1. s = [i \in 1..12 |-> s[i]] /\ \A i \in 1..12 : Fit(p, g, r, s[i])
  OBVIOUS
<1> QED BY <1>1, AtTable

\* A controller of 13 handlers.
LEMMA Rows13 ==
  ASSUME NEW p, NEW g, NEW r, NEW a1, NEW a2, NEW a3, NEW a4, NEW a5, NEW a6, NEW a7, NEW a8,
         NEW a9, NEW a10, NEW a11, NEW a12, NEW a13,
         Fit(p, g, r, a1), Fit(p, g, r, a2), Fit(p, g, r, a3), Fit(p, g, r, a4),
         Fit(p, g, r, a5), Fit(p, g, r, a6), Fit(p, g, r, a7), Fit(p, g, r, a8),
         Fit(p, g, r, a9), Fit(p, g, r, a10), Fit(p, g, r, a11), Fit(p, g, r, a12),
         Fit(p, g, r, a13)
  PROVE  GuardedTable(At(p, g, r, <<a1, a2, a3, a4, a5, a6, a7, a8, a9, a10, a11, a12, a13>>))
<1> DEFINE s == <<a1, a2, a3, a4, a5, a6, a7, a8, a9, a10, a11, a12, a13>>
<1>1. s = [i \in 1..13 |-> s[i]] /\ \A i \in 1..13 : Fit(p, g, r, s[i])
  OBVIOUS
<1> QED BY <1>1, AtTable

\* A controller of 14 handlers.
LEMMA Rows14 ==
  ASSUME NEW p, NEW g, NEW r, NEW a1, NEW a2, NEW a3, NEW a4, NEW a5, NEW a6, NEW a7, NEW a8,
         NEW a9, NEW a10, NEW a11, NEW a12, NEW a13, NEW a14,
         Fit(p, g, r, a1), Fit(p, g, r, a2), Fit(p, g, r, a3), Fit(p, g, r, a4),
         Fit(p, g, r, a5), Fit(p, g, r, a6), Fit(p, g, r, a7), Fit(p, g, r, a8),
         Fit(p, g, r, a9), Fit(p, g, r, a10), Fit(p, g, r, a11), Fit(p, g, r, a12),
         Fit(p, g, r, a13), Fit(p, g, r, a14)
  PROVE  GuardedTable(At(p, g, r, <<a1, a2, a3, a4, a5, a6, a7, a8, a9, a10, a11, a12, a13, a14>>))
<1> DEFINE s == <<a1, a2, a3, a4, a5, a6, a7, a8, a9, a10, a11, a12, a13, a14>>
<1>1. s = [i \in 1..14 |-> s[i]] /\ \A i \in 1..14 : Fit(p, g, r, s[i])
  OBVIOUS
<1> QED BY <1>1, AtTable

\* A controller of 15 handlers.
LEMMA Rows15 ==
  ASSUME NEW p, NEW g, NEW r, NEW a1, NEW a2, NEW a3, NEW a4, NEW a5, NEW a6, NEW a7, NEW a8,
         NEW a9, NEW a10, NEW a11, NEW a12, NEW a13, NEW a14, NEW a15,
         Fit(p, g, r, a1), Fit(p, g, r, a2), Fit(p, g, r, a3), Fit(p, g, r, a4),
         Fit(p, g, r, a5), Fit(p, g, r, a6), Fit(p, g, r, a7), Fit(p, g, r, a8),
         Fit(p, g, r, a9), Fit(p, g, r, a10), Fit(p, g, r, a11), Fit(p, g, r, a12),
         Fit(p, g, r, a13), Fit(p, g, r, a14), Fit(p, g, r, a15)
  PROVE  GuardedTable(At(p, g, r, <<a1, a2, a3, a4, a5, a6, a7, a8, a9, a10, a11, a12, a13,
                                    a14, a15>>))
<1> DEFINE s == <<a1, a2, a3, a4, a5, a6, a7, a8, a9, a10, a11, a12, a13, a14, a15>>
<1>1. s = [i \in 1..15 |-> s[i]] /\ \A i \in 1..15 : Fit(p, g, r, s[i])
  OBVIOUS
<1> QED BY <1>1, AtTable

\* A controller of 21 handlers.
LEMMA Rows21 ==
  ASSUME NEW p, NEW g, NEW r, NEW a1, NEW a2, NEW a3, NEW a4, NEW a5, NEW a6, NEW a7, NEW a8,
         NEW a9, NEW a10, NEW a11, NEW a12, NEW a13, NEW a14, NEW a15, NEW a16, NEW a17, NEW a18,
         NEW a19, NEW a20, NEW a21,
         Fit(p, g, r, a1), Fit(p, g, r, a2), Fit(p, g, r, a3), Fit(p, g, r, a4),
         Fit(p, g, r, a5), Fit(p, g, r, a6), Fit(p, g, r, a7), Fit(p, g, r, a8),
         Fit(p, g, r, a9), Fit(p, g, r, a10), Fit(p, g, r, a11), Fit(p, g, r, a12),
         Fit(p, g, r, a13), Fit(p, g, r, a14), Fit(p, g, r, a15), Fit(p, g, r, a16),
         Fit(p, g, r, a17), Fit(p, g, r, a18), Fit(p, g, r, a19), Fit(p, g, r, a20),
         Fit(p, g, r, a21)
  PROVE  GuardedTable(At(p, g, r, <<a1, a2, a3, a4, a5, a6, a7, a8, a9, a10, a11, a12, a13,
                                    a14, a15, a16, a17, a18, a19, a20, a21>>))
<1> DEFINE s == <<a1, a2, a3, a4, a5, a6, a7, a8, a9, a10, a11, a12, a13, a14, a15, a16, a17,
                  a18, a19, a20, a21>>
<1>1. s = [i \in 1..21 |-> s[i]] /\ \A i \in 1..21 : Fit(p, g, r, s[i])
  OBVIOUS
<1> QED BY <1>1, AtTable

\* A handler without guards of its own; one that reads no token.
Handler(r) == IsRoute(r) /\ r.guards = <<>> /\ r.roles = {}
Anonymous(r) == Handler(r) /\ r.reads # "sub"

\* Short lists put together.
LEMMA Joined == \A a, b, c : <<a>> \o <<b>> = <<a, b>> /\ <<a>> \o <<b, c>> = <<a, b, c>>
<1> SUFFICES ASSUME NEW a, NEW b, NEW c
             PROVE  <<a>> \o <<b>> = <<a, b>> /\ <<a>> \o <<b, c>> = <<a, b, c>>
  OBVIOUS
<1> DEFINE S == {a, b, c}
           s == <<a>> \o <<b>>
           t == <<a>> \o <<b, c>>
<1>1. /\ s \in Seq(S) /\ Len(s) = 2 /\ s[1] = a /\ s[2] = b
      /\ t \in Seq(S) /\ Len(t) = 3 /\ t[1] = a /\ t[2] = b /\ t[3] = c
  <2> HIDE DEF S
  <2>1. a \in S /\ b \in S /\ c \in S
    BY DEF S
  <2> QED BY <2>1
<1> HIDE DEF s, t, S
<1>2. s = <<s[1], s[2]>> /\ t = <<t[1], t[2], t[3]>>
  BY <1>1
<1> QED BY <1>1, <1>2 DEF s, t

\* The first two of three segments.
LEMMA FirstTwo == ASSUME NEW a, NEW b, NEW c PROVE SubSeq(<<a, b, c>>, 1, 2) = <<a, b>>
<1> DEFINE S == {a, b, c}
           s == SubSeq(<<a, b, c>>, 1, 2)
<1>1. /\ s \in Seq(S) /\ Len(s) = 2 /\ s[1] = a /\ s[2] = b
  <2> HIDE DEF S
  <2>1. a \in S /\ b \in S /\ c \in S
    BY DEF S
  <2>2. <<a, b, c>> \in Seq(S)
    BY <2>1
  <2>3. s \in Seq(S) /\ Len(s) = 2
    BY <2>2
  <2>4. s[1] = a
    BY <2>2
  <2>5. s[2] = b
    BY <2>2
  <2> QED BY <2>3, <2>4, <2>5
<1> HIDE DEF s, S
<1>2. s = <<s[1], s[2]>>
  BY <1>1
<1> QED BY <1>1, <1>2 DEF s

\* @Get, @Post, @Put, @Patch and @Delete alone give a handler without guards.
LEMMA Verbs ==
  \A p : /\ Anonymous(GET(p)) /\ Anonymous(POST(p)) /\ Anonymous(PUT(p))
         /\ Anonymous(PATCH(p)) /\ Anonymous(DELETE(p))
  BY DEF Anonymous, Handler, IsRoute, GET, POST, PUT, PATCH, DELETE, Route

\* What a handler reads, and its scope, leave it without guards.
LEMMA Readers ==
  /\ \A r : Anonymous(r) => Handler(r)
  /\ \A r : Handler(r) => Handler(Own(r)) /\ Anonymous(ById(r)) /\ Anonymous(ByUser(r))
  /\ \A s, r : Handler(r) => Handler(Scope(s, r))
<1>1. \A r : /\ Own(r) = SetReads(r, "sub") /\ ById(r) = SetReads(r, "id")
             /\ ByUser(r) = SetReads(r, "user")
  BY DEF Own, ById, ByUser, SetReads
<1>2. \A r, s : Scope(s, r) = SetScope(r, s)
  BY DEF Scope, SetScope
<1> QED BY <1>1, <1>2, FieldSet DEF Anonymous, Handler, SameBut

\* What @UseGuards and @Roles on a handler change.
LEMMA WithIs ==
  ASSUME NEW gs, NEW rs, NEW r, Handler(r)
  PROVE  LET w == With(gs, rs, r)
         IN  IsRoute(w) /\ w.guards = gs /\ w.roles = rs /\ w.reads = r.reads /\ w.path = r.path
<1>1. With(gs, rs, r) = SetRoles(SetGuards(r, gs), rs)
  BY DEF With, SetRoles, SetGuards
<1> QED BY <1>1, FieldSet DEF SameBut, Handler

\* The guards are enough for a handler with these roles that reads this identity.
Suffice(gs, rs, reads) ==
    /\ gs \in Seq(GuardNames)
    /\ reads = "sub" => Authenticated(gs)
    /\ rs # {} => RoleChecked(gs)
    /\ CallerCounted(gs)

\* Enough guards make a guarded route.
LEMMA SufficeFits ==
  ASSUME NEW c, IsRoute(c), Suffice(c.guards, c.roles, c.reads)
  PROVE  Guarded(c)
  BY DEF Guarded, Suffice

\* A handler without guards of its own, behind those of its class.
LEMMA HandlerFits ==
  ASSUME NEW prefix, NEW gs, NEW rs, NEW r, Handler(r), Suffice(gs, rs, r.reads)
  PROVE  Fit(prefix, gs, rs, r)
<1> DEFINE c == InClass(prefix, gs, rs, r)
<1>1. gs \o <<>> = gs
  BY DEF Suffice
<1>2. /\ IsRoute(c) /\ c.guards = gs \o r.guards /\ c.reads = r.reads
      /\ c.roles = Declares(r.roles, rs)
  <2>1. IsRoute(r)
    BY DEF Handler
  <2> QED BY <2>1, InClassIs
<1> HIDE DEF c
<1>3. IsRoute(c) /\ c.guards = gs /\ c.roles = rs /\ c.reads = r.reads
  BY <1>1, <1>2 DEF Handler, Declares
<1> QED BY <1>3, SufficeFits DEF Fit, c

\* A handler with guards of its own, behind those of its class.
LEMMA WithFits ==
  ASSUME NEW prefix, NEW cs, NEW gs, NEW crs, NEW rs, NEW r, Handler(r),
         Suffice(cs \o gs, Declares(rs, crs), r.reads)
  PROVE  Fit(prefix, cs, crs, With(gs, rs, r))
<1> DEFINE w == With(gs, rs, r)
           c == InClass(prefix, cs, crs, w)
<1>1. IsRoute(w) /\ w.guards = gs /\ w.roles = rs /\ w.reads = r.reads
  BY WithIs
<1> HIDE DEF w
<1>2. /\ IsRoute(c) /\ c.guards = cs \o w.guards /\ c.reads = w.reads
      /\ c.roles = Declares(w.roles, crs)
  BY <1>1, InClassIs
<1> HIDE DEF c
<1> QED BY <1>1, <1>2, SufficeFits DEF Fit, c, w

\* The lists of guards that the controllers use, and what each is enough for.
LEMMA GuardLists ==
  /\ \A reads : /\ Suffice(<<"jwt">>, {}, reads) /\ Suffice(<<"key">>, {}, reads)
                /\ Suffice(<<"jwt", "key", "scopes">>, {}, reads)
                /\ Suffice(<<"jwt", "fresh">>, {}, reads)
                /\ Suffice(<<"jwt", "callerLimit">>, {}, reads)
                /\ \A rs : /\ Suffice(<<"jwt", "roles">>, rs, reads)
                          /\ Suffice(<<"jwt", "roles", "callerLimit">>, rs, reads)
  /\ \A reads : reads # "sub" => /\ Suffice(<<>>, {}, reads) /\ Suffice(<<"metrics">>, {}, reads)
                                 /\ Suffice(<<"clientLimit">>, {}, reads)
                                 /\ Suffice(<<"google">>, {}, reads)
                                 /\ Suffice(<<"optional">>, {}, reads)
  BY DEF Suffice, Authenticated, RoleChecked, CallerCounted, Identifies, GuardNames

\* In a class without guards.
LEMMA OpenClass ==
  /\ \A p, r : Anonymous(r) => Fit(p, <<>>, {}, r)
  /\ \A p, r, g : Anonymous(r) /\ g \in {"clientLimit", "google", "optional"} =>
        Fit(p, <<>>, {}, With(<<g>>, {}, r))
  /\ \A p, r : Handler(r) =>
        /\ Fit(p, <<>>, {}, Jwt(r)) /\ Fit(p, <<>>, {}, Adm(r))
        /\ Fit(p, <<>>, {}, With(<<"key">>, {}, r))
        /\ Fit(p, <<>>, {}, With(<<"jwt", "fresh">>, {}, r))
        /\ Fit(p, <<>>, {}, With(<<"jwt", "callerLimit">>, {}, r))
        /\ \A rs : /\ Fit(p, <<>>, {}, With(<<"jwt", "roles">>, rs, r))
                  /\ Fit(p, <<>>, {}, With(<<"jwt", "roles", "callerLimit">>, rs, r))
<1>0. \A gs : gs \in Seq(GuardNames) => <<>> \o gs = gs
  OBVIOUS
<1>1. ASSUME NEW p, NEW r, Handler(r), NEW gs, NEW rs, Suffice(gs, rs, r.reads)
      PROVE  Fit(p, <<>>, {}, With(gs, rs, r))
  <2>1. Suffice(<<>> \o gs, Declares(rs, {}), r.reads)
    BY <1>0, <1>1 DEF Suffice, Declares
  <2> QED BY <1>1, <2>1, WithFits
<1>2. \A p, r : Anonymous(r) => Fit(p, <<>>, {}, r)
  BY HandlerFits, GuardLists DEF Anonymous
<1>3. ASSUME NEW p, NEW r, NEW g \in {"clientLimit", "google", "optional"}, Anonymous(r)
      PROVE  Fit(p, <<>>, {}, With(<<g>>, {}, r))
  BY <1>1, <1>3, GuardLists DEF Anonymous
<1>4. ASSUME NEW p, NEW r, Handler(r)
      PROVE  /\ Fit(p, <<>>, {}, Jwt(r)) /\ Fit(p, <<>>, {}, Adm(r))
             /\ Fit(p, <<>>, {}, With(<<"key">>, {}, r))
             /\ Fit(p, <<>>, {}, With(<<"jwt", "fresh">>, {}, r))
             /\ Fit(p, <<>>, {}, With(<<"jwt", "callerLimit">>, {}, r))
             /\ \A rs : /\ Fit(p, <<>>, {}, With(<<"jwt", "roles">>, rs, r))
                       /\ Fit(p, <<>>, {}, With(<<"jwt", "roles", "callerLimit">>, rs, r))
  <2>1. Jwt(r) = With(<<"jwt">>, {}, r) /\ Adm(r) = With(<<"jwt", "roles">>, {"ADMIN"}, r)
    BY DEF Jwt, Adm
  <2> QED BY <1>1, <1>4, <2>1, GuardLists
<1> QED BY <1>2, <1>3, <1>4

\* In a class that authenticates.
LEMMA AuthenticatedClass ==
  \A p, r : Handler(r) =>
     /\ Fit(p, <<"jwt">>, {}, r) /\ Fit(p, <<"jwt", "key", "scopes">>, {}, r)
     /\ \A rs : /\ Fit(p, <<"jwt">>, {}, With(<<"roles">>, rs, r))
               /\ Fit(p, <<"jwt", "roles">>, rs, r)
               /\ Fit(p, <<"jwt", "roles">>, {}, With(<<>>, rs, r))
<1>1. ASSUME NEW p, NEW r, Handler(r), NEW rs
      PROVE  /\ Fit(p, <<"jwt">>, {}, With(<<"roles">>, rs, r))
             /\ Fit(p, <<"jwt", "roles">>, {}, With(<<>>, rs, r))
  <2>0. <<"jwt", "roles">> \o <<>> = <<"jwt", "roles">>
    OBVIOUS
  <2>1. /\ <<"jwt">> \o <<"roles">> = <<"jwt", "roles">>
        /\ <<"jwt", "roles">> \o <<>> = <<"jwt", "roles">>
    BY <2>0, Joined
  <2>2. Suffice(<<"jwt", "roles">>, Declares(rs, {}), r.reads)
    BY GuardLists DEF Declares
  <2> QED BY <1>1, <2>1, <2>2, WithFits
<1> QED BY <1>1, HandlerFits, GuardLists

\* The class of the metrics endpoint, which has a guard of its own.
LEMMA MetricsClass == \A p, r : Anonymous(r) => Fit(p, <<"metrics">>, {}, r)
  BY HandlerFits, GuardLists DEF Anonymous

\* A handler whose guards count before they authenticate, on a bulk route.
LEMMA BulkFits ==
  ASSUME NEW prefix, NEW cs, NEW crs, NEW gs, NEW rs, NEW r, Handler(r), cs \o gs = gs,
         gs \in Seq(GuardNames), Authenticated(gs), RoleChecked(gs), Bulk(prefix \o r.path)
  PROVE  Fit(prefix, cs, crs, With(gs, rs, r))
<1> DEFINE w == With(gs, rs, r)
           c == InClass(prefix, cs, crs, w)
<1>1. IsRoute(w) /\ w.guards = gs /\ w.path = r.path
  BY WithIs
<1> HIDE DEF w
<1>2. IsRoute(c) /\ c.guards = cs \o w.guards
  BY <1>1, InClassIs
<1>3. c.path = prefix \o w.path
  BY <1>1, InClassIs
<1> HIDE DEF c
<1>4. IsRoute(c) /\ c.guards = gs /\ c.path = prefix \o r.path
  BY <1>1, <1>2, <1>3
<1> QED BY <1>4 DEF Guarded, Fit, c, w

\* The bulk routes of the listings, whose limit runs before JwtAuthGuard.
LEMMA BulkClass ==
  \A last : Fit(<<"properties">>, <<>>, {},
                With(<<"callerLimit", "jwt", "roles">>, {"ADMIN"}, Own(POST(<<"bulk", last>>))))
<1> SUFFICES ASSUME NEW last
             PROVE  Fit(<<"properties">>, <<>>, {},
                        With(<<"callerLimit", "jwt", "roles">>, {"ADMIN"},
                             Own(POST(<<"bulk", last>>))))
  OBVIOUS
<1> DEFINE gs == <<"callerLimit", "jwt", "roles">>
           r == Own(POST(<<"bulk", last>>))
<1>1. Handler(r) /\ r.path = <<"bulk", last>>
  <2>1. /\ r = SetReads(POST(<<"bulk", last>>), "sub")
        /\ POST(<<"bulk", last>>).path = <<"bulk", last>>
    BY DEF Own, SetReads, POST, Route
  <2> QED BY <2>1, Verbs, Readers, FieldSet DEF Anonymous, Handler, SameBut
<1>2. <<>> \o gs = gs /\ <<"properties">> \o <<"bulk", last>> = <<"properties", "bulk", last>>
  BY Joined
<1>3. Bulk(<<"properties">> \o r.path)
  <2>1. Bulk(<<"properties", "bulk", last>>)
    BY FirstTwo DEF Bulk
  <2> QED BY <1>1, <1>2, <2>1
<1>4. gs \in Seq(GuardNames) /\ Authenticated(gs) /\ RoleChecked(gs)
  BY DEF GuardNames, Authenticated, RoleChecked, Identifies
<1> QED BY <1>1, <1>2, <1>3, <1>4, BulkFits

\* Every controller of the source is a table of guarded routes: no handler reads the caller
\* or asks for a role that the guards in front of it have not established.
LEMMA ControllersGuarded ==
    /\ GuardedTable(AppController)
    /\ GuardedTable(CacheStatsController)
    /\ GuardedTable(AnalyticsController)
    /\ GuardedTable(AuthController_Session)
    /\ GuardedTable(AuthController_Keys)
    /\ GuardedTable(RateLimitAdminController)
    /\ GuardedTable(AuthHealthController)
    /\ GuardedTable(UsersHealthController)
    /\ GuardedTable(UsersController_Manage)
    /\ GuardedTable(UsersController_Profile)
    /\ GuardedTable(UsersController_Account)
    /\ GuardedTable(UserPreferencesController)
    /\ GuardedTable(ActivityLogController)
    /\ GuardedTable(AdminActivityLogController)
    /\ GuardedTable(EmailVerificationController)
    /\ GuardedTable(UserImportController)
    /\ GuardedTable(SessionsController)
    /\ GuardedTable(EmailWebhookController)
    /\ GuardedTable(TrackingController)
    /\ GuardedTable(NotificationsController)
    /\ GuardedTable(QueueController)
    /\ GuardedTable(ApiDocsController)
    /\ GuardedTable(DashboardController)
    /\ GuardedTable(TrustScoreController)
    /\ GuardedTable(PropertiesHealthController)
    /\ GuardedTable(PropertiesController_List)
    /\ GuardedTable(PropertiesController_One)
    /\ GuardedTable(PropertiesController_Moderate)
    /\ GuardedTable(PropertiesController_Relations)
    /\ GuardedTable(PropertyImagesController)
    /\ GuardedTable(DocumentsController)
    /\ GuardedTable(DocumentsDownloadController)
    /\ GuardedTable(AdminController_Operations)
    /\ GuardedTable(AdminController_Fraud)
    /\ GuardedTable(AdminController_Jobs)
    /\ GuardedTable(TransactionsController_Main)
    /\ GuardedTable(TransactionsController_Chain)
    /\ GuardedTable(TransactionsController_Audit)
    /\ GuardedTable(DisputesController)
    /\ GuardedTable(BlockchainController)
    /\ GuardedTable(CommissionsController)
    /\ GuardedTable(IntegrationsController)
    /\ GuardedTable(SearchController)
    /\ GuardedTable(FavoritesController)
    /\ GuardedTable(PropertyViewsController)
    /\ GuardedTable(PropertyComparisonController)
    /\ GuardedTable(OpenHouseController)
    /\ GuardedTable(MortgageCalculatorController)
    /\ GuardedTable(InvestmentsController)
    /\ GuardedTable(SupportTicketsController)
    /\ GuardedTable(MetricsController)
    /\ GuardedTable(PropertyTaxController)
    /\ GuardedTable(HealthController)
    /\ GuardedTable(PaymentController)
    /\ GuardedTable(InvestmentController)
    /\ GuardedTable(ContentController)
    /\ GuardedTable(DuplicateDetectionController)
    /\ GuardedTable(EmailDigestController)
    /\ GuardedTable(ListingsController)
    /\ GuardedTable(NeighborhoodsController)
    /\ GuardedTable(TimelineController)
    /\ GuardedTable(TransactionDocumentsController)
    /\ GuardedTable(AvatarUploadController)
    /\ GuardedTable(VerificationDocumentsController)
    /\ GuardedTable(AdminVerificationDocumentsController)
    /\ GuardedTable(WebhooksController)
<1>1. GuardedTable(AppController)
  BY Rows4, Verbs, OpenClass DEF AppController
<1>2. GuardedTable(CacheStatsController)
  BY Rows3, Verbs, Readers, AuthenticatedClass DEF CacheStatsController
<1>3. GuardedTable(AnalyticsController)
  BY Rows7, Verbs, Readers, AuthenticatedClass DEF AnalyticsController
<1>4. GuardedTable(AuthController_Session)
  BY Rows15, Verbs, Readers, OpenClass DEF AuthController_Session
<1>5. GuardedTable(AuthController_Keys)
  BY Rows14, Verbs, Readers, OpenClass DEF AuthController_Keys
<1>6. GuardedTable(RateLimitAdminController)
  BY Rows7, Verbs, Readers, AuthenticatedClass DEF RateLimitAdminController
<1>7. GuardedTable(AuthHealthController)
  BY Rows1, Verbs, OpenClass DEF AuthHealthController
<1>8. GuardedTable(UsersHealthController)
  BY Rows1, Verbs, OpenClass DEF UsersHealthController
<1>9. GuardedTable(UsersController_Manage)
  BY Rows10, Verbs, Readers, OpenClass DEF UsersController_Manage
<1>10. GuardedTable(UsersController_Profile)
  BY Rows8, Verbs, Readers, OpenClass DEF UsersController_Profile
<1>11. GuardedTable(UsersController_Account)
  BY Rows12, Verbs, Readers, OpenClass DEF UsersController_Account
<1>12. GuardedTable(UserPreferencesController)
  BY Rows6, Verbs, Readers, AuthenticatedClass DEF UserPreferencesController
<1>13. GuardedTable(ActivityLogController)
  BY Rows1, Verbs, Readers, AuthenticatedClass DEF ActivityLogController
<1>14. GuardedTable(AdminActivityLogController)
  BY Rows1, Verbs, Readers, AuthenticatedClass DEF AdminActivityLogController
<1>15. GuardedTable(EmailVerificationController)
  BY Rows4, Verbs, Readers, AuthenticatedClass DEF EmailVerificationController
<1>16. GuardedTable(UserImportController)
  BY Rows1, Verbs, Readers, OpenClass DEF UserImportController
<1>17. GuardedTable(SessionsController)
  BY Rows5, Verbs, Readers, AuthenticatedClass DEF SessionsController
<1>18. GuardedTable(EmailWebhookController)
  BY Rows3, Verbs, Readers, OpenClass DEF EmailWebhookController
<1>19. GuardedTable(TrackingController)
  BY Rows3, Verbs, OpenClass DEF TrackingController
<1>20. GuardedTable(NotificationsController)
  BY Rows6, Verbs, Readers, AuthenticatedClass DEF NotificationsController
<1>21. GuardedTable(QueueController)
  BY Rows6, Verbs, Readers, AuthenticatedClass DEF QueueController
<1>22. GuardedTable(ApiDocsController)
  BY Rows7, Verbs, OpenClass DEF ApiDocsController
<1>23. GuardedTable(DashboardController)
  BY Rows1, Verbs, Readers, AuthenticatedClass DEF DashboardController
<1>24. GuardedTable(TrustScoreController)
  BY Rows9, Verbs, Readers, AuthenticatedClass DEF TrustScoreController
<1>25. GuardedTable(PropertiesHealthController)
  BY Rows1, Verbs, OpenClass DEF PropertiesHealthController
<1>26. GuardedTable(PropertiesController_List)
  BY Rows2, Verbs, Readers, OpenClass DEF PropertiesController_List
<1>27. GuardedTable(PropertiesController_One)
  BY Rows6, Verbs, Readers, OpenClass DEF PropertiesController_One
<1>28. GuardedTable(PropertiesController_Moderate)
  BY Rows6, Verbs, Readers, OpenClass, BulkClass DEF PropertiesController_Moderate
<1>29. GuardedTable(PropertiesController_Relations)
  BY Rows8, Verbs, Readers, OpenClass DEF PropertiesController_Relations
<1>30. GuardedTable(PropertyImagesController)
  BY Rows6, Verbs, Readers, OpenClass DEF PropertyImagesController
<1>31. GuardedTable(DocumentsController)
  BY Rows14, Verbs, Readers, AuthenticatedClass DEF DocumentsController
<1>32. GuardedTable(DocumentsDownloadController)
  BY Rows4, Verbs, Readers, AuthenticatedClass DEF DocumentsDownloadController
<1>33. GuardedTable(AdminController_Operations)
  BY Rows21, Verbs, Readers, AuthenticatedClass DEF AdminController_Operations
<1>34. GuardedTable(AdminController_Fraud)
  BY Rows11, Verbs, Readers, AuthenticatedClass DEF AdminController_Fraud
<1>35. GuardedTable(AdminController_Jobs)
  BY Rows8, Verbs, Readers, AuthenticatedClass DEF AdminController_Jobs
<1>36. GuardedTable(TransactionsController_Main)
  BY Rows5, Verbs, Readers, AuthenticatedClass DEF TransactionsController_Main
<1>37. GuardedTable(TransactionsController_Chain)
  BY Rows8, Verbs, Readers, AuthenticatedClass DEF TransactionsController_Chain
<1>38. GuardedTable(TransactionsController_Audit)
  BY Rows1, Verbs, Readers, AuthenticatedClass DEF TransactionsController_Audit
<1>39. GuardedTable(DisputesController)
  BY Rows6, Verbs, Readers, AuthenticatedClass DEF DisputesController
<1>40. GuardedTable(BlockchainController)
  BY Rows8, Verbs, Readers, AuthenticatedClass DEF BlockchainController
<1>41. GuardedTable(CommissionsController)
  BY Rows3, Verbs, Readers, AuthenticatedClass DEF CommissionsController
<1>42. GuardedTable(IntegrationsController)
  BY Rows6, Verbs, Readers, AuthenticatedClass DEF IntegrationsController
<1>43. GuardedTable(SearchController)
  BY Rows7, Verbs, Readers, AuthenticatedClass DEF SearchController
<1>44. GuardedTable(FavoritesController)
  BY Rows6, Verbs, Readers, OpenClass DEF FavoritesController
<1>45. GuardedTable(PropertyViewsController)
  BY Rows6, Verbs, Readers, OpenClass DEF PropertyViewsController
<1>46. GuardedTable(PropertyComparisonController)
  BY Rows8, Verbs, Readers, OpenClass DEF PropertyComparisonController
<1>47. GuardedTable(OpenHouseController)
  BY Rows13, Verbs, Readers, OpenClass DEF OpenHouseController
<1>48. GuardedTable(MortgageCalculatorController)
  BY Rows4, Verbs, OpenClass DEF MortgageCalculatorController
<1>49. GuardedTable(InvestmentsController)
  BY Rows2, Verbs, OpenClass DEF InvestmentsController
<1>50. GuardedTable(SupportTicketsController)
  BY Rows11, Verbs, Readers, AuthenticatedClass DEF SupportTicketsController
<1>51. GuardedTable(MetricsController)
  BY Rows1, Verbs, Readers, MetricsClass DEF MetricsController
<1>52. GuardedTable(PropertyTaxController)
  BY Rows3, Verbs, Readers, OpenClass DEF PropertyTaxController
<1>53. GuardedTable(HealthController)
  BY Rows3, Verbs, OpenClass DEF HealthController
<1>54. GuardedTable(PaymentController)
  BY Rows3, Verbs, OpenClass DEF PaymentController
<1>55. GuardedTable(InvestmentController)
  BY Rows1, Verbs, OpenClass DEF InvestmentController
<1>56. GuardedTable(ContentController)
  BY Rows8, Verbs, OpenClass DEF ContentController
<1>57. GuardedTable(DuplicateDetectionController)
  BY Rows8, Verbs, Readers, OpenClass DEF DuplicateDetectionController
<1>58. GuardedTable(EmailDigestController)
  BY Rows3, Verbs, Readers, OpenClass DEF EmailDigestController
<1>59. GuardedTable(ListingsController)
  BY Rows2, Verbs, OpenClass DEF ListingsController
<1>60. GuardedTable(NeighborhoodsController)
  BY Rows14, Verbs, Readers, OpenClass DEF NeighborhoodsController
<1>61. GuardedTable(TimelineController)
  BY Rows3, Verbs, Readers, AuthenticatedClass DEF TimelineController
<1>62. GuardedTable(TransactionDocumentsController)
  BY Rows6, Verbs, Readers, AuthenticatedClass DEF TransactionDocumentsController
<1>63. GuardedTable(AvatarUploadController)
  BY Rows4, Verbs, Readers, AuthenticatedClass DEF AvatarUploadController
<1>64. GuardedTable(VerificationDocumentsController)
  BY Rows5, Verbs, Readers, AuthenticatedClass DEF VerificationDocumentsController
<1>65. GuardedTable(AdminVerificationDocumentsController)
  BY Rows3, Verbs, Readers, AuthenticatedClass DEF AdminVerificationDocumentsController
<1>66. GuardedTable(WebhooksController)
  BY Rows9, Verbs, Readers, AuthenticatedClass DEF WebhooksController
<1> QED BY <1>1, <1>2, <1>3, <1>4, <1>5, <1>6, <1>7, <1>8, <1>9, <1>10, <1>11, <1>12, <1>13,
          <1>14, <1>15, <1>16, <1>17, <1>18, <1>19, <1>20, <1>21, <1>22, <1>23, <1>24, <1>25,
          <1>26, <1>27, <1>28, <1>29, <1>30, <1>31, <1>32, <1>33, <1>34, <1>35, <1>36, <1>37,
          <1>38, <1>39, <1>40, <1>41, <1>42, <1>43, <1>44, <1>45, <1>46, <1>47, <1>48, <1>49,
          <1>50, <1>51, <1>52, <1>53, <1>54, <1>55, <1>56, <1>57, <1>58, <1>59, <1>60, <1>61,
          <1>62, <1>63, <1>64, <1>65, <1>66

\* Two tables of guarded routes, one after the other.
LEMMA TablesJoined ==
  ASSUME NEW s, NEW t, GuardedTable(s), GuardedTable(t)
  PROVE  GuardedTable(s \o t) /\ Len(s \o t) = Len(s) + Len(t)
<1> DEFINE S == {s[i] : i \in 1..Len(s)} \cup {t[i] : i \in 1..Len(t)}
<1>1. s \in Seq(S) /\ t \in Seq(S) /\ \A r \in S : Guarded(r)
  <2>1. s = [i \in 1..Len(s) |-> s[i]] /\ t = [i \in 1..Len(t) |-> t[i]]
        /\ Len(s) \in Nat /\ Len(t) \in Nat
    BY DEF GuardedTable
  <2>2. \A i \in 1..Len(s) : s[i] \in S
    OBVIOUS
  <2>3. \A i \in 1..Len(t) : t[i] \in S
    OBVIOUS
  <2>4. \A r \in S : Guarded(r)
    BY DEF GuardedTable
  <2> HIDE DEF S
  <2> QED BY <2>1, <2>2, <2>3, <2>4
<1> HIDE DEF S
<1>2. s \o t \in Seq(S) /\ Len(s \o t) = Len(s) + Len(t)
  BY <1>1
<1> DEFINE st == s \o t
<1> HIDE DEF st
<1>3. st \in Seq(S) /\ Len(st) = Len(s) + Len(t)
  BY <1>2 DEF st
<1>4. Len(st) \in Nat /\ st = [i \in 1..Len(st) |-> st[i]] /\ \A i \in 1..Len(st) : st[i] \in S
  BY <1>3
<1> QED BY <1>1, <1>3, <1>4 DEF GuardedTable, st

\* So are the router and the list of all declared endpoints.
LEMMA RouterGuarded == GuardedTable(Router) /\ GuardedTable(Declared)
<1>1. GuardedTable(UsersModule)
  BY ControllersGuarded, TablesJoined DEF UsersModule
<1>2. GuardedTable(PropertiesModule)
  BY ControllersGuarded, TablesJoined DEF PropertiesModule
<1>3. GuardedTable(Router)
  BY ControllersGuarded, TablesJoined, <1>1, <1>2 DEF Router
<1>4. GuardedTable(Unregistered)
  BY ControllersGuarded, TablesJoined DEF Unregistered
<1> QED BY <1>3, <1>4, TablesJoined DEF Declared

\* A set of numbers up to n has a least member.
LEMMA LeastExists ==
  ASSUME NEW n \in Nat, NEW S \in SUBSET (1..n), S # {}
  PROVE  \E x \in S : \A y \in S : x <= y
<1> DEFINE T == {y \in 0..n : n - y \in S}
<1>1. T \in SUBSET Nat /\ T # {} /\ IsFiniteSet(T)
  <2>1. PICK x \in S : TRUE
    OBVIOUS
  <2>2. n - x \in T
    OBVIOUS
  <2>3. IsFiniteSet(0..n)
    BY FS_Interval
  <2>4. T \subseteq 0..n /\ T \in SUBSET Nat
    OBVIOUS
  <2> HIDE DEF T
  <2> QED BY <2>2, <2>3, <2>4, FS_Subset
<1>2. PICK y \in T : \A z \in T : z <= y
  BY <1>1, GreatestExists
<1>3. ASSUME NEW x \in S PROVE n - y <= x
  <2>1. n - x \in T
    OBVIOUS
  <2>2. n - x <= y
    BY <1>2, <2>1
  <2> QED BY <2>2
<1> QED BY <1>3

\* The router and the declared endpoints are sequences.
LEMMA Lengths == Len(Router) \in Nat /\ DOMAIN Router = 1..Len(Router)
                 /\ Len(Declared) \in Nat /\ DOMAIN Declared = 1..Len(Declared)
  BY RouterGuarded DEF GuardedTable

\* The route that serves an endpoint is the first registered one that matches.
LEMMA ServedRegistered ==
  ASSUME NEW e \in DOMAIN Declared
  PROVE  /\ Served[e] \in 0..Len(Router)
         /\ Served[e] # 0 => Matches(Router[Served[e]], Declared[e])
         /\ \A i \in 1..Len(Router) :
               Matches(Router[i], Declared[e]) => Served[e] # 0 /\ Served[e] <= i
<1> DEFINE fits == {i \in DOMAIN Router : Matches(Router[i], Declared[e])}
<1>1. Served[e] = IF fits = {} THEN 0 ELSE CHOOSE i \in fits : \A j \in fits : i <= j
  BY DEF Served
<1>2. CASE fits = {}
  BY <1>1, <1>2, Lengths
<1>3. CASE fits # {}
  <2>1. \E i \in fits : \A j \in fits : i <= j
    BY <1>3, Lengths, LeastExists
  <2>2. Served[e] \in fits /\ \A j \in fits : Served[e] <= j
    BY <1>1, <1>3, <2>1
  <2> QED BY <2>2, Lengths
<1> QED BY <1>2, <1>3

\* What a guard at the head of the list leaves to the guards behind it.
LEMMA NextGuard ==
  ASSUME NEW gs \in Seq(GuardNames), gs # <<>>
  PROVE  /\ Tail(gs) \in Seq(GuardNames)
         /\ Authenticated(gs) => Identifies(Head(gs)) \/ Authenticated(Tail(gs))
         /\ RoleChecked(gs) => Head(gs) = "roles" \/ RoleChecked(Tail(gs))
         /\ CallerCounted(gs) => /\ Head(gs) # "callerLimit"
                                 /\ ~Identifies(Head(gs)) => CallerCounted(Tail(gs))
<1> DEFINE ts == Tail(gs)
<1>1. /\ ts \in Seq(GuardNames) /\ Head(gs) = gs[1]
      /\ Len(gs) \in Nat \ {0} /\ DOMAIN gs = 1..Len(gs)
      /\ DOMAIN ts = 1..(Len(gs) - 1) /\ \A k \in DOMAIN ts : ts[k] = gs[k + 1]
  OBVIOUS
<1> HIDE DEF ts
<1>2. \A k \in DOMAIN gs : k = 1 \/ (k - 1 \in DOMAIN ts /\ ts[k - 1] = gs[k])
  BY <1>1
<1>3. Authenticated(gs) => Identifies(Head(gs)) \/ Authenticated(ts)
  BY <1>1, <1>2 DEF Authenticated
<1>4. RoleChecked(gs) => Head(gs) = "roles" \/ RoleChecked(ts)
  BY <1>1, <1>2 DEF RoleChecked
<1>5. ASSUME CallerCounted(gs) PROVE Head(gs) # "callerLimit"
  <2>1. \A j \in DOMAIN gs : ~(j < 1)
    BY <1>1
  <2> QED BY <1>1, <1>5, <2>1 DEF CallerCounted
<1>6. ASSUME CallerCounted(gs), ~Identifies(Head(gs)) PROVE CallerCounted(ts)
  <2> SUFFICES ASSUME NEW k \in DOMAIN ts, ts[k] = "callerLimit"
               PROVE  \E j \in DOMAIN ts : j < k /\ Identifies(ts[j])
    BY DEF CallerCounted
  <2>1. k + 1 \in DOMAIN gs /\ gs[k + 1] = "callerLimit"
    BY <1>1
  <2>2. PICK j \in DOMAIN gs : j < k + 1 /\ Identifies(gs[j])
    BY <1>6, <2>1 DEF CallerCounted
  <2>3. j # 1
    BY <1>1, <1>6, <2>2
  <2>4. j - 1 \in DOMAIN ts /\ ts[j - 1] = gs[j] /\ j - 1 < k
    BY <1>1, <1>2, <2>2, <2>3
  <2> QED BY <2>2, <2>4
<1> QED BY <1>1, <1>3, <1>4, <1>5, <1>6 DEF ts

\* The caller has a role that the route asks for.
Admitted == rtAuth # "none" /\ rtCaller.role \in ServingRoute.roles

\* What the guards still to run owe the handler, given what those before have established:
\* the caller, the role, and a caller to count the limit by.
RequestInv ==
    /\ RtTypeOK
    /\ rtTodo \in Seq(GuardNames)
    /\ rtAt \in {"guards", "handled", "failed"} => rtServed \in 1..Len(Router)
    /\ rtAt = "idle" => rtAuth = "none" /\ rtLimitKey = "none" /\ rtEndpoint = 0
    /\ rtAt = "guards" =>
          /\ rtAuth = "none" /\ ServingRoute.reads = "sub" => Authenticated(rtTodo)
          /\ ServingRoute.roles # {} /\ ~Admitted => RoleChecked(rtTodo)
          /\ rtAuth = "none" => CallerCounted(rtTodo) \/ Bulk(ServingRoute.path)
    /\ CallerIdentified /\ RoleRoutesGated
    /\ rtLimitKey = "address" => Bulk(ServingRoute.path)
    /\ rtEndpoint # 0 => rtEndpoint \in DOMAIN Declared /\ rtServed = Served[rtEndpoint]

\* No request has arrived.
LEMMA InitInv == RtInit => RequestInv
<1> SUFFICES ASSUME RtInit PROVE RequestInv
  OBVIOUS
<1>1. RtTypeOK
  <2>1. rtCaller \in Credentials
    BY DEF RtInit, Credentials
  <2>2. rtEndpoint \in 0..Len(Declared) /\ rtServed \in 0..Len(Router)
    BY Lengths DEF RtInit
  <2>3. \A i \in DOMAIN rtTodo : rtTodo[i] \in GuardNames
    BY DEF RtInit
  <2>4. rtUser \in BOOLEAN
    BY DEF RtInit
  <2>5. /\ rtAuth \in {"none", "token", "key"} /\ rtLimitKey \in {"none", "caller", "address"}
        /\ rtAt \in {"idle", "guards", "handled", "failed", "refused", "missing"}
    BY DEF RtInit
  <2> QED BY <2>1, <2>2, <2>3, <2>4, <2>5, Zenon DEF RtTypeOK, GuardNames
<1>2. rtTodo \in Seq(GuardNames)
  BY DEF RtInit
<1> QED BY <1>1, <1>2 DEF RtInit, RequestInv, CallerIdentified, RoleRoutesGated

\* The route the router picks is a guarded one, and the global limit in front of it changes
\* nothing of that.
LEMMA ReceiveInv ==
  ASSUME RequestInv, NEW e \in DOMAIN Declared, Receive(e)
  PROVE  RequestInv'
<1>0. rtServed' = Served[e] /\ Served[e] \in 0..Len(Router) /\ e \in 1..Len(Declared) /\ e # 0
  BY ServedRegistered, Lengths DEF Receive
<1>1. rtAuth = "none" /\ rtLimitKey = "none" /\ UNCHANGED <<rtAuth, rtUser, rtLimitKey>>
  BY DEF Receive, RequestInv
<1>2. rtCaller' \in Credentials /\ rtEndpoint' = e
  BY DEF Receive
<1>3. CASE rtServed' = 0
  <2>1. rtAt' = "missing" /\ rtTodo' = <<>>
    BY <1>3 DEF Receive
  <2>2. RtTypeOK'
    BY <1>0, <1>1, <1>2, <2>1 DEF RtTypeOK, RequestInv
  <2> QED BY <1>0, <1>1, <1>2, <2>1, <2>2 DEF RequestInv, CallerIdentified, RoleRoutesGated
<1>4. CASE rtServed' # 0
  <2> DEFINE gs == ServingRoute'.guards
  <2>1. rtServed' \in 1..Len(Router) /\ Guarded(ServingRoute')
    BY <1>0, <1>4, RouterGuarded DEF GuardedTable, ServingRoute
  <2>2. rtAt' = "guards" /\ rtTodo' = <<"globalLimit">> \o gs
    BY <1>4 DEF Receive, GlobalGuards, ServingRoute
  <2>3. gs \in Seq(GuardNames)
    BY <2>1 DEF Guarded
  <2> HIDE DEF gs
  <2>4. /\ rtTodo' \in Seq(GuardNames) /\ DOMAIN rtTodo' = 1..(Len(gs) + 1)
        /\ Len(gs) \in Nat /\ DOMAIN gs = 1..Len(gs)
        /\ rtTodo'[1] = "globalLimit" /\ \A k \in DOMAIN gs : rtTodo'[k + 1] = gs[k]
    BY <2>2, <2>3 DEF GuardNames
  <2>5. Authenticated(gs) => Authenticated(rtTodo')
    BY <2>4 DEF Authenticated
  <2>6. RoleChecked(gs) => RoleChecked(rtTodo')
    BY <2>4 DEF RoleChecked
  <2>7. CallerCounted(gs) => CallerCounted(rtTodo')
    <3> SUFFICES ASSUME CallerCounted(gs), NEW k \in DOMAIN rtTodo', rtTodo'[k] = "callerLimit"
                 PROVE  \E j \in DOMAIN rtTodo' : j < k /\ Identifies(rtTodo'[j])
      BY DEF CallerCounted
    <3>1. k - 1 \in DOMAIN gs /\ gs[k - 1] = "callerLimit"
      BY <2>4
    <3>2. PICK j \in DOMAIN gs : j < k - 1 /\ Identifies(gs[j])
      BY <3>1 DEF CallerCounted
    <3>3. j + 1 \in DOMAIN rtTodo' /\ j + 1 < k /\ rtTodo'[j + 1] = gs[j]
      BY <2>4, <3>2
    <3> QED BY <3>2, <3>3
  <2>8. /\ ServingRoute'.reads = "sub" => Authenticated(rtTodo')
        /\ ServingRoute'.roles # {} => RoleChecked(rtTodo')
        /\ CallerCounted(rtTodo') \/ Bulk(ServingRoute'.path)
    BY <2>1, <2>5, <2>6, <2>7 DEF Guarded, gs
  <2>9. RtTypeOK'
    <3>1. \A i \in DOMAIN rtTodo' : rtTodo'[i] \in GuardNames
      BY <2>4
    <3> QED BY <1>0, <1>1, <1>2, <2>2, <3>1 DEF RtTypeOK, RequestInv, GuardNames
  <2> QED BY <1>0, <1>1, <1>2, <2>1, <2>2, <2>4, <2>8, <2>9
         DEF RequestInv, CallerIdentified, RoleRoutesGated
<1> QED BY <1>3, <1>4

\* The guard at the head of the list lets the request pass and leaves what it promises.
Granted ==
    /\ rtUser' \in BOOLEAN
    /\ rtAuth' \in {"none", "token", "key"} /\ rtLimitKey' \in {"none", "caller", "address"}
    /\ rtAuth' = rtAuth \/ rtAuth' # "none"
    /\ Identifies(Head(rtTodo)) => rtAuth' # "none"
    /\ Head(rtTodo) = "roles" => ServingRoute.roles = {} \/ Admitted
    /\ rtLimitKey' = "address" =>
          rtLimitKey = "address" \/ (Head(rtTodo) = "callerLimit" /\ rtAuth = "none")

\* When a guard grants that: by its name and by what it writes.
LEMMA GrantedBy ==
  ASSUME NEW g, Head(rtTodo) = g, RequestInv,
         rtUser' \in BOOLEAN,
         rtAuth' = rtAuth \/ rtAuth' \in {"token", "key"},
         Identifies(g) => rtAuth' # "none",
         g = "roles" => ServingRoute.roles = {} \/ Admitted,
         \/ rtLimitKey' = rtLimitKey
         \/ g = "callerLimit" /\ rtLimitKey' = IF rtAuth = "none" THEN "address" ELSE "caller"
  PROVE  Granted
<1>1. rtAuth \in {"none", "token", "key"} /\ rtLimitKey \in {"none", "caller", "address"}
  BY DEF RequestInv, RtTypeOK
<1>2. rtAuth' \in {"none", "token", "key"} /\ (rtAuth' = rtAuth \/ rtAuth' # "none")
  BY <1>1
<1>3. rtLimitKey' \in {"none", "caller", "address"}
  BY <1>1
<1>4. rtLimitKey' = "address" =>
        rtLimitKey = "address" \/ (Head(rtTodo) = "callerLimit" /\ rtAuth = "none")
  OBVIOUS
<1>5. Identifies(Head(rtTodo)) => rtAuth' # "none"
  BY DEF Identifies
<1>6. Head(rtTodo) = "roles" => ServingRoute.roles = {} \/ Admitted
  BY Zenon
<1>7. rtUser' \in BOOLEAN
  OBVIOUS
<1> QED BY <1>2, <1>3, <1>4, <1>5, <1>6, <1>7, Zenon DEF Granted

\* A guard that passes has paid its part of what the list owes.
LEMMA PassInv ==
  ASSUME RequestInv, rtAt = "guards", rtTodo # <<>>, Passes, Granted
  PROVE  RequestInv'
<1>1. rtTodo \in Seq(GuardNames) /\ rtTodo' = Tail(rtTodo) /\ rtAt' = "guards"
      /\ UNCHANGED <<rtEndpoint, rtServed, rtCaller>> /\ ServingRoute' = ServingRoute
  BY DEF RequestInv, Passes, ServingRoute
<1>2. RtTypeOK'
  <2>1. rtTodo' \in Seq(GuardNames)
    BY <1>1, NextGuard
  <2>2. \A i \in DOMAIN rtTodo' : rtTodo'[i] \in GuardNames
    BY <2>1
  <2> QED BY <1>1, <2>2 DEF RequestInv, RtTypeOK, GuardNames, Granted
<1>3. rtAuth' = "none" /\ ServingRoute'.reads = "sub" => Authenticated(rtTodo')
  BY <1>1, NextGuard DEF Granted, RequestInv
<1>4. ServingRoute'.roles # {} /\ ~Admitted' => RoleChecked(rtTodo')
  BY <1>1, NextGuard DEF Granted, RequestInv, Admitted
<1>5. rtAuth' = "none" => CallerCounted(rtTodo') \/ Bulk(ServingRoute'.path)
  BY <1>1, NextGuard DEF Granted, RequestInv
<1>6. rtLimitKey' = "address" => Bulk(ServingRoute'.path)
  BY <1>1, NextGuard DEF Granted, RequestInv
<1> QED BY <1>1, <1>2, <1>3, <1>4, <1>5, <1>6, NextGuard
       DEF RequestInv, CallerIdentified, RoleRoutesGated

\* A refused request never reaches the handler.
LEMMA RefuseInv ==
  ASSUME RequestInv, Refuses
  PROVE  RequestInv'
<1>1. rtTodo' = <<>> /\ rtAt' = "refused" /\ ServingRoute' = ServingRoute
      /\ UNCHANGED <<rtEndpoint, rtServed, rtCaller, rtAuth, rtUser, rtLimitKey>>
  BY DEF Refuses, ServingRoute
<1>2. RtTypeOK'
  BY <1>1 DEF RequestInv, RtTypeOK
<1> QED BY <1>1, <1>2 DEF RequestInv, CallerIdentified, RoleRoutesGated

\* The guards that only pass or refuse.
LEMMA PassIfInv ==
  ASSUME RequestInv, rtAt = "guards", rtTodo # <<>>, NEW ok \in BOOLEAN, PassIf(ok),
         ~Identifies(Head(rtTodo)),
         Head(rtTodo) = "roles" /\ ok => ServingRoute.roles = {} \/ Admitted
  PROVE  RequestInv'
<1>1. CASE ok
  <2>1. Passes /\ UNCHANGED <<rtAuth, rtUser, rtLimitKey>>
    BY <1>1 DEF PassIf
  <2>2. rtUser' \in BOOLEAN
    BY <2>1, Zenon DEF RequestInv, RtTypeOK
  <2>3. rtAuth' = rtAuth /\ rtLimitKey' = rtLimitKey
    BY <2>1
  <2>4. Granted
    BY <1>1, <2>2, <2>3, GrantedBy, Zenon
  <2> QED BY <2>1, <2>4, PassInv
<1>2. CASE ~ok
  BY <1>2, RefuseInv DEF PassIf
<1> QED BY <1>1, <1>2

\* Each guard of the source grants what its name promises.
LEMMA GuardInv ==
  ASSUME RequestInv,
         \/ JwtAuthGuard \/ OptionalJwtAuthGuard \/ ApiKeyAuthGuard \/ KeyPermissionsGuard
         \/ RolesGuard \/ FreshTwoFactorGuard \/ GoogleAuthGuard \/ LimitGuard
         \/ CallerLimitGuard \/ MetricsAuthGuard
  PROVE  RequestInv'
<1>0. rtUser \in BOOLEAN
  BY DEF RequestInv, RtTypeOK
<1>1. CASE JwtAuthGuard
  <2>1. rtAt = "guards" /\ rtTodo # <<>> /\ Head(rtTodo) = "jwt"
    BY <1>1 DEF JwtAuthGuard, Guard
  <2>2. CASE Passes /\ rtAuth' = "token" /\ UNCHANGED <<rtUser, rtLimitKey>>
    <3>1. rtUser' \in BOOLEAN
      BY <1>0, <2>2, Zenon
    <3>2. /\ rtAuth' = rtAuth \/ rtAuth' \in {"token", "key"}
          /\ Identifies("jwt") => rtAuth' # "none"
          /\ "jwt" # "roles"
      BY <2>1, <2>2 DEF Identifies
    <3>3. rtLimitKey' = rtLimitKey
      BY <2>1, <2>2
    <3>4. Granted
      BY <2>1, <3>1, <3>2, <3>3, GrantedBy, Zenon
    <3> QED BY <2>1, <2>2, <3>4, PassInv
  <2> QED BY <1>1, <2>2, RefuseInv DEF JwtAuthGuard
<1>2. CASE OptionalJwtAuthGuard
  <2>1. rtAt = "guards" /\ rtTodo # <<>> /\ Head(rtTodo) = "optional" /\ Passes
        /\ rtAuth' \in {"token", rtAuth} /\ UNCHANGED <<rtUser, rtLimitKey>>
    BY <1>2 DEF OptionalJwtAuthGuard, Guard
  <2>2. rtUser' \in BOOLEAN
    BY <1>0, <2>1, Zenon
  <2>3. /\ rtAuth' = rtAuth \/ rtAuth' \in {"token", "key"}
        /\ ~Identifies("optional") /\ "optional" # "roles"
    BY <2>1 DEF Identifies
  <2>4. rtLimitKey' = rtLimitKey
    BY <2>1
  <2>5. Granted
    BY <2>1, <2>2, <2>3, <2>4, GrantedBy, Zenon
  <2> QED BY <2>1, <2>5, PassInv
<1>3. CASE ApiKeyAuthGuard
  <2>1. rtAt = "guards" /\ rtTodo # <<>> /\ Head(rtTodo) = "key"
    BY <1>3 DEF ApiKeyAuthGuard, Guard
  <2>2. CASE Passes /\ rtAuth' = "key" /\ UNCHANGED <<rtUser, rtLimitKey>>
    <3>1. rtUser' \in BOOLEAN
      BY <1>0, <2>2, Zenon
    <3>2. /\ rtAuth' = rtAuth \/ rtAuth' \in {"token", "key"}
          /\ Identifies("key") => rtAuth' # "none"
          /\ "key" # "roles"
      BY <2>1, <2>2 DEF Identifies
    <3>3. rtLimitKey' = rtLimitKey
      BY <2>1, <2>2
    <3>4. Granted
      BY <2>1, <3>1, <3>2, <3>3, GrantedBy, Zenon
    <3> QED BY <2>1, <2>2, <3>4, PassInv
  <2> QED BY <1>3, <2>2, RefuseInv DEF ApiKeyAuthGuard
<1>4. CASE KeyPermissionsGuard \/ RolesGuard \/ FreshTwoFactorGuard \/ LimitGuard \/ MetricsAuthGuard
  <2>1. PICK ok \in BOOLEAN : /\ PassIf(ok)
                              /\ Head(rtTodo) = "roles" /\ ok => ServingRoute.roles = {} \/ Admitted
    <3>1. CASE KeyPermissionsGuard
      BY <3>1 DEF KeyPermissionsGuard, Guard
    <3>2. CASE RolesGuard
      BY <3>2 DEF RolesGuard, Guard, Admitted
    <3>3. CASE FreshTwoFactorGuard
      BY <3>3 DEF FreshTwoFactorGuard, Guard
    <3>4. CASE LimitGuard \/ MetricsAuthGuard
      BY <3>4 DEF LimitGuard, MetricsAuthGuard, Guard
    <3> QED BY <1>4, <3>1, <3>2, <3>3, <3>4
  <2>2. /\ rtAt = "guards" /\ rtTodo # <<>>
        /\ Head(rtTodo) \in {"scopes", "roles", "fresh", "globalLimit", "clientLimit", "metrics"}
    BY <1>4 DEF KeyPermissionsGuard, RolesGuard, FreshTwoFactorGuard, LimitGuard, MetricsAuthGuard, Guard
  <2> QED BY <2>1, <2>2, PassIfInv DEF Identifies
<1>5. CASE GoogleAuthGuard
  <2>1. rtAt = "guards" /\ rtTodo # <<>> /\ Head(rtTodo) = "google"
    BY <1>5 DEF GoogleAuthGuard, Guard
  <2>2. CASE Passes /\ rtUser' = TRUE /\ UNCHANGED <<rtAuth, rtLimitKey>>
    <3>1. rtUser' \in BOOLEAN
      BY <2>2
    <3>2. /\ rtAuth' = rtAuth \/ rtAuth' \in {"token", "key"}
          /\ Identifies("google") => rtAuth' # "none"
          /\ "google" # "roles"
      BY <2>1, <2>2 DEF Identifies
    <3>3. rtLimitKey' = rtLimitKey
      BY <2>1, <2>2
    <3>4. Granted
      BY <2>1, <3>1, <3>2, <3>3, GrantedBy, Zenon
    <3> QED BY <2>1, <2>2, <3>4, PassInv
  <2> QED BY <1>5, <2>2, RefuseInv DEF GoogleAuthGuard
<1>6. CASE CallerLimitGuard
  <2>1. rtAt = "guards" /\ rtTodo # <<>> /\ Head(rtTodo) = "callerLimit"
    BY <1>6 DEF CallerLimitGuard, Guard
  <2>2. CASE /\ Passes /\ rtLimitKey' = (IF rtAuth = "none" THEN "address" ELSE "caller")
             /\ UNCHANGED <<rtAuth, rtUser>>
    <3>1. rtUser' \in BOOLEAN
      BY <1>0, <2>2, Zenon
    <3>2. /\ rtAuth' = rtAuth \/ rtAuth' \in {"token", "key"}
          /\ Identifies("callerLimit") => rtAuth' # "none"
          /\ "callerLimit" # "roles"
      BY <2>1, <2>2 DEF Identifies
    <3>3. rtLimitKey' = (IF rtAuth = "none" THEN "address" ELSE "caller")
      BY <2>1, <2>2
    <3>4. Granted
      BY <2>1, <3>1, <3>2, <3>3, GrantedBy, Zenon
    <3> QED BY <2>1, <2>2, <3>4, PassInv
  <2> QED BY <1>6, <2>2, RefuseInv DEF CallerLimitGuard
<1> QED BY <1>1, <1>2, <1>3, <1>4, <1>5, <1>6

\* When the list is empty everything it owed is there, so the handler finds the caller.
LEMMA HandleInv == RequestInv /\ Handle => RequestInv'
<1> SUFFICES ASSUME RequestInv, Handle PROVE RequestInv'
  OBVIOUS
<1>1. /\ rtAt = "guards" /\ rtTodo = <<>> /\ rtAt' \in {"handled", "failed"}
      /\ rtAt' = "failed" => ~IdentityAvailable(ServingRoute)
      /\ UNCHANGED <<rtEndpoint, rtServed, rtCaller, rtTodo, rtAuth, rtUser, rtLimitKey>>
      /\ ServingRoute' = ServingRoute /\ Admitted' = Admitted
  BY DEF Handle, ServingRoute, Admitted
<1>2. ~Authenticated(rtTodo) /\ ~RoleChecked(rtTodo)
  BY <1>1 DEF Authenticated, RoleChecked
<1>3. CallerIdentified'
  <2>1. ServingRoute.reads = "sub" => rtAuth # "none"
    BY <1>1, <1>2 DEF RequestInv
  <2>2. ServingRoute.reads = "sub" => IdentityAvailable(ServingRoute)
    BY <2>1 DEF IdentityAvailable
  <2> QED BY <1>1, <2>2 DEF CallerIdentified
<1>4. RoleRoutesGated'
  BY <1>1, <1>2 DEF RequestInv, RoleRoutesGated, Admitted
<1>5. RtTypeOK'
  BY <1>1 DEF RequestInv, RtTypeOK
<1> QED BY <1>1, <1>3, <1>4, <1>5 DEF RequestInv

\* Whatever route a request names and whatever the caller presents: a handler that reads
\* the caller has one (CallerIdentified), a handler that asks for a role has a caller with
\* it (RoleRoutesGated), and the limits per caller count by the caller except on the bulk
\* routes (LimitedPerCaller).
THEOREM RequestsSafe ==
  RtSpec => [](RtTypeOK /\ CallerIdentified /\ RoleRoutesGated /\ LimitedPerCaller)
<1>1. RequestInv /\ [RtNext]_rtVars => RequestInv'
  <2> SUFFICES ASSUME RequestInv, [RtNext]_rtVars PROVE RequestInv'
    OBVIOUS
  <2>1. CASE UNCHANGED rtVars
    BY <2>1 DEF rtVars, RequestInv, RtTypeOK, CallerIdentified, RoleRoutesGated, ServingRoute, Admitted
  <2> QED BY <2>1, ReceiveInv, GuardInv, HandleInv DEF RtNext
<1>2. RequestInv => RtTypeOK /\ CallerIdentified /\ RoleRoutesGated /\ LimitedPerCaller
  BY DEF RequestInv, LimitedPerCaller, Bulk
<1> QED BY InitInv, <1>1, <1>2, PTL DEF RtSpec

-----------------------------------------------------------------------------
(* The composition.  A behaviour of the platform is one of one module, and *)
(* the variables of the others stay as they began; so it is a behaviour of *)
(* each module by itself, and what the modules promise holds together.     *)
allVars == <<part, rtSd, bkBs, psNt, rmTr, tkMl, arVars>>

\* A behaviour of the platform is one of MlSpec.
LEMMA MailPart == PlatformSpec => MlSpec
<1>1. PlatformInit => MlInit
  BY DEF PlatformInit
<1>2. [PlatformNext]_allVars => [MlNext]_mlVars
  BY DEF PlatformNext, allVars, rtSd, bkBs, psNt, rmTr, tkMl
<1> QED BY <1>1, <1>2, PTL DEF PlatformSpec, MlSpec, allVars

\* A behaviour of the platform is one of NtSpec.
LEMMA NotesPart == PlatformSpec => NtSpec
<1>1. PlatformInit => NtInit
  BY DEF PlatformInit
<1>2. [PlatformNext]_allVars => [NtNext]_ntVars
  BY DEF PlatformNext, allVars, rtSd, bkBs, psNt, rmTr, tkMl
<1> QED BY <1>1, <1>2, PTL DEF PlatformSpec, NtSpec, allVars

\* A behaviour of the platform is one of PsSpec.
LEMMA PresencePart == PlatformSpec => PsSpec
<1>1. PlatformInit => PsInit
  BY DEF PlatformInit
<1>2. [PlatformNext]_allVars => [PsNext]_psVars
  BY DEF PlatformNext, allVars, rtSd, bkBs, psNt, rmTr, tkMl
<1> QED BY <1>1, <1>2, PTL DEF PlatformSpec, PsSpec, allVars

\* A behaviour of the platform is one of BkSpec.
LEMMA BackupsPart == PlatformSpec => BkSpec
<1>1. PlatformInit => BkInit
  BY DEF PlatformInit
<1>2. [PlatformNext]_allVars => [BkNext]_bkVars
  BY DEF PlatformNext, allVars, rtSd, bkBs, psNt, rmTr, tkMl
<1> QED BY <1>1, <1>2, PTL DEF PlatformSpec, BkSpec, allVars

\* A behaviour of the platform is one of BsSpec.
LEMMA TimerPart == PlatformSpec => BsSpec
<1>1. PlatformInit => BsInit
  BY DEF PlatformInit
<1>2. [PlatformNext]_allVars => [BsNext]_bsVars
  BY DEF PlatformNext, allVars, rtSd, bkBs, psNt, rmTr, tkMl
<1> QED BY <1>1, <1>2, PTL DEF PlatformSpec, BsSpec, allVars

\* A behaviour of the platform is one of ArSpec.
LEMMA ArchivePart == PlatformSpec => ArSpec
<1>1. PlatformInit => ArInit
  BY DEF PlatformInit
<1>2. [PlatformNext]_allVars => [ArNext]_arVars
  BY DEF PlatformNext, allVars, rtSd, bkBs, psNt, rmTr, tkMl
<1> QED BY <1>1, <1>2, PTL DEF PlatformSpec, ArSpec, allVars

\* A behaviour of the platform is one of RmSpec.
LEMMA DeadlinesPart == PlatformSpec => RmSpec
<1>1. PlatformInit => RmInit
  BY DEF PlatformInit
<1>2. [PlatformNext]_allVars => [RmNext]_rmVars
  BY DEF PlatformNext, allVars, rtSd, bkBs, psNt, rmTr, tkMl
<1> QED BY <1>1, <1>2, PTL DEF PlatformSpec, RmSpec, allVars

\* A behaviour of the platform is one of TrSpec.
LEMMA ToursPart == PlatformSpec => TrSpec
<1>1. PlatformInit => TrInit
  BY DEF PlatformInit
<1>2. [PlatformNext]_allVars => [TrNext]_trVars
  BY DEF PlatformNext, allVars, rtSd, bkBs, psNt, rmTr, tkMl
<1> QED BY <1>1, <1>2, PTL DEF PlatformSpec, TrSpec, allVars

\* A behaviour of the platform is one of SdSpec.
LEMMA SeedPart == PlatformSpec => SdSpec
<1>1. PlatformInit => SdInit
  BY DEF PlatformInit
<1>2. [PlatformNext]_allVars => [SdNext]_sdVars
  BY DEF PlatformNext, allVars, rtSd, bkBs, psNt, rmTr, tkMl
<1> QED BY <1>1, <1>2, PTL DEF PlatformSpec, SdSpec, allVars

\* A behaviour of the platform is one of TkSpec.
LEMMA TicketsPart == PlatformSpec => TkSpec
<1>1. PlatformInit => TkInit
  BY DEF PlatformInit
<1>2. [PlatformNext]_allVars => [TkNext]_tkVars
  BY DEF PlatformNext, allVars, rtSd, bkBs, psNt, rmTr, tkMl
<1> QED BY <1>1, <1>2, PTL DEF PlatformSpec, TkSpec, allVars

\* A behaviour of the platform is one of RtSpec.
LEMMA RoutesPart == PlatformSpec => RtSpec
<1>1. PlatformInit => RtInit
  BY DEF PlatformInit
<1>2. [PlatformNext]_allVars => [RtNext]_rtVars
  BY DEF PlatformNext, allVars, rtSd, bkBs, psNt, rmTr, tkMl
<1> QED BY <1>1, <1>2, PTL DEF PlatformSpec, RtSpec, allVars

\* For any number of sockets, notifications and mails in any order: what is recorded about
\* a recipient is what happened, except after the races that DeliveriesExplained names.
THEOREM DeliveriesProved == PlatformSpec => []DeliveriesExplained
<1>1. PresenceExplained /\ (NtTypeOK /\ DeliveredWasSeen) /\ NoMailToBouncedUser
      => DeliveriesExplained
  BY DEF DeliveriesExplained
<1> QED BY <1>1, PresencePart, NotesPart, MailPart, PresenceSafe, DeliveredSafe, BouncedUserSafe, PTL

\* For any number of jobs, backups, instances and rows: the newest backup and every archived
\* row are kept, a RUNNING row is explained and the timer follows the schedule (CopiesKept).
THEOREM CopiesProved == PlatformSpec => []CopiesKept
<1>1. (RunningExplained /\ LatestBackupKept) /\ TimerMatchesSchedule /\ RecordsKept => CopiesKept
  BY DEF CopiesKept
<1> QED BY <1>1, BackupsPart, TimerPart, ArchivePart, BackupsSafe, TimerSafe, ArchiveSafe, PTL

\* For any number of instances, milestones and requests and any time of a visit: reminders
\* come, and come once, and tickets carry their times (RemindersSafe).
THEOREM RemindersProved == PlatformSpec => []RemindersSafe
<1>1. RemindedTwiceExplained /\ (TourRemindedDayAhead /\ TourRemindersBounded) /\ TicketStamped
      => RemindersSafe
  BY DEF RemindersSafe
<1> QED BY <1>1, DeadlinesPart, ToursPart, TicketsPart, RemindedSafe, ToursSafe, TicketSafe, PTL

\* For any number of runs of seed.ts over any scopes, and wherever a run dies: no statement
\* meets a foreign key, no scope is filled twice, a reset leaves no user (SeedingSafe).
THEOREM SeedingProved == PlatformSpec => SeedingSafe
  BY SeedPart, SeedSafe, PTL DEF SeedingSafe

\* Every row, request and job of the platform keeps its type (PlatformTypeOK).
THEOREM PlatformTyped == PlatformSpec => []PlatformTypeOK
<1>1. /\ RtTypeOK /\ SdTypeOK /\ PsTypeOK /\ BkTypeOK /\ BsTypeOK /\ ArTypeOK
      /\ NtTypeOK /\ RmTypeOK /\ TrTypeOK /\ TkTypeOK /\ MlTypeOK
      => PlatformTypeOK
  BY DEF PlatformTypeOK
<1>2. PlatformSpec => [](RtTypeOK /\ SdTypeOK)
  BY RoutesPart, RequestsSafe, SeedPart, SeedSafe, PTL
<1>3. PlatformSpec => [](PsTypeOK /\ BkTypeOK /\ BsTypeOK /\ ArTypeOK)
  BY PresencePart, PresenceTyped, BackupsPart, BackupsTyped, TimerPart, TimersTyped,
     ArchivePart, ArchivesTyped, PTL
<1>4. PlatformSpec => [](NtTypeOK /\ RmTypeOK /\ TrTypeOK /\ TkTypeOK /\ MlTypeOK)
  BY NotesPart, DeliveredSafe, DeadlinesPart, DeadlinesTyped, ToursPart, ToursTyped,
     TicketsPart, TicketsTyped, MailPart, MailTypeSafe, PTL
<1> QED BY <1>1, <1>2, <1>3, <1>4, PTL

\* Of the requests of the platform: what RequestsGuarded says of the caller, the role and
\* the limit.
THEOREM CallersProved ==
  PlatformSpec => [](CallerIdentified /\ RoleRoutesGated /\ LimitedPerCaller)
  BY RoutesPart, RequestsSafe, PTL
=============================================================================
