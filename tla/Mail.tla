-------------------------------- MODULE Mail --------------------------------
(***************************************************************************)
(* Mail to one address, email.service.ts and email.processor.ts: sends that *)
(* are checked against earlier bounces and then queued, the worker that     *)
(* delivers queued mail, and the provider's bounce and complaint calls.     *)
(***************************************************************************)
EXTENDS Integers, FiniteSets

CONSTANTS MailReq,      \* calls of sendEmail
          UserMail,     \* the calls that name the user, a subset of MailReq
          MailAttempts  \* attempts of a queued job

ASSUME MailAssumption == MailAttempts \in Nat \ {0} /\ UserMail \subseteq MailReq

VARIABLES
    mlHard,    \* the latest hard bounce or complaint row: "none", "recent" or "old" (90 days)
    mlStatus,  \* the user's emailStatus
    mlPrefs,   \* the user's emailNotifications
    mlHook,    \* the provider's call: "idle", or the write that comes next and its kind
    mlSend,    \* [MailReq -> where the call is]
    mlOpens,   \* calls with an emailEngagement row
    mlJob,     \* [MailReq -> the queued job: its state and the attempts left]
    mlWarned   \* the calls made while the user was marked as bounced

mlVars == <<mlHard, mlStatus, mlPrefs, mlHook, mlSend, mlOpens, mlJob, mlWarned>>

HookIdle == [at |-> "idle", hard |-> FALSE]
NoJob == [at |-> "none", left |-> 0]

MlTypeOK ==
    /\ mlHard \in {"none", "recent", "old"} /\ mlStatus \in {"VALID", "BOUNCED"} /\ mlPrefs \in BOOLEAN
    /\ mlHook \in [at : {"idle", "status", "prefs"}, hard : BOOLEAN]
    /\ mlSend \in [MailReq -> {"idle", "address", "user", "queue", "end"}]
    /\ mlOpens \subseteq UserMail /\ mlWarned \subseteq MailReq
    /\ mlJob \in [MailReq -> [at : {"none", "waiting", "sent", "failed"}, left : 0..MailAttempts]]

MlInit ==
    /\ mlHard = "none" /\ mlStatus = "VALID" /\ mlPrefs = TRUE /\ mlHook = HookIdle
    /\ mlSend = [q \in MailReq |-> "idle"] /\ mlOpens = {} /\ mlWarned = {}
    /\ mlJob = [q \in MailReq |-> NoJob]

-----------------------------------------------------------------------------
(* The provider's calls: three writes, any of which may fail.                *)

\* handleBounce of a soft bounce writes a row that no check counts; of a hard one, and
\* handleComplaint, the row that suppresses the address.
recordBounce(hard) ==
    /\ mlHook = HookIdle
    /\ mlHard' = IF hard THEN "recent" ELSE mlHard
    /\ mlHook' = [at |-> "status", hard |-> hard]
    /\ UNCHANGED <<mlStatus, mlPrefs, mlSend, mlOpens, mlJob, mlWarned>>

\* Mutant of markBounced: the type of the bounce is stored instead of the status.
markBounced_Type ==
    /\ mlHook.at = "status"
    /\ mlStatus' = IF mlHook.hard THEN "HARD" ELSE "SOFT"
    /\ mlHook' = IF mlHook.hard THEN [mlHook EXCEPT !.at = "prefs"] ELSE HookIdle
    /\ UNCHANGED <<mlHard, mlPrefs, mlSend, mlOpens, mlJob, mlWarned>>

markBounced ==
    /\ mlHook.at = "status"
    /\ mlStatus' = "BOUNCED"
    /\ mlHook' = IF mlHook.hard THEN [mlHook EXCEPT !.at = "prefs"] ELSE HookIdle
    /\ UNCHANGED <<mlHard, mlPrefs, mlSend, mlOpens, mlJob, mlWarned>>

disableMail ==
    /\ mlHook.at = "prefs"
    /\ mlPrefs' = FALSE /\ mlHook' = HookIdle
    /\ UNCHANGED <<mlHard, mlStatus, mlSend, mlOpens, mlJob, mlWarned>>

hookFails ==
    /\ mlHook # HookIdle
    /\ mlHook' = HookIdle
    /\ UNCHANGED <<mlHard, mlStatus, mlPrefs, mlSend, mlOpens, mlJob, mlWarned>>

lookbackEnds ==
    /\ mlHard = "recent" /\ mlHard' = "old"
    /\ UNCHANGED <<mlStatus, mlPrefs, mlHook, mlSend, mlOpens, mlJob, mlWarned>>

-----------------------------------------------------------------------------
(* sendEmail.                                                                *)

GotoSend(q, at) == mlSend' = [mlSend EXCEPT ![q] = at]

sendEmail(q) ==
    /\ mlSend[q] = "idle" /\ GotoSend(q, "address")
    /\ mlWarned' = IF mlStatus = "BOUNCED" THEN mlWarned \cup {q} ELSE mlWarned
    /\ UNCHANGED <<mlHard, mlStatus, mlPrefs, mlHook, mlOpens, mlJob>>

shouldSuppressAddress(q) ==
    /\ mlSend[q] = "address"
    /\ GotoSend(q, IF mlHard = "recent" THEN "end" ELSE IF q \in UserMail THEN "user" ELSE "queue")
    /\ UNCHANGED <<mlHard, mlStatus, mlPrefs, mlHook, mlOpens, mlJob, mlWarned>>

\* Mutant of checkRecipient: the status is not looked at.
checkRecipient_Valid(q) ==
    /\ mlSend[q] = "user" /\ GotoSend(q, "queue")
    /\ mlOpens' = mlOpens \cup {q}
    /\ UNCHANGED <<mlHard, mlStatus, mlPrefs, mlHook, mlJob, mlWarned>>

\* The check of the user, and the emailEngagement row of a mail that passes it.
checkRecipient(q) ==
    /\ mlSend[q] = "user"
    /\ IF mlStatus = "BOUNCED" THEN GotoSend(q, "end") /\ UNCHANGED mlOpens
       ELSE GotoSend(q, "queue") /\ mlOpens' = mlOpens \cup {q}
    /\ UNCHANGED <<mlHard, mlStatus, mlPrefs, mlHook, mlJob, mlWarned>>

queueMail(q) ==
    /\ mlSend[q] = "queue" /\ GotoSend(q, "end")
    /\ mlJob' = [mlJob EXCEPT ![q] = [at |-> "waiting", left |-> MailAttempts]]
    /\ UNCHANGED <<mlHard, mlStatus, mlPrefs, mlHook, mlOpens, mlWarned>>

\* mailQueue.add throws
queueFails(q) ==
    /\ mlSend[q] = "queue" /\ GotoSend(q, "end")
    /\ UNCHANGED <<mlHard, mlStatus, mlPrefs, mlHook, mlOpens, mlJob, mlWarned>>

-----------------------------------------------------------------------------
(* EmailProcessor: an attempt delivers, or throws and is counted.            *)

\* Mutant of processMail: the job is not given up after its last attempt.
processMail_Stuck(q, delivered) ==
    /\ mlJob[q].at = "waiting" /\ mlJob[q].left > 0
    /\ mlJob' = [mlJob EXCEPT ![q] =
           [at |-> IF delivered THEN "sent" ELSE "waiting", left |-> mlJob[q].left - 1]]
    /\ UNCHANGED <<mlHard, mlStatus, mlPrefs, mlHook, mlSend, mlOpens, mlWarned>>

processMail(q, delivered) ==
    LET left == mlJob[q].left - 1 IN
    /\ mlJob[q].at = "waiting"
    /\ mlJob' = [mlJob EXCEPT ![q] =
           [at |-> IF delivered THEN "sent" ELSE IF left = 0 THEN "failed" ELSE "waiting", left |-> left]]
    /\ UNCHANGED <<mlHard, mlStatus, mlPrefs, mlHook, mlSend, mlOpens, mlWarned>>

MlNext ==
    \/ markBounced \/ disableMail \/ hookFails \/ lookbackEnds
    \/ \E hard \in BOOLEAN : recordBounce(hard)
    \/ \E q \in MailReq :
          \/ sendEmail(q) \/ shouldSuppressAddress(q) \/ checkRecipient(q) \/ queueMail(q) \/ queueFails(q)
          \/ \E delivered \in BOOLEAN : processMail(q, delivered)

MlSpec == MlInit /\ [][MlNext]_mlVars

-----------------------------------------------------------------------------
(* Properties.                                                               *)

\* A mail that names a user who was marked as bounced when it was asked for is never
\* queued, even when the bounce itself is older than the look-back of the address check,
\* or was a soft one which that check never counts.
NoMailToBouncedUser == \A q \in mlWarned \cap UserMail : mlJob[q] = NoJob

\* A queued mail is delivered or given up, whatever the provider answers.
QueuedMailSettles == \A q \in MailReq : []<>(mlJob[q].at # "waiting")
=============================================================================
