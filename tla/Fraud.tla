------------------------------- MODULE Fraud --------------------------------
(* Fraud alerts of one user and one pattern: detections look for an open    *)
(* alert, update it or create one, notify, and block the user; analysts     *)
(* review alerts meanwhile.  Alerts of different patterns share only the    *)
(* user's isBlocked, so one pattern, chosen at the start, is enough.        *)
EXTENDS Integers, FiniteSets

CONSTANTS Detectors,  \* detections that may overlap
          AlertIds    \* rows of fraud_alerts

ASSUME FraudAssumption == IsFiniteSet(Detectors) /\ IsFiniteSet(AlertIds)

VARIABLES pattern,   \* the pattern of this behaviour
          alerts,    \* [AlertIds -> row]
          blocked,   \* isBlocked of the user
          detect,    \* progress of each detection
          fdRaced    \* history: an update was based on a row that had changed

fdVars == <<pattern, alerts, blocked, detect, fdRaced>>

severityRank == [LOW |-> 1, MEDIUM |-> 2, HIGH |-> 3, CRITICAL |-> 4]
Severities == DOMAIN severityRank
Detected(sev, score, auto) == {[sev |-> sev, score |-> score, auto |-> auto]}

\* What each evaluation makes of the count n it reads ({}: no alert).
evaluateFailedLogin(n) == CASE n < 5 -> {} [] n >= 10 -> Detected("HIGH", 82, FALSE)
                            [] OTHER -> Detected("MEDIUM", 58, FALSE)
MultipleIps(n) == CASE n < 4 -> {} [] n >= 6 -> Detected("HIGH", 84, FALSE)
                    [] OTHER -> Detected("MEDIUM", 60, FALSE)
NewDevice(n) == IF n = 1 THEN Detected("LOW", 24, FALSE) ELSE {}
SharedIp(n) == CASE n < 3 -> {} [] n >= 5 -> Detected("CRITICAL", 95, TRUE)
                 [] OTHER -> Detected("HIGH", 78, FALSE)
handleTokenReuse(n) == IF n = 0 THEN {} ELSE Detected("CRITICAL", 100, TRUE)
RapidListings(n) == CASE n < 3 -> {} [] n >= 5 -> Detected("HIGH", 80, FALSE)
                      [] OTHER -> Detected("MEDIUM", 55, FALSE)
DuplicateAddress(n) == CASE n = 0 -> {} [] n >= 2 -> Detected("HIGH", 76, FALSE)
                         [] OTHER -> Detected("MEDIUM", 57, FALSE)
HighValueListing(n) == IF n = 0 THEN {} ELSE Detected("HIGH", 85, FALSE)
evaluateVelocity(n) == CASE n < 10 -> {} [] n >= 25 -> Detected("HIGH", 80, FALSE)
                         [] OTHER -> Detected("MEDIUM", 62, FALSE)

Patterns == {"EXCESSIVE_FAILED_LOGINS", "MULTIPLE_IPS_FOR_ACCOUNT", "NEW_DEVICE_LOGIN",
             "SHARED_IP_MULTIPLE_ACCOUNTS", "TOKEN_REUSE", "RAPID_PROPERTY_LISTINGS",
             "DUPLICATE_PROPERTY_ADDRESS", "HIGH_VALUE_NEW_ACCOUNT_LISTING", "VELOCITY_EXCEEDED"}

Evaluate(p, n) == CASE p = "EXCESSIVE_FAILED_LOGINS" -> evaluateFailedLogin(n)
                    [] p = "MULTIPLE_IPS_FOR_ACCOUNT" -> MultipleIps(n)
                    [] p = "NEW_DEVICE_LOGIN" -> NewDevice(n)
                    [] p = "SHARED_IP_MULTIPLE_ACCOUNTS" -> SharedIp(n)
                    [] p = "TOKEN_REUSE" -> handleTokenReuse(n)
                    [] p = "RAPID_PROPERTY_LISTINGS" -> RapidListings(n)
                    [] p = "DUPLICATE_PROPERTY_ADDRESS" -> DuplicateAddress(n)
                    [] p = "HIGH_VALUE_NEW_ACCOUNT_LISTING" -> HighValueListing(n)
                    [] p = "VELOCITY_EXCEEDED" -> evaluateVelocity(n)

\* the counts on both sides of every threshold
Counts == {0, 1, 2, 3, 4, 5, 6, 9, 10, 24, 25}
Payloads(p) == UNION {Evaluate(p, n) : n \in Counts}
Payload == UNION {Payloads(p) : p \in Patterns}
NoPayload == [sev |-> "LOW", score |-> 0, auto |-> FALSE]

\* OPEN and INVESTIGATING are "open", RESOLVED and DISMISSED "closed"
NoAlert == [st |-> "none", sev |-> "LOW", score |-> 0, auto |-> FALSE,
            top |-> 0, acted |-> FALSE]
FdIdle == [at |-> "idle", new |-> NoPayload, id |-> {}, seen |-> NoPayload, stale |-> FALSE, block |-> FALSE]

FdTypeOK ==
    /\ pattern \in Patterns /\ blocked \in BOOLEAN /\ fdRaced \in BOOLEAN
    /\ alerts \in [AlertIds -> [st : {"none", "open", "closed"}, sev : Severities,
                     score : 0..100, auto : BOOLEAN, top : 0..4, acted : BOOLEAN]]
    /\ \A d \in Detectors : detect[d].at \in {"idle", "write", "log", "notify", "block"}

FdInit == /\ pattern \in Patterns /\ alerts = [a \in AlertIds |-> NoAlert] /\ blocked = FALSE
          /\ detect = [d \in Detectors |-> FdIdle] /\ fdRaced = FALSE

\* findOpenAlert: an evaluation with something to report reads an open alert, if any
findOpenAlert(d) ==
    /\ detect[d].at = "idle"
    /\ \E p \in Payloads(pattern) :
         LET open == {a \in AlertIds : alerts[a].st = "open"}
             go(id, seen) == detect' = [detect EXCEPT ![d] = [at |-> "write", new |-> p, id |-> id,
                                              seen |-> seen, stale |-> FALSE, block |-> FALSE]]
         IN IF open = {} THEN go({}, NoPayload)
            ELSE \E a \in open : go({a}, [sev |-> alerts[a].sev, score |-> alerts[a].score, auto |-> alerts[a].auto])
    /\ UNCHANGED <<pattern, alerts, blocked, fdRaced>>

Max2(a, b) == IF a > b THEN a ELSE b
\* what is left to do for an alert that was written
Written(at, a, block) == [FdIdle EXCEPT !.at = at, !.id = {a}, !.block = block]
Stale(d, a) == [e \in Detectors |-> IF e # d /\ a \in detect[e].id
                                    THEN [detect[e] EXCEPT !.stale = TRUE] ELSE detect[e]]

Worst(d) == LET p == detect[d].new
                old == detect[d].seen
            IN IF severityRank[p.sev] > severityRank[old.sev] THEN p.sev ELSE old.sev

\* an alert was found: its columns are computed from the row that was read
StoreUpdate(d, sev, score, block) ==
    \E a \in detect[d].id :
      /\ detect[d].at = "write"
      /\ alerts' = [alerts EXCEPT ![a].sev = sev, ![a].score = score,
                       ![a].auto = detect[d].seen.auto \/ detect[d].new.auto,
                       ![a].top = Max2(@, severityRank[detect[d].new.sev])]
      /\ detect' = [Stale(d, a) EXCEPT ![d] = Written("notify", a, block)]
      /\ fdRaced' = (fdRaced \/ detect[d].stale)
      /\ UNCHANGED <<pattern, blocked>>

NewBlock(d) == detect[d].new.auto /\ ~detect[d].seen.auto

UpdateAlert_Latest(d) == StoreUpdate(d, detect[d].new.sev, detect[d].new.score, NewBlock(d))
UpdateAlert_OwnScore(d) == StoreUpdate(d, Worst(d), detect[d].new.score, NewBlock(d))
UpdateAlert_NoBlock(d) == StoreUpdate(d, Worst(d), Max2(detect[d].seen.score, detect[d].new.score), FALSE)

\* createOrUpdateAlert of a pattern that has an open alert
UpdateAlert(d) == StoreUpdate(d, Worst(d), Max2(detect[d].seen.score, detect[d].new.score), NewBlock(d))

\* createOrUpdateAlert, none was found
CreateAlert(d) ==
    LET p == detect[d].new IN
    /\ detect[d].at = "write" /\ detect[d].id = {}
    /\ \E a \in AlertIds : alerts[a].st = "none"
          /\ alerts' = [alerts EXCEPT ![a] = [st |-> "open", sev |-> p.sev, score |-> p.score,
                           auto |-> p.auto, top |-> severityRank[p.sev], acted |-> FALSE]]
          /\ detect' = [detect EXCEPT ![d] = Written("log", a, p.auto)]
    /\ UNCHANGED <<pattern, blocked, fdRaced>>

\* the activity row of a new alert; if it fails the detection ends here
LogAlert(d) == /\ detect[d].at = "log"
               /\ \/ detect' = [detect EXCEPT ![d].at = "notify"]
                  \/ detect' = [detect EXCEPT ![d] = FdIdle]
               /\ fdRaced' = (fdRaced \/ detect'[d].at = "idle")
               /\ UNCHANGED <<pattern, alerts, blocked>>

\* deliverMultiChannelNotifications swallows every failure; the user is then
\* blocked if the detection says so and the alert had not been auto-blocked
deliverNotifications(d) ==
    /\ detect[d].at = "notify"
    /\ detect' = [detect EXCEPT ![d] = IF detect[d].block THEN [detect[d] EXCEPT !.at = "block"] ELSE FdIdle]
    /\ UNCHANGED <<pattern, alerts, blocked, fdRaced>>

Block(a) == /\ blocked' = TRUE
            /\ alerts' = [alerts EXCEPT ![a].auto = TRUE, ![a].acted = TRUE]

\* blockUserForFraud: the user, then autoBlocked of the alert
blockUserForFraud(d) == /\ detect[d].at = "block" /\ \E a \in detect[d].id : Block(a)
                        /\ detect' = [detect EXCEPT ![d] = FdIdle]
                        /\ UNCHANGED <<pattern, fdRaced>>

\* reviewAlert: any status to any status, and the user blocked on demand
reviewAlert(a) ==
    /\ alerts[a].st # "none"
    /\ \E s \in {"open", "closed"} :
         \/ alerts' = [alerts EXCEPT ![a].st = s] /\ UNCHANGED blocked
         \/ /\ blocked' = TRUE
            /\ alerts' = [alerts EXCEPT ![a].st = s, ![a].auto = TRUE, ![a].acted = TRUE]
    /\ UNCHANGED <<pattern, detect, fdRaced>>

blockUserFromAlert(a) == /\ alerts[a].st # "none" /\ Block(a) /\ UNCHANGED <<pattern, detect, fdRaced>>

\* an administrator unblocks the user, whatever the alerts say
unblockUser == /\ blocked /\ blocked' = FALSE /\ UNCHANGED <<pattern, alerts, detect, fdRaced>>

FdNext == \/ \E d \in Detectors : \/ findOpenAlert(d) \/ UpdateAlert(d) \/ CreateAlert(d) \/ LogAlert(d)
                                  \/ deliverNotifications(d) \/ blockUserForFraud(d)
          \/ \E a \in AlertIds : reviewAlert(a) \/ blockUserFromAlert(a)
          \/ unblockUser

FdSpec == FdInit /\ [][FdNext]_fdVars

-----------------------------------------------------------------------------
\* the severity that a score stands for
Band(score) == IF score >= 90 THEN "CRITICAL" ELSE IF score >= 70 THEN "HIGH"
               ELSE IF score >= 50 THEN "MEDIUM" ELSE "LOW"

(* Severity and score of an alert tell the same story whatever updates      *)
(* overlap: every HIGH alert scores above every MEDIUM one, so that sorting *)
(* by either agrees (createOrUpdateAlert, fraud.service.ts:680-697).        *)
ScoreMatchesSeverity ==
    \A a \in AlertIds : alerts[a].st # "none" => alerts[a].sev = Band(alerts[a].score)

(* An alert is as severe as the worst detection it stands for: only an      *)
(* update based on an outdated read can lose an escalation.                 *)
EscalationKept == ~fdRaced => \A a \in AlertIds : alerts[a].st # "none"
                                 => severityRank[alerts[a].sev] = alerts[a].top

(* An alert that says autoBlocked has blocked the user, or the detection    *)
(* that will is under way: autoBlocked is stored before the block, and a    *)
(* later detection trusts it (fraud.service.ts:697-713).                    *)
AutoBlockTakesEffect ==
    ~fdRaced => \A a \in AlertIds : alerts[a].auto =>
        alerts[a].acted \/ \E d \in Detectors : a \in detect[d].id /\ detect[d].block
=============================================================================
