------------------------------- MODULE MCLive -------------------------------
(***************************************************************************)
(* What must eventually happen, in the modules where something must, on     *)
(* small instances.  They share no state, so a behaviour is one of one of   *)
(* them: part says which, and the variables of the others keep their        *)
(* initial values.  The modules whose names meet are instantiated, with     *)
(* their variables renamed.                                                 *)
(***************************************************************************)
EXTENDS LoginLimits, RateLimits, Cleanup, Presence, Tickets, Mail, Rpc

VARIABLES
    part,
    \* Transactions
    txStatus, txEscrow, txHash, txRefund, txComm, txAudit, txStage, txPc, txJob, txSeen, txHad,
    txChanges, txRefunds,
    \* Sessions
    ssOps, ssSession, ssAge, ssBlack, ssBlocked, ssDeactivated, ssAlerts, ssReq, ssOut, ssEnded,
    ssBare, ssLost

txVars == <<txStatus, txEscrow, txHash, txRefund, txComm, txAudit, txStage, txPc, txJob, txSeen, txHad,
            txChanges, txRefunds>>
ssVars == <<ssOps, ssSession, ssAge, ssBlack, ssBlocked, ssDeactivated, ssAlerts, ssReq, ssOut, ssEnded,
            ssBare, ssLost>>

\* Overlapping requests that change a status, without faults.
TX == INSTANCE Transactions WITH
    Tx <- {"t1"}, Req <- {"r1", "r2"}, Chain <- "on", Serial <- FALSE, Faults <- FALSE,
    Ops <- {"createTransaction", "update", "updateTransactionStatus", "verify"},
    status <- txStatus, escrow <- txEscrow, hash <- txHash, refund <- txRefund, comm <- txComm,
    audit <- txAudit, stage <- txStage, pc <- txPc, job <- txJob, seen <- txSeen, had <- txHad,
    changes <- txChanges, refundsSent <- txRefunds

\* One token pair, given up in every way that writes to blacklisted_tokens.
SS == INSTANCE Sessions WITH
    Pair <- {"p1"}, Request <- {"r1", "r2"}, MAX_SESSIONS <- 2,
    Scenarios <- {{"login", "refresh", "logout", "revokeAll", "time", "cleanup"}},
    ops <- ssOps, session <- ssSession, age <- ssAge, black <- ssBlack, isBlocked <- ssBlocked,
    isDeactivated <- ssDeactivated, alerts <- ssAlerts, req <- ssReq, out <- ssOut, ended <- ssEnded,
    bare <- ssBare, lost <- ssLost

\* One caller of the free tier; two expired rows of one table.
MCTierMax == [c \in Callers |-> 1]
MCRowTable == <<"searchHistory", "searchHistory">>

core == <<txVars, ssVars>>
access == <<llVars, rlVars, clVars>>
others == <<psVars, tkVars, mlVars, rpVars>>

LiveInit ==
    /\ part \in {"transactions", "sessions", "logins", "limits", "cleanup", "presence", "tickets",
                 "mail", "rpc"}
    /\ TX!Init /\ SS!Init
    /\ LLInit /\ RLInit /\ ClInit /\ PsInit /\ TkInit /\ MlInit /\ RpInit
    /\ part # "transactions" => txStatus = [t \in {"t1"} |-> "none"]
    /\ part # "cleanup" => rows = [i \in RowIds |-> "kept"]
    /\ part # "rpc" => rpUp = [p \in Providers |-> TRUE]

LiveNext ==
    /\ UNCHANGED part
    /\ \/ part = "transactions" /\ TX!Next /\ UNCHANGED <<ssVars, access, others>>
       \/ part = "sessions" /\ SS!Next /\ UNCHANGED <<txVars, access, others>>
       \/ part = "logins" /\ LLNext /\ UNCHANGED <<core, rlVars, clVars, others>>
       \/ part = "limits" /\ RLNext /\ UNCHANGED <<core, llVars, clVars, others>>
       \/ part = "cleanup" /\ ClNext /\ UNCHANGED <<core, llVars, rlVars, others>>
       \/ part = "presence" /\ PsNext /\ UNCHANGED <<core, access, tkVars, mlVars, rpVars>>
       \/ part = "tickets" /\ TkNext /\ UNCHANGED <<core, access, psVars, mlVars, rpVars>>
       \/ part = "mail" /\ MlNext /\ UNCHANGED <<core, access, psVars, tkVars, rpVars>>
       \/ part = "rpc" /\ RpNext /\ UNCHANGED <<core, access, psVars, tkVars, mlVars>>

-----------------------------------------------------------------------------
(* Fairness: of each part, the calls that are awaited, the timers, and the  *)
(* jobs; never of what a client, an administrator or a fault does.          *)

TransactionsFair ==
    \A r \in {"r1", "r2"} : WF_txVars(part = "transactions" /\ TX!Continue(r))

SessionsFair ==
    /\ \A r \in {"r1", "r2"} : WF_ssVars(part = "sessions" /\ SS!Continue(r))
    /\ WF_ssVars(part = "sessions" /\ SS!TimePasses("p1"))
    /\ WF_ssVars(part = "sessions" /\ SS!cleanExpiredSessions("p1"))
    /\ \A t \in SS!Token : WF_ssVars(part = "sessions" /\ SS!cleanBlacklistedTokens(t))

AccessFair ==
    /\ WF_llVars(part = "logins" /\ LockTick)
    /\ WF_rlVars(part = "limits" /\ RateTick)
    /\ \A c \in Runners : /\ WF_clVars(part = "cleanup" /\ runDailyCleanup(c))
                          /\ WF_clVars(part = "cleanup" /\ CleanStep(c))

EventsFair ==
    /\ WF_psVars(part = "presence" /\ interval)
    /\ \A s \in Sockets : /\ WF_psVars(part = "presence" /\ authenticateClient(s))
                          /\ WF_psVars(part = "presence" /\ handleSessionRevoked(s))
    /\ \A i \in SlaInstances : /\ WF_tkVars(part = "tickets" /\ checkSlaBreaches(i))
                               /\ WF_tkVars(part = "tickets" /\ flagBreach(i))
                               /\ WF_tkVars(part = "tickets" /\ notifyBreach(i))

OutsideFair ==
    /\ \A q \in MailReq : WF_mlVars(part = "mail" /\ \E d \in BOOLEAN : processMail(q, d))
    /\ \A r \in RpcRuns :
          /\ WF_rpVars(part = "rpc" /\ checkRpcHealth(r))
          /\ WF_rpVars(part = "rpc" /\ failover(r))
          /\ \A p \in Providers : /\ WF_rpVars(part = "rpc" /\ fetchBlockNumber(r, p))
                                  /\ WF_rpVars(part = "rpc" /\ checkSingleRpcHealth(r, p))

LiveSpec ==
    /\ LiveInit /\ [][LiveNext]_<<part, core, access, others>>
    /\ TransactionsFair /\ SessionsFair /\ AccessFair /\ EventsFair /\ OutsideFair

-----------------------------------------------------------------------------
(* The properties of the instantiated modules.                               *)

\* updateTransactionStatus: once the row is written, its audit entry and its
\* stage event follow, whatever other requests do in between.
StatusChangeRecorded == TX!StatusChangeRecorded

\* cleanBlacklistedTokens: every row of blacklisted_tokens is deleted some day.
BlacklistIsCleaned == SS!BlacklistIsCleaned

\* The rows and the progress of the parts that only this module runs hold
\* values of their types.
LiveTypeOK == RLTypeOK /\ ClTypeOK /\ RpTypeOK

\* What has a time limit ends: a lock, a request limit, a row of blacklisted_tokens, an
\* expired row of the tables the clean-up goes through.
TimeLimitsEnd == LockEnds /\ OverLimitEnds /\ BlacklistIsCleaned /\ ExpiredRowsGo

\* A user without a tracked socket is seen as offline one day, and the socket of a
\* revoked session is closed unless the revocation missed it.
SocketsSettle == OfflineNoticed /\ RevokedSocketsClose

\* Work that has begun comes to its end: a status change is recorded, a late ticket is
\* flagged, queued mail is delivered or given up, a dead provider is left.
StartedWorkEnds ==
    StatusChangeRecorded /\ SlaBreachNoticed /\ QueuedMailSettles /\ DownProviderIsLeft
=============================================================================
