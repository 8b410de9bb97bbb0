------------------------------ MODULE Webhooks ------------------------------
(***************************************************************************)
(* Delivery of events to one registered webhook: WebhooksService with its  *)
(* two retry mechanisms, the BullMQ queue 'webhook-delivery' and the       *)
(* per-minute cron, and the WebhookDeliveryLog rows that they both update. *)
(* Webhooks do not share state, so one is enough; Jobs bounds the queue.   *)
(*                                                                         *)
(* deliverWebhook reads the row, validates the url, posts and writes the   *)
(* row back with no lock, so every awaited call is an action of its own.   *)
(***************************************************************************)
EXTENDS Naturals, FiniteSets, TLC

CONSTANTS
    Delivery,     \* ids of WebhookDeliveryLog rows
    Event,        \* events; each one is triggered once
    Job,          \* slots for queued jobs and setImmediate tasks
    MAX_ATTEMPTS,
    Queue,        \* TRUE: BullMQ is injected; FALSE: setImmediate fallback
    Workers,      \* jobs that all replicas together process at a time
    HasId,        \* TRUE: payloads have an 'id' field
    Ops,          \* operations of the owner: subset of AllOps
    Faults,       \* TRUE: replicas crash between two calls
    MaxTries      \* bound on the attempts made for all rows together

AllOps == {"replay", "update", "remove", "prune"}

ASSUME WebhooksAssumption ==
    /\ MAX_ATTEMPTS \in Nat \ {0}
    /\ Queue \in BOOLEAN
    /\ Workers \in Nat \ {0}
    /\ HasId \in BOOLEAN
    /\ Faults \in BOOLEAN
    /\ Ops \subseteq AllOps
    /\ MaxTries \in Nat

NoEvent == "noEvent"
NoDelivery == "noDelivery"

VARIABLES
    hook,                \* "ACTIVE", "INACTIVE" or "deleted"
    status, attempts,    \* columns of the delivery rows
    due, event,          \* nextRetryAt has passed; the stored payload
    adding,              \* rows created whose queue.add is still to come
    cron,                \* rows the cron has selected and not yet enqueued
    job,                 \* the queue and the tasks in flight
    triggered,           \* events the application has emitted
    \* history: attempts made for a row, POSTs among them, rows the receiver
    \* acknowledged, keys sent with an event
    tries, posts, acked, keys

rows == <<status, attempts, due, event>>
log == <<tries, posts, acked, keys>>
vars == <<hook, rows, adding, cron, job, triggered, log>>

Live == {"PENDING", "SUCCESS", "RETRYING", "FAILED"}
Active == {"find", "create", "validate", "post", "okWrite", "failWrite"}
\* id is the deliveryId of the job's data, which nothing changes; d is the row
\* that the attempt under way works on.
JobRecord == [at : Active \cup {"free", "waiting"},
              id : Delivery \cup {NoDelivery}, d : Delivery \cup {NoDelivery},
              e : Event \cup {NoEvent},
              left : Nat, seen : Nat]
FreeJob == [at |-> "free", id |-> NoDelivery, d |-> NoDelivery, e |-> NoEvent,
            left |-> 0, seen |-> 0]

Init ==
    /\ hook \in {"ACTIVE", "INACTIVE"}
    /\ status = [d \in Delivery |-> "unused"]
    /\ attempts = [d \in Delivery |-> 0]
    /\ due = [d \in Delivery |-> FALSE]
    /\ event = [d \in Delivery |-> NoEvent]
    /\ adding = {}
    /\ cron = {}
    /\ job = [j \in Job |-> FreeJob]
    /\ triggered = {}
    /\ tries = [d \in Delivery |-> 0]
    /\ posts = [d \in Delivery |-> 0]
    /\ acked = [d \in Delivery |-> FALSE]
    /\ keys = [e \in Event |-> {}]

-----------------------------------------------------------------------------
(* Rows and jobs *)

Exists(d) == d \in Delivery /\ status[d] \in Live

\* webhookDeliveryLog.create
CreateRow(d, e) ==
    /\ status[d] = "unused"
    /\ status' = [status EXCEPT ![d] = "PENDING"]
    /\ event' = [event EXCEPT ![d] = e]
    /\ UNCHANGED <<attempts, due>>

\* webhookDeliveryLog.update at the end of an attempt
UpdateRow(d, s, n) ==
    /\ status' = [status EXCEPT ![d] = s]
    /\ attempts' = [attempts EXCEPT ![d] = n]
    /\ due' = [due EXCEPT ![d] = FALSE]
    /\ UNCHANGED event

\* The payload stays with whoever has read the row.
DeleteRows(D) ==
    /\ status' = [d \in Delivery |-> IF d \in D THEN "gone" ELSE status[d]]
    /\ attempts' = [d \in Delivery |-> IF d \in D THEN 0 ELSE attempts[d]]
    /\ due' = [d \in Delivery |-> due[d] /\ d \notin D]
    /\ UNCHANGED event

\* queue.add, or a setImmediate task, which is not retried.
Enqueue(j, at, d, e, left) ==
    /\ job[j].at = "free"
    /\ job' = [job EXCEPT ![j] = [at |-> at, id |-> d, d |-> NoDelivery, e |-> e,
                                  left |-> left, seen |-> 0]]

Step(j, at) == job' = [job EXCEPT ![j].at = at]

Finish(j) == job' = [job EXCEPT ![j] = FreeJob]

\* The job runs again from its data: the row of the failed attempt is forgotten.
Requeue(j, left) ==
    job' = [job EXCEPT ![j] = [at |-> "waiting", id |-> job[j].id, d |-> NoDelivery,
                               e |-> job[j].e, left |-> left, seen |-> 0]]

\* The handler throws: BullMQ puts the job back until its attempts are used.
Throw(j) == IF job[j].left > 1 THEN Requeue(j, job[j].left - 1) ELSE Finish(j)

-----------------------------------------------------------------------------
(* trigger and replay *)

\* The hook is read as ACTIVE; with a queue the row is created at once.
trigger(e) ==
    /\ hook = "ACTIVE"
    /\ e \notin triggered
    /\ triggered' = triggered \cup {e}
    /\ IF Queue
       THEN \E d \in Delivery : CreateRow(d, e) /\ adding' = adding \cup {d} /\ UNCHANGED job
       ELSE \E j \in Job : Enqueue(j, "create", NoDelivery, e, 1) /\ UNCHANGED <<rows, adding>>
    /\ UNCHANGED <<hook, cron, log>>

replay(source) ==
    /\ "replay" \in Ops
    /\ Exists(source)
    /\ hook = "ACTIVE"
    /\ IF Queue
       THEN \E d \in Delivery : /\ CreateRow(d, event[source])
                                /\ adding' = adding \cup {d}
                                /\ UNCHANGED job
       ELSE /\ \E j \in Job : Enqueue(j, "create", NoDelivery, event[source], 1)
            /\ UNCHANGED <<rows, adding>>
    /\ UNCHANGED <<hook, cron, triggered, log>>

QueueAdd(d, j) ==
    /\ d \in adding
    /\ Enqueue(j, "waiting", d, event[d], MAX_ATTEMPTS)
    /\ adding' = adding \ {d}
    /\ UNCHANGED <<hook, rows, cron, triggered, log>>

-----------------------------------------------------------------------------
(* processDeliveryJob and deliverWebhook *)

ProcessJob(j) ==
    /\ job[j].at = "waiting"
    /\ Cardinality({k \in Job : job[k].at \in Active}) < Workers
    /\ IF hook = "ACTIVE" THEN Step(j, "find") ELSE Finish(j)
    /\ UNCHANGED <<hook, rows, adding, cron, triggered, log>>

\* deliverWebhook goes on with row d, which says n attempts.
WorkOn(j, d, n) ==
    job' = [job EXCEPT ![j] = [at |-> "validate", id |-> job[j].id, d |-> d,
                               e |-> job[j].e, left |-> job[j].left, seen |-> n]]

\* Mutated form: the attempt is counted when the row is read as well.
FindRow_Counted(j) ==
    /\ job[j].at = "find"
    /\ LET id == job[j].id
       IN IF Exists(id) THEN WorkOn(j, id, attempts[id] + 1) ELSE Step(j, "create")
    /\ UNCHANGED <<hook, rows, adding, cron, triggered, log>>

FindRow(j) ==
    /\ job[j].at = "find"
    /\ LET id == job[j].id
       IN IF Exists(id) THEN WorkOn(j, id, attempts[id]) ELSE Step(j, "create")
    /\ UNCHANGED <<hook, rows, adding, cron, triggered, log>>

\* The row was not found, or the fallback has not made one yet.  The job's data
\* keeps the old id, so every retry of a job whose row is gone makes a new row.
CreateMissingRow(j) ==
    /\ job[j].at = "create"
    /\ IF hook = "deleted"
       THEN Throw(j) /\ UNCHANGED rows
       ELSE \E d \in Delivery : CreateRow(d, job[j].e) /\ WorkOn(j, d, 0)
    /\ UNCHANGED <<hook, adding, cron, triggered, log>>

\* The bound MaxTries: the attempts of all rows, counted one by one.
TriesLeft ==
    Cardinality({a \in Delivery \X (1 .. MaxTries) : a[2] <= tries[a[1]]}) < MaxTries

\* The url is resolved and checked again before every attempt.
validateWebhookUrl(j) ==
    /\ job[j].at = "validate"
    /\ TriesLeft
    /\ tries' = [tries EXCEPT ![job[j].d] = @ + 1]
    /\ \/ Step(j, "post") /\ UNCHANGED rows
       \/ /\ Exists(job[j].d)
          /\ UpdateRow(job[j].d, "FAILED", job[j].seen + 1)
          /\ Finish(j)
       \/ ~Exists(job[j].d) /\ Throw(j) /\ UNCHANGED rows
    /\ UNCHANGED <<hook, adding, cron, triggered, posts, acked, keys>>

\* Mutated form: the key names the delivery even when the payload has an id.
idempotencyKey_Delivery(d, e) == <<"delivery", d>>

idempotencyKey(d, e) == IF HasId THEN <<"payload", e>> ELSE <<"delivery", d>>

\* fetch: an answer 2xx, or an error, which may be a timeout after the
\* receiver accepted the event.
Post(j) ==
    /\ job[j].at = "post"
    /\ LET d == job[j].d
           e == job[j].e
       IN /\ posts' = [posts EXCEPT ![d] = @ + 1]
          /\ keys' = [keys EXCEPT ![e] = @ \cup {idempotencyKey(d, e)}]
          /\ \/ Step(j, "okWrite") /\ acked' = [acked EXCEPT ![d] = TRUE]
             \/ Step(j, "failWrite") /\ UNCHANGED acked
    /\ UNCHANGED <<hook, rows, adding, cron, triggered, tries>>

\* An update of a row that is gone throws into the catch block.
SuccessWrite(j) ==
    /\ job[j].at = "okWrite"
    /\ IF Exists(job[j].d)
       THEN UpdateRow(job[j].d, "SUCCESS", job[j].seen + 1) /\ Finish(j)
       ELSE Step(j, "failWrite") /\ UNCHANGED rows
    /\ UNCHANGED <<hook, adding, cron, triggered, log>>

\* Mutated form: attempts are compared with <=.
shouldRetry_OffByOne(n) == n <= MAX_ATTEMPTS

shouldRetry(n) == n < MAX_ATTEMPTS

\* Mutated form: the success branch is taken whatever the response was.
FailureWrite_Ok(j) ==
    /\ job[j].at = "failWrite"
    /\ IF Exists(job[j].d)
       THEN UpdateRow(job[j].d, "SUCCESS", job[j].seen + 1) /\ Finish(j)
       ELSE Throw(j) /\ UNCHANGED rows
    /\ UNCHANGED <<hook, adding, cron, triggered, log>>

FailureWrite(j) ==
    /\ job[j].at = "failWrite"
    /\ IF Exists(job[j].d)
       THEN LET n == job[j].seen + 1 IN
            /\ UpdateRow(job[j].d, IF shouldRetry(n) THEN "RETRYING" ELSE "FAILED", n)
            /\ IF shouldRetry(n) THEN Throw(j) ELSE Finish(j)
       ELSE Throw(j) /\ UNCHANGED rows
    /\ UNCHANGED <<hook, adding, cron, triggered, log>>

-----------------------------------------------------------------------------
(* retryFailedDeliveries *)

RetryTimePasses(d) ==
    /\ status[d] = "RETRYING" /\ ~due[d]
    /\ due' = [due EXCEPT ![d] = TRUE]
    /\ UNCHANGED <<hook, status, attempts, event, adding, cron, job, triggered, log>>

CronSelect(d) == status[d] = "RETRYING" /\ due[d] /\ attempts[d] < MAX_ATTEMPTS

CronRead ==
    /\ hook = "ACTIVE"
    /\ {d \in Delivery : CronSelect(d)} \ cron # {}
    /\ cron' = cron \cup {d \in Delivery : CronSelect(d)}
    /\ UNCHANGED <<hook, rows, adding, job, triggered, log>>

\* The job has the queue's defaultJobOptions; nothing looks for another one.
CronAdd(d, j) ==
    /\ d \in cron
    /\ cron' = cron \ {d}
    /\ Enqueue(j, IF Queue THEN "waiting" ELSE "find", d, event[d],
                  IF Queue THEN MAX_ATTEMPTS ELSE 1)
    /\ UNCHANGED <<hook, rows, adding, triggered, log>>

-----------------------------------------------------------------------------
(* Operations of the owner, pruning and crashes *)

\* PATCH with isActive.
update(s) ==
    /\ "update" \in Ops
    /\ hook # "deleted"
    /\ s # hook
    /\ hook' = s
    /\ UNCHANGED <<rows, adding, cron, job, triggered, log>>

\* The endpoint echoed the challenge: whatever the owner did meanwhile, ACTIVE.
verifyChallenge ==
    /\ "update" \in Ops
    /\ hook = "INACTIVE"
    /\ hook' = "ACTIVE"
    /\ UNCHANGED <<rows, adding, cron, job, triggered, log>>

\* The delivery rows go with the webhook (onDelete: Cascade).
remove ==
    /\ "remove" \in Ops
    /\ hook # "deleted"
    /\ hook' = "deleted"
    /\ DeleteRows({d \in Delivery : Exists(d)})
    /\ UNCHANGED <<adding, cron, job, triggered, log>>

pruneOldDeliveryLogs(d) ==
    /\ "prune" \in Ops
    /\ Exists(d)
    /\ DeleteRows({d})
    /\ UNCHANGED <<hook, adding, cron, job, triggered, log>>

\* The process dies between webhookDeliveryLog.create and queue.add.
CrashBeforeAdd(d) ==
    /\ Faults
    /\ d \in adding
    /\ adding' = adding \ {d}
    /\ UNCHANGED <<hook, rows, cron, job, triggered, log>>

\* A worker dies: BullMQ finds the job stalled and runs it again, or gives up.
CrashInJob(j) ==
    /\ Faults
    /\ job[j].at \in Active
    /\ \/ Queue /\ Requeue(j, job[j].left)
       \/ Finish(j)
    /\ UNCHANGED <<hook, rows, adding, cron, triggered, log>>

RunJob(j) ==
    ProcessJob(j) \/ FindRow(j) \/ CreateMissingRow(j) \/ validateWebhookUrl(j)
        \/ Post(j) \/ SuccessWrite(j) \/ FailureWrite(j)

Next ==
    \/ \E e \in Event : trigger(e)
    \/ \E d \in Delivery : \/ replay(d) \/ pruneOldDeliveryLogs(d)
                           \/ RetryTimePasses(d) \/ CrashBeforeAdd(d)
                           \/ \E j \in Job : QueueAdd(d, j) \/ CronAdd(d, j)
    \/ \E j \in Job : RunJob(j) \/ CrashInJob(j)
    \/ CronRead
    \/ \E s \in {"ACTIVE", "INACTIVE"} : update(s)
    \/ verifyChallenge
    \/ remove

Spec == Init /\ [][Next]_vars

\* Handlers, timers and the worker loop run on.  BullMQ takes waiting jobs in
\* turn and its queue is unbounded, so a job that waits for a worker, or a row
\* that waits for one of the slots in Job, is served whenever one is free
\* again and again.
FairSpec ==
    /\ Spec
    /\ WF_vars(CronRead)
    /\ \A d \in Delivery : WF_vars(RetryTimePasses(d))
    /\ \A d \in Delivery : SF_vars(\E j \in Job : QueueAdd(d, j))
    /\ \A d \in Delivery : SF_vars(\E j \in Job : CronAdd(d, j))
    /\ \A j \in Job : SF_vars(RunJob(j))

\* For the runs: neither jobs nor the ids of rows are told apart.
Symmetry == Permutations(Job) \cup Permutations(Delivery)

-----------------------------------------------------------------------------
(* Properties *)

\* Type invariant of the rows, the queue and the history.
TypeOK ==
    /\ hook \in {"ACTIVE", "INACTIVE", "deleted"}
    /\ status \in [Delivery -> Live \cup {"unused", "gone"}]
    /\ attempts \in [Delivery -> Nat]
    /\ due \in [Delivery -> BOOLEAN]
    /\ event \in [Delivery -> Event \cup {NoEvent}]
    /\ adding \in SUBSET Delivery
    /\ cron \in SUBSET Delivery
    /\ job \in [Job -> JobRecord]
    /\ triggered \in SUBSET Event
    /\ tries \in [Delivery -> Nat]
    /\ posts \in [Delivery -> Nat]
    /\ acked \in [Delivery -> BOOLEAN]
    /\ keys \in [Event -> SUBSET (({"payload"} \X Event) \cup ({"delivery"} \X Delivery))]

\* deliverWebhook: a row says SUCCESS only if the receiver answered 2xx to one
\* of its POSTs, although several jobs may write the same row.
SuccessMeansAcknowledged ==
    \A d \in Delivery : status[d] = "SUCCESS" => acked[d]

\* deliverWebhook writes the attempts it read plus one; with jobs overlapping
\* and rows recreated that loses attempts but never invents one: a delivery
\* is given up with FAILED no earlier than its attempts allow.
AttemptsNotInvented ==
    \A d \in Delivery : attempts[d] <= tries[d]

\* shouldRetry and the filter of retryFailedDeliveries agree: a row that waits
\* for a retry is one that the cron will still pick up.
RetryingIsSelectable ==
    \A d \in Delivery : status[d] = "RETRYING" => attempts[d] < MAX_ATTEMPTS

\* docs/WEBHOOKS.md, Idempotency: every POST of an event, its retries and its
\* replays carry the same X-Webhook-Idempotency-Key.
KeyStable ==
    \A e \in Event : Cardinality(keys[e]) <= 1

\* docs/WEBHOOKS.md: once a delivery is FAILED no further retry is attempted.
FailedIsFinal ==
    [][\A d \in Delivery : status[d] = "FAILED" => posts'[d] = posts[d]]_vars

\* While the webhook stays active, every stored delivery ends as SUCCESS or
\* FAILED, whichever of the two retry mechanisms carries it there.
Settles ==
    \A d \in Delivery :
        (status[d] \in {"PENDING", "RETRYING"}) ~> (status[d] \in {"SUCCESS", "FAILED"})

=============================================================================
