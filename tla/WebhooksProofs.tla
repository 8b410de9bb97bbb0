--------------------------- MODULE WebhooksProofs ---------------------------
(***************************************************************************)
(* Proofs about Webhooks for every number of rows, jobs and workers and    *)
(* every MAX_ATTEMPTS.                                                     *)
(***************************************************************************)
EXTENDS Webhooks, FiniteSetTheorems, TLAPS

(***************************************************************************)
(* The delivery log is written from values that a job read several calls   *)
(* earlier, while other jobs of the same row run.  What makes it truthful  *)
(* is what a job knows at each step: the attempts it read were made, and   *)
(* it has made one more by the time it writes them back plus one.          *)
(***************************************************************************)

OnRow == {"validate", "post", "okWrite", "failWrite"}

\* Rows that were created have a payload, and so has every job; a job that is
\* past the creation of its row has one, and only a setImmediate task, which is
\* never run again, started without the id of a row.
PayloadKnown ==
    /\ \A d \in Delivery : status[d] # "unused" => event[d] \in Event
    /\ \A d \in adding \cup cron : status[d] # "unused"
    /\ \A j \in Job : job[j].at # "free" => job[j].e \in Event
    /\ \A j \in Job : job[j].at \in OnRow => job[j].d \in Delivery
    /\ \A j \in Job : job[j].at \in {"waiting", "find"} => job[j].id \in Delivery
    /\ \A j \in Job : job[j].at # "free" /\ job[j].id \notin Delivery
                           => ~Queue /\ job[j].left <= 1

\* A job has read at most the attempts that were made, and one fewer than that
\* once it is making its own.
ReadSound ==
    \A j \in Job :
        /\ job[j].at = "validate" => job[j].seen <= tries[job[j].d]
        /\ job[j].at \in {"post", "okWrite", "failWrite"}
               => job[j].seen + 1 <= tries[job[j].d]
        /\ job[j].at = "okWrite" => acked[job[j].d]

IInv == TypeOK /\ PayloadKnown /\ ReadSound /\ SuccessMeansAcknowledged
            /\ AttemptsNotInvented /\ RetryingIsSelectable

\* A service that has delivered nothing yet satisfies the inductive invariant.
LEMMA InitIInv == Init => IInv
<1> SUFFICES ASSUME Init PROVE IInv
  OBVIOUS
<1>1. TypeOK
  BY DEF Init, TypeOK, FreeJob, JobRecord, Live, Active
<1>2. PayloadKnown /\ ReadSound
  BY DEF Init, PayloadKnown, ReadSound, OnRow, FreeJob
<1>3. SuccessMeansAcknowledged /\ AttemptsNotInvented /\ RetryingIsSelectable
  BY DEF Init, SuccessMeansAcknowledged, AttemptsNotInvented, RetryingIsSelectable
<1> QED BY <1>1, <1>2, <1>3 DEF IInv

\* What a step of job j may do to the jobs: it moves on with its data, or it is
\* gone, or it waits to be run again, which takes attempts that are left.
Stepped(j, a) ==
    /\ job' \in [Job -> JobRecord]
    /\ \A k \in Job \ {j} : job'[k] = job[k]
    /\ job'[j].at = a /\ job'[j].d = job[j].d /\ job'[j].e = job[j].e
    /\ job'[j].id = job[j].id
    /\ job'[j].seen = job[j].seen /\ job'[j].left = job[j].left

Ended(j) ==
    /\ job' \in [Job -> JobRecord]
    /\ \A k \in Job \ {j} : job'[k] = job[k]
    /\ \/ job'[j].at = "free"
       \/ /\ job'[j].at = "waiting" /\ job[j].left > 1
          /\ job'[j].id = job[j].id /\ job'[j].e = job[j].e

Requeued(j) ==
    /\ job' \in [Job -> JobRecord]
    /\ \A k \in Job \ {j} : job'[k] = job[k]
    /\ job'[j].at = "waiting" /\ job'[j].id = job[j].id /\ job'[j].e = job[j].e

WorkingOn(j, d, n) ==
    /\ job' \in [Job -> JobRecord]
    /\ \A k \in Job \ {j} : job'[k] = job[k]
    /\ job'[j].at = "validate" /\ job'[j].d = d /\ job'[j].seen = n
    /\ job'[j].id = job[j].id /\ job'[j].e = job[j].e /\ job'[j].left = job[j].left

\* A job that moves on keeps its data, and the other jobs are as they were.
LEMMA StepFacts ==
    ASSUME job \in [Job -> JobRecord], NEW j \in Job, NEW a \in Active \cup {"waiting"},
           Step(j, a)
    PROVE  Stepped(j, a)
<1> DEFINE v == [job[j] EXCEPT !.at = a]
<1>1. job[j] \in JobRecord
  OBVIOUS
<1>2. /\ v \in JobRecord
      /\ v.at = a /\ v.d = job[j].d /\ v.e = job[j].e /\ v.id = job[j].id
      /\ v.seen = job[j].seen /\ v.left = job[j].left
  BY <1>1 DEF JobRecord
<1>3. job' = [job EXCEPT ![j] = v]
  BY DEF Step
<1> HIDE DEF v
<1> QED BY <1>2, <1>3 DEF Stepped

\* A job that is put back waits with the data it was added with.
LEMMA RequeueFacts ==
    ASSUME job \in [Job -> JobRecord], NEW j \in Job, NEW n \in Nat, Requeue(j, n)
    PROVE  Requeued(j)
<1> DEFINE v == [at |-> "waiting", id |-> job[j].id, d |-> NoDelivery,
                 e |-> job[j].e, left |-> n, seen |-> 0]
<1>1. job[j] \in JobRecord
  OBVIOUS
<1>2. v \in JobRecord /\ v.at = "waiting" /\ v.id = job[j].id /\ v.e = job[j].e
  BY <1>1 DEF JobRecord
<1>3. job' = [job EXCEPT ![j] = v]
  BY DEF Requeue
<1> HIDE DEF v
<1> QED BY <1>2, <1>3 DEF Requeued

\* A job that has found or made row d works on it with the attempts n.
LEMMA WorkFacts ==
    ASSUME job \in [Job -> JobRecord], NEW j \in Job, NEW d \in Delivery, NEW n \in Nat,
           WorkOn(j, d, n)
    PROVE  WorkingOn(j, d, n)
<1> DEFINE v == [at |-> "validate", id |-> job[j].id, d |-> d,
                 e |-> job[j].e, left |-> job[j].left, seen |-> n]
<1>1. job[j] \in JobRecord
  OBVIOUS
<1>2. /\ v \in JobRecord
      /\ v.at = "validate" /\ v.d = d /\ v.seen = n
      /\ v.id = job[j].id /\ v.e = job[j].e /\ v.left = job[j].left
  BY <1>1 DEF JobRecord, Active
<1>3. job' = [job EXCEPT ![j] = v]
  BY DEF WorkOn
<1> HIDE DEF v
<1> QED BY <1>2, <1>3 DEF WorkingOn

\* A job that completes or throws is gone, or waits to be run again with the
\* same data, which only a job with attempts left does.
LEMMA EndFacts ==
    ASSUME job \in [Job -> JobRecord], NEW j \in Job, Finish(j) \/ Throw(j)
    PROVE  Ended(j)
<1>1. FreeJob \in JobRecord /\ FreeJob.at = "free"
  BY DEF FreeJob, JobRecord
<1>2. CASE Finish(j)
  BY <1>1, <1>2 DEF Finish, Ended
<1>3. CASE Throw(j) /\ job[j].left > 1
  <2>1. job[j].left - 1 \in Nat
    <3>1. job[j].left \in Nat
      BY DEF JobRecord
    <3> QED BY <1>3, <3>1
  <2>2. Requeue(j, job[j].left - 1)
    BY <1>3 DEF Throw
  <2> QED BY <1>3, <2>1, <2>2, RequeueFacts DEF Requeued, Ended
<1>4. CASE Throw(j) /\ ~(job[j].left > 1)
  BY <1>2, <1>4 DEF Throw
<1> QED BY <1>2, <1>3, <1>4

\* Every call of a delivery, of the cron and of the owner, and every crash,
\* preserves the inductive invariant.
LEMMA NextIInv == IInv /\ [Next]_vars => IInv'
<1> SUFFICES ASSUME IInv, [Next]_vars PROVE IInv'
  OBVIOUS
<1> USE WebhooksAssumption DEF IInv, rows, log
<1>1. ASSUME NEW e \in Event, trigger(e) PROVE IInv'
  <2>1. TypeOK'
    BY <1>1, SMTT(30) DEF trigger, CreateRow, Enqueue, TypeOK, Live, Active, FreeJob, JobRecord
  <2>2. PayloadKnown'
    BY <1>1 DEF trigger, CreateRow, Enqueue, TypeOK, PayloadKnown, OnRow, FreeJob
  <2>3. ReadSound'
    BY <1>1
    DEF trigger, CreateRow, Enqueue, TypeOK, PayloadKnown, OnRow, ReadSound,
        AttemptsNotInvented, FreeJob
  <2>4. (SuccessMeansAcknowledged /\ AttemptsNotInvented /\ RetryingIsSelectable)'
    BY <1>1
    DEF trigger, CreateRow, Enqueue, TypeOK, ReadSound, SuccessMeansAcknowledged,
        AttemptsNotInvented, RetryingIsSelectable
  <2> QED BY <2>1, <2>2, <2>3, <2>4
<1>2. ASSUME NEW d \in Delivery, replay(d) PROVE IInv'
  <2>1. TypeOK'
    BY <1>2, SMTT(30)
    DEF replay, CreateRow, Enqueue, Exists, Live, TypeOK, Active, FreeJob, JobRecord
  <2>2. PayloadKnown'
    BY <1>2
    DEF replay, CreateRow, Enqueue, Exists, Live, TypeOK, PayloadKnown, OnRow, FreeJob
  <2>3. ReadSound'
    BY <1>2
    DEF replay, CreateRow, Enqueue, Exists, Live, TypeOK, PayloadKnown, OnRow, ReadSound,
        AttemptsNotInvented, FreeJob
  <2>4. (SuccessMeansAcknowledged /\ AttemptsNotInvented /\ RetryingIsSelectable)'
    BY <1>2
    DEF replay, CreateRow, Enqueue, Exists, Live, TypeOK, ReadSound,
        SuccessMeansAcknowledged, AttemptsNotInvented, RetryingIsSelectable
  <2> QED BY <2>1, <2>2, <2>3, <2>4
<1>3. ASSUME NEW d \in Delivery, pruneOldDeliveryLogs(d) PROVE IInv'
  <2>1. TypeOK'
    BY <1>3 DEF pruneOldDeliveryLogs, DeleteRows, Exists, Live, TypeOK, Active, FreeJob, JobRecord
  <2>2. PayloadKnown'
    BY <1>3 DEF pruneOldDeliveryLogs, DeleteRows, Exists, Live, TypeOK, PayloadKnown, OnRow, FreeJob
  <2>3. ReadSound'
    BY <1>3
    DEF pruneOldDeliveryLogs, DeleteRows, Exists, Live, TypeOK, PayloadKnown, OnRow, ReadSound,
        AttemptsNotInvented, FreeJob
  <2>4. (SuccessMeansAcknowledged /\ AttemptsNotInvented /\ RetryingIsSelectable)'
    BY <1>3
    DEF pruneOldDeliveryLogs, DeleteRows, Exists, Live, TypeOK, ReadSound, SuccessMeansAcknowledged,
        AttemptsNotInvented, RetryingIsSelectable
  <2> QED BY <2>1, <2>2, <2>3, <2>4
<1>4. ASSUME NEW d \in Delivery, RetryTimePasses(d) PROVE IInv'
  <2>1. TypeOK' BY <1>4 DEF RetryTimePasses, TypeOK, Live, Active, FreeJob, JobRecord
  <2>2. PayloadKnown' BY <1>4 DEF RetryTimePasses, TypeOK, PayloadKnown, OnRow, FreeJob
  <2>3. ReadSound'
    BY <1>4
    DEF RetryTimePasses, TypeOK, PayloadKnown, OnRow, ReadSound, AttemptsNotInvented,
        FreeJob
  <2>4. (SuccessMeansAcknowledged /\ AttemptsNotInvented /\ RetryingIsSelectable)'
    BY <1>4
    DEF RetryTimePasses, TypeOK, ReadSound, SuccessMeansAcknowledged, AttemptsNotInvented,
        RetryingIsSelectable
  <2> QED BY <2>1, <2>2, <2>3, <2>4
<1>5. ASSUME NEW d \in Delivery, CrashBeforeAdd(d) PROVE IInv'
  <2>1. TypeOK' BY <1>5 DEF CrashBeforeAdd, TypeOK, Live, Active, FreeJob, JobRecord
  <2>2. PayloadKnown' BY <1>5 DEF CrashBeforeAdd, TypeOK, PayloadKnown, OnRow, FreeJob
  <2>3. ReadSound'
    BY <1>5
    DEF CrashBeforeAdd, TypeOK, PayloadKnown, OnRow, ReadSound, AttemptsNotInvented, FreeJob
  <2>4. (SuccessMeansAcknowledged /\ AttemptsNotInvented /\ RetryingIsSelectable)'
    BY <1>5
    DEF CrashBeforeAdd, TypeOK, ReadSound, SuccessMeansAcknowledged, AttemptsNotInvented,
        RetryingIsSelectable
  <2> QED BY <2>1, <2>2, <2>3, <2>4
<1>6. ASSUME NEW d \in Delivery, NEW j \in Job, QueueAdd(d, j) PROVE IInv'
  <2>1. TypeOK' BY <1>6 DEF QueueAdd, Enqueue, TypeOK, Live, Active, FreeJob, JobRecord
  <2>2. PayloadKnown' BY <1>6 DEF QueueAdd, Enqueue, TypeOK, PayloadKnown, OnRow, FreeJob
  <2>3. ReadSound'
    BY <1>6
    DEF QueueAdd, Enqueue, TypeOK, PayloadKnown, OnRow, ReadSound, AttemptsNotInvented,
        FreeJob
  <2>4. (SuccessMeansAcknowledged /\ AttemptsNotInvented /\ RetryingIsSelectable)'
    BY <1>6
    DEF QueueAdd, Enqueue, TypeOK, ReadSound, SuccessMeansAcknowledged,
        AttemptsNotInvented, RetryingIsSelectable
  <2> QED BY <2>1, <2>2, <2>3, <2>4
<1>7. ASSUME NEW d \in Delivery, NEW j \in Job, CronAdd(d, j) PROVE IInv'
  <2>1. TypeOK' BY <1>7 DEF CronAdd, Enqueue, TypeOK, Live, Active, FreeJob, JobRecord
  <2>2. PayloadKnown' BY <1>7 DEF CronAdd, Enqueue, TypeOK, PayloadKnown, OnRow, FreeJob
  <2>3. ReadSound'
    BY <1>7
    DEF CronAdd, Enqueue, TypeOK, PayloadKnown, OnRow, ReadSound, AttemptsNotInvented,
        FreeJob
  <2>4. (SuccessMeansAcknowledged /\ AttemptsNotInvented /\ RetryingIsSelectable)'
    BY <1>7
    DEF CronAdd, Enqueue, TypeOK, ReadSound, SuccessMeansAcknowledged, AttemptsNotInvented,
        RetryingIsSelectable
  <2> QED BY <2>1, <2>2, <2>3, <2>4
<1>8. ASSUME NEW j \in Job, ProcessJob(j) PROVE IInv'
  <2>1. job[j].id \in Delivery /\ job[j].e \in Event /\ job[j].seen \in Nat
    BY <1>8 DEF ProcessJob, TypeOK, JobRecord, PayloadKnown
  <2>2. CASE hook = "ACTIVE"
    <3>1. /\ UNCHANGED <<rows, log>>
          /\ UNCHANGED <<hook, adding, cron, triggered>>
      BY <1>8, <2>2 DEF ProcessJob
    <3>2. Stepped(j, "find")
      <4>1. Step(j, "find") BY <1>8, <2>2 DEF ProcessJob
      <4> QED BY <4>1, StepFacts DEF TypeOK, Active
    <3>3. TypeOK' BY <1>8, <2>1, <2>2, <3>1, <3>2 DEF Stepped, ProcessJob, TypeOK, Live
    <3>4. PayloadKnown'
      BY <1>8, <2>1, <2>2, <3>1, <3>2
      DEF Stepped, ProcessJob, TypeOK, Live, PayloadKnown, OnRow
    <3>5. ReadSound'
      BY <1>8, <2>1, <2>2, <3>1, <3>2
      DEF Stepped, ProcessJob, TypeOK, ReadSound, PayloadKnown, OnRow
    <3>6. (SuccessMeansAcknowledged /\ AttemptsNotInvented /\ RetryingIsSelectable)'
      BY <1>8, <2>1, <2>2, <3>1, <3>2
      DEF Stepped, ProcessJob, TypeOK, ReadSound, SuccessMeansAcknowledged,
          AttemptsNotInvented, RetryingIsSelectable
    <3> QED BY <3>3, <3>4, <3>5, <3>6
  <2>3. CASE hook # "ACTIVE"
    <3>1. /\ UNCHANGED <<rows, log>>
          /\ UNCHANGED <<hook, adding, cron, triggered>>
      BY <1>8, <2>3 DEF ProcessJob
    <3>2. Ended(j)
      <4>1. Finish(j) \/ Throw(j) BY <1>8, <2>3 DEF ProcessJob
      <4> QED BY <4>1, EndFacts DEF TypeOK, Active
    <3>3. TypeOK' BY <1>8, <2>1, <2>3, <3>1, <3>2 DEF Ended, ProcessJob, TypeOK, Live
    <3>4. PayloadKnown'
      BY <1>8, <2>1, <2>3, <3>1, <3>2
      DEF Ended, ProcessJob, TypeOK, Live, PayloadKnown, OnRow
    <3>5. ReadSound'
      BY <1>8, <2>1, <2>3, <3>1, <3>2
      DEF Ended, ProcessJob, TypeOK, ReadSound, PayloadKnown, OnRow
    <3>6. (SuccessMeansAcknowledged /\ AttemptsNotInvented /\ RetryingIsSelectable)'
      BY <1>8, <2>1, <2>3, <3>1, <3>2
      DEF Ended, ProcessJob, TypeOK, ReadSound, SuccessMeansAcknowledged,
          AttemptsNotInvented, RetryingIsSelectable
    <3> QED BY <3>3, <3>4, <3>5, <3>6
  <2> QED BY <2>2, <2>3
<1>9. ASSUME NEW j \in Job, FindRow(j) PROVE IInv'
  <2>1. /\ job[j].id \in Delivery /\ job[j].e \in Event
        /\ UNCHANGED <<rows, log>>
        /\ UNCHANGED <<hook, adding, cron, triggered>>
    BY <1>9 DEF FindRow, TypeOK, PayloadKnown
  <2>2. (SuccessMeansAcknowledged /\ AttemptsNotInvented /\ RetryingIsSelectable)'
    BY <2>1 DEF SuccessMeansAcknowledged, AttemptsNotInvented, RetryingIsSelectable
  <2>3. CASE Exists(job[j].id)
    <3>1. attempts[job[j].id] \in Nat
      BY <2>1 DEF TypeOK
    <3>2. WorkingOn(j, job[j].id, attempts[job[j].id])
      <4>1. WorkOn(j, job[j].id, attempts[job[j].id]) BY <1>9, <2>3 DEF FindRow
      <4> QED BY <2>1, <3>1, <4>1, WorkFacts DEF TypeOK
    <3>3. TypeOK' BY <2>1, <3>2 DEF WorkingOn, TypeOK
    <3>4. PayloadKnown' BY <2>1, <3>2 DEF WorkingOn, PayloadKnown, OnRow, TypeOK
    <3>5. ReadSound' BY <2>1, <3>2 DEF WorkingOn, ReadSound, AttemptsNotInvented, TypeOK
    <3> QED BY <2>2, <3>3, <3>4, <3>5
  <2>4. CASE ~Exists(job[j].id)
    <3>1. Stepped(j, "create")
      <4>1. Step(j, "create") BY <1>9, <2>4 DEF FindRow
      <4> QED BY <4>1, StepFacts DEF TypeOK, Active
    <3>2. TypeOK' BY <2>1, <3>1 DEF Stepped, TypeOK
    <3>3. PayloadKnown' BY <2>1, <3>1 DEF Stepped, PayloadKnown, OnRow, TypeOK
    <3>4. ReadSound' BY <2>1, <3>1 DEF Stepped, ReadSound, TypeOK
    <3> QED BY <2>2, <3>2, <3>3, <3>4
  <2> QED BY <2>3, <2>4
<1>10. ASSUME NEW j \in Job, CreateMissingRow(j) PROVE IInv'
  <2>1. /\ job[j] \in JobRecord /\ job[j].e \in Event /\ job[j].left \in Nat
        /\ job[j].left > 1 => job[j].id \in Delivery
    <3>1. job[j] \in JobRecord /\ job[j].left \in Nat BY DEF TypeOK, JobRecord
    <3>2. job[j].at = "create" BY <1>10 DEF CreateMissingRow
    <3>3. job[j].id \notin Delivery => job[j].left <= 1 BY <3>2 DEF PayloadKnown
    <3> QED BY <3>1, <3>2, <3>3 DEF PayloadKnown
  <2>2. CASE hook = "deleted"
    <3>1. /\ UNCHANGED <<rows, log>>
          /\ UNCHANGED <<hook, adding, cron, triggered>>
      BY <1>10, <2>2 DEF CreateMissingRow
    <3>2. Ended(j)
      <4>1. Finish(j) \/ Throw(j) BY <1>10, <2>2 DEF CreateMissingRow
      <4> QED BY <4>1, EndFacts DEF TypeOK, Active
    <3>3. TypeOK' BY <1>10, <2>1, <2>2, <3>1, <3>2 DEF Ended, CreateMissingRow, TypeOK, Live
    <3>4. PayloadKnown'
      BY <1>10, <2>1, <2>2, <3>1, <3>2
      DEF Ended, CreateMissingRow, TypeOK, Live, PayloadKnown, OnRow
    <3>5. ReadSound'
      BY <1>10, <2>1, <2>2, <3>1, <3>2
      DEF Ended, CreateMissingRow, TypeOK, ReadSound, PayloadKnown, OnRow
    <3>6. (SuccessMeansAcknowledged /\ AttemptsNotInvented /\ RetryingIsSelectable)'
      BY <1>10, <2>1, <2>2, <3>1, <3>2
      DEF Ended, CreateMissingRow, TypeOK, ReadSound, SuccessMeansAcknowledged,
          AttemptsNotInvented, RetryingIsSelectable
    <3> QED BY <3>3, <3>4, <3>5, <3>6
  <2>3. ASSUME NEW d \in Delivery, CreateRow(d, job[j].e), WorkOn(j, d, 0),
               UNCHANGED <<hook, adding, cron, triggered, log>>
        PROVE  IInv'
    <3>1. WorkingOn(j, d, 0)
      BY <2>3, WorkFacts DEF TypeOK
    <3>2. job[j].at = "create"
      BY <1>10 DEF CreateMissingRow
    <3>3. TypeOK' BY <2>1, <2>3, <3>1 DEF WorkingOn, TypeOK, CreateRow, Live
    <3>4. PayloadKnown'
      BY <2>1, <2>3, <3>1, <3>2 DEF WorkingOn, PayloadKnown, OnRow, TypeOK, CreateRow
    <3>5. ReadSound' BY <2>3, <3>1 DEF WorkingOn, ReadSound, TypeOK
    <3>6. (SuccessMeansAcknowledged /\ AttemptsNotInvented /\ RetryingIsSelectable)'
        BY <2>3
        DEF SuccessMeansAcknowledged, AttemptsNotInvented, RetryingIsSelectable, CreateRow,
            TypeOK
    <3> QED BY <3>3, <3>4, <3>5, <3>6
  <2> QED BY <1>10, <2>2, <2>3 DEF CreateMissingRow
<1>11. ASSUME NEW j \in Job, validateWebhookUrl(j) PROVE IInv'
  <2>1. /\ job[j].d \in Delivery /\ job[j].e \in Event /\ job[j].seen \in Nat
        /\ tries[job[j].d] \in Nat
    BY <1>11 DEF validateWebhookUrl, TypeOK, JobRecord, PayloadKnown, OnRow
  <2>0. job[j].left > 1 => job[j].id \in Delivery
    <3>1. job[j].at # "free" /\ job[j].left \in Nat
      BY <1>11 DEF validateWebhookUrl, TypeOK, JobRecord
    <3> QED BY <3>1 DEF PayloadKnown
  <2>2. CASE Step(j, "post") /\ UNCHANGED rows
    <3>1. /\ tries' = [tries EXCEPT ![job[j].d] = @ + 1]
          /\ UNCHANGED <<rows, posts, acked, keys>>
          /\ UNCHANGED <<hook, adding, cron, triggered>>
      BY <1>11, <2>2 DEF validateWebhookUrl
    <3>2. Stepped(j, "post")
      <4>1. Step(j, "post") BY <1>11, <2>2 DEF validateWebhookUrl
      <4> QED BY <4>1, StepFacts DEF TypeOK, Active
    <3>0. /\ \A x \in Delivery : tries[x] \in Nat /\ tries'[x] \in Nat /\ tries[x] <= tries'[x]
           /\ tries'[job[j].d] = tries[job[j].d] + 1
           /\ \A k \in Job : job[k].seen \in Nat
      BY <2>1, <3>1 DEF TypeOK, JobRecord
    <3>3. TypeOK'
      BY <1>11, <2>1, <2>2, <3>1, <3>2 DEF Stepped, validateWebhookUrl, TypeOK, Live
    <3>4. PayloadKnown'
      BY <1>11, <2>0, <2>1, <2>2, <3>1, <3>2
      DEF Stepped, validateWebhookUrl, TypeOK, Live, PayloadKnown, OnRow
    <3>5. ReadSound'
      BY <1>11, <2>1, <3>0, <2>2, <3>1, <3>2
      DEF Stepped, validateWebhookUrl, TypeOK, ReadSound, PayloadKnown, OnRow
    <3>6. (SuccessMeansAcknowledged /\ AttemptsNotInvented /\ RetryingIsSelectable)'
      BY <1>11, <2>1, <2>2, <3>1, <3>2
      DEF Stepped, validateWebhookUrl, TypeOK, ReadSound, SuccessMeansAcknowledged,
          AttemptsNotInvented, RetryingIsSelectable
    <3> QED BY <3>3, <3>4, <3>5, <3>6
  <2>3. CASE Exists(job[j].d) /\ UpdateRow(job[j].d, "FAILED", job[j].seen + 1) /\ Finish(j)
    <3>1. /\ tries' = [tries EXCEPT ![job[j].d] = @ + 1]
          /\ UNCHANGED <<posts, acked, keys>>
          /\ UNCHANGED <<hook, adding, cron, triggered>>
      BY <1>11, <2>3 DEF validateWebhookUrl
    <3>2. Ended(j)
      <4>1. Finish(j) \/ Throw(j) BY <1>11, <2>3 DEF validateWebhookUrl
      <4> QED BY <4>1, EndFacts DEF TypeOK, Active
    <3>0. /\ \A x \in Delivery : tries[x] \in Nat /\ tries'[x] \in Nat /\ tries[x] <= tries'[x]
           /\ tries'[job[j].d] = tries[job[j].d] + 1
           /\ \A k \in Job : job[k].seen \in Nat
      BY <2>1, <3>1 DEF TypeOK, JobRecord
    <3>3. TypeOK'
      BY <1>11, <2>1, <2>3, <3>1, <3>2
      DEF Ended, validateWebhookUrl, UpdateRow, Exists, TypeOK, Live
    <3>4. PayloadKnown'
      BY <1>11, <2>0, <2>1, <2>3, <3>1, <3>2
      DEF Ended, validateWebhookUrl, UpdateRow, Exists, TypeOK, Live, PayloadKnown, OnRow
    <3>5. ReadSound'
      BY <1>11, <2>1, <3>0, <2>3, <3>1, <3>2
      DEF Ended, validateWebhookUrl, UpdateRow, Exists, TypeOK, ReadSound, PayloadKnown,
          OnRow
    <3>6. (SuccessMeansAcknowledged /\ AttemptsNotInvented /\ RetryingIsSelectable)'
      BY <1>11, <2>1, <2>3, <3>1, <3>2
      DEF Ended, validateWebhookUrl, UpdateRow, Exists, TypeOK, ReadSound,
          SuccessMeansAcknowledged, AttemptsNotInvented, RetryingIsSelectable
    <3> QED BY <3>3, <3>4, <3>5, <3>6
  <2>4. CASE Throw(j) /\ UNCHANGED rows
    <3>1. /\ tries' = [tries EXCEPT ![job[j].d] = @ + 1]
          /\ UNCHANGED <<rows, posts, acked, keys>>
          /\ UNCHANGED <<hook, adding, cron, triggered>>
      BY <1>11, <2>4 DEF validateWebhookUrl
    <3>2. Ended(j)
      <4>1. Finish(j) \/ Throw(j) BY <1>11, <2>4 DEF validateWebhookUrl
      <4> QED BY <4>1, EndFacts DEF TypeOK, Active
    <3>0. /\ \A x \in Delivery : tries[x] \in Nat /\ tries'[x] \in Nat /\ tries[x] <= tries'[x]
           /\ tries'[job[j].d] = tries[job[j].d] + 1
           /\ \A k \in Job : job[k].seen \in Nat
      BY <2>1, <3>1 DEF TypeOK, JobRecord
    <3>3. TypeOK'
      BY <1>11, <2>1, <2>4, <3>1, <3>2 DEF Ended, validateWebhookUrl, TypeOK, Live
    <3>4. PayloadKnown'
      BY <1>11, <2>0, <2>1, <2>4, <3>1, <3>2
      DEF Ended, validateWebhookUrl, TypeOK, Live, PayloadKnown, OnRow
    <3>5. ReadSound'
      BY <1>11, <2>1, <3>0, <2>4, <3>1, <3>2
      DEF Ended, validateWebhookUrl, TypeOK, ReadSound, PayloadKnown, OnRow
    <3>6. (SuccessMeansAcknowledged /\ AttemptsNotInvented /\ RetryingIsSelectable)'
      BY <1>11, <2>1, <2>4, <3>1, <3>2
      DEF Ended, validateWebhookUrl, TypeOK, ReadSound, SuccessMeansAcknowledged,
          AttemptsNotInvented, RetryingIsSelectable
    <3> QED BY <3>3, <3>4, <3>5, <3>6
  <2> QED BY <1>11, <2>2, <2>3, <2>4 DEF validateWebhookUrl
<1>12. ASSUME NEW j \in Job, Post(j) PROVE IInv'
  <2>1. /\ job[j].d \in Delivery /\ job[j].e \in Event /\ job[j].seen \in Nat
        /\ tries[job[j].d] \in Nat
    BY <1>12 DEF Post, TypeOK, JobRecord, PayloadKnown, OnRow
  <2>2. CASE Step(j, "okWrite") /\ acked' = [acked EXCEPT ![job[j].d] = TRUE]
    <3>1. /\ UNCHANGED <<rows, tries>>
          /\ posts' = [posts EXCEPT ![job[j].d] = @ + 1]
          /\ keys' = [keys EXCEPT ![job[j].e] = @ \cup {idempotencyKey(job[j].d, job[j].e)}]
          /\ UNCHANGED <<hook, adding, cron, triggered>>
      BY <1>12, <2>2 DEF Post
    <3>2. Stepped(j, "okWrite")
      <4>1. Step(j, "okWrite") BY <1>12, <2>2 DEF Post
      <4> QED BY <4>1, StepFacts DEF TypeOK, Active
    <3>0. keys' \in [Event -> SUBSET (({"payload"} \X Event) \cup ({"delivery"} \X Delivery))]
      <4>1. idempotencyKey(job[j].d, job[j].e) \in ({"payload"} \X Event) \cup ({"delivery"} \X Delivery)
        BY <2>1 DEF idempotencyKey
      <4> QED BY <2>1, <3>1, <4>1 DEF TypeOK
    <3>3. TypeOK' BY <1>12, <2>1, <3>0, <2>2, <3>1, <3>2 DEF Stepped, Post, TypeOK, Live
    <3>4. PayloadKnown'
      BY <1>12, <2>1, <2>2, <3>1, <3>2 DEF Stepped, Post, TypeOK, Live, PayloadKnown, OnRow
    <3>5. ReadSound'
      BY <1>12, <2>1, <2>2, <3>1, <3>2
      DEF Stepped, Post, TypeOK, ReadSound, PayloadKnown, OnRow
    <3>6. (SuccessMeansAcknowledged /\ AttemptsNotInvented /\ RetryingIsSelectable)'
      BY <1>12, <2>1, <2>2, <3>1, <3>2
      DEF Stepped, Post, TypeOK, ReadSound, SuccessMeansAcknowledged, AttemptsNotInvented,
          RetryingIsSelectable
    <3> QED BY <3>3, <3>4, <3>5, <3>6
  <2>3. CASE Step(j, "failWrite") /\ UNCHANGED acked
    <3>1. /\ UNCHANGED <<rows, tries>>
          /\ posts' = [posts EXCEPT ![job[j].d] = @ + 1]
          /\ keys' = [keys EXCEPT ![job[j].e] = @ \cup {idempotencyKey(job[j].d, job[j].e)}]
          /\ UNCHANGED <<hook, adding, cron, triggered>>
      BY <1>12, <2>3 DEF Post
    <3>2. Stepped(j, "failWrite")
      <4>1. Step(j, "failWrite") BY <1>12, <2>3 DEF Post
      <4> QED BY <4>1, StepFacts DEF TypeOK, Active
    <3>0. keys' \in [Event -> SUBSET (({"payload"} \X Event) \cup ({"delivery"} \X Delivery))]
      <4>1. idempotencyKey(job[j].d, job[j].e) \in ({"payload"} \X Event) \cup ({"delivery"} \X Delivery)
        BY <2>1 DEF idempotencyKey
      <4> QED BY <2>1, <3>1, <4>1 DEF TypeOK
    <3>3. TypeOK' BY <1>12, <2>1, <3>0, <2>3, <3>1, <3>2 DEF Stepped, Post, TypeOK, Live
    <3>4. PayloadKnown'
      BY <1>12, <2>1, <2>3, <3>1, <3>2 DEF Stepped, Post, TypeOK, Live, PayloadKnown, OnRow
    <3>5. ReadSound'
      BY <1>12, <2>1, <2>3, <3>1, <3>2
      DEF Stepped, Post, TypeOK, ReadSound, PayloadKnown, OnRow
    <3>6. (SuccessMeansAcknowledged /\ AttemptsNotInvented /\ RetryingIsSelectable)'
      BY <1>12, <2>1, <2>3, <3>1, <3>2
      DEF Stepped, Post, TypeOK, ReadSound, SuccessMeansAcknowledged, AttemptsNotInvented,
          RetryingIsSelectable
    <3> QED BY <3>3, <3>4, <3>5, <3>6
  <2> QED BY <1>12, <2>2, <2>3 DEF Post
<1>13. ASSUME NEW j \in Job, SuccessWrite(j) PROVE IInv'
  <2>1. /\ job[j].d \in Delivery /\ job[j].e \in Event /\ job[j].seen \in Nat
        /\ tries[job[j].d] \in Nat
    BY <1>13 DEF SuccessWrite, TypeOK, JobRecord, PayloadKnown, OnRow
  <2>0. job[j].left > 1 => job[j].id \in Delivery
    <3>1. job[j].at # "free" /\ job[j].left \in Nat
      BY <1>13 DEF SuccessWrite, TypeOK, JobRecord
    <3> QED BY <3>1 DEF PayloadKnown
  <2>2. CASE Exists(job[j].d)
    <3>1. /\ UpdateRow(job[j].d, "SUCCESS", job[j].seen + 1)
          /\ UNCHANGED log
          /\ UNCHANGED <<hook, adding, cron, triggered>>
      BY <1>13, <2>2 DEF SuccessWrite
    <3>2. Ended(j)
      <4>1. Finish(j) \/ Throw(j) BY <1>13, <2>2 DEF SuccessWrite
      <4> QED BY <4>1, EndFacts DEF TypeOK, Active
    <3>3. TypeOK'
      BY <1>13, <2>1, <2>2, <3>1, <3>2
      DEF Ended, UpdateRow, Exists, SuccessWrite, TypeOK, Live
    <3>4. PayloadKnown'
      BY <1>13, <2>0, <2>1, <2>2, <3>1, <3>2
      DEF Ended, UpdateRow, Exists, SuccessWrite, TypeOK, Live, PayloadKnown, OnRow
    <3>5. ReadSound'
      BY <1>13, <2>1, <2>2, <3>1, <3>2
      DEF Ended, UpdateRow, Exists, SuccessWrite, TypeOK, ReadSound, PayloadKnown, OnRow
    <3>6. (SuccessMeansAcknowledged /\ AttemptsNotInvented /\ RetryingIsSelectable)'
      BY <1>13, <2>1, <2>2, <3>1, <3>2
      DEF Ended, UpdateRow, Exists, SuccessWrite, TypeOK, ReadSound,
          SuccessMeansAcknowledged, AttemptsNotInvented, RetryingIsSelectable
    <3> QED BY <3>3, <3>4, <3>5, <3>6
  <2>3. CASE ~Exists(job[j].d)
    <3>1. /\ UNCHANGED <<rows, log>>
          /\ UNCHANGED <<hook, adding, cron, triggered>>
      BY <1>13, <2>3 DEF SuccessWrite
    <3>2. Stepped(j, "failWrite")
      <4>1. Step(j, "failWrite") BY <1>13, <2>3 DEF SuccessWrite
      <4> QED BY <4>1, StepFacts DEF TypeOK, Active
    <3>3. TypeOK' BY <1>13, <2>1, <2>3, <3>1, <3>2 DEF Stepped, SuccessWrite, TypeOK, Live
    <3>4. PayloadKnown'
      BY <1>13, <2>0, <2>1, <2>3, <3>1, <3>2
      DEF Stepped, SuccessWrite, TypeOK, Live, PayloadKnown, OnRow
    <3>5. ReadSound'
      BY <1>13, <2>1, <2>3, <3>1, <3>2
      DEF Stepped, SuccessWrite, TypeOK, ReadSound, PayloadKnown, OnRow
    <3>6. (SuccessMeansAcknowledged /\ AttemptsNotInvented /\ RetryingIsSelectable)'
      BY <1>13, <2>1, <2>3, <3>1, <3>2
      DEF Stepped, SuccessWrite, TypeOK, ReadSound, SuccessMeansAcknowledged,
          AttemptsNotInvented, RetryingIsSelectable
    <3> QED BY <3>3, <3>4, <3>5, <3>6
  <2> QED BY <2>2, <2>3
<1>14. ASSUME NEW j \in Job, FailureWrite(j) PROVE IInv'
  <2>1. /\ job[j].d \in Delivery /\ job[j].e \in Event /\ job[j].seen \in Nat
        /\ tries[job[j].d] \in Nat
    BY <1>14 DEF FailureWrite, TypeOK, JobRecord, PayloadKnown, OnRow
  <2>0. job[j].left > 1 => job[j].id \in Delivery
    <3>1. job[j].at # "free" /\ job[j].left \in Nat
      BY <1>14 DEF FailureWrite, TypeOK, JobRecord
    <3> QED BY <3>1 DEF PayloadKnown
  <2>2. CASE Exists(job[j].d) /\ shouldRetry(job[j].seen + 1)
    <3>1. /\ UpdateRow(job[j].d, "RETRYING", job[j].seen + 1)
          /\ UNCHANGED log
          /\ UNCHANGED <<hook, adding, cron, triggered>>
      BY <1>14, <2>2 DEF FailureWrite
    <3>2. Ended(j)
      <4>1. Finish(j) \/ Throw(j) BY <1>14, <2>2 DEF FailureWrite
      <4> QED BY <4>1, EndFacts DEF TypeOK, Active
    <3>3. TypeOK'
      BY <1>14, <2>1, <2>2, <3>1, <3>2
      DEF Ended, UpdateRow, Exists, FailureWrite, shouldRetry, TypeOK, Live
    <3>4. PayloadKnown'
      BY <1>14, <2>0, <2>1, <2>2, <3>1, <3>2
      DEF Ended, UpdateRow, Exists, FailureWrite, shouldRetry, TypeOK, Live, PayloadKnown,
          OnRow
    <3>5. ReadSound'
      BY <1>14, <2>1, <2>2, <3>1, <3>2
      DEF Ended, UpdateRow, Exists, FailureWrite, shouldRetry, TypeOK, ReadSound,
          PayloadKnown, OnRow
    <3>6. (SuccessMeansAcknowledged /\ AttemptsNotInvented /\ RetryingIsSelectable)'
      BY <1>14, <2>1, <2>2, <3>1, <3>2
      DEF Ended, UpdateRow, Exists, FailureWrite, shouldRetry, TypeOK, ReadSound,
          SuccessMeansAcknowledged, AttemptsNotInvented, RetryingIsSelectable
    <3> QED BY <3>3, <3>4, <3>5, <3>6
  <2>3. CASE Exists(job[j].d) /\ ~shouldRetry(job[j].seen + 1)
    <3>1. /\ UpdateRow(job[j].d, "FAILED", job[j].seen + 1)
          /\ UNCHANGED log
          /\ UNCHANGED <<hook, adding, cron, triggered>>
      BY <1>14, <2>3 DEF FailureWrite
    <3>2. Ended(j)
      <4>1. Finish(j) \/ Throw(j) BY <1>14, <2>3 DEF FailureWrite
      <4> QED BY <4>1, EndFacts DEF TypeOK, Active
    <3>3. TypeOK'
      BY <1>14, <2>1, <2>3, <3>1, <3>2
      DEF Ended, UpdateRow, Exists, FailureWrite, TypeOK, Live
    <3>4. PayloadKnown'
      BY <1>14, <2>0, <2>1, <2>3, <3>1, <3>2
      DEF Ended, UpdateRow, Exists, FailureWrite, TypeOK, Live, PayloadKnown, OnRow
    <3>5. ReadSound'
      BY <1>14, <2>1, <2>3, <3>1, <3>2
      DEF Ended, UpdateRow, Exists, FailureWrite, TypeOK, ReadSound, PayloadKnown, OnRow
    <3>6. (SuccessMeansAcknowledged /\ AttemptsNotInvented /\ RetryingIsSelectable)'
      BY <1>14, <2>1, <2>3, <3>1, <3>2
      DEF Ended, UpdateRow, Exists, FailureWrite, TypeOK, ReadSound,
          SuccessMeansAcknowledged, AttemptsNotInvented, RetryingIsSelectable
    <3> QED BY <3>3, <3>4, <3>5, <3>6
  <2>4. CASE ~Exists(job[j].d)
    <3>1. /\ UNCHANGED <<rows, log>>
          /\ UNCHANGED <<hook, adding, cron, triggered>>
      BY <1>14, <2>4 DEF FailureWrite
    <3>2. Ended(j)
      <4>1. Finish(j) \/ Throw(j) BY <1>14, <2>4 DEF FailureWrite
      <4> QED BY <4>1, EndFacts DEF TypeOK, Active
    <3>3. TypeOK' BY <1>14, <2>1, <2>4, <3>1, <3>2 DEF Ended, FailureWrite, TypeOK, Live
    <3>4. PayloadKnown'
      BY <1>14, <2>0, <2>1, <2>4, <3>1, <3>2
      DEF Ended, FailureWrite, TypeOK, Live, PayloadKnown, OnRow
    <3>5. ReadSound'
      BY <1>14, <2>1, <2>4, <3>1, <3>2
      DEF Ended, FailureWrite, TypeOK, ReadSound, PayloadKnown, OnRow
    <3>6. (SuccessMeansAcknowledged /\ AttemptsNotInvented /\ RetryingIsSelectable)'
      BY <1>14, <2>1, <2>4, <3>1, <3>2
      DEF Ended, FailureWrite, TypeOK, ReadSound, SuccessMeansAcknowledged,
          AttemptsNotInvented, RetryingIsSelectable
    <3> QED BY <3>3, <3>4, <3>5, <3>6
  <2> QED BY <2>2, <2>3, <2>4
<1>15. ASSUME NEW j \in Job, CrashInJob(j) PROVE IInv'
  <2>1. /\ job[j].at \in Active /\ job[j].at # "free" /\ job[j].e \in Event
        /\ Queue \/ job[j].left > 1 => job[j].id \in Delivery
    <3>1. job[j].left \in Nat BY DEF TypeOK, JobRecord
    <3> QED BY <1>15, <3>1 DEF CrashInJob, Active, PayloadKnown, OnRow
  <2>2. CASE Queue /\ Requeue(j, job[j].left)
    <3>1. /\ UNCHANGED <<rows, log>>
          /\ UNCHANGED <<hook, adding, cron, triggered>>
      BY <1>15, <2>2 DEF CrashInJob
    <3>2. Requeued(j)
      <4>1. job[j].left \in Nat BY DEF TypeOK, JobRecord
      <4> QED BY <2>2, <4>1, RequeueFacts DEF TypeOK
    <3>3. TypeOK' BY <1>15, <2>1, <2>2, <3>1, <3>2 DEF Requeued, CrashInJob, TypeOK, Live
    <3>4. PayloadKnown'
      BY <1>15, <2>1, <2>2, <3>1, <3>2
      DEF Requeued, CrashInJob, TypeOK, Live, PayloadKnown, OnRow
    <3>5. ReadSound'
      BY <1>15, <2>1, <2>2, <3>1, <3>2
      DEF Requeued, CrashInJob, TypeOK, ReadSound, PayloadKnown, OnRow
    <3>6. (SuccessMeansAcknowledged /\ AttemptsNotInvented /\ RetryingIsSelectable)'
      BY <1>15, <2>1, <2>2, <3>1, <3>2
      DEF Requeued, CrashInJob, TypeOK, ReadSound, SuccessMeansAcknowledged,
          AttemptsNotInvented, RetryingIsSelectable
    <3> QED BY <3>3, <3>4, <3>5, <3>6
  <2>3. CASE Finish(j)
    <3>1. /\ UNCHANGED <<rows, log>>
          /\ UNCHANGED <<hook, adding, cron, triggered>>
      BY <1>15, <2>3 DEF CrashInJob
    <3>2. Ended(j)
      <4>1. Finish(j) \/ Throw(j) BY <1>15, <2>3 DEF CrashInJob
      <4> QED BY <4>1, EndFacts DEF TypeOK, Active
    <3>3. TypeOK' BY <1>15, <2>1, <2>3, <3>1, <3>2 DEF Ended, CrashInJob, TypeOK, Live
    <3>4. PayloadKnown'
      BY <1>15, <2>1, <2>3, <3>1, <3>2
      DEF Ended, CrashInJob, TypeOK, Live, PayloadKnown, OnRow
    <3>5. ReadSound'
      BY <1>15, <2>1, <2>3, <3>1, <3>2
      DEF Ended, CrashInJob, TypeOK, ReadSound, PayloadKnown, OnRow
    <3>6. (SuccessMeansAcknowledged /\ AttemptsNotInvented /\ RetryingIsSelectable)'
      BY <1>15, <2>1, <2>3, <3>1, <3>2
      DEF Ended, CrashInJob, TypeOK, ReadSound, SuccessMeansAcknowledged,
          AttemptsNotInvented, RetryingIsSelectable
    <3> QED BY <3>3, <3>4, <3>5, <3>6
  <2> QED BY <1>15, <2>2, <2>3 DEF CrashInJob
<1>16. CASE CronRead
  <2>1. TypeOK' BY <1>16 DEF CronRead, CronSelect, TypeOK, Live, Active, FreeJob, JobRecord
  <2>2. PayloadKnown'
    BY <1>16 DEF CronRead, CronSelect, TypeOK, PayloadKnown, OnRow, FreeJob
  <2>3. ReadSound'
    BY <1>16
    DEF CronRead, CronSelect, TypeOK, PayloadKnown, OnRow, ReadSound, AttemptsNotInvented,
        FreeJob
  <2>4. (SuccessMeansAcknowledged /\ AttemptsNotInvented /\ RetryingIsSelectable)'
    BY <1>16
    DEF CronRead, CronSelect, TypeOK, ReadSound, SuccessMeansAcknowledged,
        AttemptsNotInvented, RetryingIsSelectable
  <2> QED BY <2>1, <2>2, <2>3, <2>4
<1>17. ASSUME NEW s \in {"ACTIVE", "INACTIVE"}, update(s) PROVE IInv'
  <2>1. TypeOK' BY <1>17 DEF update, TypeOK, Live, Active, FreeJob, JobRecord
  <2>2. PayloadKnown' BY <1>17 DEF update, TypeOK, PayloadKnown, OnRow, FreeJob
  <2>3. ReadSound'
    BY <1>17
    DEF update, TypeOK, PayloadKnown, OnRow, ReadSound, AttemptsNotInvented, FreeJob
  <2>4. (SuccessMeansAcknowledged /\ AttemptsNotInvented /\ RetryingIsSelectable)'
    BY <1>17
    DEF update, TypeOK, ReadSound, SuccessMeansAcknowledged, AttemptsNotInvented,
        RetryingIsSelectable
  <2> QED BY <2>1, <2>2, <2>3, <2>4
<1>18. CASE verifyChallenge
  <2>1. TypeOK' BY <1>18 DEF verifyChallenge, TypeOK, Live, Active, FreeJob, JobRecord
  <2>2. PayloadKnown' BY <1>18 DEF verifyChallenge, TypeOK, PayloadKnown, OnRow, FreeJob
  <2>3. ReadSound'
    BY <1>18
    DEF verifyChallenge, TypeOK, PayloadKnown, OnRow, ReadSound, AttemptsNotInvented,
        FreeJob
  <2>4. (SuccessMeansAcknowledged /\ AttemptsNotInvented /\ RetryingIsSelectable)'
    BY <1>18
    DEF verifyChallenge, TypeOK, ReadSound, SuccessMeansAcknowledged, AttemptsNotInvented,
        RetryingIsSelectable
  <2> QED BY <2>1, <2>2, <2>3, <2>4
<1>19. CASE remove
  <2>1. TypeOK' BY <1>19 DEF remove, DeleteRows, Exists, Live, TypeOK, Live, Active, FreeJob, JobRecord
  <2>2. PayloadKnown'
    BY <1>19 DEF remove, DeleteRows, Exists, Live, TypeOK, PayloadKnown, OnRow, FreeJob
  <2>3. ReadSound'
    BY <1>19
    DEF remove, DeleteRows, Exists, Live, TypeOK, PayloadKnown, OnRow, ReadSound, AttemptsNotInvented,
        FreeJob
  <2>4. (SuccessMeansAcknowledged /\ AttemptsNotInvented /\ RetryingIsSelectable)'
    BY <1>19
    DEF remove, DeleteRows, Exists, Live, TypeOK, ReadSound, SuccessMeansAcknowledged,
        AttemptsNotInvented, RetryingIsSelectable
  <2> QED BY <2>1, <2>2, <2>3, <2>4
<1>20. CASE UNCHANGED vars
  BY <1>20 DEF vars, TypeOK, PayloadKnown, ReadSound, SuccessMeansAcknowledged,
            AttemptsNotInvented, RetryingIsSelectable
<1> HIDE DEF IInv
<1> QED
    BY <1>1, <1>2, <1>3, <1>4, <1>5, <1>6, <1>7, <1>8, <1>9, <1>10, <1>11, <1>12, <1>13, <1>14, <1>15, <1>16, <1>17, <1>18, <1>19, <1>20
    DEF Next, RunJob

\* Type correctness of the delivery rows, the queue and the history.
THEOREM TypeCorrect == Spec => []TypeOK
<1>1. IInv => TypeOK BY DEF IInv
<1> QED BY InitIInv, NextIInv, <1>1, PTL DEF Spec

\* deliverWebhook stores SUCCESS only for deliveries the receiver acknowledged.
THEOREM SuccessSafe == Spec => []SuccessMeansAcknowledged
<1>1. IInv => SuccessMeansAcknowledged BY DEF IInv
<1> QED BY InitIInv, NextIInv, <1>1, PTL DEF Spec

\* deliverWebhook never counts an attempt that was not made.
THEOREM AttemptsSafe == Spec => []AttemptsNotInvented
<1>1. IInv => AttemptsNotInvented BY DEF IInv
<1> QED BY InitIInv, NextIInv, <1>1, PTL DEF Spec

\* Every row that waits for a retry passes the filter of retryFailedDeliveries.
THEOREM RetrySafe == Spec => []RetryingIsSelectable
<1>1. IInv => RetryingIsSelectable BY DEF IInv
<1> QED BY InitIInv, NextIInv, <1>1, PTL DEF Spec

(***************************************************************************)
(* The idempotency key is computed for each POST from the payload that the *)
(* job carries, however many jobs, replays and recreated rows an event has.*)
(***************************************************************************)

\* An event was posted under no key but the one of its payload.
PayloadKeys ==
    /\ DOMAIN keys = Event
    /\ \A e \in Event : keys[e] \subseteq {<<"payload", e>>}

\* idempotencyKey: with an id in the payloads, any number of jobs, retries, replays and
\* recreated rows of an event post it under one key.
THEOREM KeySafe ==
  ASSUME HasId
  PROVE  Spec => []KeyStable
<1>1. Init => PayloadKeys
  BY DEF Init, PayloadKeys
<1>2. PayloadKeys /\ [Next]_vars => PayloadKeys'
  <2> SUFFICES ASSUME PayloadKeys, [Next]_vars PROVE PayloadKeys'
    OBVIOUS
  <2>1. CASE UNCHANGED keys
    BY <2>1 DEF PayloadKeys
  <2>2. ASSUME NEW j \in Job, Post(j) PROVE PayloadKeys'
    <3>1. keys' = [keys EXCEPT ![job[j].e] = @ \cup {<<"payload", job[j].e>>}]
      BY <2>2, HasId DEF Post, idempotencyKey
    <3> QED BY <3>1 DEF PayloadKeys
  <2>3. CASE UNCHANGED vars
    BY <2>1, <2>3 DEF vars, log
  <2>4. CASE Next
    <3>1. (\E j \in Job : Post(j)) \/ UNCHANGED keys
      BY <2>4 DEF Next, RunJob, log, trigger, replay, pruneOldDeliveryLogs, RetryTimePasses, CrashBeforeAdd,
         QueueAdd, CronAdd, ProcessJob, FindRow, CreateMissingRow, validateWebhookUrl, SuccessWrite,
         FailureWrite, CrashInJob, CronRead, update, verifyChallenge, remove
    <3> QED BY <2>1, <2>2, <3>1
  <2> QED BY <2>3, <2>4
<1>3. PayloadKeys => KeyStable
  <2> SUFFICES ASSUME PayloadKeys, NEW e \in Event PROVE Cardinality(keys[e]) <= 1
    BY DEF KeyStable
  <2>1. keys[e] = {} \/ keys[e] = {<<"payload", e>>}
    BY DEF PayloadKeys
  <2>2. Cardinality({}) = 0 /\ Cardinality({<<"payload", e>>}) = 1
    BY FS_EmptySet, FS_Singleton
  <2> QED BY <2>1, <2>2
<1> QED BY <1>1, <1>2, <1>3, PTL DEF Spec
=============================================================================
