----------------------------- MODULE MailOutbox -----------------------------
(***************************************************************************)
(* The mail outbox (table mail_deliveries) and the job `mail.send`:        *)
(*   apps/api/src/communication/mail/outbox.ts      enqueue, resend        *)
(*   apps/api/src/communication/mail/send-job.ts    one attempt to send    *)
(*   apps/api/src/communication/scan-due.ts         the outbox backstop    *)
(* The outbox, not the queue, decides whether a mail may be handed to SMTP:*)
(* an attempt claims the row ('sending'), hands the mail over and records  *)
(* the outcome; between any two statements the worker may die or lose the  *)
(* database.  The jobs are used as JobContract promises them: at least one *)
(* run, at most JobMaxAttempts runs, and - when an attempt outlives its    *)
(* lease - two runs at the same time.                                      *)
(*                                                                         *)
(* A job is named <<delivery, n>>: n is the attempt in its idempotency key *)
(* mail.send:<id>[:<n>], Backstop that of a backstop key.                  *)
(***************************************************************************)
EXTENDS Integers, FiniteSets

CONSTANTS
    Deliveries,         \* rows of mail_deliveries
    NoDelivery,
    ResendOf,           \* delivery -> the row its resend key names, or NoDelivery
    RetryOf,            \* delivery -> the row its ":retry:" key names, or NoDelivery
    Workers, NoWorker,
    MaxAttempts,        \* MAIL_MAX_ATTEMPTS
    JobMaxAttempts,     \* MAIL_SEND_JOB_MAX_ATTEMPTS
    OutlivesLease,      \* an attempt may take longer than the job lease (5 min)
    OutlivesStale       \* ... and longer than MAIL_SENDING_STALE_MS (15 min)

ASSUME DeliveriesAssumption ==
    /\ NoDelivery \notin Deliveries
    /\ ResendOf \in [Deliveries -> Deliveries \cup {NoDelivery}]
    /\ RetryOf \in [Deliveries -> Deliveries \cup {NoDelivery}]
(* The key of a repetition ends with the id of the row it repeats, so no row *)
(* repeats two.                                                             *)
ASSUME RepetitionAssumption ==
    \A c, d \in Deliveries : \A e \in Deliveries :
        e \in {ResendOf[c], RetryOf[c]} /\ e \in {ResendOf[d], RetryOf[d]} => c = d
ASSUME BoundsAssumption ==
    /\ MaxAttempts \in Nat \ {0} /\ JobMaxAttempts \in Nat \ {0}
    /\ OutlivesLease \in BOOLEAN /\ OutlivesStale \in BOOLEAN
    /\ NoWorker \notin Workers

VARIABLES
    mail,       \* the rows
    jobs,       \* the mail.send jobs
    pc, cur,    \* each worker: where it is, the job it runs
    snap,       \* attempts of the row as returned by the worker's claim
    accepted,   \* how often the SMTP server took over the mail of a delivery
    announced   \* the sent-listeners ran for the delivery

vars == <<mail, jobs, pc, cur, snap, accepted, announced>>

Backstop == -1
Keys == Deliveries \X ({Backstop} \cup 0..(MaxAttempts - 1))
NoKey == <<NoDelivery, 0>>

Status == {"absent", "pending", "sending", "retry", "sent", "failed", "blocked",
           "outcome_unknown"}
Settled == {"sent", "failed", "blocked", "outcome_unknown"}

(* due: next_attempt_at IS NULL OR <= now; stale: sending_since is older    *)
(* than 15 min; config: blocked for a reason the configuration can lift     *)
Row == [status : Status, attempts : Nat, due : BOOLEAN, stale : BOOLEAN, config : BOOLEAN]

MailRow(s, n, d, c) == [status |-> s, attempts |-> n, due |-> d, stale |-> FALSE, config |-> c]

JobRow == [state : {"absent", "pending", "processing", "succeeded", "dead"}, runs : Nat, due : BOOLEAN,
           owner : Workers \cup {NoWorker}]

Job(s, n, d, w) == [state |-> s, runs |-> n, due |-> d, owner |-> w]

Open(k) == jobs[k].state \in {"pending", "processing"}

(* Queue.enqueue: ON CONFLICT (idempotency_key) DO NOTHING.  A backstop key *)
(* carries the 2-minute bucket: a later bucket is a new key.                *)
Enqueued(k, due) ==
    IF jobs[k].state = "absent" \/ (k[2] = Backstop /\ ~Open(k))
    THEN [jobs EXCEPT ![k] = Job("pending", 0, due, NoWorker)]
    ELSE jobs

Init ==
    /\ mail = [d \in Deliveries |-> MailRow("absent", 0, TRUE, FALSE)]
    /\ jobs = [k \in Keys |-> Job("absent", 0, FALSE, NoWorker)]
    /\ pc = [w \in Workers |-> "idle"]
    /\ cur = [w \in Workers |-> NoKey]
    /\ snap = [w \in Workers |-> 0]
    /\ accepted = [d \in Deliveries |-> 0]
    /\ announced = [d \in Deliveries |-> FALSE]

workerVars == <<pc, cur, snap, accepted, announced>>

-----------------------------------------------------------------------------
(* Staff and services. *)

Originals ==
    {d \in Deliveries : \A e \in Deliveries : ResendOf[e] # d /\ RetryOf[e] # d}

(* enqueueWithId: a new row is pending, or blocked by the recipient policy   *)
(* (for a reason that lies in the configuration, or in the address)          *)
Insert(d) ==
    \E row \in {MailRow("pending", 0, TRUE, FALSE)} \cup
               {MailRow("blocked", 0, TRUE, c) : c \in BOOLEAN} :
        mail' = [mail EXCEPT ![d] = row]

(* ON CONFLICT (idempotency_key) DO NOTHING *)
Enqueue(d) ==
    /\ d \in Originals
    /\ IF mail[d].status = "absent" THEN Insert(d) ELSE UNCHANGED mail
    /\ UNCHANGED <<jobs, workerVars>>

(* scheduleSend runs after the commit; the process may die before it *)
ScheduleSend(d) ==
    /\ mail[d].status = "pending" /\ jobs[<<d, 0>>].state = "absent"
    /\ jobs' = Enqueued(<<d, 0>>, TRUE)
    /\ UNCHANGED <<mail, workerVars>>

(* mutant: a delivery still waiting for its retry may be sent again *)
ResendableEarly(d) ==
    \/ mail[d].status \in {"failed", "outcome_unknown", "retry"}
    \/ mail[d].status = "blocked" /\ mail[d].config

Resendable(d) ==
    \/ mail[d].status \in {"failed", "outcome_unknown"}
    \/ mail[d].status = "blocked" /\ mail[d].config

(* newer deliveries for the same business object that run, ran or are unclear *)
NewerOf(d) == {ResendOf[d], RetryOf[d]} \ {NoDelivery}
Superseded(d) ==
    \E e \in NewerOf(d) :
        mail[e].status \in {"pending", "sending", "retry", "sent", "outcome_unknown"}

(* resend: one transaction on the source row FOR UPDATE; the resend key is   *)
(* UNIQUE, so a source is sent again at most once                            *)
Resend(d) ==
    /\ ResendOf[d] # NoDelivery
    /\ Resendable(d) /\ ~Superseded(d)
    /\ mail[ResendOf[d]].status = "absent"
    /\ Insert(ResendOf[d])
    /\ UNCHANGED <<jobs, workerVars>>

(* enqueueRetryingFailed: the same business action clicked again *)
RetryFailed(d) ==
    /\ RetryOf[d] # NoDelivery
    /\ mail[d].status \in {"failed", "blocked"}
    /\ mail[RetryOf[d]].status = "absent"
    /\ Insert(RetryOf[d])
    /\ UNCHANGED <<jobs, workerVars>>

-----------------------------------------------------------------------------
(* Clock. *)

Attempting == {"prepare", "sent", "transient", "permanent", "unknown"}

MailBecomesDue(d) ==
    /\ mail[d].status = "retry" /\ ~mail[d].due
    /\ mail' = [mail EXCEPT ![d].due = TRUE]
    /\ UNCHANGED <<jobs, workerVars>>

MailGoesStale(d) ==
    /\ mail[d].status = "sending" /\ ~mail[d].stale
    /\ OutlivesStale \/ \A w \in Workers : cur[w][1] = d => pc[w] \notin Attempting
    /\ mail' = [mail EXCEPT ![d].stale = TRUE]
    /\ UNCHANGED <<jobs, workerVars>>

JobBecomesDue(k) ==
    /\ jobs[k].state = "pending" /\ ~jobs[k].due
    /\ jobs' = [jobs EXCEPT ![k].due = TRUE]
    /\ UNCHANGED <<mail, workerVars>>

(* the lease of a processing job has expired: reclaimExpired *)
JobReclaimed(k) ==
    /\ jobs[k].state = "processing"
    /\ OutlivesLease \/ \A w \in Workers : cur[w] # k
    /\ jobs' = [jobs EXCEPT ![k] =
                  IF @.runs >= JobMaxAttempts THEN Job("dead", @.runs, FALSE, NoWorker)
                  ELSE Job("pending", @.runs, TRUE, NoWorker)]
    /\ UNCHANGED <<mail, workerVars>>

(* mutant: the backstop only looks for rows that were never tried *)
BackstopNeededFirst(d) ==
    /\ mail[d].status = "pending" /\ mail[d].due
    /\ \A k \in Keys : k[1] = d => ~Open(k)

(* scheduleOutboxBackstop, for one row *)
BackstopNeeded(d) ==
    /\ \/ mail[d].status \in {"pending", "retry"} /\ mail[d].due
       \/ mail[d].status = "sending" /\ mail[d].stale
    /\ \A k \in Keys : k[1] = d => ~Open(k)

ScheduleBackstop(d) ==
    /\ BackstopNeeded(d)
    /\ jobs' = Enqueued(<<d, Backstop>>, TRUE)
    /\ UNCHANGED <<mail, workerVars>>

-----------------------------------------------------------------------------
(* One run of the job: MailSendProcessor.process. *)

Goto(w, label) == pc' = [pc EXCEPT ![w] = label]
Stay == UNCHANGED <<cur, snap, accepted, announced>>
Delivery(w) == cur[w][1]
Record(w, row) == mail' = [mail EXCEPT ![Delivery(w)] = row]

TakeJob(w, k) ==
    /\ pc[w] = "idle"
    /\ jobs[k].state = "pending" /\ jobs[k].due
    /\ jobs' = [jobs EXCEPT ![k] = Job("processing", @.runs + 1, TRUE, w)]
    /\ cur' = [cur EXCEPT ![w] = k]
    /\ Goto(w, "process")
    /\ UNCHANGED <<mail, snap, accepted, announced>>

(* mutant: a row somebody is sending can be claimed once it is stale *)
ClaimableStale(d) ==
    \/ mail[d].status \in {"pending", "retry"} /\ mail[d].due
    \/ mail[d].status = "sending" /\ mail[d].stale

(* UPDATE ... SET status = 'sending' WHERE status IN ('pending', 'retry')   *)
(* AND next_attempt_at is due                                               *)
Claimable(d) == mail[d].status \in {"pending", "retry"} /\ mail[d].due

ClaimDelivery(w) ==
    /\ pc[w] = "process" /\ Claimable(Delivery(w))
    /\ Record(w, MailRow("sending", mail[Delivery(w)].attempts, TRUE, FALSE))
    /\ snap' = [snap EXCEPT ![w] = mail[Delivery(w)].attempts]
    /\ Goto(w, "prepare")
    /\ UNCHANGED <<jobs, cur, accepted, announced>>

(* mutant: a stale attempt counts as failed *)
StaleRowFailed(d) == MailRow("failed", mail[d].attempts + 1, TRUE, FALSE)

StaleRow(d) == MailRow("outcome_unknown", mail[d].attempts + 1, TRUE, FALSE)

(* closeStaleSending: somebody died while sending; never send it again *)
CloseStale(w) ==
    /\ pc[w] = "process"
    /\ mail[Delivery(w)].status = "sending" /\ mail[Delivery(w)].stale
    /\ Record(w, StaleRow(Delivery(w)))
    /\ Goto(w, "done")
    /\ UNCHANGED jobs /\ Stay

(* mutant: a repeated run never runs the listeners again *)
NoClaimSilent(w) ==
    /\ pc[w] = "process" /\ ~Claimable(Delivery(w))
    /\ ~(mail[Delivery(w)].status = "sending" /\ mail[Delivery(w)].stale)
    /\ Goto(w, "done")
    /\ UNCHANGED <<mail, jobs>> /\ Stay

(* no claim: nothing to do, except that a repeated run of the job that sent  *)
(* the mail runs the listeners again                                         *)
NoClaim(w) ==
    /\ pc[w] = "process" /\ ~Claimable(Delivery(w))
    /\ ~(mail[Delivery(w)].status = "sending" /\ mail[Delivery(w)].stale)
    /\ Goto(w, IF mail[Delivery(w)].status = "sent" /\ jobs[cur[w]].runs > 1
               THEN "listeners" ELSE "done")
    /\ UNCHANGED <<mail, jobs>> /\ Stay

(* recipient, guards, secrets and template refuse the mail *)
Block(w) ==
    /\ pc[w] = "prepare"
    /\ \E c \in BOOLEAN : Record(w, MailRow("blocked", snap[w], TRUE, c))
    /\ Goto(w, "done")
    /\ UNCHANGED jobs /\ Stay

(* a pre-send guard failed or an attachment is not available *)
PrepareFails(w) ==
    /\ pc[w] = "prepare"
    /\ Goto(w, "transient")
    /\ UNCHANGED <<mail, jobs>> /\ Stay

(* gateway.send: what the server did and what the gateway reports; only an   *)
(* unclear outcome ('unknown') leaves open whether the mail was taken over   *)
Handover(w) ==
    /\ pc[w] = "prepare"
    /\ \E o \in {<<"sent", 1>>, <<"transient", 0>>, <<"permanent", 0>>,
                 <<"unknown", 0>>, <<"unknown", 1>>} :
          /\ Goto(w, o[1])
          /\ accepted' = [accepted EXCEPT ![Delivery(w)] = @ + o[2]]
    /\ UNCHANGED <<mail, jobs, cur, snap, announced>>

SentRow(w) == MailRow("sent", snap[w] + 1, TRUE, FALSE)

RecordSent(w) ==
    /\ pc[w] = "sent"
    /\ Record(w, SentRow(w))
    /\ Goto(w, "listeners")
    /\ UNCHANGED jobs /\ Stay

(* retryOrFail; the new job is enqueued by a statement of its own *)
RetryRow(w) == MailRow("retry", snap[w] + 1, FALSE, FALSE)

RetryOrFail(w) ==
    /\ pc[w] = "transient"
    /\ IF snap[w] + 1 >= MaxAttempts
       THEN Record(w, MailRow("failed", snap[w] + 1, TRUE, FALSE)) /\ Goto(w, "done")
       ELSE Record(w, RetryRow(w)) /\ Goto(w, "reschedule")
    /\ UNCHANGED jobs /\ Stay

Reschedule(w) ==
    /\ pc[w] = "reschedule"
    /\ jobs' = Enqueued(<<Delivery(w), snap[w] + 1>>, FALSE)
    /\ Goto(w, "done")
    /\ UNCHANGED mail /\ Stay

Finish(w) ==
    /\ pc[w] \in {"permanent", "unknown"}
    /\ Record(w, MailRow(IF pc[w] = "permanent" THEN "failed" ELSE "outcome_unknown",
                         snap[w] + 1, TRUE, FALSE))
    /\ Goto(w, "done")
    /\ UNCHANGED jobs /\ Stay

RunListeners(w) ==
    /\ pc[w] = "listeners"
    /\ \/ /\ announced' = [announced EXCEPT ![Delivery(w)] = TRUE]
          /\ Goto(w, "done")
       \/ /\ Goto(w, "error")
          /\ UNCHANGED announced
    /\ UNCHANGED <<mail, jobs, cur, snap, accepted>>

(* a statement of the attempt is rejected by the database: job error *)
DatabaseFails(w) ==
    /\ pc[w] \notin {"idle", "done", "error"}
    /\ Goto(w, "error")
    /\ UNCHANGED <<mail, jobs>> /\ Stay

(* markSucceeded or markFailed, fenced by locked_by *)
FinishJob(w) ==
    /\ pc[w] \in {"done", "error"}
    /\ jobs' = IF jobs[cur[w]].owner # w THEN jobs
               ELSE [jobs EXCEPT ![cur[w]] =
                       Job(IF pc[w] = "done" THEN "succeeded"
                           ELSE IF @.runs >= JobMaxAttempts THEN "dead" ELSE "pending",
                           @.runs, FALSE, NoWorker)]
    /\ Goto(w, "idle")
    /\ cur' = [cur EXCEPT ![w] = NoKey]
    /\ snap' = [snap EXCEPT ![w] = 0]
    /\ UNCHANGED <<mail, accepted, announced>>

Crash(w) ==
    /\ pc[w] # "idle"
    /\ Goto(w, "idle")
    /\ cur' = [cur EXCEPT ![w] = NoKey]
    /\ snap' = [snap EXCEPT ![w] = 0]
    /\ UNCHANGED <<mail, jobs, accepted, announced>>

Step(w) ==
    \/ ClaimDelivery(w) \/ CloseStale(w) \/ NoClaim(w) \/ Block(w) \/ PrepareFails(w)
    \/ Handover(w) \/ RecordSent(w) \/ RetryOrFail(w) \/ Reschedule(w) \/ Finish(w)
    \/ RunListeners(w) \/ DatabaseFails(w) \/ FinishJob(w)

Next ==
    \/ \E d \in Deliveries : \/ Enqueue(d) \/ ScheduleSend(d) \/ Resend(d) \/ RetryFailed(d)
                             \/ MailBecomesDue(d) \/ MailGoesStale(d) \/ ScheduleBackstop(d)
    \/ \E k \in Keys : JobBecomesDue(k) \/ JobReclaimed(k)
    \/ \E w \in Workers : Step(w) \/ Crash(w) \/ \E k \in Keys : TakeJob(w, k)

(* ScheduleSend has no fairness: the API may always die before it.  The scan *)
(* chain keeps running, due jobs are taken in the order of run_at, a worker  *)
(* that is up makes progress, and it does not crash before the first         *)
(* statement of every single run for a delivery.                             *)
Fairness ==
    /\ \A d \in Deliveries : /\ WF_vars(MailBecomesDue(d)) /\ WF_vars(MailGoesStale(d))
                             /\ WF_vars(ScheduleBackstop(d))
                             /\ SF_vars(\E w \in Workers : Delivery(w) = d /\ ClaimDelivery(w))
                             /\ SF_vars(\E w \in Workers : Delivery(w) = d /\ CloseStale(w))
    /\ \A k \in Keys : /\ WF_vars(JobBecomesDue(k)) /\ WF_vars(JobReclaimed(k))
                       /\ SF_vars(\E w \in Workers : TakeJob(w, k))
    /\ \A w \in Workers : WF_vars(Step(w))

Spec == Init /\ [][Next]_vars
FairSpec == Spec /\ Fairness

-----------------------------------------------------------------------------
(* Rows, jobs and workers are well formed; a delivery never counts more      *)
(* attempts than MAIL_MAX_ATTEMPTS.                                          *)
TypeOK ==
    /\ mail \in [Deliveries -> Row]
    /\ \A d \in Deliveries : mail[d].attempts <= MaxAttempts
    /\ jobs \in [Keys -> JobRow]
    /\ pc \in [Workers -> {"idle", "process", "prepare", "sent", "transient", "permanent",
                           "unknown", "reschedule", "listeners", "done", "error"}]
    /\ cur \in [Workers -> Keys \cup {NoKey}]
    /\ snap \in [Workers -> Nat]

(* No delivery is handed to the SMTP server a second time after the server   *)
(* took it over: not by a second worker, a retry, a repeated job, the        *)
(* backstop, nor after a crash between the handover and its recording.       *)
HandedOverOnce == \A d \in Deliveries : accepted[d] <= 1

(* The recorded verdict is true: 'sent' mails were taken over by the server, *)
(* 'failed' and 'blocked' ones were not (they may be sent again).            *)
VerdictIsTrue ==
    \A d \in Deliveries : /\ mail[d].status = "sent" => accepted[d] = 1
                          /\ mail[d].status \in {"failed", "blocked", "pending", "retry"}
                                => accepted[d] = 0

(* A customer gets a mail and its repetition (manual resend, or the same     *)
(* business action clicked again) only if the outcome of the first one was   *)
(* unclear when staff decided to send it again.                              *)
DoubleMailOnlyIfUnclear ==
    \A d \in Deliveries : \A e \in NewerOf(d) :
        accepted[d] = 1 /\ accepted[e] = 1 => mail[d].status = "outcome_unknown"

(* "No automatic retry; only a manual resend": once a delivery's outcome is  *)
(* unknown, nothing but a new delivery ever sends again.                     *)
UnknownIsFinal ==
    [][\A d \in Deliveries : mail[d].status = "outcome_unknown"
                                => mail'[d].status = "outcome_unknown"]_vars

(* Every accepted mail gets a verdict, even if the API dies before it plans  *)
(* the job or a worker dies at any point of the attempt.                     *)
EveryMailSettles ==
    \A d \in Deliveries : mail[d].status = "pending" ~> mail[d].status \in Settled

(* The business modules learn that their mail was sent, unless a job of the  *)
(* delivery died with all its runs used up.                                  *)
SentIsAnnounced ==
    \A d \in Deliveries :
        mail[d].status = "sent" ~> \/ announced[d]
                                   \/ \E k \in Keys : k[1] = d /\ jobs[k].state = "dead"
=============================================================================
