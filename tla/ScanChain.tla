------------------------------ MODULE ScanChain ------------------------------
(***************************************************************************)
(* The self-enqueueing chains communication.scan_due and mail.inbound_poll *)
(*   apps/api/src/communication/chain-bucket.ts   follow-up bucket, watchdog*)
(*   apps/api/src/communication/scan-due.ts       boot enqueue, one run    *)
(*   apps/api/src/communication/inbound/poll-job.ts  the same for the inbox*)
(*   apps/worker/src/main.ts                      boot                     *)
(* Every run enqueues the next time bucket first.  A bucket has one job for*)
(* ever (idempotency_key is UNIQUE), jobs become due by the clock of the   *)
(* database, handlers read the clock of their worker.  Time is counted in  *)
(* ticks; a bucket is named by its index, time \div Interval.              *)
(***************************************************************************)
EXTENDS Integers

CONSTANTS
    Scanner,
    Interval,   \* SCAN_DUE_INTERVAL_MS, INBOUND_POLL_INTERVAL_MS
    Skew,       \* worker clock minus database clock
    MaxRuns,    \* maxAttempts of a chain job (3)
    Start,      \* the time of the first boot
    Horizon     \* bound: the clock stops here

ASSUME ClockAssumption ==
    /\ Interval \in Nat \ {0} /\ Skew \in [Scanner -> Int]
    /\ Start \in Int /\ Horizon \in Int
ASSUME RunsAssumption == MaxRuns \in Nat \ {0}

VARIABLES
    now,    \* the clock of the database
    job,    \* enqueued bucket -> its job
    phase,     \* each worker: idle, started, body, done or error
    taken,    \* the bucket it runs
    seen    \* its own clock, read when the handler started

chainVars == <<now, job, phase, taken, seen>>

BucketRow(s, n, t) == [state |-> s, runs |-> n, runAt |-> t]

(* run_at only matters while pending, attempts until the job is closed *)
Closed(s) == BucketRow(s, 0, 0)

Bucket(t) == t \div Interval
BucketStart(b) == b * Interval
Clock(w) == now + Skew[w]

BucketEnqueued(b, t) ==
    IF b \in DOMAIN job THEN job
    ELSE [c \in DOMAIN job \cup {b} |-> IF c = b THEN BucketRow("pending", 0, t) ELSE job[c]]

ChainInit ==
    /\ now = Start
    /\ job = [b \in {} |-> BucketRow("pending", 0, 0)]
    /\ phase = [w \in Scanner |-> "idle"]
    /\ taken = [w \in Scanner |-> 0]
    /\ seen = [w \in Scanner |-> 0]

Tick ==
    /\ now < Horizon
    /\ now' = now + 1
    /\ UNCHANGED <<job, phase, taken, seen>>

(* mutant: only ever the bucket of the first boot *)
EnqueueCurrentBoot(w) ==
    /\ job' = BucketEnqueued(Bucket(Start), now)
    /\ UNCHANGED <<now, phase, taken, seen>>

(* at boot and every minute: the worker's current bucket, due at once *)
EnqueueCurrent(w) ==
    /\ job' = BucketEnqueued(Bucket(Clock(w)), now)
    /\ UNCHANGED <<now, phase, taken, seen>>

Take(w, b) ==
    /\ phase[w] = "idle"
    /\ b \in DOMAIN job /\ job[b].state = "pending" /\ job[b].runAt <= now
    /\ job' = [job EXCEPT ![b] = BucketRow("processing", @.runs + 1, 0)]
    /\ phase' = [phase EXCEPT ![w] = "started"]
    /\ taken' = [taken EXCEPT ![w] = b]
    /\ seen' = [seen EXCEPT ![w] = Clock(w)]
    /\ UNCHANGED now

(* mutant: the bucket after the worker's clock *)
FollowUpBucketAfterNow(b, t) == Bucket(t) + 1

(* never the bucket itself or an earlier one, whatever the worker's clock says *)
FollowUpBucket(b, t) == IF Bucket(t) >= b THEN Bucket(t) + 1 ELSE b + 1

FollowUp(w) ==
    /\ phase[w] = "started"
    /\ LET next == FollowUpBucket(taken[w], seen[w])
       IN  job' = BucketEnqueued(next, BucketStart(next))
    /\ phase' = [phase EXCEPT ![w] = "body"]
    /\ seen' = [seen EXCEPT ![w] = 0]
    /\ UNCHANGED <<now, taken>>

(* the scanners, each error-tolerant; the inbox poll may throw *)
Body(w) ==
    /\ phase[w] = "body"
    /\ phase' = [phase EXCEPT ![w] = "done"]
    /\ UNCHANGED <<now, job, taken, seen>>

Fails(w) ==
    /\ phase[w] \in {"started", "body"}
    /\ phase' = [phase EXCEPT ![w] = "error"]
    /\ seen' = [seen EXCEPT ![w] = 0]
    /\ UNCHANGED <<now, job, taken>>

(* the row after a failed or abandoned run; a retry waits for a tick (while  *)
(* there is one left)                                                        *)
RetryAt == IF now < Horizon THEN now + 1 ELSE now

Retried(r) == IF r.runs >= MaxRuns THEN Closed("dead") ELSE BucketRow("pending", r.runs, RetryAt)

BecomeIdle(w) ==
    /\ phase' = [phase EXCEPT ![w] = "idle"]
    /\ taken' = [taken EXCEPT ![w] = 0]
    /\ seen' = [seen EXCEPT ![w] = 0]

FinishScan(w) ==
    /\ phase[w] \in {"done", "error"}
    /\ job' = [job EXCEPT ![taken[w]] =
                 IF phase[w] = "done" THEN Closed("succeeded") ELSE Retried(@)]
    /\ BecomeIdle(w)
    /\ UNCHANGED now

ScannerCrash(w) ==
    /\ phase[w] # "idle"
    /\ BecomeIdle(w)
    /\ UNCHANGED <<now, job>>

Reclaim(b) ==
    /\ b \in DOMAIN job /\ job[b].state = "processing"
    /\ \A w \in Scanner : phase[w] # "idle" => taken[w] # b
    /\ job' = [job EXCEPT ![b] = Retried(@)]
    /\ UNCHANGED <<now, phase, taken, seen>>

Run(w) == FollowUp(w) \/ Body(w) \/ Fails(w) \/ FinishScan(w)

ChainNext ==
    \/ Tick
    \/ \E w \in Scanner : \/ EnqueueCurrent(w) \/ Run(w) \/ ScannerCrash(w)
                          \/ \E b \in DOMAIN job : Take(w, b)
    \/ \E b \in DOMAIN job : Reclaim(b)

ChainSpec == ChainInit /\ [][ChainNext]_chainVars

(* time passes, the watchdog's timer fires, free workers take due jobs and   *)
(* a worker that is up goes on                                               *)
ChainFairness ==
    /\ WF_chainVars(Tick)
    /\ \A w \in Scanner : /\ WF_chainVars(EnqueueCurrent(w)) /\ WF_chainVars(Run(w))
                          /\ SF_chainVars(\E b \in DOMAIN job : Take(w, b))
    /\ WF_chainVars(\E b \in DOMAIN job : Reclaim(b))

-----------------------------------------------------------------------------
(* Jobs and workers are well formed; a waiting job has an attempt left. *)
ChainTypeOK ==
    /\ now \in Int
    /\ DOMAIN job \subseteq Int
    /\ \A b \in DOMAIN job :
          job[b] \in [state : {"pending", "processing", "succeeded", "dead"},
                      runs : 0..MaxRuns, runAt : Int]
    /\ \A b \in DOMAIN job : job[b].state = "pending" => job[b].runs < MaxRuns
    /\ phase \in [Scanner -> {"idle", "started", "body", "done", "error"}]
    /\ taken \in [Scanner -> Int]
    /\ seen \in [Scanner -> Int]

HasSuccessor(b) == \E c \in DOMAIN job : c > b

(* The chain never breaks silently: a run that came to its end has left a    *)
(* job for a later bucket, however wrong the worker's clock is.  So the      *)
(* latest bucket is open or used up all its attempts.                        *)
ChainUnbroken == \A b \in DOMAIN job : job[b].state = "succeeded" => HasSuccessor(b)

(* No flood of jobs: the chain is never further ahead than the bucket after  *)
(* the one a worker's clock can show, so restarts, retries and parallel      *)
(* chains do not add up.                                                     *)
NotAhead ==
    \A b \in DOMAIN job : \E w \in Scanner :
        b <= Bucket(IF Skew[w] > 0 THEN Clock(w) ELSE now) + 1

(* The inductive invariant behind ChainUnbroken. *)
ChainInv ==
    /\ ChainUnbroken
    /\ \A w \in Scanner : phase[w] \in {"body", "done"} => HasSuccessor(taken[w])
    /\ \A w \in Scanner : phase[w] # "idle" => taken[w] \in DOMAIN job

(* The scans go on: for every moment a later bucket is scanned some day, or  *)
(* has used up its attempts - even after a dead job broke the chain.         *)
ScansGoOn ==
    \A t \in Start..(Horizon - Interval - 1) :
        now = t ~> \E b \in DOMAIN job : /\ BucketStart(b) >= t
                                         /\ job[b].state \in {"succeeded", "dead"}
=============================================================================
