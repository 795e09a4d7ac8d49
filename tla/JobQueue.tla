------------------------------ MODULE JobQueue ------------------------------
(***************************************************************************)
(* The integration job queue and its runners:                              *)
(*   packages/integrations/src/jobs/postgres-queue.ts   the rows           *)
(*   packages/integrations/src/jobs/runner.ts           the poll loop      *)
(*                                                                         *)
(* Every SQL statement of PostgresJobQueue is one atomic step, every       *)
(* `await` of JobRunner.runOnce is a point where other workers, the clock  *)
(* and a crash may come in between.  Time is abstracted to the two facts   *)
(* the statements test: `due` (run_at <= now()) and `expired`              *)
(* (lease_expires_at <= now()); both become true by a step of the clock.   *)
(* A job is named by its idempotency key.                                  *)
(***************************************************************************)
EXTENDS Integers, FiniteSets

CONSTANTS
    Workers,        \* worker ids (hostname:pid), one runner process each
    Jobs,           \* idempotency keys
    NoWorker,       \* locked_by IS NULL
    NoJob,          \* a runner without a claim
    MaxAttempts,    \* max_attempts of each job
    Handled         \* the jobs whose type has a registered handler

ASSUME WorkersAssumption == IsFiniteSet(Workers) /\ NoWorker \notin Workers
ASSUME JobsAssumption == NoJob \notin Jobs
ASSUME AttemptsAssumption == MaxAttempts \in [Jobs -> Nat \ {0}]
ASSUME HandledAssumption == Handled \subseteq Jobs

VARIABLES
    jobs,       \* table integration_jobs
    pc,         \* where each runner is
    claim,      \* the ClaimedJob in the runner's hands (a copy, may be stale)
    stopping,   \* JobRunner.stopped was set while a tick was active
    starts,     \* how often the handler of a job was called
    completed   \* some call of the job's handler returned normally

vars == <<jobs, pc, claim, stopping, starts, completed>>

JobStatus == {"absent", "pending", "processing", "succeeded", "dead"}
Terminal == {"succeeded", "dead"}

Row == [status : JobStatus, attempts : Nat, lockedBy : Workers \cup {NoWorker},
        due : BOOLEAN, expired : BOOLEAN]

NoClaim == [job |-> NoJob, attempts |-> 0]

PCs == {"stopped", "idle", "draining", "claimed", "running", "returned", "failed"}

-----------------------------------------------------------------------------
(* Rows as the statements leave them. *)

(* lease released; s is the new status, n the attempts counted, d whether   *)
(* the new run_at has already come                                          *)
Released(s, n, d) ==
    [status |-> s, attempts |-> n, lockedBy |-> NoWorker, due |-> d, expired |-> FALSE]

Absent == Released("absent", 0, FALSE)

Leased(r, w) ==
    [status |-> "processing", attempts |-> r.attempts + 1, lockedBy |-> w,
     due |-> r.due, expired |-> FALSE]

(* mutant: retried for ever *)
FailedRowRetried(j, c) == Released("pending", jobs[j].attempts, FALSE)

(* markFailed: `exhausted` is decided by the runner's copy of the job *)
FailedRow(j, c) ==
    IF c.attempts >= MaxAttempts[j]
    THEN Released("dead", jobs[j].attempts, FALSE)
    ELSE Released("pending", jobs[j].attempts, FALSE)

(* defer: the attempt counted by the claim is given back *)
DeferredRow(j) ==
    Released("pending", IF jobs[j].attempts > 0 THEN jobs[j].attempts - 1 ELSE 0, FALSE)

(* mutant: nothing is reclaimed *)
ReclaimedRowMissing(j) == jobs[j]

(* reclaimExpired, for one row *)
ReclaimedRow(j) ==
    IF jobs[j].status = "processing" /\ jobs[j].expired
    THEN Released(IF jobs[j].attempts >= MaxAttempts[j] THEN "dead" ELSE "pending",
                  jobs[j].attempts, TRUE)
    ELSE jobs[j]

(* mutant: the acknowledgement does not compare locked_by *)
OwnsUnfenced(w, j) == jobs[j].status = "processing"

(* WHERE id = $1 AND status = 'processing' AND locked_by = $2 *)
Owns(w, j) == jobs[j].status = "processing" /\ jobs[j].lockedBy = w

Write(w, r) ==
    LET j == claim[w].job
    IN  jobs' = IF Owns(w, j) THEN [jobs EXCEPT ![j] = r] ELSE jobs

-----------------------------------------------------------------------------
(* The runner's loop. *)

(* drain() goes on after a job unless stop() was called; a rejected queue   *)
(* call ends the tick, the next one comes from the timer                    *)
NextLoop(w) == IF stopping[w] THEN "stopped" ELSE "draining"
NextTick(w) == IF stopping[w] THEN "stopped" ELSE "idle"

Goto(w, label) == pc' = [pc EXCEPT ![w] = label]

(* the runner lets go of its claim: the statement was answered, or the      *)
(* connection broke after (or before) it was applied                        *)
LetGo(w) ==
    /\ \/ Goto(w, NextLoop(w))
       \/ Goto(w, NextTick(w))
    /\ claim' = [claim EXCEPT ![w] = NoClaim]
    /\ UNCHANGED <<stopping, starts, completed>>

Init ==
    /\ jobs = [j \in Jobs |-> Absent]
    /\ pc = [w \in Workers |-> "stopped"]
    /\ claim = [w \in Workers |-> NoClaim]
    /\ stopping = [w \in Workers |-> FALSE]
    /\ starts = [j \in Jobs |-> 0]
    /\ completed = [j \in Jobs |-> FALSE]

(* INSERT ... ON CONFLICT (idempotency_key) DO NOTHING *)
Enqueue(j) ==
    /\ jobs' = IF jobs[j].status # "absent" THEN jobs
               ELSE [jobs EXCEPT ![j] = Released("pending", 0, FALSE)]
    /\ UNCHANGED <<pc, claim, stopping, starts, completed>>

BecomeDue(j) ==
    /\ jobs[j].status = "pending" /\ ~jobs[j].due
    /\ jobs' = [jobs EXCEPT ![j].due = TRUE]
    /\ UNCHANGED <<pc, claim, stopping, starts, completed>>

LeaseExpires(j) ==
    /\ jobs[j].status = "processing" /\ ~jobs[j].expired
    /\ jobs' = [jobs EXCEPT ![j].expired = TRUE]
    /\ UNCHANGED <<pc, claim, stopping, starts, completed>>

StartRunner(w) ==
    /\ pc[w] = "stopped"
    /\ Goto(w, "idle")
    /\ stopping' = [stopping EXCEPT ![w] = FALSE]
    /\ UNCHANGED <<jobs, claim, starts, completed>>

StopRunner(w) ==
    /\ pc[w] # "stopped" /\ ~stopping[w]
    /\ stopping' = [stopping EXCEPT ![w] = TRUE]
    /\ pc' = IF pc[w] = "idle" THEN [pc EXCEPT ![w] = "stopped"] ELSE pc
    /\ UNCHANGED <<jobs, claim, starts, completed>>

(* the process dies between any two awaits; its rows stay as they are *)
Crash(w) ==
    /\ pc[w] # "stopped"
    /\ Goto(w, "stopped")
    /\ claim' = [claim EXCEPT ![w] = NoClaim]
    /\ UNCHANGED <<jobs, stopping, starts, completed>>

(* runTick: reclaimExpired() first, then drain() *)
Reclaim(w) ==
    /\ pc[w] = "idle"
    /\ jobs' = [j \in Jobs |-> ReclaimedRow(j)]
    /\ Goto(w, "draining")
    /\ UNCHANGED <<claim, stopping, starts, completed>>

Claimable(j) == jobs[j].status = "pending" /\ jobs[j].due

Claim(w, j) ==
    /\ pc[w] = "draining" /\ Claimable(j)
    /\ jobs' = [jobs EXCEPT ![j] = Leased(jobs[j], w)]
    /\ claim' = [claim EXCEPT ![w] = [job |-> j, attempts |-> jobs[j].attempts + 1]]
    /\ Goto(w, "claimed")
    /\ UNCHANGED <<stopping, starts, completed>>

(* the claim is committed but its answer is lost: claimNext rejects and the *)
(* row waits for its lease to expire                                        *)
ClaimLost(w, j) ==
    /\ pc[w] = "draining" /\ Claimable(j)
    /\ jobs' = [jobs EXCEPT ![j] = Leased(jobs[j], w)]
    /\ Goto(w, NextTick(w))
    /\ UNCHANGED <<claim, stopping, starts, completed>>

(* outcome 'idle' ends the tick *)
QueueEmpty(w) ==
    /\ pc[w] = "draining" /\ \A j \in Jobs : ~Claimable(j)
    /\ Goto(w, NextTick(w))
    /\ UNCHANGED <<jobs, claim, stopping, starts, completed>>

NoHandler(w) ==
    /\ pc[w] = "claimed" /\ claim[w].job \notin Handled
    /\ Goto(w, "failed")
    /\ UNCHANGED <<jobs, claim, stopping, starts, completed>>

(* beforeRun hook or execution guard: { defer }, or the guard threw *)
Defer(w) ==
    /\ pc[w] = "claimed" /\ claim[w].job \in Handled
    /\ Write(w, DeferredRow(claim[w].job))
    /\ LetGo(w)

(* beforeRun hook or execution guard: { skip } *)
Skip(w) ==
    /\ pc[w] = "claimed" /\ claim[w].job \in Handled
    /\ Write(w, Released("dead", jobs[claim[w].job].attempts, FALSE))
    /\ LetGo(w)

StartHandler(w) ==
    /\ pc[w] = "claimed" /\ claim[w].job \in Handled
    /\ Goto(w, "running")
    /\ starts' = [starts EXCEPT ![claim[w].job] = @ + 1]
    /\ UNCHANGED <<jobs, claim, stopping, completed>>

HandlerReturns(w) ==
    /\ pc[w] = "running"
    /\ Goto(w, "returned")
    /\ completed' = [completed EXCEPT ![claim[w].job] = TRUE]
    /\ UNCHANGED <<jobs, claim, stopping, starts>>

HandlerThrows(w) ==
    /\ pc[w] = "running"
    /\ Goto(w, "failed")
    /\ UNCHANGED <<jobs, claim, stopping, starts, completed>>

SucceededRow(j) == Released("succeeded", jobs[j].attempts, FALSE)

MarkSucceeded(w) ==
    /\ pc[w] = "returned"
    /\ Write(w, SucceededRow(claim[w].job))
    /\ Goto(w, NextLoop(w))
    /\ claim' = [claim EXCEPT ![w] = NoClaim]
    /\ UNCHANGED <<stopping, starts, completed>>

(* markSucceeded is inside the try block: when it rejects - applied or not - *)
(* the runner calls markFailed                                               *)
MarkSucceededThrows(w) ==
    /\ pc[w] = "returned"
    /\ \/ Write(w, SucceededRow(claim[w].job))
       \/ UNCHANGED jobs
    /\ Goto(w, "failed")
    /\ UNCHANGED <<claim, stopping, starts, completed>>

MarkFailed(w) ==
    /\ pc[w] = "failed"
    /\ Write(w, FailedRow(claim[w].job, claim[w]))
    /\ LetGo(w)

(* markFailed, defer or markDead rejects without being applied *)
QueueUnavailable(w) ==
    /\ pc[w] \in {"claimed", "failed"}
    /\ Goto(w, NextTick(w))
    /\ claim' = [claim EXCEPT ![w] = NoClaim]
    /\ UNCHANGED <<jobs, stopping, starts, completed>>

Runner(w) ==
    \/ Reclaim(w) \/ QueueEmpty(w) \/ NoHandler(w) \/ Defer(w) \/ Skip(w)
    \/ StartHandler(w) \/ HandlerReturns(w) \/ HandlerThrows(w)
    \/ MarkSucceeded(w) \/ MarkSucceededThrows(w) \/ MarkFailed(w)
    \/ QueueUnavailable(w)
    \/ \E j \in Jobs : Claim(w, j) \/ ClaimLost(w, j)

Next ==
    \/ \E j \in Jobs : Enqueue(j) \/ BecomeDue(j) \/ LeaseExpires(j)
    \/ \E w \in Workers : StartRunner(w) \/ StopRunner(w) \/ Crash(w) \/ Runner(w)

(* The clock moves on; a runner that is up makes steps (the handler comes to *)
(* an end); supervision restarts it.  A due job is not passed over for ever  *)
(* (claimNext takes them ORDER BY run_at), and neither the demo gate nor a   *)
(* broken connection meets every single claim of a job.                      *)
Fairness ==
    /\ \A j \in Jobs : WF_vars(BecomeDue(j)) /\ WF_vars(LeaseExpires(j))
    /\ \A w \in Workers : WF_vars(StartRunner(w)) /\ WF_vars(Runner(w))
    /\ \A w \in Workers : SF_vars(Reclaim(w))
    /\ \A j \in Jobs : SF_vars(\E w \in Workers : Claim(w, j))
    /\ \A j \in Jobs : SF_vars(\E w \in Workers : claim[w].job = j /\ StartHandler(w))

Spec == Init /\ [][Next]_vars
FairSpec == Spec /\ Fairness

-----------------------------------------------------------------------------
(* Type correctness: every row, claim and loop position is well formed, and  *)
(* no row counts more attempts than its max_attempts.                        *)
TypeOK ==
    /\ jobs \in [Jobs -> Row]
    /\ \A j \in Jobs : jobs[j].attempts <= MaxAttempts[j]
    /\ pc \in [Workers -> PCs]
    /\ claim \in [Workers -> [job : Jobs \cup {NoJob}, attempts : Nat]]
    /\ stopping \in [Workers -> BOOLEAN]
    /\ starts \in [Jobs -> Nat]
    /\ completed \in [Jobs -> BOOLEAN]

(* The locked_by guard really fences zombies: whenever the guard of an       *)
(* acknowledgement lets worker w write, the claim in w's hands is the latest *)
(* one, so w's stale copy of `attempts` is the row's (the decision between   *)
(* 'dead' and another attempt is taken on that copy).                        *)
ClaimsFenced ==
    \A w \in Workers : claim[w].job # NoJob /\ Owns(w, claim[w].job)
                          => claim[w].attempts = jobs[claim[w].job].attempts

(* A pending row always has an attempt left, whatever mixture of retries,    *)
(* deferrals, reclaims and late answers led to it.                           *)
PendingHasAttemptLeft ==
    \A j \in Jobs : jobs[j].status = "pending" => jobs[j].attempts < MaxAttempts[j]

(* The handler of a job is called at most max_attempts times although        *)
(* deferring gives attempts back and although a worker whose lease expired   *)
(* may start its handler late.                                               *)
RunsBounded == \A j \in Jobs : starts[j] <= MaxAttempts[j]

(* A job is recorded as succeeded only if a call of its handler returned.    *)
SucceededRan == \A j \in Jobs : jobs[j].status = "succeeded" => completed[j]

(* "A validly locked job is never touched" (reclaimExpired): as long as the  *)
(* lease runs, only the worker holding it takes the row out of 'processing'. *)
LeaseRespected ==
    [][\A j \in Jobs :
          /\ jobs[j].status = "processing" /\ ~jobs[j].expired
          /\ jobs'[j].status # "processing"
          => \E w \in Workers : jobs[j].lockedBy = w /\ claim[w].job = j]_vars

(* Succeeded and dead are final: no enqueue of the same key, no reclaim and  *)
(* no late answer of a zombie brings the job back or changes its verdict.    *)
TerminalIsFinal ==
    [][\A j \in Jobs : jobs[j].status \in Terminal => jobs'[j] = jobs[j]]_vars

(* Every accepted job is some day succeeded or dead: it is never stuck in    *)
(* 'processing' after a crash and never forgotten as 'pending'.              *)
EverySubmittedJobEnds ==
    \A j \in Jobs : jobs[j].status = "pending" ~> jobs[j].status \in Terminal

(* The queue implements the contract of its callers. *)
Contract == INSTANCE JobContract WITH
    state <- [j \in Jobs |-> IF jobs[j].status \in {"pending", "processing"}
                             THEN "open" ELSE jobs[j].status]

ImplementsContract == Contract!Spec

-----------------------------------------------------------------------------
(* Strengthening of the invariants above to one that every step preserves. *)

Waiting(j) == {w \in Workers : pc[w] = "claimed" /\ claim[w].job = j}

RowsConsistent ==
    \A j \in Jobs :
        /\ jobs[j].status = "processing" <=> jobs[j].lockedBy # NoWorker
        /\ jobs[j].status = "processing" => jobs[j].attempts > 0
        /\ jobs[j].status = "absent" => jobs[j].attempts = 0

ClaimsConsistent ==
    \A w \in Workers : claim[w].job = NoJob <=> pc[w] \in {"stopped", "idle", "draining"}

ReturnedRan == \A w \in Workers : pc[w] = "returned" => completed[claim[w].job]

RunningStarted == \A w \in Workers : pc[w] = "running" => starts[claim[w].job] > 0

(* Every call of the handler, and every claim that may still become one, is  *)
(* backed by an attempt of its own that nobody gives back.                   *)
RunsCounted ==
    \A j \in Jobs : starts[j] + Cardinality(Waiting(j)) <= jobs[j].attempts

(* The inductive invariant: the row, the runner's copy of it and the calls   *)
(* made agree in every reachable state; it implies the five invariants above.*)
IndInv ==
    /\ TypeOK
    /\ RowsConsistent
    /\ ClaimsConsistent
    /\ ClaimsFenced
    /\ PendingHasAttemptLeft
    /\ ReturnedRan
    /\ RunningStarted
    /\ SucceededRan
    /\ RunsCounted
=============================================================================
