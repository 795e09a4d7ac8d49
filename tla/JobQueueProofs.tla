--------------------------- MODULE JobQueueProofs ---------------------------
(***************************************************************************)
(* Theorems about JobQueue for any number of runners and jobs.             *)
(***************************************************************************)
EXTENDS JobQueue, FiniteSetTheorems, TLAPS

QueueInv ==
    /\ TypeOK
    /\ RowsConsistent
    /\ ClaimsConsistent
    /\ ClaimsFenced
    /\ PendingHasAttemptLeft
    /\ ReturnedRan
    /\ SucceededRan

USE WorkersAssumption, JobsAssumption, AttemptsAssumption, HandledAssumption

(* The initial state: an empty table and stopped runners. *)
LEMMA InitQueueInv == Init => QueueInv
  BY DEF Init, QueueInv, TypeOK, RowsConsistent, ClaimsConsistent, ClaimsFenced,
         PendingHasAttemptLeft, ReturnedRan, SucceededRan, Absent, Released, NoClaim,
         Row, JobStatus, PCs, Owns

(* The clock's update of one field of a row. *)
LEMMA RowDue ==
  ASSUME NEW r \in Row, NEW s, s = [r EXCEPT !.due = TRUE]
  PROVE  s \in Row /\ s.status = r.status /\ s.attempts = r.attempts
           /\ s.lockedBy = r.lockedBy
  BY DEF Row, JobStatus

LEMMA RowExpired ==
  ASSUME NEW r \in Row, NEW s, s = [r EXCEPT !.expired = TRUE]
  PROVE  s \in Row /\ s.status = r.status /\ s.attempts = r.attempts
           /\ s.lockedBy = r.lockedBy
  BY DEF Row, JobStatus

(* What QueueInv asks of the row of job j when `done` tells whether its      *)
(* handler has returned, and what it asks of the runners.                    *)
RowOK(j, r, done) ==
    /\ r \in Row
    /\ r.attempts <= MaxAttempts[j]
    /\ r.status = "processing" <=> r.lockedBy # NoWorker
    /\ r.status = "processing" => r.attempts > 0
    /\ r.status = "absent" => r.attempts = 0
    /\ r.status = "pending" => r.attempts < MaxAttempts[j]
    /\ r.status = "succeeded" => done

RunnersOK ==
    /\ pc \in [Workers -> PCs]
    /\ claim \in [Workers -> [job : Jobs \cup {NoJob}, attempts : Nat]]
    /\ stopping \in [Workers -> BOOLEAN]
    /\ starts \in [Jobs -> Nat]
    /\ completed \in [Jobs -> BOOLEAN]
    /\ ClaimsConsistent
    /\ ReturnedRan

RowsOK == /\ jobs = [j \in Jobs |-> jobs[j]]
          /\ \A j \in Jobs : RowOK(j, jobs[j], completed[j])

LEMMA QueueInvParts == QueueInv <=> RowsOK /\ RunnersOK /\ ClaimsFenced
<1>1. jobs \in [Jobs -> Row] <=> jobs = [j \in Jobs |-> jobs[j]] /\ \A j \in Jobs : jobs[j] \in Row
  OBVIOUS
<1>2. RowsOK <=> /\ jobs \in [Jobs -> Row]
                 /\ \A j \in Jobs : jobs[j].attempts <= MaxAttempts[j]
                 /\ RowsConsistent /\ PendingHasAttemptLeft /\ SucceededRan
  BY <1>1 DEF RowsConsistent, PendingHasAttemptLeft, SucceededRan, RowsOK, RowOK
<1> QED
  BY <1>2 DEF QueueInv, TypeOK, RunnersOK

LEMMA QueueInvPartsPrimed == QueueInv' <=> RowsOK' /\ RunnersOK' /\ ClaimsFenced'
  BY QueueInvParts, PTL

(* An acknowledgement replaces the row only if w owns it, by a good row that *)
(* nobody owns.                                                              *)
LEMMA WriteRow ==
  ASSUME RowsOK, NEW w \in Workers, NEW r, claim[w].job \in Jobs,
         Owns(w, claim[w].job) => /\ RowOK(claim[w].job, r, completed[claim[w].job])
                                  /\ r.status # "processing",
         Write(w, r), UNCHANGED completed
  PROVE  /\ RowsOK'
         /\ \A j \in Jobs : jobs'[j].status = "processing" => jobs'[j] = jobs[j]
<1>1. CASE Owns(w, claim[w].job)
  <2>1. jobs' = [jobs EXCEPT ![claim[w].job] = r]
    BY <1>1 DEF Write
  <2> QED BY <1>1, <2>1 DEF RowsOK
<1>2. CASE ~Owns(w, claim[w].job)
  <2>1. jobs' = jobs
    BY <1>2 DEF Write
  <2> QED BY <2>1 DEF RowsOK
<1> QED BY <1>1, <1>2

(* Claims stay fenced when no row gets a new owner and no claim is taken.    *)
LEMMA FencedKept ==
  ASSUME ClaimsFenced, RunnersOK,
         \A j \in Jobs : jobs'[j].status = "processing" => jobs'[j] = jobs[j],
         \A v \in Workers : claim'[v] = claim[v] \/ claim'[v] = NoClaim
  PROVE  ClaimsFenced'
<1> SUFFICES ASSUME NEW v \in Workers, claim'[v].job # NoJob,
                    jobs'[claim'[v].job].status = "processing",
                    jobs'[claim'[v].job].lockedBy = v
             PROVE  claim'[v].attempts = jobs'[claim'[v].job].attempts
  BY DEF ClaimsFenced, Owns
<1>1. claim'[v] = claim[v] /\ claim[v].job \in Jobs
  BY DEF NoClaim, RunnersOK
<1> QED BY <1>1 DEF ClaimsFenced, Owns

(* Releasing the claim of w leaves the runners consistent. *)
LEMMA RunnerFree ==
  ASSUME RunnersOK, NEW w \in Workers, NEW label \in {"stopped", "idle", "draining"},
         pc' = [pc EXCEPT ![w] = label], claim' = [claim EXCEPT ![w] = NoClaim],
         UNCHANGED <<stopping, starts, completed>>
  PROVE  /\ RunnersOK'
         /\ \A v \in Workers : claim'[v] = claim[v] \/ claim'[v] = NoClaim
  BY DEF RunnersOK, ClaimsConsistent, ReturnedRan, PCs, NoClaim

LEMMA LetGoFree ==
  ASSUME RunnersOK, NEW w \in Workers, LetGo(w)
  PROVE  /\ RunnersOK' /\ UNCHANGED completed
         /\ \A v \in Workers : claim'[v] = claim[v] \/ claim'[v] = NoClaim
<1>1. PICK label \in {"stopped", "idle", "draining"} : pc' = [pc EXCEPT ![w] = label]
  BY DEF LetGo, Goto, NextLoop, NextTick
<1> QED BY <1>1, RunnerFree DEF LetGo

(* A runner that moves on without touching its claim. *)
LEMMA RunnerMoves ==
  ASSUME RunnersOK, NEW w \in Workers, NEW label \in PCs, pc' = [pc EXCEPT ![w] = label],
         pc[w] \in {"stopped", "idle", "draining"} <=> label \in {"stopped", "idle", "draining"},
         label # "returned", UNCHANGED <<claim, completed>>,
         stopping' \in [Workers -> BOOLEAN], starts' \in [Jobs -> Nat]
  PROVE  RunnersOK'
  BY DEF RunnersOK, ClaimsConsistent, ReturnedRan, PCs

LEMMA StepQueueInv == QueueInv /\ [Next]_vars => QueueInv'
<1> SUFFICES ASSUME RowsOK, RunnersOK, ClaimsFenced, [Next]_vars
             PROVE  RowsOK' /\ RunnersOK' /\ ClaimsFenced'
  BY QueueInvParts, QueueInvPartsPrimed
<1> DEFINE Goal == RowsOK' /\ RunnersOK' /\ ClaimsFenced'
           RowsStay == \A j \in Jobs : jobs'[j].status = "processing" => jobs'[j] = jobs[j]
<1>a. /\ pc \in [Workers -> PCs] /\ stopping \in [Workers -> BOOLEAN]
      /\ starts \in [Jobs -> Nat] /\ completed \in [Jobs -> BOOLEAN]
      /\ claim \in [Workers -> [job : Jobs \cup {NoJob}, attempts : Nat]]
  BY DEF RunnersOK
<1>b. \A w \in Workers : claim[w].job = NoJob <=> pc[w] \in {"stopped", "idle", "draining"}
  BY DEF RunnersOK, ClaimsConsistent
<1>c. ASSUME UNCHANGED <<jobs, claim, completed>> PROVE RowsOK' /\ ClaimsFenced'
  BY <1>c DEF RowsOK, ClaimsFenced, Owns
<1>d. ASSUME UNCHANGED <<pc, claim, stopping, starts, completed>>, RowsOK', RowsStay PROVE Goal
  <2>1. RunnersOK'
    BY <1>d DEF RunnersOK, ClaimsConsistent, ReturnedRan
  <2> QED BY <1>d, <2>1, FencedKept
<1>1. ASSUME NEW j \in Jobs, Enqueue(j) PROVE Goal
  <2>1. RowOK(j, Released("pending", 0, FALSE), completed[j])
    BY DEF RowOK, Released, Row, JobStatus
  <2>2. RowsOK' /\ RowsStay
    BY <1>1, <2>1 DEF Enqueue, RowsOK, Released
  <2> QED BY <1>1, <1>d, <2>2 DEF Enqueue
<1>2. ASSUME NEW j \in Jobs, BecomeDue(j) PROVE Goal
  <2>1. PICK s : s = [jobs[j] EXCEPT !.due = TRUE]
    OBVIOUS
  <2>2. jobs[j] \in Row
    BY DEF RowsOK, RowOK
  <2>3. s \in Row /\ s.status = jobs[j].status /\ s.attempts = jobs[j].attempts
          /\ s.lockedBy = jobs[j].lockedBy
    BY ONLY <2>1, <2>2, RowDue
  <2>4. /\ jobs' = [jobs EXCEPT ![j] = s] /\ jobs[j].status = "pending"
        /\ UNCHANGED <<pc, claim, stopping, starts, completed>>
    BY ONLY <1>2, <2>1 DEF BecomeDue
  <2>5. RowOK(j, s, completed[j])
    BY <2>3 DEF RowsOK, RowOK
  <2>6. RowsOK' /\ RowsStay
    BY <2>3, <2>4, <2>5 DEF RowsOK
  <2> QED BY <1>d, <2>4, <2>6
<1>3. ASSUME NEW j \in Jobs, LeaseExpires(j) PROVE Goal
  <2>1. PICK s : s = [jobs[j] EXCEPT !.expired = TRUE]
    OBVIOUS
  <2>2. jobs[j] \in Row
    BY DEF RowsOK, RowOK
  <2>3. s \in Row /\ s.status = jobs[j].status /\ s.attempts = jobs[j].attempts
          /\ s.lockedBy = jobs[j].lockedBy
    BY ONLY <2>1, <2>2, RowExpired
  <2>4. /\ jobs' = [jobs EXCEPT ![j] = s]
        /\ UNCHANGED <<pc, claim, stopping, starts, completed>>
    BY ONLY <1>3, <2>1 DEF LeaseExpires
  <2>5. RowOK(j, s, completed[j])
    BY <2>3 DEF RowsOK, RowOK
  <2>6. RowsOK'
    BY <2>4, <2>5 DEF RowsOK
  <2>7. RunnersOK'
    BY <2>4 DEF RunnersOK, ClaimsConsistent, ReturnedRan
  <2>8. ClaimsFenced'
    BY <2>3, <2>4, <1>a DEF ClaimsFenced, Owns, RowsOK
  <2> QED BY <2>6, <2>7, <2>8
<1>4. ASSUME NEW w \in Workers, StartRunner(w) PROVE Goal
  <2>1. RunnersOK'
    BY <1>4, <1>a, RunnerMoves DEF StartRunner, Goto, PCs
  <2> QED BY <1>4, <1>c, <2>1 DEF StartRunner
<1>5. ASSUME NEW w \in Workers, StopRunner(w) PROVE Goal
  <2>1. RunnersOK'
    BY <1>5 DEF StopRunner, RunnersOK, ClaimsConsistent, ReturnedRan, PCs
  <2> QED BY <1>5, <1>c, <2>1 DEF StopRunner
<1>6. ASSUME NEW w \in Workers, Crash(w) \/ QueueUnavailable(w) PROVE Goal
  <2>1. /\ RunnersOK'
        /\ \A v \in Workers : claim'[v] = claim[v] \/ claim'[v] = NoClaim
    BY <1>6, RunnerFree DEF Crash, QueueUnavailable, Goto, NextTick
  <2>2. RowsOK' /\ RowsStay
    BY <1>6 DEF Crash, QueueUnavailable, RowsOK
  <2> QED BY <2>1, <2>2, FencedKept
<1>7. ASSUME NEW w \in Workers, Reclaim(w) PROVE Goal
  <2>1. \A j \in Jobs : RowOK(j, ReclaimedRow(j), completed[j])
    BY DEF RowsOK, RowOK, ReclaimedRow, Released, Row, JobStatus
  <2>2. RowsOK'
    BY <1>7, <2>1 DEF Reclaim, RowsOK
  <2>3. RowsStay
    BY <1>7 DEF Reclaim, ReclaimedRow, Released
  <2>4. RunnersOK'
    BY <1>7, <1>a, RunnerMoves DEF Reclaim, Goto, PCs
  <2>5. UNCHANGED claim
    BY <1>7 DEF Reclaim
  <2> QED BY <2>2, <2>3, <2>4, <2>5, FencedKept
<1>8. ASSUME NEW w \in Workers, NEW j \in Jobs, Claim(w, j) \/ ClaimLost(w, j) PROVE Goal
  <2>1. /\ jobs' = [jobs EXCEPT ![j] = Leased(jobs[j], w)] /\ jobs[j].status = "pending"
        /\ pc[w] = "draining" /\ UNCHANGED completed
    BY <1>8 DEF Claim, ClaimLost, Claimable
  <2>2. /\ RowOK(j, Leased(jobs[j], w), completed[j])
        /\ Leased(jobs[j], w).lockedBy = w
        /\ Leased(jobs[j], w).attempts = jobs[j].attempts + 1
    BY <2>1 DEF RowsOK, RowOK, Leased, Row, JobStatus
  <2>3. RowsOK'
    BY <2>1, <2>2 DEF RowsOK
  <2>4. RunnersOK'
    <3>1. CASE ClaimLost(w, j)
      BY <1>a, <3>1, RunnerMoves DEF ClaimLost, Goto, NextTick, PCs
    <3>2. CASE Claim(w, j)
      <4>1. jobs[j].attempts + 1 \in Nat
        BY DEF RowsOK, RowOK, Row
      <4> QED
        BY <3>2, <4>1 DEF Claim, Goto, RunnersOK, ClaimsConsistent, ReturnedRan, PCs
    <3> QED BY <1>8, <3>1, <3>2
  <2>5. ClaimsFenced'
    <3> SUFFICES ASSUME NEW v \in Workers, claim'[v].job # NoJob,
                        jobs'[claim'[v].job].status = "processing",
                        jobs'[claim'[v].job].lockedBy = v
                 PROVE  claim'[v].attempts = jobs'[claim'[v].job].attempts
      BY DEF ClaimsFenced, Owns
    <3>1. CASE v = w
      <4>1. CASE Claim(w, j)
        <5>1. claim'[w].job = j /\ claim'[w].attempts = jobs[j].attempts + 1
          BY <1>a, <4>1 DEF Claim
        <5> QED BY <2>1, <2>2, <3>1, <5>1 DEF RowsOK
      <4>2. CASE ClaimLost(w, j)
        BY <1>b, <2>1, <3>1, <4>2 DEF ClaimLost
      <4> QED BY <1>8, <4>1, <4>2
    <3>2. CASE v # w
      <4>1. claim'[v] = claim[v] /\ claim[v].job \in Jobs
        BY <1>a, <1>8, <3>2 DEF Claim, ClaimLost
      <4>2. claim[v].job # j
        BY <2>1, <2>2, <3>2, <4>1 DEF RowsOK, Owns
      <4> QED BY <2>1, <4>1, <4>2 DEF RowsOK, Owns, ClaimsFenced
    <3> QED BY <3>1, <3>2
  <2> QED BY <2>3, <2>4, <2>5
<1>9. ASSUME NEW w \in Workers,
             QueueEmpty(w) \/ NoHandler(w) \/ StartHandler(w) \/ HandlerThrows(w)
      PROVE  Goal
  <2>1. RunnersOK'
    BY <1>a, <1>b, <1>9, RunnerMoves
    DEF QueueEmpty, NoHandler, StartHandler, HandlerThrows, Goto, NextTick, PCs
  <2> QED BY <1>9, <1>c, <2>1 DEF QueueEmpty, NoHandler, StartHandler, HandlerThrows
<1>10. ASSUME NEW w \in Workers, HandlerReturns(w) PROVE Goal
  <2>1. RunnersOK'
    BY <1>10 DEF HandlerReturns, Goto, RunnersOK, ClaimsConsistent, ReturnedRan, PCs
  <2>2. RowsOK'
    BY <1>10, <1>a DEF HandlerReturns, RowsOK, RowOK
  <2>3. ClaimsFenced'
    BY <1>10 DEF HandlerReturns, ClaimsFenced, Owns
  <2> QED BY <2>1, <2>2, <2>3
<1>11. ASSUME NEW w \in Workers, NEW r, claim[w].job \in Jobs, Write(w, r), LetGo(w),
              Owns(w, claim[w].job) => /\ RowOK(claim[w].job, r, completed[claim[w].job])
                                       /\ r.status # "processing"
       PROVE  Goal
  <2>1. /\ RunnersOK' /\ UNCHANGED completed
        /\ \A v \in Workers : claim'[v] = claim[v] \/ claim'[v] = NoClaim
    BY <1>11, LetGoFree
  <2>2. RowsOK' /\ RowsStay
    BY <1>11, <2>1, WriteRow
  <2> QED BY <2>1, <2>2, FencedKept
<1>12. ASSUME NEW w \in Workers, Defer(w) PROVE Goal
  <2>1. claim[w].job \in Jobs
    BY <1>a, <1>b, <1>12 DEF Defer
  <2>2. Owns(w, claim[w].job) =>
          /\ RowOK(claim[w].job, DeferredRow(claim[w].job), completed[claim[w].job])
          /\ DeferredRow(claim[w].job).status # "processing"
    BY <2>1 DEF RowsOK, RowOK, Owns, DeferredRow, Released, Row, JobStatus
  <2> QED BY <1>11, <1>12, <2>1, <2>2 DEF Defer
<1>13. ASSUME NEW w \in Workers, Skip(w) PROVE Goal
  <2> DEFINE r == Released("dead", jobs[claim[w].job].attempts, FALSE)
  <2>1. claim[w].job \in Jobs
    BY <1>a, <1>b, <1>13 DEF Skip
  <2>2. RowOK(claim[w].job, r, completed[claim[w].job]) /\ r.status # "processing"
    BY <2>1 DEF RowsOK, RowOK, Released, Row, JobStatus
  <2>3. Write(w, r) /\ LetGo(w)
    BY <1>13 DEF Skip
  <2> QED BY <1>11, <2>1, <2>2, <2>3
<1>14. ASSUME NEW w \in Workers, MarkFailed(w) PROVE Goal
  <2> DEFINE r == FailedRow(claim[w].job, claim[w])
  <2>1. claim[w].job \in Jobs /\ claim[w].attempts \in Nat
    BY <1>a, <1>b, <1>14 DEF MarkFailed
  <2>2. ASSUME Owns(w, claim[w].job)
        PROVE  RowOK(claim[w].job, r, completed[claim[w].job]) /\ r.status # "processing"
    <3>1. claim[w].attempts = jobs[claim[w].job].attempts
      BY <2>1, <2>2 DEF ClaimsFenced
    <3> QED
      BY <2>1, <3>1 DEF RowsOK, RowOK, FailedRow, Released, Row, JobStatus
  <2>3. Write(w, r) /\ LetGo(w)
    BY <1>14 DEF MarkFailed
  <2> QED BY <1>11, <2>1, <2>2, <2>3
<1>15. ASSUME NEW w \in Workers, MarkSucceeded(w) \/ MarkSucceededThrows(w) PROVE Goal
  <2>1. /\ claim[w].job \in Jobs /\ completed[claim[w].job] /\ UNCHANGED completed
        /\ pc[w] = "returned"
    BY <1>a, <1>b, <1>15 DEF MarkSucceeded, MarkSucceededThrows, RunnersOK, ReturnedRan
  <2>2. /\ RowOK(claim[w].job, SucceededRow(claim[w].job), completed[claim[w].job])
        /\ SucceededRow(claim[w].job).status # "processing"
    BY <2>1 DEF RowsOK, RowOK, SucceededRow, Released, Row, JobStatus
  <2>3. RowsOK' /\ RowsStay
    <3>1. CASE Write(w, SucceededRow(claim[w].job))
      BY <2>1, <2>2, <3>1, WriteRow
    <3>2. CASE UNCHANGED jobs
      BY <2>1, <3>2 DEF RowsOK
    <3> QED BY <1>15, <3>1, <3>2 DEF MarkSucceeded, MarkSucceededThrows
  <2>4. /\ RunnersOK'
        /\ \A v \in Workers : claim'[v] = claim[v] \/ claim'[v] = NoClaim
    <3>1. CASE MarkSucceeded(w)
      BY <3>1, RunnerFree DEF MarkSucceeded, Goto, NextLoop
    <3>2. CASE MarkSucceededThrows(w)
      BY <1>a, <2>1, <3>2, RunnerMoves DEF MarkSucceededThrows, Goto, PCs
    <3> QED BY <1>15, <3>1, <3>2
  <2> QED BY <2>3, <2>4, FencedKept
<1>16. ASSUME UNCHANGED vars PROVE Goal
  BY <1>16, <1>c DEF vars, RunnersOK, ClaimsConsistent, ReturnedRan
<1> QED
  BY <1>1, <1>2, <1>3, <1>4, <1>5, <1>6, <1>7, <1>8, <1>9, <1>10, <1>12, <1>13, <1>14,
     <1>15, <1>16
  DEF Next, Runner

-----------------------------------------------------------------------------
(* Counting the claims that may still call the handler. *)

LEMMA WaitingFinite ==
  ASSUME NEW j PROVE IsFiniteSet(Waiting(j)) /\ Cardinality(Waiting(j)) \in Nat
  BY FS_Subset, FS_CardinalityType DEF Waiting

LEMMA WaitingFinitePrimed ==
  ASSUME NEW j PROVE IsFiniteSet(Waiting(j)') /\ Cardinality(Waiting(j)') \in Nat
  BY FS_Subset, FS_CardinalityType DEF Waiting

(* 1 if w is one of the runners waiting to call the handler of j *)
Own(w, j) == IF pc[w] = "claimed" /\ claim[w].job = j THEN 1 ELSE 0

(* A runner that is not "claimed" after a step is not counted any more. *)
LEMMA LeaveWaiting ==
  ASSUME NEW w \in Workers, NEW j, pc'[w] # "claimed",
         \A v \in Workers \ {w} : pc'[v] = pc[v] /\ claim'[v] = claim[v]
  PROVE  Cardinality(Waiting(j)') = Cardinality(Waiting(j)) - Own(w, j)
<1>1. CASE w \in Waiting(j)
  <2>1. Waiting(j)' = Waiting(j) \ {w}
    BY DEF Waiting
  <2>2. Own(w, j) = 1
    BY <1>1 DEF Waiting, Own
  <2>3. Cardinality(Waiting(j) \ {w}) = Cardinality(Waiting(j)) - 1
    BY <1>1, WaitingFinite, FS_RemoveElement
  <2> QED
    BY <2>1, <2>2, <2>3
<1>2. CASE w \notin Waiting(j)
  <2>1. Waiting(j)' = Waiting(j)
    BY <1>2 DEF Waiting
  <2>2. Own(w, j) = 0
    BY <1>2 DEF Waiting, Own
  <2> QED
    BY <2>1, <2>2, WaitingFinite
<1> QED BY <1>1, <1>2

(* A runner that becomes "claimed" is counted for its new job only. *)
LEMMA EnterWaiting ==
  ASSUME NEW w \in Workers, NEW j, pc[w] # "claimed", pc'[w] = "claimed",
         \A v \in Workers \ {w} : pc'[v] = pc[v] /\ claim'[v] = claim[v]
  PROVE  Cardinality(Waiting(j)') =
           Cardinality(Waiting(j)) + (IF claim'[w].job = j THEN 1 ELSE 0)
<1>1. CASE claim'[w].job = j
  <2>1. Waiting(j)' = Waiting(j) \cup {w} /\ w \notin Waiting(j)
    BY <1>1 DEF Waiting
  <2> QED
    BY <1>1, <2>1, WaitingFinite, FS_AddElement
<1>2. CASE claim'[w].job # j
  <2>1. Waiting(j)' = Waiting(j)
    BY <1>2 DEF Waiting
  <2> QED
    BY <1>2, <2>1, WaitingFinite
<1> QED BY <1>1, <1>2

LEMMA SameWaiting ==
  ASSUME UNCHANGED <<pc, claim>>, NEW j
  PROVE  Cardinality(Waiting(j)') = Cardinality(Waiting(j))
  BY DEF Waiting

(* What a step that calls no handler and takes no attempt back must do. *)
LEMMA KeepRunsCounted ==
  ASSUME QueueInv, RunsCounted, UNCHANGED starts,
         \A j \in Jobs : jobs'[j].attempts \in Nat /\ jobs'[j].attempts >= jobs[j].attempts,
         \A j \in Jobs : Cardinality(Waiting(j)') <= Cardinality(Waiting(j))
  PROVE  RunsCounted'
<1> SUFFICES ASSUME NEW j \in Jobs
             PROVE  starts'[j] + Cardinality(Waiting(j)') <= jobs'[j].attempts
  BY DEF RunsCounted
<1>1. /\ jobs[j].attempts \in Nat /\ starts[j] \in Nat
      /\ starts[j] + Cardinality(Waiting(j)) <= jobs[j].attempts
  BY DEF QueueInv, TypeOK, Row, RunsCounted
<1> QED
  BY <1>1, WaitingFinite, WaitingFinitePrimed

(* The steps of one runner disturb the count of that runner only; `attempts` *)
(* shrinks in Defer alone, `starts` grows in StartHandler alone.             *)
LEMMA StepRunsCounted == QueueInv /\ RunsCounted /\ [Next]_vars => RunsCounted'
<1> SUFFICES ASSUME QueueInv, RunsCounted, [Next]_vars PROVE RunsCounted'
  OBVIOUS
<1> DEFINE Others(w) == \A v \in Workers \ {w} : pc'[v] = pc[v] /\ claim'[v] = claim[v]
           AttemptsKept == \A j \in Jobs : /\ jobs'[j].attempts \in Nat
                                           /\ jobs'[j].attempts >= jobs[j].attempts
<1>a. /\ jobs \in [Jobs -> Row] /\ pc \in [Workers -> PCs] /\ starts \in [Jobs -> Nat]
      /\ claim \in [Workers -> [job : Jobs \cup {NoJob}, attempts : Nat]]
  BY DEF QueueInv, TypeOK
<1>b. \A j \in Jobs : jobs[j].attempts \in Nat
  BY <1>a DEF Row
<1>c. \A w \in Workers : claim[w].job = NoJob <=> pc[w] \in {"stopped", "idle", "draining"}
  BY DEF QueueInv, ClaimsConsistent
<1>d. ASSUME UNCHANGED starts, AttemptsKept, UNCHANGED <<pc, claim>>
      PROVE  RunsCounted'
  BY <1>d, SameWaiting, WaitingFinite, KeepRunsCounted
<1>e. ASSUME NEW w \in Workers, UNCHANGED starts, AttemptsKept, Others(w), pc'[w] # "claimed"
      PROVE  RunsCounted'
  <2>1. \A j \in Jobs : Cardinality(Waiting(j)') <= Cardinality(Waiting(j))
    BY <1>e, LeaveWaiting, WaitingFinite DEF Own
  <2> QED BY <1>e, <2>1, KeepRunsCounted
<1>1. ASSUME NEW j \in Jobs, Enqueue(j) \/ BecomeDue(j) \/ LeaseExpires(j)
      PROVE  RunsCounted'
  <2>1. AttemptsKept
    <3>1. CASE Enqueue(j)
      <4>1. jobs[j].status = "absent" => jobs[j].attempts = 0
        BY <1>a DEF QueueInv, RowsConsistent
      <4> QED BY <1>a, <1>b, <3>1, <4>1 DEF Enqueue, Released
    <3>2. CASE BecomeDue(j) \/ LeaseExpires(j)
      <4>1. PICK s : s.attempts = jobs[j].attempts /\ jobs' = [jobs EXCEPT ![j] = s]
        <5>1. jobs[j] \in Row
          BY <1>a
        <5> QED BY ONLY <3>2, <5>1, RowDue, RowExpired DEF BecomeDue, LeaseExpires
      <4> QED BY <1>a, <1>b, <4>1
    <3> QED BY <1>1, <3>1, <3>2
  <2> QED
    BY <1>1, <1>d, <2>1 DEF Enqueue, BecomeDue, LeaseExpires
<1>2. ASSUME NEW w \in Workers, StartRunner(w) \/ StopRunner(w) \/ Crash(w)
      PROVE  RunsCounted'
  <2>1. UNCHANGED <<jobs, starts>> /\ AttemptsKept
    BY <1>2, <1>b DEF StartRunner, StopRunner, Crash
  <2>2. CASE UNCHANGED <<pc, claim>>
    BY <1>d, <2>1, <2>2
  <2>3. CASE Others(w) /\ pc'[w] # "claimed"
    BY <1>e, <2>1, <2>3
  <2>4. UNCHANGED <<pc, claim>> \/ (Others(w) /\ pc'[w] # "claimed")
    BY <1>2, <1>a DEF StartRunner, StopRunner, Crash, Goto, NoClaim
  <2> QED BY <2>2, <2>3, <2>4
<1>3. ASSUME NEW w \in Workers, Reclaim(w) PROVE RunsCounted'
  <2>1. AttemptsKept
    BY <1>3, <1>b, <1>a DEF Reclaim, ReclaimedRow, Released
  <2> QED
    BY <1>3, <1>a, <1>e, <2>1 DEF Reclaim, Goto
<1>4. ASSUME NEW w \in Workers, NEW i \in Jobs, ClaimLost(w, i) PROVE RunsCounted'
  <2>1. AttemptsKept
    BY <1>4, <1>b, <1>a DEF ClaimLost, Leased
  <2> QED
    BY <1>4, <1>a, <1>e, <2>1 DEF ClaimLost, Goto, NextTick
<1>5. ASSUME NEW w \in Workers, NEW i \in Jobs, Claim(w, i) PROVE RunsCounted'
  <2>1. /\ pc[w] # "claimed" /\ pc'[w] = "claimed" /\ claim'[w].job = i
        /\ Others(w) /\ UNCHANGED starts
    BY <1>5, <1>a DEF Claim, Goto
  <2>2. \A j \in Jobs : jobs'[j].attempts = jobs[j].attempts + (IF i = j THEN 1 ELSE 0)
    BY <1>5, <1>a, <1>b DEF Claim, Leased
  <2>3. \A j \in Jobs : Cardinality(Waiting(j)') =
                          Cardinality(Waiting(j)) + (IF i = j THEN 1 ELSE 0)
    BY <2>1, EnterWaiting
  <2> QED
    BY <1>a, <1>b, <2>1, <2>2, <2>3, WaitingFinite DEF RunsCounted
<1>6. ASSUME NEW w \in Workers,
             QueueEmpty(w) \/ NoHandler(w) \/ HandlerReturns(w) \/ HandlerThrows(w)
               \/ QueueUnavailable(w)
      PROVE  RunsCounted'
  BY <1>6, <1>a, <1>b, <1>e
  DEF QueueEmpty, NoHandler, HandlerReturns, HandlerThrows, QueueUnavailable,
      Goto, NextTick, NoClaim
<1>7. ASSUME NEW w \in Workers, Skip(w) \/ MarkFailed(w) PROVE RunsCounted'
  <2>1. AttemptsKept
    BY <1>7, <1>a, <1>b DEF Skip, MarkFailed, Write, FailedRow, Released
  <2>2. Others(w) /\ pc'[w] # "claimed" /\ UNCHANGED starts
    BY <1>7, <1>a DEF Skip, MarkFailed, LetGo, Goto, NextLoop, NextTick, NoClaim
  <2> QED BY <1>e, <2>1, <2>2
<1>8. ASSUME NEW w \in Workers, MarkSucceeded(w) \/ MarkSucceededThrows(w)
      PROVE  RunsCounted'
  <2>1. AttemptsKept
    BY <1>8, <1>a, <1>b
    DEF MarkSucceeded, MarkSucceededThrows, Write, SucceededRow, Released
  <2>2. Others(w) /\ pc'[w] # "claimed" /\ UNCHANGED starts
    BY <1>8, <1>a DEF MarkSucceeded, MarkSucceededThrows, Goto, NextLoop, NoClaim
  <2> QED BY <1>e, <2>1, <2>2
<1>9. ASSUME NEW w \in Workers, StartHandler(w) PROVE RunsCounted'
  <2>1. /\ pc[w] = "claimed" /\ pc'[w] = "running" /\ Others(w) /\ UNCHANGED jobs
        /\ claim[w].job \in Jobs
        /\ starts' = [starts EXCEPT ![claim[w].job] = @ + 1]
    BY <1>9, <1>a DEF StartHandler, Goto
  <2>2. \A j \in Jobs : Cardinality(Waiting(j)') = Cardinality(Waiting(j)) - Own(w, j)
    BY <2>1, LeaveWaiting
  <2>3. \A j \in Jobs : starts'[j] = starts[j] + Own(w, j)
    BY <2>1, <1>a DEF Own
  <2>4. \A j \in Jobs : Own(w, j) \in {0, 1}
    BY DEF Own
  <2> QED
    BY <1>a, <1>b, <2>1, <2>2, <2>3, <2>4, WaitingFinite DEF RunsCounted
<1>10. ASSUME NEW w \in Workers, Defer(w) PROVE RunsCounted'
  <2>1. /\ pc[w] = "claimed" /\ pc'[w] # "claimed" /\ Others(w) /\ UNCHANGED starts
        /\ claim[w].job \in Jobs
    BY <1>10, <1>a DEF Defer, LetGo, Goto, NextLoop, NextTick, NoClaim
  <2>2. \A j \in Jobs : Cardinality(Waiting(j)') = Cardinality(Waiting(j)) - Own(w, j)
    BY <2>1, LeaveWaiting
  <2>3. \A j \in Jobs : /\ jobs'[j].attempts \in Nat
                        /\ jobs'[j].attempts >= jobs[j].attempts - Own(w, j)
    BY <1>10, <1>a, <1>b, <2>1 DEF Defer, Write, DeferredRow, Released, Own
  <2>4. \A j \in Jobs : Own(w, j) \in {0, 1}
    BY DEF Own
  <2> QED
    BY <1>a, <1>b, <2>1, <2>2, <2>3, <2>4, WaitingFinite DEF RunsCounted
<1>11. ASSUME UNCHANGED vars PROVE RunsCounted'
  BY <1>11, <1>b, <1>d DEF vars
<1> QED
  BY <1>1, <1>2, <1>3, <1>4, <1>5, <1>6, <1>7, <1>8, <1>9, <1>10, <1>11
  DEF Next, Runner

(* A runner calling a handler has been counted in `starts`. *)
LEMMA StepRunningStarted == QueueInv /\ RunningStarted /\ [Next]_vars => RunningStarted'
<1> SUFFICES ASSUME QueueInv, RunningStarted, [Next]_vars,
                    NEW w \in Workers, pc'[w] = "running"
             PROVE  starts'[claim'[w].job] > 0
  BY DEF RunningStarted
<1>a. /\ pc \in [Workers -> PCs] /\ starts \in [Jobs -> Nat]
      /\ claim \in [Workers -> [job : Jobs \cup {NoJob}, attempts : Nat]]
      /\ \A v \in Workers : claim[v].job = NoJob <=> pc[v] \in {"stopped", "idle", "draining"}
  BY DEF QueueInv, TypeOK, ClaimsConsistent
<1>1. CASE StartHandler(w)
  <2>1. /\ claim'[w] = claim[w] /\ claim[w].job \in Jobs
        /\ starts' = [starts EXCEPT ![claim[w].job] = @ + 1]
    BY <1>a, <1>1 DEF StartHandler
  <2> QED BY <1>a, <2>1
<1>2. CASE ~StartHandler(w)
  <2>1. pc[w] = "running" /\ claim'[w] = claim[w]
    <3>1. ASSUME NEW v \in Workers,
                 \/ StartRunner(v) \/ StopRunner(v) \/ Crash(v) \/ Reclaim(v) \/ QueueEmpty(v)
                 \/ NoHandler(v) \/ HandlerReturns(v) \/ HandlerThrows(v)
                 \/ MarkSucceeded(v) \/ MarkSucceededThrows(v) \/ QueueUnavailable(v)
                 \/ StartHandler(v)
          PROVE  pc[w] = "running" /\ claim'[w] = claim[w]
      BY <1>2, <1>a, <3>1
      DEF StartRunner, StopRunner, Crash, Reclaim, QueueEmpty, NoHandler, HandlerReturns,
          HandlerThrows, MarkSucceeded, MarkSucceededThrows, QueueUnavailable, StartHandler,
          Goto, NextLoop, NextTick
    <3>2. ASSUME NEW v \in Workers, Defer(v) \/ Skip(v) \/ MarkFailed(v)
          PROVE  pc[w] = "running" /\ claim'[w] = claim[w]
      BY <1>a, <3>2 DEF Defer, Skip, MarkFailed, LetGo, Goto, NextLoop, NextTick
    <3>3. ASSUME NEW v \in Workers, NEW j \in Jobs, Claim(v, j) \/ ClaimLost(v, j)
          PROVE  pc[w] = "running" /\ claim'[w] = claim[w]
      BY <1>a, <3>3 DEF Claim, ClaimLost, Goto, NextTick
    <3>4. ASSUME NEW j \in Jobs, Enqueue(j) \/ BecomeDue(j) \/ LeaseExpires(j)
          PROVE  pc[w] = "running" /\ claim'[w] = claim[w]
      BY <3>4 DEF Enqueue, BecomeDue, LeaseExpires
    <3>5. CASE UNCHANGED vars
      BY <3>5 DEF vars
    <3> QED BY <3>1, <3>2, <3>3, <3>4, <3>5 DEF Next, Runner
  <2>2. claim[w].job \in Jobs /\ starts[claim[w].job] > 0
    BY <1>a, <2>1 DEF RunningStarted
  <2>3. \A j \in Jobs : starts'[j] = starts[j] \/ starts'[j] = starts[j] + 1
    <3>1. UNCHANGED starts \/ \E v \in Workers : StartHandler(v)
      BY DEF Next, Runner, vars, Enqueue, BecomeDue, LeaseExpires, StartRunner, StopRunner,
             Crash, Reclaim, Claim, ClaimLost, QueueEmpty, NoHandler, Defer, Skip, LetGo,
             HandlerReturns, HandlerThrows, MarkSucceeded, MarkSucceededThrows, MarkFailed,
             QueueUnavailable
    <3>2. ASSUME NEW v \in Workers, StartHandler(v)
          PROVE  \A j \in Jobs : starts'[j] = starts[j] \/ starts'[j] = starts[j] + 1
      BY <1>a, <3>2 DEF StartHandler
    <3> QED BY <3>1, <3>2
  <2> QED BY <1>a, <2>1, <2>2, <2>3
<1> QED BY <1>1, <1>2

-----------------------------------------------------------------------------

LEMMA InitRunsCounted == Init => RunsCounted
<1> SUFFICES ASSUME Init, NEW j \in Jobs
             PROVE  starts[j] + Cardinality(Waiting(j)) <= jobs[j].attempts
  BY DEF RunsCounted
<1>1. Waiting(j) = {}
  BY DEF Init, Waiting
<1> QED
  BY <1>1, FS_EmptySet DEF Init, Absent, Released

LEMMA InitRunningStarted == Init => RunningStarted
  BY DEF Init, RunningStarted

(* The conjunction is inductive: it holds in every reachable state. *)
THEOREM Invariance == Spec => []IndInv
<1>1. Init => IndInv
  BY InitQueueInv, InitRunsCounted, InitRunningStarted DEF IndInv, QueueInv
<1>2. IndInv /\ [Next]_vars => IndInv'
  BY StepQueueInv, StepRunsCounted, StepRunningStarted DEF IndInv, QueueInv
<1> QED BY <1>1, <1>2, PTL DEF Spec

(* Rows, claims and loop positions are well formed; attempts never exceed  *)
(* max_attempts.                                                           *)
THEOREM TypeCorrectness == Spec => []TypeOK
  BY Invariance, PTL DEF IndInv

(* The locked_by guard fences zombies: see ClaimsFenced. *)
THEOREM Fencing == Spec => []ClaimsFenced
  BY Invariance, PTL DEF IndInv

(* No pending row has used up its attempts. *)
THEOREM AttemptsLeft == Spec => []PendingHasAttemptLeft
  BY Invariance, PTL DEF IndInv

(* A job recorded as succeeded did run to its end. *)
THEOREM SuccessIsReal == Spec => []SucceededRan
  BY Invariance, PTL DEF IndInv

(* The handler of a job is called at most max_attempts times. *)
THEOREM BoundedRuns == Spec => []RunsBounded
<1>1. IndInv => RunsBounded
  <2> SUFFICES ASSUME IndInv, NEW j \in Jobs PROVE starts[j] <= MaxAttempts[j]
    BY DEF RunsBounded
  <2>1. /\ jobs[j].attempts \in Nat /\ starts[j] \in Nat /\ MaxAttempts[j] \in Nat
        /\ jobs[j].attempts <= MaxAttempts[j]
        /\ starts[j] + Cardinality(Waiting(j)) <= jobs[j].attempts
    BY DEF IndInv, TypeOK, Row, RunsCounted
  <2> QED BY <2>1, WaitingFinite
<1> QED BY <1>1, Invariance, PTL

-----------------------------------------------------------------------------
(* What one step may do to a row, and who does it. *)

(* The claim of a runner that acknowledges is a job it was given. *)
LEMMA Acknowledging ==
  ASSUME IndInv, NEW w \in Workers, pc[w] \in {"claimed", "running", "returned", "failed"}
  PROVE  claim[w].job \in Jobs
  BY DEF IndInv, TypeOK, ClaimsConsistent

LEMMA StepLeaseRespected ==
  ASSUME IndInv, [Next]_vars, NEW j \in Jobs,
         jobs[j].status = "processing", ~jobs[j].expired, jobs'[j].status # "processing"
  PROVE  \E w \in Workers : jobs[j].lockedBy = w /\ claim[w].job = j
<1>1. jobs \in [Jobs -> Row]
  BY DEF IndInv, TypeOK
<1>2. ASSUME NEW i \in Jobs, Enqueue(i) \/ BecomeDue(i) \/ LeaseExpires(i) PROVE FALSE
  <2>1. CASE Enqueue(i)
    BY <1>1, <2>1 DEF Enqueue
  <2>2. CASE BecomeDue(i) \/ LeaseExpires(i)
    <3>1. PICK s : s.status = jobs[i].status /\ jobs' = [jobs EXCEPT ![i] = s]
      <4>1. jobs[i] \in Row
        BY <1>1
      <4> QED BY ONLY <2>2, <4>1, RowDue, RowExpired DEF BecomeDue, LeaseExpires
    <3> QED BY <1>1, <3>1
  <2> QED BY <1>2, <2>1, <2>2
<1>3. ASSUME NEW w \in Workers, NEW i \in Jobs, Claim(w, i) \/ ClaimLost(w, i) PROVE FALSE
  BY <1>1, <1>3 DEF Claim, ClaimLost, Claimable
<1>4. ASSUME NEW w \in Workers, Reclaim(w) PROVE FALSE
  BY <1>1, <1>4 DEF Reclaim, ReclaimedRow
<1>5. ASSUME NEW w \in Workers, NEW r, claim[w].job \in Jobs, Write(w, r)
      PROVE  jobs[j].lockedBy = w /\ claim[w].job = j
  BY <1>1, <1>5 DEF Write, Owns
<1>6. ASSUME NEW w \in Workers,
             Defer(w) \/ Skip(w) \/ MarkFailed(w) \/ MarkSucceeded(w) \/ MarkSucceededThrows(w)
      PROVE  jobs[j].lockedBy = w /\ claim[w].job = j
  <2>1. claim[w].job \in Jobs
    BY <1>6, Acknowledging DEF Defer, Skip, MarkFailed, MarkSucceeded, MarkSucceededThrows
  <2>2. PICK r : Write(w, r)
    BY <1>6 DEF Defer, Skip, MarkFailed, MarkSucceeded, MarkSucceededThrows
  <2> QED BY <1>5, <2>1, <2>2
<1>7. ASSUME NEW w \in Workers,
             StartRunner(w) \/ StopRunner(w) \/ Crash(w) \/ QueueEmpty(w) \/ NoHandler(w)
               \/ StartHandler(w) \/ HandlerReturns(w) \/ HandlerThrows(w)
               \/ QueueUnavailable(w) \/ UNCHANGED vars
      PROVE  FALSE
  BY <1>7 DEF StartRunner, StopRunner, Crash, QueueEmpty, NoHandler, StartHandler,
              HandlerReturns, HandlerThrows, QueueUnavailable, vars
<1>8. CASE UNCHANGED vars
  BY <1>8 DEF vars
<1> QED
  BY <1>2, <1>3, <1>4, <1>6, <1>7, <1>8 DEF Next, Runner

(* A row whose lease runs is only finished by the runner that holds it. *)
THEOREM LeaseIsRespected == Spec => LeaseRespected
<1>1. IndInv /\ [Next]_vars =>
        [\A j \in Jobs :
          /\ jobs[j].status = "processing" /\ ~jobs[j].expired
          /\ jobs'[j].status # "processing"
          => \E w \in Workers : jobs[j].lockedBy = w /\ claim[w].job = j]_vars
  BY StepLeaseRespected
<1> QED BY <1>1, Invariance, PTL DEF Spec, LeaseRespected

LEMMA StepTerminalIsFinal ==
  ASSUME IndInv, [Next]_vars, NEW j \in Jobs, jobs[j].status \in Terminal
  PROVE  jobs'[j] = jobs[j]
<1>1. jobs \in [Jobs -> Row] /\ jobs[j].status \notin {"absent", "pending", "processing"}
  BY DEF IndInv, TypeOK, Terminal
<1>2. ASSUME NEW i \in Jobs, Enqueue(i) PROVE jobs'[j] = jobs[j]
  BY <1>1, <1>2 DEF Enqueue
<1>3. ASSUME NEW i \in Jobs, BecomeDue(i) \/ LeaseExpires(i) PROVE jobs'[j] = jobs[j]
  <2>1. i # j
    BY <1>1, <1>3 DEF BecomeDue, LeaseExpires
  <2>2. PICK s : jobs' = [jobs EXCEPT ![i] = s]
    BY ONLY <1>3 DEF BecomeDue, LeaseExpires
  <2> QED BY <1>1, <2>1, <2>2
<1>4. ASSUME NEW w \in Workers, NEW i \in Jobs, Claim(w, i) \/ ClaimLost(w, i)
      PROVE  jobs'[j] = jobs[j]
  BY <1>1, <1>4 DEF Claim, ClaimLost, Claimable
<1>5. ASSUME NEW w \in Workers, Reclaim(w) PROVE jobs'[j] = jobs[j]
  BY <1>1, <1>5 DEF Reclaim, ReclaimedRow
<1>6. ASSUME NEW w \in Workers, NEW r, Write(w, r) PROVE jobs'[j] = jobs[j]
  BY <1>1, <1>6 DEF Write, Owns
<1>7. ASSUME NEW w \in Workers,
             Defer(w) \/ Skip(w) \/ MarkFailed(w) \/ MarkSucceeded(w) \/ MarkSucceededThrows(w)
      PROVE  jobs'[j] = jobs[j]
  BY <1>6, <1>7 DEF Defer, Skip, MarkFailed, MarkSucceeded, MarkSucceededThrows
<1>8. ASSUME NEW w \in Workers,
             StartRunner(w) \/ StopRunner(w) \/ Crash(w) \/ QueueEmpty(w) \/ NoHandler(w)
               \/ StartHandler(w) \/ HandlerReturns(w) \/ HandlerThrows(w)
               \/ QueueUnavailable(w)
      PROVE  jobs'[j] = jobs[j]
  BY <1>8 DEF StartRunner, StopRunner, Crash, QueueEmpty, NoHandler, StartHandler,
              HandlerReturns, HandlerThrows, QueueUnavailable
<1>9. CASE UNCHANGED vars
  BY <1>9 DEF vars
<1> QED
  BY <1>2, <1>3, <1>4, <1>5, <1>7, <1>8, <1>9 DEF Next, Runner

(* Succeeded and dead are final. *)
THEOREM TerminalStatesAreFinal == Spec => TerminalIsFinal
<1>1. IndInv /\ [Next]_vars =>
        [\A j \in Jobs : jobs[j].status \in Terminal => jobs'[j] = jobs[j]]_vars
  BY StepTerminalIsFinal
<1> QED BY <1>1, Invariance, PTL DEF Spec, TerminalIsFinal

-----------------------------------------------------------------------------
(* The queue refines JobContract (its safety part). *)

CState == [j \in Jobs |-> IF jobs[j].status \in {"pending", "processing"}
                          THEN "open" ELSE jobs[j].status]

LEMMA StepContract ==
  IndInv /\ IndInv' /\ [Next]_vars => [Contract!Next]_(Contract!vars)
<1> SUFFICES ASSUME IndInv, IndInv', [Next]_vars
             PROVE  [Contract!Next]_(Contract!vars)
  OBVIOUS
<1> DEFINE Goal == [Contract!Next]_(Contract!vars)
<1>a. /\ jobs \in [Jobs -> Row] /\ starts \in [Jobs -> Nat] /\ completed \in [Jobs -> BOOLEAN]
      /\ claim \in [Workers -> [job : Jobs \cup {NoJob}, attempts : Nat]]
  BY DEF IndInv, TypeOK
<1>b. ASSUME CState' = CState, UNCHANGED <<starts, completed>> PROVE Goal
  BY <1>b DEF CState, Contract!vars
<1>1. ASSUME NEW j \in Jobs, Enqueue(j) PROVE Goal
  <2>1. CASE jobs[j].status = "absent"
    <3>1. CState[j] = "absent" /\ CState' = [CState EXCEPT ![j] = "open"]
      BY <1>1, <1>a, <2>1 DEF Enqueue, CState, Released
    <3>2. UNCHANGED <<starts, completed>>
      BY <1>1 DEF Enqueue
    <3>3. Contract!Submit(j)
      BY <3>1, <3>2 DEF Contract!Submit, CState
    <3> QED BY <3>3 DEF Contract!Next
  <2>2. CASE jobs[j].status # "absent"
    BY <1>1, <1>b, <2>2 DEF Enqueue, CState
  <2> QED BY <2>1, <2>2
<1>2. ASSUME NEW j \in Jobs, BecomeDue(j) \/ LeaseExpires(j) PROVE Goal
  <2>1. PICK s : s.status = jobs[j].status /\ jobs' = [jobs EXCEPT ![j] = s]
    <3>1. jobs[j] \in Row
      BY <1>a
    <3> QED BY ONLY <1>2, <3>1, RowDue, RowExpired DEF BecomeDue, LeaseExpires
  <2>2. CState' = CState
    BY <1>a, <2>1 DEF CState
  <2>3. UNCHANGED <<starts, completed>>
    BY <1>2 DEF BecomeDue, LeaseExpires
  <2> QED BY <1>b, <2>2, <2>3
<1>3. ASSUME NEW S \in SUBSET Jobs, \A j \in S : jobs[j].status = "processing",
             \A j \in Jobs : IF j \in S THEN jobs'[j].status = "dead"
                             ELSE CState'[j] = CState[j],
             UNCHANGED <<starts, completed>>
      PROVE  Goal
  <2>1. CState' = [j \in Jobs |-> IF j \in S THEN "dead" ELSE CState[j]]
    BY <1>3 DEF CState
  <2>2. \A j \in S : CState[j] = "open"
    BY <1>3 DEF CState
  <2>3. Contract!GiveUp(S)
    BY <1>3, <2>1, <2>2 DEF Contract!GiveUp, CState
  <2> QED BY <2>3 DEF Contract!Next
<1>4. ASSUME NEW w \in Workers, Reclaim(w) PROVE Goal
  <2> DEFINE S == {j \in Jobs : /\ jobs[j].status = "processing" /\ jobs[j].expired
                                /\ jobs[j].attempts >= MaxAttempts[j]}
  <2>1. \A j \in Jobs : IF j \in S THEN jobs'[j].status = "dead" ELSE CState'[j] = CState[j]
    BY <1>4, <1>a DEF Reclaim, ReclaimedRow, Released, CState
  <2>2. UNCHANGED <<starts, completed>>
    BY <1>4 DEF Reclaim
  <2> QED BY <1>3, <2>1, <2>2
<1>5. ASSUME NEW w \in Workers, NEW j \in Jobs, Claim(w, j) \/ ClaimLost(w, j) PROVE Goal
  <2>1. CState' = CState
    BY <1>5, <1>a DEF Claim, ClaimLost, Claimable, Leased, CState
  <2> QED BY <1>5, <1>b, <2>1 DEF Claim, ClaimLost
<1>6. ASSUME NEW w \in Workers, NEW r, claim[w].job \in Jobs, Write(w, r),
             r.status \in {"pending", "dead"}, UNCHANGED <<starts, completed>>
      PROVE  Goal
  <2> DEFINE j == claim[w].job
  <2>1. CASE Owns(w, j) /\ r.status = "dead"
    <3>1. jobs' = [jobs EXCEPT ![j] = r]
      BY <1>6, <2>1 DEF Write
    <3>2. jobs[j].status = "processing" /\ jobs'[j].status = "dead"
      BY <1>6, <1>a, <2>1, <3>1 DEF Owns
    <3>3. \A i \in Jobs : i # j => CState'[i] = CState[i]
      BY <1>a, <3>1 DEF CState
    <3>4. \A i \in Jobs : IF i \in {j} THEN jobs'[i].status = "dead" ELSE CState'[i] = CState[i]
      BY <3>2, <3>3
    <3>5. \A i \in {j} : jobs[i].status = "processing"
      BY <3>2
    <3>6. {j} \in SUBSET Jobs
      BY <1>6
    <3> QED BY <1>3, <1>6, <3>4, <3>5, <3>6
  <2>2. CASE Owns(w, j) /\ r.status = "pending"
    <3>1. CState' = CState
      BY <1>6, <1>a, <2>2 DEF Write, Owns, CState
    <3> QED BY <1>6, <1>b, <3>1
  <2>3. CASE ~Owns(w, j)
    BY <1>6, <1>b, <2>3 DEF Write, CState
  <2> QED BY <1>6, <2>1, <2>2, <2>3
<1>7. ASSUME NEW w \in Workers, Defer(w) \/ Skip(w) \/ MarkFailed(w) PROVE Goal
  <2>1. claim[w].job \in Jobs /\ UNCHANGED <<starts, completed>>
    BY <1>7, Acknowledging DEF Defer, Skip, MarkFailed, LetGo
  <2>2. PICK r : Write(w, r) /\ r.status \in {"pending", "dead"}
    BY <1>7 DEF Defer, Skip, MarkFailed, DeferredRow, FailedRow, Released
  <2> QED BY <1>6, <2>1, <2>2
<1>8. ASSUME NEW w \in Workers, MarkSucceeded(w) \/ MarkSucceededThrows(w) PROVE Goal
  <2>j. PICK j \in Jobs : j = claim[w].job
    BY <1>8, Acknowledging DEF MarkSucceeded, MarkSucceededThrows
  <2>1. j \in Jobs /\ completed[j] /\ UNCHANGED <<starts, completed>>
    BY <1>8, <2>j DEF MarkSucceeded, MarkSucceededThrows, IndInv, ReturnedRan
  <2>2. CASE jobs' = [jobs EXCEPT ![j] = SucceededRow(j)] /\ Owns(w, j)
    <3>1. CState[j] = "open" /\ CState' = [CState EXCEPT ![j] = "succeeded"]
      BY <1>a, <2>1, <2>2 DEF CState, Owns, SucceededRow, Released
    <3>2. Contract!Succeed(j)
      BY <2>1, <3>1 DEF Contract!Succeed, CState
    <3>3. \E i \in Jobs : Contract!Succeed(i)
      BY <2>1, <3>2
    <3> QED BY ONLY <3>3 DEF Contract!Next
  <2>3. CASE jobs' = jobs
    BY <1>b, <2>1, <2>3 DEF CState
  <2> QED BY <1>8, <2>j, <2>2, <2>3 DEF MarkSucceeded, MarkSucceededThrows, Write
<1>9. ASSUME NEW w \in Workers, StartHandler(w) PROVE Goal
  <2>j. PICK j \in Jobs : j = claim[w].job
    BY <1>9, Acknowledging DEF StartHandler
  <2>1. /\ j \in Jobs /\ starts' = [starts EXCEPT ![j] = @ + 1] /\ UNCHANGED <<jobs, completed>>
        /\ w \in Waiting(j)
    BY <1>9, <2>j DEF StartHandler, Waiting
  <2>a. \A i \in Jobs : starts'[i] + Cardinality(Waiting(i))' <= jobs'[i].attempts
    BY DEF IndInv, RunsCounted
  <2>2. starts[j] < MaxAttempts[j]
    <3>1. starts'[j] + Cardinality(Waiting(j))' <= jobs'[j].attempts
      BY <2>1, <2>a
    <3>4. jobs'[j].attempts <= MaxAttempts[j]
      BY <2>1 DEF IndInv, TypeOK
    <3>2. starts'[j] = starts[j] + 1
      BY <1>a, <2>1
    <3>3. jobs[j].attempts \in Nat /\ MaxAttempts[j] \in Nat /\ starts[j] \in Nat
      BY <1>a, <2>1 DEF Row
    <3> QED BY <2>1, <3>1, <3>2, <3>3, <3>4, WaitingFinitePrimed
  <2>3. CState[j] # "absent"
    <3>1. starts'[j] + Cardinality(Waiting(j))' <= jobs[j].attempts
      BY <2>1, <2>a
    <3>3. starts'[j] = starts[j] + 1
      BY <1>a, <2>1
    <3>2. jobs[j].attempts > 0
      BY <1>a, <2>1, <3>1, <3>3, WaitingFinitePrimed DEF Row
    <3> QED BY <2>1, <3>2 DEF CState, IndInv, RowsConsistent
  <2>4. Contract!Start(j)
    BY <2>1, <2>2, <2>3 DEF Contract!Start, CState
  <2> QED BY <2>1, <2>4 DEF Contract!Next
<1>10. ASSUME NEW w \in Workers, HandlerReturns(w) PROVE Goal
  <2> DEFINE j == claim[w].job
  <2>1. /\ j \in Jobs /\ completed' = [completed EXCEPT ![j] = TRUE]
        /\ UNCHANGED <<jobs, starts>> /\ pc[w] = "running"
    BY <1>10, Acknowledging DEF HandlerReturns
  <2>2. starts[j] > 0
    BY <2>1 DEF IndInv, RunningStarted
  <2>3. Contract!Complete(j)
    BY <2>1, <2>2 DEF Contract!Complete, CState
  <2> QED BY <2>1, <2>3 DEF Contract!Next
<1>11. ASSUME NEW w \in Workers,
             StartRunner(w) \/ StopRunner(w) \/ Crash(w) \/ QueueEmpty(w) \/ NoHandler(w)
               \/ HandlerThrows(w) \/ QueueUnavailable(w)
      PROVE  Goal
  <2>1. UNCHANGED <<jobs, starts, completed>>
    BY <1>11 DEF StartRunner, StopRunner, Crash, QueueEmpty, NoHandler, HandlerThrows,
                 QueueUnavailable
  <2> QED BY <1>b, <2>1 DEF CState
<1>12. CASE UNCHANGED vars
  BY <1>b, <1>12 DEF vars, CState
<1> QED
  BY <1>1, <1>2, <1>4, <1>5, <1>7, <1>8, <1>9, <1>10, <1>11, <1>12 DEF Next, Runner

(* Every behaviour of the queue is one its callers' contract allows: bounded *)
(* runs, one final verdict, success only after a completed run.              *)
THEOREM ContractImplemented == Spec => Contract!Init /\ [][Contract!Next]_(Contract!vars)
<1>1. Init => Contract!Init
  BY DEF Init, Contract!Init, Absent, Released
<1> QED BY <1>1, StepContract, Invariance, PTL DEF Spec
=============================================================================
