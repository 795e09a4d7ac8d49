--------------------------- MODULE BackgroundProofs ---------------------------
(***************************************************************************)
(* What holds of the work in the background, for every set of deliveries   *)
(* and workers, every limit on attempts and any clock skew; and of the     *)
(* conversation with a customer, which is kept up by such work.            *)
(*                                                                         *)
(* Scan chains: the follow-up bucket of a run lies after its own, whatever *)
(* the worker's clock shows, so the newest bucket is never left behind.    *)
(*                                                                         *)
(* Mails: everything rests on one observation: the UPDATE that claims a    *)
(* row moves it out of 'pending' and 'retry', and nothing but the attempt  *)
(* that made the claim moves it back.  So a delivery has at most one       *)
(* attempt under way (SoleAttempt), whatever its jobs do, and what the     *)
(* server took over is known from where that attempt is (Handed) or from   *)
(* the row (Accounted).                                                    *)
(*                                                                         *)
(* Conversation: what a request or a job run has read may be old by the    *)
(* time it is used.  Knows says what of it is still true; RowsGoOn says    *)
(* what a step of another may do to the rows, LeftAlone what it may not    *)
(* touch, and KnowsStays that nothing else is needed.  Each action is then *)
(* shown to be such a step and to leave what it goes on with true.         *)
(***************************************************************************)
EXTENDS ScanChain, MailOutbox, ChatInbox, SequenceTheorems, TLAPS

-----------------------------------------------------------------------------
(* Scan chains (ScanChain).                                                 *)
IInv == ChainTypeOK /\ ChainInv

(* The follow-up bucket of a run lies after its own bucket, whatever the     *)
(* clock of the worker shows.                                                *)
LEMMA FollowUpIsLater ==
    ASSUME NEW b \in Int, NEW t \in Int
    PROVE  /\ FollowUpBucket(b, t) \in Int
           /\ FollowUpBucket(b, t) > b
<1>1. Bucket(t) \in Int
  BY ClockAssumption DEF Bucket
<1>2. QED
  BY <1>1 DEF FollowUpBucket

(* Enqueueing adds at most the one job and leaves everything else intact. *)
LEMMA EnqueuePreserves ==
    ASSUME ChainTypeOK, ChainInv, NEW b \in Int, NEW t \in Int, job' = BucketEnqueued(b, t)
    PROVE  /\ DOMAIN job' = DOMAIN job \cup {b}
           /\ DOMAIN job' \subseteq Int
           /\ \A c \in DOMAIN job' :
                 job'[c] \in [state : {"pending", "processing", "succeeded", "dead"},
                              runs : 0..MaxRuns, runAt : Int]
           /\ \A c \in DOMAIN job' : job'[c].state = "pending" => job'[c].runs < MaxRuns
           /\ ChainUnbroken'
           /\ \A c : HasSuccessor(c) => HasSuccessor(c)'
<1>1. /\ DOMAIN job' = DOMAIN job \cup {b}
      /\ \A c \in DOMAIN job : job'[c] = job[c]
      /\ b \notin DOMAIN job => job'[b] = BucketRow("pending", 0, t)
  BY DEF BucketEnqueued
<1>2. \A c : HasSuccessor(c) => HasSuccessor(c)'
  BY <1>1 DEF HasSuccessor
<1>3. \A c \in DOMAIN job' : c \in DOMAIN job \/ (c = b /\ b \notin DOMAIN job)
  BY <1>1
<1>4. BucketRow("pending", 0, t) \in [state : {"pending", "processing", "succeeded", "dead"},
                                runs : 0..MaxRuns, runAt : Int]
  BY RunsAssumption DEF BucketRow
<1>5. BucketRow("pending", 0, t).state = "pending" /\ BucketRow("pending", 0, t).runs = 0
  BY DEF BucketRow
<1>6. \A c \in DOMAIN job' :
         /\ job'[c] \in [state : {"pending", "processing", "succeeded", "dead"},
                         runs : 0..MaxRuns, runAt : Int]
         /\ job'[c].state = "pending" => job'[c].runs < MaxRuns
  BY <1>1, <1>3, <1>4, <1>5, RunsAssumption DEF ChainTypeOK
<1>7. ChainUnbroken'
  BY <1>1, <1>2, <1>3, <1>5 DEF ChainInv, ChainUnbroken
<1>8. DOMAIN job' \subseteq Int
  BY <1>1 DEF ChainTypeOK
<1>9. QED
  BY <1>1, <1>2, <1>6, <1>7, <1>8

(* What a step leaves intact that rewrites one existing job r to s.  The run *)
(* of a job that becomes 'succeeded' must have left a successor.             *)
LEMMA RewritePreserves ==
    ASSUME ChainTypeOK, ChainInv, NEW b \in DOMAIN job,
           NEW s \in [state : {"pending", "processing", "succeeded", "dead"},
                      runs : 0..MaxRuns, runAt : Int],
           job' = [job EXCEPT ![b] = s],
           s.state = "pending" => s.runs < MaxRuns,
           s.state = "succeeded" => HasSuccessor(b)
    PROVE  /\ DOMAIN job' = DOMAIN job
           /\ \A c \in DOMAIN job' :
                 job'[c] \in [state : {"pending", "processing", "succeeded", "dead"},
                              runs : 0..MaxRuns, runAt : Int]
           /\ \A c \in DOMAIN job' : job'[c].state = "pending" => job'[c].runs < MaxRuns
           /\ ChainUnbroken'
           /\ \A c : HasSuccessor(c) => HasSuccessor(c)'
<1>1. /\ DOMAIN job' = DOMAIN job
      /\ \A c \in DOMAIN job : c # b => job'[c] = job[c]
      /\ job'[b] = s
  OBVIOUS
<1>2. \A c : HasSuccessor(c) => HasSuccessor(c)'
  BY <1>1 DEF HasSuccessor
<1>3. \A c \in DOMAIN job' :
         /\ job'[c] \in [state : {"pending", "processing", "succeeded", "dead"},
                         runs : 0..MaxRuns, runAt : Int]
         /\ job'[c].state = "pending" => job'[c].runs < MaxRuns
  BY <1>1 DEF ChainTypeOK
<1>4. ChainUnbroken'
  BY <1>1, <1>2 DEF ChainInv, ChainUnbroken
<1>5. QED
  BY <1>1, <1>2, <1>3, <1>4

(* The row of a retry is well formed and still has an attempt left. *)
LEMMA RetriedRow ==
    ASSUME now \in Int,
           NEW r \in [state : {"pending", "processing", "succeeded", "dead"},
                      runs : 0..MaxRuns, runAt : Int]
    PROVE  /\ Retried(r) \in [state : {"pending", "processing", "succeeded", "dead"},
                              runs : 0..MaxRuns, runAt : Int]
           /\ Retried(r).state = "pending" => Retried(r).runs < MaxRuns
           /\ Retried(r).state # "succeeded"
BY RunsAssumption DEF Retried, RetryAt, Closed, BucketRow

THEOREM InitIInv == ChainInit => IInv
<1> SUFFICES ASSUME ChainInit PROVE ChainTypeOK /\ ChainInv
  BY DEF IInv
<1>1. DOMAIN job = {}
  BY DEF ChainInit
<1>2. phase = [w \in Scanner |-> "idle"] /\ taken = [w \in Scanner |-> 0]
  BY DEF ChainInit
<1>3. now \in Int /\ seen \in [Scanner -> Int]
  BY ClockAssumption DEF ChainInit
<1>4. ChainTypeOK
  BY <1>1, <1>2, <1>3 DEF ChainTypeOK
<1>5. QED
  BY <1>1, <1>2, <1>4 DEF ChainInv, ChainUnbroken

(* Each step keeps the invariant: enqueueing steps by EnqueuePreserves,      *)
(* steps on one job by RewritePreserves, the others do not touch the jobs.   *)
THEOREM StepIInv == IInv /\ [ChainNext]_chainVars => IInv'
<1> SUFFICES ASSUME ChainTypeOK, ChainInv, [ChainNext]_chainVars PROVE ChainTypeOK' /\ ChainInv'
  BY DEF IInv
<1>1. CASE Tick
  BY <1>1 DEF Tick, ChainTypeOK, ChainInv, ChainUnbroken, HasSuccessor
<1>2. ASSUME NEW w \in Scanner, EnqueueCurrent(w) PROVE ChainTypeOK' /\ ChainInv'
  <2>1. Bucket(Clock(w)) \in Int /\ now \in Int
    BY ClockAssumption DEF Bucket, Clock, ChainTypeOK
  <2>2. PICK b \in Int : job' = BucketEnqueued(b, now)
    BY <1>2, <2>1 DEF EnqueueCurrent
  <2>3. QED
    BY <1>2, <2>1, <2>2, EnqueuePreserves DEF EnqueueCurrent, ChainTypeOK, ChainInv
<1>3. ASSUME NEW w \in Scanner, FollowUp(w) PROVE ChainTypeOK' /\ ChainInv'
  <2>1. PICK b \in Int : b = FollowUpBucket(taken[w], seen[w])
    BY FollowUpIsLater DEF ChainTypeOK
  <2>2. b > taken[w] /\ BucketStart(b) \in Int
    BY <2>1, FollowUpIsLater, ClockAssumption DEF ChainTypeOK, BucketStart
  <2>3. job' = BucketEnqueued(b, BucketStart(b))
    BY <1>3, <2>1 DEF FollowUp
  <2>4. HasSuccessor(taken[w])'
    BY <2>2, <2>3, <1>3, EnqueuePreserves DEF HasSuccessor, FollowUp
  <2>5. QED
    <3>1. /\ phase[w] = "started" /\ phase' = [phase EXCEPT ![w] = "body"]
          /\ seen' = [seen EXCEPT ![w] = 0] /\ now' = now /\ taken' = taken
      BY <1>3 DEF FollowUp
    <3>2. ChainTypeOK'
      <4>1. /\ DOMAIN job' \subseteq Int
            /\ \A c \in DOMAIN job' :
                  job'[c] \in [state : {"pending", "processing", "succeeded", "dead"},
                               runs : 0..MaxRuns, runAt : Int]
            /\ \A c \in DOMAIN job' : job'[c].state = "pending" => job'[c].runs < MaxRuns
        BY <2>2, <2>3, EnqueuePreserves
      <4>2. /\ phase' \in [Scanner -> {"idle", "started", "body", "done", "error"}]
            /\ taken' \in [Scanner -> Int] /\ seen' \in [Scanner -> Int] /\ now' \in Int
        BY <3>1 DEF ChainTypeOK
      <4>3. QED
        BY <4>1, <4>2 DEF ChainTypeOK
    <3>3. ASSUME NEW v \in Scanner, phase'[v] \in {"body", "done"} PROVE HasSuccessor(taken[v])'
      BY <2>2, <2>3, <2>4, <3>1, <3>3, EnqueuePreserves DEF ChainTypeOK, ChainInv
    <3>4. ASSUME NEW v \in Scanner, phase'[v] # "idle" PROVE taken'[v] \in DOMAIN job'
      BY <2>2, <2>3, <3>1, <3>4, EnqueuePreserves DEF ChainTypeOK, ChainInv
    <3>5. QED
      BY <2>2, <2>3, <3>1, <3>2, <3>3, <3>4, EnqueuePreserves DEF ChainInv
<1>4. ASSUME NEW w \in Scanner, NEW b \in DOMAIN job, Take(w, b) PROVE ChainTypeOK' /\ ChainInv'
  <2>1. PICK s \in [state : {"pending", "processing", "succeeded", "dead"},
                    runs : 0..MaxRuns, runAt : Int] :
           s = BucketRow("processing", job[b].runs + 1, 0)
    BY <1>4, RunsAssumption DEF Take, ChainTypeOK, BucketRow
  <2>2. job' = [job EXCEPT ![b] = s] /\ s.state = "processing"
    BY <1>4, <2>1 DEF Take, BucketRow
  <2>3. Clock(w) \in Int /\ b \in Int
    BY ClockAssumption DEF Clock, ChainTypeOK
  <2>4. QED
    <3>1. /\ phase' = [phase EXCEPT ![w] = "started"] /\ taken' = [taken EXCEPT ![w] = b]
          /\ seen' = [seen EXCEPT ![w] = Clock(w)] /\ now' = now
      BY <1>4 DEF Take
    <3>2. /\ DOMAIN job' = DOMAIN job
          /\ \A c \in DOMAIN job' :
                job'[c] \in [state : {"pending", "processing", "succeeded", "dead"},
                             runs : 0..MaxRuns, runAt : Int]
          /\ \A c \in DOMAIN job' : job'[c].state = "pending" => job'[c].runs < MaxRuns
          /\ ChainUnbroken'
          /\ \A c : HasSuccessor(c) => HasSuccessor(c)'
      BY <2>2, RewritePreserves
    <3>3. ChainTypeOK'
      BY <2>3, <3>1, <3>2 DEF ChainTypeOK
    <3>4. \A v \in Scanner : v # w => phase'[v] = phase[v] /\ taken'[v] = taken[v]
      BY <3>1 DEF ChainTypeOK
    <3>5. phase'[w] = "started" /\ taken'[w] = b
      BY <3>1 DEF ChainTypeOK
    <3>6. ASSUME NEW v \in Scanner, phase'[v] \in {"body", "done"} PROVE HasSuccessor(taken[v])'
      <4>1. v # w
        BY <3>5, <3>6
      <4>2. HasSuccessor(taken[v]) /\ taken'[v] = taken[v]
        BY <3>4, <3>6, <4>1 DEF ChainInv
      <4>3. QED
        BY <3>2, <4>2 DEF HasSuccessor
    <3>7. ASSUME NEW v \in Scanner, phase'[v] # "idle" PROVE taken'[v] \in DOMAIN job'
      BY <3>2, <3>4, <3>5, <3>7 DEF ChainInv
    <3>8. QED
      BY <3>2, <3>3, <3>6, <3>7 DEF ChainInv
<1>5. ASSUME NEW w \in Scanner, Body(w) \/ Fails(w) PROVE ChainTypeOK' /\ ChainInv'
  BY <1>5 DEF Body, Fails, ChainTypeOK, ChainInv, ChainUnbroken, HasSuccessor
<1>6. ASSUME NEW w \in Scanner, FinishScan(w) PROVE ChainTypeOK' /\ ChainInv'
  <2>1. taken[w] \in DOMAIN job /\ job[taken[w]] \in
           [state : {"pending", "processing", "succeeded", "dead"}, runs : 0..MaxRuns, runAt : Int]
    BY <1>6 DEF FinishScan, ChainTypeOK, ChainInv
  <2>2. PICK s \in [state : {"pending", "processing", "succeeded", "dead"},
                    runs : 0..MaxRuns, runAt : Int] :
           /\ s = IF phase[w] = "done" THEN Closed("succeeded") ELSE Retried(job[taken[w]])
           /\ s.state = "pending" => s.runs < MaxRuns
           /\ s.state = "succeeded" => phase[w] = "done"
    <3>1. CASE phase[w] = "done"
      <4>1. Closed("succeeded") \in [state : {"pending", "processing", "succeeded", "dead"},
                                      runs : 0..MaxRuns, runAt : Int]
        BY RunsAssumption DEF Closed, BucketRow
      <4>2. Closed("succeeded").state = "succeeded"
        BY DEF Closed, BucketRow
      <4>3. QED
        BY <3>1, <4>1, <4>2
    <3>2. CASE phase[w] # "done"
      BY <3>2, <2>1, RetriedRow DEF ChainTypeOK
    <3>3. QED
      BY <3>1, <3>2
  <2>3. job' = [job EXCEPT ![taken[w]] = s]
    BY <1>6, <2>2 DEF FinishScan
  <2>4. s.state = "succeeded" => HasSuccessor(taken[w])
    BY <2>2 DEF ChainInv
  <2>5. QED
    <3>1. /\ phase' = [phase EXCEPT ![w] = "idle"] /\ taken' = [taken EXCEPT ![w] = 0]
          /\ seen' = [seen EXCEPT ![w] = 0] /\ now' = now
      BY <1>6 DEF FinishScan, BecomeIdle
    <3>2. /\ DOMAIN job' = DOMAIN job
          /\ \A c \in DOMAIN job' :
                job'[c] \in [state : {"pending", "processing", "succeeded", "dead"},
                             runs : 0..MaxRuns, runAt : Int]
          /\ \A c \in DOMAIN job' : job'[c].state = "pending" => job'[c].runs < MaxRuns
          /\ ChainUnbroken'
          /\ \A c : HasSuccessor(c) => HasSuccessor(c)'
      BY <2>1, <2>2, <2>3, <2>4, RewritePreserves
    <3>3. ChainTypeOK'
      BY <3>1, <3>2 DEF ChainTypeOK
    <3>4. ASSUME NEW v \in Scanner, phase'[v] # "idle"
          PROVE  v # w /\ phase'[v] = phase[v] /\ taken'[v] = taken[v]
      BY <3>1, <3>4 DEF ChainTypeOK
    <3>5. ASSUME NEW v \in Scanner, phase'[v] \in {"body", "done"} PROVE HasSuccessor(taken[v])'
      <4>1. HasSuccessor(taken[v]) /\ taken'[v] = taken[v]
        BY <3>4, <3>5 DEF ChainInv
      <4>2. QED
        BY <3>2, <4>1 DEF HasSuccessor
    <3>6. ASSUME NEW v \in Scanner, phase'[v] # "idle" PROVE taken'[v] \in DOMAIN job'
      BY <3>2, <3>4, <3>6 DEF ChainInv
    <3>7. QED
      BY <3>2, <3>3, <3>5, <3>6 DEF ChainInv
<1>7. ASSUME NEW w \in Scanner, ScannerCrash(w) PROVE ChainTypeOK' /\ ChainInv'
  BY <1>7 DEF ScannerCrash, BecomeIdle, ChainTypeOK, ChainInv, ChainUnbroken, HasSuccessor
<1>8. ASSUME NEW b \in DOMAIN job, Reclaim(b) PROVE ChainTypeOK' /\ ChainInv'
  <2>1. PICK s \in [state : {"pending", "processing", "succeeded", "dead"},
                    runs : 0..MaxRuns, runAt : Int] :
           /\ s = Retried(job[b])
           /\ s.state = "pending" => s.runs < MaxRuns
           /\ s.state # "succeeded"
    BY RetriedRow DEF ChainTypeOK
  <2>2. job' = [job EXCEPT ![b] = s]
    BY <1>8, <2>1 DEF Reclaim
  <2>3. job[b].state = "processing" /\ UNCHANGED <<now, phase, taken, seen>>
    BY <1>8 DEF Reclaim
  <2>4. /\ DOMAIN job' = DOMAIN job
        /\ \A c \in DOMAIN job' :
              job'[c] \in [state : {"pending", "processing", "succeeded", "dead"},
                           runs : 0..MaxRuns, runAt : Int]
        /\ \A c \in DOMAIN job' : job'[c].state = "pending" => job'[c].runs < MaxRuns
        /\ ChainUnbroken'
        /\ \A c : HasSuccessor(c) => HasSuccessor(c)'
    BY <2>1, <2>2, <2>3, RewritePreserves
  <2>5. ChainTypeOK'
    BY <2>3, <2>4 DEF ChainTypeOK
  <2>6. QED
    BY <2>3, <2>4, <2>5 DEF ChainInv
<1>9. CASE UNCHANGED chainVars
  BY <1>9 DEF chainVars, ChainTypeOK, ChainInv, ChainUnbroken, HasSuccessor
<1>10. QED
  BY <1>1, <1>2, <1>3, <1>4, <1>5, <1>6, <1>7, <1>8, <1>9 DEF ChainNext, Run

(* The inductive invariant holds for any number of workers and any skew. *)
THEOREM ChainInvariance == ChainSpec => []ChainInv
<1>1. ChainSpec => []IInv
  BY InitIInv, StepIInv, PTL DEF ChainSpec
<1>2. IInv => ChainInv
  BY DEF IInv
<1>3. QED
  BY <1>1, <1>2, PTL

(* Rows and workers stay well formed. *)
THEOREM ChainTyped == ChainSpec => []ChainTypeOK
<1>1. ChainSpec => []IInv
  BY InitIInv, StepIInv, PTL DEF ChainSpec
<1>2. IInv => ChainTypeOK
  BY DEF IInv
<1>3. QED
  BY <1>1, <1>2, PTL

(* No run that came to its end leaves the chain without a later job, for any *)
(* number of workers, any interval and any clock skew between the workers    *)
(* and the database.                                                         *)
THEOREM ChainNeverBreaks == ChainSpec => []ChainUnbroken
<1>1. ChainInv => ChainUnbroken
  BY DEF ChainInv
<1>2. QED
  BY <1>1, ChainInvariance, PTL
-----------------------------------------------------------------------------
(* The chain does not run ahead.  A bucket has been reached when some clock  *)
(* shows it; one that has not waits for its beginning by the database's      *)
(* clock, so nobody can take it before.                                      *)
Lead(w) == IF Skew[w] > 0 THEN Clock(w) ELSE now
Reached(b) == \E w \in Scanner : b <= Bucket(Lead(w))
AheadInv ==
    /\ NotAhead
    /\ \A b \in DOMAIN job : Reached(b) \/ (job[b].state = "pending" /\ job[b].runAt = BucketStart(b))
    /\ \A w \in Scanner : phase[w] # "idle" => Reached(taken[w])
    /\ \A w \in Scanner : phase[w] = "started" => seen[w] <= Lead(w)

LEMMA BucketMonotone ==
    ASSUME NEW s \in Int, NEW t \in Int, s <= t
    PROVE  Bucket(s) \in Int /\ Bucket(t) \in Int /\ Bucket(s) <= Bucket(t)
<1> DEFINE i == Interval
           p == s \div i
           q == t \div i
<1>1. i \in Int /\ i > 0 BY ClockAssumption
<1>2. p \in Int /\ q \in Int BY <1>1
<1>3. i * p <= s /\ t < i * (q + 1) BY <1>1, SMTT(30)
<1>4. i * p < i * (q + 1) BY <1>1, <1>2, <1>3, SMTT(30)
<1> HIDE DEF p, q, i
<1>5. p < q + 1 BY <1>1, <1>2, <1>4, SMTT(30)
<1> QED BY <1>2, <1>5 DEF Bucket, p, q, i

LEMMA StartedIsReached ==
    ASSUME NEW b \in Int, NEW t \in Int, BucketStart(b) <= t
    PROVE  b <= Bucket(t)
<1> DEFINE i == Interval
           q == t \div i
<1>1. i \in Int /\ i > 0 /\ q \in Int BY ClockAssumption
<1>2. b * i <= t /\ t < i * (q + 1) BY <1>1, SMTT(30) DEF BucketStart
<1> HIDE DEF q, i
<1>3. b < q + 1 BY <1>1, <1>2, SMTT(30)
<1> QED BY <1>1, <1>3 DEF Bucket, q, i

(* Time only goes on: what has been reached stays reached.                   *)
LEMMA LeadType == ASSUME now \in Int, NEW w \in Scanner
                  PROVE  Lead(w) \in Int /\ now <= Lead(w) /\ Clock(w) <= Lead(w) /\ Clock(w) \in Int
BY ClockAssumption DEF Lead, Clock

LEMMA ReachedStays ==
    ASSUME now \in Int, now' \in Int, now <= now', NEW b \in Int, Reached(b)
    PROVE  Reached(b)'
<1>1. PICK w \in Scanner : b <= Bucket(Lead(w)) BY DEF Reached
<1>2. Lead(w) \in Int /\ Lead(w)' \in Int /\ Lead(w) <= Lead(w)'
  BY ClockAssumption DEF Lead, Clock
<1>3. Bucket(Lead(w)) \in Int /\ Bucket(Lead(w)') \in Int /\ Bucket(Lead(w)) <= Bucket(Lead(w)')
  BY <1>2, BucketMonotone
<1>4. b <= Bucket(Lead(w))' BY <1>1, <1>3 DEF Bucket
<1> QED BY <1>4 DEF Reached

LEMMA AheadInit == ChainInit => AheadInv
BY DEF ChainInit, AheadInv, NotAhead

(* A step that adds no bucket, and leaves those not reached waiting.         *)
LEMMA AheadKeeps ==
    ASSUME IInv, IInv', AheadInv, now <= now',
           \A b \in DOMAIN job' :
              \/ b \in DOMAIN job /\ (job'[b] = job[b] \/ Reached(b))
              \/ \E w \in Scanner : b <= Bucket(Lead(w))
              \/ /\ \E w \in Scanner : b <= Bucket(Lead(w)) + 1
                 /\ job'[b].state = "pending" /\ job'[b].runAt = BucketStart(b),
           \A w \in Scanner : phase'[w] # "idle" => Reached(taken'[w]),
           \A w \in Scanner : phase'[w] = "started" => seen'[w] <= Lead(w)
    PROVE  AheadInv'
<1>1. now \in Int /\ now' \in Int /\ DOMAIN job \subseteq Int /\ DOMAIN job' \subseteq Int
      /\ taken' \in [Scanner -> Int] /\ seen' \in [Scanner -> Int]
  BY DEF IInv, ChainTypeOK
<1>2. \A b \in Int : Reached(b) => Reached(b)' BY <1>1, ReachedStays
<1>3. \A w \in Scanner : /\ Lead(w) \in Int /\ Lead(w)' \in Int /\ Lead(w) <= Lead(w)'
                         /\ Bucket(Lead(w)) \in Int /\ Bucket(Lead(w)') \in Int /\ Bucket(Lead(w)) <= Bucket(Lead(w)')
  <2> SUFFICES ASSUME NEW w \in Scanner
               PROVE  /\ Lead(w) \in Int /\ Lead(w)' \in Int /\ Lead(w) <= Lead(w)'
                      /\ Bucket(Lead(w)) \in Int /\ Bucket(Lead(w)') \in Int /\ Bucket(Lead(w)) <= Bucket(Lead(w)')
    OBVIOUS
  <2>1. Lead(w) \in Int /\ Lead(w)' \in Int /\ Lead(w) <= Lead(w)' BY <1>1, ClockAssumption DEF Lead, Clock
  <2> QED BY <2>1, BucketMonotone
<1>4. \A b \in DOMAIN job' : Reached(b)' \/ (job'[b].state = "pending" /\ job'[b].runAt = BucketStart(b))
  <2> SUFFICES ASSUME NEW b \in DOMAIN job', ~Reached(b)
               PROVE  job'[b].state = "pending" /\ job'[b].runAt = BucketStart(b)
    BY <1>1, <1>2
  <2> QED BY DEF AheadInv, Reached
<1>5. \A b \in DOMAIN job' : \E w \in Scanner : b <= Bucket(Lead(w)) + 1
  <2> SUFFICES ASSUME NEW b \in DOMAIN job' PROVE \E w \in Scanner : b <= Bucket(Lead(w)) + 1 OBVIOUS
  <2>1. b \in Int BY <1>1
  <2>2. CASE b \in DOMAIN job BY <2>2 DEF AheadInv, NotAhead, Lead
  <2>3. ASSUME NEW w \in Scanner, b <= Bucket(Lead(w)) PROVE b <= Bucket(Lead(w)) + 1 BY <2>1, <2>3, <1>3
  <2> QED BY <2>2, <2>3
<1>6. NotAhead'
  <2> SUFFICES ASSUME NEW b \in DOMAIN job' PROVE \E w \in Scanner : b <= Bucket(Lead(w)') + 1
    BY DEF NotAhead, Lead, Bucket
  <2>1. PICK w \in Scanner : b <= Bucket(Lead(w)) + 1 BY <1>5
  <2>2. b \in Int BY <1>1
  <2> QED BY <2>1, <2>2, <1>3
<1>7. \A w \in Scanner : phase'[w] # "idle" => \E v \in Scanner : taken'[w] <= Bucket(Lead(v)')
  <2> SUFFICES ASSUME NEW w \in Scanner, phase'[w] # "idle"
               PROVE  \E v \in Scanner : taken'[w] <= Bucket(Lead(v)')
    OBVIOUS
  <2>1. taken'[w] \in Int BY <1>1
  <2>2. PICK v \in Scanner : taken'[w] <= Bucket(Lead(v)) BY DEF Reached
  <2> QED BY <2>1, <2>2, <1>3
<1>8. \A w \in Scanner : phase'[w] = "started" => seen'[w] <= (Lead(w))'
  <2> SUFFICES ASSUME NEW w \in Scanner, phase'[w] = "started" PROVE seen'[w] <= (Lead(w))' OBVIOUS
  <2>1. seen'[w] \in Int /\ seen'[w] <= Lead(w) BY <1>1
  <2> QED BY <2>1, <1>3
<1>9. \A w \in Scanner : phase'[w] # "idle" => (Reached(taken[w]))' BY <1>7 DEF Reached, Bucket
<1> QED BY <1>4, <1>6, <1>8, <1>9 DEF AheadInv, BucketStart

LEMMA AheadStep == IInv /\ AheadInv /\ [ChainNext]_chainVars => AheadInv'
<1> SUFFICES ASSUME IInv, AheadInv, [ChainNext]_chainVars PROVE AheadInv' OBVIOUS
<1>0. IInv' BY StepIInv
<1>t. /\ now \in Int /\ DOMAIN job \subseteq Int
      /\ phase \in [Scanner -> {"idle", "started", "body", "done", "error"}]
      /\ taken \in [Scanner -> Int] /\ seen \in [Scanner -> Int]
  BY DEF IInv, ChainTypeOK
<1> DEFINE Kept == /\ \A w \in Scanner : phase'[w] # "idle" => Reached(taken'[w])
                   /\ \A w \in Scanner : phase'[w] = "started" => seen'[w] <= Lead(w)
           RowsKept == \A b \in DOMAIN job' :
              \/ b \in DOMAIN job /\ (job'[b] = job[b] \/ Reached(b))
              \/ \E w \in Scanner : b <= Bucket(Lead(w))
              \/ /\ \E w \in Scanner : b <= Bucket(Lead(w)) + 1
                 /\ job'[b].state = "pending" /\ job'[b].runAt = BucketStart(b)
<1>1. CASE Tick \/ UNCHANGED chainVars
  <2>1. now <= now' /\ UNCHANGED <<job, phase, taken, seen>> BY <1>1, <1>t DEF Tick, chainVars
  <2>2. RowsKept BY <2>1
  <2>3. Kept BY <2>1 DEF AheadInv
  <2> QED BY <1>0, <2>1, <2>2, <2>3, AheadKeeps
<1>2. ASSUME NEW w \in Scanner, EnqueueCurrent(w) PROVE AheadInv'
  <2>1. job' = BucketEnqueued(Bucket(Clock(w)), now) /\ UNCHANGED <<now, phase, taken, seen>>
    BY <1>2 DEF EnqueueCurrent
  <2>2. Bucket(Clock(w)) <= Bucket(Lead(w)) BY <1>t, LeadType, BucketMonotone
  <2>3. RowsKept
    <3>1. \A b \in DOMAIN job' : (b \in DOMAIN job /\ job'[b] = job[b]) \/ b = Bucket(Clock(w))
      BY <2>1 DEF BucketEnqueued
    <3> QED BY <3>1, <2>2
  <2>4. Kept BY <2>1 DEF AheadInv
  <2> QED BY <1>0, <1>t, <2>1, <2>3, <2>4, AheadKeeps
<1>3. ASSUME NEW w \in Scanner, FollowUp(w) PROVE AheadInv'
  <2> DEFINE next == FollowUpBucket(taken[w], seen[w])
  <2>1. /\ job' = BucketEnqueued(next, BucketStart(next)) /\ phase[w] = "started"
        /\ phase' = [phase EXCEPT ![w] = "body"] /\ seen' = [seen EXCEPT ![w] = 0] /\ UNCHANGED <<now, taken>>
    BY <1>3 DEF FollowUp
  <2>2. \E v \in Scanner : next <= Bucket(Lead(v)) + 1
    <3>1. seen[w] <= Lead(w) /\ Reached(taken[w]) BY <2>1 DEF AheadInv
    <3>2. Bucket(seen[w]) \in Int /\ Bucket(Lead(w)) \in Int /\ Bucket(seen[w]) <= Bucket(Lead(w))
      BY <3>1, <1>t, LeadType, BucketMonotone
    <3>3. CASE next = Bucket(seen[w]) + 1 BY <3>2, <3>3
    <3>4. CASE next = taken[w] + 1
      <4>1. PICK v \in Scanner : taken[w] <= Bucket(Lead(v)) BY <3>1 DEF Reached
      <4>2. Bucket(Lead(v)) \in Int /\ taken[w] \in Int BY <1>t, LeadType, BucketMonotone
      <4> QED BY <3>4, <4>1, <4>2
    <3> QED BY <3>3, <3>4 DEF FollowUpBucket
  <2> HIDE DEF next
  <2>3. RowsKept
    <3>1. \A b \in DOMAIN job' : \/ b \in DOMAIN job /\ job'[b] = job[b]
                                 \/ b = next /\ job'[b] = BucketRow("pending", 0, BucketStart(next))
      BY <2>1 DEF BucketEnqueued
    <3> QED BY <3>1, <2>2 DEF BucketRow
  <2>4. Kept BY <2>1, <1>t DEF AheadInv
  <2> QED BY <1>0, <1>t, <2>1, <2>3, <2>4, AheadKeeps
<1>4. ASSUME NEW w \in Scanner, NEW b \in DOMAIN job, Take(w, b) PROVE AheadInv'
  <2>1. /\ job[b].runAt <= now /\ \A c \in DOMAIN job' : c \in DOMAIN job /\ (c # b => job'[c] = job[c])
        /\ phase' = [phase EXCEPT ![w] = "started"] /\ taken' = [taken EXCEPT ![w] = b]
        /\ seen' = [seen EXCEPT ![w] = Clock(w)] /\ now' = now
    BY <1>4 DEF Take
  <2>2. Reached(b)
    <3>1. CASE job[b].runAt = BucketStart(b)
      <4>1. b \in Int BY <1>t
      <4>2. b <= Bucket(now) BY <2>1, <3>1, <4>1, <1>t, StartedIsReached
      <4>3. Bucket(now) <= Bucket(Lead(w)) /\ Bucket(now) \in Int /\ Bucket(Lead(w)) \in Int
        BY <1>t, LeadType, BucketMonotone
      <4>4. b <= Bucket(Lead(w)) BY <4>1, <4>2, <4>3
      <4> QED BY <4>4 DEF Reached
    <3> QED BY <3>1 DEF AheadInv
  <2>3. RowsKept BY <2>1, <2>2
  <2>4. Kept BY <2>1, <2>2, <1>t, LeadType DEF AheadInv
  <2> QED BY <1>0, <1>t, <2>1, <2>3, <2>4, AheadKeeps
<1>5. ASSUME NEW w \in Scanner, Body(w) \/ Fails(w) PROVE AheadInv'
  <2>1. /\ UNCHANGED <<now, job, taken>> /\ phase[w] # "idle"
        /\ \A v \in Scanner : /\ phase'[v] # "idle" => phase[v] # "idle"
                              /\ phase'[v] = "started" => phase[v] = "started" /\ seen'[v] = seen[v]
    BY <1>5, <1>t DEF Body, Fails
  <2>2. RowsKept BY <2>1
  <2>3. Kept BY <2>1 DEF AheadInv
  <2> QED BY <1>0, <1>t, <2>1, <2>2, <2>3, AheadKeeps
<1>6. ASSUME NEW w \in Scanner, FinishScan(w) \/ ScannerCrash(w) PROVE AheadInv'
  <2>1. /\ now' = now /\ phase[w] # "idle"
        /\ \A v \in Scanner : phase'[v] # "idle" => phase'[v] = phase[v] /\ taken'[v] = taken[v] /\ seen'[v] = seen[v]
    BY <1>6, <1>t DEF FinishScan, ScannerCrash, BecomeIdle
  <2>2. \A b \in DOMAIN job' : b \in DOMAIN job /\ (b # taken[w] => job'[b] = job[b])
    BY <1>6 DEF FinishScan, ScannerCrash
  <2>3. RowsKept BY <2>1, <2>2 DEF AheadInv
  <2>4. Kept BY <2>1 DEF AheadInv
  <2> QED BY <1>0, <1>t, <2>1, <2>3, <2>4, AheadKeeps
<1>7. ASSUME NEW b \in DOMAIN job, Reclaim(b) PROVE AheadInv'
  <2>1. /\ job[b].state = "processing" /\ UNCHANGED <<now, phase, taken, seen>>
        /\ \A c \in DOMAIN job' : c \in DOMAIN job /\ (c # b => job'[c] = job[c])
    BY <1>7 DEF Reclaim
  <2>2. Reached(b) BY <2>1 DEF AheadInv
  <2>3. RowsKept BY <2>1, <2>2
  <2>4. Kept BY <2>1 DEF AheadInv
  <2> QED BY <1>0, <1>t, <2>1, <2>3, <2>4, AheadKeeps
<1> QED BY <1>1, <1>2, <1>3, <1>4, <1>5, <1>6, <1>7 DEF ChainNext, Run

(* No flood of jobs: however often workers restart, retry and scan in        *)
(* parallel, and whatever their clocks show, the chain is at most one bucket *)
(* ahead of the clocks (communication/chain-bucket.ts).                      *)
THEOREM ChainNotAhead == ChainSpec => []NotAhead
<1>1. ChainSpec => [](IInv /\ AheadInv) BY InitIInv, StepIInv, AheadInit, AheadStep, PTL DEF ChainSpec
<1>2. AheadInv => NotAhead BY DEF AheadInv
<1> QED BY <1>1, <1>2, PTL
-----------------------------------------------------------------------------
(* Mails (MailOutbox).                                                      *)
Attempts(w) == pc[w] \in Attempting

(* The worker runs a job. *)
Busy == \A w \in Workers : pc[w] # "idle" => cur[w] \in Keys

(* A delivery has at most one attempt under way. *)
SoleAttempt ==
    \A v, w \in Workers : Attempts(v) /\ Attempts(w) /\ Delivery(v) = Delivery(w) => v = w

(* The row of an attempt is the one it claimed; at worst somebody called the *)
(* attempt unclear meanwhile.                                                *)
Claimed ==
    \A w \in Workers : Attempts(w) =>
        /\ mail[Delivery(w)].status \in {"sending", "outcome_unknown"}
        /\ snap[w] < MaxAttempts

(* What the server took over, while the attempt is under way ... *)
Handed ==
    \A w \in Workers :
        /\ pc[w] \in {"prepare", "transient", "permanent"} => accepted[Delivery(w)] = 0
        /\ pc[w] = "sent" => accepted[Delivery(w)] = 1

(* ... and after it. *)
Accounted ==
    \A d \in Deliveries :
        /\ accepted[d] \in {0, 1}
        /\ mail[d].status = "sent" => accepted[d] = 1
        /\ mail[d].status \in {"absent", "pending", "retry", "failed", "blocked"} => accepted[d] = 0

(* A row that may be tried has an attempt left. *)
Left ==
    \A d \in Deliveries :
        mail[d].status \in {"absent", "pending", "retry", "sending"} => mail[d].attempts < MaxAttempts

MailTyped == /\ TypeOK
             /\ accepted \in [Deliveries -> Nat]
             /\ announced \in [Deliveries -> BOOLEAN]

MailInv == MailTyped /\ Busy /\ SoleAttempt /\ Claimed /\ Handed /\ Accounted /\ Left

(* If no attempt is so slow that its row goes stale under it, the row of an  *)
(* attempt stays as it was claimed, ...                                      *)
Held == \A w \in Workers : Attempts(w) => /\ mail[Delivery(w)].status = "sending"
                                          /\ ~mail[Delivery(w)].stale

(* ... and a row is repeated only after its last attempt has ended.          *)
Ended == {"failed", "blocked", "outcome_unknown"}
RepeatedEnded ==
    \A d \in Deliveries : \A e \in NewerOf(d) :
        mail[e].status # "absent" => mail[d].status \in Ended

QuickInv == Held /\ RepeatedEnded

-----------------------------------------------------------------------------
(* Types. *)

LEMMA KeyParts == \A k \in Keys : k[1] \in Deliveries
BY DEF Keys

LEMMA JobType ==
    ASSUME NEW s \in {"absent", "pending", "processing", "succeeded", "dead"},
           NEW n \in Nat, NEW d \in BOOLEAN, NEW w \in Workers \cup {NoWorker}
    PROVE  Job(s, n, d, w) \in JobRow
BY DEF Job, JobRow

LEMMA MaxAttemptsType == MaxAttempts \in Nat /\ 0 < MaxAttempts
BY BoundsAssumption

(* A row that is written keeps the table well formed. *)
LEMMA RecordType ==
    ASSUME MailTyped, NEW d \in Deliveries, NEW row \in Row, row.attempts <= MaxAttempts,
           mail' = [mail EXCEPT ![d] = row]
    PROVE  /\ mail' \in [Deliveries -> Row]
           /\ \A e \in Deliveries : mail'[e].attempts <= MaxAttempts
           /\ mail'[d] = row /\ \A e \in Deliveries \ {d} : mail'[e] = mail[e]
BY DEF MailTyped, TypeOK

LEMMA EnqueuedType ==
    ASSUME jobs \in [Keys -> JobRow], NEW k, NEW due \in BOOLEAN
    PROVE  Enqueued(k, due) \in [Keys -> JobRow]
<1>1. Job("pending", 0, due, NoWorker) \in JobRow
  BY JobType
<1> QED
  BY <1>1 DEF Enqueued

-----------------------------------------------------------------------------
(* Steps that leave rows and attempts alone. *)

LEMMA OnlyJobs ==
    ASSUME MailInv, jobs' \in [Keys -> JobRow], UNCHANGED <<mail, workerVars>>
    PROVE  MailInv'
BY DEF MailInv, MailTyped, TypeOK, Busy, SoleAttempt, Claimed, Handed, Accounted, Left,
       Attempts, Delivery, workerVars

(* The job of a worker moves on without a word to the outbox: it is not       *)
(* attempting anything, or gave up before the handover.                      *)
LEMMA Moves ==
    ASSUME MailInv, NEW w \in Workers,
           mail' = mail, accepted' = accepted,
           \A v \in Workers \ {w} : pc'[v] = pc[v] /\ cur'[v] = cur[v] /\ snap'[v] = snap[v],
           \/ pc'[w] \notin Attempting
           \/ pc[w] = "prepare" /\ pc'[w] = "transient" /\ cur'[w] = cur[w] /\ snap'[w] = snap[w]
    PROVE  SoleAttempt' /\ Claimed' /\ Handed' /\ Accounted' /\ Left'
<1>1. SoleAttempt' /\ Claimed'
  BY DEF MailInv, SoleAttempt, Claimed, Attempts, Attempting, Delivery
<1>2. Handed' /\ Accounted' /\ Left'
  BY DEF MailInv, Handed, Accounted, Left, Attempting, Delivery
<1> QED
  BY <1>1, <1>2

-----------------------------------------------------------------------------
(* Staff, services and the clock. *)

LEMMA InsertKeeps ==
    ASSUME MailInv, NEW d \in Deliveries, mail[d].status = "absent", Insert(d),
           UNCHANGED <<jobs, workerVars>>
    PROVE  MailInv'
<1> USE DeliveriesAssumption, BoundsAssumption
<1>1. PICK row : /\ \/ row = MailRow("pending", 0, TRUE, FALSE)
                    \/ \E c \in BOOLEAN : row = MailRow("blocked", 0, TRUE, c)
                 /\ mail' = [mail EXCEPT ![d] = row]
  BY DEF Insert
<1>2. row \in Row /\ row.attempts = 0 /\ row.attempts <= MaxAttempts /\ row.status \in {"pending", "blocked"}
  <2>2. CASE row = MailRow("pending", 0, TRUE, FALSE)
    BY <2>2, MaxAttemptsType DEF MailRow, Row, Status
  <2>3. CASE \E c \in BOOLEAN : row = MailRow("blocked", 0, TRUE, c)
    BY <2>3, MaxAttemptsType DEF MailRow, Row, Status
  <2> QED
    BY <1>1, <2>2, <2>3
<1>3. /\ mail' \in [Deliveries -> Row]
      /\ \A e \in Deliveries : mail'[e].attempts <= MaxAttempts
      /\ mail'[d] = row /\ \A e \in Deliveries \ {d} : mail'[e] = mail[e]
  BY <1>1, <1>2, RecordType DEF MailInv
<1>4. MailTyped' /\ Busy' /\ SoleAttempt'
  BY <1>3 DEF MailInv, MailTyped, TypeOK, Busy, SoleAttempt, Attempts, Delivery, workerVars
<1>5. \A w \in Workers : Attempts(w) => Delivery(w) # d /\ Delivery(w) \in Deliveries
  BY KeyParts DEF MailInv, Claimed, Busy, Attempts, Attempting, Delivery
<1>6. Claimed' /\ Handed'
  BY <1>3, <1>5 DEF MailInv, Claimed, Handed, Attempts, Attempting, Delivery, workerVars
<1>7. Accounted' /\ Left'
  BY <1>2, <1>3 DEF MailInv, Accounted, Left, workerVars
<1> QED
  BY <1>4, <1>6, <1>7 DEF MailInv

LEMMA RowsKeep ==
    ASSUME MailInv, NEW d \in Deliveries,
           \/ Enqueue(d) \/ Resend(d) \/ RetryFailed(d) \/ MailBecomesDue(d) \/ MailGoesStale(d)
    PROVE  MailInv'
<1>1. CASE Enqueue(d)
  BY <1>1, InsertKeeps, OnlyJobs DEF Enqueue, MailInv, MailTyped, TypeOK
<1>2. CASE Resend(d)
  BY <1>2, InsertKeeps, DeliveriesAssumption DEF Resend
<1>3. CASE RetryFailed(d)
  BY <1>3, InsertKeeps, DeliveriesAssumption DEF RetryFailed
<1>4. CASE MailBecomesDue(d) \/ MailGoesStale(d)
  <2>0. mail \in [Deliveries -> Row] /\ \A e \in Deliveries : mail[e] \in Row
    BY DEF MailInv, MailTyped, TypeOK
  <2>1. /\ mail' \in [Deliveries -> Row]
        /\ \A e \in Deliveries : /\ mail'[e].status = mail[e].status
                                 /\ mail'[e].attempts = mail[e].attempts
    <3>1. CASE MailBecomesDue(d)
      BY <2>0, <3>1 DEF MailBecomesDue, Row
    <3>2. CASE MailGoesStale(d)
      BY <2>0, <3>2 DEF MailGoesStale, Row
    <3> QED
      BY <1>4, <3>1, <3>2
  <2>2. MailTyped'
    BY <1>4, <2>1 DEF MailBecomesDue, MailGoesStale, MailInv, MailTyped, TypeOK, workerVars
  <2>3. Busy' /\ SoleAttempt'
    BY <1>4 DEF MailBecomesDue, MailGoesStale, MailInv, Busy, SoleAttempt, Attempts, Delivery, workerVars
  <2>4. Claimed' /\ Handed' /\ Accounted' /\ Left'
    BY <1>4, <2>1, KeyParts DEF MailBecomesDue, MailGoesStale, MailInv, Busy, Claimed, Handed, Accounted, Left,
                     Attempts, Attempting, Delivery, workerVars
  <2> QED
    BY <2>2, <2>3, <2>4 DEF MailInv
<1> QED
  BY <1>1, <1>2, <1>3, <1>4

LEMMA JobsKeep ==
    ASSUME MailInv,
           \/ \E d \in Deliveries : ScheduleSend(d) \/ ScheduleBackstop(d)
           \/ \E k \in Keys : JobBecomesDue(k) \/ JobReclaimed(k)
    PROVE  MailInv'
<1>1. jobs \in [Keys -> JobRow]
  BY DEF MailInv, MailTyped, TypeOK
<1>2. CASE \E d \in Deliveries : ScheduleSend(d) \/ ScheduleBackstop(d)
  BY <1>1, <1>2, EnqueuedType, OnlyJobs DEF ScheduleSend, ScheduleBackstop
<1>3. ASSUME NEW k \in Keys, JobBecomesDue(k) PROVE MailInv'
  <2>1. jobs' \in [Keys -> JobRow]
    BY <1>1, <1>3 DEF JobBecomesDue, JobRow
  <2> QED
    BY <1>3, <2>1, OnlyJobs DEF JobBecomesDue
<1>4. ASSUME NEW k \in Keys, JobReclaimed(k) PROVE MailInv'
  <2>1. jobs[k].runs \in Nat
    BY <1>1 DEF JobRow
  <2>2. /\ Job("dead", jobs[k].runs, FALSE, NoWorker) \in JobRow
        /\ Job("pending", jobs[k].runs, TRUE, NoWorker) \in JobRow
    BY <2>1, JobType
  <2>3. jobs' \in [Keys -> JobRow]
    BY <1>1, <1>4, <2>2 DEF JobReclaimed
  <2> QED
    BY <1>4, <2>3, OnlyJobs DEF JobReclaimed
<1> QED
  BY <1>2, <1>3, <1>4

-----------------------------------------------------------------------------
(* The job of a worker, without the outbox. *)

LEMMA WorkerMoves ==
    ASSUME MailInv, NEW w \in Workers,
           \/ \E k \in Keys : TakeJob(w, k)
           \/ NoClaim(w) \/ PrepareFails(w) \/ Reschedule(w) \/ RunListeners(w)
           \/ DatabaseFails(w) \/ FinishJob(w) \/ Crash(w)
    PROVE  MailInv'
<1> USE DEF Goto, Stay, MailInv, MailTyped, TypeOK
<1>1. CASE NoClaim(w) \/ PrepareFails(w) \/ DatabaseFails(w)
  <2>1. MailTyped' /\ Busy'
    BY <1>1 DEF NoClaim, PrepareFails, DatabaseFails, Busy
  <2>2. SoleAttempt' /\ Claimed' /\ Handed' /\ Accounted' /\ Left'
    BY <1>1, Moves DEF NoClaim, PrepareFails, DatabaseFails, Attempting
  <2> QED
    BY <2>1, <2>2
<1>2. CASE RunListeners(w)
  <2>1. Delivery(w) \in Deliveries
    BY <1>2, KeyParts DEF RunListeners, Busy, Delivery
  <2>2. MailTyped' /\ Busy'
    BY <1>2, <2>1 DEF RunListeners, Busy
  <2>3. SoleAttempt' /\ Claimed' /\ Handed' /\ Accounted' /\ Left'
    BY <1>2, Moves DEF RunListeners, Attempting
  <2> QED
    BY <2>2, <2>3
<1>3. CASE Reschedule(w)
  <2>1. MailTyped' /\ Busy'
    BY <1>3, EnqueuedType DEF Reschedule, Busy
  <2>2. SoleAttempt' /\ Claimed' /\ Handed' /\ Accounted' /\ Left'
    BY <1>3, Moves DEF Reschedule, Attempting
  <2> QED
    BY <2>1, <2>2
<1>4. CASE FinishJob(w) \/ Crash(w)
  <2>1. jobs' \in [Keys -> JobRow]
    <3>1. \A k \in Keys : jobs[k].runs \in Nat
      BY DEF JobRow
    <3>2. \A k \in Keys, s \in {"succeeded", "dead", "pending"} :
              Job(s, jobs[k].runs, FALSE, NoWorker) \in JobRow
      BY <3>1, JobType
    <3>3. CASE FinishJob(w)
      <4>1. cur[w] \in Keys
        BY <3>3 DEF FinishJob, Busy
      <4> QED
        BY <3>2, <3>3, <4>1 DEF FinishJob
    <3> QED
      BY <1>4, <3>3 DEF Crash
  <2>2. MailTyped' /\ Busy'
    <3>1. CASE FinishJob(w)
      BY <2>1, <3>1 DEF FinishJob, Busy
    <3>2. CASE Crash(w)
      BY <3>2 DEF Crash, Busy
    <3> QED
      BY <1>4, <3>1, <3>2
  <2>3. SoleAttempt' /\ Claimed' /\ Handed' /\ Accounted' /\ Left'
    BY <1>4, Moves DEF FinishJob, Crash, Attempting
  <2> QED
    BY <2>2, <2>3
<1>5. ASSUME NEW k \in Keys, TakeJob(w, k) PROVE MailInv'
  <2>1. jobs[k].runs + 1 \in Nat
    BY DEF JobRow
  <2>2. Job("processing", jobs[k].runs + 1, TRUE, w) \in JobRow
    BY <2>1, JobType
  <2>3. MailTyped' /\ Busy'
    BY <1>5, <2>2 DEF TakeJob, Busy
  <2>4. SoleAttempt' /\ Claimed' /\ Handed' /\ Accounted' /\ Left'
    BY <1>5, Moves DEF TakeJob, Attempting
  <2> QED
    BY <2>3, <2>4
<1> QED
  BY <1>1, <1>2, <1>3, <1>4, <1>5

-----------------------------------------------------------------------------
(* The attempt. *)

(* The worker writes the row of its delivery and is done with it: nobody else *)
(* is attempting this delivery, or will find it unclear.                     *)
LEMMA EndsAttempt ==
    ASSUME MailInv, NEW w \in Workers, Delivery(w) \in Deliveries,
           NEW row \in Row,
           \/ row.status = "outcome_unknown"
           \/ \A v \in Workers \ {w} : Attempts(v) => Delivery(v) # Delivery(w),
           row.attempts <= MaxAttempts, row.status # "absent",
           row.status \in {"retry", "pending", "sending"} => row.attempts < MaxAttempts,
           row.status = "sent" => accepted[Delivery(w)] = 1,
           row.status \in {"pending", "retry", "failed", "blocked"} => accepted[Delivery(w)] = 0,
           Record(w, row), UNCHANGED <<jobs, cur, snap, accepted, announced>>,
           NEW label \in {"listeners", "done", "reschedule"}, Goto(w, label), pc[w] # "idle"
    PROVE  MailInv'
<1>1. /\ mail' \in [Deliveries -> Row]
      /\ \A e \in Deliveries : mail'[e].attempts <= MaxAttempts
      /\ mail'[Delivery(w)] = row
      /\ \A e \in Deliveries \ {Delivery(w)} : mail'[e] = mail[e]
  BY RecordType DEF MailInv, Record
<1>2. /\ pc' \in [Workers -> {"idle", "process", "prepare", "sent", "transient", "permanent",
                           "unknown", "reschedule", "listeners", "done", "error"}]
      /\ pc'[w] = label /\ \A v \in Workers \ {w} : pc'[v] = pc[v]
  BY DEF Goto, MailInv, MailTyped, TypeOK
<1>3. MailTyped' /\ Busy'
  BY <1>1, <1>2 DEF MailInv, MailTyped, TypeOK, Busy
<1>4. SoleAttempt' /\ Claimed' /\ Handed'
  BY <1>1, <1>2, KeyParts DEF MailInv, Busy, SoleAttempt, Claimed, Handed, Attempts, Attempting, Delivery
<1>5. Accounted' /\ Left'
  BY <1>1 DEF MailInv, Accounted, Left
<1> QED
  BY <1>3, <1>4, <1>5 DEF MailInv

LEMMA AttemptEnds ==
    ASSUME MailInv, NEW w \in Workers,
           CloseStale(w) \/ Block(w) \/ RecordSent(w) \/ RetryOrFail(w) \/ Finish(w)
    PROVE  MailInv'
<1>1. /\ Delivery(w) \in Deliveries /\ pc[w] # "idle" /\ snap[w] \in Nat
      /\ mail[Delivery(w)] \in Row /\ accepted[Delivery(w)] \in Nat
  BY KeyParts DEF MailInv, MailTyped, TypeOK, Busy, Delivery, CloseStale, Block, RecordSent, RetryOrFail, Finish
<1>2. Attempts(w) => /\ \A v \in Workers \ {w} : Attempts(v) => Delivery(v) # Delivery(w)
                     /\ snap[w] <= MaxAttempts /\ snap[w] + 1 <= MaxAttempts
  <2>1. Attempts(w) => snap[w] < MaxAttempts
    BY DEF MailInv, Claimed
  <2>2. snap[w] < MaxAttempts => snap[w] <= MaxAttempts /\ snap[w] + 1 <= MaxAttempts
    BY <1>1, MaxAttemptsType
  <2> QED
    BY <2>1, <2>2 DEF MailInv, SoleAttempt
<1>4. CASE CloseStale(w)
  <2>1. mail[Delivery(w)].attempts + 1 \in Nat /\ mail[Delivery(w)].attempts + 1 <= MaxAttempts
    <3>1. mail[Delivery(w)].attempts \in Nat
      BY <1>1 DEF Row
    <3>2. mail[Delivery(w)].attempts < MaxAttempts
      BY <1>1, <1>4 DEF CloseStale, MailInv, Left
    <3> QED
      BY <3>1, <3>2, MaxAttemptsType
  <2>2. /\ StaleRow(Delivery(w)) \in Row /\ StaleRow(Delivery(w)).status = "outcome_unknown"
        /\ StaleRow(Delivery(w)).attempts <= MaxAttempts
    BY <2>1 DEF StaleRow, MailRow, Row, Status
  <2> QED
    BY <1>1, <1>4, <2>2, EndsAttempt DEF CloseStale, Stay
<1>5. CASE Block(w)
  <2>1. PICK c \in BOOLEAN : Record(w, MailRow("blocked", snap[w], TRUE, c))
    BY <1>5 DEF Block
  <2>2. Attempts(w) /\ accepted[Delivery(w)] = 0
    BY <1>5 DEF Block, Attempts, Attempting, MailInv, Handed
  <2>3. /\ MailRow("blocked", snap[w], TRUE, c) \in Row
        /\ MailRow("blocked", snap[w], TRUE, c).status = "blocked"
        /\ MailRow("blocked", snap[w], TRUE, c).attempts <= MaxAttempts
    BY <1>1, <1>2, <2>2 DEF MailRow, Row, Status
  <2> QED
    BY <1>1, <1>2, <1>5, <2>1, <2>2, <2>3, EndsAttempt DEF Block, Stay
<1>6. CASE RecordSent(w)
  <2>1. Attempts(w) /\ accepted[Delivery(w)] = 1
    BY <1>6 DEF RecordSent, Attempts, Attempting, MailInv, Handed
  <2>2. SentRow(w) \in Row /\ SentRow(w).status = "sent" /\ SentRow(w).attempts <= MaxAttempts
    BY <1>1, <1>2, <2>1 DEF SentRow, MailRow, Row, Status
  <2> QED
    BY <1>1, <1>2, <1>6, <2>1, <2>2, EndsAttempt DEF RecordSent, Stay
<1>7. CASE RetryOrFail(w)
  <2>1. Attempts(w) /\ accepted[Delivery(w)] = 0
    BY <1>7 DEF RetryOrFail, Attempts, Attempting, MailInv, Handed
  <2>2. CASE snap[w] + 1 >= MaxAttempts
    <3>1. /\ MailRow("failed", snap[w] + 1, TRUE, FALSE) \in Row
          /\ MailRow("failed", snap[w] + 1, TRUE, FALSE).status = "failed"
          /\ MailRow("failed", snap[w] + 1, TRUE, FALSE).attempts <= MaxAttempts
      BY <1>1, <1>2, <2>1 DEF MailRow, Row, Status
    <3> QED
      BY <1>1, <1>2, <1>7, <2>1, <2>2, <3>1, EndsAttempt DEF RetryOrFail, Stay
  <2>3. CASE ~(snap[w] + 1 >= MaxAttempts)
    <3>0. snap[w] + 1 \in Nat /\ snap[w] + 1 < MaxAttempts /\ snap[w] + 1 <= MaxAttempts
      BY <1>1, <2>3, MaxAttemptsType
    <3>1. /\ RetryRow(w) \in Row /\ RetryRow(w).status = "retry"
          /\ RetryRow(w).attempts < MaxAttempts /\ RetryRow(w).attempts <= MaxAttempts
      BY <3>0 DEF RetryRow, MailRow, Row, Status
    <3>2. Record(w, RetryRow(w)) /\ Goto(w, "reschedule")
      BY <1>7, <2>3 DEF RetryOrFail
    <3> QED
      BY <1>1, <1>2, <1>7, <2>1, <3>1, <3>2, EndsAttempt DEF RetryOrFail, Stay
  <2> QED
    BY <2>2, <2>3
<1>8. CASE Finish(w)
  <2>1. Attempts(w) /\ (pc[w] = "permanent" => accepted[Delivery(w)] = 0)
    BY <1>8 DEF Finish, Attempts, Attempting, MailInv, Handed
  <2>2. ASSUME NEW s \in {"failed", "outcome_unknown"}
        PROVE  /\ MailRow(s, snap[w] + 1, TRUE, FALSE) \in Row
               /\ MailRow(s, snap[w] + 1, TRUE, FALSE).status = s
               /\ MailRow(s, snap[w] + 1, TRUE, FALSE).attempts <= MaxAttempts
    BY <1>1, <1>2, <2>1 DEF MailRow, Row, Status
  <2>3. CASE pc[w] = "permanent"
    BY <1>1, <1>2, <1>8, <2>1, <2>2, <2>3, EndsAttempt DEF Finish, Stay
  <2>4. CASE pc[w] = "unknown"
    BY <1>1, <1>2, <1>8, <2>1, <2>2, <2>4, EndsAttempt DEF Finish, Stay
  <2> QED
    BY <1>8, <2>3, <2>4 DEF Finish
<1> QED
  BY <1>4, <1>5, <1>6, <1>7, <1>8

(* The claim finds a row that nobody attempts: those of attempts are not      *)
(* pending and not in retry.                                                 *)
LEMMA ClaimKeeps ==
    ASSUME MailInv, NEW w \in Workers, ClaimDelivery(w)
    PROVE  MailInv'
<1> DEFINE row == MailRow("sending", mail[Delivery(w)].attempts, TRUE, FALSE)
<1>1. /\ Delivery(w) \in Deliveries /\ mail[Delivery(w)] \in Row
      /\ mail[Delivery(w)].status \in {"pending", "retry"}
      /\ mail[Delivery(w)].attempts \in Nat /\ mail[Delivery(w)].attempts < MaxAttempts
  BY KeyParts DEF MailInv, MailTyped, TypeOK, Busy, Delivery, ClaimDelivery, Claimable, Left, Row
<1>2. \A v \in Workers : Attempts(v) => Delivery(v) # Delivery(w)
  BY <1>1 DEF MailInv, Claimed
<1>3. row \in Row /\ row.status = "sending" /\ row.attempts = mail[Delivery(w)].attempts
  BY <1>1 DEF MailRow, Row, Status
<1>4. row.attempts < MaxAttempts /\ row.attempts <= MaxAttempts
  <2>1. mail[Delivery(w)].attempts <= MaxAttempts
    BY <1>1, MaxAttemptsType
  <2> QED
    BY <1>1, <1>3, <2>1
<1>5. /\ mail' \in [Deliveries -> Row]
      /\ \A e \in Deliveries : mail'[e].attempts <= MaxAttempts
      /\ mail'[Delivery(w)] = row
      /\ \A e \in Deliveries \ {Delivery(w)} : mail'[e] = mail[e]
  BY <1>1, <1>3, <1>4, RecordType DEF ClaimDelivery, Record, MailInv
<1>6. /\ \A v \in Workers \ {w} : pc'[v] = pc[v] /\ snap'[v] = snap[v]
      /\ pc'[w] = "prepare" /\ snap'[w] = mail[Delivery(w)].attempts /\ cur' = cur
  BY DEF ClaimDelivery, Goto, MailInv, MailTyped, TypeOK
<1>7. MailTyped' /\ Busy'
  BY <1>1, <1>5 DEF ClaimDelivery, Goto, MailInv, MailTyped, TypeOK, Busy
<1>8. SoleAttempt'
  BY <1>2, <1>6 DEF MailInv, SoleAttempt, Attempts, Delivery
<1>9. Claimed'
  BY <1>1, <1>2, <1>3, <1>5, <1>6, KeyParts DEF MailInv, Busy, Claimed, Attempts, Attempting, Delivery
<1>10. accepted' = accepted /\ accepted[Delivery(w)] = 0
  BY <1>1 DEF ClaimDelivery, MailInv, Accounted
<1>11. Handed'
  BY <1>6, <1>10 DEF MailInv, Handed, Delivery
<1>12. Accounted' /\ Left'
  <2> HIDE DEF row
  <2> QED
    BY <1>3, <1>4, <1>5, <1>10 DEF MailInv, Accounted, Left
<1> QED
  BY <1>7, <1>8, <1>9, <1>11, <1>12 DEF MailInv

LEMMA HandoverKeeps ==
    ASSUME MailInv, NEW w \in Workers, Handover(w)
    PROVE  MailInv'
<1>1. /\ Attempts(w) /\ Delivery(w) \in Deliveries /\ accepted[Delivery(w)] = 0
      /\ mail[Delivery(w)].status \in {"sending", "outcome_unknown"}
  BY KeyParts DEF Handover, MailInv, Busy, Handed, Claimed, Attempts, Attempting, Delivery
<1>2. PICK o \in {<<"sent", 1>>, <<"transient", 0>>, <<"permanent", 0>>, <<"unknown", 0>>, <<"unknown", 1>>} :
          /\ Goto(w, o[1]) /\ accepted' = [accepted EXCEPT ![Delivery(w)] = @ + o[2]]
  BY DEF Handover
<1>3. /\ pc'[w] = o[1] /\ \A v \in Workers \ {w} : pc'[v] = pc[v]
      /\ accepted'[Delivery(w)] = o[2]
      /\ \A d \in Deliveries \ {Delivery(w)} : accepted'[d] = accepted[d]
      /\ accepted' \in [Deliveries -> Nat]
  BY <1>1, <1>2 DEF Goto, MailInv, MailTyped, TypeOK
<1>4. MailTyped' /\ Busy'
  BY <1>2, <1>3 DEF Handover, Goto, MailInv, MailTyped, TypeOK, Busy
<1>5. SoleAttempt' /\ Claimed'
  BY <1>1, <1>3 DEF Handover, MailInv, SoleAttempt, Claimed, Attempts, Attempting, Delivery
<1>6. Handed'
  BY <1>1, <1>2, <1>3, KeyParts DEF Handover, MailInv, Busy, SoleAttempt, Handed, Attempts, Attempting, Delivery
<1>7. Accounted' /\ Left'
  BY <1>1, <1>2, <1>3 DEF Handover, MailInv, Accounted, Left
<1> QED
  BY <1>4, <1>5, <1>6, <1>7 DEF MailInv

-----------------------------------------------------------------------------
(* Invariance. *)

LEMMA MailInitially == Init => MailInv
<1> SUFFICES ASSUME Init PROVE MailInv
  OBVIOUS
<1> USE DeliveriesAssumption, BoundsAssumption
<1>1. MailRow("absent", 0, TRUE, FALSE) \in Row
  BY DEF MailRow, Row, Status
<1>2. Job("absent", 0, FALSE, NoWorker) \in JobRow
  BY JobType
<1>3. \A d \in Deliveries : mail[d].status = "absent" /\ mail[d].attempts = 0 /\ accepted[d] = 0
  <2>1. \A d \in Deliveries : mail[d] = MailRow("absent", 0, TRUE, FALSE)
    BY DEF Init
  <2>2. \A d \in Deliveries : mail[d].status = "absent" /\ mail[d].attempts = 0
    BY <2>1 DEF MailRow
  <2> QED
    BY <2>2 DEF Init
<1>4. \A d \in Deliveries : mail[d].attempts < MaxAttempts /\ mail[d].attempts <= MaxAttempts
  BY <1>3, MaxAttemptsType
<1>5. MailTyped
  <2>1. mail \in [Deliveries -> Row] /\ jobs \in [Keys -> JobRow]
    BY <1>1, <1>2 DEF Init
  <2>2. accepted \in [Deliveries -> Nat] /\ snap \in [Workers -> Nat] /\ announced \in [Deliveries -> BOOLEAN]
    BY DEF Init
  <2>3. /\ cur \in [Workers -> Keys \cup {NoKey}]
        /\ pc \in [Workers -> {"idle", "process", "prepare", "sent", "transient", "permanent",
                           "unknown", "reschedule", "listeners", "done", "error"}]
    BY DEF Init
  <2> QED
    BY <1>4, <2>1, <2>2, <2>3 DEF MailTyped, TypeOK
<1>6. \A w \in Workers : pc[w] = "idle"
  BY DEF Init
<1>7. Busy /\ SoleAttempt /\ Claimed /\ Handed
  BY <1>6 DEF Busy, SoleAttempt, Claimed, Handed, Attempts, Attempting
<1>8. Accounted /\ Left
  BY <1>3, <1>4 DEF Accounted, Left
<1> QED
  BY <1>5, <1>7, <1>8 DEF MailInv

LEMMA MailNextKeeps == MailInv /\ [Next]_vars => MailInv'
<1> SUFFICES ASSUME MailInv, [Next]_vars PROVE MailInv'
  OBVIOUS
<1>1. CASE UNCHANGED vars
  BY <1>1 DEF vars, MailInv, MailTyped, TypeOK, Busy, SoleAttempt, Claimed, Handed, Accounted, Left,
              Attempts, Delivery
<1>2. ASSUME NEW w \in Workers, Step(w) \/ Crash(w) \/ \E k \in Keys : TakeJob(w, k)
      PROVE  MailInv'
  BY <1>2, WorkerMoves, AttemptEnds, ClaimKeeps, HandoverKeeps DEF Step
<1> QED
  BY <1>1, <1>2, RowsKeep, JobsKeep DEF Next

(* Whatever workers, jobs, staff and clock do: rows, jobs and workers are    *)
(* well formed, and no delivery counts more attempts than MAIL_MAX_ATTEMPTS; *)
(* a worker knows what the server took over (send-job.ts).                   *)
THEOREM MailInvariance == Spec => []MailInv
BY MailInitially, MailNextKeeps, PTL DEF Spec

THEOREM MailTypeCorrect == Spec => []TypeOK
BY MailInvariance, PTL DEF MailInv, MailTyped

(* No delivery is handed to the server a second time after it took it over - *)
(* even if attempts outlive the lease of their job or go stale.              *)
THEOREM NeverHandedOverTwice == Spec => []HandedOverOnce
<1>1. MailInv => HandedOverOnce
  BY DEF MailInv, Accounted, HandedOverOnce
<1> QED
  BY <1>1, MailInvariance, PTL

(* 'sent' was taken over; what is pending, to be retried, failed or blocked  *)
(* was not.                                                                  *)
THEOREM VerdictsAreTrue == Spec => []VerdictIsTrue
<1>1. MailInv => VerdictIsTrue
  BY DEF MailInv, Accounted, VerdictIsTrue
<1> QED
  BY <1>1, MailInvariance, PTL

-----------------------------------------------------------------------------
(* Attempts that keep to MAIL_SENDING_STALE_MS. *)

(* A row under attempt stays as it was claimed.                              *)
LEMMA HeldKeeps ==
    ASSUME OutlivesStale = FALSE, MailInv, Held, Next
    PROVE  Held'
<1> USE DEF Held, Attempts, Delivery
<1>1. mail \in [Deliveries -> Row]
  BY DEF MailInv, MailTyped, TypeOK
<1>2. \A w \in Workers : Attempts(w) => Delivery(w) \in Deliveries
  BY KeyParts DEF MailInv, Busy, Attempting
<1>3. ASSUME NEW d \in Deliveries, Enqueue(d) \/ Resend(d) \/ RetryFailed(d) PROVE Held'
  <2>1. CASE UNCHANGED mail /\ UNCHANGED workerVars
    BY <2>1 DEF workerVars
  <2>2. CASE /\ UNCHANGED workerVars
             /\ \E e \in Deliveries : mail[e].status = "absent" /\ Insert(e)
    <3>1. PICK e \in Deliveries : mail[e].status = "absent" /\ Insert(e)
      BY <2>2
    <3>2. \A x \in Deliveries \ {e} : mail'[x] = mail[x]
      BY <1>1, <3>1 DEF Insert
    <3> QED
      BY <1>2, <2>2, <3>1, <3>2 DEF workerVars
  <2> QED
    BY <1>3, <2>1, <2>2, DeliveriesAssumption DEF Enqueue, Resend, RetryFailed
<1>4. ASSUME NEW d \in Deliveries, ScheduleSend(d) \/ ScheduleBackstop(d) PROVE Held'
  BY <1>4 DEF ScheduleSend, ScheduleBackstop, workerVars
<1>5. ASSUME NEW d \in Deliveries, MailBecomesDue(d) PROVE Held'
  BY <1>1, <1>2, <1>5 DEF MailBecomesDue, workerVars, Row
<1>6. ASSUME NEW d \in Deliveries, MailGoesStale(d) PROVE Held'
  BY <1>1, <1>2, <1>6 DEF MailGoesStale, workerVars, Row
<1>7. ASSUME NEW k \in Keys, JobBecomesDue(k) \/ JobReclaimed(k) PROVE Held'
  BY <1>7 DEF JobBecomesDue, JobReclaimed, workerVars
<1>8. ASSUME NEW w \in Workers, \/ \E k \in Keys : TakeJob(w, k)
                                \/ NoClaim(w) \/ PrepareFails(w) \/ Reschedule(w) \/ RunListeners(w)
                                \/ DatabaseFails(w) \/ FinishJob(w) \/ Crash(w) \/ Handover(w)
      PROVE  Held'
  <2>1. mail' = mail /\ \A v \in Workers \ {w} : pc'[v] = pc[v] /\ cur'[v] = cur[v]
    BY <1>8 DEF TakeJob, NoClaim, PrepareFails, Reschedule, RunListeners, DatabaseFails, FinishJob,
                Crash, Handover, Goto, Stay, MailInv, MailTyped, TypeOK
  <2>2. pc'[w] \in Attempting => pc[w] \in Attempting /\ cur'[w] = cur[w]
    BY <1>8 DEF TakeJob, NoClaim, PrepareFails, Reschedule, RunListeners, DatabaseFails, FinishJob,
                Crash, Handover, Goto, Stay, MailInv, MailTyped, TypeOK, Attempting
  <2> QED
    BY <2>1, <2>2
<1>9. ASSUME NEW w \in Workers, ClaimDelivery(w) PROVE Held'
  <2>1. \A v \in Workers : Attempts(v) => Delivery(v) # Delivery(w)
    BY <1>9 DEF ClaimDelivery, Claimable
  <2>2. /\ cur' = cur /\ \A v \in Workers \ {w} : pc'[v] = pc[v]
        /\ Delivery(w) \in Deliveries
        /\ mail' = [mail EXCEPT ![Delivery(w)] = MailRow("sending", mail[Delivery(w)].attempts, TRUE, FALSE)]
    BY <1>9, KeyParts DEF ClaimDelivery, Goto, Record, MailInv, MailTyped, TypeOK, Busy
  <2>3. mail'[Delivery(w)].status = "sending" /\ ~mail'[Delivery(w)].stale
    BY <1>1, <2>2 DEF MailRow
  <2>4. \A d \in Deliveries \ {Delivery(w)} : mail'[d] = mail[d]
    BY <1>1, <2>2
  <2>5. ASSUME NEW v \in Workers \ {w}, Attempts(v)'
        PROVE  mail'[Delivery(v)'].status = "sending" /\ ~mail'[Delivery(v)'].stale
    <3>1. Attempts(v) /\ Delivery(v)' = Delivery(v)
      BY <2>2, <2>5
    <3>2. Delivery(v) \in Deliveries \ {Delivery(w)}
      BY <1>2, <2>1, <3>1
    <3> QED
      BY <2>4, <3>1, <3>2
  <2> QED
    BY <2>2, <2>3, <2>5
<1>10. ASSUME NEW w \in Workers, CloseStale(w) \/ Block(w) \/ RecordSent(w) \/ RetryOrFail(w) \/ Finish(w)
       PROVE  Held'
  <2>1. /\ cur' = cur /\ pc'[w] \notin Attempting /\ \A v \in Workers \ {w} : pc'[v] = pc[v]
        /\ \A d \in Deliveries \ {Delivery(w)} : mail'[d] = mail[d]
    BY <1>1, <1>10 DEF CloseStale, Block, RecordSent, RetryOrFail, Finish, Goto, Stay, Record, Attempting,
                       MailInv, MailTyped, TypeOK
  <2>2. \A v \in Workers \ {w} : Attempts(v) => Delivery(v) # Delivery(w)
    <3>1. CASE CloseStale(w)
      BY <3>1 DEF CloseStale
    <3>2. CASE Attempts(w)
      BY <3>2 DEF MailInv, SoleAttempt
    <3> QED
      BY <1>10, <3>1, <3>2 DEF Block, RecordSent, RetryOrFail, Finish, Attempting
  <2> QED
    BY <1>2, <2>1, <2>2
<1> QED
  BY <1>3, <1>4, <1>5, <1>6, <1>7, <1>8, <1>9, <1>10 DEF Next, Step

(* A verdict stands, and only staff and services add rows.                   *)
LEMMA VerdictsStand ==
    ASSUME MailInv, Held, [Next]_vars
    PROVE  \/ \A d \in Deliveries : /\ mail[d].status \in Ended => mail'[d].status = mail[d].status
                                    /\ mail'[d].status # "absent" => mail[d].status # "absent"
           \/ \E d \in Deliveries : Enqueue(d) \/ Resend(d) \/ RetryFailed(d)
<1> USE DEF Ended
<1>1. mail \in [Deliveries -> Row]
  BY DEF MailInv, MailTyped, TypeOK
<1>2. CASE mail' = mail
  BY <1>2
<1>3. ASSUME NEW d \in Deliveries, MailBecomesDue(d) \/ MailGoesStale(d)
      PROVE  \A e \in Deliveries : mail'[e].status = mail[e].status
  BY <1>1, <1>3 DEF MailBecomesDue, MailGoesStale, Row
<1>4. ASSUME NEW w \in Workers, \/ ClaimDelivery(w) \/ CloseStale(w) \/ Block(w) \/ RecordSent(w)
                                \/ RetryOrFail(w) \/ Finish(w)
      PROVE  /\ Delivery(w) \in Deliveries /\ mail[Delivery(w)].status \in {"pending", "retry", "sending"}
             /\ \A e \in Deliveries \ {Delivery(w)} : mail'[e] = mail[e]
  <2>1. Delivery(w) \in Deliveries
    BY <1>4, KeyParts DEF MailInv, Busy, Delivery, ClaimDelivery, CloseStale, Block, RecordSent, RetryOrFail, Finish
  <2>2. mail[Delivery(w)].status \in {"pending", "retry", "sending"}
    BY <1>4 DEF Held, Attempts, Attempting, ClaimDelivery, Claimable, CloseStale, Block, RecordSent, RetryOrFail, Finish
  <2>3. \A e \in Deliveries \ {Delivery(w)} : mail'[e] = mail[e]
    BY <1>1, <1>4 DEF Record, ClaimDelivery, CloseStale, Block, RecordSent, RetryOrFail, Finish
  <2> QED
    BY <2>1, <2>2, <2>3
<1>5. \/ \E d \in Deliveries : Enqueue(d) \/ Resend(d) \/ RetryFailed(d)
      \/ \E d \in Deliveries : MailBecomesDue(d) \/ MailGoesStale(d)
      \/ \E w \in Workers : \/ ClaimDelivery(w) \/ CloseStale(w) \/ Block(w) \/ RecordSent(w)
                            \/ RetryOrFail(w) \/ Finish(w)
      \/ mail' = mail
  BY DEF Next, vars, Step, ScheduleSend, ScheduleBackstop, JobBecomesDue, JobReclaimed, TakeJob, NoClaim,
         PrepareFails, Handover, Reschedule, RunListeners, DatabaseFails, FinishJob, Crash
<1>6. CASE \E w \in Workers : \/ ClaimDelivery(w) \/ CloseStale(w) \/ Block(w) \/ RecordSent(w)
                              \/ RetryOrFail(w) \/ Finish(w)
  BY <1>4, <1>6
<1>7. CASE \E d \in Deliveries : MailBecomesDue(d) \/ MailGoesStale(d)
  BY <1>3, <1>7
<1> QED
  BY <1>2, <1>5, <1>6, <1>7

(* A new row is the first repetition of what it repeats, or repeats nothing. *)
LEMMA RepetitionFollows ==
    ASSUME MailInv, RepeatedEnded, NEW x \in Deliveries, Enqueue(x) \/ Resend(x) \/ RetryFailed(x)
    PROVE  RepeatedEnded' /\ \A d \in Deliveries : mail[d].status \in Ended => mail'[d] = mail[d]
<1> USE DEF Ended
<1>1. mail \in [Deliveries -> Row]
  BY DEF MailInv, MailTyped, TypeOK
<1>2. CASE mail' = mail
  BY <1>2 DEF RepeatedEnded
<1>3. ASSUME NEW n \in Deliveries, mail[n].status = "absent", Insert(n),
             \A d \in Deliveries : n \in NewerOf(d) => mail[d].status \in Ended
      PROVE  RepeatedEnded' /\ \A d \in Deliveries : mail[d].status \in Ended => mail'[d] = mail[d]
  <2>1. \A d \in Deliveries \ {n} : mail'[d] = mail[d]
    BY <1>1, <1>3 DEF Insert
  <2>2. \A d \in Deliveries : mail[d].status \in Ended => mail'[d] = mail[d]
    BY <1>3, <2>1
  <2>3. \A d \in Deliveries : \A e \in NewerOf(d) : e \in Deliveries
    BY DeliveriesAssumption DEF NewerOf
  <2>4. ASSUME NEW d \in Deliveries, NEW e \in NewerOf(d), mail'[e].status # "absent"
        PROVE  mail[d].status \in Ended
    BY <1>3, <2>1, <2>3, <2>4 DEF RepeatedEnded
  <2>5. \A d \in Deliveries : \A e \in NewerOf(d) : mail'[e].status # "absent" => mail'[d].status \in Ended
    BY <2>2, <2>4
  <2> QED
    BY <2>2, <2>5 DEF RepeatedEnded, NewerOf
<1>4. CASE Enqueue(x)
  <2>1. \A d \in Deliveries : x \notin NewerOf(d)
    BY <1>4 DEF Enqueue, Originals, NewerOf
  <2> QED
    BY <1>2, <1>3, <1>4, <2>1 DEF Enqueue
<1>5. CASE Resend(x)
  <2>1. ResendOf[x] \in Deliveries /\ mail[x].status \in Ended
    BY <1>5, DeliveriesAssumption DEF Resend, Resendable
  <2>2. \A d \in Deliveries : ResendOf[x] \in NewerOf(d) => d = x
    BY <2>1, RepetitionAssumption DEF NewerOf
  <2> QED
    BY <1>3, <1>5, <2>1, <2>2 DEF Resend
<1>6. CASE RetryFailed(x)
  <2>1. RetryOf[x] \in Deliveries /\ mail[x].status \in Ended
    BY <1>6, DeliveriesAssumption DEF RetryFailed
  <2>2. \A d \in Deliveries : RetryOf[x] \in NewerOf(d) => d = x
    BY <2>1, RepetitionAssumption DEF NewerOf
  <2> QED
    BY <1>3, <1>6, <2>1, <2>2 DEF RetryFailed
<1> QED
  BY <1>4, <1>5, <1>6

LEMMA RepeatedEndedKeeps ==
    ASSUME MailInv, QuickInv, [Next]_vars
    PROVE  RepeatedEnded'
<1>1. CASE \A d \in Deliveries : /\ mail[d].status \in Ended => mail'[d].status = mail[d].status
                                 /\ mail'[d].status # "absent" => mail[d].status # "absent"
  <2>1. \A d \in Deliveries : \A e \in NewerOf(d) : e \in Deliveries
    BY DeliveriesAssumption DEF NewerOf
  <2> QED
    BY <1>1, <2>1 DEF QuickInv, RepeatedEnded, Ended, NewerOf
<1> QED
  BY <1>1, VerdictsStand, RepetitionFollows DEF QuickInv

LEMMA QuickInvariance == ASSUME OutlivesStale = FALSE PROVE Spec => [](MailInv /\ QuickInv)
<1>1. Init => QuickInv
  <2> SUFFICES ASSUME Init PROVE QuickInv
    OBVIOUS
  <2>1. \A w \in Workers : pc[w] = "idle"
    BY DEF Init
  <2>2. \A d \in Deliveries : mail[d].status = "absent"
    <3>1. \A d \in Deliveries : mail[d] = MailRow("absent", 0, TRUE, FALSE)
      BY DEF Init
    <3> QED
      BY <3>1 DEF MailRow
  <2>3. \A d \in Deliveries : \A e \in NewerOf(d) : e \in Deliveries
    BY DeliveriesAssumption DEF NewerOf
  <2> QED
    BY <2>1, <2>2, <2>3 DEF QuickInv, Held, Attempts, Attempting, RepeatedEnded
<1>2. MailInv /\ QuickInv /\ [Next]_vars => QuickInv'
  <2> SUFFICES ASSUME MailInv, QuickInv, [Next]_vars PROVE QuickInv'
    OBVIOUS
  <2>1. Held'
    <3>1. CASE UNCHANGED vars
      BY <3>1 DEF vars, QuickInv, Held, Attempts, Delivery
    <3> QED
      BY <3>1, HeldKeeps DEF QuickInv
  <2> QED
    BY <2>1, RepeatedEndedKeeps DEF QuickInv
<1> QED
  BY <1>1, <1>2, MailInvariance, PTL DEF Spec

(* If every attempt ends within MAIL_SENDING_STALE_MS, a customer gets a     *)
(* mail and its repetition only if the outcome of the first was unclear when *)
(* staff, or the same business action, sent it again (outbox.ts).            *)
THEOREM TwiceOnlyIfUnclear == ASSUME OutlivesStale = FALSE PROVE Spec => []DoubleMailOnlyIfUnclear
<1>1. MailInv /\ QuickInv => DoubleMailOnlyIfUnclear
  <2> SUFFICES ASSUME MailInv, QuickInv, NEW d \in Deliveries, NEW e \in NewerOf(d),
                      accepted[d] = 1, accepted[e] = 1
               PROVE  mail[d].status = "outcome_unknown"
    BY DEF DoubleMailOnlyIfUnclear
  <2>1. e \in Deliveries
    BY DeliveriesAssumption DEF NewerOf
  <2>2. mail[e].status # "absent"
    BY <2>1 DEF MailInv, Accounted
  <2> QED
    BY <2>2 DEF MailInv, Accounted, QuickInv, RepeatedEnded, Ended
<1> QED
  BY <1>1, QuickInvariance, PTL

(* ... and then a row whose outcome is unknown is never written again: no    *)
(* worker, backstop or resend gives it another verdict.                      *)
THEOREM UnknownStands == ASSUME OutlivesStale = FALSE PROVE Spec => UnknownIsFinal
<1>1. MailInv /\ QuickInv /\ [Next]_vars
        => [\A d \in Deliveries : mail[d].status = "outcome_unknown"
                                => mail'[d].status = "outcome_unknown"]_vars
  BY VerdictsStand, RepetitionFollows DEF QuickInv, Ended
<1> QED
  BY <1>1, QuickInvariance, PTL DEF Spec, UnknownIsFinal

-----------------------------------------------------------------------------
(* The conversation (ChatInbox).                                             *)
States == {"received", "queued", "sent", "delivered", "read", "failed", "blocked"}
MessageRow ==
    [from : Letter \cup Wam \cup {"staff", "desk", "portal"}, mine : BOOLEAN, ignored : BOOLEAN,
     joined : Nat, anchor : Nat, scrubbed : BOOLEAN, aged : BOOLEAN, due : BOOLEAN,
     state : States, known : BOOLEAN, late : BOOLEAN]

\* a poll between two letters, or one that has dealt with a letter
ReadingOf(op) == [op : {op}, validity : Nat \ {0}, letters : Seq(Letter), uid : Nat]
Back == {NoVisit} \cup ReadingOf("handled")
Mend == [op : {"mend"}, at : Nat]
Mark == [validity : Nat \ {0}, last : Nat]
PollVisit == [op : {"poll"}, known : Mark]
StoreVisit == [op : {"store"}, m : Msg, mine : BOOLEAN, picture : BOOLEAN, begun : Nat, poll : ReadingOf("read")]
SweepVisit == [op : {"sweep"}, m : Msg, then : Back]
DeleteVisit == [op : {"delete"}, m : Msg \cup {None}, todo : SUBSET Msg, failed : BOOLEAN, then : Back \cup Mend]
GoneVisit == [op : {"gone"}, m : Msg, todo : SUBSET Msg, failed : BOOLEAN, then : Back \cup Mend]
Runs == {"picture", "fetch", "register", "discard", "done", "enqueue", "send", "sent"}
RunVisit == [op : Runs, m : Msg]
ClosedVisit == [op : {"closed"}, at : Nat]
CleanVisit == [op : {"clean"}, then : Mend]
BackstopVisit == [op : {"backstop"}]
ChatVisit == {NoVisit} \cup PollVisit \cup ReadingOf("read") \cup ReadingOf("handled") \cup StoreVisit
             \cup SweepVisit \cup DeleteVisit \cup GoneVisit \cup RunVisit \cup ClosedVisit
             \cup CleanVisit \cup BackstopVisit

Rows == MessageRow \cup {NoMessage}
Statuses == {"delivered", "read", "failed"}
HeardRow ==
    [m : Msg, status : Statuses, found : BOOLEAN, saw : States \cup {"written"}, crossed : BOOLEAN]

\* the statuses of an answer: who came alone leaves nothing of what was written before out
\* of sight, and nobody comes while it is on its way
Answered == {"sent", "delivered", "read", "failed"}
Alone(e, f) ==
    e # f /\ e.m = f.m /\ ~e.crossed /\ f.saw # "written" =>
        e.saw = "written" /\ (e.found /\ f.found => AsFar(f.saw, e.status))
Heard ==
    {h \in SUBSET HeardRow : /\ \A e \in h : e.found => e.saw \in Answered \cup {"written"}
                             /\ \A e, f \in h : Alone(e, f)}
InboxTyped ==
    /\ mailbox \in [validity : Nat \ {0}, letters : Seq(Letter)] /\ mark \in Mark
    /\ receipts \in SUBSET [validity : Nat \ {0}, uid : Nat, letter : Letter \cup {None}]
ChatTyped == chat \in [Msg -> Rows]
PhotoTyped == photo \in [Msg -> {"none", "live", "gone"}] /\ files \in SUBSET Msg
WhatsAppTyped ==
    /\ media \in [Msg -> Int] /\ sending \in [Msg -> Int] /\ handed \in [Msg -> Nat]
    /\ hook \in [Wam -> Msg \cup {None, "hashed"}]
    /\ heard \in SUBSET HeardRow /\ heard \in Heard
ProcessTyped ==
    /\ dossier \in Nat /\ moment \in Nat
    /\ closing \in SUBSET [at : Nat, left : Int] /\ cleared \in SUBSET Nat
ChatRowsTyped == InboxTyped /\ ChatTyped /\ PhotoTyped /\ WhatsAppTyped /\ ProcessTyped
Typed == visit \in [Clerk -> ChatVisit] /\ ChatRowsTyped

-----------------------------------------------------------------------------
(* What a request knows.                                                     *)

\* the letter u of the mailbox has a receipt
Noted(u) == \E r \in receipts : r.letter = mailbox.letters[u] \/ (r.validity = mailbox.validity /\ r.uid = u)
NotedTo(n) == n <= Len(mailbox.letters) /\ \A u \in 1..n : Noted(u)
\* the poll v reads what is in the mailbox, and has noted n letters
Reads(v, n) ==
    /\ v.validity = mailbox.validity /\ Len(v.letters) <= Len(mailbox.letters) /\ n <= Len(v.letters)
    /\ \A u \in 1..Len(v.letters) : v.letters[u] = mailbox.letters[u]
    /\ NotedTo(n)
PollKnows(v) ==
    /\ v.op = "poll" /\ v.known.validity = mailbox.validity => NotedTo(v.known.last)
    /\ v.op = "read" => Reads(v, v.uid)
    /\ v.op = "handled" => Reads(v, v.uid + 1)
    /\ v.op = "store" => Reads(v.poll, v.poll.uid)
    /\ v.op \in {"sweep", "delete", "gone"} /\ v.then.op = "handled" => Reads(v.then, v.then.uid + 1)

FetchOps == {"fetch", "register", "discard"}
IsWam(m) == chat[m].from \in Wam
IsStaff(m) == chat[m].from = "staff"
RunKnows(v) ==
    /\ v.op = "store" => ~Present(v.m) /\ (v.picture <=> v.m \in files) /\ v.poll.uid < Len(v.poll.letters)
    /\ v.op = "picture" => IsWam(v.m)
    /\ v.op \in FetchOps => IsWam(v.m) /\ photo[v.m] = "none"
    /\ v.op = "register" => v.m \in files

Past(at) == 0 < at /\ at < moment
TimeKnows(v) ==
    /\ v.op = "store" => v.begun <= moment
    /\ v.op = "closed" => Past(v.at)
    /\ v.op \in {"clean", "delete", "gone"} /\ v.then.op = "mend" => Past(v.then.at)

Deletable(m) == chat[m].aged \/ (chat[m].mine /\ (chat[m].late \/ chat[m].joined < moment))
DeleteKnows(v) ==
    /\ v.op \in {"delete", "gone"} => \A m \in v.todo : Present(m) /\ photo[m] # "none" /\ Deletable(m)
    /\ v.op = "gone" => Present(v.m) /\ v.m \notin files /\ photo[v.m] # "none" /\ Deletable(v.m)

\* the WhatsApp messages of the phase that was closed then
OfPhase(m, at) == IsWam(m) /\ JoinedBy(m, at)
MendKnows(v) ==
    /\ v.op = "clean" => \A m \in Msg : OfPhase(m, v.then.at) => chat[m].anchor # 0
    /\ v.op \in {"delete", "gone"} /\ v.then.op = "mend" =>
         \A m \in Msg : OfPhase(m, v.then.at) =>
            /\ chat[m].anchor # 0
            /\ v.failed \/ ~Live(m) \/ m \in v.todo \/ (v.op = "gone" /\ v.m = m)

SendOps == {"enqueue", "send", "sent"}
SendKnows(v) ==
    /\ v.op \in SendOps => IsStaff(v.m)
    /\ v.op = "send" /\ "crash" \notin mishap => handed[v.m] = 0

Knows(v) ==
    /\ "rebuilt" \notin mishap => PollKnows(v)
    /\ RunKnows(v) /\ TimeKnows(v) /\ DeleteKnows(v) /\ MendKnows(v) /\ SendKnows(v)

\* two requests never do one of these to the same message
ApartIn(ops) ==
    \A w, x \in Clerk : visit[w].op \in ops /\ visit[x].op \in ops /\ visit[w].m = visit[x].m => w = x
VisitsApart == ApartIn({"store"}) /\ ApartIn(FetchOps) /\ ApartIn({"send", "sent"})

-----------------------------------------------------------------------------
(* What the rows say.                                                        *)

MarkFits ==
    /\ mark.validity <= mailbox.validity
    /\ "rebuilt" \notin mishap /\ mark.validity = mailbox.validity => NotedTo(mark.last)

\* what has come is known by its receipt or its event
CameIn ==
    /\ \A m \in Msg : chat[m].from \in Letter => \E r \in receipts : r.letter = chat[m].from
    /\ \A m \in Msg : chat[m].from \in Wam => hook[chat[m].from] # None
    /\ \A x \in Wam : hook[x] \in Msg => chat[hook[x]].from = x
    /\ StoredOnce

PhotoFits ==
    /\ \A m \in Msg : photo[m] # "none" => Present(m)
    /\ \A m \in Msg : media[m] > 0 => IsWam(m)
    /\ \A m \in Msg : photo[m] = "gone" => m \notin files

ClosingFits ==
    /\ moment >= 1 /\ (dossier # 0 => dossier = moment - 1)
    /\ \A j \in closing : Past(j.at)
    /\ \A at \in cleared : Past(at)

RowFits(r) ==
    /\ r.joined <= moment /\ r.anchor < moment
    /\ r.anchor # 0 => r.mine
    /\ r.mine /\ IsClosed => r.late \/ r.joined < moment
JoinsFit == \A m \in Msg : Present(m) => RowFits(chat[m])

LossFits == \A m \in Msg : photo[m] = "gone" \/ (photo[m] = "live" /\ m \notin files) => Deletable(m)
PhasesFit == \A at \in cleared : \A m \in Msg : OfPhase(m, at) => chat[m].anchor # 0 /\ ~Live(m)

SendsFit == \A m \in Msg : handed[m] > 0 \/ sending[m] > 0 => IsStaff(m)
AnswerFits(m) ==
    /\ IsStaff(m) => chat[m].state \in {"queued"} \cup Answered
    /\ Present(m) /\ chat[m].known => IsStaff(m) /\ chat[m].state \in Answered
Says(e) ==
    e.found /\ ~e.crossed =>
        IF e.saw = "written" THEN AsFar(chat[e.m].state, e.status)
                             ELSE chat[e.m].state = e.saw /\ e.saw \in Answered
StatusFits == (\A m \in Msg : AnswerFits(m)) /\ (\A e \in heard : IsStaff(e.m) /\ Says(e))

\* what a file or an answer handed over has of its own: somebody who deals with it
HoldOps == {"store", "register", "discard"}
FilesFit ==
    mishap \subseteq {"rebuilt"} =>
        \A m \in files : Live(m) \/ \E w \in Clerk : visit[w].op \in HoldOps /\ visit[w].m = m
SentFits ==
    "crash" \notin mishap =>
        \A m \in Msg : /\ handed[m] <= 1
                       /\ handed[m] = 1 => ~Unsent(m) \/ \E w \in Clerk : visit[w].op = "sent" /\ visit[w].m = m

RowsFit == MarkFits /\ CameIn /\ PhotoFits /\ ClosingFits /\ JoinsFit /\ LossFits /\ PhasesFit /\ SendsFit /\ StatusFits
ChatInv ==
    /\ Typed /\ RowsFit /\ FilesFit /\ SentFits /\ VisitsApart
    /\ \A w \in Clerk : Knows(visit[w])

-----------------------------------------------------------------------------
(* Shapes.                                                                   *)

LEMMA VisitKinds ==
    ASSUME NEW r \in ChatVisit
    PROVE  /\ r.op = "poll" => r \in PollVisit
           /\ r.op = "read" => r \in ReadingOf("read")
           /\ r.op = "handled" => r \in ReadingOf("handled")
           /\ r.op = "store" => r \in StoreVisit
           /\ r.op = "sweep" => r \in SweepVisit
           /\ r.op = "delete" => r \in DeleteVisit
           /\ r.op = "gone" => r \in GoneVisit
           /\ r.op \in Runs => r \in RunVisit
           /\ r.op = "closed" => r \in ClosedVisit
           /\ r.op = "clean" => r \in CleanVisit
           /\ r.op \in {"none", "backstop"} \cup {"poll", "read", "handled", "store", "sweep", "delete", "gone", "closed", "clean"} \cup Runs
BY DEF ChatVisit, NoVisit, PollVisit, ReadingOf, StoreVisit, SweepVisit, DeleteVisit, GoneVisit, Runs, RunVisit,
       ClosedVisit, CleanVisit, BackstopVisit

\* the message a request deals with is one
LEMMA VisitOfMessage ==
    ASSUME NEW r \in ChatVisit, r.op \in {"store", "sweep", "gone"} \cup Runs
    PROVE  r.m \in Msg
<1>1. CASE r.op = "store" BY <1>1, VisitKinds DEF StoreVisit
<1>2. CASE r.op = "sweep" BY <1>2, VisitKinds DEF SweepVisit
<1>3. CASE r.op = "gone" BY <1>3, VisitKinds DEF GoneVisit
<1>4. CASE r.op \in Runs BY <1>4, VisitKinds DEF RunVisit
<1> QED BY <1>1, <1>2, <1>3, <1>4

LEMMA RowIs ==
    ASSUME NEW r \in Rows
    PROVE  /\ r # NoMessage <=> r \in MessageRow
           /\ r # NoMessage <=> r.from # None
           /\ r \in MessageRow => r.from \in Letter \cup Wam \cup {"staff", "desk", "portal"}
BY ChatAssumption DEF Rows, MessageRow, NoMessage

LEMMA SendersApart ==
    /\ \A f \in Wam : f \notin Letter /\ f \notin {None, "staff", "desk", "portal"}
    /\ \A f \in Letter : f \notin Wam /\ f \notin {None, "staff", "desk", "portal"}
    /\ None \notin {"staff", "desk", "portal", "hashed"}
BY ChatAssumption

LEMMA MessageIs ==
    ASSUME ChatTyped, NEW m \in Msg
    PROVE  /\ chat[m] \in Rows
           /\ Present(m) <=> chat[m] \in MessageRow
           /\ Present(m) <=> chat[m].from # None
           /\ IsWam(m) => Present(m) /\ ~IsStaff(m) /\ chat[m].from \notin Letter
           /\ IsStaff(m) => Present(m) /\ ~IsWam(m) /\ chat[m].from \notin Letter
           /\ Mine(m) <=> Present(m) /\ chat[m].mine
<1>1. chat[m] \in Rows BY DEF ChatTyped
<1> QED BY <1>1, RowIs, SendersApart DEF Present, IsWam, IsStaff, Mine

-----------------------------------------------------------------------------
(* What a step may do to the rows without making wrong what another request  *)
(* knows.                                                                    *)
MailboxGoesOn ==
    /\ mailbox'.validity = mailbox.validity
    /\ Len(mailbox.letters) <= Len(mailbox'.letters)
    /\ \A u \in 1..Len(mailbox.letters) : mailbox'.letters[u] = mailbox.letters[u]
RowGoesOn(m) ==
    /\ Present(m) => /\ Present(m)' /\ chat'[m].from = chat[m].from
                     /\ chat[m].mine => chat'[m].mine /\ chat'[m].late = chat[m].late
                                        /\ chat'[m].joined = chat[m].joined
                     /\ chat'[m].mine /\ ~chat[m].mine => chat'[m].joined = moment
                     /\ chat[m].aged => chat'[m].aged
                     /\ chat[m].anchor # 0 => chat'[m].anchor # 0
    /\ ~Present(m) /\ IsWam(m)' => chat'[m].joined = moment
PictureGoesOn(m) ==
    /\ photo[m] # "none" => photo'[m] # "none"
    /\ IsWam(m) /\ Live(m)' => Live(m) \/ chat[m].anchor = 0
OthersGoOn ==
    /\ mishap \subseteq mishap' /\ moment <= moment'
    /\ \A m \in Msg : RowGoesOn(m) /\ PictureGoesOn(m)
RowsGoOn ==
    /\ OthersGoOn /\ receipts \subseteq receipts'
    /\ "rebuilt" \notin mishap' => MailboxGoesOn
\* what is in the hands of the request v stays as it is
LeftAlone(v) ==
    /\ v.op = "store" => ~Present(v.m)' /\ (v.m \in files <=> v.m \in files')
    /\ v.op = "register" => v.m \in files'
    /\ v.op = "gone" => v.m \notin files'
    /\ v.op \in FetchOps => photo'[v.m] = "none"
    /\ v.op = "send" /\ "crash" \notin mishap' => handed'[v.m] = handed[v.m]

LEMMA NotedStays ==
    ASSUME Typed, RowsGoOn, "rebuilt" \notin mishap', NEW n \in Nat, NotedTo(n)
    PROVE  NotedTo(n)'
<1>1. MailboxGoesOn /\ receipts \subseteq receipts' BY DEF RowsGoOn
<1>2. Len(mailbox.letters) \in Nat BY DEF Typed, ChatRowsTyped, InboxTyped
<1>3. n <= Len(mailbox.letters) /\ \A u \in 1..n : Noted(u) BY DEF NotedTo
<1>4. \A u \in 1..n : u \in 1..Len(mailbox.letters) BY <1>2, <1>3
<1>5. \A u \in 1..n : Noted(u)'
  <2> SUFFICES ASSUME NEW u \in 1..n PROVE Noted(u)' OBVIOUS
  <2>1. mailbox'.letters[u] = mailbox.letters[u] /\ mailbox'.validity = mailbox.validity BY <1>1, <1>4 DEF MailboxGoesOn
  <2>2. Noted(u) BY <1>3
  <2> QED BY <1>1, <2>1, <2>2 DEF Noted
<1>6. Len(mailbox'.letters) >= n BY <1>1, <1>2, <1>3 DEF MailboxGoesOn
<1> QED BY <1>5, <1>6 DEF NotedTo

LEMMA ReadsStays ==
    ASSUME Typed, RowsGoOn, "rebuilt" \notin mishap', NEW v, NEW n \in Nat, v.letters \in Seq(Letter), Reads(v, n)
    PROVE  Reads(v, n)'
<1>1. MailboxGoesOn BY DEF RowsGoOn
<1>2. Len(mailbox.letters) \in Nat /\ Len(v.letters) \in Nat BY DEF Typed, ChatRowsTyped, InboxTyped
<1>3. NotedTo(n)' BY NotedStays DEF Reads
<1> QED BY <1>1, <1>2, <1>3 DEF Reads, MailboxGoesOn

LEMMA PollStays ==
    ASSUME Typed, RowsGoOn, "rebuilt" \notin mishap', NEW v \in ChatVisit, PollKnows(v)
    PROVE  PollKnows(v)'
<1>1. "rebuilt" \notin mishap /\ mailbox'.validity = mailbox.validity BY DEF RowsGoOn, OthersGoOn, MailboxGoesOn
<1>2. ASSUME v.op = "poll", v.known.validity = mailbox.validity PROVE NotedTo(v.known.last)'
  <2>1. v.known.last \in Nat BY <1>2, VisitKinds DEF PollVisit, Mark
  <2> QED BY <1>2, <2>1, NotedStays DEF PollKnows
<1>3. ASSUME v.op = "read" PROVE Reads(v, v.uid)'
  <2>1. v.uid \in Nat /\ v.letters \in Seq(Letter) BY <1>3, VisitKinds DEF ReadingOf
  <2> QED BY <1>3, <2>1, ReadsStays DEF PollKnows
<1>4. ASSUME v.op = "handled" PROVE Reads(v, v.uid + 1)'
  <2>1. v.uid + 1 \in Nat /\ v.letters \in Seq(Letter) BY <1>4, VisitKinds DEF ReadingOf
  <2> QED BY <1>4, <2>1, ReadsStays DEF PollKnows
<1>5. ASSUME v.op = "store" PROVE Reads(v.poll, v.poll.uid)'
  <2>1. v.poll \in ReadingOf("read") BY <1>5, VisitKinds DEF StoreVisit
  <2>2. v.poll.uid \in Nat /\ v.poll.letters \in Seq(Letter) BY <2>1 DEF ReadingOf
  <2> QED BY <1>5, <2>2, ReadsStays DEF PollKnows
<1>6. ASSUME v.op \in {"sweep", "delete", "gone"}, v.then.op = "handled" PROVE Reads(v.then, v.then.uid + 1)'
  <2>1. v.then \in ReadingOf("handled")
    <3>1. v.then \in Back \cup Mend BY <1>6, VisitKinds DEF SweepVisit, DeleteVisit, GoneVisit
    <3> QED BY <1>6, <3>1 DEF Back, Mend, NoVisit
  <2>2. v.then.uid + 1 \in Nat /\ v.then.letters \in Seq(Letter) BY <2>1 DEF ReadingOf
  <2> QED BY <1>6, <2>2, ReadsStays DEF PollKnows
<1> QED BY <1>1, <1>2, <1>3, <1>4, <1>5, <1>6 DEF PollKnows

LEMMA RunStays ==
    ASSUME Typed, OthersGoOn, NEW v \in ChatVisit, RunKnows(v), LeftAlone(v)
    PROVE  RunKnows(v)'
<1>1. ASSUME v.op \in {"picture"} \cup FetchOps PROVE IsWam(v.m)'
  <2>1. v.m \in Msg BY <1>1, VisitOfMessage DEF FetchOps, Runs
  <2>2. IsWam(v.m) BY <1>1 DEF RunKnows
  <2>3. chat'[v.m].from = chat[v.m].from BY <2>1, <2>2, MessageIs DEF Typed, ChatRowsTyped, OthersGoOn, RowGoesOn
  <2> QED BY <2>2, <2>3 DEF IsWam
<1>2. v.op \in FetchOps => photo'[v.m] = "none" BY DEF LeftAlone
<1>3. v.op = "register" => v.m \in files' BY DEF LeftAlone
<1>4. v.op = "store" => ~Present(v.m)' /\ (v.picture <=> v.m \in files') /\ v.poll.uid < Len(v.poll.letters)
  BY DEF LeftAlone, RunKnows
<1> QED BY <1>1, <1>2, <1>3, <1>4 DEF RunKnows

LEMMA PastStays ==
    ASSUME Typed, ChatRowsTyped', OthersGoOn, NEW at \in Nat, Past(at)
    PROVE  Past(at)'
BY DEF Typed, ChatRowsTyped, ProcessTyped, OthersGoOn, Past

LEMMA TimeStays ==
    ASSUME Typed, ChatRowsTyped', OthersGoOn, NEW v \in ChatVisit, TimeKnows(v)
    PROVE  TimeKnows(v)'
<1>1. ASSUME v.op = "store" PROVE v.begun <= moment'
  <2>1. v.begun \in Nat BY <1>1, VisitKinds DEF StoreVisit
  <2>2. moment \in Nat /\ moment' \in Nat /\ moment <= moment' /\ v.begun <= moment
    BY <1>1 DEF Typed, ChatRowsTyped, ProcessTyped, OthersGoOn, TimeKnows
  <2> QED BY <2>1, <2>2
<1>2. ASSUME v.op = "closed" PROVE Past(v.at)'
  <2>1. v.at \in Nat BY <1>2, VisitKinds DEF ClosedVisit
  <2> QED BY <1>2, <2>1, PastStays DEF TimeKnows
<1>3. ASSUME v.op \in {"clean", "delete", "gone"}, v.then.op = "mend" PROVE Past(v.then.at)'
  <2>1. v.then \in Back \cup Mend BY <1>3, VisitKinds DEF CleanVisit, DeleteVisit, GoneVisit
  <2>2. v.then.at \in Nat BY <1>3, <2>1 DEF Back, Mend, NoVisit, ReadingOf
  <2> QED BY <1>3, <2>2, PastStays DEF TimeKnows
<1> QED BY <1>1, <1>2, <1>3 DEF TimeKnows

LEMMA DeletableStays ==
    ASSUME Typed, ChatRowsTyped', OthersGoOn, NEW m \in Msg, Present(m), Deletable(m)
    PROVE  Deletable(m)' /\ Present(m)'
<1>1. RowGoesOn(m) /\ moment <= moment' BY DEF OthersGoOn
<1>2. chat[m] \in MessageRow BY MessageIs DEF Typed, ChatRowsTyped
<1>3. chat[m].joined \in Nat /\ moment \in Nat /\ moment' \in Nat
  BY <1>2 DEF MessageRow, Typed, ChatRowsTyped, ProcessTyped
<1>4. CASE chat[m].aged BY <1>1, <1>4 DEF RowGoesOn, Deletable
<1>5. CASE chat[m].mine /\ chat[m].late BY <1>1, <1>5 DEF RowGoesOn, Deletable
<1>6. CASE chat[m].mine /\ chat[m].joined < moment
  <2>1. chat'[m].mine BY <1>1, <1>6 DEF RowGoesOn
  <2>2. chat'[m].joined = chat[m].joined BY <1>1, <1>6 DEF RowGoesOn
  <2>3. chat'[m].joined < moment' BY <1>1, <1>3, <1>6, <2>2
  <2>4. Present(m)' BY <1>1 DEF RowGoesOn
  <2> QED BY <2>1, <2>3, <2>4 DEF Deletable
<1> QED BY <1>4, <1>5, <1>6 DEF Deletable

LEMMA DeleteStays ==
    ASSUME Typed, ChatRowsTyped', OthersGoOn, NEW v \in ChatVisit, DeleteKnows(v), LeftAlone(v)
    PROVE  DeleteKnows(v)'
<1>1. ASSUME v.op \in {"delete", "gone"}, NEW m \in v.todo PROVE Present(m)' /\ photo'[m] # "none" /\ Deletable(m)'
  <2>1. m \in Msg BY <1>1, VisitKinds DEF DeleteVisit, GoneVisit
  <2>2. Present(m) /\ photo[m] # "none" /\ Deletable(m) BY <1>1 DEF DeleteKnows
  <2>3. photo'[m] # "none" BY <2>1, <2>2 DEF OthersGoOn, PictureGoesOn
  <2> QED BY <2>1, <2>2, <2>3, DeletableStays
<1>2. ASSUME v.op = "gone" PROVE Present(v.m)' /\ v.m \notin files' /\ photo'[v.m] # "none" /\ Deletable(v.m)'
  <2>1. v.m \in Msg BY <1>2, VisitOfMessage
  <2>2. Present(v.m) /\ photo[v.m] # "none" /\ Deletable(v.m) BY <1>2 DEF DeleteKnows
  <2>3. photo'[v.m] # "none" BY <2>1, <2>2 DEF OthersGoOn, PictureGoesOn
  <2>4. v.m \notin files' BY <1>2 DEF LeftAlone
  <2> QED BY <2>1, <2>2, <2>3, <2>4, DeletableStays
<1> QED BY <1>1, <1>2 DEF DeleteKnows

(* A message of a closed phase was one before.                               *)
LEMMA PhaseStays ==
    ASSUME Typed, ChatRowsTyped', OthersGoOn, NEW m \in Msg, NEW at \in Nat, Past(at), OfPhase(m, at)'
    PROVE  /\ OfPhase(m, at)
           /\ chat[m].anchor # 0 => chat'[m].anchor # 0
           /\ chat[m].anchor # 0 /\ Live(m)' => Live(m)
<1>1. RowGoesOn(m) /\ PictureGoesOn(m) BY DEF OthersGoOn
<1>2. IsWam(m)' /\ chat'[m].mine /\ chat'[m].joined <= at BY DEF OfPhase, JoinedBy, Mine
<1>3. at < moment BY DEF Past
<1>4. moment \in Nat BY DEF Typed, ChatRowsTyped, ProcessTyped
<1>5. chat'[m].joined # moment BY <1>2, <1>3, <1>4
<1>6. Present(m) BY <1>1, <1>2, <1>5 DEF RowGoesOn
<1>7. chat[m].mine BY <1>1, <1>2, <1>5, <1>6 DEF RowGoesOn
<1>8. chat'[m].joined = chat[m].joined /\ chat'[m].from = chat[m].from BY <1>1, <1>6, <1>7 DEF RowGoesOn
<1>9. IsWam(m) BY <1>2, <1>8 DEF IsWam
<1>10. OfPhase(m, at) BY <1>2, <1>6, <1>7, <1>8, <1>9 DEF OfPhase, JoinedBy, Mine
<1>11. chat[m].anchor # 0 => chat'[m].anchor # 0 BY <1>1, <1>6 DEF RowGoesOn
<1>12. chat[m].anchor # 0 /\ Live(m)' => Live(m) BY <1>1, <1>9 DEF PictureGoesOn
<1> QED BY <1>10, <1>11, <1>12

LEMMA MendStays ==
    ASSUME Typed, ChatRowsTyped', OthersGoOn, NEW v \in ChatVisit, MendKnows(v), TimeKnows(v)
    PROVE  MendKnows(v)'
<1>1. ASSUME v.op \in {"clean", "delete", "gone"}, v.then.op = "mend" PROVE v.then.at \in Nat /\ Past(v.then.at)
  <2>1. v.then \in Back \cup Mend BY <1>1, VisitKinds DEF CleanVisit, DeleteVisit, GoneVisit
  <2>2. v.then.at \in Nat BY <1>1, <2>1 DEF Back, Mend, NoVisit, ReadingOf
  <2> QED BY <1>1, <2>2 DEF TimeKnows
<1>2. ASSUME v.op = "clean", NEW m \in Msg, OfPhase(m, v.then.at)' PROVE chat'[m].anchor # 0
  <2>1. v.then.op = "mend" BY <1>2, VisitKinds DEF CleanVisit, Mend
  <2> QED BY <1>1, <1>2, <2>1, PhaseStays DEF MendKnows
<1>3. ASSUME v.op \in {"delete", "gone"}, v.then.op = "mend", NEW m \in Msg, OfPhase(m, v.then.at)'
      PROVE  /\ chat'[m].anchor # 0
             /\ v.failed \/ ~Live(m)' \/ m \in v.todo \/ (v.op = "gone" /\ v.m = m)
  <2>1. OfPhase(m, v.then.at) /\ (chat[m].anchor # 0 => chat'[m].anchor # 0)
        /\ (chat[m].anchor # 0 /\ Live(m)' => Live(m))
    BY <1>1, <1>3, PhaseStays
  <2>2. /\ chat[m].anchor # 0
        /\ v.failed \/ ~Live(m) \/ m \in v.todo \/ (v.op = "gone" /\ v.m = m)
    BY <1>3, <2>1 DEF MendKnows
  <2> QED BY <2>1, <2>2
<1> QED BY <1>2, <1>3 DEF MendKnows

LEMMA SendStays ==
    ASSUME Typed, OthersGoOn, NEW v \in ChatVisit, SendKnows(v), LeftAlone(v)
    PROVE  SendKnows(v)'
<1>1. ASSUME v.op \in SendOps PROVE IsStaff(v.m)'
  <2>1. v.m \in Msg BY <1>1, VisitOfMessage DEF SendOps, Runs
  <2>2. IsStaff(v.m) BY <1>1 DEF SendKnows
  <2>3. chat'[v.m].from = chat[v.m].from BY <2>1, <2>2, MessageIs DEF Typed, ChatRowsTyped, OthersGoOn, RowGoesOn
  <2> QED BY <2>2, <2>3 DEF IsStaff
<1>2. v.op = "send" /\ "crash" \notin mishap' => handed'[v.m] = 0 BY DEF LeftAlone, SendKnows, OthersGoOn
<1> QED BY <1>1, <1>2 DEF SendKnows

LEMMA KnowsStays ==
    ASSUME Typed, ChatRowsTyped', RowsGoOn, NEW v \in ChatVisit, Knows(v), LeftAlone(v)
    PROVE  Knows(v)'
<1>0. OthersGoOn BY DEF RowsGoOn
<1>1. "rebuilt" \notin mishap' => PollKnows(v)' BY <1>0, PollStays DEF Knows, OthersGoOn
<1> QED BY <1>0, <1>1, RunStays, TimeStays, DeleteStays, MendStays, SendStays DEF Knows

-----------------------------------------------------------------------------
(* What the rows say stays true of rows that are not touched.                *)
FromKept == \A m \in Msg : chat'[m].from = chat[m].from
ComesAlone(w, r) ==
    \A x \in Clerk \ {w} :
        /\ r.op = "store" /\ visit[x].op = "store" => visit[x].m # r.m
        /\ r.op \in FetchOps /\ visit[x].op \in FetchOps => visit[x].m # r.m
        /\ r.op \in {"send", "sent"} /\ visit[x].op \in {"send", "sent"} => visit[x].m # r.m
\* whoever deals with a file or an answer goes on dealing with it, unless it
\* breaks off
HoldsFile(w, r) ==
    visit[w].op \in HoldOps => "crash" \in mishap' \/ (r.op \in HoldOps /\ r.m = visit[w].m)
HoldsAnswer(w, r) ==
    visit[w].op = "sent" => "crash" \in mishap' \/ (r.op = "sent" /\ r.m = visit[w].m)
                            \/ chat'[visit[w].m].state # "queued"
HoldsOn(w, r) == HoldsFile(w, r) /\ HoldsAnswer(w, r)

LEMMA PresentKept ==
    ASSUME Typed, ChatTyped', FromKept, NEW m \in Msg
    PROVE  /\ Present(m)' <=> Present(m)
           /\ IsWam(m)' <=> IsWam(m)
           /\ IsStaff(m)' <=> IsStaff(m)
<1>1. chat[m] \in Rows /\ chat'[m] \in Rows BY DEF Typed, ChatRowsTyped, ChatTyped
<1>2. chat'[m].from = chat[m].from BY DEF FromKept
<1> QED BY <1>1, <1>2, RowIs DEF Present, IsWam, IsStaff

LEMMA MarkRests ==
    ASSUME Typed, MarkFits, RowsGoOn, UNCHANGED <<mailbox, mark>>
    PROVE  MarkFits'
<1>1. mark.last \in Nat BY DEF Typed, ChatRowsTyped, InboxTyped, Mark
<1>2. "rebuilt" \notin mishap' => "rebuilt" \notin mishap BY DEF RowsGoOn, OthersGoOn
<1> QED BY <1>1, <1>2, NotedStays DEF MarkFits

LEMMA CameRests ==
    ASSUME Typed, ChatTyped', CameIn, FromKept, receipts \subseteq receipts', UNCHANGED hook
    PROVE  CameIn'
<1>1. \A m \in Msg : chat'[m].from = chat[m].from /\ (Present(m)' <=> Present(m)) /\ (Inbound(m)' <=> Inbound(m))
  BY PresentKept DEF FromKept, Inbound
<1>2. StoredOnce' BY <1>1 DEF CameIn, StoredOnce
<1>3. \A m \in Msg : chat'[m].from \in Letter => \E r \in receipts' : r.letter = chat'[m].from BY <1>1 DEF CameIn
<1>4. \A m \in Msg : chat'[m].from \in Wam => hook'[chat'[m].from] # None BY <1>1 DEF CameIn
<1>5. \A x \in Wam : hook'[x] \in Msg => chat'[hook'[x]].from = x BY <1>1 DEF CameIn
<1> QED BY <1>2, <1>3, <1>4, <1>5 DEF CameIn

LEMMA PhotoRests ==
    ASSUME Typed, ChatTyped', PhotoFits, FromKept, UNCHANGED photoRows, \A m \in Msg : media'[m] > 0 => IsWam(m)
    PROVE  PhotoFits'
BY PresentKept DEF PhotoFits, photoRows

LEMMA LossRests ==
    ASSUME Typed, ChatRowsTyped', OthersGoOn, PhotoFits, LossFits, UNCHANGED photoRows
    PROVE  LossFits'
<1> SUFFICES ASSUME NEW m \in Msg, photo'[m] = "gone" \/ (photo'[m] = "live" /\ m \notin files') PROVE Deletable(m)'
  BY DEF LossFits
<1>1. photo[m] = "gone" \/ (photo[m] = "live" /\ m \notin files) BY DEF photoRows
<1>2. Present(m) /\ Deletable(m) BY <1>1 DEF PhotoFits, LossFits
<1> QED BY <1>2, DeletableStays

LEMMA PhasesRest ==
    ASSUME Typed, ChatRowsTyped', OthersGoOn, ClosingFits, PhasesFit, UNCHANGED cleared
    PROVE  PhasesFit'
<1> SUFFICES ASSUME NEW at \in cleared, NEW m \in Msg, OfPhase(m, at)' PROVE chat'[m].anchor # 0 /\ ~Live(m)'
  BY DEF PhasesFit
<1>1. at \in Nat /\ Past(at) BY DEF ClosingFits, Typed, ChatRowsTyped, ProcessTyped
<1>2. OfPhase(m, at) /\ (chat[m].anchor # 0 => chat'[m].anchor # 0) /\ (chat[m].anchor # 0 /\ Live(m)' => Live(m))
  BY <1>1, PhaseStays
<1>3. chat[m].anchor # 0 /\ ~Live(m) BY <1>2 DEF PhasesFit
<1> QED BY <1>2, <1>3

LEMMA SendsRest ==
    ASSUME Typed, ChatTyped', FromKept, \A m \in Msg : handed'[m] > 0 \/ sending'[m] > 0 => IsStaff(m)
    PROVE  SendsFit'
BY PresentKept DEF SendsFit

LEMMA ApartKept ==
    ASSUME Typed, NEW ops, ApartIn(ops), NEW w \in Clerk, NEW r, visit' = [visit EXCEPT ![w] = r],
           \A x \in Clerk \ {w} : r.op \in ops /\ visit[x].op \in ops => visit[x].m # r.m
    PROVE  ApartIn(ops)'
<1>1. visit'[w] = r /\ \A x \in Clerk \ {w} : visit'[x] = visit[x] BY DEF Typed
<1> SUFFICES ASSUME NEW a \in Clerk, NEW b \in Clerk, visit'[a].op \in ops, visit'[b].op \in ops,
                    visit'[a].m = visit'[b].m
             PROVE a = b
  BY DEF ApartIn
<1>2. CASE a # w /\ b # w BY <1>1, <1>2 DEF ApartIn
<1>3. CASE a = w /\ b # w BY <1>1, <1>3
<1>4. CASE b = w /\ a # w BY <1>1, <1>4
<1> QED BY <1>2, <1>3, <1>4

LEMMA VisitsStayApart ==
    ASSUME Typed, VisitsApart, NEW w \in Clerk, NEW r, visit' = [visit EXCEPT ![w] = r], ComesAlone(w, r)
    PROVE  VisitsApart'
<1>1. ApartIn({"store"})' BY ApartKept DEF VisitsApart, ComesAlone
<1>2. ApartIn(FetchOps)' BY ApartKept DEF VisitsApart, ComesAlone
<1>3. ApartIn({"send", "sent"})' BY ApartKept DEF VisitsApart, ComesAlone
<1> QED BY <1>1, <1>2, <1>3 DEF VisitsApart, FetchOps

\* what a request went on with was its own
LEMMA StaysAlone ==
    ASSUME VisitsApart, NEW w \in Clerk, NEW r, r.m = visit[w].m,
           \/ r.op = "store" /\ visit[w].op = "store"
           \/ r.op \in FetchOps /\ visit[w].op \in FetchOps
           \/ r.op \in {"send", "sent"} /\ visit[w].op \in {"send", "sent"}
    PROVE  ComesAlone(w, r)
BY DEF VisitsApart, ApartIn, ComesAlone, FetchOps

LEMMA QuietComesAlone ==
    ASSUME NEW w \in Clerk, NEW r, r.op \notin {"store", "send", "sent"} \cup FetchOps
    PROVE  ComesAlone(w, r)
BY DEF ComesAlone

LEMMA FilesRest ==
    ASSUME Typed, FilesFit, UNCHANGED photoRows, mishap \subseteq mishap', NEW w \in Clerk, NEW r,
           visit' = [visit EXCEPT ![w] = r], HoldsFile(w, r)
    PROVE  FilesFit'
<1> SUFFICES ASSUME mishap' \subseteq {"rebuilt"}, NEW m \in files', ~Live(m)'
             PROVE \E x \in Clerk : visit'[x].op \in HoldOps /\ visit'[x].m = m
  BY DEF FilesFit
<1>1. mishap \subseteq {"rebuilt"} /\ "crash" \notin mishap' /\ m \in files /\ ~Live(m) BY DEF photoRows, Live
<1>2. PICK x \in Clerk : visit[x].op \in HoldOps /\ visit[x].m = m BY <1>1 DEF FilesFit
<1>3. CASE x = w
  <2>1. r.op \in HoldOps /\ r.m = m BY <1>1, <1>2, <1>3 DEF HoldsFile
  <2>2. visit'[w] = r BY DEF Typed
  <2> QED BY <2>1, <2>2
<1>4. CASE x # w
  <2>1. visit'[x] = visit[x] BY <1>4 DEF Typed
  <2> QED BY <1>2, <2>1
<1> QED BY <1>3, <1>4

LEMMA SentRests ==
    ASSUME Typed, SentFits, SendsFit, ChatTyped', UNCHANGED handed, mishap \subseteq mishap', NEW w \in Clerk, NEW r,
           visit' = [visit EXCEPT ![w] = r],
           \A m \in Msg : IsStaff(m) /\ ~Unsent(m) => ~Unsent(m)', HoldsAnswer(w, r)
    PROVE  SentFits'
<1> SUFFICES ASSUME "crash" \notin mishap', NEW m \in Msg
             PROVE /\ handed[m] <= 1
                   /\ handed[m] = 1 => ~Unsent(m)' \/ \E x \in Clerk : visit'[x].op = "sent" /\ visit'[x].m = m
  BY DEF SentFits
<1>1. /\ handed[m] <= 1
      /\ handed[m] = 1 => ~Unsent(m) \/ \E x \in Clerk : visit[x].op = "sent" /\ visit[x].m = m
  BY DEF SentFits
<1> SUFFICES ASSUME handed[m] = 1, Unsent(m)' PROVE \E x \in Clerk : visit'[x].op = "sent" /\ visit'[x].m = m
  BY <1>1
<1>2. IsStaff(m) BY DEF SendsFit
<1>3. PICK x \in Clerk : visit[x].op = "sent" /\ visit[x].m = m BY <1>1, <1>2
<1>4. CASE x = w
  <2>1. chat'[m].state = "queued" BY DEF Unsent
  <2>2. r.op = "sent" /\ r.m = m BY <1>3, <1>4, <2>1 DEF HoldsAnswer
  <2>3. visit'[w] = r BY DEF Typed
  <2> QED BY <2>2, <2>3
<1>5. CASE x # w
  <2>1. visit'[x] = visit[x] BY <1>5 DEF Typed
  <2> QED BY <1>3, <2>1
<1> QED BY <1>4, <1>5

-----------------------------------------------------------------------------
(* Steps of one request.                                                     *)
LEMMA RequestSteps ==
    ASSUME ChatInv, NEW w \in Clerk, NEW r \in ChatVisit, visit' = [visit EXCEPT ![w] = r], ChatRowsTyped', RowsGoOn,
           \A x \in Clerk \ {w} : \A v \in ChatVisit : v = visit[x] => LeftAlone(v),
           Knows(r)', ComesAlone(w, r), RowsFit', FilesFit', SentFits'
    PROVE  ChatInv'
<1>1. Typed' BY DEF ChatInv, Typed
<1>2. visit'[w] = r /\ \A x \in Clerk \ {w} : visit'[x] = visit[x] /\ visit[x] \in ChatVisit BY DEF ChatInv, Typed
<1>3. Knows(visit[w])' BY <1>2 DEF Knows, PollKnows, RunKnows, TimeKnows, DeleteKnows, MendKnows, SendKnows
<1>4. ASSUME NEW x \in Clerk \ {w} PROVE Knows(visit[x])'
  <2>1. PICK v \in ChatVisit : v = visit[x] BY <1>2
  <2>2. Knows(v) /\ LeftAlone(v) BY <2>1 DEF ChatInv
  <2>3. Knows(v)' BY <2>2, KnowsStays DEF ChatInv
  <2>4. visit'[x] = v BY <1>2, <2>1
  <2> QED BY <2>3, <2>4 DEF Knows, PollKnows, RunKnows, TimeKnows, DeleteKnows, MendKnows, SendKnows
<1>5. VisitsApart' BY VisitsStayApart DEF ChatInv
<1> QED BY <1>1, <1>3, <1>4, <1>5 DEF ChatInv

(* Nobody deals with what is not touched.                                    *)
LEMMA Untouched ==
    ASSUME ChatInv, ChatRowsTyped', FromKept, UNCHANGED photoRows, NEW v \in ChatVisit, Knows(v),
           v.op = "send" /\ "crash" \notin mishap' => handed'[v.m] = handed[v.m]
    PROVE  LeftAlone(v)
<1>1. v.op = "store" => v.m \in Msg BY VisitOfMessage
<1>2. v.op = "store" => ~Present(v.m)' BY <1>1, PresentKept DEF Knows, RunKnows, ChatInv, ChatRowsTyped
<1> QED BY <1>2 DEF LeftAlone, Knows, RunKnows, DeleteKnows, photoRows

(* A step that touches no picture, no process and no new message.            *)
LEMMA CalmMoves ==
    ASSUME ChatInv, ChatRowsTyped', RowsGoOn, UNCHANGED <<dossier, moment, cleared, photoRows, hook>>, FromKept,
           \A j \in closing' : Past(j.at), MarkFits', JoinsFit', StatusFits', SentFits',
           \A m \in Msg : media'[m] > 0 => IsWam(m),
           \A m \in Msg : handed'[m] > 0 \/ sending'[m] > 0 => IsStaff(m),
           NEW w \in Clerk, NEW r \in ChatVisit, visit' = [visit EXCEPT ![w] = r],
           Knows(r)', ComesAlone(w, r), HoldsOn(w, r),
           \A x \in Clerk \ {w} : visit[x].op = "send" /\ "crash" \notin mishap' =>
                                    handed'[visit[x].m] = handed[visit[x].m]
    PROVE  ChatInv'
<1>1. Typed /\ RowsFit /\ ChatTyped' /\ OthersGoOn /\ mishap \subseteq mishap'
  BY DEF ChatInv, ChatRowsTyped, RowsGoOn, OthersGoOn
<1>2. CameIn' BY <1>1, CameRests DEF RowsFit, RowsGoOn
<1>3. PhotoFits' BY <1>1, PhotoRests DEF RowsFit
<1>4. ClosingFits' BY <1>1 DEF RowsFit, ClosingFits, Past
<1>5. LossFits' BY <1>1, LossRests DEF RowsFit
<1>6. PhasesFit' BY <1>1, PhasesRest DEF RowsFit
<1>7. SendsFit' BY <1>1, SendsRest
<1>8. FilesFit' BY <1>1, FilesRest DEF ChatInv, HoldsOn
<1>9. ASSUME NEW x \in Clerk \ {w}, NEW v \in ChatVisit, v = visit[x] PROVE LeftAlone(v)
  <2>1. Knows(v) BY <1>9 DEF ChatInv
  <2>2. v.op = "send" /\ "crash" \notin mishap' => handed'[v.m] = handed[v.m] BY <1>9
  <2> QED BY <2>1, <2>2, Untouched
<1>10. RowsFit' BY <1>2, <1>3, <1>4, <1>5, <1>6, <1>7 DEF RowsFit
<1> QED BY <1>8, <1>9, <1>10, RequestSteps

LEMMA RowsRest ==
    ASSUME Typed, UNCHANGED chat
    PROVE  FromKept /\ \A m \in Msg : RowGoesOn(m)
<1>1. \A m \in Msg : ~Present(m) => ~IsWam(m)' BY MessageIs DEF Typed, ChatRowsTyped, IsWam
<1> QED BY <1>1 DEF FromKept, RowGoesOn, Present

LEMMA PicturesRest ==
    ASSUME UNCHANGED photo
    PROVE  \A m \in Msg : PictureGoesOn(m)
BY DEF PictureGoesOn, Live

(* The mailbox goes on, and a request.                                       *)
LEMMA InboxMoves ==
    ASSUME ChatInv, UNCHANGED <<chat, processRows, photoRows, whatsAppRows>>, InboxTyped', MarkFits',
           mishap \subseteq mishap', receipts \subseteq receipts', "rebuilt" \notin mishap' => MailboxGoesOn,
           NEW w \in Clerk, NEW r \in ChatVisit, visit' = [visit EXCEPT ![w] = r],
           Knows(r)', ComesAlone(w, r), HoldsOn(w, r)
    PROVE  ChatInv'
<1>1. ChatRowsTyped' /\ ChatRowsTyped
  BY DEF ChatInv, Typed, ChatRowsTyped, ChatTyped, PhotoTyped, WhatsAppTyped, ProcessTyped,
         processRows, photoRows, whatsAppRows
<1>2. FromKept /\ \A m \in Msg : RowGoesOn(m) /\ PictureGoesOn(m) BY RowsRest, PicturesRest DEF ChatInv, photoRows
<1>3. RowsGoOn
  <2>1. moment \in Nat /\ moment' = moment BY <1>1 DEF ChatRowsTyped, ProcessTyped, processRows
  <2> QED BY <1>2, <2>1 DEF RowsGoOn, OthersGoOn
<1>4. JoinsFit' BY DEF ChatInv, RowsFit, JoinsFit, RowFits, Present, IsClosed, processRows
<1>5. StatusFits' BY DEF ChatInv, RowsFit, StatusFits, AnswerFits, Says, IsStaff, Present, whatsAppRows
<1>6. SentFits'
  <2>1. \A m \in Msg : ~Unsent(m) => ~Unsent(m)' BY DEF Unsent
  <2> QED BY <1>1, <2>1, SentRests DEF HoldsOn, ChatInv, RowsFit, ChatRowsTyped, whatsAppRows
<1>7. /\ \A m \in Msg : media'[m] > 0 => IsWam(m)
      /\ \A m \in Msg : handed'[m] > 0 \/ sending'[m] > 0 => IsStaff(m)
      /\ handed' = handed /\ hook' = hook
  BY DEF ChatInv, RowsFit, PhotoFits, SendsFit, whatsAppRows
<1>8. UNCHANGED <<dossier, moment, cleared>> /\ \A j \in closing' : Past(j.at)
  BY DEF ChatInv, RowsFit, ClosingFits, processRows
<1> QED BY <1>1, <1>2, <1>3, <1>4, <1>5, <1>6, <1>7, <1>8, CalmMoves

(* Only the request goes on.                                                 *)
LEMMA VisitMoves ==
    ASSUME ChatInv, UNCHANGED <<inboxRows, chat, processRows, photoRows, whatsAppRows>>, mishap \subseteq mishap',
           NEW w \in Clerk, NEW r \in ChatVisit, visit' = [visit EXCEPT ![w] = r],
           Knows(r), ComesAlone(w, r), HoldsOn(w, r)
    PROVE  ChatInv'
<1>1. ChatRowsTyped' /\ ChatRowsTyped
  BY DEF ChatInv, Typed, ChatRowsTyped, InboxTyped, ChatTyped, PhotoTyped, WhatsAppTyped, ProcessTyped, inboxRows,
         processRows, photoRows, whatsAppRows
<1>2. FromKept /\ \A m \in Msg : RowGoesOn(m) /\ PictureGoesOn(m) BY RowsRest, PicturesRest DEF ChatInv, photoRows
<1>3. MailboxGoesOn /\ receipts' = receipts BY DEF MailboxGoesOn, inboxRows
<1>4. RowsGoOn
  <2>1. moment \in Nat /\ moment' = moment BY <1>1 DEF ChatRowsTyped, ProcessTyped, processRows
  <2> QED BY <1>2, <1>3, <2>1 DEF RowsGoOn, OthersGoOn
<1>5. MarkFits' BY <1>4, MarkRests DEF ChatInv, RowsFit, inboxRows
<1>6. handed' = handed BY DEF whatsAppRows
<1>7. LeftAlone(r) BY <1>1, <1>2, <1>6, Untouched
<1>8. Knows(r)' BY <1>1, <1>4, <1>7, KnowsStays DEF ChatInv
<1> QED BY <1>1, <1>3, <1>5, <1>8, InboxMoves DEF ChatRowsTyped

(* Pictures come and go, and a request goes on.                              *)
LEMMA PictureMoves ==
    ASSUME ChatInv, UNCHANGED <<inboxRows, chat, processRows, hook, heard, sending, handed>>, PhotoTyped',
           media' \in [Msg -> Int], mishap \subseteq mishap', \A m \in Msg : PictureGoesOn(m),
           PhotoFits', LossFits', FilesFit',
           NEW w \in Clerk, NEW r \in ChatVisit, visit' = [visit EXCEPT ![w] = r],
           Knows(r)', ComesAlone(w, r), HoldsAnswer(w, r),
           \A x \in Clerk \ {w} : \A v \in ChatVisit : v = visit[x] => LeftAlone(v)
    PROVE  ChatInv'
<1>1. ChatRowsTyped' /\ ChatRowsTyped /\ Typed /\ RowsFit
  BY DEF ChatInv, Typed, ChatRowsTyped, InboxTyped, ChatTyped, PhotoTyped, WhatsAppTyped, ProcessTyped, inboxRows, processRows
<1>2. FromKept /\ \A m \in Msg : RowGoesOn(m) BY <1>1, RowsRest
<1>3. RowsGoOn /\ OthersGoOn
  <2>1. moment \in Nat /\ moment' = moment BY <1>1 DEF ChatRowsTyped, ProcessTyped, processRows
  <2>2. MailboxGoesOn /\ receipts' = receipts BY DEF MailboxGoesOn, inboxRows
  <2> QED BY <1>2, <2>1, <2>2 DEF RowsGoOn, OthersGoOn
<1>4. MarkFits' BY <1>1, <1>3, MarkRests DEF RowsFit, inboxRows
<1>5. CameIn' BY <1>1, <1>2, CameRests DEF RowsFit, ChatRowsTyped, inboxRows
<1>6. ClosingFits' BY <1>1 DEF RowsFit, ClosingFits, processRows, Past
<1>7. JoinsFit' BY <1>1 DEF RowsFit, JoinsFit, RowFits, Present, IsClosed, processRows
<1>8. PhasesFit' BY <1>1, <1>3, PhasesRest DEF RowsFit, processRows
<1>9. SendsFit' BY <1>1, <1>2, SendsRest DEF RowsFit, SendsFit, ChatRowsTyped
<1>10. StatusFits' BY <1>1 DEF RowsFit, StatusFits, AnswerFits, Says, IsStaff, Present
<1>11. RowsFit' BY <1>4, <1>5, <1>6, <1>7, <1>8, <1>9, <1>10 DEF RowsFit
<1>12. SentFits'
  <2>1. \A m \in Msg : ~Unsent(m) => ~Unsent(m)' BY DEF Unsent
  <2> QED BY <1>1, <2>1, SentRests DEF ChatInv, RowsFit, ChatRowsTyped
<1> QED BY <1>1, <1>3, <1>11, <1>12, RequestSteps

-----------------------------------------------------------------------------
(* Requests that only look.                                                  *)

LEMMA QuietKnows ==
    ASSUME NEW r, r.op \in {"none", "backstop"}
    PROVE  Knows(r)
BY DEF Knows, PollKnows, RunKnows, TimeKnows, DeleteKnows, MendKnows, SendKnows, FetchOps, SendOps

LEMMA NoVisitIsQuiet == NoVisit \in ChatVisit /\ NoVisit.op = "none"
BY DEF NoVisit, ChatVisit

\* whoever does none of these holds nothing
LEMMA HoldsNothing ==
    ASSUME NEW w \in Clerk, NEW r, visit[w].op \notin HoldOps \cup {"sent"}
    PROVE  HoldsOn(w, r)
BY DEF HoldsOn, HoldsFile, HoldsAnswer

LEMMA BeginsIdle ==
    ASSUME Typed, NEW w \in Clerk, NEW r, Begin(w, r)
    PROVE  visit' = [visit EXCEPT ![w] = r] /\ HoldsOn(w, r) /\ visit[w].op = "none"
BY HoldsNothing DEF Begin, NoVisit, HoldOps

LEMMA PollBeginsMoves ==
    ASSUME ChatInv, NEW w \in Clerk, PollBegins(w)
    PROVE  ChatInv'
<1>1. PICK r : r = [op |-> "poll", known |-> mark] OBVIOUS
<1>2. Begin(w, r) /\ UNCHANGED <<inboxRows, chat, processRows, photoRows, whatsAppRows, mishap>>
  BY <1>1 DEF PollBegins
<1>3. r \in ChatVisit /\ r.op = "poll" /\ r.known = mark
  BY <1>1 DEF ChatInv, Typed, ChatRowsTyped, InboxTyped, ChatVisit, PollVisit
<1>4. Knows(r)
  <2>1. "rebuilt" \notin mishap => PollKnows(r)
    BY <1>3 DEF ChatInv, RowsFit, MarkFits, PollKnows
  <2> QED BY <1>3, <2>1 DEF Knows, RunKnows, TimeKnows, DeleteKnows, MendKnows, SendKnows, FetchOps, SendOps
<1>5. ComesAlone(w, r) BY <1>3, QuietComesAlone DEF FetchOps
<1> QED BY <1>2, <1>3, <1>4, <1>5, BeginsIdle, VisitMoves DEF ChatInv

LEMMA Ends ==
    ASSUME Typed, NEW w \in Clerk, End(w), visit[w].op \notin HoldOps \cup {"sent"}
    PROVE  visit' = [visit EXCEPT ![w] = NoVisit] /\ HoldsOn(w, NoVisit) /\ ComesAlone(w, NoVisit)
           /\ Knows(NoVisit) /\ NoVisit \in ChatVisit
BY HoldsNothing, QuietComesAlone, QuietKnows, NoVisitIsQuiet DEF End, FetchOps

LEMMA PollEndsMoves ==
    ASSUME ChatInv, NEW w \in Clerk, PollEnds(w)
    PROVE  ChatInv'
<1>1. visit[w].op = "read" /\ End(w) /\ UNCHANGED <<inboxRows, chat, processRows, photoRows, whatsAppRows, mishap>>
  BY DEF PollEnds, Doing
<1> QED BY <1>1, Ends, VisitMoves DEF ChatInv, HoldOps

LEMMA BreaksOffMoves ==
    ASSUME ChatInv, NEW w \in Clerk, BreaksOff(w)
    PROVE  ChatInv'
<1>1. /\ visit' = [visit EXCEPT ![w] = NoVisit] /\ mishap' = mishap \cup {"crash"}
      /\ UNCHANGED <<inboxRows, chat, processRows, photoRows, whatsAppRows>>
  BY DEF BreaksOff, End
<1>2. "crash" \in mishap' /\ mishap \subseteq mishap' BY <1>1
<1>3. HoldsOn(w, NoVisit) BY <1>2 DEF HoldsOn, HoldsFile, HoldsAnswer
<1>4. ComesAlone(w, NoVisit) BY QuietComesAlone, NoVisitIsQuiet DEF FetchOps
<1>5. Knows(NoVisit) BY QuietKnows, NoVisitIsQuiet
<1> QED BY <1>1, <1>2, <1>3, <1>4, <1>5, VisitMoves, NoVisitIsQuiet

(* A deletion begins: what is to be deleted may be.                          *)
LEMMA DeletesKnow ==
    ASSUME ChatInv, NEW S \in SUBSET Msg, NEW then \in Back \cup Mend,
           \A m \in S : Live(m) /\ Deletable(m),
           "rebuilt" \notin mishap /\ then.op = "handled" => Reads(then, then.uid + 1),
           then.op = "mend" => /\ Past(then.at)
                               /\ \A m \in Msg : OfPhase(m, then.at) => chat[m].anchor # 0 /\ (~Live(m) \/ m \in S)
    PROVE  /\ Deletes(S, then) \in ChatVisit /\ Knows(Deletes(S, then))
           /\ Deletes(S, then).op = "delete"
<1>1. PICK r : r = Deletes(S, then) OBVIOUS
<1>2. r.op = "delete" /\ r.m = None /\ r.todo = S /\ r.failed = FALSE /\ r.then = then BY <1>1 DEF Deletes
<1>3. r \in ChatVisit BY <1>1 DEF Deletes, ChatVisit, DeleteVisit
<1>4. \A m \in S : Present(m) /\ photo[m] # "none"
  BY DEF ChatInv, RowsFit, PhotoFits, Live
<1>5. "rebuilt" \notin mishap => PollKnows(r) BY <1>2 DEF PollKnows
<1>6. RunKnows(r) /\ SendKnows(r) BY <1>2 DEF RunKnows, SendKnows, FetchOps, SendOps
<1>7. TimeKnows(r) BY <1>2 DEF TimeKnows
<1>8. DeleteKnows(r) BY <1>2, <1>4 DEF DeleteKnows
<1>9. MendKnows(r)
  <2>1. ASSUME r.then.op = "mend", NEW m \in Msg, OfPhase(m, r.then.at)
        PROVE chat[m].anchor # 0 /\ (r.failed \/ ~Live(m) \/ m \in r.todo \/ (r.op = "gone" /\ r.m = m))
    BY <1>2, <2>1
  <2> QED BY <1>2, <2>1 DEF MendKnows
<1> QED BY <1>1, <1>2, <1>3, <1>5, <1>6, <1>7, <1>8, <1>9 DEF Knows

(* What is of a closed process was of it, or came while it was closed.       *)
LEMMA ClosedIsDeletable ==
    ASSUME ChatInv, NEW m \in Msg, StillClosed(m)
    PROVE  Deletable(m)
BY DEF ChatInv, RowsFit, JoinsFit, RowFits, StillClosed, Mine, Deletable

LEMMA SweptMoves ==
    ASSUME ChatInv, NEW w \in Clerk, Swept(w)
    PROVE  ChatInv'
<1>1. visit[w].op = "sweep" /\ UNCHANGED <<inboxRows, chat, processRows, photoRows, whatsAppRows, mishap>>
  BY DEF Swept, Doing
<1>2. PICK v \in SweepVisit : v = visit[w] /\ Knows(v) BY <1>1, VisitKinds DEF ChatInv, Typed
<1>3. v.m \in Msg /\ v.then \in Back BY <1>2 DEF SweepVisit
<1>4. PICK S : S = {m \in {v.m} : Live(m) /\ StillClosed(m)} OBVIOUS
<1>5. S \in SUBSET Msg /\ \A m \in S : Live(m) /\ Deletable(m) BY <1>3, <1>4, ClosedIsDeletable
<1>6. PICK r : r = IF S = {} THEN v.then ELSE Deletes(S, v.then) OBVIOUS
<1>7. visit' = [visit EXCEPT ![w] = r] BY <1>2, <1>4, <1>6 DEF Swept, Continue
<1>8. "rebuilt" \notin mishap /\ v.then.op = "handled" => Reads(v.then, v.then.uid + 1)
  BY <1>1, <1>2 DEF Knows, PollKnows
<1>9. r \in ChatVisit /\ Knows(r) /\ r.op \in {"none", "handled", "delete"}
  <2>1. CASE S = {}
    <3>1. r = v.then /\ r.op \in {"none", "handled"} BY <1>3, <1>6, <2>1 DEF Back, NoVisit, ReadingOf
    <3>2. r \in ChatVisit BY <1>3, <3>1 DEF Back, ChatVisit
    <3>3. "rebuilt" \notin mishap => PollKnows(r) BY <1>8, <3>1 DEF PollKnows
    <3>4. Knows(r)
      BY <3>1, <3>3 DEF Knows, RunKnows, TimeKnows, DeleteKnows, MendKnows, SendKnows, FetchOps, SendOps
    <3> QED BY <3>1, <3>2, <3>4
  <2>2. CASE S # {}
    <3>1. v.then.op # "mend" BY <1>3 DEF Back, NoVisit, ReadingOf
    <3>2. r = Deletes(S, v.then) BY <1>6, <2>2
    <3> QED BY <1>3, <1>5, <1>8, <3>1, <3>2, DeletesKnow
  <2> QED BY <2>1, <2>2
<1>10. ComesAlone(w, r) BY <1>9, QuietComesAlone DEF FetchOps
<1>11. HoldsOn(w, r) BY <1>1, HoldsNothing DEF HoldOps
<1> QED BY <1>1, <1>7, <1>9, <1>10, <1>11, VisitMoves

LEMMA CleanupSelectedMoves ==
    ASSUME ChatInv, NEW w \in Clerk, CleanupSelected(w)
    PROVE  ChatInv'
<1>1. visit[w].op = "clean" /\ UNCHANGED <<inboxRows, chat, processRows, photoRows, whatsAppRows, mishap>>
  BY DEF CleanupSelected, Doing
<1>2. PICK v \in CleanVisit : v = visit[w] /\ Knows(v) BY <1>1, VisitKinds DEF ChatInv, Typed
<1>3. v.then \in Mend /\ v.then.op = "mend" BY <1>2 DEF CleanVisit, Mend
<1>4. Past(v.then.at) /\ v.then.at \in Nat BY <1>1, <1>2, <1>3 DEF Knows, TimeKnows, Mend
<1>5. PICK S : S = {m \in Msg : Live(m) /\ JoinedBy(m, v.then.at)} OBVIOUS
<1>6. visit' = [visit EXCEPT ![w] = Deletes(S, v.then)] BY <1>2, <1>5 DEF CleanupSelected, Continue
<1>7. ASSUME NEW m \in S PROVE Live(m) /\ Deletable(m)
  <2>1. m \in Msg /\ Live(m) /\ Mine(m) /\ chat[m].joined <= v.then.at BY <1>5 DEF JoinedBy
  <2>2. chat[m].joined \in Nat /\ moment \in Nat
    BY <2>1, MessageIs DEF ChatInv, Typed, ChatRowsTyped, ProcessTyped, MessageRow, Mine
  <2>3. chat[m].joined < moment BY <1>4, <2>1, <2>2 DEF Past
  <2> QED BY <2>1, <2>3 DEF Deletable, Mine
<1>8. \A m \in Msg : OfPhase(m, v.then.at) => chat[m].anchor # 0 /\ (~Live(m) \/ m \in S)
  BY <1>1, <1>2, <1>5 DEF Knows, MendKnows, OfPhase
<1>9. S \in SUBSET Msg /\ v.then \in Back \cup Mend BY <1>3, <1>5
<1>10. Deletes(S, v.then) \in ChatVisit /\ Knows(Deletes(S, v.then)) /\ Deletes(S, v.then).op = "delete"
  BY <1>3, <1>4, <1>7, <1>8, <1>9, DeletesKnow
<1>11. PICK r : r = Deletes(S, v.then) OBVIOUS
<1>12. ComesAlone(w, r) BY <1>10, <1>11, QuietComesAlone DEF FetchOps
<1>13. HoldsOn(w, r) BY <1>1, HoldsNothing DEF HoldOps
<1> QED BY <1>1, <1>6, <1>10, <1>11, <1>12, <1>13, VisitMoves

LEMMA BackstopSelectedMoves ==
    ASSUME ChatInv, NEW w \in Clerk, BackstopSelected(w)
    PROVE  ChatInv'
<1>1. visit[w].op = "backstop" /\ UNCHANGED <<inboxRows, chat, processRows, photoRows, whatsAppRows, mishap>>
  BY DEF BackstopSelected, Doing
<1>2. PICK S : S = {m \in Msg : Live(m) /\ StillClosed(m)} OBVIOUS
<1>3. PICK r : r = IF S = {} THEN NoVisit ELSE Deletes(S, NoVisit) OBVIOUS
<1>4. visit' = [visit EXCEPT ![w] = r] BY <1>2, <1>3 DEF BackstopSelected, Continue
<1>5. r \in ChatVisit /\ Knows(r) /\ r.op \in {"none", "delete"}
  <2>1. S \in SUBSET Msg /\ \A m \in S : Live(m) /\ Deletable(m) BY <1>2, ClosedIsDeletable
  <2>2. NoVisit \in Back \cup Mend /\ NoVisit.op \notin {"handled", "mend"} BY DEF Back, NoVisit
  <2>3. Deletes(S, NoVisit) \in ChatVisit /\ Knows(Deletes(S, NoVisit)) /\ Deletes(S, NoVisit).op = "delete"
    BY <2>1, <2>2, DeletesKnow
  <2>4. NoVisit \in ChatVisit /\ Knows(NoVisit) /\ NoVisit.op = "none" BY NoVisitIsQuiet, QuietKnows
  <2>5. r = NoVisit \/ r = Deletes(S, NoVisit) BY <1>3
  <2> QED BY <2>3, <2>4, <2>5
<1>6. ComesAlone(w, r) BY <1>5, QuietComesAlone DEF FetchOps
<1>7. HoldsOn(w, r) BY <1>1, HoldsNothing DEF HoldOps
<1> QED BY <1>1, <1>4, <1>5, <1>6, <1>7, VisitMoves

\* purgeUnmatched, the pictures
LEMMA PicturesPurgedMoves ==
    ASSUME ChatInv, NEW w \in Clerk, NEW S, S = {m \in Msg : LongUnmatched(m) /\ Live(m)}, Begin(w, Deletes(S, NoVisit)),
           UNCHANGED <<edits, inboxRows, chat, processRows, photoRows, whatsAppRows, mishap>>
    PROVE  ChatInv'
<1>1. S \in SUBSET Msg /\ \A m \in S : Live(m) /\ Deletable(m) BY DEF LongUnmatched, Deletable
<1>2. NoVisit \in Back \cup Mend /\ NoVisit.op \notin {"handled", "mend"} BY DEF Back, NoVisit
<1>3. PICK r : r = Deletes(S, NoVisit) OBVIOUS
<1>4. r \in ChatVisit /\ Knows(r) /\ r.op = "delete" BY <1>1, <1>2, <1>3, DeletesKnow
<1>5. visit' = [visit EXCEPT ![w] = r] /\ HoldsOn(w, r) BY <1>3, BeginsIdle DEF ChatInv
<1>6. ComesAlone(w, r) BY <1>4, QuietComesAlone DEF FetchOps
<1> QED BY <1>4, <1>5, <1>6, VisitMoves

-----------------------------------------------------------------------------
(* The mailbox.                                                              *)

(* A step without a request leaves them all as they are.                     *)
LEMMA NobodyMoves ==
    ASSUME ChatInv, UNCHANGED visit
    PROVE  \E w \in Clerk, r \in ChatVisit :
             /\ r = visit[w] /\ visit' = [visit EXCEPT ![w] = r] /\ Knows(r)
             /\ ComesAlone(w, r) /\ HoldsOn(w, r)
<1>1. PICK w \in Clerk : TRUE BY ActorsAssumption
<1>2. PICK r \in ChatVisit : r = visit[w] BY DEF ChatInv, Typed
<1>3. visit' = [visit EXCEPT ![w] = r] BY <1>2 DEF ChatInv, Typed
<1>4. ComesAlone(w, r) BY <1>2 DEF ChatInv, VisitsApart, ApartIn, ComesAlone
<1>5. HoldsOn(w, r) BY <1>2 DEF HoldsOn, HoldsFile, HoldsAnswer
<1>6. Knows(r) BY <1>2 DEF ChatInv
<1> QED BY <1>2, <1>3, <1>4, <1>5, <1>6

LEMMA LetterArrivesMoves ==
    ASSUME ChatInv, NEW l \in Letter, LetterArrives(l)
    PROVE  ChatInv'
<1>1. /\ mailbox' = [mailbox EXCEPT !.letters = Append(@, l)]
      /\ UNCHANGED <<visit, mark, receipts, chat, processRows, photoRows, whatsAppRows, mishap>>
  BY DEF LetterArrives
<1>2. PICK old \in Seq(Letter) : old = mailbox.letters BY DEF ChatInv, Typed, ChatRowsTyped, InboxTyped
<1>3. PICK new : new = Append(old, l) OBVIOUS
<1>4. /\ new \in Seq(Letter) /\ Len(new) = Len(old) + 1 /\ Len(old) \in Nat
      /\ \A u \in 1..Len(old) : new[u] = old[u]
  BY <1>2, <1>3, AppendProperties
<1>5. mailbox' = [mailbox EXCEPT !.letters = new] BY <1>1, <1>2, <1>3
<1>5a. mailbox'.letters = new /\ mailbox'.validity = mailbox.validity
      /\ mailbox' \in [validity : Nat \ {0}, letters : Seq(Letter)]
  BY <1>4, <1>5 DEF ChatInv, Typed, ChatRowsTyped, InboxTyped
<1>6. MailboxGoesOn BY <1>2, <1>5a, <1>4 DEF MailboxGoesOn
<1>7. InboxTyped' BY <1>1, <1>5a DEF ChatInv, Typed, ChatRowsTyped, InboxTyped
<1>8. Typed /\ ChatRowsTyped' BY <1>1, <1>7
  DEF ChatInv, Typed, ChatRowsTyped, ChatTyped, PhotoTyped, WhatsAppTyped, ProcessTyped, processRows, photoRows, whatsAppRows
<1>9. FromKept /\ \A m \in Msg : RowGoesOn(m) /\ PictureGoesOn(m)
  BY <1>1, <1>8, RowsRest, PicturesRest DEF photoRows
<1>10. RowsGoOn
  <2>1. moment \in Nat /\ moment' = moment BY <1>1, <1>8 DEF Typed, ChatRowsTyped, ProcessTyped, processRows
  <2> QED BY <1>1, <1>6, <1>9, <2>1 DEF RowsGoOn, OthersGoOn
<1>11. MarkFits'
  <2>1. mark.last \in Nat BY <1>8 DEF Typed, ChatRowsTyped, InboxTyped, Mark
  <2>2. mark' = mark /\ mishap' = mishap BY <1>1
  <2> QED BY <1>5a, <1>8, <1>10, <2>1, <2>2, NotedStays DEF ChatInv, RowsFit, MarkFits
<1>12. PICK w \in Clerk, r \in ChatVisit : /\ r = visit[w] /\ visit' = [visit EXCEPT ![w] = r] /\ Knows(r)
                                           /\ ComesAlone(w, r) /\ HoldsOn(w, r)
  BY <1>1, NobodyMoves
<1>13. LeftAlone(r) BY <1>1, <1>8, <1>9, <1>12, Untouched DEF whatsAppRows
<1>14. Knows(r)' BY <1>8, <1>10, <1>12, <1>13, KnowsStays
<1> QED BY <1>1, <1>6, <1>7, <1>11, <1>12, <1>14, InboxMoves

LEMMA RebuiltMoves ==
    ASSUME ChatInv, Rebuilt
    PROVE  ChatInv'
<1>1. /\ mailbox' = [mailbox EXCEPT !.validity = @ + 1]
      /\ mishap' = IF \E w \in Clerk : Polls(w) THEN mishap \cup {"rebuilt"} ELSE mishap
      /\ UNCHANGED <<visit, mark, receipts, chat, processRows, photoRows, whatsAppRows>>
  BY DEF Rebuilt
<1>2. PICK n \in Nat : n = mailbox.validity BY DEF ChatInv, Typed, ChatRowsTyped, InboxTyped
<1>3. /\ mailbox' \in [validity : Nat \ {0}, letters : Seq(Letter)] /\ mailbox'.validity = n + 1
      /\ mailbox'.letters = mailbox.letters
  BY <1>1, <1>2 DEF ChatInv, Typed, ChatRowsTyped, InboxTyped
<1>4. InboxTyped' BY <1>1, <1>3 DEF ChatInv, Typed, ChatRowsTyped, InboxTyped
<1>5. Typed /\ ChatRowsTyped' /\ Typed' /\ RowsFit BY <1>1, <1>4
  DEF ChatInv, Typed, ChatRowsTyped, ChatTyped, PhotoTyped, WhatsAppTyped, ProcessTyped, processRows, photoRows, whatsAppRows
<1>6. mishap \subseteq mishap' BY <1>1
<1>7. FromKept /\ \A m \in Msg : RowGoesOn(m) /\ PictureGoesOn(m)
  BY <1>1, <1>5, RowsRest, PicturesRest DEF photoRows
<1>8. OthersGoOn
  <2>1. moment \in Nat /\ moment' = moment BY <1>1, <1>5 DEF Typed, ChatRowsTyped, ProcessTyped, processRows
  <2> QED BY <1>6, <1>7, <2>1 DEF OthersGoOn
<1>9. MarkFits'
  <2>1. mark.validity \in Nat /\ mark' = mark /\ mark.validity <= n
    BY <1>1, <1>2, <1>5 DEF Typed, ChatRowsTyped, InboxTyped, Mark, RowsFit, MarkFits
  <2>2. mark.validity <= mailbox'.validity /\ mark.validity # mailbox'.validity BY <1>3, <2>1
  <2> QED BY <2>1, <2>2 DEF MarkFits
<1>10. /\ processRows' = processRows /\ photoRows' = photoRows /\ chat' = chat /\ receipts' = receipts /\ hook' = hook
       /\ media' = media /\ handed' = handed /\ sending' = sending /\ heard' = heard
  BY <1>1 DEF whatsAppRows
<1>11. CameIn' BY <1>5, <1>7, <1>10, CameRests DEF RowsFit, ChatRowsTyped
<1>12. PhotoFits' BY <1>5, <1>7, <1>10, PhotoRests DEF RowsFit, ChatRowsTyped, PhotoFits
<1>13. ClosingFits' BY <1>5, <1>10 DEF RowsFit, ClosingFits, processRows, Past
<1>14. JoinsFit' BY <1>5, <1>10 DEF RowsFit, JoinsFit, RowFits, Present, IsClosed, processRows
<1>15. LossFits' BY <1>5, <1>8, <1>10, LossRests DEF RowsFit
<1>16. PhasesFit' BY <1>5, <1>8, <1>10, PhasesRest DEF RowsFit, processRows
<1>17. SendsFit' BY <1>5, <1>7, <1>10, SendsRest DEF RowsFit, SendsFit, ChatRowsTyped
<1>18. StatusFits' BY <1>5, <1>10 DEF RowsFit, StatusFits, AnswerFits, Says, IsStaff, Present
<1>19. RowsFit' BY <1>9, <1>11, <1>12, <1>13, <1>14, <1>15, <1>16, <1>17, <1>18 DEF RowsFit
<1>20. PICK w \in Clerk, r \in ChatVisit : /\ r = visit[w] /\ visit' = [visit EXCEPT ![w] = r] /\ Knows(r)
                                           /\ ComesAlone(w, r) /\ HoldsOn(w, r)
  BY <1>1, NobodyMoves
<1>21. FilesFit' BY <1>5, <1>6, <1>10, <1>20, FilesRest DEF ChatInv, HoldsOn
<1>22. SentFits'
  <2>1. \A m \in Msg : ~Unsent(m) => ~Unsent(m)' BY <1>10 DEF Unsent
  <2> QED BY <1>5, <1>6, <1>10, <1>20, <2>1, SentRests DEF ChatInv, RowsFit, ChatRowsTyped, HoldsOn
<1>23. VisitsApart' BY <1>5, <1>20, VisitsStayApart DEF ChatInv
<1>24. ASSUME NEW x \in Clerk PROVE Knows(visit[x])'
  <2>1. PICK v \in ChatVisit : v = visit[x] BY <1>5 DEF Typed
  <2>2. Knows(v) BY <2>1 DEF ChatInv
  <2>3. LeftAlone(v) BY <1>5, <1>7, <1>10, <2>2, Untouched
  <2>4. "rebuilt" \notin mishap' => PollKnows(v)'
    <3>1. ASSUME "rebuilt" \notin mishap' PROVE ~Polls(x) BY <1>1, <3>1
    <3> QED BY <2>1, <3>1 DEF Polls, Doing, PollKnows
  <2>5. Knows(v)' BY <1>5, <1>8, <2>2, <2>3, <2>4, RunStays, TimeStays, DeleteStays, MendStays, SendStays DEF Knows
  <2>6. visit'[x] = v BY <1>1, <2>1
  <2> QED BY <2>5, <2>6 DEF Knows, PollKnows, RunKnows, TimeKnows, DeleteKnows, MendKnows, SendKnows
<1> QED BY <1>5, <1>19, <1>21, <1>22, <1>23, <1>24 DEF ChatInv

\* a poll between two letters knows only what it reads
LEMMA ReadingKnows ==
    ASSUME NEW r, r.op \in {"poll", "read", "handled"}, "rebuilt" \notin mishap' => PollKnows(r)'
    PROVE  Knows(r)' /\ \A w \in Clerk : ComesAlone(w, r)
BY QuietComesAlone DEF Knows, RunKnows, TimeKnows, DeleteKnows, MendKnows, SendKnows, FetchOps, SendOps

LEMMA NotesNone ==
    ASSUME Typed
    PROVE  NotedTo(0)
BY DEF NotedTo, Typed, ChatRowsTyped, InboxTyped

LEMMA PollFetchedMoves ==
    ASSUME ChatInv, NEW w \in Clerk, PollFetched(w)
    PROVE  ChatInv'
<1>1. visit[w].op = "poll" /\ UNCHANGED <<mailbox, receipts, chat, processRows, photoRows, whatsAppRows, mishap>>
  BY DEF PollFetched, Doing
<1>2. PICK v \in PollVisit : v = visit[w] /\ Knows(v) BY <1>1, VisitKinds DEF ChatInv, Typed
<1>3. PICK since : since = Since(v.known, mailbox.validity) OBVIOUS
<1>4. PICK r : r = [op |-> "read", validity |-> mailbox.validity, letters |-> mailbox.letters, uid |-> since] OBVIOUS
<1>5. visit' = [visit EXCEPT ![w] = r] /\ mark' = [validity |-> mailbox.validity, last |-> since]
  BY <1>2, <1>3, <1>4 DEF PollFetched, Continue
<1>6. Typed /\ mailbox.validity \in Nat \ {0} /\ mailbox.letters \in Seq(Letter) /\ v.known \in Mark /\ v.op = "poll"
  BY <1>2 DEF ChatInv, Typed, ChatRowsTyped, InboxTyped, PollVisit
<1>7. since \in Nat /\ (since = 0 \/ (v.known.validity = mailbox.validity /\ since = v.known.last))
  BY <1>3, <1>6 DEF Since, Mark
<1>8. r \in ChatVisit /\ r.op = "read" /\ r.validity = mailbox.validity /\ r.letters = mailbox.letters /\ r.uid = since
  BY <1>4, <1>6, <1>7 DEF ChatVisit, ReadingOf
<1>9. "rebuilt" \notin mishap => NotedTo(since)
  BY <1>2, <1>6, <1>7, NotesNone DEF Knows, PollKnows
<1>10. "rebuilt" \notin mishap' => Reads(r, since)' /\ NotedTo(since)'
  <2>1. "rebuilt" \notin mishap => since <= Len(mailbox.letters) BY <1>9 DEF NotedTo
  <2>2. Len(mailbox.letters) \in Nat BY <1>6
  <2> QED BY <1>1, <1>8, <1>9, <2>1, <2>2 DEF Reads, NotedTo, Noted
<1>11. Knows(r)' /\ ComesAlone(w, r) BY <1>8, <1>10, ReadingKnows DEF PollKnows
<1>12. InboxTyped'
  <2>1. mark' \in Mark BY <1>5, <1>6, <1>7 DEF Mark
  <2> QED BY <1>1, <2>1 DEF ChatInv, Typed, ChatRowsTyped, InboxTyped
<1>13. MarkFits'
  <2>1. mark'.validity = mailbox.validity /\ mark'.last = since /\ mailbox' = mailbox BY <1>1, <1>5
  <2>2. mark'.validity <= mailbox'.validity BY <1>6, <2>1
  <2> QED BY <1>10, <2>1, <2>2 DEF MarkFits
<1>14. MailboxGoesOn BY <1>1, <1>6 DEF MailboxGoesOn
<1>15. HoldsOn(w, r) BY <1>1, HoldsNothing DEF HoldOps
<1> QED BY <1>1, <1>5, <1>8, <1>11, <1>12, <1>13, <1>14, <1>15, InboxMoves

LEMMA Notes ==
    ASSUME Typed, NEW v, NEW n \in Nat, v.letters \in Seq(Letter), Reads(v, n), n < Len(v.letters),
           UNCHANGED mailbox, receipts \subseteq receipts',
           \E r \in receipts' : r.letter = v.letters[n + 1] \/ (r.validity = v.validity /\ r.uid = n + 1)
    PROVE  Reads(v, n + 1)'
<1>1. Len(v.letters) \in Nat /\ Len(mailbox.letters) \in Nat BY DEF Typed, ChatRowsTyped, InboxTyped
<1>2. /\ v.validity = mailbox.validity /\ Len(v.letters) <= Len(mailbox.letters) /\ n <= Len(v.letters)
      /\ \A u \in 1..Len(v.letters) : v.letters[u] = mailbox.letters[u]
      /\ \A u \in 1..n : Noted(u)
  BY DEF Reads, NotedTo
<1>3. n + 1 \in 1..Len(v.letters) BY <1>1
<1>4. Noted(n + 1)'
  <2>1. v.letters[n + 1] = mailbox'.letters[n + 1] /\ v.validity = mailbox'.validity BY <1>2, <1>3
  <2> QED BY <2>1 DEF Noted
<1>5. \A u \in 1..n : Noted(u)' BY <1>2 DEF Noted
<1>6. \A u \in 1..(n + 1) : u = n + 1 \/ u \in 1..n OBVIOUS
<1>7. \A u \in 1..(n + 1) : Noted(u)' BY <1>4, <1>5, <1>6
<1>8. n + 1 <= Len(mailbox'.letters) /\ n + 1 <= Len(v.letters) BY <1>1, <1>2
<1> QED BY <1>2, <1>7, <1>8 DEF Reads, NotedTo

LEMMA LetterPassedMoves ==
    ASSUME ChatInv, NEW w \in Clerk, LetterPassed(w)
    PROVE  ChatInv'
<1>1. visit[w].op = "read" /\ UNCHANGED <<mailbox, mark, chat, processRows, photoRows, whatsAppRows, mishap>>
  BY DEF LetterPassed, More, Doing
<1>2. PICK v \in ReadingOf("read") : v = visit[w] /\ Knows(v) BY <1>1, VisitKinds DEF ChatInv, Typed
<1>3. PICK r : r = Handled(v) OBVIOUS
<1>4. /\ v.uid \in Nat /\ v.uid < Len(v.letters) /\ v.letters \in Seq(Letter) /\ v.op = "read"
      /\ v.validity \in Nat \ {0} /\ visit' = [visit EXCEPT ![w] = r]
  BY <1>2, <1>3 DEF LetterPassed, More, Continue, ReadingOf
<1>5. /\ r \in ReadingOf("handled") /\ r.op = "handled" /\ r.uid = v.uid /\ r.letters = v.letters
      /\ r.validity = v.validity
  BY <1>2, <1>3 DEF Handled, ReadingOf
<1>6. \/ Known(v) /\ receipts' = receipts
      \/ receipts' = receipts \cup {Receipt(v, None)}
  BY <1>2 DEF LetterPassed
<1>7. receipts \subseteq receipts' BY <1>6
<1>8. InboxTyped'
  <2>1. Receipt(v, None) \in [validity : Nat \ {0}, uid : Nat, letter : Letter \cup {None}] BY <1>4 DEF Receipt
  <2> QED BY <1>1, <1>6, <2>1 DEF ChatInv, Typed, ChatRowsTyped, InboxTyped
<1>9. \E k \in receipts' : k.letter = v.letters[v.uid + 1] \/ (k.validity = v.validity /\ k.uid = v.uid + 1)
  <2>1. CASE Known(v) BY <1>7, <2>1 DEF Known, SameUid, SameLetter
  <2>2. CASE receipts' = receipts \cup {Receipt(v, None)}
    <3>1. PICK k \in receipts' : k = Receipt(v, None) BY <2>2
    <3> QED BY <3>1 DEF Receipt
  <2> QED BY <1>6, <2>1, <2>2
<1>10. "rebuilt" \notin mishap' => Reads(v, v.uid + 1)'
  BY <1>1, <1>2, <1>4, <1>7, <1>9, Notes DEF ChatInv, Knows, PollKnows
<1>11. "rebuilt" \notin mishap' => Reads(r, r.uid + 1)' BY <1>5, <1>10 DEF Reads
<1>12. Knows(r)' /\ ComesAlone(w, r) BY <1>5, <1>11, ReadingKnows DEF PollKnows
<1>13. MailboxGoesOn BY <1>1 DEF MailboxGoesOn, ChatInv, Typed, ChatRowsTyped, InboxTyped
<1>14. MarkFits'
  <2>1. \A u : Noted(u) => Noted(u)' BY <1>1, <1>7 DEF Noted
  <2> QED BY <1>1, <2>1 DEF ChatInv, RowsFit, MarkFits, NotedTo
<1>15. HoldsOn(w, r) /\ r \in ChatVisit BY <1>1, <1>5, HoldsNothing DEF HoldOps, ChatVisit
<1> QED BY <1>1, <1>4, <1>7, <1>8, <1>12, <1>13, <1>14, <1>15, InboxMoves

LEMMA MarkMovedMoves ==
    ASSUME ChatInv, NEW w \in Clerk, MarkMoved(w)
    PROVE  ChatInv'
<1>1. visit[w].op = "handled" /\ UNCHANGED <<mailbox, receipts, chat, processRows, photoRows, whatsAppRows, mishap>>
  BY DEF MarkMoved, Doing
<1>2. PICK v \in ReadingOf("handled") : v = visit[w] /\ Knows(v) BY <1>1, VisitKinds DEF ChatInv, Typed
<1>3. PICK r : r = [v EXCEPT !.op = "read", !.uid = v.uid + 1] OBVIOUS
<1>4. visit' = [visit EXCEPT ![w] = r] /\ mark' = [mark EXCEPT !.last = v.uid + 1]
  BY <1>2, <1>3 DEF MarkMoved, Continue
<1>5. v.uid \in Nat /\ v.op = "handled" BY <1>2 DEF ReadingOf
<1>6. /\ r \in ReadingOf("read") /\ r.op = "read" /\ r.uid = v.uid + 1 /\ r.letters = v.letters /\ r.validity = v.validity
  <2>1. PICK u \in Nat : u = v.uid + 1 BY <1>5
  <2>2. r = [v EXCEPT !.op = "read", !.uid = u] BY <1>3, <2>1
  <2>3. r = [op |-> "read", validity |-> v.validity, letters |-> v.letters, uid |-> u] BY <1>2, <2>2 DEF ReadingOf
  <2> QED BY <1>2, <2>1, <2>3 DEF ReadingOf
<1>7. "rebuilt" \notin mishap => Reads(v, v.uid + 1) BY <1>2, <1>5 DEF Knows, PollKnows
<1>8. \A n : NotedTo(n) => NotedTo(n)' BY <1>1 DEF NotedTo, Noted
<1>9. "rebuilt" \notin mishap' => Reads(r, r.uid)' BY <1>1, <1>6, <1>7, <1>8 DEF Reads
<1>10. Knows(r)' /\ ComesAlone(w, r) BY <1>6, <1>9, ReadingKnows DEF PollKnows
<1>11. mark' \in Mark /\ mark'.validity = mark.validity /\ mark'.last = v.uid + 1
  BY <1>4, <1>5 DEF ChatInv, Typed, ChatRowsTyped, InboxTyped, Mark
<1>12. InboxTyped' BY <1>1, <1>11 DEF ChatInv, Typed, ChatRowsTyped, InboxTyped
<1>13. MarkFits'
  <2>1. "rebuilt" \notin mishap' => NotedTo(v.uid + 1)' BY <1>1, <1>7, <1>8 DEF Reads
  <2>2. mark'.validity <= mailbox'.validity BY <1>1, <1>11 DEF ChatInv, RowsFit, MarkFits
  <2> QED BY <1>11, <2>1, <2>2 DEF MarkFits
<1>14. MailboxGoesOn BY <1>1 DEF MailboxGoesOn, ChatInv, Typed, ChatRowsTyped, InboxTyped
<1>15. HoldsOn(w, r) /\ r \in ChatVisit BY <1>1, <1>6, HoldsNothing DEF HoldOps, ChatVisit
<1> QED BY <1>1, <1>4, <1>10, <1>12, <1>13, <1>14, <1>15, InboxMoves

-----------------------------------------------------------------------------
(* A new row.                                                                *)

LEMMA NewRow ==
    ASSUME Typed, NEW m \in Msg, ~Present(m), NEW row \in MessageRow, chat' = [chat EXCEPT ![m] = row]
    PROVE  /\ ChatTyped' /\ chat'[m] = row /\ Present(m)' /\ chat[m].from = None
           /\ \A n \in Msg \ {m} : chat'[n] = chat[n] /\ (Present(n)' <=> Present(n))
           /\ \A n \in Msg : Present(n) => n # m
           /\ \A n \in Msg : IsWam(n) \/ IsStaff(n) => n # m
<1>1. ChatTyped' /\ chat'[m] = row /\ \A n \in Msg \ {m} : chat'[n] = chat[n]
  BY DEF Typed, ChatRowsTyped, ChatTyped, Rows
<1>2. Present(m)' BY <1>1, RowIs DEF Present, Rows
<1>3. \A n \in Msg : IsWam(n) \/ IsStaff(n) => Present(n) BY MessageIs DEF Typed, ChatRowsTyped
<1>4. chat[m].from = None BY DEF Present, NoMessage
<1> QED BY <1>1, <1>2, <1>3, <1>4 DEF Present

LEMMA CameComes ==
    ASSUME Typed, CameIn, NEW m \in Msg, ~Present(m), NEW row \in MessageRow, chat' = [chat EXCEPT ![m] = row],
           receipts \subseteq receipts', \A n \in Msg : row.from \in Letter \cup Wam => chat[n].from # row.from,
           row.from \in Letter => \E k \in receipts' : k.letter = row.from,
           IF row.from \in Wam THEN hook' = [hook EXCEPT ![row.from] = m] ELSE UNCHANGED hook
    PROVE  CameIn'
<1>1. /\ chat'[m] = row /\ \A n \in Msg \ {m} : chat'[n] = chat[n] /\ (Present(n)' <=> Present(n))
      /\ chat[m].from = None
  BY NewRow
<1>2. \A n \in Msg : chat'[n].from \in Letter => \E k \in receipts' : k.letter = chat'[n].from
  BY <1>1 DEF CameIn
<1>3. \A x \in Wam : hook'[x] = IF row.from = x THEN m ELSE hook[x]
  BY DEF Typed, ChatRowsTyped, WhatsAppTyped
<1>4. m # None BY ChatAssumption
<1>5. \A n \in Msg : chat'[n].from \in Wam => hook'[chat'[n].from] # None
  BY <1>1, <1>3, <1>4 DEF CameIn
<1>6. \A x \in Wam : hook'[x] \in Msg => chat'[hook'[x]].from = x
  <2> SUFFICES ASSUME NEW x \in Wam, hook'[x] \in Msg PROVE chat'[hook'[x]].from = x OBVIOUS
  <2>1. CASE row.from = x BY <1>1, <1>3, <2>1
  <2>2. CASE row.from # x
    <3>1. hook'[x] = hook[x] /\ chat[hook[x]].from = x BY <1>3, <2>2 DEF CameIn
    <3>2. hook[x] # m BY <1>1, <3>1, SendersApart
    <3> QED BY <1>1, <3>1, <3>2
  <2> QED BY <2>1, <2>2
<1>7. StoredOnce'
  <2> SUFFICES ASSUME NEW a \in Msg, NEW b \in Msg, Present(a)', Present(b)', Inbound(a)', chat'[a].from = chat'[b].from,
                      a # b
               PROVE FALSE
    BY DEF StoredOnce
  <2>1. CASE a = m BY <1>1, <2>1 DEF Inbound
  <2>2. CASE b = m BY <1>1, <2>2 DEF Inbound
  <2>3. CASE a # m /\ b # m BY <1>1, <2>3 DEF Inbound, CameIn, StoredOnce
  <2> QED BY <2>1, <2>2, <2>3
<1> QED BY <1>2, <1>5, <1>6, <1>7 DEF CameIn

LEMMA RowComes ==
    ASSUME ChatInv, NEW m \in Msg, ~Present(m), NEW row \in MessageRow, chat' = [chat EXCEPT ![m] = row],
           RowFits(row), row.from \in Wam => row.joined = moment, row.known = FALSE,
           row.from = "staff" => row.state = "queued",
           UNCHANGED <<mailbox, mark, processRows, files, heard, media, sending, handed, mishap>>,
           receipts \subseteq receipts', InboxTyped', WhatsAppTyped', PhotoTyped', CameIn',
           \A n \in Msg \ {m} : photo'[n] = photo[n],
           photo'[m] = "none" \/ (photo'[m] = "live" /\ m \in files),
           NEW w \in Clerk, NEW r \in ChatVisit, visit' = [visit EXCEPT ![w] = r],
           Knows(r)' \/ (Knows(r) /\ (r.op = "store" => r.m # m)), ComesAlone(w, r), HoldsAnswer(w, r),
           visit[w].op \in HoldOps =>
             visit[w].m \notin files \/ photo'[visit[w].m] = "live" \/ (r.op \in HoldOps /\ r.m = visit[w].m),
           \A x \in Clerk \ {w} : visit[x].op = "store" => visit[x].m # m
    PROVE  ChatInv'
<1>1. /\ ChatTyped' /\ chat'[m] = row /\ Present(m)' /\ chat[m].from = None
      /\ \A n \in Msg \ {m} : chat'[n] = chat[n] /\ (Present(n)' <=> Present(n))
      /\ \A n \in Msg : Present(n) => n # m
      /\ \A n \in Msg : IsWam(n) \/ IsStaff(n) => n # m
  BY NewRow DEF ChatInv
<1>2. Typed /\ ChatRowsTyped /\ RowsFit /\ ChatRowsTyped'
  BY <1>1 DEF ChatInv, Typed, ChatRowsTyped, ProcessTyped, processRows
<1>3. photo[m] = "none" BY <1>1, <1>2 DEF RowsFit, PhotoFits
<1>4. \A n \in Msg : PictureGoesOn(n)
  <2> SUFFICES ASSUME NEW n \in Msg PROVE PictureGoesOn(n) OBVIOUS
  <2>1. CASE n = m BY <1>1, <1>3, <2>1 DEF PictureGoesOn
  <2>2. CASE n # m BY <2>2 DEF PictureGoesOn, Live
  <2> QED BY <2>1, <2>2
<1>5. \A n \in Msg : RowGoesOn(n)
  <2> SUFFICES ASSUME NEW n \in Msg PROVE RowGoesOn(n) OBVIOUS
  <2>1. CASE n = m BY <1>1, <2>1 DEF RowGoesOn, IsWam
  <2>2. CASE n # m
    <3>1. ~Present(n) => ~IsWam(n)' BY <1>1, <1>2, <2>2, MessageIs DEF ChatRowsTyped, IsWam
    <3> QED BY <1>1, <2>2, <3>1 DEF RowGoesOn
  <2> QED BY <2>1, <2>2
<1>6. RowsGoOn /\ OthersGoOn
  <2>1. moment \in Nat /\ moment' = moment BY <1>2 DEF ChatRowsTyped, ProcessTyped, processRows
  <2>2. MailboxGoesOn BY <1>2 DEF MailboxGoesOn, ChatRowsTyped, InboxTyped
  <2> QED BY <1>4, <1>5, <2>1, <2>2 DEF RowsGoOn, OthersGoOn
<1>7. MarkFits' BY <1>2, <1>6, MarkRests DEF RowsFit
<1>8. PhotoFits'
  <2>1. \A n \in Msg : photo'[n] # "none" => Present(n)' BY <1>1, <1>2 DEF RowsFit, PhotoFits
  <2>2. \A n \in Msg : media'[n] > 0 => IsWam(n)' BY <1>1, <1>2 DEF RowsFit, PhotoFits, IsWam
  <2>3. \A n \in Msg : photo'[n] = "gone" => n \notin files' BY <1>2 DEF RowsFit, PhotoFits
  <2> QED BY <2>1, <2>2, <2>3 DEF PhotoFits
<1>9. ClosingFits' BY <1>2 DEF RowsFit, ClosingFits, processRows, Past
<1>10. JoinsFit'
  <2>1. RowFits(row)' BY DEF RowFits, IsClosed, processRows
  <2>2. ASSUME NEW n \in Msg, Present(n)' PROVE RowFits(chat[n])'
    <3>1. CASE n = m BY <1>1, <2>1, <3>1 DEF RowFits
    <3>2. CASE n # m BY <1>1, <1>2, <2>2, <3>2 DEF RowsFit, JoinsFit, RowFits, IsClosed, processRows
    <3> QED BY <3>1, <3>2
  <2> QED BY <2>2 DEF JoinsFit
<1>11. LossFits'
  <2> SUFFICES ASSUME NEW n \in Msg, photo'[n] = "gone" \/ (photo'[n] = "live" /\ n \notin files') PROVE Deletable(n)'
    BY DEF LossFits
  <2>1. n # m /\ photo'[n] = photo[n] OBVIOUS
  <2>2. Present(n) /\ Deletable(n) BY <1>2, <2>1 DEF RowsFit, PhotoFits, LossFits
  <2> QED BY <1>2, <1>6, <2>2, DeletableStays
<1>12. PhasesFit' BY <1>2, <1>6, PhasesRest DEF RowsFit, processRows
<1>13. SendsFit' BY <1>1, <1>2 DEF RowsFit, SendsFit, IsStaff
<1>14. StatusFits'
  <2>1. \A n \in Msg : AnswerFits(n)'
    <3> SUFFICES ASSUME NEW n \in Msg PROVE AnswerFits(n)' OBVIOUS
    <3>1. CASE n = m BY <1>1, <3>1 DEF AnswerFits, IsStaff
    <3>2. CASE n # m BY <1>1, <1>2, <3>2 DEF RowsFit, StatusFits, AnswerFits, IsStaff
    <3> QED BY <3>1, <3>2
  <2>2. ASSUME NEW e \in heard PROVE IsStaff(e.m)' /\ Says(e)'
    <3>1. e.m \in Msg /\ IsStaff(e.m) /\ Says(e) BY <1>2 DEF RowsFit, StatusFits, ChatRowsTyped, WhatsAppTyped, HeardRow
    <3>2. chat'[e.m] = chat[e.m] BY <1>1, <3>1
    <3> QED BY <3>1, <3>2 DEF IsStaff, Says
  <2> QED BY <2>1, <2>2 DEF StatusFits
<1>15. RowsFit' BY <1>7, <1>8, <1>9, <1>10, <1>11, <1>12, <1>13, <1>14 DEF RowsFit
<1>16. FilesFit'
  <2> SUFFICES ASSUME mishap' \subseteq {"rebuilt"}, NEW n \in files', ~Live(n)'
               PROVE \E x \in Clerk : visit'[x].op \in HoldOps /\ visit'[x].m = n
    BY DEF FilesFit
  <2>1. n \in Msg /\ ~Live(n) BY <1>2, <1>3 DEF Live, ChatRowsTyped, PhotoTyped
  <2>2. PICK x \in Clerk : visit[x].op \in HoldOps /\ visit[x].m = n BY <2>1 DEF ChatInv, FilesFit
  <2>3. visit'[w] = r /\ \A y \in Clerk \ {w} : visit'[y] = visit[y] BY <1>2 DEF Typed
  <2>4. CASE x = w BY <2>2, <2>3, <2>4 DEF Live
  <2>5. CASE x # w BY <2>2, <2>3, <2>5
  <2> QED BY <2>4, <2>5
<1>17. SentFits'
  <2>1. \A n \in Msg : IsStaff(n) /\ ~Unsent(n) => ~Unsent(n)' BY <1>1 DEF Unsent
  <2> QED BY <1>1, <1>2, <2>1, SentRests DEF ChatInv, RowsFit
<1>18. ASSUME NEW v \in ChatVisit, Knows(v), v.op = "store" => v.m # m PROVE LeftAlone(v)
  <2>1. v.op = "store" => ~Present(v.m)'
    <3>1. v.op = "store" => v.m \in Msg /\ ~Present(v.m) BY <1>18, VisitOfMessage DEF Knows, RunKnows
    <3> QED BY <1>1, <1>18, <3>1
  <2>2. v.op \in FetchOps => photo'[v.m] = "none"
    <3>1. v.op \in FetchOps => v.m \in Msg BY VisitOfMessage DEF FetchOps, Runs
    <3>2. v.op \in FetchOps => IsWam(v.m) /\ photo[v.m] = "none" BY <1>18 DEF Knows, RunKnows
    <3> QED BY <1>1, <3>1, <3>2
  <2> QED BY <1>18, <2>1, <2>2 DEF LeftAlone, Knows, RunKnows, DeleteKnows
<1>19. ASSUME NEW x \in Clerk \ {w}, NEW v \in ChatVisit, v = visit[x] PROVE LeftAlone(v)
  <2>1. Knows(v) /\ (v.op = "store" => v.m # m) BY <1>19 DEF ChatInv
  <2> QED BY <1>18, <2>1
<1>20. Knows(r)'
  <2>1. CASE Knows(r) /\ (r.op = "store" => r.m # m)
    <3>1. LeftAlone(r) BY <1>18, <2>1
    <3> QED BY <1>2, <1>6, <2>1, <3>1, KnowsStays
  <2> QED BY <2>1
<1> QED BY <1>2, <1>6, <1>15, <1>16, <1>17, <1>19, <1>20, RequestSteps

LEMMA RowIsTyped ==
    ASSUME NEW from \in Letter \cup Wam \cup {"staff", "desk", "portal"}, NEW mine \in BOOLEAN, NEW joined \in Nat,
           NEW state \in States, NEW row, row = ChatRow(from, mine, joined, state)
    PROVE  /\ row \in MessageRow /\ row.from = from /\ row.joined = joined /\ row.state = state
           /\ row.anchor = 0 /\ row.known = FALSE /\ row.aged = FALSE
           /\ row.mine = mine /\ row.late = (mine /\ IsClosed)
<1>1. row \in MessageRow /\ row.from = from /\ row.joined = joined /\ row.state = state /\ row.anchor = 0
  BY DEF ChatRow, MessageRow, IsClosed
<1>2. row.known = FALSE /\ row.aged = FALSE BY DEF ChatRow
<1>3. row.mine = mine /\ row.late = (mine /\ IsClosed) BY DEF ChatRow
<1> QED BY <1>1, <1>2, <1>3

LEMMA RowIsFit ==
    ASSUME ChatInv, NEW row \in MessageRow, row.joined <= moment, row.anchor = 0, row.late = (row.mine /\ IsClosed)
    PROVE  RowFits(row)
<1>1. moment \in Nat /\ moment >= 1 BY DEF ChatInv, Typed, ChatRowsTyped, ProcessTyped, RowsFit, ClosingFits
<1>2. row.anchor < moment BY <1>1
<1> QED BY <1>2 DEF RowFits

LEMMA LetterPreparedMoves ==
    ASSUME ChatInv, NEW w \in Clerk, LetterPrepared(w)
    PROVE  ChatInv'
<1>1. /\ visit[w].op = "read" /\ UNCHANGED <<inboxRows, chat, photo, processRows, whatsAppRows, mishap>>
      /\ visit[w].uid < Len(visit[w].letters)
  BY DEF LetterPrepared, More, Doing
<1>2. PICK v \in ReadingOf("read") : v = visit[w] /\ Knows(v) BY <1>1, VisitKinds DEF ChatInv, Typed
<1>3. PICK m \in Msg, matched \in BOOLEAN, picture \in BOOLEAN :
        /\ Fresh(m)
        /\ Continue(w, [op |-> "store", m |-> m, mine |-> matched, picture |-> picture,
                        begun |-> moment, poll |-> v])
        /\ files' = IF picture THEN files \cup {m} ELSE files
  BY <1>2 DEF LetterPrepared
<1>4. PICK r : r = [op |-> "store", m |-> m, mine |-> matched, picture |-> picture, begun |-> moment, poll |-> v]
  OBVIOUS
<1>5. visit' = [visit EXCEPT ![w] = r] BY <1>3, <1>4 DEF Continue
<1>6. Typed /\ RowsFit /\ moment \in Nat /\ chat' = chat /\ moment' = moment
  BY <1>1 DEF ChatInv, Typed, ChatRowsTyped, ProcessTyped, processRows
<1>7. /\ r \in ChatVisit /\ r.op = "store" /\ r.m = m /\ r.picture = picture /\ r.begun = moment /\ r.poll = v
  BY <1>4, <1>6 DEF ChatVisit, StoreVisit
<1>8. ~Present(m) /\ m \notin files /\ \A x \in Clerk : visit[x].op = "store" => visit[x].m # m
  BY <1>3 DEF Fresh, InHand, Doing
<1>9. /\ photo' = photo /\ media' = media /\ sending' = sending /\ handed' = handed /\ heard' = heard
      /\ hook' = hook /\ mishap' = mishap
  BY <1>1 DEF whatsAppRows
<1>10. Knows(r)'
  <2>1. "rebuilt" \notin mishap => PollKnows(v) BY <1>2 DEF Knows
  <2>2. "rebuilt" \notin mishap => Reads(v, v.uid)' BY <1>1, <1>2, <2>1 DEF PollKnows, ReadingOf, Reads, NotedTo, Noted, inboxRows
  <2>3. "rebuilt" \notin mishap' => PollKnows(r)' BY <1>1, <1>2, <1>7, <2>2 DEF PollKnows
  <2>4. ~Present(m)' /\ (picture <=> m \in files') /\ v.uid < Len(v.letters) BY <1>1, <1>2, <1>3, <1>6, <1>8 DEF Present
  <2>5. RunKnows(r)' BY <1>7, <2>4 DEF RunKnows, FetchOps
  <2>6. TimeKnows(r)' BY <1>6, <1>7 DEF TimeKnows
  <2> QED BY <1>7, <2>3, <2>5, <2>6 DEF Knows, DeleteKnows, MendKnows, SendKnows, SendOps
<1>11. PhotoTyped' /\ files \subseteq files' BY <1>1, <1>3, <1>6 DEF Typed, ChatRowsTyped, PhotoTyped
<1>12. PhotoFits'
  <2>1. photo[m] = "none" BY <1>6, <1>8 DEF RowsFit, PhotoFits
  <2> QED BY <1>3, <1>6, <1>9, <2>1 DEF RowsFit, PhotoFits, Present, IsWam
<1>13. LossFits' BY <1>6, <1>9, <1>11 DEF RowsFit, LossFits, Deletable
<1>14. FilesFit'
  <2> SUFFICES ASSUME mishap' \subseteq {"rebuilt"}, NEW n \in files', ~Live(n)'
               PROVE \E x \in Clerk : visit'[x].op \in HoldOps /\ visit'[x].m = n
    BY DEF FilesFit
  <2>1. visit'[w] = r /\ \A x \in Clerk \ {w} : visit'[x] = visit[x] BY <1>5, <1>6 DEF Typed
  <2>2. CASE n = m BY <1>7, <2>1, <2>2 DEF HoldOps
  <2>3. CASE n # m
    <3>1. n \in files /\ ~Live(n) BY <1>3, <1>9, <2>3 DEF Live
    <3>2. PICK x \in Clerk : visit[x].op \in HoldOps /\ visit[x].m = n BY <1>9, <3>1 DEF ChatInv, FilesFit
    <3>3. x # w BY <1>1, <3>2 DEF HoldOps
    <3> QED BY <2>1, <3>2, <3>3
  <2> QED BY <2>2, <2>3
<1>15. ComesAlone(w, r) BY <1>7, <1>8 DEF ComesAlone, FetchOps
<1>16. HoldsAnswer(w, r) BY <1>1 DEF HoldsAnswer
<1>17. ASSUME NEW x \in Clerk \ {w}, NEW u \in ChatVisit, u = visit[x] PROVE LeftAlone(u)
  <2>1. Knows(u) BY <1>17 DEF ChatInv
  <2>2. u.op = "store" => u.m # m BY <1>8, <1>17
  <2>3. u.op = "store" => ~Present(u.m)' /\ (u.m \in files <=> u.m \in files')
    BY <1>3, <1>6, <2>1, <2>2 DEF Knows, RunKnows, Present
  <2>4. u.op = "gone" => u.m \notin files' BY <1>3, <1>8, <2>1 DEF Knows, DeleteKnows
  <2> QED BY <1>9, <1>11, <2>1, <2>3, <2>4 DEF LeftAlone, Knows, RunKnows
<1>18. \A n \in Msg : PictureGoesOn(n) BY <1>9, PicturesRest
<1> QED BY <1>1, <1>5, <1>6, <1>7, <1>9, <1>10, <1>11, <1>12, <1>13, <1>14, <1>15, <1>16, <1>17, <1>18, PictureMoves
   DEF Typed, ChatRowsTyped, WhatsAppTyped

LEMMA LetterStoredMoves ==
    ASSUME ChatInv, NEW w \in Clerk, LetterStored(w)
    PROVE  ChatInv'
<1>1. visit[w].op = "store" /\ UNCHANGED <<mailbox, mark, files, processRows, whatsAppRows, mishap>>
  BY DEF LetterStored, Doing
<1>2. PICK v \in StoreVisit : v = visit[w] /\ Knows(v) BY <1>1, VisitKinds DEF ChatInv, Typed
<1>3. PICK p \in ReadingOf("read") : p = v.poll BY <1>2 DEF StoreVisit
<1>4. /\ v.m \in Msg /\ v.mine \in BOOLEAN /\ v.picture \in BOOLEAN /\ v.begun \in Nat /\ v.op = "store"
      /\ p.op = "read" /\ p.uid \in Nat /\ p.letters \in Seq(Letter) /\ p.validity \in Nat \ {0}
  BY <1>2, <1>3 DEF StoreVisit, ReadingOf
<1>5. PICK m \in Msg : m = v.m BY <1>4
<1>6. ~Present(m) /\ (v.picture <=> m \in files) /\ v.begun <= moment /\ p.uid < Len(p.letters)
  BY <1>2, <1>3, <1>4, <1>5 DEF Knows, RunKnows, TimeKnows
<1>7. PICK letter : letter = p.letters[p.uid + 1] OBVIOUS
<1>8. PICK row : row = ChatRow(letter, v.mine, v.begun, "received") OBVIOUS
<1>9. PICK r : r = IF v.mine /\ v.picture THEN [op |-> "sweep", m |-> m, then |-> Handled(p)] ELSE Handled(p) OBVIOUS
<1>10. /\ ~Known(p) /\ chat' = [chat EXCEPT ![m] = row]
       /\ photo' = [photo EXCEPT ![m] = IF v.picture THEN "live" ELSE "none"]
       /\ receipts' = receipts \cup {Receipt(p, letter)} /\ visit' = [visit EXCEPT ![w] = r]
  BY <1>2, <1>3, <1>5, <1>7, <1>8, <1>9 DEF LetterStored, Continue
<1>11. letter \in Letter BY <1>4, <1>6, <1>7
<1>12. Typed /\ RowsFit /\ moment \in Nat /\ moment' = moment /\ dossier' = dossier /\ visit[w].m = m
  BY <1>1, <1>2, <1>5 DEF ChatInv, Typed, ChatRowsTyped, ProcessTyped, processRows
<1>13. /\ row \in MessageRow /\ row.from = letter /\ row.mine = v.mine /\ row.joined = v.begun
       /\ row.anchor = 0 /\ row.known = FALSE /\ row.late = (v.mine /\ IsClosed)
  <2>1. PICK mine \in BOOLEAN : mine = v.mine BY <1>4
  <2>2. PICK begun \in Nat : begun = v.begun BY <1>4
  <2>3. letter \in Letter \cup Wam \cup {"staff", "desk", "portal"} /\ "received" \in States BY <1>11 DEF States
  <2>4. row = ChatRow(letter, mine, begun, "received") BY <1>8, <2>1, <2>2
  <2>5. row \in MessageRow /\ row.from = letter /\ row.joined = begun /\ row.anchor = 0
    BY <2>3, <2>4 DEF ChatRow, MessageRow, IsClosed
  <2>6. row.known = FALSE /\ row.mine = mine /\ row.late = (mine /\ IsClosed) BY <2>4 DEF ChatRow
  <2> QED BY <2>1, <2>2, <2>5, <2>6
<1>14. RowFits(row) BY <1>6, <1>13, RowIsFit
<1>15. letter \notin Wam \cup {"staff"} BY <1>11, SendersApart
<1>16. Handled(p) \in ReadingOf("handled") /\ Handled(p).op = "handled" /\ Handled(p).uid = p.uid
       /\ Handled(p).letters = p.letters /\ Handled(p).validity = p.validity
  BY <1>3 DEF Handled, ReadingOf
<1>17. PICK h \in ReadingOf("handled") : h = Handled(p) BY <1>16
<1>18. r = h \/ (r.op = "sweep" /\ r.m = m /\ r.then = h) BY <1>9, <1>17
<1>19. r \in ChatVisit /\ r.op \in {"sweep", "handled"}
  <2>1. [op |-> "sweep", m |-> m, then |-> h] \in SweepVisit BY DEF SweepVisit, Back
  <2> QED BY <1>9, <1>16, <1>17, <2>1 DEF ChatVisit
<1>20. receipts \subseteq receipts' /\ Receipt(p, letter) \in receipts' BY <1>10
<1>21. Receipt(p, letter).letter = letter /\ Receipt(p, letter) \in [validity : Nat \ {0}, uid : Nat, letter : Letter \cup {None}]
  BY <1>4, <1>11 DEF Receipt
<1>22. InboxTyped' BY <1>1, <1>10, <1>12, <1>21 DEF Typed, ChatRowsTyped, InboxTyped
<1>23. PhotoTyped' /\ WhatsAppTyped' /\ photo'[m] = (IF v.picture THEN "live" ELSE "none")
       /\ \A n \in Msg \ {m} : photo'[n] = photo[n]
  BY <1>1, <1>10, <1>12 DEF Typed, ChatRowsTyped, PhotoTyped, WhatsAppTyped, whatsAppRows
<1>24. CameIn'
  <2>1. \A n \in Msg : chat[n].from # letter
    <3> SUFFICES ASSUME NEW n \in Msg, chat[n].from = letter PROVE FALSE OBVIOUS
    <3>1. \E k \in receipts : k.letter = letter BY <1>11, <1>12 DEF RowsFit, CameIn
    <3> QED BY <1>7, <1>10, <3>1 DEF Known, SameLetter
  <2>2. UNCHANGED hook BY <1>1 DEF whatsAppRows
  <2> QED BY <1>6, <1>10, <1>12, <1>13, <1>15, <1>20, <1>21, <2>1, <2>2, CameComes DEF RowsFit
<1>25. "rebuilt" \notin mishap' => Reads(h, h.uid + 1)'
  <2>1. \E k \in receipts' : k.letter = p.letters[p.uid + 1] \/ (k.validity = p.validity /\ k.uid = p.uid + 1)
    BY <1>7, <1>20, <1>21
  <2>2. "rebuilt" \notin mishap => Reads(p, p.uid) BY <1>2, <1>3, <1>4 DEF Knows, PollKnows
  <2>3. "rebuilt" \notin mishap' => Reads(p, p.uid + 1)' BY <1>1, <1>4, <1>6, <1>12, <1>20, <2>1, <2>2, Notes
  <2> QED BY <1>16, <1>17, <2>3 DEF Reads
<1>26. Knows(r)'
  <2>1. "rebuilt" \notin mishap' => PollKnows(r)' BY <1>16, <1>17, <1>18, <1>25 DEF PollKnows
  <2> QED BY <1>19, <2>1 DEF Knows, RunKnows, TimeKnows, DeleteKnows, MendKnows, SendKnows, FetchOps, SendOps
<1>27. ComesAlone(w, r) BY <1>19, QuietComesAlone DEF FetchOps
<1>28. HoldsAnswer(w, r) BY <1>1 DEF HoldsAnswer
<1>29. m \notin files \/ photo'[m] = "live" BY <1>6, <1>23
<1>30. \A x \in Clerk \ {w} : visit[x].op = "store" => visit[x].m # m
  BY <1>1, <1>12 DEF ChatInv, VisitsApart, ApartIn
<1>31. photo'[m] = "none" \/ (photo'[m] = "live" /\ m \in files) BY <1>6, <1>23
<1>32. UNCHANGED <<mailbox, mark, processRows, files, heard, media, sending, handed, mishap>>
  BY <1>1 DEF whatsAppRows
<1>33. row \in MessageRow /\ row.from \notin Wam /\ row.from # "staff" /\ row.known = FALSE BY <1>13, <1>15
<1>34. ~Present(m) /\ chat' = [chat EXCEPT ![m] = row] /\ visit' = [visit EXCEPT ![w] = r] /\ r \in ChatVisit
  BY <1>6, <1>10, <1>19
<1>35. visit[w].op \in HoldOps => visit[w].m \notin files \/ photo'[visit[w].m] = "live" BY <1>12, <1>29
<1>36. PhotoTyped' /\ WhatsAppTyped' /\ \A n \in Msg \ {m} : photo'[n] = photo[n] BY <1>23
<1> QED BY <1>14, <1>20, <1>22, <1>24, <1>26, <1>27, <1>28, <1>30, <1>31, <1>32, <1>33, <1>34, <1>35, <1>36, RowComes

\* a request that only ends
LEMMA EndsComesAlone ==
    ASSUME NEW w \in Clerk
    PROVE  ComesAlone(w, NoVisit) /\ Knows(NoVisit)' /\ NoVisit \in ChatVisit
<1>1. Knows(NoVisit)'
  BY NoVisitIsQuiet DEF Knows, PollKnows, RunKnows, TimeKnows, DeleteKnows, MendKnows, SendKnows, FetchOps, SendOps
<1> QED BY <1>1, QuietComesAlone, NoVisitIsQuiet DEF FetchOps

LEMMA LetterRefusedMoves ==
    ASSUME ChatInv, NEW w \in Clerk, LetterRefused(w)
    PROVE  ChatInv'
<1>1. visit[w].op = "store" /\ UNCHANGED <<inboxRows, chat, photo, processRows, whatsAppRows>>
  BY DEF LetterRefused, Doing
<1>2. PICK v \in StoreVisit : v = visit[w] /\ Knows(v) BY <1>1, VisitKinds DEF ChatInv, Typed
<1>3. PICK p \in ReadingOf("read") : p = v.poll BY <1>2 DEF StoreVisit
<1>4. /\ v.m \in Msg /\ v.op = "store" /\ p.op = "read" /\ p.uid \in Nat /\ p.letters \in Seq(Letter)
      /\ p.validity \in Nat \ {0}
  BY <1>2, <1>3 DEF StoreVisit, ReadingOf
<1>5. PICK m \in Msg : m = v.m BY <1>4
<1>6. PICK h : h = Handled(p) OBVIOUS
<1>7. /\ Known(p) /\ visit' = [visit EXCEPT ![w] = h]
      /\ \/ files' = files \ {m} /\ mishap' = mishap
         \/ mishap' = mishap \cup {"storage"} /\ files' = files
  BY <1>2, <1>3, <1>5, <1>6 DEF LetterRefused, Continue
<1>8. h \in ReadingOf("handled") /\ h.op = "handled" /\ h.uid = p.uid /\ h.letters = p.letters /\ h.validity = p.validity
  BY <1>3, <1>6 DEF Handled, ReadingOf
<1>9. ~Present(m) /\ p.uid < Len(p.letters) BY <1>2, <1>3, <1>4, <1>5 DEF Knows, RunKnows
<1>10. Typed /\ RowsFit /\ chat' = chat /\ photo' = photo /\ mishap \subseteq mishap' /\ files' \subseteq files /\ files \ {m} \subseteq files'
  BY <1>1, <1>7 DEF ChatInv
<1>11. photo[m] = "none" BY <1>9, <1>10 DEF RowsFit, PhotoFits
<1>12. "rebuilt" \notin mishap' => Reads(h, h.uid + 1)'
  <2>1. mailbox' = mailbox /\ receipts' = receipts BY <1>1 DEF inboxRows
  <2>2. \E k \in receipts' : k.letter = p.letters[p.uid + 1] \/ (k.validity = p.validity /\ k.uid = p.uid + 1)
    BY <1>7, <2>1 DEF Known, SameUid, SameLetter
  <2>3. "rebuilt" \notin mishap => Reads(p, p.uid) BY <1>2, <1>3, <1>4 DEF Knows, PollKnows
  <2>4. "rebuilt" \notin mishap' => Reads(p, p.uid + 1)' BY <1>4, <1>9, <1>10, <2>1, <2>2, <2>3, Notes
  <2> QED BY <1>8, <2>4 DEF Reads
<1>13. Knows(h)' /\ ComesAlone(w, h) BY <1>8, <1>12, ReadingKnows DEF PollKnows
<1>14. PhotoTyped' BY <1>10 DEF Typed, ChatRowsTyped, PhotoTyped
<1>15. media' = media BY <1>1 DEF whatsAppRows
<1>16. PhotoFits' BY <1>10, <1>15 DEF RowsFit, PhotoFits, Present, IsWam
<1>17. \A n \in Msg : photo[n] # "none" => n # m BY <1>11
<1>18. LossFits'
  <2> SUFFICES ASSUME NEW n \in Msg, photo'[n] = "gone" \/ (photo'[n] = "live" /\ n \notin files') PROVE Deletable(n)'
    BY DEF LossFits
  <2>1. photo[n] = "gone" \/ (photo[n] = "live" /\ n \notin files) BY <1>10, <1>17
  <2>2. Deletable(n) /\ moment' = moment BY <1>1, <1>10, <2>1 DEF RowsFit, LossFits, processRows
  <2> QED BY <1>10, <2>2 DEF Deletable
<1>19. FilesFit'
  <2> SUFFICES ASSUME mishap' \subseteq {"rebuilt"}, NEW n \in files', ~Live(n)'
               PROVE \E x \in Clerk : visit'[x].op \in HoldOps /\ visit'[x].m = n
    BY DEF FilesFit
  <2>1. n \in files /\ ~Live(n) /\ n # m BY <1>7, <1>10 DEF Live
  <2>2. PICK x \in Clerk : visit[x].op \in HoldOps /\ visit[x].m = n BY <1>10, <2>1 DEF ChatInv, FilesFit
  <2>3. x # w BY <1>2, <1>5, <2>1, <2>2
  <2> QED BY <1>7, <1>10, <2>2, <2>3 DEF Typed
<1>20. HoldsAnswer(w, h) BY <1>1 DEF HoldsAnswer
<1>21. ASSUME NEW x \in Clerk \ {w}, NEW u \in ChatVisit, u = visit[x] PROVE LeftAlone(u)
  <2>1. Knows(u) BY <1>21 DEF ChatInv
  <2>2. u.op = "store" => u.m # m BY <1>1, <1>2, <1>5, <1>21 DEF ChatInv, VisitsApart, ApartIn
  <2>3. u.op = "store" => ~Present(u.m)' /\ (u.m \in files <=> u.m \in files')
    BY <1>10, <2>1, <2>2 DEF Knows, RunKnows, Present
  <2>4. u.op = "register" => u.m \in files'
    <3>1. u.op = "register" => u.m \in Msg /\ IsWam(u.m) /\ u.m \in files BY <2>1, VisitOfMessage DEF Knows, RunKnows, FetchOps, Runs
    <3>2. u.op = "register" => u.m # m BY <1>9, <1>10, <3>1, MessageIs DEF Typed, ChatRowsTyped
    <3> QED BY <1>10, <3>1, <3>2
  <2> QED BY <1>1, <1>10, <2>1, <2>3, <2>4 DEF LeftAlone, Knows, RunKnows, DeleteKnows, whatsAppRows
<1>22. \A n \in Msg : PictureGoesOn(n) BY <1>10, PicturesRest
<1>23. h \in ChatVisit BY <1>8 DEF ChatVisit
<1>24. UNCHANGED <<hook, heard, sending, handed>> BY <1>1 DEF whatsAppRows
<1> QED BY <1>1, <1>7, <1>10, <1>13, <1>14, <1>15, <1>16, <1>18, <1>19, <1>20, <1>21, <1>22, <1>23, <1>24, PictureMoves
   DEF Typed, ChatRowsTyped, WhatsAppTyped

-----------------------------------------------------------------------------
(* Deleting.                                                                 *)

LEMMA FileDeletedMoves ==
    ASSUME ChatInv, NEW w \in Clerk, FileDeleted(w)
    PROVE  ChatInv'
<1>1. visit[w].op = "delete" /\ UNCHANGED <<inboxRows, chat, photo, processRows, whatsAppRows>>
  BY DEF FileDeleted, Doing
<1>2. PICK v \in DeleteVisit : v = visit[w] /\ Knows(v) BY <1>1, VisitKinds DEF ChatInv, Typed
<1>3. /\ v.op = "delete" /\ v.todo \in SUBSET Msg /\ v.failed \in BOOLEAN /\ v.then \in Back \cup Mend
      /\ v.m \in Msg \cup {None}
  BY <1>2 DEF DeleteVisit
<1>4. PICK m \in v.todo :
        \/ /\ files' = files \ {m} /\ mishap' = mishap
           /\ visit' = [visit EXCEPT ![w] = [v EXCEPT !.op = "gone", !.todo = v.todo \ {m}, !.m = m]]
        \/ /\ files' = files /\ mishap' = mishap \cup {"storage"}
           /\ visit' = [visit EXCEPT ![w] = [v EXCEPT !.todo = v.todo \ {m}, !.failed = TRUE]]
  BY <1>2 DEF FileDeleted, Continue
<1>5. PICK S \in SUBSET Msg : S = v.todo \ {m} BY <1>3
<1>6. m \in Msg BY <1>3
<1>7. PICK r : /\ visit' = [visit EXCEPT ![w] = r]
               /\ \/ /\ files' = files \ {m} /\ mishap' = mishap
                     /\ r = [v EXCEPT !.op = "gone", !.todo = S, !.m = m]
                  \/ /\ files' = files /\ mishap' = mishap \cup {"storage"}
                     /\ r = [v EXCEPT !.todo = S, !.failed = TRUE]
  BY <1>4, <1>5
<1>8. r \in ChatVisit /\ r.todo = S /\ r.then = v.then /\ r.op \in {"delete", "gone"}
  <2>1. CASE r = [v EXCEPT !.op = "gone", !.todo = S, !.m = m]
    <3>1. r \in GoneVisit /\ r.op = "gone" /\ r.todo = S /\ r.then = v.then BY <1>2, <1>6, <2>1 DEF DeleteVisit, GoneVisit
    <3> QED BY <3>1 DEF ChatVisit
  <2>2. CASE r = [v EXCEPT !.todo = S, !.failed = TRUE]
    <3>1. r \in DeleteVisit /\ r.op = "delete" /\ r.todo = S /\ r.then = v.then BY <1>2, <2>2 DEF DeleteVisit
    <3> QED BY <3>1 DEF ChatVisit
  <2> QED BY <1>7, <2>1, <2>2
<1>9. /\ r.op = "gone" => r.m = m /\ files' = files \ {m} /\ (r.failed <=> v.failed)
      /\ r.op = "delete" => r.failed
      /\ files' \subseteq files /\ files \ {m} \subseteq files' /\ mishap \subseteq mishap'
  <2>1. CASE r = [v EXCEPT !.op = "gone", !.todo = S, !.m = m] /\ files' = files \ {m} /\ mishap' = mishap
    <3>1. r.op = "gone" /\ r.m = m BY <1>2, <2>1 DEF DeleteVisit
    <3>2. r.failed = v.failed BY <1>2, <2>1 DEF DeleteVisit
    <3> QED BY <2>1, <3>1, <3>2
  <2>2. CASE r = [v EXCEPT !.todo = S, !.failed = TRUE] /\ files' = files /\ mishap' = mishap \cup {"storage"}
    <3>1. r.op = "delete" BY <1>2, <2>2 DEF DeleteVisit
    <3>2. r.failed BY <1>2, <2>2 DEF DeleteVisit
    <3> QED BY <2>2, <3>1, <3>2
  <2> QED BY <1>7, <2>1, <2>2
<1>10. Typed /\ RowsFit /\ chat' = chat /\ photo' = photo /\ moment' = moment /\ media' = media
  BY <1>1 DEF ChatInv, processRows, whatsAppRows
<1>11. \A n \in v.todo : Present(n) /\ photo[n] # "none" /\ Deletable(n) BY <1>2, <1>3 DEF Knows, DeleteKnows
<1>12. \A n : (Present(n) <=> Present(n)') /\ (Deletable(n) <=> Deletable(n)') BY <1>10 DEF Present, Deletable
<1>13. Knows(r)'
  <2>1. "rebuilt" \notin mishap' => PollKnows(r)'
    BY <1>1, <1>2, <1>3, <1>8, <1>9 DEF Knows, PollKnows, Reads, NotedTo, Noted, inboxRows
  <2>2. RunKnows(r)' /\ SendKnows(r)' BY <1>8, <1>9 DEF RunKnows, SendKnows, FetchOps, SendOps
  <2>3. TimeKnows(r)' BY <1>2, <1>3, <1>8, <1>9, <1>10 DEF Knows, TimeKnows, Past
  <2>4. DeleteKnows(r)'
    <3>1. \A n \in S : Present(n)' /\ photo'[n] # "none" /\ Deletable(n)' BY <1>5, <1>10, <1>11, <1>12
    <3>2. r.op = "gone" => Present(r.m)' /\ r.m \notin files' /\ photo'[r.m] # "none" /\ Deletable(r.m)'
      BY <1>8, <1>9, <1>10, <1>11, <1>12
    <3> QED BY <1>8, <1>9, <3>1, <3>2 DEF DeleteKnows
  <2>5. MendKnows(r)'
    <3> SUFFICES ASSUME v.then.op = "mend", NEW n \in Msg, OfPhase(n, v.then.at)'
                 PROVE chat'[n].anchor # 0 /\ (r.failed \/ ~Live(n)' \/ n \in r.todo \/ (r.op = "gone" /\ r.m = n))
      BY <1>8, <1>9 DEF MendKnows
    <3>1. OfPhase(n, v.then.at) BY <1>10 DEF OfPhase, IsWam, JoinedBy, Mine, Present
    <3>2. chat[n].anchor # 0 /\ (v.failed \/ ~Live(n) \/ n \in v.todo)
      BY <1>2, <1>3, <3>1 DEF Knows, MendKnows
    <3>3. n \in v.todo => n \in S \/ n = m BY <1>5
    <3>4. ~Live(n) => ~Live(n)' BY <1>10 DEF Live
    <3>5. CASE r.op = "gone" BY <1>8, <1>9, <1>10, <3>2, <3>3, <3>4, <3>5
    <3>6. CASE r.op = "delete" BY <1>8, <1>9, <1>10, <3>2, <3>6
    <3> QED BY <1>8, <1>9, <3>5, <3>6
  <2> QED BY <2>1, <2>2, <2>3, <2>4, <2>5 DEF Knows
<1>14. ComesAlone(w, r) BY <1>8, <1>9, QuietComesAlone DEF FetchOps
<1>15. HoldsAnswer(w, r) BY <1>1 DEF HoldsAnswer
<1>16. PhotoTyped' BY <1>9, <1>10 DEF Typed, ChatRowsTyped, PhotoTyped
<1>17. PhotoFits' BY <1>8, <1>9, <1>10 DEF RowsFit, PhotoFits, Present, IsWam
<1>18. LossFits'
  <2> SUFFICES ASSUME NEW n \in Msg, photo'[n] = "gone" \/ (photo'[n] = "live" /\ n \notin files') PROVE Deletable(n)
    BY <1>12 DEF LossFits
  <2>1. CASE n = m BY <1>11, <2>1
  <2>2. CASE n # m BY <1>8, <1>9, <1>10, <2>2 DEF RowsFit, LossFits
  <2> QED BY <2>1, <2>2
<1>19. FilesFit'
  <2> SUFFICES ASSUME mishap' \subseteq {"rebuilt"}, NEW n \in files', ~Live(n)'
               PROVE \E x \in Clerk : visit'[x].op \in HoldOps /\ visit'[x].m = n
    BY DEF FilesFit
  <2>1. n \in files /\ ~Live(n) BY <1>8, <1>9, <1>10 DEF Live
  <2>2. PICK x \in Clerk : visit[x].op \in HoldOps /\ visit[x].m = n BY <1>8, <1>9, <2>1 DEF ChatInv, FilesFit
  <2>3. x # w BY <1>1, <2>2 DEF HoldOps
  <2> QED BY <1>7, <1>10, <2>2, <2>3 DEF Typed
<1>20. ASSUME NEW x \in Clerk \ {w}, NEW u \in ChatVisit, u = visit[x] PROVE LeftAlone(u)
  <2>1. Knows(u) BY <1>20 DEF ChatInv
  <2>2. u.op = "store" => ~Present(u.m)' /\ (u.m \in files <=> u.m \in files')
    BY <1>6, <1>8, <1>9, <1>11, <1>12, <2>1 DEF Knows, RunKnows
  <2>3. u.op = "register" => u.m \in files' /\ photo[u.m] = "none"
    BY <1>8, <1>9, <1>11, <2>1 DEF Knows, RunKnows, FetchOps
  <2> QED BY <1>1, <1>8, <1>9, <1>10, <2>1, <2>2, <2>3 DEF LeftAlone, Knows, RunKnows, DeleteKnows, whatsAppRows
<1>21. \A n \in Msg : PictureGoesOn(n) BY <1>10, PicturesRest
<1>22. UNCHANGED <<hook, heard, sending, handed>> BY <1>1 DEF whatsAppRows
<1> QED BY <1>1, <1>7, <1>8, <1>9, <1>10, <1>13, <1>14, <1>15, <1>16, <1>17, <1>18, <1>19, <1>20, <1>21, <1>22, PictureMoves
   DEF Typed, ChatRowsTyped, WhatsAppTyped

LEMMA PhotoGoneMoves ==
    ASSUME ChatInv, NEW w \in Clerk, PhotoGone(w)
    PROVE  ChatInv'
<1>1. visit[w].op = "gone" /\ UNCHANGED <<inboxRows, chat, files, processRows, whatsAppRows, mishap>>
  BY DEF PhotoGone, Doing
<1>2. PICK v \in GoneVisit : v = visit[w] /\ Knows(v) BY <1>1, VisitKinds DEF ChatInv, Typed
<1>3. /\ v.op = "gone" /\ v.todo \in SUBSET Msg /\ v.failed \in BOOLEAN /\ v.then \in Back \cup Mend /\ v.m \in Msg
  BY <1>2 DEF GoneVisit
<1>4. PICK m \in Msg : m = v.m BY <1>3
<1>5. PICK r : r = [v EXCEPT !.op = "delete"] OBVIOUS
<1>6. (r.failed <=> v.failed) BY <1>2, <1>5 DEF GoneVisit
<1>7. visit' = [visit EXCEPT ![w] = r] /\ photo' = [photo EXCEPT ![m] = "gone"]
  BY <1>2, <1>4, <1>5 DEF PhotoGone, Continue
<1>8. r \in ChatVisit /\ r.op = "delete" /\ r.todo = v.todo /\ r.then = v.then
  <2>1. r \in DeleteVisit /\ r.op = "delete" /\ r.todo = v.todo /\ r.then = v.then
    BY <1>2, <1>5 DEF GoneVisit, DeleteVisit
  <2> QED BY <2>1 DEF ChatVisit
<1>9. Typed /\ RowsFit /\ chat' = chat /\ moment' = moment /\ media' = media /\ mishap' = mishap
  BY <1>1 DEF ChatInv, processRows, whatsAppRows
<1>10. /\ \A n \in v.todo : Present(n) /\ photo[n] # "none" /\ Deletable(n)
       /\ Present(m) /\ m \notin files /\ photo[m] # "none" /\ Deletable(m)
  BY <1>2, <1>3, <1>4 DEF Knows, DeleteKnows
<1>11. \A n : (Present(n) <=> Present(n)') /\ (Deletable(n) <=> Deletable(n)') BY <1>9 DEF Present, Deletable
<1>12. PhotoTyped' /\ photo'[m] = "gone" /\ \A n \in Msg \ {m} : photo'[n] = photo[n]
  BY <1>1, <1>7, <1>9 DEF Typed, ChatRowsTyped, PhotoTyped
<1>13. Knows(r)'
  <2>1. "rebuilt" \notin mishap' => PollKnows(r)'
    BY <1>1, <1>2, <1>3, <1>8 DEF Knows, PollKnows, Reads, NotedTo, Noted, inboxRows
  <2>2. RunKnows(r)' /\ SendKnows(r)' BY <1>8 DEF RunKnows, SendKnows, FetchOps, SendOps
  <2>3. TimeKnows(r)' BY <1>2, <1>3, <1>8, <1>9 DEF Knows, TimeKnows, Past
  <2>4. DeleteKnows(r)'
    <3>1. \A n \in v.todo : Present(n)' /\ photo'[n] # "none" /\ Deletable(n)' BY <1>3, <1>10, <1>11, <1>12
    <3> QED BY <1>8, <3>1 DEF DeleteKnows
  <2>5. MendKnows(r)'
    <3> SUFFICES ASSUME v.then.op = "mend", NEW n \in Msg, OfPhase(n, v.then.at)'
                 PROVE chat'[n].anchor # 0 /\ (r.failed \/ ~Live(n)' \/ n \in r.todo)
      BY <1>8 DEF MendKnows
    <3>1. OfPhase(n, v.then.at) BY <1>9 DEF OfPhase, IsWam, JoinedBy, Mine, Present
    <3>2. chat[n].anchor # 0 /\ (v.failed \/ ~Live(n) \/ n \in v.todo \/ n = m)
      BY <1>2, <1>3, <1>4, <3>1 DEF Knows, MendKnows
    <3>3. ~Live(n) \/ n = m => ~Live(n)' BY <1>12 DEF Live
    <3> QED BY <1>6, <1>8, <1>9, <3>2, <3>3
  <2> QED BY <2>1, <2>2, <2>3, <2>4, <2>5 DEF Knows
<1>14. ComesAlone(w, r) BY <1>8, QuietComesAlone DEF FetchOps
<1>15. HoldsAnswer(w, r) BY <1>1 DEF HoldsAnswer
<1>16. PhotoFits' BY <1>1, <1>9, <1>10, <1>12 DEF RowsFit, PhotoFits, Present, IsWam
<1>17. LossFits'
  <2> SUFFICES ASSUME NEW n \in Msg, photo'[n] = "gone" \/ (photo'[n] = "live" /\ n \notin files') PROVE Deletable(n)
    BY <1>11 DEF LossFits
  <2>1. CASE n = m BY <1>10, <2>1
  <2>2. CASE n # m BY <1>1, <1>9, <1>12, <2>2 DEF RowsFit, LossFits
  <2> QED BY <2>1, <2>2
<1>18. FilesFit'
  <2> SUFFICES ASSUME mishap' \subseteq {"rebuilt"}, NEW n \in files', ~Live(n)'
               PROVE \E x \in Clerk : visit'[x].op \in HoldOps /\ visit'[x].m = n
    BY DEF FilesFit
  <2>1. n \in files /\ n # m /\ n \in Msg BY <1>1, <1>9, <1>10 DEF Typed, ChatRowsTyped, PhotoTyped
  <2>2. ~Live(n) BY <1>12, <2>1 DEF Live
  <2>3. PICK x \in Clerk : visit[x].op \in HoldOps /\ visit[x].m = n BY <1>9, <2>1, <2>2 DEF ChatInv, FilesFit
  <2>4. x # w BY <1>1, <2>3 DEF HoldOps
  <2> QED BY <1>7, <1>9, <2>3, <2>4 DEF Typed
<1>19. ASSUME NEW x \in Clerk \ {w}, NEW u \in ChatVisit, u = visit[x] PROVE LeftAlone(u)
  <2>1. Knows(u) BY <1>19 DEF ChatInv
  <2>2. u.op \in FetchOps => photo'[u.m] = "none"
    <3>1. u.op \in FetchOps => u.m \in Msg /\ photo[u.m] = "none" BY <2>1, VisitOfMessage DEF Knows, RunKnows, FetchOps, Runs
    <3> QED BY <1>10, <1>12, <3>1
  <2> QED BY <1>1, <1>9, <1>11, <2>1, <2>2 DEF LeftAlone, Knows, RunKnows, DeleteKnows, whatsAppRows
<1>20. \A n \in Msg : PictureGoesOn(n)
  <2>1. PictureGoesOn(m) BY <1>10, <1>12 DEF PictureGoesOn, Live
  <2> QED BY <1>12, <2>1 DEF PictureGoesOn, Live
<1>21. UNCHANGED <<hook, heard, sending, handed>> BY <1>1 DEF whatsAppRows
<1> QED BY <1>1, <1>7, <1>8, <1>9, <1>12, <1>13, <1>14, <1>15, <1>16, <1>17, <1>18, <1>19, <1>20, <1>21, PictureMoves
   DEF Typed, ChatRowsTyped, WhatsAppTyped

-----------------------------------------------------------------------------
(* The process, the jobs, and what changes in rows that are there.           *)

LEMMA ProcessMoves ==
    ASSUME ChatInv, UNCHANGED <<inboxRows, chat, photoRows, whatsAppRows, mishap>>, ProcessTyped', moment <= moment',
           ClosingFits', \A m \in Msg : Present(m) => RowFits(chat[m])',
           \A at \in cleared' \ cleared : \A m \in Msg : OfPhase(m, at) => chat[m].anchor # 0 /\ ~Live(m),
           NEW w \in Clerk, NEW r \in ChatVisit, visit' = [visit EXCEPT ![w] = r],
           Knows(r) \/ Knows(r)', ComesAlone(w, r), HoldsOn(w, r)
    PROVE  ChatInv'
<1>1. ChatRowsTyped' /\ ChatRowsTyped /\ Typed /\ RowsFit
  BY DEF ChatInv, Typed, ChatRowsTyped, InboxTyped, ChatTyped, PhotoTyped, WhatsAppTyped, inboxRows, photoRows, whatsAppRows
<1>2. FromKept /\ \A m \in Msg : RowGoesOn(m) /\ PictureGoesOn(m) BY <1>1, RowsRest, PicturesRest DEF photoRows
<1>3. RowsGoOn /\ OthersGoOn
  <2>1. MailboxGoesOn /\ receipts' = receipts BY DEF MailboxGoesOn, inboxRows
  <2> QED BY <1>2, <2>1 DEF RowsGoOn, OthersGoOn
<1>4. /\ chat' = chat /\ photo' = photo /\ media' = media /\ handed' = handed /\ sending' = sending /\ heard' = heard
      /\ hook' = hook /\ mishap' = mishap /\ receipts' = receipts
  BY DEF photoRows, whatsAppRows, inboxRows
<1>5. MarkFits' BY <1>1, <1>3, MarkRests DEF RowsFit, inboxRows
<1>6. CameIn' BY <1>1, <1>2, <1>4, CameRests DEF RowsFit, ChatRowsTyped
<1>7. PhotoFits' BY <1>1, <1>2, <1>4, PhotoRests DEF RowsFit, ChatRowsTyped, PhotoFits
<1>8. JoinsFit' BY <1>4 DEF JoinsFit, Present
<1>9. LossFits' BY <1>1, <1>3, LossRests DEF RowsFit
<1>10. PhasesFit'
  <2> SUFFICES ASSUME NEW at \in cleared', NEW m \in Msg, OfPhase(m, at)' PROVE chat'[m].anchor # 0 /\ ~Live(m)'
    BY DEF PhasesFit
  <2>1. OfPhase(m, at) BY <1>4 DEF OfPhase, IsWam, JoinedBy, Mine, Present
  <2>2. chat[m].anchor # 0 /\ ~Live(m) BY <1>1, <2>1 DEF RowsFit, PhasesFit
  <2> QED BY <1>4, <2>2 DEF Live
<1>11. SendsFit' BY <1>1, <1>2, <1>4, SendsRest DEF RowsFit, SendsFit, ChatRowsTyped
<1>12. StatusFits' BY <1>1, <1>4 DEF RowsFit, StatusFits, AnswerFits, Says, IsStaff, Present
<1>13. RowsFit' BY <1>5, <1>6, <1>7, <1>8, <1>9, <1>10, <1>11, <1>12 DEF RowsFit
<1>14. FilesFit' BY <1>1, FilesRest DEF ChatInv, HoldsOn
<1>15. SentFits'
  <2>1. \A m \in Msg : ~Unsent(m) => ~Unsent(m)' BY <1>4 DEF Unsent
  <2> QED BY <1>1, <1>4, <2>1, SentRests DEF ChatInv, RowsFit, ChatRowsTyped, HoldsOn
<1>16. ASSUME NEW x \in Clerk \ {w}, NEW v \in ChatVisit, v = visit[x] PROVE LeftAlone(v)
  <2>1. Knows(v) BY <1>16 DEF ChatInv
  <2> QED BY <1>1, <1>2, <1>4, <2>1, Untouched
<1>17. Knows(r)'
  <2>1. CASE Knows(r)
    <3>1. LeftAlone(r) BY <1>1, <1>2, <1>4, <2>1, Untouched
    <3> QED BY <1>1, <1>3, <2>1, <3>1, KnowsStays
  <2> QED BY <2>1
<1> QED BY <1>1, <1>3, <1>13, <1>14, <1>15, <1>16, <1>17, RequestSteps

LEMMA ChatMoves ==
    ASSUME ChatInv, UNCHANGED <<inboxRows, dossier, moment, cleared, photoRows, hook, media, handed, mishap>>,
           ChatTyped', ProcessTyped', WhatsAppTyped', \A j \in closing' : Past(j.at),
           \A m \in Msg : sending'[m] > 0 => IsStaff(m), FromKept,
           \A m \in Msg : RowGoesOn(m) /\ (Present(m) => RowFits(chat'[m]) /\ AnswerFits(m)'),
           \A m \in Msg : IsStaff(m) /\ ~Unsent(m) => ~Unsent(m)',
           \A e \in heard' : IsStaff(e.m) /\ Says(e)',
           NEW w \in Clerk, NEW r \in ChatVisit, visit' = [visit EXCEPT ![w] = r],
           Knows(r) \/ Knows(r)', ComesAlone(w, r), HoldsOn(w, r)
    PROVE  ChatInv'
<1>1. ChatRowsTyped' /\ ChatRowsTyped /\ Typed /\ RowsFit
  BY DEF ChatInv, Typed, ChatRowsTyped, InboxTyped, PhotoTyped, inboxRows, photoRows
<1>2. \A m \in Msg : PictureGoesOn(m) BY PicturesRest DEF photoRows
<1>3. RowsGoOn
  <2>1. MailboxGoesOn /\ receipts' = receipts BY DEF MailboxGoesOn, inboxRows
  <2>2. moment \in Nat BY <1>1 DEF ChatRowsTyped, ProcessTyped
  <2> QED BY <1>2, <2>1, <2>2 DEF RowsGoOn, OthersGoOn
<1>4. \A m \in Msg : /\ Present(m)' <=> Present(m)
                     /\ IsWam(m)' <=> IsWam(m)
                     /\ IsStaff(m)' <=> IsStaff(m)
  BY <1>1, PresentKept DEF ChatRowsTyped
<1>5. MarkFits' BY <1>1, <1>3, MarkRests DEF RowsFit, inboxRows
<1>6. JoinsFit' BY <1>4 DEF JoinsFit, RowFits, IsClosed
<1>7. StatusFits'
  <2>1. \A m \in Msg : AnswerFits(m)'
    <3>1. \A m \in Msg : ~Present(m) => ~IsStaff(m)' /\ ~Present(m)' BY <1>1, <1>4, MessageIs DEF ChatRowsTyped
    <3> QED BY <3>1 DEF AnswerFits
  <2>2. \A e \in heard' : e.m \in Msg BY <1>1 DEF ChatRowsTyped, WhatsAppTyped, HeardRow
  <2>3. \A e \in heard' : IsStaff(e.m)' BY <1>4, <2>2
  <2> QED BY <2>1, <2>3 DEF StatusFits
<1>8. SentFits' BY <1>1, SentRests DEF ChatInv, RowsFit, ChatRowsTyped, HoldsOn
<1>9. /\ \A m \in Msg : media'[m] > 0 => IsWam(m)
      /\ \A m \in Msg : handed'[m] > 0 \/ sending'[m] > 0 => IsStaff(m)
  BY <1>1 DEF RowsFit, PhotoFits, SendsFit
<1>10. Knows(r)'
  <2>1. CASE Knows(r)
    <3>1. LeftAlone(r) BY <1>1, <2>1, Untouched
    <3> QED BY <1>1, <1>3, <2>1, <3>1, KnowsStays
  <2> QED BY <2>1
<1> QED BY <1>1, <1>3, <1>5, <1>6, <1>7, <1>8, <1>9, <1>10, CalmMoves

LEMMA JobMoves ==
    ASSUME ChatInv, UNCHANGED <<inboxRows, chat, processRows, photoRows, hook, heard, handed, mishap>>,
           media' \in [Msg -> Int], sending' \in [Msg -> Int],
           \A m \in Msg : media'[m] > 0 => IsWam(m),
           \A m \in Msg : sending'[m] > 0 => IsStaff(m),
           NEW w \in Clerk, NEW r \in ChatVisit, visit' = [visit EXCEPT ![w] = r],
           Knows(r) \/ Knows(r)', ComesAlone(w, r), HoldsOn(w, r)
    PROVE  ChatInv'
<1>1. ChatRowsTyped' /\ ChatRowsTyped /\ Typed /\ RowsFit
  BY DEF ChatInv, Typed, ChatRowsTyped, InboxTyped, ChatTyped, PhotoTyped, WhatsAppTyped, ProcessTyped, inboxRows,
         processRows, photoRows
<1>2. FromKept /\ \A m \in Msg : RowGoesOn(m) /\ PictureGoesOn(m) BY <1>1, RowsRest, PicturesRest DEF photoRows
<1>3. RowsGoOn
  <2>1. MailboxGoesOn /\ receipts' = receipts BY DEF MailboxGoesOn, inboxRows
  <2>2. moment \in Nat /\ moment' = moment BY <1>1 DEF ChatRowsTyped, ProcessTyped, processRows
  <2> QED BY <1>2, <2>1, <2>2 DEF RowsGoOn, OthersGoOn
<1>4. MarkFits' BY <1>1, <1>3, MarkRests DEF RowsFit, inboxRows
<1>5. JoinsFit' BY <1>1 DEF RowsFit, JoinsFit, RowFits, Present, IsClosed, processRows
<1>6. StatusFits' BY <1>1 DEF RowsFit, StatusFits, AnswerFits, Says, IsStaff, Present
<1>7. SentFits'
  <2>1. \A m \in Msg : ~Unsent(m) => ~Unsent(m)' BY DEF Unsent
  <2> QED BY <1>1, <2>1, SentRests DEF ChatInv, RowsFit, ChatRowsTyped, HoldsOn
<1>8. \A m \in Msg : handed'[m] > 0 \/ sending'[m] > 0 => IsStaff(m) BY <1>1 DEF RowsFit, SendsFit
<1>9. UNCHANGED <<dossier, moment, cleared>> /\ \A j \in closing' : Past(j.at)
  BY <1>1 DEF RowsFit, ClosingFits, processRows
<1>10. Knows(r)'
  <2>1. CASE Knows(r)
    <3>1. LeftAlone(r) BY <1>1, <1>2, <2>1, Untouched
    <3> QED BY <1>1, <1>3, <2>1, <3>1, KnowsStays
  <2> QED BY <2>1
<1> QED BY <1>1, <1>2, <1>3, <1>4, <1>5, <1>6, <1>7, <1>8, <1>9, <1>10, CalmMoves

-----------------------------------------------------------------------------

LEMMA DeleteEndsMoves ==
    ASSUME ChatInv, NEW w \in Clerk, DeleteEnds(w)
    PROVE  ChatInv'
<1>1. visit[w].op = "delete" /\ UNCHANGED <<dossier, moment, inboxRows, chat, photoRows, whatsAppRows, mishap>>
  BY DEF DeleteEnds, Doing
<1>2. PICK v \in DeleteVisit : v = visit[w] /\ Knows(v) BY <1>1, VisitKinds DEF ChatInv, Typed
<1>3. PICK then \in Back \cup Mend : then = v.then BY <1>2 DEF DeleteVisit
<1>4. PICK r : r = IF then.op = "mend" THEN NoVisit ELSE then OBVIOUS
<1>5. v.op = "delete" /\ v.todo = {} /\ visit' = [visit EXCEPT ![w] = r]
  BY <1>2, <1>3, <1>4 DEF DeleteEnds, DeleteVisit, Continue
<1>6. \/ closing' = closing /\ cleared' = cleared
      \/ /\ then.op = "mend" /\ ~v.failed /\ closing' = {j \in closing : j.at # then.at}
         /\ cleared' = cleared \cup {then.at}
  BY <1>2, <1>3 DEF DeleteEnds
<1>7. Typed /\ RowsFit /\ moment \in Nat BY DEF ChatInv, Typed, ChatRowsTyped, ProcessTyped
<1>8. then.op = "mend" => then.at \in Nat /\ Past(then.at)
  <2>1. then.op = "mend" => then \in Mend BY <1>3 DEF Back, Mend, NoVisit, ReadingOf
  <2> QED BY <1>2, <1>3, <1>5, <2>1 DEF Knows, TimeKnows, Mend
<1>9. ProcessTyped' BY <1>1, <1>6, <1>7, <1>8 DEF Typed, ChatRowsTyped, ProcessTyped
<1>10. ClosingFits'
  <2>1. \A j \in closing' : j \in closing BY <1>6
  <2>2. \A at \in cleared' : at \in cleared \/ Past(at) BY <1>6, <1>8
  <2> QED BY <1>1, <1>7, <2>1, <2>2 DEF RowsFit, ClosingFits, Past
<1>11. \A m \in Msg : Present(m) => RowFits(chat[m])' BY <1>1, <1>7 DEF RowsFit, JoinsFit, RowFits, IsClosed
<1>12. \A at \in cleared' \ cleared : \A m \in Msg : OfPhase(m, at) => chat[m].anchor # 0 /\ ~Live(m)
  <2> SUFFICES ASSUME then.op = "mend", ~v.failed, NEW m \in Msg, OfPhase(m, then.at)
               PROVE chat[m].anchor # 0 /\ ~Live(m)
    BY <1>6
  <2> QED BY <1>2, <1>3, <1>5 DEF Knows, MendKnows
<1>13. r = NoVisit \/ (r = then /\ r \in ReadingOf("handled") /\ r.op = "handled")
  BY <1>3, <1>4 DEF Back, Mend, ReadingOf
<1>14. r \in ChatVisit /\ Knows(r)' /\ ComesAlone(w, r)
  <2>1. CASE r = NoVisit BY <2>1, EndsComesAlone
  <2>2. CASE r = then /\ r \in ReadingOf("handled") /\ r.op = "handled"
    <3>1. "rebuilt" \notin mishap => Reads(r, r.uid + 1) BY <1>2, <1>3, <1>5, <2>2 DEF Knows, PollKnows
    <3>2. "rebuilt" \notin mishap' => PollKnows(r)' BY <1>1, <2>2, <3>1 DEF PollKnows, Reads, NotedTo, Noted, inboxRows
    <3> QED BY <2>2, <3>2, ReadingKnows DEF ChatVisit
  <2> QED BY <1>13, <2>1, <2>2
<1>15. HoldsOn(w, r) BY <1>1, HoldsNothing DEF HoldOps
<1>16. moment <= moment' BY <1>1, <1>7
<1> QED BY <1>1, <1>5, <1>9, <1>10, <1>11, <1>12, <1>14, <1>15, <1>16, ProcessMoves

LEMMA ProcessClosesMoves ==
    ASSUME ChatInv, NEW w \in Clerk, ProcessCloses(w)
    PROVE  ChatInv'
<1>1. /\ dossier' = moment /\ moment' = moment + 1
      /\ UNCHANGED <<inboxRows, chat, closing, cleared, photoRows, whatsAppRows, mishap>>
  BY DEF ProcessCloses
<1>2. PICK r : r = [op |-> "closed", at |-> moment] OBVIOUS
<1>3. Typed /\ RowsFit /\ moment \in Nat /\ moment >= 1
  BY DEF ChatInv, Typed, ChatRowsTyped, ProcessTyped, RowsFit, ClosingFits
<1>4. visit' = [visit EXCEPT ![w] = r] /\ HoldsOn(w, r) BY <1>2, <1>3, BeginsIdle DEF ProcessCloses
<1>5. r \in ChatVisit /\ r.op = "closed" /\ r.at = moment BY <1>2, <1>3 DEF ChatVisit, ClosedVisit
<1>6. ProcessTyped' /\ moment <= moment' BY <1>1, <1>3 DEF Typed, ChatRowsTyped, ProcessTyped
<1>7. ClosingFits'
  <2>1. \A at \in Nat : Past(at) => Past(at)' BY <1>1, <1>3 DEF Past
  <2>2. \A j \in closing : j.at \in Nat BY <1>3 DEF Typed, ChatRowsTyped, ProcessTyped
  <2>3. \A at \in cleared : at \in Nat BY <1>3 DEF Typed, ChatRowsTyped, ProcessTyped
  <2>4. moment' >= 1 /\ dossier' = moment' - 1 BY <1>1, <1>3
  <2> QED BY <1>1, <1>3, <2>1, <2>2, <2>3, <2>4 DEF RowsFit, ClosingFits
<1>8. \A m \in Msg : Present(m) => RowFits(chat[m])'
  <2> SUFFICES ASSUME NEW m \in Msg, Present(m) PROVE RowFits(chat[m])' OBVIOUS
  <2>1. PICK row \in MessageRow : row = chat[m] BY <1>3, MessageIs DEF Typed, ChatRowsTyped
  <2>2. row.joined \in Nat /\ row.anchor \in Nat BY <2>1 DEF MessageRow
  <2>3. row.joined <= moment /\ row.anchor < moment /\ (row.anchor # 0 => row.mine)
    BY <1>3, <2>1 DEF RowsFit, JoinsFit, RowFits
  <2>4. row.joined <= moment' /\ row.anchor < moment' /\ row.joined < moment' BY <1>1, <1>3, <2>2, <2>3
  <2>5. chat'[m] = row BY <1>1, <2>1
  <2> QED BY <2>3, <2>4, <2>5 DEF RowFits
<1>9. Knows(r)'
  <2>1. TimeKnows(r)' BY <1>1, <1>3, <1>5 DEF TimeKnows, Past
  <2> QED BY <1>5, <2>1 DEF Knows, PollKnows, RunKnows, DeleteKnows, MendKnows, SendKnows, FetchOps, SendOps
<1>10. ComesAlone(w, r) BY <1>5, QuietComesAlone DEF FetchOps
<1>11. \A at \in cleared' \ cleared : \A m \in Msg : OfPhase(m, at) => chat[m].anchor # 0 /\ ~Live(m) BY <1>1
<1> QED BY <1>1, <1>4, <1>5, <1>6, <1>7, <1>8, <1>9, <1>10, <1>11, ProcessMoves

LEMMA ClosingToldMoves ==
    ASSUME ChatInv, NEW w \in Clerk, ClosingTold(w)
    PROVE  ChatInv'
<1>1. visit[w].op = "closed" /\ UNCHANGED <<dossier, moment, cleared, inboxRows, chat, photoRows, whatsAppRows, mishap>>
  BY DEF ClosingTold, Doing
<1>2. PICK v \in ClosedVisit : v = visit[w] /\ Knows(v) BY <1>1, VisitKinds DEF ChatInv, Typed
<1>3. v.op = "closed" /\ v.at \in Nat /\ Past(v.at) BY <1>2 DEF ClosedVisit, Knows, TimeKnows
<1>4. visit' = [visit EXCEPT ![w] = NoVisit] /\ closing' = closing \cup {[at |-> v.at, left |-> JobTries]}
  BY <1>2 DEF ClosingTold, End
<1>5. Typed /\ RowsFit /\ moment \in Nat BY DEF ChatInv, Typed, ChatRowsTyped, ProcessTyped
<1>6. ProcessTyped' /\ moment <= moment' BY <1>1, <1>3, <1>4, <1>5, ChatAssumption DEF Typed, ChatRowsTyped, ProcessTyped
<1>7. ClosingFits'
  <2>1. \A j \in closing' : j \in closing \/ j.at = v.at BY <1>4
  <2> QED BY <1>1, <1>3, <1>5, <2>1 DEF RowsFit, ClosingFits, Past
<1>8. \A m \in Msg : Present(m) => RowFits(chat[m])' BY <1>1, <1>5 DEF RowsFit, JoinsFit, RowFits, IsClosed
<1>9. HoldsOn(w, NoVisit) BY <1>1, HoldsNothing DEF HoldOps
<1> QED BY <1>1, <1>4, <1>6, <1>7, <1>8, <1>9, EndsComesAlone, ProcessMoves

LEMMA ProcessReopensMoves ==
    ASSUME ChatInv, ProcessReopens
    PROVE  ChatInv'
<1>1. dossier' = 0 /\ UNCHANGED <<visit, moment, closing, cleared, inboxRows, chat, photoRows, whatsAppRows, mishap>>
  BY DEF ProcessReopens
<1>2. Typed /\ RowsFit /\ moment \in Nat BY DEF ChatInv, Typed, ChatRowsTyped, ProcessTyped
<1>3. ProcessTyped' /\ moment <= moment' BY <1>1, <1>2 DEF Typed, ChatRowsTyped, ProcessTyped
<1>4. ClosingFits' BY <1>1, <1>2 DEF RowsFit, ClosingFits, Past
<1>5. \A m \in Msg : Present(m) => RowFits(chat[m])' BY <1>1, <1>2 DEF RowsFit, JoinsFit, RowFits, IsClosed
<1>6. PICK w \in Clerk, r \in ChatVisit : /\ r = visit[w] /\ visit' = [visit EXCEPT ![w] = r] /\ Knows(r)
                                          /\ ComesAlone(w, r) /\ HoldsOn(w, r)
  BY <1>1, NobodyMoves
<1> QED BY <1>1, <1>3, <1>4, <1>5, <1>6, ProcessMoves

-----------------------------------------------------------------------------
(* The job that fetches a picture.                                           *)

\* a request that deals with a picture, or has dealt with it
LEMMA FetchKnows ==
    ASSUME NEW m \in Msg, NEW r, r.op \in FetchOps \cup {"done"}, r.m = m, r.op \in FetchOps => IsWam(m) /\ photo[m] = "none",
           r.op = "register" => m \in files
    PROVE  Knows(r)
BY DEF Knows, PollKnows, RunKnows, TimeKnows, DeleteKnows, MendKnows, SendKnows, FetchOps, SendOps

LEMMA RunIs ==
    ASSUME NEW op \in Runs, NEW m \in Msg, NEW r, r = [op |-> op, m |-> m]
    PROVE  r \in ChatVisit /\ r \in RunVisit /\ r.op = op /\ r.m = m
BY DEF ChatVisit, RunVisit

LEMMA PictureWantedMoves ==
    ASSUME ChatInv, NEW w \in Clerk, PictureWanted(w)
    PROVE  ChatInv'
<1>1. visit[w].op = "picture" /\ UNCHANGED <<inboxRows, chat, processRows, photoRows, hook, heard, sending, handed, mishap>>
  BY DEF PictureWanted, Doing
<1>2. PICK v \in RunVisit : v = visit[w] /\ Knows(v) BY <1>1, VisitKinds DEF ChatInv, Typed, Runs
<1>3. v.m \in Msg /\ IsWam(v.m) BY <1>1, <1>2 DEF RunVisit, Knows, RunKnows
<1>4. Typed /\ RowsFit BY DEF ChatInv
<1>5. media' = [media EXCEPT ![v.m] = IF @ = NeverAsked THEN JobTries ELSE @] /\ End(w) BY <1>2 DEF PictureWanted
<1>6. media' \in [Msg -> Int] /\ \A m \in Msg : media'[m] > 0 => IsWam(m)
  BY <1>3, <1>4, <1>5, ChatAssumption DEF Typed, ChatRowsTyped, WhatsAppTyped, RowsFit, PhotoFits
<1>7. sending' \in [Msg -> Int] /\ \A m \in Msg : sending'[m] > 0 => IsStaff(m)
  BY <1>1, <1>4 DEF Typed, ChatRowsTyped, WhatsAppTyped, RowsFit, SendsFit
<1>8. visit[w].op \notin HoldOps \cup {"sent"} BY <1>1 DEF HoldOps
<1> QED BY <1>1, <1>4, <1>5, <1>6, <1>7, <1>8, Ends, JobMoves

LEMMA JobDoneMoves ==
    ASSUME ChatInv, NEW w \in Clerk, JobDone(w)
    PROVE  ChatInv'
<1>1. visit[w].op = "done" /\ UNCHANGED <<inboxRows, chat, processRows, photoRows, hook, heard, handed, mishap>> /\ End(w)
  BY DEF JobDone, Doing
<1>2. PICK m \in Msg : m = visit[w].m BY <1>1, VisitOfMessage DEF ChatInv, Typed, Runs
<1>3. media' = [media EXCEPT ![m] = IF @ > 0 THEN 0 ELSE @] /\ sending' = [sending EXCEPT ![m] = IF @ > 0 THEN 0 ELSE @]
  BY <1>2 DEF JobDone
<1>4. Typed /\ RowsFit BY DEF ChatInv
<1>5. media' \in [Msg -> Int] /\ \A n \in Msg : media'[n] > 0 => IsWam(n)
  BY <1>3, <1>4 DEF Typed, ChatRowsTyped, WhatsAppTyped, RowsFit, PhotoFits
<1>6. sending' \in [Msg -> Int] /\ \A n \in Msg : sending'[n] > 0 => IsStaff(n)
  BY <1>3, <1>4 DEF Typed, ChatRowsTyped, WhatsAppTyped, RowsFit, SendsFit
<1>7. visit[w].op \notin HoldOps \cup {"sent"} BY <1>1 DEF HoldOps
<1> QED BY <1>1, <1>4, <1>5, <1>6, <1>7, Ends, JobMoves

LEMMA MediaBeginsMoves ==
    ASSUME ChatInv, NEW w \in Clerk, NEW m \in Msg, MediaBegins(w, m)
    PROVE  ChatInv'
<1>1. /\ UNCHANGED <<inboxRows, chat, processRows, photoRows, hook, heard, sending, handed, mishap>>
      /\ media[m] > 0 /\ ~InHand(m, MediaOps)
  BY DEF MediaBegins
<1>2. Typed /\ RowsFit BY DEF ChatInv
<1>3. IsWam(m) BY <1>1, <1>2 DEF RowsFit, PhotoFits
<1>4. sending' \in [Msg -> Int] /\ \A n \in Msg : sending'[n] > 0 => IsStaff(n)
  BY <1>1, <1>2 DEF Typed, ChatRowsTyped, WhatsAppTyped, RowsFit, SendsFit
<1>5. media' \in [Msg -> Int] /\ \A n \in Msg : media'[n] > 0 => IsWam(n)
  BY <1>2, <1>3 DEF MediaBegins, Typed, ChatRowsTyped, WhatsAppTyped, RowsFit, PhotoFits
<1>6. CASE photo[m] # "none"
  <2>1. UNCHANGED visit BY <1>6 DEF MediaBegins
  <2>2. PICK x \in Clerk, r \in ChatVisit : /\ r = visit[x] /\ visit' = [visit EXCEPT ![x] = r] /\ Knows(r)
                                            /\ ComesAlone(x, r) /\ HoldsOn(x, r)
    BY <2>1, NobodyMoves
  <2> QED BY <1>1, <1>4, <1>5, <2>2, JobMoves
<1>7. CASE photo[m] = "none"
  <2>1. PICK op \in {"discard", "fetch"} : op = IF Blocked(m) THEN "discard" ELSE "fetch" OBVIOUS
  <2>2. PICK r : r = [op |-> op, m |-> m] OBVIOUS
  <2>3. Begin(w, r) BY <1>7, <2>1, <2>2 DEF MediaBegins
  <2>4. r \in ChatVisit /\ r.op = op /\ r.m = m BY <2>2, RunIs DEF Runs
  <2>5. Knows(r) BY <1>3, <1>7, <2>4, FetchKnows DEF FetchOps
  <2>6. ComesAlone(w, r) BY <1>1, <2>4 DEF ComesAlone, InHand, Doing, MediaOps, FetchOps
  <2> QED BY <1>1, <1>2, <1>4, <1>5, <2>3, <2>4, <2>5, <2>6, BeginsIdle, JobMoves
<1> QED BY <1>6, <1>7

LEMMA MediaFetchedMoves ==
    ASSUME ChatInv, NEW w \in Clerk, MediaFetched(w)
    PROVE  ChatInv'
<1>1. visit[w].op = "fetch" /\ UNCHANGED <<inboxRows, chat, photo, processRows, hook, heard, sending, handed, mishap>>
  BY DEF MediaFetched, Doing
<1>2. PICK v \in RunVisit : v = visit[w] /\ Knows(v) BY <1>1, VisitKinds DEF ChatInv, Typed, Runs
<1>3. PICK m \in Msg : m = v.m BY <1>2 DEF RunVisit
<1>4. IsWam(m) /\ photo[m] = "none" BY <1>1, <1>2, <1>3 DEF Knows, RunKnows, FetchOps
<1>5. Typed /\ RowsFit BY DEF ChatInv
<1>6. Present(m) BY <1>4, <1>5, MessageIs DEF Typed, ChatRowsTyped
<1>7. CASE files' = files \cup {m} /\ Continue(w, [op |-> "register", m |-> m]) /\ UNCHANGED media
  <2>1. PICK r : r = [op |-> "register", m |-> m] OBVIOUS
  <2>2. visit' = [visit EXCEPT ![w] = r] BY <1>7, <2>1 DEF Continue
  <2>3. r \in ChatVisit /\ r.op = "register" /\ r.m = m BY <2>1, RunIs DEF Runs
  <2>4. Knows(r)' BY <1>1, <1>4, <1>7, <2>3
    DEF Knows, PollKnows, RunKnows, TimeKnows, DeleteKnows, MendKnows, SendKnows, FetchOps, SendOps, IsWam
  <2>5. ComesAlone(w, r) BY <1>1, <1>2, <1>3, <2>3, StaysAlone DEF ChatInv, FetchOps
  <2>6. HoldsAnswer(w, r) BY <1>1 DEF HoldsAnswer
  <2>7. PhotoTyped' BY <1>1, <1>5, <1>7 DEF Typed, ChatRowsTyped, PhotoTyped
  <2>8. media' \in [Msg -> Int] /\ media' = media BY <1>5, <1>7 DEF Typed, ChatRowsTyped, WhatsAppTyped
  <2>9. PhotoFits' BY <1>1, <1>4, <1>5, <1>7, <2>8 DEF RowsFit, PhotoFits, Present, IsWam
  <2>10. LossFits' BY <1>1, <1>5, <1>7 DEF RowsFit, LossFits, Deletable, processRows
  <2>11. FilesFit'
    <3> SUFFICES ASSUME mishap' \subseteq {"rebuilt"}, NEW n \in files', ~Live(n)'
                 PROVE \E x \in Clerk : visit'[x].op \in HoldOps /\ visit'[x].m = n
      BY DEF FilesFit
    <3>1. visit'[w] = r /\ \A x \in Clerk \ {w} : visit'[x] = visit[x] BY <1>5, <2>2 DEF Typed
    <3>2. CASE n = m BY <2>3, <3>1, <3>2 DEF HoldOps
    <3>3. CASE n # m
      <4>1. n \in files /\ ~Live(n) BY <1>1, <1>7, <3>3 DEF Live
      <4>2. PICK x \in Clerk : visit[x].op \in HoldOps /\ visit[x].m = n BY <1>1, <4>1 DEF ChatInv, FilesFit
      <4>3. x # w BY <1>1, <4>2 DEF HoldOps
      <4> QED BY <3>1, <4>2, <4>3
    <3> QED BY <3>2, <3>3
  <2>12. ASSUME NEW x \in Clerk \ {w}, NEW u \in ChatVisit, u = visit[x] PROVE LeftAlone(u)
    <3>1. Knows(u) BY <2>12 DEF ChatInv
    <3>2. u.op = "store" => ~Present(u.m)' /\ (u.m \in files <=> u.m \in files')
      BY <1>1, <1>6, <1>7, <3>1 DEF Knows, RunKnows, Present
    <3>3. u.op = "gone" => u.m \notin files' BY <1>4, <1>7, <3>1 DEF Knows, DeleteKnows
    <3> QED BY <1>1, <1>7, <3>1, <3>2, <3>3 DEF LeftAlone, Knows, RunKnows
  <2>13. \A n \in Msg : PictureGoesOn(n) BY <1>1, PicturesRest
  <2> QED BY <1>1, <2>2, <2>3, <2>4, <2>5, <2>6, <2>7, <2>8, <2>9, <2>10, <2>11, <2>12, <2>13, PictureMoves
<1>8. CASE files' = files /\ End(w) /\ (media' = media \/ media' = [media EXCEPT ![m] = 0])
  <2>1. media' \in [Msg -> Int] /\ \A n \in Msg : media'[n] > 0 => IsWam(n)
    BY <1>5, <1>8 DEF Typed, ChatRowsTyped, WhatsAppTyped, RowsFit, PhotoFits
  <2>2. sending' \in [Msg -> Int] /\ \A n \in Msg : sending'[n] > 0 => IsStaff(n)
    BY <1>1, <1>5 DEF Typed, ChatRowsTyped, WhatsAppTyped, RowsFit, SendsFit
  <2>3. visit[w].op \notin HoldOps \cup {"sent"} BY <1>1 DEF HoldOps
  <2>4. UNCHANGED photoRows BY <1>1, <1>8 DEF photoRows
  <2> QED BY <1>1, <1>5, <1>8, <2>1, <2>2, <2>3, <2>4, Ends, JobMoves
<1>9. \/ files' = files \cup {m} /\ Continue(w, [op |-> "register", m |-> m]) /\ UNCHANGED media
      \/ files' = files /\ End(w) /\ (media' = media \/ media' = [media EXCEPT ![m] = 0])
  BY <1>2, <1>3 DEF MediaFetched
<1> QED BY <1>7, <1>8, <1>9

LEMMA MediaRegisteredMoves ==
    ASSUME ChatInv, NEW w \in Clerk, MediaRegistered(w)
    PROVE  ChatInv'
<1>1. visit[w].op = "register" /\ UNCHANGED <<inboxRows, chat, files, processRows, whatsAppRows, mishap>>
  BY DEF MediaRegistered, Doing
<1>2. PICK v \in RunVisit : v = visit[w] /\ Knows(v) BY <1>1, VisitKinds DEF ChatInv, Typed, Runs
<1>3. PICK m \in Msg : m = v.m BY <1>2 DEF RunVisit
<1>4. IsWam(m) /\ photo[m] = "none" /\ m \in files BY <1>1, <1>2, <1>3 DEF Knows, RunKnows, FetchOps
<1>5. Typed /\ RowsFit BY DEF ChatInv
<1>6. Present(m) BY <1>4, <1>5, MessageIs DEF Typed, ChatRowsTyped
<1>7. CASE Blocked(m)
  <2>1. PICK r : r = [op |-> "discard", m |-> m] OBVIOUS
  <2>2. visit' = [visit EXCEPT ![w] = r] /\ UNCHANGED photoRows
    BY <1>1, <1>2, <1>3, <1>7, <2>1 DEF MediaRegistered, Continue, photoRows
  <2>3. r \in ChatVisit /\ r.op = "discard" /\ r.m = m BY <2>1, RunIs DEF Runs
  <2>4. Knows(r) BY <1>4, <2>3, FetchKnows DEF FetchOps
  <2>5. ComesAlone(w, r) BY <1>1, <1>2, <1>3, <2>3, StaysAlone DEF ChatInv, FetchOps
  <2>6. HoldsOn(w, r) BY <1>1, <1>2, <1>3, <2>3 DEF HoldsOn, HoldsFile, HoldsAnswer, HoldOps
  <2> QED BY <1>1, <2>2, <2>3, <2>4, <2>5, <2>6, VisitMoves
<1>8. CASE ~Blocked(m)
  <2>1. PICK r : r = [op |-> "done", m |-> m] OBVIOUS
  <2>2. visit' = [visit EXCEPT ![w] = r] /\ photo' = [photo EXCEPT ![m] = "live"]
    BY <1>2, <1>3, <1>8, <2>1 DEF MediaRegistered, Continue
  <2>3. r \in ChatVisit /\ r.op = "done" /\ r.m = m BY <2>1, RunIs DEF Runs
  <2>4. Knows(r)' BY <2>3
    DEF Knows, PollKnows, RunKnows, TimeKnows, DeleteKnows, MendKnows, SendKnows, FetchOps, SendOps
  <2>5. ComesAlone(w, r) BY <2>3, QuietComesAlone DEF FetchOps
  <2>6. HoldsAnswer(w, r) BY <1>1 DEF HoldsAnswer
  <2>7. PhotoTyped' /\ photo'[m] = "live" /\ \A n \in Msg \ {m} : photo'[n] = photo[n]
    BY <1>1, <1>5, <2>2 DEF Typed, ChatRowsTyped, PhotoTyped
  <2>8. media' \in [Msg -> Int] /\ media' = media BY <1>1, <1>5 DEF Typed, ChatRowsTyped, WhatsAppTyped, whatsAppRows
  <2>9. PhotoFits' BY <1>1, <1>5, <1>6, <2>7, <2>8 DEF RowsFit, PhotoFits, Present, IsWam
  <2>10. LossFits' BY <1>1, <1>4, <1>5, <2>7 DEF RowsFit, LossFits, Deletable, processRows
  <2>11. FilesFit'
    <3> SUFFICES ASSUME mishap' \subseteq {"rebuilt"}, NEW n \in files', ~Live(n)'
                 PROVE \E x \in Clerk : visit'[x].op \in HoldOps /\ visit'[x].m = n
      BY DEF FilesFit
    <3>1. n # m /\ n \in files /\ n \in Msg BY <1>1, <1>5, <2>7 DEF Live, Typed, ChatRowsTyped, PhotoTyped
    <3>2. ~Live(n) BY <2>7, <3>1 DEF Live
    <3>3. PICK x \in Clerk : visit[x].op \in HoldOps /\ visit[x].m = n BY <1>1, <3>1, <3>2 DEF ChatInv, FilesFit
    <3>4. x # w BY <1>2, <1>3, <3>1, <3>3
    <3> QED BY <1>5, <2>2, <3>3, <3>4 DEF Typed
  <2>12. ASSUME NEW x \in Clerk \ {w}, NEW u \in ChatVisit, u = visit[x] PROVE LeftAlone(u)
    <3>1. Knows(u) BY <2>12 DEF ChatInv
    <3>2. u.op = "store" => ~Present(u.m)' BY <1>1, <3>1 DEF Knows, RunKnows, Present
    <3>3. u.op \in FetchOps => photo'[u.m] = "none"
      <4>1. u.op \in FetchOps => u.m \in Msg /\ photo[u.m] = "none" BY <3>1, VisitOfMessage DEF Knows, RunKnows, FetchOps, Runs
      <4>2. u.op \in FetchOps => u.m # m BY <1>1, <1>2, <1>3, <2>12 DEF ChatInv, VisitsApart, ApartIn, FetchOps
      <4> QED BY <2>7, <4>1, <4>2
    <3> QED BY <1>1, <3>1, <3>2, <3>3 DEF LeftAlone, Knows, RunKnows, DeleteKnows, whatsAppRows
  <2>13. \A n \in Msg : PictureGoesOn(n)
    <3>1. PictureGoesOn(m) BY <1>4, <1>8, <2>7 DEF PictureGoesOn, Blocked
    <3> QED BY <2>7, <3>1 DEF PictureGoesOn, Live
  <2>14. UNCHANGED <<hook, heard, sending, handed>> /\ mishap \subseteq mishap' BY <1>1 DEF whatsAppRows
  <2> QED BY <1>1, <2>2, <2>3, <2>4, <2>5, <2>6, <2>7, <2>8, <2>9, <2>10, <2>11, <2>12, <2>13, <2>14, PictureMoves
<1> QED BY <1>7, <1>8

LEMMA MediaDiscardedMoves ==
    ASSUME ChatInv, NEW w \in Clerk, MediaDiscarded(w)
    PROVE  ChatInv'
<1>1. /\ visit[w].op = "discard" /\ UNCHANGED <<inboxRows, chat, photo, processRows, hook, heard, sending, handed>>
      /\ visit' = [visit EXCEPT ![w] = NoVisit]
  BY DEF MediaDiscarded, Doing, End
<1>2. PICK v \in RunVisit : v = visit[w] /\ Knows(v) BY <1>1, VisitKinds DEF ChatInv, Typed, Runs
<1>3. PICK m \in Msg : m = v.m BY <1>2 DEF RunVisit
<1>4. IsWam(m) /\ photo[m] = "none" BY <1>1, <1>2, <1>3 DEF Knows, RunKnows, FetchOps
<1>5. Typed /\ RowsFit BY DEF ChatInv
<1>6. Present(m) BY <1>4, <1>5, MessageIs DEF Typed, ChatRowsTyped
<1>7. \/ files' = files \ {m} /\ media' = [media EXCEPT ![m] = 0] /\ mishap' = mishap
      \/ mishap' = mishap \cup {"storage"} /\ files' = files /\ media' = media
  BY <1>2, <1>3 DEF MediaDiscarded
<1>8. files' \subseteq files /\ files \ {m} \subseteq files' /\ mishap \subseteq mishap' BY <1>7
<1>9. media' \in [Msg -> Int] /\ \A n \in Msg : media'[n] > 0 => IsWam(n)
  BY <1>5, <1>7 DEF Typed, ChatRowsTyped, WhatsAppTyped, RowsFit, PhotoFits
<1>10. PhotoTyped' BY <1>1, <1>5, <1>8 DEF Typed, ChatRowsTyped, PhotoTyped
<1>11. PhotoFits' BY <1>1, <1>5, <1>8, <1>9 DEF RowsFit, PhotoFits, Present, IsWam
<1>12. LossFits' BY <1>1, <1>4, <1>5, <1>8 DEF RowsFit, LossFits, Deletable, processRows
<1>13. FilesFit'
  <2> SUFFICES ASSUME mishap' \subseteq {"rebuilt"}, NEW n \in files', ~Live(n)'
               PROVE \E x \in Clerk : visit'[x].op \in HoldOps /\ visit'[x].m = n
    BY DEF FilesFit
  <2>1. n \in files /\ n # m /\ ~Live(n) BY <1>1, <1>7 DEF Live
  <2>2. PICK x \in Clerk : visit[x].op \in HoldOps /\ visit[x].m = n BY <1>8, <2>1 DEF ChatInv, FilesFit
  <2>3. x # w BY <1>2, <1>3, <2>1, <2>2
  <2> QED BY <1>1, <1>5, <2>2, <2>3 DEF Typed
<1>14. ASSUME NEW x \in Clerk \ {w}, NEW u \in ChatVisit, u = visit[x] PROVE LeftAlone(u)
  <2>1. Knows(u) BY <1>14 DEF ChatInv
  <2>2. u.op = "store" => ~Present(u.m)' /\ (u.m \in files <=> u.m \in files')
    BY <1>1, <1>6, <1>8, <2>1 DEF Knows, RunKnows, Present
  <2>3. u.op = "register" => u.m \in files'
    <3>1. u.op = "register" => u.m # m BY <1>1, <1>2, <1>3, <1>14 DEF ChatInv, VisitsApart, ApartIn, FetchOps
    <3> QED BY <1>8, <2>1, <3>1 DEF Knows, RunKnows
  <2> QED BY <1>1, <1>8, <2>1, <2>2, <2>3 DEF LeftAlone, Knows, RunKnows, DeleteKnows
<1>15. \A n \in Msg : PictureGoesOn(n) BY <1>1, PicturesRest
<1>16. HoldsAnswer(w, NoVisit) BY <1>1 DEF HoldsAnswer
<1> QED BY <1>1, <1>8, <1>9, <1>10, <1>11, <1>12, <1>13, <1>14, <1>15, <1>16, EndsComesAlone, PictureMoves

-----------------------------------------------------------------------------
(* The job that sends an answer.                                             *)

LEMMA SendEnqueuedMoves ==
    ASSUME ChatInv, NEW w \in Clerk, SendEnqueued(w)
    PROVE  ChatInv'
<1>1. visit[w].op = "enqueue" /\ UNCHANGED <<inboxRows, chat, processRows, photoRows, hook, heard, media, handed, mishap>>
  BY DEF SendEnqueued, Doing
<1>2. PICK v \in RunVisit : v = visit[w] /\ Knows(v) BY <1>1, VisitKinds DEF ChatInv, Typed, Runs
<1>3. v.m \in Msg /\ IsStaff(v.m) BY <1>1, <1>2 DEF RunVisit, Knows, SendKnows, SendOps
<1>4. Typed /\ RowsFit BY DEF ChatInv
<1>5. sending' = [sending EXCEPT ![v.m] = JobTries] /\ End(w) BY <1>2 DEF SendEnqueued
<1>6. sending' \in [Msg -> Int] /\ \A m \in Msg : sending'[m] > 0 => IsStaff(m)
  BY <1>3, <1>4, <1>5, ChatAssumption DEF Typed, ChatRowsTyped, WhatsAppTyped, RowsFit, SendsFit
<1>7. media' \in [Msg -> Int] /\ \A m \in Msg : media'[m] > 0 => IsWam(m)
  BY <1>1, <1>4 DEF Typed, ChatRowsTyped, WhatsAppTyped, RowsFit, PhotoFits
<1>8. visit[w].op \notin HoldOps \cup {"sent"} BY <1>1 DEF HoldOps
<1> QED BY <1>1, <1>4, <1>5, <1>6, <1>7, <1>8, Ends, JobMoves

\* only the state of a message, and whether the provider's id is known, differ
SameButState(row, old) ==
    /\ row \in MessageRow /\ row.from = old.from /\ row.joined = old.joined /\ row.anchor = old.anchor
    /\ row.mine = old.mine /\ row.late = old.late /\ row.aged = old.aged /\ row.scrubbed = old.scrubbed

LEMMA StateOf ==
    ASSUME NEW old \in MessageRow, NEW state \in States, NEW row, row = [old EXCEPT !.state = state]
    PROVE  SameButState(row, old) /\ row.state = state /\ row.known = old.known
<1>1. row \in MessageRow /\ row.from = old.from /\ row.joined = old.joined /\ row.anchor = old.anchor /\ row.state = state
  BY DEF MessageRow
<1>2. /\ row.mine = old.mine /\ row.late = old.late /\ row.aged = old.aged /\ row.scrubbed = old.scrubbed
      /\ row.known = old.known
  BY DEF MessageRow
<1> QED BY <1>1, <1>2 DEF SameButState

LEMMA StateChanges ==
    ASSUME ChatInv, NEW m \in Msg, Present(m), NEW row, SameButState(row, chat[m]), chat' = [chat EXCEPT ![m] = row],
           IsStaff(m) => row.state \in {"queued"} \cup Answered,
           row.known => IsStaff(m) /\ row.state \in Answered
    PROVE  /\ ChatTyped' /\ FromKept
           /\ \A n \in Msg : RowGoesOn(n) /\ (Present(n) => RowFits(chat'[n]) /\ AnswerFits(n)')
           /\ chat'[m] = row /\ \A n \in Msg \ {m} : chat'[n] = chat[n]
<1>1. Typed /\ RowsFit /\ moment \in Nat BY DEF ChatInv, Typed, ChatRowsTyped, ProcessTyped
<1>2. PICK old \in MessageRow : old = chat[m] BY <1>1, MessageIs DEF Typed, ChatRowsTyped
<1>5. row \in MessageRow /\ row.from = old.from /\ row.joined = old.joined /\ row.anchor = old.anchor
  BY <1>2 DEF SameButState
<1>6. row.mine = old.mine /\ row.late = old.late /\ row.aged = old.aged BY <1>2 DEF SameButState
<1>7. ChatTyped' /\ chat'[m] = row /\ \A n \in Msg \ {m} : chat'[n] = chat[n]
  BY <1>1, <1>5 DEF Typed, ChatRowsTyped, ChatTyped, Rows
<1>8. FromKept BY <1>2, <1>5, <1>7 DEF FromKept
<1>9. \A n \in Msg : (Present(n)' <=> Present(n)) /\ (IsStaff(n)' <=> IsStaff(n)) /\ (IsWam(n)' <=> IsWam(n))
  BY <1>1, <1>7, <1>8, PresentKept
<1>10. \A n \in Msg : RowGoesOn(n)
  <2>1. RowGoesOn(m) BY <1>2, <1>5, <1>6, <1>7, <1>9 DEF RowGoesOn
  <2>2. \A n \in Msg : ~Present(n) => ~IsWam(n)' BY <1>1, <1>9, MessageIs DEF Typed, ChatRowsTyped
  <2>3. \A n \in Msg \ {m} : RowGoesOn(n) BY <1>7, <1>9, <2>2 DEF RowGoesOn
  <2> QED BY <2>1, <2>3
<1>11. \A n \in Msg : Present(n) => RowFits(chat'[n])
  <2>1. RowFits(old) BY <1>1, <1>2 DEF RowsFit, JoinsFit
  <2>2. RowFits(row) BY <1>5, <1>6, <2>1 DEF RowFits
  <2> QED BY <1>1, <1>7, <2>2 DEF RowsFit, JoinsFit
<1>12. \A n \in Msg : Present(n) => AnswerFits(n)'
  <2>1. AnswerFits(m)' BY <1>7, <1>9 DEF AnswerFits
  <2>2. \A n \in Msg \ {m} : AnswerFits(n)' BY <1>1, <1>7, <1>9 DEF RowsFit, StatusFits, AnswerFits
  <2> QED BY <2>1, <2>2
<1> QED BY <1>7, <1>8, <1>10, <1>11, <1>12

LEMMA SendFails ==
    ASSUME ChatInv, NEW m \in Msg, IsStaff(m), chat' = FailedIfQueued(m)
    PROVE  /\ ChatTyped' /\ FromKept
           /\ \A n \in Msg : RowGoesOn(n) /\ (Present(n) => RowFits(chat'[n]) /\ AnswerFits(n)')
           /\ ~Unsent(m)' /\ \A n \in Msg : ~Unsent(n) => ~Unsent(n)'
           /\ \A e \in heard : IsStaff(e.m) /\ Says(e)'
<1>1. Typed /\ RowsFit BY DEF ChatInv
<1>2. Present(m) BY <1>1, MessageIs DEF Typed, ChatRowsTyped
<1>3. PICK old \in MessageRow : old = chat[m] BY <1>1, <1>2, MessageIs DEF Typed, ChatRowsTyped
<1>4. PICK state : state = IF old.state = "queued" THEN "failed" ELSE old.state OBVIOUS
<1>5. state \in States /\ state # "queued" BY <1>4 DEF MessageRow, States
<1>6. PICK row : row = [old EXCEPT !.state = state] OBVIOUS
<1>7. chat' = [chat EXCEPT ![m] = row] BY <1>3, <1>4, <1>6 DEF FailedIfQueued
<1>8. SameButState(row, chat[m]) /\ row.state = state /\ row.known = old.known BY <1>3, <1>5, <1>6, StateOf
<1>9. AnswerFits(m) BY <1>1 DEF RowsFit, StatusFits
<1>10. state \in Answered BY <1>3, <1>4, <1>9 DEF AnswerFits, Answered
<1>11. row.known => IsStaff(m) /\ row.state \in Answered BY <1>8, <1>10
<1>12. /\ ChatTyped' /\ FromKept
       /\ \A n \in Msg : RowGoesOn(n) /\ (Present(n) => RowFits(chat'[n]) /\ AnswerFits(n)')
       /\ chat'[m] = row /\ \A n \in Msg \ {m} : chat'[n] = chat[n]
  BY <1>2, <1>7, <1>8, <1>10, <1>11, StateChanges
<1>13. ~Unsent(m)' /\ \A n \in Msg : ~Unsent(n) => ~Unsent(n)' BY <1>5, <1>8, <1>12 DEF Unsent
<1>14. ASSUME NEW e \in heard PROVE IsStaff(e.m) /\ Says(e)'
  <2>1. e.m \in Msg /\ IsStaff(e.m) /\ Says(e) BY <1>1 DEF Typed, ChatRowsTyped, WhatsAppTyped, HeardRow, RowsFit, StatusFits
  <2>2. CASE e.m = m
    <3>1. CASE old.state = "queued" BY <1>3, <1>4, <1>8, <1>12, <2>1, <2>2, <3>1 DEF Says, AsFar, Answered
    <3>2. CASE old.state # "queued" BY <1>3, <1>4, <1>8, <1>12, <2>1, <2>2, <3>2 DEF Says
    <3> QED BY <3>1, <3>2
  <2>3. CASE e.m # m BY <1>12, <2>1, <2>3 DEF Says
  <2> QED BY <2>1, <2>2, <2>3
<1> QED BY <1>12, <1>13, <1>14

LEMMA SendBeginsMoves ==
    ASSUME ChatInv, NEW w \in Clerk, NEW m \in Msg, SendBegins(w, m)
    PROVE  ChatInv'
<1>1. /\ UNCHANGED <<inboxRows, processRows, photoRows, hook, heard, media, handed, mishap>>
      /\ sending[m] > 0 /\ ~InHand(m, {"send", "sent", "done"})
  BY DEF SendBegins
<1>2. Typed /\ RowsFit BY DEF ChatInv
<1>3. IsStaff(m) BY <1>1, <1>2 DEF RowsFit, SendsFit
<1>4. CASE Unsent(m) /\ ~chat[m].scrubbed
  <2>1. PICK r : r = [op |-> "send", m |-> m] OBVIOUS
  <2>2. Begin(w, r) /\ sending' = [sending EXCEPT ![m] = @ - 1] /\ UNCHANGED chat BY <1>4, <2>1 DEF SendBegins
  <2>3. r \in ChatVisit /\ r.op = "send" /\ r.m = m BY <2>1, RunIs DEF Runs
  <2>4. "crash" \notin mishap => handed[m] = 0
    <3>1. handed[m] \in Nat BY <1>2 DEF Typed, ChatRowsTyped, WhatsAppTyped
    <3>2. "crash" \notin mishap => handed[m] <= 1 /\ handed[m] # 1
      BY <1>1, <1>4 DEF ChatInv, SentFits, InHand, Doing
    <3> QED BY <3>1, <3>2
  <2>5. Knows(r) BY <1>3, <2>3, <2>4
    DEF Knows, PollKnows, RunKnows, TimeKnows, DeleteKnows, MendKnows, SendKnows, FetchOps
  <2>6. ComesAlone(w, r) BY <1>1, <2>3 DEF ComesAlone, InHand, Doing, FetchOps
  <2>7. sending' \in [Msg -> Int] /\ \A n \in Msg : sending'[n] > 0 => IsStaff(n)
    BY <1>2, <1>3, <2>2 DEF Typed, ChatRowsTyped, WhatsAppTyped, RowsFit, SendsFit
  <2>8. media' \in [Msg -> Int] /\ \A n \in Msg : media'[n] > 0 => IsWam(n)
    BY <1>1, <1>2 DEF Typed, ChatRowsTyped, WhatsAppTyped, RowsFit, PhotoFits
  <2> QED BY <1>1, <1>2, <2>2, <2>3, <2>5, <2>6, <2>7, <2>8, BeginsIdle, JobMoves
<1>5. CASE ~(Unsent(m) /\ ~chat[m].scrubbed)
  <2>1. sending' = [sending EXCEPT ![m] = 0] /\ chat' = FailedIfQueued(m) /\ UNCHANGED visit BY <1>5 DEF SendBegins
  <2>2. PICK x \in Clerk, r \in ChatVisit : /\ r = visit[x] /\ visit' = [visit EXCEPT ![x] = r] /\ Knows(r)
                                            /\ ComesAlone(x, r) /\ HoldsOn(x, r)
    BY <2>1, NobodyMoves
  <2>3. /\ ChatTyped' /\ FromKept
        /\ \A n \in Msg : RowGoesOn(n) /\ (Present(n) => RowFits(chat'[n]) /\ AnswerFits(n)')
        /\ \A n \in Msg : ~Unsent(n) => ~Unsent(n)'
        /\ \A e \in heard : IsStaff(e.m) /\ Says(e)'
    BY <1>3, <2>1, SendFails
  <2>4. sending' \in [Msg -> Int] /\ \A n \in Msg : sending'[n] > 0 => IsStaff(n)
    BY <1>2, <2>1 DEF Typed, ChatRowsTyped, WhatsAppTyped, RowsFit, SendsFit
  <2>5. WhatsAppTyped' BY <1>1, <1>2, <2>4 DEF Typed, ChatRowsTyped, WhatsAppTyped
  <2>6. ProcessTyped' /\ \A j \in closing' : Past(j.at)
    BY <1>1, <1>2 DEF Typed, ChatRowsTyped, ProcessTyped, processRows, RowsFit, ClosingFits
  <2>7. UNCHANGED <<dossier, moment, cleared>> BY <1>1 DEF processRows
  <2> QED BY <1>1, <2>2, <2>3, <2>4, <2>5, <2>6, <2>7, ChatMoves
<1> QED BY <1>4, <1>5

LEMMA SendRecordedMoves ==
    ASSUME ChatInv, NEW w \in Clerk, SendRecorded(w)
    PROVE  ChatInv'
<1>1. visit[w].op = "sent" /\ UNCHANGED <<inboxRows, processRows, photoRows, whatsAppRows, mishap>>
  BY DEF SendRecorded, Doing
<1>2. PICK v \in RunVisit : v = visit[w] /\ Knows(v) BY <1>1, VisitKinds DEF ChatInv, Typed, Runs
<1>3. PICK m \in Msg : m = v.m BY <1>2 DEF RunVisit
<1>4. IsStaff(m) BY <1>1, <1>2, <1>3 DEF Knows, SendKnows, SendOps
<1>5. Typed /\ RowsFit BY DEF ChatInv
<1>6. Present(m) BY <1>4, <1>5, MessageIs DEF Typed, ChatRowsTyped
<1>7. PICK old \in MessageRow : old = chat[m] BY <1>5, <1>6, MessageIs DEF Typed, ChatRowsTyped
<1>8. PICK row : row = IF Unsent(m) THEN [old EXCEPT !.state = "sent", !.known = TRUE] ELSE old OBVIOUS
<1>9. chat' = [chat EXCEPT ![m] = row]
  <2>1. CASE Unsent(m)
    <3>1. chat' = [chat EXCEPT ![m].state = "sent", ![m].known = TRUE] BY <1>2, <1>3, <2>1 DEF SendRecorded
    <3> QED BY <1>7, <1>8, <2>1, <3>1
  <2>2. CASE ~Unsent(m)
    <3>1. chat' = chat BY <1>2, <1>3, <2>2 DEF SendRecorded
    <3> QED BY <1>5, <1>7, <1>8, <2>2, <3>1 DEF Typed, ChatRowsTyped, ChatTyped
  <2> QED BY <2>1, <2>2
<1>10. SameButState(row, chat[m])
  <2>1. CASE Unsent(m)
    <3>1. row = [old EXCEPT !.state = "sent", !.known = TRUE] BY <1>8, <2>1
    <3>2. row \in MessageRow /\ row.from = old.from /\ row.joined = old.joined /\ row.anchor = old.anchor
      BY <3>1 DEF MessageRow, States
    <3>3. row.mine = old.mine /\ row.late = old.late /\ row.aged = old.aged /\ row.scrubbed = old.scrubbed
      BY <3>1 DEF MessageRow
    <3> QED BY <1>7, <3>2, <3>3 DEF SameButState
  <2>2. CASE ~Unsent(m) BY <1>7, <1>8, <2>2 DEF SameButState
  <2> QED BY <2>1, <2>2
<1>11. AnswerFits(m) BY <1>5 DEF RowsFit, StatusFits
<1>12. row.state \in Answered
  <2>1. CASE Unsent(m)
    <3>1. row = [old EXCEPT !.state = "sent", !.known = TRUE] BY <1>8, <2>1
    <3> QED BY <3>1 DEF MessageRow, Answered
  <2>2. CASE ~Unsent(m) BY <1>4, <1>7, <1>8, <1>11, <2>2 DEF Unsent, AnswerFits, Answered
  <2> QED BY <2>1, <2>2
<1>13. /\ ChatTyped' /\ FromKept
       /\ \A n \in Msg : RowGoesOn(n) /\ (Present(n) => RowFits(chat'[n]) /\ AnswerFits(n)')
       /\ chat'[m] = row /\ \A n \in Msg \ {m} : chat'[n] = chat[n]
  BY <1>4, <1>6, <1>9, <1>10, <1>12, StateChanges
<1>14. row.state # "queued" BY <1>12 DEF Answered
<1>15. \A n \in Msg : ~Unsent(n) => ~Unsent(n)' BY <1>13, <1>14 DEF Unsent
<1>16. ASSUME NEW e \in heard PROVE IsStaff(e.m) /\ Says(e)'
  <2>1. e.m \in Msg /\ IsStaff(e.m) /\ Says(e) /\ e.status \in {"delivered", "read", "failed"}
    BY <1>5 DEF Typed, ChatRowsTyped, WhatsAppTyped, HeardRow, Statuses, RowsFit, StatusFits
  <2>2. CASE e.m = m
    <3>2. CASE Unsent(m)
      <4>1. ~(e.found /\ ~e.crossed) BY <1>7, <2>1, <2>2, <3>2 DEF Says, AsFar, Answered, Unsent, Rank
      <4> QED BY <2>1, <4>1 DEF Says
    <3>3. CASE ~Unsent(m) BY <1>7, <1>8, <1>13, <2>1, <2>2, <3>3 DEF Says
    <3> QED BY <3>2, <3>3
  <2>3. CASE e.m # m BY <1>13, <2>1, <2>3 DEF Says
  <2> QED BY <2>1, <2>2, <2>3
<1>17. PICK r : r = [op |-> "done", m |-> m] OBVIOUS
<1>18. visit' = [visit EXCEPT ![w] = r] BY <1>2, <1>3, <1>17 DEF SendRecorded, Continue
<1>19. r \in ChatVisit /\ r.op = "done" /\ r.m = m BY <1>17, RunIs DEF Runs
<1>20. Knows(r) BY <1>19, FetchKnows DEF FetchOps
<1>21. ComesAlone(w, r) BY <1>19, QuietComesAlone DEF FetchOps
<1>22. HoldsOn(w, r) BY <1>1, <1>2, <1>3, <1>13, <1>14 DEF HoldsOn, HoldsFile, HoldsAnswer, HoldOps
<1>23. ProcessTyped' /\ \A j \in closing' : Past(j.at)
  BY <1>1, <1>5 DEF Typed, ChatRowsTyped, ProcessTyped, processRows, RowsFit, ClosingFits
<1>24. WhatsAppTyped' /\ \A n \in Msg : sending'[n] > 0 => IsStaff(n)
  BY <1>1, <1>5 DEF Typed, ChatRowsTyped, WhatsAppTyped, whatsAppRows, RowsFit, SendsFit
<1>25. UNCHANGED <<dossier, moment, cleared, hook, media, handed, heard>> BY <1>1 DEF processRows, whatsAppRows
<1> QED BY <1>1, <1>13, <1>15, <1>16, <1>18, <1>19, <1>20, <1>21, <1>22, <1>23, <1>24, <1>25, ChatMoves

\* the request w has been answered, its message was the only one it dealt with
LEMMA OtherSends ==
    ASSUME ChatInv, NEW w \in Clerk, visit[w].op = "send", NEW x \in Clerk \ {w}, visit[x].op = "send"
    PROVE  visit[x].m # visit[w].m
BY DEF ChatInv, VisitsApart, ApartIn

LEMMA SendAnsweredMoves ==
    ASSUME ChatInv, NEW w \in Clerk, SendAnswered(w)
    PROVE  ChatInv'
<1>1. visit[w].op = "send" /\ UNCHANGED <<inboxRows, processRows, photoRows, hook, heard, media, mishap>>
  BY DEF SendAnswered, Doing
<1>2. PICK v \in RunVisit : v = visit[w] /\ Knows(v) BY <1>1, VisitKinds DEF ChatInv, Typed, Runs
<1>3. PICK m \in Msg : m = v.m BY <1>2 DEF RunVisit
<1>4. IsStaff(m) /\ ("crash" \notin mishap => handed[m] = 0) BY <1>1, <1>2, <1>3 DEF Knows, SendKnows, SendOps
<1>5. Typed /\ RowsFit BY DEF ChatInv
<1>6. PICK outcome \in {"accepted", "permanent", "transient", "unknown"}, yes \in BOOLEAN :
        /\ (outcome = "accepted" => yes) /\ (outcome = "transient" => ~yes)
        /\ Took(m, yes)
        /\ CASE outcome = "accepted" ->
                  Continue(w, [op |-> "sent", m |-> m]) /\ UNCHANGED <<chat, sending>>
             [] Retries(outcome) /\ sending[m] > 0 -> End(w) /\ UNCHANGED <<chat, sending>>
             [] OTHER ->
                  End(w) /\ chat' = FailedIfQueued(m) /\ sending' = [sending EXCEPT ![m] = 0]
  BY <1>2, <1>3 DEF SendAnswered
<1>7. PICK sent : sent = [op |-> "sent", m |-> m] OBVIOUS
<1>8. \/ outcome = "accepted" /\ visit' = [visit EXCEPT ![w] = sent] /\ UNCHANGED <<chat, sending>>
      \/ outcome = "transient" /\ visit' = [visit EXCEPT ![w] = NoVisit] /\ UNCHANGED <<chat, sending>>
      \/ visit' = [visit EXCEPT ![w] = NoVisit] /\ chat' = FailedIfQueued(m) /\ sending' = [sending EXCEPT ![m] = 0]
  BY <1>6, <1>7 DEF Retries, Continue, End
<1>9. handed' \in [Msg -> Nat] /\ (handed' = handed \/ (outcome # "transient" /\ handed' = [handed EXCEPT ![m] = @ + 1]))
  BY <1>5, <1>6 DEF Took, Typed, ChatRowsTyped, WhatsAppTyped
<1>10. /\ ChatTyped' /\ FromKept
       /\ \A n \in Msg : RowGoesOn(n) /\ (Present(n) => RowFits(chat'[n]) /\ AnswerFits(n)')
       /\ \A n \in Msg : ~Unsent(n) => ~Unsent(n)'
       /\ \A e \in heard : IsStaff(e.m) /\ Says(e)'
       /\ chat' = FailedIfQueued(m) => ~Unsent(m)'
  <2>1. CASE chat' = FailedIfQueued(m) BY <1>4, <2>1, SendFails
  <2>2. CASE chat' = chat /\ chat' # FailedIfQueued(m)
    <3>1. FromKept /\ \A n \in Msg : RowGoesOn(n) BY <1>5, <2>2, RowsRest
    <3>2. \A n \in Msg : Present(n) => RowFits(chat'[n]) /\ AnswerFits(n)'
      BY <1>5, <2>2 DEF RowsFit, JoinsFit, StatusFits, AnswerFits, IsStaff, Present
    <3>3. \A e \in heard : IsStaff(e.m) /\ Says(e)' BY <1>5, <2>2 DEF RowsFit, StatusFits, Says
    <3> QED BY <1>5, <2>2, <3>1, <3>2, <3>3 DEF Typed, ChatRowsTyped, ChatTyped, Unsent
  <2> QED BY <1>8, <2>1, <2>2
<1>11. sending' \in [Msg -> Int] /\ \A n \in Msg : sending'[n] > 0 => IsStaff(n)
  BY <1>5, <1>8 DEF Typed, ChatRowsTyped, WhatsAppTyped, RowsFit, SendsFit
<1>12. \A n \in Msg : handed'[n] > 0 \/ sending'[n] > 0 => IsStaff(n)
  BY <1>4, <1>5, <1>9, <1>11 DEF Typed, ChatRowsTyped, WhatsAppTyped, RowsFit, SendsFit
<1>13. PICK r : /\ visit' = [visit EXCEPT ![w] = r]
                /\ \/ outcome = "accepted" /\ r = sent
                   \/ outcome = "transient" /\ r = NoVisit
                   \/ chat' = FailedIfQueued(m) /\ r = NoVisit
  BY <1>8
<1>14. r \in ChatVisit /\ Knows(r)' /\ ComesAlone(w, r)
  <2>1. CASE r = NoVisit BY <2>1, EndsComesAlone
  <2>2. CASE r = sent
    <3>1. r \in ChatVisit /\ r.op = "sent" /\ r.m = m BY <1>7, <2>2, RunIs DEF Runs
    <3>2. IsStaff(m)' BY <1>4, <1>10 DEF FromKept, IsStaff
    <3>3. Knows(r)' BY <3>1, <3>2
      DEF Knows, PollKnows, RunKnows, TimeKnows, DeleteKnows, MendKnows, SendKnows, FetchOps
    <3>4. ComesAlone(w, r) BY <1>1, <1>2, <1>3, <3>1, StaysAlone DEF ChatInv
    <3> QED BY <3>1, <3>3, <3>4
  <2> QED BY <1>13, <2>1, <2>2
<1>15. HoldsOn(w, r) BY <1>1, HoldsNothing DEF HoldOps
<1>16. SentFits'
  <2> SUFFICES ASSUME "crash" \notin mishap, NEW n \in Msg
               PROVE /\ handed'[n] <= 1
                     /\ handed'[n] = 1 => ~Unsent(n)' \/ \E x \in Clerk : visit'[x].op = "sent" /\ visit'[x].m = n
    BY <1>1 DEF SentFits
  <2>1. visit'[w] = r /\ \A x \in Clerk \ {w} : visit'[x] = visit[x] BY <1>5, <1>13 DEF Typed
  <2>2. CASE n = m
    <3>1. handed[m] = 0 BY <1>4
    <3>2. handed'[m] <= 1 /\ (handed'[m] = 1 => outcome # "transient") BY <1>5, <1>9, <3>1 DEF Typed, ChatRowsTyped, WhatsAppTyped
    <3>3. r = sent => r.op = "sent" /\ r.m = m BY <1>7
    <3>4. outcome # "transient" => r = sent \/ ~Unsent(m)' BY <1>10, <1>13
    <3> QED BY <2>1, <2>2, <3>2, <3>3, <3>4
  <2>3. CASE n # m
    <3>1. handed'[n] = handed[n] BY <1>5, <1>9, <2>3 DEF Typed, ChatRowsTyped, WhatsAppTyped
    <3>2. handed[n] <= 1 /\ (handed[n] = 1 => ~Unsent(n) \/ \E x \in Clerk : visit[x].op = "sent" /\ visit[x].m = n)
      BY DEF ChatInv, SentFits
    <3>3. \A x \in Clerk : visit[x].op = "sent" => x # w BY <1>1
    <3> QED BY <1>10, <2>1, <3>1, <3>2, <3>3
  <2> QED BY <2>2, <2>3
<1>17. ChatRowsTyped' BY <1>1, <1>5, <1>9, <1>10, <1>11
  DEF Typed, ChatRowsTyped, InboxTyped, PhotoTyped, WhatsAppTyped, ProcessTyped, inboxRows, photoRows, processRows
<1>18. RowsGoOn
  <2>1. MailboxGoesOn /\ receipts' = receipts BY <1>1, <1>5 DEF MailboxGoesOn, inboxRows, Typed, ChatRowsTyped, InboxTyped
  <2>2. moment \in Nat /\ moment' = moment BY <1>1, <1>5 DEF Typed, ChatRowsTyped, ProcessTyped, processRows
  <2>3. \A n \in Msg : PictureGoesOn(n) BY <1>1, PicturesRest DEF photoRows
  <2> QED BY <1>1, <1>10, <2>1, <2>2, <2>3 DEF RowsGoOn, OthersGoOn
<1>19. MarkFits' BY <1>1, <1>5, <1>18, MarkRests DEF RowsFit, inboxRows
<1>20. \A n \in Msg : (Present(n)' <=> Present(n)) /\ (IsStaff(n)' <=> IsStaff(n))
  BY <1>5, <1>10, PresentKept
<1>21. JoinsFit' BY <1>1, <1>10, <1>20 DEF JoinsFit, RowFits, IsClosed, processRows
<1>22. StatusFits'
  <2>1. \A n \in Msg : ~Present(n) => ~IsStaff(n)' /\ ~Present(n)' BY <1>5, <1>20, MessageIs DEF Typed, ChatRowsTyped
  <2>2. \A n \in Msg : AnswerFits(n)' BY <1>10, <2>1 DEF AnswerFits
  <2>3. \A e \in heard : e.m \in Msg BY <1>5 DEF Typed, ChatRowsTyped, WhatsAppTyped, HeardRow
  <2>4. \A e \in heard : IsStaff(e.m)' BY <1>10, <1>20, <2>3
  <2> QED BY <1>1, <1>10, <2>2, <2>4 DEF StatusFits
<1>23. UNCHANGED <<dossier, moment, cleared>> /\ \A j \in closing' : Past(j.at)
  BY <1>1, <1>5 DEF processRows, RowsFit, ClosingFits
<1>24. \A n \in Msg : media'[n] > 0 => IsWam(n) BY <1>1, <1>5 DEF RowsFit, PhotoFits
<1>25. ASSUME NEW x \in Clerk \ {w}, visit[x].op = "send" PROVE handed'[visit[x].m] = handed[visit[x].m]
  <2>1. PICK n \in Msg : n = visit[x].m BY <1>5, <1>25, VisitOfMessage DEF Typed, Runs
  <2>2. n # m BY <1>1, <1>2, <1>3, <1>25, <2>1, OtherSends
  <2>3. handed'[n] = handed[n] BY <1>5, <1>9, <2>2 DEF Typed, ChatRowsTyped, WhatsAppTyped
  <2> QED BY <2>1, <2>3
<1> QED BY <1>1, <1>10, <1>12, <1>13, <1>14, <1>15, <1>16, <1>17, <1>18, <1>19, <1>21, <1>22, <1>23, <1>24, <1>25, CalmMoves

LEMMA StatusReadMoves ==
    ASSUME ChatInv, NEW m \in Msg, NEW status \in Statuses, StatusRead(m, status)
    PROVE  ChatInv'
<1> DEFINE open == OnTheWay(m)
           entry == [m |-> m, status |-> status, found |-> chat[m].known, saw |-> chat[m].state,
                     crossed |-> open # {}]
<1>1. /\ handed[m] > 0
      /\ heard' = (heard \ open) \cup {[e EXCEPT !.crossed = TRUE] : e \in open} \cup {entry}
      /\ UNCHANGED <<visit, inboxRows, chat, processRows, photoRows, hook, media, sending, handed, mishap>>
  BY DEF StatusRead
<1>2. Typed /\ RowsFit /\ heard \in SUBSET HeardRow /\ heard \in Heard
  BY DEF ChatInv, Typed, ChatRowsTyped, WhatsAppTyped
<1>3. IsStaff(m) /\ Present(m) BY <1>1, <1>2, MessageIs DEF Typed, ChatRowsTyped, RowsFit, SendsFit
<1>4. PICK old \in MessageRow : old = chat[m] BY <1>2, <1>3, MessageIs DEF Typed, ChatRowsTyped
<1>5. entry.found => entry.saw \in Answered BY <1>2, <1>3 DEF RowsFit, StatusFits, AnswerFits
<1>6. entry \in HeardRow /\ entry.saw # "written"
  <2>1. old.known \in BOOLEAN /\ old.state \in States BY DEF MessageRow
  <2>2. "written" \notin States BY DEF States
  <2> QED BY <1>4, <2>1, <2>2 DEF HeardRow
<1>7. \A e \in open : e \in heard /\ e.m = m /\ e.saw # "written" BY DEF OnTheWay
<1>8. ASSUME NEW n \in heard'
      PROVE  \/ n = entry
             \/ n \in heard /\ (n.m = m => n.saw = "written")
             \/ \E e \in open : n = [e EXCEPT !.crossed = TRUE]
  BY <1>1, <1>8 DEF OnTheWay
<1>9. ASSUME NEW e \in open, NEW n, n = [e EXCEPT !.crossed = TRUE]
      PROVE  n \in HeardRow /\ n.crossed /\ n.m = m /\ n.saw = e.saw /\ n.found = e.found /\ n.saw # "written"
  <2>1. e \in HeardRow /\ e.m = m /\ e.saw # "written" BY <1>2, <1>7
  <2> QED BY <1>9, <2>1 DEF HeardRow
<1>10. heard' \in SUBSET HeardRow
  <2> SUFFICES ASSUME NEW n \in heard' PROVE n \in HeardRow OBVIOUS
  <2>1. CASE n = entry BY <1>6, <2>1
  <2>2. CASE n \in heard BY <1>2, <2>2
  <2>3. CASE \E e \in open : n = [e EXCEPT !.crossed = TRUE] BY <1>9, <2>3
  <2> QED BY <1>8, <2>1, <2>2, <2>3
<1>11. \A n \in heard' : n.found => n.saw \in Answered \cup {"written"}
  <2> SUFFICES ASSUME NEW n \in heard', n.found PROVE n.saw \in Answered \cup {"written"} OBVIOUS
  <2>1. \A e \in heard : e.found => e.saw \in Answered \cup {"written"} BY <1>2 DEF Heard
  <2>2. CASE n = entry BY <1>5, <2>2
  <2>3. CASE n \in heard BY <2>1, <2>3
  <2>4. CASE \E e \in open : n = [e EXCEPT !.crossed = TRUE]
    <3>1. PICK e \in open : n = [e EXCEPT !.crossed = TRUE] BY <2>4
    <3>2. e \in heard /\ n.saw = e.saw /\ n.found = e.found BY <1>7, <1>9, <3>1
    <3> QED BY <2>1, <3>2
  <2> QED BY <1>8, <2>2, <2>3, <2>4
<1>12. \A e \in heard : IsStaff(e.m) /\ Says(e) BY <1>2 DEF RowsFit, StatusFits
<1>13. ASSUME NEW n \in heard', NEW o \in heard', n # o, n.m = o.m, ~n.crossed, o.saw # "written"
       PROVE  n.saw = "written" /\ (n.found /\ o.found => AsFar(o.saw, n.status))
  <2>1. CASE n = entry
    <3>1. open = {} BY <1>13, <2>1
    <3>2. o \in heard /\ o.m # m BY <1>8, <1>13, <2>1, <3>1
    <3> QED BY <1>13, <2>1, <3>2
  <2>2. CASE n \in heard /\ (n.m = m => n.saw = "written")
    <3>1. CASE o = entry
      <4>1. n.m = m /\ n.saw = "written" /\ Says(n) BY <1>12, <1>13, <2>2, <3>1
      <4> QED BY <1>13, <3>1, <4>1 DEF Says
    <3>2. CASE o \in heard BY <1>2, <1>13, <2>2, <3>2 DEF Heard, Alone
    <3>3. CASE \E e \in open : o = [e EXCEPT !.crossed = TRUE]
      <4>1. PICK e \in open : o = [e EXCEPT !.crossed = TRUE] BY <3>3
      <4>2. e \in heard /\ e.m = m /\ e.saw # "written" /\ o.saw = e.saw /\ o.found = e.found /\ o.m = m
        BY <1>7, <1>9, <4>1
      <4>3. n # e /\ Alone(n, e) BY <1>2, <1>13, <2>2, <4>2 DEF Heard
      <4> QED BY <1>13, <4>2, <4>3 DEF Alone
    <3> QED BY <1>8, <3>1, <3>2, <3>3
  <2>3. CASE \E e \in open : n = [e EXCEPT !.crossed = TRUE] BY <1>9, <1>13, <2>3
  <2> QED BY <1>8, <2>1, <2>2, <2>3
<1>14. heard' \in Heard BY <1>10, <1>11, <1>13 DEF Heard, Alone
<1>15. FromKept /\ \A n \in Msg : RowGoesOn(n) BY <1>1, <1>2, RowsRest
<1>16. \A n \in Msg : Present(n) => RowFits(chat'[n]) /\ AnswerFits(n)'
  BY <1>1, <1>2 DEF RowsFit, JoinsFit, StatusFits, AnswerFits, IsStaff, Present
<1>17. ASSUME NEW n \in heard' PROVE IsStaff(n.m) /\ Says(n)'
  <2>1. CASE n = entry BY <1>1, <1>3, <1>5, <1>6, <2>1 DEF Says
  <2>2. CASE n \in heard BY <1>1, <1>12, <2>2 DEF Says
  <2>3. CASE \E e \in open : n = [e EXCEPT !.crossed = TRUE] BY <1>3, <1>9, <2>3 DEF Says
  <2> QED BY <1>8, <2>1, <2>2, <2>3
<1>18. WhatsAppTyped' BY <1>1, <1>2, <1>10, <1>14 DEF Typed, ChatRowsTyped, WhatsAppTyped
<1>19. ChatTyped' /\ \A n \in Msg : ~Unsent(n) => ~Unsent(n)'
  BY <1>1, <1>2 DEF Typed, ChatRowsTyped, ChatTyped, Unsent
<1>20. ProcessTyped' /\ \A j \in closing' : Past(j.at)
  BY <1>1, <1>2 DEF Typed, ChatRowsTyped, ProcessTyped, processRows, RowsFit, ClosingFits
<1>21. UNCHANGED <<dossier, moment, cleared>> /\ \A n \in Msg : sending'[n] > 0 => IsStaff(n)
  BY <1>1, <1>2 DEF processRows, RowsFit, SendsFit
<1>22. PICK x \in Clerk, r \in ChatVisit : /\ r = visit[x] /\ visit' = [visit EXCEPT ![x] = r] /\ Knows(r)
                                           /\ ComesAlone(x, r) /\ HoldsOn(x, r)
  BY <1>1, NobodyMoves
<1> HIDE DEF open, entry
<1> QED BY <1>1, <1>15, <1>16, <1>17, <1>18, <1>19, <1>20, <1>21, <1>22, ChatMoves

LEMMA StatusWrittenMoves ==
    ASSUME ChatInv, NEW f \in heard, StatusWritten(f)
    PROVE  ChatInv'
<1> DEFINE m == f.m
           status == f.status
           entry == [f EXCEPT !.saw = "written"]
<1>1. /\ f.saw # "written" /\ heard' = (heard \ {f}) \cup {entry}
      /\ chat' = IF f.found /\ LeadsOn(f.saw, status) THEN [chat EXCEPT ![m].state = status] ELSE chat
      /\ UNCHANGED <<visit, inboxRows, processRows, photoRows, hook, media, sending, handed, mishap>>
  BY DEF StatusWritten
<1>2. Typed /\ RowsFit /\ heard \in SUBSET HeardRow /\ heard \in Heard
  BY DEF ChatInv, Typed, ChatRowsTyped, WhatsAppTyped
<1>3. m \in Msg /\ IsStaff(m) /\ Present(m) /\ f \in HeardRow
  <2>1. f \in HeardRow /\ IsStaff(m) BY <1>2 DEF RowsFit, StatusFits
  <2>2. m \in Msg BY <2>1 DEF HeardRow
  <2> QED BY <1>2, <2>1, <2>2, MessageIs DEF Typed, ChatRowsTyped
<1>4. PICK old \in MessageRow : old = chat[m] BY <1>2, <1>3, MessageIs DEF Typed, ChatRowsTyped
<1>5. PICK leads \in BOOLEAN : leads = (f.found /\ LeadsOn(f.saw, status)) OBVIOUS
<1>6. PICK state : state = IF leads THEN status ELSE old.state OBVIOUS
<1>7. status \in Answered /\ state \in States
  <2>1. status \in Statuses BY <1>3 DEF HeardRow
  <2> QED BY <1>6, <2>1 DEF Statuses, Answered, States, MessageRow
<1>8. PICK row : row = [old EXCEPT !.state = state] OBVIOUS
<1>9. SameButState(row, old) /\ row.state = state /\ row.known = old.known BY <1>7, <1>8, StateOf
<1>10. chat' = [chat EXCEPT ![m] = row]
  <2>1. CASE leads BY <1>1, <1>4, <1>5, <1>6, <1>8, <2>1
  <2>2. CASE ~leads
    <3>1. chat' = chat /\ row = [old EXCEPT !.state = old.state] BY <1>1, <1>4, <1>5, <1>6, <1>8, <2>2
    <3>2. row = old BY <3>1 DEF MessageRow
    <3> QED BY <1>2, <1>4, <3>1, <3>2 DEF Typed, ChatRowsTyped, ChatTyped
  <2> QED BY <2>1, <2>2
<1>11. AnswerFits(m) BY <1>2, <1>3 DEF RowsFit, StatusFits
<1>12. row.state \in {"queued"} \cup Answered BY <1>3, <1>4, <1>6, <1>7, <1>9, <1>11 DEF AnswerFits
<1>13. row.known => row.state \in Answered BY <1>3, <1>4, <1>6, <1>7, <1>9, <1>11 DEF AnswerFits
<1>14. /\ ChatTyped' /\ FromKept
       /\ \A n \in Msg : RowGoesOn(n) /\ (Present(n) => RowFits(chat'[n]) /\ AnswerFits(n)')
       /\ chat'[m] = row /\ \A n \in Msg \ {m} : chat'[n] = chat[n]
  BY <1>3, <1>4, <1>9, <1>10, <1>12, <1>13, StateChanges
<1>15. \A n \in Msg : ~Unsent(n) => ~Unsent(n)' BY <1>4, <1>6, <1>7, <1>9, <1>14 DEF Unsent, Answered
<1>16. /\ entry \in HeardRow /\ entry.m = m /\ entry.status = status /\ entry.found = f.found
       /\ entry.crossed = f.crossed /\ entry.saw = "written"
  BY <1>3 DEF HeardRow
<1>17. f.found => f.saw \in Answered BY <1>1, <1>2 DEF Heard
<1>18. leads => AsFar(status, status) /\ \A other \in Statuses : AsFar(f.saw, other) => AsFar(status, other)
  <2> SUFFICES ASSUME leads
               PROVE  AsFar(status, status) /\ \A other \in Statuses : AsFar(f.saw, other) => AsFar(status, other)
    OBVIOUS
  <2>1. LeadsOn(f.saw, status) /\ f.saw \in Answered /\ status \in Statuses BY <1>3, <1>5, <1>17 DEF HeardRow
  <2>2. PICK saw \in Answered, told \in Statuses : saw = f.saw /\ told = status BY <2>1
  <2>3. LeadsOn(saw, told) BY <2>1, <2>2
  <2>4. AsFar(told, told) BY DEF AsFar, Rank, Statuses
  <2>5. \A other \in Statuses : AsFar(saw, other) => AsFar(told, other) BY <2>3 DEF LeadsOn, AsFar, Rank, Answered, Statuses
  <2> QED BY <2>2, <2>4, <2>5
<1>19. \A e \in heard : e \in HeardRow /\ e.m \in Msg /\ e.status \in Statuses /\ IsStaff(e.m) /\ Says(e)
  BY <1>2 DEF RowsFit, StatusFits, HeardRow
<1>20. Says(entry)'
  <2> SUFFICES ASSUME f.found, ~f.crossed PROVE AsFar(state, status) BY <1>9, <1>14, <1>16 DEF Says
  <2>1. old.state = f.saw /\ f.saw \in Answered BY <1>1, <1>4, <1>19 DEF Says
  <2>2. CASE leads BY <1>6, <1>18, <2>2
  <2>3. CASE ~leads
    <3>1. ~LeadsOn(f.saw, status) /\ state = f.saw BY <1>5, <1>6, <2>1, <2>3
    <3> QED BY <1>7, <2>1, <3>1 DEF LeadsOn, AsFar, Rank, Answered
  <2> QED BY <2>2, <2>3
<1>21. ASSUME NEW e \in heard, e # f PROVE Says(e)'
  <2> SUFFICES ASSUME e.found, ~e.crossed, e.m = m PROVE Says(e)'
    <3>1. e.m # m => chat'[e.m] = chat[e.m] BY <1>14, <1>19
    <3> QED BY <1>19, <3>1 DEF Says
  <2>1. e.saw = "written" /\ (f.found => AsFar(f.saw, e.status)) BY <1>1, <1>2, <1>21 DEF Heard, Alone
  <2>2. AsFar(old.state, e.status) BY <1>4, <1>19, <2>1 DEF Says
  <2>3. AsFar(state, e.status)
    <3>1. CASE leads BY <1>5, <1>6, <1>18, <1>19, <2>1, <3>1
    <3>2. CASE ~leads BY <1>6, <2>2, <3>2
    <3> QED BY <3>1, <3>2
  <2> QED BY <1>9, <1>14, <2>1, <2>3 DEF Says
<1>22. \A n \in heard' : n = entry \/ (n \in heard /\ n # f) BY <1>1
<1>23. \A n \in heard' : IsStaff(n.m) /\ Says(n)'
  BY <1>3, <1>16, <1>19, <1>20, <1>21, <1>22
<1>24. heard' \in SUBSET HeardRow /\ heard' \in Heard
  <2>1. heard' \in SUBSET HeardRow BY <1>16, <1>19, <1>22
  <2>2. \A n \in heard' : n.found => n.saw \in Answered \cup {"written"} BY <1>2, <1>16, <1>22 DEF Heard
  <2>3. ASSUME NEW n \in heard', NEW o \in heard' PROVE Alone(n, o)
    <3>1. CASE o = entry BY <1>16, <3>1 DEF Alone
    <3>2. CASE o \in heard /\ n = entry
      <4>1. ~f.crossed /\ o.m = m /\ o.saw # "written" => o = f BY <1>1, <1>2, <3>2 DEF Heard, Alone
      <4> QED BY <1>16, <1>22, <3>2, <4>1 DEF Alone
    <3>3. CASE o \in heard /\ n \in heard BY <1>2, <3>3 DEF Heard
    <3> QED BY <1>22, <3>1, <3>2, <3>3
  <2> QED BY <2>1, <2>2, <2>3 DEF Heard
<1>25. WhatsAppTyped' BY <1>1, <1>2, <1>24 DEF Typed, ChatRowsTyped, WhatsAppTyped
<1>26. ProcessTyped' /\ \A j \in closing' : Past(j.at)
  BY <1>1, <1>2 DEF Typed, ChatRowsTyped, ProcessTyped, processRows, RowsFit, ClosingFits
<1>27. UNCHANGED <<dossier, moment, cleared>> /\ \A n \in Msg : sending'[n] > 0 => IsStaff(n)
  BY <1>1, <1>2 DEF processRows, RowsFit, SendsFit
<1>28. PICK x \in Clerk, r \in ChatVisit : /\ r = visit[x] /\ visit' = [visit EXCEPT ![x] = r] /\ Knows(r)
                                           /\ ComesAlone(x, r) /\ HoldsOn(x, r)
  BY <1>1, NobodyMoves
<1> HIDE DEF m, status, entry
<1> QED BY <1>1, <1>14, <1>15, <1>23, <1>25, <1>26, <1>27, <1>28, ChatMoves

-----------------------------------------------------------------------------
(* What the staff does.                                                      *)

\* what a request that knows nothing is kept apart from a message nobody stores
LEMMA FreshIs ==
    ASSUME NEW m \in Msg, Fresh(m)
    PROVE  ~Present(m) /\ m \notin files /\ \A x \in Clerk : visit[x].op = "store" => visit[x].m # m
BY DEF Fresh, InHand, Doing

LEMMA RowOfStaffComes ==
    ASSUME ChatInv, NEW m \in Msg, Fresh(m), NEW from \in {"staff", "desk", "portal"}, NEW state \in States,
           from = "staff" => state = "queued",
           chat' = [chat EXCEPT ![m] = ChatRow(from, TRUE, moment, state)],
           UNCHANGED <<inboxRows, processRows, photoRows, whatsAppRows, mishap>>,
           NEW w \in Clerk, NEW r \in ChatVisit, visit' = [visit EXCEPT ![w] = r],
           Knows(r)' \/ (Knows(r) /\ r = visit[w]), ComesAlone(w, r), HoldsAnswer(w, r),
           visit[w].op \in HoldOps => r = visit[w]
    PROVE  ChatInv'
<1>1. ~Present(m) /\ m \notin files /\ \A x \in Clerk : visit[x].op = "store" => visit[x].m # m BY FreshIs
<1>2. Typed /\ RowsFit /\ moment \in Nat BY DEF ChatInv, Typed, ChatRowsTyped, ProcessTyped
<1>3. PICK row : row = ChatRow(from, TRUE, moment, state) OBVIOUS
<1>4. row \in MessageRow /\ row.from = from /\ row.joined = moment /\ row.state = state /\ row.anchor = 0
  BY <1>2, <1>3 DEF ChatRow, MessageRow, IsClosed
<1>5. row.known = FALSE /\ row.late = (row.mine /\ IsClosed) BY <1>3 DEF ChatRow
<1>6. RowFits(row) BY <1>2, <1>4, <1>5, RowIsFit
<1>7. from \notin Letter \cup Wam BY SendersApart
<1>8. InboxTyped' /\ WhatsAppTyped' /\ PhotoTyped' /\ photo' = photo /\ files' = files
  BY <1>2 DEF Typed, ChatRowsTyped, InboxTyped, WhatsAppTyped, PhotoTyped, inboxRows, whatsAppRows, photoRows
<1>9. /\ UNCHANGED <<mailbox, mark, processRows, files, heard, media, sending, handed, mishap, hook>>
      /\ receipts' = receipts
  BY DEF inboxRows, whatsAppRows, photoRows
<1>10. chat' = [chat EXCEPT ![m] = row] BY <1>3
<1>11. CameIn' BY <1>1, <1>2, <1>4, <1>7, <1>9, <1>10, CameComes DEF RowsFit
<1>12. photo'[m] = "none" BY <1>1, <1>2, <1>8 DEF RowsFit, PhotoFits
<1>13. Knows(r)' \/ (Knows(r) /\ (r.op = "store" => r.m # m)) BY <1>1
<1>14. \A n \in Msg : row.from \in Letter \cup Wam => chat[n].from # row.from BY <1>4, <1>7
<1>15. visit[w].op \in HoldOps => r.op \in HoldOps /\ r.m = visit[w].m OBVIOUS
<1>16. row.from \notin Wam /\ (row.from = "staff" => row.state = "queued") BY <1>4, <1>7
<1>17. \A n \in Msg \ {m} : photo'[n] = photo[n] BY <1>8
<1>18. \A x \in Clerk \ {w} : visit[x].op = "store" => visit[x].m # m BY <1>1
<1>19. receipts \subseteq receipts' BY <1>9
<1> QED BY <1>1, <1>4, <1>5, <1>6, <1>8, <1>9, <1>10, <1>11, <1>12, <1>13, <1>15, <1>16, <1>17, <1>18, <1>19, RowComes

LEMMA ReplyWhatsAppMoves ==
    ASSUME ChatInv, NEW w \in Clerk, ReplyWhatsApp(w)
    PROVE  ChatInv'
<1>1. UNCHANGED <<inboxRows, processRows, photoRows, whatsAppRows, mishap>> BY DEF ReplyWhatsApp
<1>2. PICK m \in Msg : /\ Fresh(m) /\ chat' = [chat EXCEPT ![m] = ChatRow("staff", TRUE, moment, "queued")]
                       /\ Begin(w, [op |-> "enqueue", m |-> m])
  BY DEF ReplyWhatsApp
<1>3. PICK r : r = [op |-> "enqueue", m |-> m] OBVIOUS
<1>4. r \in ChatVisit /\ r.op = "enqueue" /\ r.m = m BY <1>3, RunIs DEF Runs
<1>5. visit' = [visit EXCEPT ![w] = r] /\ HoldsOn(w, r) /\ visit[w].op = "none" BY <1>2, <1>3, BeginsIdle DEF ChatInv
<1>6. Knows(r)'
  <2>1. chat'[m].from = "staff" BY <1>2 DEF ChatInv, Typed, ChatRowsTyped, ChatTyped, ChatRow
  <2> QED BY <1>4, <2>1
    DEF Knows, PollKnows, RunKnows, TimeKnows, DeleteKnows, MendKnows, SendKnows, FetchOps, IsStaff
<1>7. ComesAlone(w, r) BY <1>4, QuietComesAlone DEF FetchOps
<1>8. "queued" \in States BY DEF States
<1>9. HoldsAnswer(w, r) /\ (visit[w].op \in HoldOps => r = visit[w]) BY <1>5 DEF HoldsOn, HoldOps
<1> QED BY <1>1, <1>2, <1>4, <1>5, <1>6, <1>7, <1>8, <1>9, RowOfStaffComes

LEMMA ReplyByEmailMoves ==
    ASSUME ChatInv, NEW w \in Clerk, ReplyByEmail(w)
    PROVE  ChatInv'
<1>1. UNCHANGED <<visit, inboxRows, processRows, photoRows, whatsAppRows, mishap>> BY DEF ReplyByEmail
<1>2. PICK m \in Msg, state \in {"queued", "blocked"} :
        Fresh(m) /\ chat' = [chat EXCEPT ![m] = ChatRow("desk", TRUE, moment, state)]
  BY DEF ReplyByEmail
<1>3. PICK x \in Clerk, r \in ChatVisit : /\ r = visit[x] /\ visit' = [visit EXCEPT ![x] = r] /\ Knows(r)
                                          /\ ComesAlone(x, r) /\ HoldsOn(x, r)
  BY <1>1, NobodyMoves
<1>4. state \in States /\ HoldsAnswer(x, r) BY <1>3 DEF States, HoldsOn
<1> QED BY <1>1, <1>2, <1>3, <1>4, RowOfStaffComes

LEMMA ReplyByPortalMoves ==
    ASSUME ChatInv, NEW w \in Clerk, ReplyByPortal(w)
    PROVE  ChatInv'
<1>1. UNCHANGED <<visit, inboxRows, processRows, photoRows, whatsAppRows, mishap>> BY DEF ReplyByPortal
<1>2. PICK m \in Msg : Fresh(m) /\ chat' = [chat EXCEPT ![m] = ChatRow("portal", TRUE, moment, "sent")]
  BY DEF ReplyByPortal
<1>3. PICK x \in Clerk, r \in ChatVisit : /\ r = visit[x] /\ visit' = [visit EXCEPT ![x] = r] /\ Knows(r)
                                          /\ ComesAlone(x, r) /\ HoldsOn(x, r)
  BY <1>1, NobodyMoves
<1>4. "sent" \in States /\ HoldsAnswer(x, r) BY <1>3 DEF States, HoldsOn
<1> QED BY <1>1, <1>2, <1>3, <1>4, RowOfStaffComes

LEMMA MessageHookedMoves ==
    ASSUME ChatInv, NEW w \in Clerk, NEW x \in Wam, MessageHooked(w, x)
    PROVE  ChatInv'
<1>1. UNCHANGED <<inboxRows, processRows, photoRows, heard, media, sending, handed, mishap>> BY DEF MessageHooked
<1>2. Typed /\ RowsFit /\ moment \in Nat BY DEF ChatInv, Typed, ChatRowsTyped, ProcessTyped
<1>3. ASSUME NEW m \in Msg, NEW matched \in BOOLEAN, hook[x] = None, Fresh(m),
             chat' = [chat EXCEPT ![m] = ChatRow(x, matched, moment, "received")], hook' = [hook EXCEPT ![x] = m],
             Begin(w, [op |-> "picture", m |-> m])
      PROVE  ChatInv'
  <2>1. ~Present(m) /\ m \notin files /\ \A y \in Clerk : visit[y].op = "store" => visit[y].m # m BY <1>3, FreshIs
  <2>2. PICK row : row = ChatRow(x, matched, moment, "received") OBVIOUS
  <2>3. "received" \in States /\ x \in Letter \cup Wam \cup {"staff", "desk", "portal"} BY DEF States
  <2>4. /\ row \in MessageRow /\ row.from = x /\ row.joined = moment /\ row.anchor = 0 /\ row.known = FALSE
        /\ row.mine = matched /\ row.late = (matched /\ IsClosed)
    <3>1. row \in MessageRow /\ row.from = x /\ row.joined = moment /\ row.anchor = 0
      BY <1>2, <2>2, <2>3 DEF ChatRow, MessageRow, IsClosed
    <3>2. row.known = FALSE /\ row.mine = matched /\ row.late = (matched /\ IsClosed) BY <2>2 DEF ChatRow
    <3> QED BY <3>1, <3>2
  <2>5. RowFits(row) BY <1>2, <2>4, RowIsFit
  <2>6. chat' = [chat EXCEPT ![m] = row] BY <1>3, <2>2
  <2>7. x # "staff" /\ x \notin Letter BY SendersApart
  <2>8. CameIn'
    <3>1. \A n \in Msg : chat[n].from # x BY <1>2, <1>3 DEF RowsFit, CameIn
    <3>2. receipts \subseteq receipts' BY <1>1 DEF inboxRows
    <3>3. row.from \in Wam /\ row.from \notin Letter /\ hook' = [hook EXCEPT ![row.from] = m] BY <1>3, <2>4, <2>7
    <3> QED BY <1>2, <2>1, <2>4, <2>6, <3>1, <3>2, <3>3, CameComes DEF RowsFit
  <2>9. PICK r : r = [op |-> "picture", m |-> m] OBVIOUS
  <2>10. r \in ChatVisit /\ r.op = "picture" /\ r.m = m BY <2>9, RunIs DEF Runs
  <2>11. visit' = [visit EXCEPT ![w] = r] /\ HoldsOn(w, r) /\ visit[w].op = "none" BY <1>2, <1>3, <2>9, BeginsIdle
  <2>12. Knows(r)'
    <3>1. chat'[m].from = x BY <1>2, <2>4, <2>6 DEF Typed, ChatRowsTyped, ChatTyped
    <3> QED BY <2>10, <3>1
      DEF Knows, PollKnows, RunKnows, TimeKnows, DeleteKnows, MendKnows, SendKnows, FetchOps, SendOps, IsWam
  <2>13. ComesAlone(w, r) BY <2>10, QuietComesAlone DEF FetchOps
  <2>14. HoldsAnswer(w, r) /\ visit[w].op \notin HoldOps BY <2>11 DEF HoldsOn, HoldOps
  <2>15. InboxTyped' /\ PhotoTyped' /\ photo' = photo /\ files' = files
    BY <1>1, <1>2 DEF Typed, ChatRowsTyped, InboxTyped, PhotoTyped, inboxRows, photoRows
  <2>16. WhatsAppTyped' BY <1>1, <1>2, <1>3 DEF Typed, ChatRowsTyped, WhatsAppTyped
  <2>17. photo'[m] = "none" BY <1>2, <2>1, <2>15 DEF RowsFit, PhotoFits
  <2>18. UNCHANGED <<mailbox, mark, processRows, files, heard, media, sending, handed, mishap>> /\ receipts \subseteq receipts'
    BY <1>1 DEF inboxRows, photoRows
  <2>19. (row.from \in Wam => row.joined = moment) /\ (row.from = "staff" => row.state = "queued") BY <2>4, <2>7
  <2>20. \A n \in Msg \ {m} : photo'[n] = photo[n] BY <2>15
  <2>21. \A y \in Clerk \ {w} : visit[y].op = "store" => visit[y].m # m BY <2>1
  <2> QED BY <2>1, <2>4, <2>5, <2>6, <2>8, <2>10, <2>11, <2>12, <2>13, <2>14, <2>15, <2>16, <2>17, <2>18, <2>19,
             <2>20, <2>21, RowComes
<1>4. ASSUME hook[x] \in Msg, Begin(w, [op |-> "picture", m |-> hook[x]]), UNCHANGED <<chat, hook>>
      PROVE  ChatInv'
  <2>1. PICK m \in Msg : m = hook[x] BY <1>4
  <2>2. IsWam(m) BY <1>2, <1>4, <2>1 DEF RowsFit, CameIn, IsWam
  <2>3. PICK r : r = [op |-> "picture", m |-> m] OBVIOUS
  <2>4. r \in ChatVisit /\ r.op = "picture" /\ r.m = m BY <2>3, RunIs DEF Runs
  <2>5. visit' = [visit EXCEPT ![w] = r] /\ HoldsOn(w, r) BY <1>2, <1>4, <2>1, <2>3, BeginsIdle
  <2>6. Knows(r) BY <2>2, <2>4
    DEF Knows, PollKnows, RunKnows, TimeKnows, DeleteKnows, MendKnows, SendKnows, FetchOps, SendOps
  <2>7. ComesAlone(w, r) BY <2>4, QuietComesAlone DEF FetchOps
  <2>8. UNCHANGED <<inboxRows, chat, processRows, photoRows, whatsAppRows>> /\ mishap \subseteq mishap'
    BY <1>1, <1>4 DEF whatsAppRows
  <2> QED BY <2>4, <2>5, <2>6, <2>7, <2>8, VisitMoves
<1>5. ASSUME UNCHANGED <<visit, chat, hook>> PROVE ChatInv'
  <2>1. UNCHANGED <<inboxRows, chat, processRows, photoRows, whatsAppRows>> /\ mishap \subseteq mishap'
    BY <1>1, <1>5 DEF whatsAppRows
  <2>2. PICK y \in Clerk, r \in ChatVisit : /\ r = visit[y] /\ visit' = [visit EXCEPT ![y] = r] /\ Knows(r)
                                            /\ ComesAlone(y, r) /\ HoldsOn(y, r)
    BY <1>5, NobodyMoves
  <2> QED BY <2>1, <2>2, VisitMoves
<1> QED BY <1>3, <1>4, <1>5 DEF MessageHooked

(* Rows change that are there, and a request goes on.                        *)
LEMMA RequestMoves ==
    ASSUME ChatInv, UNCHANGED <<inboxRows, processRows, photoRows, whatsAppRows, mishap>>, ChatTyped', FromKept,
           \A m \in Msg : RowGoesOn(m) /\ (Present(m) => RowFits(chat'[m]) /\ AnswerFits(m)'),
           \A m \in Msg : IsStaff(m) /\ ~Unsent(m) => ~Unsent(m)',
           \A e \in heard : IsStaff(e.m) /\ Says(e)',
           NEW w \in Clerk, NEW r \in ChatVisit, visit' = [visit EXCEPT ![w] = r],
           Knows(r) \/ Knows(r)', ComesAlone(w, r), HoldsOn(w, r)
    PROVE  ChatInv'
<1>1. Typed /\ RowsFit BY DEF ChatInv
<1>2. UNCHANGED <<inboxRows, dossier, moment, cleared, photoRows, hook, media, handed, mishap>> /\ closing' = closing
      /\ sending' = sending /\ heard' = heard
  BY DEF processRows, whatsAppRows
<1>3. ProcessTyped' /\ WhatsAppTyped' BY <1>1, <1>2 DEF Typed, ChatRowsTyped, ProcessTyped, WhatsAppTyped
<1>4. \A j \in closing' : Past(j.at) BY <1>1, <1>2 DEF RowsFit, ClosingFits
<1>5. \A m \in Msg : sending'[m] > 0 => IsStaff(m) BY <1>1, <1>2 DEF RowsFit, SendsFit
<1>6. \A e \in heard' : IsStaff(e.m) /\ Says(e)' BY <1>2
<1> QED BY <1>2, <1>3, <1>4, <1>5, <1>6, ChatMoves

LEMMA RestsMove ==
    ASSUME ChatInv, UNCHANGED <<visit, inboxRows, processRows, photoRows, whatsAppRows, mishap>>, ChatTyped', FromKept,
           \A m \in Msg : RowGoesOn(m) /\ (Present(m) => RowFits(chat'[m]) /\ AnswerFits(m)'),
           \A m \in Msg : IsStaff(m) /\ ~Unsent(m) => ~Unsent(m)',
           \A e \in heard : IsStaff(e.m) /\ Says(e)'
    PROVE  ChatInv'
<1>1. PICK w \in Clerk, r \in ChatVisit : /\ r = visit[w] /\ visit' = [visit EXCEPT ![w] = r] /\ Knows(r)
                                          /\ ComesAlone(w, r) /\ HoldsOn(w, r)
  BY NobodyMoves
<1> QED BY <1>1, RequestMoves

LEMMA DeliveryMirroredMoves ==
    ASSUME ChatInv, NEW m \in Msg, DeliveryMirrored(m)
    PROVE  ChatInv'
<1>1. PICK state \in States : Present(m) /\ chat[m].from = "desk" /\ chat' = [chat EXCEPT ![m].state = state]
  BY DEF DeliveryMirrored, States
<1>2. UNCHANGED <<visit, inboxRows, processRows, photoRows, whatsAppRows, mishap>> BY DEF DeliveryMirrored
<1>3. Typed /\ RowsFit BY DEF ChatInv
<1>4. PICK old \in MessageRow : old = chat[m] BY <1>1, <1>3, MessageIs DEF Typed, ChatRowsTyped
<1>5. PICK row : row = [old EXCEPT !.state = state] OBVIOUS
<1>6. SameButState(row, old) /\ row.state = state /\ row.known = old.known BY <1>5, StateOf
<1>7. chat' = [chat EXCEPT ![m] = row] BY <1>1, <1>4, <1>5
<1>8. ~IsStaff(m) /\ ~row.known BY <1>1, <1>3, <1>4, <1>6 DEF IsStaff, RowsFit, StatusFits, AnswerFits
<1>9. /\ ChatTyped' /\ FromKept
      /\ \A n \in Msg : RowGoesOn(n) /\ (Present(n) => RowFits(chat'[n]) /\ AnswerFits(n)')
      /\ chat'[m] = row /\ \A n \in Msg \ {m} : chat'[n] = chat[n]
  BY <1>1, <1>4, <1>6, <1>7, <1>8, StateChanges
<1>10. \A n \in Msg : IsStaff(n) => n # m /\ chat'[n] = chat[n] BY <1>8, <1>9
<1>11. \A n \in Msg : IsStaff(n) /\ ~Unsent(n) => ~Unsent(n)' BY <1>10 DEF Unsent
<1>12. heard' = heard BY <1>2 DEF whatsAppRows
<1>13. ASSUME NEW e \in heard PROVE IsStaff(e.m) /\ Says(e)'
  <2>1. e.m \in Msg /\ IsStaff(e.m) /\ Says(e) BY <1>3 DEF Typed, ChatRowsTyped, WhatsAppTyped, HeardRow, RowsFit, StatusFits
  <2>2. chat'[e.m] = chat[e.m] BY <1>10, <2>1
  <2> QED BY <2>1, <2>2 DEF Says
<1> QED BY <1>2, <1>9, <1>11, <1>12, <1>13, RestsMove

LEMMA AssignUnmatchedMoves ==
    ASSUME ChatInv, NEW w \in Clerk, NEW m \in Msg, AssignUnmatched(w, m)
    PROVE  ChatInv'
<1>1. /\ Present(m) /\ Inbound(m) /\ ~chat[m].mine
      /\ chat' = [chat EXCEPT ![m].mine = TRUE, ![m].joined = moment, ![m].late = IsClosed]
      /\ UNCHANGED <<inboxRows, processRows, photoRows, whatsAppRows, mishap>>
  BY DEF AssignUnmatched, Unmatched
<1>2. Typed /\ RowsFit /\ moment \in Nat BY DEF ChatInv, Typed, ChatRowsTyped, ProcessTyped
<1>3. PICK old \in MessageRow : old = chat[m] BY <1>1, <1>2, MessageIs DEF Typed, ChatRowsTyped
<1>4. PICK closed \in BOOLEAN : closed = IsClosed BY DEF IsClosed
<1>5. PICK row : row = [old EXCEPT !.mine = TRUE, !.joined = moment, !.late = closed] OBVIOUS
<1>6. row \in MessageRow /\ row.from = old.from /\ row.joined = moment /\ row.anchor = old.anchor /\ row.state = old.state
  BY <1>2, <1>5 DEF MessageRow
<1>7. row.mine /\ row.late = closed /\ row.aged = old.aged /\ row.scrubbed = old.scrubbed /\ row.known = old.known
  BY <1>5 DEF MessageRow
<1>8. chat' = [chat EXCEPT ![m] = row] BY <1>1, <1>3, <1>4, <1>5
<1>9. ~IsStaff(m) BY <1>1, SendersApart DEF IsStaff, Inbound
<1>10. ~old.mine /\ ~row.known BY <1>1, <1>2, <1>3, <1>7, <1>9 DEF RowsFit, StatusFits, AnswerFits
<1>11. ChatTyped' /\ FromKept /\ chat'[m] = row /\ \A n \in Msg \ {m} : chat'[n] = chat[n]
  BY <1>2, <1>3, <1>6, <1>8 DEF Typed, ChatRowsTyped, ChatTyped, Rows, FromKept
<1>12. \A n \in Msg : (Present(n)' <=> Present(n)) /\ (IsWam(n)' <=> IsWam(n)) /\ (IsStaff(n)' <=> IsStaff(n))
  BY <1>2, <1>11, PresentKept
<1>13. ASSUME NEW n \in Msg PROVE RowGoesOn(n) /\ (Present(n) => RowFits(chat'[n]) /\ AnswerFits(n)')
  <2>1. CASE n = m
    <3>1. RowGoesOn(n) BY <1>1, <1>3, <1>6, <1>7, <1>10, <1>11, <1>12, <2>1 DEF RowGoesOn
    <3>2. RowFits(row)
      <4>1. old.anchor < moment /\ old.anchor \in Nat BY <1>1, <1>2, <1>3 DEF RowsFit, JoinsFit, RowFits, MessageRow
      <4>2. row.joined <= moment /\ row.anchor < moment BY <1>2, <1>6, <4>1
      <4>3. IsClosed => row.late BY <1>4, <1>7
      <4> QED BY <1>7, <4>2, <4>3 DEF RowFits
    <3>3. AnswerFits(n)' BY <1>9, <1>10, <1>11, <1>12, <2>1 DEF AnswerFits
    <3> QED BY <1>11, <2>1, <3>1, <3>2, <3>3
  <2>2. CASE n # m
    <3>1. chat'[n] = chat[n] BY <1>11, <2>2
    <3>2. RowGoesOn(n)
      <4>1. ~Present(n) => ~IsWam(n)' BY <1>2, <1>12, MessageIs DEF Typed, ChatRowsTyped
      <4> QED BY <1>12, <3>1, <4>1 DEF RowGoesOn
    <3>3. Present(n) => RowFits(chat'[n]) BY <1>2, <3>1 DEF RowsFit, JoinsFit
    <3>4. AnswerFits(n)' BY <1>2, <1>12, <3>1 DEF RowsFit, StatusFits, AnswerFits
    <3> QED BY <3>2, <3>3, <3>4
  <2> QED BY <2>1, <2>2
<1>14. \A n \in Msg : IsStaff(n) => chat'[n] = chat[n] BY <1>9, <1>11
<1>15. \A n \in Msg : IsStaff(n) /\ ~Unsent(n) => ~Unsent(n)' BY <1>14 DEF Unsent
<1>16. ASSUME NEW e \in heard PROVE IsStaff(e.m) /\ Says(e)'
  <2>1. e.m \in Msg /\ IsStaff(e.m) /\ Says(e) BY <1>2 DEF Typed, ChatRowsTyped, WhatsAppTyped, HeardRow, RowsFit, StatusFits
  <2>2. chat'[e.m] = chat[e.m] BY <1>14, <2>1
  <2> QED BY <2>1, <2>2 DEF Says
<1>17. heard' = heard BY <1>1 DEF whatsAppRows
<1>18. CASE IsClosed
  <2>1. PICK r : r = [op |-> "sweep", m |-> m, then |-> NoVisit] OBVIOUS
  <2>2. Begin(w, r) BY <1>18, <2>1 DEF AssignUnmatched
  <2>3. NoVisit \in Back /\ NoVisit.op = "none" BY DEF Back, NoVisit
  <2>4. r \in ChatVisit /\ r.op = "sweep" /\ r.then = NoVisit BY <2>1, <2>3 DEF ChatVisit, SweepVisit
  <2>5. Knows(r) BY <2>3, <2>4
    DEF Knows, PollKnows, RunKnows, TimeKnows, DeleteKnows, MendKnows, SendKnows, FetchOps, SendOps
  <2>6. ComesAlone(w, r) BY <2>4, QuietComesAlone DEF FetchOps
  <2>7. visit' = [visit EXCEPT ![w] = r] /\ HoldsOn(w, r) BY <1>2, <2>2, BeginsIdle
  <2> QED BY <1>1, <1>11, <1>13, <1>15, <1>16, <1>17, <2>4, <2>5, <2>6, <2>7, RequestMoves
<1>19. CASE ~IsClosed
  <2>1. UNCHANGED visit BY <1>19 DEF AssignUnmatched
  <2> QED BY <1>1, <1>11, <1>13, <1>15, <1>16, <1>17, <2>1, RestsMove
<1> QED BY <1>18, <1>19

-----------------------------------------------------------------------------
(* Retention.                                                                *)

\* a row gets an anchor, grows old, is scrubbed: what it is stays
Kept(m) ==
    /\ ~Present(m) => chat'[m] = chat[m]
    /\ Present(m) =>
        /\ chat'[m] \in MessageRow /\ chat'[m].from = chat[m].from /\ chat'[m].mine = chat[m].mine
        /\ chat'[m].joined = chat[m].joined /\ chat'[m].late = chat[m].late /\ chat'[m].state = chat[m].state
        /\ chat[m].aged => chat'[m].aged
        /\ chat[m].scrubbed => chat'[m].scrubbed
        /\ chat'[m].known => chat[m].known
        /\ chat'[m].anchor = chat[m].anchor \/ (chat[m].mine /\ chat'[m].anchor # 0 /\ chat'[m].anchor < moment)

LEMMA KeptRows ==
    ASSUME ChatInv, chat' = [m \in Msg |-> chat'[m]], \A m \in Msg : Kept(m)
    PROVE  /\ ChatTyped' /\ FromKept
           /\ \A m \in Msg : RowGoesOn(m) /\ (Present(m) => RowFits(chat'[m]) /\ AnswerFits(m)')
           /\ \A m \in Msg : IsStaff(m) /\ ~Unsent(m) => ~Unsent(m)'
           /\ \A e \in heard : IsStaff(e.m) /\ Says(e)'
<1>1. Typed /\ RowsFit /\ moment \in Nat BY DEF ChatInv, Typed, ChatRowsTyped, ProcessTyped
<1>2. \A m \in Msg : chat[m] \in Rows /\ chat'[m] \in Rows BY <1>1 DEF Typed, ChatRowsTyped, ChatTyped, Kept, Rows
<1>3. ChatTyped' BY <1>2 DEF ChatTyped
<1>4. FromKept BY DEF FromKept, Kept
<1>5. \A m \in Msg : (Present(m)' <=> Present(m)) /\ (IsWam(m)' <=> IsWam(m)) /\ (IsStaff(m)' <=> IsStaff(m))
  BY <1>1, <1>3, <1>4, PresentKept
<1>6. ASSUME NEW m \in Msg PROVE RowGoesOn(m)
  <2>1. ~Present(m) => ~IsWam(m)' BY <1>1, <1>5, MessageIs DEF Typed, ChatRowsTyped
  <2> QED BY <1>5, <2>1 DEF Kept, RowGoesOn
<1>7. ASSUME NEW m \in Msg, Present(m) PROVE RowFits(chat'[m])
  <2>1. RowFits(chat[m]) BY <1>1, <1>7 DEF RowsFit, JoinsFit
  <2> QED BY <1>7, <2>1 DEF Kept, RowFits
<1>8. ASSUME NEW m \in Msg, Present(m) PROVE AnswerFits(m)'
  <2>1. AnswerFits(m) BY <1>1 DEF RowsFit, StatusFits
  <2> QED BY <1>5, <1>8, <2>1 DEF Kept, AnswerFits
<1>9. ASSUME NEW m \in Msg, IsStaff(m), ~Unsent(m) PROVE ~Unsent(m)'
  <2>1. Present(m) BY <1>1, <1>9, MessageIs DEF Typed, ChatRowsTyped
  <2> QED BY <1>9, <2>1 DEF Kept, Unsent
<1>10. ASSUME NEW e \in heard PROVE IsStaff(e.m) /\ Says(e)'
  <2>1. e.m \in Msg /\ IsStaff(e.m) /\ Says(e) BY <1>1 DEF Typed, ChatRowsTyped, WhatsAppTyped, HeardRow, RowsFit, StatusFits
  <2>2. Present(e.m) BY <1>1, <2>1, MessageIs DEF Typed, ChatRowsTyped
  <2>3. chat'[e.m].state = chat[e.m].state /\ (chat[e.m].scrubbed => chat'[e.m].scrubbed) BY <2>1, <2>2 DEF Kept
  <2> QED BY <2>1, <2>3 DEF Says
<1> QED BY <1>3, <1>4, <1>6, <1>7, <1>8, <1>9, <1>10

LEMMA IgnoreUnmatchedMoves ==
    ASSUME ChatInv, NEW m \in Msg, IgnoreUnmatched(m)
    PROVE  ChatInv'
<1>1. /\ chat' = [chat EXCEPT ![m].ignored = TRUE] /\ Present(m)
      /\ UNCHANGED <<visit, inboxRows, processRows, photoRows, whatsAppRows, mishap>>
  BY DEF IgnoreUnmatched, Unmatched
<1>2. PICK old \in MessageRow : old = chat[m] BY <1>1, MessageIs DEF ChatInv, Typed, ChatRowsTyped
<1>3. PICK row : row = [old EXCEPT !.ignored = TRUE] OBVIOUS
<1>4. /\ row \in MessageRow /\ row.from = old.from /\ row.joined = old.joined /\ row.anchor = old.anchor
      /\ row.state = old.state
  BY <1>3 DEF MessageRow
<1>5. /\ row.mine = old.mine /\ row.late = old.late /\ row.aged = old.aged /\ row.scrubbed = old.scrubbed
      /\ row.known = old.known
  BY <1>3 DEF MessageRow
<1>6. chat' = [chat EXCEPT ![m] = row] BY <1>1, <1>2, <1>3
<1>7. chat' = [n \in Msg |-> IF n = m THEN row ELSE chat[n]] BY <1>6 DEF ChatInv, Typed, ChatRowsTyped, ChatTyped
<1>8. ASSUME NEW n \in Msg PROVE Kept(n)
  <2>1. CASE n = m BY <1>1, <1>2, <1>4, <1>5, <1>7, <2>1 DEF Kept
  <2>2. CASE n # m
    <3>1. chat'[n] = chat[n] BY <1>7, <2>2
    <3>2. Present(n) => chat[n] \in MessageRow BY MessageIs DEF ChatInv, Typed, ChatRowsTyped
    <3> QED BY <3>1, <3>2 DEF Kept
  <2> QED BY <2>1, <2>2
<1>9. chat' = [n \in Msg |-> chat'[n]] BY <1>7
<1> QED BY <1>1, <1>8, <1>9, KeptRows, RestsMove

LEMMA PeriodsEndMoves ==
    ASSUME ChatInv, PeriodsEnd
    PROVE  ChatInv'
<1>1. /\ chat' = [m \in Msg |-> IF Present(m) THEN [chat[m] EXCEPT !.aged = TRUE, !.due = chat[m].anchor # 0] ELSE chat[m]]
      /\ UNCHANGED <<visit, inboxRows, processRows, photoRows, whatsAppRows, mishap>>
  BY DEF PeriodsEnd
<1>2. ASSUME NEW m \in Msg PROVE Kept(m)
  <2>1. CASE ~Present(m) BY <1>1, <2>1 DEF Kept
  <2>2. CASE Present(m)
    <3>1. PICK old \in MessageRow : old = chat[m] BY <2>2, MessageIs DEF ChatInv, Typed, ChatRowsTyped
    <3>2. PICK due \in BOOLEAN : due = (old.anchor # 0) OBVIOUS
    <3>3. PICK row : row = [old EXCEPT !.aged = TRUE, !.due = due] OBVIOUS
    <3>4. chat'[m] = row BY <1>1, <2>2, <3>1, <3>2, <3>3
    <3>5. /\ row \in MessageRow /\ row.from = old.from /\ row.joined = old.joined /\ row.anchor = old.anchor
          /\ row.state = old.state
      BY <3>3 DEF MessageRow
    <3>6. row.mine = old.mine /\ row.late = old.late /\ row.aged /\ row.scrubbed = old.scrubbed /\ row.known = old.known
      BY <3>3 DEF MessageRow
    <3> QED BY <2>2, <3>1, <3>4, <3>5, <3>6 DEF Kept
  <2> QED BY <2>1, <2>2
<1>3. chat' = [m \in Msg |-> chat'[m]] BY <1>1
<1> QED BY <1>1, <1>2, <1>3, KeptRows, RestsMove

LEMMA ScrubbedMoves ==
    ASSUME ChatInv, NEW S, \A m \in S : Present(m), chat' = Scrubbed(S),
           UNCHANGED <<visit, inboxRows, processRows, photoRows, whatsAppRows, mishap>>
    PROVE  ChatInv'
<1>1. ASSUME NEW m \in Msg PROVE Kept(m)
  <2>1. CASE m \notin S
    <3>1. chat'[m] = chat[m] BY <2>1 DEF Scrubbed
    <3>2. Present(m) => chat[m] \in MessageRow BY MessageIs DEF ChatInv, Typed, ChatRowsTyped
    <3> QED BY <3>1, <3>2 DEF Kept
  <2>2. CASE m \in S
    <3>1. PICK old \in MessageRow : old = chat[m] BY <2>2, MessageIs DEF ChatInv, Typed, ChatRowsTyped
    <3>2. PICK row : row = [old EXCEPT !.scrubbed = TRUE, !.known = FALSE] OBVIOUS
    <3>3. chat'[m] = row BY <2>2, <3>1, <3>2 DEF Scrubbed
    <3>4. /\ row \in MessageRow /\ row.from = old.from /\ row.joined = old.joined /\ row.anchor = old.anchor
          /\ row.state = old.state
      BY <3>2 DEF MessageRow
    <3>5. row.mine = old.mine /\ row.late = old.late /\ row.aged = old.aged /\ row.scrubbed /\ ~row.known
      BY <3>2 DEF MessageRow
    <3> QED BY <2>2, <3>1, <3>3, <3>4, <3>5 DEF Kept
  <2> QED BY <2>1, <2>2
<1>2. chat' = [m \in Msg |-> chat'[m]] BY DEF Scrubbed
<1> QED BY <1>1, <1>2, KeptRows, RestsMove

LEMMA TextsPurgedMoves ==
    ASSUME ChatInv, TextsPurged
    PROVE  ChatInv'
<1>1. PICK S : S = {m \in Msg : Present(m) /\ chat[m].due /\ ~chat[m].scrubbed} OBVIOUS
<1> QED BY <1>1, ScrubbedMoves DEF TextsPurged

LEMMA UnmatchedPurgedMoves ==
    ASSUME ChatInv, NEW w \in Clerk, UnmatchedPurged(w)
    PROVE  ChatInv'
<1>1. PICK S : S = {m \in Msg : LongUnmatched(m) /\ Live(m)} OBVIOUS
<1>2. PICK T : T = {m \in Msg : LongUnmatched(m) /\ ~chat[m].scrubbed} OBVIOUS
<1>3. \/ /\ Begin(w, Deletes(S, NoVisit))
         /\ UNCHANGED <<edits, inboxRows, chat, processRows, photoRows, whatsAppRows, mishap>>
      \/ /\ chat' = Scrubbed(T)
         /\ UNCHANGED <<visit, edits, inboxRows, processRows, photoRows, whatsAppRows, mishap>>
  BY <1>1, <1>2 DEF UnmatchedPurged
<1>4. \A m \in T : Present(m) BY <1>2 DEF LongUnmatched
<1> QED BY <1>1, <1>3, <1>4, PicturesPurgedMoves, ScrubbedMoves

(* The rows of a phase get its anchor.                                       *)
LEMMA StampedKept ==
    ASSUME ChatInv, NEW S, NEW at \in Nat, Past(at), \A m \in S : Mine(m), chat' = Stamped(S, at)
    PROVE  /\ \A m \in Msg : Kept(m)
           /\ chat' = [m \in Msg |-> chat'[m]]
           /\ \A m \in Msg : m \in S => chat'[m].anchor # 0
<1>1. ASSUME NEW m \in Msg PROVE Kept(m) /\ (m \in S => chat'[m].anchor # 0)
  <2>1. CASE ~(m \in S /\ chat[m].anchor = 0)
    <3>1. chat'[m] = chat[m] BY <2>1 DEF Stamped
    <3>2. Present(m) => chat[m] \in MessageRow BY MessageIs DEF ChatInv, Typed, ChatRowsTyped
    <3> QED BY <2>1, <3>1, <3>2 DEF Kept
  <2>2. CASE m \in S /\ chat[m].anchor = 0
    <3>1. PICK old \in MessageRow : old = chat[m] BY <2>2, MessageIs DEF ChatInv, Typed, ChatRowsTyped, Mine
    <3>2. PICK row : row = [old EXCEPT !.anchor = at] OBVIOUS
    <3>3. chat'[m] = row BY <2>2, <3>1, <3>2 DEF Stamped
    <3>4. /\ row \in MessageRow /\ row.from = old.from /\ row.joined = old.joined /\ row.anchor = at
          /\ row.state = old.state
      BY <3>2 DEF MessageRow
    <3>5. /\ row.mine = old.mine /\ row.late = old.late /\ row.aged = old.aged /\ row.scrubbed = old.scrubbed
          /\ row.known = old.known
      BY <3>2 DEF MessageRow
    <3>7. chat'[m].anchor # 0 /\ chat'[m].anchor < moment BY <3>3, <3>4 DEF Past
    <3>8. Present(m) /\ chat[m].mine BY <2>2 DEF Mine
    <3>9. /\ row.aged = old.aged /\ (old.scrubbed => row.scrubbed) /\ (row.known => old.known)
          /\ row.mine = old.mine /\ row.late = old.late
      BY <3>5
    <3> QED BY <3>1, <3>3, <3>4, <3>7, <3>8, <3>9 DEF Kept
  <2> QED BY <2>1, <2>2
<1>2. chat' = [m \in Msg |-> chat'[m]] BY DEF Stamped
<1> QED BY <1>1, <1>2

LEMMA BackstopBeginsMoves ==
    ASSUME ChatInv, NEW w \in Clerk, BackstopBegins(w)
    PROVE  ChatInv'
<1>1. PICK S : S = {m \in Msg : StillClosed(m)} OBVIOUS
<1>2. PICK r : r = [op |-> "backstop"] OBVIOUS
<1>3. /\ IsClosed /\ chat' = Stamped(S, dossier) /\ Begin(w, r)
      /\ UNCHANGED <<inboxRows, processRows, photoRows, whatsAppRows, mishap>>
  BY <1>1, <1>2 DEF BackstopBegins
<1>4. Typed /\ RowsFit /\ moment \in Nat /\ dossier \in Nat BY DEF ChatInv, Typed, ChatRowsTyped, ProcessTyped
<1>5. Past(dossier) BY <1>3, <1>4 DEF RowsFit, ClosingFits, Past, IsClosed
<1>6. \A m \in S : Mine(m) BY <1>1 DEF StillClosed
<1>7. (\A m \in Msg : Kept(m)) /\ chat' = [m \in Msg |-> chat'[m]] BY <1>3, <1>4, <1>5, <1>6, StampedKept
<1>8. r \in ChatVisit /\ r.op = "backstop" BY <1>2 DEF ChatVisit, BackstopVisit
<1>9. Knows(r) /\ ComesAlone(w, r) BY <1>8, QuietKnows, QuietComesAlone DEF FetchOps
<1>10. visit' = [visit EXCEPT ![w] = r] /\ HoldsOn(w, r) BY <1>3, <1>4, BeginsIdle
<1> QED BY <1>3, <1>7, <1>8, <1>9, <1>10, KeptRows, RequestMoves

LEMMA CleanupBeginsMoves ==
    ASSUME ChatInv, NEW w \in Clerk, CleanupBegins(w)
    PROVE  ChatInv'
<1>1. UNCHANGED <<dossier, moment, cleared, inboxRows, photoRows, whatsAppRows, mishap>> BY DEF CleanupBegins
<1>2. PICK j \in closing :
        /\ closing' = (closing \ {j}) \cup {[j EXCEPT !.left = @ - 1]}
        /\ chat' = Stamped({m \in Msg : JoinedBy(m, j.at)}, j.at)
        /\ Begin(w, [op |-> "clean", then |-> [op |-> "mend", at |-> j.at]])
  BY DEF CleanupBegins
<1>3. Typed /\ RowsFit BY DEF ChatInv
<1>4. j \in [at : Nat, left : Int] /\ Past(j.at) BY <1>3 DEF Typed, ChatRowsTyped, ProcessTyped, RowsFit, ClosingFits
<1>5. PICK at \in Nat : at = j.at BY <1>4
<1>6. PICK S : S = {m \in Msg : JoinedBy(m, at)} OBVIOUS
<1>7. PICK then : then = [op |-> "mend", at |-> at] OBVIOUS
<1>8. PICK r : r = [op |-> "clean", then |-> then] OBVIOUS
<1>9. chat' = Stamped(S, at) /\ Begin(w, r) /\ Past(at) BY <1>2, <1>4, <1>5, <1>6, <1>7, <1>8
<1>10. then \in Mend /\ then.op = "mend" /\ then.at = at BY <1>7 DEF Mend
<1>11. r \in ChatVisit /\ r.op = "clean" /\ r.then = then BY <1>8, <1>10 DEF ChatVisit, CleanVisit
<1>12. \A m \in S : Mine(m) BY <1>6 DEF JoinedBy
<1>13. /\ \A m \in Msg : Kept(m)
       /\ chat' = [m \in Msg |-> chat'[m]]
       /\ \A m \in Msg : m \in S => chat'[m].anchor # 0
  BY <1>9, <1>12, StampedKept
<1>14. PICK later : later = [j EXCEPT !.left = @ - 1] OBVIOUS
<1>15. later \in [at : Nat, left : Int] /\ later.at = at BY <1>4, <1>5, <1>14
<1>16. closing' = (closing \ {j}) \cup {later} BY <1>2, <1>14
<1>17. ProcessTyped' BY <1>1, <1>3, <1>15, <1>16 DEF Typed, ChatRowsTyped, ProcessTyped
<1>18. \A k \in closing' : Past(k.at) BY <1>3, <1>9, <1>15, <1>16 DEF RowsFit, ClosingFits
<1>19. Knows(r)'
  <2>1. ASSUME NEW m \in Msg, OfPhase(m, at)' PROVE chat'[m].anchor # 0
    <3>1. Present(m) BY <1>3, <1>13, <2>1, MessageIs DEF Kept, OfPhase, IsWam, JoinedBy, Mine, Present, Typed, ChatRowsTyped
    <3>2. m \in S BY <1>6, <1>13, <2>1, <3>1 DEF Kept, OfPhase, JoinedBy, Mine
    <3> QED BY <1>13, <3>2
  <2>2. MendKnows(r)' BY <1>10, <1>11, <2>1 DEF MendKnows
  <2>3. TimeKnows(r)' BY <1>1, <1>9, <1>10, <1>11 DEF TimeKnows, Past
  <2> QED BY <1>11, <2>2, <2>3 DEF Knows, PollKnows, RunKnows, DeleteKnows, SendKnows, FetchOps, SendOps
<1>20. ComesAlone(w, r) BY <1>11, QuietComesAlone DEF FetchOps
<1>21. visit' = [visit EXCEPT ![w] = r] /\ HoldsOn(w, r) BY <1>3, <1>9, BeginsIdle
<1>22. WhatsAppTyped' /\ heard' = heard /\ \A m \in Msg : sending'[m] > 0 => IsStaff(m)
  BY <1>1, <1>3 DEF Typed, ChatRowsTyped, WhatsAppTyped, whatsAppRows, RowsFit, SendsFit
<1>23. UNCHANGED <<inboxRows, dossier, moment, cleared, photoRows, hook, media, handed, mishap>> BY <1>1 DEF whatsAppRows
<1>24. /\ ChatTyped' /\ FromKept
       /\ \A m \in Msg : RowGoesOn(m) /\ (Present(m) => RowFits(chat'[m]) /\ AnswerFits(m)')
       /\ \A m \in Msg : IsStaff(m) /\ ~Unsent(m) => ~Unsent(m)'
       /\ \A e \in heard : IsStaff(e.m) /\ Says(e)'
  BY <1>13, KeptRows
<1>25. \A e \in heard' : IsStaff(e.m) /\ Says(e)' BY <1>22, <1>24
<1> QED BY <1>11, <1>17, <1>18, <1>19, <1>20, <1>21, <1>22, <1>23, <1>24, <1>25, ChatMoves

LEMMA HooksHashedMoves ==
    ASSUME ChatInv, HooksHashed
    PROVE  ChatInv'
<1>1. UNCHANGED <<visit, inboxRows, chat, processRows, photoRows, heard, media, sending, handed, mishap>>
  BY DEF HooksHashed
<1>2. PICK x \in Wam : hook[x] \in Msg /\ hook' = [hook EXCEPT ![x] = "hashed"] BY DEF HooksHashed
<1>3. Typed /\ RowsFit BY DEF ChatInv
<1>4. Typed' BY <1>1, <1>2, <1>3
  DEF Typed, ChatRowsTyped, InboxTyped, ChatTyped, PhotoTyped, WhatsAppTyped, ProcessTyped, inboxRows, processRows, photoRows
<1>5. CameIn'
  <2>1. "hashed" # None /\ "hashed" \notin Msg BY ChatAssumption
  <2>2. \A y \in Wam : hook'[y] = IF y = x THEN "hashed" ELSE hook[y] BY <1>2, <1>3 DEF Typed, ChatRowsTyped, WhatsAppTyped
  <2>3. StoredOnce' BY <1>1, <1>3 DEF RowsFit, CameIn, StoredOnce, Present, Inbound
  <2>4. \A m \in Msg : chat'[m].from \in Letter => \E r \in receipts' : r.letter = chat'[m].from
    BY <1>1, <1>3 DEF RowsFit, CameIn, inboxRows
  <2>5. \A m \in Msg : chat'[m].from \in Wam => hook'[chat'[m].from] # None BY <1>1, <1>3, <2>1, <2>2 DEF RowsFit, CameIn
  <2>6. \A y \in Wam : hook'[y] \in Msg => chat'[hook'[y]].from = y BY <1>1, <1>3, <2>1, <2>2 DEF RowsFit, CameIn
  <2> QED BY <2>3, <2>4, <2>5, <2>6 DEF CameIn
<1>6. MarkFits' BY <1>1, <1>3 DEF RowsFit, MarkFits, NotedTo, Noted, inboxRows
<1>7. PhotoFits' BY <1>1, <1>3 DEF RowsFit, PhotoFits, Present, IsWam, photoRows
<1>8. ClosingFits' BY <1>1, <1>3 DEF RowsFit, ClosingFits, Past, processRows
<1>9. JoinsFit' BY <1>1, <1>3 DEF RowsFit, JoinsFit, RowFits, Present, IsClosed, processRows
<1>10. LossFits' BY <1>1, <1>3 DEF RowsFit, LossFits, Deletable, photoRows, processRows
<1>11. PhasesFit' BY <1>1, <1>3 DEF RowsFit, PhasesFit, OfPhase, IsWam, JoinedBy, Mine, Present, Live, photoRows, processRows
<1>12. SendsFit' BY <1>1, <1>3 DEF RowsFit, SendsFit, IsStaff
<1>13. StatusFits' BY <1>1, <1>3 DEF RowsFit, StatusFits, AnswerFits, Says, IsStaff, Present
<1>14. RowsFit' BY <1>5, <1>6, <1>7, <1>8, <1>9, <1>10, <1>11, <1>12, <1>13 DEF RowsFit
<1>15. FilesFit' BY <1>1 DEF ChatInv, FilesFit, Live, photoRows
<1>16. SentFits' BY <1>1 DEF ChatInv, SentFits, Unsent
<1>17. VisitsApart' BY <1>1 DEF ChatInv, VisitsApart, ApartIn
<1>18. ASSUME NEW w \in Clerk PROVE Knows(visit[w])'
  <2>1. PICK v \in ChatVisit : v = visit[w] /\ Knows(v) BY <1>3 DEF ChatInv, Typed
  <2>2. RowsGoOn
    <3>1. \A m \in Msg : RowGoesOn(m) /\ PictureGoesOn(m) BY <1>1, <1>3, RowsRest, PicturesRest DEF photoRows
    <3>2. MailboxGoesOn /\ receipts' = receipts /\ moment \in Nat /\ moment' = moment
      BY <1>1, <1>3 DEF MailboxGoesOn, inboxRows, processRows, Typed, ChatRowsTyped, InboxTyped, ProcessTyped
    <3> QED BY <1>1, <3>1, <3>2 DEF RowsGoOn, OthersGoOn
  <2>3. LeftAlone(v)
    <3>1. FromKept BY <1>1 DEF FromKept
    <3>2. UNCHANGED photoRows /\ handed' = handed /\ ChatRowsTyped' BY <1>1, <1>4 DEF Typed
    <3> QED BY <2>1, <3>1, <3>2, Untouched
  <2>4. Knows(v)' BY <1>3, <1>4, <2>1, <2>2, <2>3, KnowsStays DEF Typed
  <2>5. visit'[w] = v BY <1>1, <2>1
  <2> QED BY <2>4, <2>5 DEF Knows, PollKnows, RunKnows, TimeKnows, DeleteKnows, MendKnows, SendKnows
<1> QED BY <1>4, <1>14, <1>15, <1>16, <1>17, <1>18 DEF ChatInv

-----------------------------------------------------------------------------
(* The beginning, the steps, and what follows.                               *)

LEMMA ChatSteps ==
    ASSUME ChatInv, [ChatNext]_chatVars
    PROVE  ChatInv'
<1>1. CASE UNCHANGED chatVars
  <2>1. UNCHANGED <<visit, inboxRows, chat, processRows, photoRows, whatsAppRows, mishap>>
    BY <1>1 DEF chatVars, inboxRows, processRows, photoRows, whatsAppRows
  <2>2. PICK w \in Clerk, r \in ChatVisit : /\ r = visit[w] /\ visit' = [visit EXCEPT ![w] = r] /\ Knows(r)
                                            /\ ComesAlone(w, r) /\ HoldsOn(w, r)
    BY <2>1, NobodyMoves
  <2>3. mishap \subseteq mishap' BY <2>1
  <2> QED BY <2>1, <2>2, <2>3, VisitMoves
<1>2. ASSUME NEW w \in Clerk,
             \/ PollBegins(w) \/ PollFetched(w) \/ LetterPassed(w) \/ LetterPrepared(w) \/ LetterStored(w)
             \/ LetterRefused(w) \/ MarkMoved(w) \/ PollEnds(w)
      PROVE  ChatInv'
  BY <1>2, PollBeginsMoves, PollFetchedMoves, LetterPassedMoves, LetterPreparedMoves, LetterStoredMoves,
     LetterRefusedMoves, MarkMovedMoves, PollEndsMoves
<1>3. ASSUME NEW w \in Clerk,
             \/ FileDeleted(w) \/ PhotoGone(w) \/ DeleteEnds(w) \/ Swept(w)
             \/ PictureWanted(w) \/ MediaFetched(w) \/ MediaRegistered(w) \/ MediaDiscarded(w) \/ JobDone(w)
      PROVE  ChatInv'
  BY <1>3, FileDeletedMoves, PhotoGoneMoves, DeleteEndsMoves, SweptMoves, PictureWantedMoves, MediaFetchedMoves,
     MediaRegisteredMoves, MediaDiscardedMoves, JobDoneMoves
<1>4. ASSUME NEW w \in Clerk,
             \/ ReplyWhatsApp(w) \/ SendEnqueued(w) \/ SendAnswered(w) \/ SendRecorded(w)
             \/ ReplyByEmail(w) \/ ReplyByPortal(w) \/ ProcessCloses(w) \/ ClosingTold(w)
      PROVE  ChatInv'
  BY <1>4, ReplyWhatsAppMoves, SendEnqueuedMoves, SendAnsweredMoves, SendRecordedMoves, ReplyByEmailMoves,
     ReplyByPortalMoves, ProcessClosesMoves, ClosingToldMoves
<1>5. ASSUME NEW w \in Clerk,
             \/ CleanupBegins(w) \/ CleanupSelected(w) \/ BackstopBegins(w) \/ BackstopSelected(w)
             \/ UnmatchedPurged(w) \/ BreaksOff(w)
             \/ \E x \in Wam : MessageHooked(w, x)
             \/ \E m \in Msg : MediaBegins(w, m) \/ SendBegins(w, m) \/ AssignUnmatched(w, m)
      PROVE  ChatInv'
  BY <1>5, CleanupBeginsMoves, CleanupSelectedMoves, BackstopBeginsMoves, BackstopSelectedMoves, UnmatchedPurgedMoves,
     BreaksOffMoves, MessageHookedMoves, MediaBeginsMoves, SendBeginsMoves, AssignUnmatchedMoves
<1>6. ASSUME \/ \E l \in Letter : LetterArrives(l)
             \/ \E m \in Msg : DeliveryMirrored(m) \/ IgnoreUnmatched(m)
             \/ \E m \in Msg, status \in Statuses : StatusRead(m, status)
             \/ \E e \in heard : StatusWritten(e)
             \/ Rebuilt \/ ProcessReopens \/ PeriodsEnd \/ TextsPurged \/ HooksHashed
      PROVE  ChatInv'
  BY <1>6, LetterArrivesMoves, DeliveryMirroredMoves, IgnoreUnmatchedMoves, StatusReadMoves, StatusWrittenMoves, RebuiltMoves,
     ProcessReopensMoves, PeriodsEndMoves, TextsPurgedMoves, HooksHashedMoves
<1> QED BY <1>1, <1>2, <1>3, <1>4, <1>5, <1>6 DEF ChatNext, Statuses

(* The four situations to begin with.                                        *)
LEMMA ChatBegins ==
    ASSUME ChatInit
    PROVE  /\ InboxTyped /\ dossier \in {0, 1}
           /\ \/ /\ mark.last = 0 /\ dossier = 0 /\ chat = [m \in Msg |-> NoMessage]
              \/ /\ mark.last = 1 /\ mark.validity = 1 /\ mailbox.validity = 1
                 /\ Len(mailbox.letters) = 1
                 /\ \E r \in receipts : r.letter = mailbox.letters[1]
                 /\ \E g \in Msg : \E from \in {mailbox.letters[1]} \cup Wam :
                      /\ from \in Wam => dossier = 0
                      /\ chat = [m \in Msg |-> IF m = g THEN ChatRow(from, from \in Wam \/ IsClosed, 1, "received") ELSE NoMessage]
           /\ mark.validity = 1 /\ mailbox.validity = 1
<1>1. PICK l \in Letter, x \in Wam, g \in Msg : UnreadMail(l) \/ PictureToFetch(g, l, x) \/ PictureAtHand(g, l)
  BY DEF ChatInit
<1>2. <<l>> \in Seq(Letter) /\ <<l, l>> \in Seq(Letter) /\ Len(<<l>>) = 1 /\ <<l>>[1] = l OBVIOUS
<1>3. ASSUME UnreadMail(l) PROVE InboxTyped /\ mark.last = 0 /\ mark.validity = 1 /\ mailbox.validity = 1
  BY <1>2, <1>3 DEF UnreadMail, InboxTyped, Mark
<1>4. ASSUME OldMail(l)
      PROVE  /\ InboxTyped /\ mark.last = 1 /\ mark.validity = 1 /\ mailbox.validity = 1 /\ mailbox.letters = <<l>>
             /\ \E r \in receipts : r.letter = l
  BY <1>2, <1>4 DEF OldMail, InboxTyped, Mark
<1>5. CASE UnreadMail(l) BY <1>3, <1>5 DEF UnreadMail
<1>6. CASE PictureToFetch(g, l, x)
  <2>1. OldMail(l) /\ dossier = 0 /\ chat = [m \in Msg |-> IF m = g THEN ChatRow(x, TRUE, 1, "received") ELSE NoMessage]
    BY <1>6 DEF PictureToFetch
  <2>2. (x \in Wam \/ IsClosed) = TRUE OBVIOUS
  <2>3. chat = [m \in Msg |-> IF m = g THEN ChatRow(x, x \in Wam \/ IsClosed, 1, "received") ELSE NoMessage] BY <2>1, <2>2
  <2> QED BY <1>2, <1>4, <2>1, <2>3
<1>7. CASE PictureAtHand(g, l)
  <2>1. OldMail(l) /\ dossier \in {0, 1} /\ chat = [m \in Msg |-> IF m = g THEN ChatRow(l, IsClosed, 1, "received") ELSE NoMessage]
    BY <1>7 DEF PictureAtHand
  <2>2. l \notin Wam BY SendersApart
  <2>3. (l \in Wam \/ IsClosed) = IsClosed BY <2>2 DEF IsClosed
  <2>4. chat = [m \in Msg |-> IF m = g THEN ChatRow(l, l \in Wam \/ IsClosed, 1, "received") ELSE NoMessage] BY <2>1, <2>3
  <2> QED BY <1>2, <1>4, <2>1, <2>2, <2>4
<1> QED BY <1>1, <1>5, <1>6, <1>7

\* nobody has read anything yet
LEMMA NobodyKnows ==
    ASSUME ActorsInit
    PROVE  /\ visit \in [Clerk -> ChatVisit] /\ VisitsApart
           /\ \A w \in Clerk : visit[w].op = "none" /\ Knows(visit[w])
<1>1. \A w \in Clerk : visit[w] = NoVisit BY DEF ActorsInit
<1>2. \A w \in Clerk : visit[w].op = "none" /\ Knows(visit[w]) BY <1>1, NoVisitIsQuiet, QuietKnows
<1> QED BY <1>1, <1>2, NoVisitIsQuiet DEF ActorsInit, VisitsApart, ApartIn, FetchOps

\* whatever there is to begin with, the sender of each message is known
LEMMA FirstRows ==
    ASSUME ChatInit
    PROVE  /\ ChatTyped /\ CameIn /\ JoinsFit
           /\ \A m \in Msg : Present(m) => chat[m].from \in Letter \cup Wam
           /\ \A m \in Msg : Present(m) => ~chat[m].known /\ (IsWam(m) => dossier = 0)
           /\ mark.last \in {0, 1} /\ MarkFits
<1>0. InboxTyped /\ dossier \in {0, 1} /\ moment = dossier + 1 BY ChatBegins DEF ChatInit
<1>1. CASE mark.last = 0 /\ dossier = 0 /\ chat = [m \in Msg |-> NoMessage]
  <2>1. \A m \in Msg : chat[m] = NoMessage /\ chat[m].from = None BY <1>1 DEF NoMessage
  <2>2. ChatTyped BY <1>1 DEF ChatTyped, Rows
  <2>3. \A m \in Msg : ~Present(m) /\ chat[m].from \notin Letter \cup Wam /\ ~IsWam(m) BY <2>1, SendersApart DEF Present, IsWam
  <2>4. \A x \in Wam : hook[x] = None BY <2>3 DEF ChatInit
  <2>5. CameIn BY <2>3, <2>4, ChatAssumption DEF CameIn, StoredOnce
  <2>6. MarkFits
    <3>1. mark.validity = 1 /\ mailbox.validity = 1 /\ Len(mailbox.letters) \in Nat BY <1>0, ChatBegins DEF InboxTyped
    <3> QED BY <1>1, <3>1 DEF MarkFits, NotedTo
  <2> QED BY <1>1, <2>2, <2>3, <2>5, <2>6 DEF JoinsFit
<1>2. CASE /\ mark.last = 1 /\ mark.validity = 1 /\ mailbox.validity = 1
           /\ Len(mailbox.letters) = 1
           /\ \E r \in receipts : r.letter = mailbox.letters[1]
           /\ \E g \in Msg : \E from \in {mailbox.letters[1]} \cup Wam :
                /\ from \in Wam => dossier = 0
                /\ chat = [m \in Msg |-> IF m = g THEN ChatRow(from, from \in Wam \/ IsClosed, 1, "received") ELSE NoMessage]
  <2>1. PICK g \in Msg, from \in {mailbox.letters[1]} \cup Wam :
          /\ from \in Wam => dossier = 0
          /\ chat = [m \in Msg |-> IF m = g THEN ChatRow(from, from \in Wam \/ IsClosed, 1, "received") ELSE NoMessage]
    BY <1>2
  <2>2. mailbox.letters[1] \in Letter BY <1>0, <1>2 DEF InboxTyped
  <2>3. from \in Letter \cup Wam BY <2>1, <2>2
  <2>4. PICK mine \in BOOLEAN : mine = (from \in Wam \/ IsClosed) OBVIOUS
  <2>5. PICK row : row = ChatRow(from, mine, 1, "received") OBVIOUS
  <2>6. row \in MessageRow /\ row.from = from /\ row.joined = 1 /\ row.anchor = 0
    BY <2>3, <2>5 DEF ChatRow, MessageRow, IsClosed, States
  <2>7. row.known = FALSE /\ row.mine = mine /\ row.late = (mine /\ IsClosed) BY <2>5 DEF ChatRow
  <2>8. chat = [m \in Msg |-> IF m = g THEN row ELSE NoMessage] BY <2>1, <2>4, <2>5
  <2>9. ChatTyped BY <2>6, <2>8 DEF ChatTyped, Rows
  <2>10. chat[g] = row /\ \A m \in Msg \ {g} : chat[m] = NoMessage BY <2>8
  <2>11. row # NoMessage BY <2>6, RowIs DEF Rows
  <2>12. \A m \in Msg : /\ Present(m) <=> m = g
                        /\ m # g => chat[m].from = None
    BY <2>10, <2>11 DEF Present, NoMessage
  <2>13. from # None BY <2>3, SendersApart
  <2>14. \A m \in Msg : chat[m].from \in Letter \cup Wam => m = g BY <2>12, SendersApart
  <2>15. \A x \in Wam : IF x = from THEN hook[x] = g ELSE hook[x] = None
    <3> SUFFICES ASSUME NEW x \in Wam PROVE IF x = from THEN hook[x] = g ELSE hook[x] = None OBVIOUS
    <3>1. hook[x] = IF \E m \in Msg : chat[m].from = x THEN CHOOSE m \in Msg : chat[m].from = x ELSE None
      BY DEF ChatInit
    <3>2. CASE x = from
      <4>1. chat[g].from = x /\ \A m \in Msg : chat[m].from = x => m = g BY <2>6, <2>10, <2>14, <3>2
      <4> QED BY <3>1, <3>2, <4>1
    <3>3. CASE x # from
      <4>1. \A m \in Msg : chat[m].from # x BY <2>6, <2>10, <2>14, <3>3
      <4> QED BY <3>1, <3>3, <4>1
    <3> QED BY <3>2, <3>3
  <2>16. CameIn
    <3>1. \A m \in Msg : chat[m].from \in Letter => \E r \in receipts : r.letter = chat[m].from
      <4>1. from \in Letter => from = mailbox.letters[1] BY <2>1, SendersApart
      <4> QED BY <1>2, <2>6, <2>10, <2>14, <4>1
    <3>2. \A m \in Msg : chat[m].from \in Wam => hook[chat[m].from] # None
      <4>1. g # None BY ChatAssumption
      <4> QED BY <2>6, <2>10, <2>14, <2>15, <4>1
    <3>3. \A x \in Wam : hook[x] \in Msg => chat[hook[x]].from = x BY <2>6, <2>10, <2>15, ChatAssumption
    <3>4. StoredOnce BY <2>12 DEF StoredOnce
    <3> QED BY <3>1, <3>2, <3>3, <3>4 DEF CameIn
  <2>17. RowFits(row) BY <1>0, <2>6, <2>7 DEF RowFits
  <2>18. JoinsFit BY <2>10, <2>12, <2>17 DEF JoinsFit
  <2>19. MarkFits
    <3>1. Noted(1) BY <1>2 DEF Noted
    <3>2. \A u \in 1..1 : u = 1 OBVIOUS
    <3> QED BY <1>2, <3>1, <3>2 DEF MarkFits, NotedTo
  <2>20. \A m \in Msg : Present(m) => ~chat[m].known /\ (IsWam(m) => dossier = 0)
    BY <2>1, <2>6, <2>7, <2>10, <2>12 DEF IsWam
  <2> QED BY <1>2, <2>3, <2>6, <2>9, <2>10, <2>12, <2>16, <2>18, <2>19, <2>20
<1> QED BY <1>1, <1>2, ChatBegins

LEMMA ChatStarts ==
    ASSUME ChatInit
    PROVE  ChatInv
<1>1. visit \in [Clerk -> ChatVisit] /\ VisitsApart /\ \A w \in Clerk : visit[w].op = "none" /\ Knows(visit[w])
  BY NobodyKnows DEF ChatInit
<1>2. InboxTyped /\ dossier \in {0, 1} /\ moment = dossier + 1 BY ChatBegins DEF ChatInit
<1>3. ChatTyped /\ CameIn /\ JoinsFit /\ MarkFits BY FirstRows
<1>4. /\ media = [m \in Msg |-> IF chat[m].from \in Wam THEN JobTries ELSE NeverAsked]
      /\ photo = [m \in Msg |-> IF chat[m].from \in Letter THEN "live" ELSE "none"]
      /\ files = {m \in Msg : chat[m].from \in Letter}
      /\ closing = IF IsClosed THEN {[at |-> dossier, left |-> JobTries]} ELSE {}
      /\ cleared = {} /\ heard = {} /\ mishap = {}
      /\ sending = [m \in Msg |-> NeverAsked] /\ handed = [m \in Msg |-> 0]
      /\ hook = [x \in Wam |-> IF \E g \in Msg : chat[g].from = x THEN CHOOSE g \in Msg : chat[g].from = x ELSE None]
  BY DEF ChatInit
<1>5. PhotoTyped BY <1>4 DEF PhotoTyped
<1>6. WhatsAppTyped
  <2>1. \A x \in Wam : hook[x] \in Msg \cup {None, "hashed"} BY <1>4
  <2>2. media \in [Msg -> Int] /\ sending \in [Msg -> Int] /\ handed \in [Msg -> Nat]
    BY <1>4, ChatAssumption DEF NeverAsked
  <2> QED BY <1>4, <2>1, <2>2 DEF WhatsAppTyped, Heard, Alone
<1>7. ProcessTyped BY <1>2, <1>4, ChatAssumption DEF ProcessTyped
<1>8. Typed BY <1>1, <1>2, <1>3, <1>5, <1>6, <1>7 DEF Typed, ChatRowsTyped
<1>9. PhotoFits
  <2>1. \A m \in Msg : photo[m] # "none" => Present(m) BY <1>3, <1>4, SendersApart, MessageIs
  <2>2. \A m \in Msg : media[m] > 0 => IsWam(m) BY <1>4 DEF NeverAsked, IsWam
  <2>3. \A m \in Msg : photo[m] # "gone" BY <1>4
  <2> QED BY <2>1, <2>2, <2>3 DEF PhotoFits
<1>10. ClosingFits BY <1>2, <1>4 DEF ClosingFits, Past, IsClosed
<1>11. LossFits BY <1>4 DEF LossFits
<1>12. PhasesFit BY <1>4 DEF PhasesFit
<1>13. SendsFit BY <1>4 DEF SendsFit, NeverAsked
<1>14. StatusFits
  <2>1. \A m \in Msg : ~IsStaff(m)
    BY <1>3, FirstRows, SendersApart, MessageIs DEF IsStaff
  <2>2. \A m \in Msg : AnswerFits(m) BY <2>1, FirstRows DEF AnswerFits
  <2> QED BY <1>4, <2>2 DEF StatusFits
<1>15. FilesFit BY <1>4 DEF FilesFit, Live
<1>16. SentFits BY <1>4 DEF SentFits
<1> QED BY <1>1, <1>3, <1>8, <1>9, <1>10, <1>11, <1>12, <1>13, <1>14, <1>15, <1>16 DEF ChatInv, RowsFit

LEMMA ChatHolds ==
    ASSUME ChatInv
    PROVE  ChatSafety
<1>1. Typed /\ RowsFit /\ moment \in Nat BY DEF ChatInv, Typed, ChatRowsTyped, ProcessTyped
<1>2. StoredOnce BY <1>1 DEF RowsFit, CameIn
<1>3. NothingPassedOver BY <1>1 DEF RowsFit, MarkFits, NothingPassedOver, NotedTo, Noted
<1>4. GoneIsGone BY <1>1 DEF RowsFit, PhotoFits, GoneIsGone
<1>5. KeptWhileOpen BY <1>1 DEF RowsFit, LossFits, Live, Deletable, KeptWhileOpen
<1>6. PhaseIsCleared
  <2> SUFFICES ASSUME NEW m \in Msg, Live(m), IsWam(m), chat[m].anchor \in cleared PROVE chat[m].joined > chat[m].anchor
    BY DEF PhaseIsCleared, IsWam
  <2>1. PICK row \in MessageRow : row = chat[m] /\ Present(m) BY <1>1, MessageIs DEF Typed, ChatRowsTyped
  <2>2. row.joined \in Nat /\ row.anchor \in Nat BY <2>1 DEF MessageRow
  <2>3. row.anchor # 0 BY <1>1, <2>1 DEF RowsFit, ClosingFits, Past
  <2>4. row.mine BY <1>1, <2>1, <2>3 DEF RowsFit, JoinsFit, RowFits
  <2>5. ~(row.joined <= row.anchor)
    <3>1. row.joined <= row.anchor => OfPhase(m, row.anchor) BY <2>1, <2>4 DEF OfPhase, JoinedBy, Mine
    <3> QED BY <1>1, <2>1, <3>1 DEF RowsFit, PhasesFit
  <2> QED BY <2>1, <2>2, <2>5
<1>7. NoFileLost
  <2> SUFFICES ASSUME mishap \subseteq {"rebuilt"}, NEW m \in files, ~Live(m)
               PROVE InHand(m, {"store", "gone"} \cup MediaOps)
    BY DEF NoFileLost
  <2>1. PICK w \in Clerk : visit[w].op \in HoldOps /\ visit[w].m = m BY DEF ChatInv, FilesFit
  <2> QED BY <2>1 DEF InHand, Doing, MediaOps, HoldOps
<1>8. AnsweredOnce
  <2> SUFFICES ASSUME NEW m \in Msg, "crash" \notin mishap PROVE ~(handed[m] > 1) BY DEF AnsweredOnce
  <2>1. handed[m] <= 1 /\ handed[m] \in Nat BY <1>1 DEF ChatInv, SentFits, Typed, ChatRowsTyped, WhatsAppTyped
  <2> QED BY <2>1
<1>9. StatusStays BY <1>1 DEF RowsFit, StatusFits, Says, StatusStays
<1> QED BY <1>2, <1>3, <1>4, <1>5, <1>6, <1>7, <1>8, <1>9 DEF ChatSafety

(* The conversation keeps its promises with any mails, messages, requests    *)
(* and closings: nothing is stored twice or passed over, pictures are        *)
(* deleted when and only when their phase is closed, no late job brings one  *)
(* back, answers go out once, and their statuses only lead on unless two of  *)
(* them arrive at the same time (whatsapp, inbound-mail and retention of the *)
(* api).                                                                     *)
THEOREM ChatIsSafe == ChatSpec => []ChatSafety
<1>1. ChatInit => ChatInv BY ChatStarts
<1>2. ChatInv /\ [ChatNext]_chatVars => ChatInv' BY ChatSteps
<1>3. ChatInv => ChatSafety BY ChatHolds
<1> QED BY <1>1, <1>2, <1>3, PTL DEF ChatSpec
=============================================================================
