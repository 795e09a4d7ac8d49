--------------------------- MODULE DemoResetProofs ---------------------------
(* Proofs about DemoReset: the barrier keeps business mutations and the     *)
(* reset apart, for any number of handlers, jobs and runs of the reset.     *)
EXTENDS DemoReset, TLAPS

HPC == {"idle", "guard", "acquire", "check", "running"}
RPC == {"idle", "begin", "begun", "exclusive", "wipe", "seed", "end", "interrupted", "release"}

IInv ==
    /\ hpc \in [Handlers -> HPC]
    /\ rpc \in [Resets -> RPC]
    /\ data.whole \in BOOLEAN
    /\ BarrierInv

THEOREM InitIInv == Init => IInv
BY ResetAssumption DEF Init, IInv, BarrierInv, HPC, RPC, Active

(* The steps of a handler that leave rows, flag, run lock and resets alone   *)
(* and do not start running: locks are only taken while no reset holds the   *)
(* exclusive one, and only given back by handlers that end.                  *)
LEMMA HandlerKeeps ==
    ASSUME IInv, NEW h \in Handlers,
           \/ Request(h) \/ SkipStale(h) \/ PassGuard(h) \/ TryShared(h) \/ Refuse(h)
           \/ Work(h) \/ Finish(h) \/ CrashHandler(h) \/ \E j \in Jobs : ClaimJob(h, j)
    PROVE  IInv'
<1>1. /\ UNCHANGED <<flag, data, exclusive, runLock, rpc>>
      /\ hpc' \in [Handlers -> HPC]
      /\ \A g \in Handlers : g # h => hpc'[g] = hpc[g]
      /\ \A g \in Handlers : g # h => (g \in shared' <=> g \in shared)
  BY DEF Request, SkipStale, PassGuard, TryShared, Refuse, Work, Finish, CrashHandler, ClaimJob,
         Goto, BecomeIdle, state, locks, handlerVars, IInv, HPC
<1>2. /\ hpc'[h] = "running" => hpc[h] = "running"
      /\ hpc'[h] \in {"check", "running"} => h \in shared'
      /\ exclusive = None \/ shared' = {}
  <2>1. CASE TryShared(h)
    BY <2>1 DEF TryShared, SharedFree, Goto, IInv
  <2>2. CASE Work(h)
    BY <2>2 DEF Work, IInv, BarrierInv, locks, handlerVars
  <2>3. CASE \/ Request(h) \/ SkipStale(h) \/ PassGuard(h) \/ Refuse(h)
             \/ Finish(h) \/ CrashHandler(h) \/ \E j \in Jobs : ClaimJob(h, j)
    BY <2>3 DEF Request, SkipStale, PassGuard, Refuse, Finish, CrashHandler, ClaimJob,
         Goto, BecomeIdle, locks, IInv, BarrierInv
  <2>4. QED
    BY <2>1, <2>2, <2>3
<1>3. QED
  BY <1>1, <1>2 DEF IInv, BarrierInv

(* A handler starts running only with the flag clear, hence on a whole       *)
(* dataset.                                                                  *)
LEMMA CheckKeeps ==
    ASSUME IInv, NEW h \in Handlers, CheckFlag(h)
    PROVE  IInv'
BY DEF CheckFlag, Goto, IInv, BarrierInv, state, locks, HPC

(* Steps of the environment touch nothing the invariant speaks of. *)
LEMMA OthersKeep ==
    ASSUME IInv, GoesStale \/ ForceReset \/ (\E j \in Jobs : JobReclaimed(j)) \/ UNCHANGED vars
    PROVE  IInv'
<1>1. UNCHANGED <<flag, data, shared, exclusive, runLock, hpc, rpc>>
  <2>1. CASE GoesStale \/ ForceReset
    BY <2>1 DEF GoesStale, ForceReset, locks, handlerVars
  <2>2. CASE \E j \in Jobs : JobReclaimed(j)
    BY <2>2 DEF JobReclaimed, state, locks, handlerVars
  <2>3. CASE UNCHANGED vars
    BY <2>3 DEF vars, state, locks, handlerVars
  <2>4. QED
    BY <2>1, <2>2, <2>3
<1>2. QED
  BY <1>1 DEF IInv, BarrierInv

(* Only the one reset that holds the run lock moves, so what the invariant   *)
(* says of the other resets is vacuous and stays so.                         *)
LEMMA ResetKeeps ==
    ASSUME IInv, NEW r \in Resets,
           StartReset(r) \/ ResetStep(r) \/ BarrierTimeout(r) \/ CrashReset(r)
    PROVE  IInv'
<1>0. \A q \in Resets : q # None
  BY ResetAssumption
<1>1. CASE StartReset(r)
  BY <1>1, <1>0 DEF StartReset, RGoto, IInv, BarrierInv, state, handlerVars, RPC, Active
<1>2. CASE Begin(r)
  BY <1>2 DEF Begin, RGoto, IInv, BarrierInv, locks, handlerVars, RPC, Active
<1>3. CASE BeginRefused(r) \/ FailReset(r) \/ RequestExclusive(r) \/ BarrierTimeout(r)
  BY <1>3 DEF BeginRefused, FailReset, RequestExclusive, BarrierTimeout, RGoto, IInv, BarrierInv,
              state, locks, handlerVars, RPC, Active
<1>4. CASE GetExclusive(r)
  BY <1>4, <1>0 DEF GetExclusive, RGoto, IInv, BarrierInv, state, handlerVars, RPC, Active
<1>5. CASE Wipe(r)
  BY <1>5, <1>0 DEF Wipe, RGoto, IInv, BarrierInv, state, locks, handlerVars, RPC, Active
<1>6. CASE Seed(r)
  <2>1. data'.whole = TRUE
    BY <1>6 DEF Seed, IInv
  <2>2. QED
    BY <1>6, <2>1 DEF Seed, RGoto, IInv, BarrierInv, state, locks, handlerVars, RPC, Active
<1>7. CASE End(r)
  BY <1>7 DEF End, RGoto, IInv, BarrierInv, locks, handlerVars, RPC, Active
<1>8. CASE MarkInterrupted(r)
  BY <1>8 DEF MarkInterrupted, RGoto, IInv, BarrierInv, locks, handlerVars, RPC, Active
<1>9. CASE Release(r) \/ CrashReset(r)
  BY <1>9 DEF Release, CrashReset, LetGo, RGoto, IInv, BarrierInv, state, handlerVars, RPC, Active
<1>10. QED
  BY <1>1, <1>2, <1>3, <1>4, <1>5, <1>6, <1>7, <1>8, <1>9 DEF ResetStep

THEOREM StepIInv == IInv /\ [Next]_vars => IInv'
BY HandlerKeeps, CheckKeeps, OthersKeep, ResetKeeps DEF Next, HandlerStep

(* The barrier invariant, for any number of handlers, jobs and resets. *)
THEOREM BarrierInvariance == Spec => []BarrierInv
<1>1. Spec => []IInv
  BY InitIInv, StepIInv, PTL DEF Spec
<1>2. IInv => BarrierInv
  BY DEF IInv
<1>3. QED
  BY <1>1, <1>2, PTL

(* No business mutation ever works on a wiped or half-seeded dataset. *)
THEOREM WholeData == Spec => []HandlersSeeWholeData
<1>1. BarrierInv => HandlersSeeWholeData
  BY DEF BarrierInv, HandlersSeeWholeData
<1>2. QED
  BY <1>1, BarrierInvariance, PTL

(* The demo is opened again only on a whole dataset. *)
THEOREM OpenWhole == Spec => []OpenMeansWhole
<1>1. BarrierInv => OpenMeansWhole
  BY DEF BarrierInv, OpenMeansWhole
<1>2. QED
  BY <1>1, BarrierInvariance, PTL

(* A reset changes the rows only while no business mutation runs. *)
THEOREM DataStable == Spec => DataStableForHandlers
<1>1. BarrierInv /\ [Next]_vars => [data' # data => \A h \in Handlers : hpc[h] # "running"]_vars
  <2> SUFFICES ASSUME BarrierInv, Next, data' # data, NEW h \in Handlers
               PROVE  hpc[h] # "running"
    OBVIOUS
  <2>1. PICK r \in Resets : Wipe(r) \/ Seed(r)
    <3>1. CASE \E h2 \in Handlers : \/ Request(h2) \/ HandlerStep(h2) \/ Work(h2) \/ CrashHandler(h2)
                                    \/ \E j \in Jobs : ClaimJob(h2, j)
      BY <3>1 DEF HandlerStep, Request, SkipStale, PassGuard, TryShared, Refuse, CheckFlag, Work,
                  Finish, CrashHandler, ClaimJob
    <3>2. CASE GoesStale \/ ForceReset \/ \E j \in Jobs : JobReclaimed(j)
      BY <3>2 DEF GoesStale, ForceReset, JobReclaimed
    <3>3. CASE \E r \in Resets : StartReset(r) \/ ResetStep(r) \/ BarrierTimeout(r) \/ CrashReset(r)
      BY <3>3 DEF StartReset, ResetStep, Begin, BeginRefused, RequestExclusive, GetExclusive,
                  BarrierTimeout, End, FailReset, MarkInterrupted, Release, CrashReset, LetGo
    <3>4. QED
      BY <3>1, <3>2, <3>3 DEF Next
  <2>2. exclusive = r
    BY <2>1 DEF Wipe, Seed, BarrierInv
  <2>3. shared = {}
    BY <2>2, ResetAssumption DEF BarrierInv
  <2>4. QED
    BY <2>3 DEF BarrierInv
<1>2. QED
  BY <1>1, BarrierInvariance, PTL DEF Spec, DataStableForHandlers
-----------------------------------------------------------------------------
(* Which dataset a package or a job is of.  Only the end of a reset clears   *)
(* the flag, and it raises the epoch; a handler holds its job alone, and a   *)
(* guard that let it pass has seen the start of reset the job was made under.*)
PackagesOfEpoch ==
    \A p \in packages : p.epoch <= epoch /\ (~flag /\ p.epoch = epoch => p.gen = data.gen)

Present(j) == job[j].state # "absent"
JobsHeld ==
    /\ \A h \in Handlers : hpc[h] = "idle" => hseen[h] = -1
    /\ \A h \in Handlers : hpc[h] = "guard" => hjob[h] # None
    /\ \A h \in Handlers : hjob[h] # None => job[hjob[h]].state = "processing"
    /\ \A h, g \in Handlers : hjob[h] # None /\ hjob[g] = hjob[h] => g = h
GuardsSeen ==
    /\ \A j \in Jobs : Present(j) => job[j].begun <= begun
    /\ \A h \in Handlers : hseen[h] <= begun
    /\ \A h \in Handlers : hjob[h] # None /\ hseen[h] = begun => job[hjob[h]].begun = begun
JobsOfDataset ==
    /\ \A j \in Jobs : Present(j) /\ job[j].begun = begun /\ ~job[j].window => job[j].gen = data.gen
    /\ \A r \in Resets : rpc[r] \in {"begun", "exclusive", "wipe"} =>
          \A j \in Jobs : Present(j) /\ job[j].begun = begun => job[j].window

Row == [state : {"absent", "pending", "processing", "done", "dead"}, begun : Int, gen : Int, window : BOOLEAN]
NumbersTyped ==
    /\ begun \in Nat /\ epoch \in Nat /\ data \in [gen : Int, whole : BOOLEAN]
    /\ hseen \in [Handlers -> Int] /\ hjob \in [Handlers -> Jobs \cup {None}]
    /\ job \in [Jobs -> Row] /\ flag \in BOOLEAN
    /\ \A p \in packages : p.epoch \in Int /\ p.gen \in Int

DatasetInv == IInv /\ NumbersTyped /\ PackagesOfEpoch /\ JobsHeld /\ GuardsSeen /\ JobsOfDataset

LEMMA DatasetInit == Init => DatasetInv
<1> SUFFICES ASSUME Init PROVE DatasetInv OBVIOUS
<1>1. NumbersTyped
  <2>1. NoJob \in Row BY DEF NoJob, JobRow, Row
  <2>2. /\ data \in [gen : Int, whole : BOOLEAN] /\ job \in [Jobs -> Row] /\ hseen \in [Handlers -> Int]
        /\ hjob \in [Handlers -> Jobs \cup {None}]
    BY <2>1 DEF Init
  <2> QED BY <2>2 DEF Init, NumbersTyped
<1>2. PackagesOfEpoch BY DEF Init, PackagesOfEpoch
<1>3. JobsHeld BY DEF Init, JobsHeld
<1>4. GuardsSeen BY DEF Init, GuardsSeen, Present, NoJob, JobRow
<1>5. JobsOfDataset BY DEF Init, JobsOfDataset, Present, NoJob, JobRow
<1> QED BY <1>1, <1>2, <1>3, <1>4, <1>5, InitIInv DEF DatasetInv

(* What a step may do to jobs and handlers while no reset begins or wipes:   *)
(* a job keeps its stamps, and one that is new is stamped as of now.         *)
Stamped(j) ==
    \/ job'[j].state # "absent" => /\ Present(j) /\ job'[j].begun = job[j].begun
                                   /\ job'[j].gen = job[j].gen /\ job'[j].window = job[j].window
    \/ ~Present(j) /\ job'[j] = JobRow("pending", begun, data.gen, flag /\ data.whole)

Seen(g) ==
    \/ hseen'[g] = -1
    \/ hseen'[g] = hseen[g] /\ hjob'[g] = hjob[g]
    \/ hjob'[g] = hjob[g] /\ hseen'[g] = begun /\ (hjob[g] # None => job[hjob[g]].begun >= begun)
NewOne(j) == Present(j) \/ job'[j].state = "absent" \/ data.whole
Fits == /\ NumbersTyped' /\ PackagesOfEpoch' /\ JobsHeld'
        /\ \A j \in Jobs : Stamped(j) /\ NewOne(j)
        /\ \A g \in Handlers : Seen(g)

LEMMA StampsKept ==
    ASSUME DatasetInv, NumbersTyped', begun' = begun, data'.gen = data.gen,
           \A j \in Jobs : Stamped(j),
           JobsHeld',
           \A h \in Handlers : Seen(h),
           \A r \in Resets : rpc'[r] \in {"begun", "exclusive", "wipe"} =>
                /\ rpc[r] \in {"begun", "exclusive", "wipe"}
                /\ \A j \in Jobs : Present(j) \/ job'[j].state = "absent" \/ (flag /\ data.whole)
    PROVE  GuardsSeen' /\ JobsOfDataset'
<1>0. NumbersTyped /\ GuardsSeen /\ JobsOfDataset /\ JobsHeld BY DEF DatasetInv
<1>t. /\ begun \in Nat /\ data.gen \in Int
      /\ \A j \in Jobs : job[j].begun \in Int /\ job[j].window \in BOOLEAN /\ job'[j].window \in BOOLEAN
      /\ \A h \in Handlers : hseen[h] \in Int /\ hjob[h] \in Jobs \cup {None} /\ hjob'[h] \in Jobs \cup {None}
  BY <1>0 DEF NumbersTyped, Row
<1>1. \A j \in Jobs : Present(j)' => job'[j].begun <= begun
  BY <1>0, <1>t DEF GuardsSeen, Present, Stamped, JobRow
<1>2. ASSUME NEW j \in Jobs, Present(j)', job'[j].begun = begun, ~job'[j].window PROVE job'[j].gen = data.gen
  BY <1>0, <1>2 DEF JobsOfDataset, Present, Stamped, JobRow
<1>3. ASSUME NEW r \in Resets, rpc'[r] \in {"begun", "exclusive", "wipe"}, NEW j \in Jobs, Present(j)',
             job'[j].begun = begun
      PROVE  job'[j].window
  BY <1>0, <1>3, <1>t DEF JobsOfDataset, Present, Stamped, JobRow
<1>4. \A h \in Handlers : hseen'[h] <= begun BY <1>0, <1>t DEF GuardsSeen, Seen
<1>5. ASSUME NEW h \in Handlers, hjob'[h] # None, hseen'[h] = begun PROVE job'[hjob'[h]].begun = begun
  <2>0. begun # -1 /\ hjob'[h] \in Jobs BY <1>5, <1>t
  <2>1. hjob'[h] = hjob[h] /\ hjob[h] \in Jobs BY <1>5, <2>0 DEF Seen
  <2>2. Present(hjob[h]) /\ job[hjob[h]].begun <= begun
    BY <1>0, <1>5, <2>1 DEF JobsHeld, Present, GuardsSeen
  <2>3. job[hjob[h]].begun = begun
    BY <1>0, <1>5, <1>t, <2>1, <2>2 DEF GuardsSeen, Seen
  <2>4. job'[hjob[h]].begun = job[hjob[h]].begun BY <1>5, <2>1, <2>2 DEF Stamped, Present, JobsHeld, NewOne
  <2> QED BY <2>1, <2>3, <2>4
<1> QED BY <1>1, <1>2, <1>3, <1>4, <1>5 DEF GuardsSeen, JobsOfDataset, Present

(* Steps of a handler. *)
HandlerMoves(h) ==
    \/ Request(h) \/ HandlerStep(h) \/ Work(h) \/ CrashHandler(h) \/ \E j \in Jobs : ClaimJob(h, j)

LEMMA HandlerLeaves ==
    ASSUME NEW h \in Handlers, HandlerMoves(h)
    PROVE  UNCHANGED <<flag, begun, epoch, data, rpc>>
BY DEF HandlerMoves, Request, HandlerStep, SkipStale, PassGuard, TryShared, Refuse, CheckFlag, Finish, Work,
       CrashHandler, ClaimJob, state

LEMMA HandlerDataset ==
    ASSUME DatasetInv, IInv', NEW h \in Handlers, HandlerMoves(h)
    PROVE  DatasetInv'
<1>0. NumbersTyped /\ PackagesOfEpoch /\ JobsHeld /\ GuardsSeen /\ IInv BY DEF DatasetInv
<1>u. UNCHANGED <<flag, begun, epoch, data, rpc>> BY HandlerLeaves
<1>w. \A r \in Resets : rpc[r] \in {"begun", "exclusive", "wipe"} => flag
  BY <1>0 DEF IInv, BarrierInv, Active
<1>t. /\ begun \in Nat /\ epoch \in Nat /\ data.gen \in Int /\ data.whole \in BOOLEAN
      /\ job \in [Jobs -> Row]
      /\ hjob \in [Handlers -> Jobs \cup {None}] /\ hseen \in [Handlers -> Int]
      /\ hjob[h] \in Jobs \cup {None} /\ hpc \in [Handlers -> HPC]
      /\ flag \in BOOLEAN
  BY <1>0 DEF NumbersTyped, IInv
<1>1. ASSUME Request(h) \/ TryShared(h) \/ CheckFlag(h) PROVE Fits
  <2>1. UNCHANGED <<job, hjob, hseen, packages>> /\ \A g \in Handlers : hpc'[g] = "guard" => hpc[g] = "guard"
    BY <1>1, <1>t DEF Request, TryShared, CheckFlag, Goto, state, locks, handlerVars
  <2>2. \A g \in Handlers : hpc'[g] = "idle" => hpc[g] = "idle"
    BY <1>1, <1>t DEF Request, TryShared, CheckFlag, Goto
  <2>3. NumbersTyped' BY <2>1, <1>0, <1>u DEF NumbersTyped
  <2>4. PackagesOfEpoch' BY <2>1, <1>0, <1>u DEF PackagesOfEpoch
  <2>5. JobsHeld' BY <2>1, <2>2, <1>0 DEF JobsHeld
  <2>6. \A j \in Jobs : Stamped(j) /\ NewOne(j) BY <2>1 DEF Stamped, Present, NewOne
  <2>7. \A g \in Handlers : Seen(g) BY <2>1 DEF Seen
  <2> QED BY <2>1, <2>3, <2>4, <2>5, <2>6, <2>7 DEF Fits
<1>2. ASSUME PassGuard(h) PROVE Fits
  <2>1. /\ UNCHANGED <<job, hjob, packages>> /\ hpc[h] = "guard"
        /\ \A g \in Handlers : g # h => hseen'[g] = hseen[g] /\ hpc'[g] = hpc[g]
        /\ hpc'[h] = "acquire" /\ hseen' \in [Handlers -> Int]
    BY <1>2, <1>t DEF PassGuard, Goto, state, locks
  <2>2. hseen'[h] = hseen[h] \/ (hseen'[h] = begun /\ ~(job[hjob[h]].begun < begun))
    BY <1>2, <1>t DEF PassGuard, StaleJob
  <2>3. hjob[h] # None BY <2>1, <1>0 DEF JobsHeld
  <2>4. hjob[h] \in Jobs /\ job[hjob[h]].begun \in Int BY <2>3, <1>t DEF Row
  <2>5. NumbersTyped' BY <2>1, <1>0, <1>u DEF NumbersTyped
  <2>6. PackagesOfEpoch' BY <2>1, <1>0, <1>u DEF PackagesOfEpoch
  <2>7. JobsHeld' BY <2>1, <1>0 DEF JobsHeld
  <2>8. Seen(h) BY <2>1, <2>2, <2>4, <1>t DEF Seen
  <2>9. \A j \in Jobs : Stamped(j) /\ NewOne(j) BY <2>1 DEF Stamped, Present, NewOne
  <2>10. \A g \in Handlers : Seen(g) BY <2>1, <2>8 DEF Seen
  <2> QED BY <2>5, <2>6, <2>7, <2>9, <2>10 DEF Fits
<1>3. ASSUME SkipStale(h) \/ Refuse(h) \/ Finish(h) \/ CrashHandler(h) PROVE Fits
  <2>1. /\ packages' = packages
        /\ hpc' = [hpc EXCEPT ![h] = "idle"] /\ hjob' = [hjob EXCEPT ![h] = None] /\ hseen' = [hseen EXCEPT ![h] = -1]
    BY <1>3 DEF SkipStale, Refuse, Finish, CrashHandler, BecomeIdle, Goto
  <2>2. \/ job' = job
        \/ hjob[h] # None /\ \E s \in {"dead", "pending", "done"} : job' = [job EXCEPT ![hjob[h]].state = s]
    BY <1>3 DEF SkipStale, Refuse, Finish, CrashHandler, JobBecomes
  <2>3. \A g \in Handlers : g # h => hpc'[g] = hpc[g] /\ hjob'[g] = hjob[g] /\ hseen'[g] = hseen[g]
    BY <2>1, <1>t
  <2>4. hpc'[h] = "idle" /\ hjob'[h] = None /\ hseen'[h] = -1 BY <2>1, <1>t
  <2>5. /\ job' \in [Jobs -> Row]
        /\ \A j \in Jobs : /\ job'[j].begun = job[j].begun /\ job'[j].gen = job[j].gen
                           /\ job'[j].window = job[j].window
                           /\ j # hjob[h] => job'[j] = job[j]
        /\ \A j \in Jobs : job'[j] = job[j] \/ (hjob[h] = j /\ j # None)
    <3>1. CASE job' = job BY <3>1, <1>t
    <3>2. CASE hjob[h] # None /\ \E s \in {"dead", "pending", "done"} : job' = [job EXCEPT ![hjob[h]].state = s]
      BY <3>2, <1>t DEF Row
    <3> QED BY <2>2, <3>1, <3>2
  <2>6. NumbersTyped'
    <3>1. hjob' \in [Handlers -> Jobs \cup {None}] /\ hseen' \in [Handlers -> Int] BY <2>1, <1>t
    <3> QED BY <3>1, <2>1, <2>5, <1>u, <1>0 DEF NumbersTyped
  <2>7. PackagesOfEpoch' BY <2>1, <1>u, <1>0 DEF PackagesOfEpoch
  <2>8. JobsHeld' BY <2>3, <2>4, <2>5, <1>0, <1>t DEF JobsHeld
  <2>9. \A j \in Jobs : Stamped(j)
    <3> SUFFICES ASSUME NEW j \in Jobs PROVE Stamped(j) OBVIOUS
    <3>1. CASE job'[j] = job[j] BY <3>1 DEF Stamped, Present, NewOne
    <3>2. CASE hjob[h] = j /\ j # None BY <3>2, <2>5, <1>0 DEF Stamped, Present, JobsHeld
    <3> QED BY <2>5, <3>1, <3>2
  <2>10. \A j \in Jobs : NewOne(j)
    <3> SUFFICES ASSUME NEW j \in Jobs, ~Present(j) PROVE job'[j].state = "absent" BY DEF NewOne
    <3>1. ~(hjob[h] = j /\ j # None) BY <1>0 DEF JobsHeld, Present
    <3> QED BY <2>5, <3>1 DEF Present
  <2>11. \A g \in Handlers : Seen(g) BY <2>3, <2>4 DEF Seen
  <2> QED BY <2>6, <2>7, <2>8, <2>9, <2>10, <2>11 DEF Fits
<1>4. ASSUME NEW j \in Jobs, ClaimJob(h, j) PROVE Fits
  <2>1. /\ UNCHANGED <<hseen, packages>> /\ job[j].state = "pending"
        /\ job' = [job EXCEPT ![j].state = "processing"]
        /\ hpc' = [hpc EXCEPT ![h] = "guard"] /\ hjob' = [hjob EXCEPT ![h] = j] /\ hpc[h] = "idle"
    BY <1>4 DEF ClaimJob, Goto, state, locks
  <2>2. /\ job' \in [Jobs -> Row]
        /\ \A i \in Jobs : /\ job'[i].begun = job[i].begun /\ job'[i].gen = job[i].gen
                           /\ job'[i].window = job[i].window /\ (i # j => job'[i] = job[i])
        /\ job'[j].state = "processing"
    BY <2>1, <1>t DEF Row
  <2>3. hjob' \in [Handlers -> Jobs \cup {None}] /\ hjob'[h] = j /\ \A g \in Handlers : g # h => hjob'[g] = hjob[g]
    BY <2>1, <1>t
  <2>4. hseen'[h] = -1
    BY <2>1, <1>0 DEF JobsHeld
  <2>5. NumbersTyped' BY <2>1, <2>2, <2>3, <1>u, <1>0 DEF NumbersTyped
  <2>6. PackagesOfEpoch' BY <2>1, <1>u, <1>0 DEF PackagesOfEpoch
  <2>7. \A g \in Handlers : hjob[g] # j
    <3> SUFFICES ASSUME NEW g \in Handlers, hjob[g] = j PROVE FALSE OBVIOUS
    <3>1. hjob[g] # None BY ResetAssumption
    <3> QED BY <3>1, <2>1, <1>0 DEF JobsHeld
  <2>8. j # None BY ResetAssumption
  <2>9. JobsHeld'
    <3>1. \A g \in Handlers : (hpc'[g] = "guard" => hjob'[g] # None) /\ (hpc'[g] = "idle" => hseen'[g] = -1)
      BY <2>1, <2>3, <2>8, <1>0, <1>t DEF JobsHeld
    <3>2. \A g \in Handlers : hjob'[g] # None => job'[hjob'[g]].state = "processing"
      BY <2>2, <2>3, <2>7, <1>0, <1>t DEF JobsHeld
    <3>3. \A g, f \in Handlers : hjob'[g] # None /\ hjob'[f] = hjob'[g] => f = g
      BY <2>3, <2>7, <1>0 DEF JobsHeld
    <3> QED BY <3>1, <3>2, <3>3 DEF JobsHeld
  <2>10. \A i \in Jobs : Stamped(i) /\ NewOne(i)
    BY <2>1, <2>2 DEF Stamped, Present, NewOne
  <2>11. \A g \in Handlers : Seen(g) BY <2>1, <2>3, <2>4 DEF Seen
  <2> QED BY <2>5, <2>6, <2>9, <2>10, <2>11 DEF Fits
<1>5. ASSUME Work(h) PROVE Fits
  <2>1. UNCHANGED <<hpc, hjob, hseen>> /\ hpc[h] = "running" BY <1>5 DEF Work, handlerVars
  <2>2. data.whole BY <2>1, <1>0 DEF IInv, BarrierInv
  <2>3. ASSUME packages' = packages \cup {[epoch |-> epoch, gen |-> data.gen]}, UNCHANGED job PROVE Fits
    <3>1. NumbersTyped' BY <2>1, <2>3, <1>u, <1>0, <1>t DEF NumbersTyped
    <3>2. PackagesOfEpoch' BY <2>3, <1>u, <1>0, <1>t DEF PackagesOfEpoch
    <3>3. JobsHeld' BY <2>1, <2>3, <1>0 DEF JobsHeld
    <3>4. \A j \in Jobs : Stamped(j) /\ NewOne(j) BY <2>3 DEF Stamped, Present, NewOne
    <3>5. \A g \in Handlers : Seen(g) BY <2>1 DEF Seen
    <3> QED BY <3>1, <3>2, <3>3, <3>4, <3>5 DEF Fits
  <2>4. ASSUME NEW j \in Jobs, NewJob(j), packages' = packages PROVE Fits
    <3>1. /\ job[j].state = "absent"
          /\ job' = [job EXCEPT ![j] = JobRow("pending", begun, data.gen, flag /\ data.whole)]
      BY <2>4, <1>t DEF NewJob, JobRow
    <3>r. JobRow("pending", begun, data.gen, flag /\ data.whole) \in Row BY <1>t DEF JobRow, Row
    <3>2. /\ job' \in [Jobs -> Row] /\ \A i \in Jobs : i # j => job'[i] = job[i]
          /\ job'[j] = JobRow("pending", begun, data.gen, flag /\ data.whole)
      BY <3>1, <3>r, <1>t
    <3>3. NumbersTyped' BY <3>2, <2>1, <2>4, <1>u, <1>0 DEF NumbersTyped
    <3>4. PackagesOfEpoch' BY <2>4, <1>u, <1>0 DEF PackagesOfEpoch
    <3>5. \A g \in Handlers : hjob[g] # j
      <4> SUFFICES ASSUME NEW g \in Handlers, hjob[g] = j PROVE FALSE OBVIOUS
      <4>1. hjob[g] # None BY ResetAssumption
      <4> QED BY <4>1, <3>1, <1>0 DEF JobsHeld
    <3>6. JobsHeld' BY <3>2, <3>5, <2>1, <1>0, <1>t DEF JobsHeld
    <3>7. \A i \in Jobs : Stamped(i)
      BY <3>1, <3>2 DEF Stamped, Present, NewOne
    <3>8. \A g \in Handlers : Seen(g) BY <2>1 DEF Seen
    <3>9. \A i \in Jobs : NewOne(i) BY <2>2 DEF NewOne
    <3> QED BY <3>3, <3>4, <3>6, <3>7, <3>8, <3>9 DEF Fits
  <2> QED BY <2>3, <2>4, <1>5 DEF Work
<1>6. Fits BY <1>1, <1>2, <1>3, <1>4, <1>5 DEF HandlerMoves, HandlerStep
<1>7. GuardsSeen' /\ JobsOfDataset'
  <2>1. \A r \in Resets : rpc'[r] \in {"begun", "exclusive", "wipe"} =>
            /\ rpc[r] \in {"begun", "exclusive", "wipe"}
            /\ \A j \in Jobs : Present(j) \/ job'[j].state = "absent" \/ (flag /\ data.whole)
    BY <1>6, <1>u, <1>w DEF Fits, NewOne
  <2> QED BY <1>6, <1>u, <2>1, StampsKept DEF Fits
<1> QED BY <1>6, <1>7 DEF DatasetInv, Fits

(* Steps of a reset: only the beginning and the wipe touch what jobs are     *)
(* compared with, and only the end clears the flag.                          *)
LEMMA ResetDataset ==
    ASSUME DatasetInv, IInv', NEW r \in Resets,
           StartReset(r) \/ ResetStep(r) \/ BarrierTimeout(r) \/ CrashReset(r)
    PROVE  DatasetInv'
<1>0. NumbersTyped /\ PackagesOfEpoch /\ JobsHeld /\ GuardsSeen /\ JobsOfDataset /\ IInv BY DEF DatasetInv
<1>r. rpc \in [Resets -> RPC] BY <1>0 DEF IInv
<1>t. /\ begun \in Nat /\ epoch \in Nat /\ data.gen \in Int /\ data.whole \in BOOLEAN /\ job \in [Jobs -> Row]
      /\ hseen \in [Handlers -> Int] /\ flag \in BOOLEAN
  BY <1>0 DEF NumbersTyped
<1> DEFINE Early == {"begun", "exclusive", "wipe"}
<1>1. ASSUME \/ StartReset(r) \/ BeginRefused(r) \/ RequestExclusive(r) \/ GetExclusive(r) \/ FailReset(r)
             \/ MarkInterrupted(r) \/ Release(r) \/ BarrierTimeout(r) \/ CrashReset(r)
      PROVE  DatasetInv'
  <2>1. /\ UNCHANGED <<flag, begun, epoch, data, job, hpc, hjob, hseen, packages>>
        /\ \A q \in Resets : rpc'[q] \in Early => rpc[q] \in Early
    BY <1>1, <1>r DEF StartReset, BeginRefused, RequestExclusive, GetExclusive, FailReset, MarkInterrupted, Release,
       BarrierTimeout, CrashReset, LetGo, RGoto, state, locks, handlerVars
  <2>2. NumbersTyped' BY <2>1, <1>0 DEF NumbersTyped
  <2>3. PackagesOfEpoch' BY <2>1, <1>0 DEF PackagesOfEpoch
  <2>4. JobsHeld' BY <2>1, <1>0 DEF JobsHeld
  <2>5. GuardsSeen' BY <2>1, <1>0 DEF GuardsSeen, Present
  <2>6. JobsOfDataset' BY <2>1, <1>0 DEF JobsOfDataset, Present
  <2> QED BY <2>2, <2>3, <2>4, <2>5, <2>6 DEF DatasetInv
<1>2. ASSUME Begin(r) PROVE DatasetInv'
  <2>1. /\ UNCHANGED <<epoch, data, job, hpc, hjob, hseen, packages>> /\ flag' = TRUE /\ begun' = begun + 1
    BY <1>2 DEF Begin, locks, handlerVars
  <2>2. NumbersTyped' BY <2>1, <1>0, <1>t DEF NumbersTyped
  <2>3. PackagesOfEpoch' BY <2>1, <1>0 DEF PackagesOfEpoch
  <2>4. JobsHeld' BY <2>1, <1>0 DEF JobsHeld
  <2>5. GuardsSeen'
    <3>1. \A j \in Jobs : Present(j) => job[j].begun \in Int /\ job[j].begun <= begun BY <1>0, <1>t DEF GuardsSeen, Row
    <3>2. \A h \in Handlers : hseen[h] \in Int /\ hseen[h] <= begun BY <1>0, <1>t DEF GuardsSeen
    <3> QED BY <3>1, <3>2, <2>1, <1>t DEF GuardsSeen, Present
  <2>6. JobsOfDataset'
    <3>1. \A j \in Jobs : Present(j) => job[j].begun \in Int /\ job[j].begun <= begun BY <1>0, <1>t DEF GuardsSeen, Row
    <3> QED BY <3>1, <2>1, <1>t DEF JobsOfDataset, Present
  <2> QED BY <2>2, <2>3, <2>4, <2>5, <2>6 DEF DatasetInv
<1>3. ASSUME Wipe(r) PROVE DatasetInv'
  <2>1. /\ UNCHANGED <<flag, begun, epoch, hpc, hjob, hseen, packages>>
        /\ data' = [gen |-> data.gen + 1, whole |-> FALSE] /\ rpc[r] = "wipe"
        /\ job' = [j \in Jobs |-> IF job[j].state \in {"absent", "processing"} THEN job[j] ELSE NoJob]
        /\ rpc' = [rpc EXCEPT ![r] = "seed"]
    BY <1>3 DEF Wipe, state, locks, handlerVars, RGoto
  <2>2. flag BY <2>1, <1>0 DEF IInv, BarrierInv, Active
  <2>3. NoJob \in Row /\ NoJob.state = "absent" BY DEF NoJob, JobRow, Row
  <2>4. \A j \in Jobs : job'[j].state # "absent" => job'[j] = job[j] /\ Present(j) BY <2>1, <2>3 DEF Present
  <2>5. \A j \in Jobs : job[j].state = "processing" => job'[j] = job[j] BY <2>1
  <2>6. NumbersTyped'
    <3>1. job' \in [Jobs -> Row] BY <2>1, <2>3, <1>t
    <3>2. data' \in [gen : Int, whole : BOOLEAN] BY <2>1, <1>t
    <3> QED BY <3>1, <3>2, <2>1, <1>0 DEF NumbersTyped
  <2>7. PackagesOfEpoch' BY <2>1, <2>2, <1>0 DEF PackagesOfEpoch
  <2>8. \A h \in Handlers : hjob[h] # None => hjob[h] \in Jobs BY <1>0 DEF NumbersTyped
  <2>9. JobsHeld' BY <2>1, <2>5, <2>8, <1>0 DEF JobsHeld
  <2>10. GuardsSeen' BY <2>1, <2>4, <2>5, <2>8, <1>0 DEF GuardsSeen, Present, JobsHeld
  <2>11. JobsOfDataset'
    <3>1. \A j \in Jobs : Present(j)' /\ job'[j].begun = begun' => job'[j].window
      BY <2>1, <2>4, <1>0 DEF JobsOfDataset, Present
    <3> QED BY <3>1, <2>1 DEF JobsOfDataset
  <2> QED BY <2>6, <2>7, <2>9, <2>10, <2>11 DEF DatasetInv
<1>4. ASSUME Seed(r) PROVE DatasetInv'
  <2>1. /\ UNCHANGED <<flag, begun, epoch, hpc, hjob, hseen, packages>> /\ data'.gen = data.gen
        /\ data' = [data EXCEPT !.whole = TRUE] /\ rpc[r] = "seed"
        /\ rpc' = [rpc EXCEPT ![r] = "end"]
    BY <1>4, <1>0 DEF Seed, state, locks, handlerVars, RGoto, NumbersTyped
  <2>2. (\E j \in Jobs : NewJob(j)) \/ job' = job BY <1>4 DEF Seed
  <2>3. data' \in [gen : Int, whole : BOOLEAN] BY <2>1, <1>0 DEF NumbersTyped
  <2>4. /\ job' \in [Jobs -> Row] /\ \A j \in Jobs : Stamped(j)
        /\ \A j \in Jobs : Present(j) => job'[j] = job[j]
    <3>1. CASE job' = job BY <3>1, <1>t DEF Stamped, Present
    <3>2. ASSUME NEW j \in Jobs, NewJob(j)
          PROVE  /\ job' \in [Jobs -> Row] /\ \A i \in Jobs : Stamped(i)
                 /\ \A i \in Jobs : Present(i) => job'[i] = job[i]
      <4>1. JobRow("pending", begun, data.gen, flag /\ data.whole) \in Row BY <1>t DEF JobRow, Row
      <4>2. /\ job[j].state = "absent" /\ job' \in [Jobs -> Row] /\ \A i \in Jobs : i # j => job'[i] = job[i]
            /\ job'[j] = JobRow("pending", begun, data.gen, flag /\ data.whole)
        BY <3>2, <4>1, <1>t DEF NewJob
      <4> QED BY <4>2 DEF Stamped, Present
    <3> QED BY <2>2, <3>1, <3>2
  <2>5. NumbersTyped' BY <2>1, <2>3, <2>4, <1>0 DEF NumbersTyped
  <2>6. PackagesOfEpoch' BY <2>1, <1>0 DEF PackagesOfEpoch
  <2>7. \A h \in Handlers : hjob[h] # None => hjob[h] \in Jobs BY <1>0 DEF NumbersTyped
  <2>8. JobsHeld' BY <2>1, <2>4, <2>7, <1>0 DEF JobsHeld, Present
  <2>9. \A h \in Handlers : Seen(h) BY <2>1 DEF Seen
  <2>10. \A q \in Resets : rpc'[q] \notin Early
    <3>1. \A q \in Resets : q # r => rpc[q] = "idle"
      BY <2>1, <1>0, <1>r DEF IInv, BarrierInv
    <3> QED BY <3>1, <2>1, <1>r
  <2>11. GuardsSeen' /\ JobsOfDataset'
    BY <2>1, <2>4, <2>5, <2>8, <2>9, <2>10, StampsKept
  <2> QED BY <2>5, <2>6, <2>8, <2>11 DEF DatasetInv
<1>5. ASSUME End(r) PROVE DatasetInv'
  <2>1. /\ UNCHANGED <<begun, data, job, hpc, hjob, hseen, packages>> /\ flag' = FALSE /\ epoch' = epoch + 1
        /\ \A q \in Resets : rpc'[q] \in Early => rpc[q] \in Early
    BY <1>5, <1>r DEF End, locks, handlerVars, RGoto
  <2>2. NumbersTyped'
    <3>1. epoch' \in Nat BY <2>1, <1>t
    <3>2. flag' \in BOOLEAN BY <2>1
    <3> QED BY <3>1, <3>2, <2>1, <1>0 DEF NumbersTyped
  <2>3. PackagesOfEpoch'
    <3>1. \A p \in packages : p.epoch \in Int /\ p.epoch <= epoch BY <1>0 DEF NumbersTyped, PackagesOfEpoch
    <3> QED BY <3>1, <2>1, <1>t DEF PackagesOfEpoch
  <2>4. JobsHeld' BY <2>1, <1>0 DEF JobsHeld
  <2>5. GuardsSeen' BY <2>1, <1>0 DEF GuardsSeen, Present
  <2>6. JobsOfDataset' BY <2>1, <1>0 DEF JobsOfDataset, Present
  <2> QED BY <2>2, <2>3, <2>4, <2>5, <2>6 DEF DatasetInv
<1> QED BY <1>1, <1>2, <1>3, <1>4, <1>5 DEF ResetStep

LEMMA OthersDataset ==
    ASSUME DatasetInv, IInv', GoesStale \/ ForceReset \/ (\E j \in Jobs : JobReclaimed(j)) \/ UNCHANGED vars
    PROVE  DatasetInv'
<1>0. NumbersTyped /\ PackagesOfEpoch /\ JobsHeld /\ GuardsSeen /\ JobsOfDataset BY DEF DatasetInv
<1>1. UNCHANGED <<flag, begun, epoch, data, hpc, hjob, hseen, rpc, packages>>
  BY DEF GoesStale, ForceReset, JobReclaimed, vars, state, locks, handlerVars
<1>2. /\ job' \in [Jobs -> Row]
      /\ \A j \in Jobs : /\ job'[j].begun = job[j].begun /\ job'[j].gen = job[j].gen
                         /\ job'[j].window = job[j].window
                         /\ job'[j].state # "absent" => Present(j)
                         /\ (\E h \in Handlers : hjob[h] = j) => job'[j] = job[j]
  <2>0. job \in [Jobs -> Row] BY <1>0 DEF NumbersTyped
  <2>1. CASE UNCHANGED job BY <2>1, <2>0 DEF Present
  <2>2. ASSUME NEW i \in Jobs, JobReclaimed(i) PROVE <1>2!1 /\ <1>2!2
    <3>1. /\ job' = [job EXCEPT ![i].state = "pending"] /\ Present(i) /\ \A h \in Handlers : hjob[h] # i
      BY <2>2 DEF JobReclaimed, Present
    <3> QED BY <3>1, <2>0 DEF Row, Present
  <2> QED BY <2>1, <2>2 DEF GoesStale, ForceReset, vars, state
<1>3. NumbersTyped' BY <1>0, <1>1, <1>2 DEF NumbersTyped
<1>4. PackagesOfEpoch' BY <1>0, <1>1 DEF PackagesOfEpoch
<1>5. \A h \in Handlers : hjob[h] # None => hjob[h] \in Jobs BY <1>0 DEF NumbersTyped
<1>6. JobsHeld' BY <1>0, <1>1, <1>2, <1>5 DEF JobsHeld
<1>7. GuardsSeen' BY <1>0, <1>1, <1>2, <1>5 DEF GuardsSeen, Present
<1>8. JobsOfDataset' BY <1>0, <1>1, <1>2 DEF JobsOfDataset, Present
<1> QED BY <1>3, <1>4, <1>6, <1>7, <1>8 DEF DatasetInv

LEMMA StepDataset == DatasetInv /\ [Next]_vars => DatasetInv'
<1> SUFFICES ASSUME DatasetInv, [Next]_vars PROVE DatasetInv' OBVIOUS
<1>1. IInv' BY StepIInv DEF DatasetInv
<1> QED BY <1>1, HandlerDataset, ResetDataset, OthersDataset DEF Next, HandlerMoves

(* The windows the job guard leaves are the only ones: a job of an older     *)
(* dataset runs only if it was created while its reset was already waiting   *)
(* for the barrier, if the reset began after the guard had looked, or if the *)
(* guard failed (jobs/demo.ts 96).                                           *)
THEOREM StaleJobsOnlyThere == Spec => []StaleJobsOnlyInWindow
<1>1. DatasetInv => StaleJobsOnlyInWindow
  <2> SUFFICES ASSUME DatasetInv, NEW h \in Handlers, RunsStaleJob(h), ~(hseen[h] < begun)
               PROVE  job[hjob[h]].window
    BY DEF StaleJobsOnlyInWindow
  <2>1. hseen[h] = begun /\ hjob[h] \in Jobs /\ hjob[h] # None
    BY DEF DatasetInv, GuardsSeen, NumbersTyped, RunsStaleJob
  <2>2. Present(hjob[h]) /\ job[hjob[h]].begun = begun
    BY <2>1 DEF DatasetInv, GuardsSeen, JobsHeld, Present
  <2> QED BY <2>1, <2>2 DEF DatasetInv, JobsOfDataset, RunsStaleJob
<1> QED BY <1>1, DatasetInit, StepDataset, PTL DEF Spec

(* An offline package whose epoch is still current was cut from the current  *)
(* dataset, so its mutations may be applied, however resets fail, die or are *)
(* forced in between (demo/dataset.ts).                                      *)
THEOREM EpochsTell == Spec => []EpochTellsDataset
<1>1. DatasetInv => EpochTellsDataset BY DEF DatasetInv, PackagesOfEpoch, EpochTellsDataset
<1> QED BY <1>1, DatasetInit, StepDataset, PTL DEF Spec
=============================================================================
