------------------------------ MODULE DemoReset ------------------------------
(***************************************************************************)
(* The reset of the demo environment and its barrier:                      *)
(*   apps/api/src/demo/reset-service.ts   phases A (flag), B (wipe),       *)
(*                                        C (seed), D (end), interruption  *)
(*   apps/api/src/demo/reset-barrier.ts   shared and exclusive lock        *)
(*   apps/api/src/demo/barrier-hooks.ts   API requests under a shared lock *)
(*   apps/api/src/jobs/demo.ts            job guards                       *)
(*   apps/api/src/demo/dataset.ts         demo_dataset_state               *)
(* A handler is the execution of one business mutation: an API request, or *)
(* a job that works on the dataset it was created for.  Locks are advisory *)
(* locks of PostgreSQL and die with the process that holds them.  The      *)
(* cached gate in front of the barrier (reset-gate.ts, 1 s, fail-open) can *)
(* only refuse: both answers of it are possible at any time.               *)
(***************************************************************************)
EXTENDS Integers, FiniteSets

CONSTANTS
    Handlers, Jobs, Resets,   \* executions, jobs, runs of the reset
    None,
    MaxResets                 \* bound on how often a reset begins

ASSUME ResetAssumption ==
    /\ MaxResets \in Nat \ {0}
    /\ None \notin Handlers /\ None \notin Jobs /\ None \notin Resets

VARIABLES
    flag,       \* reset_in_progress
    started,    \* age of reset_started_at: none, fresh or stale (10 min)
    begun,      \* last_reset_started_at, as the number of resets begun
    epoch,      \* dataset_epoch
    data,       \* the business rows: generation, and whether all of it is there
    job,        \* the jobs, with begun and data.gen at their creation, and
                \* whether a reset was then waiting for the barrier
    shared, exclusive, waiting,   \* the barrier: holders, and waiting resets
    runLock,    \* DEMO_RESET_RUN_LOCK_KEY
    hpc, hjob,  \* each handler: where it is, the job it runs (None: a request)
    hseen,      \* value of begun its beforeRun guard compared with, -1 for none
    rpc,        \* each reset: where it is
    packages    \* offline packages handed out: epoch, generation

state == <<flag, started, begun, epoch>>
locks == <<shared, exclusive, waiting, runLock>>
handlerVars == <<hpc, hjob, hseen>>
vars == <<state, data, job, locks, handlerVars, rpc, packages>>

JobRow(s, b, g, w) == [state |-> s, begun |-> b, gen |-> g, window |-> w]
NoJob == JobRow("absent", 0, 0, FALSE)

Init ==
    /\ flag = FALSE /\ started = "none" /\ begun = 0 /\ epoch = 0
    /\ data = [gen |-> 0, whole |-> TRUE]
    /\ job = [j \in Jobs |-> NoJob]
    /\ shared = {} /\ exclusive = None /\ waiting = {} /\ runLock = None
    /\ hpc = [h \in Handlers |-> "idle"]
    /\ hjob = [h \in Handlers |-> None]
    /\ hseen = [h \in Handlers |-> -1]
    /\ rpc = [r \in Resets |-> "idle"]
    /\ packages = {}

-----------------------------------------------------------------------------
(* Handlers. *)

Goto(h, label) == hpc' = [hpc EXCEPT ![h] = label]

BecomeIdle(h) ==
    /\ Goto(h, "idle")
    /\ hjob' = [hjob EXCEPT ![h] = None]
    /\ hseen' = [hseen EXCEPT ![h] = -1]

(* the row of the job handler h runs, if it runs one *)
JobBecomes(h, s) ==
    job' = IF hjob[h] = None THEN job ELSE [job EXCEPT ![hjob[h]].state = s]

Request(h) ==
    /\ hpc[h] = "idle"
    /\ Goto(h, "acquire")
    /\ UNCHANGED <<state, data, job, locks, hjob, hseen, rpc, packages>>

ClaimJob(h, j) ==
    /\ hpc[h] = "idle" /\ job[j].state = "pending"
    /\ job' = [job EXCEPT ![j].state = "processing"]
    /\ Goto(h, "guard")
    /\ hjob' = [hjob EXCEPT ![h] = j]
    /\ UNCHANGED <<state, data, locks, hseen, rpc, packages>>

(* created_at < last_reset_started_at *)
StaleJob(j) == job[j].begun < begun

(* beforeRun: a job of an older dataset is ended without running *)
SkipStale(h) ==
    /\ hpc[h] = "guard" /\ StaleJob(hjob[h])
    /\ JobBecomes(h, "dead")
    /\ BecomeIdle(h)
    /\ UNCHANGED <<state, data, locks, rpc, packages>>

(* ... any other job goes on, and so does every job when the guard throws *)
PassGuard(h) ==
    /\ hpc[h] = "guard"
    /\ \/ ~StaleJob(hjob[h]) /\ hseen' = [hseen EXCEPT ![h] = begun]
       \/ UNCHANGED hseen
    /\ Goto(h, "acquire")
    /\ UNCHANGED <<state, data, job, locks, hjob, rpc, packages>>

(* mutant: the shared lock is granted past a waiting reset *)
SharedFreeNow == exclusive = None

(* pg_try_advisory_lock_shared: refused while a reset holds the exclusive    *)
(* lock or waits for it                                                      *)
SharedFree == exclusive = None /\ waiting = {}

TryShared(h) ==
    /\ hpc[h] = "acquire" /\ SharedFree
    /\ shared' = shared \cup {h}
    /\ Goto(h, "check")
    /\ UNCHANGED <<state, data, job, exclusive, waiting, runLock, hjob, hseen, rpc, packages>>

(* 503, or the job is deferred: the gate knows of a reset, the lock is not   *)
(* free, or no lock connection or flag can be had                            *)
Refuse(h) ==
    /\ hpc[h] \in {"guard", "acquire", "check"}
    /\ shared' = shared \ {h}
    /\ JobBecomes(h, "pending")
    /\ BecomeIdle(h)
    /\ UNCHANGED <<state, data, exclusive, waiting, runLock, rpc, packages>>

(* mutant: no second look at the flag under the lock *)
CheckFlagUnread(h) ==
    /\ hpc[h] = "check"
    /\ Goto(h, "running")
    /\ UNCHANGED <<state, data, job, locks, hjob, hseen, rpc, packages>>

(* isResetInProgressUncached, on the lock's connection *)
CheckFlag(h) ==
    /\ hpc[h] = "check" /\ ~flag
    /\ Goto(h, "running")
    /\ UNCHANGED <<state, data, job, locks, hjob, hseen, rpc, packages>>

NewJob(j) ==
    /\ job[j].state = "absent"
    /\ job' = [job EXCEPT ![j] = JobRow("pending", begun, data.gen, flag /\ data.whole)]

(* a running handler enqueues a job or hands out an offline package *)
Work(h) ==
    /\ hpc[h] = "running"
    /\ \/ (\E j \in Jobs : NewJob(j)) /\ UNCHANGED packages
       \/ packages' = packages \cup {[epoch |-> epoch, gen |-> data.gen]} /\ UNCHANGED job
    /\ UNCHANGED <<state, data, locks, handlerVars, rpc>>

(* the lock is released when the handler ends, never when the client leaves *)
Finish(h) ==
    /\ hpc[h] = "running"
    /\ \E s \in {"done", "pending"} : JobBecomes(h, s)
    /\ shared' = shared \ {h}
    /\ BecomeIdle(h)
    /\ UNCHANGED <<state, data, exclusive, waiting, runLock, rpc, packages>>

(* the process dies, and its locks with it; a claimed job stays 'processing' *)
CrashHandler(h) ==
    /\ hpc[h] # "idle"
    /\ shared' = shared \ {h}
    /\ BecomeIdle(h)
    /\ UNCHANGED <<state, data, job, exclusive, waiting, runLock, rpc, packages>>

JobReclaimed(j) ==
    /\ job[j].state = "processing" /\ \A h \in Handlers : hjob[h] # j
    /\ job' = [job EXCEPT ![j].state = "pending"]
    /\ UNCHANGED <<state, data, locks, handlerVars, rpc, packages>>

-----------------------------------------------------------------------------
(* The reset. *)

RGoto(r, label) == rpc' = [rpc EXCEPT ![r] = label]

(* reset: the run lock is never waited for *)
StartReset(r) ==
    /\ rpc[r] = "idle" /\ runLock = None
    /\ begun < MaxResets
    /\ runLock' = r
    /\ RGoto(r, "begin")
    /\ UNCHANGED <<state, data, job, shared, exclusive, waiting, handlerVars, packages>>

ResetRunning == flag /\ started = "fresh"

(* phase A: the flag is set and committed *)
Begin(r) ==
    /\ rpc[r] = "begin" /\ ~ResetRunning
    /\ flag' = TRUE /\ started' = "fresh" /\ begun' = begun + 1
    /\ RGoto(r, "begun")
    /\ UNCHANGED <<epoch, data, job, locks, handlerVars, packages>>

(* DEMO_RESET_RUNNING, or no seed actor: nothing was begun *)
BeginRefused(r) ==
    /\ rpc[r] = "begin"
    /\ RGoto(r, "release")
    /\ UNCHANGED <<state, data, job, locks, handlerVars, packages>>

RequestExclusive(r) ==
    /\ rpc[r] = "begun"
    /\ waiting' = waiting \cup {r}
    /\ RGoto(r, "exclusive")
    /\ UNCHANGED <<state, data, job, shared, exclusive, runLock, handlerVars, packages>>

(* mutant: the wipe does not wait for running handlers *)
GetExclusiveAtOnce(r) ==
    /\ rpc[r] = "exclusive" /\ exclusive = None
    /\ exclusive' = r /\ waiting' = waiting \ {r}
    /\ RGoto(r, "wipe")
    /\ UNCHANGED <<state, data, job, shared, runLock, handlerVars, packages>>

GetExclusive(r) ==
    /\ rpc[r] = "exclusive" /\ exclusive = None /\ shared = {}
    /\ exclusive' = r /\ waiting' = waiting \ {r}
    /\ RGoto(r, "wipe")
    /\ UNCHANGED <<state, data, job, shared, runLock, handlerVars, packages>>

(* DEMO_RESET_BARRIER_TIMEOUT after 120 s *)
BarrierTimeout(r) ==
    /\ rpc[r] = "exclusive"
    /\ waiting' = waiting \ {r}
    /\ RGoto(r, "interrupted")
    /\ UNCHANGED <<state, data, job, shared, exclusive, runLock, handlerVars, packages>>

(* phase B: one transaction; jobs being processed stay *)
Wipe(r) ==
    /\ rpc[r] = "wipe"
    /\ data' = [gen |-> data.gen + 1, whole |-> FALSE]
    /\ job' = [j \in Jobs |-> IF job[j].state \in {"absent", "processing"} THEN job[j]
                              ELSE NoJob]
    /\ RGoto(r, "seed")
    /\ UNCHANGED <<state, locks, handlerVars, packages>>

(* phase C *)
Seed(r) ==
    /\ rpc[r] = "seed"
    /\ data' = [data EXCEPT !.whole = TRUE]
    /\ \/ \E j \in Jobs : NewJob(j)
       \/ UNCHANGED job
    /\ RGoto(r, "end")
    /\ UNCHANGED <<state, locks, handlerVars, packages>>

(* phase D *)
End(r) ==
    /\ rpc[r] = "end"
    /\ flag' = FALSE /\ started' = "none" /\ epoch' = epoch + 1
    /\ RGoto(r, "release")
    /\ UNCHANGED <<begun, data, job, locks, handlerVars, packages>>

(* an error after phase A *)
FailReset(r) ==
    /\ rpc[r] \in {"begun", "wipe", "seed", "end"}
    /\ RGoto(r, "interrupted")
    /\ UNCHANGED <<state, data, job, locks, handlerVars, packages>>

(* the flag stays, the run counts as expired; this update may fail, too *)
MarkInterrupted(r) ==
    /\ rpc[r] = "interrupted"
    /\ started' \in {started, IF started = "none" THEN "none" ELSE "stale"}
    /\ RGoto(r, "release")
    /\ UNCHANGED <<flag, begun, epoch, data, job, locks, handlerVars, packages>>

LetGo(r) ==
    /\ exclusive' = IF exclusive = r THEN None ELSE exclusive
    /\ waiting' = waiting \ {r}
    /\ runLock' = IF runLock = r THEN None ELSE runLock
    /\ RGoto(r, "idle")
    /\ UNCHANGED <<state, data, job, shared, handlerVars, packages>>

Release(r) == rpc[r] = "release" /\ LetGo(r)

CrashReset(r) == rpc[r] \notin {"idle", "release"} /\ LetGo(r)

(* ten minutes pass since phase A *)
GoesStale ==
    /\ started = "fresh"
    /\ started' = "stale"
    /\ UNCHANGED <<flag, begun, epoch, data, job, locks, handlerVars, rpc, packages>>

(* demo:reset --force: releaseStaleReset, under the run lock *)
ForceReset ==
    /\ runLock = None /\ flag
    /\ started' = "stale"
    /\ UNCHANGED <<flag, begun, epoch, data, job, locks, handlerVars, rpc, packages>>

HandlerStep(h) ==
    \/ SkipStale(h) \/ PassGuard(h) \/ TryShared(h) \/ Refuse(h) \/ CheckFlag(h) \/ Finish(h)

ResetStep(r) ==
    \/ Begin(r) \/ BeginRefused(r) \/ RequestExclusive(r) \/ GetExclusive(r) \/ Wipe(r)
    \/ Seed(r) \/ End(r) \/ FailReset(r) \/ MarkInterrupted(r) \/ Release(r)

Next ==
    \/ \E h \in Handlers : \/ Request(h) \/ HandlerStep(h) \/ Work(h) \/ CrashHandler(h)
                           \/ \E j \in Jobs : ClaimJob(h, j)
    \/ \E j \in Jobs : JobReclaimed(j)
    \/ \E r \in Resets : StartReset(r) \/ ResetStep(r) \/ BarrierTimeout(r) \/ CrashReset(r)
    \/ GoesStale \/ ForceReset

Spec == Init /\ [][Next]_vars

(* Handlers end and resets go on; that the barrier's timeout fires is not    *)
(* assumed.                                                                  *)
FairSpec ==
    /\ Spec
    /\ \A h \in Handlers : WF_vars(HandlerStep(h))
    /\ \A r \in Resets : WF_vars(ResetStep(r))

-----------------------------------------------------------------------------
(* Rows, locks and processes are well formed; reset_started_at is set exactly *)
(* while the flag is.                                                        *)
TypeOK ==
    /\ flag \in BOOLEAN /\ started \in {"none", "fresh", "stale"}
    /\ flag <=> started # "none"
    /\ begun \in 0..MaxResets /\ epoch \in 0..begun
    /\ data \in [gen : 0..begun, whole : BOOLEAN]
    /\ job \in [Jobs -> [state : {"absent", "pending", "processing", "done", "dead"},
                         begun : 0..MaxResets, gen : 0..MaxResets, window : BOOLEAN]]
    /\ shared \subseteq Handlers /\ waiting \subseteq Resets
    /\ exclusive \in Resets \cup {None} /\ runLock \in Resets \cup {None}
    /\ hpc \in [Handlers -> {"idle", "guard", "acquire", "check", "running"}]
    /\ hjob \in [Handlers -> Jobs \cup {None}]
    /\ hseen \in [Handlers -> -1..MaxResets]
    /\ rpc \in [Resets -> {"idle", "begin", "begun", "exclusive", "wipe", "seed", "end",
                           "interrupted", "release"}]

(* The inductive invariant behind HandlersSeeWholeData and                   *)
(* DataStableForHandlers: the run lock admits one reset, the barrier keeps   *)
(* it apart from the handlers, and the flag covers what it left half-done.   *)
Active == {"begun", "exclusive", "wipe", "seed", "end", "interrupted"}
BarrierInv ==
    /\ \A h \in Handlers : hpc[h] \in {"check", "running"} => h \in shared
    /\ exclusive = None \/ shared = {}
    /\ \A r \in Resets : rpc[r] # "idle" => runLock = r
    /\ \A r \in Resets : rpc[r] \in {"wipe", "seed", "end"} => exclusive = r
    /\ \A r \in Resets : rpc[r] \in Active => flag
    /\ \A r \in Resets : rpc[r] = "end" => data.whole
    /\ ~flag => data.whole
    /\ \A h \in Handlers : hpc[h] = "running" => data.whole

(* No business mutation ever works on a wiped or half-seeded dataset: not    *)
(* next to a running reset, and not after one that failed or died half-way.  *)
HandlersSeeWholeData == \A h \in Handlers : hpc[h] = "running" => data.whole

(* A reset changes the rows only while no business mutation runs. *)
DataStableForHandlers ==
    [][data' # data => \A h \in Handlers : hpc[h] # "running"]_vars

(* The demo is opened again only on a whole dataset, whichever of several    *)
(* competing, failing and forced resets opens it.                            *)
OpenMeansWhole == ~flag => data.whole

(* An offline package whose epoch is still current was cut from the current  *)
(* dataset: its mutations may be applied.                                    *)
EpochTellsDataset ==
    \A p \in packages : ~flag /\ p.epoch = epoch => p.gen = data.gen

RunsStaleJob(h) ==
    hpc[h] = "running" /\ hjob[h] # None /\ job[hjob[h]].gen # data.gen

(* The windows the job guard leaves: a job of an older dataset runs only if  *)
(* it was created while its reset was already waiting for the barrier, if    *)
(* the reset began after the guard had looked, or if the guard failed.       *)
StaleJobsOnlyInWindow ==
    \A h \in Handlers :
        RunsStaleJob(h) => hseen[h] < begun \/ job[hjob[h]].window

(* New mutations never starve a waiting reset. *)
ExclusiveNotStarved ==
    \A r \in Resets : rpc[r] = "exclusive" ~> rpc[r] # "exclusive"
=============================================================================
