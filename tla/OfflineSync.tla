----------------------------- MODULE OfflineSync -----------------------------
(***************************************************************************)
(* A handover captured without a network: the mutations of one booking in  *)
(* the queue of the device (IndexedDB, shared by all tabs of the browser), *)
(* the sync engine of every tab, requests that are delayed, answered late, *)
(* aborted or lost, and the one API process that reserves a receipt before *)
(* the mutation and writes its outcome after it.  A colleague works on the *)
(* same handover online.                                                   *)
(*                                                                         *)
(* The clock is left out: a row in backoff ("failed_retryable") gets "due",*)
(* and a receipt that is "processing" turns "stale" (older than            *)
(* PROCESSING_STALE_MS), in a step of its own.                             *)
(***************************************************************************)
EXTENDS Integers, Sequences, FiniteSets, FiniteSetsExt

CONSTANTS Tab, Name, Nil,
          First,          \* who is entered as recipient, and has signed, at first
          Plan,           \* bound: the sequences of captures that are tried
          MaxTrouble      \* bound: aborts, server errors, crashes, closed tabs,
                          \* refusals, steps of the colleague, second reviews

ASSUME OfflineAssumption ==
    /\ \A p \in Plan : p \in Seq({"recipient", "signature", "photo", "finalize"})
    /\ First \in Name /\ Nil \notin {"applied", "conflict", "rejected", "busy"}
    /\ Nil \notin Tab /\ MaxTrouble \in Nat

VARIABLES
    queue,        \* the mutation rows of the device, index = seq
    tab,          \* the engine of each tab: its snapshot and the row it sends
    net,          \* requests on the way to the server
    answer,       \* what has come back for the request a tab waits for
    serving,      \* the request that holds the mutex of the booking
    receipt,      \* offline_mutation_receipts
    handover,         \* the handover on the server
    trouble       \* how much of MaxTrouble is used up

offlineVars == <<queue, tab, net, answer, serving, receipt, handover, trouble>>

Ids == UNION {DOMAIN p : p \in Plan}
Captured == 1 .. Len(queue)
Rest == [todo |-> {}, open |-> {}, cur |-> 0]
OpenDesk(nm, sg) == [name |-> nm, sig |-> sg, photos |-> {}, final |-> "open"]

OfflineInit ==
    /\ queue = << >>
    /\ tab = [t \in Tab |-> Rest]
    /\ net = {} /\ serving = Nil
    /\ answer = [t \in Tab |-> Nil]
    /\ receipt = [i \in Ids |-> "none"]
    /\ handover = OpenDesk(First, [name |-> First, shown |-> First, by |-> 0])
    /\ trouble = 0

Trouble == trouble < MaxTrouble /\ trouble' = trouble + 1
-----------------------------------------------------------------------------
(* The local projection: captures under review no longer count.             *)
Applicable(kind) ==
    {i \in Captured : queue[i].kind = kind
                      /\ queue[i].st \notin {"conflict", "failed_permanent", "discarded"}}
LastOf(S) == IF S = {} THEN 0 ELSE Max(S)
ShownName == LET r == LastOf(Applicable("recipient")) IN
             IF r # 0 THEN queue[r].name ELSE IF queue = << >> THEN handover.name ELSE queue[1].base.name
ShownSigned == LET r == LastOf(Applicable("recipient"))
                   s == LastOf(Applicable("signature")) IN
               s > r \/ (r = 0 /\ IF queue = << >> THEN handover.sig # Nil
                                   ELSE queue[1].base.sig # Nil)
PendingFinalize == Applicable("finalize") # {}

(* The rows of the booking that a finalisation has to wait for.             *)
OpenIds == {i \in Captured : queue[i].st \notin {"synced", "cleaned", "discarded"}}

(* enqueueBooking; the first row remembers the package it is based on.      *)
Enqueue(kind, nm, deps) ==
    /\ \E p \in Plan : /\ Len(queue) < Len(p) /\ p[Len(queue) + 1] = kind
                       /\ \A i \in Captured : p[i] = queue[i].kind
    /\ queue = << >> => handover.final = "open"
    /\ queue' = Append(queue, [kind |-> kind, name |-> nm, st |-> "pending", deps |-> deps,
                               base |-> IF queue # << >> THEN queue[1].base
                                        ELSE [name |-> handover.name, sig |-> handover.sig]])
    /\ UNCHANGED <<tab, net, answer, serving, receipt, handover, trouble>>

(* The write routes while offline.  A photo is even accepted after the     *)
(* finalisation; only the finalisation depends on other rows.              *)
CaptureRecipient(nm) == ~PendingFinalize /\ nm # ShownName /\ Enqueue("recipient", nm, {})
CaptureSignature == ~PendingFinalize /\ Enqueue("signature", ShownName, {})
CapturePhoto == Enqueue("photo", ShownName, {})
CaptureFinalize == ~PendingFinalize /\ ShownSigned /\ Enqueue("finalize", ShownName, OpenIds)

(* retryMutation and discardMutation, which the user is offered on /sync.  *)
Review(i) ==
    /\ queue[i].st = "conflict" /\ Trouble
    /\ queue' = [queue EXCEPT ![i].st = "pending"]
    /\ UNCHANGED <<tab, net, answer, serving, receipt, handover>>
Discard(i) ==
    /\ queue[i].st \in {"conflict", "failed_permanent"}
    /\ queue' = [queue EXCEPT ![i].st = "discarded"]
    /\ UNCHANGED <<tab, net, answer, serving, receipt, handover, trouble>>
CleanupSynced(i) ==
    /\ queue[i].st = "synced"
    /\ queue' = [queue EXCEPT ![i].st = "cleaned"]
    /\ UNCHANGED <<tab, net, answer, serving, receipt, handover, trouble>>
-----------------------------------------------------------------------------
(* runOnce: one snapshot of all rows; what another run left in "syncing"   *)
(* is pending again, even when that run is another tab's and goes on.      *)
\* mutant: a row in "syncing" is believed to be on its way
ResetKept(q) == q
ResetSyncing(q) == [i \in DOMAIN q |-> IF q[i].st = "syncing" THEN [q[i] EXCEPT !.st = "pending"]
                                       ELSE q[i]]
StartRun(t) ==
    LET q == ResetSyncing(queue) IN
    /\ tab[t] = Rest
    /\ \E i \in Captured : q[i].st \in {"pending", "due"}
    /\ queue' = q
    /\ tab' = [tab EXCEPT ![t] =
          [cur |-> 0, open |-> OpenIds,
           todo |-> {i \in Captured : q[i].st \in {"pending", "due"}}]]
    /\ UNCHANGED <<net, answer, serving, receipt, handover, trouble>>

DependenciesSatisfied(t, i) == queue[i].deps \cap tab[t].open = {}

(* The next row in the order of seq.                                        *)
Passable(t, i) == \/ ~DependenciesSatisfied(t, i)
                  \/ queue[i].st \in {"cleaned", "discarded"}
Send(t, i) ==
    /\ tab[t].cur = 0 /\ i \in tab[t].todo
    /\ \A j \in tab[t].todo : j < i => Passable(t, j)
    /\ DependenciesSatisfied(t, i)
    /\ queue[i].st \notin {"cleaned", "discarded"}
    /\ queue' = [queue EXCEPT ![i].st = "syncing"]
    /\ tab' = [tab EXCEPT ![t].cur = i, ![t].todo = {j \in @ : j > i}]
    /\ net' = net \cup {[id |-> i, tab |-> t, nr |-> trouble]}
    /\ UNCHANGED <<answer, serving, receipt, handover, trouble>>
EndRun(t) ==
    /\ tab[t].cur = 0 /\ tab[t].todo # {}
    /\ \A j \in tab[t].todo : Passable(t, j)
    /\ tab' = [tab EXCEPT ![t] = Rest]
    /\ UNCHANGED <<queue, net, answer, serving, receipt, handover, trouble>>
After(t, open) == tab' = [tab EXCEPT ![t] = IF tab[t].todo = {} THEN Rest
                                            ELSE [tab[t] EXCEPT !.cur = 0, !.open = open]]

(* The answer is written to the row unless the row is gone by now.          *)
Written(i, st) == IF queue[i].st \in {"cleaned", "discarded"} THEN queue
                  ELSE [queue EXCEPT ![i].st = st]
RowStatus == [applied |-> "synced", conflict |-> "conflict", rejected |-> "failed_permanent"]
TakeAnswer(t) ==
    LET i == tab[t].cur IN
    /\ answer[t] \in DOMAIN RowStatus
    /\ queue' = Written(i, RowStatus[answer[t]])
    /\ After(t, IF answer[t] = "applied" THEN tab[t].open \ {i} ELSE tab[t].open)
    /\ answer' = [answer EXCEPT ![t] = Nil]
    /\ UNCHANGED <<net, serving, receipt, handover, trouble>>
(* HTTP 5xx: the run goes on with the rows that were captured later.        *)
TakeError(t) ==
    /\ answer[t] = "busy"
    /\ queue' = Written(tab[t].cur, "failed_retryable")
    /\ After(t, tab[t].open)
    /\ answer' = [answer EXCEPT ![t] = Nil]
    /\ UNCHANGED <<net, serving, receipt, handover, trouble>>
Orphaned(t) == {IF m.tab = t THEN [m EXCEPT !.tab = Nil] ELSE m : m \in net}
Forget(t) == /\ serving' = IF serving # Nil /\ serving.tab = t
                           THEN [serving EXCEPT !.tab = Nil] ELSE serving
             /\ answer' = [answer EXCEPT ![t] = Nil]
(* The device gives up after 90 s: NETWORK_ERROR ends the run, the request *)
(* is lost or arrives later.                                               *)
Abort(t) ==
    /\ tab[t].cur # 0 /\ Trouble
    /\ queue' = Written(tab[t].cur, "failed_retryable")
    /\ tab' = [tab EXCEPT ![t] = Rest]
    /\ net' \in {Orphaned(t), {m \in net : m.tab # t}}
    /\ Forget(t)
    /\ UNCHANGED <<receipt, handover>>
CloseTab(t) ==
    /\ tab[t] # Rest /\ Trouble
    /\ tab' = [tab EXCEPT ![t] = Rest]
    /\ net' = Orphaned(t)
    /\ Forget(t)
    /\ UNCHANGED <<queue, receipt, handover>>
-----------------------------------------------------------------------------
Reply(t, what) == answer' = IF t = Nil THEN answer ELSE [answer EXCEPT ![t] = what]

(* recover: is the effect of the reserved mutation there?                   *)
\* mutant: the reservation is taken for the effect
RecoveredByReceipt(i) == receipt[i] = "stale"
Recovered(i) ==
    CASE queue[i].kind = "photo" -> i \in handover.photos
      [] queue[i].kind = "signature" -> handover.sig # Nil /\ handover.sig.by = i
      [] queue[i].kind = "finalize" -> handover.final = "device"
      [] OTHER -> handover.name = queue[i].name

(* process, under the mutex of the booking: the receipt decides.            *)
Settled(i) == receipt[i] = "applied"
Answered(m) ==
    /\ serving = Nil /\ m \in net
    /\ \/ Settled(m.id) /\ Reply(m.tab, "applied") /\ UNCHANGED receipt
       \/ receipt[m.id] = "processing" /\ Reply(m.tab, "busy") /\ UNCHANGED receipt
       \/ /\ receipt[m.id] = "stale" /\ Recovered(m.id)
          /\ receipt' = [receipt EXCEPT ![m.id] = "applied"]
          /\ Reply(m.tab, "applied")
    /\ net' = net \ {m}
    /\ UNCHANGED <<queue, tab, serving, handover, trouble>>
Reserve(m) ==
    /\ serving = Nil /\ m \in net
    /\ ~Settled(m.id) /\ receipt[m.id] # "processing"
    /\ receipt[m.id] = "stale" => ~Recovered(m.id)
    /\ receipt' = [receipt EXCEPT ![m.id] = "processing"]
    /\ serving' = [id |-> m.id, tab |-> m.tab, at |-> "begun", draft |-> Nil, outcome |-> Nil]
    /\ net' = net \ {m}
    /\ UNCHANGED <<queue, tab, answer, handover, trouble>>

Outcome(what, d) == serving' = [serving EXCEPT !.outcome = what] /\ handover' = d
GoesOn(at, draft) == serving' = [serving EXCEPT !.at = at, !.draft = draft] /\ UNCHANGED handover
At(at) == serving # Nil /\ serving.outcome = Nil /\ serving.at = at
Finalises == queue[serving.id].kind = "finalize"
AlreadyFinalized == handover.final # "open"
(* what the fingerprint of a finalisation tells apart                       *)
Draft == [name |-> handover.name, sig |-> handover.sig]

(* bookingMutation reads the handover without a lock: if it is finalised,  *)
(* or does not allow the finalisation, that is a conflict.                 *)
Look ==
    /\ At("begun")
    /\ IF AlreadyFinalized \/ (Finalises /\ handover.sig = Nil) THEN Outcome("conflict", handover)
       ELSE GoesOn("looked", Nil)
    /\ UNCHANGED <<queue, tab, net, answer, receipt, trouble>>
(* finalizeExclusive reads it again and renders what it has read; to it a  *)
(* handover that is finalised by now is a success.                         *)
Render ==
    /\ At("looked") /\ Finalises
    /\ \/ AlreadyFinalized /\ Outcome("applied", handover)
       \/ ~AlreadyFinalized /\ handover.sig = Nil /\ Outcome("conflict", handover)
       \/ ~AlreadyFinalized /\ handover.sig # Nil /\ GoesOn("rendered", Draft)
    /\ UNCHANGED <<queue, tab, net, answer, receipt, trouble>>
(* The write, under the lock of the handover: a new recipient deletes the  *)
(* customer's signature, a signature stands under the name the row has     *)
(* now; what is finalised must be what was rendered - or be finalised.     *)
Execute ==
    LET i == serving.id  q == queue[i] IN
    /\ At(IF Finalises THEN "rendered" ELSE "looked")
    /\ \/ AlreadyFinalized /\ Outcome(IF Finalises THEN "applied" ELSE "conflict", handover)
       \/ /\ ~AlreadyFinalized
          /\ CASE q.kind = "recipient" -> Outcome("applied", [handover EXCEPT !.name = q.name, !.sig = Nil])
               [] q.kind = "photo" -> Outcome("applied", [handover EXCEPT !.photos = @ \cup {i}])
               [] q.kind = "signature" ->
                    IF handover.sig # Nil /\ handover.sig.by = i THEN Outcome("applied", handover)
                    ELSE Outcome("applied", [handover EXCEPT !.sig = [name |-> handover.name,
                                                                  shown |-> q.name, by |-> i]])
               [] OTHER -> IF Draft # serving.draft THEN Outcome("conflict", handover)
                           ELSE Outcome("applied", [handover EXCEPT !.final = "device"])
    /\ UNCHANGED <<queue, tab, net, answer, receipt, trouble>>
Refuse ==
    /\ serving # Nil /\ serving.outcome = Nil /\ Trouble
    /\ Outcome("rejected", handover)
    /\ UNCHANGED <<queue, tab, net, answer, receipt>>
Finish ==
    /\ serving # Nil /\ serving.outcome # Nil
    /\ receipt' = [receipt EXCEPT ![serving.id] = serving.outcome]
    /\ Reply(serving.tab, serving.outcome)
    /\ serving' = Nil
    /\ UNCHANGED <<queue, tab, net, handover, trouble>>

(* A gateway answers 5xx for the server; or the process dies.               *)
Unavailable(m) ==
    /\ m \in net /\ m.tab # Nil /\ Trouble
    /\ net' = net \ {m} /\ Reply(m.tab, "busy")
    /\ UNCHANGED <<queue, tab, serving, receipt, handover>>
Crash ==
    /\ serving # Nil /\ Trouble
    /\ serving' = Nil /\ Reply(serving.tab, "busy")
    /\ UNCHANGED <<queue, tab, net, receipt, handover>>
GoStale(i) ==
    /\ receipt[i] = "processing"
    /\ receipt' = [receipt EXCEPT ![i] = "stale"]
    /\ UNCHANGED <<queue, tab, net, answer, serving, handover, trouble>>
BackoffOver(i) ==
    /\ i \in Captured /\ queue[i].st = "failed_retryable"
    /\ queue' = [queue EXCEPT ![i].st = "due"]
    /\ UNCHANGED <<tab, net, answer, serving, receipt, handover, trouble>>
BackoffEnds == \E i \in Ids : BackoffOver(i)
(* The colleague names a recipient, lets them sign, or finalises; "meanwhile"*)
(* is history: between the look and the write of a finalisation.           *)
Meanwhile == (At("looked") \/ At("rendered")) /\ Finalises
Colleague ==
    /\ handover.final = "open" /\ Trouble
    /\ \/ \E nm \in Name : handover' = [handover EXCEPT !.name = nm, !.sig = Nil]
       \/ handover' = [handover EXCEPT !.sig = [name |-> handover.name, shown |-> handover.name,
                                               by |-> -trouble']]
       \/ /\ handover.sig # Nil
          /\ handover' = [handover EXCEPT !.final = IF Meanwhile THEN "meanwhile" ELSE "colleague"]
    /\ UNCHANGED <<queue, tab, net, answer, serving, receipt>>

DeviceStep(t) == \/ StartRun(t) \/ (\E i \in Ids : Send(t, i)) \/ EndRun(t)
                 \/ TakeAnswer(t) \/ TakeError(t)
ServerStep == \/ \E m \in net : Answered(m) \/ Reserve(m)
              \/ Look \/ Render \/ Execute \/ Finish
OfflineNext ==
    \/ (\E nm \in Name : CaptureRecipient(nm))
    \/ CaptureSignature \/ CapturePhoto \/ CaptureFinalize
    \/ \E i \in Captured : Review(i) \/ Discard(i) \/ CleanupSynced(i)
    \/ \E t \in Tab : DeviceStep(t) \/ Abort(t) \/ CloseTab(t)
    \/ ServerStep \/ Refuse \/ Crash \/ Colleague
    \/ \E m \in net : Unavailable(m)
    \/ (\E i \in Ids : GoStale(i)) \/ BackoffEnds

(* The runtime starts a run again and again while the device is online;    *)
(* MaxTrouble stays below the eight attempts after which it no longer does.*)
OfflineFairness == /\ \A t \in Tab : WF_offlineVars(DeviceStep(t))
                   /\ WF_offlineVars(ServerStep)
                   /\ \A i \in Ids : WF_offlineVars(GoStale(i))
                   /\ WF_offlineVars(BackoffEnds)
OfflineSpec == OfflineInit /\ [][OfflineNext]_offlineVars /\ OfflineFairness
-----------------------------------------------------------------------------
(* What the device was told is applied is never executed again, however    *)
(* late a repeated or a second tab's request arrives.                      *)
SyncedIsInert == serving # Nil => queue[serving.id].st \notin {"synced", "cleaned"}

(* Every acknowledged capture has a receipt and, where it inserts          *)
(* something, its effect: nothing the employee stops seeing as open is     *)
(* lost between reservation, crash and recovery.  A finalisation that is   *)
(* acknowledged is the device's own, unless a colleague finalised after it *)
(* had looked and before it wrote: then the handover is the colleague's.   *)
AcknowledgedIsThere ==
    \A i \in Captured : queue[i].st \in {"synced", "cleaned"} =>
        /\ receipt[i] = "applied"
        /\ queue[i].kind = "photo" => i \in handover.photos
        /\ queue[i].kind = "finalize" => handover.final \in {"device", "meanwhile"}

(* When a finalisation is acknowledged, everything captured before it is    *)
(* applied too, except what the employee discarded.                        *)
FinalisedWithAll ==
    \A i \in Captured : queue[i].kind = "finalize" /\ receipt[i] = "applied" =>
        \A j \in 1 .. i - 1 : receipt[j] = "applied" \/ queue[j].st = "discarded"

(* Under fairness every capture is delivered, ends in the user's review,  *)
(* or waits behind one that is under review: no row stays "syncing" after  *)
(* its tab was closed, or behind a reservation nobody finishes.            *)
UnderReview == {"conflict", "failed_permanent"}
Settles(i) == \/ queue[i].st \in {"synced", "cleaned", "discarded"} \cup UnderReview
              \/ \E d \in queue[i].deps : queue[d].st \in UnderReview
EveryCaptureSettles == []<>(\A i \in Captured : Settles(i))

(* What the device was told is stored is stored, once, and a handover is    *)
(* finalised with all of it.                                                *)
OfflineSafety == AcknowledgedIsThere /\ FinalisedWithAll /\ SyncedIsInert
=============================================================================
