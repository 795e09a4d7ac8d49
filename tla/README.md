# A formal model of Miet-Royal 2

This directory holds TLA+ specifications of the Miet-Royal rental system, the TLC instances that
model-check them and theorems about them that TLAPS has checked. Paths like
`settlement/settlement-service.ts` are relative to `apps/api/src/` unless they begin with `packages/`
or `apps/`.

1. [The system](#1-the-system)
2. [What is modelled where](#2-what-is-modelled-where)
3. [The runs: what TLC shows, within which bounds](#3-the-runs-what-tlc-shows-within-which-bounds)
4. [Fairness](#4-fairness)
5. [The proofs](#5-the-proofs)
6. [Disagreements between code and its documentation](#6-disagreements-between-code-and-its-documentation)
7. [What is not modelled, and the plan](#7-what-is-not-modelled-and-the-plan)
8. [Running it](#8-running-it)

## 1. The system

Miet-Royal rents out slush machines. A customer asks for an offer, accepts it by a link, picks the
machines up or has them delivered, brings them back, and gets an invoice from Lexware. Everything runs
on one PostgreSQL database: API processes (Fastify), one or more workers with a job runner each, and two
front ends (the public site with the customer portal, and the staff PWA, which works offline). What the
parts share is the database; what they tell each other goes through rows, jobs and listeners called
after a commit. Hence nearly all that is hard in this code is of one kind: **statements and
transactions of several processes in an order nobody wrote down, with a crash between any two of them,
and outside services whose answer may never come.**

### 1.1 Inventory

Each row names the part, the state it keeps, the operations that change it, what makes it hard, and what
has to hold. "✔" is modelled, "◐" partly (a part of its operations or an aspect of them), "–" not (section 7).

| Part | State | Operations | Hard because of | Correct if |
|---|---|---|---|---|
| ✔ Job queue, runner `packages/integrations/src/jobs` | `integration_jobs`: status, attempts, lease; per runner its copy of the claim | enqueue, claim, acknowledge, fail, defer, dead, reclaim | late workers, crashes, deferrals that give attempts back | the handler runs at least once and at most `max_attempts` times; only the holder of the latest claim writes; every job ends |
| ✔ Mail outbox, `mail.send` `communication/mail` | `mail_deliveries`, its jobs | enqueue, resend, business retry, one attempt, backstop | SMTP answers that never come, attempts that outlive leases, repeated clicks | handed over once; the verdict is true; every mail gets one; the business part is told |
| ✔ Scan chains `communication/chain-bucket.ts`, `scan-due.ts`, inbound poll | one job per time bucket | boot, run, watchdog | clocks that differ, failing runs, restarts | the chain never ends and never multiplies |
| ✔ Demo reset and barrier `demo/` | `demo_dataset_state`, advisory locks, the dataset | reset phases A–D, shared and exclusive lock, job guards | resets that die or compete, requests under way, jobs of the old data | no business mutation on half a dataset, nothing old on the new one |
| ◐ Offers, vouchers, bookings `commerce/offer-service.ts`, `voucher/` | offer versions, links, voucher row, redemptions | apply, remove, version, send, decline, recheck, accept, cancel (step 7a), redeem | READ COMMITTED, reads without locks, clocks read before a lock was waited for | a voucher is used once; a live offer never fails for its voucher |
| ◐ Accounting transfer `accounting/transfer-service.ts` | `accounting_transfers`, invoice mapping, invoices at Lexware | execute in three phases | timeouts after the POST, crashes, claims that expire, relinked customers | one invoice |
| ◐ Settlement of a return `settlement/` | charges, notice, the 24 hours, responses, the auto job | decide, approve and tell, respond, change, release, transfer by click or job | mutations while a mail or a transfer is under way, jobs lost after a commit | the customer is told before being charged by the job, and charged what was told |
| ◐ Machines, assignment, cancellation `handover/assignment-service.ts`, `warehouse/machine-service.ts`, `cancellation/` | machine status and block, slot, booking | assign, exchange, release, hand over, take back, clean, repair, cancel, override | checks before a lock, two desks, status changes by hand | a machine is with one customer at a time; nothing stays reserved for nobody; the last customer pays |
| ◐ Handover `handover/handover-service.ts` | lines, recipient, signatures, protocol | prepare, change, sign, finalise in three phases | the document is rendered between two transactions; two devices | a stored protocol and its signatures say what the rows say |
| ◐ Return, damages, cleaning `returns/` | sections, photos, missing parts, damages, documents | draft, check, finalise, add late facts | late damages, photos and documents between two phases | what is stored is what was confirmed and signed |
| ◐ Stock ledger `warehouse/inventory-service.ts` | stock, movements, counts | receive, issue, return, deactivate, count, correct, approve | movements between count and approval, two unlocked reads at the count | an approval changes the stock by the difference counted |
| ◐ Offline sync, server `offline/` | receipts, the booking's rows | reserve, execute, answer, recover | a crash between effect and receipt, a colleague between a look and a lock, repeated and overtaken requests | each mutation acts once |
| ◐ Offline leases, keys, packages `offline/lease-service.ts`, `packages/offline`, `apps/staff/lib/offline` | leases at the server; keys, secrets, dataset, queue, clock of a device | log in, unlock, lock, renew, expire, revoke, rekey, ingest a package | crashes between two writes to IndexedDB, locks while a call is under way | captures are never wiped unseen, no data after expiry, no old package taken for a new one |
| ◐ Lexware invoices `lexware/invoice-sync.ts`, jobs | events, mapping, payment status | webhook, event job, reconcile | events out of order, a crash between two transactions | what changed at Lexware is read again |
| ◐ Lexware contacts and connection `lexware/` | links, pinned organisation, subscriptions | find, create, link, check, reset, reconcile | creations without an answer, two checks at once | one contact per customer; the organisation is never exchanged unseen |
| ◐ Tours and planning `tours/` | tours, stops, substitutions, positions, news | plan, start, take over, stop, finish, cancel | two starts for one effective driver, plans computed on old stops | the plan is the route of the stops; one active tour per driver; an ended tour is quiet |
| ◐ Appointments `scheduling/`, `reminders/` | appointments with version and status, letters | create, move, confirm, cancel, tell | letters queued while the date moves on | every time that counts is told, and an old time named in a letter was told |
| ◐ Portal login `portal/auth` | magic links, sessions, address, era | request, consume, change e-mail, anonymise | a change of address racing a link | old access ends; one open link at a time |
| ◐ Staff login and administration `auth/` | staff, roles, challenges, sessions | log in with second factor, lock out, reset, roles, status | two logins on one challenge, two administrators removing each other | one session per login; an administrator is left |
| ◐ Push and conversations `communication/` | rules, devices, marks; letters, messages, photos, files, jobs | notify, supersede, send; poll, assign, answer, delete after closing | repeated deliveries, crashes, reopened processes | a reminder marked as told reaches somebody; each letter once, each file while it is needed |
| ◐ Request budgets `integrations/rate-limiter.ts`, `reviews/budget.ts` | next slot, pause | reserve, pause | refused calls move the pointer, two clocks | at most the limit in any 24 hours |
| ◐ Staff pages and routes `apps/staff/app`, routes, `packages/permissions` | a page and its copy of a process | open, act, reload, be refused | rights, processes changed by others, pages that reload a part | what is offered is served; a refusal is seen; the next step is there |
| – Prices, calendar feed, routing, public pages, seeds, configuration | none, or caches | pure computation, reads, calls | – | agree with a reference definition |

### 1.2 How the parts meet

* **Jobs.** Every part that must do something later enqueues a job in the queue, with an idempotency key. What
  it may rely on is `JobContract`: at least one run, at most `max_attempts`, runs that may overlap when one
  outlives its lease. `MailOutbox`, `ScanChain`, `DemoReset`, `Settlement`, `InvoiceSync`, `PushNotice` and
  `ChatInbox` use jobs by this contract, not by the queue's rows.
* **After a commit.** Mails are stored in the transaction of the business change, their job is enqueued after it
  (and may be lost: the scan finds the mail). The auto job of a settlement is enqueued after the commit as well
  (and may be lost: nothing scans for it).
* **Listeners.** A sent mail tells its business part (`noticeMailSent` starts the 24 hours of a
  settlement); a finalised return, a late damage or a customer's answer reach the settlement the same way; an
  appointment or a stop that changes reaches the push rules and the delay news.
* **Versions.** Staff services refuse a write whose `version` is not the row's (HTTP 409). Where the check and
  the write are one statement or one locked transaction, they are one step of the model; where a handler
  reads, does something slow and writes later, its copy is a record in `visit[w]` and every other request may come in between.
* **The barrier.** In the demo every API mutation and every job handler runs under a shared lock of the
  reset barrier.
* **Lexware.** The settlement prepares a transfer and lets `AccountingTransferService` execute it. `Settlement`
  EXTENDS `InvoiceTransfer`: same state, with the settlement's rules in front of every start.

## 2. What is modelled where

| Module | Models | Instance | Proofs in |
|---|---|---|---|
| `JobContract` | what the queue promises its callers (abstract) | – | – |
| `JobQueue` | `packages/integrations/src/jobs/postgres-queue.ts`, `runner.ts` | `MCJobQueue` | `JobQueueProofs` |
| `MailOutbox` | `communication/mail/outbox.ts`, `send-job.ts`, the backstop of `scan-due.ts` | `MCBackground` | `BackgroundProofs` |
| `ScanChain` | `communication/chain-bucket.ts`, `scan-due.ts`, `inbound/poll-job.ts`, boot of `apps/worker` | `MCBackground` | `BackgroundProofs` |
| `DemoReset` | `demo/reset-service.ts`, `reset-barrier.ts`, `barrier-hooks.ts`, `dataset.ts`, `jobs/demo.ts` | itself | `DemoResetProofs` |
| `OfferVoucher` | `voucher/voucher-service.ts`, `commerce/offer-service.ts`, step 7a of `cancellation/` | `MCOfferVoucher` | `OfferVoucherProofs` |
| `InvoiceTransfer` | `accounting/transfer-service.ts`, what `lexware/client.ts` can answer | `MCSettlement` | `SettlementProofs` |
| `Settlement` | `settlement/settlement-service.ts`, `settlement/jobs.ts` on top of `InvoiceTransfer` | `MCSettlement` | `SettlementProofs` |
| `MachineFleet` | `handover/assignment-service.ts`, machine status of handover, return and cleaning, `warehouse/machine-service.ts`, cancellation | `MCMachineFleet` | `BookingProofs` |
| `OfflineSync` | `offline/sync-service.ts`, the queue of `packages/offline`, the tabs that deliver it | `MCOfflineSync` | `BookingProofs` |
| `Actors` | the people at work, and the program points `visit` of their requests | – | – |
| `HandoverDesk` | `handover/handover-service.ts` | `MCField` | `FieldProofs` |
| `ReturnDesk` | `returns/return-service.ts`, `damage-service.ts` | `MCField` | `FieldProofs` |
| `StockLedger` | `warehouse/inventory-service.ts`, stocktake | `MCField` | `FieldProofs` |
| `TourDay` | `tours/`, delay risk, positions | `MCField` | `FieldProofs` |
| `AppointmentBook` | `scheduling/`, `reminders/service.ts` | `MCField` | `FieldProofs` |
| `OfflineDevice` | `offline/lease-service.ts`, `apps/staff/lib/offline/runtime.ts`, router, vault | `MCField` | `FieldProofs` |
| `InvoiceSync` | `lexware/invoice-sync.ts`, its job and webhook | `MCOffice` | `OfficeProofs` |
| `ContactSync` | finding, creating, linking a customer's contact at Lexware | `MCOffice` | `OfficeProofs` |
| `LexwareLink` | checking, pinning and resetting the organisation, `subscription-service.ts` | `MCOffice` | `OfficeProofs` |
| `RequestBudget` | `integrations/rate-limiter.ts`, `reviews/budget.ts` | `MCOffice` | `OfficeProofs` |
| `PortalAccess` | `portal/auth`: links, sessions, change of the address | `MCOffice` | `OfficeProofs` |
| `StaffAccess` | `auth/`: login, second factor, sessions, administration | `MCOffice` | `OfficeProofs` |
| `PushNotice` | push rules, enqueueing, superseding, sending, subscriptions | `MCOffice` | `OfficeProofs` |
| `ChatInbox` | inbound mail and WhatsApp, assigning, answering, retention | `MCOffice` | `BackgroundProofs` |
| `StaffGateway` | the staff routes: right asked for, operation called, offline mutation; the role catalogue | (with `StaffScreens`) | – |
| `CaseFile` | a process as pages see it, and what changes it | (with `StaffScreens`) | – |
| `ScreensProcess`, `ScreensDaily` | which controls the pages of `apps/staff/app` offer in which state | (with `StaffScreens`) | – |
| `StaffScreens` | a person at a page: open, act, be refused, see others' changes | `MCStaff.cfg` | – |

`PROJECT.json` maps the functions and pages of the source to the definition that stands for them; a helper or a single step whose lines lie within those of a mapped definition is not listed a second time. The definitions just above some actions whose comment
begins with "mutant" are plausible wrong versions of them; for each property one of them is known to violate it.
The larger properties are conjunctions of named parts (`HandoverSafety`, `StaffSafety`, ...), each part with its own comment.

### 2.1 JobQueue

One atomic step per SQL statement of `PostgresJobQueue`; every `await` of `JobRunner.runOnce` is a
program point of the runner (`pc`) at which the other runners, the clock and a crash come in. `claim` is the runner's
**copy** of the job, as in the code: `markFailed` decides about `dead` from the copy, and
only the `WHERE locked_by = ...` guard protects the row. Time is two facts a statement can test, `due` and
`expired`. `starts` and `completed` are history. `ImplementsContract` maps rows to `JobContract`'s `state`.

### 2.2 MailOutbox

A row of `mail_deliveries` and the jobs named after it, `<<delivery, attempt>>`, since the key of
a retry carries the attempt. A worker walks through one attempt: claim the row (`sending`), prepare,
hand over, record the outcome, plan the next job, run the listeners, finish the job; it may crash or lose the
database between any two. `accepted` counts what the SMTP server really took over, which
the code cannot see. `OutlivesLease` and `OutlivesStale` say whether an attempt may take longer than the
job's lease (5 min) and than `MAIL_SENDING_STALE_MS` (15 min). The first is assumed possible, the second is not: the updates that record
an outcome have no guard on the row's status, so an attempt that outlasts the 15 minutes would overwrite the `outcome_unknown` that
`closeStaleSending` has recorded. The timeouts of the SMTP gateway keep an attempt far below.
`NeverHandedOverTwice` and `VerdictsAreTrue` are proved without this assumption, `TwiceOnlyIfUnclear` and `UnknownStands` with it.

### 2.3 ScanChain

A bucket is an index of time; a job is due by the clock of the database while the handler computes the next
bucket with the clock of its worker, which may be wrong by `Skew`. A run first enqueues its
follow-up, then works, and may fail or die after either. The watchdog is `EnqueueCurrent`.

### 2.4 DemoReset

The reset row, the dataset as a generation and whether all of it is there, the shared and exclusive advisory lock, the
run lock, handlers (a request or a job) and resets with their phases. A handler of a job
passes two guards (`beforeRun` compares creation times, then the execution guard takes the shared lock and looks at the
flag), with everything possible in between. The in-process gate with its one-second cache can only refuse earlier, and
both its answers are possible at any time. A lock dies with its process; that its connection alone is lost is not modelled.

### 2.5 OfferVoucher

One voucher and several offers of its customer. `apply`, `send` and `accept` are calls with steps: they wait for row locks
with the `now` and the link they came with, and `reservationStillHeld` reads twice without a lock
(`ReadCurrent`, `ReadVersion`), so a commit may come in between. The other operations hold their locks from their first
read on and are one step. `booking` remembers the version that was booked and the version whose link was used.

### 2.6 InvoiceTransfer

`executeTwoPhase`: the claim of the row (phase 1), contact, search, POST and GET without any lock (phase 2), the result
(phase 3). Lexware's side is in the state (`invoices`): a POST may arrive and its answer be lost, be unreadable, or come
after the claim expired. An invoice has the total that was expected or another one (`fits`), which only its answer or a later look at it tells.
`hazards` records the four things the protocol does not cope with - *overtaken* (an
execution still at work when its claim was taken over), *relinked* (the customer linked to another contact while an
invoice may exist that is not recorded), *garbled* (a 2xx answer that breaks off or cannot be read, or a gateway timeout: the
transfer becomes `failed` although the invoice exists), *overlooked* (the search after a lost answer passes over an invoice of
ours because its total is another: `transfer-service.ts` 853–855, 883). `OneInvoice` holds as long as
none of them happened; each of the four breaks it alone. Assumed of Lexware: any other error status means
nothing was created, and a request given up before it arrived never arrives.

### 2.7 Settlement

The settlement row (`amount`: the charges the customer must be told of; an open clarification; the wait; who released it), its
notice mail, its auto job, and the executions of `InvoiceTransfer`. Every mutation is one transaction that refuses a settlement with a
prepared transfer, recomputes the derived facts and leaves the auto job as `afterCommit` would, or without it if
the process dies. A decision that is taken back is `Discover` followed by `Charge`. Left out: sending a failed notice mail again
after a second approval, cancelled processes, facts that were inserted but not yet collected by a rebuild, deposits, advances, versions and
manual lines beyond the sum of the charges, and the process status after the transfer.

### 2.8 MachineFleet

Machines (status, block, the booking that has them), the slots of bookings, and desks whose assignment reads availability first and
writes under locks later. `ChargedToLastHolder` relates a damage to who had the machine. The run does not look for deadlocks because a fleet
in which everything is cancelled or blocked may stop. Overlapping of the rental periods is a relation between bookings (`Overlap`).

### 2.9 OfflineSync

The queue of one device with its captures, its tabs, the requests under way, and one API process (`docs/TECH_DECISIONS.md:105` says there is only one).
A mutation of a booking is three steps at the server: the look without a lock (`Look`, `sync-service.ts` 767–768), for a finalisation the reading and rendering of the document
(`Render`), and the write under the lock (`Execute`); `"meanwhile"` in `handover.final` marks a finalisation of a colleague between the look and the write of the device's.
A request may be aborted, answered late, answered by a server that dies between the effect and the receipt, or be repeated by the other tab; a colleague may work
online on the same booking. `Plan` is the list of captures of a shift. `OfflineSafety` says that what is acknowledged is there and that a finalised document
has all that was captured before it, and that what is acknowledged is never executed again; `EveryCaptureSettles` that each capture ends as applied, in conflict, or discarded.

### 2.10 The desk and the road: HandoverDesk, ReturnDesk, StockLedger, TourDay, AppointmentBook, OfflineDevice

All use `Actors`: `visit[w]` is what the request of `w` has read and is about to write, `edits` bounds how many changes are begun.

* *HandoverDesk*: preparation of the delivery note, its lines, recipient and signature, and finalising, which reads the rows, renders the
  document and its photos without a lock, and registers it in a second transaction that compares a fingerprint of what was read. A drawing is known by the edit in which it was
  drawn: no two drawings are the same byte for byte. (The code compares the SHA-256 of drawing and recipient only, `handover-service.ts` 1690–1711; were the same
  drawing signed again after the recipient changed from A to B and back to A, it would be taken for the one in the document.)
* *ReturnDesk*: sections of a return and their photos, missing parts, late damages, signature, and the phases of finalising.
* *StockLedger*: one stock per article; movements between the count and its approval are added to the difference. A count is created in two steps, the snapshot of the stock (`ReadStocktake`, `inventory-service.ts` 304–319) and
  the look for open counts (`CreateStocktake`, 331–334); two creations of one article wait for each other, an approval waits for neither. `crossed` names the articles whose stock an approval changed between the two (section 6).
* *TourDay*: tours, stops, start, taking over, substitution, end and cancelling, and the news about delays. Travel times are the answer of a service that may be late. A route is a set of legs, each with its stop and its time; the order of the stops is
  that of their positions (`StopState` of the code tries its conditions one after the other, and so does the model).
  `away` names the tours taken over by somebody for whom another drives (section 6).
* *AppointmentBook*: appointments of a process with version and status, and the letters that name them.
* *OfflineDevice*: one tab of one device: login, keys and their wrapped copies, the lease at the server and its copy, the dataset with its stamp, the queue of captures and the clock of the last contact. Calls are answered when made and taken
  later; a crash comes between any two writes. The clock of the device is right, or off by any of the amounts of `Skew` (TLC: all the time there is, behind or ahead). Two tabs of a device are `OfflineSync`'s.
  A grant is taken in up to four steps: the look for pending work (`TakeGrant`, `runtime.ts` 642), the record and its key (`FindKey`), the wipe of a workspace that gets a new key (`EmptyWorkspace`, `workspace.ts` 355) and the storing of key, wraps and lease
  (`StoreGrant`, 357). A capture is made in three: what it is made from (`Capture`, `router.ts` 551 and 699), its stamp and its key (`SealCapture`, `runtime.ts` 1312), its storing (`KeepCapture`). `fate` is history: what was made, given up by the user, swept away,
  read from one dataset and stamped with another (`mixed`), and which secrets were refused as expired (`spent`).

### 2.11 The office: InvoiceSync, ContactSync, LexwareLink, RequestBudget, PortalAccess, StaffAccess, PushNotice, ChatInbox

* *InvoiceSync*: events with their deduplication, the job with its runs, both transactions of the sync, the reconciliation with its cursor, and Lexware's own state of the invoice.
* *ContactSync*: contacts at Lexware, the claim of a creation, answers that are lost. Assumed: a request ends within `CONTACT_CREATE_CLAIM_MS`. `excused` records what can give a customer
  a second contact: two things the code accepts on purpose (the customer was renamed before there was a contact, staff asked for a new one) and two it does not guard against (section 6, "linked" and "blind").
  TLC finds two contacts as soon as one of the four is left out.
* *LexwareLink*: two checks, a reset and a confirmation of the organisation, and the reconciliation of the subscriptions.
* *RequestBudget*: the shared pointer to the next slot, the pause after a refusal by the provider, and a clock.
* *PortalAccess*: links, sessions and the address of two customers; `era` counts the changes of the address. The row lock of a customer is `plock`, since `magic-link-service` holds it over several statements.
* *StaffAccess*: users, their roles, status and second factor, one challenge, sessions and the reset link. Hashing is a password that fits or does not.
* *PushNotice*: an appointment that changes, its reminder and its risk, what is enqueued, superseded, sent and marked. One scan and one send job at a time.
* *ChatInbox*: a process that is open or closed at a moment, a mailbox with its position (and its rebuilding), letters, webhook events with pictures to fetch, answers with their statuses, photos and files, the terminal job and its backstop. All WhatsApp messages
  carry pictures; one run of a job per message at a time; the mailbox is polled only when something is new. A status of an answer is read (`StatusRead`, `webhook-service.ts` 599–608) and written by the id alone (`StatusWritten`, 624–627);
  `crossed` marks the statuses of one answer that were on their way at the same time.

### 2.12 The pages: StaffGateway, CaseFile, ScreensProcess, ScreensDaily, StaffScreens

`StaffGateway` lists, for each operation of a staff page, the right its route asks for, and `ScreensProcess` and `ScreensDaily` list for each page which control is there under which
condition; `CaseFile` is the process with its guards. `StaffScreens` lets a person without some right open a page, click, be answered, and others change the process meanwhile.
A person lacks at most one of the rights of a page. A discount is four operations, by the right its size asks for (`setDiscount` up to 10 per cent, above, and above 20, `removeDiscount`). What the pages leave to the server on purpose or by mistake is listed by scene
(`AskedLater`, `ServerDecides`; section 6). The gates of training are not part of an answer.

## 3. The runs: what TLC shows, within which bounds

| Run | Instance | Distinct states | Shows |
|---|---|---|---|
| `queue` | 2 workers, 2 jobs: `j1` two attempts and a handler, `j2` one attempt and none | 46,411 | late acknowledgements fenced, runs bounded, contract implemented, every job ends |
| `mail` | 2 situations: 1 mail with 2 workers, and a mail with its repetition and 1 worker; 2 attempts, 1 run per job, attempts outlive leases | 322,954 | handed over once, true verdicts, a repeated mail reaches the customer twice only if the first was unclear |
| `background` | the chain (2 workers with skew −1 and +1, interval 2, 2 runs per job, time 3 to 6) and 1 mail with 1 worker, 2 runs per job, attempts within the lease | 70,990 | the chain is never cut and goes on; every mail settles, and its listeners run |
| `demo_reset` | 2 handlers, 1 job, 2 resets, at most 2 begun | 123,452 | whole and stable data for every handler, no starvation |
| `offer_voucher` | 2 offers, 2 calls (symmetric), voucher 3 ticks, offers 2, 2 versions, time to 3 | 870,958 | used once, live offers covered |
| `settlement` | 2 executions, 2 contacts (symmetric), 2 attempts, charges to 2, at most one of the four hazards | 2,954,376 | one invoice, prepared means clear, told before charged |
| `fleet` | 2 machines, 2 slots of 2 overlapping bookings, 2 desks (symmetric); 3 turns of status, 1 damage, 1 status by hand | 807,219 | one holder, no reservation for nobody, cancelled holds nothing, the last holder pays |
| `offline` | 2 tabs, 2 names, one of three plans of 2 or 3 captures, one trouble | 225,571 | what is acknowledged is there; each capture ends |
| `field` | 2 people at work on one of: the desk (5 changes), a return (7), the stock (4 or 5), tours (3 or 4), appointments (4), a device (1 or 2) | 1,626,528 | see section 2.10 |
| `office` | 2 requests or jobs on one of: invoice (5), contact (5), link (4), budget (5), portal (2), staff (2), push (0 or 2), chat (1 or 2; 2 statuses per answer) | 1,293,138 | see section 2.11 |
| `staff` | each page, each person lacking at most one right, each state of the process | 991,357 | offered is served, a refusal is seen, the announced step is there |
| `transfer_failed_created` | as `settlement` | violated | section 6 |

Why the bounds are enough for what they are to show:

* **Two of each actor.** All the races listed under "hazards" in `PROJECT.json` are between two actors: the worker that is late
  and the one that took over, the call that waits and the one that commits, the reset that died and the one that
  follows. The theorems of section 5 hold for any number.
* **Two attempts** are the least with which a retry, its exhaustion and a last attempt that dies are all there. `j2` adds
  the job whose first attempt is its last, and the job no handler knows (deferred).
* **background** begins at a time that is no multiple of the interval and ends two intervals later, so that a run sees the
  bucket before its own, its own and the next one under either skew. There the clock stops
  (`Horizon`), which is why that run does not look for deadlocks. `ScansGoOn` speaks of moments early enough for a later bucket to begin.
* **demo_reset**: two begun resets are what it takes for one to be overtaken by another, forced or after an interruption.
* **offer_voucher**: an offer lives shorter than the voucher, two versions and one cancellation followed by another acceptance
  fit into the horizon.
* **settlement**: `OneHazard` keeps at most one excuse per behaviour; since each property is conditioned on none or one of them,
  behaviours with several say nothing more about it. Charges 0, 1 and 2 distinguish "nothing to tell", "as told" and "more than told".
* **fleet**: two machines let a desk exchange one for the other while the other desk takes it; overlapping bookings are the only ones that compete.
* **field** and **office** play one service at a time: `stage` chooses it, the others rest in one state. The services share no rows, so their product would show no more than each of them.
  Each stage has its own allowance of changes (`Allowance`), chosen so that a request can be overtaken by a whole other one and a repetition of it: a document is
  rendered, changed, signed and rendered again; two counts straddle a movement, and an approval the creation of the second; a tour is taken over while another of the same driver starts; a link is sent, the address changed, and the old link used.
  The device is begun with few changes, since each takes many steps: a refusal after a setting-up that was broken off (the exception of `ExpiredStaysShut`) needs more of them and is within reach of the proof only.
  Where a stage is large it begins in chosen situations (`...OnStage`), each reachable in the program: an appointment with a letter under way, a device at its page, a process just closed.
  `MaxHeard` is the number of statuses the provider reports of one answer: two are what it takes for one to overwrite the other.
  `LinkMax`, `MaxStep`, `JobTries`, `MaxNotices` and the like are the limits of the code at their least interesting value.
* **offline**: a trouble is an abort, a late or lost answer, a closed tab, or a death of the server; one of them at every point is what the
  protocol is made for. The three plans have a signature before the finalisation, a recipient and a photo before it, and a photo after it.
* Operations with no bound in the code (versions of an offer, resets, attempts of a transfer, ticks, changes) are bounded by a constant named as such.
* The runs without a search for deadlocks are those whose bounded clock, budget of changes or finished business lets the system stop.

`SentIsAnnounced` is checked for attempts that do not outlive the lease of their job. If one does, a second run of the job finds nothing to do and
ends it successfully, and if the first worker then dies between recording `sent` and its listeners, nobody tells them: the job that would repeat them is over.

## 4. Fairness

Liveness is claimed only in the runs named below, and only from what the code schedules itself.

* **JobQueue** (`EverySubmittedJobEnds`). Weak: time makes a job due and a lease expire; a stopped runner is started again (the
  deployment restarts the worker); a runner that is up goes on. Strong: `reclaimExpired` runs in every poll before a claim; some
  worker claims a given due job again and again if it stays due again and again, since claims are ordered by `run_at`;
  and a claimed job gets to its handler in some of its attempts - a worker that dies before the
  handler in every single attempt of a job would be a worker that cannot run at all.
* **MailOutbox** (`EveryMailSettles`, `SentIsAnnounced`). The clock, the scan chain that repeats the backstop (`ScanChain` shows that it goes on), jobs that are
  taken in order, a worker that goes on, and workers that do not die before the first statement of every run of a delivery. That the API plans a job after its
  commit (`ScheduleSend`) is **not** assumed.
* **ScanChain** (`ScansGoOn`). Time passes, the timer of the watchdog fires, due jobs are taken, a worker that is up goes on.
* **DemoReset** (`ExclusiveNotStarved`). Handlers end and resets go on. That new requests stop, or that the barrier's timeout fires, is not assumed:
  the queue of PostgreSQL's advisory locks, which makes `tryAcquireShared` fail while an exclusive request waits, is what the property rests on.
* **OfflineSync** (`EveryCaptureSettles`). Weak fairness of a tab that can send or take an answer, of the server that works on a request, of the
  time after which a capture in flight counts as stale, and of the end of a back-off.

No fairness is given to crashes, timeouts, clicks, or answers of outside services.

## 5. The proofs

TLAPS has checked every step of the modules named `...Proofs`. The theorems hold for every value of the
constants that satisfies the assumptions (`ASSUME`) of the modules: sets of workers, executions, offers are arbitrary (finite only where a cardinality is
counted), counts are natural numbers, "nobody" is not a member. The general line is the same everywhere: an inductive invariant that says how
the *copies* and *program points* of the processes agree with the rows; one lemma per action that it is kept; then the property. TLC has checked each inductive invariant
on the instance of its run before it was proved.

| Module | Inductive invariant | Why the property alone is not inductive |
|---|---|---|
| `JobQueueProofs` | `IndInv`: `QueueInv` (rows, runners and claims agree; a guard that lets a runner write proves that its copy is the latest), `RunsCounted` (calls of a handler + runners that still may call it ≤ attempts used), `RunningStarted` | "at most `max_attempts` runs" says nothing of a late runner that still holds a claim: it must be counted before it runs. `RunsCounted` is about the cardinality of the set of such runners, hence the finiteness assumption |
| `BackgroundProofs` (chain) | types and `ChainInv`: a worker past its first statement has left a successor, and its bucket exists | `ChainUnbroken` looks at finished buckets only; that arithmetic on buckets makes the follow-up later under any skew is the lemma `FollowUpIsLater`. `AheadInv` (a bucket no clock has reached yet waits, pending, for its beginning by the database's clock) carries `ChainNotAhead`: without it a bucket of the future could be taken and leave another |
| `BackgroundProofs` (mail) | `MailInv`: types; a worker between claim and outcome is the only one in its attempt (`SoleAttempt`), what it knows is what the row says (`Claimed`, `Handed`), the hand-overs are accounted for (`Accounted`). `QuickInv` adds what holds if no attempt outlasts the 15 minutes | that a mail is handed over once rests on the attempt number in the row, which a late worker has only as a copy. `RepetitionAssumption` (a repetition has its own row, `outbox.ts` 133–141) is used for `TwiceOnlyIfUnclear` |
| `DemoResetProofs` | `BarrierInv`: who holds the run lock, the barrier and which phase; the flag covers what a reset left half-done | "no handler on half a dataset" needs that a wiping reset holds the barrier, and that after its death the flag stays. `DatasetInv` adds that only the end of a reset clears the flag and raises the epoch, that a job is held by one handler, and when the rows and copies of the epochs were stamped; `StaleJobsOnlyThere` and `EpochsTell` rest on it |
| `OfferVoucherProofs` | `IInv`: types, the properties, what each call has read and locked (`CallOK`: in particular that an answer "not held" which has become wrong cannot hit a *live* offer), `LinkOfSent` | `LiveOfferCovered` is decided from two unlocked reads; the call must carry what they still mean when it commits |
| `SettlementProofs` (transfer) | `TransferTypeOK`, `Real` (what executions and row know exists), `OwnerActs` (only the owner of the claim is at work, unless it was overtaken), `Safe` (an execution may create only if nothing exists that is not recorded; otherwise it has the duty to search), each as long as no hazard occurred | the number of invoices does not tell whether an execution on its way will create another |
| `SettlementProofs` (settlement) | `SInv`: that of the transfer, the types, `Consistent` (charges that are not marked as changed are those of the mail), `NothingPrepared`, `PreparedIsClear`, `AutoCharge` | "told before charged" is established when the transfer is prepared and must survive until it is recorded: charges are frozen from then on |
| `BackgroundProofs` (conversation) | `ChatInv`: types; what a request or job run has read and still goes by (`Knows`: the part of the mailbox a poll has noted, the picture a job is about to register, the photos a deletion still has before it, an answer not handed over yet); what the rows say of each other (`RowsFit`); for each file and each answer handed over either its row or the one who will write it (`FilesFit`, `SentFits`); a status that came alone leaves no other that counts unseen (`Alone`), and what has found its answer and is written is in the row (`Says`); no two of them at the same step of the same message (`VisitsApart`) | each promise is about rows, and is broken by somebody who acts on what it read before: a deletion that has chosen its photos before a reopening, a poll that moves the mark of a mailbox rebuilt meanwhile, a picture that arrives after the closing, a status read before another was written |
| `BookingProofs` (machines) | `FleetInv`: types, a slot's machine is its booking's, machines of one booking differ, who holds which lock, and for each desk `Seen`: what it checked is still so, as far as its locks keep it | a desk checks before it locks; `SeenStays` is the lemma that a step of another desk cannot undo what the locks protect |
| `BookingProofs` (offline) | `OfflineInv`: types; only what was captured is sent or served; what a tab waits for is on its way, being served or answered, one of the three (`OneAtATime`); a receipt is its effect, and only a request that has no final receipt is served (`EffectsAreThere`); a finalisation that has looked is of a handover that was open then, or that a colleague has finalised since (`LookedOpen`); a finalisation waits for all before it: by its dependencies, by what the run of a tab knows as open, and once it is sent by what is done (`FinalisationWaits`) | an acknowledged row says nothing of a request of it that is still on its way from another tab, nor a row not yet sent of what the run has read of the queue before |
| `FieldProofs` (desk, return) | `DeskInv`, `ReturnInv`: types; the document a request has rendered says what the rows said, as long as the fingerprint is the same; two drawings are not the same | the property speaks of stored documents only; the rendered one is stored later |
| `FieldProofs` (stock) | `StockInv`: a count that is being created or open knows the stock at its snapshot, and for each article no approval crossed the stock is that plus what moved since; two open counts share no article | that an approval keeps the movements is an action property over the two; it rests on the snapshot, taken before the count was open |
| `FieldProofs` (appointments) | `BookInv`: rows, letters and visits name only versions and times that existed; a time that counts is told or a letter of its version is on its way | a letter is written by a request that read the row before; `GoesOn` says what every change does to the copies of the others |
| `FieldProofs` (tours) | `TourInv`: types (two stops of a tour name two appointments); who holds a tour and the lock of a driver knows what it will commit (`HolderKnows`), and two holders are apart (`HoldersApart`), `away` left aside; the plan of a tour fits what is still to be driven unless there is news (`PlanFits`), and whoever plans knows what to plan as long as the version it has read is that of the tour (`PlannerKnows`) | the property speaks of tours without open news: a route calculated without a lock must still fit when it is stored; and "one active tour per driver" is decided when a start begins and must hold until it commits |
| `FieldProofs` (device) | `DeviceInv`: types; the key in memory and the keys of the captures are the one on the disk, and work pending keeps both (`KeyFits`, `NothingLost`); the mark is that of the dataset at hand, and the fetch under way knows what was marked (`MarkFits`, `FetchFits`, `StampFits`); a capture that is sealed or stored has the stamp of what it was made from, or is known to be mixed (`Marked`); a grant being taken knows what was pending, and its time is known to the tab (`GrantsFit`); each grant has a secret of its own until it is stored (`SecretsFit`); how far a lease can be past what disk and tab keep of the clock (`ClockFits`, `LeaseFits`); what was refused as expired is past what the disk has noted (`SpentFits`) | the property speaks of an open workspace only: that a refused lease stays shut rests on the time noted before, which must survive reloads and a clock set back, and on answers that are still under way; that a new key loses nothing rests on a look three steps earlier |
| `OfficeProofs` (staff) | `StaffInv`: types; a request past the password belongs to a login that exists; the request that found it open has closed it, is the only one, and has not made its session yet | the sessions of a login are counted when they are made, by a request that looked at the login before |
| `OfficeProofs` (portal) | `PortalInv`: types; whoever opens a login link holds the customer's lock, the link is used, it is of the address of today, and no other login link of the customer is open | "no session outlives the address" is violated by the request that creates one; what it found before must still hold then |
| `OfficeProofs` (budget) | `BudgetInv`: each granted request has a slot of its own, one interval after the one before, at most the tolerance after the request, and the pointer is past them all (`Slots`); and, for any set of those who moved the pointer and have not paused yet, how far it is ahead of the clock or of the end of the pause if exactly these pause first (`PointerKnown`) | the property counts requests in a window and does not say how far apart they were; that the pointer comes back rests on pauses still to be written. `Policy` (the bucket fits into the day) is the lemma about `dailyRequestLimit` |
| `OfficeProofs` (push) | `PushInv`: types; a send job never finds the notice of a risk superseded (`RiskIsCurrent`); the scan has a notice for everybody it has not still to tell, and tells a second time only what was told once (`ScanTells`) | a risk is marked as told at the end of a scan that read the planners at its start and wrote their notices one by one; a notice's key is given back when it is called off |
| `OfficeProofs` (invoice) | `SyncInv`: types; while nothing was taken back the invoice only goes forward (`GoneForward`), so what a request has read of it or of its row may be old, never wrong (`ReadIsTrue`); that it was voided is in the row or announced by an event nobody has looked into yet (`VoidIsNews`) | the property speaks of moments when nothing is under way; an older status written by a request that read before must not bring back what only a newer one has found out |
| `OfficeProofs` (contact) | `ContactInv`: types; unless excused there is one contact, and either it is linked and all that still goes on is to bring it up to date (`Settled`), or (`Unsettled`) whoever holds the claim is the only one at work and creates only when nobody of that name is there | "one contact" says nothing of a run that has searched, found none, and will create |
| `OfficeProofs` (organisation) | `LinkInv`: types; what a check will write it knows (`CheckKnows`): the pinned organisation it read is a confirmed one, and if none was pinned then, the one it found is | a check writes what it has read before, whatever was confirmed since |

Theorems about implementation: `ContractImplemented` (each step of `JobQueue` is a step of `JobContract` or leaves it unchanged) and
`ImplementsTransfer` (each step of `Settlement` is a step of `InvoiceTransfer` or leaves it unchanged), through which all theorems about the transfer hold in the settlement.
The theorems named in `PROJECT.json` under "theorems" with a property are the ones a run checks on a small instance too.

The proof of the delivery note found a hole in its own model: with drawings from a small set, the invariant failed when the same drawing was given
again after the recipient had changed twice. That is the case described in section 2.10; the model now says that drawings differ.

The proof about the conversation found a hole too: a poll that had stored a letter and was deleting the photos of a closed process was not counted as polling, so the model did not record that the mailbox was rebuilt under it
(the excuse "rebuilt" of `NothingPassedOver`, see section 6). It does now.

The proof about the device made its property stronger. `ExpiredStaysShut` first spoke of a device out of reach whose clock is behind, and of the whole lease; the invariant it needed says it for any setting of the clock, within reach or
not, and for the secret, which a renewal replaces.

The proof of `OneContact` found another hole: the invariant failed for a customer nobody can search for, and for a link that staff set during a creation. TLC then showed that both end in
two contacts with three requests and seven changes, more than the run allows. The model had left them out (each customer could be searched for); it has them now, as named excuses, and section 6 has the two courses.

Only model-checked, not proved:

* all liveness (`EverySubmittedJobEnds`, `EveryMailSettles`, `SentIsAnnounced`, `ScansGoOn`, `ExclusiveNotStarved`, `EveryCaptureSettles`) and the
  fairness part of `ImplementsContract`: TLAPS has no proof rules for fairness and ENABLED;
* the pages (`OfferedIsServed`, `RefusalIsSeen`): finite tables, which TLC goes through completely.

## 6. Disagreements between code and its documentation

One run is expected to find a violation.

**A transfer fails although its invoice exists** (`transfer_failed_created`, `accounting/transfer-service.ts:751`). Only a timeout or a network error of the POST leads to
`outcome_unknown`. An answer that breaks off, cannot be read, or is a gateway timeout leads to `failed`, and the next execution creates a second invoice without looking for the first,
against `docs/TECH_DECISIONS.md:1942-1943` ("Jeder Fehler nach dem abgesetzten Create ⇒ `outcome_unknown`").
`OneInvoice`, which is proved, says that besides an overtaken claim, a relinked customer and an invoice of another total (next line) this is the only way.

Also seen while modelling, each by reading the code or by a counterexample of TLC to a property that is not kept here:

* **Transfer**: an invoice that was created with another total, and whose answer was lost, is passed over by the search (`transfer-service.ts` 853–855, 883) and created again, against `docs/TECH_DECISIONS.md:1949-1951` ("Summen-Mismatch … ⇒ `attention` mit verbundener Rechnung, nie ein zweiter Create"): that holds where the answer arrives (783–795) or the id is known. Named as *overlooked* in `OneInvoice` and `DutyKept`.
* **Demo**: a job of the old dataset acts on the new one (`jobs/demo.ts:96`): the guard compares creation times once, before it waits for a lock connection, and a job enqueued between the phases A and B counts as new.
  `StaleJobsOnlyInWindow` says that these windows are the only ones, which is proved.
* **Offers**: a reservation passes to another offer (`voucher/voucher-service.ts:538`): the two reads of `reservationStillHeld` straddle a new version of the reserving offer. `LiveOfferCovered`, which is proved, says that no offer a customer can accept is affected.
* **Settlement**: an amount the customer was not told is charged automatically (`settlement/settlement-service.ts:1563`): between putting the notice mail in the outbox and the report that it was sent, amounts can be changed without `amountsChanged` being set. `ToldBeforeCharged`, which is proved, says that this is the only way.
* **Offline, server**: a signature given for one recipient can be stored for another when a colleague overtakes (`offline/sync-service.ts:1003` against `handover/handover-service.ts:1188`); the fallback of the recovery executes again what `sync-service.ts:339` says is never executed again.
  A finalisation of the device is answered as applied though a colleague finalised meanwhile: the look (767–768) takes no lock, and `finalize` (1033) returns a handover that is finalised by then without effect (`handover-service.ts` 1557–1558, 1668). `AcknowledgedIsThere`, which is proved, says that the handover is the device's own in every other case.
* **Stocktake**: a correction can be applied twice. `createStocktake` reads the stock (`inventory-service.ts` 304–319) and then the open counts (331–334); an approval of an earlier count of the article (482–569) takes no lock of the lines of counts and commits between, so the new count compares with a stock that is gone: 10 in stock and 8 counted twice end as 6.
  In the same way a first count can be left waiting with a `CONFLICT` (542–551). `CountedPlusSince` and `FirstCountApprovable`, which are proved, say that no other articles are affected.
* **Mail**: a resend and a business retry of the same failed delivery are two rows, and nothing keeps both from being sent; an attempt that outlasts 15 minutes would overwrite `outcome_unknown`.
* **Machines**: a repair is overwritten by the return to "ready" or by issuing the machine; a machine in cleaning can be assigned with an override although `machine-service.ts:303` says it cannot; status checks before the lock (`assignment-service.ts` 1038–1049, `machine-service.ts` 260–266) are not repeated by the assignment (172–177) and only partly by finalising.
* **Handover**: free syrup is compared with a quota per change, not in sum (`handover-service.ts` 952–954); the document shows the drawing of the moment it is rendered (1563–1572); the damages frozen may be stale (1796–1801); `setRecipient` reads its representative before the lock (1077–1079).
* **Return**: a document stored for a return whose transaction then fails is kept (`return-service.ts` 1617–1621: `registered` is set inside the transaction).
* **Invoices**: "paid" is mirrored from a stale order of events (`invoice-sync.ts` 20–24 against 66 and 79); a new payment status is not mirrored if the version is not new (118–152), so a crash between the two transactions stays; `setAttention` overwrites `TOTAL_MISMATCH` against its comment 103–104.
* **Contacts**: a search may not find a contact just created (`lexware.ts:111`); the error path of a creation overwrites a link an administrator has set (712–717, 720–735); `createForCustomer` creates without a search after a creation without an answer (791–825).
  A link that staff set while a run holds the claim of a creation drops the claim (`linkWithin`, 641–686); if that contact then vanishes, a second run may claim and create next to the first. For a customer without a name or address to search for, `recovering` is read before the claim
  (395, 554–560), so a run planned earlier creates again although an unanswered creation has become known since, and after an answer that cannot be read the row is deleted (712–719): both against the comment at 559 ("nie blind erneut anlegen (B8)").
* **Organisation**: a subscription of one's own that is not recorded is left behind (`subscription-service.ts` 72–73); a check that is late can put back the organisation an administrator has just changed.
* **Staff accounts**: two overlapping `setUserRoles` can leave the union of both; a status is committed before the sessions are revoked. `updateCustomer` of the staff takes no lock against the portal's links.
* **Tours**: two active tours for one driver: `takeover` (`tour-service.ts` 1021–1048) asks about other tours and locks for the one who takes over, not for the substitute who drives for him that day, though `start` asks for both. `OneActiveTourPerDriver`, which is proved, says that a tour taken over by somebody substituted is always one of the two. A position sent late is taken for the tour a driver has started since (`location-service.ts` 98–101, 149–153); lost news of a delay are not healed although `listeners.ts` 9–11 says so; `resolveAll` and `record()` check no version, against the comment 298–304.
* **Appointments**: a letter may name as "old" a time that was never told (`reminders/service.ts` 418–422), a reminder may name a time that is no longer the latest (516–519), and a cancelled process can keep an open letter.
* **Push**: two notices for one state of an appointment (`send-job.ts` 82–86); a notice of something closed is not dropped (`supersede.ts` 131–136).
* **Conversations**: two overlapping polls of a rebuilt mailbox with a crash pass over letters; a mail whose transaction began before the closing and was committed after a reopening is deleted by the job of the old closing; a status webhook that comes before `providerMessageId` is stored is lost for good; an answer
  without a job is left by a crash between insert and enqueue; an answer is sent twice by a crash between gateway and update; a 2xx without an id counts as failed; photos of a letter assigned during `purgeUnmatched` are deleted against the comment `conversation-service.ts` 814–820.
  Two status webhooks that overlap can lead a status back, "read" to "delivered" or away from "failed": the row is read without a lock (`webhook-service.ts` 599–608) and written by its id alone (624–627). `StatusStays`, which is proved, says that a status that comes while no other of its answer is on its way is kept.
* **Device**: a package refresh sweeps away a capture made between the look for pending work and the discarding of the dataset (`runtime.ts` 946–956, against its comment 949–951); a capture taken during an ingest, with a crash and a second reset, is stamped with the newest epoch (`lease-service.ts` 135–147);
  an unlock that was under way completes after a lock; a logout wipes captures made while it waits for the revocation (`auth-guard` 500–506); a tab that gets a new key sweeps away what was captured after the look for pending work (`runtime.ts` 642 against the wipe, `workspace.ts` 355), though the comment there says it never does so silently, and a capture under way is sealed with the old key; wipe (355) and storing (357) are two transactions, and a crash between them leaves the old lease
  without the memory of the clock, so that a lease once refused opens again with the clock set back; a capture read before a package came in and sealed after it has the stamp of the new dataset on the old base (`router.ts` 551, 699; `runtime.ts` 1312): all of them are exceptions named in `NoSilentRekey`, `ExpiredStaysShut` and `StampIsTrue`, which are proved; two grants taken in reverse order leave a secret that does not fit.
* **Pages**: some controls are offered to people without the right for a part of what they do (settlement lines, same-day assignment, replies to a process without an address, a tour without stops, preparation for an ended process, the inquiry form of a completed or cancelled one: `anfrage/page.tsx` 185 and 465 against the `CONFLICT` of `commerce/inquiry-service.ts` 116–118);
  a discount is offered to everybody with `offer.apply_discount`, though `offer-service.ts` 682–699 also asks for the right to its size, and a special price of nothing for its own right; these are the exceptions `AskedLater` and `ServerDecides` name; `process.cancel` is offered though a booking exists if `offer.view` is missing; lists without a sequence
  number show a late answer over a newer one (`touren`, `kalender`; `ausgabe` has one); the inquiry form stays blank after a failed GET, and saving then overwrites.

## 7. What is not modelled, and the plan

`PROJECT.json` lists every part with its status and reason, and under "hazards" what is hard to test, with the properties that cover it or a note why none does.
Not modelled at all are: routing and geocoding, portal views and documents, issuing of vouchers, prices and the price engine, the calendar feed and action links, demo seed and clock, configuration and schema, the public site, and test controls - computation, reads, rendering, or single guarded updates.
Three hazards have no property because the code does nothing about them or leaves them to the deployment: a lock connection that is lost while its process goes on, connections of the pool held while another is needed, an auto job lost after the commit. A fourth, the capture swept away by a package refresh or a new key, is an exception named in `NoSilentRekey`.

| Step | Modules | State |
|---|---|---|
| 1 | `JobQueue`, `JobContract`, `MailOutbox`, `ScanChain`, `DemoReset` | modelled; safety proved |
| 2 | `OfferVoucher`, `InvoiceTransfer`, `Settlement` | modelled; safety proved |
| 3 | `MachineFleet` | modelled; safety proved |
| 4 | `HandoverDesk`, `ReturnDesk`, `StockLedger`, `AppointmentBook` | modelled; safety proved |
| 5 | `PortalAccess`, `StaffAccess`, `RequestBudget`, `PushNotice` | modelled; safety proved |
| 6 | `LexwareLink`, `ContactSync`, `InvoiceSync` | modelled; safety proved |
| 7 | `OfflineSync` | modelled; safety proved |
| 7a | `TourDay`, `OfflineDevice` | modelled; safety proved |
| 7b | `ChatInbox` | modelled; safety proved |
| 8 | `StaffGateway`, `CaseFile`, `ScreensProcess`, `ScreensDaily`, `StaffScreens` | modelled; finite, left to TLC |
| 9 | pure algorithms: price engine, availability, backoff, conflict fingerprints | against a reference definition |

## 8. Running it

With TLC and TLAPS 1.4.5 installed, and the community modules on the path:

    tlc -workers 2 -config MCSettlement.cfg MCSettlement     # any run: module and cfg named in PROJECT.json
    tlapm SettlementProofs.tla                               # any module of proofs

The largest runs (`field`, `settlement`, `office`) take a few minutes each, the longest proofs (`OfferVoucherProofs`, `FieldProofs`, and those of the transfer) too.
