---------------------------- MODULE OfflineDevice ----------------------------
(* One device of the staff app and its encrypted workspace: what lies in    *)
(* IndexedDB, what the tab and the service worker hold in memory, the calls *)
(* under way to the API, and the user who locks, reloads, goes off the      *)
(* network, comes back with another password and sets the clock.            *)
(*                                                                          *)
(* A call is answered when it is made, and the answer taken at any time     *)
(* after that.  What the tab does between two answers is one step, but for  *)
(* a work package, a lease and a capture, which are taken in look by look   *)
(* and write by write, and the status, whose validity is asked for twice.   *)
(* A key is known by the secret of the lease it was made with; a wrap is    *)
(* what it is opened with.  A capture is known by the number of changes left*)
(* when it was begun.                                                       *)
EXTENDS Actors

CONSTANTS Span,        \* OFFLINE_LEASE_MAX_MS, how long a lease is good
          MaxDay,      \* bound: the time of the server
          Skew,        \* how far the clock of the device may be set off
          MaxGrants,   \* bound: leases granted
          Attempts     \* OFFLINE_UNLOCK_MAX_ATTEMPTS
ASSUME DeviceAssumption ==
    /\ Span \in Nat /\ MaxDay \in Nat /\ Skew \subseteq Int
    /\ None \notin [id : Nat, until : Nat] \cup [id : Nat, secret : Nat]

VARIABLES
    cloud,    \* time, session, password, lease of the device, dataset, captures applied
    disk,     \* IndexedDB: wrapped keys and lease, package, captures, meta values
    app,      \* the tab: key, screen, network, clock; the key in the service worker
    fate      \* history: captures made, given up by the user, swept away unseen, mixed
              \* from two packages; secrets of the leases refused as expired

deviceVars == <<visit, edits, cloud, disk, app, fate>>

Later(m, n) == IF m > n THEN m ELSE n
Earlier(m, n) == IF m < n THEN m ELSE n
Blank == [dek |-> 0, byPass |-> 0, wrap |-> None, lease |-> None, failures |-> 0, seen |-> 0,
          heard |-> 0, epoch |-> 0, changed |-> FALSE, held |-> None, caps |-> {}]
FreshTab(scr) == [up |-> FALSE, key |-> 0, sw |-> 0, screen |-> scr, reach |-> TRUE, era |-> 1,
                  online |-> 0, seen |-> 0, heard |-> 0, skew |-> 0, refused |-> 0]

(* A fresh device, one set up yesterday whose tab is open, one that lies    *)
(* locked out of reach of the network, since today or for longer, with or   *)
(* without a capture, or one that was refused as expired, whose password    *)
(* was changed elsewhere and whose clock was set.                           *)
Grant1 == [id |-> 1, secret |-> 1, until |-> 1 + Span]
SetUp == [Blank EXCEPT !.dek = 1, !.byPass = 1, !.wrap = [id |-> 1, secret |-> 1],
                       !.lease = [id |-> 1, until |-> 1 + Span], !.seen = 1, !.heard = 1,
                       !.epoch = 1, !.held = [dek |-> 1, dataset |-> 1]]
OpenTab == [FreshTab("page") EXCEPT !.up = TRUE, !.key = 1, !.sw = 1, !.online = 1, !.seen = 1, !.heard = 1]
LockedTab == [FreshTab("locked") EXCEPT !.up = TRUE, !.reach = FALSE, !.seen = 1, !.heard = 1]
World(t, s, p, l) == [time |-> t, session |-> s, pass |-> p, nr |-> 1, lease |-> l, dataset |-> 1, got |-> {}]
Untold == [made |-> {}, given |-> {}, swept |-> {}, mixed |-> {}, spent |-> {}]

DeviceInit ==
    /\ visit = [w \in Clerk |-> NoVisit] /\ edits \in 0..MaxEdits
    /\ \/ /\ app = FreshTab("login") /\ disk = Blank /\ fate = Untold
          /\ cloud = World(1, "gone", 1, None)
       \/ /\ app = OpenTab /\ disk = SetUp /\ fate = Untold
          /\ cloud = World(1, "open", 1, Grant1)
       \/ /\ app = LockedTab
          /\ \E t \in 1..MaxDay : cloud = World(t, "open", 1, Grant1)
          /\ \E made \in {{}, {0}} :
                /\ fate = [Untold EXCEPT !.made = made]
                /\ disk = [SetUp EXCEPT !.caps = {[nr |-> n, dek |-> 1, stamp |-> 1, base |-> 1] : n \in made}]
       \/ /\ \E k \in Skew : app = [LockedTab EXCEPT !.seen = 1 + Span, !.skew = k]
          /\ disk = [SetUp EXCEPT !.seen = 1 + Span] /\ fate = [Untold EXCEPT !.spent = {1}]
          /\ \E t \in 1 + Span .. MaxDay : cloud = World(t, "gone", 2, Grant1)
-----------------------------------------------------------------------------
(* The clock that only goes forward: a time from the server counts as it    *)
(* is, the device's own time up to the end of a lease granted at the last   *)
(* time of the server, and not before there is one.                         *)
DeviceTime(a) == cloud.time + a.skew
LocalTime(a) == IF a.heard = 0 THEN a.seen
                ELSE Later(a.seen, Earlier(DeviceTime(a), a.heard + Span))
NotedLocal(a) == [a EXCEPT !.seen = LocalTime(a)]
KeptLocal(d, a) == [d EXCEPT !.seen = IF LocalTime(a) > a.seen THEN LocalTime(a) ELSE @]
NotedServer(a, t) == [a EXCEPT !.heard = Later(@, t), !.seen = Later(@, t)]
KeptServer(d, a, t) == [d EXCEPT !.heard = IF t > a.heard THEN t ELSE @,
                                 !.seen = IF t > a.seen THEN t ELSE @]
MonotoneNow(a) == Later(DeviceTime(a), a.seen)

(* unlockCheckedWith: the lease of the record, made with this key, in time. *)
Opens(k, a) == k # 0 /\ disk.lease # None /\ k = disk.dek /\ disk.lease.until > MonotoneNow(a)
Unlocked(a, k) == [a EXCEPT !.key = k, !.sw = k]
Locked(a) == [a EXCEPT !.key = 0, !.sw = 0]
ToLogin(a) == [Locked(a) EXCEPT !.screen = "login"]
HasWorkspace == disk.byPass # 0
HasPendingWork == disk.caps # {}

(* openWorkspace, with the key that the service worker still has.           *)
Loaded(a) == [a EXCEPT !.up = TRUE, !.seen = disk.seen, !.heard = disk.heard]
Opened(a) ==
    LET b == NotedLocal(Loaded(a)) IN
    IF a.up THEN a ELSE IF Opens(a.sw, b) THEN Unlocked(b, a.sw) ELSE [b EXCEPT !.sw = 0]
OpenedDisk == IF app.up THEN disk ELSE KeptLocal(disk, Loaded(app))

(* The world around the tab.                                                *)
TimeGoesOn == cloud.time < MaxDay /\ Edit /\ cloud' = [cloud EXCEPT !.time = @ + 1]
              /\ UNCHANGED <<visit, disk, app, fate>>
ClockSet == /\ Edit /\ \E k \in Skew \ {app.skew} : app' = [app EXCEPT !.skew = k]
            /\ UNCHANGED <<visit, cloud, disk, fate>>
DatasetReplaced == Edit /\ cloud' = [cloud EXCEPT !.dataset = @ + 1]
                   /\ UNCHANGED <<visit, disk, app, fate>>
PasswordElsewhere == Edit /\ cloud' = [cloud EXCEPT !.pass = @ + 1, !.session = "gone"]
                     /\ UNCHANGED <<visit, disk, app, fate>>
SessionEnds == /\ cloud.session # "gone" /\ Edit
               /\ \E s \in {"locked", "gone"} : cloud' = [cloud EXCEPT !.session = s]
               /\ UNCHANGED <<visit, disk, app, fate>>
NetworkGone ==
    /\ app.reach /\ Edit
    /\ app' = [app EXCEPT !.reach = FALSE, !.era = @ + 1, !.online = 0]
    /\ UNCHANGED <<visit, cloud, disk, fate>>
NetworkBack == ~app.reach /\ app' = [app EXCEPT !.reach = TRUE]
               /\ UNCHANGED <<visit, edits, cloud, disk, fate>>
ClockNoted ==
    /\ app.up /\ app' = NotedLocal(app) /\ app' # app
    /\ disk' = KeptLocal(disk, app)
    /\ UNCHANGED <<visit, edits, cloud, fate>>
Reloaded ==
    /\ app.screen # "login" /\ Edit
    /\ \E near \in {app.reach, FALSE} :
          app' = [FreshTab("loading") EXCEPT !.sw = app.sw, !.reach = near, !.era = app.era, !.skew = app.skew]
    /\ visit' = [w \in Clerk |-> NoVisit]
    /\ UNCHANGED <<cloud, disk, fate>>
-----------------------------------------------------------------------------
(* The routes of the lease.  A renewal keeps the lease and has a new secret.*)
LeaseAlive == cloud.lease # None /\ cloud.lease.until > cloud.time
SecretReply(c) ==
    IF c.session # "open" THEN [kind |-> "denied"]
    ELSE IF ~LeaseAlive THEN [kind |-> "none"]
    ELSE [kind |-> "secret", wrap |-> [id |-> c.lease.id, secret |-> c.lease.secret]]
NextLease == [id |-> IF cloud.lease = None THEN cloud.nr + 1 ELSE cloud.lease.id,
              secret |-> cloud.nr + 1, until |-> cloud.time + Span]

(* authorizeOnlineDetailed: first the key is looked for with the old lease, *)
(* then a new one is asked for.                                             *)
LeaseCall(from, p) == [op |-> "lease", from |-> from, pass |-> p, reply |-> None]
SecretCall(from, p, c) == [op |-> "secret", from |-> from, pass |-> p, reply |-> SecretReply(c)]
Authorize(w, from, p, a, c) ==
    \/ Begin(w, LeaseCall(from, p))
    \/ p # 0 /\ a.key = 0 /\ disk.lease # None /\ Begin(w, SecretCall(from, p, c))
Prime(w, p) ==
    /\ app.screen = "login" /\ app.reach /\ p = cloud.pass
    /\ cloud' = [cloud EXCEPT !.session = "open"]
    /\ app' = [Opened(app) EXCEPT !.screen = "loading"] /\ disk' = OpenedDisk
    /\ Authorize(w, "login", p, Opened(app), [cloud EXCEPT !.session = "open"])
    /\ UNCHANGED <<edits, fate>>

(* AuthGuard.refresh, on line: the answer of /auth/me is acted upon at once.*)
Guard(w) ==
    /\ app.screen \in {"loading", "unavailable"} /\ app.reach
    /\ \/ cloud.session = "gone" /\ app' = ToLogin(app) /\ UNCHANGED <<visit, disk>>
       \/ cloud.session = "locked" /\ app' = [Locked(app) EXCEPT !.screen = "locked"]
          /\ UNCHANGED <<visit, disk>>
       \/ /\ cloud.session = "open"
          /\ app' = [Opened(app) EXCEPT !.screen = "page"] /\ disk' = OpenedDisk
          /\ \/ UNCHANGED visit
             \/ /\ Opened(app).key = 0 /\ disk.lease # None
                /\ Begin(w, SecretCall("guard", 0, cloud))
    /\ UNCHANGED <<edits, cloud, fate>>
StartOffline ==
    /\ app.screen \in {"loading", "unavailable"} /\ ~app.reach
    /\ disk' = OpenedDisk
    /\ app' = [Opened(app) EXCEPT !.screen = IF Opened(app).key # 0 THEN "page"
                                             ELSE IF HasWorkspace THEN "locked" ELSE "unavailable"]
    /\ app' # app
    /\ UNCHANGED <<visit, edits, cloud, fate>>
(* The provider's effect, when the page is shown and the workspace is shut. *)
Provide(w) ==
    /\ app.screen = "page" /\ app.up /\ app.key = 0 /\ app.reach
    /\ \A v \in Clerk : visit[v] = NoVisit
    /\ \/ Begin(w, LeaseCall("provider", 0))
       \/ disk.lease # None /\ Begin(w, SecretCall("provider", 0, cloud))
    /\ UNCHANGED <<edits, cloud, disk, app, fate>>

(* The lock, and its two ways out.                                          *)
Lock == /\ app.screen = "page" /\ Edit /\ app' = [Locked(app) EXCEPT !.screen = "locked"]
        /\ UNCHANGED <<visit, cloud, disk, fate>>
UnlockOnline(w, p) ==
    /\ app.screen = "locked" /\ app.reach
    /\ IF cloud.session = "gone"
       THEN app' = [app EXCEPT !.screen = "login"] /\ UNCHANGED <<visit, cloud>>
       ELSE /\ p = cloud.pass /\ cloud' = [cloud EXCEPT !.session = "open"]
            /\ app' = [app EXCEPT !.refused = 0, !.screen = IF app.up THEN @ ELSE "loading"]
            /\ IF app.up THEN Authorize(w, "lock", p, app, [cloud EXCEPT !.session = "open"])
               ELSE UNCHANGED visit
    /\ UNCHANGED <<edits, disk, fate>>
UnlockOffline(p) ==
    LET b == NotedLocal(app)
        d == KeptLocal(disk, app) IN
    /\ app.screen = "locked" /\ ~app.reach /\ app.up
    /\ disk.dek # 0 /\ disk.failures < Attempts
    /\ IF p # disk.byPass
       THEN disk' = [d EXCEPT !.failures = @ + 1] /\ app' = b /\ UNCHANGED fate
       ELSE IF Opens(disk.dek, b)
       THEN /\ disk' = [d EXCEPT !.failures = 0]
            /\ app' = [Unlocked(b, disk.dek) EXCEPT !.screen = "page"] /\ UNCHANGED fate
       ELSE /\ disk' = d /\ app' = b
            /\ fate' = IF disk.lease = None \/ disk.heard = 0 \/ d.seen = 0 \/ app.key # 0 THEN fate
                       ELSE [fate EXCEPT !.spent = @ \cup {disk.wrap.secret}]
    /\ UNCHANGED <<visit, edits, cloud>>
-----------------------------------------------------------------------------
LeaseServed(w) ==
    /\ visit[w].op = "lease" /\ visit[w].reply = None /\ app.reach
    /\ cloud.session = "open" /\ cloud.nr < MaxGrants
    /\ cloud' = [cloud EXCEPT !.lease = NextLease, !.nr = @ + 1]
    /\ Continue(w, [visit[w] EXCEPT !.reply = [lease |-> NextLease, issued |-> cloud.time]])
    /\ UNCHANGED <<edits, disk, app, fate>>

(* unlockSilently, and what the caller does next.                           *)
AfterSecret(w, opened) ==
    IF visit[w].from \in {"login", "lock"} \/ (visit[w].from = "provider" /\ ~opened)
    THEN Continue(w, [visit[w] EXCEPT !.op = "lease", !.reply = None]) ELSE End(w)
TakeSecret(w) ==
    LET reply == visit[w].reply
        fits == reply.kind = "secret" /\ disk.wrap = reply.wrap /\ Opens(disk.dek, app) IN
    /\ visit[w].op = "secret"
    /\ disk' = IF reply.kind = "none" THEN [disk EXCEPT !.wrap = None, !.lease = None] ELSE disk
    /\ app' = IF fits THEN Unlocked(app, disk.dek) ELSE app
    /\ AfterSecret(w, fits)
    /\ UNCHANGED <<edits, cloud, fate>>
(* What follows an authorisation that was granted, failed or was refused.   *)
AfterGrant(from, granted, a) ==
    IF from = "lock" THEN [a EXCEPT !.screen = IF @ = "locked" THEN "loading" ELSE @]
    ELSE IF from = "provider" /\ ~granted /\ HasWorkspace /\ a.screen = "page"
    THEN [Locked(a) EXCEPT !.screen = "locked"] ELSE a
LeaseLost(w) ==
    /\ visit[w].op = "lease" /\ visit[w].reply = None
    /\ app' = AfterGrant(visit[w].from, FALSE, app)
    /\ End(w) /\ UNCHANGED <<edits, cloud, disk, fate>>

\* mutant: what is pending is not asked for
MayRekeyAlways == TRUE
MayRekey == disk.dek = 0 \/ ~HasPendingWork
KeyFor(p) == IF app.key # 0 THEN app.key ELSE IF p # 0 /\ p = disk.byPass THEN disk.dek ELSE 0
Numbers(caps) == {c.nr : c \in caps}

(* A granted lease: what is pending is looked at,                            *)
TakeGrant(w) ==
    LET v == visit[w]
        heard == NotedServer(app, v.reply.issued)
        shut == app.key = 0 /\ disk.dek # 0 /\ v.pass = 0
        grant == [op |-> "grant", from |-> v.from, pass |-> v.pass, lease |-> v.reply.lease,
                  may |-> MayRekey, saw |-> Numbers(disk.caps)] IN
    /\ v.op = "lease" /\ v.reply # None
    /\ disk' = KeptServer(disk, app, v.reply.issued)
    /\ IF shut THEN app' = AfterGrant(v.from, FALSE, heard) /\ End(w)
       ELSE app' = heard /\ Continue(w, grant)
    /\ UNCHANGED <<edits, cloud, fate>>

(* then the record and the key: found, or made anew if that was allowed.    *)
FindKey(w) ==
    LET v == visit[w]
        found == KeyFor(v.pass)
        rekey == found = 0 /\ disk.dek # 0
        store == [op |-> IF rekey THEN "wipe" ELSE "store", from |-> v.from, lease |-> v.lease,
                  key |-> IF found # 0 THEN found ELSE v.lease.secret,
                  byPass |-> IF v.pass # 0 THEN v.pass ELSE IF rekey THEN 0 ELSE disk.byPass,
                  saw |-> IF found # 0 THEN {} ELSE v.saw] IN
    /\ v.op = "grant"
    /\ IF v.lease.until <= MonotoneNow(app)
       THEN app' = AfterGrant(v.from, FALSE, app) /\ End(w)
       ELSE IF found = 0 /\ ~v.may
       THEN /\ app' = IF v.from = "lock" /\ HasWorkspace THEN [app EXCEPT !.refused = v.pass]
                      ELSE AfterGrant(v.from, FALSE, app)
            /\ End(w)
       ELSE app' = app /\ Continue(w, store)
    /\ UNCHANGED <<edits, cloud, disk, fate>>

(* A workspace that gets a new key is emptied first, the memory of the clock*)
(* with it; then key, wraps and lease are stored, and opened.               *)
SweptBy(v) == fate.swept \cup (Numbers(disk.caps) \ v.saw)
EmptyWorkspace(w) ==
    /\ visit[w].op = "wipe"
    /\ disk' = [disk EXCEPT !.failures = 0, !.seen = 0, !.heard = 0, !.epoch = 0, !.changed = FALSE,
                            !.held = None, !.caps = {}]
    /\ fate' = [fate EXCEPT !.swept = SweptBy(visit[w]),
                            !.spent = IF disk.wrap = None THEN @ ELSE @ \ {disk.wrap.secret}]
    /\ Continue(w, [visit[w] EXCEPT !.op = "store"])
    /\ UNCHANGED <<edits, cloud, app>>
StoreGrant(w) ==
    LET v == visit[w] IN
    /\ v.op = "store"
    /\ disk' = [disk EXCEPT !.dek = v.key, !.byPass = v.byPass, !.failures = 0,
                            !.wrap = [id |-> v.lease.id, secret |-> v.lease.secret],
                            !.lease = [id |-> v.lease.id, until |-> v.lease.until]]
    /\ app' = AfterGrant(v.from, TRUE, Unlocked(app, v.key))
    /\ fate' = IF v.key = disk.dek THEN fate ELSE [fate EXCEPT !.swept = SweptBy(v)]
    /\ End(w) /\ UNCHANGED <<edits, cloud>>

(* The password is changed here: the wrap follows, when the key is at hand. *)
PasswordHere ==
    /\ app.screen = "page" /\ app.reach /\ cloud.session = "open" /\ Edit
    /\ cloud' = [cloud EXCEPT !.pass = @ + 1]
    /\ disk' = IF app.key # 0 THEN [disk EXCEPT !.byPass = cloud.pass + 1] ELSE disk
    /\ UNCHANGED <<visit, app, fate>>
-----------------------------------------------------------------------------
GiveUpCaptures == fate' = [fate EXCEPT !.given = @ \cup {c.nr : c \in disk.caps}]
RevokedIfHeard == IF app.reach /\ cloud.session = "open" THEN [cloud EXCEPT !.lease = None] ELSE cloud

(* The user, told that the new password does not open it, gives it up.      *)
DiscardWorkspace(w) ==
    /\ app.screen = "locked" /\ app.refused # 0
    /\ cloud' = RevokedIfHeard /\ GiveUpCaptures /\ disk' = Blank
    /\ app' = [Locked(app) EXCEPT !.refused = 0]
    /\ Begin(w, [op |-> "lease", from |-> "lock", pass |-> app.refused, reply |-> None])
    /\ UNCHANGED edits
(* Logout: asked and confirmed, the lease revoked; then all is wiped.       *)
AskLogout(w) ==
    /\ app.screen = "page" /\ Edit /\ cloud' = RevokedIfHeard
    /\ Begin(w, [op |-> "leave", reply |-> None])
    /\ UNCHANGED <<disk, app, fate>>
Wipe(w) ==
    /\ visit[w].op = "leave"
    /\ disk' = Blank /\ GiveUpCaptures
    /\ cloud' = IF app.reach THEN [cloud EXCEPT !.session = "gone"] ELSE cloud
    /\ app' = ToLogin(app)
    /\ End(w) /\ UNCHANGED edits

(* The work package: one fetch at a time; built with a lease that is alive. *)
Fetching == \E w \in Clerk : visit[w].op = "fetch"
FetchPackage(w) ==
    /\ app.reach /\ cloud.session = "open" /\ LeaseAlive
    /\ Begin(w, [op |-> "fetch", step |-> "asked",
                 reply |-> [dataset |-> cloud.dataset, time |-> cloud.time]])
RefreshPackage(w) ==
    /\ app.key # 0 /\ ~Fetching /\ FetchPackage(w)
    /\ UNCHANGED <<edits, cloud, disk, app, fate>>

DatasetChanged(here, there) == here # 0 /\ there # 0 /\ here # there
Discarded(d) == [d EXCEPT !.held = None, !.caps = {}, !.changed = FALSE, !.epoch = 0]
TakePackage(w) ==
    LET pkg == visit[w].reply
        kept == KeptServer(disk, app, pkg.time) IN
    /\ visit[w].op = "fetch" /\ visit[w].step = "asked"
    /\ app' = NotedServer(app, pkg.time)
    /\ IF ~DatasetChanged(disk.epoch, pkg.dataset)
       THEN disk' = kept /\ Continue(w, [visit[w] EXCEPT !.step = "ingest"])
       ELSE IF HasPendingWork
       THEN disk' = [kept EXCEPT !.changed = TRUE] /\ End(w)
       ELSE disk' = kept /\ Continue(w, [visit[w] EXCEPT !.step = "discard"])
    /\ UNCHANGED <<edits, cloud, fate>>
(* Nothing was pending when it was looked for.                              *)
SweepOld(w) ==
    /\ visit[w].op = "fetch" /\ visit[w].step = "discard"
    /\ disk' = Discarded(disk)
    /\ fate' = [fate EXCEPT !.swept = @ \cup {c.nr : c \in disk.caps}]
    /\ Continue(w, [visit[w] EXCEPT !.step = "ingest"])
    /\ UNCHANGED <<edits, cloud, app>>
(* Without the key the store throws, and the rest does not happen.          *)
Ingest(w) ==
    /\ visit[w].op = "fetch" /\ visit[w].step = "ingest"
    /\ IF app.key = 0 THEN End(w) /\ UNCHANGED disk
       ELSE /\ disk' = [disk EXCEPT !.held = [dek |-> app.key, dataset |-> visit[w].reply.dataset]]
            /\ Continue(w, [visit[w] EXCEPT !.step = "mark"])
    /\ UNCHANGED <<edits, cloud, app, fate>>
MarkEpoch(w) ==
    /\ visit[w].op = "fetch" /\ visit[w].step = "mark"
    /\ disk' = [disk EXCEPT !.epoch = visit[w].reply.dataset, !.changed = FALSE]
    /\ End(w) /\ UNCHANGED <<edits, cloud, app, fate>>
(* The user gives up the captures of the old dataset; a fetch that runs is  *)
(* shared.                                                                  *)
DiscardDataset(w) ==
    /\ app.screen = "page" /\ app.key # 0 /\ disk.changed
    /\ disk' = Discarded(disk) /\ GiveUpCaptures
    /\ UNCHANGED visit \/ (~Fetching /\ FetchPackage(w))
    /\ UNCHANGED <<edits, cloud, app>>

(* A capture: what is captured from is read, then the mark of the dataset   *)
(* and the key that seals it, then it is stored.                            *)
Capture(w) ==
    /\ app.screen = "page" /\ app.key # 0 /\ Edit
    /\ disk.held # None /\ disk.held.dek = app.key
    /\ Begin(w, [op |-> "capture", nr |-> edits, base |-> disk.held.dataset])
    /\ UNCHANGED <<cloud, disk, app, fate>>
SealCapture(w) ==
    LET v == visit[w] IN
    /\ v.op = "capture"
    /\ IF app.key = 0 THEN End(w) /\ UNCHANGED fate
       ELSE /\ Continue(w, [op |-> "keep", cap |-> [nr |-> v.nr, dek |-> app.key, stamp |-> disk.epoch,
                                                   base |-> v.base]])
            /\ fate' = IF disk.held # None /\ disk.held.dataset = v.base THEN fate
                       ELSE [fate EXCEPT !.mixed = @ \cup {v.nr}]
    /\ UNCHANGED <<edits, cloud, disk, app>>
KeepCapture(w) ==
    LET c == visit[w].cap IN
    /\ visit[w].op = "keep"
    /\ disk' = [disk EXCEPT !.caps = @ \cup {c}]
    /\ fate' = [fate EXCEPT !.made = @ \cup {c.nr},
                            !.swept = IF c.dek = disk.dek THEN @ ELSE @ \cup {c.nr}]
    /\ End(w) /\ UNCHANGED <<edits, cloud, app>>

(* A run of the sync engine with one capture; its retries are OfflineSync's.*)
Stamp(c) == IF c.stamp # 0 THEN c.stamp ELSE disk.epoch
Sync(c) ==
    /\ app.key = c.dek /\ ~disk.changed /\ app.reach
    /\ IF cloud.session # "open" THEN app' = ToLogin(app) /\ UNCHANGED <<cloud, disk>>
       ELSE IF Stamp(c) # cloud.dataset
       THEN disk' = [disk EXCEPT !.changed = TRUE] /\ UNCHANGED <<cloud, app>>
       ELSE /\ cloud' = [cloud EXCEPT !.got = @ \cup {[nr |-> c.nr, base |-> c.base,
                                                       stamp |-> c.stamp, at |-> cloud.dataset]}]
            /\ disk' = [disk EXCEPT !.caps = @ \ {c}] /\ UNCHANGED app
    /\ UNCHANGED <<visit, edits, fate>>
-----------------------------------------------------------------------------
(* checkConnectivity: one check per era; an era ends with the network.      *)
Stale(w) == visit[w].era # app.era \/ ~app.reach
CheckStatus(w) ==
    /\ app.up /\ app.reach
    /\ \A v \in Clerk : visit[v].op = "probe" => visit[v].era # app.era
    /\ Begin(w, [op |-> "probe", era |-> app.era, step |-> "asked",
                 reply |-> [session |-> cloud.session, dataset |-> cloud.dataset, time |-> cloud.time]])
    /\ UNCHANGED <<edits, cloud, disk, app, fate>>
ReadStatus(w) ==
    LET reply == visit[w].reply IN
    /\ visit[w].op = "probe" /\ visit[w].step = "asked"
    /\ IF Stale(w) THEN End(w) /\ UNCHANGED <<app, disk>>
       ELSE /\ Continue(w, [visit[w] EXCEPT !.step = "read"])
            /\ IF reply.session = "gone" THEN UNCHANGED <<app, disk>>
               ELSE app' = NotedServer(app, reply.time) /\ disk' = KeptServer(disk, app, reply.time)
    /\ UNCHANGED <<edits, cloud, fate>>
StillHolds(w) == ~Stale(w)
TakeStatus(w) ==
    LET reply == visit[w].reply
        told == [app EXCEPT !.online = visit[w].era] IN
    /\ visit[w].op = "probe" /\ visit[w].step = "read"
    /\ app' = IF ~StillHolds(w) THEN app ELSE IF reply.session = "gone" THEN ToLogin(told) ELSE told
    /\ disk' = IF StillHolds(w) /\ reply.session # "gone" /\ DatasetChanged(disk.epoch, reply.dataset)
               THEN [disk EXCEPT !.changed = TRUE] ELSE disk
    /\ End(w) /\ UNCHANGED <<edits, cloud, fate>>
StatusLost == /\ app.up /\ app.reach /\ app.online # 0 /\ app' = [app EXCEPT !.online = 0]
              /\ UNCHANGED <<visit, edits, cloud, disk, fate>>

(* Bound: either the dataset is replaced, or clocks, leases and passwords    *)
(* change, and the password once.                                           *)
OneWorry == /\ cloud.dataset = 1 \/ (cloud.time = 1 /\ cloud.pass = 1 /\ app.skew = 0)
            /\ cloud.pass <= 2
DeviceStep ==
    \/ TimeGoesOn \/ ClockSet \/ DatasetReplaced \/ PasswordElsewhere \/ SessionEnds
    \/ NetworkGone \/ NetworkBack \/ ClockNoted \/ Reloaded \/ StartOffline \/ Lock
    \/ PasswordHere \/ StatusLost
    \/ \E p \in 0 .. cloud.pass : UnlockOffline(p)
    \/ \E c \in disk.caps : Sync(c)
    \/ \E w \in Clerk :
        \/ \E p \in {cloud.pass} : Prime(w, p) \/ UnlockOnline(w, p)
        \/ Guard(w) \/ Provide(w) \/ TakeSecret(w) \/ LeaseServed(w) \/ LeaseLost(w)
        \/ TakeGrant(w) \/ FindKey(w) \/ EmptyWorkspace(w) \/ StoreGrant(w)
        \/ Capture(w) \/ SealCapture(w) \/ KeepCapture(w)
        \/ DiscardWorkspace(w) \/ AskLogout(w) \/ Wipe(w)
        \/ RefreshPackage(w) \/ TakePackage(w) \/ SweepOld(w) \/ Ingest(w) \/ MarkEpoch(w)
        \/ DiscardDataset(w)
        \/ CheckStatus(w) \/ ReadStatus(w) \/ TakeStatus(w)
DeviceNext == DeviceStep /\ OneWorry'
DeviceSpec == DeviceInit /\ [][DeviceStep]_deviceVars
-----------------------------------------------------------------------------
(* A capture leaves the device only to the server, or because the user gave *)
(* it up ("NIE still neu verschluesseln", runtime.ts 632-635), and the key  *)
(* of the workspace still opens it.  Excepted is what was stored after a    *)
(* refresh, or a call that makes a new key, had found nothing pending and   *)
(* before it was done, or after another call had taken its key from the     *)
(* record or the memory (runtime.ts 642 and 949, workspace.ts 295-357).     *)
NoSilentRekey ==
    /\ fate.made \subseteq Numbers(disk.caps) \cup fate.given \cup fate.swept \cup Numbers(cloud.got)
    /\ \A c \in disk.caps : c.dek = disk.dek \/ c.nr \in fate.swept

(* What carries the mark of a dataset was captured from it, and what the    *)
(* server takes was captured from the dataset it has - but for what was     *)
(* captured while a package came in and has no mark of its own, or has the  *)
(* mark of the package that replaced the one it was read from before it was *)
(* sealed (router.ts 699, runtime.ts 1312).                                 *)
StampIsTrue ==
    /\ \A c \in disk.caps : c.stamp # 0 /\ c.nr \notin fate.mixed => c.stamp = c.base
    /\ \A g \in cloud.got : g.stamp # 0 /\ g.nr \notin fate.mixed => g.at = g.base

(* The device calls itself on line only on the word of a check that began   *)
(* after the network was lost the last time (runtime.ts 490-505).           *)
OnlineIsFresh == app.online \in {0, app.era}

(* A lease that was refused as expired opens the workspace never again,     *)
(* whatever the clock of the device is set to, until the server has renewed *)
(* it - unless the memory of the clock was lost with a setting-up, before   *)
(* the refusal and not written since, or after it, when the setting-up was  *)
(* broken off after the first of its two writes (workspace.ts 355-357).     *)
ExpiredStaysShut ==
    app.key # 0 /\ disk.wrap # None => disk.wrap.secret \notin fate.spent

DeviceSafety == NoSilentRekey /\ StampIsTrue /\ OnlineIsFresh /\ ExpiredStaysShut
=============================================================================
