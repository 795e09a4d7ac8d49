------------------------------ MODULE ChatInbox ------------------------------
(* The conversation of a process with its customer: mails polled from the    *)
(* mailbox, WhatsApp messages and statuses from the webhook, the jobs that   *)
(* send an answer and fetch a picture, messages that are assigned by hand,   *)
(* and the retention that removes pictures and texts when the process is     *)
(* closed, even if it is opened again meanwhile.  `visit` holds what a       *)
(* request or a job run has read; a crash forgets it.                        *)
EXTENDS Actors

CONSTANTS Msg,       \* ids of messages
          Letter,    \* mails of customers
          Wam,       \* WhatsApp messages of customers, all of them pictures
          MaxUid,    \* bound: letters in the mailbox
          MaxMoment, \* bound: times the process is closed
          MaxHeard,  \* bound: statuses the provider reports of an answer
          JobTries   \* attempts of a job
ASSUME ChatAssumption ==
    /\ MaxUid \in Nat /\ MaxMoment \in Nat /\ MaxHeard \in Nat /\ JobTries \in Nat \ {0}
    /\ Letter \cap Wam = {} /\ (Letter \cup Wam) \cap {None, "staff", "desk", "portal"} = {}
    /\ Msg \cap {None, "hashed"} = {} /\ None \notin {"staff", "desk", "portal", "hashed"}

VARIABLES
    dossier,    \* the process: when it was completed or cancelled, 0 while it is open
    moment,     \* the clock: what happens after a closing is later than it
    mailbox,    \* the letters at their uids, and the UIDVALIDITY
    mark,       \* inbound_mail_state: up to where the mailbox is read
    receipts,   \* inbound_mail_receipts
    chat,       \* conversation_messages
    photo,      \* message_photos: the picture of a message
    files,      \* messages with a picture in the storage
    hook,       \* whatsapp_events of type message
    heard,      \* whatsapp_events of a status, also those whose transaction goes on
    media,      \* attempts left of the job that fetches a picture
    sending,    \* attempts left of the job that sends an answer
    closing,    \* jobs that clean up after a closing
    handed,   \* history: how often the provider took an answer
    cleared,    \* history: closings whose job has ended well
    mishap      \* history: a run that broke off, a storage that failed, ...
chatVars == <<visit, edits, dossier, moment, mailbox, mark, receipts, chat, photo, files,
              hook, heard, media, sending, closing, handed, cleared, mishap>>

processRows == <<dossier, moment, closing, cleared>>
inboxRows == <<mailbox, mark, receipts>>
photoRows == <<photo, files>>
whatsAppRows == <<hook, heard, media, sending, handed>>

NoMessage == [from |-> None]
NeverAsked == -1          \* no job exists for the message
Rank == [queued |-> 0, sent |-> 1, delivered |-> 2, read |-> 3]

IsClosed == dossier # 0
Present(m) == chat[m] # NoMessage
Inbound(m) == chat[m].from \in Letter \cup Wam
Mine(m) == Present(m) /\ chat[m].mine
Doing(w, ops) == visit[w].op \in ops
InHand(m, ops) == \E w \in Clerk : Doing(w, ops) /\ visit[w].m = m

\* an id nobody has used: pictures are stored under it before the row exists
Fresh(m) == ~Present(m) /\ m \notin files /\ ~InHand(m, {"store", "stored"})

ChatRow(from, mine, joined, state) ==
  [from |-> from, mine |-> mine, ignored |-> FALSE, joined |-> joined, anchor |-> 0, scrubbed |-> FALSE,
   aged |-> FALSE, due |-> FALSE, state |-> state, known |-> FALSE, late |-> mine /\ IsClosed]

\* four situations to begin with: a letter and its copy that nobody has read,
UnreadMail(l) ==
  /\ mailbox = [validity |-> 1, letters |-> <<l, l>>]
  /\ mark = [validity |-> 1, last |-> 0] /\ receipts = {}
  /\ dossier = 0 /\ chat = [m \in Msg |-> NoMessage]

OldMail(l) ==
  /\ mailbox = [validity |-> 1, letters |-> <<l>>] /\ mark = [validity |-> 1, last |-> 1]
  /\ receipts = {[validity |-> 1, uid |-> 1, letter |-> l]}

\* a WhatsApp message whose picture is still to be fetched,
PictureToFetch(g, l, x) ==
  /\ OldMail(l) /\ dossier = 0
  /\ chat = [m \in Msg |-> IF m = g THEN ChatRow(x, TRUE, 1, "received") ELSE NoMessage]

\* a mail with its picture in a process that has just been closed,
\* or one that belongs to no process
PictureAtHand(g, l) ==
  /\ OldMail(l) /\ dossier \in {0, 1}
  /\ chat = [m \in Msg |-> IF m = g THEN ChatRow(l, IsClosed, 1, "received") ELSE NoMessage]

ChatInit ==
  /\ ActorsInit
  /\ \E l \in Letter, x \in Wam, g \in Msg : UnreadMail(l) \/ PictureToFetch(g, l, x) \/ PictureAtHand(g, l)
  /\ hook = [x \in Wam |-> IF \E g \in Msg : chat[g].from = x THEN CHOOSE g \in Msg : chat[g].from = x ELSE None]
  /\ media = [m \in Msg |-> IF chat[m].from \in Wam THEN JobTries ELSE NeverAsked]
  /\ photo = [m \in Msg |-> IF chat[m].from \in Letter THEN "live" ELSE "none"]
  /\ files = {m \in Msg : chat[m].from \in Letter}
  /\ moment = dossier + 1
  /\ closing = IF IsClosed THEN {[at |-> dossier, left |-> JobTries]} ELSE {}
  /\ cleared = {} /\ heard = {} /\ mishap = {}
  /\ sending = [m \in Msg |-> NeverAsked] /\ handed = [m \in Msg |-> 0]

-----------------------------------------------------------------------------
(* The mailbox                                                               *)

\* outside: a letter arrives, perhaps a copy of one that is there already
LetterArrives(l) ==
  /\ Edit /\ Len(mailbox.letters) < MaxUid
  /\ mailbox' = [mailbox EXCEPT !.letters = Append(@, l)]
  /\ UNCHANGED <<visit, mark, receipts, chat, processRows, photoRows, whatsAppRows, mishap>>

Polls(w) == \/ Doing(w, {"poll", "read", "store", "handled"})
            \/ Doing(w, {"sweep", "delete", "gone"}) /\ visit[w].then.op = "handled"

\* outside: the mailbox is rebuilt, its letters have new uids
Rebuilt ==
  /\ Edit /\ mailbox.letters # <<>>
  /\ mailbox' = [mailbox EXCEPT !.validity = @ + 1]
  /\ mishap' = IF \E w \in Clerk : Polls(w) THEN mishap \cup {"rebuilt"} ELSE mishap
  /\ UNCHANGED <<visit, mark, receipts, chat, processRows, photoRows, whatsAppRows>>

\* bound: the mailbox is polled while there is something new in it
PollBegins(w) ==
  /\ mark.validity # mailbox.validity \/ mark.last < Len(mailbox.letters)
  /\ mailbox.letters # <<>>
  /\ Begin(w, [op |-> "poll", known |-> mark])
  /\ UNCHANGED <<edits, inboxRows, chat, processRows, photoRows, whatsAppRows, mishap>>

\* another UIDVALIDITY than the known one: the uids begin anew
Since(known, validity) ==
  IF known.validity \notin {0, validity} THEN 0 ELSE known.last

PollFetched(w) ==
  /\ Doing(w, {"poll"})
  /\ LET since == Since(visit[w].known, mailbox.validity) IN
     /\ Continue(w, [op |-> "read", validity |-> mailbox.validity, letters |-> mailbox.letters, uid |-> since])
     /\ mark' = [validity |-> mailbox.validity, last |-> since]
  /\ UNCHANGED <<edits, mailbox, receipts, chat, processRows, photoRows, whatsAppRows, mishap>>

Receipt(v, l) == [validity |-> v.validity, uid |-> v.uid + 1, letter |-> l]
SameUid(v) == \E r \in receipts : r.validity = v.validity /\ r.uid = v.uid + 1
SameLetter(v) == \E r \in receipts : r.letter = v.letters[v.uid + 1]

\* the unique indexes of inbound_mail_receipts know this letter
Known(v) == SameUid(v) \/ SameLetter(v)

More(w) == Doing(w, {"read"}) /\ visit[w].uid < Len(visit[w].letters)
Handled(v) == [v EXCEPT !.op = "handled"]

\* a letter with a receipt; or one that cannot be read or stored, quarantined
LetterPassed(w) ==
  /\ More(w) /\ Continue(w, Handled(visit[w]))
  /\ \/ Known(visit[w]) /\ UNCHANGED receipts
     \/ ~SameUid(visit[w]) /\ receipts' = receipts \cup {Receipt(visit[w], None)}
  /\ UNCHANGED <<edits, mailbox, mark, chat, processRows, photoRows, whatsAppRows, mishap>>

\* its picture is stored under the id of the message that is to come; then
\* the transaction begins
LetterPrepared(w) ==
  /\ More(w) /\ ~Known(visit[w])
  /\ \E m \in Msg : \E matched, picture \in BOOLEAN :
       /\ Fresh(m)
       /\ Continue(w, [op |-> "store", m |-> m, mine |-> matched, picture |-> picture,
                       begun |-> moment, poll |-> visit[w]])
       /\ files' = IF picture THEN files \cup {m} ELSE files
  /\ UNCHANGED <<edits, inboxRows, chat, photo, processRows, whatsAppRows, mishap>>

\* message, photo and receipt in one transaction
LetterStored(w) ==
  LET v == visit[w]
      letter == v.poll.letters[v.poll.uid + 1] IN
  /\ Doing(w, {"store"}) /\ ~Known(v.poll)
  /\ chat' = [chat EXCEPT ![v.m] = ChatRow(letter, v.mine, v.begun, "received")]
  /\ photo' = [photo EXCEPT ![v.m] = IF v.picture THEN "live" ELSE "none"]
  /\ receipts' = receipts \cup {Receipt(v.poll, letter)}
  /\ Continue(w, IF v.mine /\ v.picture
                 THEN [op |-> "sweep", m |-> v.m, then |-> Handled(v.poll)] ELSE Handled(v.poll))
  /\ UNCHANGED <<edits, mailbox, mark, files, processRows, whatsAppRows, mishap>>

\* a unique index refuses: another poll was faster, the picture is discarded
LetterRefused(w) ==
  /\ Doing(w, {"store"}) /\ Known(visit[w].poll)
  /\ Continue(w, Handled(visit[w].poll))
  /\ \/ files' = files \ {visit[w].m} /\ UNCHANGED mishap
     \/ visit[w].m \in files /\ mishap' = mishap \cup {"storage"} /\ UNCHANGED files
  /\ UNCHANGED <<edits, inboxRows, chat, photo, processRows, whatsAppRows>>

\* only now the mailbox is read up to here
MarkMoved(w) ==
  /\ Doing(w, {"handled"})
  /\ mark' = [mark EXCEPT !.last = visit[w].uid + 1]
  /\ Continue(w, [visit[w] EXCEPT !.op = "read", !.uid = @ + 1])
  /\ UNCHANGED <<edits, mailbox, receipts, chat, processRows, photoRows, whatsAppRows, mishap>>

PollEnds(w) ==
  /\ Doing(w, {"read"}) /\ ~More(w) /\ End(w)
  /\ UNCHANGED <<edits, inboxRows, chat, processRows, photoRows, whatsAppRows, mishap>>

-----------------------------------------------------------------------------
(* Deleting pictures: the file first, then the row                           *)

Live(m) == photo[m] = "live"
Deletes(S, then) == [op |-> "delete", m |-> None, todo |-> S, failed |-> FALSE, then |-> then]

FileDeleted(w) ==
  /\ Doing(w, {"delete"})
  /\ \E m \in visit[w].todo :
       \/ /\ files' = files \ {m} /\ UNCHANGED mishap
          /\ Continue(w, [visit[w] EXCEPT !.op = "gone", !.todo = @ \ {m}, !.m = m])
       \/ /\ m \in files /\ mishap' = mishap \cup {"storage"} /\ UNCHANGED files
          /\ Continue(w, [visit[w] EXCEPT !.todo = @ \ {m}, !.failed = TRUE])
  /\ UNCHANGED <<edits, inboxRows, chat, photo, processRows, whatsAppRows>>

PhotoGone(w) ==
  /\ Doing(w, {"gone"})
  /\ photo' = [photo EXCEPT ![visit[w].m] = "gone"]
  /\ Continue(w, [visit[w] EXCEPT !.op = "delete"])
  /\ UNCHANGED <<edits, inboxRows, chat, files, processRows, whatsAppRows, mishap>>

\* the caller of the deletion goes on; "mend": its failures make the job fail
DeleteEnds(w) ==
  LET v == visit[w]
      well == v.then.op = "mend" /\ ~v.failed IN
  /\ Doing(w, {"delete"}) /\ v.todo = {}
  /\ Continue(w, IF v.then.op = "mend" THEN NoVisit ELSE v.then)
  /\ closing' = IF well THEN {j \in closing : j.at # v.then.at} ELSE closing
  /\ cleared' = IF well THEN cleared \cup {v.then.at} ELSE cleared
  /\ UNCHANGED <<edits, dossier, moment, inboxRows, chat, photoRows, whatsAppRows, mishap>>

\* the process of the message is closed, seen by the statement that selects
StillClosed(m) == Mine(m) /\ IsClosed

\* deletePhotosIfProcessTerminal after an assignment
Swept(w) ==
  /\ Doing(w, {"sweep"})
  /\ LET S == {m \in {visit[w].m} : Live(m) /\ StillClosed(m)} IN
     Continue(w, IF S = {} THEN visit[w].then ELSE Deletes(S, visit[w].then))
  /\ UNCHANGED <<edits, inboxRows, chat, processRows, photoRows, whatsAppRows, mishap>>

-----------------------------------------------------------------------------
(* WhatsApp                                                                  *)

\* the webhook brings a message, perhaps again: event and message in one
\* transaction, after it the job for the picture
MessageHooked(w, x) ==
  /\ Edit
  /\ \/ \E m \in Msg, matched \in BOOLEAN :
          /\ hook[x] = None /\ Fresh(m)
          /\ chat' = [chat EXCEPT ![m] = ChatRow(x, matched, moment, "received")]
          /\ hook' = [hook EXCEPT ![x] = m]
          /\ Begin(w, [op |-> "picture", m |-> m])
     \/ hook[x] \in Msg /\ Begin(w, [op |-> "picture", m |-> hook[x]]) /\ UNCHANGED <<chat, hook>>
     \/ hook[x] = "hashed" /\ UNCHANGED <<visit, chat, hook>>
  /\ UNCHANGED <<inboxRows, processRows, photoRows, heard, media, sending, handed, mishap>>

PictureWanted(w) ==
  /\ Doing(w, {"picture"}) /\ End(w)
  /\ media' = [media EXCEPT ![visit[w].m] = IF @ = NeverAsked THEN JobTries ELSE @]
  /\ UNCHANGED <<edits, inboxRows, chat, processRows, photoRows, hook, heard, sending, handed, mishap>>

\* mutant: only the status of the process is asked
BlockedWhileClosed(m) == Mine(m) /\ IsClosed

\* mediaFetchBlocked: scrubbed, of a closed phase, or of a closed process
Blocked(m) == chat[m].scrubbed \/ chat[m].anchor # 0 \/ (Mine(m) /\ IsClosed)

MediaOps == {"fetch", "register", "discard", "done"}

\* the run has ended well; before that a crash makes the job run again
JobDone(w) ==
  LET Over(left) == [left EXCEPT ![visit[w].m] = IF @ > 0 THEN 0 ELSE @] IN
  /\ Doing(w, {"done"}) /\ End(w)
  /\ media' = Over(media) /\ sending' = Over(sending)
  /\ UNCHANGED <<edits, inboxRows, chat, processRows, photoRows, hook, heard, handed, mishap>>

MediaBegins(w, m) ==
  /\ media[m] > 0 /\ ~InHand(m, MediaOps)
  /\ IF photo[m] # "none"
     THEN media' = [media EXCEPT ![m] = 0] /\ UNCHANGED visit
     ELSE /\ media' = [media EXCEPT ![m] = @ - 1]
          /\ Begin(w, [op |-> IF Blocked(m) THEN "discard" ELSE "fetch", m |-> m])
  /\ UNCHANGED <<edits, inboxRows, chat, processRows, photoRows, hook, heard, sending, handed, mishap>>

\* the picture is there and stored; or the provider refuses it for now or for good
MediaFetched(w) ==
  LET m == visit[w].m IN
  /\ Doing(w, {"fetch"})
  /\ \/ files' = files \cup {m} /\ Continue(w, [op |-> "register", m |-> m]) /\ UNCHANGED media
     \/ UNCHANGED <<files, media>> /\ End(w)
     \/ media' = [media EXCEPT ![m] = 0] /\ End(w) /\ UNCHANGED files
  /\ UNCHANGED <<edits, inboxRows, chat, photo, processRows, hook, heard, sending, handed, mishap>>

\* asked again under the lock of the message
MediaRegistered(w) ==
  LET m == visit[w].m IN
  /\ Doing(w, {"register"})
  /\ IF Blocked(m)
     THEN Continue(w, [op |-> "discard", m |-> m]) /\ UNCHANGED photo
     ELSE Continue(w, [op |-> "done", m |-> m]) /\ photo' = [photo EXCEPT ![m] = "live"]
  /\ UNCHANGED <<edits, inboxRows, chat, files, processRows, whatsAppRows, mishap>>

\* a file without a row is found by its key; if it stays the job is repeated
MediaDiscarded(w) ==
  LET m == visit[w].m IN
  /\ Doing(w, {"discard"}) /\ End(w)
  /\ \/ files' = files \ {m} /\ media' = [media EXCEPT ![m] = 0] /\ UNCHANGED mishap
     \/ m \in files /\ mishap' = mishap \cup {"storage"} /\ UNCHANGED <<files, media>>
  /\ UNCHANGED <<edits, inboxRows, chat, photo, processRows, hook, heard, sending, handed>>

\* an answer to the last WhatsApp message of the process: the row, then the job
ReplyWhatsApp(w) ==
  /\ Edit
  /\ \E m, last \in Msg :
       /\ Mine(last) /\ chat[last].from \in Wam /\ ~chat[last].scrubbed /\ ~chat[last].aged
       /\ Fresh(m) /\ chat' = [chat EXCEPT ![m] = ChatRow("staff", TRUE, moment, "queued")]
       /\ Begin(w, [op |-> "enqueue", m |-> m])
  /\ UNCHANGED <<inboxRows, processRows, photoRows, whatsAppRows, mishap>>

SendEnqueued(w) ==
  /\ Doing(w, {"enqueue"}) /\ End(w)
  /\ sending' = [sending EXCEPT ![visit[w].m] = JobTries]
  /\ UNCHANGED <<edits, inboxRows, chat, processRows, photoRows, hook, heard, media, handed, mishap>>

Unsent(m) == chat[m].state = "queued"
FailedIfQueued(m) == [chat EXCEPT ![m].state = IF @ = "queued" THEN "failed" ELSE @]

\* (what is not to be sent is marked by a statement that asks for "queued" once more)
SendBegins(w, m) ==
  /\ sending[m] > 0 /\ ~InHand(m, {"send", "sent", "done"})
  /\ IF Unsent(m) /\ ~chat[m].scrubbed
     THEN /\ Begin(w, [op |-> "send", m |-> m])
          /\ sending' = [sending EXCEPT ![m] = @ - 1] /\ UNCHANGED chat
     ELSE /\ sending' = [sending EXCEPT ![m] = 0] /\ chat' = FailedIfQueued(m) /\ UNCHANGED visit
  /\ UNCHANGED <<edits, inboxRows, processRows, photoRows, hook, heard, media, handed, mishap>>

Took(m, yes) == handed' = IF yes THEN [handed EXCEPT ![m] = @ + 1] ELSE handed

\* the answers of the provider after which the job is repeated
Retries(outcome) == outcome = "transient"

\* the provider takes the answer; refuses it, or sends no id with its yes; has
\* no time; is silent, and may have taken it
SendAnswered(w) ==
  LET m == visit[w].m IN
  /\ Doing(w, {"send"})
  /\ \E outcome \in {"accepted", "permanent", "transient", "unknown"}, yes \in BOOLEAN :
       /\ (outcome = "accepted" => yes) /\ (outcome = "transient" => ~yes)
       /\ Took(m, yes)
       /\ CASE outcome = "accepted" ->
                 Continue(w, [op |-> "sent", m |-> m]) /\ UNCHANGED <<chat, sending>>
            [] Retries(outcome) /\ sending[m] > 0 -> End(w) /\ UNCHANGED <<chat, sending>>
            [] OTHER ->
                 End(w) /\ chat' = FailedIfQueued(m) /\ sending' = [sending EXCEPT ![m] = 0]
  /\ UNCHANGED <<edits, inboxRows, processRows, photoRows, hook, heard, media, mishap>>

\* sent, and from now on known by the id of the provider
SendRecorded(w) ==
  LET m == visit[w].m IN
  /\ Doing(w, {"sent"}) /\ Continue(w, [op |-> "done", m |-> m])
  /\ chat' = IF Unsent(m) THEN [chat EXCEPT ![m].state = "sent", ![m].known = TRUE] ELSE chat
  /\ UNCHANGED <<edits, inboxRows, processRows, photoRows, whatsAppRows, mishap>>

\* a status only leads forward; failed is the last one
LeadsOn(state, status) ==
  \/ status = "failed"
  \/ state # "failed" /\ Rank[status] > Rank[state]

\* the webhook brings a status of an answer, in any order, each one counts once; the answer
\* is read without a lock, perhaps while another of its statuses is on its way (crossed)
OnTheWay(m) == {e \in heard : e.m = m /\ e.saw # "written"}
StatusRead(m, status) ==
  /\ handed[m] > 0 /\ ~\E e \in heard : e.m = m /\ e.status = status
  /\ Cardinality({e \in heard : e.m = m}) < MaxHeard
  /\ heard' = (heard \ OnTheWay(m)) \cup {[e EXCEPT !.crossed = TRUE] : e \in OnTheWay(m)}
                \cup {[m |-> m, status |-> status, found |-> chat[m].known, saw |-> chat[m].state,
                       crossed |-> OnTheWay(m) # {}]}
  /\ UNCHANGED <<visit, edits, inboxRows, chat, processRows, photoRows, hook, media, sending, handed, mishap>>

\* and written by its id alone, by what was read
StatusWritten(e) ==
  /\ e.saw # "written"
  /\ heard' = (heard \ {e}) \cup {[e EXCEPT !.saw = "written"]}
  /\ chat' = IF e.found /\ LeadsOn(e.saw, e.status)
             THEN [chat EXCEPT ![e.m].state = e.status] ELSE chat
  /\ UNCHANGED <<visit, edits, inboxRows, processRows, photoRows, hook, media, sending, handed, mishap>>

-----------------------------------------------------------------------------
(* What the staff does                                                       *)

\* an answer by mail, with its row of the outbox in one transaction
ReplyByEmail(w) ==
  /\ Edit
  /\ \E m \in Msg, state \in {"queued", "blocked"} :
       Fresh(m) /\ chat' = [chat EXCEPT ![m] = ChatRow("desk", TRUE, moment, state)]
  /\ UNCHANGED <<visit, inboxRows, processRows, photoRows, whatsAppRows, mishap>>

\* an answer in the portal, only while the customer can see it there
ReplyByPortal(w) ==
  /\ Edit /\ ~IsClosed
  /\ \E m \in Msg : Fresh(m) /\ chat' = [chat EXCEPT ![m] = ChatRow("portal", TRUE, moment, "sent")]
  /\ UNCHANGED <<visit, inboxRows, processRows, photoRows, whatsAppRows, mishap>>

\* the outbox tells what became of the mail, an unclear end leaves it queued
DeliveryMirrored(m) ==
  /\ Present(m) /\ chat[m].from = "desk" /\ chat[m].state # "sent"
  /\ \E state \in {"sent", "failed", "blocked"} \ {chat[m].state} :
       chat' = [chat EXCEPT ![m].state = state]
  /\ Edit
  /\ UNCHANGED <<visit, inboxRows, processRows, photoRows, whatsAppRows, mishap>>

Unmatched(m) == Present(m) /\ Inbound(m) /\ ~chat[m].scrubbed /\ ~chat[m].mine /\ ~chat[m].ignored

AssignUnmatched(w, m) ==
  /\ Edit /\ Unmatched(m)
  /\ chat' = [chat EXCEPT ![m].mine = TRUE, ![m].joined = moment, ![m].late = IsClosed]
  /\ IF IsClosed THEN Begin(w, [op |-> "sweep", m |-> m, then |-> NoVisit]) ELSE UNCHANGED visit
  /\ UNCHANGED <<inboxRows, processRows, photoRows, whatsAppRows, mishap>>

IgnoreUnmatched(m) ==
  /\ Edit /\ Unmatched(m)
  /\ chat' = [chat EXCEPT ![m].ignored = TRUE]
  /\ UNCHANGED <<visit, inboxRows, processRows, photoRows, whatsAppRows, mishap>>

\* completed or cancelled; the job that cleans up is queued after the commit
ProcessCloses(w) ==
  /\ Edit /\ ~IsClosed /\ moment <= MaxMoment
  /\ dossier' = moment /\ moment' = moment + 1
  /\ Begin(w, [op |-> "closed", at |-> moment])
  /\ UNCHANGED <<inboxRows, chat, closing, cleared, photoRows, whatsAppRows, mishap>>

ClosingTold(w) ==
  /\ Doing(w, {"closed"}) /\ End(w)
  /\ closing' = closing \cup {[at |-> visit[w].at, left |-> JobTries]}
  /\ UNCHANGED <<edits, dossier, moment, cleared, inboxRows, chat, photoRows, whatsAppRows, mishap>>

ProcessReopens ==
  /\ Edit /\ IsClosed /\ dossier' = 0
  /\ UNCHANGED <<visit, moment, closing, cleared, inboxRows, chat, photoRows, whatsAppRows, mishap>>

-----------------------------------------------------------------------------
(* Retention                                                                 *)

Stamped(S, at) ==
  [m \in Msg |-> IF m \in S /\ chat[m].anchor = 0 THEN [chat[m] EXCEPT !.anchor = at] ELSE chat[m]]

\* belonged to the process when it was closed
JoinedBy(m, at) == Mine(m) /\ chat[m].joined <= at

\* runTerminalCleanup: anchors for what was there at the closing ...
CleanupBegins(w) ==
  /\ \E j \in closing :
       /\ j.left > 0 /\ \A u \in Clerk : ~(Doing(u, {"clean", "delete", "gone"}) /\ visit[u].then = [op |-> "mend", at |-> j.at])
       /\ closing' = (closing \ {j}) \cup {[j EXCEPT !.left = @ - 1]}
       /\ chat' = Stamped({m \in Msg : JoinedBy(m, j.at)}, j.at)
       /\ Begin(w, [op |-> "clean", then |-> [op |-> "mend", at |-> j.at]])
  /\ UNCHANGED <<edits, dossier, moment, cleared, inboxRows, photoRows, whatsAppRows, mishap>>

\* ... and the pictures of the same messages, whatever the process is by now
CleanupSelected(w) ==
  LET then == visit[w].then IN
  /\ Doing(w, {"clean"})
  /\ Continue(w, Deletes({m \in Msg : Live(m) /\ JoinedBy(m, then.at)}, then))
  /\ UNCHANGED <<edits, inboxRows, chat, processRows, photoRows, whatsAppRows, mishap>>

\* the backstop every two minutes, over processes that are closed right now
\* (bound: while there is something for it to do)
BackstopBegins(w) ==
  /\ IsClosed /\ \E m \in Msg : Mine(m) /\ (Live(m) \/ chat[m].anchor = 0)
  /\ chat' = Stamped({m \in Msg : StillClosed(m)}, dossier)
  /\ Begin(w, [op |-> "backstop"])
  /\ UNCHANGED <<edits, inboxRows, processRows, photoRows, whatsAppRows, mishap>>

BackstopSelected(w) ==
  /\ Doing(w, {"backstop"})
  /\ LET S == {m \in Msg : Live(m) /\ StillClosed(m)} IN
     Continue(w, IF S = {} THEN NoVisit ELSE Deletes(S, NoVisit))
  /\ UNCHANGED <<edits, inboxRows, chat, processRows, photoRows, whatsAppRows, mishap>>

\* the periods of 90 days and of 12 months end for what is there
PeriodsEnd ==
  /\ Edit
  /\ chat' = [m \in Msg |-> IF Present(m) THEN [chat[m] EXCEPT !.aged = TRUE, !.due = chat[m].anchor # 0] ELSE chat[m]]
  /\ UNCHANGED <<visit, inboxRows, processRows, photoRows, whatsAppRows, mishap>>

Scrubbed(S) ==
  [m \in Msg |-> IF m \in S THEN [chat[m] EXCEPT !.scrubbed = TRUE, !.known = FALSE] ELSE chat[m]]

\* purgeExpiredChatText: texts and names of a phase that is long closed
TextsPurged ==
  LET S == {m \in Msg : Present(m) /\ chat[m].due /\ ~chat[m].scrubbed} IN
  /\ S # {} /\ chat' = Scrubbed(S)
  /\ UNCHANGED <<visit, edits, inboxRows, processRows, photoRows, whatsAppRows, mishap>>

\* old and, in the statement itself, still of no process
LongUnmatched(m) == Present(m) /\ chat[m].aged /\ ~chat[m].mine

\* purgeUnmatched: the pictures first, then the texts
UnmatchedPurged(w) ==
  LET S == {m \in Msg : LongUnmatched(m) /\ Live(m)}
      T == {m \in Msg : LongUnmatched(m) /\ ~chat[m].scrubbed} IN
  \/ /\ S # {} /\ Begin(w, Deletes(S, NoVisit))
     /\ UNCHANGED <<edits, inboxRows, chat, processRows, photoRows, whatsAppRows, mishap>>
  \/ /\ T # {} /\ chat' = Scrubbed(T)
     /\ UNCHANGED <<visit, edits, inboxRows, processRows, photoRows, whatsAppRows, mishap>>

\* purgeWhatsAppTechnical: the ids of old events are hashed, not forgotten
HooksHashed ==
  /\ \E x \in Wam : hook[x] \in Msg /\ chat[hook[x]].aged /\ hook' = [hook EXCEPT ![x] = "hashed"]
  /\ UNCHANGED <<visit, edits, inboxRows, chat, processRows, photoRows, heard, media, sending, handed, mishap>>

\* an error that is thrown, or the end of the process that runs it
BreaksOff(w) ==
  /\ Edit /\ visit[w] # NoVisit /\ End(w)
  /\ mishap' = mishap \cup {"crash"}
  /\ UNCHANGED <<inboxRows, chat, processRows, photoRows, whatsAppRows>>

ChatNext ==
  \/ \E w \in Clerk :
       \/ PollBegins(w) \/ PollFetched(w) \/ LetterPassed(w) \/ LetterPrepared(w) \/ LetterStored(w)
       \/ LetterRefused(w) \/ MarkMoved(w) \/ PollEnds(w)
       \/ FileDeleted(w) \/ PhotoGone(w) \/ DeleteEnds(w) \/ Swept(w)
       \/ PictureWanted(w) \/ MediaFetched(w) \/ MediaRegistered(w) \/ MediaDiscarded(w) \/ JobDone(w)
       \/ ReplyWhatsApp(w) \/ SendEnqueued(w) \/ SendAnswered(w) \/ SendRecorded(w)
       \/ ReplyByEmail(w) \/ ReplyByPortal(w) \/ ProcessCloses(w) \/ ClosingTold(w)
       \/ CleanupBegins(w) \/ CleanupSelected(w) \/ BackstopBegins(w) \/ BackstopSelected(w)
       \/ UnmatchedPurged(w) \/ BreaksOff(w)
       \/ \E x \in Wam : MessageHooked(w, x)
       \/ \E m \in Msg : MediaBegins(w, m) \/ SendBegins(w, m) \/ AssignUnmatched(w, m)
  \/ \E l \in Letter : LetterArrives(l)
  \/ \E m \in Msg : DeliveryMirrored(m) \/ IgnoreUnmatched(m)
  \/ \E m \in Msg, status \in {"delivered", "read", "failed"} : StatusRead(m, status)
  \/ \E e \in heard : StatusWritten(e)
  \/ Rebuilt \/ ProcessReopens \/ PeriodsEnd \/ TextsPurged \/ HooksHashed

ChatSpec == ChatInit /\ [][ChatNext]_chatVars

-----------------------------------------------------------------------------
(* Properties                                                                *)

(* A letter or WhatsApp message becomes one message, however often it is     *)
(* read again after a crash, a rebuilt mailbox or a repeated webhook.        *)
StoredOnce ==
  \A a, b \in Msg : Present(a) /\ Present(b) /\ Inbound(a) /\ chat[a].from = chat[b].from => a = b

(* No letter is passed over: up to where the mailbox is read, each has a     *)
(* receipt, whatever polls overlapped or broke off (unless the mailbox was   *)
(* rebuilt under a poll).                                                    *)
NothingPassedOver ==
  "rebuilt" \notin mishap /\ mark.validity = mailbox.validity =>
    \A u \in 1..mark.last : \E r \in receipts :
      r.letter = mailbox.letters[u] \/ (r.validity = mark.validity /\ r.uid = u)

(* A picture that counts as deleted is gone from the storage for good: no    *)
(* late job stores it again.                                                 *)
GoneIsGone == \A m \in Msg : photo[m] = "gone" => m \notin files

(* Pictures are only deleted of a message that joined the process before a   *)
(* closing or while it was closed, or that nobody assigned for 90 days: what *)
(* came after a reopening stays.                                             *)
KeptWhileOpen ==
  \A m \in Msg : photo[m] = "gone" \/ (Live(m) /\ m \notin files) =>
    chat[m].late \/ chat[m].joined < moment \/ chat[m].aged

(* When the cleaning job of a closing has done its work, no picture of a     *)
(* WhatsApp message of that phase is left or comes back, though the process  *)
(* may be open again and a download was under way.                           *)
PhaseIsCleared ==
  \A m \in Msg : Live(m) /\ chat[m].from \in Wam /\ chat[m].anchor \in cleared => chat[m].joined > chat[m].anchor

(* Without a crash and a failing storage no file is left that no row knows.  *)
NoFileLost ==
  mishap \subseteq {"rebuilt"} => \A m \in files : Live(m) \/ media[m] > 0 \/ InHand(m, {"store", "gone"} \cup MediaOps)

(* The provider gets an answer twice only if a run broke off.                *)
AnsweredOnce == \A m \in Msg : handed[m] > 1 => "crash" \in mishap

(* Statuses that found their answer have left it at least as far as they say, *)
(* in whatever order they came, whatever is on its way since: unless one came *)
(* while another of the same answer was on its way.                          *)
AsFar(state, status) == state = "failed" \/ (status # "failed" /\ Rank[state] >= Rank[status])
StatusStays ==
  \A e \in heard : e.found /\ e.saw = "written" /\ ~e.crossed => AsFar(chat[e.m].state, e.status)

(* What the conversation promises while mails, webhooks, jobs and retention  *)
(* overlap: nothing twice, nothing passed over, pictures deleted when and    *)
(* only when their phase is closed, answers and their statuses kept straight.*)
ChatSafety ==
  /\ StoredOnce /\ NothingPassedOver /\ GoneIsGone /\ KeptWhileOpen /\ PhaseIsCleared
  /\ NoFileLost /\ AnsweredOnce /\ StatusStays

(* The shape of the state.                                                   *)
ChatTypeOK ==
  /\ moment \in 1..(MaxMoment + 1)
  /\ files \subseteq Msg
  /\ photo \in [Msg -> {"none", "live", "gone"}]
  /\ media \in [Msg -> NeverAsked..JobTries] /\ sending \in [Msg -> NeverAsked..JobTries]
=============================================================================
