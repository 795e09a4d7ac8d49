----------------------------- MODULE ContactSync -----------------------------
(***************************************************************************)
(* The contact at Lexware of one customer.  Every decision about the row   *)
(* of lexware_contact_mappings is a short transaction under the customer's *)
(* advisory lock; the requests to Lexware run between them.  A creation is *)
(* claimed in the row first, so that nobody else creates, and an answer    *)
(* that never came is cleared up by the search of the next run.            *)
(***************************************************************************)
EXTENDS Actors

CONSTANT MaxContacts      \* bound: contacts that are created
ASSUME ContactAssumption == MaxContacts \in Nat

VARIABLES
    customer,    \* who the customer is now: a Person, or None: nothing to search by
    card,        \* the mapping: status, contact, claimed by, synchronised as
    contacts,    \* what this system created at Lexware, by number: for whom, still there
    alike,       \* somebody else's contact has a similar name
    excused      \* history: what lets a second contact arise, see OneContact

contactVars == <<customer, card, contacts, alike, excused, visit, edits>>

NoCard == [st |-> "none", contact |-> None, claim |-> None, as |-> None]
Foreign == 0      \* the contact that is only alike

ContactInit ==
    /\ customer \in Person \cup {None}
    /\ card = NoCard
    /\ contacts = <<>>
    /\ alike \in BOOLEAN
    /\ excused = {}
    /\ ActorsInit

At(w, place) == visit[w] # NoVisit /\ visit[w].at = place
Go(w, place) == visit' = [visit EXCEPT ![w].at = place]
Exists(k) == k = Foreign \/ (k \in DOMAIN contacts /\ contacts[k].there)
Excuse(reason, cond) == excused' = IF cond THEN excused \cup {reason} ELSE excused
ClaimActive == card.claim # None
-----------------------------------------------------------------------------
(* resolveForTransfer: what to do is decided under the lock.               *)
Plan(w) == CASE card.st \in {"none", "unknown"} /\ ~ClaimActive -> "claim"
             [] card.st = "linked" /\ card.as # customer -> "update"
             [] OTHER -> "done"

ResolveForTransfer(w) ==
    /\ Edit
    /\ Plan(w) # "done"
    /\ Begin(w, [op |-> "contact", at |-> Plan(w), who |-> customer, contact |-> card.contact,
                 recovering |-> card.st = "unknown", asked |-> FALSE])
    /\ UNCHANGED <<customer, card, contacts, alike, excused>>

MarkReview(w) == card' = [NoCard EXCEPT !.st = "review"] /\ End(w)

(* Without anything to search by, an unanswered creation is not repeated.  *)
\* mutant: somebody else's claim is not looked at
ClaimFree == card.st # "linked"
Claimable == card.st # "linked" /\ ~ClaimActive

ClaimCreate(w) ==
    /\ At(w, "claim")
    /\ IF visit[w].recovering /\ visit[w].who = None THEN MarkReview(w) /\ UNCHANGED excused
       ELSE IF Claimable
       THEN /\ card' = [st |-> "unknown", contact |-> None, claim |-> w, as |-> None]
            /\ Go(w, IF visit[w].asked THEN "create" ELSE "search")
            /\ Excuse("blind", visit[w].who = None /\ card.st # "none")
       ELSE /\ IF card.st = "linked" /\ ~visit[w].asked /\ card.as # visit[w].who
               THEN visit' = [visit EXCEPT ![w].at = "update", ![w].contact = card.contact]
               ELSE End(w)
            /\ UNCHANGED <<card, excused>>
    /\ UNCHANGED <<customer, contacts, alike, edits>>
-----------------------------------------------------------------------------
(* One strong match - same address, same name - is linked; several, or     *)
(* somebody merely alike, go to a human; nobody at all is created.         *)
StrongMatches(w) == {k \in DOMAIN contacts : /\ visit[w].who # None
                                            /\ contacts[k].there /\ contacts[k].as = visit[w].who}

LinkWithin(k) == card' = [st |-> "linked", contact |-> k, claim |-> None, as |-> None]

SearchOrCreate(w) ==
    LET strong == StrongMatches(w) IN
    /\ At(w, "search")
    /\ IF Cardinality(strong) = 1
       THEN \E k \in strong : /\ LinkWithin(k)
                              /\ visit' = [visit EXCEPT ![w].at = "update", ![w].contact = k]
       ELSE IF strong # {} \/ (alike /\ visit[w].who # None) THEN MarkReview(w)
       ELSE Go(w, "create") /\ UNCHANGED card
    /\ UNCHANGED <<customer, contacts, alike, excused, edits>>

ReleaseClaim(w) ==
    /\ card' = IF card.st = "unknown" THEN [card EXCEPT !.claim = None] ELSE card
    /\ End(w)

SearchFails(w) ==
    /\ Edit /\ At(w, "search") /\ ReleaseClaim(w)
    /\ UNCHANGED <<customer, contacts, alike, excused>>
-----------------------------------------------------------------------------
(* create: answered, unanswered (made or not), refused, or answered with   *)
(* something that cannot be read.                                          *)
Outcomes == {[made |-> TRUE, then |-> "store"], [made |-> TRUE, then |-> "release"],
             [made |-> FALSE, then |-> "release"], [made |-> FALSE, then |-> "forget"],
             [made |-> TRUE, then |-> "forget"]}

CreateContact(w) ==
    /\ At(w, "create")
    /\ \E o \in Outcomes :
          /\ o.then # "store" => Edit
          /\ o.then = "store" => UNCHANGED edits
          /\ o.made => Len(contacts) < MaxContacts
          /\ contacts' = IF o.made THEN Append(contacts, [as |-> visit[w].who, there |-> TRUE])
                         ELSE contacts
          /\ Excuse("blind", o.made /\ o.then = "forget" /\ visit[w].who = None)
          /\ visit' = [visit EXCEPT ![w].at = o.then,
                                    ![w].contact = IF o.made THEN Len(contacts) + 1 ELSE None]
    /\ UNCHANGED <<customer, card, alike>>

(* The answer is stored whatever the row has become meanwhile.             *)
CreatedStored(w) ==
    /\ At(w, "store")
    /\ card' = IF card.st = "none" THEN card
               ELSE [st |-> "linked", contact |-> visit[w].contact, claim |-> None,
                     as |-> visit[w].who]
    /\ End(w)
    /\ UNCHANGED <<customer, contacts, alike, excused, edits>>

CreateUnanswered(w) == /\ At(w, "release") /\ ReleaseClaim(w)
                       /\ UNCHANGED <<customer, contacts, alike, excused, edits>>

(* The row is deleted; who still updates its contact has no row any more.  *)
CreateRefused(w) ==
    /\ At(w, "forget") /\ card' = NoCard
    /\ visit' = [v \in Clerk |-> IF v = w THEN NoVisit
                                 ELSE IF At(v, "update") THEN [visit[v] EXCEPT !.at = "adrift"]
                                 ELSE visit[v]]
    /\ UNCHANGED <<customer, contacts, alike, excused, edits>>

(* updateLinked and putContact: the linked contact gets the customer's     *)
(* data; one that no longer exists goes to a human.                        *)
UpdateLinked(w) ==
    LET k == visit[w].contact IN
    /\ At(w, "update") \/ At(w, "adrift")
    /\ card' = IF At(w, "adrift") THEN card
               ELSE IF Exists(k) THEN [card EXCEPT !.as = visit[w].who]
               ELSE [card EXCEPT !.st = "review"]
    /\ contacts' = IF k # Foreign /\ Exists(k)
                   THEN [contacts EXCEPT ![k].as = visit[w].who] ELSE contacts
    /\ End(w)
    /\ UNCHANGED <<customer, alike, excused, edits>>
-----------------------------------------------------------------------------
(* What staff do: link a contact that exists, ask for a new one.           *)
AdminLinks(k) == /\ Edit /\ Exists(k) /\ (k = Foreign => alike)
                 /\ LinkWithin(k)
                 /\ Excuse("linked", ClaimActive)
                 /\ UNCHANGED <<customer, contacts, alike, visit>>

CreateForCustomer(w) ==
    /\ Edit /\ card.st # "linked"
    /\ Begin(w, [op |-> "contact", at |-> "claim", who |-> customer, contact |-> None,
                 recovering |-> FALSE, asked |-> TRUE])
    /\ excused' = excused \cup {"asked"}
    /\ UNCHANGED <<customer, card, contacts, alike>>

(* The customer's data change; a contact is deleted at Lexware.            *)
CustomerChanged(p) ==
    /\ Edit /\ p # customer
    /\ customer' = p
    /\ Excuse("renamed", card.st # "linked" \/ \E w \in Clerk : visit[w] # NoVisit)
    /\ UNCHANGED <<card, contacts, alike, visit>>

ContactVanishes(k) == /\ Edit /\ k # Foreign /\ Exists(k)
                      /\ contacts' = [contacts EXCEPT ![k].there = FALSE]
                      /\ UNCHANGED <<customer, card, alike, excused, visit>>

(* The process dies, and its claim runs out: a request ends well within    *)
(* CONTACT_CREATE_CLAIM_MS.                                                *)
ContactWorkerDies(w) == /\ Edit /\ visit[w] # NoVisit /\ End(w)
                        /\ UNCHANGED <<customer, card, contacts, alike, excused>>
ClaimExpires == /\ ClaimActive /\ visit[card.claim] = NoVisit
                /\ card' = [card EXCEPT !.claim = None]
                /\ UNCHANGED <<customer, contacts, alike, excused, visit, edits>>

ContactNext ==
    \/ \E w \in Clerk :
          \/ ResolveForTransfer(w) \/ ClaimCreate(w) \/ SearchOrCreate(w) \/ SearchFails(w)
          \/ CreateContact(w) \/ CreatedStored(w) \/ CreateUnanswered(w) \/ CreateRefused(w)
          \/ UpdateLinked(w) \/ CreateForCustomer(w) \/ ContactWorkerDies(w)
    \/ \E k \in 0 .. Len(contacts) : AdminLinks(k) \/ ContactVanishes(k)
    \/ \E p \in Person \cup {None} : CustomerChanged(p)
    \/ ClaimExpires

ContactSpec == ContactInit /\ [][ContactNext]_contactVars
-----------------------------------------------------------------------------
TwoContacts == Cardinality({k \in DOMAIN contacts : contacts[k].there}) > 1

(* However often the answer to a creation is lost, unreadable or cut short *)
(* by a crash, and however many runs overlap, the customer has one contact *)
(* - unless the customer became somebody else before there was one         *)
(* ("renamed"), staff asked for a new one ("asked") or linked one while a  *)
(* run held the claim ("linked"), or nobody can be searched for and a run  *)
(* did not learn of the creation before: it had planned earlier, or the    *)
(* row was deleted after an unreadable answer ("blind").                   *)
OneContact == TwoContacts => excused # {}
=============================================================================
