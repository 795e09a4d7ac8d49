----------------------------- MODULE LexwareLink -----------------------------
(***************************************************************************)
(* The connection to Lexware: whose organisation the API key belongs to,   *)
(* which organisation is pinned, and the event subscriptions at Lexware    *)
(* with the own ones remembered in lexware_integration_state.  Every check *)
(* and every setup reads, asks Lexware and writes in statements of its own.*)
(***************************************************************************)
EXTENDS Actors

CONSTANTS Organisation,
          Url,         \* callback URLs
          MaxSubs      \* bound: subscriptions ever made
ASSUME LinkAssumption == MaxSubs \in Nat

VARIABLES
    owner,        \* the organisation of the API key
    callback,     \* webhookCallbackUrl, None when not configured
    link,         \* status, organizationId, pendingOrganizationId
    subs,         \* subscriptions at Lexware, by number: topic, URL, made by us
    remembered,   \* lexware_integration_state: own subscriptions, webhook status
    confirmed     \* organisations seen before one was pinned, or confirmed (history)

linkVars == <<owner, callback, link, subs, remembered, confirmed, visit, edits>>

NeededTopics == {"invoice", "payment"}
Retired == {"token.revoked"}
Gone == [topic |-> None, url |-> None, own |-> FALSE]

LinkInit ==
    /\ owner \in Organisation /\ callback \in Url
    /\ link = [status |-> "not_configured", org |-> None, pending |-> None]
    /\ subs = <<[topic |-> "invoice", url |-> "elsewhere", own |-> FALSE],
                [topic |-> "token.revoked", url |-> callback, own |-> TRUE]>>
    /\ remembered = [ids |-> {2}, status |-> None]
    /\ confirmed = {}
    /\ ActorsInit

KeyExchanged(o) == /\ Edit /\ o # owner /\ owner' = o
                   /\ UNCHANGED <<callback, link, subs, remembered, confirmed, visit>>

(* The configuration is read at the start of a process.                    *)
Reconfigured(u) == /\ Edit /\ u # callback /\ callback' = u
                   /\ visit' = [w \in Clerk |-> NoVisit]
                   /\ UNCHANGED <<owner, link, subs, remembered, confirmed>>
-----------------------------------------------------------------------------
(* check: the profile, then the row, then one upsert.                      *)
CheckProfile(w) ==
    /\ Edit
    /\ \/ Begin(w, [op |-> "check", at |-> "state", org |-> owner]) /\ UNCHANGED link
       \/ \E s \in {"disconnected", "error"} : link' = [link EXCEPT !.status = s] /\ UNCHANGED visit
    /\ UNCHANGED <<owner, callback, subs, remembered, confirmed>>

CheckState(w) ==
    /\ visit[w].op = "check" /\ visit[w].at = "state"
    /\ visit' = [visit EXCEPT ![w] = [op |-> "check", at |-> "write", org |-> @.org,
                                      previous |-> link.org]]
    /\ confirmed' = IF link.org = None THEN confirmed \cup {visit[w].org} ELSE confirmed
    /\ UNCHANGED <<owner, callback, link, subs, remembered, edits>>

\* mutant: what the check finds is pinned at once
PinnedAtOnce(w) == visit[w].org
Pinned(w) == IF visit[w].previous = None THEN visit[w].org ELSE visit[w].previous

CheckWrites(w) ==
    /\ visit[w].op = "check" /\ visit[w].at = "write"
    /\ link' \in IF visit[w].previous \notin {None, visit[w].org}
                 THEN {[status |-> "organization_mismatch", org |-> Pinned(w),
                        pending |-> visit[w].org]}
                 ELSE {[status |-> s, org |-> visit[w].org, pending |-> None] :
                           s \in {"connected", "incomplete"}}   \* feature missing
    /\ End(w)
    /\ UNCHANGED <<owner, callback, subs, remembered, confirmed, edits>>

(* An administrator confirms the organisation that was reported last.      *)
ConfirmOrganization(w, o) ==
    /\ Edit /\ link.pending = o
    /\ link' = [link EXCEPT !.org = o, !.pending = None]
    /\ confirmed' = confirmed \cup {o}
    /\ Begin(w, [op |-> "check", at |-> "state", org |-> owner])
    /\ UNCHANGED <<owner, callback, subs, remembered>>

MarkDisconnected == link' = [link EXCEPT !.status = "disconnected"]
-----------------------------------------------------------------------------
(* setup: the own ids, the list at Lexware, one topic after the other, and *)
(* at the end what is remembered.                                          *)
SetupStarts(w) ==
    /\ Edit
    /\ IF callback = None
       THEN remembered' = [remembered EXCEPT !.status = "incomplete"] /\ UNCHANGED visit
       ELSE /\ Begin(w, [op |-> "setup", at |-> "list", url |-> callback, own |-> remembered.ids])
            /\ UNCHANGED remembered
    /\ UNCHANGED <<owner, callback, link, subs, confirmed>>

SetupLists(w) ==
    /\ visit[w].op = "setup" /\ visit[w].at = "list"
    /\ visit' = [visit EXCEPT ![w] = [op |-> "setup", at |-> "topics", url |-> @.url,
                    own |-> @.own, seen |-> subs, left |-> Retired \cup NeededTopics,
                    result |-> {}, failed |-> FALSE]]
    /\ UNCHANGED <<owner, callback, link, subs, remembered, confirmed, edits>>

With(t, u) == {k \in DOMAIN subs : subs[k].topic = t /\ subs[k].url = u}
OwnOnes(w, t) == {k \in DOMAIN visit[w].seen : visit[w].seen[k].topic = t /\ k \in visit[w].own}
Stale(w, t) == {k \in OwnOnes(w, t) : visit[w].seen[k].url # visit[w].url}
Match(w, t) == {k \in DOMAIN visit[w].seen :
                   visit[w].seen[k].topic = t /\ visit[w].seen[k].url = visit[w].url}
Without(S) == [k \in DOMAIN subs |-> IF k \in S THEN Gone ELSE subs[k]]

TopicDone(w, t, result, failed) ==
    visit' = [visit EXCEPT ![w].left = @ \ {t}, ![w].result = @ \cup result,
                           ![w].failed = @ \/ failed]

SetupTopic(w, t) ==
    /\ visit[w].op = "setup" /\ visit[w].at = "topics" /\ t \in visit[w].left
    /\ t \in NeededTopics => visit[w].left \cap Retired = {}
    /\ \/ /\ t \in Retired /\ subs' = Without(OwnOnes(w, t)) /\ TopicDone(w, t, {}, FALSE)
       \/ /\ t \in NeededTopics /\ Match(w, t) # {}
          /\ TopicDone(w, t, {Min(Match(w, t))}, FALSE) /\ UNCHANGED subs
       \/ /\ t \in NeededTopics /\ Match(w, t) = {}
          /\ IF With(t, visit[w].url) = {}
             THEN /\ Len(subs) < MaxSubs
                  /\ subs' = Append(Without(Stale(w, t)),
                                    [topic |-> t, url |-> visit[w].url, own |-> TRUE])
                  /\ TopicDone(w, t, {Len(subs) + 1}, FALSE)
             ELSE /\ subs' = Without(Stale(w, t))          \* conflict: read again
                  /\ TopicDone(w, t, {Min(With(t, visit[w].url))}, FALSE)
    /\ UNCHANGED <<owner, callback, link, remembered, confirmed, edits>>

(* A deletion, or the creation after it, fails; the next topic follows.    *)
SetupTopicFails(w, t) ==
    /\ Edit
    /\ visit[w].op = "setup" /\ visit[w].at = "topics" /\ t \in visit[w].left
    /\ t \in NeededTopics => visit[w].left \cap Retired = {} /\ Match(w, t) = {}
    /\ subs' \in {subs, Without(IF t \in NeededTopics THEN Stale(w, t) ELSE {})}
    /\ TopicDone(w, t, {}, TRUE)
    /\ UNCHANGED <<owner, callback, link, remembered, confirmed>>

(* 401 ends the setup before it remembers anything.                        *)
SetupUnauthorized(w) ==
    /\ Edit /\ visit[w].op = "setup" /\ End(w)
    /\ MarkDisconnected
    /\ remembered' = [remembered EXCEPT !.status = "error"]
    /\ UNCHANGED <<owner, callback, subs, confirmed>>

SetupEnds(w) ==
    /\ visit[w].op = "setup" /\ visit[w].at = "topics" /\ visit[w].left = {}
    /\ remembered' = [ids |-> visit[w].result,
                      status |-> IF visit[w].failed THEN "incomplete" ELSE "configured"]
    /\ End(w)
    /\ UNCHANGED <<owner, callback, link, subs, confirmed, edits>>

LinkNext ==
    \/ \E o \in Organisation : KeyExchanged(o) \/ \E w \in Clerk : ConfirmOrganization(w, o)
    \/ \E u \in Url \cup {None} : Reconfigured(u)
    \/ \E w \in Clerk :
          \/ CheckProfile(w) \/ CheckState(w) \/ CheckWrites(w)
          \/ SetupStarts(w) \/ SetupLists(w) \/ SetupUnauthorized(w) \/ SetupEnds(w)
          \/ \E t \in NeededTopics \cup Retired : SetupTopic(w, t) \/ SetupTopicFails(w, t)

LinkSpec == LinkInit /\ [][LinkNext]_linkVars
-----------------------------------------------------------------------------
(* The pinned organisation is one that was found while none was pinned, or *)
(* one an administrator confirmed - however checks, confirmations and a    *)
(* change of the key overlap.                                              *)
PinnedKnowingly == link.org \in confirmed \cup {None}
=============================================================================
