------------------------------- MODULE Actors -------------------------------
(* What the modules of the single services share: the requests that are     *)
(* served at the same time with what each has read so far, a bound on the   *)
(* number of changes, and the value for "no row", "not set".                *)
EXTENDS Integers, Sequences, FiniteSets, FiniteSetsExt

CONSTANTS Clerk,       \* requests served at the same time
          None,
          Person,      \* names
          MaxEdits     \* bound: changes that are begun
ASSUME ActorsAssumption ==
    Clerk # {} /\ MaxEdits \in Nat /\ None \notin Clerk /\ None \notin Int

VARIABLES
    visit,    \* what each request has read and not yet written
    edits     \* changes that may still be begun

NoVisit == [op |-> "none"]
ActorsInit == visit = [w \in Clerk |-> NoVisit] /\ edits \in 0..MaxEdits

Edit == edits > 0 /\ edits' = edits - 1
Begin(w, rec) == visit[w] = NoVisit /\ visit' = [visit EXCEPT ![w] = rec]
Continue(w, rec) == visit' = [visit EXCEPT ![w] = rec]
End(w) == visit' = [visit EXCEPT ![w] = NoVisit]
=============================================================================
