---------------------------- MODULE JobContract ----------------------------
(***************************************************************************)
(* What packages/integrations/src/jobs promises to everybody who enqueues  *)
(* a job: at-least-once processing with a bounded number of runs.  A job   *)
(* stays open until it is closed once and for all; it is closed as         *)
(* "succeeded" only if one of its runs came to an end; no more than        *)
(* MaxAttempts[j] runs are ever started, although a run may still be going *)
(* on (or start) after the job was closed: a worker whose lease expired    *)
(* does not know that it is late.                                          *)
(***************************************************************************)
EXTENDS Integers

CONSTANTS Jobs, MaxAttempts

VARIABLES state, starts, completed

vars == <<state, starts, completed>>

Init == /\ state = [j \in Jobs |-> "absent"]
        /\ starts = [j \in Jobs |-> 0]
        /\ completed = [j \in Jobs |-> FALSE]

Submit(j) == /\ state[j] = "absent"
             /\ state' = [state EXCEPT ![j] = "open"]
             /\ UNCHANGED <<starts, completed>>

Start(j) == /\ state[j] # "absent"
            /\ starts[j] < MaxAttempts[j]
            /\ starts' = [starts EXCEPT ![j] = @ + 1]
            /\ UNCHANGED <<state, completed>>

Complete(j) == /\ starts[j] > 0
               /\ completed' = [completed EXCEPT ![j] = TRUE]
               /\ UNCHANGED <<state, starts>>

Succeed(j) == /\ state[j] = "open"
              /\ completed[j]
              /\ state' = [state EXCEPT ![j] = "succeeded"]
              /\ UNCHANGED <<starts, completed>>

(* One sweep over expired leases may give up several jobs at once. *)
GiveUp(S) == /\ \A j \in S : state[j] = "open"
             /\ state' = [j \in Jobs |-> IF j \in S THEN "dead" ELSE state[j]]
             /\ UNCHANGED <<starts, completed>>

Close(j) == Succeed(j) \/ \E S \in SUBSET Jobs : j \in S /\ GiveUp(S)

Next == \/ \E j \in Jobs : Submit(j) \/ Start(j) \/ Complete(j) \/ Succeed(j)
        \/ \E S \in SUBSET Jobs : GiveUp(S)

(* Every open job is closed some day. *)
Fairness == \A j \in Jobs : WF_vars(Close(j))

Spec == Init /\ [][Next]_vars /\ Fairness
=============================================================================
