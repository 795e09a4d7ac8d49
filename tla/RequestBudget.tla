---------------------------- MODULE RequestBudget ----------------------------
(***************************************************************************)
(* The daily limit of requests to Google, shared by all processes through  *)
(* one row of integration_rate_limits: a token bucket whose pointer is the *)
(* next free slot.  Reserving, and pausing after the budget is used up,    *)
(* are two statements; the database's clock of a reservation is the start  *)
(* of its transaction, which may wait for the row.                         *)
(***************************************************************************)
EXTENDS Actors

CONSTANTS Day,          \* 24 hours
          DailyLimit,   \* dailyRequestLimit
          Penalty,      \* pause after a 429
          MaxTime       \* bound: the clock
ASSUME BudgetAssumption == /\ {Day, DailyLimit} \subseteq Nat \ {0}
                           /\ {Penalty, MaxTime} \subseteq Nat
                           /\ IsFiniteSet(Clerk)

VARIABLES
    clock,
    nextSlot,     \* integration_rate_limits.next_slot_at
    paused,       \* paused_until and its kind
    granted,      \* when requests were granted (history)
    cut           \* processes that died before they paused (history)

budgetVars == <<clock, nextSlot, paused, granted, cut, visit, edits>>

(* reviewBudgetPolicy.                                                     *)
Burst == Max({1, DailyLimit \div 4})
CeilDiv(a, b) == (a + b - 1) \div b
IntervalOf == CeilDiv(Day, DailyLimit + 1 - Burst)
\* mutant: one request more at once
ToleranceWide == Burst * IntervalOf
Tolerance == (Burst - 1) * IntervalOf

BudgetInit == /\ clock = 0 /\ nextSlot = 0
              /\ paused = [until |-> 0, kind |-> None]
              /\ granted = <<>> /\ cut = 0
              /\ ActorsInit

Tick == /\ clock < MaxTime /\ clock' = clock + 1
        /\ UNCHANGED <<nextSlot, paused, granted, cut, visit, edits>>
-----------------------------------------------------------------------------
(* The transaction starts, and waits for the row; a transaction that waits *)
(* longer than a tick is not considered.                                   *)
TryConsume(w) == /\ Edit /\ Begin(w, [op |-> "budget", at |-> "reserve", now |-> clock])
                 /\ UNCHANGED <<clock, nextSlot, paused, granted, cut>>

ReserveSlot(w) ==
    LET now == visit[w].now
        slot == Max({now, nextSlot}) IN
    /\ visit[w].op = "budget" /\ visit[w].at = "reserve"
    /\ clock - now <= 1
    /\ IF paused.until > now THEN End(w) /\ UNCHANGED <<nextSlot, paused, granted>>
       ELSE /\ nextSlot' = slot + IntervalOf
            /\ paused' = [until |-> 0, kind |-> None]
            /\ granted' = IF slot - now <= Tolerance THEN Append(granted, now) ELSE granted
            /\ visit' = [visit EXCEPT ![w] = [op |-> "budget", at |-> "pause", wait |-> slot - now,
                                              granted |-> slot - now <= Tolerance]]
    /\ UNCHANGED <<clock, cut, edits>>

PauseUntil(t, kind) == paused' = IF paused.until < t THEN [until |-> t, kind |-> kind] ELSE paused

(* The end of the pause is reckoned on the clock of the process.           *)
Pauses(w) == visit[w].wait + IntervalOf - Tolerance > 0

BudgetPauses(w) ==
    /\ visit[w].op = "budget" /\ visit[w].at = "pause"
    /\ IF Pauses(w) THEN PauseUntil(clock + visit[w].wait + IntervalOf - Tolerance, "credit_limited")
       ELSE UNCHANGED paused
    /\ IF visit[w].granted THEN Continue(w, [op |-> "budget", at |-> "fetch"]) ELSE End(w)
    /\ UNCHANGED <<clock, nextSlot, granted, cut, edits>>

FetchPlaceReviews(w) ==
    /\ visit[w].op = "budget" /\ visit[w].at = "fetch"
    /\ \/ UNCHANGED paused
       \/ PauseUntil(clock + Penalty, "rate_limited")      \* 429
    /\ End(w)
    /\ UNCHANGED <<clock, nextSlot, granted, cut, edits>>

BudgetProcessDies(w) == /\ Edit /\ visit[w].op = "budget" /\ End(w)
                        /\ cut' = IF visit[w].at = "pause" THEN cut + 1 ELSE cut
                        /\ UNCHANGED <<clock, nextSlot, paused, granted>>

BudgetNext ==
    \/ Tick
    \/ \E w \in Clerk : \/ TryConsume(w) \/ ReserveSlot(w) \/ BudgetPauses(w)
                        \/ FetchPlaceReviews(w) \/ BudgetProcessDies(w)

BudgetSpec == BudgetInit /\ [][BudgetNext]_budgetVars
-----------------------------------------------------------------------------
(* In no window of 24 hours are more requests granted than the limit, with *)
(* any number of processes asking, dying and being refused.                *)
LimitKept ==
    \A i \in DOMAIN granted :
        Cardinality({j \in DOMAIN granted : granted[j] \in granted[i] .. granted[i] + Day - 1})
            <= DailyLimit

(* Refusals move the pointer only by what asks at the same time or died    *)
(* before it paused: the budget heals by itself.                           *)
PointerStaysNear ==
    nextSlot <= clock + Tolerance + IntervalOf * (Cardinality(Clerk) + cut)
(* Neither are more requests made than allowed, nor do refusals shut the     *)
(* budget for good.                                                         *)
BudgetSafety == LimitKept /\ PointerStaysNear
=============================================================================
