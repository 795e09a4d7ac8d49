----------------------------- MODULE StockLedger -----------------------------
(***************************************************************************)
(* The stock of the articles: every change is one movement written under   *)
(* the lock of the article; a count is taken at one time and approved at   *)
(* another, with goods moving in between.  Creating a count reads the      *)
(* stock and, with nothing locked but other creations, the open counts;    *)
(* an approval may commit between the two.                                 *)
(***************************************************************************)
EXTENDS Actors

CONSTANTS Article, Count,     \* articles, stocktakes
          MaxStock            \* bound: stock of an article, counted or real
ASSUME StockAssumption == MaxStock \in Nat

VARIABLES
    stock,      \* inventory_items.current_stock, None before the first count
    active,     \* articles whose product is active
    ledger,     \* sum of the movements of an article
    count       \* inventory_stocktakes: status, snapshot, counted; history: what
                \* moved since the snapshot, which articles an approval crossed

stockVars == <<stock, active, ledger, count, visit, edits>>

Value(x) == IF x = None THEN 0 ELSE x

StockInit ==
    /\ stock \in [Article -> {None} \cup 0 .. MaxStock]
    /\ active = Article
    /\ ledger = [a \in Article |-> Value(stock[a])]
    /\ count = [c \in Count |-> [st |-> "none"]]
    /\ ActorsInit

(* A count whose snapshot is taken: being created, or awaiting approval.   *)
Creating(c) == count[c].st = "counting"
Pending(c) == count[c].st = "pending_approval"
Watched(c) == Creating(c) \/ Pending(c)

(* applyMovement: refused without a first count (unless allowed) and below *)
(* zero.                                                                   *)
Movable(a, delta, uninitialised) ==
    /\ stock[a] = None => uninitialised
    /\ Value(stock[a]) + delta >= 0
ApplyMovement(a, delta, uninitialised) ==
    /\ Edit /\ Movable(a, delta, uninitialised)
    /\ Value(stock[a]) + delta <= MaxStock
    /\ stock' = [stock EXCEPT ![a] = Value(@) + delta]
    /\ ledger' = [ledger EXCEPT ![a] = @ + delta]
    /\ count' = [c \in Count |-> IF Watched(c) /\ a \in DOMAIN count[c].since
                                 THEN [count[c] EXCEPT !.since[a] = @ + delta] ELSE count[c]]
    /\ UNCHANGED <<active, visit>>

(* Goods only come back after they were issued, so after a first count.     *)
Receive(a, q) == a \in active /\ ApplyMovement(a, q, FALSE)
IssueWithin(a, q) == ApplyMovement(a, -q, FALSE)
ReturnWithin(a, q) == stock[a] # None /\ ApplyMovement(a, q, TRUE)

Deactivate(a) == /\ a \in active /\ Edit
                 /\ active' = active \ {a}
                 /\ UNCHANGED <<stock, ledger, count, visit>>
-----------------------------------------------------------------------------
(* Stocktakes.  At most one open count of an article.                      *)
Counts == UNION {[as -> 0 .. MaxStock] : as \in SUBSET Article}
OpenFor(as) == \E c \in Count : Pending(c) /\ DOMAIN count[c].counted \cap as # {}

(* createStocktake: two creations of one article wait for each other.  The *)
(* snapshot is read first,                                                 *)
ReadStocktake(c, counted) ==
    LET as == DOMAIN counted IN
    /\ Edit /\ count[c].st = "none"
    /\ as # {} /\ as \subseteq active
    /\ \A e \in Count : Creating(e) => DOMAIN count[e].counted \cap as = {}
    /\ count' = [count EXCEPT ![c] =
           [st |-> "counting", system |-> [a \in as |-> stock[a]], counted |-> counted,
            since |-> [a \in as |-> 0], crossed |-> {}]]
    /\ UNCHANGED <<stock, active, ledger, visit>>

(* then the open counts, which refuse it; a difference has to be approved.  *)
CreateStocktake(c) ==
    LET as == DOMAIN count[c].counted
        differs == \E a \in as : count[c].system[a] # count[c].counted[a] IN
    /\ Creating(c)
    /\ count' = [count EXCEPT ![c] =
           IF OpenFor(as) THEN [st |-> "none"]
           ELSE [@ EXCEPT !.st = IF differs THEN "pending_approval" ELSE "completed"]]
    /\ UNCHANGED <<stock, active, ledger, visit, edits>>

CorrectCountedStock(c, a, q) ==
    /\ Edit /\ Pending(c) /\ a \in DOMAIN count[c].counted
    /\ count' = [count EXCEPT ![c].counted[a] = q]
    /\ UNCHANGED <<stock, active, ledger, visit>>

(* mutant: the difference to the stock of now, so that the stock becomes    *)
(* what was counted                                                        *)
CorrectionOfNow(c, a) == IF stock[a] = None THEN count[c].counted[a]
                         ELSE count[c].counted[a] - stock[a]

(* The difference found at the count is applied to the stock of now; a     *)
(* first count sets the stock.  All lines or none.                         *)
Correction(c, a) == IF stock[a] = None THEN count[c].counted[a]
                    ELSE count[c].counted[a] - Value(count[c].system[a])
Approvable(c) ==
    \A a \in DOMAIN count[c].counted :
        stock[a] # None => /\ count[c].system[a] # None
                           /\ stock[a] + Correction(c, a) >= 0

ApproveStocktake(c) ==
    LET as == DOMAIN count[c].counted
        change == [a \in Article |-> IF a \in as THEN Correction(c, a) ELSE 0] IN
    /\ Edit /\ Pending(c) /\ Approvable(c)
    /\ stock' = [a \in Article |-> IF a \in as THEN Value(stock[a]) + change[a] ELSE stock[a]]
    /\ ledger' = [a \in Article |-> ledger[a] + change[a]]
    /\ count' = [e \in Count |->
           IF e = c THEN [count[e] EXCEPT !.st = "approved"]
           ELSE IF Creating(e)
           THEN [count[e] EXCEPT !.crossed = @ \cup {a \in as \cap DOMAIN count[e].counted : stock'[a] # stock[a]}]
           ELSE count[e]]
    /\ UNCHANGED <<active, visit>>

StockNext ==
    \/ \E a \in Article :
          \/ \E q \in 1 .. MaxStock : Receive(a, q) \/ IssueWithin(a, q) \/ ReturnWithin(a, q)
          \/ Deactivate(a)
    \/ \E c \in Count :
          \/ \E counted \in Counts : ReadStocktake(c, counted)
          \/ CreateStocktake(c)
          \/ \E a \in Article, q \in 0 .. MaxStock : CorrectCountedStock(c, a, q)
          \/ ApproveStocktake(c)

StockSpec == StockInit /\ [][StockNext]_stockVars
-----------------------------------------------------------------------------
(* An approved count is what was counted plus what moved since, and        *)
(* nothing that arrived is written off - but for an article whose earlier  *)
(* count was approved between the two reads that created this one: its     *)
(* correction is made a second time (inventory-service.ts:304-334).        *)
CountedPlusSince ==
    [][\A c \in Count : count[c].st = "pending_approval" /\ count'[c].st = "approved" =>
          \A a \in DOMAIN count[c].counted \ count[c].crossed :
             stock'[a] = count[c].counted[a] + count[c].since[a]
      ]_stockVars

(* A first count that awaits approval can be approved: the article did not *)
(* get a stock meanwhile, so nobody is told to count what is being counted;*)
(* except for such an article.                                             *)
FirstCountApprovable ==
    \A c \in Count : Pending(c) =>
        \A a \in DOMAIN count[c].counted \ count[c].crossed :
            count[c].system[a] = None => stock[a] = None
=============================================================================
