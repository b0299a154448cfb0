------------------------------- MODULE Payout -------------------------------
(***************************************************************************)
(* Change in several denominations: the greedy plan (app/change_maker.cpp) *)
(* over the logical stock (app/inventory.cpp), executed hopper by hopper   *)
(* (app/multi_dispenser.cpp) for the purchase that main.cpp makes.  The    *)
(* driver of a hopper may pay too little, fail, or overrun by one coin.    *)
(***************************************************************************)
EXTENDS Integers, FiniteSets, Functions, Folds

CONSTANTS
  Denoms,      \* cents of the denominations
  Stocks,      \* logical_count of a hopper at the start
  Threshold,   \* low_stock_threshold
  Bills,       \* <<purchase_cents, deposit_cents>>
  MaxSales     \* bound: purchases

ASSUME PayoutAssumption ==
  /\ IsFiniteSet(Denoms) /\ \A d \in Denoms : d \in Nat /\ d > 0
  /\ Stocks \subseteq Nat /\ Threshold \in Nat /\ Bills \subseteq Nat \X Nat

VARIABLES
  counts,     \* logical_count per hopper that is known
  attached,   \* hoppers with a driver
  plan,       \* denominations whose item is still to be executed
  asked,      \* the plan as made: coins per denomination, the cents left over, the stock it was made from
  verdict,    \* ok of the execution, and what main printed
  gone,       \* history: coins that left each hopper
  change,     \* cents of this purchase
  sales       \* purchases so far

pvars == <<counts, attached, plan, asked, verdict, gone, change, sales>>

Nothing == [d \in Denoms |-> 0]
Value(coins) == SumFunction([d \in Denoms |-> d * coins[d]])
Smallest(S) == CHOOSE d \in S : \A e \in S : d <= e
Largest(S) == CHOOSE d \in S : \A e \in S : e <= d

(* Stock never runs negative and a plan holds coins of known hoppers.      *)
PTypeOK ==
  /\ DOMAIN counts \subseteq Denoms /\ \A d \in DOMAIN counts : counts[d] \in Nat
  /\ plan \subseteq DOMAIN counts /\ \A d \in plan : asked.use[d] > 0
  /\ verdict.ok \in BOOLEAN
  /\ verdict.said \in {"none", "running", "OK", "VOID"}

PInit ==
  /\ \E known \in SUBSET Denoms :
       /\ counts \in [known -> Stocks]
       /\ attached \in {known, known \ {25}}
  /\ plan = {} /\ asked = [use |-> Nothing, left |-> 0, from |-> counts]
  /\ verdict = [ok |-> TRUE, said |-> "none"] /\ gone = Nothing /\ change = 0 /\ sales = 0
-----------------------------------------------------------------------------
low(d) == counts[d] <= Threshold

(* A hopper at its threshold is not used; above it all of it may be. *)
usable(d) ==
  IF d \notin DOMAIN counts THEN 0
  ELSE IF low(d) THEN (IF counts[d] > Threshold THEN counts[d] - Threshold ELSE 0)
  ELSE counts[d]

(* One item: as many coins as fit and may be used. *)
PlanItem(d, made) ==
  LET need == made.left \div d
      use == IF need < usable(d) THEN need ELSE usable(d)
  IN [use |-> [made.use EXCEPT ![d] = use], left |-> made.left - use * d, from |-> made.from]

(* make_plan_cents, from the largest denomination down: the fold takes the
   smallest one last. *)
make_plan_cents(cents) ==
  MapThenFoldSet(PlanItem, [use |-> Nothing, left |-> cents, from |-> counts],
                 LAMBDA d : d, Smallest, Denoms)

ChangeOf(bill) == IF bill[2] < bill[1] THEN 0 ELSE (bill[2] - bill[1]) % 100

Purchase(bill) ==
  /\ verdict.said # "running" /\ sales < MaxSales /\ sales' = sales + 1
  /\ change' = ChangeOf(bill) /\ gone' = Nothing
  /\ asked' = make_plan_cents(ChangeOf(bill))
  /\ IF asked'.left > 0
     THEN plan' = {} /\ verdict' = [ok |-> FALSE, said |-> "VOID"]
     ELSE /\ plan' = {d \in Denoms : asked'.use[d] > 0}
          /\ verdict' = [ok |-> TRUE, said |-> "running"]
  /\ UNCHANGED <<counts, attached>>

take(d, n) == [counts EXCEPT ![d] = IF n > @ THEN 0 ELSE @ - n]

\* Bug: a hopper that says ok is believed, however little it paid.
ExecuteItemTrusting(n, ok) ==
  LET d == Largest(plan)
  IN /\ plan # {} /\ plan' = plan \ {d}
     /\ n <= asked.use[d] + 1 /\ d \in attached
     /\ counts' = take(d, n)
     /\ gone' = [gone EXCEPT ![d] = @ + n]
     /\ verdict' = [verdict EXCEPT !.ok = @ /\ ok]
     /\ UNCHANGED <<attached, asked, change, sales>>

(* execute: one item; a hopper without a driver is passed over, and a      *)
(* failure does not keep the next hopper from paying.                      *)
ExecuteItem(n, ok) ==
  LET d == Largest(plan)
  IN /\ plan # {} /\ plan' = plan \ {d}
     /\ IF d \notin attached
        THEN /\ n = 0 /\ ~ok
             /\ verdict' = [verdict EXCEPT !.ok = FALSE]
             /\ UNCHANGED <<counts, gone>>
        ELSE /\ n <= asked.use[d] + 1
             /\ counts' = take(d, n)
             /\ gone' = [gone EXCEPT ![d] = @ + n]
             /\ verdict' = [verdict EXCEPT !.ok = @ /\ ok /\ n >= asked.use[d]]
     /\ UNCHANGED <<attached, asked, change, sales>>

Report ==
  /\ verdict.said = "running" /\ plan = {}
  /\ verdict' = [verdict EXCEPT !.said = IF verdict.ok THEN "OK" ELSE "VOID"]
  /\ UNCHANGED <<counts, attached, plan, asked, gone, change, sales>>

PNext ==
  \/ \E bill \in Bills : Purchase(bill)
  \/ (plan # {} /\ \E n \in 0..asked.use[Largest(plan)] + 1, ok \in BOOLEAN : ExecuteItem(n, ok))
  \/ Report

PSpec == PInit /\ [][PNext]_pvars
-----------------------------------------------------------------------------
(***************************************************************************)
(* Properties.                                                             *)
(***************************************************************************)
(* The plan against its definition: plan and remainder make up the change, *)
(* take no more of a hopper than it holds, and stop only where no coin     *)
(* that may be used still fits.                                            *)
PlanIsMaximal ==
  LET mayUse(d) == IF d \in DOMAIN asked.from /\ asked.from[d] > Threshold
                   THEN asked.from[d] ELSE 0
  IN /\ Value(asked.use) + asked.left = change
     /\ \A d \in Denoms : /\ asked.use[d] <= mayUse(d)
                          /\ sales > 0 => asked.left < d \/ asked.use[d] = mayUse(d)

(* A purchase that ends OK has paid the change by a maximal plan, and more *)
(* only by the one coin that each of its hoppers may overrun; the logical  *)
(* stock has fallen by what was paid.                                      *)
OkPaysTheChange ==
  /\ PlanIsMaximal
  /\ verdict.said = "OK" =>
       /\ Value(gone) >= change
       /\ Value(gone) <= change + Value([d \in Denoms |-> IF asked.use[d] > 0 THEN 1 ELSE 0])
  /\ \A d \in DOMAIN counts :
       counts[d] = (IF gone[d] > asked.from[d] THEN 0 ELSE asked.from[d] - gone[d])
=============================================================================
