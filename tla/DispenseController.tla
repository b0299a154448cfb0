------------------------- MODULE DispenseController -------------------------
(***************************************************************************)
(* DispenseController::dispenseCoins driving one HopperParallel.           *)
(*                                                                         *)
(* A call starts the motor and polls the exit sensor until enough coins    *)
(* were counted, until no pulse came for jam_ms (then the attempt is       *)
(* repeated with fresh counters, at most max_retries times) or until the   *)
(* time budget of the whole call is spent.  Clock readings are abstracted: *)
(* a jam or an exhausted budget may be noticed at any poll that has not    *)
(* counted the last coin.  One pulse is one coin (a calibrated hopper).    *)
(***************************************************************************)
EXTENDS Integers

CONSTANTS
  MaxRetries,   \* DispenseConfig::max_retries
  MaxCoins,     \* largest request
  HopperStock   \* coins in the hopper at the start

ASSUME DispenseAssumption ==
  /\ MaxRetries \in Nat
  /\ MaxCoins \in Nat
  /\ HopperStock \in Nat

VARIABLES
  motor,    \* the motor line is driven
  stock,    \* coins still in the hopper
  pulses,   \* HopperParallel::pulses_, pulses since the last resetCounters
  dpc,      \* where the call stands
  attempt,  \* the loop variable of dispenseCoins
  coins,    \* the request
  res,      \* DispenseResult
  before,   \* history: the stock when the call began
  slips     \* history: the ways in which a coin left without being credited

dvars == <<motor, stock, pulses, dpc, attempt, coins, res, before, slips>>

Reasons == {"ABORT", "OK", "JAM", "TIMEOUT", "PARTIAL"}
Results == [ok : BOOLEAN, dispensed : Nat, reason : Reasons]
NoResult == [ok |-> FALSE, dispensed |-> 0, reason |-> "ABORT"]

\* Coins that left the hopper since the call began.
Fallen == before - stock

DTypeOK ==
  /\ motor \in BOOLEAN
  /\ stock \in 0..HopperStock
  /\ pulses \in Nat
  /\ dpc \in {"idle", "settle", "poll", "backoff", "done"}
  /\ attempt \in 0..MaxRetries
  /\ coins \in 0..MaxCoins
  /\ res \in Results
  /\ before \in 0..HopperStock
  /\ slips \subseteq {"unseen", "retry"}

DInit ==
  /\ motor = FALSE
  /\ stock = HopperStock
  /\ pulses = 0
  /\ dpc = "idle"
  /\ attempt = 0
  /\ coins = 0
  /\ res = NoResult
  /\ before = HopperStock
  /\ slips = {}

-----------------------------------------------------------------------------
(***************************************************************************)
(* The hopper.  Pulses are only seen by pollOnce: a coin that passes while *)
(* the controller sleeps through settle_ms, or within min_edge_interval_us *)
(* of the previous edge, leaves uncounted.                                 *)
(***************************************************************************)
CoinSeen ==
  /\ dpc = "poll"
  /\ motor
  /\ stock > 0
  /\ pulses < coins
  /\ stock' = stock - 1
  /\ pulses' = pulses + 1
  /\ UNCHANGED <<motor, dpc, attempt, coins, res, before, slips>>

CoinUnseen ==
  /\ motor
  /\ stock > 0
  /\ stock' = stock - 1
  /\ slips' = slips \cup {"unseen"}
  /\ UNCHANGED <<motor, pulses, dpc, attempt, coins, res, before>>

-----------------------------------------------------------------------------
\* The head of the retry loop: resetCounters() and start().
StartAttempt ==
  /\ pulses' = 0
  /\ motor' = TRUE
  /\ dpc' = "settle"

\* hopper_.stop() and the way out of the loop with a result.
Finish(ok, reason) ==
  /\ motor' = FALSE
  /\ dpc' = "done"
  /\ res' = [ok |-> ok, dispensed |-> pulses, reason |-> reason]

Call(n) ==
  /\ dpc = "idle"
  /\ coins' = n
  /\ attempt' = 0
  /\ res' = NoResult
  /\ before' = stock
  /\ StartAttempt
  /\ UNCHANGED <<stock, slips>>

Settled ==
  /\ dpc = "settle"
  /\ dpc' = "poll"
  /\ UNCHANGED <<motor, stock, pulses, attempt, coins, res, before, slips>>

Complete ==
  /\ dpc = "poll"
  /\ pulses >= coins
  /\ Finish(TRUE, "OK")
  /\ UNCHANGED <<stock, pulses, attempt, coins, before, slips>>

\* No pulse for jam_ms with retries left: stop and back off.
JamRetry ==
  /\ dpc = "poll"
  /\ pulses < coins
  /\ attempt < MaxRetries
  /\ motor' = FALSE
  /\ dpc' = "backoff"
  /\ UNCHANGED <<stock, pulses, attempt, coins, res, before, slips>>

\* Bug: the loop variable is not incremented.
RetryUncounted ==
  /\ dpc = "backoff"
  /\ StartAttempt
  /\ slips' = IF pulses > 0 THEN slips \cup {"retry"} ELSE slips
  /\ UNCHANGED <<stock, attempt, coins, res, before>>

\* Retrying restarts the count: what the jammed attempt counted is forgotten.
Retry ==
  /\ dpc = "backoff"
  /\ attempt' = attempt + 1
  /\ StartAttempt
  /\ slips' = IF pulses > 0 THEN slips \cup {"retry"} ELSE slips
  /\ UNCHANGED <<stock, coins, res, before>>

JamOut ==
  /\ dpc = "poll"
  /\ pulses < coins
  /\ attempt = MaxRetries
  /\ Finish(FALSE, IF pulses > 0 THEN "PARTIAL" ELSE "JAM")
  /\ UNCHANGED <<stock, pulses, attempt, coins, before, slips>>

Timeout ==
  /\ dpc = "poll"
  /\ pulses < coins
  /\ Finish(FALSE, IF pulses > 0 THEN "PARTIAL" ELSE "TIMEOUT")
  /\ UNCHANGED <<stock, pulses, attempt, coins, before, slips>>

Return ==
  /\ dpc = "done"
  /\ dpc' = "idle"
  /\ UNCHANGED <<motor, stock, pulses, attempt, coins, res, before, slips>>

\* The steps of the controller itself: its clock moves on, so one of them comes.
Control == Settled \/ Complete \/ JamRetry \/ Retry \/ JamOut \/ Timeout
Running == CoinSeen \/ CoinUnseen \/ Control

DNext ==
  \/ \E n \in 0..MaxCoins : Call(n)
  \/ Running
  \/ Return

DSpec == DInit /\ [][DNext]_dvars /\ WF_dvars(Control)

-----------------------------------------------------------------------------
(***************************************************************************)
(* Every way out of dispenseCoins, and every backoff, has stopped the      *)
(* motor: it only turns while a call is settling or polling.               *)
(***************************************************************************)
MotorOnlyWhileDispensing == motor <=> dpc \in {"settle", "poll"}

(***************************************************************************)
(* The result never claims a coin that did not leave the hopper, and it    *)
(* says OK exactly when the whole request was counted.                     *)
(***************************************************************************)
ReportedWasPaid ==
  dpc = "done" => /\ res.dispensed <= Fallen
                  /\ res.ok <=> res.dispensed = coins

(***************************************************************************)
(* When no retry discarded counted coins and no coin slipped past the      *)
(* sensor, the result is exact.                                            *)
(***************************************************************************)
ExactWhenClean ==
  dpc = "done" /\ slips = {} => Fallen = res.dispensed

(***************************************************************************)
(* How much a jamming hopper can pay in excess: each of the max_retries    *)
(* abandoned attempts counted less than the whole request.                 *)
(***************************************************************************)
OverpayBound ==
  "unseen" \notin slips =>
    Fallen <= IF coins = 0 THEN 0 ELSE coins + MaxRetries * (coins - 1)

(***************************************************************************)
(* Liveness: a call returns, whatever the hopper does.                     *)
(***************************************************************************)
CallReturns == dpc = "settle" ~> dpc = "done"
=============================================================================
