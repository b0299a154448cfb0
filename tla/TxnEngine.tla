----------------------------- MODULE TxnEngine -----------------------------
(***************************************************************************)
(* TxnEngine (app/txn_engine.cpp) with its journal, its dispenser and the  *)
(* shutter, as main.cpp assembles them: one purchase at a time, crashes    *)
(* and power losses at any point, and resume_if_needed at every start.     *)
(*                                                                         *)
(* run_purchase and resume_if_needed share continue_txn, so one engine     *)
(* thread walks the control points                                         *)
(*   guard1 -> call -> hopper -> judge -> guard2 -> open -> guard3 ->      *)
(*   close -> finish -> return                                             *)
(* and appends its record to the journal where `unsaved' says so: a step   *)
(* that ends in journal::append(t) sets the flag, and nothing else happens *)
(* in the engine until Append or a crash resolves it.  The fault poller    *)
(* runs beside it.                                                         *)
(***************************************************************************)
EXTENDS DispenseController, Journal, FiniteSets

CONSTANTS
  Prices, Deposits,   \* cents offered as arguments of run_purchase
  MaxQuarters,        \* TxnConfig::max_quarters_per_txn
  MaxTxns,            \* bound: purchases started
  MaxCrashes,         \* bound: crashes of the process
  Storage             \* what the disk may do: a subset of {"full", "torn"}

ASSUME TxnAssumption ==
  /\ Prices \subseteq Nat
  /\ Deposits \subseteq Nat
  /\ MaxQuarters \in 0..99
  /\ MaxCoins = MaxQuarters
  /\ MaxTxns \in Nat
  /\ MaxCrashes \in Nat
  /\ Storage \subseteq {"full", "torn"}

VARIABLES
  pc,        \* control point of the engine thread; "off": no process runs
  t,         \* the local journal::Txn
  caller,    \* "purchase" or "resume": who called continue_txn
  unsaved,   \* t is about to be appended to the journal
  tail,      \* the last line of the journal file
  fault,     \* FaultManager::any_active()
  shutter,   \* where the shutter is: "closed", "open" or in between
  started,   \* purchases started so far; also the id of the latest
  crashes,   \* crashes so far
  payee,     \* history: the transaction for which the motor was last started
  paid,      \* history: coins that left the hopper, per transaction
  owed,      \* history: quarters planned, per transaction
  answered,  \* history: purchases whose caller got an answer
  held,      \* history: a fault was active ever since the engine set out
  mishaps    \* history: what went wrong with the process or the disk

evars == <<pc, t, caller, unsaved, tail, fault, shutter, started, crashes,
           payee, paid, owed, answered, held, mishaps>>
vars == <<dvars, evars>>

Ids == 0..MaxTxns
Pcs == {"off", "idle", "guard1", "call", "hopper", "judge", "guard2", "open",
        "guard3", "close", "finish", "return"}

TypeOK ==
  /\ DTypeOK
  /\ pc \in Pcs
  /\ t \in Txns /\ t.id \in Ids /\ t.quarters \in 0..MaxQuarters
  /\ caller \in {"purchase", "resume"}
  /\ unsaved \in BOOLEAN
  /\ tail \in Lines /\ tail.id \in Ids \cup {Absent}
  /\ tail.quarters \in (0..MaxQuarters) \cup {Absent}
  /\ fault \in BOOLEAN
  /\ shutter \in {"closed", "open", "ajar"}
  /\ started \in Ids
  /\ crashes \in 0..MaxCrashes
  /\ payee \in Ids
  /\ paid \in [Ids -> Nat]
  /\ owed \in [Ids -> 0..MaxQuarters]
  /\ answered \subseteq Ids
  /\ held \in BOOLEAN
  /\ mishaps \subseteq {"crash", "torn", "disk"}

Init ==
  /\ DInit
  /\ pc = "off"
  /\ t = NoTxn
  /\ caller = "resume"
  /\ unsaved = FALSE
  /\ tail = EmptyFile
  /\ fault = FALSE
  /\ shutter = "closed"
  /\ started = 0
  /\ crashes = 0
  /\ payee = 0
  /\ paid = [i \in Ids |-> 0]
  /\ owed = [i \in Ids |-> 0]
  /\ answered = {}
  /\ held = FALSE
  /\ mishaps = {}

-----------------------------------------------------------------------------
\* The engine is at control point p and has nothing left to append.
At(p) == pc = p /\ ~unsaved

\* t.phase = phase; journal::append(t); go on at p.
Save(phase, p) ==
  /\ t' = [t EXCEPT !.phase = phase]
  /\ unsaved' = TRUE
  /\ pc' = p

Goto(p) == pc' = p /\ UNCHANGED <<t, unsaved>>

\* Bug: the phase is not journaled.
VoidUnsaved == Goto("return")
Void == Save("VOID", "return")

\* Whoever is served pays for the coins that leave the hopper in this step.
Pay == paid' = [paid EXCEPT ![payee] = @ + (stock - stock')]

(***************************************************************************)
(* journal::append.  Its result is ignored: on a full disk the engine goes *)
(* on with nothing, or with a part of the line, written.                   *)
(***************************************************************************)
Append ==
  /\ unsaved
  /\ unsaved' = FALSE
  /\ \/ tail' \in Appended(tail, t) /\ UNCHANGED mishaps
     \/ /\ "full" \in Storage
        /\ tail' \in {tail} \cup CutShort(tail, t)
        /\ mishaps' = mishaps \cup {"disk"}
  /\ UNCHANGED <<dvars, pc, t, caller, fault, shutter, started, crashes,
                 payee, paid, owed, answered, held>>

Quarters(price, deposit) ==
  LET change == IF deposit > price THEN deposit - price ELSE 0
      plan == change \div 25
  IN  IF plan > MaxQuarters THEN MaxQuarters ELSE plan

RunPurchase(price, deposit) ==
  /\ At("idle")
  /\ started < MaxTxns
  /\ started' = started + 1
  /\ t' = [id |-> started + 1, quarters |-> Quarters(price, deposit),
           phase |-> "PENDING", dispensed |-> 0]
  /\ owed' = [owed EXCEPT ![started + 1] = Quarters(price, deposit)]
  /\ caller' = "purchase"
  /\ held' = fault
  /\ unsaved' = TRUE
  /\ pc' = "guard1"
  /\ UNCHANGED <<dvars, tail, fault, shutter, crashes, payee, paid, answered, mishaps>>

\* continue_txn, first check.
Guard1 ==
  /\ At("guard1")
  /\ \/ t.quarters > t.dispensed /\ fault /\ Void
     \/ t.quarters > t.dispensed /\ ~fault /\ Goto("call")
     \/ t.quarters <= t.dispensed /\ Goto("guard2")
  /\ UNCHANGED <<dvars, caller, tail, fault, shutter, started, crashes,
                 payee, paid, owed, answered, held, mishaps>>

\* Bug: a resumption asks for all the quarters again.
StartDispenseAll ==
  /\ At("call")
  /\ Call(t.quarters)
  /\ payee' = t.id
  /\ Goto("hopper")
  /\ UNCHANGED <<caller, tail, fault, shutter, started, crashes,
                 paid, owed, answered, held, mishaps>>

StartDispense ==
  /\ At("call")
  /\ Call(t.quarters - t.dispensed)
  /\ payee' = t.id
  /\ Goto("hopper")
  /\ UNCHANGED <<caller, tail, fault, shutter, started, crashes,
                 paid, owed, answered, held, mishaps>>

CoinFalls ==
  /\ At("hopper")
  /\ CoinSeen \/ CoinUnseen
  /\ Pay
  /\ UNCHANGED <<pc, t, caller, unsaved, tail, fault, shutter, started, crashes,
                 payee, owed, answered, held, mishaps>>

Dispensing ==
  /\ At("hopper")
  /\ Control
  /\ UNCHANGED evars

\* Bug: the plan is credited instead of the count.
DispensedPlanned ==
  /\ At("hopper")
  /\ Return
  /\ t' = [t EXCEPT !.dispensed = t.quarters, !.phase = "DISPENSING"]
  /\ unsaved' = TRUE
  /\ pc' = "judge"
  /\ UNCHANGED <<caller, tail, fault, shutter, started, crashes,
                 payee, paid, owed, answered, held, mishaps>>

Dispensed ==
  /\ At("hopper")
  /\ Return
  /\ t' = [t EXCEPT !.dispensed = @ + res.dispensed, !.phase = "DISPENSING"]
  /\ unsaved' = TRUE
  /\ pc' = "judge"
  /\ UNCHANGED <<caller, tail, fault, shutter, started, crashes,
                 payee, paid, owed, answered, held, mishaps>>

\* Bug: the result of the dispenser is not looked at.
JudgeTrusting ==
  /\ At("judge")
  /\ Goto("guard2")
  /\ UNCHANGED <<dvars, caller, tail, fault, shutter, started, crashes,
                 payee, paid, owed, answered, held, mishaps>>

Judge ==
  /\ At("judge")
  /\ \/ (~res.ok \/ t.dispensed < t.quarters) /\ Void
     \/ res.ok /\ t.dispensed >= t.quarters /\ Goto("guard2")
  /\ UNCHANGED <<dvars, caller, tail, fault, shutter, started, crashes,
                 payee, paid, owed, answered, held, mishaps>>

Guard2 ==
  /\ At("guard2")
  /\ \/ fault /\ Void
     \/ ~fault /\ Goto("open")
  /\ UNCHANGED <<dvars, caller, tail, fault, shutter, started, crashes,
                 payee, paid, owed, answered, held, mishaps>>

Open ==
  /\ At("open")
  /\ \/ shutter' = "open" /\ Save("PRESENTING", "guard3")
     \/ shutter' \in {shutter, "ajar"} /\ Void
  /\ UNCHANGED <<dvars, caller, tail, fault, started, crashes,
                 payee, paid, owed, answered, held, mishaps>>

\* Bug: the presentation goes on until the fault is cleared.
Guard3Waits ==
  /\ At("guard3")
  /\ ~fault /\ Goto("close")
  /\ UNCHANGED <<dvars, caller, tail, fault, shutter, started, crashes,
                 payee, paid, owed, answered, held, mishaps>>

\* The check after the presentation time: a fault leaves the shutter as it is.
Guard3 ==
  /\ At("guard3")
  /\ \/ fault /\ Void
     \/ ~fault /\ Goto("close")
  /\ UNCHANGED <<dvars, caller, tail, fault, shutter, started, crashes,
                 payee, paid, owed, answered, held, mishaps>>

\* close_mm, from continue_txn or from the PRESENTING branch of resume_if_needed.
Close ==
  /\ At("close")
  /\ \/ shutter' = "closed" /\ Save("CLOSED", "finish")
     \/ shutter' \in {shutter, "ajar"} /\ Void
  /\ UNCHANGED <<dvars, caller, tail, fault, started, crashes,
                 payee, paid, owed, answered, held, mishaps>>

Finished ==
  /\ At("finish")
  /\ Save("DONE", "return")
  /\ UNCHANGED <<dvars, caller, tail, fault, shutter, started, crashes,
                 payee, paid, owed, answered, held, mishaps>>

ReturnTxn ==
  /\ At("return")
  /\ Goto("idle")
  /\ answered' = IF caller = "purchase" THEN answered \cup {t.id} ELSE answered
  /\ UNCHANGED <<dvars, caller, tail, fault, shutter, started, crashes,
                 payee, paid, owed, held, mishaps>>

-----------------------------------------------------------------------------
\* Coins that have left the hopper are not in the journal yet.
Uncredited == pc = "hopper" \/ (pc = "judge" /\ unsaved)

(***************************************************************************)
(* The process dies: an exception, a kill or a power loss, possibly in the *)
(* middle of an append.  The motor line may stay driven.                   *)
(***************************************************************************)
Crash ==
  /\ pc # "off"
  /\ crashes < MaxCrashes
  /\ crashes' = crashes + 1
  /\ pc' = "off"
  /\ t' = NoTxn
  /\ unsaved' = FALSE
  /\ held' = FALSE
  /\ motor' \in {motor, FALSE}
  /\ dpc' = "idle" /\ pulses' = 0 /\ attempt' = 0 /\ coins' = 0 /\ res' = NoResult
  /\ shutter' \in IF pc \in {"open", "close"} THEN {shutter, "ajar"} ELSE {shutter}
  /\ LET lost == IF Uncredited THEN {"crash"} ELSE {} IN
       \/ tail' = tail /\ mishaps' = mishaps \cup lost
       \/ /\ unsaved
          /\ "torn" \in Storage
          /\ tail' \in CutShort(tail, t)
          /\ mishaps' = mishaps \cup lost \cup {"torn"}
  /\ UNCHANGED <<stock, before, slips, caller, fault, started,
                 payee, paid, owed, answered>>

\* A motor left running by a crash keeps paying until the next start.
PayingWhileOff ==
  /\ pc = "off"
  /\ CoinUnseen
  /\ Pay
  /\ UNCHANGED <<pc, t, caller, unsaved, tail, fault, shutter, started, crashes,
                 payee, owed, answered, held, mishaps>>

\* Bug: a transaction that was dispensing is taken for one that was presenting.
StartPresenting ==
  /\ pc = "off"
  /\ motor' = FALSE
  /\ IF tail.bad
     THEN UNCHANGED <<pc, t, caller, held>>
     ELSE /\ t' = LoadLast(tail)
          /\ caller' = "resume"
          /\ held' = fault
          /\ pc' = CASE tail.phase = "PENDING" -> "guard1"
                     [] tail.phase \in {"DISPENSING", "PRESENTING"} -> "close"
                     [] OTHER -> "idle"
  /\ UNCHANGED <<stock, pulses, dpc, attempt, coins, res, before, slips,
                 unsaved, tail, fault, shutter, started, crashes,
                 payee, paid, owed, answered, mishaps>>

(***************************************************************************)
(* main: the HopperParallel constructor stops the motor, then              *)
(* resume_if_needed acts on the last line.  A line that makes parse_line   *)
(* throw ends the process again.                                           *)
(***************************************************************************)
Start ==
  /\ pc = "off"
  /\ motor' = FALSE
  /\ IF tail.bad
     THEN UNCHANGED <<pc, t, caller, held>>
     ELSE /\ t' = LoadLast(tail)
          /\ caller' = "resume"
          /\ held' = fault
          /\ pc' = CASE tail.phase \in {"PENDING", "DISPENSING"} -> "guard1"
                     [] tail.phase = "PRESENTING" -> "close"
                     [] OTHER -> "idle"
  /\ UNCHANGED <<stock, pulses, dpc, attempt, coins, res, before, slips,
                 unsaved, tail, fault, shutter, started, crashes,
                 payee, paid, owed, answered, mishaps>>

\* The poll thread of FaultManager raises or clears a fault.
FaultChange ==
  /\ fault' = ~fault
  /\ held' = FALSE
  /\ UNCHANGED <<dvars, pc, t, caller, unsaved, tail, shutter, started, crashes,
                 payee, paid, owed, answered, mishaps>>

\* The steps of the engine thread; whether a coin falls is not up to it.
Engine ==
  \/ Append \/ Guard1 \/ StartDispense \/ Dispensing \/ Dispensed \/ Judge
  \/ Guard2 \/ Open \/ Guard3 \/ Close \/ Finished \/ ReturnTxn

Next ==
  \/ \E price \in Prices, deposit \in Deposits : RunPurchase(price, deposit)
  \/ Engine
  \/ CoinFalls
  \/ Crash
  \/ PayingWhileOff
  \/ Start
  \/ FaultChange

Spec == Init /\ [][Next]_vars

\* The engine thread runs on (sleeps end, and the controller's clock ends every
\* wait for a coin) and the device is switched on again after a crash.
FairSpec == Spec /\ WF_vars(Engine) /\ WF_vars(Start)

-----------------------------------------------------------------------------
(***************************************************************************)
(* A purchase that ends DONE has paid at least its quarters and has closed *)
(* the shutter again, however many crashes and resumptions it took; a full *)
(* disk can only spoil this for a transaction read back from the journal.  *)
(***************************************************************************)
DoneMeansPaid ==
  /\ pc = "return"
  /\ t.phase = "DONE"
  /\ "disk" \notin mishaps \/ caller = "purchase"
  => paid[t.id] >= t.quarters /\ shutter = "closed"

(***************************************************************************)
(* What the journal credits to a transaction was really paid, so that a    *)
(* resumption, which pays only the rest, never leaves the customer short.  *)
(***************************************************************************)
CreditWasPaid ==
  "disk" \notin mishaps =>
    LET r == LoadLast(tail) IN r.dispensed <= paid[r.id]

(***************************************************************************)
(* Nobody is paid more than planned unless one of the named mishaps        *)
(* happened: coins past the sensor, a retry after a jam, a crash between a *)
(* coin and its DISPENSING record, a torn or a failed append.              *)
(***************************************************************************)
NoOverpay ==
  slips = {} /\ mishaps = {} => \A i \in Ids : paid[i] <= owed[i]

(***************************************************************************)
(* An engine that waits for purchases has left no transaction half-way in  *)
(* the journal: a later start would resume nothing.                        *)
(***************************************************************************)
IdleIsSettled ==
  pc = "idle" /\ mishaps \cap {"disk", "torn"} = {} =>
    tail.phase \in {NoPhase, "CLOSED", "DONE", "VOID"}

(***************************************************************************)
(* Once the caller of run_purchase has its answer, no more coins leave for *)
(* that transaction, not even after a crash and a resumption.              *)
(***************************************************************************)
AnsweredIsFinal ==
  [][ "disk" \notin mishaps => \A i \in answered : paid'[i] = paid[i] ]_vars

(***************************************************************************)
(* A fault that is active when the engine sets out and stays so keeps the  *)
(* coins in the hopper and the shutter from opening.                       *)
(***************************************************************************)
HeldFaultStopsMotion ==
  [][ held => stock' = stock /\ (shutter' = "open" => shutter = "open") ]_vars

(***************************************************************************)
(* The contract.  The latest purchase is open from run_purchase on, until  *)
(* a record that resume_if_needed leaves alone is in the journal; one      *)
(* whose PENDING record was never written is forgotten by a crash.         *)
(***************************************************************************)
EngineState == IF pc \in {"off", "idle"} THEN pc ELSE "busy"
Verdict ==
  IF started = 0 THEN "none"
  ELSE IF tail.id # started THEN IF pc = "guard1" THEN "open" ELSE "void"
  ELSE IF tail.phase \in {"CLOSED", "DONE"} THEN "done"
  ELSE IF tail.phase = "VOID" THEN "void"
  ELSE "open"

Contract == INSTANCE PurchaseContract WITH
  MaxOwed <- MaxQuarters, est <- EngineState, id <- started,
  owes <- owed[started], given <- paid[started], verdict <- Verdict

(***************************************************************************)
(* With a disk that keeps what is written, the engine with its journal and *)
(* its resumptions implements the contract: coins only for the open        *)
(* purchase, one verdict per purchase, no verdict "done" that was not      *)
(* earned, and no purchase dropped that had been given a coin.             *)
(***************************************************************************)
ImplementsContract == Contract!CSpec

(***************************************************************************)
(* Liveness: every purchase and every resumption ends, and after a crash   *)
(* the engine is ready again, unless the last line cannot be parsed.       *)
(***************************************************************************)
Recovers == pc # "idle" ~> (pc = "idle" \/ tail.bad)

(***************************************************************************)
(* The acceptance criterion of the surge test: "system recovers without    *)
(* transaction loss" (docs/compliance/Surge_EFT_Procedure.md:6).           *)
(***************************************************************************)
AlwaysRecovers == pc = "off" ~> pc = "idle"
=============================================================================
