----------------------------- MODULE FactoryTest -----------------------------
(***************************************************************************)
(* Weighing what the hopper paid: the end-of-line test (eol/eol_runner.cpp)*)
(* that every unit must pass, the audit of `--dispense' (app/audit.cpp,    *)
(* runDispense of main.cpp) and the self-test (app/selftest.cpp).          *)
(*                                                                         *)
(* The scale is an HX711: an average of samples is the weight on the tray  *)
(* when it is read, or an exception when the chip is not ready.  A coin is *)
(* counted in the chute; it may still be falling when the dispense call    *)
(* returns.  Noise of a sample is below one raw unit of the model.         *)
(***************************************************************************)
EXTENDS Integers, Sequences

CONSTANTS
  TestCoins,   \* eol.coins_for_test, and the N of --dispense
  CoinRaw,     \* raw units per coin
  TolRaw       \* tolerance of the comparison, raw units (per coin in the audit)

(* The tolerance of the audit grows with the coins: with as many coins as  *)
(* CoinRaw \div TolRaw it would hide a missing one.                        *)
ASSUME FactoryAssumption ==
  /\ TestCoins \in Nat /\ CoinRaw \in Nat \ {0} /\ TolRaw \in Nat
  /\ (TestCoins + 1) * TolRaw < CoinRaw

VARIABLES
  job,      \* "eol", "audit", "selftest" or "none"
  at,       \* next step of the job
  tray,     \* coins that lie on the scale
  falling,  \* coins paid that have not landed yet
  paid,     \* coins that the hopper paid in this job
  counted,  \* coins that the controller reports, and whether it reports ok
  scale,    \* is a scale fitted
  pre, post,\* the two averages
  failed,   \* steps of the report that are not ok
  stamp     \* outcome of the job

wvars == <<job, at, tray, falling, paid, counted, scale, pre, post, failed, stamp>>

Stages == {"home", "dispense", "pre", "post", "judge", "present", "telemetry", "report", "done"}

(* A job is at one of its steps.                                           *)
WTypeOK ==
  /\ job \in {"none", "eol", "audit", "selftest"} /\ at \in Stages
  /\ tray + falling = paid /\ tray \in Nat /\ falling \in Nat /\ counted.n \in Nat /\ counted.ok \in BOOLEAN
  /\ failed \subseteq {"home", "dispense", "scale", "UNDERPAY", "OVERPAY", "SENSOR_STUCK",
                      "present", "telemetry"}
  /\ stamp \in {"none", "PASS", "FAIL", "skipped", "aborted"}

WInit ==
  /\ job = "none" /\ at = "done" /\ tray = 0 /\ falling = 0 /\ paid = 0
  /\ counted = [n |-> 0, ok |-> TRUE]
  /\ scale \in BOOLEAN /\ pre = 0 /\ post = 0 /\ failed = {} /\ stamp = "none"

Start(j) ==
  /\ job = "none" /\ job' = j /\ at' = IF j = "audit" THEN "dispense" ELSE "home"
  /\ UNCHANGED <<tray, falling, paid, counted, scale, pre, post, failed, stamp>>

Fail(ok, step) == failed' = IF ok THEN failed ELSE failed \cup {step}

Home(ok) ==
  /\ at = "home" /\ at' = "dispense" /\ Fail(ok, "home")
  /\ UNCHANGED <<job, tray, falling, paid, counted, scale, pre, post, stamp>>

(* The hopper pays k coins, some of which have landed when the call        *)
(* returns, and the controller counts n; it may overrun by one.  The       *)
(* self-test asks for one coin, or for none when enable_coin_test is off.  *)
TestSize == IF job = "selftest" THEN 1 ELSE TestCoins

Dispense(k, landed, n, ok) ==
  /\ at = "dispense" /\ at' = "pre"
  /\ k <= TestSize + 1 /\ n <= TestSize + 1 /\ landed <= k /\ (ok => n >= TestSize)
  /\ paid' = k /\ tray' = landed /\ falling' = k - landed /\ counted' = [n |-> n, ok |-> ok]
  /\ Fail(job = "audit" \/ (ok /\ (job = "selftest" => n = 1)), "dispense")
  /\ UNCHANGED <<job, scale, pre, post, stamp>>

SkipCoinTest ==
  /\ at = "dispense" /\ job = "selftest" /\ at' = "pre"
  /\ UNCHANGED <<job, tray, falling, paid, counted, scale, pre, post, failed, stamp>>

Land ==
  /\ falling > 0 /\ falling' = falling - 1 /\ tray' = tray + 1
  /\ UNCHANGED <<job, at, paid, counted, scale, pre, post, failed, stamp>>

(* Without a scale the weight is taken as right.  An exception of a        *)
(* reading ends the end-of-line test without a report, makes the audit a   *)
(* skipped one and fails the self-test.                                    *)
AfterScale == IF job = "eol" THEN "present" ELSE "report"

NoReading ==
  IF job = "selftest"
  THEN at' = "report" /\ Fail(FALSE, "scale") /\ UNCHANGED stamp
  ELSE at' = "done" /\ UNCHANGED failed /\ stamp' = IF job = "eol" THEN "aborted" ELSE "skipped"

Weigh(ready) ==
  /\ at = "pre"
  /\ CASE ~scale -> at' = AfterScale /\ UNCHANGED <<pre, failed, stamp>>
       [] scale /\ ready -> /\ pre' = tray * CoinRaw
                            /\ at' = IF job = "selftest" THEN "report" ELSE "post"
                            /\ UNCHANGED <<failed, stamp>>
       [] OTHER -> NoReading /\ UNCHANGED pre
  /\ UNCHANGED <<job, tray, falling, paid, counted, scale, post>>

WeighAgain(ready) ==
  /\ at = "post"
  /\ IF ready THEN at' = "judge" /\ post' = tray * CoinRaw /\ UNCHANGED <<failed, stamp>>
     ELSE NoReading /\ UNCHANGED post
  /\ UNCHANGED <<job, tray, falling, paid, counted, scale, pre>>

\* Bug: only an excess fails.
JudgeOver(stuck) ==
  LET n == IF job = "eol" THEN TestCoins ELSE counted.n
  IN /\ at = "judge" /\ at' = AfterScale /\ ~stuck
     /\ failed' = failed \cup (IF post - pre > n * (CoinRaw + TolRaw) THEN {"OVERPAY"} ELSE {})
     /\ UNCHANGED <<job, tray, falling, paid, counted, scale, pre, post, stamp>>

(* eol expects the coins it asked for, audit those that were counted; the  *)
(* tolerance of audit grows with them, and samples that hardly differ make *)
(* it call the sensor stuck.                                               *)
Judge(stuck) ==
  LET n == IF job = "eol" THEN TestCoins ELSE counted.n
      delta == (post - pre) - n * CoinRaw
      tol == IF job = "eol" THEN TolRaw ELSE n * TolRaw
  IN /\ at = "judge" /\ at' = AfterScale /\ (stuck => job = "audit" /\ pre = post)
     /\ failed' = failed \cup (IF delta < -tol THEN {"UNDERPAY"} ELSE {})
                         \cup (IF delta > tol THEN {"OVERPAY"} ELSE {})
                         \cup (IF stuck THEN {"SENSOR_STUCK"} ELSE {})
     /\ UNCHANGED <<job, tray, falling, paid, counted, scale, pre, post, stamp>>

Present(ok) ==
  /\ at = "present" /\ at' = "telemetry" /\ Fail(ok, "present")
  /\ UNCHANGED <<job, tray, falling, paid, counted, scale, pre, post, stamp>>

Telemetry(seen) ==
  /\ at = "telemetry" /\ at' = "report" /\ Fail(seen, "telemetry")
  /\ UNCHANGED <<job, tray, falling, paid, counted, scale, pre, post, stamp>>

ReportJob ==
  /\ at = "report" /\ at' = "done"
  /\ stamp' = IF job = "audit" /\ ~scale THEN "skipped"
              ELSE IF failed = {} THEN "PASS" ELSE "FAIL"
  /\ UNCHANGED <<job, tray, falling, paid, counted, scale, pre, post, failed>>

(* The tray is emptied between two jobs. *)
Clear ==
  /\ job # "none" /\ at = "done" /\ job' = "none" /\ tray' = 0 /\ falling' = 0 /\ paid' = 0
  /\ counted' = [n |-> 0, ok |-> TRUE] /\ pre' = 0 /\ post' = 0 /\ failed' = {} /\ stamp' = "none"
  /\ UNCHANGED <<at, scale>>

WNext ==
  \/ \E j \in {"eol", "audit", "selftest"} : Start(j)
  \/ \E ok \in BOOLEAN : Home(ok) \/ Present(ok) \/ Telemetry(ok)
  \/ \E k, landed, n \in 0..TestCoins + 1, ok \in BOOLEAN : Dispense(k, landed, n, ok)
  \/ \E yes \in BOOLEAN : Weigh(yes) \/ WeighAgain(yes) \/ Judge(yes)
  \/ SkipCoinTest \/ Land \/ ReportJob \/ Clear

WSpec == WInit /\ [][WNext]_wvars
-----------------------------------------------------------------------------
(***************************************************************************)
(* Properties.                                                             *)
(***************************************************************************)
(* A scale that answers is not deceived: when fewer coins were paid than   *)
(* the end-of-line test asked for, or than the controller counted for the  *)
(* audit, neither passes, however late the coins land.                     *)
ShortPayIsCaught ==
  /\ scale /\ job \in {"eol", "audit"}
  /\ paid < (IF job = "eol" THEN TestCoins ELSE counted.n)
  => stamp # "PASS"

(* A unit whose steps all succeed, and whose hopper pays what it was asked *)
(* for, passes the end-of-line test.                                       *)
GoodUnitPasses ==
  /\ job = "eol" /\ at = "done" /\ scale /\ stamp # "aborted"
  /\ paid = TestCoins /\ failed \cap {"home", "dispense", "present", "telemetry"} = {}
  => stamp = "PASS"
=============================================================================
