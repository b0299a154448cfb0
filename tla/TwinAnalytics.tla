---------------------------- MODULE TwinAnalytics ----------------------------
(***************************************************************************)
(* What FleetManager::enrich derives from the telemetry of a drawer: the   *)
(* health score, the maintenance priority, the inventory forecast and the  *)
(* alerts (cloud/analytics).  The telemetry only gets worse and the stock  *)
(* only falls, a field at a time, as between two services.                 *)
(*                                                                         *)
(* The doubles of the code are integers here: scale drift in tenths of a   *)
(* gram, uptime in tenths of a percent, latency in tenths of a second,     *)
(* motor cycles in thousands, and the failure probability in 1/6000, the   *)
(* common denominator of its five terms.                                   *)
(***************************************************************************)
EXTENDS Integers

CONSTANTS
  Ladder,     \* [field -> the values that it takes, worse ones larger]
  Coins,      \* denominations
  Rates,      \* consumption_per_hour
  HopperFull    \* quantity of a full hopper, its capacity

Fields == {"jams", "failures", "drift", "selftest", "outages", "depletions", "downtime",
           "motor", "latency", "offline", "firmware"}

ASSUME AnalyticsAssumption ==
  /\ Ladder \in [Fields -> SUBSET Nat] /\ Rates \subseteq Nat /\ HopperFull \in Nat
  /\ Ladder["offline"] \subseteq 0..2 /\ Ladder["firmware"] \subseteq 0..1

VARIABLES
  wear,      \* the health counters; uptime as the tenths of a percent missed,
             \* connectivity 0 online, 1 degraded, 2 offline, firmware 1 not the target
  level,     \* quantity per denomination
  rate       \* consumption per hour per denomination

avars == <<wear, level, rate>>

least(a, b) == IF a < b THEN a ELSE b
ceil10(n) == (n + 9) \div 10
-----------------------------------------------------------------------------
(***************************************************************************)
(* The engines.                                                            *)
(***************************************************************************)
(* The penalty of each reason; low uptime counts below 99 percent. *)
penalties(w) ==
  [jams |-> least(w.jams * 4, 20), failures |-> least(w.failures * 6, 24),
   drift |-> least(ceil10(w.drift * 3), 15), selftest |-> least(w.selftest * 10, 20),
   outages |-> least(w.outages * 5, 15), depletions |-> least(w.depletions * 4, 12),
   downtime |-> IF w.downtime > 10 THEN least(ceil10((w.downtime - 10) * 2), 10) ELSE 0]

reasons(w) == {f \in DOMAIN penalties(w) : penalties(w)[f] > 0}

score(w) ==
  LET p == penalties(w)
      penalty == p.jams + p.failures + p.drift + p.selftest + p.outages + p.depletions + p.downtime
  IN IF penalty > 100 THEN 0 ELSE 100 - penalty

probability(w) ==
  6 * least(w.motor, 250) + 125 * least(w.jams, 12) + 24 * least(w.drift, 50)
    + 18 * least(w.latency, 50) + 9 * least(w.downtime, 100)

(* 0 is low, 1 warning, 2 critical. *)
maintenance_priority(w) ==
  IF probability(w) >= 4200 THEN 2 ELSE IF probability(w) >= 2400 THEN 1 ELSE 0

drivers(w) ==
  {f \in {"motor", "jams", "drift", "latency", "downtime"} :
     w[f] >= [motor |-> 125, jams |-> 6, drift |-> 25, latency |-> 25, downtime |-> 20][f]}

Used == {c \in Coins : rate[c] > 0}
RunsOutWithin(c, h) == level[c] <= h * rate[c]

refill_recommendations ==
  {<<"refill", c>> : c \in {d \in Used : RunsOutWithin(d, 12)}}
    \cup {<<"schedule", c>> : c \in {d \in Used : RunsOutWithin(d, 24) /\ ~RunsOutWithin(d, 12)}}
    \cup {<<"top off", c>> : c \in {d \in Coins : level[d] < (HopperFull * 15) \div 100}}

(* hours_until_empty is 0 when nothing is used and when something is gone. *)
ForecastIsZero == Used = {} \/ \E c \in Used : level[c] = 0

\* Bug: the critical level of jams is compared with an equality.
evaluate_equal(w) ==
  [jams |-> IF w.jams = 10 THEN 2 ELSE IF w.jams >= 6 THEN 1 ELSE 0,
   outages |-> 0, selftest |-> 0, firmware |-> w.firmware, level |-> 0]

(* Severities of the alerts: 0 none, 1 warning, 2 critical. *)
evaluate(w) ==
  [jams |-> IF w.jams >= 10 THEN 2 ELSE IF w.jams >= 6 THEN 1 ELSE 0,
   outages |-> IF w.outages >= 5 \/ w.offline = 2 THEN 2
               ELSE IF w.outages >= 3 \/ w.offline = 1 THEN 1 ELSE 0,
   selftest |-> IF w.selftest >= 2 THEN 2 ELSE IF w.selftest > 0 THEN 1 ELSE 0,
   firmware |-> w.firmware,
   level |-> IF ForecastIsZero THEN 0
             ELSE IF \E c \in Used : RunsOutWithin(c, 8) THEN 2
             ELSE IF \E c \in Used : RunsOutWithin(c, 24) THEN 1 ELSE 0]
-----------------------------------------------------------------------------
AInit ==
  /\ wear = [f \in Fields |-> 0]
  /\ rate \in [Coins -> Rates]
  /\ level = [c \in Coins |-> HopperFull]

Worsen(f) ==
  /\ \E v \in Ladder[f] : v > wear[f] /\ wear' = [wear EXCEPT ![f] = v]
  /\ UNCHANGED <<level, rate>>

Consume(c) ==
  /\ rate[c] > 0 /\ level[c] > 0
  /\ level' = [level EXCEPT ![c] = @ - 1]
  /\ UNCHANGED <<wear, rate>>

ANext == (\E f \in Fields : Worsen(f)) \/ (\E c \in Coins : Consume(c))

ASpec == AInit /\ [][ANext]_avars
-----------------------------------------------------------------------------
(***************************************************************************)
(* Properties.                                                             *)
(***************************************************************************)
(* The score is in 0..100, and with no penalty there is no reason.         *)
ATypeOK ==
  /\ score(wear) \in 0..100 /\ (score(wear) = 100 <=> reasons(wear) = {})
  /\ probability(wear) \in 0..6000
  /\ level \in [Coins -> 0..HopperFull]

(* Worse telemetry never improves the assessment: the score does not rise, *)
(* no reason, driver or alert disappears, and the priority does not fall.  *)
WearNeverHelps ==
  [][wear' # wear =>
     /\ score(wear') <= score(wear) /\ reasons(wear) \subseteq reasons(wear')
     /\ maintenance_priority(wear') >= maintenance_priority(wear)
     /\ drivers(wear) \subseteq drivers(wear')
     /\ \A f \in {"jams", "outages", "selftest", "firmware"} : evaluate(wear')[f] >= evaluate(wear)[f]]_avars

(* A critical priority is explained: two of the five drivers are named.    *)
CriticalIsExplained ==
  maintenance_priority(wear) = 2 => \E f, g \in drivers(wear) : f # g

(* A stock alert comes with advice: whatever runs out within a day is on   *)
(* the list of the forecast, and within eight hours as an urgent refill.   *)
StockAlertHasAdvice ==
  LET urgent == {r \in refill_recommendations : r[1] = "refill"}
  IN /\ evaluate(wear).level = 2 => urgent # {}
     /\ evaluate(wear).level = 1 => refill_recommendations # {}
=============================================================================
