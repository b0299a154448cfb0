-------------------------- MODULE CashIntelligence --------------------------
(***************************************************************************)
(* The cash service (cloud/cash_intelligence/service.cpp, routes.cpp): the *)
(* ledger, inventories, reconciliation, forecasts, anomalies and health.   *)
(* It calls the fleet control plane, which has a mutex and a store of its  *)
(* own.                                                                    *)
(*                                                                         *)
(* Every operation holds mu_ to its end.  All but detect_anomalies touch   *)
(* the cash store only and are one action; detect_anomalies raises one     *)
(* alert after the other in the control plane, each saved there, before it *)
(* saves its own findings, and the process may die in between.  Amounts    *)
(* and times are integers.  A reply that changes nothing is an operator.   *)
(* One currency is modelled: it only selects entries.  Actor, audit and    *)
(* event records are left out.                                             *)
(***************************************************************************)
EXTENDS FleetControl, Functions, Folds

CONSTANTS
  Sites,         \* branches, merchants and regions
  Bodies,        \* the entries that clients post
  CashTimes,     \* the times that clients name
  Observed,      \* the balances that clients count
  MaxEntries,    \* bound: ledger entries
  MaxReports,    \* bound: reports and detections
  Denominations, \* denomination_sets_ of the currency
  Targets        \* balances to make up from denominations

VARIABLES
  ledger,      \* ledger_
  seen,        \* seen_event_ids_, in memory only
  reports,     \* reports_
  anomalies,   \* anomalies_
  inventory,   \* inventories_: updated_at_epoch, 0 for none
  newest,      \* the latest occurred_at_epoch in events_
  detecting    \* detect_anomalies at work: what it found, how many alerts it has raised

kvars == <<ledger, seen, reports, anomalies, inventory, newest, detecting>>

Hour == 3600
Day == 24 * Hour
EventTypes == {"transaction", "drawer_open", "manual_adjustment", "cash_out", "inventory_snapshot"}
NoEvent == ""
Scopes == Devices \cup Sites
AllBodies == [dev : Devices, site : Sites, event : STRING, type : EventTypes,
              expected : Int, observed : Int, at : Nat, dup : BOOLEAN]
Entries == [dev : Devices, site : Sites, event : STRING, type : EventTypes,
            expected : Int, observed : Int, at : Nat, dup : BOOLEAN, variance : Int]
Statuses == {"balanced", "unresolved", "suspected_fraud", "suspected_loss",
             "major_variance", "minor_variance"}
Reports == [scope : Scopes, status : Statuses, variance : Int, observed : Int,
            upto : Nat]   \* history: how many entries it has seen
Findings == [scope : Scopes, dev : Devices \cup {None}, type : FindingTypes,
             severity : {"critical", "warning"}]

ASSUME CashAssumption ==
  /\ Bodies \subseteq AllBodies /\ Observed \subseteq Int /\ CashTimes \subseteq Nat
  /\ Devices \cap Sites = {}
  /\ MaxEntries \in Nat /\ MaxReports \in Nat
  /\ Denominations \subseteq Nat \ {0} /\ IsFiniteSet(Denominations) /\ Targets \subseteq Int

KTypeOK ==
  /\ ledger \in Seq(Entries)
  /\ seen \subseteq STRING
  /\ reports \in Seq(Reports)
  /\ anomalies \in Seq(Findings)
  /\ inventory \in [Scopes -> Nat]
  /\ newest \in Nat
  /\ detecting \subseteq [found : Seq(Findings), raised : Nat, now : Nat]

KInit ==
  /\ ledger = <<>> /\ seen = {} /\ reports = <<>> /\ anomalies = <<>>
  /\ inventory = [x \in Scopes |-> 0] /\ newest = 0 /\ detecting = {}

Idle == Up /\ detecting = {}    \* mu_ of the cash service is free
Later(a, b) == IF a > b THEN a ELSE b
Abs(n) == IF n < 0 THEN -n ELSE n
Last(s) == s[Len(s)]
-----------------------------------------------------------------------------
(***************************************************************************)
(* Ledger and inventory.                                                   *)
(***************************************************************************)
(* An event that the ledger has seen before is kept and marked. *)
Entry(b) ==
  [dev |-> b.dev, site |-> b.site, event |-> b.event, type |-> b.type, expected |-> b.expected,
   observed |-> b.observed, at |-> b.at, variance |-> b.observed - b.expected,
   dup |-> b.dup \/ (b.event # NoEvent /\ b.event \in seen)]

tenant_allows_device(tenant, d) ==
  tenant = None \/ (d \in DOMAIN registry /\ registry[d].org = tenant)

add_ledger_entry(tenant, b) ==
  /\ Idle /\ tenant_allows_device(tenant, b.dev) /\ Len(ledger) < MaxEntries
  /\ ledger' = Append(ledger, Entry(b))
  /\ seen' = seen \cup ({b.event} \ {NoEvent})
  /\ newest' = Later(newest, b.at)
  /\ UNCHANGED <<reports, anomalies, inventory, detecting>> /\ UNCHANGED cvars

update_inventory(scope, at) ==
  /\ Idle
  /\ inventory' = [inventory EXCEPT ![scope] = at]
  /\ newest' = Later(newest, at)
  /\ UNCHANGED <<ledger, seen, reports, anomalies, detecting>> /\ UNCHANGED cvars
-----------------------------------------------------------------------------
(***************************************************************************)
(* Reconciliation and forecasts.                                           *)
(***************************************************************************)
scope_matches(e, scope) == scope \in {e.dev, e.site}
Matched(scope) == {i \in DOMAIN ledger : scope_matches(ledger[i], scope)}
Expected(mine) == SumFunction([i \in mine |-> ledger[i].expected])
Variance(mine) == SumFunction([i \in mine |-> ledger[i].variance])

\* Bug: the marks of add_ledger_entry are not looked at.
DuplicatedIgnored(mine) == FALSE

Duplicated(mine) ==
  \E i \in mine :
    \/ ledger[i].dup
    \/ \E j \in mine : j < i /\ ledger[i].event # NoEvent /\ ledger[j].event = ledger[i].event

(* A drawer that was opened, and a stale snapshot, leave a report with no  *)
(* variance at its default, "balanced". *)
Status(mine, variance) ==
  LET opened == \E i \in mine : ledger[i].type = "drawer_open"
  IN IF mine = {} \/ Duplicated(mine) THEN "unresolved"
     ELSE IF variance = 0 THEN "balanced"
     ELSE IF opened THEN "suspected_fraud"
     ELSE IF variance < -5000 THEN "suspected_loss"
     ELSE IF variance > 10000 THEN "major_variance"
     ELSE "minor_variance"

reconcile(scope, observed, now) ==
  LET variance == observed - Expected(Matched(scope))
  IN /\ Idle /\ Len(reports) < MaxReports
     /\ reports' = Append(reports, [scope |-> scope, variance |-> variance, observed |-> observed,
                       status |-> Status(Matched(scope), variance), upto |-> Len(ledger)])
     /\ newest' = Later(newest, now)
     /\ UNCHANGED <<ledger, seen, anomalies, inventory, detecting>> /\ UNCHANGED cvars

(* C++ division rounds towards zero. *)
Quotient(n, d) == IF n < 0 THEN -((-n) \div d) ELSE n \div d
Least(S) == CHOOSE x \in S : \A y \in S : x <= y
Greatest(S) == CHOOSE x \in S : \A y \in S : y <= x

(* An entry at time 0 leaves first_time open for the next entry. *)
FirstTime(mine) ==
  MapThenFoldSet(LAMBDA at, t : IF t = 0 \/ at < t THEN at ELSE t, 0,
                 LAMBDA i : ledger[i].at, Greatest, mine)

Latest(mine) == IF mine = {} THEN 0 ELSE ledger[Greatest(mine)].observed

\* Bug: the lead time is taken off without a look at the clock.
ForecastEarly(scope, now) ==
  LET latest == Latest(Matched(scope))
      hourly == Variance(Matched(scope))
      depletion == now + Quotient(latest, Later(1, -hourly)) * Hour
      short == hourly < 0 /\ latest > 0
  IN [depletion |-> IF short THEN depletion ELSE 0,
      replenish |-> IF short THEN depletion - 12 * Hour ELSE 0, surplus |-> 0]

Forecast(scope, now) ==
  LET mine == Matched(scope)
      latest == Latest(mine)
      end == Greatest({0} \cup {ledger[i].at : i \in mine})
      hours == Later(1, Quotient(end - FirstTime(mine), Hour))
      hourly == Quotient(Variance(mine), hours)
      depletion == now + Quotient(latest, Later(1, -hourly)) * Hour
      short == hourly < 0 /\ latest > 0
  IN [depletion |-> IF short THEN depletion ELSE 0,
      replenish |-> IF short THEN Later(now, depletion - 12 * Hour) ELSE 0,
      surplus |-> IF hourly > 0 THEN now + Day ELSE 0]

(* The forecast is stored; only its event is looked at again. *)
forecast(scope, now) ==
  /\ Idle
  /\ newest' = Later(newest, now)
  /\ UNCHANGED <<ledger, seen, reports, anomalies, inventory, detecting>> /\ UNCHANGED cvars

(* recommend_mix: greedy, from the largest denomination down: the fold takes
   off the least one last. *)
recommend_mix(target) ==
  MapThenFoldSet(LAMBDA d, m : [mix |-> m.mix + d * (m.left \div d), left |-> m.left % d],
                 [mix |-> 0, left |-> target], LAMBDA d : d, Least, Denominations)

(* The balance that dashboard asks a mix for: 100.00 more than is missing. *)
dashboard(scope) == Later(0, 10000 - Variance(Matched(scope)))
-----------------------------------------------------------------------------
(***************************************************************************)
(* Anomalies, health, restart.                                             *)
(***************************************************************************)
Finding(scope, d, type, severity) ==
  [scope |-> scope, dev |-> d, type |-> type, severity |-> severity]
AfterHours(at) == at % Day < 6 * Hour \/ at % Day > 22 * Hour
When(condition, finding) == IF condition THEN <<finding>> ELSE <<>>
OfType(s, type) == {i \in DOMAIN s : s[i].type = type}

EntryFindings(scope, e) ==
  When(e.variance <= -10000, Finding(scope, e.dev, "large_one_time_variance", "critical"))
  \o When(e.type = "drawer_open" /\ AfterHours(e.at),
          Finding(scope, e.dev, "after_hours_drawer_activity", "warning"))

(* Nothing marks the entries that an earlier detection has reported. *)
Detected(scope) ==
  LET mine == Matched(scope)
  IN MapThenFoldSet(\o, <<>>, LAMBDA i : EntryFindings(scope, ledger[i]), Least, mine)
     \o When(Cardinality({i \in mine : ledger[i].variance \in -999..-1}) >= 3,
             Finding(scope, None, "repeated_small_shortages", "warning"))
     \o When(Cardinality(mine \cap OfType(ledger, "manual_adjustment")) > 3,
             Finding(scope, None, "excessive_manual_adjustments", "warning"))
     \o When(Cardinality(mine \cap OfType(ledger, "cash_out")) > 5,
             Finding(scope, None, "unusual_cash_out_frequency", "warning"))

\* Bug: the findings are stored before the alerts are raised.
DetectStartStored(scope, now) ==
  /\ Idle /\ Len(alerts) + Len(Detected(scope)) <= MaxAlerts
  /\ detecting' = {[found |-> Detected(scope), raised |-> 0, now |-> now]}
  /\ anomalies' = anomalies \o Detected(scope)
  /\ UNCHANGED <<ledger, seen, reports, inventory, newest>> /\ UNCHANGED cvars

DetectStart(scope, now) ==
  /\ Idle /\ Len(alerts) + Len(Detected(scope)) <= MaxAlerts
  /\ detecting' = {[found |-> Detected(scope), raised |-> 0, now |-> now]}
  /\ UNCHANGED <<ledger, seen, reports, anomalies, inventory, newest>> /\ UNCHANGED cvars

(* The alert goes to the owner of the device, to nobody for a scope. *)
DetectAlert ==
  /\ Up
  /\ \E w \in detecting :
       LET f == w.found[w.raised + 1]
       IN /\ w.raised < Len(w.found)
          /\ create_alert(IF f.dev \in DOMAIN registry THEN registry[f.dev].org ELSE None,
                          f.dev, f.type)
          /\ detecting' = {[w EXCEPT !.raised = @ + 1]}
  /\ UNCHANGED <<ledger, seen, reports, anomalies, inventory, newest>>
  /\ UNCHANGED <<hierarchy, registry, commands, acknowledged, acks, lookup, torn>>

DetectSave ==
  /\ Up
  /\ \E w \in detecting :
       /\ w.raised = Len(w.found)
       /\ anomalies' = anomalies \o w.found
       /\ newest' = IF w.found = <<>> THEN newest ELSE Later(newest, w.now)
  /\ detecting' = {}
  /\ UNCHANGED <<ledger, seen, reports, inventory>> /\ UNCHANGED cvars

severity_weight(severity) == IF severity = "critical" THEN 25 ELSE 10

CashHealth(scope) ==
  LET worst == Greatest({0} \cup {Abs(r.variance) : r \in {x \in Range(reports) : x.scope = scope}})
      stale == inventory[scope] > 0 /\ newest - inventory[scope] > Day
      mine == {i \in DOMAIN anomalies : anomalies[i].scope = scope}
      penalty == Least({40, worst \div 1000}) + (IF stale THEN 10 ELSE 0)
                 + SumFunction([i \in mine |-> severity_weight(anomalies[i].severity)])
  IN Later(0, 100 - penalty)

(* load() fills seen_event_ids_ from the ledger. *)
load_seen == {ledger[i].event : i \in DOMAIN ledger} \ {NoEvent}

CashRestart ==
  /\ ControlRestart
  /\ seen' = load_seen /\ detecting' = {}
  /\ UNCHANGED <<ledger, reports, anomalies, inventory, newest>>

CashTorn == Up /\ torn' = {"cash"}
            /\ UNCHANGED <<hierarchy, registry, commands, alerts, acknowledged, acks, lookup>>
            /\ UNCHANGED kvars

CashNext ==
  \/ \E t \in Tenants, b \in Bodies : add_ledger_entry(t, b)
  \/ \E x \in Scopes, now \in CashTimes : update_inventory(x, now) \/ forecast(x, now)
  \/ \E x \in Scopes, observed \in Observed, now \in CashTimes : reconcile(x, observed, now)
  \/ \E x \in Scopes, now \in CashTimes : DetectStart(x, now)
  \/ DetectAlert \/ DetectSave

KStep == CashNext \/ CashTorn
         \/ (UNCHANGED kvars /\ (CommandNext \/ RegistryNext \/ ControlTorn))
KNext == KStep \/ CashRestart

KSpec == CInit /\ KInit /\ [][KNext]_<<cvars, kvars>>
-----------------------------------------------------------------------------
(***************************************************************************)
(* Properties.                                                             *)
(***************************************************************************)
SameEvent(i, j) == ledger[i].event # NoEvent /\ ledger[i].event = ledger[j].event
Repeats(i) == \E j \in 1..i - 1 : SameEvent(i, j)

(* add_ledger_entry marks an event that the ledger already holds, also     *)
(* when the process restarted in between and when the first copy was       *)
(* posted for another device.                                              *)
DuplicatesMarked == \A i \in DOMAIN ledger : Repeats(i) => ledger[i].dup

(* reconcile calls a scope balanced only when the cash that was counted is *)
(* what the distinct events of the scope lead to expect: an event that was *)
(* delivered twice never closes a gap.                                     *)
BalancedIsTrue ==
  \A r \in Range(reports) :
    LET once == {i \in 1..r.upto : scope_matches(ledger[i], r.scope) /\ ~Repeats(i)}
    IN r.status = "balanced" =>
         r.observed = SumFunction([i \in once |-> ledger[i].expected])

(* detect_anomalies raises the alerts of its findings before it stores     *)
(* them: a crash in between may leave alerts without an anomaly, and never *)
(* a stored anomaly that nobody was alerted to.                            *)
AnomalyHasAlert ==
  \A f \in Range(anomalies) :
    Cardinality(OfType(anomalies, f.type)) <= Cardinality(OfType(alerts, f.type))

(* Advice is sound.  The replenishment that forecast recommends is not in  *)
(* the past and not after the moment at which the cash runs out; and what  *)
(* recommend_mix leaves open of a target, the balances that dashboard asks *)
(* for among them, is less than the smallest denomination.                 *)
AdviceIsSound ==
  /\ \A x \in Scopes, now \in CashTimes :
       LET f == Forecast(x, now)
       IN f.depletion # 0 => now <= f.replenish /\ f.replenish <= f.depletion
  /\ \A t \in Targets \cup {dashboard(x) : x \in Scopes} :
       LET m == recommend_mix(t)
       IN t > 0 => m.mix + m.left = t /\ (\A d \in Denominations : m.left < d)
=============================================================================
