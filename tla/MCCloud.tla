------------------------------ MODULE MCCloud ------------------------------
(***************************************************************************)
(* The control plane, the cash service, the trust service and the edge     *)
(* platform of one server under small workloads.                           *)
(* Each initial state fixes what the clients do from then on, so the       *)
(* workloads add up instead of multiplying.                                *)
(***************************************************************************)
EXTENDS EdgePlatform

VARIABLE work
mcvars == <<cvars, kvars, vvars, evars, work>>

CONSTANTS d1, d2, o1, o2, site, n1

Body(d, event, type, expected, observed, at) ==
  [dev |-> d, site |-> site, event |-> event, type |-> type, expected |-> expected,
   observed |-> observed, at |-> at, dup |-> FALSE]
MCBodies ==
  {Body(d1, "e1", "transaction", 1000, 1000, 36000),
   Body(d2, "e1", "transaction", 1000, 400, 43200),
   Body(d1, "e2", "drawer_open", 0, -12000, 3600),
   Body(d1, "", "cash_out", 12000, 1000, 90000)}
MCObserved == {0, 1000, 13000}
MCCashTimes == {36000, 180000}
MCDenominations == {1, 5, 10, 25}
MCTargets == {-1, 4, 30, 68}

Post(id, t, d, type, at) ==
  [id |-> id, tenant |-> t, dev |-> d, type |-> type, at |-> at, about |-> ""]
MCPosts == {Post(0, o1, d1, "anomaly_detected", 1), Post(2, o1, d2, "heartbeat", 2),
            Post(0, o1, d2, "reconciliation_variance_detected", 0)}
MCCapSets == {{}, {"inventory"}}

Works == {"commands", "presence", "ledger", "detect", "inventory", "trust", "policy", "screen", "damage"}
MCInit == /\ CInit /\ KInit /\ VInit /\ EInit /\ work \in Works
          /\ (work # "policy" => production)

(* One device that changes owner, one tenant that commands it. *)
CommandWork ==
  \/ \E o \in Orgs : register_device(None, d1, [org |-> o, online |-> FALSE, seen |-> 0, penalty |-> 0])
  \/ LookupDevice("command", o1, d1)
  \/ \E known \in BOOLEAN : create_command(known, 0, 1, 1)
  \/ \E now \in {1, 2} : deliver_next_command(d1, now)
  \/ \E i \in 1..MaxCommands : acknowledge_command(d1, i)
  \/ expire_commands(2)

PresenceWork ==
  \/ \E t \in {o1, None}, n \in Nodes, o \in {o1, None} : Upsert(t, n, o)
  \/ \E d \in Devices, r \in DeviceRecords : r.org = o1 /\ r.penalty = 0 /\ register_device(o1, d, r)
  \/ \E t \in {o1, o2}, d \in Devices : LookupDevice("heartbeat", t, d)
  \/ \E now \in Times : receive_heartbeat(now) \/ detect_stale_devices(now)
  \/ \E t \in {o1, None}, i \in 1..MaxAlerts : acknowledge_alert(t, i)

LedgerWork ==
  \/ \E b \in Bodies : add_ledger_entry(None, b)
  \/ \E x \in Scopes, observed \in Observed : reconcile(x, observed, 36000)

DetectWork ==
  \/ \E b \in Bodies : add_ledger_entry(o1, b)
  \/ register_device(o1, d1, [org |-> o1, online |-> FALSE, seen |-> 0, penalty |-> 0]) /\ UNCHANGED kvars
  \/ \E x \in Scopes : DetectStart(x, 36000)
  \/ DetectAlert \/ DetectSave

InventoryWork ==
  \/ \E b \in Bodies : add_ledger_entry(None, b)
  \/ \E now \in CashTimes : update_inventory(d1, now) \/ forecast(d1, now)

(* Evidence of two devices of one tenant, and a device that is offline. *)
TrustWork ==
  \/ /\ \E p \in Posts : PostEvidence(o1, p)
     /\ UNCHANGED <<cvars, kvars>>
  \/ /\ \E i \in 1..MaxEvidence : AlterRecord(i) \/ LoseRecord(i)
     /\ UNCHANGED <<cvars, kvars>>
  \/ /\ \E r \in DeviceRecords : r.org = o1 /\ r.seen = 0 /\ register_device(o1, d1, r)
     /\ UNCHANGED <<kvars, vvars>>

JobSteps == \/ RegisterInFleet \/ AskPolicy \/ emit_trust_evidence \/ SaveJob
            \/ \E ok \in BOOLEAN : RunDriver(ok)

(* One device that changes owner and is sent high-risk commands. *)
PolicyWork ==
  \/ /\ \/ \E o \in Orgs : Len(evidence) < 2 /\ register_device_edge(None, d1, o, "cash_drawer", {}, TRUE)
        \/ \E c \in {"dispense_cash", "unlock"} : AdmitCommand(o1, d1, c, 1)
        \/ execute_command
     /\ UNCHANGED <<cvars, kvars, vvars>>
  \/ JobSteps
  \/ /\ VeilSwitch \/ (decisions = <<>> /\ PreviewPolicy(o1, d1, "unlock"))
     /\ UNCHANGED <<cvars, kvars, evars>>

(* Commands that the checks of the platform and its drivers turn down. *)
ScreenWork ==
  \/ /\ \/ \E caps \in CapSets, driver \in BOOLEAN :
             evidence = <<>> /\ register_device_edge(o1, d1, o1, "cash_drawer", caps, driver)
        \/ \E t \in {o1, None}, c \in Commands \ {"unlock", "dispense_cash"} : AdmitCommand(t, d1, c, 1)
        \/ execute_command
        \/ \E action \in {"offline", "online"} : simulate(o1, d1, action, FALSE)
     /\ UNCHANGED <<cvars, kvars, vvars>>
  \/ JobSteps

(* Inventories and faults of a device whose evidence is damaged. *)
DamageLocalWork ==
  \/ register_device_edge(o1, d1, o1, "kiosk", {}, TRUE)
  \/ \E bad \in 0..1, at \in EdgeTimes : update_inventory_edge(o1, d1, bad, at)
  \/ \E action \in {"telemetry", "fault", "cash_in"}, flag \in BOOLEAN :
       /\ \A d \in DOMAIN edge : edge[d].faults = 0
       /\ simulate(o1, d1, action, flag)
  \/ register_capability(o1, d1, "cash_in")
DamageWork ==
  \/ DamageLocalWork /\ UNCHANGED <<cvars, kvars, vvars>>
  \/ RegisterInFleet \/ emit_trust_evidence \/ SaveJob
  \/ (\E i \in 1..MaxEvidence : AlterRecord(i) \/ LoseRecord(i)) /\ UNCHANGED <<cvars, kvars, evars>>

MCNext ==
  /\ \/ work = "commands" /\ CommandWork /\ UNCHANGED <<kvars, vvars, evars>>
     \/ work = "presence" /\ PresenceWork /\ UNCHANGED <<kvars, vvars, evars>>
     \/ work = "ledger" /\ LedgerWork /\ UNCHANGED <<vvars, evars>>
     \/ work = "detect" /\ DetectWork /\ UNCHANGED <<vvars, evars>>
     \/ work = "inventory" /\ InventoryWork /\ UNCHANGED <<vvars, evars>>
     \/ work = "trust" /\ TrustWork /\ UNCHANGED evars
     \/ work = "policy" /\ PolicyWork
     \/ work = "screen" /\ ScreenWork
     \/ work = "damage" /\ DamageWork
     \/ EdgeRestart
     \/ work = "commands" /\ ControlTorn /\ UNCHANGED <<kvars, vvars, evars>>
     \/ work = "ledger" /\ CashTorn /\ UNCHANGED <<vvars, evars>>
     \/ work = "trust" /\ VeilTorn /\ UNCHANGED evars
     \/ work = "damage" /\ EdgeTorn
  /\ UNCHANGED work

(* Devices poll: deliver_next_command is called again and again. *)
MCSpec == /\ MCInit /\ [][MCNext]_mcvars
          /\ WF_mcvars(\E now \in {1, 2} : work = "commands" /\ deliver_next_command(d1, now)
                                           /\ UNCHANGED <<kvars, vvars, evars, work>>)
=============================================================================
