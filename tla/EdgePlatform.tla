---------------------------- MODULE EdgePlatform ----------------------------
(***************************************************************************)
(* The edge platform (edge_platform/service.cpp, driver.cpp, routes.cpp):  *)
(* financial devices, their capabilities, drivers, simulator state and     *)
(* commands.  It registers devices with the control plane and asks the     *)
(* trust service for policy and evidence.                                  *)
(*                                                                         *)
(* An operation holds mu_ to its end, but what it does in the other        *)
(* services is saved there at once, before the platform saves its own      *)
(* state: job holds an operation between these steps, and a crash in       *)
(* between loses the job and nothing else.  The routes check the tenant    *)
(* before the operation takes mu_.  Command counts are in memory only.     *)
(***************************************************************************)
EXTENDS VeilTrust

CONSTANTS
  Commands,     \* commands that clients send
  Kinds,        \* device types that clients register
  CapSets,      \* capabilities that they name, {} for none
  EdgeTimes,    \* times that clients name
  MaxResults    \* bound: command results, and calls of a driver

(* A record of the fleet that nothing is known of costs its device nothing,*)
(* and policy is asked about commands.                                     *)
ASSUME EdgeAssumption ==
  /\ 0 \in Penalties /\ EdgeTimes \subseteq Nat
  /\ Commands \subseteq Actions

VARIABLES
  edge,        \* devices_, inventories_ and simulator_ of each registered device
  results,     \* command_results_
  counted,     \* command_count_, command_failures_
  admitted,    \* the request that has passed device_allowed
  job,         \* the operation that holds mu_
  performed    \* history: the commands that a driver was given

evars == <<edge, results, counted, admitted, job, performed>>

Capabilities == {"inventory", "sensor_telemetry", "command_execution", "firmware_update", "identity",
                 "evidence_export", "cash_in", "cash_out", "open_close", "lock_control"}
                \cup UNION CapSets
Reasons == {"unknown_device", "unsupported_command", "missing_capability", "device_offline",
            "policy_denied", "driver_missing", "driver_unhealthy", "driver_executed"}
EdgeRecords == [tenant : Orgs, caps : SUBSET Capabilities, driver : BOOLEAN, online : BOOLEAN,
                faults : Nat, bad : Nat, maintenance : BOOLEAN]
Requests == [dev : Devices, command : Commands, at : Nat]
Results == [dev : Devices, command : Commands, executed : BOOLEAN, reason : Reasons]

EInit ==
  /\ edge = [d \in {} |-> 0] /\ results = <<>> /\ performed = <<>>
  /\ counted = [d \in Devices |-> [total |-> 0, failed |-> 0]]
  /\ admitted = {} /\ job = {}

(* Memory and store hold well-formed records, and a job is at a known step.*)
ETypeOK ==
  /\ DOMAIN edge \subseteq Devices
  /\ \A d \in DOMAIN edge : edge[d] \in EdgeRecords
  /\ results \in Seq(Results)
  /\ \A d \in Devices : counted[d].failed <= counted[d].total
  /\ admitted \subseteq Requests
  /\ \A j \in job : j.stage \in {"fleet", "policy", "driver", "evidence", "save"}

(* The four services of the server hold well-formed data only.             *)
CloudTypeOK == CTypeOK /\ KTypeOK /\ VTypeOK /\ ETypeOK
-----------------------------------------------------------------------------
(***************************************************************************)
(* Capabilities and commands.                                              *)
(***************************************************************************)
known_device_type(kind) ==
  kind \in {"cash_drawer", "smart_safe", "cash_recycler", "teller_station",
            "kiosk", "atm_like_terminal"}

default_capabilities_for_type(kind) ==
  {"inventory", "sensor_telemetry", "command_execution", "firmware_update", "identity",
   "evidence_export"}
  \cup {c \in {"cash_in"} : kind \notin {"cash_drawer", "atm_like_terminal"}}
  \cup {c \in {"cash_out"} : kind # "smart_safe"}
  \cup {c \in {"open_close"} : kind \in {"cash_drawer", "smart_safe", "teller_station"}}
  \cup {c \in {"lock_control"} : kind # "teller_station"}

capability_for_command(command) ==
  CASE command \in {"lock", "unlock"} -> "lock_control"
    [] command \in {"open", "close"} -> "open_close"
    [] command = "dispense_cash" -> "cash_out"
    [] command = "accept_cash" -> "cash_in"
    [] command \in {"count_cash", "reconcile_device"} -> "inventory"
    [] command = "run_self_test" -> "sensor_telemetry"
    [] command = "rotate_keys" -> "identity"
    [] command = "export_evidence" -> "evidence_export"
    [] command \in {"enter_maintenance_mode", "exit_maintenance_mode"} -> "command_execution"
    [] OTHER -> ""

high_risk_command(command) ==
  command \in {"lock", "unlock", "open", "dispense_cash", "accept_cash", "rotate_keys",
               "export_evidence", "enter_maintenance_mode"}

Free == Up /\ job = {}    \* mu_ of the platform is free
Job(stage, d, rec, type, at, command, executed, reason) ==
  [stage |-> stage, dev |-> d, rec |-> rec, type |-> type, at |-> at,
   command |-> command, executed |-> executed, reason |-> reason, decision |-> 0]
-----------------------------------------------------------------------------
(***************************************************************************)
(* Operations that start a job.  An empty command marks a job that leaves  *)
(* no result.                                                              *)
(***************************************************************************)
register_device_edge(tenant, d, org, kind, caps, driver) ==
  LET rec == [tenant |-> org, driver |-> driver,
              caps |-> IF caps = {} THEN default_capabilities_for_type(kind) ELSE caps,
              online |-> TRUE, faults |-> 0, bad |-> 0, maintenance |-> FALSE]
  IN /\ Free /\ allowed_tenant(tenant, org) /\ known_device_type(kind)
     /\ job' = {Job("fleet", d, rec, "edge_device_registered", 0, "", FALSE, "")}
     /\ UNCHANGED <<edge, results, counted, admitted, performed>>

device_allowed(tenant, d) == tenant = None \/ (d \in DOMAIN edge /\ edge[d].tenant = tenant)

update_inventory_edge(tenant, d, bad, at) ==
  /\ Free /\ device_allowed(tenant, d) /\ d \in DOMAIN edge
  /\ job' = {Job("evidence", d, [edge[d] EXCEPT !.bad = bad], "edge_inventory_updated", at,
                 "", FALSE, "")}
  /\ UNCHANGED <<edge, results, counted, admitted, performed>>

AdmitCommand(tenant, d, command, at) ==
  /\ Free /\ admitted = {} /\ Len(results) < MaxResults /\ device_allowed(tenant, d)
  /\ admitted' = {[dev |-> d, command |-> command, at |-> at]}
  /\ UNCHANGED <<edge, results, counted, job, performed>>

(* The checks of execute_command, in their order. *)
Screened(r) ==
  LET rec == edge[r.dev]
      capability == capability_for_command(r.command)
      step(stage, type, reason) == Job(stage, r.dev, rec, type, r.at, r.command, FALSE, reason)
  IN IF r.dev \notin DOMAIN edge
     THEN Job("save", r.dev, <<>>, "", r.at, r.command, FALSE, "unknown_device")
     ELSE IF capability = ""
     THEN step("evidence", "unsupported_command_rejected", "unsupported_command")
     ELSE IF capability \notin rec.caps
     THEN step("evidence", "unsupported_command_rejected", "missing_capability")
     ELSE IF ~rec.online THEN step("save", "", "device_offline")
     ELSE IF high_risk_command(r.command) THEN step("policy", "", "")
     ELSE step("driver", "", "")

execute_command ==
  /\ Free
  /\ \E r \in admitted : job' = {Screened(r)}
  /\ admitted' = {}
  /\ UNCHANGED <<edge, results, counted, performed>>
-----------------------------------------------------------------------------
(***************************************************************************)
(* The steps of a job.                                                     *)
(***************************************************************************)
RegisterInFleet ==
  /\ Up
  /\ \E j \in job :
       /\ j.stage = "fleet"
       /\ PutDevice(j.dev, [org |-> j.rec.tenant, online |-> FALSE, seen |-> 0, penalty |-> 0])
       /\ job' = {[j EXCEPT !.stage = "evidence"]}
  /\ UNCHANGED <<edge, results, counted, admitted, performed>>
  /\ UNCHANGED <<hierarchy, commands, alerts, acknowledged, acks, lookup, torn>>
  /\ UNCHANGED kvars /\ UNCHANGED vvars

AskPolicy ==
  /\ Up /\ Len(decisions) < MaxDecisions
  /\ \E j \in job :
       /\ j.stage = "policy"
       /\ verify_policy(j.rec.tenant, j.dev, j.command)
       /\ job' = {IF Last(decisions').allowed
                  THEN [j EXCEPT !.stage = "driver", !.decision = Len(decisions')]
                  ELSE [j EXCEPT !.stage = "evidence", !.type = "edge_policy_denied_command",
                                 !.reason = "policy_denied"]}
  /\ UNCHANGED <<edge, results, counted, admitted, performed>>
  /\ UNCHANGED <<evidence, production, reachable, damaged>>
  /\ UNCHANGED cvars /\ UNCHANGED kvars

\* Bug: no evidence of what the driver did.
DrivenSilent(j, ok) == [j EXCEPT !.executed = ok, !.stage = "save"]

(* The maintenance flag follows the command whether the driver could do it *)
(* or not, and so does the evidence. *)
Driven(j, ok) ==
  LET done == [j EXCEPT !.executed = ok,
                        !.reason = IF ok THEN "driver_executed" ELSE "driver_unhealthy",
                        !.rec.maintenance = CASE j.command = "enter_maintenance_mode" -> TRUE
                                              [] j.command = "exit_maintenance_mode" -> FALSE
                                              [] OTHER -> @]
  IN IF high_risk_command(j.command)
     THEN [done EXCEPT !.stage = "evidence", !.type = "edge_command_executed"]
     ELSE [done EXCEPT !.stage = "save"]

RunDriver(ok) ==
  /\ Up /\ Len(performed) < MaxResults
  /\ \E j \in job :
       /\ j.stage = "driver"
       /\ IF j.rec.driver
          THEN /\ performed' = Append(performed, [dev |-> j.dev, command |-> j.command,
                                                  decision |-> j.decision])
               /\ job' = {Driven(j, ok)}
          ELSE /\ job' = {[j EXCEPT !.stage = "save", !.reason = "driver_missing"]}
               /\ UNCHANGED performed
  /\ UNCHANGED <<edge, results, counted, admitted>>
  /\ UNCHANGED cvars /\ UNCHANGED kvars /\ UNCHANGED vvars

emit_trust_evidence ==
  /\ Up /\ Len(evidence) < MaxEvidence
  /\ \E j \in job :
       /\ j.stage = "evidence"
       /\ create_evidence([id |-> 0, tenant |-> j.rec.tenant, dev |-> j.dev, type |-> j.type,
                           at |-> j.at, about |-> j.command])
       /\ job' = {[j EXCEPT !.stage = "save"]}
  /\ UNCHANGED <<edge, results, counted, admitted, performed>>
  /\ UNCHANGED <<decisions, production, reachable, damaged>>
  /\ UNCHANGED cvars /\ UNCHANGED kvars

\* Bug: a rejected command counts as failed and not as a command.
SaveJobUncounted ==
  /\ Up
  /\ \E j \in job :
       /\ j.stage = "save"
       /\ counted' = IF j.command = "" \/ j.executed THEN counted
                     ELSE [counted EXCEPT ![j.dev].failed = @ + 1]
       /\ edge' = IF j.reason = "unknown_device" THEN edge ELSE Put(edge, j.dev, j.rec)
  /\ job' = {}
  /\ UNCHANGED <<results, admitted, performed>>
  /\ UNCHANGED cvars /\ UNCHANGED kvars /\ UNCHANGED vvars

SaveJob ==
  /\ Up
  /\ \E j \in job :
       /\ j.stage = "save"
       /\ edge' = IF j.reason = "unknown_device" THEN edge ELSE Put(edge, j.dev, j.rec)
       /\ results' = IF j.command = "" THEN results
                     ELSE Append(results, [dev |-> j.dev, command |-> j.command,
                                           executed |-> j.executed, reason |-> j.reason])
       /\ counted' = IF j.command = "" THEN counted
                     ELSE [counted EXCEPT ![j.dev].total = @ + 1,
                                          ![j.dev].failed = IF j.executed THEN @ ELSE @ + 1]
  /\ job' = {}
  /\ UNCHANGED <<admitted, performed>>
  /\ UNCHANGED cvars /\ UNCHANGED kvars /\ UNCHANGED vvars
-----------------------------------------------------------------------------
(***************************************************************************)
(* Operations that stay within the platform, health, and restart.          *)
(***************************************************************************)
register_capability(tenant, d, capability) ==
  /\ Free /\ device_allowed(tenant, d) /\ d \in DOMAIN edge
  /\ edge' = [edge EXCEPT ![d].caps = @ \cup {capability}]
  /\ UNCHANGED <<results, counted, admitted, job, performed>>

(* telemetry replaces the whole map, the maintenance flag included; cash_in*)
(* changes amounts only. *)
Simulated(s, action, flag) ==
  CASE action = "offline" -> [s EXCEPT !.online = FALSE]
    [] action = "online" -> [s EXCEPT !.online = TRUE]
    [] action = "fault" -> [s EXCEPT !.faults = @ + 1]
    [] action = "telemetry" -> [s EXCEPT !.maintenance = flag]
    [] OTHER -> s

simulate(tenant, d, action, flag) ==
  /\ Free /\ device_allowed(tenant, d) /\ d \in DOMAIN edge
  /\ edge' = [edge EXCEPT ![d] = Simulated(@, action, flag)]
  /\ UNCHANGED <<results, counted, admitted, job, performed>>

\* Bug: the verdict on the chain is reported and not taken off.
health_unverified(d) ==
  LET s == edge[d]
  IN Later(0, 100 - (IF s.online THEN 0 ELSE 25) - 15 * s.faults - 10 * s.bad)

health(d) ==
  LET s == edge[d]
      n == counted[d]
      points(condition, p) == IF condition THEN p ELSE 0
  IN Later(0, 100 - points(~s.online, 25) - 15 * s.faults - 10 * s.bad
                  - points(s.maintenance, 10)
                  - (IF n.total = 0 THEN 0 ELSE (n.failed * 20) \div n.total)
                  - points(verify_chain(s.tenant, d) # {}, 20))

EdgeRestart ==
  /\ VeilRestart
  /\ counted' = [d \in Devices |-> [total |-> 0, failed |-> 0]]
  /\ admitted' = {} /\ job' = {}
  /\ UNCHANGED <<edge, results, performed>>

EdgeTorn == Up /\ torn' = {"edge"}
            /\ UNCHANGED <<hierarchy, registry, commands, alerts, acknowledged, acks, lookup>>
            /\ UNCHANGED kvars /\ UNCHANGED vvars /\ UNCHANGED evars

EdgeLocal ==
  \/ \E t \in Tenants, d \in Devices, o \in Orgs, k \in Kinds, caps \in CapSets,
        driver \in BOOLEAN :
       register_device_edge(t, d, o, k, caps, driver)
  \/ \E t \in Tenants, d \in Devices, bad \in 0..1, at \in EdgeTimes :
       update_inventory_edge(t, d, bad, at)
  \/ \E t \in Tenants, d \in Devices, c \in Commands, at \in EdgeTimes : AdmitCommand(t, d, c, at)
  \/ execute_command
  \/ \E t \in Tenants, d \in Devices : register_capability(t, d, "cash_in")
  \/ \E t \in Tenants, d \in Devices, flag \in BOOLEAN,
        action \in {"offline", "online", "fault", "telemetry", "cash_in"} :
       simulate(t, d, action, flag)

EdgeNext ==
  \/ EdgeLocal /\ UNCHANGED <<cvars, kvars, vvars>>
  \/ RegisterInFleet \/ AskPolicy \/ emit_trust_evidence \/ SaveJob
  \/ \E ok \in BOOLEAN : RunDriver(ok)

EStep == EdgeNext \/ EdgeTorn \/ (VStep /\ UNCHANGED evars)
ENext == EStep \/ EdgeRestart

ESpec == CInit /\ KInit /\ VInit /\ EInit /\ [][ENext]_<<cvars, kvars, vvars, evars>>
-----------------------------------------------------------------------------
(***************************************************************************)
(* Properties.                                                             *)
(***************************************************************************)
Stored(d, c) == {i \in DOMAIN results : results[i].dev = d /\ results[i].command = c}
Proof(d, c, type) ==
  {i \in DOMAIN evidence : /\ evidence[i].dev = d /\ evidence[i].about = c
                           /\ evidence[i].type = type}

(* A driver is given a high-risk command only after a policy decision of   *)
(* its own that allows it, asked for that command on that device; in       *)
(* production VEIL itself has answered.  Crashes, retries and previews of  *)
(* the policy do not change that.                                          *)
PolicyGates ==
  LET gated == {i \in DOMAIN performed : high_risk_command(performed[i].command)}
  IN /\ \A i \in gated :
          /\ performed[i].decision \in DOMAIN decisions
          /\ LET x == decisions[performed[i].decision]
             IN /\ x.dev = performed[i].dev /\ x.action = performed[i].command
                /\ x.allowed /\ (production => ~x.unavailable)
     /\ \A i, j \in gated : performed[i].decision = performed[j].decision => i = j

(* The platform stores the result of a high-risk command that a driver has *)
(* executed, and of a command that policy or capabilities refused, only    *)
(* when the trust service already holds the evidence of it.                *)
EvidenceBacked ==
  \A d \in Devices, c \in Commands :
    LET backed(S, type) == Cardinality(S) <= Cardinality(Proof(d, c, type))
    IN damaged = {} =>
         /\ high_risk_command(c) =>
              backed({i \in Stored(d, c) : results[i].executed}, "edge_command_executed")
         /\ backed({i \in Stored(d, c) : results[i].reason = "policy_denied"},
                   "edge_policy_denied_command")
         /\ backed({i \in Stored(d, c) :
                      results[i].reason \in {"unsupported_command", "missing_capability"}},
                   "unsupported_command_rejected")

(* No score looks better than what it is built on: the trust score of a    *)
(* device exceeds neither its cash health nor the ceiling of a device that *)
(* is offline, and damaged evidence costs a device 20 points of its edge   *)
(* health as long as it belongs to the tenant that recorded it.            *)
ScoresAreBounded ==
  /\ \A t \in Tenants, d \in Devices :
       /\ trust_score(t, d) <= CashHealth(d)
       /\ (d \in DOMAIN registry /\ ~registry[d].online) => trust_score(t, d) <= 85
  /\ \A d \in DOMAIN edge : <<edge[d].tenant, d>> \in damaged => health(d) <= 80
=============================================================================
