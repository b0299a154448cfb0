---------------------------- MODULE CloudProofs ----------------------------
(***************************************************************************)
(* Proofs about the four services of the server running together (ESpec):  *)
(* remote commands, presence and the policy gate, for every number of      *)
(* devices, tenants, commands and events and every interleaving of         *)
(* operations, restarts and torn stores.                                   *)
(***************************************************************************)
EXTENDS EdgePlatform, TLAPS

(* Leaves are left to Zenon unless they name another prover.               *)
USE Zenon

allvars == <<cvars, kvars, vvars, evars>>
IsSeq(s) == \E S : s \in Seq(S)

(* What Append does to a sequence whose elements have no common type.      *)
LEMMA Appended ==
  ASSUME NEW s, IsSeq(s), NEW x
  PROVE  /\ IsSeq(Append(s, x))
         /\ Len(s) \in Nat /\ DOMAIN s = 1..Len(s)
         /\ Len(Append(s, x)) = Len(s) + 1 /\ DOMAIN Append(s, x) = 1..Len(s) + 1
         /\ \A i \in 1..Len(s) : Append(s, x)[i] = s[i]
         /\ Append(s, x)[Len(s) + 1] = x
<1>1. PICK S : s \in Seq(S)
  BY DEF IsSeq
<1>2. s \in Seq(S \cup {x}) /\ x \in S \cup {x}
  BY <1>1, SMT
<1>3. Append(s, x) \in Seq(S \cup {x})
  BY <1>2, SMT
<1>4. QED
  BY <1>2, <1>3, SMT DEF IsSeq

(* What concatenation puts behind a sequence.                              *)
LEMMA Joined ==
  ASSUME NEW S, NEW s \in Seq(S), NEW r \in Seq(S)
  PROVE  /\ s \o r \in Seq(S) /\ Len(s \o r) = Len(s) + Len(r)
         /\ DOMAIN (s \o r) = 1..Len(s) + Len(r)
         /\ \A i \in 1..Len(s) : (s \o r)[i] = s[i]
         /\ \A i \in Len(s) + 1..Len(s) + Len(r) : (s \o r)[i] = r[i - Len(s)]
BY SMT
-----------------------------------------------------------------------------
(***************************************************************************)
(* Which steps touch the control plane, the ledger, and the platform.      *)
(***************************************************************************)
LEMMA CashLeaves ==
  ASSUME CashNext
  PROVE  UNCHANGED <<hierarchy, registry, commands, acknowledged, acks, lookup, torn>>
<1>1. CASE DetectAlert
  BY <1>1 DEF DetectAlert
<1>2. CASE \E t \in Tenants, b \in Bodies : add_ledger_entry(t, b)
  BY <1>2 DEF add_ledger_entry, cvars
<1>3. CASE \E x \in Scopes, now \in CashTimes : update_inventory(x, now) \/ forecast(x, now)
  BY <1>3 DEF update_inventory, forecast, cvars
<1>4. CASE \E x \in Scopes, observed \in Observed, now \in CashTimes : reconcile(x, observed, now)
  BY <1>4 DEF reconcile, cvars
<1>5. CASE \E x \in Scopes, now \in CashTimes : DetectStart(x, now)
  BY <1>5 DEF DetectStart, cvars
<1>6. CASE DetectSave
  BY <1>6 DEF DetectSave, cvars
<1>7. QED
  BY <1>1, <1>2, <1>3, <1>4, <1>5, <1>6 DEF CashNext

(* A step of the composition either is one of the control plane, or        *)
(* restarts it, or registers an edge device in it, or leaves it alone.     *)
LEMMA ControlSteps ==
  ASSUME [ENext]_allvars
  PROVE  \/ (CommandNext \/ RegistryNext) /\ UNCHANGED <<job, performed, decisions, production>>
         \/ ControlRestart
         \/ RegisterInFleet
         \/ UNCHANGED <<hierarchy, registry, commands, acknowledged, acks, lookup>>
<1>1. CASE EdgeNext
  BY <1>1 DEF EdgeNext, AskPolicy, emit_trust_evidence, SaveJob, RunDriver, cvars
<1>2. CASE EdgeTorn
  BY <1>2 DEF EdgeTorn
<1>3. CASE VStep /\ UNCHANGED evars
  <2>1. CASE VeilNext /\ UNCHANGED <<cvars, kvars>>
    BY <2>1 DEF cvars
  <2>2. CASE VeilTorn
    BY <2>2 DEF VeilTorn
  <2>3. CASE KStep /\ UNCHANGED vvars
    <3>1. CASE CashNext
      BY <3>1, CashLeaves
    <3>2. CASE CashTorn
      BY <3>2 DEF CashTorn
    <3>3. CASE CommandNext \/ RegistryNext
      BY <3>3, <1>3, <2>3 DEF evars, vvars
    <3>4. CASE ControlTorn
      BY <3>4 DEF ControlTorn
    <3>5. QED
      BY <2>3, <3>1, <3>2, <3>3, <3>4 DEF KStep
  <2>4. QED
    BY <1>3, <2>1, <2>2, <2>3 DEF VStep
<1>4. CASE EdgeRestart
  BY <1>4 DEF EdgeRestart, VeilRestart, CashRestart
<1>5. CASE UNCHANGED allvars
  BY <1>5 DEF allvars, cvars
<1>6. QED
  BY <1>1, <1>2, <1>3, <1>4, <1>5 DEF ENext, EStep
-----------------------------------------------------------------------------
(***************************************************************************)
(* The control plane.                                                      *)
(***************************************************************************)
Wide == [org : Orgs, online : BOOLEAN, seen : Nat, penalty : Nat]
RegistryOK == \E D : registry \in [D -> Wide]
FleetJobs == \A j \in job : j.stage = "fleet" => j.rec.tenant \in Orgs
LookupOK ==
  /\ lookup \subseteq Lookups
  /\ \A l \in lookup : /\ l.tenant \in {None, l.org}
                       /\ (l.op = "command" => Len(commands) < MaxCommands)
CommandOK(c) == c.retry <= c.max /\ c.by \in {None, c.org}
CommandsOK ==
  /\ commands \in Seq(CommandRecords) /\ Len(commands) <= MaxCommands
  /\ \A i \in 1..Len(commands) : CommandOK(commands[i])
AcksOK ==
  /\ acks \in [1..MaxCommands -> Nat] /\ acknowledged \subseteq 1..Len(commands)
  /\ \A i \in 1..MaxCommands : acks[i] = IF i \in acknowledged THEN 1 ELSE 0
  /\ \A i \in 1..Len(commands) : i \in acknowledged <=> commands[i].st = "acknowledged"
OrdersOK == CommandsOK /\ AcksOK /\ LookupOK
ControlInv == RegistryOK /\ FleetJobs /\ LookupOK /\ CommandsOK /\ AcksOK

(* A command list that is changed in place keeps its invariants when each  *)
(* of its commands does, and acknowledged commands and others stay so.     *)
LEMMA InPlace ==
  ASSUME CommandsOK, AcksOK, LookupOK, UNCHANGED <<acknowledged, acks, lookup>>,
         NEW f, commands' = [i \in DOMAIN commands |-> f[i]],
         \A i \in 1..Len(commands) :
           /\ f[i] \in CommandRecords /\ CommandOK(f[i])
           /\ f[i].st = "acknowledged" <=> commands[i].st = "acknowledged"
  PROVE  CommandsOK' /\ AcksOK' /\ LookupOK'
<1>1. DOMAIN commands = 1..Len(commands) /\ Len(commands) \in Nat
  BY SMT DEF CommandsOK
<1>2. commands' \in Seq(CommandRecords) /\ Len(commands') = Len(commands)
  BY <1>1, SMT
<1>3. \A i \in 1..Len(commands) : commands'[i] = f[i]
  BY <1>1
<1>4. CommandsOK'
  BY <1>2, <1>3 DEF CommandsOK, CommandOK
<1>5. AcksOK'
  BY <1>2, <1>3 DEF AcksOK
<1>6. LookupOK'
  BY <1>2 DEF LookupOK
<1>7. QED
  BY <1>4, <1>5, <1>6

(* deliver_next_command passes, ends or sends commands in place and        *)
(* acknowledges none.                                                      *)
LEMMA DeliverStep ==
  ASSUME CommandsOK, AcksOK, LookupOK, NEW d \in Devices, NEW now \in Times,
         deliver_next_command(d, now)
  PROVE  CommandsOK' /\ AcksOK' /\ LookupOK'
<1> DEFINE queue == {i \in DOMAIN commands : /\ commands[i].dev = d
                                             /\ commands[i].st \in Waiting
                                             /\ i \notin acknowledged}
           live == {i \in queue : ~Late(commands[i], now) /\ ~Spent(commands[i])}
<1>1. PICK next \in SUBSET live, passed \in SUBSET (queue \ live) :
        commands' = [i \in DOMAIN commands |->
                       IF i \in next THEN Sent(commands[i])
                       ELSE IF i \in passed THEN Ended(commands[i], now)
                       ELSE commands[i]]
  BY DEF deliver_next_command
<1> DEFINE f == [i \in DOMAIN commands |->
                   IF i \in next THEN Sent(commands[i])
                   ELSE IF i \in passed THEN Ended(commands[i], now)
                   ELSE commands[i]]
<1>2. commands' = [i \in DOMAIN commands |-> f[i]]
  BY <1>1
<1>3. UNCHANGED <<acknowledged, acks, lookup>>
  BY DEF deliver_next_command
<1>4. DOMAIN commands = 1..Len(commands)
  BY SMT DEF CommandsOK
<1>5. ASSUME NEW i \in 1..Len(commands)
      PROVE  /\ f[i] \in CommandRecords /\ CommandOK(f[i])
             /\ f[i].st = "acknowledged" <=> commands[i].st = "acknowledged"
  <2> DEFINE c == commands[i]
  <2>0. c \in CommandRecords /\ CommandOK(c)
    BY SMT DEF CommandsOK
  <2>1. c \in CommandRecords /\ CommandOK(c) /\ c.retry \in Nat /\ c.max \in Nat
    BY <2>0, ControlAssumption DEF CommandRecords
  <2>2. CASE i \in next
    <3>1. f[i] = Sent(c) /\ c.st \in Waiting /\ ~Spent(c)
      BY <2>2, <1>4
    <3>2. c.st = "delivered" => c.retry + 1 <= c.max
      BY <3>1, <2>1, SMT DEF Spent
    <3> DEFINE n == IF c.st = "delivered" THEN c.retry + 1 ELSE c.retry
    <3>a. Sent(c) = [c EXCEPT !.st = "delivered", !.retry = n]
      BY <2>1 DEF Sent, CommandRecords
    <3>b. n \in Nat
      BY <2>1, SMT
    <3> HIDE DEF n
    <3>3. Sent(c) \in CommandRecords /\ Sent(c).st = "delivered"
      BY <2>1, <3>a, <3>b, ZenonT(30) DEF CommandRecords, CommandStates, Waiting
    <3>4. CommandOK(Sent(c))
      BY <2>1, <3>2 DEF Sent, CommandRecords, CommandOK
    <3>5. QED
      BY <3>1, <3>3, <3>4 DEF Waiting
  <2>3. CASE i \notin next /\ i \in passed
    <3>1. f[i] = Ended(c, now) /\ c.st \in Waiting
      BY <2>3, <1>4
    <3>2. Ended(c, now) \in CommandRecords /\ Ended(c, now).st \in {"expired", "failed"}
      BY <2>1 DEF Ended, CommandRecords, CommandStates
    <3>3. CommandOK(Ended(c, now))
      BY <2>1 DEF Ended, CommandRecords, CommandOK
    <3>4. QED
      BY <3>1, <3>2, <3>3 DEF Waiting
  <2>4. CASE i \notin next /\ i \notin passed
    BY <2>1, <2>4, <1>4
  <2>5. QED
    BY <2>2, <2>3, <2>4
<1> HIDE DEF f
<1>6. QED
  BY <1>2, <1>3, <1>5, InPlace

(* expire_commands ends waiting commands in place and acknowledges none.   *)
LEMMA ExpireStep ==
  ASSUME CommandsOK, AcksOK, LookupOK, NEW now \in Times, expire_commands(now)
  PROVE  CommandsOK' /\ AcksOK' /\ LookupOK'
<1> DEFINE f == [i \in DOMAIN commands |->
                   IF commands[i].st \in Waiting /\ Late(commands[i], now)
                   THEN [commands[i] EXCEPT !.st = "expired"] ELSE commands[i]]
<1>1. commands' = [i \in DOMAIN commands |-> f[i]] /\ UNCHANGED <<acknowledged, acks, lookup>>
  BY DEF expire_commands
<1>2. ASSUME NEW i \in 1..Len(commands)
      PROVE  /\ f[i] \in CommandRecords /\ CommandOK(f[i])
             /\ f[i].st = "acknowledged" <=> commands[i].st = "acknowledged"
  <2> DEFINE c == commands[i]
             e == [c EXCEPT !.st = "expired"]
  <2>1. c \in CommandRecords /\ CommandOK(c) /\ DOMAIN commands = 1..Len(commands)
    BY SMT DEF CommandsOK
  <2>2. e \in CommandRecords /\ CommandOK(e) /\ e.st = "expired"
    BY <2>1 DEF CommandRecords, CommandOK, CommandStates
  <2>3. f[i] = IF c.st \in Waiting /\ Late(c, now) THEN e ELSE c
    BY <2>1
  <2>4. QED
    BY <2>1, <2>2, <2>3 DEF Waiting
<1> HIDE DEF f
<1>3. QED
  BY <1>1, <1>2, InPlace

(* acknowledge_command counts a command once: the set of acknowledged ids  *)
(* grows with the count.                                                   *)
LEMMA AcknowledgeStep ==
  ASSUME CommandsOK, AcksOK, LookupOK, NEW d \in Devices, NEW k \in 1..MaxCommands,
         acknowledge_command(d, k)
  PROVE  CommandsOK' /\ AcksOK' /\ LookupOK'
<1>1. /\ k \in 1..Len(commands) /\ k \notin acknowledged /\ UNCHANGED lookup
      /\ commands' = [commands EXCEPT ![k].st = "acknowledged"]
      /\ acknowledged' = acknowledged \cup {k}
      /\ acks' = [acks EXCEPT ![k] = @ + 1]
  BY SMT DEF acknowledge_command, CommandsOK
<1> DEFINE a == [commands[k] EXCEPT !.st = "acknowledged"]
<1>2. commands[k] \in CommandRecords /\ CommandOK(commands[k])
  BY <1>1, SMT DEF CommandsOK
<1>3. a \in CommandRecords /\ CommandOK(a) /\ a.st = "acknowledged"
  BY <1>2 DEF CommandRecords, CommandOK, CommandStates
<1>4. commands' = [commands EXCEPT ![k] = a]
  BY <1>1
<1> HIDE DEF a
<1>5. commands' \in Seq(CommandRecords) /\ Len(commands') = Len(commands)
  BY <1>1, <1>3, <1>4, SMT DEF CommandsOK
<1>6. \A i \in 1..Len(commands) : commands'[i] = IF i = k THEN a ELSE commands[i]
  BY <1>1, <1>4, SMTT(20), ZenonT(20) DEF CommandsOK
<1>7. CommandsOK'
  BY <1>3, <1>5, <1>6 DEF CommandsOK
<1>8. LookupOK'
  BY <1>1, <1>5 DEF LookupOK
<1>9. acks' \in [1..MaxCommands -> Nat]
      /\ \A i \in 1..MaxCommands : acks'[i] = IF i = k THEN acks[i] + 1 ELSE acks[i]
  BY <1>1, SMT DEF AcksOK
<1>10. \A i \in 1..MaxCommands : acks'[i] = IF i \in acknowledged' THEN 1 ELSE 0
  BY <1>1, <1>9, SMT DEF AcksOK
<1>11. /\ acknowledged' \subseteq 1..Len(commands')
       /\ \A i \in 1..Len(commands') : i \in acknowledged' <=> commands'[i].st = "acknowledged"
  BY <1>1, <1>3, <1>5, <1>6 DEF AcksOK
<1>12. QED
  BY <1>7, <1>8, <1>9, <1>10, <1>11 DEF AcksOK

(* create_command appends a command nobody has sent or acknowledged, for   *)
(* the tenant whose device was looked up.                                  *)
LEMMA CreateStep ==
  ASSUME CommandsOK, AcksOK, LookupOK, NEW known \in BOOLEAN, NEW now \in Times,
         NEW ttl \in Lives, NEW max \in Retries, create_command(known, now, ttl, max)
  PROVE  CommandsOK' /\ AcksOK' /\ LookupOK'
<1>1. PICK l \in lookup : /\ l.op = "command"
                          /\ commands' = Append(commands, NewCommand(l, known, now, ttl, max))
  BY DEF create_command
<1>2. lookup' = {} /\ UNCHANGED <<acknowledged, acks>>
  BY DEF create_command
<1>3. /\ l \in Lookups /\ l.tenant \in {None, l.org} /\ Len(commands) < MaxCommands
      /\ commands \in Seq(CommandRecords) /\ Len(commands) \in Nat
      /\ now + ttl \in Nat /\ max \in Nat
  BY <1>1, ControlAssumption, SMT DEF LookupOK, CommandsOK, Times
<1> DEFINE c == NewCommand(l, known, now, ttl, max)
<1>4. l.org \in Orgs /\ l.dev \in Devices /\ l.tenant \in Tenants
  BY <1>3 DEF Lookups
<1>5. c.st \in {"pending", "failed"} /\ c.retry = 0 /\ c.max = max /\ c.by = l.tenant
      /\ c.org = l.org
  BY DEF NewCommand
<1>6. c \in CommandRecords
  BY <1>3, <1>4 DEF NewCommand, CommandRecords, CommandStates, Waiting
<1>7. CommandOK(c)
  BY <1>3, <1>5, SMT DEF CommandOK
<1>8. commands' = Append(commands, c)
  BY <1>1
<1> HIDE DEF c
<1>9. commands' \in Seq(CommandRecords) /\ Len(commands') = Len(commands) + 1
  BY <1>3, <1>6, <1>8, SMT
<1>10. /\ \A i \in 1..Len(commands) : commands'[i] = commands[i]
       /\ commands'[Len(commands) + 1] = c
  BY <1>3, <1>6, <1>8, SMT
<1>11. \A i \in 1..Len(commands') : i = Len(commands) + 1 \/ i \in 1..Len(commands)
  BY <1>3, <1>9, SMT
<1>12. CommandsOK'
  BY <1>3, <1>7, <1>9, <1>10, <1>11, ControlAssumption, SMT DEF CommandsOK
<1>13. Len(commands) + 1 \notin acknowledged /\ acknowledged \subseteq 1..Len(commands')
  BY <1>3, <1>9, SMT DEF AcksOK
<1>14. AcksOK'
  BY <1>2, <1>5, <1>10, <1>11, <1>13 DEF AcksOK
<1>15. QED
  BY <1>2, <1>12, <1>14 DEF LookupOK

(* The lookup of a route keeps the tenant and the device it checked.       *)
LEMMA LookupStep ==
  ASSUME RegistryOK, CommandsOK, AcksOK, NEW t \in Tenants, NEW d \in Devices,
         NEW op \in {"command", "heartbeat"}, LookupDevice(op, t, d)
  PROVE  CommandsOK' /\ AcksOK' /\ LookupOK'
<1>1. UNCHANGED <<commands, acknowledged, acks>>
  BY DEF LookupDevice
<1>2. registry[d].org \in Orgs /\ allowed_tenant(t, registry[d].org)
  BY DEF LookupDevice, RegistryOK, Wide
<1>3. t \in {None, registry[d].org}
  BY <1>2, ControlAssumption DEF allowed_tenant
<1> DEFINE l == [op |-> op, tenant |-> t, dev |-> d, org |-> registry[d].org]
<1>4. l \in Lookups /\ l.tenant \in {None, l.org}
  BY <1>2, <1>3 DEF Lookups
<1>5. lookup' = {l} /\ (l.op = "command" => Len(commands) < MaxCommands)
  BY DEF LookupDevice
<1>6. LookupOK'
  BY <1>1, <1>4, <1>5 DEF LookupOK
<1>7. QED
  BY <1>1, <1>6 DEF CommandsOK, AcksOK
-----------------------------------------------------------------------------
(***************************************************************************)
(* The jobs of the platform.                                               *)
(***************************************************************************)
JobFields == {"stage", "dev", "rec", "type", "at", "command", "executed", "reason", "decision"}
JobShape(j) == DOMAIN j = JobFields
JobsOK == \A j \in job : JobShape(j)

(* Driven leaves the device, the command and the decision of a job alone   *)
(* and never leads to the driver or to the registration again.             *)
LEMMA DrivenJob ==
  ASSUME NEW j, JobShape(j), NEW ok \in BOOLEAN
  PROVE  JobShape(Driven(j, ok)) /\ Driven(j, ok).stage \in {"evidence", "save"}
  BY DEF JobShape, JobFields, Driven

(* The fields of a request of the edge platform that has just been         *)
(* started.                                                                *)
LEMMA JobFacts ==
  ASSUME NEW stage, NEW d, NEW rec, NEW type, NEW at, NEW command, NEW executed, NEW reason
  PROVE  LET j == Job(stage, d, rec, type, at, command, executed, reason)
         IN JobShape(j) /\ j.stage = stage /\ j.dev = d /\ j.rec = rec /\ j.command = command
  BY DEF Job, JobShape, JobFields

(* Screened sends a high-risk command to the policy, never to the driver.  *)
LEMMA ScreenedJob ==
  ASSUME NEW r
  PROVE  /\ JobShape(Screened(r)) /\ Screened(r).stage # "fleet"
         /\ Screened(r).stage = "driver" => ~high_risk_command(Screened(r).command)
<1>1. \E stage, rec, type, executed, reason :
        /\ Screened(r) = Job(stage, r.dev, rec, type, r.at, r.command, executed, reason)
        /\ stage # "fleet" /\ (stage = "driver" => ~high_risk_command(r.command))
  <2> DEFINE no == FALSE
             step(stage, type, reason) ==
               Job(stage, r.dev, edge[r.dev], type, r.at, r.command, no, reason)
  <2>1. CASE r.dev \notin DOMAIN edge
    <3>1. Screened(r) = Job("save", r.dev, <<>>, "", r.at, r.command, no, "unknown_device")
      BY <2>1 DEF Screened
    <3> HIDE DEF no
    <3> WITNESS "save", <<>>, "", no, "unknown_device"
    <3>2. QED
      BY <3>1
  <2>2. CASE r.dev \in DOMAIN edge /\ capability_for_command(r.command) = ""
    <3>1. Screened(r) = step("evidence", "unsupported_command_rejected", "unsupported_command")
      BY <2>2 DEF Screened
    <3> HIDE DEF no
    <3> WITNESS "evidence", edge[r.dev], "unsupported_command_rejected", no, "unsupported_command"
    <3>2. QED
      BY <3>1
  <2>3. CASE /\ r.dev \in DOMAIN edge /\ capability_for_command(r.command) # ""
             /\ capability_for_command(r.command) \notin edge[r.dev].caps
    <3>1. Screened(r) = step("evidence", "unsupported_command_rejected", "missing_capability")
      BY <2>3 DEF Screened
    <3> HIDE DEF no
    <3> WITNESS "evidence", edge[r.dev], "unsupported_command_rejected", no, "missing_capability"
    <3>2. QED
      BY <3>1
  <2>4. CASE /\ r.dev \in DOMAIN edge /\ capability_for_command(r.command) # ""
             /\ capability_for_command(r.command) \in edge[r.dev].caps
             /\ ~edge[r.dev].online
    <3>1. Screened(r) = step("save", "", "device_offline")
      BY <2>4 DEF Screened
    <3> HIDE DEF no
    <3> WITNESS "save", edge[r.dev], "", no, "device_offline"
    <3>2. QED
      BY <3>1
  <2>5. CASE /\ r.dev \in DOMAIN edge /\ capability_for_command(r.command) # ""
             /\ capability_for_command(r.command) \in edge[r.dev].caps
             /\ edge[r.dev].online /\ high_risk_command(r.command)
    <3>1. Screened(r) = step("policy", "", "")
      BY <2>5 DEF Screened
    <3> HIDE DEF no
    <3> WITNESS "policy", edge[r.dev], "", no, ""
    <3>2. QED
      BY <3>1
  <2>6. CASE /\ r.dev \in DOMAIN edge /\ capability_for_command(r.command) # ""
             /\ capability_for_command(r.command) \in edge[r.dev].caps
             /\ edge[r.dev].online /\ ~high_risk_command(r.command)
    <3>1. Screened(r) = step("driver", "", "")
      BY <2>6 DEF Screened
    <3> HIDE DEF no
    <3> WITNESS "driver", edge[r.dev], "", no, ""
    <3>2. QED
      BY <3>1, <2>6
  <2>7. QED
    BY <2>1, <2>2, <2>3, <2>4, <2>5, <2>6
<1>2. PICK stage, rec, type, executed, reason :
        /\ Screened(r) = Job(stage, r.dev, rec, type, r.at, r.command, executed, reason)
        /\ stage # "fleet" /\ (stage = "driver" => ~high_risk_command(r.command))
  BY <1>1
<1>3. QED
  BY <1>2, JobFacts, SMT

(* A job is registered for an organization, and keeps its fields.          *)
LEMMA JobStep ==
  ASSUME JobsOK, FleetJobs, [ENext]_allvars
  PROVE  JobsOK' /\ FleetJobs'
<1>1. CASE \E t \in Tenants, d \in Devices, o \in Orgs, k \in Kinds, caps \in CapSets,
              driver \in BOOLEAN : register_device_edge(t, d, o, k, caps, driver)
  <2>1. PICK t \in Tenants, d \in Devices, o \in Orgs, kind \in Kinds, caps \in CapSets,
             driver \in BOOLEAN : register_device_edge(t, d, o, kind, caps, driver)
    BY <1>1
  <2> DEFINE rec == [tenant |-> o, driver |-> driver,
                     caps |-> IF caps = {} THEN default_capabilities_for_type(kind) ELSE caps,
                     online |-> TRUE, faults |-> 0, bad |-> 0, maintenance |-> FALSE]
  <2>2. rec.tenant \in Orgs
    OBVIOUS
  <2>3. \E x : job' = {Job("fleet", d, rec, "edge_device_registered", 0, "", x, "")}
    BY <2>1 DEF register_device_edge
  <2> HIDE DEF rec
  <2>4. PICK x : job' = {Job("fleet", d, rec, "edge_device_registered", 0, "", x, "")}
    BY <2>3
  <2> DEFINE j == Job("fleet", d, rec, "edge_device_registered", 0, "", x, "")
  <2>5. JobShape(j) /\ j.rec.tenant \in Orgs
    BY <2>2 DEF Job, JobShape, JobFields
  <2>6. job' = {j}
    BY <2>4
  <2> HIDE DEF j
  <2>7. QED
    BY <2>5, <2>6 DEF JobsOK, FleetJobs
<1>2. CASE \E t \in Tenants, d \in Devices, bad \in 0..1, at \in EdgeTimes :
              update_inventory_edge(t, d, bad, at)
  <2>1. \E d, rec, at, x : job' = {Job("evidence", d, rec, "edge_inventory_updated", at, "", x, "")}
    BY <1>2 DEF update_inventory_edge
  <2>2. PICK d, rec, at, x :
          job' = {Job("evidence", d, rec, "edge_inventory_updated", at, "", x, "")}
    BY <2>1
  <2> DEFINE j == Job("evidence", d, rec, "edge_inventory_updated", at, "", x, "")
  <2>3. JobShape(j) /\ j.stage # "fleet"
    BY DEF Job, JobShape, JobFields
  <2>4. job' = {j}
    BY <2>2
  <2> HIDE DEF j
  <2>5. QED
    BY <2>3, <2>4 DEF JobsOK, FleetJobs
<1>3. CASE execute_command
  <2>1. PICK r : job' = {Screened(r)}
    BY <1>3 DEF execute_command
  <2>2. QED
    BY <2>1, ScreenedJob DEF JobsOK, FleetJobs
<1>4. CASE RegisterInFleet
  <2>1. PICK j \in job : job' = {[j EXCEPT !.stage = "evidence"]}
    BY <1>4 DEF RegisterInFleet
  <2>2. QED
    BY <2>1 DEF JobsOK, JobShape, JobFields, FleetJobs
<1>5. CASE AskPolicy
  <2>1. PICK j \in job :
          job' = {IF Last(decisions').allowed
                  THEN [j EXCEPT !.stage = "driver", !.decision = Len(decisions')]
                  ELSE [j EXCEPT !.stage = "evidence", !.type = "edge_policy_denied_command",
                                 !.reason = "policy_denied"]}
    BY <1>5 DEF AskPolicy
  <2>2. QED
    BY <2>1, SMTT(20), ZenonT(20) DEF JobsOK, JobShape, JobFields, FleetJobs
<1>6. CASE \E ok \in BOOLEAN : RunDriver(ok)
  <2>1. PICK ok \in BOOLEAN : RunDriver(ok)
    BY <1>6
  <2>2. PICK j \in job : \/ job' = {Driven(j, ok)}
                         \/ job' = {[j EXCEPT !.stage = "save", !.reason = "driver_missing"]}
    BY <2>1 DEF RunDriver
  <2>3. CASE job' = {Driven(j, ok)}
    <3>1. JobShape(Driven(j, ok)) /\ Driven(j, ok).stage \in {"evidence", "save"}
      BY DrivenJob DEF JobsOK
    <3>2. QED
      BY <2>3, <3>1 DEF JobsOK, FleetJobs
  <2>4. CASE job' = {[j EXCEPT !.stage = "save", !.reason = "driver_missing"]}
    BY <2>4 DEF JobsOK, JobShape, JobFields, FleetJobs
  <2>5. QED
    BY <2>2, <2>3, <2>4
<1>7. CASE emit_trust_evidence
  <2>1. PICK j \in job : job' = {[j EXCEPT !.stage = "save"]}
    BY <1>7 DEF emit_trust_evidence
  <2>2. QED
    BY <2>1 DEF JobsOK, JobShape, JobFields, FleetJobs
<1>8. CASE job' = {}
  BY <1>8 DEF JobsOK, FleetJobs
<1>9. CASE UNCHANGED job
  BY <1>9 DEF JobsOK, FleetJobs
<1>10. CASE EdgeLocal
  BY <1>1, <1>2, <1>3, <1>9, <1>10 DEF EdgeLocal, AdmitCommand, register_capability, simulate
<1>11. CASE EdgeNext
  <2>1. SaveJob => job' = {}
    BY DEF SaveJob
  <2>2. QED
    BY <1>4, <1>5, <1>6, <1>7, <1>8, <1>10, <1>11, <2>1 DEF EdgeNext
<1>12. QED
  <2>1. EdgeRestart => job' = {}
    BY DEF EdgeRestart
  <2>2. EdgeTorn \/ UNCHANGED evars \/ UNCHANGED allvars => UNCHANGED job
    BY DEF EdgeTorn, evars, allvars
  <2>3. QED
    BY <1>8, <1>9, <1>11, <2>1, <2>2 DEF ENext, EStep
-----------------------------------------------------------------------------
(***************************************************************************)
(* The registry, and the invariant of the control plane.                   *)
(***************************************************************************)
LEMMA PutStep ==
  ASSUME RegistryOK, NEW d, NEW r \in Wide, PutDevice(d, r)
  PROVE  RegistryOK'
<1>1. PICK D : registry \in [D -> Wide]
  BY DEF RegistryOK
<1>2. registry' \in [D \cup {d} -> Wide]
  BY <1>1 DEF PutDevice, Put
<1>3. QED
  BY <1>2 DEF RegistryOK

(* Every way to write a device into the registry keeps its records, the    *)
(* registration by the edge platform included.                             *)
LEMMA RegistryStep ==
  ASSUME RegistryOK, FleetJobs, [ENext]_allvars
  PROVE  RegistryOK'
<1>1. PICK D : registry \in [D -> Wide]
  BY DEF RegistryOK
<1>2. ASSUME NEW t \in Tenants, NEW d \in Devices, NEW r \in DeviceRecords,
             register_device(t, d, r)
      PROVE  RegistryOK'
  <2>1. r \in Wide
    <3>1. Times \subseteq Nat /\ Penalties \subseteq Nat
      BY ControlAssumption, SMT DEF Times
    <3>2. QED
      BY <3>1 DEF DeviceRecords, Wide
  <2>2. QED
    BY <1>2, <2>1, PutStep DEF register_device
<1>3. ASSUME NEW now \in Times, receive_heartbeat(now)
      PROVE  RegistryOK'
  <2>1. PICK l \in lookup :
          registry' = [registry EXCEPT ![l.dev].online = TRUE, ![l.dev].seen = now]
    BY <1>3 DEF receive_heartbeat
  <2>2. now \in Nat
    BY ControlAssumption, SMT DEF Times
  <2>3. registry' \in [D -> Wide]
    BY <1>1, <2>1, <2>2 DEF Wide
  <2>4. QED
    BY <1>1, <2>3 DEF RegistryOK
<1>4. ASSUME NEW now \in Times, detect_stale_devices(now)
      PROVE  RegistryOK'
  <2>1. registry' = [d \in DOMAIN registry |->
                       IF d \in Stale(now) THEN [registry[d] EXCEPT !.online = FALSE]
                       ELSE registry[d]]
    BY <1>4 DEF detect_stale_devices
  <2>2. registry' \in [D -> Wide]
    BY <1>1, <2>1 DEF Wide
  <2>3. QED
    BY <2>2 DEF RegistryOK
<1>5. ASSUME RegisterInFleet
      PROVE  RegistryOK'
  <2>1. PICK j \in job :
          /\ j.stage = "fleet"
          /\ PutDevice(j.dev, [org |-> j.rec.tenant, online |-> FALSE, seen |-> 0, penalty |-> 0])
    BY <1>5 DEF RegisterInFleet
  <2>2. [org |-> j.rec.tenant, online |-> FALSE, seen |-> 0, penalty |-> 0] \in Wide
    BY <2>1 DEF FleetJobs, Wide
  <2>3. QED
    BY <2>1, <2>2, PutStep
<1>6. UNCHANGED registry => RegistryOK'
  BY DEF RegistryOK
<1>7. CASE CommandNext
  BY <1>6, <1>7 DEF CommandNext, LookupDevice, create_command, deliver_next_command,
                    acknowledge_command, expire_commands
<1>8. CASE RegistryNext
  BY <1>2, <1>3, <1>4, <1>6, <1>8 DEF RegistryNext, Upsert, LookupDevice, acknowledge_alert
<1>9. QED
  BY <1>5, <1>6, <1>7, <1>8, ControlSteps DEF ControlRestart

(* The invariant of the control plane is kept by every step of the server. *)
LEMMA ControlStep ==
  ASSUME ControlInv, JobsOK, [ENext]_allvars
  PROVE  ControlInv' /\ JobsOK'
<1>1. RegistryOK' /\ FleetJobs' /\ JobsOK'
  BY RegistryStep, JobStep DEF ControlInv
<1>2. OrdersOK /\ RegistryOK
  BY DEF ControlInv, OrdersOK
<1>3. UNCHANGED <<commands, acknowledged, acks, lookup>> => OrdersOK'
  BY <1>2 DEF OrdersOK, CommandsOK, AcksOK, LookupOK
<1>4. UNCHANGED <<commands, acknowledged, acks>> /\ lookup' = {} => OrdersOK'
  BY <1>2 DEF OrdersOK, CommandsOK, AcksOK, LookupOK
<1>5. ASSUME CommandNext PROVE OrdersOK'
  <2>1. ASSUME NEW t \in Tenants, NEW d \in Devices, LookupDevice("command", t, d)
        PROVE  OrdersOK'
    BY <1>2, <2>1, LookupStep DEF OrdersOK
  <2>2. ASSUME NEW known \in BOOLEAN, NEW now \in Times, NEW ttl \in Lives, NEW max \in Retries,
               create_command(known, now, ttl, max)
        PROVE  OrdersOK'
    BY <1>2, <2>2, CreateStep DEF OrdersOK
  <2>3. ASSUME NEW d \in Devices, NEW now \in Times, deliver_next_command(d, now)
        PROVE  OrdersOK'
    BY <1>2, <2>3, DeliverStep DEF OrdersOK
  <2>4. ASSUME NEW d \in Devices, NEW i \in 1..MaxCommands, acknowledge_command(d, i)
        PROVE  OrdersOK'
    BY <1>2, <2>4, AcknowledgeStep DEF OrdersOK
  <2>5. ASSUME NEW now \in Times, expire_commands(now)
        PROVE  OrdersOK'
    BY <1>2, <2>5, ExpireStep DEF OrdersOK
  <2>6. QED
    BY <1>5, <2>1, <2>2, <2>3, <2>4, <2>5 DEF CommandNext
<1>6. ASSUME RegistryNext PROVE OrdersOK'
  <2>1. ASSUME NEW t \in Tenants, NEW d \in Devices, LookupDevice("heartbeat", t, d)
        PROVE  OrdersOK'
    BY <1>2, <2>1, LookupStep DEF OrdersOK
  <2>2. ASSUME NEW now \in Times, receive_heartbeat(now)
        PROVE  OrdersOK'
    BY <2>2, <1>4 DEF receive_heartbeat
  <2>3. QED
    BY <1>3, <1>6, <2>1, <2>2 DEF RegistryNext, Upsert, register_device, detect_stale_devices,
                                  acknowledge_alert
<1>7. ASSUME ControlRestart PROVE OrdersOK'
  <2>0. DOMAIN commands = 1..Len(commands)
    BY <1>2, SMT DEF OrdersOK, CommandsOK
  <2>1. acknowledged = load_acknowledged
    BY <1>2, <2>0 DEF OrdersOK, AcksOK, load_acknowledged
  <2>2. UNCHANGED <<commands, acknowledged, acks>> /\ lookup' = {}
    BY <1>7, <2>1 DEF ControlRestart
  <2>3. QED
    BY <1>4, <2>2
<1>8. ASSUME RegisterInFleet PROVE OrdersOK'
  BY <1>3, <1>8 DEF RegisterInFleet
<1>9. OrdersOK'
  BY <1>3, <1>5, <1>6, <1>7, <1>8, ControlSteps
<1>10. QED
  BY <1>1, <1>9 DEF OrdersOK, ControlInv

(* The invariant of the control plane holds in the composition of the four *)
(* services.                                                               *)
LEMMA ControlInvariant == ESpec => [](ControlInv /\ JobsOK)
<1>1. CInit /\ EInit => ControlInv /\ JobsOK
  <2> SUFFICES ASSUME CInit, EInit PROVE ControlInv /\ JobsOK
    OBVIOUS
  <2>1. RegistryOK
    <3>1. registry \in [{} -> Wide]
      BY DEF CInit
    <3>2. QED
      BY <3>1 DEF RegistryOK
  <2>2. CommandsOK /\ LookupOK
    BY ControlAssumption, SMT DEF CInit, CommandsOK, LookupOK
  <2>3. AcksOK
    BY SMT DEF CInit, AcksOK
  <2>4. QED
    BY <2>1, <2>2, <2>3 DEF EInit, JobsOK, FleetJobs, ControlInv
<1>2. (ControlInv /\ JobsOK) /\ [ENext]_allvars => (ControlInv /\ JobsOK)'
  BY ControlStep
<1>3. QED
  BY <1>1, <1>2, PTL DEF ESpec, allvars

(* acknowledge_command counts one acknowledgement of a command, whatever   *)
(* is retried and however often the process restarts, while the other      *)
(* services work.                                                          *)
THEOREM AckedOnce == ESpec => []AckCountsOnce
<1>1. ControlInv => AckCountsOnce
  BY SMT DEF ControlInv, AcksOK, AckCountsOnce
<1>2. QED
  BY <1>1, ControlInvariant, PTL

(* A command that a device has acknowledged stays acknowledged.            *)
THEOREM AckedStays == ESpec => []AckIsFinal
<1>1. ControlInv => AckIsFinal
  <2> SUFFICES ASSUME ControlInv, NEW i \in DOMAIN commands, acks[i] > 0
               PROVE  commands[i].st = "acknowledged"
    BY DEF AckIsFinal
  <2>1. i \in 1..Len(commands) /\ i \in 1..MaxCommands
    BY ControlAssumption, SMT DEF ControlInv, CommandsOK
  <2>2. QED
    BY <2>1, SMT DEF ControlInv, AcksOK
<1>2. QED
  BY <1>1, ControlInvariant, PTL

(* deliver_next_command sends a command at most once plus max_retries.     *)
THEOREM RetriesBounded == ESpec => []RetryBudget
<1>1. ControlInv => RetryBudget
  BY SMT DEF ControlInv, CommandsOK, CommandOK, RetryBudget
<1>2. QED
  BY <1>1, ControlInvariant, PTL

(* A request of a tenant creates commands in the name of that tenant only. *)
THEOREM OwnTenantOnly == ESpec => []TenantScoped
<1>1. ControlInv => TenantScoped
  BY SMT DEF ControlInv, CommandsOK, CommandOK, TenantScoped
<1>2. QED
  BY <1>1, ControlInvariant, PTL
-----------------------------------------------------------------------------
(***************************************************************************)
(* Presence.                                                               *)
(***************************************************************************)
AlertsOK == IsSeq(alerts)

(* The alerts of cash anomalies go to the end of the list of alerts.       *)
LEMMA AlertSteps ==
  ASSUME AlertsOK, CashNext
  PROVE  AlertsOK'
<1>1. UNCHANGED alerts => AlertsOK'
  BY DEF AlertsOK, IsSeq
<1>2. CASE DetectAlert
  <2>1. \E x : alerts' = Append(alerts, x)
    BY <1>2 DEF DetectAlert, create_alert
  <2>2. QED
    BY <2>1, Appended, SMT DEF AlertsOK
<1>3. CASE \E t \in Tenants, b \in Bodies : add_ledger_entry(t, b)
  BY <1>1, <1>3 DEF add_ledger_entry, cvars
<1>4. CASE \E x \in Scopes, now \in CashTimes : update_inventory(x, now) \/ forecast(x, now)
  BY <1>1, <1>4 DEF update_inventory, forecast, cvars
<1>5. CASE \E x \in Scopes, observed \in Observed, now \in CashTimes : reconcile(x, observed, now)
  BY <1>1, <1>5 DEF reconcile, cvars
<1>6. CASE \E x \in Scopes, now \in CashTimes : DetectStart(x, now)
  BY <1>1, <1>6 DEF DetectStart, cvars
<1>7. CASE DetectSave
  BY <1>1, <1>7 DEF DetectSave, cvars
<1>8. QED
  BY <1>2, <1>3, <1>4, <1>5, <1>6, <1>7 DEF CashNext

(* detect_stale_devices appends one alert for every stale device.          *)
LEMMA StaleAlerts ==
  ASSUME AlertsOK, NEW now \in Times, detect_stale_devices(now)
  PROVE  /\ AlertsOK'
         /\ \A d \in Stale(now) : \E i \in Len(alerts) + 1..Len(alerts') :
              alerts'[i] = Alert(registry[d].org, d, "offline_device")
<1> DEFINE Raises(n, order) ==
             /\ \A d \in Stale(now) : \E i \in 1..n : order[i] = d
             /\ alerts' = alerts \o [i \in 1..n |->
                            Alert(registry[order[i]].org, order[i], "offline_device")]
<1>0. PICK n \in 0..(MaxAlerts - Len(alerts)) : \E order \in [1..n -> Stale(now)] : Raises(n, order)
  BY SMT DEF detect_stale_devices
<1>1. PICK order \in [1..n -> Stale(now)] : Raises(n, order)
  BY <1>0
<1>2. n \in Nat
  BY SMT
<1> DEFINE more == [i \in 1..n |-> Alert(registry[order[i]].org, order[i], "offline_device")]
           T == {more[i] : i \in 1..n}
<1>3. more \in Seq(T) /\ Len(more) = n /\ alerts' = alerts \o more
  <2>1. alerts' = alerts \o more
    BY <1>1
  <2>2. more \in [1..n -> T]
    OBVIOUS
  <2> HIDE DEF more, T
  <2>3. more \in Seq(T) /\ Len(more) = n
    BY <1>2, <2>2, SMT
  <2>4. QED
    BY <2>1, <2>3
<1>4. PICK S : alerts \in Seq(S)
  BY DEF AlertsOK, IsSeq
<1>5. \A i \in 1..n : more[i] = Alert(registry[order[i]].org, order[i], "offline_device")
  OBVIOUS
<1> HIDE DEF more, T
<1>6. alerts \in Seq(S \cup T) /\ more \in Seq(S \cup T) /\ Len(alerts) \in Nat
  BY <1>3, <1>4, SMT
<1>7. /\ alerts' \in Seq(S \cup T) /\ Len(alerts') = Len(alerts) + n
      /\ \A i \in 1..n : alerts'[Len(alerts) + i] = more[i]
  <2>1. /\ alerts \o more \in Seq(S \cup T)
        /\ Len(alerts \o more) = Len(alerts) + Len(more)
        /\ \A i \in 1..Len(more) : (alerts \o more)[Len(alerts) + i] = more[i]
    BY <1>6, Joined, SMT
  <2>2. QED
    BY <1>3, <2>1
<1>8. ASSUME NEW d \in Stale(now)
      PROVE  \E i \in Len(alerts) + 1..Len(alerts') :
               alerts'[i] = Alert(registry[d].org, d, "offline_device")
  <2>1. PICK i \in 1..n : order[i] = d
    BY <1>1
  <2>2. Len(alerts) + i \in Len(alerts) + 1..Len(alerts')
    BY <1>2, <1>6, <1>7, SMTT(20), ZenonT(20)
  <2>3. alerts'[Len(alerts) + i] = Alert(registry[d].org, d, "offline_device")
    BY <1>5, <1>7, <2>1
  <2>4. QED
    BY <2>2, <2>3
<1>9. QED
  BY <1>7, <1>8 DEF AlertsOK, IsSeq

(* The alerts stay a list whichever service adds to it.                    *)
LEMMA AlertStep ==
  ASSUME AlertsOK, ControlInv, [ENext]_allvars
  PROVE  AlertsOK'
<1>1. UNCHANGED alerts => AlertsOK'
  BY DEF AlertsOK, IsSeq
<1>2. ASSUME NEW t \in Tenants, NEW i \in 1..MaxAlerts, acknowledge_alert(t, i)
      PROVE  AlertsOK'
  <2>1. PICK S : alerts \in Seq(S)
    BY DEF AlertsOK, IsSeq
  <2> DEFINE a == [alerts[i] EXCEPT !.acked = TRUE]
  <2>2. alerts' = [alerts EXCEPT ![i] = a]
    BY <1>2 DEF acknowledge_alert
  <2> HIDE DEF a
  <2>3. alerts \in Seq(S \cup {a})
    BY <2>1, SMT
  <2> DEFINE n == Len(alerts)
             A == S \cup {a}
  <2>a. n \in Nat /\ alerts \in [1..n -> A] /\ a \in A
    BY <2>3, SMT
  <2> HIDE DEF n, A
  <2>b. alerts' \in [1..n -> A]
    BY <2>2, <2>a
  <2>4. alerts' \in Seq(A)
    BY <2>a, <2>b, SMT
  <2>5. QED
    BY <2>4 DEF AlertsOK, IsSeq
<1>3. CASE RegistryNext
  <2>1. \A now \in Times : detect_stale_devices(now) => AlertsOK'
    BY StaleAlerts DEF ControlInv
  <2>2. QED
    BY <1>1, <1>2, <1>3, <2>1 DEF RegistryNext, Upsert, register_device, LookupDevice,
                                  receive_heartbeat
<1>4. CASE CommandNext
  BY <1>1, <1>4 DEF CommandNext, LookupDevice, create_command, deliver_next_command,
                    acknowledge_command, expire_commands
<1>5. CASE VStep
  <2>1. VeilNext /\ UNCHANGED <<cvars, kvars>> => UNCHANGED alerts
    BY DEF cvars
  <2>2. VeilTorn \/ CashTorn \/ ControlTorn => UNCHANGED alerts
    BY DEF VeilTorn, CashTorn, ControlTorn
  <2>3. QED
    BY <1>1, <1>3, <1>4, <1>5, <2>1, <2>2, AlertSteps DEF VStep, KStep
<1>6. CASE EdgeNext
  BY <1>1, <1>6 DEF EdgeNext, RegisterInFleet, AskPolicy, emit_trust_evidence, SaveJob, RunDriver,
                    cvars
<1>7. EdgeTorn \/ EdgeRestart \/ UNCHANGED allvars => UNCHANGED alerts
  BY DEF EdgeTorn, EdgeRestart, VeilRestart, CashRestart, ControlRestart, allvars, cvars
<1>8. QED
  BY <1>1, <1>5, <1>6, <1>7 DEF ENext, EStep

(* detect_stale_devices takes no device offline without an alert for its   *)
(* owner; only a new registration does.                                    *)
THEOREM OfflineAlerted == ESpec => OfflineIsAlerted
<1> DEFINE Gone(d) == registry[d].online /\ ~registry'[d].online
           Told(d) == \/ \E r \in DeviceRecords : PutDevice(d, r)
                      \/ \E i \in Len(alerts) + 1..Len(alerts') :
                           alerts'[i] = Alert(registry[d].org, d, "offline_device")
<1>1. CInit => AlertsOK
  <2>1. <<>> \in Seq({})
    BY SMT
  <2>2. QED
    BY <2>1 DEF CInit, AlertsOK, IsSeq
<1>2. AlertsOK /\ (ControlInv /\ JobsOK) /\ [ENext]_allvars => AlertsOK'
  BY AlertStep
<1>3. ASSUME AlertsOK, ControlInv, JobsOK, [ENext]_allvars, NEW d \in DOMAIN registry, Gone(d)
      PROVE  Told(d)
  <2>1. UNCHANGED registry => FALSE
    BY <1>3
  <2>2. ASSUME NEW t \in Tenants, NEW e \in Devices, NEW r \in DeviceRecords,
               register_device(t, e, r)
        PROVE  Told(d)
    <3>1. PutDevice(e, r)
      BY <2>2 DEF register_device
    <3>2. d # e => registry'[d] = registry[d]
      BY <3>1 DEF PutDevice, Put
    <3>3. d = e
      BY <1>3, <3>2
    <3>4. QED
      BY <3>1, <3>3
  <2>3. ASSUME NEW now \in Times, receive_heartbeat(now)
        PROVE  FALSE
    <3>1. PICK l \in lookup :
            registry' = [registry EXCEPT ![l.dev].online = TRUE, ![l.dev].seen = now]
      BY <2>3 DEF receive_heartbeat
    <3>2. registry[d] \in Wide
      BY <1>3 DEF ControlInv, RegistryOK
    <3>3. d # l.dev => registry'[d] = registry[d]
      BY <3>1
    <3>4. d = l.dev => registry'[d] = [registry[d] EXCEPT !.online = TRUE, !.seen = now]
      BY <3>1
    <3>5. [registry[d] EXCEPT !.online = TRUE, !.seen = now].online
      BY <3>2 DEF Wide
    <3>6. QED
      BY <1>3, <3>3, <3>4, <3>5
  <2>4. ASSUME NEW now \in Times, detect_stale_devices(now)
        PROVE  Told(d)
    <3>1. registry'[d] = IF d \in Stale(now) THEN [registry[d] EXCEPT !.online = FALSE]
                         ELSE registry[d]
      BY <2>4 DEF detect_stale_devices
    <3>2. d \in Stale(now)
      BY <1>3, <3>1
    <3>3. QED
      BY <1>3, <2>4, <3>2, StaleAlerts DEF ControlInv
  <2>5. ASSUME RegisterInFleet
        PROVE  Told(d)
    <3>1. PICK j \in job :
            /\ j.stage = "fleet"
            /\ PutDevice(j.dev, [org |-> j.rec.tenant, online |-> FALSE, seen |-> 0, penalty |-> 0])
      BY <2>5 DEF RegisterInFleet
    <3> DEFINE r == [org |-> j.rec.tenant, online |-> FALSE, seen |-> 0, penalty |-> 0]
    <3>2. r \in DeviceRecords
      <4>1. j.rec.tenant \in Orgs
        BY <1>3, <3>1 DEF ControlInv, FleetJobs
      <4>2. 0 \in Times /\ 0 \in Penalties
        BY ControlAssumption, EdgeAssumption, SMT DEF Times
      <4>3. QED
        BY <4>1, <4>2 DEF DeviceRecords
    <3>3. PutDevice(j.dev, r)
      BY <3>1
    <3> HIDE DEF r
    <3>4. d # j.dev => registry'[d] = registry[d]
      BY <3>3 DEF PutDevice, Put
    <3>5. d = j.dev
      BY <1>3, <3>4
    <3>6. QED
      BY <3>2, <3>3, <3>5
  <2>6. CASE CommandNext
    BY <2>1, <2>6 DEF CommandNext, LookupDevice, create_command, deliver_next_command,
                      acknowledge_command, expire_commands
  <2>7. CASE RegistryNext
    BY <2>1, <2>2, <2>3, <2>4, <2>7 DEF RegistryNext, Upsert, LookupDevice, acknowledge_alert
  <2>8. QED
    BY <1>3, <2>1, <2>5, <2>6, <2>7, ControlSteps DEF ControlRestart
<1>4. AlertsOK /\ (ControlInv /\ JobsOK) /\ [ENext]_allvars
        => [\A d \in DOMAIN registry : Gone(d) => Told(d)]_cvars
  BY <1>3
<1>5. QED
  BY <1>1, <1>2, <1>4, ControlInvariant, PTL DEF ESpec, OfflineIsAlerted, allvars
-----------------------------------------------------------------------------
(***************************************************************************)
(* The policy gate.                                                        *)
(***************************************************************************)
Grants(k, d, c) ==
  /\ k \in DOMAIN decisions /\ decisions[k].dev = d /\ decisions[k].action = c
  /\ decisions[k].allowed /\ (production => ~decisions[k].unavailable)
Gated == {i \in DOMAIN performed : high_risk_command(performed[i].command)}
GrantedOK ==
  /\ \A i \in Gated : Grants(performed[i].decision, performed[i].dev, performed[i].command)
  /\ \A i, j \in Gated : performed[i].decision = performed[j].decision => i = j
AtDriver(j) == j.stage = "driver" /\ high_risk_command(j.command)
HoldsGrant(j) ==
  /\ Grants(j.decision, j.dev, j.command)
  /\ \A i \in Gated : performed[i].decision # j.decision
GateOK ==
  /\ IsSeq(decisions) /\ IsSeq(performed)
  /\ GrantedOK
  /\ \A j \in job : AtDriver(j) => HoldsGrant(j)

(* What the invariant of the policy gate says of the commands that were    *)
(* performed.                                                              *)
LEMMA GateMeaning == GateOK => PolicyGates
  BY DEF GateOK, GrantedOK, Grants, Gated, PolicyGates

(* A decision that verify_policy adds takes nothing from the others.       *)
LEMMA DecisionAdded ==
  ASSUME GateOK, NEW x, decisions' = Append(decisions, x), UNCHANGED <<production, performed>>
  PROVE  /\ IsSeq(decisions') /\ IsSeq(performed') /\ GrantedOK'
         /\ \A k, d, c : Grants(k, d, c) => Grants(k, d, c)'
         /\ \A j : HoldsGrant(j) => HoldsGrant(j)'
         /\ Len(decisions') \in DOMAIN decisions' /\ decisions'[Len(decisions')] = x
         /\ Last(decisions') = x
         /\ \A i \in Gated' : performed'[i].decision # Len(decisions')
<1>1. /\ IsSeq(decisions') /\ Len(decisions) \in Nat /\ DOMAIN decisions = 1..Len(decisions)
      /\ Len(decisions') = Len(decisions) + 1 /\ DOMAIN decisions' = 1..Len(decisions) + 1
      /\ \A i \in 1..Len(decisions) : decisions'[i] = decisions[i]
      /\ decisions'[Len(decisions) + 1] = x
  BY Appended, SMT DEF GateOK
<1>2. \A k \in DOMAIN decisions : k \in DOMAIN decisions' /\ decisions'[k] = decisions[k]
  BY <1>1, SMT
<1>3. \A k, d, c : Grants(k, d, c) => Grants(k, d, c)'
  BY <1>2 DEF Grants
<1>4. Gated' = Gated /\ IsSeq(performed')
  BY DEF Gated, GateOK
<1>5. GrantedOK'
  BY <1>3, <1>4 DEF GateOK, GrantedOK
<1>6. \A j : HoldsGrant(j) => HoldsGrant(j)'
  BY <1>3, <1>4 DEF HoldsGrant
<1>7. \A i \in Gated : performed[i].decision \in DOMAIN decisions
  BY DEF GateOK, GrantedOK, Grants
<1>8. Len(decisions) + 1 \notin DOMAIN decisions /\ Len(decisions) + 1 \in DOMAIN decisions'
  BY <1>1, SMT
<1>9. Last(decisions') = x
  BY <1>1 DEF Last
<1>10. QED
  BY <1>1, <1>3, <1>4, <1>5, <1>6, <1>7, <1>8, <1>9

(* A decision that allows in production is one that VEIL has made.         *)
LEMMA DecisionFacts ==
  ASSUME NEW t, NEW d, NEW a
  PROVE  LET x == Decision(t, d, a)
         IN x.dev = d /\ x.action = a /\ (x.allowed /\ production => ~x.unavailable)
<1>1. Decision(t, d, a).dev = d /\ Decision(t, d, a).action = a
  BY DEF Decision
<1>2. Decision(t, d, a).unavailable = ~reachable
  BY DEF Decision
<1>3. Decision(t, d, a).allowed = IF reachable THEN a \notin Denied
                                  ELSE a \in HighRisk /\ ~production
  BY DEF Decision
<1>4. Decision(t, d, a).allowed /\ production => ~Decision(t, d, a).unavailable
  BY <1>2, <1>3
<1>5. QED
  BY <1>1, <1>4

(* A command that execute_command takes past the policy holds a decision   *)
(* that allows it.                                                         *)
LEMMA AskStep ==
  ASSUME GateOK, JobsOK, AskPolicy
  PROVE  GateOK'
<1>1. PICK j \in job :
        /\ decisions' = Append(decisions, Decision(j.rec.tenant, j.dev, j.command))
        /\ job' = {IF Last(decisions').allowed
                   THEN [j EXCEPT !.stage = "driver", !.decision = Len(decisions')]
                   ELSE [j EXCEPT !.stage = "evidence", !.type = "edge_policy_denied_command",
                                  !.reason = "policy_denied"]}
  BY DEF AskPolicy, verify_policy
<1>2. UNCHANGED <<production, performed>>
  BY DEF AskPolicy
<1>x. PICK x : x = Decision(j.rec.tenant, j.dev, j.command)
  OBVIOUS
<1>n. PICK n : n = Len(decisions')
  OBVIOUS
<1>g. PICK go : go = [j EXCEPT !.stage = "driver", !.decision = n]
  OBVIOUS
<1>s. PICK stop : stop = [j EXCEPT !.stage = "evidence", !.type = "edge_policy_denied_command",
                                   !.reason = "policy_denied"]
  OBVIOUS
<1>3. x.dev = j.dev /\ x.action = j.command /\ (x.allowed /\ production => ~x.unavailable)
  BY <1>x, DecisionFacts, SMT
<1>4. /\ IsSeq(decisions') /\ IsSeq(performed') /\ GrantedOK'
      /\ n \in DOMAIN decisions' /\ decisions'[n] = x /\ Last(decisions') = x
      /\ \A i \in Gated' : performed'[i].decision # n
  BY <1>1, <1>2, <1>x, <1>n, DecisionAdded
<1>5. job' = {IF Last(decisions').allowed THEN go ELSE stop}
  BY <1>1, <1>n, <1>g, <1>s
<1>6. go.decision = n /\ go.dev = j.dev /\ go.command = j.command /\ stop.stage = "evidence"
  BY <1>g, <1>s DEF JobsOK, JobShape, JobFields
<1>7. CASE x.allowed
  <2>1. job' = {go}
    BY <1>4, <1>5, <1>7
  <2>2. Grants(n, j.dev, j.command)'
    BY <1>2, <1>3, <1>4, <1>7 DEF Grants
  <2>3. HoldsGrant(go)'
    BY <1>4, <1>6, <2>2 DEF HoldsGrant
  <2>4. QED
    BY <1>4, <2>1, <2>3 DEF GateOK
<1>8. CASE ~x.allowed
  <2>1. job' = {stop}
    BY <1>4, <1>5, <1>8
  <2>2. QED
    BY <1>4, <1>6, <2>1 DEF GateOK, AtDriver
<1>9. QED
  BY <1>7, <1>8

(* A driver that is given a command uses up the decision of its job.       *)
LEMMA RunStep ==
  ASSUME GateOK, JobsOK, NEW ok \in BOOLEAN, RunDriver(ok)
  PROVE  GateOK'
<1>1. UNCHANGED <<decisions, production>>
  BY DEF RunDriver, vvars
<1>2. PICK j \in job :
        /\ j.stage = "driver"
        /\ \/ /\ performed' = Append(performed, [dev |-> j.dev, command |-> j.command,
                                                 decision |-> j.decision])
              /\ job' = {Driven(j, ok)}
           \/ /\ job' = {[j EXCEPT !.stage = "save", !.reason = "driver_missing"]}
              /\ UNCHANGED performed
  BY DEF RunDriver
<1>3. \A k, d, c : Grants(k, d, c)' <=> Grants(k, d, c)
  BY <1>1 DEF Grants
<1>4. CASE job' = {[j EXCEPT !.stage = "save", !.reason = "driver_missing"]} /\ UNCHANGED performed
  <2>1. \A s \in job' : ~AtDriver(s)
    BY <1>4 DEF AtDriver, JobsOK, JobShape, JobFields
  <2>2. Gated' = Gated
    BY <1>4 DEF Gated
  <2>3. QED
    BY <1>1, <1>3, <1>4, <2>1, <2>2 DEF GateOK, GrantedOK, AtDriver
<1>5. CASE /\ performed' = Append(performed, [dev |-> j.dev, command |-> j.command,
                                              decision |-> j.decision])
           /\ job' = {Driven(j, ok)}
  <2>r. PICK r : r = [dev |-> j.dev, command |-> j.command, decision |-> j.decision]
    OBVIOUS
  <2>n. PICK n : n = Len(performed) + 1
    OBVIOUS
  <2>1. /\ IsSeq(performed') /\ DOMAIN performed = 1..Len(performed) /\ Len(performed) \in Nat
        /\ DOMAIN performed' = 1..n
        /\ \A i \in 1..Len(performed) : performed'[i] = performed[i]
        /\ performed'[n] = r
    BY <1>5, <2>r, <2>n, Appended, SMT DEF GateOK
  <2>2. \A i \in DOMAIN performed' :
          i = n \/ (i \in DOMAIN performed /\ performed'[i] = performed[i])
    BY <2>1, <2>n, SMT
  <2>3. r.dev = j.dev /\ r.command = j.command /\ r.decision = j.decision
    BY <2>r
  <2>4. \A i \in Gated' : \/ i \in Gated /\ performed'[i] = performed[i]
                          \/ i = n /\ high_risk_command(j.command)
    BY <2>1, <2>2, <2>3 DEF Gated
  <2>5. high_risk_command(j.command) => HoldsGrant(j)
    BY <1>2 DEF GateOK, AtDriver
  <2>6. ASSUME NEW i \in Gated'
        PROVE  Grants(performed'[i].decision, performed'[i].dev, performed'[i].command)
    BY <2>1, <2>3, <2>4, <2>5 DEF GateOK, GrantedOK, HoldsGrant
  <2>7. ASSUME NEW i \in Gated', NEW k \in Gated', performed'[i].decision = performed'[k].decision
        PROVE  i = k
    BY <2>1, <2>3, <2>4, <2>5, <2>7, SMT DEF GateOK, GrantedOK, HoldsGrant
  <2>8. GrantedOK'
    BY <1>3, <2>6, <2>7 DEF GrantedOK
  <2>9. \A s \in job' : ~AtDriver(s)
    <3>1. Driven(j, ok).stage \in {"evidence", "save"}
      BY DrivenJob DEF JobsOK
    <3>2. QED
      BY <1>5, <3>1 DEF AtDriver
  <2>10. QED
    BY <1>1, <2>1, <2>8, <2>9 DEF GateOK, AtDriver
<1>6. QED
  BY <1>2, <1>4, <1>5

(* No step of the services performs a high-risk command without its        *)
(* decision.                                                               *)
LEMMA GateStep ==
  ASSUME GateOK, JobsOK, [ENext]_allvars
  PROVE  GateOK'
<1> DEFINE Same == UNCHANGED <<decisions, production, performed>>
<1>1. ASSUME Same PROVE /\ IsSeq(decisions') /\ IsSeq(performed') /\ GrantedOK'
                        /\ \A j : HoldsGrant(j)' <=> HoldsGrant(j)
  <2>1. \A k, d, c : Grants(k, d, c)' <=> Grants(k, d, c)
    BY <1>1 DEF Grants
  <2>2. Gated' = Gated
    BY <1>1 DEF Gated
  <2>3. QED
    BY <1>1, <2>1, <2>2 DEF GateOK, GrantedOK, HoldsGrant
<1>2. ASSUME Same, \A j \in job' : ~AtDriver(j) PROVE GateOK'
  BY <1>1, <1>2 DEF GateOK, AtDriver
<1>3. ASSUME Same, UNCHANGED job PROVE GateOK'
  BY <1>1, <1>3 DEF GateOK, AtDriver
<1>4. CASE \E t \in Tenants, d \in Devices, o \in Orgs, k \in Kinds, caps \in CapSets,
              driver \in BOOLEAN : register_device_edge(t, d, o, k, caps, driver)
           /\ UNCHANGED vvars
  <2>1. \E d, rec, x : job' = {Job("fleet", d, rec, "edge_device_registered", 0, "", x, "")}
    BY <1>4 DEF register_device_edge
  <2>p. PICK d, rec, x : job' = {Job("fleet", d, rec, "edge_device_registered", 0, "", x, "")}
    BY <2>1
  <2>q. PICK s : s = Job("fleet", d, rec, "edge_device_registered", 0, "", x, "")
    OBVIOUS
  <2>a. job' = {s} /\ s.stage = "fleet"
    BY <2>p, <2>q DEF Job
  <2>2. \A j \in job' : ~AtDriver(j)
    BY <2>a DEF AtDriver
  <2>3. QED
    BY <1>2, <1>4, <2>2 DEF register_device_edge, vvars
<1>5. CASE (\E t \in Tenants, d \in Devices, bad \in 0..1, at \in EdgeTimes :
              update_inventory_edge(t, d, bad, at)) /\ UNCHANGED vvars
  <2>1. \E d, rec, at, x : job' = {Job("evidence", d, rec, "edge_inventory_updated", at, "", x, "")}
    BY <1>5 DEF update_inventory_edge
  <2>p. PICK d, rec, at, x :
          job' = {Job("evidence", d, rec, "edge_inventory_updated", at, "", x, "")}
    BY <2>1
  <2>q. PICK s : s = Job("evidence", d, rec, "edge_inventory_updated", at, "", x, "")
    OBVIOUS
  <2>a. job' = {s} /\ s.stage = "evidence"
    BY <2>p, <2>q DEF Job
  <2>2. \A j \in job' : ~AtDriver(j)
    BY <2>a DEF AtDriver
  <2>3. QED
    BY <1>2, <1>5, <2>2 DEF update_inventory_edge, vvars
<1>6. CASE execute_command /\ UNCHANGED vvars
  <2>1. PICK r : job' = {Screened(r)}
    BY <1>6 DEF execute_command
  <2>2. \A j \in job' : ~AtDriver(j)
    BY <2>1, ScreenedJob DEF AtDriver
  <2>3. QED
    BY <1>2, <1>6, <2>2 DEF execute_command, vvars
<1>7. CASE RegisterInFleet
  <2>1. PICK j \in job : job' = {[j EXCEPT !.stage = "evidence"]}
    BY <1>7 DEF RegisterInFleet
  <2>2. \A s \in job' : ~AtDriver(s)
    BY <2>1 DEF JobsOK, JobShape, JobFields, AtDriver
  <2>3. QED
    BY <1>2, <1>7, <2>2 DEF RegisterInFleet, vvars
<1>8. CASE emit_trust_evidence
  <2>1. PICK j \in job : job' = {[j EXCEPT !.stage = "save"]}
    BY <1>8 DEF emit_trust_evidence
  <2>2. \A s \in job' : ~AtDriver(s)
    BY <2>1 DEF JobsOK, JobShape, JobFields, AtDriver
  <2>3. QED
    BY <1>2, <1>8, <2>2 DEF emit_trust_evidence
<1>9. CASE SaveJob \/ EdgeRestart
  <2>1. Same /\ job' = {}
    BY <1>9 DEF SaveJob, EdgeRestart, VeilRestart, vvars
  <2>2. QED
    BY <1>2, <2>1
<1>10. CASE EdgeLocal /\ UNCHANGED vvars
  <2>1. ASSUME \/ \E t \in Tenants, d \in Devices, c \in Commands, at \in EdgeTimes :
                    AdmitCommand(t, d, c, at)
               \/ \E t \in Tenants, d \in Devices : register_capability(t, d, "cash_in")
               \/ \E t \in Tenants, d \in Devices, flag \in BOOLEAN,
                     action \in {"offline", "online", "fault", "telemetry", "cash_in"} :
                    simulate(t, d, action, flag)
        PROVE  UNCHANGED <<performed, job>>
    BY <2>1 DEF AdmitCommand, register_capability, simulate
  <2>2. UNCHANGED <<performed, job>> => GateOK'
    BY <1>3, <1>10 DEF vvars
  <2>3. QED
    BY <1>4, <1>5, <1>6, <1>10, <2>1, <2>2 DEF EdgeLocal
<1>11. CASE EdgeNext
  <2>1. UNCHANGED <<cvars, kvars, vvars>> => UNCHANGED vvars
    OBVIOUS
  <2>2. \A ok \in BOOLEAN : RunDriver(ok) => GateOK'
    BY RunStep
  <2>3. QED
    BY <1>7, <1>8, <1>9, <1>10, <1>11, <2>1, <2>2, AskStep DEF EdgeNext
<1>12. CASE VStep /\ UNCHANGED evars
  <2>1. CASE \E t \in Orgs, d \in Devices, a \in Actions : PreviewPolicy(t, d, a)
    <3>1. PICK x : decisions' = Append(decisions, x)
      BY <2>1 DEF PreviewPolicy, verify_policy
    <3>2. UNCHANGED <<production, performed, job>>
      BY <2>1, <1>12 DEF PreviewPolicy, evars
    <3>3. /\ IsSeq(decisions') /\ IsSeq(performed') /\ GrantedOK'
          /\ \A j : HoldsGrant(j) => HoldsGrant(j)'
      BY <3>1, <3>2, DecisionAdded
    <3>4. QED
      BY <3>2, <3>3 DEF GateOK, AtDriver
  <2>2. CASE UNCHANGED <<decisions, production>>
    BY <1>3, <1>12, <2>2 DEF evars
  <2>3. VeilNext => \/ \E t \in Orgs, d \in Devices, a \in Actions : PreviewPolicy(t, d, a)
                    \/ UNCHANGED <<decisions, production>>
    BY DEF VeilNext, PostEvidence, VeilSwitch, AlterRecord, LoseRecord
  <2>4. VeilTorn \/ UNCHANGED vvars => UNCHANGED <<decisions, production>>
    BY DEF VeilTorn, vvars
  <2>5. QED
    BY <1>12, <2>1, <2>2, <2>3, <2>4 DEF VStep
<1>13. CASE EdgeTorn \/ UNCHANGED allvars
  BY <1>3, <1>13 DEF EdgeTorn, allvars, evars, vvars
<1>14. QED
  BY <1>9, <1>11, <1>12, <1>13 DEF ENext, EStep

(* A driver is given a high-risk command only on a decision of its own     *)
(* that allows it, which in production VEIL has made: whatever requests,   *)
(* previews, crashes and outages come in between.                          *)
THEOREM PolicyHolds == ESpec => []PolicyGates
<1>1. VInit /\ EInit => GateOK
  <2> SUFFICES ASSUME VInit, EInit PROVE GateOK
    OBVIOUS
  <2>1. decisions = <<>> /\ performed = <<>> /\ job = {}
    BY DEF VInit, EInit
  <2>2. IsSeq(decisions) /\ IsSeq(performed)
    <3>1. <<>> \in Seq({})
      BY SMT
    <3>2. QED
      BY <2>1, <3>1 DEF IsSeq
  <2>3. Gated = {}
    BY <2>1, SMT DEF Gated
  <2>4. QED
    BY <2>1, <2>2, <2>3 DEF GateOK, GrantedOK
<1>2. GateOK /\ (ControlInv /\ JobsOK) /\ [ENext]_allvars => GateOK'
  BY GateStep
<1>3. QED
  BY <1>1, <1>2, ControlInvariant, GateMeaning, PTL DEF ESpec, allvars

-----------------------------------------------------------------------------
(***************************************************************************)
(* Types of the platform.  The record of a job is the one of its device,   *)
(* but for a command to a device that nobody knows.                        *)
(***************************************************************************)
Stages == {"fleet", "policy", "driver", "evidence", "save"}
JobTyped(j) ==
  /\ JobShape(j) /\ j.stage \in Stages
  /\ j.dev \in Devices /\ j.at \in Nat /\ j.executed \in BOOLEAN
  /\ j.command \in Commands \cup {""} /\ (j.stage = "policy" => j.command \in Commands)
  /\ (j.stage = "fleet" => j.command = "")
  /\ j.stage \in {"evidence", "save"} => j.command = "" \/ j.reason \in Reasons
  /\ j.reason = "unknown_device" => j.stage = "save"
  /\ j.reason # "unknown_device" => j.rec \in EdgeRecords
Counts == [total : Nat, failed : Nat]
CountsOK == counted \in [Devices -> Counts] /\ \A d \in Devices : counted[d].failed <= counted[d].total
EdgeOK ==
  /\ DOMAIN edge \subseteq Devices /\ \A d \in DOMAIN edge : edge[d] \in EdgeRecords
  /\ results \in Seq(Results) /\ admitted \subseteq Requests
  /\ \A j \in job : JobTyped(j)

(* A job that an operation of the platform starts.                         *)
LEMMA JobIsTyped ==
  ASSUME NEW stage \in Stages, NEW d \in Devices, NEW rec, NEW type, NEW at \in Nat,
         NEW command, command = "" \/ command \in Commands, NEW reason,
         stage = "policy" => command \in Commands, stage = "fleet" => command = "",
         stage \in {"evidence", "save"} => command = "" \/ reason \in Reasons,
         reason = "unknown_device" => stage = "save",
         reason # "unknown_device" => rec \in EdgeRecords
  PROVE  JobTyped(Job(stage, d, rec, type, at, command, FALSE, reason))
<1> DEFINE j == Job(stage, d, rec, type, at, command, FALSE, reason)
<1>1. /\ JobShape(j) /\ j.stage = stage /\ j.dev = d /\ j.rec = rec /\ j.type = type /\ j.at = at
      /\ j.command = command /\ j.reason = reason /\ j.executed = FALSE
  BY DEF Job, JobShape, JobFields
<1>2. FALSE \in BOOLEAN /\ command \in Commands \cup {""}
  OBVIOUS
<1> HIDE DEF j
<1>3. JobTyped(j)
  BY <1>1, <1>2 DEF JobTyped
<1> QED BY <1>3 DEF j

(* execute_command knows the device of every job but the one that it ends. *)
LEMMA ScreenedTyped ==
  ASSUME EdgeOK, NEW r \in Requests
  PROVE  JobTyped(Screened(r))
<1>1. r.dev \in Devices /\ r.command \in Commands /\ r.at \in Nat
  BY DEF Requests
<1> DEFINE Step(stage, rec, type, reason) ==
             Screened(r) = Job(stage, r.dev, rec, type, r.at, r.command, FALSE, reason)
           rec == edge[r.dev]
<1>2. CASE r.dev \notin DOMAIN edge
  <2>1. Screened(r) = Job("save", r.dev, <<>>, "", r.at, r.command, FALSE, "unknown_device")
    BY <1>2 DEF Screened
  <2>2. "save" \in Stages /\ "unknown_device" \in Reasons
    BY DEF Stages, Reasons
  <2>3. JobTyped(Job("save", r.dev, <<>>, "", r.at, r.command, FALSE, "unknown_device"))
    BY <1>1, <2>2, JobIsTyped
  <2> QED BY <2>1, <2>3
<1>3. CASE r.dev \in DOMAIN edge
  <2>1. rec \in EdgeRecords
    BY <1>3 DEF EdgeOK
  <2>2. \/ Step("evidence", rec, "unsupported_command_rejected", "unsupported_command")
        \/ Step("evidence", rec, "unsupported_command_rejected", "missing_capability")
        \/ Step("save", rec, "", "device_offline")
        \/ Step("policy", rec, "", "")
        \/ Step("driver", rec, "", "")
    BY <1>3 DEF Screened
  <2> DEFINE Goes(stage, type, reason) ==
               /\ Step(stage, rec, type, reason) /\ reason # "unknown_device" /\ stage # "fleet"
               /\ stage \in {"evidence", "save"} => reason \in Reasons
  <2>g. \E stage \in Stages : \E type, reason : Goes(stage, type, reason)
    BY <2>2 DEF Stages, Reasons
  <2>3. PICK stage, type, reason : stage \in Stages /\ Goes(stage, type, reason)
    BY <2>g
  <2> HIDE DEF rec
  <2>4. JobTyped(Job(stage, r.dev, rec, type, r.at, r.command, FALSE, reason))
    BY <1>1, <2>1, <2>3, JobIsTyped
  <2> QED BY <2>3, <2>4
<1> QED BY <1>2, <1>3

(* A job that moves on keeps its types.                                    *)
LEMMA JobMoves ==
  ASSUME NEW j, JobTyped(j), j.stage # "save", NEW k, JobShape(k), k.dev = j.dev, k.at = j.at,
         k.command = j.command, k.executed \in BOOLEAN, k.rec \in EdgeRecords,
         k.stage \in {"driver", "evidence", "save"}, k.reason # "unknown_device",
         k.stage \in {"evidence", "save"} => k.command = "" \/ k.reason \in Reasons
  PROVE  JobTyped(k)
<1>1. k.dev \in Devices /\ k.at \in Nat /\ k.command \in Commands \cup {""}
  BY DEF JobTyped
<1>2. k.stage \in Stages /\ k.stage # "policy" /\ k.stage # "fleet"
  BY DEF Stages
<1> QED BY <1>1, <1>2 DEF JobTyped

(* The driver leaves a record of its device behind.                        *)
LEMMA DrivenTyped ==
  ASSUME NEW j, JobTyped(j), j.stage = "driver", NEW ok \in BOOLEAN
  PROVE  /\ JobTyped(Driven(j, ok))
         /\ JobTyped([j EXCEPT !.stage = "save", !.reason = "driver_missing"])
<1>1. j.rec \in EdgeRecords /\ JobShape(j) /\ j.executed \in BOOLEAN /\ j.stage # "save"
  BY DEF JobTyped
<1> DEFINE k == Driven(j, ok)
           m == [j EXCEPT !.stage = "save", !.reason = "driver_missing"]
           was == j.rec.maintenance
           flag == CASE j.command = "enter_maintenance_mode" -> TRUE
                     [] j.command = "exit_maintenance_mode" -> FALSE
                     [] OTHER -> was
<1>2. flag \in BOOLEAN
  BY <1>1 DEF EdgeRecords
<1>3. [j.rec EXCEPT !.maintenance = flag] \in EdgeRecords
  <2> HIDE DEF flag
  <2> QED BY <1>1, <1>2 DEF EdgeRecords
<1>4. /\ JobShape(k) /\ k.dev = j.dev /\ k.at = j.at /\ k.command = j.command /\ k.executed = ok
      /\ k.rec = [j.rec EXCEPT !.maintenance = flag]
      /\ k.reason \in {"driver_executed", "driver_unhealthy"} /\ k.stage \in {"evidence", "save"}
  BY <1>1, ZenonT(20) DEF Driven, JobShape, JobFields
<1>5. /\ JobShape(m) /\ m.dev = j.dev /\ m.at = j.at /\ m.command = j.command
      /\ m.executed = j.executed /\ m.rec = j.rec
      /\ m.reason = "driver_missing" /\ m.stage = "save"
  BY <1>1 DEF JobShape, JobFields
<1> HIDE DEF k, m, flag
<1>6. k.reason \in Reasons /\ k.reason # "unknown_device" /\ k.stage \in {"driver", "evidence", "save"}
  BY <1>4 DEF Reasons, Stages
<1>7. JobTyped(k)
  BY <1>1, <1>3, <1>4, <1>6, JobMoves
<1>8. m.reason \in Reasons /\ m.reason # "unknown_device" /\ m.stage \in {"driver", "evidence", "save"}
  BY <1>5 DEF Reasons, Stages
<1>9. JobTyped(m)
  BY <1>1, <1>5, <1>8, JobMoves
<1> QED BY <1>7, <1>9 DEF k, m

(* What the simulator makes of the record of a device is one.              *)
LEMMA SimulatedTyped ==
  ASSUME NEW s \in EdgeRecords, NEW action, NEW flag \in BOOLEAN
  PROVE  Simulated(s, action, flag) \in EdgeRecords
<1>1. s.faults \in Nat
  BY DEF EdgeRecords
<1>2. s.faults + 1 \in Nat
  BY <1>1, SMT
<1>3. [s EXCEPT !.faults = @ + 1] \in EdgeRecords
  <2>1. PICK n \in Nat : n = s.faults + 1
    BY <1>2
  <2>2. [s EXCEPT !.faults = n] \in EdgeRecords
    BY DEF EdgeRecords
  <2> QED BY <2>1, <2>2
<1>4. \A b \in BOOLEAN : [s EXCEPT !.online = b] \in EdgeRecords
  BY DEF EdgeRecords
<1>5. [s EXCEPT !.maintenance = flag] \in EdgeRecords
  BY DEF EdgeRecords
<1>6. [s EXCEPT !.online = TRUE] \in EdgeRecords /\ [s EXCEPT !.online = FALSE] \in EdgeRecords
  BY <1>4
<1> QED BY <1>3, <1>5, <1>6 DEF Simulated

(* The record of a device that is registered.                              *)
LEMMA RegisteredTyped ==
  ASSUME NEW o \in Orgs, NEW kind, NEW caps \in CapSets, NEW driver \in BOOLEAN
  PROVE  [tenant |-> o, driver |-> driver,
          caps |-> IF caps = {} THEN default_capabilities_for_type(kind) ELSE caps,
          online |-> TRUE, faults |-> 0, bad |-> 0, maintenance |-> FALSE] \in EdgeRecords
<1>1. default_capabilities_for_type(kind) \in SUBSET Capabilities
  BY DEF default_capabilities_for_type, Capabilities
<1>2. caps \in SUBSET Capabilities
  BY DEF Capabilities
<1>3. PICK has \in SUBSET Capabilities :
        has = IF caps = {} THEN default_capabilities_for_type(kind) ELSE caps
  BY <1>1, <1>2
<1>4. 0 \in Nat /\ TRUE \in BOOLEAN /\ FALSE \in BOOLEAN
  BY SMT
<1>5. [tenant |-> o, driver |-> driver, caps |-> has, online |-> TRUE, faults |-> 0, bad |-> 0,
       maintenance |-> FALSE] \in EdgeRecords
  BY <1>4 DEF EdgeRecords
<1> QED BY <1>3, <1>5

(* The operations within the platform keep its types.                      *)
LEMMA LocalTyped ==
  ASSUME EdgeOK, EdgeLocal
  PROVE  EdgeOK'
<1>1. ASSUME NEW j, JobTyped(j), job' = {j}, UNCHANGED <<edge, results>>,
             admitted' \subseteq admitted
      PROVE  EdgeOK'
  BY <1>1 DEF EdgeOK
<1>2. ASSUME NEW d \in DOMAIN edge, NEW r \in EdgeRecords, edge' = [edge EXCEPT ![d] = r],
             UNCHANGED <<results, admitted, job>>
      PROVE  EdgeOK'
  <2>1. DOMAIN edge' = DOMAIN edge /\ \A x \in DOMAIN edge : edge'[x] \in {r, edge[x]}
    BY <1>2
  <2> QED BY <1>2, <2>1 DEF EdgeOK
<1>3. EdgeTimes \subseteq Nat /\ 0 \in Nat
  BY EdgeAssumption, SMT
<1>4. "fleet" \in Stages /\ "evidence" \in Stages
  BY DEF Stages
<1>5. CASE \E t \in Tenants, d \in Devices, o \in Orgs, k \in Kinds, caps \in CapSets,
              driver \in BOOLEAN : register_device_edge(t, d, o, k, caps, driver)
  <2>1. PICK d \in Devices, rec \in EdgeRecords :
          /\ job' = {Job("fleet", d, rec, "edge_device_registered", 0, "", FALSE, "")}
          /\ UNCHANGED <<edge, results, admitted>>
    BY <1>5, RegisteredTyped, ZenonT(20) DEF register_device_edge
  <2>2. JobTyped(Job("fleet", d, rec, "edge_device_registered", 0, "", FALSE, ""))
    BY <1>3, <1>4, JobIsTyped
  <2> QED BY <1>1, <2>1, <2>2
<1>6. CASE \E t \in Tenants, d \in Devices, bad \in 0..1, at \in EdgeTimes :
              update_inventory_edge(t, d, bad, at)
  <2>1. PICK d \in Devices, bad \in 0..1, at \in EdgeTimes :
          /\ d \in DOMAIN edge
          /\ job' = {Job("evidence", d, [edge[d] EXCEPT !.bad = bad], "edge_inventory_updated", at,
                         "", FALSE, "")}
          /\ UNCHANGED <<edge, results, admitted>>
    BY <1>6 DEF update_inventory_edge
  <2>2. bad \in Nat
    BY SMT
  <2>3. [edge[d] EXCEPT !.bad = bad] \in EdgeRecords
    BY <2>1, <2>2 DEF EdgeOK, EdgeRecords
  <2>4. at \in Nat
    BY <1>3
  <2>5. JobTyped(Job("evidence", d, [edge[d] EXCEPT !.bad = bad], "edge_inventory_updated", at,
                     "", FALSE, ""))
    BY <1>4, <2>3, <2>4, JobIsTyped
  <2> QED BY <1>1, <2>1, <2>5
<1>7. CASE \E t \in Tenants, d \in Devices, c \in Commands, at \in EdgeTimes : AdmitCommand(t, d, c, at)
  <2>1. PICK d \in Devices, c \in Commands, at \in EdgeTimes :
          /\ admitted' = {[dev |-> d, command |-> c, at |-> at]}
          /\ UNCHANGED <<edge, results, job>>
    BY <1>7 DEF AdmitCommand
  <2>2. at \in Nat
    BY <1>3
  <2>3. [dev |-> d, command |-> c, at |-> at] \in Requests
    BY <2>2 DEF Requests
  <2> QED BY <2>1, <2>3 DEF EdgeOK
<1>8. CASE execute_command
  <2>1. PICK r \in admitted : job' = {Screened(r)} /\ UNCHANGED <<edge, results>> /\ admitted' = {}
    BY <1>8 DEF execute_command
  <2>2. JobTyped(Screened(r))
    BY ScreenedTyped DEF EdgeOK
  <2> QED BY <1>1, <2>1, <2>2
<1>9. CASE \E t \in Tenants, d \in Devices : register_capability(t, d, "cash_in")
  <2>1. PICK d \in DOMAIN edge :
          /\ edge' = [edge EXCEPT ![d].caps = @ \cup {"cash_in"}]
          /\ UNCHANGED <<results, admitted, job>>
    BY <1>9 DEF register_capability
  <2>2. edge[d] \in EdgeRecords
    BY DEF EdgeOK
  <2>3. edge[d].caps \cup {"cash_in"} \in SUBSET Capabilities
    BY <2>2 DEF EdgeRecords, Capabilities
  <2>4. [edge[d] EXCEPT !.caps = edge[d].caps \cup {"cash_in"}] \in EdgeRecords
    BY <2>2, <2>3 DEF EdgeRecords
  <2>5. edge' = [edge EXCEPT ![d] = [edge[d] EXCEPT !.caps = edge[d].caps \cup {"cash_in"}]]
    BY <2>1
  <2> QED BY <1>2, <2>1, <2>4, <2>5
<1>10. CASE \E t \in Tenants, d \in Devices, flag \in BOOLEAN,
               action \in {"offline", "online", "fault", "telemetry", "cash_in"} :
              simulate(t, d, action, flag)
  <2>1. PICK d, flag, action :
          /\ d \in DOMAIN edge /\ flag \in BOOLEAN
          /\ edge' = [edge EXCEPT ![d] = Simulated(edge[d], action, flag)]
          /\ UNCHANGED <<results, admitted, job>>
    BY <1>10 DEF simulate
  <2>2. Simulated(edge[d], action, flag) \in EdgeRecords
    BY <2>1, SimulatedTyped DEF EdgeOK
  <2> QED BY <1>2, <2>1, <2>2
<1> QED BY <1>5, <1>6, <1>7, <1>8, <1>9, <1>10 DEF EdgeLocal

(* SaveJob stores a record of the device and a result of a known reason.   *)
LEMMA SavedTyped ==
  ASSUME EdgeOK, SaveJob
  PROVE  EdgeOK'
<1>1. PICK j \in job :
        /\ j.stage = "save"
        /\ edge' = IF j.reason = "unknown_device" THEN edge ELSE Put(edge, j.dev, j.rec)
        /\ results' = IF j.command = "" THEN results
                      ELSE Append(results, [dev |-> j.dev, command |-> j.command,
                                            executed |-> j.executed, reason |-> j.reason])
        /\ job' = {} /\ UNCHANGED admitted
  BY DEF SaveJob
<1>2. JobTyped(j)
  BY DEF EdgeOK
<1>3. DOMAIN edge' \subseteq Devices /\ \A d \in DOMAIN edge' : edge'[d] \in EdgeRecords
  <2>1. CASE j.reason = "unknown_device"
    BY <1>1, <2>1 DEF EdgeOK
  <2>2. CASE j.reason # "unknown_device"
    <3>1. edge' = Put(edge, j.dev, j.rec) /\ j.rec \in EdgeRecords /\ j.dev \in Devices
      BY <1>1, <1>2, <2>2 DEF JobTyped
    <3>2. DOMAIN edge' = DOMAIN edge \cup {j.dev}
      BY <3>1 DEF Put
    <3>3. \A d \in DOMAIN edge' : edge'[d] = IF d = j.dev THEN j.rec ELSE edge[d]
      BY <3>1 DEF Put
    <3> QED BY <3>1, <3>2, <3>3 DEF EdgeOK
  <2> QED BY <2>1, <2>2
<1>4. results' \in Seq(Results)
  <2>1. CASE j.command = ""
    BY <1>1, <2>1 DEF EdgeOK
  <2>2. CASE j.command # ""
    <3> DEFINE r == [dev |-> j.dev, command |-> j.command, executed |-> j.executed,
                     reason |-> j.reason]
    <3>1. j.dev \in Devices /\ j.command \in Commands /\ j.executed \in BOOLEAN /\ j.reason \in Reasons
      BY <1>1, <1>2, <2>2 DEF JobTyped
    <3>2. r \in Results
      BY <3>1 DEF Results
    <3>3. results' = Append(results, r) /\ results \in Seq(Results)
      BY <1>1, <2>2 DEF EdgeOK
    <3> HIDE DEF r
    <3> QED BY <3>2, <3>3, SMT
  <2> QED BY <2>1, <2>2
<1> QED BY <1>1, <1>3, <1>4 DEF EdgeOK

(* Every step of the server keeps the types of the platform.               *)
LEMMA EdgeTypeStep ==
  ASSUME EdgeOK, [ENext]_allvars
  PROVE  EdgeOK'
<1>1. ASSUME NEW j, JobTyped(j), job' = {j}, UNCHANGED <<edge, results, admitted>>
      PROVE  EdgeOK'
  BY <1>1 DEF EdgeOK
<1>2. \A j \in job : JobTyped(j) /\ JobShape(j)
  BY DEF EdgeOK, JobTyped
<1>3. CASE RegisterInFleet
  <2>1. PICK j \in job : j.stage = "fleet" /\ job' = {[j EXCEPT !.stage = "evidence"]}
    BY <1>3 DEF RegisterInFleet
  <2> DEFINE k == [j EXCEPT !.stage = "evidence"]
  <2>2. /\ JobShape(k) /\ k.dev = j.dev /\ k.at = j.at /\ k.command = j.command
        /\ k.executed = j.executed /\ k.rec = j.rec /\ k.reason = j.reason /\ k.stage = "evidence"
    BY <1>2 DEF JobShape, JobFields
  <2> HIDE DEF k
  <2>3. /\ j.executed \in BOOLEAN /\ j.reason # "unknown_device" /\ j.rec \in EdgeRecords
        /\ j.command = "" /\ j.stage # "save"
    BY <1>2, <2>1 DEF JobTyped
  <2>4. JobTyped(k)
    BY <1>2, <2>2, <2>3, JobMoves
  <2> QED BY <1>1, <1>3, <2>1, <2>4 DEF k, RegisterInFleet
<1>4. CASE AskPolicy
  <2>1. PICK j \in job :
          /\ j.stage = "policy"
          /\ job' = {IF Last(decisions').allowed
                     THEN [j EXCEPT !.stage = "driver", !.decision = Len(decisions')]
                     ELSE [j EXCEPT !.stage = "evidence", !.type = "edge_policy_denied_command",
                                    !.reason = "policy_denied"]}
    BY <1>4 DEF AskPolicy
  <2>2. PICK n : n = Len(decisions')
    OBVIOUS
  <2> DEFINE go == [j EXCEPT !.stage = "driver", !.decision = n]
             stop == [j EXCEPT !.stage = "evidence", !.type = "edge_policy_denied_command",
                               !.reason = "policy_denied"]
  <2>3. job' = {go} \/ job' = {stop}
    BY <2>1, <2>2
  <2>4. /\ JobShape(go) /\ go.dev = j.dev /\ go.at = j.at /\ go.command = j.command
        /\ go.executed = j.executed /\ go.rec = j.rec /\ go.reason = j.reason /\ go.stage = "driver"
    BY <1>2 DEF JobShape, JobFields
  <2>5. /\ JobShape(stop) /\ stop.dev = j.dev /\ stop.at = j.at /\ stop.command = j.command
        /\ stop.executed = j.executed /\ stop.rec = j.rec /\ stop.reason = "policy_denied"
        /\ stop.stage = "evidence"
    BY <1>2 DEF JobShape, JobFields
  <2> HIDE DEF go, stop
  <2>6. /\ j.executed \in BOOLEAN /\ j.reason # "unknown_device" /\ j.rec \in EdgeRecords
        /\ j.stage # "save"
    BY <1>2, <2>1 DEF JobTyped
  <2>7. JobTyped(go)
    BY <1>2, <2>4, <2>6, JobMoves
  <2>8. "policy_denied" \in Reasons
    BY DEF Reasons
  <2>9. JobTyped(stop)
    BY <1>2, <2>5, <2>6, <2>8, JobMoves
  <2> QED BY <1>1, <1>4, <2>3, <2>7, <2>9 DEF AskPolicy
<1>5. CASE emit_trust_evidence
  <2>1. PICK j \in job : j.stage = "evidence" /\ job' = {[j EXCEPT !.stage = "save"]}
    BY <1>5 DEF emit_trust_evidence
  <2> DEFINE k == [j EXCEPT !.stage = "save"]
  <2>2. /\ JobShape(k) /\ k.dev = j.dev /\ k.at = j.at /\ k.command = j.command
        /\ k.executed = j.executed /\ k.rec = j.rec /\ k.reason = j.reason /\ k.stage = "save"
    BY <1>2 DEF JobShape, JobFields
  <2> HIDE DEF k
  <2>3. /\ j.executed \in BOOLEAN /\ j.reason # "unknown_device" /\ j.rec \in EdgeRecords
        /\ j.command = "" \/ j.reason \in Reasons
        /\ j.stage # "save"
    BY <1>2, <2>1 DEF JobTyped
  <2>4. JobTyped(k)
    BY <1>2, <2>2, <2>3, JobMoves
  <2> QED BY <1>1, <1>5, <2>1, <2>4 DEF k, emit_trust_evidence
<1>6. ASSUME NEW ok \in BOOLEAN, RunDriver(ok) PROVE EdgeOK'
  <2>1. PICK j \in job : /\ j.stage = "driver"
                         /\ \/ job' = {Driven(j, ok)}
                            \/ job' = {[j EXCEPT !.stage = "save", !.reason = "driver_missing"]}
    BY <1>6 DEF RunDriver
  <2>2. /\ JobTyped(Driven(j, ok))
        /\ JobTyped([j EXCEPT !.stage = "save", !.reason = "driver_missing"])
    BY <1>2, <2>1, DrivenTyped
  <2> QED BY <1>1, <1>6, <2>1, <2>2 DEF RunDriver
<1>7. CASE EdgeNext
  BY <1>3, <1>4, <1>5, <1>6, <1>7, LocalTyped, SavedTyped DEF EdgeNext
<1>8. CASE EdgeRestart
  BY <1>8 DEF EdgeRestart, EdgeOK
<1>9. CASE UNCHANGED evars
  BY <1>9 DEF evars, EdgeOK
<1> QED BY <1>7, <1>8, <1>9 DEF ENext, EStep, EdgeTorn, allvars

(* The counts of a device never say that more commands failed than came.   *)
LEMMA CountStep ==
  ASSUME EdgeOK, CountsOK, [ENext]_allvars
  PROVE  CountsOK'
<1>1. CASE UNCHANGED counted
  BY <1>1 DEF CountsOK
<1>2. CASE counted' = [d \in Devices |-> [total |-> 0, failed |-> 0]]
  <2>1. [total |-> 0, failed |-> 0] \in Counts
    BY SMT DEF Counts
  <2>2. PICK z : z = [total |-> 0, failed |-> 0]
    OBVIOUS
  <2>3. counted' \in [Devices -> Counts] /\ \A d \in Devices : counted'[d] = z
    BY <1>2, <2>1, <2>2
  <2>a. z.failed = 0 /\ z.total = 0
    BY <2>2
  <2>4. \A d \in Devices : counted'[d].failed = 0 /\ counted'[d].total = 0
    BY <2>3, <2>a
  <2>5. \A d \in Devices : counted'[d].failed <= counted'[d].total
    BY <2>4, SMT
  <2> QED BY <2>3, <2>5 DEF CountsOK
<1>3. CASE SaveJob
  <2>1. PICK j \in job :
          counted' = IF j.command = "" THEN counted
                     ELSE [counted EXCEPT ![j.dev].total = @ + 1,
                                          ![j.dev].failed = IF j.executed THEN @ ELSE @ + 1]
    BY <1>3 DEF SaveJob
  <2>2. j.dev \in Devices
    BY DEF EdgeOK, JobTyped
  <2> DEFINE n == counted[j.dev]
  <2>3. n \in Counts /\ n.failed <= n.total
    BY <2>2 DEF CountsOK
  <2>4. n.total \in Nat /\ n.failed \in Nat
    BY <2>3 DEF Counts
  <2>5. PICK m : m = [[n EXCEPT !.total = @ + 1] EXCEPT !.failed = IF j.executed THEN @ ELSE @ + 1]
    OBVIOUS
  <2>6. UNCHANGED counted \/ counted' = [counted EXCEPT ![j.dev] = m]
    BY <2>1, <2>2, <2>5 DEF CountsOK
  <2>7. /\ m = [total |-> m.total, failed |-> m.failed] /\ m.total = n.total + 1
        /\ m.failed = n.failed \/ m.failed = n.failed + 1
    BY <2>3, <2>5 DEF Counts
  <2> HIDE DEF n
  <2>8. m.total \in Nat /\ m.failed \in Nat /\ m.failed <= m.total
    BY <2>3, <2>4, <2>7, SMT
  <2>9. m \in Counts
    BY <2>7, <2>8 DEF Counts
  <2>10. ASSUME counted' = [counted EXCEPT ![j.dev] = m] PROVE CountsOK'
    <3>1. counted' \in [Devices -> Counts]
      BY <2>9, <2>10 DEF CountsOK
    <3>2. \A d \in Devices : counted'[d] = IF d = j.dev THEN m ELSE counted[d]
      BY <2>10 DEF CountsOK
    <3> QED BY <2>8, <3>1, <3>2 DEF CountsOK
  <2> QED BY <1>1, <2>6, <2>10
<1>4. CASE EdgeNext
  BY <1>1, <1>3, <1>4 DEF EdgeNext, EdgeLocal, register_device_edge, update_inventory_edge,
       AdmitCommand, execute_command, register_capability, simulate, RegisterInFleet, AskPolicy,
       emit_trust_evidence, RunDriver
<1>5. EdgeRestart => counted' = [d \in Devices |-> [total |-> 0, failed |-> 0]]
  BY DEF EdgeRestart
<1>6. UNCHANGED evars => UNCHANGED counted
  BY DEF evars
<1> QED BY <1>1, <1>2, <1>4, <1>5, <1>6 DEF ENext, EStep, EdgeTorn, allvars

-----------------------------------------------------------------------------
(***************************************************************************)
(* Types of the registry.                                                  *)
(***************************************************************************)
FleetOK ==
  /\ hierarchy \in [Nodes -> Tenants \cup {"absent"}]
  /\ DOMAIN registry \subseteq Devices /\ registry \in [DOMAIN registry -> DeviceRecords]
  /\ torn \subseteq {"control", "cash", "veil", "edge"}

(* A record that is put into the registry.                                 *)
LEMMA PutTyped ==
  ASSUME NEW d \in Devices, NEW r \in DeviceRecords, PutDevice(d, r),
         DOMAIN registry \subseteq Devices, registry \in [DOMAIN registry -> DeviceRecords]
  PROVE  DOMAIN registry' \subseteq Devices /\ registry' \in [DOMAIN registry' -> DeviceRecords]
<1>1. registry' = [x \in DOMAIN registry \cup {d} |-> IF x = d THEN r ELSE registry[x]]
  BY DEF PutDevice, Put
<1>2. DOMAIN registry' = DOMAIN registry \cup {d}
  BY <1>1
<1>3. \A x \in DOMAIN registry \cup {d} : (IF x = d THEN r ELSE registry[x]) \in DeviceRecords
  OBVIOUS
<1> QED BY <1>1, <1>2, <1>3

(* Every step of the server keeps the types of the registry.               *)
LEMMA FleetTypeStep ==
  ASSUME EdgeOK, FleetOK, [ENext]_allvars
  PROVE  FleetOK'
<1> DEFINE Reg == DOMAIN registry \subseteq Devices /\ registry \in [DOMAIN registry -> DeviceRecords]
<1>1. CASE RegistryNext
  <2>1. ASSUME NEW t \in Tenants, NEW n \in Nodes, NEW o \in Tenants, Upsert(t, n, o) PROVE FleetOK'
    <3>1. hierarchy' = [hierarchy EXCEPT ![n] = o] /\ UNCHANGED <<registry, torn>>
      BY <2>1 DEF Upsert
    <3>2. hierarchy' \in [Nodes -> Tenants \cup {"absent"}]
      BY <3>1 DEF FleetOK
    <3> QED BY <3>1, <3>2 DEF FleetOK
  <2>2. ASSUME NEW t \in Tenants, NEW d \in Devices, NEW r \in DeviceRecords, register_device(t, d, r)
        PROVE  FleetOK'
    BY <2>2, PutTyped DEF register_device, FleetOK
  <2>3. ASSUME NEW now \in Times, receive_heartbeat(now) PROVE FleetOK'
    <3>1. PICK l \in lookup :
            /\ registry' = [registry EXCEPT ![l.dev].online = TRUE, ![l.dev].seen = now]
            /\ UNCHANGED <<hierarchy, torn>>
      BY <2>3 DEF receive_heartbeat
    <3>2. \A r \in DeviceRecords : [r EXCEPT !.online = TRUE, !.seen = now] \in DeviceRecords
      BY DEF DeviceRecords
    <3>3. registry' = [registry EXCEPT ![l.dev] = [@ EXCEPT !.online = TRUE, !.seen = now]]
      BY <3>1 DEF FleetOK
    <3>4. registry' \in [DOMAIN registry -> DeviceRecords] /\ DOMAIN registry' = DOMAIN registry
      BY <3>2, <3>3 DEF FleetOK
    <3> QED BY <3>1, <3>4 DEF FleetOK
  <2>4. ASSUME NEW now \in Times, detect_stale_devices(now) PROVE FleetOK'
    <3>1. /\ registry' = [d \in DOMAIN registry |->
                            IF d \in Stale(now) THEN [registry[d] EXCEPT !.online = FALSE]
                            ELSE registry[d]]
          /\ UNCHANGED <<hierarchy, torn>>
      BY <2>4 DEF detect_stale_devices
    <3>2. registry' \in [DOMAIN registry -> DeviceRecords] /\ DOMAIN registry' = DOMAIN registry
      BY <3>1 DEF FleetOK, DeviceRecords
    <3> QED BY <3>1, <3>2 DEF FleetOK
  <2>5. ASSUME UNCHANGED <<hierarchy, registry, torn>> PROVE FleetOK'
    BY <2>5 DEF FleetOK
  <2> QED BY <1>1, <2>1, <2>2, <2>3, <2>4, <2>5 DEF RegistryNext, LookupDevice, acknowledge_alert
<1>2. CASE RegisterInFleet
  <2>1. PICK j \in job :
          /\ j.stage = "fleet" /\ UNCHANGED <<hierarchy, torn>>
          /\ PutDevice(j.dev, [org |-> j.rec.tenant, online |-> FALSE, seen |-> 0, penalty |-> 0])
    BY <1>2 DEF RegisterInFleet
  <2>2. j.dev \in Devices /\ j.rec \in EdgeRecords
    BY <2>1 DEF EdgeOK, JobTyped
  <2>3. 0 \in Times /\ 0 \in Penalties
    BY ControlAssumption, EdgeAssumption, SMT DEF Times
  <2>4. j.rec.tenant \in Orgs
    BY <2>2 DEF EdgeRecords
  <2>5. [org |-> j.rec.tenant, online |-> FALSE, seen |-> 0, penalty |-> 0] \in DeviceRecords
    BY <2>3, <2>4 DEF DeviceRecords
  <2> QED BY <2>1, <2>2, <2>5, PutTyped DEF FleetOK
<1>3. CASE UNCHANGED <<hierarchy, registry>> /\ torn' \in {torn, {"control"}, {"cash"}, {"veil"}, {"edge"}}
  BY <1>3 DEF FleetOK
<1>4. CASE VStep
  <2>1. CashNext \/ CommandNext => UNCHANGED <<hierarchy, registry, torn>>
    BY CashLeaves DEF CommandNext, LookupDevice, create_command, deliver_next_command,
         acknowledge_command, expire_commands
  <2>2. VeilNext /\ UNCHANGED <<cvars, kvars>> => UNCHANGED <<hierarchy, registry, torn>>
    BY DEF cvars
  <2>3. VeilTorn \/ CashTorn \/ ControlTorn =>
          UNCHANGED <<hierarchy, registry>> /\ torn' \in {{"control"}, {"cash"}, {"veil"}}
    BY DEF VeilTorn, CashTorn, ControlTorn
  <2> QED BY <1>1, <1>3, <1>4, <2>1, <2>2, <2>3 DEF VStep, KStep
<1>5. CASE EdgeNext
  BY <1>2, <1>3, <1>5 DEF EdgeNext, AskPolicy, emit_trust_evidence, SaveJob, RunDriver, cvars
<1>6. EdgeTorn => UNCHANGED <<hierarchy, registry>> /\ torn' = {"edge"}
  BY DEF EdgeTorn
<1>7. EdgeRestart \/ UNCHANGED allvars => UNCHANGED <<hierarchy, registry, torn>>
  BY DEF EdgeRestart, VeilRestart, CashRestart, ControlRestart, allvars, cvars
<1> QED BY <1>3, <1>4, <1>5, <1>6, <1>7 DEF ENext, EStep

(* The records of the platform and of the registry keep their types.       *)
LEMMA RecordsInvariant == ESpec => [](EdgeOK /\ CountsOK /\ FleetOK)
<1>1. CInit /\ EInit => EdgeOK /\ CountsOK /\ FleetOK
  <2> SUFFICES ASSUME CInit, EInit PROVE EdgeOK /\ CountsOK /\ FleetOK
    OBVIOUS
  <2>1. EdgeOK
    <3>1. <<>> \in Seq(Results)
      BY SMT
    <3>2. DOMAIN edge = {}
      BY DEF EInit
    <3> QED BY <3>1, <3>2 DEF EInit, EdgeOK
  <2>2. CountsOK
    <3>1. [total |-> 0, failed |-> 0] \in Counts
      BY SMT DEF Counts
    <3>2. PICK z : z = [total |-> 0, failed |-> 0]
      OBVIOUS
    <3>3. counted \in [Devices -> Counts] /\ \A d \in Devices : counted[d] = z
      BY <3>1, <3>2 DEF EInit
    <3>4. z.failed = 0 /\ z.total = 0 /\ 0 <= 0
      BY <3>2, SMT
    <3> QED BY <3>3, <3>4 DEF CountsOK
  <2>3. FleetOK
    BY DEF CInit, FleetOK
  <2> QED BY <2>1, <2>2, <2>3
<1>2. (EdgeOK /\ CountsOK /\ FleetOK) /\ [ENext]_allvars
      => (EdgeOK /\ CountsOK /\ FleetOK)'
  BY EdgeTypeStep, CountStep, FleetTypeStep
<1> QED BY <1>1, <1>2, PTL DEF ESpec, allvars
=============================================================================
