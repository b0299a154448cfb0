-------------------------- MODULE FleetOperations --------------------------
(***************************************************************************)
(* The fleet registry (cloud/fleet_operations/service.cpp): life cycle,    *)
(* heartbeats, remote commands, risk, quarantine and recovery.             *)
(*                                                                         *)
(* Every operation runs under mu_ and saves before it returns, so it is    *)
(* one action.  The time of an operation is an input: request_time() takes *)
(* it from the body when the body has one.  A refusal that changes nothing *)
(* but a reply or an event is no action.  VEIL's decisions and the edge    *)
(* platform's registration are choices.  Names, locations, groups and the  *)
(* stored risk levels are left out; no decision depends on them.           *)
(***************************************************************************)
EXTENDS Naturals, FiniteSets

CONSTANTS
  Devices, Commands,
  Reports,      \* what heartbeats may say
  MaxTime,      \* bound: times of operations and of heartbeats
  Timeout,      \* heartbeat_timeout_seconds_
  Skew,         \* 30: how far ahead the clock of a device may be
  CommandLife   \* 60: life of a command that names no later time

Flags == {"drift", "cash", "evidence", "driver"}
AllReports == [online : BOOLEAN, firmware : BOOLEAN, driver : BOOLEAN,
               contradiction : BOOLEAN, selfTest : BOOLEAN, flags : SUBSET Flags]

ASSUME FleetAssumption ==
  /\ Reports \subseteq AllReports /\ Reports # {}
  /\ MaxTime \in Nat /\ Timeout \in Nat /\ Skew \in Nat /\ CommandLife \in Nat
  /\ IsFiniteSet(Commands) /\ Devices # {}

VARIABLES
  life,       \* lifecycle_state, "none" before the enrollment
  retired,    \* FleetDevice::retired
  online,     \* connectivity_status is "online"
  last,       \* last_heartbeat_epoch, 0 for none
  reasoned,   \* quarantine_reason is set
  hbTime,     \* heartbeats_: the timestamp, 0 for none
  hb,         \* heartbeats_: what it says
  cmd,        \* commands_
  violations, \* policy_violations_
  evidence    \* lifecycle_state in the latest VEIL evidence of the device

dvars == <<retired, online, last, hbTime, hb>>
fvars == <<life, retired, online, last, reasoned, hbTime, hb, cmd, violations, evidence>>

Lives == {"provisioned", "active", "maintenance", "quarantined", "retired"}
Waiting == {"policy_checking", "dispatched"}
Ended == {"completed", "failed", "expired", "cancelled"}
CommandStates == {"none", "acknowledged"} \cup Waiting \cup Ended
Times == 1..MaxTime

FTypeOK ==
  /\ life \in [Devices -> Lives \cup {"none"}]
  /\ retired \in [Devices -> BOOLEAN]
  /\ online \in [Devices -> BOOLEAN]
  /\ last \in [Devices -> 0..MaxTime]
  /\ reasoned \in [Devices -> BOOLEAN]
  /\ hbTime \in [Devices -> 0..MaxTime]
  /\ hb \in [Devices -> Reports]
  /\ cmd \in [Commands -> [st : CommandStates, dev : Devices, exp : Nat]]
  /\ violations \in [Devices -> Nat]
  /\ evidence \in [Devices -> Lives \cup {"none"}]

FInit ==
  /\ life = [d \in Devices |-> "none"]
  /\ retired = [d \in Devices |-> FALSE]
  /\ online = [d \in Devices |-> FALSE]
  /\ last = [d \in Devices |-> 0]
  /\ reasoned = [d \in Devices |-> FALSE]
  /\ hbTime = [d \in Devices |-> 0]
  /\ hb = [d \in Devices |-> CHOOSE r \in Reports : TRUE]
  /\ cmd = [c \in Commands |-> [st |-> "none", dev |-> CHOOSE d \in Devices : TRUE, exp |-> 0]]
  /\ violations = [d \in Devices |-> 0]
  /\ evidence = [d \in Devices |-> "none"]
-----------------------------------------------------------------------------
(***************************************************************************)
(* Life cycle.                                                             *)
(***************************************************************************)
ValidTransition(from, to, recovery) ==
  \/ from = to
  \/ /\ from # "retired"
     /\ \/ to \in {"retired", "quarantined"}
        \/ from \in {"provisioned", "maintenance"} /\ to = "active"
        \/ from = "active" /\ to = "maintenance"
        \/ from = "quarantined" /\ recovery /\ to = "active"

SetLife(d, l) == life' = [life EXCEPT ![d] = l]

\* emit_evidence_locked: a record that carries the life-cycle state.
Emit(d, l) == evidence' = [evidence EXCEPT ![d] = l]

Enroll(d, l) ==
  /\ life[d] = "none"
  /\ l \in {"provisioned", "active"}
  /\ SetLife(d, l)
  /\ online' = [online EXCEPT ![d] = FALSE]
  /\ Emit(d, l)
  /\ UNCHANGED <<retired, last, reasoned, hbTime, hb, cmd, violations>>

\* Bug: a patch may also recover.
UpdateDeviceRecovering(d, l) ==
  /\ life[d] # "none" /\ ~retired[d]
  /\ ValidTransition(life[d], l, TRUE)
  /\ SetLife(d, l)
  /\ UNCHANGED <<dvars, reasoned, cmd, violations, evidence>>

\* PATCH: no evidence, no reason, and the flag `retired` stays as it is.
UpdateDevice(d, l) ==
  /\ life[d] # "none" /\ ~retired[d]
  /\ ValidTransition(life[d], l, FALSE)
  /\ SetLife(d, l)
  /\ UNCHANGED <<dvars, reasoned, cmd, violations, evidence>>

RetireDevice(d) ==
  /\ life[d] # "none" /\ ~retired[d]
  /\ SetLife(d, "retired")
  /\ retired' = [retired EXCEPT ![d] = TRUE]
  /\ online' = [online EXCEPT ![d] = FALSE]
  /\ Emit(d, "retired")
  /\ UNCHANGED <<last, reasoned, hbTime, hb, cmd, violations>>

\* Bug: no evidence of the quarantine.
QuarantineLockedSilent(d) ==
  IF retired[d] THEN UNCHANGED <<life, reasoned, evidence>>
  ELSE /\ SetLife(d, "quarantined")
       /\ reasoned' = [reasoned EXCEPT ![d] = TRUE]
       /\ UNCHANGED evidence

QuarantineLocked(d) ==
  IF retired[d] THEN UNCHANGED <<life, reasoned, evidence>>
  ELSE /\ SetLife(d, "quarantined")
       /\ reasoned' = [reasoned EXCEPT ![d] = TRUE]
       /\ Emit(d, "quarantined")

Quarantine(d) ==
  /\ life[d] # "none" /\ ~retired[d]
  /\ QuarantineLocked(d)
  /\ UNCHANGED <<dvars, cmd, violations>>

-----------------------------------------------------------------------------
(***************************************************************************)
(* Heartbeats.                                                             *)
(***************************************************************************)
Store(d, r, ts) ==
  /\ hb' = [hb EXCEPT ![d] = r]
  /\ hbTime' = [hbTime EXCEPT ![d] = ts]
  /\ last' = [last EXCEPT ![d] = ts]
  /\ online' = [online EXCEPT ![d] = r.online]

Timely(ts, at) == ts > 0 /\ at <= ts + Timeout /\ ts <= at + Skew

\* `own`: the heartbeat names the tenant of the device.
Listening(d, own) == own /\ ~retired[d]

ReceiveHeartbeat(d, own, r, ts, at) ==
  /\ life[d] # "none"
  /\ \/ /\ ~own \/ (Listening(d, own) /\ ~Timely(ts, at))
        /\ QuarantineLocked(d)
        /\ UNCHANGED dvars
     \/ /\ Listening(d, own) /\ Timely(ts, at) /\ life[d] = "quarantined"
        /\ Store(d, r, ts)
        /\ UNCHANGED <<life, retired, reasoned, evidence>>
     \/ /\ Listening(d, own) /\ Timely(ts, at) /\ life[d] # "quarantined"
        /\ ~r.firmware \/ ~r.driver \/ r.contradiction
        /\ QuarantineLocked(d)
        /\ UNCHANGED dvars
     \/ /\ Listening(d, own) /\ Timely(ts, at) /\ life[d] # "quarantined"
        /\ r.firmware /\ r.driver /\ ~r.contradiction
        /\ Store(d, r, ts)
        /\ Emit(d, life[d])
        /\ UNCHANGED <<life, retired, reasoned>>
  /\ UNCHANGED <<cmd, violations>>

Fresh(d, at) == last[d] > 0 /\ at >= last[d] /\ at <= last[d] + Timeout

-----------------------------------------------------------------------------
(***************************************************************************)
(* Commands.                                                               *)
(***************************************************************************)
Put(c, s) == cmd' = [cmd EXCEPT ![c].st = s]
CommandsOf(d, states) == {c \in Commands : cmd[c].dev = d /\ cmd[c].st \in states}

\* A new command id; a known one is answered and changes nothing.  `apt`: the device is of
\* the tenant and has the capability; `approved`: the command is not high-risk, or its approval is named.
CreateCommand(c, d, apt, at, until, approved) ==
  LET new(s) == cmd' = [cmd EXCEPT ![c] =
                  [st |-> s, dev |-> d, exp |-> IF until <= at THEN at + CommandLife ELSE until]]
      fit == /\ apt /\ life[d] # "none" /\ ~retired[d] /\ life[d] # "quarantined"
             /\ Fresh(d, at) /\ online[d]
  IN  /\ cmd[c].st = "none"
      /\ \/ /\ ~fit
            /\ new("failed")
            /\ UNCHANGED <<life, reasoned, violations, evidence>>
         \/ /\ fit   \* VEIL denies
            /\ new("failed")
            /\ violations' = [violations EXCEPT ![d] = @ + 1]
            /\ QuarantineLocked(d)
         \/ /\ fit /\ ~approved
            /\ new("policy_checking")
            /\ UNCHANGED <<life, reasoned, violations, evidence>>
         \/ /\ fit /\ approved
            /\ new("dispatched")
            /\ Emit(d, life[d])
            /\ UNCHANGED <<life, reasoned, violations>>
      /\ UNCHANGED dvars

CancelCommand(c) ==
  /\ cmd[c].st \in Waiting
  /\ Put(c, "cancelled")
  /\ UNCHANGED <<life, dvars, reasoned, violations, evidence>>

AcknowledgeCommand(c, at) ==
  /\ cmd[c].st = "dispatched"
  /\ Put(c, IF at > cmd[c].exp THEN "expired" ELSE "acknowledged")
  /\ UNCHANGED <<life, dvars, reasoned, violations, evidence>>

CompleteCommand(c, success, suspicious) ==
  LET d == cmd[c].dev
      strikes == Cardinality(CommandsOf(d, {"failed"}) \cup {c})
  IN  /\ cmd[c].st = "acknowledged"
      /\ Put(c, IF success THEN "completed" ELSE "failed")
      /\ IF ~success /\ (suspicious \/ strikes >= 3) /\ ~retired[d]
         THEN QuarantineLocked(d)
         ELSE Emit(d, life[d]) /\ UNCHANGED <<life, reasoned>>
      /\ UNCHANGED <<dvars, violations>>

ExpireCommands(at) ==
  /\ cmd' = [c \in Commands |-> IF cmd[c].st \in Waiting /\ at > cmd[c].exp
                                THEN [cmd[c] EXCEPT !.st = "expired"] ELSE cmd[c]]
  /\ UNCHANGED <<life, dvars, reasoned, violations, evidence>>

-----------------------------------------------------------------------------
(***************************************************************************)
(* Risk and recovery.                                                      *)
(***************************************************************************)
If(b, points) == IF b THEN points ELSE 0

\* Factors that the latest heartbeat reports.
ReportedRisk(d) ==
  IF hbTime[d] = 0 THEN 0
  ELSE If("drift" \in hb[d].flags, 20) + If("cash" \in hb[d].flags, 25)
       + If("evidence" \in hb[d].flags, 20) + If("driver" \in hb[d].flags, 20)

\* Factors that the history of the device leaves behind.
PastRisk(d) ==
  LET total == Cardinality(CommandsOf(d, CommandStates \ {"none"}))
      failures == Cardinality(CommandsOf(d, {"failed", "expired"}))
  IN  If(failures >= 3, 25) + If(total > 0 /\ failures * 2 >= total, 15)
      + (IF violations[d] >= 3 THEN 30 ELSE violations[d] * 10)

DeviceRisk(d, at) ==
  LET score == If(~Fresh(d, at), 30) + PastRisk(d) + ReportedRisk(d)
               + If(life[d] = "quarantined", 20)
  IN  IF score > 100 THEN 100 ELSE score

\* Bug: the points of the quarantine count as unresolved.
UnresolvedAll(d, at) == DeviceRisk(d, at)

Unresolved(d, at) == DeviceRisk(d, at) - 20

Healthy(d) ==
  /\ hbTime[d] > 0 /\ hb[d].selfTest /\ hb[d].online
  /\ hb[d].firmware /\ hb[d].driver /\ ~hb[d].contradiction

\* VEIL allows device_recovery.
Recover(d, at) ==
  /\ life[d] = "quarantined" /\ ~retired[d]
  /\ Fresh(d, at)
  /\ Healthy(d)
  /\ Unresolved(d, at) < 75
  /\ SetLife(d, "active")
  /\ reasoned' = [reasoned EXCEPT ![d] = FALSE]
  /\ Emit(d, "active")
  /\ UNCHANGED <<dvars, cmd, violations>>

FNext ==
  \/ \E d \in Devices, l \in Lives : Enroll(d, l) \/ UpdateDevice(d, l)
  \/ \E d \in Devices : RetireDevice(d) \/ Quarantine(d)
  \/ \E d \in Devices, own \in BOOLEAN, r \in Reports, ts \in 0..MaxTime, at \in Times :
       ReceiveHeartbeat(d, own, r, ts, at)
  \/ \E c \in Commands, d \in Devices, apt, approved \in BOOLEAN, at, until \in Times :
       CreateCommand(c, d, apt, at, until, approved)
  \/ \E c \in Commands : CancelCommand(c)
  \/ \E c \in Commands, at \in Times : AcknowledgeCommand(c, at)
  \/ \E c \in Commands, success, suspicious \in BOOLEAN : CompleteCommand(c, success, suspicious)
  \/ \E at \in Times : ExpireCommands(at)
  \/ \E d \in Devices, at \in Times : Recover(d, at)

FSpec == FInit /\ [][FNext]_fvars

-----------------------------------------------------------------------------
(***************************************************************************)
(* The two copies of a heartbeat agree: recover() takes the age from the   *)
(* device and the content from heartbeats_, and both are of one heartbeat; *)
(* a device shown online has said so in it.                                *)
(***************************************************************************)
HeartbeatAgrees ==
  \A d \in Devices : /\ last[d] = hbTime[d]
                     /\ online[d] => hbTime[d] > 0 /\ hb[d].online

(***************************************************************************)
(* VEIL knows: a quarantine with a reason, and a retirement by             *)
(* retire_device, are what the latest evidence of the device says, however *)
(* many heartbeats and late command results came after.                    *)
(***************************************************************************)
ExplainedByEvidence ==
  \A d \in Devices : /\ life[d] = "quarantined" /\ reasoned[d] => evidence[d] = "quarantined"
                     /\ retired[d] => evidence[d] = "retired"

(***************************************************************************)
(* A device is never locked out by its past: once its latest heartbeat is  *)
(* healthy and reports no risk, recover() finds no critical risk at the    *)
(* time of that heartbeat, whatever commands failed before.                *)
(***************************************************************************)
HealthyIsRecoverable ==
  \A d \in Devices : life[d] = "quarantined" /\ Healthy(d) /\ hb[d].flags = {} =>
    Unresolved(d, hbTime[d]) < 75

(***************************************************************************)
(* A device leaves the quarantine for service only when the heartbeat on   *)
(* record is healthy; no patch, heartbeat or command result lets it out.   *)
(***************************************************************************)
QuarantineHolds ==
  [][\A d \in Devices : life[d] = "quarantined" /\ life'[d] \notin {"quarantined", "retired"} =>
       Healthy(d) /\ ~retired[d]]_fvars

(***************************************************************************)
(* retire_device is final: the device stays retired and offline, also when *)
(* heartbeats and results of commands sent before arrive late.             *)
(***************************************************************************)
RetiredIsFinal ==
  [][\A d \in Devices : retired[d] => retired'[d] /\ life'[d] = "retired" /\ ~online'[d]]_fvars

(***************************************************************************)
(* A command that has ended stays as it ended: a late acknowledgement, a   *)
(* cancellation or a pass of expire_commands does not revive it.           *)
(***************************************************************************)
EndedStaysEnded == [][\A c \in Commands : cmd[c].st \in Ended => cmd'[c] = cmd[c]]_fvars

-----------------------------------------------------------------------------
(***************************************************************************)
(* "Retirement is irreversible." (docs/fleet_operations.md:27-28)          *)
(***************************************************************************)
RetirementIsIrreversible ==
  [][\A d \in Devices : life[d] = "retired" => life'[d] = "retired"]_fvars
=============================================================================
