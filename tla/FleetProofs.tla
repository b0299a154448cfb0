---------------------------- MODULE FleetProofs ----------------------------
(***************************************************************************)
(* Proofs about the operation of a fleet: the life of its devices, for any *)
(* set of devices, commands, reports and any times, the device twin, what  *)
(* is computed from it, for any threads, revisions, queue bound, wear and  *)
(* stock, and the queue of a device's telemetry, for any messages.         *)
(***************************************************************************)
EXTENDS FleetOperations, TwinSync, TwinAnalytics, Telemetry, FiniteSetTheorems, TLAPS

(***************************************************************************)
(* Fleet operations.  Two facts make the invariants inductive: the flag    *)
(* `retired` implies the state, and a reason is only found on a device     *)
(* that is quarantined or that a patch retired out of the quarantine.      *)
(***************************************************************************)
\* What the flag of retire_device implies.
FlagInv == \A d \in Devices : retired[d] => life[d] = "retired" /\ ~online[d]

\* Where quarantine_locked leaves its reason.
ReasonInv == \A d \in Devices : reasoned[d] => life[d] \in {"quarantined", "retired"}

FInv == FTypeOK /\ HeartbeatAgrees /\ ExplainedByEvidence /\ FlagInv /\ ReasonInv

(***************************************************************************)
(* The constructor without a store establishes the invariant.              *)
(***************************************************************************)
LEMMA InitInv == ASSUME FInit PROVE FInv
<1>1. (CHOOSE r \in Reports : TRUE) \in Reports
  BY FleetAssumption, Zenon
<1>2. (CHOOSE d \in Devices : TRUE) \in Devices
  BY FleetAssumption, Zenon
<1>3. FTypeOK
  BY <1>1, <1>2, FleetAssumption DEF FInit, FTypeOK, Lives, CommandStates, Waiting, Ended
<1>4. HeartbeatAgrees /\ ExplainedByEvidence /\ FlagInv /\ ReasonInv
  BY Zenon DEF FInit, HeartbeatAgrees, ExplainedByEvidence, FlagInv, ReasonInv
<1> QED BY <1>3, <1>4, Zenon DEF FInv

(***************************************************************************)
(* quarantine_locked, called by five operations, keeps what it changes     *)
(* consistent and never touches a retired device.                          *)
(***************************************************************************)
LEMMA QuarantineKeeps ==
  ASSUME FInv, NEW d \in Devices, QuarantineLocked(d), UNCHANGED dvars
  PROVE  /\ life' \in [Devices -> Lives \cup {"none"}]
         /\ reasoned' \in [Devices -> BOOLEAN]
         /\ evidence' \in [Devices -> Lives \cup {"none"}]
         /\ HeartbeatAgrees' /\ ExplainedByEvidence' /\ FlagInv' /\ ReasonInv'
<1>1. CASE retired[d]
  BY <1>1 DEF FInv, FTypeOK, QuarantineLocked, dvars, HeartbeatAgrees, ExplainedByEvidence,
              FlagInv, ReasonInv
<1>2. CASE ~retired[d]
  <2>1. /\ life' = [life EXCEPT ![d] = "quarantined"]
        /\ reasoned' = [reasoned EXCEPT ![d] = TRUE]
        /\ evidence' = [evidence EXCEPT ![d] = "quarantined"]
    BY <1>2, Zenon DEF QuarantineLocked, SetLife, Emit
  <2> QED BY <1>2, <2>1 DEF FInv, FTypeOK, Lives, dvars, HeartbeatAgrees, ExplainedByEvidence,
                            FlagInv, ReasonInv
<1> QED BY <1>1, <1>2, Zenon

(***************************************************************************)
(* cmd stays well-typed when one command changes its state.                *)
(***************************************************************************)
LEMMA PutType ==
  ASSUME FTypeOK, NEW c \in Commands, NEW s \in CommandStates, Put(c, s)
  PROVE  cmd' \in [Commands -> [st : CommandStates, dev : Devices, exp : Nat]]
BY DEF FTypeOK, Put

(***************************************************************************)
(* A heartbeat that is stored is stored in both places, and only for a     *)
(* device that is not retired.                                             *)
(***************************************************************************)
LEMMA StoreKeeps ==
  ASSUME FInv, NEW d \in Devices, NEW r \in Reports, NEW ts \in 0..MaxTime, ts > 0,
         ~retired[d], Store(d, r, ts), UNCHANGED <<life, retired, reasoned>>
  PROVE  /\ online' \in [Devices -> BOOLEAN] /\ last' \in [Devices -> 0..MaxTime]
         /\ hbTime' \in [Devices -> 0..MaxTime] /\ hb' \in [Devices -> Reports]
         /\ HeartbeatAgrees' /\ FlagInv' /\ ReasonInv'
<1>1. r.online \in BOOLEAN
  BY FleetAssumption, Zenon DEF AllReports
<1>2. /\ online' \in [Devices -> BOOLEAN] /\ last' \in [Devices -> 0..MaxTime]
      /\ hbTime' \in [Devices -> 0..MaxTime] /\ hb' \in [Devices -> Reports]
  BY <1>1, Zenon DEF FInv, FTypeOK, Store
<1>3. HeartbeatAgrees'
  <2> SUFFICES ASSUME NEW e \in Devices
               PROVE  /\ last'[e] = hbTime'[e]
                      /\ online'[e] => hbTime'[e] > 0 /\ hb'[e].online
    BY Zenon DEF HeartbeatAgrees
  <2>1. CASE e = d
    BY <2>1, Zenon DEF FInv, FTypeOK, Store
  <2>2. CASE e # d
    BY <2>2, Zenon DEF FInv, FTypeOK, Store, HeartbeatAgrees
  <2> QED BY <2>1, <2>2, Zenon
<1>4. FlagInv' /\ ReasonInv'
  BY Zenon DEF FInv, FTypeOK, Store, FlagInv, ReasonInv
<1> QED BY <1>2, <1>3, <1>4, Zenon

(***************************************************************************)
(* Evidence that carries the state the device is in never contradicts it.  *)
(***************************************************************************)
LEMMA EmitKeeps ==
  ASSUME FInv, NEW d \in Devices, Emit(d, life[d]), UNCHANGED <<life, retired, reasoned>>
  PROVE  evidence' \in [Devices -> Lives \cup {"none"}] /\ ExplainedByEvidence'
BY Zenon DEF FInv, FTypeOK, Emit, ExplainedByEvidence, FlagInv

(***************************************************************************)
(* Every operation of the service preserves the invariant.                 *)
(***************************************************************************)
LEMMA StepInv == ASSUME FInv, [FNext]_fvars PROVE FInv'
<1> USE FleetAssumption
<1>1. ASSUME NEW d \in Devices, NEW l \in Lives, Enroll(d, l) PROVE FInv'
  <2>1. ~retired[d]
    BY <1>1, Zenon DEF Enroll, FInv, FlagInv
  <2>2. FTypeOK'
    BY <1>1, <2>1, Zenon DEF Enroll, SetLife, Emit, FInv, FTypeOK, Lives
  <2>3. HeartbeatAgrees' /\ ExplainedByEvidence' /\ FlagInv'
    BY <1>1, <2>1, Zenon DEF Enroll, SetLife, Emit, FInv, FTypeOK, HeartbeatAgrees,
                      ExplainedByEvidence, FlagInv
  <2>4. ReasonInv'
    BY <1>1, Zenon DEF Enroll, SetLife, FInv, FTypeOK, ReasonInv
  <2> QED BY <2>2, <2>3, <2>4, Zenon DEF FInv
<1>2. ASSUME NEW d \in Devices, NEW l \in Lives, UpdateDevice(d, l) PROVE FInv'
  <2>1. FTypeOK'
    BY <1>2, Zenon DEF UpdateDevice, SetLife, FInv, FTypeOK, Lives, dvars
  <2>2. HeartbeatAgrees' /\ FlagInv'
    BY <1>2, Zenon DEF UpdateDevice, SetLife, dvars, FInv, FTypeOK, HeartbeatAgrees, FlagInv
  <2>3. ReasonInv' /\ ExplainedByEvidence'
    BY <1>2, Zenon DEF UpdateDevice, ValidTransition, SetLife, dvars, FInv, FTypeOK, ReasonInv,
                ExplainedByEvidence
  <2> QED BY <2>1, <2>2, <2>3, Zenon DEF FInv
<1>3. ASSUME NEW d \in Devices, RetireDevice(d) PROVE FInv'
  <2>1. FTypeOK'
    BY <1>3, Zenon DEF RetireDevice, SetLife, Emit, FInv, FTypeOK, Lives
  <2>2. HeartbeatAgrees' /\ ExplainedByEvidence' /\ FlagInv' /\ ReasonInv'
    BY <1>3 DEF RetireDevice, SetLife, Emit, FInv, FTypeOK, HeartbeatAgrees,
                ExplainedByEvidence, FlagInv, ReasonInv
  <2> QED BY <2>1, <2>2, Zenon DEF FInv
<1>4. ASSUME NEW d \in Devices, Quarantine(d) PROVE FInv'
  <2>1. QuarantineLocked(d) /\ UNCHANGED <<dvars, cmd, violations>>
    BY <1>4, Zenon DEF Quarantine
  <2> QED BY <2>1, QuarantineKeeps, Zenon DEF FInv, FTypeOK, dvars
<1>5. ASSUME NEW d \in Devices, NEW own \in BOOLEAN, NEW r \in Reports,
             NEW ts \in 0..MaxTime, NEW at \in Times, ReceiveHeartbeat(d, own, r, ts, at)
      PROVE  FInv'
  <2>1. CASE QuarantineLocked(d) /\ UNCHANGED dvars
    BY <1>5, <2>1, QuarantineKeeps, Zenon DEF ReceiveHeartbeat, FInv, FTypeOK, dvars
  <2>2. CASE /\ Listening(d, own) /\ Timely(ts, at) /\ Store(d, r, ts)
             /\ UNCHANGED <<life, retired, reasoned>>
             /\ evidence' = evidence \/ Emit(d, life[d])
    <3>1. ts > 0 /\ ~retired[d]
      BY <2>2, Zenon DEF Listening, Timely
    <3>2. evidence' \in [Devices -> Lives \cup {"none"}] /\ ExplainedByEvidence'
      BY <2>2, EmitKeeps, Zenon DEF FInv, FTypeOK, ExplainedByEvidence
    <3> QED BY <1>5, <2>2, <3>1, <3>2, StoreKeeps, Zenon DEF ReceiveHeartbeat, FInv, FTypeOK
  <2> QED BY <1>5, <2>1, <2>2, Zenon DEF ReceiveHeartbeat
<1>6. ASSUME NEW c \in Commands, NEW d \in Devices, NEW apt \in BOOLEAN,
             NEW approved \in BOOLEAN, NEW at \in Times,
             NEW until \in Times, CreateCommand(c, d, apt, at, until, approved)
      PROVE  FInv'
  <2>1. cmd' \in [Commands -> [st : CommandStates, dev : Devices, exp : Nat]]
    BY <1>6 DEF CreateCommand, FInv, FTypeOK, CommandStates, Waiting, Ended, Times
  <2>2. violations' \in [Devices -> Nat] /\ UNCHANGED dvars
    <3>1. UNCHANGED dvars
      BY <1>6, Zenon DEF CreateCommand
    <3>2. violations' = violations \/ violations' = [violations EXCEPT ![d] = @ + 1]
      BY <1>6, Zenon DEF CreateCommand
    <3>3. violations' \in [Devices -> Nat]
      BY <3>2 DEF FInv, FTypeOK
    <3> QED BY <3>1, <3>3, Zenon
  <2>3. \/ UNCHANGED <<life, reasoned, evidence>>
        \/ QuarantineLocked(d)
        \/ Emit(d, life[d]) /\ UNCHANGED <<life, reasoned>>
    BY <1>6, Zenon DEF CreateCommand
  <2>4. CASE UNCHANGED <<life, reasoned, evidence>>
    BY <2>1, <2>2, <2>4, Zenon DEF FInv, FTypeOK, dvars, HeartbeatAgrees, ExplainedByEvidence,
                            FlagInv, ReasonInv
  <2>5. CASE QuarantineLocked(d)
    BY <2>1, <2>2, <2>5, QuarantineKeeps, Zenon DEF FInv, FTypeOK, dvars
  <2>6. CASE Emit(d, life[d]) /\ UNCHANGED <<life, reasoned>>
    BY <2>1, <2>2, <2>6, EmitKeeps, Zenon DEF FInv, FTypeOK, dvars, HeartbeatAgrees, FlagInv, ReasonInv
  <2> QED BY <2>3, <2>4, <2>5, <2>6, Zenon
<1>7. ASSUME cmd' \in [Commands -> [st : CommandStates, dev : Devices, exp : Nat]],
             UNCHANGED <<life, dvars, reasoned, violations, evidence>>
      PROVE  FInv'
  BY <1>7, Zenon DEF FInv, FTypeOK, dvars, HeartbeatAgrees, ExplainedByEvidence, FlagInv, ReasonInv
<1>8. ASSUME NEW c \in Commands, CancelCommand(c) PROVE FInv'
  BY <1>7, <1>8, PutType, Zenon DEF CancelCommand, FInv, CommandStates, Ended
<1>9. ASSUME NEW c \in Commands, NEW at \in Times, AcknowledgeCommand(c, at) PROVE FInv'
  BY <1>7, <1>9, PutType, Zenon DEF AcknowledgeCommand, FInv, CommandStates, Ended
<1>10. ASSUME NEW c \in Commands, NEW success \in BOOLEAN, NEW suspicious \in BOOLEAN,
              CompleteCommand(c, success, suspicious)
       PROVE  FInv'
  <2> DEFINE d == cmd[c].dev
  <2>1. d \in Devices
    BY Zenon DEF FInv, FTypeOK
  <2>2. cmd' \in [Commands -> [st : CommandStates, dev : Devices, exp : Nat]]
    BY <1>10, PutType, Zenon DEF CompleteCommand, FInv, CommandStates, Ended
  <2>3. UNCHANGED <<dvars, violations>>
    BY <1>10, Zenon DEF CompleteCommand
  <2>4. QuarantineLocked(d) \/ (Emit(d, life[d]) /\ UNCHANGED <<life, reasoned>>)
    BY <1>10, Zenon DEF CompleteCommand
  <2>5. CASE QuarantineLocked(d)
    BY <2>1, <2>2, <2>3, <2>5, QuarantineKeeps, Zenon DEF FInv, FTypeOK, dvars
  <2>6. CASE Emit(d, life[d]) /\ UNCHANGED <<life, reasoned>>
    BY <2>1, <2>2, <2>3, <2>6, EmitKeeps, Zenon DEF FInv, FTypeOK, dvars, HeartbeatAgrees, FlagInv,
                                             ReasonInv
  <2> QED BY <2>4, <2>5, <2>6, Zenon
<1>11. ASSUME NEW at \in Times, ExpireCommands(at) PROVE FInv'
  <2>1. cmd' \in [Commands -> [st : CommandStates, dev : Devices, exp : Nat]]
    BY <1>11 DEF ExpireCommands, FInv, FTypeOK, CommandStates, Ended
  <2> QED BY <1>7, <1>11, <2>1, Zenon DEF ExpireCommands
<1>12. ASSUME NEW d \in Devices, NEW at \in Times, Recover(d, at) PROVE FInv'
  <2>1. FTypeOK'
    BY <1>12, Zenon DEF Recover, SetLife, Emit, FInv, FTypeOK, Lives, dvars
  <2>2. HeartbeatAgrees' /\ ExplainedByEvidence' /\ FlagInv' /\ ReasonInv'
    BY <1>12, Zenon DEF Recover, SetLife, Emit, dvars, FInv, FTypeOK, HeartbeatAgrees,
                 ExplainedByEvidence, FlagInv, ReasonInv
  <2> QED BY <2>1, <2>2, Zenon DEF FInv
<1>13. CASE UNCHANGED fvars
  BY <1>13, Zenon DEF fvars, FInv, FTypeOK, HeartbeatAgrees, ExplainedByEvidence, FlagInv, ReasonInv
<1> QED BY <1>1, <1>2, <1>3, <1>4, <1>5, <1>6, <1>8, <1>9, <1>10, <1>11, <1>12, <1>13, Zenon DEF FNext

(***************************************************************************)
(* The strengthened invariant of the registry.                             *)
(***************************************************************************)
THEOREM Invariance == FSpec => []FInv
<1>1. FInit => FInv
  BY InitInv, Zenon
<1>2. FInv /\ [FNext]_fvars => FInv'
  BY StepInv, Zenon
<1> QED BY <1>1, <1>2, PTL DEF FSpec

(***************************************************************************)
(* recover() judges age and content of one and the same heartbeat.         *)
(***************************************************************************)
THEOREM OneHeartbeat == FSpec => []HeartbeatAgrees
<1>1. FInv => HeartbeatAgrees
  BY Zenon DEF FInv
<1> QED BY <1>1, Invariance, PTL

(***************************************************************************)
(* The latest VEIL evidence shows every reasoned quarantine and every      *)
(* retirement by retire_device.                                            *)
(***************************************************************************)
THEOREM EvidenceExplains == FSpec => []ExplainedByEvidence
<1>1. FInv => ExplainedByEvidence
  BY Zenon DEF FInv
<1> QED BY <1>1, Invariance, PTL

(***************************************************************************)
(* retire_device is final: the flag survives every step, and the invariant *)
(* after the step turns it into the state.                                 *)
(***************************************************************************)
THEOREM RetirementByFlag == FSpec => RetiredIsFinal
<1>1. ASSUME FInv, FInv', [FNext]_fvars, NEW d \in Devices, retired[d]
      PROVE  retired'[d] /\ life'[d] = "retired" /\ ~online'[d]
  <2>1. retired'[d]
    <3>1. ASSUME NEW e \in Devices, NEW own \in BOOLEAN, NEW r \in Reports,
                 NEW ts \in 0..MaxTime, NEW at \in Times, ReceiveHeartbeat(e, own, r, ts, at)
          PROVE  retired' = retired
      BY <3>1, Zenon DEF ReceiveHeartbeat, dvars
    <3>2. ASSUME NEW c \in Commands, NEW e \in Devices, NEW apt \in BOOLEAN,
                 NEW approved \in BOOLEAN, NEW at \in Times,
                 NEW until \in Times, CreateCommand(c, e, apt, at, until, approved)
          PROVE  retired' = retired
      BY <3>2, Zenon DEF CreateCommand, dvars
    <3>3. ASSUME NEW c \in Commands, NEW success \in BOOLEAN, NEW suspicious \in BOOLEAN,
                 CompleteCommand(c, success, suspicious)
          PROVE  retired' = retired
      BY <3>3, Zenon DEF CompleteCommand, dvars
    <3>4. ASSUME NEW e \in Devices, RetireDevice(e) PROVE retired'[d]
      BY <1>1, <3>4, Zenon DEF RetireDevice, FInv, FTypeOK
    <3>5. ASSUME NEW e \in Devices,
                 \/ \E l \in Lives : Enroll(e, l) \/ UpdateDevice(e, l)
                 \/ Quarantine(e)
                 \/ \E at \in Times : Recover(e, at)
          PROVE  retired' = retired
      BY <3>5, Zenon DEF Enroll, UpdateDevice, Quarantine, Recover, dvars
    <3>6. ASSUME \/ \E c \in Commands : CancelCommand(c)
                 \/ \E c \in Commands, at \in Times : AcknowledgeCommand(c, at)
                 \/ \E at \in Times : ExpireCommands(at)
                 \/ UNCHANGED fvars
          PROVE  retired' = retired
      BY <3>6, Zenon DEF CancelCommand, AcknowledgeCommand, ExpireCommands, dvars, fvars
    <3> QED BY <1>1, <3>1, <3>2, <3>3, <3>4, <3>5, <3>6, Zenon DEF FNext
  <2> QED BY <1>1, <2>1, Zenon DEF FInv, FlagInv
<1>2. FInv /\ FInv' /\ [FNext]_fvars =>
        [\A d \in Devices : retired[d] => retired'[d] /\ life'[d] = "retired" /\ ~online'[d]]_fvars
  BY <1>1, Zenon
<1> QED BY <1>2, Invariance, PTL DEF FSpec, RetiredIsFinal

(***************************************************************************)
(* Which steps write commands_, and to which commands.                     *)
(***************************************************************************)
LEMMA CommandSteps ==
  ASSUME FInv, [FNext]_fvars, NEW c \in Commands, cmd[c].st \in Ended
  PROVE  cmd'[c] = cmd[c]
<1>0. cmd \in [Commands -> [st : CommandStates, dev : Devices, exp : Nat]]
  BY Zenon DEF FInv, FTypeOK
<1>1. ASSUME NEW b \in Commands, NEW e \in Devices, NEW apt \in BOOLEAN,
             NEW approved \in BOOLEAN, NEW at \in Times,
             NEW until \in Times, CreateCommand(b, e, apt, at, until, approved)
      PROVE  cmd'[c] = cmd[c]
  <2>1. b # c
    BY <1>1, Zenon DEF CreateCommand, Ended
  <2> QED BY <1>0, <1>1, <2>1, Zenon DEF CreateCommand
<1>2. ASSUME NEW b \in Commands, NEW s, Put(b, s), cmd[b].st \notin Ended PROVE cmd'[c] = cmd[c]
  BY <1>0, <1>2, Zenon DEF Put
<1>3. ASSUME NEW b \in Commands, CancelCommand(b) PROVE cmd'[c] = cmd[c]
  BY <1>2, <1>3, Zenon DEF CancelCommand, Waiting, Ended
<1>4. ASSUME NEW b \in Commands, NEW at \in Times, AcknowledgeCommand(b, at)
      PROVE  cmd'[c] = cmd[c]
  BY <1>2, <1>4, Zenon DEF AcknowledgeCommand, Ended
<1>5. ASSUME NEW b \in Commands, NEW success \in BOOLEAN, NEW suspicious \in BOOLEAN,
             CompleteCommand(b, success, suspicious)
      PROVE  cmd'[c] = cmd[c]
  BY <1>2, <1>5, Zenon DEF CompleteCommand, Ended
<1>6. ASSUME NEW at \in Times, ExpireCommands(at) PROVE cmd'[c] = cmd[c]
  BY <1>0, <1>6, Zenon DEF ExpireCommands, Waiting, Ended
<1>7. ASSUME NEW e \in Devices,
             \/ \E l \in Lives : Enroll(e, l) \/ UpdateDevice(e, l)
             \/ RetireDevice(e) \/ Quarantine(e)
             \/ \E at \in Times : Recover(e, at)
             \/ \E own \in BOOLEAN, r \in Reports, ts \in 0..MaxTime, at \in Times :
                  ReceiveHeartbeat(e, own, r, ts, at)
      PROVE  cmd'[c] = cmd[c]
  BY <1>7, ZenonT(20) DEF Enroll, UpdateDevice, RetireDevice, Quarantine, Recover, ReceiveHeartbeat
<1>8. CASE UNCHANGED fvars
  BY <1>8, Zenon DEF fvars
<1> QED BY <1>1, <1>3, <1>4, <1>5, <1>6, <1>7, <1>8, Zenon DEF FNext

(***************************************************************************)
(* A command that has ended is never changed again, by whatever answer     *)
(* comes late.                                                             *)
(***************************************************************************)
THEOREM EndIsFinal == FSpec => EndedStaysEnded
<1>1. FInv /\ [FNext]_fvars =>
        [\A c \in Commands : cmd[c].st \in Ended => cmd'[c] = cmd[c]]_fvars
  BY CommandSteps, Zenon
<1> QED BY <1>1, Invariance, PTL DEF FSpec, EndedStaysEnded

(***************************************************************************)
(* No lock-out: with a healthy latest heartbeat that reports no risk, what *)
(* the past can add stays below the critical 75 points.                    *)
(***************************************************************************)
THEOREM NoLockOut == FSpec => []HealthyIsRecoverable
<1>1. ASSUME FInv, NEW d \in Devices, life[d] = "quarantined", Healthy(d), hb[d].flags = {}
      PROVE  Unresolved(d, hbTime[d]) < 75
  <2>1. PastRisk(d) \in 0..70
    <3>1. violations[d] \in Nat
      BY <1>1, Zenon DEF FInv, FTypeOK
    <3> QED BY <3>1 DEF PastRisk, If
  <2>2. ReportedRisk(d) = 0
    BY <1>1 DEF ReportedRisk, If
  <2>3. Fresh(d, hbTime[d])
    BY <1>1, FleetAssumption DEF FInv, FTypeOK, HeartbeatAgrees, Healthy, Fresh
  <2> QED BY <1>1, <2>1, <2>2, <2>3 DEF Unresolved, DeviceRisk, If
<1>2. FInv => HealthyIsRecoverable
  BY <1>1, Zenon DEF HealthyIsRecoverable
<1> QED BY <1>2, Invariance, PTL

(***************************************************************************)
(* Out of the quarantine and back into service only by recover(), which    *)
(* has looked at the heartbeat.                                            *)
(***************************************************************************)
THEOREM OnlyRecoveryReleases == FSpec => QuarantineHolds
<1> DEFINE Out(d) == life[d] = "quarantined" /\ life'[d] \notin {"quarantined", "retired"}
<1>1. ASSUME FInv, [FNext]_fvars, NEW d \in Devices, Out(d) PROVE Healthy(d) /\ ~retired[d]
  <2>0. life \in [Devices -> Lives \cup {"none"}]
    BY <1>1, Zenon DEF FInv, FTypeOK
  <2>1. ASSUME NEW e \in Devices, life' = [life EXCEPT ![e] = "quarantined"] \/ life' = life
        PROVE  FALSE
    BY <1>1, <2>0, <2>1, Zenon
  <2>2. ASSUME NEW e \in Devices, QuarantineLocked(e) PROVE FALSE
    BY <2>1, <2>2, Zenon DEF QuarantineLocked, SetLife
  <2>3. ASSUME NEW e \in Devices, NEW l \in Lives, Enroll(e, l) PROVE FALSE
    BY <1>1, <2>0, <2>3, Zenon DEF Enroll, SetLife
  <2>4. ASSUME NEW e \in Devices, NEW l \in Lives, UpdateDevice(e, l) PROVE FALSE
    BY <1>1, <2>0, <2>4, Zenon DEF UpdateDevice, SetLife, ValidTransition
  <2>5. ASSUME NEW e \in Devices, RetireDevice(e) PROVE FALSE
    BY <1>1, <2>0, <2>5, Zenon DEF RetireDevice, SetLife
  <2>6. ASSUME NEW e \in Devices, Quarantine(e) PROVE FALSE
    BY <2>2, <2>6, Zenon DEF Quarantine
  <2>7. ASSUME NEW e \in Devices, NEW own \in BOOLEAN, NEW r \in Reports,
               NEW ts \in 0..MaxTime, NEW at \in Times, ReceiveHeartbeat(e, own, r, ts, at)
        PROVE  FALSE
    BY <2>1, <2>2, <2>7, Zenon DEF ReceiveHeartbeat
  <2>8. ASSUME NEW c \in Commands, NEW e \in Devices, NEW apt \in BOOLEAN,
               NEW approved \in BOOLEAN, NEW at \in Times,
               NEW until \in Times, CreateCommand(c, e, apt, at, until, approved)
        PROVE  FALSE
    BY <2>1, <2>2, <2>8, Zenon DEF CreateCommand
  <2>9. ASSUME NEW c \in Commands, NEW success \in BOOLEAN, NEW suspicious \in BOOLEAN,
               CompleteCommand(c, success, suspicious)
        PROVE  FALSE
    <3>1. cmd[c].dev \in Devices
      BY <1>1, Zenon DEF FInv, FTypeOK
    <3> QED BY <2>1, <2>2, <2>9, <3>1, Zenon DEF CompleteCommand
  <2>10. ASSUME \/ \E c \in Commands : CancelCommand(c)
                \/ \E c \in Commands, at \in Times : AcknowledgeCommand(c, at)
                \/ \E at \in Times : ExpireCommands(at)
                \/ UNCHANGED fvars
         PROVE  FALSE
    BY <1>1, <2>10, Zenon DEF CancelCommand, AcknowledgeCommand, ExpireCommands, fvars
  <2>11. ASSUME NEW e \in Devices, NEW at \in Times, Recover(e, at)
         PROVE  Healthy(d) /\ ~retired[d]
    <3>1. e = d
      BY <1>1, <2>0, <2>11, Zenon DEF Recover, SetLife
    <3> QED BY <2>11, <3>1, Zenon DEF Recover
  <2> QED BY <1>1, <2>3, <2>4, <2>5, <2>6, <2>7, <2>8, <2>9, <2>10, <2>11, Zenon DEF FNext
<1>2. FInv /\ [FNext]_fvars => [\A d \in Devices : Out(d) => Healthy(d) /\ ~retired[d]]_fvars
  BY <1>1, Zenon
<1> QED BY <1>2, Invariance, PTL DEF FSpec, QuarantineHolds
-----------------------------------------------------------------------------
(***************************************************************************)
(* The device twin.  A sender that waits has one request of its own on the *)
(* wire and the others are late; while the flusher is in a call the front  *)
(* of the queue is the update it replays, unless the queue overflowed.     *)
(***************************************************************************)
Steps == {"idle", "check", "push", "wait", "settle", "store", "pop"}
Syncs == {"synced", "conflict", "disabled", "sync_failed", "local"}
Calls == [pc : Steps, rev : Nat, by : Threads, dis : BOOLEAN, out : Outcomes \cup {""}, theirs : Nat]
Mails == [from : Threads, late : BOOLEAN, by : Threads, rev : Nat]
Items == [rev : Nat, by : Threads]
Item(c) == [rev |-> c.rev, by |-> c.by]

TwinTypes ==
  /\ remote \in [rev : Nat, disabled : BOOLEAN]
  /\ twin \in [rev : Nat, sync : Syncs, disabled : BOOLEAN, conflict : BOOLEAN, theirs : Nat]
  /\ offline \in Seq(Items) /\ call \in [Threads -> Calls] /\ wire \subseteq Mails
  /\ pushedOut \in BOOLEAN

OneRequest ==
  \A m \in wire : ~m.late =>
    /\ call[m.from].pc = "wait" /\ m.by = call[m.from].by
    /\ m.rev = IF m.from = Flusher THEN call[m.from].rev ELSE call[m.from].rev + 1

SubmitterKnows ==
  \A s \in Submitters : call[s].pc \in {"settle", "store"} =>
    /\ call[s].out \in Outcomes
    /\ call[s].out = "ok" => remote.rev >= call[s].rev + 1

FlusherKnows ==
  LET c == call[Flusher]
  IN /\ c.pc \in {"push", "wait", "pop"} =>
          offline # <<>> /\ (pushedOut \/ Head(offline) = Item(c))
     /\ c.pc = "pop" /\ c.out = "ok" => Item(c) \in taken

RemoteIsKnown ==
  /\ \A t \in Threads : call[t].theirs <= remote.rev
  /\ twin.theirs <= remote.rev
  /\ twin.sync = "synced" => remote.rev >= twin.rev

OwedIsKept == \A u \in owed : pushedOut \/ u \in taken \/ \E i \in 1..Len(offline) : offline[i] = u

TwinInv ==
  /\ TwinTypes /\ OneRequest /\ SubmitterKnows /\ FlusherKnows /\ RemoteIsKnown /\ OwedIsKept

(* A step that only moves one thread on keeps everything, provided that    *)
(* what it now claims is so.                                               *)
LEMMA CallMoves ==
  ASSUME TwinInv, UNCHANGED <<remote, offline, taken, owed, pushedOut>>,
         NEW t \in Threads, NEW c \in Calls,
         DOMAIN call' = Threads, call' = [x \in Threads |-> call'[x]], call'[t] = c,
         \A x \in Threads : x # t => call'[x] = call[x],
         wire' \subseteq Mails, OneRequest',
         t \in Submitters /\ c.pc \in {"settle", "store"} =>
           c.out \in Outcomes /\ (c.out = "ok" => remote.rev >= c.rev + 1),
         t = Flusher /\ c.pc \in {"push", "wait", "pop"} =>
           offline # <<>> /\ (pushedOut \/ Head(offline) = Item(c)),
         t = Flusher /\ c.pc = "pop" /\ c.out = "ok" => Item(c) \in taken,
         c.theirs <= remote.rev,
         twin' \in [rev : Nat, sync : Syncs, disabled : BOOLEAN, conflict : BOOLEAN, theirs : Nat],
         twin'.theirs <= remote.rev, twin'.sync = "synced" => remote.rev >= twin'.rev
  PROVE  TwinInv'
<1>1. call' \in [Threads -> Calls]
  BY Zenon DEF TwinInv, TwinTypes
<1>2. TwinTypes'
  BY <1>1, Zenon DEF TwinInv, TwinTypes
<1>3. SubmitterKnows' /\ RemoteIsKnown'
  BY Zenon DEF TwinInv, SubmitterKnows, RemoteIsKnown, Threads
<1>4. FlusherKnows'
  BY Zenon DEF TwinInv, FlusherKnows, Threads
<1>5. OwedIsKept'
  BY Zenon DEF TwinInv, OwedIsKept
<1> QED BY <1>2, <1>3, <1>4, <1>5, Zenon DEF TwinInv

(* A thread that is idle again claims nothing.                             *)
LEMMA IdleCall == Idle0 \in Calls /\ Idle0.pc = "idle" /\ Idle0.theirs = 0
  BY Zenon DEF Idle0, Calls, Steps, Threads

(* submit_update, push_twin and what the manager stores.                   *)
LEMMA SubmitStep ==
  ASSUME TwinInv, NEW s \in Submitters,
         \/ submit_update(s) \/ push_twin(s) \/ StoreTwin(s)
         \/ \E reached \in BOOLEAN : is_device_disabled(s, reached)
  PROVE  TwinInv'
<1> USE TwinAssumption
<1>0. /\ s \in Threads /\ s # Flusher /\ call \in [Threads -> Calls] /\ call[s] \in Calls
      /\ twin \in [rev : Nat, sync : Syncs, disabled : BOOLEAN, conflict : BOOLEAN, theirs : Nat]
      /\ remote.rev \in Nat /\ wire \subseteq Mails /\ pushedOut \in BOOLEAN
      /\ twin.theirs <= remote.rev /\ (twin.sync = "synced" => remote.rev >= twin.rev)
      /\ call[s].theirs <= remote.rev
  BY Zenon DEF TwinInv, TwinTypes, Threads, RemoteIsKnown
<1>1. ASSUME wire' = wire, call[s].pc # "wait", DOMAIN call' = Threads,
             \A x \in Threads : x # s => call'[x] = call[x]
      PROVE  OneRequest'
  BY <1>0, <1>1 DEF TwinInv, OneRequest, Mails
<1>2. CASE submit_update(s)
  <2> DEFINE c == [Idle0 EXCEPT !.pc = "check", !.rev = twin.rev, !.by = s,
                                !.dis = twin.disabled, !.theirs = twin.theirs]
  <2>1. call[s].pc = "idle" /\ call' = [call EXCEPT ![s] = c]
        /\ UNCHANGED <<remote, twin, offline, wire, taken, owed, pushedOut>>
    BY <1>2, Zenon DEF submit_update
  <2>2. c \in Calls /\ c.pc = "check" /\ c.theirs = twin.theirs
    BY <1>0, Zenon DEF Idle0, Calls, Steps
  <2> HIDE DEF c
  <2>3. DOMAIN call' = Threads /\ call' = [x \in Threads |-> call'[x]] /\ call'[s] = c
        /\ \A x \in Threads : x # s => call'[x] = call[x]
    BY <1>0, <2>1, Zenon
  <2>4. OneRequest'
    BY <1>1, <2>1, <2>3, Zenon
  <2>5. /\ c.theirs <= remote.rev /\ wire' \subseteq Mails /\ s \in Threads
        /\ c.pc \notin {"settle", "store"} /\ c.pc \notin {"push", "wait", "pop"}
    BY <1>0, <2>1, <2>2, Zenon
  <2>6. c.pc # "pop"
    BY <2>5, Zenon
  <2>7. /\ twin' \in [rev : Nat, sync : Syncs, disabled : BOOLEAN, conflict : BOOLEAN, theirs : Nat]
        /\ twin'.theirs <= remote.rev /\ (twin'.sync = "synced" => remote.rev >= twin'.rev)
    BY <1>0, <2>1, Zenon
  <2> QED BY <2>1, <2>2, <2>3, <2>4, <2>5, <2>6, <2>7, CallMoves, ZenonT(30)
<1>3. ASSUME NEW reached \in BOOLEAN, is_device_disabled(s, reached)
      PROVE  TwinInv'
  <2>1. PICK c \in Calls : /\ c.pc \in {"idle", "push"} /\ c.theirs <= remote.rev
                           /\ call' = [call EXCEPT ![s] = c]
    <3>1. CASE reached /\ remote.disabled
      BY <1>0, <1>3, <3>1, IdleCall DEF is_device_disabled, EndCall
    <3>2. CASE ~(reached /\ remote.disabled) /\ call[s].dis
      BY <1>0, <1>3, <3>2, IdleCall DEF is_device_disabled, EndCall
    <3>3. CASE ~(reached /\ remote.disabled) /\ ~call[s].dis
      <4>1. call' = [call EXCEPT ![s].pc = "push"]
        BY <1>3, <3>3, Zenon DEF is_device_disabled, Step
      <4>2. [call[s] EXCEPT !.pc = "push"] \in Calls
        BY <1>0, Zenon DEF Calls, Steps
      <4>3. [call[s] EXCEPT !.pc = "push"].pc = "push" /\ [call[s] EXCEPT !.pc = "push"].theirs = call[s].theirs
        BY <1>0, Zenon DEF Calls
      <4> QED BY <1>0, <4>1, <4>2, <4>3, Zenon
    <3> QED BY <3>1, <3>2, <3>3, Zenon
  <2>2. call[s].pc = "check" /\ UNCHANGED <<remote, offline, wire, taken, owed, pushedOut>>
    BY <1>3, Zenon DEF is_device_disabled
  <2>3. /\ twin' \in [rev : Nat, sync : Syncs, disabled : BOOLEAN, conflict : BOOLEAN, theirs : Nat]
        /\ twin'.theirs <= remote.rev /\ (twin'.sync = "synced" => remote.rev >= twin'.rev)
    <3>1. CASE twin' = twin
      BY <1>0, <3>1, Zenon
    <3>2. CASE twin' = [rev |-> call[s].rev, sync |-> "disabled", disabled |-> TRUE,
                        conflict |-> FALSE, theirs |-> call[s].theirs]
      BY <1>0, <3>2, Zenon DEF Calls, Syncs
    <3> QED BY <1>3, <3>1, <3>2, Zenon DEF is_device_disabled
  <2>4. DOMAIN call' = Threads /\ call' = [x \in Threads |-> call'[x]] /\ call'[s] = c
        /\ \A x \in Threads : x # s => call'[x] = call[x]
    BY <1>0, <2>1, Zenon
  <2> QED BY <1>0, <1>1, <2>1, <2>2, <2>3, <2>4, CallMoves, ZenonT(20)
<1>4. CASE StoreTwin(s)
  <2>1. call[s].pc = "store" /\ twin' = Synced(s) /\ call' = [call EXCEPT ![s] = Idle0]
        /\ UNCHANGED <<remote, offline, wire, taken, owed, pushedOut>>
    BY <1>4, Zenon DEF StoreTwin, EndCall
  <2>2. /\ Synced(s) \in [rev : Nat, sync : Syncs, disabled : BOOLEAN, conflict : BOOLEAN, theirs : Nat]
        /\ Synced(s).theirs <= remote.rev
        /\ Synced(s).sync = "synced" => remote.rev >= Synced(s).rev
    <3>1. call[s].out \in Outcomes /\ (call[s].out = "ok" => remote.rev >= call[s].rev + 1)
      BY <2>1, Zenon DEF TwinInv, SubmitterKnows
    <3> DEFINE out == call[s].out
               sync == CASE out = "ok" -> "synced" [] out = "unavailable" -> "sync_failed" [] OTHER -> out
    <3>2. call[s].rev \in Nat /\ call[s].theirs \in Nat
      BY <1>0, Zenon DEF Calls
    <3>3. sync \in Syncs /\ (sync = "synced" => out = "ok")
      BY <3>1, Zenon DEF Outcomes, Syncs
    <3>4. Synced(s) = [rev |-> call[s].rev + 1, disabled |-> out = "disabled",
                       conflict |-> out = "conflict", sync |-> sync, theirs |-> call[s].theirs]
      BY Zenon DEF Synced
    <3> HIDE DEF sync
    <3> QED BY <1>0, <3>1, <3>2, <3>3, <3>4
  <2>3. DOMAIN call' = Threads /\ call' = [x \in Threads |-> call'[x]] /\ call'[s] = Idle0
        /\ \A x \in Threads : x # s => call'[x] = call[x]
    BY <1>0, <2>1, Zenon
  <2>4. Idle0.theirs <= remote.rev
    BY <1>0, IdleCall
  <2>5. OneRequest'
    BY <1>1, <2>1, <2>3, Zenon
  <2> QED BY <1>0, <2>1, <2>2, <2>3, <2>4, <2>5, IdleCall, CallMoves, ZenonT(30)
<1>5. CASE push_twin(s)
  <2> DEFINE c == [call[s] EXCEPT !.pc = "store"]
             u == [rev |-> call[s].rev + 1, by |-> s]
  <2>1. call[s].pc = "settle" /\ call' = [call EXCEPT ![s].pc = "store"]
        /\ UNCHANGED <<remote, twin, wire, taken>>
    BY <1>5, Zenon DEF push_twin, Step
  <2>2. DOMAIN call' = Threads /\ call' = [x \in Threads |-> call'[x]] /\ call'[s] = c
        /\ \A x \in Threads : x # s => call'[x] = call[x]
    BY <1>0, <2>1, Zenon
  <2>3. c \in Calls /\ c.pc = "store" /\ c.out = call[s].out /\ c.rev = call[s].rev
        /\ c.theirs = call[s].theirs
    BY <1>0, Zenon DEF Calls, Steps
  <2>4. c.out \in Outcomes /\ (c.out = "ok" => remote.rev >= c.rev + 1)
    BY <2>1, <2>3, Zenon DEF TwinInv, SubmitterKnows
  <2> HIDE DEF c
  <2>5. OneRequest'
    BY <1>1, <2>1, <2>2, Zenon
  <2>6. CASE UNCHANGED <<offline, owed, pushedOut>>
    <3>1. UNCHANGED <<remote, offline, taken, owed, pushedOut>> /\ wire' \subseteq Mails
      BY <1>0, <2>1, <2>6, Zenon
    <3>2. /\ twin' \in [rev : Nat, sync : Syncs, disabled : BOOLEAN, conflict : BOOLEAN, theirs : Nat]
          /\ twin'.theirs <= remote.rev /\ (twin'.sync = "synced" => remote.rev >= twin'.rev)
      BY <1>0, <2>1, Zenon
    <3>3. c.theirs <= remote.rev
      BY <1>0, <2>3, Zenon
    <3> QED BY <1>0, <2>2, <2>3, <2>4, <2>5, <3>1, <3>2, <3>3, CallMoves, Zenon
  <2>7. CASE enqueue_locked(u)
    <3> DEFINE full == Len(offline) >= MaxDepth
    <3>1. /\ offline' = Append(IF full THEN Tail(offline) ELSE offline, u)
          /\ owed' = owed \cup {u} /\ pushedOut' = (pushedOut \/ full)
      BY <2>7, Zenon DEF enqueue_locked
    <3>2. offline \in Seq(Items) /\ u \in Items
      <4>1. call[s].rev \in Nat
        BY <1>0, Zenon DEF Calls
      <4>2. call[s].rev + 1 \in Nat
        BY <4>1
      <4> QED BY <1>0, <4>2, Zenon DEF TwinInv, TwinTypes, Items
    <3> HIDE DEF u
    <3>3. offline' \in Seq(Items) /\ pushedOut' \in BOOLEAN
      <4>1. CASE full
        BY <3>1, <3>2, <4>1
      <4>2. CASE ~full
        BY <3>1, <3>2, <4>2
      <4> QED BY <1>0, <3>1, <4>1, <4>2, Zenon
    <3>4. TwinTypes'
      BY <1>0, <2>1, <2>2, <2>3, <3>3, Zenon DEF TwinInv, TwinTypes
    <3>5. SubmitterKnows' /\ RemoteIsKnown'
      BY <1>0, <2>1, <2>2, <2>3, <2>4, Zenon DEF TwinInv, SubmitterKnows, RemoteIsKnown, Threads
    <3>6. ~pushedOut' => /\ ~pushedOut /\ offline' = Append(offline, u)
      BY <1>0, <3>1, Zenon
    <3>7. FlusherKnows'
      <4>1. ASSUME ~pushedOut', offline # <<>>
            PROVE  offline' # <<>> /\ Head(offline') = Head(offline)
        BY <3>2, <3>6, <4>1
      <4>2. call'[Flusher] = call[Flusher]
        BY <1>0, <2>2, Zenon DEF Threads
      <4>3. offline' # <<>>
        BY <3>1, <3>2, <3>3
      <4> QED BY <2>1, <3>6, <4>1, <4>2, <4>3 DEF TwinInv, FlusherKnows
    <3>8. OwedIsKept'
      <4> SUFFICES ASSUME NEW v \in owed', ~pushedOut'
                   PROVE  v \in taken' \/ \E i \in 1..Len(offline') : offline'[i] = v
        BY Zenon DEF OwedIsKept
      <4>1. CASE v = u
        BY <3>2, <3>6, <4>1
      <4>2. CASE v \in owed
        <5>1. v \in taken \/ \E i \in 1..Len(offline) : offline[i] = v
          BY <3>6, <4>2, Zenon DEF TwinInv, OwedIsKept
        <5>2. \A i \in 1..Len(offline) : i \in 1..Len(offline') /\ offline'[i] = offline[i]
          BY <3>2, <3>6
        <5> QED BY <2>1, <5>1, <5>2, Zenon
      <4> QED BY <3>1, <4>1, <4>2, Zenon
    <3> QED BY <2>5, <3>4, <3>5, <3>7, <3>8, Zenon DEF TwinInv
  <2> QED BY <1>5, <2>6, <2>7, Zenon DEF push_twin
<1> QED BY <1>2, <1>3, <1>4, <1>5, Zenon

(* A request is sent, or given up.                                         *)
LEMMA SendStep ==
  ASSUME TwinInv, NEW t \in Threads, push_now(t) \/ \E lapsed \in BOOLEAN : TimeOut(t, lapsed)
  PROVE  TwinInv'
<1> USE TwinAssumption
<1>0. /\ call \in [Threads -> Calls] /\ call[t] \in Calls /\ call[t].rev \in Nat /\ call[t].by \in Threads
      /\ twin \in [rev : Nat, sync : Syncs, disabled : BOOLEAN, conflict : BOOLEAN, theirs : Nat]
      /\ wire \subseteq Mails
      /\ twin.theirs <= remote.rev /\ (twin.sync = "synced" => remote.rev >= twin.rev)
      /\ call[t].theirs <= remote.rev
  BY Zenon DEF TwinInv, TwinTypes, RemoteIsKnown, Calls
<1>1. CASE push_now(t)
  <2> DEFINE c == [call[t] EXCEPT !.pc = "wait"]
             m == [from |-> t, late |-> FALSE, by |-> call[t].by,
                   rev |-> IF t = Flusher THEN call[t].rev ELSE call[t].rev + 1]
  <2>1. call[t].pc = "push" /\ call' = [call EXCEPT ![t].pc = "wait"] /\ wire' = wire \cup {m}
        /\ UNCHANGED <<remote, twin, offline, taken, owed, pushedOut>>
    BY <1>1, Zenon DEF push_now, Step
  <2>2. DOMAIN call' = Threads /\ call' = [x \in Threads |-> call'[x]] /\ call'[t] = c
        /\ \A x \in Threads : x # t => call'[x] = call[x]
    BY <1>0, <2>1, Zenon
  <2>3. c \in Calls /\ c.pc = "wait" /\ c.rev = call[t].rev /\ c.by = call[t].by
        /\ c.theirs = call[t].theirs
    BY <1>0, Zenon DEF Calls, Steps
  <2>4. m \in Mails /\ m.from = t /\ m.by = call[t].by
        /\ m.rev = IF t = Flusher THEN call[t].rev ELSE call[t].rev + 1
    BY <1>0 DEF Mails
  <2> HIDE DEF m, c
  <2>5. OneRequest'
    <3> SUFFICES ASSUME NEW x \in wire', ~x.late
                 PROVE  /\ call'[x.from].pc = "wait" /\ x.by = call'[x.from].by
                        /\ x.rev = IF x.from = Flusher THEN call'[x.from].rev ELSE call'[x.from].rev + 1
      BY Zenon DEF OneRequest
    <3>1. CASE x = m
      BY <2>2, <2>3, <2>4, <3>1, Zenon
    <3>2. CASE x \in wire
      <4>1. /\ call[x.from].pc = "wait" /\ x.by = call[x.from].by /\ x.from \in Threads
            /\ x.rev = IF x.from = Flusher THEN call[x.from].rev ELSE call[x.from].rev + 1
        BY <1>0, <3>2, Zenon DEF TwinInv, OneRequest, Mails
      <4> QED BY <2>1, <2>2, <4>1, Zenon
    <3> QED BY <2>1, <3>1, <3>2, Zenon
  <2>6. Item(c) = Item(call[t])
    BY <2>3, Zenon DEF Item
  <2>7. t = Flusher => offline # <<>> /\ (pushedOut \/ Head(offline) = Item(c))
    BY <2>1, <2>6, Zenon DEF TwinInv, FlusherKnows
  <2>8. wire' \subseteq Mails /\ c.theirs <= remote.rev
    BY <1>0, <2>1, <2>3, <2>4, Zenon
  <2>9. /\ twin' \in [rev : Nat, sync : Syncs, disabled : BOOLEAN, conflict : BOOLEAN, theirs : Nat]
        /\ twin'.theirs <= remote.rev /\ (twin'.sync = "synced" => remote.rev >= twin'.rev)
    BY <1>0, <2>1, Zenon
  <2>10. UNCHANGED <<remote, offline, taken, owed, pushedOut>>
    BY <2>1, Zenon
  <2> QED BY <2>2, <2>3, <2>5, <2>7, <2>8, <2>9, <2>10, CallMoves, Zenon
<1>2. ASSUME NEW lapsed \in BOOLEAN, TimeOut(t, lapsed)
      PROVE  TwinInv'
  <2> DEFINE mine == {m \in wire : m.from = t /\ ~m.late}
             c == [call[t] EXCEPT !.pc = IF t = Flusher THEN "pop" ELSE "settle", !.out = "unavailable"]
  <2>1. /\ call[t].pc = "wait"
        /\ wire' = (wire \ mine) \cup (IF lapsed THEN {} ELSE {[m EXCEPT !.late = TRUE] : m \in mine})
        /\ call' = [call EXCEPT ![t].pc = IF t = Flusher THEN "pop" ELSE "settle", ![t].out = "unavailable"]
        /\ UNCHANGED <<remote, twin, offline, taken, owed, pushedOut>>
    BY <1>2, Zenon DEF TimeOut
  <2>2. DOMAIN call' = Threads /\ call' = [x \in Threads |-> call'[x]] /\ call'[t] = c
        /\ \A x \in Threads : x # t => call'[x] = call[x]
    BY <1>0, <2>1, Zenon
  <2>3. c \in Calls /\ c.pc = (IF t = Flusher THEN "pop" ELSE "settle") /\ c.out = "unavailable"
        /\ c.rev = call[t].rev /\ c.by = call[t].by /\ c.theirs = call[t].theirs
    BY <1>0, Zenon DEF Calls, Steps, Outcomes
  <2> HIDE DEF c
  <2>4. \A m \in Mails : [m EXCEPT !.late = TRUE] \in Mails /\ [m EXCEPT !.late = TRUE].late
    BY Zenon DEF Mails
  <2>5. wire' \subseteq Mails /\ \A m \in wire' : ~m.late => m \in wire /\ m.from # t
    BY <1>0, <2>1, <2>4, ZenonT(30)
  <2>6. OneRequest'
    BY <1>0, <2>2, <2>5 DEF TwinInv, OneRequest, Mails
  <2>7. Item(c) = Item(call[t])
    BY <2>3, Zenon DEF Item
  <2>8. t = Flusher => offline # <<>> /\ (pushedOut \/ Head(offline) = Item(c))
    BY <2>1, <2>7, Zenon DEF TwinInv, FlusherKnows
  <2>9. c.theirs <= remote.rev /\ c.out \in Outcomes
    BY <1>0, <2>3, Zenon DEF Outcomes
  <2>10. /\ twin' \in [rev : Nat, sync : Syncs, disabled : BOOLEAN, conflict : BOOLEAN, theirs : Nat]
         /\ twin'.theirs <= remote.rev /\ (twin'.sync = "synced" => remote.rev >= twin'.rev)
    BY <1>0, <2>1, Zenon
  <2>11. UNCHANGED <<remote, offline, taken, owed, pushedOut>>
    BY <2>1, Zenon
  <2> QED BY <2>2, <2>3, <2>5, <2>6, <2>8, <2>9, <2>10, <2>11, CallMoves, Zenon
<1> QED BY <1>1, <1>2, Zenon

(* The server takes, refuses or ignores a request.                         *)
LEMMA ServerStep ==
  ASSUME TwinInv, NEW m \in wire, NEW heard \in BOOLEAN, PostTwin(m, heard)
  PROVE  TwinInv' /\ remote'.rev >= remote.rev /\ (remote.disabled => remote' = remote)
<1> USE TwinAssumption
<1> DEFINE t == m.from
<1>0. /\ call \in [Threads -> Calls] /\ wire \subseteq Mails
      /\ remote \in [rev : Nat, disabled : BOOLEAN] /\ offline \in Seq(Items) /\ pushedOut \in BOOLEAN
      /\ m.rev \in Nat /\ m.by \in Threads /\ t \in Threads /\ call[t] \in Calls /\ m.late \in BOOLEAN
      /\ call[t].rev \in Nat /\ call[t].theirs \in Nat
  BY Zenon DEF TwinInv, TwinTypes, Mails, Calls
<1>1. /\ wire' = wire \ {m} /\ UNCHANGED <<twin, offline, owed, pushedOut>>
      /\ remote' = IF Answer(m) = "ok" THEN [remote EXCEPT !.rev = m.rev] ELSE remote
      /\ taken' = IF Answer(m) = "ok" THEN taken \cup {[rev |-> m.rev, by |-> m.by]} ELSE taken
  BY Zenon DEF PostTwin
<1>2. /\ Answer(m) \in Outcomes
      /\ Answer(m) = "ok" => ~remote.disabled /\ m.rev > remote.rev
  BY <1>0 DEF Answer, Outcomes
<1>3. /\ remote' \in [rev : Nat, disabled : BOOLEAN] /\ remote'.rev \in Nat /\ remote.rev \in Nat
      /\ remote'.rev >= remote.rev /\ (remote.disabled => remote' = remote)
      /\ Answer(m) = "ok" => remote'.rev = m.rev
  <2>1. CASE Answer(m) = "ok"
    <3>1. remote' = [remote EXCEPT !.rev = m.rev]
      BY <1>1, <2>1, Zenon
    <3>2. remote'.rev = m.rev /\ remote' \in [rev : Nat, disabled : BOOLEAN]
      BY <1>0, <3>1, Zenon
    <3>3. remote.rev \in Nat
      BY <1>0, Zenon
    <3>4. remote'.rev >= remote.rev
      BY <1>0, <1>2, <2>1, <3>2, <3>3
    <3>5. ~remote.disabled
      BY <1>2, <2>1, Zenon
    <3> QED BY <1>0, <3>2, <3>3, <3>4, <3>5, Zenon
  <2>2. CASE Answer(m) # "ok"
    BY <1>0, <1>1, <2>2
  <2> QED BY <2>1, <2>2, Zenon
<1>4. taken \subseteq taken' /\ (Answer(m) = "ok" => [rev |-> m.rev, by |-> m.by] \in taken')
  BY <1>1, Zenon
<1>5. OwedIsKept'
  BY <1>1, <1>4, Zenon DEF TwinInv, OwedIsKept
<1>6. CASE call' = call
  <2>1. TwinTypes'
    BY <1>0, <1>1, <1>3, <1>6, Zenon DEF TwinInv, TwinTypes
  <2>2. OneRequest' /\ FlusherKnows'
    BY <1>1, <1>4, <1>6, Zenon DEF TwinInv, OneRequest, FlusherKnows
  <2>3. \A k \in Nat : remote.rev >= k => remote'.rev >= k
    BY <1>3
  <2>4. \A s \in Threads : call[s].rev + 1 \in Nat /\ call[s].theirs \in Nat
    <3>1. \A s \in Threads : call[s].rev \in Nat /\ call[s].theirs \in Nat
      BY <1>0, Zenon DEF Calls
    <3> QED BY <3>1
  <2>5. twin.theirs \in Nat /\ twin.rev \in Nat
    BY Zenon DEF TwinInv, TwinTypes
  <2>6. SubmitterKnows' /\ RemoteIsKnown'
    BY <1>1, <1>3, <1>6, <2>3, <2>4, <2>5, Zenon DEF TwinInv, SubmitterKnows, RemoteIsKnown, Threads
  <2> QED BY <1>3, <1>5, <2>1, <2>2, <2>6, Zenon DEF TwinInv
<1>7. CASE call' # call
  <2> DEFINE c == [call[t] EXCEPT !.pc = IF t = Flusher THEN "pop" ELSE "settle", !.out = Answer(m),
                                  !.theirs = IF remote.disabled THEN @ ELSE remote'.rev]
  <2>1. heard /\ ~m.late
        /\ call' = [call EXCEPT ![t].pc = IF t = Flusher THEN "pop" ELSE "settle",
                                ![t].out = Answer(m),
                                ![t].theirs = IF remote.disabled THEN @ ELSE remote'.rev]
    BY <1>7, Zenon DEF PostTwin
  <2>2. DOMAIN call' = Threads /\ call' = [x \in Threads |-> call'[x]] /\ call'[t] = c
        /\ \A x \in Threads : x # t => call'[x] = call[x]
    BY <1>0, <2>1, Zenon
  <2>3. c \in Calls /\ c.pc = (IF t = Flusher THEN "pop" ELSE "settle") /\ c.out = Answer(m)
        /\ c.rev = call[t].rev /\ c.by = call[t].by
        /\ c.theirs = IF remote.disabled THEN call[t].theirs ELSE remote'.rev
    <3> DEFINE pc == IF t = Flusher THEN "pop" ELSE "settle"
               theirs == IF remote.disabled THEN call[t].theirs ELSE remote'.rev
    <3>1. pc \in Steps /\ Answer(m) \in Outcomes \cup {""}
      BY <1>2, Zenon DEF Steps
    <3>2. theirs \in Nat
      BY <1>0, <1>3, Zenon
    <3>3. c = [call[t] EXCEPT !.pc = pc, !.out = Answer(m), !.theirs = theirs]
      BY Zenon
    <3> HIDE DEF pc, theirs, c
    <3>4. c \in Calls
      BY <1>0, <3>1, <3>2, <3>3, Zenon DEF Calls
    <3>5. c.pc = pc /\ c.out = Answer(m) /\ c.theirs = theirs /\ c.rev = call[t].rev /\ c.by = call[t].by
      BY <1>0, <3>3, Zenon DEF Calls
    <3> QED BY <3>4, <3>5, Zenon DEF pc, theirs
  <2> HIDE DEF c
  <2>4. /\ call[t].pc = "wait" /\ m.by = call[t].by
        /\ m.rev = IF t = Flusher THEN call[t].rev ELSE call[t].rev + 1
    BY <2>1, Zenon DEF TwinInv, OneRequest
  <2>5. ASSUME NEW x \in wire', ~x.late
        PROVE  x.from # t
    <3> SUFFICES ASSUME x.from = t PROVE FALSE
      BY Zenon
    <3>1. x \in wire /\ x # m /\ x.by = m.by /\ x.rev = m.rev
      BY <1>1, <2>4, <2>5, Zenon DEF TwinInv, OneRequest
    <3> QED BY <1>0, <2>1, <2>5, <3>1 DEF Mails
  <2>6. OneRequest'
    BY <1>0, <1>1, <2>2, <2>5 DEF TwinInv, OneRequest, Mails
  <2>7. TwinTypes'
    BY <1>0, <1>1, <1>3, <2>2, <2>3, Zenon DEF TwinInv, TwinTypes
  <2>8. \A k \in Nat : remote.rev >= k => remote'.rev >= k
    BY <1>3
  <2>9. \A s \in Threads : call[s].rev + 1 \in Nat /\ call[s].theirs \in Nat
    <3>1. \A s \in Threads : call[s].rev \in Nat /\ call[s].theirs \in Nat
      BY <1>0, Zenon DEF Calls
    <3> QED BY <3>1
  <2>10. SubmitterKnows'
    <3>1. t \in Submitters /\ c.out = "ok" => remote'.rev >= c.rev + 1
      BY <1>0, <1>3, <2>3, <2>4
    <3> SUFFICES ASSUME NEW s \in Submitters, call'[s].pc \in {"settle", "store"}
                 PROVE  /\ call'[s].out \in Outcomes
                        /\ call'[s].out = "ok" => remote'.rev >= call'[s].rev + 1
      BY Zenon DEF SubmitterKnows
    <3>2. CASE s = t
      BY <1>2, <2>2, <2>3, <3>1, <3>2, Zenon
    <3>3. CASE s # t
      BY <2>2, <2>8, <2>9, <3>3, Zenon DEF TwinInv, SubmitterKnows, Threads
    <3> QED BY <3>2, <3>3, Zenon
  <2>11. RemoteIsKnown'
    <3>0. call[t].theirs <= remote.rev /\ call[t].theirs \in Nat
      BY <1>0, <2>9, Zenon DEF TwinInv, RemoteIsKnown
    <3>1. c.theirs <= remote'.rev
      <4>1. CASE remote.disabled
        <5>1. c.theirs = call[t].theirs
          BY <2>3, <4>1, Zenon
        <5> QED BY <2>8, <3>0, <5>1, Zenon
      <4>2. CASE ~remote.disabled
        <5>1. c.theirs = remote'.rev
          BY <2>3, <4>2, Zenon
        <5> QED BY <1>3, <5>1
      <4> QED BY <4>1, <4>2, Zenon
    <3>2. twin.theirs \in Nat /\ twin.rev \in Nat
      BY Zenon DEF TwinInv, TwinTypes
    <3> QED BY <1>1, <1>3, <2>2, <2>8, <2>9, <3>1, <3>2, Zenon DEF TwinInv, RemoteIsKnown
  <2>12. FlusherKnows'
    <3>1. CASE t # Flusher
      BY <1>1, <1>4, <2>2, <3>1, Zenon DEF TwinInv, FlusherKnows, Threads
    <3>2. CASE t = Flusher
      <4>1. Item(c) = Item(call[Flusher]) /\ Item(c) = [rev |-> m.rev, by |-> m.by]
        BY <2>3, <2>4, <3>2, Zenon DEF Item
      <4> QED BY <1>1, <1>4, <2>2, <2>3, <2>4, <3>2, <4>1, Zenon DEF TwinInv, FlusherKnows
    <3> QED BY <3>1, <3>2, Zenon
  <2> QED BY <1>3, <1>5, <2>6, <2>7, <2>10, <2>11, <2>12, Zenon DEF TwinInv
<1> QED BY <1>6, <1>7, Zenon

(* The flusher takes the front of the queue and pops it after an ok.       *)
LEMMA FlushStep ==
  ASSUME TwinInv, flush_offline_queue \/ FlushPop
  PROVE  TwinInv'
<1> USE TwinAssumption
<1>0. /\ Flusher \in Threads /\ call \in [Threads -> Calls] /\ offline \in Seq(Items)
      /\ twin \in [rev : Nat, sync : Syncs, disabled : BOOLEAN, conflict : BOOLEAN, theirs : Nat]
      /\ wire \subseteq Mails /\ remote.rev \in Nat
      /\ twin.theirs <= remote.rev /\ (twin.sync = "synced" => remote.rev >= twin.rev)
  BY Zenon DEF TwinInv, TwinTypes, RemoteIsKnown, Threads
<1>1. ASSUME wire' = wire, call[Flusher].pc # "wait", DOMAIN call' = Threads,
             \A x \in Threads : x # Flusher => call'[x] = call[x]
      PROVE  OneRequest'
  BY <1>0, <1>1 DEF TwinInv, OneRequest, Mails
<1>2. CASE flush_offline_queue
  <2> DEFINE c == [Idle0 EXCEPT !.pc = "push", !.rev = Head(offline).rev, !.by = Head(offline).by]
  <2>1. call[Flusher].pc = "idle" /\ offline # <<>> /\ call' = [call EXCEPT ![Flusher] = c]
        /\ UNCHANGED <<remote, twin, offline, wire, taken, owed, pushedOut>>
    BY <1>2, Zenon DEF flush_offline_queue
  <2>2. Head(offline) \in Items
    BY <1>0, <2>1
  <2>3. c \in Calls /\ c.pc = "push" /\ c.theirs = 0 /\ Item(c) = Head(offline)
    BY <2>2, Zenon DEF Idle0, Calls, Steps, Items, Item
  <2> HIDE DEF c
  <2>4. DOMAIN call' = Threads /\ call' = [x \in Threads |-> call'[x]] /\ call'[Flusher] = c
        /\ \A x \in Threads : x # Flusher => call'[x] = call[x]
    BY <1>0, <2>1, Zenon
  <2>5. OneRequest'
    BY <1>1, <2>1, <2>4, Zenon
  <2>6. c.theirs <= remote.rev /\ wire' \subseteq Mails
    BY <1>0, <2>1, <2>3
  <2>7. /\ twin' \in [rev : Nat, sync : Syncs, disabled : BOOLEAN, conflict : BOOLEAN, theirs : Nat]
        /\ twin'.theirs <= remote.rev /\ (twin'.sync = "synced" => remote.rev >= twin'.rev)
    BY <1>0, <2>1, Zenon
  <2>8. UNCHANGED <<remote, offline, taken, owed, pushedOut>>
    BY <2>1, Zenon
  <2> QED BY <1>0, <2>1, <2>3, <2>4, <2>5, <2>6, <2>7, <2>8, CallMoves, Zenon
<1>3. CASE FlushPop
  <2>1. call[Flusher].pc = "pop" /\ call' = [call EXCEPT ![Flusher] = Idle0]
        /\ offline' = (IF call[Flusher].out = "ok" THEN Tail(offline) ELSE offline)
        /\ UNCHANGED <<remote, twin, wire, taken, owed, pushedOut>>
    BY <1>3, Zenon DEF FlushPop, EndCall
  <2>2. DOMAIN call' = Threads /\ call' = [x \in Threads |-> call'[x]] /\ call'[Flusher] = Idle0
        /\ \A x \in Threads : x # Flusher => call'[x] = call[x]
    BY <1>0, <2>1, Zenon
  <2>3. OneRequest'
    BY <1>1, <2>1, <2>2, Zenon
  <2>4. offline # <<>> /\ (~pushedOut /\ call[Flusher].out = "ok" => Head(offline) \in taken)
    BY <2>1, Zenon DEF TwinInv, FlusherKnows
  <2>5. Tail(offline) \in Seq(Items) /\ Len(Tail(offline)) = Len(offline) - 1 /\ Len(offline) \in Nat
        /\ Head(offline) = offline[1] /\ \A i \in 1..Len(offline) - 1 : Tail(offline)[i] = offline[i + 1]
    BY <1>0, <2>4
  <2>6. offline' \in Seq(Items)
    BY <1>0, <2>1, <2>5, Zenon
  <2>7. TwinTypes'
    BY <1>0, <2>1, <2>2, <2>6, IdleCall, Zenon DEF TwinInv, TwinTypes
  <2>8. SubmitterKnows' /\ RemoteIsKnown'
    <3>1. Idle0.theirs <= remote.rev
      BY <1>0, IdleCall
    <3> QED BY <1>0, <2>1, <2>2, <3>1, IdleCall, Zenon DEF TwinInv, SubmitterKnows, RemoteIsKnown, Threads
  <2>9. FlusherKnows'
    BY <2>2, IdleCall, Zenon DEF FlusherKnows
  <2>10. OwedIsKept'
    <3> SUFFICES ASSUME NEW u \in owed, ~pushedOut, u \notin taken
                 PROVE  \E i \in 1..Len(offline') : offline'[i] = u
      BY <2>1, Zenon DEF OwedIsKept
    <3>1. PICK i \in 1..Len(offline) : offline[i] = u
      BY Zenon DEF TwinInv, OwedIsKept
    <3>2. CASE call[Flusher].out # "ok"
      BY <2>1, <3>1, <3>2, Zenon
    <3>3. CASE call[Flusher].out = "ok"
      <4>1. i # 1
        BY <2>4, <2>5, <3>1, <3>3, Zenon
      <4>2. i - 1 \in 1..Len(offline) - 1 /\ (i - 1) + 1 = i
        BY <2>5, <4>1
      <4>3. offline' = Tail(offline)
        BY <2>1, <3>3, Zenon
      <4>4. Tail(offline)[i - 1] = u
        BY <2>5, <3>1, <4>2, Zenon
      <4> QED BY <2>5, <4>2, <4>3, <4>4, Zenon
    <3> QED BY <3>2, <3>3, Zenon
  <2> QED BY <2>3, <2>7, <2>8, <2>9, <2>10, Zenon DEF TwinInv
<1> QED BY <1>2, <1>3, Zenon

(* Every step, a loss of power included.                                   *)
LEMMA TwinStep ==
  ASSUME TwinInv, [TwNext]_tvars
  PROVE  TwinInv' /\ remote'.rev >= remote.rev /\ (remote.disabled => remote' = remote)
<1> USE TwinAssumption
<1>0. remote.rev \in Nat /\ remote \in [rev : Nat, disabled : BOOLEAN]
  BY Zenon DEF TwinInv, TwinTypes
<1>1. ASSUME remote' = remote
      PROVE  remote'.rev >= remote.rev /\ (remote.disabled => remote' = remote)
  BY <1>0, <1>1
<1>2. ASSUME NEW s \in Submitters,
             \/ submit_update(s) \/ push_twin(s) \/ StoreTwin(s)
             \/ \E reached \in BOOLEAN : is_device_disabled(s, reached)
      PROVE  TwinInv' /\ remote' = remote
  BY <1>2, SubmitStep, Zenon DEF submit_update, push_twin, StoreTwin, is_device_disabled
<1>3. ASSUME NEW t \in Threads, push_now(t) \/ \E lapsed \in BOOLEAN : TimeOut(t, lapsed)
      PROVE  TwinInv' /\ remote' = remote
  BY <1>3, SendStep, Zenon DEF push_now, TimeOut
<1>4. CASE flush_offline_queue \/ FlushPop
  BY <1>1, <1>4, FlushStep, Zenon DEF flush_offline_queue, FlushPop
<1>5. CASE disable_device
  <2>1. ~remote.disabled /\ remote' = [remote EXCEPT !.disabled = TRUE]
        /\ UNCHANGED <<twin, offline, call, wire, taken, owed, pushedOut>>
    BY <1>5, Zenon DEF disable_device
  <2>2. remote'.rev = remote.rev /\ remote' \in [rev : Nat, disabled : BOOLEAN]
    BY <1>0, <2>1, Zenon
  <2>3. TwinInv'
    BY <2>1, <2>2, Zenon DEF TwinInv, TwinTypes, OneRequest, SubmitterKnows, FlusherKnows, RemoteIsKnown,
                      OwedIsKept
  <2> QED BY <1>0, <2>1, <2>2, <2>3
<1>6. ASSUME NEW queueTorn \in BOOLEAN, NEW twinTorn \in BOOLEAN, DrawerCrash(queueTorn, twinTorn)
      PROVE  TwinInv' /\ remote' = remote
  <2>1. /\ call' = [t \in Threads |-> Idle0] /\ wire' = {[m EXCEPT !.late = TRUE] : m \in wire}
        /\ offline' = IF queueTorn THEN <<>> ELSE offline
        /\ owed' = IF queueTorn THEN {} ELSE owed
        /\ twin' = IF twinTorn THEN [rev |-> 0, sync |-> "local", disabled |-> FALSE,
                                     conflict |-> FALSE, theirs |-> 0] ELSE twin
        /\ UNCHANGED <<remote, taken, pushedOut>>
    BY <1>6, Zenon DEF DrawerCrash
  <2>2. \A m \in Mails : [m EXCEPT !.late = TRUE] \in Mails /\ [m EXCEPT !.late = TRUE].late
    BY Zenon DEF Mails
  <2>3. wire' \subseteq Mails /\ \A m \in wire' : m.late
    BY <2>1, <2>2, ZenonT(30) DEF TwinInv, TwinTypes
  <2>4. twin' \in [rev : Nat, sync : Syncs, disabled : BOOLEAN, conflict : BOOLEAN, theirs : Nat]
        /\ twin'.theirs <= remote.rev /\ (twin'.sync = "synced" => remote.rev >= twin'.rev)
    <3>1. CASE twinTorn
      BY <1>0, <2>1, <3>1 DEF Syncs
    <3>2. CASE ~twinTorn
      BY <2>1, <3>2, Zenon DEF TwinInv, TwinTypes, RemoteIsKnown
    <3> QED BY <3>1, <3>2, Zenon
  <2>5. TwinTypes'
    BY <2>1, <2>3, <2>4, IdleCall DEF TwinInv, TwinTypes
  <2>6. OneRequest' /\ SubmitterKnows' /\ FlusherKnows'
    BY <2>1, <2>3, IdleCall, Zenon DEF OneRequest, SubmitterKnows, FlusherKnows, Threads
  <2>7. RemoteIsKnown'
    BY <1>0, <2>1, <2>4, IdleCall DEF RemoteIsKnown
  <2>8. OwedIsKept'
    BY <2>1, Zenon DEF TwinInv, OwedIsKept
  <2> QED BY <2>1, <2>5, <2>6, <2>7, <2>8, Zenon DEF TwinInv
<1>7. CASE UNCHANGED tvars
  BY <1>1, <1>7, Zenon DEF tvars, TwinInv, TwinTypes, OneRequest, SubmitterKnows, FlusherKnows, RemoteIsKnown,
                    OwedIsKept
<1> QED BY <1>1, <1>2, <1>3, <1>4, <1>5, <1>6, <1>7, ServerStep, Zenon DEF TwNext, TwCalls, FlushSteps, Threads

(* The invariant holds in every state of drawer and server.                *)
LEMMA TwinInvariant == TwSpec => []TwinInv
<1>1. TwInit => TwinInv
  <2> SUFFICES ASSUME TwInit PROVE TwinInv
    BY Zenon
  <2>1. TwinTypes
    <3>1. twin \in [rev : Nat, sync : Syncs, disabled : BOOLEAN, conflict : BOOLEAN, theirs : Nat]
      BY Zenon DEF TwInit, Syncs
    <3>2. offline \in Seq(Items) /\ remote \in [rev : Nat, disabled : BOOLEAN]
      BY DEF TwInit
    <3> QED BY <3>1, <3>2, IdleCall, Zenon DEF TwInit, TwinTypes
  <2> QED BY <2>1, IdleCall DEF TwInit, TwinInv, OneRequest, SubmitterKnows, FlusherKnows, RemoteIsKnown,
                                OwedIsKept, Threads
<1>2. TwinInv /\ [TwNext]_tvars => TwinInv'
  BY TwinStep, Zenon
<1> QED BY <1>1, <1>2, PTL DEF TwSpec

(* The account that the drawer gives of the server is true, for any number *)
(* of submitters, revisions and queue depth.                               *)
THEOREM AccountHolds == TwSpec => []AccountIsTrue
<1>1. TwinInv => AccountIsTrue
  BY DEF TwinInv, TwinTypes, RemoteIsKnown, OwedIsKept, AccountIsTrue
<1> QED BY <1>1, TwinInvariant, PTL

(* The server's revision only rises, and not at all once it is disabled.   *)
THEOREM ServerRises == TwSpec => RemoteRises
<1>1. TwinInv /\ [TwNext]_tvars =>
        [/\ remote'.rev >= remote.rev
         /\ remote.disabled => remote' = remote]_tvars
  BY TwinStep, Zenon
<1> QED BY <1>1, TwinInvariant, PTL DEF TwSpec, RemoteRises
-----------------------------------------------------------------------------
(***************************************************************************)
(* The assessment of a drawer.                                             *)
(***************************************************************************)
AInv == /\ wear \in [Fields -> Nat] /\ wear["offline"] \in 0..2
        /\ level \in [Coins -> Nat] /\ rate \in [Coins -> Nat]

Worse(w, v) == \A f \in Fields : w[f] <= v[f]

(* A weighted wear, rounded up to a whole point, does not fall when it     *)
(* rises.                                                                  *)
LEMMA TenthsRise ==
  ASSUME NEW a \in Nat, NEW b \in Nat, a <= b
  PROVE  ceil10(a) \in Nat /\ ceil10(a) <= ceil10(b)
  BY DEF ceil10

(* A cap does not change the order of two values.                          *)
LEMMA LeastRises ==
  ASSUME NEW a \in Nat, NEW b \in Nat, a <= b, NEW m \in Nat
  PROVE  least(a, m) \in 0..m /\ least(b, m) \in 0..m /\ least(a, m) <= least(b, m)
  BY DEF least

Reasons == {"jams", "failures", "drift", "selftest", "outages", "depletions", "downtime"}

(* Each penalty of HealthScoringEngine::score rises with the wear it is    *)
(* taken from.                                                             *)
LEMMA PenaltiesRise ==
  ASSUME NEW w \in [Fields -> Nat], NEW v \in [Fields -> Nat], Worse(w, v)
  PROVE  /\ DOMAIN penalties(w) = Reasons /\ DOMAIN penalties(v) = Reasons
         /\ \A f \in Reasons : penalties(w)[f] \in 0..24 /\ penalties(v)[f] \in 0..24
                               /\ penalties(w)[f] <= penalties(v)[f]
<1>1. \A f \in Fields : w[f] \in Nat /\ v[f] \in Nat /\ w[f] <= v[f]
  BY Zenon DEF Worse
<1>2. /\ DOMAIN penalties(w) = Reasons /\ DOMAIN penalties(v) = Reasons
  BY Zenon DEF penalties, Reasons
<1>3. least(w.jams * 4, 20) \in 0..20 /\ least(v.jams * 4, 20) \in 0..20
      /\ least(w.jams * 4, 20) <= least(v.jams * 4, 20)
  BY <1>1 DEF Fields, least
<1>4. least(w.failures * 6, 24) \in 0..24 /\ least(v.failures * 6, 24) \in 0..24
      /\ least(w.failures * 6, 24) <= least(v.failures * 6, 24)
  BY <1>1 DEF Fields, least
<1>5. least(ceil10(w.drift * 3), 15) \in 0..15 /\ least(ceil10(v.drift * 3), 15) \in 0..15
      /\ least(ceil10(w.drift * 3), 15) <= least(ceil10(v.drift * 3), 15)
  <2>1. ceil10(w.drift * 3) \in Nat /\ ceil10(v.drift * 3) \in Nat
        /\ ceil10(w.drift * 3) <= ceil10(v.drift * 3)
    BY <1>1, TenthsRise DEF Fields
  <2>2. QED
    BY <2>1, LeastRises, Zenon
<1>6. least(w.selftest * 10, 20) \in 0..20 /\ least(v.selftest * 10, 20) \in 0..20
      /\ least(w.selftest * 10, 20) <= least(v.selftest * 10, 20)
  BY <1>1 DEF Fields, least
<1>7. least(w.outages * 5, 15) \in 0..15 /\ least(v.outages * 5, 15) \in 0..15
      /\ least(w.outages * 5, 15) <= least(v.outages * 5, 15)
  BY <1>1 DEF Fields, least
<1>8. least(w.depletions * 4, 12) \in 0..12 /\ least(v.depletions * 4, 12) \in 0..12
      /\ least(w.depletions * 4, 12) <= least(v.depletions * 4, 12)
  BY <1>1 DEF Fields, least
<1> DEFINE low(x) == IF x.downtime > 10 THEN least(ceil10((x.downtime - 10) * 2), 10) ELSE 0
<1>9. low(w) \in 0..10 /\ low(v) \in 0..10 /\ low(w) <= low(v)
  <2>0. w.downtime \in Nat /\ v.downtime \in Nat /\ w.downtime <= v.downtime
    BY <1>1, Zenon DEF Fields
  <2>1. CASE w.downtime > 10
    <3>1. /\ (w.downtime - 10) * 2 \in Nat /\ (v.downtime - 10) * 2 \in Nat
          /\ (w.downtime - 10) * 2 <= (v.downtime - 10) * 2
      BY <2>0, <2>1
    <3>2. /\ ceil10((w.downtime - 10) * 2) \in Nat /\ ceil10((v.downtime - 10) * 2) \in Nat
          /\ ceil10((w.downtime - 10) * 2) <= ceil10((v.downtime - 10) * 2)
      BY <3>1, TenthsRise
    <3>3. /\ least(ceil10((w.downtime - 10) * 2), 10) \in 0..10
          /\ least(ceil10((v.downtime - 10) * 2), 10) \in 0..10
          /\ least(ceil10((w.downtime - 10) * 2), 10) <= least(ceil10((v.downtime - 10) * 2), 10)
      BY <3>2, LeastRises, Zenon
    <3>4. QED
      BY <2>0, <2>1, <3>3
  <2>2. CASE ~(w.downtime > 10) /\ v.downtime > 10
    <3>1. (v.downtime - 10) * 2 \in Nat
      BY <2>0, <2>2
    <3>2. ceil10((v.downtime - 10) * 2) \in Nat
      BY <3>1, TenthsRise
    <3>3. least(ceil10((v.downtime - 10) * 2), 10) \in 0..10
      BY <3>2 DEF least
    <3>4. QED
      BY <2>2, <3>3
  <2>3. CASE ~(w.downtime > 10) /\ ~(v.downtime > 10)
    BY <2>3
  <2>4. QED
    BY <2>1, <2>2, <2>3, Zenon
<1>10. /\ penalties(w).jams <= penalties(v).jams
       /\ penalties(w).jams \in 0..24 /\ penalties(v).jams \in 0..24
  BY <1>3 DEF penalties
<1>11. /\ penalties(w).failures <= penalties(v).failures
       /\ penalties(w).failures \in 0..24 /\ penalties(v).failures \in 0..24
  BY <1>4, Zenon DEF penalties
<1>12. /\ penalties(w).drift <= penalties(v).drift
       /\ penalties(w).drift \in 0..24 /\ penalties(v).drift \in 0..24
  BY <1>5 DEF penalties
<1>13. /\ penalties(w).selftest <= penalties(v).selftest
       /\ penalties(w).selftest \in 0..24 /\ penalties(v).selftest \in 0..24
  BY <1>6 DEF penalties
<1>14. /\ penalties(w).outages <= penalties(v).outages
       /\ penalties(w).outages \in 0..24 /\ penalties(v).outages \in 0..24
  BY <1>7 DEF penalties
<1>15. /\ penalties(w).depletions <= penalties(v).depletions
       /\ penalties(w).depletions \in 0..24 /\ penalties(v).depletions \in 0..24
  BY <1>8 DEF penalties
<1>16. /\ penalties(w).downtime <= penalties(v).downtime
       /\ penalties(w).downtime \in 0..24 /\ penalties(v).downtime \in 0..24
  BY <1>9 DEF penalties
<1>17. QED
  BY <1>2, <1>10, <1>11, <1>12, <1>13, <1>14, <1>15, <1>16, Zenon DEF Reasons

(* The failure probability of PredictiveMaintenanceEngine::evaluate rises  *)
(* with wear.                                                              *)
LEMMA ProbabilityRises ==
  ASSUME NEW w \in [Fields -> Nat], NEW v \in [Fields -> Nat], Worse(w, v)
  PROVE  probability(w) \in Nat /\ probability(v) \in Nat /\ probability(w) <= probability(v)
<1> DEFINE P == {"motor", "jams", "drift", "latency", "downtime"}
<1>1. \A f \in P, m \in Nat : /\ least(w[f], m) \in Nat /\ least(v[f], m) \in Nat
                              /\ least(w[f], m) <= least(v[f], m)
  <2>1. \A f \in P : w[f] \in Nat /\ v[f] \in Nat /\ w[f] <= v[f]
    BY Zenon DEF Worse, Fields
  <2>2. QED
    BY <2>1 DEF least
<1>2. \A a, b, c, d, e, p, q, r, s, t \in Nat :
        /\ 6 * a + 125 * b + 24 * c + 18 * d + 9 * e \in Nat
        /\ (a <= p /\ b <= q /\ c <= r /\ d <= s /\ e <= t) =>
             6 * a + 125 * b + 24 * c + 18 * d + 9 * e <= 6 * p + 125 * q + 24 * r + 18 * s + 9 * t
  OBVIOUS
<1>3. /\ least(w.motor, 250) \in Nat /\ least(v.motor, 250) \in Nat
      /\ least(w.motor, 250) <= least(v.motor, 250)
      /\ least(w.jams, 12) \in Nat /\ least(v.jams, 12) \in Nat
      /\ least(w.jams, 12) <= least(v.jams, 12)
      /\ least(w.drift, 50) \in Nat /\ least(v.drift, 50) \in Nat
      /\ least(w.drift, 50) <= least(v.drift, 50)
      /\ least(w.latency, 50) \in Nat /\ least(v.latency, 50) \in Nat
      /\ least(w.latency, 50) <= least(v.latency, 50)
      /\ least(w.downtime, 100) \in Nat /\ least(v.downtime, 100) \in Nat
      /\ least(w.downtime, 100) <= least(v.downtime, 100)
  BY <1>1
<1>4. QED
  BY <1>2, <1>3 DEF probability

(* The health score falls, down to its floor, when wear rises.             *)
LEMMA ScoreFalls ==
  ASSUME NEW w \in [Fields -> Nat], NEW v \in [Fields -> Nat], Worse(w, v)
  PROVE  score(v) <= score(w) /\ reasons(w) \subseteq reasons(v)
<1>1. /\ DOMAIN penalties(w) = Reasons /\ DOMAIN penalties(v) = Reasons
      /\ \A f \in Reasons : penalties(w)[f] \in 0..24 /\ penalties(v)[f] \in 0..24
                            /\ penalties(w)[f] <= penalties(v)[f]
  BY PenaltiesRise, Zenon
<1>2. reasons(w) \subseteq reasons(v)
  BY <1>1 DEF reasons
<1>3. PICK p, q : p = penalties(w) /\ q = penalties(v)
  BY Zenon
<1>4. \A f \in Reasons : p[f] \in Nat /\ q[f] \in Nat /\ p[f] <= q[f]
  BY <1>1, <1>3
<1> DEFINE S == p.jams + p.failures + p.drift + p.selftest + p.outages + p.depletions + p.downtime
           T == q.jams + q.failures + q.drift + q.selftest + q.outages + q.depletions + q.downtime
<1>5. S \in Nat /\ T \in Nat /\ S <= T
  BY <1>4 DEF Reasons
<1>6. score(w) = (IF S > 100 THEN 0 ELSE 100 - S) /\ score(v) = (IF T > 100 THEN 0 ELSE 100 - T)
  BY <1>3 DEF score
<1> HIDE DEF S, T
<1>7. QED
  BY <1>2, <1>5, <1>6

(* Worse telemetry never improves the assessment of a drawer, whatever the *)
(* fields and the amounts.                                                 *)
LEMMA AssessmentFalls ==
  ASSUME NEW w \in [Fields -> Nat], NEW v \in [Fields -> Nat], Worse(w, v),
         w["offline"] \in 0..2, v["offline"] \in 0..2
  PROVE  /\ score(v) <= score(w) /\ reasons(w) \subseteq reasons(v)
         /\ maintenance_priority(v) >= maintenance_priority(w)
         /\ drivers(w) \subseteq drivers(v)
         /\ \A f \in {"jams", "outages", "selftest", "firmware"} : evaluate(v)[f] >= evaluate(w)[f]
<1>0. \A f \in Fields : w[f] \in Nat /\ v[f] \in Nat /\ w[f] <= v[f]
  BY Zenon DEF Worse
<1>1. maintenance_priority(v) >= maintenance_priority(w)
  BY ProbabilityRises DEF maintenance_priority
<1>2. drivers(w) \subseteq drivers(v)
  BY <1>0 DEF drivers, Fields
<1>3. evaluate(v).jams >= evaluate(w).jams
  BY <1>0 DEF evaluate, Fields
<1>4. evaluate(v).outages >= evaluate(w).outages
  <2>1. /\ w.outages \in Nat /\ v.outages \in Nat /\ w.outages <= v.outages
        /\ w.offline \in 0..2 /\ v.offline \in 0..2 /\ w.offline <= v.offline
    BY <1>0, Zenon DEF Fields
  <2>2. QED
    BY <2>1 DEF evaluate
<1>5. evaluate(v).selftest >= evaluate(w).selftest
  BY <1>0 DEF evaluate, Fields
<1>6. evaluate(v).firmware >= evaluate(w).firmware
  BY <1>0, Zenon DEF evaluate, Fields
<1>7. QED
  BY <1>1, <1>2, <1>3, <1>4, <1>5, <1>6, ScoreFalls, Zenon

(* Wear and stock stay within the values a drawer reports.                 *)
LEMMA AnalyticsStep ==
  ASSUME AInv, [ANext]_avars
  PROVE  AInv' /\ Worse(wear, wear') /\ UNCHANGED rate
<1>1. ASSUME NEW f \in Fields, Worsen(f)
      PROVE  AInv' /\ Worse(wear, wear') /\ UNCHANGED rate
  <2>1. PICK n \in Ladder[f] : n > wear[f] /\ wear' = [wear EXCEPT ![f] = n]
    BY <1>1, Zenon DEF Worsen
  <2>2. n \in Nat /\ (f = "offline" => n \in 0..2)
    BY <2>1, AnalyticsAssumption, Zenon
  <2>3. UNCHANGED <<level, rate>>
    BY <1>1, Zenon DEF Worsen
  <2>4. wear' \in [Fields -> Nat] /\ \A g \in Fields : wear'[g] = IF g = f THEN n ELSE wear[g]
    BY <2>1, <2>2, Zenon DEF AInv
  <2>5. Worse(wear, wear')
    BY <2>1, <2>4 DEF Worse, AInv
  <2>6. wear'["offline"] \in 0..2
    BY <2>2, <2>4, Zenon DEF AInv, Fields
  <2>7. QED
    BY <2>3, <2>4, <2>5, <2>6, Zenon DEF AInv
<1>2. ASSUME NEW c \in Coins, Consume(c)
      PROVE  AInv' /\ Worse(wear, wear') /\ UNCHANGED rate
  <2>1. level' = [level EXCEPT ![c] = @ - 1] /\ level[c] > 0 /\ UNCHANGED <<wear, rate>>
    BY <1>2, Zenon DEF Consume
  <2>2. level' \in [Coins -> Nat]
    BY <2>1 DEF AInv
  <2>3. Worse(wear, wear')
    BY <2>1 DEF Worse, AInv
  <2>4. QED
    BY <2>1, <2>2, <2>3, Zenon DEF AInv
<1>3. CASE UNCHANGED avars
  BY <1>3 DEF avars, AInv, Worse
<1>4. QED
  BY <1>1, <1>2, <1>3, Zenon DEF ANext

(* The readings of a drawer are always values that it can report.          *)
LEMMA AnalyticsInvariant == ASpec => []AInv
<1>1. AInit => AInv
  <2> SUFFICES ASSUME AInit PROVE AInv
    BY Zenon
  <2>1. wear \in [Fields -> Nat] /\ wear["offline"] = 0
    BY Zenon DEF AInit, Fields
  <2>2. level \in [Coins -> Nat]
    BY AnalyticsAssumption, Zenon DEF AInit
  <2>3. rate \in [Coins -> Nat]
    BY AnalyticsAssumption, Zenon DEF AInit
  <2>4. QED
    BY <2>1, <2>2, <2>3 DEF AInv
<1>2. AInv /\ [ANext]_avars => AInv'
  BY AnalyticsStep, Zenon
<1>3. QED
  BY <1>1, <1>2, PTL DEF ASpec

(* Worse telemetry never improves the assessment of a drawer: the score,   *)
(* reasons, drivers, alerts and the priority of enrich.                    *)
THEOREM WearCosts == ASpec => WearNeverHelps
<1>1. ASSUME AInv, [ANext]_avars
      PROVE  [wear' # wear =>
                /\ score(wear') <= score(wear) /\ reasons(wear) \subseteq reasons(wear')
                /\ maintenance_priority(wear') >= maintenance_priority(wear)
                /\ drivers(wear) \subseteq drivers(wear')
                /\ \A f \in {"jams", "outages", "selftest", "firmware"} :
                     evaluate(wear')[f] >= evaluate(wear)[f]]_avars
  <2>1. AInv' /\ Worse(wear, wear') /\ UNCHANGED rate
    BY <1>1, AnalyticsStep, Zenon
  <2>2. QED
    BY <1>1, <2>1, AssessmentFalls, Zenon DEF AInv
<1>2. QED
  BY <1>1, AnalyticsInvariant, PTL DEF ASpec, WearNeverHelps

(* A critical maintenance priority names two drivers at least: no single   *)
(* counter, however bad, reaches it.                                       *)
THEOREM CriticalExplained == ASpec => []CriticalIsExplained
<1>1. AInv => CriticalIsExplained
  <2> SUFFICES ASSUME AInv, probability(wear) >= 4200
               PROVE  \E f, g \in drivers(wear) : f # g
    BY DEF CriticalIsExplained, maintenance_priority
  <2>0. /\ wear.motor \in Nat /\ wear.jams \in Nat /\ wear.drift \in Nat
        /\ wear.latency \in Nat /\ wear.downtime \in Nat
    BY DEF AInv, Fields
  <2>1. /\ wear.motor < 125 \/ "motor" \in drivers(wear)
        /\ wear.jams < 6 \/ "jams" \in drivers(wear)
        /\ wear.drift < 25 \/ "drift" \in drivers(wear)
        /\ wear.latency < 25 \/ "latency" \in drivers(wear)
        /\ wear.downtime < 20 \/ "downtime" \in drivers(wear)
    BY <2>0, SMTT(20) DEF drivers
  <2> DEFINE a == 6 * least(wear.motor, 250)
             b == 125 * least(wear.jams, 12)
             c == 24 * least(wear.drift, 50)
             d == 18 * least(wear.latency, 50)
             e == 9 * least(wear.downtime, 100)
  <2>2a. a \in Int /\ a <= 1500 /\ (wear.motor < 125 => a <= 744)
    BY <2>0 DEF least
  <2>2b. b \in Int /\ b <= 1500 /\ (wear.jams < 6 => b <= 625)
    BY <2>0 DEF least
  <2>2c. c \in Int /\ c <= 1200 /\ (wear.drift < 25 => c <= 576)
    BY <2>0 DEF least
  <2>2d. d \in Int /\ d <= 900 /\ (wear.latency < 25 => d <= 432)
    BY <2>0 DEF least
  <2>2e. e \in Int /\ e <= 900 /\ (wear.downtime < 20 => e <= 171)
    BY <2>0 DEF least
  <2>3. a + b + c + d + e >= 4200
    BY DEF probability
  <2> HIDE DEF a, b, c, d, e
  <2>i. a \in Int /\ b \in Int /\ c \in Int /\ d \in Int /\ e \in Int
    BY <2>2a, <2>2b, <2>2c, <2>2d, <2>2e, SMT
  <2>4a. ~(wear.jams < 6 /\ wear.drift < 25 /\ wear.latency < 25 /\ wear.downtime < 20)
    <3> SUFFICES ASSUME wear.jams < 6, wear.drift < 25, wear.latency < 25, wear.downtime < 20
                 PROVE  FALSE
      OBVIOUS
    <3>1. a <= 1500 /\ b <= 625 /\ c <= 576 /\ d <= 432 /\ e <= 171
      BY <2>2a, <2>2b, <2>2c, <2>2d, <2>2e, SMT
    <3>2. QED
      BY <2>3, <2>i, <3>1
  <2>4b. ~(wear.motor < 125 /\ wear.drift < 25 /\ wear.latency < 25 /\ wear.downtime < 20)
    <3> SUFFICES ASSUME wear.motor < 125, wear.drift < 25, wear.latency < 25, wear.downtime < 20
                 PROVE  FALSE
      OBVIOUS
    <3>1. a <= 744 /\ b <= 1500 /\ c <= 576 /\ d <= 432 /\ e <= 171
      BY <2>2a, <2>2b, <2>2c, <2>2d, <2>2e, SMT
    <3>2. QED
      BY <2>3, <2>i, <3>1
  <2>4c. ~(wear.motor < 125 /\ wear.jams < 6 /\ wear.latency < 25 /\ wear.downtime < 20)
    <3> SUFFICES ASSUME wear.motor < 125, wear.jams < 6, wear.latency < 25, wear.downtime < 20
                 PROVE  FALSE
      OBVIOUS
    <3>1. a <= 744 /\ b <= 625 /\ c <= 1200 /\ d <= 432 /\ e <= 171
      BY <2>2a, <2>2b, <2>2c, <2>2d, <2>2e, SMT
    <3>2. QED
      BY <2>3, <2>i, <3>1
  <2>4d. ~(wear.motor < 125 /\ wear.jams < 6 /\ wear.drift < 25 /\ wear.downtime < 20)
    <3> SUFFICES ASSUME wear.motor < 125, wear.jams < 6, wear.drift < 25, wear.downtime < 20
                 PROVE  FALSE
      OBVIOUS
    <3>1. a <= 744 /\ b <= 625 /\ c <= 576 /\ d <= 900 /\ e <= 171
      BY <2>2a, <2>2b, <2>2c, <2>2d, <2>2e, SMT
    <3>2. QED
      BY <2>3, <2>i, <3>1
  <2>4e. ~(wear.motor < 125 /\ wear.jams < 6 /\ wear.drift < 25 /\ wear.latency < 25)
    <3> SUFFICES ASSUME wear.motor < 125, wear.jams < 6, wear.drift < 25, wear.latency < 25
                 PROVE  FALSE
      OBVIOUS
    <3>1. a <= 744 /\ b <= 625 /\ c <= 576 /\ d <= 432 /\ e <= 900
      BY <2>2a, <2>2b, <2>2c, <2>2d, <2>2e, SMT
    <3>2. QED
      BY <2>3, <2>i, <3>1
  <2>5. QED
    BY <2>1, <2>4a, <2>4b, <2>4c, <2>4d, <2>4e
<1>2. QED
  BY <1>1, AnalyticsInvariant, PTL

(* Whatever runs out within a day is on the list of the forecast, and what *)
(* runs out within eight hours is there as an urgent refill.               *)
THEOREM StockAdvice == ASpec => []StockAlertHasAdvice
<1>1. AInv => StockAlertHasAdvice
  <2> SUFFICES ASSUME AInv
               PROVE  StockAlertHasAdvice
    BY Zenon
  <2> DEFINE urgent == {r \in refill_recommendations : r[1] = "refill"}
  <2>1. \A c \in Used : c \in Coins /\ level[c] \in Nat /\ rate[c] \in Nat
    BY Zenon DEF Used, AInv
  <2>2. ASSUME evaluate(wear).level = 2 PROVE urgent # {}
    <3>1. PICK c \in Used : RunsOutWithin(c, 8)
      BY <2>2 DEF evaluate
    <3>2. RunsOutWithin(c, 12)
      BY <2>1, <3>1 DEF RunsOutWithin
    <3>3. <<"refill", c>> \in refill_recommendations
      BY <3>2, Zenon DEF refill_recommendations
    <3>4. QED
      BY <3>3
  <2>3. ASSUME evaluate(wear).level = 1 PROVE refill_recommendations # {}
    <3>1. PICK c \in Used : RunsOutWithin(c, 24)
      BY <2>3 DEF evaluate
    <3>2. <<"refill", c>> \in refill_recommendations \/ <<"schedule", c>> \in refill_recommendations
      BY <3>1, Zenon DEF refill_recommendations
    <3>3. QED
      BY <3>2, Zenon
  <2>4. QED
    BY <2>2, <2>3, Zenon DEF StockAlertHasAdvice
<1>2. QED
  BY <1>1, AnalyticsInvariant, PTL

-----------------------------------------------------------------------------
(***************************************************************************)
(* The queue of telemetry, for any messages, limits, crashes and lost      *)
(* acknowledgements.  DueInv pays for the copies: a message at the broker  *)
(* that is still to be published is due, and each one became due by a      *)
(* crash or by an acknowledgement that was lost.  BytesInv follows bytes_  *)
(* while no update was lost: it counts the files but for the one that was  *)
(* just written, and is one below zero, which is Width - 1, when the flush *)
(* removes that one first.                                                 *)
(***************************************************************************)
(* Leaves are left to Zenon unless they name another prover.               *)
USE Zenon

Whole(m) == [msg |-> m, torn |-> "no"]
Queued(m) == \E i \in DOMAIN files : files[i] = Whole(m)
Writing == pub.at \in {"load", "store"}
Removing(i) == flush.at = "remove" /\ i = 1

Due == {m \in sent : \/ pub.at = "enqueue" /\ pub.msg = m
                     \/ \E i \in DOMAIN files : files[i] = Whole(m) /\ ~Removing(i)}

Pending == IF Writing THEN 1 ELSE 0
Counts(b) == bytes = IF b < 0 THEN Width - 1 ELSE b

QueueTypes ==
  /\ files \in Seq(Files) /\ bytes \in 0..Width - 1
  /\ pub \in [at : {"idle", "enqueue", "load", "store"}, msg : Messages \cup {NoMsg},
              seen : 0..Width - 1]
  /\ flush \in [at : {"idle", "remove"}, seen : 0..Width - 1]
  /\ accepted \subseteq Messages /\ refused \subseteq Messages /\ sent \subseteq Messages
  /\ again \in Nat /\ crashes \in Nat /\ unheard \in Nat /\ raced \in BOOLEAN
  /\ broker \in BOOLEAN /\ connected \in BOOLEAN /\ (connected => broker)

PubInv ==
  IF pub.at = "idle" THEN pub = PubIdle
  ELSE pub.msg \in Messages /\ pub.msg \notin accepted \cup refused

KeptInv ==
  /\ \A m \in accepted : m \in sent \/ Queued(m)
  /\ Writing => pub.msg \in sent \/ Queued(pub.msg)

RemoveInv ==
  flush.at = "remove" =>
    /\ files # <<>> /\ Head(files).torn # "header"
    /\ Head(files).torn = "no" => Head(files).msg \in sent

OwnInv ==
  /\ \A i, j \in DOMAIN files :
       files[i].torn = "no" /\ files[j].torn = "no" /\ files[i].msg = files[j].msg => i = j
  /\ \A i \in DOMAIN files : files[i].torn = "no" =>
       files[i].msg \in accepted \cup refused \/ (Writing /\ files[i].msg = pub.msg)
  /\ sent \subseteq accepted \cup refused \cup {pub.msg}

DueInv == IsFiniteSet(Due) /\ again + Cardinality(Due) <= crashes + unheard

BytesInv ==
  ~raced =>
    /\ Len(files) <= MaxBytes
    /\ \E b \in -1..MaxBytes : Counts(b) /\ Len(files) <= b + Pending /\ b + Pending <= MaxBytes

QueueInv == QueueTypes /\ PubInv /\ KeptInv /\ RemoveInv /\ OwnInv /\ DueInv /\ BytesInv

(* bytes_ below its width, and one up or down from there.                  *)
LEMMA Remainders ==
  ASSUME NEW k \in Nat, 1 < k, NEW a \in 0..k - 1
  PROVE  /\ a % k = a
         /\ (a + 1) % k = IF a = k - 1 THEN 0 ELSE a + 1
         /\ (a + k - 1) % k = IF a = 0 THEN k - 1 ELSE a - 1
<1>1. \A n, m \in Int : m > 0 => n % m \in 0..m - 1 /\ n = m * (n \div m) + (n % m) /\ n \div m \in Int
  BY SMTT(20)
<1>2. \A q \in Int, r \in 0..k - 1, b \in 0..k - 1 : b = k * q + r => q = 0
  BY SMTT(20)
<1>3. \A b \in 0..k - 1 : b % k = b
  BY <1>1, <1>2, SMTT(20)
<1> QED BY <1>1, <1>3, SMTT(20)

(* What a file written at the end leaves of the directory.                 *)
LEMMA AppendFile ==
  ASSUME files \in Seq(Files), NEW f \in Files, files' = Append(files, f)
  PROVE  /\ files' \in Seq(Files) /\ Len(files) \in Nat /\ Len(files') = Len(files) + 1
         /\ DOMAIN files = 1..Len(files) /\ DOMAIN files' = 1..Len(files) + 1
         /\ files'[Len(files) + 1] = f /\ \A i \in DOMAIN files : files'[i] = files[i]
         /\ Head(files') = IF files = <<>> THEN f ELSE Head(files)
BY SMTT(20)

(* What the removal of the first file leaves of it.                        *)
LEMMA TailFile ==
  ASSUME files \in Seq(Files), files # <<>>, files' = Tail(files)
  PROVE  /\ files' \in Seq(Files) /\ Len(files) \in Nat /\ Len(files) >= 1 /\ Len(files') = Len(files) - 1
         /\ Head(files) = files[1] /\ Head(files) \in Files
         /\ DOMAIN files = 1..Len(files) /\ DOMAIN files' = 1..Len(files) - 1
         /\ \A i \in DOMAIN files' : files'[i] = files[i + 1]
BY SMTT(20)

(* One more, no more, one less.                                            *)
LEMMA CountsOfDue ==
  ASSUME NEW S, IsFiniteSet(S), NEW T, NEW x
  PROVE  /\ Cardinality(S) \in Nat
         /\ T \subseteq S \cup {x} => IsFiniteSet(T) /\ Cardinality(T) \in Nat /\ Cardinality(T) <= Cardinality(S) + 1
         /\ T \subseteq S => IsFiniteSet(T) /\ Cardinality(T) \in Nat /\ Cardinality(T) <= Cardinality(S)
         /\ x \in S /\ T \subseteq S \ {x} =>
              IsFiniteSet(T) /\ Cardinality(T) \in Nat /\ Cardinality(T) + 1 <= Cardinality(S)
<1>1. Cardinality(S) \in Nat
  BY FS_CardinalityType
<1>2. ASSUME NEW U, IsFiniteSet(U), T \subseteq U
      PROVE  IsFiniteSet(T) /\ Cardinality(T) \in Nat /\ Cardinality(T) <= Cardinality(U) /\ Cardinality(U) \in Nat
  BY <1>2, FS_Subset, FS_CardinalityType
<1>3. IsFiniteSet(S \cup {x}) /\ Cardinality(S \cup {x}) <= Cardinality(S) + 1
  BY <1>1, FS_AddElement, SMTT(20)
<1>4. ASSUME x \in S PROVE IsFiniteSet(S \ {x}) /\ Cardinality(S \ {x}) = Cardinality(S) - 1
  BY <1>4, FS_RemoveElement
<1> QED BY <1>1, <1>2, <1>3, <1>4, SMTT(20)

(* What is due stays paid for when nothing becomes due.                    *)
LEMMA DueStays ==
  ASSUME DueInv, Due' \subseteq Due, UNCHANGED <<again, crashes, unheard>>,
         again \in Nat, crashes \in Nat, unheard \in Nat
  PROVE  DueInv'
<1>1. /\ IsFiniteSet(Due') /\ Cardinality(Due') \in Nat /\ Cardinality(Due') <= Cardinality(Due)
      /\ Cardinality(Due) \in Nat
  BY CountsOfDue DEF DueInv
<1> QED BY <1>1, SMTT(20) DEF DueInv

(* A crash or a lost acknowledgement pays for the message that it makes    *)
(* due.                                                                    *)
LEMMA DueGrows ==
  ASSUME DueInv, NEW x, Due' \subseteq Due \cup {x}, again \in Nat, crashes \in Nat, unheard \in Nat,
         again' = again, crashes' + unheard' = (crashes + unheard) + 1
  PROVE  DueInv'
<1>1. /\ IsFiniteSet(Due') /\ Cardinality(Due') \in Nat /\ Cardinality(Due') <= Cardinality(Due) + 1
      /\ Cardinality(Due) \in Nat
  BY CountsOfDue DEF DueInv
<1> QED BY <1>1, SMTT(20) DEF DueInv

(* A call of the publisher, to the broker or on to the queue.              *)
LEMMA PublishKeeps ==
  ASSUME QueueInv, NEW m \in Messages, NEW heard \in BOOLEAN, publish_txn(m, heard)
  PROVE  QueueInv'
<1>1. /\ pub = PubIdle /\ ~Writing /\ m \notin accepted \cup refused /\ m # NoMsg
      /\ UNCHANGED <<broker, connected, files, bytes, flush, refused, crashes, raced>>
  BY TelemetryAssumption DEF publish_txn, Writing, PubIdle
<1>2. m \notin sent /\ \A i \in DOMAIN files : files[i] # Whole(m)
  BY <1>1, TelemetryAssumption, SMTT(20) DEF QueueInv, OwnInv, Whole, PubIdle
<1>3. again' = again
  BY <1>2 DEF publish_txn, Published
<1>4. CASE heard
  <2>1. sent' = sent \cup {m} /\ accepted' = accepted \cup {m} /\ pub' = pub /\ unheard' = unheard
    BY <1>4 DEF publish_txn, Published, Unheard
  <2>2. Due' \subseteq Due
    BY <1>1, <1>2, <2>1 DEF Due, PubIdle, Removing
  <2>3. QueueTypes' /\ PubInv' /\ KeptInv' /\ RemoveInv' /\ OwnInv' /\ BytesInv'
    BY <1>1, <1>3, <2>1 DEF QueueInv, QueueTypes, PubInv, KeptInv, RemoveInv, OwnInv, BytesInv,
                         Queued, Writing, PubIdle, Pending, Counts
  <2> QED BY <1>1, <1>3, <2>1, <2>2, <2>3, DueStays DEF QueueInv, QueueTypes
<1>5. CASE ~heard
  <2>1. pub' = [pub EXCEPT !.at = "enqueue", !.msg = m] /\ accepted' = accepted
    BY <1>5 DEF publish_txn
  <2>2. pub'.at = "enqueue" /\ pub'.msg = m /\ pub'.seen = 0 /\ ~Writing'
    BY <1>1, <2>1 DEF PubIdle, Writing
  <2>3. \/ sent' = sent \cup {m} /\ unheard' = unheard + 1
        \/ sent' = sent /\ unheard' = unheard
    BY <1>5 DEF publish_txn, Published, Unheard
  <2>4. Due' \subseteq Due \cup {m} /\ (sent' = sent => Due' \subseteq Due)
    BY <1>1, <1>2, <2>2, <2>3 DEF Due, PubIdle, Removing
  <2>5. QueueTypes'
    <3>1. pub' \in [at : {"idle", "enqueue", "load", "store"}, msg : Messages \cup {NoMsg},
                    seen : 0..Width - 1]
      BY <2>1 DEF QueueInv, QueueTypes
    <3>2. sent' \subseteq Messages /\ unheard' \in Nat
      BY <2>3, SMTT(20) DEF QueueInv, QueueTypes
    <3> QED BY <1>1, <1>3, <2>1, <3>1, <3>2 DEF QueueInv, QueueTypes
  <2>6. PubInv' /\ KeptInv' /\ RemoveInv'
    BY <1>1, <2>1, <2>2, <2>3 DEF QueueInv, PubInv, KeptInv, RemoveInv, Queued
  <2>9. OwnInv'
    <3>1. sent' \subseteq (accepted \cup refused \cup {pub.msg})'
      <4>1. sent \subseteq accepted \cup refused
        <5>1. sent \subseteq accepted \cup refused \cup {NoMsg} /\ NoMsg \notin sent
          BY <1>1, TelemetryAssumption DEF QueueInv, QueueTypes, OwnInv, PubIdle
        <5> QED BY <5>1
      <4> QED BY <1>1, <2>1, <2>2, <2>3, <4>1
    <3> QED BY <1>1, <2>1, <2>2, <3>1 DEF QueueInv, OwnInv
  <2>7. BytesInv'
    BY <1>1, <2>2 DEF QueueInv, BytesInv, Pending, Counts
  <2>8. DueInv'
    <3>1. CASE sent' = sent /\ unheard' = unheard
      BY <1>1, <1>3, <2>4, <3>1, DueStays DEF QueueInv, QueueTypes
    <3>2. CASE unheard' = unheard + 1
      <4>1. crashes' + unheard' = (crashes + unheard) + 1
        BY <1>1, <3>2, SMTT(20) DEF QueueInv, QueueTypes
      <4> QED BY <1>3, <2>4, <4>1, DueGrows DEF QueueInv, QueueTypes
    <3> QED BY <2>3, <3>1, <3>2
  <2> QED BY <2>5, <2>6, <2>7, <2>8, <2>9 DEF QueueInv
<1> QED BY <1>4, <1>5

(* Writing of a file: a message that fits moves from the call to the       *)
(* directory, another one is refused.                                      *)
LEMMA EnqueueKeeps ==
  ASSUME QueueInv, enqueue
  PROVE  QueueInv'
<1>1. /\ pub.at = "enqueue" /\ pub.msg \in Messages /\ pub.msg \notin accepted \cup refused /\ ~Writing
      /\ UNCHANGED <<broker, connected, bytes, flush, accepted, sent, again, crashes, unheard, raced>>
  BY DEF enqueue, QueueInv, PubInv, Writing
<1>2. \A i \in DOMAIN files : files[i].torn = "no" => files[i].msg # pub.msg
  BY <1>1 DEF QueueInv, OwnInv
<1>3. CASE Fits
  <2>1. /\ files' = Append(files, Whole(pub.msg)) /\ pub' = [pub EXCEPT !.at = "load"]
        /\ refused' = refused
    BY <1>3 DEF enqueue, Whole
  <2>2. /\ pub'.at = "load" /\ pub'.msg = pub.msg /\ Writing'
        /\ pub' \in [at : {"idle", "enqueue", "load", "store"}, msg : Messages \cup {NoMsg},
                     seen : 0..Width - 1]
    BY <2>1 DEF Writing, QueueInv, QueueTypes
  <2>3. Whole(pub.msg) \in Files /\ Whole(pub.msg).msg = pub.msg /\ Whole(pub.msg).torn = "no"
    BY <1>1 DEF Whole, Files
  <2>4. /\ files' \in Seq(Files) /\ Len(files) \in Nat /\ Len(files') = Len(files) + 1
        /\ DOMAIN files = 1..Len(files) /\ DOMAIN files' = 1..Len(files) + 1
        /\ files'[Len(files) + 1] = Whole(pub.msg) /\ \A i \in DOMAIN files : files'[i] = files[i]
        /\ Head(files') = IF files = <<>> THEN Whole(pub.msg) ELSE Head(files)
    BY <2>1, <2>3, AppendFile DEF QueueInv, QueueTypes
  <2>5. QueueTypes'
    BY <1>1, <2>1, <2>2, <2>4 DEF QueueInv, QueueTypes
  <2>6. PubInv' /\ KeptInv'
    BY <1>1, <2>1, <2>2, <2>4, SMTT(20) DEF QueueInv, PubInv, KeptInv, Queued
  <2>7. RemoveInv'
    BY <1>1, <2>3, <2>4, SMTT(20) DEF QueueInv, RemoveInv
  <2>8. OwnInv'
    BY <1>1, <1>2, <2>1, <2>2, <2>3, <2>4, SMTT(20) DEF QueueInv, OwnInv
  <2>9. Due' \subseteq Due
    BY <1>1, <2>2, <2>3, <2>4, SMTT(20) DEF Due, Whole, Removing
  <2>10. BytesInv'
    <3>1. SUFFICES ASSUME ~raced PROVE BytesInv'
      BY <1>1 DEF BytesInv
    <3>2. PICK b \in -1..MaxBytes : Counts(b) /\ Len(files) <= b /\ b <= MaxBytes
      BY <1>1, <3>1, TelemetryAssumption, SMTT(20) DEF QueueInv, BytesInv, Pending
    <3>3. b >= 0 /\ bytes = b /\ b < Width - 1
      BY <2>4, <3>2, TelemetryAssumption, SMTT(20) DEF Counts
    <3>4. b + 1 <= MaxBytes
      BY <1>3, <3>3, Remainders, TelemetryAssumption, SMTT(20) DEF Fits
    <3>5. Counts(b)' /\ Len(files') <= b + 1 /\ Pending' = 1
      BY <1>1, <2>2, <2>4, <3>2, SMTT(20) DEF Counts, Pending
    <3> QED BY <2>4, <3>4, <3>5, TelemetryAssumption, SMTT(20) DEF BytesInv
  <2> QED BY <1>1, <2>5, <2>6, <2>7, <2>8, <2>9, <2>10, DueStays DEF QueueInv, QueueTypes
<1>4. CASE ~Fits
  <2>1. refused' = refused \cup {pub.msg} /\ pub' = PubIdle /\ files' = files /\ ~Writing'
    BY <1>4, SMTT(20) DEF enqueue, PubIdle, Writing
  <2>2. Due' \subseteq Due
    BY <1>1, <2>1 DEF Due, PubIdle, Removing
  <2>3. QueueTypes'
    BY <1>1, <2>1, TelemetryAssumption, SMTT(20) DEF QueueInv, QueueTypes, PubIdle
  <2>4. PubInv' /\ KeptInv' /\ RemoveInv' /\ OwnInv'
    BY <1>1, <2>1 DEF QueueInv, PubInv, KeptInv, RemoveInv, OwnInv, Queued, PubIdle
  <2>5. BytesInv'
    BY <1>1, <2>1 DEF QueueInv, BytesInv, Pending, Counts
  <2> QED BY <1>1, <2>2, <2>3, <2>4, <2>5, DueStays DEF QueueInv, QueueTypes
<1> QED BY <1>3, <1>4

(* bytes_ is loaded, then stored: the call ends and its message is the     *)
(* queue's.                                                                *)
LEMMA CountKeeps ==
  ASSUME QueueInv, CountLoad \/ CountStore
  PROVE  QueueInv'
<1>1. /\ Writing /\ pub.at # "idle" /\ pub.at # "enqueue"
      /\ pub.msg \in Messages /\ pub.msg \notin accepted \cup refused
      /\ UNCHANGED <<broker, connected, files, flush, refused, sent, again, crashes, unheard>>
  BY DEF CountLoad, CountStore, Writing, QueueInv, PubInv
<1>2. CASE CountLoad
  <2>1. pub' = [pub EXCEPT !.at = "store", !.seen = bytes] /\ UNCHANGED <<bytes, accepted, raced>>
    BY <1>2 DEF CountLoad
  <2>2. /\ pub'.at = "store" /\ pub'.msg = pub.msg /\ Writing'
        /\ pub' \in [at : {"idle", "enqueue", "load", "store"}, msg : Messages \cup {NoMsg},
                     seen : 0..Width - 1]
    BY <2>1 DEF Writing, QueueInv, QueueTypes
  <2>3. Due' \subseteq Due
    BY <1>1, <2>2 DEF Due, Removing
  <2>4. QueueTypes' /\ PubInv' /\ KeptInv' /\ RemoveInv'
    BY <1>1, <2>1, <2>2 DEF QueueInv, QueueTypes, PubInv, KeptInv, RemoveInv, Queued
  <2>5. OwnInv' /\ BytesInv'
    BY <1>1, <2>1, <2>2 DEF QueueInv, OwnInv, BytesInv, Pending, Counts
  <2> QED BY <1>1, <2>3, <2>4, <2>5, DueStays DEF QueueInv, QueueTypes
<1>3. CASE CountStore
  <2>1. /\ bytes' = (pub.seen + 1) % Width /\ raced' = (raced \/ bytes # pub.seen)
        /\ accepted' = accepted \cup {pub.msg} /\ pub' = PubIdle /\ ~Writing'
    BY <1>3 DEF CountStore, Writing, PubIdle
  <2>2. Due' \subseteq Due
    BY <1>1, <2>1 DEF Due, Removing, PubIdle
  <2>3. QueueTypes'
    <3>1. bytes' \in 0..Width - 1
      <4>1. pub.seen \in 0..Width - 1 /\ Width \in Nat /\ 1 < Width
        BY TelemetryAssumption, SMTT(20) DEF QueueInv, QueueTypes
      <4>2. (pub.seen + 1) % Width = IF pub.seen = Width - 1 THEN 0 ELSE pub.seen + 1
        BY <4>1, Remainders
      <4> QED BY <2>1, <4>1, <4>2, SMTT(20)
    <3>2. pub' \in [at : {"idle", "enqueue", "load", "store"}, msg : Messages \cup {NoMsg},
                    seen : 0..Width - 1]
      BY <2>1, TelemetryAssumption, SMTT(20) DEF PubIdle
    <3>3. raced' \in BOOLEAN
      BY <2>1, Zenon
    <3> QED BY <1>1, <2>1, <3>1, <3>2, <3>3 DEF QueueInv, QueueTypes
  <2>4. PubInv' /\ KeptInv' /\ RemoveInv'
    BY <1>1, <2>1 DEF QueueInv, PubInv, KeptInv, RemoveInv, Queued, PubIdle
  <2>6. OwnInv'
    BY <1>1, <2>1 DEF QueueInv, OwnInv
  <2>5. BytesInv'
    <3>1. SUFFICES ASSUME ~raced' PROVE BytesInv'
      BY DEF BytesInv
    <3>2. ~raced /\ bytes = pub.seen
      BY <2>1, <3>1, Zenon
    <3>3. PICK b \in -1..MaxBytes : Counts(b) /\ Len(files) <= b + 1 /\ b + 1 <= MaxBytes
      BY <1>1, <3>2, TelemetryAssumption DEF QueueInv, BytesInv, Pending
    <3>4. bytes' = b + 1
      <4>1. b + 1 < Width /\ Width \in Nat /\ 1 < Width /\ bytes \in 0..Width - 1
        BY <3>3, TelemetryAssumption, SMTT(20) DEF QueueInv, QueueTypes
      <4>2. bytes' = IF bytes = Width - 1 THEN 0 ELSE bytes + 1
        BY <2>1, <3>2, <4>1, Remainders
      <4> QED BY <3>3, <4>1, <4>2, SMTT(20) DEF Counts
    <3>5. b + 1 \in -1..MaxBytes /\ Counts(b + 1)' /\ Pending' = 0 /\ Len(files') <= (b + 1) + 0
      BY <1>1, <2>1, <3>3, <3>4, TelemetryAssumption, SMTT(20) DEF Counts, Pending
    <3>6. Len(files') <= MaxBytes
      BY <1>1, <3>2 DEF QueueInv, BytesInv
    <3> QED BY <3>3, <3>5, <3>6, SMTT(20) DEF BytesInv
  <2> QED BY <1>1, <2>2, <2>3, <2>4, <2>5, <2>6, DueStays DEF QueueInv, QueueTypes
<1> QED BY <1>2, <1>3

(* A publication of the first file.  What was due is due no more once its  *)
(* acknowledgement is heard; a lost one pays for another copy.             *)
LEMMA FlushKeeps ==
  ASSUME QueueInv, NEW heard \in BOOLEAN, FlushPublish(heard)
  PROVE  QueueInv'
<1>1. /\ flush = FlushIdle /\ files # <<>> /\ Head(files).torn # "header"
      /\ UNCHANGED <<broker, connected, files, bytes, pub, accepted, refused, crashes, raced>>
      /\ flush' = IF heard THEN [at |-> "remove", seen |-> bytes] ELSE flush
      /\ IF heard THEN unheard' = unheard ELSE unheard' = unheard + 1
  BY DEF FlushPublish, Unheard
<1>2. Head(files) = files[1] /\ 1 \in DOMAIN files /\ Head(files) \in Files
  BY <1>1, SMTT(20) DEF QueueInv, QueueTypes
<1>3. flush.at = "idle" /\ flush'.at = (IF heard THEN "remove" ELSE "idle")
  BY <1>1 DEF FlushIdle
<1>4. PICK h : h = Head(files).msg
  OBVIOUS
<1>5. h \in Messages /\ (Head(files).torn = "no" => files[1] = Whole(h))
  BY <1>2, <1>4 DEF Files, Whole
<1>6. CASE Head(files).torn = "no"
  <2>1. sent' = sent \cup {h} /\ again' = IF h \in sent THEN again + 1 ELSE again
    BY <1>4, <1>6 DEF FlushPublish, Published
  <2>2. /\ h \in accepted \cup refused \/ (Writing /\ h = pub.msg)
        /\ \A i \in DOMAIN files : files[i] = Whole(h) => i = 1
        /\ ~(pub.at = "enqueue" /\ pub.msg = h)
    BY <1>2, <1>4, <1>6, SMTT(20) DEF QueueInv, OwnInv, PubInv, Whole, Writing
  <2>3. QueueTypes'
    <3>1. flush' \in [at : {"idle", "remove"}, seen : 0..Width - 1] /\ unheard' \in Nat
      BY <1>1, SMTT(20) DEF QueueInv, QueueTypes
    <3>2. sent' \subseteq Messages /\ again' \in Nat
      BY <1>5, <2>1, SMTT(20) DEF QueueInv, QueueTypes
    <3> QED BY <1>1, <3>1, <3>2 DEF QueueInv, QueueTypes
  <2>4. PubInv' /\ KeptInv' /\ RemoveInv'
    BY <1>1, <1>4, <2>1 DEF QueueInv, PubInv, KeptInv, RemoveInv, Queued, Writing
  <2>5. OwnInv'
    BY <1>1, <2>1, <2>2 DEF QueueInv, OwnInv, Writing
  <2>6. BytesInv'
    BY <1>1 DEF QueueInv, BytesInv, Pending, Counts, Writing
  <2>7. DueInv'
    <3>1. CASE heard /\ h \notin sent
      <4>1. Due' \subseteq Due
        BY <1>1, <1>3, <2>1, <2>2, <3>1 DEF Due, Removing
      <4> QED BY <1>1, <2>1, <3>1, <4>1, DueStays DEF QueueInv, QueueTypes
    <3>2. CASE ~heard /\ h \notin sent
      <4>1. Due' \subseteq Due \cup {h}
        BY <1>1, <1>3, <2>1, <3>2 DEF Due, Removing
      <4>2. crashes' + unheard' = (crashes + unheard) + 1
        BY <1>1, <3>2, SMTT(20) DEF QueueInv, QueueTypes
      <4> QED BY <2>1, <3>2, <4>1, <4>2, DueGrows DEF QueueInv, QueueTypes
    <3>3. CASE heard /\ h \in sent
      <4>1. h \in Due /\ Due' \subseteq Due \ {h}
        BY <1>1, <1>2, <1>3, <1>5, <1>6, <2>1, <2>2, <3>3 DEF Due, Removing
      <4>2. /\ IsFiniteSet(Due') /\ Cardinality(Due') \in Nat /\ Cardinality(Due') + 1 <= Cardinality(Due)
            /\ Cardinality(Due) \in Nat
        BY <4>1, CountsOfDue DEF QueueInv, DueInv
      <4> QED BY <1>1, <2>1, <3>3, <4>2, SMTT(20) DEF QueueInv, QueueTypes, DueInv
    <3>4. CASE ~heard /\ h \in sent
      <4>1. Due' \subseteq Due
        BY <1>1, <1>3, <2>1, <3>4 DEF Due, Removing
      <4>2. /\ IsFiniteSet(Due') /\ Cardinality(Due') \in Nat /\ Cardinality(Due') <= Cardinality(Due)
            /\ Cardinality(Due) \in Nat
        BY <4>1, CountsOfDue DEF QueueInv, DueInv
      <4> QED BY <1>1, <2>1, <3>4, <4>2, SMTT(20) DEF QueueInv, QueueTypes, DueInv
    <3> QED BY <3>1, <3>2, <3>3, <3>4
  <2> QED BY <2>3, <2>4, <2>5, <2>6, <2>7 DEF QueueInv
<1>7. CASE Head(files).torn # "no"
  <2>1. UNCHANGED <<sent, again>> /\ (unheard' = unheard \/ unheard' = unheard + 1)
    BY <1>1, <1>7 DEF FlushPublish
  <2>2. Due' \subseteq Due
    BY <1>1, <1>3, <2>1 DEF Due, Removing
  <2>3. QueueTypes'
    <3>1. flush' \in [at : {"idle", "remove"}, seen : 0..Width - 1] /\ unheard' \in Nat
      BY <1>1, SMTT(20) DEF QueueInv, QueueTypes
    <3> QED BY <1>1, <2>1, <3>1 DEF QueueInv, QueueTypes
  <2>4. PubInv' /\ KeptInv' /\ RemoveInv' /\ OwnInv' /\ BytesInv'
    BY <1>1, <1>7, <2>1 DEF QueueInv, PubInv, KeptInv, RemoveInv, OwnInv, BytesInv,
                         Queued, Writing, Pending, Counts
  <2>5. DueInv'
    <3>1. /\ IsFiniteSet(Due') /\ Cardinality(Due') \in Nat /\ Cardinality(Due') <= Cardinality(Due)
          /\ Cardinality(Due) \in Nat
      BY <2>2, CountsOfDue DEF QueueInv, DueInv
    <3> QED BY <1>1, <2>1, <3>1, SMTT(20) DEF QueueInv, QueueTypes, DueInv
  <2> QED BY <2>3, <2>4, <2>5 DEF QueueInv
<1> QED BY <1>6, <1>7

(* The first file goes: one that cannot be read, or one that the broker    *)
(* has.                                                                    *)
LEMMA RemoveKeeps ==
  ASSUME QueueInv, DropTorn \/ FlushRemove
  PROVE  QueueInv'
<1>1. /\ files # <<>> /\ files' = Tail(files) /\ flush'.at = "idle"
      /\ UNCHANGED <<broker, connected, pub, accepted, refused, sent, again, crashes, unheard>>
  BY SMTT(20) DEF DropTorn, FlushRemove, QueueInv, RemoveInv, FlushIdle
<1>2. /\ files' \in Seq(Files) /\ Len(files) \in Nat /\ Len(files) >= 1 /\ Len(files') = Len(files) - 1
      /\ Head(files) = files[1] /\ DOMAIN files = 1..Len(files) /\ DOMAIN files' = 1..Len(files) - 1
      /\ \A i \in DOMAIN files' : files'[i] = files[i + 1]
  BY <1>1, TailFile DEF QueueInv, QueueTypes
<1>3. \A i \in DOMAIN files : i = 1 \/ (i - 1 \in DOMAIN files' /\ files'[i - 1] = files[i])
  BY <1>2, SMTT(20)
<1>4. /\ Head(files).torn = "no" => flush.at = "remove" /\ Head(files).msg \in sent
      /\ flush.at = "remove" \/ flush.at = "idle"
  BY DEF DropTorn, FlushRemove, QueueInv, QueueTypes, RemoveInv, FlushIdle
<1>5. Writing' = Writing
  BY <1>1 DEF Writing
<1>6. flush' \in [at : {"idle", "remove"}, seen : 0..Width - 1]
  BY TelemetryAssumption, SMTT(20) DEF DropTorn, FlushRemove, FlushIdle, QueueInv, QueueTypes
<1>7. KeptInv'
  <2>1. ASSUME NEW m, Queued(m), m \notin sent PROVE Queued(m)'
    <3>1. PICK i \in DOMAIN files : files[i] = Whole(m)
      BY <2>1 DEF Queued
    <3>2. i # 1
      BY <1>2, <1>4, <2>1, <3>1, SMTT(20) DEF Whole
    <3> QED BY <1>3, <3>1, <3>2 DEF Queued
  <2> QED BY <1>1, <1>5, <2>1 DEF QueueInv, KeptInv
<1>8. PubInv' /\ RemoveInv'
  BY <1>1 DEF QueueInv, PubInv, RemoveInv
<1>9. OwnInv'
  <2>1. \A i \in DOMAIN files' : i + 1 \in DOMAIN files /\ files'[i] = files[i + 1] /\ i \in Int
    BY <1>2, SMTT(20)
  <2>2. \A i, j \in DOMAIN files' :
          files'[i].torn = "no" /\ files'[j].torn = "no" /\ files'[i].msg = files'[j].msg => i + 1 = j + 1
    BY <2>1 DEF QueueInv, OwnInv
  <2>3. \A i \in DOMAIN files' : files'[i].torn = "no" =>
          files'[i].msg \in accepted \cup refused \/ (Writing /\ files'[i].msg = pub.msg)
    BY <2>1 DEF QueueInv, OwnInv
  <2>4. \A i, j \in DOMAIN files' :
          files'[i].torn = "no" /\ files'[j].torn = "no" /\ files'[i].msg = files'[j].msg => i = j
    BY <2>1, <2>2, SMTT(20)
  <2> QED BY <1>1, <1>5, <2>3, <2>4 DEF QueueInv, OwnInv
<1>10. DueInv'
  <2>1. \A i \in DOMAIN files' : i + 1 \in DOMAIN files /\ files'[i] = files[i + 1] /\ i + 1 # 1
    BY <1>2, SMTT(20)
  <2>2. Due' \subseteq Due
    BY <1>1, <2>1 DEF Due, Removing
  <2> QED BY <1>1, <2>2, DueStays DEF QueueInv, QueueTypes
<1>11. QueueTypes' /\ BytesInv'
  <2>1. CASE DropTorn
    <3>1. UNCHANGED <<bytes, raced>>
      BY <2>1 DEF DropTorn
    <3>2. QueueTypes'
      BY <1>1, <1>2, <1>6, <3>1 DEF QueueInv, QueueTypes
    <3>3. BytesInv'
      <4>1. SUFFICES ASSUME ~raced PROVE BytesInv'
        BY <3>1 DEF BytesInv
      <4>2. PICK b \in -1..MaxBytes : Counts(b) /\ Len(files) <= b + Pending /\ b + Pending <= MaxBytes
        BY <4>1 DEF QueueInv, BytesInv
      <4>3. Counts(b)' /\ Pending' = Pending /\ Pending \in Nat
        BY <1>5, <3>1, <4>2 DEF Counts, Pending
      <4>4. Len(files') <= b + Pending /\ Len(files') <= MaxBytes
        BY <1>2, <4>2, <4>3, TelemetryAssumption, SMTT(20)
      <4> QED BY <4>2, <4>3, <4>4 DEF BytesInv
    <3> QED BY <3>2, <3>3
  <2>2. CASE FlushRemove
    <3>1. bytes' = (flush.seen + Width - 1) % Width /\ raced' = (raced \/ bytes # flush.seen)
      BY <2>2 DEF FlushRemove
    <3>2. flush.seen \in 0..Width - 1 /\ Width \in Nat /\ 1 < Width /\ MaxBytes \in Nat /\ MaxBytes + 1 < Width
      BY TelemetryAssumption, SMTT(20) DEF QueueInv, QueueTypes
    <3>3. bytes' = IF flush.seen = 0 THEN Width - 1 ELSE flush.seen - 1
      BY <3>1, <3>2, Remainders
    <3>4. bytes' \in 0..Width - 1
      BY <3>2, <3>3, SMTT(20)
    <3>5. raced' \in BOOLEAN
      BY <3>1, Zenon
    <3>6. QueueTypes'
      BY <1>1, <1>2, <1>6, <3>4, <3>5 DEF QueueInv, QueueTypes
    <3>7. BytesInv'
      <4>1. SUFFICES ASSUME ~raced' PROVE BytesInv'
        BY DEF BytesInv
      <4>2. ~raced /\ bytes = flush.seen
        BY <3>1, <4>1, Zenon
      <4>3. PICK b \in -1..MaxBytes : Counts(b) /\ Len(files) <= b + Pending /\ b + Pending <= MaxBytes
        BY <4>2 DEF QueueInv, BytesInv
      <4>4. Pending' = Pending /\ Pending \in 0..1
        BY <1>5, SMTT(20) DEF Pending
      <4>5. b \in 0..MaxBytes /\ bytes = b
        BY <1>2, <3>2, <4>3, <4>4, SMTT(20) DEF Counts
      <4>6. bytes' = IF b - 1 < 0 THEN Width - 1 ELSE b - 1
        BY <3>2, <3>3, <4>2, <4>5, SMTT(20)
      <4>7. Counts(b - 1)'
        BY <4>6 DEF Counts
      <4>8. b - 1 \in -1..MaxBytes /\ Len(files') <= (b - 1) + Pending /\ (b - 1) + Pending <= MaxBytes
            /\ Len(files') <= MaxBytes
        BY <1>2, <3>2, <4>3, <4>4, <4>5, SMTT(20)
      <4> QED BY <4>4, <4>7, <4>8 DEF BytesInv
    <3> QED BY <3>6, <3>7
  <2> QED BY <2>1, <2>2
<1> QED BY <1>7, <1>8, <1>9, <1>10, <1>11 DEF QueueInv

(* A crash and the next start.  Only a file on its way out becomes due.    *)
LEMMA CrashKeeps ==
  ASSUME QueueInv, NEW torn \in {"no", "header", "payload"}, Crash(torn)
  PROVE  QueueInv'
<1>1. /\ crashes' = crashes + 1 /\ refused' = refused \cup ({pub.msg} \ {NoMsg})
      /\ bytes' = Len(files') % Width /\ connected' = broker /\ pub' = PubIdle /\ flush' = FlushIdle
      /\ raced' = (raced /\ Len(files') > MaxBytes) /\ UNCHANGED <<broker, accepted, sent, again, unheard>>
      /\ ~Writing' /\ pub'.at = "idle" /\ pub'.msg = NoMsg /\ flush'.at = "idle"
  BY DEF Crash, Writing, PubIdle, FlushIdle
<1>2. IF torn = "no" THEN files' = files
      ELSE /\ pub.at = "enqueue" /\ Fits /\ pub.msg \in Messages
           /\ files' = Append(files, [msg |-> pub.msg, torn |-> torn])
  BY DEF Crash, QueueInv, PubInv
<1>3. /\ files' \in Seq(Files) /\ Len(files) \in Nat /\ Len(files') \in Nat
      /\ \A i \in DOMAIN files : i \in DOMAIN files' /\ files'[i] = files[i]
      /\ \A i \in DOMAIN files' : files'[i].torn = "no" => i \in DOMAIN files
      /\ Len(files') = IF torn = "no" THEN Len(files) ELSE Len(files) + 1
  <2>1. CASE torn = "no"
    BY <1>2, <2>1, SMTT(20) DEF QueueInv, QueueTypes
  <2>2. CASE torn # "no"
    <3>1. PICK f : f = [msg |-> pub.msg, torn |-> torn]
      OBVIOUS
    <3>2. f \in Files /\ f.torn # "no" /\ files' = Append(files, f)
      BY <1>2, <2>2, <3>1 DEF Files
    <3>3. /\ files' \in Seq(Files) /\ Len(files) \in Nat /\ Len(files') = Len(files) + 1
          /\ DOMAIN files = 1..Len(files) /\ DOMAIN files' = 1..Len(files) + 1
          /\ files'[Len(files) + 1] = f /\ \A i \in DOMAIN files : files'[i] = files[i]
      BY <3>2, AppendFile DEF QueueInv, QueueTypes
    <3> QED BY <2>2, <3>2, <3>3, SMTT(20)
  <2> QED BY <2>1, <2>2
<1>4. Width \in Nat /\ 1 < Width /\ MaxBytes \in Nat /\ MaxBytes + 1 < Width /\ NoMsg \notin Messages
  BY TelemetryAssumption, SMTT(20)
<1>5. QueueTypes'
  <2>1. bytes' \in 0..Width - 1
    <3>1. \A n \in Nat : n % Width \in 0..Width - 1
      BY <1>4, SMTT(20)
    <3>2. Len(files') \in Nat
      BY <1>3, SMTT(20)
    <3> QED BY <1>1, <3>1, <3>2
  <2>2. pub' \in [at : {"idle", "enqueue", "load", "store"}, msg : Messages \cup {NoMsg},
                  seen : 0..Width - 1]
        /\ flush' \in [at : {"idle", "remove"}, seen : 0..Width - 1]
    BY <1>1, <1>4, SMTT(20) DEF PubIdle, FlushIdle
  <2>3. refused' \subseteq Messages /\ crashes' \in Nat
    BY <1>1, SMTT(20) DEF QueueInv, QueueTypes
  <2>4. raced' \in BOOLEAN
    BY <1>1, Zenon
  <2> QED BY <1>1, <1>3, <2>1, <2>2, <2>3, <2>4 DEF QueueInv, QueueTypes
<1>6. PubInv' /\ RemoveInv'
  BY <1>1 DEF PubInv, RemoveInv, PubIdle
<1>7. KeptInv'
  BY <1>1, <1>3 DEF QueueInv, KeptInv, Queued
<1>8. OwnInv'
  <2>1. pub.msg # NoMsg => pub.msg \in refused'
    BY <1>1
  <2>2. Writing => pub.msg # NoMsg
    BY <1>4 DEF QueueInv, PubInv, Writing
  <2>3. sent' \subseteq (accepted \cup refused \cup {pub.msg})'
    BY <1>1, <2>1 DEF QueueInv, OwnInv
  <2>4. \A i \in DOMAIN files' : files'[i].torn = "no" => files'[i].msg \in (accepted \cup refused)'
    <3> SUFFICES ASSUME NEW i \in DOMAIN files', files'[i].torn = "no"
                 PROVE  files'[i].msg \in (accepted \cup refused)'
      OBVIOUS
    <3>1. i \in DOMAIN files /\ files[i] = files'[i]
      BY <1>3
    <3>2. files[i].msg \in accepted \cup refused \/ (Writing /\ files[i].msg = pub.msg)
      BY <3>1 DEF QueueInv, OwnInv
    <3> QED BY <1>1, <2>1, <2>2, <3>1, <3>2
  <2>5. \A i, j \in DOMAIN files' :
          files'[i].torn = "no" /\ files'[j].torn = "no" /\ files'[i].msg = files'[j].msg => i = j
    BY <1>3 DEF QueueInv, OwnInv
  <2> QED BY <2>3, <2>4, <2>5 DEF OwnInv
<1>9. DueInv'
  <2>1. PICK x : x = files[1].msg
    OBVIOUS
  <2>2. Due' \subseteq Due \cup {x}
    BY <1>1, <1>3, <2>1, SMTT(20) DEF Due, Removing, Whole
  <2>3. crashes' + unheard' = (crashes + unheard) + 1
    BY <1>1, SMTT(20) DEF QueueInv, QueueTypes
  <2> QED BY <1>1, <2>2, <2>3, DueGrows DEF QueueInv, QueueTypes
<1>10. BytesInv'
  <2>1. SUFFICES ASSUME ~raced' PROVE BytesInv'
    BY DEF BytesInv
  <2>2. Len(files') <= MaxBytes
    <3>1. CASE raced
      <4>1. ~(Len(files') > MaxBytes)
        BY <1>1, <2>1, <3>1, Zenon
      <4> QED BY <1>3, <1>4, <4>1, SMTT(20)
    <3>2. CASE ~raced /\ torn = "no"
      BY <1>2, <3>2 DEF QueueInv, BytesInv
    <3>3. CASE ~raced /\ torn # "no"
      <4>1. pub.at = "enqueue" /\ Pending = 0 /\ Fits
        BY <1>2, <3>3 DEF Pending, Writing
      <4>2. PICK b \in -1..MaxBytes : Counts(b) /\ Len(files) <= b + 0 /\ b + 0 <= MaxBytes
        BY <3>3, <4>1 DEF QueueInv, BytesInv
      <4>3. b \in 0..Width - 1 /\ b # Width - 1 /\ bytes = b
        BY <1>3, <1>4, <4>2, SMTT(20) DEF Counts
      <4>4. b + 1 <= MaxBytes
        BY <1>4, <4>1, <4>3, Remainders DEF Fits
      <4>5. Len(files') = Len(files) + 1
        BY <1>3, <3>3
      <4> QED BY <1>3, <1>4, <4>2, <4>4, <4>5, SMTT(20)
    <3> QED BY <3>1, <3>2, <3>3
  <2>3. bytes' = Len(files') /\ Len(files') \in -1..MaxBytes
    <3>1. Len(files') \in 0..Width - 1
      BY <1>3, <1>4, <2>2, SMTT(20)
    <3>2. \A a \in 0..Width - 1 : a % Width = a
      BY <1>4, Remainders
    <3>3. bytes' = Len(files')
      BY <1>1, <3>1, <3>2, Zenon
    <3> QED BY <1>3, <1>4, <2>2, <3>3, SMTT(20)
  <2>4. Pending' = 0
    BY <1>1 DEF Pending
  <2>5. \E b \in -1..MaxBytes : Counts(b)' /\ Len(files') <= b + Pending' /\ b + Pending' <= MaxBytes
    BY <1>3, <1>4, <2>2, <2>3, <2>4, SMTT(20) DEF Counts
  <2> QED BY <2>2, <2>5 DEF BytesInv
<1> QED BY <1>5, <1>6, <1>7, <1>8, <1>9, <1>10 DEF QueueInv

(* Every step of publisher, background thread, network and crashes keeps   *)
(* the invariant of the queue.                                             *)
LEMMA QueueStep ==
  ASSUME QueueInv, [QNext]_qvars
  PROVE  QueueInv'
<1>1. ASSUME UNCHANGED <<files, bytes, pub, flush, accepted, refused, sent, again, crashes, unheard, raced>>,
             broker' \in BOOLEAN, connected' \in BOOLEAN, connected' => broker'
      PROVE  QueueInv'
  <2>1. QueueTypes' /\ PubInv' /\ KeptInv' /\ RemoveInv' /\ OwnInv' /\ BytesInv'
    BY <1>1 DEF QueueInv, QueueTypes, PubInv, KeptInv, RemoveInv, OwnInv, BytesInv,
                         Queued, Writing, Pending, Counts
  <2>2. Due' = Due
    BY <1>1 DEF Due, Removing
  <2> QED BY <1>1, <2>1, <2>2, Zenon DEF QueueInv, DueInv
<1>2. ASSUME NEW up \in BOOLEAN, Network(up) PROVE QueueInv'
  BY <1>1, <1>2, Zenon DEF Network, QueueInv, QueueTypes
<1>3. CASE Connect
  BY <1>1, <1>3, Zenon DEF Connect, QueueInv, QueueTypes
<1>4. CASE UNCHANGED qvars
  BY <1>1, <1>4, Zenon DEF qvars, QueueInv, QueueTypes
<1>5. ASSUME NEW m \in Messages, NEW heard \in BOOLEAN, NEW delta, on_shadow_delta_(delta, m, heard)
      PROVE  QueueInv'
  BY <1>5, PublishKeeps, Zenon DEF on_shadow_delta_
<1>6. CASE bg_flush_loop_
  BY <1>3, <1>6, RemoveKeeps, FlushKeeps, Zenon DEF bg_flush_loop_, try_flush
<1> QED
  BY <1>2, <1>4, <1>5, <1>6, PublishKeeps, EnqueueKeeps, CountKeeps, CrashKeeps, Zenon DEF QNext

(* The queue is well-formed, and a message in a call is not yet decided.   *)
LEMMA QueueInvariant == QSpec => []QueueInv
<1>1. QInit => QueueInv
  <2> SUFFICES ASSUME QInit PROVE QueueInv
    OBVIOUS
  <2>1. QueueTypes
    <3>1. /\ PubIdle \in [at : {"idle", "enqueue", "load", "store"}, msg : Messages \cup {NoMsg},
                          seen : 0..Width - 1]
          /\ FlushIdle \in [at : {"idle", "remove"}, seen : 0..Width - 1] /\ 0 \in 0..Width - 1
      BY TelemetryAssumption, SMTT(20) DEF PubIdle, FlushIdle
    <3>2. connected \in BOOLEAN /\ (connected => broker) /\ broker \in BOOLEAN
      BY Zenon DEF QInit
    <3>3. <<>> \in Seq(Files) /\ 0 \in Nat
      BY SMTT(20)
    <3> QED BY <3>1, <3>2, <3>3, Zenon DEF QInit, QueueTypes
  <2>6. PubInv /\ KeptInv /\ RemoveInv /\ OwnInv
    BY SMTT(20) DEF QInit, PubInv, KeptInv, RemoveInv, OwnInv, PubIdle, FlushIdle, Writing
  <2>2. Due = {} /\ IsFiniteSet({}) /\ Cardinality({}) = 0
    BY FS_EmptySet DEF QInit, Due
  <2>3. DueInv
    BY <2>2, SMTT(20) DEF QInit, DueInv
  <2>4. Counts(0) /\ Pending = 0 /\ Len(files) = 0
    BY SMTT(20) DEF QInit, Counts, Pending, Writing, PubIdle
  <2>5. BytesInv
    BY <2>4, TelemetryAssumption, SMTT(20) DEF BytesInv
  <2> QED BY <2>1, <2>3, <2>5, <2>6 DEF QueueInv
<1> QED BY <1>1, QueueStep, PTL DEF QSpec

(* An accepted message is at the broker or whole on the disk, copies are   *)
(* paid for by crashes and lost acknowledgements, and the directory keeps  *)
(* its limit while no update of bytes_ was lost: for any number of         *)
(* messages and any limit below the width of bytes_.                       *)
THEOREM QueueHolds == QSpec => []QueueIsSound
<1>1. QueueInv => QueueIsSound
  <2> SUFFICES ASSUME QueueInv PROVE QueueIsSound
    OBVIOUS
  <2>1. Cardinality(Due) \in Nat
    BY CountsOfDue DEF QueueInv, DueInv
  <2>2. again <= crashes + unheard
    BY <2>1, SMTT(20) DEF QueueInv, QueueTypes, DueInv
  <2> QED BY <2>2, Zenon DEF QueueInv, KeptInv, Queued, Whole, BytesInv, QueueIsSound
<1> QED BY <1>1, QueueInvariant, PTL
=============================================================================
