------------------------------ MODULE MCDevice ------------------------------
(***************************************************************************)
(* The programs around the transaction engine on one drawer: the hopper,   *)
(* the shutter and its safety loop, change in several denominations, the   *)
(* factory tests, telemetry, the device twin, enrolment, updates and the   *)
(* start.  They share no state, so each initial state picks one of them    *)
(* and the workloads add up instead of multiplying.                        *)
(***************************************************************************)
EXTENDS DispenseController, TwinSync, DeviceIdentity, TwinAnalytics, SafetyFaults,
        Payout, FactoryTest, Telemetry, OtaUpdate, Startup, FiniteSetsExt

VARIABLES
  work,   \* what runs
  drops   \* crashes of the drawer in the replay of the twin queue

CONSTANTS s1, s2

mdvars == <<dvars, tvars, ivars, xvars, avars, svars, fvars, pvars, wvars, qvars, ovars, uvars,
            work, drops>>

MCLadder ==
  [jams |-> {6, 10, 12}, failures |-> {4}, drift |-> {10, 50}, selftest |-> {2}, outages |-> {3},
   depletions |-> {3}, downtime |-> {20, 100}, motor |-> {130, 250}, latency |-> {50},
   offline |-> {1, 2}, firmware |-> {1}]

MCBills == {<<101, 199>>, <<100, 130>>, <<95, 140>>, <<5, 2>>}

Manifest(c, v, p, revoked, intact, min) ==
  [channel |-> c, version |-> v, percent |-> p, revoked |-> revoked, intact |-> intact, min |-> min]
MCCatalogue ==
  {Manifest("pilot", 1, 100, FALSE, TRUE, 0), Manifest("stable", 2, 120, FALSE, TRUE, 0),
   Manifest("stable", 2, 50, FALSE, TRUE, 0), Manifest("stable", 1, 100, TRUE, TRUE, 0),
   Manifest("stable", 1, 100, FALSE, FALSE, 0), Manifest("stable", 2, 51, FALSE, TRUE, 1),
   Manifest("beta", 2, -1, FALSE, TRUE, 1)}

(* Each key of the schema with each value, alone and beside a wrong key;   *)
(* up to three options of the command line with and without a POS.         *)
Entry(s, k, v) == [section |-> s, key |-> k, value |-> v]
Torn == {Entry("io", "torn", "text")}
WrongKey == Entry("pos", "prot", "one")
NoPos == Entry("pos", "enable_http", "zero")
Entries == UNION {{Entry(s, k, v) : k \in DOMAIN Schema(s) \cup {"x"}, v \in Values} : s \in Sections}
Options == {"selftest", "demo-shutter", "api", "tui", "pos-http", "purchase", "deposit", "dispense",
            "compliance-mode", "prescan-cycle", "service", "with-scale", "garbled"}
Bare == [sub |-> "", given |-> {}]
MCUnreadable == {Torn}
MCStarts ==
  [args : {Bare}, file : {{}, Torn, {Entry("nowhere", "x", "one")}}
                           \cup {{e} : e \in Entries} \cup {{e, WrongKey} : e \in Entries}]
    \cup [args : [sub : {"", "api", "dispense"}, given : kSubset(2, Options) \cup kSubset(3, Options)],
          file : {{}, {NoPos}}]

Works == {"dispense", "replay", "race", "enrol", "cert", "wear", "stock", "motion", "faults",
          "payout", "factory", "telemetry", "ota", "start"}

MCInit ==
  /\ work \in Works /\ drops = 0
  /\ DInit /\ TwInit /\ IdInit /\ SfInit /\ OInit
  /\ AInit /\ (work # "stock" => rate = [c \in Coins |-> 0])
  /\ ShInit /\ (work # "motion" => plate = 1 /\ broken = {})
  /\ IF work = "payout" THEN PInit /\ (attached # DOMAIN counts => counts = [d \in Denoms |-> 5])
     ELSE /\ counts = [d \in Denoms |-> 5] /\ attached = Denoms
          /\ PInit
  /\ WInit /\ (work # "factory" => scale)
  /\ QInit /\ (work # "telemetry" => broker)
  /\ IF work = "start" THEN UInit ELSE args = Bare /\ file = {} /\ UInit

Submitting == IF work = "race" THEN {s1, s2} ELSE {s1}
TwinWork ==
  \/ /\ UNCHANGED drops
     /\ \/ \E s \in Submitting :
             \/ submit_update(s) /\ (work = "race" => twin.rev < 2)
             \/ push_now(s) \/ push_twin(s) \/ StoreTwin(s)
             \/ \E reached \in BOOLEAN : is_device_disabled(s, reached)
        \/ FlushSteps
        \/ \E m \in wire, heard \in BOOLEAN : PostTwin(m, heard)
        \/ \E t \in Submitting \cup {Flusher}, lapsed \in BOOLEAN :
             (lapsed \/ \A m \in wire : ~m.late) /\ TimeOut(t, lapsed)
        \/ work = "race" /\ disable_device
  \/ /\ work = "replay" /\ drops = 0 /\ drops' = 1
     /\ \E queueTorn, twinTorn \in BOOLEAN : ~(queueTorn /\ twinTorn) /\ DrawerCrash(queueTorn, twinTorn)

(* Certificates are added as good ones and withdrawn later. *)
CertWork ==
  \/ \E c \in Certs : PromoteExpire(c) \/ PromoteActivate(c)
  \/ \E c \in Certs, s \in {"active", "revoked"} : mark_state(c, s)
  \/ \E c \in Certs, d \in Drawers, s \in {"active", "pending"}, from \in Certs \cup {"none"} :
       (d = "d2" => c = "c3") /\ upsert(c, d, s, from)
  \/ CertCrash

(* Two of the three safety lines change, around one service command. *)
FaultWork ==
  \/ \E l \in {"ESTOP", "LID_TAMPER"} : Toggle(l)
  \/ poll_thread
  \/ raise("JAM_SHUTTER") \/ run_jam_clear("JAM_SHUTTER")
  \/ \E m \in {"NONE", "ESD_SAFE"} : set_mode(m)
  \/ enter \/ exit
  \/ \E c \in {"open", "close", "dispense"} : moves = 0 /\ ServiceGuard(c)
  \/ ServiceCommand(2)
  \/ waitFor /\ UNCHANGED fvars

MCNext ==
  /\ UNCHANGED work
  /\ \/ /\ work = "dispense" /\ DNext
        /\ UNCHANGED <<tvars, ivars, xvars, avars, svars, fvars, pvars, wvars, qvars, ovars, uvars, drops>>
     \/ /\ work \in {"replay", "race"} /\ TwinWork
        /\ UNCHANGED <<dvars, ivars, xvars, avars, svars, fvars, pvars, wvars, qvars, ovars, uvars>>
     \/ /\ (work = "enrol" /\ EnrolmentNext) \/ (work = "cert" /\ CertWork)
        /\ UNCHANGED <<dvars, tvars, avars, svars, fvars, pvars, wvars, qvars, ovars, uvars, drops>>
     \/ /\ work \in {"wear", "stock"} /\ ANext /\ (work = "stock" => UNCHANGED wear)
        /\ UNCHANGED <<dvars, tvars, ivars, xvars, svars, fvars, pvars, wvars, qvars, ovars, uvars, drops>>
     \/ /\ work = "motion" /\ ShNext /\ UNCHANGED fvars
        /\ UNCHANGED <<dvars, tvars, ivars, xvars, avars, pvars, wvars, qvars, ovars, uvars, drops>>
     \/ /\ work = "faults" /\ FaultWork
        /\ UNCHANGED <<dvars, tvars, ivars, xvars, avars, pvars, wvars, qvars, ovars, uvars, drops>>
     \/ /\ work = "payout" /\ PNext
        /\ UNCHANGED <<dvars, tvars, ivars, xvars, avars, svars, fvars, wvars, qvars, ovars, uvars, drops>>
     \/ /\ work = "factory" /\ WNext
        /\ UNCHANGED <<dvars, tvars, ivars, xvars, avars, svars, fvars, pvars, qvars, ovars, uvars, drops>>
     \/ /\ work = "telemetry" /\ QNext
        /\ UNCHANGED <<dvars, tvars, ivars, xvars, avars, svars, fvars, pvars, wvars, ovars, uvars, drops>>
     \/ /\ work = "ota" /\ ONext
        /\ UNCHANGED <<dvars, tvars, ivars, xvars, avars, svars, fvars, pvars, wvars, qvars, uvars, drops>>
     \/ /\ work = "start" /\ UNext
        /\ UNCHANGED <<dvars, tvars, ivars, xvars, avars, svars, fvars, pvars, wvars, qvars, ovars, drops>>

(* The fairness of each part, as its module states it. *)
MCFairness ==
  /\ WF_dvars(work = "dispense" /\ Control)
  /\ WF_svars(work \in {"motion", "faults"} /\ waitFor)
  /\ WF_<<fvars, svars>>(work = "faults" /\ poll_thread)
  /\ WF_qvars(work = "telemetry" /\ (Connect \/ try_flush))
  /\ WF_ovars(work = "ota" /\ \E ok \in BOOLEAN : HealthCheck(ok))
  /\ WF_ovars(work = "ota" /\ DaemonSave) /\ WF_ovars(work = "ota" /\ AgentSave)

(* The type invariants of the parts.                                       *)
DeviceTypeOK ==
  /\ DTypeOK /\ TwTypeOK /\ IdTypeOK /\ ATypeOK /\ ShTypeOK /\ SfTypeOK /\ PTypeOK /\ WTypeOK
  /\ QTypeOK /\ OTypeOK /\ UTypeOK

(* Every blocking call to the mechanics returns: dispenseCoins, and home,  *)
(* open and close of the shutter, whatever jams or switch is broken.       *)
BlockingCallsReturn == CallReturns /\ MoveEnds

MCSpec == MCInit /\ [][MCNext]_mdvars /\ MCFairness
=============================================================================
