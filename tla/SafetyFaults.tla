---------------------------- MODULE SafetyFaults ----------------------------
(***************************************************************************)
(* The faults of the drawer (safety/faults.cpp), the compliance modes that *)
(* raise one (compliance/compliance_mode.cpp) and the service mode that    *)
(* they block (app/service_mode.cpp, app/jam_clear.cpp), beside the        *)
(* shutter of ShutterMotion.                                               *)
(*                                                                         *)
(* The poller samples its three lines, then raises or clears one fault per *)
(* line; it looks for edges, so it keeps the previous sample.  The jam     *)
(* faults are raised by program logic outside src/.                        *)
(***************************************************************************)
EXTENDS ShutterMotion, Sequences

VARIABLES
  line,      \* inputs that are asserted now
  sample,    \* e, l, o of poll_thread
  prev,      \* est_prev, lid_prev, oc_prev
  todo,      \* lines of this round not handled yet, in the order of the code
  faults,    \* keys of faults_
  mode,      \* g_mode
  service,   \* active_ of ServiceMode
  granted    \* a service command whose guard has passed

fvars == <<line, sample, prev, todo, faults, mode, service, granted>>

LineOrder == <<"ESTOP", "LID_TAMPER", "OVERCURRENT">>
Lines == {LineOrder[i] : i \in 1..3}
Jams == {"JAM_SHUTTER", "JAM_HOPPER"}
Modes == {"NONE", "EMI_WORST", "EMI_IDLE", "ESD_SAFE"}

(* The lines, samples and faults are sets of fault codes.                  *)
SfTypeOK ==
  /\ line \subseteq Lines /\ sample \subseteq Lines /\ prev \subseteq Lines
  /\ todo \in 0..3 /\ faults \subseteq Lines \cup Jams
  /\ mode \in Modes /\ service \in BOOLEAN /\ granted \in {"none", "open", "close", "dispense"}

SfInit ==
  /\ line = {} /\ sample = {} /\ prev = {} /\ todo = 0 /\ faults = {}
  /\ mode = "NONE" /\ service = FALSE /\ granted = "none"

safety_blocking == faults \cap Lines # {}
check_and_block_motion == faults = {}
-----------------------------------------------------------------------------
(* The world. *)
Toggle(l) ==
  /\ line' = IF l \in line THEN line \ {l} ELSE line \cup {l}
  /\ UNCHANGED <<sample, prev, todo, faults, mode, service, granted, svars>>

\* Bug: the previous sample is taken after the lines were read.
ReadLinesLate ==
  /\ todo = 0 /\ todo' = 3
  /\ sample' = line
  /\ prev' = line
  /\ UNCHANGED <<line, faults, mode, service, granted, svars>>

ReadLines ==
  /\ todo = 0 /\ todo' = 3
  /\ sample' = line
  /\ prev' = sample
  /\ UNCHANGED <<line, faults, mode, service, granted, svars>>

(* raise on a rising edge, clear on a falling one, line by line. *)
HandleLine ==
  /\ todo > 0 /\ todo' = todo - 1
  /\ LET l == LineOrder[4 - todo]
     IN faults' = IF l \in sample \ prev THEN faults \cup {l}
                  ELSE IF l \in prev \ sample THEN faults \ {l} ELSE faults
  /\ UNCHANGED <<line, sample, prev, mode, service, granted, svars>>

poll_thread == ReadLines \/ HandleLine

raise(c) ==
  /\ faults' = faults \cup {c}
  /\ UNCHANGED <<line, sample, prev, todo, mode, service, granted, svars>>

set_mode(m) ==
  /\ mode' = m
  /\ faults' = IF m = "ESD_SAFE" THEN faults \cup {"ESTOP"} ELSE faults
  /\ UNCHANGED <<line, sample, prev, todo, service, granted, svars>>
-----------------------------------------------------------------------------
(* The service technician; the pin is right or enter changes nothing. *)
enter ==
  /\ ~service /\ service' = TRUE
  /\ UNCHANGED <<line, sample, prev, todo, faults, mode, granted, svars>>

exit ==
  /\ granted = "none" /\ service /\ service' = FALSE
  /\ UNCHANGED <<line, sample, prev, todo, faults, mode, granted, svars>>

guard == service /\ ~safety_blocking

(* cmd_open_shutter, cmd_close_shutter and cmd_dispense: the guard takes   *)
(* the mutex of the faults, the command that follows does not.             *)
ServiceGuard(c) ==
  /\ guard /\ granted = "none" /\ move = NoMove /\ moves < MaxMoves /\ granted' = c
  /\ UNCHANGED <<line, sample, prev, todo, faults, mode, service, svars>>

ServiceCommand(n) ==
  /\ granted' = "none"
  /\ \/ granted = "open" /\ open_mm(n)
     \/ granted = "close" /\ close_mm(n)
     \/ granted = "dispense" /\ UNCHANGED svars
  /\ UNCHANGED <<line, sample, prev, todo, faults, mode, service>>

run_jam_clear(c) ==
  /\ guard /\ granted = "none" /\ faults' = faults \ {c}
  /\ UNCHANGED <<line, sample, prev, todo, mode, service, granted, svars>>

Shutting == (home \/ waitFor) /\ UNCHANGED fvars

SfNext ==
  \/ \E l \in Lines : Toggle(l)
  \/ poll_thread
  \/ \E c \in Jams : raise(c) \/ run_jam_clear(c)
  \/ \E m \in Modes : set_mode(m)
  \/ enter \/ exit
  \/ \E c \in {"open", "close", "dispense"} : ServiceGuard(c)
  \/ \E n \in Distances : ServiceCommand(n)
  \/ Shutting
-----------------------------------------------------------------------------
(***************************************************************************)
(* Properties.                                                             *)
(***************************************************************************)
(* Between two rounds of the poller the blocking faults are those of the   *)
(* last sample; only the emergency stop of ESD_SAFE may be there besides.  *)
FaultsMatchSample ==
  todo = 0 => /\ sample \subseteq faults
               /\ faults \cap Lines \subseteq sample \cup {"ESTOP"}

(* An emergency stop that is held is noticed, and a lid that stays shut is *)
(* forgotten, whatever happens between two samples of the poller.          *)
LineIsNoticed ==
  /\ "ESTOP" \in line ~> ("ESTOP" \in faults \/ "ESTOP" \notin line)
  /\ "LID_TAMPER" \notin line ~> ("LID_TAMPER" \notin faults \/ "LID_TAMPER" \in line)
=============================================================================
