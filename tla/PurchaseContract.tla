-------------------------- MODULE PurchaseContract --------------------------
(***************************************************************************)
(* What TxnEngine promises to its callers, without journal, hopper or      *)
(* shutter: one purchase at a time is open; only an open purchase is given *)
(* coins; it is settled once, as done only if it was given what it is      *)
(* owed; and an engine that restarts takes the open purchase up again.     *)
(***************************************************************************)
EXTENDS Naturals

CONSTANT MaxOwed

VARIABLES
  est,      \* "off", "idle" or "busy"
  id,       \* number of the latest purchase
  owes,     \* its quarters
  given,    \* coins given for it
  verdict   \* "none", "open", "done" or "void"

cvars == <<est, id, owes, given, verdict>>

CInit ==
  /\ est = "off"
  /\ id = 0
  /\ owes = 0
  /\ given = 0
  /\ verdict = "none"

Begin(q) ==
  /\ est = "idle"
  /\ est' = "busy"
  /\ id' = id + 1
  /\ owes' = q
  /\ given' = 0
  /\ verdict' = "open"

\* A motor left running by a crash gives coins although the engine is off.
Give ==
  /\ est # "idle"
  /\ verdict = "open"
  /\ given' = given + 1
  /\ UNCHANGED <<est, id, owes, verdict>>

Settle(v) ==
  /\ est = "busy"
  /\ verdict = "open"
  /\ v = "done" => given >= owes
  /\ verdict' = v
  /\ UNCHANGED <<est, id, owes, given>>

Answer ==
  /\ est = "busy"
  /\ verdict # "open"
  /\ est' = "idle"
  /\ UNCHANGED <<id, owes, given, verdict>>

\* A purchase that was given nothing may be forgotten by a crash.
Fail ==
  /\ est # "off"
  /\ est' = "off"
  /\ verdict' \in {verdict} \cup {v \in {"void"} : verdict = "open" /\ given = 0}
  /\ UNCHANGED <<id, owes, given>>

Restart ==
  /\ est = "off"
  /\ est' = IF verdict = "open" THEN "busy" ELSE "idle"
  /\ UNCHANGED <<id, owes, given, verdict>>

CNext ==
  \/ \E q \in 0..MaxOwed : Begin(q)
  \/ Give
  \/ \E v \in {"done", "void"} : Settle(v)
  \/ Answer
  \/ Fail
  \/ Restart

CSpec == CInit /\ [][CNext]_cvars
=============================================================================
