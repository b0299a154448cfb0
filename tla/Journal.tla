------------------------------ MODULE Journal ------------------------------
(***************************************************************************)
(* The transaction journal data/txn.log (util/journal.cpp).                *)
(*                                                                         *)
(* Only the last non-empty line matters to the program: load_last parses   *)
(* it and resume_if_needed acts on it.  A line carries, in this order, the *)
(* fields id, quarters, phase and dispensed (price, deposit and change sit *)
(* between id and quarters and decide nothing).  A write may be cut short: *)
(* the line then lacks its last fields and its newline, and the next       *)
(* append continues the same line, of which parse_line reads the first     *)
(* occurrence of every key.  A line cut just before the digits of a number *)
(* makes std::stoi throw.                                                  *)
(***************************************************************************)
EXTENDS Integers

Absent == -1        \* a number field that the line does not have
NoPhase == "none"   \* likewise for the phase
Garbled == "garbled" \* a phase name that was cut short

Phases == {"PENDING", "DISPENSING", "PRESENTING", "CLOSED", "DONE", "VOID"}

\* journal::Txn; the default-constructed one has no id and no phase.
Txns == [id : Nat, quarters : Nat, phase : Phases \cup {NoPhase, Garbled}, dispensed : Nat]
NoTxn == [id |-> 0, quarters |-> 0, phase |-> NoPhase, dispensed |-> 0]

Numbers == Nat \cup {Absent}
Lines == [id : Numbers, quarters : Numbers, phase : Phases \cup {NoPhase, Garbled},
          dispensed : Numbers, ended : BOOLEAN, bad : BOOLEAN]

EmptyFile == [id |-> Absent, quarters |-> Absent, phase |-> NoPhase,
              dispensed |-> Absent, ended |-> TRUE, bad |-> FALSE]

\* A number of at most two digits, cut in the middle.
Shortened(n) == {n \div 10} \ {0}

\* The first k fields of the line of t, without a newline; if bad, the cut is
\* between the next key and its number.
Cut(t, k, bad) == [id |-> IF k >= 1 THEN t.id ELSE Absent,
                   quarters |-> IF k >= 2 THEN t.quarters ELSE Absent,
                   phase |-> IF k >= 3 THEN t.phase ELSE NoPhase,
                   dispensed |-> IF k >= 4 THEN t.dispensed ELSE Absent,
                   ended |-> FALSE, bad |-> bad]

(***************************************************************************)
(* What a short write of to_json(t) can leave: whole fields, a key without *)
(* its number, or a phase name or a two-digit number cut in the middle.    *)
(***************************************************************************)
Fragments(t) ==
  {Cut(t, k, FALSE) : k \in 0..4}
  \cup {Cut(t, k, TRUE) : k \in {1, 3}}
  \cup {Cut([t EXCEPT !.phase = Garbled], 3, FALSE)}
  \cup {Cut([t EXCEPT !.quarters = n], 2, FALSE) : n \in Shortened(t.quarters)}
  \cup {Cut([t EXCEPT !.dispensed = n], 4, FALSE) : n \in Shortened(t.dispensed)}

First(a, b) == IF a = Absent THEN b ELSE a

\* Text m written behind the unterminated line l; `phase' is what is read of the phase.
Extend(l, m, phase) ==
  [id |-> First(l.id, m.id), quarters |-> First(l.quarters, m.quarters),
   phase |-> phase, dispensed |-> First(l.dispensed, m.dispensed), ended |-> m.ended,
   bad |-> \/ l.bad
           \/ m.bad /\ (IF m.phase = NoPhase THEN l.quarters ELSE l.dispensed) = Absent]

(***************************************************************************)
(* The last line after text m is appended to a file that ends in line l.   *)
(* A phase name without its closing quote runs into the text behind it.    *)
(***************************************************************************)
Behind(l, m) ==
  IF l.ended THEN {m}
  ELSE IF l.phase = NoPhase THEN {Extend(l, m, m.phase)}
  ELSE {Extend(l, m, l.phase)}
       \cup (IF l.dispensed = Absent THEN {Extend(l, m, Garbled)} ELSE {})

Whole(t) == [id |-> t.id, quarters |-> t.quarters, phase |-> t.phase,
             dispensed |-> t.dispensed, ended |-> TRUE, bad |-> FALSE]

\* journal::append when the write succeeds, and when it is cut short.
Appended(l, t) == Behind(l, Whole(t))
CutShort(l, t) == UNION {Behind(l, m) : m \in Fragments(t)}

\* journal::load_last: the fields that are there, defaults for the others.
Default(n) == IF n = Absent THEN 0 ELSE n
LoadLast(l) == [id |-> Default(l.id), quarters |-> Default(l.quarters),
                phase |-> l.phase, dispensed |-> Default(l.dispensed)]
=============================================================================
