-------------------------- MODULE TxnEngineProofs --------------------------
(***************************************************************************)
(* Proofs about Journal and TxnEngine, for all purchases, hopper stocks,   *)
(* retries, crashes and disk behaviours.                                   *)
(***************************************************************************)
EXTENDS TxnEngine, TLAPS

-----------------------------------------------------------------------------
(***************************************************************************)
(* What appending to the journal, whole or cut short, does to its last     *)
(* line.                                                                   *)
(***************************************************************************)
\* Line m holds, in order and without the newline, fields of record x, the last
\* of them possibly damaged.
PartOf(m, x) ==
  /\ m \in Lines
  /\ ~m.ended
  /\ m.id \in {x.id, Absent}
  /\ m.quarters = Absent \/ m.quarters \in 0..x.quarters
  /\ m.phase \in {x.phase, NoPhase, Garbled}
  /\ m.dispensed = Absent \/ m.dispensed \in 0..x.dispensed
  /\ m.quarters # Absent => m.id # Absent
  /\ m.phase # NoPhase => m.quarters = x.quarters
  /\ m.dispensed # Absent => m.phase # NoPhase

(***************************************************************************)
(* A short write of record x (journal::append, w # line.size()) leaves a   *)
(* part of the line of x.                                                  *)
(***************************************************************************)
LEMMA FragmentFacts ==
  ASSUME NEW x \in Txns, x.phase \in Phases, NEW m \in Fragments(x)
  PROVE  PartOf(m, x)
<1>1. ASSUME NEW k \in 0..4, NEW b \in BOOLEAN PROVE PartOf(Cut(x, k, b), x)
  BY DEF PartOf, Cut, Txns, Lines, Numbers, Absent, Phases, NoPhase
<1>2. PartOf(Cut([x EXCEPT !.phase = Garbled], 3, FALSE), x)
  BY DEF PartOf, Cut, Txns, Lines, Numbers, Absent, Phases, NoPhase, Garbled
<1>3. ASSUME NEW n \in 0..x.quarters
      PROVE  PartOf(Cut([x EXCEPT !.quarters = n], 2, FALSE), x)
  BY DEF PartOf, Cut, Txns, Lines, Numbers, Absent, Phases, NoPhase
<1>4. ASSUME NEW n \in 0..x.dispensed
      PROVE  PartOf(Cut([x EXCEPT !.dispensed = n], 4, FALSE), x)
  BY DEF PartOf, Cut, Txns, Lines, Numbers, Absent, Phases, NoPhase
<1>5. /\ Shortened(x.quarters) \subseteq 0..x.quarters
      /\ Shortened(x.dispensed) \subseteq 0..x.dispensed
  BY DEF Shortened, Txns
<1>6. CASE m \in {Cut(x, k, FALSE) : k \in 0..4}
  BY <1>1, <1>6, Zenon
<1>7. CASE m \in {Cut(x, k, TRUE) : k \in {1, 3}}
  <2>1. PICK k \in {1, 3} : m = Cut(x, k, TRUE)
    BY <1>7, Zenon
  <2>2. k \in 0..4
    OBVIOUS
  <2> QED BY <1>1, <2>1, <2>2, Zenon
<1>8. CASE m \in {Cut([x EXCEPT !.phase = Garbled], 3, FALSE)}
  BY <1>2, <1>8, Zenon
<1>9. CASE m \in {Cut([x EXCEPT !.quarters = n], 2, FALSE) : n \in Shortened(x.quarters)}
  BY <1>3, <1>5, <1>9, Zenon
<1>10. CASE m \in {Cut([x EXCEPT !.dispensed = n], 4, FALSE) : n \in Shortened(x.dispensed)}
  BY <1>4, <1>5, <1>10, Zenon
<1> QED BY <1>6, <1>7, <1>8, <1>9, <1>10, Zenon DEF Fragments

(***************************************************************************)
(* Text m written behind an unterminated line l leaves every field that l  *)
(* has in place (parse_line reads the first occurrence of a key).          *)
(***************************************************************************)
LEMMA BehindFacts ==
  ASSUME NEW l \in Lines, NEW m \in Lines, NEW n \in Behind(l, m)
  PROVE  /\ n \in Lines
         /\ n.ended = m.ended
         /\ l.ended => n = m
         /\ ~l.ended => /\ n.id = First(l.id, m.id)
                        /\ n.quarters = First(l.quarters, m.quarters)
                        /\ n.dispensed = First(l.dispensed, m.dispensed)
                        /\ l.phase = NoPhase => n.phase = m.phase
                        /\ l.phase # NoPhase => n.phase \in {l.phase, Garbled}
<1>1. ASSUME NEW p \in Phases \cup {NoPhase, Garbled}
      PROVE  LET e == Extend(l, m, p)
             IN  /\ e \in Lines
                 /\ e.ended = m.ended
                 /\ e.id = First(l.id, m.id)
                 /\ e.quarters = First(l.quarters, m.quarters)
                 /\ e.dispensed = First(l.dispensed, m.dispensed)
                 /\ e.phase = p
  <2>1. Extend(l, m, p).bad \in BOOLEAN
    BY Zenon DEF Extend, Lines
  <2>2. /\ First(l.id, m.id) \in Numbers
        /\ First(l.quarters, m.quarters) \in Numbers
        /\ First(l.dispensed, m.dispensed) \in Numbers
    BY Zenon DEF First, Lines
  <2> QED BY <2>1, <2>2, Zenon DEF Extend, Lines
<1>2. CASE l.ended
  BY <1>2, Zenon DEF Behind
<1>3. CASE ~l.ended /\ l.phase = NoPhase
  <2>1. n = Extend(l, m, m.phase)
    BY <1>3, Zenon DEF Behind
  <2>2. m.phase \in Phases \cup {NoPhase, Garbled}
    BY Zenon DEF Lines
  <2> QED BY <1>1, <1>3, <2>1, <2>2, Zenon
<1>4. CASE ~l.ended /\ l.phase # NoPhase
  <2>1. PICK p \in {l.phase, Garbled} : n = Extend(l, m, p)
    BY <1>4, Zenon DEF Behind
  <2>2. p \in Phases \cup {NoPhase, Garbled}
    BY Zenon DEF Lines
  <2> QED BY <1>1, <1>4, <2>1, <2>2, Zenon
<1> QED BY <1>2, <1>3, <1>4, Zenon

(***************************************************************************)
(* journal::append and journal::load_last fit together: a record appended  *)
(* to a terminated file is the one read back.                              *)
(***************************************************************************)
THEOREM AppendedIsLoaded ==
  ASSUME NEW x \in Txns, NEW l \in Lines, l.ended, NEW n \in Appended(l, x)
  PROVE  LoadLast(n) = x
<1>1. n = Whole(x)
  BY Zenon DEF Appended, Behind
<1> QED BY <1>1 DEF Whole, LoadLast, Default, Txns, Absent

-----------------------------------------------------------------------------
(***************************************************************************)
(* The inductive invariant, part by part.                                  *)
(***************************************************************************)
Earned == {"PRESENTING", "CLOSED", "DONE"}
Active == pc \notin {"off", "idle"}

\* Facts about control that the type invariant rests on.
ControlInv ==
  /\ pc = "call" => t.quarters > t.dispensed
  /\ dpc = "backoff" => attempt < MaxRetries
  /\ dpc = "done" => res.dispensed = pulses
  /\ motor => pc = "off" \/ (pc = "hopper" /\ dpc \in {"settle", "poll"})
  /\ unsaved => t.phase \in Phases /\ pc \in {"guard1", "judge", "guard3", "finish", "return"}
  /\ unsaved /\ pc = "guard1" => t.phase = "PENDING" /\ t.dispensed = 0
  /\ pc = "finish" => t.phase = "CLOSED" /\ shutter = "closed"
  /\ pc = "return" /\ t.phase = "DONE" => shutter = "closed"

\* A line has its fields in order.
InOrder(l) ==
  /\ l.quarters # Absent => l.id # Absent
  /\ l.phase # NoPhase => l.quarters # Absent
  /\ l.dispensed # Absent => l.phase # NoPhase

\* What a line says about a transaction is covered by the coins paid for it.
Backed(l) ==
  /\ Default(l.dispensed) <= paid[Default(l.id)]
  /\ l.phase \in Earned => Default(l.quarters) <= paid[Default(l.id)]

\* t is not read back from a journal that a full disk may have spoiled.
Trusted == "disk" \notin mishaps \/ caller = "purchase"

\* The coins of the transaction that the engine works on.
MemoryInv ==
  Active /\ Trusted =>
    /\ t.dispensed <= paid[t.id]
    /\ pc = "hopper" => t.dispensed + pulses <= paid[t.id]
    /\ pc \in {"guard2", "open"} => t.quarters <= t.dispensed
    /\ pc \in {"guard3", "close", "finish"} => t.quarters <= paid[t.id]
    /\ t.phase \in Earned => t.quarters <= paid[t.id]

PayeeInv == pc = "hopper" => payee = t.id

\* The coins of the transaction that the journal ends in.
TailInv == "disk" \notin mishaps => Backed(tail)

\* An unterminated line was left by a crash, and is only continued by the
\* transaction that it belongs to or by the PENDING record of the next one.
TornInv ==
  "disk" \notin mishaps /\ ~tail.ended /\ Active /\ ~(unsaved /\ pc = "guard1") =>
    tail.id = t.id /\ tail.phase # NoPhase

\* A caller that got its answer finds its transaction neither worked on, nor
\* resumable, nor served by a motor left running.
Resumable == {"PENDING", "DISPENSING", "PRESENTING"}
AnswerInv ==
  /\ answered \subseteq 1..started
  /\ Active /\ caller = "purchase" => t.id = started /\ started > 0
  /\ pc = "return" => t.phase \in {"VOID", "DONE"}
  /\ "disk" \notin mishaps =>
       /\ Active => t.id \notin answered
       /\ Active /\ caller = "purchase" /\ ~(unsaved /\ pc = "guard1") => tail.ended
       /\ pc = "return" /\ ~unsaved /\ caller = "purchase" => tail.phase = t.phase
       /\ tail.id \in answered => tail.ended /\ tail.phase \notin Resumable
       /\ motor /\ pc = "off" => payee \notin answered

\* With a fault all along, the engine gets past no check.
HeldInv == held => fault /\ pc \notin {"off", "call", "hopper", "open"}

IInv ==
  /\ TypeOK
  /\ ControlInv
  /\ InOrder(tail)
  /\ MemoryInv
  /\ PayeeInv
  /\ TailInv
  /\ TornInv
  /\ AnswerInv
  /\ HeldInv

-----------------------------------------------------------------------------
(***************************************************************************)
(* Appending a record keeps the last line typed and in order.              *)
(***************************************************************************)
LEMMA BehindTyped ==
  ASSUME NEW x \in Txns, x.phase \in Phases, NEW l \in Lines, InOrder(l),
         NEW m, m = Whole(x) \/ PartOf(m, x), NEW n \in Behind(l, m)
  PROVE  /\ n \in Lines
         /\ InOrder(n)
         /\ n.id \in {l.id, x.id, Absent}
         /\ n.quarters \in {l.quarters, Absent} \cup (0..x.quarters)
<1>1. m \in Lines /\ InOrder(m) /\ m.id \in {x.id, Absent}
      /\ m.quarters \in {Absent} \cup (0..x.quarters)
  <2>1. CASE m = Whole(x)
    BY <2>1 DEF Whole, Txns, Lines, Numbers, InOrder, Absent, Phases, NoPhase
  <2>2. CASE PartOf(m, x)
    BY <2>2 DEF PartOf, InOrder, Txns, Absent, Lines
  <2> QED BY <2>1, <2>2, Zenon
<1>2. CASE l.ended
  BY <1>1, <1>2, BehindFacts
<1>3. CASE ~l.ended
  <2>1. /\ n \in Lines
        /\ n.id = First(l.id, m.id)
        /\ n.quarters = First(l.quarters, m.quarters)
        /\ n.dispensed = First(l.dispensed, m.dispensed)
        /\ l.phase = NoPhase => n.phase = m.phase
        /\ l.phase # NoPhase => n.phase \in {l.phase, Garbled}
    BY <1>1, <1>3, BehindFacts, Zenon
  <2>2. Garbled # NoPhase
    BY Zenon DEF Garbled, NoPhase
  <2> QED BY <1>1, <2>1, <2>2, Zenon DEF First, InOrder
<1> QED BY <1>2, <1>3, Zenon

(***************************************************************************)
(* Appending a record that is covered by the coins paid keeps the last     *)
(* line covered, provided that an unterminated line is continued by its    *)
(* own transaction or by a PENDING record.                                 *)
(***************************************************************************)
LEMMA BehindBacked ==
  ASSUME NEW x \in Txns, x.phase \in Phases, NEW l \in Lines, InOrder(l), Backed(l),
         paid \in [Ids -> Nat], x.id \in Ids, x.dispensed <= paid[x.id],
         l.id \in Ids \cup {Absent},
         x.phase \in Earned => x.quarters <= paid[x.id],
         \/ l.ended
         \/ x.dispensed = 0 /\ x.phase = "PENDING"
         \/ l.id = x.id /\ l.phase # NoPhase,
         NEW m, m = Whole(x) \/ PartOf(m, x), NEW n \in Behind(l, m)
  PROVE  Backed(n)
<1>1. m \in Lines /\ InOrder(m) /\ Backed(m) /\ m.id \in {x.id, Absent}
      /\ m.phase \in {x.phase, NoPhase, Garbled}
      /\ m.dispensed \in {Absent} \cup (0..x.dispensed)
  <2>1. CASE m = Whole(x)
    BY <2>1 DEF Whole, Txns, Lines, Numbers, InOrder, Absent, Phases, NoPhase, Backed, Default
  <2>2. CASE PartOf(m, x)
    <3>1. m \in Lines /\ InOrder(m) /\ m.id \in {x.id, Absent}
          /\ m.phase \in {x.phase, NoPhase, Garbled}
          /\ m.dispensed \in {Absent} \cup (0..x.dispensed)
      BY <2>2 DEF PartOf, InOrder, Txns, Absent, Lines
    <3>2. Default(m.dispensed) <= paid[Default(m.id)]
      <4>1. 0 \in Ids /\ paid[0] \in Nat /\ paid[x.id] \in Nat
        BY TxnAssumption DEF Ids
      <4> QED BY <2>2, <4>1 DEF PartOf, Default, Txns, Absent
    <3>3. m.phase \in Earned => m.phase = x.phase /\ m.quarters = x.quarters /\ m.id = x.id
      BY <2>2 DEF PartOf, Earned, NoPhase, Garbled, Txns, Absent
    <3>4. m.phase \in Earned => Default(m.quarters) <= paid[Default(m.id)]
      BY <3>3 DEF Default, Txns, Absent
    <3> QED BY <3>1, <3>2, <3>4, Zenon DEF Backed
  <2> QED BY <2>1, <2>2, Zenon
<1>2. CASE l.ended
  BY <1>1, <1>2, BehindFacts
<1>3. CASE ~l.ended
  <2>1. /\ n \in Lines
        /\ n.id = First(l.id, m.id)
        /\ n.quarters = First(l.quarters, m.quarters)
        /\ n.dispensed = First(l.dispensed, m.dispensed)
        /\ l.phase = NoPhase => n.phase = m.phase
        /\ l.phase # NoPhase => n.phase \in {l.phase, Garbled}
    BY <1>1, <1>3, BehindFacts, Zenon
  <2>2. CASE l.id = Absent
    <3>1. l.quarters = Absent /\ l.dispensed = Absent /\ l.phase = NoPhase
      BY <2>2, Zenon DEF InOrder
    <3> QED BY <1>1, <2>1, <2>2, <3>1, Zenon DEF First, Backed
  <2>3. CASE l.id # Absent /\ l.id = x.id /\ l.phase # NoPhase
    <3>1. n.id = l.id /\ n.quarters = l.quarters /\ n.phase \in {l.phase, Garbled}
      BY <2>1, <2>3, Zenon DEF First, InOrder
    <3>2. n.phase \in Earned => n.phase = l.phase
      BY <3>1, Zenon DEF Earned, Garbled
    <3>3. Default(n.dispensed) <= paid[Default(n.id)]
      BY <1>1, <2>1, <2>3, <3>1 DEF First, Backed, Default, Txns, Ids, Absent
    <3> QED BY <3>1, <3>2, <3>3, Zenon DEF Backed
  <2>4. CASE l.id # Absent /\ x.dispensed = 0 /\ x.phase = "PENDING"
    <3>1. n.id = l.id /\ Default(n.id) = l.id /\ paid[l.id] \in Nat
      BY <2>1, <2>4, Zenon DEF First, Default
    <3>2. Default(n.dispensed) <= paid[l.id]
      BY <1>1, <2>1, <2>4, <3>1 DEF First, Backed, Default, Absent
    <3>3. n.phase \in Earned => n.phase = l.phase /\ n.quarters = l.quarters
      BY <1>1, <2>1, <2>4, Zenon DEF Earned, Garbled, NoPhase, First, InOrder
    <3> QED BY <2>4, <3>1, <3>2, <3>3, Zenon DEF Backed, Default
  <2> QED BY <1>3, <2>2, <2>3, <2>4, Zenon
<1> QED BY <1>2, <1>3, Zenon

-----------------------------------------------------------------------------
\* A device that was never switched on satisfies the invariant.
LEMMA InitInv == Init => IInv
<1> SUFFICES ASSUME Init PROVE IInv
  BY Zenon
<1> USE TxnAssumption, DispenseAssumption DEF Init, DInit
<1>1. TypeOK
  <2>1. res \in Results
    BY Zenon DEF NoResult, Results, Reasons
  <2>2. DTypeOK
    <3>1. stock \in 0..HopperStock /\ before \in 0..HopperStock
      OBVIOUS
    <3>2. pulses \in Nat /\ attempt \in 0..MaxRetries /\ coins \in 0..MaxCoins
      OBVIOUS
    <3> QED BY <2>1, <3>1, <3>2, Zenon DEF DTypeOK
  <2>3. t \in Txns /\ t.id \in Ids /\ t.quarters \in 0..MaxQuarters
    BY DEF NoTxn, Txns, Ids, NoPhase
  <2>4. tail \in Lines /\ tail.id = Absent /\ tail.quarters = Absent
    BY Zenon DEF EmptyFile, Lines, Numbers, NoPhase, Absent
  <2>5. /\ paid \in [Ids -> Nat] /\ owed \in [Ids -> 0..MaxQuarters]
        /\ started \in Ids /\ crashes \in 0..MaxCrashes /\ payee \in Ids
    BY DEF Ids
  <2>6. pc \in Pcs
    BY Zenon DEF Pcs
  <2> QED BY <2>2, <2>3, <2>4, <2>5, <2>6, Zenon DEF TypeOK
<1>2. ControlInv /\ InOrder(tail) /\ MemoryInv /\ PayeeInv /\ TornInv
  BY Zenon DEF ControlInv, InOrder, MemoryInv, PayeeInv, TornInv, Active, EmptyFile, NoPhase, Absent
<1>3. TailInv
  BY DEF TailInv, Backed, Default, EmptyFile, Earned, NoPhase, Ids, Absent
<1>4. AnswerInv /\ HeldInv
  BY Zenon DEF AnswerInv, HeldInv, Active
<1> QED BY <1>1, <1>2, <1>3, <1>4, Zenon DEF IInv

-----------------------------------------------------------------------------
(***************************************************************************)
(* What a step of the engine does to t when it sets the phase, and what is *)
(* carried over by a step that leaves hopper, journal and history alone.   *)
(***************************************************************************)
LEMMA SaveFacts ==
  ASSUME t \in Txns, NEW phase \in Phases, NEW p, Save(phase, p)
  PROVE  /\ t' \in Txns /\ t'.phase = phase
         /\ t'.id = t.id /\ t'.quarters = t.quarters /\ t'.dispensed = t.dispensed
         /\ unsaved' = TRUE /\ pc' = p
BY Zenon DEF Save, Txns

\* What the early returns of continue_txn that end in VOID assign.
LEMMA VoidFacts ==
  ASSUME t \in Txns, Void
  PROVE  /\ t' \in Txns /\ t'.phase = "VOID"
         /\ t'.id = t.id /\ t'.quarters = t.quarters /\ t'.dispensed = t.dispensed
         /\ unsaved' = TRUE /\ pc' = "return"
BY SaveFacts, Zenon DEF Void, Phases

Quiet == UNCHANGED <<dvars, caller, tail, started, crashes, payee, paid, owed, mishaps>>

\* A step that moves no coin and writes no line keeps the facts about them.
LEMMA QuietFacts ==
  ASSUME IInv, Quiet
  PROVE  DTypeOK' /\ InOrder(tail)' /\ TailInv'
<1>1. DTypeOK'
  BY Zenon DEF IInv, TypeOK, DTypeOK, Quiet, dvars
<1>2. InOrder(tail)' /\ TailInv'
  BY Zenon DEF IInv, InOrder, TailInv, Backed, Quiet
<1> QED BY <1>1, <1>2, Zenon

\* The fault check before dispensing.
LEMMA Guard1Inv == IInv /\ Guard1 => IInv'
<1> SUFFICES ASSUME IInv, Guard1 PROVE IInv'
  BY Zenon
<1>0. t \in Txns /\ t.id \in Ids /\ paid \in [Ids -> Nat] /\ unsaved \in BOOLEAN /\ started \in Ids
  BY Zenon DEF IInv, TypeOK
<1>1. DTypeOK' /\ InOrder(tail)' /\ TailInv'
  BY QuietFacts, Zenon DEF Guard1, Quiet
<1>2. /\ t' \in Txns /\ t'.id = t.id /\ t'.quarters = t.quarters /\ t'.dispensed = t.dispensed
      /\ \/ t'.phase = "VOID" /\ unsaved' /\ pc' = "return"
         \/ UNCHANGED <<t, unsaved>> /\ ~fault /\ t.quarters > t.dispensed /\ pc' = "call"
         \/ UNCHANGED <<t, unsaved>> /\ t.quarters <= t.dispensed /\ pc' = "guard2"
  BY <1>0, VoidFacts, Zenon DEF Guard1, Goto
<1>3. TypeOK'
  <2>1. pc' \in Pcs /\ unsaved' \in BOOLEAN
    BY Zenon DEF IInv, TypeOK, Pcs, Guard1, Void, Save, Goto
  <2> QED BY <1>1, <1>2, <2>1, Zenon DEF IInv, TypeOK, Guard1
<1>4. ControlInv'
  BY <1>2 DEF IInv, ControlInv, Phases, dvars, Guard1, At
<1>5. MemoryInv' /\ PayeeInv' /\ TornInv'
  BY <1>0, <1>2, Zenon DEF IInv, MemoryInv, PayeeInv, TornInv, Txns, Active, Trusted, Earned,
                    dvars, Guard1, At
<1>6. AnswerInv' /\ HeldInv'
  BY <1>0, <1>2, TxnAssumption, Zenon DEF IInv, AnswerInv, HeldInv, Active, Ids, dvars, Guard1, At
<1> QED BY <1>1, <1>3, <1>4, <1>5, <1>6, Zenon DEF IInv

\* The check of the dispenser's result.
LEMMA JudgeInv == IInv /\ Judge => IInv'
<1> SUFFICES ASSUME IInv, Judge PROVE IInv'
  BY Zenon
<1>0. t \in Txns /\ t.id \in Ids /\ paid \in [Ids -> Nat] /\ unsaved \in BOOLEAN /\ started \in Ids
  BY Zenon DEF IInv, TypeOK
<1>1. DTypeOK' /\ InOrder(tail)' /\ TailInv'
  BY QuietFacts, Zenon DEF Judge, Quiet
<1>2. /\ t' \in Txns /\ t'.id = t.id /\ t'.quarters = t.quarters /\ t'.dispensed = t.dispensed
      /\ \/ t'.phase = "VOID" /\ unsaved' /\ pc' = "return"
         \/ UNCHANGED <<t, unsaved>> /\ t.dispensed >= t.quarters /\ pc' = "guard2"
  BY <1>0, VoidFacts, Zenon DEF Judge, Goto
<1>3. TypeOK'
  <2>1. pc' \in Pcs /\ unsaved' \in BOOLEAN
    BY Zenon DEF IInv, TypeOK, Pcs, Judge, Void, Save, Goto
  <2> QED BY <1>1, <1>2, <2>1, Zenon DEF IInv, TypeOK, Judge
<1>4. ControlInv'
  BY <1>2 DEF IInv, ControlInv, Phases, dvars, Judge, At
<1>5. MemoryInv' /\ PayeeInv' /\ TornInv'
  BY <1>0, <1>2, Zenon DEF IInv, MemoryInv, PayeeInv, TornInv, Txns, Active, Trusted, Earned,
                    dvars, Judge, At
<1>6. AnswerInv' /\ HeldInv'
  BY <1>0, <1>2, TxnAssumption, Zenon DEF IInv, AnswerInv, HeldInv, Active, Ids, dvars, Judge, At
<1> QED BY <1>1, <1>3, <1>4, <1>5, <1>6, Zenon DEF IInv

\* The fault check before the shutter opens.
LEMMA Guard2Inv == IInv /\ Guard2 => IInv'
<1> SUFFICES ASSUME IInv, Guard2 PROVE IInv'
  BY Zenon
<1>0. t \in Txns /\ t.id \in Ids /\ paid \in [Ids -> Nat] /\ unsaved \in BOOLEAN /\ started \in Ids
  BY Zenon DEF IInv, TypeOK
<1>1. DTypeOK' /\ InOrder(tail)' /\ TailInv'
  BY QuietFacts, Zenon DEF Guard2, Quiet
<1>2. /\ t' \in Txns /\ t'.id = t.id /\ t'.quarters = t.quarters /\ t'.dispensed = t.dispensed
      /\ \/ t'.phase = "VOID" /\ unsaved' /\ pc' = "return"
         \/ UNCHANGED <<t, unsaved>> /\ ~fault /\ pc' = "open"
  BY <1>0, VoidFacts, Zenon DEF Guard2, Goto
<1>3. TypeOK'
  <2>1. pc' \in Pcs /\ unsaved' \in BOOLEAN
    BY Zenon DEF IInv, TypeOK, Pcs, Guard2, Void, Save, Goto
  <2> QED BY <1>1, <1>2, <2>1, Zenon DEF IInv, TypeOK, Guard2
<1>4. ControlInv'
  BY <1>2 DEF IInv, ControlInv, Phases, dvars, Guard2, At
<1>5. MemoryInv' /\ PayeeInv' /\ TornInv'
  BY <1>0, <1>2, Zenon DEF IInv, MemoryInv, PayeeInv, TornInv, Txns, Active, Trusted, Earned,
                    dvars, Guard2, At
<1>6. AnswerInv' /\ HeldInv'
  BY <1>0, <1>2, TxnAssumption, Zenon DEF IInv, AnswerInv, HeldInv, Active, Ids, dvars, Guard2, At
<1> QED BY <1>1, <1>3, <1>4, <1>5, <1>6, Zenon DEF IInv

\* open_mm, and PRESENTING or VOID.
LEMMA OpenInv == IInv /\ Open => IInv'
<1> SUFFICES ASSUME IInv, Open PROVE IInv'
  BY Zenon
<1>0. t \in Txns /\ t.id \in Ids /\ paid \in [Ids -> Nat] /\ unsaved \in BOOLEAN /\ started \in Ids
  BY Zenon DEF IInv, TypeOK
<1>1. DTypeOK' /\ InOrder(tail)' /\ TailInv'
  BY QuietFacts, Zenon DEF Open, Quiet
<1>2. /\ t' \in Txns /\ t'.id = t.id /\ t'.quarters = t.quarters /\ t'.dispensed = t.dispensed
      /\ \/ t'.phase = "VOID" /\ unsaved' /\ pc' = "return"
         \/ t'.phase = "PRESENTING" /\ unsaved' /\ pc' = "guard3" /\ shutter' = "open"
  BY <1>0, VoidFacts, SaveFacts, Zenon DEF Open, Phases
<1>3. TypeOK'
  <2>1. pc' \in Pcs /\ unsaved' \in BOOLEAN
    BY Zenon DEF IInv, TypeOK, Pcs, Open, Void, Save
  <2> QED BY <1>1, <1>2, <2>1, Zenon DEF IInv, TypeOK, Open
<1>4. ControlInv'
  BY <1>2, Zenon DEF IInv, ControlInv, Phases, dvars, Open, At
<1>5. MemoryInv' /\ PayeeInv' /\ TornInv'
  BY <1>0, <1>2 DEF IInv, MemoryInv, PayeeInv, TornInv, Txns, Active, Trusted, Earned,
                    dvars, Open, At
<1>6. AnswerInv' /\ HeldInv'
  BY <1>0, <1>2, TxnAssumption, Zenon DEF IInv, AnswerInv, HeldInv, Active, Ids, dvars, Open, At
<1> QED BY <1>1, <1>3, <1>4, <1>5, <1>6, Zenon DEF IInv

\* The fault check after the presentation time.
LEMMA Guard3Inv == IInv /\ Guard3 => IInv'
<1> SUFFICES ASSUME IInv, Guard3 PROVE IInv'
  BY Zenon
<1>0. t \in Txns /\ t.id \in Ids /\ paid \in [Ids -> Nat] /\ unsaved \in BOOLEAN /\ started \in Ids
  BY Zenon DEF IInv, TypeOK
<1>1. DTypeOK' /\ InOrder(tail)' /\ TailInv'
  BY QuietFacts, Zenon DEF Guard3, Quiet
<1>2. /\ t' \in Txns /\ t'.id = t.id /\ t'.quarters = t.quarters /\ t'.dispensed = t.dispensed
      /\ \/ t'.phase = "VOID" /\ unsaved' /\ pc' = "return"
         \/ UNCHANGED <<t, unsaved>> /\ pc' = "close"
  BY <1>0, VoidFacts, Zenon DEF Guard3, Goto
<1>3. TypeOK'
  <2>1. pc' \in Pcs /\ unsaved' \in BOOLEAN
    BY Zenon DEF IInv, TypeOK, Pcs, Guard3, Void, Save, Goto
  <2> QED BY <1>1, <1>2, <2>1, Zenon DEF IInv, TypeOK, Guard3
<1>4. ControlInv'
  BY <1>2 DEF IInv, ControlInv, Phases, dvars, Guard3, At
<1>5. MemoryInv' /\ PayeeInv' /\ TornInv'
  BY <1>0, <1>2, Zenon DEF IInv, MemoryInv, PayeeInv, TornInv, Txns, Active, Trusted, Earned,
                    dvars, Guard3, At
<1>6. AnswerInv' /\ HeldInv'
  BY <1>0, <1>2, TxnAssumption, Zenon DEF IInv, AnswerInv, HeldInv, Active, Ids, dvars, Guard3, At
<1> QED BY <1>1, <1>3, <1>4, <1>5, <1>6, Zenon DEF IInv

\* close_mm, and CLOSED or VOID.
LEMMA CloseInv == IInv /\ Close => IInv'
<1> SUFFICES ASSUME IInv, Close PROVE IInv'
  BY Zenon
<1>0. t \in Txns /\ t.id \in Ids /\ paid \in [Ids -> Nat] /\ unsaved \in BOOLEAN /\ started \in Ids
  BY Zenon DEF IInv, TypeOK
<1>1. DTypeOK' /\ InOrder(tail)' /\ TailInv'
  BY QuietFacts, Zenon DEF Close, Quiet
<1>2. /\ t' \in Txns /\ t'.id = t.id /\ t'.quarters = t.quarters /\ t'.dispensed = t.dispensed
      /\ \/ t'.phase = "VOID" /\ unsaved' /\ pc' = "return"
         \/ t'.phase = "CLOSED" /\ unsaved' /\ pc' = "finish" /\ shutter' = "closed"
  BY <1>0, VoidFacts, SaveFacts, Zenon DEF Close, Phases
<1>3. TypeOK'
  <2>1. pc' \in Pcs /\ unsaved' \in BOOLEAN
    BY Zenon DEF IInv, TypeOK, Pcs, Close, Void, Save
  <2> QED BY <1>1, <1>2, <2>1, Zenon DEF IInv, TypeOK, Close
<1>4. ControlInv'
  BY <1>2, Zenon DEF IInv, ControlInv, Phases, dvars, Close, At
<1>5. MemoryInv' /\ PayeeInv' /\ TornInv'
  BY <1>0, <1>2, Zenon DEF IInv, MemoryInv, PayeeInv, TornInv, Txns, Active, Trusted, Earned,
                    dvars, Close, At
<1>6. AnswerInv' /\ HeldInv'
  BY <1>0, <1>2, TxnAssumption, Zenon DEF IInv, AnswerInv, HeldInv, Active, Ids, dvars, Close, At
<1> QED BY <1>1, <1>3, <1>4, <1>5, <1>6, Zenon DEF IInv

\* The DONE record.
LEMMA FinishedInv == IInv /\ Finished => IInv'
<1> SUFFICES ASSUME IInv, Finished PROVE IInv'
  BY Zenon
<1>0. t \in Txns /\ t.id \in Ids /\ paid \in [Ids -> Nat] /\ unsaved \in BOOLEAN /\ started \in Ids
  BY Zenon DEF IInv, TypeOK
<1>1. DTypeOK' /\ InOrder(tail)' /\ TailInv'
  BY QuietFacts, Zenon DEF Finished, Quiet
<1>2. /\ t' \in Txns /\ t'.id = t.id /\ t'.quarters = t.quarters /\ t'.dispensed = t.dispensed
      /\ t'.phase = "DONE" /\ unsaved' /\ pc' = "return"
  BY <1>0, SaveFacts, Zenon DEF Finished, Phases
<1>3. TypeOK'
  <2>1. pc' \in Pcs /\ unsaved' \in BOOLEAN
    BY Zenon DEF IInv, TypeOK, Pcs, Finished, Save
  <2> QED BY <1>1, <1>2, <2>1, Zenon DEF IInv, TypeOK, Finished
<1>4. ControlInv'
  BY <1>2, Zenon DEF IInv, ControlInv, Phases, dvars, Finished, At
<1>5. MemoryInv' /\ PayeeInv' /\ TornInv'
  BY <1>0, <1>2, Zenon DEF IInv, MemoryInv, PayeeInv, TornInv, Txns, Active, Trusted, Earned,
                    dvars, Finished, At
<1>6. AnswerInv' /\ HeldInv'
  BY <1>0, <1>2, TxnAssumption, Zenon DEF IInv, AnswerInv, HeldInv, Active, Ids, dvars, Finished, At
<1> QED BY <1>1, <1>3, <1>4, <1>5, <1>6, Zenon DEF IInv

\* The answer of run_purchase or resume_if_needed.
LEMMA ReturnTxnInv == IInv /\ ReturnTxn => IInv'
<1> SUFFICES ASSUME IInv, ReturnTxn PROVE IInv'
  BY Zenon
<1>0. t \in Txns /\ t.id \in Ids /\ paid \in [Ids -> Nat] /\ unsaved \in BOOLEAN /\ started \in Ids
  BY Zenon DEF IInv, TypeOK
<1>1. DTypeOK' /\ InOrder(tail)' /\ TailInv'
  BY QuietFacts, Zenon DEF ReturnTxn, Quiet
<1>2. /\ t' \in Txns /\ t'.id = t.id /\ t'.quarters = t.quarters /\ t'.dispensed = t.dispensed
      /\ UNCHANGED <<t, unsaved>> /\ pc' = "idle"
  BY <1>0, Zenon DEF ReturnTxn, Goto
<1>3. TypeOK'
  <2>1. pc' \in Pcs /\ unsaved' \in BOOLEAN
    BY Zenon DEF IInv, TypeOK, Pcs, ReturnTxn, Goto
  <2> QED BY <1>1, <1>2, <2>1, Zenon DEF IInv, TypeOK, ReturnTxn
<1>4. ControlInv'
  BY <1>2, Zenon DEF IInv, ControlInv, Phases, dvars, ReturnTxn, At
<1>5. MemoryInv' /\ PayeeInv' /\ TornInv'
  BY <1>0, <1>2, Zenon DEF IInv, MemoryInv, PayeeInv, TornInv, Txns, Active, Trusted, Earned,
                    dvars, ReturnTxn, At
<1>6. AnswerInv' /\ HeldInv'
  <2>1. CASE caller = "purchase"
    <3>1. answered' = answered \cup {t.id} /\ t.id = started /\ started > 0
      BY <2>1, Zenon DEF IInv, ReturnTxn, At, AnswerInv, Active
    <3>2. answered' \subseteq 1..started'
      BY <1>0, <3>1, TxnAssumption DEF IInv, AnswerInv, Ids, ReturnTxn
    <3>3. "disk" \notin mishaps => tail.ended /\ tail.phase \in {"VOID", "DONE"}
      BY <2>1, Zenon DEF IInv, ReturnTxn, At, AnswerInv, Active
    <3> QED BY <1>2, <2>1, <3>1, <3>2, <3>3, Zenon
              DEF IInv, ReturnTxn, At, AnswerInv, HeldInv, Active, Resumable
  <2>2. CASE caller # "purchase"
    BY <1>2, <2>2, Zenon DEF IInv, ReturnTxn, At, AnswerInv, HeldInv, Active
  <2> QED BY <2>1, <2>2, Zenon
<1> QED BY <1>1, <1>3, <1>4, <1>5, <1>6, Zenon DEF IInv

\* The fault poller changes the fault set at any time.
LEMMA FaultChangeInv == IInv /\ FaultChange => IInv'
<1> SUFFICES ASSUME IInv, FaultChange PROVE IInv'
  BY Zenon
<1>1. DTypeOK' /\ InOrder(tail)' /\ TailInv'
  BY QuietFacts, Zenon DEF FaultChange, Quiet
<1>2. TypeOK'
  <2>1. fault' \in BOOLEAN /\ held' \in BOOLEAN
    BY Zenon DEF FaultChange
  <2> QED BY <1>1, <2>1, Zenon DEF IInv, TypeOK, FaultChange
<1>3. /\ UNCHANGED <<pc, t, caller, unsaved, tail, shutter, started, payee, paid, answered, mishaps>>
      /\ UNCHANGED <<dpc, coins, attempt, pulses, motor, res>>
      /\ ~held'
  BY Zenon DEF FaultChange, dvars
<1>4. ControlInv'
  BY <1>3, Zenon DEF IInv, ControlInv, Active
<1>5. MemoryInv' /\ PayeeInv'
  BY <1>3, Zenon DEF IInv, MemoryInv, PayeeInv, Active, Trusted
<1>6. TornInv' /\ AnswerInv' /\ HeldInv'
  BY <1>3 DEF IInv, TornInv, AnswerInv, HeldInv, Active
<1> QED BY <1>1, <1>2, <1>4, <1>5, <1>6, Zenon DEF IInv

-----------------------------------------------------------------------------
(***************************************************************************)
(* The steps that involve the hopper.                                      *)
(***************************************************************************)
LEMMA QuartersRange ==
  ASSUME NEW price \in Nat, NEW deposit \in Nat
  PROVE  Quarters(price, deposit) \in 0..MaxQuarters
<1> DEFINE change == IF deposit > price THEN deposit - price ELSE 0
           plan == change \div 25
<1>1. change \in Nat
  OBVIOUS
<1>2. plan \in Nat
  BY <1>1
<1> QED BY <1>2, TxnAssumption DEF Quarters

\* A new purchase: a fresh id that nothing was paid for.
LEMMA RunPurchaseInv ==
  ASSUME NEW price \in Prices, NEW deposit \in Deposits, IInv, RunPurchase(price, deposit)
  PROVE  IInv'
<1> DEFINE q == Quarters(price, deposit)
<1>0. /\ q \in 0..MaxQuarters
      /\ started \in Ids /\ started + 1 \in Ids
      /\ paid \in [Ids -> Nat] /\ owed \in [Ids -> 0..MaxQuarters]
  <2>1. price \in Nat /\ deposit \in Nat
    BY TxnAssumption, Zenon
  <2>2. started \in Ids /\ started < MaxTxns
    BY Zenon DEF IInv, TypeOK, RunPurchase
  <2>3. paid \in [Ids -> Nat] /\ owed \in [Ids -> 0..MaxQuarters]
    BY Zenon DEF IInv, TypeOK
  <2>4. started + 1 \in Ids
    BY <2>2, TxnAssumption DEF Ids
  <2> QED BY <2>1, <2>2, <2>3, <2>4, QuartersRange, ZenonT(30)
<1> HIDE DEF q
<1>1. DTypeOK' /\ InOrder(tail)' /\ TailInv'
  <2>1. DTypeOK'
    BY Zenon DEF IInv, TypeOK, DTypeOK, RunPurchase, dvars
  <2>2. InOrder(tail)' /\ TailInv'
    BY Zenon DEF IInv, InOrder, TailInv, Backed, RunPurchase
  <2> QED BY <2>1, <2>2, Zenon
<1>2. /\ t' \in Txns /\ t'.id = started + 1 /\ t'.quarters = q
      /\ t'.phase = "PENDING" /\ t'.dispensed = 0
      /\ started' = started + 1
      /\ unsaved' /\ pc' = "guard1" /\ pc = "idle"
  BY <1>0, TxnAssumption DEF RunPurchase, At, Txns, Phases, Ids, q
<1>3. TypeOK'
  <2>1. pc' \in Pcs /\ unsaved' \in BOOLEAN /\ caller' \in {"purchase", "resume"}
    BY Zenon DEF RunPurchase, Pcs
  <2>2. owed' \in [Ids -> 0..MaxQuarters]
    BY <1>0, Zenon DEF RunPurchase, q
  <2> QED BY <1>0, <1>1, <1>2, <2>1, <2>2, Zenon DEF IInv, TypeOK, RunPurchase
<1>4. ControlInv'
  BY <1>2, Zenon DEF IInv, ControlInv, Phases, dvars, RunPurchase
<1>5. MemoryInv' /\ PayeeInv' /\ TornInv'
  BY <1>0, <1>2 DEF MemoryInv, PayeeInv, TornInv, Earned, RunPurchase
<1>6. AnswerInv' /\ HeldInv'
  <2>1. answered' \subseteq 1..started' /\ t'.id \notin answered'
    BY <1>0, <1>2, TxnAssumption DEF IInv, AnswerInv, RunPurchase, Ids
  <2>2. t'.id = started' /\ started' > 0
    BY <1>0, <1>2, TxnAssumption DEF Ids
  <2>3. ~motor' /\ (held' => fault')
    BY <1>2, Zenon DEF IInv, ControlInv, RunPurchase, dvars
  <2>4. "disk" \notin mishaps' /\ tail'.id \in answered' => tail'.ended /\ tail'.phase \notin Resumable
    BY Zenon DEF IInv, AnswerInv, RunPurchase
  <2> QED BY <1>2, <2>1, <2>2, <2>3, <2>4, Zenon DEF AnswerInv, HeldInv
<1> QED BY <1>1, <1>3, <1>4, <1>5, <1>6, Zenon DEF IInv

\* dispenseCoins is called for the rest of the transaction.
LEMMA StartDispenseInv == IInv /\ StartDispense => IInv'
<1> SUFFICES ASSUME IInv, StartDispense PROVE IInv'
  BY Zenon
<1>0. /\ t \in Txns /\ t.id \in Ids /\ t.quarters \in 0..MaxQuarters
      /\ t.quarters > t.dispensed /\ paid \in [Ids -> Nat] /\ pc = "call" /\ ~unsaved
  BY Zenon DEF IInv, TypeOK, ControlInv, StartDispense, At
<1>1. InOrder(tail)' /\ TailInv'
  BY Zenon DEF IInv, InOrder, TailInv, Backed, StartDispense
<1>2. t' = t /\ UNCHANGED unsaved /\ pc' = "hopper"
  BY Zenon DEF StartDispense, Goto
<1>3. TypeOK'
  <2>1. t.quarters - t.dispensed \in 0..MaxCoins
    BY <1>0, TxnAssumption DEF Txns
  <2>2. NoResult \in Results
    BY Zenon DEF NoResult, Results, Reasons
  <2>3. DTypeOK'
    BY <2>1, <2>2, DispenseAssumption DEF IInv, TypeOK, DTypeOK, StartDispense, Call, StartAttempt
  <2>4. pc' \in Pcs /\ payee' \in Ids
    BY <1>0, <1>2, Zenon DEF Pcs, StartDispense
  <2> QED BY <1>2, <2>3, <2>4, Zenon DEF IInv, TypeOK, StartDispense
<1>4. ControlInv'
  BY <1>0, <1>2, Zenon DEF IInv, ControlInv, StartDispense, Call, StartAttempt
<1>5. MemoryInv' /\ PayeeInv' /\ TornInv'
  BY <1>0, <1>2 DEF IInv, MemoryInv, PayeeInv, TornInv, Active, Trusted, Txns,
                    StartDispense, Call, StartAttempt
<1>6. AnswerInv' /\ HeldInv'
  BY <1>0, <1>2, Zenon DEF IInv, AnswerInv, HeldInv, Active, StartDispense
<1> QED BY <1>1, <1>3, <1>4, <1>5, <1>6, Zenon DEF IInv

(***************************************************************************)
(* A falling coin is paid to whom the motor was started for.               *)
(***************************************************************************)
LEMMA PayFacts ==
  ASSUME TypeOK, stock' = stock - 1, Pay
  PROVE  /\ paid' \in [Ids -> Nat]
         /\ paid'[payee] = paid[payee] + 1
         /\ \A i \in Ids : paid'[i] >= paid[i] /\ (i # payee => paid'[i] = paid[i])
<1>1. paid \in [Ids -> Nat] /\ payee \in Ids /\ stock \in 0..HopperStock
  BY Zenon DEF TypeOK, DTypeOK
<1>2. stock - stock' = 1
  BY <1>1, DispenseAssumption
<1>3. paid' = [paid EXCEPT ![payee] = @ + 1]
  BY <1>2, Zenon DEF Pay
<1> QED BY <1>1, <1>3

\* Coins that fall only add to what the journal already credits.
LEMMA TailPaid ==
  ASSUME IInv, stock' = stock - 1, Pay, UNCHANGED <<tail, mishaps>>
  PROVE  InOrder(tail)' /\ TailInv'
<1>1. \A i \in Ids : paid[i] \in Nat /\ paid'[i] \in Nat /\ paid'[i] >= paid[i]
  BY PayFacts, Zenon DEF IInv, TypeOK
<1>2. /\ Default(tail.id) \in Ids
      /\ Default(tail.dispensed) \in Nat /\ Default(tail.quarters) \in Nat
  BY TxnAssumption DEF IInv, TypeOK, Default, Ids, Lines, Numbers, Absent
<1>3. TailInv'
  BY <1>1, <1>2 DEF IInv, TailInv, Backed
<1> QED BY <1>3, Zenon DEF IInv, InOrder

\* A coin leaves the hopper while dispenseCoins runs.
LEMMA CoinFallsInv == IInv /\ CoinFalls => IInv'
<1> SUFFICES ASSUME IInv, CoinFalls PROVE IInv'
  BY Zenon
<1>0. /\ t \in Txns /\ t.id \in Ids /\ paid \in [Ids -> Nat] /\ pulses \in Nat
      /\ stock \in 0..HopperStock /\ payee = t.id /\ pc = "hopper" /\ TypeOK
  BY Zenon DEF IInv, TypeOK, DTypeOK, PayeeInv, CoinFalls, At
<1>1. /\ stock' = stock - 1 /\ stock > 0
      /\ pulses' \in {pulses, pulses + 1}
      /\ dpc = "done" => pulses' = pulses
      /\ slips' \in {slips, slips \cup {"unseen"}}
      /\ UNCHANGED <<motor, dpc, attempt, coins, res, before>>
  BY Zenon DEF CoinFalls, CoinSeen, CoinUnseen
<1>2. Pay
  BY Zenon DEF CoinFalls
<1>3. /\ paid' \in [Ids -> Nat]
      /\ paid'[t.id] = paid[t.id] + 1
  BY <1>0, <1>1, <1>2, PayFacts, Zenon
<1>4. InOrder(tail)' /\ TailInv'
  BY <1>1, <1>2, TailPaid, Zenon DEF CoinFalls
<1>5. TypeOK'
  <2>1. DTypeOK'
    BY <1>0, <1>1, DispenseAssumption DEF TypeOK, DTypeOK
  <2> QED BY <1>0, <1>3, <2>1, Zenon DEF TypeOK, CoinFalls
<1>6. ControlInv'
  BY <1>1, Zenon DEF IInv, ControlInv, CoinFalls
<1>7. MemoryInv' /\ PayeeInv' /\ TornInv'
  BY <1>0, <1>1, <1>3 DEF IInv, MemoryInv, PayeeInv, TornInv, Active, Trusted, Txns, CoinFalls
<1>8. AnswerInv' /\ HeldInv'
  BY <1>0, Zenon DEF IInv, AnswerInv, HeldInv, Active, CoinFalls
<1> QED BY <1>4, <1>5, <1>6, <1>7, <1>8, Zenon DEF IInv

\* A coin leaves the hopper while no process runs.
LEMMA PayingWhileOffInv == IInv /\ PayingWhileOff => IInv'
<1> SUFFICES ASSUME IInv, PayingWhileOff PROVE IInv'
  BY Zenon
<1>0. TypeOK /\ pc = "off" /\ Pay /\ stock \in 0..HopperStock
  BY Zenon DEF IInv, TypeOK, DTypeOK, PayingWhileOff
<1>1. /\ stock' = stock - 1 /\ stock > 0 /\ slips' = slips \cup {"unseen"}
      /\ UNCHANGED <<motor, pulses, dpc, attempt, coins, res, before>>
  BY Zenon DEF PayingWhileOff, CoinUnseen
<1>2. paid' \in [Ids -> Nat]
  BY <1>0, <1>1, PayFacts, Zenon
<1>3. InOrder(tail)' /\ TailInv'
  BY <1>0, <1>1, TailPaid, Zenon DEF PayingWhileOff
<1>4. TypeOK'
  <2>1. DTypeOK'
    BY <1>0, <1>1, DispenseAssumption, SMTT(20), ZenonT(20) DEF TypeOK, DTypeOK
  <2> QED BY <1>0, <1>2, <2>1, Zenon DEF TypeOK, PayingWhileOff
<1>5. ControlInv' /\ MemoryInv' /\ PayeeInv' /\ TornInv' /\ AnswerInv' /\ HeldInv'
  BY <1>0, <1>1, Zenon DEF IInv, ControlInv, MemoryInv, PayeeInv, TornInv, AnswerInv, HeldInv, Active,
                    PayingWhileOff
<1> QED BY <1>3, <1>4, <1>5, Zenon DEF IInv

\* dispenseCoins goes on by itself.
LEMMA DispensingInv == IInv /\ Dispensing => IInv'
<1> SUFFICES ASSUME IInv, Dispensing PROVE IInv'
  BY Zenon
<1>0. /\ TypeOK /\ pc = "hopper" /\ ~unsaved /\ pulses \in Nat
      /\ t \in Txns /\ t.id \in Ids /\ paid \in [Ids -> Nat]
  BY Zenon DEF IInv, TypeOK, DTypeOK, Dispensing, At
<1>1. InOrder(tail)' /\ TailInv'
  BY Zenon DEF IInv, InOrder, TailInv, Backed, Dispensing, evars
<1>2. /\ DTypeOK'
      /\ pulses' \in {pulses, 0}
      /\ dpc' = "backoff" => attempt' < MaxRetries
      /\ dpc' = "done" => res'.dispensed = pulses'
      /\ motor' => dpc' \in {"settle", "poll"}
  <2>0. DTypeOK /\ (dpc = "backoff" => attempt < MaxRetries)
        /\ (motor => dpc \in {"settle", "poll"})
    BY <1>0, Zenon DEF IInv, TypeOK, ControlInv
  <2>1. CASE Settled
    BY <2>0, <2>1, Zenon DEF Settled, DTypeOK
  <2>2. CASE JamRetry
    BY <2>0, <2>2, Zenon DEF JamRetry, DTypeOK
  <2>3. CASE Retry
    BY <2>0, <2>3, DispenseAssumption DEF Retry, StartAttempt, DTypeOK
  <2>4. ASSUME NEW ok \in BOOLEAN, NEW reason \in Reasons, Finish(ok, reason),
               UNCHANGED <<stock, pulses, attempt, coins, before, slips>>
        PROVE  /\ DTypeOK'
               /\ pulses' = pulses /\ dpc' = "done" /\ ~motor'
               /\ res'.dispensed = pulses'
    <3>1. res' \in Results /\ res'.dispensed = pulses
      BY <1>0, <2>4, Zenon DEF Finish, Results
    <3> QED BY <2>0, <2>4, <3>1, Zenon DEF Finish, DTypeOK
  <2>5. CASE Complete
    BY <2>4, <2>5, Zenon DEF Complete, Reasons
  <2>6. CASE JamOut
    BY <2>4, <2>6, Zenon DEF JamOut, Reasons
  <2>7. CASE Timeout
    BY <2>4, <2>7, Zenon DEF Timeout, Reasons
  <2> QED BY <2>1, <2>2, <2>3, <2>5, <2>6, <2>7, Zenon DEF Dispensing, Control
<1>3. TypeOK'
  BY <1>0, <1>2, Zenon DEF TypeOK, Dispensing, evars
<1>4. ControlInv'
  BY <1>0, <1>2, Zenon DEF IInv, ControlInv, Dispensing, evars
<1>5. MemoryInv' /\ PayeeInv' /\ TornInv'
  BY <1>0, <1>2 DEF IInv, MemoryInv, PayeeInv, TornInv, Active, Trusted, Txns, Dispensing, evars
<1>6. AnswerInv' /\ HeldInv'
  BY <1>0, Zenon DEF IInv, AnswerInv, HeldInv, Active, Dispensing, evars
<1> QED BY <1>1, <1>3, <1>4, <1>5, <1>6, Zenon DEF IInv

\* The count of dispenseCoins is credited to the transaction.
LEMMA DispensedInv == IInv /\ Dispensed => IInv'
<1> SUFFICES ASSUME IInv, Dispensed PROVE IInv'
  BY Zenon
<1>0. /\ TypeOK /\ pc = "hopper" /\ ~unsaved /\ dpc = "done" /\ ~motor
      /\ t \in Txns /\ t.id \in Ids /\ paid \in [Ids -> Nat]
      /\ res \in Results /\ res.dispensed = pulses /\ pulses \in Nat
  BY Zenon DEF IInv, TypeOK, DTypeOK, ControlInv, Dispensed, Return, At
<1>1. InOrder(tail)' /\ TailInv'
  BY Zenon DEF IInv, InOrder, TailInv, Backed, Dispensed
<1>2. /\ t' \in Txns /\ t'.id = t.id /\ t'.quarters = t.quarters
      /\ t'.dispensed = t.dispensed + pulses /\ t'.phase = "DISPENSING"
      /\ unsaved' /\ pc' = "judge"
  <2>1. t' = [t EXCEPT !.dispensed = @ + pulses, !.phase = "DISPENSING"]
    BY <1>0, Zenon DEF Dispensed
  <2>2. t.dispensed + pulses \in Nat
    BY <1>0 DEF Txns
  <2>3. t' \in Txns
    BY <1>0, <2>1, <2>2, Zenon DEF Txns, Phases
  <2>4. /\ t'.id = t.id /\ t'.quarters = t.quarters
        /\ t'.dispensed = t.dispensed + pulses /\ t'.phase = "DISPENSING"
    BY <1>0, <2>1, Zenon DEF Txns
  <2> QED BY <2>3, <2>4, Zenon DEF Dispensed
<1>3. TypeOK'
  <2>1. DTypeOK'
    BY <1>0, Zenon DEF TypeOK, DTypeOK, Dispensed, Return
  <2>2. pc' \in Pcs /\ unsaved' \in BOOLEAN
    BY Zenon DEF Dispensed, Pcs
  <2> QED BY <1>0, <1>2, <2>1, <2>2, Zenon DEF TypeOK, Dispensed
<1>4. ControlInv'
  BY <1>0, <1>2, Zenon DEF ControlInv, Phases, Dispensed, Return
<1>5. MemoryInv' /\ PayeeInv' /\ TornInv'
  BY <1>0, <1>2, Zenon DEF IInv, MemoryInv, PayeeInv, TornInv, Active, Trusted, Txns, Earned, Dispensed
<1>6. AnswerInv' /\ HeldInv'
  BY <1>0, <1>2 DEF IInv, AnswerInv, HeldInv, Active, Dispensed, Return
<1> QED BY <1>1, <1>3, <1>4, <1>5, <1>6, Zenon DEF IInv

-----------------------------------------------------------------------------
(***************************************************************************)
(* The steps that change what is in the journal, or act on it.             *)
(***************************************************************************)
LEMMA CutShortFacts ==
  ASSUME NEW x \in Txns, x.phase \in Phases, NEW l, NEW n \in CutShort(l, x)
  PROVE  \E m : PartOf(m, x) /\ n \in Behind(l, m)
BY FragmentFacts, Zenon DEF CutShort

\* What Append and Crash rely on, and what they make of the last line.
LEMMA WriteFacts ==
  ASSUME IInv, unsaved, NEW n,
         \/ n \in Appended(tail, t)
         \/ n \in CutShort(tail, t)
  PROVE  /\ n \in Lines /\ InOrder(n)
         /\ n.id \in Ids \cup {Absent} /\ n.id \in {tail.id, t.id, Absent}
         /\ tail.ended => n.id \in {t.id, Absent}
         /\ n.quarters \in (0..MaxQuarters) \cup {Absent}
         /\ "disk" \notin mishaps /\ Trusted => Backed(n)
         /\ n \in Appended(tail, t) => n.ended
         /\ n \in Appended(tail, t) /\ tail.ended => n = Whole(t)
<1>0. /\ t \in Txns /\ t.phase \in Phases /\ t.id \in Ids /\ t.quarters \in 0..MaxQuarters
      /\ tail \in Lines /\ InOrder(tail) /\ tail.id \in Ids \cup {Absent}
      /\ tail.quarters \in (0..MaxQuarters) \cup {Absent}
      /\ paid \in [Ids -> Nat]
  BY Zenon DEF IInv, TypeOK, ControlInv
<1>1. PICK m : (m = Whole(t) \/ PartOf(m, t)) /\ n \in Behind(tail, m)
  BY <1>0, CutShortFacts, Zenon DEF Appended
<1>2. /\ n \in Lines /\ InOrder(n)
      /\ n.id \in {tail.id, t.id, Absent}
      /\ n.quarters \in {tail.quarters, Absent} \cup (0..t.quarters)
  BY <1>0, <1>1, BehindTyped, Zenon
<1>3. n.id \in Ids \cup {Absent} /\ n.quarters \in (0..MaxQuarters) \cup {Absent}
  BY <1>0, <1>2, TxnAssumption
<1>4. tail.ended => n.id \in {t.id, Absent}
  <2>1. m.id \in {t.id, Absent}
    BY <1>1, SMTT(20), ZenonT(20) DEF Whole, PartOf
  <2>2. tail.ended => n = m
    BY <1>1, Zenon DEF Behind
  <2> QED BY <2>1, <2>2, Zenon
<1>5. "disk" \notin mishaps /\ Trusted => Backed(n)
  <2> SUFFICES ASSUME "disk" \notin mishaps, Trusted PROVE Backed(n)
    BY Zenon
  <2>1. Backed(tail)
    BY Zenon DEF IInv, TailInv
  <2>2. t.dispensed <= paid[t.id] /\ (t.phase \in Earned => t.quarters <= paid[t.id])
    BY Zenon DEF IInv, ControlInv, MemoryInv, Active
  <2>3. \/ tail.ended
        \/ t.dispensed = 0 /\ t.phase = "PENDING"
        \/ tail.id = t.id /\ tail.phase # NoPhase
    BY Zenon DEF IInv, ControlInv, TornInv, Active
  <2> QED BY <1>0, <1>1, <2>1, <2>2, <2>3, BehindBacked, Zenon
<1>6. n \in Appended(tail, t) => n.ended
  <2>1. Whole(t) \in Lines /\ Whole(t).ended
    BY <1>0, Zenon DEF Whole, Lines, Txns, Numbers
  <2> QED BY <1>0, <2>1, BehindFacts, Zenon DEF Appended
<1>7. n \in Appended(tail, t) /\ tail.ended => n = Whole(t)
  BY Zenon DEF Appended, Behind
<1> QED BY <1>2, <1>3, <1>4, <1>5, <1>6, <1>7, Zenon

\* journal::append, whole, in part or not at all.
LEMMA AppendInv == IInv /\ Append => IInv'
<1> SUFFICES ASSUME IInv, Append PROVE IInv'
  BY Zenon
<1>0. unsaved /\ TypeOK /\ ~unsaved' /\ t.phase \in Phases
  BY Zenon DEF IInv, ControlInv, Append
<1>1. /\ tail' \in Lines /\ InOrder(tail')
      /\ tail'.id \in Ids \cup {Absent}
      /\ tail'.quarters \in (0..MaxQuarters) \cup {Absent}
  BY <1>0, WriteFacts, Zenon DEF Append, IInv, TypeOK
<1>2. /\ mishaps' \in {mishaps, mishaps \cup {"disk"}}
      /\ "disk" \notin mishaps' => "disk" \notin mishaps /\ tail' \in Appended(tail, t)
  BY Zenon DEF Append
<1>3. TypeOK'
  <2>1. DTypeOK'
    BY <1>0, Zenon DEF TypeOK, DTypeOK, Append, dvars
  <2>2. unsaved' \in BOOLEAN /\ mishaps' \subseteq {"crash", "torn", "disk"}
    BY <1>0, <1>2, ZenonT(30) DEF Append, TypeOK
  <2> QED BY <1>0, <1>1, <2>1, <2>2, Zenon DEF TypeOK, Append
<1>4. ControlInv'
  BY <1>0, Zenon DEF IInv, ControlInv, Append, dvars
<1>5. "disk" \notin mishaps' => /\ Trusted /\ Backed(tail') /\ tail'.ended
                                /\ tail'.id \in {tail.id, t.id, Absent}
                                /\ tail.ended => tail' = Whole(t)
  BY <1>0, <1>2, WriteFacts, Zenon DEF Trusted
<1>6. TailInv' /\ InOrder(tail)'
  BY <1>1, <1>5, Zenon DEF TailInv, Backed, InOrder, Append
<1>7. MemoryInv' /\ PayeeInv' /\ TornInv'
  BY <1>2, <1>5, ZenonT(30) DEF IInv, MemoryInv, PayeeInv, TornInv, Active, Trusted, Append, dvars
<1>8. AnswerInv' /\ HeldInv'
  <2>1. Active
    BY <1>0, Zenon DEF IInv, ControlInv, Active
  <2>2. "disk" \notin mishaps' =>
          /\ tail'.id \notin answered
          /\ pc = "return" /\ caller = "purchase" => tail'.phase = t.phase
    <3>1. Absent \notin answered
      BY <1>0, TxnAssumption DEF TypeOK, Absent, Ids
    <3>2. tail.ended /\ tail' = Whole(t) => tail'.id = t.id /\ tail'.phase = t.phase
      BY DEF Whole
    <3> QED BY <1>2, <1>5, <2>1, <3>1, <3>2, Zenon DEF IInv, AnswerInv
  <2> QED BY <1>0, <1>2, <1>5, <2>1, <2>2, Zenon DEF IInv, AnswerInv, HeldInv, Active, Append, dvars
<1> QED BY <1>3, <1>4, <1>6, <1>7, <1>8, Zenon DEF IInv

\* The process dies, possibly in the middle of an append.
LEMMA CrashInv == IInv /\ Crash => IInv'
<1> SUFFICES ASSUME IInv, Crash PROVE IInv'
  BY Zenon
<1>0. /\ TypeOK /\ pc # "off" /\ pc' = "off" /\ t' = NoTxn /\ ~unsaved' /\ ~held'
      /\ tail' = tail \/ (unsaved /\ tail' \in CutShort(tail, t))
      /\ mishaps' \subseteq mishaps \cup {"crash", "torn"} /\ mishaps \subseteq mishaps'
      /\ UNCHANGED <<caller, fault, started, payee, paid, owed, answered>>
  BY Zenon DEF IInv, Crash
<1>1. /\ tail' \in Lines /\ InOrder(tail')
      /\ tail'.id \in Ids \cup {Absent} /\ tail'.id \in {tail.id, t.id, Absent}
      /\ tail'.quarters \in (0..MaxQuarters) \cup {Absent}
  BY <1>0, WriteFacts, Zenon DEF IInv, TypeOK
<1>2. "disk" \notin mishaps' => "disk" \notin mishaps /\ Backed(tail')
  BY <1>0, WriteFacts, Zenon DEF IInv, TailInv, Trusted
<1>3. TailInv' /\ InOrder(tail)'
  BY <1>0, <1>1, <1>2, Zenon DEF TailInv, Backed, InOrder
<1>4. TypeOK'
  <2>1. NoResult \in Results /\ NoTxn \in Txns /\ NoTxn.id = 0 /\ NoTxn.quarters = 0
    BY Zenon DEF NoResult, Results, Reasons, NoTxn, Txns
  <2>2. 0 \in Ids /\ 0 \in 0..MaxQuarters
    BY TxnAssumption DEF Ids
  <2>3. motor' \in BOOLEAN
    BY <1>0, Zenon DEF TypeOK, DTypeOK, Crash
  <2>4. DTypeOK'
    BY <1>0, <2>1, <2>3, DispenseAssumption DEF TypeOK, DTypeOK, Crash
  <2>5. crashes' \in 0..MaxCrashes
    BY <1>0, TxnAssumption DEF TypeOK, Crash
  <2>6. shutter' \in {"closed", "open", "ajar"}
    BY <1>0, Zenon DEF TypeOK, Crash
  <2>7. pc' \in Pcs /\ unsaved' \in BOOLEAN /\ held' \in BOOLEAN
    BY ZenonT(30) DEF Crash, Pcs
  <2>8. mishaps' \subseteq {"crash", "torn", "disk"}
    BY <1>0, Zenon DEF TypeOK
  <2> QED BY <1>0, <1>1, <2>1, <2>2, <2>4, <2>5, <2>6, <2>7, <2>8, Zenon DEF TypeOK
<1>5. ControlInv'
  BY <1>0, Zenon DEF ControlInv, Crash
<1>6. MemoryInv' /\ PayeeInv' /\ TornInv' /\ HeldInv'
  BY <1>0, Zenon DEF MemoryInv, PayeeInv, TornInv, HeldInv, Active
<1>7. AnswerInv'
  <2>1. motor' => motor
    BY <1>0, Zenon DEF TypeOK, DTypeOK, Crash
  <2>2. "disk" \notin mishaps /\ motor' => payee \notin answered
    BY <1>0, <2>1, Zenon DEF IInv, ControlInv, PayeeInv, AnswerInv, Active
  <2>3. "disk" \notin mishaps /\ tail'.id \in answered => tail'.ended /\ tail'.phase \notin Resumable
    <3>1. CASE tail' = tail
      BY <3>1, Zenon DEF IInv, AnswerInv
    <3>2. CASE unsaved /\ tail' \in CutShort(tail, t)
      <4>1. Active
        BY <3>2, Zenon DEF IInv, ControlInv, Active
      <4>2. Absent \notin answered
        BY <1>0, TxnAssumption DEF TypeOK, Absent, Ids
      <4>3. tail.ended => tail'.id \in {t.id, Absent}
        BY <3>2, WriteFacts, Zenon
      <4> QED BY <1>1, <4>1, <4>2, <4>3, Zenon DEF IInv, AnswerInv
    <3> QED BY <1>0, <3>1, <3>2, Zenon
  <2> QED BY <1>0, <2>2, <2>3, Zenon DEF IInv, AnswerInv, Active
<1> QED BY <1>3, <1>4, <1>5, <1>6, <1>7, Zenon DEF IInv

\* load_last and the dispatch of resume_if_needed.
LEMMA StartInv == IInv /\ Start => IInv'
<1> SUFFICES ASSUME IInv, Start PROVE IInv'
  BY Zenon
<1>0. /\ TypeOK /\ pc = "off" /\ ~unsaved /\ ~held /\ motor' = FALSE
      /\ tail \in Lines /\ tail.id \in Ids \cup {Absent} /\ paid \in [Ids -> Nat]
      /\ tail.quarters \in (0..MaxQuarters) \cup {Absent} /\ t \in Txns
      /\ UNCHANGED <<stock, pulses, dpc, attempt, coins, res, before, slips, unsaved, tail,
                     fault, shutter, started, crashes, payee, paid, owed, answered, mishaps>>
  BY Zenon DEF IInv, TypeOK, ControlInv, HeldInv, Start
<1>1. InOrder(tail)' /\ TailInv'
  BY <1>0, Zenon DEF IInv, InOrder, TailInv, Backed
<1>2. DTypeOK'
  BY <1>0, Zenon DEF TypeOK, DTypeOK
<1>3. CASE tail.bad
  <2>1. UNCHANGED <<pc, t, caller, held>>
    BY <1>3, Zenon DEF Start
  <2>2. TypeOK'
    BY <1>0, <1>2, <2>1, Zenon DEF TypeOK
  <2>3. ControlInv' /\ MemoryInv' /\ PayeeInv' /\ TornInv' /\ AnswerInv' /\ HeldInv'
    BY <1>0, <2>1, Zenon DEF IInv, ControlInv, MemoryInv, PayeeInv, TornInv, AnswerInv, HeldInv, Active
  <2> QED BY <1>1, <2>2, <2>3, Zenon DEF IInv
<1>4. CASE ~tail.bad
  <2>1. /\ t' = LoadLast(tail) /\ caller' = "resume" /\ held' = fault
        /\ pc' \in {"guard1", "close", "idle"}
        /\ pc' # "idle" => tail.phase \in Resumable
        /\ pc' = "close" => tail.phase = "PRESENTING"
    BY <1>4, Zenon DEF Start, Resumable
  <2>2. /\ t' \in Txns /\ t'.id = Default(tail.id) /\ t'.quarters = Default(tail.quarters)
        /\ t'.phase = tail.phase /\ t'.dispensed = Default(tail.dispensed)
        /\ t'.id \in Ids /\ t'.quarters \in 0..MaxQuarters
    BY <1>0, <2>1, TxnAssumption, SMTT(20), ZenonT(20) DEF LoadLast, Default, Lines, Numbers, Txns, Absent, Ids
  <2>3. TypeOK'
    <3>1. pc' \in Pcs
      BY <2>1, Zenon DEF Pcs
    <3> QED BY <1>0, <1>2, <2>1, <2>2, <3>1, Zenon DEF TypeOK
  <2>4. ControlInv'
    BY <1>0, <2>1, Zenon DEF IInv, ControlInv
  <2>5. MemoryInv' /\ PayeeInv' /\ HeldInv'
    BY <1>0, <2>1, <2>2, Zenon DEF IInv, TailInv, Backed, MemoryInv, PayeeInv, HeldInv, Active, Trusted,
                            Earned
  <2>6. pc' # "idle" => tail.id = t'.id /\ tail.phase # NoPhase
    BY <2>1, <2>2, Zenon DEF IInv, InOrder, Default, Resumable, NoPhase
  <2>7. TornInv' /\ AnswerInv'
    BY <1>0, <2>1, <2>6, Zenon DEF IInv, TornInv, AnswerInv, Active
  <2> QED BY <1>1, <2>3, <2>4, <2>5, <2>7, Zenon DEF IInv
<1> QED BY <1>3, <1>4, Zenon

-----------------------------------------------------------------------------
\* Every step of the engine and its surroundings preserves the invariant.
LEMMA StepInv == IInv /\ [Next]_vars => IInv'
<1> SUFFICES ASSUME IInv, [Next]_vars PROVE IInv'
  BY Zenon
<1>1. CASE \E price \in Prices, deposit \in Deposits : RunPurchase(price, deposit)
  BY <1>1, RunPurchaseInv, Zenon
<1>2. CASE Engine
  BY <1>2, AppendInv, Guard1Inv, StartDispenseInv, DispensingInv, DispensedInv, JudgeInv,
     Guard2Inv, OpenInv, Guard3Inv, CloseInv, FinishedInv, ReturnTxnInv, Zenon DEF Engine
<1>3. CASE CoinFalls \/ Crash \/ PayingWhileOff \/ Start \/ FaultChange
  BY <1>3, CoinFallsInv, CrashInv, PayingWhileOffInv, StartInv, FaultChangeInv, Zenon
<1>4. CASE UNCHANGED vars
  <2>1. UNCHANGED <<t, pc, unsaved, caller, tail, started, payee, paid, answered, held, mishaps, fault>>
    BY <1>4, Zenon DEF vars, evars
  <2>2. DTypeOK'
    BY <1>4, Zenon DEF vars, dvars, IInv, TypeOK, DTypeOK
  <2>3. TypeOK'
    BY <1>4, <2>2, SMTT(20), ZenonT(20) DEF vars, evars, IInv, TypeOK
  <2>4. ControlInv'
    BY <1>4, Zenon DEF vars, evars, dvars, IInv, ControlInv, Active
  <2>5. InOrder(tail)' /\ TailInv' /\ MemoryInv'
    BY <1>4, <2>1, Zenon DEF vars, evars, dvars, IInv, InOrder, TailInv, Backed, MemoryInv, Active, Trusted
  <2>6. PayeeInv' /\ TornInv'
    <3>1. PayeeInv'
      BY <2>1, Zenon DEF IInv, PayeeInv
    <3>2. TornInv'
      BY <2>1, Zenon DEF IInv, TornInv, Active
    <3> QED BY <3>1, <3>2, Zenon
  <2>7. AnswerInv' /\ HeldInv'
    BY <1>4, <2>1 DEF vars, evars, dvars, IInv, AnswerInv, HeldInv, Active
  <2> QED BY <2>3, <2>4, <2>5, <2>6, <2>7, Zenon DEF IInv
<1> QED BY <1>1, <1>2, <1>3, <1>4, Zenon DEF Next

\* The inductive invariant of the engine, its journal and its dispenser.
THEOREM Invariance == Spec => []IInv
BY InitInv, StepInv, PTL DEF Spec

(***************************************************************************)
(* The types hold throughout: in particular a call never asks the hopper   *)
(* for a negative number of coins or for more than the plan, whatever was  *)
(* read back from the journal (continue_txn, remaining).                   *)
(***************************************************************************)
THEOREM TypeCorrect == Spec => []TypeOK
<1>1. IInv => TypeOK
  BY Zenon DEF IInv
<1> QED BY <1>1, Invariance, PTL

(***************************************************************************)
(* DONE is only ever returned for a transaction whose quarters left the    *)
(* hopper and whose shutter closed again (continue_txn and the PRESENTING  *)
(* branch of resume_if_needed).                                            *)
(***************************************************************************)
THEOREM DoneIsPaid == Spec => []DoneMeansPaid
<1>1. IInv => DoneMeansPaid
  <2> SUFFICES ASSUME IInv, pc = "return", t.phase = "DONE",
                      "disk" \notin mishaps \/ caller = "purchase"
               PROVE  paid[t.id] >= t.quarters /\ shutter = "closed"
    BY Zenon DEF DoneMeansPaid
  <2>1. shutter = "closed"
    BY Zenon DEF IInv, ControlInv
  <2>2. t.quarters <= paid[t.id]
    BY Zenon DEF IInv, MemoryInv, Active, Trusted, Earned
  <2>3. t.quarters \in Nat /\ paid[t.id] \in Nat
    BY TxnAssumption, SMTT(20), ZenonT(20) DEF IInv, TypeOK
  <2> QED BY <2>1, <2>2, <2>3, Zenon
<1> QED BY <1>1, Invariance, PTL

(***************************************************************************)
(* What load_last reads as dispensed was paid to the transaction it names, *)
(* whatever crashes and torn lines came before.                            *)
(***************************************************************************)
THEOREM CreditIsPaid == Spec => []CreditWasPaid
<1>1. IInv => CreditWasPaid
  BY Zenon DEF IInv, TailInv, Backed, CreditWasPaid, LoadLast
<1> QED BY <1>1, Invariance, PTL

(***************************************************************************)
(* No coin leaves for a transaction whose caller has its answer.           *)
(***************************************************************************)
THEOREM AnswersAreFinal == Spec => AnsweredIsFinal
<1>1. IInv /\ [Next]_vars => [ "disk" \notin mishaps => \A i \in answered : paid'[i] = paid[i] ]_vars
  <2> SUFFICES ASSUME IInv, Next, "disk" \notin mishaps, NEW i \in answered
               PROVE  paid'[i] = paid[i]
    BY Zenon DEF vars, evars
  <2>1. TypeOK /\ i \in Ids
    BY Zenon DEF IInv, TypeOK
  <2>2. CASE CoinFalls
    <3>1. payee # i
      BY <2>2, Zenon DEF IInv, PayeeInv, AnswerInv, Active, CoinFalls, At
    <3>2. stock' = stock - 1 /\ Pay
      BY <2>2, Zenon DEF CoinFalls, CoinSeen, CoinUnseen
    <3> QED BY <2>1, <3>1, <3>2, PayFacts, Zenon
  <2>3. CASE PayingWhileOff
    <3>1. payee # i
      BY <2>3, Zenon DEF IInv, AnswerInv, PayingWhileOff, CoinUnseen
    <3>2. stock' = stock - 1 /\ Pay
      BY <2>3, Zenon DEF PayingWhileOff, CoinUnseen
    <3> QED BY <2>1, <3>1, <3>2, PayFacts, Zenon
  <2>4. CASE \/ \E price \in Prices, deposit \in Deposits : RunPurchase(price, deposit)
             \/ Engine \/ Crash \/ Start \/ FaultChange
    <3>1. UNCHANGED paid
      BY <2>4, Zenon DEF RunPurchase, Engine, Append, Guard1, StartDispense, Dispensing, Dispensed, Judge,
                  Guard2, Open, Guard3, Close, Finished, ReturnTxn, Crash, Start, FaultChange, evars
    <3> QED BY <3>1, Zenon
  <2> QED BY <2>2, <2>3, <2>4, Zenon DEF Next
<1> QED BY <1>1, Invariance, PTL DEF Spec, AnsweredIsFinal

(***************************************************************************)
(* FaultManager::check_and_block_motion is asked often enough: with a      *)
(* fault active from the start of a purchase or a resumption on, no coin   *)
(* leaves and the shutter does not open.                                   *)
(***************************************************************************)
THEOREM HeldFaultIsSafe == Spec => HeldFaultStopsMotion
<1>1. IInv /\ [Next]_vars =>
        [ held => stock' = stock /\ (shutter' = "open" => shutter = "open") ]_vars
  <2> SUFFICES ASSUME IInv, Next, held
               PROVE  stock' = stock /\ (shutter' = "open" => shutter = "open")
    BY Zenon DEF vars, evars, dvars
  <2>1. pc \notin {"off", "call", "hopper", "open"}
    BY Zenon DEF IInv, HeldInv
  <2>2. CASE \E price \in Prices, deposit \in Deposits : RunPurchase(price, deposit)
    BY <2>2, Zenon DEF RunPurchase, dvars
  <2>3. CASE Crash
    BY <2>3, Zenon DEF Crash
  <2>4. CASE Engine
    BY <2>1, <2>4, Zenon DEF Engine, Append, Guard1, StartDispense, Dispensing, Dispensed, Judge,
                  Guard2, Open, Guard3, Close, Finished, ReturnTxn, At, Void, Save, dvars
  <2>5. CASE CoinFalls \/ PayingWhileOff \/ Start \/ FaultChange
    BY <2>1, <2>5, Zenon DEF CoinFalls, PayingWhileOff, Start, FaultChange, At, dvars
  <2> QED BY <2>2, <2>3, <2>4, <2>5, Zenon DEF Next
<1> QED BY <1>1, Invariance, PTL DEF Spec, HeldFaultStopsMotion

-----------------------------------------------------------------------------
(***************************************************************************)
(* The second part of the inductive invariant: how the journal, the coins  *)
(* and the plan of a transaction agree when nothing went wrong.            *)
(***************************************************************************)
\* No coin leaves for a transaction before its PENDING record was written.
OrderInv ==
  /\ tail.id <= started /\ payee <= started
  /\ Active => t.id <= started
  /\ \A i \in Ids : i > started => paid[i] = 0
  /\ unsaved /\ pc = "guard1" => paid[t.id] = 0

\* The disk kept every record that was written to it.
Kept == mishaps \cap {"disk", "torn"} = {}
StorageInv == Storage = {} => Kept

\* What resume_if_needed would read back: a whole record of the engine's own
\* transaction or, while the engine has yet to append, the record before that.
WroteInv ==
  Kept =>
    /\ tail.ended /\ ~tail.bad
    /\ tail.phase \in Phases \cup {NoPhase}
    /\ tail.phase # NoPhase => tail.id > 0 /\ tail.dispensed # Absent
                               /\ tail.quarters = owed[tail.id]
    /\ tail.phase = NoPhase => tail.id = Absent
    /\ tail.phase \in Resumable => tail.id = started
    /\ pc = "idle" => tail.phase \notin Resumable
    /\ Active => t.id = started /\ started > 0 /\ t.quarters = owed[t.id]
    /\ Active /\ ~unsaved => tail = Whole(t)
    /\ unsaved /\ pc = "guard1" => tail.id < t.id
    /\ unsaved /\ pc # "guard1" => tail.id = t.id
    /\ unsaved /\ pc # "guard1" /\ t.phase = "DONE" => tail.phase = "CLOSED"
    /\ unsaved /\ pc # "guard1" /\ t.phase # "DONE" => tail.phase \in Resumable
    /\ pc \in {"guard1", "call", "hopper"} => t.phase \in {"PENDING", "DISPENSING"}
    /\ pc \in {"judge", "guard2", "open", "guard3", "close"} => t.phase \in Resumable
    /\ motor /\ pc = "off" => payee = started /\ tail.id = started
                              /\ tail.phase \in {"PENDING", "DISPENSING"}

\* The count of the engine is the number of coins that left the hopper.
ExactInv ==
  slips = {} /\ mishaps = {} =>
    /\ motor => pc = "hopper"
    /\ \A i \in Ids : paid[i] <= owed[i]
    /\ Active => t.dispensed <= t.quarters
    /\ Active /\ pc # "hopper" => paid[t.id] = t.dispensed
    /\ pc = "hopper" => /\ paid[t.id] = t.dispensed + pulses
                        /\ coins = t.quarters - t.dispensed /\ pulses <= coins
    /\ tail.phase # NoPhase /\ ~Uncredited => tail.dispensed = paid[tail.id]

AInv == OrderInv /\ StorageInv /\ WroteInv /\ ExactInv

\* A device that was never switched on satisfies it.
LEMMA InitAgrees == Init => AInv
<1> SUFFICES ASSUME Init PROVE AInv
  BY Zenon
<1> USE TxnAssumption DEF Init, DInit
<1>1. OrderInv /\ StorageInv
  BY DEF OrderInv, StorageInv, Kept, Active, EmptyFile, Absent, Ids
<1>2. WroteInv
  BY Zenon DEF WroteInv, Active, EmptyFile, NoPhase, Resumable, Phases
<1>3. ExactInv
  BY DEF ExactInv, Active, EmptyFile, NoPhase, Ids
<1> QED BY <1>1, <1>2, <1>3, Zenon DEF AInv

-----------------------------------------------------------------------------
(***************************************************************************)
(* The checks of continue_txn and the steps of the shutter move no coin    *)
(* and write no line: they go on, or set the phase that is appended next.  *)
(***************************************************************************)
Move ==
  /\ Quiet
  /\ ~unsaved
  /\ t'.id = t.id /\ t'.quarters = t.quarters /\ t'.dispensed = t.dispensed
  /\ \/ /\ pc \in {"guard1", "judge", "guard2", "open", "guard3", "close"}
        /\ unsaved' /\ pc' = "return" /\ t'.phase = "VOID"
     \/ pc = "open" /\ unsaved' /\ pc' = "guard3" /\ t'.phase = "PRESENTING"
     \/ pc = "close" /\ unsaved' /\ pc' = "finish" /\ t'.phase = "CLOSED"
     \/ pc = "finish" /\ unsaved' /\ pc' = "return" /\ t'.phase = "DONE"
     \/ /\ t' = t /\ ~unsaved'
        /\ \/ pc = "guard1" /\ pc' \in {"call", "guard2"}
           \/ pc = "judge" /\ pc' = "guard2"
           \/ pc = "guard2" /\ pc' = "open"
           \/ pc = "guard3" /\ pc' = "close"

LEMMA MoveFacts ==
  ASSUME IInv, Guard1 \/ Judge \/ Guard2 \/ Open \/ Guard3 \/ Close \/ Finished
  PROVE  Move
<1>0. t \in Txns
  BY Zenon DEF IInv, TypeOK
<1>1. CASE Guard1
  <2>1. Quiet /\ ~unsaved /\ pc = "guard1"
    BY <1>1, Zenon DEF Guard1, At, Quiet
  <2>2. Void \/ (UNCHANGED <<t, unsaved>> /\ pc' \in {"call", "guard2"})
    BY <1>1, Zenon DEF Guard1, Goto
  <2>3. CASE Void
    BY <1>0, <2>1, <2>3, VoidFacts, Zenon DEF Move
  <2>4. CASE ~Void
    BY <2>1, <2>2, <2>4 DEF Move
  <2> QED BY <2>3, <2>4, Zenon
<1>2. CASE Judge
  <2>1. Quiet /\ ~unsaved /\ pc = "judge"
    BY <1>2, Zenon DEF Judge, At, Quiet
  <2>2. Void \/ (UNCHANGED <<t, unsaved>> /\ pc' \in {"guard2"})
    BY <1>2, Zenon DEF Judge, Goto
  <2>3. CASE Void
    BY <1>0, <2>1, <2>3, VoidFacts, Zenon DEF Move
  <2>4. CASE ~Void
    BY <2>1, <2>2, <2>4 DEF Move
  <2> QED BY <2>3, <2>4, Zenon
<1>3. CASE Guard2
  <2>1. Quiet /\ ~unsaved /\ pc = "guard2"
    BY <1>3, Zenon DEF Guard2, At, Quiet
  <2>2. Void \/ (UNCHANGED <<t, unsaved>> /\ pc' \in {"open"})
    BY <1>3, Zenon DEF Guard2, Goto
  <2>3. CASE Void
    BY <1>0, <2>1, <2>3, VoidFacts, Zenon DEF Move
  <2>4. CASE ~Void
    BY <2>1, <2>2, <2>4 DEF Move
  <2> QED BY <2>3, <2>4, Zenon
<1>4. CASE Open
  BY <1>0, <1>4, VoidFacts, SaveFacts, Zenon DEF Open, At, Move, Quiet, Phases
<1>5. CASE Guard3
  <2>1. Quiet /\ ~unsaved /\ pc = "guard3"
    BY <1>5, Zenon DEF Guard3, At, Quiet
  <2>2. Void \/ (UNCHANGED <<t, unsaved>> /\ pc' \in {"close"})
    BY <1>5, Zenon DEF Guard3, Goto
  <2>3. CASE Void
    BY <1>0, <2>1, <2>3, VoidFacts, Zenon DEF Move
  <2>4. CASE ~Void
    BY <2>1, <2>2, <2>4 DEF Move
  <2> QED BY <2>3, <2>4, Zenon
<1>6. CASE Close
  BY <1>0, <1>6, VoidFacts, SaveFacts, Zenon DEF Close, At, Move, Quiet, Phases
<1>7. CASE Finished
  BY <1>0, <1>7, SaveFacts, Zenon DEF Finished, At, Move, Quiet, Phases
<1> QED BY <1>1, <1>2, <1>3, <1>4, <1>5, <1>6, <1>7, Zenon

\* The phase that is set fits the one that the journal still holds.
LEMMA MoveAgrees ==
  ASSUME IInv, AInv, Move
  PROVE  AInv'
<1>0. /\ UNCHANGED <<motor, pulses, coins, slips, tail, started, payee, paid, owed, mishaps>>
      /\ pc # "hopper" /\ pc' # "hopper" /\ pc' # "idle" /\ pc' # "off" /\ pc' # "judge"
      /\ pc' # "guard1" /\ Active /\ Active'
  BY Zenon DEF Move, Quiet, dvars, Active
<1>1. OrderInv' /\ StorageInv'
  BY <1>0, Zenon DEF AInv, OrderInv, StorageInv, Kept, Move
<1>2. WroteInv'
  <2> SUFFICES ASSUME Kept PROVE WroteInv'
    BY <1>0, Zenon DEF WroteInv, Kept
  <2>1. /\ tail = Whole(t) /\ tail.id = t.id /\ tail.phase = t.phase
        /\ pc = "finish" => t.phase = "CLOSED"
        /\ pc \in {"guard1", "judge", "guard2", "open", "guard3", "close"} => t.phase \in Resumable
    BY <1>0 DEF AInv, WroteInv, Move, Whole, IInv, ControlInv, Resumable
  <2>2. /\ t'.phase # "DONE" /\ unsaved' => tail.phase \in Resumable
        /\ t'.phase = "DONE" /\ unsaved' => tail.phase = "CLOSED"
        /\ ~unsaved' => t' = t
        /\ pc' = "call" => pc = "guard1" /\ t' = t
        /\ pc' \in {"guard2", "open", "guard3", "close"} => t'.phase \in Resumable
    BY <2>1, Zenon DEF Move, Resumable
  <2> QED BY <1>0, <2>1, <2>2, Zenon DEF AInv, WroteInv, Move
<1>3. ExactInv'
  BY <1>0, Zenon DEF AInv, ExactInv, Move, Uncredited
<1> QED BY <1>1, <1>2, <1>3, Zenon DEF AInv

\* A new purchase: its record is still to be written, and no coin has left for it.
LEMMA RunPurchaseAgrees ==
  ASSUME NEW price \in Prices, NEW deposit \in Deposits, IInv, AInv, RunPurchase(price, deposit)
  PROVE  AInv'
<1> DEFINE q == Quarters(price, deposit)
<1>0. /\ q \in 0..MaxQuarters
      /\ started \in Nat /\ started \in Ids /\ started + 1 \in Ids
      /\ paid \in [Ids -> Nat] /\ owed \in [Ids -> 0..MaxQuarters]
      /\ tail.id \in Ids \cup {Absent} /\ payee \in Ids
  <2>1. price \in Nat /\ deposit \in Nat
    BY TxnAssumption, Zenon
  <2>2. started \in Ids /\ started < MaxTxns
    BY Zenon DEF IInv, TypeOK, RunPurchase
  <2>3. started \in Nat /\ started + 1 \in Ids
    BY <2>2, TxnAssumption DEF Ids
  <2> QED BY <2>1, <2>2, <2>3, QuartersRange, Zenon DEF IInv, TypeOK
<1>1. /\ pc = "idle" /\ pc' = "guard1" /\ unsaved' /\ started' = started + 1
      /\ t'.id = started + 1 /\ t'.quarters = q /\ t'.phase = "PENDING" /\ t'.dispensed = 0
      /\ owed' = [owed EXCEPT ![started + 1] = q]
      /\ UNCHANGED <<motor, pulses, coins, slips, tail, payee, paid, mishaps>>
  BY Zenon DEF RunPurchase, At, dvars
<1>2. /\ tail.id < started + 1 /\ payee < started + 1
      /\ paid[started + 1] = 0 /\ owed'[started + 1] = q
      /\ \A i \in Ids : i # started + 1 => owed'[i] = owed[i]
  BY <1>0, <1>1 DEF AInv, OrderInv, Ids, Absent
<1>3. OrderInv' /\ StorageInv'
  BY <1>0, <1>1, <1>2 DEF AInv, OrderInv, StorageInv, Kept, Ids, Absent
<1>4. WroteInv'
  <2> SUFFICES ASSUME Kept PROVE WroteInv'
    BY <1>1, Zenon DEF WroteInv, Kept
  <2>1. /\ tail.phase \notin Resumable
        /\ tail.phase # NoPhase => tail.id \in Ids /\ tail.id # started + 1
    BY <1>0, <1>1, <1>2 DEF AInv, WroteInv, Absent
  <2>2. tail.phase # NoPhase => tail.quarters = owed'[tail.id]
    BY <1>2, <2>1, Zenon DEF AInv, WroteInv
  <2> QED BY <1>0, <1>1, <1>2, <2>1, <2>2 DEF AInv, WroteInv
<1>5. ExactInv'
  <2> SUFFICES ASSUME slips = {}, mishaps = {} PROVE ExactInv'
    BY <1>1, Zenon DEF ExactInv
  <2>1. \A i \in Ids : paid[i] <= owed'[i]
    BY <1>0, <1>2 DEF AInv, ExactInv
  <2>2. ~Uncredited
    BY <1>1, Zenon DEF Uncredited
  <2> QED BY <1>0, <1>1, <1>2, <2>1, <2>2, Zenon DEF AInv, ExactInv
<1> QED BY <1>3, <1>4, <1>5, Zenon DEF AInv

\* dispenseCoins is asked for what is still to be paid.
LEMMA StartDispenseAgrees ==
  ASSUME IInv, AInv, StartDispense
  PROVE  AInv'
<1>0. /\ t \in Txns /\ t.id \in Ids /\ paid \in [Ids -> Nat] /\ pc = "call" /\ ~unsaved
      /\ t.quarters > t.dispensed
  BY Zenon DEF IInv, TypeOK, ControlInv, StartDispense, At
<1>1. /\ pc' = "hopper" /\ t' = t /\ unsaved' = unsaved /\ payee' = t.id
      /\ coins' = t.quarters - t.dispensed /\ pulses' = 0
      /\ UNCHANGED <<slips, tail, started, paid, owed, mishaps>>
  BY Zenon DEF StartDispense, Call, StartAttempt, Goto
<1>2. OrderInv' /\ StorageInv'
  BY <1>0, <1>1, Zenon DEF AInv, OrderInv, StorageInv, Kept, Active
<1>3. WroteInv'
  BY <1>0, <1>1, Zenon DEF AInv, WroteInv, Kept, Active
<1>4. ExactInv'
  BY <1>0, <1>1 DEF AInv, ExactInv, Active, Uncredited, Txns
<1> QED BY <1>2, <1>3, <1>4, Zenon DEF AInv

\* A coin that the sensor sees is counted as it falls.
LEMMA CoinFallsAgrees ==
  ASSUME IInv, AInv, CoinFalls
  PROVE  AInv'
<1>0. /\ TypeOK /\ t \in Txns /\ t.id \in Ids /\ paid \in [Ids -> Nat] /\ pulses \in Nat
      /\ owed \in [Ids -> 0..MaxQuarters] /\ coins \in 0..MaxCoins /\ started \in Ids
      /\ payee = t.id /\ pc = "hopper" /\ ~unsaved
  BY Zenon DEF IInv, TypeOK, DTypeOK, PayeeInv, CoinFalls, At
<1>1. /\ stock' = stock - 1 /\ Pay
      /\ slips' = {} => slips = {} /\ pulses' = pulses + 1 /\ pulses < coins
      /\ UNCHANGED <<motor, coins, pc, t, unsaved, tail, started, payee, owed, mishaps>>
  BY Zenon DEF CoinFalls, CoinSeen, CoinUnseen
<1>2. /\ paid' \in [Ids -> Nat] /\ paid'[t.id] = paid[t.id] + 1
      /\ \A i \in Ids : i # t.id => paid'[i] = paid[i]
  BY <1>0, <1>1, PayFacts, Zenon
<1>3. OrderInv' /\ StorageInv'
  <2>1. t.id <= started
    BY <1>0, Zenon DEF AInv, OrderInv, Active
  <2> QED BY <1>0, <1>1, <1>2, <2>1 DEF AInv, OrderInv, StorageInv, Kept, Active, Ids
<1>4. WroteInv'
  BY <1>0, <1>1, Zenon DEF AInv, WroteInv, Kept, Active
<1>5. ExactInv'
  <2> SUFFICES ASSUME slips' = {}, mishaps = {} PROVE ExactInv'
    BY <1>1, Zenon DEF ExactInv
  <2>1. /\ paid[t.id] = t.dispensed + pulses /\ coins = t.quarters - t.dispensed
        /\ pulses' = pulses + 1 /\ pulses < coins /\ t.dispensed <= t.quarters
    BY <1>0, <1>1, Zenon DEF AInv, ExactInv, Active
  <2>2. t.quarters = owed[t.id]
    BY <1>0, Zenon DEF AInv, WroteInv, Kept, Active
  <2>3. paid'[t.id] <= owed[t.id] /\ pulses' <= coins /\ paid'[t.id] = t.dispensed + pulses'
    BY <1>0, <1>2, <2>1, <2>2, TxnAssumption DEF Txns
  <2>4. \A i \in Ids : paid'[i] <= owed[i]
    BY <1>0, <1>1, <1>2, <2>3, Zenon DEF AInv, ExactInv
  <2>5. Uncredited' /\ Active
    BY <1>0, <1>1, Zenon DEF Uncredited, Active
  <2> QED BY <1>0, <1>1, <2>1, <2>3, <2>4, <2>5, Zenon DEF ExactInv
<1> QED BY <1>3, <1>4, <1>5, Zenon DEF AInv

\* The controller's own steps move no coin; a retry that forgets some is a slip.
LEMMA DispensingAgrees ==
  ASSUME IInv, AInv, Dispensing
  PROVE  AInv'
<1>0. pc = "hopper" /\ ~unsaved /\ pulses \in Nat
  BY Zenon DEF IInv, TypeOK, DTypeOK, Dispensing, At
<1>1. /\ slips' = {} => slips = {} /\ pulses' = pulses
      /\ UNCHANGED <<coins, pc, t, unsaved, tail, started, payee, paid, owed, mishaps>>
  <2>1. UNCHANGED <<pc, t, unsaved, tail, started, payee, paid, owed, mishaps>>
    BY Zenon DEF Dispensing, evars
  <2>2. coins' = coins /\ (slips' = {} => slips = {} /\ pulses' = pulses)
    <3>1. CASE Retry
      BY <1>0, <3>1 DEF Retry, StartAttempt
    <3>2. CASE ~Retry
      BY <3>2, Zenon DEF Dispensing, Control, Settled, Complete, JamRetry, JamOut, Timeout
    <3> QED BY <3>1, <3>2, Zenon
  <2> QED BY <2>1, <2>2, Zenon
<1>2. OrderInv' /\ StorageInv'
  BY <1>1, Zenon DEF AInv, OrderInv, StorageInv, Kept, Active
<1>3. WroteInv'
  BY <1>0, <1>1, Zenon DEF AInv, WroteInv, Kept, Active
<1>4. ExactInv'
  BY <1>0, <1>1, Zenon DEF AInv, ExactInv, Active, Uncredited
<1> QED BY <1>2, <1>3, <1>4, Zenon DEF AInv

\* The count is credited: from here on the record, once written, says what was paid.
LEMMA DispensedAgrees ==
  ASSUME IInv, AInv, Dispensed
  PROVE  AInv'
<1>0. /\ pc = "hopper" /\ ~unsaved /\ ~motor /\ t \in Txns
      /\ res.dispensed = pulses /\ pulses \in Nat
  BY Zenon DEF IInv, TypeOK, DTypeOK, ControlInv, Dispensed, Return, At
<1>1. /\ t'.id = t.id /\ t'.quarters = t.quarters
      /\ t'.dispensed = t.dispensed + pulses /\ t'.phase = "DISPENSING"
      /\ unsaved' /\ pc' = "judge"
      /\ UNCHANGED <<motor, pulses, coins, slips, tail, started, payee, paid, owed, mishaps>>
  BY <1>0, Zenon DEF Dispensed, Return, Txns
<1>2. OrderInv' /\ StorageInv'
  BY <1>0, <1>1, Zenon DEF AInv, OrderInv, StorageInv, Kept, Active
<1>3. WroteInv'
  BY <1>0, <1>1 DEF AInv, WroteInv, Kept, Active, Whole, Resumable
<1>4. ExactInv'
  BY <1>0, <1>1 DEF AInv, ExactInv, Active, Uncredited, Txns
<1> QED BY <1>2, <1>3, <1>4, Zenon DEF AInv

\* journal::append on a disk that keeps it: the last line is the engine's record.
LEMMA AppendAgrees ==
  ASSUME IInv, AInv, Append
  PROVE  AInv'
<1>0. /\ unsaved /\ ~unsaved' /\ t \in Txns /\ t.phase \in Phases /\ t.id \in Ids
      /\ pc \in {"guard1", "judge", "guard3", "finish", "return"}
      /\ UNCHANGED <<motor, pulses, coins, slips, pc, t, started, payee, paid, owed>>
  BY Zenon DEF IInv, TypeOK, ControlInv, Append, dvars
<1>1. /\ mishaps \subseteq mishaps'
      /\ Kept' => Kept /\ tail' \in Appended(tail, t)
      /\ Storage = {} => mishaps' = mishaps
  BY Zenon DEF Append, Kept
<1>2. Kept' => tail' = Whole(t)
  BY <1>0, <1>1, WriteFacts, Zenon DEF AInv, WroteInv
<1>3. tail'.id \in {tail.id, t.id, Absent} /\ Active
  BY <1>0, WriteFacts, Zenon DEF Append, Active
<1>4. OrderInv' /\ StorageInv'
  <2>1. Absent <= started
    BY TxnAssumption DEF IInv, TypeOK, Ids, Absent
  <2> QED BY <1>0, <1>1, <1>3, <2>1, Zenon DEF AInv, OrderInv, StorageInv, Kept, Active
<1>5. WroteInv'
  <2> SUFFICES ASSUME Kept' PROVE WroteInv'
    BY Zenon DEF WroteInv
  <2>1. /\ tail'.ended /\ ~tail'.bad /\ tail'.phase = t.phase /\ tail'.id = t.id
        /\ tail'.dispensed = t.dispensed /\ tail'.quarters = t.quarters
    BY <1>2 DEF Whole
  <2>2. t.id = started /\ started > 0 /\ t.quarters = owed[t.id]
    BY <1>1, <1>3, Zenon DEF AInv, WroteInv
  <2>3. tail'.phase # NoPhase /\ tail'.dispensed # Absent
    BY <1>0, <2>1 DEF Phases, NoPhase, Txns, Absent
  <2> QED BY <1>0, <1>1, <1>2, <1>3, <2>1, <2>2, <2>3, Zenon DEF AInv, WroteInv
<1>6. ExactInv'
  <2> SUFFICES ASSUME slips = {}, mishaps' = {} PROVE ExactInv'
    BY <1>0, Zenon DEF ExactInv
  <2>1. mishaps = {} /\ tail'.dispensed = t.dispensed /\ tail'.id = t.id
    BY <1>1, <1>2 DEF Kept, Whole
  <2> QED BY <1>0, <1>3, <2>1, Zenon DEF AInv, ExactInv, Active
<1> QED BY <1>4, <1>5, <1>6, Zenon DEF AInv

\* The answer is given when the last record, VOID or DONE, is in the journal.
LEMMA ReturnTxnAgrees ==
  ASSUME IInv, AInv, ReturnTxn
  PROVE  AInv'
<1>0. /\ pc = "return" /\ ~unsaved /\ ~unsaved' /\ pc' = "idle" /\ t.phase \in {"VOID", "DONE"}
      /\ UNCHANGED <<motor, pulses, coins, slips, tail, t, started, payee, paid, owed, mishaps>>
  BY Zenon DEF IInv, AnswerInv, ReturnTxn, Goto, At, dvars
<1>1. OrderInv' /\ StorageInv'
  BY <1>0, Zenon DEF AInv, OrderInv, StorageInv, Kept, Active
<1>2. WroteInv'
  BY <1>0 DEF AInv, WroteInv, Kept, Active, Whole, Resumable
<1>3. ExactInv'
  BY <1>0, Zenon DEF AInv, ExactInv, Active, Uncredited
<1> QED BY <1>1, <1>2, <1>3, Zenon DEF AInv

\* A crash leaves the last record, and a motor that runs for its transaction only.
LEMMA CrashAgrees ==
  ASSUME IInv, AInv, Crash
  PROVE  AInv'
<1>0. /\ pc # "off" /\ pc' = "off" /\ ~unsaved' /\ motor' \in {motor, FALSE}
      /\ mishaps \subseteq mishaps'
      /\ Uncredited => "crash" \in mishaps'
      /\ Kept' => Kept /\ tail' = tail
      /\ Storage = {} => (Kept => Kept')
      /\ tail' = tail \/ (unsaved /\ tail' \in CutShort(tail, t))
      /\ UNCHANGED <<slips, started, payee, paid, owed>>
  BY Zenon DEF Crash, Kept
<1>1. tail'.id \in {tail.id, t.id, Absent} /\ (tail' # tail => Active)
  <2>1. unsaved => Active
    BY Zenon DEF IInv, ControlInv, Active
  <2> QED BY <1>0, <2>1, WriteFacts, Zenon
<1>2. motor' => motor /\ pc = "hopper" /\ ~unsaved /\ payee = t.id
  BY <1>0, Zenon DEF IInv, ControlInv, PayeeInv
<1>3. OrderInv' /\ StorageInv'
  <2>1. Absent <= started
    BY TxnAssumption DEF IInv, TypeOK, Ids, Absent
  <2> QED BY <1>0, <1>1, <2>1, Zenon DEF AInv, OrderInv, StorageInv, Active
<1>4. WroteInv'
  <2> SUFFICES ASSUME Kept' PROVE WroteInv'
    BY Zenon DEF WroteInv
  <2>1. Kept /\ tail' = tail
    BY <1>0, Zenon
  <2>2. motor' => payee = started /\ tail.id = started /\ tail.phase \in {"PENDING", "DISPENSING"}
    BY <1>2, <2>1 DEF AInv, WroteInv, Active, Whole
  <2> QED BY <1>0, <2>1, <2>2, Zenon DEF AInv, WroteInv, Active
<1>5. ExactInv'
  <2> SUFFICES ASSUME slips = {}, mishaps' = {} PROVE ExactInv'
    BY <1>0, Zenon DEF ExactInv
  <2>1. mishaps = {} /\ tail' = tail /\ ~Uncredited /\ ~motor'
    BY <1>0, <1>2, Zenon DEF Kept, Uncredited
  <2> QED BY <1>0, <2>1, Zenon DEF AInv, ExactInv, Active
<1> QED BY <1>3, <1>4, <1>5, Zenon DEF AInv

\* A motor left running pays for the transaction that it was started for.
LEMMA PayingWhileOffAgrees ==
  ASSUME IInv, AInv, PayingWhileOff
  PROVE  AInv'
<1>0. /\ TypeOK /\ pc = "off" /\ Pay /\ stock' = stock - 1 /\ "unseen" \in slips'
      /\ UNCHANGED <<motor, pc, t, unsaved, tail, started, payee, owed, mishaps>>
  BY Zenon DEF IInv, PayingWhileOff, CoinUnseen
<1>1. started \in Ids /\ payee \in Ids /\ \A i \in Ids : i # payee => paid'[i] = paid[i]
  BY <1>0, PayFacts, Zenon DEF TypeOK
<1>2. OrderInv' /\ StorageInv'
  BY <1>0, <1>1 DEF AInv, OrderInv, StorageInv, Kept, Active, Ids
<1>3. WroteInv'
  BY <1>0, Zenon DEF AInv, WroteInv, Kept, Active
<1>4. ExactInv'
  BY <1>0, Zenon DEF ExactInv
<1> QED BY <1>2, <1>3, <1>4, Zenon DEF AInv

\* resume_if_needed takes up the record that it reads back, with its credit.
LEMMA StartAgrees ==
  ASSUME IInv, AInv, Start
  PROVE  AInv'
<1>0. /\ pc = "off" /\ ~unsaved /\ ~motor' /\ tail \in Lines /\ started \in Ids
      /\ tail.id \in Ids \cup {Absent} /\ paid \in [Ids -> Nat]
      /\ UNCHANGED <<pulses, coins, slips, unsaved, tail, started, payee, paid, owed, mishaps>>
  BY Zenon DEF IInv, TypeOK, ControlInv, Start
<1>1. CASE tail.bad
  <2>1. pc' = pc /\ ~Kept
    BY <1>1, Zenon DEF Start, AInv, WroteInv
  <2> QED BY <1>0, <2>1, Zenon DEF AInv, OrderInv, StorageInv, WroteInv, ExactInv, Kept, Active
<1>2. CASE ~tail.bad
  <2>1. /\ t' = LoadLast(tail)
        /\ tail.phase \in {"PENDING", "DISPENSING"} => pc' = "guard1"
        /\ tail.phase = "PRESENTING" => pc' = "close"
        /\ tail.phase \notin Resumable => pc' = "idle"
    BY <1>2, Zenon DEF Start, Resumable
  <2>2. /\ t'.id = Default(tail.id) /\ t'.quarters = Default(tail.quarters)
        /\ t'.phase = tail.phase /\ t'.dispensed = Default(tail.dispensed)
    BY <2>1, Zenon DEF LoadLast
  <2>3. pc' \in {"guard1", "close", "idle"} /\ (Active' => tail.phase \in Resumable)
    BY <2>1, Zenon DEF Resumable, Active
  <2>4. OrderInv' /\ StorageInv'
    BY <1>0, <2>2 DEF AInv, OrderInv, StorageInv, Kept, Default, Ids, Absent
  <2>5. Kept /\ tail.phase \in Resumable =>
          /\ t'.id = tail.id /\ t'.quarters = tail.quarters /\ t'.dispensed = tail.dispensed
          /\ tail = Whole(t')
    <3> SUFFICES ASSUME Kept, tail.phase \in Resumable
                 PROVE  /\ t'.id = tail.id /\ t'.quarters = tail.quarters
                        /\ t'.dispensed = tail.dispensed /\ tail = Whole(t')
      BY Zenon
    <3>1. tail.ended /\ ~tail.bad /\ tail.phase # NoPhase /\ tail.dispensed # Absent
      BY Zenon DEF AInv, WroteInv, Resumable, NoPhase
    <3>2. tail.id # Absent /\ tail.quarters # Absent
      BY <3>1, Zenon DEF IInv, InOrder
    <3>3. t'.id = tail.id /\ t'.quarters = tail.quarters /\ t'.dispensed = tail.dispensed
      BY <2>2, <3>1, <3>2, Zenon DEF Default
    <3> QED BY <1>0, <2>2, <3>1, <3>3, Zenon DEF Whole, Lines
  <2>6. WroteInv'
    BY <1>0, <2>1, <2>2, <2>3, <2>5, Zenon DEF AInv, WroteInv, Kept, Resumable, NoPhase
  <2>7. ExactInv'
    <3> SUFFICES ASSUME slips = {}, mishaps = {} PROVE ExactInv'
      BY <1>0, Zenon DEF ExactInv
    <3>1. Kept /\ ~Uncredited
      BY <1>0, Zenon DEF Kept, Uncredited
    <3>2. Active' => /\ t'.dispensed = paid[t'.id] /\ t'.quarters = owed[t'.id]
                     /\ t'.dispensed <= t'.quarters
      BY <1>0, <2>3, <2>5, <3>1, Zenon DEF AInv, WroteInv, ExactInv, Resumable, NoPhase, Absent
    <3> QED BY <1>0, <2>3, <3>1, <3>2, Zenon DEF AInv, ExactInv
  <2> QED BY <2>4, <2>6, <2>7, Zenon DEF AInv
<1> QED BY <1>1, <1>2, Zenon

\* Every step of the engine and of its surroundings keeps the agreement.
LEMMA StepAgrees == IInv /\ AInv /\ [Next]_vars => AInv'
<1> SUFFICES ASSUME IInv, AInv, [Next]_vars PROVE AInv'
  BY Zenon
<1>1. CASE \E price \in Prices, deposit \in Deposits : RunPurchase(price, deposit)
  BY <1>1, RunPurchaseAgrees, Zenon
<1>2. CASE Engine
  BY <1>2, AppendAgrees, StartDispenseAgrees, DispensingAgrees, DispensedAgrees, MoveFacts,
     MoveAgrees, ReturnTxnAgrees, Zenon DEF Engine
<1>3. CASE CoinFalls \/ Crash \/ PayingWhileOff \/ Start
  BY <1>3, CoinFallsAgrees, CrashAgrees, PayingWhileOffAgrees, StartAgrees, Zenon
<1>4. CASE FaultChange \/ UNCHANGED vars
  <2>1. UNCHANGED <<motor, pulses, coins, slips, pc, t, unsaved, tail, started, payee, paid,
                    owed, mishaps>>
    BY <1>4, Zenon DEF FaultChange, vars, dvars, evars
  <2> QED BY <2>1 DEF AInv, OrderInv, StorageInv, WroteInv, ExactInv, Kept, Active, Uncredited
<1> QED BY <1>1, <1>2, <1>3, <1>4, Zenon DEF Next

\* Together the two parts are an inductive invariant.
THEOREM Agreement == Spec => [](IInv /\ AInv)
BY InitInv, StepInv, InitAgrees, StepAgrees, PTL DEF Spec

(***************************************************************************)
(* Without a lost coin, a crash between a coin and its record or a disk    *)
(* error, nobody gets more than the plan of run_purchase, whatever the     *)
(* faults, the jams, the crashes and the resumptions in between.           *)
(***************************************************************************)
THEOREM NobodyIsOverpaid == Spec => []NoOverpay
<1>1. AInv => NoOverpay
  BY Zenon DEF AInv, ExactInv, NoOverpay
<1> QED BY <1>1, Agreement, PTL

(***************************************************************************)
(* An engine that is ready for the next purchase has left nothing for      *)
(* resume_if_needed to take up, as long as the disk kept what was written. *)
(***************************************************************************)
THEOREM IdleLeavesNothingOpen == Spec => []IdleIsSettled
<1>1. AInv => IdleIsSettled
  BY Zenon DEF AInv, WroteInv, IdleIsSettled, Kept, Resumable, Phases
<1> QED BY <1>1, Agreement, PTL

-----------------------------------------------------------------------------
(***************************************************************************)
(* The refinement.  Steps between two appends, and FaultChange, leave the  *)
(* contract's view of the engine alone.                                    *)
(***************************************************************************)
LEMMA SameView ==
  ASSUME IInv, AInv, Kept, Active, Active', ~unsaved, UNCHANGED <<tail, started, paid, owed>>
  PROVE  UNCHANGED Contract!cvars
<1>1. tail.id = started
  BY DEF AInv, WroteInv, Whole
<1>2. Verdict' = Verdict
  BY <1>1, Zenon DEF Verdict
<1>3. EngineState' = EngineState
  BY Zenon DEF EngineState, Active
<1> QED BY <1>2, <1>3, Zenon DEF Contract!cvars

\* run_purchase opens a purchase that nothing was given for.
LEMMA RunPurchaseBegins ==
  ASSUME NEW price \in Prices, NEW deposit \in Deposits, IInv, AInv, RunPurchase(price, deposit)
  PROVE  Contract!CNext
<1> DEFINE q == Quarters(price, deposit)
<1>0. /\ q \in 0..MaxQuarters
      /\ started \in Nat /\ started \in Ids /\ started + 1 \in Ids
      /\ owed \in [Ids -> 0..MaxQuarters]
      /\ tail.id \in Ids \cup {Absent}
  <2>1. price \in Nat /\ deposit \in Nat
    BY TxnAssumption, Zenon
  <2>2. started \in Ids /\ started < MaxTxns
    BY Zenon DEF IInv, TypeOK, RunPurchase
  <2>3. started \in Nat /\ started + 1 \in Ids
    BY <2>2, TxnAssumption DEF Ids
  <2> QED BY <2>1, <2>2, <2>3, QuartersRange, Zenon DEF IInv, TypeOK
<1>1. /\ pc = "idle" /\ pc' = "guard1" /\ started' = started + 1
      /\ owed' = [owed EXCEPT ![started + 1] = q]
      /\ UNCHANGED <<tail, paid>>
  BY Zenon DEF RunPurchase, At
<1>2. tail.id # started + 1 /\ paid[started + 1] = 0 /\ owed'[started + 1] = q
  BY <1>0, <1>1 DEF AInv, OrderInv, Ids, Absent
<1>3. EngineState = "idle" /\ EngineState' = "busy" /\ Verdict' = "open"
  BY <1>0, <1>1, <1>2 DEF EngineState, Verdict
<1>4. Contract!Begin(q)
  BY <1>1, <1>2, <1>3, Zenon DEF Contract!Begin
<1> QED BY <1>0, <1>4, Zenon DEF Contract!CNext

\* Coins are given for the open purchase only, by the engine or by a motor left on.
LEMMA CoinGives ==
  ASSUME IInv, AInv, Kept, CoinFalls \/ PayingWhileOff
  PROVE  Contract!CNext
<1>1. /\ TypeOK /\ pc \in {"hopper", "off"} /\ stock' = stock - 1 /\ Pay
      /\ pc = "hopper" => ~unsaved
      /\ pc = "off" => motor
      /\ UNCHANGED <<pc, tail, started, payee, owed>>
  BY Zenon DEF IInv, CoinFalls, PayingWhileOff, CoinSeen, CoinUnseen, At
<1>2. /\ payee = started /\ tail.id = started /\ started > 0
      /\ tail.phase \in {"PENDING", "DISPENSING"}
  <2>1. CASE pc = "hopper"
    BY <1>1, <2>1 DEF IInv, PayeeInv, AInv, WroteInv, Active, Whole
  <2>2. CASE pc = "off"
    BY <1>1, <2>2, Zenon DEF AInv, WroteInv, NoPhase
  <2> QED BY <1>1, <2>1, <2>2, Zenon
<1>3. paid'[started] = paid[started] + 1
  BY <1>1, <1>2, PayFacts, Zenon
<1>4. Verdict = "open" /\ Verdict' = "open"
  BY <1>1, <1>2 DEF Verdict
<1>5. EngineState # "idle" /\ EngineState' = EngineState
  BY <1>1, Zenon DEF EngineState
<1>6. Contract!Give
  BY <1>1, <1>3, <1>4, <1>5, Zenon DEF Contract!Give
<1> QED BY <1>6, Zenon DEF Contract!CNext

\* The CLOSED and VOID records settle the purchase; others leave it as it was.
LEMMA AppendSettles ==
  ASSUME IInv, AInv, Kept, Kept', Append
  PROVE  Contract!CNext \/ UNCHANGED Contract!cvars
<1>0. /\ unsaved /\ t \in Txns /\ t.phase \in Phases
      /\ pc \in {"guard1", "judge", "guard3", "finish", "return"}
      /\ pc = "guard1" => t.phase = "PENDING"
      /\ "disk" \notin mishaps
      /\ UNCHANGED <<pc, t, started, paid, owed>>
  BY Zenon DEF IInv, TypeOK, ControlInv, Append, Kept
<1>1. tail' \in Appended(tail, t)
  BY Zenon DEF Append, Kept
<1>2. tail'.id = t.id /\ tail'.phase = t.phase
  BY <1>0, <1>1, WriteFacts DEF AInv, WroteInv, Whole
<1>3. /\ Active /\ t.id = started /\ started > 0 /\ t.quarters = owed[started]
  BY <1>0, Zenon DEF AInv, WroteInv, Active
<1>4. EngineState = "busy" /\ EngineState' = "busy"
  BY <1>0, Zenon DEF EngineState
<1>5. CASE pc = "guard1"
  <2>1. tail.id # started
    <3>1. tail.id \in Int /\ started \in Int
      BY DEF IInv, TypeOK, Ids, Absent
    <3> QED BY <1>0, <1>3, <1>5, <3>1 DEF AInv, WroteInv
  <2>2. Verdict = "open" /\ Verdict' = "open"
    BY <1>0, <1>2, <1>3, <1>5, <2>1 DEF Verdict
  <2> QED BY <1>0, <1>4, <2>2, Zenon DEF Contract!cvars
<1>6. CASE pc # "guard1" /\ t.phase = "DONE"
  <2>1. Verdict = "done" /\ Verdict' = "done"
    BY <1>0, <1>2, <1>3, <1>6 DEF Verdict, AInv, WroteInv
  <2> QED BY <1>0, <1>4, <2>1, Zenon DEF Contract!cvars
<1>7. CASE pc # "guard1" /\ t.phase # "DONE"
  <2>1. Verdict = "open"
    BY <1>0, <1>3, <1>7 DEF Verdict, AInv, WroteInv, Resumable
  <2>2. CASE t.phase = "CLOSED"
    <3>1. Verdict' = "done"
      BY <1>0, <1>2, <1>3, <2>2 DEF Verdict
    <3>2. owed[started] <= paid[started]
      BY <1>0, <1>3, <2>2, Zenon DEF IInv, MemoryInv, Trusted, Earned
    <3>3. owed[started] \in Nat /\ paid[started] \in Nat
      BY TxnAssumption DEF IInv, TypeOK
    <3>4. Contract!Settle("done")
      BY <1>0, <1>4, <2>1, <3>1, <3>2, <3>3, Zenon DEF Contract!Settle
    <3> QED BY <3>4, Zenon DEF Contract!CNext
  <2>3. CASE t.phase = "VOID"
    <3>1. Verdict' = "void"
      BY <1>0, <1>2, <1>3, <2>3 DEF Verdict
    <3>2. Contract!Settle("void")
      BY <1>0, <1>4, <2>1, <3>1, Zenon DEF Contract!Settle
    <3> QED BY <3>2, Zenon DEF Contract!CNext
  <2>4. CASE t.phase \notin {"CLOSED", "VOID"}
    <3>1. Verdict' = "open"
      BY <1>0, <1>2, <1>3, <1>7, <2>4 DEF Verdict
    <3> QED BY <1>0, <1>4, <2>1, <3>1, Zenon DEF Contract!cvars
  <2> QED BY <2>2, <2>3, <2>4, Zenon
<1> QED BY <1>5, <1>6, <1>7, Zenon

\* The caller is answered about a settled purchase.
LEMMA ReturnAnswers ==
  ASSUME IInv, AInv, Kept, ReturnTxn
  PROVE  Contract!CNext
<1>1. /\ pc = "return" /\ ~unsaved /\ pc' = "idle" /\ t.phase \in {"VOID", "DONE"}
      /\ UNCHANGED <<tail, started, paid, owed>>
  BY Zenon DEF IInv, AnswerInv, ReturnTxn, Goto, At
<1>2. tail.id = started /\ started > 0 /\ tail.phase = t.phase
  BY <1>1 DEF AInv, WroteInv, Active, Whole
<1>3. Verdict' = Verdict /\ Verdict # "open"
  BY <1>1, <1>2, Zenon DEF Verdict
<1>4. EngineState = "busy" /\ EngineState' = "idle"
  BY <1>1, Zenon DEF EngineState
<1>5. Contract!Answer
  BY <1>1, <1>3, <1>4, Zenon DEF Contract!Answer
<1> QED BY <1>5, Zenon DEF Contract!CNext

\* A crash forgets only a purchase that is not in the journal, and nothing was given for it.
LEMMA CrashFails ==
  ASSUME IInv, AInv, Kept, Kept', Crash
  PROVE  Contract!CNext
<1>1. /\ pc # "off" /\ pc' = "off" /\ tail' = tail
      /\ UNCHANGED <<started, paid, owed>>
  BY Zenon DEF Crash, Kept
<1>2. EngineState # "off" /\ EngineState' = "off"
  BY <1>1, Zenon DEF EngineState
<1>3. Verdict' = Verdict \/ (Verdict' = "void" /\ Verdict = "open" /\ paid[started] = 0)
  <2>1. CASE started # 0 /\ tail.id # started /\ pc = "guard1"
    <3>1. unsaved /\ t.id = started
      BY <2>1 DEF AInv, WroteInv, Active, Whole
    <3>2. paid[started] = 0
      BY <2>1, <3>1, Zenon DEF AInv, OrderInv
    <3> QED BY <1>1, <2>1, <3>2, Zenon DEF Verdict
  <2>2. CASE ~(started # 0 /\ tail.id # started /\ pc = "guard1")
    BY <1>1, <2>2, Zenon DEF Verdict
  <2> QED BY <2>1, <2>2, Zenon
<1>4. Contract!Fail
  BY <1>1, <1>2, <1>3, Zenon DEF Contract!Fail
<1> QED BY <1>4, Zenon DEF Contract!CNext

\* A start takes up the open purchase, and no other.
LEMMA StartRestarts ==
  ASSUME IInv, AInv, Kept, Start
  PROVE  Contract!CNext
<1>1. /\ pc = "off" /\ ~tail.bad
      /\ UNCHANGED <<tail, started, paid, owed>>
  BY Zenon DEF Start, AInv, WroteInv
<1>2. /\ tail.phase \in Resumable => pc' \in {"guard1", "close"}
      /\ tail.phase \notin Resumable => pc' = "idle"
  BY <1>1, Zenon DEF Start, Resumable
<1>3. /\ tail.phase \in Resumable => tail.id = started /\ started > 0
      /\ tail.phase \notin Resumable =>
           \/ tail.phase \in {"CLOSED", "DONE", "VOID"}
           \/ tail.id = Absent
  BY Zenon DEF AInv, WroteInv, Resumable, Phases, NoPhase
<1>4. started # Absent
  BY DEF IInv, TypeOK, Ids, Absent
<1>5. Verdict = "open" <=> tail.phase \in Resumable
  BY <1>1, <1>3, <1>4 DEF Verdict, Resumable
<1>6. Verdict' = Verdict
  BY <1>1, <1>2, <1>3, Zenon DEF Verdict
<1>7. EngineState = "off" /\ EngineState' = IF Verdict = "open" THEN "busy" ELSE "idle"
  BY <1>1, <1>2, <1>5, Zenon DEF EngineState
<1>8. Contract!Restart
  BY <1>1, <1>6, <1>7, Zenon DEF Contract!Restart
<1> QED BY <1>8, Zenon DEF Contract!CNext

\* Every step maps to a step of the contract or to none.
LEMMA StepRefines ==
  ASSUME IInv, AInv, AInv', Storage = {}, [Next]_vars
  PROVE  [Contract!CNext]_(Contract!cvars)
<1>0. Kept /\ Kept'
  BY Zenon DEF AInv, StorageInv
<1>1. CASE \E price \in Prices, deposit \in Deposits : RunPurchase(price, deposit)
  BY <1>1, RunPurchaseBegins, Zenon
<1>2. CASE Append \/ ReturnTxn \/ CoinFalls \/ PayingWhileOff \/ Crash \/ Start
  BY <1>0, <1>2, AppendSettles, ReturnAnswers, CoinGives, CrashFails, StartRestarts, Zenon
<1>3. CASE Guard1 \/ Judge \/ Guard2 \/ Open \/ Guard3 \/ Close \/ Finished
  <2>1. Move
    BY <1>3, MoveFacts, Zenon
  <2>2. Active /\ Active' /\ ~unsaved /\ UNCHANGED <<tail, started, paid, owed>>
    BY <2>1, Zenon DEF Move, Quiet, Active
  <2> QED BY <1>0, <2>2, SameView, Zenon
<1>4. CASE StartDispense \/ Dispensing \/ Dispensed
  <2>1. Active /\ Active' /\ ~unsaved /\ UNCHANGED <<tail, started, paid, owed>>
    BY <1>4, Zenon DEF StartDispense, Dispensing, Dispensed, At, Goto, evars, Active
  <2> QED BY <1>0, <2>1, SameView, Zenon
<1>5. CASE FaultChange \/ UNCHANGED vars
  <2>1. UNCHANGED <<pc, tail, started, paid, owed>>
    BY <1>5, Zenon DEF FaultChange, vars, evars
  <2> QED BY <2>1, Zenon DEF Contract!cvars, EngineState, Verdict
<1> QED BY <1>1, <1>2, <1>3, <1>4, <1>5, Zenon DEF Next, Engine

(***************************************************************************)
(* TxnEngine with its journal, its hopper and its crashes implements the   *)
(* contract of a purchase when the disk keeps what is written to it.       *)
(***************************************************************************)
THEOREM EngineImplementsContract ==
  ASSUME Storage = {}
  PROVE  Spec => ImplementsContract
<1>1. Init => Contract!CInit
  BY TxnAssumption DEF Init, Contract!CInit, EngineState, Verdict, Ids
<1>2. IInv /\ AInv /\ AInv' /\ [Next]_vars => [Contract!CNext]_(Contract!cvars)
  BY StepRefines, Zenon
<1> QED BY <1>1, <1>2, Agreement, PTL DEF Spec, ImplementsContract, Contract!CSpec
=============================================================================
