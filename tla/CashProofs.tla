----------------------------- MODULE CashProofs -----------------------------
(***************************************************************************)
(* Proofs about the cash service of the server (ESpec): the ledger and the *)
(* reports that are drawn from it, its totals being folds over finite sets.*)
(***************************************************************************)
EXTENDS CloudProofs, FoldProofs

(* Leaves are left to Zenon unless they name another prover.               *)
USE Zenon

(* Least and Greatest find what they look for in a nonempty finite set.    *)
Bounded(S) ==
  /\ Greatest(S) \in S /\ \A x \in S : x <= Greatest(S)
  /\ Least(S) \in S /\ \A x \in S : Least(S) <= x

(* A nonempty finite set of integers has both.                             *)
LEMMA Bounds ==
  ASSUME NEW S, \A x \in S : x \in Int, IsFiniteSet(S), S # {}
  PROVE  Bounded(S)
<1>1. (\E x \in S : \A y \in S : y <= x) /\ (\E x \in S : \A y \in S : x <= y)
  BY Extremes
<1> QED BY <1>1 DEF Bounded, Greatest, Least

(* In particular among the indices of a sequence.                          *)
LEMMA IndexBounds ==
  ASSUME NEW n \in Nat, NEW S \in SUBSET (1..n), S # {}
  PROVE  Bounded(S)
<1>1. IsFiniteSet(1..n)
  BY FS_Interval, SMTT(20)
<1>2. IsFiniteSet(S)
  BY <1>1, FS_Subset, ZenonT(20)
<1>3. \A x \in S : x \in Int
  BY SMTT(20)
<1> QED BY <1>2, <1>3, Bounds, ZenonT(20)
-----------------------------------------------------------------------------
(***************************************************************************)
(* The ledger and its reports.                                             *)
(***************************************************************************)
(* A step of the composition is one of the cash service, or restarts it,   *)
(* or leaves it alone.                                                     *)
LEMMA CashSteps ==
  ASSUME [ENext]_allvars
  PROVE  CashNext \/ CashRestart \/ UNCHANGED kvars
<1>1. CASE VStep
  <2>1. VeilTorn \/ CashTorn => UNCHANGED kvars
    BY DEF VeilTorn, CashTorn
  <2> QED BY <1>1, <2>1 DEF VStep, KStep
<1>2. CASE EdgeNext
  BY <1>2, ZenonT(20) DEF EdgeNext, RegisterInFleet, AskPolicy, emit_trust_evidence, SaveJob, RunDriver
<1> QED BY <1>1, <1>2 DEF ENext, EStep, EdgeTorn, EdgeRestart, VeilRestart, allvars

LedgerOK ==
  /\ IsSeq(ledger)
  /\ \A i \in DOMAIN ledger : ledger[i].event \in seen \cup {NoEvent}
  /\ seen = load_seen
  /\ DuplicatesMarked

(* add_ledger_entry marks what seen_event_ids_ holds, and that is what the *)
(* ledger holds.                                                           *)
LEMMA EntryStep ==
  ASSUME LedgerOK, NEW t \in Tenants, NEW b \in Bodies, add_ledger_entry(t, b)
  PROVE  LedgerOK'
<1>e. PICK e : e = Entry(b)
  OBVIOUS
<1>n. PICK n : n = Len(ledger) + 1
  OBVIOUS
<1>1. ledger' = Append(ledger, e) /\ seen' = seen \cup ({b.event} \ {NoEvent})
  BY <1>e DEF add_ledger_entry
<1>2. e.event = b.event /\ (b.event # NoEvent /\ b.event \in seen => e.dup)
  <2>1. e.event = b.event
    BY <1>e DEF Entry
  <2>2. e.dup = (b.dup \/ (b.event # NoEvent /\ b.event \in seen))
    BY <1>e DEF Entry
  <2>3. QED
    BY <2>1, <2>2
<1>3. /\ IsSeq(ledger') /\ DOMAIN ledger = 1..n - 1 /\ n \in Nat /\ n > 0
      /\ DOMAIN ledger' = 1..n
      /\ \A i \in 1..n - 1 : ledger'[i] = ledger[i]
      /\ ledger'[n] = e
  BY <1>1, <1>n, Appended, SMTT(20) DEF LedgerOK
<1>4. \A i \in 1..n : i = n \/ i \in 1..n - 1
  <2>1. n \in Nat /\ n > 0
    BY <1>3
  <2>2. QED
    BY <2>1, SMTT(20)
<1>5. seen' = load_seen'
  <2>1. {ledger'[i].event : i \in 1..n} = {ledger[i].event : i \in 1..n - 1} \cup {b.event}
    <3>1. n \in 1..n /\ \A i \in 1..n - 1 : i \in 1..n
      BY <1>3, SMTT(20)
    <3>2. QED
      BY <1>2, <1>3, <1>4, <3>1
  <2>2. QED
    BY <1>1, <1>3, <2>1, ZenonT(20) DEF load_seen, LedgerOK
<1>6. \A i \in DOMAIN ledger' : ledger'[i].event \in seen' \cup {NoEvent}
  BY <1>3, <1>5 DEF load_seen
<1>7. ASSUME NEW i \in DOMAIN ledger', Repeats(i)'
      PROVE  ledger'[i].dup
  <2>1. PICK k \in 1..i - 1 : /\ ledger'[i].event # NoEvent
                              /\ ledger'[i].event = ledger'[k].event
    BY <1>7 DEF Repeats, SameEvent
  <2>2. k \in 1..n - 1 /\ k < i
    BY <1>3, <1>4, SMTT(20)
  <2>3. CASE i = n
    <3>1. ledger'[k].event = b.event /\ ledger[k].event = b.event /\ b.event # NoEvent
      BY <1>2, <1>3, <2>1, <2>2, <2>3
    <3>2. b.event \in seen
      BY <1>3, <2>2, <3>1, SMTT(20) DEF LedgerOK
    <3>3. QED
      BY <1>2, <1>3, <2>3, <3>1, <3>2
  <2>4. CASE i \in 1..n - 1
    <3>1. Repeats(i)
      BY <1>3, <2>1, <2>2, <2>4 DEF Repeats, SameEvent
    <3>2. QED
      BY <1>3, <2>4, <3>1 DEF LedgerOK, DuplicatesMarked
  <2>5. QED
    BY <1>3, <1>4, <2>3, <2>4
<1>8. QED
  BY <1>3, <1>5, <1>6, <1>7 DEF LedgerOK, DuplicatesMarked

(* Every step keeps repeated entries of the ledger marked; a restart reads *)
(* the seen events back from the ledger.                                   *)
LEMMA LedgerStep ==
  ASSUME LedgerOK, [ENext]_allvars
  PROVE  LedgerOK'
<1>1. ASSUME UNCHANGED <<ledger, seen>> PROVE LedgerOK'
  BY <1>1 DEF LedgerOK, IsSeq, load_seen, DuplicatesMarked, Repeats, SameEvent
<1>2. CASE CashNext
  <2>1. CASE \E t \in Tenants, b \in Bodies : add_ledger_entry(t, b)
    BY <2>1, EntryStep
  <2>2. CASE \E x \in Scopes, now \in CashTimes : update_inventory(x, now) \/ forecast(x, now)
    BY <1>1, <2>2 DEF update_inventory, forecast
  <2>3. CASE \E x \in Scopes, observed \in Observed, now \in CashTimes : reconcile(x, observed, now)
    BY <1>1, <2>3 DEF reconcile
  <2>4. CASE \E x \in Scopes, now \in CashTimes : DetectStart(x, now)
    BY <1>1, <2>4 DEF DetectStart
  <2>5. CASE DetectAlert \/ DetectSave
    BY <1>1, <2>5 DEF DetectAlert, DetectSave
  <2>6. QED
    BY <1>2, <2>1, <2>2, <2>3, <2>4, <2>5 DEF CashNext
<1>3. CASE CashRestart
  BY <1>1, <1>3 DEF CashRestart, LedgerOK
<1>4. CASE UNCHANGED kvars
  BY <1>1, <1>4 DEF kvars
<1>5. QED
  BY <1>2, <1>3, <1>4, CashSteps, SMTT(20)

(* What the ledger holds is typed: add_ledger_entry computes the variance. *)
LEMMA EntryTyped ==
  ASSUME NEW b \in Bodies
  PROVE  Entry(b) \in Entries
<1>1. b \in AllBodies
  BY CashAssumption
<1>2. /\ b.dev \in Devices /\ b.site \in Sites /\ b.event \in STRING /\ b.type \in EventTypes
      /\ b.expected \in Int /\ b.observed \in Int /\ b.at \in Nat
  BY <1>1 DEF AllBodies
<1>v. PICK v \in Int : v = b.observed - b.expected
  BY <1>2, SMTT(20)
<1>3. PICK dup \in BOOLEAN : dup = (b.dup \/ (b.event # NoEvent /\ b.event \in seen))
  <2>1. b.dup \in BOOLEAN
    BY <1>1 DEF AllBodies
  <2> QED BY <2>1
<1>4. Entry(b) = [dev |-> b.dev, site |-> b.site, event |-> b.event, type |-> b.type,
                  expected |-> b.expected, observed |-> b.observed, at |-> b.at,
                  variance |-> v, dup |-> dup]
  BY <1>v, <1>3 DEF Entry
<1> QED BY <1>2, <1>4, SMTT(20) DEF Entries

ReportOK(r) ==
  /\ r.upto \in 0..Len(ledger)
  /\ LET once == {i \in 1..r.upto : scope_matches(ledger[i], r.scope) /\ ~Repeats(i)}
     IN r.status = "balanced" =>
          r.observed = SumFunction([i \in once |-> ledger[i].expected])
BooksOK ==
  /\ ledger \in Seq(Entries)
  /\ IsSeq(reports) /\ \A k \in DOMAIN reports : ReportOK(reports[k])

(* What was said of the entries that a report has seen stays true when     *)
(* others follow.                                                          *)
LEMMA ReportKept ==
  ASSUME NEW r, ReportOK(r), ledger \in Seq(Entries), NEW n \in Nat, Len(ledger') = n,
         Len(ledger) <= n, \A i \in 1..Len(ledger) : ledger'[i] = ledger[i]
  PROVE  ReportOK(r)'
<1>1. r.upto \in 0..Len(ledger) /\ r.upto \in 0..Len(ledger') /\ Len(ledger) \in Nat
  BY SMTT(20) DEF ReportOK
<1>2. \A i \in 1..r.upto : i \in 1..Len(ledger) /\ 1..i - 1 \subseteq 1..Len(ledger)
  BY <1>1, SMTT(20)
<1>3. \A i \in 1..r.upto : ledger'[i] = ledger[i] /\ (Repeats(i)' <=> Repeats(i))
  BY <1>2 DEF Repeats, SameEvent
<1> DEFINE once == {i \in 1..r.upto : scope_matches(ledger[i], r.scope) /\ ~Repeats(i)}
           after == {i \in 1..r.upto : scope_matches(ledger'[i], r.scope) /\ ~Repeats(i)'}
<1>4. once = after /\ \A i \in once : ledger'[i] = ledger[i]
  BY <1>3 DEF scope_matches
<1>5. [i \in once |-> ledger[i].expected] = [i \in after |-> ledger'[i].expected]
  BY <1>4
<1>6. (r.status = "balanced" => r.observed = SumFunction([i \in once |-> ledger[i].expected]))
      => (r.status = "balanced" => r.observed = SumFunction([i \in after |-> ledger'[i].expected]))
  BY <1>5
<1> HIDE DEF once, after
<1> QED
  <2>1. r.status = "balanced" => r.observed = SumFunction([i \in once |-> ledger[i].expected])
    BY ZenonT(20) DEF ReportOK, once
  <2>2. r.status = "balanced" => r.observed = SumFunction([i \in after |-> ledger'[i].expected])
    BY <1>6, <2>1, ZenonT(20)
  <2> QED BY <1>1, <2>2, ZenonT(20) DEF ReportOK, after

(* reconcile closes the books on what the distinct events of the scope     *)
(* lead to expect.                                                         *)
LEMMA ReconcileStep ==
  ASSUME LedgerOK, BooksOK, NEW x \in Scopes, NEW observed \in Observed, NEW now,
         reconcile(x, observed, now)
  PROVE  BooksOK'
<1> DEFINE mine == Matched(x)
           variance == observed - Expected(mine)
           r == [scope |-> x, variance |-> variance, observed |-> observed,
                 status |-> Status(mine, variance), upto |-> Len(ledger)]
<1>1. reports' = Append(reports, r) /\ UNCHANGED ledger
  BY DEF reconcile
<1>2. r.scope = x /\ r.observed = observed /\ r.status = Status(mine, variance)
      /\ r.upto = Len(ledger)
  OBVIOUS
<1>3. Len(ledger) \in Nat /\ DOMAIN ledger = 1..Len(ledger) /\ ledger \in [1..Len(ledger) -> Entries]
  BY SMTT(20) DEF BooksOK
<1>4. mine \subseteq 1..Len(ledger) /\ IsFiniteSet(mine)
  <2>1. mine \subseteq 1..Len(ledger)
    BY <1>3 DEF Matched
  <2>2. IsFiniteSet(1..Len(ledger))
    BY <1>3, FS_Interval, SMTT(20)
  <2> HIDE DEF mine
  <2> QED BY <2>1, <2>2, FS_Subset, ZenonT(20)
<1>5. Expected(mine) \in Int
  <2> DEFINE f == [i \in mine |-> ledger[i].expected]
  <2>1. \A i \in mine : ledger[i].expected \in Int
    BY <1>3, <1>4 DEF Entries
  <2>2. f \in [mine -> Int] /\ Int \in {Nat, Int}
    BY <2>1, ZenonT(20)
  <2>3. SumFunction(f) \in Int
    <3> HIDE DEF f, mine
    <3> QED BY <1>4, <2>2, SumTyped, ZenonT(20)
  <2> QED BY <2>3 DEF Expected
<1>6. ASSUME r.status = "balanced"
      PROVE  r.observed = SumFunction([i \in {j \in 1..r.upto : /\ scope_matches(ledger[j], r.scope)
                                                                /\ ~Repeats(j)} |->
                                         ledger[i].expected])
  <2>1. ~Duplicated(mine) /\ variance = 0
    BY <1>2, <1>6, SMTT(20), ZenonT(20) DEF Status
  <2>2. observed = Expected(mine)
    <3>1. observed \in Int
      BY CashAssumption
    <3> QED BY <1>5, <2>1, <3>1, SMTT(20)
  <2>3. \A i \in mine : ~Repeats(i)
    <3>1. \A i \in mine : ~ledger[i].dup
      BY <2>1 DEF Duplicated
    <3> QED BY <1>3, <1>4, <3>1 DEF LedgerOK, DuplicatesMarked
  <2> DEFINE once == {j \in 1..r.upto : scope_matches(ledger[j], r.scope) /\ ~Repeats(j)}
  <2>4. once = mine
    BY <1>2, <1>3, <2>3, ZenonT(20) DEF Matched
  <2>5. [i \in once |-> ledger[i].expected] = [i \in mine |-> ledger[i].expected]
    BY <2>4
  <2>6. r.observed = SumFunction([i \in once |-> ledger[i].expected])
    <3> HIDE DEF once, mine, r
    <3> QED BY <1>2, <2>2, <2>5 DEF Expected
  <2> QED BY <2>6, ZenonT(20)
<1> HIDE DEF r
<1>7. ReportOK(r)
  BY <1>2, <1>3, <1>6, SMTT(20) DEF ReportOK
<1>8. \A k : ReportOK(k)' <=> ReportOK(k)
  BY <1>1 DEF ReportOK, Repeats, SameEvent
<1>9. /\ IsSeq(reports') /\ DOMAIN reports' = 1..Len(reports) + 1 /\ Len(reports) \in Nat
      /\ \A i \in 1..Len(reports) : reports'[i] = reports[i] /\ i \in DOMAIN reports
      /\ reports'[Len(reports) + 1] = r
  BY <1>1, Appended, SMTT(20), ZenonT(20) DEF BooksOK
<1>10. \A k \in DOMAIN reports' : k \in 1..Len(reports) \/ k = Len(reports) + 1
  BY <1>9, SMTT(20)
<1>11. \A k \in DOMAIN reports' : ReportOK(reports'[k])
  BY <1>7, <1>9, <1>10 DEF BooksOK
<1> QED BY <1>1, <1>8, <1>9, <1>11 DEF BooksOK

(* Every step keeps the books.                                             *)
LEMMA BooksStep ==
  ASSUME LedgerOK, BooksOK, [ENext]_allvars
  PROVE  BooksOK'
<1>1. ASSUME UNCHANGED <<ledger, reports>> PROVE BooksOK'
  BY <1>1, SMTT(20), ZenonT(20) DEF BooksOK, ReportOK, Repeats, SameEvent
<1>2. ASSUME NEW t \in Tenants, NEW b \in Bodies, add_ledger_entry(t, b) PROVE BooksOK'
  <2>1. ledger' = Append(ledger, Entry(b)) /\ UNCHANGED reports
    BY <1>2 DEF add_ledger_entry
  <2>2. Entry(b) \in Entries
    BY EntryTyped
  <2>3. /\ ledger' \in Seq(Entries) /\ Len(ledger) \in Nat /\ Len(ledger') = Len(ledger) + 1
        /\ \A i \in 1..Len(ledger) : ledger'[i] = ledger[i]
    BY <2>1, <2>2, SMTT(20) DEF BooksOK
  <2>4. \A r : ReportOK(r) => ReportOK(r)'
    BY <2>3, ReportKept, SMTT(20) DEF BooksOK
  <2> QED BY <2>1, <2>3, <2>4 DEF BooksOK
<1>3. CASE CashNext
  <2>1. CASE \E x \in Scopes, now \in CashTimes : update_inventory(x, now) \/ forecast(x, now)
    BY <1>1, <2>1 DEF update_inventory, forecast
  <2>2. CASE \E x \in Scopes, observed \in Observed, now \in CashTimes : reconcile(x, observed, now)
    BY <2>2, ReconcileStep
  <2>3. CASE \E x \in Scopes, now \in CashTimes : DetectStart(x, now)
    BY <1>1, <2>3 DEF DetectStart
  <2>4. CASE DetectAlert \/ DetectSave
    BY <1>1, <2>4 DEF DetectAlert, DetectSave
  <2> QED BY <1>2, <1>3, <2>1, <2>2, <2>3, <2>4 DEF CashNext
<1>4. CASE CashRestart
  BY <1>1, <1>4 DEF CashRestart
<1>5. CASE UNCHANGED kvars
  BY <1>1, <1>5 DEF kvars
<1> QED BY <1>3, <1>4, <1>5, CashSteps

(* The ledger marks repeated events and the books agree with it.           *)
LEMMA BooksInvariant == ESpec => [](LedgerOK /\ BooksOK)
<1>1. KInit => LedgerOK /\ BooksOK
  <2> SUFFICES ASSUME KInit PROVE LedgerOK /\ BooksOK
    OBVIOUS
  <2>1. ledger = <<>> /\ seen = {} /\ reports = <<>>
    BY DEF KInit
  <2>2. <<>> \in Seq({})
    BY SMTT(20)
  <2>3. LedgerOK
    BY <2>1, <2>2, SMTT(20) DEF LedgerOK, IsSeq, load_seen, DuplicatesMarked
  <2>4. BooksOK
    BY <2>1, <2>2, SMTT(20) DEF BooksOK, IsSeq
  <2> QED BY <2>3, <2>4
<1>2. (LedgerOK /\ BooksOK) /\ [ENext]_allvars => (LedgerOK /\ BooksOK)'
  BY LedgerStep, BooksStep
<1> QED BY <1>1, <1>2, PTL DEF ESpec, allvars

(* add_ledger_entry marks an event that the ledger already holds, whatever *)
(* restarts and whoever posted the first copy.                             *)
THEOREM DuplicatesAreMarked == ESpec => []DuplicatesMarked
<1>1. LedgerOK => DuplicatesMarked
  BY DEF LedgerOK
<1> QED BY <1>1, BooksInvariant, PTL

(* reconcile calls a scope balanced only when the cash that was counted is *)
(* what the distinct events of the scope lead to expect, for every ledger. *)
THEOREM BalanceIsTrue == ESpec => []BalancedIsTrue
<1>1. BooksOK => BalancedIsTrue
  BY ZenonT(20) DEF BooksOK, ReportOK, BalancedIsTrue, Range
<1> QED BY <1>1, BooksInvariant, PTL

-----------------------------------------------------------------------------
(***************************************************************************)
(* The data of the cash service and of the alerts is well formed.          *)
(***************************************************************************)
(* How a set of indices grows with the sequence that it is taken from.     *)
LEMMA Counted ==
  ASSUME NEW n \in Nat, NEW A, \A i \in A : i \in 1..n
  PROVE  /\ IsFiniteSet(A) /\ Cardinality(A) \in Nat
         /\ Cardinality(A \cup {n + 1}) = Cardinality(A) + 1
<1>1. IsFiniteSet(1..n) /\ A \subseteq 1..n /\ n + 1 \notin A
  BY FS_Interval, SMTT(20)
<1>2. IsFiniteSet(A)
  BY <1>1, FS_Subset
<1>3. Cardinality(A) \in Nat
  BY <1>2, FS_CardinalityType
<1>4. Cardinality(A \cup {n + 1}) = Cardinality(A) + 1
  BY <1>1, <1>2, FS_AddElement
<1> QED BY <1>2, <1>3, <1>4

(* What detect_anomalies finds is a list of findings.                      *)
LEMMA EntryFindingsTyped ==
  ASSUME NEW x \in Scopes, NEW e \in Entries
  PROVE  EntryFindings(x, e) \in Seq(Findings)
<1>1. PICK f : f = Finding(x, e.dev, "large_one_time_variance", "critical")
  OBVIOUS
<1>2. PICK g : g = Finding(x, e.dev, "after_hours_drawer_activity", "warning")
  OBVIOUS
<1>3. f \in Findings /\ g \in Findings
  BY <1>1, <1>2 DEF Finding, Findings, FindingTypes, Entries
<1>4. <<f>> \in Seq(Findings) /\ <<g>> \in Seq(Findings) /\ <<>> \in Seq(Findings)
  BY <1>3, SMTT(20)
<1>5. \A c : When(c, f) \in Seq(Findings) /\ When(c, g) \in Seq(Findings)
  BY <1>4 DEF When
<1> DEFINE c == e.variance <= -10000
           d == e.type = "drawer_open" /\ AfterHours(e.at)
<1>6. EntryFindings(x, e) =
        When(c, Finding(x, e.dev, "large_one_time_variance", "critical"))
        \o When(d, Finding(x, e.dev, "after_hours_drawer_activity", "warning"))
  BY SMTT(20) DEF EntryFindings
<1>7. \A s, r \in Seq(Findings) : s \o r \in Seq(Findings)
  BY SMTT(20)
<1> HIDE DEF c, d
<1>8. EntryFindings(x, e) = When(c, f) \o When(d, g)
  BY <1>1, <1>2, <1>6
<1> QED BY <1>5, <1>7, <1>8

(* The findings of all entries of a scope, in their order, are a list.    *)
LEMMA DetectedTyped ==
  ASSUME ledger \in Seq(Entries), NEW x \in Scopes
  PROVE  Detected(x) \in Seq(Findings)
<1> DEFINE mine == Matched(x)
           V == Seq(Findings)
           F(i) == EntryFindings(x, ledger[i])
           ch == [s \in SUBSET mine |-> Least(s)]
           h == [p \in (SUBSET mine) \X V |-> F(ch[p[1]]) \o p[2]]
           Body(g) == [s \in SUBSET mine |->
                         IF s = {} THEN <<>> ELSE F(Least(s)) \o g[s \ {Least(s)}]]
           fold == CHOOSE g : g = Body(g)
<1>1. MapThenFoldSet(\o, <<>>, LAMBDA i : EntryFindings(x, ledger[i]), Least, mine) = fold[mine]
  BY DEF MapThenFoldSet
<1>2. \A i \in mine : F(i) \in V
  <2>1. \A i \in mine : ledger[i] \in Entries
    <3>1. ledger \in [1..Len(ledger) -> Entries] /\ DOMAIN ledger = 1..Len(ledger)
      BY SMTT(20)
    <3> QED BY <3>1 DEF Matched
  <2> QED BY <2>1, EntryFindingsTyped
<1>3. IsFiniteSet(mine) /\ \A s \in SUBSET mine : s # {} => Least(s) \in s
  <2>1. Len(ledger) \in Nat /\ DOMAIN ledger = 1..Len(ledger)
    BY SMTT(20)
  <2>2. mine \in SUBSET (1..Len(ledger))
    BY <2>1 DEF Matched
  <2>3. IsFiniteSet(1..Len(ledger))
    BY <2>1, FS_Interval, SMTT(20)
  <2> HIDE DEF mine
  <2>4. \A s \in SUBSET mine : s \in SUBSET (1..Len(ledger))
    BY <2>2
  <2>5. \A s \in SUBSET mine : s # {} => Bounded(s)
    BY <2>1, <2>4, IndexBounds
  <2> QED BY <2>2, <2>3, <2>5, FS_Subset DEF Bounded
<1>4. <<>> \in V /\ \A v, w \in V : v \o w \in V
  BY SMTT(20)
<1> HIDE DEF mine, V, F
<1>5. \A s \in SUBSET mine : s # {} => ch[s] \in s /\ ch[s] = Least(s)
  BY <1>3
<1>6. \A s \in SUBSET mine, v \in V : h[<<s, v>>] = F(ch[s]) \o v
  OBVIOUS
<1> HIDE DEF ch, h
<1>7. \A s \in SUBSET mine, v \in V : s # {} => h[<<s, v>>] \in V
  <2> SUFFICES ASSUME NEW s \in SUBSET mine, NEW v \in V, s # {} PROVE h[<<s, v>>] \in V
    OBVIOUS
  <2>1. ch[s] \in mine
    BY <1>5
  <2>2. F(ch[s]) \in V
    BY <1>2, <2>1
  <2>3. F(ch[s]) \o v \in V
    BY <1>4, <2>2
  <2> QED BY <1>6, <2>3
<1>8. Chooses(ch, mine)
  BY <1>5 DEF Chooses
<1>9. PICK g \in [SUBSET mine -> V] : FoldOn(g, mine, <<>>, ch, h)
  BY <1>3, <1>4, <1>7, <1>8, FoldExists
<1>10. \A s \in SUBSET mine : s # {} => s \ {ch[s]} \in SUBSET mine
  OBVIOUS
<1>11. \A s \in SUBSET mine : g[s] = IF s = {} THEN <<>> ELSE F(ch[s]) \o g[s \ {ch[s]}]
  BY <1>6, <1>9, <1>10 DEF FoldOn
<1>12. \A s \in SUBSET mine : g[s] = Body(g)[s]
  BY <1>5, <1>11
<1>13. g = Body(g)
  BY <1>12
<1>14. fold = Body(fold)
  BY <1>13
<1>15. \A s \in SUBSET mine : fold[s] = IF s = {} THEN <<>> ELSE F(ch[s]) \o fold[s \ {ch[s]}]
  <2> HIDE DEF fold
  <2> QED BY <1>5, <1>14
<1> HIDE DEF fold, Body
<1>16. FoldAlike(fold, g, ch, mine)
  BY <1>11, <1>15 DEF FoldAlike
<1>17. fold[mine] = g[mine]
  <2>1. \A s \in SUBSET mine : fold[s] = g[s]
    BY <1>3, <1>8, <1>16, FoldUnique, SMTT(20)
  <2> QED BY <2>1
<1>18. fold[mine] \in V
  BY <1>9, <1>17
<1>19. \A type \in FindingTypes : Finding(x, None, type, "warning") \in Findings
  BY DEF Finding, Findings
<1>20. \A f \in Findings : <<f>> \in V
  BY SMTT(20) DEF V
<1>21. \A c, type : type \in FindingTypes => When(c, Finding(x, None, type, "warning")) \in V
  BY <1>4, <1>19, <1>20 DEF When
<1>22. /\ "repeated_small_shortages" \in FindingTypes /\ "excessive_manual_adjustments" \in FindingTypes
       /\ "unusual_cash_out_frequency" \in FindingTypes
  BY DEF FindingTypes
<1> QED
  <2> DEFINE a == When(Cardinality({i \in mine : ledger[i].variance \in -999..-1}) >= 3,
                       Finding(x, None, "repeated_small_shortages", "warning"))
             b == When(Cardinality(mine \cap OfType(ledger, "manual_adjustment")) > 3,
                       Finding(x, None, "excessive_manual_adjustments", "warning"))
             c == When(Cardinality(mine \cap OfType(ledger, "cash_out")) > 5,
                       Finding(x, None, "unusual_cash_out_frequency", "warning"))
  <2>1. a \in V /\ b \in V /\ c \in V
    BY <1>21, <1>22
  <2>2. Detected(x) = MapThenFoldSet(\o, <<>>, LAMBDA i : EntryFindings(x, ledger[i]), Least, mine)
                      \o a \o b \o c
    BY DEF Detected, mine
  <2> HIDE DEF a, b, c
  <2>3. Detected(x) \in V
    <3>1. fold[mine] \o a \in V
      BY <1>4, <1>18, <2>1
    <3>2. fold[mine] \o a \o b \in V
      BY <1>4, <2>1, <3>1
    <3>3. fold[mine] \o a \o b \o c \in V
      BY <1>4, <2>1, <3>2
    <3> QED BY <1>1, <2>2, <3>3
  <2> QED BY <2>3 DEF V

(* The entries of a scope are finitely many, and each is an entry.         *)
LEMMA MatchedEntries ==
  ASSUME ledger \in Seq(Entries), NEW x
  PROVE  /\ IsFiniteSet(Matched(x)) /\ Matched(x) \in SUBSET (1..Len(ledger)) /\ Len(ledger) \in Nat
         /\ \A i \in Matched(x) : ledger[i] \in Entries
<1>1. Len(ledger) \in Nat /\ DOMAIN ledger = 1..Len(ledger) /\ ledger \in [1..Len(ledger) -> Entries]
  BY SMTT(20)
<1>2. Matched(x) \in SUBSET (1..Len(ledger))
  BY <1>1 DEF Matched
<1>3. IsFiniteSet(1..Len(ledger))
  BY <1>1, FS_Interval, SMTT(20)
<1> QED BY <1>1, <1>2, <1>3, FS_Subset

(* So their totals are integers.                                           *)
LEMMA TotalsTyped ==
  ASSUME ledger \in Seq(Entries), NEW x
  PROVE  Expected(Matched(x)) \in Int /\ Variance(Matched(x)) \in Int
<1>1. PICK mine : mine = Matched(x)
  OBVIOUS
<1>2. IsFiniteSet(mine) /\ \A i \in mine : ledger[i].expected \in Int /\ ledger[i].variance \in Int
  BY <1>1, MatchedEntries DEF Entries
<1>3. PICK f : f = [i \in mine |-> ledger[i].expected]
  OBVIOUS
<1>4. PICK g : g = [i \in mine |-> ledger[i].variance]
  OBVIOUS
<1>5. f \in [mine -> Int] /\ g \in [mine -> Int] /\ Int \in {Nat, Int}
  BY <1>2, <1>3, <1>4
<1>6. SumFunction(f) \in Int /\ SumFunction(g) \in Int
  BY <1>2, <1>5, SumTyped
<1> QED BY <1>1, <1>3, <1>4, <1>6 DEF Expected, Variance

(* A report that reconcile writes.                                         *)
LEMMA ReportTyped ==
  ASSUME ledger \in Seq(Entries), NEW x \in Scopes, NEW observed \in Observed
  PROVE  [scope |-> x, variance |-> observed - Expected(Matched(x)), observed |-> observed,
          status |-> Status(Matched(x), observed - Expected(Matched(x))), upto |-> Len(ledger)] \in Reports
<1>1. PICK v : v = observed - Expected(Matched(x))
  OBVIOUS
<1>2. observed \in Int
  BY CashAssumption
<1>3. v \in Int
  BY <1>1, <1>2, TotalsTyped, SMTT(20)
<1>4. Status(Matched(x), v) \in Statuses
  BY SMTT(20) DEF Status, Statuses
<1>5. PICK st : st = Status(Matched(x), v)
  OBVIOUS
<1>6. Len(ledger) \in Nat
  BY SMTT(20)
<1>7. [scope |-> x, variance |-> v, observed |-> observed, status |-> st, upto |-> Len(ledger)] \in Reports
  BY <1>2, <1>3, <1>4, <1>5, <1>6 DEF Reports
<1> QED BY <1>1, <1>5, <1>7

Works == [found : Seq(Findings), raised : Nat, now : Nat]
KOK == KTypeOK /\ \A w \in detecting : w.raised <= Len(w.found)

(* Later gives one of two times.                                           *)
LEMMA LaterTyped ==
  ASSUME NEW a \in Nat, NEW b \in Nat
  PROVE  Later(a, b) \in Nat
  BY SMTT(20) DEF Later

(* Every operation of the cash service keeps the types of its records.     *)
LEMMA CashTypes ==
  ASSUME KOK, CashNext
  PROVE  KOK'
<1>1. ASSUME NEW t \in Tenants, NEW b \in Bodies, add_ledger_entry(t, b) PROVE KOK'
  <2>1. /\ ledger' = Append(ledger, Entry(b)) /\ seen' = seen \cup ({b.event} \ {NoEvent})
        /\ newest' = Later(newest, b.at) /\ UNCHANGED <<reports, anomalies, inventory, detecting>>
    BY <1>1 DEF add_ledger_entry
  <2>2. b.event \in STRING /\ b.at \in Nat /\ Entry(b) \in Entries
    BY CashAssumption, EntryTyped DEF AllBodies
  <2>3. PICK e : e = Entry(b) /\ e \in Entries
    BY <2>2
  <2>4. ledger' \in Seq(Entries)
    BY <2>1, <2>3, SMTT(20) DEF KOK, KTypeOK
  <2>5. newest' \in Nat
    BY <2>1, <2>2, LaterTyped DEF KOK, KTypeOK
  <2>6. seen' \subseteq STRING
    BY <2>1, <2>2 DEF KOK, KTypeOK
  <2> QED BY <2>1, <2>4, <2>5, <2>6 DEF KOK, KTypeOK
<1>2. ASSUME NEW x \in Scopes, NEW now \in CashTimes, update_inventory(x, now) \/ forecast(x, now) PROVE KOK'
  <2>1. now \in Nat
    BY CashAssumption
  <2>2. /\ inventory' \in {inventory, [inventory EXCEPT ![x] = now]} /\ newest' = Later(newest, now)
        /\ UNCHANGED <<ledger, seen, reports, anomalies, detecting>>
    BY <1>2 DEF update_inventory, forecast
  <2>3. newest' \in Nat
    BY <2>1, <2>2, LaterTyped DEF KOK, KTypeOK
  <2>4. inventory' \in [Scopes -> Nat]
    BY <2>1, <2>2 DEF KOK, KTypeOK
  <2> QED BY <2>2, <2>3, <2>4 DEF KOK, KTypeOK
<1>3. ASSUME NEW x \in Scopes, NEW observed \in Observed, NEW now \in CashTimes, reconcile(x, observed, now)
      PROVE  KOK'
  <2>1. PICK r : r = [scope |-> x, variance |-> observed - Expected(Matched(x)), observed |-> observed,
                      status |-> Status(Matched(x), observed - Expected(Matched(x))), upto |-> Len(ledger)]
    OBVIOUS
  <2>2. /\ reports' = Append(reports, r) /\ newest' = Later(newest, now)
        /\ UNCHANGED <<ledger, seen, anomalies, inventory, detecting>>
    BY <1>3, <2>1 DEF reconcile
  <2>3. r \in Reports
    BY <2>1, ReportTyped DEF KOK, KTypeOK
  <2>4. reports' \in Seq(Reports)
    BY <2>2, <2>3, SMTT(20) DEF KOK, KTypeOK
  <2>5. now \in Nat
    BY CashAssumption
  <2>6. newest' \in Nat
    BY <2>2, <2>5, LaterTyped DEF KOK, KTypeOK
  <2> QED BY <2>2, <2>4, <2>6 DEF KOK, KTypeOK
<1>4. ASSUME NEW x \in Scopes, NEW now \in CashTimes, DetectStart(x, now) PROVE KOK'
  <2>1. PICK w : w = [found |-> Detected(x), raised |-> 0, now |-> now]
    OBVIOUS
  <2>2. detecting' = {w} /\ UNCHANGED <<ledger, seen, reports, anomalies, inventory, newest>>
    BY <1>4, <2>1 DEF DetectStart
  <2>3. now \in Nat /\ Detected(x) \in Seq(Findings)
    BY CashAssumption, DetectedTyped DEF KOK, KTypeOK
  <2>4. w.raised = 0 /\ w.found = Detected(x) /\ w \in Works
    BY <2>1, <2>3 DEF Works
  <2>5. w.raised <= Len(w.found)
    BY <2>3, <2>4, SMTT(20)
  <2> QED BY <2>2, <2>4, <2>5 DEF KOK, KTypeOK, Works
<1>5. CASE DetectAlert
  <2>1. PICK w \in detecting : w.raised < Len(w.found) /\ detecting' = {[w EXCEPT !.raised = @ + 1]}
    BY <1>5 DEF DetectAlert
  <2>2. UNCHANGED <<ledger, seen, reports, anomalies, inventory, newest>>
    BY <1>5 DEF DetectAlert
  <2>3. w \in Works
    BY <2>1 DEF KOK, KTypeOK, Works
  <2>4. PICK v : v = [w EXCEPT !.raised = @ + 1]
    OBVIOUS
  <2>5. v.raised = w.raised + 1 /\ v.found = w.found /\ v \in Works
    BY <2>3, <2>4, SMTT(20) DEF Works
  <2>6. v.raised <= Len(v.found)
    BY <2>1, <2>3, <2>5, SMTT(20) DEF Works
  <2> QED BY <2>1, <2>2, <2>4, <2>5, <2>6 DEF KOK, KTypeOK, Works
<1>6. CASE DetectSave
  <2>1. PICK w \in detecting : /\ anomalies' = anomalies \o w.found
                               /\ newest' = IF w.found = <<>> THEN newest ELSE Later(newest, w.now)
    BY <1>6 DEF DetectSave
  <2>2. detecting' = {} /\ UNCHANGED <<ledger, seen, reports, inventory>>
    BY <1>6 DEF DetectSave
  <2>3. w.found \in Seq(Findings) /\ w.now \in Nat
    BY <2>1 DEF KOK, KTypeOK
  <2>4. anomalies' \in Seq(Findings)
    BY <2>1, <2>3, SMTT(20) DEF KOK, KTypeOK
  <2>5. newest' \in Nat
    BY <2>1, <2>3, LaterTyped DEF KOK, KTypeOK
  <2> QED BY <2>2, <2>4, <2>5 DEF KOK, KTypeOK
<1> QED BY <1>1, <1>2, <1>3, <1>4, <1>5, <1>6 DEF CashNext

(* So does every step of the server.                                       *)
LEMMA CashTypeStep ==
  ASSUME KOK, [ENext]_allvars
  PROVE  KOK'
<1>1. CASE CashRestart
  <2>1. seen' = load_seen /\ detecting' = {} /\ UNCHANGED <<ledger, reports, anomalies, inventory, newest>>
    BY <1>1 DEF CashRestart
  <2>2. \A i \in DOMAIN ledger : ledger[i] \in Entries
    BY SMTT(20) DEF KOK, KTypeOK
  <2>3. \A i \in DOMAIN ledger : ledger[i].event \in STRING
    BY <2>2 DEF Entries
  <2>4. load_seen \subseteq STRING
    BY <2>3 DEF load_seen
  <2> QED BY <2>1, <2>4 DEF KOK, KTypeOK
<1>2. CASE UNCHANGED kvars
  BY <1>2 DEF KOK, KTypeOK, kvars
<1> QED BY <1>1, <1>2, CashSteps, CashTypes

-----------------------------------------------------------------------------
(***************************************************************************)
(* Alerts.  No step takes an alert away or changes its type.               *)
(***************************************************************************)
AlertsTyped == alerts \in Seq(AlertRecords)
AlertsKept ==
  /\ AlertsTyped' /\ Len(alerts) <= Len(alerts')
  /\ \A i \in 1..Len(alerts) : alerts'[i].type = alerts[i].type

(* detect_anomalies adds an alert of the type of its next finding.         *)
LEMMA FindingAlerted ==
  ASSUME AlertsTyped, FleetOK, KOK, DetectAlert
  PROVE  \E w \in detecting, a \in AlertRecords :
           /\ w.raised < Len(w.found) /\ detecting' = {[w EXCEPT !.raised = @ + 1]}
           /\ alerts' = Append(alerts, a) /\ a.type = w.found[w.raised + 1].type
<1>1. PICK w \in detecting :
        LET f == w.found[w.raised + 1]
        IN /\ w.raised < Len(w.found) /\ detecting' = {[w EXCEPT !.raised = @ + 1]}
           /\ create_alert(IF f.dev \in DOMAIN registry THEN registry[f.dev].org ELSE None, f.dev, f.type)
  BY DEF DetectAlert
<1>2. w.found \in Seq(Findings) /\ w.raised \in Nat
  BY DEF KOK, KTypeOK
<1>3. PICK f : f = w.found[w.raised + 1]
  OBVIOUS
<1>4. f \in Findings
  BY <1>1, <1>2, <1>3, SMTT(20)
<1>5. PICK o : o = IF f.dev \in DOMAIN registry THEN registry[f.dev].org ELSE None
  OBVIOUS
<1>6. o \in Tenants
  <2>1. \A d \in DOMAIN registry : registry[d].org \in Orgs
    BY DEF FleetOK, DeviceRecords
  <2> QED BY <1>5, <2>1 DEF Tenants
<1>7. PICK a : a = Alert(o, f.dev, f.type)
  OBVIOUS
<1>8. a \in AlertRecords /\ a.type = f.type
  BY <1>4, <1>6, <1>7 DEF Alert, AlertRecords, Findings
<1>9. alerts' = Append(alerts, a)
  BY <1>1, <1>3, <1>5, <1>7 DEF create_alert
<1> QED BY <1>1, <1>3, <1>8, <1>9

(* detect_stale_devices adds alerts at the end.                            *)
LEMMA StaleKept ==
  ASSUME AlertsTyped, FleetOK, NEW now \in Times, detect_stale_devices(now)
  PROVE  AlertsKept
<1> DEFINE Raises(n, order) ==
             /\ \A d \in Stale(now) : \E i \in 1..n : order[i] = d
             /\ alerts' = alerts \o [i \in 1..n |->
                            Alert(registry[order[i]].org, order[i], "offline_device")]
<1>1. PICK n \in 0..(MaxAlerts - Len(alerts)) : \E order \in [1..n -> Stale(now)] : Raises(n, order)
  BY SMTT(20) DEF detect_stale_devices
<1>2. PICK order \in [1..n -> Stale(now)] : Raises(n, order)
  BY <1>1
<1>3. PICK more : more = [i \in 1..n |-> Alert(registry[order[i]].org, order[i], "offline_device")]
  OBVIOUS
<1>4. \A d \in Stale(now) : d \in Devices /\ registry[d].org \in Tenants
  BY DEF Stale, FleetOK, DeviceRecords, Tenants
<1>5. \A o \in Tenants, d \in Devices : Alert(o, d, "offline_device") \in AlertRecords
  BY DEF Alert, AlertRecords
<1>6. \A i \in 1..n : Alert(registry[order[i]].org, order[i], "offline_device") \in AlertRecords
  BY <1>4, <1>5
<1>7. more \in [1..n -> AlertRecords]
  BY <1>3, <1>6
<1>8. n \in Nat
  BY SMTT(20)
<1>9. more \in Seq(AlertRecords)
  BY <1>7, <1>8, SMTT(20)
<1>10. alerts' = alerts \o more
  BY <1>2, <1>3
<1>11. AlertsTyped' /\ Len(alerts') = Len(alerts) + Len(more) /\ \A i \in 1..Len(alerts) : alerts'[i] = alerts[i]
  BY <1>9, <1>10, Joined, SMTT(20) DEF AlertsTyped
<1>12. Len(alerts) <= Len(alerts')
  BY <1>9, <1>11, SMTT(20) DEF AlertsTyped
<1> QED BY <1>11, <1>12 DEF AlertsKept

(* acknowledge_alert marks an alert in its place.                          *)
LEMMA AckKept ==
  ASSUME AlertsTyped, NEW t, NEW k, acknowledge_alert(t, k)
  PROVE  AlertsKept
<1>1. k \in DOMAIN alerts /\ alerts' = [alerts EXCEPT ![k].acked = TRUE]
  BY DEF acknowledge_alert
<1>2. /\ Len(alerts) \in Nat /\ DOMAIN alerts = 1..Len(alerts)
      /\ alerts \in [1..Len(alerts) -> AlertRecords]
  BY SMTT(20) DEF AlertsTyped
<1>3. PICK a : a = [alerts[k] EXCEPT !.acked = TRUE]
  OBVIOUS
<1>4. a \in AlertRecords /\ a.type = alerts[k].type
  BY <1>1, <1>2, <1>3 DEF AlertRecords
<1>5. alerts' = [alerts EXCEPT ![k] = a]
  BY <1>1, <1>3
<1>6. /\ alerts' \in [1..Len(alerts) -> AlertRecords]
      /\ \A i \in 1..Len(alerts) : alerts'[i].type = alerts[i].type
  BY <1>1, <1>2, <1>4, <1>5
<1>7. AlertsTyped' /\ Len(alerts') = Len(alerts)
  BY <1>2, <1>6, SMTT(20) DEF AlertsTyped
<1>8. Len(alerts) <= Len(alerts')
  BY <1>2, <1>7, SMTT(20)
<1> QED BY <1>6, <1>7, <1>8 DEF AlertsKept

(* Every step of the server keeps the alerts.                              *)
LEMMA AlertsStep ==
  ASSUME AlertsTyped, FleetOK, KOK, [ENext]_allvars
  PROVE  AlertsKept
<1>1. ASSUME UNCHANGED alerts PROVE AlertsKept
  <2>1. Len(alerts) \in Nat
    BY SMTT(20) DEF AlertsTyped
  <2>2. Len(alerts) <= Len(alerts)
    BY <2>1, SMTT(20)
  <2> QED BY <1>1, <2>2 DEF AlertsKept, AlertsTyped
<1>2. CASE DetectAlert
  <2>1. PICK a \in AlertRecords : alerts' = Append(alerts, a)
    BY <1>2, FindingAlerted
  <2>2. AlertsTyped' /\ Len(alerts) <= Len(alerts') /\ \A i \in 1..Len(alerts) : alerts'[i] = alerts[i]
    BY <2>1, SMTT(20) DEF AlertsTyped
  <2> QED BY <2>2 DEF AlertsKept
<1>3. CASE CashNext
  BY <1>1, <1>2, <1>3 DEF CashNext, add_ledger_entry, update_inventory, forecast, reconcile,
       DetectStart, DetectSave, cvars
<1>4. CASE RegistryNext
  <2>1. \A now \in Times : detect_stale_devices(now) => AlertsKept
    BY StaleKept
  <2>2. \A t, i : acknowledge_alert(t, i) => AlertsKept
    BY AckKept
  <2>3. \/ UNCHANGED alerts \/ (\E now \in Times : detect_stale_devices(now))
        \/ (\E t \in Tenants, i \in 1..MaxAlerts : acknowledge_alert(t, i))
    BY <1>4 DEF RegistryNext, Upsert, register_device, LookupDevice, receive_heartbeat
  <2> QED BY <1>1, <2>1, <2>2, <2>3
<1>5. CASE VStep
  <2>1. VeilNext /\ UNCHANGED <<cvars, kvars>> => UNCHANGED alerts
    BY DEF cvars
  <2>2. VeilTorn \/ CashTorn \/ ControlTorn => UNCHANGED alerts
    BY DEF VeilTorn, CashTorn, ControlTorn
  <2>3. CommandNext => UNCHANGED alerts
    BY DEF CommandNext, LookupDevice, create_command, deliver_next_command,
         acknowledge_command, expire_commands
  <2> QED BY <1>1, <1>3, <1>4, <1>5, <2>1, <2>2, <2>3 DEF VStep, KStep
<1>6. CASE EdgeNext
  BY <1>1, <1>6 DEF EdgeNext, RegisterInFleet, AskPolicy, emit_trust_evidence, SaveJob, RunDriver,
       cvars
<1>7. EdgeTorn \/ EdgeRestart \/ UNCHANGED allvars => UNCHANGED alerts
  BY DEF EdgeTorn, EdgeRestart, VeilRestart, CashRestart, ControlRestart, allvars, cvars
<1> QED BY <1>1, <1>5, <1>6, <1>7 DEF ENext, EStep

(* So there are ever more alerts of a type.                                *)
LEMMA AlertsCounted ==
  ASSUME AlertsTyped, AlertsKept, NEW type
  PROVE  /\ Cardinality(OfType(alerts, type)) \in Nat /\ Cardinality(OfType(alerts, type))' \in Nat
         /\ Cardinality(OfType(alerts, type)) <= Cardinality(OfType(alerts, type))'
<1>1. /\ Len(alerts) \in Nat /\ Len(alerts') \in Nat /\ DOMAIN alerts = 1..Len(alerts)
      /\ DOMAIN alerts' = 1..Len(alerts')
  BY SMTT(20) DEF AlertsTyped, AlertsKept
<1>2. \A i \in 1..Len(alerts) : i \in 1..Len(alerts')
  BY <1>1, SMTT(20) DEF AlertsKept
<1>3. PICK A : A = OfType(alerts, type)
  OBVIOUS
<1>4. PICK B : B = OfType(alerts', type)
  OBVIOUS
<1>5. (\A i \in A : i \in 1..Len(alerts)) /\ (\A i \in B : i \in 1..Len(alerts'))
  BY <1>1, <1>3, <1>4 DEF OfType
<1>6. A \subseteq B
  BY <1>1, <1>2, <1>3, <1>4 DEF OfType, AlertsKept
<1>7. IsFiniteSet(B) /\ Cardinality(A) \in Nat /\ Cardinality(B) \in Nat
  BY <1>1, <1>5, Counted
<1>8. Cardinality(A) <= Cardinality(B)
  BY <1>6, <1>7, FS_Subset
<1>9. OfType(alerts, type)' = B
  BY <1>4 DEF OfType
<1> QED BY <1>3, <1>7, <1>8, <1>9

-----------------------------------------------------------------------------
(***************************************************************************)
(* Anomalies and alerts.  save() stores the anomalies of a detection when  *)
(* an alert was raised for every one of them, so the anomalies that are    *)
(* stored and those that a detection has got through count together.       *)
(***************************************************************************)
(* The anomalies that are stored and those of a detection that an alert    *)
(* was raised for.                                                         *)
Known(w, type) == {i \in 1..Len(anomalies) + w.raised : (anomalies \o w.found)[i].type = type}
RaisedOK ==
  \A type :
    /\ Cardinality(OfType(anomalies, type)) <= Cardinality(OfType(alerts, type))
    /\ \A w \in detecting : Cardinality(Known(w, type)) <= Cardinality(OfType(alerts, type))

(* What counts as known of a detection that starts, raises an alert or is  *)
(* saved.                                                                  *)
LEMMA KnownFacts ==
  ASSUME anomalies \in Seq(Findings), NEW w \in Works, w.raised <= Len(w.found), NEW type
  PROVE  /\ Cardinality(OfType(anomalies, type)) \in Nat /\ Cardinality(Known(w, type)) \in Nat
         /\ w.raised = 0 => Known(w, type) = OfType(anomalies, type)
         /\ w.raised = Len(w.found) => Known(w, type) = OfType(anomalies \o w.found, type)
<1>1. w.found \in Seq(Findings) /\ w.raised \in Nat
  BY DEF Works
<1>2. /\ Len(anomalies) \in Nat /\ DOMAIN anomalies = 1..Len(anomalies)
      /\ DOMAIN (anomalies \o w.found) = 1..Len(anomalies) + Len(w.found)
      /\ \A i \in 1..Len(anomalies) : (anomalies \o w.found)[i] = anomalies[i]
  BY <1>1, SMTT(20)
<1>3. ASSUME w.raised = 0 PROVE Known(w, type) = OfType(anomalies, type)
  <2>1. Len(anomalies) + w.raised = Len(anomalies)
    BY <1>2, <1>3, SMTT(20)
  <2> QED BY <1>2, <2>1 DEF Known, OfType
<1>4. w.raised = Len(w.found) => Known(w, type) = OfType(anomalies \o w.found, type)
  BY <1>2 DEF Known, OfType
<1>5. Len(anomalies) + w.raised \in Nat
  BY <1>1, <1>2, SMTT(20)
<1>6. /\ \A i \in OfType(anomalies, type) : i \in 1..Len(anomalies)
      /\ \A i \in Known(w, type) : i \in 1..Len(anomalies) + w.raised
  BY <1>2 DEF Known, OfType
<1>7. Cardinality(OfType(anomalies, type)) \in Nat /\ Cardinality(Known(w, type)) \in Nat
  BY <1>2, <1>5, <1>6, Counted
<1> QED BY <1>3, <1>4, <1>7

(* An alert that is raised makes one more of the findings known.           *)
LEMMA KnownGrows ==
  ASSUME anomalies \in Seq(Findings), NEW w \in Works, w.raised < Len(w.found), NEW type, AlertsTyped,
         NEW a \in AlertRecords, alerts' = Append(alerts, a), a.type = w.found[w.raised + 1].type,
         Cardinality(Known(w, type)) <= Cardinality(OfType(alerts, type))
  PROVE  Cardinality(Known([w EXCEPT !.raised = @ + 1], type)) <= Cardinality(OfType(alerts', type))
<1>1. w.found \in Seq(Findings) /\ w.raised \in Nat
  BY DEF Works
<1>2. PICK v : v = [w EXCEPT !.raised = @ + 1]
  OBVIOUS
<1>3. v.raised = w.raised + 1 /\ v.found = w.found
  BY <1>2, SMTT(20) DEF Works
<1>4. PICK n : n = Len(anomalies) + w.raised
  OBVIOUS
<1>5. PICK m : m = Len(alerts)
  OBVIOUS
<1>6. n \in Nat /\ m \in Nat /\ Len(anomalies) + v.raised = n + 1
  <2>1. Len(anomalies) \in Nat /\ m \in Nat
    BY <1>5, SMTT(20) DEF AlertsTyped
  <2>2. \A l, r \in Nat : l + r \in Nat /\ l + (r + 1) = (l + r) + 1
    BY SMTT(20)
  <2>3. n \in Nat
    BY <1>1, <1>4, <2>1, <2>2
  <2>4. Len(anomalies) + (w.raised + 1) = n + 1
    BY <1>1, <1>4, <2>1, <2>2
  <2> QED BY <1>3, <2>1, <2>3, <2>4
<1>7. PICK s : s = anomalies \o w.found
  OBVIOUS
<1>8. s[n + 1] = w.found[w.raised + 1]
  <2>1. \A u, f \in Seq(Findings), r \in Nat : r < Len(f) => (u \o f)[(Len(u) + r) + 1] = f[r + 1]
    BY SMTT(20)
  <2> QED BY <1>1, <1>4, <1>7, <2>1
<1>9. /\ DOMAIN alerts = 1..m /\ DOMAIN alerts' = 1..m + 1 /\ alerts'[m + 1] = a
      /\ \A i \in 1..m : alerts'[i] = alerts[i]
  BY <1>5, SMTT(20) DEF AlertsTyped
<1>10. \A k \in Nat : /\ \A i \in 1..k + 1 : i \in 1..k \/ i = k + 1
                      /\ \A i \in 1..k : i \in 1..k + 1
                      /\ k + 1 \in 1..k + 1
  BY SMTT(20)
<1>11. PICK K : K = Known(w, type)
  OBVIOUS
<1>12. PICK L : L = Known(v, type)
  OBVIOUS
<1>13. PICK A : A = OfType(alerts, type)
  OBVIOUS
<1>14. PICK B : B = OfType(alerts', type)
  OBVIOUS
<1>15. (\A i \in K : i \in 1..n) /\ K = {i \in 1..n : s[i].type = type} /\ L = {i \in 1..n + 1 : s[i].type = type}
  BY <1>3, <1>4, <1>6, <1>7, <1>11, <1>12 DEF Known
<1>16. (\A i \in A : i \in 1..m) /\ A = {i \in 1..m : alerts[i].type = type}
       /\ B = {i \in 1..m + 1 : alerts'[i].type = type}
  BY <1>9, <1>13, <1>14 DEF OfType
<1>17. /\ Cardinality(K) \in Nat /\ Cardinality(K \cup {n + 1}) = Cardinality(K) + 1
       /\ Cardinality(A) \in Nat /\ Cardinality(A \cup {m + 1}) = Cardinality(A) + 1
  BY <1>6, <1>15, <1>16, Counted
<1>18. CASE a.type = type
  <2>1. L = K \cup {n + 1}
    <3>1. s[n + 1].type = type /\ n + 1 \in 1..n + 1
      BY <1>6, <1>8, <1>10, <1>18
    <3>2. \A i : i \in 1..n + 1 <=> i \in 1..n \/ i = n + 1
      BY <1>6, <1>10
    <3> QED BY <1>15, <3>1, <3>2
  <2>2. B = A \cup {m + 1}
    <3>1. \A i \in 1..m : i \in B <=> i \in A
      BY <1>6, <1>9, <1>10, <1>16
    <3>2. m + 1 \in B
      BY <1>6, <1>9, <1>10, <1>16, <1>18
    <3>3. \A i \in B : i \in 1..m \/ i = m + 1
      BY <1>6, <1>10, <1>16
    <3> QED BY <1>16, <3>1, <3>2, <3>3
  <2>3. Cardinality(K) <= Cardinality(A)
    BY <1>11, <1>13
  <2>4. Cardinality(L) <= Cardinality(B)
    BY <1>17, <2>1, <2>2, <2>3, SMTT(20)
  <2> QED BY <1>2, <1>12, <1>14, <2>4
<1>19. CASE a.type # type
  <2>1. L = K
    BY <1>6, <1>8, <1>10, <1>15, <1>19
  <2>2. B = A
    BY <1>6, <1>9, <1>10, <1>16, <1>19
  <2> QED BY <1>2, <1>11, <1>12, <1>13, <1>14, <2>1, <2>2
<1> QED BY <1>18, <1>19

(* Every step of the server keeps to it.                                   *)
LEMMA RaisedStep ==
  ASSUME RaisedOK, AlertsTyped, FleetOK, KOK, [ENext]_allvars
  PROVE  RaisedOK'
<1>1. \A type : /\ Cardinality(OfType(alerts, type)) \in Nat /\ Cardinality(OfType(alerts, type))' \in Nat
                /\ Cardinality(OfType(alerts, type)) <= Cardinality(OfType(alerts, type))'
  BY AlertsStep, AlertsCounted
<1>2. \A x, y, z \in Nat : x <= y /\ y <= z => x <= z
  BY SMTT(20)
<1>3. anomalies \in Seq(Findings) /\ \A w \in detecting : w \in Works /\ w.raised <= Len(w.found)
  BY DEF KOK, KTypeOK, Works
<1>w. PICK w0 : w0 = [found |-> <<>>, raised |-> 0, now |-> 0]
  OBVIOUS
<1>v. w0 \in Works /\ w0.raised <= Len(w0.found)
  BY <1>w, SMTT(20) DEF Works
<1>4. \A type : /\ Cardinality(OfType(anomalies, type)) \in Nat
                /\ \A w \in detecting : Cardinality(Known(w, type)) \in Nat
  BY <1>3, <1>v, KnownFacts
<1>5. \A type : /\ Cardinality(OfType(anomalies, type)) <= Cardinality(OfType(alerts, type))'
                /\ \A w \in detecting : Cardinality(Known(w, type)) <= Cardinality(OfType(alerts, type))'
  BY <1>1, <1>2, <1>4 DEF RaisedOK
<1>6. ASSUME UNCHANGED anomalies, detecting' \in {detecting, {}} PROVE RaisedOK'
  BY <1>5, <1>6 DEF RaisedOK, Known, OfType
<1>7. ASSUME NEW x \in Scopes, NEW now \in CashTimes, DetectStart(x, now) PROVE RaisedOK'
  <2>1. PICK w : w = [found |-> Detected(x), raised |-> 0, now |-> now]
    OBVIOUS
  <2>2. detecting' = {w} /\ UNCHANGED <<anomalies, alerts>>
    BY <1>7, <2>1 DEF DetectStart, cvars
  <2>3. now \in Nat /\ Detected(x) \in Seq(Findings)
    BY CashAssumption, DetectedTyped DEF KOK, KTypeOK
  <2>4. w.raised = 0 /\ w.found = Detected(x) /\ w \in Works
    BY <2>1, <2>3 DEF Works
  <2>5. w.raised <= Len(w.found)
    BY <2>3, <2>4, SMTT(20)
  <2>6. \A type : Known(w, type) = OfType(anomalies, type)
    BY <1>3, <2>4, <2>5, KnownFacts
  <2>7. \A type : Known(w, type)' = OfType(anomalies, type)
    BY <2>2, <2>6 DEF Known
  <2>8. \A type : OfType(anomalies, type)' = OfType(anomalies, type)
    BY <2>2 DEF OfType
  <2>9. \A type : Cardinality(Known(w, type))' <= Cardinality(OfType(alerts, type))'
    BY <1>5, <2>7
  <2> QED BY <1>5, <2>2, <2>8, <2>9 DEF RaisedOK
<1>8. CASE DetectAlert
  <2>1. PICK w \in detecting, a \in AlertRecords :
           /\ w.raised < Len(w.found) /\ detecting' = {[w EXCEPT !.raised = @ + 1]}
           /\ alerts' = Append(alerts, a) /\ a.type = w.found[w.raised + 1].type
    BY <1>8, FindingAlerted
  <2>2. UNCHANGED anomalies
    BY <1>8 DEF DetectAlert
  <2>3. PICK v : v = [w EXCEPT !.raised = @ + 1]
    OBVIOUS
  <2>4. \A type : Cardinality(Known(v, type)) <= Cardinality(OfType(alerts', type))
    BY <1>3, <2>1, <2>3, KnownGrows DEF RaisedOK
  <2>5. \A type : Known(v, type)' = Known(v, type)
    BY <2>2 DEF Known
  <2>6. \A type : OfType(alerts, type)' = OfType(alerts', type) /\ OfType(anomalies, type)' = OfType(anomalies, type)
    BY <2>2 DEF OfType
  <2>7. \A type : Cardinality(Known(v, type))' <= Cardinality(OfType(alerts, type))'
    BY <2>4, <2>5, <2>6
  <2> QED BY <1>5, <2>1, <2>3, <2>6, <2>7 DEF RaisedOK
<1>9. CASE DetectSave
  <2>1. PICK w \in detecting : w.raised = Len(w.found) /\ anomalies' = anomalies \o w.found
    BY <1>9 DEF DetectSave
  <2>2. detecting' = {}
    BY <1>9 DEF DetectSave
  <2>3. \A type : Known(w, type) = OfType(anomalies \o w.found, type)
    BY <1>3, <2>1, KnownFacts
  <2>4. \A type : OfType(anomalies, type)' = Known(w, type)
    BY <2>1, <2>3 DEF OfType
  <2>5. \A type : Cardinality(OfType(anomalies, type))' <= Cardinality(OfType(alerts, type))'
    BY <1>5, <2>1, <2>4
  <2> QED BY <2>2, <2>5 DEF RaisedOK
<1>10. CASE CashNext
  BY <1>6, <1>7, <1>8, <1>9, <1>10 DEF CashNext, add_ledger_entry, update_inventory, forecast, reconcile
<1>11. CASE CashRestart
  BY <1>6, <1>11 DEF CashRestart
<1>12. CASE UNCHANGED kvars
  BY <1>6, <1>12 DEF kvars
<1> QED BY <1>10, <1>11, <1>12, CashSteps

(* Types and alerts of the cash service.                                   *)
LEMMA AlertsInvariant == ESpec => [](KOK /\ AlertsTyped /\ RaisedOK)
<1>1. CInit /\ KInit => KOK /\ AlertsTyped /\ RaisedOK
  <2> SUFFICES ASSUME CInit, KInit PROVE KOK /\ AlertsTyped /\ RaisedOK
    OBVIOUS
  <2>1. \A S : <<>> \in Seq(S)
    BY SMTT(20)
  <2>2. ledger = <<>> /\ reports = <<>> /\ anomalies = <<>> /\ alerts = <<>> /\ seen = {} /\ detecting = {}
    BY DEF CInit, KInit
  <2>3. KOK
    <3>1. newest = 0 /\ inventory = [x \in Scopes |-> 0] /\ 0 \in Nat
      BY SMTT(20) DEF KInit
    <3>2. inventory \in [Scopes -> Nat]
      BY <3>1
    <3> QED BY <2>1, <2>2, <3>1, <3>2 DEF KOK, KTypeOK
  <2>4. AlertsTyped
    BY <2>1, <2>2 DEF AlertsTyped
  <2>5. \A type : OfType(anomalies, type) = OfType(alerts, type)
    BY <2>2
  <2>6. \A type : OfType(alerts, type) = {}
    <3>1. DOMAIN alerts = {}
      BY <2>2, SMTT(20)
    <3> QED BY <3>1 DEF OfType
  <2>7. Cardinality({}) <= Cardinality({})
    BY FS_EmptySet, SMTT(20)
  <2>8. RaisedOK
    BY <2>2, <2>5, <2>6, <2>7 DEF RaisedOK
  <2> QED BY <2>3, <2>4, <2>8
<1>2. (KOK /\ AlertsTyped /\ RaisedOK) /\ FleetOK /\ [ENext]_allvars => (KOK /\ AlertsTyped /\ RaisedOK)'
  BY CashTypeStep, AlertsStep, RaisedStep DEF AlertsKept
<1> QED BY <1>1, <1>2, RecordsInvariant, PTL DEF ESpec, allvars

(* detect_anomalies raises the alerts of its findings before it stores     *)
(* them: whatever dies in between, no anomaly is stored that nobody was    *)
(* alerted to.                                                             *)
THEOREM AnomaliesAreAlerted == ESpec => []AnomalyHasAlert
<1>1. RaisedOK => AnomalyHasAlert
  BY DEF RaisedOK, AnomalyHasAlert
<1> QED BY <1>1, AlertsInvariant, PTL

-----------------------------------------------------------------------------
(***************************************************************************)
(* The advice: the mix of notes and coins, and the forecast.               *)
(***************************************************************************)
(* Division with remainder.                                                *)
LEMMA Division ==
  \A a \in Nat, k \in Nat : k > 0 => /\ a = k * (a \div k) + (a % k)
                                     /\ a \div k \in Nat /\ a % k \in Nat /\ a % k < k
<1>1. ASSUME NEW a \in Nat, NEW k \in Nat, k > 0
      PROVE  a = k * (a \div k) + (a % k)
  BY <1>1, SMTT(30)
<1>2. ASSUME NEW a \in Nat, NEW k \in Nat, k > 0
      PROVE  a \div k \in Nat /\ a % k \in Nat /\ a % k < k
  BY <1>2, SMTT(20)
<1> QED BY <1>1, <1>2

(* What recommend_mix makes of a part of the denominations leaves the sum  *)
(* of the mix and of what is left at the target.                           *)
Mixes(t) == {[mix |-> t - l, left |-> l] : l \in Nat}
Take(d, m) == [mix |-> m.mix + d * (m.left \div d), left |-> m.left % d]

(* To take a denomination keeps to the target, and leaves less than it.    *)
LEMMA TakeStep ==
  ASSUME NEW t \in Nat, NEW m \in Mixes(t), NEW d \in Nat, d > 0
  PROVE  Take(d, m) \in Mixes(t) /\ Take(d, m).left < d
<1>1. PICK l \in Nat : m = [mix |-> t - l, left |-> l]
  BY DEF Mixes
<1>2. m.mix = t - l /\ m.left = l
  BY <1>1
<1>3. PICK r : r = l % d
  OBVIOUS
<1>4. PICK q : q = l \div d
  OBVIOUS
<1>5. l = d * q + r /\ q \in Nat /\ r \in Nat /\ r < d
  BY <1>3, <1>4, Division
<1>6. PICK p : p = d * q
  OBVIOUS
<1>7. p \in Nat /\ l = p + r
  BY <1>5, <1>6, SMTT(20)
<1>8. (t - l) + p = t - r
  BY <1>5, <1>7, SMTT(20)
<1>9. Take(d, m) = [mix |-> t - r, left |-> r]
  BY <1>2, <1>3, <1>4, <1>6, <1>8 DEF Take
<1>10. Take(d, m).left = r
  BY <1>3, <1>2 DEF Take
<1>11. Take(d, m) \in Mixes(t)
  BY <1>5, <1>9 DEF Mixes
<1> QED BY <1>5, <1>10, <1>11

(* recommend_mix makes up a target but for less than its smallest          *)
(* denomination.                                                           *)
LEMMA MixIsSound ==
  ASSUME NEW t \in Nat
  PROVE  /\ recommend_mix(t) \in Mixes(t)
         /\ \A d \in Denominations : recommend_mix(t).left < d
<1> DEFINE D == Denominations
           V == Mixes(t)
           base == [mix |-> 0, left |-> t]
           ch == [s \in SUBSET D |-> Least(s)]
           h == [p \in (SUBSET D) \X V |-> Take(ch[p[1]], p[2])]
           Body(g) == [s \in SUBSET D |-> IF s = {} THEN base ELSE Take(Least(s), g[s \ {Least(s)}])]
           fold == CHOOSE g : g = Body(g)
<1>1. recommend_mix(t) = fold[D]
  BY DEF recommend_mix, MapThenFoldSet, Take
<1>2. IsFiniteSet(D) /\ \A d \in D : d \in Nat /\ d \in Int /\ d > 0
  BY CashAssumption, SMTT(20)
<1>3. \A s \in SUBSET D : s # {} => Least(s) \in s /\ \A d \in s : Least(s) <= d
  <2>1. \A s \in SUBSET D : s # {} => Bounded(s)
    <3> SUFFICES ASSUME NEW s \in SUBSET D, s # {} PROVE Bounded(s)
      OBVIOUS
    <3>1. IsFiniteSet(s) /\ \A d \in s : d \in Int
      BY <1>2, FS_Subset
    <3> QED BY <3>1, Bounds
  <2> QED BY <2>1 DEF Bounded
<1>4. base \in V
  <2>1. t - t = 0
    BY SMTT(20)
  <2> QED BY <2>1 DEF Mixes
<1>d. D = Denominations
  OBVIOUS
<1> HIDE DEF D, V, base
<1>5. \A s \in SUBSET D : s # {} => ch[s] \in s /\ ch[s] = Least(s) /\ ch[s] \in Nat /\ ch[s] > 0
  BY <1>2, <1>3
<1>6. \A s \in SUBSET D, v \in V : h[<<s, v>>] = Take(ch[s], v)
  OBVIOUS
<1> HIDE DEF ch, h
<1>7. \A s \in SUBSET D, v \in V : s # {} => h[<<s, v>>] \in V /\ h[<<s, v>>].left < ch[s]
  BY <1>5, <1>6, TakeStep DEF V
<1>8. Chooses(ch, D)
  BY <1>5 DEF Chooses
<1>9. PICK g \in [SUBSET D -> V] : FoldOn(g, D, base, ch, h)
  BY <1>2, <1>4, <1>7, <1>8, FoldExists
<1>10. \A s \in SUBSET D : s # {} => s \ {ch[s]} \in SUBSET D
  OBVIOUS
<1>11. \A s \in SUBSET D : g[s] = IF s = {} THEN base ELSE Take(ch[s], g[s \ {ch[s]}])
  BY <1>6, <1>9, <1>10 DEF FoldOn
<1>12. \A s \in SUBSET D : g[s] = Body(g)[s]
  BY <1>5, <1>11
<1>13. g = Body(g)
  BY <1>12
<1>14. fold = Body(fold)
  BY <1>13
<1>15. \A s \in SUBSET D : fold[s] = IF s = {} THEN base ELSE Take(ch[s], fold[s \ {ch[s]}])
  <2> HIDE DEF fold
  <2> QED BY <1>5, <1>14
<1> HIDE DEF fold, Body
<1>16. FoldAlike(fold, g, ch, D)
  BY <1>11, <1>15 DEF FoldAlike
<1>17. \A s \in SUBSET D : fold[s] = g[s]
  BY <1>2, <1>8, <1>16, FoldUnique, SMTT(20)
<1>18. PICK m : m = recommend_mix(t)
  OBVIOUS
<1>19. m = g[D] /\ m \in V
  BY <1>1, <1>9, <1>17, <1>18
<1>20. ASSUME NEW d \in D PROVE m.left < d
  <2>1. D # {} /\ D \ {ch[D]} \in SUBSET D /\ D \in SUBSET D
    OBVIOUS
  <2>2. m = h[<<D, g[D \ {ch[D]}]>>] /\ g[D \ {ch[D]}] \in V
    BY <1>9, <1>19, <2>1 DEF FoldOn
  <2>3. m.left < ch[D]
    BY <1>7, <2>1, <2>2
  <2>4. ch[D] <= d /\ ch[D] \in Nat /\ d \in Nat
    <3>1. ch[D] = Least(D) /\ ch[D] \in Nat
      BY <1>5, <2>1
    <3>2. Least(D) <= d
      BY <1>3, <2>1
    <3> QED BY <1>2, <3>1, <3>2
  <2>5. m.left \in Nat
    <3>1. PICK l \in Nat : m = [mix |-> t - l, left |-> l]
      BY <1>19 DEF V, Mixes
    <3> QED BY <3>1
  <2> QED BY <2>3, <2>4, <2>5, SMTT(20)
<1> QED BY <1>18, <1>19, <1>20, <1>d DEF V

(* The values of a function on a finite set are finitely many.             *)
LEMMA FiniteImage ==
  ASSUME NEW S, IsFiniteSet(S), NEW f
  PROVE  IsFiniteSet({f[x] : x \in S})
<1>1. PICK T : T = {f[x] : x \in S}
  OBVIOUS
<1>2. PICK g : g = [x \in S |-> f[x]]
  OBVIOUS
<1>3. g \in Surjection(S, T)
  BY <1>1, <1>2 DEF Surjection
<1> QED BY <1>1, <1>3, FS_Surjection

(* The first time of a forecast is a time.                                 *)
LEMMA FirstTimeTyped ==
  ASSUME ledger \in Seq(Entries), NEW x
  PROVE  FirstTime(Matched(x)) \in Nat
<1>m. PICK mine : mine = Matched(x)
  OBVIOUS
<1> DEFINE F(i) == ledger[i].at
           Step(at, t) == IF t = 0 \/ at < t THEN at ELSE t
           ch == [s \in SUBSET mine |-> Greatest(s)]
           h == [p \in (SUBSET mine) \X Nat |-> Step(F(ch[p[1]]), p[2])]
           Body(g) == [s \in SUBSET mine |->
                         IF s = {} THEN 0 ELSE Step(F(Greatest(s)), g[s \ {Greatest(s)}])]
           fold == CHOOSE g : g = Body(g)
<1>1. FirstTime(mine) = fold[mine]
  BY DEF FirstTime, MapThenFoldSet
<1>2. IsFiniteSet(mine) /\ mine \in SUBSET (1..Len(ledger)) /\ Len(ledger) \in Nat
  BY <1>m, MatchedEntries
<1>3. \A i \in mine : F(i) \in Nat
  BY <1>m, MatchedEntries DEF Entries
<1>4. \A s \in SUBSET mine : s # {} => Greatest(s) \in s
  <2>1. \A s \in SUBSET mine : s \in SUBSET (1..Len(ledger))
    BY <1>2
  <2> QED BY <1>2, <2>1, IndexBounds DEF Bounded
<1>5. 0 \in Nat /\ \A a, b \in Nat : Step(a, b) \in Nat
  BY SMTT(20)
<1> HIDE DEF F, Step
<1>6. \A s \in SUBSET mine : s # {} => ch[s] \in s /\ ch[s] = Greatest(s)
  BY <1>4
<1>7. \A s \in SUBSET mine, v \in Nat : h[<<s, v>>] = Step(F(ch[s]), v)
  OBVIOUS
<1> HIDE DEF ch, h
<1>8. \A s \in SUBSET mine, v \in Nat : s # {} => h[<<s, v>>] \in Nat
  <2> SUFFICES ASSUME NEW s \in SUBSET mine, NEW v \in Nat, s # {} PROVE h[<<s, v>>] \in Nat
    OBVIOUS
  <2>1. F(ch[s]) \in Nat
    BY <1>3, <1>6
  <2>2. Step(F(ch[s]), v) \in Nat
    BY <1>5, <2>1
  <2> QED BY <1>7, <2>2
<1>9. Chooses(ch, mine)
  BY <1>6 DEF Chooses
<1>10. PICK g \in [SUBSET mine -> Nat] : FoldOn(g, mine, 0, ch, h)
  BY <1>2, <1>5, <1>8, <1>9, FoldExists
<1>11. \A s \in SUBSET mine : s # {} => s \ {ch[s]} \in SUBSET mine
  OBVIOUS
<1>12. \A s \in SUBSET mine : g[s] = IF s = {} THEN 0 ELSE Step(F(ch[s]), g[s \ {ch[s]}])
  BY <1>7, <1>10, <1>11 DEF FoldOn
<1>13. \A s \in SUBSET mine : g[s] = Body(g)[s]
  BY <1>6, <1>12
<1>14. g = Body(g)
  BY <1>13
<1>15. fold = Body(fold)
  BY <1>14
<1>16. \A s \in SUBSET mine : fold[s] = IF s = {} THEN 0 ELSE Step(F(ch[s]), fold[s \ {ch[s]}])
  <2> HIDE DEF fold
  <2> QED BY <1>6, <1>15
<1> HIDE DEF fold, Body
<1>17. FoldAlike(fold, g, ch, mine)
  BY <1>12, <1>16 DEF FoldAlike
<1>18. \A s \in SUBSET mine : fold[s] = g[s]
  <2>1. IsFiniteSet(mine)
    BY <1>2
  <2> QED BY <1>9, <1>17, <2>1, FoldUnique, SMTT(20)
<1> QED BY <1>m, <1>1, <1>10, <1>18

(* The last balance of a scope, and the time of its last entry.            *)
LEMMA LatestTyped ==
  ASSUME ledger \in Seq(Entries), NEW x
  PROVE  /\ Latest(Matched(x)) \in Int
         /\ Greatest({0} \cup {ledger[i].at : i \in Matched(x)}) \in Nat
<1>1. PICK mine : mine = Matched(x)
  OBVIOUS
<1>2. /\ IsFiniteSet(mine) /\ mine \in SUBSET (1..Len(ledger)) /\ Len(ledger) \in Nat
      /\ \A i \in mine : ledger[i].at \in Nat /\ ledger[i].observed \in Int
  BY <1>1, MatchedEntries DEF Entries
<1>3. ASSUME mine # {} PROVE Greatest(mine) \in mine
  BY <1>2, <1>3, IndexBounds DEF Bounded
<1>4. Latest(mine) \in Int
  <2>1. 0 \in Int
    BY SMTT(20)
  <2>2. CASE mine = {}
    BY <2>1, <2>2 DEF Latest
  <2>3. CASE mine # {}
    BY <1>2, <1>3, <2>3 DEF Latest
  <2> QED BY <2>2, <2>3
<1>5. PICK T : T = {ledger[i].at : i \in mine}
  OBVIOUS
<1>6. IsFiniteSet(T)
  <2>1. PICK f : f = [i \in mine |-> ledger[i].at]
    OBVIOUS
  <2>2. IsFiniteSet({f[i] : i \in mine})
    BY <1>2, FiniteImage
  <2>3. {f[i] : i \in mine} = T
    BY <1>5, <2>1
  <2> QED BY <2>2, <2>3
<1>7. PICK U : U = {0} \cup T
  OBVIOUS
<1>8. IsFiniteSet({0})
  BY FS_Singleton
<1>9. IsFiniteSet(U) /\ U # {}
  BY <1>6, <1>7, <1>8, FS_Union
<1>10. \A u \in U : u \in Nat
  BY <1>2, <1>5, <1>7, SMTT(20)
<1>11. \A u \in U : u \in Int
  BY <1>10, SMTT(20)
<1>12. Greatest(U) \in Nat
  BY <1>9, <1>10, <1>11, Bounds DEF Bounded
<1> QED BY <1>1, <1>4, <1>5, <1>7, <1>12

(* A quotient is an integer, and not negative when its dividend is not.    *)
LEMMA QuotientTyped ==
  ASSUME NEW n \in Int, NEW d \in Nat, d > 0
  PROVE  Quotient(n, d) \in Int /\ (n > 0 => Quotient(n, d) \in Nat)
<1>1. \A a \in Nat : a \div d \in Nat
  BY Division
<1>2. CASE n < 0
  <2>1. -n \in Nat
    BY <1>2, SMTT(20)
  <2>2. (-n) \div d \in Nat
    BY <1>1, <2>1
  <2>3. PICK q : q = (-n) \div d
    OBVIOUS
  <2>4. Quotient(n, d) = -q
    BY <1>2, <2>3 DEF Quotient
  <2> QED BY <1>2, <2>2, <2>3, <2>4, SMTT(20)
<1>3. CASE ~(n < 0)
  <2>1. n \in Nat
    BY <1>3, SMTT(20)
  <2>2. Quotient(n, d) \in Nat
    BY <1>1, <1>3, <2>1 DEF Quotient
  <2> QED BY <2>2, SMTT(20)
<1> QED BY <1>2, <1>3

(* A forecast never recommends to replenish in the past, nor after the     *)
(* cash has run out.                                                       *)
LEMMA ForecastIsSound ==
  ASSUME ledger \in Seq(Entries), NEW x, NEW now \in Nat, NEW f, f = Forecast(x, now), f.depletion # 0
  PROVE  now <= f.replenish /\ f.replenish <= f.depletion
<1> DEFINE mine == Matched(x)
           latest == Latest(mine)
           end == Greatest({0} \cup {ledger[i].at : i \in mine})
           hours == Later(1, Quotient(end - FirstTime(mine), Hour))
           hourly == Quotient(Variance(mine), hours)
           depletion == now + Quotient(latest, Later(1, -hourly)) * Hour
           short == hourly < 0 /\ latest > 0
<1>1. f = [depletion |-> IF short THEN depletion ELSE 0,
           replenish |-> IF short THEN Later(now, depletion - 12 * Hour) ELSE 0,
           surplus |-> IF hourly > 0 THEN now + Day ELSE 0]
  BY DEF Forecast
<1>2. latest \in Int /\ end \in Nat /\ FirstTime(mine) \in Nat /\ Variance(mine) \in Int
  BY LatestTyped, FirstTimeTyped, TotalsTyped
<1> HIDE DEF latest, end, mine
<1>3. \A a, b \in Nat : a - b \in Int
  BY SMTT(20)
<1>4. end - FirstTime(mine) \in Int
  BY <1>2, <1>3
<1>5. Hour \in Nat /\ Hour > 0 /\ 1 \in Nat
  BY SMTT(20) DEF Hour
<1>6. Quotient(end - FirstTime(mine), Hour) \in Int
  BY <1>4, <1>5, QuotientTyped
<1>7. \A q \in Int : Later(1, q) \in Nat /\ Later(1, q) > 0
  BY SMTT(20) DEF Later
<1>8. hours \in Nat /\ hours > 0
  BY <1>6, <1>7
<1> HIDE DEF hours
<1>9. hourly \in Int
  BY <1>2, <1>8, QuotientTyped
<1> HIDE DEF hourly
<1>10. -hourly \in Int
  BY <1>9, SMTT(20)
<1>11. Later(1, -hourly) \in Nat /\ Later(1, -hourly) > 0
  BY <1>7, <1>10
<1>12. f.depletion = (IF short THEN depletion ELSE 0)
       /\ f.replenish = (IF short THEN Later(now, depletion - 12 * Hour) ELSE 0)
  <2> HIDE DEF short, depletion
  <2>1. PICK a : a = IF short THEN depletion ELSE 0
    OBVIOUS
  <2>2. PICK b : b = IF short THEN Later(now, depletion - 12 * Hour) ELSE 0
    OBVIOUS
  <2>3. PICK c : c = IF hourly > 0 THEN now + Day ELSE 0
    OBVIOUS
  <2>4. f = [depletion |-> a, replenish |-> b, surplus |-> c]
    BY <1>1, <2>1, <2>2, <2>3
  <2>5. f.depletion = a /\ f.replenish = b
    BY <2>4, SMTT(20)
  <2> QED BY <2>1, <2>2, <2>5
<1>13. short
  BY <1>12
<1>14. PICK q : q = Quotient(latest, Later(1, -hourly))
  OBVIOUS
<1>15. q \in Nat
  BY <1>2, <1>11, <1>13, <1>14, QuotientTyped
<1>16. PICK d : d = depletion
  OBVIOUS
<1>17. d \in Int /\ now <= d
  BY <1>14, <1>15, <1>16, SMTT(20) DEF Hour
<1>18. f.depletion = d /\ f.replenish = Later(now, d - 12 * Hour)
  BY <1>12, <1>13, <1>16
<1> QED BY <1>17, <1>18, SMTT(20) DEF Later, Hour

(* The balance that dashboard asks a mix for.                              *)
LEMMA DashboardTyped ==
  ASSUME ledger \in Seq(Entries), NEW x
  PROVE  dashboard(x) \in Int
<1>1. PICK v : v = Variance(Matched(x))
  OBVIOUS
<1>2. v \in Int
  BY <1>1, TotalsTyped
<1>3. dashboard(x) = Later(0, 10000 - v)
  BY <1>1, SMTT(20) DEF dashboard
<1> QED BY <1>2, <1>3, SMTT(20) DEF Later

(* Advice is sound, for every ledger and every set of denominations.       *)
THEOREM AdviceHolds == ESpec => []AdviceIsSound
<1>1. ASSUME KOK PROVE AdviceIsSound
  <2>1. ledger \in Seq(Entries)
    BY <1>1 DEF KOK, KTypeOK
  <2>2. ASSUME NEW x \in Scopes, NEW now \in CashTimes
        PROVE  LET f == Forecast(x, now)
               IN f.depletion # 0 => now <= f.replenish /\ f.replenish <= f.depletion
    <3>1. now \in Nat
      BY CashAssumption
    <3>2. \A f : f = Forecast(x, now) /\ f.depletion # 0 => now <= f.replenish /\ f.replenish <= f.depletion
      BY <2>1, <3>1, ForecastIsSound, SMTT(20)
    <3> QED BY <3>2
  <2>3. ASSUME NEW t \in Targets \cup {dashboard(x) : x \in Scopes}, t > 0
        PROVE  LET m == recommend_mix(t)
               IN m.mix + m.left = t /\ \A d \in Denominations : m.left < d
    <3>2. t \in Int
      BY <2>1, DashboardTyped, CashAssumption
    <3>3. t \in Nat
      BY <2>3, <3>2, SMTT(20)
    <3>4. PICK m : m = recommend_mix(t)
      OBVIOUS
    <3>5. m \in Mixes(t) /\ \A d \in Denominations : m.left < d
      BY <3>3, <3>4, MixIsSound
    <3>6. PICK l \in Nat : m = [mix |-> t - l, left |-> l]
      BY <3>5 DEF Mixes
    <3>7. m.mix = t - l /\ m.left = l
      BY <3>6
    <3>8. m.mix + m.left = t
      BY <3>3, <3>7, SMTT(20)
    <3> QED BY <3>4, <3>5, <3>8
  <2> QED BY <2>2, <2>3 DEF AdviceIsSound
<1>2. KOK => AdviceIsSound
  BY <1>1
<1> QED BY <1>2, AlertsInvariant, PTL

(* The cash health of a device lies between 0 and 100.                     *)
LEMMA CashHealthTyped ==
  ASSUME KOK, NEW x \in Scopes
  PROVE  CashHealth(x) \in 0..100
<1> DEFINE mineR == {r \in Range(reports) : r.scope = x}
           worst == Greatest({0} \cup {Abs(r.variance) : r \in mineR})
           stale == inventory[x] > 0 /\ newest - inventory[x] > Day
           mine == {i \in DOMAIN anomalies : anomalies[i].scope = x}
           weights == SumFunction([i \in mine |-> severity_weight(anomalies[i].severity)])
           penalty == Least({40, worst \div 1000}) + (IF stale THEN 10 ELSE 0) + weights
<1>1. CashHealth(x) = Later(0, 100 - penalty)
  BY SMTT(20) DEF CashHealth
<1>2. worst \in Nat
  <2>1. /\ reports \in Seq(Reports) /\ Len(reports) \in Nat /\ DOMAIN reports = 1..Len(reports)
        /\ \A i \in DOMAIN reports : reports[i] \in Reports
    BY SMTT(20) DEF KOK, KTypeOK
  <2>2. IsFiniteSet(DOMAIN reports)
    BY <2>1, FS_Interval, SMTT(20)
  <2>3. PICK R : R = Range(reports)
    OBVIOUS
  <2>4. IsFiniteSet(R) /\ \A r \in R : r \in Reports
    BY <2>1, <2>2, <2>3, FiniteImage DEF Range
  <2>5. PICK Q : Q = mineR
    OBVIOUS
  <2>6. IsFiniteSet(Q) /\ \A r \in Q : r.variance \in Int
    BY <2>3, <2>4, <2>5, FS_Subset DEF Reports
  <2>7. PICK f : f = [r \in Q |-> Abs(r.variance)]
    OBVIOUS
  <2>8. IsFiniteSet({f[r] : r \in Q})
    BY <2>6, FiniteImage
  <2>9. PICK T : T = {Abs(r.variance) : r \in Q}
    OBVIOUS
  <2>10. IsFiniteSet(T)
    <3>1. {f[r] : r \in Q} = T
      BY <2>7, <2>9
    <3> QED BY <2>8, <3>1
  <2>11. \A n \in Int : Abs(n) \in Nat
    BY SMTT(20) DEF Abs
  <2>12. PICK U : U = {0} \cup T
    OBVIOUS
  <2>13. IsFiniteSet({0})
    BY FS_Singleton
  <2>14. IsFiniteSet(U) /\ U # {}
    BY <2>10, <2>12, <2>13, FS_Union
  <2>15. 0 \in Nat
    BY SMTT(20)
  <2>16. \A u \in U : u \in Nat
    BY <2>6, <2>9, <2>11, <2>12, <2>15
  <2>17. \A u \in U : u \in Int
    BY <2>16, SMTT(20)
  <2>18. Greatest(U) \in Nat
    BY <2>14, <2>16, <2>17, Bounds DEF Bounded
  <2>19. worst = Greatest(U)
    BY <2>5, <2>9, <2>12
  <2> QED BY <2>18, <2>19
<1>3. weights \in Nat
  <2>1. /\ Len(anomalies) \in Nat /\ DOMAIN anomalies = 1..Len(anomalies)
    BY SMTT(20) DEF KOK, KTypeOK
  <2>2. IsFiniteSet(DOMAIN anomalies)
    BY <2>1, FS_Interval, SMTT(20)
  <2>3. PICK M : M = mine
    OBVIOUS
  <2>4. IsFiniteSet(M)
    BY <2>2, <2>3, FS_Subset
  <2>5. PICK f : f = [i \in M |-> severity_weight(anomalies[i].severity)]
    OBVIOUS
  <2>6. \A z : severity_weight(z) \in Nat
    BY SMTT(20) DEF severity_weight
  <2>7. f \in [M -> Nat] /\ Nat \in {Nat, Int}
    BY <2>5, <2>6
  <2>8. SumFunction(f) \in Nat
    BY <2>4, <2>7, SumTyped
  <2> QED BY <2>3, <2>5, <2>8
<1> HIDE DEF worst, weights, stale
<1>4. worst \div 1000 \in Nat
  BY <1>2, SMTT(20)
<1>5. PICK q : q = Least({40, worst \div 1000})
  OBVIOUS
<1>6. q \in Nat
  <2>1. \A n \in Nat : Least({40, n}) \in Nat
    <3> SUFFICES ASSUME NEW n \in Nat PROVE Least({40, n}) \in Nat
      OBVIOUS
    <3>1. \E y \in {40, n} : \A z \in {40, n} : y <= z
      BY SMTT(20)
    <3>2. Least({40, n}) \in {40, n}
      BY <3>1, SMTT(20) DEF Least
    <3> QED BY <3>2, SMTT(20)
  <2> QED BY <1>4, <1>5, <2>1, SMTT(20)
<1>7. PICK p : p = penalty
  BY SMTT(20)
<1>8. p \in Nat
  <2>1. PICK t : t = IF stale THEN 10 ELSE 0
    OBVIOUS
  <2>2. t \in Nat
    BY <2>1, SMTT(20)
  <2>3. p = q + t + weights
    BY <1>5, <1>7, <2>1, SMTT(20)
  <2> QED BY <1>3, <1>6, <2>2, <2>3, SMTT(20)
<1>9. CashHealth(x) = Later(0, 100 - p)
  BY <1>1, <1>7, SMTT(20)
<1> QED BY <1>8, <1>9, SMTT(20) DEF Later
=============================================================================
