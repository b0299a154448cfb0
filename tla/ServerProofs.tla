---------------------------- MODULE ServerProofs ----------------------------
(***************************************************************************)
(* Proofs about the two HTTP servers of a drawer, PosRouter and            *)
(* HttpServer, for any number of workers, keys, requests and crashes.      *)
(***************************************************************************)
EXTENDS PosRouter, HttpServer, FiniteSetTheorems, TLAPS

-----------------------------------------------------------------------------
(***************************************************************************)
(* The purchase route of the point of sale and its idempotency keys.       *)
(***************************************************************************)
\* The busy flag covers the section, and the section covers the engine.
SectionInv ==
  /\ \A th \in Threads : rpc[th] # "free" => up
  /\ \A th \in Threads : rpc[th] \in Section => busy
  /\ \A a, b \in Threads : rpc[a] \in Section /\ rpc[b] \in Section => a = b
  /\ \A th \in Threads : rpc[th] \in Section \ {"run"} => est = "idle"
  /\ up /\ ~busy => est = "idle"
  /\ ~up => ~busy
  /\ est = "off" => ~up

\* A key that was neither lost nor requested twice at once is recorded from
\* its first purchase on, in the file and, while the connector is up, in the map.
Sound == Keys \ (overlapped \cup lost)
KeyInv ==
  \A k \in Sound :
    /\ \A a, b \in Threads :
         rpc[a] # "free" /\ rpc[b] # "free" /\ req[a].key = k /\ req[b].key = k => a = b
    /\ begun[k] # {} => file[k] # None /\ (up => map[k] # None)
    /\ \A th \in Threads : req[th].key = k =>
         /\ rpc[th] \in {"busy", "pending", "pendline", "call"} => begun[k] = {}
         /\ rpc[th] \in {"pendline", "call"} => map[k] # None
         /\ rpc[th] = "call" => file[k] # None
    /\ \A i, j \in begun[k] : i = j

\* Results that are stored, held or answered are those of settled purchases.
Final(r, k) ==
  /\ r.id \in begun[k]
  /\ r.id < id \/ (r.id = id /\ verdict = r.verdict /\ verdict # "open")
ResultInv ==
  /\ \A k \in Keys : map[k].status = "DONE" => Final(map[k].result, k)
  /\ \A k \in Keys : file[k].status = "DONE" => Final(file[k].result, k)
  /\ \A th \in Threads : rpc[th] = "run" => id \in begun[req[th].key]
  /\ \A th \in Threads : rpc[th] \in {"release", "done", "doneline"} => Final(txn[th], req[th].key)
  /\ \A th \in Threads : reply[th].code = "200" => Final(reply[th].result, reply[th].key)

RInv == RTypeOK /\ SectionInv /\ KeyInv /\ ResultInv

-----------------------------------------------------------------------------
\* A store and a router that have seen nothing satisfy the invariant.
LEMMA InitInv == RInit => RInv
<1> SUFFICES ASSUME RInit PROVE RInv
  BY Zenon
<1> USE RouterAssumption DEF RInit, CInit
<1>1. RTypeOK
  <2>1. NoResult \in Results
    BY Zenon DEF NoResult, Results
  <2>2. reply \in [Threads -> [key : Keys, code : Codes, result : Results]]
    BY <2>1, Zenon DEF Codes, RequestSet
  <2>3. txn \in [Threads -> Results] /\ map \in [Keys -> Records] /\ file \in [Keys -> Records]
    BY <2>1, Zenon DEF Records
  <2>4. rpc \in [Threads -> RPcs]
    BY Zenon DEF RPcs
  <2>5. req \in [Threads -> RequestSet] /\ begun \in [Keys -> SUBSET Nat]
    BY Zenon
  <2>6. owes \in 0..MaxOwed /\ requests \in 0..MaxRequests /\ fails \in 0..MaxFails /\ id \in Nat
        /\ given \in Nat
    OBVIOUS
  <2> QED BY <2>2, <2>3, <2>4, <2>5, <2>6, Zenon DEF RTypeOK
<1>2. SectionInv /\ KeyInv
  BY Zenon DEF SectionInv, KeyInv, Section, Sound
<1>3. ResultInv
  BY Zenon DEF ResultInv, None
<1> QED BY <1>1, <1>2, <1>3, Zenon DEF RInv

-----------------------------------------------------------------------------
\* A worker that goes on, or answers, after its purchase takes no record away.
LEMMA KeyInvKept ==
  ASSUME KeyInv, NEW th \in Threads,
         UNCHANGED <<up, req, begun, overlapped>>, lost \subseteq lost',
         \A k \in Keys : file[k] # None => file'[k] # None,
         \A k \in Keys : map[k] # None => map'[k] # None,
         \A o \in Threads : o # th => rpc'[o] = rpc[o],
         rpc[th] # "free", rpc'[th] \notin {"busy", "pending", "pendline", "call"}
  PROVE  KeyInv'
<1>1. SUFFICES ASSUME NEW k \in Sound'
               PROVE  /\ \A a, b \in Threads :
                           rpc'[a] # "free" /\ rpc'[b] # "free" /\ req'[a].key = k /\ req'[b].key = k => a = b
                      /\ begun'[k] # {} => file'[k] # None /\ (up' => map'[k] # None)
                      /\ \A o \in Threads : req'[o].key = k =>
                           /\ rpc'[o] \in {"busy", "pending", "pendline", "call"} => begun'[k] = {}
                           /\ rpc'[o] \in {"pendline", "call"} => map'[k] # None
                           /\ rpc'[o] = "call" => file'[k] # None
                      /\ \A i, j \in begun'[k] : i = j
  BY Zenon DEF KeyInv
<1>2. k \in Sound /\ k \in Keys
  BY Zenon DEF Sound
<1>3. \A a, b \in Threads :
         rpc'[a] # "free" /\ rpc'[b] # "free" /\ req'[a].key = k /\ req'[b].key = k => a = b
  BY <1>2 DEF KeyInv
<1>4. begun'[k] # {} => file'[k] # None /\ (up' => map'[k] # None)
  BY <1>2, Zenon DEF KeyInv
<1>5. ASSUME NEW o \in Threads, req'[o].key = k
      PROVE  /\ rpc'[o] \in {"busy", "pending", "pendline", "call"} => begun'[k] = {}
             /\ rpc'[o] \in {"pendline", "call"} => map'[k] # None
             /\ rpc'[o] = "call" => file'[k] # None
  <2>1. CASE o = th
    BY <2>1, Zenon
  <2>2. CASE o # th
    BY <1>2, <1>5, <2>2 DEF KeyInv
  <2> QED BY <2>1, <2>2, Zenon
<1>6. \A i, j \in begun'[k] : i = j
  BY <1>2, Zenon DEF KeyInv
<1> QED BY <1>3, <1>4, <1>5, <1>6, Zenon

\* The connector hands a request to a free worker.
LEMMA ReceiveInv ==
  ASSUME NEW th \in Threads, NEW k \in Keys, NEW p \in Payloads, RInv, Receive(th, k, p)
  PROVE  RInv'
<1>0. RTypeOK /\ SectionInv /\ KeyInv /\ ResultInv
  BY Zenon DEF RInv
<1>1. RTypeOK'
  BY <1>0, RouterAssumption DEF RTypeOK, RPcs, RequestSet, Receive, Goto, cvars
<1>2. SectionInv'
  BY <1>0, Zenon DEF RTypeOK, SectionInv, Section, Receive, Goto, cvars
<1>3. KeyInv'
  BY <1>0 DEF RTypeOK, KeyInv, Sound, Receive, Goto
<1>4. ResultInv'
  BY <1>0 DEF RTypeOK, ResultInv, Final, Receive, Goto, cvars
<1> QED BY <1>1, <1>2, <1>3, <1>4, Zenon DEF RInv

(***************************************************************************)
(* A worker that answers, without having changed anything but its own part *)
(* of the file.                                                            *)
(***************************************************************************)
LEMMA AnswerFacts ==
  ASSUME RTypeOK, NEW th \in Threads, NEW code \in Codes, NEW result \in Results,
         Answered(th, code, result)
  PROVE  /\ rpc' \in [Threads -> RPcs]
         /\ reply' \in [Threads -> [key : Keys, code : Codes, result : Results]]
         /\ rpc'[th] = "free"
         /\ reply'[th].key = req[th].key /\ reply'[th].code = code /\ reply'[th].result = result
         /\ \A o \in Threads : o # th => rpc'[o] = rpc[o] /\ reply'[o] = reply[o]
<1>1. req[th].key \in Keys
  BY Zenon DEF RTypeOK, RequestSet
<1>2. [key |-> req[th].key, code |-> code, result |-> result]
        \in [key : Keys, code : Codes, result : Results]
  BY <1>1, Zenon
<1>3. "free" \in RPcs
  BY Zenon DEF RPcs
<1> QED BY <1>2, <1>3, Zenon DEF RTypeOK, Answered, Goto

\* A worker outside the section answers and is free again.
LEMMA AnsweredInv ==
  ASSUME RInv, NEW th \in Threads, NEW code \in Codes, NEW result \in Results,
         rpc[th] \notin Section, Answered(th, code, result),
         code = "200" => Final(result, req[th].key),
         UNCHANGED <<cvars, up, req, txn, busy, map, file, torn, requests, fails,
                     begun, overlapped, lost>>
  PROVE  RInv'
<1>0. RTypeOK /\ SectionInv /\ KeyInv /\ ResultInv
  BY Zenon DEF RInv
<1>a. /\ rpc' \in [Threads -> RPcs]
      /\ reply' \in [Threads -> [key : Keys, code : Codes, result : Results]]
      /\ rpc'[th] = "free"
      /\ reply'[th].key = req[th].key /\ reply'[th].code = code /\ reply'[th].result = result
      /\ \A o \in Threads : o # th => rpc'[o] = rpc[o] /\ reply'[o] = reply[o]
  BY <1>0, AnswerFacts, Zenon
<1>1. RTypeOK'
  BY <1>0, <1>a, Zenon DEF RTypeOK, cvars
<1>2. SectionInv'
  BY <1>0, <1>a, Zenon DEF SectionInv, Section, cvars
<1>3. KeyInv'
  BY <1>0, <1>a, SMTT(20), ZenonT(20) DEF KeyInv, Sound
<1>4. ResultInv'
  BY <1>0, <1>a DEF ResultInv, Final, cvars
<1> QED BY <1>1, <1>2, <1>3, <1>4, Zenon DEF RInv

\* IdempotencyStore::check and the three early returns of handle.
LEMMA CheckInv ==
  ASSUME NEW th \in Threads, RInv, Check(th)
  PROVE  RInv'
<1> DEFINE k == req[th].key
<1>0. /\ RTypeOK /\ SectionInv /\ KeyInv /\ ResultInv
      /\ k \in Keys /\ map[k] \in Records /\ NoResult \in Results
  BY Zenon DEF RInv, RTypeOK, RequestSet, NoResult, Results
<1>a. /\ rpc[th] = "check" /\ rpc[th] \notin Section
      /\ UNCHANGED <<cvars, up, req, txn, busy, map, file, torn, requests, fails,
                     begun, overlapped, lost>>
  BY Zenon DEF Check, Section
<1>b. {"200", "202", "409 mismatch"} \subseteq Codes
  BY Zenon DEF Codes
<1>5. CASE map[k] = None /\ Goto(th, "busy") /\ UNCHANGED reply
  <2>1. /\ rpc' \in [Threads -> RPcs] /\ rpc'[th] = "busy"
        /\ \A o \in Threads : o # th => rpc'[o] = rpc[o]
    BY <1>0, <1>5, Zenon DEF Goto, RTypeOK, RPcs
  <2>2. RTypeOK'
    BY <1>0, <1>a, <1>5, <2>1, Zenon DEF RTypeOK, cvars
  <2>3. SectionInv'
    BY <1>0, <1>a, <2>1, Zenon DEF SectionInv, Section, cvars
  <2>4. KeyInv'
    BY <1>0, <1>a, <1>5, <2>1, SMTT(20), ZenonT(20) DEF SectionInv, KeyInv, Sound
  <2>5. ResultInv'
    BY <1>0, <1>a, <1>5, <2>1, Zenon DEF ResultInv, Final, cvars
  <2> QED BY <2>2, <2>3, <2>4, <2>5, Zenon DEF RInv
<1>6. CASE map[k] # None /\ Answered(th, "409 mismatch", NoResult)
  BY <1>0, <1>a, <1>b, <1>6, AnsweredInv, Zenon
<1>7. CASE map[k] # None /\ Answered(th, "202", NoResult)
  BY <1>0, <1>a, <1>b, <1>7, AnsweredInv, Zenon
<1>8. CASE map[k] # None /\ map[k].status = "DONE" /\ Answered(th, "200", map[k].result)
  <2>1. map[k].result \in Results
    BY <1>0, <1>8, Zenon DEF Records
  <2>2. Final(map[k].result, k)
    BY <1>0, <1>8, Zenon DEF ResultInv
  <2> QED BY <1>a, <1>b, <1>8, <2>1, <2>2, AnsweredInv, Zenon
<1> QED BY <1>5, <1>6, <1>7, <1>8, Zenon DEF Check

\* busy_.exchange(true): a worker enters the section only when it is empty.
LEMMA ExchangeInv ==
  ASSUME NEW th \in Threads, RInv, Exchange(th)
  PROVE  RInv'
<1>0. RTypeOK /\ SectionInv /\ KeyInv /\ ResultInv /\ NoResult \in Results
  BY Zenon DEF RInv, NoResult, Results
<1>a. /\ rpc[th] = "busy" /\ rpc[th] \notin Section /\ busy'
      /\ UNCHANGED <<cvars, up, req, txn, map, file, torn, requests, fails,
                     begun, overlapped, lost>>
  BY Zenon DEF Exchange, Section
<1>5. CASE busy /\ Answered(th, "409 busy", NoResult)
  <2>1. UNCHANGED busy
    BY <1>0, <1>5, Zenon DEF Exchange, RTypeOK
  <2>2. "409 busy" \in Codes
    BY Zenon DEF Codes
  <2> QED BY <1>0, <1>a, <1>5, <2>1, <2>2, AnsweredInv, Zenon
<1>6. CASE ~busy /\ Goto(th, "pending") /\ UNCHANGED reply
  <2>1. /\ rpc' \in [Threads -> RPcs] /\ rpc'[th] = "pending"
        /\ \A o \in Threads : o # th => rpc'[o] = rpc[o]
    BY <1>0, <1>6, Zenon DEF Goto, RTypeOK, RPcs, Section
  <2>2. RTypeOK'
    <3>1. busy' \in BOOLEAN
      BY Zenon DEF Exchange
    <3> QED BY <1>0, <1>a, <1>6, <2>1, <3>1, Zenon DEF RTypeOK, cvars
  <2>3. SectionInv'
    BY <1>0, <1>a, <1>6, <2>1, Zenon DEF SectionInv, Section, cvars
  <2>4. KeyInv'
    BY <1>0, <1>a, <2>1 DEF KeyInv, Sound
  <2>5. ResultInv'
    BY <1>0, <1>a, <1>6, <2>1, Zenon DEF ResultInv, Final, cvars
  <2> QED BY <2>2, <2>3, <2>4, <2>5, Zenon DEF RInv
<1> QED BY <1>5, <1>6, Zenon DEF Exchange

\* put_pending, the map.
LEMMA PutPendingInv ==
  ASSUME NEW th \in Threads, RInv, PutPending(th)
  PROVE  RInv'
<1>0. RTypeOK /\ SectionInv /\ KeyInv /\ ResultInv
  BY Zenon DEF RInv
<1>1. RTypeOK'
  BY <1>0, Zenon DEF RTypeOK, RPcs, PutPending, Goto, Record, NoResult, Results, Records, RequestSet, Section, cvars
<1>2. SectionInv'
  BY <1>0, Zenon DEF RTypeOK, SectionInv, Section, PutPending, Goto, cvars
<1>3. KeyInv'
  BY <1>0 DEF RTypeOK, SectionInv, KeyInv, Sound, PutPending, Goto, Record, None, RequestSet
<1>4. ResultInv'
  BY <1>0, Zenon DEF RTypeOK, ResultInv, Final, PutPending, Goto, Record, RequestSet, cvars
<1> QED BY <1>1, <1>2, <1>3, <1>4, Zenon DEF RInv

\* What one appended line does to the file: the record, nothing, or a loss.
LEMMA LineFacts ==
  ASSUME RTypeOK, NEW th \in Threads, NEW rec \in Records, rec # None, Line(th, rec)
  PROVE  /\ file' \in [Keys -> Records] /\ torn' \in BOOLEAN /\ lost' \subseteq Keys
         /\ lost \subseteq lost'
         /\ \A k \in Keys : file'[k] = file[k] \/ (k = req[th].key /\ file'[k] = rec)
         /\ \A k \in Keys : file[k] # None => file'[k] # None
         /\ req[th].key \notin lost' => file'[req[th].key] # None
<1>0. req[th].key \in Keys /\ file \in [Keys -> Records]
  BY Zenon DEF RTypeOK, RequestSet
<1>1. CASE file' = [file EXCEPT ![req[th].key] = rec] /\ UNCHANGED <<torn, lost>>
  BY <1>0, <1>1, Zenon DEF RTypeOK
<1>2. CASE UNCHANGED file /\ torn' \in {torn, TRUE, FALSE}
           /\ lost' = lost \cup ({req[th].key} \ Recorded)
  BY <1>0, <1>2, Zenon DEF RTypeOK, Recorded
<1> QED BY <1>1, <1>2, Zenon DEF Line

\* The fields of a record of the store.
LEMMA RecordFacts ==
  ASSUME RTypeOK, NEW th \in Threads, NEW status \in {"PENDING", "DONE"}, NEW result \in Results
  PROVE  /\ Record(th, status, result) \in Records
         /\ Record(th, status, result) # None
         /\ Record(th, status, result).status = status
         /\ Record(th, status, result).result = result
<1>1. req[th].payload \in Payloads
  BY Zenon DEF RTypeOK, RequestSet
<1>2. Record(th, status, result).status = status /\ None.status = "none"
  BY Zenon DEF Record, None
<1>3. Record(th, status, result) # None
  BY <1>2, Zenon
<1> QED BY <1>1, <1>2, <1>3, Zenon DEF Record, Records

\* put_pending, the file.
LEMMA AppendPendingInv ==
  ASSUME NEW th \in Threads, RInv, AppendPending(th)
  PROVE  RInv'
<1> DEFINE rec == Record(th, "PENDING", NoResult)
<1>0. RTypeOK /\ SectionInv /\ KeyInv /\ ResultInv /\ NoResult \in Results
  BY Zenon DEF RInv, NoResult, Results
<1>a. rec \in Records /\ rec # None /\ rec.status = "PENDING"
  BY <1>0, RecordFacts
<1>b. /\ file' \in [Keys -> Records] /\ torn' \in BOOLEAN /\ lost' \subseteq Keys
      /\ lost \subseteq lost'
      /\ \A k \in Keys : file'[k] = file[k] \/ (k = req[th].key /\ file'[k] = rec)
      /\ \A k \in Keys : file[k] # None => file'[k] # None
      /\ req[th].key \notin lost' => file'[req[th].key] # None
  BY <1>0, <1>a, LineFacts, Zenon DEF AppendPending
<1>c. /\ rpc' \in [Threads -> RPcs] /\ rpc[th] = "pendline" /\ rpc'[th] = "call"
      /\ \A o \in Threads : o # th => rpc'[o] = rpc[o]
      /\ UNCHANGED <<cvars, up, req, txn, busy, map, reply, requests, fails, begun, overlapped>>
  BY <1>0, Zenon DEF AppendPending, Goto, RTypeOK, RPcs, Section
<1> HIDE DEF rec
<1>1. RTypeOK'
  BY <1>0, <1>b, <1>c, Zenon DEF RTypeOK, cvars
<1>2. SectionInv'
  BY <1>0, <1>c, Zenon DEF SectionInv, Section, cvars
<1>3. KeyInv'
  BY <1>0, <1>b, <1>c, SMTT(20), ZenonT(20) DEF KeyInv, Sound
<1>4. ResultInv'
  BY <1>0, <1>a, <1>b, <1>c DEF ResultInv, Final, cvars
<1> QED BY <1>1, <1>2, <1>3, <1>4, Zenon DEF RInv

\* run_purchase is entered: the first purchase of a key that has lost nothing.
LEMMA RunPurchaseInv ==
  ASSUME NEW th \in Threads, RInv, RunPurchase(th)
  PROVE  RInv'
<1>0. RTypeOK /\ SectionInv /\ KeyInv /\ ResultInv
  BY Zenon DEF RInv
<1>1. RTypeOK'
  BY <1>0, RouterAssumption DEF RTypeOK, RPcs, RunPurchase, Goto, Begin, RequestSet, Section, cvars
<1>2. SectionInv'
  BY <1>0, Zenon DEF RTypeOK, SectionInv, Section, RunPurchase, Goto, Begin, cvars
<1>3. KeyInv'
  BY <1>0 DEF RTypeOK, SectionInv, KeyInv, Sound, RunPurchase, Goto, RequestSet
<1>4. ResultInv'
  <2>1. /\ id \in Nat /\ id' = id + 1
        /\ \A k \in Keys : begun[k] \subseteq begun'[k]
        /\ id + 1 \in begun'[req[th].key]
        /\ UNCHANGED <<req, txn, map, file, reply>>
        /\ \A o \in Threads : rpc'[o] = IF o = th THEN "run" ELSE rpc[o]
    BY <1>0, Zenon DEF RTypeOK, RequestSet, RunPurchase, Begin, Goto
  <2>2. \A r \in Results, k \in Keys : Final(r, k) => r.id \in begun'[k] /\ r.id < id'
    BY <2>1 DEF Final, Results
  <2>3. \A k \in Keys : /\ map[k].status = "DONE" => map[k].result \in Results
                        /\ file[k].status = "DONE" => file[k].result \in Results
    BY <1>0 DEF RTypeOK, Records, None
  <2>4. \A o \in Threads : /\ txn[o] \in Results /\ req[o].key \in Keys
                           /\ reply[o].result \in Results /\ reply[o].key \in Keys
    BY <1>0, Zenon DEF RTypeOK, RequestSet
  <2>5. \A o \in Threads : rpc'[o] = "run" => id' \in begun'[req'[o].key]
    BY <1>0, <2>1, Zenon DEF SectionInv, Section, RunPurchase
  <2>6. \A k \in Keys : /\ map'[k].status = "DONE" => Final(map[k].result, k)'
                        /\ file'[k].status = "DONE" => Final(file[k].result, k)'
    BY <1>0, <2>1, <2>2, <2>3, Zenon DEF ResultInv, Final
  <2>7. \A o \in Threads : rpc'[o] \in {"release", "done", "doneline"} => Final(txn[o], req[o].key)'
    BY <1>0, <2>1, <2>2, <2>4 DEF ResultInv, Final
  <2>8. \A o \in Threads : reply'[o].code = "200" => Final(reply[o].result, reply[o].key)'
    BY <1>0, <2>1, <2>2, <2>4 DEF ResultInv, Final
  <2> QED BY <2>5, <2>6, <2>7, <2>8, Zenon DEF ResultInv
<1> QED BY <1>1, <1>2, <1>3, <1>4, Zenon DEF RInv

\* run_purchase returns with the verdict of its own purchase.
LEMMA ReturnTxnInv ==
  ASSUME NEW th \in Threads, RInv, ReturnTxn(th)
  PROVE  RInv'
<1>0. RTypeOK /\ SectionInv /\ KeyInv /\ ResultInv
  BY Zenon DEF RInv
<1>1. RTypeOK'
  BY <1>0, Zenon DEF RTypeOK, RPcs, ReturnTxn, Goto, Answer, Results, Section, cvars
<1>2. SectionInv'
  BY <1>0, Zenon DEF RTypeOK, SectionInv, Section, ReturnTxn, Goto, Answer, cvars
<1>3. KeyInv'
  <2>1. /\ UNCHANGED <<up, req, begun, overlapped, lost, map, file>> /\ rpc[th] # "free"
        /\ rpc' = [rpc EXCEPT ![th] = "release"]
    BY Zenon DEF ReturnTxn, Goto
  <2>2. /\ rpc'[th] \notin {"busy", "pending", "pendline", "call"}
        /\ \A o \in Threads : o # th => rpc'[o] = rpc[o]
    BY <1>0, <2>1, Zenon DEF RTypeOK
  <2> QED BY <1>0, <2>1, <2>2, KeyInvKept, Zenon
<1>4. ResultInv'
  BY <1>0, Zenon DEF RTypeOK, ResultInv, Final, ReturnTxn, Goto, Answer, RequestSet, cvars
<1> QED BY <1>1, <1>2, <1>3, <1>4, Zenon DEF RInv

\* busy_.store(false): the section is left.
LEMMA ReleaseInv ==
  ASSUME NEW th \in Threads, RInv, Release(th)
  PROVE  RInv'
<1>0. RTypeOK /\ SectionInv /\ KeyInv /\ ResultInv
  BY Zenon DEF RInv
<1>1. RTypeOK'
  BY <1>0, Zenon DEF RTypeOK, RPcs, Release, Goto, cvars
<1>2. SectionInv'
  BY <1>0, Zenon DEF RTypeOK, SectionInv, Section, Release, Goto, cvars
<1>3. KeyInv'
  <2>1. /\ UNCHANGED <<up, req, begun, overlapped, lost, map, file>> /\ rpc[th] # "free"
        /\ rpc' = [rpc EXCEPT ![th] = "done"]
    BY Zenon DEF Release, Goto
  <2>2. /\ rpc'[th] \notin {"busy", "pending", "pendline", "call"}
        /\ \A o \in Threads : o # th => rpc'[o] = rpc[o]
    BY <1>0, <2>1, Zenon DEF RTypeOK
  <2> QED BY <1>0, <2>1, <2>2, KeyInvKept, Zenon
<1>4. ResultInv'
  BY <1>0 DEF RTypeOK, ResultInv, Final, Release, Goto, cvars
<1> QED BY <1>1, <1>2, <1>3, <1>4, Zenon DEF RInv

\* put_done, the map.
LEMMA PutDoneInv ==
  ASSUME NEW th \in Threads, RInv, PutDone(th)
  PROVE  RInv'
<1>0. RTypeOK /\ SectionInv /\ KeyInv /\ ResultInv
  BY Zenon DEF RInv
<1>1. RTypeOK'
  BY <1>0, Zenon DEF RTypeOK, RPcs, PutDone, Goto, Record, Records, RequestSet, cvars
<1>2. SectionInv'
  BY <1>0, Zenon DEF RTypeOK, SectionInv, Section, PutDone, Goto, cvars
<1>3. KeyInv'
  <2>1. /\ UNCHANGED <<up, req, begun, file, overlapped, lost>>
        /\ rpc' = [rpc EXCEPT ![th] = "doneline"]
        /\ rpc[th] = "done"
    BY Zenon DEF PutDone, Goto
  <2>2. map' = [map EXCEPT ![req[th].key] = Record(th, "DONE", txn[th])]
    BY Zenon DEF PutDone
  <2>3. \A k \in Keys : map[k] # None => map'[k] # None
    BY <1>0, <2>2, Zenon DEF RTypeOK, Record, None
  <2>4. \A a \in Threads : a # th => rpc'[a] = rpc[a]
    BY <1>0, <2>1, Zenon DEF RTypeOK
  <2>5. rpc'[th] = "doneline"
    BY <1>0, <2>1, Zenon DEF RTypeOK
  <2> QED BY <1>0, <2>1, <2>3, <2>4, <2>5, KeyInvKept, Zenon
<1>4. ResultInv'
  BY <1>0 DEF RTypeOK, ResultInv, Final, PutDone, Goto, Record, RequestSet, cvars
<1> QED BY <1>1, <1>2, <1>3, <1>4, Zenon DEF RInv

\* put_done, the file, and the answer 200.
LEMMA AppendDoneInv ==
  ASSUME NEW th \in Threads, RInv, AppendDone(th)
  PROVE  RInv'
<1> DEFINE rec == Record(th, "DONE", txn[th])
<1>0. RTypeOK /\ SectionInv /\ KeyInv /\ ResultInv /\ txn[th] \in Results
  BY Zenon DEF RInv, RTypeOK
<1>a. rec \in Records /\ rec # None /\ rec.status = "DONE" /\ rec.result = txn[th]
  BY <1>0, RecordFacts, ZenonT(30)
<1>b. /\ file' \in [Keys -> Records] /\ torn' \in BOOLEAN /\ lost' \subseteq Keys
      /\ lost \subseteq lost'
      /\ \A k \in Keys : file'[k] = file[k] \/ (k = req[th].key /\ file'[k] = rec)
      /\ \A k \in Keys : file[k] # None => file'[k] # None
  BY <1>0, <1>a, LineFacts, Zenon DEF AppendDone
<1>c. /\ rpc' \in [Threads -> RPcs]
      /\ reply' \in [Threads -> [key : Keys, code : Codes, result : Results]]
      /\ rpc[th] = "doneline" /\ rpc'[th] = "free"
      /\ reply'[th].key = req[th].key /\ reply'[th].result = txn[th]
      /\ \A o \in Threads : o # th => rpc'[o] = rpc[o] /\ reply'[o] = reply[o]
      /\ UNCHANGED <<cvars, up, req, txn, busy, map, requests, fails, begun, overlapped>>
  <2>1. "200" \in Codes
    BY Zenon DEF Codes
  <2> QED BY <1>0, <2>1, AnswerFacts, Zenon DEF AppendDone
<1> HIDE DEF rec
<1>1. RTypeOK'
  BY <1>0, <1>b, <1>c, Zenon DEF RTypeOK, cvars
<1>2. SectionInv'
  BY <1>0, <1>c, Zenon DEF SectionInv, Section, cvars
<1>3. KeyInv'
  <2>1. UNCHANGED <<up, req, begun, overlapped, map>> /\ rpc[th] # "free"
        /\ rpc'[th] \notin {"busy", "pending", "pendline", "call"}
    BY <1>c, Zenon
  <2> QED BY <1>0, <1>b, <1>c, <2>1, KeyInvKept, Zenon
<1>4. ResultInv'
  <2>1. Final(txn[th], req[th].key) /\ UNCHANGED <<id, verdict, begun>>
    BY <1>0, <1>c, Zenon DEF ResultInv, cvars
  <2>2. \A k \in Keys : file'[k].status = "DONE" => Final(file[k].result, k)'
    BY <1>0, <1>a, <1>b, <2>1, SMTT(20), ZenonT(20) DEF ResultInv, Final
  <2>3. \A o \in Threads : reply'[o].code = "200" => Final(reply[o].result, reply[o].key)'
    BY <1>0, <1>c, <2>1, SMTT(20), ZenonT(20) DEF ResultInv, Final
  <2>4. /\ \A k \in Keys : map'[k].status = "DONE" => Final(map[k].result, k)'
        /\ \A o \in Threads : rpc'[o] = "run" => id' \in begun'[req'[o].key]
        /\ \A o \in Threads : rpc'[o] \in {"release", "done", "doneline"} => Final(txn[o], req[o].key)'
    BY <1>0, <1>c, <2>1, Zenon DEF ResultInv, Final
  <2> QED BY <2>2, <2>3, <2>4, Zenon DEF ResultInv
<1> QED BY <1>1, <1>2, <1>3, <1>4, Zenon DEF RInv

-----------------------------------------------------------------------------
(***************************************************************************)
(* The steps of the engine, of a crash and of a start.                     *)
(***************************************************************************)
LEMMA GiveCoinInv == RInv /\ GiveCoin => RInv'
<1> SUFFICES ASSUME RInv, GiveCoin PROVE RInv'
  BY Zenon
<1>1. RTypeOK'
  BY DEF RInv, RTypeOK, GiveCoin, Give, rvars
<1>2. SectionInv' /\ KeyInv'
  BY DEF RInv, SectionInv, KeyInv, Sound, GiveCoin, Give, rvars
<1>3. ResultInv'
  BY Zenon DEF RInv, ResultInv, Final, GiveCoin, Give, rvars
<1> QED BY <1>1, <1>2, <1>3, Zenon DEF RInv

\* The engine settles the purchase that is open.
LEMMA SettleTxnInv == RInv /\ SettleTxn => RInv'
<1> SUFFICES ASSUME RInv, SettleTxn PROVE RInv'
  BY Zenon
<1>1. RTypeOK'
  BY Zenon DEF RInv, RTypeOK, SettleTxn, Settle, rvars
<1>2. SectionInv' /\ KeyInv'
  BY SMTT(20), ZenonT(20) DEF RInv, SectionInv, KeyInv, Sound, SettleTxn, Settle, rvars
<1>3. ResultInv'
  BY Zenon DEF RInv, ResultInv, Final, SettleTxn, Settle, rvars
<1> QED BY <1>1, <1>2, <1>3, Zenon DEF RInv

\* resume_if_needed, before the connector is up.
LEMMA ResumeInv == RInv /\ Resume => RInv'
<1> SUFFICES ASSUME RInv, Resume PROVE RInv'
  BY Zenon
<1>1. RTypeOK'
  BY Zenon DEF RInv, RTypeOK, Resume, ResumeEnds, ResumeBegins, Answer, Restart, rvars
<1>2. SectionInv'
  BY DEF RInv, SectionInv, Section, Resume, ResumeEnds, ResumeBegins, Answer, Restart, rvars
<1>3. KeyInv'
  BY SMTT(20), ZenonT(20) DEF RInv, KeyInv, Sound, Resume, ResumeEnds, ResumeBegins, rvars
<1>4. ResultInv'
  BY Zenon DEF RInv, ResultInv, Final, Resume, ResumeEnds, ResumeBegins, Answer, Restart, rvars
<1> QED BY <1>1, <1>2, <1>3, <1>4, Zenon DEF RInv

\* A crash: what is left of the store are its readable lines.
LEMMA DieInv == RInv /\ Die => RInv'
<1> SUFFICES ASSUME RInv, Die PROVE RInv'
  BY Zenon
<1>0. RTypeOK /\ SectionInv /\ KeyInv /\ ResultInv
  BY Zenon DEF RInv
<1>a. PICK gone \in SUBSET {k \in Recorded : "power" \in Storage} :
        /\ file' = [k \in Keys |-> IF k \in gone THEN None ELSE file[k]]
        /\ lost' = lost \cup gone
  BY Zenon DEF Die
<1>b. /\ rpc' = [th \in Threads |-> "free"] /\ map' = [k \in Keys |-> None]
      /\ txn' = [th \in Threads |-> NoResult] /\ ~up' /\ ~busy' /\ est' = "off"
      /\ id' = id /\ (verdict # "open" => verdict' = verdict)
      /\ verdict' \in {verdict, "void"}
      /\ UNCHANGED <<owes, given, req, reply, requests, begun, overlapped>>
  BY Zenon DEF Die, Fail
<1>c. None \in Records /\ NoResult \in Results /\ "free" \in RPcs /\ None.status = "none"
  BY Zenon DEF Records, None, NoResult, Results, RPcs
<1>1. RTypeOK'
  <2>1. fails' \in 0..MaxFails
    BY <1>0, RouterAssumption DEF RTypeOK, Die
  <2>2. file' \in [Keys -> Records] /\ lost' \subseteq Keys
    BY <1>0, <1>a, <1>c, Zenon DEF RTypeOK, Recorded
  <2>3. rpc' \in [Threads -> RPcs] /\ map' \in [Keys -> Records] /\ txn' \in [Threads -> Results]
    BY <1>b, <1>c, Zenon
  <2>4. torn' \in BOOLEAN /\ up' \in BOOLEAN /\ busy' \in BOOLEAN
    BY <1>0, ZenonT(30) DEF RTypeOK, Die
  <2>5. verdict' \in {"none", "open", "done", "void"} /\ est' \in {"off", "idle", "busy"}
    BY <1>0, <1>b, Zenon DEF RTypeOK
  <2> QED BY <1>0, <1>b, <2>1, <2>2, <2>3, <2>4, <2>5, Zenon DEF RTypeOK
<1>2. SectionInv'
  BY <1>b, Zenon DEF SectionInv, Section
<1>3. KeyInv'
  BY <1>0, <1>a, <1>b, Zenon DEF RTypeOK, KeyInv, Sound
<1>4. ResultInv'
  <2>1. \A k \in Keys : map'[k].status = "none" /\ (file'[k] = file[k] \/ file'[k].status = "none")
    BY <1>a, <1>b, <1>c, Zenon
  <2>2. \A k \in Keys : file'[k].status = "DONE" => Final(file[k].result, k)'
    BY <1>0, <1>b, <2>1, Zenon DEF ResultInv, Final
  <2>3. \A th \in Threads : reply'[th].code = "200" => Final(reply[th].result, reply[th].key)'
    BY <1>0, <1>b, Zenon DEF ResultInv, Final
  <2> QED BY <1>b, <2>1, <2>2, <2>3, Zenon DEF ResultInv
<1> QED BY <1>1, <1>2, <1>3, <1>4, Zenon DEF RInv

\* IdempotencyStore::open reads the lines back and drops the expired ones.
LEMMA OpenStoreInv == RInv /\ OpenStore => RInv'
<1> SUFFICES ASSUME RInv, OpenStore PROVE RInv'
  BY Zenon
<1>0. RTypeOK /\ SectionInv /\ KeyInv /\ ResultInv
  BY Zenon DEF RInv
<1>a. PICK expired \in SUBSET {k \in Recorded : "ttl" \in Storage} :
        /\ file' = [k \in Keys |-> IF k \in expired THEN None ELSE file[k]]
        /\ lost' = lost \cup expired
  BY Zenon DEF OpenStore
<1>b. /\ ~up /\ up' /\ est = "idle" /\ map' = file'
      /\ UNCHANGED <<est, id, owes, given, verdict, rpc, req, txn, busy, torn, reply, requests,
                     fails, begun, overlapped>>
  BY Zenon DEF OpenStore, cvars
<1>c. None \in Records /\ None.status = "none"
  BY Zenon DEF Records, None
<1>1. RTypeOK'
  <2>1. file' \in [Keys -> Records] /\ lost' \subseteq Keys
    BY <1>0, <1>a, <1>c, Zenon DEF RTypeOK, Recorded
  <2>2. up' \in BOOLEAN
    BY Zenon DEF OpenStore
  <2> QED BY <1>0, <1>b, <2>1, <2>2, Zenon DEF RTypeOK
<1>2. SectionInv'
  BY <1>0, <1>b, Zenon DEF SectionInv, Section
<1>3. KeyInv'
  BY <1>0, <1>a, <1>b, Zenon DEF RTypeOK, SectionInv, KeyInv, Sound
<1>4. ResultInv'
  <2>1. \A k \in Keys : map'[k] = file'[k] /\ (file'[k] = file[k] \/ file'[k].status = "none")
    BY <1>a, <1>b, <1>c, Zenon
  <2>2. \A k \in Keys : file'[k].status = "DONE" => Final(file[k].result, k)'
    BY <1>0, <1>b, <2>1, Zenon DEF ResultInv, Final
  <2>3. \A k \in Keys : map'[k].status = "DONE" => Final(map[k].result, k)'
    BY <2>1, <2>2, Zenon DEF Final
  <2> QED BY <1>0, <1>b, <2>2, <2>3, Zenon DEF ResultInv, Final
<1> QED BY <1>1, <1>2, <1>3, <1>4, Zenon DEF RInv

-----------------------------------------------------------------------------
\* Every step of the router, the store and the engine preserves the invariant.
LEMMA StepInv == RInv /\ [RNext]_vars => RInv'
<1> SUFFICES ASSUME RInv, [RNext]_vars PROVE RInv'
  BY Zenon
<1>1. CASE \E th \in Threads, k \in Keys, p \in Payloads : Receive(th, k, p)
  BY <1>1, ReceiveInv, Zenon
<1>2. CASE \E th \in Threads : Worker(th)
  BY <1>2, CheckInv, ExchangeInv, PutPendingInv, AppendPendingInv, RunPurchaseInv, ReturnTxnInv,
     ReleaseInv, PutDoneInv, AppendDoneInv, Zenon DEF Worker
<1>3. CASE GiveCoin \/ SettleTxn \/ Resume \/ Die \/ OpenStore
  BY <1>3, GiveCoinInv, SettleTxnInv, ResumeInv, DieInv, OpenStoreInv, Zenon
<1>4. CASE UNCHANGED vars
  <2>1. RTypeOK'
    BY <1>4, Zenon DEF vars, cvars, rvars, RInv, RTypeOK
  <2>2. SectionInv' /\ KeyInv'
    BY <1>4, SMTT(20), ZenonT(20) DEF vars, cvars, rvars, RInv, SectionInv, KeyInv, Sound
  <2>3. ResultInv'
    BY <1>4, Zenon DEF vars, cvars, rvars, RInv, ResultInv, Final
  <2> QED BY <2>1, <2>2, <2>3, Zenon DEF RInv
<1> QED BY <1>1, <1>2, <1>3, <1>4, Zenon DEF RNext

(***************************************************************************)
(* The inductive invariant of the router and its store.                    *)
(***************************************************************************)
THEOREM Invariance == RSpec => []RInv
BY InitInv, StepInv, PTL DEF RSpec

(***************************************************************************)
(* Router::handle enters run_purchase with at most one worker, and never   *)
(* while the engine is still at work.                                      *)
(***************************************************************************)
THEOREM OneCaller == RSpec => []EngineHasOneCaller
<1>1. RInv => EngineHasOneCaller
  BY Zenon DEF RInv, SectionInv, Section, EngineHasOneCaller
<1> QED BY <1>1, Invariance, PTL

(***************************************************************************)
(* With put_pending before run_purchase, retries one after the other pay   *)
(* once, across any number of crashes, as long as the record survives.     *)
(***************************************************************************)
THEOREM PaysOnce == RSpec => []RetriesPayOnce
<1>1. RInv => RetriesPayOnce
  BY Zenon DEF RInv, KeyInv, Sound, RetriesPayOnce
<1> QED BY <1>1, Invariance, PTL

(***************************************************************************)
(* What check() replays, and what handle() answers, is the result of a     *)
(* settled purchase of the same key.                                       *)
(***************************************************************************)
THEOREM ReplaysOwnResult == RSpec => []ReplayIsOwn
<1>1. RInv => ReplayIsOwn
  BY Zenon DEF RInv, ResultInv, Final, ReplayIsOwn
<1> QED BY <1>1, Invariance, PTL

-----------------------------------------------------------------------------
(***************************************************************************)
(* The device's own server: its workers, the busy flag, the hardware.      *)
(***************************************************************************)
\* A purchase that no command has crossed.
Alone(w) == wpc[w] \in Guarded \ {"parse"} /\ w \notin crossed

(***************************************************************************)
(* Such a purchase is the only one to use hopper and shutter, so the       *)
(* counter counts its coins only.                                          *)
(***************************************************************************)
AloneInv ==
  \A w \in Workers : Alone(w) =>
    /\ \A o \in Workers : wpc[o] \notin Commanding
    /\ wpc[w] = "pay" => pulses <= fallen[w]
    /\ wpc[w] \in {"open", "present", "close", "answer"} => fallen[w] >= job[w].coins
    /\ wpc[w] = "answer" => shutter = "closed"

HInv == HTypeOK /\ BusyIsHeld /\ AloneInv

\* The server starts with all workers free and the flag clear.
LEMMA ServeInitInv == HInit => HInv
<1> SUFFICES ASSUME HInit PROVE HInv
  BY Zenon
<1>1. \A w \in Workers : wpc[w] = "free"
  BY Zenon DEF HInit
<1>2. HTypeOK
  <2>1. (CHOOSE j \in Requests : TRUE) \in Requests
    BY ServerAssumption, Zenon
  <2>2. "free" \in WPcs /\ "none" \in Answers /\ Capacity \in 0..Capacity /\ 0 \in 0..MaxPosts
    BY ServerAssumption DEF WPcs, Answers
  <2> QED BY <2>1, <2>2, Zenon DEF HInit, HTypeOK
<1>3. BusyIsHeld
  BY <1>1, Zenon DEF HInit, BusyIsHeld, Guarded
<1>4. AloneInv
  BY <1>1, Zenon DEF AloneInv, Alone, Guarded
<1> QED BY <1>2, <1>3, <1>4, Zenon DEF HInv

\* What a step of worker w leaves of the control points.
LEMMA AdvanceFacts ==
  ASSUME HTypeOK, NEW w \in Workers, NEW p \in WPcs, Advance(w, p)
  PROVE  /\ wpc' \in [Workers -> WPcs]
         /\ wpc'[w] = p
         /\ \A o \in Workers : o # w => wpc'[o] = wpc[o]
BY Zenon DEF HTypeOK, Advance

\* Reply frees the worker.
LEMMA ReplyFacts ==
  ASSUME HTypeOK, NEW w \in Workers, NEW code \in Answers, Reply(w, code)
  PROVE  /\ wpc' \in [Workers -> WPcs] /\ response' \in [Workers -> Answers]
         /\ wpc'[w] = "free"
         /\ \A o \in Workers : o # w => wpc'[o] = wpc[o]
<1>1. "free" \in WPcs
  BY Zenon DEF WPcs
<1> QED BY <1>1, AdvanceFacts, Zenon DEF Reply, HTypeOK

(***************************************************************************)
(* A step in which worker w goes from one point outside the guard to       *)
(* another one that commands nothing.                                      *)
(***************************************************************************)
LEMMA OutsideInv ==
  ASSUME HInv, NEW w \in Workers, NEW p \in WPcs \ (Guarded \cup Commanding),
         wpc[w] \notin Guarded, wpc'[w] = p, \A o \in Workers : o # w => wpc'[o] = wpc[o],
         \A o \in Workers : o # w => job'[o] = job[o],
         UNCHANGED <<inProgress, pulses, shutter, fallen, crossed>>
  PROVE  BusyIsHeld' /\ AloneInv'
<1>1. \A o \in Workers : /\ wpc'[o] \in Guarded <=> wpc[o] \in Guarded
                         /\ wpc'[o] \in Guarded => o # w
                         /\ wpc'[o] \in Commanding => wpc[o] \in Commanding
  BY Zenon
<1>2. BusyIsHeld'
  BY <1>1, Zenon DEF HInv, BusyIsHeld
<1>3. AloneInv'
  BY <1>1, Zenon DEF HInv, AloneInv, Alone
<1> QED BY <1>2, <1>3, Zenon

\* The guard is left: nobody holds it any more.
LEMMA EndGuardInv ==
  ASSUME HInv, NEW w \in Workers, wpc[w] \in Guarded, wpc'[w] = "free", ~inProgress',
         \A o \in Workers : o # w => wpc'[o] = wpc[o]
  PROVE  BusyIsHeld' /\ AloneInv'
<1>1. \A o \in Workers : wpc'[o] \notin Guarded
  BY Zenon DEF HInv, BusyIsHeld, Guarded
<1>2. BusyIsHeld'
  BY <1>1, Zenon DEF BusyIsHeld
<1>3. AloneInv'
  BY <1>1, Zenon DEF AloneInv, Alone
<1> QED BY <1>2, <1>3, Zenon

\* The holder of the guard goes on to another point under it.
LEMMA HolderInv ==
  ASSUME HInv, NEW w \in Workers, wpc[w] \in Guarded, wpc'[w] \in Guarded,
         \A o \in Workers : o # w => wpc'[o] = wpc[o],
         UNCHANGED inProgress,
         Alone(w)' =>
           /\ \A o \in Workers : wpc'[o] \notin Commanding
           /\ wpc'[w] = "pay" => pulses' <= fallen'[w]
           /\ wpc'[w] \in {"open", "present", "close", "answer"} => fallen'[w] >= job'[w].coins
           /\ wpc'[w] = "answer" => shutter' = "closed"
  PROVE  BusyIsHeld' /\ AloneInv'
<1>1. \A o \in Workers : wpc'[o] \in Guarded <=> o = w
  BY Zenon DEF HInv, BusyIsHeld
<1>2. BusyIsHeld'
  BY <1>1, Zenon DEF HInv, BusyIsHeld
<1>3. AloneInv'
  BY <1>1, Zenon DEF AloneInv, Alone
<1> QED BY <1>2, <1>3, Zenon

(***************************************************************************)
(* A command begins: it crosses every purchase.  Or it goes on or ends: no *)
(* purchase was alone, and none becomes so.                                *)
(***************************************************************************)
LEMMA CommandInv ==
  ASSUME HInv, NEW w \in Workers, wpc[w] \notin Guarded, wpc'[w] \notin Guarded,
         \A o \in Workers : o # w => wpc'[o] = wpc[o],
         UNCHANGED inProgress,
         Cross \/ (wpc[w] \in Commanding /\ UNCHANGED crossed)
  PROVE  BusyIsHeld' /\ AloneInv'
<1>1. \A o \in Workers : /\ wpc'[o] \in Guarded <=> wpc[o] \in Guarded
                         /\ wpc'[o] \in Guarded => wpc'[o] = wpc[o]
  BY Zenon
<1>2. BusyIsHeld'
  BY <1>1, Zenon DEF HInv, BusyIsHeld
<1>3. AloneInv'
  <2>1. \A o \in Workers : ~Alone(o)'
    <3> SUFFICES ASSUME NEW o \in Workers, Alone(o)' PROVE FALSE
      BY Zenon
    <3>1. wpc[o] \in Guarded \ {"parse"} /\ o \notin crossed'
      BY <1>1, Zenon DEF Alone
    <3>2. CASE Cross
      BY <3>1, <3>2, Zenon DEF Cross
    <3>3. CASE wpc[w] \in Commanding /\ UNCHANGED crossed
      <4>1. Alone(o)
        BY <3>1, <3>3, Zenon DEF Alone
      <4> QED BY <3>3, <4>1, Zenon DEF HInv, AloneInv
    <3> QED BY <3>2, <3>3, Zenon
  <2> QED BY <2>1, Zenon DEF AloneInv
<1> QED BY <1>2, <1>3, Zenon

-----------------------------------------------------------------------------
\* The connector takes a request.
LEMMA DispatchInv ==
  ASSUME HInv, NEW w \in Workers, NEW j \in Requests, Dispatch(w, j)
  PROVE  HInv'
<1>0. HTypeOK /\ "limit" \in WPcs /\ "limit" \notin Guarded \cup Commanding /\ wpc[w] \notin Guarded
  BY Zenon DEF HInv, WPcs, Guarded, Commanding, Dispatch
<1>1. /\ wpc' \in [Workers -> WPcs] /\ wpc'[w] = "limit"
      /\ \A o \in Workers : o # w => wpc'[o] = wpc[o]
  BY <1>0, AdvanceFacts, Zenon DEF Dispatch
<1>2. /\ job' \in [Workers -> Requests] /\ posts' \in 0..MaxPosts
      /\ \A o \in Workers : o # w => job'[o] = job[o]
  BY <1>0, ServerAssumption DEF Dispatch, HTypeOK
<1>3. HTypeOK'
  BY <1>0, <1>1, <1>2, Zenon DEF HTypeOK, Dispatch
<1>4. BusyIsHeld' /\ AloneInv'
  BY <1>0, <1>1, <1>2, OutsideInv, Zenon DEF Dispatch
<1> QED BY <1>3, <1>4, Zenon DEF HInv

\* The pre-routing handler.
LEMMA GateInv ==
  ASSUME HInv, NEW w \in Workers, Limit(w) \/ Gate(w)
  PROVE  HInv'
<1>0. HTypeOK /\ wpc[w] \in {"limit", "gate"} /\ wpc[w] \notin Guarded /\ job[w] \in Jobs
  BY ServerAssumption, Zenon DEF HInv, HTypeOK, Limit, Gate, Guarded
<1>1. /\ {"gate", "free", "txn", "command"} \subseteq WPcs \ (Guarded \cup Commanding)
      /\ {"429", "423", "401"} \subseteq Answers
      /\ Limiter(job[w].route) \in {"txn", "command"}
  BY Zenon DEF WPcs, Guarded, Commanding, Answers, Limiter
<1>2. /\ wpc' \in [Workers -> WPcs] /\ wpc'[w] \in {"gate", "free", "txn", "command"}
      /\ \A o \in Workers : o # w => wpc'[o] = wpc[o]
      /\ response' \in [Workers -> Answers]
  <2>1. (\E code \in {"429", "423", "401"} : Reply(w, code))
        \/ (\E p \in {"gate", "txn", "command"} : Advance(w, p) /\ UNCHANGED response)
    BY <1>1, Zenon DEF Limit, Gate
  <2>2. CASE \E code \in {"429", "423", "401"} : Reply(w, code)
    BY <1>0, <1>1, <2>2, ReplyFacts, Zenon
  <2>3. CASE \E p \in {"gate", "txn", "command"} : Advance(w, p) /\ UNCHANGED response
    <3>1. PICK p \in {"gate", "txn", "command"} : Advance(w, p) /\ UNCHANGED response
      BY <2>3, Zenon
    <3>2. p \in WPcs
      BY <1>1, Zenon
    <3> QED BY <1>0, <3>1, <3>2, AdvanceFacts, Zenon DEF HTypeOK
  <2> QED BY <2>1, <2>2, <2>3, Zenon
<1>3. tokens' \in [{"txn", "command"} -> 0..Capacity]
  BY <1>0, <1>1, ServerAssumption DEF HTypeOK, Limit, Gate
<1>4. HTypeOK'
  BY <1>0, <1>2, <1>3, Zenon DEF HTypeOK, Limit, Gate
<1>5. BusyIsHeld' /\ AloneInv'
  BY <1>0, <1>1, <1>2, OutsideInv, Zenon DEF Limit, Gate
<1> QED BY <1>4, <1>5, Zenon DEF HInv

\* busy_try_acquire: the flag is clear only when nobody is under the guard.
LEMMA AcquireInv ==
  ASSUME HInv, NEW w \in Workers, Acquire(w)
  PROVE  HInv'
<1>0. HTypeOK /\ wpc[w] = "txn" /\ wpc[w] \notin Guarded /\ "parse" \in WPcs /\ "409" \in Answers
  BY Zenon DEF HInv, Acquire, Guarded, WPcs, Answers
<1>1. CASE inProgress /\ Reply(w, "409")
  <2>1. /\ wpc' \in [Workers -> WPcs] /\ response' \in [Workers -> Answers] /\ wpc'[w] = "free"
        /\ \A o \in Workers : o # w => wpc'[o] = wpc[o]
    BY <1>0, <1>1, ReplyFacts, Zenon
  <2>2. "free" \in WPcs \ (Guarded \cup Commanding) /\ inProgress' = inProgress
    BY <1>1, Zenon DEF WPcs, Guarded, Commanding, Acquire
  <2>3. HTypeOK'
    BY <1>0, <2>1, <2>2, Zenon DEF HTypeOK, Acquire
  <2>4. BusyIsHeld' /\ AloneInv'
    BY <1>0, <2>1, <2>2, OutsideInv, Zenon DEF Acquire
  <2> QED BY <2>3, <2>4, Zenon DEF HInv
<1>2. CASE ~inProgress /\ Advance(w, "parse") /\ UNCHANGED response
  <2>1. /\ wpc' \in [Workers -> WPcs] /\ wpc'[w] = "parse"
        /\ \A o \in Workers : o # w => wpc'[o] = wpc[o]
    BY <1>0, <1>2, AdvanceFacts, Zenon
  <2>2. HTypeOK'
    BY <1>0, <1>2, <2>1, Zenon DEF HTypeOK, Acquire
  <2>3. \A o \in Workers : wpc'[o] \in Guarded => o = w
    BY <1>2, <2>1, Zenon DEF HInv, BusyIsHeld
  <2>4. BusyIsHeld' /\ AloneInv'
    BY <2>1, <2>3, Zenon DEF BusyIsHeld, AloneInv, Alone, Acquire, Guarded
  <2> QED BY <2>2, <2>4, Zenon DEF HInv
<1> QED BY <1>1, <1>2, Zenon DEF Acquire

\* The ways out of the /txn handler release the flag.
LEMMA LeaveInv ==
  ASSUME HInv, NEW w \in Workers, NEW code \in Answers, wpc[w] \in Guarded, EndGuard(w, code),
         shutter' \in {"closed", "open", "ajar"}, motor' \in BOOLEAN,
         UNCHANGED <<job, tokens, disabled, pulses, posts, fallen, crossed>>
  PROVE  HInv'
<1>1. /\ wpc' \in [Workers -> WPcs] /\ response' \in [Workers -> Answers] /\ wpc'[w] = "free"
      /\ \A o \in Workers : o # w => wpc'[o] = wpc[o]
  BY ReplyFacts, Zenon DEF HInv, EndGuard
<1>2. HTypeOK'
  BY <1>1, Zenon DEF HInv, HTypeOK, EndGuard
<1>3. BusyIsHeld' /\ AloneInv'
  BY <1>1, EndGuardInv, Zenon DEF EndGuard
<1> QED BY <1>2, <1>3, Zenon DEF HInv

\* The body is parsed and the purchase begins, alone unless a command is under way.
LEMMA ParseInv ==
  ASSUME HInv, NEW w \in Workers, Parse(w)
  PROVE  HInv'
<1>0. HTypeOK /\ wpc[w] \in Guarded /\ wpc[w] = "parse" /\ job[w] \in Jobs
  BY ServerAssumption, Zenon DEF HInv, HTypeOK, Parse, Guarded
<1>1. CASE ~job[w].good /\ EndGuard(w, "400") /\ UNCHANGED <<fallen, crossed>>
  <2>1. "400" \in Answers
    BY Zenon DEF Answers
  <2>2. shutter' \in {"closed", "open", "ajar"} /\ motor' \in BOOLEAN
    BY <1>0, Zenon DEF HTypeOK, Parse
  <2> QED BY <1>0, <1>1, <2>1, <2>2, LeaveInv, Zenon DEF Parse
<1>2. CASE job[w].good
  <2> DEFINE p == IF job[w].coins > 0 THEN "start" ELSE "open"
  <2>1. p \in WPcs /\ p \in Guarded /\ p \in {"start", "open"}
    BY Zenon DEF WPcs, Guarded
  <2>2. Advance(w, p) /\ UNCHANGED <<response, inProgress>>
    BY <1>2, Zenon DEF Parse, EndGuard
  <2>3. /\ wpc' \in [Workers -> WPcs] /\ wpc'[w] = p
        /\ \A o \in Workers : o # w => wpc'[o] = wpc[o]
    BY <1>0, <2>1, <2>2, AdvanceFacts, Zenon
  <2>4. fallen' \in [Workers -> Nat] /\ fallen'[w] = 0
    BY <1>0, <1>2 DEF Parse, HTypeOK
  <2>5. crossed' \subseteq Workers
    BY <1>0, <1>2, Zenon DEF Parse, HTypeOK
  <2>6. HTypeOK'
    BY <1>0, <2>2, <2>3, <2>4, <2>5, Zenon DEF HTypeOK, Parse
  <2>7. Alone(w)' => \A o \in Workers : wpc'[o] \notin Commanding
    <3>1. Alone(w)' => ~ \E o \in Workers : wpc[o] \in Commanding
      BY <1>2, Zenon DEF Parse, Alone
    <3>2. p \notin Commanding
      BY <2>1, Zenon DEF Commanding
    <3> QED BY <2>3, <3>1, <3>2, Zenon
  <2>8. p = "open" => fallen'[w] >= job'[w].coins
    BY <1>0, <2>4 DEF Parse, Jobs
  <2>9. BusyIsHeld' /\ AloneInv'
    BY <1>0, <2>1, <2>2, <2>3, <2>7, <2>8, HolderInv, Zenon
  <2> QED BY <2>6, <2>9, Zenon DEF HInv
<1> QED BY <1>1, <1>2, Zenon DEF Parse

\* A purchase ends, or goes on after the presentation time.
LEMMA EndInv ==
  ASSUME HInv, NEW w \in Workers, Void(w) \/ Presented(w) \/ AnswerOk(w)
  PROVE  HInv'
<1>0. HTypeOK /\ wpc[w] \in Guarded
  BY Zenon DEF HInv, Void, Presented, AnswerOk, Guarded
<1>1. CASE Void(w) \/ AnswerOk(w)
  <2>1. {"VOID", "OK"} \subseteq Answers
    BY Zenon DEF Answers
  <2>2. shutter' \in {"closed", "open", "ajar"} /\ motor' \in BOOLEAN
    BY <1>0, <1>1, Zenon DEF HTypeOK, Void, AnswerOk
  <2> QED BY <1>0, <1>1, <2>1, <2>2, LeaveInv, Zenon DEF Void, AnswerOk
<1>2. CASE Presented(w)
  <2>1. "close" \in WPcs /\ "close" \in Guarded /\ wpc[w] = "present"
    BY <1>2, Zenon DEF WPcs, Guarded, Presented
  <2>2. /\ wpc' \in [Workers -> WPcs] /\ wpc'[w] = "close"
        /\ \A o \in Workers : o # w => wpc'[o] = wpc[o]
    BY <1>0, <1>2, <2>1, AdvanceFacts, Zenon DEF Presented
  <2>3. HTypeOK'
    BY <1>0, <1>2, <2>2, Zenon DEF HTypeOK, Presented
  <2>4. Alone(w)' => Alone(w) /\ \A o \in Workers : wpc'[o] \notin Commanding
    BY <1>2, <2>1, <2>2, Zenon DEF HInv, AloneInv, Alone, Presented, Guarded, Commanding
  <2>5. Alone(w) => fallen'[w] >= job'[w].coins
    BY <1>2, <2>1, Zenon DEF HInv, AloneInv, Presented
  <2>6. BusyIsHeld' /\ AloneInv'
    BY <1>0, <1>2, <2>1, <2>2, <2>4, <2>5, HolderInv, Zenon DEF Presented
  <2> QED BY <2>3, <2>6, Zenon DEF HInv
<1> QED BY <1>1, <1>2, Zenon

\* /command up to its first motion.
LEMMA LookInv ==
  ASSUME HInv, NEW w \in Workers, Command(w) \/ Look(w)
  PROVE  HInv'
<1>0. HTypeOK /\ wpc[w] \in {"command", "look"} /\ wpc[w] \notin Guarded
  BY Zenon DEF HInv, Command, Look, Guarded
<1>1. CASE (\E code \in {"400", "409"} : Reply(w, code)) /\ UNCHANGED crossed
  <2>1. {"400", "409"} \subseteq Answers /\ "free" \in WPcs \ (Guarded \cup Commanding)
    BY Zenon DEF Answers, WPcs, Guarded, Commanding
  <2>2. /\ wpc' \in [Workers -> WPcs] /\ response' \in [Workers -> Answers] /\ wpc'[w] = "free"
        /\ \A o \in Workers : o # w => wpc'[o] = wpc[o]
    BY <1>0, <1>1, <2>1, ReplyFacts, Zenon
  <2>3. HTypeOK'
    BY <1>0, <1>1, <2>2, Zenon DEF HTypeOK, Command, Look
  <2>4. BusyIsHeld' /\ AloneInv'
    BY <1>0, <1>1, <2>1, <2>2, OutsideInv, Zenon DEF Command, Look
  <2> QED BY <2>3, <2>4, Zenon DEF HInv
<1>2. CASE Advance(w, "look") /\ UNCHANGED <<response, crossed>>
  <2>1. "look" \in WPcs \ (Guarded \cup Commanding)
    BY Zenon DEF WPcs, Guarded, Commanding
  <2>2. /\ wpc' \in [Workers -> WPcs] /\ wpc'[w] = "look"
        /\ \A o \in Workers : o # w => wpc'[o] = wpc[o]
    BY <1>0, <1>2, <2>1, AdvanceFacts, Zenon
  <2>3. HTypeOK'
    BY <1>0, <1>2, <2>2, Zenon DEF HTypeOK, Command, Look
  <2>4. BusyIsHeld' /\ AloneInv'
    BY <1>0, <1>2, <2>1, <2>2, OutsideInv, Zenon DEF Command, Look
  <2> QED BY <2>3, <2>4, Zenon DEF HInv
<1>3. CASE (\E p \in {"cmdclose", "cmdopen", "cmdstart"} : Advance(w, p)) /\ Cross /\ UNCHANGED response
  <2>1. PICK p \in {"cmdclose", "cmdopen", "cmdstart"} : Advance(w, p)
    BY <1>3, Zenon
  <2>2. p \in WPcs /\ p \notin Guarded
    BY Zenon DEF WPcs, Guarded, Commanding
  <2>3. /\ wpc' \in [Workers -> WPcs] /\ wpc'[w] = p
        /\ \A o \in Workers : o # w => wpc'[o] = wpc[o]
    BY <1>0, <2>1, <2>2, AdvanceFacts, Zenon
  <2>4. crossed' \subseteq Workers
    BY <1>0, <1>3, Zenon DEF HTypeOK, Cross
  <2>5. HTypeOK'
    BY <1>0, <1>3, <2>3, <2>4, Zenon DEF HTypeOK, Command, Look
  <2>6. BusyIsHeld' /\ AloneInv'
    BY <1>0, <1>3, <2>2, <2>3, CommandInv, Zenon DEF Command, Look
  <2> QED BY <2>5, <2>6, Zenon DEF HInv
<1>4. \/ (\E code \in {"400", "409"} : Reply(w, code)) /\ UNCHANGED crossed
      \/ Advance(w, "look") /\ UNCHANGED <<response, crossed>>
      \/ (\E p \in {"cmdclose", "cmdopen", "cmdstart"} : Advance(w, p)) /\ Cross /\ UNCHANGED response
  BY Zenon DEF Command, Look
<1> QED BY <1>1, <1>2, <1>3, <1>4, Zenon

\* dispenseCoins resets the counter that an alone purchase shares with nobody.
LEMMA StartMotorInv ==
  ASSUME HInv, NEW w \in Workers, StartMotor(w)
  PROVE  HInv'
<1>0. HTypeOK /\ wpc[w] \in {"start", "pay", "cmdstart", "cmdpay"} /\ fallen[w] \in Nat
  BY Zenon DEF HInv, HTypeOK, StartMotor, Paying
<1>1. CASE wpc[w] \in {"start", "pay"}
  <2>1. "pay" \in WPcs /\ "pay" \in Guarded /\ wpc[w] \in Guarded /\ Advance(w, "pay")
    BY <1>1, Zenon DEF WPcs, Guarded, StartMotor
  <2>2. /\ wpc' \in [Workers -> WPcs] /\ wpc'[w] = "pay"
        /\ \A o \in Workers : o # w => wpc'[o] = wpc[o]
    BY <1>0, <2>1, AdvanceFacts, Zenon
  <2>3. HTypeOK'
    BY <1>0, <2>2, Zenon DEF HTypeOK, StartMotor
  <2>4. Alone(w)' => \A o \in Workers : wpc'[o] \notin Commanding
    BY <1>1, <2>1, <2>2, Zenon DEF HInv, AloneInv, Alone, StartMotor, Commanding
  <2>5. pulses' <= fallen'[w]
    BY <1>0 DEF StartMotor
  <2>6. BusyIsHeld' /\ AloneInv'
    BY <2>1, <2>2, <2>4, <2>5, HolderInv, Zenon DEF StartMotor
  <2> QED BY <2>3, <2>6, Zenon DEF HInv
<1>2. CASE wpc[w] \in {"cmdstart", "cmdpay"}
  <2>1. /\ "cmdpay" \in WPcs /\ "cmdpay" \notin Guarded /\ wpc[w] \notin Guarded
        /\ wpc[w] \in Commanding /\ Advance(w, "cmdpay")
    BY <1>2, Zenon DEF WPcs, Guarded, Commanding, StartMotor
  <2>2. /\ wpc' \in [Workers -> WPcs] /\ wpc'[w] = "cmdpay"
        /\ \A o \in Workers : o # w => wpc'[o] = wpc[o]
    BY <1>0, <2>1, AdvanceFacts, Zenon
  <2>3. HTypeOK'
    BY <1>0, <2>2, Zenon DEF HTypeOK, StartMotor
  <2>4. BusyIsHeld' /\ AloneInv'
    BY <2>1, <2>2, CommandInv, Zenon DEF StartMotor
  <2> QED BY <2>3, <2>4, Zenon DEF HInv
<1> QED BY <1>0, <1>1, <1>2, Zenon

\* A coin falls: the only caller counts it at most once.
LEMMA CoinFallsInv == HInv /\ CoinFalls => HInv'
<1> SUFFICES ASSUME HInv, CoinFalls PROVE HInv'
  BY Zenon
<1> DEFINE callers == {w \in Workers : wpc[w] \in Paying}
<1>0. PICK seen \in 0..Cardinality(callers) : pulses' = pulses + seen
  BY Zenon DEF CoinFalls
<1>1. /\ HTypeOK /\ UNCHANGED <<wpc, job, inProgress, shutter, crossed>>
      /\ fallen' = [w \in Workers |-> IF w \in callers THEN fallen[w] + 1 ELSE fallen[w]]
  BY Zenon DEF HInv, CoinFalls
<1>2. seen \in Nat /\ pulses' \in Nat /\ fallen' \in [Workers -> Nat]
  BY <1>0, <1>1 DEF HTypeOK
<1>3. HTypeOK'
  BY <1>1, <1>2, Zenon DEF HTypeOK, CoinFalls
<1>4. BusyIsHeld'
  BY <1>1, Zenon DEF HInv, BusyIsHeld
<1>5. ASSUME NEW w \in Workers, Alone(w)'
      PROVE  /\ \A o \in Workers : wpc'[o] \notin Commanding
             /\ wpc'[w] = "pay" => pulses' <= fallen'[w]
             /\ wpc'[w] \in {"open", "present", "close", "answer"} => fallen'[w] >= job'[w].coins
             /\ wpc'[w] = "answer" => shutter' = "closed"
  <2>1. /\ Alone(w) /\ \A o \in Workers : wpc[o] \notin Commanding
        /\ wpc[w] = "pay" => pulses <= fallen[w]
        /\ wpc[w] \in {"open", "present", "close", "answer"} => fallen[w] >= job[w].coins
        /\ wpc[w] = "answer" => shutter = "closed"
    BY <1>1, <1>5, Zenon DEF HInv, AloneInv, Alone
  <2>2. \A o \in Workers : wpc[o] \notin Commanding /\ (wpc[o] \in Guarded => o = w)
    BY <2>1, Zenon DEF HInv, BusyIsHeld, Alone
  <2>3. wpc[w] = "pay" => pulses' <= fallen'[w]
    <3> SUFFICES ASSUME wpc[w] = "pay" PROVE pulses' <= fallen'[w]
      BY Zenon
    <3>1. callers = {w}
      BY <2>2, Zenon DEF Paying, Guarded, Commanding
    <3>2. seen \in 0..1
      BY <1>0, <3>1, FS_Singleton, Zenon
    <3>3. fallen'[w] = fallen[w] + 1 /\ fallen[w] \in Nat /\ pulses \in Nat
      BY <1>1, <3>1, Zenon DEF HTypeOK
    <3> QED BY <1>0, <2>1, <3>2, <3>3
  <2>4. wpc[w] # "pay" => fallen'[w] = fallen[w]
    BY <1>1, <2>2, Zenon DEF Paying, Commanding
  <2> QED BY <1>1, <2>1, <2>2, <2>3, <2>4, Zenon
<1>6. AloneInv'
  BY <1>5, Zenon DEF AloneInv
<1> QED BY <1>3, <1>4, <1>6, Zenon DEF HInv

\* A command ends.
LEMMA CommandEndsInv ==
  ASSUME HInv, NEW w \in Workers, wpc[w] \in Commanding, Reply(w, "done"),
         motor' \in BOOLEAN, shutter' \in {"closed", "open", "ajar"},
         UNCHANGED <<job, inProgress, tokens, disabled, pulses, posts, fallen, crossed>>
  PROVE  HInv'
<1>1. "done" \in Answers /\ wpc[w] \notin Guarded /\ "free" \notin Guarded
  BY Zenon DEF Answers, Guarded, Commanding
<1>2. /\ wpc' \in [Workers -> WPcs] /\ response' \in [Workers -> Answers] /\ wpc'[w] = "free"
      /\ \A o \in Workers : o # w => wpc'[o] = wpc[o]
  BY <1>1, ReplyFacts, Zenon DEF HInv
<1>3. HTypeOK'
  BY <1>2, Zenon DEF HInv, HTypeOK
<1>4. BusyIsHeld' /\ AloneInv'
  BY <1>1, <1>2, CommandInv, Zenon
<1> QED BY <1>3, <1>4, Zenon DEF HInv

\* A purchase goes on to point p with its coins counted.
LEMMA GoOnInv ==
  ASSUME HInv, NEW w \in Workers, NEW p \in {"open", "present", "close", "answer"},
         wpc[w] \in Guarded \ {"parse"}, Advance(w, p),
         Alone(w) => fallen[w] >= job[w].coins /\ (p = "answer" => shutter' = "closed"),
         motor' \in BOOLEAN, shutter' \in {"closed", "open", "ajar"},
         UNCHANGED <<job, response, inProgress, tokens, disabled, pulses, posts, fallen, crossed>>
  PROVE  HInv'
<1>1. p \in WPcs /\ p \in Guarded /\ p \notin Commanding /\ p # "pay"
  BY Zenon DEF WPcs, Guarded, Commanding
<1>2. /\ wpc' \in [Workers -> WPcs] /\ wpc'[w] = p
      /\ \A o \in Workers : o # w => wpc'[o] = wpc[o]
  BY <1>1, AdvanceFacts, Zenon DEF HInv
<1>3. HTypeOK'
  BY <1>2, Zenon DEF HInv, HTypeOK
<1>4. Alone(w)' => Alone(w) /\ \A o \in Workers : wpc'[o] \notin Commanding
  BY <1>1, <1>2, Zenon DEF HInv, AloneInv, Alone
<1>5. BusyIsHeld' /\ AloneInv'
  BY <1>1, <1>2, <1>4, HolderInv, Zenon
<1> QED BY <1>3, <1>5, Zenon DEF HInv

\* dispenseCoins ends: only with all coins counted does a purchase go on.
LEMMA StopMotorInv ==
  ASSUME HInv, NEW w \in Workers, StopMotor(w)
  PROVE  HInv'
<1>0. /\ HTypeOK /\ motor' \in BOOLEAN /\ shutter' \in {"closed", "open", "ajar"}
      /\ job[w] \in Jobs /\ fallen[w] \in Nat /\ pulses \in Nat
  BY ServerAssumption, Zenon DEF HInv, HTypeOK, StopMotor
<1>1. CASE wpc[w] = "cmdpay" /\ Reply(w, "done") /\ UNCHANGED inProgress
  BY <1>0, <1>1, CommandEndsInv, Zenon DEF StopMotor, Commanding
<1>2. CASE wpc[w] = "pay" /\ pulses >= job[w].coins /\ Advance(w, "open") /\ UNCHANGED <<response, inProgress>>
  <2>1. wpc[w] \in Guarded \ {"parse"}
    BY <1>2, Zenon DEF Guarded
  <2>2. Alone(w) => pulses <= fallen[w]
    BY <1>2, Zenon DEF HInv, AloneInv
  <2>3. Alone(w) => fallen[w] >= job[w].coins
    BY <1>0, <1>2, <2>2 DEF Jobs
  <2> QED BY <1>0, <1>2, <2>1, <2>3, GoOnInv, Zenon DEF StopMotor
<1>3. CASE wpc[w] = "pay" /\ EndGuard(w, "VOID")
  <2>1. "VOID" \in Answers /\ wpc[w] \in Guarded
    BY <1>3, Zenon DEF Answers, Guarded
  <2> QED BY <1>0, <1>3, <2>1, LeaveInv, Zenon DEF StopMotor
<1> QED BY <1>1, <1>2, <1>3, Zenon DEF StopMotor

\* A shutter motion ends: with nobody else moving, it arrives where it should.
LEMMA MoveInv ==
  ASSUME HInv, NEW w \in Workers, Move(w)
  PROVE  HInv'
<1>0. /\ HTypeOK /\ wpc[w] \in Moving /\ motor' \in BOOLEAN
      /\ UNCHANGED <<job, tokens, disabled, motor, pulses, posts, fallen, crossed>>
  BY Zenon DEF HInv, HTypeOK, Move
<1> DEFINE goal == IF wpc[w] \in {"open", "cmdopen"} THEN "open" ELSE "closed"
           alone == \A o \in Workers \ {w} : wpc[o] \notin Moving
<1>1. PICK arrived \in BOOLEAN :
        /\ shutter' \in IF arrived /\ alone THEN {goal}
                        ELSE IF arrived THEN {"closed", "open", "ajar"}
                        ELSE {shutter, "ajar"}
        /\ \/ wpc[w] \in Commanding /\ Reply(w, "done") /\ UNCHANGED inProgress
           \/ wpc[w] \in Guarded /\ ~arrived /\ EndGuard(w, "VOID")
           \/ /\ wpc[w] \in Guarded /\ arrived
              /\ Advance(w, IF wpc[w] = "open" THEN "present" ELSE "answer")
              /\ UNCHANGED <<response, inProgress>>
  BY Zenon DEF Move
<1>2. shutter' \in {"closed", "open", "ajar"}
  <2>1. shutter \in {"closed", "open", "ajar"} /\ goal \in {"closed", "open", "ajar"}
    BY <1>0, Zenon DEF HTypeOK
  <2> QED BY <1>1, <2>1, Zenon
<1>3. CASE wpc[w] \in Commanding /\ Reply(w, "done") /\ UNCHANGED inProgress
  BY <1>0, <1>2, <1>3, CommandEndsInv, Zenon
<1>4. CASE wpc[w] \in Guarded /\ ~arrived /\ EndGuard(w, "VOID")
  <2>1. "VOID" \in Answers
    BY Zenon DEF Answers
  <2> QED BY <1>0, <1>2, <1>4, <2>1, LeaveInv, Zenon
<1>5. CASE wpc[w] \in Guarded /\ arrived /\ UNCHANGED <<response, inProgress>>
           /\ Advance(w, IF wpc[w] = "open" THEN "present" ELSE "answer")
  <2> DEFINE p == IF wpc[w] = "open" THEN "present" ELSE "answer"
  <2>1. /\ wpc[w] \in {"open", "close"} /\ wpc[w] \in Guarded \ {"parse"}
        /\ p \in {"open", "present", "close", "answer"}
    BY <1>0, <1>5, Zenon DEF Moving, Guarded
  <2>2. Alone(w) => fallen[w] >= job[w].coins
    BY <2>1, Zenon DEF HInv, AloneInv
  <2>3. Alone(w) => alone
    <3>1. Alone(w) => \A o \in Workers : wpc[o] \notin Commanding /\ (wpc[o] \in Guarded => o = w)
      BY <2>1, Zenon DEF HInv, AloneInv, BusyIsHeld
    <3>2. Moving \subseteq Guarded \cup Commanding
      BY Zenon DEF Moving, Guarded, Commanding
    <3> QED BY <3>1, <3>2, Zenon
  <2>4. Alone(w) /\ p = "answer" => shutter' = "closed"
    BY <1>1, <1>5, <2>1, <2>3, Zenon
  <2> QED BY <1>0, <1>2, <1>5, <2>1, <2>2, <2>4, GoOnInv, Zenon
<1> QED BY <1>1, <1>3, <1>4, <1>5, Zenon

\* Time refills the limiters, and the fleet manager changes its mind.
LEMMA OtherInv ==
  ASSUME HInv, (\E r \in {"txn", "command"} : RefillTokens(r)) \/ SetDisabled \/ UNCHANGED hvars
  PROVE  HInv'
<1>1. tokens' \in [{"txn", "command"} -> 0..Capacity]
  BY ServerAssumption DEF HInv, HTypeOK, RefillTokens, SetDisabled, hvars
<1>2. disabled' \in BOOLEAN
  BY Zenon DEF HInv, HTypeOK, RefillTokens, SetDisabled, hvars
<1>3. UNCHANGED <<wpc, job, response, inProgress, motor, pulses, shutter, posts, fallen, crossed>>
  BY Zenon DEF RefillTokens, SetDisabled, hvars
<1>4. HTypeOK'
  BY <1>1, <1>2, <1>3, Zenon DEF HInv, HTypeOK
<1>5. BusyIsHeld'
  BY <1>3, Zenon DEF HInv, BusyIsHeld
<1>6. AloneInv'
  BY <1>3, Zenon DEF HInv, AloneInv, Alone
<1> QED BY <1>4, <1>5, <1>6, Zenon DEF HInv

\* Every step of the server preserves the invariant.
LEMMA ServeStepInv == HInv /\ [HNext]_hvars => HInv'
<1> SUFFICES ASSUME HInv, [HNext]_hvars PROVE HInv'
  BY Zenon
<1>1. CASE \E w \in Workers, j \in Requests : Dispatch(w, j)
  BY <1>1, DispatchInv, Zenon
<1>2. CASE \E w \in Workers : Serve(w) \/ StartMotor(w)
  BY <1>2, GateInv, AcquireInv, ParseInv, EndInv, LookInv, StartMotorInv, StopMotorInv, MoveInv, Zenon DEF Serve
<1>3. CASE CoinFalls
  BY <1>3, CoinFallsInv, Zenon
<1> QED BY <1>1, <1>2, <1>3, OtherInv, Zenon DEF HNext

(***************************************************************************)
(* The inductive invariant of the local API.                               *)
(***************************************************************************)
THEOREM ServeInvariance == HSpec => []HInv
BY ServeInitInv, ServeStepInv, PTL DEF HSpec

(***************************************************************************)
(* in_progress_ is set exactly while one worker serves a /txn request.     *)
(***************************************************************************)
THEOREM BusyFlagIsExact == HSpec => []BusyIsHeld
<1>1. HInv => BusyIsHeld
  BY Zenon DEF HInv
<1> QED BY <1>1, ServeInvariance, PTL

(***************************************************************************)
(* A /txn answered OK, and not crossed by a command, has paid its coins    *)
(* and closed the shutter.                                                 *)
(***************************************************************************)
THEOREM OkIsPaid == HSpec => []OkMeansPaid
<1>1. HInv => OkMeansPaid
  BY Zenon DEF HInv, AloneInv, Alone, OkMeansPaid, Guarded
<1> QED BY <1>1, ServeInvariance, PTL
=============================================================================
