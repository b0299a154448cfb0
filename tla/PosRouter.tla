----------------------------- MODULE PosRouter -----------------------------
(***************************************************************************)
(* pos::Router::handle with its IdempotencyStore, called by the worker     *)
(* threads of the HTTP connector, on top of the engine that                *)
(* PurchaseContract specifies.                                             *)
(*                                                                         *)
(* A worker walks check -> busy -> pending -> pendline -> call -> run ->   *)
(* release -> done -> doneline and answers; the store keeps a map, under a *)
(* mutex, and a file that is appended to outside the mutex and read back   *)
(* by open() at the next start.  Of the file only the last readable record *)
(* of every key matters.                                                   *)
(***************************************************************************)
EXTENDS PurchaseContract, FiniteSets

CONSTANTS
  Threads,      \* worker threads
  Keys,         \* idempotency keys
  Payloads,     \* price and deposit of a request
  MaxRequests,  \* bound: requests received
  MaxGiven,     \* bound: coins given for one purchase
  MaxFails,     \* bound: crashes
  Storage       \* what may happen to records: a subset of {"full", "torn", "power", "ttl"}

ASSUME RouterAssumption ==
  /\ MaxRequests \in Nat /\ MaxGiven \in Nat /\ MaxFails \in Nat /\ MaxOwed \in Nat
  /\ Storage \subseteq {"full", "torn", "power", "ttl"}

VARIABLES
  up,         \* the connector is listening
  rpc,        \* control point of every worker
  req,        \* its PurchaseRequest
  txn,        \* its local txn: the purchase and how it ended
  busy,       \* Router::busy_
  map,        \* IdempotencyStore::map_
  file,       \* the last readable record of every key in idem.jsonl
  torn,       \* idem.jsonl ends in an unterminated line
  reply,      \* the latest answer of every worker
  requests,   \* requests so far
  fails,      \* crashes so far
  begun,      \* history: the purchases begun for every key
  overlapped, \* history: keys with two requests under way at once
  lost        \* history: keys left without a record by a failed append, a power loss or expiry

rvars == <<up, rpc, req, txn, busy, map, file, torn, reply, requests, fails,
           begun, overlapped, lost>>
vars == <<cvars, rvars>>

None == [status |-> "none"]
NoResult == [id |-> 0, verdict |-> "none"]
Results == [id : Nat, verdict : {"none", "open", "done", "void"}]
Records == {None} \cup [status : {"PENDING", "DONE"}, hash : Payloads, result : Results]
Codes == {"none", "200", "202", "409 mismatch", "409 busy"}
RequestSet == [key : Keys, payload : Payloads]

\* The critical section of the busy guard, and what follows it.
Section == {"pending", "pendline", "call", "run", "release"}
RPcs == {"free", "check", "busy", "done", "doneline"} \cup Section

RTypeOK ==
  /\ est \in {"off", "idle", "busy"} /\ id \in Nat /\ owes \in 0..MaxOwed
  /\ given \in Nat /\ verdict \in {"none", "open", "done", "void"}
  /\ up \in BOOLEAN
  /\ rpc \in [Threads -> RPcs]
  /\ req \in [Threads -> RequestSet]
  /\ txn \in [Threads -> Results]
  /\ busy \in BOOLEAN
  /\ map \in [Keys -> Records]
  /\ file \in [Keys -> Records]
  /\ torn \in BOOLEAN
  /\ reply \in [Threads -> [key : Keys, code : Codes, result : Results]]
  /\ requests \in 0..MaxRequests
  /\ fails \in 0..MaxFails
  /\ begun \in [Keys -> SUBSET Nat]
  /\ overlapped \subseteq Keys
  /\ lost \subseteq Keys

RInit ==
  /\ CInit
  /\ up = FALSE
  /\ rpc = [th \in Threads |-> "free"]
  /\ req \in [Threads -> RequestSet] /\ \A a, b \in Threads : req[a] = req[b]
  /\ txn = [th \in Threads |-> NoResult]
  /\ busy = FALSE
  /\ map = [k \in Keys |-> None]
  /\ file = [k \in Keys |-> None]
  /\ torn = FALSE
  /\ reply = [th \in Threads |-> [key |-> req[th].key, code |-> "none", result |-> NoResult]]
  /\ requests = 0
  /\ fails = 0
  /\ begun = [k \in Keys |-> {}]
  /\ overlapped = {}
  /\ lost = {}

-----------------------------------------------------------------------------
Goto(th, p) == rpc' = [rpc EXCEPT ![th] = p]

Answered(th, code, result) ==
  /\ Goto(th, "free")
  /\ reply' = [reply EXCEPT ![th] = [key |-> req[th].key, code |-> code, result |-> result]]

\* The connector has parsed a request with a key and calls handle.
Receive(th, k, p) ==
  /\ up
  /\ rpc[th] = "free"
  /\ requests < MaxRequests
  /\ requests' = requests + 1
  /\ req' = [req EXCEPT ![th] = [key |-> k, payload |-> p]]
  /\ overlapped' = IF \E o \in Threads : rpc[o] # "free" /\ req[o].key = k
                   THEN overlapped \cup {k} ELSE overlapped
  /\ Goto(th, "check")
  /\ UNCHANGED <<cvars, up, txn, busy, map, file, torn, reply, fails, begun, lost>>

\* Bug: a duplicate waits for the first request to end.
CheckWaits(th) ==
  /\ rpc[th] = "check"
  /\ LET rec == map[req[th].key] IN
       \/ rec = None /\ Goto(th, "busy") /\ UNCHANGED reply
       \/ rec # None /\ rec.hash # req[th].payload /\ Answered(th, "409 mismatch", NoResult)
       \/ /\ rec # None /\ rec.hash = req[th].payload
          /\ rec.status = "DONE" /\ Answered(th, "200", rec.result)
  /\ UNCHANGED <<cvars, up, req, txn, busy, map, file, torn, requests, fails,
                 begun, overlapped, lost>>

Check(th) ==
  /\ rpc[th] = "check"
  /\ LET rec == map[req[th].key] IN
       \/ rec = None /\ Goto(th, "busy") /\ UNCHANGED reply
       \/ rec # None /\ rec.hash # req[th].payload /\ Answered(th, "409 mismatch", NoResult)
       \/ /\ rec # None /\ rec.hash = req[th].payload
          /\ \/ rec.status = "PENDING" /\ Answered(th, "202", NoResult)
             \/ rec.status = "DONE" /\ Answered(th, "200", rec.result)
  /\ UNCHANGED <<cvars, up, req, txn, busy, map, file, torn, requests, fails,
                 begun, overlapped, lost>>

\* busy_.exchange(true)
Exchange(th) ==
  /\ rpc[th] = "busy"
  /\ busy' = TRUE
  /\ \/ busy /\ Answered(th, "409 busy", NoResult)
     \/ ~busy /\ Goto(th, "pending") /\ UNCHANGED reply
  /\ UNCHANGED <<cvars, up, req, txn, map, file, torn, requests, fails,
                 begun, overlapped, lost>>

Record(th, status, result) ==
  [status |-> status, hash |-> req[th].payload, result |-> result]

\* Bug: nothing is recorded before the purchase.
PutPendingSkipped(th) ==
  /\ rpc[th] = "pending"
  /\ Goto(th, "call")
  /\ UNCHANGED <<cvars, up, req, txn, busy, map, file, torn, reply, requests, fails,
                 begun, overlapped, lost>>

\* put_pending and put_done: the map under the mutex, then the file.
PutPending(th) ==
  /\ rpc[th] = "pending"
  /\ map' = [map EXCEPT ![req[th].key] = Record(th, "PENDING", NoResult)]
  /\ Goto(th, "pendline")
  /\ UNCHANGED <<cvars, up, req, txn, busy, file, torn, reply, requests, fails,
                 begun, overlapped, lost>>

\* The keys that have a record in the file.
Recorded == {k \in Keys : file[k] # None}

(***************************************************************************)
(* One line for the file.  Behind an unterminated line it is unreadable,   *)
(* and on a full disk it is not written, or in part; nobody notices.       *)
(***************************************************************************)
Line(th, rec) ==
  LET k == req[th].key IN
    \/ /\ ~torn
       /\ file' = [file EXCEPT ![k] = rec]
       /\ UNCHANGED <<torn, lost>>
    \/ /\ torn
       /\ torn' = FALSE
       /\ lost' = lost \cup ({k} \ Recorded)
       /\ UNCHANGED file
    \/ /\ "full" \in Storage
       /\ torn' \in {torn, TRUE}
       /\ lost' = lost \cup ({k} \ Recorded)
       /\ UNCHANGED file

AppendPending(th) ==
  /\ rpc[th] = "pendline"
  /\ Line(th, Record(th, "PENDING", NoResult))
  /\ Goto(th, "call")
  /\ UNCHANGED <<cvars, up, req, txn, busy, map, reply, requests, fails,
                 begun, overlapped>>

RunPurchase(th) ==
  /\ rpc[th] = "call"
  /\ \E q \in 0..MaxOwed : Begin(q)
  /\ begun' = [begun EXCEPT ![req[th].key] = @ \cup {id + 1}]
  /\ Goto(th, "run")
  /\ UNCHANGED <<up, req, txn, busy, map, file, torn, reply, requests, fails,
                 overlapped, lost>>

ReturnTxn(th) ==
  /\ rpc[th] = "run"
  /\ Answer
  /\ txn' = [txn EXCEPT ![th] = [id |-> id, verdict |-> verdict]]
  /\ Goto(th, "release")
  /\ UNCHANGED <<up, req, busy, map, file, torn, reply, requests, fails,
                 begun, overlapped, lost>>

\* busy_.store(false); the publisher is called before the worker goes on.
Release(th) ==
  /\ rpc[th] = "release"
  /\ busy' = FALSE
  /\ Goto(th, "done")
  /\ UNCHANGED <<cvars, up, req, txn, map, file, torn, reply, requests, fails,
                 begun, overlapped, lost>>

PutDone(th) ==
  /\ rpc[th] = "done"
  /\ map' = [map EXCEPT ![req[th].key] = Record(th, "DONE", txn[th])]
  /\ Goto(th, "doneline")
  /\ UNCHANGED <<cvars, up, req, txn, busy, file, torn, reply, requests, fails,
                 begun, overlapped, lost>>

AppendDone(th) ==
  /\ rpc[th] = "doneline"
  /\ Line(th, Record(th, "DONE", txn[th]))
  /\ Answered(th, "200", txn[th])
  /\ UNCHANGED <<cvars, up, req, txn, busy, map, requests, fails, begun, overlapped>>

Worker(th) ==
  \/ Check(th) \/ Exchange(th) \/ PutPending(th) \/ AppendPending(th)
  \/ RunPurchase(th) \/ ReturnTxn(th) \/ Release(th) \/ PutDone(th) \/ AppendDone(th)

-----------------------------------------------------------------------------
\* The engine at work for a worker, or for resume_if_needed before the connector is up.
GiveCoin == given < MaxGiven /\ Give /\ UNCHANGED rvars
SettleTxn == (\E v \in {"done", "void"} : Settle(v)) /\ UNCHANGED rvars
ResumeEnds == ~up /\ Answer /\ UNCHANGED rvars
ResumeBegins == Restart /\ UNCHANGED rvars
Resume == ResumeEnds \/ ResumeBegins

(***************************************************************************)
(* The process dies: workers, map and busy flag are gone, an append under  *)
(* way may be cut short, and with the power go lines that were not synced. *)
(***************************************************************************)
Die ==
  /\ fails < MaxFails
  /\ fails' = fails + 1
  /\ Fail
  /\ up' = FALSE
  /\ rpc' = [th \in Threads |-> "free"]
  /\ txn' = [th \in Threads |-> NoResult]
  /\ busy' = FALSE
  /\ map' = [k \in Keys |-> None]
  /\ torn' \in {torn} \cup {x \in {TRUE} : "torn" \in Storage
                              /\ \E th \in Threads : rpc[th] \in {"pendline", "doneline"}}
  /\ \E gone \in SUBSET {k \in Recorded : "power" \in Storage} :
       /\ file' = [k \in Keys |-> IF k \in gone THEN None ELSE file[k]]
       /\ lost' = lost \cup gone
  /\ UNCHANGED <<req, reply, requests, begun, overlapped>>

\* main, after resume_if_needed: IdempotencyStore::open() and the connector.
OpenStore ==
  /\ ~up
  /\ est = "idle"
  /\ up' = TRUE
  /\ \E expired \in SUBSET {k \in Recorded : "ttl" \in Storage} :
       /\ file' = [k \in Keys |-> IF k \in expired THEN None ELSE file[k]]
       /\ lost' = lost \cup expired
  /\ map' = file'
  /\ UNCHANGED <<cvars, rpc, req, txn, busy, torn, reply, requests, fails,
                 begun, overlapped>>

RNext ==
  \/ \E th \in Threads, k \in Keys, p \in Payloads : Receive(th, k, p)
  \/ \E th \in Threads : Worker(th)
  \/ GiveCoin
  \/ SettleTxn
  \/ Resume
  \/ Die
  \/ OpenStore

RSpec == RInit /\ [][RNext]_vars

\* Workers are scheduled, and run_purchase ends.
RFairSpec == RSpec /\ (\A th \in Threads : WF_vars(Worker(th))) /\ WF_vars(SettleTxn)

-----------------------------------------------------------------------------
(***************************************************************************)
(* busy_ keeps the engine to one caller: no two workers are between the    *)
(* exchange and the store, and run_purchase is only entered when the       *)
(* engine is idle, also right after a restart with a resumption.           *)
(***************************************************************************)
EngineHasOneCaller ==
  /\ \A a, b \in Threads : rpc[a] \in Section /\ rpc[b] \in Section => a = b
  /\ \A th \in Threads : rpc[th] = "call" => est = "idle"

(***************************************************************************)
(* However often a request is retried, and whatever crashes and restarts   *)
(* come between, one key pays once: unless two requests with this key were *)
(* under way at once, or the record of the key was lost or has expired.    *)
(***************************************************************************)
RetriesPayOnce ==
  \A k \in Keys \ (overlapped \cup lost) : \A i, j \in begun[k] : i = j

(***************************************************************************)
(* A 200, fresh or replayed from the store, names a purchase that was made *)
(* for this key and that is settled.                                       *)
(***************************************************************************)
ReplayIsOwn ==
  \A th \in Threads : reply[th].code = "200" =>
    LET i == reply[th].result.id IN
      /\ i \in begun[reply[th].key]
      /\ i < id \/ (i = id /\ verdict = reply[th].result.verdict)

(***************************************************************************)
(* Liveness: a worker that took a request answers it, or dies.             *)
(***************************************************************************)
RequestsEnd == \A th \in Threads : rpc[th] # "free" ~> rpc[th] = "free"

-----------------------------------------------------------------------------
(***************************************************************************)
(* "Both make use of idempotency keys to guard against double dispensing"  *)
(* (docs/POS_Contracts.md:5).                                              *)
(***************************************************************************)
KeyPaysOnce == \A k \in Keys : \A i, j \in begun[k] : i = j
=============================================================================
