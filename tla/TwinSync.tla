------------------------------ MODULE TwinSync ------------------------------
(***************************************************************************)
(* The device twin of one drawer: FleetManager::submit_update, the HTTP    *)
(* client with its offline queue (http_device_twin_client.cpp) and the     *)
(* twin server (twin_contract_server.cpp), over a network that loses       *)
(* requests and answers and delivers a request after its sender gave up.   *)
(*                                                                         *)
(* A caller of submit_update and the caller of flush_offline_queue run in  *)
(* threads of their own.  Neither holds a mutex while it waits for an      *)
(* answer; the mutex of the client covers the queue, that of the manager   *)
(* the twins.  The queue and the twin are saved by the step that changes   *)
(* them; a file that a crash left half written is ignored by load_queue    *)
(* and load_store.  Of the twin its revision and its flags are modelled.   *)
(***************************************************************************)
EXTENDS Naturals, Sequences

CONSTANTS
  Submitters,   \* threads that call submit_update
  Flusher,      \* the thread that calls flush_offline_queue
  MaxRevision,  \* bound: revisions
  MaxDepth      \* config_.max_queue_depth

ASSUME TwinAssumption == MaxRevision \in Nat /\ MaxDepth \in Nat \ {0} /\ Flusher \notin Submitters

VARIABLES
  remote,    \* twins_ of the server: revision and disabled
  twin,      \* twins_ of the manager
  offline,   \* offline_queue_
  call,      \* the call that each thread is in
  wire,      \* requests on the way to the server
  taken,     \* history: updates that the server took
  owed,      \* history: updates that were queued
  pushedOut  \* history: whether a full queue has dropped an update

tvars == <<remote, twin, offline, call, wire, taken, owed, pushedOut>>

Threads == Submitters \cup {Flusher}
Revisions == 0..MaxRevision + 1
Updates == [rev : Revisions, by : Submitters]
Outcomes == {"ok", "conflict", "disabled", "unavailable"}
Idle0 == [pc |-> "idle", rev |-> 0, by |-> Flusher, dis |-> FALSE, out |-> "", theirs |-> 0]

(* Every thread is at a step of its call and the queue holds updates.      *)
TwTypeOK ==
  /\ remote \in [rev : Revisions, disabled : BOOLEAN]
  /\ twin.rev \in Revisions
  /\ twin.sync \in {"synced", "conflict", "disabled", "sync_failed", "local"}
  /\ offline \in Seq(Updates) /\ Len(offline) <= MaxDepth
  /\ \A t \in Threads : call[t].pc \in {"idle", "check", "push", "wait", "settle", "store", "pop"}
  /\ \A m \in wire : m.rev \in Revisions /\ m.from \in Threads

(* The drawer is enrolled and its first revision is on the server. *)
TwInit ==
  /\ remote = [rev |-> 1, disabled |-> FALSE]
  /\ twin = [rev |-> 1, sync |-> "synced", disabled |-> FALSE, conflict |-> FALSE, theirs |-> 1]
  /\ offline = <<>> /\ call = [t \in Threads |-> Idle0] /\ wire = {}
  /\ taken = {} /\ owed = {} /\ pushedOut = FALSE

Step(t, pc) == call' = [call EXCEPT ![t].pc = pc]
EndCall(t) == call' = [call EXCEPT ![t] = Idle0]
-----------------------------------------------------------------------------
(***************************************************************************)
(* submit_update.                                                          *)
(***************************************************************************)
submit_update(s) ==
  /\ call[s].pc = "idle" /\ twin.rev < MaxRevision
  /\ call' = [call EXCEPT ![s] = [Idle0 EXCEPT !.pc = "check", !.rev = twin.rev, !.by = s,
                                               !.dis = twin.disabled, !.theirs = twin.theirs]]
  /\ UNCHANGED <<remote, twin, offline, wire, taken, owed, pushedOut>>

(* is_device_disabled: a server that cannot be reached answers no. *)
is_device_disabled(s, reached) ==
  /\ call[s].pc = "check"
  /\ IF reached /\ remote.disabled
     THEN /\ twin' = [rev |-> call[s].rev, sync |-> "disabled", disabled |-> TRUE,
                      conflict |-> FALSE, theirs |-> call[s].theirs]
          /\ EndCall(s)
     ELSE /\ IF call[s].dis THEN EndCall(s) ELSE Step(s, "push")
          /\ UNCHANGED twin
  /\ UNCHANGED <<remote, offline, wire, taken, owed, pushedOut>>

push_now(t) ==
  /\ call[t].pc = "push"
  /\ wire' = wire \cup {[from |-> t, late |-> FALSE, by |-> call[t].by,
                         rev |-> IF t = Flusher THEN call[t].rev ELSE call[t].rev + 1]}
  /\ Step(t, "wait")
  /\ UNCHANGED <<remote, twin, offline, taken, owed, pushedOut>>

Answer(m) ==
  IF remote.disabled THEN "disabled"
  ELSE IF m.rev <= remote.rev THEN "conflict" ELSE "ok"

(* The handler of the server; a sender that still waits hears the answer,  *)
(* unless it is lost. *)
PostTwin(m, heard) ==
  /\ m \in wire /\ wire' = wire \ {m}
  /\ remote' = IF Answer(m) = "ok" THEN [remote EXCEPT !.rev = m.rev] ELSE remote
  /\ taken' = IF Answer(m) = "ok" THEN taken \cup {[rev |-> m.rev, by |-> m.by]} ELSE taken
  /\ call' = IF heard /\ ~m.late
             THEN [call EXCEPT ![m.from].pc = IF m.from = Flusher THEN "pop" ELSE "settle",
                               ![m.from].out = Answer(m),
                               ![m.from].theirs = IF remote.disabled THEN @ ELSE remote'.rev]
             ELSE call
  /\ UNCHANGED <<twin, offline, owed, pushedOut>>

(* The sender gives up; what it sent is lapsed or still on its way. *)
TimeOut(t, lapsed) ==
  /\ call[t].pc = "wait"
  /\ LET mine == {m \in wire : m.from = t /\ ~m.late}
     IN wire' = (wire \ mine) \cup (IF lapsed THEN {} ELSE {[m EXCEPT !.late = TRUE] : m \in mine})
  /\ call' = [call EXCEPT ![t].pc = IF t = Flusher THEN "pop" ELSE "settle",
                          ![t].out = "unavailable"]
  /\ UNCHANGED <<remote, twin, offline, taken, owed, pushedOut>>

enqueue_locked(u) ==
  LET full == Len(offline) >= MaxDepth
  IN /\ offline' = Append(IF full THEN Tail(offline) ELSE offline, u)
     /\ owed' = owed \cup {u}
     /\ pushedOut' = (pushedOut \/ full)

(* push_twin, after the answer: only a conflict is not queued. *)
push_twin(s) ==
  /\ call[s].pc = "settle" /\ s \in Submitters
  /\ IF call[s].out \in {"ok", "conflict"}
     THEN UNCHANGED <<offline, owed, pushedOut>>
     ELSE enqueue_locked([rev |-> call[s].rev + 1, by |-> s])
  /\ Step(s, "store")
  /\ UNCHANGED <<remote, twin, wire, taken>>

Synced(s) ==
  LET out == call[s].out
  IN [rev |-> call[s].rev + 1, disabled |-> out = "disabled", conflict |-> out = "conflict",
      sync |-> CASE out = "ok" -> "synced" [] out = "unavailable" -> "sync_failed" [] OTHER -> out,
      theirs |-> call[s].theirs]

StoreTwin(s) ==
  /\ call[s].pc = "store"
  /\ twin' = Synced(s)
  /\ EndCall(s)
  /\ UNCHANGED <<remote, offline, wire, taken, owed, pushedOut>>
-----------------------------------------------------------------------------
(***************************************************************************)
(* flush_offline_queue, the administrator, and crashes.                    *)
(***************************************************************************)
flush_offline_queue ==
  /\ call[Flusher].pc = "idle" /\ offline # <<>>
  /\ call' = [call EXCEPT ![Flusher] = [Idle0 EXCEPT !.pc = "push", !.rev = Head(offline).rev,
                                                     !.by = Head(offline).by]]
  /\ UNCHANGED <<remote, twin, offline, wire, taken, owed, pushedOut>>

\* Bug: the front is popped whatever the answer was.
FlushPopAny ==
  /\ call[Flusher].pc = "pop"
  /\ offline' = Tail(offline)
  /\ EndCall(Flusher)
  /\ UNCHANGED <<remote, twin, wire, taken, owed, pushedOut>>

(* The front is popped, whatever it is by now; any failure ends the flush. *)
FlushPop ==
  /\ call[Flusher].pc = "pop"
  /\ offline' = IF call[Flusher].out = "ok" THEN Tail(offline) ELSE offline
  /\ EndCall(Flusher)
  /\ UNCHANGED <<remote, twin, wire, taken, owed, pushedOut>>

disable_device ==
  /\ ~remote.disabled /\ remote' = [remote EXCEPT !.disabled = TRUE]
  /\ UNCHANGED <<twin, offline, call, wire, taken, owed, pushedOut>>

(* The drawer loses power and starts again; load_queue and load_store      *)
(* start empty after a torn file. *)
DrawerCrash(queueTorn, twinTorn) ==
  /\ call' = [t \in Threads |-> Idle0]
  /\ wire' = {[m EXCEPT !.late = TRUE] : m \in wire}
  /\ offline' = IF queueTorn THEN <<>> ELSE offline
  /\ owed' = IF queueTorn THEN {} ELSE owed
  /\ twin' = IF twinTorn THEN [rev |-> 0, sync |-> "local", disabled |-> FALSE,
                               conflict |-> FALSE, theirs |-> 0] ELSE twin
  /\ UNCHANGED <<remote, taken, pushedOut>>

FlushSteps == flush_offline_queue \/ push_now(Flusher) \/ FlushPop

TwCalls ==
  \/ \E s \in Submitters :
       \/ submit_update(s) \/ push_now(s) \/ push_twin(s) \/ StoreTwin(s)
       \/ \E reached \in BOOLEAN : is_device_disabled(s, reached)
  \/ FlushSteps
  \/ \E m \in wire, heard \in BOOLEAN : PostTwin(m, heard)
  \/ \E t \in Threads, lapsed \in BOOLEAN : TimeOut(t, lapsed)
  \/ disable_device

TwNext == TwCalls \/ \E queueTorn, twinTorn \in BOOLEAN : DrawerCrash(queueTorn, twinTorn)

TwSpec == TwInit /\ [][TwNext]_tvars

(* The caller of flush_offline_queue calls it again and again, a request   *)
(* that is not answered times out, and of the requests that are repeated   *)
(* forever the server answers some; the drawer stays up.                   *)
TwFairSpec ==
  /\ TwInit /\ [][TwCalls]_tvars /\ WF_tvars(FlushSteps)
  /\ WF_tvars(\E lapsed \in BOOLEAN : TimeOut(Flusher, lapsed))
  /\ SF_tvars(\E m \in wire : m.from = Flusher /\ PostTwin(m, TRUE))
-----------------------------------------------------------------------------
(***************************************************************************)
(* Properties.                                                             *)
(***************************************************************************)
(* The server only moves forward: retries, replays from the queue and      *)
(* requests that arrive late never bring an older revision back, and after *)
(* disable_device none changes the twin at all.                            *)
RemoteRises ==
  [][/\ remote'.rev >= remote.rev
     /\ remote.disabled => remote' = remote]_tvars

(* The drawer's account of the server is true.  A twin that the manager    *)
(* shows as synced is on the server, or a newer one is; the remote         *)
(* revision it shows was there; and an update that was queued stays queued *)
(* until the server has taken it, whatever crashes, as long as the queue   *)
(* has not been full.                                                      *)
AccountIsTrue ==
  /\ twin.sync = "synced" => remote.rev >= twin.rev
  /\ twin.theirs <= remote.rev
  /\ \A u \in owed : pushedOut \/ u \in taken \/ \E i \in DOMAIN offline : offline[i] = u

(* The queue is replayed once the server can be reached again.             *)
QueueDrains == offline # <<>> ~> (offline = <<>> \/ remote.disabled)
=============================================================================
