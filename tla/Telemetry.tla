------------------------------ MODULE Telemetry ------------------------------
(***************************************************************************)
(* Telemetry of the drawer: the client (cloud/iot_client.cpp) publishes to *)
(* the broker or, when that fails, into a queue of files                   *)
(* (cloud/disk_queue.cpp) which a background thread empties.  Publisher    *)
(* and background thread share the queue without a lock, so the additions  *)
(* to bytes_ are loads and stores that interleave.                         *)
(*                                                                         *)
(* A message takes one unit of space.  Files keep the order of their names *)
(* over a restart: fewer than ten messages share a millisecond.            *)
(***************************************************************************)
EXTENDS Naturals, Sequences

CONSTANTS
  Messages,     \* transactions, health reports and reported shadow states
  MaxBytes,     \* max_queue_bytes
  Width,        \* bytes_ is an unsigned number below Width
  MaxCrashes,   \* bound: crashes of the process
  MaxUnheard    \* bound: publications whose acknowledgement is lost

NoMsg == "none"

(* The limit is far below 2^64. *)
ASSUME TelemetryAssumption ==
  MaxBytes \in Nat /\ Width \in Nat /\ MaxBytes + 1 < Width /\ NoMsg \notin Messages

VARIABLES
  broker,     \* can the broker be reached
  connected,  \* is_connected of the client
  files,      \* the directory of the queue, in the order of its names
  bytes,      \* bytes_
  pub,        \* the publisher's call: [at, msg, seen]
  flush,      \* the background thread: [at, seen]
  accepted,   \* history: messages whose publish_txn call returned true
  refused,    \* history: those for which it returned false
  sent,       \* history: messages that reached the broker
  again,      \* history: how often one reached it that had been there before
  crashes, unheard,
  raced       \* history: an update of bytes_ was lost, and the queue may be too long for it

qvars == <<broker, connected, files, bytes, pub, flush, accepted, refused, sent, again, crashes, unheard, raced>>

Files == [msg : Messages, torn : {"no", "header", "payload"}]
PubIdle == [at |-> "idle", msg |-> NoMsg, seen |-> 0]
FlushIdle == [at |-> "idle", seen |-> 0]

(* bytes_ keeps its width, and a message in a call is not yet decided.     *)
QTypeOK ==
  /\ connected => broker
  /\ \A i \in DOMAIN files : files[i] \in Files
  /\ bytes \in 0..Width - 1 /\ pub.seen \in 0..Width - 1 /\ flush.seen \in 0..Width - 1
  /\ pub.at \in {"idle", "enqueue", "load", "store"} /\ flush.at \in {"idle", "remove"}
  /\ pub.msg \in (Messages \cup {NoMsg}) \ (accepted \cup refused)
  /\ flush.at = "remove" => files # <<>>

QInit ==
  /\ broker \in BOOLEAN /\ connected = broker
  /\ files = <<>> /\ bytes = 0 /\ pub = PubIdle /\ flush = FlushIdle
  /\ accepted = {} /\ refused = {} /\ sent = {} /\ again = 0
  /\ crashes = 0 /\ unheard = 0 /\ raced = FALSE
-----------------------------------------------------------------------------
(* External: the network and the broker. *)
Network(up) ==
  /\ broker # up /\ broker' = up /\ connected' = (connected /\ up)
  /\ UNCHANGED <<files, bytes, pub, flush, accepted, refused, sent, again, crashes, unheard, raced>>

Published(m) == sent' = sent \cup {m} /\ again' = IF m \in sent THEN again + 1 ELSE again

Unheard(heard) ==
  IF heard THEN UNCHANGED unheard ELSE unheard < MaxUnheard /\ unheard' = unheard + 1
-----------------------------------------------------------------------------
(* publish_txn, publish_health, publish_reported: to the broker, or else   *)
(* on to the queue.                                                        *)
publish_txn(m, heard) ==
  /\ pub = PubIdle /\ m \notin accepted \cup refused
  /\ IF connected
     THEN Published(m) /\ Unheard(heard)
     ELSE ~heard /\ UNCHANGED <<sent, again, unheard>>
  /\ IF heard
     THEN accepted' = accepted \cup {m} /\ UNCHANGED pub
     ELSE pub' = [pub EXCEPT !.at = "enqueue", !.msg = m] /\ UNCHANGED accepted
  /\ UNCHANGED <<broker, connected, files, bytes, flush, refused, crashes, raced>>

(* The keys of a shadow delta that parse_desired knows are handed to the   *)
(* callback and reported back; a delta without them is ignored.            *)
DesiredKeys == {"hopper.pulses_per_coin", "presentation.present_ms"}
parse_desired(delta) == delta \cap DesiredKeys

on_shadow_delta_(delta, m, heard) ==
  /\ parse_desired(delta) # {}
  /\ publish_txn(m, heard)

Fits == (bytes + 1) % Width <= MaxBytes

enqueue ==
  /\ pub.at = "enqueue"
  /\ IF Fits
     THEN /\ files' = Append(files, [msg |-> pub.msg, torn |-> "no"])
          /\ pub' = [pub EXCEPT !.at = "load"] /\ UNCHANGED refused
     ELSE /\ refused' = refused \cup {pub.msg}
          /\ pub' = PubIdle /\ UNCHANGED files
  /\ UNCHANGED <<broker, connected, bytes, flush, accepted, sent, again, crashes, unheard, raced>>

(* bytes_ += need, and the call returns true. *)
CountLoad ==
  /\ pub.at = "load" /\ pub' = [pub EXCEPT !.at = "store", !.seen = bytes]
  /\ UNCHANGED <<broker, connected, files, bytes, flush, accepted, refused, sent, again, crashes, unheard, raced>>

CountStore ==
  /\ pub.at = "store" /\ bytes' = (pub.seen + 1) % Width
  /\ raced' = (raced \/ bytes # pub.seen)
  /\ accepted' = accepted \cup {pub.msg} /\ pub' = PubIdle
  /\ UNCHANGED <<broker, connected, files, flush, refused, sent, again, crashes, unheard>>
-----------------------------------------------------------------------------
(* The background thread: connect, or try_flush. *)
Connect ==
  /\ broker /\ ~connected /\ flush = FlushIdle /\ connected' = TRUE
  /\ UNCHANGED <<broker, files, bytes, pub, flush, accepted, refused, sent, again, crashes, unheard, raced>>

\* Bug: an unreadable file stays at the head of the queue.
DropTornNever == FALSE /\ UNCHANGED qvars

(* A file whose header cannot be read is removed; bytes_ keeps its size. *)
DropTorn ==
  /\ connected /\ flush = FlushIdle /\ files # <<>> /\ Head(files).torn = "header"
  /\ files' = Tail(files)
  /\ UNCHANGED <<broker, connected, bytes, pub, flush, accepted, refused, sent, again, crashes, unheard, raced>>

\* Bug: the file is removed without a look at the connection.
FlushPublishBlind(heard) ==
  /\ flush = FlushIdle /\ files # <<>> /\ Head(files).torn # "header"
  /\ IF connected /\ Head(files).torn = "no" THEN Published(Head(files).msg) ELSE UNCHANGED <<sent, again>>
  /\ Unheard(heard)
  /\ flush' = [at |-> "remove", seen |-> bytes]
  /\ UNCHANGED <<broker, connected, files, bytes, pub, accepted, refused, crashes, raced>>

(* A torn payload is published as it is, and is not the message. *)
FlushPublish(heard) ==
  /\ connected /\ flush = FlushIdle /\ files # <<>> /\ Head(files).torn # "header"
  /\ IF Head(files).torn = "no" THEN Published(Head(files).msg) ELSE UNCHANGED <<sent, again>>
  /\ Unheard(heard)
  /\ flush' = IF heard THEN [at |-> "remove", seen |-> bytes] ELSE flush
  /\ UNCHANGED <<broker, connected, files, bytes, pub, accepted, refused, crashes, raced>>

FlushRemove ==
  /\ flush.at = "remove" /\ flush' = FlushIdle
  /\ bytes' = (flush.seen + Width - 1) % Width
  /\ raced' = (raced \/ bytes # flush.seen)
  /\ files' = Tail(files)
  /\ UNCHANGED <<broker, connected, pub, accepted, refused, sent, again, crashes, unheard>>

try_flush == DropTorn \/ FlushPublish(TRUE) \/ FlushRemove
bg_flush_loop_ == Connect \/ try_flush \/ FlushPublish(FALSE)
-----------------------------------------------------------------------------
(* The process dies and starts again: init counts the files.  A crash in   *)
(* enqueue may leave a part of the file.                                   *)
Crash(torn) ==
  /\ crashes < MaxCrashes /\ crashes' = crashes + 1
  /\ IF torn = "no" THEN UNCHANGED files
     ELSE /\ pub.at = "enqueue" /\ Fits
          /\ files' = Append(files, [msg |-> pub.msg, torn |-> torn])
  /\ refused' = refused \cup ({pub.msg} \ {NoMsg})
  /\ bytes' = Len(files') % Width /\ connected' = broker
  /\ pub' = PubIdle /\ flush' = FlushIdle /\ raced' = (raced /\ Len(files') > MaxBytes)
  /\ UNCHANGED <<broker, accepted, sent, again, unheard>>

QNext ==
  \/ \E up \in BOOLEAN : Network(up)
  \/ \E m \in Messages, heard \in BOOLEAN :
       \/ publish_txn(m, heard)
       \/ \E delta \in SUBSET (DesiredKeys \cup {"other"}) : on_shadow_delta_(delta, m, heard)
  \/ enqueue \/ CountLoad \/ CountStore
  \/ bg_flush_loop_
  \/ \E torn \in {"no", "header", "payload"} : Crash(torn)

(* The background thread runs every 100 ms until the process ends.         *)
QFairness == WF_qvars(Connect \/ try_flush)

QSpec == QInit /\ [][QNext]_qvars /\ QFairness
-----------------------------------------------------------------------------
(***************************************************************************)
(* Properties.                                                             *)
(***************************************************************************)
(* Over lost connections, crashes and races with the flush, a message that *)
(* publish_txn accepted has reached the broker or lies whole in the queue. *)
(* It arrives twice only for a crash between its publication and the       *)
(* removal of its file, or for an acknowledgement that was lost.  And the  *)
(* directory holds no more than max_queue_bytes, unless an update of       *)
(* bytes_ was lost to the race of the two threads.                         *)
QueueIsSound ==
  /\ \A m \in accepted :
       m \in sent \/ \E i \in DOMAIN files : files[i] = [msg |-> m, torn |-> "no"]
  /\ again <= crashes + unheard
  /\ ~raced => Len(files) <= MaxBytes

(* Once the broker stays reachable, what was accepted gets there: again    *)
(* and again nothing is left behind.                                       *)
AcceptedIsSent == <>[]broker => []<>(accepted \subseteq sent)
=============================================================================
