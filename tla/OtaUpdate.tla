------------------------------ MODULE OtaUpdate ------------------------------
(***************************************************************************)
(* Software updates: the release service (ota/release_service.cpp) offers  *)
(* a release, the agent on the drawer (ota/agent.cpp) installs what its    *)
(* feed holds through the local backend (ota/backend_local.cpp), and the   *)
(* health daemon (ota/healthd.cpp) confirms or withdraws it.               *)
(*                                                                         *)
(* Agent and daemon are separate programs that share state.json, which     *)
(* each of them reads whole, keeps while it works and writes back whole:   *)
(* the file is truncated first, so a crash in the write leaves it empty.   *)
(* Versions are numbered in the order of std::string.  One drawer; a       *)
(* manifest is intact when hash and signature of its artifact are right.   *)
(***************************************************************************)
EXTENDS Integers, FiniteSets

CONSTANTS
  Versions,    \* versions above the first
  Channel,     \* the channel that the drawer follows
  Catalogue,   \* manifests that may be published
  Bucket,      \* hash_device of the drawer, below 100
  MaxReleases, \* bound: publications
  MaxLosses    \* bound: crashes

Channels == {"dev", "pilot", "stable"}

ASSUME OtaAssumption ==
  /\ Versions \subseteq Nat \ {0} /\ Bucket \in 0..99
  /\ Catalogue \subseteq [channel : Channels \cup {"beta"}, version : Versions, percent : Int,
                          revoked : BOOLEAN, intact : BOOLEAN, min : Versions \cup {0}]

VARIABLES
  releases,   \* releases_ of the service
  feed,       \* the manifest that the agent's feed holds
  state,      \* state.json
  installed,  \* the bundle of the backend, 0: none
  agent, daemon,  \* what each program holds between reading and writing
  ran,        \* history: version and intactness of the last installation
  healthy,    \* history: versions that a health check found well
  stale,      \* history: a write has undone one made since its read
  published, losses

ovars == <<releases, feed, state, installed, agent, daemon, ran, healthy, stale, published, losses>>

Manifests == [channel : Channels \cup {"beta"}, version : Versions, percent : 0..100,
              revoked : BOOLEAN, intact : BOOLEAN, min : Versions \cup {0}]
NoManifest == [version |-> 0]
Fresh == [current |-> 0, pending |-> 0, bootPending |-> FALSE, lastBad |-> {}]
Idle == [at |-> "idle"]

(* Published percentages are clamped, and what is pending has a version.   *)
OTypeOK ==
  /\ releases \subseteq {m \in Manifests : m.channel \in Channels}
  /\ \A m, n \in releases : m.channel = n.channel /\ m.version = n.version => m = n
  /\ state.current \in Versions \cup {0}
  /\ state.bootPending => state.pending # 0
  /\ installed \in Versions \cup {0} /\ state.lastBad \subseteq Versions

OInit ==
  /\ releases = {} /\ feed = NoManifest /\ state = Fresh /\ installed = 0
  /\ agent = Idle /\ daemon = Idle /\ ran = NoManifest /\ healthy = {0} /\ stale = FALSE
  /\ published = 0 /\ losses = 0
-----------------------------------------------------------------------------
(* The release service. *)
Clamp(percent) == IF percent < 0 THEN 0 ELSE IF percent > 100 THEN 100 ELSE percent

\* Bug: the percentage of the rollout is stored as it came.
StoredRaw(m) ==
  {n \in releases : n.channel # m.channel \/ n.version # m.version} \cup {m}

Stored(m) ==
  {n \in releases : n.channel # m.channel \/ n.version # m.version}
    \cup {[m EXCEPT !.percent = Clamp(@)]}

publish(m) ==
  /\ published < MaxReleases /\ published' = published + 1
  /\ releases' = IF m.channel \in Channels THEN Stored(m) ELSE releases
  /\ UNCHANGED <<feed, state, installed, agent, daemon, ran, healthy, stale, losses>>

can_promote(from, to) == <<from, to>> \in {<<"dev", "pilot">>, <<"pilot", "stable">>}

promote(version, from, to) ==
  /\ can_promote(from, to)
  /\ \E m \in releases : /\ m.channel = from /\ m.version = version
                         /\ releases' = Stored([m EXCEPT !.channel = to])
  /\ UNCHANGED <<feed, state, installed, agent, daemon, ran, healthy, stale, published, losses>>

allow(percent) == Bucket < percent

(* The newest release of the channel, unless there is a reason to withhold *)
(* it: revoked, stale_version, rollback_protection or rollout.             *)
eligible(channel, current) ==
  {m \in releases :
     /\ m.channel = channel /\ \A k \in releases : k.channel = channel => k.version <= m.version
     /\ ~m.revoked /\ m.version > current
     /\ m.min = 0 \/ current >= m.min
     /\ allow(m.percent)}

(* External: the drawer asks the service with its current version, and a   *)
(* manifest it is offered becomes its feed; an operator may also put any   *)
(* published manifest there.                                               *)
Offer ==
  /\ \E m \in eligible(Channel, state.current) : feed' = m
  /\ UNCHANGED <<releases, state, installed, agent, daemon, ran, healthy, stale, published, losses>>

PlaceFeed(m) ==
  /\ m \in releases /\ feed' = m
  /\ UNCHANGED <<releases, state, installed, agent, daemon, ran, healthy, stale, published, losses>>
-----------------------------------------------------------------------------
\* Bug: the agent does not look at the revocation.
AcceptsRevoked(m, st) ==
  /\ m # NoManifest /\ m.channel = Channel
  /\ m.version > st.current
  /\ allow(m.percent) /\ m.intact

(* The agent: every check, then the installation. *)
Accepts(m, st) ==
  /\ m # NoManifest /\ m.channel = Channel
  /\ m.version > st.current
  /\ ~m.revoked /\ allow(m.percent) /\ m.intact

run_once ==
  /\ agent = Idle /\ Accepts(feed, state)
  /\ installed' = feed.version /\ ran' = feed
  /\ agent' = [at |-> "save", read |-> state,
               new |-> [state EXCEPT !.pending = feed.version, !.bootPending = TRUE]]
  /\ UNCHANGED <<releases, feed, state, daemon, healthy, stale, published, losses>>

Write(program) ==
  /\ state' = program.new
  /\ stale' = (stale \/ state # program.read)

AgentSave ==
  /\ agent # Idle /\ Write(agent) /\ agent' = Idle
  /\ UNCHANGED <<releases, feed, installed, daemon, ran, healthy, published, losses>>
-----------------------------------------------------------------------------
\* Bug: the boot flag outlives a good health check.
ConfirmedPending(st) == [st EXCEPT !.current = st.pending]

(* The health daemon: asks /healthz, tells the backend, writes the state. *)
Confirmed(st) == [st EXCEPT !.current = st.pending, !.pending = 0, !.bootPending = FALSE]
Withdrawn(st) ==
  [st EXCEPT !.lastBad = @ \cup ({st.pending} \ {0}), !.pending = 0, !.bootPending = FALSE]

HealthCheck(ok) ==
  /\ daemon = Idle /\ state.bootPending
  /\ installed' = IF ok THEN installed ELSE 0
  /\ healthy' = IF ok THEN healthy \cup {state.pending} ELSE healthy
  /\ daemon' = [at |-> "save", read |-> state,
                new |-> IF ok THEN Confirmed(state) ELSE Withdrawn(state)]
  /\ UNCHANGED <<releases, feed, state, agent, ran, stale, published, losses>>

DaemonSave ==
  /\ daemon # Idle /\ Write(daemon) /\ daemon' = Idle
  /\ UNCHANGED <<releases, feed, installed, agent, ran, healthy, published, losses>>
-----------------------------------------------------------------------------
(* Power is lost; a write that was under way leaves an empty file. *)
PowerLoss(torn) ==
  /\ losses < MaxLosses /\ losses' = losses + 1
  /\ torn => agent # Idle \/ daemon # Idle
  /\ state' = IF torn THEN Fresh ELSE state
  /\ agent' = Idle /\ daemon' = Idle
  /\ UNCHANGED <<releases, feed, installed, ran, healthy, stale, published>>

ONext ==
  \/ \E m \in Catalogue : publish(m)
  \/ \E v \in Versions, from, to \in Channels : promote(v, from, to)
  \/ Offer \/ \E m \in releases : PlaceFeed(m)
  \/ run_once \/ AgentSave
  \/ \E ok \in BOOLEAN : HealthCheck(ok)
  \/ DaemonSave
  \/ \E torn \in BOOLEAN : PowerLoss(torn)

(* The daemon runs after every boot until nothing is pending; the power    *)
(* stays on for long enough to finish a write.                             *)
OFairness == WF_ovars(\E ok \in BOOLEAN : HealthCheck(ok)) /\ WF_ovars(DaemonSave) /\ WF_ovars(AgentSave)

OSpec == OInit /\ [][ONext]_ovars /\ OFairness
-----------------------------------------------------------------------------
(***************************************************************************)
(* Properties.                                                             *)
(***************************************************************************)
(* The version on record rises, and only to one that a health check found  *)
(* well; the record goes back only when a crash tore state.json or when    *)
(* agent and daemon overwrote each other's write.                          *)
VersionRises ==
  [][state'.current # state.current =>
       \/ state'.current > state.current /\ state'.current \in healthy
       \/ losses' > losses \/ stale']_ovars

(* What runs passed every check of the agent, whoever offered it: it came  *)
(* for this drawer's channel, unrevoked, inside the rollout and intact.    *)
(* And a bundle that awaits its health check is the one installed, unless  *)
(* a crash fell between installation and record, or the two programs       *)
(* overlapped.                                                             *)
InstalledWasAllowed ==
  /\ installed # 0 => /\ ran.version = installed /\ ran.channel = Channel
                      /\ ~ran.revoked /\ Bucket < ran.percent /\ ran.intact
  /\ state.bootPending /\ agent = Idle /\ daemon = Idle /\ losses = 0 /\ ~stale
       => installed = state.pending

(* A pending update is confirmed or withdrawn in the end.                  *)
PendingSettles == state.bootPending ~> ~state.bootPending
=============================================================================
