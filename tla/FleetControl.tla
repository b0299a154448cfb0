---------------------------- MODULE FleetControl ----------------------------
(***************************************************************************)
(* The fleet control plane (cloud/fleet_control/control_plane.cpp and      *)
(* routes.cpp): the hierarchy, the device registry, presence, remote       *)
(* commands, alerts, and the JSON store behind them.                       *)
(*                                                                         *)
(* Every operation holds mu_ and rewrites the store before it returns, so  *)
(* it is one action, and between operations the store holds what memory    *)
(* holds: a restart rebuilds only what is not stored.  A crash inside      *)
(* save_locked leaves a torn file; load() throws on it, and the process    *)
(* does not come up again.  A route that looks a device up and then calls  *)
(* an operation is two steps.  The time of an operation is an input: the   *)
(* routes take it from the body.  Event records, latencies and the fields  *)
(* that only searches read are left out; no decision depends on them.      *)
(***************************************************************************)
EXTENDS Naturals, Sequences, FiniteSets

CONSTANTS
  Orgs,         \* organizations
  Devices,
  None,         \* the empty id
  Nodes,        \* ids in the hierarchy
  Penalties,    \* what health, certificate and failed updates of a record take off a score
  MaxTime,      \* bound: times of operations
  Timeout,      \* heartbeat_timeout_seconds_
  Lives,        \* ttl_seconds a command may name
  Retries,      \* max_retries a command may name
  MaxCommands,  \* bound: commands created
  MaxAlerts     \* bound: alerts raised

ASSUME ControlAssumption ==
  /\ MaxTime \in Nat /\ Timeout \in Nat
  /\ Lives \subseteq Nat /\ Retries \subseteq Nat /\ Penalties \subseteq Nat
  /\ MaxCommands \in Nat /\ MaxAlerts \in Nat
  /\ None \notin Orgs

VARIABLES
  hierarchy,    \* organizations_, regions_, merchants_, branches_: the owner of each id
  registry,     \* devices_: a function on the registered devices
  commands,     \* commands_: the n-th command has the id "cmd-n"
  alerts,       \* alerts_
  acknowledged, \* acknowledged_commands_, in memory only
  acks,         \* history: how often the device was told that its ack counted
  lookup,       \* the request between its lookup of a device and its operation
  torn          \* stores that a crash left half written

cvars == <<hierarchy, registry, commands, alerts, acknowledged, acks, lookup, torn>>

Times == 0..MaxTime
Tenants == Orgs \cup {None}    \* X-Org-Id of a request
Waiting == {"pending", "delivered"}
CommandStates == Waiting \cup {"acknowledged", "failed", "expired"}
DeviceRecords == [org : Orgs, online : BOOLEAN, seen : Times, penalty : Penalties]
CommandRecords == [org : Orgs, dev : Devices, st : CommandStates, exp : Nat,
                   retry : Nat, max : Retries,
                   by : Tenants]   \* history: the tenant of the request
FindingTypes == {"large_one_time_variance", "after_hours_drawer_activity", "repeated_small_shortages",
                 "excessive_manual_adjustments", "unusual_cash_out_frequency"}
AlertRecords == [org : Tenants, dev : Devices \cup {None},
                 type : {"offline_device"} \cup FindingTypes, acked : BOOLEAN]
Lookups == [op : {"command", "heartbeat"}, tenant : Tenants, dev : Devices, org : Orgs]
Registries == UNION {[D -> DeviceRecords] : D \in SUBSET Devices}

(* Memory and store hold well-formed records. *)
CTypeOK ==
  /\ hierarchy \in [Nodes -> Tenants \cup {"absent"}]
  /\ registry \in Registries
  /\ commands \in Seq(CommandRecords) /\ Len(commands) <= MaxCommands
  /\ alerts \in Seq(AlertRecords)
  /\ acknowledged \subseteq 1..Len(commands)
  /\ acks \in [1..MaxCommands -> Nat]
  /\ lookup \subseteq Lookups
  /\ torn \subseteq {"control", "cash", "veil", "edge"}

CInit ==
  /\ hierarchy = [n \in Nodes |-> "absent"]
  /\ registry = [d \in {} |-> 0]
  /\ commands = <<>> /\ alerts = <<>>
  /\ acknowledged = {} /\ acks = [c \in 1..MaxCommands |-> 0]
  /\ lookup = {} /\ torn = {}

Put(f, key, value) == [x \in DOMAIN f \cup {key} |-> IF x = key THEN value ELSE f[x]]
Up == torn = {}
allowed_tenant(tenant, org) == tenant = None \/ org = None \/ tenant = org
-----------------------------------------------------------------------------
(***************************************************************************)
(* Hierarchy, registry and presence.                                       *)
(***************************************************************************)
Upsert(tenant, node, org) ==
  /\ Up /\ allowed_tenant(tenant, org)
  /\ hierarchy' = [hierarchy EXCEPT ![node] = org]
  /\ UNCHANGED <<registry, commands, alerts, acknowledged, acks, lookup, torn>>

(* The whole record is replaced, connectivity and last_seen_at included. *)
PutDevice(d, record) == registry' = Put(registry, d, record)

register_device(tenant, d, record) ==
  /\ Up /\ allowed_tenant(tenant, record.org)
  /\ PutDevice(d, record)
  /\ UNCHANGED <<hierarchy, commands, alerts, acknowledged, acks, lookup, torn>>

(* The heartbeat and the command routes read the device, check its owner  *)
(* and release mu_ ... *)
LookupDevice(op, tenant, d) ==
  /\ Up /\ lookup = {} /\ (op = "command" => Len(commands) < MaxCommands)
  /\ d \in DOMAIN registry /\ allowed_tenant(tenant, registry[d].org)
  /\ lookup' = {[op |-> op, tenant |-> tenant, dev |-> d, org |-> registry[d].org]}
  /\ UNCHANGED <<hierarchy, registry, commands, alerts, acknowledged, acks, torn>>

(* ... and the heartbeat is recorded, however old its time is. *)
receive_heartbeat(received) ==
  /\ Up
  /\ \E l \in lookup :
       /\ l.op = "heartbeat"
       /\ registry' = [registry EXCEPT ![l.dev].online = TRUE, ![l.dev].seen = received]
  /\ lookup' = {}
  /\ UNCHANGED <<hierarchy, commands, alerts, acknowledged, acks, torn>>

Stale(now) == {d \in DOMAIN registry :
                 registry[d].online /\ now > registry[d].seen + Timeout}

Alert(org, d, type) == [org |-> org, dev |-> d, type |-> type, acked |-> FALSE]

\* Bug: one alert for all the stale devices, which names none of them.
detect_stale_devices_once(now) ==
  /\ Up /\ Len(alerts) + Cardinality(Stale(now)) <= MaxAlerts
  /\ registry' = [d \in DOMAIN registry |->
                    IF d \in Stale(now) THEN [registry[d] EXCEPT !.online = FALSE]
                    ELSE registry[d]]
  /\ alerts' = IF Stale(now) = {} THEN alerts
               ELSE Append(alerts, Alert(None, None, "offline_device"))
  /\ UNCHANGED <<hierarchy, commands, acknowledged, acks, lookup, torn>>

(* One alert for each stale device, in the order of the map, left open here. *)
detect_stale_devices(now) ==
  /\ Up
  /\ registry' = [d \in DOMAIN registry |->
                    IF d \in Stale(now) THEN [registry[d] EXCEPT !.online = FALSE]
                    ELSE registry[d]]
  /\ \E n \in 0..(MaxAlerts - Len(alerts)) : \E order \in [1..n -> Stale(now)] :
       /\ \A d \in Stale(now) : \E i \in 1..n : order[i] = d
       /\ \A i, j \in 1..n : order[i] = order[j] => i = j
       /\ alerts' = alerts \o [i \in 1..n |->
                      Alert(registry[order[i]].org, order[i], "offline_device")]
  /\ UNCHANGED <<hierarchy, commands, acknowledged, acks, lookup, torn>>
-----------------------------------------------------------------------------
(***************************************************************************)
(* Commands.  commands_ is an unordered_map: the order of its iteration is *)
(* left open.                                                              *)
(***************************************************************************)
NewCommand(l, known, now, ttl, max) ==
  [org |-> l.org, dev |-> l.dev, exp |-> now + ttl, retry |-> 0, max |-> max, by |-> l.tenant,
   st |-> IF known /\ l.dev \in DOMAIN registry THEN "pending" ELSE "failed"]

(* The command is created in the name of the owner that the lookup read. *)
create_command(known, now, ttl, max) ==
  /\ Up
  /\ \E l \in lookup :
       /\ l.op = "command"
       /\ commands' = Append(commands, NewCommand(l, known, now, ttl, max))
  /\ lookup' = {}
  /\ UNCHANGED <<hierarchy, registry, alerts, acknowledged, acks, torn>>

Late(c, now) == now > c.exp
Spent(c) == c.st = "delivered" /\ c.retry >= c.max
\* Bug: what is late or spent is passed over and keeps its status.
EndedPassed(c, now) == c

Ended(c, now) == [c EXCEPT !.st = IF Late(c, now) THEN "expired" ELSE "failed"]
Sent(c) == [c EXCEPT !.st = "delivered", !.retry = IF c.st = "delivered" THEN @ + 1 ELSE @]

(* The scan ends what is late or spent until it meets one it can send. *)
deliver_next_command(d, now) ==
  LET queue == {i \in DOMAIN commands : /\ commands[i].dev = d
                                        /\ commands[i].st \in Waiting
                                        /\ i \notin acknowledged}
      live == {i \in queue : ~Late(commands[i], now) /\ ~Spent(commands[i])}
  IN /\ Up
     /\ \E next \in SUBSET live, passed \in SUBSET (queue \ live) :
          /\ IF live = {} THEN passed = queue ELSE Cardinality(next) = 1
          /\ commands' = [i \in DOMAIN commands |->
                            IF i \in next THEN Sent(commands[i])
                            ELSE IF i \in passed THEN Ended(commands[i], now)
                            ELSE commands[i]]
     /\ UNCHANGED <<hierarchy, registry, alerts, acknowledged, acks, lookup, torn>>

(* The status of the command is not looked at: a failed or expired command *)
(* can still be acknowledged. *)
acknowledge_command(d, i) ==
  /\ Up /\ i \in DOMAIN commands /\ commands[i].dev = d /\ i \notin acknowledged
  /\ commands' = [commands EXCEPT ![i].st = "acknowledged"]
  /\ acknowledged' = acknowledged \cup {i}
  /\ acks' = [acks EXCEPT ![i] = @ + 1]
  /\ UNCHANGED <<hierarchy, registry, alerts, lookup, torn>>

expire_commands(now) ==
  /\ Up
  /\ commands' = [i \in DOMAIN commands |->
                    IF commands[i].st \in Waiting /\ Late(commands[i], now)
                    THEN [commands[i] EXCEPT !.st = "expired"] ELSE commands[i]]
  /\ UNCHANGED <<hierarchy, registry, alerts, acknowledged, acks, lookup, torn>>
-----------------------------------------------------------------------------
(***************************************************************************)
(* Alerts, and the store.                                                  *)
(***************************************************************************)
create_alert(org, d, type) == alerts' = Append(alerts, Alert(org, d, type))

acknowledge_alert(tenant, i) ==
  /\ Up /\ i \in DOMAIN alerts /\ alerts[i].org = tenant /\ ~alerts[i].acked
  /\ alerts' = [alerts EXCEPT ![i].acked = TRUE]
  /\ UNCHANGED <<hierarchy, registry, commands, acknowledged, acks, lookup, torn>>

\* Bug: the set starts empty, as the constructor leaves it.
load_acknowledged_empty == {}

(* load() fills acknowledged_commands_ from the stored statuses. *)
load_acknowledged == {i \in DOMAIN commands : commands[i].st = "acknowledged"}

(* The process dies between two operations and starts again. *)
ControlRestart ==
  /\ Up
  /\ acknowledged' = load_acknowledged
  /\ lookup' = {}
  /\ UNCHANGED <<hierarchy, registry, commands, alerts, acks, torn>>

(* save_locked truncates the store and writes it anew: the process can die *)
(* with the file half written. *)
ControlTorn ==
  /\ Up /\ torn' = {"control"}
  /\ UNCHANGED <<hierarchy, registry, commands, alerts, acknowledged, acks, lookup>>
-----------------------------------------------------------------------------
CommandNext ==
  \/ \E t \in Tenants, d \in Devices : LookupDevice("command", t, d)
  \/ \E known \in BOOLEAN, now \in Times, ttl \in Lives, max \in Retries :
       create_command(known, now, ttl, max)
  \/ \E d \in Devices, now \in Times : deliver_next_command(d, now)
  \/ \E d \in Devices, i \in 1..MaxCommands : acknowledge_command(d, i)
  \/ \E now \in Times : expire_commands(now)

RegistryNext ==
  \/ \E t \in Tenants, n \in Nodes, o \in Tenants : Upsert(t, n, o)
  \/ \E t \in Tenants, d \in Devices, r \in DeviceRecords : register_device(t, d, r)
  \/ \E t \in Tenants, d \in Devices : LookupDevice("heartbeat", t, d)
  \/ \E now \in Times : receive_heartbeat(now)
  \/ \E now \in Times : detect_stale_devices(now)
  \/ \E t \in Tenants, i \in 1..MaxAlerts : acknowledge_alert(t, i)

CNext == CommandNext \/ RegistryNext \/ ControlRestart \/ ControlTorn

CSpec == CInit /\ [][CNext]_cvars
-----------------------------------------------------------------------------
(***************************************************************************)
(* Properties.                                                             *)
(***************************************************************************)
(* acknowledge_command accepts one acknowledgement of a command and no     *)
(* more, whatever is retried and however often the process restarts.       *)
AckCountsOnce == \A i \in DOMAIN acks : acks[i] <= 1

(* What a device has acknowledged stays acknowledged: deliver_next_command *)
(* never sends it again and nothing expires or fails it, also after a      *)
(* restart or an acknowledgement that came too late.                       *)
AckIsFinal ==
  \A i \in DOMAIN commands : acks[i] > 0 => commands[i].st = "acknowledged"

(* deliver_next_command sends a command at most once plus max_retries.     *)
RetryBudget == \A i \in DOMAIN commands : commands[i].retry <= commands[i].max

(* A request of a tenant creates commands in the name of that tenant only, *)
(* even when the device changes owner between the lookup of the route and  *)
(* create_command.                                                         *)
TenantScoped ==
  \A i \in DOMAIN commands : commands[i].by \in {None, commands[i].org}

(* detect_stale_devices leaves no device offline without an alert for its  *)
(* owner: a device goes offline with one, or because it is registered anew.*)
OfflineIsAlerted ==
  [][\A d \in DOMAIN registry :
       (registry[d].online /\ ~registry'[d].online) =>
         \/ \E r \in DeviceRecords : PutDevice(d, r)
         \/ \E i \in Len(alerts) + 1..Len(alerts') :
              alerts'[i] = Alert(registry[d].org, d, "offline_device")]_cvars

Waits(i) == i \in DOMAIN commands /\ commands[i].st \in Waiting

(* While a device polls, max_retries and expiry keep any of its commands   *)
(* from waiting forever behind the others, in whatever order the scan of   *)
(* deliver_next_command meets them.                                        *)
CommandsSettle == \A i \in 1..MaxCommands : Waits(i) ~> (~Waits(i) \/ ~Up)
=============================================================================
