----------------------------- MODULE VeilTrust -----------------------------
(***************************************************************************)
(* The trust service (integrations/veil/service.cpp, client.cpp and        *)
(* routes.cpp): the chained evidence, its verification, policy decisions   *)
(* and the trust score, which reads the control plane and the cash service.*)
(*                                                                         *)
(* An operation holds mu_ and saves before it returns: one action.  SHA256 *)
(* is taken to be injective, so a hash is the tuple of what it covers.     *)
(* The fields of a record that no check reads on its own are one payload.  *)
(* VEIL itself is external: it is reachable or not, and denies a fixed set *)
(* of actions.  The audit trail and what was submitted to VEIL are left    *)
(* out: the service never reads them.                                      *)
(***************************************************************************)
EXTENDS CashIntelligence

CONSTANTS
  Actions,      \* what a policy is asked for
  HighRisk,     \* policy_.high_risk_actions
  Denied,       \* denied_actions_ of the client
  Posts,        \* the evidence that clients post
  MaxEvidence,  \* bound: evidence records
  MaxDecisions  \* bound: policy decisions

VARIABLES
  evidence,     \* evidence_
  decisions,    \* decisions_
  production,   \* policy_.production_mode, read from the environment at start
  reachable,    \* whether VEIL answers
  damaged       \* history: <<tenant, device>> whose stored evidence was damaged

vvars == <<evidence, decisions, production, reachable, damaged>>

AllPosts == [id : Nat, tenant : Tenants, dev : Devices \cup {None}, type : STRING, at : Nat,
             about : STRING]   \* the command in the payload, if any

ASSUME VeilAssumption ==
  /\ HighRisk \subseteq Actions /\ Denied \subseteq Actions /\ Posts \subseteq AllPosts
  /\ None \notin Devices /\ MaxEvidence \in Nat /\ MaxDecisions \in Nat

(* Evidence and decisions are well formed, and the chain never points to   *)
(* itself: what a record is linked to is shorter than the chain up to it.  *)
VTypeOK ==
  /\ Len(evidence) <= MaxEvidence /\ Len(decisions) <= MaxDecisions
  /\ \A e \in Range(evidence) :
       /\ e.id \in Nat /\ e.tenant \in Tenants /\ e.dev \in Devices \cup {None} /\ e.at \in Nat
       /\ e.prev = <<>> \/ Len(e.prev) = 3
  /\ decisions \in Seq([tenant : Tenants, dev : Devices, action : Actions,
                        allowed : BOOLEAN, unavailable : BOOLEAN])
  /\ production \in BOOLEAN /\ reachable \in BOOLEAN

VInit ==
  /\ evidence = <<>> /\ decisions = <<>>
  /\ production \in BOOLEAN /\ reachable = TRUE /\ damaged = {}
-----------------------------------------------------------------------------
\* Bug: the event type is not covered.
canonical_payload_hash_short(e) == <<e.tenant, e.dev, e.at, e.about>>

(***************************************************************************)
(* Evidence: a record is linked to the last one of its device, or of its   *)
(* tenant when its device has none.  An id of 0 stands for none given.     *)
(***************************************************************************)
canonical_payload_hash(e) == <<e.tenant, e.dev, e.type, e.at, e.about>>
record_chain_hash(e) == <<e.id, e.hash, e.prev>>

last_hash_for(key, value) ==
  LET of == {i \in DOMAIN evidence : value # None /\ evidence[i][key] = value}
  IN IF of = {} THEN <<>> ELSE record_chain_hash(evidence[Greatest(of)])

Linked(p) ==
  LET device == last_hash_for("dev", p.dev)
  IN [id |-> IF p.id = 0 THEN Len(evidence) + 1 ELSE p.id,
      tenant |-> p.tenant, dev |-> p.dev, type |-> p.type, at |-> p.at, about |-> p.about,
      hash |-> canonical_payload_hash(p),
      prev |-> IF device # <<>> THEN device ELSE last_hash_for("tenant", p.tenant)]

create_evidence(p) == evidence' = Append(evidence, Linked(p))

PostEvidence(tenant, p) ==
  /\ Up /\ allowed_tenant(tenant, p.tenant) /\ Len(evidence) < MaxEvidence
  /\ create_evidence(p)
  /\ UNCHANGED <<decisions, production, reachable, damaged>>

filter_matches(e, tenant, d) == (tenant = None \/ e.tenant = tenant) /\ (d = None \/ e.dev = d)
Selected(tenant, d) == {i \in DOMAIN evidence : filter_matches(evidence[i], tenant, d)}

(* For each record the last one before it with the same device, and the    *)
(* last one with the same tenant. *)
Neighbours(records) ==
  {p \in records \X records :
     /\ p[1] < p[2]
     /\ \E key \in {"dev", "tenant"} :
          /\ evidence[p[2]][key] # None /\ evidence[p[1]][key] = evidence[p[2]][key]
          /\ \A k \in records : p[1] < k /\ k < p[2] => evidence[k][key] # evidence[p[2]][key]}

verify_chain(tenant, d) ==
  LET records == Selected(tenant, d)
      errors == [duplicate_evidence_id |->
                   \E i, j \in records : i < j /\ evidence[i].id = evidence[j].id,
                 payload_tamper |->
                   \E i \in records : canonical_payload_hash(evidence[i]) # evidence[i].hash,
                 missing_link |->
                   \E p \in Neighbours(records) :
                     evidence[p[2]].prev # record_chain_hash(evidence[p[1]]),
                 out_of_order |->
                   \E p \in Neighbours(records) : evidence[p[2]].at < evidence[p[1]].at]
  IN {x \in DOMAIN errors : errors[x]}

(* export_bundle("device", d) verifies with the tenant of the record that  *)
(* its sort by time and id puts first. *)
export_verification(d) ==
  LET records == Selected(None, d)
      first == {i \in records :
                  \A j \in records :
                    \/ evidence[i].at < evidence[j].at
                    \/ evidence[i].at = evidence[j].at /\ evidence[i].id <= evidence[j].id}
  IN UNION {verify_chain(evidence[i].tenant, d) : i \in first}
-----------------------------------------------------------------------------
\* Bug: an action is allowed when nobody can be asked.
DecisionOpen(tenant, d, action) ==
  [tenant |-> tenant, dev |-> d, action |-> action, unavailable |-> ~reachable,
   allowed |-> reachable => action \notin Denied]

(***************************************************************************)
(* Policy and trust score.                                                 *)
(***************************************************************************)
Decision(tenant, d, action) ==
  [tenant |-> tenant, dev |-> d, action |-> action, unavailable |-> ~reachable,
   allowed |-> IF reachable THEN action \notin Denied ELSE action \in HighRisk /\ ~production]

verify_policy(tenant, d, action) == decisions' = Append(decisions, Decision(tenant, d, action))

PreviewPolicy(tenant, d, action) ==
  /\ Up /\ Len(decisions) < MaxDecisions
  /\ verify_policy(tenant, d, action)
  /\ UNCHANGED <<evidence, production, reachable, damaged>>

trust_score(tenant, d) ==
  LET fleet == IF d \notin DOMAIN registry THEN 0
               ELSE registry[d].penalty + (IF registry[d].online THEN 0 ELSE 15)
      of(type) == Cardinality(Selected(tenant, d) \cap OfType(evidence, type))
  IN Later(0, 100 - fleet - (100 - CashHealth(d))
                  - 10 * of("anomaly_detected") - 15 * of("reconciliation_variance_detected"))
-----------------------------------------------------------------------------
(***************************************************************************)
(* Faults: VEIL comes and goes, the process dies, a stored record is       *)
(* altered, or lost from between two others of its device.                 *)
(***************************************************************************)
VeilSwitch == Up /\ reachable' = ~reachable
              /\ UNCHANGED <<evidence, decisions, production, damaged>>

AlterRecord(i) ==
  /\ Up /\ damaged = {} /\ i \in DOMAIN evidence /\ evidence[i].type # "altered"
  /\ evidence' = [evidence EXCEPT ![i].type = "altered"]
  /\ damaged' = {<<evidence[i].tenant, evidence[i].dev>>}
  /\ UNCHANGED <<decisions, production, reachable>>

Inner(i) ==
  LET same == {j \in DOMAIN evidence : /\ evidence[j].dev = evidence[i].dev
                                       /\ evidence[j].tenant = evidence[i].tenant}
  IN evidence[i].dev # None /\ (\E j \in same : j < i) /\ (\E j \in same : j > i)

LoseRecord(i) ==
  /\ Up /\ damaged = {} /\ i \in DOMAIN evidence /\ Inner(i)
  /\ evidence' = SubSeq(evidence, 1, i - 1) \o SubSeq(evidence, i + 1, Len(evidence))
  /\ damaged' = {<<evidence[i].tenant, evidence[i].dev>>}
  /\ UNCHANGED <<decisions, production, reachable>>

VeilRestart == CashRestart /\ UNCHANGED vvars

VeilTorn == Up /\ torn' = {"veil"}
            /\ UNCHANGED <<hierarchy, registry, commands, alerts, acknowledged, acks, lookup>>
            /\ UNCHANGED kvars /\ UNCHANGED vvars

VeilNext ==
  \/ \E t \in Tenants, p \in Posts : PostEvidence(t, p)
  \/ \E t \in Orgs, d \in Devices, a \in Actions : PreviewPolicy(t, d, a)
  \/ VeilSwitch
  \/ \E i \in 1..MaxEvidence : AlterRecord(i) \/ LoseRecord(i)

VStep == (VeilNext /\ UNCHANGED <<cvars, kvars>>) \/ VeilTorn \/ (KStep /\ UNCHANGED vvars)
VNext == VStep \/ VeilRestart
-----------------------------------------------------------------------------
(***************************************************************************)
(* Properties.                                                             *)
(***************************************************************************)
Owners(d) == {evidence[i].tenant : i \in {j \in DOMAIN evidence : evidence[j].dev = d}}
LinkErrors == {"missing_link", "payload_tamper"}

(* verify_chain tells damage from order.  Evidence of different devices    *)
(* may be recorded in any order: for a device that keeps its tenant it,    *)
(* and the export, find no altered record and no missing link unless       *)
(* evidence of that device was damaged.  A record that was altered, or     *)
(* lost from between two others of its device, is found, whatever is       *)
(* recorded afterwards.                                                    *)
ChainIsExact ==
  /\ \A d \in Devices, t \in Tenants :
       (Owners(d) = {t} /\ <<t, d>> \notin damaged) =>
         (verify_chain(t, d) \cup export_verification(d)) \cap LinkErrors = {}
  /\ \A p \in damaged : verify_chain(p[1], p[2]) # {}
=============================================================================
