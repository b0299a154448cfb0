---------------------------- MODULE TrustProofs ----------------------------
(***************************************************************************)
(* Proofs about the trust service and what the edge platform builds on it  *)
(* (ESpec): the chain of the evidence, the evidence behind the results of  *)
(* commands, the trust scores, and the types of the four services.         *)
(***************************************************************************)
EXTENDS CashProofs

(* Leaves are left to Zenon unless they name another prover.               *)
USE Zenon

(***************************************************************************)
(* The evidence chain.                                                     *)
(***************************************************************************)
ChainFields == {"id", "tenant", "dev", "type", "at", "about", "hash", "prev"}
Hash(i) == record_chain_hash(evidence[i])
Same(i, j) == evidence[i].dev # None /\ evidence[j].dev = evidence[i].dev
(* j is the last record before i of the same device.                       *)
Before(j, i) == /\ j < i /\ Same(i, j)
                /\ \A k \in DOMAIN evidence : j < k /\ k < i => evidence[k].dev # evidence[i].dev
Undamaged(d) == \A p \in damaged : p[2] # d

(* Hashes match, but for the evidence of the damaged device.               *)
HashesOK ==
  \A i \in DOMAIN evidence :
    \/ <<evidence[i].tenant, evidence[i].dev>> \in damaged
    \/ evidence[i].hash = canonical_payload_hash(evidence[i])
(* Every record of an undamaged device is linked to the one before.        *)
LinksOK ==
  \A i, j \in DOMAIN evidence :
    Undamaged(evidence[i].dev) /\ Before(j, i) => evidence[i].prev = Hash(j)
(* The first record of a device is linked to nothing or to another device. *)
StartsOK ==
  \A i \in DOMAIN evidence :
    evidence[i].dev # None =>
      \/ \E j \in DOMAIN evidence : j < i /\ Same(i, j)
      \/ evidence[i].prev = <<>>
      \/ \E x \in DOMAIN evidence : evidence[x].dev # evidence[i].dev /\ evidence[i].prev = Hash(x)
(* No two records of a device have the same chain hash.                    *)
DistinctOK ==
  \A i, j \in DOMAIN evidence : j < i /\ Same(i, j) => Hash(j) # Hash(i)

Match(i, p) == filter_matches(evidence[i], p[1], p[2])
Tampered(p) ==
  \E i \in DOMAIN evidence : Match(i, p) /\ canonical_payload_hash(evidence[i]) # evidence[i].hash
Gap(p) ==
  \E j, k \in DOMAIN evidence :
    /\ Match(j, p) /\ Match(k, p) /\ j < k
    /\ \A m \in DOMAIN evidence : j < m /\ m < k => ~Match(m, p)
    /\ evidence[k].prev # Hash(j)
(* Damage shows.                                                           *)
Shows(p) ==
  /\ \E i \in DOMAIN evidence : evidence[i].tenant = p[1] /\ evidence[i].dev = p[2]
  /\ Tampered(p) \/ (p[2] # None /\ Gap(p))

ChainOK ==
  /\ IsSeq(evidence) /\ \A i \in DOMAIN evidence : DOMAIN evidence[i] = ChainFields
  /\ HashesOK /\ LinksOK
  /\ damaged = {} => StartsOK /\ DistinctOK
  /\ \A p \in damaged : p = <<p[1], p[2]>> /\ Shows(p)

(* What verify_chain says of a damaged device, and of one that is not.     *)
LEMMA Verdicts ==
  ASSUME NEW t, NEW d
  PROVE  LET records == Selected(t, d)
         IN /\ "payload_tamper" \in verify_chain(t, d)
                 <=> \E i \in records : canonical_payload_hash(evidence[i]) # evidence[i].hash
            /\ "missing_link" \in verify_chain(t, d)
                 <=> \E p \in Neighbours(records) : evidence[p[2]].prev # Hash(p[1])
<1> DEFINE records == Selected(t, d)
           a == \E i, j \in records : i < j /\ evidence[i].id = evidence[j].id
           b == \E i \in records : canonical_payload_hash(evidence[i]) # evidence[i].hash
           c == \E p \in Neighbours(records) : evidence[p[2]].prev # record_chain_hash(evidence[p[1]])
           e == \E p \in Neighbours(records) : evidence[p[2]].at < evidence[p[1]].at
           r == [duplicate_evidence_id |-> a, payload_tamper |-> b, missing_link |-> c,
                 out_of_order |-> e]
<1>1. verify_chain(t, d) = {x \in DOMAIN r : r[x]}
  BY DEF verify_chain
<1>2. "payload_tamper" \in DOMAIN r /\ "missing_link" \in DOMAIN r
  OBVIOUS
<1>3. r["payload_tamper"] = b /\ r["missing_link"] = c
  OBVIOUS
<1> HIDE DEF a, e, r
<1>4. QED
  BY <1>1, <1>2, <1>3 DEF Hash

(* The inductive invariant implies what verify_chain promises.             *)
LEMMA ChainMeaning == ChainOK => ChainIsExact
<1> SUFFICES ASSUME ChainOK PROVE ChainIsExact
  OBVIOUS
<1>s. \E n \in Nat : DOMAIN evidence = 1..n
  BY SMTT(20) DEF ChainOK, IsSeq
<1>1. ASSUME NEW d \in Devices, NEW t \in Tenants, Owners(d) = {t}, <<t, d>> \notin damaged
      PROVE  (verify_chain(t, d) \cup export_verification(d)) \cap LinkErrors = {}
  <2>1. \A i \in DOMAIN evidence : evidence[i].dev = d => evidence[i].tenant = t
    BY <1>1 DEF Owners
  <2>d. d # None
    BY VeilAssumption
  <2>2. \A i : i \in Selected(t, d) <=> i \in DOMAIN evidence /\ evidence[i].dev = d
    BY <2>1, <2>d DEF Selected, filter_matches
  <2>3. Undamaged(d)
    <3> SUFFICES ASSUME NEW p \in damaged, p[2] = d PROVE FALSE
      BY DEF Undamaged
    <3>1. PICK i \in DOMAIN evidence : evidence[i].tenant = p[1] /\ evidence[i].dev = p[2]
      BY DEF ChainOK, Shows
    <3>2. p[1] = t
      BY <2>1, <3>1
    <3> QED BY <1>1, <3>2 DEF ChainOK
  <2>4. "payload_tamper" \notin verify_chain(t, d)
    <3> SUFFICES ASSUME NEW i \in Selected(t, d), canonical_payload_hash(evidence[i]) # evidence[i].hash
                 PROVE  FALSE
      BY Verdicts
    <3> QED BY <1>1, <2>1, <2>2 DEF ChainOK, HashesOK
  <2>5. "missing_link" \notin verify_chain(t, d)
    <3> SUFFICES ASSUME NEW p \in Neighbours(Selected(t, d)), evidence[p[2]].prev # Hash(p[1])
                 PROVE  FALSE
      BY Verdicts
    <3>1. p[1] \in DOMAIN evidence /\ p[2] \in DOMAIN evidence /\ evidence[p[1]].dev = d
          /\ evidence[p[2]].dev = d /\ p[1] < p[2]
      BY <2>2 DEF Neighbours
    <3>2. \A k \in DOMAIN evidence : p[1] < k /\ k < p[2] => evidence[k].dev # d
      BY <2>1, <2>2, <3>1 DEF Neighbours
    <3> QED BY <2>3, <2>d, <3>1, <3>2, SMTT(20) DEF ChainOK, LinksOK, Before, Same
  <2>6. export_verification(d) \subseteq verify_chain(t, d)
    BY <2>1, <2>d DEF export_verification, Selected, filter_matches
  <2> QED BY <2>4, <2>5, <2>6 DEF LinkErrors
<1>2. ASSUME NEW p \in damaged PROVE verify_chain(p[1], p[2]) # {}
  <2>1. CASE Tampered(p)
    BY <2>1, Verdicts DEF Tampered, Match, Selected
  <2>2. CASE p[2] # None /\ Gap(p)
    <3>1. PICK j, k \in DOMAIN evidence :
            /\ Match(j, p) /\ Match(k, p) /\ j < k
            /\ \A m \in DOMAIN evidence : j < m /\ m < k => ~Match(m, p)
            /\ evidence[k].prev # Hash(j)
      BY <2>2 DEF Gap
    <3>2. <<j, k>> \in Neighbours(Selected(p[1], p[2]))
      <4>1. j \in Selected(p[1], p[2]) /\ k \in Selected(p[1], p[2])
        BY <3>1 DEF Selected, Match
      <4>2. evidence[j].dev = p[2] /\ evidence[k].dev = p[2]
        BY <2>2, <3>1 DEF Match, filter_matches
      <4>3. \A m \in Selected(p[1], p[2]) : ~(j < m /\ m < k)
        BY <3>1 DEF Selected, Match
      <4> QED BY <2>2, <3>1, <4>1, <4>2, <4>3 DEF Neighbours
    <3> QED BY <3>1, <3>2, Verdicts
  <2> QED BY <2>1, <2>2 DEF ChainOK, Shows
<1> QED BY <1>1, <1>2 DEF ChainIsExact

(* What create_evidence stores: the hash matches, and the record is linked *)
(* to the last one of its device, or to none or any record of the tenant.  *)
LEMMA LinkedFacts ==
  ASSUME ChainOK, NEW p
  PROVE  LET e == Linked(p)
         IN /\ DOMAIN e = ChainFields /\ e.dev = p.dev /\ e.hash = canonical_payload_hash(e)
            /\ e.prev = <<>> \/ \E x \in DOMAIN evidence : e.prev = Hash(x)
            /\ p.dev # None =>
                 \A j \in DOMAIN evidence :
                   /\ evidence[j].dev = p.dev
                   /\ \A k \in DOMAIN evidence : j < k => evidence[k].dev # p.dev
                   => e.prev = Hash(j)
<1> DEFINE e == Linked(p)
           of(key, v) == {i \in DOMAIN evidence : v # None /\ evidence[i][key] = v}
           hash(key, v) == last_hash_for(key, v)
<1>1. /\ DOMAIN e = ChainFields /\ e.dev = p.dev /\ e.tenant = p.tenant /\ e.type = p.type
      /\ e.at = p.at /\ e.about = p.about /\ e.hash = canonical_payload_hash(p)
      /\ e.prev = IF hash("dev", p.dev) # <<>> THEN hash("dev", p.dev) ELSE hash("tenant", p.tenant)
  BY DEF Linked, ChainFields
<1>2. e.hash = canonical_payload_hash(e)
  BY <1>1 DEF canonical_payload_hash
<1>3. \A key, v : IF of(key, v) = {} THEN hash(key, v) = <<>>
                  ELSE hash(key, v) = Hash(Greatest(of(key, v)))
  BY DEF last_hash_for, Hash
<1>4. PICK n \in Nat : DOMAIN evidence = 1..n
  BY SMTT(20) DEF ChainOK, IsSeq
<1>5. \A key, v : of(key, v) # {} => Bounded(of(key, v))
  BY <1>4, IndexBounds, ZenonT(20)
<1>6. \A key, v : hash(key, v) = <<>> \/ \E x \in DOMAIN evidence : hash(key, v) = Hash(x)
  <2> SUFFICES ASSUME NEW key, NEW v, of(key, v) # {}
               PROVE  \E x \in DOMAIN evidence : hash(key, v) = Hash(x)
    BY <1>3, ZenonT(20)
  <2>1. Greatest(of(key, v)) \in of(key, v)
    BY <1>5, ZenonT(20) DEF Bounded
  <2>2. hash(key, v) = Hash(Greatest(of(key, v)))
    BY <1>3
  <2> QED BY <2>1, <2>2
<1> HIDE DEF hash
<1>7. e.prev = <<>> \/ \E x \in DOMAIN evidence : e.prev = Hash(x)
  BY <1>1, <1>6, SMTT(20)
<1>8. ASSUME NEW j \in DOMAIN evidence, p.dev # None, evidence[j].dev = p.dev,
             \A k \in DOMAIN evidence : j < k => evidence[k].dev # p.dev
      PROVE  e.prev = Hash(j)
  <2>1. j \in of("dev", p.dev)
    BY <1>8
  <2>2. Bounded(of("dev", p.dev)) /\ of("dev", p.dev) # {}
    BY <1>5, <2>1, ZenonT(20)
  <2>3. Greatest(of("dev", p.dev)) = j
    <3>1. PICK g : g = Greatest(of("dev", p.dev))
      BY ZenonT(20)
    <3>2. g \in of("dev", p.dev) /\ j <= g
      BY <2>1, <2>2, <3>1 DEF Bounded
    <3>3. g \in 1..n /\ j \in 1..n /\ ~(j < g)
      BY <1>4, <1>8, <3>2
    <3> QED BY <3>1, <3>2, <3>3, SMTT(20)
  <2>4. hash("dev", p.dev) = Hash(j)
    BY <1>3, <2>2, <2>3
  <2>5. Hash(j) # <<>>
    BY DEF Hash, record_chain_hash
  <2> QED BY <1>1, <2>4, <2>5
<1> QED BY <1>1, <1>2, <1>7, <1>8

(* create_evidence keeps the chain.                                        *)
LEMMA ChainAppended ==
  ASSUME ChainOK, NEW p, create_evidence(p), UNCHANGED damaged
  PROVE  ChainOK'
<1>e. PICK e : e = Linked(p)
  OBVIOUS
<1>n. PICK n : n = Len(evidence)
  BY ZenonT(20)
<1>1. /\ IsSeq(evidence') /\ n \in Nat /\ DOMAIN evidence = 1..n /\ DOMAIN evidence' = 1..n + 1
      /\ \A i \in 1..n : evidence'[i] = evidence[i]
      /\ evidence'[n + 1] = e
  BY <1>e, <1>n, Appended, SMTT(20) DEF ChainOK, create_evidence
<1>2. /\ DOMAIN e = ChainFields /\ e.dev = p.dev /\ e.hash = canonical_payload_hash(e)
      /\ e.prev = <<>> \/ \E x \in DOMAIN evidence : e.prev = Hash(x)
      /\ p.dev # None =>
           \A j \in DOMAIN evidence :
             /\ evidence[j].dev = p.dev
             /\ \A k \in DOMAIN evidence : j < k => evidence[k].dev # p.dev
             => e.prev = Hash(j)
  BY <1>e, LinkedFacts
<1>3. \A i \in 1..n : Hash(i)' = Hash(i)
  BY <1>1 DEF Hash
<1>4. \A i \in DOMAIN evidence' : DOMAIN evidence'[i] = ChainFields
  BY <1>1, <1>2, SMTT(20) DEF ChainOK
<1>5. HashesOK'
  BY <1>1, <1>2, SMTT(20) DEF ChainOK, HashesOK, canonical_payload_hash
<1>6. LinksOK'
  <2> SUFFICES ASSUME NEW i \in 1..n + 1, NEW j \in 1..n + 1, Undamaged(evidence[i].dev)',
                      Before(j, i)'
               PROVE  evidence'[i].prev = Hash(j)'
    BY <1>1 DEF LinksOK
  <2>1. j \in 1..n /\ j < i
    BY <1>1, SMTT(20) DEF Before
  <2>2. CASE i \in 1..n
    <3>1. Before(j, i)
      BY <1>1, <2>1, <2>2, SMTT(20) DEF Before, Same
    <3>2. Undamaged(evidence[i].dev)
      BY <1>1, <2>2 DEF Undamaged
    <3> QED BY <1>1, <1>3, <2>1, <2>2, <3>1, <3>2 DEF ChainOK, LinksOK
  <2>3. CASE i = n + 1
    <3>1. evidence[j].dev = p.dev /\ p.dev # None
      BY <1>1, <1>2, <2>1, <2>3 DEF Before, Same
    <3>2. \A k \in 1..n : j < k => evidence[k].dev # p.dev
      BY <1>1, <1>2, <2>1, <2>3, SMTT(20) DEF Before
    <3> QED BY <1>1, <1>2, <1>3, <2>1, <2>3, <3>1, <3>2, SMTT(20)
  <2> QED BY <1>1, <2>2, <2>3, SMTT(20)
<1>7. ASSUME damaged' = {} PROVE StartsOK'
  <2>0. StartsOK
    BY <1>7 DEF ChainOK
  <2> SUFFICES ASSUME NEW i \in 1..n + 1, evidence'[i].dev # None,
                      \A j \in 1..n + 1 : j < i => ~Same(i, j)', evidence'[i].prev # <<>>
               PROVE  \E x \in 1..n + 1 : evidence'[x].dev # evidence'[i].dev
                                          /\ evidence'[i].prev = Hash(x)'
    BY <1>1, SMTT(20) DEF StartsOK
  <2>1. CASE i \in 1..n
    <3>1. \A j \in 1..n : j < i => ~Same(i, j)
      BY <1>1, <2>1, SMTT(20) DEF Same
    <3>2. PICK x \in 1..n : evidence[x].dev # evidence[i].dev /\ evidence[i].prev = Hash(x)
      BY <1>1, <2>0, <2>1, <3>1 DEF StartsOK
    <3> QED BY <1>1, <1>3, <2>1, <3>2, SMTT(20)
  <2>2. CASE i = n + 1
    <3>1. PICK x \in 1..n : e.prev = Hash(x)
      BY <1>1, <1>2, <2>2
    <3>2. evidence'[x].dev # evidence'[i].dev
      BY <1>1, <2>2, SMTT(20) DEF Same
    <3> QED BY <1>1, <1>3, <2>2, <3>1, <3>2, SMTT(20)
  <2> QED BY <1>1, <2>1, <2>2, SMTT(20)
<1>8. ASSUME damaged' = {} PROVE DistinctOK'
  <2>0. StartsOK /\ DistinctOK /\ damaged = {}
    BY <1>8 DEF ChainOK
  <2> SUFFICES ASSUME NEW i \in 1..n + 1, NEW j \in 1..n + 1, j < i, Same(i, j)'
               PROVE  Hash(j)' # Hash(i)'
    BY <1>1 DEF DistinctOK
  <2>1. j \in 1..n
    BY <1>1, SMTT(20)
  <2>2. CASE i \in 1..n
    BY <1>1, <1>3, <2>0, <2>1, <2>2 DEF DistinctOK, Same
  <2>3. CASE i = n + 1
    <3> DEFINE mine == {k \in 1..n : evidence[k].dev = p.dev}
    <3>0. p.dev # None /\ evidence[j].dev = p.dev
      BY <1>1, <1>2, <2>1, <2>3 DEF Same
    <3>1. mine \in SUBSET (1..n) /\ j \in mine
      BY <2>1, <3>0
    <3>2. PICK g \in mine : \A k \in mine : k <= g
      <4> HIDE DEF mine
      <4> QED BY <1>1, <3>1, IndexBounds, ZenonT(20) DEF Bounded
    <3>3. e.prev = Hash(g)
      BY <1>1, <1>2, <3>0, <3>2, SMTT(20)
    <3> SUFFICES ASSUME Hash(j)' = Hash(i)' PROVE FALSE
      OBVIOUS
    <3>4. evidence[j].prev = Hash(g)
      BY <1>1, <2>1, <2>3, <3>3 DEF Hash, record_chain_hash
    <3>5. CASE \E k \in mine : k < j
      <4> DEFINE early == {k \in mine : k < j}
      <4>1. early \in SUBSET (1..n) /\ early # {}
        BY <3>5
      <4>2. PICK q \in early : \A k \in early : k <= q
        <5> HIDE DEF early
        <5> QED BY <1>1, <4>1, IndexBounds, ZenonT(20) DEF Bounded
      <4>3. Before(q, j)
        BY <1>1, <2>1, <3>0, <4>2, SMTT(20) DEF Before, Same
      <4>4. evidence[j].prev = Hash(q)
        BY <1>1, <2>0, <2>1, <4>2, <4>3 DEF ChainOK, LinksOK, Undamaged
      <4>5. q < g /\ Same(g, q)
        BY <3>0, <3>1, <3>2, <4>2, SMTT(20) DEF Same
      <4> QED BY <1>1, <2>0, <3>2, <3>4, <4>2, <4>4, <4>5, ZenonT(20) DEF DistinctOK
    <3>6. CASE \A k \in mine : ~(k < j)
      <4>1. Hash(g) # <<>>
        BY DEF Hash, record_chain_hash
      <4>2. PICK x \in 1..n : evidence[x].dev # p.dev /\ evidence[j].prev = Hash(x)
        BY <1>1, <2>0, <2>1, <3>0, <3>4, <3>6, <4>1, SMTT(20) DEF StartsOK, Same
      <4>3. evidence[x].hash = evidence[g].hash
        BY <3>4, <4>2, SMTT(20) DEF Hash, record_chain_hash
      <4>4. evidence[x].hash[2] = evidence[x].dev /\ evidence[g].hash[2] = evidence[g].dev
        BY <1>1, <2>0, <3>2, <4>2, SMTT(20) DEF ChainOK, HashesOK, canonical_payload_hash
      <4> QED BY <3>2, <4>2, <4>3, <4>4
    <3> QED BY <3>5, <3>6
  <2> QED BY <1>1, <2>2, <2>3, SMTT(20)
<1>9. ASSUME NEW q \in damaged' PROVE q = <<q[1], q[2]>> /\ Shows(q)'
  <2>1. q = <<q[1], q[2]>> /\ Shows(q)
    BY <1>9 DEF ChainOK
  <2>2. \A i \in 1..n : Match(i, q)' <=> Match(i, q)
    BY <1>1 DEF Match, filter_matches
  <2>3. Tampered(q) => Tampered(q)'
    BY <1>1, <2>2, SMTT(20) DEF Tampered, canonical_payload_hash
  <2>4. Gap(q) => Gap(q)'
    BY <1>1, <1>3, <2>2, SMTT(20) DEF Gap
  <2>5. (\E i \in DOMAIN evidence : evidence[i].tenant = q[1] /\ evidence[i].dev = q[2])
        => (\E i \in DOMAIN evidence' : evidence'[i].tenant = q[1] /\ evidence'[i].dev = q[2])
    BY <1>1, SMTT(20)
  <2> QED BY <2>1, <2>3, <2>4, <2>5 DEF Shows
<1> QED BY <1>1, <1>4, <1>5, <1>6, <1>7, <1>8, <1>9 DEF ChainOK

(* A record that is altered shows at its hash.                             *)
LEMMA ChainAltered ==
  ASSUME ChainOK, NEW i, AlterRecord(i)
  PROVE  ChainOK'
<1>1. /\ damaged = {} /\ i \in DOMAIN evidence /\ evidence[i].type # "altered"
      /\ evidence' = [evidence EXCEPT ![i].type = "altered"]
      /\ damaged' = {<<evidence[i].tenant, evidence[i].dev>>}
  BY DEF AlterRecord
<1>2. /\ DOMAIN evidence' = DOMAIN evidence
      /\ \A k \in DOMAIN evidence : k # i => evidence'[k] = evidence[k]
      /\ evidence'[i] = [evidence[i] EXCEPT !.type = "altered"]
  BY <1>1
<1>3. DOMAIN evidence'[i] = ChainFields /\ evidence'[i].type = "altered"
      /\ \A f \in ChainFields \ {"type"} : evidence'[i][f] = evidence[i][f]
  BY <1>1, <1>2 DEF ChainOK, ChainFields
<1>4. \A k \in DOMAIN evidence : /\ evidence'[k].dev = evidence[k].dev /\ evidence'[k].prev = evidence[k].prev
                                 /\ evidence'[k].tenant = evidence[k].tenant
                                 /\ evidence'[k].hash = evidence[k].hash
                                 /\ evidence'[k].id = evidence[k].id
  BY <1>2, <1>3 DEF ChainFields
<1>5. \A k \in DOMAIN evidence : Hash(k)' = Hash(k)
  BY <1>4 DEF Hash, record_chain_hash
<1>6. IsSeq(evidence')
  <2>1. PICK S : evidence \in Seq(S)
    BY DEF ChainOK, IsSeq
  <2>2. evidence' \in Seq(S \cup {evidence'[i]})
    BY <1>1, <1>2, <2>1, SMTT(20)
  <2> QED BY <2>2 DEF IsSeq
<1>7. HashesOK'
  BY <1>1, <1>2, SMTT(20) DEF ChainOK, HashesOK, canonical_payload_hash
<1>8. LinksOK'
  <2> SUFFICES ASSUME NEW k \in DOMAIN evidence, NEW j \in DOMAIN evidence, Before(j, k)'
               PROVE  evidence'[k].prev = Hash(j)'
    BY <1>2 DEF LinksOK
  <2>1. Before(j, k)
    BY <1>2, <1>4 DEF Before, Same
  <2> QED BY <1>1, <1>4, <1>5, <2>1, SMTT(20) DEF ChainOK, LinksOK, Undamaged
<1>9. ASSUME NEW q \in damaged' PROVE q = <<q[1], q[2]>> /\ Shows(q)'
  <2>1. q = <<evidence[i].tenant, evidence[i].dev>> /\ q[1] = evidence[i].tenant /\ q[2] = evidence[i].dev
    BY <1>1, <1>9, SMTT(20)
  <2>2. evidence'[i].tenant = q[1] /\ evidence'[i].dev = q[2] /\ i \in DOMAIN evidence'
    BY <1>1, <1>2, <1>4, <2>1, ZenonT(20)
  <2>3. evidence[i].hash[3] = evidence[i].type
    BY <1>1, SMTT(20) DEF ChainOK, HashesOK, canonical_payload_hash
  <2>4. canonical_payload_hash(evidence'[i])[3] = "altered"
    BY <1>3 DEF canonical_payload_hash
  <2>5. Tampered(q)'
    BY <1>1, <1>4, <2>2, <2>3, <2>4, SMTT(20) DEF Tampered, Match, filter_matches
  <2> QED BY <2>1, <2>2, <2>5 DEF Shows
<1>10. damaged' # {}
  BY <1>1, ZenonT(20)
<1> QED BY <1>2, <1>3, <1>6, <1>7, <1>8, <1>9, <1>10 DEF ChainOK

(* What is left of a sequence without its element i.                       *)
LEMMA Removed ==
  ASSUME NEW s, IsSeq(s), NEW i \in DOMAIN s
  PROVE  LET r == SubSeq(s, 1, i - 1) \o SubSeq(s, i + 1, Len(s))
         IN /\ IsSeq(r) /\ Len(s) \in Nat /\ DOMAIN s = 1..Len(s) /\ DOMAIN r = 1..Len(s) - 1
            /\ \A k \in 1..Len(s) - 1 : r[k] = s[IF k < i THEN k ELSE k + 1]
<1>1. PICK S : s \in Seq(S)
  BY DEF IsSeq
<1> DEFINE a == SubSeq(s, 1, i - 1)
           b == SubSeq(s, i + 1, Len(s))
<1>2. Len(s) \in Nat /\ DOMAIN s = 1..Len(s) /\ i \in 1..Len(s)
  BY <1>1, SMTT(20)
<1>3. a \in Seq(S) /\ Len(a) = i - 1 /\ \A k \in 1..i - 1 : a[k] = s[k]
  BY <1>1, <1>2, SMTT(20)
<1>4. b \in Seq(S) /\ Len(b) = Len(s) - i /\ \A k \in 1..Len(s) - i : b[k] = s[i + k]
  BY <1>1, <1>2, SMTT(20)
<1> HIDE DEF a, b
<1>5. /\ a \o b \in Seq(S) /\ DOMAIN (a \o b) = 1..Len(a) + Len(b)
      /\ \A k \in 1..Len(a) : (a \o b)[k] = a[k]
      /\ \A k \in Len(a) + 1..Len(a) + Len(b) : (a \o b)[k] = b[k - Len(a)]
  BY <1>3, <1>4, Joined, ZenonT(40)
<1>8. ASSUME NEW k \in 1..Len(s) - 1, k < i PROVE (a \o b)[k] = s[k]
  BY <1>2, <1>3, <1>5, <1>8, SMTT(20)
<1>9. ASSUME NEW k \in 1..Len(s) - 1, ~(k < i) PROVE (a \o b)[k] = s[k + 1]
  <2>1. k \in Len(a) + 1..Len(a) + Len(b) /\ k - Len(a) \in 1..Len(s) - i /\ i + (k - Len(a)) = k + 1
    BY <1>2, <1>3, <1>4, <1>9, SMTT(20)
  <2> QED BY <1>4, <1>5, <2>1
<1>10. DOMAIN (a \o b) = 1..Len(s) - 1
  BY <1>2, <1>3, <1>4, <1>5, SMTT(20)
<1> QED BY <1>2, <1>5, <1>8, <1>9, <1>10, ZenonT(20) DEF IsSeq, a, b

(* A record lost from between two others shows at the later one's link.    *)
LEMMA ChainCut ==
  ASSUME ChainOK, NEW i, LoseRecord(i)
  PROVE  ChainOK'
<1>n. PICK n : n = Len(evidence)
  BY ZenonT(20)
<1>1. /\ damaged = {} /\ i \in DOMAIN evidence /\ Inner(i)
      /\ evidence' = SubSeq(evidence, 1, i - 1) \o SubSeq(evidence, i + 1, Len(evidence))
      /\ damaged' = {<<evidence[i].tenant, evidence[i].dev>>}
  BY DEF LoseRecord
<1> DEFINE old(k) == IF k < i THEN k ELSE k + 1
           new(k) == IF k < i THEN k ELSE k - 1
<1>2. /\ IsSeq(evidence') /\ n \in Nat /\ DOMAIN evidence = 1..n /\ DOMAIN evidence' = 1..n - 1
      /\ \A k \in 1..n - 1 : evidence'[k] = evidence[old(k)]
  BY <1>1, <1>n, Removed, ZenonT(20) DEF ChainOK
<1>i. i \in 1..n /\ n \in Nat
  BY <1>1, <1>2
<1>3. /\ \A k \in 1..n - 1 : old(k) \in 1..n /\ old(k) # i /\ new(old(k)) = k
      /\ \A k \in 1..n : k # i => new(k) \in 1..n - 1 /\ old(new(k)) = k
  BY <1>i, SMTT(20)
<1>f. /\ \A k, m \in 1..n - 1 : k < m => old(k) < old(m)
      /\ \A k, m \in 1..n : k # i /\ m # i /\ k < m => new(k) < new(m)
  BY <1>i, SMTT(20)
<1> HIDE DEF old, new
<1>4. \A k \in 1..n - 1 : Hash(k)' = Hash(old(k))
  BY <1>2 DEF Hash
<1>5. HashesOK'
  <2> SUFFICES ASSUME NEW k \in 1..n - 1
               PROVE  evidence'[k].hash = canonical_payload_hash(evidence'[k])
    BY <1>2 DEF HashesOK
  <2>1. evidence[old(k)].hash = canonical_payload_hash(evidence[old(k)])
    BY <1>1, <1>2, <1>3 DEF ChainOK, HashesOK
  <2> QED BY <1>2, <2>1
<1>6. LinksOK'
  <2> SUFFICES ASSUME NEW k \in 1..n - 1, NEW j \in 1..n - 1, Undamaged(evidence[k].dev)', Before(j, k)'
               PROVE  evidence'[k].prev = Hash(j)'
    BY <1>2 DEF LinksOK
  <2>1. evidence'[k].dev # evidence[i].dev
    BY <1>1, ZenonT(20) DEF Undamaged
  <2>2. ASSUME NEW m \in 1..n, old(j) < m, m < old(k) PROVE evidence[m].dev # evidence[old(k)].dev
    <3>1. CASE m = i
      BY <1>2, <2>1, <3>1
    <3>2. CASE m # i
      <4>1. new(m) \in 1..n - 1 /\ old(new(m)) = m /\ j < new(m) /\ new(m) < k
        BY <1>i, <1>3, <1>f, <2>2, <3>2, SMTT(20)
      <4>2. evidence'[new(m)].dev # evidence'[k].dev
        BY <1>2, <4>1 DEF Before
      <4> QED BY <1>2, <4>1, <4>2
    <3> QED BY <3>1, <3>2
  <2>3. Before(old(j), old(k))
    BY <1>2, <1>3, <1>f, <2>2 DEF Before, Same
  <2>4. evidence[old(k)].prev = Hash(old(j))
    BY <1>1, <1>2, <1>3, <2>3, ZenonT(20) DEF ChainOK, LinksOK, Undamaged
  <2> QED BY <1>2, <1>4, <2>4
<1>7. ASSUME NEW q \in damaged' PROVE q = <<q[1], q[2]>> /\ Shows(q)'
  <2>1. q = <<evidence[i].tenant, evidence[i].dev>> /\ q[1] = evidence[i].tenant /\ q[2] = evidence[i].dev
    BY <1>1, <1>7, SMTT(20)
  <2>n. q[2] # None
    BY <1>1, <2>1 DEF Inner
  <2> DEFINE M == {m \in 1..n : Match(m, q)}
             low == {m \in M : m < i}
             high == {m \in M : i < m}
  <2>2. PICK a \in 1..n : a < i /\ evidence[a].dev = q[2] /\ evidence[a].tenant = q[1]
    BY <1>1, <1>2, <2>1, ZenonT(20) DEF Inner
  <2>3. PICK b \in 1..n : i < b /\ evidence[b].dev = q[2] /\ evidence[b].tenant = q[1]
    BY <1>1, <1>2, <2>1, ZenonT(20) DEF Inner
  <2>4. low \in SUBSET (1..n) /\ high \in SUBSET (1..n) /\ a \in low /\ b \in high
    BY <2>2, <2>3 DEF Match, filter_matches
  <2>5. PICK j \in low : \A m \in low : m <= j
    <3> HIDE DEF low
    <3> QED BY <1>2, <2>4, IndexBounds, ZenonT(20) DEF Bounded
  <2>6. PICK k \in high : \A m \in high : k <= m
    <3> HIDE DEF high
    <3> QED BY <1>2, <2>4, IndexBounds, ZenonT(20) DEF Bounded
  <2>7. /\ j \in 1..n /\ k \in 1..n /\ j < i /\ i < k /\ Match(j, q) /\ Match(k, q)
        /\ \A m \in 1..n : j < m /\ m < k /\ m # i => ~Match(m, q)
    BY <1>i, <2>5, <2>6, SMTT(20)
  <2>8. evidence[j].dev = q[2] /\ evidence[k].dev = q[2]
    BY <2>1, <2>n, <2>7 DEF Match, filter_matches
  <2>9. evidence[k].prev # Hash(j)
    <3> DEFINE mine == {m \in 1..n : m < k /\ evidence[m].dev = q[2]}
    <3>1. mine \in SUBSET (1..n) /\ i \in mine
      BY <1>i, <2>1, <2>7
    <3>2. PICK g \in mine : \A m \in mine : m <= g
      <4> HIDE DEF mine
      <4> QED BY <1>2, <3>1, IndexBounds, ZenonT(20) DEF Bounded
    <3>3. g \in 1..n /\ g < k /\ evidence[g].dev = q[2] /\ j < g
      BY <1>i, <2>7, <3>1, <3>2, SMTT(20)
    <3>4. Before(g, k)
      BY <1>2, <2>n, <2>7, <2>8, <3>2, <3>3, SMTT(20) DEF Before, Same
    <3>5. evidence[k].prev = Hash(g)
      BY <1>1, <1>2, <2>7, <3>3, <3>4 DEF ChainOK, LinksOK, Undamaged
    <3>6. Hash(j) # Hash(g)
      BY <1>1, <1>2, <2>n, <2>7, <2>8, <3>3 DEF ChainOK, DistinctOK, Same
    <3> QED BY <3>5, <3>6
  <2>10. /\ new(j) \in 1..n - 1 /\ new(k) \in 1..n - 1 /\ old(new(j)) = j /\ old(new(k)) = k
         /\ new(j) < new(k)
    BY <1>i, <1>3, <1>f, <2>7, SMTT(20)
  <2>11. \A m \in 1..n - 1 : Match(m, q)' <=> Match(old(m), q)
    BY <1>2 DEF Match, filter_matches
  <2>12. ASSUME NEW m \in 1..n - 1, new(j) < m, m < new(k) PROVE ~Match(m, q)'
    <3>1. old(m) \in 1..n /\ old(m) # i /\ j < old(m) /\ old(m) < k
      BY <1>i, <1>3, <1>f, <2>10, <2>12, SMTT(20)
    <3> QED BY <2>7, <2>11, <3>1
  <2>13. evidence'[new(k)].prev # Hash(new(j))'
    BY <1>2, <1>4, <2>9, <2>10
  <2>14. Gap(q)'
    BY <1>2, <2>7, <2>10, <2>11, <2>12, <2>13 DEF Gap
  <2>15. \E m \in DOMAIN evidence' : evidence'[m].tenant = q[1] /\ evidence'[m].dev = q[2]
    <3>1. new(a) \in 1..n - 1 /\ old(new(a)) = a
      BY <1>i, <1>3, <2>2, SMTT(20)
    <3> QED BY <1>2, <2>2, <3>1
  <2> QED BY <2>1, <2>n, <2>14, <2>15 DEF Shows
<1>8. \A k \in DOMAIN evidence' : DOMAIN evidence'[k] = ChainFields
  BY <1>2, <1>3 DEF ChainOK
<1>9. damaged' # {}
  BY <1>1, ZenonT(20)
<1> QED BY <1>2, <1>5, <1>6, <1>7, <1>8, <1>9 DEF ChainOK

(* Evidence is added, altered or lost, or stays.                           *)
LEMMA EvidenceSteps ==
  ASSUME [ENext]_allvars
  PROVE  \/ \E p : create_evidence(p) /\ UNCHANGED damaged
         \/ \E i : AlterRecord(i) \/ LoseRecord(i)
         \/ UNCHANGED <<evidence, damaged>>
<1>1. CASE ENext
  <2>1. CASE EdgeNext
    BY <2>1, ZenonT(20) DEF EdgeNext, RegisterInFleet, AskPolicy, emit_trust_evidence, SaveJob, RunDriver, vvars
  <2>2. CASE VStep
    BY <2>2 DEF VStep, VeilNext, VeilTorn, PostEvidence, PreviewPolicy, VeilSwitch, vvars
  <2>3. CASE EdgeTorn \/ EdgeRestart
    BY <2>3 DEF EdgeTorn, EdgeRestart, VeilRestart, vvars
  <2> QED BY <1>1, <2>1, <2>2, <2>3 DEF ENext, EStep
<1>2. CASE UNCHANGED allvars
  BY <1>2 DEF allvars, vvars
<1> QED BY <1>1, <1>2

(* The chain is sound in every state of the server.                        *)
LEMMA ChainInvariant == ESpec => []ChainOK
<1>1. VInit => ChainOK
  <2> SUFFICES ASSUME evidence = <<>>, damaged = {} PROVE ChainOK
    BY DEF VInit
  <2>1. IsSeq(evidence) /\ DOMAIN evidence = {}
    BY SMTT(20) DEF IsSeq
  <2> QED BY <2>1 DEF ChainOK, HashesOK, LinksOK, StartsOK, DistinctOK
<1>2. ChainOK /\ [ENext]_allvars => ChainOK'
  <2> SUFFICES ASSUME ChainOK, [ENext]_allvars PROVE ChainOK'
    OBVIOUS
  <2>1. CASE UNCHANGED <<evidence, damaged>>
    BY <2>1, SMTT(20) DEF ChainOK, HashesOK, LinksOK, StartsOK, DistinctOK, Shows, Tampered, Gap, Match, Hash,
                Before, Same, Undamaged
  <2> QED BY <2>1, EvidenceSteps, ChainAppended, ChainAltered, ChainCut
<1> QED BY <1>1, <1>2, PTL DEF ESpec, allvars

(* verify_chain and the export find damage, and nothing but damage.        *)
THEOREM ChainTellsDamage == ESpec => []ChainIsExact
  BY ChainInvariant, ChainMeaning, PTL

-----------------------------------------------------------------------------
(***************************************************************************)
(* Evidence of commands.  A result, or a job that is about to store one,   *)
(* claims evidence of a type; what makes EvidenceBacked inductive is that  *)
(* a job claims nothing before it has reached the evidence, asks there for *)
(* the type that it claims, and is counted as soon as it has it.           *)
(***************************************************************************)
EvTypes == {"edge_command_executed", "edge_policy_denied_command", "unsupported_command_rejected"}
Claims(x, type) ==
  \/ type = "edge_command_executed" /\ high_risk_command(x.command) /\ x.executed
  \/ type = "edge_policy_denied_command" /\ x.reason = "policy_denied"
  \/ /\ type = "unsupported_command_rejected"
     /\ x.reason \in {"unsupported_command", "missing_capability"}
Claimed(d, c, type) == {i \in Stored(d, c) : Claims(results[i], type)}
Due(d, c, type) ==
  IF \E j \in job : j.stage = "save" /\ j.dev = d /\ j.command = c /\ Claims(j, type) THEN 1 ELSE 0

Asks(j) ==
  /\ j.stage \in {"fleet", "policy", "driver"} => j.executed = FALSE /\ j.reason = ""
  /\ j.stage = "evidence" => \A type \in EvTypes : Claims(j, type) => j.type = type
Unclaimed(j) == j.stage = "save" => \A type \in EvTypes : ~Claims(j, type)

Backed(d, c, type) ==
  Cardinality(Claimed(d, c, type)) + Due(d, c, type) <= Cardinality(Proof(d, c, type))
ClaimsOK ==
  /\ IsSeq(results)
  /\ \A j \in job : Asks(j)
  /\ damaged = {} => \A d \in Devices, c \in Commands, type \in EvTypes : Backed(d, c, type)

(* A job that was neither executed nor refused claims nothing.             *)
LEMMA NoClaim ==
  ASSUME NEW x, x.executed = FALSE, NEW type,
         x.reason \notin {"policy_denied", "unsupported_command", "missing_capability"}
  PROVE  ~Claims(x, type)
  BY DEF Claims

(* The checks of execute_command ask for the evidence of what they refuse. *)
LEMMA ScreenedAsks ==
  ASSUME NEW r
  PROVE  Asks(Screened(r)) /\ Unclaimed(Screened(r))
<1> DEFINE Step(stage, rec, type, reason) ==
             Screened(r) = Job(stage, r.dev, rec, type, r.at, r.command, FALSE, reason)
<1>1. \E rec :
        \/ Step("save", rec, "", "unknown_device")
        \/ Step("evidence", rec, "unsupported_command_rejected", "unsupported_command")
        \/ Step("evidence", rec, "unsupported_command_rejected", "missing_capability")
        \/ Step("save", rec, "", "device_offline")
        \/ Step("policy", rec, "", "")
        \/ Step("driver", rec, "", "")
  BY DEF Screened
<1>2. PICK stage, rec, type, reason :
        /\ Step(stage, rec, type, reason)
        /\ \/ stage = "save" /\ reason \in {"unknown_device", "device_offline"}
           \/ /\ stage = "evidence" /\ type = "unsupported_command_rejected"
              /\ reason \in {"unsupported_command", "missing_capability"}
           \/ stage \in {"policy", "driver"} /\ reason = ""
  BY <1>1
<1> DEFINE j == Job(stage, r.dev, rec, type, r.at, r.command, FALSE, reason)
<1>3. Screened(r) = j
  BY <1>2
<1>4. j.stage = stage /\ j.type = type /\ j.executed = FALSE /\ j.reason = reason
  BY DEF Job
<1> HIDE DEF j
<1>5. CASE stage = "evidence"
  <2>1. reason # "policy_denied" /\ type = "unsupported_command_rejected"
    BY <1>2, <1>5
  <2>2. \A t \in EvTypes : Claims(j, t) => t = type
    BY <1>4, <2>1 DEF Claims
  <2> QED BY <1>3, <1>4, <1>5, <2>2 DEF Asks, Unclaimed
<1>6. CASE stage # "evidence"
  <2>1. reason \notin {"policy_denied", "unsupported_command", "missing_capability"}
    BY <1>2, <1>6
  <2>2. \A t \in EvTypes : ~Claims(j, t)
    BY <1>4, <2>1, NoClaim
  <2>3. stage \in {"fleet", "policy", "driver"} => reason = ""
    BY <1>2
  <2> QED BY <1>3, <1>4, <1>6, <2>2, <2>3 DEF Asks, Unclaimed
<1> QED BY <1>5, <1>6

(* So do the answer of the policy and the driver.                          *)
LEMMA DrivenAsks ==
  ASSUME NEW j, JobShape(j), Asks(j), j.stage = "driver", NEW ok \in BOOLEAN
  PROVE  /\ Asks(Driven(j, ok)) /\ Unclaimed(Driven(j, ok))
         /\ Asks([j EXCEPT !.stage = "save", !.reason = "driver_missing"])
         /\ Unclaimed([j EXCEPT !.stage = "save", !.reason = "driver_missing"])
<1> DEFINE k == Driven(j, ok)
           m == [j EXCEPT !.stage = "save", !.reason = "driver_missing"]
<1>1. /\ k.reason \in {"driver_executed", "driver_unhealthy"} /\ k.command = j.command
      /\ k.stage \in {"evidence", "save"}
      /\ k.stage = "evidence" => k.type = "edge_command_executed"
      /\ k.stage = "save" => ~high_risk_command(k.command)
  BY ZenonT(20) DEF Driven, JobShape, JobFields
<1>2. m.stage = "save" /\ m.reason = "driver_missing" /\ m.executed = FALSE
  BY DEF JobShape, JobFields, Asks
<1> HIDE DEF k, m
<1>3. Asks(k) /\ Unclaimed(k)
  BY <1>1 DEF Asks, Unclaimed, Claims
<1>4. Asks(m) /\ Unclaimed(m)
  <2>1. \A t \in EvTypes : ~Claims(m, t)
    BY <1>2, NoClaim
  <2> QED BY <1>2, <2>1 DEF Asks, Unclaimed
<1> QED BY <1>3, <1>4 DEF k, m

(* A job of the platform asks for the evidence that it claims, and only    *)
(* emit_trust_evidence and SaveJob move one that claims any.               *)
LEMMA ClaimSteps ==
  ASSUME JobsOK, \A j \in job : Asks(j), [ENext]_allvars
  PROVE  \/ UNCHANGED <<job, results>>
         \/ UNCHANGED results /\ \A j \in job' : Asks(j) /\ Unclaimed(j)
         \/ emit_trust_evidence
         \/ SaveJob
<1> DEFINE Fresh == UNCHANGED results /\ \A j \in job' : Asks(j) /\ Unclaimed(j)
<1>0. ASSUME NEW j, job' = {j}, UNCHANGED results, Asks(j), Unclaimed(j) PROVE Fresh
  BY <1>0
<1>1. ASSUME NEW d, NEW rec, NEW at, NEW stage \in {"fleet", "evidence"}, NEW type,
             job' = {Job(stage, d, rec, type, at, "", FALSE, "")}, UNCHANGED results
      PROVE  Fresh
  <2> DEFINE j == Job(stage, d, rec, type, at, "", FALSE, "")
  <2>1. j.executed = FALSE /\ j.reason = "" /\ j.stage = stage
    BY DEF Job
  <2>2. job' = {j}
    BY <1>1
  <2> HIDE DEF j
  <2>3. \A t \in EvTypes : ~Claims(j, t)
    BY <2>1, NoClaim
  <2> QED BY <1>0, <1>1, <2>1, <2>2, <2>3 DEF Asks, Unclaimed
<1>2. ASSUME EdgeLocal PROVE Fresh \/ UNCHANGED <<job, results>>
  <2>1. CASE \E t \in Tenants, d \in Devices, o \in Orgs, k \in Kinds, caps \in CapSets,
                driver \in BOOLEAN : register_device_edge(t, d, o, k, caps, driver)
    BY <1>1, <2>1 DEF register_device_edge
  <2>2. CASE \E t \in Tenants, d \in Devices, bad \in 0..1, at \in EdgeTimes :
                update_inventory_edge(t, d, bad, at)
    BY <1>1, <2>2 DEF update_inventory_edge
  <2>3. CASE execute_command
    BY <1>0, <2>3, ScreenedAsks DEF execute_command
  <2> QED BY <1>2, <2>1, <2>2, <2>3 DEF EdgeLocal, AdmitCommand, register_capability, simulate
<1>3. CASE RegisterInFleet
  <2>1. PICK j \in job : j.stage = "fleet" /\ job' = {[j EXCEPT !.stage = "evidence"]}
    BY <1>3 DEF RegisterInFleet
  <2> DEFINE k == [j EXCEPT !.stage = "evidence"]
  <2>2. k.executed = FALSE /\ k.reason = "" /\ k.stage = "evidence"
    BY <2>1 DEF Asks, JobsOK, JobShape, JobFields
  <2>3. job' = {k} /\ UNCHANGED results
    BY <1>3, <2>1 DEF RegisterInFleet
  <2> HIDE DEF k
  <2>4. \A t \in EvTypes : ~Claims(k, t)
    BY <2>2, NoClaim
  <2> QED BY <1>0, <2>2, <2>3, <2>4 DEF Asks, Unclaimed
<1>4. CASE AskPolicy
  <2> DEFINE Yes(j, n) == [j EXCEPT !.stage = "driver", !.decision = n]
             No(j) == [j EXCEPT !.stage = "evidence", !.type = "edge_policy_denied_command",
                                !.reason = "policy_denied"]
  <2>1. \E j \in job : \E n : j.stage = "policy" /\ (job' = {Yes(j, n)} \/ job' = {No(j)})
    BY <1>4 DEF AskPolicy
  <2>2. PICK j, n : j \in job /\ j.stage = "policy" /\ (job' = {Yes(j, n)} \/ job' = {No(j)})
    BY <2>1
  <2>3. /\ Yes(j, n).executed = FALSE /\ Yes(j, n).reason = "" /\ Yes(j, n).stage = "driver"
        /\ No(j).executed = FALSE /\ No(j).reason = "policy_denied" /\ No(j).stage = "evidence"
        /\ No(j).type = "edge_policy_denied_command"
    BY <2>2 DEF Asks, JobsOK, JobShape, JobFields
  <2>4. UNCHANGED results
    BY <1>4 DEF AskPolicy
  <2> HIDE DEF Yes, No
  <2>5. Asks(Yes(j, n)) /\ Unclaimed(Yes(j, n))
    BY <2>3 DEF Asks, Unclaimed
  <2>6. Asks(No(j)) /\ Unclaimed(No(j))
    BY <2>3 DEF Asks, Unclaimed, Claims
  <2> QED BY <1>0, <2>2, <2>4, <2>5, <2>6
<1>5. ASSUME NEW ok \in BOOLEAN, RunDriver(ok) PROVE Fresh
  <2>1. PICK j \in job : /\ j.stage = "driver"
                         /\ \/ job' = {Driven(j, ok)}
                            \/ job' = {[j EXCEPT !.stage = "save", !.reason = "driver_missing"]}
    BY <1>5 DEF RunDriver
  <2>2. UNCHANGED results
    BY <1>5 DEF RunDriver
  <2> QED BY <1>0, <2>1, <2>2, DrivenAsks DEF JobsOK
<1>6. CASE EdgeNext
  BY <1>2, <1>3, <1>4, <1>5, <1>6 DEF EdgeNext
<1>7. CASE EdgeTorn \/ (VStep /\ UNCHANGED evars) \/ UNCHANGED allvars
  BY <1>7 DEF EdgeTorn, evars, allvars
<1>8. CASE EdgeRestart
  BY <1>8 DEF EdgeRestart
<1> QED BY <1>6, <1>7, <1>8 DEF ENext, EStep

(* New evidence adds to the evidence of its own kind and takes nothing off *)
(* any other.                                                              *)
LEMMA ProofGrows ==
  ASSUME IsSeq(evidence), NEW p, create_evidence(p), NEW d, NEW c, NEW type
  PROVE  /\ Cardinality(Proof(d, c, type)) \in Nat /\ Cardinality(Proof(d, c, type))' \in Nat
         /\ Cardinality(Proof(d, c, type)) <= Cardinality(Proof(d, c, type))'
         /\ (p.dev = d /\ p.about = c /\ p.type = type) =>
              Cardinality(Proof(d, c, type))' = Cardinality(Proof(d, c, type)) + 1
<1> DEFINE n == Len(evidence)
           e == Linked(p)
           A == Proof(d, c, type)
<1>1. /\ n \in Nat /\ DOMAIN evidence = 1..n /\ DOMAIN evidence' = 1..n + 1
      /\ \A i \in 1..n : evidence'[i] = evidence[i]
      /\ evidence'[n + 1] = e
  BY Appended, SMTT(20) DEF create_evidence
<1>2. e.dev = p.dev /\ e.about = p.about /\ e.type = p.type
  BY DEF Linked
<1> HIDE DEF n, e
<1>3. \A i \in A : i \in 1..n
  BY <1>1 DEF Proof
<1>4. \A i : i \in 1..n + 1 <=> i \in 1..n \/ i = n + 1
  BY <1>1, SMTT(20)
<1>5. Proof(d, c, type)' = IF p.dev = d /\ p.about = c /\ p.type = type THEN A \cup {n + 1} ELSE A
  BY <1>1, <1>2, <1>4 DEF Proof
<1> HIDE DEF A
<1>6. Cardinality(A) \in Nat /\ Cardinality(A \cup {n + 1}) = Cardinality(A) + 1
  BY <1>1, <1>3, Counted
<1>7. A = Proof(d, c, type)
  BY DEF A
<1>8. CASE p.dev = d /\ p.about = c /\ p.type = type
  <2>1. Cardinality(Proof(d, c, type))' = Cardinality(A) + 1
    BY <1>5, <1>6, <1>8
  <2> QED BY <1>6, <1>7, <2>1, SMTT(20)
<1>9. CASE ~(p.dev = d /\ p.about = c /\ p.type = type)
  <2>1. Cardinality(Proof(d, c, type))' = Cardinality(A)
    BY <1>5, <1>9
  <2> QED BY <1>6, <1>7, <1>9, <2>1, SMTT(20)
<1> QED BY <1>8, <1>9

(* While no evidence is damaged there is never less of it.                 *)
LEMMA ProofStep ==
  ASSUME IsSeq(evidence), [ENext]_allvars, damaged' = {}, NEW d, NEW c, NEW type
  PROVE  /\ Cardinality(Proof(d, c, type)) \in Nat /\ Cardinality(Proof(d, c, type))' \in Nat
         /\ Cardinality(Proof(d, c, type)) <= Cardinality(Proof(d, c, type))'
         /\ damaged = {}
<1>1. CASE \E p : create_evidence(p) /\ UNCHANGED damaged
  BY <1>1, ProofGrows
<1>2. CASE \E i : AlterRecord(i) \/ LoseRecord(i)
  BY <1>2 DEF AlterRecord, LoseRecord
<1>3. CASE UNCHANGED <<evidence, damaged>>
  <2>1. Cardinality(Proof(d, c, type))' = Cardinality(Proof(d, c, type))
    BY <1>3 DEF Proof
  <2>2. Len(evidence) \in Nat /\ DOMAIN evidence = 1..Len(evidence)
    BY SMTT(20) DEF IsSeq
  <2>3. Cardinality(Proof(d, c, type)) \in Nat
    BY <2>2, Counted DEF Proof
  <2> QED BY <1>3, <2>1, <2>3, SMTT(20)
<1> QED BY <1>1, <1>2, <1>3, EvidenceSteps

(* emit_trust_evidence pays for the claim of its job.                      *)
LEMMA EmitBacks ==
  ASSUME IsSeq(evidence), JobsOK, ClaimsOK, emit_trust_evidence, damaged' = {},
         NEW d \in Devices, NEW c \in Commands, NEW type \in EvTypes
  PROVE  Backed(d, c, type)' /\ \A j \in job' : Asks(j)
<1>1. PICK j \in job :
        /\ j.stage = "evidence"
        /\ create_evidence([id |-> 0, tenant |-> j.rec.tenant, dev |-> j.dev, type |-> j.type,
                            at |-> j.at, about |-> j.command])
        /\ job' = {[j EXCEPT !.stage = "save"]}
  BY DEF emit_trust_evidence
<1>2. PICK p : p.dev = j.dev /\ p.about = j.command /\ p.type = j.type /\ create_evidence(p)
  BY <1>1
<1> DEFINE k == [j EXCEPT !.stage = "save"]
           a == Cardinality(Claimed(d, c, type))
           q == Cardinality(Proof(d, c, type))
<1>3. /\ k.stage = "save" /\ k.dev = j.dev /\ k.command = j.command /\ k.type = j.type
      /\ k.executed = j.executed /\ k.reason = j.reason
  BY DEF JobsOK, JobShape, JobFields
<1>4. job' = {k}
  BY <1>1
<1> HIDE DEF k
<1>5. Claims(k, type) => j.type = type
  BY <1>1, <1>3 DEF ClaimsOK, Asks, Claims
<1>6. /\ Due(d, c, type)' \in {0, 1}
      /\ Due(d, c, type)' = 1 => p.dev = d /\ p.about = c /\ p.type = type
  <2>1. \/ Due(d, c, type)' = 0
        \/ Due(d, c, type)' = 1 /\ p.dev = d /\ p.about = c /\ p.type = type
    BY <1>2, <1>3, <1>4, <1>5 DEF Due
  <2> QED BY <2>1, SMTT(20)
<1>7. /\ q \in Nat /\ q' \in Nat /\ q <= q'
      /\ (p.dev = d /\ p.about = c /\ p.type = type) => q' = q + 1
  <2>1. create_evidence(p)
    BY <1>2
  <2>2. q \in Nat /\ q' \in Nat /\ q <= q'
    BY <2>1, ProofGrows
  <2>3. ASSUME p.dev = d, p.about = c, p.type = type PROVE q' = q + 1
    BY <2>1, <2>3, ProofGrows
  <2> QED BY <2>2, <2>3
<1>8. a' = a
  BY DEF emit_trust_evidence, Claimed, Stored
<1>9. a \in Nat /\ a + Due(d, c, type) <= q /\ Due(d, c, type) \in {0, 1}
  <2>1. Len(results) \in Nat /\ DOMAIN results = 1..Len(results)
    BY SMTT(20) DEF ClaimsOK, IsSeq
  <2>2. a \in Nat
    BY <2>1, Counted DEF Claimed, Stored
  <2>3. damaged = {}
    BY DEF emit_trust_evidence
  <2> QED BY <2>2, <2>3 DEF ClaimsOK, Backed, Due
<1>10. \A x \in job' : Asks(x)
  BY <1>3, <1>4 DEF Asks
<1>11. Backed(d, c, type)' <=> a' + Due(d, c, type)' <= q'
  BY DEF Backed
<1> HIDE DEF a, q
<1>12. a' + Due(d, c, type)' <= q'
  BY <1>6, <1>7, <1>8, <1>9, SMTT(20)
<1> QED BY <1>10, <1>11, <1>12

(* SaveJob stores what was due.                                            *)
LEMMA SaveBacks ==
  ASSUME IsSeq(evidence), ClaimsOK, SaveJob, damaged' = {},
         NEW d \in Devices, NEW c \in Commands, NEW type \in EvTypes
  PROVE  Backed(d, c, type)'
<1> DEFINE n == Len(results)
           A == Claimed(d, c, type)
           q == Cardinality(Proof(d, c, type))
<1>1. PICK j \in job :
        /\ j.stage = "save"
        /\ results' = IF j.command = "" THEN results
                      ELSE Append(results, [dev |-> j.dev, command |-> j.command,
                                            executed |-> j.executed, reason |-> j.reason])
  BY DEF SaveJob
<1>2. n \in Nat /\ DOMAIN results = 1..n
  BY SMTT(20) DEF ClaimsOK, IsSeq
<1>3. \A i \in A : i \in 1..n
  BY <1>2 DEF Claimed, Stored
<1>4. Cardinality(A) \in Nat /\ Cardinality(A \cup {n + 1}) = Cardinality(A) + 1
  BY <1>2, <1>3, Counted
<1>5. Due(d, c, type)' = 0 /\ q' = q /\ damaged = {}
  BY DEF SaveJob, Due, Proof, vvars
<1>6. Cardinality(A) + Due(d, c, type) <= q /\ Due(d, c, type) \in {0, 1} /\ q \in Nat
  <2>1. Len(evidence) \in Nat /\ DOMAIN evidence = 1..Len(evidence)
    BY SMTT(20) DEF IsSeq
  <2>2. q \in Nat
    BY <2>1, Counted DEF Proof
  <2> QED BY <1>5, <2>2 DEF ClaimsOK, Backed, Due
<1>7. CASE j.command = ""
  <2>1. Claimed(d, c, type)' = A
    BY <1>1, <1>7 DEF Claimed, Stored
  <2>2. Cardinality(Claimed(d, c, type))' = Cardinality(A)
    BY <2>1
  <2> HIDE DEF A, q
  <2>3. Cardinality(A) + 0 <= q
    BY <1>4, <1>6, SMTT(20)
  <2> QED BY <1>5, <2>2, <2>3 DEF Backed, q
<1>8. CASE j.command # ""
  <2> DEFINE r == [dev |-> j.dev, command |-> j.command, executed |-> j.executed, reason |-> j.reason]
  <2>1. r.dev = j.dev /\ r.command = j.command /\ r.executed = j.executed /\ r.reason = j.reason
    OBVIOUS
  <2>2. results' = Append(results, r)
    BY <1>1, <1>8
  <2> HIDE DEF r
  <2>3. /\ DOMAIN results' = 1..n + 1 /\ results'[n + 1] = r
        /\ \A i \in 1..n : results'[i] = results[i]
    BY <2>2, Appended, SMTT(20) DEF ClaimsOK
  <2>4. \A i : i \in 1..n + 1 <=> i \in 1..n \/ i = n + 1
    BY <1>2, SMTT(20)
  <2> DEFINE Mine == r.dev = d /\ r.command = c /\ Claims(r, type)
  <2>5. Claimed(d, c, type)' = IF Mine THEN A \cup {n + 1} ELSE A
    <3> HIDE DEF n
    <3> QED BY <1>2, <2>3, <2>4 DEF Claimed, Stored
  <2>6. Mine => Due(d, c, type) = 1
    BY <1>1, <2>1 DEF Due, Claims
  <2> HIDE DEF Mine, A, q, n
  <2>7. CASE Mine
    <3>1. Cardinality(Claimed(d, c, type))' = Cardinality(A) + 1
      BY <1>4, <2>5, <2>7
    <3>2. Cardinality(A) + 1 + 0 <= q
      BY <1>4, <1>6, <2>6, <2>7, SMTT(20)
    <3> QED BY <1>5, <3>1, <3>2 DEF Backed, q
  <2>8. CASE ~Mine
    <3>1. Cardinality(Claimed(d, c, type))' = Cardinality(A)
      BY <2>5, <2>8
    <3>2. Cardinality(A) + 0 <= q
      BY <1>4, <1>6, SMTT(20)
    <3> QED BY <1>5, <3>1, <3>2 DEF Backed, q
  <2> QED BY <2>7, <2>8
<1> QED BY <1>7, <1>8

(* No step stores a result, or gets ready to, before its evidence.         *)
LEMMA ClaimsStep ==
  ASSUME IsSeq(evidence), JobsOK, ClaimsOK, [ENext]_allvars
  PROVE  ClaimsOK'
<1>1. IsSeq(results') /\ \A j \in job' : Asks(j)
  <2>1. CASE SaveJob
    <3>1. job' = {} /\ (results' = results \/ \E r : results' = Append(results, r))
      BY <2>1 DEF SaveJob
    <3>2. IsSeq(results')
      <4>1. IsSeq(results) /\ \A r : IsSeq(Append(results, r))
        BY Appended DEF ClaimsOK
      <4> QED BY <3>1, <4>1
    <3> QED BY <3>1, <3>2
  <2>2. CASE emit_trust_evidence
    <3>1. PICK j \in job : j.stage = "evidence" /\ job' = {[j EXCEPT !.stage = "save"]}
      BY <2>2 DEF emit_trust_evidence
    <3>2. [j EXCEPT !.stage = "save"].stage = "save"
      BY DEF JobsOK, JobShape, JobFields
    <3>3. \A x \in job' : Asks(x)
      BY <3>1, <3>2 DEF Asks
    <3> QED BY <2>2, <3>3 DEF emit_trust_evidence, ClaimsOK
  <2> QED BY <2>1, <2>2, ClaimSteps DEF ClaimsOK
<1>2. ASSUME damaged' = {}, NEW d \in Devices, NEW c \in Commands, NEW type \in EvTypes
      PROVE  Backed(d, c, type)'
  <2>1. CASE emit_trust_evidence
    BY <1>2, <2>1, EmitBacks
  <2>2. CASE SaveJob
    BY <1>2, <2>2, SaveBacks
  <2>3. CASE UNCHANGED results /\ (UNCHANGED job \/ \A j \in job' : Unclaimed(j))
    <3> DEFINE a == Cardinality(Claimed(d, c, type))
               q == Cardinality(Proof(d, c, type))
               u == Due(d, c, type)
    <3>1. a' = a
      BY <2>3 DEF Claimed, Stored
    <3>2. u \in {0, 1} /\ (u' = u \/ u' = 0)
      BY <2>3 DEF Due, Unclaimed
    <3>3. q \in Nat /\ q' \in Nat /\ q <= q' /\ damaged = {}
      BY <1>2, ProofStep
    <3>4. a + u <= q
      BY <3>3 DEF ClaimsOK, Backed
    <3>5. a \in Nat
      <4>1. Len(results) \in Nat /\ DOMAIN results = 1..Len(results)
        BY SMTT(20) DEF ClaimsOK, IsSeq
      <4> QED BY <4>1, Counted DEF Claimed, Stored
    <3>6. Backed(d, c, type)' <=> a' + u' <= q'
      BY DEF Backed
    <3> HIDE DEF a, q, u
    <3>7. a' + u' <= q'
      BY <3>1, <3>2, <3>3, <3>4, <3>5, SMTT(20)
    <3> QED BY <3>6, <3>7
  <2> QED BY <2>1, <2>2, <2>3, ClaimSteps DEF ClaimsOK
<1> QED BY <1>1, <1>2 DEF ClaimsOK

(* The platform stores the result of a high-risk command that a driver has *)
(* executed, and of a command that was refused, only when the trust        *)
(* service already holds the evidence of it.                               *)
THEOREM ResultsAreBacked == ESpec => []EvidenceBacked
<1>1. EInit /\ VInit => ClaimsOK
  <2> SUFFICES ASSUME EInit, VInit PROVE ClaimsOK
    OBVIOUS
  <2>1. IsSeq(results) /\ results = <<>> /\ evidence = <<>> /\ job = {}
    BY SMTT(20) DEF EInit, VInit, IsSeq
  <2>2. ASSUME NEW d \in Devices, NEW c \in Commands, NEW type \in EvTypes PROVE Backed(d, c, type)
    <3>1. Claimed(d, c, type) = {} /\ Proof(d, c, type) = {}
      BY <2>1, SMTT(20) DEF Claimed, Stored, Proof
    <3>2. Due(d, c, type) = 0
      BY <2>1 DEF Due
    <3>3. Cardinality({}) = 0
      BY FS_EmptySet
    <3>4. 0 + 0 <= 0
      BY SMTT(20)
    <3> QED BY <3>1, <3>2, <3>3, <3>4 DEF Backed
  <2> QED BY <2>1, <2>2 DEF ClaimsOK
<1>2. ChainOK /\ JobsOK /\ ClaimsOK /\ [ENext]_allvars => ClaimsOK'
  BY ClaimsStep DEF ChainOK
<1>3. ChainOK /\ ClaimsOK => EvidenceBacked
  <2> SUFFICES ASSUME ChainOK, ClaimsOK, damaged = {}, NEW d \in Devices, NEW c \in Commands
               PROVE  /\ high_risk_command(c) =>
                           Cardinality({i \in Stored(d, c) : results[i].executed})
                             <= Cardinality(Proof(d, c, "edge_command_executed"))
                      /\ Cardinality({i \in Stored(d, c) : results[i].reason = "policy_denied"})
                           <= Cardinality(Proof(d, c, "edge_policy_denied_command"))
                      /\ Cardinality({i \in Stored(d, c) :
                                        results[i].reason \in {"unsupported_command", "missing_capability"}})
                           <= Cardinality(Proof(d, c, "unsupported_command_rejected"))
    BY DEF EvidenceBacked
  <2>1. ASSUME NEW type \in EvTypes
        PROVE  Cardinality(Claimed(d, c, type)) <= Cardinality(Proof(d, c, type))
    <3> DEFINE a == Cardinality(Claimed(d, c, type))
               q == Cardinality(Proof(d, c, type))
               u == Due(d, c, type)
    <3>1. a + u <= q /\ u \in {0, 1}
      BY DEF ClaimsOK, Backed, Due
    <3>2. a \in Nat
      <4>1. Len(results) \in Nat /\ DOMAIN results = 1..Len(results)
        BY SMTT(20) DEF ClaimsOK, IsSeq
      <4> QED BY <4>1, Counted DEF Claimed, Stored
    <3>3. q \in Nat
      <4>1. Len(evidence) \in Nat /\ DOMAIN evidence = 1..Len(evidence)
        BY SMTT(20) DEF ChainOK, IsSeq
      <4> QED BY <4>1, Counted DEF Proof
    <3> HIDE DEF a, q, u
    <3>4. a <= q
      BY <3>1, <3>2, <3>3, SMTT(20)
    <3> QED BY <3>4 DEF a, q
  <2>2. high_risk_command(c) =>
          Claimed(d, c, "edge_command_executed") = {i \in Stored(d, c) : results[i].executed}
    BY DEF Claimed, Claims, Stored
  <2>3. Claimed(d, c, "edge_policy_denied_command") =
          {i \in Stored(d, c) : results[i].reason = "policy_denied"}
    BY DEF Claimed, Claims
  <2>4. Claimed(d, c, "unsupported_command_rejected") =
          {i \in Stored(d, c) : results[i].reason \in {"unsupported_command", "missing_capability"}}
    BY DEF Claimed, Claims
  <2>5. {"edge_command_executed", "edge_policy_denied_command", "unsupported_command_rejected"} = EvTypes
    BY DEF EvTypes
  <2> QED BY <2>1, <2>2, <2>3, <2>4, <2>5
<1> QED BY <1>1, <1>2, <1>3, ChainInvariant, ControlInvariant, PTL DEF ESpec, allvars

-----------------------------------------------------------------------------
(***************************************************************************)
(* The scores.  Each is a bounded difference, so what has to be shown is   *)
(* that every term of it is a number.                                      *)
(***************************************************************************)
(* What a trust score is made of: deductions for the record of the fleet,  *)
(* for cash health, and for n and m records of evidence.                   *)
TrustOf(t, d, fleet, n, m) ==
  /\ trust_score(t, d) = Later(0, 100 - fleet - (100 - CashHealth(d)) - 10 * n - 15 * m)
  /\ (d \in DOMAIN registry /\ ~registry[d].online) => fleet >= 15

(* Every trust score is made of such deductions.                           *)
LEMMA TrustTerms ==
  ASSUME KOK, FleetOK, IsSeq(evidence), NEW t, NEW d \in Devices
  PROVE  \E fleet, n, m \in Nat : TrustOf(t, d, fleet, n, m)
<1> DEFINE fleet == IF d \notin DOMAIN registry THEN 0
                    ELSE registry[d].penalty + (IF registry[d].online THEN 0 ELSE 15)
           of(type) == Cardinality(Selected(t, d) \cap OfType(evidence, type))
           n == of("anomaly_detected")
           m == of("reconciliation_variance_detected")
<1>1. trust_score(t, d) = Later(0, 100 - fleet - (100 - CashHealth(d)) - 10 * n - 15 * m)
  BY SMTT(20) DEF trust_score
<1>2. fleet \in Nat /\ (d \in DOMAIN registry /\ ~registry[d].online => fleet >= 15)
  <2>1. d \in DOMAIN registry => registry[d].penalty \in Nat
    BY ControlAssumption DEF FleetOK, DeviceRecords
  <2>2. PICK p : p = registry[d].penalty
    OBVIOUS
  <2>3. CASE d \notin DOMAIN registry
    <3>1. fleet = 0
      BY <2>3
    <3> QED BY <2>3, <3>1, SMTT(20)
  <2>4. CASE d \in DOMAIN registry /\ registry[d].online
    <3>1. fleet = p + 0
      BY <2>2, <2>4
    <3>2. fleet \in Nat
      BY <2>1, <2>2, <2>4, <3>1, SMTT(20)
    <3> QED BY <2>4, <3>2
  <2>5. CASE d \in DOMAIN registry /\ ~registry[d].online
    <3>1. fleet = p + 15
      BY <2>2, <2>5
    <3>2. fleet \in Nat /\ fleet >= 15
      BY <2>1, <2>2, <2>5, <3>1, SMTT(20)
    <3> QED BY <3>2
  <2> QED BY <2>3, <2>4, <2>5
<1>3. \A type : of(type) \in Nat
  <2>1. Len(evidence) \in Nat /\ DOMAIN evidence = 1..Len(evidence)
    BY Appended
  <2>2. \A type : \A i \in Selected(t, d) \cap OfType(evidence, type) : i \in 1..Len(evidence)
    BY <2>1 DEF Selected
  <2> QED BY <2>1, <2>2, Counted
<1>4. TrustOf(t, d, fleet, n, m)
  BY <1>1, <1>2, SMTT(20) DEF TrustOf
<1> HIDE DEF fleet, of
<1> QED BY <1>2, <1>3, <1>4

(* The trust score of a device exceeds neither its cash health nor the     *)
(* ceiling of a device that is offline.                                    *)
LEMMA TrustBounded ==
  ASSUME KOK, FleetOK, IsSeq(evidence), NEW t, NEW d \in Devices
  PROVE  /\ trust_score(t, d) <= CashHealth(d)
         /\ (d \in DOMAIN registry /\ ~registry[d].online) => trust_score(t, d) <= 85
<1>1. PICK fleet, n, m \in Nat : TrustOf(t, d, fleet, n, m)
  BY TrustTerms
<1>2. PICK c : c = CashHealth(d)
  OBVIOUS
<1>3. d \in Scopes
  BY DEF Scopes
<1>4. c \in 0..100
  BY <1>2, <1>3, CashHealthTyped
<1>5. PICK s : s = trust_score(t, d)
  OBVIOUS
<1>6. s = Later(0, 100 - fleet - (100 - c) - 10 * n - 15 * m)
  BY <1>1, <1>2, <1>5, SMTT(20) DEF TrustOf
<1>7. s <= c /\ (fleet >= 15 => s <= 85)
  BY <1>4, <1>6, SMTT(20) DEF Later
<1>8. (d \in DOMAIN registry /\ ~registry[d].online) => fleet >= 15
  BY <1>1, SMTT(20) DEF TrustOf
<1> QED BY <1>2, <1>5, <1>7, <1>8

(* Damaged evidence costs a device 20 points of its edge health.           *)
LEMMA HealthBounded ==
  ASSUME EdgeOK, CountsOK, NEW d \in DOMAIN edge, verify_chain(edge[d].tenant, d) # {}
  PROVE  health(d) <= 80
<1> DEFINE s == edge[d]
           n == counted[d]
           points(condition, p) == IF condition THEN p ELSE 0
           a == points(~s.online, 25)
           b == points(s.maintenance, 10)
           r == IF n.total = 0 THEN 0 ELSE (n.failed * 20) \div n.total
           e == points(verify_chain(s.tenant, d) # {}, 20)
<1>1. health(d) = Later(0, 100 - a - 15 * s.faults - 10 * s.bad - b - r - e)
  BY SMTT(20) DEF health
<1>2. e = 20
  OBVIOUS
<1>3. a \in Nat /\ b \in Nat
  <2>1. 0 \in Nat /\ 25 \in Nat /\ 10 \in Nat
    BY SMTT(20)
  <2> QED BY <2>1
<1>4. s.faults \in Nat /\ s.bad \in Nat
  BY DEF EdgeOK, EdgeRecords
<1>5. r \in Nat
  <2>1. n.total \in Nat /\ n.failed \in Nat
    BY DEF EdgeOK, CountsOK, Counts
  <2>2. CASE n.total = 0
    <3>1. r = 0 /\ 0 \in Nat
      BY <2>2, SMTT(20)
    <3> QED BY <3>1
  <2>3. CASE n.total # 0
    <3>1. PICK k : k = n.failed * 20
      OBVIOUS
    <3>2. PICK l : l = n.total
      OBVIOUS
    <3>3. k \in Nat /\ l \in Nat /\ l > 0
      BY <2>1, <2>3, <3>1, <3>2, SMTT(20)
    <3>4. k \div l \in Nat
      BY <3>3, Division
    <3> QED BY <2>3, <3>1, <3>2, <3>4
  <2> QED BY <2>2, <2>3
<1>6. PICK f, g : f = s.faults /\ g = s.bad
  OBVIOUS
<1> HIDE DEF a, b, r, e, s
<1>7. health(d) = Later(0, 100 - a - 15 * f - 10 * g - b - r - e)
  BY <1>1, <1>6, SMTT(20)
<1>8. f \in Nat /\ g \in Nat
  BY <1>4, <1>6
<1> QED BY <1>2, <1>3, <1>5, <1>7, <1>8, SMTT(20) DEF Later

(* No score looks better than what it is built on.                         *)
THEOREM ScoresHold == ESpec => []ScoresAreBounded
<1>1. ASSUME KOK, FleetOK, EdgeOK, CountsOK, ChainIsExact, IsSeq(evidence) PROVE ScoresAreBounded
  <2>1. \A d \in DOMAIN edge : <<edge[d].tenant, d>> \in damaged => verify_chain(edge[d].tenant, d) # {}
    BY <1>1 DEF ChainIsExact
  <2> QED BY <1>1, <2>1, TrustBounded, HealthBounded DEF ScoresAreBounded
<1>2. ChainOK => IsSeq(evidence)
  BY DEF ChainOK
<1>3. KOK /\ FleetOK /\ EdgeOK /\ CountsOK /\ ChainIsExact /\ ChainOK => ScoresAreBounded
  BY <1>1, <1>2
<1> QED BY <1>3, AlertsInvariant, RecordsInvariant, ChainInvariant, ChainTellsDamage, PTL

-----------------------------------------------------------------------------
(***************************************************************************)
(* Types of the trust service.                                             *)
(***************************************************************************)
PostOK(p) == p.id \in Nat /\ p.tenant \in Tenants /\ p.dev \in Devices \cup {None} /\ p.at \in Nat
WellFormed(e) == PostOK(e) /\ (e.prev = <<>> \/ Len(e.prev) = 3)
EvidenceOK == Len(evidence) <= MaxEvidence /\ \A i \in DOMAIN evidence : WellFormed(evidence[i])
DecisionRecords == [tenant : Tenants, dev : Devices, action : Actions,
                    allowed : BOOLEAN, unavailable : BOOLEAN]
DecisionsOK ==
  /\ decisions \in Seq(DecisionRecords) /\ Len(decisions) <= MaxDecisions
  /\ production \in BOOLEAN /\ reachable \in BOOLEAN

(* What is posted, and what a job of the platform emits, is well formed,   *)
(* and there is room for it.                                               *)
LEMMA EvidencePosted ==
  ASSUME EdgeOK, [ENext]_allvars
  PROVE  \/ Len(evidence) < MaxEvidence /\ \E p : create_evidence(p) /\ PostOK(p)
         \/ \E i : AlterRecord(i) \/ LoseRecord(i)
         \/ UNCHANGED evidence
<1>1. ASSUME NEW t \in Tenants, NEW p \in Posts, PostEvidence(t, p)
      PROVE  Len(evidence) < MaxEvidence /\ \E q : create_evidence(q) /\ PostOK(q)
  <2>1. PostOK(p)
    BY VeilAssumption DEF AllPosts, PostOK
  <2> QED BY <1>1, <2>1 DEF PostEvidence
<1>2. ASSUME emit_trust_evidence
      PROVE  Len(evidence) < MaxEvidence /\ \E q : create_evidence(q) /\ PostOK(q)
  <2>1. PICK j \in job :
          /\ j.stage = "evidence"
          /\ create_evidence([id |-> 0, tenant |-> j.rec.tenant, dev |-> j.dev, type |-> j.type,
                              at |-> j.at, about |-> j.command])
    BY <1>2 DEF emit_trust_evidence
  <2>2. j.reason # "unknown_device" /\ j.dev \in Devices /\ j.at \in Nat
    BY <2>1 DEF EdgeOK, JobTyped
  <2>3. j.rec \in EdgeRecords
    BY <2>2 DEF EdgeOK, JobTyped
  <2>4. j.rec.tenant \in Tenants
    BY <2>3 DEF EdgeRecords, Tenants
  <2>5. PICK q : q = [id |-> 0, tenant |-> j.rec.tenant, dev |-> j.dev, type |-> j.type,
                      at |-> j.at, about |-> j.command]
    OBVIOUS
  <2>6. q.id = 0 /\ q.tenant = j.rec.tenant /\ q.dev = j.dev /\ q.at = j.at
    BY <2>5
  <2>7. 0 \in Nat
    BY SMTT(20)
  <2>8. PostOK(q)
    BY <2>2, <2>4, <2>6, <2>7 DEF PostOK
  <2> QED BY <1>2, <2>1, <2>5, <2>8 DEF emit_trust_evidence
<1>3. CASE VStep
  BY <1>1, <1>3 DEF VStep, VeilNext, VeilTorn, PreviewPolicy, VeilSwitch, vvars
<1>4. CASE EdgeNext
  BY <1>2, <1>4 DEF EdgeNext, RegisterInFleet, AskPolicy, SaveJob, RunDriver, vvars
<1>5. EdgeTorn \/ EdgeRestart \/ UNCHANGED allvars => UNCHANGED evidence
  BY DEF EdgeTorn, EdgeRestart, VeilRestart, allvars, vvars
<1> QED BY <1>3, <1>4, <1>5 DEF ENext, EStep

(* Linked makes a well-formed record of it.                                *)
LEMMA LinkedTyped ==
  ASSUME ChainOK, NEW p, PostOK(p)
  PROVE  WellFormed(Linked(p))
<1>1. PICK e : e = Linked(p)
  OBVIOUS
<1>2. e.id = (IF p.id = 0 THEN Len(evidence) + 1 ELSE p.id) /\ e.tenant = p.tenant
      /\ e.dev = p.dev /\ e.at = p.at
  BY <1>1 DEF Linked
<1>3. Len(evidence) \in Nat
  BY Appended DEF ChainOK
<1>4. Len(evidence) + 1 \in Nat
  BY <1>3, SMTT(20)
<1>5. e.id \in Nat
  BY <1>2, <1>4 DEF PostOK
<1>6. e.prev = <<>> \/ \E x \in DOMAIN evidence : e.prev = Hash(x)
  BY <1>1, LinkedFacts
<1>7. \A a, b, c : Len(<<a, b, c>>) = 3
  BY SMTT(20)
<1>8. \A x : Len(Hash(x)) = 3
  BY <1>7 DEF Hash, record_chain_hash
<1> QED BY <1>1, <1>2, <1>5, <1>6, <1>8 DEF WellFormed, PostOK

(* Every step keeps the evidence well formed and within its bound.         *)
LEMMA EvidenceTypeStep ==
  ASSUME ChainOK, EdgeOK, EvidenceOK, [ENext]_allvars
  PROVE  EvidenceOK'
<1>0. IsSeq(evidence) /\ Len(evidence) \in Nat /\ DOMAIN evidence = 1..Len(evidence) /\ MaxEvidence \in Nat
  BY Appended, VeilAssumption DEF ChainOK
<1>1. ASSUME Len(evidence) < MaxEvidence, NEW p, create_evidence(p), PostOK(p) PROVE EvidenceOK'
  <2>1. PICK e : e = Linked(p)
    OBVIOUS
  <2>2. evidence' = Append(evidence, e) /\ WellFormed(e)
    BY <1>1, <2>1, LinkedTyped DEF create_evidence
  <2>3. /\ Len(evidence') = Len(evidence) + 1 /\ DOMAIN evidence' = 1..Len(evidence) + 1
        /\ evidence'[Len(evidence) + 1] = e
        /\ \A i \in 1..Len(evidence) : evidence'[i] = evidence[i]
    BY <1>0, <2>2, Appended, SMTT(20)
  <2>4. Len(evidence') <= MaxEvidence /\ \A i \in 1..Len(evidence) + 1 : i \in 1..Len(evidence) \/ i = Len(evidence) + 1
    <3>1. \A n, m \in Nat : n < m => n + 1 <= m /\ \A i \in 1..n + 1 : i \in 1..n \/ i = n + 1
      BY SMTT(20)
    <3> QED BY <1>0, <1>1, <2>3, <3>1
  <2> QED BY <1>0, <2>2, <2>3, <2>4 DEF EvidenceOK
<1>2. ASSUME NEW k, AlterRecord(k) PROVE EvidenceOK'
  <2>1. k \in DOMAIN evidence /\ evidence' = [evidence EXCEPT ![k].type = "altered"]
    BY <1>2 DEF AlterRecord
  <2>2. PICK e : e = [evidence[k] EXCEPT !.type = "altered"]
    OBVIOUS
  <2>3. DOMAIN evidence[k] = ChainFields
    BY <2>1 DEF ChainOK
  <2>4. \A f \in {"id", "tenant", "dev", "at", "prev"} : e[f] = evidence[k][f]
    BY <2>2, <2>3 DEF ChainFields
  <2>5. WellFormed(e)
    <3>1. e.id = evidence[k].id /\ e.tenant = evidence[k].tenant /\ e.dev = evidence[k].dev
          /\ e.at = evidence[k].at /\ e.prev = evidence[k].prev
      BY <2>4
    <3> QED BY <2>1, <3>1 DEF EvidenceOK, WellFormed, PostOK
  <2>6. evidence' = [evidence EXCEPT ![k] = e]
    BY <2>1, <2>2
  <2>7. PICK S : evidence \in Seq(S)
    BY <1>0 DEF IsSeq
  <2>8. evidence \in Seq(S \cup {e})
    BY <2>7, SMTT(20)
  <2>9. Len(evidence') = Len(evidence) /\ DOMAIN evidence' = DOMAIN evidence
        /\ \A i \in DOMAIN evidence : evidence'[i] = IF i = k THEN e ELSE evidence[i]
    BY <2>1, <2>6, <2>8, SMTT(20)
  <2> QED BY <2>5, <2>9 DEF EvidenceOK
<1>3. ASSUME NEW k, LoseRecord(k) PROVE EvidenceOK'
  <2>1. /\ k \in DOMAIN evidence
        /\ evidence' = SubSeq(evidence, 1, k - 1) \o SubSeq(evidence, k + 1, Len(evidence))
    BY <1>3 DEF LoseRecord
  <2>2. /\ IsSeq(evidence') /\ DOMAIN evidence' = 1..Len(evidence) - 1
        /\ \A i \in 1..Len(evidence) - 1 : evidence'[i] = evidence[IF i < k THEN i ELSE i + 1]
    BY <1>0, <2>1, Removed
  <2>3. Len(evidence') \in Nat /\ DOMAIN evidence' = 1..Len(evidence')
    BY <2>2, Appended
  <2>4. Len(evidence') <= Len(evidence)
    BY <1>0, <2>2, <2>3, SMTT(20)
  <2>5. Len(evidence') <= MaxEvidence
    BY <1>0, <2>3, <2>4, SMTT(20) DEF EvidenceOK
  <2>6. \A i \in 1..Len(evidence) - 1 : (IF i < k THEN i ELSE i + 1) \in DOMAIN evidence
    BY <1>0, <2>1, SMTT(20)
  <2>7. \A i \in DOMAIN evidence' : WellFormed(evidence'[i])
    BY <2>2, <2>6 DEF EvidenceOK
  <2> QED BY <2>5, <2>7 DEF EvidenceOK
<1>4. ASSUME UNCHANGED evidence PROVE EvidenceOK'
  BY <1>4 DEF EvidenceOK
<1> QED BY <1>1, <1>2, <1>3, <1>4, EvidencePosted

(* A decision of the policy is well formed.                                *)
LEMMA DecisionTyped ==
  ASSUME NEW t \in Tenants, NEW d \in Devices, NEW a \in Actions, reachable \in BOOLEAN, production \in BOOLEAN
  PROVE  Decision(t, d, a) \in DecisionRecords
  BY DEF Decision, DecisionRecords

(* Every step keeps the decisions well formed.                             *)
LEMMA DecisionsTypeStep ==
  ASSUME EdgeOK, DecisionsOK, [ENext]_allvars
  PROVE  DecisionsOK'
<1>0. MaxDecisions \in Nat
  BY VeilAssumption
<1>1. ASSUME NEW t \in Tenants, NEW d \in Devices, NEW a \in Actions, Len(decisions) < MaxDecisions,
             verify_policy(t, d, a), UNCHANGED <<production, reachable>>
      PROVE  DecisionsOK'
  <2>1. PICK x : x = Decision(t, d, a)
    OBVIOUS
  <2>2. x \in DecisionRecords
    BY <2>1, DecisionTyped DEF DecisionsOK
  <2>3. decisions' = Append(decisions, x)
    BY <1>1, <2>1 DEF verify_policy
  <2>4. decisions' \in Seq(DecisionRecords) /\ Len(decisions') = Len(decisions) + 1 /\ Len(decisions) \in Nat
    BY <2>2, <2>3, SMTT(20) DEF DecisionsOK
  <2>5. Len(decisions') <= MaxDecisions
    BY <1>0, <1>1, <2>4, SMTT(20)
  <2> QED BY <1>1, <2>4, <2>5 DEF DecisionsOK
<1>2. ASSUME UNCHANGED <<decisions, production>>, reachable' \in {reachable, ~reachable} PROVE DecisionsOK'
  BY <1>2 DEF DecisionsOK
<1>3. CASE AskPolicy
  <2>1. PICK j \in job : j.stage = "policy" /\ verify_policy(j.rec.tenant, j.dev, j.command)
    BY <1>3 DEF AskPolicy
  <2>2. JobTyped(j)
    BY <2>1 DEF EdgeOK
  <2>3. j.dev \in Devices /\ j.command \in Commands /\ j.reason # "unknown_device"
    BY <2>1, <2>2 DEF JobTyped
  <2>4. j.rec \in EdgeRecords
    BY <2>2, <2>3 DEF JobTyped
  <2>5. j.rec.tenant \in Tenants
    BY <2>4 DEF EdgeRecords, Tenants
  <2>6. j.command \in Actions
    BY <2>3, EdgeAssumption
  <2>7. Len(decisions) < MaxDecisions /\ UNCHANGED <<production, reachable>>
    BY <1>3 DEF AskPolicy
  <2> QED BY <1>1, <2>1, <2>3, <2>5, <2>6, <2>7
<1>4. ASSUME NEW t \in Orgs, NEW d \in Devices, NEW a \in Actions, PreviewPolicy(t, d, a) PROVE DecisionsOK'
  <2>1. t \in Tenants
    BY DEF Tenants
  <2> QED BY <1>1, <1>4, <2>1 DEF PreviewPolicy
<1>5. CASE VStep
  BY <1>2, <1>4, <1>5 DEF VStep, VeilNext, VeilTorn, PostEvidence, VeilSwitch, AlterRecord, LoseRecord, vvars
<1>6. CASE EdgeNext
  BY <1>2, <1>3, <1>6 DEF EdgeNext, RegisterInFleet, emit_trust_evidence, SaveJob, RunDriver, vvars
<1>7. EdgeTorn \/ EdgeRestart \/ UNCHANGED allvars => UNCHANGED <<decisions, production, reachable>>
  BY DEF EdgeTorn, EdgeRestart, VeilRestart, allvars, vvars
<1> QED BY <1>2, <1>5, <1>6, <1>7 DEF ENext, EStep

(* The four services of the server hold well-formed data only, for all     *)
(* sets of organizations, devices, commands and times.                     *)
THEOREM CloudIsTyped == ESpec => []CloudTypeOK
<1>1. VInit => EvidenceOK /\ DecisionsOK
  <2> SUFFICES ASSUME VInit PROVE EvidenceOK /\ DecisionsOK
    OBVIOUS
  <2>1. evidence = <<>> /\ decisions = <<>> /\ production \in BOOLEAN /\ reachable = TRUE
    BY DEF VInit
  <2>2. Len(<<>>) <= MaxEvidence /\ Len(<<>>) <= MaxDecisions /\ <<>> \in Seq(DecisionRecords) /\ DOMAIN <<>> = {}
    BY VeilAssumption, SMTT(20)
  <2> QED BY <2>1, <2>2 DEF EvidenceOK, DecisionsOK
<1>2. (EvidenceOK /\ DecisionsOK) /\ ChainOK /\ EdgeOK /\ [ENext]_allvars => (EvidenceOK /\ DecisionsOK)'
  BY EvidenceTypeStep, DecisionsTypeStep
<1>3. ESpec => [](EvidenceOK /\ DecisionsOK)
  BY <1>1, <1>2, ChainInvariant, RecordsInvariant, PTL DEF ESpec, allvars
<1>4. EvidenceOK /\ DecisionsOK => VTypeOK
  BY DEF EvidenceOK, DecisionsOK, WellFormed, PostOK, DecisionRecords, VTypeOK, Range
<1>5. EdgeOK /\ CountsOK => ETypeOK
  BY DEF EdgeOK, CountsOK, ETypeOK, JobTyped, Stages
<1>6. ControlInv /\ FleetOK /\ AlertsTyped => CTypeOK
  <2>1. FleetOK => registry \in Registries
    BY DEF FleetOK, Registries
  <2> QED BY <2>1 DEF ControlInv, FleetOK, AlertsTyped, CommandsOK, AcksOK, LookupOK, CTypeOK
<1>7. KOK => KTypeOK
  BY DEF KOK
<1>8. EvidenceOK /\ DecisionsOK /\ EdgeOK /\ CountsOK /\ ControlInv /\ FleetOK /\ AlertsTyped /\ KOK => CloudTypeOK
  BY <1>4, <1>5, <1>6, <1>7 DEF CloudTypeOK
<1> QED BY <1>3, <1>8, ControlInvariant, RecordsInvariant, AlertsInvariant, PTL
=============================================================================
