---------------------------- MODULE DeviceProofs ----------------------------
(***************************************************************************)
(* Proofs about the parts of a drawer around its engine: the dispenser,    *)
(* enrolment and certificates, the shutter, the poller of the safety       *)
(* lines, the software update, the factory test, the start and change in   *)
(* several denominations, for any requests, stocks, tokens, versions,      *)
(* distances, files and bounds.                                            *)
(***************************************************************************)
EXTENDS DispenseController, DeviceIdentity, SafetyFaults, OtaUpdate, FactoryTest, Startup,
        Payout, FoldProofs

-----------------------------------------------------------------------------
(***************************************************************************)
(* One dispense, for any request, retry limit and stock.                   *)
(***************************************************************************)
\* The coins of the current attempt, and of the abandoned ones before it.
CountInv ==
  /\ pulses <= Fallen /\ pulses <= coins
  /\ slips = {} => Fallen = pulses
  /\ dpc = "backoff" => pulses < coins /\ attempt < MaxRetries
  /\ coins = 0 => attempt = 0
  /\ "unseen" \notin slips => Fallen <= attempt * (coins - 1) + pulses
  /\ dpc = "done" => res.dispensed = pulses /\ (res.ok <=> pulses = coins)

DInv == DTypeOK /\ MotorOnlyWhileDispensing /\ CountInv

\* A new controller over a full hopper satisfies the invariant.
LEMMA DispenseInitInv == DInit => DInv
<1> SUFFICES ASSUME DInit PROVE DInv
  BY Zenon
<1> USE DispenseAssumption DEF DInit
<1>1. res \in Results
  BY Zenon DEF NoResult, Results, Reasons
<1>2. stock \in 0..HopperStock /\ before \in 0..HopperStock
  OBVIOUS
<1>3. pulses \in Nat /\ attempt \in 0..MaxRetries /\ coins \in 0..MaxCoins
  OBVIOUS
<1>4. DTypeOK
  BY <1>1, <1>2, <1>3, Zenon DEF DTypeOK
<1>5. MotorOnlyWhileDispensing
  BY Zenon DEF MotorOnlyWhileDispensing
<1>6. Fallen = 0
  BY DEF Fallen
<1>7. CountInv
  BY <1>6 DEF CountInv
<1> QED BY <1>4, <1>5, <1>7, Zenon DEF DInv

\* The numbers a step works on.
LEMMA CoinCounts ==
  ASSUME DTypeOK
  PROVE  /\ stock \in Nat /\ before \in Nat /\ pulses \in Nat /\ attempt \in Nat /\ coins \in Nat
         /\ Fallen = before - stock /\ Fallen \in Int
         /\ attempt * (coins - 1) \in Int
BY DispenseAssumption DEF DTypeOK, Fallen

\* The head of dispenseCoins: a request starts with nothing counted.
LEMMA CallInv ==
  ASSUME DInv, NEW n \in 0..MaxCoins, Call(n)
  PROVE  DInv'
<1>0. stock \in Nat /\ n \in Nat
  BY CoinCounts, DispenseAssumption DEF DInv
<1>1. DTypeOK'
  <2>1. NoResult \in Results
    BY Zenon DEF NoResult, Results, Reasons
  <2> QED BY <2>1, DispenseAssumption DEF DInv, DTypeOK, Call, StartAttempt
<1>2. MotorOnlyWhileDispensing'
  BY Zenon DEF MotorOnlyWhileDispensing, Call, StartAttempt
<1>3. Fallen' = 0 /\ pulses' = 0 /\ attempt' = 0 /\ coins' = n /\ dpc' = "settle"
  BY <1>0 DEF Fallen, Call, StartAttempt
<1>4. attempt' * (coins' - 1) = 0
  BY <1>0, <1>3
<1>5. CountInv'
  BY <1>0, <1>3, <1>4 DEF CountInv
<1> QED BY <1>1, <1>2, <1>5, Zenon DEF DInv

\* A coin leaves the hopper, seen by pollOnce or not.
LEMMA CoinInv ==
  ASSUME DInv, CoinSeen \/ CoinUnseen
  PROVE  DInv'
<1>0. /\ stock \in Nat /\ before \in Nat /\ pulses \in Nat /\ attempt \in Nat /\ coins \in Nat
      /\ Fallen = before - stock /\ Fallen \in Int /\ attempt * (coins - 1) \in Int
  BY CoinCounts, Zenon DEF DInv
<1>1. /\ stock > 0 /\ stock' = stock - 1 /\ motor
      /\ UNCHANGED <<motor, dpc, attempt, coins, res, before>>
      /\ \/ pulses < coins /\ pulses' = pulses + 1 /\ UNCHANGED slips
         \/ pulses' = pulses /\ slips' = slips \cup {"unseen"}
  BY Zenon DEF CoinSeen, CoinUnseen
<1>2. DTypeOK'
  <2>1. stock' \in 0..HopperStock /\ pulses' \in Nat
    BY <1>0, <1>1, DispenseAssumption DEF DInv, DTypeOK
  <2>2. slips' \subseteq {"unseen", "retry"}
    BY <1>1, Zenon DEF DInv, DTypeOK
  <2>3. motor' = motor /\ dpc' = dpc /\ attempt' = attempt /\ coins' = coins /\ res' = res /\ before' = before
    BY <1>1, Zenon
  <2> QED BY <2>1, <2>2, <2>3, Zenon DEF DInv, DTypeOK, Results, Reasons
<1>3. MotorOnlyWhileDispensing' /\ dpc \in {"settle", "poll"}
  BY <1>1, Zenon DEF DInv, MotorOnlyWhileDispensing
<1>4. Fallen' = Fallen + 1
  BY <1>0, <1>1 DEF Fallen
<1>5. attempt' * (coins' - 1) = attempt * (coins - 1)
  BY <1>1, Zenon
<1>6. CountInv'
  BY <1>0, <1>1, <1>3, <1>4, <1>5 DEF DInv, CountInv
<1> QED BY <1>2, <1>3, <1>6, Zenon DEF DInv

\* The next attempt after a jam: one attempt more, and the abandoned one had
\* counted less than the request.
LEMMA RetryInv ==
  ASSUME DInv, Retry
  PROVE  DInv'
<1>0. /\ stock \in Nat /\ before \in Nat /\ pulses \in Nat /\ attempt \in Nat /\ coins \in Nat
      /\ Fallen = before - stock /\ Fallen \in Int /\ attempt * (coins - 1) \in Int
  BY CoinCounts, Zenon DEF DInv
<1>1. pulses < coins /\ attempt < MaxRetries /\ pulses <= Fallen
  BY Zenon DEF DInv, CountInv, Retry
<1>2. DTypeOK'
  BY <1>0, <1>1, DispenseAssumption DEF DInv, DTypeOK, Retry, StartAttempt
<1>3. MotorOnlyWhileDispensing'
  BY Zenon DEF MotorOnlyWhileDispensing, Retry, StartAttempt
<1>4. Fallen' = Fallen
  BY Zenon DEF Fallen, Retry
<1>5. attempt' * (coins' - 1) = attempt * (coins - 1) + (coins - 1)
  <2>1. attempt' = attempt + 1 /\ coins' = coins
    BY Zenon DEF Retry
  <2> DEFINE c == coins - 1
  <2>2. c \in Int /\ coins - 1 = c
    BY <1>0
  <2> HIDE DEF c
  <2>3. (attempt + 1) * c = attempt * c + c
    BY <1>0, <2>2
  <2> QED BY <2>1, <2>2, <2>3, Zenon
<1>6. slips' = {} => slips = {} /\ pulses = 0
  BY <1>0 DEF Retry
<1>7. "unseen" \notin slips' => "unseen" \notin slips
  BY Zenon DEF Retry
<1>8. "unseen" \notin slips' => Fallen' <= attempt' * (coins' - 1) + pulses'
  <2>1. "unseen" \notin slips => Fallen <= attempt * (coins - 1) + pulses
    BY Zenon DEF DInv, CountInv
  <2>2. pulses' = 0
    BY Zenon DEF Retry, StartAttempt
  <2> QED BY <1>0, <1>1, <1>4, <1>5, <1>7, <2>1, <2>2
<1>9. CountInv'
  <2>1. pulses' = 0 /\ dpc' = "settle" /\ coins' = coins
    BY Zenon DEF Retry, StartAttempt
  <2>2. slips' = {} => Fallen' = 0
    BY <1>4, <1>6, Zenon DEF DInv, CountInv
  <2> QED BY <1>0, <1>1, <1>4, <1>8, <2>1, <2>2 DEF CountInv
<1> QED BY <1>2, <1>3, <1>9, Zenon DEF DInv

\* Every way out of the loop, by its result.
LEMMA FinishInv ==
  ASSUME DInv, NEW ok \in BOOLEAN, NEW reason \in Reasons, Finish(ok, reason),
         ok <=> pulses = coins, UNCHANGED <<stock, pulses, attempt, coins, before, slips>>
  PROVE  DInv'
<1>0. pulses \in Nat /\ attempt' * (coins' - 1) = attempt * (coins - 1) /\ Fallen' = Fallen
  BY Zenon DEF DInv, DTypeOK, Fallen
<1>1. res' \in Results /\ res'.dispensed = pulses /\ res'.ok = ok
  BY <1>0, Zenon DEF Finish, Results
<1>2. DTypeOK'
  BY <1>1, Zenon DEF DInv, DTypeOK, Finish
<1>3. MotorOnlyWhileDispensing'
  BY Zenon DEF MotorOnlyWhileDispensing, Finish
<1>4. CountInv'
  BY <1>0, <1>1, Zenon DEF DInv, CountInv, Finish
<1> QED BY <1>2, <1>3, <1>4, Zenon DEF DInv

\* Every step of dispenseCoins and the hopper preserves the invariant.
LEMMA DispenseStepInv == DInv /\ [DNext]_dvars => DInv'
<1> SUFFICES ASSUME DInv, [DNext]_dvars PROVE DInv'
  BY Zenon
<1>0. pulses \in Nat /\ coins \in Nat /\ pulses <= coins
  BY CoinCounts, Zenon DEF DInv, CountInv
<1>1. CASE \E n \in 0..MaxCoins : Call(n)
  BY <1>1, CallInv, Zenon
<1>2. CASE CoinSeen \/ CoinUnseen
  BY <1>2, CoinInv, Zenon
<1>3. CASE Settled \/ JamRetry \/ Return \/ UNCHANGED dvars
  <2>1. DTypeOK'
    BY <1>3, Zenon DEF DInv, DTypeOK, Settled, JamRetry, Return, dvars
  <2>2. MotorOnlyWhileDispensing'
    BY <1>3 DEF DInv, MotorOnlyWhileDispensing, Settled, JamRetry, Return, dvars
  <2>3. attempt' * (coins' - 1) = attempt * (coins - 1) /\ Fallen' = Fallen
    BY <1>3, Zenon DEF Fallen, Settled, JamRetry, Return, dvars
  <2>4. CountInv'
    BY <1>3, <2>3, Zenon DEF DInv, CountInv, Settled, JamRetry, Return, dvars
  <2> QED BY <2>1, <2>2, <2>4, Zenon DEF DInv
<1>4. CASE Retry
  BY <1>4, RetryInv, Zenon
<1>5. CASE Complete
  <2>1. pulses = coins
    BY <1>0, <1>5 DEF Complete
  <2> QED BY <1>5, <2>1, FinishInv, Zenon DEF Complete, Reasons
<1>6. CASE JamOut
  <2>1. pulses # coins
    BY <1>0, <1>6 DEF JamOut
  <2> QED BY <1>6, <2>1, FinishInv, Zenon DEF JamOut, Reasons
<1>7. CASE Timeout
  <2>1. pulses # coins
    BY <1>0, <1>7 DEF Timeout
  <2> QED BY <1>7, <2>1, FinishInv, Zenon DEF Timeout, Reasons
<1> QED BY <1>1, <1>2, <1>3, <1>4, <1>5, <1>6, <1>7, Zenon DEF DNext, Running, Control

(***************************************************************************)
(* The inductive invariant of dispenseCoins and its hopper.                *)
(***************************************************************************)
THEOREM DispenseInvariance == DSpec => []DInv
BY DispenseInitInv, DispenseStepInv, PTL DEF DSpec

(***************************************************************************)
(* dispenseCoins leaves the motor off whenever it is not settling or       *)
(* polling, on all of its ways out.                                        *)
(***************************************************************************)
THEOREM MotorStops == DSpec => []MotorOnlyWhileDispensing
<1>1. DInv => MotorOnlyWhileDispensing
  BY Zenon DEF DInv
<1> QED BY <1>1, DispenseInvariance, PTL

(***************************************************************************)
(* res.dispensed is never more than what left the hopper, and OK is said   *)
(* exactly for the whole request.                                          *)
(***************************************************************************)
THEOREM ReportIsPaid == DSpec => []ReportedWasPaid
<1>1. DInv => ReportedWasPaid
  BY Zenon DEF DInv, CountInv, ReportedWasPaid
<1> QED BY <1>1, DispenseInvariance, PTL

(***************************************************************************)
(* A call without retries over counted coins and without coins past the    *)
(* sensor reports exactly what left.                                       *)
(***************************************************************************)
THEOREM CleanIsExact == DSpec => []ExactWhenClean
<1>1. DInv => ExactWhenClean
  BY Zenon DEF DInv, CountInv, ExactWhenClean
<1> QED BY <1>1, DispenseInvariance, PTL

(***************************************************************************)
(* The excess that the retry loop can pay is at most max_retries times one *)
(* coin less than the request.                                             *)
(***************************************************************************)
THEOREM OverpayIsBounded == DSpec => []OverpayBound
<1>1. DInv => OverpayBound
  <2> SUFFICES ASSUME DInv, "unseen" \notin slips
               PROVE  Fallen <= IF coins = 0 THEN 0 ELSE coins + MaxRetries * (coins - 1)
    BY Zenon DEF OverpayBound
  <2>0. /\ pulses \in Nat /\ attempt \in 0..MaxRetries /\ coins \in Nat /\ Fallen \in Int
        /\ pulses <= coins /\ Fallen <= attempt * (coins - 1) + pulses
        /\ (coins = 0 => attempt = 0) /\ MaxRetries \in Nat
    BY CoinCounts, DispenseAssumption, Zenon DEF DInv, DTypeOK, CountInv
  <2>1. CASE coins = 0
    BY <2>0, <2>1
  <2>2. CASE coins # 0
    <3> DEFINE c == coins - 1
    <3>1. c \in Nat /\ coins - 1 = c
      BY <2>0, <2>2
    <3> HIDE DEF c
    <3>2. PICK d \in Nat : MaxRetries = attempt + d
      <4>1. MaxRetries - attempt \in Nat /\ MaxRetries = attempt + (MaxRetries - attempt)
        BY <2>0
      <4> QED BY <4>1, Zenon
    <3>3. MaxRetries * c = attempt * c + d * c /\ d * c \in Nat /\ attempt * c \in Nat
      BY <2>0, <3>1, <3>2
    <3> QED BY <2>0, <2>2, <3>1, <3>3
  <2> QED BY <2>1, <2>2, Zenon
<1> QED BY <1>1, DispenseInvariance, PTL
-----------------------------------------------------------------------------
(***************************************************************************)
(* Enrolment tokens.  The count of enrolments is inductive as it stands:   *)
(* a record that is not used yet is one enrolment that is still to come.   *)
(***************************************************************************)
TokenInv ==
  /\ DOMAIN tokens \subseteq Tokens /\ \A t \in DOMAIN tokens : tokens[t] \in TokenRecords
  /\ issued \in [Tokens -> Nat] /\ spent \in [Tokens -> Nat] /\ now \in Nat
  /\ TokenIsOneTime

(* Each call of the service, and a torn store, keeps the count.            *)
LEMMA TokenStep ==
  ASSUME TokenInv, [EnrolmentNext \/ CertNext]_<<ivars, xvars>>
  PROVE  TokenInv'
<1> USE DEF TokenInv, TokenIsOneTime, TokenRecords
<1>1. CASE UNCHANGED ivars
  BY <1>1, Zenon DEF ivars
<1>2. ASSUME NEW t \in Tokens, NEW d \in Drawers, NEW e \in Expiries, add_token(t, d, e)
      PROVE  TokenInv'
  <2> DEFINE r == [drawer |-> d, expires |-> e, used |-> FALSE, revoked |-> FALSE]
  <2>1. /\ tokens' = Put(tokens, t, r) /\ issued' = [issued EXCEPT ![t] = @ + 1]
        /\ UNCHANGED <<now, spent>>
    BY <1>2, Zenon DEF add_token
  <2>2. r \in TokenRecords /\ ~r.used
    BY Zenon
  <2> HIDE DEF r
  <2>3. /\ DOMAIN tokens' = DOMAIN tokens \cup {t} /\ tokens'[t] = r
        /\ \A u \in DOMAIN tokens : u # t => tokens'[u] = tokens[u]
    BY <2>1, Zenon DEF Put
  <2>4. \A u \in DOMAIN tokens' : tokens'[u] \in TokenRecords
    <3> HIDE DEF TokenRecords
    <3> QED BY <2>2, <2>3, Zenon DEF TokenInv
  <2>5. issued' \in [Tokens -> Nat] /\ spent' \in [Tokens -> Nat] /\ now' \in Nat
    BY <2>1
  <2>6. ASSUME NEW u \in Tokens
        PROVE  spent'[u] + (IF u \in DOMAIN tokens' /\ ~tokens'[u].used THEN 1 ELSE 0) <= issued'[u]
    <3>1. CASE u = t
      BY <2>1, <3>1
    <3>2. CASE u # t
      BY <2>1, <2>3, <3>2, Zenon
    <3> QED BY <3>1, <3>2, Zenon
  <2>7. TokenIsOneTime'
    BY <2>6, Zenon
  <2> QED BY <2>3, <2>4, <2>5, <2>7, Zenon DEF TokenInv
<1>3. ASSUME NEW t \in Tokens, revoke_token(t)
      PROVE  TokenInv'
  BY <1>3, ZenonT(30) DEF revoke_token
<1>4. ASSUME NEW t \in Tokens, NEW d \in Drawers, enroll(t, d)
      PROVE  TokenInv'
  <2>1. CASE Refused(t, d)
    BY <1>4, <2>1, Zenon DEF enroll
  <2>2. CASE ~Refused(t, d)
    <3>1. t \in DOMAIN tokens /\ ~tokens[t].used
      BY <2>2, Zenon DEF Refused
    <3>2. tokens' = [tokens EXCEPT ![t].used = TRUE] /\ spent' = [spent EXCEPT ![t] = @ + 1]
          /\ UNCHANGED <<issued, now>>
      BY <1>4, <2>2, Zenon DEF enroll
    <3>3. /\ DOMAIN tokens' = DOMAIN tokens
          /\ \A u \in DOMAIN tokens : tokens'[u] = IF u = t THEN [tokens[t] EXCEPT !.used = TRUE] ELSE tokens[u]
      BY <3>2, Zenon
    <3>4. \A u \in DOMAIN tokens : tokens'[u] \in TokenRecords
      BY <3>1, <3>3, ZenonT(30)
    <3>5. ASSUME NEW u \in Tokens
          PROVE  spent'[u] + (IF u \in DOMAIN tokens' /\ ~tokens'[u].used THEN 1 ELSE 0) <= issued'[u]
      <4>1. CASE u = t
        <5>1. tokens'[t].used /\ spent'[t] = spent[t] + 1
          BY <3>1, <3>2, <3>3, Zenon
        <5> QED BY <3>1, <3>2, <4>1, <5>1
      <4>2. CASE u # t
        BY <3>2, <3>3, <4>2, Zenon
      <4> QED BY <4>1, <4>2, Zenon
    <3>6. issued' \in [Tokens -> Nat] /\ spent' \in [Tokens -> Nat] /\ now' \in Nat
      BY <3>2
    <3>7. TokenIsOneTime'
      BY <3>5, Zenon
    <3> QED BY <3>3, <3>4, <3>6, <3>7, Zenon DEF TokenInv
  <2> QED BY <2>1, <2>2, Zenon
<1>5. ASSUME NEW d \in Drawers, disable_identity(d)
      PROVE  TokenInv'
  BY <1>5, Zenon DEF disable_identity
<1>6. CASE Later
  BY <1>6 DEF Later
<1>7. CASE EnrolmentTorn
  BY <1>7 DEF EnrolmentTorn, Empty
<1>8. CASE CertNext
  BY <1>8, <1>1, Zenon DEF CertNext, PromoteExpire, PromoteActivate, mark_state, upsert, CertCrash
<1>9. CASE UNCHANGED <<ivars, xvars>>
  BY <1>9, <1>1, Zenon
<1> QED BY <1>2, <1>3, <1>4, <1>5, <1>6, <1>7, <1>8, <1>9, Zenon DEF EnrolmentNext

(* A token enrols at most one drawer for each time it was issued.          *)
THEOREM OneTimeTokens == IdSpec => []TokenIsOneTime
<1>1. IdInit => TokenInv
  BY DEF IdInit, TokenInv, TokenIsOneTime, Empty
<1>2. TokenInv /\ [EnrolmentNext \/ CertNext]_<<ivars, xvars>> => TokenInv'
  BY TokenStep, Zenon
<1>3. TokenInv => TokenIsOneTime
  BY Zenon DEF TokenInv
<1> QED BY <1>1, <1>2, <1>3, PTL DEF IdSpec

(* One step: whoever is enabled again was enrolled with a good token, or   *)
(* the store was lost.                                                     *)
LEMMA DisabledStep ==
  ASSUME TokenInv, EnrolmentNext, NEW d \in Drawers, is_disabled(d), ~is_disabled(d)'
  PROVE  \/ tokens' = Empty
         \/ \E t \in DOMAIN tokens :
              /\ tokens[t].drawer = d /\ ~tokens[t].revoked /\ t \notin Malformed
              /\ tokens[t].expires = 0 \/ now <= tokens[t].expires
              /\ spent[t] < spent'[t]
<1> USE DEF is_disabled
<1>1. ASSUME NEW t \in Tokens, NEW x \in Drawers, enroll(t, x)
      PROVE  \E u \in DOMAIN tokens :
               /\ tokens[u].drawer = d /\ ~tokens[u].revoked /\ u \notin Malformed
               /\ tokens[u].expires = 0 \/ now <= tokens[u].expires
               /\ spent[u] < spent'[u]
  <2>1. ~Refused(t, x) /\ x = d
    BY <1>1, Zenon DEF enroll, Put
  <2>2. t \in DOMAIN tokens /\ t \notin Malformed /\ tokens[t].drawer = d /\ ~tokens[t].revoked
    BY <2>1, Zenon DEF Refused
  <2>3. tokens[t].expires \in Nat /\ ~(tokens[t].expires > 0 /\ tokens[t].expires < now)
    BY <2>1, <2>2, IdentityAssumption, Zenon DEF Refused, TokenInv, TokenRecords
  <2>4. spent[t] < spent'[t]
    BY <1>1, <2>1 DEF enroll, TokenInv
  <2>5. now \in Nat
    BY Zenon DEF TokenInv
  <2> QED BY <2>2, <2>3, <2>4, <2>5
<1>2. ASSUME NEW t \in Tokens, NEW x \in Drawers, NEW e \in Expiries, add_token(t, x, e)
      PROVE  FALSE
  BY <1>2, Zenon DEF add_token
<1>3. ASSUME NEW t \in Tokens, revoke_token(t)
      PROVE  FALSE
  BY <1>3, Zenon DEF revoke_token
<1>4. ASSUME NEW x \in Drawers, disable_identity(x)
      PROVE  FALSE
  BY <1>4, Zenon DEF disable_identity
<1>5. CASE Later
  BY <1>5, Zenon DEF Later
<1>6. CASE EnrolmentTorn
  BY <1>6, Zenon DEF EnrolmentTorn
<1> QED BY <1>1, <1>2, <1>3, <1>4, <1>5, <1>6, Zenon DEF EnrolmentNext

(* A disabled drawer comes back only by an enrolment with a token that is  *)
(* neither revoked, expired nor malformed, or by the loss of the store.    *)
THEOREM DisabledStaysOut == IdSpec => DisabledNeedsNewToken
<1> DEFINE Moves(d) ==
      is_disabled(d) /\ ~is_disabled(d)'
        => \/ tokens' = Empty
           \/ \E t \in DOMAIN tokens :
                /\ tokens[t].drawer = d /\ ~tokens[t].revoked /\ t \notin Malformed
                /\ tokens[t].expires = 0 \/ now <= tokens[t].expires
                /\ spent[t] < spent'[t]
<1>1. IdInit => TokenInv
  BY DEF IdInit, TokenInv, TokenIsOneTime, Empty
<1>2. TokenInv /\ [EnrolmentNext \/ CertNext]_<<ivars, xvars>> => TokenInv'
  BY TokenStep, Zenon
<1>3. TokenInv /\ [EnrolmentNext \/ CertNext]_<<ivars, xvars>> => [\A d \in Drawers : Moves(d)]_ivars
  <2>1. CertNext \/ UNCHANGED <<ivars, xvars>> => UNCHANGED ivars
    BY Zenon DEF CertNext, PromoteExpire, PromoteActivate, mark_state, upsert, CertCrash
  <2>2. TokenInv /\ EnrolmentNext => \A d \in Drawers : Moves(d)
    BY DisabledStep, Zenon
  <2> QED BY <2>1, <2>2, Zenon
<1> QED BY <1>1, <1>2, <1>3, PTL DEF IdSpec, DisabledNeedsNewToken
-----------------------------------------------------------------------------
(***************************************************************************)
(* Certificates.  promote_pending expires the predecessor, so the proof    *)
(* needs to know whose it is: the same drawer's, and not the certificate   *)
(* itself, unless records were replaced by an operator.                    *)
(***************************************************************************)
CertTypes == DOMAIN certs \subseteq Certs /\ \A c \in DOMAIN certs : certs[c] \in CertRecords

Lineage ==
  \A c \in DOMAIN certs :
    LET f == certs[c].from
    IN f # "none" =>
         /\ f \in DOMAIN certs
         /\ \/ f # c /\ certs[f].drawer = certs[c].drawer
            \/ certs[f].drawer \in withdrawn /\ certs[c].drawer \in withdrawn

CertInv == CertTypes /\ Lineage /\ NeverLockedOut /\ promoting \subseteq DOMAIN certs

(* A new state of one record that keeps the drawer admitted, or whose      *)
(* drawer counts as withdrawn, keeps everything.                           *)
LEMMA StateKeeps ==
  ASSUME CertInv, NEW c \in DOMAIN certs, NEW s \in CertStates,
         certs' = [certs EXCEPT ![c].state = s], withdrawn \subseteq withdrawn',
         promoting' \subseteq DOMAIN certs,
         \/ s \in {"active", "pending"} \/ certs[c].drawer \in withdrawn'
         \/ \E x \in DOMAIN certs \ {c} : /\ certs[x].drawer = certs[c].drawer
                                          /\ certs[x].state \in {"active", "pending"}
  PROVE  CertInv'
<1>1. /\ DOMAIN certs' = DOMAIN certs
      /\ \A x \in DOMAIN certs : x # c => certs'[x] = certs[x]
      /\ certs'[c] = [certs[c] EXCEPT !.state = s]
  BY Zenon
<1>2. certs[c] \in CertRecords
  BY Zenon DEF CertInv, CertTypes
<1>3. certs'[c] \in CertRecords /\ certs'[c].drawer = certs[c].drawer
      /\ certs'[c].from = certs[c].from /\ certs'[c].state = s
  BY <1>1, <1>2, Zenon DEF CertRecords
<1>4. CertTypes'
  BY <1>1, <1>3, Zenon DEF CertInv, CertTypes
<1>5. \A x \in DOMAIN certs : certs'[x].drawer = certs[x].drawer /\ certs'[x].from = certs[x].from
  BY <1>1, <1>3, Zenon
<1>6. Lineage'
  BY <1>1, <1>5 DEF CertInv, Lineage
<1>7. ASSUME NEW x \in DOMAIN certs, certs[x].drawer \notin withdrawn'
      PROVE  \E y \in DOMAIN certs : /\ certs'[y].drawer = certs[x].drawer
                                     /\ certs'[y].state \in {"active", "pending"}
  <2>1. PICK y \in DOMAIN certs : certs[y].drawer = certs[x].drawer /\ certs[y].state \in {"active", "pending"}
    BY <1>7, Zenon DEF CertInv, NeverLockedOut, Admitted, cert_state_allows_device
  <2>2. CASE y # c
    BY <2>1, <2>2, <1>1, Zenon
  <2>3. CASE y = c
    BY <2>1, <2>3, <1>1, <1>3, <1>7, Zenon
  <2> QED BY <2>2, <2>3, Zenon
<1>8. NeverLockedOut'
  BY <1>1, <1>5, <1>7 DEF NeverLockedOut, Admitted, cert_state_allows_device
<1> QED BY <1>1, <1>4, <1>6, <1>8, Zenon DEF CertInv

(* upsert adds a record or replaces one.                                   *)
LEMMA UpsertKeeps ==
  ASSUME CertInv, NEW c \in Certs, NEW d \in Drawers, NEW s \in CertStates,
         NEW from \in Certs \cup {"none"}, upsert(c, d, s, from)
  PROVE  CertInv'
<1>1. /\ DOMAIN certs' = DOMAIN certs \cup {c}
      /\ \A x \in DOMAIN certs : x # c => certs'[x] = certs[x]
      /\ certs'[c] = [drawer |-> d, from |-> from, state |-> s]
  BY Zenon DEF upsert, Put
<1>2. /\ promoting' = {} /\ withdrawn \subseteq withdrawn'
      /\ c \in DOMAIN certs => certs[c].drawer \in withdrawn' /\ d \in withdrawn'
      /\ s \notin {"active", "pending"} => d \in withdrawn'
      /\ from = "none" \/ (from \in DOMAIN certs /\ certs[from].drawer = d)
  BY Zenon DEF upsert
<1>3. CertTypes'
  BY <1>1 DEF CertInv, CertTypes, CertRecords
<1>4. ASSUME NEW x \in DOMAIN certs', certs'[x].from # "none"
      PROVE  LET f == certs'[x].from
             IN /\ f \in DOMAIN certs'
                /\ \/ f # x /\ certs'[f].drawer = certs'[x].drawer
                   \/ certs'[f].drawer \in withdrawn' /\ certs'[x].drawer \in withdrawn'
  <2>1. CASE x = c
    BY <1>1, <1>2, <1>4, <2>1
  <2>2. CASE x # c
    <3>1. x \in DOMAIN certs /\ certs'[x] = certs[x]
      BY <1>1, <2>2, Zenon
    <3>2. /\ certs[x].from \in DOMAIN certs
          /\ \/ certs[x].from # x /\ certs[certs[x].from].drawer = certs[x].drawer
             \/ certs[certs[x].from].drawer \in withdrawn /\ certs[x].drawer \in withdrawn
      BY <1>4, <3>1, Zenon DEF CertInv, Lineage
    <3> QED BY <1>1, <1>2, <3>1, <3>2, SMTT(20), ZenonT(20)
  <2> QED BY <2>1, <2>2, Zenon
<1>5. Lineage'
  BY <1>4, Zenon DEF Lineage
<1>6. ASSUME NEW x \in DOMAIN certs', certs'[x].drawer \notin withdrawn'
      PROVE  \E y \in DOMAIN certs' : /\ certs'[y].drawer = certs'[x].drawer
                                      /\ certs'[y].state \in {"active", "pending"}
  <2>1. CASE x = c
    BY <1>1, <1>2, <1>6, <2>1
  <2>2. CASE x # c
    <3>1. PICK y \in DOMAIN certs : certs[y].drawer = certs[x].drawer /\ certs[y].state \in {"active", "pending"}
      BY <1>1, <1>2, <1>6, <2>2, Zenon DEF CertInv, NeverLockedOut, Admitted, cert_state_allows_device
    <3> QED BY <1>1, <1>2, <1>6, <2>2, <3>1, Zenon
  <2> QED BY <2>1, <2>2, Zenon
<1>7. NeverLockedOut'
  BY <1>6, Zenon DEF NeverLockedOut, Admitted, cert_state_allows_device
<1> QED BY <1>2, <1>3, <1>5, <1>7, Zenon DEF CertInv

(* Every step of either service keeps the certificates in order.           *)
LEMMA CertStep ==
  ASSUME CertInv, [EnrolmentNext \/ CertNext]_<<ivars, xvars>>
  PROVE  CertInv'
<1>1. CASE UNCHANGED xvars
  BY <1>1, Zenon DEF xvars, CertInv, CertTypes, Lineage, NeverLockedOut, Admitted, cert_state_allows_device
<1>2. ASSUME NEW c \in Certs, NEW s \in CertStates, mark_state(c, s)
      PROVE  CertInv'
  BY <1>2, StateKeeps, Zenon DEF mark_state, CertInv
<1>3. ASSUME NEW c \in Certs, PromoteActivate(c)
      PROVE  CertInv'
  BY <1>3, StateKeeps, Zenon DEF PromoteActivate, CertInv, CertStates
<1>4. ASSUME NEW c \in Certs, PromoteExpire(c)
      PROVE  CertInv'
  <2>1. promoting' = {c} /\ c \in DOMAIN certs /\ certs[c].state = "pending" /\ withdrawn' = withdrawn
    BY <1>4, Zenon DEF PromoteExpire
  <2>2. CASE certs[c].from \notin DOMAIN certs
    BY <1>4, <2>1, <2>2 DEF PromoteExpire, CertInv, CertTypes, Lineage, NeverLockedOut, Admitted,
                            cert_state_allows_device
  <2>3. CASE certs[c].from \in DOMAIN certs
    <3>1. certs' = [certs EXCEPT ![certs[c].from].state = "expired"]
      BY <1>4, <2>3, Zenon DEF PromoteExpire
    <3>2. certs[c].from # "none"
      BY <2>3, IdentityAssumption, Zenon DEF CertInv, CertTypes
    <3>3. \/ certs[c].from # c /\ certs[certs[c].from].drawer = certs[c].drawer
          \/ certs[certs[c].from].drawer \in withdrawn
      BY <2>1, <3>2, Zenon DEF CertInv, Lineage
    <3> QED BY <2>1, <2>3, <3>1, <3>3, StateKeeps, Zenon DEF CertStates
  <2> QED BY <2>2, <2>3, Zenon
<1>5. CASE CertCrash
  BY <1>5 DEF CertCrash, CertInv, CertTypes, Lineage, NeverLockedOut, Admitted, cert_state_allows_device
<1>6. CASE EnrolmentNext
  BY <1>1, <1>6, Zenon DEF EnrolmentNext, add_token, revoke_token, enroll, disable_identity, Later, EnrolmentTorn
<1>7. CASE UNCHANGED <<ivars, xvars>>
  BY <1>1, <1>7, Zenon
<1> QED BY <1>2, <1>3, <1>4, <1>5, <1>6, <1>7, UpsertKeeps, Zenon DEF CertNext

(* Rotation never locks a drawer out, for any certificates and drawers.    *)
THEOREM RotationIsSafe == IdSpec => []NeverLockedOut
<1>1. IdInit => CertInv
  BY Zenon DEF IdInit, CertInv, CertTypes, Lineage, NeverLockedOut, Empty
<1>2. CertInv /\ [EnrolmentNext \/ CertNext]_<<ivars, xvars>> => CertInv'
  BY CertStep, Zenon
<1>3. CertInv => NeverLockedOut
  BY Zenon DEF CertInv
<1> QED BY <1>1, <1>2, <1>3, PTL DEF IdSpec
-----------------------------------------------------------------------------
(***************************************************************************)
(* The shutter.  A motion counts its steps as waitFor counts its rounds,   *)
(* so it ends before waitFor gives up, and while it opens the history has  *)
(* room for the steps that are left.                                       *)
(***************************************************************************)
FsmRecords == [st : States, done : Nat, target : Nat, deb : Nat, en : BOOLEAN, dir : BOOLEAN]
MoveRecords == [goal : {"none", "OPEN", "CLOSED"}, ticks : Nat]

ShutterTypes ==
  /\ fsm \in FsmRecords /\ move \in MoveRecords
  /\ plate \in 0..Travel /\ gap \in 0..Unknown

ShutterInv ==
  /\ ShutterTypes
  /\ fsm.en => fsm.st \in Moving
  /\ fsm.st \in Moving => move # NoMove /\ fsm.done = move.ticks /\ fsm.done < MaxSteps
  /\ fsm.st = "OPENING" => fsm.dir
  /\ fsm.st \in {"HOMING", "CLOSING"} => ~fsm.dir
  /\ plate <= gap
  /\ fsm.st = "OPENING" => \/ gap >= Travel
                           \/ plate + fsm.target <= gap + fsm.done /\ plate + 1 <= gap

(* A step of the machine: where it can end, and what the switch has felt.  *)
LEMMA TickFacts ==
  ASSUME ShutterInv, fsm.st \in Moving
  PROVE  /\ Ticked \in FsmRecords /\ Stepped \in 0..Travel
         /\ Ticked.done = fsm.done + 1 /\ Ticked.target = fsm.target
         /\ Ticked.dir = fsm.dir /\ (Ticked.en => Ticked.st \in Moving)
         /\ Ticked.deb >= DebounceReads => Level
         /\ Ticked.st \in Moving => /\ Ticked.st = fsm.st /\ fsm.done + 1 < fsm.target
                                    /\ fsm.done + 1 < MaxSteps
<1> DEFINE deb == IF Level THEN fsm.deb + 1 ELSE 0
           done == fsm.done + 1
           rest == [HOMING |-> "FAULT", OPENING |-> "OPEN", CLOSING |-> "CLOSED"][fsm.st]
           st == IF deb >= DebounceReads THEN (IF fsm.st = "OPENING" THEN "OPEN" ELSE "CLOSED")
                 ELSE IF done >= fsm.target THEN rest ELSE IF done >= MaxSteps THEN "FAULT" ELSE fsm.st
           en == st \in Moving
<1>1. fsm \in FsmRecords /\ plate \in 0..Travel
  BY Zenon DEF ShutterInv, ShutterTypes
<1>2. deb \in Nat /\ done \in Nat /\ (deb >= DebounceReads => Level)
  BY <1>1, MotionAssumption DEF FsmRecords
<1>3. rest \in {"FAULT", "OPEN", "CLOSED"}
  BY DEF Moving
<1>4. /\ st \in States
      /\ st \in Moving => st = fsm.st /\ done < fsm.target /\ done < MaxSteps
  <2> HIDE DEF rest, deb
  <2> QED BY <1>1, <1>2, <1>3, MotionAssumption DEF FsmRecords, Moving, States
<1>5. Ticked = [fsm EXCEPT !.st = st, !.done = done, !.deb = deb, !.en = en]
  BY Zenon DEF Ticked
<1>6. Stepped \in 0..Travel
  BY <1>1, MotionAssumption DEF Stepped, Least
<1>7. en \in BOOLEAN
  OBVIOUS
<1> HIDE DEF st, deb, done, en
<1>8. /\ Ticked.st = st /\ Ticked.done = done /\ Ticked.deb = deb
      /\ Ticked.target = fsm.target /\ Ticked.dir = fsm.dir /\ Ticked.en = en
  BY <1>1, <1>5, Zenon DEF FsmRecords
<1>9. Ticked \in FsmRecords
  BY <1>1, <1>2, <1>4, <1>5, <1>7, Zenon DEF FsmRecords
<1> QED BY <1>2, <1>4, <1>6, <1>8, <1>9, Zenon DEF done, en

(* Every command and every round of waitFor keeps the invariant.           *)
LEMMA ShutterStep ==
  ASSUME ShutterInv, [ShNext]_svars
  PROVE  ShutterInv'
<1>0. ASSUME NEW goal \in {"OPEN", "CLOSED"}, Issue(goal)
      PROVE  /\ ~fsm.en /\ plate' = plate /\ move' \in MoveRecords /\ move'.ticks = 0 /\ move' # NoMove
  <2>1. move = NoMove /\ plate' = plate /\ move' = [goal |-> goal, ticks |-> 0]
    BY <1>0, Zenon DEF Issue
  <2>2. move'.goal = goal /\ NoMove.goal = "none"
    BY <2>1, Zenon DEF NoMove
  <2> QED BY <2>1, <2>2, Zenon DEF ShutterInv, MoveRecords
<1> DEFINE Started(st, n, open) == [st |-> st, done |-> 0, target |-> n, deb |-> 0, en |-> TRUE, dir |-> open]
<1>2. ASSUME NEW goal \in {"OPEN", "CLOSED"}, Issue(goal), fsm' = [fsm EXCEPT !.st = "FAULT"], gap' = gap
      PROVE  ShutterInv'
  <2>1. fsm' \in FsmRecords /\ fsm'.st = "FAULT" /\ fsm'.en = fsm.en
    BY <1>2, Zenon DEF ShutterInv, ShutterTypes, FsmRecords, States
  <2> QED BY <1>0, <1>2, <2>1, Zenon DEF ShutterInv, ShutterTypes, Moving
<1>3. ASSUME Issue("CLOSED"), NEW st \in {"HOMING", "CLOSING"}, NEW n \in 0..MaxSteps,
             fsm' = Started(st, n, FALSE), gap' \in {gap, Unknown}
      PROVE  ShutterInv'
  <2>1. /\ fsm' \in FsmRecords /\ fsm'.st = st /\ fsm'.done = 0 /\ ~fsm'.dir
    BY <1>3, MotionAssumption DEF FsmRecords, States
  <2>2. gap' \in 0..Unknown /\ plate' <= gap'
    BY <1>0, <1>3, MotionAssumption DEF ShutterInv, ShutterTypes, Unknown
  <2>3. plate' = plate /\ move' \in MoveRecords /\ move'.ticks = 0 /\ move' # NoMove
    BY <1>0, <1>3, Zenon
  <2>4. plate \in 0..Travel /\ 0 < MaxSteps
    BY MotionAssumption DEF ShutterInv, ShutterTypes
  <2> QED BY <2>1, <2>2, <2>3, <2>4, Zenon DEF ShutterInv, ShutterTypes, Moving
<1>4. CASE home
  <2>1. Issue("CLOSED") /\ gap' = Unknown
    BY <1>4, Zenon DEF home
  <2>2. fsm' = Started("HOMING", MaxSteps, FALSE)
    BY <1>4, Zenon DEF home, Begin
  <2> QED BY <1>3, <2>1, <2>2, MotionAssumption
<1>5. ASSUME NEW n \in Distances, close_mm(n)
      PROVE  ShutterInv'
  <2>1. Issue("CLOSED") /\ gap' = gap
    BY <1>5, Zenon DEF close_mm
  <2>2. CASE n > MaxSteps
    <3>1. fsm' = [fsm EXCEPT !.st = "FAULT"]
      BY <1>5, <2>2, Zenon DEF close_mm
    <3> QED BY <1>2, <2>1, <3>1, Zenon
  <2>3. CASE ~(n > MaxSteps)
    <3>1. fsm' = Started("CLOSING", n, FALSE)
      BY <1>5, <2>3, Zenon DEF close_mm, Begin
    <3>2. n \in 0..MaxSteps
      BY <2>3, MotionAssumption
    <3> QED BY <1>3, <2>1, <3>1, <3>2, Zenon
  <2> QED BY <2>2, <2>3, Zenon
<1>6. ASSUME NEW n \in Distances, open_mm(n)
      PROVE  ShutterInv'
  <2>1. CASE n > MaxSteps
    BY <1>2, <1>6, <2>1, Zenon DEF open_mm
  <2>2. CASE ~(n > MaxSteps)
    <3>0. n \in 0..MaxSteps
      BY <2>2, MotionAssumption
    <3>1. Issue("OPEN")
      BY <1>6, Zenon DEF open_mm
    <3>2. fsm' = Started("OPENING", n, TRUE)
      BY <1>6, <2>2, Zenon DEF open_mm, Begin
    <3>3. fsm' \in FsmRecords /\ fsm'.st = "OPENING" /\ fsm'.done = 0 /\ fsm'.target = n
      BY <3>0, <3>2, MotionAssumption, Zenon DEF FsmRecords, States
    <3>4. gap' = IF gap = Unknown THEN gap ELSE Least(gap + (IF n = 0 THEN 1 ELSE n), Travel)
      BY <1>6, <2>2, Zenon DEF open_mm
    <3>5. /\ gap' \in 0..Unknown /\ plate <= gap'
          /\ gap' >= Travel \/ (plate + n <= gap' /\ plate + 1 <= gap')
      BY <3>0, <3>4, MotionAssumption DEF ShutterInv, ShutterTypes, Unknown, Least
    <3>6. plate' = plate /\ move' \in MoveRecords /\ move'.ticks = 0 /\ move' # NoMove
      BY <1>0, <3>1, Zenon
    <3>7. plate \in 0..Travel /\ 0 < MaxSteps
      BY MotionAssumption DEF ShutterInv, ShutterTypes
    <3>8. \/ gap' >= Travel
          \/ plate' + fsm'.target <= gap' + fsm'.done /\ plate' + 1 <= gap'
      <4>1. fsm'.done = 0 /\ fsm'.target = n /\ plate' = plate
        BY <3>3, <3>6, Zenon
      <4>2. \A g \in Nat : plate + n <= g => plate + n <= g + 0
        BY <3>0, <3>7, MotionAssumption
      <4>3. gap' \in Nat
        BY <3>5, MotionAssumption DEF Unknown
      <4> QED BY <3>5, <4>1, <4>2, <4>3, Zenon
    <3>9. ShutterTypes' /\ plate' <= gap'
      BY <3>3, <3>5, <3>6, <3>7, Zenon DEF ShutterTypes
    <3>10. fsm'.dir
      BY <3>2, Zenon
    <3> QED BY <3>3, <3>6, <3>7, <3>8, <3>9, <3>10, Zenon DEF ShutterInv, Moving
  <2> QED BY <2>1, <2>2, Zenon
<1>7. CASE waitFor
  <2>0. move' \in MoveRecords
    BY <1>7 DEF waitFor, ShutterInv, ShutterTypes, NoMove, MoveRecords
  <2>1. CASE fsm.st \notin Moving
    <3>1. UNCHANGED <<fsm, plate>>
      BY <1>7, <2>1, Zenon DEF waitFor, tick
    <3>2. gap' = gap
      BY <1>7, <2>1, <3>1, Zenon DEF waitFor, Gap, Moving
    <3> QED BY <2>0, <2>1, <3>1, <3>2, Zenon DEF ShutterInv, ShutterTypes, Moving
  <2>2. CASE fsm.st \in Moving
    <3>1. fsm' = Ticked /\ plate' = Stepped /\ gap' = Gap
      BY <1>7, <2>2, Zenon DEF waitFor, tick
    <3>2. /\ fsm \in FsmRecords /\ plate \in 0..Travel /\ gap \in 0..Unknown /\ move \in MoveRecords
          /\ fsm.done = move.ticks /\ fsm.done < MaxSteps /\ plate <= gap
      BY <2>2, Zenon DEF ShutterInv, ShutterTypes
    <3>3. fsm'.st \in Moving => move' # NoMove /\ move'.ticks = move.ticks + 1
      <4> SUFFICES ASSUME fsm'.st \in Moving PROVE move' # NoMove /\ move'.ticks = move.ticks + 1
        BY Zenon
      <4>1. fsm'.st # "FAULT" /\ fsm'.st \notin {"OPEN", "CLOSED", "none"} /\ move.ticks + 1 # WaitTicks
        BY <2>2, <3>1, <3>2, TickFacts, MotionAssumption DEF Moving, FsmRecords, MoveRecords
      <4>2. move' = [move EXCEPT !.ticks = @ + 1]
        BY <1>7, <3>2, <4>1, Zenon DEF waitFor, MoveRecords
      <4>3. move'.ticks = move.ticks + 1 /\ move.ticks \in Nat
        BY <3>2, <4>2, Zenon DEF MoveRecords
      <4> QED BY <4>3 DEF NoMove
    <3>4. gap' \in 0..Unknown /\ plate' <= gap'
      <4>1. CASE fsm.st = "OPENING"
        BY <3>1, <3>2, <4>1, MotionAssumption DEF Gap, Stepped, Least, Unknown, ShutterInv, FsmRecords
      <4>2. CASE fsm.st \in {"HOMING", "CLOSING"}
        <5>1. plate' = (IF plate = 0 THEN 0 ELSE plate - 1)
          BY <3>1, <4>2, Zenon DEF Stepped, ShutterInv
        <5>2. fsm'.deb >= DebounceReads => plate' = 0
          BY <2>2, <3>1, <4>2, TickFacts, Zenon DEF Level
        <5> QED BY <3>1, <3>2, <4>2, <5>1, <5>2, MotionAssumption DEF Gap, Unknown
      <4> QED BY <2>2, <4>1, <4>2, Zenon DEF Moving
    <3>5. fsm'.st = "OPENING" => \/ gap' >= Travel
                                 \/ plate' + fsm'.target <= gap' + fsm'.done /\ plate' + 1 <= gap'
      <4> SUFFICES ASSUME fsm'.st = "OPENING"
                   PROVE  \/ gap' >= Travel
                          \/ plate' + fsm'.target <= gap' + fsm'.done /\ plate' + 1 <= gap'
        BY Zenon
      <4>1. fsm.st = "OPENING" /\ fsm'.target = fsm.target /\ fsm'.done = fsm.done + 1 /\ fsm.done + 1 < fsm.target
        BY <2>2, <3>1, TickFacts, Zenon DEF Moving
      <4>2. gap' = gap /\ (plate' = plate + 1 \/ plate' = Travel)
        BY <3>1, <4>1, Zenon DEF Gap, Stepped, Least, ShutterInv
      <4> QED BY <3>1, <3>2, <4>1, <4>2, MotionAssumption DEF ShutterInv, FsmRecords, Stepped, Least, Unknown
    <3> QED BY <2>0, <2>2, <3>1, <3>2, <3>3, <3>4, <3>5, TickFacts, Zenon DEF ShutterInv, ShutterTypes, Moving
  <2> QED BY <2>1, <2>2, Zenon
<1>8. CASE UNCHANGED svars
  BY <1>8, Zenon DEF svars, ShutterInv, ShutterTypes
<1> QED BY <1>4, <1>5, <1>6, <1>7, <1>8, Zenon DEF ShNext

(* The shutter beside the poller and the service commands.                 *)
DrawerSpec == ShInit /\ SfInit /\ [][SfNext]_<<svars, fvars>>

(* Whatever the poller and the service mode do, the shutter takes steps of *)
(* its own or none.                                                        *)
LEMMA ShutterAlone ==
  ASSUME [SfNext]_<<svars, fvars>>
  PROVE  [ShNext]_svars
<1>1. CASE UNCHANGED <<svars, fvars>>
  BY <1>1, Zenon
<1>2. CASE SfNext
  <2>1. ASSUME NEW n \in Distances, ServiceCommand(n)
        PROVE  [ShNext]_svars
    BY <2>1, Zenon DEF ServiceCommand, ShNext
  <2>2. CASE Shutting
    BY <2>2, Zenon DEF Shutting, ShNext
  <2> QED BY <1>2, <2>1, <2>2, Zenon DEF SfNext, Toggle, poll_thread, ReadLines, HandleLine, raise, set_mode,
                                  enter, exit, ServiceGuard, run_jam_clear
<1> QED BY <1>1, <1>2, Zenon

(* The shutter is safe at rest for any travel, distances, debounce count   *)
(* and broken switches, as long as waitFor outlasts a full stroke.         *)
THEOREM ShutterRestsSafely == DrawerSpec => []RestIsSafe
<1>1. ShInit => ShutterInv
  <2> SUFFICES ASSUME ShInit PROVE ShutterInv
    BY Zenon
  <2>1. fsm \in FsmRecords /\ fsm.st = "INIT" /\ fsm.en = FALSE
    BY Zenon DEF ShInit, FsmRecords, States
  <2>2. move \in MoveRecords
    BY Zenon DEF ShInit, NoMove, MoveRecords
  <2>3. plate \in 0..Travel /\ gap \in 0..Unknown /\ plate <= gap
    BY MotionAssumption DEF ShInit, Unknown
  <2> QED BY <2>1, <2>2, <2>3, Zenon DEF ShutterInv, ShutterTypes, Moving
<1>2. ShutterInv /\ [SfNext]_<<svars, fvars>> => ShutterInv'
  BY ShutterStep, ShutterAlone, Zenon
<1>3. ShutterInv => RestIsSafe
  BY DEF ShutterInv, ShutterTypes, RestIsSafe
<1> QED BY <1>1, <1>2, <1>3, PTL DEF DrawerSpec
-----------------------------------------------------------------------------
(***************************************************************************)
(* The poller.  In the middle of a round the lines that are handled agree  *)
(* with the new sample and the others still with the previous one.         *)
(***************************************************************************)
Agrees(l, read) == (l \in read => l \in faults) /\ (l \in faults => l \in read \cup {"ESTOP"})

PollerInv ==
  /\ todo \in 0..3 /\ sample \subseteq Lines /\ line \subseteq Lines
  /\ Agrees("ESTOP", IF todo <= 2 THEN sample ELSE prev)
  /\ Agrees("LID_TAMPER", IF todo <= 1 THEN sample ELSE prev)
  /\ Agrees("OVERCURRENT", IF todo = 0 THEN sample ELSE prev)

(* The three lines of the drawer.                                          *)
LEMMA ThreeLines == Lines = {"ESTOP", "LID_TAMPER", "OVERCURRENT"}
  BY DEF Lines, LineOrder

(* Each step of the poller, the service mode and the modes keeps it.       *)
LEMMA PollerStep ==
  ASSUME PollerInv, [SfNext]_<<svars, fvars>>
  PROVE  PollerInv'
<1>1. ASSUME UNCHANGED <<sample, prev, todo>>, line' \subseteq Lines,
             \/ faults' = faults \/ faults' = faults \cup {"ESTOP"}
             \/ \E c \in Jams : faults' = faults \cup {c} \/ faults' = faults \ {c}
      PROVE  PollerInv'
  BY <1>1, Zenon DEF PollerInv, Agrees, Jams
<1>2. ASSUME NEW l \in Lines, Toggle(l)
      PROVE  PollerInv'
  BY <1>1, <1>2, Zenon DEF Toggle, PollerInv
<1>3. CASE ReadLines
  BY <1>3 DEF ReadLines, PollerInv, Agrees
<1>4. CASE HandleLine
  <2>1. /\ todo > 0 /\ todo' = todo - 1 /\ sample' = sample /\ prev' = prev /\ line' = line
        /\ LET l == LineOrder[4 - todo]
           IN faults' = IF l \in sample \ prev THEN faults \cup {l}
                        ELSE IF l \in prev \ sample THEN faults \ {l} ELSE faults
    BY <1>4, Zenon DEF HandleLine
  <2>2. todo \in 0..3
    BY Zenon DEF PollerInv
  <2>3. CASE todo = 3
    BY <2>1, <2>3, SMTT(20), ZenonT(20) DEF PollerInv, Agrees, LineOrder
  <2>4. CASE todo = 2
    BY <2>1, <2>4 DEF PollerInv, Agrees, LineOrder
  <2>5. CASE todo = 1
    BY <2>1, <2>5 DEF PollerInv, Agrees, LineOrder
  <2> QED BY <2>1, <2>2, <2>3, <2>4, <2>5
<1>5. CASE UNCHANGED <<svars, fvars>>
  BY <1>5, Zenon DEF fvars, PollerInv, Agrees
<1>6. ASSUME NEW c \in Jams, raise(c) \/ run_jam_clear(c)
      PROVE  PollerInv'
  BY <1>1, <1>6, Zenon DEF raise, run_jam_clear, PollerInv
<1>7. ASSUME NEW m \in Modes, set_mode(m)
      PROVE  PollerInv'
  BY <1>1, <1>7, Zenon DEF set_mode, PollerInv
<1>8. CASE enter \/ exit \/ Shutting
  BY <1>1, <1>8, Zenon DEF enter, exit, Shutting, fvars, PollerInv
<1>9. ASSUME NEW c \in {"open", "close", "dispense"}, ServiceGuard(c)
      PROVE  PollerInv'
  BY <1>1, <1>9, Zenon DEF ServiceGuard, PollerInv
<1>10. ASSUME NEW n \in Distances, ServiceCommand(n)
       PROVE  PollerInv'
  BY <1>1, <1>10, Zenon DEF ServiceCommand, PollerInv
<1> QED BY <1>2, <1>3, <1>4, <1>5, <1>6, <1>7, <1>8, <1>9, <1>10, Zenon DEF SfNext, poll_thread

(* Between two rounds the blocking faults are those of the last sample.    *)
THEOREM FaultsFollowLines == DrawerSpec => []FaultsMatchSample
<1>1. SfInit => PollerInv
  BY DEF SfInit, PollerInv, Agrees
<1>2. PollerInv /\ [SfNext]_<<svars, fvars>> => PollerInv'
  BY PollerStep, Zenon
<1>3. PollerInv => FaultsMatchSample
  BY ThreeLines DEF PollerInv, Agrees, FaultsMatchSample
<1> QED BY <1>1, <1>2, <1>3, PTL DEF DrawerSpec
-----------------------------------------------------------------------------
(***************************************************************************)
(* Software updates.  What a program holds says what it read: while the    *)
(* daemon holds a record the stored one is pending, and while the agent    *)
(* does, the stored one is pending only if the one it read was.  So a      *)
(* write that undoes nothing is one of a record that nobody has touched.   *)
(***************************************************************************)
StateRecords == [current : Nat, pending : Nat, bootPending : BOOLEAN, lastBad : SUBSET Nat]
Held == [at : {"save"}, read : StateRecords, new : StateRecords]
Ahead(st) == st.bootPending => st.pending > st.current

UpdateTypes ==
  /\ releases \subseteq Manifests
  /\ feed = NoManifest \/ feed \in Manifests
  /\ state \in StateRecords /\ installed \in Nat /\ losses \in Nat /\ stale \in BOOLEAN
  /\ agent = Idle \/ agent \in Held
  /\ daemon = Idle \/ daemon \in Held

RanWasAllowed ==
  installed # 0 => /\ ran.version = installed /\ ran.channel = Channel
                   /\ ~ran.revoked /\ Bucket < ran.percent /\ ran.intact

HeldRecords ==
  /\ Ahead(state)
  /\ agent # Idle => /\ Ahead(agent.new) /\ agent.new.bootPending
                     /\ agent.new.current = agent.read.current
                     /\ state.bootPending => agent.read.bootPending
  /\ daemon # Idle => /\ state.bootPending /\ ~daemon.new.bootPending
                      /\ \/ daemon.new.current = daemon.read.current
                         \/ /\ daemon.new.current > daemon.read.current
                            /\ daemon.new.current \in healthy
  /\ agent # Idle /\ daemon # Idle => agent.read.bootPending

PendingIsInstalled ==
  losses = 0 /\ ~stale /\ daemon = Idle =>
    /\ agent = Idle /\ state.bootPending => installed = state.pending
    /\ agent # Idle /\ agent.read = state => installed = agent.new.pending

UpdateInv == UpdateTypes /\ RanWasAllowed /\ HeldRecords /\ PendingIsInstalled

(* What the release service stores is a manifest with a valid percentage.  *)
LEMMA StoredTypes ==
  ASSUME releases \subseteq Manifests,
         NEW m \in [channel : Channels, version : Versions, percent : Int,
                    revoked : BOOLEAN, intact : BOOLEAN, min : Versions \cup {0}]
  PROVE  Stored(m) \subseteq Manifests
<1>1. Clamp(m.percent) \in 0..100
  BY DEF Clamp
<1>2. [m EXCEPT !.percent = Clamp(@)] \in Manifests
  BY <1>1, Zenon DEF Manifests
<1> QED BY <1>2, Zenon DEF Stored

(* A program is idle exactly when it holds nothing.                        *)
LEMMA HeldIsBusy == \A h \in Held : h # Idle
  BY DEF Held, Idle

(* Each step of service, agent, daemon and power keeps the invariant.      *)
LEMMA UpdateStep ==
  ASSUME UpdateInv, [ONext]_ovars
  PROVE  UpdateInv'
<1> USE DEF UpdateInv
<1>1. ASSUME releases' \subseteq Manifests, feed' = NoManifest \/ feed' \in Manifests,
             UNCHANGED <<state, installed, agent, daemon, ran, healthy, stale, losses>>
      PROVE  UpdateInv'
  BY <1>1, Zenon DEF UpdateTypes, RanWasAllowed, HeldRecords, PendingIsInstalled, Ahead
<1>2. ASSUME NEW m \in Catalogue, publish(m)
      PROVE  UpdateInv'
  <2>1. m.channel \in Channels => Stored(m) \subseteq Manifests
    <3> SUFFICES ASSUME m.channel \in Channels PROVE Stored(m) \subseteq Manifests
      BY Zenon
    <3>1. m \in [channel : Channels, version : Versions, percent : Int,
                 revoked : BOOLEAN, intact : BOOLEAN, min : Versions \cup {0}]
      BY OtaAssumption, Zenon
    <3> QED BY <3>1, StoredTypes, Zenon DEF UpdateTypes
  <2>2. releases' \subseteq Manifests
    BY <1>2, <2>1, Zenon DEF publish, UpdateTypes
  <2> QED BY <1>1, <1>2, <2>2, Zenon DEF publish, UpdateTypes
<1>3. ASSUME NEW v \in Versions, NEW from \in Channels, NEW to \in Channels, promote(v, from, to)
      PROVE  UpdateInv'
  <2>1. PICK m \in releases : releases' = Stored([m EXCEPT !.channel = to])
    BY <1>3, Zenon DEF promote
  <2>2. [m EXCEPT !.channel = to] \in [channel : Channels, version : Versions, percent : Int,
                                       revoked : BOOLEAN, intact : BOOLEAN, min : Versions \cup {0}]
    BY <2>1 DEF UpdateTypes, Manifests
  <2>3. releases' \subseteq Manifests
    BY <2>1, <2>2, StoredTypes, Zenon DEF UpdateTypes
  <2> QED BY <1>1, <1>3, <2>3, Zenon DEF promote, UpdateTypes
<1>4. ASSUME NEW m \in releases, PlaceFeed(m)
      PROVE  UpdateInv'
  BY <1>1, <1>4, Zenon DEF PlaceFeed, UpdateTypes
<1>5. CASE Offer
  BY <1>1, <1>5, Zenon DEF Offer, eligible, UpdateTypes
<1>6. CASE run_once
  <2>1. /\ agent = Idle /\ feed \in Manifests /\ feed.channel = Channel /\ feed.version > state.current
        /\ ~feed.revoked /\ Bucket < feed.percent /\ feed.intact
        /\ installed' = feed.version /\ ran' = feed
        /\ agent' = [at |-> "save", read |-> state,
                     new |-> [state EXCEPT !.pending = feed.version, !.bootPending = TRUE]]
    BY <1>6, Zenon DEF run_once, Accepts, allow, UpdateTypes
  <2>2. UNCHANGED <<releases, feed, state, daemon, healthy, stale, losses>>
    BY <1>6, Zenon DEF run_once
  <2>3. feed.version \in Nat \ {0}
    BY <2>1, OtaAssumption, Zenon DEF Manifests
  <2> DEFINE new == [state EXCEPT !.pending = feed.version, !.bootPending = TRUE]
  <2>4. state \in StateRecords
    BY Zenon DEF UpdateTypes
  <2>5. /\ new \in StateRecords /\ new.current = state.current
        /\ new.pending = feed.version /\ new.bootPending
    BY <2>3, <2>4, Zenon DEF StateRecords
  <2> HIDE DEF new
  <2>6. agent' = [at |-> "save", read |-> state, new |-> new]
    BY <2>1, Zenon DEF new
  <2>7. agent' \in Held /\ agent'.read = state /\ agent'.new = new
    BY <2>4, <2>5, <2>6, Zenon DEF Held
  <2>8. agent' # Idle
    BY <2>7, HeldIsBusy, Zenon
  <2>9. UpdateTypes'
    BY <2>2, <2>1, <2>3, <2>7, Zenon DEF UpdateTypes
  <2>10. RanWasAllowed'
    BY <2>1, Zenon DEF RanWasAllowed
  <2>11. HeldRecords'
    BY <2>1, <2>2, <2>5, <2>7, <2>8, Zenon DEF HeldRecords, Ahead
  <2>12. PendingIsInstalled'
    BY <2>1, <2>2, <2>5, <2>7, <2>8, Zenon DEF PendingIsInstalled
  <2> QED BY <2>9, <2>10, <2>11, <2>12, Zenon
<1>7. CASE AgentSave
  <2>1. /\ agent # Idle /\ state' = agent.new /\ stale' = (stale \/ state # agent.read) /\ agent' = Idle
        /\ UNCHANGED <<releases, feed, installed, daemon, ran, healthy, losses>>
    BY <1>7, Zenon DEF AgentSave, Write
  <2>2. agent \in Held /\ agent.new \in StateRecords
    BY <2>1, Zenon DEF UpdateTypes, Held
  <2>3. UpdateTypes' /\ RanWasAllowed'
    BY <2>1, <2>2, Zenon DEF UpdateTypes, RanWasAllowed
  <2>4. HeldRecords'
    BY <2>1, Zenon DEF HeldRecords, Ahead
  <2>5. PendingIsInstalled'
    BY <2>1, Zenon DEF PendingIsInstalled
  <2> QED BY <2>3, <2>4, <2>5, Zenon
<1>8. ASSUME NEW ok \in BOOLEAN, HealthCheck(ok)
      PROVE  UpdateInv'
  <2> DEFINE new == IF ok THEN Confirmed(state) ELSE Withdrawn(state)
  <2>1. /\ daemon = Idle /\ state.bootPending
        /\ installed' = IF ok THEN installed ELSE 0
        /\ healthy' = IF ok THEN healthy \cup {state.pending} ELSE healthy
        /\ daemon' = [at |-> "save", read |-> state, new |-> new]
        /\ UNCHANGED <<releases, feed, state, agent, ran, stale, losses>>
    BY <1>8, Zenon DEF HealthCheck
  <2>2. state \in StateRecords
    BY Zenon DEF UpdateTypes
  <2>3. /\ Confirmed(state) \in StateRecords /\ ~Confirmed(state).bootPending
        /\ Confirmed(state).current = state.pending
    BY <2>2, Zenon DEF StateRecords, Confirmed
  <2>4. /\ Withdrawn(state) \in StateRecords /\ ~Withdrawn(state).bootPending
        /\ Withdrawn(state).current = state.current
    BY <2>2, Zenon DEF StateRecords, Withdrawn
  <2>5. /\ new \in StateRecords /\ ~new.bootPending
        /\ new.current = IF ok THEN state.pending ELSE state.current
    BY <2>3, <2>4, Zenon
  <2> HIDE DEF new
  <2>6. daemon' \in Held /\ daemon'.read = state /\ daemon'.new = new
    BY <2>1, <2>2, <2>5, Zenon DEF Held
  <2>7. daemon' # Idle
    BY <2>6, HeldIsBusy, Zenon
  <2>8. UpdateTypes' /\ RanWasAllowed'
    BY <2>1, <2>6, Zenon DEF UpdateTypes, RanWasAllowed
  <2>9. HeldRecords'
    BY <2>1, <2>5, <2>6, Zenon DEF HeldRecords, Ahead
  <2>10. PendingIsInstalled'
    BY <2>7, Zenon DEF PendingIsInstalled
  <2> QED BY <2>8, <2>9, <2>10, Zenon
<1>9. CASE DaemonSave
  <2>1. /\ daemon # Idle /\ state' = daemon.new /\ stale' = (stale \/ state # daemon.read) /\ daemon' = Idle
        /\ UNCHANGED <<releases, feed, installed, agent, ran, healthy, losses>>
    BY <1>9, Zenon DEF DaemonSave, Write
  <2>2. daemon \in Held /\ daemon.new \in StateRecords
    BY <2>1, Zenon DEF UpdateTypes, Held
  <2>3. UpdateTypes' /\ RanWasAllowed'
    BY <2>1, <2>2, Zenon DEF UpdateTypes, RanWasAllowed
  <2>4. HeldRecords'
    BY <2>1, Zenon DEF HeldRecords, Ahead
  <2>5. PendingIsInstalled'
    BY <2>1, Zenon DEF PendingIsInstalled, HeldRecords
  <2> QED BY <2>3, <2>4, <2>5, Zenon
<1>10. ASSUME NEW lost \in BOOLEAN, PowerLoss(lost)
       PROVE  UpdateInv'
  <2>1. /\ losses' = losses + 1 /\ agent' = Idle /\ daemon' = Idle
        /\ state' = IF lost THEN Fresh ELSE state
        /\ UNCHANGED <<releases, feed, installed, ran, healthy, stale>>
    BY <1>10, Zenon DEF PowerLoss
  <2>2. Fresh \in StateRecords /\ ~Fresh.bootPending
    BY Zenon DEF Fresh, StateRecords
  <2>3. UpdateTypes' /\ RanWasAllowed'
    BY <2>1, <2>2, SMTT(20), ZenonT(20) DEF UpdateTypes, RanWasAllowed
  <2>4. HeldRecords'
    BY <2>1, <2>2, Zenon DEF HeldRecords, Ahead
  <2>5. PendingIsInstalled'
    BY <2>1 DEF PendingIsInstalled, UpdateTypes
  <2> QED BY <2>3, <2>4, <2>5, Zenon
<1>11. CASE UNCHANGED ovars
  BY <1>1, <1>11, Zenon DEF ovars, UpdateTypes
<1> QED BY <1>2, <1>3, <1>4, <1>5, <1>6, <1>7, <1>8, <1>9, <1>10, <1>11, Zenon DEF ONext

(* The version on record changes only as VersionRises says.                *)
LEMMA VersionStep ==
  ASSUME UpdateInv, [ONext]_ovars, state'.current # state.current
  PROVE  \/ state'.current > state.current /\ state'.current \in healthy
         \/ losses' > losses \/ stale'
<1>1. state' # state
  BY Zenon
<1>2. CASE AgentSave
  BY <1>2, Zenon DEF AgentSave, Write, UpdateInv, HeldRecords
<1>3. CASE DaemonSave
  BY <1>3, Zenon DEF DaemonSave, Write, UpdateInv, HeldRecords
<1>4. ASSUME NEW lost \in BOOLEAN, PowerLoss(lost)
      PROVE  losses' > losses
  BY <1>4 DEF PowerLoss, UpdateInv, UpdateTypes
<1> QED BY <1>1, <1>2, <1>3, <1>4, Zenon DEF ONext, ovars, publish, promote, Offer, PlaceFeed, run_once, HealthCheck

(* The invariant holds in every state of the update.                       *)
LEMMA UpdateInvariant == OSpec => []UpdateInv
<1>1. OInit => UpdateInv
  <2> SUFFICES ASSUME OInit PROVE UpdateInv
    BY Zenon
  <2>1. state \in StateRecords /\ ~state.bootPending
    BY Zenon DEF OInit, Fresh, StateRecords
  <2> QED BY <2>1, Zenon DEF OInit, UpdateInv, UpdateTypes, RanWasAllowed, HeldRecords, PendingIsInstalled, Ahead
<1>2. UpdateInv /\ [ONext]_ovars => UpdateInv'
  BY UpdateStep, Zenon
<1> QED BY <1>1, <1>2, PTL DEF OSpec

(* What runs was allowed, for any catalogue, versions and rollout.         *)
THEOREM OnlyAllowedRuns == OSpec => []InstalledWasAllowed
<1>1. UpdateInv => InstalledWasAllowed
  BY Zenon DEF UpdateInv, RanWasAllowed, PendingIsInstalled, InstalledWasAllowed
<1> QED BY <1>1, UpdateInvariant, PTL

(* The recorded version rises, and only to a version found healthy.        *)
THEOREM VersionsRise == OSpec => VersionRises
<1>1. UpdateInv /\ [ONext]_ovars =>
        [state'.current # state.current =>
           \/ state'.current > state.current /\ state'.current \in healthy
           \/ losses' > losses \/ stale']_ovars
  BY VersionStep, Zenon
<1> QED BY <1>1, UpdateInvariant, PTL DEF OSpec, VersionRises

-----------------------------------------------------------------------------
(***************************************************************************)
(* Weighing what was paid, for any number of coins and any tolerance that  *)
(* FactoryAssumption admits.  Coins land on the tray and never leave it,   *)
(* so the second average weighs no more than what was paid.                *)
(***************************************************************************)
Asked == IF job = "eol" THEN TestCoins ELSE counted.n
Short == scale /\ job \in {"eol", "audit"} /\ paid < Asked

CoinsInv ==
  /\ tray \in Nat /\ falling \in Nat /\ paid = tray + falling
  /\ counted.n \in 0..TestCoins + 1 /\ pre \in Nat /\ post \in Nat

WeighInv ==
  /\ CoinsInv
  /\ job = "none" => at = "done" /\ stamp = "none"
  /\ at # "done" => stamp = "none"
  /\ at = "judge" => post <= paid * CoinRaw
  /\ at \in {"present", "telemetry", "report"} /\ Short => "UNDERPAY" \in failed
  /\ at = "done" /\ Short => stamp # "PASS"

(* A coin too few weighs less than any tolerance makes up for.             *)
LEMMA ShortWeighsLess ==
  ASSUME NEW n \in 0..TestCoins + 1, NEW p \in Nat, p < n, NEW w \in Nat, w <= p * CoinRaw, NEW v \in Nat
  PROVE  (w - v) - n * CoinRaw < -TolRaw /\ (w - v) - n * CoinRaw < -(n * TolRaw)
<1>1. TestCoins \in Nat /\ CoinRaw \in Nat /\ TolRaw \in Nat /\ (TestCoins + 1) * TolRaw < CoinRaw /\ n \in Nat
  BY FactoryAssumption
<1>2. \A a, b, c \in Nat : a <= b => a * c <= b * c /\ a * c \in Nat /\ b * c \in Nat
  OBVIOUS
<1>3. p + 1 <= n /\ n <= TestCoins + 1 /\ 1 <= TestCoins + 1
  BY <1>1
<1>4. (p + 1) * CoinRaw <= n * CoinRaw /\ n * CoinRaw \in Nat /\ n * TolRaw \in Nat
  BY <1>1, <1>2, <1>3
<1>5. n * TolRaw <= (TestCoins + 1) * TolRaw
  BY <1>1, <1>2, <1>3
<1>6. 1 * TolRaw <= (TestCoins + 1) * TolRaw
  BY <1>1, <1>2, <1>3
<1>7. (p + 1) * CoinRaw = p * CoinRaw + CoinRaw /\ p * CoinRaw \in Nat /\ 1 * TolRaw = TolRaw
  BY <1>1
<1> QED BY <1>1, <1>4, <1>5, <1>6, <1>7

(* A step that weighs nothing keeps the coins, the averages and the job.   *)
Weighed == <<job, tray, falling, paid, counted, scale, pre, post>>

(* Each step of a job keeps the invariant.                                 *)
LEMMA WeighStep ==
  ASSUME WeighInv, [WNext]_wvars
  PROVE  WeighInv'
<1>1. ASSUME NEW j \in {"eol", "audit", "selftest"}, Start(j) PROVE WeighInv'
  BY <1>1 DEF Start, WeighInv, CoinsInv
<1>2. ASSUME NEW ok \in BOOLEAN, Home(ok) PROVE WeighInv'
  BY <1>2 DEF Home, WeighInv, CoinsInv
<1>3. ASSUME NEW ok \in BOOLEAN, Present(ok) PROVE WeighInv'
  BY <1>3 DEF Present, Fail, WeighInv, CoinsInv, Short, Asked
<1>4. ASSUME NEW ok \in BOOLEAN, Telemetry(ok) PROVE WeighInv'
  BY <1>4 DEF Telemetry, Fail, WeighInv, CoinsInv, Short, Asked
<1>5. ASSUME NEW k \in 0..TestCoins + 1, NEW landed \in 0..TestCoins + 1, NEW n \in 0..TestCoins + 1,
             NEW ok \in BOOLEAN, Dispense(k, landed, n, ok)
      PROVE  WeighInv'
  BY <1>5, FactoryAssumption DEF Dispense, WeighInv, CoinsInv
<1>6. CASE SkipCoinTest
  BY <1>6 DEF SkipCoinTest, WeighInv, CoinsInv
<1>7. CASE Land
  BY <1>7 DEF Land, WeighInv, CoinsInv, Short, Asked
<1>w. tray * CoinRaw \in Nat /\ tray * CoinRaw <= paid * CoinRaw
  <2>1. \A a, b, c \in Nat : a <= b => a * c <= b * c /\ a * c \in Nat
    OBVIOUS
  <2>2. tray \in Nat /\ paid \in Nat /\ tray <= paid
    BY DEF WeighInv, CoinsInv
  <2> QED BY <2>1, <2>2, FactoryAssumption
<1>n. ASSUME NoReading, at \in {"pre", "post"}, UNCHANGED Weighed PROVE WeighInv'
  BY <1>n DEF NoReading, Fail, Weighed, WeighInv, CoinsInv, Short, Asked
<1>8. ASSUME NEW ready \in BOOLEAN, Weigh(ready) PROVE WeighInv'
  <2>1. CASE ~scale
    BY <1>8, <2>1 DEF Weigh, AfterScale, WeighInv, CoinsInv, Short, Asked
  <2>2. CASE scale /\ ready
    <3>1. /\ at' \in {"report", "post"} /\ (at' = "report" => job' = "selftest")
          /\ pre' = tray * CoinRaw /\ at = "pre"
          /\ UNCHANGED <<failed, stamp, job, tray, falling, paid, counted, scale, post>>
      BY <1>8, <2>2 DEF Weigh
    <3> QED BY <1>w, <3>1 DEF WeighInv, CoinsInv, Short, Asked
  <2>3. CASE scale /\ ~ready
    BY <1>8, <1>n, <2>3 DEF Weigh, Weighed
  <2> QED BY <2>1, <2>2, <2>3
<1>9. ASSUME NEW ready \in BOOLEAN, WeighAgain(ready) PROVE WeighInv'
  <2>1. CASE ready
    <3>1. /\ at' = "judge" /\ post' = tray * CoinRaw /\ at = "post"
          /\ UNCHANGED <<failed, stamp, job, tray, falling, paid, counted, scale, pre>>
      BY <1>9, <2>1 DEF WeighAgain
    <3>2. post' \in Nat /\ post' <= paid' * CoinRaw
      BY <1>w, <3>1
    <3> QED BY <3>1, <3>2 DEF WeighInv, CoinsInv
  <2>2. CASE ~ready
    BY <1>9, <1>n, <2>2 DEF WeighAgain, Weighed
  <2> QED BY <2>1, <2>2
<1>10. ASSUME NEW stuck \in BOOLEAN, Judge(stuck) PROVE WeighInv'
  <2>1. /\ at = "judge" /\ at' \in {"present", "report"} /\ UNCHANGED <<Weighed, stamp>>
    BY <1>10 DEF Judge, AfterScale, Weighed
  <2>2. ASSUME Short PROVE "UNDERPAY" \in failed'
    <3> DEFINE delta == (post - pre) - Asked * CoinRaw
    <3>1. Asked \in 0..TestCoins + 1 /\ paid \in Nat /\ paid < Asked /\ post \in Nat /\ pre \in Nat
          /\ post <= paid * CoinRaw
      BY <2>1, <2>2, FactoryAssumption DEF Short, Asked, WeighInv, CoinsInv
    <3>2. delta < -TolRaw /\ delta < -(Asked * TolRaw)
      BY <3>1, ShortWeighsLess, Zenon
    <3>3. delta < -(IF job = "eol" THEN TolRaw ELSE Asked * TolRaw)
      BY <3>2
    <3>4. (IF delta < -(IF job = "eol" THEN TolRaw ELSE Asked * TolRaw) THEN {"UNDERPAY"} ELSE {}) \subseteq failed'
      BY <1>10, Zenon DEF Judge, Asked
    <3> QED BY <3>3, <3>4, Zenon
  <2>3. Short' => Short
    BY <2>1 DEF Weighed, Short, Asked
  <2> QED BY <2>1, <2>2, <2>3 DEF Weighed, WeighInv, CoinsInv
<1>11. CASE ReportJob
  BY <1>11 DEF ReportJob, WeighInv, CoinsInv, Short, Asked
<1>12. CASE Clear
  BY <1>12, FactoryAssumption DEF Clear, WeighInv, CoinsInv, Short, Asked
<1>13. CASE UNCHANGED wvars
  BY <1>13 DEF wvars, WeighInv, CoinsInv, Short, Asked
<1> QED BY <1>1, <1>2, <1>3, <1>4, <1>5, <1>6, <1>7, <1>8, <1>9, <1>10, <1>11, <1>12, <1>13, Zenon DEF WNext

(* However late the coins land, the scale catches a payment that is short. *)
THEOREM ShortPayNeverPasses == WSpec => []ShortPayIsCaught
<1>1. WInit => WeighInv
  BY FactoryAssumption DEF WInit, WeighInv, CoinsInv, Short
<1>2. WeighInv => ShortPayIsCaught
  BY Zenon DEF WeighInv, ShortPayIsCaught, Short, Asked
<1> QED BY <1>1, <1>2, WeighStep, PTL DEF WSpec

-----------------------------------------------------------------------------
(***************************************************************************)
(* The start, for any command lines and files: what is in force when the   *)
(* verdict comes is what load made of the file.                            *)
(***************************************************************************)
FileEntries == [section : STRING, key : STRING, value : Values]
Loaded == IF file \in Unreadable THEN config = {} /\ errors = {"file"}
          ELSE config = apply_object(file) /\ errors = complaints(file)
Verdict == IF errors # {} THEN "refused" ELSE Chosen

StartInv ==
  /\ file \subseteq FileEntries
  /\ stage \in {"start", "cli", "loaded", "done"}
  /\ stage # "done" => chosen = "none"
  /\ stage = "loaded" => Loaded
  /\ stage = "done" => chosen = "terminated" \/ (Loaded /\ chosen = Verdict)

(* What a setter keeps of a value is the value, or the truth value or the  *)
(* narrow integer that it stands for.                                      *)
LEMMA WhatIsKept ==
  ASSUME NEW kind, NEW v \in Values
  PROVE  \/ keeps(kind, v) = v
         \/ v \in Integers32 /\ keeps(kind, v) = (IF v = "one" THEN "true" ELSE "false")
         \/ v = "wide" /\ keeps(kind, v) = "zero"
<1>1. CASE kind = "INT" /\ v = "wide"
  BY <1>1, Zenon DEF keeps
<1>2. CASE kind = "BOOL" /\ v \in {"zero", "wide"}
  BY <1>2, Zenon DEF keeps, Integers32
<1>3. CASE kind = "BOOL" /\ v = "one"
  BY <1>3, Zenon DEF keeps, Integers32
<1>4. CASE /\ ~(kind = "INT" /\ v = "wide") /\ ~(kind = "BOOL" /\ v \in {"zero", "wide"})
           /\ ~(kind = "BOOL" /\ v = "one")
  BY <1>4, Zenon DEF keeps
<1> QED BY <1>1, <1>2, <1>3, <1>4, Zenon

(* A file that is loaded without a complaint is in force, entry by entry.  *)
LEMMA FileInForce ==
  ASSUME file \subseteq FileEntries, Loaded, errors = {}
  PROVE  /\ file \notin Unreadable
         /\ \A e \in file : \E c \in config :
              /\ c.section = e.section /\ c.key = e.key
              /\ \/ c.value = e.value
                 \/ e.value \in Integers32 /\ c.value = (IF e.value = "one" THEN "true" ELSE "false")
                 \/ e.value = "wide" /\ c.value = "zero"
         /\ \A c \in config : \E e \in file : c.section = e.section /\ c.key = e.key
<1>1. file \notin Unreadable
  BY Zenon DEF Loaded
<1>2. config = apply_object(file) /\ complaints(file) = {}
  BY <1>1, Zenon DEF Loaded
<1> DEFINE Kept(e) == [e EXCEPT !.value = keeps(Schema(e.section)[e.key], @)]
<1>3. ASSUME NEW e \in file
      PROVE  /\ Kept(e).section = e.section /\ Kept(e).key = e.key
             /\ Kept(e).value = keeps(Schema(e.section)[e.key], e.value)
  BY <1>3, Zenon DEF FileEntries
<1>4. config = {Kept(e) : e \in {x \in file : Known(x) /\ accepts(Schema(x.section)[x.key], x.value)}}
  BY <1>2, Zenon DEF apply_object
<1>5. ASSUME NEW e \in file PROVE Kept(e) \in config
  <2>1. Known(e) /\ accepts(Schema(e.section)[e.key], e.value)
    BY <1>2, <1>5, Zenon DEF complaints
  <2> HIDE DEF Kept
  <2> QED BY <1>4, <1>5, <2>1, Zenon
<1>6. ASSUME NEW e \in file PROVE e.value \in Values
  BY <1>6, Zenon DEF FileEntries
<1> HIDE DEF Kept
<1>7. ASSUME NEW e \in file
      PROVE  \E c \in config :
              /\ c.section = e.section /\ c.key = e.key
              /\ \/ c.value = e.value
                 \/ e.value \in Integers32 /\ c.value = (IF e.value = "one" THEN "true" ELSE "false")
                 \/ e.value = "wide" /\ c.value = "zero"
  <2>1. PICK kind : kind = Schema(e.section)[e.key]
    BY Zenon
  <2>2. PICK c \in config : c = Kept(e)
    BY <1>5, <1>7, Zenon
  <2>3. c.section = e.section /\ c.key = e.key /\ c.value = keeps(kind, e.value)
    BY <1>3, <1>7, <2>1, <2>2, Zenon
  <2>4. \/ c.value = e.value
        \/ e.value \in Integers32 /\ c.value = (IF e.value = "one" THEN "true" ELSE "false")
        \/ e.value = "wide" /\ c.value = "zero"
    BY <1>6, <1>7, <2>3, WhatIsKept, Zenon
  <2> QED BY <2>3, <2>4, Zenon
<1>8. ASSUME NEW c \in config PROVE \E e \in file : c.section = e.section /\ c.key = e.key
  BY <1>3, <1>4, <1>8, Zenon
<1> QED BY <1>1, <1>7, <1>8, Zenon

(* A purchase or a dispense was asked for, and no server beside it; a      *)
(* drawer that was asked for nothing serves the point of sale.             *)
LEMMA ChoiceIsAsked ==
  /\ Chosen \in {"purchase", "dispense"} =>
       /\ {"api", "tui", "pos-http"} \cap args.given = {} /\ args.sub # "api"
       /\ {"purchase", "deposit"} \subseteq args.given \/ Requested("dispense")
  /\ Chosen = "idle" => args.given # {} \/ args.sub # "" \/ config # {}
<1>1. ASSUME Chosen \in {"purchase", "dispense"}
      PROVE  /\ ~Requested("api") /\ ~Requested("pos-http")
             /\ (Requested("purchase") /\ Requested("deposit")) \/ Requested("dispense")
  BY <1>1, Zenon DEF Chosen, pos_http
<1>2. ASSUME Chosen = "idle" PROVE ~pos_http
  BY <1>2, Zenon DEF Chosen
<1>3. ASSUME args.given = {}, args.sub = "", config = {} PROVE pos_http
  BY <1>3, Zenon DEF pos_http, any_action, Requested, PosEnabled
<1> QED BY <1>1, <1>2, <1>3, Zenon DEF Requested

(* Each step of the start keeps the invariant.                             *)
LEMMA StartStep ==
  ASSUME StartInv, [UNext]_uvars
  PROVE  StartInv'
<1>1. CASE parse
  BY <1>1, Zenon DEF parse, StartInv
<1>2. CASE load
  BY <1>2, Zenon DEF load, StartInv, Loaded
<1>3. CASE main
  BY <1>3, Zenon DEF main, StartInv, Loaded, Verdict, Chosen, pos_http, any_action, PosEnabled, Requested
<1>4. CASE UNCHANGED uvars
  BY <1>4, Zenon DEF uvars, StartInv, Loaded, Verdict, Chosen, pos_http, any_action, PosEnabled, Requested
<1> QED BY <1>1, <1>2, <1>3, <1>4, Zenon DEF UNext

(* Whatever the command line and the file, a start is deliberate.          *)
THEOREM StartsDeliberately == USpec => []StartIsDeliberate
<1>1. UInit => StartInv
  BY StartAssumption, Zenon DEF UInit, StartInv, FileEntries
<1>2. ASSUME StartInv PROVE StartIsDeliberate
  <2>1. CASE stage # "done" \/ chosen = "terminated"
    BY <1>2, <2>1, Zenon DEF StartInv, StartIsDeliberate
  <2>2. CASE stage = "done" /\ chosen # "terminated"
    <3>1. Loaded /\ chosen = Verdict /\ file \subseteq FileEntries
      BY <1>2, <2>2, Zenon DEF StartInv
    <3>2. CASE errors # {}
      BY <3>1, <3>2, Zenon DEF Verdict, StartIsDeliberate
    <3>3. CASE errors = {}
      <4>1. chosen = Chosen
        BY <3>1, <3>3, Zenon DEF Verdict
      <4> QED BY <3>1, <3>3, <4>1, FileInForce, ChoiceIsAsked, Zenon DEF StartIsDeliberate
    <3> QED BY <3>2, <3>3, Zenon
  <2> QED BY <2>1, <2>2, Zenon
<1> QED BY <1>1, <1>2, StartStep, PTL DEF USpec

-----------------------------------------------------------------------------
(***************************************************************************)
(* Change in several denominations, for any denominations, stock, bills    *)
(* and threshold.  The plan is a fold over the denominations: a subset of  *)
(* them that has been planned uses what it may or leaves less than its     *)
(* coin, and the cents planned and left make up the change.  Execution     *)
(* then pays the items one by one, and the sums are compared term by term. *)
(***************************************************************************)
(* Leaves are left to Zenon unless they name another prover.               *)
USE Zenon

Coins == [Denoms -> Nat]

(* The cents of a number of coins are a natural number.                    *)
LEMMA ValueTyped ==
  ASSUME NEW c \in Coins
  PROVE  /\ [d \in Denoms |-> d * c[d]] \in [Denoms -> Nat]
         /\ Value(c) \in Nat
<1>1. ASSUME NEW d \in Denoms PROVE d * c[d] \in Nat
  <2>1. d \in Nat /\ c[d] \in Nat
    BY PayoutAssumption DEF Coins
  <2> QED BY <2>1, SMT
<1>2. [d \in Denoms |-> d * c[d]] \in [Denoms -> Nat]
  BY <1>1
<1>3. IsFiniteSet(Denoms) /\ Nat \in {Nat, Int}
  BY PayoutAssumption
<1> QED BY <1>2, <1>3, SumTyped DEF Value

(* An item adds its coins at their value.                                  *)
LEMMA ValueOfOneMore ==
  ASSUME NEW c \in Coins, NEW d \in Denoms, c[d] = 0, NEW n \in Nat
  PROVE  [c EXCEPT ![d] = n] \in Coins /\ Value([c EXCEPT ![d] = n]) = Value(c) + d * n
<1>1. PICK e : e = [c EXCEPT ![d] = n]
  OBVIOUS
<1>2. e \in Coins /\ \A x \in Denoms : e[x] = IF x = d THEN n ELSE c[x]
  BY <1>1 DEF Coins
<1>3. PICK f : f = [x \in Denoms |-> x * c[x]]
  OBVIOUS
<1>4. PICK g : g = [x \in Denoms |-> IF x = d THEN d * n ELSE 0]
  OBVIOUS
<1>5. PICK h : h = [x \in Denoms |-> x * e[x]]
  OBVIOUS
<1>6. d \in Nat /\ d * n \in Nat
  <2>1. d \in Nat
    BY PayoutAssumption
  <2> QED BY <2>1, SMT
<1>7. f \in [Denoms -> Int] /\ g \in [Denoms -> Int] /\ h \in [Denoms -> Int]
  <2>1. f \in [Denoms -> Nat] /\ h \in [Denoms -> Nat]
    BY <1>2, <1>3, <1>5, ValueTyped
  <2> QED BY <1>4, <1>6, <2>1, SMT
<1>8. \A x \in Denoms : h[x] = f[x] + g[x]
  <2> SUFFICES ASSUME NEW x \in Denoms PROVE h[x] = f[x] + g[x]
    OBVIOUS
  <2>1. h[x] = x * e[x] /\ f[x] = x * c[x] /\ g[x] = (IF x = d THEN d * n ELSE 0)
    BY <1>3, <1>4, <1>5
  <2>2. x \in Nat /\ c[x] \in Nat
    BY PayoutAssumption DEF Coins
  <2>3. CASE x = d
    <3>1. x * c[x] = 0 /\ 0 + d * n = d * n
      BY <1>6, <2>2, <2>3, SMT
    <3> QED BY <1>2, <2>1, <2>3, <3>1
  <2>4. CASE x # d
    <3>1. x * c[x] + 0 = x * c[x]
      BY <2>2, SMT
    <3> QED BY <1>2, <2>1, <2>4, <3>1
  <2> QED BY <2>3, <2>4
<1>9. IsFiniteSet(Denoms)
  BY PayoutAssumption
<1>10. SumFunction(h) = SumFunction(f) + SumFunction(g)
  BY <1>7, <1>8, <1>9, SumAdds, SMT
<1>11. SumFunction(g) = d * n
  <2>1. PICK v : v = d * n
    OBVIOUS
  <2>2. v \in Int /\ g = [x \in Denoms |-> IF x = d THEN v ELSE 0]
    BY <1>4, <1>6, <2>1, SMT
  <2>3. SumFunction([x \in Denoms |-> IF x = d THEN v ELSE 0]) = v
    <3> HIDE <2>1
    <3> QED BY <1>9, <2>2, SumOfOne
  <2> QED BY <2>1, <2>2, <2>3
<1>12. Value(e) = SumFunction(h) /\ Value(c) = SumFunction(f)
  BY <1>3, <1>5 DEF Value
<1> QED BY <1>1, <1>2, <1>10, <1>11, <1>12

(* What a subset of the denominations has planned of c cents.              *)
Planned(s, c) ==
  {m \in [use : Coins, left : Nat, from : {counts}] :
     /\ Value(m.use) + m.left = c
     /\ \A d \in Denoms : d \notin s => m.use[d] = 0
     /\ \A d \in s : m.use[d] <= usable(d) /\ (m.left < d \/ m.use[d] = usable(d))}

(* Coins that may be used are naturals.                                    *)
LEMMA UsableTyped ==
  ASSUME counts \in [DOMAIN counts -> Nat]
  PROVE  \A d \in Denoms : usable(d) \in Nat
<1> SUFFICES ASSUME NEW d \in Denoms PROVE usable(d) \in Nat
  OBVIOUS
<1>1. Threshold \in Nat
  BY PayoutAssumption
<1> QED BY <1>1, SMT DEF usable, low

(* One more denomination is planned.                                       *)
LEMMA ItemPlanned ==
  ASSUME counts \in [DOMAIN counts -> Nat], NEW s \in SUBSET Denoms, NEW d \in s, NEW c \in Nat,
         NEW m \in Planned(s \ {d}, c)
  PROVE  PlanItem(d, m) \in Planned(s, c)
<1>1. m \in [use : Coins, left : Nat, from : {counts}] /\ m.use \in Coins /\ m.left \in Nat
      /\ m.use[d] = 0 /\ d \in Denoms /\ Value(m.use) + m.left = c
  BY DEF Planned
<1>2. d \in Nat /\ d > 0 /\ usable(d) \in Nat
  BY <1>1, PayoutAssumption, UsableTyped
<1>3. PICK n : n = IF m.left \div d < usable(d) THEN m.left \div d ELSE usable(d)
  OBVIOUS
<1>4. PICK l : l = m.left - n * d
  OBVIOUS
<1>5. /\ n \in Nat /\ n <= usable(d) /\ l \in Nat /\ l <= m.left /\ m.left = d * n + l
      /\ l < d \/ n = usable(d)
  <2>1. PICK a \in Nat : a = m.left
    BY <1>1
  <2>2. PICK q : q = a \div d
    OBVIOUS
  <2>3. q \in Nat /\ a = d * q + (a % d) /\ a % d \in 0..d - 1
    <3>1. \A x, y \in Nat : y > 0 => /\ x \div y \in Nat /\ x = y * (x \div y) + (x % y)
                                    /\ x % y \in 0..y - 1
      BY SMT
    <3> QED BY <1>2, <2>2, <3>1
  <2>4. n = IF q < usable(d) THEN q ELSE usable(d)
    BY <1>3, <2>1, <2>2
  <2>5. n \in Nat /\ n <= q /\ n <= usable(d) /\ (n = q \/ n = usable(d))
    BY <1>2, <2>3, <2>4, SMT
  <2>6. d * n <= d * q /\ d * n \in Nat /\ d * q \in Nat /\ n * d = d * n
    BY <1>2, <2>3, <2>5, SMT
  <2>7. n = q => d * n = d * q
    OBVIOUS
  <2>8. l = a - d * n
    BY <1>4, <2>1, <2>6
  <2>9. l \in Nat /\ l <= a /\ a = d * n + l /\ (d * n = d * q => l < d)
    BY <1>2, <2>3, <2>6, <2>8, SMT
  <2> QED BY <2>1, <2>5, <2>7, <2>9
<1>6. PICK u : u = [m.use EXCEPT ![d] = n]
  OBVIOUS
<1>7. /\ u \in Coins /\ Value(u) = Value(m.use) + d * n
      /\ \A x \in Denoms : u[x] = IF x = d THEN n ELSE m.use[x]
  <2>1. u \in Coins /\ Value(u) = Value(m.use) + d * n
    BY <1>1, <1>5, <1>6, ValueOfOneMore
  <2>2. \A x \in Denoms : u[x] = IF x = d THEN n ELSE m.use[x]
    BY <1>1, <1>6 DEF Coins
  <2> QED BY <2>1, <2>2
<1>8. PICK r : r = PlanItem(d, m)
  OBVIOUS
<1>9. r = [use |-> u, left |-> l, from |-> m.from]
  BY <1>3, <1>4, <1>6, <1>8 DEF PlanItem
<1>10. r.use = u /\ r.left = l /\ r \in [use : Coins, left : Nat, from : {counts}]
  BY <1>1, <1>5, <1>7, <1>9
<1>11. Value(u) + l = c
  <2>1. Value(m.use) \in Nat /\ d * n \in Nat
    <3>1. Value(m.use) \in Nat
      BY <1>1, ValueTyped
    <3> QED BY <1>2, <1>5, <3>1, SMT
  <2> QED BY <1>1, <1>5, <1>7, <2>1, SMT
<1>12. \A x \in Denoms : x \notin s => u[x] = 0
  BY <1>7 DEF Planned
<1>13. ASSUME NEW x \in s PROVE u[x] <= usable(x) /\ (l < x \/ u[x] = usable(x))
  <2>1. CASE x = d
    BY <1>1, <1>5, <1>7, <2>1
  <2>2. CASE x # d
    <3>1. u[x] = m.use[x] /\ x \in Denoms /\ x \in Nat
      BY <1>7, <2>2, PayoutAssumption
    <3>2. m.use[x] <= usable(x) /\ (m.left < x \/ m.use[x] = usable(x))
      BY <2>2 DEF Planned
    <3>3. m.left < x => l < x
      BY <1>1, <1>5, <3>1, SMT
    <3> QED BY <3>1, <3>2, <3>3
  <2> QED BY <2>1, <2>2
<1> QED BY <1>8, <1>10, <1>11, <1>12, <1>13 DEF Planned

(* A nonempty set of denominations has a smallest and a largest one.       *)
LEMMA DenomBounds ==
  ASSUME NEW s \in SUBSET Denoms, s # {}
  PROVE  Smallest(s) \in s /\ Largest(s) \in s
<1>1. IsFiniteSet(s) /\ \A d \in s : d \in Int
  <2>1. IsFiniteSet(Denoms) /\ \A d \in Denoms : d \in Nat
    BY PayoutAssumption
  <2>2. \A d \in s : d \in Int
    BY <2>1, SMT
  <2> QED BY <2>1, <2>2, FS_Subset
<1>2. (\E x \in s : \A y \in s : y <= x) /\ (\E x \in s : \A y \in s : x <= y)
  BY <1>1, Extremes
<1> QED BY <1>2 DEF Smallest, Largest

(* No coins are worth nothing.                                             *)
LEMMA NothingPaid ==
  Nothing \in Coins /\ (\A d \in Denoms : Nothing[d] = 0) /\ Value(Nothing) = 0
<1>1. Nothing \in Coins /\ \A d \in Denoms : Nothing[d] = 0
  BY SMT DEF Nothing, Coins
<1>2. PICK z : z = [d \in Denoms |-> 0]
  OBVIOUS
<1>3. z \in [Denoms -> Int] /\ \A d \in Denoms : z[d] = z[d] + z[d]
  <2>1. 0 \in Int /\ 0 + 0 = 0
    BY SMT
  <2> QED BY <1>2, <2>1
<1>4. IsFiniteSet(Denoms) /\ Int \in {Nat, Int}
  BY PayoutAssumption
<1>5. SumFunction(z) \in Int
  BY <1>3, <1>4, SumTyped
<1>6. SumFunction(z) = SumFunction(z) + SumFunction(z)
  BY <1>3, <1>4, SumAdds, SMT
<1>7. \A x \in Int : x = x + x => x = 0
  BY SMT
<1>8. SumFunction(z) = 0
  BY <1>5, <1>6, <1>7
<1>9. \A d \in Denoms : d * Nothing[d] = 0
  <2>1. \A d \in Nat : d * 0 = 0
    BY SMT
  <2> QED BY <1>1, <2>1, PayoutAssumption
<1>10. [d \in Denoms |-> d * Nothing[d]] = z
  BY <1>2, <1>9
<1> QED BY <1>1, <1>8, <1>10 DEF Value

(* make_plan_cents plans all denominations.                                *)
LEMMA PlanMade ==
  ASSUME counts \in [DOMAIN counts -> Nat], NEW c \in Nat
  PROVE  make_plan_cents(c) \in Planned(Denoms, c)
<1> DEFINE D == Denoms
           V == [use : Coins, left : Nat, from : {counts}]
           base == [use |-> Nothing, left |-> c, from |-> counts]
           ch == [s \in SUBSET D |-> Smallest(s)]
           h == [p \in (SUBSET D) \X V |->
                   IF PlanItem(ch[p[1]], p[2]) \in V THEN PlanItem(ch[p[1]], p[2]) ELSE base]
           Body(g) == [s \in SUBSET D |-> IF s = {} THEN base
                                          ELSE PlanItem(Smallest(s), g[s \ {Smallest(s)}])]
           fold == CHOOSE g : g = Body(g)
           W == [s \in SUBSET D |-> Planned(s, c)]
<1>1. make_plan_cents(c) = fold[D]
  BY DEF make_plan_cents, MapThenFoldSet
<1>2. IsFiniteSet(D)
  BY PayoutAssumption
<1>3. Nothing \in Coins /\ \A d \in Denoms : Nothing[d] = 0
  BY NothingPaid
<1>4. base \in V
  BY <1>3
<1>5. base \in Planned({}, c)
  <2>1. Value(Nothing) = 0
    BY NothingPaid
  <2>2. 0 + c = c
    BY SMT
  <2> QED BY <1>3, <1>4, <2>1, <2>2 DEF Planned
<1>d. D = Denoms
  OBVIOUS
<1>v. \A s, m : m \in Planned(s, c) => m \in V
  BY DEF Planned
<1> HIDE DEF D, base, V
<1>6. \A s \in SUBSET D : s # {} => ch[s] \in s /\ ch[s] = Smallest(s)
  BY <1>d, DenomBounds
<1>7. \A s \in SUBSET D, v \in V :
        h[<<s, v>>] \in V /\ (PlanItem(ch[s], v) \in V => h[<<s, v>>] = PlanItem(ch[s], v))
  <2> SUFFICES ASSUME NEW s \in SUBSET D, NEW v \in V
               PROVE  /\ h[<<s, v>>] \in V
                      /\ (PlanItem(ch[s], v) \in V => h[<<s, v>>] = PlanItem(ch[s], v))
    OBVIOUS
  <2> HIDE DEF ch
  <2>1. PICK p : p = <<s, v>>
    OBVIOUS
  <2>2. p \in (SUBSET D) \X V /\ p[1] = s /\ p[2] = v
    BY <2>1
  <2>3. h[p] = IF PlanItem(ch[s], v) \in V THEN PlanItem(ch[s], v) ELSE base
    BY <2>2
  <2> QED BY <1>4, <2>1, <2>3
<1> HIDE DEF ch, h
<1>8. Chooses(ch, D)
  BY <1>6 DEF Chooses
<1>9. PICK g \in [SUBSET D -> V] : FoldOn(g, D, base, ch, h)
  <2>1. \A s \in SUBSET D, v \in V : s # {} => h[<<s, v>>] \in V
    BY <1>7
  <2> HIDE DEF Body, fold, W
  <2> QED BY <1>2, <1>4, <1>8, <2>1, FoldExists
<1>10. \A s \in SUBSET D : g[s] = IF s = {} THEN base ELSE h[<<s, g[s \ {ch[s]}]>>]
  BY <1>9 DEF FoldOn
<1>11. FoldWithin(g, W, ch, D)
  <2>1. g[{}] \in W[{}]
    BY <1>5, <1>10
  <2>2. ASSUME NEW s \in SUBSET D, s # {}, g[s \ {ch[s]}] \in W[s \ {ch[s]}] PROVE g[s] \in W[s]
    <3>1. PICK r : r = s \ {ch[s]}
      OBVIOUS
    <3>2. r \in SUBSET D /\ ch[s] \in s
      BY <1>6, <2>2, <3>1
    <3>3. g[r] \in Planned(s \ {ch[s]}, c)
      BY <2>2, <3>1, <3>2
    <3>4. PlanItem(ch[s], g[r]) \in Planned(s, c)
      BY <1>d, <3>2, <3>3, ItemPlanned
    <3>5. g[s] = PlanItem(ch[s], g[r])
      BY <1>7, <1>9, <1>10, <1>v, <2>2, <3>1, <3>2, <3>4
    <3> QED BY <3>4, <3>5
  <2> HIDE DEF W
  <2> QED BY <2>1, <2>2 DEF FoldWithin
<1>12. \A s \in SUBSET D : g[s] \in W[s]
  <2> HIDE DEF W
  <2> QED BY <1>2, <1>8, <1>11, FoldInduction, SMT
<1>13. \A s \in SUBSET D : g[s] \in Planned(s, c)
  BY <1>12
<1>14. \A s \in SUBSET D : s # {} => g[s] = PlanItem(ch[s], g[s \ {ch[s]}])
  <2> SUFFICES ASSUME NEW s \in SUBSET D, s # {} PROVE g[s] = PlanItem(ch[s], g[s \ {ch[s]}])
    OBVIOUS
  <2>1. s \ {ch[s]} \in SUBSET D /\ ch[s] \in s
    BY <1>6
  <2>2. PlanItem(ch[s], g[s \ {ch[s]}]) \in Planned(s, c)
    BY <1>d, <1>13, <2>1, ItemPlanned
  <2> QED BY <1>7, <1>9, <1>10, <1>v, <2>1, <2>2
<1>15. \A s \in SUBSET D : g[s] = Body(g)[s]
  BY <1>6, <1>10, <1>14
<1>16. g = Body(g)
  BY <1>15
<1>17. fold = Body(fold)
  BY <1>16
<1>18. \A s \in SUBSET D : fold[s] = IF s = {} THEN base ELSE PlanItem(ch[s], fold[s \ {ch[s]}])
  <2> HIDE DEF fold
  <2> QED BY <1>6, <1>17
<1> HIDE DEF fold, Body, W
<1>19. FoldAlike(fold, g, ch, D)
  BY <1>10, <1>14, <1>18 DEF FoldAlike
<1>20. fold[D] = g[D]
  BY <1>2, <1>8, <1>19, FoldUnique, SMT
<1> QED BY <1>1, <1>13, <1>20, <1>d

(* The states of a purchase: every hopper's stock is what the plan started *)
(* from less what left it; an item still to be executed has paid nothing,  *)
(* and an executed one at most a coin too many; as long as all went well   *)
(* it has paid what the plan asks.                                         *)
PayTypes ==
  /\ DOMAIN counts \subseteq Denoms /\ counts \in [DOMAIN counts -> Nat]
  /\ asked \in [use : Coins, left : Nat, from : [DOMAIN counts -> Nat]]
  /\ gone \in Coins /\ change \in Nat /\ plan \subseteq Denoms
  /\ verdict \in [ok : BOOLEAN, said : {"none", "running", "OK", "VOID"}]

Over(d) == IF asked.use[d] > 0 THEN 1 ELSE 0

ItemsInv ==
  \A d \in Denoms :
    /\ d \in plan => gone[d] = 0 /\ asked.use[d] > 0
    /\ gone[d] <= asked.use[d] + Over(d)
    /\ verdict.ok /\ verdict.said \in {"running", "OK"} /\ d \notin plan
         => asked.use[d] <= gone[d]

EndInv ==
  /\ verdict.said \in {"running", "OK"} => asked.left = 0
  /\ verdict.said # "running" => plan = {}
  /\ verdict.said = "OK" => verdict.ok

StockInv ==
  \A d \in DOMAIN counts :
    counts[d] = (IF gone[d] > asked.from[d] THEN 0 ELSE asked.from[d] - gone[d])

PayInv == PayTypes /\ PlanIsMaximal /\ ItemsInv /\ EndInv /\ StockInv

(* Before the first purchase nothing was planned or paid.                  *)
LEMMA PayStart == PInit => PayInv
<1> SUFFICES ASSUME PInit PROVE PayInv
  OBVIOUS
<1>1. DOMAIN counts \subseteq Denoms /\ counts \in [DOMAIN counts -> Nat]
  BY PayoutAssumption DEF PInit
<1>2. /\ asked = [use |-> Nothing, left |-> 0, from |-> counts] /\ plan = {} /\ change = 0
      /\ verdict = [ok |-> TRUE, said |-> "none"] /\ gone = Nothing /\ sales = 0
  BY DEF PInit
<1>3. asked.use = Nothing /\ asked.left = 0 /\ asked.from = counts
  BY <1>2
<1>4. verdict.ok = TRUE /\ verdict.said = "none"
  BY <1>2
<1>5. 0 \in Nat /\ 0 + 0 = 0 /\ 0 <= 0 + 0 /\ ~(0 > 0) /\ \A x \in Nat : 0 <= x /\ ~(0 > x) /\ x = x - 0
  BY SMT
<1>6. PayTypes
  <2>1. [use |-> Nothing, left |-> 0, from |-> counts]
          \in [use : Coins, left : Nat, from : [DOMAIN counts -> Nat]]
    BY <1>1, <1>5, NothingPaid
  <2> QED BY <1>1, <1>2, <1>5, <2>1, NothingPaid DEF PayTypes
<1>7. PlanIsMaximal
  <2>1. ASSUME NEW d \in Denoms
        PROVE  0 <= (IF d \in DOMAIN counts /\ counts[d] > Threshold THEN counts[d] ELSE 0)
    BY <1>1, <1>5
  <2>2. Value(asked.use) + asked.left = change
    BY <1>2, <1>3, <1>5, NothingPaid
  <2> QED BY <1>2, <1>3, <1>5, <2>1, <2>2, NothingPaid DEF PlanIsMaximal
<1>8. ItemsInv
  BY <1>2, <1>3, <1>4, <1>5, NothingPaid DEF ItemsInv, Over
<1>9. EndInv
  BY <1>2, <1>4 DEF EndInv
<1>10. StockInv
  BY <1>1, <1>2, <1>3, <1>5, NothingPaid DEF StockInv
<1> QED BY <1>6, <1>7, <1>8, <1>9, <1>10 DEF PayInv

(* A purchase plans its change.                                            *)
LEMMA PurchaseKeeps ==
  ASSUME PayInv, NEW bill \in Bills, Purchase(bill)
  PROVE  PayInv'
<1>1. PICK c : c = ChangeOf(bill)
  OBVIOUS
<1>2. c \in Nat
  <2>1. bill[1] \in Nat /\ bill[2] \in Nat
    BY PayoutAssumption
  <2>2. \A x, y \in Nat : (IF y < x THEN 0 ELSE (y - x) % 100) \in Nat
    BY SMT
  <2> QED BY <1>1, <2>1, <2>2 DEF ChangeOf
<1>3. DOMAIN counts \subseteq Denoms /\ counts \in [DOMAIN counts -> Nat]
  BY DEF PayInv, PayTypes
<1>4. asked' \in Planned(Denoms, c)
  BY <1>1, <1>2, <1>3, PlanMade DEF Purchase
<1>5. PICK a : a = asked'
  OBVIOUS
<1>6. /\ a \in [use : Coins, left : Nat, from : {counts}] /\ Value(a.use) + a.left = c
      /\ \A d \in Denoms : a.use[d] <= usable(d) /\ (a.left < d \/ a.use[d] = usable(d))
  BY <1>4, <1>5 DEF Planned
<1>7. a.use \in Coins /\ a.left \in Nat /\ a.from = counts
  BY <1>6
<1>8. \A d \in Denoms : usable(d) = IF d \in DOMAIN counts /\ counts[d] > Threshold
                                    THEN counts[d] ELSE 0
  <2> SUFFICES ASSUME NEW d \in Denoms
               PROVE  usable(d) = IF d \in DOMAIN counts /\ counts[d] > Threshold
                                  THEN counts[d] ELSE 0
    OBVIOUS
  <2>1. Threshold \in Nat
    BY PayoutAssumption
  <2> QED BY <1>3, <2>1, SMT DEF usable, low
<1>9. counts' = counts /\ gone' = Nothing /\ change' = c
  BY <1>1 DEF Purchase
<1>10. PICK v : v = verdict'
  OBVIOUS
<1>11. \/ plan' = {} /\ v = [ok |-> FALSE, said |-> "VOID"]
       \/ /\ ~(a.left > 0) /\ plan' = {d \in Denoms : a.use[d] > 0}
          /\ v = [ok |-> TRUE, said |-> "running"]
  BY <1>5, <1>10 DEF Purchase
<1>12. \/ plan' = {} /\ ~v.ok /\ v.said = "VOID"
       \/ /\ ~(a.left > 0) /\ plan' = {d \in Denoms : a.use[d] > 0}
          /\ v.ok = TRUE /\ v.said = "running"
  <2>1. ASSUME v = [ok |-> FALSE, said |-> "VOID"] PROVE ~v.ok /\ v.said = "VOID"
    BY <2>1
  <2>2. ASSUME v = [ok |-> TRUE, said |-> "running"] PROVE v.ok = TRUE /\ v.said = "running"
    BY <2>2
  <2> QED BY <1>11, <2>1, <2>2
<1>13. v \in [ok : BOOLEAN, said : {"none", "running", "OK", "VOID"}]
  <2>1. CASE v = [ok |-> FALSE, said |-> "VOID"]
    BY <2>1
  <2>2. CASE v = [ok |-> TRUE, said |-> "running"]
    BY <2>2
  <2> QED BY <1>11, <2>1, <2>2
<1>14. PayTypes'
  <2>1. a \in [use : Coins, left : Nat, from : [DOMAIN counts -> Nat]]
    BY <1>3, <1>6
  <2>2. plan' \subseteq Denoms
    BY <1>12
  <2> QED BY <1>2, <1>3, <1>5, <1>9, <1>10, <1>13, <2>1, <2>2, NothingPaid DEF PayTypes, Coins
<1>15. PlanIsMaximal'
  BY <1>5, <1>6, <1>7, <1>8, <1>9 DEF PlanIsMaximal
<1>16. ItemsInv'
  <2> SUFFICES ASSUME NEW d \in Denoms
               PROVE  /\ d \in plan' => Nothing[d] = 0 /\ a.use[d] > 0
                      /\ Nothing[d] <= a.use[d] + (IF a.use[d] > 0 THEN 1 ELSE 0)
                      /\ v.ok /\ v.said \in {"running", "OK"} /\ d \notin plan'
                           => a.use[d] <= Nothing[d]
    BY <1>5, <1>9, <1>10 DEF ItemsInv, Over
  <2>1. Nothing[d] = 0 /\ a.use[d] \in Nat
    BY <1>7, NothingPaid DEF Coins
  <2>2. Nothing[d] <= a.use[d] + (IF a.use[d] > 0 THEN 1 ELSE 0)
    BY <2>1, SMT
  <2>3. ~(a.use[d] > 0) => a.use[d] <= Nothing[d]
    BY <2>1, SMT
  <2> QED BY <1>12, <2>1, <2>2, <2>3
<1>17. EndInv'
  <2>1. ~(a.left > 0) => a.left = 0
    BY <1>7, SMT
  <2> QED BY <1>5, <1>10, <1>12, <2>1 DEF EndInv
<1>18. StockInv'
  <2>1. \A x \in Nat : ~(0 > x) /\ x = x - 0
    BY SMT
  <2>2. \A d \in DOMAIN counts : counts[d] \in Nat /\ Nothing[d] = 0
    BY <1>3, NothingPaid
  <2>3. asked'.from = counts
    BY <1>5, <1>7
  <2> QED BY <1>9, <2>1, <2>2, <2>3 DEF StockInv
<1> QED BY <1>14, <1>15, <1>16, <1>17, <1>18 DEF PayInv

(* What execute does to one item, whether or not its hopper has a driver.  *)
LEMMA ItemStep ==
  ASSUME PayInv, NEW n \in Nat, NEW ok \in BOOLEAN, ExecuteItem(n, ok)
  PROVE  \E d \in plan :
           /\ plan' = plan \ {d} /\ d \in Denoms /\ n <= asked.use[d] + 1
           /\ gone' \in Coins /\ \A x \in Denoms : gone'[x] = IF x = d THEN n ELSE gone[x]
           /\ counts' \in [DOMAIN counts -> Nat]
           /\ \A x \in DOMAIN counts :
                counts'[x] = IF x = d THEN (IF n > counts[d] THEN 0 ELSE counts[d] - n) ELSE counts[x]
           /\ verdict' \in [ok : BOOLEAN, said : {"none", "running", "OK", "VOID"}]
           /\ verdict'.said = verdict.said
           /\ verdict'.ok => verdict.ok /\ asked.use[d] <= n
           /\ UNCHANGED <<asked, change, sales>>
<1>1. PICK d : d = Largest(plan)
  OBVIOUS
<1>2. d \in plan /\ d \in Denoms /\ plan' = plan \ {d} /\ UNCHANGED <<asked, change, sales>>
  BY <1>1, DenomBounds DEF ExecuteItem, PayInv, PayTypes
<1>3. /\ counts \in [DOMAIN counts -> Nat] /\ gone \in Coins
      /\ verdict \in [ok : BOOLEAN, said : {"none", "running", "OK", "VOID"}]
      /\ asked.use \in Coins
  BY DEF PayInv, PayTypes
<1>4. gone[d] = 0 /\ asked.use[d] > 0 /\ asked.use[d] \in Nat
  BY <1>2, <1>3 DEF PayInv, ItemsInv, Coins
<1>5. CASE d \notin attached
  <2>1. n = 0 /\ verdict' = [verdict EXCEPT !.ok = FALSE] /\ counts' = counts /\ gone' = gone
    BY <1>1, <1>5 DEF ExecuteItem
  <2>2. 0 <= asked.use[d] + 1
    BY <1>4, SMT
  <2>3. \A x \in Nat : (IF 0 > x THEN 0 ELSE x - 0) = x
    BY SMT
  <2>4. PICK v : v = verdict'
    OBVIOUS
  <2>5. /\ v \in [ok : BOOLEAN, said : {"none", "running", "OK", "VOID"}]
        /\ v.said = verdict.said /\ ~v.ok
    BY <1>3, <2>1, <2>4
  <2>6. \A x \in DOMAIN counts :
          counts'[x] = IF x = d THEN (IF n > counts[d] THEN 0 ELSE counts[d] - n) ELSE counts[x]
    BY <1>3, <2>1, <2>3
  <2>7. gone' \in Coins /\ \A x \in Denoms : gone'[x] = IF x = d THEN n ELSE gone[x]
    BY <1>3, <1>4, <2>1
  <2> QED BY <1>2, <1>3, <2>1, <2>2, <2>4, <2>5, <2>6, <2>7
<1>6. CASE d \in attached
  <2>1. /\ n <= asked.use[d] + 1 /\ counts' = take(d, n) /\ gone' = [gone EXCEPT ![d] = @ + n]
        /\ verdict' = [verdict EXCEPT !.ok = @ /\ ok /\ n >= asked.use[d]]
    BY <1>1, <1>6 DEF ExecuteItem
  <2>2. 0 + n = n /\ (n >= asked.use[d] => asked.use[d] <= n)
    BY <1>4, SMT
  <2>3. PICK v : v = verdict'
    OBVIOUS
  <2>4. /\ v \in [ok : BOOLEAN, said : {"none", "running", "OK", "VOID"}]
        /\ v.said = verdict.said /\ v.ok = (verdict.ok /\ ok /\ n >= asked.use[d])
    BY <1>3, <2>1, <2>3
  <2>5. gone' \in Coins /\ \A x \in Denoms : gone'[x] = IF x = d THEN n ELSE gone[x]
    BY <1>2, <1>3, <1>4, <2>1, <2>2 DEF Coins
  <2>6. PICK m : m = IF n > counts[d] THEN 0 ELSE counts[d] - n
    OBVIOUS
  <2>7. counts' = [counts EXCEPT ![d] = m]
    BY <2>1, <2>6 DEF take
  <2>8. d \in DOMAIN counts => m \in Nat
    <3>1. \A x \in Nat : (IF n > x THEN 0 ELSE x - n) \in Nat
      BY SMT
    <3> QED BY <1>3, <2>6, <3>1
  <2>9. /\ counts' \in [DOMAIN counts -> Nat]
        /\ \A x \in DOMAIN counts : counts'[x] = IF x = d THEN m ELSE counts[x]
    BY <1>3, <2>7, <2>8
  <2> QED BY <1>2, <2>1, <2>2, <2>3, <2>4, <2>5, <2>6, <2>9
<1> QED BY <1>5, <1>6

(* An executed item has paid what was asked, or the purchase fails.        *)
LEMMA ExecuteKeeps ==
  ASSUME PayInv, NEW n \in Nat, NEW ok \in BOOLEAN, ExecuteItem(n, ok)
  PROVE  PayInv'
<1>1. PICK d \in plan :
        /\ plan' = plan \ {d} /\ d \in Denoms /\ n <= asked.use[d] + 1
        /\ gone' \in Coins /\ \A x \in Denoms : gone'[x] = IF x = d THEN n ELSE gone[x]
        /\ counts' \in [DOMAIN counts -> Nat]
        /\ \A x \in DOMAIN counts :
             counts'[x] = IF x = d THEN (IF n > counts[d] THEN 0 ELSE counts[d] - n) ELSE counts[x]
        /\ verdict' \in [ok : BOOLEAN, said : {"none", "running", "OK", "VOID"}]
        /\ verdict'.said = verdict.said
        /\ verdict'.ok => verdict.ok /\ asked.use[d] <= n
        /\ UNCHANGED <<asked, change, sales>>
  BY ItemStep
<1>2. PayTypes /\ PlanIsMaximal /\ ItemsInv /\ EndInv /\ StockInv
  BY DEF PayInv
<1>3. DOMAIN counts' = DOMAIN counts
  BY <1>1
<1>4. PayTypes'
  BY <1>1, <1>2, <1>3 DEF PayTypes, Coins
<1>5. PlanIsMaximal'
  BY <1>1, <1>2 DEF PlanIsMaximal
<1>6. asked.use[d] > 0 /\ asked.use[d] \in Nat /\ gone[d] = 0
  BY <1>1, <1>2 DEF PayTypes, ItemsInv, Coins
<1>7. ItemsInv'
  <2> SUFFICES ASSUME NEW x \in Denoms
               PROVE  /\ x \in plan' => gone'[x] = 0 /\ asked.use[x] > 0
                      /\ gone'[x] <= asked.use[x] + (IF asked.use[x] > 0 THEN 1 ELSE 0)
                      /\ verdict'.ok /\ verdict'.said \in {"running", "OK"} /\ x \notin plan'
                           => asked.use[x] <= gone'[x]
    BY <1>1 DEF ItemsInv, Over
  <2>1. CASE x = d
    <3>1. gone'[x] = n /\ x \notin plan'
      BY <1>1, <2>1
    <3>2. n <= asked.use[x] + (IF asked.use[x] > 0 THEN 1 ELSE 0)
      BY <1>1, <1>6, <2>1
    <3> QED BY <1>1, <2>1, <3>1, <3>2
  <2>2. CASE x # d
    <3>1. gone'[x] = gone[x] /\ (x \in plan' <=> x \in plan)
      BY <1>1, <2>2
    <3>2. /\ x \in plan => gone[x] = 0 /\ asked.use[x] > 0
          /\ gone[x] <= asked.use[x] + (IF asked.use[x] > 0 THEN 1 ELSE 0)
          /\ verdict.ok /\ verdict.said \in {"running", "OK"} /\ x \notin plan
               => asked.use[x] <= gone[x]
      BY <1>2 DEF ItemsInv, Over
    <3> QED BY <1>1, <3>1, <3>2
  <2> QED BY <2>1, <2>2
<1>8. EndInv'
  BY <1>1, <1>2 DEF EndInv
<1>9. StockInv'
  <2> SUFFICES ASSUME NEW x \in DOMAIN counts
               PROVE  counts'[x] = IF gone'[x] > asked.from[x] THEN 0 ELSE asked.from[x] - gone'[x]
    BY <1>1, <1>3 DEF StockInv
  <2>1. /\ counts[x] = IF gone[x] > asked.from[x] THEN 0 ELSE asked.from[x] - gone[x]
        /\ x \in Denoms /\ asked.from[x] \in Nat
    BY <1>2 DEF StockInv, PayTypes
  <2>2. CASE x = d
    <3>1. \A y \in Nat : (IF 0 > y THEN 0 ELSE y - 0) = y
      BY SMT
    <3>2. counts[x] = asked.from[x]
      BY <1>6, <2>1, <2>2, <3>1
    <3> QED BY <1>1, <2>1, <2>2, <3>2
  <2>3. CASE x # d
    BY <1>1, <2>1, <2>3
  <2> QED BY <2>2, <2>3
<1> QED BY <1>4, <1>5, <1>7, <1>8, <1>9 DEF PayInv

(* More coins of each denomination are worth no less.                      *)
LEMMA ValueGrows ==
  ASSUME NEW c \in Coins, NEW e \in Coins, \A d \in Denoms : c[d] <= e[d]
  PROVE  Value(c) <= Value(e)
<1>1. PICK f : f = [d \in Denoms |-> d * c[d]]
  OBVIOUS
<1>2. PICK g : g = [d \in Denoms |-> d * e[d]]
  OBVIOUS
<1>3. f \in [Denoms -> Nat] /\ g \in [Denoms -> Nat] /\ IsFiniteSet(Denoms)
  BY <1>1, <1>2, ValueTyped, PayoutAssumption
<1>4. \A d \in Denoms : f[d] <= g[d]
  <2> SUFFICES ASSUME NEW d \in Denoms PROVE d * c[d] <= d * e[d]
    BY <1>1, <1>2
  <2>1. \A x, y, z \in Nat : y <= z => x * y <= x * z
    BY SMT
  <2> QED BY <2>1, PayoutAssumption DEF Coins
<1>5. SumFunction(f) <= SumFunction(g)
  BY <1>3, <1>4, SumGrows, SMT
<1> QED BY <1>1, <1>2, <1>5 DEF Value

(* The cents of two heaps of coins add up.                                 *)
LEMMA ValueAdds ==
  ASSUME NEW c \in Coins, NEW e \in Coins, NEW s \in Coins,
         \A d \in Denoms : s[d] = c[d] + e[d]
  PROVE  Value(s) = Value(c) + Value(e)
<1>1. PICK f : f = [d \in Denoms |-> d * c[d]]
  OBVIOUS
<1>2. PICK g : g = [d \in Denoms |-> d * e[d]]
  OBVIOUS
<1>3. PICK h : h = [d \in Denoms |-> d * s[d]]
  OBVIOUS
<1>4. f \in [Denoms -> Nat] /\ g \in [Denoms -> Nat] /\ h \in [Denoms -> Nat]
  BY <1>1, <1>2, <1>3, ValueTyped
<1>5. f \in [Denoms -> Int] /\ g \in [Denoms -> Int] /\ h \in [Denoms -> Int]
  BY <1>4, SMT
<1>6. IsFiniteSet(Denoms)
  BY PayoutAssumption
<1>7. \A d \in Denoms : h[d] = f[d] + g[d]
  <2> SUFFICES ASSUME NEW d \in Denoms PROVE d * s[d] = d * c[d] + d * e[d]
    BY <1>1, <1>2, <1>3
  <2>1. \A x, y, z \in Nat : x * (y + z) = x * y + x * z
    BY SMT
  <2>2. d \in Nat /\ c[d] \in Nat /\ e[d] \in Nat /\ s[d] = c[d] + e[d]
    BY PayoutAssumption DEF Coins
  <2>3. d * (c[d] + e[d]) = d * c[d] + d * e[d]
    BY <2>1, <2>2
  <2> QED BY <2>2, <2>3
<1>8. SumFunction(h) = SumFunction(f) + SumFunction(g)
  BY <1>5, <1>6, <1>7, SumAdds, SMT
<1> QED BY <1>1, <1>2, <1>3, <1>8 DEF Value

(* In such a state the property holds: item by item the coins paid lie     *)
(* between the coins asked and one more, so their sums do.                 *)
LEMMA PaidEnough ==
  ASSUME PayInv
  PROVE  OkPaysTheChange
<1>1. PayTypes /\ PlanIsMaximal /\ ItemsInv /\ EndInv /\ StockInv
  BY DEF PayInv
<1>2. PICK more : more = [d \in Denoms |-> IF asked.use[d] > 0 THEN 1 ELSE 0]
  OBVIOUS
<1>3. PICK most : most = [d \in Denoms |-> asked.use[d] + more[d]]
  OBVIOUS
<1>4. asked.use \in Coins /\ gone \in Coins /\ asked.left \in Nat
  BY <1>1 DEF PayTypes
<1>5. more \in Coins
  BY <1>2, SMT DEF Coins
<1>6. most \in Coins /\ \A d \in Denoms : most[d] = asked.use[d] + more[d]
  <2>1. \A d \in Denoms : asked.use[d] + more[d] \in Nat
    <3>1. \A x, y \in Nat : x + y \in Nat
      BY SMT
    <3> QED BY <1>4, <1>5, <3>1 DEF Coins
  <2> QED BY <1>3, <2>1 DEF Coins
<1>7. ASSUME verdict.said = "OK"
      PROVE  Value(gone) >= change /\ Value(gone) <= change + Value(more)
  <2>1. asked.left = 0 /\ plan = {} /\ verdict.ok
    BY <1>1, <1>7 DEF EndInv
  <2>2. Value(asked.use) \in Nat /\ Value(gone) \in Nat /\ Value(more) \in Nat
    BY <1>4, <1>5, ValueTyped
  <2>3. Value(asked.use) + asked.left = change
    BY <1>1 DEF PlanIsMaximal
  <2>4. \A d \in Denoms : asked.use[d] <= gone[d] /\ gone[d] <= most[d]
    BY <1>1, <1>2, <1>6, <1>7, <2>1 DEF ItemsInv, Over
  <2>5. Value(asked.use) <= Value(gone) /\ Value(gone) <= Value(most)
    BY <1>4, <1>6, <2>4, ValueGrows
  <2>6. Value(most) = Value(asked.use) + Value(more)
    BY <1>4, <1>5, <1>6, ValueAdds
  <2>7. \A p, w, m \in Nat : p <= w /\ w <= p + m => w >= p + 0 /\ w <= (p + 0) + m
    BY SMT
  <2> QED BY <2>1, <2>2, <2>3, <2>5, <2>6, <2>7
<1> QED BY <1>1, <1>2, <1>7 DEF OkPaysTheChange, StockInv

(* The inductive invariant of Payout.                                      *)
LEMMA PayInvariant == PSpec => []PayInv
<1>1. PayInv /\ [PNext]_pvars => PayInv'
  <2> SUFFICES ASSUME PayInv, [PNext]_pvars PROVE PayInv'
    OBVIOUS
  <2>1. ASSUME NEW bill \in Bills, Purchase(bill) PROVE PayInv'
    BY <2>1, PurchaseKeeps
  <2>2. ASSUME plan # {}, NEW n \in 0..asked.use[Largest(plan)] + 1, NEW ok \in BOOLEAN,
               ExecuteItem(n, ok)
        PROVE  PayInv'
    <3>1. asked.use[Largest(plan)] \in Nat
      BY <2>2, DenomBounds DEF PayInv, PayTypes, Coins
    <3>2. n \in Nat
      BY <3>1, SMT
    <3> QED BY <2>2, <3>2, ExecuteKeeps
  <2>3. CASE Report
    <3>1. PICK v : v = verdict'
      OBVIOUS
    <3>2. PayTypes /\ PlanIsMaximal /\ ItemsInv /\ EndInv /\ StockInv
      BY DEF PayInv
    <3>3. /\ verdict.said = "running" /\ plan = {} /\ UNCHANGED <<counts, plan, asked, gone, change, sales>>
          /\ v = [verdict EXCEPT !.said = IF verdict.ok THEN "OK" ELSE "VOID"]
          /\ verdict \in [ok : BOOLEAN, said : {"none", "running", "OK", "VOID"}]
      BY <2>3, <3>1, <3>2 DEF Report, PayTypes
    <3>4. v.ok = verdict.ok /\ v.said = (IF verdict.ok THEN "OK" ELSE "VOID")
      BY <3>3
    <3>5. v \in [ok : BOOLEAN, said : {"none", "running", "OK", "VOID"}]
      BY <3>3
    <3>6. PayTypes' /\ PlanIsMaximal' /\ StockInv'
      BY <3>1, <3>2, <3>3, <3>5 DEF PayTypes, PlanIsMaximal, StockInv, Coins
    <3>7. ItemsInv'
      BY <3>1, <3>2, <3>3, <3>4 DEF ItemsInv, Over
    <3>8. EndInv'
      BY <3>1, <3>2, <3>3, <3>4 DEF EndInv
    <3> QED BY <3>6, <3>7, <3>8 DEF PayInv
  <2>4. CASE UNCHANGED pvars
    BY <2>4 DEF pvars, PayInv, PayTypes, PlanIsMaximal, ItemsInv, Over, EndInv, StockInv, Coins
  <2> QED BY <2>1, <2>2, <2>3, <2>4 DEF PNext
<1> QED BY <1>1, PayStart, PTL DEF PSpec

(* OkPaysTheChange: a purchase that main reports as OK paid the change by  *)
(* a maximal plan and at most one coin more per hopper it used, and the    *)
(* logical stock fell by what left the hoppers.                            *)
THEOREM OkHasPaid == PSpec => []OkPaysTheChange
BY PayInvariant, PaidEnough, PTL
=============================================================================
