--------------------------- MODULE DeviceIdentity ---------------------------
(***************************************************************************)
(* Who may act as a drawer: enrolment with one-time tokens                 *)
(* (cloud/control_plane/enrollment_service.cpp) and the certificates of    *)
(* the mTLS identity store (cloud/identity/cert_identity.cpp).             *)
(*                                                                         *)
(* An operation of the enrolment service holds its mutex and saves before  *)
(* it returns, so between operations the store equals the memory.  The     *)
(* certificate store has no mutex and promote_pending saves twice; a crash *)
(* may fall between the two.  Both services swallow a store that does not  *)
(* parse, and start empty.                                                 *)
(***************************************************************************)
EXTENDS Naturals, FiniteSets

CONSTANTS
  Tokens,       \* token texts
  Malformed,    \* those that malformed_token refuses
  Drawers,      \* device ids
  Expiries,     \* expires_at_epoch; 0 is never
  MaxTime,      \* bound: the clock
  MaxIssued,    \* bound: add_token per token
  Certs         \* fingerprints

ASSUME IdentityAssumption ==
  /\ Malformed \subseteq Tokens /\ Expiries \subseteq Nat /\ MaxTime \in Nat /\ MaxIssued \in Nat
  /\ "none" \notin Certs

VARIABLES
  tokens,      \* tokens_ of the enrolment service
  identities,  \* identities_ of the enrolment service
  now,         \* the clock
  issued,      \* history: add_token per token since the store was last lost
  spent,       \* history: enrolments per token, likewise
  certs,       \* identities_ of the certificate store
  promoting,   \* the fingerprint between the two saves of promote_pending
  withdrawn    \* history: drawers of which an operator withdrew a certificate

ivars == <<tokens, identities, now, issued, spent>>
xvars == <<certs, promoting, withdrawn>>

TokenRecords == [drawer : Drawers, expires : Expiries, used : BOOLEAN, revoked : BOOLEAN]
CertStates == {"active", "pending", "expired", "revoked"}
CertRecords == [drawer : Drawers, state : CertStates, from : Certs \cup {"none"}]
Put(f, k, v) == [x \in DOMAIN f \cup {k} |-> IF x = k THEN v ELSE f[x]]
Empty == [x \in {} |-> x]

(* The stores map tokens, drawers and fingerprints to their records.       *)
IdTypeOK ==
  /\ DOMAIN tokens \subseteq Tokens /\ \A t \in DOMAIN tokens : tokens[t] \in TokenRecords
  /\ DOMAIN identities \subseteq Drawers /\ \A d \in DOMAIN identities : identities[d] \in BOOLEAN
  /\ now \in 0..MaxTime /\ issued \in [Tokens -> 0..MaxIssued] /\ spent \in [Tokens -> Nat]
  /\ DOMAIN certs \subseteq Certs /\ \A c \in DOMAIN certs : certs[c] \in CertRecords
  /\ promoting \subseteq Certs /\ withdrawn \subseteq Drawers

IdInit ==
  /\ tokens = Empty /\ identities = Empty /\ now = 0
  /\ issued = [t \in Tokens |-> 0] /\ spent = [t \in Tokens |-> 0]
  /\ certs = Empty /\ promoting = {} /\ withdrawn = {}
-----------------------------------------------------------------------------
(***************************************************************************)
(* The enrolment service.  An identity is its disabled flag.               *)
(***************************************************************************)
add_token(t, d, e) ==
  /\ issued[t] < MaxIssued
  /\ tokens' = Put(tokens, t, [drawer |-> d, expires |-> e, used |-> FALSE, revoked |-> FALSE])
  /\ issued' = [issued EXCEPT ![t] = @ + 1]
  /\ UNCHANGED <<identities, now, spent, xvars>>

revoke_token(t) ==
  /\ t \in DOMAIN tokens /\ tokens' = [tokens EXCEPT ![t].revoked = TRUE]
  /\ UNCHANGED <<identities, now, issued, spent, xvars>>

Refused(t, d) ==
  \/ t \in Malformed \/ t \notin DOMAIN tokens
  \/ LET r == tokens[t]
     IN r.revoked \/ r.used \/ (r.expires > 0 /\ r.expires < now) \/ r.drawer # d

\* Bug: the token is not marked as used.
enroll_again(t, d) ==
  /\ IF Refused(t, d) THEN UNCHANGED <<identities, spent>>
     ELSE identities' = Put(identities, d, FALSE) /\ spent' = [spent EXCEPT ![t] = @ + 1]
  /\ UNCHANGED <<tokens, now, issued, xvars>>

enroll(t, d) ==
  /\ IF Refused(t, d) THEN UNCHANGED <<tokens, identities, spent>>
     ELSE /\ tokens' = [tokens EXCEPT ![t].used = TRUE]
          /\ identities' = Put(identities, d, FALSE)
          /\ spent' = [spent EXCEPT ![t] = @ + 1]
  /\ UNCHANGED <<now, issued, xvars>>

is_disabled(d) == d \in DOMAIN identities /\ identities[d]

disable_identity(d) ==
  /\ d \in DOMAIN identities /\ identities' = [identities EXCEPT ![d] = TRUE]
  /\ UNCHANGED <<tokens, now, issued, spent, xvars>>

Later ==
  /\ now < MaxTime /\ now' = now + 1
  /\ UNCHANGED <<tokens, identities, issued, spent, xvars>>

(* load after a save that a crash cut short: the tokens are gone. *)
EnrolmentTorn ==
  /\ DOMAIN tokens # {}
  /\ tokens' = Empty /\ identities' = Empty
  /\ issued' = [t \in Tokens |-> 0] /\ spent' = [t \in Tokens |-> 0]
  /\ UNCHANGED <<now, xvars>>
-----------------------------------------------------------------------------
\* Bug: a pending certificate is not admitted.
cert_state_active(c) == certs[c].state = "active"

(***************************************************************************)
(* The certificate store.                                                  *)
(***************************************************************************)
cert_state_allows_device(c) == certs[c].state \in {"active", "pending"}

Admitted(d) == {c \in DOMAIN certs : certs[c].drawer = d /\ cert_state_allows_device(c)}

(* A record may replace another; it names as its predecessor a certificate *)
(* of the same drawer, if any.                                             *)
upsert(c, d, s, from) ==
  /\ promoting = {}
  /\ from = "none" \/ (from \in DOMAIN certs /\ certs[from].drawer = d)
  /\ certs' = Put(certs, c, [drawer |-> d, from |-> from, state |-> s])
  /\ withdrawn' = withdrawn \cup (IF c \in DOMAIN certs THEN {certs[c].drawer, d} ELSE {})
                            \cup (IF s \in {"active", "pending"} THEN {} ELSE {d})
  /\ UNCHANGED <<promoting, ivars>>

mark_state(c, s) ==
  /\ c \in DOMAIN certs /\ promoting = {}
  /\ certs' = [certs EXCEPT ![c].state = s]
  /\ withdrawn' = withdrawn \cup {certs[c].drawer}
  /\ UNCHANGED <<promoting, ivars>>

(* promote_pending up to its first save, and from there to its second. *)
PromoteExpire(c) ==
  /\ promoting = {} /\ c \in DOMAIN certs /\ certs[c].state = "pending"
  /\ certs' = IF certs[c].from \in DOMAIN certs
              THEN [certs EXCEPT ![certs[c].from].state = "expired"] ELSE certs
  /\ promoting' = {c}
  /\ UNCHANGED <<withdrawn, ivars>>

PromoteActivate(c) ==
  /\ c \in promoting /\ promoting' = {}
  /\ certs' = [certs EXCEPT ![c].state = "active"]
  /\ UNCHANGED <<withdrawn, ivars>>

CertCrash ==
  /\ promoting # {} /\ promoting' = {}
  /\ UNCHANGED <<certs, withdrawn, ivars>>

EnrolmentNext ==
  \/ \E t \in Tokens, d \in Drawers :
       enroll(t, d) \/ \E e \in Expiries : add_token(t, d, e)
  \/ \E t \in Tokens : revoke_token(t)
  \/ \E d \in Drawers : disable_identity(d)
  \/ Later \/ EnrolmentTorn

CertNext ==
  \/ \E c \in Certs : PromoteExpire(c) \/ PromoteActivate(c)
  \/ \E c \in Certs, s \in CertStates : mark_state(c, s)
  \/ \E c \in Certs, d \in Drawers, s \in CertStates, from \in Certs \cup {"none"} :
       upsert(c, d, s, from)
  \/ CertCrash

IdSpec == IdInit /\ [][EnrolmentNext \/ CertNext]_<<ivars, xvars>>
-----------------------------------------------------------------------------
(***************************************************************************)
(* Properties.                                                             *)
(***************************************************************************)
(* A token enrols one drawer each time it is issued, however often enroll  *)
(* is called, retried or raced with a revocation; a used record has been   *)
(* counted.                                                                *)
TokenIsOneTime ==
  \A t \in Tokens :
    spent[t] + (IF t \in DOMAIN tokens /\ ~tokens[t].used THEN 1 ELSE 0) <= issued[t]

(* A drawer that was disabled stays disabled until it is enrolled with     *)
(* another token, or the store of the service is lost: expired, revoked,   *)
(* malformed and used tokens bring no drawer back.                         *)
DisabledNeedsNewToken ==
  [][\A d \in Drawers :
       is_disabled(d) /\ ~is_disabled(d)'
         => \/ tokens' = Empty
            \/ \E t \in DOMAIN tokens :
                 /\ tokens[t].drawer = d /\ ~tokens[t].revoked /\ t \notin Malformed
                 /\ tokens[t].expires = 0 \/ now <= tokens[t].expires
                 /\ spent[t] < spent'[t]]_ivars

(* Rotation never locks a drawer out: unless an operator withdrew one of   *)
(* its certificates, a drawer with a certificate has one that is admitted, *)
(* even when the process stops between the two saves of promote_pending.   *)
NeverLockedOut ==
  \A c \in DOMAIN certs : certs[c].drawer \notin withdrawn => Admitted(certs[c].drawer) # {}
=============================================================================
