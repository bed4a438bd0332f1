------------------------------ MODULE KeyStore ------------------------------
(***************************************************************************)
(* The key store of a participant (src/src/keystore.rs): the key it signs  *)
(* endorsements with, the keys it trusts and their roles.  A key pair is   *)
(* one element of Keys.  Operations are operators on a key store record;   *)
(* the ones that fail (a key of the wrong length, a public key that does   *)
(* not match the private one) leave the record as it was.                  *)
(***************************************************************************)
EXTENDS FiniteSets

CONSTANTS
  Keys,   \* Ed25519 key pairs, each named by its public key
  Roles,  \* role names
  None    \* the absent Option

ASSUME KeysAssumption == IsFiniteSet(Keys) /\ None \notin Keys
ASSUME RolesAssumption == None \notin Roles

KeyStore == [endorsement_key : Keys \cup {None},
             trusted_keys    : SUBSET Keys,
             roles           : [Keys -> Roles \cup {None}]]

NewKeyStore == [endorsement_key |-> None,
                trusted_keys    |-> {},
                roles           |-> [k \in Keys |-> None]]

AddTrusted(ks, k) == [ks EXCEPT !.trusted_keys = @ \cup {k}]

\* Mutant: the role is recorded, the key is not trusted.
AddTrustedWithRole_RoleOnly(ks, k, role) == [ks EXCEPT !.roles[k] = role]

AddTrustedWithRole(ks, k, role) ==
  [AddTrusted(ks, k) EXCEPT !.roles[k] = role]

\* A public key given along with the private one is trusted from then on.
CredentialsSet(ks, sk, pk) ==
  [IF pk = None THEN ks ELSE AddTrusted(ks, pk) EXCEPT !.endorsement_key = sk]

CredentialsSetWithRole(ks, sk, pk, role) ==
  AddTrustedWithRole(CredentialsSet(ks, sk, pk), pk, role)

IsTrusted(ks, k) == k \in ks.trusted_keys

\* Roles are only recorded together with trust, and trust is never withdrawn.
RolesAreTrusted(ks) ==
  \A k \in Keys : ks.roles[k] # None => IsTrusted(ks, k)

(***************************************************************************)
(* The JSON form lists the trusted keys with their roles; the endorsement  *)
(* key is not part of it.                                                  *)
(***************************************************************************)
KeyStoreJson == UNION {[ks -> Roles \cup {None}] : ks \in SUBSET Keys}

KeyStoreToJson(ks) == [k \in ks.trusted_keys |-> ks.roles[k]]

\* Mutant: the roles are not read back.
KeyStoreFromJson_NoRoles(json) ==
  [NewKeyStore EXCEPT !.trusted_keys = DOMAIN json]

KeyStoreFromJson(json) ==
  [endorsement_key |-> None,
   trusted_keys    |-> DOMAIN json,
   roles           |-> [k \in Keys |-> IF k \in DOMAIN json
                                       THEN json[k] ELSE None]]
=============================================================================
