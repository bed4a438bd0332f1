----------------------------- MODULE TrustRules -----------------------------
(***************************************************************************)
(* The trust configuration of an adapter and the decisions it takes about  *)
(* a delta (src/src/trustadapter.rs, src/src/deltafilter.rs): who may write*)
(* it, whether it is readable at all, and, given the trusted keys that     *)
(* validly endorsed it, whether these are enough.                          *)
(***************************************************************************)
EXTENDS PolicyEngine

CONSTANTS
  Deltas,     \* delta ids
  Content,    \* Content[d]: the ids of the objects d changes, or Unparsable
  Unparsable  \* content that is not a JSON object with an array "c"

ASSUME ContentAssumption ==
  /\ None \notin Deltas
  /\ \A objects \in SUBSET ObjectIds : objects # Unparsable
  /\ \A d \in Deltas : Content[d] = Unparsable \/ Content[d] \in SUBSET ObjectIds

EndorsementMode == {"Permissive", "Single", "Majority", "Unanimous"}

DeltaFilter == [whitelist : SUBSET Deltas, blacklist : SUBSET Deltas]

NewDeltaFilter == [whitelist |-> {}, blacklist |-> {}]

Configuration == [endorsement_mode : EndorsementMode,
                  keystore         : KeyStore,
                  delta_filter     : DeltaFilter,
                  policy           : PolicyEngine]

\* new_permissive, new_single, new_majority, new_unanimous
NewConfiguration(mode) == [endorsement_mode |-> mode,
                           keystore         |-> NewKeyStore,
                           delta_filter     |-> NewDeltaFilter,
                           policy           |-> NewPolicy]

ChangedObjects(d) == IF Content[d] = Unparsable THEN {} ELSE Content[d]

MayApprove(c, k, d) ==
  \A id \in ChangedObjects(d) : Allows(c.policy, c.keystore, k, id)

\* Mutant: the write is allowed to anyone who holds a key.
MayWrite_AnyKey(c, d) ==
  c.policy.strict_write => c.keystore.endorsement_key # None

\* The check of write_object: the local key must be allowed every object.
MayWrite(c, d) ==
  c.policy.strict_write =>
    /\ c.keystore.endorsement_key # None
    /\ MayApprove(c, c.keystore.endorsement_key, d)

IsBlacklisted(c, d) == d \in c.delta_filter.blacklist

SkipsEndorsements(c, d) ==
  d \in c.delta_filter.whitelist \/ c.endorsement_mode = "Permissive"

\* Mutant: one half passes for a majority.
Enough_Half(mode, n, trusted_count) ==
  \/ mode = "Permissive"
  \/ mode = "Single" /\ n > 0
  \/ mode = "Majority" /\ trusted_count # 0 /\ n * 2 >= trusted_count
  \/ mode = "Unanimous" /\ n = trusted_count

\* Mutant: Single asks for more than one.
Enough_MoreThanOne(mode, n, trusted_count) ==
  \/ mode = "Permissive"
  \/ mode = "Single" /\ n > 1
  \/ mode = "Majority" /\ trusted_count # 0 /\ n * 2 > trusted_count
  \/ mode = "Unanimous" /\ n = trusted_count

Enough(mode, n, trusted_count) ==
  \/ mode = "Permissive"
  \/ mode = "Single" /\ n > 0
  \/ mode = "Majority" /\ trusted_count # 0 /\ n * 2 > trusted_count
  \/ mode = "Unanimous" /\ n = trusted_count

AllowedEndorsers(c, d, valid) == {k \in valid : MayApprove(c, k, d)}

\* Mutant: the policy is not asked.
EnoughEndorsers_NoPolicy(c, d, valid) ==
  Enough(c.endorsement_mode, Cardinality(valid),
         Cardinality(c.keystore.trusted_keys))

\* The two tests of read_object on the valid endorsers it fetched.
EnoughEndorsers(c, d, valid) ==
  LET enough(ks) == Enough(c.endorsement_mode, Cardinality(ks),
                           Cardinality(c.keystore.trusted_keys))
  IN  enough(valid) /\ enough(AllowedEndorsers(c, d, valid))

\* Mutant: the whitelist is looked up before the blacklist.
Shows_WhitelistFirst(c, d, signers) ==
  \/ SkipsEndorsements(c, d)
  \/ /\ ~ IsBlacklisted(c, d)
     /\ EnoughEndorsers(c, d, signers \cap c.keystore.trusted_keys)

\* The whole of read_object: whether c makes d visible when the keys in signers have validly endorsed it.
Shows(c, d, signers) ==
  /\ ~ IsBlacklisted(c, d)
  /\ \/ SkipsEndorsements(c, d)
     \/ EnoughEndorsers(c, d, signers \cap c.keystore.trusted_keys)

(***************************************************************************)
(* to_json and from_json of the whole configuration.                       *)
(***************************************************************************)
ConfigurationJson == [endorsement_mode : EndorsementMode,
                      keystore         : KeyStoreJson,
                      delta_filter     : DeltaFilter,
                      policy           : SUBSET Rule]

ToJson(c) == [endorsement_mode |-> c.endorsement_mode,
              keystore         |-> KeyStoreToJson(c.keystore),
              delta_filter     |-> c.delta_filter,
              policy           |-> PolicyToJson(c.policy)]

FromJson(json) == [endorsement_mode |-> json.endorsement_mode,
                   keystore         |-> KeyStoreFromJson(json.keystore),
                   delta_filter     |-> json.delta_filter,
                   policy           |-> PolicyFromJson(json.policy)]
=============================================================================
