-------------------------- MODULE TrustRulesProofs --------------------------
(***************************************************************************)
(* Lemmas about the decisions of an adapter and about trust documents, for *)
(* every configuration: what the proofs about the state machines rest on.  *)
(***************************************************************************)
EXTENDS TrustRules, FiniteSetTheorems, TLAPS

WellFormed(c) == c \in Configuration /\ RolesAreTrusted(c.keystore)

(***************************************************************************)
(* A document can be written of every well-formed configuration, and every *)
(* document gives a well-formed configuration.                             *)
(***************************************************************************)
LEMMA DocumentOfConfiguration ==
  ASSUME NEW c, WellFormed(c)
  PROVE  ToJson(c) \in ConfigurationJson
<1>1. KeyStoreToJson(c.keystore) \in KeyStoreJson
  <2> DEFINE trusted == c.keystore.trusted_keys
  <2>1. trusted \in SUBSET Keys
    BY DEF WellFormed, Configuration, KeyStore
  <2>2. \A k \in trusted : c.keystore.roles[k] \in Roles \cup {None}
    BY <2>1 DEF WellFormed, Configuration, KeyStore
  <2>3. KeyStoreToJson(c.keystore) \in [trusted -> Roles \cup {None}]
    BY <2>2 DEF KeyStoreToJson
  <2>4. QED
    BY <2>1, <2>3 DEF KeyStoreJson
<1>2. QED
  BY <1>1 DEF WellFormed, Configuration, ConfigurationJson, ToJson,
              PolicyToJson, PolicyEngine

LEMMA ConfigurationOfDocument ==
  ASSUME NEW json \in ConfigurationJson
  PROVE  /\ WellFormed(FromJson(json))
         /\ FromJson(json).keystore.endorsement_key = None
<1>1. PICK trusted \in SUBSET Keys :
        json.keystore \in [trusted -> Roles \cup {None}]
  BY DEF ConfigurationJson, KeyStoreJson
<1> DEFINE ks == KeyStoreFromJson(json.keystore)
<1>2. /\ ks.endorsement_key = None
      /\ ks.trusted_keys = trusted
      /\ \A k \in Keys : ks.roles[k] = IF k \in trusted THEN json.keystore[k] ELSE None
  BY <1>1 DEF KeyStoreFromJson
<1>3. ks \in KeyStore
  BY <1>1 DEF KeyStoreFromJson, KeyStore
<1>4. RolesAreTrusted(ks)
  BY <1>2 DEF RolesAreTrusted, IsTrusted
<1>5. PolicyFromJson(json.policy) \in PolicyEngine
  BY DEF ConfigurationJson, PolicyFromJson, RulesAdded, NewPolicy, PolicyEngine
<1>6. /\ FromJson(json).keystore = ks
      /\ FromJson(json) \in Configuration
  BY <1>3, <1>5 DEF FromJson, Configuration, ConfigurationJson
<1>7. QED
  BY <1>2, <1>4, <1>6 DEF WellFormed

(***************************************************************************)
(* A document gives back the decisive parts of the configuration it was    *)
(* written of.                                                             *)
(***************************************************************************)
LEMMA DocumentKeepsTrust ==
  ASSUME NEW c, WellFormed(c)
  PROVE  FromJson(ToJson(c)).keystore.trusted_keys = c.keystore.trusted_keys
<1>1. DOMAIN KeyStoreToJson(c.keystore) = c.keystore.trusted_keys
  BY DEF KeyStoreToJson
<1>2. QED
  BY <1>1 DEF FromJson, ToJson, KeyStoreFromJson

(***************************************************************************)
(* Two configurations with the same decisive parts show the same deltas.   *)
(***************************************************************************)
LEMMA DecisiveParts ==
  ASSUME NEW c1, NEW c2, NEW d, NEW signers,
         c1.endorsement_mode = c2.endorsement_mode,
         c1.delta_filter = c2.delta_filter,
         c1.policy.rules = c2.policy.rules,
         c1.keystore.trusted_keys = c2.keystore.trusted_keys,
         c1.keystore.roles = c2.keystore.roles
  PROVE  Shows(c1, d, signers) <=> Shows(c2, d, signers)
<1>1. ASSUME NEW k PROVE MayApprove(c1, k, d) <=> MayApprove(c2, k, d)
  BY DEF MayApprove, Allows, MatchRule
<1>2. ASSUME NEW valid
      PROVE  AllowedEndorsers(c1, d, valid) = AllowedEndorsers(c2, d, valid)
  BY <1>1 DEF AllowedEndorsers
<1>3. ASSUME NEW valid
      PROVE  EnoughEndorsers(c1, d, valid) <=> EnoughEndorsers(c2, d, valid)
  BY <1>2 DEF EnoughEndorsers
<1>4. QED
  BY <1>3 DEF Shows, IsBlacklisted, SkipsEndorsements

(***************************************************************************)
(* A set of trusted keys is finite, and so are the ones in it that are valid *)
(* or allowed endorsers.                                                   *)
(***************************************************************************)
LEMMA TrustedIsFinite ==
  ASSUME NEW c \in Configuration, NEW ks \in SUBSET c.keystore.trusted_keys
  PROVE  /\ IsFiniteSet(c.keystore.trusted_keys)
         /\ IsFiniteSet(ks)
         /\ Cardinality(c.keystore.trusted_keys) \in Nat
         /\ Cardinality(ks) \in Nat
         /\ Cardinality(ks) <= Cardinality(c.keystore.trusted_keys)
         /\ Cardinality(ks) = Cardinality(c.keystore.trusted_keys)
              => ks = c.keystore.trusted_keys
<1>1. c.keystore.trusted_keys \in SUBSET Keys
  BY DEF Configuration, KeyStore
<1>2. IsFiniteSet(c.keystore.trusted_keys)
  BY <1>1, KeysAssumption, FS_Subset
<1>3. /\ IsFiniteSet(ks)
      /\ Cardinality(ks) <= Cardinality(c.keystore.trusted_keys)
      /\ Cardinality(ks) = Cardinality(c.keystore.trusted_keys)
           => ks = c.keystore.trusted_keys
  BY <1>2, FS_Subset
<1>4. QED
  BY <1>2, <1>3, FS_CardinalityType

(***************************************************************************)
(* The counts the code compares are a quorum: a majority outnumbers the    *)
(* others, and all trusted keys are counted only if each of them is there. *)
(***************************************************************************)
LEMMA CountsAreQuorums ==
  ASSUME NEW c \in Configuration, NEW ks \in SUBSET c.keystore.trusted_keys,
         Enough(c.endorsement_mode, Cardinality(ks),
                Cardinality(c.keystore.trusted_keys))
  PROVE  /\ c.endorsement_mode = "Single" => ks # {}
         /\ c.endorsement_mode = "Majority" =>
              Cardinality(c.keystore.trusted_keys \ ks) < Cardinality(ks)
         /\ c.endorsement_mode = "Unanimous" => ks = c.keystore.trusted_keys
<1> DEFINE trusted == c.keystore.trusted_keys
<1>1. /\ IsFiniteSet(trusted) /\ IsFiniteSet(ks)
      /\ Cardinality(trusted) \in Nat /\ Cardinality(ks) \in Nat
      /\ Cardinality(ks) = Cardinality(trusted) => ks = trusted
  BY TrustedIsFinite
<1>2. c.endorsement_mode = "Single" => ks # {}
  <2>1. c.endorsement_mode = "Single" => Cardinality(ks) > 0
    BY DEF Enough
  <2>2. QED
    BY <1>1, <2>1, FS_EmptySet
<1>3. c.endorsement_mode = "Majority" => Cardinality(trusted \ ks) < Cardinality(ks)
  <2>1. Cardinality(trusted \ ks) = Cardinality(trusted) - Cardinality(trusted \cap ks)
    BY <1>1, FS_Difference
  <2>2. trusted \cap ks = ks
    OBVIOUS
  <2>3. c.endorsement_mode = "Majority" => Cardinality(ks) * 2 > Cardinality(trusted)
    BY DEF Enough
  <2> DEFINE n == Cardinality(ks)
             t == Cardinality(trusted)
  <2>4. n \in Nat /\ t \in Nat /\ Cardinality(trusted \ ks) = t - n
    BY <1>1, <2>1, <2>2
  <2> HIDE DEF n, t
  <2>5. n * 2 > t => t - n < n
    BY <2>4
  <2>6. QED
    BY <2>3, <2>4, <2>5 DEF n, t
<1>4. c.endorsement_mode = "Unanimous" => ks = trusted
  BY <1>1 DEF Enough
<1>5. QED
  BY <1>2, <1>3, <1>4

(***************************************************************************)
(* More trusted endorsers are still enough; Unanimous, an equality, cannot *)
(* be overshot because only trusted keys are counted.                      *)
(***************************************************************************)
LEMMA MoreIsEnough ==
  ASSUME NEW c \in Configuration,
         NEW more \in SUBSET c.keystore.trusted_keys, NEW ks \in SUBSET more,
         Enough(c.endorsement_mode, Cardinality(ks),
                Cardinality(c.keystore.trusted_keys))
  PROVE  Enough(c.endorsement_mode, Cardinality(more),
                Cardinality(c.keystore.trusted_keys))
<1> DEFINE n == Cardinality(ks)
           m == Cardinality(more)
           t == Cardinality(c.keystore.trusted_keys)
<1>1. IsFiniteSet(more) /\ n \in Nat /\ m \in Nat /\ t \in Nat /\ m <= t
  BY TrustedIsFinite
<1>2. n <= m
  BY <1>1, FS_Subset
<1> HIDE DEF n, m, t
<1>3. Enough(c.endorsement_mode, n, t)
  BY DEF n, t
<1>4. Enough(c.endorsement_mode, m, t)
  BY <1>1, <1>2, <1>3 DEF Enough
<1>5. QED
  BY <1>4 DEF m, t

LEMMA MoreEndorsersAreEnough ==
  ASSUME NEW c \in Configuration, NEW d,
         NEW more \in SUBSET c.keystore.trusted_keys, NEW valid \in SUBSET more,
         EnoughEndorsers(c, d, valid)
  PROVE  EnoughEndorsers(c, d, more)
<1>1. AllowedEndorsers(c, d, valid) \subseteq AllowedEndorsers(c, d, more)
      /\ AllowedEndorsers(c, d, more) \subseteq c.keystore.trusted_keys
  BY DEF AllowedEndorsers
<1>2. QED
  BY <1>1, MoreIsEnough DEF EnoughEndorsers

(***************************************************************************)
(* More endorsements never hide a delta, whoever they are from.            *)
(***************************************************************************)
LEMMA MoreSignersShow ==
  ASSUME NEW c \in Configuration, NEW d, NEW more, NEW signers \in SUBSET more,
         Shows(c, d, signers)
  PROVE  Shows(c, d, more)
<1> DEFINE trusted == c.keystore.trusted_keys
<1>1. CASE SkipsEndorsements(c, d)
  BY <1>1 DEF Shows
<1>2. CASE EnoughEndorsers(c, d, signers \cap trusted)
  <2>1. EnoughEndorsers(c, d, more \cap trusted)
    BY <1>2, MoreEndorsersAreEnough
  <2>2. QED
    BY <2>1 DEF Shows
<1>3. QED
  BY <1>1, <1>2 DEF Shows
=============================================================================
