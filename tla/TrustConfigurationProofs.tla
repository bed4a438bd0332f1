---------------------- MODULE TrustConfigurationProofs ----------------------
(***************************************************************************)
(* Proofs about TrustConfiguration: the configurations stay well formed with*)
(* roles for trusted keys only, and a reload loses only local state.       *)
(***************************************************************************)
EXTENDS TrustConfiguration, TrustRulesProofs

(***************************************************************************)
(* Trusting a key, with or without a role, keeps roles with trusted keys.  *)
(***************************************************************************)
LEMMA TrustingKeepsRoles ==
  ASSUME NEW ks \in KeyStore, RolesAreTrusted(ks), NEW k \in Keys,
         NEW role \in Roles
  PROVE  /\ AddTrusted(ks, k) \in KeyStore
         /\ RolesAreTrusted(AddTrusted(ks, k))
         /\ AddTrustedWithRole(ks, k, role) \in KeyStore
         /\ RolesAreTrusted(AddTrustedWithRole(ks, k, role))
<1> DEFINE plain == AddTrusted(ks, k)
<1>1. /\ plain \in KeyStore
      /\ plain.roles = ks.roles
      /\ plain.trusted_keys = ks.trusted_keys \cup {k}
  BY DEF AddTrusted, KeyStore
<1>2. RolesAreTrusted(plain)
  BY <1>1 DEF RolesAreTrusted, IsTrusted
<1> DEFINE with_role == AddTrustedWithRole(ks, k, role)
<1>3. with_role = [plain EXCEPT !.roles[k] = role]
  BY DEF AddTrustedWithRole
<1> HIDE DEF plain
<1>4. /\ with_role \in KeyStore
      /\ with_role.trusted_keys = plain.trusted_keys
      /\ \A x \in Keys : x # k => with_role.roles[x] = plain.roles[x]
  BY <1>1, <1>3 DEF KeyStore
<1>5. RolesAreTrusted(with_role)
  BY <1>1, <1>2, <1>4 DEF RolesAreTrusted, IsTrusted
<1>6. QED
  BY <1>1, <1>2, <1>4, <1>5 DEF plain

(***************************************************************************)
(* Setting the credentials, with or without trusting them, does too.       *)
(***************************************************************************)
LEMMA CredentialsKeepRoles ==
  ASSUME NEW ks \in KeyStore, RolesAreTrusted(ks), NEW sk \in Keys,
         NEW pk \in {sk, None}
  PROVE  /\ CredentialsSet(ks, sk, pk) \in KeyStore
         /\ RolesAreTrusted(CredentialsSet(ks, sk, pk))
<1> DEFINE base == IF pk = None THEN ks ELSE AddTrusted(ks, pk)
<1>1. base \in KeyStore /\ RolesAreTrusted(base)
  <2>1. CASE pk = None
    BY <2>1
  <2>2. CASE pk # None
    <3>1. pk \in Keys
      BY <2>2
    <3>2. /\ AddTrusted(ks, pk) \in KeyStore
          /\ RolesAreTrusted(AddTrusted(ks, pk))
      <4>1. AddTrusted(ks, pk) \in KeyStore
        BY <3>1 DEF AddTrusted, KeyStore
      <4>2. /\ AddTrusted(ks, pk).roles = ks.roles
            /\ ks.trusted_keys \subseteq AddTrusted(ks, pk).trusted_keys
        BY <3>1 DEF AddTrusted, KeyStore
      <4>3. QED
        BY <4>1, <4>2 DEF RolesAreTrusted, IsTrusted
    <3>3. QED
      BY <2>2, <3>2
  <2>3. QED
    BY <2>1, <2>2
<1>2. CredentialsSet(ks, sk, pk) = [base EXCEPT !.endorsement_key = sk]
  BY DEF CredentialsSet
<1> HIDE DEF base
<1>3. /\ [base EXCEPT !.endorsement_key = sk] \in KeyStore
      /\ [base EXCEPT !.endorsement_key = sk].roles = base.roles
      /\ [base EXCEPT !.endorsement_key = sk].trusted_keys = base.trusted_keys
  BY <1>1 DEF KeyStore
<1>4. QED
  BY <1>1, <1>2, <1>3 DEF RolesAreTrusted, IsTrusted

(***************************************************************************)
(* What parse_yaml applies of a text are rules.                            *)
(***************************************************************************)
LEMMA AppliedAreRules ==
  ASSUME NEW text \in PolicyText
  PROVE  RulesBeforeError(text) \subseteq Rule
<1>1. SUFFICES ASSUME NEW i \in DOMAIN text,
                      \A m \in 1..i : text[m] # InvalidRule
               PROVE  text[i] \in Rule
  BY DEF RulesBeforeError
<1>2. text[i] \in Rule \cup {InvalidRule} /\ i \in 1..i
  BY DEF PolicyText
<1>3. QED
  BY <1>1, <1>2

(***************************************************************************)
(* Every operation keeps the configuration of its adapter well formed.     *)
(***************************************************************************)
LEMMA InitialConfiguration == ConfigInit => ConfigInv
<1> SUFFICES ASSUME ConfigInit PROVE ConfigInv
  OBVIOUS
<1>1. PICK f \in [Adapters -> InitialConfigs] : config = f
  BY DEF ConfigInit
<1>2. \A a \in Adapters : WellFormed(config[a])
  BY <1>1, ChoicesAssumption DEF WellFormed
<1>3. config \in [Adapters -> Configuration]
  BY <1>1, <1>2 DEF WellFormed
<1>4. QED
  BY <1>2, <1>3 DEF ConfigInv, ConfigTypeOK, ConfigInit, WellFormed

LEMMA OneAdapterChanges ==
  ASSUME ConfigInv, NEW a \in Adapters, NEW c, WellFormed(c),
         config' = [config EXCEPT ![a] = c],
         saved' \in ConfigurationJson \cup {None}
  PROVE  ConfigInv'
<1>1. \A b \in Adapters : config'[b] = IF b = a THEN c ELSE config[b]
  BY DEF ConfigInv, ConfigTypeOK
<1>2. config' \in [Adapters -> Configuration]
  BY <1>1 DEF ConfigInv, ConfigTypeOK, WellFormed
<1>3. \A b \in Adapters : RolesAreTrusted(config'[b].keystore)
  BY <1>1 DEF ConfigInv, WellFormed
<1>4. QED
  BY <1>2, <1>3 DEF ConfigInv, ConfigTypeOK

LEMMA KeystoreChanges ==
  ASSUME ConfigInv, NEW a \in Adapters, NEW ks \in KeyStore, RolesAreTrusted(ks),
         config' = [config EXCEPT ![a].keystore = ks], UNCHANGED saved
  PROVE  ConfigInv'
<1> DEFINE c == [config[a] EXCEPT !.keystore = ks]
<1>1. config[a] \in Configuration
  BY DEF ConfigInv, ConfigTypeOK
<1>2. WellFormed(c)
  BY <1>1 DEF WellFormed, Configuration
<1>3. config' = [config EXCEPT ![a] = c]
  OBVIOUS
<1> HIDE DEF c
<1>4. QED
  BY <1>2, <1>3, OneAdapterChanges DEF ConfigInv, ConfigTypeOK

LEMMA PolicyChanges ==
  ASSUME ConfigInv, NEW a \in Adapters, NEW policy \in PolicyEngine,
         config' = [config EXCEPT ![a].policy = policy], UNCHANGED saved
  PROVE  ConfigInv'
<1> DEFINE c == [config[a] EXCEPT !.policy = policy]
<1>1. config[a] \in Configuration /\ RolesAreTrusted(config[a].keystore)
  BY DEF ConfigInv, ConfigTypeOK
<1>2. c \in Configuration /\ c.keystore = config[a].keystore
  BY <1>1 DEF Configuration
<1>3. WellFormed(c)
  BY <1>1, <1>2 DEF WellFormed
<1>4. config' = [config EXCEPT ![a] = c]
  OBVIOUS
<1> HIDE DEF c
<1>5. QED
  BY <1>3, <1>4, OneAdapterChanges DEF ConfigInv, ConfigTypeOK

LEMMA RulesAddedToPolicy ==
  ASSUME NEW policy \in PolicyEngine, NEW rules \in SUBSET Rule
  PROVE  RulesAdded(policy, rules) \in PolicyEngine
  BY DEF RulesAdded, PolicyEngine

LEMMA ReconfigurePreserves ==
  ASSUME ConfigInv, NEW a \in Adapters, Reconfigure(a)
  PROVE  ConfigInv'
<1> USE DEF ConfigInv, ConfigTypeOK
<1>1. /\ config[a] \in Configuration
      /\ config[a].keystore \in KeyStore
      /\ RolesAreTrusted(config[a].keystore)
      /\ config[a].policy \in PolicyEngine
  BY DEF Configuration
<1>2. CASE \E mode \in ModeChoices : SetEndorsementMode(a, mode)
  <2>1. PICK mode \in EndorsementMode : SetEndorsementMode(a, mode)
    BY <1>2, ChoicesAssumption
  <2> DEFINE c == [config[a] EXCEPT !.endorsement_mode = mode]
  <2>2. c \in Configuration /\ c.keystore = config[a].keystore
    BY <1>1 DEF Configuration
  <2>3. WellFormed(c)
    BY <1>1, <2>2 DEF WellFormed
  <2>4. config' = [config EXCEPT ![a] = c] /\ UNCHANGED saved
    BY <2>1 DEF SetEndorsementMode
  <2> HIDE DEF c
  <2>5. QED
    BY <2>3, <2>4, OneAdapterChanges
<1>3. CASE \E ks \in KeystoreChoices : SetKeystore(a, ks)
  BY <1>3, ChoicesAssumption, KeystoreChanges DEF SetKeystore
<1>4. CASE \E text \in PolicyTexts : SetPolicy(a, text) \/ ParseYaml(a, text)
  <2>1. PICK text \in PolicyText : SetPolicy(a, text) \/ ParseYaml(a, text)
    BY <1>4, ChoicesAssumption
  <2>2. RulesBeforeError(text) \subseteq Rule /\ NewPolicy \in PolicyEngine
    BY AppliedAreRules DEF NewPolicy, PolicyEngine
  <2>3. /\ RulesAdded(NewPolicy, RulesBeforeError(text)) \in PolicyEngine
        /\ RulesAdded(config[a].policy, RulesBeforeError(text)) \in PolicyEngine
    BY <1>1, <2>2, RulesAddedToPolicy
  <2>4. PICK policy \in PolicyEngine :
          config' = [config EXCEPT ![a].policy = policy] /\ UNCHANGED saved
    BY <2>1, <2>3 DEF SetPolicy, ParseYaml
  <2>5. QED
    BY <2>4, PolicyChanges
<1>5. CASE \E choice \in TrustChoices : AddTrustedPublicKey(a, choice[1], choice[2])
  <2>1. PICK k \in Keys, role \in Roles \cup {None} : AddTrustedPublicKey(a, k, role)
    BY <1>5, ChoicesAssumption
  <2> DEFINE ks == IF role = None THEN AddTrusted(config[a].keystore, k)
                                  ELSE AddTrustedWithRole(config[a].keystore, k, role)
  <2>2. ks \in KeyStore /\ RolesAreTrusted(ks)
    <3>1. CASE role # None
      BY <1>1, <3>1, TrustingKeepsRoles
    <3>2. CASE role = None
      <4>1. /\ AddTrusted(config[a].keystore, k) \in KeyStore
            /\ AddTrusted(config[a].keystore, k).roles = config[a].keystore.roles
            /\ config[a].keystore.trusted_keys
                 \subseteq AddTrusted(config[a].keystore, k).trusted_keys
        BY <1>1 DEF AddTrusted, KeyStore
      <4>2. QED
        BY <1>1, <3>2, <4>1 DEF RolesAreTrusted, IsTrusted
    <3>3. QED
      BY <3>1, <3>2
  <2>3. config' = [config EXCEPT ![a].keystore = ks] /\ UNCHANGED saved
    BY <2>1 DEF AddTrustedPublicKey
  <2> HIDE DEF ks
  <2>4. QED
    BY <2>2, <2>3, KeystoreChanges
<1>6. CASE \E sk \in SigningKeys[a], pk \in Keys \cup {None} :
             SetEndorsementCredentials(a, sk, pk)
  <2>1. PICK sk \in Keys, pk \in Keys \cup {None} :
          pk \in {sk, None} /\ SetEndorsementCredentials(a, sk, pk)
    BY <1>6, ChoicesAssumption DEF SetEndorsementCredentials
  <2> DEFINE ks == CredentialsSet(config[a].keystore, sk, pk)
  <2>2. ks \in KeyStore /\ RolesAreTrusted(ks)
    BY <1>1, <2>1, CredentialsKeepRoles
  <2>3. config' = [config EXCEPT ![a].keystore = ks] /\ UNCHANGED saved
    BY <2>1 DEF SetEndorsementCredentials
  <2> HIDE DEF ks
  <2>4. QED
    BY <2>2, <2>3, KeystoreChanges
<1>7. CASE \E sk \in SigningKeys[a], choice \in TrustChoices :
             SetEndorsementCredentialsWithRole(a, sk, choice[2])
  <2>1. PICK sk \in Keys, role \in Roles :
          SetEndorsementCredentialsWithRole(a, sk, role)
    BY <1>7, ChoicesAssumption DEF SetEndorsementCredentialsWithRole
  <2> DEFINE base == CredentialsSet(config[a].keystore, sk, sk)
             ks == AddTrustedWithRole(base, sk, role)
  <2>2. base \in KeyStore /\ RolesAreTrusted(base)
    BY <1>1, CredentialsKeepRoles
  <2> HIDE DEF base
  <2>3. ks \in KeyStore /\ RolesAreTrusted(ks)
    BY <2>2, TrustingKeepsRoles
  <2>4. config' = [config EXCEPT ![a].keystore = ks] /\ UNCHANGED saved
    BY <2>1 DEF SetEndorsementCredentialsWithRole, CredentialsSetWithRole, base
  <2> HIDE DEF ks
  <2>5. QED
    BY <2>3, <2>4, KeystoreChanges
<1>8. CASE \E rule \in RuleChoices : AddRule(a, rule)
  <2>1. PICK rule \in Rule : AddRule(a, rule)
    BY <1>8, ChoicesAssumption
  <2>2. RulesAdded(config[a].policy, {rule}) \in PolicyEngine
    BY <1>1, RulesAddedToPolicy
  <2>3. QED
    BY <2>1, <2>2, PolicyChanges DEF AddRule
<1>9. CASE \E enabled \in StrictChoices : StrictWrite(a, enabled)
  <2>1. PICK enabled \in BOOLEAN : StrictWrite(a, enabled)
    BY <1>9, ChoicesAssumption
  <2> DEFINE policy == [config[a].policy EXCEPT !.strict_write = enabled]
  <2>2. policy \in PolicyEngine
    BY <1>1 DEF PolicyEngine
  <2>3. config' = [config EXCEPT ![a].policy = policy] /\ UNCHANGED saved
    BY <2>1 DEF StrictWrite
  <2> HIDE DEF policy
  <2>4. QED
    BY <2>2, <2>3, PolicyChanges
<1>10. CASE \E d \in FilterChoices : AddDeltaToWhitelist(a, d) \/ AddDeltaToBlacklist(a, d)
  <2>1. PICK d \in Deltas : AddDeltaToWhitelist(a, d) \/ AddDeltaToBlacklist(a, d)
    BY <1>10, ChoicesAssumption
  <2> DEFINE old == config[a].delta_filter
  <2>2. PICK filter :
          /\ \/ filter = [old EXCEPT !.whitelist = old.whitelist \cup {d}]
             \/ filter = [old EXCEPT !.blacklist = old.blacklist \cup {d}]
          /\ config' = [config EXCEPT ![a].delta_filter = filter]
          /\ UNCHANGED saved
    BY <2>1 DEF AddDeltaToWhitelist, AddDeltaToBlacklist
  <2>3. filter \in DeltaFilter
    BY <1>1, <2>2 DEF Configuration, DeltaFilter
  <2> DEFINE c == [config[a] EXCEPT !.delta_filter = filter]
  <2>4. c \in Configuration /\ c.keystore = config[a].keystore
    BY <1>1, <2>3 DEF Configuration
  <2>5. WellFormed(c)
    BY <1>1, <2>4 DEF WellFormed
  <2>6. config' = [config EXCEPT ![a] = c]
    BY <2>2
  <2> HIDE DEF c
  <2>7. QED
    BY <2>2, <2>5, <2>6, OneAdapterChanges
<1>11. CASE SaveJson(a)
  <2>1. saved' \in ConfigurationJson
    BY <1>1, <1>11, DocumentOfConfiguration DEF SaveJson, WellFormed
  <2>2. QED
    BY <1>11, <2>1 DEF SaveJson
<1>12. CASE LoadJson(a)
  <2>1. WellFormed(FromJson(saved))
    BY <1>12, ConfigurationOfDocument DEF LoadJson
  <2>2. QED
    BY <1>12, <2>1, OneAdapterChanges DEF LoadJson
<1>13. QED
  BY <1>2, <1>3, <1>4, <1>5, <1>6, <1>7, <1>8, <1>9, <1>10, <1>11, <1>12
     DEF Reconfigure

(***************************************************************************)
(* An operation changes its own adapter's configuration only, and leaves it*)
(* with a signing key that is at hand there, or none.                      *)
(***************************************************************************)
LEMMA ReconfigureIsLocal ==
  ASSUME ConfigInv, NEW a \in Adapters, HoldsOwnKey(a), Reconfigure(a)
  PROVE  /\ \A b \in Adapters \ {a} : config'[b] = config[b]
         /\ HoldsOwnKey(a)'
<1>1. /\ config \in [Adapters -> Configuration]
      /\ config[a] \in Configuration
      /\ config[a].keystore \in KeyStore
  BY DEF ConfigInv, ConfigTypeOK, Configuration
<1>2. CASE \E mode \in ModeChoices : SetEndorsementMode(a, mode)
  BY <1>1, <1>2 DEF SetEndorsementMode, HoldsOwnKey, Configuration
<1>3. CASE \E ks \in KeystoreChoices : SetKeystore(a, ks)
  BY <1>1, <1>3 DEF SetKeystore, HoldsOwnKey, Configuration
<1>4. CASE \E text \in PolicyTexts : SetPolicy(a, text) \/ ParseYaml(a, text)
  BY <1>1, <1>4 DEF SetPolicy, ParseYaml, HoldsOwnKey, Configuration
<1>5. CASE \E choice \in TrustChoices : AddTrustedPublicKey(a, choice[1], choice[2])
  BY <1>1, <1>5
     DEF AddTrustedPublicKey, AddTrusted, AddTrustedWithRole, HoldsOwnKey,
         Configuration, KeyStore
<1>6. CASE \E sk \in SigningKeys[a], pk \in Keys \cup {None} :
             SetEndorsementCredentials(a, sk, pk)
  BY <1>1, <1>6
     DEF SetEndorsementCredentials, CredentialsSet, AddTrusted, HoldsOwnKey,
         Configuration, KeyStore
<1>7. CASE \E sk \in SigningKeys[a], choice \in TrustChoices :
             SetEndorsementCredentialsWithRole(a, sk, choice[2])
  BY <1>1, <1>7
     DEF SetEndorsementCredentialsWithRole, CredentialsSetWithRole, CredentialsSet,
         AddTrusted, AddTrustedWithRole, HoldsOwnKey, Configuration, KeyStore
<1>8. CASE \/ \E rule \in RuleChoices : AddRule(a, rule)
           \/ \E enabled \in StrictChoices : StrictWrite(a, enabled)
  BY <1>1, <1>8 DEF AddRule, StrictWrite, HoldsOwnKey, Configuration
<1>9. CASE \E d \in FilterChoices : AddDeltaToWhitelist(a, d) \/ AddDeltaToBlacklist(a, d)
  BY <1>1, <1>9 DEF AddDeltaToWhitelist, AddDeltaToBlacklist, HoldsOwnKey, Configuration
<1>10. CASE SaveJson(a)
  BY <1>10 DEF SaveJson, HoldsOwnKey
<1>11. CASE LoadJson(a)
  <2>1. FromJson(saved).keystore.endorsement_key = None
    BY <1>11, ConfigurationOfDocument DEF LoadJson, ConfigInv, ConfigTypeOK
  <2>2. QED
    BY <1>1, <1>11, <2>1 DEF LoadJson, HoldsOwnKey
<1>12. QED
  BY <1>2, <1>3, <1>4, <1>5, <1>6, <1>7, <1>8, <1>9, <1>10, <1>11 DEF Reconfigure

(***************************************************************************)
(* The configurations stay well formed, with roles for trusted keys only.  *)
(***************************************************************************)
THEOREM ConfigInvariant == ConfigSpec => []ConfigInv
<1>1. ConfigInit => ConfigInv
  BY InitialConfiguration
<1>2. ConfigInv /\ [ConfigNext]_configVars => ConfigInv'
  <2> SUFFICES ASSUME ConfigInv, [ConfigNext]_configVars PROVE ConfigInv'
    OBVIOUS
  <2>1. CASE ConfigNext
    BY <2>1, ReconfigurePreserves DEF ConfigNext
  <2>2. CASE UNCHANGED configVars
    BY <2>2 DEF configVars, ConfigInv, ConfigTypeOK
  <2>3. QED
    BY <2>1, <2>2
<1>3. QED
  BY <1>1, <1>2, PTL DEF ConfigSpec

(***************************************************************************)
(* A well-formed configuration written to a document and read again differs*)
(* from itself in the endorsement key and strict_write only.               *)
(***************************************************************************)
LEMMA ReloadOfConfiguration ==
  ASSUME NEW c, WellFormed(c)
  PROVE  FromJson(ToJson(c)) = [c EXCEPT !.keystore.endorsement_key = None,
                                         !.policy.strict_write = TRUE]
<1> DEFINE ks == KeyStoreFromJson(KeyStoreToJson(c.keystore))
           policy == PolicyFromJson(PolicyToJson(c.policy))
<1>1. c.keystore \in KeyStore /\ c.policy \in PolicyEngine /\ c \in Configuration
  BY DEF WellFormed, Configuration
<1>2. ks = [c.keystore EXCEPT !.endorsement_key = None]
  <2>1. DOMAIN KeyStoreToJson(c.keystore) = c.keystore.trusted_keys
    BY DEF KeyStoreToJson
  <2>2. ks.roles = c.keystore.roles
    <3>1. \A k \in Keys : ks.roles[k] = c.keystore.roles[k]
      BY <2>1 DEF KeyStoreFromJson, KeyStoreToJson, WellFormed, RolesAreTrusted, IsTrusted
    <3>2. QED
      BY <1>1, <3>1 DEF KeyStoreFromJson, KeyStore
  <2>3. QED
    BY <1>1, <2>1, <2>2 DEF KeyStoreFromJson, KeyStore
<1>3. policy = [c.policy EXCEPT !.strict_write = TRUE]
  <2> DEFINE new == [c.policy EXCEPT !.strict_write = TRUE]
  <2>1. /\ new \in PolicyEngine
        /\ new.rules = c.policy.rules /\ new.strict_write = TRUE
    BY <1>1 DEF PolicyEngine
  <2>2. NewPolicy \in PolicyEngine /\ NewPolicy.rules = {} /\ NewPolicy.strict_write
    BY DEF NewPolicy, PolicyEngine
  <2>3. /\ policy \in PolicyEngine
        /\ policy.rules = c.policy.rules /\ policy.strict_write = TRUE
    BY <1>1, <2>2 DEF PolicyFromJson, PolicyToJson, RulesAdded, PolicyEngine
  <2> HIDE DEF policy, new
  <2>4. policy = new
    BY <2>1, <2>3 DEF PolicyEngine
  <2>5. QED
    BY <2>4 DEF new
<1> DEFINE new == [c EXCEPT !.keystore.endorsement_key = None,
                            !.policy.strict_write = TRUE]
<1>4. /\ FromJson(ToJson(c)).endorsement_mode = c.endorsement_mode
      /\ FromJson(ToJson(c)).delta_filter = c.delta_filter
      /\ FromJson(ToJson(c)).keystore = ks
      /\ FromJson(ToJson(c)).policy = policy
      /\ FromJson(ToJson(c)) \in Configuration
  BY DocumentOfConfiguration, ConfigurationOfDocument DEF FromJson, ToJson, WellFormed
<1> HIDE DEF ks, policy
<1>5. /\ new.endorsement_mode = c.endorsement_mode
      /\ new.delta_filter = c.delta_filter
      /\ new.keystore = ks
      /\ new.policy = policy
      /\ new \in Configuration
  <2>1. ks \in KeyStore /\ policy \in PolicyEngine
    BY <1>1, <1>2, <1>3 DEF KeyStore, PolicyEngine
  <2>2. QED
    BY <1>1, <1>2, <1>3, <2>1 DEF Configuration
<1> HIDE DEF new
<1>6. FromJson(ToJson(c)) = new
  BY <1>4, <1>5 DEF Configuration
<1>7. QED
  BY <1>6 DEF new

(***************************************************************************)
(* So does every configuration that the operations can produce: a restart  *)
(* from the saved document forgets no trusted key, role, rule or filter.   *)
(***************************************************************************)
THEOREM ReloadIsFaithful == ConfigSpec => []ReloadLosesOnlyLocalState
<1>1. ConfigInv => ReloadLosesOnlyLocalState
  BY ReloadOfConfiguration
     DEF ConfigInv, ConfigTypeOK, WellFormed, ReloadLosesOnlyLocalState
<1>2. QED
  BY <1>1, ConfigInvariant, PTL
=============================================================================
