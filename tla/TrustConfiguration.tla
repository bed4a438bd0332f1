------------------------- MODULE TrustConfiguration -------------------------
(***************************************************************************)
(* How the trust configurations of a set of adapters come about            *)
(* (src/src/trustadapter.rs, src/src/keystore.rs, src/src/deltafilter.rs,  *)
(* src/src/policy): every operation that changes one, and the document it  *)
(* is saved to and loaded from.  The document is shared: a Trust CRDT hands*)
(* the same one to every participant.  An operation that fails without     *)
(* changing anything is not a step.                                        *)
(***************************************************************************)
EXTENDS TrustRules

CONSTANTS
  Adapters,         \* the adapters, one per participant
  InitialConfigs,   \* configurations an application may construct
  SigningKeys,      \* SigningKeys[a]: private keys at hand where a runs
  ModeChoices,      \* arguments of set_endorsement_mode
  KeystoreChoices,  \* arguments of set_keystore
  TrustChoices,     \* <<key, role>> arguments, None for no role
  RuleChoices,      \* arguments of add_rule
  PolicyTexts,      \* arguments of from_yaml and parse_yaml
  StrictChoices,    \* arguments of strict_write
  FilterChoices     \* deltas whitelisted or blacklisted

ASSUME ChoicesAssumption ==
  /\ \A c \in InitialConfigs : c \in Configuration /\ RolesAreTrusted(c.keystore)
  /\ SigningKeys \in [Adapters -> SUBSET Keys]
  /\ ModeChoices \subseteq EndorsementMode
  /\ \A ks \in KeystoreChoices : ks \in KeyStore /\ RolesAreTrusted(ks)
  /\ TrustChoices \subseteq Keys \X (Roles \cup {None})
  /\ RuleChoices \subseteq Rule
  /\ PolicyTexts \subseteq PolicyText
  /\ StrictChoices \subseteq BOOLEAN
  /\ FilterChoices \subseteq Deltas

VARIABLES
  config,  \* config[a]: the configuration of adapter a
  saved    \* the document last written by to_json, or None

configVars == <<config, saved>>

\* A configuration as the application of a may set it up.
Constructible(a) == {c \in InitialConfigs :
                       c.keystore.endorsement_key \in SigningKeys[a] \cup {None}}

ConfigTypeOK ==
  /\ config \in [Adapters -> Configuration]
  /\ saved \in ConfigurationJson \cup {None}

ConfigInit ==
  /\ config \in {f \in [Adapters -> InitialConfigs] :
                   \A a \in Adapters : f[a] \in Constructible(a)}
  /\ saved = None
-----------------------------------------------------------------------------
SetEndorsementMode(a, mode) ==
  /\ config' = [config EXCEPT ![a].endorsement_mode = mode]
  /\ UNCHANGED saved

SetKeystore(a, ks) ==
  /\ ks.endorsement_key \in SigningKeys[a] \cup {None}
  /\ config' = [config EXCEPT ![a].keystore = ks]
  /\ UNCHANGED saved

\* from_yaml builds a policy from a wholly valid text or fails.
SetPolicy(a, text) ==
  /\ IsValidText(text)
  /\ config' = [config EXCEPT
                  ![a].policy = RulesAdded(NewPolicy, RulesBeforeError(text))]
  /\ UNCHANGED saved

AddTrustedPublicKey(a, k, role) ==
  /\ config' = [config EXCEPT ![a].keystore =
                  IF role = None THEN AddTrusted(@, k)
                                 ELSE AddTrustedWithRole(@, k, role)]
  /\ UNCHANGED saved

SetEndorsementCredentials(a, sk, pk) ==
  /\ sk \in SigningKeys[a]
  /\ pk \in {sk, None}
  /\ config' = [config EXCEPT ![a].keystore = CredentialsSet(@, sk, pk)]
  /\ UNCHANGED saved

SetEndorsementCredentialsWithRole(a, sk, role) ==
  /\ sk \in SigningKeys[a]
  /\ role # None
  /\ config' = [config EXCEPT
                  ![a].keystore = CredentialsSetWithRole(@, sk, sk, role)]
  /\ UNCHANGED saved

AddRule(a, rule) ==
  /\ config' = [config EXCEPT ![a].policy = RulesAdded(@, {rule})]
  /\ UNCHANGED saved

\* parse_yaml keeps the rules before the first invalid one, then fails.
ParseYaml(a, text) ==
  /\ config' = [config EXCEPT ![a].policy = RulesAdded(@, RulesBeforeError(text))]
  /\ UNCHANGED saved

StrictWrite(a, enabled) ==
  /\ config' = [config EXCEPT ![a].policy.strict_write = enabled]
  /\ UNCHANGED saved

AddDeltaToWhitelist(a, d) ==
  /\ config' = [config EXCEPT ![a].delta_filter.whitelist = @ \cup {d}]
  /\ UNCHANGED saved

AddDeltaToBlacklist(a, d) ==
  /\ config' = [config EXCEPT ![a].delta_filter.blacklist = @ \cup {d}]
  /\ UNCHANGED saved

SaveJson(a) ==
  /\ saved' = ToJson(config[a])
  /\ UNCHANGED config

LoadJson(a) ==
  /\ saved # None
  /\ config' = [config EXCEPT ![a] = FromJson(saved)]
  /\ UNCHANGED saved

Reconfigure(a) ==
  \/ \E mode \in ModeChoices : SetEndorsementMode(a, mode)
  \/ \E ks \in KeystoreChoices : SetKeystore(a, ks)
  \/ \E text \in PolicyTexts : SetPolicy(a, text) \/ ParseYaml(a, text)
  \/ \E choice \in TrustChoices : AddTrustedPublicKey(a, choice[1], choice[2])
  \/ \E sk \in SigningKeys[a], pk \in Keys \cup {None} :
        SetEndorsementCredentials(a, sk, pk)
  \/ \E sk \in SigningKeys[a], choice \in TrustChoices :
        SetEndorsementCredentialsWithRole(a, sk, choice[2])
  \/ \E rule \in RuleChoices : AddRule(a, rule)
  \/ \E enabled \in StrictChoices : StrictWrite(a, enabled)
  \/ \E d \in FilterChoices : AddDeltaToWhitelist(a, d) \/ AddDeltaToBlacklist(a, d)
  \/ SaveJson(a)
  \/ LoadJson(a)

ConfigNext == \E a \in Adapters : Reconfigure(a)

ConfigSpec == ConfigInit /\ [][ConfigNext]_configVars
-----------------------------------------------------------------------------
(***************************************************************************)
(* Saving a configuration and loading it again loses what is local to the  *)
(* process (the endorsement key and the strict_write flag) and nothing     *)
(* else: no trusted key, role, rule or filter entry.  It needs every role  *)
(* to belong to a trusted key, because to_json walks the trusted keys      *)
(* (keystore.rs 151-168).                                                  *)
(***************************************************************************)
ReloadLosesOnlyLocalState ==
  \A a \in Adapters :
    FromJson(ToJson(config[a])) =
      [config[a] EXCEPT !.keystore.endorsement_key = None,
                        !.policy.strict_write = TRUE]

\* The signing key is one that is at hand where the adapter runs.
HoldsOwnKey(a) ==
  config[a].keystore.endorsement_key \in SigningKeys[a] \cup {None}

(***************************************************************************)
(* What the operations preserve together: well-formed configurations and   *)
(* roles for trusted keys only.                                            *)
(***************************************************************************)
ConfigInv ==
  /\ ConfigTypeOK
  /\ \A a \in Adapters : RolesAreTrusted(config[a].keystore)
=============================================================================
