---------------------------- MODULE MCLifecycle -----------------------------
(***************************************************************************)
(* The life of one adapter: it is configured between its operations, saved,*)
(* restarted from the saved document, and its storage fails at times.  Its *)
(* delta changes a protected object, the policy text it loads breaks after *)
(* its first rule, and a key store built elsewhere trusts another key.     *)
(***************************************************************************)
EXTENDS TrustAdapter

CONSTANTS A, ka, kb, owner, doc, log, d1

MCContent == [d \in {d1} |-> {doc, log}]

MCSigningKeys == [a \in {A} |-> {ka}]

AllowAll ==
  [effect |-> "Allow", pubkey |-> None, role |-> None, objects |-> {doc, log}]

DenyLogToA ==
  [effect |-> "Deny", pubkey |-> ka, role |-> None, objects |-> {log}]

MCInitialConfigs == {NewConfiguration("Majority")}

MCKeystoreChoices ==
  {[endorsement_key |-> None,
    trusted_keys    |-> {kb},
    roles           |-> [k \in {ka, kb} |-> IF k = kb THEN owner ELSE None]]}

MCTrustChoices == {<<kb, owner>>}

MCRuleChoices == {DenyLogToA}

MCPolicyTexts == {<<AllowAll, InvalidRule, DenyLogToA>>}
=============================================================================
