---------------------------- MODULE MCCompletion ----------------------------
(***************************************************************************)
(* Progress: A and B endorse and read one delta that needs both of them, and *)
(* writes may be torn.  The record of kc, which is not trusted, also arrives.*)
(***************************************************************************)
EXTENDS TrustAdapter

CONSTANTS A, B, ka, kb, kc, doc, d1

MCContent == [d \in {d1} |-> {doc}]

MCSigningKeys == [a \in {A, B} |-> IF a = A THEN {ka} ELSE {kb}]

AllowAll ==
  [effect |-> "Allow", pubkey |-> None, role |-> None, objects |-> {doc}]

MCInitialConfigs ==
  {[NewConfiguration("Majority") EXCEPT
      !.keystore = [endorsement_key |-> sk, trusted_keys |-> {ka, kb},
                    roles |-> [k \in {ka, kb, kc} |-> None]],
      !.policy.rules = {AllowAll}] : sk \in {ka, kb}}
=============================================================================
