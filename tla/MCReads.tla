------------------------------ MODULE MCReads -------------------------------
(***************************************************************************)
(* Interleavings: two adapters with fixed configurations, one delta, torn  *)
(* writes and records that arrive damaged.  A signs with ka, B with kb; the*)
(* records of kc come from a third participant.  Single and Unanimous trust*)
(* the owners ka and kb only, Majority trusts kc too but does not let it   *)
(* approve; Permissive is the adapter endorse_data_delta signs through.    *)
(***************************************************************************)
EXTENDS TrustAdapter

CONSTANTS A, B, ka, kb, kc, owner, doc, d1

MCKeys == {ka, kb, kc}

MCContent == [d \in {d1} |-> {doc}]

MCSigningKeys == [a \in {A, B} |-> IF a = A THEN {ka} ELSE {kb}]

OwnersOnly ==
  [effect |-> "Allow", pubkey |-> None, role |-> owner, objects |-> {doc}]

\* kc, where it is trusted, may not approve anything unless an owner.
Trusting(mode, sk, rolesOf) ==
  [NewConfiguration(mode) EXCEPT
     !.keystore = [endorsement_key |-> sk,
                   trusted_keys    |-> DOMAIN rolesOf,
                   roles |-> [k \in MCKeys |-> IF k \in DOMAIN rolesOf
                                               THEN rolesOf[k] ELSE None]],
     !.policy.rules = {OwnersOnly}]

MCInitialConfigs ==
  UNION {{Trusting("Single", sk, [k \in {ka, kb} |-> owner]),
          Trusting("Unanimous", sk, [k \in {ka, kb} |-> owner]),
          Trusting("Majority", sk, [k \in MCKeys |-> IF k = kc THEN None ELSE owner]),
          Trusting("Permissive", sk, [k \in {sk} |-> None])}
           : sk \in {ka, kb}}

MCArrivals == {"valid", "mismatched", "undecodable"}

MCRemoteKeys == {kc}
=============================================================================
