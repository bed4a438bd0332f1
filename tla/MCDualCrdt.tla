----------------------------- MODULE MCDualCrdt -----------------------------
(***************************************************************************)
(* Three versions of a document with one trustee.  The first lets A change *)
(* the data, the second B, the third both, and takes back the delta a1 of A; *)
(* B does not check its own writes.  C is trusted but allowed nothing, and *)
(* may endorse what B commits.                                             *)
(***************************************************************************)
EXTENDS DualCrdt

CONSTANTS ka, kb, kc, doc, item, P, A, B, a1, b1

MCContent == [d \in Deltas |-> IF d \in Versions THEN {doc} ELSE {item}]

MCRevision == [v \in Versions |-> v]

Allow(k, id) ==
  [effect |-> "Allow", pubkey |-> k, role |-> None, objects |-> {id}]

Governed(trusted, rules, revoked) ==
  [endorsement_mode |-> "Single",
   keystore         |-> [k \in trusted |-> None],
   delta_filter     |-> [whitelist |-> {}, blacklist |-> revoked],
   policy           |-> rules]

MCDocument == [v \in Versions |-> Governed({ka}, {Allow(ka, doc)}, {})]

MCDataDocument ==
  [v \in Versions |->
     CASE v = 1 -> Governed(Keys, {Allow(ka, item)}, {})
       [] v = 2 -> Governed(Keys, {Allow(kb, item)}, {})
       [] v = 3 -> Governed(Keys, {Allow(ka, item), Allow(kb, item)}, {a1})]

MCWilling == [v \in Versions |-> {ka}]

MCSigningKey == [r \in {A, B} |-> IF r = A THEN ka ELSE kb]

MCAuthor == [d \in DataDeltas |-> IF d = b1 THEN B ELSE A]

MCSupporting == [d \in DataDeltas |-> IF d = b1 THEN {kb, kc} ELSE {ka}]
=============================================================================
