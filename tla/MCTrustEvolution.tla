-------------------------- MODULE MCTrustEvolution --------------------------
(***************************************************************************)
(* A trust document of two trustees and its successors: 2 takes kc in as a *)
(* third, 3 competes with 2 and has kc as an observer that approves nothing, *)
(* 4 follows on either and leaves ka out.  All exempt the trust anchor, as *)
(* the documents of the example do, and the majorities of any two of them  *)
(* have a key in common.                                                   *)
(***************************************************************************)
EXTENDS TrustEvolution

CONSTANTS ka, kb, kc, trustee, doc, P

MCContent == [v \in Versions |-> {doc}]

MCRevision == [v \in Versions |-> CASE v = 1 -> 1 [] v \in {2, 3} -> 2 [] OTHER -> 3]

TrusteesMay ==
  [effect |-> "Allow", pubkey |-> None, role |-> trustee, objects |-> {doc}]

Governed(trustees, observers, exempt) ==
  [endorsement_mode |-> "Majority",
   keystore         |-> [k \in trustees \cup observers |->
                           IF k \in trustees THEN trustee ELSE None],
   delta_filter     |-> [whitelist |-> exempt, blacklist |-> {}],
   policy           |-> {TrusteesMay}]

AllDocuments ==
  <<Governed({ka, kb}, {}, {}),
    Governed({ka, kb, kc}, {}, {1}),
    Governed({ka, kb}, {kc}, {1}),
    Governed({kb, kc}, {}, {1})>>

MCDocument == [v \in Versions |-> AllDocuments[v]]

(***************************************************************************)
(* ka and kb can ratify 2 or 3, or split their votes, and kc can only side *)
(* with 3; 4 has the supporters it needs under 2, but not under itself,    *)
(* whose trustees do not both endorse 2.                                   *)
(***************************************************************************)
MCWilling ==
  [v \in Versions |-> CASE v \in {1, 2} -> {ka, kb}
                       [] v = 3        -> {ka, kb, kc}
                       [] v = 4        -> {kb, kc}]

\* Where 3 follows on 2, which replaces ka by kc.
MCRevisionChain == [v \in Versions |-> v]

MCDocumentChain == [v \in Versions |-> AllDocuments[IF v = 2 THEN 4 ELSE v]]

\* The old trustees ka and kb endorse every successor, and nobody else does.
MCWillingOld == [v \in Versions |-> {ka, kb}]
=============================================================================
