----------------------------- MODULE Governance -----------------------------
(***************************************************************************)
(* What a trust adapter promises, without storage, records or interleaved  *)
(* operations: approvals are never withdrawn, and a delta is delivered only*)
(* when, under the configuration in force at that instant, it is not       *)
(* blacklisted and is exempt or approved by a quorum of trusted keys each  *)
(* of which the policy lets approve all of it.                             *)
(***************************************************************************)
EXTENDS TrustRules

CONSTANT Adapters

VARIABLES
  config,    \* config[a]: the configuration of adapter a
  approved,  \* <<d, k>>: k has validly endorsed d
  delivered  \* delivered[a]: the delta whose data a holds out, or None

vars == <<config, approved, delivered>>

IsQuorum(c, quorum) ==
  LET trusted == c.keystore.trusted_keys
  IN  CASE c.endorsement_mode = "Permissive" -> TRUE
        [] c.endorsement_mode = "Single"     -> quorum # {}
        [] c.endorsement_mode = "Majority"   ->
             Cardinality(trusted \ quorum) < Cardinality(quorum)
        [] c.endorsement_mode = "Unanimous"  -> quorum = trusted

Visible(c, d) ==
  /\ d \notin c.delta_filter.blacklist
  /\ \/ SkipsEndorsements(c, d)
     \/ \E quorum \in SUBSET c.keystore.trusted_keys :
          /\ IsQuorum(c, quorum)
          /\ \A k \in quorum : <<d, k>> \in approved /\ MayApprove(c, k, d)

Init ==
  /\ config \in [Adapters -> Configuration]
  /\ approved = {}
  /\ delivered = [a \in Adapters |-> None]

Approve(d, k) ==
  /\ approved' = approved \cup {<<d, k>>}
  /\ UNCHANGED <<config, delivered>>

Deliver(a, d) ==
  /\ Visible(config[a], d)
  /\ delivered' = [delivered EXCEPT ![a] = d]
  /\ UNCHANGED <<config, approved>>

Withdraw(a) ==
  /\ delivered' = [delivered EXCEPT ![a] = None]
  /\ UNCHANGED <<config, approved>>

Adopt(a) ==
  /\ config' \in [Adapters -> Configuration]
  /\ \A b \in Adapters \ {a} : config'[b] = config[b]
  /\ delivered' = [delivered EXCEPT ![a] = None]
  /\ UNCHANGED approved

Next ==
  \/ \E d \in Deltas, k \in Keys : Approve(d, k)
  \/ \E a \in Adapters : \/ \E d \in Deltas : Deliver(a, d)
                         \/ Withdraw(a)
                         \/ Adopt(a)

Spec == Init /\ [][Next]_vars
=============================================================================
