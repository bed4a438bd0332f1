---------------------------- MODULE PolicyEngine ----------------------------
(***************************************************************************)
(* The policy engine (src/src/policy): allow and deny rules that match a   *)
(* key, a role and a pattern of object ids.  The engine asks of its rules  *)
(* only which of them match, never in which order they stand, so a policy  *)
(* keeps the set of its rules; the order of a policy text matters when a   *)
(* rule in it is invalid (RulesBeforeError).  A glob pattern is the set of *)
(* object ids it matches.                                                  *)
(***************************************************************************)
EXTENDS KeyStore, Naturals, Sequences

CONSTANTS
  ObjectIds,    \* ids of the objects of a document
  InvalidRule   \* a rule whose key is not base64 or whose glob is malformed

Rule == [effect  : {"Allow", "Deny"},
         pubkey  : Keys \cup {None},
         role    : Roles \cup {None},
         objects : SUBSET ObjectIds]

ASSUME InvalidRuleAssumption == InvalidRule \notin Rule

PolicyEngine == [rules : SUBSET Rule, strict_write : BOOLEAN]

NewPolicy == [rules |-> {}, strict_write |-> TRUE]

MatchRule(rule, ks, k, id) ==
  /\ rule.pubkey # None => rule.pubkey = k
  /\ rule.role # None => ks.roles[k] = rule.role
  /\ id \in rule.objects

\* Any matching deny rule refuses, otherwise some allow rule must match.
Allows(policy, ks, k, id) ==
  /\ ~ \E rule \in policy.rules :
          rule.effect = "Deny" /\ MatchRule(rule, ks, k, id)
  /\ \E rule \in policy.rules :
          rule.effect = "Allow" /\ MatchRule(rule, ks, k, id)

RulesAdded(policy, rules) == [policy EXCEPT !.rules = @ \cup rules]

\* A policy text is a sequence of rules, loaded up to the first invalid one.
PolicyText == Seq(Rule \cup {InvalidRule})

RulesBeforeError(text) ==
  {text[i] : i \in {n \in DOMAIN text :
                      \A m \in 1..n : text[m] # InvalidRule}}

IsValidText(text) == \A i \in DOMAIN text : text[i] # InvalidRule

\* The JSON form is the list of rules; strict_write is not part of it.
PolicyToJson(policy) == policy.rules

PolicyFromJson(json) == RulesAdded(NewPolicy, json)
=============================================================================
