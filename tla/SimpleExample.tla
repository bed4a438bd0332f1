---------------------------- MODULE SimpleExample ----------------------------
(***************************************************************************)
(* The participants of src/examples/simple.rs and their adapters: Alice owns *)
(* the document, Bob is an editor, and Joe admits everything and trusts    *)
(* himself.  What each of them does is left to Replication.                *)
(***************************************************************************)
EXTENDS Replication

CONSTANTS alice, bob, joe,  \* the three, and their keys
          owner, editor,    \* roles
          items, alice_todo, bob_todo, joe_todo,  \* objects
          alice_1, alice_2, bob_1, joe_1,         \* the commits
          Strict            \* whether Alice and Bob check what they write

Allow(role, objects) ==
  [effect |-> "Allow", pubkey |-> None, role |-> role, objects |-> objects]

policy_yaml ==
  {Allow(owner, ObjectIds), Allow(editor, {items}), Allow(editor, {bob_todo})}

allow_all == {Allow(None, ObjectIds)}

\* new_single, the policy, the credentials and the two roles.
Secure(key, rules) ==
  LET ks == CredentialsSet(NewKeyStore, key, key)
  IN  [NewConfiguration("Single") EXCEPT
        !.keystore = AddTrustedWithRole(AddTrustedWithRole(ks, alice, owner), bob, editor),
        !.policy = RulesAdded(@, rules)]

secure_alice == [Secure(alice, policy_yaml) EXCEPT !.policy.strict_write = Strict]

secure_bob == [Secure(bob, policy_yaml) EXCEPT !.policy.strict_write = Strict]

secure_joe == Secure(joe, allow_all)

\* Values for the constants of Replication.
ExampleSetup == [n \in Nodes |-> CASE n = alice -> secure_alice
                                   [] n = bob   -> secure_bob
                                   [] n = joe   -> secure_joe]

\* The objects each commit creates or changes.
ExampleContent ==
  [d \in Deltas |-> CASE d = alice_1 -> {items}
                      [] d = alice_2 -> {items, alice_todo}
                      [] d = bob_1   -> {items, bob_todo}
                      [] d = joe_1   -> {items, joe_todo}]

ExampleAuthor == [d \in Deltas |-> CASE d \in {alice_1, alice_2} -> alice
                                     [] d = bob_1 -> bob
                                     [] d = joe_1 -> joe]

ExampleCopies == {<<alice, bob>>, <<alice, joe>>}

ExampleEndorses == [n \in Nodes |-> {d \in Deltas : ExampleAuthor[d] = n}]
=============================================================================
