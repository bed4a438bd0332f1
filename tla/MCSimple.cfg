CONSTANTS
  alice = alice
  bob = bob
  joe = joe
  owner = owner
  editor = editor
  items = items
  alice_todo = alice_todo
  bob_todo = bob_todo
  joe_todo = joe_todo
  alice_1 = alice_1
  alice_2 = alice_2
  bob_1 = bob_1
  joe_1 = joe_1
  Strict = TRUE
  None = None
  InvalidRule = InvalidRule
  Unparsable = Unparsable
  Keys = {alice, bob, joe}
  Roles = {owner, editor}
  ObjectIds = {items, alice_todo, bob_todo, joe_todo}
  Deltas = {alice_2, bob_1, joe_1}
  Content <- ExampleContent
  Nodes = {alice, bob, joe}
  Peers = {alice, bob}
  Setup <- ExampleSetup
  Author <- ExampleAuthor
  Endorses <- ExampleEndorses
  Copies <- ExampleCopies
SPECIFICATION FairReplicationSpec
INVARIANTS ReplicationInv LoadedIsApproved MeldedPeersAgree
PROPERTIES RestartForgetsOwnOnly Converges
