CONSTANTS
  michael = michael
  eve = eve
  lukas = lukas
  david = david
  anna = anna
  main = main
  trustee = trustee
  participant = participant
  rules = rules
  items = items
  None = None
  InvalidRule = InvalidRule
  Unparsable = Unparsable
  Keys <- People
  Roles = {trustee, participant}
  ObjectIds = {rules, items}
  Deltas <- MCDeltas
  Content <- ExampleContent
  Participants = {main}
  Versions = {1, 2, 3, 4}
  Genesis = 1
  Revision <- ExampleRevision
  Document <- ExampleDocument
  Willing <- ExampleWilling
  Replicas <- People
  Byzantine = {eve}
  SigningKey <- ExampleSigningKey
  DataDeltas <- Changes
  Author <- ExampleAuthor
  Supporting <- ExampleSupporting
  DataDocument <- ExampleDataDocument
CHECK_DEADLOCK FALSE
SPECIFICATION ExampleSpec
INVARIANTS AssertionsHold
PROPERTIES ProgramEnds
