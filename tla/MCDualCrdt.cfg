CONSTANTS
  ka = ka
  kb = kb
  kc = kc
  doc = doc
  item = item
  P = P
  A = A
  B = B
  a1 = a1
  b1 = b1
  None = None
  InvalidRule = InvalidRule
  Unparsable = Unparsable
  Keys = {ka, kb, kc}
  Roles = {}
  ObjectIds = {doc, item}
  Deltas = {1, 2, 3, a1, b1}
  Content <- MCContent
  Participants = {P}
  Versions = {1, 2, 3}
  Genesis = 1
  Revision <- MCRevision
  Document <- MCDocument
  Willing <- MCWilling
  Replicas = {A, B}
  Byzantine = {B}
  SigningKey <- MCSigningKey
  DataDeltas = {a1, b1}
  Author <- MCAuthor
  Supporting <- MCSupporting
  DataDocument <- MCDataDocument
SPECIFICATION DualSpec
INVARIANTS DataInv Provenance RevokedIsGone SameVersionSameView
PROPERTIES SnapshotStays NothingLost
