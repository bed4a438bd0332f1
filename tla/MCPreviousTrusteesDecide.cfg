CONSTANTS
  ka = ka
  kb = kb
  kc = kc
  trustee = trustee
  doc = doc
  P = P
  None = None
  InvalidRule = InvalidRule
  Unparsable = Unparsable
  Keys = {ka, kb, kc}
  Roles = {trustee}
  ObjectIds = {doc}
  Deltas = {1, 2, 3}
  Content <- MCContent
  Participants = {P}
  Versions = {1, 2, 3}
  Genesis = 1
  Revision <- MCRevisionChain
  Document <- MCDocumentChain
  Willing <- MCWillingOld
SPECIFICATION TrustSpec
INVARIANT PreviousTrusteesDecide
