CONSTANTS
  ka = ka
  kb = kb
  kc = kc
  trustee = trustee
  doc = doc
  P = P
  None = None
  InvalidRule = InvalidRule
  Unparsable = Unparsable
  Keys = {ka, kb, kc}
  Roles = {trustee}
  ObjectIds = {doc}
  Deltas = {1, 2, 3, 4}
  Content <- MCContent
  Participants = {P}
  Versions = {1, 2, 3, 4}
  Genesis = 1
  Revision <- MCRevision
  Document <- MCDocument
  Willing <- MCWilling
SPECIFICATION FairTrustSpec
INVARIANTS TrustInv ChainOfQuorums ForksShareApprover OneBranch
PROPERTIES ChainSpec NoRollback SelfSupportedSearchArrives
