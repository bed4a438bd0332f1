CONSTANTS
  A = A
  ka = ka
  kb = kb
  owner = owner
  doc = doc
  log = log
  d1 = d1
  None = None
  InvalidRule = InvalidRule
  Unparsable = Unparsable
  Keys = {ka, kb}
  Roles = {owner}
  ObjectIds = {doc, log}
  Deltas = {d1}
  Content <- MCContent
  Adapters = {A}
  InitialConfigs <- MCInitialConfigs
  SigningKeys <- MCSigningKeys
  ModeChoices = {"Single", "Unanimous"}
  KeystoreChoices <- MCKeystoreChoices
  TrustChoices <- MCTrustChoices
  RuleChoices <- MCRuleChoices
  PolicyTexts <- MCPolicyTexts
  StrictChoices = {TRUE, FALSE}
  FilterChoices = {d1}
  RemoteKeys = {kb}
  Arrivals = {"valid"}
  TornWrites = FALSE
  StorageErrors = TRUE
SPECIFICATION Spec
INVARIANTS Inv ConfigInv ReloadLosesOnlyLocalState EndorseOkIsDurable OwnWriteIsReadable
PROPERTIES GovSpec
