CONSTANTS
  A = A
  B = B
  ka = ka
  kb = kb
  kc = kc
  doc = doc
  d1 = d1
  None = None
  InvalidRule = InvalidRule
  Unparsable = Unparsable
  Keys = {ka, kb, kc}
  Roles = {}
  ObjectIds = {doc}
  Deltas = {d1}
  Content <- MCContent
  Adapters = {A, B}
  InitialConfigs <- MCInitialConfigs
  SigningKeys <- MCSigningKeys
  ModeChoices = {}
  KeystoreChoices = {}
  TrustChoices = {}
  RuleChoices = {}
  PolicyTexts = {}
  StrictChoices = {}
  FilterChoices = {}
  RemoteKeys = {kc}
  Arrivals = {"valid", "mismatched"}
  TornWrites = TRUE
  StorageErrors = FALSE
SPECIFICATION FairSpec
PROPERTY ApprovedIsDelivered
