CONSTANTS
  A = A
  B = B
  ka = ka
  kb = kb
  kc = kc
  owner = owner
  doc = doc
  d1 = d1
  None = None
  InvalidRule = InvalidRule
  Unparsable = Unparsable
  Keys <- MCKeys
  Roles = {owner}
  ObjectIds = {doc}
  Deltas = {d1}
  Content <- MCContent
  Adapters = {A, B}
  InitialConfigs <- MCInitialConfigs
  SigningKeys <- MCSigningKeys
  ModeChoices = {}
  KeystoreChoices = {}
  TrustChoices = {}
  RuleChoices = {}
  PolicyTexts = {}
  StrictChoices = {}
  FilterChoices = {}
  RemoteKeys <- MCRemoteKeys
  Arrivals <- MCArrivals
  TornWrites = TRUE
  StorageErrors = FALSE
SPECIFICATION Spec
INVARIANTS Inv NoSpuriousRefusal EndorseOkIsDurable OwnWriteIsReadable
PROPERTIES GovSpec ReadableStaysReadable
