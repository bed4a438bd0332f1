CONSTANTS
  c1 = c1
  c2 = c2
  k1 = k1
  k2 = k2
  Clients = {c1, c2}
  KeyOf <- MCKeyOf
  Key = k1
  Names = {n1, n2}
  Data <- MCData
  Damage = {"tampered", "nonce"}
  Offsets <- MCOffsets
  WordSize = 8
  OverflowChecks = FALSE
SPECIFICATION EncSpec
PROPERTIES StoreSpec
