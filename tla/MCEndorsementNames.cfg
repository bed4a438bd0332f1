CONSTANTS
  None = None
  Garbage = Garbage
  d1 = d1
  d2 = d2
  d3 = d3
  x = x
  y = y
  Deltas = {d1, d2, d3}
  Digests = {x, y}
  Digest <- MCDigest
  Keys = {k1, k2}
  Digits = {"odd", "other"}
  MaxFiles = 3
SYMMETRY Interchange
SPECIFICATION NamesSpec
INVARIANTS CountedHaveSigned OneRecordPerKey
