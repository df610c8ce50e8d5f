SPECIFICATION Spec
CONSTANTS
  one = one
  both = both
  bad = bad
  rec = rec
  MaxVersions = 2
  Keys <- MCKeys
  Rank <- MCRank
  Docs = {both}
  Parsable = {both}
  Recursive = {}
  Absent = Absent
  PageSize = 1
  MaxEdits = 0
  Fields = {"a", "b"}
  Pii <- MCPii
  Requests = {r1, r2}
  Headers <- MCHeaders
  NoHeader = NoHeader
  Payloads <- MCPayloads
SYMMETRY MCSymmetry
INVARIANTS
  PhaseInv
  RequestInv
  AlwaysHasUsableKey
  KeysFollowRealTime
  RoundTrip
  TokensOpenUnderTheirKeyOnly
