SPECIFICATION FairSpec
CONSTANTS
  one = one
  both = both
  bad = bad
  rec = rec
  MaxVersions = 1
  Keys <- MCKeys
  Rank <- MCRank
  Docs = {one, both, bad, rec}
  Parsable = {one, both, rec}
  Recursive = {rec}
  Absent = Absent
  PageSize = 1
  MaxEdits = 1
  Fields = {"a", "b"}
  Pii <- MCPii
  Requests = {r1}
  Headers <- MCAllHeaders
  NoHeader = NoHeader
  Payloads <- MCPayloads
INVARIANTS
  PiiLeavesEncrypted
PROPERTIES
  HealthIsTruthful
  ImplementsDek
  ImplementsSchemas
  EveryRequestEnds
  ServiceComesUp
