SPECIFICATION FairSpec
CONSTANTS
  Keys <- MCKeys
  Rank <- MCRank
  Docs = {d1, d2, bad, rec}
  Parsable = {d1, d2, rec}
  Recursive = {rec}
  Absent = Absent
  PageSize = 3
  MaxEdits = 2
INVARIANTS
  LoadInv
  CachedSchemasAreResolved
PROPERTIES
  RefreshIsAllOrNothing
  BucketIsServed
