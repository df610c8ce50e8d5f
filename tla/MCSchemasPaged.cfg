SPECIFICATION FairSpec
CONSTANTS
  Keys <- MCKeys
  Rank <- MCRank
  Docs = {d1, d2}
  Parsable = {d1, d2}
  Recursive = {}
  Absent = Absent
  PageSize = 2
  MaxEdits = 1
PROPERTIES
  BucketIsServed
