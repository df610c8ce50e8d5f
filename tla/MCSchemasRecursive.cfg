SPECIFICATION Spec
CONSTANTS
  Keys <- MCKeys
  Rank <- MCRank
  Docs = {d1, rec}
  Parsable = {d1, rec}
  Recursive = {rec}
  Absent = Absent
  PageSize = 3
  MaxEdits = 1
PROPERTIES
  RefreshNeverEndsService
