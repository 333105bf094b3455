SPECIFICATION Spec
CONSTANTS
  Tokens <- MCTokens
  QueryNames <- MCQueryNames
  Hash <- MCHash
  TagMax = 3
  GfwlistFirst = TRUE
  DefaultTag = 4
  MaxLevel = 2
  MaxCollision = 1
  DefaultLcap = 1
  MaxNames = 4
CHECK_DEADLOCK FALSE
INVARIANTS
  NamesAreStoredOnce
  LookupIsLongestMatch
PROPERTIES
  StoredNamesKeepTheirTag
