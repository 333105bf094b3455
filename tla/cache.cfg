SPECIFICATION Spec
CONSTANTS
  n1 = n1
  n2 = n2
  n3 = n3
  CacheEnabled = TRUE
  Keys <- MCKeys
  Hash <- MCHash
  Messages <- MCMessages
  Ttl <- MCTtl
  Ignored = {}
  CacheSize = 2
  Stale = 1
  Refresh = 50
  InitLen = 2
  Ticks <- MCTicks
  MaxTime = 3
  Removals <- MCRemovals
  MaxLost = 1
INVARIANTS
  TypeOK
  MapAgreesWithList
  TtlTracksClock
PROPERTIES
  HitIsFreshOrRefreshed
  LastUsedSurvives
  ImplementsContract
