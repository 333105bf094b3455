SPECIFICATION Spec
CONSTANTS
  none1 = none1
  none2 = none2
  chn1 = chn1
  VerdictCacheSize = 1
  Names <- MCNames
  TagOf <- MCTagOf
  Ip6Filter <- NonChinaFilter
  FilterQtypes = {}
  LocalRR = {}
  NoipAsChnip = FALSE
  AddIpTags = {"chn"}
  CacheEnabled = TRUE
  DbCache <- NoDb
  MayFail = {}
  Says <- RaceSays
  Asks <- FilterAsks
  NQid = 16
  QidTries = 2
  Timeout = 1
  MaxReq = 1
  MaxTime = 2
PROPERTY
  RaceHasOneOutcome
