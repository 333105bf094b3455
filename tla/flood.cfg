SPECIFICATION FairSpec
CONSTANTS
  none1 = none1
  none2 = none2
  chn1 = chn1
  VerdictCacheSize = 1
  Names <- MCNames
  TagOf <- MCTagOf
  Ip6Filter <- NoFilter
  FilterQtypes = {}
  LocalRR <- FloodLocal
  NoipAsChnip = FALSE
  AddIpTags = {"chn"}
  CacheEnabled = TRUE
  DbCache <- NoDb
  MayFail = {"gfw"}
  Says <- FloodSays
  Asks <- FloodAsks
  NQid = 2
  QidTries = 1
  Timeout = 1
  MaxReq = 3
  MaxTime = 2
INVARIANTS
  TypeOK
  AtMostOneReply
PROPERTIES
  VerdictsFit
  NoSilentLoss
  NoOverdueAfterCheck
  EveryQueryLeaves
