SPECIFICATION Spec
CONSTANTS
  none1 = none1
  none2 = none2
  chn1 = chn1
  VerdictCacheSize = 1
  Names <- MCNames
  TagOf <- MCTagOf
  Ip6Filter <- NoFilter
  FilterQtypes = {}
  LocalRR = {}
  NoipAsChnip = FALSE
  AddIpTags = {"chn"}
  CacheEnabled = TRUE
  DbCache <- MCDbCache
  MayFail = {"gfw"}
  Says <- RaceSays
  Asks <- RaceAsks
  NQid = 16
  QidTries = 2
  Timeout = 1
  MaxReq = 2
  MaxTime = 2
INVARIANTS
  AnswersItsOwnQuestion
  VerdictFromEvidence
  NoPollutedAnswer
  TrustOnlyAfterRejection
  ServedIpsAreRouted
  NeverWaitsInVain
PROPERTIES
  RaceHasOneOutcome
