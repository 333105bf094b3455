SPECIFICATION Spec
CONSTANTS
  Bits = 4
  WireMax = 6
  Dot = 3
  BufMin = 4
  BufMax = 12
  NodataTtl = 4
  TtlBounds <- MCTtlBounds
  ChinaIps <- MCChinaIps
  Ignored <- MCIgnored
  LocalAnswer <- MCLocalAnswer
  Messages <- MCMessages
  MaxElapsed = 3
CHECK_DEADLOCK FALSE
INVARIANTS
  ParserStaysInside
  RepliesAreWellFormed
  CachedTtlsAge
  NamesAgree
