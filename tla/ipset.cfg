SPECIFICATION Spec
CONSTANTS
  IP_N = 2
  Base = 4
  Bytes <- MCBytes
  Loopback = 1
  Blacklist = TRUE
  Configs <- MCConfigs
  StrLen <- MCStrLen
  Kernels <- MCKernels
  Answers <- MCAnswers
CHECK_DEADLOCK FALSE
INVARIANTS
  BuffersSuffice
  TestAnswersItsOwnIp
  OfferedIpsReachTheSet
PROPERTIES
  OnlyOfferedIpsAreAdded
