SPECIFICATION FairSpec
CONSTANTS
  direct = direct
  proxied = proxied
  Upstreams <- MCUpstreams
  CountMax <- MCCountMax
  Life <- MCLife
  Proxied <- MCProxied
  Tls <- MCTls
  PendingMax = 2
  Timeout = 2
  DelayMax = 2
  Qids = {1, 2}
  MaxSess = 3
  MaxSend = 3
  MaxTime = 3
INVARIANTS
  SessionsAreAccountedFor
  RetiredTcpSessionIsFreed
PROPERTIES
  ReconnectLosesNothing
  EveryTcpSessionIsReleased
