SPECIFICATION Spec
CONSTANTS
  direct = direct
  proxied = proxied
  Upstreams <- MCUpstreams
  CountMax <- MCCountMax
  Life <- MCLife
  Proxied <- MCProxied
  NewMayFail = TRUE
  Timeout = 2
  DelayMax = 2
  Qids = {1, 2}
  MaxSess = 3
  MaxSend = 4
  MaxTime = 4
INVARIANT
  RetiredSessionIsFreed
