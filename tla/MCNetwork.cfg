SPECIFICATION Spec
CONSTANTS
  gw = gw
  neighbour = neighbour
  remote = remote
  Links <- MCLinks
  Remotes <- MCRemotes
  Gateway = gw
  ARP_CACHE_SIZE = 1
  Tries = 1
  RxSize = 2
  MaxPings = 2
  MaxFrames = 4
INVARIANTS HandlerWaitsOnlyAfterLoss SuccessNeedsAnswer ConnectionAgrees DanglingNeedsFin
CHECK_DEADLOCK FALSE
