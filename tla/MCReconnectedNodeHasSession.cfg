CONSTANTS
  Conns = {c1, c2}
  WsFailoverAfter = 2
  OutboxLimit = 2
  MaxUp = 0
  MaxDown = 1
  MaxStray = 0
  MaxRestarts = 1

SPECIFICATION Spec

INVARIANT ReconnectedNodeHasSession
