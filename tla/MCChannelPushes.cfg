CONSTANTS
  Conns = {c1}
  WsFailoverAfter = 1
  OutboxLimit = 2
  MaxUp = 2
  MaxDown = 0
  MaxStray = 1
  MaxRestarts = 0

SPECIFICATION Spec

INVARIANT TypeOK

PROPERTIES
  PushLosesNothing
  PushKeepsOrder
  Delivered
