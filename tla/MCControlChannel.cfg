CONSTANTS
  Conns = {c1, c2}
  WsFailoverAfter = 2
  OutboxLimit = 1
  MaxUp = 0
  MaxDown = 3
  MaxStray = 1
  MaxRestarts = 2

SPECIFICATION Spec

SYMMETRY Symmetry

INVARIANTS
  SessionIsOpen
  HeldPollHasNoMail

PROPERTIES
  BoxSpec
