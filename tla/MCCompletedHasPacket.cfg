CONSTANTS
  d1 = d1
  g1 = g1
  Nodes = {d1, g1}
  Runs = {r1}
  Urls = {u1}
  TypeOf <- MCTypeOf
  Policy <- MCPolicy

SPECIFICATION Spec

INVARIANT CompletedHasPacket
