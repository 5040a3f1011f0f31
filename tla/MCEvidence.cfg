CONSTANTS
  n1 = n1
  n2 = n2
  s1 = s1
  s2 = s2
  Nodes = {n1, n2}
  Shots = {s1, s2}
  Pages <- MCPages
  Hosts <- MCHosts
  MaxRedirects = 1
  MaxFaults = 2

SPECIFICATION Spec

SYMMETRY Alike

CHECK_DEADLOCK FALSE

INVARIANTS
  TypeOK
  BlameIsReached
  HarOnlyOfFailures
  RefIsServed
  NoFalseComplete
