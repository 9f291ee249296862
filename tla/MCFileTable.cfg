SPECIFICATION Spec
CONSTANTS
  Procs = {p1, p2}
  First = p1
  Bytes = {0, 1}
  PIPESIZE = 2
  CountMod = 4
  MaxN = 2
  NOFILE = 2
  Files = {f1, f2}
  None = None
SYMMETRY Symmetry
INVARIANTS
  RefExact
  NoLostWakeup
PROPERTIES
  ImplementsChannel
CHECK_DEADLOCK FALSE
