SPECIFICATION MCSpec
CONSTANTS
  Procs = {p1, p2}
  InitProc = p1
  Frames = {f1, f2, f3, f4, f5}
  None = None
  NPages = 2
  PerTable = 1
  Vals = {0, 1}
  Zero = 0
  Junk = 2
  REF_MAX = 3
  ExecPerTable = 4
  NU = 4
  Sizes = {2, 3, 5}
  Limit = 14
INVARIANT GuardInaccessible
CHECK_DEADLOCK FALSE
