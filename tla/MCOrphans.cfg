SPECIFICATION MCSpec
CONSTANTS
  p1 = p1
  p2 = p2
  Procs = {p1, p2}
  NINODES = 3
  NINODE = 3
  LinkMax = 2
  None = None
  Calls <- MCCalls
  f1 = f1
  f2 = f2
  f3 = f3
  NBLOCKS = 5
  BPB = 1
  BSIZE = 2
  NDIRECT = 2
  MAXOPBLOCKS = 8
  MaxCalls = 4
  BitsPerBlock = 12
  FSSIZE = 20
  nmeta = 2
  Sizes = {0, 1, 2, 5, 6, 9}
  MaxFiles = 3
INVARIANT NoOrphans
