SPECIFICATION MCSpec
CONSTANTS
  Procs = {u1, u2}
  Bufs = {b1, b2, b3}
  Blocks = {k1, k2, k3, k4}
  Vals = {0, 1}
  Zero = 0
  MaxPins = 1
  None = None
  LOGSIZE = 5
  size = 5
  MAXOPBLOCKS = 2
  OpBlocks = 1
INVARIANTS
  BuffersCounted
  ChangesKept
PROPERTIES
  ImplementsBlockStore
  ImplementsAtomicDisk
SYMMETRY Symmetry
