\* One block of order 2 whose first page is not aligned to its size.
SPECIFICATION MCSpec
CONSTANTS
  CPUs = {c1, c2}
  Locks = {1, 2}
  Bufs = {b1, b2, b3}
  Vals = {0, 1}
  Zero = 0
  NUM = 8
  IdxMod = 8
  None = None
  Threads = {t1}
  NoThread = NoThread
  Start = 5
  Limit = 9
  MAX_ORDER = 2
  REF_MAX = 2
  MaxRefs = 2
INVARIANT FreeInRange
