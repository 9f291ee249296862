SPECIFICATION MCSpec
CONSTANTS
  NPROC = 3
  CPUs = {c1, c2}
  FirstCpu = c1
  None = None
  MaxForks = 3
  Policies = {"DEFAULT", "PRIORITY", "FCFS", "LOTTERY", "SML"}
  MaxPid = 3
  Users = {1, 2}
  Blocks = {k1, k2}
  Vals = {0, 1}
  Zero = 0
  LOGSIZE = 4
  size = 4
  MAXOPBLOCKS = 2
  OpBlocks = 1
  Keys = {"x", "CR", "^D"}
  INPUT_BUF_SIZE = 2
  Lengths = {1, 2}
  Intr = 3
  Chars = {0, 1}
  UART_TX_BUF_SIZE = 2
  MaxWrite = 2
  MaxEcho = 1
  Wrap = 4
  TicksWrap = 5
  MaxSleep = 2
  MaxDelay = 1
  Words = {"a"}
  MAXARGS = 3
  NFD = 6
  Letters = {"a", "b"}
  MaxInput = 5
  BUF = 5
INVARIANTS
  RunsOnce
  ReadsBack
  Wired
  PrintsMatches
PROPERTIES
  NoStarvation
  
  ShellReturns
  ImplementsLineInput
  ImplementsFifo
  SleepsLongEnough
