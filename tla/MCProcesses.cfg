SPECIFICATION MCSpec
CONSTANTS
  NPROC = 3
  CPUs = {c1, c2}
  None = None
  MaxPid = 4
  LabCPUs = {0, 1}
  Policies = {"DEFAULT", "FCFS", "PRIORITY", "SML", "LOTTERY"}
  Priorities = {1, 3}
  Tickets = {1, 3}
  DEFAULT_PRIORITY = 2
  DEFAULT_TICKETS = 1
  Niced = {2}
  LabPids = 3
  MaxTicks = 1
INVARIANTS
  StackUsedOnce
  SchedChecks
  NoLostWakeup
  ParentCanWait
  WaiterHasChild
  

  
SYMMETRY Symmetry
