---------------------------- MODULE MCProcesses -----------------------------
(***************************************************************************)
(* Two process tables, checked in one run: that of the kernel (Proc) and   *)
(* that of the scheduling lab (LabProc).  The initial states choose one of *)
(* them; the variables of the other keep their initial values.             *)
(***************************************************************************)
EXTENDS Proc, TLC

CONSTANTS LabCPUs, Policies, Priorities, Tickets, DEFAULT_PRIORITY,
          DEFAULT_TICKETS, Niced, LabPids, MaxTicks

VARIABLES part,
          policy, table, embryo, running, loop, ptable, labPid, ticks, irq

labVars == <<policy, table, embryo, running, loop, ptable, labPid, ticks, irq>>

Lab == INSTANCE LabProc WITH
  CPUs <- LabCPUs, MaxPid <- LabPids, proc <- table, np <- embryo, at <- loop,
  held <- ptable, nextpid <- labPid

MCInit ==
  /\ part \in {"proc", "lab"}
  /\ Init
  /\ Lab!Init
  /\ part # "lab" => policy = "DEFAULT"

MCNext ==
  \/ part = "proc" /\ Next /\ UNCHANGED <<part, labVars>>
  \/ part = "lab" /\ Lab!Next /\ UNCHANGED <<part, vars>>

MCSpec == MCInit /\ [][MCNext]_<<part, vars, labVars>>

\* CPUs are interchangeable in Proc.  Slots are not: init and the loops tell
\* them apart; and the lab's CPU 0 has the clock.
Symmetry == Permutations(CPUs)

-----------------------------------------------------------------------------
\* The lab's exit and wait: nobody sleeps in wait without a child to come.
WaiterHasChild == Lab!WaiterHasChild

\* The lab's updatestatistics: wait2 reports no more time than has passed.
TimesAddUp == Lab!TimesAddUp

\* The lab's PRIORITY and SML schedulers run a best runnable process.
BestRuns == Lab!BestRuns

=============================================================================
