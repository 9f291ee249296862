----------------------------- MODULE Scheduler ------------------------------
(***************************************************************************)
(* The scheduler loop of kernel/proc.c under each of the policies that     *)
(* SCHEDFLAG selects.  Every CPU walks over the process table; at a slot   *)
(* it holds p->lock while the policy decides, and across swtch.            *)
(*                                                                         *)
(* PRIORITY, LOTTERY (in totalTickets) and SML (in findReadyProcess) look  *)
(* at every slot under that slot's lock while they hold p->lock.  The      *)
(* loops of the CPUs and these scans all start at slot 0, which is the     *)
(* only process when the system starts, and do not get past it; what a     *)
(* scan looks for is therefore left out.                                   *)
(*                                                                         *)
(* Processes fork, are interrupted, sleep, are woken and exit at any time; *)
(* how they do so is module Proc.                                          *)
(***************************************************************************)
EXTENDS Integers

CONSTANTS
  NPROC,     \* slots of the process table
  CPUs,
  None,
  Policies,  \* the values of SCHEDFLAG that are considered
  MaxForks   \* bound: processes created in a behaviour

ASSUME SchedulerAssumption ==
  /\ NPROC \in Nat \ {0}
  /\ None \notin CPUs /\ None \notin 0 .. NPROC
  /\ MaxForks \in Nat
  /\ Policies \subseteq {"DEFAULT", "PRIORITY", "FCFS", "LOTTERY", "SML"}

Procs == 0 .. NPROC - 1

VARIABLES
  policy,     \* SCHEDFLAG
  state,      \* p->state
  lock,       \* the CPU that holds p->lock, or None
  cur,        \* the slot that a CPU's loop has reached (p)
  at,         \* where the CPU is: "loop", "scan", "run", "back"
  forks,      \* processes created so far, which orders their creation times
  panicked    \* panic("acquire")

vars == <<policy, state, lock, cur, at, forks, panicked>>

Init ==
  /\ policy \in Policies
  /\ state = [p \in Procs |-> IF p = 0 THEN "RUNNABLE" ELSE "UNUSED"]
  /\ lock = [p \in Procs |-> None]
  /\ cur = [c \in CPUs |-> 0]
  /\ at = [c \in CPUs |-> "loop"]
  /\ forks = 0
  /\ panicked = FALSE

(* The loop never leaves its slot. *)
Advance_Never(n) == n

(* p++, and from the end of the table back to its beginning. *)
Advance(n) == (n + 1) % NPROC

-----------------------------------------------------------------------------
(* acquire(&p->lock), the process is not RUNNABLE, release(&p->lock).      *)
Skip(c) ==
  /\ at[c] = "loop" /\ ~panicked
  /\ policy # "SML"
  /\ lock[cur[c]] = None
  /\ state[cur[c]] # "RUNNABLE"
  /\ cur' = [cur EXCEPT ![c] = Advance(@)]
  /\ UNCHANGED <<policy, state, lock, at, forks, panicked>>

(* The state is not looked at before swtch. *)
Switch_Any(c) ==
  /\ at[c] = "loop" /\ ~panicked
  /\ policy \in {"DEFAULT", "FCFS"}
  /\ state[cur[c]] \in {"RUNNABLE", "RUNNING"}
  /\ lock' = [lock EXCEPT ![cur[c]] = c]
  /\ state' = [state EXCEPT ![cur[c]] = "RUNNING"]
  /\ at' = [at EXCEPT ![c] = "run"]
  /\ UNCHANGED <<policy, cur, forks, panicked>>

(* DEFAULT runs the process of the slot.  So does FCFS: minP is declared   *)
(* inside the loop, so it is p when p->pid > 1 and 0 otherwise.            *)
Switch(c) ==
  /\ at[c] = "loop" /\ ~panicked
  /\ policy \in {"DEFAULT", "FCFS"}
  /\ lock[cur[c]] = None
  /\ state[cur[c]] = "RUNNABLE"
  /\ lock' = [lock EXCEPT ![cur[c]] = c]
  /\ state' = [state EXCEPT ![cur[c]] = "RUNNING"]
  /\ at' = [at EXCEPT ![c] = "run"]
  /\ UNCHANGED <<policy, cur, forks, panicked>>

(* PRIORITY and LOTTERY scan the table for a RUNNABLE process p, SML for   *)
(* any p.                                                                  *)
ScanStart(c) ==
  /\ at[c] = "loop" /\ ~panicked
  /\ \/ policy \in {"PRIORITY", "LOTTERY"} /\ state[cur[c]] = "RUNNABLE"
     \/ policy = "SML"
  /\ lock[cur[c]] = None
  /\ lock' = [lock EXCEPT ![cur[c]] = c]
  /\ at' = [at EXCEPT ![c] = "scan"]
  /\ UNCHANGED <<policy, state, cur, forks, panicked>>

(* acquire(&p1->lock), for slot 0: its lock is held by this CPU, and       *)
(* acquire panics.                                                         *)
ScanHeld(c) ==
  /\ at[c] = "scan" /\ ~panicked
  /\ lock[0] = c
  /\ panicked' = TRUE
  /\ UNCHANGED <<policy, state, lock, cur, at, forks>>

-----------------------------------------------------------------------------
(* The process that was switched to releases its lock.                     *)
Unlock(c) ==
  /\ at[c] = "run" /\ ~panicked
  /\ lock[cur[c]] = c
  /\ lock' = [lock EXCEPT ![cur[c]] = None]
  /\ UNCHANGED <<policy, state, cur, at, forks, panicked>>

(* It forks.                                                               *)
Fork(c, q) ==
  /\ at[c] = "run" /\ ~panicked
  /\ lock[cur[c]] = None
  /\ forks < MaxForks
  /\ lock[q] = None /\ state[q] = "UNUSED"
  /\ state' = [state EXCEPT ![q] = "RUNNABLE"]
  /\ forks' = forks + 1
  /\ UNCHANGED <<policy, lock, cur, at, panicked>>

(* It calls sched, from yield, from sleep or from exit (the slot can be    *)
(* used again once wait has freed it, here at once).                       *)
Stop(c, s) ==
  /\ at[c] = "run" /\ ~panicked
  /\ lock[cur[c]] = None
  /\ s = "UNUSED" => cur[c] # 0
  /\ lock' = [lock EXCEPT ![cur[c]] = c]
  /\ state' = [state EXCEPT ![cur[c]] = s]
  /\ at' = [at EXCEPT ![c] = "back"]
  /\ UNCHANGED <<policy, cur, forks, panicked>>

(* scheduler releases p->lock and goes on with the next slot.              *)
Release(c) ==
  /\ at[c] = "back" /\ ~panicked
  /\ lock' = [lock EXCEPT ![cur[c]] = None]
  /\ at' = [at EXCEPT ![c] = "loop"]
  /\ cur' = [cur EXCEPT ![c] = Advance(@)]
  /\ UNCHANGED <<policy, state, forks, panicked>>

(* wakeup, by a device interrupt or another process.                       *)
Wake(p) ==
  /\ state[p] = "SLEEPING" /\ ~panicked
  /\ lock[p] = None
  /\ state' = [state EXCEPT ![p] = "RUNNABLE"]
  /\ UNCHANGED <<policy, lock, cur, at, forks, panicked>>

(* panic stops every CPU.                                                  *)
Panicked == panicked /\ UNCHANGED vars

-----------------------------------------------------------------------------
Loop(c) == Skip(c) \/ Switch(c) \/ ScanStart(c)

Next ==
  \/ \E c \in CPUs :
       \/ Loop(c) \/ ScanHeld(c) \/ Unlock(c) \/ Release(c)
       \/ \E q \in Procs : Fork(c, q)
       \/ \E s \in {"RUNNABLE", "SLEEPING", "UNUSED"} : Stop(c, s)
  \/ \E p \in Procs : Wake(p)
  \/ Panicked

Spec == Init /\ [][Next]_vars

(* CPUs go on executing; a lock that is free again and again is acquired;  *)
(* the timer interrupts a running process, which yields.                   *)
Fairness ==
  \A c \in CPUs :
    /\ SF_vars(Loop(c))
    /\ WF_vars(\E s \in {"RUNNABLE", "SLEEPING", "UNUSED"} : Stop(c, s))
    /\ WF_vars(Unlock(c)) /\ WF_vars(Release(c))

FairSpec == Spec /\ Fairness
-----------------------------------------------------------------------------
(* The type of every variable. *)
TypeOK ==
  /\ policy \in Policies
  /\ state \in [Procs -> {"UNUSED", "RUNNABLE", "RUNNING", "SLEEPING"}]
  /\ lock \in [Procs -> CPUs \cup {None}]
  /\ cur \in [CPUs -> Procs]
  /\ at \in [CPUs -> {"loop", "scan", "run", "back"}]
  /\ forks \in 0 .. MaxForks
  /\ panicked \in BOOLEAN

(* Two CPUs never run the same process, under any policy, and a CPU that   *)
(* comes back from swtch holds the lock it is about to release.            *)
RunsOnce ==
  /\ \A c, d \in CPUs : c # d /\ at[c] = "run" /\ at[d] = "run" => cur[c] # cur[d]
  /\ \A c \in CPUs : at[c] = "back" => lock[cur[c]] = c

(* DEFAULT and FCFS starve nobody: no process stays RUNNABLE for ever,     *)
(* whatever the other processes and CPUs do.                               *)
NoStarvation ==
  \A p \in Procs : []<>(policy \in {"DEFAULT", "FCFS"} => state[p] # "RUNNABLE")

(* The scheduler chooses a process without stopping the kernel.            *)
SchedulerAlive == ~panicked

=============================================================================
