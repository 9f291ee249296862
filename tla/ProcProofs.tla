----------------------------- MODULE ProcProofs -----------------------------
(***************************************************************************)
(* Proofs about module Proc, for any number of processes and CPUs: type    *)
(* correctness, and the discipline of p->lock and wait_lock across swtch.  *)
(***************************************************************************)
EXTENDS Proc, TLAPS

(* The time that the provers have for a step.                              *)
USE SMTT(10), ZenonT(20), SMTT(60)

(* Points of the kernel where a process holds wait_lock, *)
WaitCS == {"reparent", "wakeinit", "wakeparent", "zombie", "waitscan", "sleep"}

(* where it holds no lock and can be interrupted, *)
Interruptible == {"user", "forkparent", "forkrun", "exit", "waitlock"}

(* and where it has a child that is not complete. *)
InFork == {"forkcopy", "forkparent", "forkrun"}

(* The process has just been switched to and has its own lock to release.  *)
HasOwnLock(p) == preempted[p] \/ pc[p] \in {"forkret", "slept"}

CpuInv ==
  \A c \in CPUs :
    /\ mode[c] = "sched" <=> proc[c] = None
    /\ mode[c] = "run" => state[proc[c]] = "RUNNING"
    /\ mode[c] \in {"out", "back"} =>
         /\ lock[proc[c]] = c
         /\ state[proc[c]] \in {"RUNNABLE", "SLEEPING", "ZOMBIE"}

OneCpu ==
  \A c, d \in CPUs : c # d /\ proc[c] = proc[d] => proc[c] = None

RunningInv ==
  \A p \in Procs : state[p] = "RUNNING" => \E c \in CPUs : proc[c] = p /\ mode[c] = "run"

(* What a CPU that runs a process holds,                                   *)
HeldInv ==
  \A c \in CPUs :
    /\ mode[c] = "run" /\ HasOwnLock(proc[c]) => lock[proc[c]] = c
    /\ mode[c] = "run" /\ pc[proc[c]] = "forkcopy" => lock[np[proc[c]]] = c
    /\ wait_lock = c <=> mode[c] = "run" /\ pc[proc[c]] \in WaitCS

(* and that it holds nothing else.                                         *)
OwnerInv ==
  \A c \in CPUs, q \in Procs :
    lock[q] = c =>
      \/ proc[c] = q /\ (mode[c] \in {"out", "back"} \/ HasOwnLock(q))
      \/ mode[c] = "run" /\ pc[proc[c]] = "forkcopy" /\ np[proc[c]] = q

PcInv ==
  \A p \in Procs :
    /\ preempted[p] => pc[p] \in Interruptible /\ state[p] \in {"RUNNABLE", "RUNNING"}
    /\ state[p] = "USED" => pc[p] = "forkret"
    /\ state[p] = "SLEEPING" => pc[p] = "slept"
    /\ state[p] = "RUNNABLE" => HasOwnLock(p)
    /\ pc[p] = "wakeinit" => idx[p] < NPROC

ForkInv ==
  \A p \in Procs :
    pc[p] \in InFork =>
      /\ np[p] \in Procs
      /\ state[np[p]] = "USED"
      /\ \A q \in Procs : q # p /\ pc[q] \in InFork => np[q] # np[p]

IInv == TypeOK /\ CpuInv /\ OneCpu /\ RunningInv /\ HeldInv /\ OwnerInv /\ PcInv /\ ForkInv

(* Arithmetic on slots and pids. *)
LEMMA Basics ==
  /\ 0 \in Procs /\ 0 \in 0 .. NPROC /\ None \notin Procs
  /\ \A c \in CPUs : c # None
  /\ \A i \in 0 .. NPROC : i < NPROC => i \in Procs /\ i + 1 \in 0 .. NPROC
  /\ 0 \in 0 .. MaxPid
  /\ \A n \in 2 .. MaxPid + 1 :
       n <= MaxPid => n \in 0 .. MaxPid /\ n + 1 \in 2 .. MaxPid + 1
  BY ProcAssumption DEF Procs

(* Every step preserves it. *)
LEMMA NextIInv == IInv /\ [Next]_vars => IInv'
<1> SUFFICES ASSUME IInv, [Next]_vars PROVE IInv'
  OBVIOUS
<1> USE Basics DEF initproc, HasOwnLock, WaitCS, Interruptible, InFork, fields, locks, cpus, locals
<1>0. /\ TypeOK /\ CpuInv /\ OneCpu /\ RunningInv /\ HeldInv /\ OwnerInv /\ PcInv /\ ForkInv
      /\ \A d \in CPUs : mode[d] # "sched" => proc[d] \in Procs
  BY DEF IInv, TypeOK, CpuInv
<1>1. ASSUME NEW c \in CPUs, NEW p \in Procs, Run(c, p) PROVE IInv'
  <2>1. TypeOK'
    BY <1>0, <1>1 DEF Run, TypeOK
  <2>2. CpuInv' /\ OneCpu' /\ RunningInv'
    BY <1>0, <1>1 DEF Run, TypeOK, CpuInv, OneCpu, RunningInv
  <2>3. HeldInv'
    BY <1>0, <1>1 DEF Run, TypeOK, HeldInv, PcInv
  <2>5. OwnerInv'
    BY <1>0, <1>1 DEF Run, TypeOK, CpuInv, OwnerInv, PcInv
  <2>4. PcInv' /\ ForkInv'
    BY <1>0, <1>1 DEF Run, PcInv, ForkInv
  <2> QED
    BY <2>1, <2>2, <2>3, <2>5, <2>4 DEF IInv
<1>2. ASSUME NEW c \in CPUs, sched(c) PROVE IInv'
  BY <1>0, <1>2 DEF sched, TypeOK, CpuInv, OneCpu, RunningInv, HeldInv, OwnerInv, PcInv,
     ForkInv, IInv
<1>3. ASSUME NEW c \in CPUs, SchedRelease(c) PROVE IInv'
  <2>1. TypeOK'
    BY <1>0, <1>3 DEF SchedRelease, TypeOK
  <2>2. CpuInv' /\ OneCpu' /\ RunningInv' /\ HeldInv' /\ OwnerInv' /\ PcInv' /\ ForkInv'
    BY <1>0, <1>3 DEF SchedRelease, TypeOK, CpuInv, OneCpu, RunningInv, HeldInv, OwnerInv,
       PcInv, ForkInv
  <2> QED
    BY <2>1, <2>2 DEF IInv
<1>4. ASSUME NEW c \in CPUs, yield(c) PROVE IInv'
  <2>1. TypeOK'
    BY <1>0, <1>4 DEF yield, At, SwitchOut, TypeOK
  <2>2. CpuInv' /\ OneCpu' /\ RunningInv' /\ HeldInv' /\ OwnerInv' /\ PcInv' /\ ForkInv'
    BY <1>0, <1>4 DEF yield, At, SwitchOut, TypeOK, CpuInv, OneCpu, RunningInv, HeldInv,
       OwnerInv, PcInv, ForkInv
  <2> QED
    BY <2>1, <2>2 DEF IInv
<1>5. ASSUME NEW c \in CPUs, YieldReturn(c) PROVE IInv'
  <2>1. TypeOK'
    BY <1>0, <1>5 DEF YieldReturn, TypeOK
  <2>2. CpuInv' /\ OneCpu' /\ RunningInv'
    BY <1>0, <1>5 DEF YieldReturn, CpuInv, OneCpu, RunningInv
  <2>3. HeldInv' /\ OwnerInv'
    BY <1>0, <1>5 DEF YieldReturn, TypeOK, CpuInv, OneCpu, HeldInv, OwnerInv, PcInv
  <2>4. PcInv' /\ ForkInv'
    BY <1>0, <1>5 DEF YieldReturn, CpuInv, PcInv, ForkInv
  <2> QED
    BY <2>1, <2>2, <2>3, <2>4 DEF IInv
<1>6. ASSUME NEW c \in CPUs, forkret(c) PROVE IInv'
  <2>1. TypeOK'
    BY <1>0, <1>6 DEF forkret, At, Goto, TypeOK
  <2>2. CpuInv' /\ OneCpu' /\ RunningInv' /\ HeldInv' /\ OwnerInv' /\ PcInv' /\ ForkInv'
    BY <1>0, <1>6 DEF forkret, At, Goto, CpuInv, OneCpu, RunningInv, TypeOK, HeldInv, OwnerInv,
       PcInv, ForkInv
  <2> QED
    BY <2>1, <2>2 DEF IInv
<1>7. ASSUME NEW c \in CPUs, NEW q \in Procs, allocproc(c, q) PROVE IInv'
  <2>1. TypeOK'
    BY <1>0, <1>7 DEF allocproc, At, TypeOK
  <2>2. CpuInv' /\ OneCpu' /\ RunningInv'
    BY <1>0, <1>7 DEF allocproc, At, CpuInv, OneCpu, RunningInv
  <2>3. HeldInv' /\ OwnerInv'
    BY <1>0, <1>7 DEF allocproc, At, TypeOK, CpuInv, OneCpu, HeldInv, OwnerInv
  <2>4. PcInv' /\ ForkInv'
    BY <1>0, <1>7 DEF allocproc, At, TypeOK, PcInv, ForkInv
  <2> QED
    BY <2>1, <2>2, <2>3, <2>4 DEF IInv
<1>8. ASSUME NEW c \in CPUs, ForkFails(c) PROVE IInv'
  <2>1. TypeOK'
    BY <1>0, <1>8, Zenon DEF ForkFails, At, freeproc, Return, Goto, TypeOK
  <2>2. CpuInv' /\ OneCpu' /\ RunningInv'
    BY <1>0, <1>8 DEF ForkFails, At, freeproc, Return, Goto, CpuInv, OneCpu, RunningInv, ForkInv
  <2>3. HeldInv' /\ OwnerInv'
    BY <1>0, <1>8 DEF ForkFails, At, freeproc, Return, Goto, TypeOK, HeldInv, OwnerInv
  <2>4. PcInv' /\ ForkInv'
    BY <1>0, <1>8 DEF ForkFails, At, freeproc, Return, Goto, TypeOK, PcInv, ForkInv
  <2> QED
    BY <2>1, <2>2, <2>3, <2>4 DEF IInv
<1>9. ASSUME NEW c \in CPUs, ForkCopied(c) PROVE IInv'
  <2>1. TypeOK'
    BY <1>0, <1>9, Zenon DEF ForkCopied, At, Goto, TypeOK
  <2>2. CpuInv' /\ OneCpu' /\ RunningInv'
    BY <1>0, <1>9 DEF ForkCopied, At, Goto, CpuInv, OneCpu, RunningInv, ForkInv
  <2>3. HeldInv' /\ OwnerInv'
    BY <1>0, <1>9 DEF ForkCopied, At, Goto, TypeOK, HeldInv, OwnerInv
  <2>4. PcInv' /\ ForkInv'
    BY <1>0, <1>9 DEF ForkCopied, At, Goto, PcInv, ForkInv
  <2> QED
    BY <2>1, <2>2, <2>3, <2>4 DEF IInv
<1>10. ASSUME NEW c \in CPUs, ForkParent(c) PROVE IInv'
  <2>1. TypeOK'
    BY <1>0, <1>10, Zenon DEF ForkParent, At, Goto, TypeOK
  <2>2. CpuInv' /\ OneCpu' /\ RunningInv' /\ HeldInv' /\ OwnerInv' /\ PcInv' /\ ForkInv'
    BY <1>0, <1>10 DEF ForkParent, At, Goto, CpuInv, OneCpu, RunningInv, HeldInv, OwnerInv,
       PcInv, ForkInv
  <2> QED
    BY <2>1, <2>2 DEF IInv
<1>11. ASSUME NEW c \in CPUs, ForkRun(c) PROVE IInv'
  <2>1. TypeOK'
    BY <1>0, <1>11, Zenon DEF ForkRun, At, Return, Goto, TypeOK
  <2>2. CpuInv' /\ OneCpu' /\ RunningInv'
    BY <1>0, <1>11 DEF ForkRun, At, Return, Goto, CpuInv, OneCpu, RunningInv, ForkInv
  <2>3. HeldInv' /\ OwnerInv'
    BY <1>0, <1>11 DEF ForkRun, At, Return, Goto, HeldInv, OwnerInv
  <2>4. PcInv' /\ ForkInv'
    BY <1>0, <1>11 DEF ForkRun, At, Return, Goto, TypeOK, PcInv, ForkInv
  <2> QED
    BY <2>1, <2>2, <2>3, <2>4 DEF IInv
<1>12. ASSUME NEW c \in CPUs, Exit(c) PROVE IInv'
  <2>1. TypeOK'
    <3>1. /\ pc' = pc \/ pc' = [pc EXCEPT ![proc[c]] = "exit"]
          /\ panicked' \in BOOLEAN
          /\ UNCHANGED <<fields, locks, cpus, preempted, locals>>
      BY <1>0, <1>12, Zenon DEF Exit, Goto, TypeOK
    <3> QED
      BY <1>0, <3>1 DEF TypeOK
  <2>2. CpuInv' /\ OneCpu' /\ RunningInv' /\ HeldInv' /\ OwnerInv' /\ PcInv' /\ ForkInv'
    BY <1>0, <1>12 DEF Exit, At, Goto, CpuInv, OneCpu, RunningInv, TypeOK, HeldInv, OwnerInv,
       PcInv, ForkInv
  <2> QED
    BY <2>1, <2>2 DEF IInv
<1>13. ASSUME NEW c \in CPUs, ExitLock(c) PROVE IInv'
  <2>1. TypeOK'
    BY <1>0, <1>13 DEF ExitLock, At, Goto, TypeOK
  <2>2. CpuInv' /\ OneCpu' /\ RunningInv' /\ HeldInv' /\ OwnerInv' /\ PcInv' /\ ForkInv'
    BY <1>0, <1>13 DEF ExitLock, At, Goto, CpuInv, OneCpu, RunningInv, TypeOK, HeldInv,
       OwnerInv, PcInv, ForkInv
  <2> QED
    BY <2>1, <2>2 DEF IInv
<1>14. ASSUME NEW c \in CPUs, reparent(c) PROVE IInv'
  <2>1. TypeOK'
    BY <1>0, <1>14 DEF reparent, At, Goto, TypeOK
  <2>2. CpuInv' /\ OneCpu' /\ RunningInv'
    BY <1>0, <1>14 DEF reparent, At, Goto, CpuInv, OneCpu, RunningInv
  <2>3. HeldInv' /\ OwnerInv'
    BY <1>0, <1>14 DEF reparent, At, Goto, TypeOK, HeldInv, OwnerInv
  <2>4. PcInv' /\ ForkInv'
    BY <1>0, <1>14 DEF reparent, At, Goto, TypeOK, PcInv, ForkInv
  <2> QED
    BY <2>1, <2>2, <2>3, <2>4 DEF IInv
<1>15. ASSUME NEW c \in CPUs, WakeInit(c) PROVE IInv'
  <2>1. TypeOK'
    BY <1>0, <1>15 DEF WakeInit, WakeupSlot, WakeupDone, At, Goto, TypeOK, PcInv
  <2>2. CpuInv' /\ OneCpu' /\ RunningInv'
    BY <1>0, <1>15 DEF WakeInit, WakeupSlot, WakeupDone, At, Goto, TypeOK, CpuInv,
       OneCpu, RunningInv
  <2>3. HeldInv' /\ OwnerInv'
    BY <1>0, <1>15 DEF WakeInit, WakeupSlot, WakeupDone, At, Goto, TypeOK, HeldInv,
       OwnerInv
  <2>4. PcInv' /\ ForkInv'
    BY <1>0, <1>15 DEF WakeInit, WakeupSlot, WakeupDone, At, Goto, TypeOK, PcInv,
       ForkInv
  <2> QED
    BY <2>1, <2>2, <2>3, <2>4 DEF IInv
<1>16. ASSUME NEW c \in CPUs, WakeParent(c) PROVE IInv'
  <2>1. TypeOK'
    BY <1>0, <1>16 DEF WakeParent, WakeupSlot, WakeupDone, At, Goto, TypeOK
  <2>2. CpuInv' /\ OneCpu' /\ RunningInv'
    BY <1>0, <1>16 DEF WakeParent, WakeupSlot, WakeupDone, At, Goto, TypeOK, CpuInv,
       OneCpu, RunningInv
  <2>3. HeldInv' /\ OwnerInv'
    BY <1>0, <1>16 DEF WakeParent, WakeupSlot, WakeupDone, At, Goto, TypeOK, HeldInv,
       OwnerInv
  <2>4. PcInv' /\ ForkInv'
    BY <1>0, <1>16 DEF WakeParent, WakeupSlot, WakeupDone, At, Goto, TypeOK, PcInv,
       ForkInv
  <2> QED
    BY <2>1, <2>2, <2>3, <2>4 DEF IInv
<1>17. ASSUME NEW c \in CPUs, ExitZombie(c) PROVE IInv'
  BY <1>0, <1>17 DEF ExitZombie, At, SwitchOut, TypeOK, CpuInv, OneCpu, RunningInv, HeldInv,
     OwnerInv, PcInv, ForkInv, IInv
<1>18. ASSUME NEW c \in CPUs, Wait(c) PROVE IInv'
  <2>1. TypeOK'
    BY <1>0, <1>18 DEF Wait, At, Goto, TypeOK
  <2>2. CpuInv' /\ OneCpu' /\ RunningInv' /\ HeldInv' /\ OwnerInv' /\ PcInv' /\ ForkInv'
    BY <1>0, <1>18 DEF Wait, At, Goto, CpuInv, OneCpu, RunningInv, HeldInv, OwnerInv, PcInv,
       ForkInv
  <2> QED
    BY <2>1, <2>2 DEF IInv
<1>19. ASSUME NEW c \in CPUs, WaitLock(c) PROVE IInv'
  <2>1. TypeOK'
    BY <1>0, <1>19 DEF WaitLock, At, Goto, TypeOK
  <2>2. CpuInv' /\ OneCpu' /\ RunningInv' /\ HeldInv' /\ OwnerInv' /\ PcInv' /\ ForkInv'
    BY <1>0, <1>19 DEF WaitLock, At, Goto, CpuInv, OneCpu, RunningInv, TypeOK, HeldInv,
       OwnerInv, PcInv, ForkInv
  <2> QED
    BY <2>1, <2>2 DEF IInv
<1>20. ASSUME NEW c \in CPUs, WaitSkip(c) PROVE IInv'
  <2>1. TypeOK'
    BY <1>0, <1>20 DEF WaitSkip, At, TypeOK
  <2>2. CpuInv' /\ OneCpu' /\ RunningInv'
    BY <1>0, <1>20 DEF WaitSkip, At, CpuInv, OneCpu, RunningInv
  <2>3. HeldInv' /\ OwnerInv'
    BY <1>0, <1>20 DEF WaitSkip, At, HeldInv, OwnerInv
  <2>4. PcInv' /\ ForkInv'
    BY <1>0, <1>20 DEF WaitSkip, At, PcInv, ForkInv
  <2> QED
    BY <2>1, <2>2, <2>3, <2>4 DEF IInv
<1>21. ASSUME NEW c \in CPUs, WaitReap(c) PROVE IInv'
  <2>1. TypeOK'
    BY <1>0, <1>21 DEF WaitReap, At, freeproc, Return, Goto, TypeOK
  <2>2. CpuInv' /\ OneCpu' /\ RunningInv'
    BY <1>0, <1>21 DEF WaitReap, At, freeproc, Return, Goto, CpuInv, OneCpu, RunningInv
  <2>3. HeldInv' /\ OwnerInv'
    BY <1>0, <1>21 DEF WaitReap, At, freeproc, Return, Goto, TypeOK, HeldInv, OwnerInv
  <2>4. PcInv' /\ ForkInv'
    BY <1>0, <1>21 DEF WaitReap, At, freeproc, Return, Goto, PcInv, ForkInv
  <2> QED
    BY <2>1, <2>2, <2>3, <2>4 DEF IInv
<1>22. ASSUME NEW c \in CPUs, WaitCopyFails(c) PROVE IInv'
  <2>1. TypeOK'
    BY <1>0, <1>22 DEF WaitCopyFails, At, Return, Goto, TypeOK
  <2>2. CpuInv' /\ OneCpu' /\ RunningInv'
    BY <1>0, <1>22 DEF WaitCopyFails, At, Return, Goto, CpuInv, OneCpu, RunningInv
  <2>3. HeldInv' /\ OwnerInv'
    BY <1>0, <1>22 DEF WaitCopyFails, At, Return, Goto, TypeOK, HeldInv, OwnerInv
  <2>4. PcInv' /\ ForkInv'
    BY <1>0, <1>22 DEF WaitCopyFails, At, Return, Goto, PcInv, ForkInv
  <2> QED
    BY <2>1, <2>2, <2>3, <2>4 DEF IInv
<1>23. ASSUME NEW c \in CPUs, WaitNone(c) PROVE IInv'
  <2>1. TypeOK' /\ CpuInv' /\ OneCpu' /\ RunningInv' /\ PcInv' /\ ForkInv'
    BY <1>0, <1>23 DEF WaitNone, At, Return, Goto, TypeOK, CpuInv, OneCpu, RunningInv, PcInv,
       ForkInv
  <2>2. HeldInv' /\ OwnerInv'
    BY <1>0, <1>23 DEF WaitNone, At, Return, Goto, TypeOK, HeldInv, OwnerInv
  <2> QED
    BY <2>1, <2>2 DEF IInv
<1>24. ASSUME NEW c \in CPUs, WaitNotKilled(c) PROVE IInv'
  <2>1. TypeOK' /\ CpuInv' /\ OneCpu' /\ RunningInv' /\ HeldInv' /\ OwnerInv'
    BY <1>0, <1>24 DEF WaitNotKilled, At, Goto, TypeOK, CpuInv, OneCpu, RunningInv, HeldInv,
       OwnerInv
  <2>2. PcInv' /\ ForkInv'
    BY <1>0, <1>24 DEF WaitNotKilled, At, Goto, PcInv, ForkInv
  <2> QED
    BY <2>1, <2>2 DEF IInv
<1>25. ASSUME NEW c \in CPUs, sleep(c) PROVE IInv'
  <2>1. TypeOK' /\ CpuInv' /\ OneCpu' /\ RunningInv' /\ PcInv' /\ ForkInv'
    BY <1>0, <1>25 DEF sleep, At, SwitchOut, Goto, TypeOK, CpuInv, OneCpu, RunningInv, PcInv,
       ForkInv
  <2>2. HeldInv' /\ OwnerInv'
    BY <1>0, <1>25 DEF sleep, At, SwitchOut, Goto, TypeOK, HeldInv, OwnerInv
  <2> QED
    BY <2>1, <2>2 DEF IInv
<1>26. ASSUME NEW c \in CPUs, SleepReturn(c) PROVE IInv'
  <2>1. TypeOK' /\ PcInv' /\ ForkInv'
    BY <1>0, <1>26 DEF SleepReturn, At, Goto, TypeOK, CpuInv, PcInv, ForkInv
  <2>3. HeldInv' /\ OwnerInv'
    BY <1>0, <1>26 DEF SleepReturn, At, Goto, TypeOK, CpuInv, HeldInv, OwnerInv
  <2>2. CpuInv' /\ OneCpu' /\ RunningInv'
    BY <1>0, <1>26 DEF SleepReturn, At, Goto, CpuInv, OneCpu, RunningInv
  <2> QED
    BY <2>1, <2>2, <2>3 DEF IInv
<1>27. ASSUME NEW c \in CPUs, NEW n \in 0 .. MaxPid, NEW q \in Procs, kill(c, n, q) PROVE IInv'
  <2>1. TypeOK'
    BY <1>0, <1>27 DEF kill, At, TypeOK
  <2>2. CpuInv' /\ OneCpu' /\ RunningInv'
    BY <1>0, <1>27 DEF kill, At, TypeOK, CpuInv, OneCpu, RunningInv
  <2>3. HeldInv' /\ OwnerInv' /\ PcInv' /\ ForkInv'
    BY <1>0, <1>27 DEF kill, At, TypeOK, HeldInv, OwnerInv, PcInv, ForkInv
  <2> QED
    BY <2>1, <2>2, <2>3 DEF IInv
<1>28. CASE Panicked \/ UNCHANGED vars
  <2>1. TypeOK'
    BY <1>0, <1>28 DEF Panicked, vars, TypeOK
  <2>2. CpuInv' /\ OneCpu' /\ RunningInv'
    BY <1>0, <1>28 DEF Panicked, vars, CpuInv, OneCpu, RunningInv
  <2>3. HeldInv' /\ OwnerInv'
    BY <1>0, <1>28 DEF Panicked, vars, HeldInv, OwnerInv
  <2>4. PcInv' /\ ForkInv'
    BY <1>0, <1>28 DEF Panicked, vars, PcInv, ForkInv
  <2> QED
    BY <2>1, <2>2, <2>3, <2>4 DEF IInv
<1> QED
  BY <1>1, <1>2, <1>3, <1>4, <1>5, <1>6, <1>7, <1>8, <1>9, <1>10, <1>11, <1>12, <1>13,
     <1>14, <1>15, <1>16, <1>17, <1>18, <1>19, <1>20, <1>21, <1>22, <1>23, <1>24, <1>25,
     <1>26, <1>27, <1>28 DEF Next, Switch, Kernel, User

(* The initial states satisfy the invariant. *)
LEMMA InitIInv == Init => IInv
<1> SUFFICES ASSUME Init PROVE IInv
  OBVIOUS
<1> USE Basics DEF Init
<1>1. 1 \in 0 .. MaxPid /\ 2 \in 2 .. MaxPid + 1 /\ initproc \in Procs
  BY ProcAssumption DEF initproc
<1>2. TypeOK
  BY <1>1, Zenon DEF TypeOK
<1>3. CpuInv /\ OneCpu /\ RunningInv
  BY DEF CpuInv, OneCpu, RunningInv
<1>4. HeldInv /\ OwnerInv
  BY DEF HeldInv, OwnerInv
<1>5. PcInv /\ ForkInv
  BY DEF PcInv, ForkInv, HasOwnLock, InFork
<1> QED
  BY <1>2, <1>3, <1>4, <1>5 DEF IInv

(* IInv holds in every reachable state. *)
LEMMA Invariance == Spec => []IInv
  BY InitIInv, NextIInv, PTL DEF Spec

-----------------------------------------------------------------------------
(* Module Proc is type correct: no loop over the table leaves it, and      *)
(* every CPU that is not in its scheduler has a process.                   *)
THEOREM TypeCorrect == Spec => []TypeOK
<1>1. IInv => TypeOK
  BY DEF IInv
<1> QED
  BY <1>1, Invariance, PTL

(* A kernel stack has one user, on any number of CPUs: scheduler does not  *)
(* switch to a process, and wait does not free one, before the CPU it ran  *)
(* on is out of sched.                                                     *)
THEOREM StackUsedOnceHolds == Spec => []StackUsedOnce
<1>1. IInv => StackUsedOnce
  BY DEF IInv, CpuInv, OneCpu, StackUsedOnce, OnStack
<1> QED
  BY <1>1, Invariance, PTL

(* The checks at the head of sched never fail: every path into it holds    *)
(* p->lock, no other lock, and has changed p->state.                       *)
THEOREM SchedChecksHold == Spec => []SchedChecks
<1>1. IInv => SchedChecks
  BY DEF IInv, TypeOK, CpuInv, HeldInv, OwnerInv, SchedChecks
<1> QED
  BY <1>1, Invariance, PTL

(* A process is RUNNING exactly while a CPU runs it: sleep, yield, exit,   *)
(* wakeup and kill together never leave a stale RUNNING behind.            *)
THEOREM RunningOnCpuHolds == Spec => []RunningOnCpu
<1>1. IInv => RunningOnCpu
  BY DEF IInv, CpuInv, RunningInv, RunningOnCpu
<1> QED
  BY <1>1, Invariance, PTL

=============================================================================
