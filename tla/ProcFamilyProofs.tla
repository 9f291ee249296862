-------------------------- MODULE ProcFamilyProofs --------------------------
(***************************************************************************)
(* Pids, the family tree and the wakeup of wait in module Proc, on top of  *)
(* the discipline of p->lock and wait_lock, for any number of processes    *)
(* and CPUs.                                                               *)
(***************************************************************************)
EXTENDS ProcProofs

(* The time that the provers have for a step.                              *)
USE SMTT(10), ZenonT(20), SMTT(60)

(* The places in exit, from its first step to the switch out.              *)
Exiting == {"exit", "reparent", "wakeinit", "wakeparent", "zombie"}

(* A slot has a pid exactly when it is in use, and pids are distinct.      *)
PidInv ==
  \A p \in Procs :
    /\ state[p] = "UNUSED" <=> pid[p] = 0
    /\ pid[p] < nextpid
    /\ \A q \in Procs : p # q /\ pid[p] # 0 => pid[p] # pid[q]

(* The loops start at the first slot.                                      *)
LoopInv ==
  \A p \in Procs :
    /\ pc[p] \notin {"reparent", "wakeinit", "waitscan", "sleep", "slept"} => idx[p] = 0
    /\ pc[p] \notin {"wakeinit", "wakeparent"} => widx[p] = 0
    /\ pc[p] = "sleep" => idx[p] = NPROC
    /\ state[p] = "ZOMBIE" => pc[p] = "zombie"
    /\ state[p] = "UNUSED" => pc[p] \in {"forkret", "zombie"}
    /\ state[p] = "SLEEPING" => chan[p] = p

(* initproc is always there to wait, and parents are alive.                *)
ParentInv ==
  /\ parent[initproc] = None
  /\ pc[initproc] \notin Exiting
  /\ state[initproc] \notin {"UNUSED", "USED", "ZOMBIE"}
  /\ \A q \in Procs :
       /\ parent[q] # q
       /\ parent[q] # None => state[parent[q]] \notin {"UNUSED", "USED", "ZOMBIE"}
       /\ q # initproc /\ state[q] \notin {"UNUSED", "USED"} => parent[q] # None
       /\ pc[q] = "forkrun" => parent[np[q]] = q

(* A process that exits has no children below the slot that reparent has   *)
(* reached.                                                                *)
OrphanInv ==
  \A p, q \in Procs :
    state[p] = "RUNNING" /\ parent[q] = p =>
      /\ pc[p] \notin {"wakeparent", "zombie"}
      /\ pc[p] = "reparent" => q >= idx[p]
      /\ pc[p] = "wakeinit" => q > idx[p]

FInv == PidInv /\ LoopInv /\ ParentInv /\ OrphanInv

(* Slots are ordered as the loops visit them. *)
LEMMA SlotOrder == \A p \in Procs : p \in Int /\ 0 <= p /\ p < NPROC
  BY ProcAssumption DEF Procs

(* Every step preserves it. *)
LEMMA NextFInv == IInv /\ FInv /\ [Next]_vars => FInv'
<1> SUFFICES ASSUME IInv, FInv, [Next]_vars PROVE FInv'
  OBVIOUS
<1> USE DEF HasOwnLock, WaitCS, InFork, Interruptible, Exiting, initproc, fields, locks, cpus,
        locals
<1>ty. TypeOK
  BY DEF IInv
<1>i. CpuInv /\ OneCpu /\ RunningInv /\ HeldInv /\ OwnerInv /\ PcInv /\ ForkInv
  BY DEF IInv
<1>f. PidInv /\ LoopInv /\ ParentInv /\ OrphanInv
  BY DEF FInv
<1>state. state \in [Procs -> {"UNUSED", "USED", "SLEEPING", "RUNNABLE", "RUNNING", "ZOMBIE"}]
  BY <1>ty DEF TypeOK
<1>chan. chan \in [Procs -> Procs \cup {None}]
  BY <1>ty DEF TypeOK
<1>pid. pid \in [Procs -> 0 .. MaxPid]
  BY <1>ty DEF TypeOK
<1>parent. parent \in [Procs -> Procs \cup {None}]
  BY <1>ty DEF TypeOK
<1>nextpid. nextpid \in 2 .. MaxPid + 1
  BY <1>ty DEF TypeOK
<1>lock. lock \in [Procs -> CPUs \cup {None}]
  BY <1>ty DEF TypeOK
<1>waitlock. wait_lock \in CPUs \cup {None}
  BY <1>ty DEF TypeOK
<1>proc. proc \in [CPUs -> Procs \cup {None}]
  BY <1>ty DEF TypeOK
<1>mode. mode \in [CPUs -> {"sched", "run", "out", "back"}]
  BY <1>ty DEF TypeOK
<1>pc. pc \in [Procs -> {"user", "forkret", "forkcopy", "forkparent", "forkrun", "exit",
                        "reparent", "wakeinit", "wakeparent", "zombie", "waitlock", "waitscan",
                        "sleep", "slept"}]
  BY <1>ty DEF TypeOK
<1>idx. idx \in [Procs -> 0 .. NPROC]
  BY <1>ty DEF TypeOK
<1>widx. widx \in [Procs -> 0 .. NPROC]
  BY <1>ty DEF TypeOK
<1>np. np \in [Procs -> Procs \cup {None}]
  BY <1>ty DEF TypeOK
<1>0. \A d \in CPUs : mode[d] # "sched" => proc[d] \in Procs
  BY <1>i, <1>proc DEF CpuInv
<1>1. ASSUME NEW c \in CPUs, NEW p \in Procs, Run(c, p) PROVE FInv'
  <2>1. OrphanInv'
    <3> SUFFICES ASSUME NEW r \in Procs, NEW q \in Procs,
                        state'[r] = "RUNNING", parent'[q] = r
                 PROVE  /\ pc'[r] \notin {"wakeparent", "zombie"}
                        /\ pc'[r] = "reparent" => q >= idx'[r]
                        /\ pc'[r] = "wakeinit" => q > idx'[r]
      BY DEF OrphanInv
    <3>1. CASE r = p
      BY <1>1, <3>1, <1>i, <1>f DEF Run, PcInv
    <3>2. CASE r # p
      BY <1>1, <3>2, <1>f DEF Run, OrphanInv
    <3> QED
      BY <3>1, <3>2
  <2>2. PidInv' /\ LoopInv' /\ ParentInv'
    BY <1>1, <1>f DEF Run, PidInv, LoopInv, ParentInv
  <2> QED
    BY <2>1, <2>2 DEF FInv
<1>2. ASSUME NEW c \in CPUs, sched(c) PROVE FInv'
  BY <1>2, <1>f DEF sched, PidInv, LoopInv, ParentInv, OrphanInv, FInv
<1>3. ASSUME NEW c \in CPUs, SchedRelease(c) PROVE FInv'
  BY <1>3, <1>f DEF SchedRelease, PidInv, LoopInv, ParentInv, OrphanInv, FInv
<1>4. ASSUME NEW c \in CPUs, yield(c) PROVE FInv'
  BY <1>4, <1>f, <1>i DEF yield, At, SwitchOut, PidInv, LoopInv, PcInv, ParentInv, OrphanInv,
     FInv
<1>5. ASSUME NEW c \in CPUs, YieldReturn(c) PROVE FInv'
  BY <1>5, <1>f DEF YieldReturn, PidInv, LoopInv, ParentInv, OrphanInv, FInv
<1>6. ASSUME NEW c \in CPUs, forkret(c) PROVE FInv'
  BY <1>6, <1>f, <1>i DEF forkret, At, Goto, PidInv, CpuInv, LoopInv, ParentInv, OrphanInv, FInv
<1>7. ASSUME NEW c \in CPUs, NEW q \in Procs, allocproc(c, q) PROVE FInv'
  BY <1>7, <1>f, <1>state, <1>pid, <1>nextpid, <1>pc, Basics DEF allocproc, At, PidInv, LoopInv,
     ParentInv, OrphanInv, FInv
<1>8. ASSUME NEW c \in CPUs, ForkFails(c) PROVE FInv'
  BY <1>8, <1>f, <1>state, <1>pid, <1>nextpid, <1>0, <1>i, Basics DEF ForkFails, At, freeproc,
     Return, Goto, PidInv, PcInv, ForkInv, LoopInv, ParentInv, OrphanInv, FInv
<1>9. ASSUME NEW c \in CPUs, ForkCopied(c) PROVE FInv'
  BY <1>9, <1>f DEF ForkCopied, At, Goto, PidInv, LoopInv, ParentInv, OrphanInv, FInv
<1>10. ASSUME NEW c \in CPUs, ForkParent(c) PROVE FInv'
  BY <1>10, <1>f, <1>0, <1>i, <1>parent DEF ForkParent, At, Goto, PidInv, LoopInv, PcInv,
     ForkInv, ParentInv, OrphanInv, FInv
<1>11. ASSUME NEW c \in CPUs, ForkRun(c) PROVE FInv'
  BY <1>0, <1>11, <1>i, <1>f, <1>pc, Basics DEF ForkRun, At, Return, Goto, ForkInv, PidInv,
     LoopInv, ParentInv, OrphanInv, FInv
<1>12. ASSUME NEW c \in CPUs, Exit(c) PROVE FInv'
  BY <1>12, <1>f, <1>pc, Basics DEF Exit, At, Goto, PidInv, LoopInv, ParentInv, OrphanInv, FInv
<1>13. ASSUME NEW c \in CPUs, ExitLock(c) PROVE FInv'
  BY <1>13, <1>f, SlotOrder DEF ExitLock, At, Goto, PidInv, LoopInv, ParentInv, OrphanInv, FInv
<1>14. ASSUME NEW c \in CPUs, reparent(c) PROVE FInv'
  <2>1. PidInv' /\ LoopInv'
    BY <1>14, <1>f, <1>pc, <1>idx DEF reparent, At, Goto, PidInv, LoopInv
  <2>2. ParentInv'
    <3> DEFINE p == proc[c]
    <3>1. p \in Procs /\ p # initproc /\ state[p] = "RUNNING"
      BY <1>0, <1>14, <1>i, <1>f DEF reparent, At, CpuInv, ParentInv
    <3>2. /\ UNCHANGED <<state, np>>
          /\ pc' = pc \/ pc' = [pc EXCEPT ![p] = "wakeinit"] \/ pc' = [pc EXCEPT ![p] = "wakeparent"]
      BY <1>14 DEF reparent, Goto
    <3>3. \A q \in Procs : parent'[q] = parent[q] \/ (parent'[q] = initproc /\ parent[q] = p)
      BY <1>14, <1>f, <1>ty DEF reparent, TypeOK
    <3>4. pc[p] = "reparent"
      BY <1>14, <1>f DEF reparent, At
    <3>5. pc'[initproc] = pc[initproc]
      BY <3>1, <3>2, <1>f, Basics, <1>ty DEF TypeOK
    <3>6. \A q \in Procs : pc'[q] = "forkrun" => pc[q] = "forkrun" /\ q # p
      BY <3>1, <3>2, <3>4, <1>f, <1>ty DEF TypeOK
    <3>7. parent'[initproc] = None
      BY <3>1, <3>3, <1>f, Basics DEF ParentInv
    <3> HIDE DEF p
    <3> QED
      BY <3>1, <3>2, <3>3, <3>5, <3>6, <3>7, <1>i, <1>f, Basics DEF ParentInv, ForkInv
  <2>3. OrphanInv'
    <3> DEFINE p == proc[c]
    <3> SUFFICES ASSUME NEW r \in Procs, NEW q \in Procs,
                        state'[r] = "RUNNING", parent'[q] = r
                 PROVE  /\ pc'[r] \notin {"wakeparent", "zombie"}
                        /\ pc'[r] = "reparent" => q >= idx'[r]
                        /\ pc'[r] = "wakeinit" => q > idx'[r]
      BY DEF OrphanInv
    <3>1. p \in Procs /\ p # initproc /\ pc[p] = "reparent" /\ state[p] = "RUNNING" /\ state' = state
      BY <1>0, <1>14, <1>i, <1>f DEF reparent, At, CpuInv, ParentInv
    <3>2. CASE r = p
      <4>1. parent[q] = p /\ q >= idx[p]
        BY <1>14, <3>1, <3>2, <1>f, <1>ty DEF reparent, OrphanInv, TypeOK
      <4>2. idx[p] < NPROC
        BY <4>1, <3>1, <1>f, SlotOrder, <1>ty, ProcAssumption DEF TypeOK
      <4>3. CASE parent[idx[p]] = p
        <5>1. pc'[p] = "wakeinit" /\ idx' = idx /\ parent'[idx[p]] = initproc
          BY <1>14, <3>1, <4>2, <4>3, <1>f, Basics, <1>ty DEF reparent, Goto, TypeOK
        <5>2. q # idx[p]
          BY <3>1, <3>2, <5>1
        <5>3. idx[p] \in Int /\ q \in Int
          BY <3>1, <1>f, SlotOrder, <1>ty DEF TypeOK
        <5>4. q > idx'[p]
          BY ONLY <4>1, <5>1, <5>2, <5>3
        <5> QED
          BY ONLY <3>2, <5>1, <5>4
      <4>4. CASE parent[idx[p]] # p
        <5>1. pc'[p] = "reparent" /\ idx'[p] = idx[p] + 1
          BY <1>14, <3>1, <4>2, <4>4, <1>f, <1>ty DEF reparent, Goto, TypeOK
        <5>2. q # idx[p]
          BY <4>1, <4>4
        <5>3. idx[p] \in Int /\ q \in Int
          BY <3>1, <1>f, SlotOrder, <1>ty DEF TypeOK
        <5>4. q >= idx'[p]
          BY ONLY <4>1, <5>1, <5>2, <5>3
        <5> QED
          BY ONLY <3>2, <5>1, <5>4
      <4> QED
        BY <4>3, <4>4
    <3>3. CASE r # p
      <4>1. pc'[r] = pc[r] /\ idx'[r] = idx[r]
        BY <1>14, <3>1, <3>3, <1>f, <1>ty DEF reparent, Goto, TypeOK
      <4>2. CASE r = initproc
        BY <4>1, <4>2, <1>f DEF ParentInv
      <4>3. CASE r # initproc
        <5>1. parent[q] = r
          BY <1>14, <3>1, <4>3, <1>f, <1>ty DEF reparent, TypeOK
        <5> QED
          BY <3>1, <4>1, <5>1, <1>f DEF OrphanInv
      <4> QED
        BY <4>2, <4>3
    <3> QED
      BY <3>2, <3>3
  <2> QED
    BY <2>1, <2>2, <2>3 DEF FInv
<1>15. ASSUME NEW c \in CPUs, WakeInit(c) PROVE FInv'
  BY <1>15, <1>f, <1>state, <1>pc, <1>idx, <1>widx, <1>parent, Basics, SlotOrder DEF WakeInit,
     WakeupSlot, WakeupDone, At, Goto, PidInv, LoopInv, ParentInv, OrphanInv, FInv
<1>16. ASSUME NEW c \in CPUs, WakeParent(c) PROVE FInv'
  BY <1>16, <1>f, <1>state, <1>pc, <1>idx, <1>widx, <1>parent, Basics DEF WakeParent,
     WakeupSlot, WakeupDone, At, Goto, PidInv, LoopInv, ParentInv, OrphanInv, FInv
<1>17. ASSUME NEW c \in CPUs, ExitZombie(c) PROVE FInv'
  BY <1>17, <1>i, <1>f, <1>state DEF ExitZombie, At, SwitchOut, CpuInv, PidInv, LoopInv,
     ParentInv, OrphanInv, FInv
<1>18. ASSUME NEW c \in CPUs, Wait(c) PROVE FInv'
  BY <1>18, <1>f DEF Wait, At, Goto, PidInv, LoopInv, ParentInv, OrphanInv, FInv
<1>19. ASSUME NEW c \in CPUs, WaitLock(c) PROVE FInv'
  BY <1>19, <1>f DEF WaitLock, At, Goto, PidInv, LoopInv, ParentInv, OrphanInv, FInv
<1>20. ASSUME NEW c \in CPUs, WaitSkip(c) PROVE FInv'
  BY <1>20, <1>f DEF WaitSkip, At, PidInv, LoopInv, ParentInv, OrphanInv, FInv
<1>21. ASSUME NEW c \in CPUs, WaitReap(c) PROVE FInv'
  BY <1>21, <1>f, <1>state, <1>pid, <1>nextpid, <1>idx, Basics DEF WaitReap, At, freeproc,
     Return, Goto, PidInv, LoopInv, ParentInv, OrphanInv, FInv
<1>22. ASSUME NEW c \in CPUs, WaitCopyFails(c) PROVE FInv'
  BY <1>22, <1>f, <1>idx DEF WaitCopyFails, At, Return, Goto, PidInv, LoopInv, ParentInv,
     OrphanInv, FInv
<1>23. ASSUME NEW c \in CPUs, WaitNone(c) PROVE FInv'
  BY <1>23, <1>f, <1>idx DEF WaitNone, At, Return, Goto, PidInv, LoopInv, ParentInv, OrphanInv,
     FInv
<1>24. ASSUME NEW c \in CPUs, WaitNotKilled(c) PROVE FInv'
  BY <1>24, <1>f DEF WaitNotKilled, At, Goto, PidInv, LoopInv, ParentInv, OrphanInv, FInv
<1>25. ASSUME NEW c \in CPUs, sleep(c) PROVE FInv'
  BY <1>25, <1>f, <1>chan, <1>i DEF sleep, At, SwitchOut, Goto, PidInv, LoopInv, PcInv,
     ParentInv, OrphanInv, FInv
<1>26. ASSUME NEW c \in CPUs, SleepReturn(c) PROVE FInv'
  BY <1>26, <1>f, <1>i, <1>idx DEF SleepReturn, At, Goto, PidInv, CpuInv, LoopInv, ParentInv,
     OrphanInv, FInv
<1>27. ASSUME NEW c \in CPUs, NEW n \in 0 .. MaxPid, NEW q \in Procs, kill(c, n, q)
      PROVE FInv'
  BY <1>27, <1>f DEF kill, At, PidInv, LoopInv, ParentInv, OrphanInv, FInv
<1>28. CASE Panicked \/ UNCHANGED vars
  <2>1. UNCHANGED vars
    BY <1>28 DEF Panicked
  <2> QED
    BY <2>1, <1>f DEF vars, FInv, PidInv, LoopInv, ParentInv, OrphanInv
<1> QED
  BY <1>1, <1>2, <1>3, <1>4, <1>5, <1>6, <1>7, <1>8, <1>9, <1>10, <1>11, <1>12, <1>13,
     <1>14, <1>15, <1>16, <1>17, <1>18, <1>19, <1>20, <1>21, <1>22, <1>23, <1>24, <1>25,
     <1>26, <1>27, <1>28 DEF Next, Switch, Kernel, User

(* The initial states satisfy it. *)
LEMMA InitFInv == Init => FInv
<1> SUFFICES ASSUME Init PROVE FInv
  OBVIOUS
<1> USE Basics DEF Init, initproc
<1>1. PidInv
  BY DEF PidInv
<1>2. LoopInv
  BY DEF LoopInv
<1>3. ParentInv
  BY DEF ParentInv, Exiting
<1>4. OrphanInv
  BY DEF OrphanInv
<1> QED
  BY <1>1, <1>2, <1>3, <1>4 DEF FInv

(* Both invariants hold in every reachable state.                          *)
LEMMA FamilyInvariance == Spec => [](IInv /\ FInv)
  BY InitIInv, NextIInv, InitFInv, NextFInv, PTL DEF Spec

(* kill and wait identify a process by its pid: no two slots in use share  *)
(* one, whatever the order of forks, exits and reuses of slots.            *)
THEOREM PidsUniqueHold == Spec => []PidsUnique
<1>1. IInv /\ FInv => PidsUnique
  BY DEF FInv, PidInv, PidsUnique
<1> QED
  BY <1>1, FamilyInvariance, PTL

(* Every process but initproc has a parent that can still wait for it, so  *)
(* exit never leaves a ZOMBIE that nobody can free.                        *)
THEOREM ParentCanWaitHolds == Spec => []ParentCanWait
<1>1. IInv /\ FInv => ParentCanWait
  BY DEF IInv, TypeOK, FInv, ParentInv, ParentCanWait
<1> QED
  BY <1>1, FamilyInvariance, PTL
-----------------------------------------------------------------------------
(* A sleeping parent of a ZOMBIE is initproc, before the wakeup in         *)
(* reparent has reached its slot;                                          *)
SleepInv ==
  \A p, q \in Procs :
    state[p] = "SLEEPING" /\ parent[q] = p /\ state[q] = "ZOMBIE" =>
      /\ p = initproc
      /\ wait_lock # None
      /\ pc[proc[wait_lock]] = "wakeinit"
      /\ widx[proc[wait_lock]] = 0

(* an exiting process that has woken its parent finds it still awake when  *)
(* it becomes a ZOMBIE;                                                    *)
WokenInv ==
  \A p \in Procs :
    /\ state[p] = "RUNNING"
    /\ parent[p] # None
    /\ pc[p] = "zombie" \/ (pc[p] = "wakeparent" /\ widx[p] > parent[p])
    => state[parent[p]] # "SLEEPING"

(* and a process on its way to sleep has seen all its children alive.      *)
SeenInv ==
  \A p, q \in Procs :
    pc[p] \in {"waitscan", "sleep"} /\ q < idx[p] /\ parent[q] = p => state[q] # "ZOMBIE"

WInv == SleepInv /\ WokenInv /\ SeenInv

(* Every step preserves it. *)
LEMMA NextWInv == IInv /\ FInv /\ WInv /\ [Next]_vars => WInv'
<1> SUFFICES ASSUME IInv, FInv, WInv, [Next]_vars PROVE WInv'
  OBVIOUS
<1> USE DEF HasOwnLock, WaitCS, InFork, Interruptible, Exiting, initproc, fields, locks, cpus,
        locals
<1>ty. TypeOK
  BY DEF IInv
<1>i. CpuInv /\ OneCpu /\ RunningInv /\ HeldInv /\ OwnerInv /\ PcInv /\ ForkInv
  BY DEF IInv
<1>f. PidInv /\ LoopInv /\ ParentInv /\ OrphanInv /\ SleepInv /\ WokenInv /\ SeenInv
  BY DEF FInv, WInv
<1>state. state \in [Procs -> {"UNUSED", "USED", "SLEEPING", "RUNNABLE", "RUNNING", "ZOMBIE"}]
  BY <1>ty DEF TypeOK
<1>chan. chan \in [Procs -> Procs \cup {None}]
  BY <1>ty DEF TypeOK
<1>pid. pid \in [Procs -> 0 .. MaxPid]
  BY <1>ty DEF TypeOK
<1>parent. parent \in [Procs -> Procs \cup {None}]
  BY <1>ty DEF TypeOK
<1>nextpid. nextpid \in 2 .. MaxPid + 1
  BY <1>ty DEF TypeOK
<1>lock. lock \in [Procs -> CPUs \cup {None}]
  BY <1>ty DEF TypeOK
<1>waitlock. wait_lock \in CPUs \cup {None}
  BY <1>ty DEF TypeOK
<1>proc. proc \in [CPUs -> Procs \cup {None}]
  BY <1>ty DEF TypeOK
<1>mode. mode \in [CPUs -> {"sched", "run", "out", "back"}]
  BY <1>ty DEF TypeOK
<1>pc. pc \in [Procs -> {"user", "forkret", "forkcopy", "forkparent", "forkrun", "exit",
                        "reparent", "wakeinit", "wakeparent", "zombie", "waitlock", "waitscan",
                        "sleep", "slept"}]
  BY <1>ty DEF TypeOK
<1>idx. idx \in [Procs -> 0 .. NPROC]
  BY <1>ty DEF TypeOK
<1>widx. widx \in [Procs -> 0 .. NPROC]
  BY <1>ty DEF TypeOK
<1>np. np \in [Procs -> Procs \cup {None}]
  BY <1>ty DEF TypeOK
<1>0. \A d \in CPUs : mode[d] # "sched" => proc[d] \in Procs
  BY <1>i, <1>proc DEF CpuInv
<1>1. ASSUME NEW c \in CPUs, NEW p \in Procs, Run(c, p) PROVE WInv'
  BY <1>1, <1>i, <1>f DEF Run, HeldInv, SleepInv, PcInv, WokenInv, SeenInv, WInv
<1>2. ASSUME NEW c \in CPUs, sched(c) PROVE WInv'
  BY <1>2, <1>f DEF sched, SleepInv, WokenInv, SeenInv, WInv
<1>3. ASSUME NEW c \in CPUs, SchedRelease(c) PROVE WInv'
  BY <1>3, <1>i, <1>f DEF SchedRelease, HeldInv, SleepInv, WokenInv, SeenInv, WInv
<1>4. ASSUME NEW c \in CPUs, yield(c) PROVE WInv'
  BY <1>4, <1>f DEF yield, At, SwitchOut, SleepInv, WokenInv, SeenInv, WInv
<1>5. ASSUME NEW c \in CPUs, YieldReturn(c) PROVE WInv'
  BY <1>5, <1>f DEF YieldReturn, SleepInv, WokenInv, SeenInv, WInv
<1>6. ASSUME NEW c \in CPUs, forkret(c) PROVE WInv'
  BY <1>6, <1>f DEF forkret, At, Goto, SleepInv, WokenInv, SeenInv, WInv
<1>7. ASSUME NEW c \in CPUs, NEW q \in Procs, allocproc(c, q) PROVE WInv'
  BY <1>0, <1>7, <1>i, <1>f, <1>pc, <1>waitlock DEF allocproc, At, HeldInv, SleepInv, LoopInv,
     WokenInv, SeenInv, WInv
<1>8. ASSUME NEW c \in CPUs, ForkFails(c) PROVE WInv'
  BY <1>0, <1>8, <1>f, <1>state DEF ForkFails, At, freeproc, Return, Goto, SleepInv, WokenInv,
     SeenInv, WInv
<1>9. ASSUME NEW c \in CPUs, ForkCopied(c) PROVE WInv'
  BY <1>9, <1>f DEF ForkCopied, At, Goto, SleepInv, WokenInv, SeenInv, WInv
<1>10. ASSUME NEW c \in CPUs, ForkParent(c) PROVE WInv'
  BY <1>10, <1>i, <1>f, <1>0 DEF ForkParent, At, Goto, ForkInv, SleepInv, WokenInv, SeenInv,
     WInv
<1>11. ASSUME NEW c \in CPUs, ForkRun(c) PROVE WInv'
  BY <1>11, <1>f DEF ForkRun, At, Return, Goto, SleepInv, WokenInv, SeenInv, WInv
<1>12. ASSUME NEW c \in CPUs, Exit(c) PROVE WInv'
  BY <1>0, <1>12, <1>i, <1>f, <1>pc, <1>waitlock DEF Exit, At, Goto, HeldInv, SleepInv,
     WokenInv, SeenInv, WInv
<1>13. ASSUME NEW c \in CPUs, ExitLock(c) PROVE WInv'
  BY <1>13, <1>f DEF ExitLock, At, Goto, SleepInv, WokenInv, SeenInv, WInv
<1>14. ASSUME NEW c \in CPUs, reparent(c) PROVE WInv'
  BY <1>0, <1>14, <1>i, <1>f, <1>parent, <1>pc, Basics, SlotOrder, <1>state DEF reparent, At,
     Goto, HeldInv, SleepInv, LoopInv, RunningInv, WokenInv, PcInv, SeenInv, WInv
<1>15. ASSUME NEW c \in CPUs, WakeInit(c) PROVE WInv'
  BY <1>15, <1>i, <1>f, <1>state, SlotOrder, <1>parent, <1>pc, <1>widx, <1>idx DEF WakeInit,
     WakeupSlot, WakeupDone, At, Goto, HeldInv, SleepInv, LoopInv, ParentInv, WokenInv, SeenInv,
     WInv
<1>16. ASSUME NEW c \in CPUs, WakeParent(c) PROVE WInv'
  <2>1. SleepInv'
    BY <1>16, <1>i, <1>f, <1>state DEF WakeParent, WakeupSlot, WakeupDone, At, Goto, HeldInv,
       SleepInv
  <2>2. WokenInv'
    <3>1. CASE WakeupSlot(c, parent[proc[c]])
      BY <1>0, <1>16, <3>1, <1>i, <1>f, <1>state, <1>parent, <1>pc, <1>widx, SlotOrder, Basics
         DEF WakeParent, WakeupSlot, At, LoopInv, WokenInv, ParentInv
    <3>2. CASE WakeupDone(c, "zombie", 0)
      BY <1>16, <3>2, <1>f, SlotOrder, <1>ty DEF WakeParent, WakeupDone, At, Goto, WokenInv,
         TypeOK
    <3> QED
      BY <1>16, <3>1, <3>2 DEF WakeParent
  <2>3. SeenInv'
    <3>1. \A q \in Procs : /\ state'[q] = "ZOMBIE" => state[q] = "ZOMBIE"
                           /\ pc'[q] \in {"waitscan", "sleep"} => pc'[q] = pc[q] /\ idx'[q] = idx[q]
                           /\ parent'[q] = parent[q]
      BY <1>0, <1>16, <1>state, <1>pc, <1>idx DEF WakeParent, WakeupSlot, WakeupDone, At, Goto
    <3> QED
      BY <1>f, <3>1 DEF SeenInv
  <2> QED
    BY <2>1, <2>2, <2>3 DEF WInv
<1>17. ASSUME NEW c \in CPUs, ExitZombie(c) PROVE WInv'
  BY <1>17, <1>i, <1>f, Basics, <1>state DEF ExitZombie, At, SwitchOut, CpuInv, HeldInv,
     SleepInv, WokenInv, PcInv, RunningInv, SeenInv, ParentInv, WInv
<1>18. ASSUME NEW c \in CPUs, Wait(c) PROVE WInv'
  BY <1>18, <1>f DEF Wait, At, Goto, SleepInv, WokenInv, SeenInv, WInv
<1>19. ASSUME NEW c \in CPUs, WaitLock(c) PROVE WInv'
  BY <1>19, <1>f, SlotOrder DEF WaitLock, At, Goto, SleepInv, WokenInv, SeenInv, LoopInv, WInv
<1>20. ASSUME NEW c \in CPUs, WaitSkip(c) PROVE WInv'
  <2>1. SleepInv' /\ WokenInv'
    BY <1>20, <1>f DEF WaitSkip, At, SleepInv, WokenInv
  <2>2. SeenInv'
    <3>0. SUFFICES ASSUME NEW r \in Procs, NEW q \in Procs, pc'[r] \in {"waitscan", "sleep"},
                          q < idx'[r], parent'[q] = r
                   PROVE  state'[q] # "ZOMBIE"
      BY DEF SeenInv
    <3>1. CASE r = proc[c] /\ q = idx[r]
      BY <1>20, <3>0, <3>1 DEF WaitSkip, At
    <3>2. CASE q < idx[r]
      BY <1>20, <3>0, <3>2, <1>f DEF WaitSkip, At, SeenInv
    <3>3. r = proc[c] => idx'[r] = idx[r] + 1
      BY <1>20, <1>f, <1>ty DEF WaitSkip, At, TypeOK
    <3>4. r # proc[c] => idx'[r] = idx[r]
      BY <1>20 DEF WaitSkip, At
    <3>5. idx[r] \in Int /\ q \in Int
      BY <1>20, <1>f, SlotOrder, <1>ty DEF WaitSkip, TypeOK
    <3>6. q < idx[r] \/ (r = proc[c] /\ q = idx[r])
      BY ONLY <3>0, <3>3, <3>4, <3>5
    <3> QED
      BY <3>1, <3>2, <3>6
  <2> QED
    BY <2>1, <2>2 DEF WInv
<1>21. ASSUME NEW c \in CPUs, WaitReap(c) PROVE WInv'
  BY <1>21, <1>i, <1>f, Basics, <1>state, SlotOrder DEF WaitReap, At, freeproc, Return, Goto,
     HeldInv, SleepInv, WokenInv, SeenInv, WInv
<1>22. ASSUME NEW c \in CPUs, WaitCopyFails(c) PROVE WInv'
  BY <1>22, <1>i, <1>f, SlotOrder DEF WaitCopyFails, At, Return, Goto, HeldInv, SleepInv,
     WokenInv, SeenInv, WInv
<1>23. ASSUME NEW c \in CPUs, WaitNone(c) PROVE WInv'
  BY <1>23, <1>i, <1>f, SlotOrder DEF WaitNone, At, Return, Goto, HeldInv, SleepInv, WokenInv,
     SeenInv, WInv
<1>24. ASSUME NEW c \in CPUs, WaitNotKilled(c) PROVE WInv'
  BY <1>24, <1>f DEF WaitNotKilled, At, Goto, SleepInv, WokenInv, SeenInv, WInv
<1>25. ASSUME NEW c \in CPUs, sleep(c) PROVE WInv'
  BY <1>25, <1>i, <1>f, <1>parent, SlotOrder DEF sleep, At, SwitchOut, Goto, HeldInv, SleepInv,
     LoopInv, SeenInv, RunningInv, WokenInv, WInv
<1>26. ASSUME NEW c \in CPUs, SleepReturn(c) PROVE WInv'
  BY <1>26, <1>f DEF SleepReturn, At, Goto, SleepInv, WokenInv, SeenInv, WInv
<1>27. ASSUME NEW c \in CPUs, NEW n \in 0 .. MaxPid, NEW q \in Procs, kill(c, n, q)
      PROVE WInv'
  BY <1>27, <1>f DEF kill, At, SleepInv, WokenInv, SeenInv, WInv
<1>28. CASE Panicked \/ UNCHANGED vars
  <2>1. UNCHANGED vars
    BY <1>28 DEF Panicked
  <2> QED
    BY <2>1, <1>f DEF vars, WInv, SleepInv, WokenInv, SeenInv
<1> QED
  BY <1>1, <1>2, <1>3, <1>4, <1>5, <1>6, <1>7, <1>8, <1>9, <1>10, <1>11, <1>12, <1>13,
     <1>14, <1>15, <1>16, <1>17, <1>18, <1>19, <1>20, <1>21, <1>22, <1>23, <1>24, <1>25,
     <1>26, <1>27, <1>28 DEF Next, Switch, Kernel, User

(* The initial states satisfy it. *)
LEMMA InitWInv == Init => WInv
<1> SUFFICES ASSUME Init PROVE WInv
  OBVIOUS
<1> USE Basics DEF Init, initproc
<1>1. SleepInv /\ WokenInv
  BY DEF SleepInv, WokenInv
<1>2. SeenInv
  BY DEF SeenInv
<1> QED
  BY <1>1, <1>2 DEF WInv

(* Between wait's scan and its sleep, and between exit's wakeup and the    *)
(* ZOMBIE state, no wakeup is lost.                                        *)
THEOREM NoLostWakeupHolds == Spec => []NoLostWakeup
<1>1. IInv /\ FInv /\ WInv => NoLostWakeup
  BY DEF WInv, SleepInv, NoLostWakeup
<1>2. Spec => []WInv
  BY InitWInv, NextWInv, FamilyInvariance, PTL DEF Spec
<1> QED
  BY <1>1, <1>2, FamilyInvariance, PTL
=============================================================================
