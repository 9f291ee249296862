-------------------------- MODULE SchedulerProofs ---------------------------
(***************************************************************************)
(* Proofs about what drives the processes: the scheduler loops (module     *)
(* Scheduler), for any number of processes and CPUs and every policy, and  *)
(* the clock (module Clock), for any number of processes and any width of  *)
(* ticks.                                                                  *)
(***************************************************************************)
EXTENDS Scheduler, TLAPS

CONSTANTS Users, TicksWrap, MaxSleep, MaxDelay

VARIABLES ticks, sat, n, ticks0, skilled, elapsed

Ticks == INSTANCE Clock WITH
  Procs <- Users, Wrap <- TicksWrap, at <- sat, killed <- skilled

-----------------------------------------------------------------------------
(* A process that a CPU runs is RUNNING, which keeps the other CPUs from   *)
(* switching to it; a CPU inside the scheduler's own critical sections     *)
(* holds the lock of its slot.                                             *)
IInv ==
  /\ TypeOK
  /\ \A c \in CPUs : at[c] = "run" => state[cur[c]] = "RUNNING"
  /\ \A c, d \in CPUs : c # d /\ at[c] = "run" /\ at[d] = "run" => cur[c] # cur[d]
  /\ \A c \in CPUs : at[c] \in {"back", "scan"} => lock[cur[c]] = c

(* The next slot is a slot. *)
LEMMA AdvanceType == ASSUME NEW q \in Procs PROVE Advance(q) \in Procs
  BY SchedulerAssumption DEF Advance, Procs

(* No CPU is None. *)
LEMMA CPUNotNone == ASSUME NEW c \in CPUs PROVE c # None
  BY SchedulerAssumption

(* The initial states satisfy the invariant. *)
LEMMA InitIInv == Init => IInv
<1> SUFFICES ASSUME Init PROVE IInv
  OBVIOUS
<1> USE DEF Init
<1>1. 0 \in Procs /\ 0 \in 0 .. MaxForks
  BY SchedulerAssumption DEF Procs
<1>2. TypeOK
  BY <1>1 DEF TypeOK
<1>3. \A c \in CPUs : at[c] = "loop"
  OBVIOUS
<1> QED
  BY <1>2, <1>3 DEF IInv

(* Every step preserves it. *)
LEMMA NextIInv == IInv /\ [Next]_vars => IInv'
<1> SUFFICES ASSUME IInv, [Next]_vars PROVE IInv'
  OBVIOUS
<1> USE DEF IInv, TypeOK
<1>1. ASSUME NEW c \in CPUs, Skip(c) PROVE IInv'
  BY <1>1, AdvanceType DEF Skip
<1>2. ASSUME NEW c \in CPUs, Switch(c) PROVE IInv'
  BY <1>2, CPUNotNone DEF Switch
<1>3. ASSUME NEW c \in CPUs, ScanStart(c) PROVE IInv'
  BY <1>3, CPUNotNone DEF ScanStart
<1>4. ASSUME NEW c \in CPUs, ScanHeld(c) PROVE IInv'
  BY <1>4 DEF ScanHeld
<1>5. ASSUME NEW c \in CPUs, Unlock(c) PROVE IInv'
  BY <1>5 DEF Unlock
<1>6. ASSUME NEW c \in CPUs, NEW q \in Procs, Fork(c, q) PROVE IInv'
  BY <1>6, SchedulerAssumption DEF Fork
<1>7. ASSUME NEW c \in CPUs, NEW s \in {"RUNNABLE", "SLEEPING", "UNUSED"}, Stop(c, s)
      PROVE IInv'
  BY <1>7, CPUNotNone DEF Stop
<1>8. ASSUME NEW c \in CPUs, Release(c) PROVE IInv'
  BY <1>8, AdvanceType DEF Release
<1>9. ASSUME NEW p \in Procs, Wake(p) PROVE IInv'
  BY <1>9 DEF Wake
<1>10. CASE Panicked \/ UNCHANGED vars
  BY <1>10 DEF Panicked, vars
<1> QED
  BY <1>1, <1>2, <1>3, <1>4, <1>5, <1>6, <1>7, <1>8, <1>9, <1>10 DEF Next, Loop

(* Module Scheduler is type correct: the loops never leave the table.      *)
THEOREM TypeCorrect == Spec => []TypeOK
<1>1. IInv => TypeOK
  BY DEF IInv
<1> QED
  BY <1>1, InitIInv, NextIInv, PTL DEF Spec

(* No process ever runs on two CPUs, and scheduler releases only locks     *)
(* that its CPU holds, whatever SCHEDFLAG is.                              *)
THEOREM RunsOnceHolds == Spec => []RunsOnce
<1>1. IInv => RunsOnce
  BY DEF IInv, RunsOnce
<1> QED
  BY <1>1, InitIInv, NextIInv, PTL DEF Spec

-----------------------------------------------------------------------------
(* The clock.  A sleep takes its time, provided that nothing waits so long *)
(* to run that the difference of two readings of ticks wraps.              *)

(* In a call, the unsigned difference that the loop tests is the number of *)
(* ticks since the call began.                                             *)
Counts ==
  \A p \in Users :
    IF sat[p] = "user" THEN elapsed[p] = 0
    ELSE elapsed[p] = Ticks!Minus(ticks, ticks0[p]) /\ elapsed[p] <= n[p] + MaxDelay

(* A process that sleeps has ticks to wait for.                            *)
SleepsEarly == \A p \in Users : sat[p] = "asleep" => elapsed[p] < n[p]

ClockInv == Ticks!TypeOK /\ Counts /\ SleepsEarly

(* A tick is one more in every unsigned difference that has not wrapped.   *)
LEMMA MinusTick ==
  ASSUME TicksWrap \in Nat, NEW t \in 0 .. TicksWrap - 1, NEW s \in 0 .. TicksWrap - 1,
         Ticks!Minus(t, s) + 1 < TicksWrap
  PROVE  Ticks!Minus(IF t = TicksWrap - 1 THEN 0 ELSE t + 1, s) = Ticks!Minus(t, s) + 1
BY DEF Ticks!Minus

(* The invariant holds when the system starts.                             *)
LEMMA InitClock == ASSUME Ticks!ClockAssumption, Ticks!Init PROVE ClockInv
BY DEF Ticks!ClockAssumption, Ticks!Init, ClockInv, Ticks!TypeOK, Counts, SleepsEarly

(* The invariant is kept by every step.                                    *)
LEMMA NextClock ==
  ASSUME Ticks!ClockAssumption, ClockInv, [Ticks!Next]_Ticks!vars PROVE ClockInv'
<1> USE DEF Ticks!ClockAssumption
<1>1. /\ ticks \in 0 .. TicksWrap - 1
      /\ sat \in [Users -> {"user", "loop", "asleep"}]
      /\ n \in [Users -> 0 .. MaxSleep]
      /\ ticks0 \in [Users -> 0 .. TicksWrap - 1]
      /\ skilled \in [Users -> BOOLEAN]
      /\ elapsed \in [Users -> Nat]
  BY DEF ClockInv, Ticks!TypeOK
<1>2. Counts /\ SleepsEarly
  BY DEF ClockInv
<1>3. CASE UNCHANGED Ticks!vars
  BY <1>1, <1>2, <1>3 DEF Ticks!vars, ClockInv, Ticks!TypeOK, Counts, SleepsEarly, Ticks!Minus
<1>4. CASE Ticks!clockintr
  <2>1. /\ \A p \in Users : sat[p] = "loop" => elapsed[p] < n[p] + MaxDelay
        /\ ticks' = IF ticks = TicksWrap - 1 THEN 0 ELSE ticks + 1
        /\ sat' = [p \in Users |-> IF sat[p] = "asleep" THEN "loop" ELSE sat[p]]
        /\ elapsed' = [p \in Users |-> IF sat[p] = "user" THEN 0 ELSE Ticks!More(p)]
        /\ UNCHANGED <<n, ticks0, skilled>>
    BY <1>4 DEF Ticks!clockintr, Ticks!Woken
  <2>2. ASSUME NEW p \in Users, sat[p] # "user"
        PROVE  /\ elapsed'[p] = elapsed[p] + 1
               /\ elapsed'[p] = Ticks!Minus(ticks', ticks0[p])
               /\ elapsed'[p] <= n[p] + MaxDelay
    <3>1. elapsed[p] = Ticks!Minus(ticks, ticks0[p]) /\ elapsed[p] < n[p] + MaxDelay
      BY <1>1, <1>2, <2>1, <2>2 DEF Counts, SleepsEarly
    <3>2. elapsed'[p] = elapsed[p] + 1
      BY <1>1, <2>1, <2>2, <3>1 DEF Ticks!More
    <3>3. Ticks!Minus(ticks', ticks0[p]) = Ticks!Minus(ticks, ticks0[p]) + 1
      BY <1>1, <2>1, <3>1, MinusTick
    <3> QED
      BY <1>1, <3>1, <3>2, <3>3
  <2>3. Ticks!TypeOK'
    BY <1>1, <2>1 DEF Ticks!TypeOK, Ticks!More
  <2>4. Counts'
    BY <1>1, <2>1, <2>2 DEF Counts
  <2>5. SleepsEarly'
    BY <1>1, <2>1 DEF SleepsEarly
  <2> QED
    BY <2>3, <2>4, <2>5 DEF ClockInv
<1>5. ASSUME NEW p \in Users, NEW k \in 0 .. MaxSleep, Ticks!sys_sleep(p, k)
      PROVE  ClockInv'
  BY <1>1, <1>2, <1>5 DEF Ticks!sys_sleep, ClockInv, Ticks!TypeOK, Counts, SleepsEarly, Ticks!Minus
<1>6. ASSUME NEW p \in Users, Ticks!Return(p)
      PROVE  ClockInv'
  BY <1>1, <1>2, <1>6 DEF Ticks!Return, ClockInv, Ticks!TypeOK, Counts, SleepsEarly, Ticks!Minus
<1>7. ASSUME NEW p \in Users, Ticks!Sleep(p)
      PROVE  ClockInv'
  BY <1>1, <1>2, <1>7 DEF Ticks!Sleep, Ticks!Late, ClockInv, Ticks!TypeOK, Counts, SleepsEarly,
                             Ticks!Minus
<1>8. ASSUME NEW p \in Users, Ticks!Kill(p)
      PROVE  ClockInv'
  BY <1>1, <1>2, <1>8 DEF Ticks!Kill, ClockInv, Ticks!TypeOK, Counts, SleepsEarly, Ticks!Minus
<1>9. ASSUME NEW p \in Users, Ticks!Exit(p)
      PROVE  ClockInv'
  BY <1>1, <1>2, <1>9 DEF Ticks!Exit, ClockInv, Ticks!TypeOK, Counts, SleepsEarly, Ticks!Minus
<1> QED
  BY <1>3, <1>4, <1>5, <1>6, <1>7, <1>8, <1>9 DEF Ticks!Next

(* SleepsLongEnough holds of clockintr and sys_sleep: a call returns after *)
(* n ticks or because it was killed.                                       *)
THEOREM SleepsLongEnoughHolds ==
  ASSUME Ticks!ClockAssumption PROVE Ticks!Spec => Ticks!SleepsLongEnough
<1> DEFINE Step ==
      \A p \in Users :
        sat[p] = "loop" /\ sat'[p] = "user" => elapsed[p] >= n[p] \/ skilled[p]
<1>1. Ticks!Init => ClockInv
  BY InitClock
<1>2. ClockInv /\ [Ticks!Next]_Ticks!vars => ClockInv'
  BY NextClock
<1>3. ASSUME ClockInv, Ticks!Next PROVE Step
  <2> SUFFICES ASSUME NEW p \in Users, sat[p] = "loop", sat'[p] = "user"
               PROVE  elapsed[p] >= n[p] \/ skilled[p]
    OBVIOUS
  <2>1. Ticks!Return(p)
    BY <1>3 DEF Ticks!Next, ClockInv, Ticks!TypeOK, Ticks!clockintr, Ticks!Woken,
                Ticks!sys_sleep, Ticks!Return, Ticks!Sleep, Ticks!Kill, Ticks!Exit
  <2> QED
    BY <1>3, <2>1 DEF Ticks!ClockAssumption, Ticks!Return, Ticks!Late, ClockInv, Ticks!TypeOK, Counts
<1>4. ClockInv /\ [Ticks!Next]_Ticks!vars => [Step]_Ticks!vars
  BY <1>3
<1> QED
  BY <1>1, <1>2, <1>4, PTL DEF Ticks!Spec, Ticks!SleepsLongEnough
=============================================================================
