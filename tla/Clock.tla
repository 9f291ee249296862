-------------------------------- MODULE Clock -------------------------------
(***************************************************************************)
(* The clock (kernel/trap.c: clockintr) and the sleep system call          *)
(* (kernel/sysproc.c: sys_sleep).  Both hold tickslock, so that a step is  *)
(* what happens under it; sleep and wakeup are those of module Proc.  The  *)
(* statistics that clockintr updates are read by nobody here.              *)
(***************************************************************************)
EXTENDS Naturals

CONSTANTS
  Procs,
  Wrap,        \* 2^32
  MaxSleep,    \* bound: the n of a call, an int: below 2^31
  MaxDelay     \* assumption: ticks until a process that is RUNNABLE runs

(* What is assumed of the constants: a process that is woken runs before   *)
(* the difference of two readings of ticks can wrap.                       *)
ClockAssumption ==
  /\ Wrap \in Nat /\ MaxSleep \in Nat /\ MaxDelay \in Nat
  /\ MaxSleep + MaxDelay < Wrap

VARIABLES
  ticks,
  at, n, ticks0,  \* of a process: where it is, and its locals
  killed,
  elapsed         \* history: the ticks since ticks0, not wrapped

vars == <<ticks, at, n, ticks0, killed, elapsed>>

Init ==
  /\ ticks = 0
  /\ at = [p \in Procs |-> "user"]
  /\ n = [p \in Procs |-> 0]
  /\ ticks0 = [p \in Procs |-> 0]
  /\ killed = [p \in Procs |-> FALSE]
  /\ elapsed = [p \in Procs |-> 0]

(* a - b, for uints.                                                       *)
Minus(a, b) == IF a >= b THEN a - b ELSE a + Wrap - b

(* Mutant of Late: the wake-up time is computed first.                     *)
Late_Absolute(p) == ticks >= (ticks0[p] + n[p]) % Wrap

(* The test of the loop.                                                   *)
Late(p) == Minus(ticks, ticks0[p]) >= n[p]

(* sys_sleep, up to the loop.                                              *)
sys_sleep(p, k) ==
  /\ at[p] = "user" /\ ~killed[p]
  /\ at' = [at EXCEPT ![p] = "loop"]
  /\ n' = [n EXCEPT ![p] = k]
  /\ ticks0' = [ticks0 EXCEPT ![p] = ticks]
  /\ UNCHANGED <<ticks, killed, elapsed>>

(* One round of the loop, with tickslock: return 0, or -1 when killed.     *)
Return(p) ==
  /\ at[p] = "loop" /\ (Late(p) \/ killed[p])
  /\ at' = [at EXCEPT ![p] = "user"]
  /\ n' = [n EXCEPT ![p] = 0]
  /\ ticks0' = [ticks0 EXCEPT ![p] = 0]
  /\ elapsed' = [elapsed EXCEPT ![p] = 0]
  /\ UNCHANGED <<ticks, killed>>

Sleep(p) ==
  /\ at[p] = "loop" /\ ~Late(p) /\ ~killed[p]
  /\ at' = [at EXCEPT ![p] = "asleep"]
  /\ UNCHANGED <<ticks, n, ticks0, killed, elapsed>>

(* wakeup(&ticks)                                                          *)
Woken == [p \in Procs |-> IF at[p] = "asleep" THEN "loop" ELSE at[p]]

(* The history counts up to where it matters.                              *)
More(p) == IF elapsed[p] <= MaxSleep + MaxDelay THEN elapsed[p] + 1 ELSE elapsed[p]

(* clockintr on CPU 0, which keeps the time; a process that is to run has  *)
(* waited for at most MaxDelay ticks.                                      *)
clockintr ==
  /\ \A p \in Procs : at[p] = "loop" => elapsed[p] < n[p] + MaxDelay
  /\ ticks' = IF ticks = Wrap - 1 THEN 0 ELSE ticks + 1
  /\ at' = Woken
  /\ elapsed' = [p \in Procs |-> IF at[p] = "user" THEN 0 ELSE More(p)]
  /\ UNCHANGED <<n, ticks0, killed>>

(* kill, while the process is in the call; it exits when that returns, and *)
(* another process has its place.                                          *)
Kill(p) ==
  /\ ~killed[p] /\ at[p] # "user"
  /\ killed' = [killed EXCEPT ![p] = TRUE]
  /\ at' = [at EXCEPT ![p] = "loop"]
  /\ UNCHANGED <<ticks, n, ticks0, elapsed>>

Exit(p) ==
  /\ killed[p] /\ at[p] = "user"
  /\ killed' = [killed EXCEPT ![p] = FALSE]
  /\ UNCHANGED <<ticks, at, n, ticks0, elapsed>>

Next ==
  \/ clockintr
  \/ \E p \in Procs :
       \/ \E k \in 0 .. MaxSleep : sys_sleep(p, k)
       \/ Return(p) \/ Sleep(p) \/ Kill(p) \/ Exit(p)

Spec == Init /\ [][Next]_vars

(* The timer keeps interrupting, and processes run.                        *)
Fairness == WF_vars(clockintr) /\ \A p \in Procs : WF_vars(Return(p) \/ Sleep(p))

FairSpec == Spec /\ Fairness
-----------------------------------------------------------------------------
(* The type of every variable. *)
TypeOK ==
  /\ ticks \in 0 .. Wrap - 1
  /\ at \in [Procs -> {"user", "loop", "asleep"}]
  /\ n \in [Procs -> 0 .. MaxSleep]
  /\ ticks0 \in [Procs -> 0 .. Wrap - 1]
  /\ killed \in [Procs -> BOOLEAN]
  /\ elapsed \in [Procs -> Nat]

(* A call returns after n ticks, across the wrap of ticks; one that        *)
(* returns earlier has been killed.                                        *)
SleepsLongEnough ==
  [][\A p \in Procs : at[p] = "loop" /\ at'[p] = "user" => elapsed[p] >= n[p] \/ killed[p]]_vars

(* Every call returns.                                                     *)
SleepReturns == \A p \in Procs : []<>(at[p] = "user")
=============================================================================
