------------------------------ MODULE Spinlock ------------------------------
(***************************************************************************)
(* Spinlocks (kernel/spinlock.c): acquire, release, holding, push_off and  *)
(* pop_off, on CPUs that are interrupted whenever their interrupts are on  *)
(* (kerneltrap of kernel/trap.c).  The other modules take a spinlock as a  *)
(* variable with its owner; this one shows why they may.                   *)
(*                                                                         *)
(* Code runs on a CPU in one of two contexts: as a base, or as the handler *)
(* of an interrupt of the base.  A context is <<cpu, kind>>.               *)
(***************************************************************************)
EXTENDS Naturals, FiniteSets

CONSTANTS CPUs, Locks, None   \* locks are numbers: they are nested in order

(* What is assumed of the constants. *)
SpinlockAssumption == Locks \subseteq Nat /\ None \notin CPUs

VARIABLES
  locked, cpu,      \* struct spinlock
  noff, intena,     \* struct cpu
  intr,             \* interrupts are enabled (SSTATUS_SIE)
  active,           \* the context that runs on a CPU
  pc, lk, old,      \* of a context: where it is, the lock, the local old
  held,             \*   and the locks of the critical sections it is in
  panicked

vars == <<locked, cpu, noff, intena, intr, active, pc, lk, old, held, panicked>>

Contexts == CPUs \X {"base", "intr"}

Init ==
  /\ locked = [l \in Locks |-> FALSE]
  /\ cpu = [l \in Locks |-> None]
  /\ noff = [c \in CPUs |-> 0]
  /\ intena = [c \in CPUs |-> FALSE]
  /\ intr = [c \in CPUs |-> TRUE]
  /\ active = [c \in CPUs |-> "base"]
  /\ pc = [x \in Contexts |-> "run"]
  /\ lk = [x \in Contexts |-> None]
  /\ old = [x \in Contexts |-> FALSE]
  /\ held = [x \in Contexts |-> {}]
  /\ panicked = FALSE

Running(x, a) == x[2] = active[x[1]] /\ pc[x] = a /\ ~panicked

Goto(x, a) == pc' = [pc EXCEPT ![x] = a]

holding(c, l) == locked[l] /\ cpu[l] = c

-----------------------------------------------------------------------------
(* acquire: push_off reads the interrupt state...                          *)
acquire(x, l) ==
  /\ Running(x, "run")
  /\ \A k \in held[x] : k < l
  /\ lk' = [lk EXCEPT ![x] = l]
  /\ old' = [old EXCEPT ![x] = intr[x[1]]]
  /\ Goto(x, "push_off")
  /\ UNCHANGED <<locked, cpu, noff, intena, intr, active, held, panicked>>

(* ... and turns interrupts off.                                           *)
push_off(x) ==
  LET c == x[1]
  IN /\ Running(x, "push_off")
     /\ intr' = [intr EXCEPT ![c] = FALSE]
     /\ intena' = [intena EXCEPT ![c] = IF noff[c] = 0 THEN old[x] ELSE @]
     /\ noff' = [noff EXCEPT ![c] = @ + 1]
     /\ Goto(x, "check")
     /\ UNCHANGED <<locked, cpu, active, lk, old, held, panicked>>

Check(x) ==
  /\ Running(x, "check")
  /\ panicked' = holding(x[1], lk[x])
  /\ Goto(x, "swap")
  /\ UNCHANGED <<locked, cpu, noff, intena, intr, active, lk, old, held>>

TestAndSet(x) ==
  /\ Running(x, "swap")
  /\ ~locked[lk[x]]
  /\ locked' = [locked EXCEPT ![lk[x]] = TRUE]
  /\ Goto(x, "owner")
  /\ UNCHANGED <<cpu, noff, intena, intr, active, lk, old, held, panicked>>

Acquired(x) ==
  /\ Running(x, "owner")
  /\ cpu' = [cpu EXCEPT ![lk[x]] = x[1]]
  /\ held' = [held EXCEPT ![x] = @ \union {lk[x]}]
  /\ Goto(x, "run")
  /\ UNCHANGED <<locked, noff, intena, intr, active, lk, old, panicked>>

-----------------------------------------------------------------------------
(* release, of any lock that is held.                                      *)
release(x, l) ==
  /\ Running(x, "run")
  /\ l \in held[x]
  /\ lk' = [lk EXCEPT ![x] = l]
  /\ held' = [held EXCEPT ![x] = @ \ {l}]
  /\ panicked' = ~holding(x[1], l)
  /\ cpu' = [cpu EXCEPT ![l] = None]
  /\ Goto(x, "unlock")
  /\ UNCHANGED <<locked, noff, intena, intr, active, old>>

Unlock(x) ==
  /\ Running(x, "unlock")
  /\ locked' = [locked EXCEPT ![lk[x]] = FALSE]
  /\ Goto(x, "pop_off")
  /\ UNCHANGED <<cpu, noff, intena, intr, active, lk, old, held, panicked>>

(* Mutant of pop_off: interrupts are turned on with every lock.            *)
pop_off_Always(x) ==
  LET c == x[1]
  IN /\ Running(x, "pop_off")
     /\ panicked' = (intr[c] \/ noff[c] < 1)
     /\ noff' = [noff EXCEPT ![c] = @ - 1]
     /\ intr' = [intr EXCEPT ![c] = @ \/ intena[c]]
     /\ Goto(x, "run")
     /\ UNCHANGED <<locked, cpu, intena, active, lk, old, held>>

pop_off(x) ==
  LET c == x[1]
  IN /\ Running(x, "pop_off")
     /\ panicked' = (intr[c] \/ noff[c] < 1)
     /\ noff' = [noff EXCEPT ![c] = @ - 1]
     /\ intr' = [intr EXCEPT ![c] = @ \/ (noff[c] = 1 /\ intena[c])]
     /\ Goto(x, "run")
     /\ UNCHANGED <<locked, cpu, intena, active, lk, old, held>>

-----------------------------------------------------------------------------
(* An interrupt, wherever the base is: the trap turns interrupts off...    *)
Interrupt(c) ==
  /\ active[c] = "base" /\ intr[c] /\ ~panicked
  /\ active' = [active EXCEPT ![c] = "intr"]
  /\ intr' = [intr EXCEPT ![c] = FALSE]
  /\ UNCHANGED <<locked, cpu, noff, intena, pc, lk, old, held, panicked>>

(* ... and the return from it turns them on again.                         *)
Return(c) ==
  /\ Running(<<c, "intr">>, "run") /\ active[c] = "intr" /\ held[<<c, "intr">>] = {}
  /\ active' = [active EXCEPT ![c] = "base"]
  /\ intr' = [intr EXCEPT ![c] = TRUE]
  /\ UNCHANGED <<locked, cpu, noff, intena, pc, lk, old, held, panicked>>

Next ==
  \/ \E x \in Contexts :
       \/ \E l \in Locks : acquire(x, l) \/ release(x, l)
       \/ push_off(x) \/ Check(x) \/ TestAndSet(x) \/ Acquired(x)
       \/ Unlock(x) \/ pop_off(x)
  \/ \E c \in CPUs : Interrupt(c) \/ Return(c)

Spec == Init /\ [][Next]_vars
-----------------------------------------------------------------------------
(* The type of every variable. *)
TypeOK ==
  /\ locked \in [Locks -> BOOLEAN] /\ cpu \in [Locks -> CPUs \union {None}]
  /\ noff \in [CPUs -> Nat] /\ intena \in [CPUs -> BOOLEAN]
  /\ intr \in [CPUs -> BOOLEAN] /\ active \in [CPUs -> {"base", "intr"}]
  /\ pc \in [Contexts -> {"run", "push_off", "check", "swap", "owner", "unlock", "pop_off"}]
  /\ lk \in [Contexts -> Locks \union {None}] /\ old \in [Contexts -> BOOLEAN]
  /\ held \in [Contexts -> SUBSET Locks]
  /\ panicked \in BOOLEAN

(* What the other modules rely on when they take a lock for its owner.     *)
(* Critical sections of a lock exclude each other, on different CPUs and   *)
(* between a handler and what it has interrupted.  The checks of acquire,  *)
(* release and pop_off never panic: although holding reads locked and cpu  *)
(* without any lock, it is right about the CPU that asks.  A handler never *)
(* spins on a lock of the code it has interrupted, and code without locks  *)
(* runs with interrupts on.                                                *)
LocksProtect ==
  /\ \A x, y \in Contexts : x # y => held[x] \intersect held[y] = {}
  /\ ~panicked
  /\ \A c \in CPUs :
       /\ active[c] = "intr" =>
            held[<<c, "base">>] = {} /\ pc[<<c, "base">>] \in {"run", "push_off"}
       /\ active[c] = "base" /\ held[<<c, "base">>] = {} /\ pc[<<c, "base">>] = "run" =>
            intr[c]
=============================================================================
