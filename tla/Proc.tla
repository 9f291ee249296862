-------------------------------- MODULE Proc --------------------------------
(***************************************************************************)
(* Processes and CPUs, kernel/proc.c: allocproc, fork, exit, reparent,     *)
(* wait, kill, sleep, wakeup, yield, sched and the part of scheduler that  *)
(* is common to every policy; the calls of yield and exit in usertrap and  *)
(* kerneltrap (kernel/trap.c).                                             *)
(*                                                                         *)
(* A process is the index of its slot; slot 0 is initproc.  Spinlocks are  *)
(* owned by CPUs, as in kernel/spinlock.c: a process that gives up its CPU *)
(* inside sched leaves its own lock to the scheduler of that CPU, which    *)
(* releases it.  A step is what a CPU does between two lock operations;    *)
(* the loops over the process table are steps per slot.                    *)
(*                                                                         *)
(* Memory, open files and the working directory are other modules' part;   *)
(* their calls inside fork and exit change nothing here, except that fork  *)
(* may fail.                                                               *)
(***************************************************************************)
EXTENDS Integers

CONSTANTS
  NPROC,    \* slots of the process table
  CPUs,     \* the harts
  None,     \* no process, no CPU
  MaxPid    \* bound: processes created in a behaviour

ASSUME ProcAssumption ==
  /\ NPROC \in Nat \ {0}
  /\ MaxPid \in Nat \ {0}
  /\ None \notin CPUs /\ None \notin 0 .. NPROC

Procs == 0 .. NPROC - 1
initproc == 0

VARIABLES
  state, chan, killed, pid, parent,  \* the fields of struct proc
  nextpid,
  lock,        \* the CPU that holds p->lock, or None
  wait_lock,   \* the CPU that holds wait_lock, or None
  proc,        \* c->proc
  mode,        \* a CPU is in its scheduler ("sched"), runs proc ("run"), is
               \* inside sched on proc's stack ("out"), is back from it ("back")
  pc,          \* where each process is in the kernel, "user" outside it,
  preempted,   \*   whether it was interrupted there by the timer,
  idx, widx,   \*   and its locals: the slots that its loop and the loop of
  np, havekids,\*   wakeup have reached, fork's child, wait's flag
  panicked

fields == <<state, chan, killed, pid, parent, nextpid>>
locks == <<lock, wait_lock>>
cpus == <<proc, mode>>
locals == <<idx, widx, np, havekids>>
vars == <<state, chan, killed, pid, parent, nextpid, lock, wait_lock, proc, mode,
          pc, preempted, idx, widx, np, havekids, panicked>>

-----------------------------------------------------------------------------
(* procinit and userinit: the first process is ready to run.               *)
Init ==
  /\ state = [p \in Procs |-> IF p = initproc THEN "RUNNABLE" ELSE "UNUSED"]
  /\ chan = [p \in Procs |-> None]
  /\ killed = [p \in Procs |-> FALSE]
  /\ pid = [p \in Procs |-> IF p = initproc THEN 1 ELSE 0]
  /\ parent = [p \in Procs |-> None]
  /\ nextpid = 2
  /\ lock = [p \in Procs |-> None]
  /\ wait_lock = None
  /\ proc = [c \in CPUs |-> None]
  /\ mode = [c \in CPUs |-> "sched"]
  /\ pc = [p \in Procs |-> "forkret"]
  /\ preempted = [p \in Procs |-> FALSE]
  /\ idx = [p \in Procs |-> 0]
  /\ widx = [p \in Procs |-> 0]
  /\ np = [p \in Procs |-> None]
  /\ havekids = [p \in Procs |-> FALSE]
  /\ panicked = FALSE

-----------------------------------------------------------------------------
(* scheduler: a CPU takes the lock of a RUNNABLE process and switches to   *)
(* it.  Which one is the policy's part (module Scheduler).                 *)
Run(c, p) ==
  /\ mode[c] = "sched" /\ ~panicked
  /\ lock[p] = None
  /\ state[p] = "RUNNABLE"
  /\ state' = [state EXCEPT ![p] = "RUNNING"]
  /\ lock' = [lock EXCEPT ![p] = c]
  /\ proc' = [proc EXCEPT ![c] = p]
  /\ mode' = [mode EXCEPT ![c] = "run"]
  /\ UNCHANGED <<chan, killed, pid, parent, nextpid, wait_lock, pc, preempted, locals,
                 panicked>>

(* sched, once its caller holds p->lock and has changed p->state: swtch    *)
(* leaves the stack of the process.                                        *)
sched(c) ==
  /\ mode[c] = "out" /\ ~panicked
  /\ mode' = [mode EXCEPT ![c] = "back"]
  /\ UNCHANGED <<fields, locks, proc, pc, preempted, locals, panicked>>

(* scheduler, after swtch: c->proc = 0 and release(&p->lock).              *)
SchedRelease(c) ==
  /\ mode[c] = "back" /\ ~panicked
  /\ lock' = [lock EXCEPT ![proc[c]] = None]
  /\ proc' = [proc EXCEPT ![c] = None]
  /\ mode' = [mode EXCEPT ![c] = "sched"]
  /\ UNCHANGED <<fields, wait_lock, pc, preempted, locals, panicked>>

(* CPU c executes its process, which is at a given point of the kernel.    *)
At(c, point) ==
  /\ mode[c] = "run" /\ ~panicked
  /\ pc[proc[c]] = point
  /\ ~preempted[proc[c]]

Goto(p, point) == pc' = [pc EXCEPT ![p] = point]

(* The process is switched out with its lock held and a new state.         *)
SwitchOut(c, s) ==
  /\ lock[proc[c]] = None
  /\ lock' = [lock EXCEPT ![proc[c]] = c]
  /\ state' = [state EXCEPT ![proc[c]] = s]
  /\ mode' = [mode EXCEPT ![c] = "out"]

(* Back to user mode; the locals of the system call are gone.              *)
Return(p) ==
  /\ Goto(p, "user")
  /\ idx' = [idx EXCEPT ![p] = 0]
  /\ widx' = [widx EXCEPT ![p] = 0]
  /\ np' = [np EXCEPT ![p] = None]
  /\ havekids' = [havekids EXCEPT ![p] = FALSE]

-----------------------------------------------------------------------------
(* A timer interrupt: yield, from usertrap (unless the process is to exit) *)
(* or from kerneltrap, where interrupts are on while no lock is held.      *)
yield(c) ==
  /\ \/ At(c, "user") /\ ~killed[proc[c]]
     \/ \E point \in {"forkparent", "forkrun", "exit", "waitlock"} : At(c, point)
  /\ SwitchOut(c, "RUNNABLE")
  /\ preempted' = [preempted EXCEPT ![proc[c]] = TRUE]
  /\ UNCHANGED <<chan, killed, pid, parent, nextpid, wait_lock, proc, pc, locals, panicked>>

(* yield, after sched: release(&p->lock).                                  *)
YieldReturn(c) ==
  /\ mode[c] = "run" /\ ~panicked
  /\ preempted[proc[c]]
  /\ lock' = [lock EXCEPT ![proc[c]] = None]
  /\ preempted' = [preempted EXCEPT ![proc[c]] = FALSE]
  /\ UNCHANGED <<fields, wait_lock, cpus, pc, locals, panicked>>

(* A new process releases the lock that the scheduler took.                *)
forkret(c) ==
  /\ At(c, "forkret")
  /\ lock' = [lock EXCEPT ![proc[c]] = None]
  /\ Goto(proc[c], "user")
  /\ UNCHANGED <<fields, wait_lock, cpus, preempted, locals, panicked>>

-----------------------------------------------------------------------------
(* allocproc, called by fork, has found an UNUSED slot.                    *)
allocproc(c, q) ==
  LET p == proc[c]
  IN /\ At(c, "user") /\ ~killed[p]
     /\ nextpid <= MaxPid
     /\ lock[q] = None
     /\ state[q] = "UNUSED"
     /\ lock' = [lock EXCEPT ![q] = c]
     /\ pid' = [pid EXCEPT ![q] = nextpid]
     /\ nextpid' = nextpid + 1
     /\ state' = [state EXCEPT ![q] = "USED"]
     /\ pc' = [pc EXCEPT ![p] = "forkcopy", ![q] = "forkret"]
     /\ np' = [np EXCEPT ![p] = q]
     /\ UNCHANGED <<chan, killed, parent, wait_lock, cpus, preempted, idx, widx, havekids,
                    panicked>>

freeproc(q) ==
  /\ pid' = [pid EXCEPT ![q] = 0]
  /\ parent' = [parent EXCEPT ![q] = None]
  /\ chan' = [chan EXCEPT ![q] = None]
  /\ killed' = [killed EXCEPT ![q] = FALSE]
  /\ state' = [state EXCEPT ![q] = "UNUSED"]

(* An allocation fails in allocproc or in uvmcopy.                         *)
ForkFails(c) ==
  LET p == proc[c]
  IN /\ At(c, "forkcopy")
     /\ freeproc(np[p])
     /\ lock' = [lock EXCEPT ![np[p]] = None]
     /\ Return(p)
     /\ UNCHANGED <<nextpid, wait_lock, cpus, preempted, panicked>>

ForkCopied(c) ==
  LET p == proc[c]
  IN /\ At(c, "forkcopy")
     /\ lock' = [lock EXCEPT ![np[p]] = None]
     /\ Goto(p, "forkparent")
     /\ UNCHANGED <<fields, wait_lock, cpus, preempted, locals, panicked>>

ForkParent(c) ==
  LET p == proc[c]
  IN /\ At(c, "forkparent")
     /\ wait_lock = None
     /\ parent' = [parent EXCEPT ![np[p]] = p]
     /\ Goto(p, "forkrun")
     /\ UNCHANGED <<state, chan, killed, pid, nextpid, locks, cpus, preempted, locals, panicked>>

ForkRun(c) ==
  LET p == proc[c]
  IN /\ At(c, "forkrun")
     /\ lock[np[p]] = None
     /\ state' = [state EXCEPT ![np[p]] = "RUNNABLE"]
     /\ Return(p)
     /\ UNCHANGED <<chan, killed, pid, parent, nextpid, locks, cpus, preempted, panicked>>

-----------------------------------------------------------------------------
(* exit, by system call or because usertrap found the process killed.      *)
Exit(c) ==
  /\ At(c, "user")
  /\ \/ proc[c] = initproc /\ panicked' = TRUE /\ UNCHANGED pc
     \/ proc[c] # initproc /\ Goto(proc[c], "exit") /\ UNCHANGED panicked
  /\ UNCHANGED <<fields, locks, cpus, preempted, locals>>

(* The children are not handed over. *)
ExitLock_NoReparent(c) ==
  /\ At(c, "exit")
  /\ wait_lock = None
  /\ wait_lock' = c
  /\ Goto(proc[c], "wakeparent")
  /\ UNCHANGED <<fields, lock, cpus, preempted, locals, panicked>>

ExitLock(c) ==
  /\ At(c, "exit")
  /\ wait_lock = None
  /\ wait_lock' = c
  /\ Goto(proc[c], "reparent")
  /\ UNCHANGED <<fields, lock, cpus, preempted, locals, panicked>>

(* reparent, one slot: a child goes to initproc, and initproc is woken.    *)
reparent(c) ==
  LET p == proc[c]
      q == idx[p]
  IN /\ At(c, "reparent")
     /\ \/ /\ q < NPROC /\ parent[q] = p
           /\ parent' = [parent EXCEPT ![q] = initproc]
           /\ Goto(p, "wakeinit")
           /\ UNCHANGED idx
        \/ /\ q < NPROC /\ parent[q] # p
           /\ idx' = [idx EXCEPT ![p] = @ + 1]
           /\ UNCHANGED <<parent, pc>>
        \/ /\ q = NPROC
           /\ idx' = [idx EXCEPT ![p] = 0]
           /\ Goto(p, "wakeparent")
           /\ UNCHANGED parent
     /\ UNCHANGED <<state, chan, killed, pid, nextpid, locks, cpus, preempted, widx, np,
                    havekids, panicked>>

(* wakeup, one slot, skipping the process itself.                          *)
WakeupSlot(c, channel) ==
  LET p == proc[c]
      q == widx[p]
  IN /\ q < NPROC
     /\ q # p => lock[q] = None
     /\ state' = IF q # p /\ state[q] = "SLEEPING" /\ chan[q] = channel
                 THEN [state EXCEPT ![q] = "RUNNABLE"] ELSE state
     /\ widx' = [widx EXCEPT ![p] = @ + 1]
     /\ UNCHANGED <<pc, idx>>

WakeupDone(c, point, slot) ==
  LET p == proc[c]
  IN /\ widx[p] = NPROC
     /\ widx' = [widx EXCEPT ![p] = 0]
     /\ idx' = [idx EXCEPT ![p] = slot]
     /\ Goto(p, point)
     /\ UNCHANGED state

(* wakeup(initproc) in reparent, which goes on with the next slot.         *)
WakeInit(c) ==
  /\ At(c, "wakeinit")
  /\ \/ WakeupSlot(c, initproc)
     \/ WakeupDone(c, "reparent", idx[proc[c]] + 1)
  /\ UNCHANGED <<chan, killed, pid, parent, nextpid, locks, cpus, preempted, np, havekids,
                 panicked>>

(* The parent is not woken. *)
WakeParent_Missed(c) ==
  /\ At(c, "wakeparent")
  /\ Goto(proc[c], "zombie")
  /\ UNCHANGED <<state, idx, widx, chan, killed, pid, parent, nextpid, locks, cpus, preempted, np, havekids,
                 panicked>>

(* wakeup(p->parent) in exit.                                              *)
WakeParent(c) ==
  /\ At(c, "wakeparent")
  /\ \/ WakeupSlot(c, parent[proc[c]])
     \/ WakeupDone(c, "zombie", 0)
  /\ UNCHANGED <<chan, killed, pid, parent, nextpid, locks, cpus, preempted, np, havekids,
                 panicked>>

(* The last steps of exit: ZOMBIE under p->lock, then wait_lock is         *)
(* released, and sched never returns.                                      *)
ExitZombie(c) ==
  /\ At(c, "zombie")
  /\ SwitchOut(c, "ZOMBIE")
  /\ wait_lock' = None
  /\ UNCHANGED <<chan, killed, pid, parent, nextpid, proc, pc, preempted, locals, panicked>>

-----------------------------------------------------------------------------
(* wait and wait2.                                                         *)
Wait(c) ==
  /\ At(c, "user") /\ ~killed[proc[c]]
  /\ Goto(proc[c], "waitlock")
  /\ UNCHANGED <<fields, locks, cpus, preempted, locals, panicked>>

WaitLock(c) ==
  /\ At(c, "waitlock")
  /\ wait_lock = None
  /\ wait_lock' = c
  /\ Goto(proc[c], "waitscan")
  /\ UNCHANGED <<fields, lock, cpus, preempted, locals, panicked>>

(* A slot that is not a child, or a child that has not exited.             *)
WaitSkip(c) ==
  LET p == proc[c]
      q == idx[p]
  IN /\ At(c, "waitscan")
     /\ q < NPROC
     /\ parent[q] = p => lock[q] = None /\ state[q] # "ZOMBIE"
     /\ idx' = [idx EXCEPT ![p] = @ + 1]
     /\ havekids' = [havekids EXCEPT ![p] = @ \/ parent[q] = p]
     /\ UNCHANGED <<fields, locks, cpus, pc, preempted, widx, np, panicked>>

(* The lock of the child is not taken. *)
WaitReap_NoLock(c) ==
  LET p == proc[c]
      q == idx[p]
  IN /\ At(c, "waitscan")
     /\ q < NPROC /\ parent[q] = p
     /\ state[q] = "ZOMBIE"
     /\ freeproc(q)
     /\ wait_lock' = None
     /\ Return(p)
     /\ UNCHANGED <<nextpid, lock, cpus, preempted, panicked>>

(* An exited child is freed and its pid returned.                          *)
WaitReap(c) ==
  LET p == proc[c]
      q == idx[p]
  IN /\ At(c, "waitscan")
     /\ q < NPROC /\ parent[q] = p
     /\ lock[q] = None
     /\ state[q] = "ZOMBIE"
     /\ freeproc(q)
     /\ wait_lock' = None
     /\ Return(p)
     /\ UNCHANGED <<nextpid, lock, cpus, preempted, panicked>>

(* copyout of the status or of a statistic fails: -1, the child stays.     *)
WaitCopyFails(c) ==
  LET p == proc[c]
      q == idx[p]
  IN /\ At(c, "waitscan")
     /\ q < NPROC /\ parent[q] = p
     /\ lock[q] = None
     /\ state[q] = "ZOMBIE"
     /\ wait_lock' = None
     /\ Return(p)
     /\ UNCHANGED <<fields, lock, cpus, preempted, panicked>>

(* No children, or killed: -1.                                             *)
WaitNone(c) ==
  LET p == proc[c]
  IN /\ At(c, "waitscan")
     /\ idx[p] = NPROC
     /\ \/ ~havekids[p]
        \/ lock[p] = None /\ killed[p]
     /\ wait_lock' = None
     /\ Return(p)
     /\ UNCHANGED <<fields, lock, cpus, preempted, panicked>>

(* killed(p) was false; between that and sleep p->lock is free.            *)
WaitNotKilled(c) ==
  LET p == proc[c]
  IN /\ At(c, "waitscan")
     /\ idx[p] = NPROC
     /\ havekids[p]
     /\ lock[p] = None /\ ~killed[p]
     /\ Goto(p, "sleep")
     /\ UNCHANGED <<fields, locks, cpus, preempted, locals, panicked>>

(* wait_lock is not released. *)
sleep_KeepsLock(c) ==
  LET p == proc[c]
  IN /\ At(c, "sleep")
     /\ SwitchOut(c, "SLEEPING")
     /\ chan' = [chan EXCEPT ![p] = p]
     /\ Goto(p, "slept")
     /\ UNCHANGED <<killed, pid, parent, nextpid, wait_lock, proc, preempted, locals, panicked>>

(* sleep(p, &wait_lock): p->lock is taken before wait_lock is released.    *)
sleep(c) ==
  LET p == proc[c]
  IN /\ At(c, "sleep")
     /\ SwitchOut(c, "SLEEPING")
     /\ wait_lock' = None
     /\ chan' = [chan EXCEPT ![p] = p]
     /\ Goto(p, "slept")
     /\ UNCHANGED <<killed, pid, parent, nextpid, proc, preempted, locals, panicked>>

(* sleep, after sched; wait scans the table again.                         *)
SleepReturn(c) ==
  LET p == proc[c]
  IN /\ At(c, "slept")
     /\ chan' = [chan EXCEPT ![p] = None]
     /\ lock' = [lock EXCEPT ![p] = None]
     /\ Goto(p, "waitlock")
     /\ idx' = [idx EXCEPT ![p] = 0]
     /\ havekids' = [havekids EXCEPT ![p] = FALSE]
     /\ UNCHANGED <<state, killed, pid, parent, nextpid, wait_lock, cpus, preempted, widx, np,
                    panicked>>

-----------------------------------------------------------------------------
(* kill(pid) has reached a slot with that pid; an UNUSED slot has pid 0.   *)
kill(c, n, q) ==
  /\ At(c, "user") /\ ~killed[proc[c]]
  /\ lock[q] = None
  /\ pid[q] = n
  /\ killed' = [killed EXCEPT ![q] = TRUE]
  /\ state' = IF state[q] = "SLEEPING" THEN [state EXCEPT ![q] = "RUNNABLE"] ELSE state
  /\ UNCHANGED <<chan, pid, parent, nextpid, locks, cpus, pc, preempted, locals, panicked>>

(* panic stops every CPU.                                                  *)
Panicked == panicked /\ UNCHANGED vars

-----------------------------------------------------------------------------
(* Switching between a process and the scheduler of its CPU.               *)
Switch(c) == sched(c) \/ SchedRelease(c) \/ YieldReturn(c) \/ forkret(c)

(* One step of a system call of the process that CPU c runs.               *)
Kernel(c) ==
  \/ ForkFails(c) \/ ForkCopied(c) \/ ForkParent(c) \/ ForkRun(c)
  \/ ExitLock(c) \/ reparent(c) \/ WakeInit(c) \/ WakeParent(c) \/ ExitZombie(c)
  \/ WaitLock(c) \/ WaitSkip(c) \/ WaitReap(c) \/ WaitCopyFails(c) \/ WaitNone(c)
  \/ WaitNotKilled(c) \/ sleep(c) \/ SleepReturn(c)

(* What a process does in user mode, and timer interrupts.                 *)
User(c) ==
  \/ yield(c) \/ Exit(c) \/ Wait(c)
  \/ \E q \in Procs : allocproc(c, q)
  \/ \E n \in 0 .. MaxPid, q \in Procs : kill(c, n, q)

Next ==
  \/ \E c \in CPUs : Switch(c) \/ Kernel(c) \/ User(c) \/ \E p \in Procs : Run(c, p)
  \/ Panicked

Spec == Init /\ [][Next]_vars

(* A timer interrupt in user mode or with interrupts on in the kernel; a   *)
(* killed process exits at the next one.                                   *)
Timer(c) == yield(c) \/ (At(c, "user") /\ killed[proc[c]] /\ Exit(c))

(* CPUs go on executing, and timer interrupts keep coming, but not so fast *)
(* that a process never gets a step done between two of them; a spinlock   *)
(* that is free again and again is eventually acquired, and the scheduler  *)
(* loops reach every RUNNABLE process.                                     *)
Fairness ==
  /\ \A c \in CPUs : WF_vars(Switch(c)) /\ WF_vars(Timer(c))
  /\ \A p \in Procs :
       /\ SF_vars(\E c \in CPUs : Run(c, p))
       /\ SF_vars(\E c \in CPUs : proc[c] = p /\ Kernel(c))

FairSpec == Spec /\ Fairness
-----------------------------------------------------------------------------
(* The type of every variable. *)
TypeOK ==
  /\ state \in [Procs -> {"UNUSED", "USED", "SLEEPING", "RUNNABLE", "RUNNING", "ZOMBIE"}]
  /\ chan \in [Procs -> Procs \cup {None}]
  /\ killed \in [Procs -> BOOLEAN]
  /\ pid \in [Procs -> 0 .. MaxPid]
  /\ parent \in [Procs -> Procs \cup {None}]
  /\ nextpid \in 2 .. MaxPid + 1
  /\ lock \in [Procs -> CPUs \cup {None}]
  /\ wait_lock \in CPUs \cup {None}
  /\ proc \in [CPUs -> Procs \cup {None}]
  /\ mode \in [CPUs -> {"sched", "run", "out", "back"}]
  /\ pc \in [Procs -> {"user", "forkret", "forkcopy", "forkparent", "forkrun", "exit",
                       "reparent", "wakeinit", "wakeparent", "zombie", "waitlock",
                       "waitscan", "sleep", "slept"}]
  /\ preempted \in [Procs -> BOOLEAN]
  /\ idx \in [Procs -> 0 .. NPROC]
  /\ widx \in [Procs -> 0 .. NPROC]
  /\ np \in [Procs -> Procs \cup {None}]
  /\ havekids \in [Procs -> BOOLEAN]
  /\ panicked \in BOOLEAN

OnStack(c, p) == proc[c] = p /\ mode[c] \in {"run", "out"}

(* A kernel stack has one user: no two CPUs execute the same process, and  *)
(* wait never frees a process whose stack a CPU has not left yet.          *)
StackUsedOnce ==
  \A c \in CPUs, p \in Procs :
    OnStack(c, p) => /\ state[p] \notin {"UNUSED", "USED"}
                     /\ \A d \in CPUs \ {c} : ~OnStack(d, p)

(* The checks at the head of sched never panic: it is entered with p->lock *)
(* held, no other lock held, and p->state no longer RUNNING.               *)
SchedChecks ==
  \A c \in CPUs :
    mode[c] = "out" => /\ {q \in Procs : lock[q] = c} = {proc[c]}
                       /\ wait_lock # c
                       /\ state[proc[c]] # "RUNNING"

(* A process is RUNNING exactly while a CPU runs it.                       *)
RunningOnCpu ==
  \A p \in Procs :
    state[p] = "RUNNING" <=> \E c \in CPUs : proc[c] = p /\ mode[c] = "run"

(* No wakeup is lost: while nobody is inside a critical section of         *)
(* wait_lock, no process sleeps in wait with an exited child.              *)
NoLostWakeup ==
  wait_lock = None =>
    \A p, q \in Procs :
      state[p] = "SLEEPING" /\ parent[q] = p => state[q] # "ZOMBIE"

(* Every process but the first has a parent that can still wait for it:    *)
(* fork sets it before the child can run, and exit hands children over     *)
(* before it becomes a zombie.                                             *)
ParentCanWait ==
  wait_lock = None =>
    \A q \in Procs \ {initproc} :
      state[q] \notin {"UNUSED", "USED"} =>
        /\ parent[q] # None
        /\ state[parent[q]] \notin {"UNUSED", "USED", "ZOMBIE"}

(* Pids are unique among the slots in use, so kill finds at most one       *)
(* process.                                                                *)
PidsUnique ==
  \A p, q \in Procs :
    state[p] # "UNUSED" /\ p # q => pid[p] # 0 /\ pid[p] # pid[q]

(* A process that has an exited child does not stay in wait for ever.      *)
WaitReturns ==
  \A p \in Procs :
    []<>( \/ panicked
          \/ pc[p] \notin {"waitlock", "waitscan", "sleep", "slept"}
          \/ \A q \in Procs : parent[q] = p => state[q] # "ZOMBIE" )
=============================================================================
