------------------------------ MODULE LabProc ------------------------------
(***************************************************************************)
(* The process table of the scheduling lab (lab_scheduling/end): one lock  *)
(* for the whole table, five schedulers chosen when the kernel is built,   *)
(* and the time statistics that wait2 reports.                             *)
(*                                                                         *)
(* A step is what a CPU does from an acquire of ptable.lock to the next    *)
(* release.  sched() switches to the CPU's scheduler with the lock held,   *)
(* and a process that slept in wait() continues its scan with it: held is  *)
(* the CPU that has the lock between such steps.  The timer interrupt of   *)
(* CPU 0 is three steps, and holds tickslock from the first to the last.   *)
(* Slots and CPUs are numbers; slot 1 is init; 0 is a null pointer.        *)
(***************************************************************************)
EXTENDS Integers, FiniteSets, FiniteSetsExt

CONSTANTS NPROC, CPUs, Policies, Priorities, Tickets,
          DEFAULT_PRIORITY, DEFAULT_TICKETS,
          Niced,     \* bound: the pids that chpr and chtickets are called for
          MaxPid,    \* bound: processes ever created
          MaxTicks   \* bound: clock ticks

Slots == 1..NPROC
TicksChan == NPROC + 1

VARIABLES policy,    \* the build's SCHEDFLAG
          proc,      \* the table: a record for each slot
          np,        \* the slot that a process inside fork() has allocated
          running,   \* cpu->proc
          at,        \* p of each CPU's scheduler loop; 0 outside of it
          held,      \* the CPU that holds ptable.lock between steps, or -1
          nextpid, ticks,
          irq        \* how far CPU 0 is in the timer interrupt

vars == <<policy, proc, np, running, at, held, nextpid, ticks, irq>>

unused == [state |-> "UNUSED", pid |-> 0, parent |-> 0, chan |-> 0,
           killed |-> FALSE, priority |-> DEFAULT_PRIORITY,
           tickets |-> DEFAULT_TICKETS, ctime |-> 0, time |-> 0]

\* userinit() has made init runnable, and no CPU has run it.
Init ==
  /\ policy \in Policies
  /\ proc = [s \in Slots |->
               IF s = 1 THEN [unused EXCEPT !.state = "RUNNABLE", !.pid = 1]
                        ELSE unused]
  /\ np = [s \in Slots |-> 0]
  /\ running = [c \in CPUs |-> 0]
  /\ at = [c \in CPUs |-> 0]
  /\ held = -1
  /\ nextpid = 2
  /\ ticks = 0
  /\ irq = "none"

-----------------------------------------------------------------------------
(* The schedulers: what the loop runs next when its p is at slot k.        *)

Runnable == {s \in Slots : proc[s].state = "RUNNABLE"}

\* The lowest slot among those with the best priority of a set.
Best(S) ==
  LET best == {s \in S : \A o \in S : proc[s].priority <= proc[o].priority}
  IN  Min(best)

highP_Higher(p) ==
  IF \E o \in Runnable : proc[o].priority > proc[p].priority
  THEN Best(Runnable) ELSE p

\* PRIORITY: highP starts as p, and only a strictly better slot replaces it.
highP(p) ==
  IF \E o \in Runnable : proc[o].priority < proc[p].priority
  THEN Best(Runnable) ELSE p

\* SML: the first slot of the first of the queues 1, 2, 3 that has one.
findReadyProcess ==
  LET queued == {s \in Runnable : proc[s].priority \in 1..3}
  IN  IF queued = {} THEN 0 ELSE Best(queued)

totalTickets == MapThenSumSet(LAMBDA s : proc[s].tickets, Runnable)

\* The draws of random(max), whose generator is left open.
random(max) == IF max <= 0 THEN {1} ELSE 0..(max - 1)

\* LOTTERY: every runnable slot draws anew, and is passed over when the draw
\* is not below its tickets.
Wins(s) == \E d \in random(totalTickets) : d - proc[s].tickets < 0
Loses(s) == \E d \in random(totalTickets) : d - proc[s].tickets >= 0

First(S) == IF S = {} THEN 0 ELSE Min(S)

\* The slots the loop may run next from slot k on; 0 when it may end.
Candidates(k) ==
  LET after == {s \in Runnable : s > k}
      p == First(after)
  IN  CASE policy \in {"DEFAULT", "FCFS"} -> {p}
        [] policy = "PRIORITY" -> {IF p = 0 THEN 0 ELSE highP(p)}
        [] policy = "SML" ->
             {IF k < NPROC /\ findReadyProcess # 0 THEN findReadyProcess ELSE p}
        [] policy = "LOTTERY" ->
             {s \in after : Wins(s) /\ \A o \in after : o < s => Loses(o)}
             \cup (IF \A o \in after : Loses(o) THEN {0} ELSE {})

\* scheduler(): acquire or go on with the loop, and run the next process,
\* which releases the lock unless it is inside wait(); or end the loop.
scheduler(c) ==
  /\ running[c] = 0 /\ held \in {-1, c}
  /\ c = 0 => irq = "none"
  /\ \E p \in Candidates(at[c]) :
       /\ at' = [at EXCEPT ![c] = p]
       /\ running' = [running EXCEPT ![c] = p]
       /\ IF p = 0
          THEN held' = -1 /\ UNCHANGED proc
          ELSE /\ held' = IF proc[p].chan = p THEN c ELSE -1
               /\ proc' = [proc EXCEPT ![p].state = "RUNNING",
                             ![p].chan = IF @ = p THEN p ELSE 0]
  /\ UNCHANGED <<policy, np, nextpid, ticks, irq>>

-----------------------------------------------------------------------------
(* What a process does.  sched() leaves the lock with the CPU's scheduler. *)

sched(c) ==
  /\ running' = [running EXCEPT ![c] = 0]
  /\ held' = c

\* CPU c runs a process that may enter the kernel; trap() makes a killed
\* process exit before its system call.
Calls(c) ==
  /\ running[c] # 0 /\ held = -1
  /\ c = 0 => irq = "none"
  /\ np[running[c]] = 0
  /\ ~proc[running[c]].killed

wakeup1_None(ch, table) == table

wakeup1(ch, table) ==
  [s \in Slots |->
     IF table[s].state = "SLEEPING" /\ table[s].chan = ch
     THEN [table[s] EXCEPT !.state = "RUNNABLE"] ELSE table[s]]

\* Timer interrupt on a CPU other than 0, or sys_yield.
yield(c) ==
  /\ running[c] # 0 /\ held = -1
  /\ c = 0 => irq = "none"
  /\ proc' = [proc EXCEPT ![running[c]].state = "RUNNABLE"]
  /\ sched(c)
  /\ UNCHANGED <<policy, np, at, nextpid, ticks, irq>>

\* The first half of fork(): allocproc() takes a slot, under the lock.
allocproc(c) ==
  LET s == First({t \in Slots : proc[t].state = "UNUSED"})
  IN  /\ Calls(c) /\ s # 0 /\ nextpid <= MaxPid
      /\ proc' = [proc EXCEPT ![s].state = "EMBRYO", ![s].pid = nextpid,
                    ![s].priority = DEFAULT_PRIORITY, ![s].ctime = ticks,
                    ![s].time = 0]
      /\ np' = [np EXCEPT ![running[c]] = s]
      /\ nextpid' = nextpid + 1
      /\ UNCHANGED <<policy, running, at, held, ticks, irq>>

InFork(c) ==
  /\ running[c] # 0 /\ held = -1
  /\ c = 0 => irq = "none"
  /\ np[running[c]] # 0

\* kalloc() or copyuvm() fails: the slot is given back, without the lock.
forkfails(c) ==
  /\ InFork(c)
  /\ proc' = [proc EXCEPT ![np[running[c]]].state = "UNUSED"]
  /\ np' = [np EXCEPT ![running[c]] = 0]
  /\ UNCHANGED <<policy, running, at, held, nextpid, ticks, irq>>

\* The rest of fork(): the child is filled in and made runnable.
fork(c) ==
  LET p == running[c]
  IN  /\ InFork(c)
      /\ proc' = [proc EXCEPT ![np[p]].parent = p,
                    ![np[p]].tickets = DEFAULT_TICKETS,
                    ![np[p]].state = "RUNNABLE"]
      /\ np' = [np EXCEPT ![p] = 0]
      /\ UNCHANGED <<policy, running, at, held, nextpid, ticks, irq>>

\* exit(): wake the parent, hand the children to init, become a zombie.
exit(c) ==
  LET p == running[c]
      woken == wakeup1(proc[p].parent, proc)
      kids == {s \in Slots : proc[s].parent = p}
      given == [s \in Slots |->
                  IF s \in kids THEN [woken[s] EXCEPT !.parent = 1] ELSE woken[s]]
      init == IF \E s \in kids : given[s].state = "ZOMBIE"
              THEN wakeup1(1, given) ELSE given
  IN  /\ p \notin {0, 1} /\ held = -1 /\ np[p] = 0
      /\ c = 0 => irq = "none"
      /\ proc' = [init EXCEPT ![p].state = "ZOMBIE"]
      /\ sched(c)
      /\ UNCHANGED <<policy, np, at, nextpid, ticks, irq>>

\* What wait() and wait2() leave of a reaped process: wait() keeps its times
\* and its priority, wait2() clears them.
reaped(p, both) ==
  [p EXCEPT !.state = "UNUSED", !.pid = 0, !.parent = 0, !.killed = FALSE,
            !.ctime = 0, !.time = IF both THEN 0 ELSE @,
            !.priority = IF both THEN 0 ELSE @]

\* wait() and wait2(): from the call, or again after sleep() returned with
\* the lock held.
wait(c) ==
  LET p == running[c]
      kids == {s \in Slots : proc[s].parent = p}
      z == First({s \in kids : proc[s].state = "ZOMBIE"})
      awake == [proc EXCEPT ![p].chan = 0]
  IN  /\ Calls(c) \/ (p # 0 /\ held = c)
      /\ \/ /\ z # 0
            /\ \E both \in BOOLEAN :
                 proc' = [awake EXCEPT ![z] = reaped(@, both)]
            /\ held' = -1
            /\ UNCHANGED running
         \/ /\ z = 0 /\ (kids = {} \/ proc[p].killed)
            /\ proc' = awake
            /\ held' = -1
            /\ UNCHANGED running
         \/ /\ z = 0 /\ kids # {} /\ ~proc[p].killed
            /\ proc' = [proc EXCEPT ![p].chan = p, ![p].state = "SLEEPING"]
            /\ sched(c)
      /\ UNCHANGED <<policy, np, at, nextpid, ticks, irq>>

\* sys_sleep(1): the caller has tickslock until sleep() has ptable.lock.
sleep(c) ==
  /\ Calls(c) /\ irq = "none"
  /\ proc' = [proc EXCEPT ![running[c]].chan = TicksChan,
                ![running[c]].state = "SLEEPING"]
  /\ sched(c)
  /\ UNCHANGED <<policy, np, at, nextpid, ticks, irq>>

\* The first slot with the pid, in use or not: what kill, chpr, chtickets find.
Find(pid) == First({s \in Slots : proc[s].pid = pid})

kill(c, pid) ==
  LET s == Find(pid)
  IN  /\ Calls(c) /\ s # 0
      /\ proc' = [proc EXCEPT ![s].killed = TRUE,
                    ![s].state = IF @ = "SLEEPING" THEN "RUNNABLE" ELSE @]
      /\ UNCHANGED <<policy, np, running, at, held, nextpid, ticks, irq>>

chpr(c, pid, pr) ==
  /\ Calls(c) /\ Find(pid) # 0
  /\ proc' = [proc EXCEPT ![Find(pid)].priority = pr]
  /\ UNCHANGED <<policy, np, running, at, held, nextpid, ticks, irq>>

chtickets(c, pid, n) ==
  /\ Calls(c) /\ Find(pid) # 0
  /\ proc' = [proc EXCEPT ![Find(pid)].tickets = n]
  /\ UNCHANGED <<policy, np, running, at, held, nextpid, ticks, irq>>

-----------------------------------------------------------------------------
(* The timer interrupt of CPU 0.                                           *)

updatestatistics_FallThrough ==
  [s \in Slots |->
     [proc[s] EXCEPT !.time = @ + CASE proc[s].state = "SLEEPING" -> 3
                                    [] proc[s].state = "RUNNABLE" -> 2
                                    [] proc[s].state = "RUNNING" -> 1
                                    [] OTHER -> 0]]

\* One tick of retime, rutime or stime; time is the sum of the three.
updatestatistics ==
  [s \in Slots |->
     IF proc[s].state \in {"SLEEPING", "RUNNABLE", "RUNNING"}
     THEN [proc[s] EXCEPT !.time = @ + 1] ELSE proc[s]]

trap ==
  /\ \/ /\ irq = "none" /\ held # 0 /\ ticks < MaxTicks
        /\ ticks' = ticks + 1
        /\ irq' = "ticked"
        /\ UNCHANGED <<proc, running, held>>
     \/ /\ irq = "ticked" /\ held = -1
        /\ proc' = updatestatistics
        /\ irq' = "counted"
        /\ UNCHANGED <<running, held, ticks>>
     \/ /\ irq = "counted" /\ held = -1
        /\ proc' = wakeup1(TicksChan, proc)
        /\ irq' = "yield"
        /\ UNCHANGED <<running, held, ticks>>
     \/ /\ irq = "yield"
        /\ irq' = "none"
        /\ UNCHANGED ticks
        /\ IF running[0] = 0
           THEN UNCHANGED <<proc, running, held>>
           ELSE /\ held = -1
                /\ proc' = [proc EXCEPT ![running[0]].state = "RUNNABLE"]
                /\ sched(0)
  /\ UNCHANGED <<policy, np, at, nextpid>>

Next ==
  \/ \E c \in CPUs :
       \/ scheduler(c) \/ yield(c)
       \/ allocproc(c) \/ forkfails(c) \/ fork(c)
       \/ exit(c) \/ wait(c) \/ sleep(c)
       \/ \E pid \in 2..MaxPid : kill(c, pid)
       \/ \E pid \in Niced, pr \in Priorities :
            policy \in {"PRIORITY", "SML"} /\ chpr(c, pid, pr)
       \/ \E pid \in Niced, n \in Tickets :
            policy = "LOTTERY" /\ chtickets(c, pid, n)
  \/ trap

Spec == Init /\ [][Next]_vars

-----------------------------------------------------------------------------
\* No wakeup of wait() is lost: who sleeps in wait() is not killed, and has a
\* child, none of its children being a zombie (exit wakes before it sets
\* ZOMBIE, and hands zombies to an init that it wakes).
WaiterHasChild ==
  \A p \in Slots :
    proc[p].state = "SLEEPING" /\ proc[p].chan = p =>
      /\ ~proc[p].killed
      /\ \E s \in Slots : proc[s].parent = p
      /\ \A s \in Slots : proc[s].parent = p => proc[s].state # "ZOMBIE"

\* The times that wait2 reports add up to no more than the ticks since the
\* process was created, and one: fork() may finish between ticks++ and
\* updatestatistics() of one interrupt.
TimesAddUp ==
  \A s \in Slots :
    proc[s].state # "UNUSED" => proc[s].time <= ticks - proc[s].ctime + 1

\* PRIORITY and SML run no process while a runnable one has a better
\* priority, whatever slot the loop has reached.
BestRuns ==
  [][\A c \in CPUs :
       policy \in {"PRIORITY", "SML"} /\ running[c] = 0 /\ running'[c] # 0 =>
         \A s \in Runnable : proc[running'[c]].priority <= proc[s].priority]_vars

=============================================================================
