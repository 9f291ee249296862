----------------------------- MODULE MCServices -----------------------------
(***************************************************************************)
(* What waits and must be served, and two programs, checked in one run:    *)
(* the scheduler loops (Scheduler), wait and exit (Proc), calls that wait  *)
(* for the log (Log), console input (Console), console output (Uart),      *)
(* sleep (Clock), the shell (Shell) and grep (Grep).  The initial states   *)
(* choose one of them; the variables of the others keep their initial      *)
(* values.                                                                 *)
(***************************************************************************)
EXTENDS Scheduler, Sequences

CONSTANTS FirstCpu, MaxPid,
          Users, Blocks, Vals, Zero, LOGSIZE, size, MAXOPBLOCKS, OpBlocks,
          Keys, INPUT_BUF_SIZE, Lengths,
          Intr, Chars, UART_TX_BUF_SIZE, MaxWrite, MaxEcho,
          Wrap, TicksWrap, MaxSleep, MaxDelay,
          Words, MAXARGS, NFD,
          Letters, MaxInput, BUF

VARIABLES part,
          pstate, chan, killed, pid, parent, nextpid, plock, wait_lock, proc,
          mode, pc, preempted, idx, widx, np, havekids, ppanic,
          disk, dlog, dhead, cache, pins, lh, outstanding, committing, call,
          wrote, sys, tail, logPanic,
          buf, r, w, e, conslock, reader, rkilled,
          txbuf, txw, txr, txlock, tat, left, idle, irq, echoed,
          ticks, sat, n, ticks0, skilled, elapsed,
          cmd, tree, procs,
          pattern, input, whole, gbuf, printed, done

procVars == <<pstate, chan, killed, pid, parent, nextpid, plock, wait_lock, proc,
              mode, pc, preempted, idx, widx, np, havekids, ppanic>>
logVars == <<disk, dlog, dhead, cache, pins, lh, outstanding, committing, call,
             wrote, sys, tail, logPanic>>
consVars == <<buf, r, w, e, conslock, reader, rkilled>>
uartVars == <<txbuf, txw, txr, txlock, tat, left, idle, irq, echoed>>
clockVars == <<ticks, sat, n, ticks0, skilled, elapsed>>
shellVars == <<cmd, tree, procs>>
grepVars == <<pattern, input, whole, gbuf, printed, done>>
userVars == <<shellVars, grepVars>>
allVars == <<part, vars, procVars, logVars, consVars, uartVars, clockVars, userVars>>

Family == INSTANCE Proc WITH
  NPROC <- 2, state <- pstate, lock <- plock, panicked <- ppanic

Journal == INSTANCE Log WITH
  Procs <- Users, pinned <- pins, pc <- call, panicked <- logPanic

Input == INSTANCE Console WITH Procs <- Users, lock <- conslock, killed <- rkilled

Output == INSTANCE Uart WITH
  Procs <- Users, uart_tx_buf <- txbuf, uart_tx_w <- txw, uart_tx_r <- txr, at <- tat

Ticks == INSTANCE Clock WITH
  Procs <- Users, Wrap <- TicksWrap, at <- sat, killed <- skilled

ASSUME ServiceConstants == Journal!LogAssumption /\ Ticks!ClockAssumption

Syntax == INSTANCE ShellParse

\* Every small command is parsed; these seven are run as well.
Prog == Syntax!execcmd(<<"a">>)
MCRuns ==
  LET from(c) == Syntax!redircmd(c, "a", "<")
      to(c) == Syntax!redircmd(c, "a", ">")
      back(c) == Syntax!backcmd(c)
      list(c, d) == Syntax!listcmd(c, d)
      pipe(c, d) == Syntax!pipecmd(c, d)
  IN {list(back(Prog), pipe(Prog, Prog)),
      pipe(from(Prog), to(Prog)),
      pipe(Prog, pipe(Prog, Prog)),
      pipe(list(Prog, Syntax!execcmd(<<>>)), Prog),
      pipe(back(Prog), from(to(Syntax!execcmd(<<"a", "a">>)))),
      pipe(pipe(Prog, Prog), pipe(Prog, Prog)),
      to(pipe(Prog, back(Prog)))}

\* Patterns with each of the special characters, in their usual places and
\* where they stand for themselves.
MCPatterns ==
  {<<"a">>, <<"^", "a", "*", "b">>, <<"a", ".", "*", "$">>, <<"b", "*", "a">>,
   <<"^", "b", "$">>, <<".", "a">>, <<"$", "*", "b">>, <<"*">>}

Search == INSTANCE Grep WITH Patterns <- MCPatterns, Chars <- Letters, buf <- gbuf, out <- printed

Commands == INSTANCE Shell WITH
  Lines <- Syntax!Commands(2) \union MCRuns, Runs <- MCRuns, proc <- procs

-----------------------------------------------------------------------------
MCInit ==
  /\ part \in {"scheduler", "proc", "log", "console", "uart", "clock", "shell", "grep"}
  /\ Init
  /\ part # "scheduler" => policy = "PRIORITY"
  /\ Family!Init
  /\ Journal!Init
  /\ Input!Init
  /\ Output!Init
  /\ Ticks!Init
  /\ Commands!Init
  /\ part # "shell" => cmd = Syntax!execcmd(<<>>)
  /\ IF part = "grep" THEN Search!Init
     ELSE /\ pattern = <<"*">> /\ input = <<>> /\ whole = <<>>
          /\ gbuf = <<>> /\ printed = <<>> /\ done = FALSE

InScheduler(A) ==
  /\ part = "scheduler" /\ A
  /\ UNCHANGED <<part, procVars, logVars, consVars, uartVars, clockVars, userVars>>
InProc(A) ==
  /\ part = "proc" /\ A
  /\ UNCHANGED <<part, vars, logVars, consVars, uartVars, clockVars, userVars>>
InLog(A) ==
  /\ part = "log" /\ A
  /\ UNCHANGED <<part, vars, procVars, consVars, uartVars, clockVars, userVars>>
InConsole(A) ==
  /\ part = "console" /\ A
  /\ UNCHANGED <<part, vars, procVars, logVars, uartVars, clockVars, userVars>>
InUart(A) ==
  /\ part = "uart" /\ A
  /\ UNCHANGED <<part, vars, procVars, logVars, consVars, clockVars, userVars>>
InClock(A) ==
  /\ part = "clock" /\ A
  /\ UNCHANGED <<part, vars, procVars, logVars, consVars, uartVars, userVars>>
InShell(A) ==
  /\ part = "shell" /\ A
  /\ UNCHANGED <<part, vars, procVars, logVars, consVars, uartVars, clockVars, grepVars>>
InGrep(A) ==
  /\ part = "grep" /\ A
  /\ UNCHANGED <<part, vars, procVars, logVars, consVars, uartVars, clockVars, shellVars>>

MCNext ==
  \/ InScheduler(Next)
  \/ InProc(Family!Next)
  \/ InLog(Journal!Next)
  \/ InConsole(Input!Next)
  \/ InUart(Output!Next)
  \/ InClock(Ticks!Next)
  \/ InShell(Commands!Next)
  \/ InGrep(Search!Next)

-----------------------------------------------------------------------------
(* The fairness of these specifications.     Only one of them takes steps *)
(* in a behaviour, so one condition can stand for a condition of each; i   *)
(* is a CPU, a process or a writer.                                        *)
Cpu(i) == CHOOSE c \in CPUs : i = 1 <=> c = FirstCpu

MCFairness ==
  /\ \A i \in Users :
       /\ SF_allVars(\/ InScheduler(Loop(Cpu(i)))
                     \/ InProc(\E c \in CPUs : Family!Run(c, i - 1))
                     \/ InConsole(Input!Step(i)))
       /\ SF_allVars(\/ InProc(\E c \in CPUs : proc[c] = i - 1 /\ Family!Kernel(c))
                     \/ InUart(i = 1 /\ Output!uartintr /\ irq))
       /\ WF_allVars(\/ InScheduler(\E s \in {"RUNNABLE", "SLEEPING", "UNUSED"} : Stop(Cpu(i), s))
                     \/ InProc(Family!Switch(Cpu(i)))
                     \/ InLog(Journal!Finish(i))
                     \/ InUart(Output!Send(i) \/ Output!Started(i))
                     \/ InClock(Ticks!Return(i) \/ Ticks!Sleep(i)))
       /\ WF_allVars(InScheduler(Unlock(Cpu(i))) \/ InProc(Family!Timer(Cpu(i))))
       /\ WF_allVars(InScheduler(Release(Cpu(i))))
  /\ WF_allVars(\/ InLog(Journal!Recovery)
                \/ InUart(Output!Transmit)
                \/ InClock(Ticks!clockintr)
                \/ InShell(Commands!Step))
  /\ WF_allVars(InUart(Output!Send(Intr) \/ Output!Started(Intr)))

MCSpec == MCInit /\ [][MCNext]_allVars /\ MCFairness

-----------------------------------------------------------------------------
(* Who waits is served: wait returns when a child has exited (Proc), a     *)
(* call that sleeps in begin_op is woken (Log), a read of the console      *)
(* returns when its process is killed (Console), every character in the    *)
(* transmit buffer is sent (Uart), and sleep returns (Clock).              *)
WaitersServed ==
  /\ Family!WaitReturns
  /\ Journal!SleepersWoken
  /\ Input!ReaderReturns
  /\ Output!HeadSent
  /\ Ticks!SleepReturns

\* Console: consoleintr and consoleread are a line editor and a queue.
ImplementsLineInput == Input!ImplementsLineInput

\* Uart: the transmit buffer is a queue.
ImplementsFifo == Output!ImplementsFifo

\* Clock: a sleep of n ticks takes n ticks.
SleepsLongEnough == Ticks!SleepsLongEnough

\* Shell: parsecmd reads a command back from the line that means it.
ReadsBack == Commands!ReadsBack

\* Shell: runcmd connects the programs as the command says.
Wired == Commands!Wired

\* Shell: the prompt comes back.
ShellReturns == Commands!ShellReturns
\* Grep: the lines printed are those that match.
PrintsMatches == Search!PrintsMatches

=============================================================================
