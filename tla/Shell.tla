------------------------------- MODULE Shell -------------------------------
(***************************************************************************)
(* How the shell runs a command (runcmd in user/sh.c): the processes it    *)
(* forks for the parts of the command, their file descriptors, and the     *)
(* waits.  A process is named by the place in the command that it was      *)
(* forked for: a sequence of 1 (left, or only part) and 2 (right); Sh is   *)
(* the shell itself.  A pipe is named by the place of its "|".             *)
(* The calls a new process makes on its own descriptors before it goes on  *)
(* are one step; fork, exec, exit and wait are steps of their own.  The    *)
(* programs are external: they read until the end of their input, or stop  *)
(* earlier.                                                                *)
(***************************************************************************)
EXTENDS ShellParse, FiniteSetsExt, TLC

CONSTANTS Lines,   \* bound: the commands typed
          Runs,    \* bound: those of them that are run
          NFD      \* bound: descriptors of a process

Sh == <<0>>
InitProc == <<0, 0>>
closed == <<"closed">>
cons == <<"console">>
Rd(n) == <<"read end", n>>
Wr(n) == <<"write end", n>>

VARIABLES cmd,    \* the command, as it was meant
          tree,   \* what the child's parser makes of the line that was read
          proc    \* the live processes

vars == <<cmd, tree, proc>>

FDs == 0..(NFD - 1)
stdfds == [f \in FDs |-> IF f < 3 THEN cons ELSE closed]

\* The command was typed, and sh is about to fork for it.
Init ==
  /\ cmd \in Lines
  /\ tree = parsecmd(Show(cmd)).cmd
  /\ proc = Sh :> [pc |-> "prompt", at |-> <<>>, fd |-> stdfds, p |-> <<0, 0>>,
                   parent |-> InitProc]

RECURSIVE Node(_, _)
Node(c, path) ==
  IF path = <<>> THEN c
  ELSE Node(IF c.type \in {"REDIR", "BACK"} THEN c.cmd
            ELSE IF Head(path) = 1 THEN c.left ELSE c.right, Tail(path))

-----------------------------------------------------------------------------
\* exit(): its descriptors are closed, its children go to init, and it is a
\* zombie for its parent.  init reaps what it is given at once.
Exited(p) ==
  LET left == [q \in DOMAIN proc |->
                 IF q = p
                 THEN [proc[q] EXCEPT !.pc = "zombie", !.fd = [f \in FDs |-> closed]]
                 ELSE IF proc[q].parent = p THEN [proc[q] EXCEPT !.parent = InitProc]
                 ELSE proc[q]]
      stay == {q \in DOMAIN left :
                 ~(left[q].pc = "zombie" /\ left[q].parent = InitProc)}
  IN  proc' = [q \in stay |-> left[q]]

\* fork1(): the child goes on at place child with pc c, the caller with pc q;
\* a fork that fails ends the caller.
fork1(p, child, c, q) ==
  \/ proc' = (child :> [proc[p] EXCEPT !.pc = c, !.at = child, !.parent = p])
               @@ [proc EXCEPT ![p].pc = q]
  \/ Exited(p)

\* wait(0): one zombie child, or at once when there is no child.
wait(p, next) ==
  LET kids == {q \in DOMAIN proc : proc[q].parent = p}
  IN  \/ /\ kids = {}
         /\ proc' = [proc EXCEPT ![p] = next]
      \/ \E z \in kids :
           /\ proc[z].pc = "zombie"
           /\ proc' = [q \in DOMAIN proc \ {z} |-> IF q = p THEN next ELSE proc[q]]

Lowest(fd) == Min({f \in FDs : fd[f] = closed})
dup(fd, f) == [fd EXCEPT ![Lowest(fd)] = fd[f]]
close(fd, fs) == [f \in FDs |-> IF f \in fs THEN closed ELSE fd[f]]

-----------------------------------------------------------------------------
\* main(): fork for the command, and wait for that child.
main ==
  LET sh == proc[Sh]
  IN  \/ /\ sh.pc = "prompt" /\ cmd \in Runs
         /\ fork1(Sh, <<>>, "parse", "waiting")
      \/ /\ sh.pc = "waiting"
         /\ wait(Sh, [sh EXCEPT !.pc = "done"])

\* runcmd(), from its switch to the next call that another process sees.
runcmd(p) ==
  LET me == proc[p]
      c == Node(tree, me.at)
      part(i) == Append(me.at, i)
  IN  /\ me.pc = "run"
      /\ \/ /\ c.type = "EXEC" /\ c.argv # <<>>
            /\ proc' = [proc EXCEPT ![p].pc = "prog"]
         \/ /\ c.type = "EXEC"
            /\ Exited(p)
         \/ /\ c.type = "REDIR"
            /\ \/ LET fd == close(me.fd, {c.fd})
                  IN  proc' = [proc EXCEPT ![p].at = part(1),
                                 ![p].fd = [fd EXCEPT ![Lowest(fd)] = <<"file", c.file>>]]
               \/ Exited(p)
         \/ c.type = "LIST" /\ fork1(p, part(1), "run", "list")
         \/ c.type = "BACK" /\ fork1(p, part(1), "run", "exit")
         \/ /\ c.type = "PIPE"
            /\ \/ LET p0 == Lowest(me.fd)
                      fd == [me.fd EXCEPT ![p0] = Rd(me.at)]
                      p1 == Lowest(fd)
                  IN  /\ \E f, g \in FDs : f # g /\ me.fd[f] = closed /\ me.fd[g] = closed
                      /\ proc' = [proc EXCEPT ![p].pc = "pipe1", ![p].p = <<p0, p1>>,
                                    ![p].fd = [fd EXCEPT ![p1] = Wr(me.at)]]
               \/ Exited(p)

redirect_Keep(p, std, end) ==
  proc' = [proc EXCEPT ![p].pc = "run",
             ![p].fd = dup(close(@, {std}), proc[p].p[end])]

\* The two children of a pipe put its end in the place of 1 or 0.
redirect(p, std, end) ==
  LET me == proc[p]
      fd == dup(close(me.fd, {std}), me.p[end])
  IN  proc' = [proc EXCEPT ![p].pc = "run",
                 ![p].fd = close(fd, {me.p[1], me.p[2]})]

CloseEnds_Read(p) ==
  proc' = [proc EXCEPT ![p].pc = "wait2", ![p].fd = close(@, {proc[p].p[1]})]

CloseEnds(p) ==
  proc' = [proc EXCEPT ![p].pc = "wait2",
             ![p].fd = close(@, {proc[p].p[1], proc[p].p[2]})]

\* What follows in runcmd() after a fork or a wait.
goeson(p) ==
  LET me == proc[p]
      part(i) == Append(me.at, i)
  IN  \/ /\ me.pc = "parse"
         /\ IF tree = Panic.cmd THEN Exited(p)
            ELSE proc' = [proc EXCEPT ![p].pc = "run"]
      \/ me.pc = "left" /\ redirect(p, 1, 2)
      \/ me.pc = "right" /\ redirect(p, 0, 1)
      \/ me.pc = "pipe1" /\ fork1(p, part(1), "left", "pipe2")
      \/ me.pc = "pipe2" /\ fork1(p, part(2), "right", "close")
      \/ me.pc = "close" /\ CloseEnds(p)
      \/ me.pc = "wait2" /\ wait(p, [me EXCEPT !.pc = "wait1"])
      \/ me.pc = "wait1" /\ wait(p, [me EXCEPT !.pc = "exit"])
      \/ me.pc = "list" /\ wait(p, [me EXCEPT !.pc = "run", !.at = part(2)])
      \/ me.pc = "exit" /\ Exited(p)

\* A program ends when its input does: a pipe's, when no write end is open.
EndOfInput(p) ==
  /\ proc[p].pc = "prog"
  /\ \A q \in DOMAIN proc, f \in FDs :
       proc[q].fd[f][1] = "write end" => proc[p].fd[0] # Rd(proc[q].fd[f][2])
  /\ Exited(p)

\* A program may stop before.
Stops(p) == proc[p].pc = "prog" /\ Exited(p)

Step ==
  /\ \/ Sh \in DOMAIN proc /\ main
     \/ \E p \in DOMAIN proc : runcmd(p) \/ goeson(p) \/ EndOfInput(p)
  /\ UNCHANGED <<cmd, tree>>

\* Back at the prompt; or sh has ended because it could not fork.
Back == Sh \in DOMAIN proc => proc[Sh].pc = "done"

Done == (cmd \in Runs => Back) /\ UNCHANGED vars

Next ==
  \/ Step
  \/ UNCHANGED <<cmd, tree>> /\ \E p \in DOMAIN proc : Stops(p)
  \/ Done

Spec == Init /\ [][Next]_vars

\* Some process goes on while one can.  No part of a command runs twice, so
\* this is all the fairness that is needed.
FairSpec == Spec /\ WF_vars(Step)

-----------------------------------------------------------------------------
\* The parser reads a command back from the line that means it: precedence,
\* associativity, blocks, and where the redirections belong.
ReadsBack == tree = cmd

\* What the descriptors 0 and 1 of a part of the command are to be.
RECURSIVE Std(_, _, _, _, _)
Std(c, here, path, in, out) ==
  CASE c.type = "REDIR" ->
         Std(c.cmd, Append(here, 1), Tail(path),
             IF c.fd = 0 THEN <<"file", c.file>> ELSE in,
             IF c.fd = 1 THEN <<"file", c.file>> ELSE out)
    [] c.type = "EXEC" -> <<in, out>>
    [] c.type = "BACK" -> Std(c.cmd, Append(here, 1), Tail(path), in, out)
    [] c.type = "LIST" ->
         Std(IF Head(path) = 1 THEN c.left ELSE c.right,
             Append(here, Head(path)), Tail(path), in, out)
    [] c.type = "PIPE" ->
         IF Head(path) = 1
         THEN Std(c.left, Append(here, 1), Tail(path), in, Wr(here))
         ELSE Std(c.right, Append(here, 2), Tail(path), Rd(here), out)

\* A program starts with the input and output that the command says, the
\* console as its error output, and no other descriptor open: no end of a
\* pipe is left in a process that would keep its reader waiting.
Wired ==
  \A p \in DOMAIN proc :
    proc[p].pc = "prog" =>
      LET std == Std(cmd, <<>>, proc[p].at, cons, cons)
      IN  proc[p].fd = [f \in FDs |-> IF f = 0 THEN std[1] ELSE IF f = 1 THEN std[2]
                                     ELSE IF f = 2 THEN cons ELSE closed]

\* The shell comes back to its prompt, though every program of a pipeline
\* reads until the end of its input, and whatever forks and opens fail.
ShellReturns == []<>(cmd \in Runs => Back)

=============================================================================
