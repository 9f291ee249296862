-------------------------------- MODULE Pipe --------------------------------
(***************************************************************************)
(* Pipes, kernel/pipe.c: pipewrite, piperead and pipeclose on one pipe.    *)
(* Module FileTable adds the files and descriptors through which processes *)
(* get at it.                                                              *)
(*                                                                         *)
(* A process that has pi->lock takes a step for each byte, because kill    *)
(* sets p->killed without that lock.  The counters wrap at CountMod        *)
(* (2^32).  A byte that has been read is None: the code leaves it in the   *)
(* buffer and never reads it again.                                        *)
(***************************************************************************)
EXTENDS Integers, Sequences, FiniteSetsExt

CONSTANTS
  Procs,
  Bytes,
  PIPESIZE,
  CountMod,     \* nread and nwrite are counted modulo CountMod
  MaxN,         \* the largest n of a call
  None

ASSUME PipeAssumption ==
  /\ PIPESIZE \in Nat \ {0}
  /\ CountMod \in Nat /\ CountMod > PIPESIZE /\ CountMod % PIPESIZE = 0
  /\ MaxN \in Nat
  /\ None \notin Procs \cup Bytes

VARIABLES
  pi,           \* the struct pipe: data, nread, nwrite, readopen, writeopen
  lock,         \* who holds pi->lock
  killed,       \* the processes with p->killed set
  pc,           \* where each process is
  n, i,         \* the argument n, and the bytes moved so far
  cut           \* kill has cut off a write that had moved some bytes, and no
                \*   reader has been woken since

pipe == <<pi, lock, n, i, cut>>

NoPipe ==
  [data |-> [k \in 0 .. PIPESIZE - 1 |-> None], nread |-> 0, nwrite |-> 0,
   readopen |-> FALSE, writeopen |-> FALSE]

PipeInit ==
  /\ pi = NoPipe
  /\ lock = None
  /\ killed = {}
  /\ n = [p \in Procs |-> 0]
  /\ i = [p \in Procs |-> 0]
  /\ cut = FALSE

(* The next value of a counter.                                            *)
Inc(k) == (k + 1) % CountMod

Empty == pi.nread = pi.nwrite

(* The counters are compared without regard to wrap-around. *)
Full_NoWrap == pi.nwrite = pi.nread + PIPESIZE

Full == pi.nwrite = (pi.nread + PIPESIZE) % CountMod

Goto(p, at) == pc' = [pc EXCEPT ![p] = at]

(* wakeup(&pi->nread), and wakeup(&pi->nwrite).                            *)
WakeReaders(q) == [p \in Procs |-> IF q[p] = "rsleep" THEN "rlock" ELSE q[p]]
WakeWriters(q) == [p \in Procs |-> IF q[p] = "wsleep" THEN "wlock" ELSE q[p]]

(* acquire(&pi->lock), on entry and when sleep returns.                    *)
PipeLock(p) ==
  /\ pc[p] \in {"wlock", "rlock"}
  /\ lock = None
  /\ lock' = p
  /\ Goto(p, IF pc[p] = "wlock" THEN "wloop" ELSE "rwait")
  /\ UNCHANGED <<pi, killed, n, i, cut>>

(* The call is over: the lock is released, and n and i are gone.           *)
Return(p, q) ==
  /\ lock' = None
  /\ pc' = [q EXCEPT ![p] = "user"]
  /\ n' = [n EXCEPT ![p] = 0]
  /\ i' = [i EXCEPT ![p] = 0]
  /\ UNCHANGED killed
-----------------------------------------------------------------------------
(* pipewrite: the reading end is closed or the process is killed,          *)
WriteFails(p) ==
  /\ pc[p] = "wloop"
  /\ i[p] < n[p]
  /\ ~pi.readopen \/ p \in killed
  /\ cut' = (cut \/ (i[p] > 0 /\ pi.readopen))
  /\ Return(p, pc)
  /\ UNCHANGED pi

Writing(p) == pc[p] = "wloop" /\ i[p] < n[p] /\ pi.readopen /\ p \notin killed

(* the pipe is full,                                                       *)
WriteSleeps(p) ==
  /\ Writing(p)
  /\ Full
  /\ lock' = None
  /\ pc' = [WakeReaders(pc) EXCEPT ![p] = "wsleep"]
  /\ cut' = FALSE
  /\ UNCHANGED <<pi, killed, n, i>>

(* a byte goes in,                                                         *)
WriteByte(p, x) ==
  /\ Writing(p)
  /\ ~Full
  /\ pi' = [pi EXCEPT !.data[pi.nwrite % PIPESIZE] = x, !.nwrite = Inc(@)]
  /\ i' = [i EXCEPT ![p] = @ + 1]
  /\ UNCHANGED <<lock, killed, pc, n, cut>>

(* or the loop ends, also when copyin fails.                               *)
WriteReturns(p) ==
  /\ \/ pc[p] = "wloop" /\ i[p] = n[p]
     \/ Writing(p) /\ ~Full
  /\ Return(p, WakeReaders(pc))
  /\ cut' = FALSE
  /\ UNCHANGED pi

(* piperead: the pipe is empty and can still be written,                   *)
ReadSleeps(p) ==
  /\ pc[p] = "rwait"
  /\ Empty /\ pi.writeopen
  /\ p \notin killed
  /\ lock' = None
  /\ Goto(p, "rsleep")
  /\ UNCHANGED <<pi, killed, n, i, cut>>

ReadKilled(p) ==
  /\ pc[p] = "rwait"
  /\ Empty /\ pi.writeopen
  /\ p \in killed
  /\ Return(p, pc)
  /\ UNCHANGED <<pi, cut>>

(* or there are bytes, or will be none,                                    *)
ReadGo(p) ==
  /\ pc[p] = "rwait"
  /\ ~Empty \/ ~pi.writeopen
  /\ Goto(p, "rcopy")
  /\ UNCHANGED <<pi, lock, killed, n, i, cut>>

(* the pipe without its first byte,                                        *)
Taken == [pi EXCEPT !.data[pi.nread % PIPESIZE] = None, !.nread = Inc(@)]

(* a byte comes out,                                                       *)
ReadByte(p) ==
  /\ pc[p] = "rcopy"
  /\ i[p] < n[p] /\ ~Empty
  /\ pi' = Taken
  /\ i' = [i EXCEPT ![p] = @ + 1]
  /\ UNCHANGED <<lock, killed, pc, n, cut>>

(* cannot be copied to the process, and is gone,                           *)
ReadCopyFails(p) ==
  /\ pc[p] = "rcopy"
  /\ i[p] < n[p] /\ ~Empty
  /\ pi' = Taken
  /\ Return(p, WakeWriters(pc))
  /\ UNCHANGED cut

(* or the loop ends.                                                       *)
ReadReturns(p) ==
  /\ pc[p] = "rcopy"
  /\ i[p] = n[p] \/ Empty
  /\ Return(p, WakeWriters(pc))
  /\ UNCHANGED <<pi, cut>>
-----------------------------------------------------------------------------
(* The pipe when an end is closed; it is freed with the second one.        *)
Closed(writable) ==
  LET c == IF writable THEN [pi EXCEPT !.writeopen = FALSE]
                       ELSE [pi EXCEPT !.readopen = FALSE]
  IN IF c.readopen \/ c.writeopen THEN c ELSE NoPipe

(* Readers are not told that the writing end is closed. *)
CloseWakes_Writers(writable, q) == IF writable THEN q ELSE WakeWriters(q)

(* The wakeups of pipeclose.                                               *)
CloseWakes(writable, q) == IF writable THEN WakeReaders(q) ELSE WakeWriters(q)

(* pipeclose, called by a process that goes on at "then".                  *)
pipeclose(p, writable, then) ==
  /\ lock = None
  /\ pi' = Closed(writable)
  /\ pc' = CloseWakes(writable, [pc EXCEPT ![p] = then])
  /\ cut' = (cut /\ ~writable)
  /\ UNCHANGED <<lock, killed, n, i>>

(* kill: a process that sleeps becomes RUNNABLE.                           *)
kill(p) ==
  /\ pc[p] # "none" /\ p \notin killed
  /\ killed' = killed \cup {p}
  /\ pc' = [pc EXCEPT ![p] = CASE @ = "rsleep" -> "rlock"
                               [] @ = "wsleep" -> "wlock"
                               [] OTHER -> @]
  /\ UNCHANGED pipe

PipeStep(p) ==
  \/ PipeLock(p)
  \/ WriteFails(p) \/ WriteSleeps(p) \/ WriteReturns(p)
  \/ \E x \in Bytes : WriteByte(p, x)
  \/ ReadSleeps(p) \/ ReadKilled(p) \/ ReadGo(p) \/ ReadByte(p) \/ ReadCopyFails(p)
  \/ ReadReturns(p)
-----------------------------------------------------------------------------
(* A reader sleeps only while the pipe is empty and can be written, and a  *)
(* writer only while it is full and can be read.  The exception is a       *)
(* write that kill has cut off: it returns without wakeup, and leaves its  *)
(* bytes to readers that sleep on.                                         *)
NoLostWakeup ==
  lock = None =>
    \A p \in Procs :
      /\ pc[p] = "rsleep" => (Empty \/ cut) /\ pi.writeopen
      /\ pc[p] = "wsleep" => Full /\ pi.readopen

(* The bytes from nread to nwrite.                                         *)
Queue ==
  [k \in 1 .. (pi.nwrite - pi.nread) % CountMod |-> pi.data[(pi.nread + k - 1) % PIPESIZE]]

Stream == INSTANCE Channel WITH
  Size <- PIPESIZE, queue <- Queue, reading <- pi.readopen, writing <- pi.writeopen

(* Bytes are neither lost nor duplicated nor reordered, also when the      *)
(* counters wrap, and ends are closed once.                                *)
ImplementsChannel == Stream!Spec
=============================================================================
