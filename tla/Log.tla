-------------------------------- MODULE Log ---------------------------------
(***************************************************************************)
(* The logging layer, kernel/log.c: begin_op, log_write, end_op, commit,   *)
(* and recovery after a crash.                                             *)
(*                                                                         *)
(* Every write of a block to the disk is a step, and the machine may stop  *)
(* between any two of them.  Writing one block is atomic.  The buffer      *)
(* cache is what it holds for each home block: a block that is not pinned  *)
(* may be dropped at any time and read again from its home location.       *)
(***************************************************************************)
EXTENDS Integers, Sequences, FiniteSets

CONSTANTS
  Procs,        \* processes that make file-system calls
  Blocks,       \* home blocks
  Vals, Zero,   \* contents of a block, and the contents mkfs writes
  LOGSIZE,      \* blocks in the log
  size,         \* log.size: the log blocks on disk, header included (mkfs
                \*   writes LOGSIZE)
  MAXOPBLOCKS,  \* blocks that begin_op reserves for a call
  OpBlocks      \* different blocks that a call writes

(* What is assumed of the constants. *)
LogAssumption ==
  /\ Zero \in Vals
  /\ IsFiniteSet(Blocks)
  /\ LOGSIZE \in Nat /\ MAXOPBLOCKS \in Nat \ {0} /\ size \in Nat \ {0}
  /\ OpBlocks \in 1 .. MAXOPBLOCKS
  /\ MAXOPBLOCKS <= LOGSIZE

(* What a call leaves of its reservation, and the slots that can be in use *)
(* when every call has written all it may.  A call alone starts with an    *)
(* empty log; two or more leave a slot each for every block they spare.    *)
Spare == MAXOPBLOCKS - OpBlocks

InUse == IF OpBlocks >= LOGSIZE - 2 * Spare THEN OpBlocks ELSE LOGSIZE - 2 * Spare

SpaceAssumption == LogAssumption /\ InUse < LOGSIZE /\ InUse < size - 1

VARIABLES
  disk,         \* the home location of each block
  dlog,         \* the log blocks on disk
  dhead,        \* the header block on disk: the block numbers of the log
  cache,        \* the buffer of each home block
  pinned,       \* the blocks that log_write pinned
  lh,           \* log.lh
  outstanding, committing,
  pc,           \* where each process is in begin_op, a call, or end_op
  wrote,        \* the blocks a process has written in its call
  sys,          \* "up", or the step of recover_from_log
  tail,         \* the loop counter of write_log and install_trans
  panicked

ondisk == <<disk, dlog, dhead>>
vars == <<disk, dlog, dhead, cache, pinned, lh, outstanding, committing, pc, wrote,
          sys, tail, panicked>>

Init ==
  /\ disk = [b \in Blocks |-> Zero]
  /\ dlog = [i \in 1 .. size - 1 |-> Zero]
  /\ dhead = <<>>
  /\ cache = disk
  /\ pinned = {}
  /\ lh = <<>>
  /\ outstanding = 0
  /\ committing = FALSE
  /\ pc = [p \in Procs |-> "idle"]
  /\ wrote = [p \in Procs |-> {}]
  /\ sys = "up"
  /\ tail = 0
  /\ panicked = FALSE

Running == sys = "up" /\ ~panicked

Logged == {lh[i] : i \in 1 .. Len(lh)}
-----------------------------------------------------------------------------
(* Blocks that are in the log already are forgotten. *)
NoSpace_Reserved == (outstanding + 1) * MAXOPBLOCKS > LOGSIZE

(* begin_op's test that the log has room for one more call.                *)
NoSpace == Len(lh) + (outstanding + 1) * MAXOPBLOCKS > LOGSIZE

(* begin_op: the call starts, or sleeps on the log.                        *)
begin_op(p) ==
  /\ Running /\ pc[p] = "idle"
  /\ ~committing /\ ~NoSpace
  /\ outstanding' = outstanding + 1
  /\ pc' = [pc EXCEPT ![p] = "op"]
  /\ UNCHANGED <<ondisk, cache, pinned, lh, committing, wrote, sys, tail, panicked>>

BeginSleep(p) ==
  /\ Running /\ pc[p] = "idle"
  /\ committing \/ NoSpace
  /\ pc' = [pc EXCEPT ![p] = "sleep"]
  /\ UNCHANGED <<ondisk, cache, pinned, lh, outstanding, committing, wrote, sys, tail,
                 panicked>>

(* wakeup(&log): the sleepers test again, as on entry.                     *)
Wakeup(q) == [p \in Procs |-> IF q[p] = "sleep" THEN "idle" ELSE q[p]]

(* Log absorption: a block that is in the log keeps its slot. *)
Record(b) == IF b \in Logged THEN lh ELSE Append(lh, b)

(* The call changes a buffer and calls log_write, which tests that there   *)
(* is room before it looks for the block in the log.                       *)
log_write(p, b, x) ==
  /\ Running /\ pc[p] = "op"
  /\ Cardinality(wrote[p] \cup {b}) <= OpBlocks
  /\ \/ /\ Len(lh) >= LOGSIZE \/ Len(lh) >= size - 1 \/ outstanding < 1
        /\ panicked' = TRUE
        /\ UNCHANGED <<cache, lh, pinned, wrote>>
     \/ /\ Len(lh) < LOGSIZE /\ Len(lh) < size - 1 /\ outstanding >= 1
        /\ cache' = [cache EXCEPT ![b] = x]
        /\ lh' = Record(b)
        /\ pinned' = pinned \cup {b}
        /\ wrote' = [wrote EXCEPT ![p] = @ \cup {b}]
        /\ UNCHANGED panicked
  /\ UNCHANGED <<ondisk, outstanding, committing, pc, sys, tail>>

(* end_op: the last call in progress commits.                              *)
end_op(p) ==
  /\ Running /\ pc[p] = "op"
  /\ wrote' = [wrote EXCEPT ![p] = {}]
  /\ outstanding' = outstanding - 1
  /\ panicked' = committing
  /\ IF outstanding = 1
     THEN /\ committing' = TRUE
          /\ pc' = [pc EXCEPT ![p] = IF lh = <<>> THEN "committed" ELSE "writelog"]
     ELSE /\ pc' = Wakeup([pc EXCEPT ![p] = "idle"])
          /\ UNCHANGED committing
  /\ UNCHANGED <<ondisk, cache, pinned, lh, sys, tail>>

-----------------------------------------------------------------------------
(* commit.  write_log copies the buffers into the log, one block a step.   *)
write_log(p) ==
  /\ Running /\ pc[p] = "writelog"
  /\ tail < Len(lh)
  /\ dlog' = [dlog EXCEPT ![tail + 1] = cache[lh[tail + 1]]]
  /\ tail' = tail + 1
  /\ UNCHANGED <<disk, dhead, cache, pinned, lh, outstanding, committing, pc, wrote, sys,
                 panicked>>

(* The header is written before the blocks are in the log. *)
write_head_Early(p) ==
  /\ Running /\ pc[p] = "writelog"
  /\ dhead' = lh
  /\ tail' = 0
  /\ pc' = [pc EXCEPT ![p] = "install"]
  /\ UNCHANGED <<disk, dlog, cache, pinned, lh, outstanding, committing, wrote, sys,
                 panicked>>

(* write_head: the transaction commits.                                    *)
write_head(p) ==
  /\ Running /\ pc[p] = "writelog"
  /\ tail = Len(lh)
  /\ dhead' = lh
  /\ tail' = 0
  /\ pc' = [pc EXCEPT ![p] = "install"]
  /\ UNCHANGED <<disk, dlog, cache, pinned, lh, outstanding, committing, wrote, sys,
                 panicked>>

(* install_trans(0): log blocks go to their home locations.                *)
install_trans(p) ==
  /\ Running /\ pc[p] = "install"
  /\ tail < Len(lh)
  /\ disk' = [disk EXCEPT ![lh[tail + 1]] = dlog[tail + 1]]
  /\ cache' = [cache EXCEPT ![lh[tail + 1]] = dlog[tail + 1]]
  /\ pinned' = pinned \ {lh[tail + 1]}
  /\ tail' = tail + 1
  /\ UNCHANGED <<dlog, dhead, lh, outstanding, committing, pc, wrote, sys, panicked>>

(* log.lh.n = 0 and the second write_head: the log is empty again.         *)
EraseLog(p) ==
  /\ Running /\ pc[p] = "install"
  /\ tail = Len(lh)
  /\ lh' = <<>>
  /\ dhead' = <<>>
  /\ tail' = 0
  /\ pc' = [pc EXCEPT ![p] = "committed"]
  /\ UNCHANGED <<disk, dlog, cache, pinned, outstanding, committing, wrote, sys, panicked>>

(* Nobody is woken after the commit. *)
EndCommit_NoWakeup(p) ==
  /\ Running /\ pc[p] = "committed"
  /\ committing' = FALSE
  /\ pc' = [pc EXCEPT ![p] = "idle"]
  /\ UNCHANGED <<ondisk, cache, pinned, lh, outstanding, wrote, sys, tail, panicked>>

(* The end of end_op.                                                      *)
EndCommit(p) ==
  /\ Running /\ pc[p] = "committed"
  /\ committing' = FALSE
  /\ pc' = Wakeup([pc EXCEPT ![p] = "idle"])
  /\ UNCHANGED <<ondisk, cache, pinned, lh, outstanding, wrote, sys, tail, panicked>>

-----------------------------------------------------------------------------
(* The machine stops and starts again: all but the disk is lost.           *)
Crash ==
  /\ sys' = "readhead"
  /\ cache' = disk
  /\ pinned' = {}
  /\ lh' = <<>>
  /\ outstanding' = 0
  /\ committing' = FALSE
  /\ pc' = [p \in Procs |-> "idle"]
  /\ wrote' = [p \in Procs |-> {}]
  /\ tail' = 0
  /\ panicked' = FALSE
  /\ UNCHANGED ondisk

(* recover_from_log: read_head,                                            *)
read_head ==
  /\ sys = "readhead"
  /\ lh' = dhead
  /\ sys' = "recover"
  /\ UNCHANGED <<ondisk, cache, pinned, outstanding, committing, pc, wrote, tail, panicked>>

(* install_trans(1), one block a step,                                     *)
RecoverBlock ==
  /\ sys = "recover"
  /\ tail < Len(lh)
  /\ disk' = [disk EXCEPT ![lh[tail + 1]] = dlog[tail + 1]]
  /\ cache' = [cache EXCEPT ![lh[tail + 1]] = dlog[tail + 1]]
  /\ tail' = tail + 1
  /\ UNCHANGED <<dlog, dhead, pinned, lh, outstanding, committing, pc, wrote, sys, panicked>>

(* and log.lh.n = 0; write_head(): the log is cleared.                     *)
RecoverDone ==
  /\ sys = "recover"
  /\ tail = Len(lh)
  /\ lh' = <<>>
  /\ dhead' = <<>>
  /\ tail' = 0
  /\ sys' = "up"
  /\ UNCHANGED <<disk, dlog, cache, pinned, outstanding, committing, pc, wrote, panicked>>

-----------------------------------------------------------------------------
(* The steps by which a process gets to the end of its call.               *)
Finish(p) ==
  \/ end_op(p) \/ write_log(p) \/ write_head(p) \/ install_trans(p) \/ EraseLog(p)
  \/ EndCommit(p)

Recovery == read_head \/ RecoverBlock \/ RecoverDone

Next ==
  \/ \E p \in Procs :
       \/ begin_op(p) \/ BeginSleep(p) \/ Finish(p)
       \/ \E b \in Blocks, x \in Vals : log_write(p, b, x)
  \/ Recovery
  \/ Crash

Spec == Init /\ [][Next]_vars

(* A call ends, commit goes on to its end, and so does recovery.           *)
FairSpec == Spec /\ WF_vars(Recovery) /\ \A p \in Procs : WF_vars(Finish(p))
-----------------------------------------------------------------------------
(* The log has room for every change, and keeps it.  The reservation of    *)
(* begin_op is enough: log_write never finds the log full ("too big a      *)
(* transaction") or itself outside a transaction, and end_op never meets a *)
(* commit in progress.  A buffer that differs from its home block is       *)
(* pinned, so the cache never drops a change that is not on disk.          *)
ChangesKept ==
  /\ ~panicked
  /\ sys = "up" => \A b \in Blocks : cache[b] # disk[b] => b \in pinned

(* A call that sleeps in begin_op is woken.                                *)
SleepersWoken == \A p \in Procs : []<>(pc[p] # "sleep")

-----------------------------------------------------------------------------
(* What the disk holds after recovery: the home blocks, overwritten by the *)
(* log if it is committed.                                                 *)
AfterRecovery ==
  [b \in Blocks |->
     IF \E i \in 1 .. Len(dhead) : dhead[i] = b
     THEN dlog[CHOOSE i \in 1 .. Len(dhead) : dhead[i] = b]
     ELSE disk[b]]

Atomic == INSTANCE AtomicDisk WITH
  view <- IF sys = "up" THEN cache ELSE AfterRecovery,
  stable <- AfterRecovery,
  active <- {p \in Procs : pc[p] = "op"}

(* File-system calls are atomic with respect to crashes, wherever in       *)
(* commit or recovery the machine stops, recovery included.                *)
ImplementsAtomicDisk == Atomic!Spec
=============================================================================
