----------------------------- MODULE VirtioDisk -----------------------------
(***************************************************************************)
(* The disk driver, kernel/virtio_disk.c: virtio_disk_rw, the interrupt    *)
(* handler, the descriptor chains and the two rings, and the device at the *)
(* other end of the rings.                                                 *)
(*                                                                         *)
(* The sections of virtio_disk_rw under vdisk_lock are single steps: the   *)
(* device sees a request when avail->idx is incremented, which comes last. *)
(* The interrupt handler holds the lock over several steps, because the    *)
(* device goes on while it empties the used ring.  The ring indices wrap   *)
(* at IdxMod (2^16).  A ring entry that has been read is None: the code    *)
(* leaves it, and never reads it again.                                    *)
(*                                                                         *)
(* The caller has locked the buffer, so a call is named by its buffer; and *)
(* b->blockno does not change during the call, so a block is named by the  *)
(* buffer that caches it.                                                  *)
(***************************************************************************)
EXTENDS Integers, FiniteSetsExt

CONSTANTS
  Bufs,
  Vals, Zero,   \* contents of a block, and of the blocks and buffers at first
  NUM,          \* descriptors, and entries of each ring
  IdxMod,       \* the indices are counted modulo IdxMod
  None

(* What is assumed of the constants.                                      *)
VirtioAssumption ==
  /\ Zero \in Vals
  /\ NUM \in Nat /\ NUM >= 3
  /\ IdxMod \in Nat \ {0} /\ IdxMod % NUM = 0
  /\ None \notin Bufs \cup (0 .. NUM - 1)

Desc == 0 .. NUM - 1

VARIABLES
  disk, data,       \* the blocks, and the contents of the buffers
  owned,            \* b->disk
  free,             \* the descriptors with disk.free[i] = 1
  next,             \* disk.desc[i].next, None without VRING_DESC_F_NEXT
  ops,              \* the command at the head of a chain
  info, ready,      \* disk.info[i].b, and disk.info[i].status = 0
  avail, availIdx,  \* the ring of requests and avail->idx
  devIdx, taken,    \* what the device has read of it, and not yet done
  used, usedIdx,    \* the ring of answers and used->idx
  seenIdx,          \* disk.used_idx
  irq,              \* the device raises the interrupt
  intr,             \* the handler runs, with vdisk_lock
  pc,               \* where the caller is in virtio_disk_rw
  write, head,      \* the argument write of the call, and idx[0]
  panicked

queue == <<free, next, ops, info>>
device == <<devIdx, taken, used, usedIdx>>
vars == <<disk, data, owned, queue, ready, avail, availIdx, device, seenIdx, irq, intr,
          pc, write, head, panicked>>

Init ==
  /\ disk = [b \in Bufs |-> Zero]
  /\ data = [b \in Bufs |-> Zero]
  /\ owned = [b \in Bufs |-> FALSE]
  /\ free = Desc
  /\ next = [i \in Desc |-> None]
  /\ ops = [i \in Desc |-> None]
  /\ info = [i \in Desc |-> None]
  /\ ready = [i \in Desc |-> TRUE]
  /\ avail = [i \in Desc |-> None]
  /\ availIdx = 0
  /\ devIdx = 0
  /\ taken = {}
  /\ used = [i \in Desc |-> None]
  /\ usedIdx = 0
  /\ seenIdx = 0
  /\ irq = FALSE
  /\ intr = FALSE
  /\ pc = [b \in Bufs |-> "idle"]
  /\ write = [b \in Bufs |-> FALSE]
  /\ head = [b \in Bufs |-> None]
  /\ panicked = FALSE

(* vdisk_lock can be taken.                                                *)
Unlocked == ~intr /\ ~panicked

(* The next value of a 16-bit index.                                       *)
Inc(i) == (i + 1) % IdxMod

(* wakeup(&disk.free[0]), and wakeup(b).                                   *)
WakeupFree(q) == [b \in Bufs |-> IF q[b] = "nodesc" THEN "alloc" ELSE q[b]]
WakeupBuf(b) == IF pc[b] = "wait" THEN [pc EXCEPT ![b] = "woken"] ELSE pc
-----------------------------------------------------------------------------
(* A process that has locked b, which holds x, calls virtio_disk_rw.       *)
virtio_disk_rw(b, w, x) ==
  /\ pc[b] = "idle"
  /\ data' = [data EXCEPT ![b] = x]
  /\ write' = [write EXCEPT ![b] = w]
  /\ pc' = [pc EXCEPT ![b] = "alloc"]
  /\ UNCHANGED <<disk, owned, queue, ready, avail, availIdx, device, seenIdx, irq, intr,
                 head, panicked>>

(* alloc3_desc fails: free_desc on what it got so far wakes the others     *)
(* that wait for descriptors, and the process sleeps.                      *)
AllocFails(b) ==
  /\ pc[b] = "alloc" /\ Unlocked
  /\ Cardinality(free) < 3
  /\ pc' = [(IF free = {} THEN pc ELSE WakeupFree(pc)) EXCEPT ![b] = "nodesc"]
  /\ UNCHANGED <<disk, data, owned, queue, ready, avail, availIdx, device, seenIdx, irq,
                 intr, write, head, panicked>>

(* The free descriptors when alloc_desc has marked three.                  *)
Take(i, j, k) == free \ {i, j, k}

(* b->disk is left as it is. *)
Own_Never(b) == owned

(* b->disk = 1.                                                            *)
Own(b) == [owned EXCEPT ![b] = TRUE]

(* alloc3_desc succeeds: the chain is built, the device is told, and the   *)
(* process sleeps on the buffer.                                           *)
Submit(b) ==
  LET i == Min(free)
      j == Min(free \ {i})
      k == Min(free \ {i, j})
  IN /\ pc[b] = "alloc" /\ Unlocked
     /\ Cardinality(free) >= 3
     /\ free' = Take(i, j, k)
     /\ next' = [next EXCEPT ![i] = j, ![j] = k, ![k] = None]
     /\ ops' = [ops EXCEPT ![i] = [buf |-> b, write |-> write[b]]]
     /\ ready' = [ready EXCEPT ![i] = FALSE]
     /\ owned' = Own(b)
     /\ info' = [info EXCEPT ![i] = b]
     /\ avail' = [avail EXCEPT ![availIdx % NUM] = i]
     /\ availIdx' = Inc(availIdx)
     /\ head' = [head EXCEPT ![b] = i]
     /\ pc' = [pc EXCEPT ![b] = "wait"]
     /\ UNCHANGED <<disk, data, device, seenIdx, irq, intr, write, panicked>>

(* The process runs again: while(b->disk == 1) it sleeps on,               *)
SleepAgain(b) ==
  /\ pc[b] = "woken" /\ Unlocked
  /\ owned[b]
  /\ pc' = [pc EXCEPT ![b] = "wait"]
  /\ UNCHANGED <<disk, data, owned, queue, ready, avail, availIdx, device, seenIdx, irq,
                 intr, write, head, panicked>>

(* The descriptors of the chain that begins at i.                          *)
Chain(i) ==
  LET j == next[i]
      k == IF j = None THEN None ELSE next[j]
  IN {i, j, k} \ {None}

(* What free_chain(i) frees.                                               *)
free_chain(i) == Chain(i)

(* and when the disk is done with the buffer it frees the chain, wakes     *)
(* those who wait for descriptors, and returns.                            *)
Finish(b) ==
  LET chain == free_chain(head[b])
  IN /\ pc[b] = "woken" /\ Unlocked
     /\ ~owned[b]
     /\ free' = free \cup chain
     /\ next' = [i \in Desc |-> IF i \in chain THEN None ELSE next[i]]
     /\ ops' = [i \in Desc |-> IF i \in chain THEN None ELSE ops[i]]
     /\ info' = [info EXCEPT ![head[b]] = None]
     /\ panicked' = (free \cap chain # {})
     /\ pc' = WakeupFree([pc EXCEPT ![b] = "idle"])
     /\ write' = [write EXCEPT ![b] = FALSE]
     /\ head' = [head EXCEPT ![b] = None]
     /\ UNCHANGED <<disk, data, owned, ready, avail, availIdx, device, seenIdx, irq, intr>>

(* kill makes a sleeping process RUNNABLE.                                 *)
Kill(b) ==
  /\ pc[b] \in {"nodesc", "wait"}
  /\ pc' = [pc EXCEPT ![b] = IF @ = "wait" THEN "woken" ELSE "alloc"]
  /\ UNCHANGED <<disk, data, owned, queue, ready, avail, availIdx, device, seenIdx, irq,
                 intr, write, head, panicked>>
-----------------------------------------------------------------------------
(* The device reads the next request,                                      *)
DevTake ==
  /\ devIdx # availIdx
  /\ taken' = taken \cup {avail[devIdx % NUM]}
  /\ avail' = [avail EXCEPT ![devIdx % NUM] = None]
  /\ devIdx' = Inc(devIdx)
  /\ UNCHANGED <<disk, data, owned, queue, ready, availIdx, used, usedIdx, seenIdx, irq,
                 intr, pc, write, head, panicked>>

(* carries out the requests it has read in any order, and answers.         *)
DevDone(i) ==
  /\ i \in taken
  /\ taken' = taken \ {i}
  /\ IF ops[i].write
     THEN /\ disk' = [disk EXCEPT ![ops[i].buf] = data[ops[i].buf]]
          /\ UNCHANGED data
     ELSE /\ data' = [data EXCEPT ![ops[i].buf] = disk[ops[i].buf]]
          /\ UNCHANGED disk
  /\ ready' = [ready EXCEPT ![i] = TRUE]
  /\ used' = [used EXCEPT ![usedIdx % NUM] = i]
  /\ usedIdx' = Inc(usedIdx)
  /\ irq' = TRUE
  /\ UNCHANGED <<owned, queue, avail, availIdx, devIdx, seenIdx, intr, pc, write, head,
                 panicked>>

(* virtio_disk_intr takes the lock, acknowledges the interrupt,            *)
virtio_disk_intr ==
  /\ irq /\ Unlocked
  /\ irq' = FALSE
  /\ intr' = TRUE
  /\ UNCHANGED <<disk, data, owned, queue, ready, avail, availIdx, device, seenIdx, pc,
                 write, head, panicked>>

(* The handler looks at the used ring once. *)
IntrNext_Once ==
  LET id == used[seenIdx % NUM]
  IN /\ intr /\ ~panicked
     /\ seenIdx # usedIdx
     /\ owned' = [owned EXCEPT ![info[id]] = FALSE]
     /\ pc' = WakeupBuf(info[id])
     /\ seenIdx' = Inc(seenIdx)
     /\ used' = [used EXCEPT ![seenIdx % NUM] = None]
     /\ intr' = FALSE
     /\ UNCHANGED <<disk, data, queue, ready, avail, availIdx, devIdx, taken, usedIdx,
                    irq, write, head, panicked>>

(* takes the answers out of the used ring, one after the other,            *)
IntrNext ==
  LET id == used[seenIdx % NUM]
      b == info[id]
  IN /\ intr /\ ~panicked
     /\ seenIdx # usedIdx
     /\ IF ready[id]
        THEN /\ owned' = [owned EXCEPT ![b] = FALSE]
             /\ pc' = WakeupBuf(b)
             /\ seenIdx' = Inc(seenIdx)
             /\ used' = [used EXCEPT ![seenIdx % NUM] = None]
             /\ UNCHANGED panicked
        ELSE /\ panicked' = TRUE
             /\ UNCHANGED <<owned, pc, seenIdx, used>>
     /\ UNCHANGED <<disk, data, queue, ready, avail, availIdx, devIdx, taken, usedIdx,
                    irq, intr, write, head>>

(* and returns when the ring is empty.                                     *)
IntrEnd ==
  /\ intr /\ ~panicked
  /\ seenIdx = usedIdx
  /\ intr' = FALSE
  /\ UNCHANGED <<disk, data, owned, queue, ready, avail, availIdx, device, seenIdx, irq,
                 pc, write, head, panicked>>
-----------------------------------------------------------------------------
Driver(b) == AllocFails(b) \/ Submit(b) \/ SleepAgain(b) \/ Finish(b)
Device == DevTake \/ \E i \in Desc : DevDone(i)
Handler == virtio_disk_intr \/ IntrNext \/ IntrEnd

(* The calls are those whose transfer makes a difference: a buffer that    *)
(* already equals its block would hide a transfer that does not happen.    *)
Next ==
  \/ \E b \in Bufs : Driver(b) \/ Kill(b)
  \/ \E b \in Bufs, w \in BOOLEAN, x \in Vals : x # disk[b] /\ virtio_disk_rw(b, w, x)
  \/ Device
  \/ Handler

Spec == Init /\ [][Next]_vars
-----------------------------------------------------------------------------
Submitted == {b \in Bufs : pc[b] \in {"wait", "woken"}}

(* Nobody waits for a wakeup that does not come.  An answer in the used    *)
(* ring has its interrupt, or a handler that will still look; a caller     *)
(* sleeps on its buffer only until virtio_disk_intr has seen the answer,   *)
(* and for descriptors only while some call has still to free its chain.   *)
NoLostWakeup ==
  /\ seenIdx # usedIdx => irq \/ intr
  /\ \A b \in Bufs : pc[b] = "wait" =>
       /\ owned[b]
       /\ \/ ~ready[head[b]]
          \/ \E i \in Desc : used[i] = head[b]
  /\ \A b \in Bufs : pc[b] = "nodesc" => Submitted # {}

Dev == INSTANCE BlockDevice WITH
  Blocks <- Bufs,
  req <- [b \in Bufs |->
            IF pc[b] = "idle" THEN None
            ELSE [block |-> b, write |-> write[b],
                  done |-> b \in Submitted /\ ready[head[b]]]]

(* virtio_disk_rw returns after the device has transferred the block       *)
(* between the buffer and the disk, once.                                  *)
ImplementsBlockDevice == Dev!Spec
=============================================================================
