------------------------------- MODULE Bcache -------------------------------
(***************************************************************************)
(* The buffer cache and its sleep locks: kernel/bio.c and                  *)
(* kernel/sleeplock.c, over the disk driver as module BlockDevice has it.  *)
(*                                                                         *)
(* A user is one bread ... brelse of some process; a process that has two  *)
(* buffers is two users.  The sections under bcache.lock and under the     *)
(* spinlock of a sleep lock are single steps.  As log.c and its callers    *)
(* do, a user that has changed a buffer pins it, once for each block, or   *)
(* writes it before it lets go; and what was pinned is unpinned once it is *)
(* written.                                                                *)
(***************************************************************************)
EXTENDS Integers, SequencesExt

CONSTANTS
  Users, Bufs, Blocks,
  Vals, Zero,
  MaxPins,      \* blocks that the log pins at a time
  None

(* What is assumed of the constants.                                       *)
BcacheAssumption ==
  /\ Zero \in Vals
  /\ IsFiniteSet(Users) /\ IsFiniteSet(Bufs)
  /\ MaxPins \in Nat /\ Cardinality(Users) + MaxPins <= Cardinality(Bufs)
  /\ None \notin Users \cup Bufs \cup Blocks

VARIABLES
  blockno, valid, refcnt,  \* the fields of each buffer
  lock,                    \* who holds b->lock
  lru,                     \* the list from bcache.head.next on
  pinned,                  \* the blocks that log_write has pinned
  pc, buf,                 \* where each user is, and its buffer
  disk, data, req,         \* the disk, the buffers, the requests in progress
  panicked

Dev == INSTANCE BlockDevice

bcache == <<blockno, valid, refcnt, lru>>
vars == <<bcache, lock, pinned, pc, buf, disk, data, req, panicked>>

Init ==
  /\ blockno = [b \in Bufs |-> None]
  /\ valid = [b \in Bufs |-> FALSE]
  /\ refcnt = [b \in Bufs |-> 0]
  /\ lock = [b \in Bufs |-> None]
  /\ lru \in SetToSeqs(Bufs)
  /\ pinned = {}
  /\ pc = [u \in Users |-> "idle"]
  /\ buf = [u \in Users |-> None]
  /\ Dev!Init
  /\ panicked = FALSE

Goto(u, at) == pc' = [pc EXCEPT ![u] = at]
-----------------------------------------------------------------------------
(* The buffers in which bget finds the block.                              *)
Cached(k) == {b \in Bufs : blockno[b] = k}

(* bget: the block is cached,                                              *)
bget(u, k) ==
  /\ pc[u] = "idle" /\ ~panicked
  /\ \E b \in Cached(k) :
       /\ refcnt' = [refcnt EXCEPT ![b] = @ + 1]
       /\ buf' = [buf EXCEPT ![u] = b]
  /\ Goto(u, "lock")
  /\ UNCHANGED <<blockno, valid, lru, lock, pinned, disk, data, req, panicked>>

Unused == SelectSeq(lru, LAMBDA b : refcnt[b] = 0)

(* The flag of the block before stays. *)
Invalid_Kept(b) == valid

(* b->valid = 0.                                                           *)
Invalid(b) == [valid EXCEPT ![b] = FALSE]

(* or the least recently used buffer that is free is recycled, if there is *)
(* one.                                                                    *)
Recycle(u, k) ==
  LET b == Last(Unused)
  IN /\ pc[u] = "idle" /\ ~panicked
     /\ Cached(k) = {}
     /\ IF Unused = <<>>
        THEN /\ panicked' = TRUE
             /\ UNCHANGED <<blockno, valid, refcnt, buf, pc>>
        ELSE /\ blockno' = [blockno EXCEPT ![b] = k]
             /\ valid' = Invalid(b)
             /\ refcnt' = [refcnt EXCEPT ![b] = 1]
             /\ buf' = [buf EXCEPT ![u] = b]
             /\ Goto(u, "lock")
             /\ UNCHANGED panicked
     /\ UNCHANGED <<lru, lock, pinned, disk, data, req>>

(* acquiresleep takes the lock or sleeps.                                  *)
acquiresleep(u) ==
  /\ pc[u] = "lock"
  /\ IF lock[buf[u]] = None
     THEN /\ lock' = [lock EXCEPT ![buf[u]] = u]
          /\ Goto(u, "locked")
     ELSE /\ Goto(u, "sleep")
          /\ UNCHANGED lock
  /\ UNCHANGED <<bcache, pinned, buf, disk, data, req, panicked>>

(* kill makes a sleeping process RUNNABLE.                                 *)
Kill(u) ==
  /\ pc[u] = "sleep"
  /\ Goto(u, "lock")
  /\ UNCHANGED <<bcache, lock, pinned, buf, disk, data, req, panicked>>

(* bread has the lock: the contents are there, or have to be read.         *)
bread(u) ==
  /\ pc[u] = "locked"
  /\ IF valid[buf[u]]
     THEN /\ Goto(u, "hold")
          /\ UNCHANGED <<disk, data, req>>
     ELSE /\ Dev!Request(buf[u], blockno[buf[u]], FALSE, data[buf[u]])
          /\ Goto(u, "reading")
  /\ UNCHANGED <<bcache, lock, pinned, buf, panicked>>

ReadDone(u) ==
  /\ pc[u] = "reading"
  /\ Dev!Return(buf[u])
  /\ valid' = [valid EXCEPT ![buf[u]] = TRUE]
  /\ Goto(u, "hold")
  /\ UNCHANGED <<blockno, refcnt, lru, lock, pinned, buf, panicked>>
-----------------------------------------------------------------------------
(* The user changes the block,                                             *)
Modify(u, x) ==
  /\ pc[u] = "hold"
  /\ data' = [data EXCEPT ![buf[u]] = x]
  /\ Goto(u, "dirty")
  /\ UNCHANGED <<bcache, lock, pinned, buf, disk, req, panicked>>

(* and has log_write pin it if it is not in the log already,               *)
bpin(u) ==
  LET k == blockno[buf[u]]
  IN /\ pc[u] = "dirty"
     /\ k \in pinned \/ Cardinality(pinned) < MaxPins
     /\ pinned' = pinned \cup {k}
     /\ refcnt' = [refcnt EXCEPT ![buf[u]] = IF k \in pinned THEN @ ELSE @ + 1]
     /\ Goto(u, "hold")
     /\ UNCHANGED <<blockno, valid, lru, lock, buf, disk, data, req, panicked>>

(* or writes it.                                                           *)
bwrite(u) ==
  /\ pc[u] \in {"hold", "dirty"}
  /\ Dev!Request(buf[u], blockno[buf[u]], TRUE, data[buf[u]])
  /\ Goto(u, "writing")
  /\ UNCHANGED <<bcache, lock, pinned, buf, panicked>>

WriteDone(u) ==
  /\ pc[u] = "writing"
  /\ Dev!Return(buf[u])
  /\ Goto(u, "written")
  /\ UNCHANGED <<bcache, lock, pinned, buf, panicked>>

(* All references are dropped. *)
Less_All(b) == [refcnt EXCEPT ![b] = 0]

(* b->refcnt--.                                                            *)
Less(b) == [refcnt EXCEPT ![b] = @ - 1]

(* A pinned block that is on disk is unpinned.                             *)
bunpin(u) ==
  /\ pc[u] = "written"
  /\ blockno[buf[u]] \in pinned
  /\ pinned' = pinned \ {blockno[buf[u]]}
  /\ refcnt' = Less(buf[u])
  /\ Goto(u, "hold")
  /\ UNCHANGED <<blockno, valid, lru, lock, buf, disk, data, req, panicked>>

(* wakeup(lk): those who sleep on the lock of b try again.                 *)
Wakeup(q, b) == [u \in Users |-> IF q[u] = "sleep" /\ buf[u] = b THEN "lock" ELSE q[u]]

(* brelse, first releasesleep,                                             *)
brelse(u) ==
  /\ pc[u] = "hold" \/ (pc[u] = "written" /\ blockno[buf[u]] \notin pinned)
  /\ lock' = [lock EXCEPT ![buf[u]] = None]
  /\ pc' = Wakeup([pc EXCEPT ![u] = "release"], buf[u])
  /\ UNCHANGED <<bcache, pinned, buf, disk, data, req, panicked>>

(* The list with b at its head.                                            *)
MoveToFront(b) == <<b>> \o SelectSeq(lru, LAMBDA c : c # b)

(* then the reference, with bcache.lock: the last one makes the buffer the *)
(* most recently used.                                                     *)
BrelseRef(u) ==
  LET b == buf[u]
  IN /\ pc[u] = "release"
     /\ refcnt' = Less(b)
     /\ lru' = IF refcnt'[b] = 0 THEN MoveToFront(b) ELSE lru
     /\ buf' = [buf EXCEPT ![u] = None]
     /\ Goto(u, "idle")
     /\ UNCHANGED <<blockno, valid, lock, pinned, disk, data, req, panicked>>

(* The driver transfers a block.                                           *)
Transfer(b) ==
  /\ Dev!Transfer(b)
  /\ UNCHANGED <<bcache, lock, pinned, pc, buf, panicked>>
-----------------------------------------------------------------------------
Next ==
  \/ \E u \in Users, k \in Blocks : bget(u, k) \/ Recycle(u, k)
  \/ \E u \in Users :
       \/ acquiresleep(u) \/ Kill(u) \/ bread(u) \/ ReadDone(u)
       \/ bpin(u) \/ bwrite(u) \/ WriteDone(u) \/ bunpin(u) \/ brelse(u) \/ BrelseRef(u)
       \/ \E x \in Vals : Modify(u, x)
  \/ \E b \in Bufs : Transfer(b)

Spec == Init /\ [][Next]_vars
-----------------------------------------------------------------------------
(* Buffers can be recycled safely.  No two buffers are for the same block. *)
(* refcnt counts the users of the buffer, from bget to the end of brelse,  *)
(* and the pin; so a buffer that someone has locked or waits for, or that  *)
(* the log still has to write, is not recycled.  A user sleeps in          *)
(* acquiresleep only while another one holds the lock and has still to     *)
(* wake it.  bget finds a buffer as long as the pinned blocks and the      *)
(* users are no more than the buffers.                                     *)
BuffersCounted ==
  /\ \A b, c \in Bufs : b # c /\ blockno[b] # None => blockno[b] # blockno[c]
  /\ \A b \in Bufs :
       refcnt[b] = Cardinality({u \in Users : buf[u] = b})
                   + (IF blockno[b] \in pinned THEN 1 ELSE 0)
  /\ \A u \in Users : pc[u] = "sleep" => lock[buf[u]] \notin {None, u}
  /\ ~panicked

Home(k) == CHOOSE b \in Bufs : blockno[b] = k

Store == INSTANCE BlockStore WITH
  cache <- [k \in Blocks |-> IF \E b \in Bufs : blockno[b] = k /\ valid[b]
                             THEN data[Home(k)] ELSE disk[k]],
  holder <- [k \in Blocks |-> IF \E b \in Bufs : blockno[b] = k
                              THEN lock[Home(k)] ELSE None]

(* Whoever holds a block sees its latest contents, whatever was recycled   *)
(* in between, and no change is lost.                                      *)
ImplementsBlockStore == Store!Spec
=============================================================================
