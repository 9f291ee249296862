------------------------------ MODULE MCPools -------------------------------
(***************************************************************************)
(* Three models of what code on several CPUs competes for, checked in one  *)
(* run: spinlocks under interrupts (Spinlock), the descriptors of the disk *)
(* driver (VirtioDisk) and the pages of the allocator (Kalloc).  The       *)
(* initial states choose one of them; the variables of the others keep     *)
(* their initial values.                                                   *)
(***************************************************************************)
EXTENDS Spinlock, TLC

CONSTANTS Bufs, Vals, Zero, NUM, IdxMod,
          Threads, NoThread, Start, Limit, MAX_ORDER, REF_MAX, MaxRefs

VARIABLES part,
          disk, data, owned, free, next, ops, info, ready, avail, availIdx, devIdx,
          taken, used, usedIdx, seenIdx, irq, handler, call, write, head, diskPanic,
          freelist, refcount, order_map, lock, at, pa, order, refs

diskVars == <<disk, data, owned, free, next, ops, info, ready, avail, availIdx, devIdx,
              taken, used, usedIdx, seenIdx, irq, handler, call, write, head, diskPanic>>
kallocVars == <<freelist, refcount, order_map, lock, at, pa, order, refs>>

Driver == INSTANCE VirtioDisk WITH
  intr <- handler, pc <- call, panicked <- diskPanic

Buddies == INSTANCE Kalloc WITH pc <- at

\* The constants of the three models.
ASSUME Constants ==
  SpinlockAssumption /\ Driver!VirtioAssumption /\ Buddies!KallocAssumption

MCInit ==
  /\ part \in {"lock", "disk", "kalloc"}
  /\ Init
  /\ Driver!Init
  /\ Buddies!Init

MCNext ==
  \/ part = "lock" /\ Next /\ UNCHANGED <<part, diskVars, kallocVars>>
  \/ part = "disk" /\ Driver!Next /\ UNCHANGED <<part, vars, kallocVars>>
  \/ part = "kalloc" /\ Buddies!Next /\ UNCHANGED <<part, vars, diskVars>>

MCSpec == MCInit /\ [][MCNext]_<<part, vars, diskVars, kallocVars>>

\* CPUs are interchangeable, and so are buffers and threads.
Symmetry == Permutations(CPUs) \cup Permutations(Bufs) \cup Permutations(Threads)

-----------------------------------------------------------------------------
\* VirtioDisk: nobody sleeps for a descriptor or an answer that is there.
NoLostWakeup == Driver!NoLostWakeup

\* VirtioDisk: a call of virtio_disk_rw transfers its block once.
ImplementsBlockDevice == Driver!ImplementsBlockDevice

\* Kalloc: buddy_free joins all that can be joined.
Coalesced == Buddies!Coalesced

\* Kalloc: the lists hold only pages between the kernel and PHYSTOP.
FreeInRange == Buddies!FreeInRange

\* Kalloc: to their callers kalloc and kfree are an atomic pool of pages.
ImplementsPool == Buddies!ImplementsPool

=============================================================================
