------------------------------- MODULE Kalloc -------------------------------
(***************************************************************************)
(* The physical page allocator, kernel/kalloc.c: a binary buddy allocator  *)
(* (buddy_alloc, buddy_free) under kmem.lock, with one reference count per *)
(* page (incref, decref, getref) and the two entry points kalloc and       *)
(* kfree.                                                                  *)
(*                                                                         *)
(* A page is its index: pa2index(pa), counted from KERNBASE.  A free list  *)
(* is the set of the first pages of its blocks: its order decides only     *)
(* which block of an order is taken, so buddy_alloc takes any of them.     *)
(* What a page contains is not modelled.                                   *)
(*                                                                         *)
(* A thread is a kernel thread of some process.  Everything a thread does  *)
(* while it holds kmem.lock is broken up where the loops of buddy_alloc    *)
(* and buddy_free iterate; the unlocked gaps of kalloc (between taking a   *)
(* page and setting its count) and of kfree (between getref, the read of   *)
(* order_map and buddy_free) are steps of their own.                       *)
(***************************************************************************)
EXTENDS Integers, FiniteSetsExt

CONSTANTS
  Threads,    \* kernel threads that allocate and free pages
  NoThread,   \* the owner of kmem.lock when it is free
  Start,      \* pa2index(PGROUNDUP(end)): the first page after the kernel
  Limit,      \* pa2index(PHYSTOP): one past the last page
  MAX_ORDER,  \* the highest block order
  REF_MAX,    \* where incref saturates (255 in the code)
  MaxRefs     \* bound: references that clients take on one page

(* What is assumed of the constants. *)
KallocAssumption ==
  /\ NoThread \notin Threads
  /\ Start \in Nat /\ Limit \in Nat /\ Start < Limit
  /\ MAX_ORDER \in Nat
  /\ REF_MAX \in Nat /\ MaxRefs \in Nat /\ 0 < MaxRefs /\ MaxRefs <= REF_MAX

VARIABLES
  freelist,   \* kmem.freelist: for each order, the first pages of its free blocks
  refcount,   \* kmem.refcount
  order_map,  \* kmem.order_map
  lock,       \* the owner of kmem.lock
  pc,         \* where each thread is in kalloc or kfree
  pa,         \* the page (first page of the block) a thread works on
  order,      \* the order of that block (current_order)
  refs        \* references that clients hold on each page (PTEs, kernel pointers)

vars == <<freelist, refcount, order_map, lock, pc, pa, order, refs>>

Orders == 0 .. MAX_ORDER
AllPages == 0 .. Limit - 1      \* the pages refcount and order_map cover
Pages == Start .. Limit - 1     \* the pages the allocator is given

(* PAGE_SIZE << o, in pages. *)
Size(o) == 2^o

Block(a, o) == a .. a + Size(o) - 1

(* addr ^ (PAGE_SIZE << o): bit o of the page index is flipped. *)
get_buddy(a, o) ==
  IF (a \div Size(o)) % 2 = 0 THEN a + Size(o) ELSE a - Size(o)

-----------------------------------------------------------------------------
(* freerange picks the largest order that fits the range, cuts the range   *)
(* into blocks of that order from its first page on, and puts the rest on  *)
(* the list of single pages.                                               *)
max_order == Max({o \in Orders : o = 0 \/ Size(o) <= Limit - Start})

BigBlocks == (Limit - Start) \div Size(max_order)

RestFirst == Start + BigBlocks * Size(max_order)

freerange ==
  [o \in Orders |->
     (IF o = max_order
      THEN {Start + i * Size(max_order) : i \in 0 .. BigBlocks - 1}
      ELSE {})
     \cup
     (IF o = 0 THEN RestFirst .. Limit - 1 ELSE {})]

(* kinit. *)
Init ==
  /\ freelist = freerange
  /\ refcount = [p \in AllPages |-> 0]
  /\ order_map = [p \in AllPages |-> 0]
  /\ lock = NoThread
  /\ pc = [t \in Threads |-> "idle"]
  /\ pa = [t \in Threads |-> Start]
  /\ order = [t \in Threads |-> 0]
  /\ refs = [p \in Pages |-> 0]

-----------------------------------------------------------------------------
(* A thread returns from kalloc or kfree; its locals go out of scope.      *)
Return(t) ==
  /\ pc' = [pc EXCEPT ![t] = "idle"]
  /\ pa' = [pa EXCEPT ![t] = Start]
  /\ order' = [order EXCEPT ![t] = 0]

(* kalloc takes the lock and calls buddy_alloc(0), which takes a block of  *)
(* the smallest order that has one.                                        *)
AllocTake(t) ==
  LET nonempty == {o \in Orders : freelist[o] # {}}
      o == Min(nonempty)
  IN /\ pc[t] = "idle"
     /\ lock = NoThread
     /\ nonempty # {}
     /\ \E r \in freelist[o] :
          /\ freelist' = [freelist EXCEPT ![o] = @ \ {r}]
          /\ pa' = [pa EXCEPT ![t] = r]
          /\ order' = [order EXCEPT ![t] = o]
     /\ lock' = t
     /\ pc' = [pc EXCEPT ![t] = "split"]
     /\ UNCHANGED <<refcount, order_map, refs>>

(* No list has a block: kalloc returns 0, and nothing changes.             *)
AllocNone(t) ==
  /\ pc[t] = "idle"
  /\ lock = NoThread
  /\ \A o \in Orders : freelist[o] = {}
  /\ UNCHANGED vars

(* One iteration of the splitting loop: the buddy of the half that is kept *)
(* goes on the list of the lower order.                                    *)
AllocSplit(t) ==
  LET o == order[t] - 1
  IN /\ pc[t] = "split"
     /\ order[t] > 0
     /\ freelist' = [freelist EXCEPT ![o] = @ \cup {get_buddy(pa[t], o)}]
     /\ order' = [order EXCEPT ![t] = o]
     /\ UNCHANGED <<refcount, order_map, lock, pc, pa, refs>>

(* buddy_alloc records the order and returns; kalloc releases the lock and *)
(* fills the page.                                                         *)
AllocDone(t) ==
  /\ pc[t] = "split"
  /\ order[t] = 0
  /\ order_map' = [order_map EXCEPT ![pa[t]] = 0]
  /\ lock' = NoThread
  /\ pc' = [pc EXCEPT ![t] = "initref"]
  /\ UNCHANGED <<freelist, refcount, pa, order, refs>>

(* The second critical section of kalloc; the caller now owns the page.    *)
AllocInitRef(t) ==
  /\ pc[t] = "initref"
  /\ lock = NoThread
  /\ refcount' = [refcount EXCEPT ![pa[t]] = 1]
  /\ refs' = [refs EXCEPT ![pa[t]] = 1]
  /\ Return(t)
  /\ UNCHANGED <<freelist, order_map, lock>>

-----------------------------------------------------------------------------
Increment(n) == IF n < REF_MAX THEN n + 1 ELSE n

(* incref, called for a page that the caller has mapped (uvmcopy).         *)
incref(t, p) ==
  /\ pc[t] = "idle"
  /\ lock = NoThread
  /\ refs[p] \in 1 .. MaxRefs - 1
  /\ refs' = [refs EXCEPT ![p] = @ + 1]
  /\ refcount' = [refcount EXCEPT ![p] = Increment(@)]
  /\ UNCHANGED <<freelist, order_map, lock, pc, pa, order>>

(* if(decref(pa)) kfree(pa), the way uvmunmap and the copy-on-write fault  *)
(* give up a page.  A count of 0 would panic.                              *)
decref(t, p) ==
  /\ pc[t] = "idle"
  /\ lock = NoThread
  /\ refs[p] > 0
  /\ refcount[p] > 0
  /\ refs' = [refs EXCEPT ![p] = @ - 1]
  /\ refcount' = [refcount EXCEPT ![p] = @ - 1]
  /\ IF refcount[p] = 1
     THEN /\ pc' = [pc EXCEPT ![t] = "getref"]
          /\ pa' = [pa EXCEPT ![t] = p]
     ELSE UNCHANGED <<pc, pa>>
  /\ UNCHANGED <<freelist, order_map, lock, order>>

(* kfree(pa) by the only owner, without decref: freewalk, freeproc,        *)
(* pipeclose and exec give up their kalloc'ed pages this way.              *)
kfreeOwned(t, p) ==
  /\ pc[t] = "idle"
  /\ refs[p] = 1
  /\ refs' = [refs EXCEPT ![p] = 0]
  /\ pc' = [pc EXCEPT ![t] = "getref"]
  /\ pa' = [pa EXCEPT ![t] = p]
  /\ UNCHANGED <<freelist, refcount, order_map, lock, order>>

-----------------------------------------------------------------------------
(* kfree: getref under the lock; a page that is still referenced is left   *)
(* alone.                                                                  *)
FreeCheck(t) ==
  /\ pc[t] = "getref"
  /\ lock = NoThread
  /\ \/ refcount[pa[t]] > 0 /\ Return(t)
     \/ refcount[pa[t]] = 0 /\ pc' = [pc EXCEPT ![t] = "readorder"]
                            /\ UNCHANGED <<pa, order>>
  /\ UNCHANGED <<freelist, refcount, order_map, lock, refs>>

(* kfree reads order_map after the check, without the lock.                *)
FreeReadOrder(t) ==
  /\ pc[t] = "readorder"
  /\ order' = [order EXCEPT ![t] = order_map[pa[t]]]
  /\ pc' = [pc EXCEPT ![t] = "lockfree"]
  /\ UNCHANGED <<freelist, refcount, order_map, lock, pa, refs>>

FreeLock(t) ==
  /\ pc[t] = "lockfree"
  /\ lock = NoThread
  /\ lock' = t
  /\ pc' = [pc EXCEPT ![t] = "merge"]
  /\ UNCHANGED <<freelist, refcount, order_map, pa, order, refs>>

(* The loop stops one order too early. *)
BuddyIsFree_Short(t) ==
  /\ order[t] < MAX_ORDER - 1
  /\ get_buddy(pa[t], order[t]) \in freelist[order[t]]

BuddyIsFree(t) ==
  /\ order[t] < MAX_ORDER
  /\ get_buddy(pa[t], order[t]) \in freelist[order[t]]

(* The merged block keeps the address that was freed. *)
MergedStart_Freed(a, buddy) == a

MergedStart(a, buddy) == IF a > buddy THEN buddy ELSE a

(* One iteration of buddy_free: a free buddy leaves its list and the two   *)
(* become one block, which starts at the lower of them.                    *)
FreeMerge(t) ==
  LET buddy == get_buddy(pa[t], order[t])
  IN /\ pc[t] = "merge"
     /\ BuddyIsFree(t)
     /\ freelist' = [freelist EXCEPT ![order[t]] = @ \ {buddy}]
     /\ pa' = [pa EXCEPT ![t] = MergedStart(@, buddy)]
     /\ order' = [order EXCEPT ![t] = @ + 1]
     /\ UNCHANGED <<refcount, order_map, lock, pc, refs>>

(* The block goes on its list, its orders are cleared, kfree unlocks.      *)
FreePush(t) ==
  /\ pc[t] = "merge"
  /\ ~BuddyIsFree(t)
  /\ freelist' = [freelist EXCEPT ![order[t]] = @ \cup {pa[t]}]
  /\ order_map' = [p \in AllPages |-> IF p \in Block(pa[t], order[t])
                                      THEN 0 ELSE order_map[p]]
  /\ lock' = NoThread
  /\ Return(t)
  /\ UNCHANGED <<refcount, refs>>

-----------------------------------------------------------------------------
Next ==
  \E t \in Threads :
    \/ AllocTake(t)
    \/ AllocNone(t)
    \/ AllocSplit(t)
    \/ AllocDone(t)
    \/ AllocInitRef(t)
    \/ \E p \in Pages : incref(t, p)
    \/ \E p \in Pages : decref(t, p)
    \/ \E p \in Pages : kfreeOwned(t, p)
    \/ FreeCheck(t)
    \/ FreeReadOrder(t)
    \/ FreeLock(t)
    \/ FreeMerge(t)
    \/ FreePush(t)

Spec == Init /\ [][Next]_vars

-----------------------------------------------------------------------------
FreeBlocks == {b \in Pages \X Orders : b[1] \in freelist[b[2]]}

(* The block in the hands of a thread: taken from the lists and not yet    *)
(* counted, or no longer counted and not yet on a list.                    *)
InHand(t) ==
  \/ pc[t] \in {"split", "initref", "readorder", "lockfree", "merge"}
  \/ pc[t] = "getref" /\ refcount[pa[t]] = 0

HandOrder(t) == IF pc[t] \in {"split", "merge"} THEN order[t] ELSE 0

HandBlock(t) == IF InHand(t) THEN Block(pa[t], HandOrder(t)) ELSE {}

FreePages == UNION {Block(b[1], b[2]) : b \in FreeBlocks}

(* The range that freerange was given is all that kalloc ever hands out:   *)
(* no block on a free list reaches below the end of the kernel image or    *)
(* past PHYSTOP.                                                           *)
FreeInRange ==
  \A o \in Orders : \A a \in freelist[o] : Block(a, o) \subseteq Pages

(* Coalescing is complete: two buddies are never both on the list of an    *)
(* order below MAX_ORDER, unless freerange put them there.                 *)
Coalesced ==
  \A o \in Orders \ {MAX_ORDER} : \A a \in freelist[o] :
    get_buddy(a, o) \in freelist[o] =>
      {a, get_buddy(a, o)} \subseteq freerange[o]

(* To its callers the allocator is an atomic pool: kalloc takes effect     *)
(* when it sets the count, kfree when it takes the lock.                   *)
Pool == INSTANCE PagePool WITH
  free <- FreePages
          \cup UNION {HandBlock(t) : t \in {u \in Threads : pc[u] \in {"split", "initref", "merge"}}},
  refcount <- [p \in Pages |-> refcount[p]]

(* Module Kalloc implements PagePool: a page that kalloc returns was free, *)
(* whatever the other threads do in the gaps of kalloc and kfree.          *)
ImplementsPool == Pool!Spec
=============================================================================
