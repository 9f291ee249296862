----------------------------- MODULE CowMemory ------------------------------
(***************************************************************************)
(* User memory: page tables, copy-on-write fork, lazy allocation and       *)
(* reference counted frames.  kernel/vm.c (mappages, uvmunmap, uvmalloc,   *)
(* uvmdealloc, uvmcopy, uvmfree, freewalk, copyout), the page-fault branch *)
(* of usertrap in kernel/trap.c, and the calls of these made by growproc,  *)
(* fork, exit and wait in kernel/proc.c.                                   *)
(*                                                                         *)
(* A page table is used by one thread at a time: by its own process, by    *)
(* the parent while it fills it in fork, and by the parent that reaps the  *)
(* process in wait.  Frames are shared, so the steps below are cut where   *)
(* kmem.lock is released: between any two of them other processes run.     *)
(* Allocator calls are the atomic actions of PagePool.                     *)
(*                                                                         *)
(* A page holds one value; a free frame holds Junk, which is what kfree    *)
(* and kalloc fill it with.  The tables that walk allocates for a region of *)
(* the address space are one frame.                                        *)
(***************************************************************************)
EXTENDS Integers, FiniteSets

CONSTANTS
  Procs,         \* slots of the process table
  InitProc,      \* the process userinit starts
  Frames,        \* physical pages
  None,          \* no frame, no process
  NPages,        \* bound: pages of an address space (sz never exceeds it)
  PerTable,      \* pages mapped by one page-table page (512 in the code)
  Vals,          \* what processes write to their pages
  Zero,          \* what memset(mem, 0, PGSIZE) leaves
  Junk,          \* what kalloc and kfree fill pages with
  REF_MAX        \* where incref saturates (255 in the code)

ASSUME CowAssumption ==
  /\ InitProc \in Procs /\ None \notin Procs /\ None \notin Frames
  /\ IsFiniteSet(Procs) /\ IsFiniteSet(Frames)
  /\ NPages \in Nat \ {0} /\ PerTable \in Nat \ {0}
  /\ Zero \in Vals /\ Junk \notin Vals
  /\ REF_MAX \in Nat /\ Cardinality(Procs) < REF_MAX

VARIABLES
  free, refcount,  \* the page pool
  mem,             \* contents of each frame
  pte,             \* PTE2PA of each mapped page, None where PTE_V is clear
  PTE_W,           \* the <<process, page>> pairs mapped writable
  PTE_COW,         \* the pairs marked copy-on-write
  table,           \* the page-table page of each region, or None
  sz,              \* p->sz, in pages
  state,           \* p->state
  pc,              \* where the kernel is in a call on behalf of the process,
  va, lo, hi,      \*   and that call's locals: the page, the bounds of a range,
  tmp, kid,        \*   a frame, and the child in fork
  lost,            \* frames given to kfree while counted, by their only owner
  panicked         \* which call of panic stopped the system, or "no"

pool == <<free, refcount>>
tables == <<pte, PTE_W, PTE_COW, table>>
locals == <<pc, va, lo, hi, tmp, kid>>
vars == <<free, refcount, mem, pte, PTE_W, PTE_COW, table, sz, state,
          pc, va, lo, hi, tmp, kid, lost, panicked>>

VPages == 0 .. NPages - 1
Region(v) == v \div PerTable
Regions == {Region(v) : v \in VPages}
Slots == Procs \X VPages

Pool == INSTANCE PagePool WITH Pages <- Frames

Mapped(p, v) == pte[<<p, v>>] # None

-----------------------------------------------------------------------------
(* userinit: the first process has one writable page at address 0.         *)
Init ==
  \E f, g \in Frames :
    /\ f # g
    /\ free = Frames \ {f, g}
    /\ refcount = [x \in Frames |-> IF x \in {f, g} THEN 1 ELSE 0]
    /\ mem = [x \in Frames |-> IF x \in {f, g} THEN Zero ELSE Junk]
    /\ pte = [s \in Slots |-> IF s = <<InitProc, 0>> THEN f ELSE None]
    /\ PTE_W = {<<InitProc, 0>>}
    /\ PTE_COW = {}
    /\ table = [s \in Procs \X Regions |-> IF s = <<InitProc, 0>> THEN g ELSE None]
    /\ sz = [p \in Procs |-> IF p = InitProc THEN 1 ELSE 0]
    /\ state = [p \in Procs |-> IF p = InitProc THEN "run" ELSE "unused"]
    /\ pc = [p \in Procs |-> "user"]
    /\ va = [p \in Procs |-> 0]
    /\ lo = [p \in Procs |-> 0]
    /\ hi = [p \in Procs |-> 0]
    /\ tmp = [p \in Procs |-> None]
    /\ kid = [p \in Procs |-> None]
    /\ lost = {}
    /\ panicked = "no"

-----------------------------------------------------------------------------
(* The process runs user code.                                             *)
InUser(p) == state[p] = "run" /\ pc[p] = "user" /\ panicked = "no"

(* Back to user code; the locals of the call are gone.                     *)
Back(p) ==
  /\ pc' = [pc EXCEPT ![p] = "user"]
  /\ va' = [va EXCEPT ![p] = 0]
  /\ lo' = [lo EXCEPT ![p] = 0]
  /\ hi' = [hi EXCEPT ![p] = 0]
  /\ tmp' = [tmp EXCEPT ![p] = None]
  /\ kid' = [kid EXCEPT ![p] = None]

(* exit(-1), after setkilled in usertrap, or the exit system call.  The    *)
(* first process may not exit.                                             *)
Die(p) ==
  /\ Back(p)
  /\ \/ /\ p # InitProc
        /\ state' = [state EXCEPT ![p] = "zombie"]
        /\ UNCHANGED panicked
     \/ /\ p = InitProc
        /\ panicked' = "exiting"
        /\ UNCHANGED state

(* walk(pagetable, v, 1) finds the table of the region or allocates it.    *)
HasTable(p, v) == table[<<p, Region(v)>>] # None

Walk(p, v) ==
  \/ HasTable(p, v) /\ UNCHANGED <<table, free, refcount>>
  \/ /\ ~HasTable(p, v)
     /\ \E g \in free :
          /\ Pool!kalloc(g)
          /\ table' = [table EXCEPT ![<<p, Region(v)>>] = g]

WalkFails(p, v) == ~HasTable(p, v) /\ free = {}

(* kfree(mem) on an error path: the count is still 1, so kfree returns     *)
(* without freeing, and nobody holds the frame any more.                   *)
Forget(F) == lost' = lost \cup F

-----------------------------------------------------------------------------
(* A user store through a valid writable PTE.                              *)
Store(p, v, x) ==
  /\ InUser(p)
  /\ <<p, v>> \in PTE_W
  /\ mem' = [mem EXCEPT ![pte[<<p, v>>]] = x]
  /\ UNCHANGED <<pool, tables, sz, state, locals, lost, panicked>>

(* usertrap, page fault (scause 13 or 15).  The fault of a page of the     *)
(* process, [PGSIZE, sz), is served when the page is not mapped or is      *)
(* mapped copy-on-write.                                                   *)
Served(p, v) ==
  /\ v < sz[p] /\ v # 0
  /\ Mapped(p, v) => <<p, v>> \in PTE_COW

(* Any other fault kills the process.                                      *)
FaultInvalid(p, v) ==
  /\ InUser(p)
  /\ <<p, v>> \notin PTE_W
  /\ ~Served(p, v)
  /\ Die(p)
  /\ UNCHANGED <<pool, mem, tables, sz, lost>>

(* The fault needs a frame, for a copy when the page is mapped             *)
(* copy-on-write, for zeroes when it is not mapped.                        *)
FaultAlloc(p, v) ==
  /\ InUser(p)
  /\ <<p, v>> \notin PTE_W
  /\ Served(p, v)
  /\ \E f \in free :
       /\ Pool!kalloc(f)
       /\ tmp' = [tmp EXCEPT ![p] = f]
  /\ pc' = [pc EXCEPT ![p] = IF Mapped(p, v) THEN "cowcopy" ELSE "lazymap"]
  /\ va' = [va EXCEPT ![p] = v]
  /\ UNCHANGED <<mem, tables, sz, state, lo, hi, kid, lost, panicked>>

FaultNoMemory(p, v) ==
  /\ InUser(p)
  /\ <<p, v>> \notin PTE_W
  /\ Served(p, v)
  /\ free = {}
  /\ Die(p)
  /\ UNCHANGED <<pool, mem, tables, sz, lost>>

(* memmove from the shared frame, then the PTE points to the copy.         *)
CowCopy(p) ==
  LET s == <<p, va[p]>>
  IN /\ pc[p] = "cowcopy" /\ panicked = "no"
     /\ mem' = [mem EXCEPT ![tmp[p]] = mem[pte[s]]]
     /\ pte' = [pte EXCEPT ![s] = tmp[p]]
     /\ PTE_W' = PTE_W \cup {s}
     /\ PTE_COW' = PTE_COW \ {s}
     /\ tmp' = [tmp EXCEPT ![p] = pte[s]]
     /\ pc' = [pc EXCEPT ![p] = "cowdrop"]
     /\ UNCHANGED <<pool, table, sz, state, va, lo, hi, kid, lost, panicked>>

(* The frame that was shared keeps its count. *)
CowDrop_Keep(p) ==
  /\ pc[p] = "cowdrop" /\ panicked = "no"
  /\ Back(p)
  /\ UNCHANGED <<pool, mem, tables, sz, state, lost, panicked>>

(* if(decref(pa)) kfree(pa) for the frame that was shared.                 *)
CowDrop(p) ==
  /\ pc[p] = "cowdrop" /\ panicked = "no"
  /\ Pool!decref(tmp[p])
  /\ IF refcount[tmp[p]] = 1
     THEN pc' = [pc EXCEPT ![p] = "cowfree"] /\ UNCHANGED <<va, lo, hi, tmp, kid>>
     ELSE Back(p)
  /\ UNCHANGED <<mem, tables, sz, state, lost, panicked>>

CowFree(p) ==
  /\ pc[p] = "cowfree" /\ panicked = "no"
  /\ Pool!kfree(tmp[p])
  /\ mem' = [mem EXCEPT ![tmp[p]] = Junk]
  /\ Back(p)
  /\ UNCHANGED <<tables, sz, state, lost, panicked>>

(* The page is mapped as kalloc returned it. *)
LazyMap_NotZeroed(p) ==
  /\ pc[p] = "lazymap" /\ panicked = "no"
  /\ Walk(p, va[p])
  /\ pte' = [pte EXCEPT ![<<p, va[p]>>] = tmp[p]]
  /\ PTE_W' = PTE_W \cup {<<p, va[p]>>}
  /\ Back(p)
  /\ UNCHANGED <<mem, PTE_COW, sz, state, lost, panicked>>

(* A lazily allocated page is zeroed and mapped; when walk cannot get a    *)
(* page-table page the process is killed.                                  *)
LazyMap(p) ==
  /\ pc[p] = "lazymap" /\ panicked = "no"
  /\ mem' = [mem EXCEPT ![tmp[p]] = Zero]
  /\ Walk(p, va[p])
  /\ pte' = [pte EXCEPT ![<<p, va[p]>>] = tmp[p]]
  /\ PTE_W' = PTE_W \cup {<<p, va[p]>>}
  /\ Back(p)
  /\ UNCHANGED <<PTE_COW, sz, state, lost, panicked>>

LazyMapFails(p) ==
  /\ pc[p] = "lazymap" /\ panicked = "no"
  /\ WalkFails(p, va[p])
  /\ Forget({tmp[p]})
  /\ Die(p)
  /\ UNCHANGED <<pool, mem, tables, sz>>

-----------------------------------------------------------------------------
(* copyout to a page that is writable.  The address comes from the caller  *)
(* of the system call and may be above sz.                                 *)
copyout(p, v, x) ==
  /\ InUser(p)
  /\ <<p, v>> \in PTE_W
  /\ mem' = [mem EXCEPT ![pte[<<p, v>>]] = x]
  /\ UNCHANGED <<pool, tables, sz, state, locals, lost, panicked>>

(* copyout to any other page takes it for one not allocated yet.  (With no *)
(* frame left it returns -1.)                                              *)
CopyoutAlloc(p, v) ==
  /\ InUser(p)
  /\ <<p, v>> \notin PTE_W
  /\ \E f \in free :
       /\ Pool!kalloc(f)
       /\ tmp' = [tmp EXCEPT ![p] = f]
  /\ pc' = [pc EXCEPT ![p] = "outmap"]
  /\ va' = [va EXCEPT ![p] = v]
  /\ UNCHANGED <<mem, tables, sz, state, lo, hi, kid, lost, panicked>>

CopyoutMap(p, x) ==
  /\ pc[p] = "outmap" /\ panicked = "no"
  /\ ~Mapped(p, va[p])
  /\ mem' = [mem EXCEPT ![tmp[p]] = x]
  /\ Walk(p, va[p])
  /\ pte' = [pte EXCEPT ![<<p, va[p]>>] = tmp[p]]
  /\ PTE_W' = PTE_W \cup {<<p, va[p]>>}
  /\ Back(p)
  /\ UNCHANGED <<PTE_COW, sz, state, lost, panicked>>

(* mappages cannot get a page-table page: copyout returns -1.              *)
CopyoutMapFails(p) ==
  /\ pc[p] = "outmap" /\ panicked = "no"
  /\ WalkFails(p, va[p])
  /\ Forget({tmp[p]})
  /\ Back(p)
  /\ UNCHANGED <<pool, mem, tables, sz, state, panicked>>

(* mappages on a valid PTE: panic("mappages: remap").                      *)
CopyoutRemap(p) ==
  /\ pc[p] = "outmap" /\ panicked = "no"
  /\ Mapped(p, va[p])
  /\ panicked' = "remap"
  /\ UNCHANGED <<pool, mem, tables, sz, state, locals, lost>>

-----------------------------------------------------------------------------
(* growproc(1): uvmalloc only returns the new size.                        *)
Grow(p) ==
  /\ InUser(p)
  /\ sz[p] < NPages
  /\ sz' = [sz EXCEPT ![p] = @ + 1]
  /\ UNCHANGED <<pool, mem, tables, state, locals, lost, panicked>>

(* growproc(n), n < 0: uvmdealloc unmaps [newsz, sz) before p->sz changes. *)
Shrink(p, newsz) ==
  /\ InUser(p)
  /\ newsz < sz[p]
  /\ pc' = [pc EXCEPT ![p] = "unmap"]
  /\ va' = [va EXCEPT ![p] = newsz]
  /\ lo' = [lo EXCEPT ![p] = newsz]
  /\ hi' = [hi EXCEPT ![p] = sz[p]]
  /\ UNCHANGED <<pool, mem, tables, sz, state, tmp, kid, lost, panicked>>

(* uvmunmap(pagetable, va, hi - va, 1), one page at a time.  The page is   *)
(* given up (decref, kfree) while its PTE is still valid; the PTE is       *)
(* cleared last.                                                           *)
UnmapSkip(p) ==
  /\ pc[p] = "unmap" /\ panicked = "no"
  /\ va[p] < hi[p] /\ ~Mapped(p, va[p])
  /\ va' = [va EXCEPT ![p] = @ + 1]
  /\ UNCHANGED <<pool, mem, tables, sz, state, pc, lo, hi, tmp, kid, lost, panicked>>

UnmapDecref(p) ==
  LET f == pte[<<p, va[p]>>]
  IN /\ pc[p] = "unmap" /\ panicked = "no"
     /\ va[p] < hi[p] /\ Mapped(p, va[p])
     /\ Pool!decref(f)
     /\ pc' = [pc EXCEPT ![p] = IF refcount[f] = 1 THEN "unmapfree" ELSE "unmapclear"]
     /\ UNCHANGED <<mem, tables, sz, state, va, lo, hi, tmp, kid, lost, panicked>>

UnmapFree(p) ==
  /\ pc[p] = "unmapfree" /\ panicked = "no"
  /\ Pool!kfree(pte[<<p, va[p]>>])
  /\ mem' = [mem EXCEPT ![pte[<<p, va[p]>>]] = Junk]
  /\ pc' = [pc EXCEPT ![p] = "unmapclear"]
  /\ UNCHANGED <<tables, sz, state, va, lo, hi, tmp, kid, lost, panicked>>

UnmapClear(p) ==
  LET s == <<p, va[p]>>
  IN /\ pc[p] = "unmapclear" /\ panicked = "no"
     /\ pte' = [pte EXCEPT ![s] = None]
     /\ PTE_W' = PTE_W \ {s}
     /\ PTE_COW' = PTE_COW \ {s}
     /\ pc' = [pc EXCEPT ![p] = "unmap"]
     /\ va' = [va EXCEPT ![p] = @ + 1]
     /\ UNCHANGED <<pool, mem, table, sz, state, lo, hi, tmp, kid, lost, panicked>>

(* uvmdealloc returns and growproc sets p->sz.                             *)
ShrinkDone(p) ==
  /\ pc[p] = "unmap" /\ state[p] = "run" /\ panicked = "no"
  /\ va[p] = hi[p]
  /\ sz' = [sz EXCEPT ![p] = lo[p]]
  /\ Back(p)
  /\ UNCHANGED <<pool, mem, tables, state, lost, panicked>>

-----------------------------------------------------------------------------
(* fork: allocproc takes an unused slot; uvmcopy starts at page 0.         *)
Fork(p, c) ==
  /\ InUser(p)
  /\ state[c] = "unused"
  /\ state' = [state EXCEPT ![c] = "embryo"]
  /\ pc' = [pc EXCEPT ![p] = "copy"]
  /\ kid' = [kid EXCEPT ![p] = c]
  /\ UNCHANGED <<pool, mem, tables, sz, va, lo, hi, tmp, lost, panicked>>

CopySkip(p) ==
  /\ pc[p] = "copy" /\ panicked = "no"
  /\ va[p] < sz[p] /\ ~Mapped(p, va[p])
  /\ va' = [va EXCEPT ![p] = @ + 1]
  /\ UNCHANGED <<pool, mem, tables, sz, state, pc, lo, hi, tmp, kid, lost, panicked>>

(* The parent's PTE loses PTE_W and gets PTE_COW; the frame is counted for *)
(* the child before it is mapped there.                                    *)
CopyShare(p) ==
  LET s == <<p, va[p]>>
  IN /\ pc[p] = "copy" /\ panicked = "no"
     /\ va[p] < sz[p] /\ Mapped(p, va[p])
     /\ PTE_W' = PTE_W \ {s}
     /\ PTE_COW' = PTE_COW \cup {s}
     /\ Pool!incref(pte[s])
     /\ tmp' = [tmp EXCEPT ![p] = pte[s]]
     /\ pc' = [pc EXCEPT ![p] = "copymap"]
     /\ UNCHANGED <<mem, pte, table, sz, state, va, lo, hi, kid, lost, panicked>>

CopyMap(p) ==
  LET s == <<kid[p], va[p]>>
  IN /\ pc[p] = "copymap" /\ panicked = "no"
     /\ Walk(kid[p], va[p])
     /\ pte' = [pte EXCEPT ![s] = tmp[p]]
     /\ PTE_COW' = PTE_COW \cup {s}
     /\ tmp' = [tmp EXCEPT ![p] = None]
     /\ va' = [va EXCEPT ![p] = @ + 1]
     /\ pc' = [pc EXCEPT ![p] = "copy"]
     /\ UNCHANGED <<mem, PTE_W, sz, state, lo, hi, kid, lost, panicked>>

(* mappages fails: the count is taken back, the pages copied so far are    *)
(* unmapped from the child, and fork frees the child's slot (see Reaped).  *)
CopyMapFails(p) ==
  LET c == kid[p]
  IN /\ pc[p] = "copymap" /\ panicked = "no"
     /\ WalkFails(c, va[p])
     /\ Pool!decref(tmp[p])
     /\ pc' = [pc EXCEPT ![p] = "forkfail", ![c] = "unmap"]
     /\ hi' = [hi EXCEPT ![c] = va[p]]
     /\ tmp' = [tmp EXCEPT ![p] = None]
     /\ UNCHANGED <<mem, tables, sz, state, va, lo, kid, lost, panicked>>

ForkFails(p) ==
  /\ pc[p] = "forkfail" /\ panicked = "no"
  /\ state[kid[p]] = "unused"
  /\ Back(p)
  /\ UNCHANGED <<pool, mem, tables, sz, state, lost, panicked>>

ForkDone(p) ==
  LET c == kid[p]
  IN /\ pc[p] = "copy" /\ panicked = "no"
     /\ va[p] = sz[p]
     /\ sz' = [sz EXCEPT ![c] = sz[p]]
     /\ state' = [state EXCEPT ![c] = "run"]
     /\ Back(p)
     /\ UNCHANGED <<pool, mem, tables, lost, panicked>>

-----------------------------------------------------------------------------
(* The process exits.                                                      *)
Exit(p) ==
  /\ InUser(p)
  /\ Die(p)
  /\ UNCHANGED <<pool, mem, tables, sz, lost>>

(* wait calls freeproc: uvmfree unmaps [0, sz).                            *)
Reap(p) ==
  /\ state[p] = "zombie" /\ pc[p] = "user" /\ panicked = "no"
  /\ pc' = [pc EXCEPT ![p] = "unmap"]
  /\ hi' = [hi EXCEPT ![p] = sz[p]]
  /\ UNCHANGED <<pool, mem, tables, sz, state, va, lo, tmp, kid, lost, panicked>>

TablesOf(p) == {table[<<p, r>>] : r \in Regions} \ {None}

(* freewalk passes the page-table pages to kfree, which finds them counted *)
(* and leaves them; the slot becomes free.                                 *)
Reaped(p) ==
  /\ pc[p] = "unmap" /\ state[p] \in {"zombie", "embryo"} /\ panicked = "no"
  /\ va[p] = hi[p]
  /\ \A v \in VPages : ~Mapped(p, v)
  /\ Forget(TablesOf(p))
  /\ table' = [s \in Procs \X Regions |-> IF s[1] = p THEN None ELSE table[s]]
  /\ sz' = [sz EXCEPT ![p] = 0]
  /\ state' = [state EXCEPT ![p] = "unused"]
  /\ Back(p)
  /\ UNCHANGED <<pool, mem, pte, PTE_W, PTE_COW, panicked>>

(* A page that is still mapped when freewalk runs: panic("freewalk: leaf") *)
LeafPanic(p) ==
  /\ pc[p] = "unmap" /\ state[p] \in {"zombie", "embryo"} /\ panicked = "no"
  /\ va[p] = hi[p]
  /\ \E v \in VPages : Mapped(p, v)
  /\ panicked' = "leaf"
  /\ UNCHANGED <<pool, mem, tables, sz, state, locals, lost>>

-----------------------------------------------------------------------------
User(p) ==
  \/ \E v \in VPages, x \in Vals : Store(p, v, x) \/ copyout(p, v, x)
  \/ \E v \in VPages :
       \/ FaultInvalid(p, v) \/ FaultAlloc(p, v) \/ FaultNoMemory(p, v)
       \/ CopyoutAlloc(p, v) \/ Shrink(p, v)
  \/ Grow(p) \/ Exit(p)
  \/ \E c \in Procs : Fork(p, c)

Kernel(p) ==
  \/ CowCopy(p) \/ CowDrop(p) \/ CowFree(p)
  \/ LazyMap(p) \/ LazyMapFails(p)
  \/ \E x \in Vals : CopyoutMap(p, x)
  \/ CopyoutMapFails(p) \/ CopyoutRemap(p)
  \/ UnmapSkip(p) \/ UnmapDecref(p) \/ UnmapFree(p) \/ UnmapClear(p) \/ ShrinkDone(p)
  \/ CopySkip(p) \/ CopyShare(p) \/ CopyMap(p) \/ CopyMapFails(p)
  \/ ForkFails(p) \/ ForkDone(p)
  \/ Reap(p) \/ Reaped(p) \/ LeafPanic(p)

Next == \E p \in Procs : User(p) \/ Kernel(p)

Spec == Init /\ [][Next]_vars

-----------------------------------------------------------------------------
(* A PTE whose frame uvmunmap has given up and which it is about to clear. *)
Stale(s) == pc[s[1]] \in {"unmapfree", "unmapclear"} /\ va[s[1]] = s[2]

Live(s) == pte[s] # None /\ ~Stale(s)

(* What is counted: live PTEs, page-table pages, and the frame a kernel    *)
(* path holds between kalloc or incref and the PTE, or between the PTE and *)
(* decref.                                                                 *)
PteRefs(f) == {s \in Slots : Live(s) /\ pte[s] = f}
TableRefs(f) == {s \in Procs \X Regions : table[s] = f}
TmpRefs(f) == {p \in Procs : tmp[p] = f /\ pc[p] # "cowfree"}

(* The reference count of a frame is exactly the number of its references, *)
(* across every interleaving of faults, forks and exits; only a frame that *)
(* kfree left behind is counted without being referenced.  A free frame    *)
(* counts 0: nothing that a process can reach is handed out by kalloc.     *)
RefcountExact ==
  \A f \in Frames :
    /\ refcount[f] = Cardinality(PteRefs(f)) + Cardinality(TableRefs(f))
                     + Cardinality(TmpRefs(f)) + (IF f \in lost THEN 1 ELSE 0)
    /\ f \in free => refcount[f] = 0

(* copyout reports errors by returning -1; it does not stop the kernel.    *)
CopyoutReturns == panicked # "remap"

-----------------------------------------------------------------------------
(* The memory a process sees. *)
VisibleSz(p) ==
  IF state[p] # "run" THEN 0
  ELSE IF pc[p] \in {"unmap", "unmapfree", "unmapclear"} THEN lo[p] ELSE sz[p]

(* A page that uvmdealloc is about to unmap is gone for the process.       *)
Dropped(p, v) == pc[p] \in {"unmap", "unmapfree", "unmapclear"} /\ v \in lo[p] .. hi[p] - 1

Present(p, v) == state[p] = "run" /\ Mapped(p, v) /\ ~Dropped(p, v)

Visible(p, v) == IF Present(p, v) THEN mem[pte[<<p, v>>]] ELSE Zero

Private == INSTANCE PrivateMemory WITH
  alive <- {p \in Procs : state[p] = "run"},
  sz <- [p \in Procs |-> VisibleSz(p)],
  vm <- [p \in Procs |-> [v \in VPages |-> Visible(p, v)]],
  given <- {s \in Slots : Present(s[1], s[2]) /\ s[2] >= VisibleSz(s[1])}

(* Copy-on-write, lazy allocation and reference counting cannot be         *)
(* observed: to its processes the system has private memories, fork copies *)
(* in one step, sbrk adds zeroes, and only copyout maps anything above sz. *)
ImplementsPrivateMemory == Private!Spec
=============================================================================
