------------------------------ MODULE Umalloc ------------------------------
(***************************************************************************)
(* malloc() and free() of the user library (user/umalloc.c): a circular    *)
(* list of free blocks in address order, whose headers lie in the memory   *)
(* they describe.  Addresses count units of sizeof(Header); 0 is &base,    *)
(* below the heap, and the heap is Heap..brk-1.  No process can be in the  *)
(* middle of a call here (the library has no threads), so a call is a      *)
(* step.  A header that a block has absorbed, and the link of a block that *)
(* is in use, are memory that nothing reads again: they are put back to 0. *)
(***************************************************************************)
EXTENDS Integers, FiniteSets

CONSTANTS NU,      \* the 4096 units that morecore() asks for at least
          Sizes,   \* the nunits of the calls of malloc
          Limit    \* sbrk() fails beyond this address

Base == 0
Heap == 1

VARIABLES ptr, size,   \* the headers, by address
          freep,       \* -1 before the first call
          brk,
          inuse        \* the blocks that the program holds, by header

vars == <<ptr, size, freep, brk, inuse>>

Addr == 0..(Limit - 1)

Init ==
  /\ ptr = [a \in Addr |-> 0]
  /\ size = [a \in Addr |-> 0]
  /\ freep = -1
  /\ brk = Heap
  /\ inuse = {}

\* The lists and the sizes as a record, so that malloc() can call free().
heap == [ptr |-> ptr, size |-> size, freep |-> freep, brk |-> brk]

\* free()'s walk: the p after which bp belongs.
Place(h, bp) ==
  LET RECURSIVE From(_)
      From(p) ==
        IF \/ bp > p /\ bp < h.ptr[p]
           \/ p >= h.ptr[p] /\ (bp > p \/ bp < h.ptr[p])
        THEN p ELSE From(h.ptr[p])
  IN  From(h.freep)

\* The header at a is forgotten.
Gone(h, a) == [h EXCEPT !.size[a] = 0, !.ptr[a] = 0]

\* free(): join bp with the block above it, then with the block below it.
JoinUpper(h, bp, n) ==
  IF bp + h.size[bp] = n
  THEN [Gone(h, n) EXCEPT !.size[bp] = h.size[bp] + h.size[n], !.ptr[bp] = h.ptr[n]]
  ELSE [h EXCEPT !.ptr[bp] = n]

JoinLower_Never(h, p, bp) == [h EXCEPT !.ptr[p] = bp]

JoinLower(h, p, bp) ==
  IF p + h.size[p] = bp
  THEN [Gone(h, bp) EXCEPT !.size[p] = h.size[p] + h.size[bp], !.ptr[p] = h.ptr[bp]]
  ELSE [h EXCEPT !.ptr[p] = bp]

Freed(h, bp) ==
  LET p == Place(h, bp)
  IN  [JoinLower(JoinUpper(h, bp, h.ptr[p]), p, bp) EXCEPT !.freep = p]

\* morecore(): the new memory is freed into the list.  The heap it returns
\* has a null freep when sbrk() fails.
morecore(h, nu) ==
  LET n == IF nu < NU THEN NU ELSE nu
      hp == h.brk
  IN  IF hp + n > Limit
      THEN [h EXCEPT !.freep = -1]
      ELSE Freed([h EXCEPT !.brk = hp + n, !.size[hp] = n], hp)

Taken(h, prevp, p, nunits) ==
  IF h.size[p] = nunits
  THEN [heap |-> [h EXCEPT !.ptr[prevp] = h.ptr[p], !.ptr[p] = 0, !.freep = prevp],
        block |-> p]
  ELSE LET tail == p + h.size[p] - nunits
       IN  [heap |-> [h EXCEPT !.size[p] = @ - nunits, !.size[tail] = nunits,
                               !.freep = prevp],
            block |-> tail]

\* malloc()'s loop: first fit from freep on; a full turn asks for more memory
\* and goes on from the block before it.
Fit(h, nunits) ==
  LET RECURSIVE From(_, _, _)
      From(g, prevp, p) ==
        IF g.size[p] >= nunits THEN Taken(g, prevp, p, nunits)
        ELSE IF p # g.freep THEN From(g, p, g.ptr[p])
        ELSE LET m == morecore(g, nunits)
             IN  IF m.freep = -1 THEN [heap |-> g, block |-> -1]
                 ELSE From(m, m.freep, m.ptr[m.freep])
  IN  From(h, h.freep, h.ptr[h.freep])

malloc(nunits) ==
  LET h == IF freep # -1 THEN heap
           ELSE [heap EXCEPT !.freep = Base, !.ptr[Base] = Base, !.size[Base] = 0]
      r == Fit(h, nunits)
  IN  /\ ptr' = r.heap.ptr
      /\ size' = r.heap.size
      /\ freep' = r.heap.freep
      /\ brk' = r.heap.brk
      /\ inuse' = IF r.block = -1 THEN inuse ELSE inuse \cup {r.block}

free(bp) ==
  LET h == Freed(heap, bp)
  IN  /\ bp \in inuse
      /\ ptr' = h.ptr
      /\ size' = h.size
      /\ freep' = h.freep
      /\ inuse' = inuse \ {bp}
      /\ UNCHANGED brk

Next ==
  \/ \E n \in Sizes : malloc(n)
  \/ \E bp \in inuse : free(bp)

Spec == Init /\ [][Next]_vars

-----------------------------------------------------------------------------
\* The blocks reached from &base through the list.
FreeList ==
  LET RECURSIVE From(_, _)
      From(p, seen) == IF p \in seen THEN seen ELSE From(ptr[p], seen \cup {p})
  IN  From(Base, {})

Cells(a) == a..(a + size[a] - 1)

\* Every unit that sbrk() gave is in exactly one block, free or handed out;
\* the free list is one cycle through &base in address order; and no two
\* free blocks touch, so free() has joined what could be joined.
HeapTiled ==
  freep # -1 =>
    LET blocks == (FreeList \ {Base}) \cup inuse
    IN  /\ freep \in FreeList
        /\ FreeList \cap inuse = {}
        /\ UNION {Cells(a) : a \in blocks} = Heap..(brk - 1)
        /\ \A a, b \in blocks : a # b => Cells(a) \cap Cells(b) = {}
        /\ \A a \in FreeList :
             IF \E b \in FreeList : b > a
             THEN ptr[a] > a /\ (a # Base => a + size[a] < ptr[a])
             ELSE ptr[a] = Base

=============================================================================
