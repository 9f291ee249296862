------------------------------ MODULE MCMemory ------------------------------
(***************************************************************************)
(* Three models about memory, checked in one run: the memory of user       *)
(* processes (CowMemory), exec (Exec), and the allocator of user programs  *)
(* (Umalloc).  The initial states choose one of them; the variables of the *)
(* others keep their initial values.                                       *)
(***************************************************************************)
EXTENDS CowMemory, Sequences, TLC

CONSTANTS ExecPerTable, NU, Sizes, Limit

VARIABLES part,
          prog, step, i, ip, locked, op, image, imageSz, guard, new, newsz, before,
          ptr, size, freep, brk, inuse

execVars == <<prog, step, i, ip, locked, op, image, imageSz, guard, new, newsz, before>>
heapVars == <<ptr, size, freep, brk, inuse>>

Segment(from, pages, filled, load) ==
  [at |-> from, pages |-> pages, filled |-> filled, load |-> load]

\* Text and data with bss around a header that is not loaded; one segment
\* alone; and a bss so large that the guard page has no page-table page.
MCPrograms ==
  {<<Segment(0, 1, 1, TRUE), Segment(0, 0, 0, FALSE), Segment(1, 2, 1, TRUE)>>,
   <<Segment(0, 2, 2, TRUE)>>,
   <<Segment(0, 1, 1, TRUE), Segment(1, 3, 0, TRUE)>>}

Image == INSTANCE Exec WITH
  Programs <- MCPrograms, PerTable <- ExecPerTable, pc <- step, sz <- imageSz

Heap == INSTANCE Umalloc

MCInit ==
  /\ part \in {"cow", "exec", "malloc"}
  /\ Init
  /\ Image!Init
  /\ Heap!Init
  /\ part # "exec" => Len(prog) = 1

MCNext ==
  \/ part = "cow" /\ Next /\ UNCHANGED <<part, execVars, heapVars>>
  \/ part = "exec" /\ Image!Next /\ UNCHANGED <<part, vars, heapVars>>
  \/ part = "malloc" /\ Heap!Next /\ UNCHANGED <<part, vars, execVars>>

MCSpec == MCInit /\ [][MCNext]_<<part, vars, execVars, heapVars>>

\* Frames are interchangeable, and so are all processes but the first.
Symmetry == Permutations(Frames) \cup Permutations(Procs \ {InitProc})

-----------------------------------------------------------------------------
\* Exec: exec is all or nothing, whatever step of it fails.
ExecAllOrNothing == Image!ExecAllOrNothing

\* Exec: the page below the stack is inaccessible (kernel/exec.c:79).
GuardInaccessible == Image!GuardInaccessible

\* Umalloc: malloc and free keep every unit in one block, in one sorted list.
HeapTiled == Heap!HeapTiled

=============================================================================
