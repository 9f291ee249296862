-------------------------------- MODULE Exec --------------------------------
(***************************************************************************)
(* exec() (kernel/exec.c): a process builds a second address space from an *)
(* executable file and changes to it, or keeps the old one when anything   *)
(* fails; then it runs, and its page faults are served (usertrap).         *)
(* An address space maps pages to what they hold; a page of it that is not *)
(* in the function has no frame yet.  Only the calling process uses either *)
(* address space, so that other processes show only in allocations that    *)
(* fail: any of them may.                                                  *)
(***************************************************************************)
EXTENDS Integers, Sequences, FiniteSets, TLC

CONSTANTS Programs,   \* files: sequences of segments [at, pages, filled, load]
          PerTable    \* pages mapped by one page-table page (512 in the code)

VARIABLES prog, pc,
          i,          \* the segment
          ip,         \* the local ip is not null
          locked,     \* how often the process has locked the file's inode
          op,         \* the transactions that the process has open
          image, sz,  \* the process's pages, and p->sz in pages
          guard,      \* the page below the stack, or -1
          new, newsz, \* the address space being built
          before      \* image and sz when exec was called

vars == <<prog, pc, i, ip, locked, op, image, sz, guard, new, newsz, before>>

none == <<>>   \* an address space with no page

\* A process that userinit or fork made.
Init ==
  /\ prog \in Programs
  /\ pc = "user" /\ i = 0 /\ ip = FALSE /\ locked = 0 /\ op = 0
  /\ image = (0 :> "old") /\ sz = 1 /\ guard = -1
  /\ new = none /\ newsz = 0
  /\ before = <<none, 0>>

\* begin_op, namei, ilock, the ELF header, and proc_pagetable; without the
\* file the call ends here.
exec ==
  /\ pc = "user"
  /\ before' = <<image, sz>>
  /\ \/ /\ pc' = "fails"
        /\ UNCHANGED <<i, ip, locked, op>>
     \/ /\ op' = op + 1 /\ locked' = locked + 1 /\ ip' = TRUE
        /\ i' = 1
        /\ pc' \in {"segments", "bad"}
  /\ UNCHANGED <<prog, image, sz, guard, new, newsz>>

\* uvmalloc(): the size grows, and no page is mapped.
uvmalloc(oldsz, size) == IF size < oldsz THEN oldsz ELSE size

\* loadseg(): the pages of the segment that the file fills are allocated and
\* read; it stops where an allocation or the read fails.
loadseg(s) ==
  \E n \in 0..s.filled :
    /\ new' = [v \in s.at..(s.at + n - 1) |-> "program"] @@ new
    /\ pc' \in IF n < s.filled THEN {"bad"} ELSE {"bad", "segments"}

\* One program header: not to be loaded, refused, or loaded.
segment ==
  LET s == prog[i]
  IN  /\ pc = "segments" /\ i <= Len(prog)
      /\ i' = i + 1
      /\ \/ /\ ~s.load
            /\ UNCHANGED <<pc, new, newsz>>
         \/ /\ pc' = "bad"
            /\ UNCHANGED <<new, newsz>>
         \/ /\ s.load
            /\ newsz' = uvmalloc(newsz, s.at + s.pages)
            /\ loadseg(s)
      /\ UNCHANGED <<prog, ip, locked, op, image, sz, guard, before>>

\* walk() finds an entry where a page of the same region is mapped.
HasTable(v) == \E w \in DOMAIN new : w \div PerTable = v \div PerTable

unlock_KeepsIp ==
  locked' = locked - 1 /\ op' = op - 1 /\ UNCHANGED ip

\* iunlockput(ip); end_op(); ip = 0.
unlock ==
  locked' = locked - 1 /\ op' = op - 1 /\ ip' = FALSE

\* A guard page and one page of stack.  uvmclear() of the guard panics when
\* walk() finds no entry; an entry that is still 0 it leaves as it is.
stack ==
  LET size == uvmalloc(newsz, newsz + 2)
  IN  /\ pc = "segments" /\ i = Len(prog) + 1
      /\ unlock
      /\ newsz' = size
      /\ pc' = IF HasTable(size - 2) THEN "args" ELSE "panic"
      /\ UNCHANGED <<prog, i, image, sz, guard, new, before>>

\* The arguments are copied out to the stack page, which allocates it.  Too
\* many or too long arguments, or no memory, end in bad.
args ==
  /\ pc = "args"
  /\ \/ /\ new' = (newsz - 1 :> "args") @@ new
        /\ pc' = "commit"
     \/ /\ pc' = "bad"
        /\ UNCHANGED new
  /\ UNCHANGED <<prog, i, ip, locked, op, image, sz, guard, newsz, before>>

\* The new table and size; proc_freepagetable() of the old ones.
commit ==
  /\ pc = "commit"
  /\ image' = new /\ sz' = newsz /\ guard' = newsz - 2
  /\ new' = none /\ newsz' = 0
  /\ pc' = "done"
  /\ UNCHANGED <<prog, i, ip, locked, op, before>>

\* bad: the new table is freed, and the inode if ip still points to it.
bad ==
  /\ pc = "bad"
  /\ new' = none /\ newsz' = 0
  /\ IF ip THEN unlock ELSE UNCHANGED <<ip, locked, op>>
  /\ pc' = "fails"
  /\ UNCHANGED <<prog, i, image, sz, guard, before>>

\* The process goes on, and may call exec for another file.
Return ==
  /\ pc \in {"done", "fails"}
  /\ pc' = "user" /\ i' = 0
  /\ before' = <<none, 0>>
  /\ prog' \in Programs
  /\ UNCHANGED <<ip, locked, op, image, sz, guard, new, newsz>>

\* usertrap(): a fault in [PGSIZE, sz) on a page without a frame is served.
\* (Any other fault ends the process.)
fault(v) ==
  /\ pc = "user"
  /\ v \in 1..(sz - 1) /\ v \notin DOMAIN image
  /\ image' = (v :> "zero") @@ image
  /\ UNCHANGED <<prog, pc, i, ip, locked, op, sz, guard, new, newsz, before>>

Panicked == pc = "panic" /\ UNCHANGED vars

Next ==
  \/ exec \/ segment \/ stack \/ args \/ commit \/ bad \/ Return
  \/ \E v \in 1..(sz - 1) : fault(v)
  \/ Panicked

Spec == Init /\ [][Next]_vars

-----------------------------------------------------------------------------
\* The pages a program's file fills, and the pages it occupies.
Loads(s) == {s[k] : k \in {k \in 1..Len(s) : s[k].load}}
Filled(s) == UNION {x.at..(x.at + x.filled - 1) : x \in Loads(s)}
End(s) == CHOOSE n \in 0..100 :
            /\ \A x \in Loads(s) : x.at + x.pages <= n
            /\ n = 0 \/ \E x \in Loads(s) : x.at + x.pages = n

\* exec is all or nothing.  Whatever step failed, the process has its old
\* memory, unlocked the inode once and closed its transaction once, and the
\* half-built table is gone; after success it has the file's pages, the
\* stack with the arguments, and nothing of the old memory.
ExecAllOrNothing ==
  pc \in {"done", "fails"} =>
    /\ locked = 0 /\ op = 0
    /\ new = none
    /\ pc = "fails" => <<image, sz>> = before
    /\ pc = "done" =>
         /\ sz = End(prog) + 2
         /\ DOMAIN image = Filled(prog) \cup {sz - 1}
         /\ image[sz - 1] = "args"
         /\ \A v \in Filled(prog) : image[v] = "program"

\* The page below the stack is inaccessible: "Make the first inaccessible
\* as a stack guard" (kernel/exec.c:79).
GuardInaccessible == guard \notin DOMAIN image

=============================================================================
