------------------------------ MODULE Console -------------------------------
(***************************************************************************)
(* Console input (kernel/console.c): consoleintr, called by the UART's     *)
(* interrupt handler for every character that is typed, edits the line at  *)
(* the end of a ring; consoleread takes whole lines from its front.  The   *)
(* three indices of the ring are uints that wrap around at Wrap.  The lock *)
(* is held by a reader while it copies characters, so that its loop is     *)
(* several steps.  Echoing only waits for the device and is left out.      *)
(***************************************************************************)
EXTENDS Naturals, Sequences

CONSTANTS
  Procs,
  Keys,            \* characters typed
  INPUT_BUF_SIZE,
  Wrap,            \* 2^32, a multiple of INPUT_BUF_SIZE
  Lengths          \* of the reads

VARIABLES
  buf, r, w, e,    \* cons
  lock,            \* holder of cons.lock, 0 for nobody
  reader,          \* readers: where they are, n and target
  killed

vars == <<buf, r, w, e, lock, reader, killed>>
cons == <<buf, r, w, e>>

Idle == [at |-> "idle", n |-> 0, target |-> 0]

Init ==
  /\ buf = [k \in 0 .. INPUT_BUF_SIZE - 1 |-> "x"]
  /\ r = 0 /\ w = 0 /\ e = 0
  /\ lock = 0
  /\ reader = [p \in Procs |-> Idle]
  /\ killed = [p \in Procs |-> FALSE]

(* Arithmetic on uints: a + 1, a - 1 and a - b.                            *)
Inc(a) == IF a = Wrap - 1 THEN 0 ELSE a + 1
Dec(a) == IF a = 0 THEN Wrap - 1 ELSE a - 1
Minus(a, b) == IF a >= b THEN a - b ELSE a + Wrap - b

Slot(a) == a % INPUT_BUF_SIZE

(* wakeup(&cons.r)                                                         *)
wakeup == [p \in Procs |-> IF reader[p].at = "asleep" THEN [reader[p] EXCEPT !.at = "awake"] ELSE reader[p]]

-----------------------------------------------------------------------------
Stored(c) == IF c = "CR" THEN "NL" ELSE c

(* consoleintr on a character to be stored: a line, an end of file or a    *)
(* full buffer makes it available.                                         *)
Key(k) ==
  LET c == Stored(k)
  IN /\ lock = 0
     /\ Minus(e, r) < INPUT_BUF_SIZE
     /\ buf' = [buf EXCEPT ![Slot(e)] = c]
     /\ e' = Inc(e)
     /\ IF c \in {"NL", "^D"} \/ Minus(e', r) = INPUT_BUF_SIZE
        THEN w' = e' /\ reader' = wakeup
        ELSE UNCHANGED <<w, reader>>
     /\ UNCHANGED <<r, lock, killed>>

(* Mutant of Backspace: complete lines can be erased, too.                 *)
Backspace_Line ==
  /\ lock = 0
  /\ e # r
  /\ e' = Dec(e)
  /\ UNCHANGED <<buf, r, w, lock, reader, killed>>

(* Backspace: ^H or delete.                                                *)
Backspace ==
  /\ lock = 0
  /\ e # w
  /\ e' = Dec(e)
  /\ UNCHANGED <<buf, r, w, lock, reader, killed>>

(* ^U: back to the end of the last line, or to w.                          *)
KillLine ==
  LET kept == {n \in 1 .. Minus(e, w) : buf[Slot(Minus(e, n))] = "NL"}
      n == IF kept = {} THEN Minus(e, w) ELSE (CHOOSE m \in kept : \A k \in kept : m <= k) - 1
  IN /\ lock = 0
     /\ e # w
     /\ e' = Minus(e, n)
     /\ UNCHANGED <<buf, r, w, lock, reader, killed>>

-----------------------------------------------------------------------------
(* consoleread: the lock, n and target.                                    *)
consoleread(p, n) ==
  /\ reader[p].at = "idle" /\ ~killed[p] /\ lock = 0
  /\ lock' = p
  /\ reader' = [reader EXCEPT ![p] = [at |-> "loop", n |-> n, target |-> n]]
  /\ UNCHANGED <<cons, killed>>

Return(p) == lock' = 0 /\ reader' = [reader EXCEPT ![p] = Idle]

(* No input: return -1 if killed, else sleep.                              *)
Empty(p) ==
  /\ lock = p /\ reader[p].n > 0 /\ r = w
  /\ IF killed[p] THEN Return(p)
     ELSE lock' = 0 /\ reader' = [reader EXCEPT ![p].at = "asleep"]
  /\ UNCHANGED <<cons, killed>>

(* sleep returns with the lock.                                            *)
Awake(p) ==
  /\ reader[p].at = "awake" /\ lock = 0
  /\ lock' = p
  /\ reader' = [reader EXCEPT ![p].at = "loop"]
  /\ UNCHANGED <<cons, killed>>

(* ^D ends the read; it is saved for the next one if this one returns      *)
(* characters.                                                             *)
EndOfFile(p) ==
  /\ lock = p /\ reader[p].n > 0 /\ r # w /\ buf[Slot(r)] = "^D"
  /\ r' = IF reader[p].n < reader[p].target THEN r ELSE Inc(r)
  /\ Return(p)
  /\ UNCHANGED <<buf, w, e, killed>>

(* A character is copied; the read ends with a line, when n are read, or   *)
(* when copyout fails.                                                     *)
Copy(p) ==
  /\ lock = p /\ reader[p].n > 0 /\ r # w /\ buf[Slot(r)] # "^D"
  /\ r' = Inc(r)
  /\ \/ Return(p)
     \/ /\ buf[Slot(r)] # "NL" /\ reader[p].n > 1
        /\ reader' = [reader EXCEPT ![p].n = @ - 1]
        /\ UNCHANGED lock
  /\ UNCHANGED <<buf, w, e, killed>>

(* kill, by another process; the process exits when the read returns, and  *)
(* another process has its slot.                                           *)
Kill(p) ==
  /\ ~killed[p] /\ reader[p].at # "idle"
  /\ killed' = [killed EXCEPT ![p] = TRUE]
  /\ reader' = [reader EXCEPT ![p].at = IF @ = "asleep" THEN "awake" ELSE @]
  /\ UNCHANGED <<cons, lock>>

Exit(p) ==
  /\ killed[p] /\ reader[p].at = "idle"
  /\ killed' = [killed EXCEPT ![p] = FALSE]
  /\ UNCHANGED <<cons, lock, reader>>

Step(p) == Empty(p) \/ Awake(p) \/ EndOfFile(p) \/ Copy(p)

Next ==
  \/ \E c \in Keys : Key(c)
  \/ Backspace \/ KillLine
  \/ \E p \in Procs :
       \/ \E n \in Lengths : consoleread(p, n)
       \/ Step(p) \/ Kill(p) \/ Exit(p)

Spec == Init /\ [][Next]_vars

(* A process that can run does run; one that waits for a spinlock gets it. *)
Fairness == \A p \in Procs : SF_vars(Step(p))

FairSpec == Spec /\ Fairness
-----------------------------------------------------------------------------
(* What is in the ring, from index a on.                                   *)
Ring(a, n) == [k \in 1 .. n |-> buf[Slot((a + k - 1) % Wrap)]]

LineInput == INSTANCE LineInput WITH
  ready <- Ring(r, Minus(w, r)), edit <- Ring(w, Minus(e, w)),
  Keys <- {Stored(k) : k \in Keys}, Size <- INPUT_BUF_SIZE

(* The ring is a line editor and a queue: consoleintr and consoleread      *)
(* implement LineInput, across wrap-around, backspace at the start of a    *)
(* line, a full buffer and several readers.                                *)
ImplementsLineInput == LineInput!Spec

(* A process that is killed does not stay in consoleread for ever.         *)
ReaderReturns ==
  \A p \in Procs : []<>(killed[p] => reader[p].at = "idle")
=============================================================================
