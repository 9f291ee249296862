----------------------------- MODULE AtomicDisk -----------------------------
(***************************************************************************)
(* What the logging layer promises file-system calls: their writes appear  *)
(* in memory at once, and reach the disk as a whole.  A crash takes the    *)
(* disk back to a state in which no call was half done.                    *)
(***************************************************************************)
CONSTANTS Procs, Blocks, Vals, Zero

VARIABLES
  view,    \* the blocks as calls read them
  stable,  \* the blocks as they will be after a crash
  active   \* the processes inside a call

vars == <<view, stable, active>>

Init ==
  /\ view = [b \in Blocks |-> Zero]
  /\ stable = view
  /\ active = {}

Begin(p) ==
  /\ p \notin active
  /\ active' = active \cup {p}
  /\ UNCHANGED <<view, stable>>

Write(p, b, x) ==
  /\ p \in active
  /\ view' = [view EXCEPT ![b] = x]
  /\ UNCHANGED <<stable, active>>

End(p) ==
  /\ p \in active
  /\ active' = active \ {p}
  /\ UNCHANGED <<view, stable>>

Commit ==
  /\ active = {}
  /\ stable' = view
  /\ UNCHANGED <<view, active>>

Crash ==
  /\ view' = stable
  /\ active' = {}
  /\ UNCHANGED stable

Next ==
  \/ \E p \in Procs : Begin(p) \/ End(p)
  \/ \E p \in Procs, b \in Blocks, x \in Vals : Write(p, b, x)
  \/ Commit
  \/ Crash

(* TLC tests first whether a step changes anything. *)
Spec == Init /\ [][vars' # vars /\ Next]_vars
=============================================================================
