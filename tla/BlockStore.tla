----------------------------- MODULE BlockStore -----------------------------
(***************************************************************************)
(* What the buffer cache promises the log and the file system: one copy of *)
(* each block in memory, which one user at a time reads and changes, and   *)
(* which reaches the disk when a user writes it.                           *)
(***************************************************************************)
CONSTANTS Users, Blocks, Vals, Zero, None

VARIABLES
  cache,   \* the blocks as users see them
  disk,    \* the blocks on disk
  holder   \* who has locked each block

vars == <<cache, disk, holder>>

Init ==
  /\ disk = [k \in Blocks |-> Zero]
  /\ cache = disk
  /\ holder = [k \in Blocks |-> None]

Lock(u, k) ==
  /\ holder[k] = None
  /\ holder' = [holder EXCEPT ![k] = u]
  /\ UNCHANGED <<cache, disk>>

Change(u, k, x) ==
  /\ holder[k] = u
  /\ cache' = [cache EXCEPT ![k] = x]
  /\ UNCHANGED <<disk, holder>>

Write(u, k) ==
  /\ holder[k] = u
  /\ disk' = [disk EXCEPT ![k] = cache[k]]
  /\ UNCHANGED <<cache, holder>>

Unlock(u, k) ==
  /\ holder[k] = u
  /\ holder' = [holder EXCEPT ![k] = None]
  /\ UNCHANGED <<cache, disk>>

Next ==
  \E u \in Users, k \in Blocks :
    Lock(u, k) \/ Write(u, k) \/ Unlock(u, k) \/ \E x \in Vals : Change(u, k, x)

(* TLC tests first whether a step changes anything. *)
Spec == Init /\ [][vars' # vars /\ Next]_vars
=============================================================================
