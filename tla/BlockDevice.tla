---------------------------- MODULE BlockDevice -----------------------------
(***************************************************************************)
(* What the disk driver promises bread and bwrite: a request for a buffer  *)
(* transfers the whole block once, and the caller goes on after that.      *)
(* Requests for different buffers finish in any order.                     *)
(***************************************************************************)
CONSTANTS Bufs, Blocks, Vals, Zero, None

VARIABLES
  disk,  \* the blocks on disk
  data,  \* the contents of each buffer
  req    \* the request for each buffer, or None

vars == <<disk, data, req>>

Init ==
  /\ disk = [k \in Blocks |-> Zero]
  /\ data = [b \in Bufs |-> Zero]
  /\ req = [b \in Bufs |-> None]

(* The buffer, which holds x, is to be written to or read from block k.    *)
Request(b, k, w, x) ==
  /\ req[b] = None
  /\ req' = [req EXCEPT ![b] = [block |-> k, write |-> w, done |-> FALSE]]
  /\ data' = [data EXCEPT ![b] = x]
  /\ UNCHANGED disk

Transfer(b) ==
  /\ req[b] # None
  /\ ~req[b].done
  /\ IF req[b].write
     THEN /\ disk' = [disk EXCEPT ![req[b].block] = data[b]]
          /\ UNCHANGED data
     ELSE /\ data' = [data EXCEPT ![b] = disk[req[b].block]]
          /\ UNCHANGED disk
  /\ req' = [req EXCEPT ![b].done = TRUE]

Return(b) ==
  /\ req[b] # None
  /\ req[b].done
  /\ req' = [req EXCEPT ![b] = None]
  /\ UNCHANGED <<disk, data>>

Next ==
  \E b \in Bufs :
    \/ \E k \in Blocks, w \in BOOLEAN, x \in Vals : Request(b, k, w, x)
    \/ Transfer(b)
    \/ Return(b)

(* TLC tests first whether a step changes anything. *)
Spec == Init /\ [][vars' # vars /\ Next]_vars
=============================================================================
