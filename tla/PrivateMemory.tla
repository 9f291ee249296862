---------------------------- MODULE PrivateMemory ---------------------------
(***************************************************************************)
(* What user programs may rely on: every process has a memory of its own.  *)
(* fork gives the child a copy of the parent's memory in one step, a store *)
(* or a system call changes the memory of the process that makes it and of *)
(* no other, and memory that sbrk adds reads as zero, unless the process   *)
(* has had a system call write there already.  Nothing here is shared,     *)
(* copied on write or allocated late.                                      *)
(***************************************************************************)
EXTENDS Naturals

CONSTANTS Procs, InitProc, NPages, Vals, Zero

VARIABLES
  alive, sz, vm,
  given           \* pages above sz that a system call has written to

vars == <<alive, sz, vm, given>>

VPages == 0 .. NPages - 1
Blank == [v \in VPages |-> Zero]

Init ==
  /\ alive = {InitProc}
  /\ sz = [p \in Procs |-> IF p = InitProc THEN 1 ELSE 0]
  /\ vm = [p \in Procs |-> Blank]
  /\ given = {}

Store(p, v, x) ==
  /\ p \in alive
  /\ v < sz[p] \/ <<p, v>> \in given
  /\ vm' = [vm EXCEPT ![p][v] = x]
  /\ UNCHANGED <<alive, sz, given>>

(* A system call stores its result wherever the process wants it.          *)
Deliver(p, v, x) ==
  /\ p \in alive
  /\ vm' = [vm EXCEPT ![p][v] = x]
  /\ given' = IF v < sz[p] THEN given ELSE given \cup {<<p, v>>}
  /\ UNCHANGED <<alive, sz>>

Fork(p, c) ==
  /\ p \in alive
  /\ c \notin alive
  /\ alive' = alive \cup {c}
  /\ sz' = [sz EXCEPT ![c] = sz[p]]
  /\ vm' = [vm EXCEPT ![c] = [v \in VPages |-> IF v < sz[p] THEN vm[p][v] ELSE Zero]]
  /\ UNCHANGED given

Grow(p) ==
  /\ p \in alive
  /\ sz[p] < NPages
  /\ sz' = [sz EXCEPT ![p] = @ + 1]
  /\ given' = given \ {<<p, sz[p]>>}
  /\ UNCHANGED <<alive, vm>>

Shrink(p, newsz) ==
  /\ p \in alive
  /\ newsz < sz[p]
  /\ sz' = [sz EXCEPT ![p] = newsz]
  /\ vm' = [vm EXCEPT ![p] = [v \in VPages |-> IF v \in newsz .. sz[p] - 1 THEN Zero ELSE @[v]]]
  /\ UNCHANGED <<alive, given>>

Exit(p) ==
  /\ p \in alive
  /\ alive' = alive \ {p}
  /\ sz' = [sz EXCEPT ![p] = 0]
  /\ vm' = [vm EXCEPT ![p] = Blank]
  /\ given' = {s \in given : s[1] # p}

Next ==
  \E p \in Procs :
    \/ \E v \in VPages, x \in Vals : Store(p, v, x) \/ Deliver(p, v, x)
    \/ \E c \in Procs : Fork(p, c)
    \/ Grow(p)
    \/ \E newsz \in VPages : Shrink(p, newsz)
    \/ Exit(p)

(* TLC tests first whether a step changes anything. *)
Spec == Init /\ [][vars' # vars /\ Next]_vars
=============================================================================
