------------------------------ MODULE PagePool ------------------------------
(***************************************************************************)
(* What kernel/kalloc.c promises its callers: a pool of pages and a count  *)
(* of references to each.  kalloc hands out a free page with count 1,      *)
(* incref and decref adjust the count of a page that is out, kfree takes   *)
(* back a page whose count is 0.  Each call is one step.                   *)
(*                                                                         *)
(* Module Kalloc is shown to implement this specification, and module      *)
(* CowMemory is built on its actions.                                      *)
(***************************************************************************)
EXTENDS Naturals

CONSTANTS Pages, REF_MAX

VARIABLES free, refcount

vars == <<free, refcount>>

Init ==
  /\ free = Pages
  /\ refcount = [p \in Pages |-> 0]

kalloc(p) ==
  /\ p \in free
  /\ free' = free \ {p}
  /\ refcount' = [refcount EXCEPT ![p] = 1]

incref(p) ==
  /\ p \notin free
  /\ refcount' = [refcount EXCEPT ![p] = IF @ < REF_MAX THEN @ + 1 ELSE @]
  /\ UNCHANGED free

decref(p) ==
  /\ p \notin free
  /\ refcount[p] > 0
  /\ refcount' = [refcount EXCEPT ![p] = @ - 1]
  /\ UNCHANGED free

(* A page that is still counted stays out: kfree returns early.            *)
kfree(p) ==
  /\ p \notin free
  /\ free' = IF refcount[p] = 0 THEN free \cup {p} ELSE free
  /\ UNCHANGED refcount

Next == \E p \in Pages : kalloc(p) \/ incref(p) \/ decref(p) \/ kfree(p)

(* TLC tests first whether a step changes anything. *)
Spec == Init /\ [][vars' # vars /\ Next]_vars
=============================================================================
