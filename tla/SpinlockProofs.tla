--------------------------- MODULE SpinlockProofs ---------------------------
(***************************************************************************)
(* Spinlocks protect, for any number of CPUs and of locks.  The argument   *)
(* is in two parts: who owns a lock (from the exchange in acquire to the   *)
(* store in release), and what noff counts (the locks of the context that  *)
(* runs), from which it follows when interrupts are on.                    *)
(***************************************************************************)
EXTENDS Spinlock, TLAPS, FiniteSetTheorems

(* The time that the provers have for a step.                              *)
USE SMTT(10), ZenonT(20), SMTT(60)

Acquiring == {"push_off", "check", "swap", "owner"}

(* From the exchange to the store, the lock belongs to one context.        *)
Owns(x, l) == l \in held[x] \/ (pc[x] \in {"owner", "unlock"} /\ lk[x] = l)

Owned ==
  /\ \A x, y \in Contexts : \A l \in Locks : Owns(x, l) /\ Owns(y, l) => x = y
  /\ \A x \in Contexts : \A l \in Locks : Owns(x, l) => locked[l]

(* The field cpu is right about locks that are held, and names nobody else.*)
Recorded ==
  /\ \A x \in Contexts : \A l \in held[x] : cpu[l] = x[1]
  /\ \A l \in Locks : cpu[l] # None => \E x \in Contexts : x[1] = cpu[l] /\ l \in held[x]

(* A context acquires a lock that it does not hold, and has given up the   *)
(* one that it releases.                                                   *)
NotHeld ==
  \A x \in Contexts : pc[x] \in Acquiring \union {"unlock"} => lk[x] \in Locks /\ lk[x] \notin held[x]

(* The context that does not run has no lock; a handler that does not run  *)
(* is not in acquire or release at all.                                    *)
Resting ==
  \A x \in Contexts :
    x[2] # active[x[1]] => /\ held[x] = {} /\ pc[x] \in {"run", "push_off"}
                           /\ x[2] = "intr" => pc[x] = "run"

(* The locks that push_off has counted and that are not in held.           *)
Pending(a) == IF a \in {"check", "swap", "owner", "unlock", "pop_off"} THEN 1 ELSE 0

(* noff counts the locks of the context that runs.                         *)
Counted ==
  \A x \in Contexts :
    /\ IsFiniteSet(held[x])
    /\ x[2] = active[x[1]] => noff[x[1]] = Cardinality(held[x]) + Pending(pc[x])

(* Interrupts are on in a base without locks, and what push_off saves.     *)
Enabled ==
  /\ \A c \in CPUs :
       /\ intr[c] <=> active[c] = "base" /\ noff[c] = 0
       /\ noff[c] > 0 => (intena[c] <=> active[c] = "base")
  /\ \A x \in Contexts : pc[x] = "push_off" /\ held[x] = {} => (old[x] <=> x[2] = "base")

IInv == TypeOK /\ ~panicked /\ Owned /\ Recorded /\ NotHeld /\ Resting /\ Counted /\ Enabled

-----------------------------------------------------------------------------
(* A set that is counted, when an element is added or taken away.          *)
LEMMA Add == ASSUME NEW S, IsFiniteSet(S), NEW l, l \notin S
             PROVE  IsFiniteSet(S \union {l}) /\ Cardinality(S \union {l}) = Cardinality(S) + 1
BY FS_AddElement

(* A lock less in a finite set of locks.                                   *)
LEMMA Remove == ASSUME NEW S, IsFiniteSet(S), NEW l \in S
                PROVE  IsFiniteSet(S \ {l}) /\ Cardinality(S \ {l}) = Cardinality(S) - 1
BY FS_RemoveElement

(* The size of a finite set is a number, 0 for the empty set alone.        *)
LEMMA Size == ASSUME NEW S, IsFiniteSet(S)
              PROVE  Cardinality(S) \in Nat /\ (Cardinality(S) = 0 <=> S = {})
BY FS_CardinalityType, FS_EmptySet

(* Two contexts of a CPU are the same if both run.                         *)
LEMMA OneRuns ==
  ASSUME NEW x \in Contexts, NEW y \in Contexts, x[1] = y[1], x[2] = y[2] PROVE x = y
BY DEF Contexts

(* The invariant holds when the system starts.                             *)
LEMMA InitIInv == ASSUME SpinlockAssumption, Init PROVE IInv
<1> USE DEF Contexts
<1>1. TypeOK
  BY Zenon DEF Init, TypeOK
<1>2. Owned /\ NotHeld /\ Recorded
  BY DEF Init, Owned, Owns, NotHeld, Acquiring, Recorded
<1>3. Resting
  BY DEF Init, Resting
<1>4. Counted
  BY FS_EmptySet DEF Init, Counted, Pending
<1>5. Enabled
  BY DEF Init, Enabled
<1> QED
  BY <1>1, <1>2, <1>3, <1>4, <1>5 DEF IInv, Init

-----------------------------------------------------------------------------
(* The invariant is kept by every step.                                    *)
LEMMA NextIInv == ASSUME SpinlockAssumption, IInv, [Next]_vars PROVE IInv'
<1>1. /\ locked \in [Locks -> BOOLEAN] /\ cpu \in [Locks -> CPUs \union {None}]
      /\ noff \in [CPUs -> Nat] /\ intena \in [CPUs -> BOOLEAN]
      /\ intr \in [CPUs -> BOOLEAN] /\ active \in [CPUs -> {"base", "intr"}]
      /\ pc \in [Contexts -> {"run", "push_off", "check", "swap", "owner", "unlock", "pop_off"}]
      /\ lk \in [Contexts -> Locks \union {None}] /\ old \in [Contexts -> BOOLEAN]
      /\ held \in [Contexts -> SUBSET Locks]
      /\ panicked = FALSE
  BY DEF IInv, TypeOK
<1>2. Owned /\ Recorded /\ NotHeld /\ Resting /\ Counted /\ Enabled
  BY DEF IInv
<1>3. \A x \in Contexts : x[1] \in CPUs /\ x[2] \in {"base", "intr"}
  BY DEF Contexts
<1>4. Locks \subseteq Nat /\ None \notin CPUs
  BY DEF SpinlockAssumption
<1>5. \A x \in Contexts : /\ IsFiniteSet(held[x]) /\ Cardinality(held[x]) \in Nat
                          /\ Cardinality(held[x]) = 0 <=> held[x] = {}
  BY <1>2, Size DEF Counted
<1>6. \A x, y \in Contexts : x[1] = y[1] /\ x[2] = y[2] => x = y
  BY OneRuns
<1>7. CASE UNCHANGED vars
  BY <1>2, <1>7 DEF IInv, vars, TypeOK, Owned, Owns, Recorded, NotHeld, Resting, Counted, Enabled
<1>8. ASSUME NEW x \in Contexts, NEW l \in Locks, acquire(x, l)
      PROVE  IInv'
  <2>1. TypeOK' /\ panicked' = FALSE
    BY <1>1, <1>2, <1>3, <1>4, <1>8, Zenon DEF acquire, Running, Goto, TypeOK
  <2>2. Owned'
    BY <1>1, <1>2, <1>3, <1>4, <1>8 DEF acquire, Running, Goto, Owned, Owns, NotHeld, Acquiring
  <2>3. Recorded'
    BY <1>1, <1>2, <1>3, <1>4, <1>8 DEF acquire, Running, Goto, Recorded, Owned, Owns
  <2>4. NotHeld'
    BY <1>1, <1>2, <1>3, <1>4, <1>8 DEF acquire, Running, Goto, NotHeld, Acquiring
  <2>5. Resting'
    BY <1>1, <1>2, <1>3, <1>4, <1>8 DEF acquire, Running, Goto, Resting
  <2>6. Counted'
    BY <1>1, <1>2, <1>3, <1>4, <1>8 DEF acquire, Running, Goto, Counted, Pending
  <2>7. Enabled'
    <3>1. noff[x[1]] = Cardinality(held[x]) /\ x[2] = active[x[1]]
      BY <1>1, <1>2, <1>5, <1>8 DEF acquire, Running, Counted, Pending
    <3>2. held[x] = {} => (intr[x[1]] <=> x[2] = "base")
      BY <1>2, <1>3, <1>5, <3>1, Zenon DEF Enabled
    <3> QED
      BY <1>1, <1>2, <1>3, <1>8, <3>2 DEF acquire, Goto, Enabled
  <2> QED
    BY <2>1, <2>2, <2>3, <2>4, <2>5, <2>6, <2>7 DEF IInv
<1>9. ASSUME NEW x \in Contexts, push_off(x)
      PROVE  IInv'
  <2>1. TypeOK' /\ panicked' = FALSE
    <3>1. intena' \in [CPUs -> BOOLEAN]
      BY <1>1, <1>3, <1>9 DEF push_off
    <3>2. noff' \in [CPUs -> Nat] /\ intr' \in [CPUs -> BOOLEAN]
      BY <1>1, <1>3, <1>9 DEF push_off
    <3>3. pc' \in [Contexts -> {"run", "push_off", "check", "swap", "owner", "unlock", "pop_off"}]
      BY <1>1, <1>9 DEF push_off, Goto
    <3> QED
      BY <1>1, <1>9, <3>1, <3>2, <3>3, Zenon DEF push_off, TypeOK
  <2>2. Owned'
    BY <1>1, <1>2, <1>3, <1>4, <1>9 DEF push_off, Running, Goto, Owned, Owns, NotHeld, Acquiring
  <2>3. Recorded'
    BY <1>1, <1>2, <1>3, <1>4, <1>9 DEF push_off, Running, Goto, Recorded, Owned, Owns
  <2>4. NotHeld'
    BY <1>1, <1>2, <1>3, <1>4, <1>9 DEF push_off, Running, Goto, NotHeld, Acquiring
  <2>5. Resting'
    BY <1>1, <1>2, <1>3, <1>4, <1>9 DEF push_off, Running, Goto, Resting
  <2>6. Counted'
    <3>1. noff[x[1]] = Cardinality(held[x])
      BY <1>2, <1>5, <1>9 DEF push_off, Running, Counted, Pending
    <3> QED
      BY <1>1, <1>2, <1>3, <1>5, <1>6, <1>9, <3>1 DEF push_off, Running, Goto, Counted, Pending
  <2>7. Enabled'
    <3>1. noff[x[1]] = Cardinality(held[x]) /\ x[2] = active[x[1]]
      BY <1>2, <1>5, <1>9 DEF push_off, Running, Counted, Pending
    <3>2. noff[x[1]] = 0 => (old[x] <=> active[x[1]] = "base")
      BY <1>2, <1>5, <1>9, <3>1, Zenon DEF push_off, Running, Enabled
    <3>3. \A y \in Contexts : pc'[y] = "push_off" => pc[y] = "push_off"
      BY <1>1, <1>9 DEF push_off, Goto
    <3> QED
      BY <1>1, <1>2, <1>3, <1>9, <3>2, <3>3 DEF push_off, Enabled
  <2> QED
    BY <2>1, <2>2, <2>3, <2>4, <2>5, <2>6, <2>7 DEF IInv
<1>10. ASSUME NEW x \in Contexts, Check(x)
      PROVE  IInv'
  <2>1. TypeOK' /\ panicked' = FALSE
    <3>1. ~holding(x[1], lk[x])
      <4> SUFFICES ASSUME cpu[lk[x]] = x[1] PROVE FALSE
        BY DEF holding
      <4>1. lk[x] \in Locks /\ lk[x] \notin held[x]
        BY <1>2, <1>10 DEF Check, Running, NotHeld, Acquiring
      <4>2. PICK y \in Contexts : y[1] = x[1] /\ lk[x] \in held[y]
        <5>1. cpu[lk[x]] = x[1] /\ x[1] # None
          BY <1>3, <1>4
        <5> QED
          BY <1>2, <4>1, <5>1 DEF Recorded
      <4>3. y[2] = x[2]
        BY <1>2, <1>10, <4>2 DEF Check, Running, Resting
      <4> QED
        BY <1>6, <4>1, <4>2, <4>3
    <3>2. panicked' = FALSE
      BY <1>10, <3>1, Zenon DEF Check, holding
    <3> QED
      BY <1>1, <1>10, <3>2, Zenon DEF Check, Goto, TypeOK
  <2>2. Owned'
    BY <1>1, <1>2, <1>3, <1>4, <1>10 DEF Check, Running, Goto, Owned, Owns, NotHeld, Acquiring
  <2>3. Recorded'
    BY <1>1, <1>2, <1>3, <1>4, <1>10 DEF Check, Running, Goto, Recorded, Owned, Owns
  <2>4. NotHeld'
    BY <1>1, <1>2, <1>3, <1>4, <1>10 DEF Check, Running, Goto, NotHeld, Acquiring
  <2>5. Resting'
    BY <1>1, <1>2, <1>3, <1>4, <1>10 DEF Check, Running, Goto, Resting
  <2>6. Counted'
    BY <1>1, <1>2, <1>3, <1>4, <1>10 DEF Check, Running, Goto, Counted, Pending
  <2>7. Enabled'
    BY <1>1, <1>2, <1>3, <1>4, <1>10 DEF Check, Running, Goto, Enabled, Counted
  <2> QED
    BY <2>1, <2>2, <2>3, <2>4, <2>5, <2>6, <2>7 DEF IInv
<1>11. ASSUME NEW x \in Contexts, TestAndSet(x)
      PROVE  IInv'
  <2>1. TypeOK' /\ panicked' = FALSE
    BY <1>1, <1>2, <1>3, <1>4, <1>11, Zenon DEF TestAndSet, Running, Goto, TypeOK
  <2>2. Owned'
    BY <1>1, <1>2, <1>3, <1>4, <1>11 DEF TestAndSet, Running, Goto, Owned, Owns, NotHeld, Acquiring
  <2>3. Recorded'
    BY <1>1, <1>2, <1>3, <1>4, <1>11 DEF TestAndSet, Running, Goto, Recorded, Owned, Owns
  <2>4. NotHeld'
    BY <1>1, <1>2, <1>3, <1>4, <1>11 DEF TestAndSet, Running, Goto, NotHeld, Acquiring
  <2>5. Resting'
    BY <1>1, <1>2, <1>3, <1>4, <1>11 DEF TestAndSet, Running, Goto, Resting
  <2>6. Counted'
    BY <1>1, <1>2, <1>3, <1>4, <1>11 DEF TestAndSet, Running, Goto, Counted, Pending
  <2>7. Enabled'
    BY <1>1, <1>2, <1>3, <1>4, <1>11 DEF TestAndSet, Running, Goto, Enabled, Counted
  <2> QED
    BY <2>1, <2>2, <2>3, <2>4, <2>5, <2>6, <2>7 DEF IInv
<1>12. ASSUME NEW x \in Contexts, Acquired(x)
      PROVE  IInv'
  <2>1. TypeOK' /\ panicked' = FALSE
    <3>1. lk[x] \in Locks
      BY <1>2, <1>12 DEF Acquired, Running, NotHeld, Acquiring
    <3> QED
      BY <1>1, <1>3, <1>12, <3>1, Zenon DEF Acquired, Running, Goto, TypeOK
  <2>2. Owned'
    <3>1. \A y \in Contexts, l \in Locks : Owns(y, l)' => Owns(y, l)
      BY <1>1, <1>12 DEF Acquired, Running, Goto, Owns
    <3> QED
      BY <1>2, <1>12, <3>1 DEF Acquired, Owned
  <2>3. Recorded'
    <3>1. lk[x] \in Locks /\ \A y \in Contexts : lk[x] \in held[y] => y = x
      BY <1>2, <1>12 DEF Acquired, Running, NotHeld, Acquiring, Owned, Owns
    <3>2. \A y \in Contexts : \A l \in held'[y] : cpu'[l] = y[1]
      BY <1>1, <1>2, <1>12, <3>1 DEF Acquired, Recorded
    <3>3. ASSUME NEW l \in Locks, cpu'[l] # None
          PROVE  \E y \in Contexts : y[1] = cpu'[l] /\ l \in held'[y]
      <4>1. CASE l = lk[x]
        BY <1>1, <1>12, <4>1 DEF Acquired
      <4>2. CASE l # lk[x]
        BY <1>1, <1>2, <1>12, <3>3, <4>2 DEF Acquired, Recorded
      <4> QED
        BY <4>1, <4>2
    <3> QED
      BY <3>2, <3>3 DEF Recorded
  <2>4. NotHeld'
    BY <1>1, <1>2, <1>3, <1>4, <1>12 DEF Acquired, Running, Goto, NotHeld, Acquiring
  <2>5. Resting'
    BY <1>1, <1>2, <1>3, <1>4, <1>12 DEF Acquired, Running, Goto, Resting
  <2>6. Counted'
    <3>1. lk[x] \notin held[x]
      BY <1>2, <1>12 DEF Acquired, Running, NotHeld, Acquiring
    <3>2. /\ IsFiniteSet(held[x] \union {lk[x]})
          /\ Cardinality(held[x] \union {lk[x]}) = Cardinality(held[x]) + 1
      BY <1>5, <3>1, Add
    <3>3. noff[x[1]] = Cardinality(held[x]) + 1
      BY <1>2, <1>12 DEF Acquired, Running, Counted, Pending
    <3> QED
      BY <1>1, <1>2, <1>5, <1>6, <1>12, <3>2, <3>3 DEF Acquired, Running, Goto, Counted, Pending
  <2>7. Enabled'
    BY <1>1, <1>2, <1>3, <1>4, <1>12 DEF Acquired, Running, Goto, Enabled, Counted
  <2> QED
    BY <2>1, <2>2, <2>3, <2>4, <2>5, <2>6, <2>7 DEF IInv
<1>13. ASSUME NEW x \in Contexts, NEW l \in Locks, release(x, l)
      PROVE  IInv'
  <2>1. TypeOK' /\ panicked' = FALSE
    <3>1. holding(x[1], l)
      BY <1>2, <1>13 DEF release, Owned, Owns, Recorded, holding
    <3> QED
      BY <1>1, <1>13, <3>1, Zenon DEF release, Goto, TypeOK
  <2>2. Owned'
    BY <1>1, <1>2, <1>3, <1>4, <1>13 DEF release, Running, Goto, Owned, Owns, NotHeld, Acquiring
  <2>3. Recorded'
    BY <1>1, <1>2, <1>3, <1>4, <1>13 DEF release, Running, Goto, Recorded, Owned, Owns
  <2>4. NotHeld'
    BY <1>1, <1>2, <1>3, <1>4, <1>13 DEF release, Running, Goto, NotHeld, Acquiring
  <2>5. Resting'
    BY <1>1, <1>2, <1>3, <1>4, <1>13 DEF release, Running, Goto, Resting
  <2>6. Counted'
    <3>1. /\ IsFiniteSet(held[x] \ {l})
          /\ Cardinality(held[x] \ {l}) = Cardinality(held[x]) - 1
      BY <1>5, <1>13, Remove DEF release
    <3>2. noff[x[1]] = Cardinality(held[x])
      BY <1>2, <1>5, <1>13 DEF release, Running, Counted, Pending
    <3> QED
      BY <1>1, <1>2, <1>5, <1>6, <1>13, <3>1, <3>2 DEF release, Running, Goto, Counted, Pending
  <2>7. Enabled'
    BY <1>1, <1>2, <1>3, <1>4, <1>13 DEF release, Running, Goto, Enabled, Counted
  <2> QED
    BY <2>1, <2>2, <2>3, <2>4, <2>5, <2>6, <2>7 DEF IInv
<1>14. ASSUME NEW x \in Contexts, Unlock(x)
      PROVE  IInv'
  <2>1. TypeOK' /\ panicked' = FALSE
    BY <1>1, <1>2, <1>3, <1>4, <1>14, Zenon DEF Unlock, Running, Goto, TypeOK
  <2>2. Owned'
    BY <1>1, <1>2, <1>3, <1>4, <1>14 DEF Unlock, Running, Goto, Owned, Owns, NotHeld, Acquiring
  <2>3. Recorded'
    BY <1>1, <1>2, <1>3, <1>4, <1>14 DEF Unlock, Running, Goto, Recorded, Owned, Owns
  <2>4. NotHeld'
    BY <1>1, <1>2, <1>3, <1>4, <1>14 DEF Unlock, Running, Goto, NotHeld, Acquiring
  <2>5. Resting'
    BY <1>1, <1>2, <1>3, <1>4, <1>14 DEF Unlock, Running, Goto, Resting
  <2>6. Counted'
    BY <1>1, <1>2, <1>3, <1>4, <1>14 DEF Unlock, Running, Goto, Counted, Pending
  <2>7. Enabled'
    BY <1>1, <1>2, <1>3, <1>4, <1>14 DEF Unlock, Running, Goto, Enabled, Counted
  <2> QED
    BY <2>1, <2>2, <2>3, <2>4, <2>5, <2>6, <2>7 DEF IInv
<1>15. ASSUME NEW x \in Contexts, pop_off(x)
      PROVE  IInv'
  <2>0. noff[x[1]] = Cardinality(held[x]) + 1 /\ x[2] = active[x[1]]
    BY <1>2, <1>15 DEF pop_off, Running, Counted, Pending
  <2>1. TypeOK' /\ panicked' = FALSE
    <3>1. ~intr[x[1]] /\ ~(noff[x[1]] < 1)
      BY <1>2, <1>3, <1>5, <2>0 DEF Enabled
    <3>2. noff' \in [CPUs -> Nat]
      BY <1>1, <1>3, <1>5, <1>15, <2>0 DEF pop_off
    <3>3. intr' \in [CPUs -> BOOLEAN]
      BY <1>1, <1>3, <1>15 DEF pop_off
    <3> QED
      BY <1>1, <1>15, <3>1, <3>2, <3>3 DEF pop_off, Goto, TypeOK
  <2>2. Owned'
    BY <1>1, <1>2, <1>3, <1>4, <1>15 DEF pop_off, Running, Goto, Owned, Owns, NotHeld, Acquiring
  <2>3. Recorded'
    BY <1>1, <1>2, <1>3, <1>4, <1>15 DEF pop_off, Running, Goto, Recorded, Owned, Owns
  <2>4. NotHeld'
    BY <1>1, <1>2, <1>3, <1>4, <1>15 DEF pop_off, Running, Goto, NotHeld, Acquiring
  <2>5. Resting'
    BY <1>1, <1>2, <1>3, <1>4, <1>15 DEF pop_off, Running, Goto, Resting
  <2>6. Counted'
    BY <1>1, <1>2, <1>3, <1>5, <1>6, <1>15, <2>0 DEF pop_off, Running, Goto, Counted, Pending
  <2>7. Enabled'
    <3>1. /\ noff' = [noff EXCEPT ![x[1]] = noff[x[1]] - 1]
          /\ intr' = [intr EXCEPT ![x[1]] = intr[x[1]] \/ (noff[x[1]] = 1 /\ intena[x[1]])]
          /\ UNCHANGED <<intena, active, old, held>>
      BY <1>15 DEF pop_off
    <3>2. noff[x[1]] \in Nat /\ noff[x[1]] > 0 /\ ~intr[x[1]] /\ (intena[x[1]] <=> active[x[1]] = "base")
      BY <1>1, <1>2, <1>3, <1>5, <2>0 DEF Enabled
    <3>3. ASSUME NEW d \in CPUs
          PROVE  /\ intr'[d] <=> active'[d] = "base" /\ noff'[d] = 0
                 /\ noff'[d] > 0 => (intena'[d] <=> active'[d] = "base")
      <4>1. CASE d = x[1]
        <5>1. noff'[d] = noff[d] - 1 /\ (intr'[d] <=> noff[d] = 1 /\ intena[d])
          BY <1>1, <1>3, <3>1, <3>2, <4>1
        <5>2. noff'[d] = 0 <=> noff[d] = 1
          BY <3>2, <4>1, <5>1
        <5> QED
          BY <3>1, <3>2, <4>1, <5>1, <5>2
      <4>2. CASE d # x[1]
        BY <1>1, <1>2, <1>3, <3>1, <4>2 DEF Enabled
      <4> QED
        BY <4>1, <4>2
    <3>4. \A y \in Contexts : pc'[y] = "push_off" => pc[y] = "push_off"
      BY <1>1, <1>15 DEF pop_off, Goto
    <3> QED
      BY <1>2, <3>1, <3>3, <3>4 DEF Enabled
  <2> QED
    BY <2>1, <2>2, <2>3, <2>4, <2>5, <2>6, <2>7 DEF IInv
<1>16. ASSUME NEW c \in CPUs, Interrupt(c)
      PROVE  IInv'
  <2>1. TypeOK' /\ panicked' = FALSE
    BY <1>1, <1>2, <1>3, <1>4, <1>16, Zenon DEF Interrupt, TypeOK
  <2>2. Owned'
    BY <1>1, <1>2, <1>3, <1>4, <1>16 DEF Interrupt, Owned, Owns, NotHeld, Acquiring
  <2>3. Recorded'
    BY <1>1, <1>2, <1>3, <1>4, <1>16 DEF Interrupt, Recorded, Owned, Owns
  <2>4. NotHeld'
    BY <1>1, <1>2, <1>3, <1>4, <1>16 DEF Interrupt, NotHeld, Acquiring
  <2>5. Resting'
    <3>1. noff[c] = 0
      BY <1>2, <1>16 DEF Interrupt, Enabled
    <3>2. ASSUME NEW y \in Contexts, y[1] = c, y[2] = "base"
          PROVE  held[y] = {} /\ pc[y] \in {"run", "push_off"}
      BY <1>1, <1>2, <1>5, <1>16, <3>1, <3>2 DEF Interrupt, Counted, Pending
    <3> QED
      BY <1>1, <1>2, <1>3, <1>16, <3>2 DEF Interrupt, Resting
  <2>6. Counted'
    <3>1. noff[c] = 0
      BY <1>2, <1>16 DEF Interrupt, Enabled
    <3>2. ASSUME NEW y \in Contexts, y[1] = c, y[2] = "intr"
          PROVE  held[y] = {} /\ pc[y] = "run"
      BY <1>2, <1>16, <3>2 DEF Interrupt, Resting
    <3> QED
      BY <1>1, <1>2, <1>3, <1>5, <1>16, <3>1, <3>2 DEF Interrupt, Counted, Pending
  <2>7. Enabled'
    BY <1>1, <1>2, <1>3, <1>4, <1>16 DEF Interrupt, Enabled, Counted
  <2> QED
    BY <2>1, <2>2, <2>3, <2>4, <2>5, <2>6, <2>7 DEF IInv
<1>17. ASSUME NEW c \in CPUs, Return(c)
      PROVE  IInv'
  <2>1. TypeOK' /\ panicked' = FALSE
    BY <1>1, <1>2, <1>3, <1>4, <1>17, Zenon DEF Return, Running, Goto, TypeOK
  <2>2. Owned'
    BY <1>1, <1>2, <1>3, <1>4, <1>17 DEF Return, Running, Goto, Owned, Owns, NotHeld, Acquiring
  <2>3. Recorded'
    BY <1>1, <1>2, <1>3, <1>4, <1>17 DEF Return, Running, Goto, Recorded, Owned, Owns
  <2>4. NotHeld'
    BY <1>1, <1>2, <1>3, <1>4, <1>17 DEF Return, Running, Goto, NotHeld, Acquiring
  <2>5. Resting'
    <3>1. ASSUME NEW y \in Contexts, y[1] = c, y[2] = "intr"
          PROVE  held[y] = {} /\ pc[y] = "run"
      BY <1>17, <3>1 DEF Return, Running, Contexts
    <3> QED
      BY <1>1, <1>2, <1>3, <1>17, <3>1 DEF Return, Resting
  <2>0. noff[c] = 0
    <3>1. <<c, "intr">> \in Contexts
      BY DEF Contexts
    <3> QED
      BY <1>2, <1>5, <1>17, <3>1 DEF Return, Running, Counted, Pending
  <2>6. Counted'
    <3>1. ASSUME NEW y \in Contexts, y[1] = c, y[2] = "base"
          PROVE  held[y] = {} /\ pc[y] \in {"run", "push_off"}
      BY <1>2, <1>17, <3>1 DEF Return, Resting
    <3> QED
      BY <1>1, <1>2, <1>3, <1>5, <1>17, <2>0, <3>1 DEF Return, Counted, Pending
  <2>7. Enabled'
    BY <1>1, <1>2, <1>17, <2>0 DEF Return, Enabled
  <2> QED
    BY <2>1, <2>2, <2>3, <2>4, <2>5, <2>6, <2>7 DEF IInv
<1> QED
  BY <1>7, <1>8, <1>9, <1>10, <1>11, <1>12, <1>13, <1>14, <1>15, <1>16, <1>17 DEF Next

(* LocksProtect holds of acquire, release, push_off and pop_off, with any  *)
(* number of CPUs and locks.                                               *)
THEOREM LocksProtectHolds ==
  ASSUME SpinlockAssumption PROVE Spec => []LocksProtect
<1>1. Init => IInv
  BY InitIInv
<1>2. IInv /\ [Next]_vars => IInv'
  BY NextIInv
<1>3. ASSUME IInv PROVE LocksProtect
  <2>1. \A x, y \in Contexts : x # y => held[x] \intersect held[y] = {}
    BY <1>3 DEF IInv, TypeOK, Owned, Owns
  <2>2. ASSUME NEW c \in CPUs
        PROVE  active[c] = "intr" =>
                 held[<<c, "base">>] = {} /\ pc[<<c, "base">>] \in {"run", "push_off"}
    BY <1>3 DEF IInv, Resting, Contexts
  <2>3. ASSUME NEW c \in CPUs, active[c] = "base", held[<<c, "base">>] = {}, pc[<<c, "base">>] = "run"
        PROVE  intr[c]
    <3>1. noff[c] = Cardinality({})
      BY <1>3, <2>3, FS_EmptySet DEF IInv, Counted, Contexts, Pending
    <3> QED
      BY <1>3, <2>3, <3>1, FS_EmptySet DEF IInv, Enabled
  <2> QED
    BY <1>3, <2>1, <2>2, <2>3 DEF IInv, LocksProtect
<1> QED
  BY <1>1, <1>2, <1>3, PTL DEF Spec
=============================================================================
