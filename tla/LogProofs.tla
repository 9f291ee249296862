------------------------------ MODULE LogProofs -----------------------------
(***************************************************************************)
(* The log implements an atomic disk, for any number of processes, blocks  *)
(* and log blocks.  The invariant says what memory, log and home blocks    *)
(* have to do with each other at every point of commit and of recovery.    *)
(***************************************************************************)
EXTENDS Log, TLAPS, FiniteSetTheorems

(* The time that the provers have for a step.                              *)
USE SMTT(10), ZenonT(20), SMTT(60)

(* The type of every variable; the header never names more blocks than the *)
(* log has room for.                                                       *)
Header == {s \in Seq(Blocks) : Len(s) <= size - 1}

Committing == {"writelog", "install", "committed"}

TypeOK ==
  /\ disk \in [Blocks -> Vals] /\ cache \in [Blocks -> Vals]
  /\ dlog \in [1 .. size - 1 -> Vals]
  /\ dhead \in Header /\ lh \in Header
  /\ pinned \in SUBSET Blocks
  /\ outstanding \in Nat /\ tail \in Nat
  /\ committing \in BOOLEAN /\ panicked \in BOOLEAN
  /\ pc \in [Procs -> {"idle", "sleep", "op"} \union Committing]
  /\ wrote \in [Procs -> SUBSET Blocks]
  /\ sys \in {"up", "readhead", "recover"}

(* A block is in the log once.                                             *)
Distinct(s) == \A i, j \in 1 .. Len(s) : s[i] = s[j] => i = j

LogOnce == Distinct(lh) /\ Distinct(dhead)

(* outstanding counts the calls in progress; there is none while one       *)
(* process commits, and none in recovery.                                  *)
Ops == {p \in Procs : pc[p] = "op"}

Alone ==
  /\ IsFiniteSet(Ops) /\ outstanding = Cardinality(Ops)
  /\ committing => Ops = {}
  /\ \A p \in Procs : pc[p] \in Committing => committing /\ sys = "up"
  /\ \A p, q \in Procs : pc[p] \in Committing /\ pc[q] \in Committing => p = q
  /\ sys # "up" => \A p \in Procs : pc[p] = "idle"

(* tail is a loop counter of write_log and install_trans.                  *)
Loop ==
  /\ tail <= Len(lh)
  /\ sys = "up" /\ (\A p \in Procs : pc[p] \notin {"writelog", "install"}) => tail = 0
  /\ sys = "readhead" => tail = 0 /\ lh = <<>>

(* While the system is up, only blocks in the log differ from their home,  *)
(* and the header on disk is empty but during the installation.            *)
Up ==
  sys = "up" =>
    /\ \A b \in Blocks : b \notin Logged => cache[b] = disk[b]
    /\ (\A p \in Procs : pc[p] # "install") => dhead = <<>>

(* What the steps of commit have done.                                     *)
Commit ==
  \A p \in Procs :
    /\ pc[p] = "writelog" => \A i \in 1 .. tail : dlog[i] = cache[lh[i]]
    /\ pc[p] = "install" =>
         /\ dhead = lh
         /\ \A i \in 1 .. Len(lh) : dlog[i] = cache[lh[i]]
         /\ \A i \in 1 .. tail : disk[lh[i]] = cache[lh[i]]
    /\ pc[p] = "committed" => lh = <<>>

(* What the steps of recovery have done.                                   *)
Recover ==
  /\ sys # "up" => cache = disk
  /\ sys = "recover" => lh = dhead /\ \A i \in 1 .. tail : disk[lh[i]] = dlog[i]

(* A block in the log is pinned until it is installed.                     *)
Pinned ==
  sys = "up" =>
    \A i \in 1 .. Len(lh) :
      lh[i] \in pinned \/ (i <= tail /\ \E p \in Procs : pc[p] = "install")

IInv == TypeOK /\ LogOnce /\ Alone /\ Loop /\ Up /\ Commit /\ Recover /\ Pinned
-----------------------------------------------------------------------------
(* The empty header is one, and appending keeps within the log.            *)
LEMMA EmptyHeader == ASSUME LogAssumption PROVE <<>> \in Header /\ Distinct(<<>>)
BY DEF LogAssumption, Header, Distinct

(* log_write adds a block to the header unless it is there already.        *)
LEMMA RecordHeader ==
  ASSUME size \in Nat, lh \in Header, NEW b \in Blocks, Len(lh) < size - 1, Distinct(lh)
  PROVE  /\ Record(b) \in Header /\ Distinct(Record(b))
         /\ Len(Record(b)) \in Nat /\ Len(lh) <= Len(Record(b)) /\ Len(Record(b)) <= Len(lh) + 1
         /\ \A i \in 1 .. Len(lh) : Record(b)[i] = lh[i]
         /\ \A i \in 1 .. Len(Record(b)) : i \in 1 .. Len(lh) \/ Record(b)[i] = b
         /\ \E i \in 1 .. Len(Record(b)) : Record(b)[i] = b
<1>1. lh \in Seq(Blocks) /\ Len(lh) \in Nat
  BY DEF Header
<1>2. CASE b \in Logged
  BY <1>2 DEF Record, Logged
<1>3. CASE b \notin Logged
  <2>1. Record(b) = Append(lh, b)
    BY <1>3 DEF Record
  <2>2. /\ Append(lh, b) \in Seq(Blocks) /\ Len(Append(lh, b)) = Len(lh) + 1
        /\ \A i \in 1 .. Len(lh) : Append(lh, b)[i] = lh[i]
        /\ Append(lh, b)[Len(lh) + 1] = b
    BY <1>1
  <2>3. Distinct(Append(lh, b))
    BY <1>3, <2>2 DEF Distinct, Logged
  <2> QED
    BY <2>1, <2>2, <2>3 DEF Header
<1> QED
  BY <1>2, <1>3

(* The calls in progress, when one begins or ends.                         *)
LEMMA AddOp ==
  ASSUME NEW S, IsFiniteSet(S), NEW p, p \notin S
  PROVE  IsFiniteSet(S \union {p}) /\ Cardinality(S \union {p}) = Cardinality(S) + 1
BY FS_AddElement

(* A call less in a finite set of calls.                                   *)
LEMMA RemoveOp ==
  ASSUME NEW S, IsFiniteSet(S), NEW p \in S
  PROVE  /\ IsFiniteSet(S \ {p}) /\ Cardinality(S \ {p}) = Cardinality(S) - 1
         /\ Cardinality(S) \in Nat /\ Cardinality(S) >= 1
         /\ Cardinality(S) = 1 => S \ {p} = {}
<1>1. IsFiniteSet(S \ {p}) /\ Cardinality(S \ {p}) = Cardinality(S) - 1
  BY FS_RemoveElement
<1>2. Cardinality(S) \in Nat /\ Cardinality(S \ {p}) \in Nat
  BY <1>1, FS_CardinalityType
<1>3. Cardinality(S \ {p}) = 0 => S \ {p} = {}
  BY <1>1, FS_EmptySet
<1> QED
  BY <1>1, <1>2, <1>3

(* The invariant holds when the system starts.                             *)
LEMMA InitIInv == ASSUME LogAssumption, Init PROVE IInv
<1> USE DEF LogAssumption
<1>1. TypeOK
  <2>1. disk \in [Blocks -> Vals] /\ cache \in [Blocks -> Vals] /\ dlog \in [1 .. size - 1 -> Vals]
    BY DEF Init
  <2>2. pc \in [Procs -> {"idle", "sleep", "op"} \union Committing] /\ wrote \in [Procs -> SUBSET Blocks]
    BY DEF Init
  <2> QED
    BY <2>1, <2>2, EmptyHeader, Zenon DEF Init, TypeOK
<1>2. LogOnce /\ Loop /\ Recover /\ Pinned
  BY DEF Init, LogOnce, Distinct, Loop, Recover, Pinned
<1>3. Alone
  BY FS_EmptySet, Zenon DEF Init, Alone, Ops, Committing
<1>4. Up /\ Commit
  BY DEF Init, Up, Commit
<1> QED
  BY <1>1, <1>2, <1>3, <1>4 DEF IInv

-----------------------------------------------------------------------------
(* The invariant is kept by every step.                                    *)
LEMMA NextIInv == ASSUME LogAssumption, IInv, [Next]_vars PROVE IInv'
<1>disk. disk \in [Blocks -> Vals] /\ cache \in [Blocks -> Vals]
  BY DEF IInv, TypeOK
<1>dlog. dlog \in [1 .. size - 1 -> Vals]
  BY DEF IInv, TypeOK
<1>dhead. dhead \in Seq(Blocks) /\ Len(dhead) <= size - 1
  BY DEF IInv, TypeOK, Header
<1>lh. lh \in Seq(Blocks) /\ Len(lh) <= size - 1
  BY DEF IInv, TypeOK, Header
<1>sets. pinned \in SUBSET Blocks /\ wrote \in [Procs -> SUBSET Blocks]
  BY DEF IInv, TypeOK
<1>counts. outstanding \in Nat /\ tail \in Nat
  BY DEF IInv, TypeOK
<1>flags. committing \in BOOLEAN /\ panicked \in BOOLEAN /\ sys \in {"up", "readhead", "recover"}
  BY DEF IInv, TypeOK
<1>pc. pc \in [Procs -> {"idle", "sleep", "op", "writelog", "install", "committed"}]
  BY DEF IInv, TypeOK, Committing
<1>2. LogOnce /\ Alone /\ Loop /\ Up /\ Commit /\ Recover /\ Pinned
  BY DEF IInv
<1>3. size \in Nat
  BY DEF LogAssumption
<1>4. CASE UNCHANGED vars
  BY <1>4 DEF vars, IInv, TypeOK, LogOnce, Alone, Ops, Loop, Up, Logged, Commit, Recover, Pinned
<1>5. ASSUME NEW p \in Procs, begin_op(p)
      PROVE  IInv'
  <2>1. TypeOK' /\ LogOnce' /\ Loop' /\ Up' /\ Commit' /\ Recover' /\ Pinned'
    BY <1>disk, <1>dlog, <1>dhead, <1>lh, <1>sets, <1>counts, <1>flags, <1>pc, <1>5, <1>2 DEF
       begin_op, ondisk, TypeOK, Header, Committing, LogOnce, Loop, Up, Logged, Commit, Alone,
       Running, Recover, Pinned
  <2>3. Alone'
    <3>1. Ops' = Ops \union {p} /\ p \notin Ops
      BY <1>pc, <1>5 DEF begin_op, Ops
    <3>2. IsFiniteSet(Ops') /\ outstanding' = Cardinality(Ops')
      BY <1>2, <1>5, <3>1, AddOp DEF begin_op, Alone
    <3> QED
      BY <1>2, <1>5, <3>2 DEF begin_op, Running, Alone, Committing
  <2> QED
    BY <2>1, <2>3 DEF IInv
<1>6. ASSUME NEW p \in Procs, BeginSleep(p)
      PROVE  IInv'
  <2>1. TypeOK'
    BY <1>disk, <1>dlog, <1>dhead, <1>lh, <1>sets, <1>counts, <1>flags, <1>pc, <1>6 DEF
       BeginSleep, ondisk, TypeOK, Header, Committing
  <2>2. LogOnce'
    BY <1>2, <1>6 DEF BeginSleep, ondisk, LogOnce
  <2>3. Alone'
    BY <1>disk, <1>dlog, <1>dhead, <1>lh, <1>sets, <1>counts, <1>flags, <1>pc, <1>2, <1>3, <1>6,
       Zenon DEF BeginSleep, ondisk, Running, Alone, Ops, Committing
  <2>4. Loop'
    BY <1>2, <1>6 DEF BeginSleep, Loop
  <2>5. Up'
    BY <1>2, <1>6 DEF BeginSleep, ondisk, Up, Logged
  <2>6. Commit'
    BY <1>2, <1>6 DEF BeginSleep, ondisk, Commit
  <2>7. Recover'
    BY <1>6 DEF BeginSleep, Running, Recover
  <2>8. Pinned'
    BY <1>2, <1>6 DEF BeginSleep, Pinned
  <2> QED
    BY <2>1, <2>2, <2>3, <2>4, <2>5, <2>6, <2>7, <2>8 DEF IInv
<1>7. ASSUME NEW p \in Procs, NEW b \in Blocks, NEW x \in Vals, log_write(p, b, x)
      PROVE  IInv'
  <2>1. CASE panicked' = TRUE /\ UNCHANGED <<cache, lh, pinned, wrote>>
    BY <1>disk, <1>dlog, <1>dhead, <1>7, <2>1 DEF log_write, ondisk, IInv, TypeOK, LogOnce,
       Alone, Ops, Loop, Up, Logged, Commit, Recover, Pinned
  <2>2. CASE /\ Len(lh) < size - 1
             /\ cache' = [cache EXCEPT ![b] = x]
             /\ lh' = Record(b)
             /\ pinned' = pinned \cup {b}
             /\ wrote' = [wrote EXCEPT ![p] = @ \cup {b}]
             /\ UNCHANGED panicked
    <3>1. /\ sys = "up" /\ pc[p] = "op"
          /\ UNCHANGED <<disk, dlog, dhead, outstanding, committing, pc, sys, tail>>
      BY <1>7 DEF log_write, Running, ondisk
    <3>2. /\ lh' \in Header /\ Distinct(lh')
          /\ Len(lh') \in Nat /\ Len(lh) <= Len(lh')
          /\ \A i \in 1 .. Len(lh) : lh'[i] = lh[i]
          /\ \A i \in 1 .. Len(lh') : i \in 1 .. Len(lh) \/ lh'[i] = b
          /\ \E i \in 1 .. Len(lh') : lh'[i] = b
      BY <1>disk, <1>dlog, <1>dhead, <1>lh, <1>sets, <1>counts, <1>flags, <1>pc, <1>2, <1>3,
         <2>2, RecordHeader, Zenon DEF Header, LogOnce
    <3>3. \A q \in Procs : pc[q] \notin Committing
      BY <1>2, <3>1 DEF Alone, Ops
    <3>4. TypeOK'
      BY <1>disk, <1>dlog, <1>dhead, <1>sets, <1>counts, <1>flags, <1>pc, <2>2, <3>1, <3>2 DEF
         TypeOK, Header, Committing
    <3>5. LogOnce'
      BY <1>2, <3>1, <3>2 DEF LogOnce
    <3>6. Alone'
      BY <1>2, <3>1 DEF Alone, Ops
    <3>7. Loop'
      BY <1>counts, <1>2, <3>1, <3>2 DEF Loop
    <3>8. Up'
      <4>1. ASSUME NEW d \in Blocks, d \notin Logged' PROVE cache'[d] = disk'[d]
        <5>1. \A i \in 1 .. Len(lh') : lh'[i] # d
          BY <4>1 DEF Logged
        <5>2. d # b
          BY <3>2, <5>1
        <5>3. \A i \in 1 .. Len(lh) : i \in 1 .. Len(lh')
          BY <3>2
        <5>4. d \notin Logged
          BY <3>2, <5>1, <5>3 DEF Logged
        <5> QED
          BY <1>2, <2>2, <3>1, <5>2, <5>4 DEF Up
      <4>2. (\A q \in Procs : pc'[q] # "install") => dhead' = <<>>
        BY <1>2, <3>1 DEF Up
      <4>3. \A d \in Blocks : d \notin Logged' => cache'[d] = disk'[d]
        BY <4>1
      <4> QED
        BY <4>2, <4>3 DEF Up
    <3>9. Commit'
      BY <3>1, <3>3 DEF Commit, Committing
    <3>10. Recover'
      BY <3>1 DEF Recover
    <3>11. Pinned'
      BY <1>2, <2>2, <3>1, <3>2 DEF Pinned
    <3> QED
      BY <3>4, <3>5, <3>6, <3>7, <3>8, <3>9, <3>10, <3>11 DEF IInv
  <2> QED
    BY <1>7, <2>1, <2>2, Zenon DEF log_write
<1>8. ASSUME NEW p \in Procs, end_op(p)
      PROVE  IInv'
  <2>0. /\ Ops' = Ops \ {p} /\ IsFiniteSet(Ops') /\ outstanding >= 1
        /\ outstanding' = Cardinality(Ops')
        /\ outstanding = 1 => Ops' = {}
        /\ ~committing
    <3>1. Ops' = Ops \ {p} /\ p \in Ops
      BY <1>pc, <1>8 DEF end_op, Ops, Wakeup
    <3> QED
      BY <1>2, <1>8, <3>1, RemoveOp DEF end_op, Alone
  <2>1. TypeOK'
    <3>1. pc' \in [Procs -> {"idle", "sleep", "op"} \union Committing]
      BY <1>pc, <1>8 DEF end_op, Wakeup, Committing
    <3>2. outstanding' \in Nat /\ wrote' \in [Procs -> SUBSET Blocks]
      BY <1>sets, <1>counts, <1>8, <2>0 DEF end_op
    <3>3. committing' \in BOOLEAN /\ panicked' \in BOOLEAN
      BY <1>disk, <1>dlog, <1>dhead, <1>lh, <1>sets, <1>counts, <1>flags, <1>pc, <1>8, Zenon
      DEF end_op
    <3> QED
      BY <1>disk, <1>dlog, <1>dhead, <1>lh, <1>sets, <1>counts, <1>flags, <1>8, <3>1, <3>2, <3>3
         DEF end_op, ondisk, TypeOK, Header
  <2>2. LogOnce'
    BY <1>2, <1>8 DEF end_op, ondisk, Wakeup, LogOnce
  <2>3. Alone'
    <3>1. \A q \in Procs : pc[q] \notin Committing
      BY <1>2, <2>0 DEF Alone
    <3>2. \A q \in Procs : pc'[q] \in Committing => q = p /\ committing' /\ sys' = "up"
      BY <1>pc, <1>8, <3>1 DEF end_op, Running, Wakeup, Committing
    <3>3. committing' => Ops' = {}
      BY <1>8, <2>0, Zenon DEF end_op
    <3> QED
      BY <1>8, <2>0, <3>2, <3>3 DEF end_op, Running, Alone
  <2>4. Loop'
    BY <1>disk, <1>dlog, <1>dhead, <1>pc, <1>2, <1>8 DEF end_op, Wakeup, Loop, Alone
  <2>5. Up'
    BY <1>pc, <1>2, <1>8 DEF end_op, ondisk, Wakeup, Up, Logged
  <2>6. Commit'
    <3>1. \A q \in Procs : pc[q] \notin Committing
      BY <1>2, <2>0 DEF Alone
    <3>2. tail = 0
      BY <1>2, <1>8, <3>1 DEF end_op, Running, Loop, Committing
    <3>3. \A q \in Procs : pc'[q] # "install" /\ (pc'[q] = "committed" => lh = <<>>)
      BY <1>pc, <1>8, <3>1 DEF end_op, Wakeup, Committing
    <3> QED
      BY <1>8, <3>2, <3>3 DEF end_op, Commit
  <2>7. Recover'
    BY <1>8 DEF end_op, Running, Wakeup, Recover
  <2>8. Pinned'
    BY <1>pc, <1>2, <1>8 DEF end_op, Wakeup, Pinned
  <2> QED
    BY <2>1, <2>2, <2>3, <2>4, <2>5, <2>6, <2>7, <2>8 DEF IInv
<1>9. ASSUME NEW p \in Procs, write_log(p)
      PROVE  IInv'
  <2>1. TypeOK'
    BY <1>disk, <1>dlog, <1>dhead, <1>lh, <1>sets, <1>counts, <1>flags, <1>pc, <1>3, <1>9 DEF
       write_log, TypeOK, Header, Committing
  <2>2. LogOnce'
    BY <1>sets, <1>2, <1>9 DEF write_log, LogOnce
  <2>3. Alone'
    BY <1>2, <1>9 DEF write_log, Alone, Ops
  <2>4. Loop'
    BY <1>counts, <1>9 DEF write_log, Running, Loop
  <2>5. Up'
    BY <1>2, <1>9 DEF write_log, Up, Logged
  <2>6. Commit'
    BY <1>dlog, <1>lh, <1>counts, <1>2, <1>3, <1>9 DEF write_log, Commit, Alone, Committing
  <2>7. Recover'
    BY <1>9 DEF write_log, Running, Recover
  <2>8. Pinned'
    BY <1>2, <1>9 DEF write_log, Pinned, Alone, Committing
  <2> QED
    BY <2>1, <2>2, <2>3, <2>4, <2>5, <2>6, <2>7, <2>8 DEF IInv
<1>10. ASSUME NEW p \in Procs, write_head(p)
      PROVE  IInv'
  <2>1. TypeOK' /\ LogOnce' /\ Loop' /\ Up' /\ Commit' /\ Recover' /\ Pinned'
    BY <1>disk, <1>dlog, <1>lh, <1>sets, <1>counts, <1>flags, <1>pc, <1>10, <1>2 DEF write_head,
       TypeOK, Header, Committing, LogOnce, Running, Loop, Up, Logged, Commit, Recover, Pinned,
       Alone
  <2>3. Alone'
    BY <1>disk, <1>dlog, <1>dhead, <1>lh, <1>sets, <1>counts, <1>flags, <1>pc, <1>2, <1>3,
       <1>10, Zenon DEF write_head, ondisk, Running, Alone, Ops, Committing
  <2> QED
    BY <2>1, <2>3 DEF IInv
<1>11. ASSUME NEW p \in Procs, install_trans(p)
      PROVE  IInv'
  BY <1>disk, <1>dlog, <1>dhead, <1>lh, <1>sets, <1>counts, <1>flags, <1>pc, <1>3, <1>11, <1>2
     DEF install_trans, TypeOK, Header, Committing, LogOnce, Alone, Ops, Running, Loop, Up,
     Logged, Commit, Recover, Pinned, Distinct, IInv
<1>12. ASSUME NEW p \in Procs, EraseLog(p)
      PROVE  IInv'
  <2>1. TypeOK' /\ LogOnce' /\ Loop' /\ Commit' /\ Recover' /\ Pinned'
    BY <1>disk, <1>dlog, <1>lh, <1>sets, <1>counts, <1>flags, <1>pc, <1>3, <1>12 DEF EraseLog,
       TypeOK, Header, Committing, LogOnce, Distinct, Loop, Commit, Running, Recover, Pinned
  <2>3. Alone'
    BY <1>disk, <1>dlog, <1>dhead, <1>lh, <1>sets, <1>counts, <1>flags, <1>pc, <1>2, <1>3,
       <1>12, Zenon DEF EraseLog, ondisk, Running, Alone, Ops, Committing
  <2>5. Up'
    <3>1. \A b \in Blocks : cache[b] = disk[b]
      BY <1>2, <1>12 DEF EraseLog, Running, Up, Commit, Logged
    <3> QED
      BY <1>12, <3>1 DEF EraseLog, Up
  <2> QED
    BY <2>1, <2>3, <2>5 DEF IInv
<1>13. ASSUME NEW p \in Procs, EndCommit(p)
      PROVE  IInv'
  <2>1. TypeOK'
    BY <1>disk, <1>dlog, <1>dhead, <1>lh, <1>sets, <1>counts, <1>flags, <1>pc, <1>2, <1>3,
       <1>13, Zenon DEF EndCommit, ondisk, Running, Wakeup, TypeOK, Header, Committing
  <2>2. LogOnce'
    BY <1>2, <1>13 DEF EndCommit, ondisk, Wakeup, LogOnce
  <2>3. Alone'
    BY <1>disk, <1>dlog, <1>dhead, <1>lh, <1>sets, <1>counts, <1>flags, <1>pc, <1>2, <1>3,
       <1>13, Zenon DEF EndCommit, ondisk, Running, Wakeup, Alone, Ops, Committing
  <2>4. Loop'
    BY <1>2, <1>13 DEF EndCommit, Wakeup, Loop
  <2>5. Up'
    BY <1>2, <1>13 DEF EndCommit, ondisk, Wakeup, Up, Logged
  <2>6. Commit'
    BY <1>2, <1>13 DEF EndCommit, Wakeup, Commit, Alone, Committing
  <2>7. Recover'
    BY <1>13 DEF EndCommit, Running, Wakeup, Recover
  <2>8. Pinned'
    BY <1>2, <1>13 DEF EndCommit, Wakeup, Pinned
  <2> QED
    BY <2>1, <2>2, <2>3, <2>4, <2>5, <2>6, <2>7, <2>8 DEF IInv
<1>14. CASE read_head
  <2>1. TypeOK'
    BY <1>disk, <1>dlog, <1>dhead, <1>sets, <1>counts, <1>flags, <1>pc, <1>14 DEF read_head,
       ondisk, TypeOK, Header, Committing
  <2>2. LogOnce'
    BY <1>2, <1>14 DEF read_head, ondisk, LogOnce
  <2>3. Alone'
    BY <1>2, <1>14 DEF read_head, Alone, Ops
  <2>4. Loop'
    BY <1>2, <1>14 DEF read_head, Loop
  <2>5. Up'
    BY <1>14 DEF read_head, Up
  <2>6. Commit'
    BY <1>2, <1>14 DEF read_head, Commit, Alone
  <2>7. Recover'
    BY <1>2, <1>14 DEF read_head, ondisk, Recover, Loop
  <2>8. Pinned'
    BY <1>14 DEF read_head, Pinned
  <2> QED
    BY <2>1, <2>2, <2>3, <2>4, <2>5, <2>6, <2>7, <2>8 DEF IInv
<1>15. CASE RecoverBlock
  <2>1. TypeOK'
    BY <1>disk, <1>dlog, <1>dhead, <1>lh, <1>sets, <1>counts, <1>flags, <1>pc, <1>3, <1>15 DEF
       RecoverBlock, TypeOK, Header, Committing
  <2>2. LogOnce'
    BY <1>2, <1>15 DEF RecoverBlock, LogOnce
  <2>3. Alone'
    BY <1>2, <1>15 DEF RecoverBlock, Alone, Ops
  <2>4. Loop'
    BY <1>counts, <1>15 DEF RecoverBlock, Loop
  <2>5. Up'
    BY <1>15 DEF RecoverBlock, Up
  <2>6. Commit'
    BY <1>2, <1>15 DEF RecoverBlock, Commit, Alone
  <2>7. Recover'
    <3>1. /\ sys = "recover" /\ tail + 1 \in 1 .. Len(lh) /\ lh[tail + 1] \in Blocks
          /\ disk' = [disk EXCEPT ![lh[tail + 1]] = dlog[tail + 1]]
          /\ cache' = [cache EXCEPT ![lh[tail + 1]] = dlog[tail + 1]]
          /\ tail' = tail + 1
          /\ UNCHANGED <<dlog, dhead, lh, sys>>
      BY <1>lh, <1>counts, <1>15 DEF RecoverBlock
    <3>2. cache' = disk'
      BY <1>2, <3>1 DEF Recover
    <3>3. ASSUME NEW i \in 1 .. tail' PROVE disk'[lh[i]] = dlog[i]
      <4>1. CASE i = tail + 1
        BY <1>disk, <3>1, <4>1
      <4>2. CASE i # tail + 1
        <5>1. i \in 1 .. tail /\ i \in 1 .. Len(lh) /\ lh[i] # lh[tail + 1]
          BY <1>counts, <1>2, <3>1, <4>2 DEF LogOnce, Distinct
        <5> QED
          BY <1>2, <3>1, <5>1 DEF Recover
      <4> QED
        BY <4>1, <4>2
    <3> QED
      BY <1>2, <3>1, <3>2, <3>3 DEF Recover
  <2>8. Pinned'
    BY <1>15 DEF RecoverBlock, Pinned
  <2> QED
    BY <2>1, <2>2, <2>3, <2>4, <2>5, <2>6, <2>7, <2>8 DEF IInv
<1>16. CASE RecoverDone
  <2>1. TypeOK'
    BY <1>disk, <1>dlog, <1>lh, <1>sets, <1>counts, <1>flags, <1>pc, <1>3, <1>16 DEF
       RecoverDone, TypeOK, Header, Committing
  <2>2. LogOnce'
    BY <1>16 DEF RecoverDone, LogOnce, Distinct
  <2>3. Alone'
    BY <1>2, <1>16 DEF RecoverDone, Alone, Ops
  <2>4. Loop'
    BY <1>16 DEF RecoverDone, Loop
  <2>5. Up'
    BY <1>2, <1>16 DEF RecoverDone, Up, Recover
  <2>6. Commit'
    BY <1>16 DEF RecoverDone, Commit
  <2>7. Recover'
    BY <1>16 DEF RecoverDone, Recover
  <2>8. Pinned'
    BY <1>16 DEF RecoverDone, Pinned
  <2> QED
    BY <2>1, <2>2, <2>3, <2>4, <2>5, <2>6, <2>7, <2>8 DEF IInv
<1>17. CASE Crash
  <2>1. TypeOK'
    <3>1. pc' \in [Procs -> {"idle", "sleep", "op"} \union Committing] /\ wrote' \in [Procs -> SUBSET Blocks]
      BY <1>17 DEF Crash
    <3> QED
      BY <1>disk, <1>dlog, <1>dhead, <1>lh, <1>sets, <1>counts, <1>flags, <1>pc, <1>17, <3>1,
         EmptyHeader, Zenon DEF Crash, ondisk, TypeOK, Header
  <2>2. LogOnce'
    BY <1>2, <1>17 DEF Crash, ondisk, LogOnce, Distinct
  <2>3. Alone'
    <3>1. Ops' = {}
      BY <1>17 DEF Crash, Ops
    <3> QED
      BY <1>17, <3>1, FS_EmptySet DEF Crash, Alone, Committing
  <2>4. Loop'
    BY <1>17 DEF Crash, Loop
  <2>5. Up'
    BY <1>17 DEF Crash, Up
  <2>6. Commit'
    BY <1>17 DEF Crash, Commit
  <2>7. Recover'
    BY <1>17 DEF Crash, ondisk, Recover
  <2>8. Pinned'
    BY <1>17 DEF Crash, Pinned
  <2> QED
    BY <2>1, <2>2, <2>3, <2>4, <2>5, <2>6, <2>7, <2>8 DEF IInv
<1> QED
  BY <1>4, <1>5, <1>6, <1>7, <1>8, <1>9, <1>10, <1>11, <1>12, <1>13, <1>14, <1>15, <1>16, <1>17
  DEF Next, Finish, Recovery
-----------------------------------------------------------------------------
(* AfterRecovery, of any header h, log blocks l and home blocks d.         *)
Replay(h, l, d) ==
  [b \in Blocks |->
     IF \E i \in 1 .. Len(h) : h[i] = b
     THEN l[CHOOSE i \in 1 .. Len(h) : h[i] = b]
     ELSE d[b]]

(* Replaying the log gives every block in the log its logged contents,     *)
(* and leaves the others alone.                                            *)
LEMMA ReplayFacts ==
  ASSUME NEW h \in Seq(Blocks), Distinct(h), NEW l, NEW d
  PROVE  /\ \A i \in 1 .. Len(h) : Replay(h, l, d)[h[i]] = l[i]
         /\ \A b \in Blocks : (\A i \in 1 .. Len(h) : h[i] # b) => Replay(h, l, d)[b] = d[b]
<1>1. ASSUME NEW i \in 1 .. Len(h) PROVE Replay(h, l, d)[h[i]] = l[i]
  <2>1. h[i] \in Blocks
    OBVIOUS
  <2>2. (CHOOSE j \in 1 .. Len(h) : h[j] = h[i]) = i
    OBVIOUS
  <2> QED
    BY <2>1, <2>2 DEF Replay
<1>2. ASSUME NEW b \in Blocks, \A i \in 1 .. Len(h) : h[i] # b PROVE Replay(h, l, d)[b] = d[b]
  BY <1>2 DEF Replay
<1> QED
  BY <1>1, <1>2

(* So any contents with these two properties are the ones it gives.        *)
LEMMA ReplayIs ==
  ASSUME NEW h \in Seq(Blocks), Distinct(h), NEW l, NEW d,
         NEW f, f = [b \in Blocks |-> f[b]],
         \A i \in 1 .. Len(h) : f[h[i]] = l[i],
         \A b \in Blocks : (\A i \in 1 .. Len(h) : h[i] # b) => f[b] = d[b]
  PROVE  Replay(h, l, d) = f
<1>1. ASSUME NEW b \in Blocks PROVE Replay(h, l, d)[b] = f[b]
  <2>1. CASE \E i \in 1 .. Len(h) : h[i] = b
    BY <2>1, ReplayFacts
  <2>2. CASE \A i \in 1 .. Len(h) : h[i] # b
    BY <2>2, ReplayFacts
  <2> QED
    BY <2>1, <2>2
<1>2. Replay(h, l, d) = [b \in Blocks |-> Replay(h, l, d)[b]]
  BY DEF Replay
<1> QED
  BY <1>1, <1>2

(* The blocks as calls read them.                                          *)
View == IF sys = "up" THEN cache ELSE AfterRecovery

(* Every step of the log is a step of the atomic disk or changes nothing   *)
(* that it shows.                                                          *)
LEMMA Refines ==
  ASSUME LogAssumption, IInv, IInv', Next
  PROVE  Atomic!Next \/ UNCHANGED Atomic!vars
<1>1. /\ disk \in [Blocks -> Vals] /\ cache \in [Blocks -> Vals]
      /\ disk' \in [Blocks -> Vals] /\ cache' \in [Blocks -> Vals]
      /\ dhead \in Seq(Blocks) /\ Distinct(dhead) /\ dhead' \in Seq(Blocks) /\ Distinct(dhead')
      /\ lh \in Seq(Blocks) /\ tail \in Nat /\ lh' \in Seq(Blocks)
      /\ pc \in [Procs -> {"idle", "sleep", "op"} \union Committing]
  BY DEF IInv, TypeOK, Header, LogOnce
<1>2. Alone /\ Loop /\ Up /\ Commit /\ Recover /\ Up' /\ Recover'
  BY DEF IInv
<1>3. /\ AfterRecovery = Replay(dhead, dlog, disk)
      /\ AfterRecovery' = Replay(dhead', dlog', disk')
  BY DEF AfterRecovery, Replay
<1>4. (UNCHANGED ondisk) => AfterRecovery' = AfterRecovery
  BY DEF ondisk, AfterRecovery
<1>5. /\ dhead = <<>> => AfterRecovery = disk
      /\ dhead' = <<>> => AfterRecovery' = disk'
  <2>1. ASSUME NEW l, NEW d \in [Blocks -> Vals] PROVE Replay(<<>>, l, d) = d
    BY DEF Replay
  <2> QED
    BY <1>1, <1>3, <2>1
<1>6. SUFFICES \/ View' = View /\ AfterRecovery' = AfterRecovery /\ Ops' = Ops
               \/ \E p \in Procs : /\ p \notin Ops /\ Ops' = Ops \cup {p}
                                    /\ View' = View /\ AfterRecovery' = AfterRecovery
               \/ \E p \in Procs : /\ p \in Ops /\ Ops' = Ops \ {p}
                                    /\ View' = View /\ AfterRecovery' = AfterRecovery
               \/ \E p \in Procs, b \in Blocks, x \in Vals :
                     /\ p \in Ops /\ Ops' = Ops
                     /\ View' = [View EXCEPT ![b] = x] /\ AfterRecovery' = AfterRecovery
               \/ Ops = {} /\ Ops' = Ops /\ View' = View /\ AfterRecovery' = View
               \/ Ops' = {} /\ View' = AfterRecovery /\ AfterRecovery' = AfterRecovery
  BY Zenon DEF Atomic!Next, Atomic!vars, Atomic!Begin, Atomic!End, Atomic!Write, Atomic!Commit,
         Atomic!Crash, View, Ops
<1>7. ASSUME NEW p \in Procs, begin_op(p)
      PROVE  /\ p \notin Ops /\ Ops' = Ops \cup {p}
             /\ View' = View /\ AfterRecovery' = AfterRecovery
  BY <1>1, <1>4, <1>7 DEF begin_op, Ops, View
<1>8. ASSUME NEW p \in Procs, BeginSleep(p)
      PROVE  View' = View /\ AfterRecovery' = AfterRecovery /\ Ops' = Ops
  BY <1>4, <1>8 DEF BeginSleep, Ops, View
<1>9. ASSUME NEW p \in Procs, NEW b \in Blocks, NEW x \in Vals, log_write(p, b, x)
      PROVE  \/ View' = View /\ AfterRecovery' = AfterRecovery /\ Ops' = Ops
             \/ /\ p \in Ops /\ Ops' = Ops
                /\ View' = [View EXCEPT ![b] = x] /\ AfterRecovery' = AfterRecovery
  BY <1>4, <1>9 DEF log_write, Ops, View
<1>10. ASSUME NEW p \in Procs, end_op(p)
       PROVE  /\ p \in Ops /\ Ops' = Ops \ {p}
              /\ View' = View /\ AfterRecovery' = AfterRecovery
  BY <1>1, <1>4, <1>10 DEF end_op, Wakeup, Ops, View
<1>11. ASSUME NEW p \in Procs, write_log(p)
       PROVE  View' = View /\ AfterRecovery' = AfterRecovery /\ Ops' = Ops
  <2>1. dhead = <<>>
    BY <1>2, <1>11 DEF write_log, Alone, Up, Committing
  <2> QED
    BY <1>5, <1>11, <2>1 DEF write_log, Ops, View
<1>12. ASSUME NEW p \in Procs, write_head(p)
       PROVE  Ops = {} /\ Ops' = Ops /\ View' = View /\ AfterRecovery' = View
  <2>1. /\ sys = "up" /\ dhead' = lh /\ UNCHANGED <<disk, dlog, cache, sys>>
        /\ \A i \in 1 .. Len(lh) : dlog[i] = cache[lh[i]]
        /\ \A b \in Blocks : b \notin Logged => cache[b] = disk[b]
    BY <1>2, <1>12 DEF write_head, Running, Commit, Up
  <2>2. /\ lh \in Seq(Blocks) /\ Distinct(lh) /\ cache = [b \in Blocks |-> cache[b]]
        /\ \A b \in Blocks : (\A i \in 1 .. Len(lh) : lh[i] # b) => cache[b] = disk[b]
    BY <1>1, <2>1 DEF Logged
  <2>3. Replay(lh, dlog, disk) = cache
    BY <2>1, <2>2, ReplayIs
  <2>4. Ops = {} /\ Ops' = Ops
    BY <1>2, <1>12 DEF write_head, Alone, Committing, Ops
  <2> QED
    BY <1>3, <2>1, <2>3, <2>4 DEF View
<1>13. ASSUME NEW i \in 1 .. Len(dhead),
              disk' = [disk EXCEPT ![dhead[i]] = dlog[i]], UNCHANGED <<dhead, dlog>>
       PROVE  AfterRecovery' = AfterRecovery
  <2> DEFINE f == Replay(dhead, dlog, disk)
  <2>1. \A j \in 1 .. Len(dhead) : f[dhead[j]] = dlog[j]
    BY <1>1, ReplayFacts
  <2>2. ASSUME NEW b \in Blocks, \A j \in 1 .. Len(dhead) : dhead[j] # b PROVE f[b] = disk[b]
    BY <2>2 DEF Replay
  <2>3. ASSUME NEW b \in Blocks, b # dhead[i] PROVE disk'[b] = disk[b]
    BY <1>13, <2>3
  <2>4. \A b \in Blocks : (\A j \in 1 .. Len(dhead) : dhead[j] # b) => f[b] = disk'[b]
    BY <2>2, <2>3
  <2>5. f = [b \in Blocks |-> f[b]]
    BY DEF Replay
  <2> HIDE DEF f
  <2>6. dhead \in Seq(Blocks) /\ Distinct(dhead)
    BY <1>1
  <2>7. Replay(dhead, dlog, disk') = f
    BY ONLY <2>1, <2>4, <2>5, <2>6, ReplayIs
  <2> QED
    BY <1>3, <1>13, <2>7 DEF f
<1>14. ASSUME NEW p \in Procs, install_trans(p)
       PROVE  View' = View /\ AfterRecovery' = AfterRecovery /\ Ops' = Ops
  <2>1. /\ dhead = lh /\ tail + 1 \in 1 .. Len(lh)
        /\ dlog[tail + 1] = cache[lh[tail + 1]]
        /\ disk' = [disk EXCEPT ![lh[tail + 1]] = dlog[tail + 1]]
        /\ cache' = [cache EXCEPT ![lh[tail + 1]] = dlog[tail + 1]]
        /\ UNCHANGED <<dlog, dhead, sys, pc>> /\ sys = "up"
    BY <1>1, <1>2, <1>14 DEF install_trans, Running, Commit
  <2>2. cache' = cache
    BY <1>1, <2>1
  <2> QED
    BY <1>13, <2>1, <2>2, Zenon DEF View, Ops
<1>15. ASSUME NEW p \in Procs, EraseLog(p)
       PROVE  View' = View /\ AfterRecovery' = AfterRecovery /\ Ops' = Ops
  <2>1. /\ dhead = lh /\ tail = Len(lh) /\ sys = "up"
        /\ \A i \in 1 .. Len(lh) : disk[lh[i]] = dlog[i]
        /\ UNCHANGED <<disk, cache, sys>> /\ dhead' = <<>>
    BY <1>2, <1>15 DEF EraseLog, Running, Commit
  <2>2. Replay(dhead, dlog, disk) = disk
    BY <1>1, <2>1, ReplayIs
  <2>3. Ops' = Ops
    BY <1>15 DEF EraseLog, Ops
  <2> QED
    BY <1>3, <1>5, <2>1, <2>2, <2>3 DEF View
<1>16. ASSUME NEW p \in Procs, EndCommit(p)
       PROVE  View' = View /\ AfterRecovery' = AfterRecovery /\ Ops' = Ops
  BY <1>4, <1>16 DEF EndCommit, Wakeup, Ops, View
<1>17. ASSUME read_head
       PROVE  View' = View /\ AfterRecovery' = AfterRecovery /\ Ops' = Ops
  BY <1>4, <1>17 DEF read_head, Ops, View
<1>18. ASSUME RecoverBlock
       PROVE  View' = View /\ AfterRecovery' = AfterRecovery /\ Ops' = Ops
  <2>1. /\ dhead = lh /\ tail + 1 \in 1 .. Len(lh)
        /\ disk' = [disk EXCEPT ![lh[tail + 1]] = dlog[tail + 1]]
        /\ UNCHANGED <<dlog, dhead, sys, pc>> /\ sys = "recover"
    BY <1>1, <1>2, <1>18 DEF RecoverBlock, Recover
  <2> QED
    BY <1>13, <2>1, Zenon DEF View, Ops
<1>19. ASSUME RecoverDone
       PROVE  View' = View /\ AfterRecovery' = AfterRecovery /\ Ops' = Ops
  <2>1. /\ dhead = lh /\ tail = Len(lh) /\ sys = "recover" /\ sys' = "up" /\ cache = disk
        /\ \A i \in 1 .. Len(lh) : disk[lh[i]] = dlog[i]
        /\ UNCHANGED <<disk, cache, pc>> /\ dhead' = <<>>
    BY <1>2, <1>19 DEF RecoverDone, Recover
  <2>2. Replay(dhead, dlog, disk) = disk
    BY <1>1, <2>1, ReplayIs
  <2> QED
    BY <1>3, <1>5, <2>1, <2>2 DEF View, Ops
<1>20. ASSUME Crash
       PROVE  Ops' = {} /\ View' = AfterRecovery /\ AfterRecovery' = AfterRecovery
  BY <1>4, <1>20 DEF Crash, Ops, View
<1> QED
  BY <1>7, <1>8, <1>9, <1>10, <1>11, <1>12, <1>14, <1>15, <1>16, <1>17, <1>18, <1>19, <1>20
     DEF Next, Finish, Recovery

(* The invariant always holds.                                             *)
THEOREM Invariant == ASSUME LogAssumption PROVE Spec => []IInv
<1>1. Init => IInv
  BY InitIInv
<1>2. IInv /\ [Next]_vars => IInv'
  BY NextIInv
<1> QED
  BY <1>1, <1>2, PTL DEF Spec

(* File-system calls are atomic with respect to crashes: whatever the      *)
(* number of processes and of blocks, and wherever in commit or in         *)
(* recover_from_log the machine stops, what the disk will hold after       *)
(* recovery changes only when write_head commits all the calls that have   *)
(* ended, and a crash brings calls back to exactly that.                   *)
THEOREM ImplementsAtomicDiskHolds == ASSUME LogAssumption PROVE Spec => ImplementsAtomicDisk
<1>1. Init => Atomic!Init
  <2>1. Init => View = [b \in Blocks |-> Zero]
    BY DEF Init, View
  <2>2. Init => AfterRecovery = [b \in Blocks |-> Zero]
    BY DEF Init, AfterRecovery
  <2>3. Init => Ops = {}
    BY DEF Init, Ops
  <2> QED
    BY <2>1, <2>2, <2>3 DEF Atomic!Init, View, Ops
<1>2. IInv /\ IInv' /\ [Next]_vars => [Atomic!vars' # Atomic!vars /\ Atomic!Next]_(Atomic!vars)
  <2>1. ASSUME IInv, IInv', Next
        PROVE  [Atomic!vars' # Atomic!vars /\ Atomic!Next]_(Atomic!vars)
    BY <2>1, Refines
  <2>2. ASSUME UNCHANGED vars
        PROVE  UNCHANGED Atomic!vars
    BY <2>2 DEF vars, Atomic!vars, AfterRecovery
  <2> QED
    BY <2>1, <2>2
<1>3. Spec => []IInv
  BY Invariant
<1> QED
  BY <1>1, <1>2, <1>3, PTL DEF Spec, Atomic!Spec, ImplementsAtomicDisk

-----------------------------------------------------------------------------
(***************************************************************************)
(* The log never overflows and no change is dropped.  The argument counts  *)
(* credits: the blocks that the calls in progress may still add to the     *)
(* log.  begin_op admits a call when the blocks in the log and MAXOPBLOCKS *)
(* for every call fit; each log_write then takes a credit for the slot it  *)
(* fills.                                                                  *)
(***************************************************************************)
(* The blocks that the calls in progress may still add to the log.         *)
Credits ==
  {c \in Procs \X (1 .. OpBlocks) :
     pc[c[1]] = "op" /\ c[2] <= OpBlocks - Cardinality(wrote[c[1]])}

(* A call has written only blocks that are in the log.                     *)
WroteLogged ==
  \A p \in Procs : wrote[p] # {} => sys = "up" /\ pc[p] = "op" /\ wrote[p] \subseteq Logged

(* The log is empty between transactions.                                  *)
EmptyAtRest == sys = "up" /\ ~committing /\ Ops = {} => lh = <<>>

(* The blocks in the log and the credits fit.                              *)
Fits == sys = "up" => Len(lh) + Cardinality(Credits) <= InUse

SInv == ~panicked /\ WroteLogged /\ EmptyAtRest /\ Fits
-----------------------------------------------------------------------------
(* Two calls or more spare twice as many blocks as one.                    *)
LEMMA Arithmetic ==
  ASSUME NEW n \in Nat, n >= 2, NEW a \in Nat, NEW u \in Nat
  PROVE  n * (a + u) >= n * a + 2 * u
OBVIOUS

(* The product of two numbers is a number.                                 *)
LEMMA Product == ASSUME NEW m \in Nat, NEW n \in Nat PROVE m * n \in Nat
OBVIOUS

(* The credits are finite, and never more than OpBlocks for each call.     *)
LEMMA CreditsBound ==
  ASSUME NEW S, NEW C, IsFiniteSet(S), OpBlocks \in Nat, C \subseteq S \X (1 .. OpBlocks)
  PROVE  IsFiniteSet(C) /\ Cardinality(C) \in Nat /\ Cardinality(C) <= Cardinality(S) * OpBlocks
<1>1. IsFiniteSet(1 .. OpBlocks) /\ Cardinality(1 .. OpBlocks) = OpBlocks
  BY FS_Interval
<1>2. /\ IsFiniteSet(S \X (1 .. OpBlocks))
      /\ Cardinality(S \X (1 .. OpBlocks)) = Cardinality(S) * OpBlocks
  BY <1>1, FS_Product, Zenon
<1>3. IsFiniteSet(C) /\ Cardinality(C) <= Cardinality(S \X (1 .. OpBlocks))
  BY <1>2, FS_Subset
<1> QED
  BY <1>2, <1>3, FS_CardinalityType

(* The invariant holds when the system starts.                             *)
LEMMA InitSInv == ASSUME SpaceAssumption, Init PROVE SInv
<1>1. Credits = {}
  BY DEF Init, Credits
<1>2. Cardinality(Credits) = 0
  BY <1>1, FS_EmptySet
<1>3. InUse \in Nat
  BY DEF SpaceAssumption, LogAssumption, InUse, Spare
<1> QED
  BY <1>2, <1>3 DEF Init, SInv, WroteLogged, EmptyAtRest, Fits

(* Every step preserves it: begin_op's test makes room for the credits of  *)
(* a new call, and log_write pays for a new slot with a credit.            *)
LEMMA NextSInv == ASSUME SpaceAssumption, IInv, IInv', SInv, [Next]_vars PROVE SInv'
<1>1. /\ IsFiniteSet(Blocks) /\ LOGSIZE \in Nat /\ MAXOPBLOCKS \in Nat /\ size \in Nat
      /\ OpBlocks \in Nat /\ Spare \in Nat /\ MAXOPBLOCKS = OpBlocks + Spare
      /\ InUse \in Nat /\ OpBlocks <= InUse /\ LOGSIZE - 2 * Spare <= InUse
      /\ InUse < LOGSIZE /\ InUse < size - 1
  BY DEF SpaceAssumption, LogAssumption, InUse, Spare
<1>2. /\ lh \in Seq(Blocks) /\ Len(lh) \in Nat /\ outstanding \in Nat
      /\ pc \in [Procs -> {"idle", "sleep", "op"} \union Committing]
      /\ wrote \in [Procs -> SUBSET Blocks]
  BY DEF IInv, TypeOK, Header
<1>3. Alone /\ Alone'
  BY DEF IInv
<1>4. ~panicked /\ WroteLogged /\ EmptyAtRest /\ Fits
  BY DEF SInv
<1>5. Credits \subseteq Ops \X (1 .. OpBlocks) /\ Credits' \subseteq Ops' \X (1 .. OpBlocks)
  BY DEF Credits, Ops
<1>6. /\ IsFiniteSet(Credits) /\ Cardinality(Credits) \in Nat
      /\ IsFiniteSet(Credits') /\ Cardinality(Credits') \in Nat
      /\ Cardinality(Credits') <= Cardinality(Ops') * OpBlocks
  BY <1>1, <1>3, <1>5, CreditsBound DEF Alone
<1>7. Ops' = {} => Cardinality(Credits') = 0
  BY <1>5, FS_EmptySet
<1>8. Credits' \subseteq Credits => Cardinality(Credits') <= Cardinality(Credits)
  BY <1>6, FS_Subset
<1>9. CASE UNCHANGED vars
  BY <1>4, <1>9 DEF vars, SInv, WroteLogged, EmptyAtRest, Fits, Logged, Ops, Credits
<1>10. ASSUME NEW p \in Procs, begin_op(p)
       PROVE  SInv'
  <2>1. /\ sys = "up" /\ pc[p] = "idle" /\ ~committing
        /\ Len(lh) + (outstanding + 1) * MAXOPBLOCKS <= LOGSIZE
        /\ outstanding' = outstanding + 1
        /\ pc' = [pc EXCEPT ![p] = "op"]
        /\ UNCHANGED <<lh, committing, wrote, sys, panicked>>
    BY <1>1, <1>10 DEF begin_op, Running, NoSpace
  <2>2. Cardinality(Credits') <= (outstanding + 1) * OpBlocks
    BY <1>3, <1>6, <2>1 DEF Alone
  <2>3. ASSUME outstanding = 0
        PROVE  Len(lh') + Cardinality(Credits') <= InUse
    <3>1. Ops = {}
      BY <1>3, <2>3, FS_EmptySet, Zenon DEF Alone
    <3>2. Len(lh) = 0
      BY <1>4, <2>1, <3>1 DEF EmptyAtRest
    <3>3. Cardinality(Credits') <= OpBlocks
      BY <1>1, <2>2, <2>3
    <3> QED
      BY <1>1, <1>6, <2>1, <3>2, <3>3
  <2>4. ASSUME outstanding # 0
        PROVE  Len(lh') + Cardinality(Credits') <= InUse
    <3>1. (outstanding + 1) * MAXOPBLOCKS >= (outstanding + 1) * OpBlocks + 2 * Spare
      <4>1. outstanding + 1 \in Nat /\ outstanding + 1 >= 2
        BY <1>2, <2>4
      <4>2. (outstanding + 1) * (OpBlocks + Spare) >= (outstanding + 1) * OpBlocks + 2 * Spare
        BY ONLY <1>1, <4>1, Arithmetic
      <4> QED
        BY <1>1, <4>2
    <3>2. outstanding + 1 \in Nat
      BY <1>2
    <3>3. (outstanding + 1) * OpBlocks \in Nat /\ (outstanding + 1) * MAXOPBLOCKS \in Nat
      BY <1>1, <3>2, Product
    <3> DEFINE used == (outstanding + 1) * OpBlocks
               reserved == (outstanding + 1) * MAXOPBLOCKS
    <3>4. /\ used \in Nat /\ reserved \in Nat /\ reserved >= used + 2 * Spare
          /\ Cardinality(Credits') <= used /\ Len(lh) + reserved <= LOGSIZE
      BY <2>1, <2>2, <3>1, <3>3
    <3> HIDE DEF used, reserved
    <3> QED
      BY <1>1, <1>2, <1>6, <2>1, <3>4
  <2>5. Len(lh') + Cardinality(Credits') <= InUse
    BY <2>3, <2>4
  <2>6. Ops' # {}
    BY <1>2, <2>1 DEF Ops
  <2>7. WroteLogged'
    BY <1>4, <2>1 DEF WroteLogged, Logged
  <2> QED
    BY <1>4, <2>1, <2>5, <2>6, <2>7 DEF SInv, EmptyAtRest, Fits
<1>11. ASSUME NEW p \in Procs, BeginSleep(p)
       PROVE  SInv'
  <2>1. /\ UNCHANGED <<lh, committing, wrote, sys, panicked>> /\ pc[p] = "idle"
        /\ pc' = [pc EXCEPT ![p] = "sleep"]
    BY <1>11 DEF BeginSleep
  <2>2. Ops' = Ops /\ Credits' = Credits
    BY <2>1 DEF Ops, Credits
  <2>3. WroteLogged'
    BY <1>4, <2>1 DEF WroteLogged, Logged
  <2> QED
    BY <1>4, <2>1, <2>2, <2>3 DEF SInv, EmptyAtRest, Fits
<1>12. ASSUME NEW p \in Procs, NEW b \in Blocks, NEW x \in Vals, log_write(p, b, x)
       PROVE  SInv'
  <2>1. /\ sys = "up" /\ pc[p] = "op" /\ Cardinality(wrote[p] \cup {b}) <= OpBlocks
        /\ UNCHANGED <<outstanding, committing, pc, sys>>
    BY <1>12 DEF log_write, Running
  <2>2. p \in Ops /\ Ops' = Ops /\ outstanding >= 1
    <3>1. p \in Ops /\ Ops' = Ops
      BY <2>1 DEF Ops
    <3> QED
      BY <1>3, <3>1, RemoveOp, Zenon DEF Alone
  <2>3. Len(lh) <= InUse
    BY <1>1, <1>4, <1>6, <2>1 DEF Fits
  <2>4. /\ lh' = Record(b) /\ wrote' = [wrote EXCEPT ![p] = @ \cup {b}]
        /\ UNCHANGED panicked
    BY <1>1, <1>2, <1>12, <2>2, <2>3 DEF log_write
  <2>5. Logged \subseteq Logged' /\ b \in Logged'
    <3>1. CASE b \in Logged
      BY <2>4, <3>1 DEF Record, Logged
    <3>2. CASE b \notin Logged
      <4>1. /\ Len(lh') = Len(lh) + 1 /\ lh'[Len(lh) + 1] = b
            /\ \A i \in 1 .. Len(lh) : lh'[i] = lh[i]
        BY <2>4, <3>2 DEF Record
      <4>2. \A i \in 1 .. Len(lh) : i \in 1 .. Len(lh')
        BY <4>1
      <4>3. Len(lh) + 1 \in 1 .. Len(lh')
        BY <4>1
      <4> QED
        BY <4>1, <4>2, <4>3 DEF Logged
    <3> QED
      BY <3>1, <3>2
  <2>6. WroteLogged'
    BY <1>4, <2>1, <2>4, <2>5 DEF WroteLogged
  <2>7. EmptyAtRest'
    BY <2>2 DEF EmptyAtRest
  <2>8. CASE b \in wrote[p]
    <3>1. wrote' = wrote
      BY <1>2, <2>4, <2>8
    <3>2. lh' = lh
      BY <1>4, <2>1, <2>4, <2>8 DEF WroteLogged, Record
    <3>3. Credits' = Credits
      BY <2>1, <3>1 DEF Credits
    <3> QED
      BY <1>4, <2>1, <2>4, <2>6, <2>7, <3>2, <3>3 DEF SInv, Fits
  <2>9. CASE b \notin wrote[p]
    <3>1. /\ Cardinality(wrote[p]) \in Nat /\ Cardinality(wrote[p] \cup {b}) = Cardinality(wrote[p]) + 1
      <4>1. IsFiniteSet(wrote[p])
        BY <1>1, <1>2, FS_Subset
      <4> QED
        BY <2>9, <4>1, FS_AddElement, FS_CardinalityType
    <3> DEFINE c == <<p, OpBlocks - Cardinality(wrote[p])>>
    <3>2. c \in Credits
      BY <1>1, <2>1, <3>1 DEF Credits
    <3>3. c \notin Credits'
      BY <1>1, <1>2, <2>1, <2>4, <3>1 DEF Credits
    <3>4. Credits' \subseteq Credits
      <4>1. ASSUME NEW d \in Credits' PROVE d \in Credits
        <5>1. d \in Procs \X (1 .. OpBlocks) /\ pc[d[1]] = "op"
              /\ d[2] <= OpBlocks - Cardinality(wrote'[d[1]])
          BY <2>1, <4>1 DEF Credits
        <5>2. CASE d[1] = p
          <6>1. wrote'[d[1]] = wrote[p] \cup {b}
            BY <1>2, <2>4, <5>2
          <6>2. d[2] <= OpBlocks - Cardinality(wrote[d[1]])
            BY <1>1, <3>1, <5>1, <5>2, <6>1
          <6> QED
            BY <5>1, <6>2 DEF Credits
        <5>3. CASE d[1] # p
          <6>1. wrote'[d[1]] = wrote[d[1]]
            BY <2>4, <5>1, <5>3
          <6> QED
            BY <5>1, <6>1 DEF Credits
        <5> QED
          BY <5>2, <5>3
      <4> QED
        BY <4>1
    <3> HIDE DEF c
    <3>5. /\ IsFiniteSet(Credits \ {c})
          /\ Cardinality(Credits \ {c}) = Cardinality(Credits) - 1
      BY <1>6, <3>2, FS_RemoveElement
    <3>6. Credits' \subseteq Credits \ {c}
      BY <3>3, <3>4
    <3>7. Cardinality(Credits') <= Cardinality(Credits \ {c})
      BY <3>5, <3>6, FS_Subset
    <3>8. Len(lh') <= Len(lh) + 1 /\ Len(lh') \in Nat
      BY <2>4 DEF Record
    <3>9. Len(lh') + Cardinality(Credits') <= InUse
      BY <1>1, <1>4, <1>6, <2>1, <3>5, <3>7, <3>8 DEF Fits
    <3> QED
      BY <1>4, <2>4, <2>6, <2>7, <3>9 DEF SInv, Fits
  <2> QED
    BY <2>8, <2>9
<1>13. ASSUME NEW p \in Procs, end_op(p)
       PROVE  SInv'
  <2>1. /\ sys = "up" /\ pc[p] = "op" /\ wrote' = [wrote EXCEPT ![p] = {}]
        /\ panicked' = committing /\ UNCHANGED <<lh, sys>>
        /\ outstanding = 1 => committing'
    BY <1>13 DEF end_op, Running
  <2>2. p \in Ops /\ Ops' = Ops \ {p}
    BY <1>2, <1>13 DEF end_op, Ops, Wakeup
  <2>3. ~committing
    BY <1>3, <2>2 DEF Alone
  <2>4. \A q \in Procs : q # p => (pc'[q] = "op" <=> pc[q] = "op") /\ wrote'[q] = wrote[q]
    BY <1>2, <1>13 DEF end_op, Wakeup
  <2>5. pc'[p] # "op" /\ wrote'[p] = {}
    BY <1>2, <1>13 DEF end_op, Wakeup
  <2>6. Credits' \subseteq Credits
    BY <2>4, <2>5 DEF Credits
  <2>7. WroteLogged'
    BY <1>4, <2>1, <2>4, <2>5 DEF WroteLogged, Logged
  <2>8. EmptyAtRest'
    <3>1. ASSUME Ops' = {} PROVE outstanding = 1
      <4>1. Ops = {p}
        BY <2>2, <3>1
      <4> QED
        BY <1>3, <4>1, FS_Singleton, Zenon DEF Alone
    <3> QED
      BY <2>1, <3>1 DEF EmptyAtRest
  <2>9. Fits'
    BY <1>1, <1>4, <1>6, <1>8, <2>1, <2>6 DEF Fits
  <2> QED
    BY <2>1, <2>3, <2>7, <2>8, <2>9 DEF SInv
<1>14. ASSUME NEW p \in Procs, write_log(p) \/ write_head(p) \/ install_trans(p)
       PROVE  SInv'
  <2>1. /\ UNCHANGED <<lh, committing, wrote, sys, panicked>>
        /\ \A q \in Procs : pc'[q] = "op" <=> pc[q] = "op"
    BY <1>2, <1>14 DEF write_log, write_head, install_trans
  <2>2. Ops' = Ops
    BY <2>1 DEF Ops
  <2>3. Credits' = Credits
    BY <2>1 DEF Credits
  <2>4. WroteLogged'
    BY <1>4, <2>1, Zenon DEF WroteLogged, Logged
  <2> QED
    BY <1>4, <2>1, <2>2, <2>3, <2>4 DEF SInv, EmptyAtRest, Fits
<1>15. ASSUME lh' = <<>>, \A p \in Procs : wrote'[p] = {}, Ops' = {}, ~panicked'
       PROVE  SInv'
  <2>1. Len(lh') = 0
    BY <1>15
  <2> QED
    BY <1>1, <1>7, <1>15, <2>1 DEF SInv, WroteLogged, EmptyAtRest, Fits
<1>16. ASSUME NEW p \in Procs, EraseLog(p)
       PROVE  SInv'
  <2>1. /\ sys = "up" /\ pc[p] \in Committing /\ lh' = <<>> /\ UNCHANGED <<wrote, panicked>>
        /\ \A q \in Procs : pc'[q] = "op" <=> pc[q] = "op"
    BY <1>16 DEF EraseLog, Running, Committing
  <2>2. Ops = {} /\ Ops' = {}
    BY <1>3, <2>1 DEF Alone, Ops
  <2>3. \A q \in Procs : wrote'[q] = {}
    BY <1>4, <2>1, <2>2 DEF WroteLogged, Ops
  <2> QED
    BY <1>4, <1>15, <2>1, <2>2, <2>3
<1>17. ASSUME NEW p \in Procs, EndCommit(p)
       PROVE  SInv'
  <2>1. /\ sys = "up" /\ pc[p] = "committed" /\ UNCHANGED <<lh, wrote, panicked>>
        /\ \A q \in Procs : pc'[q] = "op" <=> pc[q] = "op"
    BY <1>17 DEF EndCommit, Wakeup, Running
  <2>2. Ops = {} /\ Ops' = {} /\ lh = <<>>
    BY <2>1, Zenon DEF IInv, Commit, Alone, Ops, Committing
  <2>3. \A q \in Procs : wrote'[q] = {}
    BY <1>4, <2>1, <2>2 DEF WroteLogged, Ops
  <2> QED
    BY <1>4, <1>15, <2>1, <2>2, <2>3
<1>18. ASSUME read_head \/ RecoverBlock
       PROVE  SInv'
  <2>1. sys # "up" /\ sys' # "up" /\ UNCHANGED <<wrote, panicked>>
    BY <1>18 DEF read_head, RecoverBlock
  <2> QED
    BY <1>4, <2>1 DEF SInv, WroteLogged, EmptyAtRest, Fits
<1>19. ASSUME RecoverDone
       PROVE  SInv'
  <2>1. sys # "up" /\ lh' = <<>> /\ UNCHANGED <<pc, wrote, panicked>>
    BY <1>19 DEF RecoverDone
  <2>2. Ops' = {}
    BY <1>3, <2>1 DEF Alone, Ops
  <2>3. \A p \in Procs : wrote'[p] = {}
    BY <1>4, <2>1 DEF WroteLogged
  <2> QED
    BY <1>4, <1>15, <2>1, <2>2, <2>3
<1>20. ASSUME Crash
       PROVE  SInv'
  <2>1. lh' = <<>> /\ ~panicked' /\ Ops' = {} /\ \A p \in Procs : wrote'[p] = {}
    BY <1>20 DEF Crash, Ops
  <2> QED
    BY <1>15, <2>1
<1> QED
  BY <1>9, <1>10, <1>11, <1>12, <1>13, <1>14, <1>16, <1>17, <1>18, <1>19, <1>20
     DEF Next, Finish, Recovery

(* No change is lost for want of room in the log or in the cache: if calls *)
(* stay below the blocks begin_op reserves for them, log_write and end_op  *)
(* never panic, and a buffer that differs from its home block is pinned.   *)
THEOREM ChangesKeptHolds == ASSUME SpaceAssumption PROVE Spec => []ChangesKept
<1>1. LogAssumption
  BY DEF SpaceAssumption
<1>2. Spec => []IInv
  BY <1>1, Invariant
<1>3. Init => SInv
  BY InitSInv
<1>4. IInv /\ IInv' /\ SInv /\ [Next]_vars => SInv'
  BY NextSInv
<1>5. IInv /\ SInv => ChangesKept
  <2>1. ASSUME IInv, SInv, sys = "up", NEW b \in Blocks, cache[b] # disk[b] PROVE b \in pinned
    <3>1. lh \in Seq(Blocks) /\ tail \in Nat
      BY <2>1 DEF IInv, TypeOK, Header
    <3>2. PICK i \in 1 .. Len(lh) : lh[i] = b
      BY <2>1 DEF IInv, Up, Logged
    <3>3. ~(i <= tail /\ \E p \in Procs : pc[p] = "install")
      BY <2>1, <3>1, <3>2 DEF IInv, Commit
    <3> QED
      BY <2>1, <3>2, <3>3 DEF IInv, Pinned
  <2> QED
    BY <2>1 DEF SInv, ChangesKept
<1> QED
  BY <1>2, <1>3, <1>4, <1>5, PTL DEF Spec
=============================================================================
