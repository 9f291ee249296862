------------------------- MODULE FileTableTheorems --------------------------
(***************************************************************************)
(* What module FileTableSteps leads to for modules FileTable and Pipe, for    *)
(* any number of processes, files and descriptors, any size of the pipe    *)
(* and any width of its counters.  First the facts about minima and finite *)
(* sets that it assumes.                                                   *)
(***************************************************************************)
EXTENDS FileTableSteps, FiniteSetTheorems, WellFoundedInduction

(* The time that the provers have for a step.                              *)
USE SMTT(10), ZenonT(20), SMTT(60)
-----------------------------------------------------------------------------
(* Residues.                                                               *)
LEMMA Small ==
  ASSUME NEW m \in Nat, m > 0, NEW k \in Int, m * k < m, -m < m * k
  PROVE  k = 0
<1>1. k >= 1 => m * k >= m OBVIOUS
<1>2. k <= -1 => m * k <= -m OBVIOUS
<1> QED BY <1>1, <1>2

(* A number is its quotient and its residue.                               *)
LEMMA DivMod ==
  ASSUME NEW m \in Nat, m > 0, NEW a \in Int
  PROVE  /\ a \div m \in Int /\ a % m \in 0 .. m - 1
         /\ a = m * (a \div m) + (a % m)
OBVIOUS

(* A quotient and a residue in its range are those of the number.          *)
LEMMA ModIs ==
  ASSUME NEW m \in Nat, m > 0, NEW a \in Int, NEW q \in Int, NEW r \in 0 .. m - 1, a = m * q + r
  PROVE  a % m = r
<1>1. a \div m \in Int /\ a % m \in 0 .. m - 1 /\ a = m * (a \div m) + (a % m) BY DivMod
<1> DEFINE k == q - (a \div m)
<1>2. k \in Int /\ m * k = (a % m) - r BY <1>1
<1>3. m * k < m /\ -m < m * k BY <1>1, <1>2
<1> HIDE DEF k
<1>4. k = 0 BY <1>2, <1>3, Small
<1> QED BY <1>4, <1>2, <1>1

(* Numbers that are closer than m have different residues.                 *)
LEMMA ModDistinct ==
  ASSUME NEW m \in Nat, m > 0, NEW a \in Int, NEW b \in Int, a < b, b < a + m
  PROVE  a % m # b % m
<1>1. a \div m \in Int /\ a % m \in 0 .. m - 1 /\ a = m * (a \div m) + (a % m) BY DivMod
<1>2. b \div m \in Int /\ b % m \in 0 .. m - 1 /\ b = m * (b \div m) + (b % m) BY DivMod
<1> DEFINE k == (b \div m) - (a \div m)
<1>3. SUFFICES ASSUME a % m = b % m PROVE FALSE OBVIOUS
<1>4. k \in Int /\ m * k = b - a BY <1>1, <1>2, <1>3
<1> HIDE DEF k
<1>5. m * k < m /\ -m < m * k BY <1>4
<1>6. k = 0 BY <1>4, <1>5, Small
<1> QED BY <1>4, <1>6

(* Residues of numbers that are off by less than the modulus.              *)
LEMMA ModSmall ==
  ASSUME NEW m \in Nat, m > 0, NEW a \in Int
  PROVE  /\ a \in 0 .. m - 1 => a % m = a
         /\ a \in m .. 2 * m - 1 => a % m = a - m
         /\ a \in -m .. -1 => a % m = a + m
OBVIOUS

(* The counters of the ring buffer, which wrap at CountMod.                *)
LEMMA RingFacts ==
  ASSUME NEW r \in 0 .. CountMod - 1, NEW w \in 0 .. CountMod - 1
  PROVE  /\ (w - r) % CountMod = IF w >= r THEN w - r ELSE (w - r) + CountMod
         /\ Inc(w) = IF w + 1 = CountMod THEN 0 ELSE w + 1
         /\ (r + PIPESIZE) % CountMod = IF r + PIPESIZE < CountMod THEN r + PIPESIZE ELSE (r + PIPESIZE) - CountMod
<1>1. CountMod \in Nat /\ CountMod > PIPESIZE /\ PIPESIZE \in Nat /\ PIPESIZE > 0 BY PipeAssumption
<1>2. (w - r) % CountMod = IF w >= r THEN w - r ELSE (w - r) + CountMod
  <2>1. w - r \in 0 .. CountMod - 1 \/ w - r \in -CountMod .. -1 BY <1>1
  <2> QED BY <1>1, <2>1, ModSmall
<1>3. Inc(w) = IF w + 1 = CountMod THEN 0 ELSE w + 1
  <2>1. w + 1 \in 0 .. CountMod - 1 \/ (w + 1 = CountMod /\ w + 1 \in CountMod .. 2 * CountMod - 1)
    BY <1>1
  <2> QED BY <1>1, <2>1, ModSmall DEF Inc
<1>4. (r + PIPESIZE) % CountMod = IF r + PIPESIZE < CountMod THEN r + PIPESIZE ELSE (r + PIPESIZE) - CountMod
  <2>1. r + PIPESIZE \in 0 .. CountMod - 1 \/ r + PIPESIZE \in CountMod .. 2 * CountMod - 1 BY <1>1
  <2> QED BY <1>1, <2>1, ModSmall
<1> QED BY <1>2, <1>3, <1>4

(* Count is what Empty and Full test.                                      *)
LEMMA CountIs ==
  ASSUME TypeOK
  PROVE  /\ Count \in 0 .. CountMod - 1
         /\ Empty <=> Count = 0
         /\ Full <=> Count = PIPESIZE
<1>1. pi.nread \in 0 .. CountMod - 1 /\ pi.nwrite \in 0 .. CountMod - 1 BY DEF TypeOK, PipeType
<1>2. /\ Count = IF pi.nwrite >= pi.nread THEN pi.nwrite - pi.nread ELSE (pi.nwrite - pi.nread) + CountMod
      /\ (pi.nread + PIPESIZE) % CountMod
           = IF pi.nread + PIPESIZE < CountMod THEN pi.nread + PIPESIZE ELSE (pi.nread + PIPESIZE) - CountMod
  BY <1>1, RingFacts DEF Count
<1>3. CountMod \in Nat /\ CountMod > PIPESIZE /\ PIPESIZE \in Nat /\ PIPESIZE > 0 BY PipeAssumption
<1>4. Count \in 0 .. CountMod - 1 BY <1>1, <1>2, <1>3
<1>5. Empty <=> Count = 0
  <2>1. CASE pi.nwrite >= pi.nread
    <3>1. Count = pi.nwrite - pi.nread BY <1>2, <2>1
    <3> QED BY <1>1, <3>1 DEF Empty
  <2>2. CASE ~(pi.nwrite >= pi.nread)
    <3>1. Count = (pi.nwrite - pi.nread) + CountMod BY <1>2, <2>2
    <3> QED BY <1>1, <1>3, <2>2, <3>1 DEF Empty
  <2> QED BY <2>1, <2>2
<1>6. Full <=> Count = PIPESIZE BY <1>1, <1>2, <1>3 DEF Full
<1> QED BY <1>4, <1>5, <1>6

(* A byte goes in, and a byte comes out.                                   *)
LEMMA CountUp ==
  ASSUME TypeOK, TypeOK', Fits, ~Full, NEW x, pi' = [pi EXCEPT !.data[pi.nwrite % PIPESIZE] = x, !.nwrite = Inc(@)]
  PROVE  Count < PIPESIZE /\ Count' = Count + 1
<1>1. /\ pi.nread \in 0 .. CountMod - 1 /\ pi.nwrite \in 0 .. CountMod - 1
      /\ pi'.nread = pi.nread /\ pi'.nwrite = Inc(pi.nwrite)
      /\ pi'.nread \in 0 .. CountMod - 1 /\ pi'.nwrite \in 0 .. CountMod - 1
  BY Zenon DEF TypeOK, PipeType
<1>2. Count = IF pi.nwrite >= pi.nread THEN pi.nwrite - pi.nread ELSE (pi.nwrite - pi.nread) + CountMod
  BY <1>1, RingFacts DEF Count
<1>3. Count' = IF pi'.nwrite >= pi'.nread THEN pi'.nwrite - pi'.nread ELSE (pi'.nwrite - pi'.nread) + CountMod
  BY <1>1, RingFacts DEF Count
<1>4. Inc(pi.nwrite) = IF pi.nwrite + 1 = CountMod THEN 0 ELSE pi.nwrite + 1 BY <1>1, RingFacts
<1>5. CountMod \in Nat /\ CountMod > PIPESIZE /\ PIPESIZE \in Nat /\ PIPESIZE > 0 BY PipeAssumption
<1>6. Count < PIPESIZE BY <1>5, CountIs DEF Fits
<1>7. Count' = Count + 1 BY <1>1, <1>2, <1>3, <1>4, <1>5, <1>6
<1> QED BY <1>6, <1>7

(* Taking a byte out lowers Count by one.                                  *)
LEMMA CountDown ==
  ASSUME TypeOK, TypeOK', ~Empty, pi' = Taken
  PROVE  Count > 0 /\ Count' = Count - 1
<1>1. /\ pi.nread \in 0 .. CountMod - 1 /\ pi.nwrite \in 0 .. CountMod - 1
      /\ pi'.nwrite = pi.nwrite /\ pi'.nread = Inc(pi.nread)
      /\ pi'.nread \in 0 .. CountMod - 1 /\ pi'.nwrite \in 0 .. CountMod - 1
  BY Zenon DEF TypeOK, PipeType, Taken
<1>2. Count = IF pi.nwrite >= pi.nread THEN pi.nwrite - pi.nread ELSE (pi.nwrite - pi.nread) + CountMod
  BY <1>1, RingFacts DEF Count
<1>3. Count' = IF pi'.nwrite >= pi'.nread THEN pi'.nwrite - pi'.nread ELSE (pi'.nwrite - pi'.nread) + CountMod
  BY <1>1, RingFacts DEF Count
<1>4. Inc(pi.nread) = IF pi.nread + 1 = CountMod THEN 0 ELSE pi.nread + 1 BY <1>1, RingFacts
<1>5. CountMod \in Nat /\ CountMod > PIPESIZE /\ PIPESIZE \in Nat /\ PIPESIZE > 0 BY PipeAssumption
<1>6. Count > 0 BY CountIs
<1>7. Count' = Count - 1 BY <1>1, <1>2, <1>3, <1>4, <1>5, <1>6
<1> QED BY <1>6, <1>7

(* The initial states satisfy the invariant.                               *)
LEMMA InitIInv ==
  ASSUME Counting, Init
  PROVE  IInv
<1>0. None \notin Files BY FileAssumption
<1>1. First \in Procs /\ None \notin Procs BY FileAssumption, PipeAssumption
<1>2. TypeOK
  <2>1. pi \in PipeType BY PipeTypes, Zenon DEF Init, PipeInit
  <2>2. FreeFile \in FileType BY FileTypes, Zenon
  <2>3. <<>> \in Seq(Files) OBVIOUS
  <2> QED BY <2>1, <2>2, <2>3, ZenonT(30) DEF Init, PipeInit, TypeOK, Places
<1>3. /\ \A p \in Procs : pc[p] \in {"user", "none"} /\ mine[p] = <<>> /\ \A d \in Fds : ofile[p][d] = None
      /\ \A f \in Files : file[f].ref = 0 /\ file[f].type = "none"
      /\ pi.readopen = FALSE /\ pi.writeopen = FALSE /\ lock = None
  BY DEF Init, PipeInit, FreeFile, NoPipe
<1>4. Counted
  <2>1. ASSUME NEW f \in Files PROVE file[f].ref = Refs(f)
    <3>1. Descriptors(f) = {} BY <1>0, <1>3 DEF Descriptors
    <3>2. InPipeCall(f) = {} BY <1>3 DEF InPipeCall
    <3>3. Cardinality({}) = 0 BY DEF Counting
    <3> QED BY <1>3, <3>1, <3>2, <3>3 DEF Refs
  <2> QED BY <2>1 DEF Counted
<1>5. Slots /\ OneFile /\ OneCloser /\ DescInv /\ Exclusive
  BY <1>3 DEF Slots, OneFile, OneCloser, DescInv, Exclusive
<1>6. MineInv BY <1>3 DEF MineInv
<1>7. Ends BY <1>3 DEF Ends, Referenced, Closing
<1>8. InCall BY <1>3 DEF InCall, Reader, Writer
<1>9. LockInv /\ SleepInv BY <1>1, <1>3 DEF LockInv, SleepInv
<1>10. Fits
  <2>1. pi.nread = pi.nwrite BY DEF Init, PipeInit, NoPipe
  <2>2. Count = 0 BY <1>2, <2>1, CountIs DEF Empty
  <2> QED BY <2>2, PipeAssumption DEF Fits
<1> QED BY <1>2, <1>4, <1>5, <1>6, <1>7, <1>8, <1>9, <1>10 DEF IInv, FInv
-----------------------------------------------------------------------------
(* A process in piperead or pipewrite has its end open.                    *)
LEMMA InOpen ==
  ASSUME TypeOK, FInv, NEW p \in Procs
  PROVE  /\ pc[p] \in Reader => pi.readopen
         /\ pc[p] \in Writer => pi.writeopen
<1>1. ASSUME NEW d \in Fds, ofile[p][d] # None PROVE Referenced(file[ofile[p][d]].writable)
  <2>1. ofile[p][d] \in Files BY <1>1 DEF TypeOK
  <2>2. file[ofile[p][d]].type = "pipe" BY <1>1 DEF FInv, DescInv
  <2>3. file[ofile[p][d]].ref > 0 BY <2>1, <2>2 DEF FInv, Slots
  <2> QED BY <2>1, <2>2, <2>3 DEF Referenced
<1>2. \A d \in Fds : ofile[p][d] # None => file[ofile[p][d]].writable \in BOOLEAN
  BY DEF TypeOK, FileType
<1>3. pc[p] \in Reader => Referenced(FALSE)
  <2>1. SUFFICES ASSUME pc[p] \in Reader PROVE Referenced(FALSE) BY Zenon
  <2>2. PICK d \in Fds : ofile[p][d] # None /\ ~file[ofile[p][d]].writable BY <2>1 DEF FInv, InCall
  <2>3. file[ofile[p][d]].writable = FALSE BY <1>2, <2>2
  <2> QED BY <1>1, <2>2, <2>3, Zenon
<1>4. pc[p] \in Writer => Referenced(TRUE)
  <2>1. SUFFICES ASSUME pc[p] \in Writer PROVE Referenced(TRUE) BY Zenon
  <2>2. PICK d \in Fds : ofile[p][d] # None /\ file[ofile[p][d]].writable BY <2>1 DEF FInv, InCall
  <2>3. file[ofile[p][d]].writable = TRUE BY <1>2, <2>2
  <2> QED BY <1>1, <2>2, <2>3, Zenon
<1> QED BY <1>3, <1>4, Zenon DEF FInv, Ends

(* Steps outside the locked parts of pipewrite, piperead and pipeclose.    *)
LEMMA PipeQuiet ==
  ASSUME LockInv, SleepInv, Fits, UNCHANGED <<pi, lock, i, cut>>,
         \A q \in Procs :
           \/ pc'[q] = pc[q]
           \/ /\ pc[q] \notin {"wloop", "rwait", "rcopy"}
              /\ pc'[q] \notin {"wloop", "rwait", "rcopy", "rsleep", "wsleep"}
  PROVE  LockInv' /\ SleepInv' /\ Fits'
<1>1. LockInv' BY DEF LockInv
<1>2. \A q \in Procs : (pc'[q] = "rcopy" <=> pc[q] = "rcopy") /\ (pc'[q] = "wloop" <=> pc[q] = "wloop") OBVIOUS
<1>3. \A q \in Procs : (pc'[q] = "rsleep" => pc[q] = "rsleep") /\ (pc'[q] = "wsleep" => pc[q] = "wsleep") OBVIOUS
<1>4. (Empty' <=> Empty) /\ (Full' <=> Full) BY DEF Empty, Full
<1>5. SleepInv' BY <1>2, <1>3, <1>4 DEF SleepInv
<1>6. Fits' BY DEF Fits, Count
<1> QED BY <1>1, <1>5, <1>6

(* Each step of pipewrite and piperead.                                    *)
LEMMA PipeStepInv ==
  ASSUME TypeOK, TypeOK', FInv, LockInv, SleepInv, Fits, NEW p \in Procs, PipeStep(p)
  PROVE  LockInv' /\ SleepInv' /\ Fits'
<1>0. None \notin Procs BY PipeAssumption
<1>1. ASSUME pi' = pi PROVE Fits' /\ (Empty' <=> Empty) /\ (Full' <=> Full)
  BY <1>1 DEF Fits, Count, Empty, Full
<1>2. CASE PipeLock(p)
  <2>1. /\ UNCHANGED <<pi, i, cut>> /\ lock = None /\ lock' = p /\ pc[p] \in {"wlock", "rlock"}
        /\ pc'[p] = IF pc[p] = "wlock" THEN "wloop" ELSE "rwait"
        /\ \A q \in Procs : q # p => pc'[q] = pc[q]
    BY <1>2 DEF PipeLock, Goto, TypeOK
  <2>2. \A q \in Procs : pc[q] \notin {"wloop", "rwait", "rcopy"} BY <1>0, <2>1 DEF LockInv
  <2>3. LockInv' BY <2>1, <2>2 DEF LockInv
  <2>4. SleepInv' BY <1>1, <2>1, <2>2 DEF SleepInv
  <2> QED BY <1>1, <2>1, <2>3, <2>4
<1>3. CASE WriteFails(p)
  <2>1. /\ UNCHANGED pi /\ lock' = None /\ pc[p] = "wloop" /\ pc'[p] = "user" /\ i' = [i EXCEPT ![p] = 0]
        /\ \A q \in Procs : q # p => pc'[q] = pc[q]
        /\ cut' = (cut \/ (i[p] > 0 /\ pi.readopen))
    BY <1>3 DEF WriteFails, Return, TypeOK
  <2>2. \A q \in Procs : q # p => pc[q] \notin {"wloop", "rwait", "rcopy"} BY <2>1 DEF LockInv
  <2>3. LockInv' BY <1>0, <2>1, <2>2 DEF LockInv
  <2>4. \A q \in Procs : pc[q] = "rsleep" => pi.readopen BY InOpen DEF Reader
  <2>5. SleepInv'
    <3>1. SUFFICES ASSUME NEW q \in Procs, q # p
                   PROVE  /\ pc[q] = "rsleep" => pi.writeopen /\ (Empty \/ cut')
                          /\ pc[q] = "wsleep" => pi.readopen /\ Full
      BY <1>1, <2>1 DEF SleepInv
    <3> QED BY <2>1, <2>2, <2>4, Zenon DEF SleepInv
  <2> QED BY <1>1, <2>1, <2>3, <2>5
<1>4. CASE WriteSleeps(p)
  <2>1. /\ UNCHANGED pi /\ lock' = None /\ pc[p] = "wloop" /\ pc'[p] = "wsleep" /\ pi.readopen /\ Full
        /\ \A q \in Procs : q # p => pc'[q] = IF pc[q] = "rsleep" THEN "rlock" ELSE pc[q]
    BY <1>4 DEF WriteSleeps, Writing, WakeReaders, TypeOK
  <2>2. \A q \in Procs : q # p => pc[q] \notin {"wloop", "rwait", "rcopy"} BY <2>1 DEF LockInv
  <2>3. LockInv' BY <1>0, <2>1, <2>2 DEF LockInv
  <2>4. SleepInv' BY <1>1, <2>1, <2>2 DEF SleepInv
  <2> QED BY <1>1, <2>1, <2>3, <2>4
<1>5. CASE WriteReturns(p)
  <2>1. /\ UNCHANGED pi /\ lock' = None /\ pc[p] = "wloop" /\ pc'[p] = "user"
        /\ \A q \in Procs : q # p => pc'[q] = IF pc[q] = "rsleep" THEN "rlock" ELSE pc[q]
    BY <1>5 DEF WriteReturns, Writing, Return, WakeReaders, TypeOK
  <2>2. \A q \in Procs : q # p => pc[q] \notin {"wloop", "rwait", "rcopy"} BY <2>1 DEF LockInv
  <2>3. LockInv' BY <1>0, <2>1, <2>2 DEF LockInv
  <2>4. SleepInv' BY <1>1, <2>1, <2>2 DEF SleepInv
  <2> QED BY <1>1, <2>1, <2>3, <2>4
<1>6. ASSUME NEW x \in Bytes, WriteByte(p, x) PROVE LockInv' /\ SleepInv' /\ Fits'
  <2>1. /\ pi' = [pi EXCEPT !.data[pi.nwrite % PIPESIZE] = x, !.nwrite = Inc(@)]
        /\ UNCHANGED <<lock, pc, cut>> /\ pc[p] = "wloop" /\ ~Full /\ i'[p] > 0
    BY <1>6 DEF WriteByte, Writing, TypeOK
  <2>2. pi'.writeopen = pi.writeopen BY <2>1 DEF TypeOK, PipeType
  <2>3. \A q \in Procs : q # p => pc[q] \notin {"wloop", "rwait", "rcopy"} BY <2>1 DEF LockInv
  <2>4. \A q \in Procs : pc[q] # "wsleep" BY <2>1, <2>3 DEF SleepInv
  <2>5. LockInv' BY <2>1 DEF LockInv
  <2>6. SleepInv' BY <2>1, <2>2, <2>4 DEF SleepInv
  <2>7. Fits'
    <3>1. Count < PIPESIZE /\ Count' = Count + 1 BY <2>1, CountUp, Zenon
    <3>2. Count \in Int /\ PIPESIZE \in Int BY CountIs, PipeAssumption
    <3> QED BY <3>1, <3>2 DEF Fits
  <2> QED BY <2>5, <2>6, <2>7
<1>7. CASE ReadSleeps(p)
  <2>1. /\ UNCHANGED <<pi, i, cut>> /\ lock' = None /\ pc[p] = "rwait" /\ pc'[p] = "rsleep" /\ Empty /\ pi.writeopen
        /\ \A q \in Procs : q # p => pc'[q] = pc[q]
    BY <1>7 DEF ReadSleeps, Goto, TypeOK
  <2>2. \A q \in Procs : q # p => pc[q] \notin {"wloop", "rwait", "rcopy"} BY <2>1 DEF LockInv
  <2>3. LockInv' BY <1>0, <2>1, <2>2 DEF LockInv
  <2>4. SleepInv' BY <1>1, <2>1, <2>2 DEF SleepInv
  <2> QED BY <1>1, <2>1, <2>3, <2>4
<1>8. CASE ReadKilled(p)
  <2>1. /\ UNCHANGED <<pi, cut>> /\ lock' = None /\ pc[p] = "rwait" /\ pc'[p] = "user" /\ Empty
        /\ \A q \in Procs : q # p => pc'[q] = pc[q]
    BY <1>8 DEF ReadKilled, Return, TypeOK
  <2>2. \A q \in Procs : q # p => pc[q] \notin {"wloop", "rwait", "rcopy"} BY <2>1 DEF LockInv
  <2>3. LockInv' BY <1>0, <2>1, <2>2 DEF LockInv
  <2>4. SleepInv' BY <1>1, <2>1, <2>2 DEF SleepInv
  <2> QED BY <1>1, <2>1, <2>3, <2>4
<1>9. CASE ReadGo(p)
  <2>1. /\ UNCHANGED <<pi, lock, i, cut>> /\ pc[p] = "rwait" /\ pc'[p] = "rcopy"
        /\ \A q \in Procs : q # p => pc'[q] = pc[q]
    BY <1>9 DEF ReadGo, Goto, TypeOK
  <2>2. \A q \in Procs : q # p => pc[q] \notin {"wloop", "rwait", "rcopy"} BY <2>1 DEF LockInv
  <2>3. LockInv' BY <1>0, <2>1, <2>2 DEF LockInv
  <2>4. SleepInv' BY <1>1, <2>1, <2>2 DEF SleepInv
  <2> QED BY <1>1, <2>1, <2>3, <2>4
<1>10. ASSUME pi' = Taken, ~Empty, pc[p] = "rcopy"
       PROVE  /\ Fits' /\ pi'.readopen = pi.readopen /\ pi'.writeopen = pi.writeopen
              /\ \A q \in Procs : q # p => pc[q] \notin {"wloop", "rwait", "rcopy"}
              /\ \A q \in Procs : pc[q] = "rsleep" => cut
  <2>1. Count > 0 /\ Count' = Count - 1 BY <1>10, CountDown
  <2>2. Count \in Int /\ PIPESIZE \in Int BY CountIs, PipeAssumption
  <2>3. Fits' BY <2>1, <2>2 DEF Fits
  <2>4. pi'.readopen = pi.readopen /\ pi'.writeopen = pi.writeopen
    BY <1>10 DEF Taken, TypeOK, PipeType
  <2>5. \A q \in Procs : q # p => pc[q] \notin {"wloop", "rwait", "rcopy"} BY <1>10 DEF LockInv
  <2>6. \A q \in Procs : pc[q] = "rsleep" => cut BY <1>10, <2>5 DEF SleepInv
  <2> QED BY <2>3, <2>4, <2>5, <2>6
<1>11. CASE ReadByte(p)
  <2>1. /\ pi' = Taken /\ ~Empty /\ pc[p] = "rcopy" /\ UNCHANGED <<lock, pc, cut>>
    BY <1>11 DEF ReadByte
  <2>2. LockInv' BY <2>1 DEF LockInv
  <2>3. SleepInv' BY <1>10, <2>1 DEF SleepInv
  <2> QED BY <1>10, <2>1, <2>2, <2>3
<1>12. CASE ReadCopyFails(p)
  <2>1. /\ pi' = Taken /\ ~Empty /\ pc[p] = "rcopy" /\ lock' = None /\ cut' = cut /\ pc'[p] = "user"
        /\ \A q \in Procs : q # p => pc'[q] = IF pc[q] = "wsleep" THEN "wlock" ELSE pc[q]
    BY <1>12 DEF ReadCopyFails, Return, WakeWriters, TypeOK
  <2>2. LockInv' BY <1>0, <1>10, <2>1 DEF LockInv
  <2>3. SleepInv' BY <1>10, <2>1 DEF SleepInv
  <2> QED BY <1>10, <2>1, <2>2, <2>3
<1>13. CASE ReadReturns(p)
  <2>1. /\ UNCHANGED <<pi, cut>> /\ pc[p] = "rcopy" /\ lock' = None /\ pc'[p] = "user"
        /\ \A q \in Procs : q # p => pc'[q] = IF pc[q] = "wsleep" THEN "wlock" ELSE pc[q]
    BY <1>13 DEF ReadReturns, Return, WakeWriters, TypeOK
  <2>2. \A q \in Procs : q # p => pc[q] \notin {"wloop", "rwait", "rcopy"} BY <2>1 DEF LockInv
  <2>3. LockInv' BY <1>0, <2>1, <2>2 DEF LockInv
  <2>4. SleepInv' BY <1>1, <2>1, <2>2 DEF SleepInv
  <2> QED BY <1>1, <2>1, <2>3, <2>4
<1> QED BY <1>2, <1>3, <1>4, <1>5, <1>6, <1>7, <1>8, <1>9, <1>11, <1>12, <1>13 DEF PipeStep

(* pipeclose wakes everybody who sleeps on the end that is closed.         *)
LEMMA PipeCloseInv ==
  ASSUME TypeOK, TypeOK', LockInv, SleepInv, Fits, NEW p \in Procs, PipeClose(p)
  PROVE  LockInv' /\ SleepInv' /\ Fits'
<1>1. PICK w \in BOOLEAN : w = end[p] BY DEF TypeOK
<1>2. PICK at \in {"user", "exit", "bad"} : at = then[p] BY DEF TypeOK
<1>3. pc[p] = "close" /\ pipeclose(p, w, at) BY <1>1, <1>2 DEF PipeClose
<1>4. lock = None /\ lock' = None /\ cut' = (cut /\ ~w) /\ pi' = Closed(w) BY <1>3 DEF pipeclose
<1>5. /\ pi'.writeopen = (pi.writeopen /\ ~w) /\ pi'.readopen = (pi.readopen /\ w)
      /\ pc'[p] = at
      /\ \A q \in Procs : q # p =>
           pc'[q] = IF w /\ pc[q] = "rsleep" THEN "rlock"
                    ELSE IF ~w /\ pc[q] = "wsleep" THEN "wlock" ELSE pc[q]
  BY <1>3, CloseFacts
<1>6. None \notin Procs BY PipeAssumption
<1>7. \A q \in Procs : pc[q] \notin {"wloop", "rwait", "rcopy"} BY <1>4, <1>6 DEF LockInv
<1>8. LockInv' BY <1>4, <1>5, <1>6, <1>7 DEF LockInv
<1>9. \/ pi' = NoPipe /\ ~pi'.readopen /\ ~pi'.writeopen
      \/ pi'.nread = pi.nread /\ pi'.nwrite = pi.nwrite
  BY <1>4 DEF Closed, TypeOK, PipeType, NoPipe
<1>10. Fits'
  <2>1. CASE pi' = NoPipe
    <3>1. pi'.nread = pi'.nwrite BY <2>1 DEF NoPipe
    <3>2. Count' = 0 BY <3>1, RingFacts DEF Count, TypeOK, PipeType
    <3> QED BY <3>2, PipeAssumption DEF Fits
  <2>2. CASE pi'.nread = pi.nread /\ pi'.nwrite = pi.nwrite BY <2>2 DEF Fits, Count
  <2> QED BY <1>9, <2>1, <2>2
<1>11. SleepInv'
  <2>1. SUFFICES ASSUME NEW q \in Procs
                 PROVE  /\ pc'[q] = "rsleep" => pi'.writeopen /\ (Empty' \/ cut')
                        /\ pc'[q] = "wsleep" => pi'.readopen /\ Full'
    BY DEF SleepInv
  <2>2. pc'[q] = "rsleep" => pc[q] = "rsleep" /\ ~w BY <1>5
  <2>3. pc'[q] = "wsleep" => pc[q] = "wsleep" /\ w BY <1>5
  <2>4. pc[q] = "rsleep" => pi.writeopen /\ (Empty \/ cut) BY <1>7 DEF SleepInv
  <2>5. pc[q] = "wsleep" => pi.readopen /\ Full BY <1>7 DEF SleepInv
  <2>6. pi'.readopen \/ pi'.writeopen => (Empty' <=> Empty) /\ (Full' <=> Full)
    BY <1>9 DEF Empty, Full
  <2> QED BY <1>4, <1>5, <2>2, <2>3, <2>4, <2>5, <2>6, Zenon
<1> QED BY <1>8, <1>10, <1>11

(* pipealloc starts with an empty pipe and nobody in it.                   *)
LEMMA PipeallocInv ==
  ASSUME TypeOK, TypeOK', FInv, LockInv, SleepInv, Fits, NEW p \in Procs, pipealloc(p)
  PROVE  LockInv' /\ SleepInv' /\ Fits'
<1>0. pc[p] = "pipe" /\ UNCHANGED <<lock, i, cut>> BY DEF pipealloc
<1>1. CASE pc' = [pc EXCEPT ![p] = "bad"] /\ UNCHANGED <<pi, file>>
  <2>1. \A q \in Procs : pc'[q] = pc[q] \/ (pc[q] = "pipe" /\ pc'[q] = "bad")
    BY <1>0, <1>1 DEF TypeOK
  <2>2. \A q \in Procs :
          \/ pc'[q] = pc[q]
          \/ /\ pc[q] \notin {"wloop", "rwait", "rcopy"}
             /\ pc'[q] \notin {"wloop", "rwait", "rcopy", "rsleep", "wsleep"}
    BY <2>1
  <2> QED BY <1>0, <1>1, <2>2, PipeQuiet
<1>2. CASE /\ pi = NoPipe
           /\ pi' = [NoPipe EXCEPT !.readopen = TRUE, !.writeopen = TRUE]
           /\ pc' = [pc EXCEPT ![p] = "fds"]
  <2>1. pi.readopen = FALSE /\ pi.writeopen = FALSE BY <1>2 DEF NoPipe
  <2>2. \A q \in Procs : pc[q] \notin Reader \union Writer BY <2>1, InOpen
  <2>3. \A q \in Procs : pc'[q] \notin Reader \union Writer BY <1>2, <2>2 DEF Reader, Writer, TypeOK
  <2>4. LockInv' BY <1>0, <2>2, <2>3 DEF LockInv, Reader, Writer
  <2>5. SleepInv' BY <2>3 DEF SleepInv, Reader, Writer
  <2>6. pi'.nread = pi'.nwrite BY <1>2 DEF NoPipe
  <2>7. Count' = 0 BY <2>6, RingFacts DEF Count, TypeOK, PipeType
  <2>8. Fits' BY <2>7, PipeAssumption DEF Fits
  <2> QED BY <2>4, <2>5, <2>8
<1> QED BY <1>1, <1>2 DEF pipealloc, Goto

(* Every step keeps the invariant of the pipe.                             *)
LEMMA NextPipeInv ==
  TypeOK /\ TypeOK' /\ FInv /\ LockInv /\ SleepInv /\ Fits /\ [Next]_vars
    => LockInv' /\ SleepInv' /\ Fits'
<1> SUFFICES ASSUME TypeOK, TypeOK', FInv, LockInv, SleepInv, Fits, [Next]_vars PROVE LockInv' /\ SleepInv' /\ Fits'
  OBVIOUS
<1> DEFINE Locked == {"wloop", "rwait", "rcopy"}
<1> DEFINE InPipe == {"wloop", "rwait", "rcopy", "rsleep", "wsleep"}
<1>1. ASSUME UNCHANGED <<pi, lock, i, cut>>,
             \A q \in Procs : pc'[q] = pc[q] \/ (pc[q] \notin Locked /\ pc'[q] \notin InPipe)
      PROVE  LockInv' /\ SleepInv' /\ Fits'
  BY <1>1, PipeQuiet
<1>2. CASE UNCHANGED vars BY <1>1, <1>2 DEF vars, pipe
<1>3. ASSUME NEW p \in Procs, PipeStep(p) PROVE LockInv' /\ SleepInv' /\ Fits' BY <1>3, PipeStepInv
<1>4. ASSUME NEW p \in Procs, pipealloc(p) PROVE LockInv' /\ SleepInv' /\ Fits'
  BY <1>4, PipeallocInv
<1>5. ASSUME NEW p \in Procs, PipeClose(p) PROVE LockInv' /\ SleepInv' /\ Fits'
  BY <1>5, PipeCloseInv
<1>6. ASSUME NEW p \in Procs, kill(p) PROVE LockInv' /\ SleepInv' /\ Fits'
  BY <1>1, <1>6 DEF kill, TypeOK, pipe
<1>7. ASSUME NEW p \in Procs, NEW f, NEW next \in {"user", "exit", "bad"}, fileclose(p, f, next),
             pc[p] \in {"user", "exit", "bad"}, UNCHANGED pipe
      PROVE  LockInv' /\ SleepInv' /\ Fits'
  BY <1>1, <1>7 DEF fileclose, Goto, TypeOK, pipe
<1>8. ASSUME NEW p \in Procs, sys_pipe(p) PROVE LockInv' /\ SleepInv' /\ Fits'
  BY <1>1, <1>8 DEF sys_pipe, User, Goto, TypeOK, pipe
<1>9. ASSUME NEW p \in Procs, PipeFds(p) PROVE LockInv' /\ SleepInv' /\ Fits'
  BY <1>1, <1>9, Zenon DEF PipeFds, Goto, TypeOK, pipe
<1>10. ASSUME NEW p \in Procs, PipeFails(p) PROVE LockInv' /\ SleepInv' /\ Fits'
  <2>1. pc[p] = "bad" /\ UNCHANGED pipe BY <1>10 DEF PipeFails
  <2>2. CASE pc' = [pc EXCEPT ![p] = "user"] BY <1>1, <2>1, <2>2 DEF TypeOK, pipe
  <2>3. CASE fileclose(p, Head(mine[p]), "bad") BY <1>7, <2>1, <2>3
  <2> QED BY <1>10, <2>2, <2>3 DEF PipeFails, Goto
<1>11. ASSUME NEW p \in Procs, NEW d \in Fds, sys_dup(p, d) PROVE LockInv' /\ SleepInv' /\ Fits'
  <2>1. pc' = pc /\ UNCHANGED pipe BY <1>11 DEF sys_dup
  <2> QED BY <1>1, <2>1 DEF pipe
<1>12. ASSUME NEW p \in Procs, NEW d \in Fds, sys_close(p, d) PROVE LockInv' /\ SleepInv' /\ Fits'
  <2>1. pc[p] = "user" /\ fileclose(p, ofile[p][d], "user") /\ UNCHANGED pipe
    BY <1>12 DEF sys_close, User
  <2> QED BY <1>7, <2>1
<1>13. ASSUME NEW p \in Procs, NEW d \in Fds, NEW k, sys_rw(p, d, k) PROVE LockInv' /\ SleepInv' /\ Fits'
  <2>1. /\ pc[p] = "user" /\ UNCHANGED <<pi, lock, i, cut>>
        /\ pc'[p] \in {"wlock", "rlock"} /\ \A q \in Procs : q # p => pc'[q] = pc[q]
    BY <1>13 DEF sys_rw, User, Goto, TypeOK
  <2> QED BY <1>1, <2>1
<1>14. ASSUME NEW p \in Procs, NEW q \in Procs, fork(p, q) PROVE LockInv' /\ SleepInv' /\ Fits'
  <2>1. pc[q] = "none" /\ pc' = [pc EXCEPT ![q] = "user"] /\ UNCHANGED pipe BY <1>14 DEF fork, Goto
  <2> QED BY <1>1, <2>1 DEF TypeOK, pipe
<1>15. ASSUME NEW p \in Procs, exit(p) PROVE LockInv' /\ SleepInv' /\ Fits'
  <2>1. pc[p] \in {"user", "exit"} /\ UNCHANGED pipe BY <1>15 DEF exit
  <2>2. CASE pc' = [pc EXCEPT ![p] = "none"] BY <1>1, <2>1, <2>2 DEF TypeOK, pipe
  <2>3. ASSUME NEW f, fileclose(p, f, "exit") PROVE LockInv' /\ SleepInv' /\ Fits'
    BY <1>7, <2>1, <2>3
  <2> QED BY <1>15, <2>2, <2>3 DEF exit, Goto
<1> QED
  BY <1>2, <1>3, <1>4, <1>5, <1>6, <1>8, <1>9, <1>10, <1>11, <1>12, <1>13, <1>14, <1>15 DEF Next
-----------------------------------------------------------------------------
(* Every step keeps the invariant.                                         *)
LEMMA NextIInv ==
  ASSUME Counting, IInv, [Next]_vars
  PROVE  IInv'
<1>1. FInv => MineInv BY DEF FInv
<1> QED BY <1>1, NextTypeOK, NextFInv, NextPipeInv DEF IInv

(* What the invariant says of the properties.                              *)
LEMMA InvRefExact ==
  ASSUME IInv
  PROVE  RefExact
<1>2. \A p \in Procs :
        /\ pc[p] \in {"rlock", "rwait", "rcopy", "rsleep"} => pi.readopen
        /\ pc[p] \in {"wlock", "wloop", "wsleep"} => pi.writeopen
  BY InOpen DEF IInv, Reader, Writer
<1> QED BY <1>2, Zenon DEF IInv, FInv, Counted, Ends, RefExact

(* While nobody has pi->lock, nobody is left to be woken.                  *)
LEMMA InvNoLostWakeup ==
  ASSUME IInv
  PROVE  NoLostWakeup
<1>1. SUFFICES ASSUME lock = None PROVE NoLostWakeup BY DEF NoLostWakeup
<1>2. \A q \in Procs : pc[q] \notin {"wloop", "rcopy"} BY <1>1, PipeAssumption DEF IInv, LockInv
<1> QED BY <1>1, <1>2 DEF IInv, SleepInv, NoLostWakeup
-----------------------------------------------------------------------------
(* A multiple of m does not change residues modulo m.                      *)
LEMMA ModShift ==
  ASSUME NEW m \in Nat, m > 0, NEW c \in Nat, c % m = 0, NEW a \in Int
  PROVE  (a + c) % m = a % m
<1>1. c \div m \in Int /\ c = m * (c \div m) BY DivMod
<1>2. a \div m \in Int /\ a % m \in 0 .. m - 1 /\ a = m * (a \div m) + (a % m) BY DivMod
<1>3. a + c = m * ((a \div m) + (c \div m)) + (a % m) BY <1>1, <1>2
<1>4. a + c \in Int /\ (a \div m) + (c \div m) \in Int BY <1>1, <1>2
<1> QED BY <1>2, <1>3, <1>4, ModIs, Zenon

(* A function on 1 .. m is a sequence.                                     *)
LEMMA FunctionSeq ==
  ASSUME NEW B, NEW m \in Nat, NEW q \in [1 .. m -> B]
  PROVE  q \in Seq(B) /\ Len(q) = m
OBVIOUS

(* Append, by its elements.                                                *)
LEMMA AppendSeq ==
  ASSUME NEW B, NEW m \in Nat, NEW q \in [1 .. m -> B], NEW x \in B, NEW r \in [1 .. m + 1 -> B],
         \A k \in 1 .. m : r[k] = q[k], r[m + 1] = x
  PROVE  r = Append(q, x)
<1>1. q \in Seq(B) /\ Len(q) = m /\ r \in Seq(B) /\ Len(r) = m + 1 BY FunctionSeq
<1>2. Append(q, x) \in Seq(B) /\ Len(Append(q, x)) = m + 1 BY <1>1
<1>3. (\A k \in 1 .. m : Append(q, x)[k] = q[k]) /\ Append(q, x)[m + 1] = x BY <1>1
<1>4. \A k \in 1 .. m + 1 : r[k] = Append(q, x)[k] BY <1>3
<1> QED BY <1>1, <1>2, <1>4

(* Tail, by its elements.                                                  *)
LEMMA TailSeq ==
  ASSUME NEW B, NEW m \in Nat, m > 0, NEW q \in [1 .. m -> B], NEW r \in [1 .. m - 1 -> B],
         \A k \in 1 .. m - 1 : r[k] = q[k + 1]
  PROVE  q # <<>> /\ r = Tail(q)
<1>1. q \in Seq(B) /\ Len(q) = m /\ r \in Seq(B) /\ Len(r) = m - 1
  <2>1. m - 1 \in Nat OBVIOUS
  <2> QED BY <2>1, FunctionSeq
<1>2. q # <<>> BY <1>1
<1>3. Tail(q) \in Seq(B) /\ Len(Tail(q)) = m - 1 /\ \A k \in 1 .. Len(Tail(q)) : Tail(q)[k] = q[k + 1]
  BY <1>1, <1>2
<1>4. \A k \in 1 .. m - 1 : r[k] = Tail(q)[k] BY <1>3
<1> QED BY <1>1, <1>2, <1>3, <1>4

(* The bytes under way are a sequence of Count bytes.                      *)
LEMMA QueueIs ==
  ASSUME TypeOK
  PROVE  /\ Queue \in [1 .. Count -> Bytes \union {None}] /\ Len(Queue) = Count
         /\ \A k \in 1 .. Count : Queue[k] = pi.data[(pi.nread + k - 1) % PIPESIZE]
<1>1. Count \in Nat BY CountIs, PipeAssumption
<1>2. ASSUME NEW k \in 1 .. Count PROVE pi.data[(pi.nread + k - 1) % PIPESIZE] \in Bytes \union {None}
  <2>1. pi.nread + k - 1 \in Int BY <1>1 DEF TypeOK, PipeType
  <2>2. (pi.nread + k - 1) % PIPESIZE \in 0 .. PIPESIZE - 1 BY <2>1, Counters
  <2> QED BY <2>2, Zenon DEF TypeOK, PipeType
<1>3. Queue = [k \in 1 .. Count |-> pi.data[(pi.nread + k - 1) % PIPESIZE]] BY DEF Queue, Count
<1>4. Queue \in [1 .. Count -> Bytes \union {None}] BY <1>2, <1>3
<1>5. \A k \in 1 .. Count : Queue[k] = pi.data[(pi.nread + k - 1) % PIPESIZE] BY <1>3
<1> QED BY <1>1, <1>4, <1>5, FunctionSeq

(* A byte that is written is appended to the queue.                        *)
LEMMA QueuePut ==
  ASSUME TypeOK, TypeOK', Fits, ~Full, NEW x \in Bytes,
         pi' = [pi EXCEPT !.data[pi.nwrite % PIPESIZE] = x, !.nwrite = Inc(@)]
  PROVE  Len(Queue) < PIPESIZE /\ Queue' = Append(Queue, x)
<1> DEFINE B == Bytes \union {None}
<1>1. Count < PIPESIZE /\ Count' = Count + 1 BY CountUp, Zenon
<1>2. /\ Queue \in [1 .. Count -> B] /\ Len(Queue) = Count
      /\ \A k \in 1 .. Count : Queue[k] = pi.data[(pi.nread + k - 1) % PIPESIZE]
  BY QueueIs
<1>3. Count \in Nat /\ PIPESIZE \in Nat /\ PIPESIZE > 0 /\ CountMod \in Nat /\ CountMod > 0 /\ CountMod % PIPESIZE = 0
  BY CountIs, PipeAssumption
<1>4. /\ pi.nread \in 0 .. CountMod - 1 /\ pi.nwrite \in 0 .. CountMod - 1 /\ pi'.nread = pi.nread
      /\ pi'.nwrite = Inc(pi.nwrite)
  BY DEF TypeOK, PipeType
<1>5. (pi.nread + Count) % PIPESIZE = pi.nwrite % PIPESIZE
  <2>1. Count = IF pi.nwrite >= pi.nread THEN pi.nwrite - pi.nread ELSE (pi.nwrite - pi.nread) + CountMod
    BY <1>4, RingFacts DEF Count
  <2>2. pi.nread + Count = pi.nwrite \/ pi.nread + Count = pi.nwrite + CountMod BY <1>3, <1>4, <2>1
  <2>3. (pi.nwrite + CountMod) % PIPESIZE = pi.nwrite % PIPESIZE BY <1>3, <1>4, ModShift
  <2> QED BY <2>2, <2>3
<1>6. pi.nwrite % PIPESIZE \in 0 .. PIPESIZE - 1 BY <1>4, Counters
<1>7. /\ pi'.data[pi.nwrite % PIPESIZE] = x
      /\ \A j \in 0 .. PIPESIZE - 1 : j # pi.nwrite % PIPESIZE => pi'.data[j] = pi.data[j]
  BY <1>6, Zenon DEF TypeOK, PipeType
<1>8. ASSUME NEW k \in 1 .. Count PROVE pi'.data[(pi.nread + k - 1) % PIPESIZE] = Queue[k]
  <2>1. PICK a \in Int : a = pi.nread + k - 1 BY <1>3, <1>4
  <2>2. PICK b \in Int : b = pi.nread + Count BY <1>3, <1>4
  <2>3. a < b /\ b < a + PIPESIZE BY <1>1, <1>3, <1>4, <2>1, <2>2
  <2>4. a % PIPESIZE # b % PIPESIZE BY <1>3, <2>3, ModDistinct
  <2>5. a % PIPESIZE \in 0 .. PIPESIZE - 1 BY Counters
  <2>6. pi'.data[a % PIPESIZE] = pi.data[a % PIPESIZE] BY <1>5, <1>7, <2>2, <2>4, <2>5
  <2>7. Queue[k] = pi.data[a % PIPESIZE] BY <1>2, <2>1
  <2> QED BY <2>1, <2>6, <2>7
<1>9. Queue' = [k \in 1 .. Count + 1 |-> pi'.data[(pi'.nread + k - 1) % PIPESIZE]]
  <2>1. Queue' = [k \in 1 .. Count' |-> pi'.data[(pi'.nread + k - 1) % PIPESIZE]]
    BY DEF Queue, Count
  <2> QED BY <1>1, <2>1
<1>10. \A k \in 1 .. Count : Queue'[k] = Queue[k] BY <1>3, <1>4, <1>8, <1>9
<1>11. Queue'[Count + 1] = x
  <2>1. pi.nread + (Count + 1) - 1 = pi.nread + Count BY <1>3, <1>4
  <2>2. Queue'[Count + 1] = pi'.data[(pi'.nread + (Count + 1) - 1) % PIPESIZE] BY <1>3, <1>9
  <2>3. Queue'[Count + 1] = pi'.data[(pi.nread + Count) % PIPESIZE] BY <1>4, <2>1, <2>2
  <2> QED BY <1>5, <1>7, <2>3
<1>12. Queue' \in [1 .. Count + 1 -> B]
  <2>1. \A k \in 1 .. Count + 1 : k \in 1 .. Count \/ k = Count + 1 BY <1>3
  <2>2. \A k \in 1 .. Count + 1 : Queue'[k] \in B BY <1>2, <1>10, <1>11, <2>1
  <2> QED BY <1>9, <2>2
<1>13. Queue' = Append(Queue, x) BY <1>2, <1>3, <1>10, <1>11, <1>12, AppendSeq
<1> QED BY <1>1, <1>2, <1>13

(* A byte that is read is the head of the queue.                           *)
LEMMA QueueGet ==
  ASSUME TypeOK, TypeOK', Fits, ~Empty, pi' = Taken
  PROVE  Queue # <<>> /\ Queue' = Tail(Queue)
<1> DEFINE B == Bytes \union {None}
<1>1. Count > 0 /\ Count' = Count - 1 BY CountDown
<1>2. /\ Queue \in [1 .. Count -> B] /\ Len(Queue) = Count
      /\ \A k \in 1 .. Count : Queue[k] = pi.data[(pi.nread + k - 1) % PIPESIZE]
  BY QueueIs
<1>3. /\ Count \in Nat /\ PIPESIZE \in Nat /\ PIPESIZE > 0 /\ CountMod \in Nat /\ CountMod > 0
      /\ CountMod % PIPESIZE = 0 /\ Count <= PIPESIZE
  BY CountIs, PipeAssumption DEF Fits
<1>4. /\ pi.nread \in 0 .. CountMod - 1 /\ pi'.nread = Inc(pi.nread)
      /\ Inc(pi.nread) = IF pi.nread + 1 = CountMod THEN 0 ELSE pi.nread + 1
  <2>1. pi.nread \in 0 .. CountMod - 1 /\ pi'.nread = Inc(pi.nread) BY DEF TypeOK, PipeType, Taken
  <2> QED BY <2>1, RingFacts
<1>5. pi.nread % PIPESIZE \in 0 .. PIPESIZE - 1 BY <1>4, Counters
<1>6. \A j \in 0 .. PIPESIZE - 1 : j # pi.nread % PIPESIZE => pi'.data[j] = pi.data[j]
  BY <1>5 DEF TypeOK, PipeType, Taken
<1>7. ASSUME NEW k \in 1 .. Count - 1 PROVE pi'.data[(pi'.nread + k - 1) % PIPESIZE] = Queue[k + 1]
  <2>1. PICK b \in Int : b = pi.nread + k BY <1>3, <1>4
  <2>2. (pi'.nread + k - 1) % PIPESIZE = b % PIPESIZE
    <3>1. PICK a \in Int : a = pi'.nread + k - 1 BY <1>3, <1>4
    <3>2. b = a \/ b = a + CountMod BY <1>3, <1>4, <2>1, <3>1
    <3>3. (a + CountMod) % PIPESIZE = a % PIPESIZE BY <1>3, ModShift, Zenon
    <3> QED BY <3>1, <3>2, <3>3
  <2>3. PICK c \in Int : c = pi.nread BY <1>4
  <2>4. c < b /\ b < c + PIPESIZE BY <1>3, <1>4, <2>1, <2>3
  <2>5. c % PIPESIZE # b % PIPESIZE BY <1>3, <2>4, ModDistinct
  <2>6. b % PIPESIZE \in 0 .. PIPESIZE - 1 BY Counters
  <2>7. pi'.data[b % PIPESIZE] = pi.data[b % PIPESIZE] BY <1>6, <2>3, <2>5, <2>6
  <2>8. k + 1 \in 1 .. Count /\ pi.nread + (k + 1) - 1 = b BY <1>3, <1>4, <2>1
  <2>9. Queue[k + 1] = pi.data[b % PIPESIZE] BY <1>2, <2>8
  <2> QED BY <2>2, <2>7, <2>9
<1>8. Queue' = [k \in 1 .. Count - 1 |-> pi'.data[(pi'.nread + k - 1) % PIPESIZE]]
  <2>1. Queue' = [k \in 1 .. Count' |-> pi'.data[(pi'.nread + k - 1) % PIPESIZE]]
    BY DEF Queue, Count
  <2> QED BY <1>1, <2>1
<1>9. \A k \in 1 .. Count - 1 : Queue'[k] = Queue[k + 1] BY <1>7, <1>8
<1>10. Queue' \in [1 .. Count - 1 -> B]
  <2>1. \A k \in 1 .. Count - 1 : k + 1 \in 1 .. Count BY <1>3
  <2>2. \A k \in 1 .. Count - 1 : Queue'[k] \in B BY <1>2, <1>9, <2>1
  <2> QED BY <1>8, <2>2
<1> QED BY <1>1, <1>2, <1>3, <1>9, <1>10, TailSeq

(* An empty pipe has no bytes under way, and only the counters and the     *)
(* data matter.                                                            *)
LEMMA QueueEmpty ==
  ASSUME NEW k \in 0 .. CountMod - 1, pi.nread = k, pi.nwrite = k
  PROVE  Queue = <<>>
<1>1. (k - k) % CountMod = 0 BY RingFacts, PipeAssumption
<1>2. Queue = [j \in 1 .. 0 |-> pi.data[(pi.nread + j - 1) % PIPESIZE]] BY <1>1 DEF Queue
<1> QED BY <1>2

(* The same after a step.                                                  *)
LEMMA QueueEmptyNext ==
  ASSUME NEW k \in 0 .. CountMod - 1, pi'.nread = k, pi'.nwrite = k
  PROVE  Queue' = <<>>
<1>1. (k - k) % CountMod = 0 BY RingFacts, PipeAssumption
<1>2. Queue' = [j \in 1 .. 0 |-> pi'.data[(pi'.nread + j - 1) % PIPESIZE]] BY <1>1 DEF Queue
<1> QED BY <1>2

(* The last close of an end closes that end of the channel.                *)
LEMMA PipeCloseStream ==
  ASSUME TypeOK, FInv, NEW p \in Procs, PipeClose(p)
  PROVE  Stream!CloseWriter \/ Stream!CloseReader
<1>1. PICK w \in BOOLEAN : w = end[p] BY DEF TypeOK
<1>2. PICK at \in {"user", "exit", "bad"} : at = then[p] BY DEF TypeOK
<1>3. pc[p] = "close" /\ pipeclose(p, w, at) BY <1>1, <1>2 DEF PipeClose
<1>4. pi'.writeopen = (pi.writeopen /\ ~w) /\ pi'.readopen = (pi.readopen /\ w) BY <1>3, CloseFacts
<1>5. Closing(w) BY <1>1, <1>3 DEF Closing
<1>6. IF w THEN pi.writeopen ELSE pi.readopen BY <1>5, Zenon DEF FInv, Ends
<1>7. pi.writeopen \in BOOLEAN /\ pi.readopen \in BOOLEAN BY DEF TypeOK, PipeType
<1>8. Queue' = IF pi'.readopen \/ pi'.writeopen THEN Queue ELSE <<>>
  <2>1. pi' = Closed(w) BY <1>3 DEF pipeclose
  <2>2. CASE pi'.readopen \/ pi'.writeopen
    <3>1. pi'.nread = pi.nread /\ pi'.nwrite = pi.nwrite /\ pi'.data = pi.data
      BY <2>1, <2>2 DEF Closed, NoPipe, TypeOK, PipeType
    <3> QED BY <2>2, <3>1 DEF Queue
  <2>3. CASE ~(pi'.readopen \/ pi'.writeopen)
    <3>1. pi' = NoPipe BY <2>1, <2>3 DEF Closed
    <3>2. pi'.nread = 0 /\ pi'.nwrite = 0 /\ 0 \in 0 .. CountMod - 1
      BY <3>1, PipeAssumption DEF NoPipe
    <3> QED BY <2>3, <3>2, QueueEmptyNext
  <2> QED BY <2>2, <2>3
<1>9. CASE w
  <2>1. Queue' = IF pi.readopen THEN Queue ELSE <<>> BY <1>4, <1>7, <1>8, <1>9
  <2> QED BY <1>4, <1>6, <1>7, <1>9, <2>1, Zenon DEF Stream!CloseWriter
<1>10. CASE ~w
  <2>1. Queue' = IF pi.writeopen THEN Queue ELSE <<>> BY <1>4, <1>7, <1>8, <1>10
  <2> QED BY <1>4, <1>6, <1>7, <1>10, <2>1 DEF Stream!CloseReader
<1> QED BY <1>9, <1>10

(* Every step is a step of the channel, or leaves it alone.                *)
LEMMA NextStream ==
  IInv /\ IInv' /\ [Next]_vars
    => [Stream!vars' # Stream!vars /\ Stream!Next]_(Stream!vars)
<1> SUFFICES ASSUME IInv, IInv', [Next]_vars PROVE UNCHANGED Stream!vars \/ Stream!Next
  OBVIOUS
<1>0. TypeOK /\ TypeOK' /\ FInv /\ Fits BY DEF IInv
<1>1. ASSUME pi' = pi PROVE UNCHANGED Stream!vars BY <1>1 DEF Stream!vars, Queue
<1>2. ASSUME NEW p \in Procs, NEW x \in Bytes, WriteByte(p, x) PROVE Stream!Next
  <2>1. /\ pi' = [pi EXCEPT !.data[pi.nwrite % PIPESIZE] = x, !.nwrite = Inc(@)]
        /\ pc[p] = "wloop" /\ ~Full /\ pi.readopen
    BY <1>2 DEF WriteByte, Writing
  <2>2. pi.writeopen BY <1>0, <2>1, InOpen DEF Writer
  <2>3. pi'.readopen = pi.readopen /\ pi'.writeopen = pi.writeopen
    BY <1>0, <2>1, Zenon DEF TypeOK, PipeType
  <2>4. Len(Queue) < PIPESIZE /\ Queue' = Append(Queue, x) BY <1>0, <2>1, QueuePut, Zenon
  <2>5. Stream!Put(x) BY <2>1, <2>2, <2>3, <2>4, Zenon DEF Stream!Put
  <2> QED BY <2>5 DEF Stream!Next
<1>3. ASSUME NEW p \in Procs, pc[p] = "rcopy", ~Empty, pi' = Taken PROVE Stream!Next
  <2>1. pi.readopen BY <1>0, <1>3, InOpen DEF Reader
  <2>2. pi'.readopen = pi.readopen /\ pi'.writeopen = pi.writeopen
    BY <1>0, <1>3 DEF TypeOK, PipeType, Taken
  <2>3. Queue # <<>> /\ Queue' = Tail(Queue) BY <1>0, <1>3, QueueGet
  <2>4. Stream!Get BY <2>1, <2>2, <2>3 DEF Stream!Get
  <2> QED BY <2>4 DEF Stream!Next
<1>4. ASSUME NEW p \in Procs, PipeStep(p) PROVE UNCHANGED Stream!vars \/ Stream!Next
  <2>1. CASE ReadByte(p) \/ ReadCopyFails(p) BY <1>3, <2>1 DEF ReadByte, ReadCopyFails
  <2>2. CASE \E x \in Bytes : WriteByte(p, x) BY <1>2, <2>2
  <2>3. CASE pi' = pi BY <1>1, <2>3
  <2> QED BY <1>4, <2>1, <2>2, <2>3
        DEF PipeStep, PipeLock, WriteFails, WriteSleeps, WriteReturns, ReadSleeps, ReadKilled, ReadGo, ReadReturns
<1>5. ASSUME NEW p \in Procs, PipeClose(p) PROVE Stream!Next
  BY <1>0, <1>5, PipeCloseStream DEF Stream!Next
<1>6. ASSUME NEW p \in Procs, pipealloc(p) PROVE UNCHANGED Stream!vars \/ Stream!Next
  <2>1. CASE pi' = pi BY <1>1, <2>1
  <2>2. CASE pi = NoPipe /\ pi' = [NoPipe EXCEPT !.readopen = TRUE, !.writeopen = TRUE]
    <3>1. /\ ~pi.readopen /\ ~pi.writeopen /\ pi'.readopen = TRUE /\ pi'.writeopen = TRUE
          /\ pi'.nread = 0 /\ pi'.nwrite = 0
      BY <2>2 DEF NoPipe
    <3>2. 0 \in 0 .. CountMod - 1 BY PipeAssumption
    <3>3. Queue' = <<>> BY <3>1, <3>2, QueueEmptyNext
    <3>4. Stream!Create BY <3>1, <3>3 DEF Stream!Create
    <3> QED BY <3>4 DEF Stream!Next
  <2> QED BY <1>6, <2>1, <2>2 DEF pipealloc
<1>7. ASSUME NEW p \in Procs,
             sys_pipe(p) \/ PipeFds(p) \/ PipeFails(p) \/ exit(p) \/ kill(p)
             \/ (\E d \in Fds : sys_dup(p, d) \/ sys_close(p, d) \/ \E k \in 0 .. MaxN : sys_rw(p, d, k))
             \/ \E q \in Procs : fork(p, q)
      PROVE  pi' = pi
  BY <1>7, Zenon DEF sys_pipe, PipeFds, PipeFails, exit, kill, sys_dup, sys_close, sys_rw, fork,
     pipe
<1>8. CASE UNCHANGED vars BY <1>1, <1>8 DEF vars, pipe
<1> QED BY <1>1, <1>4, <1>5, <1>6, <1>7, <1>8 DEF Next

(* The channel starts closed and empty.                                    *)
LEMMA InitStream ==
  ASSUME Init
  PROVE  Stream!Init
<1>1. pi.nread = 0 /\ pi.nwrite = 0 /\ pi.readopen = FALSE /\ pi.writeopen = FALSE
  BY DEF Init, PipeInit, NoPipe
<1>2. 0 \in 0 .. CountMod - 1 BY PipeAssumption
<1>3. Queue = <<>> BY <1>1, <1>2, QueueEmpty
<1> QED BY <1>1, <1>3 DEF Stream!Init
-----------------------------------------------------------------------------
(* A nonempty set of naturals has its minimum as a member.                 *)
LEMMA MinIn ==
  ASSUME NEW S \in SUBSET Nat, S # {}
  PROVE  Min(S) \in S
<1>1. OpToRel(<, Nat) = {ss \in Nat \X Nat : ss[1] < ss[2]}
  BY Zenon DEF OpToRel
<1>2. PICK R : R = {ss \in Nat \X Nat : ss[1] < ss[2]} /\ IsWellFoundedOn(R, Nat)
  BY <1>1, NatLessThanWellFounded, Zenon
<1>3. PICK x \in S : \A y \in S : ~(<<y, x>> \in R)
  BY <1>2, WFMin, Zenon
<1>4. ASSUME NEW y \in S, y < x PROVE FALSE
  <2>1. <<y, x>> \in Nat \X Nat OBVIOUS
  <2>2. <<y, x>>[1] < <<y, x>>[2] BY <1>4
  <2>3. <<y, x>> \in R BY <1>2, <2>1, <2>2, Zenon
  <2> QED BY <1>3, <2>3, Zenon
<1>5. \A y \in S : x <= y BY <1>4
<1> QED BY <1>5, Zenon DEF Min

(* The subsets of a finite set can be counted.                             *)
LEMMA FiniteCounts ==
  ASSUME NEW U, IsFiniteSet(U)
  PROVE  Counts(U)
<1>1. ASSUME NEW S \in SUBSET U PROVE IsFiniteSet(S) /\ Cardinality(S) \in Nat
  BY FS_Subset, FS_CardinalityType
<1>2. ASSUME NEW S \in SUBSET U, Cardinality(S) = 0 PROVE S = {} BY <1>1, <1>2, FS_EmptySet
<1>3. ASSUME NEW S \in SUBSET U, NEW x \in S PROVE Cardinality(S \ {x}) = Cardinality(S) - 1
  BY <1>1, FS_RemoveElement
<1>4. ASSUME NEW S \in SUBSET U, NEW T \in SUBSET U, S \intersect T = {}
      PROVE  Cardinality(S \union T) = Cardinality(S) + Cardinality(T)
  <2>1. IsFiniteSet(S) /\ IsFiniteSet(T) /\ Cardinality(S) \in Nat /\ Cardinality(T) \in Nat BY <1>1
  <2>2. Cardinality(S \union T) = Cardinality(S) + Cardinality(T) - Cardinality({})
    BY <1>4, <2>1, FS_Union
  <2> QED BY <2>1, <2>2, FS_EmptySet
<1> QED BY <1>1, <1>2, <1>3, <1>4 DEF Counts

(* Finite sets are as the proofs above assume.                             *)
LEMMA CountingHolds == Counting
<1>1. 1 \in Int /\ NOFILE \in Int /\ IsFiniteSet(Procs) BY FileAssumption
<1>2. IsFiniteSet(Fds) BY <1>1, FS_Interval DEF Fds
<1>3. IsFiniteSet(Procs \X Fds) BY <1>1, <1>2, FS_Product
<1>4. Counts(Fds) /\ Counts(Procs \X Fds) BY <1>2, <1>3, FiniteCounts
<1>5. ASSUME NEW S \in SUBSET Fds, S # {} PROVE Min(S) \in S
  <2>1. S \in SUBSET Nat BY FileAssumption DEF Fds
  <2> QED BY <1>5, <2>1, MinIn
<1>6. Cardinality({}) = 0 /\ \A x : IsFiniteSet({x}) /\ Cardinality({x}) = 1
  BY FS_EmptySet, FS_Singleton
<1>7. ASSUME NEW p \in Procs, NEW S \in SUBSET Fds PROVE Cardinality({p} \X S) = Cardinality(S)
  <2>1. IsFiniteSet(S) /\ Cardinality(S) \in Nat BY <1>2, FS_Subset, FS_CardinalityType
  <2>2. IsFiniteSet({p}) /\ Cardinality({p}) = 1 BY <1>6, Zenon
  <2>3. Cardinality({p} \X S) = 1 * Cardinality(S) BY <2>1, <2>2, FS_Product
  <2> QED BY <2>1, <2>3
<1> QED BY <1>4, <1>5, <1>6, <1>7, Zenon DEF Counting
-----------------------------------------------------------------------------
(* The inductive invariant holds in every reachable state: types, exact    *)
(* counts, who may hold pi->lock, who sleeps why, and that the bytes fit.  *)
THEOREM Invariant == Spec => []IInv
<1>1. Init => IInv BY InitIInv, CountingHolds
<1>2. IInv /\ [Next]_vars => IInv' BY NextIInv, CountingHolds
<1> QED BY <1>1, <1>2, PTL DEF Spec

(* f->ref is the number of references to f, and an end of the pipe is open *)
(* exactly as long as a file or a last close on the way refers to it: the  *)
(* pipe is never freed under a process in piperead or pipewrite.           *)
THEOREM ReferencesExact == Spec => []RefExact
<1>1. IInv => RefExact BY InvRefExact
<1> QED BY <1>1, Invariant, PTL

(* While nobody has pi->lock, readers sleep only on an empty pipe that can *)
(* still be written and writers only on a full one that can be read, but   *)
(* for the bytes of a write that kill has cut off.                         *)
THEOREM PipeNoLostWakeup == Spec => []NoLostWakeup
<1>1. IInv => NoLostWakeup BY InvNoLostWakeup
<1> QED BY <1>1, Invariant, PTL

(* The pipe with its files and processes implements the channel: bytes are *)
(* neither lost nor duplicated nor reordered, also when the counters wrap, *)
(* and each end is closed once.                                            *)
THEOREM PipeIsChannel == Spec => ImplementsChannel
<1>1. Init => Stream!Init BY InitStream
<1> QED BY <1>1, NextStream, Invariant, PTL DEF Spec, ImplementsChannel, Stream!Spec
=============================================================================
