-------------------------- MODULE FileTableProofs ---------------------------
(***************************************************************************)
(* Proofs about modules FileTable and Pipe, for any number of processes,   *)
(* files and descriptors, any size of the pipe and any width of its        *)
(* counters: reference counts are exact, no wakeup of the pipe is lost,    *)
(* and the ring buffer is a channel.                                       *)
(***************************************************************************)
EXTENDS FileTable, TLAPS

(* The time that the provers have for a step.                              *)
USE SMTT(10), ZenonT(20), SMTT(60)

(* The places inside piperead and pipewrite.                               *)
Reader == {"rlock", "rwait", "rcopy", "rsleep"}
Writer == {"wlock", "wloop", "wsleep"}

Places == {"none", "user", "exit", "pipe", "fds", "bad", "close"} \union Reader \union Writer

PipeType ==
  [data : [0 .. PIPESIZE - 1 -> Bytes \union {None}],
   nread : 0 .. CountMod - 1, nwrite : 0 .. CountMod - 1,
   readopen : BOOLEAN, writeopen : BOOLEAN]

FileType == [ref : Int, type : {"none", "pipe"}, writable : BOOLEAN]

TypeOK ==
  /\ pi \in PipeType
  /\ lock \in Procs \union {None}
  /\ killed \in SUBSET Procs
  /\ pc \in [Procs -> Places]
  /\ n \in [Procs -> Nat] /\ i \in [Procs -> Nat]
  /\ cut \in BOOLEAN
  /\ file \in [Files -> FileType]
  /\ ofile \in [Procs -> [Fds -> Files \union {None}]]
  /\ mine \in [Procs -> Seq(Files)]
  /\ end \in [Procs -> BOOLEAN]
  /\ then \in [Procs -> {"user", "exit", "bad"}]

(* Reference counts are exact; a free slot is no pipe.                     *)
Counted == \A f \in Files : file[f].ref = Refs(f)
Slots == \A f \in Files : file[f].type = "pipe" => file[f].ref > 0

(* Each end of the pipe has one file, or one process that closes it.       *)
OneFile ==
  \A f, g \in Files :
    file[f].type = "pipe" /\ file[g].type = "pipe" /\ file[f].writable = file[g].writable => f = g
OneCloser ==
  \A p, q \in Procs : pc[p] = "close" /\ pc[q] = "close" /\ end[p] = end[q] => p = q
Ends ==
  /\ pi.writeopen <=> Referenced(TRUE) \/ Closing(TRUE)
  /\ pi.readopen <=> Referenced(FALSE) \/ Closing(FALSE)
  /\ \A w \in BOOLEAN : ~(Referenced(w) /\ Closing(w))

(* Descriptors are of files of the pipe; a process that does not exist has *)
(* none.                                                                   *)
DescInv ==
  \A p \in Procs : \A d \in Fds :
    ofile[p][d] # None => pc[p] # "none" /\ file[ofile[p][d]].type = "pipe"

(* The files that sys_pipe holds are its own until it puts them into       *)
(* descriptors, and belong to the pipe from pipealloc on.                  *)
MineInv ==
  \A p \in Procs :
    /\ Len(mine[p]) <= 2
    /\ mine[p] # <<>> => pc[p] \in {"pipe", "fds", "bad"} \/ (pc[p] = "close" /\ then[p] = "bad")
    /\ pc[p] = "fds" => Len(mine[p]) = 2
    /\ \A k \in DOMAIN mine[p] :
         /\ pc[p] = "pipe" => file[mine[p][k]].type = "none"
         /\ pc[p] = "fds" => file[mine[p][k]].type = "pipe"
Exclusive ==
  \A p, q \in Procs : \A j \in DOMAIN mine[p], k \in DOMAIN mine[q] :
    mine[p][j] = mine[q][k] => p = q /\ j = k

(* A process inside piperead or pipewrite has a descriptor for its end.    *)
InCall ==
  \A p \in Procs :
    /\ pc[p] \in Reader => \E d \in Fds : ofile[p][d] # None /\ ~file[ofile[p][d]].writable
    /\ pc[p] \in Writer => \E d \in Fds : ofile[p][d] # None /\ file[ofile[p][d]].writable

FInv ==
  /\ Counted /\ Slots /\ OneFile /\ OneCloser /\ Ends
  /\ DescInv /\ MineInv /\ Exclusive /\ InCall

(* The holder of pi->lock is in the loop of pipewrite or piperead.         *)
LockInv == \A p \in Procs : lock = p <=> pc[p] \in {"wloop", "rwait", "rcopy"}

(* Readers that sleep while there are bytes will be woken by the writer in *)
(* its loop, or were passed over by one that was killed; writers that      *)
(* sleep while there is room will be woken by the reader in its loop.      *)
SleepInv ==
  \A p \in Procs :
    /\ pc[p] = "rsleep" =>
         /\ pi.writeopen
         /\ Empty \/ cut \/ \E q \in Procs : pc[q] = "wloop" /\ i[q] > 0
    /\ pc[p] = "wsleep" =>
         /\ pi.readopen
         /\ Full \/ \E q \in Procs : pc[q] = "rcopy"

(* The bytes under way, and that they fit.                                 *)
Count == (pi.nwrite - pi.nread) % CountMod
Fits == Count <= PIPESIZE

IInv == TypeOK /\ FInv /\ LockInv /\ SleepInv /\ Fits
-----------------------------------------------------------------------------
(* What is used of minima and of counting: any set of descriptors, and any *)
(* set of descriptors of processes, has a number of members that goes with *)
(* its members.  Module FileTableTheorems proves it, from the library's    *)
(* theorems about finite sets.                                             *)
Counts(U) ==
  \A S \in SUBSET U :
    /\ Cardinality(S) \in Nat
    /\ Cardinality(S) = 0 => S = {}
    /\ \A x \in S : Cardinality(S \ {x}) = Cardinality(S) - 1
    /\ \A T \in SUBSET U : S \intersect T = {} => Cardinality(S \union T) = Cardinality(S) + Cardinality(T)
Counting ==
  /\ \A S \in SUBSET Fds : S # {} => Min(S) \in S
  /\ Cardinality({}) = 0
  /\ \A x : Cardinality({x}) = 1
  /\ Counts(Fds) /\ Counts(Procs \X Fds)
  /\ \A p \in Procs : \A S \in SUBSET Fds : Cardinality({p} \X S) = Cardinality(S)

(* Disjoint sets, and a member less.                                       *)
LEMMA Together ==
  ASSUME NEW U, Counts(U), NEW S \in SUBSET U, NEW T \in SUBSET U, S \intersect T = {}
  PROVE  Cardinality(S \union T) = Cardinality(S) + Cardinality(T)
BY Zenon DEF Counts

(* Taking an element away takes one off the size.                          *)
LEMMA Without ==
  ASSUME NEW U, Counts(U), NEW S \in SUBSET U, NEW x \in S
  PROVE  Cardinality(S \ {x}) = Cardinality(S) - 1
BY Zenon DEF Counts

(* There is at least one free descriptor, two, or one in use.              *)
LEMMA FreeFd ==
  ASSUME Counting, NEW p \in Procs, FreeFds(p) # {}
  PROVE  Min(FreeFds(p)) \in Fds /\ ofile[p][Min(FreeFds(p))] = None
<1>1. FreeFds(p) \in SUBSET Fds BY DEF FreeFds
<1>2. Min(FreeFds(p)) \in FreeFds(p) BY <1>1 DEF Counting
<1> QED BY <1>2 DEF FreeFds

(* The two smallest free descriptors are different descriptors.            *)
LEMMA TwoFds ==
  ASSUME Counting, NEW p \in Procs, Cardinality(FreeFds(p)) >= 2,
         NEW d, d = Min(FreeFds(p)), NEW e, e = Min(FreeFds(p) \ {d})
  PROVE  d \in Fds /\ e \in Fds /\ d # e /\ ofile[p][d] = None /\ ofile[p][e] = None
<1>1. FreeFds(p) \in SUBSET Fds /\ FreeFds(p) \ {d} \in SUBSET Fds BY DEF FreeFds
<1>2. FreeFds(p) # {} BY DEF Counting
<1>3. d \in FreeFds(p) BY <1>1, <1>2 DEF Counting
<1>4. Cardinality(FreeFds(p) \ {d}) = Cardinality(FreeFds(p)) - 1 /\ Cardinality(FreeFds(p)) \in Nat
  BY <1>1, <1>3 DEF Counting, Counts
<1>5. FreeFds(p) \ {d} # {} BY <1>4 DEF Counting
<1>6. e \in FreeFds(p) \ {d} BY <1>1, <1>5 DEF Counting
<1> QED BY <1>3, <1>6 DEF FreeFds

(* A process with a descriptor has a smallest one.                         *)
LEMMA UsedFd ==
  ASSUME Counting, NEW p \in Procs, FreeFds(p) # Fds
  PROVE  Min(Fds \ FreeFds(p)) \in Fds /\ ofile[p][Min(Fds \ FreeFds(p))] # None
<1>2. Fds \ FreeFds(p) # {} BY DEF FreeFds
<1>3. Min(Fds \ FreeFds(p)) \in Fds \ FreeFds(p) BY <1>2 DEF Counting
<1> QED BY <1>3 DEF FreeFds
-----------------------------------------------------------------------------
(* How the references are counted, for any descriptors o and any files m   *)
(* in calls of sys_pipe.                                                   *)
DescriptorsIn(o, f) == {x \in Procs \X Fds : o[x[1]][x[2]] = f}
CallsIn(m, f) == {x \in Procs \X {1, 2} : x[2] <= Len(m[x[1]]) /\ m[x[1]][x[2]] = f}

OfileType == [Procs -> [Fds -> Files \union {None}]]
MineType == {m \in [Procs -> Seq(Files)] : \A p \in Procs : Len(m[p]) <= 2}
Own(m) == \A p, q \in Procs : \A j \in DOMAIN m[p], k \in DOMAIN m[q] : m[p][j] = m[q][k] => p = q /\ j = k
Holds(m, f) == \E p \in Procs : \E k \in DOMAIN m[p] : m[p][k] = f

(* The descriptors that refer to f are counted by a number.                *)
LEMMA DescriptorFacts ==
  ASSUME Counting, NEW o, NEW f
  PROVE  /\ DescriptorsIn(o, f) \in SUBSET (Procs \X Fds)
         /\ Cardinality(DescriptorsIn(o, f)) \in Nat
         /\ \A p \in Procs, d \in Fds : o[p][d] = f => Cardinality(DescriptorsIn(o, f)) > 0
<1>2. DescriptorsIn(o, f) \in SUBSET (Procs \X Fds) BY DEF DescriptorsIn
<1>4. Cardinality(DescriptorsIn(o, f)) \in Nat BY <1>2 DEF Counting, Counts
<1>5. ASSUME NEW p \in Procs, NEW d \in Fds, o[p][d] = f PROVE Cardinality(DescriptorsIn(o, f)) > 0
  <2>1. <<p, d>> \in DescriptorsIn(o, f) BY <1>5 DEF DescriptorsIn
  <2>2. Cardinality(DescriptorsIn(o, f)) # 0 BY <2>1, <1>2 DEF Counting, Counts
  <2> QED BY <2>2, <1>4
<1> QED BY <1>2, <1>4, <1>5

(* A file is in one call at most.                                          *)
LEMMA CallFacts ==
  ASSUME Counting, NEW m \in MineType, Own(m), NEW f
  PROVE  Cardinality(CallsIn(m, f)) = IF Holds(m, f) THEN 1 ELSE 0
<1>1. CASE Holds(m, f)
  <2>1. PICK p \in Procs : \E k \in DOMAIN m[p] : m[p][k] = f BY <1>1 DEF Holds
  <2>2. PICK k \in DOMAIN m[p] : m[p][k] = f BY <2>1
  <2>3. \A q \in Procs : DOMAIN m[q] = 1 .. Len(m[q]) /\ Len(m[q]) \in Nat /\ Len(m[q]) <= 2
    BY DEF MineType
  <2>4. k \in {1, 2} /\ k <= Len(m[p]) BY <2>3
  <2>5. <<p, k>> \in CallsIn(m, f) BY <2>2, <2>4 DEF CallsIn
  <2>6. ASSUME NEW x \in CallsIn(m, f) PROVE x = <<p, k>>
    <3>1. x \in Procs \X {1, 2} /\ x[2] <= Len(m[x[1]]) /\ m[x[1]][x[2]] = f BY DEF CallsIn
    <3>2. x[1] \in Procs /\ x[2] \in {1, 2} /\ x = <<x[1], x[2]>> BY <3>1
    <3>3. x[2] \in DOMAIN m[x[1]] BY <2>3, <3>1, <3>2
    <3>4. m[x[1]][x[2]] = m[p][k] BY <3>1, <2>2
    <3>5. x[1] = p /\ x[2] = k BY <3>2, <3>3, <3>4 DEF Own
    <3> QED BY <3>2, <3>5
  <2>7. CallsIn(m, f) = {<<p, k>>} BY <2>5, <2>6
  <2> QED BY <2>7, <1>1, Zenon DEF Counting
<1>2. CASE ~Holds(m, f)
  <2>1. ASSUME NEW x \in CallsIn(m, f) PROVE FALSE
    <3>1. x \in Procs \X {1, 2} /\ x[2] <= Len(m[x[1]]) /\ m[x[1]][x[2]] = f BY DEF CallsIn
    <3>2. x[1] \in Procs /\ x[2] \in {1, 2} BY <3>1
    <3>3. DOMAIN m[x[1]] = 1 .. Len(m[x[1]]) /\ Len(m[x[1]]) \in Nat BY <3>2 DEF MineType
    <3>4. x[2] \in DOMAIN m[x[1]] BY <3>1, <3>2, <3>3
    <3> QED BY <1>2, <3>1, <3>2, <3>4 DEF Holds
  <2>2. CallsIn(m, f) = {} BY <2>1
  <2> QED BY <1>2, <2>2 DEF Counting
<1> QED BY <1>1, <1>2

(* A descriptor more, one less, and those of a child.                      *)
LEMMA DescriptorAdded ==
  ASSUME Counting, NEW o, NEW p \in Procs, NEW d \in Fds, o[p][d] = None, NEW f \in Files, NEW g \in Files,
         NEW o2, \A q \in Procs, e \in Fds : o2[q][e] = IF q = p /\ e = d THEN f ELSE o[q][e]
  PROVE  Cardinality(DescriptorsIn(o2, g)) = Cardinality(DescriptorsIn(o, g)) + (IF g = f THEN 1 ELSE 0)
<1>0. None # f /\ None # g BY FileAssumption
<1>2. CASE g = f
  <2>1. <<p, d>> \notin DescriptorsIn(o, g) BY <1>0 DEF DescriptorsIn
  <2>2. DescriptorsIn(o2, g) = DescriptorsIn(o, g) \union {<<p, d>>} BY <1>2 DEF DescriptorsIn
  <2>3. DescriptorsIn(o, g) \intersect {<<p, d>>} = {} BY <2>1
  <2>4. {<<p, d>>} \in SUBSET (Procs \X Fds) /\ DescriptorsIn(o, g) \in SUBSET (Procs \X Fds)
    BY DescriptorFacts
  <2>5. Counts(Procs \X Fds) /\ Cardinality({<<p, d>>}) = 1 BY Zenon DEF Counting
  <2>6. Cardinality(DescriptorsIn(o, g) \union {<<p, d>>}) = Cardinality(DescriptorsIn(o, g)) + Cardinality({<<p, d>>})
    BY <2>3, <2>4, <2>5, Together
  <2> QED BY <1>2, <2>2, <2>5, <2>6
<1>3. CASE g # f
  <2>1. DescriptorsIn(o2, g) = DescriptorsIn(o, g) BY <1>0, <1>3 DEF DescriptorsIn
  <2> QED BY <1>3, <2>1, DescriptorFacts
<1> QED BY <1>2, <1>3

(* Clearing a descriptor takes one off the count of its file.              *)
LEMMA DescriptorDropped ==
  ASSUME Counting, NEW o, NEW p \in Procs, NEW d \in Fds, o[p][d] \in Files, NEW g \in Files,
         NEW o2, \A q \in Procs, e \in Fds : o2[q][e] = IF q = p /\ e = d THEN None ELSE o[q][e]
  PROVE  Cardinality(DescriptorsIn(o2, g)) = Cardinality(DescriptorsIn(o, g)) - (IF g = o[p][d] THEN 1 ELSE 0)
<1> DEFINE f == o[p][d]
<1>0. None # f /\ None # g BY FileAssumption
<1>2. CASE g = f
  <2>1. <<p, d>> \in DescriptorsIn(o, g) BY <1>2 DEF DescriptorsIn
  <2>2. DescriptorsIn(o2, g) = DescriptorsIn(o, g) \ {<<p, d>>} BY <1>0, <1>2 DEF DescriptorsIn
  <2>3. DescriptorsIn(o, g) \in SUBSET (Procs \X Fds) BY DescriptorFacts
  <2>4. Counts(Procs \X Fds) BY Zenon DEF Counting
  <2>5. Cardinality(DescriptorsIn(o, g) \ {<<p, d>>}) = Cardinality(DescriptorsIn(o, g)) - 1
    BY <2>1, <2>3, <2>4, Without, Zenon
  <2> QED BY <1>2, <2>2, <2>5
<1>3. CASE g # f
  <2>1. DescriptorsIn(o2, g) = DescriptorsIn(o, g) BY <1>0, <1>3 DEF DescriptorsIn
  <2> QED BY <1>3, <2>1, DescriptorFacts
<1> QED BY <1>2, <1>3

(* fork adds the descriptors of the parent to every count.                 *)
LEMMA DescriptorsCopied ==
  ASSUME Counting, NEW o, NEW p \in Procs, NEW q \in Procs, \A d \in Fds : o[q][d] = None, NEW f \in Files,
         NEW o2, \A r \in Procs, e \in Fds : o2[r][e] = IF r = q THEN o[p][e] ELSE o[r][e]
  PROVE  Cardinality(DescriptorsIn(o2, f))
           = Cardinality(DescriptorsIn(o, f)) + Cardinality({d \in Fds : o[p][d] = f})
<1> DEFINE S == {d \in Fds : o[p][d] = f}
<1>0. None # f BY FileAssumption
<1>3. DescriptorsIn(o2, f) = DescriptorsIn(o, f) \union ({q} \X S)
  BY <1>0 DEF DescriptorsIn
<1>4. DescriptorsIn(o, f) \intersect ({q} \X S) = {} BY <1>0 DEF DescriptorsIn
<1>5. S \in SUBSET Fds /\ {q} \X S \in SUBSET (Procs \X Fds) OBVIOUS
<1> HIDE DEF S
<1>6. Cardinality({q} \X S) = Cardinality(S) BY <1>5 DEF Counting
<1>7. DescriptorsIn(o, f) \in SUBSET (Procs \X Fds) BY DescriptorFacts
<1>8. Cardinality(DescriptorsIn(o, f) \union ({q} \X S)) = Cardinality(DescriptorsIn(o, f)) + Cardinality({q} \X S)
  <2>1. Counts(Procs \X Fds) BY Zenon DEF Counting
  <2> QED BY <1>4, <1>5, <1>7, <2>1, Together
<1> QED BY <1>3, <1>6, <1>8 DEF S
-----------------------------------------------------------------------------
(* What the invariant says of the counts: a file that something refers to  *)
(* has a positive one.                                                     *)
LEMMA CountFacts ==
  ASSUME Counting, NEW o, NEW m \in MineType, Own(m), NEW f
  PROVE  /\ Cardinality(DescriptorsIn(o, f)) \in Nat
         /\ Cardinality(CallsIn(m, f)) = IF Holds(m, f) THEN 1 ELSE 0
         /\ \A p \in Procs, d \in Fds : o[p][d] = f => Cardinality(DescriptorsIn(o, f)) > 0
<1>1. Cardinality(CallsIn(m, f)) = IF Holds(m, f) THEN 1 ELSE 0 BY CallFacts
<1>2. Cardinality(DescriptorsIn(o, f)) \in Nat BY DescriptorFacts
<1>3. \A p \in Procs, d \in Fds : o[p][d] = f => Cardinality(DescriptorsIn(o, f)) > 0
  BY DescriptorFacts
<1> QED BY <1>1, <1>2, <1>3

(* f->ref in the invariant, and that what is referred to has references.   *)
LEMMA RefFacts ==
  ASSUME Counting, TypeOK, FInv
  PROVE  /\ ofile \in OfileType /\ mine \in MineType /\ Own(mine)
         /\ \A f \in Files :
              /\ file[f].ref = Cardinality(DescriptorsIn(ofile, f)) + Cardinality(CallsIn(mine, f))
              /\ file[f].ref = Cardinality(DescriptorsIn(ofile, f)) + (IF Holds(mine, f) THEN 1 ELSE 0)
              /\ file[f].ref \in Nat
              /\ \A p \in Procs, d \in Fds : ofile[p][d] = f => file[f].ref > 0
              /\ Holds(mine, f) => file[f].ref > 0
<1>1. ofile \in OfileType /\ mine \in MineType /\ Own(mine)
  BY DEF TypeOK, OfileType, MineType, FInv, MineInv, Exclusive, Own
<1>2. \A f \in Files : file[f].ref = Cardinality(DescriptorsIn(ofile, f)) + Cardinality(CallsIn(mine, f))
  BY DEF FInv, Counted, Refs, Descriptors, InPipeCall, DescriptorsIn, CallsIn
<1>3. ASSUME NEW f \in Files
      PROVE  /\ file[f].ref = Cardinality(DescriptorsIn(ofile, f)) + (IF Holds(mine, f) THEN 1 ELSE 0)
             /\ file[f].ref \in Nat
             /\ \A p \in Procs, d \in Fds : ofile[p][d] = f => file[f].ref > 0
             /\ Holds(mine, f) => file[f].ref > 0
  <2>1. file[f].ref = Cardinality(DescriptorsIn(ofile, f)) + Cardinality(CallsIn(mine, f)) BY <1>2
  <2>2. /\ Cardinality(DescriptorsIn(ofile, f)) \in Nat
        /\ Cardinality(CallsIn(mine, f)) = IF Holds(mine, f) THEN 1 ELSE 0
        /\ \A p \in Procs, d \in Fds : ofile[p][d] = f => Cardinality(DescriptorsIn(ofile, f)) > 0
    BY <1>1, CountFacts, Zenon
  <2>3. file[f].ref \in Nat BY <2>1, <2>2
  <2>4. Cardinality(DescriptorsIn(ofile, f)) > 0 => file[f].ref > 0 BY <2>1, <2>2
  <2> QED BY <2>1, <2>2, <2>3, <2>4
<1> QED BY <1>1, <1>2, <1>3, Zenon

(* fileclose and the ends of the pipe.                                     *)
LEMMA FilecloseEnds ==
  ASSUME TypeOK, FInv, NEW p \in Procs, pc[p] # "close", NEW f \in Files, file[f].ref > 0,
         NEW next \in {"user", "exit", "bad"}, fileclose(p, f, next), pi' = pi
  PROVE  /\ Slots' /\ OneFile' /\ OneCloser' /\ Ends'
         /\ \A g \in Files :
              /\ file'[g].type = "pipe" => file[g].type = "pipe" /\ file'[g].writable = file[g].writable
              /\ file[g].type = "pipe" /\ file'[g].ref > 0 =>
                   file'[g].type = "pipe" /\ file'[g].writable = file[g].writable
         /\ \A q \in Procs : q # p => pc'[q] = pc[q] /\ then'[q] = then[q]
         /\ pc'[p] = next \/ (pc'[p] = "close" /\ then'[p] = next)
<1>1. file[f].ref \in Int /\ file[f].ref > 0 BY DEF TypeOK, FileType
<1>2. \A g \in Files : g # f => file'[g] = file[g] BY DEF fileclose, TypeOK
<1>3. Last(f) => file'[f].ref = 0 /\ file'[f].type = "none"
  BY DEF fileclose, TypeOK, Unref, FreeFile
<1>4. ~Last(f) => file'[f].ref > 0 /\ file'[f].type = file[f].type /\ file'[f].writable = file[f].writable
  BY <1>1 DEF fileclose, TypeOK, FileType, Unref, Last
<1>5. \A q \in Procs : q # p => pc'[q] = pc[q] /\ then'[q] = then[q] /\ end'[q] = end[q]
  BY DEF fileclose, TypeOK, Goto
<1>6. IF Last(f) /\ file[f].type = "pipe"
      THEN pc'[p] = "close" /\ end'[p] = file[f].writable /\ then'[p] = next
      ELSE pc'[p] = next
  BY DEF fileclose, TypeOK, Goto
<1>7. /\ Slots /\ OneFile /\ OneCloser /\ Ends BY DEF FInv
<1>8. Slots' /\ OneFile' BY <1>2, <1>3, <1>4, <1>7 DEF Slots, OneFile
<1>9. ASSUME Last(f) /\ file[f].type = "pipe" PROVE Ends' /\ OneCloser'
  <2>1. PICK w \in BOOLEAN : w = file[f].writable BY DEF TypeOK, FileType
  <2>2. Referenced(w) BY <1>1, <1>9, <2>1 DEF Referenced
  <2>3. ~Closing(w) BY <1>7, <2>1, <2>2 DEF Ends
  <2>4. ~Referenced(w)' BY <1>2, <1>3, <1>7, <1>9, <2>1 DEF Referenced, OneFile
  <2>5. Closing(w)' BY <1>6, <1>9, <2>1 DEF Closing
  <2>6. \A v \in BOOLEAN : v # w => Referenced(v)' = Referenced(v) /\ Closing(v)' = Closing(v)
    <3>1. ASSUME NEW v \in BOOLEAN, v # w PROVE Referenced(v)' = Referenced(v)
      BY <1>2, <1>3, <1>9, <2>1, <3>1 DEF Referenced
    <3>2. ASSUME NEW v \in BOOLEAN, v # w PROVE Closing(v)' = Closing(v)
      BY <1>5, <1>6, <1>9, <2>1, <3>2 DEF Closing
    <3> QED BY <3>1, <3>2
  <2>7. Ends' BY <1>7, <2>1, <2>2, <2>3, <2>4, <2>5, <2>6, Zenon DEF Ends
  <2>8. OneCloser' BY <1>5, <1>6, <1>7, <1>9, <2>1, <2>3 DEF OneCloser, Closing
  <2> QED BY <2>7, <2>8
<1>10. ASSUME ~(Last(f) /\ file[f].type = "pipe") PROVE Ends' /\ OneCloser'
  <2>1. \A v \in BOOLEAN : Referenced(v)' = Referenced(v)
    BY <1>1, <1>2, <1>3, <1>4, <1>10 DEF Referenced
  <2>2. pc'[p] # "close" BY <1>6, <1>10
  <2>3. \A v \in BOOLEAN : Closing(v)' = Closing(v) BY <1>5, <2>2 DEF Closing
  <2>4. Ends' BY <1>7, <2>1, <2>3, Zenon DEF Ends
  <2>5. OneCloser' BY <1>5, <1>7, <2>2 DEF OneCloser
  <2> QED BY <2>4, <2>5
<1>11. Ends' /\ OneCloser' BY <1>9, <1>10
<1>12. \A g \in Files :
         /\ file'[g].type = "pipe" => file[g].type = "pipe" /\ file'[g].writable = file[g].writable
         /\ file[g].type = "pipe" /\ file'[g].ref > 0 =>
              file'[g].type = "pipe" /\ file'[g].writable = file[g].writable
  BY <1>2, <1>3, <1>4
<1> QED BY <1>5, <1>6, <1>8, <1>11, <1>12

(* A step of p that takes one reference to f away and calls fileclose(f),  *)
(* after which p is at next.                                               *)
Dropped(p, f, next) ==
  /\ pc[p] \in {"user", "exit", "bad"} /\ file[f].ref > 0
  /\ fileclose(p, f, next) /\ pi' = pi
  /\ \A q \in Procs, d \in Fds : ofile'[q][d] # None => ofile'[q][d] = ofile[q][d]
  /\ \A q \in Procs : q # p => ofile'[q] = ofile[q] /\ mine'[q] = mine[q]
  /\ mine'[p] # <<>> => next = "bad"
  /\ mine' \in MineType /\ Own(mine')
  /\ \A g \in Files :
       file'[g].ref = Cardinality(DescriptorsIn(ofile', g)) + Cardinality(CallsIn(mine', g))

(* fileclose and everything else.                                          *)
LEMMA FilecloseFInv ==
  ASSUME Counting, TypeOK, TypeOK', FInv, NEW p \in Procs, NEW f \in Files,
         NEW next \in {"user", "exit", "bad"}, Dropped(p, f, next)
  PROVE  FInv'
<1>a. /\ pc[p] \in {"user", "exit", "bad"} /\ file[f].ref > 0
      /\ fileclose(p, f, next) /\ pi' = pi
  BY DEF Dropped
<1>b. \A q \in Procs, d \in Fds : ofile'[q][d] # None => ofile'[q][d] = ofile[q][d] BY DEF Dropped
<1>c. \A q \in Procs : q # p => ofile'[q] = ofile[q] /\ mine'[q] = mine[q] BY DEF Dropped
<1>d. mine'[p] # <<>> => next = "bad" BY DEF Dropped
<1>e. mine' \in MineType /\ Own(mine') BY DEF Dropped
<1>f. \A g \in Files :
        file'[g].ref = Cardinality(DescriptorsIn(ofile', g)) + Cardinality(CallsIn(mine', g))
  BY DEF Dropped
<1>1. /\ Slots' /\ OneFile' /\ OneCloser' /\ Ends'
      /\ \A g \in Files :
           /\ file'[g].type = "pipe" => file[g].type = "pipe" /\ file'[g].writable = file[g].writable
           /\ file[g].type = "pipe" /\ file'[g].ref > 0 =>
                file'[g].type = "pipe" /\ file'[g].writable = file[g].writable
      /\ \A q \in Procs : q # p => pc'[q] = pc[q] /\ then'[q] = then[q]
      /\ pc'[p] = next \/ (pc'[p] = "close" /\ then'[p] = next)
  BY <1>a, FilecloseEnds
<1>2. Counted' BY <1>f DEF Counted, Refs, Descriptors, InPipeCall, DescriptorsIn, CallsIn
<1>3. ASSUME NEW g \in Files
      PROVE  /\ \A q \in Procs, d \in Fds : ofile'[q][d] = g => file'[g].ref > 0
             /\ Holds(mine', g) => file'[g].ref > 0
  <2>1. file'[g].ref = Cardinality(DescriptorsIn(ofile', g)) + Cardinality(CallsIn(mine', g))
    BY <1>f
  <2>3. /\ Cardinality(DescriptorsIn(ofile', g)) \in Nat
        /\ Cardinality(CallsIn(mine', g)) = IF Holds(mine', g) THEN 1 ELSE 0
        /\ \A q \in Procs, d \in Fds : ofile'[q][d] = g => Cardinality(DescriptorsIn(ofile', g)) > 0
    BY <1>e, CountFacts, Zenon
  <2> QED BY <2>1, <2>3
<1>4. \A q \in Procs, d \in Fds : ofile'[q][d] # None => ofile'[q][d] \in Files BY DEF TypeOK
<1>5. DescInv'
  <2>1. ASSUME NEW q \in Procs, NEW d \in Fds, ofile'[q][d] # None
        PROVE  pc'[q] # "none" /\ file'[ofile'[q][d]].type = "pipe"
    <3>1. ofile[q][d] # None /\ ofile[q][d] \in Files /\ ofile'[q][d] = ofile[q][d]
      BY <1>b, <1>4, <2>1
    <3>2. pc[q] # "none" /\ file[ofile[q][d]].type = "pipe" BY <3>1 DEF FInv, DescInv
    <3>3. file'[ofile[q][d]].ref > 0 BY <1>3, <3>1
    <3> QED BY <1>1, <3>1, <3>2, <3>3
  <2> QED BY <2>1 DEF DescInv
<1>6. MineInv'
  <2>1. ASSUME NEW q \in Procs
        PROVE  /\ Len(mine'[q]) <= 2
               /\ mine'[q] # <<>> => pc'[q] \in {"pipe", "fds", "bad"} \/ (pc'[q] = "close" /\ then'[q] = "bad")
               /\ pc'[q] = "fds" => Len(mine'[q]) = 2
               /\ \A k \in DOMAIN mine'[q] :
                    /\ pc'[q] = "pipe" => file'[mine'[q][k]].type = "none"
                    /\ pc'[q] = "fds" => file'[mine'[q][k]].type = "pipe"
    <3>1. Len(mine'[q]) <= 2 BY <1>e DEF MineType
    <3>2. CASE q = p BY <1>1, <1>d, <3>1, <3>2
    <3>3. CASE q # p
      <4>1. /\ mine'[q] = mine[q] /\ pc'[q] = pc[q] /\ then'[q] = then[q]
            /\ mine[q] # <<>> => pc[q] \in {"pipe", "fds", "bad"} \/ (pc[q] = "close" /\ then[q] = "bad")
            /\ pc[q] = "fds" => Len(mine[q]) = 2
        BY <1>1, <1>c, <3>3 DEF FInv, MineInv
      <4>2. ASSUME NEW k \in DOMAIN mine[q]
            PROVE  /\ pc[q] = "pipe" => file'[mine[q][k]].type = "none"
                   /\ pc[q] = "fds" => file'[mine[q][k]].type = "pipe"
        <5> DEFINE g == mine[q][k]
        <5>1. g \in Files BY DEF TypeOK
        <5>2. /\ pc[q] = "pipe" => file[g].type = "none"
              /\ pc[q] = "fds" => file[g].type = "pipe"
          BY DEF FInv, MineInv
        <5>3. Holds(mine', g) BY <4>1 DEF Holds
        <5>4. file'[g].ref > 0 BY <1>3, <5>1, <5>3
        <5>5. file'[g].type \in {"none", "pipe"} BY <5>1 DEF TypeOK, FileType
        <5> QED BY <1>1, <5>1, <5>2, <5>4, <5>5
      <4> QED BY <3>1, <4>1, <4>2
    <3> QED BY <3>2, <3>3
  <2> QED BY <2>1 DEF MineInv
<1>7. Exclusive' BY <1>e DEF Own, Exclusive
<1>8. InCall'
  <2>1. ASSUME NEW q \in Procs, NEW d \in Fds, q # p, ofile[q][d] # None
        PROVE  /\ ofile'[q][d] = ofile[q][d]
               /\ file'[ofile'[q][d]].writable = file[ofile[q][d]].writable
    <3>1. ofile'[q][d] = ofile[q][d] /\ ofile[q][d] \in Files BY <1>c, <1>4, <2>1
    <3>2. file[ofile[q][d]].type = "pipe" BY <2>1 DEF FInv, DescInv
    <3>3. file'[ofile[q][d]].ref > 0 BY <1>3, <3>1
    <3> QED BY <1>1, <3>1, <3>2, <3>3
  <2>2. pc'[p] \notin Reader \union Writer BY <1>1 DEF Reader, Writer
  <2>3. \A q \in Procs : pc'[q] \in Reader \union Writer => q # p /\ pc'[q] = pc[q] BY <1>1, <2>2
  <2> QED BY <2>1, <2>3 DEF FInv, InCall
<1> QED BY <1>1, <1>2, <1>5, <1>6, <1>7, <1>8 DEF FInv

(* A descriptor is closed: sys_close, and exit one by one.                 *)
LEMMA SysCloseFInv ==
  ASSUME Counting, TypeOK, TypeOK', FInv, NEW p \in Procs, pc[p] \in {"user", "exit"}, NEW d \in Fds, ofile[p][d] # None,
         NEW next \in {"user", "exit"}, fileclose(p, ofile[p][d], next),
         ofile' = [ofile EXCEPT ![p][d] = None], mine' = mine, pi' = pi
  PROVE  FInv'
<1> DEFINE f == ofile[p][d]
<1>1. f \in Files BY DEF TypeOK
<1>2. /\ ofile \in OfileType /\ mine \in MineType /\ Own(mine)
      /\ \A g \in Files : file[g].ref = Cardinality(DescriptorsIn(ofile, g)) + Cardinality(CallsIn(mine, g))
      /\ file[f].ref \in Nat /\ file[f].ref > 0
  BY <1>1, RefFacts
<1>3. ASSUME NEW g \in Files
      PROVE  file'[g].ref = Cardinality(DescriptorsIn(ofile', g)) + Cardinality(CallsIn(mine', g))
  <2>1. file'[g].ref = file[g].ref - (IF g = f THEN 1 ELSE 0)
    BY <1>1, <1>2 DEF fileclose, TypeOK, FileType, Unref, Last, FreeFile
  <2>2. Cardinality(DescriptorsIn(ofile', g)) = Cardinality(DescriptorsIn(ofile, g)) - (IF g = f THEN 1 ELSE 0)
    <3>1. \A q \in Procs, e \in Fds : ofile'[q][e] = IF q = p /\ e = d THEN None ELSE ofile[q][e]
      BY DEF TypeOK
    <3>2. ASSUME NEW o2, \A q \in Procs, e \in Fds : o2[q][e] = IF q = p /\ e = d THEN None ELSE ofile[q][e]
          PROVE  Cardinality(DescriptorsIn(o2, g)) = Cardinality(DescriptorsIn(ofile, g)) - (IF g = ofile[p][d] THEN 1 ELSE 0)
      BY <1>1, <3>2, DescriptorDropped
    <3> QED BY <3>1, <3>2, Zenon
  <2>3. Cardinality(DescriptorsIn(ofile, g)) \in Nat /\ Cardinality(CallsIn(mine, g)) \in Nat
    BY <1>2, DescriptorFacts, CallFacts
  <2> QED BY <1>2, <2>1, <2>2, <2>3
<1>4. \A q \in Procs, e \in Fds : ofile'[q][e] # None => ofile'[q][e] = ofile[q][e] BY DEF TypeOK
<1>5. \A q \in Procs : q # p => ofile'[q] = ofile[q] /\ mine'[q] = mine[q] BY DEF TypeOK
<1>6. mine'[p] = <<>> BY DEF FInv, MineInv
<1>7. mine' \in MineType /\ Own(mine') BY <1>2
<1>8. Dropped(p, f, next) BY <1>2, <1>3, <1>4, <1>5, <1>6, <1>7, Zenon DEF Dropped
<1> HIDE DEF f
<1> QED BY <1>1, <1>8, FilecloseFInv, Zenon

(* What pipeclose does to the ends and to the processes.                   *)
LEMMA CloseFacts ==
  ASSUME TypeOK, NEW p \in Procs, NEW w \in BOOLEAN, NEW at \in {"user", "exit", "bad"}, pipeclose(p, w, at)
  PROVE  /\ pi'.writeopen = (pi.writeopen /\ ~w) /\ pi'.readopen = (pi.readopen /\ w)
         /\ pc'[p] = at
         /\ \A q \in Procs : q # p =>
              pc'[q] = IF w /\ pc[q] = "rsleep" THEN "rlock"
                       ELSE IF ~w /\ pc[q] = "wsleep" THEN "wlock" ELSE pc[q]
<1>1. pi'.writeopen = (pi.writeopen /\ ~w) /\ pi'.readopen = (pi.readopen /\ w)
  BY Zenon DEF pipeclose, Closed, NoPipe, TypeOK, PipeType
<1>2. pc'[p] = at BY DEF pipeclose, CloseWakes, WakeReaders, WakeWriters, TypeOK
<1>3. \A q \in Procs : q # p =>
         pc'[q] = IF w /\ pc[q] = "rsleep" THEN "rlock"
                  ELSE IF ~w /\ pc[q] = "wsleep" THEN "wlock" ELSE pc[q]
  BY DEF pipeclose, CloseWakes, WakeReaders, WakeWriters, TypeOK
<1> QED BY <1>1, <1>2, <1>3

(* PipeClose is the last close of an end.                                  *)
LEMMA PipeCloseFInv ==
  ASSUME TypeOK, TypeOK', FInv, NEW p \in Procs, PipeClose(p)
  PROVE  FInv'
<1>1. PICK w \in BOOLEAN : w = end[p] BY DEF TypeOK
<1>2. PICK at \in {"user", "exit", "bad"} : at = then[p] BY DEF TypeOK
<1>3. /\ pc[p] = "close" /\ pipeclose(p, w, at) /\ UNCHANGED <<file, ofile, mine>>
      /\ end' = [end EXCEPT ![p] = FALSE] /\ then' = [then EXCEPT ![p] = "user"]
  BY <1>1, <1>2 DEF PipeClose
<1>4. pi'.writeopen = (pi.writeopen /\ ~w) /\ pi'.readopen = (pi.readopen /\ w) BY <1>3, CloseFacts
<1>5. pc'[p] = at BY <1>3, CloseFacts
<1>6. \A q \in Procs : q # p =>
        /\ \/ pc'[q] = pc[q]
           \/ pc[q] \in Reader /\ pc'[q] \in Reader
           \/ pc[q] \in Writer /\ pc'[q] \in Writer
        /\ end'[q] = end[q] /\ then'[q] = then[q]
  <2>1. \A q \in Procs : q # p =>
          pc'[q] = IF w /\ pc[q] = "rsleep" THEN "rlock"
                   ELSE IF ~w /\ pc[q] = "wsleep" THEN "wlock" ELSE pc[q]
    BY <1>3, CloseFacts
  <2>2. \A q \in Procs : q # p => end'[q] = end[q] /\ then'[q] = then[q] BY <1>3 DEF TypeOK
  <2> QED BY <2>1, <2>2 DEF Reader, Writer
<1>7. \A q \in Procs : pc'[q] = "close" <=> q # p /\ pc[q] = "close"
  BY <1>5, <1>6 DEF Reader, Writer
<1>8. Closing(w) /\ ~Referenced(w) BY <1>1, <1>3 DEF FInv, Ends, Closing
<1>9. \A b \in BOOLEAN : Referenced(b)' <=> Referenced(b) BY <1>3 DEF Referenced
<1>10. ~Closing(w)'
  <2>1. SUFFICES ASSUME NEW q \in Procs, pc'[q] = "close", end'[q] = w PROVE FALSE BY DEF Closing
  <2>2. q # p /\ pc[q] = "close" /\ end[q] = end[p] BY <1>1, <1>6, <1>7, <2>1
  <2> QED BY <1>3, <2>2 DEF FInv, OneCloser
<1>11. \A b \in BOOLEAN : b # w => (Closing(b)' <=> Closing(b)) BY <1>1, <1>6, <1>7 DEF Closing
<1>12. Ends'
  <2>1. CASE w = TRUE BY <1>4, <1>8, <1>9, <1>10, <1>11, <2>1, Zenon DEF FInv, Ends
  <2>2. CASE w = FALSE BY <1>4, <1>8, <1>9, <1>10, <1>11, <2>2, Zenon DEF FInv, Ends
  <2> QED BY <2>1, <2>2, Zenon
<1>13. Counted'
  <2>1. \A f \in Files : Descriptors(f)' = Descriptors(f) /\ InPipeCall(f)' = InPipeCall(f)
    BY <1>3 DEF Descriptors, InPipeCall
  <2>2. \A f \in Files : Refs(f)' = Refs(f) BY <2>1 DEF Refs
  <2> QED BY <1>3, <2>2 DEF FInv, Counted
<1>14. Slots' /\ OneFile' /\ Exclusive' BY <1>3 DEF FInv, Slots, OneFile, Exclusive
<1>15. OneCloser' BY <1>6, <1>7 DEF FInv, OneCloser
<1>16. \A q \in Procs : q # p => (pc'[q] = "none" <=> pc[q] = "none") BY <1>6 DEF Reader, Writer
<1>17. DescInv' BY <1>3, <1>5, <1>16 DEF FInv, DescInv
<1>18. MineInv'
  <2>1. SUFFICES ASSUME NEW q \in Procs
                 PROVE  /\ Len(mine[q]) <= 2
                        /\ mine[q] # <<>> => pc'[q] \in {"pipe", "fds", "bad"} \/ (pc'[q] = "close" /\ then'[q] = "bad")
                        /\ pc'[q] = "fds" => Len(mine[q]) = 2
                        /\ \A k \in DOMAIN mine[q] :
                             /\ pc'[q] = "pipe" => file[mine[q][k]].type = "none"
                             /\ pc'[q] = "fds" => file[mine[q][k]].type = "pipe"
    BY <1>3 DEF MineInv
  <2>2. CASE q = p
    <3>1. mine[p] # <<>> => at = "bad" BY <1>2, <1>3 DEF FInv, MineInv
    <3> QED BY <1>5, <2>2, <3>1 DEF FInv, MineInv
  <2>3. CASE q # p
    <3>1. CASE pc'[q] = pc[q] BY <1>6, <2>3, <3>1 DEF FInv, MineInv
    <3>2. CASE pc[q] \in Reader \union Writer /\ pc'[q] \in Reader \union Writer
      <4>1. mine[q] = <<>> BY <3>2 DEF FInv, MineInv, Reader, Writer
      <4> QED BY <3>2, <4>1 DEF Reader, Writer
    <3> QED BY <1>6, <2>3, <3>1, <3>2
  <2> QED BY <2>2, <2>3
<1>19. InCall'
  <2>1. \A q \in Procs : /\ pc'[q] \in Reader => pc[q] \in Reader
                         /\ pc'[q] \in Writer => pc[q] \in Writer
    <3>1. \A q \in Procs : q # p => /\ pc'[q] \in Reader => pc[q] \in Reader
                                    /\ pc'[q] \in Writer => pc[q] \in Writer
      BY <1>6 DEF Reader, Writer
    <3>2. pc'[p] \notin Reader \union Writer BY <1>5 DEF Reader, Writer
    <3> QED BY <3>1, <3>2
  <2> QED BY <1>3, <2>1 DEF FInv, InCall
<1> QED BY <1>12, <1>13, <1>14, <1>15, <1>17, <1>18, <1>19 DEF FInv

(* The types that most steps need.                                         *)
LEMMA FunTypes ==
  ASSUME TypeOK
  PROVE  /\ mine \in [Procs -> Seq(Files)]
         /\ ofile \in [Procs -> [Fds -> Files \union {None}]]
         /\ pc \in [Procs -> Places]
BY DEF TypeOK

(* What descriptors and calls of sys_pipe refer to are files.              *)
LEMMA AreFiles ==
  ASSUME TypeOK
  PROVE  /\ \A q \in Procs : \A k \in DOMAIN mine[q] : mine[q][k] \in Files
         /\ \A q \in Procs, d \in Fds : ofile[q][d] # None => ofile[q][d] \in Files
BY FunTypes

(* Steps that only move a process on in a system call.                     *)
LEMMA MovesFInv ==
  ASSUME FInv, UNCHANGED files, pi' = pi, NEW p \in Procs, \A q \in Procs : q # p => pc'[q] = pc[q],
         pc[p] # "close", pc'[p] \notin {"close", "pipe", "fds"},
         mine[p] # <<>> => pc'[p] = "bad",
         pc'[p] = "none" => \A d \in Fds : ofile[p][d] = None,
         pc'[p] \in Reader => \E d \in Fds : ofile[p][d] # None /\ ~file[ofile[p][d]].writable,
         pc'[p] \in Writer => \E d \in Fds : ofile[p][d] # None /\ file[ofile[p][d]].writable
  PROVE  FInv'
<1>1. Counted' /\ Slots' /\ OneFile' /\ Exclusive'
  <2>1. \A f \in Files : Descriptors(f)' = Descriptors(f) /\ InPipeCall(f)' = InPipeCall(f)
    BY DEF files, Descriptors, InPipeCall
  <2>2. \A f \in Files : Refs(f)' = Refs(f) BY <2>1 DEF Refs
  <2> QED BY <2>2 DEF FInv, files, Counted, Slots, OneFile, Exclusive
<1>2. Ends' /\ OneCloser'
  <2>1. \A w \in BOOLEAN : Referenced(w)' = Referenced(w) BY DEF files, Referenced
  <2>2. \A q \in Procs : pc'[q] = "close" <=> pc[q] = "close" OBVIOUS
  <2>3. \A w \in BOOLEAN : Closing(w)' = Closing(w) BY <2>2 DEF files, Closing
  <2> QED BY <2>1, <2>2, <2>3, Zenon DEF FInv, files, Ends, OneCloser
<1>3. DescInv' BY DEF FInv, files, DescInv
<1>4. MineInv'
  <2>1. \A q \in Procs : q # p => pc'[q] = pc[q] OBVIOUS
  <2>2. UNCHANGED <<mine, file, then>> BY DEF files
  <2> QED BY <2>1, <2>2 DEF FInv, MineInv
<1>5. InCall' BY DEF FInv, files, InCall
<1> QED BY <1>1, <1>2, <1>3, <1>4, <1>5 DEF FInv
-----------------------------------------------------------------------------
(* The counters stay below CountMod, and index the buffer.                 *)
LEMMA Counters ==
  ASSUME NEW k \in Int
  PROVE  Inc(k) \in 0 .. CountMod - 1 /\ k % PIPESIZE \in 0 .. PIPESIZE - 1
BY PipeAssumption DEF Inc

(* The pipe and the files keep their types.                                *)
LEMMA PipeTypes ==
  /\ NoPipe \in PipeType
  /\ [NoPipe EXCEPT !.readopen = TRUE, !.writeopen = TRUE] \in PipeType
  /\ \A r \in PipeType :
       /\ [r EXCEPT !.readopen = FALSE] \in PipeType
       /\ [r EXCEPT !.writeopen = FALSE] \in PipeType
       /\ \A k \in 0 .. PIPESIZE - 1 :
            /\ [r EXCEPT !.data[k] = None, !.nread = Inc(@)] \in PipeType
            /\ \A x \in Bytes : [r EXCEPT !.data[k] = x, !.nwrite = Inc(@)] \in PipeType
<1>1. NoPipe \in PipeType BY PipeAssumption DEF PipeType, NoPipe
<1>2. \A r \in PipeType : [r EXCEPT !.readopen = TRUE, !.writeopen = TRUE] \in PipeType
  BY Zenon DEF PipeType
<1>3. ASSUME NEW r \in PipeType
      PROVE  [r EXCEPT !.readopen = FALSE] \in PipeType /\ [r EXCEPT !.writeopen = FALSE] \in PipeType
  BY Zenon DEF PipeType
<1>4. ASSUME NEW r \in PipeType, NEW k \in 0 .. PIPESIZE - 1
      PROVE  [r EXCEPT !.data[k] = None, !.nread = Inc(@)] \in PipeType
  <2>1. Inc(r.nread) \in 0 .. CountMod - 1 BY Counters DEF PipeType
  <2> QED BY <2>1, Zenon DEF PipeType
<1>5. ASSUME NEW r \in PipeType, NEW k \in 0 .. PIPESIZE - 1, NEW x \in Bytes
      PROVE  [r EXCEPT !.data[k] = x, !.nwrite = Inc(@)] \in PipeType
  <2>1. Inc(r.nwrite) \in 0 .. CountMod - 1 BY Counters DEF PipeType
  <2> QED BY <2>1, Zenon DEF PipeType
<1> QED BY <1>1, <1>2, <1>3, <1>4, <1>5, Zenon

(* The types of the entries of ftable, and of changed ones.                *)
LEMMA FileTypes ==
  /\ FreeFile \in FileType
  /\ \A g \in FileType : g.ref \in Int /\ g.writable \in BOOLEAN
  /\ \A g \in FileType : \A x \in Int : [g EXCEPT !.ref = x] \in FileType
  /\ \A g \in FileType : \A w \in BOOLEAN : [g EXCEPT !.type = "pipe", !.writable = w] \in FileType
<1>1. FreeFile \in FileType BY DEF FileType, FreeFile
<1>2. \A g \in FileType : g.ref \in Int /\ g.writable \in BOOLEAN BY DEF FileType
<1>3. \A g \in FileType : \A x \in Int : [g EXCEPT !.ref = x] \in FileType BY DEF FileType
<1>4. \A g \in FileType : \A w \in BOOLEAN : [g EXCEPT !.type = "pipe", !.writable = w] \in FileType
  BY Zenon DEF FileType
<1> QED BY <1>1, <1>2, <1>3, <1>4, Zenon

(* Both elements of a pair of files are files.                             *)
LEMMA PairOfFiles == ASSUME NEW s \in Seq(Files), Len(s) = 2 PROVE s[1] \in Files /\ s[2] \in Files
BY SMTT(30)

(* fileclose keeps the types.                                              *)
LEMMA FilecloseType ==
  ASSUME TypeOK, NEW p \in Procs, NEW f \in Files, NEW next \in {"user", "exit", "bad"},
         fileclose(p, f, next)
  PROVE  /\ file' \in [Files -> FileType]
         /\ pc' \in [Procs -> Places]
         /\ end' \in [Procs -> BOOLEAN]
         /\ then' \in [Procs -> {"user", "exit", "bad"}]
<1>1. file' \in [Files -> FileType]
  <2>1. file[f] \in FileType /\ file \in [Files -> FileType] BY DEF TypeOK
  <2>2. file[f].ref - 1 \in Int BY <2>1 DEF FileType
  <2>3. [file[f] EXCEPT !.ref = @ - 1] \in FileType /\ FreeFile \in FileType
    BY <2>1, <2>2, FileTypes, Zenon
  <2>4. Unref(f) \in FileType BY <2>3 DEF Unref
  <2> QED BY <2>1, <2>4 DEF fileclose
<1>2. file[f].writable \in BOOLEAN BY FileTypes, Zenon DEF TypeOK
<1>3. "close" \in Places /\ next \in Places BY DEF Places
<1>4. pc' \in [Procs -> Places] BY <1>3, Zenon DEF fileclose, TypeOK, Goto
<1>5. end' \in [Procs -> BOOLEAN] BY <1>2, Zenon DEF fileclose, TypeOK
<1>6. then' \in [Procs -> {"user", "exit", "bad"}] BY Zenon DEF fileclose, TypeOK
<1> QED BY <1>1, <1>4, <1>5, <1>6

(* The variables keep their types.                                         *)
LEMMA NextTypeOK ==
  ASSUME Counting, TypeOK, MineInv, [Next]_vars
  PROVE  TypeOK'
<1> USE DEF TypeOK, Places, Reader, Writer
<1>0. pi.nread % PIPESIZE \in 0 .. PIPESIZE - 1 /\ pi.nwrite % PIPESIZE \in 0 .. PIPESIZE - 1
  BY Counters DEF PipeType
<1>1. ASSUME NEW p \in Procs, PipeLock(p), UNCHANGED files PROVE TypeOK'
  BY <1>1 DEF files, PipeLock, Goto
<1>2. ASSUME NEW p \in Procs, WriteFails(p), UNCHANGED files PROVE TypeOK'
  BY <1>2 DEF files, WriteFails, Return
<1>3. ASSUME NEW p \in Procs, WriteSleeps(p), UNCHANGED files PROVE TypeOK'
  BY <1>3, Zenon DEF files, WriteSleeps, Writing, WakeReaders
<1>4. ASSUME NEW p \in Procs, WriteReturns(p), UNCHANGED files PROVE TypeOK'
  BY <1>4, Zenon DEF files, WriteReturns, Writing, Return, WakeReaders
<1>5. ASSUME NEW p \in Procs, ReadSleeps(p), UNCHANGED files PROVE TypeOK'
  BY <1>5 DEF files, ReadSleeps, Goto
<1>6. ASSUME NEW p \in Procs, ReadKilled(p), UNCHANGED files PROVE TypeOK'
  BY <1>6 DEF files, ReadKilled, Return
<1>7. ASSUME NEW p \in Procs, ReadGo(p), UNCHANGED files PROVE TypeOK'
  BY <1>7 DEF files, ReadGo, Goto
<1>8. ASSUME NEW p \in Procs, ReadByte(p), UNCHANGED files PROVE TypeOK'
  <2>1. pi' \in PipeType BY <1>0, <1>8, PipeTypes, Zenon DEF ReadByte, Taken
  <2> QED BY <1>8, <2>1 DEF files, ReadByte
<1>9. ASSUME NEW p \in Procs, ReadCopyFails(p), UNCHANGED files PROVE TypeOK'
  <2>1. pi' \in PipeType BY <1>0, <1>9, PipeTypes, Zenon DEF ReadCopyFails, Taken
  <2> QED BY <1>9, <2>1 DEF files, ReadCopyFails, Return, WakeWriters
<1>10. ASSUME NEW p \in Procs, ReadReturns(p), UNCHANGED files PROVE TypeOK'
  BY <1>10 DEF files, ReadReturns, Return, WakeWriters
<1>11. ASSUME NEW p \in Procs, kill(p), UNCHANGED files PROVE TypeOK'
  BY <1>11 DEF files, kill, pipe
<1>12. ASSUME NEW p \in Procs, NEW x \in Bytes, WriteByte(p, x), UNCHANGED files PROVE TypeOK'
  <2>1. pi' \in PipeType BY <1>0, <1>12, PipeTypes, Zenon DEF WriteByte
  <2> QED BY <1>12, <2>1 DEF files, WriteByte
<1>13. ASSUME NEW p \in Procs, sys_pipe(p) PROVE TypeOK'
  <2>1. CASE \E f \in Files : file[f].ref = 0
    <3>1. PICK f \in Files :
            /\ file' = [file EXCEPT ![f].ref = 1]
            /\ mine' = [mine EXCEPT ![p] = Append(@, f)]
            /\ Goto(p, "pipe")
      BY <1>13, <2>1 DEF sys_pipe
    <3>2. [file[f] EXCEPT !.ref = 1] \in FileType
      <4>1. file[f] \in FileType /\ 1 \in Int OBVIOUS
      <4> QED BY <4>1, FileTypes, Zenon
    <3>3. file' \in [Files -> FileType] BY <3>1, <3>2
    <3>4. Append(mine[p], f) \in Seq(Files) OBVIOUS
    <3>5. mine' \in [Procs -> Seq(Files)] BY <3>1, <3>4
    <3> QED BY <1>13, <3>1, <3>3, <3>5 DEF sys_pipe, Goto, pipe
  <2>2. CASE ~ \E f \in Files : file[f].ref = 0
    BY <1>13, <2>2, Zenon DEF sys_pipe, Goto, pipe
  <2> QED BY <2>1, <2>2
<1>14. ASSUME NEW p \in Procs, pipealloc(p) PROVE TypeOK'
  <2>1. CASE UNCHANGED <<pi, file>> /\ Goto(p, "bad")
    BY <1>14, <2>1 DEF pipealloc, Goto
  <2>2. CASE ~(UNCHANGED <<pi, file>> /\ Goto(p, "bad"))
    <3> DEFINE a == mine[p][1]
               b == mine[p][2]
    <3>1. a \in Files /\ b \in Files
      BY <1>14, PairOfFiles DEF pipealloc
    <3>2. /\ pi' = [NoPipe EXCEPT !.readopen = TRUE, !.writeopen = TRUE]
          /\ file' = [file EXCEPT ![a] = [@ EXCEPT !.type = "pipe", !.writable = FALSE],
                                  ![b] = [@ EXCEPT !.type = "pipe", !.writable = TRUE]]
          /\ Goto(p, "fds")
      BY <1>14, <2>2 DEF pipealloc
    <3> HIDE DEF a, b
    <3>3. \A g \in FileType, w \in BOOLEAN : [g EXCEPT !.type = "pipe", !.writable = w] \in FileType
      BY FileTypes
    <3>4. file' \in [Files -> FileType] BY <3>1, <3>2, <3>3, Zenon
    <3>5. pi' \in PipeType BY <3>2, PipeTypes, PipeAssumption, Zenon
    <3> QED BY <1>14, <3>2, <3>4, <3>5, ZenonT(30) DEF pipealloc, Goto
  <2> QED BY <2>1, <2>2
<1>15. ASSUME NEW p \in Procs, PipeFds(p) PROVE TypeOK'
  <2>1. CASE UNCHANGED <<ofile, mine>> BY <1>15, <2>1, Zenon DEF PipeFds, Goto, pipe
  <2>2. CASE ~UNCHANGED <<ofile, mine>>
    <3> DEFINE d == Min(FreeFds(p))
               e == Min(FreeFds(p) \ {d})
    <3>1. /\ Cardinality(FreeFds(p)) >= 2
          /\ ofile' = [ofile EXCEPT ![p][d] = mine[p][1], ![p][e] = mine[p][2]]
          /\ mine' = [mine EXCEPT ![p] = <<>>]
          /\ Goto(p, "user")
      BY <1>15, <2>2, Zenon DEF PipeFds
    <3>2. d \in Fds /\ e \in Fds BY <3>1, TwoFds
    <3> HIDE DEF d, e
    <3>3. mine[p][1] \in Files /\ mine[p][2] \in Files
      BY <1>15, PairOfFiles DEF PipeFds, MineInv
    <3>4. ofile' \in [Procs -> [Fds -> Files \union {None}]] BY <3>1, <3>2, <3>3
    <3>5. mine' \in [Procs -> Seq(Files)] BY <3>1
    <3> QED BY <1>15, <3>1, <3>4, <3>5, Zenon DEF PipeFds, pipe, Goto
  <2> QED BY <2>1, <2>2, Zenon
<1>16. ASSUME NEW p \in Procs, PipeFails(p) PROVE TypeOK'
  <2>1. CASE mine[p] = <<>> BY <1>16, <2>1, Zenon DEF PipeFails, Goto, pipe
  <2>2. CASE mine[p] # <<>>
    <3>1. Head(mine[p]) \in Files /\ Tail(mine[p]) \in Seq(Files) BY <2>2
    <3>2. fileclose(p, Head(mine[p]), "bad") BY <1>16, <2>2 DEF PipeFails
    <3>3. mine' \in [Procs -> Seq(Files)] BY <1>16, <2>2, <3>1, ZenonT(30) DEF PipeFails
    <3> QED BY <1>16, <3>1, <3>2, <3>3, FilecloseType, Zenon DEF PipeFails, pipe
  <2> QED BY <2>1, <2>2
<1>17. ASSUME NEW p \in Procs, PipeClose(p) PROVE TypeOK'
  <2>1. pi' \in PipeType
    <3>1. /\ [pi EXCEPT !.readopen = FALSE] \in PipeType
          /\ [pi EXCEPT !.writeopen = FALSE] \in PipeType
          /\ NoPipe \in PipeType
      BY PipeTypes, PipeAssumption, Zenon
    <3>2. pi' = Closed(end[p]) BY <1>17 DEF PipeClose, pipeclose
    <3> QED BY <3>1, <3>2 DEF Closed
  <2> QED BY <1>17, <2>1 DEF PipeClose, pipeclose, CloseWakes, WakeReaders, WakeWriters
<1>18. ASSUME NEW p \in Procs, exit(p) PROVE TypeOK'
  <2>1. CASE FreeFds(p) = Fds BY <1>18, <2>1, Zenon DEF exit, Goto, pipe
  <2>2. CASE FreeFds(p) # Fds
    <3> DEFINE d == Min(Fds \ FreeFds(p))
    <3>1. d \in Fds /\ ofile[p][d] # None BY <2>2, UsedFd
    <3>2. fileclose(p, ofile[p][d], "exit") /\ ofile' = [ofile EXCEPT ![p][d] = None]
      BY <1>18, <2>2, Zenon DEF exit
    <3>3. UNCHANGED <<pipe, mine, killed>> BY <1>18, <2>2 DEF exit
    <3> HIDE DEF d
    <3>4. ofile[p][d] \in Files BY <3>1
    <3> QED BY <3>1, <3>2, <3>3, <3>4, FilecloseType DEF pipe
  <2> QED BY <2>1, <2>2, Zenon
<1>19. ASSUME NEW p \in Procs, NEW d \in Fds, sys_dup(p, d) PROVE TypeOK'
  <2>1. filedup([g \in Files |-> IF g = ofile[p][d] THEN {d} ELSE {}]) \in [Files -> FileType]
    <3>1. Cardinality({d}) = 1 /\ Cardinality({}) = 0 BY Zenon DEF Counting
    <3>2. ASSUME NEW f \in Files
          PROVE  file[f].ref + Cardinality([g \in Files |-> IF g = ofile[p][d] THEN {d} ELSE {}][f]) \in Int
      BY <3>1 DEF FileType
    <3> QED BY <3>2, FileTypes, Zenon DEF filedup
  <2>2. ofile' \in [Procs -> [Fds -> Files \union {None}]] BY <1>19, FreeFd DEF sys_dup
  <2> QED BY <1>19, <2>1, <2>2, ZenonT(30) DEF sys_dup, pipe
<1>20. ASSUME NEW p \in Procs, NEW d \in Fds, sys_close(p, d) PROVE TypeOK'
  <2>1. ofile[p][d] \in Files BY <1>20 DEF sys_close
  <2>2. fileclose(p, ofile[p][d], "user") BY <1>20 DEF sys_close
  <2> QED BY <1>20, <2>1, <2>2, FilecloseType DEF sys_close, pipe
<1>21. ASSUME NEW p \in Procs, NEW d \in Fds, NEW k \in 0 .. MaxN, sys_rw(p, d, k) PROVE TypeOK'
  BY <1>21 DEF sys_rw, files, Goto
<1>22. ASSUME NEW p \in Procs, NEW q \in Procs, fork(p, q) PROVE TypeOK'
  <2>1. filedup([f \in Files |-> {d \in Fds : ofile[p][d] = f}]) \in [Files -> FileType]
    <3>2. ASSUME NEW f \in Files
          PROVE  file[f].ref + Cardinality([g \in Files |-> {d \in Fds : ofile[p][d] = g}][f]) \in Int
      <4>1. {d \in Fds : ofile[p][d] = f} \in SUBSET Fds OBVIOUS
      <4>2. Cardinality({d \in Fds : ofile[p][d] = f}) \in Nat BY <4>1 DEF Counting, Counts
      <4> QED BY <4>2 DEF FileType
    <3> QED BY <3>2, FileTypes, Zenon DEF filedup
  <2> QED BY <1>22, <2>1, Zenon DEF fork, pipe, Goto
<1>23. ASSUME UNCHANGED vars PROVE TypeOK'
  BY <1>23, Zenon DEF vars, pipe, files
<1> QED BY <1>1, <1>2, <1>3, <1>4, <1>5, <1>6, <1>7, <1>8, <1>9, <1>10, <1>11, <1>12, <1>13,
           <1>14, <1>15, <1>16, <1>17, <1>18, <1>19, <1>20, <1>21, <1>22, <1>23, Zenon
        DEF Next, PipeStep
-----------------------------------------------------------------------------
(* Steps inside piperead and pipewrite leave the files alone.              *)
LEMMA FilesQuiet ==
  ASSUME FInv, UNCHANGED files, pi'.readopen = pi.readopen, pi'.writeopen = pi.writeopen,
         \A q \in Procs :
           \/ pc'[q] = pc[q]
           \/ pc[q] \in Reader /\ pc'[q] \in Reader \union {"user"}
           \/ pc[q] \in Writer /\ pc'[q] \in Writer \union {"user"}
  PROVE  FInv'
<1>0. \A q \in Procs :
        /\ pc'[q] = pc[q] \/ (pc[q] \in Reader \union Writer /\ pc'[q] \in Reader \union Writer \union {"user"})
        /\ pc'[q] \in Reader => pc[q] \in Reader
        /\ pc'[q] \in Writer => pc[q] \in Writer
  BY DEF Reader, Writer
<1>1. Counted' /\ Slots' /\ OneFile' /\ Exclusive'
  <2>1. \A f \in Files : Descriptors(f)' = Descriptors(f) /\ InPipeCall(f)' = InPipeCall(f)
    BY DEF files, Descriptors, InPipeCall
  <2>2. \A f \in Files : Refs(f)' = Refs(f) BY <2>1 DEF Refs
  <2> QED BY <2>2 DEF FInv, files, Counted, Slots, OneFile, Exclusive
<1>2. Ends' /\ OneCloser'
  <2>1. \A w \in BOOLEAN : Referenced(w)' = Referenced(w) BY DEF files, Referenced
  <2>2. \A q \in Procs : pc'[q] = "close" <=> pc[q] = "close" BY <1>0 DEF Reader, Writer
  <2>3. \A w \in BOOLEAN : Closing(w)' = Closing(w) BY <2>2 DEF files, Closing
  <2> QED BY <2>1, <2>2, <2>3, Zenon DEF FInv, files, Ends, OneCloser
<1>3. DescInv'
  <2>1. \A q \in Procs : pc[q] # "none" => pc'[q] # "none" BY <1>0 DEF Reader, Writer
  <2> QED BY <2>1 DEF FInv, files, DescInv
<1>4. MineInv'
  <2>1. \A q \in Procs : pc[q] \in {"pipe", "fds", "bad", "close"} \/ pc'[q] \in {"pipe", "fds", "bad", "close"}
                           => pc'[q] = pc[q] BY <1>0 DEF Reader, Writer
  <2> QED BY <2>1 DEF FInv, files, MineInv
<1>5. InCall'
  BY <1>0 DEF FInv, files, InCall
<1> QED BY <1>1, <1>2, <1>3, <1>4, <1>5 DEF FInv

(* piperead, pipewrite and kill keep the invariant.                        *)
LEMMA PipeStepFInv ==
  ASSUME TypeOK, FInv, NEW p \in Procs, PipeStep(p) \/ kill(p), UNCHANGED files
  PROVE  FInv'
<1> USE DEF Reader, Writer
<1>1. CASE PipeLock(p) BY <1>1, FilesQuiet DEF TypeOK, PipeType, PipeLock, Goto
<1>2. CASE WriteFails(p) BY <1>2, FilesQuiet DEF TypeOK, PipeType, WriteFails, Return
<1>3. CASE WriteSleeps(p) BY <1>3, FilesQuiet, Zenon DEF TypeOK, PipeType, WriteSleeps, Writing,
                             WakeReaders
<1>4. CASE WriteReturns(p) BY <1>4, FilesQuiet DEF TypeOK, PipeType, WriteReturns, Writing,
                              Return, WakeReaders
<1>5. CASE ReadSleeps(p)
  <2>1. \A q \in Procs : pc'[q] = pc[q] \/ (pc[q] \in Reader /\ pc'[q] \in Reader \union {"user"})
    BY <1>5 DEF TypeOK, ReadSleeps, Goto
  <2>2. pi' = pi BY <1>5 DEF ReadSleeps
  <2> QED BY <2>1, <2>2, FilesQuiet
<1>6. CASE ReadKilled(p)
  <2>1. \A q \in Procs : pc'[q] = pc[q] \/ (pc[q] \in Reader /\ pc'[q] \in Reader \union {"user"})
    BY <1>6 DEF TypeOK, ReadKilled, Return
  <2>2. pi' = pi BY <1>6 DEF ReadKilled
  <2> QED BY <2>1, <2>2, FilesQuiet
<1>7. CASE ReadGo(p) BY <1>7, FilesQuiet DEF TypeOK, PipeType, ReadGo, Goto
<1>8. CASE ReadByte(p) BY <1>8, FilesQuiet DEF TypeOK, PipeType, ReadByte, Taken
<1>9. CASE ReadCopyFails(p) BY <1>9, FilesQuiet DEF TypeOK, PipeType, ReadCopyFails, Taken,
                               Return, WakeWriters
<1>10. CASE ReadReturns(p) BY <1>10, FilesQuiet DEF TypeOK, PipeType, ReadReturns, Return,
                              WakeWriters
<1>11. CASE kill(p) BY <1>11, FilesQuiet DEF TypeOK, PipeType, kill, pipe
<1>12. CASE \E x \in Bytes : WriteByte(p, x) BY <1>12, FilesQuiet DEF TypeOK, PipeType, WriteByte
<1> QED BY <1>1, <1>2, <1>3, <1>4, <1>5, <1>6, <1>7, <1>8, <1>9, <1>10, <1>11, <1>12 DEF PipeStep
=============================================================================
