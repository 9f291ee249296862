--------------------------- MODULE FileTableSteps ---------------------------
(***************************************************************************)
(* The invariant of the file table (module FileTableProofs), kept by the   *)
(* steps of the system calls: pipe, dup, fork, exit, read and write, and   *)
(* by every step.                                                          *)
(***************************************************************************)
EXTENDS FileTableProofs

(* The time that the provers have for a step.                              *)
USE SMTT(10), ZenonT(20), SMTT(60)

(* PipeFails takes its files one by one.                                   *)
LEMMA PipeFailsFInv ==
  ASSUME Counting, TypeOK, TypeOK', FInv, NEW p \in Procs, PipeFails(p)
  PROVE  FInv'
<1>1. CASE mine[p] = <<>>
  <2>1. pc'[p] = "user" /\ \A q \in Procs : q # p => pc'[q] = pc[q]
    BY <1>1 DEF PipeFails, TypeOK, Goto
  <2>2. UNCHANGED files /\ pi' = pi /\ pc[p] = "bad" BY <1>1 DEF PipeFails, files, pipe
  <2>3. "user" \notin Reader \union Writer BY DEF Reader, Writer
  <2> QED BY <1>1, <2>1, <2>2, <2>3, MovesFInv
<1>2. CASE mine[p] # <<>>
  <2> DEFINE f == Head(mine[p])
  <2>1. /\ ofile \in OfileType /\ mine \in MineType /\ Own(mine)
        /\ \A g \in Files :
             /\ file[g].ref = Cardinality(DescriptorsIn(ofile, g)) + (IF Holds(mine, g) THEN 1 ELSE 0)
             /\ file[g].ref \in Nat
             /\ Holds(mine, g) => file[g].ref > 0
    BY RefFacts
  <2>2. mine[p] \in Seq(Files) /\ Len(mine[p]) \in Nat /\ Len(mine[p]) > 0 /\ Len(mine[p]) <= 2
    BY <1>2, <2>1 DEF MineType
  <2>3. /\ f = mine[p][1] /\ f \in Files /\ 1 \in DOMAIN mine[p]
        /\ DOMAIN mine[p] = 1 .. Len(mine[p])
        /\ Len(Tail(mine[p])) = Len(mine[p]) - 1 /\ Tail(mine[p]) \in Seq(Files)
        /\ DOMAIN Tail(mine[p]) = 1 .. Len(mine[p]) - 1
        /\ \A k \in 1 .. Len(mine[p]) - 1 : Tail(mine[p])[k] = mine[p][k + 1]
    BY <2>2
  <2>4. /\ pc[p] = "bad" /\ fileclose(p, f, "bad") /\ pi' = pi /\ ofile' = ofile
        /\ mine' = [mine EXCEPT ![p] = Tail(mine[p])]
    BY <1>2 DEF PipeFails, pipe
  <2> HIDE DEF f
  <2>5. mine'[p] = Tail(mine[p]) /\ \A q \in Procs : q # p => mine'[q] = mine[q] BY <2>4, FunTypes
  <2>6. mine' \in MineType
    <3>1. \A q \in Procs : Len(mine'[q]) <= 2 BY <2>1, <2>2, <2>3, <2>5 DEF MineType
    <3>2. mine' \in [Procs -> Seq(Files)] BY DEF TypeOK
    <3> QED BY <3>1, <3>2 DEF MineType
  <2>7. ASSUME NEW q \in Procs, NEW j \in DOMAIN mine'[q]
        PROVE  \E k \in DOMAIN mine[q] : mine'[q][j] = mine[q][k] /\ k = IF q = p THEN j + 1 ELSE j
    <3>1. CASE q # p BY <2>5, <2>7, <3>1
    <3>2. CASE q = p
      <4>1. j \in 1 .. Len(mine[p]) - 1 BY <2>3, <2>5, <2>7, <3>2, Zenon
      <4>2. j + 1 \in DOMAIN mine[p] BY <2>2, <2>3, <4>1
      <4>3. mine'[p][j] = mine[p][j + 1] BY <2>3, <2>5, <4>1
      <4> QED BY <3>2, <4>2, <4>3
    <3> QED BY <3>1, <3>2
  <2>8. Own(mine')
    <3>1. SUFFICES ASSUME NEW q \in Procs, NEW r \in Procs, NEW j \in DOMAIN mine'[q], NEW l \in DOMAIN mine'[r],
                          mine'[q][j] = mine'[r][l]
                   PROVE  q = r /\ j = l
      BY DEF Own
    <3>2. PICK k \in DOMAIN mine[q] : mine'[q][j] = mine[q][k] /\ k = IF q = p THEN j + 1 ELSE j
      BY <2>7
    <3>3. PICK m \in DOMAIN mine[r] : mine'[r][l] = mine[r][m] /\ m = IF r = p THEN l + 1 ELSE l
      BY <2>7
    <3>4. mine[q][k] = mine[r][m] BY <3>1, <3>2, <3>3, Zenon
    <3>5. q = r /\ k = m BY <2>1, <3>4 DEF Own
    <3>6. mine'[q] \in Seq(Files) /\ mine'[r] \in Seq(Files) BY DEF TypeOK
    <3>7. j \in Int /\ l \in Int BY <3>6
    <3> QED BY <3>2, <3>3, <3>5, <3>7
  <2>9. ASSUME NEW g \in Files PROVE Holds(mine', g) <=> Holds(mine, g) /\ g # f
    <3>1. ASSUME Holds(mine', g) PROVE Holds(mine, g) /\ g # f
      <4>1. PICK q \in Procs : \E j \in DOMAIN mine'[q] : mine'[q][j] = g BY <3>1 DEF Holds
      <4>2. PICK j \in DOMAIN mine'[q] : mine'[q][j] = g BY <4>1
      <4>3. PICK k \in DOMAIN mine[q] : mine'[q][j] = mine[q][k] /\ k = IF q = p THEN j + 1 ELSE j
        BY <2>7
      <4>4. g = f => q = p /\ k = 1
        <5>1. mine[q][k] = g BY <4>2, <4>3
        <5>2. g = f => mine[q][k] = mine[p][1] BY <2>3, <5>1
        <5> QED BY <2>1, <2>3, <5>2 DEF Own
      <4>5. q = p => j >= 1 BY <2>2, <2>3, <2>5
      <4>6. j \in Int BY DEF TypeOK
      <4>7. g # f BY <4>3, <4>4, <4>5, <4>6
      <4> QED BY <4>2, <4>3, <4>7 DEF Holds
    <3>2. ASSUME Holds(mine, g), g # f PROVE Holds(mine', g)
      <4>1. PICK q \in Procs : \E j \in DOMAIN mine[q] : mine[q][j] = g BY <3>2 DEF Holds
      <4>2. PICK j \in DOMAIN mine[q] : mine[q][j] = g BY <4>1
      <4>3. CASE q # p BY <2>5, <4>2, <4>3 DEF Holds
      <4>4. CASE q = p
        <5>1. j # 1 BY <2>3, <3>2, <4>2, <4>4
        <5>2. j \in 1 .. Len(mine[p]) BY <2>3, <4>4
        <5>3. j - 1 \in DOMAIN mine'[p] BY <2>2, <2>3, <2>5, <5>1, <5>2
        <5>4. Tail(mine[p])[j - 1] = mine[p][(j - 1) + 1] /\ (j - 1) + 1 = j
          BY <2>2, <2>3, <5>1, <5>2
        <5>5. mine'[p][j - 1] = g BY <2>5, <4>2, <4>4, <5>4, ZenonT(30)
        <5> QED BY <5>3, <5>5 DEF Holds
      <4> QED BY <4>3, <4>4
    <3> QED BY <3>1, <3>2
  <2>10. Holds(mine, f) BY <2>3 DEF Holds
  <2>11. ASSUME NEW g \in Files
         PROVE  file'[g].ref = Cardinality(DescriptorsIn(ofile', g)) + Cardinality(CallsIn(mine', g))
    <3>1. file'[g].ref = file[g].ref - (IF g = f THEN 1 ELSE 0)
      BY <2>1, <2>3, <2>4, <2>10 DEF fileclose, TypeOK, FileType, Unref, Last, FreeFile
    <3>2. Cardinality(DescriptorsIn(ofile', g)) \in Nat /\ Cardinality(CallsIn(mine', g)) = IF Holds(mine', g) THEN 1 ELSE 0
      BY <2>6, <2>8, CountFacts, Zenon
    <3>3. DescriptorsIn(ofile', g) = DescriptorsIn(ofile, g) BY <2>4
    <3> QED BY <2>1, <2>9, <2>10, <3>1, <3>2, <3>3
  <2>12. \A q \in Procs, d \in Fds : ofile'[q][d] # None => ofile'[q][d] = ofile[q][d] BY <2>4
  <2>13. \A q \in Procs : q # p => ofile'[q] = ofile[q] /\ mine'[q] = mine[q] BY <2>4, <2>5
  <2>14. file[f].ref > 0 BY <2>1, <2>3, <2>10
  <2>15. Dropped(p, f, "bad")
    BY <2>4, <2>6, <2>8, <2>11, <2>12, <2>13, <2>14, Zenon DEF Dropped
  <2> QED BY <2>3, <2>15, FilecloseFInv, Zenon
<1> QED BY <1>1, <1>2

(* filedup adds references to files that have some already.                *)
LEMMA FiledupFInv ==
  ASSUME Counting, TypeOK, TypeOK', FInv, UNCHANGED <<mine, end, then>>, pi' = pi,
         NEW fs, file' = filedup(fs), \A g \in Files : Cardinality(fs[g]) \in Nat,
         \A g \in Files : Cardinality(fs[g]) > 0 => file[g].ref > 0,
         \A g \in Files :
           Cardinality(DescriptorsIn(ofile', g)) = Cardinality(DescriptorsIn(ofile, g)) + Cardinality(fs[g]),
         \A q \in Procs, d \in Fds :
           /\ ofile'[q][d] # None =>
                /\ pc'[q] # "none"
                /\ \E r \in Procs, e \in Fds : ofile[r][e] = ofile'[q][d]
           /\ ofile[q][d] # None => ofile'[q][d] = ofile[q][d],
         \A q \in Procs : pc'[q] = pc[q] \/ (pc[q] = "none" /\ pc'[q] = "user")
  PROVE  FInv'
<1>1. /\ ofile \in OfileType /\ mine \in MineType /\ Own(mine)
      /\ \A f \in Files :
           /\ file[f].ref = Cardinality(DescriptorsIn(ofile, f)) + Cardinality(CallsIn(mine, f))
           /\ file[f].ref \in Nat
  BY RefFacts
<1>2. \A g \in Files :
        /\ file'[g].type = file[g].type /\ file'[g].writable = file[g].writable
        /\ file'[g].ref = file[g].ref + Cardinality(fs[g])
  BY DEF TypeOK, FileType, filedup
<1>3. \A g \in Files : file'[g].ref > 0 <=> file[g].ref > 0 BY <1>1, <1>2
<1>4. Counted'
  <2>1. ASSUME NEW g \in Files
        PROVE  file'[g].ref = Cardinality(DescriptorsIn(ofile', g)) + Cardinality(CallsIn(mine', g))
    <3>1. CallsIn(mine', g) = CallsIn(mine, g) OBVIOUS
    <3>2. Cardinality(DescriptorsIn(ofile, g)) \in Nat BY DescriptorFacts
    <3>3. Cardinality(CallsIn(mine, g)) \in Nat BY <1>1, CallFacts
    <3> QED BY <1>1, <1>2, <3>1, <3>2, <3>3
  <2> QED BY <2>1 DEF Counted, Refs, Descriptors, InPipeCall, DescriptorsIn, CallsIn
<1>5. Slots' /\ OneFile' /\ Exclusive' BY <1>2, <1>3 DEF FInv, Slots, OneFile, Exclusive
<1>6. \A q \in Procs : pc'[q] = "close" <=> pc[q] = "close" OBVIOUS
<1>7. \A w \in BOOLEAN : Referenced(w)' <=> Referenced(w) BY <1>2, <1>3 DEF Referenced
<1>8. \A w \in BOOLEAN : Closing(w)' <=> Closing(w) BY <1>6 DEF Closing
<1>9. Ends' /\ OneCloser' BY <1>6, <1>7, <1>8, Zenon DEF FInv, Ends, OneCloser
<1>10. DescInv'
  <2>1. SUFFICES ASSUME NEW q \in Procs, NEW d \in Fds, ofile'[q][d] # None
                 PROVE  pc'[q] # "none" /\ file'[ofile'[q][d]].type = "pipe"
    BY DEF DescInv
  <2>2. PICK r \in Procs, e \in Fds : ofile[r][e] = ofile'[q][d] BY <2>1
  <2>3. ofile[r][e] \in Files BY <2>1, <2>2, AreFiles
  <2>4. file[ofile[r][e]].type = "pipe" BY <2>1, <2>2 DEF FInv, DescInv
  <2> QED BY <1>2, <2>1, <2>2, <2>3, <2>4
<1>11. MineInv'
  <2>1. SUFFICES ASSUME NEW q \in Procs
                 PROVE  /\ Len(mine[q]) <= 2
                        /\ mine[q] # <<>> => pc'[q] \in {"pipe", "fds", "bad"} \/ (pc'[q] = "close" /\ then[q] = "bad")
                        /\ pc'[q] = "fds" => Len(mine[q]) = 2
                        /\ \A k \in DOMAIN mine[q] :
                             /\ pc'[q] = "pipe" => file'[mine[q][k]].type = "none"
                             /\ pc'[q] = "fds" => file'[mine[q][k]].type = "pipe"
    BY DEF MineInv
  <2>2. \A k \in DOMAIN mine[q] : mine[q][k] \in Files BY AreFiles
  <2> QED BY <1>2, <2>2 DEF FInv, MineInv
<1>12. InCall'
  <2>1. SUFFICES ASSUME NEW q \in Procs
                 PROVE  /\ pc'[q] \in Reader => \E d \in Fds : ofile'[q][d] # None /\ ~file'[ofile'[q][d]].writable
                        /\ pc'[q] \in Writer => \E d \in Fds : ofile'[q][d] # None /\ file'[ofile'[q][d]].writable
    BY DEF InCall
  <2>2. pc'[q] \in Reader \union Writer => pc'[q] = pc[q] BY DEF Reader, Writer
  <2>3. \A d \in Fds : ofile[q][d] # None =>
          ofile'[q][d] = ofile[q][d] /\ file'[ofile[q][d]].writable = file[ofile[q][d]].writable
    <3>1. \A d \in Fds : ofile[q][d] # None => ofile[q][d] \in Files BY AreFiles
    <3> QED BY <1>2, <3>1
  <2> QED BY <2>2, <2>3 DEF FInv, InCall
<1> QED BY <1>4, <1>5, <1>9, <1>10, <1>11, <1>12 DEF FInv

(* sys_dup adds one reference.                                             *)
LEMMA SysDupFInv ==
  ASSUME Counting, TypeOK, TypeOK', FInv, NEW p \in Procs, NEW d \in Fds, sys_dup(p, d)
  PROVE  FInv'
<1> DEFINE f == ofile[p][d]
<1> DEFINE m == Min(FreeFds(p))
<1> DEFINE fs == [g \in Files |-> IF g = f THEN {d} ELSE {}]
<1>1. /\ f # None /\ pc[p] = "user" /\ pc' = pc /\ UNCHANGED <<mine, end, then>> /\ pi' = pi
      /\ file' = filedup(fs) /\ FreeFds(p) # {} /\ ofile' = [ofile EXCEPT ![p][m] = f]
  BY DEF sys_dup, pipe, User
<1>2. f \in Files BY <1>1, AreFiles
<1>3. m \in Fds /\ ofile[p][m] = None BY <1>1, FreeFd
<1>4. \A g \in Files : Cardinality(fs[g]) = IF g = f THEN 1 ELSE 0 BY Zenon DEF Counting
<1>5. \A g \in Files : Cardinality(fs[g]) > 0 => file[g].ref > 0
  <2>1. file[f].ref > 0 BY <1>2, RefFacts
  <2> QED BY <1>4, <2>1
<1> HIDE DEF f, m, fs
<1>6. ofile[p][d] = f BY DEF f
<1>7. \A q \in Procs, e \in Fds : ofile'[q][e] = IF q = p /\ e = m THEN f ELSE ofile[q][e]
  BY <1>1, <1>3, FunTypes
<1>8. ASSUME NEW g \in Files
      PROVE  Cardinality(DescriptorsIn(ofile', g)) = Cardinality(DescriptorsIn(ofile, g)) + Cardinality(fs[g])
  <2>1. ASSUME NEW o2, \A q \in Procs, e \in Fds : o2[q][e] = IF q = p /\ e = m THEN f ELSE ofile[q][e]
        PROVE  Cardinality(DescriptorsIn(o2, g)) = Cardinality(DescriptorsIn(ofile, g)) + (IF g = f THEN 1 ELSE 0)
    BY <1>2, <1>3, <2>1, DescriptorAdded
  <2>2. Cardinality(DescriptorsIn(ofile', g)) = Cardinality(DescriptorsIn(ofile, g)) + (IF g = f THEN 1 ELSE 0)
    BY <1>7, <2>1, Zenon
  <2> QED BY <1>4, <2>2
<1>9. \A q \in Procs, e \in Fds :
        /\ ofile'[q][e] # None =>
             /\ pc'[q] # "none"
             /\ \E r \in Procs, k \in Fds : ofile[r][k] = ofile'[q][e]
        /\ ofile[q][e] # None => ofile'[q][e] = ofile[q][e]
  BY <1>1, <1>3, <1>6, <1>7 DEF FInv, DescInv
<1>10. \A g \in Files : Cardinality(fs[g]) \in Nat BY <1>4
<1>11. \A q \in Procs : pc'[q] = pc[q] \/ (pc[q] = "none" /\ pc'[q] = "user") BY <1>1
<1> QED BY <1>1, <1>5, <1>8, <1>9, <1>10, <1>11, FiledupFInv, Zenon

(* fork adds a reference for every descriptor of the parent.               *)
LEMMA ForkFInv ==
  ASSUME Counting, TypeOK, TypeOK', FInv, NEW p \in Procs, NEW q \in Procs, fork(p, q)
  PROVE  FInv'
<1> DEFINE fs == [g \in Files |-> {d \in Fds : ofile[p][d] = g}]
<1>1. /\ pc[p] = "user" /\ pc[q] = "none" /\ pc' = [pc EXCEPT ![q] = "user"]
      /\ UNCHANGED <<mine, end, then>> /\ pi' = pi
      /\ file' = filedup(fs) /\ ofile' = [ofile EXCEPT ![q] = ofile[p]]
  BY DEF fork, pipe, User, Goto
<1>2. \A d \in Fds : ofile[q][d] = None BY <1>1 DEF FInv, DescInv
<1>3. \A g \in Files : fs[g] = {d \in Fds : ofile[p][d] = g} OBVIOUS
<1> HIDE DEF fs
<1>4. \A g \in Files : fs[g] \in SUBSET Fds BY <1>3
<1>5. \A g \in Files : Cardinality(fs[g]) \in Nat BY <1>4 DEF Counting, Counts
<1>6. ASSUME NEW g \in Files, Cardinality(fs[g]) > 0 PROVE file[g].ref > 0
  <2>1. fs[g] # {} BY <1>6 DEF Counting
  <2>2. PICK d \in Fds : ofile[p][d] = g BY <1>3, <2>1
  <2> QED BY <2>2, RefFacts
<1>7. \A r \in Procs, e \in Fds : ofile'[r][e] = IF r = q THEN ofile[p][e] ELSE ofile[r][e]
  BY <1>1, FunTypes
<1>8. ASSUME NEW g \in Files
      PROVE  Cardinality(DescriptorsIn(ofile', g)) = Cardinality(DescriptorsIn(ofile, g)) + Cardinality(fs[g])
  <2>1. ASSUME NEW o2, \A r \in Procs, e \in Fds : o2[r][e] = IF r = q THEN ofile[p][e] ELSE ofile[r][e]
        PROVE  Cardinality(DescriptorsIn(o2, g))
                 = Cardinality(DescriptorsIn(ofile, g)) + Cardinality({d \in Fds : ofile[p][d] = g})
    BY <1>2, <2>1, DescriptorsCopied
  <2>2. Cardinality(DescriptorsIn(ofile', g))
          = Cardinality(DescriptorsIn(ofile, g)) + Cardinality({d \in Fds : ofile[p][d] = g})
    BY <1>7, <2>1, Zenon
  <2> QED BY <1>3, <2>2
<1>9. \A r \in Procs : pc'[r] = pc[r] \/ (pc[r] = "none" /\ pc'[r] = "user") BY <1>1 DEF TypeOK
<1>10. \A r \in Procs, e \in Fds :
         /\ ofile'[r][e] # None =>
              /\ pc'[r] # "none"
              /\ \E s \in Procs, k \in Fds : ofile[s][k] = ofile'[r][e]
         /\ ofile[r][e] # None => ofile'[r][e] = ofile[r][e]
  <2>1. pc'[q] = "user" BY <1>1 DEF TypeOK
  <2> QED BY <1>2, <1>7, <1>9, <2>1 DEF FInv, DescInv
<1>11. \A g \in Files : Cardinality(fs[g]) > 0 => file[g].ref > 0 BY <1>6
<1>12. \A g \in Files :
         Cardinality(DescriptorsIn(ofile', g)) = Cardinality(DescriptorsIn(ofile, g)) + Cardinality(fs[g])
  BY <1>8
<1> QED BY <1>1, <1>5, <1>9, <1>10, <1>11, <1>12, FiledupFInv, Zenon

(* exit closes the descriptors, then the process is gone.                  *)
LEMMA ExitFInv ==
  ASSUME Counting, TypeOK, TypeOK', FInv, NEW p \in Procs, exit(p)
  PROVE  FInv'
<1>1. CASE FreeFds(p) = Fds
  <2>1. /\ pc[p] \in {"user", "exit"} /\ pc'[p] = "none" /\ \A q \in Procs : q # p => pc'[q] = pc[q]
        /\ UNCHANGED files /\ pi' = pi
    BY <1>1 DEF exit, TypeOK, Goto, files, pipe
  <2>2. mine[p] = <<>> BY <2>1 DEF FInv, MineInv
  <2>3. \A d \in Fds : ofile[p][d] = None BY <1>1 DEF FreeFds
  <2>4. "none" \notin Reader \union Writer BY DEF Reader, Writer
  <2> QED BY <2>1, <2>2, <2>3, <2>4, MovesFInv
<1>2. CASE FreeFds(p) # Fds
  <2> DEFINE d == Min(Fds \ FreeFds(p))
  <2>1. d \in Fds /\ ofile[p][d] # None BY <1>2, UsedFd
  <2>2. /\ pc[p] \in {"user", "exit"} /\ fileclose(p, ofile[p][d], "exit")
        /\ ofile' = [ofile EXCEPT ![p][d] = None] /\ mine' = mine /\ pi' = pi
    BY <1>2 DEF exit, pipe
  <2> HIDE DEF d
  <2> QED BY <2>1, <2>2, SysCloseFInv, Zenon
<1> QED BY <1>1, <1>2

(* sys_read and sys_write enter the pipe.                                  *)
LEMMA SysRwFInv ==
  ASSUME TypeOK, FInv, NEW p \in Procs, NEW d \in Fds, NEW k, sys_rw(p, d, k)
  PROVE  FInv'
<1>1. /\ pc[p] = "user" /\ ofile[p][d] # None /\ UNCHANGED files /\ pi' = pi
      /\ pc'[p] = IF file[ofile[p][d]].writable THEN "wlock" ELSE "rlock"
      /\ \A q \in Procs : q # p => pc'[q] = pc[q]
  BY DEF sys_rw, User, Goto, TypeOK
<1>2. mine[p] = <<>> BY <1>1 DEF FInv, MineInv
<1>3. /\ pc'[p] \in Reader => \E e \in Fds : ofile[p][e] # None /\ ~file[ofile[p][e]].writable
      /\ pc'[p] \in Writer => \E e \in Fds : ofile[p][e] # None /\ file[ofile[p][e]].writable
  BY <1>1 DEF Reader, Writer
<1>4. pc'[p] \notin {"close", "pipe", "fds", "none"} BY <1>1
<1> QED BY <1>1, <1>2, <1>3, <1>4, MovesFInv

(* sys_pipe takes a free slot, or finds none.                              *)
LEMMA SysPipeFInv ==
  ASSUME Counting, TypeOK, TypeOK', FInv, NEW p \in Procs, sys_pipe(p)
  PROVE  FInv'
<1>0. /\ pc[p] \in {"user", "pipe"} /\ pi' = pi /\ UNCHANGED <<ofile, end, then>> /\ Len(mine[p]) < 2
  BY DEF sys_pipe, User, pipe
<1>1. CASE ~ \E f \in Files : file[f].ref = 0
  <2>1. /\ pc'[p] = "bad" /\ \A q \in Procs : q # p => pc'[q] = pc[q]
    BY <1>1 DEF sys_pipe, TypeOK, Goto
  <2>2. UNCHANGED files BY <1>1 DEF sys_pipe, files
  <2>3. "bad" \notin Reader \union Writer BY DEF Reader, Writer
  <2> QED BY <1>0, <2>1, <2>2, <2>3, MovesFInv
<1>2. CASE \E f \in Files : file[f].ref = 0
  <2>1. PICK f \in Files : /\ file[f].ref = 0 /\ file' = [file EXCEPT ![f].ref = 1]
                           /\ mine' = [mine EXCEPT ![p] = Append(mine[p], f)] /\ pc' = [pc EXCEPT ![p] = "pipe"]
    BY <1>2 DEF sys_pipe, Goto
  <2>2. /\ ofile \in OfileType /\ mine \in MineType /\ Own(mine)
        /\ \A g \in Files :
             /\ file[g].ref = Cardinality(DescriptorsIn(ofile, g)) + (IF Holds(mine, g) THEN 1 ELSE 0)
             /\ file[g].ref \in Nat
    BY RefFacts
  <2>3. ~Holds(mine, f) /\ \A q \in Procs, d \in Fds : ofile[q][d] # f
    <3>1. Cardinality(DescriptorsIn(ofile, f)) \in Nat BY DescriptorFacts
    <3>2. ~Holds(mine, f) BY <2>1, <2>2, <3>1
    <3>3. Cardinality(DescriptorsIn(ofile, f)) = 0 BY <2>1, <2>2, <3>1, <3>2
    <3>4. \A q \in Procs, d \in Fds : ofile[q][d] = f => Cardinality(DescriptorsIn(ofile, f)) > 0
      BY DescriptorFacts
    <3> QED BY <3>2, <3>3, <3>4
  <2>4. file[f].type = "none" BY <2>1 DEF FInv, Slots, TypeOK, FileType
  <2>5. /\ file'[f].type = "none" /\ file'[f].ref = 1
        /\ \A g \in Files : g # f => file'[g] = file[g]
        /\ \A g \in Files : file'[g].type = file[g].type /\ file'[g].writable = file[g].writable
    BY <2>1, <2>4 DEF TypeOK, FileType
  <2>6. /\ pc'[p] = "pipe" /\ \A q \in Procs : q # p => pc'[q] = pc[q] /\ mine'[q] = mine[q]
        /\ mine'[p] = Append(mine[p], f)
    BY <2>1, FunTypes
  <2>7. /\ mine[p] \in Seq(Files) /\ Len(mine[p]) \in Nat /\ DOMAIN mine[p] = 1 .. Len(mine[p])
        /\ Len(mine'[p]) = Len(mine[p]) + 1 /\ DOMAIN mine'[p] = 1 .. Len(mine[p]) + 1
        /\ mine'[p][Len(mine[p]) + 1] = f
        /\ \A k \in 1 .. Len(mine[p]) : mine'[p][k] = mine[p][k]
    BY <2>6, FunTypes
  <2>8. mine' \in MineType
    <3>1. \A q \in Procs : Len(mine'[q]) <= 2 BY <1>0, <2>2, <2>6, <2>7 DEF MineType
    <3>2. mine' \in [Procs -> Seq(Files)] BY DEF TypeOK
    <3> QED BY <3>1, <3>2 DEF MineType
  <2>9. ASSUME NEW q \in Procs, NEW j \in DOMAIN mine'[q]
        PROVE  \/ j \in DOMAIN mine[q] /\ mine'[q][j] = mine[q][j] /\ mine'[q][j] # f
               \/ q = p /\ j = Len(mine[p]) + 1 /\ mine'[q][j] = f
    <3>1. CASE q # p BY <2>3, <2>6, <3>1 DEF Holds
    <3>2. CASE q = p
      <4>1. j \in 1 .. Len(mine[p]) + 1 BY <2>7, <3>2
      <4>2. CASE j = Len(mine[p]) + 1 BY <2>7, <3>2, <4>2
      <4>3. CASE j \in 1 .. Len(mine[p]) BY <2>3, <2>7, <3>2, <4>3 DEF Holds
      <4> QED BY <2>7, <4>1, <4>2, <4>3
    <3> QED BY <3>1, <3>2
  <2>10. Own(mine')
    <3>1. SUFFICES ASSUME NEW q \in Procs, NEW r \in Procs, NEW j \in DOMAIN mine'[q], NEW l \in DOMAIN mine'[r],
                          mine'[q][j] = mine'[r][l]
                   PROVE  q = r /\ j = l
      BY DEF Own
    <3>2. CASE mine'[q][j] = f BY <2>9, <3>1, <3>2, Zenon
    <3>3. CASE mine'[q][j] # f
      <4>1. j \in DOMAIN mine[q] /\ mine'[q][j] = mine[q][j] BY <2>9, <3>3
      <4>2. l \in DOMAIN mine[r] /\ mine'[r][l] = mine[r][l] BY <2>9, <3>1, <3>3
      <4>3. mine[q][j] = mine[r][l] BY <3>1, <4>1, <4>2, Zenon
      <4> QED BY <2>2, <4>1, <4>2, <4>3 DEF Own
    <3> QED BY <3>2, <3>3
  <2>11. ASSUME NEW g \in Files PROVE Holds(mine', g) <=> Holds(mine, g) \/ g = f
    <3>1. Holds(mine', g) => Holds(mine, g) \/ g = f BY <2>9 DEF Holds
    <3>2. Holds(mine', f) 
      <4>1. Len(mine[p]) + 1 \in DOMAIN mine'[p] BY <2>7
      <4> QED BY <2>7, <4>1 DEF Holds
    <3>3. ASSUME Holds(mine, g) PROVE Holds(mine', g)
      <4>1. PICK q \in Procs : \E j \in DOMAIN mine[q] : mine[q][j] = g BY <3>3 DEF Holds
      <4>2. PICK j \in DOMAIN mine[q] : mine[q][j] = g BY <4>1
      <4>3. j \in DOMAIN mine'[q] /\ mine'[q][j] = mine[q][j]
        <5>1. CASE q # p BY <2>6, <5>1
        <5>2. CASE q = p BY <2>7, <5>2
        <5> QED BY <5>1, <5>2
      <4> QED BY <4>2, <4>3 DEF Holds
    <3> QED BY <3>1, <3>2, <3>3
  <2>12. Counted'
    <3>1. ASSUME NEW g \in Files
          PROVE  file'[g].ref = Cardinality(DescriptorsIn(ofile', g)) + Cardinality(CallsIn(mine', g))
      <4>1. Cardinality(CallsIn(mine', g)) = IF Holds(mine', g) THEN 1 ELSE 0
        BY <2>8, <2>10, CallFacts
      <4>2. Cardinality(DescriptorsIn(ofile, g)) \in Nat BY DescriptorFacts
      <4>3. DescriptorsIn(ofile', g) = DescriptorsIn(ofile, g) BY <1>0
      <4>4. CASE g = f
        <5>1. file[g].ref = 0 /\ ~Holds(mine, g) /\ file'[g].ref = 1 BY <2>1, <2>3, <2>5, <4>4
        <5>2. Cardinality(DescriptorsIn(ofile, g)) = 0 BY <2>2, <4>2, <5>1
        <5> QED BY <2>11, <4>1, <4>3, <4>4, <5>1, <5>2
      <4>5. CASE g # f BY <2>2, <2>5, <2>11, <4>1, <4>2, <4>3, <4>5
      <4> QED BY <4>4, <4>5
    <3> QED BY <3>1, Zenon DEF Counted, Refs, Descriptors, InPipeCall, DescriptorsIn, CallsIn
  <2>13. Slots' /\ OneFile' BY <2>4, <2>5 DEF FInv, Slots, OneFile
  <2>14. Ends' /\ OneCloser'
    <3>1. \A q \in Procs : pc'[q] = "close" <=> pc[q] = "close" BY <1>0, <2>6
    <3>2. \A w \in BOOLEAN : Referenced(w)' <=> Referenced(w) BY <2>4, <2>5 DEF Referenced
    <3>3. \A w \in BOOLEAN : Closing(w)' <=> Closing(w) BY <1>0, <3>1 DEF Closing
    <3> QED BY <1>0, <3>1, <3>2, <3>3, Zenon DEF FInv, Ends, OneCloser
  <2>15. \A q \in Procs, d \in Fds : ofile[q][d] # None => ofile[q][d] \in Files BY AreFiles
  <2>16. DescInv' BY <1>0, <2>5, <2>6, <2>15 DEF FInv, DescInv
  <2>17. MineInv'
    <3>1. SUFFICES ASSUME NEW q \in Procs
                   PROVE  /\ Len(mine'[q]) <= 2
                          /\ mine'[q] # <<>> => pc'[q] \in {"pipe", "fds", "bad"} \/ (pc'[q] = "close" /\ then[q] = "bad")
                          /\ pc'[q] = "fds" => Len(mine'[q]) = 2
                          /\ \A k \in DOMAIN mine'[q] :
                               /\ pc'[q] = "pipe" => file'[mine'[q][k]].type = "none"
                               /\ pc'[q] = "fds" => file'[mine'[q][k]].type = "pipe"
      BY <1>0 DEF MineInv
    <3>2. CASE q = p
      <4>1. pc[p] = "user" => mine[p] = <<>> BY DEF FInv, MineInv
      <4>2. \A k \in DOMAIN mine[p] : file[mine[p][k]].type = "none" /\ mine[p][k] \in Files
        BY <1>0, <2>7, <4>1 DEF FInv, MineInv
      <4>3. \A k \in DOMAIN mine'[p] : file'[mine'[p][k]].type = "none"
        <5> TAKE k \in DOMAIN mine'[p]
        <5>1. CASE mine'[p][k] = f BY <2>5, <5>1
        <5>2. CASE k \in DOMAIN mine[p] /\ mine'[p][k] = mine[p][k] BY <2>5, <4>2, <5>2
        <5> QED BY <2>9, <5>1, <5>2
      <4> QED BY <2>6, <2>8, <3>2, <4>3 DEF MineType
    <3>3. CASE q # p
      <4>1. \A k \in DOMAIN mine[q] : mine[q][k] \in Files BY AreFiles
      <4> QED BY <2>5, <2>6, <3>3, <4>1 DEF FInv, MineInv
    <3> QED BY <3>2, <3>3
  <2>18. Exclusive' BY <2>10 DEF Exclusive, Own
  <2>19. InCall'
    <3>1. \A q \in Procs : pc'[q] \in Reader \union Writer => pc'[q] = pc[q]
      BY <2>6 DEF Reader, Writer
    <3> QED BY <1>0, <2>5, <2>15, <3>1 DEF FInv, InCall
  <2> QED BY <2>12, <2>13, <2>14, <2>16, <2>17, <2>18, <2>19 DEF FInv
<1> QED BY <1>1, <1>2

(* pipealloc fails, or makes the two files the ends of the new pipe.       *)
LEMMA PipeallocFInv ==
  ASSUME Counting, TypeOK, TypeOK', FInv, NEW p \in Procs, pipealloc(p)
  PROVE  FInv'
<1>0. pc[p] = "pipe" /\ UNCHANGED <<ofile, mine, end, then>> /\ Len(mine[p]) = 2 BY DEF pipealloc
<1>1. CASE pc' = [pc EXCEPT ![p] = "bad"] /\ UNCHANGED <<pi, file>>
  <2>1. pc'[p] = "bad" /\ \A q \in Procs : q # p => pc'[q] = pc[q] BY <1>1 DEF TypeOK
  <2>2. UNCHANGED files BY <1>0, <1>1 DEF files
  <2>3. "bad" \notin Reader \union Writer BY DEF Reader, Writer
  <2> QED BY <1>0, <1>1, <2>1, <2>2, <2>3, MovesFInv
<1>2. CASE /\ pi = NoPipe
           /\ pi' = [NoPipe EXCEPT !.readopen = TRUE, !.writeopen = TRUE]
           /\ file' = [file EXCEPT ![mine[p][1]] = [@ EXCEPT !.type = "pipe", !.writable = FALSE],
                                   ![mine[p][2]] = [@ EXCEPT !.type = "pipe", !.writable = TRUE]]
           /\ pc' = [pc EXCEPT ![p] = "fds"]
  <2> DEFINE r == mine[p][1]
  <2> DEFINE w == mine[p][2]
  <2>1. mine[p] \in Seq(Files) /\ 1 \in DOMAIN mine[p] /\ 2 \in DOMAIN mine[p] /\ DOMAIN mine[p] = {1, 2}
    BY <1>0 DEF TypeOK
  <2>2. r \in Files /\ w \in Files /\ r # w BY <2>1 DEF FInv, Exclusive
  <2>3. file[r] \in FileType /\ file[w] \in FileType BY <2>2 DEF TypeOK
  <2>4. file' = [file EXCEPT ![r] = [@ EXCEPT !.type = "pipe", !.writable = FALSE],
                             ![w] = [@ EXCEPT !.type = "pipe", !.writable = TRUE]]
    BY <1>2
  <2>5. r = mine[p][1] /\ w = mine[p][2] OBVIOUS
  <2> HIDE DEF r, w
  <2>6. /\ file'[r] = [file[r] EXCEPT !.type = "pipe", !.writable = FALSE]
        /\ file'[w] = [file[w] EXCEPT !.type = "pipe", !.writable = TRUE]
        /\ \A g \in Files : g # r /\ g # w => file'[g] = file[g]
    BY <2>2, <2>4 DEF TypeOK
  <2>7. /\ file'[r].type = "pipe" /\ file'[r].writable = FALSE /\ file'[r].ref = file[r].ref
        /\ file'[w].type = "pipe" /\ file'[w].writable = TRUE /\ file'[w].ref = file[w].ref
    BY <2>3, <2>6 DEF FileType
  <2>8. \A g \in Files : file'[g].ref = file[g].ref BY <2>6, <2>7, Zenon
  <2>9. /\ pi.readopen = FALSE /\ pi.writeopen = FALSE /\ pi'.readopen = TRUE /\ pi'.writeopen = TRUE
    BY <1>2 DEF NoPipe
  <2>10. \A g \in Files : file[g].type = "none"
    <3>1. SUFFICES ASSUME NEW g \in Files, file[g].type = "pipe" PROVE FALSE BY DEF TypeOK, FileType
    <3>2. file[g].ref > 0 BY <3>1 DEF FInv, Slots
    <3>3. PICK b \in BOOLEAN : b = file[g].writable BY Zenon DEF TypeOK, FileType
    <3>4. Referenced(b) BY <3>1, <3>2, <3>3 DEF Referenced
    <3> QED BY <2>9, <3>4, Zenon DEF FInv, Ends
  <2>11. \A q \in Procs : pc[q] # "close"
    <3>1. SUFFICES ASSUME NEW q \in Procs, pc[q] = "close" PROVE FALSE OBVIOUS
    <3>2. PICK b \in BOOLEAN : b = end[q] BY DEF TypeOK
    <3>3. Closing(b) BY <3>1, <3>2 DEF Closing
    <3> QED BY <2>9, <3>3, Zenon DEF FInv, Ends
  <2>12. pc'[p] = "fds" /\ \A q \in Procs : q # p => pc'[q] = pc[q] BY <1>2, FunTypes
  <2>13. \A q \in Procs, d \in Fds : ofile[q][d] = None
    <3>1. SUFFICES ASSUME NEW q \in Procs, NEW d \in Fds, ofile[q][d] # None PROVE FALSE BY SMTT(30)
    <3>2. ofile[q][d] \in Files BY <3>1, AreFiles
    <3> QED BY <2>10, <3>1, <3>2 DEF FInv, DescInv
  <2>14. Counted'
    <3>1. \A f \in Files : Descriptors(f)' = Descriptors(f) /\ InPipeCall(f)' = InPipeCall(f)
      BY <1>0 DEF Descriptors, InPipeCall
    <3>2. \A f \in Files : Refs(f)' = Refs(f) BY <3>1 DEF Refs
    <3> QED BY <2>8, <3>2 DEF FInv, Counted
  <2>15. file[r].ref > 0 /\ file[w].ref > 0
    <3>1. Holds(mine, r) /\ Holds(mine, w) BY <2>1, <2>5 DEF Holds
    <3> QED BY <2>2, <3>1, RefFacts
  <2>16. Slots' /\ OneFile'
    <3>1. \A g \in Files : file'[g].type = "pipe" => g = r \/ g = w BY <2>6, <2>10
    <3> QED BY <2>7, <2>15, <3>1 DEF Slots, OneFile
  <2>17. OneCloser' /\ Ends'
    <3>1. \A q \in Procs : pc'[q] # "close" BY <2>11, <2>12
    <3>2. \A b \in BOOLEAN : ~Closing(b)' BY <3>1 DEF Closing
    <3>3. Referenced(TRUE)' /\ Referenced(FALSE)' BY <2>2, <2>7, <2>15 DEF Referenced
    <3> QED BY <2>9, <3>1, <3>2, <3>3, Zenon DEF OneCloser, Ends
  <2>18. DescInv' BY <1>0, <2>13 DEF DescInv
  <2>19. Exclusive' BY <1>0 DEF FInv, Exclusive
  <2>20. InCall'
    <3>1. \A q \in Procs : pc[q] \notin Reader \union Writer BY <2>13 DEF FInv, InCall
    <3>2. \A q \in Procs : pc'[q] \notin Reader \union Writer BY <2>12, <3>1 DEF Reader, Writer
    <3> QED BY <3>2 DEF InCall
  <2>21. MineInv'
    <3>1. SUFFICES ASSUME NEW q \in Procs
                   PROVE  /\ Len(mine[q]) <= 2
                          /\ mine[q] # <<>> => pc'[q] \in {"pipe", "fds", "bad"} \/ (pc'[q] = "close" /\ then[q] = "bad")
                          /\ pc'[q] = "fds" => Len(mine[q]) = 2
                          /\ \A k \in DOMAIN mine[q] :
                               /\ pc'[q] = "pipe" => file'[mine[q][k]].type = "none"
                               /\ pc'[q] = "fds" => file'[mine[q][k]].type = "pipe"
      BY <1>0 DEF MineInv
    <3>2. CASE q = p
      <4>1. \A k \in DOMAIN mine[p] : file'[mine[p][k]].type = "pipe" BY <2>1, <2>5, <2>7
      <4>2. Len(mine[p]) <= 2 BY <1>0
      <4> QED BY <1>0, <2>12, <3>2, <4>1, <4>2, Zenon
    <3>3. CASE q # p
      <4>1. \A k \in DOMAIN mine[q] : mine[q][k] \in Files BY AreFiles
      <4>2. \A k \in DOMAIN mine[q] : mine[q][k] # r /\ mine[q][k] # w
        BY <2>1, <2>5, <3>3 DEF FInv, Exclusive
      <4> QED BY <2>6, <2>12, <3>3, <4>1, <4>2 DEF FInv, MineInv
    <3> QED BY <3>2, <3>3
  <2> QED BY <2>14, <2>16, <2>17, <2>18, <2>19, <2>20, <2>21 DEF FInv
<1> QED BY <1>1, <1>2 DEF pipealloc, Goto

(* sys_pipe puts its files into descriptors, or gives up.                  *)
LEMMA PipeFdsFInv ==
  ASSUME Counting, TypeOK, TypeOK', FInv, NEW p \in Procs, PipeFds(p)
  PROVE  FInv'
<1> DEFINE d == Min(FreeFds(p))
<1> DEFINE e == Min(FreeFds(p) \ {d})
<1>0. /\ pc[p] = "fds" /\ pi' = pi /\ UNCHANGED <<file, end, then>>
      /\ \/ pc' = [pc EXCEPT ![p] = "bad"] /\ UNCHANGED <<ofile, mine>>
         \/ /\ Cardinality(FreeFds(p)) >= 2
            /\ ofile' = [ofile EXCEPT ![p][d] = mine[p][1], ![p][e] = mine[p][2]]
            /\ mine' = [mine EXCEPT ![p] = <<>>] /\ pc' = [pc EXCEPT ![p] = "user"]
  BY DEF PipeFds, pipe, Goto
<1>1. CASE pc' = [pc EXCEPT ![p] = "bad"] /\ UNCHANGED <<ofile, mine>>
  <2>1. pc'[p] = "bad" /\ \A q \in Procs : q # p => pc'[q] = pc[q] BY <1>1 DEF TypeOK
  <2>2. UNCHANGED files BY <1>0, <1>1 DEF files
  <2>3. "bad" \notin Reader \union Writer BY DEF Reader, Writer
  <2> QED BY <1>0, <1>1, <2>1, <2>2, <2>3, MovesFInv
<1>2. CASE /\ Cardinality(FreeFds(p)) >= 2
           /\ ofile' = [ofile EXCEPT ![p][d] = mine[p][1], ![p][e] = mine[p][2]]
           /\ mine' = [mine EXCEPT ![p] = <<>>] /\ pc' = [pc EXCEPT ![p] = "user"]
  <2>1. d \in Fds /\ e \in Fds /\ d # e /\ ofile[p][d] = None /\ ofile[p][e] = None BY <1>2, TwoFds
  <2> HIDE DEF d, e
  <2>2. Len(mine[p]) = 2 BY <1>0 DEF FInv, MineInv
  <2>3. mine[p] \in Seq(Files) /\ 1 \in DOMAIN mine[p] /\ 2 \in DOMAIN mine[p] /\ DOMAIN mine[p] = {1, 2}
    BY <2>2 DEF TypeOK
  <2>4. PICK r \in Files : r = mine[p][1] BY <2>3
  <2>5. PICK w \in Files : w = mine[p][2] BY <2>3
  <2>6. r # w BY <2>3, <2>4, <2>5 DEF FInv, Exclusive
  <2>7. file[r].type = "pipe" /\ file[w].type = "pipe" BY <1>0, <2>3, <2>4, <2>5 DEF FInv, MineInv
  <2>8. \A q \in Procs, c \in Fds :
          ofile'[q][c] = IF q = p /\ c = d THEN r ELSE IF q = p /\ c = e THEN w ELSE ofile[q][c]
    BY <1>2, <2>1, <2>4, <2>5, FunTypes
  <2>9. /\ pc'[p] = "user" /\ mine'[p] = <<>>
        /\ \A q \in Procs : q # p => pc'[q] = pc[q] /\ mine'[q] = mine[q]
    BY <1>2, FunTypes
  <2>10. /\ ofile \in OfileType /\ mine \in MineType /\ Own(mine)
         /\ \A g \in Files :
              /\ file[g].ref = Cardinality(DescriptorsIn(ofile, g)) + (IF Holds(mine, g) THEN 1 ELSE 0)
              /\ file[g].ref \in Nat
    BY RefFacts
  <2>11. mine' \in MineType
    <3>1. \A q \in Procs : Len(mine'[q]) <= 2 BY <2>9, <2>10 DEF MineType
    <3>2. mine' \in [Procs -> Seq(Files)] BY DEF TypeOK
    <3> QED BY <3>1, <3>2 DEF MineType
  <2>12. \A q \in Procs : \A k \in DOMAIN mine'[q] : q # p /\ k \in DOMAIN mine[q] /\ mine'[q][k] = mine[q][k]
    BY <2>9
  <2>13. Own(mine')
    <3>1. Own(mine) BY <2>10
    <3> QED BY <2>12, <3>1 DEF Own
  <2>14. ASSUME NEW g \in Files PROVE Holds(mine', g) <=> Holds(mine, g) /\ g # r /\ g # w
    <3>1. ASSUME Holds(mine', g) PROVE Holds(mine, g) /\ g # r /\ g # w
      <4>1. PICK q \in Procs : \E k \in DOMAIN mine'[q] : mine'[q][k] = g BY <3>1 DEF Holds
      <4>2. PICK k \in DOMAIN mine'[q] : mine'[q][k] = g BY <4>1
      <4>3. q # p /\ k \in DOMAIN mine[q] /\ mine[q][k] = g BY <2>12, <4>2
      <4> QED BY <2>3, <2>4, <2>5, <2>10, <4>3 DEF Own, Holds
    <3>2. ASSUME Holds(mine, g), g # r, g # w PROVE Holds(mine', g)
      <4>1. PICK q \in Procs : \E k \in DOMAIN mine[q] : mine[q][k] = g BY <3>2 DEF Holds
      <4>2. q # p BY <2>3, <2>4, <2>5, <3>2, <4>1
      <4> QED BY <2>9, <4>1, <4>2 DEF Holds
    <3> QED BY <3>1, <3>2
  <2>15. Holds(mine, r) /\ Holds(mine, w) BY <2>3, <2>4, <2>5 DEF Holds
  <2>16. ASSUME NEW g \in Files
         PROVE  Cardinality(DescriptorsIn(ofile', g))
                  = Cardinality(DescriptorsIn(ofile, g)) + (IF g = r THEN 1 ELSE 0) + (IF g = w THEN 1 ELSE 0)
    <3>1. PICK o1 : o1 = [q \in Procs |-> [c \in Fds |-> IF q = p /\ c = d THEN r ELSE ofile[q][c]]]
      BY Zenon
    <3>2. \A q \in Procs, c \in Fds : o1[q][c] = IF q = p /\ c = d THEN r ELSE ofile[q][c] BY <3>1
    <3>3. Cardinality(DescriptorsIn(o1, g)) = Cardinality(DescriptorsIn(ofile, g)) + (IF g = r THEN 1 ELSE 0)
      <4>1. ASSUME NEW o2, \A q \in Procs, c \in Fds : o2[q][c] = IF q = p /\ c = d THEN r ELSE ofile[q][c]
            PROVE  Cardinality(DescriptorsIn(o2, g)) = Cardinality(DescriptorsIn(ofile, g)) + (IF g = r THEN 1 ELSE 0)
        BY <2>1, <4>1, DescriptorAdded
      <4> QED BY <3>2, <4>1, Zenon
    <3>4. o1[p][e] = None BY <2>1, <3>2
    <3>5. \A q \in Procs, c \in Fds : ofile'[q][c] = IF q = p /\ c = e THEN w ELSE o1[q][c]
      BY <2>1, <2>8, <3>2
    <3>6. Cardinality(DescriptorsIn(ofile', g)) = Cardinality(DescriptorsIn(o1, g)) + (IF g = w THEN 1 ELSE 0)
      <4>1. ASSUME NEW o2, \A q \in Procs, c \in Fds : o2[q][c] = IF q = p /\ c = e THEN w ELSE o1[q][c]
            PROVE  Cardinality(DescriptorsIn(o2, g)) = Cardinality(DescriptorsIn(o1, g)) + (IF g = w THEN 1 ELSE 0)
        BY <2>1, <3>4, <4>1, DescriptorAdded
      <4> QED BY <3>5, <4>1, Zenon
    <3> QED BY <3>3, <3>6
  <2>17. Counted'
    <3>1. ASSUME NEW g \in Files
          PROVE  file'[g].ref = Cardinality(DescriptorsIn(ofile', g)) + Cardinality(CallsIn(mine', g))
      <4>1. Cardinality(CallsIn(mine', g)) = IF Holds(mine', g) THEN 1 ELSE 0
        BY <2>11, <2>13, CallFacts
      <4>2. Cardinality(DescriptorsIn(ofile, g)) \in Nat BY DescriptorFacts
      <4>3. file'[g].ref = file[g].ref BY <1>0
      <4> QED BY <2>6, <2>10, <2>14, <2>15, <2>16, <4>1, <4>2, <4>3
    <3> QED BY <3>1 DEF Counted, Refs, Descriptors, InPipeCall, DescriptorsIn, CallsIn
  <2>18. Slots' /\ OneFile' BY <1>0 DEF FInv, Slots, OneFile
  <2>19. Ends' /\ OneCloser'
    <3>1. \A q \in Procs : pc'[q] = "close" <=> pc[q] = "close" BY <1>0, <2>9
    <3>2. \A b \in BOOLEAN : Referenced(b)' <=> Referenced(b) BY <1>0 DEF Referenced
    <3>3. \A b \in BOOLEAN : Closing(b)' <=> Closing(b) BY <1>0, <3>1 DEF Closing
    <3> QED BY <1>0, <3>1, <3>2, <3>3, Zenon DEF FInv, Ends, OneCloser
  <2>20. DescInv' BY <1>0, <2>7, <2>8, <2>9 DEF FInv, DescInv
  <2>21. MineInv' BY <1>0, <2>9, <2>12 DEF FInv, MineInv
  <2>22. Exclusive' BY <2>13 DEF Exclusive, Own
  <2>23. InCall'
    <3>1. \A q \in Procs : pc'[q] \in Reader \union Writer => q # p /\ pc'[q] = pc[q]
      BY <2>9 DEF Reader, Writer
    <3>2. \A q \in Procs, c \in Fds : q # p => ofile'[q][c] = ofile[q][c] BY <2>8
    <3> QED BY <1>0, <3>1, <3>2 DEF FInv, InCall
  <2> QED BY <2>17, <2>18, <2>19, <2>20, <2>21, <2>22, <2>23 DEF FInv
<1> QED BY <1>0, <1>1, <1>2

(* Every step keeps the invariant of the file table.                       *)
LEMMA NextFInv ==
  ASSUME Counting, TypeOK, TypeOK', FInv, [Next]_vars
  PROVE  FInv'
<1>1. CASE UNCHANGED vars
  <2>1. UNCHANGED files /\ pi' = pi /\ pc' = pc BY <1>1 DEF vars, pipe
  <2> QED BY <2>1, FilesQuiet
<1>2. ASSUME NEW p \in Procs, (PipeStep(p) \/ kill(p)) /\ UNCHANGED files PROVE FInv'
  BY <1>2, PipeStepFInv
<1>3. ASSUME NEW p \in Procs, sys_pipe(p) \/ pipealloc(p) \/ PipeFds(p) \/ PipeFails(p) \/ PipeClose(p) PROVE FInv'
  BY <1>3, SysPipeFInv, PipeallocFInv, PipeFdsFInv, PipeFailsFInv, PipeCloseFInv
<1>4. ASSUME NEW p \in Procs, NEW d \in Fds, sys_close(p, d) PROVE FInv'
  <2>1. /\ pc[p] = "user" /\ ofile[p][d] # None /\ fileclose(p, ofile[p][d], "user")
        /\ ofile' = [ofile EXCEPT ![p][d] = None] /\ mine' = mine /\ pi' = pi
    BY <1>4 DEF sys_close, User, pipe
  <2> QED BY <2>1, SysCloseFInv, Zenon
<1>5. ASSUME NEW p \in Procs, NEW d \in Fds, sys_dup(p, d) PROVE FInv' BY <1>5, SysDupFInv
<1>6. ASSUME NEW p \in Procs, NEW d \in Fds, NEW k \in 0 .. MaxN, sys_rw(p, d, k) PROVE FInv'
  BY <1>6, SysRwFInv
<1>7. ASSUME NEW p \in Procs, NEW q \in Procs, fork(p, q) PROVE FInv' BY <1>7, ForkFInv
<1>8. ASSUME NEW p \in Procs, exit(p) PROVE FInv' BY <1>8, ExitFInv
<1> QED BY <1>1, <1>2, <1>3, <1>4, <1>5, <1>6, <1>7, <1>8 DEF Next
=============================================================================
