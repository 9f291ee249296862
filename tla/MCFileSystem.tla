---------------------------- MODULE MCFileSystem ----------------------------
(***************************************************************************)
(* Three models of the file system, checked in one run: inodes, names and  *)
(* links (Inodes), the blocks and contents of files (FileBlocks), and the  *)
(* program that builds the first image (Mkfs).  The initial states choose  *)
(* one of them; the others rest.                                           *)
(***************************************************************************)
EXTENDS Inodes

CONSTANTS p1, p2,
          f1, f2, f3, NBLOCKS, BPB, BSIZE, NDIRECT, MAXOPBLOCKS, MaxCalls,
          BitsPerBlock, FSSIZE, nmeta, Sizes, MaxFiles

VARIABLES part,
          bitmap, disk, file, off, holder, call, logged, calls,
          argv, next, image, used

fileVars == <<bitmap, disk, file, off, holder, call, logged, calls>>
mkfsVars == <<argv, next, image, used>>

\* Two processes make, link, open and remove the file a in the root and in
\* the directory d, which comes and goes as well.
a == <<"/", "a">>
d == <<"/", "d">>
da == <<"/", "d", "a">>

MCCalls ==
  p1 :> {[op |-> "mknod", path |-> a], [op |-> "unlink", path |-> a],
         [op |-> "link", path |-> a, new |-> da], [op |-> "unlink", path |-> da],
         [op |-> "link", path |-> d, new |-> a],
         [op |-> "open", path |-> <<"a">>, mode |-> "RDWR"]}
  @@
  p2 :> {[op |-> "creat", path |-> da], [op |-> "unlink", path |-> <<"/", "a", "b">>],
         [op |-> "mkdir", path |-> d], [op |-> "unlink", path |-> d],
         [op |-> "chdir", path |-> d], [op |-> "chdir", path |-> <<"/">>],
         [op |-> "chdir", path |-> a],
         [op |-> "open", path |-> <<"d">>, mode |-> "RDWR"]}

\* Two processes write three open files, of which two are of one inode; the
\* longest write ends in the indirect block.
MCip == f1 :> 1 @@ f2 :> 2 @@ f3 :> 1
MCWrites == {<<p1, f1, 6>>, <<p2, f3, 1>>, <<p2, f2, 3>>}
MCReads == {<<p1, f1, 1>>}
MCbyte == p1 :> 1 @@ p2 :> 2

Data == INSTANCE FileBlocks WITH
  Files <- {f1, f2, f3}, Inums <- {1, 2}, ip <- MCip, Reads <- MCReads,
  Writes <- MCWrites, byte <- MCbyte, inode <- file

Image == INSTANCE Mkfs WITH
  NINDIRECT <- BSIZE, BPB <- BitsPerBlock, todo <- next, bitmap <- used

MCInit ==
  /\ part \in {"inodes", "data", "mkfs"}
  /\ Init
  /\ Data!Init
  /\ IF part = "mkfs" THEN Image!Init ELSE argv = <<>> /\ next = 0 /\ image = 0 /\ used = {}

MCNext ==
  \/ part = "inodes" /\ Next /\ UNCHANGED <<part, fileVars, mkfsVars>>
  \/ part = "data" /\ Data!Next /\ UNCHANGED <<part, vars, mkfsVars>>
  \/ part = "mkfs" /\ Image!Next /\ UNCHANGED <<part, vars, fileVars>>

MCSpec == MCInit /\ [][MCNext]_<<part, vars, fileVars, mkfsVars>>

-----------------------------------------------------------------------------
\* FileBlocks: balloc, bmap and itrunc neither lose nor share a block.
BlocksOwned == part = "data" => Data!BlocksOwned

\* FileBlocks: a chunk of filewrite fits in its reservation.
LogFits == part = "data" => Data!LogFits

\* FileBlocks: readi finds what writei wrote (Data!ImplementsFiles; TLC tests
\* first whether a step changes the files at all).
ImplementsFiles ==
  /\ Data!FileData!Init
  /\ [][UNCHANGED fileVars \/ Data!FileData!Next]_(Data!FileData!vars)

\* Mkfs: the image that main writes is consistent.
ImageConsistent == part = "mkfs" => Image!ImageConsistent

=============================================================================
