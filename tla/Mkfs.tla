-------------------------------- MODULE Mkfs --------------------------------
(***************************************************************************)
(* mkfs/mkfs.c: how the first image of the file system is laid out.  The   *)
(* unit of data is a directory entry: a name and an inode number, where    *)
(* the name of file k is k.  The data of file k are the pairs <<k, i>>.    *)
(* The inode blocks are the function inode: winode() and rinode() read and *)
(* write one entry of it.  There is one process, and a step of it is one   *)
(* file of the command line.                                               *)
(***************************************************************************)
EXTENDS Integers, SequencesExt, FiniteSets

CONSTANTS BSIZE, NDIRECT, NINDIRECT, BPB, FSSIZE,
          nmeta,     \* boot, super, log, inode and bitmap blocks
          Sizes,     \* the lengths of the files
          MaxFiles   \* bound: the files on the command line

ROOTINO == 1
MAXFILE == NDIRECT + NINDIRECT

VARIABLES argv,      \* the lengths of the files
          todo,      \* the next of them; 0 before the root is made
          image,     \* the inodes, the blocks, freeblock, and failed asserts
          bitmap     \* the blocks marked as used

vars == <<argv, todo, image, bitmap>>

Inums == 1..(MaxFiles + 1)
zeroes == [i \in 1..BSIZE |-> <<0, 0>>]
dot == <<-1, ROOTINO>>
dotdot == <<-2, ROOTINO>>
noinode == [type |-> "FREE", size |-> 0, addrs |-> [i \in 0..NDIRECT |-> 0]]

\* freeblock starts behind the metadata, and every block is zeroed.
Init ==
  /\ argv \in UNION {[1..n -> Sizes] : n \in 0..MaxFiles}
  /\ todo = 0
  /\ image = [inode |-> [i \in Inums |-> noinode],
              disk |-> [b \in nmeta..(FSSIZE - 1) |-> zeroes],
              indirect |-> [b \in nmeta..(FSSIZE - 1) |-> [i \in 0..(NINDIRECT - 1) |-> 0]],
              freeblock |-> nmeta, died |-> FALSE]
  /\ bitmap = {}

ialloc(im, inum, type) == [im EXCEPT !.inode[inum] = [noinode EXCEPT !.type = type]]

\* The block of inode inum for file block fbn, allocated if there is none.
NewDirect(im, inum, fbn) ==
  IF im.inode[inum].addrs[fbn] # 0 THEN im
  ELSE [im EXCEPT !.inode[inum].addrs[fbn] = im.freeblock, !.freeblock = @ + 1]

NewIndirect(im, inum, fbn) ==
  LET t == NewDirect(im, inum, NDIRECT)
      a == t.inode[inum].addrs[NDIRECT]
  IN  IF t.indirect[a][fbn - NDIRECT] # 0 THEN t
      ELSE [t EXCEPT !.indirect[a][fbn - NDIRECT] = t.freeblock, !.freeblock = @ + 1]

addr(im, inum, fbn) ==
  IF fbn < NDIRECT THEN im.inode[inum].addrs[fbn]
  ELSE IF im.inode[inum].addrs[NDIRECT] = 0 THEN 0
  ELSE im.indirect[im.inode[inum].addrs[NDIRECT]][fbn - NDIRECT]

\* iappend() of one unit; assert(fbn < MAXFILE).
append(im, inum, x) ==
  LET off == im.inode[inum].size
      fbn == off \div BSIZE
      new == IF fbn < NDIRECT THEN NewDirect(im, inum, fbn) ELSE NewIndirect(im, inum, fbn)
      b == addr(new, inum, fbn)
  IN  IF im.died \/ fbn >= MAXFILE THEN [im EXCEPT !.died = TRUE]
      ELSE [new EXCEPT !.disk[b][(off % BSIZE) + 1] = x, !.inode[inum].size = off + 1]

iappend(im, inum, data) == FoldLeft(LAMBDA t, x : append(t, inum, x), im, data)

\* The inode number of file k, and the unit that names it in the root.
inumof(k) == ROOTINO + k
Data(k) == [i \in 1..argv[k] |-> <<k, i>>]

\* main(), before the files: the root directory with "." and "..".
root ==
  /\ todo = 0
  /\ image' = iappend(ialloc(image, ROOTINO, "DIR"), ROOTINO,
                      <<dot, dotdot>>)
  /\ todo' = 1
  /\ UNCHANGED <<argv, bitmap>>

\* One file: its inode, its name in the root, its contents.
file ==
  /\ todo \in 1..Len(argv) /\ ~image.died
  /\ LET named == iappend(ialloc(image, inumof(todo), "FILE"), ROOTINO,
                          <<<<todo, inumof(todo)>>>>)
     IN  image' = iappend(named, inumof(todo), Data(todo))
  /\ todo' = todo + 1
  /\ UNCHANGED <<argv, bitmap>>

balloc_Last(used) == 0..used

balloc(used) == 0..(used - 1)

\* The end of main(): the root's size becomes whole blocks, and balloc()
\* marks all blocks below freeblock; assert(used < BPB).
finish ==
  /\ todo = Len(argv) + 1 /\ ~image.died
  /\ image' = [image EXCEPT !.inode[ROOTINO].size = ((@ \div BSIZE) + 1) * BSIZE,
                            !.died = image.freeblock >= BPB]
  /\ bitmap' = IF image.freeblock < BPB THEN balloc(image.freeblock) ELSE {}
  /\ todo' = todo + 1
  /\ UNCHANGED argv

Done == (image.died \/ todo = Len(argv) + 2) /\ UNCHANGED vars

Next == root \/ file \/ finish \/ Done

Spec == Init /\ [][Next]_vars

-----------------------------------------------------------------------------
\* What the kernel's readi() finds in an inode.
Contents(inum, n) ==
  [i \in 1..n |-> image.disk[addr(image, inum, (i - 1) \div BSIZE)][((i - 1) % BSIZE) + 1]]

\* The blocks that an inode refers to, the indirect block included.
Blocks(inum) ==
  ({addr(image, inum, fbn) : fbn \in 0..(MAXFILE - 1)}
     \cup {image.inode[inum].addrs[NDIRECT]}) \ {0}

\* The finished image is one the kernel can mount: every file reads back as
\* it was given, the root lists exactly the files, in whole blocks of which
\* at most the last has no block yet, no block belongs to two inodes, and the
\* bitmap marks the metadata and exactly the blocks that inodes refer to.
ImageConsistent ==
  todo = Len(argv) + 2 /\ ~image.died =>
    LET n == Len(argv)
        all == ROOTINO..inumof(n)
        size == image.inode[ROOTINO].size
    IN  /\ \A k \in 1..n :
             /\ image.inode[inumof(k)].size = argv[k]
             /\ Contents(inumof(k), argv[k]) = Data(k)
        /\ Contents(ROOTINO, n + 2)
             = <<dot, dotdot>> \o [k \in 1..n |-> <<k, inumof(k)>>]
        /\ size % BSIZE = 0 /\ size > n + 2 /\ size <= n + 2 + BSIZE
        /\ \A i, j \in all : i # j => Blocks(i) \cap Blocks(j) = {}
        /\ bitmap = 0..(nmeta - 1) \cup UNION {Blocks(i) : i \in all}

=============================================================================
