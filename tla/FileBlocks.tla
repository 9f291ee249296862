----------------------------- MODULE FileBlocks -----------------------------
(***************************************************************************)
(* The blocks of files (kernel/fs.c: balloc, bfree, bmap, itrunc, readi    *)
(* and writei) under fileread and filewrite (kernel/file.c).               *)
(*                                                                         *)
(* A block holds BSIZE numbers: bytes of a file, or the addresses of an    *)
(* indirect block.  An inode is locked from the start of a chunk of        *)
(* filewrite to its end; the blocks of the chunk are written one by one,   *)
(* and calls on other inodes allocate and free blocks in between.  What    *)
(* only reads a locked inode, and itrunc, is one step.                     *)
(***************************************************************************)
EXTENDS Naturals, Sequences, FiniteSets, FiniteSetsExt

CONSTANTS
  Procs, Files, Inums, ip, \* processes, open files, inodes, inode of a file
  NBLOCKS,                 \* data blocks on the disk
  BPB,                     \* blocks whose bits are in one bitmap block
  BSIZE,                   \* numbers in a block, also NINDIRECT
  NDIRECT, MAXOPBLOCKS,
  Reads, Writes,           \* calls: process, file and number of bytes
  byte,                    \* what a process writes
  MaxCalls,                \* bound: calls made
  None

VARIABLES
  bitmap,  \* the blocks in use
  disk,    \* the contents of the blocks
  inode,   \* size and addrs
  off,     \* f->off
  holder,  \* who holds the inode's lock
  call,    \* a call of filewrite: the file, bytes left, bytes of the chunk
           \*   and how many of them are written
  logged,  \* the blocks that the call's transaction writes
  calls    \* calls made

vars == <<bitmap, disk, inode, off, holder, call, logged, calls>>

Blocks == 1 .. NBLOCKS
MAXFILE == NDIRECT + BSIZE
zero == [k \in 0 .. BSIZE - 1 |-> 0]

Init ==
  /\ bitmap = {}
  /\ disk = [b \in Blocks |-> [k \in 0 .. BSIZE - 1 |-> 1]]
  /\ inode = [i \in Inums |-> [size |-> 0, addrs |-> [k \in 0 .. NDIRECT |-> 0]]]
  /\ off = [f \in Files |-> 0]
  /\ holder = [i \in Inums |-> None]
  /\ call = [p \in Procs |-> None]
  /\ logged = [p \in Procs |-> {}]
  /\ calls = 0

-----------------------------------------------------------------------------
(* Allocation, as a function from a state of the disk to the next one and  *)
(* the address found; lg is the set of blocks passed to log_write.         *)
Disk(p) == [bm |-> bitmap, dk |-> disk, ino |-> inode, lg |-> logged[p], addr |-> 0]

BBLOCK(b) == <<"bitmap", b \div BPB>>
Block(b) == <<"block", b>>
IBLOCK(i) == <<"inode", i>>

(* balloc: the first free block, zeroed; 0 if there is none.               *)
balloc(s) ==
  LET unused == Blocks \ s.bm
      b == Min(unused)
  IN IF unused = {} THEN [s EXCEPT !.addr = 0]
     ELSE [s EXCEPT !.bm = @ \union {b}, !.dk[b] = zero,
                    !.lg = @ \union {BBLOCK(b), Block(b)}, !.addr = b]

(* An address that may have to be allocated, and is then kept in addrs.    *)
direct(s, i, k) ==
  IF s.ino[i].addrs[k] # 0 THEN [s EXCEPT !.addr = s.ino[i].addrs[k]]
  ELSE LET r == balloc(s) IN [r EXCEPT !.ino[i].addrs[k] = r.addr]

(* An address in the indirect block a.                                     *)
indirect(s, a, k) ==
  IF s.dk[a][k] # 0 THEN [s EXCEPT !.addr = s.dk[a][k]]
  ELSE LET r == balloc(s)
       IN IF r.addr = 0 THEN r
          ELSE [r EXCEPT !.dk[a][k] = r.addr, !.lg = @ \union {Block(a)}]

(* Mutant of bmap: the indirect block is used as a data block, too.        *)
bmap_OffByOne(s, i, bn) ==
  IF bn <= NDIRECT THEN direct(s, i, bn)
  ELSE LET r == direct(s, i, NDIRECT)
       IN IF r.addr = 0 THEN r ELSE indirect(r, r.addr, bn - NDIRECT)

bmap(s, i, bn) ==
  IF bn < NDIRECT THEN direct(s, i, bn)
  ELSE LET r == direct(s, i, NDIRECT)
       IN IF r.addr = 0 THEN r ELSE indirect(r, r.addr, bn - NDIRECT)

-----------------------------------------------------------------------------
(* The blocks that an inode refers to, one element for each reference.     *)
Refs(i) ==
  LET a == inode[i].addrs
  IN {<<i, "addrs", k, a[k]>> : k \in {k \in 0 .. NDIRECT : a[k] # 0}}
     \union IF a[NDIRECT] = 0 THEN {}
            ELSE {<<i, "indirect", k, disk[a[NDIRECT]][k]>> :
                    k \in {k \in 0 .. BSIZE - 1 : disk[a[NDIRECT]][k] # 0}}
BlocksOf(i) == {r[4] : r \in Refs(i)}

(* The contents of free blocks are not told apart: after bfree they are    *)
(* the same numbers everywhere, none of them 0.                            *)
bfree(bs) ==
  /\ bitmap' = bitmap \ bs
  /\ disk' = [b \in Blocks |-> IF b \in bs THEN [k \in 0 .. BSIZE - 1 |-> 1] ELSE disk[b]]

(* Mutant of itrunc: the blocks behind the indirect block are forgotten.   *)
itrunc_Direct(i) ==
  /\ bfree({inode[i].addrs[k] : k \in 0 .. NDIRECT} \ {0})
  /\ inode' = [inode EXCEPT ![i] = [size |-> 0, addrs |-> [k \in 0 .. NDIRECT |-> 0]]]

itrunc(i) ==
  /\ bfree(BlocksOf(i))
  /\ inode' = [inode EXCEPT ![i] = [size |-> 0, addrs |-> [k \in 0 .. NDIRECT |-> 0]]]

-----------------------------------------------------------------------------
Idle(p) == call[p] = None

(* open: a new file, at offset 0; with O_TRUNC the contents go.            *)
Open(f, trunc) ==
  /\ {p \in Procs : ~Idle(p) /\ call[p].f = f} = {}
  /\ holder[ip[f]] = None
  /\ off' = [off EXCEPT ![f] = 0]
  /\ IF trunc THEN itrunc(ip[f]) ELSE UNCHANGED <<bitmap, disk, inode>>
  /\ UNCHANGED <<holder, call, logged>>

(* fileread: readi stops at the end of the file.  A destination that is    *)
(* not mapped makes it return -1, and the offset stays.                    *)
fileread(p, f, n) ==
  LET size == inode[ip[f]].size
      r == IF off[f] > size THEN 0 ELSE Min({n, size - off[f]})
  IN /\ Idle(p)
     /\ holder[ip[f]] = None
     /\ off' = [off EXCEPT ![f] = @ + r]
     /\ UNCHANGED <<bitmap, disk, inode, holder, call, logged>>

filewrite(p, f, n) ==
  /\ Idle(p)
  /\ call' = [call EXCEPT ![p] = [f |-> f, left |-> n, n1 |-> 0, tot |-> 0]]
  /\ UNCHANGED <<bitmap, disk, inode, off, holder, logged>>

(* Mutant of max: no room for blocks that are not aligned.                 *)
max_NoSlop == ((MAXOPBLOCKS - 1 - 1) \div 2) * BSIZE

(* Bytes in one transaction.                                               *)
max == ((MAXOPBLOCKS - 1 - 1 - 2) \div 2) * BSIZE

(* The tests of writei.                                                    *)
CanWrite(f, n1) == off[f] <= inode[ip[f]].size /\ off[f] + n1 <= MAXFILE * BSIZE

(* begin_op, ilock, and the tests of writei on a chunk; filewrite returns  *)
(* -1 if they fail.                                                        *)
Chunk(p) ==
  LET c == call[p]
      n1 == Min({c.left, max})
  IN /\ ~Idle(p) /\ c.n1 = 0 /\ holder[ip[c.f]] = None
     /\ IF CanWrite(c.f, n1)
        THEN /\ call' = [call EXCEPT ![p].n1 = n1]
             /\ holder' = [holder EXCEPT ![ip[c.f]] = p]
        ELSE call' = [call EXCEPT ![p] = None] /\ UNCHANGED holder
     /\ logged' = [logged EXCEPT ![p] = {}]
     /\ UNCHANGED <<bitmap, disk, inode, off>>

(* The end of writei and of the transaction, tot bytes written: the size,  *)
(* iupdate, the offset.  A short write ends filewrite.                     *)
EndChunk(p, ino, tot, lg) ==
  LET c == call[p]
      i == ip[c.f]
      o == off[c.f] + tot
      done == tot # c.n1 \/ c.left = tot
  IN /\ inode' = [ino EXCEPT ![i].size = IF o > @ THEN o ELSE @]
     /\ off' = [off EXCEPT ![c.f] = o]
     /\ holder' = [holder EXCEPT ![i] = None]
     /\ call' = [call EXCEPT ![p] = IF done THEN None
                                    ELSE [c EXCEPT !.left = @ - tot, !.n1 = 0, !.tot = 0]]
     /\ logged' = [logged EXCEPT ![p] = lg \union {IBLOCK(i)}]

(* k bytes of the process in block b at position o.                        *)
Copied(dk, p, b, o, k) == [dk EXCEPT ![b] = [j \in DOMAIN @ |-> IF j \in o .. o + k - 1 THEN byte[p] ELSE @[j]]]

(* One iteration of writei: bmap finds or allocates the block and copyin   *)
(* fills it, or there is no block left, or copyin fails after k bytes,     *)
(* which stay in the buffer.                                               *)
writei(p) ==
  LET c == call[p]
      i == ip[c.f]
      o == off[c.f] + c.tot
      s == bmap(Disk(p), i, o \div BSIZE)
      m == Min({c.n1 - c.tot, BSIZE - (o % BSIZE)})
  IN /\ ~Idle(p) /\ c.n1 > 0
     /\ bitmap' = s.bm
     /\ \/ /\ s.addr = 0
           /\ disk' = s.dk
           /\ EndChunk(p, s.ino, c.tot, s.lg)
        \/ /\ s.addr # 0
           /\ \E k \in 0 .. m - 1 : disk' = Copied(s.dk, p, s.addr, o % BSIZE, k)
           /\ EndChunk(p, s.ino, c.tot, s.lg)
        \/ /\ s.addr # 0
           /\ disk' = Copied(s.dk, p, s.addr, o % BSIZE, m)
           /\ IF c.tot + m < c.n1
              THEN /\ inode' = s.ino
                   /\ call' = [call EXCEPT ![p].tot = @ + m]
                   /\ logged' = [logged EXCEPT ![p] = s.lg \union {Block(s.addr)}]
                   /\ UNCHANGED <<off, holder>>
              ELSE EndChunk(p, s.ino, c.tot + m, s.lg \union {Block(s.addr)})

Call ==
  \/ \E f \in Files, trunc \in BOOLEAN : Open(f, trunc)
  \/ \E c \in Reads : fileread(c[1], c[2], c[3])
  \/ \E c \in Writes : filewrite(c[1], c[2], c[3])

Next ==
  \/ Call /\ calls < MaxCalls /\ calls' = calls + 1
  \/ \E p \in Procs : (Chunk(p) \/ writei(p)) /\ UNCHANGED calls
  \/ calls = MaxCalls /\ (\A p \in Procs : Idle(p)) /\ UNCHANGED vars

Spec == Init /\ [][Next]_vars
-----------------------------------------------------------------------------
(* The address of block bn, 0 if it has none.                              *)
Address(i, bn) ==
  LET a == inode[i].addrs
  IN IF bn < NDIRECT THEN a[bn] ELSE IF a[NDIRECT] = 0 THEN 0 ELSE disk[a[NDIRECT]][bn - NDIRECT]

(* A block is in use exactly when a file refers to it, by one reference:   *)
(* through allocations that fail half way, copies that fail and truncation *)
(* no block is lost, shared or freed while it is in use (the panic of      *)
(* bfree), and no indirect block is taken for data.  Files have no holes:  *)
(* bmap, called by readi outside of a transaction, finds every block below *)
(* the size and never allocates one.                                       *)
BlocksOwned ==
  LET all == UNION {Refs(i) : i \in Inums}
  IN /\ bitmap = {r[4] : r \in all}
     /\ \A r1, r2 \in all : r1[4] = r2[4] => r1 = r2
     /\ \A i \in Inums : \A k \in 0 .. inode[i].size - 1 : Address(i, k \div BSIZE) # 0

(* The reservation that begin_op makes covers what a chunk of filewrite    *)
(* writes, with the bits of all its blocks in different bitmap blocks.     *)
LogFits == \A p \in Procs : Cardinality(logged[p]) <= MAXOPBLOCKS

(* The writer of the inode, and the bytes of its chunk that are written.   *)
Written(f) == IF holder[ip[f]] = None \/ call[holder[ip[f]]].f # f THEN 0 ELSE call[holder[ip[f]]].tot

(* What readi returns: the bytes up to the size, or to where a chunk in    *)
(* progress has got.                                                       *)
Contents(i) ==
  LET len == Max({inode[i].size} \union {off[f] + Written(f) : f \in {f \in Files : ip[f] = i /\ Written(f) > 0}})
  IN [k \in 1 .. len |-> disk[Address(i, (k - 1) \div BSIZE)][(k - 1) % BSIZE]]

FileData == INSTANCE FileData WITH
  text <- [i \in Inums |-> Contents(i)], off <- [f \in Files |-> off[f] + Written(f)],
  Values <- {byte[p] : p \in Procs}, Part <- BSIZE

(* Files hold the bytes that were written, at the offsets they were        *)
(* written at: writei implements FileData.                                 *)
ImplementsFiles == FileData!Spec
=============================================================================
