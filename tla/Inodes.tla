------------------------------- MODULE Inodes -------------------------------
(***************************************************************************)
(* Inodes, directories and the system calls that name files: the inode     *)
(* table, directories and paths of kernel/fs.c, with sys_link, sys_unlink, *)
(* sys_open, sys_mkdir, sys_mknod, sys_chdir and create of                 *)
(* kernel/sysfile.c, fileclose on an inode (kernel/file.c) and the iput of *)
(* exit (kernel/proc.c).                                                   *)
(*                                                                         *)
(* An in-memory inode is named by its number: iget finds or makes the one  *)
(* entry for it under itable.lock.  A directory is a function from the     *)
(* names in it to inode numbers.  A process in a call has a sequence of    *)
(* things still to do; what it does in one step is what the code does      *)
(* between two points where it may block or hand over a lock: a sleep lock *)
(* that is taken and released without blocking in between is one step.     *)
(* Data blocks are the part of module FileBlocks; here dirlink just fails  *)
(* now and then, as it does when the disk is full.                         *)
(***************************************************************************)
EXTENDS Naturals, Sequences, FiniteSets, FiniteSetsExt, TLC

CONSTANTS
  Procs,
  NINODES,   \* inodes on the disk, ROOTINO = 1 among them
  NINODE,    \* entries of the inode table
  LinkMax,   \* bound: links of an inode
  Calls,     \* the calls that each process makes
  None

Inums == 1 .. NINODES
ROOTINO == 1

VARIABLES
  dinode,   \* the inodes on the disk: type and number of links,
  ents,     \*   and the entries of those that are directories
  inode,    \* the inode table: type, nlink and valid of an entry,
  ref,      \*   its reference count,
  lock,     \*   and the holder of its sleep lock
  todo,     \* what each process has still to do in its call
  cwd, ofile, \* its working directory and the inode of its open file
  panicked,
  lost      \* history: a directory was freed with a name in it

vars == <<dinode, ents, inode, ref, lock, todo, cwd, ofile, panicked, lost>>

free == [type |-> "FREE", nlink |-> 0]

(* Something to do: an operation, the inodes it refers to, a path.         *)
I(op, i, j, path) == [op |-> op, i |-> i, j |-> j, path |-> path]
Iput(i) == I("iput", i, None, <<>>)

-----------------------------------------------------------------------------
(* mkfs leaves a root directory; init has it as its working directory, and *)
(* fork gives a child that of its parent.                                  *)
Init ==
  /\ dinode = [i \in Inums |-> IF i = ROOTINO THEN [type |-> "DIR", nlink |-> 1] ELSE free]
  /\ ents = [i \in Inums |-> IF i = ROOTINO THEN [n \in {".", ".."} |-> ROOTINO] ELSE <<>>]
  /\ inode = [i \in Inums |-> [type |-> "FREE", nlink |-> 0, valid |-> FALSE]]
  /\ ref = [i \in Inums |-> IF i = ROOTINO THEN Cardinality(Procs) ELSE 0]
  /\ lock = [i \in Inums |-> None]
  /\ todo = [p \in Procs |-> <<>>]
  /\ cwd = [p \in Procs |-> ROOTINO]
  /\ ofile = [p \in Procs |-> None]
  /\ panicked = FALSE
  /\ lost = FALSE

At(p, op) == todo[p] # <<>> /\ Head(todo[p]).op = op

This(p) == Head(todo[p])

(* The rest of the call, preceded by more to do.                           *)
Then(p, s) == todo' = [todo EXCEPT ![p] = s \o Tail(@)]

(* The rest of the call, its next operation given the result r.            *)
Rest(p, r) == <<[todo[p][2] EXCEPT !.i = r]>> \o SubSeq(todo[p], 3, Len(todo[p]))
Returns(p, s, r) == todo' = [todo EXCEPT ![p] = s \o Rest(p, r)]

-----------------------------------------------------------------------------
(* iget; an entry that was not in use is not valid (see unref).            *)
iget(i) == ref' = [ref EXCEPT ![i] = @ + 1]

(* What ilock makes of the entry: it is read from the disk if not valid.   *)
Loaded(i) == IF inode[i].valid THEN inode[i] ELSE dinode[i] @@ [valid |-> TRUE]

(* ilock(i) does not sleep.                                                *)
CanLock(i) == lock[i] = None

(* The in-memory inode with another nlink, and iupdate.                    *)
SetNlink(i, n) ==
  /\ inode' = [inode EXCEPT ![i] = [Loaded(i) EXCEPT !.nlink = n]]
  /\ dinode' = [dinode EXCEPT ![i] = [type |-> Loaded(i).type, nlink |-> n]]

Load(i) == inode' = [inode EXCEPT ![i] = Loaded(i)]

-----------------------------------------------------------------------------
(* ip->ref--.  An entry without references is no longer found by iget,     *)
(* which makes one that is not valid.                                      *)
empty == free @@ [valid |-> FALSE]
unref(i) ==
  /\ ref' = [ref EXCEPT ![i] = @ - 1]
  /\ inode' = [inode EXCEPT ![i] = IF ref[i] = 1 THEN empty ELSE @]

(* Mutant of iput: an inode without links is freed with any reference.     *)
iput_Shared(p) ==
  LET i == This(p).i
  IN /\ At(p, "iput")
     /\ IF inode[i].valid /\ inode[i].nlink = 0
        THEN /\ lock[i] = None
             /\ lock' = [lock EXCEPT ![i] = p]
             /\ Then(p, <<I("ifree", i, None, <<>>)>>)
             /\ UNCHANGED <<ref, inode>>
        ELSE /\ unref(i)
             /\ Then(p, <<>>)
             /\ UNCHANGED lock
     /\ UNCHANGED <<dinode, ents, cwd, ofile>>

(* iput: the last reference to an inode without links frees it, and takes  *)
(* its lock to do that; any other reference is just dropped.               *)
iput(p) ==
  LET i == This(p).i
  IN /\ At(p, "iput")
     /\ IF ref[i] = 1 /\ inode[i].valid /\ inode[i].nlink = 0
        THEN /\ lock[i] = None
             /\ lock' = [lock EXCEPT ![i] = p]
             /\ Then(p, <<I("ifree", i, None, <<>>)>>)
             /\ UNCHANGED <<ref, inode>>
        ELSE /\ unref(i)
             /\ Then(p, <<>>)
             /\ UNCHANGED lock
     /\ UNCHANGED <<dinode, ents, cwd, ofile>>

isdirempty(i) == DOMAIN ents[i] \subseteq {".", ".."}

(* itrunc, then type 0 on the disk.                                        *)
ifree(p) ==
  LET i == This(p).i
  IN /\ At(p, "ifree")
     /\ ents' = [ents EXCEPT ![i] = <<>>]
     /\ dinode' = [dinode EXCEPT ![i] = free]
     /\ inode' = [inode EXCEPT ![i].type = "FREE"]
     /\ lost' = (lost \/ ~isdirempty(i))
     /\ Then(p, <<I("invalid", i, None, <<>>)>>)
     /\ UNCHANGED <<ref, lock, cwd, ofile>>

(* valid = 0 and releasesleep; the reference goes under itable.lock again. *)
invalid(p) ==
  LET i == This(p).i
  IN /\ At(p, "invalid")
     /\ inode' = [inode EXCEPT ![i].valid = FALSE]
     /\ lock' = [lock EXCEPT ![i] = None]
     /\ Then(p, <<I("drop", i, None, <<>>)>>)
     /\ UNCHANGED <<dinode, ents, ref, cwd, ofile>>

drop(p) ==
  /\ At(p, "drop")
  /\ unref(This(p).i)
  /\ Then(p, <<>>)
  /\ UNCHANGED <<dinode, ents, lock, cwd, ofile>>

-----------------------------------------------------------------------------
(* dirlookup finds the name; dirlink adds one that is not there.           *)
dirlookup(dp, name) == name \in DOMAIN ents[dp]

dirlink(dp, name, inum) == ents[dp] @@ [n \in {name} |-> inum]

(* namex, one element of the path: j is set for nameiparent, which stops   *)
(* one level early.  It holds one lock at a time.                          *)
Namex(i, path, parent) == I("namex", i, parent, path)

namex(p) ==
  LET a == This(p)
      name == Head(a.path)
  IN /\ At(p, "namex")
     /\ CanLock(a.i)
     /\ Load(a.i)
     /\ \/ /\ Loaded(a.i).type # "DIR"
           /\ Returns(p, <<Iput(a.i)>>, None)
           /\ UNCHANGED ref
        \/ /\ Loaded(a.i).type = "DIR"
           /\ a.j = "parent" /\ Len(a.path) = 1
           /\ Returns(p, <<>>, a.i)
           /\ UNCHANGED ref
        \/ /\ Loaded(a.i).type = "DIR"
           /\ ~(a.j = "parent" /\ Len(a.path) = 1)
           /\ ~dirlookup(a.i, name)
           /\ Returns(p, <<Iput(a.i)>>, None)
           /\ UNCHANGED ref
        \/ /\ Loaded(a.i).type = "DIR"
           /\ ~(a.j = "parent" /\ Len(a.path) = 1)
           /\ dirlookup(a.i, name)
           /\ iget(ents[a.i][name])
           /\ IF Len(a.path) = 1
              THEN Returns(p, <<Iput(a.i)>>, ents[a.i][name])
              ELSE Then(p, <<Iput(a.i), Namex(ents[a.i][name], Tail(a.path), a.j)>>)
     /\ UNCHANGED <<dinode, ents, lock, cwd, ofile>>

-----------------------------------------------------------------------------
(* sys_link, the inode found: one link more, before the entry exists.      *)
link(p) ==
  LET a == This(p)
  IN /\ At(p, "link")
     /\ \/ /\ a.i = None
           /\ Then(p, <<>>)
           /\ UNCHANGED <<dinode, inode, ref>>
        \/ /\ a.i # None /\ CanLock(a.i) /\ Loaded(a.i).type = "DIR"
           /\ Load(a.i)
           /\ Then(p, <<Iput(a.i)>>)
           /\ UNCHANGED <<dinode, ref>>
        \/ /\ a.i # None /\ CanLock(a.i) /\ Loaded(a.i).type # "DIR"
           /\ SetNlink(a.i, Loaded(a.i).nlink + 1)
           /\ LET start == IF Head(a.path) = "/" THEN ROOTINO ELSE cwd[p]
              IN /\ iget(start)
                 /\ Then(p, <<Namex(start, SelectSeq(a.path, LAMBDA n : n # "/"), "parent"),
                              I("linkto", None, a.i, a.path)>>)
     /\ UNCHANGED <<ents, lock, cwd, ofile>>

Last(path) == path[Len(path)]

(* sys_link, the directory found: dirlink fails on a name that is there    *)
(* (which it looks up and puts again), or on a full disk.                  *)
linkto(p) ==
  LET a == This(p)
      name == Last(a.path)
      bad == I("bad", a.j, None, <<>>)
  IN /\ At(p, "linkto")
     /\ \/ /\ a.i = None
           /\ Then(p, <<bad>>)
           /\ UNCHANGED <<ents, inode, ref, lock>>
        \/ /\ a.i # None /\ CanLock(a.i) /\ dirlookup(a.i, name)
           /\ Load(a.i)
           /\ lock' = [lock EXCEPT ![a.i] = p]
           /\ iget(ents[a.i][name])
           /\ Then(p, <<Iput(ents[a.i][name]), I("unlock", a.i, None, <<>>), bad>>)
           /\ UNCHANGED ents
        \/ /\ a.i # None /\ CanLock(a.i) /\ ~dirlookup(a.i, name)
           /\ Load(a.i)
           /\ \/ /\ ents' = [ents EXCEPT ![a.i] = dirlink(a.i, name, a.j)]
                 /\ Then(p, <<Iput(a.i), Iput(a.j)>>)
              \/ /\ Then(p, <<Iput(a.i), bad>>)
                 /\ UNCHANGED ents
           /\ UNCHANGED <<ref, lock>>
     /\ UNCHANGED <<dinode, cwd, ofile>>

(* Mutants of bad: without the iput; without taking back the link.         *)
bad_NoPut(p) ==
  LET i == This(p).i
  IN /\ At(p, "bad")
     /\ CanLock(i)
     /\ SetNlink(i, Loaded(i).nlink - 1)
     /\ Then(p, <<>>)
     /\ UNCHANGED <<ents, ref, lock, cwd, ofile>>

bad_Kept(p) ==
  LET i == This(p).i
  IN /\ At(p, "bad")
     /\ CanLock(i)
     /\ SetNlink(i, Loaded(i).nlink)
     /\ Then(p, <<Iput(i)>>)
     /\ UNCHANGED <<ents, ref, lock, cwd, ofile>>

(* bad: the link is taken back.                                            *)
bad(p) ==
  LET i == This(p).i
  IN /\ At(p, "bad")
     /\ CanLock(i)
     /\ SetNlink(i, Loaded(i).nlink - 1)
     /\ Then(p, <<Iput(i)>>)
     /\ UNCHANGED <<ents, ref, lock, cwd, ofile>>

(* iunlockput of a directory that was kept locked.                         *)
unlock(p) ==
  LET i == This(p).i
  IN /\ At(p, "unlock")
     /\ lock' = [lock EXCEPT ![i] = None]
     /\ Then(p, <<Iput(i)>>)
     /\ UNCHANGED <<dinode, ents, inode, ref, cwd, ofile>>

-----------------------------------------------------------------------------
(* sys_unlink, the directory found: it stays locked while the inode is.    *)
unlink(p) ==
  LET a == This(p)
      name == Last(a.path)
  IN /\ At(p, "unlink")
     /\ \/ /\ a.i = None
           /\ Then(p, <<>>)
           /\ UNCHANGED <<inode, ref, lock>>
        \/ /\ a.i # None /\ CanLock(a.i)
           /\ name \in {".", ".."} \/ ~dirlookup(a.i, name)
           /\ Load(a.i)
           /\ Then(p, <<Iput(a.i)>>)
           /\ UNCHANGED <<ref, lock>>
        \/ /\ a.i # None /\ CanLock(a.i)
           /\ name \notin {".", ".."} /\ dirlookup(a.i, name)
           /\ Load(a.i)
           /\ lock' = [lock EXCEPT ![a.i] = p]
           /\ iget(ents[a.i][name])
           /\ Then(p, <<I("unlink2", ents[a.i][name], a.i, a.path)>>)
     /\ UNCHANGED <<dinode, ents, cwd, ofile>>

(* The inode is locked too: the entry goes, and the link that ".." in it   *)
(* was to the directory.                                                   *)
unlink2(p) ==
  LET a == This(p)
      dp == a.j
      isdir == Loaded(a.i).type = "DIR"
  IN /\ At(p, "unlink2")
     /\ CanLock(a.i)
     /\ \/ /\ isdir /\ ~isdirempty(a.i)
           /\ Load(a.i)
           /\ Then(p, <<Iput(a.i), I("unlock", dp, None, <<>>)>>)
           /\ UNCHANGED <<dinode, ents, lock>>
        \/ /\ ~(isdir /\ ~isdirempty(a.i))
           /\ ents' = [ents EXCEPT ![dp] = [n \in DOMAIN @ \ {Last(a.path)} |-> @[n]]]
           /\ inode' = [inode EXCEPT ![a.i] = Loaded(a.i),
                                     ![dp].nlink = IF isdir THEN @ - 1 ELSE @]
           /\ dinode' = [dinode EXCEPT ![dp].nlink = IF isdir THEN @ - 1 ELSE @]
           /\ lock' = [lock EXCEPT ![a.i] = p, ![dp] = None]
           /\ Then(p, <<Iput(dp), I("unlink3", a.i, None, <<>>)>>)
     /\ UNCHANGED <<ref, cwd, ofile>>

(* Its own link, and iunlockput.                                           *)
unlink3(p) ==
  LET i == This(p).i
  IN /\ At(p, "unlink3")
     /\ SetNlink(i, Loaded(i).nlink - 1)
     /\ lock' = [lock EXCEPT ![i] = None]
     /\ Then(p, <<Iput(i)>>)
     /\ UNCHANGED <<ents, ref, cwd, ofile>>

-----------------------------------------------------------------------------
(* ialloc takes the first inode that is free on the disk.                  *)
Unused == {i \in Inums : dinode[i].type = "FREE"}
ialloc == Min(Unused)

(* create, the directory found: a name that is there is for the caller to  *)
(* look at once the directory is unlocked; else an inode is allocated and  *)
(* the directory stays locked.  j is the type.                             *)
create(p) ==
  LET a == This(p)
      name == Last(a.path)
  IN /\ At(p, "create")
     /\ \/ /\ a.i = None
           /\ Returns(p, <<>>, None)
           /\ UNCHANGED <<dinode, inode, ref, lock>>
        \/ /\ a.i # None /\ CanLock(a.i) /\ dirlookup(a.i, name)
           /\ Load(a.i)
           /\ iget(ents[a.i][name])
           /\ Then(p, <<Iput(a.i), I("exists", ents[a.i][name], a.j, <<>>)>>)
           /\ UNCHANGED <<dinode, lock>>
        \/ /\ a.i # None /\ CanLock(a.i) /\ ~dirlookup(a.i, name) /\ Unused = {}
           /\ Load(a.i)
           /\ Returns(p, <<Iput(a.i)>>, None)
           /\ UNCHANGED <<dinode, ref, lock>>
        \/ /\ a.i # None /\ CanLock(a.i) /\ ~dirlookup(a.i, name) /\ Unused # {}
           /\ Load(a.i)
           /\ lock' = [lock EXCEPT ![a.i] = p]
           /\ dinode' = [dinode EXCEPT ![ialloc] = [type |-> a.j, nlink |-> 0]]
           /\ iget(ialloc)
           /\ Then(p, <<I("new", ialloc, a.i, a.path)>>)
     /\ UNCHANGED <<ents, cwd, ofile>>

(* The name was there: an open that creates gets a file or a device.       *)
exists(p) ==
  LET a == This(p)
  IN /\ At(p, "exists")
     /\ CanLock(a.i)
     /\ Load(a.i)
     /\ IF a.j = "FILE" /\ Loaded(a.i).type \in {"FILE", "DEVICE"}
        THEN /\ lock' = [lock EXCEPT ![a.i] = p]
             /\ Returns(p, <<>>, a.i)
        ELSE /\ Returns(p, <<Iput(a.i)>>, None)
             /\ UNCHANGED lock
     /\ UNCHANGED <<dinode, ents, ref, cwd, ofile>>

(* The new inode gets its link and, if a directory, its entries, then its  *)
(* name; the caller gets it locked.  On a full disk it is given up.        *)
new(p) ==
  LET a == This(p)
      dp == a.j
      isdir == Loaded(a.i).type = "DIR"
      dots == IF isdir THEN [n \in {".", ".."} |-> IF n = "." THEN a.i ELSE dp] ELSE <<>>
      up == IF isdir THEN 1 ELSE 0
      made(n) == [Loaded(a.i) EXCEPT !.nlink = n]
  IN /\ At(p, "new")
     /\ CanLock(a.i)
     /\ \/ /\ ents' = [ents EXCEPT ![a.i] = dots, ![dp] = dirlink(dp, Last(a.path), a.i)]
           /\ inode' = [inode EXCEPT ![a.i] = made(1), ![dp].nlink = @ + up]
           /\ dinode' = [dinode EXCEPT ![a.i].nlink = 1, ![dp].nlink = @ + up]
           /\ lock' = [lock EXCEPT ![a.i] = p, ![dp] = None]
           /\ Returns(p, <<Iput(dp)>>, a.i)
        \/ \E e \in {dots, <<>>} :
             /\ ents' = [ents EXCEPT ![a.i] = e]
             /\ inode' = [inode EXCEPT ![a.i] = made(0)]
             /\ Returns(p, <<Iput(a.i), I("unlock", dp, None, <<>>)>>, None)
             /\ UNCHANGED <<dinode, lock>>
     /\ UNCHANGED <<ref, cwd, ofile>>

-----------------------------------------------------------------------------
(* sys_open, the inode found by namei: a directory can only be read.  j is *)
(* the mode.                                                               *)
open(p) ==
  LET a == This(p)
  IN /\ At(p, "open")
     /\ \/ /\ a.i = None
           /\ Then(p, <<>>)
           /\ UNCHANGED <<inode, lock>>
        \/ /\ a.i # None /\ CanLock(a.i)
           /\ Loaded(a.i).type = "DIR" /\ a.j # "RDONLY"
           /\ Load(a.i)
           /\ Then(p, <<Iput(a.i)>>)
           /\ UNCHANGED lock
        \/ /\ a.i # None /\ CanLock(a.i)
           /\ ~(Loaded(a.i).type = "DIR" /\ a.j # "RDONLY")
           /\ Load(a.i)
           /\ lock' = [lock EXCEPT ![a.i] = p]
           /\ Then(p, <<I("opened", a.i, None, <<>>)>>)
     /\ UNCHANGED <<dinode, ents, ref, cwd, ofile>>

(* sys_open with the inode locked, as namei or create left it: the file    *)
(* takes over the reference, or there is no file or descriptor left (the   *)
(* process has one), or no such device.                                    *)
opened(p) ==
  LET i == This(p).i
  IN /\ At(p, "opened")
     /\ \/ /\ i = None
           /\ Then(p, <<>>)
           /\ UNCHANGED <<lock, ofile>>
        \/ /\ i # None /\ ofile[p] = None
           /\ ofile' = [ofile EXCEPT ![p] = i]
           /\ lock' = [lock EXCEPT ![i] = None]
           /\ Then(p, <<>>)
        \/ /\ i # None
           /\ lock' = [lock EXCEPT ![i] = None]
           /\ Then(p, <<Iput(i)>>)
           /\ UNCHANGED ofile
     /\ UNCHANGED <<dinode, ents, inode, ref, cwd>>

(* sys_mkdir and sys_mknod, after create.                                  *)
made(p) ==
  LET i == This(p).i
  IN /\ At(p, "made")
     /\ IF i = None
        THEN Then(p, <<>>) /\ UNCHANGED lock
        ELSE Then(p, <<Iput(i)>>) /\ lock' = [lock EXCEPT ![i] = None]
     /\ UNCHANGED <<dinode, ents, inode, ref, cwd, ofile>>

(* sys_chdir, the inode found: the old directory is put.                   *)
chdir(p) ==
  LET i == This(p).i
  IN /\ At(p, "chdir")
     /\ \/ /\ i = None
           /\ Then(p, <<>>)
           /\ UNCHANGED inode
        \/ /\ i # None /\ CanLock(i)
           /\ Load(i)
           /\ IF Loaded(i).type = "DIR"
              THEN Then(p, <<Iput(cwd[p]), I("setcwd", i, None, <<>>)>>)
              ELSE Then(p, <<Iput(i)>>)
     /\ UNCHANGED <<dinode, ents, ref, lock, cwd, ofile>>

setcwd(p) ==
  /\ At(p, "setcwd")
  /\ cwd' = [cwd EXCEPT ![p] = This(p).i]
  /\ Then(p, <<>>)
  /\ UNCHANGED <<dinode, ents, inode, ref, lock, ofile>>

-----------------------------------------------------------------------------
(* A call that starts with a path: namex begins at the root or at the      *)
(* working directory.                                                      *)
After(c) ==
  CASE c.op = "link"   -> <<I("link", None, None, c.new)>>
    [] c.op = "unlink" -> <<I("unlink", None, None, c.path)>>
    [] c.op = "open"   -> <<I("open", None, c.mode, <<>>)>>
    [] c.op = "creat"  -> <<I("create", None, "FILE", c.path), I("opened", None, None, <<>>)>>
    [] c.op = "mkdir"  -> <<I("create", None, "DIR", c.path), I("made", None, None, <<>>)>>
    [] c.op = "mknod"  -> <<I("create", None, "DEVICE", c.path), I("made", None, None, <<>>)>>
    [] c.op = "chdir"  -> <<I("chdir", None, None, <<>>)>>

Begin(p, c) ==
  LET start == IF Head(c.path) = "/" THEN ROOTINO ELSE cwd[p]
      elems == SelectSeq(c.path, LAMBDA n : n # "/")
      parent == IF c.op \in {"unlink", "creat", "mkdir", "mknod"} THEN "parent" ELSE None
  IN /\ todo[p] = <<>> /\ cwd[p] # None
     /\ c.op = "link" => \A i \in Inums : dinode[i].nlink <= LinkMax
     /\ iget(start)
     /\ todo' = [todo EXCEPT ![p] =
                  IF elems # <<>> THEN <<Namex(start, elems, parent)>> \o After(c)
                  ELSE IF parent = "parent" THEN <<Iput(start)>> \o After(c)
                  ELSE <<[Head(After(c)) EXCEPT !.i = start]>> \o Tail(After(c))]
     /\ UNCHANGED <<dinode, ents, inode, lock, cwd, ofile>>

(* fileclose, the last reference to the open file.                         *)
Close(p) ==
  /\ todo[p] = <<>> /\ ofile[p] # None
  /\ todo' = [todo EXCEPT ![p] = <<Iput(ofile[p])>>]
  /\ ofile' = [ofile EXCEPT ![p] = None]
  /\ UNCHANGED <<dinode, ents, inode, ref, lock, cwd>>

(* exit, its files closed: the working directory goes.                     *)
Exit(p) ==
  /\ todo[p] = <<>> /\ ofile[p] = None /\ cwd[p] # None
  /\ todo' = [todo EXCEPT ![p] = <<Iput(cwd[p])>>]
  /\ cwd' = [cwd EXCEPT ![p] = None]
  /\ UNCHANGED <<dinode, ents, inode, ref, lock, ofile>>

Step(p) ==
  \/ iput(p) \/ invalid(p) \/ drop(p) \/ unlock(p)
  \/ namex(p)
  \/ link(p) \/ linkto(p) \/ bad(p)
  \/ unlink(p) \/ unlink2(p) \/ unlink3(p)
  \/ create(p) \/ exists(p) \/ new(p)
  \/ open(p) \/ opened(p) \/ made(p) \/ chdir(p) \/ setcwd(p)
  \/ Close(p) \/ Exit(p)

(* The panics: ilock of an inode that has been freed, dirlookup in what is *)
(* not a directory, unlink of an inode without links; iget with no entry   *)
(* left.                                                                   *)
Panics(p) ==
  LET op == This(p).op
      ip == Loaded(This(p).i)
  IN /\ todo[p] # <<>> /\ This(p).i # None
     /\ \/ ip.type = "FREE" /\ op \notin {"iput", "ifree", "invalid", "drop", "unlock", "setcwd"}
        \/ ip.type # "DIR" /\ op \in {"linkto", "unlink", "create"}
        \/ ip.nlink < 1 /\ op = "unlink2"
NoInodes == Cardinality({i \in Inums : ref'[i] > 0}) > NINODE

Done == (panicked \/ \A p \in Procs : todo[p] = <<>>) /\ UNCHANGED vars

Next ==
  \/ \E p \in Procs :
       /\ ~panicked
       /\ \/ ifree(p)
          \/ (Step(p) \/ \E c \in Calls[p] : Begin(p, c)) /\ UNCHANGED lost
       /\ panicked' = (Panics(p) \/ NoInodes)
  \/ Done

Spec == Init /\ [][Next]_vars
-----------------------------------------------------------------------------
(* Names: the entries of directories other than "." and "..".              *)
Names(d) == DOMAIN ents[d] \ {".", ".."}
NamesOf(i) == UNION {{<<d, n>> : n \in {n \in Names(d) : ents[d][n] = i}} : d \in Inums}
Subdirs(i) == {n \in Names(i) : dinode[ents[i][n]].type = "DIR"}

(* None of the panics of ilock, iget, dirlookup and sys_unlink is reached. *)
NeverPanics == ~panicked

(* What a process has still to do, with the references it has for that.    *)
Todo == UNION {{<<p, k>> : k \in DOMAIN todo[p]} : p \in Procs}
Second(a) == IF a.op \in {"linkto", "unlink2", "new"} THEN a.j ELSE None
Chdir(p) == \E k \in DOMAIN todo[p] : todo[p][k].op = "setcwd"

(* Reference counts are exact: what iput compares with 1 is the number of  *)
(* pointers to the entry in working directories, open files and calls in   *)
(* progress.                                                               *)
RefExact ==
  \A i \in Inums :
    ref[i] = Cardinality({p \in Procs : cwd[p] = i /\ ~Chdir(p)})
             + Cardinality({p \in Procs : ofile[p] = i})
             + Cardinality({x \in Todo : todo[x[1]][x[2]].i = i})
             + Cardinality({x \in Todo : Second(todo[x[1]][x[2]]) = i})

(* Directories and link counts agree.  At every moment a name leads to an  *)
(* inode that is allocated and counts it: link counts before it names,     *)
(* unlink and create the other way round.  While no call is in progress,   *)
(* the state that a crash would leave has exact link counts, the one of a  *)
(* directory with the ".." of its subdirectories.                          *)
DiskConsistent ==
  /\ \A i \in Inums :
       /\ dinode[i].nlink >= Cardinality(NamesOf(i))
       /\ NamesOf(i) # {} => dinode[i].type # "FREE"
  /\ ~lost /\ (\A p \in Procs : todo[p] = <<>>) =>
       \A i \in Inums :
         /\ dinode[i].nlink = Cardinality(NamesOf(i)) + Cardinality(Subdirs(i))
                              + (IF i = ROOTINO THEN 1 ELSE 0)
         /\ \A n \in Subdirs(i) : ents[ents[i][n]][".."] = i

(* An inode without links is freed with the last reference, as the comment *)
(* at iput says.                                                           *)
NoOrphans ==
  \A i \in Inums : dinode[i].type # "FREE" /\ dinode[i].nlink = 0 => ref[i] > 0
=============================================================================
