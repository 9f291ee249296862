------------------------------ MODULE FileTable -----------------------------
(***************************************************************************)
(* Open files: kernel/file.c, and the system calls of kernel/sysfile.c     *)
(* that work on descriptors, with the pipe below them (module Pipe).       *)
(*                                                                         *)
(* There is memory for one pipe at a time.  p->ofile is touched by its     *)
(* process only, so its changes are part of the step that takes            *)
(* ftable.lock.  Files for inodes have the same counts and other contents; *)
(* they are left out.                                                      *)
(***************************************************************************)
EXTENDS Pipe

CONSTANTS
  NOFILE,       \* descriptors of a process
  Files,        \* the slots of ftable
  First         \* the process that exists at the start

ASSUME FileAssumption ==
  /\ NOFILE \in Nat
  /\ None \notin Files
  /\ First \in Procs /\ IsFiniteSet(Procs)

VARIABLES
  file,         \* ftable: ref, type and writable of each slot
  ofile,        \* the descriptors of each process
  mine,         \* the files sys_pipe has got and not yet put in ofile
  end, then     \* in fileclose: ff.writable, and where the caller goes on

files == <<file, ofile, mine, end, then>>
vars == <<pipe, killed, pc, files>>

Fds == 1 .. NOFILE
FreeFile == [ref |-> 0, type |-> "none", writable |-> FALSE]

Init ==
  /\ PipeInit
  /\ pc = [p \in Procs |-> IF p = First THEN "user" ELSE "none"]
  /\ file = [f \in Files |-> FreeFile]
  /\ ofile = [p \in Procs |-> [d \in Fds |-> None]]
  /\ mine = [p \in Procs |-> <<>>]
  /\ end = [p \in Procs |-> FALSE]
  /\ then = [p \in Procs |-> "user"]

(* The process makes a system call.                                        *)
User(p) == pc[p] = "user" /\ p \notin killed

FreeFds(p) == {d \in Fds : ofile[p][d] = None}
-----------------------------------------------------------------------------
(* filealloc, twice in pipealloc.                                          *)
sys_pipe(p) ==
  /\ User(p) \/ pc[p] = "pipe"
  /\ Len(mine[p]) < 2
  /\ IF \E f \in Files : file[f].ref = 0
     THEN \E f \in Files :
            /\ file[f].ref = 0
            /\ file' = [file EXCEPT ![f].ref = 1]
            /\ mine' = [mine EXCEPT ![p] = Append(@, f)]
            /\ Goto(p, "pipe")
     ELSE /\ Goto(p, "bad")
          /\ UNCHANGED <<file, mine>>
  /\ UNCHANGED <<pipe, killed, ofile, end, then>>

(* The rest of pipealloc: kalloc fails, or the pipe is set up.             *)
pipealloc(p) ==
  /\ pc[p] = "pipe" /\ Len(mine[p]) = 2
  /\ \/ /\ Goto(p, "bad")
        /\ UNCHANGED <<pi, file>>
     \/ /\ pi = NoPipe
        /\ pi' = [NoPipe EXCEPT !.readopen = TRUE, !.writeopen = TRUE]
        /\ file' = [file EXCEPT ![mine[p][1]] = [@ EXCEPT !.type = "pipe", !.writable = FALSE],
                                ![mine[p][2]] = [@ EXCEPT !.type = "pipe", !.writable = TRUE]]
        /\ Goto(p, "fds")
  /\ UNCHANGED <<lock, n, i, cut, killed, ofile, mine, end, then>>

(* fdalloc for both ends; without two descriptors, or when copyout fails,  *)
(* the ends are closed again.                                              *)
PipeFds(p) ==
  LET d == Min(FreeFds(p))
      e == Min(FreeFds(p) \ {d})
  IN /\ pc[p] = "fds"
     /\ \/ /\ Goto(p, "bad")
           /\ UNCHANGED <<ofile, mine>>
        \/ /\ Cardinality(FreeFds(p)) >= 2
           /\ ofile' = [ofile EXCEPT ![p][d] = mine[p][1], ![p][e] = mine[p][2]]
           /\ mine' = [mine EXCEPT ![p] = <<>>]
           /\ Goto(p, "user")
     /\ UNCHANGED <<pipe, killed, file, end, then>>

(* --f->ref is 0.                                                          *)
Last(f) == file[f].ref = 1

(* The slot without a reference; the last one empties it.                  *)
Unref(f) == IF Last(f) THEN FreeFile ELSE [file[f] EXCEPT !.ref = @ - 1]

(* fileclose: the last reference empties the slot, and with the copy of    *)
(* the file the process goes on to pipeclose.                              *)
fileclose(p, f, next) ==
  /\ file' = [file EXCEPT ![f] = Unref(f)]
  /\ IF Last(f) /\ file[f].type = "pipe"
     THEN /\ Goto(p, "close")
          /\ end' = [end EXCEPT ![p] = file[f].writable]
          /\ then' = [then EXCEPT ![p] = next]
     ELSE /\ Goto(p, next)
          /\ UNCHANGED <<end, then>>

PipeClose(p) ==
  /\ pc[p] = "close"
  /\ pipeclose(p, end[p], then[p])
  /\ end' = [end EXCEPT ![p] = FALSE]
  /\ then' = [then EXCEPT ![p] = "user"]
  /\ UNCHANGED <<file, ofile, mine>>

(* sys_pipe fails: what it has is closed.                                  *)
PipeFails(p) ==
  /\ pc[p] = "bad"
  /\ IF mine[p] = <<>>
     THEN /\ Goto(p, "user")
          /\ UNCHANGED <<file, mine, end, then>>
     ELSE /\ fileclose(p, Head(mine[p]), "bad")
          /\ mine' = [mine EXCEPT ![p] = Tail(@)]
  /\ UNCHANGED <<pipe, killed, ofile>>

(* The count is not incremented. *)
filedup_Not(fs) == file

(* ftable after filedup for each descriptor in fs.                         *)
filedup(fs) == [f \in Files |-> [file[f] EXCEPT !.ref = @ + Cardinality(fs[f])]]

sys_dup(p, d) ==
  LET f == ofile[p][d]
  IN /\ User(p)
     /\ f # None
     /\ FreeFds(p) # {}
     /\ ofile' = [ofile EXCEPT ![p][Min(FreeFds(p))] = f]
     /\ file' = filedup([g \in Files |-> IF g = f THEN {d} ELSE {}])
     /\ UNCHANGED <<pipe, killed, pc, mine, end, then>>

sys_close(p, d) ==
  /\ User(p)
  /\ ofile[p][d] # None
  /\ ofile' = [ofile EXCEPT ![p][d] = None]
  /\ fileclose(p, ofile[p][d], "user")
  /\ UNCHANGED <<pipe, killed, mine>>

(* sys_read and sys_write on a pipe; argfd, fileread and filewrite refuse  *)
(* other descriptors.                                                      *)
sys_rw(p, d, k) ==
  /\ User(p)
  /\ ofile[p][d] # None
  /\ Goto(p, IF file[ofile[p][d]].writable THEN "wlock" ELSE "rlock")
  /\ n' = [n EXCEPT ![p] = k]
  /\ UNCHANGED <<pi, lock, i, cut, killed, files>>

(* fork: the child gets the descriptors of its parent, each with filedup.  *)
fork(p, q) ==
  /\ User(p)
  /\ pc[q] = "none"
  /\ ofile' = [ofile EXCEPT ![q] = ofile[p]]
  /\ file' = filedup([f \in Files |-> {d \in Fds : ofile[p][d] = f}])
  /\ Goto(q, "user")
  /\ UNCHANGED <<pipe, killed, mine, end, then>>

(* exit, by the process or because it is killed, closes all descriptors.   *)
exit(p) ==
  /\ pc[p] \in {"user", "exit"}
  /\ IF FreeFds(p) = Fds
     THEN /\ Goto(p, "none")
          /\ killed' = killed \ {p}
          /\ UNCHANGED <<file, ofile, end, then>>
     ELSE LET d == Min(Fds \ FreeFds(p))
          IN /\ ofile' = [ofile EXCEPT ![p][d] = None]
             /\ fileclose(p, ofile[p][d], "exit")
             /\ UNCHANGED killed
  /\ UNCHANGED <<pipe, mine>>
-----------------------------------------------------------------------------
Next ==
  \E p \in Procs :
    \/ PipeStep(p) /\ UNCHANGED files
    \/ kill(p) /\ UNCHANGED files
    \/ sys_pipe(p) \/ pipealloc(p) \/ PipeFds(p) \/ PipeFails(p) \/ PipeClose(p)
    \/ \E d \in Fds : sys_dup(p, d) \/ sys_close(p, d) \/ \E k \in 0 .. MaxN : sys_rw(p, d, k)
    \/ \E q \in Procs : fork(p, q)
    \/ exit(p)

Spec == Init /\ [][Next]_vars
-----------------------------------------------------------------------------
(* The references to a file: the descriptors of all processes, and what    *)
(* sys_pipe has not put into a descriptor yet.                             *)
Descriptors(f) == {x \in Procs \X Fds : ofile[x[1]][x[2]] = f}
InPipeCall(f) == {x \in Procs \X {1, 2} : x[2] <= Len(mine[x[1]]) /\ mine[x[1]][x[2]] = f}
Refs(f) == Cardinality(Descriptors(f)) + Cardinality(InPipeCall(f))

(* Some process is in the gap of fileclose before pipeclose for this end.  *)
Closing(writable) == \E p \in Procs : pc[p] = "close" /\ end[p] = writable

Referenced(writable) ==
  \E f \in Files : file[f].ref > 0 /\ file[f].type = "pipe" /\ file[f].writable = writable

(* Counting is exact in both layers.  f->ref is the number of references,  *)
(* so fileclose and filedup never find a count below 1.  An end of the     *)
(* pipe is open exactly as long as a file refers to it or its last close   *)
(* is on the way; the two never hold together, though the slot of the file *)
(* may be in use again by then.  A process inside piperead or pipewrite    *)
(* has its end open: the pipe is not freed under it.                       *)
RefExact ==
  /\ \A f \in Files : file[f].ref = Refs(f)
  /\ pi.writeopen <=> Referenced(TRUE) \/ Closing(TRUE)
  /\ pi.readopen <=> Referenced(FALSE) \/ Closing(FALSE)
  /\ \A w \in BOOLEAN : ~(Referenced(w) /\ Closing(w))
  /\ \A p \in Procs :
       /\ pc[p] \in {"rlock", "rwait", "rcopy", "rsleep"} => pi.readopen
       /\ pc[p] \in {"wlock", "wloop", "wsleep"} => pi.writeopen

=============================================================================
