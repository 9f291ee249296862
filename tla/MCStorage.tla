----------------------------- MODULE MCStorage ------------------------------
(***************************************************************************)
(* Two layers of the storage stack, checked in one run: the log (Log) and  *)
(* the buffer cache below it (Bcache).  The initial states choose one of   *)
(* them; the variables of the other keep their initial values.             *)
(***************************************************************************)
EXTENDS Log, TLC

CONSTANTS Bufs, MaxPins, None

VARIABLES part,
          blockno, valid, refcnt, lock, lru, held, at, buf, device, data, req,
          cachePanic

cacheVars == <<blockno, valid, refcnt, lock, lru, held, at, buf, device, data, req,
               cachePanic>>

\* The processes use the cache, and the blocks are the same.
Buffers == INSTANCE Bcache WITH
  Users <- Procs, disk <- device, pinned <- held, pc <- at, panicked <- cachePanic

\* The constants of both, and the room that calls leave in the log.
ASSUME Constants == SpaceAssumption /\ Buffers!BcacheAssumption

MCInit ==
  /\ part \in {"log", "cache"}
  /\ Init
  /\ Buffers!Init

MCNext ==
  \/ part = "log" /\ Next /\ UNCHANGED <<part, cacheVars>>
  \/ part = "cache" /\ Buffers!Next /\ UNCHANGED <<part, vars>>

MCSpec == MCInit /\ [][MCNext]_<<part, vars, cacheVars>>

\* Processes, buffers and blocks are interchangeable.
Symmetry == Permutations(Procs) \cup Permutations(Bufs) \cup Permutations(Blocks)

-----------------------------------------------------------------------------
\* Bcache: one buffer for a block, exact counts, and no sleeper on a free lock.
BuffersCounted == Buffers!BuffersCounted

\* Bcache: whoever holds a block sees its latest contents.
ImplementsBlockStore == Buffers!ImplementsBlockStore

=============================================================================
