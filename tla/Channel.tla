------------------------------ MODULE Channel -------------------------------
(***************************************************************************)
(* What a pipe promises: the bytes come out in the order in which they     *)
(* went in, at most Size of them are under way, nothing is written when    *)
(* the reading end is closed, and a reader sees the end of the stream only *)
(* when the writing end is closed and every byte has been read.            *)
(***************************************************************************)
EXTENDS Sequences, Naturals

CONSTANTS Bytes, Size

VARIABLES
  queue,            \* the bytes under way
  reading, writing  \* the ends that are open

vars == <<queue, reading, writing>>

Init ==
  /\ queue = <<>>
  /\ reading = FALSE
  /\ writing = FALSE

Create ==
  /\ ~reading /\ ~writing
  /\ queue' = <<>>
  /\ reading' = TRUE
  /\ writing' = TRUE

Put(x) ==
  /\ writing /\ reading
  /\ Len(queue) < Size
  /\ queue' = Append(queue, x)
  /\ UNCHANGED <<reading, writing>>

Get ==
  /\ reading
  /\ queue # <<>>
  /\ queue' = Tail(queue)
  /\ UNCHANGED <<reading, writing>>

CloseWriter ==
  /\ writing
  /\ writing' = FALSE
  /\ queue' = IF reading THEN queue ELSE <<>>
  /\ UNCHANGED reading

CloseReader ==
  /\ reading
  /\ reading' = FALSE
  /\ queue' = IF writing THEN queue ELSE <<>>
  /\ UNCHANGED writing

Next ==
  \/ Create
  \/ \E x \in Bytes : Put(x)
  \/ Get
  \/ CloseWriter
  \/ CloseReader

(* TLC tests first whether a step changes anything. *)
Spec == Init /\ [][vars' # vars /\ Next]_vars
=============================================================================
