------------------------------ MODULE FileData ------------------------------
(***************************************************************************)
(* What reading and writing files promises: a file's bytes are one         *)
(* sequence, an open file has an offset into it, and a write puts its      *)
(* bytes at the offset and moves the offset past exactly these bytes, some *)
(* of them at a time.  A write that fails may leave bytes behind the       *)
(* offset overwritten, but never makes the file longer than the offset.    *)
(***************************************************************************)
EXTENDS Naturals, Sequences

CONSTANTS
  Files,    \* open files,
  Inums,    \*   inodes,
  ip,       \*   and the inode of each file
  Values,   \* of a byte
  Part      \* bytes written at a time

VARIABLES text, off

Init == text = [i \in Inums |-> <<>>] /\ off = [f \in Files |-> 0]

(* The bytes s at position o of the text t.                                *)
Put(t, o, s) ==
  [k \in 1 .. IF o + Len(s) > Len(t) THEN o + Len(s) ELSE Len(t) |->
     IF k \in o + 1 .. o + Len(s) THEN s[k - o] ELSE t[k]]

Bytes == {[k \in 1 .. n |-> v] : n \in 1 .. Part, v \in Values}

Write(f, s) ==
  /\ off[f] <= Len(text[ip[f]])
  /\ text' = [text EXCEPT ![ip[f]] = Put(@, off[f], s)]
  /\ off' = [off EXCEPT ![f] = @ + Len(s)]

WriteFails(f, s) ==
  /\ off[f] <= Len(text[ip[f]])
  /\ text' = [text EXCEPT ![ip[f]] = SubSeq(Put(@, off[f], s), 1, Len(@))]
  /\ UNCHANGED off

Read(f) ==
  /\ \E n \in off[f] .. Len(text[ip[f]]) : off' = [off EXCEPT ![f] = n]
  /\ UNCHANGED text

Open(f) == off' = [off EXCEPT ![f] = 0] /\ UNCHANGED text

Truncate(f) ==
  /\ off' = [off EXCEPT ![f] = 0]
  /\ text' = [text EXCEPT ![ip[f]] = <<>>]

Next ==
  \E f \in Files :
    \/ \E s \in Bytes : Write(f, s) \/ WriteFails(f, s)
    \/ Read(f) \/ Open(f) \/ Truncate(f)

vars == <<text, off>>

(* TLC tests first whether a step changes anything. *)
Spec == Init /\ [][vars' # vars /\ Next]_vars
=============================================================================
