----------------------------- MODULE LineInput ------------------------------
(***************************************************************************)
(* What the console promises its readers: what is typed can be edited      *)
(* until the line (or the buffer) is complete; complete input is read in   *)
(* the order in which it was typed, every character once.                  *)
(***************************************************************************)
EXTENDS Naturals, Sequences

CONSTANTS Keys, Size

VARIABLES
  ready,  \* characters that can be read
  edit    \* characters of the line being typed

Init == ready = <<>> /\ edit = <<>>

Type(c) ==
  LET line == Append(edit, c)
  IN /\ Len(ready) + Len(edit) < Size
     /\ IF c \in {"NL", "^D"} \/ Len(ready) + Len(line) = Size
        THEN ready' = ready \o line /\ edit' = <<>>
        ELSE edit' = line /\ UNCHANGED ready

Erase(n) ==
  /\ edit' = SubSeq(edit, 1, Len(edit) - n)
  /\ UNCHANGED ready

Take ==
  /\ ready # <<>>
  /\ ready' = Tail(ready)
  /\ UNCHANGED edit

Next ==
  \/ \E c \in Keys : Type(c)
  \/ edit # <<>> /\ (Erase(1) \/ Erase(Len(edit)))
  \/ Take

Spec == Init /\ [][Next]_<<ready, edit>>
=============================================================================
