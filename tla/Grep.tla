------------------------------- MODULE Grep --------------------------------
(***************************************************************************)
(* user/grep.c: the matcher, and the loop that reads a file or a pipe into *)
(* a buffer, prints the lines that match and keeps the unfinished one.     *)
(* A read returns some of the bytes that are left, as a pipe does, but no  *)
(* more than fit.  A text is a sequence of characters; a C string's final  *)
(* '\0' is the end of the sequence.                                        *)
(***************************************************************************)
EXTENDS Integers, SequencesExt

CONSTANTS Patterns,   \* the patterns searched for
          Chars,      \* the characters of a line
          MaxInput,   \* bound: the length of the input
          BUF         \* sizeof(buf)

NL == "nl"
-----------------------------------------------------------------------------
RECURSIVE matchhere(_, _), matchstar(_, _, _)

\* c*re at the beginning of text: re after 0, 1, 2... characters that are c.
matchstar(c, re, text) ==
  \/ matchhere(re, text)
  \/ /\ text # <<>> /\ (Head(text) = c \/ c = ".")
     /\ matchstar(c, re, Tail(text))

\* re at the beginning of text.
matchhere(re, text) ==
  IF re = <<>> THEN TRUE
  ELSE IF Len(re) > 1 /\ re[2] = "*"
    THEN matchstar(re[1], SubSeq(re, 3, Len(re)), text)
  ELSE IF re = <<"$">> THEN text = <<>>
  ELSE /\ text # <<>> /\ (re[1] = "." \/ re[1] = text[1])
       /\ matchhere(Tail(re), Tail(text))

match(re, text) ==
  IF re # <<>> /\ re[1] = "^" THEN matchhere(Tail(re), text)
  ELSE \E i \in 0..Len(text) : matchhere(re, SubSeq(text, i + 1, Len(text)))

-----------------------------------------------------------------------------
VARIABLES pattern,
          input,     \* what read() has still to return
          whole,     \* the input from the start
          buf,       \* buf[0..m-1]
          out,       \* the lines written
          done

vars == <<pattern, input, whole, buf, out, done>>

Init ==
  /\ pattern \in Patterns
  /\ input \in UNION {[1..k -> Chars \cup {NL}] : k \in 0..MaxInput}
  /\ whole = input
  /\ buf = <<>>
  /\ out = <<>>
  /\ done = FALSE

\* The complete lines of a text, and what follows the last newline.
Lines(text) ==
  LET nls == {i \in 1..Len(text) : text[i] = NL}
      ends == SetToSortSeq(nls, <)
  IN  [k \in 1..Len(ends) |->
         SubSeq(text, (IF k = 1 THEN 0 ELSE ends[k - 1]) + 1, ends[k] - 1)]

Rest_None(text) == <<>>

Rest(text) ==
  LET nls == {i \in 1..Len(text) : text[i] = NL}
  IN  SubSeq(text, (IF nls = {} THEN 0 ELSE Max(nls)) + 1, Len(text))

\* One turn of grep()'s loop: read n bytes, write the complete lines that
\* match, move the rest to the front; 0 bytes end it, also for a full buffer.
grep(n) ==
  LET room == BUF - Len(buf) - 1
      now == buf \o SubSeq(input, 1, n)
  IN  /\ ~done
      /\ n <= room /\ n <= Len(input)
      /\ n = 0 => (room = 0 \/ input = <<>>)
      /\ input' = SubSeq(input, n + 1, Len(input))
      /\ out' = out \o SelectSeq(Lines(now), LAMBDA l : match(pattern, l))
      /\ buf' = Rest(now)
      /\ done' = (n = 0)
      /\ UNCHANGED <<pattern, whole>>

Done == done /\ UNCHANGED vars

Next == (\E n \in 0..MaxInput : grep(n)) \/ Done

Spec == Init /\ [][Next]_vars

-----------------------------------------------------------------------------
(* What a pattern means, without the matcher: a list of characters, each   *)
(* alone or repeated, that must cover a stretch of the text.               *)

RECURSIVE Items(_)
Items(re) ==
  IF re = <<>> THEN <<>>
  ELSE IF Len(re) > 1 /\ re[2] = "*"
    THEN <<[c |-> re[1], kind |-> "star"]>> \o Items(SubSeq(re, 3, Len(re)))
  ELSE IF re = <<"$">> THEN <<[c |-> "$", kind |-> "end"]>>
  ELSE <<[c |-> re[1], kind |-> "one"]>> \o Items(Tail(re))

\* The item covers text[i+1..j].
Covers(item, text, i, j) ==
  /\ item.kind = "one" => j = i + 1
  /\ item.kind = "end" => i = Len(text) /\ j = i
  /\ item.kind # "end" => \A k \in (i + 1)..j : item.c \in {".", text[k]}

Means(re, text) ==
  LET anchored == re # <<>> /\ re[1] = "^"
      items == Items(IF anchored THEN Tail(re) ELSE re)
      n == Len(items)
  IN  \E cut \in [0..n -> 0..Len(text)] :
        /\ anchored => cut[0] = 0
        /\ \A k \in 1..n :
             cut[k - 1] <= cut[k] /\ Covers(items[k], text, cut[k - 1], cut[k])

\* The lines that fit in the buffer with their newline, before the first
\* one that does not.
Fitting(lines) ==
  LET long == {k \in 1..Len(lines) : Len(lines[k]) > BUF - 2}
  IN  SubSeq(lines, 1, IF long = {} THEN Len(lines) ELSE Min(long) - 1)

\* However the reads split the input, grep has printed at the end exactly
\* the complete lines that contain the pattern (as Means defines it), up to
\* the first line that does not fit in the buffer.
PrintsMatches ==
  done => out = SelectSeq(Fitting(Lines(whole)), LAMBDA l : Means(pattern, l))

=============================================================================
