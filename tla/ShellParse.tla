----------------------------- MODULE ShellParse -----------------------------
(***************************************************************************)
(* The parser of the shell (user/sh.c) on a sequence of tokens: "|", "&",  *)
(* ";", "(", ")", "<", ">", ">>" and words.  gettoken() and peek() become  *)
(* the head of the sequence; a string's end is the empty sequence.  A      *)
(* parsing function returns the command and the tokens that are left, or   *)
(* Panic when the C function does not return.                              *)
(***************************************************************************)
EXTENDS Integers, Sequences, FiniteSets

CONSTANTS Words, MAXARGS

-----------------------------------------------------------------------------
execcmd(argv) == [type |-> "EXEC", argv |-> argv]
redircmd(cmd, file, mode) ==
  [type |-> "REDIR", cmd |-> cmd, file |-> file, mode |-> mode,
   fd |-> IF mode = "<" THEN 0 ELSE 1]
pipecmd(left, right) == [type |-> "PIPE", left |-> left, right |-> right]
listcmd(left, right) == [type |-> "LIST", left |-> left, right |-> right]
backcmd(cmd) == [type |-> "BACK", cmd |-> cmd]

Panic == [cmd |-> [type |-> "PANIC"], rest |-> <<>>]
Result(cmd, rest) == [cmd |-> cmd, rest |-> rest]

peek(ts, toks) == ts # <<>> /\ Head(ts) \in toks

\* redircmd() around an EXEC whose argv is still growing: the arguments are
\* put in when the loop of parseexec() ends.
RECURSIVE WithArgs(_, _)
WithArgs(cmd, argv) ==
  IF cmd.type = "EXEC" THEN execcmd(argv)
  ELSE [cmd EXCEPT !.cmd = WithArgs(@, argv)]

RECURSIVE parseredirs(_, _), parseline(_), parsepipe(_), parseargs(_, _, _)

parseredirs(cmd, ts) ==
  IF ~peek(ts, {"<", ">", ">>"}) THEN Result(cmd, ts)
  ELSE IF Len(ts) < 2 \/ ts[2] \notin Words THEN Panic
  ELSE parseredirs(redircmd(cmd, ts[2], ts[1]), SubSeq(ts, 3, Len(ts)))

\* The loop of parseexec(): ret is the EXEC within its redirections so far.
parseargs(ret, argv, ts) ==
  IF ts = <<>> \/ peek(ts, {"|", ")", "&", ";"})
  THEN Result(WithArgs(ret, argv), ts)
  ELSE IF Head(ts) \notin Words \/ Len(argv) + 1 >= MAXARGS THEN Panic
  ELSE LET r == parseredirs(ret, Tail(ts))
       IN  IF r = Panic THEN Panic
           ELSE parseargs(r.cmd, Append(argv, Head(ts)), r.rest)

parseblock(ts) ==
  LET line == parseline(Tail(ts))
  IN  IF line = Panic \/ ~peek(line.rest, {")"}) THEN Panic
      ELSE parseredirs(line.cmd, Tail(line.rest))

parseexec(ts) ==
  IF peek(ts, {"("}) THEN parseblock(ts)
  ELSE LET r == parseredirs(execcmd(<<>>), ts)
       IN  IF r = Panic THEN Panic ELSE parseargs(r.cmd, <<>>, r.rest)

parsepipe_Left(ts) ==
  LET left == parseexec(ts)
  IN  IF left = Panic \/ ~peek(left.rest, {"|"}) THEN left
      ELSE LET right == parseexec(Tail(left.rest))
           IN  IF right = Panic THEN Panic
               ELSE Result(pipecmd(left.cmd, right.cmd), right.rest)

parsepipe(ts) ==
  LET left == parseexec(ts)
  IN  IF left = Panic \/ ~peek(left.rest, {"|"}) THEN left
      ELSE LET right == parsepipe(Tail(left.rest))
           IN  IF right = Panic THEN Panic
               ELSE Result(pipecmd(left.cmd, right.cmd), right.rest)

RECURSIVE Backs(_)
Backs(r) ==
  IF r # Panic /\ peek(r.rest, {"&"})
  THEN Backs(Result(backcmd(r.cmd), Tail(r.rest))) ELSE r

parseline(ts) ==
  LET left == Backs(parsepipe(ts))
  IN  IF left = Panic \/ ~peek(left.rest, {";"}) THEN left
      ELSE LET right == parseline(Tail(left.rest))
           IN  IF right = Panic THEN Panic
               ELSE Result(listcmd(left.cmd, right.cmd), right.rest)

\* parsecmd(): leftovers are an error.
parsecmd(ts) ==
  LET r == parseline(ts) IN IF r.rest # <<>> THEN Panic ELSE r

-----------------------------------------------------------------------------
(* A line for a command: what a user would type to mean it.                *)

Block(ts) == <<"(">> \o ts \o <<")">>

RECURSIVE Show(_)
Show(cmd) ==
  LET Within(c, bare) == IF c.type \in bare THEN Show(c) ELSE Block(Show(c))
  IN  CASE cmd.type = "EXEC" -> cmd.argv
        [] cmd.type = "REDIR" ->
             Within(cmd.cmd, {"EXEC", "REDIR"}) \o <<cmd.mode, cmd.file>>
        [] cmd.type = "PIPE" ->
             Within(cmd.left, {"EXEC", "REDIR"}) \o <<"|">>
               \o Within(cmd.right, {"EXEC", "REDIR", "PIPE"})
        [] cmd.type = "LIST" ->
             Within(cmd.left, {"EXEC", "REDIR", "PIPE", "BACK"}) \o <<";">>
               \o Show(cmd.right)
        [] cmd.type = "BACK" ->
             Within(cmd.cmd, {"EXEC", "REDIR", "PIPE", "BACK"}) \o <<"&">>

\* Commands of depth at most d.
RECURSIVE Commands(_)
Commands(d) ==
  LET simple == {execcmd(<<>>)} \cup {execcmd(<<w>>) : w \in Words}
      sub == Commands(d - 1)
  IN  IF d = 0 THEN simple
      ELSE sub
           \cup {redircmd(c, w, m) : c \in sub, w \in Words, m \in {"<", ">"}}
           \cup {pipecmd(l, r) : l \in sub, r \in sub}
           \cup {listcmd(l, r) : l \in sub, r \in sub}
           \cup {backcmd(c) : c \in sub}
=============================================================================
