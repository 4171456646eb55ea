------------------------------- MODULE Parse -------------------------------
(***************************************************************************)
(* The shell's parser (sh.c): from a line, a sequence of characters, to    *)
(* the command that runcmd executes.  The position s in the line b is the  *)
(* code's pointer *ps, and the end of the line its es.  A word is its two  *)
(* ends <<q, eq>> until nulterminate makes a string of it.                 *)
(***************************************************************************)
EXTENDS Integers, FiniteSets, FiniteSetsExt, SequencesExt

CONSTANT MAXARGS      \* the size of argv, the final null pointer included

NUL == "NUL"
whitespace == {" "}
symbols == {"<", "|", ">", "&", ";", "(", ")"}

execcmd == [type |-> "EXEC", argv |-> <<>>]
redircmd(subcmd, file, mode, fd) == [type |-> "REDIR", cmd |-> subcmd, file |-> file, mode |-> mode, fd |-> fd]
pipecmd(left, right) == [type |-> "PIPE", left |-> left, right |-> right]
listcmd(left, right) == [type |-> "LIST", left |-> left, right |-> right]
backcmd(subcmd) == [type |-> "BACK", cmd |-> subcmd]
----------------------------------------------------------------------------
(* Tokens *)

Char(b, s) == IF s <= Len(b) THEN b[s] ELSE NUL

\* The first position from s on whose character is not in skip.
FirstNotIn(b, s, skip) ==
  CHOOSE k \in s .. Len(b) + 1 : Char(b, k) \notin skip /\ \A j \in s .. k - 1 : b[j] \in skip
WordChars(b) == Range(b) \ (whitespace \cup symbols)

gettoken(b, s) ==
  LET q == FirstNotIn(b, s, whitespace)
      c == Char(b, q)
      tok == CASE c = ">" /\ Char(b, q + 1) = ">" -> "+"
               [] c \in symbols /\ ~(c = ">" /\ Char(b, q + 1) = ">") -> c
               [] c = NUL -> NUL
               [] OTHER -> "a"
      eq == CASE tok = NUL -> q
              [] tok = "+" -> q + 2
              [] tok = "a" -> FirstNotIn(b, q, WordChars(b))
              [] OTHER -> q + 1
  IN [tok |-> tok, word |-> <<q, eq>>, s |-> FirstNotIn(b, eq, whitespace)]

peek(b, s, toks) == Char(b, FirstNotIn(b, s, whitespace)) \in toks
----------------------------------------------------------------------------
(* The recursive descent.  A result r is the command and the position      *)
(* after it.  panic() ends the process: nothing is left of the line.       *)

Panic(b) == [cmd |-> [type |-> "PANIC"], s |-> Len(b) + 1]
Panicked(r) == r.cmd.type = "PANIC"

RECURSIVE parseline(_, _), parsepipe(_, _), parseredirs(_, _), Arguments(_, _, _), AddArg(_, _), Backs(_, _)

parseredirs(b, r) ==
  LET t == gettoken(b, r.s)
      f == gettoken(b, t.s)
      cmd == IF t.tok = "<" THEN redircmd(r.cmd, f.word, "O_RDONLY", 0)
                            ELSE redircmd(r.cmd, f.word, "O_WRONLY|O_CREATE", 1)
  IN IF ~peek(b, r.s, {"<", ">"}) THEN r
     ELSE IF f.tok # "a" THEN Panic(b)
     ELSE parseredirs(b, [cmd |-> cmd, s |-> f.s])

parseblock(b, s) ==
  LET r == parseline(b, gettoken(b, s).s)
  IN IF ~peek(b, r.s, {")"}) THEN Panic(b)
     ELSE parseredirs(b, [r EXCEPT !.s = gettoken(b, r.s).s])

\* The command that parseexec began, under the redirections found so far, gets one more argument.
AddArg(ret, word) ==
  IF ret.type = "REDIR" THEN [ret EXCEPT !.cmd = AddArg(@, word)] ELSE [ret EXCEPT !.argv = Append(@, word)]

Arguments(b, r, argc) ==
  LET t == gettoken(b, r.s)
  IN IF peek(b, r.s, {"|", ")", "&", ";"}) \/ t.tok = NUL THEN r
     ELSE IF t.tok # "a" \/ argc + 1 >= MAXARGS THEN Panic(b)
     ELSE Arguments(b, parseredirs(b, [cmd |-> AddArg(r.cmd, t.word), s |-> t.s]), argc + 1)

parseexec(b, s) ==
  IF peek(b, s, {"("}) THEN parseblock(b, s)
  ELSE Arguments(b, parseredirs(b, [cmd |-> execcmd, s |-> s]), 0)

parsepipe(b, s) ==
  LET l == parseexec(b, s)
      r == parsepipe(b, gettoken(b, l.s).s)
  IN IF ~peek(b, l.s, {"|"}) THEN l
     ELSE IF Panicked(r) THEN r
     ELSE [cmd |-> pipecmd(l.cmd, r.cmd), s |-> r.s]

Backs(b, r) ==
  IF peek(b, r.s, {"&"}) THEN Backs(b, [cmd |-> backcmd(r.cmd), s |-> gettoken(b, r.s).s]) ELSE r

parseline(b, s) ==
  LET l == Backs(b, parsepipe(b, s))
      r == parseline(b, gettoken(b, l.s).s)
  IN IF ~peek(b, l.s, {";"}) THEN l
     ELSE IF Panicked(r) THEN r
     ELSE [cmd |-> listcmd(l.cmd, r.cmd), s |-> r.s]
----------------------------------------------------------------------------
RECURSIVE WordEnds(_), Strings(_, _)

\* Where nulterminate stores a NUL.
WordEnds(cmd) ==
  CASE cmd.type = "EXEC" -> {w[2] : w \in Range(cmd.argv)}
    [] cmd.type = "REDIR" -> WordEnds(cmd.cmd) \cup {cmd.file[2]}
    [] cmd.type \in {"PIPE", "LIST"} -> WordEnds(cmd.left) \cup WordEnds(cmd.right)
    [] cmd.type = "BACK" -> WordEnds(cmd.cmd)

\* The command with the strings that its pointers point to in b.
Strings(b, cmd) ==
  LET String(w) == SubSeq(b, w[1], Min({k \in w[1] .. Len(b) + 1 : Char(b, k) = NUL}) - 1)
  IN CASE cmd.type = "EXEC" -> [cmd EXCEPT !.argv = [i \in DOMAIN @ |-> String(@[i])]]
       [] cmd.type = "REDIR" -> [cmd EXCEPT !.cmd = Strings(b, @), !.file = String(@)]
       [] cmd.type \in {"PIPE", "LIST"} -> [cmd EXCEPT !.left = Strings(b, @), !.right = Strings(b, @)]
       [] cmd.type = "BACK" -> [cmd EXCEPT !.cmd = Strings(b, @)]

nulterminate(b, cmd) == Strings([i \in DOMAIN b |-> IF i \in WordEnds(cmd) THEN NUL ELSE b[i]], cmd)

parsecmd(b) ==
  LET r == parseline(b, 1)
  IN IF Panicked(r) \/ FirstNotIn(b, r.s, whitespace) <= Len(b) THEN Panic(b).cmd ELSE nulterminate(b, r.cmd)
----------------------------------------------------------------------------
(* What the parser is for: the line that writes a command down. *)

RECURSIVE Show(_)

Show(cmd) ==
  LET In(c, types) == IF c.type \in types THEN Show(c) ELSE <<"(">> \o Show(c) \o <<")">>
  IN CASE cmd.type = "EXEC" -> FlattenSeq([i \in DOMAIN cmd.argv |-> cmd.argv[i] \o <<" ">>])
       [] cmd.type = "REDIR" -> In(cmd.cmd, {"EXEC", "REDIR"}) \o <<IF cmd.fd = 0 THEN "<" ELSE ">">> \o cmd.file
       [] cmd.type = "PIPE" -> In(cmd.left, {"EXEC", "REDIR"}) \o <<"|">> \o In(cmd.right, {"EXEC", "REDIR", "PIPE"})
       [] cmd.type = "LIST" -> In(cmd.left, {"EXEC", "REDIR", "PIPE", "BACK"}) \o <<";">> \o Show(cmd.right)
       [] cmd.type = "BACK" -> In(cmd.cmd, {"EXEC", "REDIR", "PIPE", "BACK"}) \o <<"&">>

\* A command written down parses as itself: precedence, grouping, right
\* association and the scope of redirections are those of the grammar.
RoundTrip(cmds) == \A c \in cmds : parsecmd(Show(c)) = c

\* Every other line is refused, or nothing of it is lost or made up: the
\* command has each word, redirection and operator that the line has.
Visible(b, c) == Cardinality({i \in DOMAIN b : b[i] = c})
NothingLost(lines, chars) ==
  \A b \in lines : LET cmd == parsecmd(b)
                   IN cmd.type # "PANIC" => \A c \in chars : Visible(b, c) = Visible(Show(cmd), c)
=============================================================================
