------------------------------ MODULE MCShell ------------------------------
(* The instances of Shell, and of the functions of Parse and Umalloc, that *)
(* TLC checks.                                                             *)
EXTENDS Shell, Parse, Umalloc

\* The inputs, each a sequence of lines: echo | cat; echo | cat | cat, for which
\* there are not enough files; and cat < f ; echo & followed by a syntax error.
Lines == << << <<"e", "|", "c">> >>,
            << <<"e", "|", "c", " ", "|", "c">> >>,
            << <<"c", "<", "f", ";", " ", "e", "&">>, <<"(", "c">> >> >>

\* The same as commands (kept apart from parsecmd, which is slow to evaluate in a state).
Echo == [type |-> "EXEC", argv |-> << <<"e">> >>]
Cat == [type |-> "EXEC", argv |-> << <<"c">> >>]
Pipes(l, r) == [type |-> "PIPE", left |-> l, right |-> r]
Commands == << <<Pipes(Echo, Cat)>>,
               <<Pipes(Echo, Pipes(Cat, Cat))>>,
               <<[type |-> "LIST",
                  left |-> [type |-> "REDIR", cmd |-> Cat, file |-> <<"f">>, mode |-> "O_RDONLY", fd |-> 0],
                  right |-> [type |-> "BACK", cmd |-> Echo]],
                 [type |-> "PANIC"]>> >>
MCInputs == Range(Commands)
MCText == << <<1, 2, 3, 4>> >>
MCByte == 1 .. 4

\* The commands with at most two levels above their words.
Leaves == {[type |-> "EXEC", argv |-> a] : a \in { <<>>, << <<"e">> >>, << <<"c">>, <<"f", "f">> >> }}
Above(cmds) ==
  cmds \cup {redircmd(c, <<"f">>, "O_RDONLY", 0) : c \in cmds}
       \cup {redircmd(c, <<"f">>, "O_WRONLY|O_CREATE", 1) : c \in cmds}
       \cup {backcmd(c) : c \in cmds}
       \cup {pipecmd(c[1], c[2]) : c \in cmds \X cmds}
       \cup {listcmd(c[1], c[2]) : c \in cmds \X cmds}
Chars == {"e", " ", "<", "|", "&", ";", ")"}

\* parsecmd on these lines gives these commands, on every command written down
\* gives it back, and on every short line loses nothing; a third word would
\* leave no room for the null pointer that ends argv.
ASSUME ParserIsRight ==
  /\ Commands = [i \in DOMAIN Lines |-> [j \in DOMAIN Lines[i] |-> parsecmd(Lines[i][j])]]
  /\ RoundTrip(Above(Above(Leaves)))
  /\ \A n \in 0 .. 4 : NothingLost([1 .. n -> Chars], {"e", "<", "|", "&", ";"})
  /\ parsecmd(<<"e", " ", "e", " ", "e">>).type = "PANIC"

\* malloc and free, over all sequences of at most six calls.
ASSUME UmallocIsRight == MallocIsRight(6)
=============================================================================
