------------------------------- MODULE Shell -------------------------------
(***************************************************************************)
(* The shell's main and runcmd (sh.c) and the programs it starts, on top   *)
(* of the files and pipes of module Pipe: every process executes a list of *)
(* system calls, which main and runcmd make from the lines of the input.   *)
(***************************************************************************)
EXTENDS Pipe, SequencesExt

CONSTANTS
  Inputs,           \* what the shell may be given: sequences of lines, as parsecmd returns them
  Text,             \* what the program "echo" writes: a sequence of writes
  BUFSIZE           \* the size of cat's buffer

VARIABLES
  code,             \* per process: the system calls still to make
  fds,              \* per process: the array p of runcmd
  lines,            \* the input that main has not read yet
  child,            \* the child that main waits for, or NULL
  faulty            \* bound and history: memory ran out, a path was wrong, or somebody was killed, once

main_vars == <<lines, child>>
shell == <<code, fds, main_vars, faulty>>

\* p[0] and p[1] as arguments, told apart from the numbers of descriptors.
p0 == -1
p1 == -2

\* The system calls of runcmd(cmd), which does not return.  <<"run", c>> is the
\* recursive call; a "fork" names what the child does.
RunExec(cmd) == IF cmd.argv = <<>> THEN <<>> ELSE << <<"exec", cmd.argv[1]>> >>
RunRedir(cmd) == << <<"close", cmd.fd>>, <<"open", cmd.mode>>, <<"run", cmd.cmd>> >>
RunList(cmd) == << <<"fork", << <<"run", cmd.left>> >> >>, <<"wait">>, <<"run", cmd.right>> >>
RunBack(cmd) == << <<"fork", << <<"run", cmd.cmd>> >> >> >>
RunPipeKeepsEnd(cmd) ==
  << <<"pipe">>,
     <<"fork", << <<"close", 1>>, <<"dup", p1>>, <<"close", p0>>, <<"close", p1>>, <<"run", cmd.left>> >> >>,
     <<"fork", << <<"close", 0>>, <<"dup", p0>>, <<"close", p0>>, <<"run", cmd.right>> >> >>,
     <<"close", p0>>, <<"close", p1>>, <<"wait">>, <<"wait">> >>
RunPipe(cmd) ==
  << <<"pipe">>,
     <<"fork", << <<"close", 1>>, <<"dup", p1>>, <<"close", p0>>, <<"close", p1>>, <<"run", cmd.left>> >> >>,
     <<"fork", << <<"close", 0>>, <<"dup", p0>>, <<"close", p0>>, <<"close", p1>>, <<"run", cmd.right>> >> >>,
     <<"close", p0>>, <<"close", p1>>, <<"wait">>, <<"wait">> >>

runcmd(cmd) ==
  CASE cmd.type = "EXEC" -> RunExec(cmd)
    [] cmd.type = "REDIR" -> RunRedir(cmd)
    [] cmd.type = "LIST" -> RunList(cmd)
    [] cmd.type = "PIPE" -> RunPipe(cmd)
    [] cmd.type = "BACK" -> RunBack(cmd)
    [] cmd.type = "PANIC" -> <<>>

\* The programs: e is echo and writes Text, c is cat and copies descriptor 0 to 1.
Program(prog) == IF prog = <<"e">> THEN [i \in DOMAIN Text |-> <<"write", Text[i]>>] ELSE << <<"cat">> >>

ShellInit ==
  /\ Init
  /\ \E in \in Inputs :
       /\ code = [p \in Proc |-> IF p = 1 THEN << <<"run", Head(in)>> >> ELSE <<>>]
       /\ lines = Tail(in)
  /\ child = 1
  /\ fds = [p \in Proc |-> <<NULL, NULL>>]
  /\ faulty = FALSE

Instr(p) == Head(code[p])
Is(p, name) == code[p] # <<>> /\ Instr(p)[1] = name
Arg(p) == LET a == Instr(p)[2] IN CASE a = p0 -> fds[p][1] [] a = p1 -> fds[p][2] [] OTHER -> a

Continue(p, rest) == code' = [code EXCEPT ![p] = rest]

\* The calls that cannot run out of anything.
Call(p) ==
  /\ \/ Is(p, "close") /\ sys_close(p, Arg(p))
     \/ Is(p, "dup") /\ sys_dup(p, Arg(p))
     \/ Is(p, "pipe") /\ sys_pipe(p)
     \/ Is(p, "wait") /\ sys_wait(p)
     \/ Is(p, "write") /\ sys_write(p, 1, Instr(p)[2])
     \/ Is(p, "cat") /\ sys_read(p, 0, BUFSIZE)
     \/ (code[p] = <<>> \/ killed[p]) /\ exit(p)
  /\ UNCHANGED shell

\* A call that fails is a fault; it may happen once when nothing has run out.
Fault(p, available) ==
  /\ faulty' = (faulty \/ loc'[p].r = -1)
  /\ available /\ loc'[p].r = -1 => ~faulty

Open(p) ==
  /\ Is(p, "open") /\ sys_open(p, Instr(p)[2])
  /\ Fault(p, FreeFile # {} /\ FreeFd(p) # {})
  /\ UNCHANGED <<code, fds, main_vars>>

Fork(p) ==
  /\ Is(p, "fork") /\ fork(p)
  /\ Fault(p, Unused # {})
  /\ \/ /\ state' = state
        /\ UNCHANGED <<code, fds>>
     \/ /\ state' # state
        /\ code' = [code EXCEPT ![loc'[p].r] = << <<"forked">> >> \o Instr(p)[2]]
        /\ fds' = [fds EXCEPT ![loc'[p].r] = fds[p]]
  /\ UNCHANGED main_vars

\* Steps in user mode: runcmd calls itself, or exec() replaces the program or fails.
Run(p) ==
  /\ Calls(p)
  /\ \/ Is(p, "run") /\ Continue(p, runcmd(Instr(p)[2])) /\ UNCHANGED faulty
     \/ Is(p, "exec") /\ Continue(p, Program(Instr(p)[2])) /\ UNCHANGED faulty
     \/ Is(p, "exec") /\ ~faulty /\ Continue(p, <<>>) /\ faulty' = TRUE
  /\ UNCHANGED <<vars, fds, main_vars>>

\* What the program does with the result of its call: panic() in the shell exits.
Result(p) ==
  LET r == loc[p].r IN
  /\ Resume(p)
  /\ \/ /\ Is(p, "fork") \/ Is(p, "open") \/ Is(p, "pipe")
        /\ Continue(p, IF r = -1 THEN <<>> ELSE Tail(code[p]))
        /\ fds' = IF Is(p, "pipe") THEN [fds EXCEPT ![p] = <<r, loc[p].n>>] ELSE fds
     \/ /\ Is(p, "cat")
        /\ Continue(p, IF r > 0 THEN << <<"write", loc[p].buf>> >> \o code[p] ELSE Tail(code[p]))
        /\ UNCHANGED fds
     \/ /\ \E i \in {"close", "dup", "wait", "write", "forked"} : Is(p, i)
        /\ Continue(p, Tail(code[p]))
        /\ UNCHANGED fds
  /\ UNCHANGED <<main_vars, faulty>>

InKernel(p) ==
  /\ Kernel(p)
  /\ IF pc[p] = "pipealloc" THEN Fault(p, Len(loc[p].held) = 2) ELSE UNCHANGED faulty
  /\ UNCHANGED <<code, fds, main_vars>>

Step(p) == Call(p) \/ Open(p) \/ Fork(p) \/ Run(p) \/ Result(p) \/ InKernel(p)

\* wait() of init and of main.
Reap(p) ==
  /\ InitReaps(p)
  /\ child' = IF child = p THEN NULL ELSE child
  /\ UNCHANGED <<code, fds, lines, faulty>>

\* main forks a child for the next line; when fork1() fails, it exits.
ReadLine ==
  /\ child = NULL /\ lines # <<>>
  /\ \/ /\ Unused = {}
        /\ lines' = <<>>
        /\ UNCHANGED <<vars, code, fds, child>>
     \/ /\ Unused # {}
        /\ LET c == Min(Unused) IN
           /\ state' = [state EXCEPT ![c] = "USED"]
           /\ parent' = [parent EXCEPT ![c] = Init1]
           /\ killed' = [killed EXCEPT ![c] = FALSE]
           /\ ofile' = [ofile EXCEPT ![c] = [fd \in Fd |-> IF fd < 2 THEN 1 ELSE NULL]]
           /\ file' = [file EXCEPT ![1].ref = @ + 2]
           /\ code' = [code EXCEPT ![c] = << <<"run", Head(lines)>> >>]
           /\ fds' = [fds EXCEPT ![c] = <<NULL, NULL>>]
           /\ child' = c
        /\ lines' = Tail(lines)
        /\ UNCHANGED <<pipe, pc, loc, console>>
  /\ UNCHANGED faulty

Kill(p) == ~faulty /\ kill(p) /\ faulty' = TRUE /\ UNCHANGED <<code, fds, main_vars>>

Finished == lines = <<>> /\ \A p \in Proc : state[p] = "UNUSED"
Done == Finished /\ UNCHANGED <<vars, shell>>

ShellNext == (\E p \in Proc : Step(p) \/ Reap(p) \/ Kill(p)) \/ ReadLine \/ Done

\* The scheduler runs every process that is not asleep, and init waits forever.
ShellSpec ==
  /\ ShellInit /\ [][ShellNext]_<<vars, shell>>
  /\ \A p \in Proc : WF_<<vars, shell>>(Step(p)) /\ WF_<<vars, shell>>(Reap(p))
  /\ WF_<<vars, shell>>(ReadLine)
----------------------------------------------------------------------------
(* Properties *)

AllText == FoldLeft(LAMBDA a, b : a \o b, <<>>, Text)

\* What comes out of a chain of pipes is what went in, in order: a prefix of it
\* at any time, and all of it when every process has exited and nothing failed.
Output ==
  /\ IsPrefix(console, AllText)
  /\ Finished /\ ~faulty => console = AllText

\* Every command ends: no process waits for ever in a pipe or in wait(),
\* because runcmd and exit() close every end of every pipe, whoever fails or
\* is killed on the way.
Terminates == <>Finished
=============================================================================
