-------------------------------- MODULE Pipe --------------------------------
(***************************************************************************)
(* The table of open files (file.c), the descriptors of the processes      *)
(* (sysfile.c, and fork and exit in proc.c) and pipes (pipe.c), for        *)
(* processes that make any system calls.                                   *)
(*                                                                         *)
(* What runs under ftable.lock, or under the lock of one pipe, is one      *)
(* step.  sleep releases the lock and puts the process in the set of the   *)
(* sleepers of its channel in one step, and wakeup empties that set:       *)
(* module Proc models how they do so.  Files other than pipes are the      *)
(* console: its inode is not modelled here, only what is written to it.    *)
(***************************************************************************)
EXTENDS Integers, Sequences, FiniteSets, FiniteSetsExt

CONSTANTS
  NPROC, NFILE, NOFILE,
  NPAGE,            \* the pages that kalloc can give to pipes
  PIPESIZE,
  UINT,             \* 2^32: nread and nwrite are counted modulo UINT
  Byte              \* what the processes write

ASSUME PipeAssumption ==
  /\ {NPROC, NFILE, NOFILE, NPAGE, PIPESIZE, UINT} \subseteq Nat \ {0}
  /\ UINT % PIPESIZE = 0 /\ PIPESIZE < UINT

Proc == 1 .. NPROC
File == 1 .. NFILE
Page == 1 .. NPAGE
Fd == 0 .. NOFILE - 1
NULL == 0
Init1 == 0            \* init, the parent of orphans, and the shell, which waits like init

VARIABLES
  file,             \* ftable.file
  pipe,             \* the pages of pipes
  ofile, parent, killed,
  state,            \* UNUSED, USED or ZOMBIE: module Proc has the rest
  pc,               \* user, ret (a system call returns) or a place in the kernel
  loc,              \* the locals of the system call
  console           \* the bytes written to the console

procs == <<parent, state>>
vars == <<file, pipe, ofile, procs, killed, pc, loc, console>>

NoFile == [ref |-> 0, type |-> "FD_NONE", readable |-> FALSE, writable |-> FALSE, pipe |-> NULL]
NoPipe == [live |-> FALSE, nread |-> 0, nwrite |-> 0, data |-> [i \in 0 .. PIPESIZE - 1 |-> NULL],
           readopen |-> FALSE, writeopen |-> FALSE]

\* held are the files whose reference a system call owns, f the struct file it
\* copied or reads, buf the bytes still to write or those read, n the count
\* asked for, r the result, and to the place where fileclose returns to.
Locals == [held |-> <<>>, f |-> NoFile, buf |-> <<>>, n |-> 0, r |-> 0, to |-> "ret"]

\* The file that open() makes of the console.
ConsoleFile(omode) ==
  [NoFile EXCEPT !.ref = 1, !.type = "FD_INODE", !.readable = omode # "O_WRONLY|O_CREATE", !.writable = omode # "O_RDONLY"]

\* The shell holds the console as its descriptors 0 and 1, and so does the first child it has forked.
ShellRefs(f) == IF f = 1 THEN 2 ELSE 0
Init ==
  /\ file = [f \in File |-> IF f = 1 THEN [ConsoleFile("O_RDWR") EXCEPT !.ref = 4] ELSE NoFile]
  /\ pipe = [q \in Page |-> NoPipe]
  /\ ofile = [p \in Proc |-> [fd \in Fd |-> IF p = 1 /\ fd < 2 THEN 1 ELSE NULL]]
  /\ parent = [p \in Proc |-> Init1]
  /\ killed = [p \in Proc |-> FALSE]
  /\ state = [p \in Proc |-> IF p = 1 THEN "USED" ELSE "UNUSED"]
  /\ pc = [p \in Proc |-> "user"]
  /\ loc = [p \in Proc |-> Locals]
  /\ console = <<>>

At(p, l) == state[p] = "USED" /\ pc[p] = l
Calls(p) == At(p, "user") /\ ~killed[p]       \* trap() lets the system call start

\* The system call of p returns r, or goes on at l with the locals x.
Return(p, r) ==
  /\ pc' = [pc EXCEPT ![p] = "ret"]
  /\ loc' = [loc EXCEPT ![p] = [Locals EXCEPT !.r = r]]
Goto(p, l, x) ==
  /\ pc' = [pc EXCEPT ![p] = l]
  /\ loc' = [loc EXCEPT ![p] = x]
----------------------------------------------------------------------------
(* file.c and the descriptors *)

FreeFile == {f \in File : file[f].ref = 0}
filealloc == Min(FreeFile)

argfd(p, fd) == fd \in Fd /\ ofile[p][fd] # NULL

FreeFd(p) == {fd \in Fd : ofile[p][fd] = NULL}

sys_close(p, fd) ==
  /\ Calls(p)
  /\ \/ /\ ~argfd(p, fd)
        /\ Return(p, -1)
        /\ UNCHANGED ofile
     \/ /\ argfd(p, fd)
        /\ ofile' = [ofile EXCEPT ![p][fd] = NULL]
        /\ Goto(p, "fileclose", [Locals EXCEPT !.held = <<ofile[p][fd]>>])
  /\ UNCHANGED <<file, pipe, procs, killed, console>>

\* fileclose() of the first file in held, under ftable.lock; pipeclose() follows when it was the last reference.
\* ref < 1 panics, which RefsAgree excludes.
fileclose(p) ==
  LET f == Head(loc[p].held)
      rest == [loc[p] EXCEPT !.held = Tail(@)]
      more == IF rest.held = <<>> THEN rest.to ELSE "fileclose"
  IN
  /\ At(p, "fileclose")
  /\ \/ /\ file[f].ref > 1
        /\ file' = [file EXCEPT ![f].ref = @ - 1]
        /\ Goto(p, more, rest)
     \/ /\ file[f].ref = 1
        /\ file' = [file EXCEPT ![f].ref = 0, ![f].type = "FD_NONE"]
        /\ \/ /\ file[f].type = "FD_PIPE"
              /\ Goto(p, "pipeclose", [rest EXCEPT !.f = file[f]])
           \/ /\ file[f].type # "FD_PIPE"
              /\ Goto(p, more, rest)
  /\ UNCHANGED <<pipe, ofile, procs, killed, console>>

sys_dup(p, fd) ==
  /\ Calls(p)
  /\ \/ /\ ~argfd(p, fd) \/ FreeFd(p) = {}
        /\ Return(p, -1)
        /\ UNCHANGED <<file, ofile>>
     \/ /\ argfd(p, fd) /\ FreeFd(p) # {}
        /\ ofile' = [ofile EXCEPT ![p][Min(FreeFd(p))] = ofile[p][fd]]
        /\ file' = [file EXCEPT ![ofile[p][fd]].ref = @ + 1]     \* filedup
        /\ Return(p, Min(FreeFd(p)))
  /\ UNCHANGED <<pipe, procs, killed, console>>

\* open() of the console; the path may be wrong.
sys_open(p, omode) ==
  /\ Calls(p)
  /\ \/ /\ Return(p, -1)
        /\ UNCHANGED <<file, ofile>>
     \/ /\ FreeFile # {}
        /\ \/ /\ FreeFd(p) # {}
              /\ ofile' = [ofile EXCEPT ![p][Min(FreeFd(p))] = filealloc]
              /\ file' = [file EXCEPT ![filealloc] = ConsoleFile(omode)]
              /\ Return(p, Min(FreeFd(p)))
           \/ /\ FreeFd(p) = {}
              /\ file' = [file EXCEPT ![filealloc].ref = 1]
              /\ Goto(p, "fileclose", [Locals EXCEPT !.held = <<filealloc>>, !.r = -1])
              /\ UNCHANGED ofile
  /\ UNCHANGED <<pipe, procs, killed, console>>
----------------------------------------------------------------------------
(* pipe.c *)

sys_pipe(p) ==
  /\ Calls(p)
  /\ Goto(p, "pipealloc", Locals)
  /\ UNCHANGED <<file, pipe, ofile, procs, killed, console>>

\* The two calls of filealloc, each under ftable.lock.
PipeFile(p) ==
  /\ At(p, "pipealloc") /\ Len(loc[p].held) < 2
  /\ \/ /\ FreeFile # {}
        /\ file' = [file EXCEPT ![filealloc].ref = 1]
        /\ Goto(p, "pipealloc", [loc[p] EXCEPT !.held = Append(@, filealloc)])
     \/ /\ FreeFile = {}
        /\ IF loc[p].held = <<>> THEN Return(p, -1) ELSE Goto(p, "fileclose", [loc[p] EXCEPT !.r = -1])
        /\ UNCHANGED file
  /\ UNCHANGED <<pipe, ofile, procs, killed, console>>

\* The rest of pipealloc, and of sys_pipe; the result is the pair of descriptors in n and r.
PipeInit(p) ==
  LET f0 == loc[p].held[1]
      f1 == loc[p].held[2]
      fd0 == Min(FreeFd(p))
      fd1 == Min(FreeFd(p) \ {fd0})
  IN
  /\ At(p, "pipealloc") /\ Len(loc[p].held) = 2
  /\ \/ /\ Goto(p, "fileclose", [loc[p] EXCEPT !.r = -1])        \* kalloc() == 0
        /\ UNCHANGED <<file, pipe, ofile>>
     \/ \E q \in {q \in Page : ~pipe[q].live} :
        /\ pipe' = [pipe EXCEPT ![q] = [live |-> TRUE, nread |-> 0, nwrite |-> 0, data |-> @.data,
                                        readopen |-> TRUE, writeopen |-> TRUE]]
        /\ file' = [file EXCEPT ![f0] = [ref |-> @.ref, type |-> "FD_PIPE", readable |-> TRUE, writable |-> FALSE, pipe |-> q],
                                ![f1] = [ref |-> @.ref, type |-> "FD_PIPE", readable |-> FALSE, writable |-> TRUE, pipe |-> q]]
        /\ \/ /\ Cardinality(FreeFd(p)) >= 2
              /\ ofile' = [ofile EXCEPT ![p][fd0] = f0, ![p][fd1] = f1]
              /\ Goto(p, "ret", [Locals EXCEPT !.n = fd1, !.r = fd0])
           \/ /\ Cardinality(FreeFd(p)) < 2
              /\ Goto(p, "fileclose", [loc[p] EXCEPT !.r = -1])
              /\ UNCHANGED ofile
  /\ UNCHANGED <<procs, killed, console>>

\* wakeup() of those who sleep on &nread or &nwrite of q: they go back to the loop that they sleep in.
Wakeup(q, chan) ==
  [p \in Proc |-> IF pc[p] = chan /\ loc[p].f.pipe = q
                  THEN IF chan = "sleep_nread" THEN "piperead" ELSE "pipewrite"
                  ELSE pc[p]]

\* Who is woken when an end is closed, and whether the page is kept.
WakesOwnSide(w) == IF w THEN "sleep_nwrite" ELSE "sleep_nread"
WakesOtherSide(w) == IF w THEN "sleep_nread" ELSE "sleep_nwrite"
KeptWhileBothOpen(x) == x.readopen /\ x.writeopen
Kept(x) == x.readopen \/ x.writeopen

pipeclose(p) ==
  LET q == loc[p].f.pipe
      w == loc[p].f.writable
      closed == IF w THEN [pipe[q] EXCEPT !.writeopen = FALSE] ELSE [pipe[q] EXCEPT !.readopen = FALSE]
  IN
  /\ At(p, "pipeclose")
  /\ pipe' = [pipe EXCEPT ![q] = [closed EXCEPT !.live = Kept(closed)]]
  /\ pc' = [Wakeup(q, WakesOtherSide(w))
              EXCEPT ![p] = IF loc[p].held = <<>> THEN loc[p].to ELSE "fileclose"]
  /\ loc' = [loc EXCEPT ![p].f = NoFile]
  /\ UNCHANGED <<file, ofile, procs, killed, console>>

\* The unsigned difference of the two counters.
UsedSigned(q) == pipe[q].nwrite - pipe[q].nread
Used(q) == (pipe[q].nwrite - pipe[q].nread) % UINT
SmallerOf(a, b) == IF a < b THEN a ELSE b

\* sys_write and filewrite: a file of the console is written at once.
sys_write(p, fd, bytes) ==
  LET f == file[ofile[p][fd]] IN
  /\ Calls(p)
  /\ \/ /\ ~argfd(p, fd) \/ ~f.writable
        /\ Return(p, -1)
        /\ UNCHANGED console
     \/ /\ argfd(p, fd) /\ f.writable
        /\ \/ /\ f.type = "FD_INODE"
              /\ console' = console \o bytes
              /\ Return(p, Len(bytes))
           \/ /\ f.type = "FD_PIPE"
              /\ Goto(p, "pipewrite", [Locals EXCEPT !.f = f, !.buf = bytes, !.n = Len(bytes)])
              /\ UNCHANGED console
  /\ UNCHANGED <<file, pipe, ofile, procs, killed>>

\* pipewrite() from acquire, or from its return from sleep, to release or to the next sleep:
\* what fits is stored.  A writer that gives up does not wake the readers.
pipewrite(p) ==
  LET q == loc[p].f.pipe
      buf == loc[p].buf
      k == SmallerOf(Len(buf), PIPESIZE - Used(q))
      Index(i) == ((i - pipe[q].nwrite) % PIPESIZE) + 1
  IN
  /\ At(p, "pipewrite")
  /\ pipe' = [pipe EXCEPT ![q].nwrite = (@ + k) % UINT,
                          ![q].data = [i \in DOMAIN @ |-> IF Index(i) <= k THEN buf[Index(i)] ELSE @[i]]]
  /\ \/ /\ k = Len(buf)
        /\ pc' = [Wakeup(q, "sleep_nread") EXCEPT ![p] = "ret"]
        /\ loc' = [loc EXCEPT ![p] = [Locals EXCEPT !.r = loc[p].n]]
     \/ /\ k < Len(buf) /\ (~pipe[q].readopen \/ killed[p])
        /\ Return(p, -1)
     \/ /\ k < Len(buf) /\ pipe[q].readopen /\ ~killed[p]
        /\ pc' = [Wakeup(q, "sleep_nread") EXCEPT ![p] = "sleep_nwrite"]
        /\ loc' = [loc EXCEPT ![p].buf = SubSeq(@, k + 1, Len(@))]
  /\ UNCHANGED <<file, ofile, procs, killed, console>>

\* sys_read and fileread: the console gives end of file.
sys_read(p, fd, n) ==
  LET f == file[ofile[p][fd]] IN
  /\ Calls(p)
  /\ \/ /\ ~argfd(p, fd) \/ ~f.readable
        /\ Return(p, -1)
     \/ /\ argfd(p, fd) /\ f.readable /\ f.type = "FD_INODE"
        /\ Return(p, 0)
     \/ /\ argfd(p, fd) /\ f.readable /\ f.type = "FD_PIPE"
        /\ Goto(p, "piperead", [Locals EXCEPT !.f = f, !.n = n])
  /\ UNCHANGED <<file, pipe, ofile, procs, killed, console>>

\* piperead() from acquire, or from its return from sleep, to release or to the next sleep.
piperead(p) ==
  LET q == loc[p].f.pipe
      k == SmallerOf(loc[p].n, Used(q))
      waits == Used(q) = 0 /\ pipe[q].writeopen
  IN
  /\ At(p, "piperead")
  /\ \/ /\ waits /\ killed[p]
        /\ Return(p, -1)
        /\ UNCHANGED pipe
     \/ /\ waits /\ ~killed[p]
        /\ Goto(p, "sleep_nread", loc[p])
        /\ UNCHANGED pipe
     \/ /\ ~waits
        /\ pipe' = [pipe EXCEPT ![q].nread = (@ + k) % UINT]
        /\ pc' = [Wakeup(q, "sleep_nwrite") EXCEPT ![p] = "ret"]
        /\ loc' = [loc EXCEPT ![p] = [Locals EXCEPT !.r = k,
                     !.buf = [i \in 1 .. k |-> pipe[q].data[(pipe[q].nread + i - 1) % PIPESIZE]]]]
  /\ UNCHANGED <<file, ofile, procs, killed, console>>
----------------------------------------------------------------------------
(* proc.c: what fork, exit and wait do to the descriptors and to the tree of processes *)

Unused == {c \in Proc : state[c] = "UNUSED"}

\* The references after filedup() of every descriptor of p.
DupsOncePerFile(p) ==
  [f \in File |-> [file[f] EXCEPT !.ref = @ + IF \E fd \in Fd : ofile[p][fd] = f THEN 1 ELSE 0]]
Dups(p) == [f \in File |-> [file[f] EXCEPT !.ref = @ + Cardinality({fd \in Fd : ofile[p][fd] = f})]]

\* The child shares every file of its parent; there may be no memory for it.
fork(p) ==
  /\ Calls(p)
  /\ \/ /\ Return(p, -1)
        /\ UNCHANGED <<file, ofile, procs, killed>>
     \/ /\ Unused # {}
        /\ LET c == Min(Unused) IN
           /\ state' = [state EXCEPT ![c] = "USED"]
           /\ parent' = [parent EXCEPT ![c] = p]
           /\ killed' = [killed EXCEPT ![c] = FALSE]
           /\ ofile' = [ofile EXCEPT ![c] = ofile[p]]
           /\ file' = Dups(p)
           /\ pc' = [pc EXCEPT ![p] = "ret", ![c] = "ret"]
           /\ loc' = [loc EXCEPT ![p] = [Locals EXCEPT !.r = c], ![c] = Locals]
  /\ UNCHANGED <<pipe, console>>

\* exit(), called by the process or by trap() for a killed one, closes the files one by one.
exit(p) ==
  LET open == {fd \in Fd : ofile[p][fd] # NULL} IN
  /\ At(p, "user")
  /\ ofile' = [ofile EXCEPT ![p] = [fd \in Fd |-> NULL]]
  /\ Goto(p, IF open = {} THEN "zombie" ELSE "fileclose",
          [Locals EXCEPT !.to = "zombie",
                         !.held = [i \in 1 .. Cardinality(open) |->
                                     ofile[p][CHOOSE fd \in open : Cardinality({g \in open : g < fd}) = i - 1]]])
  /\ UNCHANGED <<file, pipe, procs, killed, console>>

\* The end of exit(): the parent is woken, and init gets the children.
Zombie(p) ==
  /\ At(p, "zombie")
  /\ state' = [state EXCEPT ![p] = "ZOMBIE"]
  /\ parent' = [c \in Proc |-> IF parent[c] = p THEN Init1 ELSE parent[c]]
  /\ pc' = [r \in Proc |-> IF r = parent[p] /\ pc[r] = "sleep_wait" THEN "wait" ELSE pc[r]]
  /\ UNCHANGED <<file, pipe, ofile, killed, loc, console>>

sys_wait(p) ==
  /\ Calls(p)
  /\ Goto(p, "wait", Locals)
  /\ UNCHANGED <<file, pipe, ofile, procs, killed, console>>

wait(p) ==
  LET kids == {c \in Proc : parent[c] = p /\ state[c] # "UNUSED"}
      dead == {c \in kids : state[c] = "ZOMBIE"}
  IN
  /\ At(p, "wait")
  /\ \/ /\ dead # {}
        /\ state' = [state EXCEPT ![Min(dead)] = "UNUSED"]
        /\ parent' = [parent EXCEPT ![Min(dead)] = Init1]
        /\ pc' = [pc EXCEPT ![p] = "ret", ![Min(dead)] = "user"]
        /\ loc' = [loc EXCEPT ![p] = [Locals EXCEPT !.r = Min(dead)], ![Min(dead)] = Locals]
     \/ /\ dead = {} /\ (kids = {} \/ killed[p])
        /\ Return(p, -1)
        /\ UNCHANGED procs
     \/ /\ dead = {} /\ kids # {} /\ ~killed[p]
        /\ Goto(p, "sleep_wait", Locals)
        /\ UNCHANGED procs
  /\ UNCHANGED <<file, pipe, ofile, killed, console>>

\* init, or the shell, waits for the children it has.
InitReaps(c) ==
  /\ state[c] = "ZOMBIE" /\ parent[c] = Init1
  /\ state' = [state EXCEPT ![c] = "UNUSED"]
  /\ pc' = [pc EXCEPT ![c] = "user"]
  /\ loc' = [loc EXCEPT ![c] = Locals]
  /\ UNCHANGED <<file, pipe, ofile, parent, killed, console>>

\* kill() sets the flag and does not wake its victim.  Its popcli() then panics
\* (module Proc), which stops the killer's CPU; the victim goes on on another one.
kill(p) ==
  /\ state[p] = "USED" /\ ~killed[p]
  /\ killed' = [killed EXCEPT ![p] = TRUE]
  /\ UNCHANGED <<file, pipe, ofile, procs, pc, loc, console>>

\* The result has been taken, and the process is back in user mode.
Resume(p) ==
  /\ At(p, "ret")
  /\ pc' = [pc EXCEPT ![p] = "user"]
  /\ loc' = [loc EXCEPT ![p] = Locals]
  /\ UNCHANGED <<file, pipe, ofile, procs, killed, console>>

\* What the kernel does for p once the call has been made.
Kernel(p) ==
  \/ fileclose(p) \/ pipeclose(p) \/ PipeFile(p) \/ PipeInit(p)
  \/ pipewrite(p) \/ piperead(p) \/ Zombie(p) \/ wait(p)

Syscall(p) ==
  \/ \E fd \in Fd : sys_close(p, fd) \/ sys_dup(p, fd)
  \/ \E fd \in Fd, bytes \in UNION {[1 .. n -> Byte] : n \in Nat} : sys_write(p, fd, bytes)
  \/ \E fd \in Fd, n \in Nat : sys_read(p, fd, n)
  \/ \E omode \in {"O_RDONLY", "O_RDWR", "O_WRONLY|O_CREATE"} : sys_open(p, omode)
  \/ sys_pipe(p) \/ fork(p) \/ sys_wait(p) \/ exit(p)

Next == \E p \in Proc : Syscall(p) \/ Kernel(p) \/ Resume(p) \/ InitReaps(p) \/ kill(p)

Spec == Init /\ [][Next]_vars
----------------------------------------------------------------------------
(* Properties *)

Occurrences(s, f) == Cardinality({i \in DOMAIN s : s[i] = f})

\* The references of f: the descriptors, and what system calls in progress hold.
References(f) ==
  ShellRefs(f)
    + Cardinality({d \in Proc \X Fd : ofile[d[1]][d[2]] = f})
    + FoldSet(LAMBDA p, n : n + Occurrences(loc[p].held, f), 0, Proc)

\* file.c counts references: ref of every struct file is the number of
\* descriptors and of locals of system calls in progress that refer to it,
\* whatever fork, dup, close, exit and failing calls do concurrently.  So the
\* panics of filedup and fileclose are not reached, and no file is leaked.
RefsAgree == \A f \in File : file[f].ref = References(f)

\* Those who will call pipeclose() for this end of q, or will when their last reference goes.
Holders(q, w) ==
  {f \in File : file[f].ref > 0 /\ file[f].type = "FD_PIPE" /\ file[f].pipe = q /\ file[f].writable = w}
Closers(q, w) ==
  {p \in Proc : pc[p] = "pipeclose" /\ loc[p].f.pipe = q /\ loc[p].f.writable = w}

\* pipe.c frees a pipe exactly when both ends are closed: an end is open while
\* one file, or one process on its way to pipeclose, stands for it; the page
\* is live while an end is open; and who is inside piperead or pipewrite, or
\* sleeps there, has a live pipe.
PipeLifetime ==
  /\ \A q \in Page, w \in BOOLEAN :
        LET open == IF w THEN pipe[q].writeopen ELSE pipe[q].readopen IN
        Cardinality(Holders(q, w)) + Cardinality(Closers(q, w)) = IF open THEN 1 ELSE 0
  /\ \A q \in Page : pipe[q].live = (pipe[q].readopen \/ pipe[q].writeopen)
  /\ \A p \in Proc : pc[p] \in {"piperead", "pipewrite", "sleep_nread", "sleep_nwrite"} =>
        pipe[loc[p].f.pipe].live

\* The sleeps of pipe.c: a reader sleeps only while the pipe is empty and may
\* still be written, a writer only while it is full and may still be read.
\* The exception is a writer that was killed: it returns without a wakeup of
\* the readers (src/pipe.c:86-89) although it may have filled the pipe.
NoLostWakeup ==
  \A p \in Proc :
    LET q == loc[p].f.pipe IN
    /\ pc[p] = "sleep_nread" =>
         pipe[q].writeopen /\ (Used(q) = 0 \/ \E w \in Proc : killed[w])
    /\ pc[p] = "sleep_nwrite" => pipe[q].readopen /\ Used(q) = PIPESIZE
=============================================================================
