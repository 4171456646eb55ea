------------------------------ MODULE FileSys ------------------------------
(***************************************************************************)
(* The inode cache, directories, path names (fs.c), and the system calls   *)
(* on them (sysfile.c), by concurrent processes.                           *)
(*                                                                         *)
(* A step takes one inode lock or icache.lock and does what the process    *)
(* does until it needs the next one; what it releases on the way it        *)
(* releases in the same step.  Reading and writing a locked inode and its  *)
(* blocks is part of the step.  Contents of files: module Inode; begin_op  *)
(* and end_op around each call: module Log.  An inode is cached in at most *)
(* one entry, which is named by the inode's number.                        *)
(***************************************************************************)
EXTENDS Integers, Sequences, FiniteSets, FiniteSetsExt, SequencesExt

CONSTANTS
  Proc,
  Name,               \* names of directory entries
  NINODES,            \* inodes on the disk, the first one the root directory
  Path,               \* bound: the paths that system calls are given
  MaxCalls            \* bound: system calls in a behaviour

ASSUME FileSysAssumption == NINODES \in Nat \ {0}

Inum == 1 .. NINODES
ROOTINO == 1
NONE == 0
Dots == {".", ".."}

VARIABLES
  icache,       \* ref, the owner of I_BUSY, I_VALID, and the copies of type and nlink
  disk,         \* dinodes: type and nlink
  dir,          \* contents of directories: the inode number of each name, or 0
  cwd, file,    \* per process: current directory and an open file
  pc, loc,      \* per process: place and locals
  puts,         \* per process: references to drop before anything else
  freeing,      \* per process: how far iput has freed the inode
  panic,
  calls         \* system calls made

proc == <<cwd, file, pc, loc, puts, freeing>>
vars == <<icache, disk, dir, proc, panic, calls>>

Unused == [ref |-> 0, busy |-> NONE, valid |-> FALSE, type |-> "free", nlink |-> 0]
NoEntries == [n \in Name \cup Dots |-> NONE]
Locals == [path |-> <<>>, parent |-> FALSE, then |-> "idle", fail |-> "idle", cur |-> NONE,
           other |-> NONE, name |-> ".", type |-> "file", new |-> <<>>]

Init ==
  /\ disk = [i \in Inum |-> IF i = ROOTINO THEN [type |-> "dir", nlink |-> 1] ELSE [type |-> "free", nlink |-> 0]]
  /\ dir = [i \in Inum |-> IF i = ROOTINO THEN [NoEntries EXCEPT !["."] = i, ![".."] = i] ELSE NoEntries]
  /\ icache = [i \in Inum |-> IF i = ROOTINO THEN [Unused EXCEPT !.ref = Cardinality(Proc)] ELSE Unused]
  /\ cwd = [p \in Proc |-> ROOTINO] /\ file = [p \in Proc |-> NONE]
  /\ pc = [p \in Proc |-> "idle"] /\ loc = [p \in Proc |-> Locals]
  /\ puts = [p \in Proc |-> <<>>] /\ freeing = [p \in Proc |-> "no"]
  /\ panic = "none" /\ calls = 0
----------------------------------------------------------------------------
(* The inode cache *)

\* ilock(ip) by p: the entry, read from the disk if it is not valid.
Loaded(i) ==
  IF icache[i].valid THEN icache[i]
  ELSE [icache[i] EXCEPT !.valid = TRUE, !.type = disk[i].type, !.nlink = disk[i].nlink]
ilock(i, p) == [Loaded(i) EXCEPT !.busy = p]
NoType(i) == ~icache[i].valid /\ disk[i].type = "free"

\* p is about to lock i = loc[p].cur, with the others of its references put.
Locks(p, label) ==
  LET i == loc[p].cur IN
  /\ pc[p] = label /\ puts[p] = <<>> /\ panic = "none"
  /\ icache[i].busy = NONE /\ ~NoType(i)

\* "ilock: no type"
IlockPanic(p) ==
  /\ loc[p].cur # NONE /\ puts[p] = <<>> /\ panic = "none" /\ pc[p] \notin {"create3", "unlink3"}
  /\ pc[p] = "namex" => loc[p].path # <<>>
  /\ icache[loc[p].cur].busy = NONE /\ NoType(loc[p].cur)
  /\ panic' = "ilock: no type"
  /\ UNCHANGED <<icache, disk, dir, proc>>

\* iget(i) and idup: one more reference in the cache c.
iget(c, i) == [c EXCEPT ![i].ref = @ + 1]

\* iupdate(ip): the copies on the disk of the entries in S of the new cache.
iupdate(S) == disk' = [i \in Inum |-> IF i \in S THEN [type |-> icache'[i].type, nlink |-> icache'[i].nlink] ELSE disk[i]]

Goto(p, l, x) == pc' = [pc EXCEPT ![p] = l] /\ loc' = [loc EXCEPT ![p] = x]
Return(p) == Goto(p, "idle", Locals)
Put(p, s) == puts' = [puts EXCEPT ![p] = s]

\* iput(ip): when it frees the inode.
FreesUnlinked(e) == e.valid /\ e.nlink = 0
Frees(e) == e.ref = 1 /\ e.valid /\ e.nlink = 0

\* A reference dropped; iget clears the flags of an entry that it takes when
\* ref is 0, so what is in it no longer matters.
Dropped(e) == IF e.ref = 1 THEN Unused ELSE [e EXCEPT !.ref = @ - 1]

iput(p) ==
  LET i == Head(puts[p]) IN
  /\ puts[p] # <<>> /\ freeing[p] = "no" /\ panic = "none"
  /\ \/ /\ Frees(icache[i]) /\ icache[i].busy # NONE
        /\ panic' = "iput busy"
        /\ UNCHANGED <<icache, puts, freeing>>
     \/ /\ Frees(icache[i]) /\ icache[i].busy = NONE
        /\ icache' = [icache EXCEPT ![i].busy = p]
        /\ freeing' = [freeing EXCEPT ![p] = "itrunc"]
        /\ UNCHANGED <<puts, panic>>
     \/ /\ ~Frees(icache[i])
        /\ icache' = [icache EXCEPT ![i] = Dropped(@)]
        /\ Put(p, Tail(puts[p]))
        /\ UNCHANGED <<freeing, panic>>
  /\ UNCHANGED <<disk, dir, cwd, file, pc, loc>>

\* itrunc, type = 0 and iupdate, without icache.lock: ialloc may take the inode at once.
IputFree(p) ==
  LET i == Head(puts[p]) IN
  /\ freeing[p] = "itrunc" /\ panic = "none"
  /\ dir' = [dir EXCEPT ![i] = NoEntries]
  /\ icache' = [icache EXCEPT ![i].type = "free"]
  /\ iupdate({i})
  /\ freeing' = [freeing EXCEPT ![p] = "done"]
  /\ UNCHANGED <<cwd, file, pc, loc, puts, panic>>

\* icache.lock again: flags = 0.
IputDone(p) ==
  LET i == Head(puts[p]) IN
  /\ freeing[p] = "done" /\ panic = "none"
  /\ icache' = [icache EXCEPT ![i] = Dropped([@ EXCEPT !.busy = NONE, !.valid = FALSE])]
  /\ freeing' = [freeing EXCEPT ![p] = "no"]
  /\ Put(p, Tail(puts[p]))
  /\ UNCHANGED <<disk, dir, cwd, file, pc, loc, panic>>
----------------------------------------------------------------------------
(* Path names *)

Start(p, path) == IF path[1] = "/" THEN ROOTINO ELSE cwd[p]
Elems(path) == IF path[1] = "/" THEN Tail(path) ELSE path

\* A system call that begins with namei or nameiparent, which goes on at label.
Call(p, path, x) ==
  /\ pc[p] = "idle" /\ puts[p] = <<>> /\ panic = "none"
  /\ icache' = iget(icache, Start(p, path))
  /\ Goto(p, "namex", [x EXCEPT !.path = Elems(path), !.cur = Start(p, path)])
  /\ UNCHANGED <<disk, dir, cwd, file, puts, freeing, panic>>

\* One round of the loop of namex, or what follows it.
namex(p) ==
  LET x == loc[p]
      e == Loaded(x.cur)
      next == dir[x.cur][Head(x.path)]
      fail == Goto(p, x.fail, IF x.fail = "idle" THEN Locals ELSE [x EXCEPT !.path = <<>>, !.cur = x.other, !.other = NONE])
  IN
  /\ \/ /\ pc[p] = "namex" /\ puts[p] = <<>> /\ x.path = <<>> /\ panic = "none"
        /\ \/ x.parent /\ fail /\ Put(p, <<x.cur>>)
           \/ ~x.parent /\ Goto(p, x.then, x) /\ UNCHANGED puts
        /\ UNCHANGED icache
     \/ /\ Locks(p, "namex") /\ x.path # <<>>
        /\ \/ /\ e.type # "dir"
              /\ icache' = [icache EXCEPT ![x.cur] = e]
              /\ fail /\ Put(p, <<x.cur>>)
           \/ /\ e.type = "dir" /\ x.parent /\ Len(x.path) = 1
              /\ icache' = [icache EXCEPT ![x.cur] = e]
              /\ Goto(p, x.then, [x EXCEPT !.path = <<>>, !.name = Head(x.path)])
              /\ UNCHANGED puts
           \/ /\ e.type = "dir" /\ ~(x.parent /\ Len(x.path) = 1) /\ next = NONE
              /\ icache' = [icache EXCEPT ![x.cur] = e]
              /\ fail /\ Put(p, <<x.cur>>)
           \/ /\ e.type = "dir" /\ ~(x.parent /\ Len(x.path) = 1) /\ next # NONE
              /\ icache' = iget([icache EXCEPT ![x.cur] = e], next)
              /\ Goto(p, "namex", [x EXCEPT !.path = Tail(@), !.cur = next])
              /\ Put(p, <<x.cur>>)
  /\ UNCHANGED <<disk, dir, cwd, file, freeing, panic>>
----------------------------------------------------------------------------
(* open, close, chdir *)

\* sys_open without O_CREATE.
sys_open(p, path) ==
  file[p] = NONE /\ Call(p, path, [Locals EXCEPT !.then = "open"])

\* The inode stays in the open file, unless it is a directory to be written or
\* filealloc or fdalloc fails.
Opened(p) ==
  LET i == loc[p].cur IN
  /\ Locks(p, "open")
  /\ icache' = [icache EXCEPT ![i] = Loaded(i)]
  /\ \/ file' = [file EXCEPT ![p] = i] /\ UNCHANGED puts
     \/ Put(p, <<i>>) /\ UNCHANGED file
  /\ Return(p)
  /\ UNCHANGED <<disk, dir, cwd, freeing, panic>>

sys_close(p) ==
  /\ pc[p] = "idle" /\ puts[p] = <<>> /\ file[p] # NONE /\ panic = "none"
  /\ file' = [file EXCEPT ![p] = NONE]
  /\ Put(p, <<file[p]>>)
  /\ UNCHANGED <<icache, disk, dir, cwd, pc, loc, freeing, panic>>

sys_chdir(p, path) == Call(p, path, [Locals EXCEPT !.then = "chdir"])

Chdir(p) ==
  LET i == loc[p].cur IN
  /\ Locks(p, "chdir")
  /\ icache' = [icache EXCEPT ![i] = Loaded(i)]
  /\ IF Loaded(i).type = "dir" THEN cwd' = [cwd EXCEPT ![p] = i] /\ Put(p, <<cwd[p]>>)
     ELSE Put(p, <<i>>) /\ UNCHANGED cwd
  /\ Return(p)
  /\ UNCHANGED <<disk, dir, file, freeing, panic>>
----------------------------------------------------------------------------
(* create: sys_open with O_CREATE, sys_mkdir, sys_mknod *)

create(p, path, type) ==
  /\ type = "file" => file[p] = NONE
  /\ Call(p, path, [Locals EXCEPT !.then = "create", !.parent = TRUE, !.type = type])

\* dp locked: the name is there, or ialloc takes the first free inode.
Create(p) ==
  LET x == loc[p]
      found == dir[x.cur][x.name]
      free == {i \in Inum : disk[i].type = "free"}
      new == Min(free)
  IN
  /\ Locks(p, "create")
  /\ \/ /\ found # NONE
        /\ icache' = iget([icache EXCEPT ![x.cur] = Loaded(x.cur)], found)
        /\ Goto(p, "found", [x EXCEPT !.cur = found])
        /\ Put(p, <<x.cur>>)
        /\ UNCHANGED <<disk, panic>>
     \/ /\ found = NONE /\ free # {}
        /\ disk' = [disk EXCEPT ![new] = [type |-> x.type, nlink |-> 0]]
        /\ icache' = iget([icache EXCEPT ![x.cur] = ilock(x.cur, p)], new)
        /\ Goto(p, "create2", [x EXCEPT !.cur = new, !.other = x.cur])
        /\ UNCHANGED <<puts, panic>>
     \/ /\ found = NONE /\ free = {}
        /\ panic' = "ialloc: no inodes"
        /\ UNCHANGED <<icache, disk, pc, loc, puts>>
  /\ UNCHANGED <<dir, cwd, file, freeing>>

Found(p) ==
  LET i == loc[p].cur IN
  /\ Locks(p, "found")
  /\ icache' = [icache EXCEPT ![i] = Loaded(i)]
  /\ \/ /\ loc[p].type = "file" /\ Loaded(i).type = "file"
        /\ file' = [file EXCEPT ![p] = i] /\ UNCHANGED puts
     \/ Put(p, <<i>>) /\ UNCHANGED file         \* another type, or no file or descriptor
  /\ Return(p)
  /\ UNCHANGED <<disk, dir, cwd, freeing, panic>>

\* ip locked too: the new inode, its dots, and the entry in dp.
Create2(p) ==
  LET x == loc[p]
      i == x.cur
      d == x.other
      isDir == x.type = "dir"
  IN
  /\ Locks(p, "create2")
  /\ icache' = [icache EXCEPT ![i] = [ilock(i, p) EXCEPT !.nlink = 1],
                              ![d].nlink = IF isDir THEN @ + 1 ELSE @, ![d].busy = NONE]
  /\ iupdate(IF isDir THEN {i, d} ELSE {i})
  /\ dir' = [dir EXCEPT ![i] = IF isDir THEN [@ EXCEPT !["."] = i, ![".."] = d] ELSE @, ![d][x.name] = i]
  /\ Put(p, <<d>>)
  /\ Goto(p, "create3", [x EXCEPT !.other = NONE])
  /\ UNCHANGED <<cwd, file, freeing, panic>>

\* The caller of create unlocks the inode, and opens it or puts it.
Create3(p) ==
  LET i == loc[p].cur IN
  /\ pc[p] = "create3" /\ puts[p] = <<>> /\ panic = "none"
  /\ icache' = [icache EXCEPT ![i].busy = NONE]
  /\ \/ loc[p].type = "file" /\ file' = [file EXCEPT ![p] = i] /\ UNCHANGED puts
     \/ Put(p, <<i>>) /\ UNCHANGED file
  /\ Return(p)
  /\ UNCHANGED <<disk, dir, cwd, freeing, panic>>
----------------------------------------------------------------------------
(* link *)

sys_link(p, old, new) == Call(p, old, [Locals EXCEPT !.then = "link", !.new = new])

LinkableAny(i) == TRUE
Linkable(i) == Loaded(i).type # "dir"

\* ip locked: the link is counted before it is made; then nameiparent(new).
Link(p) ==
  LET x == loc[p]
      i == x.cur
      start == Start(p, x.new)
  IN
  /\ Locks(p, "link")
  /\ \/ /\ ~Linkable(i)
        /\ icache' = [icache EXCEPT ![i] = Loaded(i)]
        /\ Put(p, <<i>>) /\ Return(p)
        /\ UNCHANGED disk
     \/ /\ Linkable(i)
        /\ icache' = iget([icache EXCEPT ![i] = [Loaded(i) EXCEPT !.nlink = @ + 1]], start)
        /\ iupdate({i})
        /\ Goto(p, "namex", [x EXCEPT !.then = "linkdir", !.fail = "linkbad", !.parent = TRUE,
                                      !.path = Elems(x.new), !.new = <<>>, !.cur = start, !.other = i])
        /\ UNCHANGED puts
  /\ UNCHANGED <<dir, cwd, file, freeing, panic>>

\* dp locked: dirlink, which fails if the name is there.
LinkDir(p) ==
  LET x == loc[p] IN
  /\ Locks(p, "linkdir")
  /\ icache' = [icache EXCEPT ![x.cur] = Loaded(x.cur)]
  /\ \/ /\ dir[x.cur][x.name] = NONE
        /\ dir' = [dir EXCEPT ![x.cur][x.name] = x.other]
        /\ Put(p, <<x.cur, x.other>>) /\ Return(p)
     \/ /\ dir[x.cur][x.name] # NONE
        /\ Put(p, <<x.cur>>)
        /\ Goto(p, "linkbad", [x EXCEPT !.cur = x.other, !.other = NONE])
        /\ UNCHANGED dir
  /\ UNCHANGED <<disk, cwd, file, freeing, panic>>

LinkBadKeeps(p) ==
  LET i == loc[p].cur IN
  /\ Locks(p, "linkbad")
  /\ icache' = [icache EXCEPT ![i] = [Loaded(i) EXCEPT !.nlink = @ - 1]]
  /\ iupdate({i})
  /\ Return(p)
  /\ UNCHANGED <<dir, cwd, file, puts, freeing, panic>>

\* The link could not be made: it is no longer counted.
LinkBad(p) ==
  LET i == loc[p].cur IN
  /\ Locks(p, "linkbad")
  /\ icache' = [icache EXCEPT ![i] = [Loaded(i) EXCEPT !.nlink = @ - 1]]
  /\ iupdate({i})
  /\ Put(p, <<i>>) /\ Return(p)
  /\ UNCHANGED <<dir, cwd, file, freeing, panic>>
----------------------------------------------------------------------------
(* unlink *)

sys_unlink(p, path) == Call(p, path, [Locals EXCEPT !.then = "unlink", !.parent = TRUE])

\* dp locked, and kept locked while the process waits for ip.
Unlink(p) ==
  LET x == loc[p]
      i == dir[x.cur][x.name]
  IN
  /\ Locks(p, "unlink")
  /\ \/ /\ x.name \in Dots \/ i = NONE
        /\ icache' = [icache EXCEPT ![x.cur] = Loaded(x.cur)]
        /\ Put(p, <<x.cur>>) /\ Return(p)
     \/ /\ x.name \notin Dots /\ i # NONE
        /\ icache' = iget([icache EXCEPT ![x.cur] = ilock(x.cur, p)], i)
        /\ Goto(p, "unlink2", [x EXCEPT !.cur = i, !.other = x.cur])
        /\ UNCHANGED puts
  /\ UNCHANGED <<disk, dir, cwd, file, freeing, panic>>

isdirempty(i) == \A n \in Name : dir[i][n] = NONE

\* ip locked too: the entry goes, and the link that ".." is to dp.
Unlink2(p) ==
  LET x == loc[p]
      i == x.cur
      d == x.other
      isDir == Loaded(i).type = "dir"
  IN
  /\ Locks(p, "unlink2")
  /\ \/ /\ Loaded(i).nlink < 1
        /\ panic' = "unlink: nlink < 1"
        /\ UNCHANGED <<icache, disk, dir, pc, loc, puts>>
     \/ /\ Loaded(i).nlink >= 1 /\ isDir /\ ~isdirempty(i)
        /\ icache' = [icache EXCEPT ![i] = Loaded(i)]
        /\ Put(p, <<i>>)
        /\ Goto(p, "unlinkbad", [x EXCEPT !.cur = NONE])
        /\ UNCHANGED <<disk, dir, panic>>
     \/ /\ Loaded(i).nlink >= 1 /\ (isDir => isdirempty(i))
        /\ dir' = [dir EXCEPT ![d][x.name] = NONE]
        /\ icache' = [icache EXCEPT ![i] = ilock(i, p), ![d].busy = NONE,
                                    ![d].nlink = IF isDir THEN @ - 1 ELSE @]
        /\ iupdate(IF isDir THEN {d} ELSE {})
        /\ Put(p, <<d>>)
        /\ Goto(p, "unlink3", [x EXCEPT !.other = NONE])
        /\ UNCHANGED panic
  /\ UNCHANGED <<cwd, file, freeing>>

UnlinkBad(p) ==
  LET d == loc[p].other IN
  /\ pc[p] = "unlinkbad" /\ puts[p] = <<>> /\ panic = "none"
  /\ icache' = [icache EXCEPT ![d].busy = NONE]
  /\ Put(p, <<d>>) /\ Return(p)
  /\ UNCHANGED <<disk, dir, cwd, file, freeing, panic>>

\* dp is put, ip still locked.
Unlink3(p) ==
  LET i == loc[p].cur IN
  /\ pc[p] = "unlink3" /\ puts[p] = <<>> /\ panic = "none"
  /\ icache' = [icache EXCEPT ![i].nlink = @ - 1, ![i].busy = NONE]
  /\ iupdate({i})
  /\ Put(p, <<i>>) /\ Return(p)
  /\ UNCHANGED <<dir, cwd, file, freeing, panic>>
----------------------------------------------------------------------------
Syscall(p) ==
  /\ calls < MaxCalls /\ calls' = calls + 1
  /\ \/ \E path \in Path :
          \/ sys_open(p, path) \/ sys_chdir(p, path) \/ sys_unlink(p, path)
          \/ \E type \in {"file", "dir", "dev"} : create(p, path, type)
          \/ \E new \in Path : sys_link(p, path, new)
     \/ sys_close(p)

Step(p) ==
  \/ iput(p) \/ IputFree(p) \/ IputDone(p) \/ IlockPanic(p)
  \/ namex(p) \/ Opened(p) \/ Chdir(p)
  \/ Create(p) \/ Found(p) \/ Create2(p) \/ Create3(p)
  \/ Link(p) \/ LinkDir(p) \/ LinkBad(p)
  \/ Unlink(p) \/ Unlink2(p) \/ UnlinkBad(p) \/ Unlink3(p)

\* After a panic, or when all calls have returned.
Halted ==
  /\ panic # "none" \/ (calls = MaxCalls /\ \A p \in Proc : pc[p] = "idle" /\ puts[p] = <<>>)
  /\ UNCHANGED vars

Next == (\E p \in Proc : Syscall(p) \/ (Step(p) /\ UNCHANGED calls)) \/ Halted

Spec == Init /\ [][Next]_vars
----------------------------------------------------------------------------
(* Properties *)

\* References that processes hold to inode i.
Holds(p, i) ==
  Cardinality({c \in {<<"cwd", cwd[p]>>, <<"file", file[p]>>, <<"cur", loc[p].cur>>, <<"other", loc[p].other>>} : c[2] = i})
    + Cardinality({k \in DOMAIN puts[p] : puts[p][k] = i})

\* "ip->ref tracks the number of in-memory pointers to the entry (open files
\* and current directories)" (fs.c:124), including those of system calls under
\* way, on all of their error paths.
RefsCounted ==
  \A i \in Inum : icache[i].ref = MapThenSumSet(LAMBDA p : Holds(p, i), Proc)

\* An inode that a process refers to is not freed under it, nor given to
\* another file, whatever is unlinked meanwhile; and the kernel does not panic,
\* unless the disk runs out of inodes.  For paths without "..": a directory
\* that was removed keeps its "..", which counts no link, and the parent may be
\* removed and freed after it (fs_dotdot.cfg).
HeldAllocated ==
  /\ panic \in {"none", "ialloc: no inodes"}
  /\ \A p \in Proc : \A i \in {cwd[p], file[p], loc[p].cur, loc[p].other} \cup Range(Tail(<<0>> \o puts[p])) :
       i # NONE /\ freeing[p] # "done" => disk[i].type # "free"

\* The inodes that have a path from the root, in directories that are not removed.
Below(S) == S \cup ({dir[d][n] : d \in S, n \in Name} \ {NONE})
Reachable == Below(Below(Below(Below({ROOTINO}))))
Entries(i) == {<<d, n>> \in Reachable \X Name : dir[d][n] = i}

\* What has a path is allocated and its link count is at least the number of
\* its names, at every step.  A directory has one name, and once the call that
\* makes or removes it has unlocked it, ".." in it is the directory of that name.
TreeSound ==
  \A i \in Reachable \ {ROOTINO} :
    /\ disk[i].type # "free" /\ disk[i].nlink >= Cardinality(Entries(i))
    /\ disk[i].type = "dir" =>
         /\ Cardinality(Entries(i)) = 1
         /\ icache[i].busy = NONE => \A e \in Entries(i) : dir[i][".."] = e[1]

\* "... the number of links referring to it" (fs.c:102): when no call is under
\* way, nlink is the number of names of a file; iput relies on it to free files.
LinkCount ==
  (\A p \in Proc : pc[p] = "idle" /\ puts[p] = <<>>) =>
     \A i \in Inum : disk[i].type \in {"file", "dev"} =>
       disk[i].nlink = Cardinality({<<d, n>> \in Inum \X Name : disk[d].type = "dir" /\ dir[d][n] = i})
=============================================================================
