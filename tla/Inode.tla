------------------------------- MODULE Inode -------------------------------
(***************************************************************************)
(* The contents of files: the allocation of blocks, bmap, itrunc, readi    *)
(* and writei (fs.c), and filewrite, fileread (file.c) above them, on a    *)
(* disk made by mkfs (mkfs.c).                                             *)
(*                                                                         *)
(* A step is one round of a loop that holds the lock of the inode; other   *)
(* processes take and free blocks in between.  The log makes the steps     *)
(* between begin_op and end_op atomic across crashes (module Log).         *)
(* Numbers of blocks are never reused while a buffer of theirs is busy, so *)
(* blocks are read and written in place.                                   *)
(***************************************************************************)
EXTENDS Integers, Sequences, FiniteSets, FiniteSetsExt

CONSTANTS
  Proc, Inum,         \* process p writes the byte p
  Garbage,            \* the bytes of a free block
  BSIZE, NDIRECT, NINDIRECT,
  NBLOCK,             \* the data blocks of the disk
  MaxChunk,           \* what filewrite writes in one transaction
  WriteSize, ReadSize,\* bounds: the sizes of the writes and of the reads
  MkfsSize            \* and of the file that mkfs puts on the disk

ASSUME InodeAssumption == {BSIZE, NDIRECT, NINDIRECT, NBLOCK, MaxChunk} \subseteq Nat \ {0}

MAXFILE == NDIRECT + NINDIRECT
BlockNo == 1 .. NBLOCK
NONE == 0

VARIABLES
  used,         \* the bitmap: the blocks in use
  block,        \* the blocks, as bytes and as block numbers
  inode, dinode,      \* the inodes in memory and on the disk: size and addrs
  lock,         \* I_BUSY and its owner
  f, off,       \* per process: its open file and the offset
  pc, loc,      \* per process: place and locals
  panic,
  content       \* history: the bytes of each file

proc == <<f, off, pc, loc>>
vars == <<used, block, inode, dinode, lock, proc, panic, content>>

Zero == [bytes |-> [i \in 0 .. BSIZE - 1 |-> NONE], addr |-> [i \in 0 .. NINDIRECT - 1 |-> NONE]]
\* A free block: what is left in it, as bytes and as numbers that are not 0.
Old == [bytes |-> [i \in 0 .. BSIZE - 1 |-> Garbage], addr |-> [i \in 0 .. NINDIRECT - 1 |-> 1]]
Empty == [size |-> 0, addrs |-> [i \in 0 .. NDIRECT |-> NONE]]
Locals == [n |-> 0, i |-> 0, off |-> 0, end |-> 0]

SmallerOf(a, b) == IF a < b THEN a ELSE b
----------------------------------------------------------------------------
(* mkfs: its blocks are all zero, and freeblock counts those handed out.   *)

EmptyDisk == [freeblock |-> 1, block |-> [b \in BlockNo |-> Zero], din |-> Empty]

\* iappend(inum, xp, n): n times the byte c at the end of the file, a block in each round.
RECURSIVE iappend(_, _, _)
iappend(img, c, n) ==
  LET o == img.din.size
      fbn == o \div BSIZE
      direct == fbn < NDIRECT
      newInd == ~direct /\ img.din.addrs[NDIRECT] = NONE
      ind == IF newInd THEN img.freeblock ELSE img.din.addrs[NDIRECT]
      old == IF direct THEN img.din.addrs[fbn] ELSE img.block[ind].addr[fbn - NDIRECT]
      next == img.freeblock + (IF newInd THEN 1 ELSE 0)
      x == IF old = NONE THEN next ELSE old
      n1 == SmallerOf(n, (fbn + 1) * BSIZE - o)
      linked == IF direct THEN img.block ELSE [img.block EXCEPT ![ind].addr[fbn - NDIRECT] = x]
  IN IF n = 0 THEN img
     ELSE iappend([freeblock |-> IF old = NONE THEN next + 1 ELSE next,
                   block |-> [linked EXCEPT ![x].bytes =
                                [b \in DOMAIN @ |-> IF b \in o % BSIZE .. (o % BSIZE) + n1 - 1 THEN c ELSE @[b]]],
                   din |-> [size |-> o + n1,
                            addrs |-> [img.din.addrs EXCEPT ![SmallerOf(fbn, NDIRECT)] = IF direct THEN x ELSE ind]]],
                  c, n - n1)

\* The disk with one file of n bytes c, appended in reads of at most BSIZE bytes, and balloc(usedblocks).
RECURSIVE mkfs(_, _, _)
mkfs(img, c, n) ==
  IF n = 0 THEN img ELSE LET cc == SmallerOf(n, BSIZE) IN mkfs(iappend(img, c, cc), c, n - cc)

Init ==
  /\ \E i \in Inum, c \in Proc, n \in MkfsSize :
       LET img == mkfs(EmptyDisk, c, n) IN
       /\ used = 1 .. img.freeblock - 1 /\ block = img.block
       /\ inode = [x \in Inum |-> IF x = i THEN img.din ELSE Empty] /\ dinode = inode
       /\ content = [x \in Inum |-> IF x = i THEN [k \in 1 .. n |-> c] ELSE <<>>]
  /\ lock = [i \in Inum |-> NONE]
  /\ f = [p \in Proc |-> NONE] /\ off = [p \in Proc |-> 0]
  /\ pc = [p \in Proc |-> "idle"] /\ loc = [p \in Proc |-> Locals]
  /\ panic = FALSE
----------------------------------------------------------------------------
Free == BlockNo \ used
balloc(free) == Min(free)         \* the loop over the bitmap takes the first
Goto(p, l, x) == pc' = [pc EXCEPT ![p] = l] /\ loc' = [loc EXCEPT ![p] = x]

Open(p, i) ==
  /\ pc[p] = "idle" /\ f[p] = NONE /\ ~panic
  /\ f' = [f EXCEPT ![p] = i] /\ off' = [off EXCEPT ![p] = 0]
  /\ UNCHANGED <<used, block, inode, dinode, lock, pc, loc, panic, content>>

\* filewrite(f, addr, n), all n bytes being p.
filewrite(p, n) ==
  /\ pc[p] = "idle" /\ f[p] # NONE /\ ~panic
  /\ Goto(p, "filewrite", [Locals EXCEPT !.n = n])
  /\ UNCHANGED <<used, block, inode, dinode, lock, f, off, panic, content>>

\* The loop of filewrite: begin_op, ilock, and the tests of writei.
Chunk(p) ==
  LET n1 == SmallerOf(loc[p].n - loc[p].i, MaxChunk)
      i == f[p]
  IN
  /\ pc[p] = "filewrite" /\ loc[p].i < loc[p].n /\ lock[i] = NONE /\ ~panic
  /\ \/ /\ off[p] > inode[i].size \/ off[p] + n1 > MAXFILE * BSIZE
        /\ Goto(p, "idle", Locals)                 \* writei returns -1, and so does filewrite
        /\ UNCHANGED lock
     \/ /\ off[p] <= inode[i].size /\ off[p] + n1 <= MAXFILE * BSIZE
        /\ lock' = [lock EXCEPT ![i] = p]
        /\ Goto(p, "writei", [loc[p] EXCEPT !.off = off[p], !.end = off[p] + n1])
  /\ UNCHANGED <<used, block, inode, dinode, f, off, panic, content>>

Return(p) ==
  /\ pc[p] = "filewrite" /\ loc[p].i = loc[p].n
  /\ Goto(p, "idle", Locals)
  /\ UNCHANGED <<used, block, inode, dinode, lock, f, off, panic, content>>

\* bmap(ip, bn): the indirect block and the block, and whether they are new.
\* The first balloc is for the indirect block.
Bmap(ip, bn) ==
  LET direct == bn < NDIRECT
      newInd == ~direct /\ ip.addrs[NDIRECT] = NONE
      ind == IF direct THEN NONE ELSE IF newInd THEN balloc(Free) ELSE ip.addrs[NDIRECT]
      old == IF direct THEN ip.addrs[bn] ELSE IF newInd THEN NONE ELSE block[ind].addr[bn - NDIRECT]
      free == Free \ {ind}
  IN [ind |-> ind, new |-> (IF newInd THEN {ind} ELSE {}) \cup (IF old = NONE THEN {balloc(free)} ELSE {}),
      addr |-> IF old = NONE THEN balloc(free) ELSE old]

\* How many blocks bmap needs.
Needs(ip, bn) ==
  IF bn < NDIRECT THEN IF ip.addrs[bn] = NONE THEN 1 ELSE 0
  ELSE IF ip.addrs[NDIRECT] = NONE THEN 2
  ELSE IF block[ip.addrs[NDIRECT]].addr[bn - NDIRECT] = NONE THEN 1 ELSE 0

\* What bzero leaves in a new block.
Stale(b) == block[b]
bzero(b) == Zero

\* Where in the block the bytes go.
At(o) == o % BSIZE

\* One round of the loop of writei.
writei(p) ==
  LET ip == inode[f[p]]
      o == loc[p].off
      bn == o \div BSIZE
      m == SmallerOf(loc[p].end - o, BSIZE - (o % BSIZE))
      map == Bmap(ip, bn)
      fresh == [b \in BlockNo |-> IF b \in map.new THEN bzero(b) ELSE block[b]]
      linked == IF bn < NDIRECT THEN fresh ELSE [fresh EXCEPT ![map.ind].addr[bn - NDIRECT] = map.addr]
  IN
  /\ pc[p] = "writei" /\ o < loc[p].end /\ ~panic
  /\ \/ /\ Needs(ip, bn) > Cardinality(Free)         \* "balloc: out of blocks"
        /\ panic' = TRUE
        /\ UNCHANGED <<used, block, inode, loc>>
     \/ /\ Needs(ip, bn) <= Cardinality(Free)
        /\ used' = used \cup map.new
        /\ block' = [linked EXCEPT ![map.addr].bytes =
                       [x \in DOMAIN @ |-> IF x \in At(o) .. At(o) + m - 1 THEN p ELSE @[x]]]
        /\ inode' = [inode EXCEPT ![f[p]].addrs[SmallerOf(bn, NDIRECT)] = IF bn < NDIRECT THEN map.addr ELSE map.ind]
        /\ loc' = [loc EXCEPT ![p].off = o + m]
        /\ UNCHANGED panic
  /\ UNCHANGED <<dinode, lock, f, off, pc, content>>

\* When writei copies the inode to the disk: it has grown.
UpdatesNever(p) == FALSE
Updates(p) == loc[p].off > inode[f[p]].size

\* The end of writei, f->off += r, iunlock and end_op.
WriteDone(p) ==
  LET i == f[p]
      o == loc[p].off
      grown == [inode[i] EXCEPT !.size = IF o > @ THEN o ELSE @]
      old == content[i]
  IN
  /\ pc[p] = "writei" /\ o = loc[p].end /\ ~panic
  /\ inode' = [inode EXCEPT ![i] = grown]
  /\ dinode' = [dinode EXCEPT ![i] = IF Updates(p) THEN grown ELSE @]
  /\ lock' = [lock EXCEPT ![i] = NONE]
  /\ content' = [content EXCEPT ![i] =
                   [x \in 1 .. grown.size |-> IF x > off[p] /\ x <= o THEN p ELSE old[x]]]
  /\ off' = [off EXCEPT ![p] = o]
  /\ Goto(p, "filewrite", [loc[p] EXCEPT !.i = @ + (o - off[p]), !.off = 0, !.end = 0])
  /\ UNCHANGED <<used, block, f, panic>>

\* The last iput of a file without links calls itrunc; otherwise the file stays.
Close(p) ==
  LET i == f[p] IN
  /\ pc[p] = "idle" /\ i # NONE /\ ~panic
  /\ off' = [off EXCEPT ![p] = 0]
  /\ \/ /\ f' = [f EXCEPT ![p] = NONE]
        /\ UNCHANGED <<lock, pc, loc>>
     \/ /\ \A q \in Proc \ {p} : f[q] # i
        /\ lock' = [lock EXCEPT ![i] = p]
        /\ Goto(p, "itrunc", Locals)
        /\ UNCHANGED f
  /\ UNCHANGED <<used, block, inode, dinode, panic, content>>

\* The blocks that itrunc frees one by one: the direct ones, those in the indirect block, and that one.
AtStep(i, k) ==
  LET ind == inode[i].addrs[NDIRECT] IN
  IF k < NDIRECT THEN inode[i].addrs[k]
  ELSE IF ind = NONE THEN NONE
  ELSE IF k < MAXFILE THEN block[ind].addr[k - NDIRECT]
  ELSE ind

\* A round of the loops of itrunc.
itrunc(p) ==
  LET i == f[p]
      k == loc[p].i
      b == AtStep(i, k)
  IN
  /\ pc[p] = "itrunc" /\ k <= MAXFILE /\ ~panic
  /\ panic' = (b # NONE /\ b \notin used)                \* "freeing free block"
  /\ used' = used \ {b}
  /\ block' = [x \in BlockNo |-> IF x = b THEN Old ELSE block[x]]
  /\ inode' = IF k < NDIRECT \/ k = MAXFILE
              THEN [inode EXCEPT ![i].addrs[SmallerOf(k, NDIRECT)] = NONE] ELSE inode
  /\ loc' = [loc EXCEPT ![p].i = k + 1]
  /\ UNCHANGED <<dinode, lock, f, off, pc, content>>

\* size = 0 and iupdate; iput marks the inode free, and ialloc may give it to a new file.
TruncDone(p) ==
  LET i == f[p] IN
  /\ pc[p] = "itrunc" /\ loc[p].i = MAXFILE + 1 /\ ~panic
  /\ inode' = [inode EXCEPT ![i].size = 0]
  /\ dinode' = [dinode EXCEPT ![i] = inode'[i]]
  /\ lock' = [lock EXCEPT ![i] = NONE]
  /\ content' = [content EXCEPT ![i] = <<>>]
  /\ f' = [f EXCEPT ![p] = NONE]
  /\ Goto(p, "idle", Locals)
  /\ UNCHANGED <<used, block, off, panic>>

\* readi: the bytes it copies, from block to block, up to the size of the file.
MapOnly(ip, bn) == IF bn < NDIRECT THEN ip.addrs[bn] ELSE block[ip.addrs[NDIRECT]].addr[bn - NDIRECT]
readi(ip, o, n) ==
  [k \in 1 .. SmallerOf(n, ip.size - o) |->
     block[MapOnly(ip, (o + k - 1) \div BSIZE)].bytes[(o + k - 1) % BSIZE]]

\* fileread copies at most n bytes from the offset, and moves it.
fileread(p, n) ==
  LET i == f[p] IN
  /\ pc[p] = "idle" /\ i # NONE /\ lock[i] = NONE /\ off[p] <= inode[i].size /\ ~panic
  /\ off' = [off EXCEPT ![p] = @ + Len(readi(inode[i], @, n))]
  /\ UNCHANGED <<used, block, inode, dinode, lock, f, pc, loc, panic, content>>

Halted == panic /\ UNCHANGED vars

Next ==
  \/ \E p \in Proc :
       \/ \E i \in Inum : Open(p, i)
       \/ \E n \in WriteSize : filewrite(p, n)
       \/ \E n \in ReadSize : fileread(p, n)
       \/ Chunk(p) \/ writei(p) \/ WriteDone(p) \/ Return(p) \/ Close(p) \/ itrunc(p) \/ TruncDone(p)
  \/ Halted

Spec == Init /\ [][Next]_vars
----------------------------------------------------------------------------
(* Properties *)

\* The blocks that inode i uses: itrunc has passed the first k steps.
Owned(i) ==
  LET k == IF lock[i] # NONE /\ pc[lock[i]] = "itrunc" THEN loc[lock[i]].i ELSE 0 IN
  {AtStep(i, s) : s \in k .. MAXFILE} \ {NONE}

\* The bitmap is right at every step: a block is marked in use exactly when it
\* belongs to one place of one file.  So no block is leaked, shared between
\* two files, or freed twice, while files grow and shrink concurrently.
BlocksOwned ==
  /\ used = UNION {Owned(i) : i \in Inum}
  /\ \A i, j \in Inum : i # j => Owned(i) \cap Owned(j) = {}
  /\ \A i \in Inum : \A s, t \in 0 .. MAXFILE :
       lock[i] = NONE /\ AtStep(i, s) = AtStep(i, t) /\ AtStep(i, s) # NONE => s = t

\* Who locks a file and reads it finds the bytes last written at every offset,
\* across direct and indirect blocks and chunks of filewrite, and nothing of
\* the blocks' former contents.  So does who reads it after a reboot: writei
\* calls iupdate only when the file has grown, and still an inode that is not
\* locked is on the disk as it is in memory.
ReadsContent ==
  \A i \in Inum : lock[i] = NONE =>
    /\ readi(inode[i], 0, MAXFILE * BSIZE) = content[i]
    /\ dinode[i] = inode[i]
=============================================================================
