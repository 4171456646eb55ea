-------------------------------- MODULE Log --------------------------------
(***************************************************************************)
(* The write-ahead log (log.c): system calls that write blocks between     *)
(* begin_op and end_op, the group commit by the last of them, crashes      *)
(* between any two writes to the disk, and recovery.                       *)
(*                                                                         *)
(* A write of one sector is atomic: the header and every block fit in one. *)
(* The buffers of the log's own blocks are not modelled: each is read and  *)
(* written by the one process that commits, and written through.  The      *)
(* number of buffers is not bounded here: module BufCache bounds it.       *)
(***************************************************************************)
EXTENDS Integers, Sequences, FiniteSets

CONSTANTS
  Proc, Block,
  MAXOPBLOCKS, LOGSIZE,
  NLOG,               \* sb.nlog: the header and the blocks of the log on the disk
  OpBlocks,           \* how many different blocks one operation writes at most
  MaxOp, MaxCrash     \* bounds: the operations begun, and the crashes

ASSUME LogAssumption ==
  /\ {MAXOPBLOCKS, LOGSIZE, NLOG, OpBlocks} \subseteq Nat \ {0}
  /\ {MaxOp, MaxCrash} \subseteq Nat

\* The contents of a block: 0 at first, and then the number of the operation that wrote it.
Value == 0 .. MaxOp
LogBlock == 1 .. LOGSIZE

VARIABLES
  home, logged, header,       \* the disk: blocks, blocks of the log, and the sectors in its header block
  lh, outstanding, committing,
  cache,                      \* the buffers of the blocks: cached, data, dirty, busy
  pc, cur, wrote,             \* per process: place, the block in hand, the blocks of the operation
  tail,                       \* the loop variable of write_log and install_trans
  boot,                       \* "up", "recover" (initlog runs), or "panic"
  id, ops, crashes            \* the number of each process's operation, and the bounds

disk == <<home, logged, header>>
log == <<lh, outstanding, committing>>
proc == <<pc, cur, wrote, id>>
bounds == <<ops, crashes>>
vars == <<disk, log, cache, proc, tail, boot, bounds>>

NoBlock == "none"
NoBuf == [cached |-> FALSE, data |-> 0, dirty |-> FALSE, busy |-> FALSE]

Init ==
  /\ home = [b \in Block |-> 0] /\ logged = [i \in LogBlock |-> 0] /\ header = <<>>
  /\ lh = <<>> /\ outstanding = 0 /\ committing = FALSE
  /\ cache = [b \in Block |-> NoBuf]
  /\ pc = [p \in Proc |-> "idle"] /\ cur = [p \in Proc |-> NoBlock]
  /\ wrote = [p \in Proc |-> {}] /\ id = [p \in Proc |-> 0]
  /\ tail = 1 /\ boot = "up"
  /\ ops = 0 /\ crashes = 0

Up == boot = "up"
Goto(p, l) == pc' = [pc EXCEPT ![p] = l]

\* What bread() finds in block b.
Data(b) == IF cache[b].cached THEN cache[b].data ELSE home[b]

\* sleep and wakeup on the channel &log, which only begin_op sleeps on.
Wakeup(pcs) == [p \in Proc |-> IF pcs[p] = "sleep" THEN "begin" ELSE pcs[p]]

Fits == Len(lh) + (outstanding + 1) * MAXOPBLOCKS <= LOGSIZE

CallBegin(p) ==
  /\ Up /\ pc[p] = "idle" /\ ops < MaxOp
  /\ ops' = ops + 1
  /\ id' = [id EXCEPT ![p] = ops + 1]
  /\ Goto(p, "begin")
  /\ UNCHANGED <<disk, log, cache, cur, wrote, tail, boot, crashes>>

begin_op(p) ==
  /\ Up /\ pc[p] = "begin"
  /\ \/ /\ committing \/ ~Fits
        /\ Goto(p, "sleep")
        /\ UNCHANGED outstanding
     \/ /\ ~committing /\ Fits
        /\ outstanding' = outstanding + 1
        /\ Goto(p, "op")
  /\ UNCHANGED <<disk, lh, committing, cache, cur, wrote, id, tail, boot, bounds>>

\* bread, the modification of the buffer, and the two tests of log_write, which hold no lock.
Modify(p, b) ==
  /\ Up /\ pc[p] = "op" /\ ~cache[b].busy
  /\ Cardinality(wrote[p] \cup {b}) <= OpBlocks
  /\ \/ /\ Len(lh) >= LOGSIZE \/ Len(lh) >= NLOG - 1 \/ outstanding < 1
        /\ boot' = "panic"
        /\ UNCHANGED <<cache, pc, cur, wrote>>
     \/ /\ Len(lh) < LOGSIZE /\ Len(lh) < NLOG - 1 /\ outstanding >= 1
        /\ cache' = [cache EXCEPT ![b] = [@ EXCEPT !.cached = TRUE, !.data = id[p], !.busy = TRUE]]
        /\ cur' = [cur EXCEPT ![p] = b]
        /\ wrote' = [wrote EXCEPT ![p] = @ \cup {b}]
        /\ Goto(p, "log_write")
        /\ UNCHANGED boot
  /\ UNCHANGED <<disk, log, id, tail, bounds>>

Absorb(b) == IF \E i \in DOMAIN lh : lh[i] = b THEN lh ELSE Append(lh, b)

\* log_write under log.lock, and brelse.
log_write(p) ==
  /\ Up /\ pc[p] = "log_write"
  /\ lh' = Absorb(cur[p])
  /\ cache' = [cache EXCEPT ![cur[p]].dirty = TRUE, ![cur[p]].busy = FALSE]
  /\ cur' = [cur EXCEPT ![p] = NoBlock]
  /\ Goto(p, "op")
  /\ UNCHANGED <<disk, outstanding, committing, wrote, id, tail, boot, bounds>>

\* Who is woken by an end_op that does not commit: begin_op may be waiting for log space.
KeepAsleep(pcs) == pcs
WakeBeginners(pcs) == Wakeup(pcs)

end_op(p) ==
  /\ Up /\ pc[p] = "op"
  /\ outstanding' = outstanding - 1
  /\ wrote' = [wrote EXCEPT ![p] = {}]
  /\ id' = [id EXCEPT ![p] = 0]
  /\ \/ /\ committing
        /\ boot' = "panic"
        /\ UNCHANGED <<committing, pc, tail>>
     \/ /\ ~committing /\ outstanding = 1
        /\ committing' = TRUE
        /\ Goto(p, IF lh = <<>> THEN "committed" ELSE "write_log")
        /\ tail' = 1
        /\ UNCHANGED boot
     \/ /\ ~committing /\ outstanding # 1
        /\ pc' = WakeBeginners([pc EXCEPT ![p] = "idle"])
        /\ UNCHANGED <<committing, tail, boot>>
  /\ UNCHANGED <<disk, lh, cache, cur, bounds>>
----------------------------------------------------------------------------
(* commit(), one write to the disk at a time *)

\* The place after the tail-th block, in a loop that goes on to next.
Loop(p, l, next) ==
  /\ Goto(p, IF tail = Len(lh) THEN next ELSE l)
  /\ tail' = IF tail = Len(lh) THEN 1 ELSE tail + 1

write_log(p) ==
  /\ Up /\ pc[p] = "write_log" /\ ~cache[lh[tail]].busy
  /\ logged' = [logged EXCEPT ![tail] = Data(lh[tail])]
  /\ Loop(p, "write_log", "write_head")
  /\ UNCHANGED <<home, header, log, cache, cur, wrote, id, boot, bounds>>

\* "This is the true point at which the current transaction commits."
write_head(p) ==
  /\ Up /\ pc[p] = "write_head"
  /\ header' = lh
  /\ Goto(p, "install_trans")
  /\ UNCHANGED <<home, logged, log, cache, cur, wrote, id, tail, boot, bounds>>

\* install_trans copies a block of the log to its home, through the buffer of the home block.
InstallLeavesDirty ==
  /\ home' = [home EXCEPT ![lh[tail]] = logged[tail]]
  /\ UNCHANGED cache
Install ==
  /\ home' = [home EXCEPT ![lh[tail]] = logged[tail]]
  /\ cache' = [cache EXCEPT ![lh[tail]] = [cached |-> TRUE, data |-> logged[tail], dirty |-> FALSE, busy |-> FALSE]]

install_trans(p) ==
  /\ Up /\ pc[p] = "install_trans" /\ ~cache[lh[tail]].busy
  /\ Install
  /\ Loop(p, "install_trans", "clear")
  /\ UNCHANGED <<logged, header, log, cur, wrote, id, boot, bounds>>

\* log.lh.n = 0 and the second write_head.
Clear(p) ==
  /\ Up /\ pc[p] = "clear"
  /\ lh' = <<>> /\ header' = <<>>
  /\ Goto(p, "committed")
  /\ UNCHANGED <<home, logged, outstanding, committing, cache, cur, wrote, id, tail, boot, bounds>>

\* The end of end_op.
Committed(p) ==
  /\ Up /\ pc[p] = "committed"
  /\ committing' = FALSE
  /\ pc' = Wakeup([pc EXCEPT ![p] = "idle"])
  /\ UNCHANGED <<disk, lh, outstanding, cache, cur, wrote, id, tail, boot, bounds>>

\* bget recycles a buffer that is neither busy nor dirty.
CanRecycleUnlogged(b) == ~cache[b].busy
CanRecycle(b) == ~cache[b].busy /\ ~cache[b].dirty
Recycle(b) ==
  /\ boot # "panic" /\ cache[b].cached /\ CanRecycle(b)
  /\ cache' = [cache EXCEPT ![b] = NoBuf]
  /\ UNCHANGED <<disk, log, proc, tail, boot, bounds>>
----------------------------------------------------------------------------
(* Crashes and recovery *)

\* Power fails, or a panic is followed by a reset: memory is lost, and initlog has read the header.
Crash ==
  /\ crashes < MaxCrash
  /\ crashes' = crashes + 1
  /\ boot' = "recover"
  /\ lh' = header /\ outstanding' = 0 /\ committing' = FALSE
  /\ cache' = [b \in Block |-> NoBuf]
  /\ pc' = [p \in Proc |-> "idle"] /\ cur' = [p \in Proc |-> NoBlock]
  /\ wrote' = [p \in Proc |-> {}] /\ id' = [p \in Proc |-> 0]
  /\ tail' = 1
  /\ UNCHANGED <<disk, ops>>

RecoverInstall ==
  /\ boot = "recover" /\ tail <= Len(lh)
  /\ Install
  /\ tail' = tail + 1
  /\ UNCHANGED <<logged, header, log, proc, boot, bounds>>

RecoverClear ==
  /\ boot = "recover" /\ tail > Len(lh)
  /\ lh' = <<>> /\ header' = <<>>
  /\ boot' = "up" /\ tail' = 1
  /\ UNCHANGED <<home, logged, outstanding, committing, cache, proc, bounds>>

\* Nothing is left to do within the bounds.
Finished ==
  /\ Up /\ ops = MaxOp /\ \A p \in Proc : pc[p] = "idle"
  /\ UNCHANGED vars

Next ==
  \/ \E p \in Proc :
       \/ CallBegin(p) \/ begin_op(p) \/ (\E b \in Block : Modify(p, b)) \/ log_write(p) \/ end_op(p)
       \/ write_log(p) \/ write_head(p) \/ install_trans(p) \/ Clear(p) \/ Committed(p)
  \/ \E b \in Block : Recycle(b)
  \/ Crash \/ RecoverInstall \/ RecoverClear
  \/ Finished

Spec == Init /\ [][Next]_vars
----------------------------------------------------------------------------
(* Properties *)

\* What the disk holds once the log has been installed.
Stable == [b \in Block |->
             IF \E i \in DOMAIN header : header[i] = b
             THEN logged[CHOOSE i \in DOMAIN header : header[i] = b]
             ELSE home[b]]

Memory == IF boot = "recover" THEN Stable ELSE [b \in Block |-> Data(b)]

A == INSTANCE AtomicDisk WITH
       mem <- Memory, stable <- Stable, open <- {p \in Proc : pc[p] \in {"op", "log_write"}}

\* The log makes operations atomic across crashes: what a crash leaves on the
\* disk, at any point of commit() or of recovery, is what memory was at a
\* moment when no operation was in progress.
AtomicOperations == A!Spec

\* end_op() of the last operation returns when everything is on the disk:
\* while no operation and no commit is in progress the log is empty and the
\* home blocks hold what the cache holds.
Durable ==
  Up /\ outstanding = 0 /\ ~committing =>
    header = <<>> /\ lh = <<>> /\ home = Memory /\ \A b \in Block : ~cache[b].dirty


\* A sleeper in begin_op has something to wait for: no wakeup is lost.
BeginWaits == \A p \in Proc : Up /\ pc[p] = "sleep" => committing \/ ~Fits
=============================================================================
