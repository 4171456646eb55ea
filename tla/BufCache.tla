------------------------------ MODULE BufCache ------------------------------
(***************************************************************************)
(* The buffer cache (bio.c) and the disk driver (ide.c), for processes     *)
(* that read sectors, write them, or leave them dirty for the log.         *)
(*                                                                         *)
(* What runs under bcache.lock or under idelock is one step.  The disk is  *)
(* external: it works on the request that idestart gave it, and then       *)
(* raises an interrupt; a read may fail.  sleep and wakeup are those of    *)
(* module Proc; bget and iderw use the same channel, the buffer.           *)
(***************************************************************************)
EXTENDS Integers, Sequences, FiniteSets, SequencesExt

CONSTANTS
  Proc, Sector, Value,
  NBUF,
  MaxDirty,           \* bound: the buffers that the log keeps dirty; each process holds one more
  MaxError            \* bound: the reads that fail

ASSUME BufCacheAssumption == {NBUF, MaxDirty, MaxError} \subseteq Nat

Buf == 1 .. NBUF
NULL == 0

VARIABLES
  buf,          \* the buffers
  lru,          \* bcache.head: the buffers, the most recently used first
  idequeue,
  drive,        \* what the disk does: "idle", "busy" or "done", and for which request
  disk,
  pc, sector, b,        \* per process: place, the sector asked for, the buffer
  panic,
  last,         \* history: what was last written to each sector
  failed, errors        \* history and bound: the buffers whose read failed

cache == <<buf, lru>>
ide == <<idequeue, drive, disk>>
hist == <<last, failed, errors>>
vars == <<cache, ide, pc, sector, b, panic, hist>>

Idle == [state |-> "idle", write |-> FALSE, sector |-> NULL, data |-> NULL]

\* binit links every buffer in at the head.
Init ==
  /\ disk \in [Sector -> Value]
  /\ buf = [x \in Buf |-> [sector |-> NULL, busy |-> FALSE, valid |-> FALSE, dirty |-> FALSE,
                           data |-> NULL]]
  /\ lru = [i \in Buf |-> NBUF + 1 - i]
  /\ idequeue = <<>> /\ drive = Idle
  /\ pc = [p \in Proc |-> "idle"] /\ sector = [p \in Proc |-> NULL] /\ b = [p \in Proc |-> NULL]
  /\ panic = FALSE
  /\ last = disk /\ failed = {} /\ errors = 0

Goto(p, l) == pc' = [pc EXCEPT ![p] = l]

\* wakeup(x) wakes who waits for the request and who waits for the buffer.
Wakeup(pcs, x) ==
  [p \in Proc |-> IF b[p] = x /\ pcs[p] = "sleep_iderw" THEN "iderw_loop"
                  ELSE IF b[p] = x /\ pcs[p] = "sleep_bget" THEN "bget"
                  ELSE pcs[p]]

CallBread(p, s) ==
  /\ pc[p] = "idle"
  /\ sector' = [sector EXCEPT ![p] = s]
  /\ Goto(p, "bget")
  /\ UNCHANGED <<cache, ide, b, panic, hist>>

Cached(s) == {x \in Buf : buf[x].sector = s}
RecyclableBusy(x) == ~buf[x].dirty
Recyclable(x) == ~buf[x].busy /\ ~buf[x].dirty
\* The buffer x once it is recycled for sector s: B_BUSY is its only flag.
RecycledValid(x, s) == [buf[x] EXCEPT !.sector = s, !.busy = TRUE]
Recycled(x, s) == [buf[x] EXCEPT !.sector = s, !.busy = TRUE, !.valid = FALSE, !.dirty = FALSE]
\* The loop from bcache.head.prev finds the least recently used one.
Victim == lru[CHOOSE i \in Buf : Recyclable(lru[i]) /\ \A j \in i + 1 .. NBUF : ~Recyclable(lru[j])]

\* bget() from acquire to release or sleep, and bread()'s test of B_VALID.
bget(p) ==
  LET s == sector[p] IN
  /\ pc[p] = "bget"
  /\ \/ \E x \in Cached(s) :
          /\ b' = [b EXCEPT ![p] = x]
          /\ \/ /\ buf[x].busy
                /\ Goto(p, "sleep_bget")
                /\ UNCHANGED <<buf, panic>>
             \/ /\ ~buf[x].busy
                /\ buf' = [buf EXCEPT ![x].busy = TRUE]
                /\ Goto(p, IF buf[x].valid THEN "have" ELSE "iderw")
                /\ UNCHANGED panic
     \/ /\ Cached(s) = {} /\ \E x \in Buf : Recyclable(x)
        /\ b' = [b EXCEPT ![p] = Victim]
        /\ buf' = [buf EXCEPT ![Victim] = Recycled(Victim, s)]
        /\ Goto(p, IF buf'[Victim].valid THEN "have" ELSE "iderw")
        /\ UNCHANGED panic
     \/ /\ Cached(s) = {} /\ \A x \in Buf : ~Recyclable(x)
        /\ panic' = TRUE
        /\ UNCHANGED <<buf, b, pc>>
  /\ UNCHANGED <<lru, ide, sector, hist>>
----------------------------------------------------------------------------
(* ide.c *)

\* idestart: the request, and for a write the data, goes to the disk.
Request(x) == [state |-> "busy", write |-> buf[x].dirty, sector |-> buf[x].sector, data |-> buf[x].data]

\* iderw() up to its first sleep.
iderw(p) ==
  /\ pc[p] = "iderw"
  /\ idequeue' = Append(idequeue, b[p])
  /\ drive' = IF idequeue = <<>> THEN Request(b[p]) ELSE drive
  /\ Goto(p, "sleep_iderw")
  /\ UNCHANGED <<cache, disk, sector, b, panic, hist>>

iderw_loop(p) ==
  /\ pc[p] = "iderw_loop"
  /\ Goto(p, IF buf[b[p]].valid /\ ~buf[b[p]].dirty THEN "have" ELSE "sleep_iderw")
  /\ UNCHANGED <<cache, ide, sector, b, panic, hist>>

\* The disk finishes the request; a read that fails leaves its data where it is.
DriveDone ==
  /\ drive.state = "busy"
  /\ \/ /\ disk' = IF drive.write THEN [disk EXCEPT ![drive.sector] = drive.data] ELSE disk
        /\ drive' = [drive EXCEPT !.state = "done"]
        /\ UNCHANGED errors
     \/ /\ ~drive.write /\ errors < MaxError
        /\ drive' = [drive EXCEPT !.state = "error"]
        /\ errors' = errors + 1
        /\ UNCHANGED disk
  /\ UNCHANGED <<cache, idequeue, pc, sector, b, panic, last, failed>>

\* The next request of the queue is started before the handler returns.
NextRequest(queue) == IF queue = <<>> THEN Idle ELSE Request(Head(queue))

\* The handler: B_VALID is set even when the read failed.
ideintr ==
  LET x == Head(idequeue)
      read == ~buf[x].dirty /\ drive.state = "done"
  IN
  /\ drive.state \in {"done", "error"} /\ idequeue # <<>>
  /\ buf' = [buf EXCEPT ![x] = [@ EXCEPT !.valid = TRUE, !.dirty = FALSE,
                                         !.data = IF read THEN disk[buf[x].sector] ELSE @]]
  /\ failed' = IF drive.state = "error" THEN failed \cup {x} ELSE failed \ {x}
  /\ pc' = Wakeup(pc, x)
  /\ idequeue' = Tail(idequeue)
  /\ drive' = NextRequest(idequeue')
  /\ UNCHANGED <<lru, disk, sector, b, panic, last, errors>>
----------------------------------------------------------------------------
(* What the owner of a buffer does *)

\* It changes the data and calls bwrite().
bwrite(p, v) ==
  /\ pc[p] = "have"
  /\ buf' = [buf EXCEPT ![b[p]].data = v, ![b[p]].dirty = TRUE]
  /\ last' = [last EXCEPT ![sector[p]] = v]
  /\ failed' = failed \ {b[p]}
  /\ Goto(p, "iderw")
  /\ UNCHANGED <<lru, ide, sector, b, panic, errors>>

\* It changes the data and calls log_write().
log_write(p, v) ==
  /\ pc[p] = "have"
  /\ Cardinality({x \in Buf : buf[x].dirty}) < MaxDirty
  /\ buf' = [buf EXCEPT ![b[p]].data = v, ![b[p]].dirty = TRUE]
  /\ last' = [last EXCEPT ![sector[p]] = v]
  /\ failed' = failed \ {b[p]}
  /\ UNCHANGED <<lru, ide, pc, sector, b, panic, errors>>

\* The sleepers of bget that brelse wakes.
WakeNobody(pcs, x) == pcs
WakeSleepers(pcs, x) == Wakeup(pcs, x)

brelse(p) ==
  /\ pc[p] = "have"
  /\ lru' = <<b[p]>> \o Remove(lru, b[p])
  /\ buf' = [buf EXCEPT ![b[p]].busy = FALSE]
  /\ pc' = WakeSleepers([pc EXCEPT ![p] = "idle"], b[p])
  /\ b' = [b EXCEPT ![p] = NULL]
  /\ sector' = [sector EXCEPT ![p] = NULL]
  /\ UNCHANGED <<ide, panic, hist>>

ProcStep(p) ==
  \/ bget(p) \/ iderw(p) \/ iderw_loop(p) \/ brelse(p)
  \/ \E v \in Value : bwrite(p, v) \/ log_write(p, v)

Next ==
  \/ \E p \in Proc : ProcStep(p) \/ \E s \in Sector : CallBread(p, s)
  \/ DriveDone \/ ideintr

Spec == Init /\ [][Next]_vars
----------------------------------------------------------------------------
(* Properties *)

Owns == {"iderw", "sleep_iderw", "iderw_loop", "have"}

\* "Only one process at a time can use a buffer" (bio.c:13): a sector is in one
\* buffer at most, and a busy buffer has one owner, who asked for its sector.
OneOwner ==
  /\ \A x, y \in Buf : buf[x].sector = buf[y].sector /\ buf[x].sector # NULL => x = y
  /\ \A x \in Buf : buf[x].busy = (\E p \in Proc : pc[p] \in Owns /\ b[p] = x)
  /\ \A p, q \in Proc : pc[p] \in Owns /\ pc[q] \in Owns /\ b[p] = b[q] => p = q
  /\ \A p \in Proc : pc[p] \in Owns => buf[b[p]].sector = sector[p]

\* Who gets a buffer from bread() finds what was last written to the sector,
\* whether it came through the log, from the disk or from the cache, and
\* however the buffer was recycled; a read that failed is the exception.
ReadsLastWrite == \A p \in Proc : pc[p] = "have" /\ b[p] \notin failed => buf[b[p]].data = last[sector[p]]

\* Nobody is stuck.  Who sleeps has something to wait for: in bget the buffer
\* is busy, in iderw the request is in the queue, and the disk works on the
\* head of the queue.  And bget() finds a buffer as long as the log and the
\* processes leave one.
NobodyStuck ==
  /\ \A p \in Proc : pc[p] = "sleep_bget" => buf[b[p]].busy
  /\ \A p \in Proc : pc[p] = "sleep_iderw" => \E i \in DOMAIN idequeue : idequeue[i] = b[p]
  /\ (idequeue = <<>>) = (drive.state = "idle")
  /\ idequeue # <<>> => drive.sector = buf[Head(idequeue)].sector
  /\ ~panic
=============================================================================
