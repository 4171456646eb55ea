----------------------------- MODULE AtomicDisk -----------------------------
(***************************************************************************)
(* What log.c promises to the file system: operations write to memory, and *)
(* what survives a crash is the memory at a moment when no operation was   *)
(* in progress.                                                            *)
(***************************************************************************)
CONSTANTS Proc, Block, Value

VARIABLES
  mem,      \* what bread() returns
  stable,   \* what a crash leaves
  open      \* who is between begin_op and end_op

Init ==
  /\ mem \in [Block -> Value] /\ stable = mem
  /\ open = {}

Begin(p) == p \notin open /\ open' = open \cup {p} /\ UNCHANGED <<mem, stable>>
End(p) == p \in open /\ open' = open \ {p} /\ UNCHANGED <<mem, stable>>

Write(p) ==
  /\ p \in open
  /\ \E b \in Block, v \in Value : mem' = [mem EXCEPT ![b] = v]
  /\ UNCHANGED <<stable, open>>

Commit == open = {} /\ stable' = mem /\ UNCHANGED <<mem, open>>
Crash == mem' = stable /\ open' = {} /\ UNCHANGED stable

Next == (\E p \in Proc : Begin(p) \/ End(p) \/ Write(p)) \/ Commit \/ Crash

Spec == Init /\ [][Next]_<<mem, stable, open>>
=============================================================================
