------------------------------ MODULE Umalloc ------------------------------
(***************************************************************************)
(* malloc and free of the user library (umalloc.c), as functions from heap *)
(* to heap.  Addresses count units of sizeof(Header); base is at address   *)
(* 0, below everything that sbrk gives.                                    *)
(***************************************************************************)
EXTENDS Integers, FiniteSets

CONSTANTS
  HEADER,         \* sizeof(Header)
  MORECORE,       \* the least number of units that morecore asks for
  HEAPMAX,        \* what sbrk can give, in units
  Sizes           \* the sizes, in bytes, that programs ask for

base == 0
NoPtr == -1

\* brk is the end of the heap, and live, for the properties, what malloc has handed out.
EmptyHeap ==
  [mem |-> [a \in 0 .. HEAPMAX |-> [ptr |-> NoPtr, size |-> 0]], freep |-> NoPtr, brk |-> 1, live |-> {}]

ptr(h, p) == h.mem[p].ptr
size(h, p) == h.mem[p].size
\* A malloc that fails leaves the heap as it was; the result is marked by a null freep.
Failed(h) == [h EXCEPT !.freep = NoPtr]
Fails(h) == h.freep = NoPtr

\* Where the search of free() stops: the blocks around bp, or the end of the list.
RECURSIVE Place(_, _, _)
Place(h, bp, p) ==
  IF \/ bp > p /\ bp < ptr(h, p)
     \/ p >= ptr(h, p) /\ (bp > p \/ bp < ptr(h, p))
  THEN p ELSE Place(h, bp, ptr(h, p))

free(h, bp) ==
  LET p == Place(h, bp, h.freep)
      n == ptr(h, p)
      block == IF bp + size(h, bp) = n THEN [ptr |-> ptr(h, n), size |-> size(h, bp) + size(h, n)]
                                       ELSE [ptr |-> n, size |-> size(h, bp)]
      before == IF p + size(h, p) = bp THEN [ptr |-> block.ptr, size |-> size(h, p) + block.size]
                                       ELSE [ptr |-> bp, size |-> size(h, p)]
  IN [h EXCEPT !.mem = [@ EXCEPT ![bp] = block, ![p] = before], !.freep = p, !.live = @ \ {bp}]

morecore(h, nunits) ==
  LET nu == IF nunits < MORECORE THEN MORECORE ELSE nunits
      hp == h.brk
  IN IF h.brk + nu > HEAPMAX + 1 THEN Failed(h)
     ELSE free([h EXCEPT !.mem[hp].size = nu, !.brk = @ + nu], hp)

\* The loop of malloc: it ends with a block, or because there is no memory.
RECURSIVE Search(_, _, _, _)
Search(h, prevp, p, nunits) ==
  LET more == morecore(h, nunits)
      rest == size(h, p) - nunits
  IN IF rest = 0
     THEN [h EXCEPT !.mem[prevp].ptr = ptr(h, p), !.freep = prevp, !.live = @ \cup {p}]
     ELSE IF rest > 0
     THEN [h EXCEPT !.mem = [@ EXCEPT ![p].size = rest, ![p + rest].size = nunits],
                    !.freep = prevp, !.live = @ \cup {p + rest}]
     ELSE IF p # h.freep THEN Search(h, p, ptr(h, p), nunits)
     ELSE IF Fails(more) THEN more
     ELSE Search(more, more.freep, ptr(more, more.freep), nunits)

malloc(h, nbytes) ==
  LET nunits == ((nbytes + HEADER - 1) \div HEADER) + 1
      ready == IF h.freep = NoPtr THEN [h EXCEPT !.mem[base] = [ptr |-> base, size |-> 0], !.freep = base] ELSE h
  IN Search(ready, ready.freep, ptr(ready, ready.freep), nunits)
----------------------------------------------------------------------------
(* What malloc and free promise. *)

\* The free blocks, in the order of the list that begins and ends with base.
RECURSIVE FreeFrom(_, _)
FreeFrom(h, p) == IF p = base THEN {} ELSE {p} \cup FreeFrom(h, ptr(h, p))
FreeBlocks(h) == IF h.freep = NoPtr THEN {} ELSE FreeFrom(h, ptr(h, base))
Extent(h, p) == p .. p + size(h, p) - 1

\* The blocks in use and the free ones share no unit and fill the heap: no
\* memory is handed out twice or lost.  The list is in the order of addresses,
\* and neighbours that are both free have been joined.
Sound(h) ==
  LET blocks == h.live \cup FreeBlocks(h) IN
  /\ h.live \cap FreeBlocks(h) = {}
  /\ \A p, q \in blocks : p # q => Extent(h, p) \cap Extent(h, q) = {}
  /\ UNION {Extent(h, p) : p \in blocks} = 1 .. h.brk - 1
  /\ \A p \in FreeBlocks(h) : ptr(h, p) > p \/ ptr(h, p) = base
  /\ \A p \in FreeBlocks(h) : p + size(h, p) \notin FreeBlocks(h)

\* What is in use stays where it is and keeps its size, whoever calls malloc or free.
Keeps(h, g) == \A p \in h.live \cap g.live : size(g, p) = size(h, p)

\* malloc fails only when no free block is large enough and sbrk fails.
MayFail(h, nbytes) ==
  LET nunits == ((nbytes + HEADER - 1) \div HEADER) + 1 IN
  /\ \A p \in FreeBlocks(h) : size(h, p) < nunits
  /\ h.brk + nunits > HEAPMAX + 1 \/ h.brk + MORECORE > HEAPMAX + 1

Grown(h) == {g \in {malloc(h, n) : n \in Sizes} : ~Fails(g)}
Shrunk(h) == {free(h, p) : p \in h.live}

\* The heaps after at most n calls.
RECURSIVE Heaps(_)
Heaps(n) ==
  IF n = 0 THEN {EmptyHeap} ELSE LET hs == Heaps(n - 1) IN hs \cup UNION {Grown(h) \cup Shrunk(h) : h \in hs}

MallocIsRight(n) ==
  \A h \in Heaps(n) :
    /\ Sound(h)
    /\ \A g \in Grown(h) \cup Shrunk(h) : Keeps(h, g)
    /\ \A k \in Sizes : Fails(malloc(h, k)) => MayFail(h, k)
=============================================================================
