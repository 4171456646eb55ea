--------------------------------- MODULE VM ---------------------------------
(***************************************************************************)
(* Memory: the page allocator (kalloc.c), page tables (vm.c), and the      *)
(* system calls that use them: sbrk, exec (exec.c), fork and exit          *)
(* (proc.c).                                                               *)
(*                                                                         *)
(* An address is a number; a page of user memory is named by its index.    *)
(* A step is one round of a loop that takes a page; other processes take   *)
(* and free pages in between.  Freeing a range of pages is one step.       *)
(* kalloc returns the head of the free list; here it is the smallest free  *)
(* page, since nothing depends on which one it is.                         *)
(***************************************************************************)
EXTENDS Integers, Sequences, FiniteSets, FiniteSetsExt, Functions

CONSTANTS
  Proc,               \* slots of the process table
  Initproc,           \* the first process
  NPAGE,              \* pages of physical memory
  PGSIZE,
  NPDE, NPTE,         \* page tables of the user part, and entries in each
  Sbrk,               \* bound: the arguments of sbrk
  ProgSize            \* bound: the memory of a program's segment

ASSUME VMAssumption == Initproc \in Proc /\ {NPAGE, PGSIZE, NPDE, NPTE} \subseteq Nat \ {0}

Page == 1 .. NPAGE
NONE == 0
UserPage == 0 .. (NPDE * NPTE) - 1
KERNBASE == NPDE * NPTE * PGSIZE
PageUp(a) == (a + PGSIZE - 1) \div PGSIZE           \* PGROUNDUP(a), as a page index
PageDown(a) == a \div PGSIZE
PDX(v) == v \div NPTE

VARIABLES
  free,         \* the free list
  content,      \* what a page holds
  state, kstack, as, sz,        \* per process; as is its page table
  pc, loc,      \* per process: place and locals; loc.as is the page table it builds
  panic,
  lost,         \* history: pages that error paths forget
  missed,       \* history: allocuvm has ignored a failure of mappages
  view          \* history: what each process should find in its memory

sys == <<lost, missed, panic>>
vars == <<free, content, state, kstack, as, sz, pc, loc, sys, view>>

\* A page table: its own page, the page of the kernel's part, the page tables
\* of the user part, the user pages, and those of them with PTE_U.
NoAS == [pgdir |-> NONE, kern |-> NONE, pt |-> [d \in 0 .. NPDE - 1 |-> NONE],
         pte |-> [v \in UserPage |-> NONE], user |-> {}]
Pages(a) == ({a.pgdir, a.kern} \cup Range(a.pt) \cup Range(a.pte)) \ {NONE}
NoView == [v \in UserPage |-> "none"]
Locals == [as |-> NoAS, child |-> NONE, old |-> 0, new |-> 0, at |-> 0, then |-> "idle"]

\* After userinit: one page, the initcode.
Init ==
  /\ free = 6 .. NPAGE
  /\ content = [g \in Page |-> IF g = 5 THEN "text" ELSE "junk"]
  /\ state = [p \in Proc |-> IF p = Initproc THEN "user" ELSE "unused"]
  /\ kstack = [p \in Proc |-> IF p = Initproc THEN 1 ELSE NONE]
  /\ as = [p \in Proc |-> IF p = Initproc
             THEN [NoAS EXCEPT !.pgdir = 2, !.kern = 3, !.pt[0] = 4, !.pte[0] = 5, !.user = {0}] ELSE NoAS]
  /\ sz = [p \in Proc |-> IF p = Initproc THEN PGSIZE ELSE 0]
  /\ pc = [p \in Proc |-> "idle"] /\ loc = [p \in Proc |-> Locals]
  /\ panic = FALSE /\ lost = {} /\ missed = FALSE
  /\ view = [p \in Proc |-> IF p = Initproc THEN [NoView EXCEPT ![0] = "text"] ELSE NoView]
----------------------------------------------------------------------------
(* kalloc.c and vm.c *)

kalloc(fr) == Min(fr)
Junked(c, S) == [g \in Page |-> IF g \in S THEN "junk" ELSE c[g]]         \* memset(v, 1, PGSIZE)
kfree(S) == free' = free \cup S /\ content' = Junked(content, S)

\* mappages(a, v, mem): the entry, and a new page table for it if needed.  It
\* fails if there is no page for that.
NeedsTable(a, v) == a.pt[PDX(v)] = NONE
Maps(a, v, fr) == NeedsTable(a, v) => fr # {}
mappages(a, v, mem, fr) ==
  [a EXCEPT !.pte[v] = mem, !.user = @ \cup {v}, !.pt[PDX(v)] = IF NeedsTable(a, v) THEN kalloc(fr) ELSE @]
Tables(a, v, fr) == IF NeedsTable(a, v) THEN {kalloc(fr)} ELSE {}

\* The pages at which deallocuvm looks for an entry; it skips a missing page
\* table by adding NPTENTRIES pages to the address.
Visits(a, oldsz, newsz) ==
  LET from[v \in 0 .. (NPDE + 1) * NPTE] ==
        IF v * PGSIZE >= oldsz \/ v \notin UserPage THEN {}
        ELSE IF NeedsTable(a, v) THEN from[v + NPTE] ELSE {v} \cup from[v + 1]
  IN from[PageUp(newsz)]

\* deallocuvm: the page table and the pages freed.
Unmaps(a, oldsz, newsz) == IF newsz >= oldsz THEN {} ELSE Visits(a, oldsz, newsz)
deallocuvm(a, V) == [a EXCEPT !.pte = [v \in UserPage |-> IF v \in V THEN NONE ELSE @[v]], !.user = @ \ V]
Freed(a, V) == {a.pte[v] : v \in V} \ {NONE}

\* What a page holds when allocuvm maps it: memset.
Junk(g) == content[g]
memset(g) == "zero"

\* The page at which allocuvm starts.
FirstDown(oldsz) == PageDown(oldsz)
First(oldsz) == PageUp(oldsz)

Goto(p, l, x) == pc' = [pc EXCEPT ![p] = l] /\ loc' = [loc EXCEPT ![p] = x]
Return(p) == Goto(p, "idle", Locals)

\* A process that executes user code: the page of its instructions is there.
Alive(p) == state[p] = "user" /\ pc[p] = "idle" /\ as[p].pte[0] # NONE /\ ~panic

\* allocuvm(pgdir, oldsz, newsz) on the page table a; the caller goes on at label then.
allocuvm(p, a, oldsz, newsz, then) ==
  Goto(p, "allocuvm", [Locals EXCEPT !.as = a, !.old = oldsz, !.new = newsz, !.at = First(oldsz), !.then = then])

\* One round of its loop.  If mappages fails the page is neither mapped nor
\* freed, and allocuvm goes on.
AllocPage(p) ==
  LET x == loc[p]
      mem == kalloc(free)
      rest == free \ {mem}
  IN
  /\ pc[p] = "allocuvm" /\ x.at * PGSIZE < x.new /\ free # {} /\ ~panic
  /\ panic' = (Maps(x.as, x.at, rest) /\ x.as.pte[x.at] # NONE)                   \* "remap"
  /\ content' = [content EXCEPT ![mem] = memset(mem)]
  /\ \/ /\ Maps(x.as, x.at, rest)
        /\ free' = rest \ Tables(x.as, x.at, rest)
        /\ loc' = [loc EXCEPT ![p].as = mappages(@, x.at, mem, rest), ![p].at = @ + 1]
        /\ UNCHANGED <<lost, missed>>
     \/ /\ ~Maps(x.as, x.at, rest)
        /\ free' = rest /\ lost' = lost \cup {mem} /\ missed' = TRUE
        /\ loc' = [loc EXCEPT ![p].at = @ + 1]
  /\ UNCHANGED <<state, kstack, as, sz, pc, view>>

\* Out of memory: deallocuvm(newsz, oldsz), and allocuvm returns 0.
AllocFails(p) ==
  LET x == loc[p]
      V == Unmaps(x.as, x.new, x.old)
  IN
  /\ pc[p] = "allocuvm" /\ x.at * PGSIZE < x.new /\ free = {} /\ ~panic
  /\ kfree(Freed(x.as, V))
  /\ Goto(p, IF x.then = "sbrk" THEN "sbrkbad" ELSE "execbad", [x EXCEPT !.as = deallocuvm(@, V)])
  /\ UNCHANGED <<state, kstack, as, sz, sys, view>>

AllocDone(p) ==
  /\ pc[p] = "allocuvm" /\ loc[p].at * PGSIZE >= loc[p].new
  /\ Goto(p, loc[p].then, loc[p])
  /\ UNCHANGED <<free, content, state, kstack, as, sz, sys, view>>

\* setupkvm: the page of the page table and then that of the kernel's part;
\* when there is none for the second, the first is forgotten.
Setup(p, x, fail) ==
  LET g == kalloc(free)
      rest == free \ {g}
  IN
  \/ /\ free = {} /\ fail
     /\ UNCHANGED <<free, lost>>
  \/ /\ free # {} /\ rest = {} /\ fail
     /\ free' = rest /\ lost' = lost \cup {g}
  \/ /\ free # {} /\ rest # {}
     /\ free' = rest \ {kalloc(rest)}
     /\ Goto(p, x.then, [x EXCEPT !.as = [NoAS EXCEPT !.pgdir = g, !.kern = kalloc(rest)]])
     /\ UNCHANGED <<lost, kstack, state>>
----------------------------------------------------------------------------
(* sbrk *)

\* What the history expects after a change of size: new pages are zero.
Resized(old, from, to) ==
  [v \in UserPage |-> IF v >= PageUp(to) THEN "none" ELSE IF v >= PageUp(from) THEN "zero" ELSE old[v]]

\* init.c never calls sbrk.
sys_sbrk(p, n) ==
  LET new == sz[p] + n IN
  /\ Alive(p) /\ p # Initproc
  /\ n > 0 /\ new < KERNBASE
  /\ allocuvm(p, as[p], sz[p], new, "sbrk")
  /\ UNCHANGED <<free, content, state, kstack, as, sz, sys, view>>

\* growproc after allocuvm; pages are mapped in the process's own page table all along.
SbrkGrown(p) ==
  /\ pc[p] = "sbrk"
  /\ as' = [as EXCEPT ![p] = loc[p].as]
  /\ sz' = [sz EXCEPT ![p] = loc[p].new]
  /\ view' = [view EXCEPT ![p] = Resized(@, loc[p].old, loc[p].new)]
  /\ Return(p)
  /\ UNCHANGED <<free, content, state, kstack, sys>>

SbrkBad(p) ==
  /\ pc[p] = "sbrkbad"
  /\ as' = [as EXCEPT ![p] = loc[p].as]
  /\ Return(p)
  /\ UNCHANGED <<free, content, state, kstack, sz, sys, view>>

\* n < 0: when nothing is left deallocuvm returns 0, and growproc takes that
\* for an error and leaves sz.  A size below 0 wraps around and changes nothing.
Shrink(p, n) ==
  LET new == sz[p] + n
      V == Unmaps(as[p], sz[p], new)
  IN
  /\ Alive(p) /\ p # Initproc /\ n < 0 /\ new >= 0
  /\ kfree(Freed(as[p], V))
  /\ as' = [as EXCEPT ![p] = deallocuvm(@, V)]
  /\ sz' = [sz EXCEPT ![p] = IF new = 0 THEN @ ELSE new]
  /\ view' = [view EXCEPT ![p] = Resized(@, sz[p], new)]
  /\ UNCHANGED <<state, kstack, pc, loc, sys>>
----------------------------------------------------------------------------
(* exec *)

exec(p, size) ==
  /\ Alive(p)
  /\ Setup(p, [Locals EXCEPT !.then = "load", !.new = size],
           UNCHANGED <<pc, loc, kstack, state>>)
  /\ UNCHANGED <<content, as, sz, panic, missed, view>>

ExecLoad(p) ==
  /\ pc[p] = "load"
  /\ allocuvm(p, loc[p].as, 0, loc[p].new, "loaduvm")
  /\ UNCHANGED <<free, content, state, kstack, as, sz, sys, view>>

\* loaduvm fills the segment; allocuvm for the guard page and the stack.
\* A page that is not mapped here is written all the same, at address 0.
loaduvm(p) ==
  LET a == loc[p].as
      size == loc[p].new
      seg == 0 .. PageUp(size) - 1
      top == (PageUp(size) + 2) * PGSIZE
  IN
  /\ pc[p] = "loaduvm" /\ ~panic
  /\ \/ /\ \E v \in seg : NeedsTable(a, v)                 \* "loaduvm: address should exist"
        /\ panic' = TRUE
        /\ UNCHANGED <<content, pc, loc>>
     \/ /\ \A v \in seg : ~NeedsTable(a, v)
        /\ content' = [g \in Page |-> IF \E v \in seg : a.pte[v] = g THEN "text" ELSE content[g]]
        /\ IF top >= KERNBASE THEN Goto(p, "execbad", loc[p])
           ELSE allocuvm(p, a, PageUp(size) * PGSIZE, top, "commit")
        /\ UNCHANGED panic
  /\ UNCHANGED <<free, state, kstack, as, sz, lost, missed, view>>

\* What exec does with the old page table.
Kept(p) == {}
Replaced(p) == Pages(as[p])

\* clearpteu, the arguments on the stack by copyout, and the new image.
ExecCommit(p) ==
  LET a == loc[p].as
      stack == PageDown(loc[p].new) - 1
  IN
  /\ pc[p] = "commit" /\ ~panic
  /\ \/ /\ NeedsTable(a, stack - 1) \/ NeedsTable(a, stack)                 \* "clearpteu", uva2ka of no entry
        /\ panic' = TRUE
        /\ UNCHANGED <<free, content, as, sz, pc, loc, view>>
     \/ /\ ~NeedsTable(a, stack - 1) /\ ~NeedsTable(a, stack) /\ a.pte[stack] = NONE
        /\ Goto(p, "execbad", loc[p])
        /\ UNCHANGED <<free, content, as, sz, panic, view>>
     \/ /\ ~NeedsTable(a, stack - 1) /\ a.pte[stack] # NONE
        /\ content' = [Junked(content, Replaced(p)) EXCEPT ![a.pte[stack]] = "args"]
        /\ free' = free \cup Replaced(p)
        /\ as' = [as EXCEPT ![p] = [a EXCEPT !.user = @ \ {stack - 1}]]
        /\ sz' = [sz EXCEPT ![p] = loc[p].new]
        /\ view' = [view EXCEPT ![p] = [v \in UserPage |->
                      IF v < stack - 1 THEN "text" ELSE IF v = stack - 1 THEN "zero"
                      ELSE IF v = stack THEN "args" ELSE "none"]]
        /\ Return(p)
        /\ UNCHANGED panic
  /\ UNCHANGED <<state, kstack, lost, missed>>

\* A failure of allocuvm, or of readi, of a check, or of copyout.
ExecFails(p) ==
  /\ pc[p] \in {"load", "loaduvm", "commit"} /\ ~panic
  /\ Goto(p, "execbad", loc[p])
  /\ UNCHANGED <<free, content, state, kstack, as, sz, sys, view>>

ExecBad(p) ==
  /\ pc[p] = "execbad"
  /\ kfree(Pages(loc[p].as))
  /\ Return(p)
  /\ UNCHANGED <<state, kstack, as, sz, sys, view>>
----------------------------------------------------------------------------
(* fork, exit *)

\* allocproc: the slot c and its kernel stack.
fork(p, c) ==
  /\ Alive(p) /\ state[c] = "unused"
  /\ \/ free = {} /\ UNCHANGED <<free, state, kstack, pc, loc>>
     \/ /\ free # {}
        /\ free' = free \ {kalloc(free)}
        /\ kstack' = [kstack EXCEPT ![c] = kalloc(free)]
        /\ state' = [state EXCEPT ![c] = "embryo"]
        /\ Goto(p, "copyuvm0", [Locals EXCEPT !.child = c, !.then = "copyuvm"])
  /\ UNCHANGED <<content, as, sz, sys, view>>

\* The slot after copyuvm has failed.
Unfork(p) ==
  LET c == loc[p].child IN
  /\ state' = [state EXCEPT ![c] = "unused"]
  /\ kstack' = [kstack EXCEPT ![c] = NONE]
  /\ Return(p)

ForkSetup(p) ==
  LET c == loc[p].child IN
  /\ pc[p] = "copyuvm0"
  /\ \/ /\ Cardinality(free) < 2
        /\ lost' = lost \cup free                   \* the page that setupkvm forgets
        /\ free' = {kstack[c]}
        /\ Unfork(p)
     \/ Cardinality(free) >= 2 /\ Setup(p, loc[p], FALSE)
  /\ UNCHANGED <<content, as, sz, panic, missed, view>>

\* One round of the loop of copyuvm.
copyuvm(p) ==
  LET x == loc[p]
      c == x.child
      src == as[p].pte[x.at]
      mem == kalloc(free)
      rest == free \ {mem}
  IN
  /\ pc[p] = "copyuvm" /\ x.at * PGSIZE < sz[p] /\ ~panic
  /\ \/ /\ src = NONE                                          \* "copyuvm: page not present"
        /\ panic' = TRUE
        /\ UNCHANGED <<free, content, state, kstack, pc, loc, lost>>
     \/ /\ src # NONE /\ free # {} /\ Maps(x.as, x.at, rest)
        /\ content' = [content EXCEPT ![mem] = content[src]]
        /\ free' = rest \ Tables(x.as, x.at, rest)
        /\ loc' = [loc EXCEPT ![p].at = @ + 1, ![p].as =
                     [mappages(@, x.at, mem, rest) EXCEPT !.user = IF x.at \in as[p].user THEN @ ELSE @ \ {x.at}]]
        /\ UNCHANGED <<state, kstack, pc, lost, panic>>
     \/ /\ src # NONE /\ ~(free # {} /\ Maps(x.as, x.at, rest))
        /\ lost' = lost \cup free                            \* mem, when mappages fails
        /\ free' = Pages(x.as) \cup {kstack[c]}              \* freevm(d), and the stack in fork
        /\ content' = Junked(content, free')
        /\ Unfork(p)
        /\ UNCHANGED panic
  /\ UNCHANGED <<as, sz, missed, view>>

Forked(p) ==
  LET c == loc[p].child IN
  /\ pc[p] = "copyuvm" /\ loc[p].at * PGSIZE >= sz[p]
  /\ as' = [as EXCEPT ![c] = loc[p].as]
  /\ sz' = [sz EXCEPT ![c] = sz[p]]
  /\ view' = [view EXCEPT ![c] = view[p]]
  /\ state' = [state EXCEPT ![c] = "user"]
  /\ Return(p)
  /\ UNCHANGED <<free, content, kstack, sys>>

\* exit, also of a process that faults because its instructions are gone;
\* init exits only for that reason.
exit(p) ==
  /\ state[p] = "user" /\ pc[p] = "idle" /\ ~panic
  /\ \/ /\ p # Initproc
        /\ state' = [state EXCEPT ![p] = "zombie"]
        /\ UNCHANGED panic
     \/ /\ p = Initproc /\ as[p].pte[0] = NONE
        /\ panic' = TRUE                           \* "init exiting"
        /\ UNCHANGED state
  /\ UNCHANGED <<free, content, kstack, as, sz, pc, loc, lost, missed, view>>

\* The scheduler frees what a zombie used; the parent frees the slot.
freeproc(p) ==
  /\ state[p] = "zombie" /\ ~panic
  /\ kfree(Pages(as[p]) \cup {kstack[p]})
  /\ state' = [state EXCEPT ![p] = "unused"]
  /\ kstack' = [kstack EXCEPT ![p] = NONE]
  /\ as' = [as EXCEPT ![p] = NoAS] /\ sz' = [sz EXCEPT ![p] = 0]
  /\ view' = [view EXCEPT ![p] = NoView]
  /\ UNCHANGED <<pc, loc, sys>>

\* A user instruction stores to page v.
Store(p, v) ==
  /\ Alive(p) /\ v \in as[p].user /\ v > 0
  /\ content' = [content EXCEPT ![as[p].pte[v]] = "data"]
  /\ view' = [view EXCEPT ![p][v] = "data"]
  /\ UNCHANGED <<free, state, kstack, as, sz, pc, loc, sys>>

Halted == panic /\ UNCHANGED vars

Next ==
  \/ \E p \in Proc :
       \/ AllocPage(p) \/ AllocFails(p) \/ AllocDone(p)
       \/ \E n \in Sbrk : sys_sbrk(p, n) \/ Shrink(p, n)
       \/ SbrkGrown(p) \/ SbrkBad(p)
       \/ \E size \in ProgSize : exec(p, size)
       \/ ExecLoad(p) \/ loaduvm(p) \/ ExecCommit(p) \/ ExecFails(p) \/ ExecBad(p)
       \/ \E c \in Proc : fork(p, c)
       \/ ForkSetup(p) \/ copyuvm(p) \/ Forked(p)
       \/ exit(p) \/ freeproc(p)
       \/ \E v \in UserPage : Store(p, v)
  \/ Halted

Spec == Init /\ [][Next]_vars
----------------------------------------------------------------------------
(* Properties *)

\* Who has a page: the free list, a kernel stack, a page table, one being
\* built, or nobody.  A process in sbrk extends its own page table.
Table(p) == IF loc[p].then = "sbrk" THEN loc[p].as ELSE as[p]
Built(p) == IF loc[p].then = "sbrk" THEN NoAS ELSE loc[p].as
Owners == {<<"stack", p>> : p \in Proc} \cup {<<"table", p>> : p \in Proc} \cup {<<"built", p>> : p \in Proc}
Has(o) == CASE o[1] = "stack" -> {kstack[o[2]]} \ {NONE}
            [] o[1] = "table" -> Pages(Table(o[2]))
            [] o[1] = "built" -> Pages(Built(o[2]))

\* Every page of memory is in one place: free, or in use for one thing, by one
\* process, whatever fails.  Only the error paths named above (mappages in
\* allocuvm and copyuvm, setupkvm) lose pages.
PageOwned ==
  /\ Page = free \cup lost \cup UNION {Has(o) : o \in Owners}
  /\ Cardinality(Page) = Cardinality(free) + Cardinality(lost)
       + MapThenSumSet(LAMBDA o : Cardinality(Has(o)), Owners)
  /\ \A p \in Proc : \A a \in {Table(p), Built(p)} :
       \A v, w \in UserPage : v # w /\ a.pte[v] # NONE => a.pte[v] # a.pte[w]

\* A process finds in its memory what it stored there, what its parent had
\* there at fork, what exec loaded, or zeros, never another's data; and its
\* page table maps the pages below its size and no others.
AddressSpace ==
  \A p \in Proc : state[p] = "user" /\ pc[p] = "idle" =>
    \A v \in UserPage :
      /\ as[p].pte[v] # NONE /\ view[p][v] # "none" => view[p][v] = content[as[p].pte[v]]
      /\ ~missed => (as[p].pte[v] # NONE <=> view[p][v] # "none")
      /\ ~missed /\ as[p].pte[0] # NONE => (as[p].pte[v] # NONE <=> v * PGSIZE < sz[p])

\* The panics of vm.c ("remap", "copyuvm: page not present", "loaduvm: address
\* should exist", "clearpteu") are not reached, also out of memory, as long as
\* allocuvm has not ignored a failure of mappages.
NoPanic == panic => missed
=============================================================================
