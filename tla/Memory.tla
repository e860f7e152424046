------------------------------- MODULE Memory -------------------------------
(***************************************************************************)
(* User memory: kalloc.c's pages, the page tables of vm.c, and the calls   *)
(* that build, copy, grow and drop an address space: kfork(), sys_sbrk()   *)
(* (eager and lazy), page faults and copyin()/copyout(), sys_exec() with   *)
(* kexec(), and freeproc().  A step takes what one turn of a loop takes    *)
(* from kalloc(), so that processes compete for the last pages.            *)
(*                                                                         *)
(* Physical pages are counted, and a user page is its content.  A page     *)
(* table is the page-table pages it has (the root, those on the way to the *)
(* trampoline, those on the way to user memory) and its user pages.        *)
(***************************************************************************)
EXTENDS Integers, FiniteSets, FiniteSetsExt

CONSTANTS
  NPROC,
  PageCounts,   \* bound: sizes of the physical memory
  PGSIZE,
  NPages,       \* bound: pages between 0 and TRAPFRAME
  MaxArg,       \* bound: pages of arguments
  MaxGrow       \* bound: bytes of one sbrk()

Slots == 1..NPROC
VPages == 0..(NPages - 1)
Limit == NPages * PGSIZE
TextPages == 1
StackPages == 2      \* USERSTACK + 1, the first one is the guard
None == "none"
Content == {"zero", "data"}

VARIABLES
  total, nfree,   \* pages of memory, and of kmem.freelist
  pc,             \* of each slot of proc[]
  tf, pt, sz,     \* p->trapframe (0 or 1 page), p->pagetable, p->sz
  npt, nsz,       \* kexec(): the new page table and its size
  i, to,          \* the page a loop is at; uvmalloc()'s newsz
  child,          \* kfork(): the new process
  argv,           \* sys_exec(): pages of arguments
  mem,            \* history: what each process has in its memory
  panic

xvars == <<npt, nsz, argv>>
vars == <<total, nfree, pc, tf, pt, sz, xvars, i, to, child, mem, panic>>

Table == [root : 0..1, high : 0..2, low : 0..2,
          map : [VPages -> Content \cup {None}], guard : SUBSET VPages]

TypeOK ==
  /\ total \in PageCounts /\ nfree \in 0..total
  /\ pc \in [Slots -> {"unused", "new", "user", "zombie", "table", "copy", "grow", "args",
                       "x_table", "x_text", "x_load", "x_stack", "x_push", "x_ret"}]
  /\ tf \in [Slots -> 0..1]
  /\ sz \in [Slots -> 0..Limit] /\ nsz \in [Slots -> 0..Limit] /\ to \in [Slots -> 0..Limit]
  /\ i \in [Slots -> 0..NPages] /\ child \in [Slots -> 0..NPROC]
  /\ argv \in [Slots -> 0..MaxArg]
  /\ \A p \in Slots : pt[p] \in Table /\ npt[p] \in Table
  /\ mem \in [Slots -> [VPages -> Content \cup {None}]]
  /\ panic \in {"no", "freewalk: leaf", "mappages: remap"}

Nothing == [v \in VPages |-> None]
NoTable == [root |-> 0, high |-> 0, low |-> 0, map |-> Nothing, guard |-> {}]

(* proc_pagetable()'s result.                                               *)
NewTable == [NoTable EXCEPT !.root = 1, !.high = 2]

(* PGROUNDUP(), in pages.                                                   *)
Up(s) == (s + PGSIZE - 1) \div PGSIZE

Mapped(t) == {v \in VPages : t.map[v] # None}
PagesOf(t) == t.root + t.high + t.low + Cardinality(Mapped(t))

(* The image kexec() makes: text, the guard page, the stack.                *)
Image(v) ==
  IF v < TextPages \/ v = TextPages + StackPages - 1 THEN "data"
  ELSE IF v = TextPages THEN "zero" ELSE None

Init ==
  /\ total \in PageCounts
  /\ pc = [p \in Slots |-> IF p = 1 THEN "user" ELSE "unused"]
  /\ tf = [p \in Slots |-> IF p = 1 THEN 1 ELSE 0]
  /\ pt = [p \in Slots |->
             IF p = 1 THEN [NewTable EXCEPT !.low = 2, !.map = [v \in VPages |-> Image(v)],
                                            !.guard = {TextPages}]
             ELSE NoTable]
  /\ nfree = total - 1 - PagesOf(pt[1])
  /\ sz = [p \in Slots |-> IF p = 1 THEN (TextPages + StackPages) * PGSIZE ELSE 0]
  /\ npt = [p \in Slots |-> NoTable] /\ nsz = [p \in Slots |-> 0]
  /\ i = [p \in Slots |-> 0] /\ to = [p \in Slots |-> 0] /\ child = [p \in Slots |-> 0]
  /\ argv = [p \in Slots |-> 0]
  /\ mem = [p \in Slots |-> IF p = 1 THEN [v \in VPages |-> Image(v)] ELSE Nothing]
  /\ panic = "no"

-----------------------------------------------------------------------------
(* walk() with alloc: page-table pages on the way, when f pages are free.   *)
walk(low, f) == IF low + f < 2 THEN low + f ELSE 2

(* kfree(mem) when mappages() fails.                                        *)
GivenBack == 1

(* kalloc() and mappages() of one user page with content c.                 *)
mappages(t, f, v, c) ==
  LET low == walk(t.low, f - 1) IN
  IF f = 0 THEN [ok |-> "no", t |-> t, f |-> 0]
  ELSE IF low < 2
       THEN [ok |-> "no", t |-> [t EXCEPT !.low = low], f |-> f - 1 - (low - t.low) + GivenBack]
       ELSE [ok |-> IF t.map[v] = None THEN "yes" ELSE "remap",
             t |-> [t EXCEPT !.low = 2, !.map[v] = c], f |-> f - 1 - (2 - t.low)]

(* uvmunmap() with do_free.                                                 *)
uvmunmap(t, S) == [t EXCEPT !.map = [v \in VPages |-> IF v \in S THEN None ELSE t.map[v]],
                            !.guard = @ \ S]
Count(t, S) == Cardinality(Mapped(t) \cap S)

(* proc_freepagetable(t, s) gives back everything, unless freewalk() finds  *)
(* a page that s does not cover.                                            *)
Leaf(t, s) == \E v \in Mapped(t) : v >= Up(s)

Goto(p, l) == pc' = [pc EXCEPT ![p] = l]

-----------------------------------------------------------------------------
(* kfork(): allocproc() takes the first free slot and a trapframe page.     *)
allocproc(p, np) ==
  /\ pc[p] = "user" /\ pc[np] = "unused" /\ \A q \in Slots : pc[q] = "unused" => np <= q
  /\ nfree > 0
  /\ nfree' = nfree - 1
  /\ tf' = [tf EXCEPT ![np] = 1]
  /\ pc' = [pc EXCEPT ![p] = "table", ![np] = "new"]
  /\ child' = [child EXCEPT ![p] = np]
  /\ UNCHANGED <<total, pt, sz, xvars, i, to, mem, panic>>

(* freeproc(np) in a kfork() that fails, t being np's page table with f     *)
(* pages free; np->sz is still 0.                                           *)
ForkFails(p, np, t, f) ==
  /\ nfree' = f + tf[np] + PagesOf(t)
  /\ panic' = IF Leaf(t, sz[np]) THEN "freewalk: leaf" ELSE panic
  /\ tf' = [tf EXCEPT ![np] = 0] /\ pt' = [pt EXCEPT ![np] = NoTable]
  /\ pc' = [pc EXCEPT ![p] = "user", ![np] = "unused"]
  /\ child' = [child EXCEPT ![p] = 0]

(* allocproc(): proc_pagetable() takes the root and the two page-table      *)
(* pages above the trampoline, or gives back what it got.                   *)
proc_pagetable(p) ==
  /\ pc[p] = "table"
  /\ IF nfree >= PagesOf(NewTable)
       THEN /\ pt' = [pt EXCEPT ![child[p]] = NewTable]
            /\ nfree' = nfree - PagesOf(NewTable)
            /\ Goto(p, "copy")
            /\ UNCHANGED <<tf, child, panic>>
       ELSE ForkFails(p, child[p], NoTable, nfree)
  /\ i' = [i EXCEPT ![p] = 0]
  /\ UNCHANGED <<total, sz, xvars, to, mem>>

(* uvmcopy(), err: the pages copied so far.                                 *)
Copied(k) == 0..(k - 1)

(* uvmcopy(): one turn.  A page not yet allocated is left so.               *)
uvmcopy(p) ==
  /\ pc[p] = "copy" /\ i[p] * PGSIZE < sz[p]
  /\ LET np == child[p]
         v == i[p]
         r == mappages(pt[np], nfree, v, pt[p].map[v])
     IN  IF pt[p].map[v] = None
           THEN /\ i' = [i EXCEPT ![p] = @ + 1]
                /\ UNCHANGED <<nfree, tf, pt, pc, child, panic>>
         ELSE IF r.ok # "no"
           THEN /\ pt' = [pt EXCEPT ![np] = [r.t EXCEPT !.guard = @ \cup (pt[p].guard \cap {v})]]
                /\ nfree' = r.f
                /\ i' = [i EXCEPT ![p] = @ + 1]
                /\ panic' = IF r.ok = "remap" THEN "mappages: remap" ELSE panic
                /\ UNCHANGED <<tf, pc, child>>
         ELSE /\ ForkFails(p, np, uvmunmap(r.t, Copied(v)), r.f + Count(r.t, Copied(v)))
              /\ i' = [i EXCEPT ![p] = 0]
  /\ UNCHANGED <<total, sz, xvars, to, mem>>

(* kfork() succeeds.                                                        *)
ForkDone(p) ==
  /\ pc[p] = "copy" /\ i[p] * PGSIZE >= sz[p]
  /\ sz' = [sz EXCEPT ![child[p]] = sz[p]]
  /\ mem' = [mem EXCEPT ![child[p]] = mem[p]]
  /\ pc' = [pc EXCEPT ![p] = "user", ![child[p]] = "user"]
  /\ child' = [child EXCEPT ![p] = 0] /\ i' = [i EXCEPT ![p] = 0]
  /\ UNCHANGED <<total, nfree, tf, pt, xvars, to, panic>>

-----------------------------------------------------------------------------
(* The pages between two sizes, read as zero.                               *)
Zeroed(m, s, t) == [v \in VPages |-> IF Up(s) <= v /\ v < Up(t) THEN "zero" ELSE m[v]]

(* sys_sbrk(), lazy.                                                        *)
sbrkLazy(p, n) ==
  /\ pc[p] = "user" /\ sz[p] + n <= Limit
  /\ sz' = [sz EXCEPT ![p] = @ + n]
  /\ mem' = [mem EXCEPT ![p] = Zeroed(@, sz[p], sz[p] + n)]
  /\ UNCHANGED <<total, nfree, pc, tf, pt, xvars, i, to, child, panic>>

(* sys_sbrk(), eager: growproc() calls uvmalloc().                          *)
growproc(p, n) ==
  /\ pc[p] = "user" /\ sz[p] + n <= Limit
  /\ i' = [i EXCEPT ![p] = Up(sz[p])] /\ to' = [to EXCEPT ![p] = sz[p] + n]
  /\ Goto(p, "grow")
  /\ UNCHANGED <<total, nfree, tf, pt, sz, xvars, child, mem, panic>>

(* The pages uvmalloc() has added so far, which uvmdealloc() takes away.    *)
Added(p, s) == Up(s)..(i[p] - 1)

(* uvmalloc() for growproc(): one turn; it ends well or has to undo.        *)
Grow(p) ==
  /\ pc[p] = "grow"
  /\ LET r == mappages(pt[p], nfree, i[p], "zero") IN
     IF i[p] * PGSIZE >= to[p]
       THEN /\ sz' = [sz EXCEPT ![p] = to[p]]
            /\ mem' = [mem EXCEPT ![p] = Zeroed(@, sz[p], to[p])]
            /\ i' = [i EXCEPT ![p] = 0] /\ to' = [to EXCEPT ![p] = 0]
            /\ Goto(p, "user")
            /\ UNCHANGED <<nfree, pt, panic>>
     ELSE IF r.ok # "no"
       THEN /\ pt' = [pt EXCEPT ![p] = r.t] /\ nfree' = r.f
            /\ panic' = IF r.ok = "remap" THEN "mappages: remap" ELSE panic
            /\ i' = [i EXCEPT ![p] = @ + 1]
            /\ UNCHANGED <<pc, sz, to, mem>>
     ELSE /\ pt' = [pt EXCEPT ![p] = uvmunmap(r.t, Added(p, sz[p]))]
          /\ nfree' = r.f + Count(r.t, Added(p, sz[p]))
          /\ i' = [i EXCEPT ![p] = 0] /\ to' = [to EXCEPT ![p] = 0]
          /\ Goto(p, "user")
          /\ UNCHANGED <<sz, mem, panic>>
  /\ UNCHANGED <<total, tf, xvars, child>>

(* Wrong: the page the new size ends in goes too.                           *)
DroppedDown(s, t) == (t \div PGSIZE)..(Up(s) - 1)

(* uvmdealloc(): the pages dropped when size s shrinks to t.                *)
Dropped(s, t) == Up(t)..(Up(s) - 1)

(* sys_sbrk(), negative: growproc() calls uvmdealloc().                     *)
Shrink(p, n) ==
  /\ pc[p] = "user" /\ n <= sz[p]
  /\ LET S == Dropped(sz[p], sz[p] - n) IN
       /\ pt' = [pt EXCEPT ![p] = uvmunmap(@, S)]
       /\ nfree' = nfree + Count(pt[p], S)
  /\ mem' = [mem EXCEPT ![p] = [v \in VPages |-> IF v >= Up(sz[p] - n) THEN None ELSE @[v]]]
  /\ sz' = [sz EXCEPT ![p] = @ - n]
  /\ UNCHANGED <<total, pc, tf, xvars, i, to, child, panic>>

-----------------------------------------------------------------------------
Page(a) == a \div PGSIZE

(* A store by the program, or by copyout().                                 *)
Store(p, a) ==
  /\ pc[p] = "user" /\ pt[p].map[Page(a)] # None /\ Page(a) \notin pt[p].guard
  /\ pt' = [pt EXCEPT ![p].map[Page(a)] = "data"]
  /\ mem' = [mem EXCEPT ![p][Page(a)] = "data"]
  /\ UNCHANGED <<total, nfree, pc, tf, sz, xvars, i, to, child, panic>>

(* vmfault() at address a gives its page.                                   *)
Backed(p, a) ==
  /\ a < sz[p] /\ pt[p].map[Page(a)] = None
  /\ mappages(pt[p], nfree, Page(a), "zero").ok = "yes"

(* vmfault() succeeds, for a page fault in usertrap() or in copyin() and    *)
(* copyout(); the access is then made.                                      *)
vmfault(p, a) ==
  /\ pc[p] = "user" /\ Backed(p, a)
  /\ LET r == mappages(pt[p], nfree, Page(a), "zero") IN
       pt' = [pt EXCEPT ![p] = r.t] /\ nfree' = r.f
  /\ UNCHANGED <<total, pc, tf, sz, xvars, i, to, child, mem, panic>>

(* vmfault() fails: address out of range, the guard page, or no memory      *)
(* (page-table pages that walk() got are kept).  usertrap() kills the       *)
(* process; copyin() and copyout() return -1 to it.                         *)
FaultFails(p, a, l) ==
  /\ pc[p] = "user" /\ ~Backed(p, a)
  /\ pt[p].map[Page(a)] = None \/ Page(a) \in pt[p].guard
  /\ IF a < sz[p] /\ pt[p].map[Page(a)] = None
       THEN LET r == mappages(pt[p], nfree, Page(a), "zero") IN
              pt' = [pt EXCEPT ![p] = r.t] /\ nfree' = r.f
       ELSE UNCHANGED <<pt, nfree>>
  /\ Goto(p, l)
  /\ UNCHANGED <<total, tf, sz, xvars, i, to, child, mem, panic>>

Fault(p, a) ==
  \/ vmfault(p, a)
  \/ FaultFails(p, a, "user")
  \/ p # 1 /\ FaultFails(p, a, "zombie")

-----------------------------------------------------------------------------
(* sys_exec(): a page for each argument; without memory they go back.       *)
sys_exec(p) ==
  /\ pc[p] \in {"user", "args"} /\ argv[p] < MaxArg
  /\ IF nfree > 0
       THEN /\ argv' = [argv EXCEPT ![p] = @ + 1] /\ nfree' = nfree - 1
            /\ Goto(p, "args")
       ELSE /\ argv' = [argv EXCEPT ![p] = 0] /\ nfree' = nfree + argv[p]
            /\ Goto(p, "user")
  /\ UNCHANGED <<total, tf, pt, sz, npt, nsz, i, to, child, mem, panic>>

(* sys_exec() calls kexec(), which reads the ELF header.                    *)
kexec(p) ==
  /\ pc[p] = "args"
  /\ Goto(p, "x_table")
  /\ UNCHANGED <<total, nfree, tf, pt, sz, xvars, i, to, child, mem, panic>>

(* kexec(), bad: with page table t and f free pages.                        *)
bad(p, t, f) ==
  /\ nfree' = f + PagesOf(t)
  /\ panic' = IF Leaf(t, nsz[p]) THEN "freewalk: leaf" ELSE panic
  /\ npt' = [npt EXCEPT ![p] = NoTable] /\ nsz' = [nsz EXCEPT ![p] = 0]
  /\ i' = [i EXCEPT ![p] = 0]
  /\ Goto(p, "x_ret")

(* kexec() fails for a reason other than memory: no such file, a bad ELF    *)
(* header or segment, arguments too long.                                   *)
ExecFails(p) ==
  /\ pc[p] \in {"x_table", "x_load", "x_push"}
  /\ bad(p, npt[p], nfree)
  /\ UNCHANGED <<total, tf, pt, sz, argv, to, child, mem>>

(* kexec(): proc_pagetable().                                               *)
ExecTable(p) ==
  /\ pc[p] = "x_table"
  /\ IF nfree >= PagesOf(NewTable)
       THEN /\ npt' = [npt EXCEPT ![p] = NewTable] /\ nfree' = nfree - PagesOf(NewTable)
            /\ Goto(p, "x_text")
            /\ UNCHANGED <<nsz, i, panic>>
       ELSE bad(p, npt[p], nfree)
  /\ UNCHANGED <<total, tf, pt, sz, argv, to, child, mem>>

(* kexec(): uvmalloc() up to page n, then go to l with the pages in G made  *)
(* inaccessible (uvmclear()).                                               *)
ExecAlloc(p, n, l, G) ==
  LET r == mappages(npt[p], nfree, i[p], "zero") IN
  /\ IF i[p] = n
       THEN /\ nsz' = [nsz EXCEPT ![p] = n * PGSIZE]
            /\ npt' = [npt EXCEPT ![p].guard = G]
            /\ Goto(p, l)
            /\ UNCHANGED <<nfree, i, panic>>
     ELSE IF r.ok # "no"
       THEN /\ npt' = [npt EXCEPT ![p] = r.t] /\ nfree' = r.f
            /\ panic' = IF r.ok = "remap" THEN "mappages: remap" ELSE panic
            /\ i' = [i EXCEPT ![p] = @ + 1]
            /\ UNCHANGED <<pc, nsz>>
     ELSE bad(p, uvmunmap(r.t, Added(p, nsz[p])), r.f + Count(r.t, Added(p, nsz[p])))
  /\ UNCHANGED <<total, tf, pt, sz, argv, to, child, mem>>

ExecText(p) == pc[p] = "x_text" /\ ExecAlloc(p, TextPages, "x_load", {})

(* kexec(): loadseg().                                                      *)
loadseg(p) ==
  /\ pc[p] = "x_load"
  /\ npt' = [npt EXCEPT ![p].map = [v \in VPages |-> IF @[v] = None THEN None ELSE "data"]]
  /\ Goto(p, "x_stack")
  /\ UNCHANGED <<total, nfree, tf, pt, sz, nsz, argv, i, to, child, mem, panic>>

ExecStack(p) ==
  pc[p] = "x_stack" /\ ExecAlloc(p, TextPages + StackPages, "x_push", {TextPages})

(* kexec(): the arguments are copied to the stack, then the new image takes *)
(* the place of the old one.                                                *)
ExecCommit(p) ==
  /\ pc[p] = "x_push"
  /\ pt' = [pt EXCEPT ![p] = [npt[p] EXCEPT !.map[Up(nsz[p]) - 1] = "data"]]
  /\ sz' = [sz EXCEPT ![p] = nsz[p]]
  /\ nfree' = nfree + PagesOf(pt[p])
  /\ panic' = IF Leaf(pt[p], sz[p]) THEN "freewalk: leaf" ELSE panic
  /\ mem' = [mem EXCEPT ![p] = [v \in VPages |-> Image(v)]]
  /\ npt' = [npt EXCEPT ![p] = NoTable] /\ nsz' = [nsz EXCEPT ![p] = 0]
  /\ i' = [i EXCEPT ![p] = 0]
  /\ Goto(p, "x_ret")
  /\ UNCHANGED <<total, tf, argv, to, child>>

(* sys_exec(): the argument pages are freed.                                *)
ExecReturn(p) ==
  /\ pc[p] = "x_ret"
  /\ nfree' = nfree + argv[p] /\ argv' = [argv EXCEPT ![p] = 0]
  /\ Goto(p, "user")
  /\ UNCHANGED <<total, tf, pt, sz, npt, nsz, i, to, child, mem, panic>>

-----------------------------------------------------------------------------
(* kexit().                                                                 *)
kexit(p) ==
  /\ pc[p] = "user" /\ p # 1
  /\ Goto(p, "zombie")
  /\ UNCHANGED <<total, nfree, tf, pt, sz, xvars, i, to, child, mem, panic>>

(* freeproc(), from kwait().                                                *)
freeproc(p) ==
  /\ pc[p] = "zombie"
  /\ nfree' = nfree + tf[p] + PagesOf(pt[p])
  /\ panic' = IF Leaf(pt[p], sz[p]) THEN "freewalk: leaf" ELSE panic
  /\ tf' = [tf EXCEPT ![p] = 0] /\ pt' = [pt EXCEPT ![p] = NoTable]
  /\ sz' = [sz EXCEPT ![p] = 0] /\ mem' = [mem EXCEPT ![p] = Nothing]
  /\ Goto(p, "unused")
  /\ UNCHANGED <<total, xvars, i, to, child>>

Fork(p) == (\E np \in Slots : allocproc(p, np)) \/ proc_pagetable(p) \/ uvmcopy(p) \/ ForkDone(p)
Sbrk(p) == Grow(p) \/ \E n \in 1..MaxGrow : sbrkLazy(p, n) \/ growproc(p, n) \/ Shrink(p, n)
Exec(p) ==
  \/ sys_exec(p) \/ kexec(p) \/ ExecFails(p) \/ ExecTable(p) \/ ExecText(p) \/ loadseg(p)
  \/ ExecStack(p) \/ ExecCommit(p) \/ ExecReturn(p)

Next ==
  /\ panic = "no"
  /\ \E p \in Slots :
       \/ Fork(p) \/ Sbrk(p) \/ Exec(p) \/ kexit(p) \/ freeproc(p)
       \/ \E a \in 0..(Limit - 1) : Store(p, a) \/ Fault(p, a)

Spec == Init /\ [][Next]_vars

-----------------------------------------------------------------------------
Owned(p) == tf[p] + PagesOf(pt[p]) + PagesOf(npt[p]) + argv[p]

(* No page is leaked or freed twice, whichever allocation of fork, exec,    *)
(* sbrk or a page fault fails: the pages not free belong to processes.      *)
NothingLeaks ==
  nfree + MapThenSumSet(Owned, {p \in Slots : pc[p] # "unused"}) = total

(* Page tables are torn down without "freewalk: leaf": p->sz covers every   *)
(* page that is mapped when a table is freed; and no page is mapped twice.  *)
NeverPanics == panic = "no"

(* A process finds in its memory what it put there, zero where it has put   *)
(* nothing, and its own copy after fork(): a lazily allocated page, a page  *)
(* cut off by sbrk() or a failed call makes no difference.                  *)
OwnMemory ==
  \A p \in Slots :
    pc[p] \notin {"unused", "new"} =>
      \A v \in 0..(Up(sz[p]) - 1) :
        mem[p][v] = IF pt[p].map[v] = None THEN "zero" ELSE pt[p].map[v]
=============================================================================
