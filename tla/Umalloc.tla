------------------------------- MODULE Umalloc -------------------------------
(***************************************************************************)
(* The user-space allocator (user/umalloc.c): a circular list of free      *)
(* blocks in address order, the static header base among them, searched    *)
(* from freep on.  Memory is counted in units of sizeof(Header); a block   *)
(* is named by the address of its header.  The program may move the break  *)
(* itself between two calls, so that the heap has gaps.                    *)
(***************************************************************************)
EXTENDS Integers, FiniteSets, FiniteSetsExt

CONSTANTS
  MaxHeap,        \* sbrk fails beyond this address
  NALLOC,         \* least number of units morecore asks for
  Requests        \* sizes asked for, in units, the header included

VARIABLES
  ptr, size,      \* the fields of the header at each address
  freep,          \* 0 is a null pointer
  brk,            \* the program's break
  live,           \* blocks handed out and not freed, with the units asked for
  core            \* units morecore got from sbrk

vars == <<ptr, size, freep, brk, live, core>>

NULL == 0
base == 1         \* in the data segment, below the heap
HeapStart == 3

Address == base .. MaxHeap

Init ==
  /\ ptr = [a \in Address |-> NULL] /\ size = [a \in Address |-> 0]
  /\ freep = NULL /\ brk = HeapStart
  /\ live = [a \in {} |-> 0] /\ core = {}

\* The allocator's memory as one value, on which free and malloc compute.
Heap == [ptr |-> ptr, size |-> size, freep |-> freep, brk |-> brk, core |-> core]

\* The free block after which bp belongs, searched from p on.
RECURSIVE Place(_, _, _)
Place(h, bp, p) ==
  LET next == h.ptr[p]
  IN IF \/ bp > p /\ bp < next
        \/ p >= next /\ (bp > p \/ bp < next)
     THEN p ELSE Place(h, bp, next)

\* Wrong: the block is not joined with the one before it.
freeHalf(h, bp) ==
  LET p == Place(h, bp, h.freep)
      next == h.ptr[p]
      up == bp + h.size[bp] = next
      bsize == IF up THEN h.size[bp] + h.size[next] ELSE h.size[bp]
      bptr == IF up THEN h.ptr[next] ELSE next
  IN [h EXCEPT !.ptr = [@ EXCEPT ![bp] = bptr, ![p] = bp],
               !.size = [@ EXCEPT ![bp] = bsize], !.freep = p]

\* free(): put the block in its place and join it with its neighbours.
free(h, bp) ==
  LET p == Place(h, bp, h.freep)
      next == h.ptr[p]
      up == bp + h.size[bp] = next
      down == p + h.size[p] = bp
      bsize == IF up THEN h.size[bp] + h.size[next] ELSE h.size[bp]
      bptr == IF up THEN h.ptr[next] ELSE next
      within == (IF up THEN {next} ELSE {}) \cup (IF down THEN {bp} ELSE {})
      joined == [h.ptr EXCEPT ![bp] = bptr, ![p] = IF down THEN bptr ELSE bp]
      sized == [h.size EXCEPT ![bp] = bsize, ![p] = IF down THEN @ + bsize ELSE @]
  IN [h EXCEPT !.ptr = [a \in Address |-> IF a \in within THEN NULL ELSE joined[a]],
               !.size = [a \in Address |-> IF a \in within THEN 0 ELSE sized[a]],
               !.freep = p]

Larger(nu) == IF nu < NALLOC THEN NALLOC ELSE nu

\* morecore(): a new block from sbrk, freed into the list.
Refused(h, nu) == h.brk + Larger(nu) > MaxHeap + 1
morecore(h, nu) ==
  free([h EXCEPT !.size[h.brk] = Larger(nu), !.brk = @ + Larger(nu),
                 !.core = @ \cup h.brk .. h.brk + Larger(nu) - 1], h.brk)

\* The tail of a larger block is handed out, or the block as a whole.
Take(h, prevp, nunits) ==
  LET p == h.ptr[prevp]
      rest == h.size[p] - nunits
  IN IF rest = 0
     THEN [block |-> p, heap |-> [h EXCEPT !.ptr[prevp] = h.ptr[p], !.ptr[p] = NULL,
                                           !.freep = prevp]]
     ELSE [block |-> p + rest, heap |-> [h EXCEPT !.size[p] = rest,
                                                  !.size[p + rest] = nunits, !.freep = prevp]]

\* The loop of malloc.
RECURSIVE Search(_, _, _)
Search(h, prevp, nunits) ==
  LET p == h.ptr[prevp]
      more == morecore(h, nunits)
  IN IF h.size[p] >= nunits THEN Take(h, prevp, nunits)
     ELSE IF p # h.freep THEN Search(h, p, nunits)
     ELSE IF Refused(h, nunits) THEN [block |-> NULL, heap |-> h]
     ELSE Search(more, more.freep, nunits)

Started == IF freep # NULL THEN Heap ELSE [Heap EXCEPT !.ptr[base] = base, !.freep = base]

Becomes(h) ==
  ptr' = h.ptr /\ size' = h.size /\ freep' = h.freep /\ brk' = h.brk /\ core' = h.core

malloc(nunits) ==
  LET r == Search(Started, Started.freep, nunits)
  IN /\ Becomes(r.heap)
     /\ live' = IF r.block = NULL THEN live
                ELSE [b \in DOMAIN live \cup {r.block} |->
                        IF b = r.block THEN nunits ELSE live[b]]

Free(b) ==
  /\ Becomes(free(Heap, b))
  /\ live' = [c \in DOMAIN live \ {b} |-> live[c]]

\* The program calls sbrk itself.
MoveBreak ==
  /\ brk <= MaxHeap /\ brk' = brk + 1
  /\ UNCHANGED <<ptr, size, freep, live, core>>

Next ==
  \/ \E n \in Requests : malloc(n)
  \/ \E b \in DOMAIN live : Free(b)
  \/ MoveBreak

----------------------------------------------------------------------------
\* Properties

Units(b) == b .. b + size[b] - 1

\* The blocks on the circular list.
RECURSIVE ListFrom(_, _)
ListFrom(p, seen) == IF p \in seen THEN seen ELSE ListFrom(ptr[p], seen \cup {p})

(* Whatever order blocks are allocated and freed in, the blocks in use and  *)
(* the free ones are disjoint and make up all the memory got from sbrk: no  *)
(* unit is handed out twice and none is lost; the list is circular, in      *)
(* address order, with no two free blocks side by side; and a block in use  *)
(* still has the size it was given, which free() will rely on.              *)
HeapSound ==
  freep # NULL =>
    LET list == ListFrom(base, {})
        blocks == (list \ {base}) \cup DOMAIN live
    IN /\ freep \in list /\ list \cap DOMAIN live = {}
       /\ \A p \in list : ptr[p] = Min({a \in list : a > p} \cup
                                       (IF p = Max(list) THEN {base} ELSE {}))
       /\ \A p \in list \ {base} : size[p] > 0 /\ p + size[p] \notin list
       /\ \A b \in DOMAIN live : size[b] = live[b]
       /\ \A b, c \in blocks : b # c => Units(b) \cap Units(c) = {}
       /\ UNION {Units(b) : b \in blocks} = core
==============================================================================
