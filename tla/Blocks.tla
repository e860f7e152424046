------------------------------- MODULE Blocks -------------------------------
(***************************************************************************)
(* File contents and the blocks that hold them: balloc, bfree, bmap,       *)
(* itrunc, readi and writei of xv6/kernel/fs.c, and fileread and filewrite *)
(* of file.c.                                                              *)
(*                                                                         *)
(* A block holds BSIZE cells; a cell is a byte of a file or, in an         *)
(* indirect block, a block number.  A call is cut at ilock and, while it   *)
(* has the inode, after every block: the bitmap is all that the writers of *)
(* two files share.  The log (module Log) makes a call atomic in a crash.  *)
(***************************************************************************)
EXTENDS Integers, Sequences, FiniteSets, FiniteSetsExt

CONSTANTS
  Procs, NoProc,
  Inums,
  NBLOCKS, BSIZE, NDIRECT,
  BPB,            \* bits in a block of the bitmap
  MAXOPBLOCKS,    \* the blocks begin_op() reserves in the log
  Lengths,        \* the n of a read or write
  MaxCalls        \* writes and truncations of a behaviour

NINDIRECT == BSIZE
MAXFILE == NDIRECT + NINDIRECT
Block == 1..NBLOCKS
Cells == 0..(BSIZE - 1)
Zero == [c \in Cells |-> 0]

VARIABLES
  used,           \* the bitmap
  data,           \* the blocks
  addrs, size,    \* ip->addrs, ip->size
  lock,           \* ip->lock
  off,            \* f->off of the one open file of each inode
  call,           \* what each process is doing
  bytes,          \* what the writes so far have made of each file
  calls, panicked

vars == <<used, data, addrs, size, lock, off, call, bytes, calls, panicked>>

(* n bytes to write, i of them done; in writei: from is where it began, n1  *)
(* the length, tot the bytes done, extra those of a copyin that failed, log *)
(* the blocks given to log_write; in itrunc: k entries freed.               *)
Idle == [pc |-> "idle", ip |-> 0, n |-> 0, i |-> 0, val |-> 0, from |-> 0, n1 |-> 0,
         tot |-> 0, extra |-> 0, k |-> 0, log |-> {}]

Init ==
  /\ used = {} /\ data = [b \in Block |-> Zero]
  /\ addrs = [i \in Inums |-> [k \in 0..NDIRECT |-> 0]]
  /\ size = [i \in Inums |-> 0]
  /\ lock = [i \in Inums |-> NoProc]
  /\ off = [i \in Inums |-> 0]
  /\ call = [p \in Procs |-> Idle]
  /\ bytes = [i \in Inums |-> <<>>]
  /\ calls = 0 /\ panicked = FALSE

-----------------------------------------------------------------------------
(* The allocator and bmap, on records of what they change; addr is the      *)
(* block they return, 0 when there is none.                                 *)
Disk == [used |-> used, data |-> data, addrs |-> addrs, addr |-> 0, log |-> {}]

(* Wrong: the block is handed out with its old contents.                    *)
ballocNoZero(d) ==
  LET free == Block \ d.used IN
  IF free = {} THEN [d EXCEPT !.addr = 0]
  ELSE [d EXCEPT !.addr = Min(free), !.used = @ \cup {Min(free)},
                 !.log = @ \cup {<<"bitmap", Min(free) \div BPB>>}]

(* The first free block, zeroed.                                            *)
balloc(d) ==
  LET free == Block \ d.used
      b == Min(free) IN
  IF free = {} THEN [d EXCEPT !.addr = 0]
  ELSE [d EXCEPT !.addr = b, !.used = @ \cup {b}, !.data[b] = Zero,
                 !.log = @ \cup {<<"bitmap", b \div BPB>>, <<"block", b>>}]

(* ip->addrs[k], allocated if need be.                                      *)
Direct(d, i, k) ==
  IF d.addrs[i][k] # 0 THEN [d EXCEPT !.addr = d.addrs[i][k]]
  ELSE LET e == balloc(d) IN
       IF e.addr = 0 THEN e ELSE [e EXCEPT !.addrs[i][k] = e.addr]

(* Entry k of the indirect block.                                           *)
Indirect(d, i, k) ==
  LET e == Direct(d, i, NDIRECT)
      f == balloc(e) IN
  IF e.addr = 0 THEN e
  ELSE IF e.data[e.addr][k] # 0 THEN [e EXCEPT !.addr = e.data[e.addr][k]]
  ELSE IF f.addr = 0 THEN f
  ELSE [f EXCEPT !.data[e.addr][k] = f.addr, !.log = @ \cup {<<"block", e.addr>>}]

bmap(d, i, bn) == IF bn < NDIRECT THEN Direct(d, i, bn) ELSE Indirect(d, i, bn - NDIRECT)

(* The block that holds byte x of an inode, and the byte; readi.            *)
BlockOf(i, x) ==
  LET bn == x \div BSIZE IN
  IF bn < NDIRECT THEN addrs[i][bn]
  ELSE IF addrs[i][NDIRECT] = 0 THEN 0 ELSE data[addrs[i][NDIRECT]][bn - NDIRECT]
readi(i, from, n) ==
  [x \in 1..n |-> LET b == BlockOf(i, from + x - 1) IN
                  IF b = 0 THEN -1 ELSE data[b][(from + x - 1) % BSIZE]]

-----------------------------------------------------------------------------
(* filewrite.                                                               *)
At(p, pc) == ~panicked /\ call[p].pc = pc

(* How much filewrite gives to one writei.                                  *)
MaxChunk == ((MAXOPBLOCKS - 1 - 1 - 2) \div 2) * BSIZE

WriteBegin(p) ==
  /\ At(p, "idle") /\ calls < MaxCalls
  /\ \E i \in Inums, n \in Lengths :
       call' = [call EXCEPT ![p] = [Idle EXCEPT !.pc = "chunk", !.ip = i, !.n = n,
                                                !.val = calls + 1]]
  /\ calls' = calls + 1
  /\ UNCHANGED <<used, data, addrs, size, lock, off, bytes, panicked>>

(* begin_op(), ilock() and the tests of writei; or the end of the loop.     *)
WriteChunk(p) ==
  LET c == call[p]
      n1 == Min({c.n - c.i, MaxChunk})
      o == off[c.ip] IN
  /\ At(p, "chunk")
  /\ \/ /\ c.i = c.n \/ (lock[c.ip] = NoProc /\ (o > size[c.ip] \/ o + n1 > MAXFILE * BSIZE))
        /\ call' = [call EXCEPT ![p] = Idle]
        /\ UNCHANGED lock
     \/ /\ c.i < c.n /\ lock[c.ip] = NoProc
        /\ o <= size[c.ip] /\ o + n1 <= MAXFILE * BSIZE
        /\ lock' = [lock EXCEPT ![c.ip] = p]
        /\ call' = [call EXCEPT ![p] = [c EXCEPT !.pc = "block", !.from = o, !.n1 = n1,
                                                 !.tot = 0, !.extra = 0,
                                                 !.log = {<<"inode", c.ip>>}]]
  /\ UNCHANGED <<used, data, addrs, size, off, bytes, calls, panicked>>

(* One round of the loop of writei.  m bytes fit in this block; copyin may  *)
(* fail after some of them.                                                 *)
WriteBlock(p) ==
  LET c == call[p]
      o == c.from + c.tot
      m == Min({c.n1 - c.tot, BSIZE - (o % BSIZE)})
      d == bmap(Disk, c.ip, o \div BSIZE) IN
  /\ At(p, "block") /\ c.tot < c.n1
  /\ used' = d.used /\ addrs' = d.addrs
  /\ IF d.addr = 0
     THEN /\ data' = d.data
          /\ call' = [call EXCEPT ![p].pc = "done", ![p].log = @ \cup d.log]
     ELSE \E copied \in 0..m :
            /\ data' = [d.data EXCEPT ![d.addr] =
                          [x \in Cells |-> IF x >= o % BSIZE /\ x < (o % BSIZE) + copied
                                           THEN c.val ELSE @[x]]]
            /\ call' = [call EXCEPT ![p].log = @ \cup d.log \cup {<<"block", d.addr>>},
                                    ![p].tot = IF copied = m THEN @ + m ELSE @,
                                    ![p].extra = IF copied = m THEN 0 ELSE copied,
                                    ![p].pc = IF copied = m THEN "block" ELSE "done"]
  /\ UNCHANGED <<size, lock, off, bytes, calls, panicked>>

(* Wrong: the size counts the bytes asked for.                              *)
NewSizeAsked(c) == Max({size[c.ip], c.from + c.n1})

NewSize(c) == Max({size[c.ip], c.from + c.tot})

(* The end of writei with iupdate, then f->off, iunlock and end_op; a short *)
(* write ends filewrite.                                                    *)
WriteEnd(p) ==
  LET c == call[p]
      i == c.ip IN
  /\ (At(p, "block") /\ c.tot = c.n1) \/ At(p, "done")
  /\ size' = [size EXCEPT ![i] = NewSize(c)]
  /\ bytes' = [bytes EXCEPT ![i] =
       [x \in 1..Max({Len(@), c.from + c.tot}) |->
          IF x > c.from /\ x <= c.from + c.tot + c.extra THEN c.val ELSE bytes[i][x]]]
  /\ off' = [off EXCEPT ![i] = @ + c.tot]
  /\ lock' = [lock EXCEPT ![i] = NoProc]
  /\ call' = [call EXCEPT ![p] = IF c.tot # c.n1 THEN Idle
                                 ELSE [c EXCEPT !.pc = "chunk", !.i = @ + c.tot]]
  /\ UNCHANGED <<used, data, addrs, calls, panicked>>

(* fileread: the bytes from f->off, fewer at the end of the file.           *)
fileread(p) ==
  /\ At(p, "idle")
  /\ \E i \in Inums, n \in Lengths :
       /\ lock[i] = NoProc /\ off[i] <= size[i]
       /\ off' = [off EXCEPT ![i] = @ + Min({n, size[i] - @})]
  /\ UNCHANGED <<used, data, addrs, size, lock, call, bytes, calls, panicked>>

(* A new open() of the file: f->off = 0, in the one file there is.          *)
Reopen(p) ==
  /\ At(p, "idle") /\ calls < MaxCalls
  /\ \E i \in Inums : off[i] > 0 /\ off' = [off EXCEPT ![i] = 0]
  /\ UNCHANGED <<used, data, addrs, size, lock, call, bytes, calls, panicked>>

-----------------------------------------------------------------------------
(* itrunc, in open() with O_TRUNC or when iput frees the inode.             *)
TruncBegin(p) ==
  /\ At(p, "idle") /\ calls < MaxCalls
  /\ \E i \in Inums :
       /\ lock[i] = NoProc
       /\ lock' = [lock EXCEPT ![i] = p]
       /\ call' = [call EXCEPT ![p] = [Idle EXCEPT !.pc = "trunc", !.ip = i]]
  /\ calls' = calls + 1
  /\ UNCHANGED <<used, data, addrs, size, off, bytes, panicked>>

(* The entry itrunc looks at: the direct ones, those of the indirect block  *)
(* if there is one, and that block.                                         *)
Entry(i, k) ==
  CASE k < NDIRECT -> addrs[i][k]
    [] k = MAXFILE -> addrs[i][NDIRECT]
    [] OTHER -> IF addrs[i][NDIRECT] = 0 THEN 0 ELSE data[addrs[i][NDIRECT]][k - NDIRECT]

bfree(b) ==
  /\ used' = used \ {b}
  /\ panicked' = (b \notin used)

TruncEntry(p) ==
  LET i == call[p].ip
      k == call[p].k
      b == Entry(i, k) IN
  /\ At(p, "trunc") /\ k <= MAXFILE
  /\ IF b = 0 THEN UNCHANGED <<used, panicked>> ELSE bfree(b)
  /\ addrs' = IF k < NDIRECT THEN [addrs EXCEPT ![i][k] = 0]
              ELSE IF k = MAXFILE THEN [addrs EXCEPT ![i][NDIRECT] = 0]
              ELSE addrs
  /\ call' = [call EXCEPT ![p].k = @ + 1]
  /\ UNCHANGED <<data, size, lock, off, bytes, calls>>

TruncEnd(p) ==
  LET i == call[p].ip IN
  /\ At(p, "trunc") /\ call[p].k > MAXFILE
  /\ size' = [size EXCEPT ![i] = 0]
  /\ bytes' = [bytes EXCEPT ![i] = <<>>]
  /\ lock' = [lock EXCEPT ![i] = NoProc]
  /\ call' = [call EXCEPT ![p] = Idle]
  /\ UNCHANGED <<used, data, addrs, off, calls, panicked>>

Next ==
  \E p \in Procs :
    \/ WriteBegin(p) \/ WriteChunk(p) \/ WriteBlock(p) \/ WriteEnd(p)
    \/ fileread(p) \/ Reopen(p)
    \/ TruncBegin(p) \/ TruncEntry(p) \/ TruncEnd(p)

Spec == Init /\ [][Next]_vars

-----------------------------------------------------------------------------
(* The entries of an inode that are still its own while itrunc is at work.  *)
Freed(i) == IF \E p \in Procs : call[p].pc = "trunc" /\ call[p].ip = i
            THEN call[lock[i]].k ELSE 0
Held(i) == {k \in Freed(i)..MAXFILE : Entry(i, k) # 0}

(* Every block the bitmap marks belongs to one place of one inode, every    *)
(* place of an inode has a marked block, and bfree() finds the block in     *)
(* use: whatever writers run out of blocks or fail in the middle, no block  *)
(* leaks and none is in two files.                                          *)
BlocksAccounted ==
  /\ ~panicked
  /\ used = UNION {{Entry(i, k) : k \in Held(i)} : i \in Inums}
  /\ Cardinality(used) = MapThenSumSet(LAMBDA i : Cardinality(Held(i)), Inums)

(* A file nobody is writing reads back as its writes left it, also after a  *)
(* write that ran out of blocks or whose copyin failed: no stale byte of a  *)
(* freed block and none past the end of a short write is ever read.         *)
ReadsBack ==
  \A i \in Inums : lock[i] = NoProc => readi(i, 0, size[i]) = bytes[i]

(* One writei() gives the log no more blocks than begin_op() has reserved,  *)
(* even if every block's bit is in a bitmap block of its own.               *)
WithinReservation ==
  \A p \in Procs : Cardinality(call[p].log) <= MAXOPBLOCKS
=============================================================================
