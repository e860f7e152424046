------------------------------- MODULE Bcache -------------------------------
(***************************************************************************)
(* The buffer cache, xv6/kernel/bio.c, with the sleep locks of             *)
(* sleeplock.c that guard its buffers: bget(), bread(), bwrite(),          *)
(* brelse(), bpin() and bunpin().  A step is a critical section of         *)
(* bcache.lock or of a sleep lock's spin lock, or a transfer of the disk.  *)
(* The callers keep the discipline of log.c: a changed buffer is written   *)
(* or pinned before it is released, and unpinned once it is written.       *)
(***************************************************************************)
EXTENDS Integers, FiniteSets

CONSTANTS
  Procs, Blocks, Values,
  NBUF

Bufs == 1..NBUF
None == "none"

ASSUME NbufAssumption == NBUF \in Nat \ {0}
ASSUME ProcsAssumption == IsFiniteSet(Procs) /\ None \notin Procs
ASSUME BlocksAssumption == None \notin Blocks

VARIABLES
  blockno, valid, refcnt, data,   \* of each buffer
  locked,     \* the holder of each buffer's sleep lock
  pinned,     \* the buffers log_write() has pinned
  lru,        \* bcache.head's list, most recently used first
  disk,       \* contents of each block on the disk
  latest,     \* history: what was last put in each block
  pc, buf,    \* of each process: where it is, and its buffer (0: none)
  panic       \* "bget: no buffers"

bvars == <<blockno, valid, refcnt, data, locked, pinned, lru>>
vars == <<bvars, disk, latest, pc, buf, panic>>

(* "lock": in acquiresleep(); "asleep"; "fill": has the lock, in bread();   *)
(* "use": bread() has returned; "dirty": the buffer was changed; "unpin":   *)
(* a pinned buffer was written; "release": in brelse(), the sleep lock      *)
(* released.                                                                *)
TypeOK ==
  /\ blockno \in [Bufs -> Blocks \cup {None}]
  /\ valid \in [Bufs -> 0..1]
  /\ refcnt \in [Bufs -> 0..(Cardinality(Procs) + 1)]
  /\ data \in [Bufs -> Values]
  /\ locked \in [Bufs -> Procs \cup {None}]
  /\ pinned \in SUBSET Bufs
  /\ lru \in [1..NBUF -> Bufs]
  /\ disk \in [Blocks -> Values] /\ latest \in [Blocks -> Values]
  /\ pc \in [Procs -> {"idle", "lock", "asleep", "fill", "use", "dirty", "unpin",
                       "release"}]
  /\ buf \in [Procs -> Bufs \cup {0}]
  /\ panic \in {"no", "yes"}

(* binit().                                                                 *)
Init ==
  /\ blockno = [b \in Bufs |-> None] /\ valid = [b \in Bufs |-> 0]
  /\ refcnt = [b \in Bufs |-> 0] /\ data \in [Bufs -> Values]
  /\ locked = [b \in Bufs |-> None] /\ pinned = {}
  /\ lru = [i \in 1..NBUF |-> NBUF + 1 - i]
  /\ disk \in [Blocks -> Values] /\ latest = disk
  /\ pc = [p \in Procs |-> "idle"] /\ buf = [p \in Procs |-> 0]
  /\ panic = "no"

-----------------------------------------------------------------------------
Goto(p, x) == pc' = [pc EXCEPT ![p] = x]
Cached(k) == {b \in Bufs : blockno[b] = k}
Unused == {b \in Bufs : refcnt[b] = 0}

(* bget(): the block is cached.                                             *)
bgetHit(p, k) ==
  /\ pc[p] = "idle" /\ panic = "no"
  /\ \E b \in Cached(k) :
       /\ refcnt' = [refcnt EXCEPT ![b] = @ + 1]
       /\ buf' = [buf EXCEPT ![p] = b]
  /\ Goto(p, "lock")
  /\ UNCHANGED <<blockno, valid, data, locked, pinned, lru, disk, latest, panic>>

(* bget(): the least recently used buffer that nobody refers to.            *)
Victim ==
  lru[CHOOSE i \in 1..NBUF : /\ lru[i] \in Unused
                             /\ \A j \in (i + 1)..NBUF : lru[j] \notin Unused]

(* Wrong: the recycled buffer is still marked as read.                      *)
bgetMissValid(p, k) ==
  /\ pc[p] = "idle" /\ panic = "no"
  /\ Cached(k) = {} /\ Unused # {}
  /\ blockno' = [blockno EXCEPT ![Victim] = k]
  /\ refcnt' = [refcnt EXCEPT ![Victim] = 1]
  /\ buf' = [buf EXCEPT ![p] = Victim]
  /\ Goto(p, "lock")
  /\ UNCHANGED <<valid, data, locked, pinned, lru, disk, latest, panic>>

(* bget(): the block is not cached, a buffer is recycled.                   *)
bgetMiss(p, k) ==
  /\ pc[p] = "idle" /\ panic = "no"
  /\ Cached(k) = {} /\ Unused # {}
  /\ blockno' = [blockno EXCEPT ![Victim] = k]
  /\ valid' = [valid EXCEPT ![Victim] = 0]
  /\ refcnt' = [refcnt EXCEPT ![Victim] = 1]
  /\ buf' = [buf EXCEPT ![p] = Victim]
  /\ Goto(p, "lock")
  /\ UNCHANGED <<data, locked, pinned, lru, disk, latest, panic>>

(* bget(): every buffer is in use.                                          *)
bgetPanic(p, k) ==
  /\ pc[p] = "idle" /\ panic = "no"
  /\ Cached(k) = {} /\ Unused = {}
  /\ panic' = "yes"
  /\ UNCHANGED <<bvars, disk, latest, pc, buf>>

(* acquiresleep(): take the lock, or sleep while it is taken.               *)
acquiresleep(p) ==
  /\ pc[p] = "lock"
  /\ IF locked[buf[p]] = None
       THEN locked' = [locked EXCEPT ![buf[p]] = p] /\ Goto(p, "fill")
       ELSE Goto(p, "asleep") /\ UNCHANGED locked
  /\ UNCHANGED <<blockno, valid, refcnt, data, pinned, lru, disk, latest, buf, panic>>

(* bread(): read the block unless the buffer is valid.                      *)
bread(p) ==
  /\ pc[p] = "fill"
  /\ LET b == buf[p] IN
       /\ data' = IF valid[b] = 1 THEN data ELSE [data EXCEPT ![b] = disk[blockno[b]]]
       /\ valid' = [valid EXCEPT ![b] = 1]
  /\ Goto(p, "use")
  /\ UNCHANGED <<blockno, refcnt, locked, pinned, lru, disk, latest, buf, panic>>

(* The caller changes the buffer; a pinned one need not be pinned again.    *)
Change(p, v) ==
  /\ pc[p] = "use"
  /\ LET b == buf[p] IN
       /\ data' = [data EXCEPT ![b] = v]
       /\ latest' = [latest EXCEPT ![blockno[b]] = v]
       /\ Goto(p, IF b \in pinned THEN "use" ELSE "dirty")
  /\ UNCHANGED <<blockno, valid, refcnt, locked, pinned, lru, disk, buf, panic>>

(* bwrite() of a changed or of a pinned buffer.                             *)
bwrite(p) ==
  /\ \/ pc[p] = "dirty" /\ Goto(p, "use")
     \/ pc[p] = "use" /\ buf[p] \in pinned /\ Goto(p, "unpin")
  /\ disk' = [disk EXCEPT ![blockno[buf[p]]] = data[buf[p]]]
  /\ UNCHANGED <<bvars, latest, buf, panic>>

(* bpin(), from log_write().                                                *)
bpin(p) ==
  /\ pc[p] = "dirty" /\ panic = "no"
  /\ refcnt' = [refcnt EXCEPT ![buf[p]] = @ + 1]
  /\ pinned' = pinned \cup {buf[p]}
  /\ Goto(p, "use")
  /\ UNCHANGED <<blockno, valid, data, locked, lru, disk, latest, buf, panic>>

(* bunpin(), from install_trans().                                          *)
bunpin(p) ==
  /\ pc[p] = "unpin" /\ panic = "no"
  /\ refcnt' = [refcnt EXCEPT ![buf[p]] = @ - 1]
  /\ pinned' = pinned \ {buf[p]}
  /\ Goto(p, "use")
  /\ UNCHANGED <<blockno, valid, data, locked, lru, disk, latest, buf, panic>>

(* releasesleep(): wakeup(lk).                                              *)
Awoken(b) ==
  [p \in Procs |-> IF pc[p] = "asleep" /\ buf[p] = b THEN "lock" ELSE pc[p]]

(* brelse(): releasesleep().                                                *)
releasesleep(p) ==
  /\ pc[p] = "use"
  /\ locked' = [locked EXCEPT ![buf[p]] = None]
  /\ pc' = [Awoken(buf[p]) EXCEPT ![p] = "release"]
  /\ UNCHANGED <<blockno, valid, refcnt, data, pinned, lru, disk, latest, buf, panic>>

(* brelse(): the list with b unlinked and put at its head.                  *)
ToHead(b) ==
  LET at == CHOOSE i \in 1..NBUF : lru[i] = b
  IN  [i \in 1..NBUF |-> IF i = 1 THEN b ELSE IF i <= at THEN lru[i - 1] ELSE lru[i]]

(* brelse(): drop the reference; an unused buffer goes to the list's head.  *)
brelse(p) ==
  /\ pc[p] = "release" /\ panic = "no"
  /\ LET b == buf[p] IN
       /\ refcnt' = [refcnt EXCEPT ![b] = @ - 1]
       /\ lru' = IF refcnt[b] = 1 THEN ToHead(b) ELSE lru
  /\ buf' = [buf EXCEPT ![p] = 0]
  /\ Goto(p, "idle")
  /\ UNCHANGED <<blockno, valid, data, locked, pinned, disk, latest, panic>>

-----------------------------------------------------------------------------
Step(p) ==
  \/ acquiresleep(p) \/ bread(p) \/ bwrite(p) \/ bpin(p) \/ bunpin(p)
  \/ releasesleep(p) \/ brelse(p)

(* panic() spins with bcache.lock held: nobody gets it any more.            *)
Halted == panic = "yes" /\ UNCHANGED vars

Next ==
  \/ \E p \in Procs :
       \/ \E k \in Blocks : bgetHit(p, k) \/ bgetMiss(p, k) \/ bgetPanic(p, k)
       \/ \E v \in Values : Change(p, v)
       \/ Step(p)
  \/ Halted

Spec == Init /\ [][Next]_vars

-----------------------------------------------------------------------------
(* bget() hands out one buffer per block, whatever two processes that want  *)
(* the same block do in between.                                            *)
OneCopy == \A k \in Blocks : Cardinality(Cached(k)) <= 1

(* A process that bread() has returned to has the buffer to itself and sees *)
(* what was last put in that block; no change is lost by recycling.         *)
SeesLatest ==
  \A p \in Procs :
    pc[p] \in {"use", "dirty", "unpin"} =>
      /\ data[buf[p]] = latest[blockno[buf[p]]]
      /\ \A q \in Procs \ {p} :
           buf[q] = buf[p] => pc[q] \in {"lock", "asleep", "release"}

(* A buffer's reference count is the number of processes that use it or     *)
(* wait for it, and one if it is pinned: unless every buffer is so in use,  *)
(* one can be recycled.                                                     *)
CountsMatch ==
  \A b \in Bufs :
    refcnt[b] = Cardinality({p \in Procs : buf[p] = b}) + (IF b \in pinned THEN 1 ELSE 0)

(* A process asleep in acquiresleep() waits for a lock that is held.        *)
SleepersHaveReason == \A p \in Procs : pc[p] = "asleep" => locked[buf[p]] # None

(* The buffer cache is sound: types, one copy of a block, exact reference   *)
(* counts, no reader of a stale block, and no sleeper without a reason.     *)
BuffersSound == TypeOK /\ OneCopy /\ CountsMatch /\ SeesLatest /\ SleepersHaveReason
=============================================================================
