-------------------------------- MODULE Pipe --------------------------------
(***************************************************************************)
(* xv6/kernel/pipe.c: pipewrite(), piperead() and pipeclose() by processes *)
(* that hold descriptors of one pipe, with pi->lock, the two channels a    *)
(* process may sleep on, and kills.  nread and nwrite are unsigned         *)
(* integers that wrap around at UintMod.                                   *)
(***************************************************************************)
EXTENDS Integers, Sequences, FiniteSets

CONSTANTS
  Writers, Readers,   \* processes with the writing or the reading descriptor
  Killable,           \* the ones kkill() is called for
  Byte,
  PIPESIZE,
  UintMod,            \* 2^32
  MaxN                \* bound: bytes asked for in one call

Procs == Writers \cup Readers
Nobody == "nobody"

ASSUME RolesAssumption ==
  Writers \cap Readers = {} /\ Killable \subseteq Procs /\ Nobody \notin Procs
ASSUME SizeAssumption ==
  /\ PIPESIZE \in Nat \ {0} /\ UintMod \in Nat /\ MaxN \in Nat
  /\ UintMod > PIPESIZE /\ UintMod % PIPESIZE = 0

VARIABLES
  data, nread, nwrite, readopen, writeopen,   \* struct pipe
  freed,     \* "yes" once kfree() was called for it
  lock,      \* who holds pi->lock
  pc,        \* where each process is
  left,      \* bytes its call still has to move (n - i)
  ret,       \* what the last call of a reader has given it
  open,      \* the processes whose descriptor is open
  killed     \* the processes with p->killed set

shared == <<data, nread, nwrite, readopen, writeopen, freed>>
vars == <<shared, lock, pc, left, ret, open, killed>>

(* "call": about to acquire pi->lock; "loop": at the head of the while     *)
(* loop; "body": in it, past the test of killed(); "asleep"; "copy": in    *)
(* piperead()'s for loop; "close": in pipeclose(), before acquire().       *)
TypeOK ==
  /\ data \in [0..(PIPESIZE - 1) -> Byte]
  /\ nread \in 0..(UintMod - 1) /\ nwrite \in 0..(UintMod - 1)
  /\ readopen \in 0..1 /\ writeopen \in 0..1
  /\ freed \in {"no", "yes"}
  /\ lock \in Procs \cup {Nobody}
  /\ pc \in [Procs -> {"idle", "call", "loop", "body", "asleep", "copy", "close"}]
  /\ left \in [Procs -> 0..MaxN]
  /\ ret \in [Procs -> {"none", "data", "eof", "fail"}]
  /\ open \in SUBSET Procs /\ killed \in SUBSET Killable

(* pipealloc(): the pipe is allocated with both ends open.                  *)
Init ==
  /\ data \in [0..(PIPESIZE - 1) -> Byte]
  /\ nread = 0 /\ nwrite = 0
  /\ readopen = 1 /\ writeopen = 1 /\ freed = "no"
  /\ lock = Nobody
  /\ pc = [p \in Procs |-> "idle"]
  /\ left = [p \in Procs |-> 0]
  /\ ret = [p \in Procs |-> "none"]
  /\ open = Procs /\ killed = {}

-----------------------------------------------------------------------------
Full == nwrite = (nread + PIPESIZE) % UintMod
Empty == nread = nwrite

(* The pcs of the processes after a wakeup of one end's sleepers: they go   *)
(* back to acquire().                                                       *)
Wakeup(S) ==
  [p \in Procs |-> IF p \in S /\ pc[p] = "asleep" THEN "call" ELSE pc[p]]

(* A read or a write of n bytes.  A killed process does not get to make one.*)
Call(p, n) ==
  /\ pc[p] = "idle" /\ p \in open \ killed
  /\ pc' = [pc EXCEPT ![p] = "call"]
  /\ left' = [left EXCEPT ![p] = n]
  /\ ret' = [ret EXCEPT ![p] = "none"]
  /\ UNCHANGED <<shared, lock, open, killed>>

(* acquire(&pi->lock), in the call or at the end of sleep().                *)
Acquire(p) ==
  /\ pc[p] = "call" /\ lock = Nobody
  /\ lock' = p
  /\ pc' = [pc EXCEPT ![p] = "loop"]
  /\ UNCHANGED <<shared, left, ret, open, killed>>

(* The holder of pi->lock releases it and leaves for x, in the pcs given.   *)
Leave(p, pcs, x, r) ==
  /\ lock' = Nobody
  /\ pc' = [pcs EXCEPT ![p] = x]
  /\ left' = IF x = "idle" THEN [left EXCEPT ![p] = 0] ELSE left
  /\ ret' = [ret EXCEPT ![p] = r]
  /\ UNCHANGED <<shared, open, killed>>

Goto(p, x) ==
  /\ pc' = [pc EXCEPT ![p] = x]
  /\ UNCHANGED <<shared, lock, left, ret, open, killed>>

-----------------------------------------------------------------------------
(* pipewrite(): the loop's first test.                                      *)
WriteTest(p) ==
  /\ pc[p] = "loop" /\ left[p] > 0
  /\ IF readopen = 0 \/ p \in killed THEN Leave(p, pc, "idle", "fail")
     ELSE Goto(p, "body")

(* pipewrite(): the pipe is full.                                           *)
WriteSleep(p) ==
  /\ pc[p] = "body"
  /\ Full
  /\ Leave(p, Wakeup(Readers), "asleep", ret[p])

(* Wrong: one byte too many fits.                                           *)
WriteByteOver(p, b) ==
  /\ pc[p] = "body"
  /\ nwrite # (nread + PIPESIZE + 1) % UintMod
  /\ data' = [data EXCEPT ![nwrite % PIPESIZE] = b]
  /\ nwrite' = (nwrite + 1) % UintMod
  /\ left' = [left EXCEPT ![p] = @ - 1]
  /\ pc' = [pc EXCEPT ![p] = "loop"]
  /\ UNCHANGED <<nread, readopen, writeopen, freed, lock, ret, open, killed>>

(* pipewrite(): a byte is copied in.                                        *)
WriteByte(p, b) ==
  /\ pc[p] = "body"
  /\ ~Full
  /\ data' = [data EXCEPT ![nwrite % PIPESIZE] = b]
  /\ nwrite' = (nwrite + 1) % UintMod
  /\ left' = [left EXCEPT ![p] = @ - 1]
  /\ pc' = [pc EXCEPT ![p] = "loop"]
  /\ UNCHANGED <<nread, readopen, writeopen, freed, lock, ret, open, killed>>

(* pipewrite() ends: everything is written, or copyin() fails.              *)
WriteDone(p) ==
  /\ \/ pc[p] = "loop" /\ left[p] = 0
     \/ pc[p] = "body" /\ ~Full
  /\ Leave(p, Wakeup(Readers), "idle", "none")

Write(p) ==
  \/ WriteTest(p) \/ WriteSleep(p) \/ WriteDone(p)
  \/ \E b \in Byte : WriteByte(p, b)

-----------------------------------------------------------------------------
(* piperead(): the pipe is empty and can still be written.                  *)
ReadEmpty(p) ==
  /\ pc[p] = "loop"
  /\ Empty /\ writeopen = 1
  /\ IF p \in killed THEN Leave(p, pc, "idle", "fail") ELSE Goto(p, "body")

(* piperead(): sleep(&pi->nread, &pi->lock).                                *)
ReadSleep(p) ==
  /\ pc[p] = "body"
  /\ Leave(p, pc, "asleep", ret[p])

(* piperead(): there is something to read, or nothing will come.            *)
ReadReady(p) ==
  /\ pc[p] = "loop"
  /\ ~Empty \/ writeopen = 0
  /\ Goto(p, "copy")

(* piperead(): a byte is copied out.                                        *)
ReadByte(p) ==
  /\ pc[p] = "copy"
  /\ left[p] > 0 /\ ~Empty
  /\ nread' = (nread + 1) % UintMod
  /\ left' = [left EXCEPT ![p] = @ - 1]
  /\ ret' = [ret EXCEPT ![p] = "data"]
  /\ UNCHANGED <<data, nwrite, readopen, writeopen, freed, lock, pc, open, killed>>

(* piperead() ends: n bytes are read, the pipe is empty, or copyout()       *)
(* fails.                                                                   *)
ReadDone(p) ==
  /\ pc[p] = "copy"
  /\ Leave(p, Wakeup(Writers), "idle",
           IF left[p] > 0 /\ ret[p] = "none" THEN IF Empty THEN "eof" ELSE "fail"
           ELSE ret[p])

Read(p) ==
  ReadEmpty(p) \/ ReadSleep(p) \/ ReadReady(p) \/ ReadByte(p) \/ ReadDone(p)

-----------------------------------------------------------------------------
Side(p) == IF p \in Writers THEN Writers ELSE Readers

(* fileclose(): the last descriptor of an end calls pipeclose().            *)
CloseFile(p) ==
  /\ pc[p] = "idle" /\ p \in open
  /\ open' = open \ {p}
  /\ pc' = [pc EXCEPT ![p] = IF open' \cap Side(p) = {} THEN "close" ELSE "idle"]
  /\ UNCHANGED <<shared, lock, left, ret, killed>>

(* Wrong: the pipe is freed with its first end.                             *)
LastEndEither(r, w) == r = 0 \/ w = 0

(* pipeclose(): both ends are closed.                                       *)
LastEnd(r, w) == r = 0 /\ w = 0

(* pipeclose(): the end is closed and the other end's sleepers are woken.   *)
PipeClose(p) ==
  /\ pc[p] = "close" /\ lock = Nobody
  /\ writeopen' = IF p \in Writers THEN 0 ELSE writeopen
  /\ readopen' = IF p \in Readers THEN 0 ELSE readopen
  /\ freed' = IF LastEnd(readopen', writeopen') THEN "yes" ELSE freed
  /\ pc' = [Wakeup(Procs \ Side(p)) EXCEPT ![p] = "idle"]
  /\ UNCHANGED <<data, nread, nwrite, lock, left, ret, open, killed>>

(* kkill(): a sleeper is woken.                                             *)
Kill(p) ==
  /\ p \in Killable \ killed
  /\ killed' = killed \cup {p}
  /\ pc' = [pc EXCEPT ![p] = IF @ = "asleep" THEN "call" ELSE @]
  /\ UNCHANGED <<shared, lock, left, ret, open>>

(* Everybody has closed the pipe.                                           *)
Finished ==
  /\ freed = "yes" /\ \A p \in Procs : pc[p] = "idle"
  /\ UNCHANGED vars

Next ==
  \/ \E p \in Procs :
       \/ \E n \in 0..MaxN : Call(p, n)
       \/ Acquire(p) \/ CloseFile(p) \/ PipeClose(p) \/ Kill(p)
  \/ \E p \in Writers : Write(p)
  \/ \E p \in Readers : Read(p)
  \/ Finished

Spec == Init /\ [][Next]_vars

-----------------------------------------------------------------------------
(* The bytes in the pipe, oldest first.                                     *)
Contents ==
  [i \in 1..((nwrite - nread) % UintMod) |-> data[(nread + i - 1) % PIPESIZE]]

(* The pipe is a bounded first-in first-out channel (Channel), also where   *)
(* nread and nwrite wrap around: no byte is lost, repeated, overwritten or  *)
(* out of order, whatever readers and writers interleave.                   *)
Chan == INSTANCE Channel WITH queue <- Contents, Capacity <- PIPESIZE
Fifo == Chan!Spec

(* End of file is final: a reader that is told of it has seen an empty pipe *)
(* that nobody can write any more.                                          *)
EofIsFinal ==
  \A p \in Readers : ret[p] = "eof" => Empty /\ writeopen = 0

(* The pipe is not freed while a process can still use it.                  *)
NoUseAfterFree ==
  /\ TypeOK
  /\ freed = "yes" => open = {} /\ \A p \in Procs : pc[p] = "idle"

(* No wakeup is lost: when pi->lock is free, a reader is asleep only if the *)
(* pipe is empty and can be written, a writer only if it is full and can be *)
(* read.  A killed writer leaves pipewrite() without wakeup(&pi->nread), so *)
(* the readers' part is promised only while no writer is killed.            *)
SleepersHaveReason ==
  lock = Nobody =>
    /\ killed \cap Writers = {} =>
         \A p \in Readers : pc[p] = "asleep" => Empty /\ writeopen = 1
    /\ \A p \in Writers : pc[p] = "asleep" => Full /\ readopen = 1

(* Together: nobody touches a freed pipe, end of file is final, and a       *)
(* process asleep on the pipe has a reason to be.                           *)
PipeSound == NoUseAfterFree /\ EofIsFinal /\ SleepersHaveReason
=============================================================================
