-------------------------------- MODULE Log --------------------------------
(***************************************************************************)
(* The write-ahead log of xv6/kernel/log.c: begin_op(), log_write(),       *)
(* end_op(), commit(), sys_sync(), and recover_from_log() after a crash,   *)
(* which may come between any two disk writes, recovery's own included.    *)
(*                                                                         *)
(* A step is one critical section of log.lock, or one disk write.  The     *)
(* buffer cache appears as what bread() returns: a modified block is       *)
(* pinned until it is installed, any other block is what the disk holds.   *)
(* A block is written to the disk whole or not at all.                     *)
(***************************************************************************)
EXTENDS Integers, Sequences, FiniteSets

CONSTANTS
  Procs,        \* the processes that make file system calls
  Blocks,       \* home block numbers
  Data,         \* block contents
  LOGBLOCKS,    \* data blocks of the log (param.h: 30)
  MAXOPBLOCKS,  \* what begin_op() reserves for a call (param.h: 10)
  OpBlocks      \* different blocks that a call really writes

NoOne == "no one"

ASSUME ProcsAssumption == IsFiniteSet(Procs) /\ NoOne \notin Procs
ASSUME SizesAssumption ==
  /\ LOGBLOCKS \in Nat /\ MAXOPBLOCKS \in Nat /\ OpBlocks \in Nat
  /\ OpBlocks < MAXOPBLOCKS

VARIABLES
  home,         \* disk: the blocks at their home locations
  dlog,         \* disk: the log's data blocks
  dhead,        \* disk: the log header, block[0..n-1]
  cache,        \* what bread() returns for a home block
  lh,           \* log.lh.block[0..n-1]
  outstanding,  \* log.outstanding
  committing,   \* log.committing
  step,         \* where the writer of the log is
  by,           \* the process in commit(), or NoOne during recovery
  tail,         \* tail of write_log() and install_trans()
  pc,           \* where each process is
  wrote,        \* the blocks each call has written
  need,         \* n - log.ncommit for a process in sys_sync()
  unsaved,      \* processes whose last finished call is not yet durable
  owed,         \* what unsaved was when a sys_sync() began, less what
                \* has become durable since
  fault         \* a panic() was reached

diskVars == <<home, dlog, dhead>>
writerVars == <<step, by, tail>>
ghostVars == <<unsaved, owed>>
vars == <<home, dlog, dhead, cache, lh, outstanding, committing, step, by,
          tail, pc, wrote, need, unsaved, owed, fault>>

(* "woken" and "resync": woken by wakeup(&log), about to look again.        *)
Pc == {"idle", "asleep", "woken", "op", "commit", "sync", "resync"}
(* "read": about to run recover_from_log(); "up": nobody writes the log.    *)
Step == {"read", "up", "log", "install", "done"}

TypeOK ==
  /\ home \in [Blocks -> Data]
  /\ dlog \in [1..LOGBLOCKS -> Data]
  /\ dhead \in Seq(Blocks)
  /\ cache \in [Blocks -> Data]
  /\ lh \in Seq(Blocks)
  /\ outstanding \in Nat
  /\ committing \in 0..1
  /\ step \in Step
  /\ by \in Procs \cup {NoOne}
  /\ tail \in 0..LOGBLOCKS
  /\ pc \in [Procs -> Pc]
  /\ wrote \in [Procs -> SUBSET Blocks]
  /\ need \in [Procs -> 0..1]
  /\ unsaved \in SUBSET Procs
  /\ owed \in [Procs -> SUBSET Procs]
  /\ fault \in {"none", "panic"}

-----------------------------------------------------------------------------
(* The machine boots with an empty log.                                     *)
Init ==
  /\ home \in [Blocks -> Data]
  /\ \E v \in Data : dlog = [i \in 1..LOGBLOCKS |-> v]
  /\ dhead = <<>>
  /\ cache = home
  /\ lh = <<>>
  /\ outstanding = 0
  /\ committing = 0
  /\ step = "read"
  /\ by = NoOne
  /\ tail = 0
  /\ pc = [p \in Procs |-> "idle"]
  /\ wrote = [p \in Procs |-> {}]
  /\ need = [p \in Procs |-> 0]
  /\ unsaved = {}
  /\ owed = [p \in Procs |-> {}]
  /\ fault = "none"

(* recover_from_log() runs to its end before any file system call.          *)
Booted == step = "up" \/ by # NoOne

(* begin_op(): this call cannot exhaust the log.                            *)
Room == Len(lh) + (outstanding + 1) * MAXOPBLOCKS <= LOGBLOCKS

(* wakeup(&log).                                                            *)
Woken(q) ==
  CASE pc[q] = "asleep" -> "woken"
    [] pc[q] = "sync" -> "resync"
    [] OTHER -> pc[q]

(* begin_op(): log.outstanding += 1.                                        *)
Entered == outstanding + 1

(* Wrong: begin_op() does not wait for a commit to end.                     *)
MayEnterCommitting == Room

(* begin_op(): nothing to wait for.                                         *)
MayEnter == committing = 0 /\ Room

(* begin_op(): one round of its loop.                                       *)
begin_op(p) ==
  /\ Booted
  /\ pc[p] \in {"idle", "woken"}
  /\ IF MayEnter
     THEN /\ outstanding' = Entered
          /\ pc' = [pc EXCEPT ![p] = "op"]
     ELSE /\ pc' = [pc EXCEPT ![p] = "asleep"]
          /\ UNCHANGED outstanding
  /\ UNCHANGED <<diskVars, cache, lh, committing, writerVars, wrote, need,
                 ghostVars, fault>>

(* log_write(): b's slot, an old one (absorption) or a new one.             *)
Added(b) ==
  IF \E i \in 1..Len(lh) : lh[i] = b THEN lh ELSE Append(lh, b)

(* A call modifies b in the cache and calls log_write(), holding b's lock.  *)
log_write(p, b, v) ==
  /\ pc[p] = "op"
  /\ b \in wrote[p] \/ Cardinality(wrote[p]) < OpBlocks
  /\ wrote' = [wrote EXCEPT ![p] = @ \cup {b}]
  /\ cache' = [cache EXCEPT ![b] = v]
  /\ IF Len(lh) >= LOGBLOCKS \/ outstanding < 1
     THEN fault' = "panic" /\ UNCHANGED lh
     ELSE lh' = Added(b) /\ UNCHANGED fault
  /\ UNCHANGED <<diskVars, outstanding, committing, writerVars, pc, need,
                 ghostVars>>

(* end_op(): log.outstanding -= 1.                                          *)
Ended == outstanding - 1

(* end_op(): this was the last call under way.                              *)
Last == Ended = 0

(* end_op(), its first critical section.                                    *)
end_op(p) ==
  /\ pc[p] = "op"
  /\ outstanding' = Ended
  /\ wrote' = [wrote EXCEPT ![p] = {}]
  /\ unsaved' = IF wrote[p] = {} THEN unsaved ELSE unsaved \cup {p}
  /\ fault' = IF committing = 1 THEN "panic" ELSE fault
  /\ IF Last
     THEN /\ committing' = 1
          /\ by' = p
          /\ tail' = 0
          /\ step' = IF lh # <<>> THEN "log" ELSE "done"
          /\ pc' = [pc EXCEPT ![p] = "commit"]
     ELSE /\ pc' = [[q \in Procs |-> Woken(q)] EXCEPT ![p] = "idle"]
          /\ UNCHANGED <<committing, writerVars>>
  /\ UNCHANGED <<diskVars, cache, lh, need, owed>>

-----------------------------------------------------------------------------
(* write_log(): one block.                                                  *)
write_log ==
  /\ step = "log"
  /\ tail < Len(lh)
  /\ dlog' = [dlog EXCEPT ![tail + 1] = cache[lh[tail + 1]]]
  /\ tail' = tail + 1
  /\ UNCHANGED <<home, dhead, cache, lh, outstanding, committing, step, by,
                 pc, wrote, need, ghostVars, fault>>

(* Wrong: the header is written before the blocks it names.                 *)
write_headEarly ==
  /\ step = "log"
  /\ dhead' = lh
  /\ tail' = IF tail = Len(lh) THEN 0 ELSE tail
  /\ step' = IF tail = Len(lh) THEN "install" ELSE "log"
  /\ unsaved' = {}
  /\ owed' = [p \in Procs |-> {}]
  /\ UNCHANGED <<home, dlog, cache, lh, outstanding, committing, by, pc, wrote,
                 need, fault>>

(* commit()'s first write_head(), the point at which the transaction        *)
(* commits.                                                                 *)
write_head ==
  /\ step = "log"
  /\ tail = Len(lh)
  /\ dhead' = lh
  /\ tail' = 0
  /\ step' = "install"
  /\ unsaved' = {}
  /\ owed' = [p \in Procs |-> {}]
  /\ UNCHANGED <<home, dlog, cache, lh, outstanding, committing, by, pc, wrote,
                 need, fault>>

(* install_trans(): one block to its home location.                         *)
install_trans ==
  LET b == lh[tail + 1] IN
  /\ step = "install"
  /\ tail < Len(lh)
  /\ home' = [home EXCEPT ![b] = dlog[tail + 1]]
  /\ cache' = [cache EXCEPT ![b] = dlog[tail + 1]]
  /\ tail' = tail + 1
  /\ UNCHANGED <<dlog, dhead, lh, outstanding, committing, step, by, pc, wrote,
                 need, ghostVars, fault>>

(* The last write_head() of commit() and of recover_from_log(): the log is  *)
(* empty.                                                                   *)
clear_log ==
  /\ step = "install"
  /\ tail = Len(lh)
  /\ lh' = <<>>
  /\ dhead' = <<>>
  /\ tail' = 0
  /\ step' = IF by = NoOne THEN "up" ELSE "done"
  /\ UNCHANGED <<home, dlog, cache, outstanding, committing, by, pc, wrote,
                 need, ghostVars, fault>>

(* Wrong: log.committing is not reset.                                      *)
end_commitStays ==
  /\ step = "done"
  /\ UNCHANGED committing
  /\ need' = [p \in Procs |-> 0]
  /\ pc' = [[q \in Procs |-> Woken(q)] EXCEPT ![by] = "idle"]
  /\ step' = "up"
  /\ by' = NoOne
  /\ UNCHANGED <<diskVars, cache, lh, outstanding, tail, wrote, ghostVars,
                 fault>>

(* end_op(), its last critical section: ncommit++ and wakeup().             *)
end_commit ==
  /\ step = "done"
  /\ committing' = 0
  /\ need' = [p \in Procs |-> 0]
  /\ pc' = [[q \in Procs |-> Woken(q)] EXCEPT ![by] = "idle"]
  /\ step' = "up"
  /\ by' = NoOne
  /\ UNCHANGED <<diskVars, cache, lh, outstanding, tail, wrote, ghostVars,
                 fault>>

-----------------------------------------------------------------------------
(* Wrong: sys_sync() waits only while a commit is running.                  *)
MustWaitCommitting == committing = 1

(* sys_sync(): something may not be on the disk yet.                        *)
MustWait == committing = 1 \/ outstanding > 0

(* sys_sync() when it has to wait for the next commit to end.  A call with  *)
(* nothing to wait for returns at once and changes nothing.                 *)
sys_sync(p) ==
  /\ Booted
  /\ pc[p] = "idle"
  /\ MustWait
  /\ need' = [need EXCEPT ![p] = 1]
  /\ owed' = [owed EXCEPT ![p] = unsaved]
  /\ pc' = [pc EXCEPT ![p] = "sync"]
  /\ UNCHANGED <<diskVars, cache, lh, outstanding, committing, writerVars,
                 wrote, unsaved, fault>>

(* sys_sync(): woken, it looks at ncommit again.                            *)
sync_check(p) ==
  /\ pc[p] = "resync"
  /\ pc' = [pc EXCEPT ![p] = IF need[p] > 0 THEN "sync" ELSE "idle"]
  /\ UNCHANGED <<diskVars, cache, lh, outstanding, committing, writerVars,
                 wrote, need, ghostVars, fault>>

-----------------------------------------------------------------------------
(* The machine stops and boots again: memory is lost, the disk is kept.     *)
Crash ==
  /\ cache' = home
  /\ lh' = <<>>
  /\ outstanding' = 0
  /\ committing' = 0
  /\ step' = "read"
  /\ by' = NoOne
  /\ tail' = 0
  /\ pc' = [p \in Procs |-> "idle"]
  /\ wrote' = [p \in Procs |-> {}]
  /\ need' = [p \in Procs |-> 0]
  /\ unsaved' = {}
  /\ owed' = [p \in Procs |-> {}]
  /\ fault' = "none"
  /\ UNCHANGED diskVars

(* recover_from_log(): read_head(); install_trans(1) and the clearing of    *)
(* the log follow.                                                          *)
read_head ==
  /\ step = "read"
  /\ lh' = dhead
  /\ tail' = 0
  /\ step' = "install"
  /\ UNCHANGED <<diskVars, cache, outstanding, committing, by, pc, wrote, need,
                 ghostVars, fault>>

-----------------------------------------------------------------------------
(* None of the panics of log_write() and end_op() is reached: the           *)
(* reservations of begin_op() leave room for what the calls under way may   *)
(* still write, nothing is written outside a call, and no call ends while   *)
(* another commits.                                                         *)
NoPanic == fault = "none"

Call(p) ==
  \/ begin_op(p)
  \/ \E b \in Blocks, v \in Data : log_write(p, b, v)
  \/ sys_sync(p)
Writer == write_log \/ write_head \/ install_trans \/ clear_log \/ end_commit
          \/ read_head

Next ==
  \/ NoPanic /\ \E p \in Procs : Call(p) \/ end_op(p) \/ sync_check(p)
  \/ NoPanic /\ Writer
  \/ Crash

Spec == Init /\ [][Next]_vars

(* A call that has begun ends, a woken process runs, and whoever writes the *)
(* log goes on writing.  Crashes may come but need not.                     *)
Fairness ==
  /\ \A p \in Procs : /\ WF_vars(NoPanic /\ end_op(p))
                      /\ WF_vars(NoPanic /\ sync_check(p))
                      /\ WF_vars(NoPanic /\ pc[p] = "woken" /\ begin_op(p))
  /\ WF_vars(NoPanic /\ Writer)

FairSpec == Spec /\ Fairness

-----------------------------------------------------------------------------
(* What a reboot makes of the disk: the blocks of a committed transaction   *)
(* from the log, the others from their home locations.                      *)
Recovered ==
  [b \in Blocks |->
     IF \E i \in 1..Len(dhead) : dhead[i] = b
     THEN dlog[CHOOSE i \in 1..Len(dhead) : dhead[i] = b]
     ELSE home[b]]

Disk == INSTANCE AtomicDisk WITH
          stable <- Recovered,
          current <- IF Booted THEN cache ELSE Recovered,
          active <- {p \in Procs : pc[p] = "op"}

(* Transactions are atomic, in spite of crashes at any point of commit()    *)
(* and of recovery, and none is committed while a call is under way.        *)
Atomic == Disk!Spec

(* sys_sync() returns only when the calls that had ended before it began    *)
(* are durable, whether it waited for a commit or had nothing to wait for.  *)
SyncIsDurable ==
  /\ \A p \in Procs : pc[p] = "resync" /\ need[p] = 0 => owed[p] = {}
  /\ Booted /\ ~MustWait => unsaved = {}

(* No wakeup is lost: a process asleep in begin_op() has a reason to be,    *)
(* and one asleep in sys_sync() has a commit to come.                       *)
SleepersHaveReason ==
  \A p \in Procs :
    /\ pc[p] = "asleep" => committing = 1 \/ ~Room
    /\ pc[p] = "sync" => committing = 1 \/ outstanding > 0

(* The log is in order: no variable leaves its type, log_write() and        *)
(* end_op() do not panic, and nobody sleeps without a reason.               *)
LogSound == TypeOK /\ NoPanic /\ SleepersHaveReason

(* A sleeping process is woken.                                             *)
SleepersWake ==
  \A p \in Procs : pc[p] = "asleep" ~> pc[p] # "asleep"
=============================================================================
