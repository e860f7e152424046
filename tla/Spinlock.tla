------------------------------ MODULE Spinlock ------------------------------
(***************************************************************************)
(* xv6/kernel/spinlock.c: acquire(), release(), holding(), push_off() and  *)
(* pop_off() on several harts, with interrupts whose handlers take the     *)
(* same locks.  Locks are taken in one order, as the kernel's callers do.  *)
(* A hart that spins makes no step; if all spin for ever, that is a        *)
(* deadlock.                                                               *)
(***************************************************************************)
EXTENDS Integers, FiniteSets

CONSTANTS
  NHart,      \* the harts 1..NHart
  NLocks      \* the locks 1..NLocks, in the order they are nested

ASSUME SizesAssumption == NHart \in Nat /\ NLocks \in Nat

Harts == 1..NHart
Locks == 1..NLocks
None == 0

VARIABLES
  locked, cpu,      \* struct spinlock
  noff, intena,     \* struct cpu
  sie,              \* SSTATUS_SIE: 1 when the hart takes interrupts
  intr,             \* 1 while the hart is in an interrupt handler
  held,             \* the locks the hart has acquired
  pc, lk            \* where each hart is, and the lock of its call

vars == <<locked, cpu, noff, intena, sie, intr, held, pc, lk>>

(* "spin": in acquire(), after push_off(); "record": the swap has returned  *)
(* 0; "store": in release(), lk->cpu cleared; "pop": the lock is free;      *)
(* "panic".                                                                 *)
TypeOK ==
  /\ locked \in [Locks -> 0..1] /\ cpu \in [Locks -> Harts \cup {None}]
  /\ noff \in [Harts -> Nat] /\ intena \in [Harts -> 0..1]
  /\ sie \in [Harts -> 0..1] /\ intr \in [Harts -> 0..1]
  /\ held \in [Harts -> SUBSET Locks]
  /\ pc \in [Harts -> {"run", "spin", "record", "store", "pop", "panic"}]
  /\ lk \in [Harts -> Locks \cup {None}]

Init ==
  /\ locked = [l \in Locks |-> 0] /\ cpu = [l \in Locks |-> None]
  /\ noff = [h \in Harts |-> 0] /\ intena = [h \in Harts |-> 0]
  /\ sie = [h \in Harts |-> 1] /\ intr = [h \in Harts |-> 0]
  /\ held = [h \in Harts |-> {}]
  /\ pc = [h \in Harts |-> "run"] /\ lk = [h \in Harts |-> None]

-----------------------------------------------------------------------------
holding(h, l) == locked[l] = 1 /\ cpu[l] = h

(* push_off(): intena is what it was at the outermost push_off().           *)
SavedIntena(h) == IF noff[h] = 0 THEN sie[h] ELSE intena[h]

(* acquire(): push_off(), and the test that the hart has not got the lock.  *)
acquire(h, l) ==
  /\ pc[h] = "run"
  /\ \A k \in held[h] : k < l
  /\ intena' = [intena EXCEPT ![h] = SavedIntena(h)]
  /\ noff' = [noff EXCEPT ![h] = @ + 1]
  /\ sie' = [sie EXCEPT ![h] = 0]
  /\ pc' = [pc EXCEPT ![h] = IF holding(h, l) THEN "panic" ELSE "spin"]
  /\ lk' = [lk EXCEPT ![h] = l]
  /\ UNCHANGED <<locked, cpu, intr, held>>

(* Wrong: the lock is read and set in two steps; another hart was first.    *)
swapNotAtomic(h) ==
  /\ pc[h] = "spin"
  /\ locked[lk[h]] = 0 \/ \E g \in Harts \ {h} : lk[g] = lk[h] /\ pc[g] = "record"
  /\ locked' = [locked EXCEPT ![lk[h]] = 1]
  /\ pc' = [pc EXCEPT ![h] = "record"]
  /\ UNCHANGED <<cpu, noff, intena, sie, intr, held, lk>>

(* acquire(): __atomic_exchange_n() finds the lock free.                    *)
swap(h) ==
  /\ pc[h] = "spin"
  /\ locked[lk[h]] = 0
  /\ locked' = [locked EXCEPT ![lk[h]] = 1]
  /\ pc' = [pc EXCEPT ![h] = "record"]
  /\ UNCHANGED <<cpu, noff, intena, sie, intr, held, lk>>

(* acquire(): lk->cpu = mycpu().                                            *)
record(h) ==
  /\ pc[h] = "record"
  /\ cpu' = [cpu EXCEPT ![lk[h]] = h]
  /\ held' = [held EXCEPT ![h] = @ \cup {lk[h]}]
  /\ pc' = [pc EXCEPT ![h] = "run"]
  /\ lk' = [lk EXCEPT ![h] = None]
  /\ UNCHANGED <<locked, noff, intena, sie, intr>>

(* release(): lk->cpu = 0.                                                  *)
ClearedCpu(l) == [cpu EXCEPT ![l] = None]

(* release() of a lock the hart has acquired.                               *)
release(h, l) ==
  /\ pc[h] = "run"
  /\ l \in held[h]
  /\ IF holding(h, l)
       THEN /\ cpu' = ClearedCpu(l)
            /\ held' = [held EXCEPT ![h] = @ \ {l}]
            /\ pc' = [pc EXCEPT ![h] = "store"]
       ELSE pc' = [pc EXCEPT ![h] = "panic"] /\ UNCHANGED <<cpu, held>>
  /\ lk' = [lk EXCEPT ![h] = l]
  /\ UNCHANGED <<locked, noff, intena, sie, intr>>

(* release(): __atomic_store_n().                                           *)
store(h) ==
  /\ pc[h] = "store"
  /\ locked' = [locked EXCEPT ![lk[h]] = 0]
  /\ pc' = [pc EXCEPT ![h] = "pop"]
  /\ lk' = [lk EXCEPT ![h] = None]
  /\ UNCHANGED <<cpu, noff, intena, sie, intr, held>>

(* pop_off(): this undoes the outermost push_off().                         *)
Outermost(h) == noff[h] = 1

(* release(): pop_off().                                                    *)
pop_off(h) ==
  /\ pc[h] = "pop"
  /\ IF sie[h] = 1 \/ noff[h] < 1
       THEN pc' = [pc EXCEPT ![h] = "panic"] /\ UNCHANGED <<noff, sie>>
       ELSE /\ noff' = [noff EXCEPT ![h] = @ - 1]
            /\ sie' = [sie EXCEPT ![h] = IF Outermost(h) THEN intena[h] ELSE 0]
            /\ pc' = [pc EXCEPT ![h] = "run"]
  /\ UNCHANGED <<locked, cpu, intena, intr, held, lk>>

-----------------------------------------------------------------------------
(* An interrupt is taken: the hardware turns interrupts off.                *)
Interrupt(h) ==
  /\ sie[h] = 1 /\ intr[h] = 0 /\ pc[h] = "run"
  /\ intr' = [intr EXCEPT ![h] = 1]
  /\ sie' = [sie EXCEPT ![h] = 0]
  /\ UNCHANGED <<locked, cpu, noff, intena, held, pc, lk>>

(* The handler returns: sret turns them on again.                           *)
InterruptReturn(h) ==
  /\ intr[h] = 1 /\ pc[h] = "run" /\ held[h] = {} /\ noff[h] = 0
  /\ intr' = [intr EXCEPT ![h] = 0]
  /\ sie' = [sie EXCEPT ![h] = 1]
  /\ UNCHANGED <<locked, cpu, noff, intena, held, pc, lk>>

Step(h) == swap(h) \/ record(h) \/ store(h) \/ pop_off(h)

Next ==
  \E h \in Harts :
    \/ \E l \in Locks : acquire(h, l) \/ release(h, l)
    \/ Step(h)
    \/ Interrupt(h) \/ InterruptReturn(h)

Spec == Init /\ [][Next]_vars

-----------------------------------------------------------------------------
(* Two harts never have the same lock: from the swap of acquire() to the    *)
(* store of release() a lock belongs to one hart.                           *)
Owns(h, l) == l \in held[h] \/ (pc[h] \in {"record", "store"} /\ lk[h] = l)
MutualExclusion ==
  \A g, h \in Harts : \A l \in Locks : Owns(g, l) /\ Owns(h, l) => g = h

(* No test of holding() is fooled, neither by a lock another hart is in the *)
(* middle of taking or releasing nor by an interrupt: acquire(), release()  *)
(* and pop_off() do not panic.                                              *)
NoPanic == \A h \in Harts : pc[h] # "panic"

(* push_off() and pop_off() pair up: a hart that has a lock or is inside    *)
(* acquire() or release() takes no interrupts, and one that has released    *)
(* its last lock takes them again unless it is in a handler.                *)
InterruptsMatch ==
  \A h \in Harts :
    sie[h] = 1 <=> intr[h] = 0 /\ held[h] = {} /\ pc[h] = "run"

(* Together: spinlocks do what the rest of the kernel takes for granted.    *)
LocksSound == TypeOK /\ MutualExclusion /\ NoPanic /\ InterruptsMatch
=============================================================================
