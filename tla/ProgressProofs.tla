--------------------------- MODULE ProgressProofs ---------------------------
(***************************************************************************)
(* Processes, the disk and spinlocks are sound for any sizes.              *)
(*                                                                         *)
(* ProcLife.  FamilySound speaks of parents and of sleepers.  The          *)
(* invariant adds what wait_lock protects: from reparent() on a process    *)
(* that exits has no children and gets none, from wakeup() on its parent   *)
(* is awake, and from its scan on a parent that is going to sleep has      *)
(* children but no zombie.  A half-made child belongs to one kfork().      *)
(*                                                                         *)
(* Virtio.  RequestsSound speaks of descriptors and ring entries apart.    *)
(* The invariant ties them: a ring entry is the head of the chain of a     *)
(* request whose b->disk is 1, which info[] leads back to, and it is in    *)
(* one ring, or with the device, and there once.                           *)
(*                                                                         *)
(* Spinlock.  That release() finds holding() true needs lk->cpu to name    *)
(* exactly the hart that has the lock, and that pop_off() turns interrupts *)
(* on at the right moment needs noff to count the locks held, with the one *)
(* that is being taken or given back.                                      *)
(***************************************************************************)
EXTENDS Spinlock, ProcLife, Virtio, TLAPS

-----------------------------------------------------------------------------
(* The hart is inside acquire() or release(): noff is one ahead of held.    *)
Busy(h) == pc[h] \in {"spin", "record", "store", "pop"}

(* The lock of the call is a lock the hart does not have.                   *)
CallsSound ==
  \A h \in Harts : pc[h] \in {"spin", "record", "store"} => lk[h] \in Locks \ held[h]

(* The word locked tells whether some hart owns the lock.                   *)
LockedExact == \A l \in Locks : locked[l] = 1 <=> \E h \in Harts : Owns(h, l)

(* lk->cpu names the hart that has acquired the lock.                       *)
CpuExact == \A l \in Locks, h \in Harts : cpu[l] = h <=> l \in held[h]

(* noff is the number of locks held, and one more inside a call.            *)
NoffExact ==
  \A h \in Harts : noff[h] = Cardinality(held[h]) + (IF Busy(h) THEN 1 ELSE 0)

(* intena is whether the hart took interrupts before its first lock.        *)
IntenaExact == \A h \in Harts : noff[h] > 0 => (intena[h] = 1 <=> intr[h] = 0)

(* The inductive invariant of Spinlock.                                     *)
LockInv ==
  /\ TypeOK /\ MutualExclusion /\ NoPanic /\ InterruptsMatch
  /\ CallsSound /\ LockedExact /\ CpuExact /\ NoffExact /\ IntenaExact

(* A hart holds finitely many locks; one more or one less counts as such.   *)
HeldCounts ==
  \A S \in SUBSET Locks :
    /\ Cardinality(S) \in Nat
    /\ Cardinality(S) = 0 <=> S = {}
    /\ \A l \in Locks : l \notin S => Cardinality(S \cup {l}) = Cardinality(S) + 1
    /\ \A l \in Locks : l \in S => Cardinality(S \ {l}) = Cardinality(S) - 1

-----------------------------------------------------------------------------
(* Init has no lock held and every hart running with interrupts on.         *)
LEMMA LocksStart == HeldCounts /\ Init => LockInv
<1> SUFFICES ASSUME HeldCounts, Init PROVE LockInv
  BY Zenon
<1>1. Cardinality({}) = 0
  BY Zenon DEF HeldCounts
<1>2. TypeOK
  BY SizesAssumption DEF Init, TypeOK, Harts, Locks, None
<1>3. MutualExclusion /\ NoPanic /\ InterruptsMatch /\ CallsSound /\ LockedExact
  BY DEF Init, MutualExclusion, NoPanic, InterruptsMatch, CallsSound, LockedExact, Owns
<1>4. CpuExact
  BY DEF Init, CpuExact, Harts, None
<1>5. NoffExact /\ IntenaExact
  BY <1>1 DEF Init, NoffExact, IntenaExact, Busy
<1> QED BY <1>2, <1>3, <1>4, <1>5, Zenon DEF LockInv

-----------------------------------------------------------------------------
(* acquire() up to the swap; the order in which locks are nested keeps the  *)
(* hart from a lock it has.                                                 *)
LEMMA AcquireInv ==
  ASSUME LockInv, HeldCounts, NEW h \in Harts, NEW l \in Locks, acquire(h, l)
  PROVE  LockInv'
<1> USE DEF LockInv
<1>1. l \notin held[h] /\ pc[h] = "run" /\ ~Busy(h)
  BY DEF acquire, TypeOK, Locks, Busy
<1>2. ~holding(h, l)
  BY <1>1, Zenon DEF holding, CpuExact
<1>3. pc' = [pc EXCEPT ![h] = "spin"]
  BY <1>2, Zenon DEF acquire
<1>4. TypeOK'
  BY <1>3 DEF acquire, TypeOK, SavedIntena
<1>5. MutualExclusion' /\ LockedExact'
  BY <1>1, <1>3, SMTT(30) DEF acquire, MutualExclusion, LockedExact, Owns, TypeOK
<1>6. NoPanic' /\ CallsSound' /\ CpuExact'
  BY <1>1, <1>3 DEF acquire, NoPanic, CallsSound, CpuExact, TypeOK
<1>7. InterruptsMatch'
  BY <1>3 DEF acquire, InterruptsMatch, TypeOK
<1>8. NoffExact'
  BY <1>1, <1>3 DEF acquire, NoffExact, HeldCounts, Busy, TypeOK
<1>9. IntenaExact'
  <2>1. Cardinality(held[h]) \in Nat /\ (Cardinality(held[h]) = 0 <=> held[h] = {})
    BY Zenon DEF HeldCounts, TypeOK
  <2>2. noff[h] = 0 => (sie[h] = 1 <=> intr[h] = 0)
    BY <1>1, <2>1, SMTT(30) DEF NoffExact, InterruptsMatch
  <2>3. intena'[h] = SavedIntena(h) /\ intr' = intr
    BY DEF acquire, TypeOK
  <2>4. intena'[h] = 1 <=> intr[h] = 0
    BY <2>2, <2>3 DEF IntenaExact, SavedIntena, TypeOK
  <2>5. \A g \in Harts : g # h => intena'[g] = intena[g] /\ noff'[g] = noff[g]
    BY Zenon DEF acquire, TypeOK
  <2> QED BY <2>3, <2>4, <2>5, Zenon DEF IntenaExact
<1> QED BY <1>4, <1>5, <1>6, <1>7, <1>8, <1>9, Zenon

(* The atomic exchange finds the lock free, so nobody owns it.              *)
LEMMA SwapInv ==
  ASSUME LockInv, NEW h \in Harts, swap(h)
  PROVE  LockInv'
<1> USE DEF LockInv
<1> DEFINE l == lk[h]
<1>1. l \in Locks /\ l \notin held[h] /\ pc[h] = "spin"
  BY Zenon DEF swap, CallsSound
<1>2. \A g \in Harts : ~Owns(g, l)
  BY <1>1 DEF swap, LockedExact
<1>3. TypeOK' /\ NoPanic' /\ CallsSound' /\ CpuExact'
  <2>1. TypeOK'
    BY <1>1 DEF swap, TypeOK
  <2>2. CpuExact'
    BY Zenon DEF swap, CpuExact
  <2>3. NoPanic'
    BY <1>1 DEF swap, TypeOK, NoPanic
  <2>4. CallsSound'
    BY <1>1 DEF swap, TypeOK, CallsSound
  <2> QED BY <2>1, <2>2, <2>3, <2>4, Zenon
<1>4. \A g \in Harts, k \in Locks : Owns(g, k)' <=> Owns(g, k) \/ (g = h /\ k = l)
  BY <1>1, Zenon DEF swap, Owns, TypeOK
<1>5. MutualExclusion'
  BY <1>2, <1>4 DEF MutualExclusion
<1>6. LockedExact'
  BY <1>1, <1>4, Zenon DEF swap, LockedExact, TypeOK
<1>7. InterruptsMatch' /\ NoffExact' /\ IntenaExact'
  BY <1>1, Zenon DEF swap, InterruptsMatch, NoffExact, IntenaExact, Busy, TypeOK
<1> QED BY <1>3, <1>5, <1>6, <1>7, Zenon

LEMMA RecordInv ==
  ASSUME LockInv, HeldCounts, NEW h \in Harts, record(h)
  PROVE  LockInv'
<1> USE DEF LockInv
<1> DEFINE l == lk[h]
<1>1. l \in Locks /\ l \notin held[h] /\ pc[h] = "record" /\ Owns(h, l)
  BY Zenon DEF record, CallsSound, Owns
<1>2. \A g \in Harts, k \in Locks : Owns(g, k)' <=> Owns(g, k)
  BY <1>1, Zenon DEF record, Owns, TypeOK
<1>3. MutualExclusion' /\ LockedExact'
  BY <1>2, Zenon DEF record, MutualExclusion, LockedExact
<1>4. TypeOK' /\ NoPanic' /\ CallsSound'
  BY <1>1, Zenon DEF record, TypeOK, NoPanic, CallsSound
<1>5. CpuExact'
  <2>1. \A g \in Harts : l \in held[g] => g = h
    BY <1>1, Zenon DEF MutualExclusion, Owns
  <2>2. /\ cpu'[l] = h /\ \A k \in Locks : k # l => cpu'[k] = cpu[k]
        /\ held'[h] = held[h] \cup {l} /\ \A g \in Harts : g # h => held'[g] = held[g]
    BY <1>1, Zenon DEF record, TypeOK
  <2>3. ASSUME NEW k \in Locks, NEW g \in Harts PROVE cpu'[k] = g <=> k \in held'[g]
    <3>1. cpu[k] = g <=> k \in held[g]
      BY Zenon DEF CpuExact
    <3>2. CASE k = l
      BY <2>1, <2>2, <3>2
    <3>3. CASE k # l
      BY <2>2, <3>1, <3>3
    <3> QED BY <3>2, <3>3, Zenon
  <2> QED BY <2>3, Zenon DEF CpuExact
<1>6. InterruptsMatch'
  BY <1>1, Zenon DEF record, InterruptsMatch, TypeOK
<1>7. Cardinality(held[h] \cup {l}) = Cardinality(held[h]) + 1 /\ Cardinality(held[h]) \in Nat
  BY <1>1, Zenon DEF HeldCounts, TypeOK
<1>8. NoffExact' /\ IntenaExact'
  <2>1. IntenaExact'
    BY Zenon DEF record, IntenaExact
  <2>2. /\ Busy(h) /\ ~Busy(h)' /\ held'[h] = held[h] \cup {l} /\ noff' = noff
        /\ \A g \in Harts : g # h => held'[g] = held[g] /\ (Busy(g)' <=> Busy(g))
    BY <1>1, Zenon DEF record, Busy, TypeOK
  <2>3. noff'[h] = Cardinality(held'[h])
    BY <1>7, <2>2 DEF NoffExact
  <2>4. noff'[h] = Cardinality(held'[h]) + (IF Busy(h)' THEN 1 ELSE 0)
    BY <1>7, <2>2, <2>3
  <2>5. \A g \in Harts : g # h => noff'[g] = Cardinality(held'[g]) + (IF Busy(g)' THEN 1 ELSE 0)
    BY <2>2, Zenon DEF NoffExact
  <2> QED BY <2>1, <2>4, <2>5, Zenon DEF NoffExact
<1> QED BY <1>3, <1>4, <1>5, <1>6, <1>8, Zenon

-----------------------------------------------------------------------------
(* release() finds its own hart in lk->cpu.                                 *)
LEMMA ReleaseInv ==
  ASSUME LockInv, HeldCounts, NEW h \in Harts, NEW l \in Locks, release(h, l)
  PROVE  LockInv'
<1> USE DEF LockInv
<1>1. l \in held[h] /\ pc[h] = "run" /\ Owns(h, l)
  BY Zenon DEF release, Owns
<1>2. holding(h, l)
  BY <1>1, Zenon DEF holding, CpuExact, LockedExact
<1>3. /\ cpu' = [cpu EXCEPT ![l] = None] /\ held' = [held EXCEPT ![h] = @ \ {l}]
      /\ pc' = [pc EXCEPT ![h] = "store"] /\ lk' = [lk EXCEPT ![h] = l]
      /\ UNCHANGED <<locked, noff, intena, sie, intr>>
  BY <1>2, Zenon DEF release, ClearedCpu
<1>4. \A g \in Harts, k \in Locks : Owns(g, k)' <=> Owns(g, k)
  BY <1>1, <1>3, Zenon DEF Owns, TypeOK
<1>5. MutualExclusion' /\ LockedExact'
  BY <1>3, <1>4, Zenon DEF MutualExclusion, LockedExact
<1>6. TypeOK' /\ NoPanic' /\ CallsSound'
  BY <1>1, <1>3, Zenon DEF TypeOK, NoPanic, CallsSound
<1>7. CpuExact'
  BY <1>1, <1>3 DEF CpuExact, MutualExclusion, Owns, TypeOK, Harts, None
<1>8. InterruptsMatch'
  BY <1>1, <1>3, Zenon DEF InterruptsMatch, TypeOK
<1>9. Cardinality(held[h] \ {l}) = Cardinality(held[h]) - 1 /\ Cardinality(held[h]) \in Nat
  BY <1>1, Zenon DEF HeldCounts, TypeOK
<1>10. NoffExact' /\ IntenaExact'
  BY <1>1, <1>3, <1>9 DEF NoffExact, IntenaExact, Busy, TypeOK
<1> QED BY <1>5, <1>6, <1>7, <1>8, <1>10, Zenon

(* The store gives the lock up.                                             *)
LEMMA StoreInv ==
  ASSUME LockInv, NEW h \in Harts, store(h)
  PROVE  LockInv'
<1> USE DEF LockInv
<1> DEFINE l == lk[h]
<1>1. l \in Locks /\ l \notin held[h] /\ pc[h] = "store" /\ Owns(h, l)
  BY Zenon DEF store, CallsSound, Owns
<1>2. \A g \in Harts, k \in Locks : Owns(g, k)' <=> Owns(g, k) /\ ~(g = h /\ k = l)
  BY <1>1, Zenon DEF store, Owns, TypeOK
<1>3. \A g \in Harts : Owns(g, l) => g = h
  BY <1>1, Zenon DEF MutualExclusion
<1>4. MutualExclusion'
  BY <1>2, Zenon DEF MutualExclusion
<1>5. LockedExact'
  BY <1>1, <1>2, <1>3 DEF store, LockedExact, TypeOK
<1>6. TypeOK' /\ NoPanic' /\ CallsSound' /\ CpuExact'
  <2>1. TypeOK'
    BY <1>1 DEF store, TypeOK
  <2>2. CpuExact'
    BY Zenon DEF store, CpuExact
  <2>3. NoPanic'
    BY <1>1 DEF store, TypeOK, NoPanic
  <2>4. CallsSound'
    BY <1>1 DEF store, TypeOK, CallsSound
  <2> QED BY <2>1, <2>2, <2>3, <2>4, Zenon
<1>7. InterruptsMatch' /\ NoffExact' /\ IntenaExact'
  BY <1>1, Zenon DEF store, InterruptsMatch, NoffExact, IntenaExact, Busy, TypeOK
<1> QED BY <1>4, <1>5, <1>6, <1>7, Zenon

(* pop_off() of the last lock turns interrupts on unless in a handler.      *)
LEMMA PopInv ==
  ASSUME LockInv, HeldCounts, NEW h \in Harts, pop_off(h)
  PROVE  LockInv'
<1> USE DEF LockInv
<1>1. pc[h] = "pop" /\ Busy(h) /\ sie[h] = 0
  BY DEF pop_off, Busy, InterruptsMatch, TypeOK
<1>2. Cardinality(held[h]) \in Nat /\ (Cardinality(held[h]) = 0 <=> held[h] = {})
  BY Zenon DEF HeldCounts, TypeOK
<1>3. noff[h] = Cardinality(held[h]) + 1
  BY <1>1, Zenon DEF NoffExact
<1>4. /\ noff' = [noff EXCEPT ![h] = @ - 1]
      /\ sie' = [sie EXCEPT ![h] = IF noff[h] = 1 THEN intena[h] ELSE 0]
      /\ pc' = [pc EXCEPT ![h] = "run"]
      /\ UNCHANGED <<locked, cpu, intena, intr, held, lk>>
  BY <1>1, <1>2, <1>3, SMTT(30) DEF pop_off, Outermost
<1>5. TypeOK' /\ NoPanic' /\ CallsSound' /\ CpuExact'
  <2>1. TypeOK'
    BY <1>2, <1>3, <1>4 DEF TypeOK
  <2>2. CpuExact'
    BY <1>4, Zenon DEF CpuExact
  <2>3. NoPanic'
    BY <1>4 DEF TypeOK, NoPanic
  <2>4. CallsSound'
    BY <1>4 DEF TypeOK, CallsSound
  <2> QED BY <2>1, <2>2, <2>3, <2>4, Zenon
<1>6. MutualExclusion' /\ LockedExact'
  <2>1. \A g \in Harts, k \in Locks : Owns(g, k)' <=> Owns(g, k)
    BY <1>1, <1>4 DEF Owns, TypeOK
  <2> QED BY <1>4, <2>1, Zenon DEF MutualExclusion, LockedExact
<1>7. NoffExact' /\ IntenaExact'
  <2>1. /\ noff'[h] = Cardinality(held[h]) /\ ~Busy(h)'
        /\ \A g \in Harts : g # h => noff'[g] = noff[g] /\ (Busy(g)' <=> Busy(g))
    BY <1>2, <1>3, <1>4 DEF Busy, TypeOK
  <2>2. noff'[h] > 0 => noff[h] > 0
    BY <1>2, <1>3, <2>1, SMTT(30)
  <2>3. IntenaExact'
    BY <1>4, <2>1, <2>2, Zenon DEF IntenaExact
  <2>4. noff'[h] = Cardinality(held[h]) + (IF Busy(h)' THEN 1 ELSE 0)
    BY <1>2, <2>1
  <2>5. NoffExact'
    BY <1>4, <2>1, <2>4, Zenon DEF NoffExact
  <2> QED BY <2>3, <2>5, Zenon
<1>8. InterruptsMatch'
  BY <1>1, <1>2, <1>3, <1>4 DEF InterruptsMatch, IntenaExact, TypeOK
<1> QED BY <1>5, <1>6, <1>7, <1>8, Zenon

(* Interrupts come and go only while the hart has no lock.                  *)
LEMMA InterruptInv ==
  ASSUME LockInv, HeldCounts, NEW h \in Harts, Interrupt(h) \/ InterruptReturn(h)
  PROVE  LockInv'
<1> USE DEF LockInv
<1>1. pc[h] = "run" /\ held[h] = {} /\ noff[h] = 0
  <2>1. CASE Interrupt(h)
    <3>1. pc[h] = "run" /\ held[h] = {} /\ ~Busy(h)
      BY <2>1, Zenon DEF Interrupt, InterruptsMatch, Busy
    <3>2. Cardinality({}) = 0
      BY Zenon DEF HeldCounts
    <3> QED BY <3>1, <3>2, SMTT(30) DEF NoffExact
  <2>2. CASE InterruptReturn(h)
    BY <2>2, Zenon DEF InterruptReturn
  <2> QED BY <2>1, <2>2, Zenon
<1>2. UNCHANGED <<locked, cpu, noff, intena, held, pc, lk>>
  BY Zenon DEF Interrupt, InterruptReturn
<1>3. TypeOK'
  BY <1>2 DEF Interrupt, InterruptReturn, TypeOK
<1>4. MutualExclusion' /\ NoPanic' /\ CallsSound' /\ LockedExact' /\ CpuExact' /\ NoffExact'
  <2>1. NoPanic' /\ CallsSound' /\ CpuExact'
    BY <1>2 DEF NoPanic, CallsSound, CpuExact
  <2>2. MutualExclusion' /\ LockedExact' /\ NoffExact'
    BY <1>2, SMTT(30) DEF MutualExclusion, LockedExact, NoffExact, Owns, Busy
  <2> QED BY <2>1, <2>2, Zenon
<1>5. InterruptsMatch'
  BY <1>1, <1>2 DEF Interrupt, InterruptReturn, InterruptsMatch, TypeOK
<1>6. IntenaExact'
  BY <1>1, <1>2 DEF Interrupt, InterruptReturn, IntenaExact, TypeOK
<1> QED BY <1>3, <1>4, <1>5, <1>6, Zenon

(* Every step keeps the invariant.                                          *)
LEMMA LocksStep == HeldCounts /\ LockInv /\ [Next]_vars => LockInv'
<1> SUFFICES ASSUME HeldCounts, LockInv, [Next]_vars PROVE LockInv'
  BY Zenon
<1>1. CASE Next
  BY <1>1, AcquireInv, SwapInv, RecordInv, ReleaseInv, StoreInv, PopInv, InterruptInv, Zenon
     DEF Next, Step
<1>2. CASE UNCHANGED vars
  <2>1. UNCHANGED <<locked, cpu, noff, intena, sie, intr, held, pc, lk>>
    BY <1>2, Zenon DEF vars
  <2>2. TypeOK' /\ NoPanic' /\ CallsSound' /\ CpuExact'
    BY <2>1, Zenon DEF LockInv, TypeOK, NoPanic, CallsSound, CpuExact
  <2>3. InterruptsMatch' /\ IntenaExact'
    BY <2>1, Zenon DEF LockInv, InterruptsMatch, IntenaExact
  <2>4. MutualExclusion' /\ LockedExact'
    <3>1. \A h \in Harts, l \in Locks : Owns(h, l)' <=> Owns(h, l)
      BY <2>1, Zenon DEF Owns
    <3> QED BY <2>1, <3>1, Zenon DEF LockInv, MutualExclusion, LockedExact
  <2>5. NoffExact'
    BY <2>1, Zenon DEF LockInv, NoffExact, Busy
  <2> QED BY <2>2, <2>3, <2>4, <2>5, Zenon DEF LockInv
<1> QED BY <1>1, <1>2, Zenon

-----------------------------------------------------------------------------
Alive(p) == state[p] \in {"RUNNABLE", "SLEEPING"}
Forking(p) == kpc[p] \in {"fork", "ready"}

(* Who runs where, and who has wait_lock.                                   *)
PlaceSound(p) ==
  /\ Alive(p) <=> kpc[p] # "dead"
  /\ state[p] = "SLEEPING" => kpc[p] = "wait"
  /\ kpc[p] \in {"reparent", "wakeup", "zombie", "scan", "sleep"} <=> holder = p

InitLives ==
  Alive(initproc) /\ kpc[initproc] \notin {"exit", "reparent", "wakeup", "zombie"}

(* The child that kfork() makes.                                            *)
ForkSound(p) ==
  Forking(p) => /\ child[p] \in Slot /\ state[child[p]] = "USED"
                /\ parent[child[p]] = IF kpc[p] = "ready" THEN p ELSE NoProc
                /\ \A q \in Slot : Forking(q) /\ child[q] = child[p] => q = p

(* The parent of an entry.                                                  *)
ParentSound(q) ==
  /\ parent[q] # NoProc => Alive(parent[q]) /\ kpc[parent[q]] \notin {"wakeup", "zombie"}
  /\ state[q] = "UNUSED" => parent[q] = NoProc
  /\ (Alive(q) \/ state[q] = "ZOMBIE") /\ q # initproc => parent[q] # NoProc
  /\ kpc[q] = "zombie" => state[parent[q]] # "SLEEPING"

(* What a parent that sleeps, or is about to, has to wait for.              *)
SleepSound(p) ==
  state[p] = "SLEEPING" \/ kpc[p] = "sleep" => Children(p) # {} /\ Zombies(p) = {}

(* The inductive invariant of ProcLife.                                     *)
ProcInv ==
  /\ ProcTypeOK /\ InitLives
  /\ \A p \in Slot : PlaceSound(p) /\ ForkSound(p) /\ ParentSound(p) /\ SleepSound(p)

-----------------------------------------------------------------------------
(* The slots of proc[], and what stands for none.                           *)
LEMMA SlotFacts == NoProc \notin Slot /\ initproc \in Slot
BY ProcAssumption DEF NoProc, Slot, initproc

(* The lock is held by one process.                                         *)
LEMMA HolderAlone ==
  ASSUME ProcInv, NEW p \in Slot, holder \in {p, NoProc}, NEW q \in Slot, q # p
  PROVE  kpc[q] \notin {"reparent", "wakeup", "zombie", "scan", "sleep"}
BY SlotFacts DEF ProcInv, PlaceSound

(* It holds at the start.                                                   *)
LEMMA ProcStarts == ProcInit => ProcInv
<1> SUFFICES ASSUME ProcInit PROVE ProcInv
  OBVIOUS
<1>1. ProcTypeOK
  BY ProcAssumption, SlotFacts DEF ProcInit, ProcTypeOK, Pc
<1>2. InitLives
  BY SlotFacts DEF ProcInit, InitLives, Alive
<1>3. ASSUME NEW p \in Slot PROVE PlaceSound(p) /\ ForkSound(p) /\ ParentSound(p) /\ SleepSound(p)
  <2>1. PlaceSound(p) /\ ForkSound(p)
    BY SlotFacts DEF ProcInit, PlaceSound, ForkSound, Alive, Forking
  <2>2. ParentSound(p) /\ SleepSound(p)
    BY SlotFacts DEF ProcInit, ParentSound, SleepSound, Alive
  <2> QED BY <2>1, <2>2
<1> QED BY <1>1, <1>2, <1>3 DEF ProcInv

-----------------------------------------------------------------------------
(* kfork().                                                                 *)

LEMMA ForkAllocInv ==
  ASSUME ProcInv, NEW p \in Slot, NEW np \in Slot, ForkAlloc(p, np)
  PROVE  ProcInv'
<1>1. ProcTypeOK /\ InitLives /\ PlaceSound(p) /\ PlaceSound(np) /\ ParentSound(np)
  BY Zenon DEF ProcInv
<1>2. /\ state' = [state EXCEPT ![np] = "USED"] /\ kpc' = [kpc EXCEPT ![p] = "fork"]
      /\ child' = [child EXCEPT ![p] = np] /\ UNCHANGED <<parent, holder>>
      /\ p # np /\ state[np] = "UNUSED" /\ kpc[np] = "dead" /\ parent[np] = NoProc
      /\ state[p] = "RUNNABLE" /\ kpc[p] = "user"
  BY <1>1 DEF ForkAlloc, At, Goto, PlaceSound, ParentSound, Alive
<1>3. ProcTypeOK'
  BY ProcAssumption, <1>1, <1>2 DEF ForkAlloc, ProcTypeOK, Pc
<1>4. InitLives'
  BY <1>1, <1>2, SlotFacts, Zenon DEF ProcTypeOK, InitLives, Alive
<1>5. ASSUME NEW q \in Slot PROVE PlaceSound(q)' /\ ForkSound(q)' /\ ParentSound(q)' /\ SleepSound(q)'
  <2>1. PlaceSound(q)'
    BY <1>1, <1>2, Zenon DEF ProcInv, ProcTypeOK, PlaceSound, Alive
  <2>2. ForkSound(q)'
    BY <1>1, <1>2 DEF ProcInv, ProcTypeOK, ForkSound, Forking
  <2>3. ParentSound(q)'
    BY <1>1, <1>2 DEF ProcInv, ProcTypeOK, ParentSound, Alive
  <2>4. SleepSound(q)'
    BY <1>1, <1>2, Zenon DEF ProcInv, ProcTypeOK, SleepSound, Children, Zombies
  <2> QED BY <2>1, <2>2, <2>3, <2>4, Zenon
<1> QED BY <1>3, <1>4, <1>5, Zenon DEF ProcInv

LEMMA ForkParentInv ==
  ASSUME ProcInv, NEW p \in Slot, ForkParent(p)
  PROVE  ProcInv'
<1>1. ProcTypeOK /\ InitLives /\ PlaceSound(p) /\ ForkSound(p)
  BY DEF ProcInv
<1>2. PICK np \in Slot : np = child[p]
  BY <1>1, Zenon DEF ForkParent, At, ForkSound, Forking
<1>3. /\ parent' = [parent EXCEPT ![np] = p] /\ kpc' = [kpc EXCEPT ![p] = "ready"]
      /\ UNCHANGED <<state, child, holder>> /\ p # np
      /\ state[np] = "USED" /\ parent[np] = NoProc
      /\ state[p] = "RUNNABLE" /\ kpc[p] = "fork"
  BY <1>1, <1>2, Zenon DEF ForkParent, At, Goto, ForkSound, Forking
<1>4. ProcTypeOK'
  BY <1>1, <1>2 DEF ForkParent, Goto, ProcTypeOK, Pc
<1>5. InitLives'
  BY <1>1, <1>3, SlotFacts, Zenon DEF ProcTypeOK, InitLives, Alive
<1>6. ASSUME NEW q \in Slot PROVE PlaceSound(q)' /\ ForkSound(q)' /\ ParentSound(q)' /\ SleepSound(q)'
  <2>1. PlaceSound(q)'
    BY <1>1, <1>3, Zenon DEF ProcInv, ProcTypeOK, PlaceSound, Alive
  <2>2. ForkSound(q)'
    BY <1>1, <1>2, <1>3 DEF ProcInv, ProcTypeOK, ForkSound, Forking
  <2>3. ParentSound(q)'
    BY <1>1, <1>3, SlotFacts DEF ProcInv, ProcTypeOK, ParentSound, Alive
  <2>4. SleepSound(q)'
    BY <1>1, <1>3, SlotFacts DEF ProcInv, ProcTypeOK, SleepSound, Children, Zombies
  <2> QED BY <2>1, <2>2, <2>3, <2>4, Zenon
<1> QED BY <1>4, <1>5, <1>6 DEF ProcInv

LEMMA ForkReadyInv ==
  ASSUME ProcInv, NEW p \in Slot, ForkReady(p)
  PROVE  ProcInv'
<1>1. ProcTypeOK /\ InitLives /\ PlaceSound(p) /\ ForkSound(p)
  BY DEF ProcInv
<1>2. PICK np \in Slot : np = child[p]
  BY <1>1, Zenon DEF ForkReady, At, ForkSound, Forking
<1>3. /\ state' = [state EXCEPT ![np] = "RUNNABLE"]
      /\ kpc' = [kpc EXCEPT ![p] = "user", ![np] = "user"]
      /\ child' = [child EXCEPT ![p] = NoProc]
      /\ UNCHANGED <<parent, holder>> /\ p # np
      /\ state[np] = "USED" /\ parent[np] = p
      /\ state[p] = "RUNNABLE" /\ kpc[p] = "ready"
  BY <1>1, <1>2, Zenon DEF ForkReady, At, ForkSound, Forking
<1>4. kpc[np] = "dead" /\ \A q \in Slot : Forking(q) /\ child[q] = np => q = p
  BY <1>1, <1>2, <1>3, Zenon DEF ProcInv, PlaceSound, ForkSound, Forking, Alive
<1>5. ProcTypeOK'
  BY <1>1, <1>2, Zenon DEF ForkReady, ProcTypeOK, Pc
<1>6. InitLives'
  BY <1>1, <1>3, SlotFacts, Zenon DEF ProcTypeOK, InitLives, Alive
<1>7. ASSUME NEW q \in Slot PROVE PlaceSound(q)' /\ ForkSound(q)' /\ ParentSound(q)' /\ SleepSound(q)'
  <2>1. PlaceSound(q)'
    BY <1>1, <1>3, <1>4, Zenon DEF ProcInv, ProcTypeOK, PlaceSound, Alive
  <2>2. ForkSound(q)'
    BY <1>1, <1>3, <1>4 DEF ProcInv, ProcTypeOK, ForkSound, Forking
  <2>3. ParentSound(q)'
    BY <1>1, <1>3, <1>4, SlotFacts DEF ProcInv, ProcTypeOK, ParentSound, Alive
  <2>4. SleepSound(q)'
    BY <1>1, <1>3, <1>4 DEF ProcInv, ProcTypeOK, SleepSound, Children, Zombies
  <2> QED BY <2>1, <2>2, <2>3, <2>4, Zenon
<1> QED BY <1>5, <1>6, <1>7 DEF ProcInv

-----------------------------------------------------------------------------
(* The steps of one process that change neither the tree nor any state.     *)

LEMMA PcInv ==
  ASSUME ProcInv, NEW p \in Slot, At(p, kpc[p]), NEW to,
         Goto(p, to), UNCHANGED <<state, parent, child>>, ProcTypeOK',
         to \in {"user", "exit", "wait", "scan", "sleep", "reparent"},
         kpc[p] \in {"user", "exit", "wait", "scan"},
         to \in {"exit", "reparent"} => p # initproc,
         to = "sleep" => Children(p) # {} /\ Zombies(p) = {},
         IF to \in {"reparent", "scan", "sleep"} THEN holder' = p /\ holder \in {p, NoProc}
         ELSE holder' = IF holder = p THEN NoProc ELSE holder
  PROVE  ProcInv'
<1>1. ProcTypeOK /\ InitLives /\ PlaceSound(p) /\ p # NoProc
  BY SlotFacts, Zenon DEF ProcInv
<1>2. InitLives'
  BY <1>1, SlotFacts, Zenon DEF ProcTypeOK, InitLives, Alive, Goto
<1>3. ASSUME NEW q \in Slot PROVE PlaceSound(q)' /\ ForkSound(q)' /\ ParentSound(q)' /\ SleepSound(q)'
  <2>1. PlaceSound(q)'
    BY <1>1, SlotFacts DEF ProcInv, ProcTypeOK, PlaceSound, Alive, At, Goto
  <2>2. ForkSound(q)'
    BY <1>1, Zenon DEF ProcInv, ProcTypeOK, ForkSound, Forking, Goto
  <2>3. ParentSound(q)'
    BY <1>1, SMTT(30) DEF ProcInv, ProcTypeOK, ParentSound, Alive, Goto
  <2>4. SleepSound(q)'
    BY <1>1 DEF ProcInv, ProcTypeOK, SleepSound, Children, Zombies, Goto, At
  <2> QED BY <2>1, <2>2, <2>3, <2>4, Zenon
<1> QED BY <1>2, <1>3, Zenon DEF ProcInv

LEMMA ExitInv ==
  ASSUME ProcInv, NEW p \in Slot, Exit(p) \/ ExitLock(p)
  PROVE  ProcInv'
<1>1. ProcTypeOK /\ PlaceSound(p) /\ p # NoProc /\ InitLives
  BY SlotFacts, Zenon DEF ProcInv
<1>2. CASE Exit(p)
  <2>1. ProcTypeOK'
    BY <1>1, <1>2, Zenon DEF ProcTypeOK, Exit, Goto, Pc
  <2> QED BY <1>1, <1>2, <2>1, PcInv, Zenon DEF Exit, At, PlaceSound
<1>3. CASE ExitLock(p)
  <2>1. ProcTypeOK'
    BY <1>1, <1>3, Zenon DEF ProcTypeOK, ExitLock, Goto, Pc
  <2> QED BY <1>1, <1>3, <2>1, PcInv, Zenon DEF ExitLock, At, InitLives
<1> QED BY <1>2, <1>3

LEMMA WaitInv ==
  ASSUME ProcInv, NEW p \in Slot, Wait(p) \/ WaitLock(p) \/ WaitFail(p) \/ WaitDecide(p)
  PROVE  ProcInv'
<1>1. ProcTypeOK /\ PlaceSound(p) /\ p # NoProc
  BY SlotFacts, Zenon DEF ProcInv
<1>2. CASE Wait(p)
  <2>1. ProcTypeOK'
    BY <1>1, <1>2, Zenon DEF ProcTypeOK, Wait, Goto, Pc
  <2> QED BY <1>1, <1>2, <2>1, PcInv, Zenon DEF Wait, At, PlaceSound
<1>3. CASE WaitLock(p)
  <2>1. ProcTypeOK'
    BY <1>1, <1>3, Zenon DEF ProcTypeOK, WaitLock, Goto, Pc
  <2> QED BY <1>1, <1>3, <2>1, PcInv, Zenon DEF WaitLock, At
<1>4. CASE WaitFail(p)
  <2>1. ProcTypeOK'
    BY <1>1, <1>4, Zenon DEF ProcTypeOK, WaitFail, Goto, Pc
  <2> QED BY <1>1, <1>4, <2>1, PcInv, Zenon DEF WaitFail, At, PlaceSound
<1>5. CASE WaitDecide(p)
  <2>1. ProcTypeOK'
    BY <1>1, <1>5 DEF ProcTypeOK, WaitDecide, Goto, Pc
  <2> QED BY <1>1, <1>5, <2>1, PcInv, Zenon DEF WaitDecide, At, PlaceSound
<1> QED BY <1>2, <1>3, <1>4, <1>5

-----------------------------------------------------------------------------
(* kexit() under wait_lock.                                                 *)

LEMMA WakeParentFacts ==
  ASSUME ProcTypeOK, NoProc \notin Slot, NEW p \in Slot \cup {NoProc}
  PROVE  /\ WakeParent(state, p) \in [Slot -> {"UNUSED", "USED", "SLEEPING", "RUNNABLE", "ZOMBIE"}]
         /\ \A q \in Slot :
              \/ WakeParent(state, p)[q] = state[q] /\ (q = p => state[q] # "SLEEPING")
              \/ q = p /\ state[q] = "SLEEPING" /\ WakeParent(state, p)[q] = "RUNNABLE"
BY Zenon DEF ProcTypeOK, WakeParent

LEMMA ReparentInv ==
  ASSUME ProcInv, NEW p \in Slot, Reparent(p)
  PROVE  ProcInv'
<1>1. ProcTypeOK /\ InitLives /\ PlaceSound(p) /\ p # NoProc /\ initproc \in Slot /\ NoProc \notin Slot
  BY SlotFacts, Zenon DEF ProcInv
<1>2. /\ parent' = [q \in Slot |-> IF parent[q] = p THEN initproc ELSE parent[q]]
      /\ kpc' = [kpc EXCEPT ![p] = "wakeup"] /\ UNCHANGED <<child, holder>>
      /\ state[p] = "RUNNABLE" /\ kpc[p] = "reparent" /\ holder = p /\ p # initproc
  BY <1>1, Zenon DEF Reparent, At, Goto, PlaceSound, InitLives
<1>3. \A q \in Slot :
        \/ state'[q] = state[q]
        \/ q = initproc /\ state[q] = "SLEEPING" /\ state'[q] = "RUNNABLE"
  BY <1>1, WakeParentFacts DEF Reparent
<1>4. (\E q \in Slot : parent[q] = p) => state'[initproc] # "SLEEPING"
  BY <1>1, WakeParentFacts DEF Reparent
<1>5. ProcTypeOK'
  BY <1>1, <1>2, WakeParentFacts DEF Reparent, ProcTypeOK, Pc
<1>6. InitLives'
  BY <1>1, <1>2, <1>3, Zenon DEF ProcTypeOK, InitLives, Alive
<1>7. ASSUME NEW q \in Slot PROVE PlaceSound(q)' /\ ForkSound(q)' /\ ParentSound(q)' /\ SleepSound(q)'
  <2>1. PlaceSound(q)'
    BY <1>1, <1>2, <1>3, Zenon DEF ProcInv, ProcTypeOK, PlaceSound, Alive
  <2>2. ForkSound(q)'
    BY <1>1, <1>2, <1>3, SMTT(30) DEF ProcInv, ProcTypeOK, ForkSound, Forking
  <2>3. ParentSound(q)'
    <3>1. q # p => kpc[q] # "zombie"
      BY <1>2, HolderAlone, Zenon
    <3>2. ParentSound(q) /\ ParentSound(p)
      BY Zenon DEF ProcInv
    <3> QED BY <1>1, <1>2, <1>3, <3>1, <3>2, Zenon DEF ProcTypeOK, InitLives, ParentSound, Alive
  <2>4. SleepSound(q)'
    <3> SUFFICES ASSUME state'[q] = "SLEEPING" \/ kpc'[q] = "sleep"
                 PROVE  Children(q)' # {} /\ Zombies(q)' = {}
      BY Zenon DEF SleepSound
    <3>1. q # p /\ state[q] = "SLEEPING"
      BY <1>1, <1>2, <1>3, HolderAlone, Zenon DEF ProcTypeOK
    <3>2. Children(q)' = Children(q)
      BY <1>1, <1>2, <1>3, <1>4, <3>1, HolderAlone, Zenon DEF ProcTypeOK, Children
    <3>3. Zombies(q)' \subseteq Zombies(q)
      BY <1>1, <1>3, <3>2, Zenon DEF ProcTypeOK, Zombies, Children
    <3> QED BY <3>1, <3>2, <3>3, Zenon DEF ProcInv, SleepSound
  <2> QED BY <2>1, <2>2, <2>3, <2>4, Zenon
<1> QED BY <1>5, <1>6, <1>7, Zenon DEF ProcInv

LEMMA ExitWakeupInv ==
  ASSUME ProcInv, NEW p \in Slot, ExitWakeup(p)
  PROVE  ProcInv'
<1>1. ProcTypeOK /\ InitLives /\ PlaceSound(p) /\ ParentSound(p) /\ initproc \in Slot /\ NoProc \notin Slot
  BY SlotFacts, Zenon DEF ProcInv
<1>2. /\ state' = WakeParent(state, parent[p]) /\ kpc' = [kpc EXCEPT ![p] = "zombie"]
      /\ UNCHANGED <<parent, child, holder>>
      /\ state[p] = "RUNNABLE" /\ kpc[p] = "wakeup" /\ holder = p /\ p # initproc
  BY <1>1, Zenon DEF ExitWakeup, At, Goto, PlaceSound, InitLives
<1>3. parent[p] \in Slot /\ parent[p] # p
  BY <1>1, <1>2, Zenon DEF ParentSound, ProcTypeOK, Alive
<1>4. \A q \in Slot :
        \/ state'[q] = state[q] /\ (q = parent[p] => state[q] # "SLEEPING")
        \/ q = parent[p] /\ state[q] = "SLEEPING" /\ state'[q] = "RUNNABLE"
  BY <1>1, <1>2, <1>3, WakeParentFacts
<1>5. ProcTypeOK'
  BY <1>1, <1>2, <1>3, WakeParentFacts DEF ExitWakeup, ProcTypeOK, Pc
<1>6. InitLives'
  BY <1>1, <1>2, <1>4, Zenon DEF ProcTypeOK, InitLives, Alive
<1>7. ASSUME NEW q \in Slot PROVE PlaceSound(q)' /\ ForkSound(q)' /\ ParentSound(q)' /\ SleepSound(q)'
  <2>1. PlaceSound(q)'
    BY <1>1, <1>2, <1>4, Zenon DEF ProcInv, ProcTypeOK, PlaceSound, Alive
  <2>2. ForkSound(q)'
    BY <1>1, <1>2, <1>4 DEF ProcInv, ProcTypeOK, ForkSound, Forking
  <2>3. ParentSound(q)'
    <3>1. q # p => kpc[q] # "zombie"
      BY <1>2, HolderAlone, Zenon
    <3>2. ParentSound(q)
      BY Zenon DEF ProcInv
    <3> QED BY <1>1, <1>2, <1>3, <1>4, <3>1, <3>2, Zenon DEF ProcTypeOK, ParentSound, Alive
  <2>4. SleepSound(q)'
    <3>1. SleepSound(q)
      BY Zenon DEF ProcInv
    <3>2. Children(q)' = Children(q) /\ Zombies(q)' = Zombies(q)
      BY <1>1, <1>2, <1>4, Zenon DEF ProcTypeOK, Zombies, Children
    <3> QED BY <1>1, <1>2, <1>4, <3>1, <3>2, Zenon DEF ProcTypeOK, SleepSound
  <2> QED BY <2>1, <2>2, <2>3, <2>4, Zenon
<1> QED BY <1>5, <1>6, <1>7 DEF ProcInv

LEMMA ExitZombieInv ==
  ASSUME ProcInv, NEW p \in Slot, ExitZombie(p)
  PROVE  ProcInv'
<1>1. ProcTypeOK /\ InitLives /\ PlaceSound(p) /\ ParentSound(p) /\ initproc \in Slot /\ NoProc \notin Slot
  BY SlotFacts DEF ProcInv
<1>2. /\ state' = [state EXCEPT ![p] = "ZOMBIE"] /\ kpc' = [kpc EXCEPT ![p] = "dead"]
      /\ holder' = NoProc /\ UNCHANGED <<parent, child>>
      /\ state[p] = "RUNNABLE" /\ kpc[p] = "zombie" /\ holder = p /\ p # initproc
  BY <1>1, Zenon DEF ExitZombie, At, Goto, PlaceSound, InitLives
<1>3. \A q \in Slot : parent[q] # p
  <2>1. \A q \in Slot : ParentSound(q)
    BY Zenon DEF ProcInv
  <2>2. kpc[p] \in {"wakeup", "zombie"} /\ p # NoProc
    BY <1>1, <1>2, Zenon
  <2> QED BY <2>1, <2>2, Zenon DEF ParentSound
<1>4. parent[p] \in Slot /\ state[parent[p]] # "SLEEPING"
  BY <1>1, <1>2, Zenon DEF ParentSound, ProcTypeOK, Alive
<1>5. ProcTypeOK'
  BY <1>1, <1>2, Zenon DEF ExitZombie, ProcTypeOK, Pc
<1>6. InitLives'
  BY <1>1, <1>2, Zenon DEF ProcTypeOK, InitLives, Alive
<1>7. ASSUME NEW q \in Slot PROVE PlaceSound(q)' /\ ForkSound(q)' /\ ParentSound(q)' /\ SleepSound(q)'
  <2>1. PlaceSound(q)'
    BY <1>1, <1>2, Zenon DEF ProcInv, ProcTypeOK, PlaceSound, Alive
  <2>2. ForkSound(q)'
    BY <1>1, <1>2, Zenon DEF ProcInv, ProcTypeOK, ForkSound, Forking
  <2>3. ParentSound(q)'
    <3>1. ParentSound(q) /\ (q # p => kpc[q] # "zombie")
      BY <1>2, HolderAlone, Zenon DEF ProcInv
    <3> QED BY <1>1, <1>2, <1>3, <1>4, <3>1, Zenon DEF ProcTypeOK, ParentSound, Alive
  <2>4. SleepSound(q)'
    <3>1. SleepSound(q) /\ (q # p => kpc[q] # "sleep")
      BY <1>2, HolderAlone, Zenon DEF ProcInv
    <3>2. Children(q)' = Children(q) /\ (q # parent[p] => Zombies(q)' = Zombies(q))
      BY <1>1, <1>2 DEF ProcTypeOK, Zombies, Children
    <3> QED BY <1>1, <1>2, <1>4, <3>1, <3>2, Zenon DEF ProcTypeOK, SleepSound
  <2> QED BY <2>1, <2>2, <2>3, <2>4
<1> QED BY <1>5, <1>6, <1>7 DEF ProcInv

-----------------------------------------------------------------------------
(* kwait() frees a zombie, or sleeps; kkill() wakes.                        *)

LEMMA WaitReapInv ==
  ASSUME ProcInv, NEW p \in Slot, NEW z \in Slot, WaitReap(p, z)
  PROVE  ProcInv'
<1>1. ProcTypeOK /\ InitLives /\ PlaceSound(p) /\ PlaceSound(z) /\ initproc \in Slot /\ NoProc \notin Slot
  BY SlotFacts, Zenon DEF ProcInv
<1>2. /\ state' = [state EXCEPT ![z] = "UNUSED"] /\ kpc' = [kpc EXCEPT ![p] = "user"]
      /\ parent' = [parent EXCEPT ![z] = NoProc] /\ holder' = NoProc /\ UNCHANGED child
      /\ state[p] = "RUNNABLE" /\ kpc[p] = "scan" /\ holder = p
      /\ state[z] = "ZOMBIE" /\ parent[z] = p /\ p # z
  BY <1>1, Zenon DEF WaitReap, At, Goto, PlaceSound, Zombies, Children
<1>3. z # initproc /\ kpc[z] = "dead" /\ \A q \in Slot : parent[q] # z
  BY <1>1, <1>2 DEF ProcInv, InitLives, PlaceSound, ParentSound, Alive
<1>4. ProcTypeOK'
  BY ProcAssumption, <1>1, <1>2, SMTT(20) DEF WaitReap, ProcTypeOK, Pc
<1>5. InitLives'
  BY <1>1, <1>2, <1>3, Zenon DEF ProcTypeOK, InitLives, Alive
<1>6. ASSUME NEW q \in Slot PROVE PlaceSound(q)' /\ ForkSound(q)' /\ ParentSound(q)' /\ SleepSound(q)'
  <2>1. PlaceSound(q)'
    BY <1>1, <1>2, <1>3, Zenon DEF ProcInv, ProcTypeOK, PlaceSound, Alive
  <2>2. ForkSound(q)'
    BY <1>1, <1>2, Zenon DEF ProcInv, ProcTypeOK, ForkSound, Forking
  <2>3. ParentSound(q)'
    <3>1. ParentSound(q) /\ (q # p => kpc[q] # "zombie")
      BY <1>2, HolderAlone, Zenon DEF ProcInv
    <3> QED BY <1>1, <1>2, <1>3, <3>1, Zenon DEF ProcTypeOK, ParentSound, Alive
  <2>4. SleepSound(q)'
    <3>1. SleepSound(q)
      BY Zenon DEF ProcInv
    <3>2. q # p => Children(q)' = Children(q) /\ Zombies(q)' = Zombies(q)
      BY <1>1, <1>2, Zenon DEF ProcTypeOK, Zombies, Children
    <3> QED BY <1>1, <1>2, <3>1, <3>2, Zenon DEF ProcTypeOK, SleepSound
  <2> QED BY <2>1, <2>2, <2>3, <2>4, Zenon
<1> QED BY <1>4, <1>5, <1>6 DEF ProcInv

LEMMA WaitSleepInv ==
  ASSUME ProcInv, NEW p \in Slot, WaitSleep(p)
  PROVE  ProcInv'
<1>1. ProcTypeOK /\ InitLives /\ PlaceSound(p) /\ SleepSound(p) /\ initproc \in Slot /\ NoProc \notin Slot
  BY SlotFacts, Zenon DEF ProcInv
<1>2. /\ state' = [state EXCEPT ![p] = "SLEEPING"] /\ kpc' = [kpc EXCEPT ![p] = "wait"]
      /\ holder' = NoProc /\ UNCHANGED <<parent, child>>
      /\ state[p] = "RUNNABLE" /\ kpc[p] = "sleep" /\ holder = p
  BY <1>1, Zenon DEF WaitSleep, At, Goto, PlaceSound
<1>3. ProcTypeOK'
  BY <1>1, <1>2, Zenon DEF WaitSleep, ProcTypeOK, Pc
<1>4. InitLives'
  BY <1>1, <1>2, Zenon DEF ProcTypeOK, InitLives, Alive
<1>5. ASSUME NEW q \in Slot PROVE PlaceSound(q)' /\ ForkSound(q)' /\ ParentSound(q)' /\ SleepSound(q)'
  <2>1. PlaceSound(q)'
    BY <1>1, <1>2, Zenon DEF ProcInv, ProcTypeOK, PlaceSound, Alive
  <2>2. ForkSound(q)'
    BY <1>1, <1>2, Zenon DEF ProcInv, ProcTypeOK, ForkSound, Forking
  <2>3. ParentSound(q)'
    <3>1. ParentSound(q) /\ (q # p => kpc[q] # "zombie")
      BY <1>2, HolderAlone, Zenon DEF ProcInv
    <3> QED BY <1>1, <1>2, <3>1, Zenon DEF ProcTypeOK, ParentSound, Alive
  <2>4. SleepSound(q)'
    <3>1. SleepSound(q)
      BY Zenon DEF ProcInv
    <3>2. Children(q)' = Children(q) /\ Zombies(q)' = Zombies(q)
      BY <1>1, <1>2, Zenon DEF ProcTypeOK, Zombies, Children
    <3> QED BY <1>1, <1>2, <3>1, <3>2, Zenon DEF ProcTypeOK, SleepSound
  <2> QED BY <2>1, <2>2, <2>3, <2>4
<1> QED BY <1>3, <1>4, <1>5 DEF ProcInv

LEMMA KillInv ==
  ASSUME ProcInv, NEW k \in Slot, NEW n \in 0..MaxPid, Kill(k, n)
  PROVE  ProcInv'
<1>1. ProcTypeOK /\ InitLives /\ initproc \in Slot /\ NoProc \notin Slot
  BY SlotFacts, Zenon DEF ProcInv
<1>2. PICK p \in Slot : killed' = [killed EXCEPT ![p] = 1] /\ state' = WakeParent(state, p)
  BY ZenonT(40) DEF Kill
<1>3. UNCHANGED <<pid, parent, nextpid, kpc, child, holder>>
  BY Zenon DEF Kill
<1>4. \A q \in Slot : state'[q] = state[q] \/ (state[q] = "SLEEPING" /\ state'[q] = "RUNNABLE")
  BY <1>1, <1>2, WakeParentFacts
<1>5. ProcTypeOK'
  BY <1>1, <1>2, <1>3, WakeParentFacts DEF ProcTypeOK
<1>6. InitLives'
  BY <1>1, <1>3, <1>4, Zenon DEF InitLives, Alive
<1>7. ASSUME NEW q \in Slot PROVE PlaceSound(q)' /\ ForkSound(q)' /\ ParentSound(q)' /\ SleepSound(q)'
  <2>1. PlaceSound(q)'
    BY <1>3, <1>4, Zenon DEF ProcInv, PlaceSound, Alive
  <2>2. ForkSound(q)'
    <3>1. ForkSound(q)
      BY Zenon DEF ProcInv
    <3> QED BY <1>3, <1>4, <3>1 DEF ForkSound, Forking
  <2>3. ParentSound(q)'
    <3>1. ParentSound(q) /\ (parent[q] # NoProc => parent[q] \in Slot)
      BY <1>1, Zenon DEF ProcInv, ProcTypeOK
    <3>2. kpc[q] = "zombie" => parent[q] \in Slot
      BY <1>1, <3>1, Zenon DEF ProcInv, PlaceSound, ParentSound, InitLives
    <3> QED BY <1>3, <1>4, <3>1, <3>2, Zenon DEF ParentSound, Alive
  <2>4. SleepSound(q)'
    <3>1. SleepSound(q)
      BY Zenon DEF ProcInv
    <3>2. Children(q)' = Children(q) /\ Zombies(q)' = Zombies(q)
      BY <1>3, <1>4, Zenon DEF Zombies, Children
    <3> QED BY <1>3, <1>4, <3>1, <3>2, Zenon DEF SleepSound
  <2> QED BY <2>1, <2>2, <2>3, <2>4, Zenon
<1> QED BY <1>5, <1>6, <1>7, Zenon DEF ProcInv

(* A kfork() that runs out of memory changes no process, as a stutter does. *)
LEMMA ProcSame ==
  ASSUME ProcInv, ProcTypeOK', UNCHANGED <<state, parent, kpc, child, holder>>
  PROVE  ProcInv'
<1>1. InitLives'
  BY Zenon DEF ProcInv, InitLives, Alive
<1>2. ASSUME NEW q \in Slot PROVE PlaceSound(q)' /\ ForkSound(q)'
  <2>1. PlaceSound(q) /\ ForkSound(q)
    BY Zenon DEF ProcInv
  <2>2. PlaceSound(q)'
    BY <2>1, Zenon DEF PlaceSound, Alive
  <2>3. ForkSound(q)'
    BY <2>1, Zenon DEF ForkSound, Forking
  <2> QED BY <2>2, <2>3, Zenon
<1>3. ASSUME NEW q \in Slot PROVE ParentSound(q)' /\ SleepSound(q)'
  <2>1. ParentSound(q) /\ SleepSound(q)
    BY Zenon DEF ProcInv
  <2>2. ParentSound(q)'
    BY <2>1, Zenon DEF ParentSound, Alive
  <2>3. Children(q)' = Children(q) /\ Zombies(q)' = Zombies(q)
    BY Zenon DEF Children, Zombies
  <2>4. SleepSound(q)'
    BY <2>1, <2>3, Zenon DEF SleepSound
  <2> QED BY <2>2, <2>4, Zenon
<1> QED BY <1>1, <1>2, <1>3, Zenon DEF ProcInv

-----------------------------------------------------------------------------
(* Every step keeps it.                                                     *)
LEMMA ProcKept ==
  ASSUME ProcInv, [ProcNext]_ProcVars
  PROVE  ProcInv'
<1>1. ASSUME NEW p \in Slot, Fork(p)
      PROVE  ProcInv'
  <2>1. ASSUME NEW np \in Slot, ForkFail(p, np) PROVE ProcInv'
    <3>1. ProcTypeOK'
      BY ProcAssumption, <2>1 DEF ProcInv, ProcTypeOK, ForkFail
    <3> QED BY <2>1, <3>1, ProcSame, Zenon DEF ForkFail
  <2> QED BY <1>1, <2>1, ForkAllocInv, ForkParentInv, ForkReadyInv, Zenon DEF Fork
<1>2. ASSUME NEW p \in Slot, Exit(p) \/ ExitLock(p) \/ Exiting(p)
      PROVE  ProcInv'
  BY <1>2, ExitInv, ReparentInv, ExitWakeupInv, ExitZombieInv, Zenon DEF Exiting
<1>3. ASSUME NEW p \in Slot, Wait(p) \/ WaitLock(p) \/ Waiting(p)
      PROVE  ProcInv'
  BY <1>3, WaitInv, WaitReapInv, WaitSleepInv, Zenon DEF Waiting
<1>4. CASE UNCHANGED ProcVars
  <2>1. ProcTypeOK'
    BY <1>4, Zenon DEF ProcInv, ProcTypeOK, ProcVars
  <2> QED BY <1>4, <2>1, ProcSame, Zenon DEF ProcVars
<1> QED BY <1>1, <1>2, <1>3, <1>4, KillInv, Zenon DEF ProcNext

(* It implies FamilySound.                                                  *)
LEMMA ProcMeans == ProcInv => FamilySound
<1> SUFFICES ASSUME ProcInv PROVE FamilySound
  BY Zenon
<1>1. FamilyTree
  BY Zenon DEF ProcInv, ParentSound, FamilyTree, Alive
<1>2. SleeperHasWork
  BY Zenon DEF ProcInv, SleepSound, SleeperHasWork
<1> QED BY <1>1, <1>2 DEF FamilySound

(* Every process but init has a live parent from the moment kfork() has set *)
(* it, nobody's parent is gone, and no parent sleeps in kwait() while it    *)
(* has a zombie to collect: for any size of the process table, whoever is   *)
(* killed and whenever a kfork() runs out of memory.                        *)
THEOREM FamilyStaysSound == ProcSpec => []FamilySound
<1>1. ProcInit => ProcInv
  BY ProcStarts
<1>2. ProcInv /\ [ProcNext]_ProcVars => ProcInv'
  BY ProcKept
<1> QED BY <1>1, <1>2, ProcMeans, PTL DEF ProcSpec

-----------------------------------------------------------------------------
(* p's request has a chain of three descriptors, and its head knows p's     *)
(* buffer.                                                                  *)
Chained(p) ==
  LET i == head[p]
      j == next[i]
      k == next[j]
  IN  i \in Desc /\ j \in Desc /\ k \in Desc /\ i # j /\ j # k /\ i # k /\ info[i] = p

(* The request with head descriptor i waits for the device.                 *)
Pending(i) == info[i] \in busy /\ head[info[i]] = i

(* The chains of the requests in flight share nothing, with each other or   *)
(* with the free descriptors.                                               *)
ChainsSound ==
  /\ \A p \in InFlight : Chained(p) /\ Chain(head[p]) \cap free = {}
  /\ \A p, q \in InFlight : p # q => Chain(head[p]) \cap Chain(head[q]) = {}

(* Every entry of the rings, and every request the device works on, is of   *)
(* a request that waits for it, and none is there twice; a used entry is    *)
(* of a request that is done.                                               *)
RingsSound ==
  /\ \A n \in 1 .. Len(avail) : Pending(avail[n]) /\ avail[n] \notin taken
  /\ \A i \in taken : Pending(i)
  /\ \A n \in 1 .. Len(used) : Pending(used[n]) /\ used[n] \notin taken /\ info[used[n]] \in done
  /\ \A m, n \in 1 .. Len(avail) : avail[m] = avail[n] => m = n
  /\ \A m, n \in 1 .. Len(used) : used[m] = used[n] => m = n
  /\ \A m \in 1 .. Len(avail), n \in 1 .. Len(used) : avail[m] # used[n]

(* Descriptors are counted: three for each request.                         *)
Balanced == Cardinality(free) + 3 * Cardinality(InFlight) = NUM

(* The inductive invariant of Virtio, but for the count.                    *)
DiskInv ==
  /\ DiskTypeOK /\ busy \subseteq InFlight /\ ChainsSound /\ RingsSound
  /\ NoDescMeansFew /\ OnlyDoneReturn

(* An entry of two sequences joined is an entry of one of them.             *)
LEMMA JoinedCells ==
  ASSUME NEW S, NEW s \in Seq(S), NEW t \in Seq(S)
  PROVE  \A n \in 1 .. Len(s \o t) :
           \/ n \in 1 .. Len(s) /\ (s \o t)[n] = s[n]
           \/ n - Len(s) \in 1 .. Len(t) /\ (s \o t)[n] = t[n - Len(s)]
<1>1. /\ Len(s) \in Nat /\ Len(t) \in Nat /\ Len(s \o t) = Len(s) + Len(t)
      /\ \A n \in 1 .. Len(s) + Len(t) : (s \o t)[n] = IF n <= Len(s) THEN s[n] ELSE t[n - Len(s)]
  OBVIOUS
<1>2. ASSUME NEW n \in 1 .. Len(s) + Len(t), n <= Len(s)
      PROVE  n \in 1 .. Len(s) /\ (s \o t)[n] = s[n]
  BY <1>1, <1>2
<1>3. ASSUME NEW n \in 1 .. Len(s) + Len(t), ~(n <= Len(s))
      PROVE  n - Len(s) \in 1 .. Len(t) /\ (s \o t)[n] = t[n - Len(s)]
  <2>1. n - Len(s) \in 1 .. Len(t)
    BY <1>1, <1>3
  <2> QED BY <1>1, <1>3, <2>1
<1> QED BY <1>1, <1>2, <1>3, Zenon

-----------------------------------------------------------------------------
(* It holds at the start.                                                   *)
LEMMA DiskStarts == DiskInit => DiskInv
<1> SUFFICES ASSUME DiskInit PROVE DiskInv
  OBVIOUS
<1>1. InFlight = {}
  BY DEF DiskInit, InFlight
<1>2. DiskTypeOK
  <2>1. 0 \in Desc
    BY DiskAssumption DEF Desc
  <2> QED
    BY <2>1, DiskAssumption DEF DiskInit, DiskTypeOK, End, Nobody
<1>3. ChainsSound /\ OnlyDoneReturn
  BY <1>1 DEF ChainsSound, OnlyDoneReturn
<1>4. RingsSound
  BY DEF DiskInit, RingsSound
<1>5. NoDescMeansFew /\ busy \subseteq InFlight
  BY Zenon DEF DiskInit, NoDescMeansFew
<1> QED
  BY <1>2, <1>3, <1>4, <1>5 DEF DiskInv

(* What virtio_disk_rw() does to the descriptors when it hands over a       *)
(* request,                                                                 *)
LEMMA SubmitEffect ==
  ASSUME DiskTypeOK, NEW p \in Procs, Submit(p)
  PROVE  \E i, j, k \in Desc :
           /\ i \in free /\ j \in free /\ k \in free /\ i # j /\ j # k /\ i # k
           /\ free' = free \ {i, j, k}
           /\ next' \in [Desc -> Desc \cup {End}]
           /\ next'[i] = j /\ next'[j] = k
           /\ \A d \in Desc : d \notin {i, j, k} => next'[d] = next[d]
           /\ info'[i] = p /\ \A d \in Desc \ {i} : info'[d] = info[d]
           /\ head'[p] = i /\ \A q \in Procs \ {p} : head'[q] = head[q]
           /\ avail' = Append(avail, i)
           /\ info' \in [Desc -> Procs \cup {Nobody}] /\ head' \in [Procs -> Desc]
<1>1. PICK i, j, k \in Desc :
       /\ alloc_desc(i, {}) /\ alloc_desc(j, {i}) /\ alloc_desc(k, {i, j})
       /\ free' = free \ Taken(i, j, k)
       /\ next' = [next EXCEPT ![i] = j, ![j] = k, ![k] = End]
       /\ info' = [info EXCEPT ![i] = p]
       /\ head' = [head EXCEPT ![p] = i]
       /\ avail' = Append(avail, i)
  BY Zenon DEF Submit
<1>2. i \in free /\ j \in free /\ k \in free /\ i # j /\ j # k /\ i # k
  BY <1>1 DEF alloc_desc
<1>3. free' = free \ {i, j, k}
  BY <1>1 DEF Taken
<1>4. /\ next' \in [Desc -> Desc \cup {End}] /\ next'[i] = j /\ next'[j] = k
      /\ \A d \in Desc : d \notin {i, j, k} => next'[d] = next[d]
  BY <1>1, <1>2, Zenon DEF DiskTypeOK
<1>5. /\ info'[i] = p /\ \A d \in Desc \ {i} : info'[d] = info[d]
      /\ head'[p] = i /\ \A q \in Procs \ {p} : head'[q] = head[q]
      /\ info' \in [Desc -> Procs \cup {Nobody}] /\ head' \in [Procs -> Desc]
  BY <1>1 DEF DiskTypeOK
<1> QED
  BY <1>1, <1>2, <1>3, <1>4, <1>5, Zenon

LEMMA SubmitTakes ==
  ASSUME NEW p \in Procs, Submit(p)
  PROVE  \E i, j, k \in Desc : /\ i \in free /\ j \in free /\ k \in free /\ i # j /\ j # k /\ i # k
                               /\ free' = free \ {i, j, k}
<1>1. PICK i, j, k \in Desc : /\ alloc_desc(i, {}) /\ alloc_desc(j, {i}) /\ alloc_desc(k, {i, j})
                              /\ free' = free \ Taken(i, j, k)
  BY Zenon DEF Submit
<1>2. i \in free /\ j \in free /\ k \in free /\ i # j /\ j # k /\ i # k
  BY <1>1 DEF alloc_desc
<1>3. free' = free \ {i, j, k}
  BY <1>1 DEF Taken
<1> QED
  BY <1>2, <1>3, Zenon

(* The chain of a request in flight is three descriptors, none of them free. *)
LEMMA ChainTaken ==
  ASSUME ChainsSound, NEW p \in InFlight
  PROVE  \E i, j, k \in Desc : /\ Chain(head[p]) = {i, j, k} /\ i # j /\ j # k /\ i # k
                               /\ i \notin free /\ j \notin free /\ k \notin free
<1>1. Chained(p) /\ Chain(head[p]) \cap free = {}
  BY Zenon DEF ChainsSound
<1> DEFINE i == head[p]  j == next[i]  k == next[j]
<1>2. Chain(head[p]) = {i, j, k}
  BY Zenon DEF Chain
<1>3. i \in Desc /\ j \in Desc /\ k \in Desc /\ i # j /\ j # k /\ i # k
  BY <1>1 DEF Chained
<1>4. i \notin free /\ j \notin free /\ k \notin free
  BY <1>1, <1>2, Zenon
<1> QED
  BY <1>2, <1>3, <1>4, Zenon

(* and when it frees the chain again.                                       *)
LEMMA FinishEffect ==
  ASSUME DiskTypeOK, ChainsSound, NEW p \in Procs, Finish(p)
  PROVE  /\ free' = free \cup Chain(head[p]) /\ Chain(head[p]) \subseteq Desc /\ head[p] \in Desc
         /\ next' \in [Desc -> Desc \cup {End}]
         /\ \A d \in Desc : d \notin Chain(head[p]) => next'[d] = next[d]
         /\ info' \in [Desc -> Procs \cup {Nobody}]
         /\ \A d \in Desc \ {head[p]} : info'[d] = info[d]
         /\ head' \in [Procs -> Desc] /\ \A q \in Procs \ {p} : head'[q] = head[q]
         /\ rpc' \in [Procs -> {"idle", "start", "nodesc", "alloc", "wait", "asleep", "woken"}]
         /\ rpc'[p] = "idle"
         /\ \A q \in Procs \ {p} : rpc'[q] = IF rpc[q] = "nodesc" THEN "start" ELSE rpc[q]
<1>1. p \in InFlight /\ head[p] \in Desc
  BY DEF Finish, InFlight, DiskTypeOK
<1>2. Chain(head[p]) \subseteq Desc
  BY <1>1 DEF ChainsSound, Chained, Chain
<1>3. 0 \in Desc
  BY DiskAssumption DEF Desc
<1>4. free' = free \cup Chain(head[p])
  BY DEF Finish, Freed
<1>5. /\ next' \in [Desc -> Desc \cup {End}]
      /\ \A d \in Desc : d \notin Chain(head[p]) => next'[d] = next[d]
  BY DEF Finish, DiskTypeOK
<1>6. /\ info' \in [Desc -> Procs \cup {Nobody}]
      /\ \A d \in Desc \ {head[p]} : info'[d] = info[d]
      /\ head' \in [Procs -> Desc] /\ \A q \in Procs \ {p} : head'[q] = head[q]
  BY <1>3 DEF Finish, DiskTypeOK
<1>7. /\ rpc' \in [Procs -> {"idle", "start", "nodesc", "alloc", "wait", "asleep", "woken"}]
      /\ rpc'[p] = "idle"
      /\ \A q \in Procs \ {p} : rpc'[q] = IF rpc[q] = "nodesc" THEN "start" ELSE rpc[q]
  BY DEF Finish, WokenForDesc, DiskTypeOK
<1> QED
  BY <1>1, <1>2, <1>4, <1>5, <1>6, <1>7, Zenon

(* Steps keep the types.                                                    *)
LEMMA DiskTypeStep == DiskInv /\ DiskNext => DiskTypeOK'
<1> SUFFICES ASSUME DiskInv, DiskNext PROVE DiskTypeOK'
  OBVIOUS
<1>0. DiskTypeOK /\ ChainsSound /\ RingsSound
  BY DEF DiskInv
<1> USE DEF dev
<1>1. ASSUME NEW p \in Procs, Call(p) \/ Acquire(p) \/ WaitDone(p) PROVE DiskTypeOK'
  BY <1>0, <1>1, Zenon DEF Call, Acquire, WaitDone, Resume, DiskTypeOK, Nobody
<1>2. ASSUME NEW p \in Procs, NoDesc(p) PROVE DiskTypeOK'
  BY <1>0, <1>2 DEF NoDesc, WokenForDesc, DiskTypeOK
<1>3. ASSUME NEW p \in Procs, Submit(p) PROVE DiskTypeOK'
  <2>1. /\ next' \in [Desc -> Desc \cup {End}] /\ info' \in [Desc -> Procs \cup {Nobody}]
        /\ head' \in [Procs -> Desc] /\ free' \in SUBSET Desc
        /\ \E i \in Desc : avail' = Append(avail, i)
    BY <1>0, <1>3, SubmitEffect DEF DiskTypeOK
  <2>2. avail' \in Seq(Desc)
    BY <1>0, <2>1 DEF DiskTypeOK
  <2>3. rpc' = [rpc EXCEPT ![p] = "wait"] /\ busy' = busy \cup {p} /\ UNCHANGED <<used, lock, dev>>
    BY <1>0, <1>3 DEF Submit, Resume
  <2> QED
    BY <1>0, <2>1, <2>2, <2>3 DEF DiskTypeOK
<1>5. ASSUME IntrAck \/ IntrEnd PROVE DiskTypeOK'
  BY <1>0, <1>5 DEF IntrAck, IntrEnd, DiskTypeOK
<1>6. ASSUME IntrEntry PROVE DiskTypeOK'
  <2>1. used' \in Seq(Desc)
    BY <1>0, <1>6 DEF IntrEntry, DiskTypeOK
  <2>2. busy' \in SUBSET Procs /\ \A q \in Procs : rpc'[q] = rpc[q] \/ rpc'[q] = "woken"
    BY <1>0, <1>6, Zenon DEF IntrEntry, DiskTypeOK
  <2>3. rpc' \in [Procs -> {"idle", "start", "nodesc", "alloc", "wait", "asleep", "woken"}]
    BY <1>0, <1>6 DEF IntrEntry, DiskTypeOK
  <2> QED
    BY <1>0, <1>6, <2>1, <2>2, <2>3, Zenon DEF IntrEntry, DiskTypeOK
<1>7. ASSUME DevTake PROVE DiskTypeOK'
  <2>1. avail' \in Seq(Desc) /\ Head(avail) \in Desc
    BY <1>0, <1>7 DEF DevTake, DiskTypeOK
  <2> QED
    BY <1>0, <1>7, <2>1 DEF DevTake, DiskTypeOK
<1>4. ASSUME NEW p \in Procs, Finish(p) PROVE DiskTypeOK'
  <2>1. UNCHANGED <<avail, used, busy, dev>> /\ lock' = Nobody
    BY <1>4 DEF Finish
  <2>2. /\ free' \in SUBSET Desc /\ next' \in [Desc -> Desc \cup {End}]
        /\ info' \in [Desc -> Procs \cup {Nobody}] /\ head' \in [Procs -> Desc]
        /\ rpc' \in [Procs -> {"idle", "start", "nodesc", "alloc", "wait", "asleep", "woken"}]
    BY <1>0, <1>4, FinishEffect DEF DiskTypeOK
  <2> QED
    BY <1>0, <2>1, <2>2 DEF DiskTypeOK
<1>8. ASSUME NEW i \in Desc, DevDone(i) PROVE DiskTypeOK'
  <2>1. info[i] \in Procs
    BY <1>0, <1>8 DEF DevDone, RingsSound, Pending, DiskTypeOK
  <2>2. used' \in Seq(Desc)
    BY <1>0, <1>8 DEF DevDone, DiskTypeOK
  <2> QED
    BY <1>0, <1>8, <2>1, <2>2 DEF DevDone, DiskTypeOK
<1> QED
  BY <1>1, <1>2, <1>3, <1>4, <1>5, <1>6, <1>7, <1>8 DEF DiskNext, Request, Intr, Device

(* The chains stay as they are when the descriptors do.                     *)
LEMMA ChainsKept ==
  ASSUME ChainsSound, UNCHANGED <<free, next, info, head>>, InFlight' = InFlight
  PROVE  ChainsSound'
<1>1. \A p \in InFlight' : (Chained(p))' /\ (Chain(head[p]))' \cap free' = {}
  BY DEF ChainsSound, Chain, Chained
<1>2. \A p, q \in InFlight' : p # q => (Chain(head[p]))' \cap (Chain(head[q]))' = {}
  BY DEF ChainsSound, Chain
<1> QED
  BY <1>1, <1>2 DEF ChainsSound

(* So does the rest when no ring changes,                                   *)
LEMMA QuietStep ==
  ASSUME DiskInv, UNCHANGED <<free, next, info, head, avail, used, taken, busy>>,
         InFlight' = InFlight, \A q \in InFlight : q \in done => q \in done'
  PROVE  busy' \subseteq InFlight' /\ ChainsSound' /\ RingsSound' /\ OnlyDoneReturn'
<1>1. busy' \subseteq InFlight'
  BY Zenon DEF DiskInv
<1>5. ChainsSound'
  BY ChainsKept, Zenon DEF DiskInv
<1>6. RingsSound'
  <2>1. RingsSound
    BY Zenon DEF DiskInv
  <2>2. \A n \in 1 .. Len(used) : info[used[n]] \in done'
    BY <2>1, Zenon DEF DiskInv, RingsSound, Pending
  <2>3. \A n \in 1 .. Len(avail') : Pending(avail[n])' /\ avail'[n] \notin taken'
    BY <2>1, Zenon DEF RingsSound, Pending
  <2>4. \A i \in taken' : Pending(i)'
    BY <2>1, Zenon DEF RingsSound, Pending
  <2>5. \A n \in 1 .. Len(used') : Pending(used[n])' /\ used'[n] \notin taken' /\ info'[used'[n]] \in done'
    BY <2>1, <2>2, Zenon DEF RingsSound, Pending
  <2>6. /\ \A m, n \in 1 .. Len(avail') : avail'[m] = avail'[n] => m = n
        /\ \A m, n \in 1 .. Len(used') : used'[m] = used'[n] => m = n
        /\ \A m \in 1 .. Len(avail'), n \in 1 .. Len(used') : avail'[m] # used'[n]
    BY <2>1 DEF RingsSound
  <2> QED
    BY <2>3, <2>4, <2>5, <2>6, Zenon DEF RingsSound
<1>7. OnlyDoneReturn'
  BY DEF DiskInv, OnlyDoneReturn
<1> QED
  BY <1>1, <1>5, <1>6, <1>7

(* as in these steps.                                                       *)
LEMMA QuietActions ==
  ASSUME DiskInv,
         \/ \E p \in Procs : Call(p) \/ Acquire(p) \/ WaitDone(p) \/ NoDesc(p)
         \/ IntrAck \/ IntrEnd
  PROVE  /\ UNCHANGED <<free, next, info, head, avail, used, taken, busy>>
         /\ InFlight' = InFlight
         /\ \A q \in InFlight : q \in done => q \in done'
         /\ NoDescMeansFew'
<1> USE DEF dev
<1>0. DiskTypeOK /\ NoDescMeansFew
  BY Zenon DEF DiskInv
<1>1. ASSUME NEW p \in Procs, Call(p)
      PROVE  /\ UNCHANGED <<free, next, info, head, avail, used, taken, busy>>
             /\ InFlight' = InFlight
             /\ \A q \in InFlight : q \in done => q \in done'
             /\ NoDescMeansFew'
  <2>1. rpc[p] = "idle" /\ rpc'[p] = "start" /\ \A q \in Procs \ {p} : rpc'[q] = rpc[q]
    BY <1>0, <1>1, Zenon DEF Call, Resume, DiskTypeOK
  <2>2. InFlight' = InFlight /\ p \notin InFlight
    BY <2>1, Zenon DEF InFlight
  <2>3. NoDescMeansFew'
    BY <1>0, <1>1, <2>1, Zenon DEF Call, NoDescMeansFew
  <2> QED
    BY <1>1, <2>2, <2>3, Zenon DEF Call
<1>2. ASSUME NEW p \in Procs, Acquire(p) \/ WaitDone(p)
      PROVE  /\ UNCHANGED <<free, next, info, head, avail, used, taken, busy>>
             /\ InFlight' = InFlight
             /\ \A q \in InFlight : q \in done => q \in done'
             /\ NoDescMeansFew'
  <2>1. /\ \A q \in Procs \ {p} : rpc'[q] = rpc[q]
        /\ rpc'[p] \in {"wait", "asleep", "woken"} <=> rpc[p] \in {"wait", "asleep", "woken"}
        /\ rpc'[p] # "nodesc"
    BY <1>0, <1>2, Zenon DEF Acquire, WaitDone, Resume, DiskTypeOK
  <2>2. InFlight' = InFlight
    BY <2>1, Zenon DEF InFlight
  <2>3. NoDescMeansFew'
    BY <1>0, <1>2, <2>1, Zenon DEF Acquire, WaitDone, NoDescMeansFew
  <2> QED
    BY <1>2, <2>2, <2>3, Zenon DEF Acquire, WaitDone
<1>3. ASSUME NEW p \in Procs, NoDesc(p)
      PROVE  /\ UNCHANGED <<free, next, info, head, avail, used, taken, busy>>
             /\ InFlight' = InFlight
             /\ \A q \in InFlight : q \in done => q \in done'
             /\ NoDescMeansFew'
  <2>1. \A q \in Procs : rpc'[q] \in {"wait", "asleep", "woken"} <=> rpc[q] \in {"wait", "asleep", "woken"}
    BY <1>0, <1>3, Zenon DEF NoDesc, WokenForDesc, DiskTypeOK
  <2>2. InFlight' = InFlight
    BY <2>1, Zenon DEF InFlight
  <2>3. NoDescMeansFew'
    BY <1>3, Zenon DEF NoDesc, NoDescMeansFew
  <2> QED
    BY <1>3, <2>2, <2>3, Zenon DEF NoDesc
<1>4. ASSUME IntrAck \/ IntrEnd
      PROVE  /\ UNCHANGED <<free, next, info, head, avail, used, taken, busy>>
             /\ InFlight' = InFlight
             /\ \A q \in InFlight : q \in done => q \in done'
             /\ NoDescMeansFew'
  BY <1>0, <1>4, Zenon DEF IntrAck, IntrEnd, InFlight, NoDescMeansFew
<1> QED
  BY <1>1, <1>2, <1>3, <1>4

(* The device takes the oldest entry,                                       *)
LEMMA DevTakeStep ==
  ASSUME DiskInv, DevTake
  PROVE  busy' \subseteq InFlight' /\ ChainsSound' /\ RingsSound' /\ OnlyDoneReturn' /\ NoDescMeansFew'
<1>0. DiskTypeOK /\ ChainsSound /\ RingsSound
  BY DEF DiskInv
<1>1. InFlight' = InFlight /\ UNCHANGED <<free, next, info, head, used, busy, done, rpc>>
  BY DEF DevTake, InFlight
<1>2. ChainsSound'
  BY <1>0, <1>1, ChainsKept, Zenon
<1>3. /\ Len(avail) \in Nat /\ Len(avail) # 0 /\ Len(avail') = Len(avail) - 1
      /\ \A n \in 1 .. Len(avail') : avail'[n] = avail[n + 1] /\ n + 1 \in 1 .. Len(avail)
  BY <1>0 DEF DevTake, DiskTypeOK
<1>4. taken' = taken \cup {avail[1]} /\ 1 \in 1 .. Len(avail)
  BY <1>0, <1>3 DEF DevTake, DiskTypeOK
<1>5. RingsSound'
  <2>1. \A n \in 1 .. Len(avail') : Pending(avail[n])' /\ avail'[n] \notin taken'
    BY <1>0, <1>1, <1>3, <1>4 DEF RingsSound, Pending
  <2>2. \A i \in taken' : Pending(i)'
    BY <1>0, <1>1, <1>4 DEF RingsSound, Pending
  <2>3. \A n \in 1 .. Len(used') : Pending(used[n])' /\ used'[n] \notin taken' /\ info'[used'[n]] \in done'
    BY <1>0, <1>1, <1>4, Zenon DEF RingsSound, Pending
  <2>4. /\ \A m, n \in 1 .. Len(avail') : avail'[m] = avail'[n] => m = n
        /\ \A m \in 1 .. Len(avail'), n \in 1 .. Len(used') : avail'[m] # used'[n]
    <3>1. ASSUME NEW m \in 1 .. Len(avail'), NEW n \in 1 .. Len(avail'), avail'[m] = avail'[n]
          PROVE  m = n
      <4>1. m + 1 \in 1 .. Len(avail) /\ n + 1 \in 1 .. Len(avail) /\ avail[m + 1] = avail[n + 1]
        BY <1>3, <3>1, Zenon
      <4>2. m + 1 = n + 1
        BY <1>0, <4>1, Zenon DEF RingsSound
      <4>3. m \in Nat /\ n \in Nat
        OBVIOUS
      <4> QED
        BY <4>2, <4>3
    <3>2. ASSUME NEW m \in 1 .. Len(avail'), NEW n \in 1 .. Len(used')
          PROVE  avail'[m] # used'[n]
      <4>1. avail'[m] = avail[m + 1] /\ m + 1 \in 1 .. Len(avail)
        BY <1>3, Zenon
      <4> QED
        BY <1>0, <1>1, <4>1, Zenon DEF RingsSound
    <3> QED
      BY <3>1, <3>2, Zenon
  <2>5. \A m, n \in 1 .. Len(used') : used'[m] = used'[n] => m = n
    BY <1>0, <1>1, Zenon DEF RingsSound
  <2> QED
    BY <2>1, <2>2, <2>3, <2>4, <2>5, Zenon DEF RingsSound
<1> QED
  BY <1>1, <1>2, <1>5, Zenon DEF DiskInv, OnlyDoneReturn, NoDescMeansFew

(* and puts it in the used ring when it is done.                            *)
LEMMA DevDoneStep ==
  ASSUME DiskInv, NEW i \in Desc, DevDone(i)
  PROVE  busy' \subseteq InFlight' /\ ChainsSound' /\ RingsSound' /\ OnlyDoneReturn' /\ NoDescMeansFew'
<1>0. DiskTypeOK /\ ChainsSound /\ RingsSound
  BY DEF DiskInv
<1>1. InFlight' = InFlight /\ UNCHANGED <<free, next, info, head, avail, busy, rpc>>
  BY DEF DevDone, InFlight
<1>2. ChainsSound'
  BY <1>0, <1>1, ChainsKept, Zenon
<1>3. /\ Len(used) \in Nat /\ Len(used') = Len(used) + 1 /\ used'[Len(used) + 1] = i
      /\ \A n \in 1 .. Len(used) : used'[n] = used[n]
  BY <1>0 DEF DevDone, DiskTypeOK
<1>4. i \in taken /\ taken' = taken \ {i} /\ done' = done \cup {info[i]}
  BY DEF DevDone
<1>5. \A n \in 1 .. Len(used') : n \in 1 .. Len(used) \/ n = Len(used) + 1
  BY <1>3
<1>6. \A n \in 1 .. Len(used) : used[n] # i
  BY <1>0, <1>4, Zenon DEF RingsSound
<1>7. RingsSound'
  <2>1. \A n \in 1 .. Len(avail') : Pending(avail[n])' /\ avail'[n] \notin taken'
    BY <1>0, <1>1, <1>4, Zenon DEF RingsSound, Pending
  <2>2. \A d \in taken' : Pending(d)'
    BY <1>0, <1>1, <1>4, Zenon DEF RingsSound, Pending
  <2>3. \A n \in 1 .. Len(used') : Pending(used[n])' /\ used'[n] \notin taken' /\ info'[used'[n]] \in done'
    BY <1>0, <1>1, <1>3, <1>4, <1>5, Zenon DEF RingsSound, Pending
  <2>4. \A m, n \in 1 .. Len(used') : used'[m] = used'[n] => m = n
    BY <1>0, <1>3, <1>5, <1>6, Zenon DEF RingsSound
  <2>5. /\ \A m, n \in 1 .. Len(avail') : avail'[m] = avail'[n] => m = n
        /\ \A m \in 1 .. Len(avail'), n \in 1 .. Len(used') : avail'[m] # used'[n]
    BY <1>0, <1>1, <1>3, <1>4, <1>5 DEF RingsSound
  <2> QED
    BY <2>1, <2>2, <2>3, <2>4, <2>5, Zenon DEF RingsSound
<1> QED
  BY <1>1, <1>2, <1>4, <1>7 DEF DiskInv, OnlyDoneReturn, NoDescMeansFew

(* The interrupt ends the wait of the request whose entry it takes and of   *)
(* no other: no second entry has the same head.                             *)
LEMMA IntrEntryStep ==
  ASSUME DiskInv, IntrEntry
  PROVE  busy' \subseteq InFlight' /\ ChainsSound' /\ RingsSound' /\ OnlyDoneReturn' /\ NoDescMeansFew'
<1>0. DiskTypeOK /\ ChainsSound /\ RingsSound
  BY DEF DiskInv
<1>1. /\ UNCHANGED <<free, next, info, head, avail, taken, done>>
      /\ \A q \in Procs : rpc'[q] = rpc[q] \/ (rpc[q] = "asleep" /\ rpc'[q] = "woken")
  <2>1. UNCHANGED <<free, next, info, head, avail, taken, done>>
    BY Zenon DEF IntrEntry, dev
  <2>2. \E p : rpc' = [q \in Procs |-> IF q = p /\ rpc[q] = "asleep" THEN "woken" ELSE rpc[q]]
    BY Zenon DEF IntrEntry
  <2>3. \A q \in Procs : rpc'[q] = rpc[q] \/ (rpc[q] = "asleep" /\ rpc'[q] = "woken")
    BY <2>2
  <2> QED
    BY <2>1, <2>3, Zenon
<1>2. InFlight' = InFlight
  BY <1>1, Zenon DEF InFlight
<1>3. /\ Len(used) \in Nat /\ Len(used) # 0 /\ Len(used') = Len(used) - 1
      /\ \A n \in 1 .. Len(used') : used'[n] = used[n + 1] /\ n + 1 \in 1 .. Len(used) /\ n + 1 # 1
  BY <1>0 DEF IntrEntry, DiskTypeOK
<1>4. busy' = busy \ {info[used[1]]} /\ 1 \in 1 .. Len(used)
  BY <1>0, <1>3 DEF IntrEntry, Completed, DiskTypeOK
<1>5. info[used[1]] \in done /\ Pending(used[1]) /\ used[1] \notin taken
  BY <1>0, <1>4, Zenon DEF RingsSound
<1>6. \A d : Pending(d) /\ d # used[1] => Pending(d)'
  BY <1>1, <1>4, <1>5, Zenon DEF Pending
<1>7. RingsSound'
  <2>1. \A n \in 1 .. Len(avail') : Pending(avail[n])' /\ avail'[n] \notin taken'
    BY <1>0, <1>1, <1>4, <1>5 DEF RingsSound, Pending
  <2>2. \A d \in taken' : Pending(d)'
    BY <1>0, <1>1, <1>5, <1>6, Zenon DEF RingsSound
  <2>3. \A n \in 1 .. Len(used') : Pending(used[n])' /\ used'[n] \notin taken' /\ info'[used'[n]] \in done'
    <3>1. SUFFICES ASSUME NEW n \in 1 .. Len(used')
                   PROVE  Pending(used[n])' /\ used'[n] \notin taken' /\ info'[used'[n]] \in done'
      BY Zenon
    <3>2. used'[n] = used[n + 1] /\ n + 1 \in 1 .. Len(used) /\ n + 1 # 1
      BY <1>3, Zenon
    <3>3. used[n + 1] # used[1]
      BY <1>0, <1>4, <3>2, Zenon DEF RingsSound
    <3>4. Pending(used[n + 1]) /\ used[n + 1] \notin taken /\ info[used[n + 1]] \in done
      BY <1>0, <3>2, Zenon DEF RingsSound
    <3> QED
      BY <1>1, <1>4, <1>5, <3>2, <3>3, <3>4, Zenon DEF Pending
  <2>4. \A m, n \in 1 .. Len(used') : used'[m] = used'[n] => m = n
    <3>1. SUFFICES ASSUME NEW m \in 1 .. Len(used'), NEW n \in 1 .. Len(used'), used'[m] = used'[n]
                   PROVE  m = n
      BY Zenon
    <3>2. m + 1 \in 1 .. Len(used) /\ n + 1 \in 1 .. Len(used) /\ used[m + 1] = used[n + 1]
      BY <1>3, <3>1, Zenon
    <3>3. m + 1 = n + 1
      BY <1>0, <3>2, Zenon DEF RingsSound
    <3>4. m \in Nat /\ n \in Nat
      OBVIOUS
    <3> QED
      BY <3>3, <3>4
  <2>5. /\ \A m, n \in 1 .. Len(avail') : avail'[m] = avail'[n] => m = n
        /\ \A m \in 1 .. Len(avail'), n \in 1 .. Len(used') : avail'[m] # used'[n]
    <3>1. SUFFICES ASSUME NEW m \in 1 .. Len(avail'), NEW n \in 1 .. Len(used')
                   PROVE  avail'[m] # used'[n]
      BY <1>0, <1>1, Zenon DEF RingsSound
    <3>2. used'[n] = used[n + 1] /\ n + 1 \in 1 .. Len(used)
      BY <1>3, Zenon
    <3>3. m \in 1 .. Len(avail) /\ avail'[m] = avail[m]
      BY <1>1, Zenon
    <3>4. avail[m] # used[n + 1]
      BY <1>0, <3>2, <3>3, Zenon DEF RingsSound
    <3> QED
      BY <3>2, <3>3, <3>4, Zenon
  <2> QED
    BY <2>1, <2>2, <2>3, <2>4, <2>5, Zenon DEF RingsSound
<1>8. ChainsSound'
  BY <1>0, <1>1, <1>2, ChainsKept, Zenon
<1>9. OnlyDoneReturn' /\ busy' \subseteq InFlight'
  BY <1>1, <1>2, <1>4, <1>5, Zenon DEF DiskInv, OnlyDoneReturn
<1>10. NoDescMeansFew'
  BY <1>1, Zenon DEF DiskInv, NoDescMeansFew
<1> QED
  BY <1>7, <1>8, <1>9, <1>10, Zenon

(* There are finitely many free descriptors.                                *)
FreeCount == Cardinality(free) \in Nat

(* The head of a request that waits is not free.                            *)
LEMMA PendingTaken ==
  ASSUME DiskInv, NEW d, Pending(d)
  PROVE  d \in Desc /\ d \notin free /\ info[d] \in InFlight
<1>1. info[d] \in InFlight /\ head[info[d]] = d
  BY Zenon DEF DiskInv, Pending
<1>2. d \in Desc /\ d \notin free
  <2>1. Chained(info[d]) /\ Chain(d) \cap free = {}
    BY <1>1, Zenon DEF DiskInv, ChainsSound
  <2>2. d \in Desc /\ d \in Chain(d)
    BY <1>1, <2>1, Zenon DEF Chained, Chain
  <2> QED
    BY <2>1, <2>2, Zenon
<1> QED
  BY <1>1, <1>2, Zenon

(* A new request's head is in no ring: it was free.                         *)
LEMMA SubmitStep ==
  ASSUME DiskInv, FreeCount, NEW p \in Procs, Submit(p)
  PROVE  /\ busy' \subseteq InFlight' /\ ChainsSound' /\ RingsSound' /\ OnlyDoneReturn' /\ NoDescMeansFew'
         /\ InFlight' = InFlight \cup {p} /\ p \notin InFlight
<1>0. DiskTypeOK /\ ChainsSound /\ RingsSound
  BY Zenon DEF DiskInv
<1>1. PICK i, j, k \in Desc :
           /\ i \in free /\ j \in free /\ k \in free /\ i # j /\ j # k /\ i # k
           /\ free' = free \ {i, j, k}
           /\ next' \in [Desc -> Desc \cup {End}]
           /\ next'[i] = j /\ next'[j] = k
           /\ \A d \in Desc : d \notin {i, j, k} => next'[d] = next[d]
           /\ info'[i] = p /\ \A d \in Desc \ {i} : info'[d] = info[d]
           /\ head'[p] = i /\ \A q \in Procs \ {p} : head'[q] = head[q]
           /\ avail' = Append(avail, i)
           /\ info' \in [Desc -> Procs \cup {Nobody}] /\ head' \in [Procs -> Desc]
  BY <1>0, SubmitEffect, Zenon
<1>2. /\ rpc[p] = "alloc" /\ rpc'[p] = "wait" /\ \A q \in Procs \ {p} : rpc'[q] = rpc[q]
      /\ UNCHANGED <<used, taken, done>> /\ busy' = busy \cup {p} /\ Cardinality(free) >= 3
  BY <1>0, Zenon DEF Submit, Resume, DiskTypeOK, dev
<1>3. InFlight' = InFlight \cup {p} /\ p \notin InFlight /\ InFlight \subseteq Procs
  BY <1>2, Zenon DEF InFlight
<1>4. \A q \in InFlight : Chain(head[q])' = Chain(head[q]) /\ Chained(q)' /\ q # p
  <2>1. SUFFICES ASSUME NEW q \in InFlight PROVE Chain(head[q])' = Chain(head[q]) /\ Chained(q)' /\ q # p
    BY Zenon
  <2>2. q # p /\ q \in Procs /\ head'[q] = head[q]
    BY <1>1, <1>3, Zenon
  <2>3. Chained(q) /\ Chain(head[q]) \cap free = {}
    BY <1>0, Zenon DEF ChainsSound
  <2>4. PICK a, b, c \in Desc : a = head[q] /\ b = next[a] /\ c = next[b] /\ Chain(head[q]) = {a, b, c}
                                /\ a # b /\ b # c /\ a # c /\ info[a] = q
    BY <2>3, Zenon DEF Chained, Chain
  <2>5. a \notin {i, j, k} /\ b \notin {i, j, k} /\ c \notin {i, j, k}
    BY <2>3, <2>4, <1>1, Zenon
  <2>6. head'[q] = a /\ next'[a] = b /\ next'[b] = c /\ info'[a] = q
    BY <1>1, <2>2, <2>4, <2>5, Zenon
  <2>7. Chain(head[q])' = {a, b, c}
    BY <2>6, Zenon DEF Chain
  <2>8. Chained(q)'
    BY <2>4, <2>6, Zenon DEF Chained
  <2> QED
    BY <2>2, <2>4, <2>7, <2>8, Zenon
<1>5. Chain(head[p])' = {i, j, k} /\ Chained(p)'
  <2>1. head'[p] = i /\ next'[i] = j /\ next'[j] = k /\ info'[i] = p /\ i # j /\ j # k /\ i # k
    BY <1>1, Zenon
  <2>2. Chain(head[p])' = {i, j, k}
    BY <2>1, Zenon DEF Chain
  <2> QED
    BY <2>1, <2>2, Zenon DEF Chained
<1>6. \A q \in InFlight : Chain(head[q]) \cap {i, j, k} = {}
  <2>1. {i, j, k} \subseteq free
    BY <1>1, Zenon
  <2>2. \A q \in InFlight : Chain(head[q]) \cap free = {}
    BY <1>0, Zenon DEF ChainsSound
  <2> QED
    BY <2>1, <2>2, Zenon
<1>7. ChainsSound'
  <2>1. \A q \in InFlight' : Chained(q)' /\ Chain(head[q])' \cap free' = {}
    <3>1. \A q \in InFlight : Chained(q)' /\ Chain(head[q])' \cap free' = {}
      <4>1. \A q \in InFlight : Chain(head[q]) \cap free = {}
        BY <1>0, Zenon DEF ChainsSound
      <4>2. free' \subseteq free
        BY <1>1, Zenon
      <4> QED
        BY <1>4, <4>1, <4>2, Zenon
    <3>2. Chained(p)' /\ Chain(head[p])' \cap free' = {}
      BY <1>1, <1>5, Zenon
    <3> QED
      BY <1>3, <3>1, <3>2, Zenon
  <2>2. \A q, r \in InFlight' : q # r => Chain(head[q])' \cap Chain(head[r])' = {}
    <3>1. \A q, r \in InFlight : q # r => Chain(head[q])' \cap Chain(head[r])' = {}
      BY <1>0, <1>4, Zenon DEF ChainsSound
    <3>2. \A q \in InFlight : Chain(head[q])' \cap Chain(head[p])' = {}
      BY <1>4, <1>5, <1>6, Zenon
    <3> QED
      BY <1>3, <3>1, <3>2, Zenon
  <2> QED
    BY <2>1, <2>2, Zenon DEF ChainsSound
<1>8. \A d : Pending(d) => Pending(d)' /\ d # i
  <2>1. SUFFICES ASSUME NEW d, Pending(d) PROVE Pending(d)' /\ d # i
    BY Zenon
  <2>2. d \in Desc /\ d \notin free /\ info[d] \in InFlight
    BY <2>1, PendingTaken, Zenon
  <2>3. d # i /\ info'[d] = info[d] /\ info[d] # p /\ head'[info[d]] = head[info[d]]
    BY <1>1, <1>3, <2>2, Zenon
  <2> QED
    BY <1>2, <2>1, <2>3, Zenon DEF Pending
<1>9. Pending(i)'
  BY <1>1, <1>2, Zenon DEF Pending
<1>10. /\ Len(avail) \in Nat /\ Len(avail') = Len(avail) + 1 /\ avail'[Len(avail) + 1] = i
       /\ \A n \in 1 .. Len(avail) : avail'[n] = avail[n]
  <2>1. avail \in Seq(Desc) /\ i \in Desc /\ avail' = Append(avail, i)
    BY <1>0, <1>1, Zenon DEF DiskTypeOK
  <2> QED
    BY <2>1
<1>11. \A n \in 1 .. Len(avail') : n \in 1 .. Len(avail) \/ n = Len(avail) + 1
  BY <1>10
<1>12. i \notin taken /\ (\A n \in 1 .. Len(avail) : avail[n] # i) /\ \A n \in 1 .. Len(used) : used[n] # i
  BY <1>0, <1>8, Zenon DEF RingsSound
<1>13. RingsSound'
  <2>1. \A n \in 1 .. Len(avail') : Pending(avail[n])' /\ avail'[n] \notin taken'
    <3>1. SUFFICES ASSUME NEW n \in 1 .. Len(avail') PROVE Pending(avail[n])' /\ avail'[n] \notin taken'
      BY Zenon
    <3>2. CASE n \in 1 .. Len(avail)
      <4>1. avail'[n] = avail[n] /\ Pending(avail[n]) /\ avail[n] \notin taken
        BY <1>0, <1>10, <3>2, Zenon DEF RingsSound
      <4> QED
        BY <1>2, <1>8, <4>1, Zenon DEF Pending
    <3>3. CASE n = Len(avail) + 1
      <4>1. avail'[n] = i
        BY <1>10, <3>3, Zenon
      <4> QED
        BY <1>2, <1>9, <1>12, <4>1, Zenon DEF Pending
    <3> QED
      BY <1>11, <3>2, <3>3, Zenon
  <2>2. \A d \in taken' : Pending(d)'
    BY <1>0, <1>2, <1>8, Zenon DEF RingsSound
  <2>3. \A n \in 1 .. Len(used') : Pending(used[n])' /\ used'[n] \notin taken' /\ info'[used'[n]] \in done'
    <3>1. SUFFICES ASSUME NEW n \in 1 .. Len(used)
                   PROVE  Pending(used[n])' /\ used[n] \notin taken /\ info'[used[n]] \in done
      BY <1>2, Zenon
    <3>2. Pending(used[n]) /\ used[n] \notin taken /\ info[used[n]] \in done
      BY <1>0, Zenon DEF RingsSound
    <3>3. used[n] \in Desc /\ used[n] # i
      BY <1>8, <3>2, PendingTaken, Zenon
    <3> QED
      BY <1>1, <1>2, <1>8, <3>2, <3>3, Zenon DEF Pending
  <2>4. \A m, n \in 1 .. Len(used') : used'[m] = used'[n] => m = n
    BY <1>0, <1>2, Zenon DEF RingsSound
  <2>5. \A m, n \in 1 .. Len(avail') : avail'[m] = avail'[n] => m = n
    BY <1>0, <1>10, <1>11, <1>12, Zenon DEF RingsSound
  <2>6. \A m \in 1 .. Len(avail'), n \in 1 .. Len(used') : avail'[m] # used'[n]
    BY <1>0, <1>2, <1>10, <1>11, <1>12, SMTT(30) DEF RingsSound
  <2> QED
    BY <2>1, <2>2, <2>3, <2>4, <2>5, <2>6, Zenon DEF RingsSound
<1>14. OnlyDoneReturn' /\ busy' \subseteq InFlight'
  BY <1>2, <1>3, Zenon DEF DiskInv, OnlyDoneReturn
<1>15. NoDescMeansFew'
  <2>1. Cardinality(free) >= 3 /\ \A q \in Procs : rpc[q] = "nodesc" => Cardinality(free) < 3
    BY <1>2, Zenon DEF DiskInv, NoDescMeansFew
  <2>2. \A q \in Procs : rpc[q] # "nodesc"
    BY <2>1 DEF FreeCount
  <2> QED
    BY <1>2, <2>2, Zenon DEF NoDescMeansFew
<1> QED
  BY <1>3, <1>7, <1>13, <1>14, <1>15, Zenon

(* A request that returns has no entry left in a ring.                      *)
LEMMA FinishStep ==
  ASSUME DiskInv, NEW p \in Procs, Finish(p)
  PROVE  /\ busy' \subseteq InFlight' /\ ChainsSound' /\ RingsSound' /\ OnlyDoneReturn' /\ NoDescMeansFew'
         /\ InFlight' = InFlight \ {p} /\ p \in InFlight
<1>0. DiskTypeOK /\ ChainsSound /\ RingsSound
  BY Zenon DEF DiskInv
<1>1. /\ free' = free \cup Chain(head[p]) /\ Chain(head[p]) \subseteq Desc /\ head[p] \in Desc
      /\ \A d \in Desc : d \notin Chain(head[p]) => next'[d] = next[d]
      /\ \A d \in Desc \ {head[p]} : info'[d] = info[d]
      /\ \A q \in Procs \ {p} : head'[q] = head[q]
      /\ rpc'[p] = "idle"
      /\ \A q \in Procs \ {p} : rpc'[q] = IF rpc[q] = "nodesc" THEN "start" ELSE rpc[q]
  BY <1>0, FinishEffect, Zenon
<1>2. UNCHANGED <<avail, used, busy, taken, done>> /\ p \notin busy /\ rpc[p] = "wait"
  BY Zenon DEF Finish, dev
<1>3. InFlight' = InFlight \ {p} /\ p \in InFlight /\ InFlight \subseteq Procs
  BY <1>1, <1>2 DEF InFlight
<1>4. info[head[p]] = p /\ head[p] \in Chain(head[p])
  BY <1>0, <1>3, Zenon DEF ChainsSound, Chained, Chain
<1>5. \A q \in InFlight \ {p} : Chain(head[q])' = Chain(head[q]) /\ Chained(q)'
  <2>1. SUFFICES ASSUME NEW q \in InFlight \ {p} PROVE Chain(head[q])' = Chain(head[q]) /\ Chained(q)'
    BY Zenon
  <2>2. q # p /\ q \in Procs /\ head'[q] = head[q]
    BY <1>1, <1>3, Zenon
  <2>3. Chained(q) /\ Chain(head[q]) \cap Chain(head[p]) = {}
    BY <1>0, <1>3, <2>2, Zenon DEF ChainsSound
  <2>4. PICK a, b, c \in Desc : a = head[q] /\ b = next[a] /\ c = next[b] /\ Chain(head[q]) = {a, b, c}
                                /\ a # b /\ b # c /\ a # c /\ info[a] = q
    BY <2>3, Zenon DEF Chained, Chain
  <2>5. a \notin Chain(head[p]) /\ b \notin Chain(head[p]) /\ c \notin Chain(head[p])
    BY <2>3, <2>4, Zenon
  <2>6. head'[q] = a /\ next'[a] = b /\ next'[b] = c /\ info'[a] = q
    BY <1>1, <1>4, <2>2, <2>4, <2>5, Zenon
  <2>7. Chain(head[q])' = {a, b, c}
    BY <2>6, Zenon DEF Chain
  <2>8. Chained(q)'
    BY <2>4, <2>6 DEF Chained
  <2> QED
    BY <2>4, <2>7, <2>8, Zenon
<1>6. ChainsSound'
  <2>1. \A q \in InFlight' : Chained(q)' /\ Chain(head[q])' \cap free' = {}
    <3>1. \A q \in InFlight \ {p} : Chain(head[q]) \cap free = {} /\ Chain(head[q]) \cap Chain(head[p]) = {}
      BY <1>0, <1>3, Zenon DEF ChainsSound
    <3> QED
      BY <1>1, <1>3, <1>5, <3>1
  <2>2. \A q, r \in InFlight' : q # r => Chain(head[q])' \cap Chain(head[r])' = {}
    BY <1>0, <1>3, <1>5, Zenon DEF ChainsSound
  <2> QED
    BY <2>1, <2>2, Zenon DEF ChainsSound
<1>7. \A d : Pending(d) => Pending(d)' /\ info'[d] = info[d]
  <2>1. SUFFICES ASSUME NEW d, Pending(d) PROVE Pending(d)' /\ info'[d] = info[d]
    BY Zenon
  <2>2. d \in Desc /\ info[d] \in InFlight /\ info[d] # p
    BY <1>2, <2>1, PendingTaken, Zenon DEF Pending
  <2>3. d # head[p] /\ info'[d] = info[d] /\ head'[info[d]] = head[info[d]]
    BY <1>1, <1>3, <1>4, <2>2, Zenon
  <2> QED
    BY <1>2, <2>1, <2>3, Zenon DEF Pending
<1>8. RingsSound'
  <2>1. \A n \in 1 .. Len(avail') : Pending(avail[n])' /\ avail'[n] \notin taken'
    <3>1. SUFFICES ASSUME NEW n \in 1 .. Len(avail) PROVE Pending(avail[n])' /\ avail[n] \notin taken
      BY <1>2, Zenon
    <3>2. Pending(avail[n]) /\ avail[n] \notin taken
      BY <1>0, Zenon DEF RingsSound
    <3> QED
      BY <1>2, <1>7, <3>2, Zenon DEF Pending
  <2>2. \A d \in taken' : Pending(d)'
    BY <1>0, <1>2, <1>7, Zenon DEF RingsSound
  <2>3. \A n \in 1 .. Len(used') : Pending(used[n])' /\ used'[n] \notin taken' /\ info'[used'[n]] \in done'
    <3>1. SUFFICES ASSUME NEW n \in 1 .. Len(used)
                   PROVE  Pending(used[n])' /\ used[n] \notin taken /\ info'[used[n]] \in done
      BY <1>2, Zenon
    <3>2. Pending(used[n]) /\ used[n] \notin taken /\ info[used[n]] \in done
      BY <1>0, Zenon DEF RingsSound
    <3> QED
      BY <1>2, <1>7, <3>2, Zenon DEF Pending
  <2>4. /\ \A m, n \in 1 .. Len(avail') : avail'[m] = avail'[n] => m = n
        /\ \A m, n \in 1 .. Len(used') : used'[m] = used'[n] => m = n
        /\ \A m \in 1 .. Len(avail'), n \in 1 .. Len(used') : avail'[m] # used'[n]
    BY <1>0, <1>2, Zenon DEF RingsSound
  <2> QED
    BY <2>1, <2>2, <2>3, <2>4, Zenon DEF RingsSound
<1>9. OnlyDoneReturn' /\ busy' \subseteq InFlight'
  BY <1>2, <1>3, Zenon DEF DiskInv, OnlyDoneReturn
<1>10. NoDescMeansFew'
  BY <1>1, Zenon DEF NoDescMeansFew
<1> QED
  BY <1>3, <1>6, <1>8, <1>9, <1>10, Zenon

(* Every step keeps the invariant.                                          *)
LEMMA DiskStep == DiskInv /\ FreeCount /\ [DiskNext]_DiskVars => DiskInv'
<1>1. ASSUME DiskInv, FreeCount, DiskNext PROVE DiskInv'
  <2>1. DiskTypeOK'
    BY <1>1, DiskTypeStep
  <2>2. ASSUME NEW p \in Procs, Submit(p) PROVE DiskInv'
    BY <1>1, <2>1, <2>2, SubmitStep, Zenon DEF DiskInv
  <2>3. ASSUME NEW p \in Procs, Finish(p) PROVE DiskInv'
    BY <1>1, <2>1, <2>3, FinishStep, Zenon DEF DiskInv
  <2>4. ASSUME IntrEntry \/ DevTake PROVE DiskInv'
    BY <1>1, <2>1, <2>4, IntrEntryStep, DevTakeStep, Zenon DEF DiskInv
  <2>5. ASSUME NEW i \in Desc, DevDone(i) PROVE DiskInv'
    BY <1>1, <2>1, <2>5, DevDoneStep, Zenon DEF DiskInv
  <2>6. ASSUME \/ \E p \in Procs : Call(p) \/ Acquire(p) \/ WaitDone(p) \/ NoDesc(p)
               \/ IntrAck \/ IntrEnd
        PROVE  DiskInv'
    <3>1. /\ UNCHANGED <<free, next, info, head, avail, used, taken, busy>>
          /\ InFlight' = InFlight
          /\ \A q \in InFlight : q \in done => q \in done'
          /\ NoDescMeansFew'
      BY <1>1, <2>6, QuietActions, Zenon
    <3>2. busy' \subseteq InFlight' /\ ChainsSound' /\ RingsSound' /\ OnlyDoneReturn'
      BY <1>1, <3>1, QuietStep, Zenon
    <3> QED
      BY <2>1, <3>1, <3>2 DEF DiskInv
  <2> QED
    BY <1>1, <2>2, <2>3, <2>4, <2>5, <2>6, Zenon DEF DiskNext, Request, Intr, Device
<1>2. ASSUME DiskInv, UNCHANGED DiskVars PROVE DiskInv'
  <2>1. InFlight' = InFlight /\ DiskTypeOK' /\ NoDescMeansFew'
    BY <1>2 DEF InFlight, DiskVars, dev, DiskInv, DiskTypeOK, NoDescMeansFew
  <2>2. UNCHANGED <<free, next, info, head, avail, used, taken, busy, done>>
    BY <1>2, Zenon DEF DiskVars, dev
  <2>3. busy' \subseteq InFlight' /\ ChainsSound' /\ RingsSound' /\ OnlyDoneReturn'
    BY <1>2, <2>1, <2>2, QuietStep, Zenon
  <2> QED
    BY <2>1, <2>3, Zenon DEF DiskInv
<1> QED
  BY <1>1, <1>2, Zenon

(* With the count, it implies RequestsSound.                                *)
LEMMA DiskMeans == DiskInv /\ Balanced => RequestsSound
<1> SUFFICES ASSUME DiskInv, Balanced PROVE RequestsSound
  BY Zenon
<1>1. DescriptorsAccounted
  <2>1. \A p \in InFlight : Chain(head[p]) \subseteq Desc \ free
    BY ChainTaken, Zenon DEF DiskInv
  <2> QED
    BY <2>1, Zenon DEF DiskInv, ChainsSound, DescriptorsAccounted, Balanced
<1>2. EntriesFresh
  <2> DEFINE outstanding == avail \o used
  <2>1. Len(avail) \in Int
    BY DEF DiskInv, DiskTypeOK
  <2>2. \A n \in 1 .. Len(outstanding) :
          \/ n \in 1 .. Len(avail) /\ outstanding[n] = avail[n]
          \/ n - Len(avail) \in 1 .. Len(used) /\ outstanding[n] = used[n - Len(avail)]
    BY JoinedCells, Zenon DEF DiskInv, DiskTypeOK
  <2>3. \A n \in 1 .. Len(outstanding) : info[outstanding[n]] \in busy
    BY <2>2 DEF DiskInv, RingsSound, Pending
  <2>4. \A m, n \in 1 .. Len(outstanding) : outstanding[m] = outstanding[n] => m = n
    <3> HIDE DEF outstanding
    <3>1. SUFFICES ASSUME NEW m \in 1 .. Len(outstanding), NEW n \in 1 .. Len(outstanding),
                          outstanding[m] = outstanding[n]
                   PROVE  m = n
      BY Zenon
    <3>2. /\ \A a, b \in 1 .. Len(avail) : avail[a] = avail[b] => a = b
          /\ \A a, b \in 1 .. Len(used) : used[a] = used[b] => a = b
          /\ \A a \in 1 .. Len(avail), b \in 1 .. Len(used) : avail[a] # used[b]
      BY Zenon DEF DiskInv, RingsSound
    <3>3. m \in Int /\ n \in Int /\ Len(avail) \in Int
      BY <2>1
    <3>4. CASE m \in 1 .. Len(avail) /\ outstanding[m] = avail[m]
      BY <2>2, <3>1, <3>2, <3>4, Zenon
    <3>5. CASE m - Len(avail) \in 1 .. Len(used) /\ outstanding[m] = used[m - Len(avail)]
      <4>1. n - Len(avail) \in 1 .. Len(used) /\ outstanding[n] = used[n - Len(avail)]
        BY <2>2, <3>1, <3>2, <3>5, Zenon
      <4>2. m - Len(avail) = n - Len(avail)
        BY <3>1, <3>2, <3>5, <4>1, Zenon
      <4> QED
        BY <3>3, <4>2
    <3> QED
      BY <2>2, <3>4, <3>5, Zenon
  <2> QED
    BY <2>3, <2>4, Zenon DEF EntriesFresh
<1> QED
  BY <1>1, <1>2 DEF DiskInv, RequestsSound

-----------------------------------------------------------------------------
INSTANCE FiniteSetTheorems

(* What is counted is finite.                                               *)
LEMMA DiskFinite ==
  ASSUME DiskTypeOK
  PROVE  FreeCount /\ IsFiniteSet(free) /\ IsFiniteSet(InFlight) /\ Cardinality(InFlight) \in Nat
<1>1. IsFiniteSet(Desc)
  <2>1. 0 \in Int /\ NUM - 1 \in Int
    BY DiskAssumption
  <2> QED
    BY <2>1, FS_Interval, Zenon DEF Desc
<1>2. free \subseteq Desc /\ InFlight \subseteq Procs
  BY DEF DiskTypeOK, InFlight
<1>3. IsFiniteSet(free) /\ IsFiniteSet(InFlight)
  BY <1>1, <1>2, FS_Subset, DiskAssumption, Zenon
<1> QED
  BY <1>3, FS_CardinalityType, Zenon DEF FreeCount

(* Every step keeps the count: three descriptors for a request more or      *)
(* less.                                                                    *)
LEMMA BalancedStep == DiskInv /\ Balanced /\ [DiskNext]_DiskVars => Balanced'
<1> SUFFICES ASSUME DiskInv, Balanced, [DiskNext]_DiskVars PROVE Balanced'
  OBVIOUS
<1>0. /\ DiskTypeOK /\ ChainsSound /\ FreeCount /\ IsFiniteSet(free) /\ IsFiniteSet(InFlight)
      /\ Cardinality(InFlight) \in Nat
  BY DiskFinite, Zenon DEF DiskInv
<1>1. ASSUME NEW p \in Procs, Submit(p) PROVE Balanced'
  <2>1. PICK i, j, k \in Desc : /\ i \in free /\ j \in free /\ k \in free /\ i # j /\ j # k /\ i # k
                                /\ free' = free \ {i, j, k}
    BY <1>1, SubmitTakes, Zenon
  <2>2. InFlight' = InFlight \cup {p} /\ p \notin InFlight
    BY <1>0, <1>1, SubmitStep, Zenon
  <2>3. free' = ((free \ {i}) \ {j}) \ {k}
    BY <2>1, Zenon
  <2>4. Cardinality(free \ {i}) = Cardinality(free) - 1 /\ IsFiniteSet(free \ {i})
    BY <1>0, <2>1, FS_RemoveElement, Zenon
  <2>5. Cardinality((free \ {i}) \ {j}) = Cardinality(free \ {i}) - 1 /\ IsFiniteSet((free \ {i}) \ {j})
    BY <2>1, <2>4, FS_RemoveElement, Zenon
  <2>6. Cardinality(free') = Cardinality((free \ {i}) \ {j}) - 1
    <3>1. k \in (free \ {i}) \ {j}
      BY <2>1, Zenon
    <3> QED
      BY <2>3, <2>5, <3>1, FS_RemoveElement, Zenon
  <2>7. Cardinality(InFlight') = Cardinality(InFlight) + 1
    BY <1>0, <2>2, FS_AddElement, Zenon
  <2> QED
    BY <1>0, <2>4, <2>5, <2>6, <2>7 DEF Balanced, FreeCount
<1>2. ASSUME NEW p \in Procs, Finish(p) PROVE Balanced'
  <2>1. free' = free \cup Chain(head[p])
    BY <1>0, <1>2, FinishEffect, Zenon
  <2>2. InFlight' = InFlight \ {p} /\ p \in InFlight
    BY <1>2, FinishStep, Zenon
  <2>3. PICK i, j, k \in Desc : /\ Chain(head[p]) = {i, j, k} /\ i # j /\ j # k /\ i # k
                                /\ i \notin free /\ j \notin free /\ k \notin free
    BY <1>0, <2>2, ChainTaken, Zenon
  <2>4. free' = ((free \cup {i}) \cup {j}) \cup {k}
    BY <2>1, <2>3, Zenon
  <2>5. Cardinality(free \cup {i}) = Cardinality(free) + 1 /\ IsFiniteSet(free \cup {i})
    BY <1>0, <2>3, FS_AddElement, Zenon
  <2>6. Cardinality((free \cup {i}) \cup {j}) = Cardinality(free \cup {i}) + 1 /\ IsFiniteSet((free \cup {i}) \cup {j})
    BY <2>3, <2>5, FS_AddElement, Zenon
  <2>7. Cardinality(free') = Cardinality((free \cup {i}) \cup {j}) + 1
    BY <2>3, <2>4, <2>6, FS_AddElement, Zenon
  <2>8. Cardinality(InFlight') = Cardinality(InFlight) - 1
    BY <1>0, <2>2, FS_RemoveElement, Zenon
  <2> QED
    BY <1>0, <2>5, <2>6, <2>7, <2>8 DEF Balanced, FreeCount
<1>3. ASSUME UNCHANGED free, InFlight' = InFlight PROVE Balanced'
  BY <1>3, Zenon DEF Balanced
<1>4. ASSUME \/ \E p \in Procs : Call(p) \/ Acquire(p) \/ WaitDone(p) \/ NoDesc(p)
             \/ IntrAck \/ IntrEnd
      PROVE  Balanced'
  BY <1>3, <1>4, QuietActions, Zenon
<1>5. ASSUME IntrEntry PROVE Balanced'
  <2>1. UNCHANGED free /\ \E p : rpc' = [q \in Procs |-> IF q = p /\ rpc[q] = "asleep" THEN "woken" ELSE rpc[q]]
    BY <1>5, Zenon DEF IntrEntry
  <2>2. InFlight' = InFlight
    BY <2>1, Zenon DEF InFlight
  <2> QED
    BY <1>3, <2>1, <2>2, Zenon
<1>6. ASSUME DevTake \/ \E i \in Desc : DevDone(i) PROVE Balanced'
  <2>1. UNCHANGED <<free, rpc>>
    BY <1>6, Zenon DEF DevTake, DevDone
  <2>2. InFlight' = InFlight
    BY <2>1, Zenon DEF InFlight
  <2> QED
    BY <1>3, <2>1, <2>2, Zenon
<1>7. ASSUME UNCHANGED DiskVars PROVE Balanced'
  <2>1. UNCHANGED free /\ InFlight' = InFlight
    BY <1>7, Zenon DEF DiskVars, InFlight
  <2> QED
    BY <1>3, <2>1, Zenon
<1> QED
  BY <1>1, <1>2, <1>4, <1>5, <1>6, <1>7, Zenon DEF DiskNext, Request, Intr, Device

(* It is right at the start.                                                *)
LEMMA DiskStartsBalanced == DiskInit => Balanced
<1> SUFFICES ASSUME DiskInit PROVE Balanced
  BY Zenon
<1>1. InFlight = {} /\ free = 0 .. NUM - 1
  BY Zenon DEF DiskInit, InFlight, Desc
<1>2. Cardinality(InFlight) = 0
  BY <1>1, FS_EmptySet, Zenon
<1>3. Cardinality(free) = NUM
  <2>1. 0 \in Int /\ NUM - 1 \in Int /\ ~(0 > NUM - 1) /\ (NUM - 1) - 0 + 1 = NUM
    BY DiskAssumption
  <2>2. Cardinality(0 .. NUM - 1) = IF 0 > NUM - 1 THEN 0 ELSE (NUM - 1) - 0 + 1
    BY <2>1, FS_Interval, Zenon
  <2> QED
    BY <1>1, <2>1, <2>2, Zenon
<1> QED
  BY <1>2, <1>3, DiskAssumption DEF Balanced

(* Descriptors are neither leaked nor shared, a process sleeps for them     *)
(* only while there are fewer than three, every ring entry belongs to one   *)
(* request that still waits, and virtio_disk_rw() returns only when the     *)
(* device has carried out its request: for any number of processes and of   *)
(* descriptors, in whatever order the device finishes.                      *)
THEOREM DiskRequestsSound == DiskSpec => []RequestsSound
<1>1. DiskInit => DiskInv /\ Balanced
  BY DiskStarts, DiskStartsBalanced
<1>2. DiskInv /\ Balanced /\ [DiskNext]_DiskVars => DiskInv' /\ Balanced'
  <2>1. DiskInv => FreeCount
    BY DiskFinite, Zenon DEF DiskInv
  <2> QED
    BY <2>1, DiskStep, BalancedStep, Zenon
<1>3. DiskInv /\ Balanced => RequestsSound
  BY DiskMeans, Zenon
<1> QED
  BY <1>1, <1>2, <1>3, PTL DEF DiskSpec

-----------------------------------------------------------------------------
(* There are finitely many locks.                                           *)
LEMMA HeldCount == HeldCounts
<1> SUFFICES ASSUME NEW S \in SUBSET Locks
             PROVE  /\ Cardinality(S) \in Nat
                    /\ Cardinality(S) = 0 <=> S = {}
                    /\ \A l \in Locks : l \notin S => Cardinality(S \cup {l}) = Cardinality(S) + 1
                    /\ \A l \in Locks : l \in S => Cardinality(S \ {l}) = Cardinality(S) - 1
  BY Zenon DEF HeldCounts
<1>1. IsFiniteSet(Locks)
  BY FS_Interval, SizesAssumption DEF Locks
<1>2. IsFiniteSet(S)
  BY <1>1, FS_Subset
<1>3. Cardinality(S) \in Nat
  BY <1>2, FS_CardinalityType, Zenon
<1>4. Cardinality(S) = 0 <=> S = {}
  BY <1>2, FS_EmptySet, Zenon
<1>5. \A l \in Locks : l \notin S => Cardinality(S \cup {l}) = Cardinality(S) + 1
  BY <1>2, FS_AddElement
<1>6. \A l \in Locks : l \in S => Cardinality(S \ {l}) = Cardinality(S) - 1
  BY <1>2, FS_RemoveElement, Zenon
<1> QED BY <1>3, <1>4, <1>5, <1>6, Zenon

(* A lock has one owner at a time, no test in acquire(), release() or       *)
(* pop_off() panics, and a hart takes interrupts exactly when it has no     *)
(* lock and is in no handler: for any number of harts and of locks.         *)
THEOREM LocksStaySound == Spec => []LocksSound
<1>1. LockInv /\ [Next]_vars => LockInv'
  BY LocksStep, HeldCount, Zenon
<1>2. Init => LockInv
  BY LocksStart, HeldCount, Zenon
<1>3. LockInv => LocksSound
  BY Zenon DEF LockInv, LocksSound
<1> QED BY <1>1, <1>2, <1>3, PTL DEF Spec
=============================================================================
