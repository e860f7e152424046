-------------------------------- MODULE Mlfq --------------------------------
(***************************************************************************)
(* The multi-level feedback queue scheduler of the xv6 kernel, built with  *)
(* SCHEDULER=MLFQ: the run queues, scheduler(), yield(), sleep(), wakeup(),*)
(* kfork(), kexit(), kwait() as far as they move a process between states  *)
(* and queues, the clock interrupt and the priority boost                  *)
(* (xv6/kernel/proc.c, xv6/kernel/trap.c).                                 *)
(*                                                                         *)
(* Grain.  p->lock and mlfq_lock are spinlocks.  A step is the largest     *)
(* piece of code whose effect no other CPU can see half done: one          *)
(* mlfq_lock section, or one p->lock section that releases the lock it     *)
(* took.  A section that keeps p->lock across a context switch (yield,     *)
(* sleep, kexit up to the release in scheduler()) is several steps, and    *)
(* Locked(p) says which processes are locked meanwhile.  Every loop over   *)
(* the process table that takes one p->lock at a time is one step per      *)
(* entry.                                                                  *)
(***************************************************************************)
EXTENDS Integers, Sequences, FiniteSets

CONSTANTS
  NPROC,        \* entries of the process table (param.h: 64)
  CPUs,         \* the harts
  Boot,         \* hart 0, the one whose clock interrupt counts ticks
  Slice,        \* ticks a process may use at each level (1, 4, 8, 16)
  BoostPeriod   \* ticks between two boosts (48)

ASSUME NprocAssumption == NPROC \in Nat \ {0}
ASSUME CpusAssumption == Boot \in CPUs
ASSUME SliceAssumption == Slice \in [0..3 -> Nat \ {0}]
ASSUME BoostAssumption == BoostPeriod \in Nat \ {0}

Proc == 1..NPROC
None == 0                 \* C's null struct proc *
Levels == 0..3
initproc == 1             \* userinit() takes the first table entry

VARIABLES
  state,    \* p->state
  queue,    \* p->queue
  ticks,    \* p->ticks
  chan,     \* what p sleeps on: the tick counter, or anything else
  child,    \* the entry p's kfork() has allocated and not yet made RUNNABLE
  mlfq,     \* mlfq[q], with qcount[q] its length
  pc,       \* where each hart is
  qi,       \* i of the scheduler's loop over the queues
  cand,     \* the process dequeue() returned to the scheduler
  proc,     \* cpu->proc
  clock,    \* the global ticks, modulo BoostPeriod
  idx,      \* loop index of the clock interrupt's loops over proc[]
  fault     \* a panic() was reached or an array overrun

vars == <<state, queue, ticks, chan, child, mlfq, pc, qi, cand, proc, clock,
          idx, fault>>
procVars == <<state, queue, ticks, chan>>
cpuVars == <<qi, cand, proc>>
clockVars == <<clock, idx>>

ProcState == {"UNUSED", "USED", "SLEEPING", "RUNNABLE", "RUNNING", "ZOMBIE"}

(* "idle": at the top of scheduler()'s loop, where interrupts are enabled;  *)
(* "scan": in its loop over the queues, interrupts off; "hand": has         *)
(* dequeued cand and will take its lock; "run": runs proc with interrupts   *)
(* enabled; "tick", "boost", "requeue": inside clockintr(); "yield": about  *)
(* to call yield(); "enq": in yield(), before enqueue(); "out": proc has    *)
(* changed its state and still holds p->lock, which scheduler() is about    *)
(* to release.                                                              *)
Pc == {"idle", "scan", "hand", "run", "tick", "boost", "requeue", "yield",
       "enq", "out"}

TypeOK ==
  /\ state \in [Proc -> ProcState]
  /\ queue \in [Proc -> Levels]
  /\ ticks \in [Proc -> Nat]
  /\ chan \in [Proc -> {"none", "ticks", "other"}]
  /\ child \in [Proc -> Proc \cup {None}]
  /\ mlfq \in [Levels -> Seq(Proc)]
  /\ pc \in [CPUs -> Pc]
  /\ qi \in [CPUs -> Levels]
  /\ cand \in [CPUs -> Proc \cup {None}]
  /\ proc \in [CPUs -> Proc \cup {None}]
  /\ clock \in Nat
  /\ idx \in 1..NPROC
  /\ fault \in {"none", "panic", "overrun"}

-----------------------------------------------------------------------------
(* Before userinit() the table is empty; after it, init is RUNNABLE and     *)
(* queued at level 0, and every hart enters scheduler().                    *)
Init ==
  /\ state = [p \in Proc |-> IF p = initproc THEN "RUNNABLE" ELSE "UNUSED"]
  /\ queue = [p \in Proc |-> 0]
  /\ ticks = [p \in Proc |-> 0]
  /\ chan = [p \in Proc |-> "none"]
  /\ child = [p \in Proc |-> None]
  /\ mlfq = [q \in Levels |-> IF q = 0 THEN <<initproc>> ELSE <<>>]
  /\ pc = [c \in CPUs |-> "idle"]
  /\ qi = [c \in CPUs |-> 0]
  /\ cand = [c \in CPUs |-> None]
  /\ proc = [c \in CPUs |-> None]
  /\ clock = 0
  /\ idx = 1
  /\ fault = "none"

(* Wrong: p->lock is not kept across the context switch.                    *)
LockedNever(p) == FALSE

(* p->lock is held across a step: its owner is between yield()'s acquire    *)
(* and the release in scheduler().                                          *)
Locked(p) == \E c \in CPUs : pc[c] \in {"enq", "out"} /\ proc[c] = p

(* enqueue(q, p): panics when the array is full.                            *)
enqueue(q, p) ==
  IF Len(mlfq[q]) >= NPROC
  THEN fault' = "panic" /\ UNCHANGED mlfq
  ELSE mlfq' = [mlfq EXCEPT ![q] = Append(@, p)] /\ UNCHANGED fault

-----------------------------------------------------------------------------
(* Wrong: dequeue() shifts the queue and forgets qcount[q]--.               *)
ShiftedNoDecrement(s) == Append(Tail(s), s[Len(s)])

(* dequeue(): the queue without its first entry.                            *)
Shifted(s) == Tail(s)

(* scheduler(): dequeue(qi[c]), or the next queue, or wfi and start over.   *)
Dequeue(c) ==
  /\ pc[c] \in {"idle", "scan"}
  /\ IF mlfq[qi[c]] = <<>>
     THEN /\ qi' = [qi EXCEPT ![c] = IF @ < 3 THEN @ + 1 ELSE 0]
          /\ pc' = [pc EXCEPT ![c] = IF qi[c] < 3 THEN "scan" ELSE "idle"]
          /\ UNCHANGED <<mlfq, cand>>
     ELSE /\ cand' = [cand EXCEPT ![c] = Head(mlfq[qi[c]])]
          /\ mlfq' = [mlfq EXCEPT ![qi[c]] = Shifted(@)]
          /\ pc' = [pc EXCEPT ![c] = "hand"]
          /\ UNCHANGED qi
  /\ UNCHANGED <<procVars, child, proc, clockVars, fault>>

(* scheduler(): take cand's lock; run it, or drop it when not RUNNABLE.     *)
(* The process resumes inside yield(), sleep() or forkret(), which release  *)
(* p->lock; sleep() also clears p->chan.                                    *)
Dispatch(c) ==
  LET p == cand[c] IN
  /\ pc[c] = "hand"
  /\ ~Locked(p)
  /\ cand' = [cand EXCEPT ![c] = None]
  /\ IF state[p] = "RUNNABLE"
     THEN /\ state' = [state EXCEPT ![p] = "RUNNING"]
          /\ chan' = [chan EXCEPT ![p] = "none"]
          /\ proc' = [proc EXCEPT ![c] = p]
          /\ pc' = [pc EXCEPT ![c] = "run"]
     ELSE /\ pc' = [pc EXCEPT ![c] = "scan"]
          /\ UNCHANGED <<state, chan, proc>>
  /\ UNCHANGED <<queue, ticks, child, mlfq, qi, clockVars, fault>>

(* Wrong: the search goes on where it was instead of at queue 0.            *)
SwitchOutNoRestart(c) ==
  /\ pc[c] = "out"
  /\ proc' = [proc EXCEPT ![c] = None]
  /\ pc' = [pc EXCEPT ![c] = "scan"]
  /\ UNCHANGED <<procVars, child, mlfq, qi, cand, clockVars, fault>>

(* Back in scheduler() after the process's swtch(): c->proc = 0, p->lock is *)
(* released, and the search restarts at queue 0.                            *)
SwitchOut(c) ==
  /\ pc[c] = "out"
  /\ proc' = [proc EXCEPT ![c] = None]
  /\ qi' = [qi EXCEPT ![c] = 0]
  /\ pc' = [pc EXCEPT ![c] = "idle"]
  /\ UNCHANGED <<procVars, child, mlfq, cand, clockVars, fault>>

-----------------------------------------------------------------------------
(* yield(): a process of a higher queue waits.                              *)
Preempt(p) == \E i \in Levels : i < queue[p] /\ mlfq[i] # <<>>

(* Wrong: a preempted process is demoted as if its slice were used up.      *)
ExpiredOrPreempted(p) == ticks[p] + 1 >= Slice[queue[p]] \/ Preempt(p)

(* yield(): with this tick p has used up its slice.                         *)
Expired(p) == ticks[p] + 1 >= Slice[queue[p]]

(* yield(): the level below q.                                              *)
Demoted(q) == IF q < 3 THEN q + 1 ELSE q

(* yield(): charge the tick, look at the higher queues, decide.             *)
YieldCharge(c) ==
  LET p == proc[c] IN
  /\ pc[c] = "yield"
  /\ ticks' = [ticks EXCEPT ![p] = IF Expired(p) THEN 0 ELSE @ + 1]
  /\ queue' = [queue EXCEPT ![p] = IF Expired(p) THEN Demoted(@) ELSE @]
  /\ IF Expired(p) \/ Preempt(p)
     THEN /\ state' = [state EXCEPT ![p] = "RUNNABLE"]
          /\ pc' = [pc EXCEPT ![c] = "enq"]
     ELSE /\ pc' = [pc EXCEPT ![c] = "run"]
          /\ UNCHANGED state
  /\ UNCHANGED <<chan, child, mlfq, cpuVars, clockVars, fault>>

(* yield(): enqueue(p->queue, p) and sched().                               *)
YieldEnqueue(c) ==
  /\ pc[c] = "enq"
  /\ enqueue(queue[proc[c]], proc[c])
  /\ pc' = [pc EXCEPT ![c] = "out"]
  /\ UNCHANGED <<procVars, child, cpuVars, clockVars>>

-----------------------------------------------------------------------------
(* sleep(): gives up the rest of its slice and keeps its level.  kfork()    *)
(* never sleeps between allocproc() and making the child RUNNABLE.          *)
Sleep(c, ch) ==
  LET p == proc[c] IN
  /\ pc[c] = "run"
  /\ child[p] = None
  /\ state' = [state EXCEPT ![p] = "SLEEPING"]
  /\ ticks' = [ticks EXCEPT ![p] = 0]
  /\ chan' = [chan EXCEPT ![p] = ch]
  /\ pc' = [pc EXCEPT ![c] = "out"]
  /\ UNCHANGED <<queue, child, mlfq, cpuVars, clockVars, fault>>

(* The p->lock section of wakeup() and kkill() for a sleeping p.            *)
MakeRunnable(p) ==
  /\ state' = [state EXCEPT ![p] = "RUNNABLE"]
  /\ enqueue(queue[p], p)

(* A process, or a device interrupt handler, on hart c wakes or kills a     *)
(* sleeping p.                                                              *)
Wakeup(c, p) ==
  /\ pc[c] \in {"run", "idle"}
  /\ p # proc[c]
  /\ state[p] = "SLEEPING"
  /\ ~Locked(p)
  /\ MakeRunnable(p)
  /\ UNCHANGED <<queue, ticks, chan, child, pc, cpuVars, clockVars>>

(* kexit(): from a system call, or from usertrap() when the process was     *)
(* killed and would otherwise have yielded.  init never exits.              *)
Exit(c) ==
  LET p == proc[c] IN
  /\ pc[c] \in {"run", "yield"}
  /\ p # initproc
  /\ child[p] = None
  /\ state' = [state EXCEPT ![p] = "ZOMBIE"]
  /\ pc' = [pc EXCEPT ![c] = "out"]
  /\ UNCHANGED <<queue, ticks, chan, child, mlfq, cpuVars, clockVars, fault>>

(* kfork(), first part: allocproc() takes an UNUSED entry.  Its scan takes  *)
(* one lock at a time, so any UNUSED entry may be the one it finds.         *)
ForkAlloc(c, np) ==
  LET p == proc[c] IN
  /\ pc[c] = "run"
  /\ child[p] = None
  /\ state[np] = "UNUSED"
  /\ state' = [state EXCEPT ![np] = "USED"]
  /\ queue' = [queue EXCEPT ![np] = 0]
  /\ ticks' = [ticks EXCEPT ![np] = 0]
  /\ child' = [child EXCEPT ![p] = np]
  /\ UNCHANGED <<chan, mlfq, pc, cpuVars, clockVars, fault>>

(* kfork(), last part: the child becomes RUNNABLE and is queued.            *)
ForkReady(c) ==
  LET p == proc[c] IN
  /\ pc[c] = "run"
  /\ child[p] # None
  /\ MakeRunnable(child[p])
  /\ child' = [child EXCEPT ![p] = None]
  /\ UNCHANGED <<queue, ticks, chan, pc, cpuVars, clockVars>>

(* kwait(): the p->lock section in which a zombie child is freed.           *)
Reap(c, z) ==
  /\ pc[c] = "run"
  /\ child[proc[c]] = None
  /\ state[z] = "ZOMBIE"
  /\ ~Locked(z)
  /\ state' = [state EXCEPT ![z] = "UNUSED"]
  /\ chan' = [chan EXCEPT ![z] = "none"]
  /\ UNCHANGED <<queue, ticks, child, mlfq, pc, cpuVars, clockVars, fault>>

-----------------------------------------------------------------------------
(* The clock interrupt.  After clockintr(), usertrap() and kerneltrap()     *)
(* call yield() when a process was interrupted; scheduler() goes on with    *)
(* its search, interrupts off.                                              *)
AfterClock(c) == IF proc[c] # None THEN "yield" ELSE "scan"

(* A timer interrupt is taken in user or kernel code, or at the intr_on()   *)
(* of the scheduler's loop.  Only hart 0 has anything to do in clockintr(). *)
Timer(c) ==
  /\ pc[c] = "run" \/ (c = Boot /\ pc[c] = "idle")
  /\ IF c = Boot
     THEN /\ clock' = (clock + 1) % BoostPeriod
          /\ idx' = 1
          /\ pc' = [pc EXCEPT ![c] = "tick"]
     ELSE /\ pc' = [pc EXCEPT ![c] = AfterClock(c)]
          /\ UNCHANGED clockVars
  /\ UNCHANGED <<procVars, child, mlfq, cpuVars, fault>>

(* clockintr(): ticks % 48 == 0.                                            *)
BoostDue == clock = 0

(* One iteration of the loop wakeup(&ticks) runs; then the boost if it is   *)
(* due.                                                                     *)
TickWakeup ==
  LET c == Boot
      p == idx IN
  /\ pc[c] = "tick"
  /\ ~Locked(p)
  /\ IF p # proc[c] /\ state[p] = "SLEEPING" /\ chan[p] = "ticks"
     THEN MakeRunnable(p)
     ELSE UNCHANGED <<state, mlfq, fault>>
  /\ IF p < NPROC
     THEN idx' = p + 1 /\ UNCHANGED pc
     ELSE /\ idx' = 1
          /\ pc' = [pc EXCEPT ![c] = IF BoostDue THEN "boost" ELSE AfterClock(c)]
  /\ UNCHANGED <<queue, ticks, chan, child, cpuVars, clock>>

(* Wrong: the boost resets the level and not the ticks.                     *)
ResetLevelOnly(p) ==
  /\ queue' = [queue EXCEPT ![p] = 0]
  /\ UNCHANGED ticks

(* boost_priority(): p->queue = 0; p->ticks = 0.                            *)
ResetLevel(p) ==
  /\ queue' = [queue EXCEPT ![p] = 0]
  /\ ticks' = [ticks EXCEPT ![p] = 0]

(* boost_priority(), first loop: one process under its p->lock.             *)
BoostReset ==
  LET c == Boot
      p == idx IN
  /\ pc[c] = "boost"
  /\ ~Locked(p)
  /\ ResetLevel(p)
  /\ IF p < NPROC
     THEN idx' = p + 1 /\ UNCHANGED pc
     ELSE idx' = 1 /\ pc' = [pc EXCEPT ![c] = "requeue"]
  /\ UNCHANGED <<state, chan, child, mlfq, cpuVars, clock, fault>>

(* Wrong: the loop that gathers the queues stops before the lowest level.   *)
BoostForgetsLowest ==
  /\ pc[Boot] = "requeue"
  /\ mlfq' = [q \in Levels |-> IF q = 0 THEN mlfq[0] \o mlfq[1] \o mlfq[2] ELSE <<>>]
  /\ pc' = [pc EXCEPT ![Boot] = AfterClock(Boot)]
  /\ UNCHANGED <<procVars, child, cpuVars, clockVars, fault>>

(* boost_priority(), the mlfq_lock section: all queues, in order, into      *)
(* queue 0.  temp[] and mlfq[0] hold NPROC entries.                         *)
BoostRequeue ==
  LET c == Boot
      temp == mlfq[0] \o mlfq[1] \o mlfq[2] \o mlfq[3] IN
  /\ pc[c] = "requeue"
  /\ mlfq' = [q \in Levels |-> IF q = 0 THEN temp ELSE <<>>]
  /\ fault' = IF Len(temp) > NPROC THEN "overrun" ELSE fault
  /\ pc' = [pc EXCEPT ![c] = AfterClock(c)]
  /\ UNCHANGED <<procVars, child, cpuVars, clockVars>>

-----------------------------------------------------------------------------
Scheduler(c) == Dequeue(c) \/ Dispatch(c) \/ SwitchOut(c)
Yield(c) == YieldCharge(c) \/ YieldEnqueue(c)
ClockTail == TickWakeup \/ BoostReset \/ BoostRequeue
Process(c) ==
  \/ \E ch \in {"ticks", "other"} : Sleep(c, ch)
  \/ \E p \in Proc : Wakeup(c, p)
  \/ Exit(c)
  \/ \E np \in Proc : ForkAlloc(c, np)
  \/ ForkReady(c)
  \/ \E z \in Proc : Reap(c, z)

(* Neither panic of enqueue() is reached, and boost_priority() never writes *)
(* past temp[NPROC] or mlfq[0][NPROC].                                      *)
NoFault == fault = "none"

(* A panicked machine stops.                                                *)
Next ==
  /\ NoFault
  /\ \/ \E c \in CPUs : Scheduler(c) \/ Yield(c) \/ Process(c) \/ Timer(c)
     \/ ClockTail

Spec == Init /\ [][Next]_vars

(* Each hart keeps executing its own code; a pending timer interrupt is     *)
(* taken because interrupts are enabled again and again (user mode, and     *)
(* intr_on() in every round of scheduler()).  What the processes do         *)
(* themselves, except completing a kfork(), is not assumed.                 *)
Fairness ==
  /\ \A c \in CPUs : /\ WF_vars(NoFault /\ Scheduler(c))
                     /\ WF_vars(NoFault /\ Yield(c))
                     /\ WF_vars(NoFault /\ ForkReady(c))
                     /\ SF_vars(NoFault /\ Timer(c))
  /\ WF_vars(NoFault /\ ClockTail)

FairSpec == Spec /\ Fairness

-----------------------------------------------------------------------------
(* Hart c has dequeued p and not yet locked it, or has yet to enqueue it.   *)
InTransit(c, p) ==
  \/ pc[c] = "hand" /\ cand[c] = p
  \/ pc[c] = "enq" /\ proc[c] = p
RunBy(p) == {c \in CPUs : proc[c] = p}
Queued(p) == \E q \in Levels : \E i \in 1..Len(mlfq[q]) : mlfq[q][i] = p

(* No process is queued twice, in one queue or in two: enqueue() is only    *)
(* called for a process that is in no queue, and boost_priority() moves     *)
(* entries without duplicating them.                                        *)
QueuedOnce ==
  \A q, r \in Levels : \A i \in 1..Len(mlfq[q]), j \in 1..Len(mlfq[r]) :
     mlfq[q][i] = mlfq[r][j] => q = r /\ i = j

(* No RUNNABLE process is lost and no other process is queued: a process is *)
(* RUNNABLE exactly when it is in a queue or in transit on one hart, never  *)
(* both and never on two.  Hence the branch of scheduler() that drops a     *)
(* dequeued process is never taken.                                         *)
RunnableIsQueued ==
  \A p \in Proc :
    /\ state[p] = "RUNNABLE" <=> Queued(p) \/ \E c \in CPUs : InTransit(c, p)
    /\ \A c \in CPUs : InTransit(c, p) =>
         ~Queued(p) /\ \A d \in CPUs : InTransit(d, p) => d = c

(* The run queues are exact.                                                *)
QueuesExact == QueuedOnce /\ RunnableIsQueued

(* A process runs on at most one hart, and exactly the processes on a hart  *)
(* that has not begun to give it up are RUNNING.                            *)
OneHartPerProcess ==
  \A p \in Proc :
    /\ \A c, d \in RunBy(p) : c = d
    /\ state[p] = "RUNNING" <=> \E c \in RunBy(p) : pc[c] \notin {"enq", "out"}

(* All that keeps the schedulers of several harts from harm: the variables  *)
(* stay in their types, a process is on one hart, enqueue() does not panic  *)
(* and boost_priority() does not overrun.                                   *)
SchedulerSafe == TypeOK /\ OneHartPerProcess /\ NoFault

(* When boost_priority() returns, every process is at level 0 with no tick  *)
(* charged, as the queues then say: no yield() came between its two loops.  *)
BoostResetsAll ==
  [][BoostRequeue => \A p \in Proc : queue'[p] = 0 /\ ticks'[p] = 0]_vars

(* scheduler() never takes a process while one of a higher level waits.     *)
HighestFirst ==
  [][\A c \in CPUs : pc[c] # "hand" /\ pc'[c] = "hand" =>
       \A q \in Levels : q < qi[c] => mlfq[q] = <<>>]_vars

(* A process only moves down one level at a time, and only by using up its  *)
(* slice at the level it leaves; it moves up only to level 0 by a boost or  *)
(* in a fresh table entry.                                                  *)
LevelSteps ==
  [][\A p \in Proc : queue'[p] # queue[p] =>
       \/ queue'[p] = 0
       \/ /\ queue'[p] = queue[p] + 1
          /\ ticks[p] + 1 >= Slice[queue[p]]
          /\ ticks'[p] = 0]_vars

(* The boost prevents starvation: every RUNNABLE process gets a hart.       *)
NoStarvation ==
  \A p \in Proc : state[p] = "RUNNABLE" ~> state[p] = "RUNNING"
=============================================================================
