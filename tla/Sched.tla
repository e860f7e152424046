--------------------------------- MODULE Sched ---------------------------------
(***************************************************************************)
(* The FIFO and the round-robin builds of scheduler() (kernel/proc.c), and *)
(* the time accounting both share: clockintr (kernel/trap.c) counts a tick *)
(* and update_time goes through the table, slot by slot under its lock,    *)
(* while processes are created, run, sleep and exit on other harts.  A     *)
(* slot's lock is shown when it is held from one step to the next, which   *)
(* the FIFO scan does with the oldest process found so far.  The CPU and   *)
(* sleep ticks of a process only occur together: charged is their sum.     *)
(***************************************************************************)
EXTENDS Integers, FiniteSets

CONSTANTS
  NPROC,          \* slots of the table
  Cpus, Cpu0,     \* harts, and the one that counts ticks
  MaxTicks,       \* bound of ticks
  Unlocked        \* nobody holds the lock

\* Hart 0 is a hart, and a lock tells its holder from none.
ASSUME SchedAssumption == NPROC \in Nat \ {0} /\ Cpu0 \in Cpus /\ Unlocked \notin Cpus

VARIABLES
  policy,         \* the build: "FIFO", or "RR" by default
  state,          \* of each slot
  creation_time, charged,
  lock,           \* the hart that holds a slot's lock between steps
  hart,           \* of each hart: next slot of its scan, oldest so far, process
                  \* it runs, whether a timer interrupt is to make that yield
  ticks,
  visit,          \* next slot update_time visits, 0 outside clockintr
  waited,         \* per hart: slots RUNNABLE since its scan began
  late            \* slots taken while clockintr was still to visit them

SchedVars == <<policy, state, creation_time, charged, lock, hart, ticks, visit, waited, late>>

Slots == 1 .. NPROC
None == 0
Free(p) == lock[p] = Unlocked
Runnable == {p \in Slots : state[p] = "RUNNABLE"}

SchedInit ==
  /\ policy \in {"FIFO", "RR"}
  /\ state = [p \in Slots |-> IF p = 1 THEN "RUNNABLE" ELSE "UNUSED"]
  /\ creation_time = [p \in Slots |-> 0] /\ charged = [p \in Slots |-> 0]
  /\ lock = [p \in Slots |-> Unlocked]
  /\ hart = [h \in Cpus |-> [i |-> 1, min_p |-> None, run |-> None, due |-> FALSE]]
  /\ ticks = 0 /\ visit = 0 /\ waited = [h \in Cpus |-> {1}] /\ late = {}

\* Hart 0 does nothing else while it is in clockintr.
InHandler(h) == h = Cpu0 /\ visit # 0

Scans(h) == hart[h].run = None /\ ~InHandler(h)

\* A slot that stops being RUNNABLE has not waited since any scan began; one
\* a hart starts a scan with has.
StillWaiting(after) == waited' = [h \in Cpus |-> waited[h] \cap after]

\* swtch to p, which releases its lock as it resumes.
Run(h, p) ==
  /\ state' = [state EXCEPT ![p] = "RUNNING"]
  /\ hart' = [hart EXCEPT ![h].run = p, ![h].min_p = None]
  /\ lock' = [lock EXCEPT ![p] = Unlocked]
  /\ StillWaiting(Runnable \ {p})

----------------------------------------------------------------------------
\* The scan

\* Wrong: a younger process replaces an older one.
OlderNot(p, min_p) == min_p = None \/ creation_time[p] >= creation_time[min_p]

Older(p, min_p) == min_p = None \/ creation_time[p] < creation_time[min_p]

\* FIFO: look at the next slot, and keep its lock instead of the last one's
\* when it is the oldest RUNNABLE one so far.
ScanFifo(h) ==
  LET p == hart[h].i
      min_p == hart[h].min_p
  IN /\ policy = "FIFO" /\ Scans(h) /\ p \in Slots /\ Free(p)
     /\ IF state[p] = "RUNNABLE" /\ Older(p, min_p)
        THEN /\ lock' = [q \in Slots |-> IF q = p THEN h ELSE
                                         IF q = min_p THEN Unlocked ELSE lock[q]]
             /\ hart' = [hart EXCEPT ![h].i = p + 1, ![h].min_p = p]
        ELSE hart' = [hart EXCEPT ![h].i = p + 1] /\ UNCHANGED lock
     /\ UNCHANGED <<state, creation_time, charged, ticks, visit, waited, late>>

RunOldest(h) ==
  /\ policy = "FIFO" /\ Scans(h) /\ hart[h].i > NPROC /\ hart[h].min_p # None
  /\ Run(h, hart[h].min_p)
  /\ UNCHANGED <<creation_time, charged, ticks, visit, late>>

\* Round robin: run the next slot if it is RUNNABLE, go on behind it later.
ScanRR(h) ==
  LET p == hart[h].i
  IN /\ policy = "RR" /\ Scans(h) /\ p \in Slots /\ Free(p)
     /\ IF state[p] = "RUNNABLE" THEN Run(h, p)
        ELSE /\ hart' = [hart EXCEPT ![h].i = p + 1]
             /\ UNCHANGED <<state, lock, waited>>
     /\ UNCHANGED <<creation_time, charged, ticks, visit, late>>

\* The top of scheduler()'s loop, after wfi or at once.
Rescan(h) ==
  /\ Scans(h) /\ hart[h].i > NPROC /\ hart[h].min_p = None
  /\ hart' = [hart EXCEPT ![h].i = 1]
  /\ waited' = [waited EXCEPT ![h] = Runnable]
  /\ UNCHANGED <<state, creation_time, charged, lock, ticks, visit, late>>

----------------------------------------------------------------------------
\* What the running process does

\* sched() with the slot in a new state: FIFO starts a new scan, round robin
\* goes on with the next slot.
Leave(h, s) ==
  LET p == hart[h].run
      after == IF s = "RUNNABLE" THEN Runnable \cup {p} ELSE Runnable
      top == policy = "FIFO"
  IN /\ p # None /\ ~InHandler(h) /\ Free(p)
     /\ state' = [state EXCEPT ![p] = s]
     /\ hart' = [hart EXCEPT ![h].run = None, ![h].due = FALSE, ![h].i = IF top THEN 1 ELSE p + 1]
     /\ waited' = [waited EXCEPT ![h] = IF top THEN after ELSE @]
     /\ UNCHANGED <<creation_time, charged, lock, ticks, visit, late>>

\* Slot 1 is init, which never exits.
Sleep(h) == ~hart[h].due /\ Leave(h, "SLEEPING")
ExitProc(h) == ~hart[h].due /\ hart[h].run # 1 /\ Leave(h, "ZOMBIE")

\* A timer interrupt on another hart, or on hart 0 after its clockintr: FIFO
\* returns to the process, round robin yields.  At the bound of ticks hart 0
\* counts no more.
yield(h) ==
  /\ policy = "RR"
  /\ IF h = Cpu0 THEN hart[h].due \/ ticks = MaxTicks ELSE TRUE
  /\ Leave(h, "RUNNABLE")

\* allocproc reads ticks without tickslock; kfork makes the slot RUNNABLE in
\* another section.
Taken(p) ==
  /\ state[p] = "UNUSED" /\ Free(p)
  /\ state' = [state EXCEPT ![p] = "USED"]
  /\ creation_time' = [creation_time EXCEPT ![p] = ticks]
  /\ late' = IF visit \in 1 .. p THEN late \cup {p} ELSE late \ {p}
  /\ UNCHANGED <<lock, hart, ticks, visit, waited>>

CallsFork(h) == hart[h].run # None /\ ~InHandler(h) /\ ~hart[h].due

\* Wrong: the slot keeps the counters of its last process.
allocprocKeeps(h) ==
  /\ CallsFork(h) /\ \E p \in Slots : Taken(p)
  /\ UNCHANGED charged

allocproc(h) ==
  /\ CallsFork(h)
  /\ \E p \in Slots : Taken(p) /\ charged' = [charged EXCEPT ![p] = 0]

Becomes(p, from, to) ==
  /\ state[p] = from /\ Free(p) /\ state' = [state EXCEPT ![p] = to]
  /\ UNCHANGED <<creation_time, charged, lock, hart, ticks, visit, waited, late>>

Forked(p) == Becomes(p, "USED", "RUNNABLE")
wakeup(p) == Becomes(p, "SLEEPING", "RUNNABLE")
freeproc(p) == Becomes(p, "ZOMBIE", "UNUSED")

----------------------------------------------------------------------------
\* The clock

\* The interrupt finds hart 0 in a process, or at the top of its loop.
clockintr ==
  /\ visit = 0 /\ ticks < MaxTicks
  /\ IF hart[Cpu0].run = None THEN hart[Cpu0].i = 1 /\ hart[Cpu0].min_p = None
     ELSE ~hart[Cpu0].due
  /\ ticks' = ticks + 1 /\ visit' = 1
  /\ UNCHANGED <<state, creation_time, charged, lock, hart, waited, late>>

update_time ==
  /\ visit \in Slots /\ Free(visit)
  /\ charged' = IF state[visit] \in {"RUNNING", "SLEEPING"}
                THEN [charged EXCEPT ![visit] = @ + 1] ELSE charged
  /\ visit' = visit + 1
  /\ UNCHANGED <<state, creation_time, lock, hart, ticks, waited, late>>

ClockReturn ==
  /\ visit = NPROC + 1 /\ visit' = 0
  /\ hart' = [hart EXCEPT ![Cpu0].due = policy = "RR" /\ hart[Cpu0].run # None]
  /\ UNCHANGED <<state, creation_time, charged, lock, ticks, waited, late>>

SchedNext ==
  /\ UNCHANGED policy
  /\ \/ \E h \in Cpus : \/ ScanFifo(h) \/ RunOldest(h) \/ ScanRR(h) \/ Rescan(h)
                        \/ Sleep(h) \/ ExitProc(h) \/ yield(h) \/ allocproc(h)
     \/ \E p \in Slots : Forked(p) \/ wakeup(p) \/ freeproc(p)
     \/ clockintr \/ update_time \/ ClockReturn

SchedSpec == SchedInit /\ [][SchedNext]_SchedVars

----------------------------------------------------------------------------
\* Properties

(* The FIFO scheduler switches to no process while an older one, or one as  *)
(* old in an earlier slot, has been RUNNABLE since the scan began, although *)
(* other harts run, create, wake and end processes during the scan.         *)
OldestFirst ==
  \A h \in Cpus : policy = "FIFO" /\ hart[h].i > NPROC /\ hart[h].run = None =>
    \A q \in waited[h] :
      LET m == hart[h].min_p
      IN /\ m # None
         /\ creation_time[q] > creation_time[m] \/ (creation_time[q] = creation_time[m] /\ q >= m)

(* Turnaround less CPU and sleep ticks, which kexit prints as the waiting   *)
(* time, is never negative, except for a process created between the count  *)
(* of a tick and update_time's visit to its slot: it is charged for one     *)
(* tick before its life, and -1 may be printed.                             *)
WaitingBounded ==
  \A p \in Slots : state[p] # "UNUSED" =>
    charged[p] <= ticks - creation_time[p] + (IF p \in late THEN 1 ELSE 0)
=============================================================================
