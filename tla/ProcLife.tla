------------------------------ MODULE ProcLife ------------------------------
(***************************************************************************)
(* The life cycle of processes in xv6/kernel/proc.c: kfork(), kexit() with *)
(* reparent(), kwait() and kkill(), under wait_lock and the p->locks.      *)
(*                                                                         *)
(* Scheduling is left to Mlfq: any process that is not asleep may take its *)
(* next step, so RUNNABLE stands for RUNNING too.  p->lock is only held    *)
(* within a step (sleep() and kexit() keep it until the process is         *)
(* switched out, when nobody can see it).  wait_lock is held across steps. *)
(***************************************************************************)
EXTENDS Integers, FiniteSets

CONSTANTS
  NPROC,    \* entries of the process table
  MaxPid    \* bound: pids handed out in a behaviour

ASSUME ProcAssumption == NPROC \in Nat \ {0} /\ MaxPid \in Nat \ {0}

Slot == 1..NPROC
NoProc == 0
initproc == 1

VARIABLES
  state,      \* p->state
  pid,        \* p->pid, 0 when UNUSED
  parent,     \* p->parent
  killed,     \* p->killed, 0 or 1
  nextpid,    \* nextpid
  kpc,         \* where each process is in the kernel
  child,      \* np of the kfork() a process is in
  holder      \* who holds wait_lock

ProcVars == <<state, pid, parent, killed, nextpid, kpc, child, holder>>

(* "user": in user space, or in a system call that is not modelled here;    *)
(* "fork", "ready": in kfork(), before np->parent is set and before np is   *)
(* RUNNABLE; "reparent", "wakeup", "zombie": in kexit(), holding wait_lock; *)
(* "wait": in kwait(), about to take wait_lock; "scan", "sleep": in         *)
(* kwait(), holding it; "dead": nothing to run.                             *)
Pc == {"user", "fork", "ready", "exit", "reparent", "wakeup", "zombie", "wait",
       "scan", "sleep", "dead"}

ProcTypeOK ==
  /\ state \in [Slot -> {"UNUSED", "USED", "SLEEPING", "RUNNABLE", "ZOMBIE"}]
  /\ pid \in [Slot -> 0..MaxPid]
  /\ parent \in [Slot -> Slot \cup {NoProc}]
  /\ killed \in [Slot -> 0..1]
  /\ nextpid \in 1..(MaxPid + 1)
  /\ kpc \in [Slot -> Pc]
  /\ child \in [Slot -> Slot \cup {NoProc}]
  /\ holder \in Slot \cup {NoProc}

(* After userinit(): init is process 1, in the first entry.                 *)
ProcInit ==
  /\ state = [p \in Slot |-> IF p = initproc THEN "RUNNABLE" ELSE "UNUSED"]
  /\ pid = [p \in Slot |-> IF p = initproc THEN 1 ELSE 0]
  /\ parent = [p \in Slot |-> NoProc]
  /\ killed = [p \in Slot |-> 0]
  /\ nextpid = 2
  /\ kpc = [p \in Slot |-> IF p = initproc THEN "user" ELSE "dead"]
  /\ child = [p \in Slot |-> NoProc]
  /\ holder = NoProc

-----------------------------------------------------------------------------
At(p, x) == state[p] = "RUNNABLE" /\ kpc[p] = x
Goto(p, x) == kpc' = [kpc EXCEPT ![p] = x]

(* wakeup(p) for the channel of p's own kwait(): p is the only process that *)
(* sleeps on it.                                                            *)
WakeParent(st, p) ==
  IF p # NoProc /\ st[p] = "SLEEPING" THEN [st EXCEPT ![p] = "RUNNABLE"] ELSE st

(* kfork(): allocproc() takes the entry np and its lock, the parent is      *)
(* copied, the lock is released.                                            *)
ForkAlloc(p, np) ==
  /\ At(p, "user")
  /\ state[np] = "UNUSED"
  /\ nextpid <= MaxPid
  /\ state' = [state EXCEPT ![np] = "USED"]
  /\ pid' = [pid EXCEPT ![np] = nextpid]
  /\ nextpid' = nextpid + 1
  /\ child' = [child EXCEPT ![p] = np]
  /\ Goto(p, "fork")
  /\ UNCHANGED <<parent, killed, holder>>

(* kfork() runs out of memory after allocpid(): freeproc().                 *)
ForkFail(p, np) ==
  /\ At(p, "user")
  /\ state[np] = "UNUSED"
  /\ nextpid <= MaxPid
  /\ nextpid' = nextpid + 1
  /\ killed' = [killed EXCEPT ![np] = 0]
  /\ UNCHANGED <<state, pid, parent, kpc, child, holder>>

(* kfork(): np->parent = p under wait_lock.                                 *)
ForkParent(p) ==
  /\ At(p, "fork")
  /\ holder = NoProc
  /\ parent' = [parent EXCEPT ![child[p]] = p]
  /\ Goto(p, "ready")
  /\ UNCHANGED <<state, pid, killed, nextpid, child, holder>>

(* kfork(): the child can run.                                              *)
ForkReady(p) ==
  /\ At(p, "ready")
  /\ state' = [state EXCEPT ![child[p]] = "RUNNABLE"]
  /\ kpc' = [kpc EXCEPT ![p] = "user", ![child[p]] = "user"]
  /\ child' = [child EXCEPT ![p] = NoProc]
  /\ UNCHANGED <<pid, parent, killed, nextpid, holder>>

-----------------------------------------------------------------------------
(* kexit() begins: exit(), or a killed process at its next trap.  init does *)
(* not exit.                                                                *)
Exit(p) ==
  /\ At(p, "user")
  /\ p # initproc
  /\ Goto(p, "exit")
  /\ UNCHANGED <<state, pid, parent, killed, nextpid, child, holder>>

(* kexit(): acquire(&wait_lock).                                            *)
ExitLock(p) ==
  /\ At(p, "exit")
  /\ holder = NoProc
  /\ holder' = p
  /\ Goto(p, "reparent")
  /\ UNCHANGED <<state, pid, parent, killed, nextpid, child>>

(* Wrong: reparent() is forgotten.                                          *)
ReparentForgotten(p) ==
  /\ At(p, "reparent")
  /\ Goto(p, "wakeup")
  /\ UNCHANGED <<state, pid, parent, killed, nextpid, child, holder>>

(* reparent(): p's children become init's, and init is woken if it has got  *)
(* any.                                                                     *)
Reparent(p) ==
  /\ At(p, "reparent")
  /\ parent' = [q \in Slot |-> IF parent[q] = p THEN initproc ELSE parent[q]]
  /\ state' = IF \E q \in Slot : parent[q] = p THEN WakeParent(state, initproc)
              ELSE state
  /\ Goto(p, "wakeup")
  /\ UNCHANGED <<pid, killed, nextpid, child, holder>>

(* kexit(): wakeup(p->parent).                                              *)
ExitWakeup(p) ==
  /\ At(p, "wakeup")
  /\ state' = WakeParent(state, parent[p])
  /\ Goto(p, "zombie")
  /\ UNCHANGED <<pid, parent, killed, nextpid, child, holder>>

(* kexit(): ZOMBIE, release(&wait_lock), sched().                           *)
ExitZombie(p) ==
  /\ At(p, "zombie")
  /\ state' = [state EXCEPT ![p] = "ZOMBIE"]
  /\ holder' = NoProc
  /\ Goto(p, "dead")
  /\ UNCHANGED <<pid, parent, killed, nextpid, child>>

-----------------------------------------------------------------------------
Children(p) == {q \in Slot : parent[q] = p}

(* Wrong: kwait() looks at its first child only.                            *)
ZombiesFirst(p) ==
  {z \in Children(p) : state[z] = "ZOMBIE" /\ \A y \in Children(p) : z <= y}

(* kwait(): the children that can be collected.                             *)
Zombies(p) == {z \in Children(p) : state[z] = "ZOMBIE"}

(* kwait() is called.                                                       *)
Wait(p) ==
  /\ At(p, "user")
  /\ Goto(p, "wait")
  /\ UNCHANGED <<state, pid, parent, killed, nextpid, child, holder>>

(* kwait(), and sleep() when it returns: acquire(&wait_lock).               *)
WaitLock(p) ==
  /\ At(p, "wait")
  /\ holder = NoProc
  /\ holder' = p
  /\ Goto(p, "scan")
  /\ UNCHANGED <<state, pid, parent, killed, nextpid, child>>

(* kwait(): the scan finds a zombie and frees it.                           *)
WaitReap(p, z) ==
  /\ At(p, "scan")
  /\ z \in Zombies(p) /\ \A y \in Zombies(p) : z <= y
  /\ parent' = [parent EXCEPT ![z] = NoProc]
  /\ state' = [state EXCEPT ![z] = "UNUSED"]
  /\ pid' = [pid EXCEPT ![z] = 0]
  /\ killed' = [killed EXCEPT ![z] = 0]
  /\ holder' = NoProc
  /\ Goto(p, "user")
  /\ UNCHANGED <<nextpid, child>>

(* kwait() fails: no children, or killed, or copyout() of the status fails  *)
(* with the zombie left as it is (init passes no address, user/init.c).      *)
WaitFail(p) ==
  /\ At(p, "scan")
  /\ Zombies(p) # {} => p # initproc
  /\ Zombies(p) = {} => Children(p) = {} \/ killed[p] = 1
  /\ holder' = NoProc
  /\ Goto(p, "user")
  /\ UNCHANGED <<state, pid, parent, killed, nextpid, child>>

(* kwait(): children, none of them a zombie, and not killed.                *)
WaitDecide(p) ==
  /\ At(p, "scan")
  /\ Children(p) # {} /\ Zombies(p) = {} /\ killed[p] = 0
  /\ Goto(p, "sleep")
  /\ UNCHANGED <<state, pid, parent, killed, nextpid, child, holder>>

(* sleep(p, &wait_lock).  When p is woken it takes wait_lock again.         *)
WaitSleep(p) ==
  /\ At(p, "sleep")
  /\ state' = [state EXCEPT ![p] = "SLEEPING"]
  /\ holder' = NoProc
  /\ Goto(p, "wait")
  /\ UNCHANGED <<pid, parent, killed, nextpid, child>>

-----------------------------------------------------------------------------
(* kkill(n): the entry whose pid is n.  Nobody kills init.                  *)
Kill(q, n) ==
  /\ At(q, "user")
  /\ n # pid[initproc]
  /\ \E p \in Slot :
       /\ pid[p] = n
       /\ killed' = [killed EXCEPT ![p] = 1]
       /\ state' = WakeParent(state, p)
  /\ UNCHANGED <<pid, parent, nextpid, kpc, child, holder>>

-----------------------------------------------------------------------------
Fork(p) ==
  \/ \E np \in Slot : ForkAlloc(p, np) \/ ForkFail(p, np)
  \/ ForkParent(p)
  \/ ForkReady(p)
Exiting(p) == Reparent(p) \/ ExitWakeup(p) \/ ExitZombie(p)
Waiting(p) ==
  (\E z \in Slot : WaitReap(p, z)) \/ WaitFail(p) \/ WaitDecide(p) \/ WaitSleep(p)

ProcNext ==
  \E p \in Slot :
    \/ Fork(p) \/ Exit(p) \/ ExitLock(p) \/ Exiting(p)
    \/ Wait(p) \/ WaitLock(p) \/ Waiting(p)
    \/ \E n \in 0..MaxPid : Kill(p, n)

ProcSpec == ProcInit /\ [][ProcNext]_ProcVars

(* A process in the kernel goes on; a spinning acquire() gets the lock if   *)
(* it is free again and again; init calls wait() for ever (user/init.c).    *)
TakeWaitLock(p) == ExitLock(p) \/ WaitLock(p) \/ ForkParent(p)
InKernel(p) == Exiting(p) \/ Waiting(p) \/ ForkReady(p)
ProcFairness ==
  /\ \A p \in Slot : /\ WF_ProcVars(InKernel(p))
                     /\ SF_ProcVars(TakeWaitLock(p))
  /\ WF_ProcVars(Wait(initproc))

ProcFairSpec == ProcSpec /\ ProcFairness

-----------------------------------------------------------------------------
(* The process tree: every process but init has a live parent as soon as    *)
(* kfork() has set it, a free entry has none, and nobody's parent is a      *)
(* zombie or a free entry -- so that somebody can wait for every zombie.    *)
FamilyTree ==
  /\ ProcTypeOK
  /\ \A p \in Slot :
       /\ state[p] = "UNUSED" => parent[p] = NoProc
       /\ state[p] \in {"RUNNABLE", "SLEEPING", "ZOMBIE"} /\ p # initproc =>
            /\ parent[p] # NoProc
            /\ state[parent[p]] \in {"RUNNABLE", "SLEEPING"}

(* No wakeup of a waiting parent is lost: a process asleep in kwait() has   *)
(* children, and none of them is a zombie.                                  *)
SleeperHasWork ==
  \A p \in Slot : state[p] = "SLEEPING" => Children(p) # {} /\ Zombies(p) = {}

(* Together: every process has a live parent to wait for it, and no parent  *)
(* sleeps in kwait() through what it waits for.                             *)
FamilySound == FamilyTree /\ SleeperHasWork

(* A zombie that is init's child is freed.                                  *)
OrphansReaped ==
  \A p \in Slot :
    state[p] = "ZOMBIE" /\ parent[p] = initproc ~> state[p] = "UNUSED"

=============================================================================
