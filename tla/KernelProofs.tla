---------------------------- MODULE KernelProofs ----------------------------
(***************************************************************************)
(* Three parts of the kernel, for any number of harts and processes.       *)
(*                                                                         *)
(* Trap: every trap resumes what it interrupted.  Resumes speaks of the    *)
(* moment after sret.  The invariant follows what it needs back through    *)
(* the kernel: sepc until usertrap() has copied it, the trapframe from     *)
(* there to prepare_return(), the locals of kerneltrap() while their       *)
(* thread may be away from any hart, and SIE, which tells where a second   *)
(* trap may still overwrite the registers.                                 *)
(*                                                                         *)
(* Sched: the FIFO scan finds the oldest process, and the times add up.    *)
(* OldestFirst speaks of the end of a scan and WaitingBounded of the end   *)
(* of a tick.  The invariant says what is true in the middle of either.    *)
(*                                                                         *)
(* Uart: the FIFO holds a byte of one process at most, and one of each     *)
(* hart.                                                                   *)
(***************************************************************************)
EXTENDS Trap, Sched, Uart, TLAPS

(* What a thread can be interrupted at while it is in the kernel.           *)
Points(t) == IF t \in Proc THEN {"syscall", "done"} ELSE {"idle"}

(* sepc and sstatus as a trap from the kernel of thread t left them.        *)
Interrupted(t, place, mode, enable) ==
  place.who = t /\ place.at \in Points(t) /\ mode = "S" /\ enable = 1

InFrame(t) == Interrupted(t, frame[t].sepc, frame[t].spp, frame[t].spie)

(* User mode, and the kernel before usertrap() has looked at sepc.          *)
InUser(h) == pc[h] \in PCs \cup {"uservec"}
EpcPending(h) == pc[h] \in PCs \cup {"uservec", "usertrap"}

(* The way back to user mode, once stvec is set.                            *)
Leaving(h) == pc[h] = "regs" \/ (pc[h] = "sret" /\ spp[h] = "U")

(* Where the process, or scheduler(), is.                                   *)
PlaceSound(h) ==
  /\ pc[h] # "panic"
  /\ cur[h] = Nil => pc[h] \in {"idle", "kernelvec", "kret", "sret"} /\ ~Leaving(h)
  /\ pc[h] = "idle" => cur[h] = Nil
  /\ ~InUser(h) => tp[h] = h
  /\ stvec[h] = IF EpcPending(h) \/ Leaving(h) THEN "uservec" ELSE "kernelvec"

(* Where interrupts are on and off.                                         *)
SieSound(h) ==
  /\ pc[h] \in PCs \cup {"syscall"} => sie[h] = 1
  /\ pc[h] \notin PCs \cup {"syscall", "done", "idle"} => sie[h] = 0

(* What is to happen in user mode.                                          *)
UserSound(h) ==
  /\ pc[h] \in PCs => pc[h] = resume[cur[h]]
  /\ InUser(h) => hartid[cur[h]] = h
  /\ pc[h] \in {"uservec", "usertrap"} =>
       /\ sepc[h].who = cur[h] /\ sepc[h].at \in PCs /\ spp[h] = "U"
       /\ resume[cur[h]] = IF cause[h] = "ecall" THEN After[sepc[h].at] ELSE sepc[h].at
  /\ cur[h] # Nil /\ ~EpcPending(h) => epc[cur[h]] = resume[cur[h]]
  /\ pc[h] = "sret" /\ spp[h] = "U" =>
       /\ sepc[h] = [who |-> cur[h], at |-> epc[cur[h]]] /\ spie[h] = 1
       /\ hartid[cur[h]] = h

(* What is to happen in the kernel.                                         *)
KernelSound(h) ==
  /\ pc[h] = "kernelvec" \/ (pc[h] = "sret" /\ spp[h] = "S") =>
       Interrupted(Thread(h), sepc[h], spp[h], spie[h])
  /\ pc[h] \in {"ktick", "kret"} => InFrame(Thread(h))

HartSound(h) == PlaceSound(h) /\ SieSound(h) /\ UserSound(h) /\ KernelSound(h)

(* A process that is on no hart.                                            *)
Away(p) == \A h \in Harts : cur[h] # p
AwaySound(p) ==
  Away(p) => /\ at[p] \in {"forkret", "syscall", "done", "kret"}
             /\ intena[p] = (IF at[p] = "syscall" THEN 1 ELSE 0)
             /\ epc[p] = resume[p]
             /\ at[p] = "kret" => InFrame(p)

(* A process is on one hart at most.                                        *)
Apart == \A g, h \in Harts : cur[g] = cur[h] /\ cur[g] # Nil => g = h

TrapInv ==
  /\ TypeOK /\ Apart
  /\ \A h \in Harts : HartSound(h)
  /\ \A p \in Proc : AwaySound(p)

-----------------------------------------------------------------------------
(* A step of hart h changes h, the process on it and the stack it is on.    *)
Here(h) ==
  /\ \A g \in Harts \ {h} :
       /\ pc'[g] = pc[g] /\ cur'[g] = cur[g] /\ cause'[g] = cause[g] /\ tp'[g] = tp[g]
       /\ stvec'[g] = stvec[g] /\ sepc'[g] = sepc[g] /\ spp'[g] = spp[g]
       /\ spie'[g] = spie[g] /\ sie'[g] = sie[g]
  /\ \A p \in Proc \ {cur[h]} :
       /\ epc'[p] = epc[p] /\ hartid'[p] = hartid[p] /\ resume'[p] = resume[p]
       /\ at'[p] = at[p] /\ intena'[p] = intena[p]
  /\ \A t \in Threads \ {Thread(h)} : frame'[t] = frame[t]

(* The process stays on the hart, leaves it or comes to it.                 *)
Stays(h) == cur' = cur
Leaves(h) ==
  \E p \in Proc : cur[h] = p /\ cur' = [cur EXCEPT ![h] = Nil] /\ AwaySound(p)'
Comes(h) ==
  \E p \in Proc : cur[h] = Nil /\ Away(p) /\ cur' = [cur EXCEPT ![h] = p]

(* Arithmetic of a scan that moves on by one.                               *)
LEMMA BelowNext ==
  ASSUME NEW a \in Int, NEW b \in Int, a < b + 1
  PROVE  a = b \/ a < b
OBVIOUS

LEMMA OrderFacts ==
  /\ \A a \in Int : a >= a
  /\ \A a, b \in Int : b < a => a >= b
  /\ \A a, b \in Int : ~(a < b) => a > b \/ a = b
  /\ \A a, b, c \in Int : (a > b \/ a = b) /\ c < b => a > c
OBVIOUS

(* Two harts are on different stacks.                                       *)
LEMMA StacksApart ==
  ASSUME TrapInv, NEW g \in Harts, NEW h \in Harts, g # h
  PROVE  Thread(g) \in Threads /\ Thread(h) \in Threads /\ Thread(g) # Thread(h)
BY ThreadsApart DEF TrapInv, TypeOK, Apart, Thread, Threads

(* The other harts go on as before.                                         *)
LEMMA OtherHarts ==
  ASSUME TrapInv, NEW h \in Harts, Here(h), NEW g \in Harts \ {h}
  PROVE  HartSound(g)'
<1>1. /\ pc'[g] = pc[g] /\ cur'[g] = cur[g] /\ cause'[g] = cause[g] /\ tp'[g] = tp[g]
      /\ stvec'[g] = stvec[g] /\ sepc'[g] = sepc[g] /\ spp'[g] = spp[g]
      /\ spie'[g] = spie[g] /\ sie'[g] = sie[g]
  BY DEF Here
<1>2. cur[g] # Nil =>
        epc'[cur[g]] = epc[cur[g]] /\ hartid'[cur[g]] = hartid[cur[g]]
        /\ resume'[cur[g]] = resume[cur[g]]
  BY DEF Here, TrapInv, Apart, TypeOK
<1>3. Thread(g)' = Thread(g) /\ frame'[Thread(g)] = frame[Thread(g)]
  BY <1>1, StacksApart DEF Here, Thread
<1>4. HartSound(g)
  BY Zenon DEF TrapInv
<1>5. PlaceSound(g)' /\ SieSound(g)'
  BY <1>1, <1>4, Zenon DEF HartSound, PlaceSound, SieSound, InUser, EpcPending, Leaving
<1>6. UserSound(g)'
  BY <1>1, <1>2, <1>4, ThreadsApart
     DEF HartSound, PlaceSound, UserSound, InUser, EpcPending, Leaving, Labels
<1>7. KernelSound(g)'
  BY <1>1, <1>3, <1>4 DEF HartSound, KernelSound, InFrame, Interrupted, Points
<1> QED BY <1>5, <1>6, <1>7, Zenon DEF HartSound

(* So it is enough to look at h and the process that was on it.             *)
LEMMA LocalStep ==
  ASSUME TrapInv, NEW h \in Harts, Here(h), TypeOK', HartSound(h)',
         Stays(h) \/ Leaves(h) \/ Comes(h)
  PROVE  TrapInv'
<1>1. \A g \in Harts : HartSound(g)'
  BY OtherHarts
<1>2. Apart'
  <2>1. CASE Stays(h)
    BY <2>1, Zenon DEF TrapInv, Apart, Stays
  <2>2. CASE Leaves(h)
    BY <2>2 DEF TrapInv, Apart, TypeOK, Leaves
  <2>3. CASE Comes(h)
    BY <2>3 DEF TrapInv, Apart, TypeOK, Comes, Away
  <2> QED BY <2>1, <2>2, <2>3
<1>3. ASSUME NEW p \in Proc PROVE AwaySound(p)'
  <2>1. CASE p = cur[h]
    <3>1. CASE Stays(h)
      BY <2>1, <3>1, Zenon DEF Stays, AwaySound, Away
    <3>2. CASE Leaves(h)
      BY <2>1, <3>2, Zenon DEF Leaves
    <3>3. CASE Comes(h)
      BY <2>1, <3>3, ThreadsApart, Zenon DEF Comes
    <3> QED BY <3>1, <3>2, <3>3
  <2>2. CASE p # cur[h]
    <3>1. Away(p)' => Away(p)
      BY <2>2, Zenon DEF Here, Away
    <3>2. p \in Threads \ {Thread(h)}
      BY <2>2, ThreadsApart, Zenon DEF Threads, Thread
    <3>3. frame'[p] = frame[p]
      BY <3>2, Zenon DEF Here
    <3>4. /\ epc'[p] = epc[p] /\ resume'[p] = resume[p]
          /\ at'[p] = at[p] /\ intena'[p] = intena[p]
      BY <2>2 DEF Here
    <3> QED BY <3>1, <3>3, <3>4 DEF TrapInv, AwaySound, InFrame, Interrupted, Points
  <2> QED BY <2>1, <2>2, Zenon
<1> QED BY <1>1, <1>2, <1>3, Zenon DEF TrapInv

LEMMA InitInv == Init => TrapInv
<1> SUFFICES ASSUME Init PROVE TrapInv
  BY Zenon
<1>1. TypeOK
  BY ThreadsApart DEF Init, TypeOK, Places, Frames, NoFrame, Threads, Labels
<1>2. Apart
  BY DEF Init, Apart
<1>3. \A h \in Harts : HartSound(h)
  BY ThreadsApart, ZenonT(40) DEF Init, HartSound, PlaceSound, SieSound, UserSound, KernelSound, InUser,
                      EpcPending, Leaving, Labels
<1>4. \A p \in Proc : AwaySound(p)
  BY Zenon DEF Init, AwaySound
<1> QED BY <1>1, <1>2, <1>3, <1>4 DEF TrapInv

-----------------------------------------------------------------------------
(* The hardware.                                                            *)

LEMMA UserTrapInv ==
  ASSUME TrapInv, NEW h \in Harts, UserTrap(h)
  PROVE  TrapInv'
<1>1. TypeOK /\ HartSound(h)
  BY Zenon DEF TrapInv
<1>2. PICK c \in {"ecall", "timer", "device", "fault"} :
        /\ TakeTrap(h, c)
        /\ resume' = IF c = "ecall" THEN [resume EXCEPT ![cur[h]] = After[pc[h]]] ELSE resume
  BY Zenon DEF UserTrap
<1>3. pc[h] \in PCs /\ pc[h] \notin Labels /\ UNCHANGED <<epc, hartid, at, intena>>
  BY ThreadsApart, Zenon DEF UserTrap
<1>4. cur[h] \in Proc /\ Thread(h) = cur[h] /\ stvec[h] = "uservec"
  BY <1>1, <1>3, Zenon DEF HartSound, PlaceSound, TypeOK, Thread, Labels, EpcPending
<1>5. TypeOK'
  BY <1>1, <1>2, <1>3, <1>4, ThreadsApart DEF TypeOK, TakeTrap, Goto, Places, Threads, Labels
<1>6. Here(h) /\ Stays(h)
  BY <1>1, <1>2, <1>3, Zenon DEF TypeOK, TakeTrap, Goto, Here, Stays
<1>7. pc'[h] = "uservec" /\ pc'[h] \notin PCs
  BY <1>1, <1>2, <1>4, ThreadsApart, Zenon DEF TypeOK, TakeTrap, Goto, Labels
<1>8. PlaceSound(h)' /\ SieSound(h)' /\ KernelSound(h)'
  BY <1>1, <1>2, <1>4, <1>7, ThreadsApart, Zenon
     DEF TypeOK, TakeTrap, PlaceSound, SieSound, KernelSound, InUser, EpcPending, Leaving
<1>9. UserSound(h)'
  <2>1. hartid[cur[h]] = h /\ resume[cur[h]] = pc[h]
    BY <1>1, <1>3, Zenon DEF HartSound, UserSound, InUser
  <2> QED BY <1>1, <1>2, <1>3, <1>4, <1>7, <2>1, Zenon
             DEF TypeOK, TakeTrap, UserSound, InUser, EpcPending
<1> QED BY <1>5, <1>6, <1>8, <1>9, LocalStep DEF HartSound

LEMMA KernelInterruptInv ==
  ASSUME TrapInv, NEW h \in Harts, KernelInterrupt(h)
  PROVE  TrapInv'
<1>1. TypeOK /\ HartSound(h)
  BY DEF TrapInv
<1>2. PICK c \in {"timer", "device"} : TakeTrap(h, c)
  BY DEF KernelInterrupt
<1>3. pc[h] \notin PCs /\ sie[h] = 1 /\ UNCHANGED procVars
  BY Zenon DEF KernelInterrupt
<1>4. pc[h] \in {"syscall", "done", "idle"} /\ (pc[h] = "idle" <=> cur[h] = Nil)
  BY <1>1, <1>3 DEF HartSound, SieSound, PlaceSound
<1>5. stvec[h] = "kernelvec" /\ tp[h] = h /\ ~EpcPending(h) /\ ~Leaving(h)
  BY <1>1, <1>3, <1>4, Zenon DEF HartSound, PlaceSound, InUser, EpcPending, Leaving
<1>6. TypeOK'
  BY <1>1, <1>2, <1>3, <1>4, <1>5, ThreadsApart
     DEF TypeOK, TakeTrap, Goto, Places, Thread, Threads, Labels, procVars
<1>7. Here(h) /\ Stays(h)
  BY <1>1, <1>2, <1>3, Zenon DEF TypeOK, TakeTrap, Goto, Here, Stays, procVars
<1>8. pc'[h] = "kernelvec" /\ pc'[h] \notin PCs
  BY <1>1, <1>2, <1>5, ThreadsApart, Zenon DEF TypeOK, TakeTrap, Goto, Labels
<1>9. PlaceSound(h)' /\ SieSound(h)'
  BY <1>1, <1>2, <1>5, <1>8, Zenon
     DEF TypeOK, TakeTrap, PlaceSound, SieSound, InUser, EpcPending, Leaving
<1>10. UserSound(h)'
  <2>1. cur[h] # Nil => epc[cur[h]] = resume[cur[h]]
    BY <1>1, <1>5, Zenon DEF HartSound, UserSound
  <2> QED BY <1>2, <1>3, <1>8, <2>1, Zenon DEF TakeTrap, UserSound, InUser, procVars
<1>11. KernelSound(h)'
  <2>1. pc[h] \in Points(Thread(h)) /\ Thread(h)' = Thread(h)
    BY <1>1, <1>2, <1>4, ThreadsApart DEF TypeOK, Points, Thread, TakeTrap
  <2> QED BY <1>1, <1>2, <1>3, <1>8, <2>1, Zenon
             DEF TypeOK, TakeTrap, KernelSound, Interrupted, Points
<1> QED BY <1>6, <1>7, <1>9, <1>10, <1>11, LocalStep, Zenon DEF HartSound

(* sret returns to user mode or to the kernel, as prepare_return() or       *)
(* kerneltrap() has it.                                                     *)
LEMMA SRetInv ==
  ASSUME TrapInv, NEW h \in Harts, SRet(h)
  PROVE  TrapInv'
<1>1. TypeOK /\ HartSound(h)
  BY DEF TrapInv
<1>2. pc[h] = "sret" /\ pc[h] \notin PCs /\ sie[h] = 0 /\ ~EpcPending(h) /\ ~InUser(h)
  BY <1>1, ThreadsApart, Zenon DEF SRet, Labels, HartSound, SieSound, EpcPending, InUser
<1>3. Here(h) /\ Stays(h)
  BY <1>1, Zenon DEF TypeOK, SRet, Goto, Here, Stays, procVars
<1>4. CASE spp[h] = "U"
  <2>1. /\ cur[h] \in Proc /\ sepc[h].at = resume[cur[h]] /\ spie[h] = 1
        /\ hartid[cur[h]] = h /\ stvec[h] = "uservec"
    BY <1>1, <1>2, <1>4 DEF TypeOK, HartSound, UserSound, PlaceSound, Leaving
  <2>2. sepc[h].at \in PCs /\ resume[cur[h]] \notin Labels
    BY <1>1, <2>1, ThreadsApart, Zenon DEF TypeOK
  <2>3. pc' = [pc EXCEPT ![h] = resume[cur[h]]] /\ tp' = [tp EXCEPT ![h] = Nil]
        /\ sie' = [sie EXCEPT ![h] = 1]
    BY <1>4, <2>1, <2>2, ZenonT(40) DEF SRet, Goto
  <2>4. TypeOK'
    BY <1>1, <2>1, <2>2, <2>3 DEF TypeOK, SRet, procVars
  <2>5. PlaceSound(h)' /\ SieSound(h)' /\ KernelSound(h)'
    BY <1>1, <2>1, <2>2, <2>3, ThreadsApart, Zenon
       DEF TypeOK, SRet, PlaceSound, SieSound, KernelSound, InUser, EpcPending, Leaving, Labels
  <2>6. UserSound(h)'
    BY <1>1, <2>1, <2>2, <2>3, ThreadsApart, Zenon
       DEF TypeOK, SRet, UserSound, EpcPending, Labels, procVars
  <2> QED BY <1>3, <2>4, <2>5, <2>6, LocalStep, Zenon DEF HartSound
<1>5. CASE spp[h] = "S"
  <2>1. sepc[h].at \in Points(Thread(h)) /\ spie[h] = 1
    BY <1>1, <1>2, <1>5, Zenon DEF HartSound, KernelSound, Interrupted
  <2>2. /\ sepc[h].at \in {"syscall", "done", "idle"} /\ sepc[h].at \notin PCs
        /\ sepc[h].at = "idle" <=> cur[h] = Nil
    BY <1>1, <2>1, ThreadsApart DEF TypeOK, Points, Thread, Labels
  <2>3. pc' = [pc EXCEPT ![h] = sepc[h].at] /\ tp' = tp /\ sie' = [sie EXCEPT ![h] = 1]
    <3>1. (sepc[h].at \in PCs) = (spp[h] = "U")
      BY <1>5, <2>2
    <3> QED BY <1>5, <2>1, <3>1, Zenon DEF SRet, Goto
  <2>4. TypeOK'
    BY <1>1, <2>2, <2>3 DEF TypeOK, SRet, procVars, Labels
  <2>5. PlaceSound(h)' /\ SieSound(h)' /\ KernelSound(h)'
    BY <1>1, <1>2, <1>5, <2>2, <2>3, Zenon
       DEF TypeOK, SRet, HartSound, PlaceSound, SieSound, KernelSound, InUser, EpcPending, Leaving
  <2>6. UserSound(h)'
    BY <1>1, <1>2, <2>2, <2>3, Zenon DEF TypeOK, SRet, HartSound, UserSound, InUser, procVars
  <2> QED BY <1>3, <2>4, <2>5, <2>6, LocalStep DEF HartSound
<1> QED BY <1>1, <1>4, <1>5, Zenon DEF TypeOK

-----------------------------------------------------------------------------
(* Switching.                                                               *)

(* scheduler() on a hart that a process has left in the kernel.             *)
LEMMA IdleSound ==
  ASSUME NEW h \in Harts, pc'[h] = "idle", cur'[h] = Nil, tp'[h] = h, stvec'[h] = "kernelvec"
  PROVE  HartSound(h)'
<1>1. pc'[h] \notin PCs
  BY ThreadsApart, Zenon DEF Labels
<1> QED BY <1>1, Zenon DEF HartSound, PlaceSound, SieSound, UserSound, KernelSound, InUser, EpcPending,
                    Leaving

(* sched() keeps all a process needs.                                       *)
LEMMA SwitchOutInv ==
  ASSUME TrapInv, NEW h \in Harts, NEW l \in {"forkret", "syscall", "done", "kret"},
         pc[h] \in {"forkret", "syscall", "tick", "ktick"},
         pc[h] = "syscall" <=> l = "syscall",
         l = "kret" => pc[h] = "ktick",
         SwitchOut(h, l)
  PROVE  TrapInv'
<1>1. TypeOK /\ HartSound(h)
  BY Zenon DEF TrapInv
<1>2. pc[h] \notin PCs
  BY ThreadsApart, Zenon DEF Labels
<1>3. /\ cur[h] \in Proc /\ tp[h] = h /\ stvec[h] = "kernelvec"
      /\ epc[cur[h]] = resume[cur[h]] /\ sie[h] = (IF l = "syscall" THEN 1 ELSE 0)
  BY <1>1, <1>2, Zenon DEF TypeOK, HartSound, PlaceSound, SieSound, UserSound, InUser, EpcPending, Leaving
<1>4. l = "kret" => InFrame(cur[h])
  BY <1>1, <1>3, ThreadsApart, Zenon DEF HartSound, KernelSound, Thread
<1>5. TypeOK'
  BY <1>1, <1>3, Zenon DEF TypeOK, SwitchOut, Goto, Labels
<1>6. Here(h)
  BY <1>1, <1>3, Zenon DEF TypeOK, SwitchOut, Goto, Here
<1>7. HartSound(h)'
  BY <1>1, <1>3, IdleSound, Zenon DEF TypeOK, SwitchOut, Goto
<1>8. ASSUME NEW p \in Proc, p = cur[h] PROVE AwaySound(p)'
  BY <1>1, <1>3, <1>4, <1>8, Zenon
     DEF TypeOK, SwitchOut, AwaySound, InFrame, Interrupted, Points
<1>9. Leaves(h)
  BY <1>3, <1>8 DEF Leaves, SwitchOut
<1> QED BY <1>5, <1>6, <1>7, <1>9, LocalStep

LEMMA IntrOnInv ==
  ASSUME TrapInv, NEW h \in Harts, IntrOn(h)
  PROVE  TrapInv'
<1>1. TypeOK /\ HartSound(h)
  BY DEF TrapInv
<1>2. TypeOK' /\ Here(h) /\ Stays(h)
  BY <1>1, SMTT(40) DEF TypeOK, IntrOn, Here, Stays, procVars
<1>3. cur[h] = Nil /\ tp[h] = h /\ stvec[h] = "kernelvec"
  BY <1>1, ThreadsApart, Zenon DEF IntrOn, HartSound, PlaceSound, InUser, EpcPending, Leaving, Labels
<1>4. HartSound(h)'
  BY <1>3, IdleSound, Zenon DEF IntrOn
<1> QED BY <1>2, <1>4, LocalStep, Zenon

(* The process goes on with what sched() kept, on this hart or another.     *)
LEMMA SwitchInInv ==
  ASSUME TrapInv, NEW h \in Harts, NEW p \in Proc, SwitchIn(h, p)
  PROVE  TrapInv'
<1>1. TypeOK /\ HartSound(h) /\ AwaySound(p)
  BY Zenon DEF TrapInv
<1>2. pc[h] = "idle" /\ cur[h] = Nil /\ tp[h] = h /\ stvec[h] = "kernelvec"
  BY <1>1, ThreadsApart, Zenon DEF SwitchIn, HartSound, PlaceSound, InUser, EpcPending, Leaving, Labels
<1>3. /\ at[p] \in {"forkret", "syscall", "done", "kret"} /\ at[p] \notin PCs
      /\ intena[p] = (IF at[p] = "syscall" THEN 1 ELSE 0)
      /\ epc[p] = resume[p] /\ (at[p] = "kret" => InFrame(p))
  BY <1>1, ThreadsApart, Zenon DEF SwitchIn, AwaySound, Away, Labels
<1>4. TypeOK' /\ Here(h) /\ Comes(h)
  BY <1>1, <1>2, ZenonT(40) DEF TypeOK, SwitchIn, Goto, Here, Comes, Away, procVars
<1>5. pc'[h] = at[p] /\ cur'[h] = p /\ sie'[h] = intena[p]
  BY <1>1, Zenon DEF TypeOK, SwitchIn, Goto
<1>6. PlaceSound(h)' /\ SieSound(h)'
  BY <1>2, <1>3, <1>5, ThreadsApart, Zenon
     DEF SwitchIn, PlaceSound, SieSound, InUser, EpcPending, Leaving
<1>7. UserSound(h)'
  BY <1>3, <1>5, Zenon DEF SwitchIn, UserSound, InUser, procVars
<1>8. KernelSound(h)'
  BY <1>3, <1>5, ThreadsApart, Zenon DEF SwitchIn, KernelSound, InFrame, Interrupted, Points, Thread
<1> QED BY <1>4, <1>6, <1>7, <1>8, LocalStep, Zenon DEF HartSound

(* A new process starts at forkret() with its own entry point.              *)
LEMMA KexitInv ==
  ASSUME TrapInv, NEW h \in Harts, kexit(h)
  PROVE  TrapInv'
<1>1. TypeOK /\ HartSound(h)
  BY DEF TrapInv
<1>2. pc[h] \in {"syscall", "tick", "done"} /\ pc[h] \notin PCs
  BY ThreadsApart, Zenon DEF kexit, Labels
<1>3. cur[h] \in Proc /\ tp[h] = h /\ stvec[h] = "kernelvec"
  BY <1>1, <1>2, Zenon DEF TypeOK, HartSound, PlaceSound, InUser, EpcPending, Leaving
<1>4. PICK u \in PCs : epc' = [epc EXCEPT ![cur[h]] = u] /\ resume' = [resume EXCEPT ![cur[h]] = u]
  BY ZenonT(40) DEF kexit, SetEntry
<1>5. TypeOK'
  BY <1>1, <1>3, <1>4 DEF TypeOK, kexit, Goto, Labels
<1>6. Here(h)
  BY <1>1, <1>3, <1>4, Zenon DEF TypeOK, kexit, Goto, Here
<1>7. HartSound(h)'
  BY <1>1, <1>3, IdleSound, Zenon DEF TypeOK, kexit, Goto
<1>8. ASSUME NEW p \in Proc, p = cur[h] PROVE AwaySound(p)'
  BY <1>1, <1>4, <1>8, Zenon DEF TypeOK, kexit, AwaySound
<1>9. Leaves(h)
  BY <1>3, <1>8, Zenon DEF Leaves, kexit
<1> QED BY <1>5, <1>6, <1>7, <1>9, LocalStep, Zenon


-----------------------------------------------------------------------------
(* trampoline.S and usertrap().                                             *)

LEMMA UservecInv ==
  ASSUME TrapInv, NEW h \in Harts, uservec(h)
  PROVE  TrapInv'
<1>1. TypeOK /\ HartSound(h)
  BY DEF TrapInv
<1>2. pc[h] = "uservec" /\ cur[h] \in Proc /\ hartid[cur[h]] = h /\ stvec[h] = "uservec"
  BY <1>1, Zenon DEF TypeOK, uservec, HartSound, PlaceSound, UserSound, InUser, EpcPending
<1>3. TypeOK' /\ Here(h) /\ Stays(h)
  BY <1>1, <1>2, Zenon DEF TypeOK, uservec, Goto, Here, Stays, procVars, Labels
<1>4. pc'[h] = "usertrap" /\ pc'[h] \notin PCs /\ pc[h] \notin PCs /\ tp'[h] = h
  BY <1>1, <1>2, ThreadsApart, Zenon DEF TypeOK, uservec, Goto, Labels
<1>5. PlaceSound(h)' /\ SieSound(h)' /\ KernelSound(h)'
  BY <1>1, <1>2, <1>4, ThreadsApart, Zenon
     DEF uservec, HartSound, PlaceSound, SieSound, KernelSound, InUser, EpcPending, Leaving
<1>6. UserSound(h)'
  BY <1>1, <1>2, <1>4, Zenon DEF uservec, HartSound, UserSound, InUser, EpcPending, procVars
<1> QED BY <1>3, <1>5, <1>6, LocalStep, Zenon DEF HartSound

(* From here on the user's pc is in the trapframe.                          *)
LEMMA UsertrapInv ==
  ASSUME TrapInv, NEW h \in Harts, usertrap(h)
  PROVE  TrapInv'
<1>1. TypeOK /\ HartSound(h)
  BY DEF TrapInv
<1>2. pc[h] = "usertrap" /\ pc[h] \notin PCs
  BY ThreadsApart, Zenon DEF usertrap, Labels
<1>3. /\ cur[h] \in Proc /\ spp[h] = "U" /\ sepc[h].at \in PCs /\ sie[h] = 0 /\ tp[h] = h
      /\ resume[cur[h]] = IF cause[h] = "ecall" THEN After[sepc[h].at] ELSE sepc[h].at
  BY <1>1, <1>2, Zenon DEF TypeOK, HartSound, PlaceSound, SieSound, UserSound, InUser
<1>4. /\ stvec' = [stvec EXCEPT ![h] = "kernelvec"]
      /\ epc' = [epc EXCEPT ![cur[h]] = resume[cur[h]]]
      /\ sie' = [sie EXCEPT ![h] = IF cause[h] = "ecall" THEN 1 ELSE 0]
      /\ \E l \in {"syscall", "tick", "done"} :
           pc' = [pc EXCEPT ![h] = l] /\ (l = "syscall" <=> cause[h] = "ecall")
      /\ UNCHANGED <<cur, cause, tp, sepc, spp, spie, hartid, frame, at, intena, resume>>
  BY <1>3, Zenon DEF usertrap, Goto
<1>5. TypeOK'
  BY <1>1, <1>3, <1>4 DEF TypeOK, Labels
<1>6. Here(h) /\ Stays(h)
  BY <1>1, <1>4, Zenon DEF TypeOK, Here, Stays
<1>7. /\ pc'[h] \in {"syscall", "tick", "done"} /\ pc'[h] \notin PCs
      /\ pc'[h] = "syscall" <=> cause[h] = "ecall"
  BY <1>1, <1>4, ThreadsApart DEF TypeOK, Labels
<1>8. stvec'[h] = "kernelvec" /\ sie'[h] = (IF cause[h] = "ecall" THEN 1 ELSE 0)
  BY <1>1, <1>4, Zenon DEF TypeOK
<1>9. PlaceSound(h)' /\ SieSound(h)' /\ KernelSound(h)'
  BY <1>3, <1>4, <1>7, <1>8, ThreadsApart, Zenon
     DEF PlaceSound, SieSound, KernelSound, InUser, EpcPending, Leaving
<1>10. UserSound(h)'
  BY <1>1, <1>3, <1>4, <1>7, Zenon DEF TypeOK, UserSound, InUser, EpcPending
<1> QED BY <1>5, <1>6, <1>9, <1>10, LocalStep, Zenon DEF HartSound

(* The steps that only go on.                                               *)
LEMMA StepInv ==
  ASSUME TrapInv, NEW h \in Harts, NEW from, NEW to,
         \/ from \in {"syscall", "tick", "forkret"} /\ to = "done"
         \/ from = "ktick" /\ to = "kret",
         Step(h, from, to)
  PROVE  TrapInv'
<1>1. TypeOK /\ HartSound(h)
  BY Zenon DEF TrapInv
<1>2. TypeOK' /\ Here(h) /\ Stays(h)
  BY <1>1, Zenon DEF TypeOK, Step, Goto, Here, Stays, procVars, Labels
<1>3. pc[h] = from /\ pc'[h] = to /\ pc[h] \notin PCs /\ pc'[h] \notin PCs
  BY <1>1, ThreadsApart, Zenon DEF TypeOK, Step, Goto, Labels
<1>4. cur[h] # Nil
  BY <1>1, <1>3, Zenon DEF HartSound, PlaceSound
<1>5. PlaceSound(h)' /\ SieSound(h)'
  BY <1>1, <1>3, <1>4, Zenon
     DEF Step, HartSound, PlaceSound, SieSound, InUser, EpcPending, Leaving
<1>6. UserSound(h)'
  BY <1>1, <1>3, <1>4, Zenon DEF Step, HartSound, UserSound, InUser, EpcPending, procVars
<1>7. KernelSound(h)'
  BY <1>1, <1>3, Zenon DEF Step, HartSound, KernelSound, InFrame, Interrupted, Points, Thread
<1> QED BY <1>2, <1>5, <1>6, <1>7, LocalStep, Zenon DEF HartSound

LEMMA KexecInv ==
  ASSUME TrapInv, NEW h \in Harts, kexec(h)
  PROVE  TrapInv'
<1>1. TypeOK /\ HartSound(h)
  BY DEF TrapInv
<1>2. pc[h] = "syscall" /\ pc[h] \notin PCs /\ UNCHANGED <<hartVars, hartid, at, intena, frame>>
  BY ThreadsApart, Zenon DEF kexec, Labels
<1>3. cur[h] \in Proc
  BY <1>1, <1>2, Zenon DEF TypeOK, HartSound, PlaceSound
<1>4. PICK u \in PCs : epc' = [epc EXCEPT ![cur[h]] = u] /\ resume' = [resume EXCEPT ![cur[h]] = u]
  BY ZenonT(40) DEF kexec, SetEntry
<1>5. TypeOK' /\ Here(h) /\ Stays(h)
  BY <1>1, <1>2, <1>3, <1>4, Zenon DEF TypeOK, Here, Stays, hartVars
<1>6. PlaceSound(h)' /\ SieSound(h)' /\ KernelSound(h)'
  BY <1>1, <1>2, Zenon DEF hartVars, HartSound, PlaceSound, SieSound, KernelSound, InUser, EpcPending,
                    Leaving
<1>7. UserSound(h)'
  BY <1>1, <1>2, <1>3, <1>4, Zenon DEF TypeOK, hartVars, UserSound, InUser
<1> QED BY <1>5, <1>6, <1>7, LocalStep, Zenon DEF HartSound

-----------------------------------------------------------------------------
(* prepare_return(): from intr_off() to sret no trap can come in between.   *)

LEMMA IntrOffInv ==
  ASSUME TrapInv, NEW h \in Harts, IntrOff(h)
  PROVE  TrapInv'
<1>1. TypeOK /\ HartSound(h)
  BY DEF TrapInv
<1>2. TypeOK' /\ Here(h) /\ Stays(h)
  BY <1>1 DEF TypeOK, IntrOff, Goto, Here, Stays, procVars, Labels
<1>3. /\ pc[h] = "done" /\ pc'[h] = "vec" /\ pc[h] \notin PCs /\ pc'[h] \notin PCs
      /\ sie'[h] = 0
  BY <1>1, ThreadsApart, Zenon DEF TypeOK, IntrOff, Goto, Labels
<1>4. PlaceSound(h)' /\ SieSound(h)' /\ KernelSound(h)'
  BY <1>1, <1>3, Zenon
     DEF IntrOff, HartSound, PlaceSound, SieSound, KernelSound, InUser, EpcPending, Leaving
<1>5. UserSound(h)'
  BY <1>1, <1>3, ZenonT(40) DEF IntrOff, HartSound, UserSound, InUser, EpcPending, procVars
<1> QED BY <1>2, <1>4, <1>5, LocalStep DEF HartSound

LEMMA SetVectorInv ==
  ASSUME TrapInv, NEW h \in Harts, SetVector(h)
  PROVE  TrapInv'
<1>1. TypeOK /\ HartSound(h)
  BY DEF TrapInv
<1>2. TypeOK' /\ Here(h) /\ Stays(h)
  BY <1>1, Zenon DEF TypeOK, SetVector, Goto, Here, Stays, procVars, Labels
<1>3. /\ pc[h] = "vec" /\ pc'[h] = "regs" /\ pc[h] \notin PCs /\ pc'[h] \notin PCs
      /\ stvec'[h] = "uservec"
  BY <1>1, ThreadsApart, Zenon DEF TypeOK, SetVector, Goto, Labels
<1>4. PlaceSound(h)' /\ SieSound(h)' /\ KernelSound(h)'
  BY <1>1, <1>3, Zenon
     DEF SetVector, HartSound, PlaceSound, SieSound, KernelSound, InUser, EpcPending, Leaving
<1>5. UserSound(h)'
  BY <1>1, <1>3, ZenonT(40) DEF SetVector, HartSound, UserSound, InUser, EpcPending, procVars
<1> QED BY <1>2, <1>4, <1>5, LocalStep DEF HartSound

LEMMA SetRegistersInv ==
  ASSUME TrapInv, NEW h \in Harts, SetRegisters(h)
  PROVE  TrapInv'
<1>1. TypeOK /\ HartSound(h)
  BY DEF TrapInv
<1>2. pc[h] = "regs" /\ pc[h] \notin PCs
  BY ThreadsApart, Zenon DEF SetRegisters, Labels
<1>3. /\ cur[h] \in Proc /\ tp[h] = h /\ stvec[h] = "uservec" /\ sie[h] = 0
      /\ epc[cur[h]] = resume[cur[h]]
  BY <1>1, <1>2, Zenon
     DEF TypeOK, HartSound, PlaceSound, SieSound, UserSound, InUser, EpcPending, Leaving
<1>4. TypeOK'
  BY <1>1, <1>3 DEF TypeOK, SetRegisters, NewHartid, Goto, Places, Threads, Labels
<1>5. Here(h) /\ Stays(h)
  BY <1>1, Zenon DEF TypeOK, SetRegisters, NewHartid, Goto, Here, Stays
<1>6. /\ pc'[h] = "sret" /\ pc'[h] \notin PCs /\ spp'[h] = "U" /\ spie'[h] = 1
      /\ sepc'[h] = [who |-> cur[h], at |-> epc[cur[h]]] /\ hartid'[cur[h]] = h
  BY <1>1, <1>3, ThreadsApart, Zenon DEF TypeOK, SetRegisters, NewHartid, Goto, Labels
<1>7. PlaceSound(h)' /\ SieSound(h)' /\ KernelSound(h)'
  BY <1>3, <1>6, ThreadsApart, ZenonT(40)
     DEF SetRegisters, PlaceSound, SieSound, KernelSound, InUser, EpcPending, Leaving
<1>8. UserSound(h)'
  BY <1>3, <1>6, ZenonT(40) DEF SetRegisters, UserSound, InUser, EpcPending
<1> QED BY <1>4, <1>5, <1>7, <1>8, LocalStep DEF HartSound

-----------------------------------------------------------------------------
(* kerneltrap(): sepc and sstatus go to its locals and come back.           *)

LEMMA KerneltrapInv ==
  ASSUME TrapInv, NEW h \in Harts, kerneltrap(h)
  PROVE  TrapInv'
<1>1. TypeOK /\ HartSound(h)
  BY DEF TrapInv
<1>2. pc[h] = "kernelvec" /\ pc[h] \notin PCs
  BY ThreadsApart, ZenonT(40) DEF kerneltrap, Labels
<1>3. sie[h] = 0 /\ Interrupted(Thread(h), sepc[h], spp[h], spie[h])
  BY <1>1, <1>2, Zenon DEF HartSound, SieSound, KernelSound
<1>4. Thread(h) \in Threads /\ Thread(h)' = Thread(h)
  BY <1>1, Zenon DEF TypeOK, Thread, Threads, kerneltrap
<1>5. \E l \in {"ktick", "kret"} : pc' = [pc EXCEPT ![h] = l] /\ (l = "ktick" => cur[h] # Nil)
  <2>1. ~(spp[h] = "U" \/ sie[h] = 1)
    BY <1>3 DEF Interrupted
  <2>2. pc' = [pc EXCEPT ![h] = IF cause[h] = "timer" /\ cur[h] # Nil THEN "ktick" ELSE "kret"]
    BY <2>1, Zenon DEF kerneltrap, Goto
  <2>3. CASE cause[h] = "timer" /\ cur[h] # Nil
    BY <2>2, <2>3, Zenon
  <2>4. CASE ~(cause[h] = "timer" /\ cur[h] # Nil)
    BY <2>2, <2>4, ZenonT(40)
  <2> QED BY <2>3, <2>4, Zenon
<1>6. TypeOK'
  BY <1>1, <1>4, <1>5 DEF TypeOK, kerneltrap, Frames, procVars, Labels
<1>7. Here(h) /\ Stays(h)
  BY <1>1, <1>5, Zenon DEF TypeOK, kerneltrap, Here, Stays, procVars
<1>8. /\ pc'[h] \in {"ktick", "kret"} /\ pc'[h] \notin PCs
      /\ pc'[h] = "ktick" => cur[h] # Nil
  BY <1>1, <1>5, ThreadsApart DEF TypeOK, Labels
<1>9. PlaceSound(h)' /\ SieSound(h)'
  BY <1>1, <1>2, <1>3, <1>8, ZenonT(40)
     DEF kerneltrap, HartSound, PlaceSound, SieSound, InUser, EpcPending, Leaving
<1>10. UserSound(h)'
  BY <1>1, <1>2, <1>8, Zenon DEF kerneltrap, HartSound, UserSound, InUser, EpcPending, procVars
<1>11. KernelSound(h)'
  <2>1. frame'[Thread(h)] = [sepc |-> sepc[h], spp |-> spp[h], spie |-> spie[h]]
    BY <1>1, <1>4, Zenon DEF TypeOK, kerneltrap
  <2> QED BY <1>3, <1>4, <1>8, <2>1, SMTT(40) DEF KernelSound, InFrame, Interrupted, Points
<1> QED BY <1>6, <1>7, <1>9, <1>10, <1>11, LocalStep, Zenon DEF HartSound

LEMMA KernelReturnInv ==
  ASSUME TrapInv, NEW h \in Harts, KernelReturn(h)
  PROVE  TrapInv'
<1>1. TypeOK /\ HartSound(h)
  BY DEF TrapInv
<1>2. pc[h] = "kret" /\ pc[h] \notin PCs
  BY ThreadsApart, SMTT(40) DEF KernelReturn, Labels
<1>3. sie[h] = 0 /\ InFrame(Thread(h))
  BY <1>1, <1>2, ZenonT(40) DEF HartSound, SieSound, KernelSound
<1>4. Thread(h) \in Threads /\ Thread(h)' = Thread(h)
  BY <1>1, Zenon DEF TypeOK, Thread, Threads, KernelReturn
<1>5. /\ pc'[h] = "sret" /\ pc'[h] \notin PCs /\ sepc'[h] = frame[Thread(h)].sepc
      /\ spp'[h] = frame[Thread(h)].spp /\ spie'[h] = frame[Thread(h)].spie
  BY <1>1, ThreadsApart, Zenon DEF TypeOK, KernelReturn, Restored, Goto, Labels
<1>6. NoFrame(Thread(h)) \in Frames /\ frame[Thread(h)] \in Frames
  BY <1>1, <1>4, SMTT(40) DEF TypeOK, NoFrame, Frames, Places, Labels
<1>7. TypeOK'
  BY <1>1, <1>4, <1>6, Zenon DEF TypeOK, KernelReturn, Restored, Goto, Frames, procVars, Labels
<1>8. Here(h) /\ Stays(h)
  BY <1>1, Zenon DEF TypeOK, KernelReturn, Restored, Goto, Here, Stays, procVars
<1>9. spp'[h] = "S" /\ KernelSound(h)'
  BY <1>3, <1>4, <1>5, Zenon DEF KernelSound, InFrame, Interrupted, Points
<1>10. PlaceSound(h)' /\ SieSound(h)'
  BY <1>1, <1>2, <1>3, <1>5, <1>9, Zenon
     DEF KernelReturn, HartSound, PlaceSound, SieSound, InUser, EpcPending, Leaving
<1>11. UserSound(h)'
  BY <1>1, <1>2, <1>5, <1>9, ZenonT(40) DEF KernelReturn, HartSound, UserSound, InUser, EpcPending, procVars
<1> QED BY <1>7, <1>8, <1>9, <1>10, <1>11, LocalStep, Zenon DEF HartSound

-----------------------------------------------------------------------------
LEMMA NextInv ==
  ASSUME TrapInv, [Next]_vars
  PROVE  TrapInv'
<1>1. ASSUME NEW h \in Harts, UserTrap(h) \/ KernelInterrupt(h) \/ SRet(h)
      PROVE  TrapInv'
  BY <1>1, UserTrapInv, KernelInterruptInv, SRetInv, Zenon
<1>2. ASSUME NEW h \in Harts, IntrOn(h) \/ (\E p \in Proc : SwitchIn(h, p)) \/ kexit(h)
      PROVE  TrapInv'
  BY <1>2, IntrOnInv, SwitchInInv, KexitInv, Zenon
<1>3. ASSUME NEW h \in Harts, uservec(h) \/ usertrap(h) \/ kexec(h)
      PROVE  TrapInv'
  BY <1>3, UservecInv, UsertrapInv, KexecInv
<1>4. ASSUME NEW h \in Harts,
             SyscallSleep(h) \/ SyscallReturn(h) \/ UserYield(h) \/ forkret(h) \/ KernelYield(h)
      PROVE  TrapInv'
  BY <1>4, SwitchOutInv, StepInv, Zenon DEF SyscallSleep, SyscallReturn, UserYield, forkret, KernelYield
<1>5. ASSUME NEW h \in Harts, IntrOff(h) \/ SetVector(h) \/ SetRegisters(h)
      PROVE  TrapInv'
  BY <1>5, IntrOffInv, SetVectorInv, SetRegistersInv
<1>6. ASSUME NEW h \in Harts, kerneltrap(h) \/ KernelReturn(h)
      PROVE  TrapInv'
  BY <1>6, KerneltrapInv, KernelReturnInv, Zenon
<1>7. CASE UNCHANGED vars
  <2> USE <1>7 DEF vars, hartVars, procVars
  <2>1. TypeOK' /\ Apart'
    BY Zenon DEF TrapInv, TypeOK, Apart
  <2>2. ASSUME NEW h \in Harts PROVE HartSound(h)'
    <3>1. HartSound(h)
      BY Zenon DEF TrapInv
    <3>2. PlaceSound(h)' /\ SieSound(h)'
      BY <3>1, Zenon DEF HartSound, PlaceSound, SieSound, InUser, EpcPending, Leaving
    <3>3. UserSound(h)'
      BY <3>1, Zenon DEF HartSound, UserSound, InUser, EpcPending
    <3>4. KernelSound(h)'
      BY <3>1, Zenon DEF HartSound, KernelSound, InFrame, Interrupted, Points, Thread
    <3> QED BY <3>2, <3>3, <3>4, Zenon DEF HartSound
  <2>3. ASSUME NEW p \in Proc PROVE AwaySound(p)'
    <3>1. AwaySound(p)
      BY Zenon DEF TrapInv
    <3> QED BY <3>1, Zenon DEF AwaySound, Away, InFrame, Interrupted, Points
  <2> QED BY <2>1, <2>2, <2>3, Zenon DEF TrapInv
<1> QED BY <1>1, <1>2, <1>3, <1>4, <1>5, <1>6, <1>7, Zenon DEF Next

(* What the invariant says of user mode and of sret.                        *)
LEMMA InvResumes == TrapInv => Resumes
<1> SUFFICES ASSUME TrapInv PROVE Resumes
  BY Zenon
<1>1. ASSUME NEW h \in Harts, pc[h] \in PCs
      PROVE  /\ cur[h] # Nil /\ pc[h] = resume[cur[h]]
             /\ stvec[h] = "uservec" /\ sie[h] = 1 /\ hartid[cur[h]] = h
  <2>1. HartSound(h) /\ pc[h] \notin Labels
    BY <1>1, ThreadsApart, Zenon DEF TrapInv
  <2>2. cur[h] # Nil /\ stvec[h] = "uservec"
    BY <1>1, <2>1, Zenon DEF HartSound, PlaceSound, EpcPending, Labels
  <2> QED BY <1>1, <2>1, <2>2, ZenonT(40) DEF HartSound, SieSound, UserSound, InUser
<1>2. ASSUME NEW h \in Harts
      PROVE  /\ pc[h] # "panic" /\ (pc[h] \notin PCs \cup {"uservec"} => tp[h] = h)
             /\ pc[h] \notin PCs /\ sie[h] = 1 => stvec[h] = "kernelvec"
  <2>1. PlaceSound(h) /\ SieSound(h)
    BY Zenon DEF TrapInv, HartSound
  <2>2. pc[h] \notin PCs /\ sie[h] = 1 => ~EpcPending(h) /\ ~Leaving(h)
    BY <2>1 DEF SieSound, EpcPending, Leaving
  <2> QED BY <2>1, <2>2, Zenon DEF PlaceSound, InUser
<1>3. ASSUME NEW h \in Harts, pc[h] = "sret"
      PROVE  /\ sepc[h].who = Thread(h)
             /\ spp[h] = "S" => sepc[h].at \in {"syscall", "done", "idle"}
  <2>1. HartSound(h) /\ spp[h] \in {"U", "S"}
    BY Zenon DEF TrapInv, TypeOK
  <2>2. CASE spp[h] = "U"
    BY <1>3, <2>1, <2>2, SMTT(40) DEF HartSound, PlaceSound, UserSound, Leaving, Thread
  <2>3. CASE spp[h] = "S"
    BY <1>3, <2>1, <2>3, Zenon DEF HartSound, KernelSound, Interrupted, Points
  <2> QED BY <2>1, <2>2, <2>3, Zenon
<1>4. UserResumes /\ KernelResumes
  BY <1>1, <1>2, <1>3 DEF UserResumes, KernelResumes
<1> QED BY <1>4 DEF TrapInv, Resumes

(* Every process and every interrupted kernel thread goes on where it was,  *)
(* with the registers prepare_return() and kerneltrap() mean it to have,    *)
(* and no panic of usertrap() or kerneltrap() is reached: for any number of *)
(* harts and processes, whatever the user programs are.                     *)
THEOREM TrapsResume == Spec => []Resumes
<1>1. TrapInv /\ [Next]_vars => TrapInv'
  BY NextInv
<1> QED BY InitInv, InvResumes, <1>1, PTL DEF Spec

-----------------------------------------------------------------------------
(* The schedulers and their clock.                                         *)

(* What scheduler() keeps of a hart.                                        *)
HartRec == [i : 1 .. NPROC + 1, min_p : 0 .. NPROC, run : 0 .. NPROC, due : BOOLEAN]

(* The types of the variables of Sched.                                     *)
SchedType ==
  /\ policy \in {"FIFO", "RR"}
  /\ state \in [Slots -> {"UNUSED", "USED", "RUNNABLE", "RUNNING", "SLEEPING", "ZOMBIE"}]
  /\ creation_time \in [Slots -> Int] /\ charged \in [Slots -> Int]
  /\ lock \in [Slots -> Cpus \cup {Unlocked}]
  /\ hart \in [Cpus -> HartRec]
  /\ ticks \in Int /\ visit \in 0 .. NPROC + 1
  /\ waited \in [Cpus -> SUBSET Slots] /\ late \in SUBSET Slots

(* The candidate of a FIFO scan is behind it in the table, and stays        *)
(* RUNNABLE: the hart has its lock.                                         *)
HoldsOldest(h) ==
  hart[h].min_p # None =>
    /\ lock[hart[h].min_p] = h /\ state[hart[h].min_p] = "RUNNABLE"
    /\ hart[h].min_p < hart[h].i /\ hart[h].run = None

(* A hart runs a RUNNING process, and no two run the same one.              *)
RunsOne ==
  /\ \A h \in Cpus : hart[h].run # None => state[hart[h].run] = "RUNNING"
  /\ \A g, h \in Cpus : hart[g].run = hart[h].run /\ hart[g].run # None => g = h

(* OldestFirst in the middle of a scan: of the slots passed.                *)
OldestSoFar(h) ==
  policy = "FIFO" /\ hart[h].run = None =>
    \A q \in waited[h] : q < hart[h].i =>
      LET m == hart[h].min_p
      IN /\ m # None
         /\ creation_time[q] > creation_time[m] \/ (creation_time[q] = creation_time[m] /\ q >= m)

(* What the scans need of each other.                                       *)
ScanSound ==
  /\ RunsOne
  /\ \A h \in Cpus : waited[h] \subseteq Runnable /\ HoldsOldest(h) /\ OldestSoFar(h)

(* 1 while update_time is still to come to slot p for this tick.            *)
ToCome(p) == IF visit \in 1 .. p THEN 1 ELSE 0

(* WaitingBounded, with the tick update_time is still to charge.            *)
TimesSound ==
  \A p \in Slots : state[p] # "UNUSED" =>
    charged[p] + ToCome(p) <= ticks - creation_time[p] + (IF p \in late THEN 1 ELSE 0)

(* The invariant holds at the start.                                        *)
LEMMA SchedStarts == SchedInit => SchedType /\ ScanSound /\ TimesSound
  BY SchedAssumption DEF SchedInit, SchedType, HartRec, ScanSound, TimesSound, RunsOne, HoldsOldest, OldestSoFar, ToCome, Slots, None, Runnable

(* A step leaves every hart but h alone, which it leaves at n, m, r and     *)
(* d.                                                                       *)
Moves(h, n, m, r, d) ==
  /\ hart' \in [Cpus -> HartRec]
  /\ \A g \in Cpus \ {h} : hart'[g] = hart[g]
  /\ hart'[h].i = n /\ hart'[h].min_p = m /\ hart'[h].run = r /\ hart'[h].due = d

(* The five ways in which a step writes to a hart.                          *)
LEMMA SetI ==
  ASSUME hart \in [Cpus -> HartRec], NEW h \in Cpus, NEW n \in 1 .. NPROC + 1,
         hart' = [hart EXCEPT ![h].i = n]
  PROVE  Moves(h, n, hart[h].min_p, hart[h].run, hart[h].due)
  BY Zenon DEF HartRec, Moves

LEMMA SetIMin ==
  ASSUME hart \in [Cpus -> HartRec], NEW h \in Cpus, NEW n \in 1 .. NPROC + 1,
         NEW m \in 0 .. NPROC, hart' = [hart EXCEPT ![h].i = n, ![h].min_p = m]
  PROVE  Moves(h, n, m, hart[h].run, hart[h].due)
  BY Zenon DEF HartRec, Moves

LEMMA SetRun ==
  ASSUME hart \in [Cpus -> HartRec], NEW h \in Cpus, NEW r \in 0 .. NPROC,
         NEW m \in 0 .. NPROC, hart' = [hart EXCEPT ![h].run = r, ![h].min_p = m]
  PROVE  Moves(h, hart[h].i, m, r, hart[h].due)
  BY Zenon DEF HartRec, Moves

LEMMA SetLeave ==
  ASSUME hart \in [Cpus -> HartRec], NEW h \in Cpus, NEW n \in 1 .. NPROC + 1,
         NEW r \in 0 .. NPROC, hart' = [hart EXCEPT ![h].run = r, ![h].due = FALSE, ![h].i = n]
  PROVE  Moves(h, n, hart[h].min_p, r, FALSE)
  BY DEF HartRec, Moves

LEMMA SetDue ==
  ASSUME hart \in [Cpus -> HartRec], NEW h \in Cpus, NEW d \in BOOLEAN,
         hart' = [hart EXCEPT ![h].due = d]
  PROVE  Moves(h, hart[h].i, hart[h].min_p, hart[h].run, d)
  BY Zenon DEF HartRec, Moves

(* The types of the fields of a hart.                                       *)
LEMMA HartFields ==
  ASSUME SchedType, NEW h \in Cpus
  PROVE  /\ hart \in [Cpus -> HartRec] /\ hart[h] \in HartRec
         /\ hart[h].i \in 1 .. NPROC + 1 /\ hart[h].i \in Int
         /\ hart[h].min_p \in 0 .. NPROC /\ hart[h].run \in 0 .. NPROC
         /\ hart[h].min_p # None => hart[h].min_p \in Slots
         /\ hart[h].run # None => hart[h].run \in Slots
         /\ hart[h].due \in BOOLEAN
<1>1. hart \in [Cpus -> HartRec] /\ hart[h] \in HartRec
  BY DEF SchedType
<1>2. /\ hart[h].i \in 1 .. NPROC + 1 /\ hart[h].min_p \in 0 .. NPROC
      /\ hart[h].run \in 0 .. NPROC /\ hart[h].due \in BOOLEAN
  BY <1>1 DEF HartRec
<1> QED
  BY <1>1, <1>2, SchedAssumption DEF Slots, None

(* What each step does to the harts: the FIFO scan,                         *)
LEMMA FifoMoves ==
  ASSUME SchedType, NEW h \in Cpus, ScanFifo(h)
  PROVE  LET p == hart[h].i IN
         /\ p \in Slots /\ hart[h].run = None /\ policy = "FIFO" /\ Free(p)
         /\ \/ /\ state[p] = "RUNNABLE" /\ Older(p, hart[h].min_p)
               /\ Moves(h, p + 1, p, None, hart[h].due)
               /\ lock' = [q \in Slots |-> IF q = p THEN h ELSE
                                         IF q = hart[h].min_p THEN Unlocked ELSE lock[q]]
            \/ /\ ~(state[p] = "RUNNABLE" /\ Older(p, hart[h].min_p))
               /\ Moves(h, p + 1, hart[h].min_p, None, hart[h].due)
               /\ lock' = lock
<1> DEFINE p == hart[h].i
<1>1. p \in Slots /\ hart[h].run = None /\ policy = "FIFO" /\ Free(p)
  BY DEF ScanFifo, Scans
<1>2. p + 1 \in 1 .. NPROC + 1 /\ p \in 0 .. NPROC
  BY <1>1, SchedAssumption DEF Slots
<1> HIDE DEF p
<1>3. CASE state[p] = "RUNNABLE" /\ Older(p, hart[h].min_p)
  <2>1. hart' = [hart EXCEPT ![h].i = p + 1, ![h].min_p = p]
    BY <1>3 DEF ScanFifo, p
  <2>2. Moves(h, p + 1, p, None, hart[h].due)
    BY <2>1, <1>1, <1>2, HartFields, SetIMin, Zenon
  <2> QED
    BY <1>1, <1>3, <2>2 DEF ScanFifo, p
<1>4. CASE ~(state[p] = "RUNNABLE" /\ Older(p, hart[h].min_p))
  <2>1. hart' = [hart EXCEPT ![h].i = p + 1]
    BY <1>4 DEF ScanFifo, p
  <2>2. Moves(h, p + 1, hart[h].min_p, None, hart[h].due)
    BY <2>1, <1>1, <1>2, HartFields, SetI, Zenon
  <2> QED
    BY <1>1, <1>4, <2>2, Zenon DEF ScanFifo, p
<1> QED
  BY <1>3, <1>4 DEF p

(* swtch(),                                                                 *)
LEMMA RunMoves ==
  ASSUME SchedType, NEW h \in Cpus, NEW p \in Slots, Run(h, p)
  PROVE  Moves(h, hart[h].i, None, p, hart[h].due)
<1>1. p \in 0 .. NPROC /\ None \in 0 .. NPROC
  BY SchedAssumption DEF Slots, None
<1> QED
  BY <1>1, HartFields, SetRun, Zenon DEF Run

(* the top of the loop,                                                     *)
LEMMA RescanMoves ==
  ASSUME SchedType, NEW h \in Cpus, Rescan(h)
  PROVE  Moves(h, 1, None, None, hart[h].due)
<1>1. 1 \in 1 .. NPROC + 1
  BY SchedAssumption
<1> QED
  BY <1>1, HartFields, SetI, Zenon DEF Rescan, Scans

(* the round-robin scan,                                                    *)
LEMMA RRMoves ==
  ASSUME SchedType, NEW h \in Cpus, ScanRR(h), state[hart[h].i] # "RUNNABLE"
  PROVE  Moves(h, hart[h].i + 1, hart[h].min_p, None, hart[h].due)
<1>1. hart[h].i + 1 \in 1 .. NPROC + 1
  BY SchedAssumption DEF ScanRR, Slots
<1> QED
  BY <1>1, HartFields, SetI DEF ScanRR, Scans

(* sched(),                                                                 *)
LEMMA LeaveMoves ==
  ASSUME SchedType, NEW h \in Cpus, NEW s, Leave(h, s)
  PROVE  /\ hart[h].run \in Slots
         /\ Moves(h, IF policy = "FIFO" THEN 1 ELSE hart[h].run + 1, hart[h].min_p, None, FALSE)
<1> DEFINE n == IF policy = "FIFO" THEN 1 ELSE hart[h].run + 1
<1>1. hart[h].run \in Slots
  BY HartFields DEF Leave
<1>2. n \in 1 .. NPROC + 1 /\ None \in 0 .. NPROC
  BY <1>1, SchedAssumption DEF Slots, None
<1>3. hart' = [hart EXCEPT ![h].run = None, ![h].due = FALSE, ![h].i = n]
  BY Zenon DEF Leave
<1> HIDE DEF n
<1>4. Moves(h, n, hart[h].min_p, None, FALSE)
  BY <1>2, <1>3, HartFields, SetLeave, Zenon
<1> QED
  BY <1>1, <1>4, Zenon DEF n

(* and the return of clockintr().                                           *)
LEMMA ClockMoves ==
  ASSUME SchedType, ClockReturn
  PROVE  \E d : Moves(Cpu0, hart[Cpu0].i, hart[Cpu0].min_p, hart[Cpu0].run, d)
<1> DEFINE d == policy = "RR" /\ hart[Cpu0].run # None
<1>1. d \in BOOLEAN /\ hart' = [hart EXCEPT ![Cpu0].due = d]
  BY Zenon DEF ClockReturn
<1> HIDE DEF d
<1> QED
  BY <1>1, SetDue, HartFields, SchedAssumption, Zenon

(* Steps keep the types.                                                    *)
LEMMA SchedTypeStep == SchedType /\ SchedNext => SchedType'
<1> SUFFICES ASSUME SchedType, SchedNext PROVE SchedType'
  BY Zenon
<1>0. policy' = policy
  BY Zenon DEF SchedNext
<1>1. ASSUME NEW h \in Cpus, ScanFifo(h) PROVE SchedType'
  BY <1>0, <1>1, FifoMoves DEF ScanFifo, SchedType, Moves
<1>2. ASSUME NEW h \in Cpus, RunOldest(h) PROVE SchedType'
  <2>1. hart[h].min_p \in Slots
    BY <1>2, HartFields DEF RunOldest
  <2> QED
    BY <1>0, <1>2, <2>1, RunMoves, Zenon DEF RunOldest, Run, StillWaiting, SchedType, Moves
<1>3. ASSUME NEW h \in Cpus, ScanRR(h) PROVE SchedType'
  <2>1. CASE state[hart[h].i] = "RUNNABLE"
    <3>1. hart[h].i \in Slots /\ Run(h, hart[h].i)
      BY <1>3, <2>1, Zenon DEF ScanRR
    <3>2. hart' \in [Cpus -> HartRec]
      BY <3>1, RunMoves, Zenon DEF Moves
    <3> QED
      BY <1>0, <1>3, <3>1, <3>2 DEF ScanRR, Run, StillWaiting, SchedType
  <2>2. CASE state[hart[h].i] # "RUNNABLE"
    BY <1>0, <1>3, <2>2, RRMoves, Zenon DEF ScanRR, SchedType, Moves
  <2> QED
    BY <2>1, <2>2, Zenon
<1>4. ASSUME NEW h \in Cpus, Rescan(h) PROVE SchedType'
  BY <1>0, <1>4, RescanMoves, Zenon DEF Rescan, Runnable, SchedType, Moves
<1>5. ASSUME NEW h \in Cpus, NEW s \in {"SLEEPING", "ZOMBIE", "RUNNABLE"}, Leave(h, s) PROVE SchedType'
  <2>1. hart[h].run \in Slots /\ hart' \in [Cpus -> HartRec]
    BY <1>5, LeaveMoves, Zenon DEF Moves
  <2>2. state' = [state EXCEPT ![hart[h].run] = s] /\ Runnable \in SUBSET Slots
    BY <1>5, Zenon DEF Leave, Runnable
  <2>3. waited' \in [Cpus -> SUBSET Slots]
    BY <1>5, <2>1, <2>2 DEF Leave, SchedType
  <2> QED
    BY <1>0, <1>5, <2>1, <2>2, <2>3 DEF Leave, SchedType
<1>8. ASSUME NEW h \in Cpus, allocproc(h) PROVE SchedType'
  BY <1>0, <1>8 DEF allocproc, Taken, SchedType
<1>9. ASSUME NEW p \in Slots, Forked(p) \/ wakeup(p) \/ freeproc(p) PROVE SchedType'
  BY <1>0, <1>9, Zenon DEF Forked, wakeup, freeproc, Becomes, SchedType
<1>10. ASSUME clockintr PROVE SchedType'
  BY <1>0, <1>10, SchedAssumption DEF clockintr, SchedType
<1>12. ASSUME update_time PROVE SchedType'
  <2>1. visit' \in 0 .. NPROC + 1
    BY <1>12, SchedAssumption DEF update_time, SchedType, Slots
  <2>2. charged' \in [Slots -> Int]
    BY <1>12 DEF update_time, SchedType
  <2> QED
    BY <1>0, <1>12, <2>1, <2>2, Zenon DEF update_time, SchedType
<1>11. ASSUME ClockReturn PROVE SchedType'
  BY <1>0, <1>11, ClockMoves, SchedAssumption DEF ClockReturn, SchedType, Moves
<1> QED
  BY <1>1, <1>2, <1>3, <1>4, <1>5, <1>8, <1>9, <1>10, <1>11, <1>12, Zenon DEF SchedNext, Sleep, ExitProc, yield

(* Steps keep the processes on different harts.                             *)
LEMMA RunsOneStep == SchedType /\ ScanSound /\ SchedNext => RunsOne'
<1> SUFFICES ASSUME SchedType, ScanSound, SchedNext PROVE RunsOne'
  OBVIOUS
<1> USE DEF RunsOne
<1>0. RunsOne
  BY DEF ScanSound
<1>1. ASSUME NEW h \in Cpus, ScanFifo(h) PROVE RunsOne'
  <2>1. \A g \in Cpus : hart'[g].run = hart[g].run
    BY <1>1, FifoMoves, Zenon DEF Moves
  <2> QED
    BY <1>0, <1>1, <2>1, Zenon DEF ScanFifo
<1>2. ASSUME NEW h \in Cpus, NEW p \in Slots, Run(h, p), state[p] = "RUNNABLE" PROVE RunsOne'
  <2>1. hart'[h].run = p /\ \A g \in Cpus \ {h} : hart'[g] = hart[g]
    BY <1>2, RunMoves DEF Moves
  <2>2. \A q \in Slots : state'[q] = IF q = p THEN "RUNNING" ELSE state[q]
    BY <1>2 DEF Run, SchedType
  <2>3. \A g \in Cpus : hart[g].run # p
    BY <1>0, <1>2, SchedAssumption DEF None, Slots
  <2> QED
    BY <1>0, <2>1, <2>2, <2>3, HartFields
<1>3. ASSUME NEW h \in Cpus, RunOldest(h) PROVE RunsOne'
  BY <1>2, <1>3, HartFields, Zenon DEF RunOldest, ScanSound, HoldsOldest
<1>4. ASSUME NEW h \in Cpus, ScanRR(h) PROVE RunsOne'
  <2>1. CASE state[hart[h].i] = "RUNNABLE"
    BY <1>2, <1>4, <2>1, Zenon DEF ScanRR
  <2>2. CASE state[hart[h].i] # "RUNNABLE"
    <3>1. \A g \in Cpus : hart'[g].run = hart[g].run
      BY <1>4, <2>2, RRMoves DEF Moves, ScanRR, Scans
    <3> QED
      BY <1>0, <1>4, <2>2, <3>1 DEF ScanRR
  <2> QED
    BY <2>1, <2>2
<1>5. ASSUME NEW h \in Cpus, Rescan(h) PROVE RunsOne'
  <2>1. \A g \in Cpus : hart'[g].run = hart[g].run
    BY <1>5, RescanMoves, Zenon DEF Moves, Rescan, Scans
  <2> QED
    BY <1>0, <1>5, <2>1 DEF Rescan
<1>6. ASSUME NEW h \in Cpus, NEW s, Leave(h, s) PROVE RunsOne'
  <2>1. hart'[h].run = None /\ \A g \in Cpus \ {h} : hart'[g] = hart[g]
    BY <1>6, LeaveMoves, Zenon DEF Moves
  <2>2. \A q \in Slots : q # hart[h].run => state'[q] = state[q]
    BY <1>6, Zenon DEF Leave, SchedType
  <2> QED
    BY <1>0, <2>1, <2>2, HartFields DEF Leave
<1>7. ASSUME NEW p \in Slots, state[p] # "RUNNING", \E s : state' = [state EXCEPT ![p] = s], hart' = hart
      PROVE RunsOne'
  <2>1. \A q \in Slots : q # p => state'[q] = state[q]
    BY <1>7, Zenon DEF SchedType
  <2> QED
    BY <1>0, <1>7, <2>1, HartFields, Zenon
<1>8. ASSUME NEW h \in Cpus, allocproc(h) PROVE RunsOne'
  BY <1>7, <1>8, Zenon DEF allocproc, Taken
<1>9. ASSUME NEW p \in Slots, Forked(p) \/ wakeup(p) \/ freeproc(p) PROVE RunsOne'
  BY <1>7, <1>9, Zenon DEF Forked, wakeup, freeproc, Becomes
<1>10. ASSUME clockintr \/ update_time PROVE RunsOne'
  BY <1>0, <1>10, Zenon DEF clockintr, update_time
<1>11. ASSUME ClockReturn PROVE RunsOne'
  <2>1. \A g \in Cpus : hart'[g].run = hart[g].run
    BY <1>11, ClockMoves, Zenon DEF Moves
  <2> QED
    BY <1>0, <1>11, <2>1 DEF ClockReturn
<1> QED
  BY <1>1, <1>3, <1>4, <1>5, <1>6, <1>8, <1>9, <1>10, <1>11, Zenon DEF SchedNext, Sleep, ExitProc, yield

(* Steps keep the accounts: a tick is to come for every slot when           *)
(* clockintr() counts it, and no longer when update_time has been there.    *)
LEMMA TimesStep == SchedType /\ ScanSound /\ TimesSound /\ SchedNext => TimesSound'
<1> SUFFICES ASSUME SchedType, ScanSound, TimesSound, SchedNext, NEW p \in Slots, state'[p] # "UNUSED"
             PROVE  (charged[p] + ToCome(p) <= ticks - creation_time[p] + (IF p \in late THEN 1 ELSE 0))'
  BY DEF TimesSound
<1> DEFINE Bounded == charged[p] + ToCome(p) <= ticks - creation_time[p] + (IF p \in late THEN 1 ELSE 0)
<1>0. /\ p \in 1 .. NPROC /\ p \in Int /\ ticks \in Int /\ charged[p] \in Int
      /\ creation_time[p] \in Int /\ visit \in Int
  BY SchedAssumption DEF SchedType, Slots
<1>1. ASSUME state[p] # "UNUSED", UNCHANGED <<charged, visit, ticks, creation_time, late>> PROVE Bounded'
  BY <1>1 DEF TimesSound, ToCome
<1>2. ASSUME NEW q \in Slots, state[q] # "UNUSED", \E s : state' = [state EXCEPT ![q] = s] PROVE state[p] # "UNUSED"
  BY <1>2, Zenon DEF SchedType
<1>3. ASSUME NEW h \in Cpus, ScanFifo(h) \/ Rescan(h) PROVE Bounded'
  BY <1>1, <1>3, Zenon DEF ScanFifo, Rescan
<1>4. ASSUME NEW h \in Cpus, RunOldest(h) PROVE Bounded'
  <2>1. hart[h].min_p \in Slots /\ state[hart[h].min_p] = "RUNNABLE"
    BY <1>4, HartFields, Zenon DEF RunOldest, ScanSound, HoldsOldest
  <2> QED
    BY <1>1, <1>2, <1>4, <2>1, Zenon DEF RunOldest, Run
<1>5. ASSUME NEW h \in Cpus, ScanRR(h) PROVE Bounded'
  BY <1>1, <1>2, <1>5, Zenon DEF ScanRR, Run
<1>6. ASSUME NEW h \in Cpus, NEW s, Leave(h, s) PROVE Bounded'
  <2>1. hart[h].run \in Slots /\ state[hart[h].run] = "RUNNING"
    BY <1>6, HartFields, Zenon DEF Leave, ScanSound, RunsOne
  <2> QED
    BY <1>1, <1>2, <1>6, <2>1 DEF Leave
<1>7. ASSUME NEW h \in Cpus, allocproc(h) PROVE Bounded'
  <2>1. PICK q \in Slots : Taken(q) /\ charged' = [charged EXCEPT ![q] = 0]
    BY <1>7, Zenon DEF allocproc
  <2>2. CASE p = q
    <3>1. charged'[p] = 0 /\ creation_time'[p] = ticks /\ ticks' = ticks /\ visit' = visit
      BY <2>1, <2>2, Zenon DEF Taken, SchedType
    <3>2. p \in late' <=> visit \in 1 .. p
      BY <2>1, <2>2, Zenon DEF Taken
    <3> QED
      BY <1>0, <3>1, <3>2 DEF ToCome
  <2>3. CASE p # q
    <3>1. /\ state[p] # "UNUSED" /\ charged'[p] = charged[p] /\ creation_time'[p] = creation_time[p]
          /\ ticks' = ticks /\ visit' = visit
      BY <2>1, <2>3, Zenon DEF Taken, SchedType
    <3>2. p \in late' <=> p \in late
      BY <2>1, <2>3, Zenon DEF Taken
    <3> QED
      BY <1>0, <3>1, <3>2 DEF ToCome, TimesSound
  <2> QED
    BY <2>2, <2>3
<1>8. ASSUME NEW q \in Slots, Forked(q) \/ wakeup(q) PROVE Bounded'
  BY <1>1, <1>2, <1>8, Zenon DEF Forked, wakeup, Becomes
<1>9. ASSUME NEW q \in Slots, freeproc(q) PROVE Bounded'
  BY <1>1, <1>2, <1>9, Zenon DEF freeproc, Becomes
<1>10. ASSUME clockintr PROVE Bounded'
  BY <1>0, <1>10 DEF clockintr, TimesSound, ToCome
<1>11. ASSUME update_time PROVE Bounded'
  <2>1. charged'[p] \in Int /\ charged'[p] <= charged[p] + (IF p = visit THEN 1 ELSE 0)
    BY <1>0, <1>11 DEF update_time, SchedType
  <2>2. /\ state[p] # "UNUSED" /\ ticks' = ticks /\ creation_time' = creation_time /\ late' = late
        /\ visit \in 1 .. NPROC /\ visit' = visit + 1
    BY <1>11, Zenon DEF update_time, Slots
  <2>3. charged[p] + ToCome(p) <= ticks - creation_time[p] + (IF p \in late THEN 1 ELSE 0)
    BY <2>2, Zenon DEF TimesSound
  <2>4. CASE p = visit
    BY <1>0, <2>1, <2>2, <2>3, <2>4, SchedAssumption DEF ToCome
  <2>5. CASE p # visit
    BY <1>0, <2>1, <2>2, <2>3, <2>5, SchedAssumption DEF ToCome
  <2> QED
    BY <2>4, <2>5, Zenon
<1>12. ASSUME ClockReturn PROVE Bounded'
  BY <1>0, <1>12 DEF ClockReturn, TimesSound, ToCome
<1> QED
  BY <1>3, <1>4, <1>5, <1>6, <1>7, <1>8, <1>9, <1>10, <1>11, <1>12, Zenon DEF SchedNext, Sleep, ExitProc, yield

(* The order in which FIFO takes processes.                                 *)
Younger(q, m) ==
  creation_time[q] > creation_time[m] \/ (creation_time[q] = creation_time[m] /\ q >= m)

(* Who has waited since a scan began is RUNNABLE.                           *)
LEMMA WaitedStep == SchedType /\ ScanSound /\ SchedNext => \A h \in Cpus : (waited[h] \subseteq Runnable)'
<1> SUFFICES ASSUME SchedType, ScanSound, SchedNext, NEW h \in Cpus, NEW p \in waited'[h]
             PROVE  p \in Slots /\ state'[p] = "RUNNABLE"
  BY Zenon DEF Runnable
<1>0. waited \in [Cpus -> SUBSET Slots] /\ \A g \in Cpus : \A q \in waited[g] : q \in Slots /\ state[q] = "RUNNABLE"
  BY Zenon DEF SchedType, ScanSound, Runnable
<1>1. ASSUME waited' = waited, state' = state PROVE p \in Slots /\ state'[p] = "RUNNABLE"
  BY <1>0, <1>1
<1>2. ASSUME NEW g \in Cpus, NEW q \in Slots, Run(g, q) PROVE p \in Slots /\ state'[p] = "RUNNABLE"
  BY <1>0, <1>2, Zenon DEF Run, StillWaiting, SchedType, Runnable
<1>3. ASSUME NEW q \in Slots, state[q] # "RUNNABLE", \E s : state' = [state EXCEPT ![q] = s], waited' = waited
      PROVE p \in Slots /\ state'[p] = "RUNNABLE"
  BY <1>0, <1>3, Zenon DEF SchedType
<1>4. ASSUME NEW g \in Cpus, NEW s, Leave(g, s) PROVE p \in Slots /\ state'[p] = "RUNNABLE"
  <2>1. hart[g].run \in Slots /\ state[hart[g].run] = "RUNNING"
    BY <1>4, HartFields, Zenon DEF Leave, ScanSound, RunsOne
  <2>2. CASE waited' = waited
    BY <1>3, <1>4, <2>1, <2>2, Zenon DEF Leave
  <2>3. CASE p \in (IF s = "RUNNABLE" THEN Runnable \cup {hart[g].run} ELSE Runnable)
    BY <1>4, <2>1, <2>3, Zenon DEF Leave, Runnable, SchedType
  <2>4. CASE p \in waited[h]
    BY <1>0, <1>4, <2>1, <2>4 DEF Leave, SchedType
  <2> QED
    BY <1>0, <1>4, <2>2, <2>3, <2>4, Zenon DEF Leave
<1>5. ASSUME NEW g \in Cpus, Rescan(g) PROVE p \in Slots /\ state'[p] = "RUNNABLE"
  BY <1>0, <1>5, Zenon DEF Rescan, Runnable
<1>6. ASSUME NEW g \in Cpus, RunOldest(g) PROVE p \in Slots /\ state'[p] = "RUNNABLE"
  BY <1>2, <1>6, HartFields DEF RunOldest
<1>7. ASSUME NEW g \in Cpus, ScanRR(g) PROVE p \in Slots /\ state'[p] = "RUNNABLE"
  BY <1>1, <1>2, <1>7, Zenon DEF ScanRR
<1>8. ASSUME NEW g \in Cpus, ScanFifo(g) PROVE p \in Slots /\ state'[p] = "RUNNABLE"
  BY <1>1, <1>8, Zenon DEF ScanFifo
<1>9. ASSUME NEW g \in Cpus, allocproc(g) PROVE p \in Slots /\ state'[p] = "RUNNABLE"
  BY <1>3, <1>9, Zenon DEF allocproc, Taken
<1>10. ASSUME NEW q \in Slots, Forked(q) \/ wakeup(q) \/ freeproc(q) PROVE p \in Slots /\ state'[p] = "RUNNABLE"
  BY <1>3, <1>10 DEF Forked, wakeup, freeproc, Becomes
<1>11. ASSUME clockintr \/ update_time \/ ClockReturn PROVE p \in Slots /\ state'[p] = "RUNNABLE"
  BY <1>1, <1>11, Zenon DEF clockintr, update_time, ClockReturn
<1> QED
  BY <1>4, <1>5, <1>6, <1>7, <1>8, <1>9, <1>10, <1>11, Zenon DEF SchedNext, Sleep, ExitProc, yield

(* A step of another hart cannot take the candidate, which is locked.       *)
LEMMA HoldsStep == SchedType /\ ScanSound /\ SchedNext => \A h \in Cpus : HoldsOldest(h)'
<1> SUFFICES ASSUME SchedType, ScanSound, SchedNext, NEW h \in Cpus PROVE HoldsOldest(h)'
  BY Zenon
<1> DEFINE m == hart[h].min_p
<1>0. HoldsOldest(h) /\ (m # None => m \in Slots) /\ Unlocked # h
  BY HartFields, SchedAssumption, Zenon DEF ScanSound
<1>1. ASSUME /\ hart'[h].min_p = m /\ hart'[h].i = hart[h].i /\ hart'[h].run = hart[h].run
             /\ m \in Slots => lock'[m] = lock[m] /\ state'[m] = state[m]
      PROVE HoldsOldest(h)'
  BY <1>0, <1>1, Zenon DEF HoldsOldest
<1>2. ASSUME hart'[h].min_p = None PROVE HoldsOldest(h)'
  BY <1>2, Zenon DEF HoldsOldest
<1>3. ASSUME NEW g \in Cpus, ScanFifo(g) PROVE HoldsOldest(h)'
  <2> DEFINE p == hart[g].i
  <2>1. p \in Slots /\ Free(p) /\ hart[g].run = None /\ state' = state
    BY <1>3, FifoMoves, Zenon DEF ScanFifo
  <2>2. CASE g # h
    <3>1. hart'[h] = hart[h]
      BY <1>3, <2>2, FifoMoves, Zenon DEF Moves
    <3>2. ASSUME m \in Slots PROVE lock'[m] = lock[m]
      <4>1. lock[m] = h /\ p # m /\ m # hart[g].min_p
        BY <1>0, <2>1, <2>2, <3>2, SchedAssumption DEF HoldsOldest, ScanSound, Free, None, Slots
      <4> QED
        BY <1>3, <3>2, <4>1, FifoMoves
    <3> QED
      BY <1>1, <2>1, <3>1, <3>2, Zenon
  <2>3. CASE g = h /\ hart'[h].min_p = p /\ lock'[p] = h /\ state[p] = "RUNNABLE"
    <3>1. hart'[h].i = hart[h].i + 1 /\ hart'[h].run = None
      BY <1>3, <2>3, FifoMoves, Zenon DEF Moves
    <3> QED
      BY <2>1, <2>3, <3>1, HartFields DEF HoldsOldest
  <2>4. CASE g = h /\ hart'[h].min_p = m /\ lock' = lock
    <3>1. hart'[h].i = hart[h].i + 1 /\ hart'[h].run = None
      BY <1>3, <2>4, FifoMoves, Zenon DEF Moves
    <3> QED
      BY <1>0, <2>1, <2>4, <3>1, HartFields DEF HoldsOldest
  <2> QED
    BY <1>3, <2>1, <2>2, <2>3, <2>4, FifoMoves, Zenon DEF Moves
<1>4. ASSUME NEW g \in Cpus, NEW q \in Slots, Run(g, q), lock[q] = g \/ Free(q) PROVE HoldsOldest(h)'
  <2>1. CASE g = h
    BY <1>2, <1>4, <2>1, RunMoves, Zenon DEF Moves
  <2>2. CASE g # h
    <3>1. hart'[h] = hart[h]
      BY <1>4, <2>2, RunMoves, Zenon DEF Moves
    <3>2. m \in Slots => m # q
      BY <1>0, <1>4, <2>2, SchedAssumption, SMTT(30) DEF HoldsOldest, Free, None, Slots
    <3> QED
      BY <1>1, <1>4, <3>1, <3>2, Zenon DEF Run, SchedType
  <2> QED
    BY <2>1, <2>2, Zenon
<1>5. ASSUME NEW g \in Cpus, RunOldest(g) PROVE HoldsOldest(h)'
  BY <1>4, <1>5, HartFields, Zenon DEF RunOldest, ScanSound, HoldsOldest
<1>6. ASSUME NEW g \in Cpus, ScanRR(g) PROVE HoldsOldest(h)'
  <2>1. CASE state[hart[g].i] = "RUNNABLE"
    BY <1>4, <1>6, <2>1, Zenon DEF ScanRR
  <2>2. CASE state[hart[g].i] # "RUNNABLE"
    <3>1. /\ hart'[h].min_p = m /\ hart'[h].i >= hart[h].i /\ hart'[h].run = hart[h].run
      BY <1>6, <2>2, RRMoves, HartFields DEF Moves, ScanRR, Scans
    <3>2. hart'[h].i \in Int /\ hart[h].i \in Int /\ m \in Int
      BY <1>6, <2>2, RRMoves, HartFields DEF Moves, HartRec
    <3> QED
      BY <1>0, <1>6, <2>2, <3>1, <3>2 DEF ScanRR, HoldsOldest
  <2> QED
    BY <2>1, <2>2, Zenon
<1>7. ASSUME NEW g \in Cpus, Rescan(g) PROVE HoldsOldest(h)'
  BY <1>1, <1>2, <1>7, RescanMoves, Zenon DEF Moves, Rescan
<1>8. ASSUME NEW q \in Slots, Free(q), \E s : state' = [state EXCEPT ![q] = s], lock' = lock,
             hart'[h].min_p = m /\ hart'[h].i = hart[h].i /\ hart'[h].run = hart[h].run
      PROVE  HoldsOldest(h)'
  <2>1. m \in Slots => m # q
    <3>1. m \in Slots => m # None
      BY SMTT(60) DEF None, Slots
    <3> QED
      BY <1>0, <1>8, <3>1, Zenon DEF HoldsOldest, Free
  <2> QED
    BY <1>1, <1>8, <2>1, Zenon DEF SchedType
<1>9. ASSUME NEW g \in Cpus, NEW s, Leave(g, s) PROVE HoldsOldest(h)'
  <2>1. hart[g].run \in Slots /\ Free(hart[g].run) /\ hart[g].run # None
    BY <1>9, LeaveMoves, Zenon DEF Leave
  <2>2. CASE g = h
    BY <1>0, <1>2, <1>9, <2>1, <2>2, LeaveMoves, Zenon DEF Moves, HoldsOldest
  <2>3. CASE g # h
    BY <1>8, <1>9, <2>1, <2>3, LeaveMoves, Zenon DEF Moves, Leave
  <2> QED
    BY <2>2, <2>3, Zenon
<1>10. ASSUME NEW g \in Cpus, allocproc(g) PROVE HoldsOldest(h)'
  BY <1>8, <1>10, Zenon DEF allocproc, Taken
<1>11. ASSUME NEW q \in Slots, Forked(q) \/ wakeup(q) \/ freeproc(q) PROVE HoldsOldest(h)'
  BY <1>8, <1>11, Zenon DEF Forked, wakeup, freeproc, Becomes
<1>12. ASSUME clockintr \/ update_time PROVE HoldsOldest(h)'
  BY <1>1, <1>12, Zenon DEF clockintr, update_time
<1>13. ASSUME ClockReturn PROVE HoldsOldest(h)'
  BY <1>1, <1>13, ClockMoves, Zenon DEF ClockReturn, Moves
<1> QED
  BY <1>3, <1>5, <1>6, <1>7, <1>9, <1>10, <1>11, <1>12, <1>13, Zenon DEF SchedNext, Sleep, ExitProc, yield

(* A slot the scan has passed was no older than the candidate then, and     *)
(* no slot grows older while it is RUNNABLE.                                *)
LEMMA OldestStep == SchedType /\ ScanSound /\ SchedNext => \A h \in Cpus : OldestSoFar(h)'
<1> SUFFICES ASSUME SchedType, ScanSound, SchedNext, NEW h \in Cpus PROVE OldestSoFar(h)'
  OBVIOUS
<1> DEFINE m == hart[h].min_p
<1>0. /\ OldestSoFar(h) /\ HoldsOldest(h) /\ (m # None => m \in Slots)
      /\ waited[h] \subseteq Slots /\ \A q \in waited[h] : state[q] = "RUNNABLE"
  BY HartFields, Zenon DEF ScanSound, SchedType, Runnable
<1>1. ASSUME /\ hart'[h].min_p = m /\ hart'[h].i = hart[h].i /\ hart'[h].run = hart[h].run
             /\ policy' = policy /\ waited'[h] \subseteq waited[h]
             /\ \A q \in Slots : state[q] = "RUNNABLE" => creation_time'[q] = creation_time[q]
      PROVE OldestSoFar(h)'
  BY <1>0, <1>1, Zenon DEF OldestSoFar, HoldsOldest
<1>2. ASSUME policy' # "FIFO" \/ hart'[h].run # None \/ hart'[h].i = 1 PROVE OldestSoFar(h)'
  <2>1. SchedType'
    BY SchedTypeStep, Zenon
  <2>2. \A q \in waited'[h] : q \in Int /\ q >= 1
    BY <2>1, SchedAssumption DEF SchedType, Slots
  <2> QED
    BY <1>2, <2>2 DEF OldestSoFar
<1>3. policy' = policy
  BY Zenon DEF SchedNext
<1>4. ASSUME NEW g \in Cpus, ScanFifo(g) PROVE OldestSoFar(h)'
  <2>1. waited' = waited /\ creation_time' = creation_time
    BY <1>4, Zenon DEF ScanFifo
  <2>2. CASE g # h
    <3>1. hart'[h] = hart[h]
      BY <1>4, <2>2, FifoMoves DEF Moves
    <3> QED
      BY <1>1, <1>3, <2>1, <3>1, Zenon
  <2>3. CASE g = h
    <3> DEFINE p == hart[h].i
    <3>0. p # None
      BY <1>4, <2>3, SchedAssumption DEF ScanFifo, Slots, None
    <3>1. /\ p \in Slots /\ hart'[h].i = p + 1 /\ hart[h].run = None /\ policy = "FIFO"
          /\ \/ /\ state[p] = "RUNNABLE" /\ Older(p, m) /\ hart'[h].min_p = p
             \/ /\ ~(state[p] = "RUNNABLE" /\ Older(p, m)) /\ hart'[h].min_p = m
      <4> HIDE DEF p
      <4> QED
        BY <1>4, <2>3, FifoMoves, Zenon DEF Moves, p
    <3>2. /\ p \in Int /\ m \in Int /\ \A q \in waited[h] : q \in Int
          /\ \A q \in Slots : creation_time[q] \in Int
      <4>1. \A q \in Slots : q \in Int
        BY DEF Slots
      <4>2. m \in Slots \/ m = None
        BY <1>0, Zenon
      <4>3. None \in Int
        BY DEF None
      <4>4. \A q \in Slots : creation_time[q] \in Int
        BY DEF SchedType
      <4> QED
        BY <1>0, <3>1, <4>1, <4>2, <4>3, <4>4, Zenon
    <3>3. ASSUME NEW q \in waited[h], q < p + 1
          PROVE LET n == hart'[h].min_p IN n # None /\ Younger(q, n)
      <4>0. q = p \/ q < p
        BY <3>2, <3>3, BelowNext, Zenon
      <4>1. q \in Slots /\ state[q] = "RUNNABLE" /\ (q = p \/ q < p)
        BY <1>0, <3>3, <4>0, Zenon
      <4>2. q < p => m # None /\ Younger(q, m)
        BY <1>0, <3>1, <3>3, Zenon DEF OldestSoFar, Younger
      <4>3. m # None => m \in Slots /\ m < p
        BY <1>0, Zenon DEF HoldsOldest
      <4>4. creation_time[q] \in Int /\ (m # None => creation_time[m] \in Int) /\ q \in Int
        BY <3>2, <3>3, <4>1, <4>3, Zenon
      <4>5. CASE state[p] = "RUNNABLE" /\ Older(p, m) /\ hart'[h].min_p = p
        <5>1. CASE q = p
          BY <3>0, <4>4, <4>5, <5>1, OrderFacts, Zenon DEF Younger
        <5>2. CASE q < p
          <6>1. m # None /\ Younger(q, m) /\ creation_time[p] < creation_time[m]
            BY <4>2, <4>5, <5>2, Zenon DEF Older
          <6>2. creation_time[p] \in Int
            BY <3>1, <3>2, Zenon
          <6>3. creation_time[q] > creation_time[p]
            BY <4>4, <6>1, <6>2, OrderFacts, Zenon DEF Younger
          <6> QED
            BY <3>0, <4>5, <6>3, Zenon DEF Younger
        <5> QED
          BY <4>1, <5>1, <5>2, Zenon
      <4>6. CASE ~(state[p] = "RUNNABLE" /\ Older(p, m)) /\ hart'[h].min_p = m
        <5>1. CASE q = p
          <6>1. m # None /\ ~(creation_time[q] < creation_time[m]) /\ m < q
            BY <4>1, <4>3, <4>6, <5>1, Zenon DEF Older
          <6>2. Younger(q, m)
            BY <3>2, <4>4, <6>1, OrderFacts, Zenon DEF Younger
          <6> QED
            BY <4>6, <6>1, <6>2, Zenon
        <5>2. CASE q < p
          BY <4>2, <4>6, <5>2, Zenon
        <5> QED
          BY <4>1, <5>1, <5>2, Zenon
      <4> QED
        BY <3>1, <4>5, <4>6, Zenon
    <3> QED
      BY <2>1, <3>1, <3>3, Zenon DEF OldestSoFar, Younger
  <2> QED
    BY <2>2, <2>3
<1>5. ASSUME NEW g \in Cpus, NEW q \in Slots, Run(g, q), creation_time' = creation_time PROVE OldestSoFar(h)'
  <2>1. CASE g = h
    BY <1>2, <1>5, <2>1, RunMoves, SchedAssumption DEF Moves, Slots, None
  <2>2. CASE g # h
    <3>1. hart'[h] = hart[h] /\ waited'[h] \subseteq waited[h]
      BY <1>5, <2>2, RunMoves, Zenon DEF Moves, Run, StillWaiting
    <3> QED
      BY <1>1, <1>3, <1>5, <3>1, Zenon
  <2> QED
    BY <2>1, <2>2
<1>6. ASSUME NEW g \in Cpus, RunOldest(g) PROVE OldestSoFar(h)'
  BY <1>5, <1>6, HartFields DEF RunOldest
<1>7. ASSUME NEW g \in Cpus, ScanRR(g) PROVE OldestSoFar(h)'
  BY <1>2, <1>3, <1>7, Zenon DEF ScanRR
<1>8. ASSUME NEW g \in Cpus, Rescan(g) PROVE OldestSoFar(h)'
  <2>1. CASE g = h
    BY <1>2, <1>8, <2>1, RescanMoves, Zenon DEF Moves
  <2>2. CASE g # h
    <3>1. hart'[h] = hart[h] /\ waited'[h] = waited[h]
      BY <1>8, <2>2, RescanMoves, Zenon DEF Moves, Rescan, SchedType
    <3> QED
      BY <1>1, <1>3, <1>8, <3>1, Zenon DEF Rescan
  <2> QED
    BY <2>1, <2>2
<1>9. ASSUME NEW g \in Cpus, NEW s, Leave(g, s) PROVE OldestSoFar(h)'
  <2>1. CASE g = h
    BY <1>2, <1>3, <1>9, <2>1, LeaveMoves, Zenon DEF Moves
  <2>2. CASE g # h
    <3>1. hart'[h] = hart[h] /\ waited'[h] = waited[h]
      BY <1>9, <2>2, LeaveMoves DEF Moves, Leave, SchedType
    <3> QED
      BY <1>1, <1>3, <1>9, <3>1, Zenon DEF Leave
  <2> QED
    BY <2>1, <2>2
<1>10. ASSUME NEW g \in Cpus, allocproc(g) PROVE OldestSoFar(h)'
  <2>1. \A q \in Slots : state[q] = "RUNNABLE" => creation_time'[q] = creation_time[q]
    BY <1>10, Zenon DEF allocproc, Taken, SchedType
  <2> QED
    BY <1>1, <1>3, <1>10, <2>1, Zenon DEF allocproc, Taken
<1>11. ASSUME NEW q \in Slots, Forked(q) \/ wakeup(q) \/ freeproc(q) PROVE OldestSoFar(h)'
  BY <1>1, <1>3, <1>11, Zenon DEF Forked, wakeup, freeproc, Becomes
<1>12. ASSUME clockintr \/ update_time PROVE OldestSoFar(h)'
  BY <1>1, <1>3, <1>12, Zenon DEF clockintr, update_time
<1>13. ASSUME ClockReturn PROVE OldestSoFar(h)'
  BY <1>1, <1>3, <1>13, ClockMoves, Zenon DEF ClockReturn, Moves
<1> QED
  BY <1>4, <1>6, <1>7, <1>8, <1>9, <1>10, <1>11, <1>12, <1>13, ZenonT(30)
     DEF SchedNext, Sleep, ExitProc, yield

(* The inductive invariant of Sched.                                        *)
SchedInv == SchedType /\ ScanSound /\ TimesSound

(* Every step keeps it.                                                     *)
LEMMA SchedKept == SchedInv /\ [SchedNext]_SchedVars => SchedInv'
<1>1. SchedInv /\ SchedNext => SchedInv'
  BY SchedTypeStep, RunsOneStep, WaitedStep, HoldsStep, OldestStep, TimesStep, Zenon DEF SchedInv, ScanSound
<1>2. SchedInv /\ UNCHANGED SchedVars => SchedInv'
  <2> SUFFICES ASSUME SchedInv, UNCHANGED SchedVars PROVE SchedInv'
    BY Zenon
  <2>1. UNCHANGED <<policy, state, creation_time, charged, lock, hart, ticks, visit, waited, late>>
    BY Zenon DEF SchedVars
  <2>2. SchedType'
    BY <2>1, Zenon DEF SchedInv, SchedType
  <2>3. RunsOne'
    BY <2>1, Zenon DEF SchedInv, ScanSound, RunsOne
  <2>4. ASSUME NEW h \in Cpus PROVE (waited[h] \subseteq Runnable /\ HoldsOldest(h) /\ OldestSoFar(h))'
    <3>1. waited[h] \subseteq Runnable /\ HoldsOldest(h) /\ OldestSoFar(h)
      BY Zenon DEF SchedInv, ScanSound
    <3>2. (waited[h] \subseteq Runnable)'
      BY <2>1, <3>1, Zenon DEF Runnable
    <3>3. HoldsOldest(h)'
      BY <2>1, <3>1, Zenon DEF HoldsOldest
    <3>4. OldestSoFar(h)'
      BY <2>1, <3>1, Zenon DEF OldestSoFar
    <3> QED
      BY <3>2, <3>3, <3>4, Zenon
  <2>5. TimesSound'
    BY <2>1, Zenon DEF SchedInv, TimesSound, ToCome
  <2> QED
    BY <2>2, <2>3, <2>4, <2>5, Zenon DEF SchedInv, ScanSound
<1> QED
  BY <1>1, <1>2, Zenon

(* It implies both properties.                                              *)
LEMMA SchedMeans == SchedInv => OldestFirst /\ WaitingBounded
<1> SUFFICES ASSUME SchedInv PROVE OldestFirst /\ WaitingBounded
  BY Zenon
<1>1. OldestFirst
  <2> SUFFICES ASSUME NEW h \in Cpus, policy = "FIFO", hart[h].i > NPROC, hart[h].run = None,
                      NEW q \in waited[h]
               PROVE  hart[h].min_p # None /\ Younger(q, hart[h].min_p)
    BY DEF OldestFirst, Younger
  <2>1. q \in 1 .. NPROC /\ hart[h].i \in Int
    BY HartFields DEF SchedInv, SchedType, Slots
  <2>2. q < hart[h].i
    BY <2>1, SchedAssumption
  <2>3. OldestSoFar(h)
    BY Zenon DEF SchedInv, ScanSound
  <2> QED
    BY <2>2, <2>3, Zenon DEF OldestSoFar, Younger
<1>2. WaitingBounded
  <2> SUFFICES ASSUME NEW p \in Slots, state[p] # "UNUSED"
               PROVE  charged[p] <= ticks - creation_time[p] + (IF p \in late THEN 1 ELSE 0)
    BY DEF WaitingBounded
  <2> QED
    BY DEF SchedInv, TimesSound, ToCome, SchedType
<1> QED
  BY <1>1, <1>2, Zenon

(* The invariant holds throughout.                                          *)
LEMMA SchedInvariant == SchedSpec => []SchedInv
<1>1. SchedInit => SchedInv
  BY SchedStarts DEF SchedInv
<1> QED
  BY <1>1, SchedKept, PTL DEF SchedSpec

(* The FIFO scheduler passes over no older process that has been RUNNABLE   *)
(* since its scan began, whatever the other harts do meanwhile: for any     *)
(* number of slots, harts and ticks.                                        *)
THEOREM SchedulerFair == SchedSpec => []OldestFirst
BY SchedInvariant, SchedMeans, PTL

(* The waiting time kexit() prints is not negative but for a process        *)
(* created in the middle of a clock interrupt, which may be charged one     *)
(* tick of before its life: for any number of slots, harts and ticks, under *)
(* both builds.                                                             *)
THEOREM WaitingStaysBounded == SchedSpec => []WaitingBounded
BY SchedInvariant, SchedMeans, PTL

-----------------------------------------------------------------------------
(* The transmitter.                                                        *)

(* The places of the bytes in the FIFO.                                     *)
Outstanding == 1 .. Len(fifo)

(* No two bytes in the FIFO are of the same hart, or of two processes; a    *)
(* hart about to write has none there.                                      *)
BytesApart ==
  /\ \A i, j \in Outstanding : fifo[i] = fifo[j] => i = j
  /\ \A i, j \in Outstanding : fifo[i] \in Writers /\ fifo[j] \in Writers => i = j
  /\ \A q \in Putters : spc[q] = "put" => \A i \in Outstanding : fifo[i] # q

(* The inductive invariant of Uart.                                         *)
UartInv == UartTypeOK /\ BytesApart /\ BusyUntilSent /\ CompletionComes

(* It holds at the start.                                                   *)
LEMMA UartStarts == UartInit => UartInv
  BY UartAssumption DEF UartInit, UartInv, UartTypeOK, BytesApart, BusyUntilSent, CompletionComes, Outstanding, Nobody

(* Steps keep the types.                                                    *)
LEMMA UartTypeStep == UartTypeOK /\ UartNext => UartTypeOK'
<1> SUFFICES ASSUME UartTypeOK, UartNext PROVE UartTypeOK'
  OBVIOUS
<1>1. ASSUME NEW p \in Writers, NEW k \in 1 .. MaxN, Call(p, k) PROVE UartTypeOK'
  BY <1>1, UartAssumption DEF Call, UartTypeOK
<1>2. ASSUME NEW p \in Writers, Acquire(p) \/ WriteSleep(p) \/ WriteEnd(p) PROVE UartTypeOK'
  BY <1>2, Zenon DEF Acquire, WriteSleep, WriteEnd, UartTypeOK
<1>3. ASSUME NEW p \in Writers, WriteByte(p) PROVE UartTypeOK'
  <2>1. left' \in [Writers -> 0 .. MaxN]
    BY <1>3, UartAssumption DEF WriteByte, UartTypeOK
  <2>2. fifo' \in Seq(Writers \cup Putters)
    BY <1>3 DEF WriteByte, UartTypeOK
  <2> QED
    BY <1>3, <2>1, <2>2 DEF WriteByte, UartTypeOK
<1>4. ASSUME NEW q \in Putters, PutCall(q) \/ PutPoll(q) PROVE UartTypeOK'
  BY <1>4, Zenon DEF PutCall, PutPoll, UartTypeOK
<1>5. ASSUME NEW q \in Putters, PutByte(q) PROVE UartTypeOK'
  BY <1>5 DEF PutByte, UartTypeOK
<1>6. ASSUME Send PROVE UartTypeOK'
  BY <1>6 DEF Send, UartTypeOK
<1>7. ASSUME IntrAck PROVE UartTypeOK'
  BY <1>7 DEF IntrAck, UartTypeOK
<1>8. ASSUME IntrTx PROVE UartTypeOK'
  BY <1>8 DEF IntrTx, UartTypeOK, Woken
<1> QED
  BY <1>1, <1>2, <1>3, <1>4, <1>5, <1>6, <1>7, <1>8 DEF UartNext, Write, Sync

(* What Append does to the FIFO.                                            *)
LEMMA Appended ==
  ASSUME UartTypeOK, NEW x \in Writers \cup Putters, fifo' = Append(fifo, x)
  PROVE  /\ Len(fifo) \in Nat /\ Len(fifo') = Len(fifo) + 1
         /\ fifo'[Len(fifo) + 1] = x /\ \A i \in Outstanding : fifo'[i] = fifo[i]
         /\ fifo' # <<>>
  BY DEF UartTypeOK, Outstanding

(* tx_busy keeps the processes from a second byte, and LSR_TX_IDLE the      *)
(* harts.                                                                   *)
LEMMA BytesStep == UartInv /\ UartNext => BytesApart' /\ BusyUntilSent'
<1> SUFFICES ASSUME UartInv, UartNext PROVE BytesApart' /\ BusyUntilSent'
  OBVIOUS
<1>0. UartTypeOK /\ BytesApart /\ BusyUntilSent /\ Len(fifo) \in Nat /\ \A i \in Outstanding : fifo[i] \in Writers \cup Putters
  BY DEF UartInv, UartTypeOK, Outstanding
<1>1. ASSUME UNCHANGED <<fifo, spc>>, tx_busy' = tx_busy PROVE BytesApart' /\ BusyUntilSent'
  BY <1>0, <1>1 DEF BytesApart, BusyUntilSent, Outstanding
<1>2. ASSUME NEW p \in Writers, (\E k \in 1 .. MaxN : Call(p, k)) \/ Acquire(p) \/ WriteSleep(p) \/ WriteEnd(p)
      PROVE BytesApart' /\ BusyUntilSent'
  BY <1>1, <1>2 DEF Call, Acquire, WriteSleep, WriteEnd
<1>3. ASSUME NEW p \in Writers, WriteByte(p) PROVE BytesApart' /\ BusyUntilSent'
  <2>1. fifo' = Append(fifo, p) /\ tx_busy = 0 /\ tx_busy' = 1 /\ spc' = spc
    BY <1>3 DEF WriteByte
  <2>2. /\ Len(fifo') = Len(fifo) + 1 /\ fifo'[Len(fifo) + 1] = p
        /\ \A i \in Outstanding : fifo'[i] = fifo[i]
    BY <1>0, <2>1, Appended, Zenon
  <2>3. \A i \in Outstanding : fifo[i] \in Putters /\ fifo[i] \notin Writers
    BY <1>0, <2>1, UartAssumption DEF BusyUntilSent, Outstanding
  <2>4. \A i \in 1 .. Len(fifo') : i \in Outstanding \/ i = Len(fifo) + 1
    BY <1>0, <2>2 DEF Outstanding
  <2>5. p \notin Putters
    BY UartAssumption
  <2> QED
    BY <1>0, <2>1, <2>2, <2>3, <2>4, <2>5 DEF BytesApart, BusyUntilSent, Outstanding
<1>4. ASSUME NEW q \in Putters, PutCall(q) PROVE BytesApart' /\ BusyUntilSent'
  BY <1>0, <1>4 DEF PutCall, UartTypeOK, BytesApart, BusyUntilSent, Outstanding
<1>5. ASSUME NEW q \in Putters, PutPoll(q) PROVE BytesApart' /\ BusyUntilSent'
  <2>1. fifo' = fifo /\ tx_busy' = tx_busy /\ Len(fifo) = 0
    BY <1>5 DEF PutPoll, SeesIdle
  <2>2. 1 .. Len(fifo') = {}
    BY <2>1
  <2> QED
    BY <2>2 DEF BytesApart, BusyUntilSent, Outstanding
<1>6. ASSUME NEW q \in Putters, PutByte(q) PROVE BytesApart' /\ BusyUntilSent'
  <2>1. fifo' = Append(fifo, q) /\ tx_busy' = tx_busy /\ \A x \in Putters : spc'[x] = "put" => spc[x] = "put" /\ x # q
    BY <1>0, <1>6 DEF PutByte, UartTypeOK
  <2>2. /\ Len(fifo') = Len(fifo) + 1 /\ fifo'[Len(fifo) + 1] = q
        /\ \A i \in Outstanding : fifo'[i] = fifo[i]
    BY <1>0, <2>1, Appended, Zenon
  <2>3. \A i \in Outstanding : fifo[i] # q
    BY <1>0, <1>6 DEF BytesApart, PutByte
  <2>4. \A i \in 1 .. Len(fifo') : i \in Outstanding \/ i = Len(fifo) + 1
    BY <1>0, <2>2 DEF Outstanding
  <2>5. q \notin Writers
    BY UartAssumption
  <2> QED
    BY <1>0, <2>1, <2>2, <2>3, <2>4, <2>5 DEF BytesApart, BusyUntilSent, Outstanding
<1>7. ASSUME Send PROVE BytesApart' /\ BusyUntilSent'
  <2>1. /\ fifo' = Tail(fifo) /\ fifo # <<>> /\ tx_busy' = tx_busy /\ spc' = spc
    BY <1>7 DEF Send
  <2>2. Len(fifo') = Len(fifo) - 1 /\ \A i \in 1 .. Len(fifo') : fifo'[i] = fifo[i + 1] /\ i + 1 \in Outstanding
    BY <1>0, <2>1 DEF UartTypeOK, Outstanding
  <2> QED
    BY <1>0, <2>1, <2>2 DEF BytesApart, BusyUntilSent, Outstanding
<1>8. ASSUME IntrAck PROVE BytesApart' /\ BusyUntilSent'
  BY <1>1, <1>8 DEF IntrAck
<1>9. ASSUME IntrTx PROVE BytesApart' /\ BusyUntilSent'
  <2>1. CASE SeesIdle
    <3>1. 1 .. Len(fifo') = {}
      BY <1>9, <2>1 DEF SeesIdle, IntrTx
    <3> QED
      BY <3>1 DEF BytesApart, BusyUntilSent, Outstanding
  <2>2. CASE ~SeesIdle
    BY <1>1, <1>9, <2>2 DEF IntrTx
  <2> QED
    BY <2>1, <2>2
<1> QED
  BY <1>2, <1>3, <1>4, <1>5, <1>6, <1>7, <1>8, <1>9 DEF UartNext, Write, Sync

(* Steps keep the interrupt that a writer sleeps for.                       *)
LEMMA CompletionStep == UartInv /\ UartNext => CompletionComes'
<1> SUFFICES ASSUME UartInv, UartNext PROVE CompletionComes'
  OBVIOUS
<1> USE DEF CompletionComes
<1>0. UartTypeOK /\ CompletionComes
  BY DEF UartInv
<1>1. ASSUME NEW p \in Writers, (\E k \in 1 .. MaxN : Call(p, k)) \/ Acquire(p) \/ WriteEnd(p)
      PROVE CompletionComes'
  BY <1>0, <1>1, Zenon DEF Call, Acquire, WriteEnd, UartTypeOK
<1>2. ASSUME NEW p \in Writers, WriteSleep(p) PROVE CompletionComes'
  BY <1>0, <1>2 DEF WriteSleep, UartTypeOK
<1>3. ASSUME NEW p \in Writers, WriteByte(p) PROVE CompletionComes'
  <2>1. fifo' # <<>>
    BY <1>0, <1>3, Appended DEF WriteByte
  <2> QED
    BY <1>0, <1>3, <2>1 DEF WriteByte
<1>4. ASSUME NEW q \in Putters, PutCall(q) \/ PutPoll(q) PROVE CompletionComes'
  BY <1>0, <1>4 DEF PutCall, PutPoll
<1>5. ASSUME NEW q \in Putters, PutByte(q) PROVE CompletionComes'
  <2>1. fifo' # <<>>
    BY <1>0, <1>5, Appended DEF PutByte
  <2> QED
    BY <1>0, <1>5, <2>1 DEF PutByte
<1>6. ASSUME Send PROVE CompletionComes'
  BY <1>0, <1>6 DEF Send
<1>7. ASSUME IntrAck PROVE CompletionComes'
  BY <1>0, <1>7 DEF IntrAck
<1>8. ASSUME IntrTx PROVE CompletionComes'
  BY <1>0, <1>8 DEF IntrTx, SeesIdle, Woken, UartTypeOK
<1> QED
  BY <1>1, <1>2, <1>3, <1>4, <1>5, <1>6, <1>7, <1>8 DEF UartNext, Write, Sync

(* Every step keeps the invariant.                                          *)
LEMMA UartKept == UartInv /\ [UartNext]_UartVars => UartInv'
<1>1. UartInv /\ UartNext => UartInv'
  BY UartTypeStep, BytesStep, CompletionStep DEF UartInv
<1>2. UartInv /\ UNCHANGED UartVars => UartInv'
  BY Zenon DEF UartInv, UartVars, UartTypeOK, BytesApart, BusyUntilSent, CompletionComes, Outstanding
<1> QED
  BY <1>1, <1>2

INSTANCE FiniteSetTheorems

(* At most one byte of a process and one of each hart fit in the FIFO:      *)
(* more bytes than that would be two of one hart.                           *)
LEMMA FifoFits == UartInv => NoOverrun
<1> SUFFICES ASSUME UartInv, Len(fifo) > FifoSize PROVE FALSE
  BY UartAssumption DEF NoOverrun, UartInv, UartTypeOK
<1>0. /\ Len(fifo) \in Nat /\ BytesApart /\ \A i \in Outstanding : fifo[i] \in Writers \cup Putters
      /\ Cardinality(Putters) \in Nat
  BY UartAssumption, FS_CardinalityType DEF UartInv, UartTypeOK, Outstanding
<1>1. IsFiniteSet(Outstanding) /\ Cardinality(Outstanding) = Len(fifo)
  <2>1. 1 \in Int /\ Len(fifo) \in Int
    BY <1>0
  <2>2. /\ IsFiniteSet(1 .. Len(fifo))
        /\ Cardinality(1 .. Len(fifo)) = IF 1 > Len(fifo) THEN 0 ELSE Len(fifo) - 1 + 1
    BY <2>1, FS_Interval, Zenon
  <2> QED
    BY <1>0, <2>2 DEF Outstanding
<1>2. PICK w : \A i \in Outstanding : fifo[i] \in Putters \cup {w}
  <2>1. CASE \E i \in Outstanding : fifo[i] \in Writers
    <3>1. PICK i \in Outstanding : fifo[i] \in Writers
      BY <2>1, Zenon
    <3>2. \A j \in Outstanding : fifo[j] \in Putters \cup {fifo[i]}
      BY <1>0, <3>1, Zenon DEF BytesApart
    <3> QED
      BY <3>2, Zenon
  <2>2. CASE ~ \E i \in Outstanding : fifo[i] \in Writers
    BY <1>0, <2>2
  <2> QED
    BY <2>1, <2>2, Zenon
<1> DEFINE T == Putters \cup {w}
<1>3. IsFiniteSet(T) /\ Cardinality(T) <= Cardinality(Putters) + 1 /\ Cardinality(T) \in Nat
  <2>1. /\ IsFiniteSet(T)
        /\ Cardinality(T) = IF w \in Putters THEN Cardinality(Putters) ELSE Cardinality(Putters) + 1
    BY FS_AddElement, UartAssumption, Zenon
  <2> QED
    BY <1>0, <2>1
<1>4. Cardinality(T) < Cardinality(Outstanding)
  BY <1>0, <1>1, <1>3, UartAssumption
<1> DEFINE g == [i \in Outstanding |-> fifo[i]]
<1>5. g \in [Outstanding -> T]
  BY <1>2, Zenon
<1>6. \E i, j \in Outstanding : i # j /\ g[i] = g[j]
  <2> HIDE DEF T, g
  <2> QED
    BY <1>1, <1>3, <1>4, <1>5, FS_PigeonHole, Zenon
<1> QED
  BY <1>0, <1>6, Zenon DEF BytesApart

(* No output byte is lost in the FIFO and no writer sleeps without an       *)
(* interrupt to come, for any number of processes and of harts below the    *)
(* size of the FIFO, although uartwrite() does not look at the line         *)
(* status and uartputc_sync() takes no lock.                                *)
THEOREM OutputSound == UartSpec => []OutputFlows
<1>1. UartInv => OutputFlows
  BY FifoFits DEF UartInv, OutputFlows
<1> QED
  BY <1>1, UartStarts, UartKept, PTL DEF UartSpec
=============================================================================
