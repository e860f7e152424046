-------------------------------- MODULE Trap --------------------------------
(***************************************************************************)
(* Traps: trampoline.S, kernelvec.S and trap.c on several harts, with the  *)
(* context switches of sched() and scheduler() that can happen in between. *)
(*                                                                         *)
(* A hart has one set of trap registers (stvec, sepc, and SPP, SPIE and    *)
(* SIE of sstatus) and takes the next trap into the same registers, so     *)
(* every thread has to keep what it needs before it lets go of the hart:   *)
(* in the trapframe for a trap from user mode, in locals of kerneltrap()   *)
(* for one from the kernel.  pc is where a hart executes: a user           *)
(* instruction or a label of the kernel.  at and intena are what swtch()   *)
(* and sched() keep of a process that is not running.                      *)
(***************************************************************************)
EXTENDS Integers

CONSTANTS
  Harts, Proc,
  PCs, After,     \* user instructions, and the one that follows each
  Nil             \* no process: the hart is in scheduler(); a user's tp

VARIABLES
  pc, cur, cause, tp,
  stvec, sepc, spp, spie, sie,
  epc, hartid,    \* p->trapframe
  frame,          \* sepc and sstatus in the locals of kerneltrap(), per thread
  at, intena,
  resume          \* the user instruction a process has to go on with

hartVars == <<pc, cur, cause, tp, stvec, sepc, spp, spie, sie>>
procVars == <<epc, hartid, at, intena, resume>>
vars == <<hartVars, procVars, frame>>

(* Kernel labels.  "forkret" is where a new process starts; "tick" and      *)
(* "ktick" the yield() of usertrap() and kerneltrap(); "done" to "regs"     *)
(* prepare_return(); "kret" the end of kerneltrap(); "sret" that            *)
(* instruction of trampoline.S or kernelvec.S; "idle" scheduler().          *)
Labels == {"uservec", "kernelvec", "usertrap", "syscall", "tick", "done", "vec", "regs",
           "ktick", "kret", "sret", "idle", "forkret", "panic"}
Threads == Harts \cup Proc

ASSUME ThreadsApart ==
  /\ Harts \cap Proc = {} /\ Nil \notin Proc
  /\ PCs \cap Labels = {} /\ After \in [PCs -> PCs]

(* The kernel stack a hart is on: a process's, or scheduler()'s own.        *)
Thread(h) == IF cur[h] = Nil THEN h ELSE cur[h]

Places == [who : Threads, at : PCs \cup Labels]
Frames == [sepc : Places, spp : {"U", "S"}, spie : 0..1]

(* Outside kerneltrap().                                                    *)
NoFrame(t) == [sepc |-> [who |-> t, at |-> "idle"], spp |-> "S", spie |-> 0]

TypeOK ==
  /\ pc \in [Harts -> PCs \cup Labels] /\ cur \in [Harts -> Proc \cup {Nil}]
  /\ cause \in [Harts -> {"ecall", "timer", "device", "fault"}] /\ tp \in [Harts -> Harts \cup {Nil}]
  /\ stvec \in [Harts -> {"uservec", "kernelvec"}] /\ sepc \in [Harts -> Places]
  /\ spp \in [Harts -> {"U", "S"}] /\ spie \in [Harts -> 0..1] /\ sie \in [Harts -> 0..1]
  /\ epc \in [Proc -> PCs] /\ hartid \in [Proc -> Harts]
  /\ frame \in [Threads -> Frames]
  /\ at \in [Proc -> Labels] /\ intena \in [Proc -> 0..1] /\ resume \in [Proc -> PCs]

(* After start() and trapinithart(): every hart in scheduler(), every       *)
(* process made by kfork(), which copies the trapframe of its parent.       *)
Init ==
  /\ pc = [h \in Harts |-> "idle"] /\ cur = [h \in Harts |-> Nil]
  /\ cause = [h \in Harts |-> "timer"] /\ tp = [h \in Harts |-> h]
  /\ stvec = [h \in Harts |-> "kernelvec"]
  /\ sepc = [h \in Harts |-> [who |-> h, at |-> "idle"]]
  /\ spp = [h \in Harts |-> "S"] /\ spie = [h \in Harts |-> 0] /\ sie = [h \in Harts |-> 0]
  /\ resume \in [Proc -> PCs] /\ epc = resume
  /\ hartid \in [Proc -> Harts]
  /\ frame = [t \in Threads |-> NoFrame(t)]
  /\ at = [p \in Proc |-> "forkret"] /\ intena = [p \in Proc |-> 0]

Goto(h, l) == pc' = [pc EXCEPT ![h] = l]

-----------------------------------------------------------------------------
(* The hardware.                                                            *)

(* A trap: the pc, the mode and SIE go to sepc, SPP and SPIE.               *)
TakeTrap(h, c) ==
  /\ cause' = [cause EXCEPT ![h] = c]
  /\ sepc' = [sepc EXCEPT ![h] = [who |-> Thread(h), at |-> pc[h]]]
  /\ spp' = [spp EXCEPT ![h] = IF pc[h] \in PCs THEN "U" ELSE "S"]
  /\ spie' = [spie EXCEPT ![h] = sie[h]]
  /\ sie' = [sie EXCEPT ![h] = 0]
  /\ Goto(h, stvec[h])
  /\ UNCHANGED <<cur, tp, stvec, frame>>

(* In user mode: a system call, an exception, or an interrupt, which SIE    *)
(* does not hold back.  Only an ecall asks to go on after it.               *)
UserTrap(h) ==
  /\ pc[h] \in PCs
  /\ \E c \in {"ecall", "timer", "device", "fault"} :
       /\ TakeTrap(h, c)
       /\ resume' = IF c = "ecall" THEN [resume EXCEPT ![cur[h]] = After[pc[h]]] ELSE resume
  /\ UNCHANGED <<epc, hartid, at, intena>>

(* In the kernel: an interrupt, while SIE is set.                           *)
KernelInterrupt(h) ==
  /\ pc[h] \notin PCs /\ sie[h] = 1
  /\ \E c \in {"timer", "device"} : TakeTrap(h, c)
  /\ UNCHANGED procVars

(* sret, for trampoline.S, which has given the user its tp back (Nil        *)
(* here), and for kernelvec.S.                                              *)
SRet(h) ==
  /\ pc[h] = "sret"
  /\ tp' = IF spp[h] = "U" THEN [tp EXCEPT ![h] = Nil] ELSE tp
  /\ Goto(h, IF (sepc[h].at \in PCs) = (spp[h] = "U") THEN sepc[h].at ELSE "panic")
  /\ sie' = [sie EXCEPT ![h] = spie[h]]
  /\ UNCHANGED <<cur, cause, stvec, sepc, spp, spie, procVars, frame>>

-----------------------------------------------------------------------------
(* Switching.                                                               *)

(* sched() in a process that will go on at l: acquire(&p->lock) has saved   *)
(* SIE in intena; scheduler()'s release() puts it back on this hart.        *)
SwitchOut(h, l) ==
  /\ at' = [at EXCEPT ![cur[h]] = l]
  /\ intena' = [intena EXCEPT ![cur[h]] = sie[h]]
  /\ cur' = [cur EXCEPT ![h] = Nil]
  /\ Goto(h, "idle")
  /\ UNCHANGED <<cause, tp, stvec, sepc, spp, spie, sie, epc, hartid, resume, frame>>

(* scheduler(): intr_on() at the top of the loop.                           *)
IntrOn(h) ==
  /\ pc[h] = "idle" /\ sie[h] = 0
  /\ sie' = [sie EXCEPT ![h] = 1]
  /\ UNCHANGED <<pc, cur, cause, tp, stvec, sepc, spp, spie, procVars, frame>>

(* scheduler(): intr_off(), swtch() to p, which releases p->lock: SIE is as *)
(* it was when p gave up its hart, whichever that was.  swtch() leaves tp.  *)
SwitchIn(h, p) ==
  /\ pc[h] = "idle" /\ \A g \in Harts : cur[g] # p
  /\ cur' = [cur EXCEPT ![h] = p]
  /\ Goto(h, at[p])
  /\ sie' = [sie EXCEPT ![h] = intena[p]]
  /\ UNCHANGED <<cause, tp, stvec, sepc, spp, spie, procVars, frame>>

(* The user program is to go on somewhere else.                             *)
SetEntry(h) ==
  \E u \in PCs : /\ epc' = [epc EXCEPT ![cur[h]] = u]
               /\ resume' = [resume EXCEPT ![cur[h]] = u]

(* kexit(), and later a new process in the same table entry.                *)
kexit(h) ==
  /\ pc[h] \in {"syscall", "tick", "done"}
  /\ at' = [at EXCEPT ![cur[h]] = "forkret"]
  /\ intena' = [intena EXCEPT ![cur[h]] = 0]
  /\ SetEntry(h)
  /\ cur' = [cur EXCEPT ![h] = Nil]
  /\ Goto(h, "idle")
  /\ UNCHANGED <<cause, tp, stvec, sepc, spp, spie, sie, hartid, frame>>

-----------------------------------------------------------------------------
(* trampoline.S and usertrap().                                             *)

(* uservec: the registers go to the trapframe, tp comes from it.            *)
uservec(h) ==
  /\ pc[h] = "uservec" /\ cur[h] # Nil
  /\ tp' = [tp EXCEPT ![h] = hartid[cur[h]]]
  /\ Goto(h, "usertrap")
  /\ UNCHANGED <<cur, cause, stvec, sepc, spp, spie, sie, procVars, frame>>

(* usertrap() up to the call of syscall(), devintr() or vmfault(); a fault  *)
(* vmfault() cannot serve kills the process, at "done".                     *)
usertrap(h) ==
  /\ pc[h] = "usertrap"
  /\ IF spp[h] # "U" THEN Goto(h, "panic") /\ UNCHANGED <<stvec, epc, sie>>
     ELSE /\ stvec' = [stvec EXCEPT ![h] = "kernelvec"]
          /\ epc' = [epc EXCEPT ![cur[h]] =
                       IF cause[h] = "ecall" THEN After[sepc[h].at] ELSE sepc[h].at]
          /\ sie' = [sie EXCEPT ![h] = IF cause[h] = "ecall" THEN 1 ELSE 0]
          /\ Goto(h, CASE cause[h] = "ecall" -> "syscall"
                       [] cause[h] = "timer" -> "tick"
                       [] OTHER -> "done")
  /\ UNCHANGED <<cur, cause, tp, sepc, spp, spie, hartid, frame, at, intena, resume>>

(* syscall(): it may sleep, on the way to its return.                       *)
SyscallSleep(h) == pc[h] = "syscall" /\ SwitchOut(h, "syscall")

Step(h, from, to) ==
  /\ pc[h] = from /\ Goto(h, to)
  /\ UNCHANGED <<cur, cause, tp, stvec, sepc, spp, spie, sie, procVars, frame>>

SyscallReturn(h) == Step(h, "syscall", "done")

(* kexec(): the program goes on at the entry point of another.              *)
kexec(h) ==
  /\ pc[h] = "syscall" /\ SetEntry(h)
  /\ UNCHANGED <<hartVars, hartid, at, intena, frame>>

(* yield() in usertrap(); the slice may have some ticks left.               *)
UserYield(h) ==
  \/ pc[h] = "tick" /\ SwitchOut(h, "done")
  \/ Step(h, "tick", "done")

(* forkret(), whose release() left interrupts off; the first process sleeps *)
(* in fsinit() and kexec() on the way.                                      *)
forkret(h) ==
  \/ pc[h] = "forkret" /\ SwitchOut(h, "forkret")
  \/ Step(h, "forkret", "done")

(* prepare_return(): intr_off(), ...                                        *)
IntrOff(h) ==
  /\ pc[h] = "done"
  /\ sie' = [sie EXCEPT ![h] = 0]
  /\ Goto(h, "vec")
  /\ UNCHANGED <<cur, cause, tp, stvec, sepc, spp, spie, procVars, frame>>

(* ... then stvec, ...                                                      *)
SetVector(h) ==
  /\ pc[h] = "vec"
  /\ stvec' = [stvec EXCEPT ![h] = "uservec"]
  /\ Goto(h, "regs")
  /\ UNCHANGED <<cur, cause, tp, sepc, spp, spie, sie, procVars, frame>>

(* kernel_hartid = r_tp()                                                   *)
NewHartid(h) == [hartid EXCEPT ![cur[h]] = tp[h]]

(* ... and the trapframe, SPP, SPIE and sepc.                               *)
SetRegisters(h) ==
  /\ pc[h] = "regs"
  /\ hartid' = NewHartid(h)
  /\ spp' = [spp EXCEPT ![h] = "U"] /\ spie' = [spie EXCEPT ![h] = 1]
  /\ sepc' = [sepc EXCEPT ![h] = [who |-> cur[h], at |-> epc[cur[h]]]]
  /\ Goto(h, "sret")
  /\ UNCHANGED <<cur, cause, tp, stvec, sie, epc, frame, at, intena, resume>>

-----------------------------------------------------------------------------
(* kernelvec.S and kerneltrap().                                            *)

(* The locals sepc and sstatus, the two panics, and devintr().              *)
kerneltrap(h) ==
  /\ pc[h] = "kernelvec"
  /\ frame' = [frame EXCEPT ![Thread(h)] = [sepc |-> sepc[h], spp |-> spp[h], spie |-> spie[h]]]
  /\ Goto(h, IF spp[h] = "U" \/ sie[h] = 1 THEN "panic"
             ELSE IF cause[h] = "timer" /\ cur[h] # Nil THEN "ktick" ELSE "kret")
  /\ UNCHANGED <<cur, cause, tp, stvec, sepc, spp, spie, sie, procVars>>

KernelYield(h) ==
  \/ pc[h] = "ktick" /\ SwitchOut(h, "kret")
  \/ Step(h, "ktick", "kret")

(* Wrong: sepc is taken to be as the trap left it.                          *)
RestoredNothing(h) == sepc

(* w_sepc(sepc)                                                             *)
Restored(h) == [sepc EXCEPT ![h] = frame[Thread(h)].sepc]

KernelReturn(h) ==
  /\ pc[h] = "kret"
  /\ sepc' = Restored(h)
  /\ spp' = [spp EXCEPT ![h] = frame[Thread(h)].spp]
  /\ spie' = [spie EXCEPT ![h] = frame[Thread(h)].spie]
  /\ frame' = [frame EXCEPT ![Thread(h)] = NoFrame(Thread(h))]
  /\ Goto(h, "sret")
  /\ UNCHANGED <<cur, cause, tp, stvec, sie, procVars>>

-----------------------------------------------------------------------------
Next ==
  \E h \in Harts :
    \/ UserTrap(h) \/ KernelInterrupt(h) \/ SRet(h)
    \/ IntrOn(h) \/ (\E p \in Proc : SwitchIn(h, p)) \/ kexit(h)
    \/ uservec(h) \/ usertrap(h) \/ SyscallSleep(h) \/ SyscallReturn(h) \/ kexec(h)
    \/ UserYield(h) \/ forkret(h) \/ IntrOff(h) \/ SetVector(h) \/ SetRegisters(h)
    \/ kerneltrap(h) \/ KernelYield(h) \/ KernelReturn(h)

Spec == Init /\ [][Next]_vars

(* A process in user mode is at the instruction it has to go on with, on a  *)
(* hart that sends its next trap to uservec and whose number is in its      *)
(* trapframe: no trap, switch or move to another hart on the way through    *)
(* the kernel has touched what prepare_return() installs.                   *)
UserResumes ==
  \A h \in Harts : pc[h] \in PCs =>
    /\ cur[h] # Nil /\ pc[h] = resume[cur[h]]
    /\ stvec[h] = "uservec" /\ sie[h] = 1 /\ hartid[cur[h]] = h

(* Kernel code that was interrupted goes on where it was, on its own stack, *)
(* whatever ran on the hart before and wherever yield() took it; cpuid() is *)
(* right on every hart; interrupts only come while kernelvec gets them, and *)
(* none of the panics of usertrap() and kerneltrap() is reached.            *)
KernelResumes ==
  \A h \in Harts :
    /\ pc[h] = "sret" => sepc[h].who = Thread(h)
    /\ pc[h] = "sret" /\ spp[h] = "S" => sepc[h].at \in {"syscall", "done", "idle"}
    /\ pc[h] \notin PCs \cup {"uservec"} => tp[h] = h
    /\ pc[h] \notin PCs /\ sie[h] = 1 => stvec[h] = "kernelvec"
    /\ pc[h] # "panic"

(* Both together: whatever a hart was doing when a trap took it away, it or *)
(* another hart goes on with it as if there had been no trap.               *)
Resumes == TypeOK /\ UserResumes /\ KernelResumes
=============================================================================
