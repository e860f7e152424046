----------------------------- MODULE JobsProofs -----------------------------
(***************************************************************************)
(* The shell's job table is true, a launched command never leaves the      *)
(* shell waiting in vain, and nobody is forgotten when the shell leaves,   *)
(* for any number of children, stages and stops.                           *)
(*                                                                         *)
(* The invariant adds where each child stands between two steps of the     *)
(* shell: what waitpid() has still to report of it, which of the           *)
(* foreground command's processes have been waited for, and that a child   *)
(* which was forked and is not collected is in the foreground command or   *)
(* in the table.                                                           *)
(***************************************************************************)
EXTENDS Jobs, TLAPS

(* The children forked so far: fork() hands out pids in order.              *)
Started == MaxPid - Cardinality(Fresh)
ForkedInOrder ==
  Started \in 0..MaxPid /\ \A p \in Pid : os[p] = "none" <=> p > Started

(* A change that is not yet reported is the child's last.                   *)
ChangeIsLast ==
  \A p \in Pid :
    /\ ev[p] = "exit" <=> os[p] = "zombie"
    /\ ev[p] = "stop" => os[p] = "stopped"
    /\ ev[p] = "cont" => os[p] = "running"

(* Only forked children are in the table or in the foreground.              *)
OnlyForked ==
  /\ \A j \in DOMAIN jobs : \A k \in DOMAIN jobs[j].pids : os[jobs[j].pids[k]] # "none"
  /\ \A k \in DOMAIN fg : os[fg[k]] # "none"

(* The foreground command: those waited for have exited unless one has      *)
(* stopped, and the others run or have a change to report.                  *)
ForegroundSound ==
  /\ pc \notin {"fgwait", "fgadd"} => fg = <<>>
  /\ pc \in {"fgwait", "fgadd"} => Len(fg) \in 1..MaxStages
  /\ pc = "fgwait" =>
       /\ i \in 1..(Len(fg) + 1)
       /\ \A k, l \in DOMAIN fg : fg[k] = fg[l] => k = l
       /\ \A k \in DOMAIN fg : k >= i => ev[fg[k]] \in {"exit", "stop"} \/ os[fg[k]] = "running"
       /\ \A k \in DOMAIN fg : k < i /\ stopped = 0 => os[fg[k]] = "reaped"

Looping == {"mark", "marked", "rtest", "rset", "rcall", "rwait", "rintr"}
Inside == {"marked", "rset", "rcall", "rwait", "rintr"}

(* resume is at a process of a job of the table.                            *)
ResumeSound ==
  /\ pc \in Looping => job \in DOMAIN jobs /\ i \in 1..(Len(jobs[job].pids) + 1)
  /\ pc \in Inside => i <= Len(jobs[job].pids)

(* The shell is where the commands it is given lead.                        *)
MenuSound ==
  /\ menu = {"bg"} => pc \in {"prompt", "exit"}
  /\ "resume_fg" \notin menu => pc \notin {"rtest", "rset", "rcall", "rwait", "rintr"}

(* The table tells the state of a child that has nothing to report.         *)
BackgroundTrue ==
  menu = {"bg"} =>
    \A j \in DOMAIN jobs : \A k \in DOMAIN jobs[j].pids :
      ev[jobs[j].pids[k]] = "none" => Tells(jobs[j].alive[k], os[jobs[j].pids[k]])

(* Every job, the one in the foreground included, has a child of its own.   *)
Pending == IF pc \in {"fgwait", "fgadd"} THEN 1 ELSE 0
JobsBounded == Len(jobs) + Pending <= Started

Inv ==
  /\ TypeOK /\ ForkedInOrder /\ ChangeIsLast /\ OnlyForked /\ ForegroundSound /\ ResumeSound
  /\ MenuSound /\ ExitedIsGone /\ BackgroundTrue /\ JobsBounded

(* A child that was forked and is not collected is in the foreground        *)
(* command or in the table.                                                 *)
InTable(p) == \E j \in DOMAIN jobs : \E k \in DOMAIN jobs[j].pids : jobs[j].pids[k] = p
InFront(p) == \E k \in DOMAIN fg : fg[k] = p
Accounted == \A p \in Pid : os[p] \in {"none", "reaped"} \/ InFront(p) \/ InTable(p)

-----------------------------------------------------------------------------
(* The table's entries, and what each way to change the table does to it.   *)
LEMMA EntryIn ==
  ASSUME NEW n \in 1..MaxStages, NEW ps \in [1..n -> Pid], NEW al \in [1..n -> 0..2]
  PROVE  [pids |-> ps, alive |-> al] \in JobSet
  BY DEF JobSet

LEMMA EntryShape ==
  ASSUME NEW e \in JobSet
  PROVE  /\ e = [pids |-> e.pids, alive |-> e.alive]
         /\ \E n \in 1..MaxStages : e.pids \in [1..n -> Pid] /\ e.alive \in [1..n -> 0..2]
  BY DEF JobSet

LEMMA JobShape ==
  ASSUME TypeOK, NEW j \in DOMAIN jobs
  PROVE  /\ jobs[j] \in JobSet
         /\ DOMAIN jobs[j].pids = 1..Len(jobs[j].pids)
         /\ Len(jobs[j].pids) \in 1..MaxStages
         /\ DOMAIN jobs[j].alive = DOMAIN jobs[j].pids
         /\ \A k \in DOMAIN jobs[j].pids : jobs[j].pids[k] \in Pid /\ jobs[j].alive[k] \in 0..2
<1>1. jobs[j] \in JobSet
  BY DEF TypeOK
<1>2. PICK n \in 1..MaxStages : jobs[j].pids \in [1..n -> Pid] /\ jobs[j].alive \in [1..n -> 0..2]
  BY <1>1, EntryShape, Zenon
<1>3. n \in Nat /\ jobs[j].pids \in Seq(Pid) /\ Len(jobs[j].pids) = n
  BY <1>2, BoundsAssumption
<1> QED
  BY <1>1, <1>2, <1>3, Zenon

(* The table keeps its jobs and their pids.                                 *)
SamePids ==
  /\ DOMAIN jobs' = DOMAIN jobs /\ Len(jobs') = Len(jobs)
  /\ \A j \in DOMAIN jobs : jobs'[j].pids = jobs[j].pids

LEMMA SetAliveFacts ==
  ASSUME TypeOK, job \in DOMAIN jobs, NEW k \in DOMAIN jobs[job].pids, NEW a \in 0..2,
         SetAlive(k, a)
  PROVE  /\ jobs' \in Seq(JobSet) /\ SamePids
         /\ \A j \in DOMAIN jobs : \A l \in DOMAIN jobs[j].pids :
              jobs'[j].alive[l] = IF j = job /\ l = k THEN a ELSE jobs[j].alive[l]
<1>1. jobs \in Seq(JobSet)
  BY Zenon DEF TypeOK
<1>2. PICK n \in 1..MaxStages :
        jobs[job].pids \in [1..n -> Pid] /\ jobs[job].alive \in [1..n -> 0..2]
  BY JobShape, EntryShape, Zenon
<1>3. jobs[job] = [pids |-> jobs[job].pids, alive |-> jobs[job].alive]
  BY JobShape, EntryShape, Zenon
<1>4. jobs' = [jobs EXCEPT ![job] = [pids |-> jobs[job].pids,
                                     alive |-> [jobs[job].alive EXCEPT ![k] = a]]]
  <2>1. jobs' = [jobs EXCEPT ![job] =
                   [jobs[job] EXCEPT !.alive = [jobs[job].alive EXCEPT ![k] = a]]]
    BY DEF SetAlive
  <2>2. \A al : [jobs[job] EXCEPT !.alive = al] = [pids |-> jobs[job].pids, alive |-> al]
    BY <1>3
  <2> QED
    BY <2>1, <2>2, Zenon
<1>5. [jobs[job].alive EXCEPT ![k] = a] \in [1..n -> 0..2]
  BY <1>2, Zenon
<1>6. [pids |-> jobs[job].pids, alive |-> [jobs[job].alive EXCEPT ![k] = a]] \in JobSet
  BY <1>2, <1>5, EntryIn, Zenon
<1>7. jobs' \in Seq(JobSet) /\ Len(jobs') = Len(jobs) /\ DOMAIN jobs' = DOMAIN jobs
  BY <1>1, <1>4, <1>6
<1>8. \A j \in DOMAIN jobs : jobs'[j].pids = jobs[j].pids
  BY <1>1, <1>4, Zenon
<1>9. \A j \in DOMAIN jobs : \A l \in DOMAIN jobs[j].pids :
        jobs'[j].alive[l] = IF j = job /\ l = k THEN a ELSE jobs[j].alive[l]
  BY <1>1, <1>2, <1>4, Zenon
<1> QED
  BY <1>7, <1>8, <1>9, Zenon DEF SamePids

LEMMA HandlerFacts ==
  ASSUME TypeOK, sigchld_handler
  PROVE  /\ jobs' \in Seq(JobSet) /\ SamePids
         /\ \A j \in DOMAIN jobs : \A l \in DOMAIN jobs[j].pids :
              jobs'[j].alive[l] = NewAlive(jobs[j].pids[l], jobs[j].alive[l])
<1>1. jobs \in Seq(JobSet)
  BY DEF TypeOK
<1> DEFINE al(j) == [k \in DOMAIN jobs[j].alive |-> NewAlive(jobs[j].pids[k], jobs[j].alive[k])]
<1>2. jobs' = [j \in DOMAIN jobs |-> [jobs[j] EXCEPT !.alive = al(j)]]
  BY DEF sigchld_handler
<1>3. \A j \in DOMAIN jobs : jobs'[j] = [pids |-> jobs[j].pids, alive |-> al(j)]
  <2> SUFFICES ASSUME NEW j \in DOMAIN jobs PROVE jobs'[j] = [pids |-> jobs[j].pids, alive |-> al(j)]
    OBVIOUS
  <2>1. jobs[j] = [pids |-> jobs[j].pids, alive |-> jobs[j].alive]
    BY JobShape, EntryShape
  <2>2. jobs'[j] = [jobs[j] EXCEPT !.alive = al(j)]
    BY <1>2
  <2> HIDE DEF al
  <2> QED
    BY <2>1, <2>2
<1>4. \A j \in DOMAIN jobs : jobs'[j] \in JobSet
  <2> SUFFICES ASSUME NEW j \in DOMAIN jobs PROVE jobs'[j] \in JobSet
    OBVIOUS
  <2>1. PICK n \in 1..MaxStages :
          jobs[j].pids \in [1..n -> Pid] /\ jobs[j].alive \in [1..n -> 0..2]
    BY JobShape, EntryShape
  <2>2. al(j) \in [1..n -> 0..2]
    BY <2>1 DEF NewAlive
  <2> HIDE DEF al
  <2> QED
    BY <1>3, <2>1, <2>2, EntryIn, Zenon
<1>5. jobs' \in Seq(JobSet) /\ Len(jobs') = Len(jobs) /\ DOMAIN jobs' = DOMAIN jobs
  <2>1. DOMAIN jobs' = 1..Len(jobs) /\ Len(jobs) \in Nat
    BY <1>1, <1>2
  <2> HIDE DEF al
  <2>2. jobs' \in [1..Len(jobs) -> JobSet]
    BY <1>1, <1>2, <1>4, <2>1, Zenon
  <2> QED
    BY <1>1, <2>1, <2>2
<1>6. \A j \in DOMAIN jobs : jobs'[j].pids = jobs[j].pids /\ jobs'[j].alive = al(j)
  <2> TAKE j \in DOMAIN jobs
  <2>1. jobs'[j] = [pids |-> jobs[j].pids, alive |-> al(j)]
    BY <1>3, Zenon
  <2> HIDE DEF al
  <2> QED
    BY <2>1
<1>7. \A j \in DOMAIN jobs : \A l \in DOMAIN jobs[j].pids :
        jobs'[j].alive[l] = NewAlive(jobs[j].pids[l], jobs[j].alive[l])
  BY <1>6, JobShape, Zenon
<1> QED
  BY <1>5, <1>6, <1>7, Zenon DEF SamePids

(* A job is added as the last, or the table is full and stays as it was.    *)
LEMMA ListedFacts ==
  ASSUME TypeOK, NEW n \in 1..MaxStages, NEW ps \in [1..n -> Pid], NEW a \in 0..2,
         jobs' = Listed(Entry(ps, a))
  PROVE  /\ jobs' \in Seq(JobSet) /\ Len(jobs') <= MAX_JOBS
         /\ Len(jobs') <= Len(jobs) + 1 /\ DOMAIN jobs \subseteq DOMAIN jobs'
         /\ \A j \in DOMAIN jobs : jobs'[j] = jobs[j]
         /\ \A j \in DOMAIN jobs' \ DOMAIN jobs :
              /\ jobs'[j].pids = ps /\ DOMAIN jobs'[j].alive = 1..n
              /\ \A k \in 1..n : jobs'[j].alive[k] = a
         /\ Len(jobs) < MAX_JOBS => \E j \in DOMAIN jobs' : jobs'[j].pids = ps
<1>1. jobs \in Seq(JobSet) /\ Len(jobs) <= MAX_JOBS /\ MAX_JOBS \in Nat
  BY BoundsAssumption DEF TypeOK
<1>2. n \in Nat /\ Len(ps) = n
  BY BoundsAssumption
<1> DEFINE e == Entry(ps, a)
<1>3. e = [pids |-> ps, alive |-> [k \in 1..n |-> a]]
  BY <1>2, Zenon DEF Entry
<1>4. [k \in 1..n |-> a] \in [1..n -> 0..2]
  BY Zenon
<1>5. e \in JobSet
  BY <1>3, <1>4, EntryIn, Zenon
<1>6. jobs' = IF Len(jobs) < MAX_JOBS THEN Append(jobs, e) ELSE jobs
  BY Zenon DEF Listed
<1>7. e.pids = ps /\ DOMAIN e.alive = 1..n /\ \A k \in 1..n : e.alive[k] = a
  BY <1>3
<1> HIDE DEF e
<1>8. CASE Len(jobs) < MAX_JOBS
  <2>1. jobs' = Append(jobs, e)
    BY <1>6, <1>8, Zenon
  <2>2. /\ jobs' \in Seq(JobSet) /\ Len(jobs') = Len(jobs) + 1 /\ Len(jobs) \in Nat
        /\ DOMAIN jobs = 1..Len(jobs) /\ DOMAIN jobs' = 1..(Len(jobs) + 1)
        /\ jobs'[Len(jobs) + 1] = e /\ \A j \in 1..Len(jobs) : jobs'[j] = jobs[j]
    BY <1>1, <1>5, <2>1
  <2> QED
    BY <1>1, <1>7, <1>8, <2>2
<1>9. CASE ~(Len(jobs) < MAX_JOBS)
  BY <1>1, <1>6, <1>9
<1> QED
  BY <1>8, <1>9, Zenon

-----------------------------------------------------------------------------
(* Only fork() changes how many children there have been.                   *)
LEMMA StartedSame ==
  ASSUME ForkedInOrder, \A p \in Pid : os'[p] = "none" <=> os[p] = "none"
  PROVE  ForkedInOrder' /\ Started' = Started
<1>1. Fresh' = Fresh
  BY Zenon DEF Fresh
<1>2. Started' = Started
  BY <1>1, Zenon DEF Started
<1> QED
  BY <1>2, Zenon DEF ForkedInOrder

-----------------------------------------------------------------------------
(* A child changes: whoever waits for it has something to collect.          *)
LEMMA ChangeKeeps ==
  ASSUME Inv, NEW p \in Pid, NEW o, NEW e, os[p] \in {"running", "stopped"},
         \/ o = "zombie" /\ e = "exit"
         \/ o = "stopped" /\ e = "stop"
         \/ o = "running" /\ e = "cont",
         Change(p, o, e), stops' \in 0..MaxStops, UNCHANGED menu
  PROVE  Inv'
<1>1. /\ os \in [Pid -> {"none", "running", "stopped", "zombie", "reaped"}]
      /\ ev \in [Pid -> {"none", "exit", "stop", "cont"}]
      /\ os' = [os EXCEPT ![p] = o] /\ ev' = [ev EXCEPT ![p] = e]
  BY Zenon DEF Inv, TypeOK, Change
<1>2. /\ \A q \in Pid : os'[q] = (IF q = p THEN o ELSE os[q]) /\ ev'[q] = (IF q = p THEN e ELSE ev[q])
      /\ o # "none" /\ e # "none"
  BY <1>1, Zenon
<1>3. \A q \in Pid : (os'[q] = "none" <=> os[q] = "none") /\ (os[q] = "reaped" => os'[q] = "reaped")
  BY <1>2, Zenon
<1>4. /\ jobs' = jobs /\ pc' = pc /\ fg' = fg /\ i' = i /\ stopped' = stopped /\ job' = job
      /\ menu' = menu
  BY Zenon DEF Change, rvars
<1>5. \A j \in DOMAIN jobs : \A k \in DOMAIN jobs[j].pids : jobs[j].pids[k] \in Pid
  BY JobShape, Zenon DEF Inv
<1>6. \A k \in DOMAIN fg : fg[k] \in Pid
  BY DEF Inv, TypeOK
<1>7. TypeOK'
  BY <1>1, <1>4 DEF Inv, TypeOK, Change, rvars
<1>8. ForkedInOrder' /\ Started' = Started
  BY <1>3, StartedSame, Zenon DEF Inv
<1>9. ChangeIsLast'
  BY <1>2, Zenon DEF Inv, ChangeIsLast
<1>10. OnlyForked'
  BY <1>3, <1>4, <1>5, <1>6, Zenon DEF Inv, OnlyForked
<1>11. ForegroundSound'
  <2>1. \A k \in DOMAIN fg : ev[fg[k]] \in {"exit", "stop"} \/ os[fg[k]] = "running"
          => ev'[fg[k]] \in {"exit", "stop"} \/ os'[fg[k]] = "running"
    BY <1>2, <1>6, Zenon
  <2> QED
    BY <1>3, <1>4, <1>6, <2>1, Zenon DEF Inv, ForegroundSound
<1>12. ResumeSound' /\ MenuSound'
  BY <1>4, Zenon DEF Inv, ResumeSound, MenuSound
<1>13. ExitedIsGone'
  BY <1>3, <1>4, <1>5, Zenon DEF Inv, ExitedIsGone
<1>14. BackgroundTrue'
  BY <1>2, <1>4, <1>5 DEF Inv, BackgroundTrue
<1>15. JobsBounded'
  BY <1>4, <1>8, Zenon DEF Inv, JobsBounded, Pending
<1> QED
  BY <1>7, <1>8, <1>9, <1>10, <1>11, <1>12, <1>13, <1>14, <1>15, Zenon DEF Inv

LEMMA ChildKeeps ==
  ASSUME Inv, Child, UNCHANGED menu
  PROVE  Inv'
<1>1. PICK p \in Pid : ChildExits(p) \/ ChildStops(p) \/ ChildContinues(p)
  BY Zenon DEF Child
<1>2. stops \in 0..MaxStops /\ MaxStops \in Nat
  BY BoundsAssumption, Zenon DEF Inv, TypeOK
<1>3. CASE ChildExits(p)
  BY <1>2, <1>3, ChangeKeeps DEF ChildExits
<1>4. CASE ChildStops(p)
  <2>1. stops' \in 0..MaxStops
    BY <1>2, <1>4 DEF ChildStops
  <2> QED
    BY <1>4, <2>1, ChangeKeeps DEF ChildStops
<1>5. CASE ChildContinues(p)
  BY <1>2, <1>5, ChangeKeeps DEF ChildContinues
<1> QED
  BY <1>1, <1>3, <1>4, <1>5, Zenon

(* The handler takes every change: SIGCHLD is blocked while the shell waits *)
(* for a command it launched.                                               *)
LEMMA HandlerKeeps ==
  ASSUME Inv, sigchld_handler, UNCHANGED menu
  PROVE  Inv'
<1>1. /\ TypeOK /\ jobs' \in Seq(JobSet) /\ DOMAIN jobs' = DOMAIN jobs /\ Len(jobs') = Len(jobs)
      /\ \A j \in DOMAIN jobs : jobs'[j].pids = jobs[j].pids
      /\ \A j \in DOMAIN jobs : \A l \in DOMAIN jobs[j].pids :
           jobs'[j].alive[l] = NewAlive(jobs[j].pids[l], jobs[j].alive[l])
  BY HandlerFacts, Zenon DEF Inv, SamePids
<1>2. /\ os' = [p \in Pid |-> IF ev[p] = "exit" THEN "reaped" ELSE os[p]]
      /\ ev' = [p \in Pid |-> "none"]
      /\ pc' = IF pc = "rwait" THEN "rintr" ELSE pc
      /\ pc # "fgwait" /\ pc # "exit"
      /\ fg' = fg /\ i' = i /\ stopped' = stopped /\ job' = job /\ menu' = menu
  BY Zenon DEF sigchld_handler, Blocked, rvars
<1>3. \A p \in Pid : ev[p] = "exit" <=> os[p] = "zombie"
  BY Zenon DEF Inv, ChangeIsLast
<1>4. \A q \in Pid : (os'[q] = "none" <=> os[q] = "none") /\ (os[q] = "reaped" => os'[q] = "reaped")
  BY <1>2, <1>3, Zenon
<1>5. \A j \in DOMAIN jobs : \A k \in DOMAIN jobs[j].pids : jobs[j].pids[k] \in Pid
  BY JobShape, Zenon DEF Inv
<1>6. \A k \in DOMAIN fg : fg[k] \in Pid
  BY DEF Inv, TypeOK
<1>7. TypeOK'
  <2>1. /\ os' \in [Pid -> {"none", "running", "stopped", "zombie", "reaped"}]
        /\ ev' \in [Pid -> {"none", "exit", "stop", "cont"}]
    BY <1>1, <1>2, Zenon DEF TypeOK
  <2> QED
    BY <1>1, <1>2, <2>1 DEF TypeOK, sigchld_handler, rvars
<1>8. ForkedInOrder' /\ Started' = Started
  BY <1>4, StartedSame, Zenon DEF Inv
<1>9. ChangeIsLast'
  BY <1>2, <1>3, Zenon DEF ChangeIsLast
<1>10. OnlyForked'
  BY <1>1, <1>2, <1>4, <1>5, <1>6 DEF Inv, OnlyForked
<1>11. ForegroundSound'
  BY <1>2, Zenon DEF Inv, ForegroundSound
<1>12. ResumeSound'
  BY <1>1, <1>2, Zenon DEF Inv, ResumeSound, Looping, Inside
<1>13. MenuSound'
  BY <1>2, Zenon DEF Inv, MenuSound
<1>14. \A p \in Pid : \A a \in 0..2 : NewAlive(p, a) = 0 => ev[p] = "exit" \/ a = 0
  BY DEF NewAlive
<1>15. ExitedIsGone'
  <2>1. ASSUME NEW j \in DOMAIN jobs, NEW k \in DOMAIN jobs[j].pids, jobs'[j].alive[k] = 0
        PROVE  os'[jobs[j].pids[k]] = "reaped"
    <3>1. ev[jobs[j].pids[k]] = "exit" \/ jobs[j].alive[k] = 0
      BY <1>1, <1>5, <1>14, <2>1, JobShape, SMTT(30)
    <3> QED
      BY <1>2, <1>4, <1>5, <3>1, Zenon DEF Inv, ExitedIsGone
  <2> QED
    BY <1>1, <2>1 DEF ExitedIsGone
<1>16. BackgroundTrue'
  <2>1. ASSUME menu = {"bg"}, NEW j \in DOMAIN jobs, NEW k \in DOMAIN jobs[j].pids
        PROVE  Tells(jobs'[j].alive[k], os'[jobs[j].pids[k]])
    <3>1. PICK p \in Pid : p = jobs[j].pids[k]
      BY <1>5, Zenon
    <3>2. PICK a \in 0..2 : a = jobs[j].alive[k]
      BY <1>1, JobShape, Zenon
    <3>3. ev[p] \in {"none", "exit", "stop", "cont"}
      BY <1>1, Zenon DEF TypeOK
    <3>4. ev[p] = "none" => Tells(a, os[p])
      BY <2>1, <3>1, <3>2 DEF Inv, BackgroundTrue
    <3>5. (ev[p] = "stop" => os[p] = "stopped") /\ (ev[p] = "cont" => os[p] = "running")
      BY Zenon DEF Inv, ChangeIsLast
    <3>6. Tells(NewAlive(p, a), os'[p])
      BY <1>2, <3>3, <3>4, <3>5, Zenon DEF NewAlive, Tells
    <3> QED
      BY <1>1, <3>1, <3>2, <3>6, Zenon
  <2> QED
    BY <1>1, <1>2, <2>1, Zenon DEF BackgroundTrue
<1>17. JobsBounded'
  BY <1>1, <1>2, <1>8, Zenon DEF Inv, JobsBounded, Pending
<1> QED
  BY <1>7, <1>8, <1>9, <1>10, <1>11, <1>12, <1>13, <1>15, <1>16, <1>17, Zenon DEF Inv

-----------------------------------------------------------------------------
(* waitpid() reports the change of the process the loop is at; the others   *)
(* of the command are other processes.                                      *)
LEMMA FgWaitKeeps ==
  ASSUME Inv, FgWait, UNCHANGED menu
  PROVE  Inv'
<1>1. /\ fg \in Seq(Pid) /\ Len(fg) \in Nat /\ DOMAIN fg = 1..Len(fg) /\ i \in 1..Len(fg)
      /\ \A k \in DOMAIN fg : fg[k] \in Pid
  BY DEF Inv, TypeOK, ForegroundSound, FgWait
<1>2. PICK p \in Pid : p = fg[i]
  BY <1>1, Zenon
<1>3. /\ pc = "fgwait" /\ ev[p] \in {"exit", "stop"}
      /\ os' = Reported(p, os) /\ ev' = [ev EXCEPT ![p] = "none"]
      /\ stopped' = (IF ev[p] = "stop" THEN 1 ELSE stopped) /\ i' = i + 1
      /\ jobs' = jobs /\ pc' = pc /\ fg' = fg /\ job' = job /\ menu' = menu
  BY <1>2, Zenon DEF FgWait, rvars
<1>4. /\ os \in [Pid -> {"none", "running", "stopped", "zombie", "reaped"}]
      /\ ev \in [Pid -> {"none", "exit", "stop", "cont"}]
      /\ ev[p] = "exit" <=> os[p] = "zombie"
      /\ ev[p] = "stop" => os[p] = "stopped"
  BY Zenon DEF Inv, TypeOK, ChangeIsLast
<1>5. \A q \in Pid : /\ os'[q] = IF q = p /\ ev[p] = "exit" THEN "reaped" ELSE os[q]
                     /\ ev'[q] = IF q = p THEN "none" ELSE ev[q]
  BY <1>3, <1>4, Zenon DEF Reported
<1>6. \A q \in Pid : (os'[q] = "none" <=> os[q] = "none") /\ (os[q] = "reaped" => os'[q] = "reaped")
  BY <1>4, <1>5, Zenon
<1>7. \A j \in DOMAIN jobs : \A k \in DOMAIN jobs[j].pids : jobs[j].pids[k] \in Pid
  BY JobShape, Zenon DEF Inv
<1>8. TypeOK'
  <2>1. /\ os' \in [Pid -> {"none", "running", "stopped", "zombie", "reaped"}]
        /\ ev' \in [Pid -> {"none", "exit", "stop", "cont"}]
    BY <1>3, <1>4, Zenon DEF Reported
  <2>2. i' \in 0..(MaxStages + 1)
    BY <1>1, <1>3, BoundsAssumption DEF Inv, ForegroundSound
  <2>3. stopped' \in 0..1
    BY <1>3 DEF Inv, TypeOK
  <2> QED
    BY <1>3, <2>1, <2>2, <2>3 DEF Inv, TypeOK, FgWait, rvars
<1>9. ForkedInOrder' /\ Started' = Started
  BY <1>6, StartedSame, Zenon DEF Inv
<1>10. ChangeIsLast'
  BY <1>4, <1>5 DEF Inv, ChangeIsLast
<1>11. OnlyForked'
  BY <1>1, <1>3, <1>6, <1>7, Zenon DEF Inv, OnlyForked
<1>12. ForegroundSound'
  <2>1. /\ \A k, l \in DOMAIN fg : fg[k] = fg[l] => k = l
        /\ \A k \in DOMAIN fg : k >= i => ev[fg[k]] \in {"exit", "stop"} \/ os[fg[k]] = "running"
        /\ \A k \in DOMAIN fg : k < i /\ stopped = 0 => os[fg[k]] = "reaped"
        /\ Len(fg) \in 1..MaxStages
    BY <1>3, Zenon DEF Inv, ForegroundSound
  <2>2. ASSUME NEW k \in DOMAIN fg, k >= i + 1
        PROVE  ev'[fg[k]] \in {"exit", "stop"} \/ os'[fg[k]] = "running"
    <3>1. k >= i /\ k # i
      BY <1>1, <2>2
    <3>2. fg[k] # p /\ fg[k] \in Pid
      BY <1>1, <1>2, <2>1, <3>1, Zenon
    <3> QED
      BY <1>5, <2>1, <3>1, <3>2, Zenon
  <2>3. ASSUME NEW k \in DOMAIN fg, k < i + 1, stopped' = 0
        PROVE  os'[fg[k]] = "reaped"
    <3>1. ev[p] = "exit" /\ stopped = 0
      BY <1>3, <2>3
    <3>2. CASE k = i
      BY <1>2, <1>5, <3>1, <3>2, Zenon
    <3>3. CASE k # i
      <4>1. k < i
        BY <1>1, <2>3, <3>3
      <4> QED
        BY <1>1, <1>6, <2>1, <3>1, <4>1, Zenon
    <3> QED
      BY <3>2, <3>3, Zenon
  <2>4. i' \in 1..(Len(fg) + 1)
    BY <1>1, <1>3
  <2> QED
    BY <1>3, <2>1, <2>2, <2>3, <2>4, Zenon DEF ForegroundSound
<1>13. ResumeSound' /\ MenuSound'
  BY <1>3, Zenon DEF Inv, ResumeSound, MenuSound, Looping, Inside
<1>14. ExitedIsGone'
  BY <1>3, <1>6, <1>7, Zenon DEF Inv, ExitedIsGone
<1>15. BackgroundTrue'
  BY <1>3, Zenon DEF Inv, BackgroundTrue, MenuSound
<1>16. JobsBounded'
  BY <1>3, <1>9, Zenon DEF Inv, JobsBounded, Pending
<1> QED
  BY <1>8, <1>9, <1>10, <1>11, <1>12, <1>13, <1>14, <1>15, <1>16, Zenon DEF Inv

(* A step that leaves the children and the table as they are.               *)
LEMMA TableSame ==
  ASSUME Inv, UNCHANGED <<osvars, jobs, menu>>
  PROVE  /\ ForkedInOrder' /\ Started' = Started /\ ChangeIsLast' /\ ExitedIsGone'
         /\ BackgroundTrue'
<1>1. os' = os /\ ev' = ev /\ jobs' = jobs /\ menu' = menu
  BY Zenon DEF osvars
<1> QED
  BY <1>1, StartedSame DEF Inv, ChangeIsLast, ExitedIsGone, BackgroundTrue

LEMMA FgDoneKeeps ==
  ASSUME Inv, FgDone, UNCHANGED menu
  PROVE  Inv'
<1>1. /\ pc = "fgwait" /\ pc' = (IF stopped = 1 THEN "fgadd" ELSE "prompt")
      /\ fg' = (IF stopped = 1 THEN fg ELSE <<>>) /\ i' = 0 /\ stopped' = 0
      /\ os' = os /\ jobs' = jobs /\ menu' = menu /\ UNCHANGED osvars
  BY Zenon DEF FgDone, osvars
<1>2. ForkedInOrder' /\ Started' = Started /\ ChangeIsLast' /\ ExitedIsGone' /\ BackgroundTrue'
  BY <1>1, TableSame, Zenon
<1>3. TypeOK'
  BY <1>1, BoundsAssumption DEF Inv, TypeOK, FgDone, osvars, rvars
<1>4. OnlyForked'
  BY <1>1 DEF Inv, OnlyForked
<1>5. ForegroundSound'
  BY <1>1, Zenon DEF Inv, ForegroundSound
<1>6. ResumeSound' /\ MenuSound'
  BY <1>1, Zenon DEF Inv, ResumeSound, MenuSound, Looping, Inside
<1>7. JobsBounded'
  <2>1. Len(jobs) \in Nat /\ Started \in Nat
    BY BoundsAssumption DEF Inv, TypeOK, ForkedInOrder
  <2> QED
    BY <1>1, <1>2, <2>1 DEF Inv, JobsBounded, Pending
<1> QED
  BY <1>2, <1>3, <1>4, <1>5, <1>6, <1>7, Zenon DEF Inv

LEMMA AddStoppedKeeps ==
  ASSUME Inv, add_stopped_job, UNCHANGED menu
  PROVE  Inv'
<1>1. /\ pc = "fgadd" /\ pc' = "prompt" /\ jobs' = Listed(Entry(fg, 2)) /\ fg' = <<>>
      /\ os' = os /\ ev' = ev /\ menu' = menu /\ i' = i
  BY Zenon DEF add_stopped_job, osvars
<1>2. PICK n \in 1..MaxStages : n = Len(fg)
  BY <1>1, Zenon DEF Inv, ForegroundSound
<1>3. fg \in [1..n -> Pid]
  BY <1>2 DEF Inv, TypeOK
<1>4. /\ jobs' \in Seq(JobSet) /\ Len(jobs') <= MAX_JOBS
      /\ Len(jobs') <= Len(jobs) + 1
      /\ \A j \in DOMAIN jobs : jobs'[j] = jobs[j]
      /\ \A j \in DOMAIN jobs' \ DOMAIN jobs :
           /\ jobs'[j].pids = fg
           /\ \A k \in 1..n : jobs'[j].alive[k] = 2
  <2>1. 2 \in 0..2 /\ TypeOK
    BY DEF Inv
  <2> QED
    BY <1>1, <1>3, <2>1, ListedFacts
<1>5. TypeOK'
  BY <1>1, <1>4 DEF Inv, TypeOK, add_stopped_job, osvars, rvars
<1>6. ForkedInOrder' /\ Started' = Started
  BY <1>1, StartedSame, Zenon DEF Inv
<1>7. ChangeIsLast'
  BY <1>1, Zenon DEF Inv, ChangeIsLast
<1>8. OnlyForked'
  BY <1>1, <1>3, <1>4 DEF Inv, OnlyForked
<1>9. ForegroundSound' /\ ResumeSound' /\ MenuSound'
  BY <1>1, Zenon DEF Inv, ForegroundSound, ResumeSound, MenuSound, Looping, Inside
<1>10. ExitedIsGone'
  BY <1>1, <1>3, <1>4 DEF Inv, ExitedIsGone
<1>11. BackgroundTrue'
  BY <1>1, Zenon DEF Inv, BackgroundTrue, MenuSound
<1>12. JobsBounded'
  <2>1. Len(jobs) \in Nat /\ Len(jobs') \in Nat /\ Started \in Nat
    BY <1>4, BoundsAssumption DEF Inv, TypeOK, ForkedInOrder
  <2> QED
    BY <1>1, <1>4, <1>6, <2>1 DEF Inv, JobsBounded, Pending
<1> QED
  BY <1>5, <1>6, <1>7, <1>8, <1>9, <1>10, <1>11, <1>12, Zenon DEF Inv

-----------------------------------------------------------------------------
(* resume: kill(-pgid, SIGCONT) wakes the stopped processes of the job.     *)
LEMMA ContinueFacts ==
  ASSUME Inv, NEW j \in DOMAIN jobs, Continue(j)
  PROVE  /\ os' \in [Pid -> {"none", "running", "stopped", "zombie", "reaped"}]
         /\ ev' \in [Pid -> {"none", "exit", "stop", "cont"}]
         /\ chld' \in 0..1 /\ stops' = stops
         /\ \A q \in Pid : \/ os'[q] = os[q] /\ ev'[q] = ev[q]
                           \/ os[q] = "stopped" /\ os'[q] = "running" /\ ev'[q] = "cont"
  BY DEF Inv, TypeOK, Continue

(* The shell goes from its prompt into one of resume's loops.               *)
LEMMA ResumeStarts ==
  ASSUME Inv, NEW j \in DOMAIN jobs, Continue(j), pc = "prompt", job' = j, i' = 1,
         pc' \in {"mark", "rtest"}, "resume_bg" \in menu \/ "resume_fg" \in menu,
         pc' = "rtest" => "resume_fg" \in menu,
         stopped' \in 0..1, timer' \in {"none", "set", "fired"}, timeout_occurred' \in 0..1,
         ctrl_d_count' = 0, UNCHANGED <<menu, jobs, fg, hup>>
  PROVE  Inv'
<1>1. /\ \A q \in Pid : \/ os'[q] = os[q] /\ ev'[q] = ev[q]
                        \/ os[q] = "stopped" /\ os'[q] = "running" /\ ev'[q] = "cont"
      /\ os' \in [Pid -> {"none", "running", "stopped", "zombie", "reaped"}]
      /\ ev' \in [Pid -> {"none", "exit", "stop", "cont"}]
      /\ chld' \in 0..1 /\ stops' = stops
  BY ContinueFacts, Zenon
<1>2. \A q \in Pid : (os'[q] = "none" <=> os[q] = "none") /\ (os[q] = "reaped" => os'[q] = "reaped")
  BY <1>1, Zenon
<1>3. /\ \A l \in DOMAIN jobs : \A k \in DOMAIN jobs[l].pids : jobs[l].pids[k] \in Pid
      /\ Len(jobs[j].pids) \in 1..MaxStages
  BY JobShape, Zenon DEF Inv
<1>4. jobs \in Seq(JobSet) /\ Len(jobs) <= MAX_JOBS /\ fg = <<>> /\ DOMAIN fg = {}
  BY DEF Inv, TypeOK, ForegroundSound
<1>5. TypeOK'
  <2>1. j \in 0..MAX_JOBS /\ 1 \in 0..(MaxStages + 1)
    BY <1>4, BoundsAssumption
  <2> QED
    BY <1>1, <2>1 DEF Inv, TypeOK
<1>6. ForkedInOrder' /\ Started' = Started
  BY <1>2, StartedSame, Zenon DEF Inv
<1>7. ChangeIsLast'
  BY <1>1 DEF Inv, ChangeIsLast
<1>8. OnlyForked'
  BY <1>2, <1>3, <1>4, Zenon DEF Inv, OnlyForked
<1>9. ForegroundSound'
  BY <1>4, Zenon DEF ForegroundSound
<1>10. ResumeSound'
  <2>1. 1 \in 1..(Len(jobs[j].pids) + 1)
    BY <1>3, BoundsAssumption
  <2> QED
    BY <2>1, Zenon DEF ResumeSound, Looping, Inside
<1>11. menu # {"bg"}
  BY Zenon
<1>12. MenuSound' /\ BackgroundTrue'
  BY <1>11, Zenon DEF MenuSound, BackgroundTrue
<1>13. ExitedIsGone'
  BY <1>2, <1>3, Zenon DEF Inv, ExitedIsGone
<1>14. JobsBounded'
  BY <1>6, Zenon DEF Inv, JobsBounded, Pending
<1> QED
  BY <1>5, <1>6, <1>7, <1>8, <1>9, <1>10, <1>12, <1>13, <1>14, Zenon DEF Inv

(* A step of the shell that leaves the children, the table and the          *)
(* foreground command alone.                                                *)
LEMMA LoopKeeps ==
  ASSUME Inv, UNCHANGED <<menu, osvars, jobs, fg>>, TypeOK', ResumeSound', MenuSound',
         \/ pc \notin {"fgwait", "fgadd"} /\ pc' \notin {"fgwait", "fgadd"}
         \/ UNCHANGED <<pc, i, stopped>>
  PROVE  Inv'
<1>1. os' = os /\ ev' = ev /\ jobs' = jobs /\ menu' = menu /\ fg' = fg
  BY Zenon DEF osvars
<1>2. ForkedInOrder' /\ Started' = Started /\ ChangeIsLast' /\ ExitedIsGone' /\ BackgroundTrue'
  BY TableSame, Zenon
<1>3. OnlyForked'
  BY <1>1, Zenon DEF Inv, OnlyForked
<1>4. ForegroundSound'
  BY <1>1 DEF Inv, ForegroundSound
<1>5. JobsBounded'
  BY <1>1, <1>2 DEF Inv, JobsBounded, Pending
<1> QED
  BY <1>2, <1>3, <1>4, <1>5, Zenon DEF Inv

(* Where a step of a loop of resume starts.                                 *)
LEMMA LoopFacts ==
  ASSUME Inv, pc \in Looping
  PROVE  /\ job \in DOMAIN jobs /\ i \in 1..(Len(jobs[job].pids) + 1)
         /\ i \in Nat /\ Len(jobs[job].pids) \in 1..MaxStages /\ MaxStages \in Nat
         /\ DOMAIN jobs[job].pids = 1..Len(jobs[job].pids)
         /\ pc \in Inside \/ i <= Len(jobs[job].pids)
              => /\ i \in DOMAIN jobs[job].pids /\ Target \in Pid
                 /\ i + 1 \in 1..(Len(jobs[job].pids) + 1) /\ i + 1 \in 0..(MaxStages + 1)
         /\ menu # {"bg"}
<1>1. job \in DOMAIN jobs /\ i \in 1..(Len(jobs[job].pids) + 1)
  BY Zenon DEF Inv, ResumeSound
<1>2. /\ Len(jobs[job].pids) \in 1..MaxStages /\ MaxStages \in Nat
      /\ DOMAIN jobs[job].pids = 1..Len(jobs[job].pids)
      /\ \A k \in DOMAIN jobs[job].pids : jobs[job].pids[k] \in Pid
  BY <1>1, JobShape, BoundsAssumption, Zenon DEF Inv
<1>3. pc \in Inside => i <= Len(jobs[job].pids)
  BY Zenon DEF Inv, ResumeSound
<1>4. menu # {"bg"}
  BY Zenon DEF Inv, MenuSound, Looping
<1>5. i \in Nat /\ Len(jobs[job].pids) \in Nat
  BY <1>1, <1>2
<1>6. ASSUME i <= Len(jobs[job].pids)
      PROVE  /\ i \in DOMAIN jobs[job].pids
             /\ i + 1 \in 1..(Len(jobs[job].pids) + 1) /\ i + 1 \in 0..(MaxStages + 1)
  BY <1>1, <1>2, <1>5, <1>6
<1> QED
  BY <1>1, <1>2, <1>3, <1>4, <1>5, <1>6, Zenon DEF Target

LEMMA ResumeBeginKeeps ==
  ASSUME Inv, NEW j \in DOMAIN jobs, UNCHANGED menu,
         ResumeBg(j) \/ \E t \in {"none", "set"} : ResumeFg(j, t)
  PROVE  Inv'
<1>1. stopped \in 0..1 /\ timer \in {"none", "set", "fired"} /\ timeout_occurred \in 0..1
  BY DEF Inv, TypeOK
<1>2. CASE ResumeBg(j)
  BY <1>1, <1>2, ResumeStarts, Zenon DEF ResumeBg
<1>3. ASSUME NEW t \in {"none", "set"}, ResumeFg(j, t)
      PROVE  Inv'
  <2>1. timeout_occurred' \in 0..1
    BY <1>1, <1>3 DEF ResumeFg
  <2> QED
    BY <1>1, <1>3, <2>1, ResumeStarts DEF ResumeFg
<1> QED
  BY <1>2, <1>3, Zenon

(* The steps of resume that only move on in its loop.                       *)
LEMMA MoveKeeps ==
  ASSUME Inv, UNCHANGED menu, ResumeEnd \/ Mark \/ RTest \/ RCall \/ RIntr
  PROVE  Inv'
<1>1. pc \in Looping
  BY Zenon DEF ResumeEnd, Mark, RTest, RCall, RIntr, Looping
<1>2. /\ job \in DOMAIN jobs /\ i \in 1..(Len(jobs[job].pids) + 1)
      /\ pc \in Inside \/ i <= Len(jobs[job].pids)
           => /\ i + 1 \in 1..(Len(jobs[job].pids) + 1) /\ i + 1 \in 0..(MaxStages + 1)
      /\ menu # {"bg"} /\ MaxStages \in Nat
  BY <1>1, LoopFacts, Zenon
<1>3. UNCHANGED <<osvars, jobs, fg>>
  BY DEF ResumeEnd, Mark, RTest, RCall, RIntr, rvars
<1>4. CASE ResumeEnd
  <2>1. TypeOK'
    BY <1>4, BoundsAssumption DEF Inv, TypeOK, ResumeEnd, osvars
  <2>2. ResumeSound' /\ MenuSound' /\ pc' = "prompt" /\ pc \notin {"fgwait", "fgadd"}
    BY <1>4, Zenon DEF ResumeSound, MenuSound, ResumeEnd, Looping, Inside
  <2> QED
    BY <1>3, <2>1, <2>2, LoopKeeps, Zenon
<1>5. CASE Mark
  <2>1. TypeOK'
    BY <1>2, <1>5, Zenon DEF Inv, TypeOK, Mark, osvars, rvars
  <2>2. ResumeSound' /\ MenuSound'
    BY <1>2, <1>5, Zenon DEF Inv, ResumeSound, MenuSound, Mark, rvars, Looping, Inside
  <2>3. pc \notin {"fgwait", "fgadd"} /\ pc' \notin {"fgwait", "fgadd"}
    BY <1>5, Zenon DEF Mark
  <2> QED
    BY <1>3, <2>1, <2>2, <2>3, LoopKeeps, Zenon
<1>6. CASE RTest
  <2>1. TypeOK'
    BY <1>2, <1>6 DEF Inv, TypeOK, RTest, osvars, rvars
  <2>2. ResumeSound' /\ MenuSound'
    BY <1>2, <1>6 DEF Inv, ResumeSound, MenuSound, RTest, rvars, Looping, Inside
  <2>3. pc \notin {"fgwait", "fgadd"} /\ pc' \notin {"fgwait", "fgadd"}
    BY <1>6, Zenon DEF RTest
  <2> QED
    BY <1>3, <2>1, <2>2, <2>3, LoopKeeps
<1>7. CASE RCall
  <2>1. TypeOK'
    BY <1>2, <1>7 DEF Inv, TypeOK, RCall, osvars, rvars, Inside
  <2>2. ResumeSound' /\ MenuSound'
    BY <1>2, <1>7 DEF Inv, ResumeSound, MenuSound, RCall, rvars, Looping, Inside
  <2>3. pc \notin {"fgwait", "fgadd"} /\ pc' \notin {"fgwait", "fgadd"}
    BY <1>7, Zenon DEF RCall
  <2> QED
    BY <1>3, <2>1, <2>2, <2>3, LoopKeeps
<1>8. CASE RIntr
  <2>1. TypeOK'
    BY <1>8 DEF Inv, TypeOK, RIntr, osvars
  <2>2. ResumeSound' /\ MenuSound'
    BY <1>2, <1>8, Zenon DEF Inv, ResumeSound, MenuSound, RIntr, Looping, Inside
  <2>3. pc \notin {"fgwait", "fgadd"} /\ pc' \notin {"fgwait", "fgadd"}
    BY <1>8, Zenon DEF RIntr
  <2> QED
    BY <1>3, <2>1, <2>2, <2>3, LoopKeeps
<1> QED
  BY <1>4, <1>5, <1>6, <1>7, <1>8, Zenon

LEMMA AlarmKeeps ==
  ASSUME Inv, UNCHANGED menu, sigalrm_handler
  PROVE  Inv'
<1>1. UNCHANGED <<osvars, jobs, fg>>
  BY Zenon DEF sigalrm_handler
<1>2. TypeOK'
  BY DEF Inv, TypeOK, sigalrm_handler, osvars
<1>3. ResumeSound' /\ MenuSound'
  BY Zenon DEF Inv, ResumeSound, MenuSound, sigalrm_handler, Looping, Inside
<1>4. \/ pc \notin {"fgwait", "fgadd"} /\ pc' \notin {"fgwait", "fgadd"}
      \/ UNCHANGED <<pc, i, stopped>>
  BY Zenon DEF sigalrm_handler
<1> QED
  BY <1>1, <1>2, <1>3, <1>4, LoopKeeps, Zenon

(* The steps of resume that set alive: a child that is not collected is     *)
(* never marked as gone.                                                    *)
LEMMA SetKeeps ==
  ASSUME Inv, UNCHANGED menu, Marked \/ RSet
  PROVE  Inv'
<1>1. pc \in Inside /\ pc \in Looping
  BY Zenon DEF Marked, RSet, Inside, Looping
<1>2. /\ job \in DOMAIN jobs /\ i \in DOMAIN jobs[job].pids /\ menu # {"bg"}
      /\ i \in 1..(Len(jobs[job].pids) + 1) /\ i <= Len(jobs[job].pids)
      /\ i + 1 \in 1..(Len(jobs[job].pids) + 1) /\ i + 1 \in 0..(MaxStages + 1)
  BY <1>1, LoopFacts, Zenon DEF Inv, ResumeSound
<1>3. /\ SetAlive(i, 1) /\ os' = os /\ ev' = ev /\ fg' = fg /\ job' = job /\ stopped' = stopped
      /\ menu' = menu /\ pc \notin {"fgwait", "fgadd"}
      /\ \/ pc = "marked" /\ pc' = "mark" /\ i' = i + 1
         \/ pc = "rset" /\ pc' = "rcall" /\ i' = i
  BY DEF Marked, RSet, osvars, rvars
<1>4. /\ jobs' \in Seq(JobSet) /\ DOMAIN jobs' = DOMAIN jobs /\ Len(jobs') = Len(jobs)
      /\ \A j \in DOMAIN jobs : jobs'[j].pids = jobs[j].pids
      /\ \A j \in DOMAIN jobs : \A l \in DOMAIN jobs[j].pids :
           jobs'[j].alive[l] = IF j = job /\ l = i THEN 1 ELSE jobs[j].alive[l]
  <2>1. 1 \in 0..2 /\ TypeOK
    BY DEF Inv
  <2> QED
    BY <1>2, <1>3, <2>1, SetAliveFacts DEF SamePids
<1>5. TypeOK'
  BY <1>2, <1>3, <1>4, Zenon DEF Inv, TypeOK, Marked, RSet, osvars, rvars
<1>6. ForkedInOrder' /\ Started' = Started
  BY <1>3, StartedSame, Zenon DEF Inv
<1>7. ChangeIsLast'
  BY <1>3, Zenon DEF Inv, ChangeIsLast
<1>8. OnlyForked'
  BY <1>3, <1>4 DEF Inv, OnlyForked
<1>9. ForegroundSound'
  BY <1>3, Zenon DEF Inv, ForegroundSound
<1>10. ResumeSound'
  BY <1>2, <1>3, <1>4, Zenon DEF ResumeSound, Looping, Inside
<1>11. MenuSound' /\ BackgroundTrue'
  BY <1>2, <1>3, Zenon DEF Inv, MenuSound, BackgroundTrue
<1>12. ExitedIsGone'
  BY <1>3, <1>4 DEF Inv, ExitedIsGone
<1>13. JobsBounded'
  BY <1>3, <1>4, <1>6, Zenon DEF Inv, JobsBounded, Pending
<1> QED
  BY <1>5, <1>6, <1>7, <1>8, <1>9, <1>10, <1>11, <1>12, <1>13 DEF Inv

LEMMA RWaitKeeps ==
  ASSUME Inv, UNCHANGED menu, RWait
  PROVE  Inv'
<1>1. pc = "rwait" /\ pc' = "rtest" /\ pc \in Inside /\ pc \in Looping
  BY Zenon DEF RWait, Inside, Looping
<1>2. /\ job \in DOMAIN jobs /\ i \in DOMAIN jobs[job].pids /\ menu # {"bg"}
      /\ i + 1 \in 1..(Len(jobs[job].pids) + 1) /\ i + 1 \in 0..(MaxStages + 1)
      /\ Target \in Pid
  BY <1>1, LoopFacts, Zenon
<1>3. PICK p \in Pid : p = Target
  BY <1>2, Zenon
<1>4. PICK a \in 0..2 : a = IF ev[p] = "stop" THEN 2 ELSE 0
  OBVIOUS
<1>5. /\ SetAlive(i, a) /\ ev[p] \in {"exit", "stop"}
      /\ os' = Reported(p, os) /\ ev' = [ev EXCEPT ![p] = "none"]
      /\ stopped' = (IF ev[p] = "stop" THEN 1 ELSE stopped)
      /\ fg' = fg /\ job' = job /\ menu' = menu /\ i' = i + 1
  BY <1>3, <1>4, Zenon DEF RWait, rvars
<1>6. /\ jobs' \in Seq(JobSet) /\ DOMAIN jobs' = DOMAIN jobs /\ Len(jobs') = Len(jobs)
      /\ \A j \in DOMAIN jobs : jobs'[j].pids = jobs[j].pids
      /\ \A j \in DOMAIN jobs : \A l \in DOMAIN jobs[j].pids :
           jobs'[j].alive[l] = IF j = job /\ l = i THEN a ELSE jobs[j].alive[l]
  BY <1>2, <1>5, SetAliveFacts DEF SamePids, Inv
<1>7. /\ os \in [Pid -> {"none", "running", "stopped", "zombie", "reaped"}]
      /\ ev \in [Pid -> {"none", "exit", "stop", "cont"}]
      /\ ev[p] = "exit" <=> os[p] = "zombie"
      /\ ev[p] = "stop" => os[p] = "stopped"
  BY Zenon DEF Inv, TypeOK, ChangeIsLast
<1>8. \A q \in Pid : /\ os'[q] = IF q = p /\ ev[p] = "exit" THEN "reaped" ELSE os[q]
                     /\ ev'[q] = IF q = p THEN "none" ELSE ev[q]
  BY <1>5, <1>7, Zenon DEF Reported
<1>9. \A q \in Pid : (os'[q] = "none" <=> os[q] = "none") /\ (os[q] = "reaped" => os'[q] = "reaped")
  BY <1>7, <1>8, Zenon
<1>10. \A j \in DOMAIN jobs : \A k \in DOMAIN jobs[j].pids : jobs[j].pids[k] \in Pid
  BY JobShape, Zenon DEF Inv
<1>11. \A k \in DOMAIN fg : fg[k] \in Pid
  BY DEF Inv, TypeOK
<1>12. TypeOK'
  <2>1. /\ os' \in [Pid -> {"none", "running", "stopped", "zombie", "reaped"}]
        /\ ev' \in [Pid -> {"none", "exit", "stop", "cont"}]
    BY <1>5, <1>7, Zenon DEF Reported
  <2>2. stopped' \in 0..1
    BY <1>5 DEF Inv, TypeOK
  <2> QED
    BY <1>1, <1>2, <1>5, <1>6, <2>1, <2>2 DEF Inv, TypeOK, RWait, rvars
<1>13. ForkedInOrder' /\ Started' = Started
  BY <1>9, StartedSame, Zenon DEF Inv
<1>14. ChangeIsLast'
  BY <1>7, <1>8 DEF Inv, ChangeIsLast
<1>15. OnlyForked'
  BY <1>5, <1>6, <1>9, <1>10, <1>11 DEF Inv, OnlyForked
<1>16. ForegroundSound'
  BY <1>1, <1>5, Zenon DEF Inv, ForegroundSound
<1>17. ResumeSound'
  BY <1>1, <1>2, <1>5, <1>6, Zenon DEF ResumeSound, Looping, Inside
<1>18. MenuSound' /\ BackgroundTrue'
  BY <1>1, <1>2, <1>5, Zenon DEF Inv, MenuSound, BackgroundTrue
<1>19. ExitedIsGone'
  <2>1. ASSUME NEW j \in DOMAIN jobs, NEW k \in DOMAIN jobs[j].pids, jobs'[j].alive[k] = 0
        PROVE  os'[jobs[j].pids[k]] = "reaped"
    <3>1. CASE j = job /\ k = i
      <4>1. a = 0 /\ ev[p] = "exit"
        BY <1>4, <1>5, <1>6, <2>1, <3>1
      <4> QED
        BY <1>3, <1>8, <3>1, <4>1, Zenon DEF Target
    <3>2. CASE ~(j = job /\ k = i)
      BY <1>6, <1>9, <1>10, <2>1, <3>2 DEF Inv, ExitedIsGone
    <3> QED
      BY <3>1, <3>2, Zenon
  <2> QED
    BY <1>6, <2>1 DEF ExitedIsGone
<1>20. JobsBounded'
  BY <1>1, <1>6, <1>13, Zenon DEF Inv, JobsBounded, Pending
<1> QED
  BY <1>12, <1>13, <1>14, <1>15, <1>16, <1>17, <1>18, <1>19, <1>20, Zenon DEF Inv

LEMMA ResumeKeeps ==
  ASSUME Inv, UNCHANGED menu, Resume
  PROVE  Inv'
<1>1. CASE \E j \in DOMAIN jobs : ResumeBg(j) \/ \E t \in {"none", "set"} : ResumeFg(j, t)
  BY <1>1, ResumeBeginKeeps, Zenon
<1>2. CASE ResumeEnd \/ Mark \/ RTest \/ RCall \/ RIntr
  BY <1>2, MoveKeeps, Zenon
<1>3. CASE Marked \/ RSet
  BY <1>3, SetKeeps, Zenon
<1> QED
  BY <1>1, <1>2, <1>3, RWaitKeeps, AlarmKeeps, Zenon DEF Resume

(* End of input.                                                            *)
LEMMA EofKeeps ==
  ASSUME Inv, UNCHANGED menu, EofWarn \/ EofExit
  PROVE  Inv'
<1>1. /\ UNCHANGED <<osvars, jobs, fg>> /\ pc = "prompt" /\ pc' \in {"prompt", "exit"}
      /\ UNCHANGED <<i, stopped, rvars>>
  BY Zenon DEF EofWarn, EofExit
<1>2. HupTargets \in SUBSET Pid
  <2>1. \A j \in DOMAIN jobs : \A k \in DOMAIN jobs[j].pids : jobs[j].pids[k] \in Pid
    BY JobShape, Zenon DEF Inv
  <2> QED
    BY <2>1 DEF HupTargets, Range
<1>3. TypeOK'
  <2>1. ctrl_d_count' \in 0..1 /\ hup' \in SUBSET Pid
    BY <1>2 DEF Inv, TypeOK, EofWarn, EofExit
  <2> QED
    BY <1>1, <2>1, Zenon DEF Inv, TypeOK, osvars, rvars
<1>4. ResumeSound' /\ MenuSound'
  BY <1>1, Zenon DEF Inv, ResumeSound, MenuSound, Looping, Inside
<1> QED
  BY <1>1, <1>3, <1>4, LoopKeeps, Zenon

-----------------------------------------------------------------------------
(* fork() and the pids it hands out, which are counted.                     *)
INSTANCE FiniteSetTheorems

LEMMA CountFresh ==
  ASSUME NEW o, NEW n \in 0..MaxPid, \A p \in Pid : o[p] = "none" <=> p > n
  PROVE  MaxPid - Cardinality({p \in Pid : o[p] = "none"}) = n
<1>1. MaxPid \in Int /\ n \in Int /\ n + 1 \in Int
  BY BoundsAssumption
<1> DEFINE S == {p \in Pid : o[p] = "none"}
<1>2. S = (n + 1)..MaxPid
  BY BoundsAssumption DEF Pid
<1> HIDE DEF S
<1>3. Cardinality(S) = IF n + 1 > MaxPid THEN 0 ELSE MaxPid - (n + 1) + 1
  BY <1>1, <1>2, FS_Interval, Zenon
<1>4. MaxPid - Cardinality(S) = n
  BY <1>1, <1>3
<1> QED
  BY <1>4, Zenon DEF S

LEMMA ForkFacts ==
  ASSUME TypeOK, ForkedInOrder, NEW n \in 1..MaxStages, Cardinality(Fresh) >= n, os' = Forked(n)
  PROVE  /\ NewPids(n) \in [1..n -> Pid]
         /\ \A k \in 1..n : os[NewPids(n)[k]] = "none" /\ os'[NewPids(n)[k]] = "running"
         /\ \A k, l \in 1..n : NewPids(n)[k] = NewPids(n)[l] => k = l
         /\ os' \in [Pid -> {"none", "running", "stopped", "zombie", "reaped"}]
         /\ \A p \in Pid : os'[p] = os[p] \/ (os[p] = "none" /\ os'[p] = "running")
         /\ \A p \in Pid : os'[p] = os[p] \/ \E k \in 1..n : NewPids(n)[k] = p
         /\ ForkedInOrder' /\ Started' = Started + n
<1>1. /\ n \in Nat /\ Started \in 0..MaxPid /\ MaxPid \in Nat
      /\ Cardinality(Fresh) = MaxPid - Started
  <2>1. n \in Nat /\ Started \in 0..MaxPid /\ MaxPid \in Nat
    BY BoundsAssumption DEF ForkedInOrder
  <2>2. \A p \in Pid : os[p] = "none" <=> p > Started
    BY Zenon DEF ForkedInOrder
  <2>3. IsFiniteSet(1..MaxPid) /\ Fresh \subseteq 1..MaxPid
    BY <2>1, FS_Interval DEF Fresh, Pid
  <2>4. Cardinality(Fresh) \in Nat
    BY <2>3, FS_Subset, FS_CardinalityType, Zenon
  <2> QED
    BY <2>1, <2>4 DEF Started
<1>2. \A k \in 1..n : NewPids(n)[k] = Started + k
  BY <1>1 DEF NewPids
<1>3. Started + n <= MaxPid
  BY <1>1
<1>4. \A k \in 1..n : Started + k \in Pid
  BY <1>1, <1>3 DEF Pid
<1>5. NewPids(n) \in [1..n -> Pid]
  <2>1. NewPids(n) = [k \in 1..n |-> Started + k]
    BY <1>1 DEF NewPids
  <2> QED
    BY <2>1, <1>4, Zenon
<1>6. Range(NewPids(n)) = {p \in Pid : Started < p /\ p <= Started + n}
  <2>1. ASSUME NEW p \in Pid, Started < p, p <= Started + n
        PROVE  p \in Range(NewPids(n))
    <3>1. p - Started \in 1..n /\ Started + (p - Started) = p
      BY <1>1, <2>1 DEF Pid
    <3>2. NewPids(n)[p - Started] = p /\ DOMAIN NewPids(n) = 1..n
      BY <3>1, <1>2, <1>5, Zenon
    <3> QED
      BY <3>1, <3>2, Zenon DEF Range
  <2>2. ASSUME NEW p \in Range(NewPids(n))
        PROVE  p \in Pid /\ Started < p /\ p <= Started + n
    <3>1. PICK k \in 1..n : p = NewPids(n)[k]
      BY <1>5, <2>2, Zenon DEF Range
    <3> QED
      BY <1>1, <1>2, <1>4, <3>1
  <2> QED
    BY <2>1, <2>2, Zenon
<1>7. \A p \in Pid : os'[p] = IF Started < p /\ p <= Started + n THEN "running" ELSE os[p]
  BY <1>6, Zenon DEF Forked
<1>8. \A p \in Pid : os[p] = "none" <=> p > Started
  BY DEF ForkedInOrder
<1>9. \A k \in 1..n : os[NewPids(n)[k]] = "none" /\ os'[NewPids(n)[k]] = "running"
  BY <1>1, <1>2, <1>3, <1>4, <1>7, <1>8 DEF Pid
<1>10. \A k, l \in 1..n : NewPids(n)[k] = NewPids(n)[l] => k = l
  BY <1>1, <1>2
<1>11. os' \in [Pid -> {"none", "running", "stopped", "zombie", "reaped"}]
  BY Zenon DEF Forked, TypeOK
<1>12. ASSUME NEW p \in Pid
       PROVE  /\ os'[p] = os[p] \/ (os[p] = "none" /\ os'[p] = "running")
              /\ os'[p] = os[p] \/ \E k \in 1..n : NewPids(n)[k] = p
  <2>1. CASE p \in Range(NewPids(n))
    <3>1. \E k \in 1..n : NewPids(n)[k] = p
      BY <1>5, <2>1, Zenon DEF Range
    <3> QED
      BY <3>1, <1>9, Zenon
  <2>2. CASE p \notin Range(NewPids(n))
    <3>1. os'[p] = os[p]
      BY <2>2, Zenon DEF Forked
    <3> QED
      BY <3>1, Zenon
  <2> QED
    BY <2>1, <2>2, Zenon
<1>13. \A p \in Pid : os'[p] = "none" <=> p > Started + n
  BY <1>1, <1>7, <1>8 DEF Pid
<1>14. Started' = Started + n
  <2>1. Started + n \in 0..MaxPid
    BY <1>1, <1>3
  <2>2. MaxPid - Cardinality({p \in Pid : os'[p] = "none"}) = Started + n
    BY <2>1, <1>13, CountFresh, Zenon
  <2> QED
    BY <2>2, Zenon DEF Started, Fresh
<1>15. ForkedInOrder'
  BY <1>1, <1>3, <1>13, <1>14 DEF ForkedInOrder
<1> QED
  BY <1>5, <1>9, <1>10, <1>11, <1>12, <1>14, <1>15, Zenon

(* Launches: new children are nowhere else, and nothing of them has been    *)
(* reported when they are listed.                                           *)
LEMMA LaunchBgKeeps ==
  ASSUME Inv, NEW n \in 1..MaxStages, LaunchBg(n), UNCHANGED menu
  PROVE  Inv'
<1>1. /\ NewPids(n) \in [1..n -> Pid]
      /\ \A k \in 1..n : os[NewPids(n)[k]] = "none" /\ os'[NewPids(n)[k]] = "running"
      /\ os' \in [Pid -> {"none", "running", "stopped", "zombie", "reaped"}]
      /\ \A p \in Pid : os'[p] = os[p] \/ (os[p] = "none" /\ os'[p] = "running")
      /\ ForkedInOrder' /\ Started' = Started + n
  <2>1. TypeOK /\ ForkedInOrder /\ Cardinality(Fresh) >= n /\ os' = Forked(n)
    BY Zenon DEF Inv, LaunchBg
  <2> QED
    BY <2>1, ForkFacts, Zenon
<1>2. /\ jobs' = Listed(Entry(NewPids(n), 1)) /\ pc = "prompt"
      /\ ev' = ev /\ pc' = pc /\ fg' = fg /\ i' = i /\ menu' = menu
  BY Zenon DEF LaunchBg
<1>3. /\ jobs' \in Seq(JobSet) /\ Len(jobs') <= MAX_JOBS
      /\ Len(jobs') <= Len(jobs) + 1
      /\ \A j \in DOMAIN jobs : jobs'[j] = jobs[j]
      /\ \A j \in DOMAIN jobs' \ DOMAIN jobs :
           /\ jobs'[j].pids = NewPids(n)
           /\ \A k \in 1..n : jobs'[j].alive[k] = 1
  <2>1. 1 \in 0..2 /\ TypeOK
    BY DEF Inv
  <2> QED
    BY <1>1, <1>2, <2>1, ListedFacts
<1>4. \A j \in DOMAIN jobs : \A k \in DOMAIN jobs[j].pids :
        jobs[j].pids[k] \in Pid /\ os'[jobs[j].pids[k]] = os[jobs[j].pids[k]]
  BY <1>1, JobShape DEF Inv, OnlyForked
<1>5. TypeOK'
  BY <1>1, <1>2, <1>3 DEF Inv, TypeOK, LaunchBg, rvars
<1>6. ChangeIsLast'
  BY <1>1, <1>2, Zenon DEF Inv, ChangeIsLast
<1>7. OnlyForked' /\ ForegroundSound' /\ ResumeSound' /\ MenuSound'
  <2>1. fg = <<>> /\ DOMAIN fg = {}
    BY <1>2 DEF Inv, ForegroundSound
  <2>2. \A j \in DOMAIN jobs' : \A k \in DOMAIN jobs'[j].pids : os'[jobs'[j].pids[k]] # "none"
    BY <1>1, <1>3, <1>4, SMTT(30) DEF Inv, OnlyForked
  <2> QED
    BY <1>2, <2>1, <2>2, Zenon DEF Inv, OnlyForked, ForegroundSound, ResumeSound, MenuSound, Looping, Inside
<1>8. ExitedIsGone'
  <2>1. ExitedIsGone
    BY Zenon DEF Inv
  <2> SUFFICES ASSUME NEW j \in DOMAIN jobs', NEW k \in DOMAIN jobs'[j].pids, jobs'[j].alive[k] = 0
               PROVE  os'[jobs'[j].pids[k]] = "reaped"
    BY Zenon DEF ExitedIsGone
  <2>2. CASE j \in DOMAIN jobs
    <3>1. jobs'[j] = jobs[j]
      BY <1>3, <2>2, Zenon
    <3>2. os[jobs[j].pids[k]] = "reaped"
      BY <2>1, <2>2, <3>1, Zenon DEF ExitedIsGone
    <3> QED
      BY <1>4, <2>2, <3>1, <3>2, Zenon
  <2>3. CASE j \notin DOMAIN jobs
    <3>1. jobs'[j].pids = NewPids(n) /\ \A l \in 1..n : jobs'[j].alive[l] = 1
      BY <1>3, <2>3, Zenon
    <3>2. k \in 1..n
      BY <1>1, <3>1, Zenon
    <3>3. jobs'[j].alive[k] = 1
      BY <3>1, <3>2, Zenon
    <3> QED
      BY <3>3
  <2> QED
    BY <2>2, <2>3, Zenon
<1>9. BackgroundTrue'
  <2>1. BackgroundTrue
    BY Zenon DEF Inv
  <2> SUFFICES ASSUME menu = {"bg"}, NEW j \in DOMAIN jobs', NEW k \in DOMAIN jobs'[j].pids,
                      ev[jobs'[j].pids[k]] = "none"
               PROVE  Tells(jobs'[j].alive[k], os'[jobs'[j].pids[k]])
    BY <1>2, Zenon DEF BackgroundTrue
  <2>2. CASE j \in DOMAIN jobs
    <3>1. jobs'[j] = jobs[j]
      BY <1>3, <2>2, Zenon
    <3>2. Tells(jobs[j].alive[k], os[jobs[j].pids[k]])
      BY <2>1, <2>2, <3>1, Zenon DEF BackgroundTrue
    <3> QED
      BY <1>4, <2>2, <3>1, <3>2, Zenon
  <2>3. CASE j \notin DOMAIN jobs
    <3>1. jobs'[j].pids = NewPids(n) /\ \A l \in 1..n : jobs'[j].alive[l] = 1
      BY <1>3, <2>3, Zenon
    <3>2. k \in 1..n
      BY <1>1, <3>1, Zenon
    <3>3. jobs'[j].alive[k] = 1 /\ os'[jobs'[j].pids[k]] = "running"
      BY <1>1, <3>1, <3>2, Zenon
    <3> QED
      BY <3>3 DEF Tells
  <2> QED
    BY <2>2, <2>3, Zenon
<1>10. JobsBounded'
  <2>1. Len(jobs) \in Nat /\ Len(jobs') \in Nat /\ n \in Nat /\ n >= 1 /\ Started \in Nat
    BY <1>3, BoundsAssumption DEF Inv, TypeOK, ForkedInOrder
  <2> QED
    BY <1>1, <1>2, <1>3, <2>1 DEF Inv, JobsBounded, Pending
<1> QED
  BY <1>1, <1>5, <1>6, <1>7, <1>8, <1>9, <1>10, Zenon DEF Inv

LEMMA LaunchFgKeeps ==
  ASSUME Inv, NEW n \in 1..MaxStages, LaunchFg(n), UNCHANGED menu
  PROVE  Inv'
<1>1. /\ NewPids(n) \in [1..n -> Pid]
      /\ \A k \in 1..n : os[NewPids(n)[k]] = "none" /\ os'[NewPids(n)[k]] = "running"
      /\ \A k, l \in 1..n : NewPids(n)[k] = NewPids(n)[l] => k = l
      /\ os' \in [Pid -> {"none", "running", "stopped", "zombie", "reaped"}]
      /\ \A p \in Pid : os'[p] = os[p] \/ (os[p] = "none" /\ os'[p] = "running")
      /\ ForkedInOrder' /\ Started' = Started + n
  <2>1. TypeOK /\ ForkedInOrder /\ Cardinality(Fresh) >= n /\ os' = Forked(n)
    BY Zenon DEF Inv, LaunchFg
  <2> QED
    BY <2>1, ForkFacts, Zenon
<1>2. /\ "fg" \in menu /\ pc = "prompt" /\ pc' = "fgwait" /\ fg' = NewPids(n) /\ i' = 1
      /\ ev' = ev /\ jobs' = jobs /\ menu' = menu /\ stopped' = 0
  BY Zenon DEF LaunchFg
<1>3. /\ n \in Nat /\ n >= 1 /\ Len(fg') = n /\ DOMAIN fg' = 1..n /\ fg' \in Seq(Pid)
      /\ MaxStages \in Nat
  BY <1>1, <1>2, BoundsAssumption
<1>4. \A j \in DOMAIN jobs : \A k \in DOMAIN jobs[j].pids :
        jobs[j].pids[k] \in Pid /\ os'[jobs[j].pids[k]] = os[jobs[j].pids[k]]
  BY <1>1, JobShape DEF Inv, OnlyForked
<1>5. TypeOK'
  BY <1>1, <1>2, <1>3 DEF Inv, TypeOK, LaunchFg, rvars
<1>6. ChangeIsLast'
  BY <1>1, <1>2, Zenon DEF Inv, ChangeIsLast
<1>7. OnlyForked'
  <2>1. \A k \in DOMAIN fg' : os'[fg'[k]] # "none"
    BY <1>1, <1>2, <1>3, Zenon
  <2> QED
    BY <1>2, <1>4, <2>1 DEF Inv, OnlyForked
<1>8. ForegroundSound'
  BY <1>1, <1>2, <1>3 DEF ForegroundSound
<1>9. ResumeSound' /\ MenuSound'
  <2>1. menu # {"bg"}
    BY <1>2
  <2> QED
    BY <1>2, <2>1, Zenon DEF ResumeSound, MenuSound, Looping, Inside
<1>10. ExitedIsGone'
  BY <1>2, <1>4 DEF Inv, ExitedIsGone
<1>11. BackgroundTrue'
  BY <1>2, Zenon DEF BackgroundTrue
<1>12. JobsBounded'
  <2>1. Len(jobs) \in Nat /\ Started \in Nat
    BY BoundsAssumption DEF Inv, TypeOK, ForkedInOrder
  <2>2. Len(jobs) + Pending <= Started /\ Pending = 0 /\ Pending' = 1
    BY <1>2, Zenon DEF Inv, JobsBounded, Pending
  <2>3. Len(jobs') = Len(jobs) /\ Started' = Started + n /\ n \in Nat /\ n >= 1
    BY <1>1, <1>2, <1>3, Zenon
  <2>4. Len(jobs') + Pending' <= Started'
    BY <2>1, <2>2, <2>3
  <2> QED
    BY <2>4, Zenon DEF JobsBounded
<1> QED
  BY <1>1, <1>5, <1>6, <1>7, <1>8, <1>9, <1>10, <1>11, <1>12, Zenon DEF Inv

-----------------------------------------------------------------------------
LEMMA StepKeeps ==
  ASSUME Inv, [Next]_vars
  PROVE  Inv'
<1>1. CASE UNCHANGED vars
  <2>1. /\ UNCHANGED <<menu, osvars, jobs, fg>> /\ UNCHANGED <<pc, i, stopped>>
    BY <1>1, Zenon DEF vars
  <2>2. TypeOK' /\ ResumeSound' /\ MenuSound'
    BY <1>1, Zenon DEF Inv, TypeOK, ResumeSound, MenuSound, vars, osvars, rvars
  <2> QED
    BY <2>1, <2>2, LoopKeeps, Zenon
<1>2. CASE Act /\ UNCHANGED menu
  <2>1. CASE Gone
    BY <1>1, <2>1 DEF Gone
  <2>2. CASE \E n \in 1..MaxStages : LaunchBg(n) \/ LaunchFg(n)
    BY <1>2, <2>2, LaunchBgKeeps, LaunchFgKeeps, Zenon
  <2> QED
    BY <1>2, <2>1, <2>2, ChildKeeps, HandlerKeeps, FgWaitKeeps, FgDoneKeeps, AddStoppedKeeps,
       ResumeKeeps, EofKeeps, Zenon DEF Act
<1> QED
  BY <1>1, <1>2, Zenon DEF Next

LEMMA InitSound ==
  ASSUME Init
  PROVE  Inv
<1>1. jobs = <<>> /\ DOMAIN jobs = {} /\ Len(jobs) = 0 /\ fg = <<>> /\ DOMAIN fg = {}
  BY DEF Init
<1>2. TypeOK
  BY <1>1, BoundsAssumption DEF Init, TypeOK
<1>3. Started = 0
  <2>1. \A p \in Pid : os[p] = "none" <=> p > 0
    BY BoundsAssumption DEF Init, Pid
  <2>2. 0 \in 0..MaxPid
    BY BoundsAssumption
  <2> QED
    BY <2>1, <2>2, CountFresh, Zenon DEF Started, Fresh
<1>4. ForkedInOrder
  BY <1>3, BoundsAssumption DEF Init, ForkedInOrder, Pid
<1>5. ChangeIsLast /\ OnlyForked /\ ExitedIsGone /\ BackgroundTrue
  BY <1>1, Zenon DEF Init, ChangeIsLast, OnlyForked, ExitedIsGone, BackgroundTrue
<1>6. ForegroundSound /\ ResumeSound /\ MenuSound
  BY <1>1, Zenon DEF Init, ForegroundSound, ResumeSound, MenuSound, Looping, Inside
<1>7. JobsBounded
  BY <1>1, <1>3 DEF Init, JobsBounded, Pending
<1> QED
  BY <1>2, <1>4, <1>5, <1>6, <1>7, Zenon DEF Inv

LEMMA InvStays == Spec => []Inv
  BY InitSound, StepKeeps, PTL DEF Spec

-----------------------------------------------------------------------------
LEMMA InvTableTrue ==
  ASSUME Inv
  PROVE  TableTrue
<1>1. TypeOK /\ ExitedIsGone
  BY Zenon DEF Inv
<1>2. \A j \in DOMAIN jobs : \A k \in DOMAIN jobs[j].pids : jobs[j].pids[k] \in Pid
  BY <1>1, JobShape, Zenon
<1> QED
  BY <1>1, <1>2, Zenon DEF TableTrue, Inv, BackgroundTrue

LEMMA InvNotStuck ==
  ASSUME Inv
  PROVE  NotStuck
<1> SUFFICES ASSUME "resume_fg" \notin menu, NEW p \in Awaited
             PROVE  ev[p] \in {"exit", "stop"} \/ os[p] = "running"
  BY Zenon DEF NotStuck, NeverStuck
<1>1. pc # "rwait"
  BY Zenon DEF Inv, MenuSound
<1>2. pc = "fgwait" /\ i <= Len(fg) /\ p = fg[i]
  BY <1>1, Zenon DEF Awaited
<1>3. i \in DOMAIN fg /\ i >= i
  BY <1>2 DEF Inv, TypeOK, ForegroundSound
<1> QED
  BY <1>2, <1>3, Zenon DEF Inv, ForegroundSound

(* sigchld_handler() and the launches that block SIGCHLD: the table never   *)
(* calls a child gone that is not, it is exact for background jobs once all *)
(* changes are collected, and the wait for a launched command is answered,  *)
(* also when the table is full.                                             *)
THEOREM JobTableStaysTrue == Spec => [](TableTrue /\ NotStuck)
  BY InvStays, InvTableTrue, InvNotStuck, PTL

-----------------------------------------------------------------------------
(* A child leaves the foreground for the table or when it is collected, and *)
(* there is room for its job.                                               *)
LEMMA AccountedStep ==
  ASSUME MaxPid <= MAX_JOBS, Inv, Accounted, [Next]_vars
  PROVE  Accounted'
<1>1. TypeOK /\ \A j \in DOMAIN jobs : DOMAIN jobs[j].pids = 1..Len(jobs[j].pids)
  BY JobShape, Zenon DEF Inv
<1>2. ASSUME fg' = fg, SamePids,
             \A p \in Pid : os'[p] \in {"none", "reaped"} \/ os[p] \notin {"none", "reaped"}
      PROVE  Accounted'
  <2>1. \A p : (InFront(p) => InFront(p)') /\ (InTable(p) => InTable(p)')
    BY <1>2, Zenon DEF InFront, InTable, SamePids
  <2> QED
    BY <1>2, <2>1, Zenon DEF Accounted
<1>3. jobs' = jobs => SamePids
  BY Zenon DEF SamePids
<1>4. /\ os \in [Pid -> {"none", "running", "stopped", "zombie", "reaped"}]
      /\ ev \in [Pid -> {"none", "exit", "stop", "cont"}]
      /\ \A p \in Pid : ev[p] = "exit" <=> os[p] = "zombie"
  BY Zenon DEF Inv, TypeOK, ChangeIsLast
<1>5. ASSUME UNCHANGED <<osvars, jobs, fg>> PROVE Accounted'
  BY <1>2, <1>3, <1>5, Zenon DEF osvars
<1>6. CASE UNCHANGED vars
  BY <1>5, <1>6 DEF vars
<1>7. CASE Child
  BY <1>2, <1>3, <1>4, <1>7 DEF Child, ChildExits, ChildStops, ChildContinues, Change
<1>8. CASE sigchld_handler
  <2>1. SamePids
    BY <1>1, <1>8, HandlerFacts, Zenon
  <2> QED
    BY <1>2, <1>4, <1>8, <2>1, Zenon DEF sigchld_handler
<1>9. ASSUME NEW n \in 1..MaxStages, LaunchBg(n) PROVE Accounted'
  <2>0. PICK ps : ps = NewPids(n)
    BY Zenon
  <2>1. /\ \A p \in Pid : os'[p] = os[p] \/ \E k \in 1..n : ps[k] = p
        /\ Started' = Started + n /\ ps \in [1..n -> Pid] /\ ForkedInOrder'
    <3>1. TypeOK /\ ForkedInOrder /\ Cardinality(Fresh) >= n /\ os' = Forked(n)
      BY <1>9, Zenon DEF Inv, LaunchBg
    <3> QED
      BY <2>0, <3>1, ForkFacts
  <2>2. Len(jobs) < MAX_JOBS
    <3>1. Started + n \in 0..MaxPid
      BY <2>1, Zenon DEF ForkedInOrder
    <3>2. Len(jobs) <= Started /\ Len(jobs) \in Nat /\ Started \in Nat
      BY <1>9, BoundsAssumption DEF Inv, JobsBounded, Pending, ForkedInOrder, TypeOK, LaunchBg
    <3> QED
      BY <3>1, <3>2, BoundsAssumption
  <2>3. /\ DOMAIN jobs \subseteq DOMAIN jobs' /\ \A j \in DOMAIN jobs : jobs'[j] = jobs[j]
        /\ \E j \in DOMAIN jobs' : jobs'[j].pids = ps
    <3>1. 1 \in 0..2 /\ jobs' = Listed(Entry(ps, 1))
      BY <1>9, <2>0 DEF LaunchBg
    <3> QED
      BY <1>1, <2>1, <2>2, <3>1, ListedFacts, Zenon
  <2>4. \A p : (InFront(p) => InFront(p)') /\ (InTable(p) => InTable(p)')
    BY <1>9, <2>3 DEF InFront, InTable, LaunchBg
  <2>5. \A k \in 1..n : InTable(ps[k])'
    <3>1. PICK j \in DOMAIN jobs' : jobs'[j].pids = ps
      BY <2>3, Zenon
    <3> QED
      BY <2>1, <3>1, Zenon DEF InTable
  <2> QED
    BY <2>1, <2>4, <2>5, Zenon DEF Accounted
<1>10. ASSUME NEW n \in 1..MaxStages, LaunchFg(n) PROVE Accounted'
  <2>0. PICK ps : ps = NewPids(n)
    OBVIOUS
  <2>1. /\ \A p \in Pid : os'[p] = os[p] \/ \E k \in 1..n : ps[k] = p
        /\ ps \in [1..n -> Pid]
    <3>1. TypeOK /\ ForkedInOrder /\ Cardinality(Fresh) >= n /\ os' = Forked(n)
      BY <1>10, Zenon DEF Inv, LaunchFg
    <3> QED
      BY <2>0, <3>1, ForkFacts
  <2>2. DOMAIN fg = {} /\ fg' = ps /\ jobs' = jobs
    BY <1>10, <2>0 DEF Inv, ForegroundSound, LaunchFg
  <2>3. \A p : ~InFront(p) /\ (InTable(p) => InTable(p)')
    BY <2>2, Zenon DEF InFront, InTable
  <2>4. \A k \in 1..n : InFront(ps[k])'
    BY <2>1, <2>2, Zenon DEF InFront
  <2> QED
    BY <2>1, <2>3, <2>4, Zenon DEF Accounted
<1>11. CASE FgWait
  <2>1. \A p \in Pid : os'[p] = os[p] \/ os'[p] = "reaped"
    BY <1>4, <1>11, Zenon DEF FgWait, Reported
  <2>2. fg' = fg /\ jobs' = jobs
    BY <1>11 DEF FgWait
  <2> QED
    BY <1>2, <1>3, <2>1, <2>2, Zenon
<1>12. CASE FgDone
  <2>1. CASE stopped = 1
    BY <1>5, <1>12, <2>1, Zenon DEF FgDone
  <2>2. CASE stopped # 1
    <3>1. stopped = 0 /\ pc = "fgwait" /\ i > Len(fg) /\ os' = os /\ jobs' = jobs
      BY <1>12, <2>2 DEF FgDone, osvars, Inv, TypeOK
    <3>2. \A k \in DOMAIN fg : k < i
      BY <3>1 DEF Inv, TypeOK
    <3>3. \A k \in DOMAIN fg : os[fg[k]] = "reaped"
      BY <3>1, <3>2, Zenon DEF Inv, ForegroundSound
    <3>4. \A p \in Pid : os[p] \in {"none", "reaped"} \/ InTable(p)
      BY <3>3, Zenon DEF Accounted, InFront
    <3> QED
      BY <3>1, <3>4, Zenon DEF Accounted, InTable
  <2> QED
    BY <2>1, <2>2, Zenon
<1>13. CASE add_stopped_job
  <2>1. /\ pc = "fgadd" /\ jobs' = Listed(Entry(fg, 2)) /\ os' = os /\ 2 \in 0..2
    BY <1>13 DEF add_stopped_job, osvars
  <2>2. PICK n \in 1..MaxStages : n = Len(fg)
    BY <2>1, Zenon DEF Inv, ForegroundSound
  <2>3. fg \in [1..n -> Pid]
    BY <2>2 DEF Inv, TypeOK
  <2>4. Len(jobs) < MAX_JOBS
    <3>1. Len(jobs) + 1 <= Started /\ Len(jobs) \in Nat /\ Started \in 0..MaxPid
      BY <2>1 DEF Inv, JobsBounded, Pending, ForkedInOrder, TypeOK
    <3> QED
      BY <3>1, BoundsAssumption
  <2>5. /\ DOMAIN jobs \subseteq DOMAIN jobs' /\ \A j \in DOMAIN jobs : jobs'[j] = jobs[j]
        /\ \E j \in DOMAIN jobs' : jobs'[j].pids = fg
    BY <1>1, <2>1, <2>3, <2>4, ListedFacts, Zenon
  <2>6. \A p : InTable(p) => InTable(p)'
    BY <2>5, Zenon DEF InTable
  <2>7. \A p : InFront(p) => InTable(p)'
    BY <2>5, Zenon DEF InFront, InTable
  <2> QED
    BY <2>1, <2>6, <2>7, Zenon DEF Accounted
<1>14. CASE Resume
  <2>1. ASSUME NEW j \in DOMAIN jobs, ResumeBg(j) \/ \E t \in {"none", "set"} : ResumeFg(j, t)
        PROVE  Accounted'
    <3>1. Continue(j) /\ fg' = fg /\ jobs' = jobs
      BY <2>1, Zenon DEF ResumeBg, ResumeFg
    <3>2. \A q \in Pid : \/ os'[q] = os[q] /\ ev'[q] = ev[q]
                         \/ os[q] = "stopped" /\ os'[q] = "running" /\ ev'[q] = "cont"
      BY <3>1, ContinueFacts
    <3> QED
      BY <1>2, <1>3, <3>1, <3>2, Zenon
  <2>2. CASE ResumeEnd \/ Mark \/ RTest \/ RCall \/ RIntr \/ sigalrm_handler
    BY <1>5, <2>2, Zenon DEF ResumeEnd, Mark, RTest, RCall, RIntr, sigalrm_handler
  <2>3. CASE Marked \/ RSet \/ RWait
    <3>1. pc \in Inside /\ pc \in Looping /\ fg' = fg
      BY <2>3, Zenon DEF Marked, RSet, RWait, Inside, Looping
    <3>2. job \in DOMAIN jobs /\ i \in DOMAIN jobs[job].pids
      BY <3>1, LoopFacts, Zenon
    <3>3. PICK a \in 0..2 : SetAlive(i, a)
      BY <2>3 DEF Marked, RSet, RWait
    <3>4. SamePids
      BY <1>1, <3>2, <3>3, SetAliveFacts, Zenon
    <3>5. \A p \in Pid : os'[p] = os[p] \/ os'[p] = "reaped"
      BY <1>4, <2>3, Zenon DEF Marked, RSet, RWait, Reported, osvars
    <3> QED
      BY <1>2, <3>1, <3>4, <3>5, Zenon
  <2> QED
    BY <1>14, <2>1, <2>2, <2>3, Zenon DEF Resume
<1>15. CASE EofWarn \/ EofExit
  BY <1>5, <1>15, Zenon DEF EofWarn, EofExit
<1>16. CASE Gone
  BY <1>6, <1>16, Zenon DEF Gone
<1> QED
  BY <1>6, <1>7, <1>8, <1>9, <1>10, <1>11, <1>12, <1>13, <1>14, <1>15, <1>16 DEF Next, Act

(* At its end the shell sends SIGHUP to every job with a process that is    *)
(* not marked as gone; after that, nobody new comes.                        *)
LEMMA NobodyForgottenStep ==
  ASSUME Inv, Accounted, NobodyForgotten, [Next]_vars
  PROVE  NobodyForgotten'
<1> SUFFICES ASSUME pc' = "exit", NEW p \in Pid, os'[p] \in {"running", "stopped"}
             PROVE  p \in hup'
  BY Zenon DEF NobodyForgotten
<1>1. /\ os \in [Pid -> {"none", "running", "stopped", "zombie", "reaped"}]
      /\ ev \in [Pid -> {"none", "exit", "stop", "cont"}]
  BY Zenon DEF Inv, TypeOK
<1>2. CASE pc = "exit"
  <2>1. hup' = hup /\ os[p] \in {"running", "stopped"}
    <3>1. CASE UNCHANGED vars \/ Gone
      BY <3>1, Zenon DEF vars, osvars, Gone
    <3>2. CASE Child
      BY <1>1, <3>2, Zenon DEF Child, ChildExits, ChildStops, ChildContinues, Change
    <3>3. CASE sigchld_handler
      BY <1>2, <3>3, ZenonT(40) DEF sigchld_handler
    <3>4. CASE Resume
      BY <1>2, <3>4 DEF Resume, ResumeBg, ResumeFg, ResumeEnd, Mark, Marked, RTest, RSet, RCall,
                        RWait, RIntr, sigalrm_handler, osvars
    <3> QED
      BY <1>2, <3>1, <3>2, <3>3, <3>4, Zenon DEF Next, Act, LaunchBg, LaunchFg, FgWait, FgDone,
                                          add_stopped_job, EofWarn, EofExit
  <2> QED
    BY <1>2, <2>1, Zenon DEF NobodyForgotten
<1>3. CASE pc # "exit"
  <2>1. EofExit
    <3>1. ~UNCHANGED vars /\ ~Gone /\ ~Child /\ ~sigchld_handler
      BY <1>3, Zenon DEF vars, Gone, Child, ChildExits, ChildStops, ChildContinues, Change, sigchld_handler
    <3>2. ~Resume
      BY <1>3, Zenon DEF Resume, ResumeBg, ResumeFg, ResumeEnd, Mark, Marked, RTest, RSet, RCall,
                  RWait, RIntr, sigalrm_handler
    <3> QED
      BY <1>3, <3>1, <3>2, Zenon DEF Next, Act, LaunchBg, LaunchFg, FgWait, FgDone, add_stopped_job, EofWarn
  <2>2. os[p] \in {"running", "stopped"} /\ pc = "prompt" /\ hup' = HupTargets
    BY <2>1, Zenon DEF EofExit, osvars
  <2>3. ~InFront(p)
    BY <2>2 DEF Inv, ForegroundSound, InFront
  <2>4. PICK j \in DOMAIN jobs : \E k \in DOMAIN jobs[j].pids : jobs[j].pids[k] = p
    BY <2>2, <2>3, Zenon DEF Accounted, InTable
  <2>5. PICK k \in DOMAIN jobs[j].pids : jobs[j].pids[k] = p
    BY <2>4, Zenon
  <2>6. jobs[j].alive[k] # 0 /\ k \in DOMAIN jobs[j].alive
    BY <2>2, <2>5, JobShape, Zenon DEF Inv, ExitedIsGone
  <2>7. Active(j) /\ p \in Range(jobs[j].pids)
    BY <2>5, <2>6, Zenon DEF Active, Range
  <2> QED
    BY <2>2, <2>7, Zenon DEF HupTargets
<1> QED
  BY <1>2, <1>3, Zenon

(* The shell's job control as a whole, for a shell that starts no more      *)
(* children than its table has room for: a job that finds the table full    *)
(* is not listed, and is not sent SIGHUP when the shell leaves.             *)
THEOREM JobsStaySound ==
  ASSUME MaxPid <= MAX_JOBS
  PROVE  Spec => []JobsSound
<1>1. Init => Accounted /\ NobodyForgotten
  BY Zenon DEF Init, Accounted, NobodyForgotten
<1>2. Inv /\ Accounted /\ NobodyForgotten /\ [Next]_vars => Accounted' /\ NobodyForgotten'
  BY AccountedStep, NobodyForgottenStep, Zenon
<1>3. Spec => [](Accounted /\ NobodyForgotten)
  BY <1>1, <1>2, InvStays, PTL DEF Spec
<1>4. Inv /\ Accounted /\ NobodyForgotten => JobsSound
  BY InvTableTrue, InvNotStuck, Zenon DEF JobsSound
<1> QED
  BY <1>3, <1>4, InvStays, PTL
=============================================================================
