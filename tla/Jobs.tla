-------------------------------- MODULE Jobs --------------------------------
(***************************************************************************)
(* Job control in the shell (c-shell/src/main.c, with the waiting parts of *)
(* exec_calls.c and pipe.c): the job table, background and foreground      *)
(* launches, resume, end of input, and the SIGCHLD handler, which runs     *)
(* between any two steps of the shell while SIGCHLD is not blocked.        *)
(*                                                                         *)
(* The operating system is external: a child runs, stops, continues and    *)
(* exits, and holds the last of these changes until waitpid() reports it.  *)
(* A pipeline is its stages; pids are not used twice.                      *)
(***************************************************************************)
EXTENDS Integers, Sequences, Functions, FiniteSets

CONSTANTS
  MaxPid,      \* bound: children in a behaviour
  MaxStages,   \* bound: commands of a pipeline
  MaxStops,    \* bound: times children stop
  MAX_JOBS,
  Menus        \* sets of commands: "bg", "fg", "resume_bg", "resume_fg"

ASSUME BoundsAssumption ==
  /\ MaxPid \in Nat /\ MaxStages \in Nat \ {0} /\ MaxStops \in Nat
  /\ MAX_JOBS \in Nat \ {0}

Pid == 1..MaxPid

VARIABLES
  menu,      \* the commands the user gives in this behaviour
  os,        \* what the operating system knows of each child
  ev,        \* the change waitpid() has not reported yet
  stops,     \* how often children have stopped
  chld,      \* 1: SIGCHLD is pending
  jobs,      \* jobs[0 .. job_count-1]: the pids, and alive of each
  pc,        \* where the shell is
  fg,        \* the pids of the foreground command
  i,         \* the index of its loops
  job,       \* job_idx of execute_resume()
  stopped,   \* 1: a process it waited for has stopped
  timer,     \* resume's alarm: "none" without --timeout, "set", "fired"
  timeout_occurred,
  ctrl_d_count,
  hup        \* the children SIGHUP was sent to

osvars == <<os, ev, stops, chld>>
rvars == <<job, timer, timeout_occurred>>
vars == <<menu, osvars, jobs, pc, fg, i, stopped, rvars, ctrl_d_count, hup>>

JobSet == UNION {[pids : [1..n -> Pid], alive : [1..n -> 0..2]] : n \in 1..MaxStages}

(* "fgwait": in execute_external() or execute_pipeline(), SIGCHLD blocked;  *)
(* "fgadd": before add_stopped_job(); "mark", "marked": in the loop of      *)
(* resume bg, before and after its test; "rtest", "rset": in the loop of    *)
(* resume fg, before and after its test; "rcall", "rwait": before and in    *)
(* waitpid(); "rintr": it has returned EINTR; "exit": the shell has left.   *)
TypeOK ==
  /\ menu \in Menus
  /\ os \in [Pid -> {"none", "running", "stopped", "zombie", "reaped"}]
  /\ ev \in [Pid -> {"none", "exit", "stop", "cont"}]
  /\ stops \in 0..MaxStops
  /\ chld \in 0..1 /\ stopped \in 0..1 /\ timeout_occurred \in 0..1
  /\ ctrl_d_count \in 0..1
  /\ jobs \in Seq(JobSet) /\ Len(jobs) <= MAX_JOBS
  /\ pc \in {"prompt", "fgwait", "fgadd", "mark", "marked", "rtest", "rset", "rcall",
             "rwait", "rintr", "exit"}
  /\ fg \in Seq(Pid) /\ i \in 0..(MaxStages + 1)
  /\ job \in 0..MAX_JOBS
  /\ timer \in {"none", "set", "fired"}
  /\ hup \in SUBSET Pid

Init ==
  /\ menu \in Menus
  /\ os = [p \in Pid |-> "none"] /\ ev = [p \in Pid |-> "none"]
  /\ stops = 0 /\ chld = 0
  /\ jobs = <<>>
  /\ pc = "prompt" /\ fg = <<>> /\ i = 0
  /\ job = 0 /\ stopped = 0 /\ timer = "none" /\ timeout_occurred = 0
  /\ ctrl_d_count = 0 /\ hup = {}

-----------------------------------------------------------------------------
(* The operating system: a child changes state, its parent gets SIGCHLD.    *)
Change(p, o, e) ==
  /\ os' = [os EXCEPT ![p] = o]
  /\ ev' = [ev EXCEPT ![p] = e]
  /\ chld' = 1
  /\ UNCHANGED <<jobs, pc, fg, i, stopped, rvars, ctrl_d_count, hup>>

ChildExits(p) == os[p] \in {"running", "stopped"} /\ Change(p, "zombie", "exit") /\ UNCHANGED stops
ChildStops(p) ==
  os[p] = "running" /\ stops < MaxStops /\ Change(p, "stopped", "stop") /\ stops' = stops + 1
ChildContinues(p) == os[p] = "stopped" /\ Change(p, "running", "cont") /\ UNCHANGED stops

(* waitpid() reports p's change.                                            *)
Reported(p, o) == IF ev[p] = "exit" THEN [o EXCEPT ![p] = "reaped"] ELSE o

-----------------------------------------------------------------------------
(* sigchld_handler(): alive of a process of the table after its change.     *)
NewAlive(p, a) ==
  CASE ev[p] = "exit" -> 0
    [] ev[p] = "stop" -> 2
    [] ev[p] = "cont" -> 1
    [] OTHER -> a

(* SIGCHLD is blocked while the shell waits for a foreground command.       *)
Blocked == pc = "fgwait"

(* sigchld_handler(): all changes are collected; those of children that are *)
(* in no job are dropped.                                                   *)
sigchld_handler ==
  /\ chld = 1 /\ ~Blocked /\ pc # "exit"
  /\ chld' = 0
  /\ jobs' = [j \in DOMAIN jobs |->
                [jobs[j] EXCEPT !.alive = [k \in DOMAIN @ |-> NewAlive(jobs[j].pids[k], @[k])]]]
  /\ os' = [p \in Pid |-> IF ev[p] = "exit" THEN "reaped" ELSE os[p]]
  /\ ev' = [p \in Pid |-> "none"]
  /\ pc' = IF pc = "rwait" THEN "rintr" ELSE pc
  /\ UNCHANGED <<stops, fg, i, stopped, rvars, ctrl_d_count, hup>>

-----------------------------------------------------------------------------
(* The children fork() makes for n commands.                                *)
Fresh == {p \in Pid : os[p] = "none"}
NewPids(n) == [k \in 1..n |-> MaxPid - Cardinality(Fresh) + k]
Forked(n) == [p \in Pid |-> IF p \in Range(NewPids(n)) THEN "running" ELSE os[p]]

Entry(pids, a) == [pids |-> pids, alive |-> [k \in 1..Len(pids) |-> a]]

(* The table with a job added, if there is room.                            *)
Listed(e) == IF Len(jobs) < MAX_JOBS THEN Append(jobs, e) ELSE jobs

(* Wrong: the children are forked before SIGCHLD is blocked: one may exit   *)
(* and be collected before it is in the table.                              *)
LaunchBgUnblocked(n) ==
  /\ pc = "prompt" /\ "bg" \in menu
  /\ Cardinality(Fresh) >= n
  /\ \E dead \in {{}, {NewPids(n)[1]}} :
       os' = [p \in Pid |-> IF p \in dead THEN "reaped" ELSE Forked(n)[p]]
  /\ jobs' = Listed(Entry(NewPids(n), 1))
  /\ ctrl_d_count' = 0
  /\ UNCHANGED <<ev, stops, chld, pc, fg, i, stopped, rvars, hup>>

(* launch_background_single(), execute_pipeline_bg(): SIGCHLD is blocked    *)
(* from before fork() until the job is in the table.                        *)
LaunchBg(n) ==
  /\ pc = "prompt" /\ "bg" \in menu
  /\ Cardinality(Fresh) >= n
  /\ os' = Forked(n)
  /\ jobs' = Listed(Entry(NewPids(n), 1))
  /\ ctrl_d_count' = 0
  /\ UNCHANGED <<ev, stops, chld, pc, fg, i, stopped, rvars, hup>>

(* execute_external(), execute_pipeline(): block SIGCHLD, fork.             *)
LaunchFg(n) ==
  /\ pc = "prompt" /\ "fg" \in menu
  /\ Cardinality(Fresh) >= n
  /\ os' = Forked(n)
  /\ fg' = NewPids(n) /\ i' = 1 /\ stopped' = 0
  /\ pc' = "fgwait"
  /\ ctrl_d_count' = 0
  /\ UNCHANGED <<ev, stops, chld, jobs, rvars, hup>>

(* execute_pipeline(): waitpid(pids[i], &status, WUNTRACED).                *)
FgWait ==
  /\ pc = "fgwait" /\ i <= Len(fg)
  /\ ev[fg[i]] \in {"exit", "stop"}
  /\ os' = Reported(fg[i], os)
  /\ ev' = [ev EXCEPT ![fg[i]] = "none"]
  /\ stopped' = IF ev[fg[i]] = "stop" THEN 1 ELSE stopped
  /\ i' = i + 1
  /\ UNCHANGED <<stops, chld, jobs, pc, fg, rvars, ctrl_d_count, hup>>

(* After the last waitpid(): SIGCHLD is let through again.                  *)
FgDone ==
  /\ pc = "fgwait" /\ i > Len(fg)
  /\ pc' = IF stopped = 1 THEN "fgadd" ELSE "prompt"
  /\ fg' = IF stopped = 1 THEN fg ELSE <<>>
  /\ i' = 0 /\ stopped' = 0
  /\ UNCHANGED <<osvars, jobs, rvars, ctrl_d_count, hup>>

(* add_stopped_job().                                                       *)
add_stopped_job ==
  /\ pc = "fgadd"
  /\ jobs' = Listed(Entry(fg, 2))
  /\ fg' = <<>>
  /\ pc' = "prompt"
  /\ UNCHANGED <<osvars, i, stopped, rvars, ctrl_d_count, hup>>

-----------------------------------------------------------------------------
Active(j) == \E k \in DOMAIN jobs[j].alive : jobs[j].alive[k] # 0
SetAlive(k, a) == jobs' = [jobs EXCEPT ![job].alive[k] = a]
Target == jobs[job].pids[i]

(* kill(-pgid, SIGCONT): the stopped processes of the job continue.         *)
Continue(j) ==
  LET woken == {p \in Range(jobs[j].pids) : os[p] = "stopped"} IN
    /\ os' = [p \in Pid |-> IF p \in woken THEN "running" ELSE os[p]]
    /\ ev' = [p \in Pid |-> IF p \in woken THEN "cont" ELSE ev[p]]
    /\ chld' = IF woken = {} THEN chld ELSE 1
    /\ UNCHANGED stops

(* execute_resume(): the job is found and continued.                        *)
ResumeBg(j) ==
  /\ pc = "prompt" /\ "resume_bg" \in menu
  /\ Active(j) /\ Continue(j)
  /\ job' = j /\ i' = 1
  /\ pc' = "mark"
  /\ ctrl_d_count' = 0
  /\ UNCHANGED <<jobs, fg, stopped, timer, timeout_occurred, hup>>

ResumeFg(j, t) ==
  /\ pc = "prompt" /\ "resume_fg" \in menu
  /\ Active(j) /\ Continue(j)
  /\ job' = j /\ i' = 1 /\ stopped' = 0
  /\ timer' = t
  /\ timeout_occurred' = IF t = "set" THEN 0 ELSE timeout_occurred
  /\ pc' = "rtest"
  /\ ctrl_d_count' = 0
  /\ UNCHANGED <<jobs, fg, hup>>

(* The loops of execute_resume() end.                                       *)
ResumeEnd ==
  /\ pc \in {"mark", "rtest"} /\ i > Len(jobs[job].pids)
  /\ pc' = "prompt"
  /\ i' = 0 /\ job' = 0 /\ stopped' = 0 /\ timer' = "none"
  /\ UNCHANGED <<osvars, jobs, fg, timeout_occurred, ctrl_d_count, hup>>

(* resume bg: if (alive == 2) ...                                           *)
Mark ==
  /\ pc = "mark" /\ i <= Len(jobs[job].pids)
  /\ IF jobs[job].alive[i] = 2 THEN pc' = "marked" /\ UNCHANGED i
     ELSE i' = i + 1 /\ UNCHANGED pc
  /\ UNCHANGED <<osvars, jobs, fg, stopped, rvars, ctrl_d_count, hup>>

(* ... alive = 1.                                                           *)
Marked ==
  /\ pc = "marked"
  /\ SetAlive(i, 1)
  /\ i' = i + 1 /\ pc' = "mark"
  /\ UNCHANGED <<osvars, fg, stopped, rvars, ctrl_d_count, hup>>

(* resume fg: if (alive) ...                                                *)
RTest ==
  /\ pc = "rtest" /\ i <= Len(jobs[job].pids)
  /\ IF jobs[job].alive[i] # 0 THEN pc' = "rset" /\ UNCHANGED i
     ELSE i' = i + 1 /\ UNCHANGED pc
  /\ UNCHANGED <<osvars, jobs, fg, stopped, rvars, ctrl_d_count, hup>>

(* ... alive = 1.                                                           *)
RSet ==
  /\ pc = "rset"
  /\ SetAlive(i, 1)
  /\ pc' = "rcall"
  /\ UNCHANGED <<osvars, fg, i, stopped, rvars, ctrl_d_count, hup>>

(* resume fg: waitpid() is called; there may be no such child any more.     *)
RCall ==
  /\ pc = "rcall"
  /\ IF os[Target] = "reaped" THEN pc' = "rtest" /\ i' = i + 1
     ELSE pc' = "rwait" /\ UNCHANGED i
  /\ UNCHANGED <<osvars, jobs, fg, stopped, rvars, ctrl_d_count, hup>>

(* resume fg: waitpid() returns the process.                                *)
RWait ==
  /\ pc = "rwait" /\ ev[Target] \in {"exit", "stop"}
  /\ SetAlive(i, IF ev[Target] = "stop" THEN 2 ELSE 0)
  /\ stopped' = IF ev[Target] = "stop" THEN 1 ELSE stopped
  /\ os' = Reported(Target, os)
  /\ ev' = [ev EXCEPT ![Target] = "none"]
  /\ i' = i + 1 /\ pc' = "rtest"
  /\ UNCHANGED <<stops, chld, fg, rvars, ctrl_d_count, hup>>

(* sigalrm_handler().                                                       *)
sigalrm_handler ==
  /\ timer = "set"
  /\ timer' = "fired" /\ timeout_occurred' = 1
  /\ pc' = IF pc = "rwait" THEN "rintr" ELSE pc
  /\ UNCHANGED <<osvars, jobs, fg, i, job, stopped, ctrl_d_count, hup>>

(* resume fg: waitpid() was interrupted; after a timeout the job is sent    *)
(* SIGTERM, which its processes may die of (ChildExits).                    *)
RIntr ==
  /\ pc = "rintr"
  /\ timeout_occurred' = IF timer # "none" THEN 0 ELSE timeout_occurred
  /\ pc' = "rcall"
  /\ UNCHANGED <<osvars, jobs, fg, i, job, stopped, timer, ctrl_d_count, hup>>

-----------------------------------------------------------------------------
HasStopped == \E j \in DOMAIN jobs : \E k \in DOMAIN jobs[j].alive : jobs[j].alive[k] = 2

(* main(), end of input: a warning the first time there are stopped jobs.   *)
EofWarn ==
  /\ pc = "prompt"
  /\ HasStopped /\ ctrl_d_count = 0
  /\ ctrl_d_count' = ctrl_d_count + 1
  /\ UNCHANGED <<osvars, jobs, pc, fg, i, stopped, rvars, hup>>

(* main(), end of input: the process groups that get SIGHUP.                *)
HupTargets == UNION {Range(jobs[j].pids) : j \in {k \in DOMAIN jobs : Active(k)}}

(* main(), end of input: the shell hangs up on its jobs and leaves.         *)
EofExit ==
  /\ pc = "prompt"
  /\ ~HasStopped \/ ctrl_d_count > 0
  /\ hup' = HupTargets
  /\ pc' = "exit"
  /\ UNCHANGED <<osvars, jobs, fg, i, stopped, rvars, ctrl_d_count>>

Gone == pc = "exit" /\ UNCHANGED vars

Child == \E p \in Pid : ChildExits(p) \/ ChildStops(p) \/ ChildContinues(p)
Resume ==
  \/ \E j \in DOMAIN jobs : ResumeBg(j) \/ \E t \in {"none", "set"} : ResumeFg(j, t)
  \/ ResumeEnd \/ Mark \/ Marked \/ RTest \/ RSet \/ RCall \/ RWait \/ RIntr
  \/ sigalrm_handler

Act ==
  \/ Child \/ sigchld_handler
  \/ \E n \in 1..MaxStages : LaunchBg(n) \/ LaunchFg(n)
  \/ FgWait \/ FgDone \/ add_stopped_job
  \/ Resume
  \/ EofWarn \/ EofExit \/ Gone
Next == Act /\ UNCHANGED menu

Spec == Init /\ [][Next]_vars

-----------------------------------------------------------------------------
(* The table never says that a child has exited while it has not: print_    *)
(* activities(), resume and ping leave out nobody who is there.             *)
ExitedIsGone ==
  \A j \in DOMAIN jobs : \A k \in DOMAIN jobs[j].pids :
    jobs[j].alive[k] = 0 => os[jobs[j].pids[k]] = "reaped"

(* What alive says of a process.                                            *)
Tells(a, o) == <<a, o>> \in {<<0, "reaped">>, <<1, "running">>, <<2, "stopped">>}

(* The table never says that a child has exited while it has not; and when  *)
(* every change has been collected and the shell is at its prompt, the      *)
(* table tells the state of each process of each job.  Blocking SIGCHLD     *)
(* around fork() achieves it for background jobs; a job that is stopped in  *)
(* the foreground or resumed can be listed wrongly.                         *)
TableTrue ==
  /\ TypeOK /\ ExitedIsGone
  /\ menu = {"bg"} /\ pc = "prompt" /\ (\A p \in Pid : ev[p] = "none") =>
       \A j \in DOMAIN jobs : \A k \in DOMAIN jobs[j].pids :
         Tells(jobs[j].alive[k], os[jobs[j].pids[k]])

(* The shell is not left waiting in waitpid() for a child that has nothing  *)
(* to report and is not running: no change of a child it waits for is taken *)
(* by the SIGCHLD handler.  It holds for launches, which block SIGCHLD.     *)
Awaited == IF pc = "fgwait" /\ i <= Len(fg) THEN {fg[i]}
           ELSE IF pc = "rwait" THEN {Target} ELSE {}
NeverStuck ==
  \A p \in Awaited :
    ev[p] \in {"exit", "stop"} \/ os[p] = "running"
NotStuck == "resume_fg" \notin menu => NeverStuck

(* When the shell leaves, every child that is still there was in an active  *)
(* job and is sent SIGHUP.                                                  *)
NobodyForgotten ==
  pc = "exit" => \A p \in Pid : os[p] \in {"running", "stopped"} => p \in hup

(* Nobody is forgotten at exit, the table tells the truth about background  *)
(* jobs, and a launched foreground command never leaves the shell waiting   *)
(* without an answer.                                                       *)
JobsSound == NobodyForgotten /\ TableTrue /\ NotStuck
=============================================================================
