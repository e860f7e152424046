---------------------------------- MODULE Sh ----------------------------------
(***************************************************************************)
(* The xv6 user shell running its commands (main and runcmd of user/sh.c): *)
(* a line read at the prompt is parsed (ShParse) and run by a tree of      *)
(* processes, each with its own descriptors.  A process is at a place in   *)
(* main or runcmd with the command it runs; fork1, pipe, open and exec may *)
(* fail, a bounded number of times.  A program reads its standard input to *)
(* the end before it exits, unless it exits early.  fork, wait, exit,      *)
(* pipe, dup, open and close are the system calls as sh.c uses them; init, *)
(* which inherits and reaps orphans, is not shown.                         *)
(***************************************************************************)
EXTENDS Integers, Sequences, FiniteSets, FiniteSetsExt, SequencesExt

CONSTANTS
  Commands,       \* the lines that may be typed: what parsecmd makes of each
  MaxLines,       \* lines read before the end of the input
  MaxFailures     \* system calls that fail

VARIABLES
  ps,             \* the processes that exist, by pid: parent, place, command,
                  \* descriptors, its copies of main's buf and runcmd's p, the
                  \* number of the line in buf
  dir,            \* the current directory of the shell: number of cd done
  read,           \* lines read so far
  failures        \* calls that failed so far

vars == <<ps, dir, read, failures>>

Panic == [type |-> "panic"]
Shell == 0
InitProc == -1

Closed == <<"closed">>
Console == <<"console">>
ReadEnd(p) == <<"read end", p>>
WriteEnd(p) == <<"write end", p>>

Children(p) == {c \in DOMAIN ps : ps[c].parent = p}
IsPipe(f) == f[1] \in {"read end", "write end"}
PipesOf(q) == {f[2] : f \in {g \in Range(ps[q].fds) : IsPipe(g)}}
Fresh == 1 + Max(DOMAIN ps \cup UNION {PipesOf(q) : q \in DOMAIN ps})

\* A call that may fail.
Fails == failures < MaxFailures /\ failures' = failures + 1
Works == UNCHANGED failures

\* The lowest descriptor that is not open.
Lowest(fds) == Min({d \in DOMAIN fds : fds[d] = Closed})
open(fds, file) == [fds EXCEPT ![Lowest(fds)] = file]
close(fds, d) == [fds EXCEPT ![d] = Closed]
dup(fds, d) == open(fds, fds[d])

Init ==
  /\ ps = (Shell :> [parent |-> InitProc, at |-> "prompt", cmd |-> Panic, buf |-> <<>>, nr |-> 0, p |-> <<>>,
                     fds |-> [d \in 0 .. 4 |-> IF d < 3 THEN Console ELSE Closed]])
  /\ dir = 0 /\ read = 0 /\ failures = 0

Is(p, label) == p \in DOMAIN ps /\ ps[p].at = label

Goto(p, label) == ps' = [ps EXCEPT ![p].at = label]

\* Fork a child that starts at label; the parent continues at its own.
Fork(p, label, child, cmd) ==
  ps' = [ps EXCEPT ![p].at = label]
          @@ (Fresh :> [ps[p] EXCEPT !.parent = p, !.at = child, !.cmd = cmd])

\* exit(): the children pass to init, which reaps those that have exited;
\* the process stays until its parent, if that is not init, waits for it.
Exit(p) ==
  LET gone == {c \in Children(p) : ps[c].at = "zombie"}
                \cup (IF ps[p].parent = InitProc THEN {p} ELSE {})
  IN ps' = [c \in DOMAIN ps \ gone |->
              IF c = p THEN [ps[p] EXCEPT !.at = "zombie", !.cmd = Panic,
                                          !.buf = <<>>, !.p = <<>>,
                                          !.fds = [d \in DOMAIN @ |-> Closed]]
              ELSE IF c \in Children(p) THEN [ps[c] EXCEPT !.parent = InitProc]
              ELSE ps[c]]

\* wait(0): reap a child that has exited, or return at once without any.
Wait(p, label) ==
  \/ \E c \in Children(p) :
       /\ ps[c].at = "zombie"
       /\ ps' = [d \in DOMAIN ps \ {c} |->
                   IF d = p THEN [ps[p] EXCEPT !.at = label] ELSE ps[d]]
  \/ Children(p) = {} /\ Goto(p, label)

----------------------------------------------------------------------------
\* main

CdLine == <<"c", "d", " ">>    \* any line that starts with "cd "

\* getcmd() and what main does with the line before it forks; chdir may fail.
getcmd ==
  /\ Is(Shell, "prompt") /\ read < MaxLines /\ read' = read + 1
  /\ UNCHANGED failures
  /\ \E text \in DOMAIN Commands :
       IF text = CdLine
       THEN UNCHANGED ps /\ dir' \in {dir, dir + 1}
       ELSE /\ ps' = [ps EXCEPT ![Shell].at = "fork", ![Shell].buf = text, ![Shell].nr = @ + 1]
            /\ UNCHANGED dir

EndOfInput ==
  /\ Is(Shell, "prompt")
  /\ Exit(Shell) /\ UNCHANGED <<dir, read, failures>>

MainFork ==
  /\ Is(Shell, "fork") /\ UNCHANGED <<dir, read>>
  /\ \/ Works /\ Fork(Shell, "wait", "parse", Panic)
     \/ Fails /\ Exit(Shell)

MainWait ==
  /\ Is(Shell, "wait") /\ Wait(Shell, "prompt")
  /\ UNCHANGED <<dir, read, failures>>

Parse(p) ==
  /\ Is(p, "parse") /\ UNCHANGED <<dir, read, failures>>
  /\ IF Commands[ps[p].buf] = Panic THEN Exit(p)
     ELSE ps' = [ps EXCEPT ![p].at = "run", ![p].cmd = Commands[ps[p].buf]]

----------------------------------------------------------------------------
\* runcmd

Runs(p, type) == Is(p, "run") /\ ps[p].cmd.type = type /\ UNCHANGED <<dir, read>>

RunExec(p) ==
  /\ Runs(p, "EXEC")
  /\ \/ ps[p].cmd.argv = <<>> /\ Works /\ Exit(p)
     \/ ps[p].cmd.argv # <<>> /\ Fails /\ Exit(p)
     \/ ps[p].cmd.argv # <<>> /\ Works /\ Goto(p, "program")

RunRedir(p) ==
  LET cmd == ps[p].cmd
      redirected == open(close(ps[p].fds, cmd.fd), <<cmd.mode, cmd.file>>)
  IN /\ Runs(p, "REDIR")
     /\ \/ Fails /\ Exit(p)
        \/ Works /\ ps' = [ps EXCEPT ![p].fds = redirected, ![p].cmd = cmd.cmd]

RunList(p) ==
  /\ Runs(p, "LIST")
  /\ \/ Fails /\ Exit(p)
     \/ Works /\ Fork(p, "list wait", "run", ps[p].cmd.left)

ListWait(p) ==
  /\ Is(p, "list wait") /\ UNCHANGED <<dir, read, failures>>
  /\ Wait(p, "list right")

ListRight(p) ==
  /\ Is(p, "list right") /\ UNCHANGED <<dir, read, failures>>
  /\ ps' = [ps EXCEPT ![p].at = "run", ![p].cmd = ps[p].cmd.right]

RunBack(p) ==
  /\ Runs(p, "BACK")
  /\ \/ Fails /\ Exit(p)
     \/ Works /\ Fork(p, "done", "run", ps[p].cmd.cmd)

\* pipe(p) takes the two lowest free descriptors, the read end first.
RunPipe(p) ==
  LET fds == ps[p].fds
      read0 == open(fds, ReadEnd(p))
  IN /\ Runs(p, "PIPE")
     /\ \/ Fails /\ Exit(p)
        \/ /\ Works
           /\ ps' = [ps EXCEPT ![p].fds = open(read0, WriteEnd(p)), ![p].at = "fork left",
                               ![p].p = <<Lowest(fds), Lowest(read0)>>]

ForkLeft(p) ==
  /\ Is(p, "fork left") /\ UNCHANGED <<dir, read>>
  /\ \/ Fails /\ Exit(p)
     \/ Works /\ Fork(p, "fork right", "left", ps[p].cmd)

ForkRight(p) ==
  /\ Is(p, "fork right") /\ UNCHANGED <<dir, read>>
  /\ \/ Fails /\ Exit(p)
     \/ Works /\ Fork(p, "close", "right", ps[p].cmd)

\* Wrong: the write end stays open.
CloseReadEnd(fds, p) == close(fds, p[1])

\* close(p[0]); close(p[1]);
CloseEnds(fds, p) == close(close(fds, p[1]), p[2])

\* A child of a pipeline puts its end in place of the standard descriptor
\* std and closes both.
Side(p, end, std) ==
  CloseEnds(dup(close(ps[p].fds, std), ps[p].p[end]), ps[p].p)

RunLeft(p) ==
  /\ Is(p, "left") /\ UNCHANGED <<dir, read, failures>>
  /\ ps' = [ps EXCEPT ![p].fds = Side(p, 2, 1), ![p].at = "run", ![p].cmd = ps[p].cmd.left]

RunRight(p) ==
  /\ Is(p, "right") /\ UNCHANGED <<dir, read, failures>>
  /\ ps' = [ps EXCEPT ![p].fds = Side(p, 1, 0), ![p].at = "run", ![p].cmd = ps[p].cmd.right]

\* Wrong: the process that forked both sides waits with the pipe open.
KeepPipe(p) ==
  /\ Is(p, "close") /\ UNCHANGED <<dir, read, failures>>
  /\ Goto(p, "wait 1")

ClosePipe(p) ==
  /\ Is(p, "close") /\ UNCHANGED <<dir, read, failures>>
  /\ ps' = [ps EXCEPT ![p].fds = CloseEnds(@, ps[p].p), ![p].at = "wait 1"]

PipeWait(p) ==
  /\ UNCHANGED <<dir, read, failures>>
  /\ \/ Is(p, "wait 1") /\ Wait(p, "wait 2")
     \/ Is(p, "wait 2") /\ Wait(p, "done")

Done(p) ==
  /\ Is(p, "done") /\ Exit(p)
  /\ UNCHANGED <<dir, read, failures>>

----------------------------------------------------------------------------
\* Programs

\* The standard input is at its end: nobody can write to the pipe any more.
AtEof(p) ==
  IsPipe(ps[p].fds[0]) =>
    \A q \in DOMAIN ps : WriteEnd(ps[p].fds[0][2]) \notin Range(ps[q].fds)

Finish(p) ==
  /\ Is(p, "program") /\ AtEof(p) /\ Exit(p)
  /\ UNCHANGED <<dir, read, failures>>

FinishEarly(p) ==
  /\ Is(p, "program") /\ ~AtEof(p) /\ Exit(p)
  /\ UNCHANGED <<dir, read, failures>>

Child(p) ==
  \/ Parse(p) \/ RunExec(p) \/ RunRedir(p) \/ RunList(p) \/ ListWait(p) \/ ListRight(p)
  \/ RunBack(p) \/ RunPipe(p) \/ ForkLeft(p) \/ ForkRight(p) \/ RunLeft(p) \/ RunRight(p)
  \/ ClosePipe(p) \/ PipeWait(p) \/ Done(p) \/ Finish(p)

\* Nothing is left to do: the shell and all it started are gone.
Quiet == DOMAIN ps = {} /\ UNCHANGED vars

Next ==
  \/ getcmd \/ EndOfInput \/ MainFork \/ MainWait
  \/ \E p \in DOMAIN ps : Child(p) \/ FinishEarly(p)
  \/ Quiet

\* Some process that can run does run; no process runs for ever by itself,
\* so that fairness between them is not needed.
Running == MainFork \/ MainWait \/ \E p \in DOMAIN ps : Child(p)
Fairness == WF_vars(Running)

----------------------------------------------------------------------------
\* Properties

RECURSIVE Leaves(_), Foreground(_), Before(_), Wires(_, _, _)
Leaves(cmd) ==
  CASE cmd.type = "EXEC" -> {cmd.argv}
    [] cmd.type \in {"REDIR", "BACK"} -> Leaves(cmd.cmd)
    [] cmd.type \in {"PIPE", "LIST"} -> Leaves(cmd.left) \cup Leaves(cmd.right)
    [] cmd.type = "panic" -> {}

\* The programs of a command that end before the command does.
Foreground(cmd) ==
  CASE cmd.type = "EXEC" -> {cmd.argv}
    [] cmd.type = "BACK" -> {}
    [] cmd.type = "REDIR" -> Foreground(cmd.cmd)
    [] cmd.type \in {"PIPE", "LIST"} -> Foreground(cmd.left) \cup Foreground(cmd.right)
    [] cmd.type = "panic" -> {}

\* The pairs of programs of which the first ends before the second starts.
Before(cmd) ==
  CASE cmd.type = "EXEC" -> {}
    [] cmd.type \in {"REDIR", "BACK"} -> Before(cmd.cmd)
    [] cmd.type = "PIPE" -> Before(cmd.left) \cup Before(cmd.right)
    [] cmd.type = "LIST" -> Before(cmd.left) \cup Before(cmd.right)
                              \cup (Foreground(cmd.left) \X Leaves(cmd.right))

\* Where standard input and output of each program of a command lead, when
\* those of the command lead to in and out: of several redirections of the
\* same descriptor the one written first, which is the innermost, counts.
Wires(cmd, in, out) ==
  CASE cmd.type = "EXEC" -> {[argv |-> cmd.argv, in |-> in, out |-> out]}
    [] cmd.type = "BACK" -> Wires(cmd.cmd, in, out)
    [] cmd.type = "LIST" -> Wires(cmd.left, in, out) \cup Wires(cmd.right, in, out)
    [] cmd.type = "PIPE" -> Wires(cmd.left, in, <<"write end", cmd>>)
                              \cup Wires(cmd.right, <<"read end", cmd>>, out)
    [] cmd.type = "REDIR" -> IF cmd.fd = 0
                             THEN Wires(cmd.cmd, <<cmd.mode, cmd.file>>, out)
                             ELSE Wires(cmd.cmd, in, <<cmd.mode, cmd.file>>)

\* The descriptor f is what w asks for; which pipe it is, Joined tells.
Fits(f, w) ==
  IF IsPipe(w) THEN f[1] = w[1] ELSE f = w

Programs == {p \in DOMAIN ps : ps[p].at = "program"}
Wire(p) ==
  CHOOSE w \in Wires(Commands[ps[p].buf], Console, Console) : w.argv = ps[p].cmd.argv

(* A program runs with the descriptors its place in the command line asks   *)
(* for, and no other: in particular it holds no pipe end but its own; two   *)
(* programs of a line are on the same pipe exactly when the same bar joins  *)
(* them, and earlier lines still running in the background are on others.   *)
WiredAsWritten ==
  /\ \A p \in Programs :
       /\ Fits(ps[p].fds[0], Wire(p).in) /\ Fits(ps[p].fds[1], Wire(p).out)
       /\ ps[p].fds[2] = Console
       /\ \A d \in DOMAIN ps[p].fds \ 0 .. 2 : ps[p].fds[d] = Closed
  /\ \A p, q \in Programs :
       IsPipe(Wire(p).out) /\ IsPipe(Wire(q).in) =>
         (ps[p].fds[1][2] = ps[q].fds[0][2]
            <=> ps[p].nr = ps[q].nr /\ Wire(p).out[2] = Wire(q).in[2])

\* The programs a process has still to see run.
Pending(p) ==
  LET at == ps[p].at
      cmd == ps[p].cmd
  IN CASE at \in {"run", "fork left", "program"} -> Leaves(cmd)
       [] at = "left" -> Leaves(cmd.left)
       [] at \in {"list wait", "list right", "fork right", "right"} -> Leaves(cmd.right)
       [] at = "parse" -> Leaves(Commands[ps[p].buf])
       [] OTHER -> {}

(* While no call fails, a program starts only after those before the ";" of *)
(* its line have ended, unless a "&" put them in the background, and the    *)
(* prompt comes back only after every foreground program of the line ended. *)
RunsInOrder ==
  failures = 0 =>
    /\ \A p \in Programs, q \in DOMAIN ps : ps[q].nr = ps[p].nr =>
         \A x \in Pending(q) : <<x, ps[p].cmd.argv>> \notin Before(Commands[ps[p].buf])
    /\ Is(Shell, "prompt") => \A q \in DOMAIN ps \ {Shell} :
         \A x \in Pending(q) : x \notin Foreground(Commands[ps[q].buf])

(* The prompt comes back (or the shell is gone because a fork failed):      *)
(* every pipe reader of a line sees the end of its input, every wait of     *)
(* runcmd and main is answered, whatever fails on the way.                  *)
PromptReturns == Is(Shell, "wait") ~> ~Is(Shell, "wait")
==============================================================================
