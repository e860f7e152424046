---------------------------------- MODULE Fds ----------------------------------
(***************************************************************************)
(* The file table and the descriptors of processes: filealloc, filedup and *)
(* fileclose (kernel/file.c), argfd, fdalloc, sys_dup, sys_close, sys_pipe *)
(* and the table's part of sys_open (kernel/sysfile.c), pipealloc          *)
(* (kernel/pipe.c), and the loops of kfork and kexit over the descriptors  *)
(* (kernel/proc.c).  A step is a section under ftable.lock, or what a call *)
(* does to its own process between two of them.  What a file stands for is *)
(* an inode or an end of a pipe; pipealloc, copyout and the inode may fail *)
(* the call.                                                               *)
(***************************************************************************)
EXTENDS Integers, Sequences, FiniteSets

CONSTANTS
  Procs, First,   \* processes; the one that exists at the start
  NFILE,          \* files in the table
  NOFILE          \* descriptors of a process

ASSUME FdsAssumption ==
  IsFiniteSet(Procs) /\ First \in Procs /\ NFILE \in Nat /\ NOFILE \in Nat \ {0}

VARIABLES
  ref, type,      \* of each file of the table
  ofile,          \* the file of each descriptor of each process, 0 for none
  alive,          \* processes that exist
  call,           \* the call each process is in: where, and what it holds
  ends,           \* ends of pipes that are open: <<pipe, "r" or "w">>
  closing         \* the end each process is about to close in fileclose

FdVars == <<ref, type, ofile, alive, call, ends, closing>>

Files == 1 .. NFILE
Fd == 0 .. NOFILE - 1
FD_NONE == <<0, "none">>
FD_INODE == <<0, "inode">>
Ends == Files \X {"r", "w"}

\* A call: where it is, the files it has a reference to and has put in no
\* descriptor, and its locals.
Doing(at, fs) == [at |-> at, fs |-> fs, f |-> 0, fd |-> 0, child |-> First]
Idle == Doing("idle", <<>>)
DoingDup(f, fd) == [Doing("dup", <<>>) EXCEPT !.f = f, !.fd = fd]
DoingFork(c, fd) == [Doing("fork", <<>>) EXCEPT !.child = c, !.fd = fd]

FdInit ==
  /\ ref = [f \in Files |-> 0] /\ type = [f \in Files |-> FD_NONE]
  /\ ofile = [p \in Procs |-> [d \in Fd |-> 0]]
  /\ alive = {First} /\ call = [p \in Procs |-> Idle]
  /\ ends = {} /\ closing = [p \in Procs |-> {}]

At(p, label) == call[p].at = label /\ closing[p] = {}
Enter(p, c) == call' = [call EXCEPT ![p] = c]
Return(p) == Enter(p, Idle)
Ready(p) == p \in alive /\ At(p, "idle")

\* What a loop from the start finds first in S.
Lowest(x, S) == x \in S /\ \A y \in S : x <= y

----------------------------------------------------------------------------
\* The file table

FreeFiles == {f \in Files : ref[f] = 0}

filealloc(f) == Lowest(f, FreeFiles) /\ ref' = [ref EXCEPT ![f] = 1]

\* filedup and fileclose panic on a count of 0, which FilesExact excludes.
filedup(f) == ref' = [ref EXCEPT ![f] = @ + 1]

EndOf(f) == {type[f]} \cap Ends

\* Wrong: the type is left to the next user of the entry.
filecloseKeepsType(p, f) ==
  /\ ref' = [ref EXCEPT ![f] = @ - 1]
  /\ closing' = IF ref[f] = 1 THEN [closing EXCEPT ![p] = EndOf(f)] ELSE closing
  /\ UNCHANGED type

\* fileclose: the last reference frees the entry; what it stood for is closed
\* later, without ftable.lock.
fileclose(p, f) ==
  /\ ref' = [ref EXCEPT ![f] = @ - 1]
  /\ closing' = IF ref[f] = 1 THEN [closing EXCEPT ![p] = EndOf(f)] ELSE closing
  /\ type' = IF ref[f] = 1 THEN [type EXCEPT ![f] = FD_NONE] ELSE type

pipeclose(p) ==
  /\ closing[p] # {}
  /\ ends' = ends \ closing[p] /\ closing' = [closing EXCEPT ![p] = {}]
  /\ UNCHANGED <<ref, type, ofile, alive, call>>

\* fdalloc: the lowest free descriptor, if there is one.
FreeFds(p) == {d \in Fd : ofile[p][d] = 0}
SetFd(p, d, f) == ofile' = [ofile EXCEPT ![p][d] = f]
fdalloc(p, d, f) == Lowest(d, FreeFds(p)) /\ SetFd(p, d, f)

----------------------------------------------------------------------------
\* dup and close

sys_dup(p) ==
  /\ Ready(p)
  /\ \E d \in Fd \ FreeFds(p), fd \in Fd :
       /\ fdalloc(p, fd, ofile[p][d])
       /\ Enter(p, DoingDup(ofile[p][d], fd))
  /\ UNCHANGED <<ref, type, alive, ends, closing>>

DupRef(p) ==
  /\ At(p, "dup") /\ filedup(call[p].f) /\ Return(p)
  /\ UNCHANGED <<type, ofile, alive, ends, closing>>

sys_close(p) ==
  /\ Ready(p)
  /\ \E d \in Fd \ FreeFds(p) :
       /\ SetFd(p, d, 0) /\ Enter(p, Doing("close", <<ofile[p][d]>>))
  /\ UNCHANGED <<ref, type, alive, ends, closing>>

\* Give up the files of fs one after the other.
CloseNext(p) ==
  /\ At(p, "close") /\ fileclose(p, call[p].fs[1])
  /\ IF Len(call[p].fs) = 1 THEN Return(p)
     ELSE Enter(p, Doing("close", Tail(call[p].fs)))
  /\ UNCHANGED <<ofile, alive, ends>>

----------------------------------------------------------------------------
\* open

OpenAlloc(p) ==
  /\ Ready(p) /\ FreeFiles # {}
  /\ \E f \in Files : filealloc(f) /\ Enter(p, Doing("open", <<f>>))
  /\ UNCHANGED <<type, ofile, alive, ends, closing>>

OpenFd(p) ==
  LET f == call[p].fs[1]
  IN /\ At(p, "open") /\ UNCHANGED <<ref, alive, ends, closing>>
     /\ \/ /\ FreeFds(p) = {} /\ Enter(p, Doing("close", <<f>>))
           /\ UNCHANGED <<ofile, type>>
        \/ /\ \E d \in Fd : fdalloc(p, d, f)
           /\ type' = [type EXCEPT ![f] = FD_INODE] /\ Return(p)

----------------------------------------------------------------------------
\* pipe

PipeAlloc1(p) ==
  /\ Ready(p) /\ FreeFiles # {}
  /\ \E f \in Files : filealloc(f) /\ Enter(p, Doing("pipe1", <<f>>))
  /\ UNCHANGED <<type, ofile, alive, ends, closing>>

\* The page of the pipe, n, and its two ends.
PipePage(rf, wf) ==
  \E n \in Files :
    /\ Lowest(n, Files \ {e[1] : e \in ends})
    /\ type' = [type EXCEPT ![rf] = <<n, "r">>, ![wf] = <<n, "w">>]
    /\ ends' = ends \cup {<<n, "r">>, <<n, "w">>}

\* The second file and the page of the pipe; without either the files go
\* back.
PipeAlloc2(p) ==
  LET rf == call[p].fs[1]
  IN /\ At(p, "pipe1") /\ UNCHANGED <<ofile, alive, closing>>
     /\ \/ /\ FreeFiles = {} /\ Enter(p, Doing("close", <<rf>>))
           /\ UNCHANGED <<ref, type, ends>>
        \/ \E wf \in Files : filealloc(wf) /\
             \/ Enter(p, Doing("close", <<rf, wf>>)) /\ UNCHANGED <<type, ends>>
             \/ PipePage(rf, wf) /\ Enter(p, Doing("pipe2", <<rf, wf>>))

\* Descriptors for both, told to the caller; or neither, when there are none
\* left or copyout fails: those taken are cleared again.
PipeFds(p) ==
  LET rf == call[p].fs[1]
      wf == call[p].fs[2]
  IN /\ At(p, "pipe2") /\ UNCHANGED <<ref, type, alive, ends, closing>>
     /\ \/ Enter(p, Doing("close", <<rf, wf>>)) /\ UNCHANGED ofile
        \/ \E fd0, fd1 \in Fd :
             /\ Lowest(fd0, FreeFds(p)) /\ Lowest(fd1, FreeFds(p) \ {fd0})
             /\ ofile' = [ofile EXCEPT ![p][fd0] = rf, ![p][fd1] = wf]
             /\ Return(p)

----------------------------------------------------------------------------
\* fork and exit

\* kfork's loop takes one descriptor at a time; the child is not yet running.
kfork(p) ==
  /\ Ready(p)
  /\ \E c \in Procs \ alive :
       /\ \A q \in alive : At(q, "fork") => call[q].child # c
       /\ Enter(p, DoingFork(c, 0))
  /\ UNCHANGED <<ref, type, ofile, alive, ends, closing>>

ForkFd(p) ==
  LET c == call[p].child
      d == call[p].fd
      f == ofile[p][d]
  IN /\ At(p, "fork") /\ UNCHANGED <<type, ends, closing>>
     /\ IF f = 0 THEN UNCHANGED <<ref, ofile>>
        ELSE filedup(f) /\ SetFd(c, d, f)
     /\ IF d = NOFILE - 1 THEN Return(p) /\ alive' = alive \cup {c}
        ELSE Enter(p, DoingFork(c, d + 1)) /\ UNCHANGED alive

ExitStart(p) ==
  /\ Ready(p) /\ Enter(p, Doing("exit", <<>>))
  /\ UNCHANGED <<ref, type, ofile, alive, ends, closing>>

ExitFd(p) ==
  /\ At(p, "exit")
  /\ IF FreeFds(p) = Fd
     THEN alive' = alive \ {p} /\ Return(p) /\ UNCHANGED <<ref, type, ofile, ends, closing>>
     ELSE \E d \in Fd :
            /\ Lowest(d, Fd \ FreeFds(p))
            /\ fileclose(p, ofile[p][d]) /\ SetFd(p, d, 0)
            /\ UNCHANGED <<alive, call, ends>>

\* The last process has exited.
Finished == alive = {} /\ UNCHANGED FdVars

FdNext ==
  \/ \E p \in Procs :
       \/ sys_dup(p) \/ DupRef(p) \/ sys_close(p) \/ CloseNext(p) \/ OpenAlloc(p) \/ OpenFd(p)
       \/ PipeAlloc1(p) \/ PipeAlloc2(p) \/ PipeFds(p) \/ kfork(p) \/ ForkFd(p)
       \/ ExitStart(p) \/ ExitFd(p) \/ pipeclose(p)
  \/ Finished

FdSpec == FdInit /\ [][FdNext]_FdVars

----------------------------------------------------------------------------
\* Properties

\* In place d of process p, a descriptor or (-1) the files its call has in
\* hand, there is a reference to f; dup's new descriptor is still to be counted.
Refers(p, d, f) ==
  IF d = -1 THEN \E k \in DOMAIN call[p].fs : call[p].fs[k] = f
  ELSE ofile[p][d] = f /\ ~(call[p].at = "dup" /\ call[p].fd = d)

References(f) == {r \in Procs \X (-1 .. NOFILE - 1) : Refers(r[1], r[2], f)}

(* A file's count is the number of descriptors that hold it and of calls    *)
(* that have it in hand, at every point of open, dup, close, pipe, fork and *)
(* exit and wherever they fail: so that filedup and fileclose never find a  *)
(* count of zero, no entry is reused while a descriptor leads to it, and    *)
(* none is lost.  An end of a pipe is open as long as an entry stands for   *)
(* it or a process is about to close it, which is what the other end's      *)
(* end-of-file depends on.                                                  *)
FilesExact ==
  /\ \A f \in Files : ref[f] = Cardinality(References(f))
  /\ \A f \in Files : ref[f] = 0 => type[f] = FD_NONE
  /\ \A f, g \in Files : f # g /\ type[f] = type[g] => type[f] \notin Ends
  /\ ends = UNION ({EndOf(f) : f \in Files} \cup {closing[p] : p \in Procs})
=============================================================================
