----------------------------- MODULE MCProgress -----------------------------
(***************************************************************************)
(* Parts whose promise is that something comes about, side by side:        *)
(* fork(), exit() and wait() (ProcLife), the disk driver (Virtio), the     *)
(* pipelines of the shell in c-shell (Wiring), the shell of xv6 (Sh), and  *)
(* the spinlocks below the first two (Spinlock).  A behaviour exercises    *)
(* one of them, the one part names.                                        *)
(***************************************************************************)
EXTENDS Spinlock, ProcLife, Virtio, TLC

CONSTANTS
  N, PipeSize, Produce,
  MAXARGS, MaxLines, MaxFailures

VARIABLES
  part,
  w_bg, w_pc, w_k, w_st, w_ends, w_in, w_out, w_fill, w_left, w_hand,
  c_ps, c_dir, c_read, c_failures

wvars == <<w_bg, w_pc, w_k, w_st, w_ends, w_in, w_out, w_fill, w_left, w_hand>>
cvars == <<c_ps, c_dir, c_read, c_failures>>
allvars == <<part, vars, ProcVars, DiskVars, wvars, cvars>>

g == INSTANCE ShParse

\* Five lines for sh, with what its parser makes of them.
Word(i) == <<i, i + 1>>
One(i) == g!execcmd(<<Word(i)>>)
Into(op, i) == [tok |-> op, file |-> Word(i)]
TheCommands ==
  (<<"a", "|", "(", "b", ";", "c", ")", ">", "f">> :>
     g!pipecmd(One(1), g!Wrapped(g!listcmd(One(4), One(6)), <<Into(">", 9)>>)))
  @@ (<<"a", "&", ";", "b">> :> g!listcmd(g!backcmd(One(1)), One(4)))
  @@ (<<"a", "<", "f", ">", "g", ">", "h">> :>
        g!Wrapped(One(1), <<Into("<", 3), Into(">", 5), Into(">", 7)>>))
  @@ (<<"a", ")">> :> g!Panic)
  @@ (<<"c", "d", " ">> :> g!execcmd(<<<<1, 3>>>>))

ASSUME CommandsParsed == \A text \in DOMAIN TheCommands : TheCommands[text] = g!parsecmd(text)

\* The processes of each part, so that one formula can serve several.
Names == <<"p1", "p2", "p3">>

w == INSTANCE Wiring WITH
  bg <- w_bg, pc <- w_pc, k <- w_k, st <- w_st, ends <- w_ends, in <- w_in,
  out <- w_out, fill <- w_fill, left <- w_left, hand <- w_hand

c == INSTANCE Sh WITH
  Commands <- TheCommands, ps <- c_ps, dir <- c_dir, read <- c_read, failures
  <- c_failures

-----------------------------------------------------------------------------
AllInit ==
  /\ part \in {"spinlock", "proc", "disk", "pipeline", "sh"}
  /\ Init /\ ProcInit /\ DiskInit /\ w!Init /\ c!Init
  /\ part # "pipeline" => w_bg = FALSE

AllNext ==
  /\ UNCHANGED part
  /\ \/ part = "spinlock" /\ Next /\ UNCHANGED <<ProcVars, DiskVars, wvars, cvars>>
     \/ part = "proc" /\ ProcNext /\ UNCHANGED <<vars, DiskVars, wvars, cvars>>
     \/ part = "disk" /\ DiskNext /\ UNCHANGED <<vars, ProcVars, wvars, cvars>>
     \/ part = "pipeline" /\ w!Next /\ UNCHANGED <<vars, ProcVars, DiskVars, cvars>>
     \/ part = "sh" /\ c!Next /\ UNCHANGED <<vars, ProcVars, DiskVars, wvars>>

\* A step A of the part that runs.
Proc(A) == part = "proc" /\ A /\ UNCHANGED <<part, vars, DiskVars, wvars, cvars>>
Disk(A) == part = "disk" /\ A /\ UNCHANGED <<part, vars, ProcVars, wvars, cvars>>
Pipeline(A) == part = "pipeline" /\ A /\ UNCHANGED <<part, vars, ProcVars, DiskVars, cvars>>
Shell(A) == part = "sh" /\ A /\ UNCHANGED <<part, vars, ProcVars, DiskVars, wvars>>

\* The fairness of the parts; as one part runs, a formula can serve several.
Fairness ==
  /\ \A i \in DOMAIN Names :
       /\ WF_allvars(Proc(InKernel(i)) \/ Disk(Request(Names[i])) \/ Pipeline(w!Stage(i)))
       /\ SF_allvars(Proc(TakeWaitLock(i)) \/ Disk(Acquire(Names[i])))
  /\ WF_allvars(Proc(Wait(initproc)) \/ Disk(Intr) \/ Pipeline(w!Shell) \/ Shell(c!Running))
  /\ SF_allvars(Disk(IntrAck))
  /\ WF_allvars(Disk(DevTake)) /\ \A i \in Desc : WF_allvars(Disk(DevDone(i)))

AllSpec == AllInit /\ [][AllNext]_allvars /\ Fairness

-----------------------------------------------------------------------------
(* Wiring: every pipeline of the shell comes to an end.                     *)
PipelineEnds == part = "pipeline" => w!PipelineEnds

(* Sh: the programs of a line have the files and pipes the line says, and   *)
(* start in the order it says.                                              *)
LineAsWritten == part = "sh" => c!WiredAsWritten /\ c!RunsInOrder

(* Sh: the shell does not wait for ever for a line it has started.          *)
PromptReturns == c!PromptReturns
=============================================================================
