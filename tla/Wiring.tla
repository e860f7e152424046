------------------------------- MODULE Wiring -------------------------------
(***************************************************************************)
(* The pipes of a pipeline of the shell: execute_pipeline() and            *)
(* execute_pipeline_bg() of c-shell/src/pipe.c.  All pipes are made before *)
(* the first fork(), so every child starts with both ends of every pipe    *)
(* and ends of them all over the place keep a reader waiting for ever.     *)
(*                                                                         *)
(* Process 0 is the shell, 1..N are the stages.  The first stage produces  *)
(* some data, the others copy what they read; any of them may end early.   *)
(***************************************************************************)
EXTENDS Integers, FiniteSets

CONSTANTS N, PipeSize, Produce

VARIABLES
  bg,           \* execute_pipeline_bg()
  pc, k,        \* the shell: where it is, and the pipe or stage it is at
  st,           \* the stages
  ends,         \* the pipe ends each process has open, beside 0 and 1
  in, out,      \* the pipes that are 0 and 1 of a stage, or Term
  fill,         \* what is in the pipes
  left, hand    \* what a stage has still to produce, and has read and not written

vars == <<bg, pc, k, st, ends, in, out, fill, left, hand>>

Stages == 1..N
Pipes == 1..(N - 1)
Term == 0

Init ==
  /\ bg \in BOOLEAN
  /\ pc = "pipe" /\ k = 1
  /\ st = [s \in Stages |-> "none"]
  /\ ends = [p \in 0..N |-> {}]
  /\ in = [s \in Stages |-> Term] /\ out = [s \in Stages |-> Term]
  /\ fill = [j \in Pipes |-> 0]
  /\ left = [s \in Stages |-> IF s = 1 THEN Produce ELSE 0]
  /\ hand = [s \in Stages |-> 0]

-----------------------------------------------------------------------------
(* The shell.                                                               *)
stageVars == <<in, out, fill, left, hand>>

(* pipe(); when it fails the pipes made so far are closed.                  *)
MakePipe ==
  /\ pc = "pipe" /\ k < N
  /\ \/ /\ ends' = [ends EXCEPT ![0] = @ \cup {<<k, "r">>, <<k, "w">>}]
        /\ k' = k + 1 /\ UNCHANGED pc
     \/ /\ ends' = [ends EXCEPT ![0] = {}]
        /\ pc' = "done" /\ UNCHANGED k
  /\ UNCHANGED <<bg, st, stageVars>>

PipesMade ==
  /\ pc = "pipe" /\ k = N
  /\ pc' = "fork" /\ k' = 1
  /\ UNCHANGED <<bg, st, ends, stageVars>>

Fork ==
  /\ pc = "fork" /\ k <= N
  /\ st' = [st EXCEPT ![k] = "start"]
  /\ ends' = [ends EXCEPT ![k] = ends[0]]
  /\ k' = k + 1
  /\ UNCHANGED <<bg, pc, stageVars>>

(* fork() fails: the pipes are closed, then the stages there are get        *)
(* waited for, or SIGTERM from execute_pipeline_bg().                       *)
Ended(s) == IF st[s] = "none" THEN "none" ELSE "dead"
ForkFails ==
  /\ pc = "fork" /\ k <= N
  /\ pc' = IF bg THEN "done" ELSE "wait"
  /\ st' = IF bg THEN [s \in Stages |-> Ended(s)] ELSE st
  /\ ends' = IF bg THEN [p \in 0..N |-> {}] ELSE [ends EXCEPT ![0] = {}]
  /\ in' = IF bg THEN [s \in Stages |-> Term] ELSE in
  /\ out' = IF bg THEN [s \in Stages |-> Term] ELSE out
  /\ k' = 1
  /\ UNCHANGED <<bg, fill, left, hand>>

ForksDone ==
  /\ pc = "fork" /\ k > N
  /\ ends' = [ends EXCEPT ![0] = {}]
  /\ pc' = IF bg THEN "done" ELSE "wait"
  /\ k' = 1
  /\ UNCHANGED <<bg, st, stageVars>>

(* waitpid(), stage by stage; sigchld_handler() reaps those of a background *)
(* pipeline (module Jobs).                                                  *)
Wait ==
  /\ pc = "wait"
  /\ IF k <= N /\ st[k] # "none"
     THEN st[k] = "dead" /\ k' = k + 1 /\ UNCHANGED pc
     ELSE pc' = "done" /\ UNCHANGED k
  /\ UNCHANGED <<bg, st, ends, stageVars>>

-----------------------------------------------------------------------------
(* A stage.                                                                 *)

(* Wrong: a stage closes the ends of its own two pipes only.                *)
LeftOpenOthers(s) == {e \in ends[s] : e[1] \notin {s - 1, s}}

(* After the dup2()s every pipe end is closed.                              *)
LeftOpen(s) == {}

Setup(s) ==
  /\ st[s] = "start"
  /\ in' = [in EXCEPT ![s] = IF s > 1 THEN s - 1 ELSE Term]
  /\ out' = [out EXCEPT ![s] = IF s < N THEN s ELSE Term]
  /\ ends' = [ends EXCEPT ![s] = LeftOpen(s)]
  /\ st' = [st EXCEPT ![s] = "run"]
  /\ UNCHANGED <<bg, pc, k, fill, left, hand>>

Exit(s) ==
  /\ st' = [st EXCEPT ![s] = "dead"]
  /\ ends' = [ends EXCEPT ![s] = {}]
  /\ in' = [in EXCEPT ![s] = Term] /\ out' = [out EXCEPT ![s] = Term]

Readers(j) == \E s \in Stages : in[s] = j \/ <<j, "r">> \in ends[s]
Writers(j) == \E s \in Stages : out[s] = j \/ <<j, "w">> \in ends[s]
ShellHas(e) == e \in ends[0]

(* write(): SIGPIPE ends a stage nobody reads from.                         *)
Write(s) ==
  /\ st[s] = "run" /\ hand[s] = 1
  /\ LET j == out[s] IN
     IF j # Term /\ ~Readers(j) /\ ~ShellHas(<<j, "r">>)
     THEN Exit(s) /\ UNCHANGED <<fill, hand>>
     ELSE /\ j # Term => fill[j] < PipeSize
          /\ fill' = IF j = Term THEN fill ELSE [fill EXCEPT ![j] = @ + 1]
          /\ hand' = [hand EXCEPT ![s] = 0]
          /\ UNCHANGED <<st, ends, in, out>>
  /\ UNCHANGED <<bg, pc, k, left>>

(* read(), or for the first stage the next piece of its own; at the end of  *)
(* the input the stage exits.                                               *)
Read(s) ==
  /\ st[s] = "run" /\ hand[s] = 0
  /\ LET j == in[s] IN
     IF j = Term THEN
       IF left[s] > 0
       THEN /\ left' = [left EXCEPT ![s] = @ - 1] /\ hand' = [hand EXCEPT ![s] = 1]
            /\ UNCHANGED <<st, ends, in, out, fill>>
       ELSE Exit(s) /\ UNCHANGED <<fill, left, hand>>
     ELSE IF fill[j] > 0
       THEN /\ fill' = [fill EXCEPT ![j] = @ - 1] /\ hand' = [hand EXCEPT ![s] = 1]
            /\ UNCHANGED <<st, ends, in, out, left>>
       ELSE /\ ~Writers(j) /\ ~ShellHas(<<j, "w">>)
            /\ Exit(s) /\ UNCHANGED <<fill, left, hand>>
  /\ UNCHANGED <<bg, pc, k>>

(* A stage that has seen enough, or is killed.                              *)
Quit(s) ==
  /\ st[s] = "run"
  /\ Exit(s)
  /\ UNCHANGED <<bg, pc, k, fill, left, hand>>

Shell == MakePipe \/ PipesMade \/ Fork \/ ForkFails \/ ForksDone \/ Wait
Stage(s) == Setup(s) \/ Write(s) \/ Read(s)
AllOver == pc = "done" /\ \A s \in Stages : st[s] \in {"none", "dead"}
Rest == AllOver /\ UNCHANGED vars

Next == Shell \/ (\E s \in Stages : Stage(s) \/ Quit(s)) \/ Rest

Spec == Init /\ [][Next]_vars

(* The shell and the stages are scheduled; nobody has to quit early.        *)
Fairness == WF_vars(Shell) /\ \A s \in Stages : WF_vars(Stage(s))

(* Every pipeline comes to an end, also when a pipe() or fork() fails in    *)
(* the middle or a stage leaves early: no end of a pipe that somebody       *)
(* forgot keeps a reader from its end of file or a writer from its SIGPIPE, *)
(* and the shell does not wait for a stage that waits for the shell.        *)
PipelineEnds == <>AllOver
=============================================================================
