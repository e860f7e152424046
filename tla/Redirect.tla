------------------------------ MODULE Redirect ------------------------------
(***************************************************************************)
(* c-shell/src/redirection.c and its three callers: execute_single() in    *)
(* the shell itself, execute_command() in a child of a pipeline, and       *)
(* launch_background_single().                                             *)
(*                                                                         *)
(* The input files are copied to a temporary file before any output file   *)
(* is opened; the output is collected in another and copied to all output  *)
(* files at the end.  A file's contents are a sequence of texts; a command *)
(* prints "out" and then what it reads.                                    *)
(***************************************************************************)
EXTENDS Integers, Sequences, FiniteSets, SequencesExt

CONSTANTS Names, MaxArgs

VARIABLES
  kind,           \* "fg", "stage" of a pipeline, or "bg"
  cmd,            \* "builtin", "external", or "none" when only redirections are given
  tty,            \* standard output was a terminal when the shell started
  args,           \* the redirections, in order
  was, files,     \* the files before and now
  pc, i,          \* where the command is, and the argument it looks at
  in, out,        \* standard input and output: "shell" or a temporary file
  intmp, outtmp,  \* what the temporary files hold
  buf,            \* what printf() holds back in a builtin
  screen,         \* what has gone to the output the command was started with
  failed          \* a call of the system has failed

vars == <<kind, cmd, tty, args, was, files, pc, i, in, out, intmp, outtmp, buf, screen,
          failed>>
fixed == <<kind, cmd, tty, args, was>>

(* A name that does not exist, a file, or a directory.                      *)
Absent == [is |-> "none", text |-> <<>>]
Dir == [is |-> "dir", text |-> <<>>]
File(t) == [is |-> "file", text |-> t]

Redirections == [op : {"<", ">", ">>"}, name : Names]

Init ==
  /\ kind \in {"fg", "stage", "bg"}
  /\ cmd \in {"builtin", "external", "none"}
  /\ tty \in BOOLEAN
  /\ args \in UNION {[1..n -> Redirections] : n \in 0..MaxArgs}
  /\ was \in [Names -> {Absent, Dir, File(<<"old">>)}]
  /\ files = was
  /\ pc = IF kind = "stage" THEN "input" ELSE "start"
  /\ i = 1
  /\ in = "shell" /\ out = "shell" /\ intmp = <<>> /\ outtmp = <<>>
  /\ buf = <<>> /\ screen = <<>> /\ failed = FALSE

-----------------------------------------------------------------------------
(* execute_single() and launch_background_single() give up on an empty      *)
(* command at once, and the latter on a builtin.                            *)
Start ==
  /\ pc = "start"
  /\ pc' = IF cmd = "none" \/ (kind = "bg" /\ cmd = "builtin") THEN "end" ELSE "input"
  /\ UNCHANGED <<fixed, files, i, in, out, intmp, outtmp, buf, screen, failed>>

(* Wrong: only standard output is given back.                               *)
RestoredOutOnly ==
  /\ in' = in
  /\ out' = IF kind = "bg" THEN out ELSE "shell"

(* dup2() of the saved descriptors: a stage has saved its output only, a    *)
(* background child nothing.                                                *)
Restored ==
  /\ in' = IF kind = "fg" THEN "shell" ELSE in
  /\ out' = IF kind = "bg" THEN out ELSE "shell"

(* A failure before the command runs.                                       *)
GiveUp == pc' = "end" /\ Restored

More(ops) == i <= Len(args) /\ args[i].op \in ops
Pass(ops) == i <= Len(args) /\ args[i].op \notin ops

Skip ==
  /\ \/ pc = "input" /\ Pass({"<"})
     \/ pc \in {"output", "distribute"} /\ Pass({">", ">>"})
  /\ i' = i + 1
  /\ UNCHANGED <<fixed, files, pc, in, out, intmp, outtmp, buf, screen, failed>>

(* setup_input_redirection(): open() fails on a missing file, read() on a   *)
(* directory.                                                               *)
CopyInput ==
  /\ pc = "input" /\ More({"<"})
  /\ IF files[args[i].name].is # "file"
     THEN GiveUp /\ UNCHANGED <<i, intmp>>
     ELSE /\ intmp' = intmp \o files[args[i].name].text
          /\ i' = i + 1
          /\ UNCHANGED <<pc, in, out>>
  /\ UNCHANGED <<fixed, files, outtmp, buf, screen, failed>>

HasInput == \E k \in DOMAIN args : args[k].op = "<"

InputDone ==
  /\ pc = "input" /\ i > Len(args)
  /\ in' = IF HasInput THEN "intmp" ELSE in
  /\ pc' = "output" /\ i' = 1
  /\ UNCHANGED <<fixed, files, out, intmp, outtmp, buf, screen, failed>>

(* open() with O_CREAT and O_TRUNC or O_APPEND.                             *)
Opened(a) == IF a.op = ">" THEN File(<<>>) ELSE File(files[a.name].text)

(* setup_output_redirection(): every file is opened once, and closed.       *)
TryOutput ==
  /\ pc = "output" /\ More({">", ">>"})
  /\ IF files[args[i].name].is = "dir"
     THEN GiveUp /\ UNCHANGED <<i, files>>
     ELSE /\ files' = [files EXCEPT ![args[i].name] = Opened(args[i])]
          /\ i' = i + 1
          /\ UNCHANGED <<pc, in, out>>
  /\ UNCHANGED <<fixed, intmp, outtmp, buf, screen, failed>>

HasOutput == \E k \in DOMAIN args : args[k].op # "<"

(* tmpfile(), open(), fwrite(), lseek() or dup2() fails before the command. *)
SetupFails ==
  /\ \/ pc = "input" /\ HasInput
     \/ pc = "output" /\ HasOutput
  /\ GiveUp /\ failed' = TRUE
  /\ UNCHANGED <<fixed, files, i, intmp, outtmp, buf, screen>>

(* A stage of a pipeline gives up on an empty command only here.            *)
OutputDone ==
  /\ pc = "output" /\ i > Len(args)
  /\ IF cmd = "none" THEN GiveUp
     ELSE /\ out' = IF HasOutput THEN "outtmp" ELSE out
          /\ pc' = "run" /\ UNCHANGED in
  /\ UNCHANGED <<fixed, files, i, intmp, outtmp, buf, screen, failed>>

(* The command.  A builtin prints through the shell's stdout, which only    *)
(* writes out whole lines when the shell's output is a terminal.            *)
Text == <<"out">> \o (IF in = "intmp" /\ cmd = "external" THEN intmp ELSE <<>>)
Run ==
  /\ pc = "run"
  /\ LET held == cmd = "builtin" /\ ~tty IN
     /\ buf' = IF held THEN Text ELSE buf
     /\ outtmp' = IF ~held /\ out = "outtmp" THEN Text ELSE outtmp
     /\ screen' = IF ~held /\ out = "shell" THEN Text ELSE screen
  /\ pc' = IF kind = "bg" THEN "end" ELSE "restore"
  /\ UNCHANGED <<fixed, files, i, in, out, intmp, failed>>

Restore ==
  /\ pc = "restore"
  /\ Restored
  /\ pc' = IF HasOutput THEN "distribute" ELSE "flush"
  /\ i' = 1
  /\ UNCHANGED <<fixed, files, intmp, outtmp, buf, screen, failed>>

(* distribute_output(): the collected output to one more file.              *)
Distribute ==
  /\ pc = "distribute" /\ More({">", ">>"})
  /\ files' = [files EXCEPT ![args[i].name] = File(Opened(args[i]).text \o outtmp)]
  /\ i' = i + 1
  /\ UNCHANGED <<fixed, pc, in, out, intmp, outtmp, buf, screen, failed>>

(* lseek(), malloc(), read() or open() fails, or write() to the file that   *)
(* was opened: the files that follow get nothing.                           *)
DistributeFails ==
  /\ pc = "distribute" /\ More({">", ">>"})
  /\ \/ UNCHANGED files
     \/ files' = [files EXCEPT ![args[i].name] = Opened(args[i])]
  /\ pc' = "flush" /\ failed' = TRUE
  /\ UNCHANGED <<fixed, i, in, out, intmp, outtmp, buf, screen>>

DistributeDone ==
  /\ pc = "distribute" /\ i > Len(args)
  /\ pc' = "flush"
  /\ UNCHANGED <<fixed, files, i, in, out, intmp, outtmp, buf, screen, failed>>

(* The shell flushes stdout with its next prompt; _exit() does not.         *)
Flush ==
  /\ pc = "flush"
  /\ screen' = IF kind = "fg" THEN screen \o buf ELSE screen
  /\ buf' = <<>>
  /\ pc' = "end"
  /\ UNCHANGED <<fixed, files, i, in, out, intmp, outtmp, failed>>

Stop == pc = "end" /\ UNCHANGED vars

Next ==
  \/ Start \/ Skip \/ CopyInput \/ InputDone \/ TryOutput \/ OutputDone
  \/ SetupFails \/ Run \/ Restore \/ Distribute \/ DistributeFails \/ DistributeDone
  \/ Flush \/ Stop

Spec == Init /\ [][Next]_vars

-----------------------------------------------------------------------------
(* What the redirections ask for, stated without the steps.                 *)
Inputs == SelectSeq(args, LAMBDA a : a.op = "<")
InputText == FlattenSeq([k \in DOMAIN Inputs |-> was[Inputs[k].name].text])
Wanted == <<"out">> \o (IF cmd = "external" THEN InputText ELSE <<>>)

(* The redirections to f that count: from the last ">" on, or all of them.  *)
Cuts(f) == {k \in DOMAIN args : args[k] = [op |-> ">", name |-> f]}
Copies(f) ==
  Cardinality({k \in DOMAIN args :
                 args[k].op # "<" /\ args[k].name = f /\ \A m \in Cuts(f) : k >= m})
FinalText(f) ==
  (IF Cuts(f) = {} THEN was[f].text ELSE <<>>) \o FlattenSeq([k \in 1..Copies(f) |-> Wanted])

Readable == \A k \in DOMAIN args : args[k].op = "<" => was[args[k].name].is = "file"
Writable == \A k \in DOMAIN args : args[k].op # "<" => was[args[k].name].is # "dir"
Runs == cmd # "none" /\ Readable /\ Writable

(* A builtin in a shell whose output is no terminal prints too late.        *)
PrintsAtOnce == cmd = "builtin" => tty

(* A foreground command or stage of a pipeline does what its redirections   *)
(* say: it reads all input files as they were before any output file was    *)
(* truncated, every output file ends with the output as often and after     *)
(* what the operators ask.  No other file changes, whatever fails.  When a  *)
(* file cannot be read, none is touched; when one cannot be written, none   *)
(* receives any output; and a failure puts no output elsewhere.  The shell  *)
(* gets its own input and output back on every path.  (What is written, for *)
(* a builtin: if the shell's output is a terminal.)                         *)
RedirectsAsWritten ==
  pc = "end" /\ kind # "bg" =>
    /\ kind = "fg" => in = "shell" /\ out = "shell"
    /\ \A f \in Names : Copies(f) = 0 => files[f] = was[f]
    /\ Runs /\ ~failed /\ PrintsAtOnce =>
         /\ \A f \in Names : Copies(f) > 0 => files[f] = File(FinalText(f))
         /\ screen = IF HasOutput THEN <<>> ELSE Wanted
    /\ ~Readable => files = was
    /\ ~Runs => \A f \in Names : files[f].text \in {<<>>, was[f].text}
    /\ ~Runs \/ (failed /\ PrintsAtOnce) => screen = <<>>
=============================================================================
