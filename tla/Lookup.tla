------------------------------- MODULE Lookup -------------------------------
(***************************************************************************)
(* Which file a command name runs: check_external_exists() and the child   *)
(* of execute_external() in c-shell/src/exec_calls.c, and the child of     *)
(* launch_background_single() in main.c.  The shell looks the name up to   *)
(* report a missing command, and the child looks it up again to run it.    *)
(***************************************************************************)
EXTENDS Integers, Sequences, FiniteSets, FiniteSetsExt

CONSTANT MaxDirs      \* the directories PATH names

VARIABLES
  word,     \* "plain", "slash" (a '/' in it), "percent" ('%' first), "bare" ("%" alone)
  here,     \* what ./name (or the path itself) is: "none", "exec" or "dir"
  path,     \* what name is in each directory of PATH
  bg, step, found, ran

vars == <<word, here, path, bg, step, found, ran>>
Kinds == {"none", "exec", "dir"}
Missing == -1
Here == 0       \* ./name; k is the k-th directory of PATH

Init ==
  /\ word \in {"plain", "slash", "percent", "bare"}
  /\ here \in Kinds
  /\ path \in UNION {[1..n -> Kinds] : n \in 0..MaxDirs}
  /\ bg \in BOOLEAN
  /\ step = "check" /\ found = Missing /\ ran = Missing

(* access(X_OK) also lets a directory pass.                                 *)
is_regular_executable(f) == f = "exec"
access(f) == f # "none"

FirstInPath ==
  LET dirs == {k \in DOMAIN path : access(path[k])} IN
  IF dirs = {} THEN Missing ELSE Min(dirs)

check_external_exists ==
  CASE word = "slash" -> IF is_regular_executable(here) THEN Here ELSE Missing
    [] word = "bare" -> Missing
    [] word = "percent" -> FirstInPath
    [] OTHER -> IF is_regular_executable(here) THEN Here ELSE FirstInPath

(* The file whose execv() the child of execute_external() tries.            *)
execute_external ==
  CASE word = "slash" -> Here
    [] word = "percent" -> FirstInPath
    [] OTHER -> IF is_regular_executable(here) THEN Here ELSE FirstInPath

(* The same for launch_background_single(), which takes ./name first        *)
(* whatever it is, with or without '%'.                                     *)
launch_background_single ==
  CASE word = "slash" -> Here
    [] OTHER -> IF access(here) THEN Here ELSE FirstInPath

Check ==
  /\ step = "check"
  /\ found' = check_external_exists
  /\ step' = IF found' = Missing THEN "end" ELSE "exec"
  /\ UNCHANGED <<word, here, path, bg, ran>>

(* execv() of a directory fails and the child exits without trying others.  *)
Exec ==
  /\ step = "exec"
  /\ LET at == IF bg THEN launch_background_single ELSE execute_external
         file == IF at = Here THEN here ELSE IF at = Missing THEN "none" ELSE path[at] IN
     ran' = IF file = "exec" THEN at ELSE Missing
  /\ step' = "end"
  /\ UNCHANGED <<word, here, path, bg, found>>

Stop == step = "end" /\ UNCHANGED vars

Next == Check \/ Exec \/ Stop

(* The child runs the file that check_external_exists() found, or nothing   *)
(* when that is a directory of that name in PATH; in the background there   *)
(* is one exception, a ./name that the check passed over, because of a '%'  *)
(* or because it is a directory.                                            *)
PassedOver == bg /\ word \in {"plain", "percent"} /\ access(here) /\ found # Here
RunsWhatWasFound ==
  step = "end" /\ found # Missing /\ ~PassedOver =>
    ran = IF found = Here \/ path[found] = "exec" THEN found ELSE Missing
=============================================================================
