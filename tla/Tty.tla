-------------------------------- MODULE Tty --------------------------------
(***************************************************************************)
(* What the console's input side promises: a line that is being typed and  *)
(* can be edited, and the bytes that are ready to be read, in the order    *)
(* they were typed.                                                        *)
(***************************************************************************)
EXTENDS Integers, Sequences

CONSTANTS Char, Size

VARIABLES ready, line

tty == <<ready, line>>

Ends == {"nl", "eof"}
Room == Len(ready) + Len(line) < Size

(* A byte is typed; an ending, or the last that fits, makes the line ready. *)
Type(c) ==
  /\ Room
  /\ IF c \in Ends \/ Len(ready) + Len(line) + 1 = Size
       THEN ready' = ready \o Append(line, c) /\ line' = <<>>
       ELSE line' = Append(line, c) /\ UNCHANGED ready

Erase == line # <<>> /\ line' = SubSeq(line, 1, Len(line) - 1) /\ UNCHANGED ready
Cancel == line' = <<>> /\ UNCHANGED ready
Take == ready # <<>> /\ ready' = Tail(ready) /\ UNCHANGED line

TtyInit == ready = <<>> /\ line = <<>>
TtyNext == (\E c \in Char \cup Ends : Type(c)) \/ Erase \/ Cancel \/ Take
TtySpec == TtyInit /\ [][TtyNext]_tty
=============================================================================
