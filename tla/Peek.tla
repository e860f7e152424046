-------------------------------- MODULE Peek --------------------------------
(***************************************************************************)
(* peek -n -r of a file (c-shell/src/peek.c): the file is counted from the *)
(* front, then read backwards in chunks of CHUNK_SIZE bytes and cut at the *)
(* newlines, the part of a line that reaches into the chunk before being   *)
(* kept in leftover.                                                       *)
(***************************************************************************)
EXTENDS Integers, Sequences, FiniteSets

CONSTANTS
  Texts,        \* the files
  ChunkSizes    \* values of CHUNK_SIZE

VARIABLES
  file, size,   \* the file and CHUNK_SIZE
  pc,           \* "count", "read", "scan", "done"
  pos,          \* where the chunk begins
  chunk, j, segment_end,
  leftover,
  num,          \* current_line_num
  out           \* what is printed, line by line

vars == <<file, size, pc, pos, chunk, j, segment_end, leftover, num, out>>

NL == "nl"
is_not_empty(line) == \E k \in DOMAIN line : line[k] \notin {" ", NL}

(* A set of integers in order.                                             *)
Ascending(S) == [k \in 1..Cardinality(S) |-> CHOOSE x \in S : Cardinality({y \in S : y <= x}) = k]

(* The lines getline() gives: pieces between newlines, without an empty    *)
(* last one.                                                               *)
Breaks == Ascending({k \in DOMAIN file : file[k] = NL} \cup {0, Len(file) + 1})
Pieces == [k \in 1..(Len(Breaks) - 1) |-> SubSeq(file, Breaks[k] + 1, Breaks[k + 1] - 1)]
NonEmptyUpTo(k) == Cardinality({m \in 1..k : is_not_empty(Pieces[m])})

Init ==
  /\ file \in Texts /\ size \in ChunkSizes
  /\ pc = "count"
  /\ pos = 0 /\ chunk = <<>> /\ j = 0 /\ segment_end = 0
  /\ leftover = <<>> /\ num = 0 /\ out = <<>>

(* The first pass: the last line's number, from global_line_num = 1.       *)
Count ==
  /\ pc = "count"
  /\ num' = NonEmptyUpTo(Len(Pieces))
  /\ pos' = Len(file)
  /\ pc' = "read"
  /\ UNCHANGED <<file, size, chunk, j, segment_end, leftover, out>>

ReadChunk ==
  /\ pc = "read" /\ pos > 0
  /\ LET read_size == IF pos < size THEN pos ELSE size IN
       /\ pos' = pos - read_size
       /\ chunk' = SubSeq(file, pos - read_size + 1, pos)
       /\ j' = read_size - 1
       /\ segment_end' = read_size
  /\ pc' = "scan"
  /\ UNCHANGED <<file, size, leftover, num, out>>

(* A line is printed, with its number when it is not blank.                *)
PrintLine(line) ==
  /\ out' = Append(out, [num |-> IF is_not_empty(line) THEN num ELSE 0, text |-> line])
  /\ num' = IF is_not_empty(line) THEN num - 1 ELSE num

(* chunk[j] in C is chunk[j + 1] here.                                     *)
ScanNewline ==
  /\ pc = "scan" /\ j >= 0 /\ chunk[j + 1] = NL
  /\ PrintLine(SubSeq(chunk, j + 2, segment_end) \o leftover)
  /\ segment_end' = j
  /\ leftover' = <<>>
  /\ j' = j - 1
  /\ UNCHANGED <<file, size, pc, pos, chunk>>

ScanOther ==
  /\ pc = "scan" /\ j >= 0 /\ chunk[j + 1] # NL
  /\ j' = j - 1
  /\ UNCHANGED <<file, size, pc, pos, chunk, segment_end, leftover, num, out>>

(* Wrong: a line that fills a whole chunk loses what was kept of it.      *)
KeptFirst == SubSeq(chunk, 1, segment_end)

(* The beginning of the chunk goes before what is kept already.            *)
Kept == SubSeq(chunk, 1, segment_end) \o leftover

ChunkDone ==
  /\ pc = "scan" /\ j < 0
  /\ leftover' = IF segment_end > 0 THEN Kept ELSE leftover
  /\ pc' = "read"
  /\ UNCHANGED <<file, size, pos, chunk, j, segment_end, num, out>>

(* The first line of the file has no newline before it.                    *)
LastLine ==
  /\ pc = "read" /\ pos = 0
  /\ IF leftover # <<>> THEN PrintLine(leftover) ELSE UNCHANGED <<num, out>>
  /\ pc' = "done"
  /\ UNCHANGED <<file, size, pos, chunk, j, segment_end, leftover>>

Finished == pc = "done" /\ UNCHANGED vars

Next == Count \/ ReadChunk \/ ScanNewline \/ ScanOther \/ ChunkDone \/ LastLine \/ Finished

Spec == Init /\ [][Next]_vars

-----------------------------------------------------------------------------
TypeOK ==
  /\ pos \in 0..Len(file) /\ segment_end \in 0..size /\ j \in -1..(size - 1)
  /\ num \in 0..Len(file) /\ Len(leftover) <= Len(file)

(* What the file holds, cut at its newlines, backwards, each line with the  *)
(* number that peek -n gives it from the front.  The empty piece after a    *)
(* last newline is printed and an empty first line is not: that is what     *)
(* peek.c does.                                                             *)
Backwards ==
  LET first == IF Pieces[1] = <<>> THEN 2 ELSE 1
      n == Len(Pieces)
  IN [k \in 1..(n - first + 1) |->
        LET m == n - k + 1 IN
        [num |-> IF is_not_empty(Pieces[m]) THEN NonEmptyUpTo(m) ELSE 0,
         text |-> Pieces[m]]]

(* Wherever the chunks end, lines come out whole, once, in reverse order    *)
(* and with the numbers of the forward pass.                                *)
ReversedWhole == TypeOK /\ (pc = "done" => out = Backwards)
=============================================================================
