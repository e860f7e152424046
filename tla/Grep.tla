--------------------------------- MODULE Grep ---------------------------------
(***************************************************************************)
(* user/grep.c: the matcher for ^ . * $ and the loop that cuts what read() *)
(* returns, in pieces of any size, into lines inside one fixed buffer.     *)
(* The text holds no NUL.                                                  *)
(***************************************************************************)
EXTENDS Integers, Sequences, FiniteSets, FiniteSetsExt, SequencesExt

CONSTANTS
  Jobs,           \* patterns and inputs: [re, text]
  Size            \* sizeof(buf)

VARIABLES
  re,             \* the pattern
  text,           \* the whole input
  at,             \* characters read so far
  buf,            \* the m characters kept in the buffer
  out,            \* what was written
  eof             \* read() returned 0

vars == <<re, text, at, buf, out, eof>>

NL == "\n"
End == "NUL"
C(s, i) == IF i <= Len(s) THEN s[i] ELSE End

----------------------------------------------------------------------------
\* The matcher; i and j are the places in pattern and line.

RECURSIVE matchhere(_, _, _, _), matchstar(_, _, _, _, _)
matchhere(r, i, s, j) ==
  IF C(r, i) = End THEN TRUE
  ELSE IF C(r, i + 1) = "*" THEN matchstar(r[i], r, i + 2, s, j)
  ELSE IF r[i] = "$" /\ C(r, i + 1) = End THEN C(s, j) = End
  ELSE /\ C(s, j) # End /\ r[i] \in {".", s[j]}
       /\ matchhere(r, i + 1, s, j + 1)

matchstar(c, r, i, s, j) ==
  \/ matchhere(r, i, s, j)
  \/ C(s, j) # End /\ c \in {".", s[j]} /\ matchstar(c, r, i, s, j + 1)

match(r, s) ==
  IF C(r, 1) = "^" THEN matchhere(r, 2, s, 1)
  ELSE \E j \in 1 .. Len(s) + 1 : matchhere(r, 1, s, j)

----------------------------------------------------------------------------
\* The loop

Init ==
  /\ \E job \in Jobs : re = job.re /\ text = job.text
  /\ at = 0 /\ buf = <<>> /\ out = <<>> /\ eof = FALSE

\* The whole lines of the buffer are matched and those that match written;
\* the rest is moved to the front.
RECURSIVE Cut(_, _)
Cut(b, written) ==
  LET q == Min({i \in DOMAIN b : b[i] = NL})
      line == SubSeq(b, 1, q - 1)
      rest == SubSeq(b, q + 1, Len(b))
  IN IF NL \notin Range(b) THEN [buf |-> b, out |-> written]
     ELSE Cut(rest, IF match(re, line) THEN Append(written, line) ELSE written)

Wanted == Size - Len(buf) - 1

Read(n) ==
  /\ ~eof /\ n \in 1 .. Wanted /\ at + n <= Len(text)
  /\ LET r == Cut(buf \o SubSeq(text, at + 1, at + n), out)
     IN buf' = r.buf /\ out' = r.out
  /\ at' = at + n /\ UNCHANGED <<re, text, eof>>

ReadNothing ==
  /\ ~eof /\ (Wanted = 0 \/ at = Len(text))
  /\ eof' = TRUE /\ UNCHANGED <<re, text, at, buf, out>>

Next == (\E n \in 1 .. Len(text) : Read(n)) \/ ReadNothing \/ (eof /\ UNCHANGED vars)

----------------------------------------------------------------------------
\* What is to be selected

\* The pattern without its anchors, as single characters and stars.
RECURSIVE Atoms(_)
Atoms(r) ==
  IF r = <<>> THEN <<>>
  ELSE IF C(r, 2) = "*" THEN <<[c |-> r[1], star |-> TRUE]>> \o Atoms(SubSeq(r, 3, Len(r)))
  ELSE <<[c |-> r[1], star |-> FALSE]>> \o Atoms(Tail(r))

Means(atom, piece) ==
  /\ \A k \in DOMAIN piece : atom.c \in {".", piece[k]}
  /\ atom.star \/ Len(piece) = 1

\* Some stretch of the line is a piece for each atom, one after the other.
Selects(r, line) ==
  LET front == C(r, 1) = "^"
      atoms == Atoms(IF front THEN Tail(r) ELSE r)
      n == Len(atoms)
      back == n > 0 /\ atoms[n] = [c |-> "$", star |-> FALSE]
      body == IF back THEN Front(atoms) ELSE atoms
  IN \E cuts \in [0 .. Len(body) -> 0 .. Len(line)] :
       /\ front => cuts[0] = 0
       /\ back => cuts[Len(body)] = Len(line)
       /\ \A k \in DOMAIN body :
            cuts[k - 1] <= cuts[k] /\ Means(body[k], SubSeq(line, cuts[k - 1] + 1, cuts[k]))

Ends == SetToSortSeq({0} \cup {i \in DOMAIN text : text[i] = NL}, <)
LinesOf == [k \in 1 .. Len(Ends) - 1 |-> SubSeq(text, Ends[k] + 1, Ends[k + 1] - 1)]

\* A line that does not fit the buffer with its newline ends the search, and
\* so does text after the last newline.
Searched ==
  LET long == {k \in DOMAIN LinesOf : Len(LinesOf[k]) + 1 >= Size}
  IN SubSeq(LinesOf, 1, IF long = {} THEN Len(LinesOf) ELSE Min(long) - 1)

(* However read() divides the input, grep writes the lines the pattern      *)
(* means, in order, up to the first that does not fit its buffer: none is   *)
(* lost, repeated or joined with the next at the end of a piece.            *)
GrepSelects ==
  eof => out = SelectSeq(Searched, LAMBDA line : Selects(re, line))
==============================================================================
