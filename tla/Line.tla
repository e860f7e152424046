-------------------------------- MODULE Line --------------------------------
(***************************************************************************)
(* What the shell makes of a line: lexer(), parser(), main()'s cut at ';'  *)
(* and '&', and the pipelines, whose text is put together again            *)
(* (build_line_from_segment), cut at every '|' (strtok) and read a second  *)
(* time by each child.                                                     *)
(***************************************************************************)
EXTENDS Integers, Sequences, SequencesExt, FiniteSets

CONSTANTS
  Lines,             \* sequences of characters: "w" stands for any ordinary one
  MAX_PIPE_COMMANDS,
  LineSize           \* of the buffer for a pipeline's text

VARIABLES
  line,
  step,      \* "lex", "parse", "cut", "wait" (for the next line), "dead"
  tokens,    \* what the lexer made of it
  verdict,   \* "none", "syntax", "empty", "ok"
  from,      \* index of the first token not yet cut off
  ran,       \* the commands started, a sequence of argument vectors per segment
  refused    \* execute_single() has returned 1

vars == <<line, step, tokens, verdict, from, ran, refused>>

Blank == {" "}          \* ends a word
Skipped == {" ", "cr"}  \* before a word; a '\r' inside one is part of it
Operator == {"|", "&", ";", "<", ">"}
End == "end"

-----------------------------------------------------------------------------
(* The lexer: a record s of its locals, advanced by one round of its loop.  *)
At(text, k) == IF k <= Len(text) THEN text[k] ELSE End

Token(type, content) == [type |-> type, content |-> content]
LexStart == [state |-> "START", at |-> 1, buf |-> <<>>, toks |-> <<>>, ok |-> TRUE, go |-> TRUE]

Fail(s) == [s EXCEPT !.ok = FALSE, !.go = FALSE]
Goto(s, state) == [s EXCEPT !.state = state, !.at = @ + 1]
Keep(s, c) == [s EXCEPT !.buf = Append(@, c), !.at = @ + 1]

OpToken(s, c, next) ==
  LET twice == c \in {"<", ">"} /\ next = c
      text == IF twice THEN <<c, c>> ELSE <<c>>
      type == IF ~twice THEN c ELSE IF c = "<" THEN "<<" ELSE ">>"
  IN [s EXCEPT !.toks = Append(@, Token(type, text)), !.at = @ + Len(text)]

(* A quote or a backslash opens the same states from START and IN_WORD.     *)
Opened(s, c) ==
  Goto(s, CASE c = "dq" -> "IN_DQUOTE" [] c = "sq" -> "IN_SQUOTE" [] c = "bs" -> "AFTER_ESCAPE")

InStart(s, c, next) ==
  CASE c = End -> [s EXCEPT !.go = FALSE]
    [] c \in Skipped -> [s EXCEPT !.at = @ + 1]
    [] c \in Operator -> OpToken(s, c, next)
    [] c \in {"dq", "sq", "bs"} -> Opened(s, c)
    [] OTHER -> [Keep(s, c) EXCEPT !.state = "IN_WORD"]

InWord(s, c) ==
  CASE c \in Operator \cup Blank \cup {End} ->
         [s EXCEPT !.toks = Append(@, Token("WORD", s.buf)), !.buf = <<>>, !.state = "START"]
    [] c \in {"dq", "sq", "bs"} -> Opened(s, c)
    [] OTHER -> Keep(s, c)

InDquote(s, c, next) ==
  CASE c = End -> Fail(s)
    [] c = "dq" -> Goto(s, "IN_WORD")
    [] c = "bs" /\ next = End -> Fail(s)
    [] c = "bs" /\ next \in {"dq", "bs"} -> [s EXCEPT !.buf = Append(@, next), !.at = @ + 2]
    [] c = "bs" /\ next \notin {"dq", "bs", End} ->
         [s EXCEPT !.buf = @ \o <<c, next>>, !.at = @ + 2]
    [] OTHER -> Keep(s, c)

InSquote(s, c) ==
  CASE c = End -> Fail(s) [] c = "sq" -> Goto(s, "IN_WORD") [] OTHER -> Keep(s, c)

AfterEscape(s, c) == IF c = End THEN Fail(s) ELSE [Keep(s, c) EXCEPT !.state = "IN_WORD"]

LexRound(text, s) ==
  LET c == At(text, s.at)
      next == At(text, s.at + 1)
  IN CASE s.state = "START" -> InStart(s, c, next)
       [] s.state = "IN_WORD" -> InWord(s, c)
       [] s.state = "IN_DQUOTE" -> InDquote(s, c, next)
       [] s.state = "IN_SQUOTE" -> InSquote(s, c)
       [] s.state = "AFTER_ESCAPE" -> AfterEscape(s, c)

RECURSIVE LexFrom(_, _)
LexFrom(text, s) == IF s.go THEN LexFrom(text, LexRound(text, s)) ELSE s

lexer(text) == LexFrom(text, LexStart)

-----------------------------------------------------------------------------
(* The parser's automaton.                                                  *)
Redirections == {"<", ">", ">>", "<<"}

Delta(q, type) ==
  CASE type = "WORD" -> "q_arg"
    [] q = "q_arg" /\ type \in Redirections -> "q_tgt"
    [] q = "q_arg" /\ type \in {"|", ";"} -> "q_cmd"
    [] q = "q_arg" /\ type = "&" -> "q_bg"
    [] OTHER -> "q_error"

(* Wrong: a redirection at the end of the line needs no target.            *)
RejectingLess == {"q_error", "q_cmd"}

Rejecting == {"q_error", "q_cmd", "q_tgt"}

(* parser() leaves its loop at the first error.                             *)
parser(toks) ==
  FoldLeft(LAMBDA q, t : IF q = "q_error" THEN q ELSE Delta(q, t.type), "q_start", toks)
    \notin Rejecting

-----------------------------------------------------------------------------
(* The text of a pipeline: the tokens' contents, separated by a blank.  The *)
(* test before each token is strictest for the last.                        *)
build_line_from_segment(toks) ==
  FoldLeft(LAMBDA text, k : text \o (IF k = 1 THEN <<>> ELSE <<" ">>) \o toks[k].content,
           <<>>, [k \in 1..Len(toks) |-> k])

FitsLine(text) == Len(text) + 1 < LineSize

(* A set of integers in order.                                              *)
Ascending(S) == [k \in 1..Cardinality(S) |-> CHOOSE x \in S : Cardinality({y \in S : y <= x}) = k]

(* strtok(): the maximal parts without c that are not empty.                *)
strtok(text, c) ==
  LET b == Ascending({k \in DOMAIN text : text[k] = c} \cup {0, Len(text) + 1})
      parts == [k \in 1..(Len(b) - 1) |-> SubSeq(text, b[k] + 1, b[k + 1] - 1)]
  IN SelectSeq(parts, LAMBDA part : part # <<>>)

segment_has_pipe(toks) == \E k \in DOMAIN toks : toks[k].type = "|"

Args(toks) == [k \in DOMAIN toks |-> toks[k].content]

(* What a child of the pipeline runs of its part of the text; <<>> when it  *)
(* exits at once.                                                           *)
ChildArgs(text) ==
  LET s == lexer(text) IN
  IF s.ok /\ s.toks # <<>> /\ parser(s.toks) THEN Args(s.toks) ELSE <<>>

Started(toks) ==
  IF ~segment_has_pipe(toks) THEN <<Args(toks)>>
  ELSE LET text == build_line_from_segment(toks)
           cmds == strtok(text, "|")
       IN IF FitsLine(text) /\ Len(cmds) \in 2..MAX_PIPE_COMMANDS
            THEN [k \in DOMAIN cmds |-> ChildArgs(cmds[k])] ELSE <<>>

-----------------------------------------------------------------------------
Init ==
  /\ line \in Lines
  /\ step = "lex" /\ tokens = <<>> /\ verdict = "none" /\ from = 1 /\ ran = <<>>
  /\ refused = FALSE

Lex ==
  /\ step = "lex"
  /\ LET s == lexer(line) IN
       \/ /\ ~s.ok
          /\ verdict' = "syntax" /\ step' = "wait" /\ UNCHANGED tokens
       \/ /\ s.ok /\ s.toks = <<>>
          /\ verdict' = "empty" /\ step' = "wait" /\ UNCHANGED tokens
       \/ /\ s.ok /\ s.toks # <<>>
          /\ tokens' = s.toks /\ step' = "parse" /\ UNCHANGED verdict
  /\ UNCHANGED <<line, from, ran, refused>>

Parse ==
  /\ step = "parse"
  /\ IF parser(tokens) THEN verdict' = "ok" /\ step' = "cut"
                       ELSE verdict' = "syntax" /\ step' = "wait"
  /\ UNCHANGED <<line, tokens, from, ran, refused>>

(* The end of the segment that begins at from: a ';', a '&' or the end.     *)
SegEnd ==
  CHOOSE k \in from..(Len(tokens) + 1) :
    /\ k = Len(tokens) + 1 \/ tokens[k].type \in {";", "&"}
    /\ \A m \in from..(k - 1) : tokens[m].type \notin {";", "&"}

Segment == SubSeq(tokens, from, SegEnd - 1)

Cut ==
  /\ step = "cut"
  /\ ran' = IF Segment = <<>> THEN ran ELSE Append(ran, Started(Segment))
  /\ from' = SegEnd + 1
  /\ step' = IF SegEnd > Len(tokens) THEN "wait" ELSE "cut"
  /\ UNCHANGED <<line, tokens, verdict, refused>>

(* A single command in the foreground.                                      *)
Single ==
  /\ Segment # <<>> /\ ~segment_has_pipe(Segment)
  /\ SegEnd <= Len(tokens) => tokens[SegEnd].type = ";"

(* execute_single() returns 1: no such command, or activities with an       *)
(* argument.  The rest of the line is dropped, and args is freed twice: the *)
(* C library ends the shell, or nothing is noticed.                         *)
Refused ==
  /\ step = "cut" /\ Single
  /\ ran' = Append(ran, Started(Segment)) /\ refused' = TRUE
  /\ from' = SegEnd + 1
  /\ step' \in {"wait", "dead"}
  /\ UNCHANGED <<line, tokens, verdict>>

Finished == step \in {"wait", "dead"} /\ UNCHANGED vars

Next == Lex \/ Parse \/ Cut \/ Refused \/ Finished

Spec == Init /\ [][Next]_vars

-----------------------------------------------------------------------------
TypeOK ==
  /\ step \in {"lex", "parse", "cut", "wait", "dead"} /\ refused \in BOOLEAN
  /\ verdict \in {"none", "syntax", "empty", "ok"}
  /\ from \in 1..(Len(tokens) + 2)

(* The grammar, by cutting instead of by states: pieces of toks between the *)
(* tokens whose type is in seps.                                            *)
SplitAt(toks, seps) ==
  LET b == Ascending({k \in DOMAIN toks : toks[k].type \in seps} \cup {0, Len(toks) + 1})
  IN [k \in 1..(Len(b) - 1) |-> SubSeq(toks, b[k] + 1, b[k + 1] - 1)]

IsCommand(toks) ==
  /\ toks # <<>> /\ toks[1].type = "WORD"
  /\ \A k \in DOMAIN toks :
       toks[k].type \in Redirections => k < Len(toks) /\ toks[k + 1].type = "WORD"

IsPipeline(toks) ==
  LET cmds == SplitAt(toks, {"|"}) IN \A k \in DOMAIN cmds : IsCommand(cmds[k])

Segments(toks) == SplitAt(toks, {";", "&"})

IsLine(toks) ==
  \A k \in DOMAIN Segments(toks) :
    \/ IsPipeline(Segments(toks)[k])
    \/ k = Len(Segments(toks)) /\ k > 1 /\ Last(toks).type = "&"

(* What the line says of a segment: the commands between the '|'.           *)
Written(seg) == LET cmds == SplitAt(seg, {"|"}) IN [k \in DOMAIN cmds |-> Args(cmds[k])]

(* A word that a second reading leaves as it is.                            *)
Plain(word) ==
  /\ word # <<>> /\ word[1] \notin Skipped
  /\ \A k \in DOMAIN word : word[k] \notin Operator \cup Blank \cup {"dq", "sq", "bs"}

IsPlain(seg) == \A k \in DOMAIN seg : seg[k].type = "WORD" => Plain(seg[k].content)

WithinLimits(seg) ==
  /\ Len(Written(seg)) <= MAX_PIPE_COMMANDS
  /\ FoldLeft(LAMBDA n, t : n + Len(t.content) + 1, 0, seg) < LineSize

(* Exactly the lines of the grammar are run, segment after segment, and the *)
(* rest is dropped only after a single foreground command was refused.  A   *)
(* single command gets the words of the line, whatever they contain.  A     *)
(* pipeline within the limits gets them too, although its children read a   *)
(* text that was put together again, if its words have no blank, operator,  *)
(* quote or backslash in them; beyond a limit none of it starts.            *)
RunsAsWritten ==
  /\ TypeOK
  /\ step = "wait" /\ tokens # <<>> => (verdict = "ok" <=> IsLine(tokens))
  /\ verdict = "ok" =>
       LET segs == SelectSeq(Segments(tokens), LAMBDA seg : seg # <<>>) IN
       /\ Len(ran) <= Len(segs)
       /\ step = "wait" /\ ~refused => Len(ran) = Len(segs)
       /\ refused => Len(Written(segs[Len(ran)])) = 1
       /\ \A k \in DOMAIN ran :
            LET single == Len(Written(segs[k])) = 1 IN
            single \/ IsPlain(segs[k]) =>
              ran[k] = IF single \/ WithinLimits(segs[k]) THEN Written(segs[k]) ELSE <<>>
=============================================================================
