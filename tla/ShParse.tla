------------------------------- MODULE ShParse -------------------------------
(***************************************************************************)
(* The parser of the xv6 user shell (user/sh.c): gettoken and peek over    *)
(* the characters of a line, the recursive-descent functions over them,    *)
(* and nulterminate, which cuts the words apart in the line itself.  A     *)
(* character is a symbol, a space or a letter; a word is the pair of its   *)
(* first position and the position after its last.  panic() ends the       *)
(* parsing process: the parse is Panic.  Beside the parser stands what a   *)
(* line means, read off its tokens from the outside in.                    *)
(***************************************************************************)
EXTENDS Integers, Sequences, FiniteSets, FiniteSetsExt, SequencesExt

CONSTANTS
  MAXARGS         \* length of execcmd.argv

Space == " "
Symbols == {"<", "|", ">", "&", ";", "(", ")"}
Panic == [type |-> "panic"]

----------------------------------------------------------------------------
\* Constructors

execcmd(argv) == [type |-> "EXEC", argv |-> argv]
pipecmd(left, right) == [type |-> "PIPE", left |-> left, right |-> right]
listcmd(left, right) == [type |-> "LIST", left |-> left, right |-> right]
backcmd(cmd) == [type |-> "BACK", cmd |-> cmd]

\* The mode tells "<" (read), ">" (create, truncate) and ">>" (create); each
\* redirection wraps what was parsed so far.
redircmd(cmd, r) == [type |-> "REDIR", cmd |-> cmd, file |-> r.file,
                     mode |-> r.tok, fd |-> IF r.tok = "<" THEN 0 ELSE 1]

Wrapped(cmd, redirs) == FoldLeft(redircmd, cmd, redirs)

----------------------------------------------------------------------------
\* Tokens

es(buf) == Len(buf) + 1

At(buf, s) == IF s < es(buf) THEN buf[s] ELSE "NUL"

Skip(buf, s, while) ==
  Min({t \in s .. es(buf) : t = es(buf) \/ buf[t] \notin while})

\* The token at s, where its text begins and ends, and where the next begins.
gettoken(buf, s) ==
  LET q == Skip(buf, s, {Space})
      c == At(buf, q)
      word == c \notin Symbols \cup {"NUL"}
      append == c = ">" /\ At(buf, q + 1) = ">"
      eq == CASE c = "NUL" -> q
              [] append -> q + 2
              [] word -> Min({t \in q .. es(buf) : At(buf, t) \in Symbols \cup {Space, "NUL"}})
              [] OTHER -> q + 1
  IN [tok |-> IF append THEN "+" ELSE IF word THEN "a" ELSE c,
      q |-> q, eq |-> eq, s |-> Skip(buf, eq, {Space})]

peek(buf, s, toks) == At(buf, Skip(buf, s, {Space})) \in toks

----------------------------------------------------------------------------
\* The parser.  A result is the command parsed and where parsing stopped.

Parsed(cmd, s) == [cmd |-> cmd, s |-> s]
Then(r, Continue(_, _)) == IF r.cmd = Panic THEN r ELSE Continue(r.cmd, r.s)

RECURSIVE parseredirs(_, _, _)
parseredirs(buf, s, redirs) ==
  IF ~peek(buf, s, {"<", ">"}) THEN Parsed([type |-> "redirs", list |-> redirs], s)
  ELSE LET op == gettoken(buf, s)
           file == gettoken(buf, op.s)
       IN IF file.tok # "a" THEN Parsed(Panic, file.s)
          ELSE parseredirs(buf, file.s,
                 Append(redirs, [tok |-> op.tok, file |-> <<file.q, file.eq>>]))

\* The loop of parseexec after a round of redirections: argv and redirs are
\* what cmd->argv and the REDIR nodes around cmd hold.
RECURSIVE Words(_, _, _, _)
Words(buf, s, argv, redirs) ==
  LET t == gettoken(buf, s)
      more == Append(argv, <<t.q, t.eq>>)
  IN IF peek(buf, s, {"|", ")", "&", ";"}) \/ t.tok = "NUL"
     THEN Parsed(Wrapped(execcmd(argv), redirs), s)
     ELSE IF t.tok # "a" \/ Len(more) >= MAXARGS THEN Parsed(Panic, t.s)
     ELSE Then(parseredirs(buf, t.s, redirs),
               LAMBDA all, at : Words(buf, at, more, all.list))

\* parseline returns no error of its own: what follows a line is for the
\* caller to accept.
RECURSIVE parseline(_, _), parsepipe(_, _), parseexec(_, _), Backs(_, _, _)
Backs(buf, s, cmd) ==
  IF peek(buf, s, {"&"}) THEN Backs(buf, gettoken(buf, s).s, backcmd(cmd))
  ELSE Parsed(cmd, s)

parseline(buf, s) ==
  Then(parsepipe(buf, s), LAMBDA cmd, at :
    Then(Backs(buf, at, cmd), LAMBDA back, after :
      IF ~peek(buf, after, {";"}) THEN Parsed(back, after)
      ELSE Then(parseline(buf, gettoken(buf, after).s),
                LAMBDA rest, end : Parsed(listcmd(back, rest), end))))

\* Wrong: parsepipe takes the line, not the pipe, to the right of a bar.
parsepipeLoose(buf, s) ==
  Then(parseexec(buf, s), LAMBDA cmd, at :
    IF ~peek(buf, at, {"|"}) THEN Parsed(cmd, at)
    ELSE Then(parseline(buf, gettoken(buf, at).s),
              LAMBDA rest, end : Parsed(pipecmd(cmd, rest), end)))

parsepipe(buf, s) ==
  Then(parseexec(buf, s), LAMBDA cmd, at :
    IF ~peek(buf, at, {"|"}) THEN Parsed(cmd, at)
    ELSE Then(parsepipe(buf, gettoken(buf, at).s),
              LAMBDA rest, end : Parsed(pipecmd(cmd, rest), end)))

parseblock(buf, s) ==
  Then(parseline(buf, gettoken(buf, s).s), LAMBDA cmd, at :
    IF ~peek(buf, at, {")"}) THEN Parsed(Panic, at)
    ELSE Then(parseredirs(buf, gettoken(buf, at).s, <<>>),
              LAMBDA redirs, end : Parsed(Wrapped(cmd, redirs.list), end)))

parseexec(buf, s) ==
  IF peek(buf, s, {"("}) THEN parseblock(buf, s)
  ELSE Then(parseredirs(buf, s, <<>>),
            LAMBDA redirs, at : Words(buf, at, <<>>, redirs.list))

\* The positions at which nulterminate writes a NUL into the line.
RECURSIVE nulterminate(_)
nulterminate(cmd) ==
  CASE cmd.type = "EXEC" -> {w[2] : w \in Range(cmd.argv)}
    [] cmd.type = "REDIR" -> nulterminate(cmd.cmd) \cup {cmd.file[2]}
    [] cmd.type \in {"PIPE", "LIST"} -> nulterminate(cmd.left) \cup nulterminate(cmd.right)
    [] cmd.type = "BACK" -> nulterminate(cmd.cmd)

\* A word as a C string: from its first position to the first NUL.
CString(buf, nuls, w) == <<w[1], Min({t \in nuls \cup {es(buf)} : t >= w[1]})>>

RECURSIVE AsStrings(_, _, _)
AsStrings(buf, nuls, cmd) ==
  CASE cmd.type = "EXEC" ->
         [cmd EXCEPT !.argv = [i \in DOMAIN @ |-> CString(buf, nuls, @[i])]]
    [] cmd.type = "REDIR" ->
         [cmd EXCEPT !.file = CString(buf, nuls, @), !.cmd = AsStrings(buf, nuls, @)]
    [] cmd.type \in {"PIPE", "LIST"} ->
         [cmd EXCEPT !.left = AsStrings(buf, nuls, @), !.right = AsStrings(buf, nuls, @)]
    [] cmd.type = "BACK" -> [cmd EXCEPT !.cmd = AsStrings(buf, nuls, @)]

\* The command runcmd is given, with the strings it finds there.
parsecmd(buf) ==
  LET r == parseline(buf, 1)
  IN IF r.cmd = Panic \/ Skip(buf, r.s, {Space}) # es(buf) THEN Panic
     ELSE AsStrings(buf, nulterminate(r.cmd), r.cmd)

----------------------------------------------------------------------------
\* What a line means

IsWordChar(buf, i) == i \in DOMAIN buf /\ buf[i] \notin Symbols \cup {Space}

\* A word is a longest run of word characters.
WordsOf(buf) ==
  {w \in (1 .. es(buf)) \X (1 .. es(buf)) :
     /\ w[1] < w[2]
     /\ \A i \in w[1] .. w[2] - 1 : IsWordChar(buf, i)
     /\ ~IsWordChar(buf, w[1] - 1) /\ ~IsWordChar(buf, w[2])}

\* In a run of ">" every second one closes a ">>".
Closes(buf, i) ==
  /\ buf[i] = ">"
  /\ (i - Max({0} \cup {j \in 1 .. i : buf[j] # ">"})) % 2 = 0

Tokens(buf) ==
  LET begins == {w[1] : w \in WordsOf(buf)}
                  \cup {i \in DOMAIN buf : buf[i] \in Symbols /\ ~Closes(buf, i)}
      Token(i) ==
        IF buf[i] \notin Symbols
        THEN [tok |-> "a", file |-> CHOOSE w \in WordsOf(buf) : w[1] = i]
        ELSE [tok |-> IF buf[i] = ">" /\ i < Len(buf) /\ buf[i + 1] = ">"
                      THEN "+" ELSE buf[i]]
      sorted == SetToSortSeq(begins, <)
  IN [k \in DOMAIN sorted |-> Token(sorted[k])]

Depth(ts, k) ==
  Cardinality({j \in 1 .. k : ts[j].tok = "("}) - Cardinality({j \in 1 .. k : ts[j].tok = ")"})

\* The places outside every parenthesis where one of toks stands.
Outer(ts, toks) == {k \in DOMAIN ts : ts[k].tok \in toks /\ Depth(ts, k) = 0}

IsRedir(ts, k) == k \in DOMAIN ts /\ ts[k].tok \in {"<", ">", "+"}
Redirs(ts) ==
  LET at == SetToSortSeq({k \in DOMAIN ts : IsRedir(ts, k)}, <)
  IN [i \in DOMAIN at |-> [tok |-> ts[at[i]].tok, file |-> ts[at[i] + 1].file]]
RedirsWhole(ts) ==
  \A k \in DOMAIN ts : IsRedir(ts, k) => k < Len(ts) /\ ts[k + 1].tok = "a"

Simple(ts) ==
  LET words == SelectSeq([k \in DOMAIN ts |-> [t |-> ts[k], file |-> IsRedir(ts, k - 1)]],
                         LAMBDA x : x.t.tok = "a" /\ ~x.file)
  IN IF RedirsWhole(ts) /\ Len(words) < MAXARGS
     THEN Wrapped(execcmd([k \in DOMAIN words |-> words[k].t.file]), Redirs(ts))
     ELSE Panic

\* ";" binds loosest, "&" closes a pipeline, then "|", then parentheses with
\* redirections after them; of several ";" or "|" the first divides.
RECURSIVE Meaning(_)
Meaning(ts) ==
  LET n == Len(ts)
      lists == Outer(ts, {";"})
      pipes == Outer(ts, {"|"})
      Halves(at, Join(_, _)) ==
        LET left == Meaning(SubSeq(ts, 1, at - 1))
            right == Meaning(SubSeq(ts, at + 1, n))
        IN IF Panic \in {left, right} THEN Panic ELSE Join(left, right)
      closing == Min({n + 1} \cup {k \in 1 .. n : ts[k].tok = ")" /\ Depth(ts, k) = 0})
      inner == Meaning(SubSeq(ts, 2, closing - 1))
      after == SubSeq(ts, closing + 1, n)
  IN IF lists # {} THEN Halves(Min(lists), listcmd)
     ELSE IF n > 0 /\ n \in Outer(ts, {"&"})
     THEN LET cmd == Meaning(SubSeq(ts, 1, n - 1))
          IN IF cmd = Panic THEN Panic ELSE backcmd(cmd)
     ELSE IF Outer(ts, {"&"}) # {} THEN Panic
     ELSE IF pipes # {} THEN Halves(Min(pipes), pipecmd)
     ELSE IF n > 0 /\ ts[1].tok = "("
     THEN IF /\ closing <= n /\ inner # Panic
             /\ RedirsWhole(after) /\ Len(after) = 2 * Len(Redirs(after))
          THEN Wrapped(inner, Redirs(after))
          ELSE Panic
     ELSE IF \E k \in 1 .. n : ts[k].tok \in {"(", ")"} THEN Panic
     ELSE Simple(ts)

Balanced(ts) == Depth(ts, Len(ts)) = 0 /\ \A k \in DOMAIN ts : Depth(ts, k) >= 0

MeaningOf(buf) == IF Balanced(Tokens(buf)) THEN Meaning(Tokens(buf)) ELSE Panic
==============================================================================
