----------------------------- MODULE MCPrograms -----------------------------
(***************************************************************************)
(* The programs that run in user mode, side by side.  Of the shell in      *)
(* c-shell: job control (Jobs), the reading of a line (Line), redirections *)
(* (Redirect), the search for a command (Lookup), hop's history (Hop) and  *)
(* peek's reading of a file backwards (Peek).  Of xv6: the parser of sh    *)
(* (ShParse), the library's allocator (Umalloc), grep (Grep) and the       *)
(* string and printing functions (Text).  A behaviour exercises one of     *)
(* them, the one part names.                                               *)
(***************************************************************************)
EXTENDS Jobs

CONSTANTS
  Lines, MAX_PIPE_COMMANDS, LineSize, Texts, ChunkSizes, Names, MaxArgs, MaxDirs,
  Dirs, Home, NoDir, MaxHistory, Weight, MaxTime, MaxHops,
  MaxText, MAXARGS, MaxHeap, NALLOC, Requests, Size, W, FormatChars, Room

VARIABLES
  part, x_text,
  l_line, l_step, l_tokens, l_verdict, l_from, l_ran, l_refused,
  p_file, p_size, p_pc, p_pos, p_chunk, p_j, p_segment_end, p_leftover,
  p_num, p_out,
  r_kind, r_cmd, r_tty, r_args, r_was, r_files, r_pc, r_i, r_in, r_out,
  r_intmp, r_outtmp, r_buf, r_screen, r_failed,
  k_word, k_here, k_path, k_bg, k_step, k_found, k_ran,
  h_exists, h_cwd, h_prev_dir, h_history, h_now, h_visits, h_hops,
  m_ptr, m_size, m_freep, m_brk, m_live, m_core,
  g_re, g_text, g_at, g_buf, g_out, g_eof,
  t_call

lvars == <<l_line, l_step, l_tokens, l_verdict, l_from, l_ran, l_refused>>
pvars == <<p_file, p_size, p_pc, p_pos, p_chunk, p_j, p_segment_end, p_leftover,
           p_num, p_out>>
dvars == <<r_kind, r_cmd, r_tty, r_args, r_was, r_files, r_pc, r_i, r_in, r_out,
           r_intmp, r_outtmp, r_buf, r_screen, r_failed>>
kvars == <<k_word, k_here, k_path, k_bg, k_step, k_found, k_ran>>
hvars == <<h_exists, h_cwd, h_prev_dir, h_history, h_now, h_visits, h_hops>>
mvars == <<m_ptr, m_size, m_freep, m_brk, m_live, m_core>>
gvars == <<g_re, g_text, g_at, g_buf, g_out, g_eof>>
tvars == <<t_call>>

UpTo(n, S) == UNION {[1..k -> S] : k \in 0..n}

\* Every character in short lines; words, pipes, '&' and '>' in longer ones.
ShortLines ==
  UpTo(4, {"w", " ", "|", "&", ";", "<", ">", "dq", "sq", "bs", "cr"})
  \cup UpTo(6, {"w", " ", "|", "&", ">"})

ShortTexts == UpTo(5, {"x", " ", "nl"})

\* A directory's name is part of its path, "a" also of the path of "b", "x" of every path.
MatchesAll == [w \in {"x"} \cup Dirs |-> CASE w = "x" -> Dirs [] w = "a" -> {"a", "b"} [] OTHER -> {w}]

\* Patterns against short lines, and texts longer than the buffer.
GrepJobs ==
  [re : UpTo(3, {"a", ".", "*", "^", "$"}), text : {Append(s, "\n") : s \in UpTo(2, {"a", "b"})}]
  \cup [re : {<<"a">>}, text : UpTo(6, {"a", "b", "\n"})]

\* Large and small numbers, one the most negative.
TheArgs == <<200, 9, 128, 250, 77>>

l == INSTANCE Line WITH
  line <- l_line, step <- l_step, tokens <- l_tokens, verdict <- l_verdict,
  from <- l_from, ran <- l_ran, refused <- l_refused

p == INSTANCE Peek WITH
  file <- p_file, size <- p_size, pc <- p_pc, pos <- p_pos, chunk <- p_chunk,
  j <- p_j, segment_end <- p_segment_end, leftover <- p_leftover, num <-
  p_num, out <- p_out

r == INSTANCE Redirect WITH
  kind <- r_kind, cmd <- r_cmd, tty <- r_tty, args <- r_args, was <- r_was,
  files <- r_files, pc <- r_pc, i <- r_i, in <- r_in, out <- r_out, intmp <-
  r_intmp, outtmp <- r_outtmp, buf <- r_buf, screen <- r_screen, failed <- r_failed

k == INSTANCE Lookup WITH
  word <- k_word, here <- k_here, path <- k_path, bg <- k_bg, step <- k_step,
  found <- k_found, ran <- k_ran

h == INSTANCE Hop WITH
  Matches <- MatchesAll, exists <- h_exists, cwd <- h_cwd, prev_dir <-
  h_prev_dir, history <- h_history, now <- h_now, visits <- h_visits, hops <-
  h_hops

m == INSTANCE Umalloc WITH
  ptr <- m_ptr, size <- m_size, freep <- m_freep, brk <- m_brk, live <-
  m_live, core <- m_core

g == INSTANCE Grep WITH
  Jobs <- GrepJobs, re <- g_re, text <- g_text, at <- g_at, buf <- g_buf, out
  <- g_out, eof <- g_eof

t == INSTANCE Text WITH
  Args <- TheArgs, call <- t_call

x == INSTANCE ShParse

\* A line for sh, typed character by character.
Type ==
  \/ Len(x_text) < MaxText /\ \E c \in x!Symbols \cup {"a", " "} : x_text' = Append(x_text, c)
  \/ UNCHANGED x_text

-----------------------------------------------------------------------------
(* The parts that are not exercised keep one initial state.                 *)
AllInit ==
  /\ part \in {"jobs", "line", "peek", "redirect", "lookup", "hop", "parse", "malloc", "grep",
              "text"}
  /\ Init /\ (part # "jobs" => menu = CHOOSE m_ \in Menus : TRUE)
  /\ IF part = "line" THEN l!Init
     ELSE /\ l_line = <<>> /\ l_step = "wait" /\ l_tokens = <<>>
          /\ l_verdict = "none" /\ l_from = 1 /\ l_ran = <<>> /\ l_refused = FALSE
  /\ IF part = "peek" THEN p!Init
     ELSE /\ p_file = <<>> /\ p_size = 1 /\ p_pc = "done" /\ p_pos = 0
          /\ p_chunk = <<>> /\ p_j = 0 /\ p_segment_end = 0
          /\ p_leftover = <<>> /\ p_num = 0 /\ p_out = <<>>
  /\ IF part = "redirect" THEN r!Init
     ELSE /\ r_kind = "fg" /\ r_cmd = "none" /\ r_tty = TRUE /\ r_args = <<>>
          /\ r_was = [n \in Names |-> r!Absent] /\ r_files = r_was /\ r_pc = "end" /\ r_i = 1
          /\ r_in = "shell" /\ r_out = "shell" /\ r_intmp = <<>> /\ r_outtmp = <<>>
          /\ r_buf = <<>> /\ r_screen = <<>> /\ r_failed = FALSE
  /\ IF part = "lookup" THEN k!Init
     ELSE /\ k_word = "plain" /\ k_here = "none" /\ k_path = <<>> /\ k_bg = FALSE
          /\ k_step = "end" /\ k_found = k!Missing /\ k_ran = k!Missing
  /\ h!Init /\ x_text = <<>> /\ m!Init
  /\ IF part = "grep" THEN g!Init
     ELSE /\ g_re = <<>> /\ g_text = <<>> /\ g_at = 0 /\ g_buf = <<>> /\ g_out = <<>>
          /\ g_eof = TRUE
  /\ IF part = "text" THEN t!Init ELSE t_call = [op |-> "print", fmt |-> <<>>]

AllNext ==
  /\ UNCHANGED part
  /\ \/ part = "jobs" /\ Next
        /\ UNCHANGED <<lvars, pvars, dvars, kvars, hvars, mvars, gvars, tvars, x_text>>
     \/ part = "line" /\ l!Next
        /\ UNCHANGED <<vars, pvars, dvars, kvars, hvars, mvars, gvars, tvars, x_text>>
     \/ part = "peek" /\ p!Next
        /\ UNCHANGED <<vars, lvars, dvars, kvars, hvars, mvars, gvars, tvars, x_text>>
     \/ part = "redirect" /\ r!Next
        /\ UNCHANGED <<vars, lvars, pvars, kvars, hvars, mvars, gvars, tvars, x_text>>
     \/ part = "lookup" /\ k!Next
        /\ UNCHANGED <<vars, lvars, pvars, dvars, hvars, mvars, gvars, tvars, x_text>>
     \/ part = "hop" /\ h!Next
        /\ UNCHANGED <<vars, lvars, pvars, dvars, kvars, mvars, gvars, tvars, x_text>>
     \/ part = "malloc" /\ m!Next
        /\ UNCHANGED <<vars, lvars, pvars, dvars, kvars, hvars, gvars, tvars, x_text>>
     \/ part = "grep" /\ g!Next
        /\ UNCHANGED <<vars, lvars, pvars, dvars, kvars, hvars, mvars, tvars, x_text>>
     \/ part = "text" /\ t!Next
        /\ UNCHANGED <<vars, lvars, pvars, dvars, kvars, hvars, mvars, gvars, x_text>>
     \/ part = "parse" /\ Type
        /\ UNCHANGED <<vars, lvars, pvars, dvars, kvars, hvars, mvars, gvars, tvars>>

AllSpec ==
  AllInit /\ [][AllNext]_<<part, vars, lvars, pvars, dvars, kvars, hvars, mvars, gvars, tvars, x_text>>

-----------------------------------------------------------------------------
(* Line: exactly the lines of the grammar are run, and their commands get   *)
(* the words that were written.  Lookup: the child runs the file the shell  *)
(* found before it forked.                                                  *)
RunsAsWritten ==
  /\ part = "line" => l!RunsAsWritten
  /\ part = "lookup" => k!RunsWhatWasFound

(* Redirect: a command reads its input files and writes its output files as *)
(* the line says, and the shell's own descriptors come back.                *)
RedirectsAsWritten == part = "redirect" => r!RedirectsAsWritten

(* Peek: wherever the chunks end, lines come out whole, once, in reverse    *)
(* order and with the numbers of the forward pass.  Hop: the history counts *)
(* the hops to each directory.                                              *)
BuiltinsExact ==
  /\ part = "peek" => p!ReversedWhole
  /\ part = "hop" => h!HopRemembers

(* ShParse: parsecmd() gives every line the tree the grammar gives it, and  *)
(* refuses exactly the lines the grammar refuses.                           *)
SyntaxExact == part = "parse" => x!parsecmd(x_text) = x!MeaningOf(x_text)

(* Umalloc: blocks in use do not overlap, free ones are in one ring, and no *)
(* unit got from sbrk is lost.                                              *)
HeapSound == part = "malloc" => m!HeapSound

(* Text: moves, copies, comparisons and conversions do what they say, and   *)
(* printk and printf agree.  Grep: wherever reads end, the lines that match *)
(* and fit in the buffer are written.                                       *)
TextExact ==
  /\ part = "text" => t!StringsExact /\ t!PrintersAgree
  /\ part = "grep" => g!GrepSelects
=============================================================================
