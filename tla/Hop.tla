-------------------------------- MODULE Hop ---------------------------------
(***************************************************************************)
(* c-shell/src/hop.c: changing the directory, prev_dir for "hop -", and    *)
(* the history file that finds a directory by a part of its name.  The     *)
(* shell starts anew at times: cwd and prev_dir are gone, the file stays.  *)
(***************************************************************************)
EXTENDS Integers, Sequences, FiniteSets

CONSTANTS
  Dirs, Home, NoDir,
  Matches,        \* for each word, the directories whose path it is part of
  MaxHistory,     \* 64 in update_frecency
  Weight,         \* 10000000 in search_frecency
  MaxTime, MaxHops

VARIABLES
  exists,         \* the directories there are now
  cwd, prev_dir,
  history,        \* the lines of .hop_history
  now,            \* time(NULL)
  visits,         \* how often each directory was hopped to
  hops

vars == <<exists, cwd, prev_dir, history, now, visits, hops>>

Init ==
  /\ exists = Dirs
  /\ cwd = Home /\ prev_dir = NoDir
  /\ history = <<>> /\ now = 0
  /\ visits = [d \in Dirs |-> 0] /\ hops = 0

Entry(d, f) == [path |-> d, frequency |-> f, recency |-> now]
Known(d) == \E k \in DOMAIN history : history[k].path = d

(* A full table takes no new directory.                                     *)
update_frecency(d) ==
  IF Known(d)
  THEN [k \in DOMAIN history |->
          IF history[k].path = d THEN Entry(d, history[k].frequency + 1) ELSE history[k]]
  ELSE IF Len(history) < MaxHistory THEN Append(history, Entry(d, 1))
  ELSE history

(* The first line with the best score among the matches that still exist.   *)
Score(k) == history[k].frequency * Weight + history[k].recency
search_frecency(w) ==
  LET good == {k \in DOMAIN history : history[k].path \in Matches[w] \cap exists}
      best == {k \in good : \A m \in good : Score(m) < Score(k) \/ (Score(m) = Score(k) /\ m >= k)}
  IN IF good = {} THEN NoDir ELSE history[CHOOSE k \in best : TRUE].path

(* One argument of execute_hop: chdir() to d, NoDir if there is none.       *)
GoTo(d) ==
  /\ hops < MaxHops /\ hops' = hops + 1
  /\ IF d \in exists
     THEN /\ cwd' = d /\ prev_dir' = cwd
          /\ history' = update_frecency(d)
          /\ visits' = [visits EXCEPT ![d] = @ + 1]
     ELSE UNCHANGED <<cwd, prev_dir, history, visits>>
  /\ UNCHANGED <<exists, now>>

HopHome == GoTo(Home)                                  \* no argument, or "~"
HopBack == prev_dir # NoDir /\ GoTo(prev_dir)          \* "-"
HopTo ==                                               \* a directory, or a part of its path
  \E w \in DOMAIN Matches : GoTo(IF w \in exists THEN w ELSE search_frecency(w))

-----------------------------------------------------------------------------
(* Other programs, the clock, and a new shell.                              *)
Remove ==
  /\ \E d \in exists \ {Home, cwd} : exists' = exists \ {d}
  /\ UNCHANGED <<cwd, prev_dir, history, now, visits, hops>>

Make ==
  /\ \E d \in Dirs \ exists : exists' = exists \cup {d}
  /\ UNCHANGED <<cwd, prev_dir, history, now, visits, hops>>

Tick ==
  /\ now < MaxTime /\ now' = now + 1
  /\ UNCHANGED <<exists, cwd, prev_dir, history, visits, hops>>

Restart ==
  /\ cwd' = Home /\ prev_dir' = NoDir
  /\ UNCHANGED <<exists, history, now, visits, hops>>

Next ==
  \/ HopHome \/ HopBack \/ HopTo
  \/ Remove \/ Make \/ Tick \/ Restart

(* The history has one line for a directory, with the number of hops to it  *)
(* over all runs of the shell, by whatever name and however often it has    *)
(* vanished in between; one is missing only when the table is full.         *)
HopRemembers ==
  /\ Len(history) <= MaxHistory
  /\ \A k, m \in DOMAIN history : history[k].path = history[m].path => k = m
  /\ \A k \in DOMAIN history : history[k].frequency = visits[history[k].path]
  /\ \A d \in Dirs : visits[d] > 0 /\ ~Known(d) => Len(history) = MaxHistory
=============================================================================
