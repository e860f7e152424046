----------------------------- MODULE AtomicDisk -----------------------------
(***************************************************************************)
(* What the write-ahead log of xv6/kernel/log.c promises the file system:  *)
(* the writes of the system calls between two commits reach the disk all   *)
(* together or, after a crash, not at all, and never while one of the      *)
(* calls is still under way.                                               *)
(***************************************************************************)
CONSTANTS Procs, Blocks, Data

VARIABLES
  stable,   \* what a reboot finds on the disk
  current,  \* what the system calls read and write
  active    \* the processes inside begin_op() ... end_op()

Init ==
  /\ stable \in [Blocks -> Data]
  /\ current = stable
  /\ active = {}

Begin(p) ==
  /\ p \notin active
  /\ active' = active \cup {p}
  /\ UNCHANGED <<stable, current>>

Write(p, b, v) ==
  /\ p \in active
  /\ current' = [current EXCEPT ![b] = v]
  /\ UNCHANGED <<stable, active>>

End(p) ==
  /\ p \in active
  /\ active' = active \ {p}
  /\ UNCHANGED <<stable, current>>

Commit ==
  /\ active = {}
  /\ stable' = current
  /\ UNCHANGED <<current, active>>

Crash ==
  /\ current' = stable
  /\ active' = {}
  /\ UNCHANGED stable

Next ==
  \/ \E p \in Procs : Begin(p) \/ End(p)
  \/ \E p \in Procs, b \in Blocks, v \in Data : Write(p, b, v)
  \/ Commit
  \/ Crash

Spec == Init /\ [][Next]_<<stable, current, active>>
=============================================================================
