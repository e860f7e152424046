----------------------------- MODULE MlfqProofs -----------------------------
(***************************************************************************)
(* Proofs about Mlfq for every number of processes and harts, every slice  *)
(* and every boost period.                                                 *)
(***************************************************************************)
EXTENDS Mlfq, TLAPS

(* Where a hart is determines whether it has a process or a candidate.      *)
HartInv ==
  \A c \in CPUs :
    /\ pc[c] = "hand" <=> cand[c] # None
    /\ pc[c] \in {"idle", "scan", "hand"} => proc[c] = None
    /\ pc[c] \in {"run", "yield", "enq", "out"} => proc[c] # None

(* What a hart is doing with its process determines the process's state.    *)
StateInv ==
  \A c \in CPUs : proc[c] # None =>
    /\ pc[c] = "enq" => state[proc[c]] = "RUNNABLE"
    /\ pc[c] = "out" => state[proc[c]] \in {"RUNNABLE", "SLEEPING", "ZOMBIE"}
    /\ pc[c] \notin {"enq", "out"} => state[proc[c]] = "RUNNING"

(* A process is on at most one hart.                                        *)
HartInj == \A c, d \in CPUs : proc[c] # None /\ proc[c] = proc[d] => c = d

(* A RUNNING process is on a hart.                                          *)
RunningInv ==
  \A p \in Proc : state[p] = "RUNNING" => \E c \in CPUs : proc[c] = p

(* An entry a kfork() is filling in is USED, and only one kfork() fills it. *)
ChildInv ==
  /\ \A p \in Proc : child[p] # None => state[child[p]] = "USED"
  /\ \A p, r \in Proc : child[p] # None /\ child[p] = child[r] => p = r

IInv ==
  /\ TypeOK
  /\ HartInv
  /\ StateInv
  /\ HartInj
  /\ RunningInv
  /\ ChildInv
  /\ QueuedOnce
  /\ RunnableIsQueued
  /\ NoFault

-----------------------------------------------------------------------------
(* Facts about the queues.                                                  *)

(* Sequences without repetition, and what they hold.                        *)
Inj(s) == \A i, j \in 1..Len(s) : s[i] = s[j] => i = j
Has(s, r) == \E i \in 1..Len(s) : s[i] = r

(* The pigeonhole principle for the process table: a queue that holds nobody*)
(* twice is no longer than the table, and shorter if somebody is not in it. *)
TableRoom ==
  \A s \in Seq(Proc) : Inj(s) =>
    /\ Len(s) <= NPROC
    /\ \A p \in Proc : ~Has(s, p) => Len(s) < NPROC

(* Joining two sequences without repetition that share nothing.             *)
LEMMA JoinLemma ==
  ASSUME NEW S, NEW s \in Seq(S), NEW t \in Seq(S), Inj(s), Inj(t),
         \A r \in S : ~(Has(s, r) /\ Has(t, r))
  PROVE  /\ s \o t \in Seq(S)
         /\ Inj(s \o t)
         /\ \A r \in S : Has(s \o t, r) <=> Has(s, r) \/ Has(t, r)
<1> DEFINE u == s \o t
           m == Len(s)
           n == Len(t)
<1>1. /\ u \in Seq(S)
      /\ m \in Nat /\ n \in Nat
      /\ Len(u) = m + n
      /\ \A i \in 1..m + n : u[i] = IF i <= m THEN s[i] ELSE t[i - m]
  OBVIOUS
<1>2. /\ \A i \in 1..m : s[i] \in S
      /\ \A i \in 1..n : t[i] \in S
  OBVIOUS
<1> HIDE DEF u, m, n
<1>3. ASSUME NEW i \in 1..Len(u)
      PROVE  \/ i \in 1..m /\ u[i] = s[i]
             \/ i - m \in 1..n /\ u[i] = t[i - m]
  BY <1>1
<1>4. \A i \in 1..m, j \in 1..n : s[i] # t[j]
  BY <1>2, Zenon DEF Has, m, n
<1>5. Inj(u)
  <2> SUFFICES ASSUME NEW i \in 1..Len(u), NEW j \in 1..Len(u), u[i] = u[j]
               PROVE  i = j
    BY DEF Inj
  <2>1. i \in Int /\ j \in Int
    OBVIOUS
  <2>2. CASE i \in 1..m /\ j \in 1..m /\ u[i] = s[i] /\ u[j] = s[j]
    BY <2>2, ZenonT(40) DEF Inj, m
  <2>3. CASE i - m \in 1..n /\ j - m \in 1..n /\ u[i] = t[i - m] /\ u[j] = t[j - m]
    <3>1. i - m = j - m
      BY <2>3, ZenonT(40) DEF Inj, n
    <3>2. QED
      BY <1>1, <2>1, <3>1
  <2>4. QED
    BY <1>3, <1>4, <2>2, <2>3, Zenon
<1>6. ASSUME NEW r \in S
      PROVE  Has(u, r) <=> Has(s, r) \/ Has(t, r)
  <2>1. ASSUME Has(u, r) PROVE Has(s, r) \/ Has(t, r)
    BY <1>3, <2>1, Zenon DEF Has, m, n
  <2>2. ASSUME Has(s, r) PROVE Has(u, r)
    <3>1. PICK i \in 1..m : s[i] = r
      BY <2>2 DEF Has, m
    <3>2. i \in 1..Len(u) /\ u[i] = r
      BY <1>1, <3>1
    <3>3. QED
      BY <3>2, Zenon DEF Has
  <2>3. ASSUME Has(t, r) PROVE Has(u, r)
    <3>1. PICK i \in 1..n : t[i] = r
      BY <2>3, Zenon DEF Has, n
    <3>2. i + m \in 1..Len(u) /\ u[i + m] = r
      <4>1. i + m \in 1..m + n /\ ~(i + m <= m) /\ i + m - m = i
        BY <1>1
      <4>2. QED
        BY <1>1, <3>1, <4>1
    <3>3. QED
      BY <3>2 DEF Has
  <2>4. QED
    BY <2>1, <2>2, <2>3, Zenon
<1>7. QED
  BY <1>1, <1>5, <1>6, Zenon DEF u

(* enqueue(q, p) of a process that is in no queue: it does not panic, and p *)
(* is the one process that becomes queued.                                  *)
LEMMA EnqueueLemma ==
  ASSUME TableRoom, TypeOK, QueuedOnce,
         NEW q \in Levels, NEW p \in Proc, ~Queued(p), enqueue(q, p)
  PROVE  /\ mlfq' \in [Levels -> Seq(Proc)]
         /\ fault' = fault
         /\ QueuedOnce'
         /\ \A r \in Proc : Queued(r)' <=> Queued(r) \/ r = p
<1>1. mlfq \in [Levels -> Seq(Proc)]
  BY DEF TypeOK
<1>2. mlfq[q] \in Seq(Proc) /\ Len(mlfq[q]) \in Nat
  BY <1>1
<1>3. Len(mlfq[q]) < NPROC
  <2>1. Inj(mlfq[q])
    BY DEF QueuedOnce, Inj
  <2>2. ~Has(mlfq[q], p)
    BY Zenon DEF Queued, Has
  <2>3. QED
    BY <1>2, <2>1, <2>2, Zenon DEF TableRoom
<1>4. mlfq' = [mlfq EXCEPT ![q] = Append(@, p)] /\ fault' = fault
  BY <1>2, <1>3, NprocAssumption DEF enqueue
<1>5. /\ mlfq' \in [Levels -> Seq(Proc)]
      /\ \A r \in Levels : r # q => mlfq'[r] = mlfq[r]
      /\ mlfq'[q] = Append(mlfq[q], p)
  BY <1>1, <1>2, <1>4
<1>6. /\ Len(mlfq'[q]) = Len(mlfq[q]) + 1
      /\ \A i \in 1..Len(mlfq[q]) : mlfq'[q][i] = mlfq[q][i]
      /\ mlfq'[q][Len(mlfq[q]) + 1] = p
  BY <1>2, <1>5
<1>7. \A r \in Levels : \A i \in 1..Len(mlfq'[r]) :
         \/ i \in 1..Len(mlfq[r]) /\ mlfq'[r][i] = mlfq[r][i]
         \/ r = q /\ i = Len(mlfq[q]) + 1 /\ mlfq'[r][i] = p
  <2> TAKE r \in Levels
  <2> TAKE i \in 1..Len(mlfq'[r])
  <2>1. CASE r # q
    BY <1>5, <2>1, Zenon
  <2>2. CASE r = q
    <3>1. i \in 1..Len(mlfq[q]) + 1
      BY <1>6, <2>2, Zenon
    <3>2. i \in 1..Len(mlfq[q]) \/ i = Len(mlfq[q]) + 1
      BY <1>2, <3>1
    <3>3. QED
      BY <1>6, <2>2, <3>2, Zenon
  <2>3. QED
    BY <2>1, <2>2, Zenon
<1>8. \A r \in Levels : \A i \in 1..Len(mlfq[r]) : mlfq[r][i] # p
  BY Zenon DEF Queued
<1>9. QueuedOnce'
  BY <1>7, <1>8, SMTT(40) DEF QueuedOnce
<1>10. \A r \in Proc : Queued(r)' <=> Queued(r) \/ r = p
  <2>1. \A r \in Levels : \A i \in 1..Len(mlfq[r]) :
           i \in 1..Len(mlfq'[r]) /\ mlfq'[r][i] = mlfq[r][i]
    <3> TAKE r \in Levels
    <3> TAKE i \in 1..Len(mlfq[r])
    <3>1. CASE r = q
      BY <1>2, <1>6, <3>1
    <3>2. CASE r # q
      BY <1>5, <3>2
    <3>3. QED
      BY <3>1, <3>2, Zenon
  <2>2. Len(mlfq[q]) + 1 \in 1..Len(mlfq'[q])
    BY <1>2, <1>6
  <2>3. QED
    BY <1>6, <1>7, <2>1, <2>2, SMTT(40) DEF Queued
<1>11. QED
  BY <1>4, <1>5, <1>9, <1>10

(* dequeue(q) of a non-empty queue: its head is the one process that stops  *)
(* being queued.                                                            *)
LEMMA DequeueLemma ==
  ASSUME TypeOK, QueuedOnce, NEW q \in Levels, mlfq[q] # <<>>,
         mlfq' = [mlfq EXCEPT ![q] = Tail(@)]
  PROVE  /\ Head(mlfq[q]) \in Proc
         /\ Queued(Head(mlfq[q]))
         /\ mlfq' \in [Levels -> Seq(Proc)]
         /\ QueuedOnce'
         /\ \A r \in Proc : Queued(r)' <=> Queued(r) /\ r # Head(mlfq[q])
<1>1. mlfq \in [Levels -> Seq(Proc)] /\ mlfq[q] \in Seq(Proc)
  BY DEF TypeOK
<1>2. /\ Head(mlfq[q]) \in Proc
      /\ Tail(mlfq[q]) \in Seq(Proc)
      /\ Len(mlfq[q]) \in Nat \ {0}
      /\ Head(mlfq[q]) = mlfq[q][1]
      /\ Len(Tail(mlfq[q])) = Len(mlfq[q]) - 1
      /\ \A i \in 1..Len(mlfq[q]) - 1 : Tail(mlfq[q])[i] = mlfq[q][i + 1]
  BY <1>1
<1>3. /\ mlfq' \in [Levels -> Seq(Proc)]
      /\ \A r \in Levels : r # q => mlfq'[r] = mlfq[r]
      /\ mlfq'[q] = Tail(mlfq[q])
  BY <1>1, <1>2
<1>4. \A r \in Levels : Len(mlfq[r]) \in Nat
  BY <1>1
<1>5. \A r \in Levels : \A i \in 1..Len(mlfq'[r]) :
         \/ r # q /\ i \in 1..Len(mlfq[r]) /\ mlfq'[r][i] = mlfq[r][i]
         \/ r = q /\ i + 1 \in 2..Len(mlfq[q]) /\ mlfq'[r][i] = mlfq[q][i + 1]
  BY <1>2, <1>3, <1>4
<1>6. QueuedOnce'
  <2> SUFFICES ASSUME NEW r \in Levels, NEW t \in Levels,
                      NEW i \in 1..Len(mlfq'[r]), NEW j \in 1..Len(mlfq'[t]),
                      mlfq'[r][i] = mlfq'[t][j]
               PROVE  r = t /\ i = j
    BY Zenon DEF QueuedOnce
  <2> DEFINE m == IF r = q THEN i + 1 ELSE i
             n == IF t = q THEN j + 1 ELSE j
  <2>1. m \in 1..Len(mlfq[r]) /\ mlfq'[r][i] = mlfq[r][m]
    BY <1>2, <1>3, <1>4, <1>5
  <2>2. n \in 1..Len(mlfq[t]) /\ mlfq'[t][j] = mlfq[t][n]
    BY <1>2, <1>3, <1>4, <1>5
  <2>3. r = t /\ m = n
    BY <2>1, <2>2 DEF QueuedOnce
  <2>4. i \in Int /\ j \in Int
    OBVIOUS
  <2>5. QED
    BY <2>3, <2>4
<1>7. Queued(Head(mlfq[q]))
  <2>1. 1 \in 1..Len(mlfq[q])
    BY <1>2
  <2>2. QED
    BY <1>2, <2>1, Zenon DEF Queued
<1>8. \A r \in Proc : Queued(r)' <=> Queued(r) /\ r # Head(mlfq[q])
  <2> TAKE r \in Proc
  <2>1. ASSUME Queued(r)'
        PROVE  Queued(r) /\ r # Head(mlfq[q])
    <3>1. PICK t \in Levels : \E i \in 1..Len(mlfq'[t]) : mlfq'[t][i] = r
      BY <2>1, Zenon DEF Queued
    <3>2. PICK i \in 1..Len(mlfq'[t]) : mlfq'[t][i] = r
      BY <3>1, Zenon
    <3>3. CASE t # q
      <4>1. i \in 1..Len(mlfq[t]) /\ mlfq[t][i] = r
        BY <1>3, <3>2, <3>3, Zenon
      <4>2. 1 \in 1..Len(mlfq[q])
        BY <1>2
      <4>3. r # mlfq[q][1]
        BY <3>3, <4>1, <4>2, Zenon DEF QueuedOnce
      <4>4. QED
        BY <1>2, <4>1, <4>3 DEF Queued
    <3>4. CASE t = q
      <4>1. i + 1 \in 1..Len(mlfq[q]) /\ mlfq[q][i + 1] = r /\ i + 1 # 1
        BY <1>2, <1>5, <3>2, <3>4, SMTT(40)
      <4>2. 1 \in 1..Len(mlfq[q])
        BY <1>2
      <4>3. r # mlfq[q][1]
        BY <4>1, <4>2 DEF QueuedOnce
      <4>4. QED
        BY <1>2, <4>1, <4>3, Zenon DEF Queued
    <3>5. QED
      BY <3>3, <3>4, Zenon
  <2>2. ASSUME Queued(r), r # Head(mlfq[q])
        PROVE  Queued(r)'
    <3>1. PICK t \in Levels : \E i \in 1..Len(mlfq[t]) : mlfq[t][i] = r
      BY <2>2 DEF Queued
    <3>2. PICK i \in 1..Len(mlfq[t]) : mlfq[t][i] = r
      BY <3>1, Zenon
    <3>3. CASE t # q
      BY <1>3, <3>2, <3>3 DEF Queued
    <3>4. CASE t = q
      <4>1. i # 1
        BY <1>2, <2>2, <3>2, <3>4, Zenon
      <4>2. i - 1 \in 1..Len(mlfq[q]) - 1 /\ i - 1 + 1 = i
        BY <1>2, <3>2, <3>4, <4>1
      <4>3. mlfq'[q][i - 1] = r
        BY <1>2, <1>3, <3>2, <3>4, <4>2, Zenon
      <4>4. i - 1 \in 1..Len(mlfq'[q])
        BY <1>2, <1>3, <4>2
      <4>5. QED
        BY <4>3, <4>4, ZenonT(40) DEF Queued
    <3>5. QED
      BY <3>3, <3>4, Zenon
  <2>3. QED
    BY <2>1, <2>2, Zenon
<1>9. QED
  BY <1>2, <1>3, <1>6, <1>7, <1>8, Zenon

(* boost_priority()'s move of all entries to queue 0 fits in the array,     *)
(* duplicates none and loses none.                                          *)
LEMMA RequeueLemma ==
  ASSUME TableRoom, TypeOK, QueuedOnce, BoostRequeue
  PROVE  /\ mlfq' \in [Levels -> Seq(Proc)]
         /\ fault' = fault
         /\ QueuedOnce'
         /\ \A r \in Proc : Queued(r)' <=> Queued(r)
<1> DEFINE a == mlfq[0] \o mlfq[1]
           b == a \o mlfq[2]
           d == b \o mlfq[3]
<1>1. /\ mlfq[0] \in Seq(Proc) /\ mlfq[1] \in Seq(Proc)
      /\ mlfq[2] \in Seq(Proc) /\ mlfq[3] \in Seq(Proc)
  BY DEF TypeOK, Levels
<1>2. \A q \in Levels : Inj(mlfq[q])
  BY DEF QueuedOnce, Inj
<1>3. \A q, t \in Levels : q # t =>
         \A r \in Proc : ~(Has(mlfq[q], r) /\ Has(mlfq[t], r))
  BY DEF QueuedOnce, Has
<1>4. 0 \in Levels /\ 1 \in Levels /\ 2 \in Levels /\ 3 \in Levels
  BY DEF Levels
<1>5. /\ a \in Seq(Proc) /\ Inj(a)
      /\ \A r \in Proc : Has(a, r) <=> Has(mlfq[0], r) \/ Has(mlfq[1], r)
  <2>1. Inj(mlfq[0]) /\ Inj(mlfq[1])
    BY <1>2, <1>4, Zenon
  <2>2. \A r \in Proc : ~(Has(mlfq[0], r) /\ Has(mlfq[1], r))
    BY <1>3, <1>4
  <2>3. QED
    BY <1>1, <2>1, <2>2, JoinLemma
<1> HIDE DEF a
<1>6. /\ b \in Seq(Proc) /\ Inj(b)
      /\ \A r \in Proc : Has(b, r) <=> Has(a, r) \/ Has(mlfq[2], r)
  <2>1. Inj(mlfq[2])
    BY <1>2, <1>4, Zenon
  <2>2. \A r \in Proc : ~(Has(a, r) /\ Has(mlfq[2], r))
    BY <1>3, <1>4, <1>5
  <2>3. QED
    BY <1>1, <1>5, <2>1, <2>2, JoinLemma
<1> HIDE DEF b
<1>7. /\ d \in Seq(Proc) /\ Inj(d)
      /\ \A r \in Proc : Has(d, r) <=> Has(b, r) \/ Has(mlfq[3], r)
  <2>1. Inj(mlfq[3])
    BY <1>2, <1>4, Zenon
  <2>2. \A r \in Proc : ~(Has(b, r) /\ Has(mlfq[3], r))
    BY <1>3, <1>4, <1>5, <1>6
  <2>3. QED
    BY <1>1, <1>6, <2>1, <2>2, JoinLemma
<1>8. /\ mlfq' = [q \in Levels |-> IF q = 0 THEN d ELSE <<>>]
      /\ fault' = IF Len(d) > NPROC THEN "overrun" ELSE fault
  BY Zenon DEF BoostRequeue, a, b
<1> HIDE DEF d
<1>9. /\ mlfq' \in [Levels -> Seq(Proc)]
      /\ mlfq'[0] = d
      /\ \A q \in Levels : q # 0 => mlfq'[q] = <<>>
  <2>1. <<>> \in Seq(Proc)
    OBVIOUS
  <2>2. QED
    BY <1>4, <1>7, <1>8, <2>1, Zenon
<1>10. Len(d) <= NPROC /\ Len(d) \in Nat
  BY <1>7 DEF TableRoom
<1>11. fault' = fault
  BY <1>8, <1>10, NprocAssumption
<1>12. \A q \in Levels : \A i \in 1..Len(mlfq'[q]) : q = 0
  <2>1. Len(<<>>) = 0
    BY Zenon
  <2>2. QED
    BY <1>9, <2>1
<1>13. QueuedOnce'
  BY <1>7, <1>9, <1>12, Zenon DEF QueuedOnce, Inj
<1>14. \A r \in Proc : Queued(r)' <=> Has(d, r)
  BY <1>4, <1>9, <1>12, Zenon DEF Queued, Has
<1>15. \A r \in Proc : Queued(r) <=> \E q \in Levels : Has(mlfq[q], r)
  BY Zenon DEF Queued, Has
<1>16. \A q \in Levels : q = 0 \/ q = 1 \/ q = 2 \/ q = 3
  BY DEF Levels
<1>17. \A r \in Proc : Queued(r)' <=> Queued(r)
  BY <1>4, <1>5, <1>6, <1>7, <1>14, <1>15, <1>16, Zenon
<1>18. QED
  BY <1>9, <1>11, <1>13, <1>17, Zenon

-----------------------------------------------------------------------------
(* The inductive invariant holds initially.                                 *)
LEMMA InitIInv == Init => IInv
<1> SUFFICES ASSUME Init PROVE IInv
  BY Zenon
<1>1. initproc \in Proc /\ 0 \notin Proc
  BY NprocAssumption DEF initproc, Proc
<1>2. /\ <<initproc>> \in Seq(Proc) /\ Len(<<initproc>>) = 1
      /\ <<initproc>>[1] = initproc
      /\ <<>> \in Seq(Proc) /\ Len(<<>>) = 0
  BY <1>1
<1>3. /\ 0 \in Levels
      /\ mlfq[0] = <<initproc>> 
      /\ \A q \in Levels : q # 0 => mlfq[q] = <<>>
  BY DEF Init, Levels
<1>4. mlfq \in [Levels -> Seq(Proc)]
  BY <1>2, Zenon DEF Init
<1>5. TypeOK
  BY <1>1, <1>4, NprocAssumption DEF Init, TypeOK, Levels, ProcState, Pc, Proc
<1>6. HartInv /\ StateInv /\ HartInj /\ RunningInv /\ ChildInv /\ NoFault
  BY Zenon DEF Init, HartInv, StateInv, HartInj, RunningInv, ChildInv, NoFault
<1>7. \A q \in Levels : \A i \in 1..Len(mlfq[q]) : q = 0 /\ i = 1
  <2> TAKE q \in Levels
  <2> TAKE i \in 1..Len(mlfq[q])
  <2>1. CASE q = 0
    <3>1. i \in 1..1
      BY <1>2, <1>3, <2>1, ZenonT(40)
    <3>2. QED
      BY <2>1, <3>1
  <2>2. CASE q # 0
    <3>1. i \in 1..0
      BY <1>2, <1>3, <2>2, Zenon
    <3>2. QED
      BY <3>1
  <2>3. QED
    BY <2>1, <2>2
<1>8. QueuedOnce
  BY <1>7, Zenon DEF QueuedOnce
<1>9. \A p \in Proc : Queued(p) <=> p = initproc
  <2>1. 1 \in 1..Len(mlfq[0]) /\ mlfq[0][1] = initproc
    BY <1>2, <1>3
  <2>2. QED
    BY <1>3, <1>7, <2>1, Zenon DEF Queued
<1>10. RunnableIsQueued
  BY <1>9, Zenon DEF Init, RunnableIsQueued, InTransit
<1>11. QED
  BY <1>5, <1>6, <1>8, <1>10 DEF IInv

(* The process and the candidate of a hart are processes where it uses them.*)
LEMMA HartTypes ==
  ASSUME IInv, NEW c \in CPUs
  PROVE  /\ pc[c] = "hand" => cand[c] \in Proc
         /\ pc[c] \in {"run", "yield", "enq", "out"} => proc[c] \in Proc
BY Zenon DEF IInv, TypeOK, HartInv

(* Every step keeps every variable in its type.                             *)
LEMMA TypeStep == TableRoom /\ IInv /\ Next => TypeOK'
<1> SUFFICES ASSUME TableRoom, IInv, Next PROVE TypeOK'
  BY Zenon
<1> USE DEF procVars, cpuVars, clockVars, Levels, ProcState, Pc
<1>0. TypeOK /\ QueuedOnce
  BY Zenon DEF IInv
<1>1. ASSUME NEW c \in CPUs, Dequeue(c)
      PROVE  TypeOK'
  <2>1. CASE mlfq[qi[c]] = <<>>
    <3>1. qi[c] \in 0..3
      BY <1>0, Zenon DEF TypeOK
    <3>2. (IF qi[c] < 3 THEN qi[c] + 1 ELSE 0) \in 0..3
      BY <3>1
    <3>3. qi' \in [CPUs -> Levels] /\ pc' \in [CPUs -> Pc]
      BY <1>0, <1>1, <2>1, <3>2, ZenonT(40) DEF Dequeue, Shifted, TypeOK
    <3>4. QED
      BY <1>0, <1>1, <2>1, <3>3, Zenon DEF Dequeue, Shifted, TypeOK
  <2>2. CASE mlfq[qi[c]] # <<>>
    <3>1. qi[c] \in Levels /\ mlfq' = [mlfq EXCEPT ![qi[c]] = Tail(@)]
      BY <1>0, <1>1, <2>2, Zenon DEF Dequeue, Shifted, TypeOK
    <3>2. Head(mlfq[qi[c]]) \in Proc /\ mlfq' \in [Levels -> Seq(Proc)]
      BY <1>0, <2>2, <3>1, DequeueLemma, ZenonT(40)
    <3>3. QED
      BY <1>0, <1>1, <2>2, <3>2, ZenonT(40) DEF Dequeue, Shifted, TypeOK
  <2>3. QED
    BY <2>1, <2>2, Zenon
<1>2. ASSUME NEW c \in CPUs, Dispatch(c)
      PROVE  TypeOK'
  BY <1>0, <1>2, HartTypes, ZenonT(40) DEF Dispatch, TypeOK
<1>3. ASSUME NEW c \in CPUs, SwitchOut(c)
      PROVE  TypeOK'
  BY <1>0, <1>3 DEF SwitchOut, TypeOK
<1>4. ASSUME NEW c \in CPUs, YieldCharge(c)
      PROVE  TypeOK'
  <2> DEFINE p == proc[c]
  <2>1. p \in Proc /\ ticks[p] + 1 \in Nat /\ queue[p] \in 0..3
    BY <1>0, <1>4, HartTypes DEF YieldCharge, TypeOK
  <2>2. queue[p] < 3 => queue[p] + 1 \in 0..3
    BY <2>1
  <2>3. queue' \in [Proc -> Levels]
    BY <1>0, <1>4, <2>1, <2>2, Zenon DEF YieldCharge, Demoted, TypeOK
  <2>4. ticks' \in [Proc -> Nat]
    <3>1. \/ ticks' = [ticks EXCEPT ![p] = 0]
          \/ ticks' = [ticks EXCEPT ![p] = ticks[p] + 1]
      BY <1>4, ZenonT(40) DEF YieldCharge
    <3>2. ticks \in [Proc -> Nat]
      BY <1>0, Zenon DEF TypeOK
    <3>3. QED
      BY <2>1, <3>1, <3>2
  <2>5. state' \in [Proc -> ProcState] /\ pc' \in [CPUs -> Pc]
    BY <1>0, <1>4, <2>1, ZenonT(40) DEF YieldCharge, TypeOK
  <2>6. QED
    BY <1>0, <1>4, <2>3, <2>4, <2>5, Zenon DEF YieldCharge, TypeOK
<1>5. ASSUME NEW q \in Levels, NEW p \in Proc, enqueue(q, p)
      PROVE  mlfq' \in [Levels -> Seq(Proc)] /\ fault' \in {"none", "panic", "overrun"}
  <2>1. mlfq[q] \in Seq(Proc) /\ mlfq \in [Levels -> Seq(Proc)]
    BY <1>0, Zenon DEF TypeOK
  <2>2. Append(mlfq[q], p) \in Seq(Proc)
    BY <2>1
  <2>3. QED
    BY <1>0, <1>5, <2>1, <2>2, ZenonT(40) DEF enqueue, TypeOK
<1>6. ASSUME NEW c \in CPUs, YieldEnqueue(c)
      PROVE  TypeOK'
  <2>1. proc[c] \in Proc /\ queue[proc[c]] \in Levels
    BY <1>0, <1>6, HartTypes, Zenon DEF YieldEnqueue, TypeOK
  <2>2. mlfq' \in [Levels -> Seq(Proc)] /\ fault' \in {"none", "panic", "overrun"}
    BY <1>5, <1>6, <2>1, Zenon DEF YieldEnqueue
  <2>3. QED
    BY <1>0, <1>6, <2>2, Zenon DEF YieldEnqueue, TypeOK
<1>7. ASSUME NEW p \in Proc, MakeRunnable(p)
      PROVE  /\ state' \in [Proc -> ProcState]
             /\ mlfq' \in [Levels -> Seq(Proc)]
             /\ fault' \in {"none", "panic", "overrun"}
  <2>1. queue[p] \in Levels
    BY <1>0, <1>7, Zenon DEF TypeOK
  <2>2. QED
    BY <1>0, <1>5, <1>7, <2>1, Zenon DEF MakeRunnable, TypeOK
<1>8. ASSUME NEW c \in CPUs, NEW ch \in {"ticks", "other"}, Sleep(c, ch)
      PROVE  TypeOK'
  BY <1>0, <1>8, ZenonT(40) DEF Sleep, TypeOK
<1>9. ASSUME NEW c \in CPUs, NEW p \in Proc, Wakeup(c, p)
      PROVE  TypeOK'
  <2>1. /\ state' \in [Proc -> ProcState]
        /\ mlfq' \in [Levels -> Seq(Proc)]
        /\ fault' \in {"none", "panic", "overrun"}
    BY <1>7, <1>9, Zenon DEF Wakeup
  <2>2. QED
    BY <1>0, <1>9, <2>1, Zenon DEF Wakeup, TypeOK
<1>10. ASSUME NEW c \in CPUs, Exit(c)
       PROVE  TypeOK'
  BY <1>0, <1>10, ZenonT(40) DEF Exit, TypeOK
<1>11. ASSUME NEW c \in CPUs, NEW np \in Proc, ForkAlloc(c, np)
       PROVE  TypeOK'
  BY <1>0, <1>11, HartTypes DEF ForkAlloc, TypeOK
<1>12. ASSUME NEW c \in CPUs, ForkReady(c)
       PROVE  TypeOK'
  <2>1. proc[c] \in Proc /\ child[proc[c]] \in Proc
    BY <1>0, <1>12, HartTypes, Zenon DEF ForkReady, TypeOK
  <2>2. /\ state' \in [Proc -> ProcState]
        /\ mlfq' \in [Levels -> Seq(Proc)]
        /\ fault' \in {"none", "panic", "overrun"}
    BY <1>7, <1>12, <2>1, Zenon DEF ForkReady
  <2>3. QED
    BY <1>0, <1>12, <2>2, ZenonT(40) DEF ForkReady, TypeOK
<1>13. ASSUME NEW c \in CPUs, NEW z \in Proc, Reap(c, z)
       PROVE  TypeOK'
  BY <1>0, <1>13, Zenon DEF Reap, TypeOK
<1>14. ASSUME NEW c \in CPUs, Timer(c)
       PROVE  TypeOK'
  <2>1. (clock + 1) % BoostPeriod \in Nat
    BY <1>0, BoostAssumption DEF TypeOK
  <2>2. clock' \in Nat /\ idx' \in 1..NPROC
    BY <1>0, <1>14, <2>1, NprocAssumption DEF Timer, TypeOK
  <2>3. pc' \in [CPUs -> Pc]
    BY <1>0, <1>14, ZenonT(40) DEF Timer, AfterClock, TypeOK
  <2>4. QED
    BY <1>0, <1>14, <2>2, <2>3, Zenon DEF Timer, TypeOK
<1>15. idx \in Proc
  BY <1>0 DEF TypeOK, Proc
<1>16. ASSUME TickWakeup
       PROVE  TypeOK'
  <2>1. /\ state' \in [Proc -> ProcState]
        /\ mlfq' \in [Levels -> Seq(Proc)]
        /\ fault' \in {"none", "panic", "overrun"}
    <3>1. CASE MakeRunnable(idx)
      BY <1>7, <1>15, <3>1, Zenon
    <3>2. CASE UNCHANGED <<state, mlfq, fault>>
      BY <1>0, <3>2, Zenon DEF TypeOK
    <3>3. QED
      BY <1>16, <3>1, <3>2, Zenon DEF TickWakeup
  <2>2. pc' \in [CPUs -> Pc]
    BY <1>0, <1>16, ZenonT(40) DEF TickWakeup, AfterClock, TypeOK
  <2>3. idx' \in 1..NPROC
    BY <1>15, <1>16, NprocAssumption DEF TickWakeup, Proc
  <2>4. QED
    BY <1>0, <1>16, <2>1, <2>2, <2>3, Zenon DEF TickWakeup, TypeOK
<1>17. ASSUME BoostReset
       PROVE  TypeOK'
  <2>1. idx' \in 1..NPROC
    BY <1>15, <1>17, NprocAssumption DEF BoostReset, ResetLevel, Proc
  <2>2. pc' \in [CPUs -> Pc]
    <3>1. pc \in [CPUs -> Pc]
      BY <1>0 DEF TypeOK
    <3>2. pc' = pc \/ pc' = [pc EXCEPT ![Boot] = "requeue"]
      BY <1>17, ZenonT(40) DEF BoostReset
    <3>3. QED
      BY <3>1, <3>2, ZenonT(40) DEF Pc
  <2>3. queue' \in [Proc -> Levels] /\ ticks' \in [Proc -> Nat]
    <3>1. /\ queue \in [Proc -> Levels] /\ ticks \in [Proc -> Nat]
          /\ queue' = [queue EXCEPT ![idx] = 0]
          /\ ticks' = [ticks EXCEPT ![idx] = 0]
      BY <1>0, <1>17, Zenon DEF BoostReset, ResetLevel, TypeOK
    <3>2. idx \in Proc /\ 0 \in Levels /\ 0 \in Nat
      BY <1>15 DEF Levels
    <3>3. queue' \in [Proc -> Levels]
      BY <3>1, <3>2, Zenon
    <3>4. ticks' \in [Proc -> Nat]
      BY <3>1, <3>2
    <3>5. QED
      BY <3>3, <3>4, Zenon
  <2>4. QED
    BY <1>0, <1>17, <2>1, <2>2, <2>3, Zenon DEF BoostReset, ResetLevel, TypeOK
<1>18. ASSUME BoostRequeue
       PROVE  TypeOK'
  <2>1. mlfq' \in [Levels -> Seq(Proc)] /\ fault' \in {"none", "panic", "overrun"}
    BY <1>0, <1>18, RequeueLemma, Zenon DEF TypeOK
  <2>2. QED
    BY <1>0, <1>18, <2>1, ZenonT(40) DEF BoostRequeue, AfterClock, TypeOK
<1>19. QED
  BY <1>1, <1>2, <1>3, <1>4, <1>6, <1>8, <1>9, <1>10, <1>11, <1>12, <1>13,
     <1>14, <1>16, <1>17, <1>18, Zenon
     DEF Next, Scheduler, Yield, Process, ClockTail

-----------------------------------------------------------------------------
(* What the steps have in common.                                           *)

(* A step that leaves the queues alone leaves what is queued alone.         *)
LEMMA SameQueues ==
  ASSUME QueuedOnce, mlfq' = mlfq
  PROVE  QueuedOnce' /\ \A r \in Proc : Queued(r)' <=> Queued(r)
BY DEF QueuedOnce, Queued

(* The ranges of the variables, element by element.                         *)
LEMMA Ranges ==
  ASSUME IInv
  PROVE  /\ \A c \in CPUs : /\ proc[c] \in Proc \cup {None}
                            /\ cand[c] \in Proc \cup {None}
                            /\ pc[c] \in Pc
                            /\ qi[c] \in Levels
         /\ \A p \in Proc : /\ child[p] \in Proc \cup {None}
                            /\ queue[p] \in Levels
         /\ None \notin Proc
         /\ DOMAIN state = Proc /\ DOMAIN pc = CPUs /\ DOMAIN cand = CPUs
         /\ DOMAIN proc = CPUs /\ DOMAIN child = Proc
<1>1. None \notin Proc
  BY DEF None, Proc
<1>2. QED
  BY <1>1, Zenon DEF IInv, TypeOK

(* The parts of the invariant about harts.                                  *)
Harts == HartInv /\ StateInv /\ HartInj /\ RunningInv

(* A step that moves no process on or off a hart, and changes the state of  *)
(* no process that is on one.                                               *)
LEMMA HartFrame ==
  ASSUME IInv,
         cand' = cand, proc' = proc,
         \A c \in CPUs :
           \/ pc'[c] = pc[c]
           \/ /\ pc[c] \notin {"hand", "enq", "out"}
              /\ pc'[c] \notin {"hand", "enq", "out"}
              /\ pc'[c] \in {"idle", "scan"} => proc[c] = None
              /\ pc'[c] \in {"run", "yield"} => proc[c] # None,
         \A c \in CPUs : proc[c] # None => state'[proc[c]] = state[proc[c]],
         \A r \in Proc : state'[r] = "RUNNING" => state[r] = "RUNNING"
  PROVE  Harts'
<1>1. HartInv'
  BY Zenon DEF IInv, HartInv
<1>2. StateInv'
  BY DEF IInv, StateInv
<1>3. HartInj' /\ RunningInv'
  BY Zenon DEF IInv, HartInj, RunningInv
<1>4. QED
  BY <1>1, <1>2, <1>3, Zenon DEF Harts

(* A step in which the process on hart c gives the hart up: yield(),        *)
(* sleep() and kexit() set its state and keep its lock.                     *)
LEMMA GiveUp ==
  ASSUME IInv, NEW c \in CPUs, pc[c] \in {"run", "yield"},
         NEW s \in {"RUNNABLE", "SLEEPING", "ZOMBIE"},
         NEW x \in {"enq", "out"}, x = "enq" => s = "RUNNABLE",
         state' = [state EXCEPT ![proc[c]] = s],
         pc' = [pc EXCEPT ![c] = x],
         UNCHANGED <<cand, proc>>
  PROVE  Harts'
<1>1. proc[c] \in Proc /\ cand[c] = None
  BY Ranges, Zenon DEF IInv, HartInv
<1>2. /\ state'[proc[c]] = s
      /\ \A r \in Proc : r # proc[c] => state'[r] = state[r]
      /\ pc'[c] = x
      /\ \A d \in CPUs : d # c => pc'[d] = pc[d]
  BY <1>1, Ranges, Zenon
<1>3. HartInv'
  BY <1>1, <1>2, Zenon DEF IInv, HartInv, None, Proc
<1>4. StateInv'
  <2> SUFFICES ASSUME NEW d \in CPUs, proc[d] # None
               PROVE  /\ pc'[d] = "enq" => state'[proc[d]] = "RUNNABLE"
                      /\ pc'[d] = "out" =>
                           state'[proc[d]] \in {"RUNNABLE", "SLEEPING", "ZOMBIE"}
                      /\ pc'[d] \notin {"enq", "out"} =>
                           state'[proc[d]] = "RUNNING"
    BY DEF StateInv
  <2>1. CASE d = c
    BY <1>2, <2>1, Zenon
  <2>2. CASE d # c
    <3>1. proc[d] # proc[c] /\ proc[d] \in Proc
      BY <2>2, Ranges, Zenon DEF IInv, HartInj
    <3>2. QED
      BY <1>2, <2>2, <3>1 DEF IInv, StateInv
  <2>3. QED
    BY <2>1, <2>2, Zenon
<1>5. HartInj'
  BY Zenon DEF IInv, HartInj
<1>6. RunningInv'
  BY <1>2, Zenon DEF IInv, RunningInv
<1>7. QED
  BY <1>3, <1>4, <1>5, <1>6, Zenon DEF Harts

(* No entry a kfork() is filling in changes state.                          *)
LEMMA ChildFrame ==
  ASSUME IInv, child' = child,
         \A r \in Proc : state[r] = "USED" => state'[r] = "USED"
  PROVE  ChildInv'
BY Ranges, Zenon DEF IInv, ChildInv

(* A step that leaves every process where it is.                            *)
LEMMA QueueFrame ==
  ASSUME IInv,
         \A r \in Proc : Queued(r)' <=> Queued(r),
         \A r \in Proc, c \in CPUs : InTransit(c, r)' <=> InTransit(c, r),
         \A r \in Proc : state'[r] = "RUNNABLE" <=> state[r] = "RUNNABLE"
  PROVE  RunnableIsQueued'
BY Zenon DEF IInv, RunnableIsQueued

(* A step that makes one process RUNNABLE and queues it: wakeup(), kkill(), *)
(* kfork().                                                                 *)
LEMMA ReadyLemma ==
  ASSUME TableRoom, IInv, NEW p \in Proc,
         state[p] \in {"SLEEPING", "USED"}, MakeRunnable(p),
         \A r \in Proc, c \in CPUs : InTransit(c, r)' <=> InTransit(c, r)
  PROVE  QueuedOnce' /\ RunnableIsQueued' /\ NoFault'
<1>1. ~Queued(p) /\ \A c \in CPUs : ~InTransit(c, p)
  BY Zenon DEF IInv, RunnableIsQueued
<1>2. enqueue(queue[p], p) /\ state' = [state EXCEPT ![p] = "RUNNABLE"]
  BY Zenon DEF MakeRunnable
<1>3. /\ fault' = fault /\ QueuedOnce'
      /\ \A r \in Proc : Queued(r)' <=> Queued(r) \/ r = p
  BY <1>1, <1>2, Ranges, EnqueueLemma, Zenon DEF IInv
<1>4. state'[p] = "RUNNABLE" /\ \A r \in Proc : r # p => state'[r] = state[r]
  BY <1>2, Ranges, Zenon
<1>5. RunnableIsQueued'
  BY <1>1, <1>3, <1>4, Zenon DEF IInv, RunnableIsQueued
<1>6. QED
  BY <1>3, <1>5, Zenon DEF IInv, NoFault
-----------------------------------------------------------------------------
(* One lemma per step that moves a process.                                 *)

(* scheduler() dequeues: the head of a queue is now in transit.             *)
LEMMA DequeueStep ==
  ASSUME IInv, NEW c \in CPUs, Dequeue(c), mlfq[qi[c]] # <<>>
  PROVE  Harts' /\ QueuedOnce' /\ RunnableIsQueued'
<1> DEFINE h == Head(mlfq[qi[c]])
<1>1. /\ UNCHANGED <<state, proc>>
      /\ mlfq' = [mlfq EXCEPT ![qi[c]] = Tail(@)]
      /\ cand' = [cand EXCEPT ![c] = h] /\ pc' = [pc EXCEPT ![c] = "hand"]
      /\ pc[c] \in {"idle", "scan"}
  BY DEF Dequeue, Shifted, procVars
<1>2. /\ h \in Proc /\ Queued(h) /\ QueuedOnce'
      /\ \A r \in Proc : Queued(r)' <=> Queued(r) /\ r # h
  BY <1>1, Ranges, DequeueLemma, ZenonT(40) DEF IInv
<1> HIDE DEF h
<1>3. /\ pc'[c] = "hand" /\ cand'[c] = h
      /\ \A d \in CPUs : d # c => pc'[d] = pc[d] /\ cand'[d] = cand[d]
  BY <1>1, Ranges, Zenon
<1>4. HartInv'
  BY <1>1, <1>2, <1>3, Ranges, SMTT(40) DEF IInv, HartInv
<1>5. StateInv' /\ HartInj' /\ RunningInv'
  BY <1>1, <1>3, SMTT(40) DEF IInv, HartInv, StateInv, HartInj, RunningInv
<1>6. \A d \in CPUs : ~InTransit(d, h)
  BY <1>2, Zenon DEF IInv, RunnableIsQueued
<1>7. \A r \in Proc, d \in CPUs :
        InTransit(d, r)' <=> InTransit(d, r) \/ (d = c /\ r = h)
  BY <1>1, <1>3, Zenon DEF InTransit
<1>8. RunnableIsQueued'
  BY <1>1, <1>2, <1>6, <1>7 DEF IInv, RunnableIsQueued
<1>9. QED
  BY <1>2, <1>4, <1>5, <1>8, Zenon DEF Harts

(* scheduler() runs what it dequeued: it is RUNNABLE and on no other hart.  *)
LEMMA DispatchStep ==
  ASSUME IInv, NEW c \in CPUs, Dispatch(c)
  PROVE  Harts' /\ QueuedOnce' /\ RunnableIsQueued' /\ ChildInv'
<1> DEFINE p == cand[c]
<1>1. pc[c] = "hand" /\ ~Locked(p) /\ mlfq' = mlfq /\ child' = child
  BY Zenon DEF Dispatch
<1>2. p \in Proc
  BY <1>1, HartTypes, Zenon
<1>3. InTransit(c, p)
  BY <1>1, Zenon DEF InTransit
<1>4. /\ state[p] = "RUNNABLE" /\ ~Queued(p)
      /\ \A d \in CPUs : InTransit(d, p) => d = c
  BY <1>2, <1>3, Zenon DEF IInv, RunnableIsQueued
<1>5. \A d \in CPUs : proc[d] # p
  BY <1>1, <1>2, <1>4, Ranges DEF IInv, StateInv, Locked
<1>6. /\ state' = [state EXCEPT ![p] = "RUNNING"]
      /\ cand' = [cand EXCEPT ![c] = None]
      /\ proc' = [proc EXCEPT ![c] = p]
      /\ pc' = [pc EXCEPT ![c] = "run"]
  BY <1>4, Zenon DEF Dispatch
<1>7. proc[c] = None
  BY <1>1, Zenon DEF IInv, HartInv
<1>8. \A r \in Proc, d \in CPUs :
        InTransit(d, r)' <=> InTransit(d, r) /\ ~(d = c /\ r = p)
  BY <1>1, <1>2, <1>6, Ranges, Zenon DEF InTransit
<1> HIDE DEF p
<1>9. /\ state'[p] = "RUNNING" /\ \A r \in Proc : r # p => state'[r] = state[r]
      /\ cand'[c] = None /\ proc'[c] = p /\ pc'[c] = "run"
      /\ \A d \in CPUs : d # c =>
            cand'[d] = cand[d] /\ proc'[d] = proc[d] /\ pc'[d] = pc[d]
  BY <1>2, <1>6, Ranges, Zenon
<1>10. HartInv' /\ HartInj'
  BY <1>2, <1>5, <1>9, Ranges, SMTT(40) DEF IInv, HartInv, HartInj
<1>11. StateInv'
  <2> SUFFICES ASSUME NEW d \in CPUs, d # c, proc[d] # None
               PROVE  state'[proc[d]] = state[proc[d]]
    BY <1>9 DEF IInv, StateInv
  <2>1. proc[d] \in Proc /\ proc[d] # p
    BY <1>5, Ranges, Zenon
  <2>2. QED
    BY <1>9, <2>1, Zenon
<1>12. RunningInv'
  <2> SUFFICES ASSUME NEW r \in Proc, state'[r] = "RUNNING"
               PROVE  \E d \in CPUs : proc'[d] = r
    BY Zenon DEF RunningInv
  <2>1. CASE r = p
    BY <1>9, <2>1, Zenon
  <2>2. CASE r # p
    <3>1. PICK d \in CPUs : proc[d] = r
      BY <1>9, <2>2, Zenon DEF IInv, RunningInv
    <3>2. d # c
      BY <1>7, <3>1, Ranges, Zenon
    <3>3. QED
      BY <1>9, <3>1, <3>2, Zenon
  <2>3. QED
    BY <2>1, <2>2, Zenon
<1>13. ChildInv'
  BY <1>1, <1>4, <1>9, ChildFrame, Zenon
<1>14. QueuedOnce' /\ \A r \in Proc : Queued(r)' <=> Queued(r)
  BY <1>1, SameQueues, Zenon DEF IInv
<1>15. RunnableIsQueued'
  BY <1>4, <1>8, <1>9, <1>14 DEF IInv, RunnableIsQueued
<1>16. QED
  BY <1>10, <1>11, <1>12, <1>13, <1>14, <1>15, Zenon DEF Harts

(* Back in scheduler(): the process is off the hart.                        *)
LEMMA SwitchOutStep ==
  ASSUME IInv, NEW c \in CPUs, SwitchOut(c)
  PROVE  Harts' /\ RunnableIsQueued'
<1>1. /\ pc[c] = "out" /\ proc' = [proc EXCEPT ![c] = None]
      /\ pc' = [pc EXCEPT ![c] = "idle"]
      /\ UNCHANGED <<state, child, mlfq, cand>>
  BY Zenon DEF SwitchOut, procVars
<1>2. /\ pc'[c] = "idle" /\ proc'[c] = None
      /\ \A d \in CPUs : d # c => pc'[d] = pc[d] /\ proc'[d] = proc[d]
  BY <1>1, Ranges, Zenon
<1>3. proc[c] \in Proc /\ state[proc[c]] # "RUNNING"
  BY <1>1, HartTypes, Ranges, Zenon DEF IInv, StateInv
<1>4. HartInv' /\ HartInj'
  BY <1>1, <1>2, SMTT(40) DEF IInv, HartInv, HartInj
<1>5. StateInv'
  BY <1>1, <1>2 DEF IInv, StateInv
<1>6. RunningInv'
  <2> SUFFICES ASSUME NEW r \in Proc, state[r] = "RUNNING"
               PROVE  \E d \in CPUs : proc'[d] = r
    BY <1>1, Zenon DEF RunningInv
  <2>1. PICK d \in CPUs : proc[d] = r
    BY Zenon DEF IInv, RunningInv
  <2>2. QED
    BY <1>2, <1>3, <2>1, Zenon
<1>7. \A r \in Proc, d \in CPUs : InTransit(d, r)' <=> InTransit(d, r)
  BY <1>1, <1>2, Zenon DEF InTransit
<1>8. \A r \in Proc : Queued(r)' <=> Queued(r)
  BY <1>1, SameQueues, Zenon DEF IInv
<1>9. RunnableIsQueued'
  BY <1>1, <1>7, <1>8, QueueFrame, Zenon
<1>10. QED
  BY <1>4, <1>5, <1>6, <1>9, Zenon DEF Harts

(* yield() gives up the hart: the process is RUNNABLE and in transit.       *)
LEMMA YieldChargeStep ==
  ASSUME IInv, NEW c \in CPUs, YieldCharge(c)
  PROVE  Harts' /\ RunnableIsQueued' /\ ChildInv'
<1> DEFINE p == proc[c]
<1>1. /\ pc[c] = "yield" /\ UNCHANGED <<child, mlfq, cand, proc>>
  BY Zenon DEF YieldCharge, cpuVars
<1>2. p \in Proc /\ state[p] = "RUNNING"
  BY <1>1, HartTypes, Ranges, Zenon DEF IInv, StateInv
<1>3. \A r \in Proc : Queued(r)' <=> Queued(r)
  BY <1>1, SameQueues, Zenon DEF IInv
<1>4. CASE /\ state' = [state EXCEPT ![p] = "RUNNABLE"]
           /\ pc' = [pc EXCEPT ![c] = "enq"]
  <2>1. Harts'
    BY <1>1, <1>4, GiveUp, ZenonT(40)
  <2>2. state'[p] = "RUNNABLE" /\ \A r \in Proc : r # p => state'[r] = state[r]
    BY <1>2, <1>4, Ranges, Zenon
  <2>3. ChildInv'
    BY <1>1, <1>2, <2>2, ChildFrame, Zenon
  <2>4. \A r \in Proc, d \in CPUs :
          InTransit(d, r)' <=> InTransit(d, r) \/ (d = c /\ r = p)
    BY <1>1, <1>2, <1>4, Ranges, Zenon DEF InTransit
  <2>5. ~Queued(p) /\ \A d \in CPUs : ~InTransit(d, p)
    BY <1>2, Zenon DEF IInv, RunnableIsQueued
  <2> HIDE DEF p
  <2>6. RunnableIsQueued'
    BY <1>3, <2>2, <2>4, <2>5 DEF IInv, RunnableIsQueued
  <2>7. QED
    BY <2>1, <2>3, <2>6, Zenon
<1>5. CASE state' = state /\ pc' = [pc EXCEPT ![c] = "run"]
  <2>1. pc'[c] = "run" /\ \A d \in CPUs : d # c => pc'[d] = pc[d]
    BY <1>5, Ranges, Zenon
  <2>2. Harts'
    BY <1>1, <1>2, <1>5, <2>1, Ranges, HartFrame, Zenon
  <2>3. ChildInv'
    BY <1>1, <1>5, ChildFrame, Zenon
  <2>4. \A r \in Proc, d \in CPUs : InTransit(d, r)' <=> InTransit(d, r)
    BY <1>1, <2>1, Zenon DEF InTransit
  <2>5. RunnableIsQueued'
    BY <1>3, <1>5, <2>4, QueueFrame, Zenon
  <2>6. QED
    BY <2>2, <2>3, <2>5
<1>6. QED
  BY <1>4, <1>5, Zenon DEF YieldCharge

(* yield() enqueues: the process in transit is now queued.                  *)
LEMMA YieldEnqueueStep ==
  ASSUME TableRoom, IInv, NEW c \in CPUs, YieldEnqueue(c)
  PROVE  Harts' /\ QueuedOnce' /\ RunnableIsQueued' /\ NoFault'
<1> DEFINE p == proc[c]
<1>1. /\ pc[c] = "enq" /\ enqueue(queue[p], p)
      /\ pc' = [pc EXCEPT ![c] = "out"]
      /\ UNCHANGED <<state, child, cand, proc>>
  BY Zenon DEF YieldEnqueue, procVars, cpuVars
<1>2. p \in Proc /\ state[p] = "RUNNABLE"
  BY <1>1, HartTypes, Ranges, Zenon DEF IInv, StateInv
<1>3. InTransit(c, p)
  BY <1>1, Zenon DEF InTransit
<1>4. ~Queued(p) /\ \A d \in CPUs : InTransit(d, p) => d = c
  BY <1>2, <1>3, Zenon DEF IInv, RunnableIsQueued
<1>5. /\ fault' = fault /\ QueuedOnce'
      /\ \A r \in Proc : Queued(r)' <=> Queued(r) \/ r = p
  BY <1>1, <1>2, <1>4, Ranges, EnqueueLemma, Zenon DEF IInv
<1>6. pc'[c] = "out" /\ \A d \in CPUs : d # c => pc'[d] = pc[d]
  BY <1>1, Ranges, Zenon
<1>7. \A r \in Proc, d \in CPUs :
        InTransit(d, r)' <=> InTransit(d, r) /\ ~(d = c /\ r = p)
  BY <1>1, <1>6, Zenon DEF InTransit
<1>8. HartInv' /\ HartInj' /\ RunningInv'
  BY <1>1, <1>6, SMTT(40) DEF IInv, HartInv, HartInj, RunningInv
<1>9. StateInv'
  BY <1>1, <1>2, <1>6, Zenon DEF IInv, StateInv
<1> HIDE DEF p
<1>10. RunnableIsQueued'
  BY <1>1, <1>2, <1>4, <1>5, <1>7, SMTT(40) DEF IInv, RunnableIsQueued
<1>11. QED
  BY <1>5, <1>8, <1>9, <1>10, Zenon DEF IInv, Harts, NoFault

(* sleep() and kexit(): the process leaves the hart for no queue.           *)
LEMMA LeaveStep ==
  ASSUME IInv, NEW c \in CPUs, pc[c] \in {"run", "yield"},
         NEW s \in {"SLEEPING", "ZOMBIE"},
         state' = [state EXCEPT ![proc[c]] = s],
         pc' = [pc EXCEPT ![c] = "out"],
         UNCHANGED <<child, mlfq, cand, proc>>
  PROVE  Harts' /\ RunnableIsQueued' /\ ChildInv'
<1>1. proc[c] \in Proc /\ state[proc[c]] = "RUNNING"
  BY HartTypes, Ranges, Zenon DEF IInv, StateInv
<1>2. Harts'
  BY GiveUp, ZenonT(40)
<1>3. /\ state'[proc[c]] = s
      /\ \A r \in Proc : r # proc[c] => state'[r] = state[r]
  BY <1>1, Ranges, Zenon
<1>4. ChildInv'
  BY <1>1, <1>3, ChildFrame, Zenon
<1>5. \A r \in Proc, d \in CPUs : InTransit(d, r)' <=> InTransit(d, r)
  BY Ranges, Zenon DEF InTransit
<1>6. \A r \in Proc : Queued(r)' <=> Queued(r)
  BY SameQueues, Zenon DEF IInv
<1>7. \A r \in Proc : state'[r] = "RUNNABLE" <=> state[r] = "RUNNABLE"
  BY <1>1, <1>3, Zenon
<1>8. RunnableIsQueued'
  BY <1>5, <1>6, <1>7, QueueFrame, Zenon
<1>9. QED
  BY <1>2, <1>4, <1>8, Zenon
(* wakeup(), kkill() and kfork(): a process that is on no hart is made      *)
(* RUNNABLE and queued.                                                     *)
LEMMA ReadyStep ==
  ASSUME TableRoom, IInv, NEW p \in Proc, ~Locked(p),
         state[p] \in {"SLEEPING", "USED"}, MakeRunnable(p),
         cand' = cand, proc' = proc,
         \A c \in CPUs :
           \/ pc'[c] = pc[c]
           \/ /\ pc[c] \notin {"hand", "enq", "out"}
              /\ pc'[c] \notin {"hand", "enq", "out"}
              /\ pc'[c] \in {"idle", "scan"} => proc[c] = None
              /\ pc'[c] \in {"run", "yield"} => proc[c] # None
  PROVE  Harts' /\ QueuedOnce' /\ RunnableIsQueued' /\ NoFault'
<1>1. \A c \in CPUs : proc[c] # p
  BY Ranges, SMTT(40) DEF IInv, StateInv, Locked
<1>2. /\ state'[p] = "RUNNABLE"
      /\ \A r \in Proc : r # p => state'[r] = state[r]
  BY Ranges, Zenon DEF MakeRunnable
<1>3. \A c \in CPUs : proc[c] # None => state'[proc[c]] = state[proc[c]]
  BY <1>1, <1>2, Ranges, Zenon
<1>4. Harts'
  BY <1>2, <1>3, HartFrame, ZenonT(40)
<1>5. \A r \in Proc, c \in CPUs : InTransit(c, r)' <=> InTransit(c, r)
  BY DEF InTransit
<1>6. QED
  BY <1>4, <1>5, ReadyLemma, Zenon

(* kfork() allocates a table entry.                                         *)
LEMMA ForkAllocStep ==
  ASSUME IInv, NEW c \in CPUs, NEW np \in Proc, ForkAlloc(c, np)
  PROVE  Harts' /\ RunnableIsQueued' /\ ChildInv'
<1>1. /\ pc[c] = "run" /\ child[proc[c]] = None /\ state[np] = "UNUSED"
      /\ state' = [state EXCEPT ![np] = "USED"]
      /\ child' = [child EXCEPT ![proc[c]] = np]
      /\ UNCHANGED <<mlfq, pc, cand, proc>>
  BY Zenon DEF ForkAlloc, cpuVars
<1>2. proc[c] \in Proc
  BY <1>1, HartTypes, Zenon
<1>3. /\ state'[np] = "USED"
      /\ \A r \in Proc : r # np => state'[r] = state[r]
      /\ child'[proc[c]] = np
      /\ \A r \in Proc : r # proc[c] => child'[r] = child[r]
  BY <1>1, <1>2, Ranges, Zenon
<1>4. \A d \in CPUs : proc[d] # np
  BY <1>1, Ranges, Zenon DEF IInv, StateInv
<1>5. Harts'
  BY <1>1, <1>3, <1>4, Ranges, HartFrame, Zenon
<1>6. \A r \in Proc : child[r] # np
  BY <1>1, Ranges, Zenon DEF IInv, ChildInv
<1>7. ChildInv'
  BY <1>3, <1>6, Ranges, SMTT(40) DEF IInv, ChildInv
<1>8. \A r \in Proc, d \in CPUs : InTransit(d, r)' <=> InTransit(d, r)
  BY <1>1, Zenon DEF InTransit
<1>9. \A r \in Proc : Queued(r)' <=> Queued(r)
  BY <1>1, SameQueues, Zenon DEF IInv
<1>10. \A r \in Proc : state'[r] = "RUNNABLE" <=> state[r] = "RUNNABLE"
  BY <1>1, <1>3, Zenon
<1>11. QED
  BY <1>5, <1>7, <1>8, <1>9, <1>10, QueueFrame, ZenonT(40)

(* kfork() makes the child RUNNABLE.                                        *)
LEMMA ForkReadyStep ==
  ASSUME TableRoom, IInv, NEW c \in CPUs, ForkReady(c)
  PROVE  Harts' /\ QueuedOnce' /\ RunnableIsQueued' /\ ChildInv' /\ NoFault'
<1> DEFINE np == child[proc[c]]
<1>1. /\ pc[c] = "run" /\ np # None /\ MakeRunnable(np)
      /\ child' = [child EXCEPT ![proc[c]] = None]
      /\ UNCHANGED <<pc, cand, proc>>
  BY Zenon DEF ForkReady, cpuVars
<1>2. proc[c] \in Proc
  BY <1>1, HartTypes, Zenon
<1>3. np \in Proc /\ state[np] = "USED"
  BY <1>1, <1>2, Ranges, Zenon DEF IInv, ChildInv
<1>4. ~Locked(np)
  BY <1>1, <1>3, Ranges, Zenon DEF IInv, StateInv, Locked
<1>5. Harts' /\ QueuedOnce' /\ RunnableIsQueued' /\ NoFault'
  BY <1>1, <1>3, <1>4, ReadyStep, Zenon
<1>6. \A r \in Proc : r # proc[c] /\ child[r] # None => child[r] # np
  BY <1>1, <1>2, Zenon DEF IInv, ChildInv
<1>7. /\ child'[proc[c]] = None
      /\ \A r \in Proc : r # proc[c] => child'[r] = child[r]
      /\ \A r \in Proc : r # np => state'[r] = state[r]
  BY <1>1, <1>2, <1>3, Ranges, Zenon DEF MakeRunnable
<1> HIDE DEF np
<1>8. ChildInv'
  BY <1>2, <1>6, <1>7, Ranges, SMTT(40) DEF IInv, ChildInv
<1>9. QED
  BY <1>5, <1>8, Zenon

(* kwait() frees a zombie.                                                  *)
LEMMA ReapStep ==
  ASSUME IInv, NEW c \in CPUs, NEW z \in Proc, Reap(c, z)
  PROVE  Harts' /\ RunnableIsQueued' /\ ChildInv'
<1>1. /\ state[z] = "ZOMBIE" /\ ~Locked(z)
      /\ state' = [state EXCEPT ![z] = "UNUSED"]
      /\ UNCHANGED <<child, mlfq, pc, cand, proc>>
  BY Zenon DEF Reap, cpuVars
<1>2. /\ state'[z] = "UNUSED"
      /\ \A r \in Proc : r # z => state'[r] = state[r]
  BY <1>1, Ranges, Zenon
<1>3. \A d \in CPUs : proc[d] # z
  BY <1>1, Ranges, SMTT(40) DEF IInv, StateInv, Locked
<1>4. Harts'
  BY <1>1, <1>2, <1>3, Ranges, HartFrame, Zenon
<1>5. ChildInv'
  BY <1>1, <1>2, ChildFrame, Zenon
<1>6. \A r \in Proc, d \in CPUs : InTransit(d, r)' <=> InTransit(d, r)
  BY <1>1, Zenon DEF InTransit
<1>7. \A r \in Proc : Queued(r)' <=> Queued(r)
  BY <1>1, SameQueues, Zenon DEF IInv
<1>8. \A r \in Proc : state'[r] = "RUNNABLE" <=> state[r] = "RUNNABLE"
  BY <1>1, <1>2, Zenon
<1>9. QED
  BY <1>4, <1>5, <1>6, <1>7, <1>8, QueueFrame, ZenonT(40)

(* The steps that leave every process where it is: an empty queue seen by   *)
(* scheduler(), the timer interrupt, the boost's first loop.                *)
LEMMA StillStep ==
  ASSUME IInv, UNCHANGED <<state, child, cand, proc>>,
         \A r \in Proc : Queued(r)' <=> Queued(r),
         \A c \in CPUs :
           \/ pc'[c] = pc[c]
           \/ /\ pc[c] \notin {"hand", "enq", "out"}
              /\ pc'[c] \notin {"hand", "enq", "out"}
              /\ pc'[c] \in {"idle", "scan"} => proc[c] = None
              /\ pc'[c] \in {"run", "yield"} => proc[c] # None
  PROVE  Harts' /\ RunnableIsQueued' /\ ChildInv'
<1>1. Harts'
  BY HartFrame, Zenon
<1>2. ChildInv'
  BY ChildFrame, Zenon
<1>3. \A r \in Proc, c \in CPUs : InTransit(c, r)' <=> InTransit(c, r)
  BY Zenon DEF InTransit
<1>4. QED
  BY <1>1, <1>2, <1>3, QueueFrame, Zenon

-----------------------------------------------------------------------------
(* The inductive invariant is preserved: one step per action.               *)
LEMMA NextIInv == TableRoom /\ IInv /\ [Next]_vars => IInv'
<1> SUFFICES ASSUME TableRoom, IInv, [Next]_vars PROVE IInv'
  BY Zenon
<1> DEFINE Rest == Harts /\ ChildInv /\ QueuedOnce /\ RunnableIsQueued /\ NoFault
<1> USE DEF procVars, cpuVars, clockVars
<1>1. CASE UNCHANGED vars
  <2>1. UNCHANGED <<state, child, mlfq, pc, cand, proc, fault>>
    BY <1>1, Zenon DEF vars
  <2>2. QueuedOnce' /\ \A r \in Proc : Queued(r)' <=> Queued(r)
    BY <2>1, SameQueues, Zenon DEF IInv
  <2>3. Harts' /\ RunnableIsQueued' /\ ChildInv'
    BY <2>1, <2>2, StillStep, Zenon
  <2>4. TypeOK' /\ NoFault'
    BY <1>1, Zenon DEF vars, IInv, TypeOK, NoFault
  <2>5. QED
    BY <2>2, <2>3, <2>4, Zenon DEF IInv, Harts
<1>2. ASSUME mlfq' = mlfq, fault' = fault
      PROVE  /\ QueuedOnce' /\ NoFault'
             /\ \A r \in Proc : Queued(r)' <=> Queued(r)
  BY <1>2, SameQueues, Zenon DEF IInv, NoFault
<1>3. ASSUME NEW c \in CPUs, Dequeue(c)
      PROVE  Rest'
  <2>1. child' = child /\ state' = state /\ NoFault'
    BY <1>3, Zenon DEF Dequeue, Shifted, IInv, NoFault
  <2>2. ChildInv'
    BY <2>1, ChildFrame, Zenon
  <2>3. CASE mlfq[qi[c]] # <<>>
    BY <1>3, <2>1, <2>2, <2>3, DequeueStep, Zenon
  <2>4. CASE mlfq[qi[c]] = <<>>
    <3>1. /\ UNCHANGED <<state, child, mlfq, cand, proc, fault>>
          /\ pc[c] \in {"idle", "scan"}
          /\ pc' = [pc EXCEPT ![c] = IF qi[c] < 3 THEN "scan" ELSE "idle"]
      BY <1>3, <2>4, Zenon DEF Dequeue, Shifted
    <3>2. pc'[c] \in {"idle", "scan"} /\ \A d \in CPUs : d # c => pc'[d] = pc[d]
      BY <3>1, Ranges, Zenon
    <3>3. proc[c] = None
      BY <3>1, Zenon DEF IInv, HartInv
    <3>4. QED
      BY <1>2, <3>1, <3>2, <3>3, StillStep, Zenon
  <2>5. QED
    BY <2>3, <2>4, Zenon
<1>4. ASSUME NEW c \in CPUs, Dispatch(c)
      PROVE  Rest'
  BY <1>4, DispatchStep, ZenonT(40) DEF Dispatch, IInv, NoFault
<1>5. ASSUME NEW c \in CPUs, SwitchOut(c)
      PROVE  Rest'
  <2>1. UNCHANGED <<state, child, mlfq, fault>>
    BY <1>5, Zenon DEF SwitchOut
  <2>2. QED
    BY <1>2, <1>5, <2>1, SwitchOutStep, ChildFrame, Zenon
<1>6. ASSUME NEW c \in CPUs, YieldCharge(c)
      PROVE  Rest'
  <2>1. UNCHANGED <<mlfq, fault>>
    BY <1>6, Zenon DEF YieldCharge
  <2>2. QED
    BY <1>2, <1>6, <2>1, YieldChargeStep, Zenon
<1>7. ASSUME NEW c \in CPUs, YieldEnqueue(c)
      PROVE  Rest'
  <2>1. UNCHANGED <<state, child>>
    BY <1>7 DEF YieldEnqueue
  <2>2. QED
    BY <1>7, <2>1, YieldEnqueueStep, ChildFrame, Zenon
<1>8. ASSUME NEW c \in CPUs, NEW ch \in {"ticks", "other"}, Sleep(c, ch)
      PROVE  Rest'
  <2>1. /\ pc[c] = "run" /\ UNCHANGED <<child, mlfq, cand, proc, fault>>
        /\ state' = [state EXCEPT ![proc[c]] = "SLEEPING"]
        /\ pc' = [pc EXCEPT ![c] = "out"]
    BY <1>8, Zenon DEF Sleep
  <2>2. QED
    BY <1>2, <2>1, LeaveStep, ZenonT(40)
<1>9. ASSUME NEW c \in CPUs, NEW p \in Proc, Wakeup(c, p)
      PROVE  Rest'
  <2>1. /\ state[p] = "SLEEPING" /\ ~Locked(p) /\ MakeRunnable(p)
        /\ UNCHANGED <<child, pc, cand, proc>>
    BY <1>9, Zenon DEF Wakeup
  <2>2. ChildInv'
    BY <2>1, Ranges, ChildFrame, Zenon DEF MakeRunnable
  <2>3. QED
    BY <2>1, <2>2, ReadyStep, Zenon
<1>10. ASSUME NEW c \in CPUs, Exit(c)
       PROVE  Rest'
  <2>1. /\ pc[c] \in {"run", "yield"}
        /\ UNCHANGED <<child, mlfq, cand, proc, fault>>
        /\ state' = [state EXCEPT ![proc[c]] = "ZOMBIE"]
        /\ pc' = [pc EXCEPT ![c] = "out"]
    BY <1>10, Zenon DEF Exit
  <2>2. QED
    BY <1>2, <2>1, LeaveStep, ZenonT(40)
<1>11. ASSUME NEW c \in CPUs, NEW np \in Proc, ForkAlloc(c, np)
       PROVE  Rest'
  <2>1. UNCHANGED <<mlfq, fault>>
    BY <1>11, Zenon DEF ForkAlloc
  <2>2. QED
    BY <1>2, <1>11, <2>1, ForkAllocStep, Zenon
<1>12. ASSUME NEW c \in CPUs, ForkReady(c)
       PROVE  Rest'
  BY <1>12, ForkReadyStep, Zenon
<1>13. ASSUME NEW c \in CPUs, NEW z \in Proc, Reap(c, z)
       PROVE  Rest'
  <2>1. UNCHANGED <<mlfq, fault>>
    BY <1>13, Zenon DEF Reap
  <2>2. QED
    BY <1>2, <1>13, <2>1, ReapStep
<1>14. ASSUME NEW c \in CPUs, Timer(c)
       PROVE  Rest'
  <2>1. /\ pc[c] \in {"run", "idle"}
        /\ UNCHANGED <<state, child, mlfq, cand, proc, fault>>
        /\ pc' = [pc EXCEPT ![c] = IF c = Boot THEN "tick" ELSE AfterClock(c)]
    BY <1>14, Zenon DEF Timer
  <2>2. /\ pc'[c] = IF c = Boot THEN "tick" ELSE AfterClock(c)
        /\ \A d \in CPUs : d # c => pc'[d] = pc[d]
    BY <2>1, Ranges, Zenon
  <2>3. \/ pc'[c] = "tick"
        \/ pc'[c] = "yield" /\ proc[c] # None
        \/ pc'[c] = "scan" /\ proc[c] = None
    BY <2>2, Zenon DEF AfterClock
  <2>4. \A r \in Proc : Queued(r)' <=> Queued(r)
    BY <1>2, <2>1, Zenon
  <2>5. Harts' /\ RunnableIsQueued' /\ ChildInv'
    BY <2>1, <2>2, <2>3, <2>4, StillStep, Zenon
  <2>6. QED
    BY <1>2, <2>1, <2>5, Zenon
<1>15. ASSUME TickWakeup
       PROVE  Rest'
  <2>1. /\ pc[Boot] = "tick" /\ ~Locked(idx)
        /\ UNCHANGED <<child, cand, proc>>
        /\ \/ pc' = pc
           \/ pc' = [pc EXCEPT ![Boot] = IF BoostDue THEN "boost"
                                         ELSE AfterClock(Boot)]
    BY <1>15, Zenon DEF TickWakeup
  <2>2. /\ \A d \in CPUs : d # Boot => pc'[d] = pc[d]
        /\ \/ pc'[Boot] = pc[Boot]
           \/ pc'[Boot] = "boost"
           \/ pc'[Boot] = AfterClock(Boot)
    BY <2>1, Ranges, CpusAssumption, Zenon
  <2>3. idx \in Proc
    BY Zenon DEF IInv, TypeOK, Proc
  <2>4. CASE MakeRunnable(idx) /\ state[idx] = "SLEEPING"
    <3>1. ChildInv'
      BY <2>1, <2>3, <2>4, Ranges, ChildFrame, Zenon DEF MakeRunnable
    <3>2. Harts' /\ QueuedOnce' /\ RunnableIsQueued' /\ NoFault'
      BY <2>1, <2>2, <2>3, <2>4, ReadyStep, Zenon DEF AfterClock
    <3>3. QED
      BY <3>1, <3>2, Zenon
  <2>5. CASE UNCHANGED <<state, mlfq, fault>>
    <3>1. Harts' /\ RunnableIsQueued' /\ ChildInv'
      BY <1>2, <2>1, <2>2, <2>5, StillStep, Zenon DEF AfterClock
    <3>2. QED
      BY <1>2, <2>5, <3>1, Zenon
  <2>6. QED
    BY <1>15, <2>4, <2>5, Zenon DEF TickWakeup
<1>16. ASSUME BoostReset
       PROVE  Rest'
  <2>1. /\ pc[Boot] = "boost"
        /\ UNCHANGED <<state, child, mlfq, cand, proc, fault>>
        /\ pc' = pc \/ pc' = [pc EXCEPT ![Boot] = "requeue"]
    BY <1>16, Zenon DEF BoostReset, ResetLevel
  <2>2. /\ \A d \in CPUs : d # Boot => pc'[d] = pc[d]
        /\ pc'[Boot] \in {"boost", "requeue"}
    BY <2>1, Ranges, CpusAssumption, Zenon
  <2>3. Harts' /\ RunnableIsQueued' /\ ChildInv'
    BY <1>2, <2>1, <2>2, StillStep, Zenon
  <2>4. QED
    BY <1>2, <2>1, <2>3, Zenon
<1>17. ASSUME BoostRequeue
       PROVE  Rest'
  <2>1. /\ pc[Boot] = "requeue" /\ UNCHANGED <<state, child, cand, proc>>
        /\ pc' = [pc EXCEPT ![Boot] = AfterClock(Boot)]
    BY <1>17, Zenon DEF BoostRequeue
  <2>2. /\ \A d \in CPUs : d # Boot => pc'[d] = pc[d]
        /\ pc'[Boot] = AfterClock(Boot)
    BY <2>1, Ranges, CpusAssumption, Zenon
  <2>3. QueuedOnce' /\ NoFault' /\ \A r \in Proc : Queued(r)' <=> Queued(r)
    BY <1>17, RequeueLemma, Zenon DEF IInv, NoFault
  <2>4. Harts' /\ RunnableIsQueued' /\ ChildInv'
    BY <2>1, <2>2, <2>3, StillStep, SMTT(40) DEF AfterClock
  <2>5. QED
    BY <2>3, <2>4, Zenon
<1>18. Next => Rest'
  BY <1>3, <1>4, <1>5, <1>6, <1>7, <1>8, <1>9, <1>10, <1>11, <1>12, <1>13,
     <1>14, <1>15, <1>16, <1>17, Zenon
     DEF Next, Scheduler, Yield, Process, ClockTail
<1>19. QED
  BY <1>1, <1>18, TypeStep, Zenon DEF IInv, Harts

(* Two harts never run the same process.                                    *)
LEMMA HartsApart == IInv => OneHartPerProcess
<1> SUFFICES ASSUME IInv, NEW p \in Proc
             PROVE  /\ \A c, d \in RunBy(p) : c = d
                    /\ state[p] = "RUNNING" <=>
                         \E c \in RunBy(p) : pc[c] \notin {"enq", "out"}
  BY Zenon DEF OneHartPerProcess
<1>1. \A c \in CPUs : c \in RunBy(p) <=> proc[c] = p
  BY Zenon DEF RunBy
<1>2. \A c \in RunBy(p) : c \in CPUs
  BY ZenonT(40) DEF RunBy
<1>3. \A c, d \in RunBy(p) : c = d
  <2>1. p # None
    BY Ranges, Zenon
  <2>2. \A c, d \in CPUs : proc[c] # None /\ proc[c] = proc[d] => c = d
    BY Zenon DEF IInv, HartInj
  <2>3. QED
    BY <1>1, <1>2, <2>1, <2>2, ZenonT(40)
<1>4. state[p] = "RUNNING" => \E c \in RunBy(p) : pc[c] \notin {"enq", "out"}
  <2>1. state[p] = "RUNNING" => \E c \in CPUs : proc[c] = p
    BY Zenon DEF IInv, RunningInv
  <2>2. ASSUME NEW c \in CPUs, proc[c] = p, state[p] = "RUNNING"
        PROVE  pc[c] \notin {"enq", "out"}
    BY <2>2, Ranges, Zenon DEF IInv, StateInv
  <2>3. QED
    BY <1>1, <2>1, <2>2, ZenonT(40)
<1>5. ASSUME NEW c \in RunBy(p), pc[c] \notin {"enq", "out"}
      PROVE  state[p] = "RUNNING"
  BY <1>1, <1>2, <1>5, Ranges DEF IInv, StateInv
<1>6. QED
  BY <1>3, <1>4, <1>5, Zenon

(* How a step can change a level.                                           *)
LevelStep(p) ==
  queue'[p] # queue[p] =>
    \/ queue'[p] = 0
    \/ /\ queue'[p] = queue[p] + 1
       /\ ticks[p] + 1 >= Slice[queue[p]]
       /\ ticks'[p] = 0

LEMMA LevelsMove == IInv /\ [Next]_vars => \A p \in Proc : LevelStep(p)
<1> SUFFICES ASSUME IInv, [Next]_vars PROVE \A p \in Proc : LevelStep(p)
  BY Zenon
<1> USE DEF procVars, cpuVars, clockVars, LevelStep
<1>1. ASSUME queue' = queue
      PROVE  \A p \in Proc : LevelStep(p)
  BY <1>1, Zenon
<1>2. ASSUME NEW c \in CPUs, Scheduler(c) \/ YieldEnqueue(c) \/ Timer(c)
      PROVE  queue' = queue
  BY <1>2, Zenon DEF Scheduler, Dequeue, Dispatch, SwitchOut, YieldEnqueue, Timer
<1>3. ASSUME NEW c \in CPUs, YieldCharge(c)
      PROVE  \A p \in Proc : LevelStep(p)
  <2>1. pc[c] = "yield" /\ proc[c] \in Proc
    BY <1>3, HartTypes, ZenonT(40) DEF YieldCharge
  <2>2. queue \in [Proc -> Levels] /\ ticks \in [Proc -> Nat]
    BY Zenon DEF IInv, TypeOK
  <2>3. \A p \in Proc : p # proc[c] => queue'[p] = queue[p]
    BY <1>3, <2>1, <2>2, Zenon DEF YieldCharge
  <2>4. /\ queue'[proc[c]] = IF Expired(proc[c]) THEN Demoted(queue[proc[c]])
                            ELSE queue[proc[c]]
        /\ Expired(proc[c]) => ticks'[proc[c]] = 0
    BY <1>3, <2>1, <2>2, Zenon DEF YieldCharge
  <2>5. QED
    BY <2>2, <2>3, <2>4, Zenon DEF Expired, Demoted
<1>4. ASSUME NEW c \in CPUs, Process(c)
      PROVE  \A p \in Proc : LevelStep(p)
  <2>1. CASE \E np \in Proc : ForkAlloc(c, np)
    <3>1. PICK np \in Proc : queue' = [queue EXCEPT ![np] = 0]
      BY <2>1, ZenonT(40) DEF ForkAlloc
    <3>2. QED
      BY <3>1, Zenon DEF IInv, TypeOK
  <2>2. CASE ~\E np \in Proc : ForkAlloc(c, np)
    BY <1>1, <1>4, <2>2, ZenonT(40) DEF Process, Sleep, Wakeup, Exit, ForkReady, Reap
  <2>3. QED
    BY <2>1, <2>2, Zenon
<1>5. ASSUME ClockTail
      PROVE  \A p \in Proc : LevelStep(p)
  <2>1. CASE BoostReset
    BY <2>1, Zenon DEF BoostReset, ResetLevel, IInv, TypeOK
  <2>2. CASE TickWakeup \/ BoostRequeue
    BY <1>1, <2>2, ZenonT(40) DEF TickWakeup, BoostRequeue
  <2>3. QED
    BY <1>5, <2>1, <2>2, Zenon DEF ClockTail
<1>6. CASE UNCHANGED vars
  BY <1>1, <1>6, ZenonT(40) DEF vars
<1>7. QED
  BY <1>1, <1>2, <1>3, <1>4, <1>5, <1>6, ZenonT(40) DEF Next, Yield

-----------------------------------------------------------------------------
(* The table has room: the pigeonhole principle for the queues.             *)
INSTANCE FiniteSetTheorems
INSTANCE SequenceTheorems

(* The positions of a sequence are finitely many.                           *)
LEMMA IndexSet ==
  ASSUME NEW n \in Nat
  PROVE  IsFiniteSet(1..n) /\ Cardinality(1..n) = n
<1>1. /\ IsFiniteSet(1..n)
      /\ Cardinality(1..n) = IF 1 > n THEN 0 ELSE n - 1 + 1
  BY FS_Interval
<1>2. QED
  BY <1>1

(* A sequence without repetition of members of T is no longer than T is     *)
(* large, and shorter if one of them is not in it: enqueue() of a process   *)
(* that is in no queue has room.                                            *)
LEMMA NoRepetition ==
  ASSUME NEW T, IsFiniteSet(T), NEW s \in Seq(T), Inj(s)
  PROVE  Len(s) <= Cardinality(T)
<1>1. Len(s) \in Nat /\ Cardinality(T) \in Nat
  BY LenProperties, FS_CardinalityType
<1>2. /\ IsFiniteSet(1..Len(s)) /\ Cardinality(1..Len(s)) = Len(s)
  BY <1>1, IndexSet
<1>3. SUFFICES ASSUME Len(s) > Cardinality(T)
               PROVE  FALSE
  BY <1>1
<1>4. [i \in 1..Len(s) |-> s[i]] \in [1..Len(s) -> T]
  BY ElementOfSeq
<1>5. PICK i, j \in 1..Len(s) : i # j /\ s[i] = s[j]
  BY <1>2, <1>3, <1>4, FS_PigeonHole
<1>6. QED
  BY <1>5 DEF Inj

LEMMA RoomForOneMore ==
  ASSUME NEW T, IsFiniteSet(T), NEW s \in Seq(T), NEW p \in T, Inj(s), ~Has(s, p)
  PROVE  Len(s) < Cardinality(T)
<1>1. /\ IsFiniteSet(T \ {p}) /\ Cardinality(T \ {p}) = Cardinality(T) - 1
      /\ Cardinality(T) \in Nat
  BY FS_RemoveElement, FS_CardinalityType
<1>2. s \in Seq(T \ {p})
  <2>1. Len(s) \in Nat /\ \A i \in 1..Len(s) : s[i] \in T \ {p}
    BY LenProperties, ElementOfSeq DEF Has
  <2>2. s = [i \in 1..Len(s) |-> s[i]]
    BY SeqDef
  <2>3. QED
    BY <2>1, <2>2, SeqDef
<1>3. Len(s) <= Cardinality(T \ {p})
  BY <1>1, <1>2, NoRepetition
<1>4. QED
  BY <1>1, <1>3, LenProperties

(* The table has room for every queue without repetition.                   *)
LEMMA RoomInTable == TableRoom
<1>1. IsFiniteSet(Proc) /\ Cardinality(Proc) = NPROC
  BY NprocAssumption, IndexSet DEF Proc
<1>2. QED
  BY <1>1, NoRepetition, RoomForOneMore DEF TableRoom

(* The scheduler keeps its inductive invariant, whatever the number of      *)
(* harts and processes.                                                     *)
THEOREM Invariance == Spec => []IInv
BY InitIInv, NextIInv, RoomInTable, PTL DEF Spec

(* Every variable stays in its type.                                        *)
THEOREM TypeCorrect == Spec => []TypeOK
<1>1. IInv => TypeOK
  BY DEF IInv
<1>2. QED
  BY <1>1, Invariance, PTL

(* No process is ever queued twice.                                         *)
THEOREM NeverQueuedTwice == Spec => []QueuedOnce
<1>1. IInv => QueuedOnce
  BY DEF IInv
<1>2. QED
  BY <1>1, Invariance, PTL

(* No RUNNABLE process is lost, and nothing else is queued.                 *)
THEOREM NoLostProcess == Spec => []RunnableIsQueued
<1>1. IInv => RunnableIsQueued
  BY DEF IInv
<1>2. QED
  BY <1>1, Invariance, PTL

(* Both: the run queues hold the RUNNABLE processes, each of them once.      *)
THEOREM QueuesStayExact == Spec => []QueuesExact
<1>1. IInv => QueuesExact
  BY DEF IInv, QueuesExact
<1>2. QED
  BY <1>1, Invariance, PTL

(* enqueue() never panics and boost_priority() never overruns its arrays.   *)
THEOREM NeverFaults == Spec => []NoFault
<1>1. IInv => NoFault
  BY DEF IInv
<1>2. QED
  BY <1>1, Invariance, PTL

(* Two harts never run the same process.                                    *)
THEOREM OneHart == Spec => []OneHartPerProcess
BY HartsApart, Invariance, PTL

(* Together: the schedulers of any number of harts do each other no harm.   *)
THEOREM StaysSafe == Spec => []SchedulerSafe
<1>1. TypeOK /\ OneHartPerProcess /\ NoFault => SchedulerSafe
  BY DEF SchedulerSafe
<1>2. QED
  BY <1>1, TypeCorrect, OneHart, NeverFaults, PTL

(* A process moves down one level at a time and only by using up its slice; *)
(* it moves up only to level 0.                                             *)
THEOREM LevelDiscipline == Spec => LevelSteps
<1>1. IInv /\ [Next]_vars => [\A p \in Proc : LevelStep(p)]_vars
  BY LevelsMove
<1>2. QED
  BY <1>1, Invariance, PTL DEF Spec, LevelSteps, LevelStep

-----------------------------------------------------------------------------
(* A machine with one hart: while boost_priority() or scheduler()'s search  *)
(* runs, with interrupts off, nothing else does.                            *)
Alone ==
  /\ pc[Boot] = "idle" => qi[Boot] = 0
  /\ pc[Boot] \in {"tick", "boost", "requeue"} /\ proc[Boot] = None => qi[Boot] = 0
  /\ pc[Boot] \in {"scan", "hand"} => \A q \in Levels : q < qi[Boot] => mlfq[q] = <<>>
  /\ pc[Boot] = "boost" => \A p \in Proc : p < idx => queue[p] = 0 /\ ticks[p] = 0
  /\ pc[Boot] = "requeue" => \A p \in Proc : queue[p] = 0 /\ ticks[p] = 0

LEMMA AloneNext ==
  ASSUME CPUs = {Boot}, IInv, Alone, [Next]_vars
  PROVE  /\ Alone'
         /\ BoostRequeue => \A p \in Proc : queue'[p] = 0 /\ ticks'[p] = 0
         /\ \A c \in CPUs : pc[c] # "hand" /\ pc'[c] = "hand" =>
              \A q \in Levels : q < qi[c] => mlfq[q] = <<>>
<1> USE DEF procVars, cpuVars, clockVars
<1> DEFINE b == Boot
           Promise == /\ Alone'
                      /\ BoostRequeue => \A p \in Proc : queue'[p] = 0 /\ ticks'[p] = 0
                      /\ pc[b] # "hand" /\ pc'[b] = "hand" =>
                            \A q \in Levels : q < qi[b] => mlfq[q] = <<>>
<1>1. /\ pc \in [CPUs -> Pc] /\ qi \in [CPUs -> Levels] /\ proc \in [CPUs -> Proc \cup {None}]
      /\ mlfq \in [Levels -> Seq(Proc)] /\ queue \in [Proc -> Levels] /\ ticks \in [Proc -> Nat]
      /\ idx \in 1..NPROC /\ b \in CPUs
      /\ pc[b] \in {"idle", "scan", "hand"} => proc[b] = None
      /\ pc[b] \in {"run", "yield", "enq", "out"} => proc[b] # None
  BY CpusAssumption DEF IInv, TypeOK, HartInv
<1>2. CASE Dequeue(b)
  <2>1. pc[b] \in {"idle", "scan"} /\ \A q \in Levels : q < qi[b] => mlfq[q] = <<>>
    BY <1>1, <1>2 DEF Dequeue, Alone, Levels
  <2>2. CASE mlfq[qi[b]] = <<>>
    <3>1. /\ qi'[b] = IF qi[b] < 3 THEN qi[b] + 1 ELSE 0
          /\ pc'[b] = IF qi[b] < 3 THEN "scan" ELSE "idle"
          /\ mlfq' = mlfq
      BY <1>1, <1>2, <2>2 DEF Dequeue
    <3>2. \A q \in Levels : q < qi'[b] => mlfq'[q] = <<>>
      <4> TAKE q \in Levels
      <4>1. q < qi'[b] => q < qi[b] \/ q = qi[b]
        BY <1>1, <3>1, SMTT(30) DEF Levels
      <4> QED BY <2>1, <2>2, <3>1, <4>1, Zenon
    <3> QED BY <2>1, <3>1, <3>2, Zenon DEF Alone, BoostRequeue
  <2>3. CASE mlfq[qi[b]] # <<>>
    <3>1. /\ pc'[b] = "hand" /\ qi' = qi /\ \A q \in Levels : q < qi[b] => mlfq'[q] = mlfq[q]
      BY <1>1, <1>2, <2>3 DEF Dequeue, Levels
    <3> QED BY <2>1, <3>1, Zenon DEF Alone, BoostRequeue
  <2> QED BY <2>2, <2>3, Zenon
<1>3. CASE Dispatch(b)
  BY <1>1, <1>3 DEF Dispatch, Alone, BoostRequeue
<1>4. CASE SwitchOut(b)
  BY <1>1, <1>4 DEF SwitchOut, Alone, BoostRequeue
<1>5. CASE YieldCharge(b)
  BY <1>1, <1>5 DEF YieldCharge, Alone, BoostRequeue
<1>6. CASE YieldEnqueue(b)
  BY <1>1, <1>6 DEF YieldEnqueue, Alone, BoostRequeue
<1>7. CASE Process(b)
  <2>1. pc[b] \in {"run", "idle", "yield"} /\ pc' \in {pc, [pc EXCEPT ![b] = "out"]} /\ qi' = qi
    BY <1>7 DEF Process, Sleep, Wakeup, Exit, ForkAlloc, ForkReady, Reap
  <2> QED BY <1>1, <2>1, Zenon DEF Alone, BoostRequeue
<1>8. CASE Timer(b)
  BY <1>1, <1>8, NprocAssumption, Zenon DEF Timer, Alone, BoostRequeue
<1>9. CASE TickWakeup
  <2>1. /\ pc[b] = "tick" /\ qi' = qi /\ proc' = proc
        /\ \/ pc' = pc
           \/ idx' = 1 /\ pc' = [pc EXCEPT ![b] = "boost"]
           \/ idx' = 1 /\ pc' = [pc EXCEPT ![b] = IF proc[b] # None THEN "yield" ELSE "scan"]
    BY <1>9, Zenon DEF TickWakeup, AfterClock
  <2> QED BY <1>1, <2>1 DEF Alone, BoostRequeue, Proc, Levels
<1>10. CASE BoostReset
  <2>1. /\ pc[b] = "boost" /\ queue' = [queue EXCEPT ![idx] = 0] /\ ticks' = [ticks EXCEPT ![idx] = 0]
        /\ IF idx < NPROC THEN idx' = idx + 1 /\ pc' = pc
           ELSE idx' = 1 /\ pc' = [pc EXCEPT ![b] = "requeue"]
        /\ qi' = qi /\ proc' = proc
    BY <1>10 DEF BoostReset, ResetLevel
  <2>2. \A p \in Proc : p <= idx => queue'[p] = 0 /\ ticks'[p] = 0
    BY <1>1, <2>1, SMTT(30) DEF Alone, Proc
  <2>3. CASE idx < NPROC
    BY <1>1, <2>1, <2>2, <2>3, SMTT(30) DEF Alone, BoostRequeue, Proc
  <2>4. CASE ~(idx < NPROC)
    <3>1. \A p \in Proc : p <= idx
      BY <1>1, <2>4, NprocAssumption, SMTT(30) DEF Proc
    <3> QED BY <1>1, <2>1, <2>2, <2>4, <3>1, SMTT(30) DEF Alone, BoostRequeue
  <2> QED BY <2>3, <2>4, Zenon
<1>11. CASE BoostRequeue
  BY <1>1, <1>11, SMTT(30) DEF BoostRequeue, AfterClock, Alone, Levels
<1>12. CASE UNCHANGED vars
  BY <1>1, <1>12, Zenon DEF vars, Alone, BoostRequeue
<1>13. Promise
  BY <1>2, <1>3, <1>4, <1>5, <1>6, <1>7, <1>8, <1>9, <1>10, <1>11, <1>12, ZenonT(40)
     DEF Next, Scheduler, Yield, ClockTail
<1> QED BY <1>13, Zenon

LEMMA AloneInit == Init => Alone
BY CpusAssumption DEF Init, Alone

LEMMA AloneStays ==
  ASSUME CPUs = {Boot}
  PROVE  Spec => []Alone
<1>1. IInv /\ Alone /\ [Next]_vars => Alone'
  BY AloneNext, Zenon
<1> QED BY <1>1, AloneInit, Invariance, PTL DEF Spec

(* With one hart, boost_priority() leaves every process at level 0 with no  *)
(* tick charged, whatever its slices and its period: only a second hart can *)
(* yield() between its two loops.                                           *)
THEOREM OneHartBoosts ==
  ASSUME CPUs = {Boot}
  PROVE  Spec => BoostResetsAll
<1>1. IInv /\ Alone /\ [Next]_vars =>
        [BoostRequeue => \A p \in Proc : queue'[p] = 0 /\ ticks'[p] = 0]_vars
  BY AloneNext, Zenon
<1> QED BY <1>1, AloneStays, Invariance, PTL DEF Spec, BoostResetsAll

(* With one hart, scheduler() always takes from the highest level at which  *)
(* a process waits.                                                         *)
THEOREM OneHartHighestFirst ==
  ASSUME CPUs = {Boot}
  PROVE  Spec => HighestFirst
<1>1. IInv /\ Alone /\ [Next]_vars =>
        [\A c \in CPUs : pc[c] # "hand" /\ pc'[c] = "hand" =>
           \A q \in Levels : q < qi[c] => mlfq[q] = <<>>]_vars
  BY AloneNext, Zenon
<1> QED BY <1>1, AloneStays, Invariance, PTL DEF Spec, HighestFirst
=============================================================================
