----------------------------- MODULE RingProofs -----------------------------
(***************************************************************************)
(* The kernel's two rings with unsigned indices that wrap around: a pipe   *)
(* is sound in use and a first-in first-out channel of PIPESIZE bytes, and *)
(* the console loses no wakeup and is a line discipline.  This is for any  *)
(* number of readers and writers, any size of the buffer and any width of  *)
(* the indices that it divides.                                            *)
(*                                                                         *)
(* The invariant of Pipe adds to PipeSound who has pi->lock and what the   *)
(* holder has found out under it: a test made under the lock is still good *)
(* when the process sleeps, copies or leaves.  That of Console adds that   *)
(* the line being typed never fills the ring.  The refinements map the     *)
(* bytes between two indices to a sequence.                                *)
(***************************************************************************)
EXTENDS Pipe, Console, TLAPS, SequenceTheorems

(* The number of bytes in the pipe.                                         *)
Count == (nwrite - nread) % UintMod

(* pi->lock is held exactly from acquire() on to release() or sleep(), and  *)
(* only readers copy bytes out.                                             *)
LockExact ==
  \A p \in Procs : /\ pc[p] \in {"loop", "body", "copy"} <=> lock = p
                   /\ pc[p] = "copy" => p \in Readers

(* A process in a call has its descriptor open; the one that closes an end  *)
(* was the last to have it, and is the only one.                            *)
EndsExact ==
  \A p \in Procs :
    /\ pc[p] \notin {"idle", "close"} => p \in open
    /\ pc[p] = "close" => /\ open \cap Side(p) = {}
                          /\ \A q \in Side(p) : pc[q] = "close" => q = p
    /\ p \in Writers /\ writeopen = 0 => p \notin open /\ pc[p] # "close"
    /\ p \in Readers /\ readopen = 0 => p \notin open /\ pc[p] # "close"

FreedExact == freed = "yes" <=> readopen = 0 /\ writeopen = 0

(* What a process has found out holds as long as it has the lock.           *)
TestsHold ==
  /\ \A p \in Writers : pc[p] = "body" => readopen = 1 /\ left[p] > 0
  /\ \A p \in Readers : pc[p] = "body" => Empty /\ writeopen = 1
  /\ \A p \in Readers : pc[p] = "copy" /\ ret[p] = "none" => ~Empty \/ writeopen = 0

(* A sleeper's reason is gone only while the one who took it away still has *)
(* the lock, and with it a wakeup() ahead.                                  *)
SleepersSound ==
  /\ killed \cap Writers = {} =>
       \A p \in Readers : pc[p] = "asleep" =>
         writeopen = 1 /\ (Empty \/ \E w \in Writers : lock = w)
  /\ \A p \in Writers : pc[p] = "asleep" =>
       readopen = 1 /\ (Full \/ \E r \in Readers : pc[r] = "copy")

Inv ==
  /\ TypeOK /\ Count <= PIPESIZE
  /\ LockExact /\ EndsExact /\ FreedExact /\ TestsHold /\ EofIsFinal /\ SleepersSound

-----------------------------------------------------------------------------
(* Arithmetic: remainders, for a divisor that is not a numeral.             *)

LEMMA DivMod ==
  ASSUME NEW a \in Int, NEW k \in Nat \ {0}
  PROVE  a % k \in 0..(k - 1) /\ a \div k \in Int /\ a = k * (a \div k) + (a % k)
OBVIOUS

LEMMA OneRemainder ==
  ASSUME NEW k \in Nat \ {0}, NEW p \in Int, NEW q \in Int,
         NEW r \in 0..(k - 1), NEW s \in 0..(k - 1), k * p + r = k * q + s
  PROVE  r = s
<1>1. CASE p < q
  <2>1. k * q >= k * (p + 1)
    BY <1>1
  <2>2. k * (p + 1) = k * p + k
    OBVIOUS
  <2> QED BY <2>1, <2>2
<1>2. CASE q < p
  <2>1. k * p >= k * (q + 1)
    BY <1>2
  <2>2. k * (q + 1) = k * q + k
    OBVIOUS
  <2> QED BY <2>1, <2>2
<1> QED BY <1>1, <1>2

LEMMA ModIs ==
  ASSUME NEW k \in Nat \ {0}, NEW a \in Int, NEW q \in Int, NEW r \in 0..(k - 1), a = k * q + r
  PROVE  a % k = r
BY DivMod, OneRemainder

(* A multiple of the divisor makes no difference.                           *)
LEMMA ModShift ==
  ASSUME NEW k \in Nat \ {0}, NEW a \in Int, NEW c \in Int
  PROVE  (a + k * c) % k = a % k
<1> DEFINE d == a \div k
<1>1. a = k * d + (a % k) /\ a % k \in 0..(k - 1) /\ d \in Int
  BY DivMod, Zenon
<1>2. a + k * c = k * (d + c) + (a % k) /\ d + c \in Int /\ a + k * c \in Int
  BY <1>1
<1> QED BY <1>1, <1>2, ModIs, ZenonT(40)

(* Numbers less than the divisor apart have different remainders.           *)
LEMMA ModApart ==
  ASSUME NEW k \in Nat \ {0}, NEW a \in Int, NEW b \in Int, a < b, b < a + k
  PROVE  a % k # b % k
<1> SUFFICES ASSUME a % k = b % k PROVE FALSE
  OBVIOUS
<1> DEFINE x == a \div k
           y == b \div k
<1>1. a = k * x + (a % k) /\ a % k \in 0..(k - 1) /\ x \in Int
  BY DivMod
<1>2. b = k * y + (b % k) /\ b % k \in 0..(k - 1) /\ y \in Int
  BY DivMod, Zenon
<1>3. k * (y - x) = b - a
  BY <1>1, <1>2
<1>4. CASE y - x <= 0
  <2>1. k * (y - x) <= 0
    BY <1>1, <1>2, <1>4
  <2> QED BY <1>3, <2>1
<1>5. CASE y - x >= 1
  <2>1. k * (y - x) >= k
    BY <1>1, <1>2, <1>5
  <2> QED BY <1>3, <2>1
<1> QED BY <1>1, <1>2, <1>4, <1>5

(* The unsigned arithmetic of pipe.c, case by case.                         *)
LEMMA Unsigned ==
  ASSUME NEW m \in 0..(UintMod - 1), NEW n \in 0..(UintMod - 1)
  PROVE  /\ (n - m) % UintMod = IF n >= m THEN n - m ELSE n - m + UintMod
         /\ (n + 1) % UintMod = IF n + 1 = UintMod THEN 0 ELSE n + 1
         /\ (m + PIPESIZE) % UintMod =
              IF m + PIPESIZE < UintMod THEN m + PIPESIZE ELSE m + PIPESIZE - UintMod
<1>1. UintMod \in Nat \ {0} /\ PIPESIZE \in Nat /\ PIPESIZE < UintMod
  BY SizeAssumption
<1>2. \A a \in Int, r \in 0..(UintMod - 1) :
        a = r \/ a = r - UintMod \/ a = r + UintMod => a % UintMod = r
  <2> SUFFICES ASSUME NEW a \in Int, NEW r \in 0..(UintMod - 1), NEW q \in {-1, 0, 1},
                      a = UintMod * q + r
               PROVE  a % UintMod = r
    BY <1>1
  <2> QED BY <1>1, ModIs
<1>3. (n - m) % UintMod = IF n >= m THEN n - m ELSE n - m + UintMod
  BY <1>1, <1>2
<1>4. (n + 1) % UintMod = IF n + 1 = UintMod THEN 0 ELSE n + 1
  BY <1>1, <1>2
<1>5. (m + PIPESIZE) % UintMod =
        IF m + PIPESIZE < UintMod THEN m + PIPESIZE ELSE m + PIPESIZE - UintMod
  BY <1>1, <1>2
<1> QED BY <1>3, <1>4, <1>5, Zenon

(* Full and Empty are about the number of bytes.                            *)
LEMMA CountFacts ==
  ASSUME TypeOK
  PROVE  /\ Count = IF nwrite >= nread THEN nwrite - nread ELSE nwrite - nread + UintMod
         /\ Count \in 0..(UintMod - 1)
         /\ Empty <=> Count = 0
         /\ Full <=> Count = PIPESIZE
<1>1. UintMod \in Nat /\ PIPESIZE \in Nat \ {0} /\ PIPESIZE < UintMod
  BY SizeAssumption
<1>2. nread \in 0..(UintMod - 1) /\ nwrite \in 0..(UintMod - 1)
  BY Zenon DEF TypeOK
<1>3. Count = IF nwrite >= nread THEN nwrite - nread ELSE nwrite - nread + UintMod
  BY <1>2, Unsigned, Zenon DEF Count
<1>4. Full <=> nwrite = IF nread + PIPESIZE < UintMod THEN nread + PIPESIZE
                        ELSE nread + PIPESIZE - UintMod
  BY <1>2, Unsigned DEF Full
<1> QED BY <1>1, <1>2, <1>3, <1>4 DEF Empty

-----------------------------------------------------------------------------
(* Who is where when p has the lock.                                        *)
LEMMA HolderAlone ==
  ASSUME Inv, NEW p \in Procs, lock = p
  PROVE  \A q \in Procs : q # p => pc[q] \notin {"loop", "body", "copy"}
BY Zenon DEF Inv, LockExact

Pc == {"idle", "call", "loop", "body", "asleep", "copy", "close"}

(* The pcs after some sleepers were woken.                                  *)
Woken(pcs) ==
  /\ pcs \in [Procs -> Pc]
  /\ \A q \in Procs : pcs[q] = pc[q] \/ (pc[q] = "asleep" /\ pcs[q] = "call")

LEMMA WakeupFacts ==
  ASSUME TypeOK, NEW S
  PROVE  /\ Woken(Wakeup(S)) /\ Woken(pc)
         /\ \A q \in Procs \cap S : Wakeup(S)[q] # "asleep"
BY Zenon DEF TypeOK, Wakeup, Woken, Pc

(* The holder of the lock may leave when the sleepers that stay have a      *)
(* reason to.                                                               *)
LEMMA LeaveInv ==
  ASSUME Inv, NEW p \in Procs, lock = p,
         NEW pcs, Woken(pcs), NEW x \in {"idle", "asleep"},
         NEW r \in {"none", "data", "eof", "fail"}, Leave(p, pcs, x, r),
         p \in Readers /\ r = "eof" => Empty /\ writeopen = 0,
         killed \cap Writers = {} =>
           \A q \in Readers : pc'[q] = "asleep" => Empty /\ writeopen = 1,
         \A q \in Writers : pc'[q] = "asleep" => Full /\ readopen = 1
  PROVE  Inv'
<1> USE DEF Inv
<1>1. /\ lock' = Nobody /\ pc' = [pcs EXCEPT ![p] = x] /\ ret' = [ret EXCEPT ![p] = r]
      /\ left' = IF x = "idle" THEN [left EXCEPT ![p] = 0] ELSE left
      /\ UNCHANGED <<shared, open, killed>>
  BY Zenon DEF Leave
<1>2. Nobody \notin Procs /\ MaxN \in Nat
  BY RolesAssumption, SizeAssumption, Zenon
<1>3. TypeOK'
  BY <1>1, <1>2 DEF TypeOK, Woken, Pc, shared
<1>4. Count' = Count /\ Empty' = Empty /\ Full' = Full
  BY <1>1, Zenon DEF Count, Empty, Full, shared
<1>5. \A q \in Procs : /\ q # p => pc'[q] = pc[q] \/ (pc[q] = "asleep" /\ pc'[q] = "call")
                       /\ pc'[p] = x
  BY <1>1, Zenon DEF Woken, Pc
<1>6. \A q \in Procs : pc'[q] \notin {"loop", "body", "copy"}
  BY <1>5, HolderAlone, Zenon
<1>7. LockExact' /\ FreedExact' /\ TestsHold'
  BY <1>1, <1>2, <1>6, Zenon DEF LockExact, FreedExact, TestsHold, shared, Procs
<1>8. EndsExact'
  <2>1. p \in open
    BY Zenon DEF LockExact, EndsExact
  <2> QED BY <1>1, <1>5, <2>1, Zenon DEF EndsExact, Side, shared, Procs
<1>9. EofIsFinal'
  BY <1>1, <1>4, Zenon DEF EofIsFinal, TypeOK, shared, Procs
<1>10. SleepersSound'
  BY <1>1, <1>4, Zenon DEF SleepersSound, shared
<1> QED BY <1>3, <1>4, <1>7, <1>8, <1>9, <1>10, Zenon

(* The holder of the lock goes on from one place to another.                *)
LEMMA GotoInv ==
  ASSUME Inv, NEW p \in Procs, lock = p, NEW x \in {"body", "copy"}, Goto(p, x),
         x = "body" /\ p \in Writers => readopen = 1 /\ left[p] > 0,
         x = "body" /\ p \in Readers => Empty /\ writeopen = 1,
         x = "copy" => p \in Readers /\ (~Empty \/ writeopen = 0),
         pc[p] = "loop"
  PROVE  Inv'
<1> USE DEF Inv
<1>1. pc' = [pc EXCEPT ![p] = x] /\ UNCHANGED <<shared, lock, left, ret, open, killed>>
  BY Zenon DEF Goto
<1>2. TypeOK'
  BY <1>1, Zenon DEF TypeOK, shared
<1>3. Count' = Count /\ Empty' = Empty /\ Full' = Full
  BY <1>1, Zenon DEF Count, Empty, Full, shared
<1>4. \A q \in Procs : pc'[q] = IF q = p THEN x ELSE pc[q]
  BY <1>1, Zenon DEF TypeOK
<1>5. LockExact' /\ FreedExact' /\ EofIsFinal'
  BY <1>1, <1>3, <1>4, Zenon DEF LockExact, FreedExact, EofIsFinal, shared
<1>6. TestsHold'
  BY <1>1, <1>3, <1>4, RolesAssumption, Zenon DEF TestsHold, shared, Procs
<1>7. EndsExact'
  BY <1>1, <1>4 DEF EndsExact, LockExact, Side, shared, Procs
<1>8. SleepersSound'
  BY <1>1, <1>3, <1>4, Zenon DEF SleepersSound, shared, Procs
<1> QED BY <1>2, <1>3, <1>5, <1>6, <1>7, <1>8, Zenon

(* The sleepers of each end while p has the lock.                           *)
LEMMA SleepersNow ==
  ASSUME Inv, NEW p \in Procs, lock = p
  PROVE  /\ p \in Readers /\ killed \cap Writers = {} =>
              \A q \in Readers : pc[q] = "asleep" => Empty /\ writeopen = 1
         /\ pc[p] # "copy" => \A q \in Writers : pc[q] = "asleep" => Full /\ readopen = 1
<1>1. p \in Readers => p \notin Writers
  BY RolesAssumption, Zenon
<1>2. \A r \in Readers : pc[r] = "copy" => r = p
  BY HolderAlone, Zenon DEF Procs
<1> QED BY <1>1, <1>2 DEF Inv, SleepersSound, Procs

(* Nobody sleeps for a closed end: whoever could is not in a call.          *)
LEMMA ClosedEnds ==
  ASSUME Inv
  PROVE  /\ readopen = 0 => \A q \in Readers : pc[q] = "idle"
         /\ writeopen = 0 => \A q \in Writers : pc[q] = "idle"
BY DEF Inv, EndsExact, Procs

-----------------------------------------------------------------------------
LEMMA WriteTestInv ==
  ASSUME Inv, NEW p \in Writers, WriteTest(p)
  PROVE  Inv'
<1> USE DEF Inv
<1>1. p \in Procs /\ lock = p /\ p \notin Readers /\ pc[p] = "loop" /\ left[p] > 0
  BY RolesAssumption, Zenon DEF WriteTest, LockExact, Procs
<1>2. CASE readopen = 0 \/ p \in killed
  <2>1. Leave(p, pc, "idle", "fail") /\ Woken(pc)
    BY <1>2, WakeupFacts, Zenon DEF WriteTest
  <2>2. pc' = [pc EXCEPT ![p] = "idle"]
    BY <2>1, Zenon DEF Leave
  <2>3. killed \cap Writers = {} =>
          \A q \in Readers : pc'[q] = "asleep" => Empty /\ writeopen = 1
    BY <1>1, <1>2, <2>2, ClosedEnds, Zenon DEF TypeOK, Procs
  <2>4. \A q \in Writers : pc'[q] = "asleep" => Full /\ readopen = 1
    BY <1>1, <2>2, SleepersNow, Zenon DEF TypeOK, Procs
  <2> QED BY <1>1, <2>1, <2>3, <2>4, LeaveInv, Zenon
<1>3. CASE ~(readopen = 0 \/ p \in killed)
  <2>1. Goto(p, "body") /\ readopen = 1
    BY <1>3 DEF WriteTest, TypeOK
  <2> QED BY <1>1, <2>1, GotoInv, Zenon
<1> QED BY <1>2, <1>3, Zenon

(* wakeup(&pi->nread) leaves no reader asleep.                              *)
LEMMA WriteLeaveInv ==
  ASSUME Inv, NEW p \in Writers, WriteSleep(p) \/ WriteDone(p)
  PROVE  Inv'
<1> USE DEF Inv
<1>1. p \in Procs /\ lock = p /\ p \notin Readers /\ pc[p] \in {"loop", "body"}
  BY RolesAssumption, Zenon DEF WriteSleep, WriteDone, LockExact, Procs
<1>2. Woken(Wakeup(Readers)) /\ \A q \in Readers : Wakeup(Readers)[q] # "asleep"
  BY WakeupFacts, Zenon DEF Procs
<1>3. ASSUME NEW x \in {"idle", "asleep"}, NEW r \in {"none", "data", "eof", "fail"},
             Leave(p, Wakeup(Readers), x, r), x = "asleep" => Full /\ readopen = 1
      PROVE  Inv'
  <2>1. pc' = [Wakeup(Readers) EXCEPT ![p] = x]
    BY <1>3, Zenon DEF Leave
  <2>2. \A q \in Readers : pc'[q] # "asleep"
    BY <1>1, <1>2, <2>1, Zenon DEF Woken, Procs
  <2>3. \A q \in Writers : pc'[q] = "asleep" => Full /\ readopen = 1
    BY <1>1, <1>2, <1>3, <2>1, SleepersNow, Zenon DEF Woken, Procs
  <2> QED BY <1>1, <1>2, <1>3, <2>2, <2>3, LeaveInv, Zenon
<1>4. CASE WriteSleep(p)
  <2>1. readopen = 1 /\ Full /\ Leave(p, Wakeup(Readers), "asleep", ret[p])
    BY <1>4, Zenon DEF WriteSleep, TestsHold
  <2>2. ret[p] \in {"none", "data", "eof", "fail"}
    BY <1>1, Zenon DEF TypeOK
  <2> QED BY <1>3, <2>1, <2>2, Zenon
<1>5. CASE WriteDone(p)
  BY <1>3, <1>5, Zenon DEF WriteDone
<1> QED BY <1>4, <1>5, Zenon

(* A byte more: the counters wrap around, Count does not.                   *)
LEMMA WriteByteInv ==
  ASSUME Inv, NEW p \in Writers, NEW b \in Byte, WriteByte(p, b)
  PROVE  Inv' /\ Count' = Count + 1 /\ Count < PIPESIZE
<1> USE DEF Inv
<1>1. p \in Procs /\ lock = p /\ p \notin Readers /\ pc[p] = "body"
  BY RolesAssumption, Zenon DEF WriteByte, LockExact, Procs
<1>2. UintMod \in Nat /\ PIPESIZE \in Nat \ {0} /\ PIPESIZE < UintMod /\ MaxN \in Nat
  BY SizeAssumption, Zenon
<1>3. /\ Count = IF nwrite >= nread THEN nwrite - nread ELSE nwrite - nread + UintMod
      /\ Count \in 0..(UintMod - 1) /\ Count < PIPESIZE
  BY <1>2, CountFacts DEF WriteByte
<1>4. nread \in 0..(UintMod - 1) /\ nwrite \in 0..(UintMod - 1)
  BY Zenon DEF TypeOK
<1>5. nwrite' = IF nwrite + 1 = UintMod THEN 0 ELSE nwrite + 1
  BY <1>4, Unsigned, Zenon DEF WriteByte
<1>6. TypeOK'
  <2>1. nwrite' \in 0..(UintMod - 1)
    BY <1>2, <1>4, <1>5
  <2>2. left' \in [Procs -> 0..MaxN]
    BY <1>1, <1>2 DEF WriteByte, TypeOK, TestsHold
  <2> QED BY <2>1, <2>2, ZenonT(40) DEF WriteByte, TypeOK
<1>7. Count' = Count + 1
  <2>1. Count' = IF nwrite' >= nread' THEN nwrite' - nread' ELSE nwrite' - nread' + UintMod
    BY <1>6, Unsigned, ZenonT(40) DEF Count, TypeOK
  <2> QED BY <1>2, <1>3, <1>4, <1>5, <2>1 DEF WriteByte
<1>8. \A q \in Procs : pc'[q] = IF q = p THEN "loop" ELSE pc[q]
  BY <1>1, Zenon DEF TypeOK, WriteByte
<1>9. LockExact' /\ FreedExact' /\ EndsExact'
  BY <1>1, <1>8 DEF WriteByte, LockExact, FreedExact, EndsExact, Side, Procs
<1>10. TestsHold'
  BY <1>1, <1>8, HolderAlone DEF WriteByte, TestsHold, Procs
<1>11. p \in open /\ writeopen = 1
  BY <1>1 DEF EndsExact, TypeOK, Procs
<1>12. EofIsFinal'
  BY <1>11 DEF WriteByte, EofIsFinal
<1>13. SleepersSound'
  <2>1. \A q \in Writers : pc[q] # "asleep"
    BY <1>1, SleepersNow, Zenon DEF WriteByte
  <2> QED BY <1>1, <1>8, <1>11, <2>1 DEF WriteByte, SleepersSound, Procs
<1> QED BY <1>2, <1>3, <1>6, <1>7, <1>9, <1>10, <1>12, <1>13

-----------------------------------------------------------------------------
LEMMA ReadEmptyInv ==
  ASSUME Inv, NEW p \in Readers, ReadEmpty(p) \/ ReadSleep(p) \/ ReadReady(p)
  PROVE  Inv'
<1> USE DEF Inv
<1>1. p \in Procs /\ lock = p /\ p \notin Writers /\ pc[p] \in {"loop", "body"}
  BY RolesAssumption, Zenon DEF ReadEmpty, ReadSleep, ReadReady, LockExact, Procs
<1>2. ASSUME NEW x \in {"idle", "asleep"}, NEW r \in {"none", "data", "eof", "fail"},
             Leave(p, pc, x, r), Empty /\ writeopen = 1,
             r # "eof"
      PROVE  Inv'
  <2>1. pc' = [pc EXCEPT ![p] = x] /\ Woken(pc)
    BY <1>2, WakeupFacts, Zenon DEF Leave
  <2>2. \A q \in Writers : pc'[q] = "asleep" => Full /\ readopen = 1
    BY <1>1, <2>1, SleepersNow, Zenon DEF TypeOK, Procs
  <2> QED BY <1>1, <1>2, <2>1, <2>2, LeaveInv, Zenon
<1>3. CASE ReadEmpty(p)
  <2>1. Empty /\ writeopen = 1 /\ pc[p] = "loop"
    BY <1>3, Zenon DEF ReadEmpty
  <2>2. CASE p \in killed
    BY <1>2, <1>3, <2>1, <2>2, Zenon DEF ReadEmpty
  <2>3. CASE p \notin killed
    BY <1>1, <1>3, <2>1, <2>3, GotoInv, Zenon DEF ReadEmpty
  <2> QED BY <2>2, <2>3, Zenon
<1>4. CASE ReadSleep(p)
  <2>1. Empty /\ writeopen = 1 /\ Leave(p, pc, "asleep", ret[p])
    BY <1>4, Zenon DEF ReadSleep, TestsHold
  <2>2. ret[p] \in {"none", "data", "eof", "fail"} /\ ret[p] # "eof"
    BY <1>1, <2>1 DEF TypeOK, EofIsFinal
  <2> QED BY <1>2, <2>1, <2>2, Zenon
<1>5. CASE ReadReady(p)
  BY <1>1, <1>5, GotoInv, Zenon DEF ReadReady
<1> QED BY <1>3, <1>4, <1>5, Zenon

LEMMA ReadByteInv ==
  ASSUME Inv, NEW p \in Readers, ReadByte(p)
  PROVE  Inv' /\ Count' = Count - 1 /\ Count > 0
<1> USE DEF Inv
<1>1. p \in Procs /\ lock = p /\ p \notin Writers /\ pc[p] = "copy"
  BY RolesAssumption, Zenon DEF ReadByte, LockExact, Procs
<1>2. UintMod \in Nat /\ PIPESIZE \in Nat \ {0} /\ PIPESIZE < UintMod /\ MaxN \in Nat
  BY SizeAssumption, Zenon
<1>3. /\ Count = IF nwrite >= nread THEN nwrite - nread ELSE nwrite - nread + UintMod
      /\ Count \in 0..(UintMod - 1) /\ Count > 0
  BY <1>2, CountFacts DEF ReadByte
<1>4. nread \in 0..(UintMod - 1) /\ nwrite \in 0..(UintMod - 1)
  BY Zenon DEF TypeOK
<1>5. nread' = IF nread + 1 = UintMod THEN 0 ELSE nread + 1
  BY <1>4, Unsigned, Zenon DEF ReadByte
<1>6. TypeOK'
  <2>1. nread' \in 0..(UintMod - 1)
    BY <1>2, <1>4, <1>5
  <2>2. left' \in [Procs -> 0..MaxN]
    BY <1>1, <1>2 DEF ReadByte, TypeOK
  <2> QED BY <2>1, <2>2, Zenon DEF ReadByte, TypeOK
<1>7. Count' = Count - 1
  <2>1. Count' = IF nwrite' >= nread' THEN nwrite' - nread' ELSE nwrite' - nread' + UintMod
    BY <1>6, Unsigned, ZenonT(40) DEF Count, TypeOK
  <2> QED BY <1>2, <1>3, <1>4, <1>5, <2>1 DEF ReadByte
<1>8. LockExact' /\ FreedExact' /\ EndsExact'
  BY Zenon DEF ReadByte, LockExact, FreedExact, EndsExact, Side
<1>9. TestsHold'
  BY <1>1, HolderAlone, Zenon DEF ReadByte, TestsHold, TypeOK, Procs
<1>10. EofIsFinal'
  BY <1>1, Zenon DEF ReadByte, EofIsFinal, TypeOK, Procs
<1>11. SleepersSound'
  <2>1. killed \cap Writers = {} => \A q \in Readers : pc[q] # "asleep"
    BY <1>1, SleepersNow, Zenon DEF ReadByte
  <2> QED BY <1>1, <2>1, Zenon DEF ReadByte, SleepersSound, Procs
<1> QED BY <1>2, <1>3, <1>6, <1>7, <1>8, <1>9, <1>10, <1>11

(* wakeup(&pi->nwrite) leaves no writer asleep; end of file is seen under   *)
(* the lock.                                                                *)
LEMMA ReadDoneInv ==
  ASSUME Inv, NEW p \in Readers, ReadDone(p)
  PROVE  Inv'
<1> USE DEF Inv
<1>1. p \in Procs /\ lock = p /\ p \notin Writers /\ pc[p] = "copy"
  BY RolesAssumption, Zenon DEF ReadDone, LockExact, Procs
<1> DEFINE r == IF left[p] > 0 /\ ret[p] = "none" THEN IF Empty THEN "eof" ELSE "fail" ELSE ret[p]
<1>2. Leave(p, Wakeup(Writers), "idle", r)
  BY Zenon DEF ReadDone
<1>3. r \in {"none", "data", "eof", "fail"} /\ (r = "eof" => Empty /\ writeopen = 0)
  BY <1>1, Zenon DEF TypeOK, TestsHold, EofIsFinal
<1>4. Woken(Wakeup(Writers)) /\ \A q \in Writers : Wakeup(Writers)[q] # "asleep"
  BY WakeupFacts, Zenon DEF Procs
<1>5. pc' = [Wakeup(Writers) EXCEPT ![p] = "idle"]
  BY <1>2, Zenon DEF Leave
<1>6. \A q \in Writers : pc'[q] # "asleep"
  BY <1>1, <1>4, <1>5, Zenon DEF Woken, Procs
<1>7. killed \cap Writers = {} =>
        \A q \in Readers : pc'[q] = "asleep" => Empty /\ writeopen = 1
  BY <1>1, <1>4, <1>5, SleepersNow, Zenon DEF Woken, Procs
<1> HIDE DEF r
<1> QED BY <1>1, <1>2, <1>3, <1>4, <1>6, <1>7, LeaveInv, Zenon

-----------------------------------------------------------------------------
(* Steps of processes that do not have the lock.                            *)

LEMMA CallInv ==
  ASSUME Inv, NEW p \in Procs, NEW n \in 0..MaxN, Call(p, n)
  PROVE  Inv'
<1> USE DEF Inv
<1>1. TypeOK' /\ Count' = Count /\ Empty' = Empty /\ Full' = Full
  BY Zenon DEF Call, TypeOK, Count, Empty, Full, shared
<1>2. \A q \in Procs : pc'[q] = IF q = p THEN "call" ELSE pc[q]
  BY Zenon DEF Call, TypeOK
<1>3. LockExact' /\ FreedExact' /\ EndsExact'
  BY <1>2 DEF Call, LockExact, FreedExact, EndsExact, Side, shared, Procs
<1>4. TestsHold' /\ EofIsFinal'
  BY <1>1, <1>2, Zenon DEF Call, TestsHold, EofIsFinal, TypeOK, shared, Procs
<1>5. SleepersSound'
  BY <1>1, <1>2 DEF Call, SleepersSound, shared, Procs
<1> QED BY <1>1, <1>3, <1>4, <1>5, Zenon

LEMMA AcquireInv ==
  ASSUME Inv, NEW p \in Procs, Acquire(p)
  PROVE  Inv'
<1> USE DEF Inv
<1>1. TypeOK' /\ Count' = Count /\ Empty' = Empty /\ Full' = Full
  BY Zenon DEF Acquire, TypeOK, Count, Empty, Full, shared
<1>2. \A q \in Procs : pc'[q] = IF q = p THEN "loop" ELSE pc[q]
  BY Zenon DEF Acquire, TypeOK
<1>3. Nobody \notin Procs
  BY RolesAssumption, Zenon
<1>4. LockExact' /\ FreedExact' /\ EndsExact'
  BY <1>2, <1>3 DEF Acquire, LockExact, FreedExact, EndsExact, Side, shared, Procs
<1>5. TestsHold' /\ EofIsFinal'
  BY <1>1, <1>2 DEF Acquire, TestsHold, EofIsFinal, shared, Procs
<1>6. SleepersSound'
  BY <1>1, <1>2, <1>3 DEF Acquire, SleepersSound, shared, Procs
<1> QED BY <1>1, <1>4, <1>5, <1>6, Zenon

LEMMA CloseFileInv ==
  ASSUME Inv, NEW p \in Procs, CloseFile(p)
  PROVE  Inv'
<1> USE DEF Inv
<1>1. TypeOK' /\ Count' = Count /\ Empty' = Empty /\ Full' = Full
  BY Zenon DEF CloseFile, TypeOK, Count, Empty, Full, shared
<1>2. /\ pc'[p] = IF open' \cap Side(p) = {} THEN "close" ELSE "idle"
      /\ \A q \in Procs \ {p} : pc'[q] = pc[q]
      /\ open' = open \ {p} /\ p \in open /\ p \in Side(p) /\ pc[p] = "idle"
  BY Zenon DEF CloseFile, TypeOK, Side, Procs
<1>3. LockExact' /\ FreedExact' /\ TestsHold' /\ EofIsFinal'
  BY <1>1, <1>2
     DEF CloseFile, LockExact, FreedExact, TestsHold, EofIsFinal, shared, Procs
<1>4. EndsExact'
  <2>1. writeopen' = writeopen /\ readopen' = readopen
    BY Zenon DEF CloseFile, shared
  <2>2. ASSUME NEW q \in Procs
        PROVE  /\ pc'[q] \notin {"idle", "close"} => q \in open'
               /\ q \in Writers /\ writeopen' = 0 => q \notin open' /\ pc'[q] # "close"
               /\ q \in Readers /\ readopen' = 0 => q \notin open' /\ pc'[q] # "close"
    BY <1>2, <2>1, Zenon DEF EndsExact
  <2>3. ASSUME NEW q \in Procs, pc'[q] = "close"
        PROVE  open' \cap Side(q) = {} /\ \A o \in Side(q) : pc'[o] = "close" => o = q
    <3>1. \A o \in Side(q) : o \in Procs /\ Side(o) = Side(q)
      BY RolesAssumption, Zenon DEF Side, Procs
    <3>2. CASE q = p
      BY <1>2, <2>3, <3>1, <3>2, Zenon DEF EndsExact
    <3>3. CASE q # p
      BY <1>2, <2>3, <3>1, <3>3, Zenon DEF EndsExact
    <3> QED BY <3>2, <3>3, Zenon
  <2> QED BY <2>2, <2>3, Zenon DEF EndsExact, Side
<1>5. SleepersSound'
  BY <1>1, <1>2 DEF CloseFile, SleepersSound, shared, Procs
<1> QED BY <1>1, <1>3, <1>4, <1>5, Zenon

LEMMA KillInv ==
  ASSUME Inv, NEW p \in Procs, Kill(p)
  PROVE  Inv'
<1> USE DEF Inv
<1>1. TypeOK' /\ Count' = Count /\ Empty' = Empty /\ Full' = Full
  BY Zenon DEF Kill, TypeOK, Count, Empty, Full, shared
<1>2. \A q \in Procs : pc'[q] = IF q = p /\ pc[q] = "asleep" THEN "call" ELSE pc[q]
  BY Zenon DEF Kill, TypeOK
<1>3. LockExact' /\ FreedExact' /\ EndsExact'
  BY <1>2 DEF Kill, LockExact, FreedExact, EndsExact, Side, shared, Procs
<1>4. TestsHold' /\ EofIsFinal'
  BY <1>1, <1>2 DEF Kill, TestsHold, EofIsFinal, shared, Procs
<1>5. SleepersSound'
  BY <1>1, <1>2, Zenon DEF Kill, SleepersSound, shared, Procs
<1> QED BY <1>1, <1>3, <1>4, <1>5

(* pipeclose(): the end has nobody left, and the other end is woken.        *)
LEMMA PipeCloseInv ==
  ASSUME Inv, NEW p \in Procs, PipeClose(p)
  PROVE  Inv'
<1> USE DEF Inv
<1>1. /\ p \in Side(p) /\ Side(p) \subseteq Procs /\ pc[p] = "close" /\ lock = Nobody
      /\ open \cap Side(p) = {} /\ Nobody \notin Procs
      /\ \A q \in Side(p) : pc[q] = "close" => q = p
  BY RolesAssumption, Zenon DEF PipeClose, EndsExact, Side, Procs
<1>2. Woken(Wakeup(Procs \ Side(p))) /\ \A q \in Procs \ Side(p) : Wakeup(Procs \ Side(p))[q] # "asleep"
  BY WakeupFacts, Zenon
<1>3. /\ pc'[p] = "idle" /\ \A q \in Procs \ {p} : pc'[q] = Wakeup(Procs \ Side(p))[q]
      /\ pc' \in [Procs -> Pc]
  BY <1>2, Zenon DEF PipeClose, Woken, Pc
<1>4. /\ \A q \in Procs \ {p} : pc'[q] = pc[q] \/ (pc[q] = "asleep" /\ pc'[q] = "call")
      /\ \A q \in Procs \ Side(p) : pc'[q] # "asleep"
  BY <1>1, <1>2, <1>3, Zenon DEF Woken
<1>5. TypeOK'
  <2>1. writeopen' \in 0..1 /\ readopen' \in 0..1 /\ freed' \in {"no", "yes"}
    BY DEF PipeClose, TypeOK
  <2> QED BY <1>3, <2>1, ZenonT(40) DEF PipeClose, TypeOK, Pc
<1>6. Count' = Count /\ Empty' = Empty /\ Full' = Full
  BY Zenon DEF PipeClose, Count, Empty, Full
<1>7. \A q \in Procs : pc'[q] \notin {"loop", "body", "copy"}
  BY <1>1, <1>3, <1>4, Zenon DEF LockExact
<1>8. LockExact' /\ TestsHold'
  BY <1>1, <1>7, Zenon DEF PipeClose, LockExact, TestsHold, Procs
<1>9. FreedExact'
  BY Zenon DEF PipeClose, FreedExact, LastEnd, TypeOK
<1>10. \A q \in Side(p) : pc'[q] \in {"idle"} /\ q \notin open
  BY <1>1, <1>3, <1>4, Zenon DEF EndsExact, TypeOK
<1>11. EndsExact'
  <2>1. ASSUME NEW q \in Procs, q \in Side(p)
        PROVE  pc'[q] = "idle" /\ q \notin open'
    BY <1>10, <2>1, Zenon DEF PipeClose
  <2>2. ASSUME NEW q \in Procs, q \notin Side(p)
        PROVE  /\ pc'[q] \notin {"idle", "close"} => q \in open'
               /\ q \in Writers => writeopen' = writeopen
               /\ q \in Readers => readopen' = readopen
               /\ pc'[q] = "close" <=> pc[q] = "close"
               /\ \A o \in Side(q) : o \in Procs \ Side(p) /\ (pc'[o] = "close" => pc[o] = "close")
    BY <1>1, <1>4, <2>2, RolesAssumption, SMTT(40) DEF PipeClose, EndsExact, Side, Procs
  <2>3. open' = open
    BY Zenon DEF PipeClose
  <2> QED BY <2>1, <2>2, <2>3, Zenon DEF EndsExact, Side
<1>12. EofIsFinal'
  BY <1>6, Zenon DEF PipeClose, EofIsFinal
<1>13. SleepersSound'
  BY <1>4, <1>6, <1>10, RolesAssumption, Zenon DEF PipeClose, SleepersSound, Side, Procs
<1> QED BY <1>5, <1>6, <1>8, <1>9, <1>11, <1>12, <1>13, Zenon

-----------------------------------------------------------------------------
LEMMA InitInv == Init => Inv
<1> SUFFICES ASSUME Init PROVE Inv
  BY Zenon
<1>1. TypeOK
  BY SizeAssumption DEF Init, TypeOK
<1>2. Count = 0 /\ Count <= PIPESIZE
  BY <1>1, CountFacts, SizeAssumption DEF Init
<1>3. LockExact /\ EndsExact /\ FreedExact
  BY RolesAssumption DEF Init, LockExact, EndsExact, FreedExact
<1>4. TestsHold /\ EofIsFinal /\ SleepersSound
  BY Zenon DEF Init, TestsHold, EofIsFinal, SleepersSound, Procs
<1> QED BY <1>1, <1>2, <1>3, <1>4, Zenon DEF Inv

LEMMA StutterInv ==
  ASSUME Inv, UNCHANGED vars
  PROVE  Inv'
BY Zenon DEF Inv, TypeOK, Count, LockExact, EndsExact, FreedExact, TestsHold, EofIsFinal, SleepersSound,
       Empty, Full, vars, shared

LEMMA NextInv ==
  ASSUME Inv, [Next]_vars
  PROVE  Inv'
<1>1. ASSUME NEW p \in Procs,
             (\E n \in 0..MaxN : Call(p, n)) \/ Acquire(p) \/ CloseFile(p) \/ PipeClose(p) \/ Kill(p)
      PROVE  Inv'
  BY <1>1, CallInv, AcquireInv, CloseFileInv, PipeCloseInv, KillInv, Zenon
<1>2. ASSUME NEW p \in Writers, Write(p)
      PROVE  Inv'
  BY <1>2, WriteTestInv, WriteLeaveInv, WriteByteInv, Zenon DEF Write
<1>3. ASSUME NEW p \in Readers, Read(p)
      PROVE  Inv'
  BY <1>3, ReadEmptyInv, ReadByteInv, ReadDoneInv, Zenon DEF Read
<1>4. CASE Finished \/ UNCHANGED vars
  BY <1>4, StutterInv, Zenon DEF Finished
<1> QED BY <1>1, <1>2, <1>3, <1>4, Zenon DEF Next

LEMMA SpecInv == Spec => []Inv
<1>1. Inv /\ [Next]_vars => Inv'
  BY NextInv, Zenon
<1> QED BY InitInv, <1>1, PTL DEF Spec

(* No process touches a freed pipe, end of file is final and no wakeup is   *)
(* lost, for any number of readers and writers and any size of the pipe.    *)
THEOREM PipeStaysSound == Spec => []PipeSound
<1>1. ASSUME Inv PROVE NoUseAfterFree
  <2>1. ASSUME freed = "yes" PROVE open = {} /\ \A p \in Procs : pc[p] = "idle"
    BY <1>1, <2>1, ClosedEnds, Zenon DEF Inv, FreedExact, EndsExact, TypeOK, Procs
  <2> QED BY <1>1, <2>1, Zenon DEF NoUseAfterFree, Inv
<1>2. ASSUME Inv PROVE SleepersHaveReason
  <2>1. ASSUME lock = Nobody
        PROVE  /\ \A w \in Writers : lock # w
               /\ \A r \in Readers : pc[r] # "copy"
    BY <1>2, <2>1, RolesAssumption, Zenon DEF Inv, LockExact, Procs
  <2> QED BY <1>2, <2>1, Zenon DEF Inv, SleepersSound, SleepersHaveReason
<1>3. Inv => PipeSound
  BY <1>1, <1>2, Zenon DEF Inv, PipeSound
<1> QED BY SpecInv, <1>3, PTL


(* The slot nwrite % PIPESIZE comes after those of the bytes in the pipe,   *)
(* also when nwrite has wrapped around and nread has not.                   *)
LEMMA Slots ==
  ASSUME TypeOK
  PROVE  /\ nwrite % PIPESIZE = (nread + Count) % PIPESIZE
         /\ \A j \in Nat : (((nread + 1) % UintMod) + j) % PIPESIZE = (nread + 1 + j) % PIPESIZE
<1>1. /\ UintMod \in Nat /\ PIPESIZE \in Nat \ {0} /\ PIPESIZE < UintMod
      /\ nread \in 0..(UintMod - 1) /\ nwrite \in 0..(UintMod - 1)
  BY SizeAssumption, Zenon DEF TypeOK
<1> DEFINE d == UintMod \div PIPESIZE
<1>2. UintMod = PIPESIZE * d /\ d \in Int
  BY <1>1, SizeAssumption, DivMod
<1>3. \A a \in Int : (a - UintMod) % PIPESIZE = a % PIPESIZE
  <2> SUFFICES ASSUME NEW a \in Int PROVE (a - UintMod) % PIPESIZE = a % PIPESIZE
    BY Zenon
  <2>1. -d \in Int /\ a - UintMod = a + PIPESIZE * (-d)
    BY <1>1, <1>2
  <2>2. (a + PIPESIZE * (-d)) % PIPESIZE = a % PIPESIZE
    BY <1>1, <2>1, ModShift, ZenonT(40)
  <2> QED BY <2>1, <2>2, Zenon
<1>4. nwrite = nread + Count \/ nwrite = nread + Count - UintMod
  BY <1>1, CountFacts
<1>5. nwrite % PIPESIZE = (nread + Count) % PIPESIZE
  BY <1>1, <1>3, <1>4, CountFacts, SMTT(40)
<1>6. ASSUME NEW j \in Nat
      PROVE  (((nread + 1) % UintMod) + j) % PIPESIZE = (nread + 1 + j) % PIPESIZE
  <2>1. (nread + 1) % UintMod = nread + 1 \/ (nread + 1) % UintMod = nread + 1 - UintMod
    BY <1>1, Unsigned
  <2>2. CASE (nread + 1) % UintMod = nread + 1
    BY <2>2, Zenon
  <2>3. CASE (nread + 1) % UintMod = nread + 1 - UintMod
    <3> DEFINE a == nread + 1 + j
    <3>1. ((nread + 1) % UintMod) + j = a - UintMod /\ a \in Int
      BY <1>1, <2>3
    <3> HIDE DEF a
    <3>2. (a - UintMod) % PIPESIZE = a % PIPESIZE
      BY <1>3, <3>1, Zenon
    <3>3. (((nread + 1) % UintMod) + j) % PIPESIZE = a % PIPESIZE
      BY <3>1, <3>2, Zenon
    <3> QED BY <3>3, Zenon DEF a
  <2> QED BY <2>1, <2>2, <2>3, Zenon
<1> QED BY <1>5, <1>6, Zenon

ContentsExact ==
  /\ Contents \in Seq(Byte) /\ Len(Contents) = Count
  /\ \A j \in 1..Count : Contents[j] = data[(nread + j - 1) % PIPESIZE]

LEMMA ContentsSeq == TypeOK => ContentsExact
<1> SUFFICES ASSUME TypeOK PROVE ContentsExact
  OBVIOUS
<1>1. Count \in Nat /\ PIPESIZE \in Nat \ {0} /\ nread \in Nat
  BY CountFacts, SizeAssumption DEF TypeOK
<1>2. \A j \in 1..Count : (nread + j - 1) % PIPESIZE \in 0..(PIPESIZE - 1)
  BY <1>1, DivMod
<1>3. Contents = [j \in 1..Count |-> data[(nread + j - 1) % PIPESIZE]]
  BY Zenon DEF Contents, Count
<1>4. Contents \in [1..Count -> Byte]
  BY <1>2, <1>3, Zenon DEF TypeOK
<1>5. Contents \in Seq(Byte)
  BY <1>1, <1>4, SeqDef, Zenon
<1>6. Len(Contents) = Count
  BY <1>1, <1>3, <1>5, LenProperties
<1> QED BY <1>3, <1>5, <1>6, ZenonT(40) DEF ContentsExact

(* The byte written goes to the end.                                        *)
LEMMA WriteIsPut ==
  ASSUME Inv, NEW p \in Writers, NEW b \in Byte, WriteByte(p, b)
  PROVE  Chan!Put
<1>1. Inv' /\ Count' = Count + 1 /\ Count < PIPESIZE
  BY WriteByteInv, Zenon
<1>2. TypeOK /\ TypeOK' /\ Count \in Nat /\ PIPESIZE \in Nat \ {0} /\ nread \in Nat
  BY <1>1, CountFacts, SizeAssumption, SMTT(40) DEF Inv, TypeOK
<1>3. readopen = 1 /\ writeopen = 1
  BY DEF Inv, WriteByte, TestsHold, EndsExact, TypeOK, Procs
<1>4. /\ Contents \in Seq(Byte) /\ Len(Contents) = Count
      /\ \A j \in 1..Count : Contents[j] = data[(nread + j - 1) % PIPESIZE]
  BY <1>2, ContentsSeq, Zenon DEF ContentsExact
<1>5. /\ Contents' \in Seq(Byte) /\ Len(Contents') = Count + 1
      /\ \A j \in 1..(Count + 1) : Contents'[j] = data'[(nread + j - 1) % PIPESIZE]
  <2>1. ContentsExact'
    BY <1>2, ContentsSeq, PTL
  <2> QED BY <1>1, <2>1, Zenon DEF WriteByte, ContentsExact
<1>6. data' = [data EXCEPT ![(nread + Count) % PIPESIZE] = b]
  BY <1>2, Slots, ZenonT(40) DEF WriteByte
<1>7. (nread + Count) % PIPESIZE \in 0..(PIPESIZE - 1)
  BY <1>2, DivMod
<1>8. \A j \in 1..Count : Contents'[j] = Contents[j]
  <2> SUFFICES ASSUME NEW j \in 1..Count PROVE Contents'[j] = Contents[j]
    BY Zenon
  <2> DEFINE k == nread + j - 1
             m == nread + Count
  <2>1. k \in Int /\ m \in Int /\ k < m /\ m < k + PIPESIZE
    BY <1>1, <1>2
  <2> HIDE DEF k, m
  <2>2. k % PIPESIZE # m % PIPESIZE /\ k % PIPESIZE \in 0..(PIPESIZE - 1)
    BY <1>2, <2>1, ModApart, DivMod, ZenonT(40)
  <2>3. Contents'[j] = data'[k % PIPESIZE] /\ Contents[j] = data[k % PIPESIZE]
    BY <1>2, <1>4, <1>5 DEF k
  <2>4. data' = [data EXCEPT ![m % PIPESIZE] = b]
    BY <1>6, Zenon DEF m
  <2> QED BY <1>2, <2>2, <2>3, <2>4, Zenon DEF TypeOK
<1>9. Contents'[Count + 1] = b
  <2>1. nread + (Count + 1) - 1 = nread + Count
    BY <1>2
  <2> QED BY <1>2, <1>5, <1>6, <1>7, <2>1 DEF TypeOK
<1>10. Contents' = Append(Contents, b)
  BY <1>2, <1>4, <1>5, <1>8, <1>9, AppendProperties, SeqEqual
<1> QED BY <1>1, <1>3, <1>4, <1>10, Zenon DEF Chan!Put, WriteByte

(* The byte read comes from the front.                                      *)
LEMMA ReadIsGet ==
  ASSUME Inv, NEW p \in Readers, ReadByte(p)
  PROVE  Chan!Get
<1>1. Inv' /\ Count' = Count - 1 /\ Count > 0
  BY ReadByteInv, Zenon
<1>2. TypeOK /\ TypeOK' /\ Count \in Nat /\ PIPESIZE \in Nat \ {0} /\ nread \in Nat
  BY <1>1, CountFacts, SizeAssumption, SMTT(40) DEF Inv, TypeOK
<1>3. readopen = 1
  BY DEF Inv, ReadByte, EndsExact, TypeOK, Procs
<1>4. /\ Contents \in Seq(Byte) /\ Len(Contents) = Count
      /\ \A j \in 1..Count : Contents[j] = data[(nread + j - 1) % PIPESIZE]
  BY <1>2, ContentsSeq, Zenon DEF ContentsExact
<1>5. /\ Contents' \in Seq(Byte) /\ Len(Contents') = Count - 1
      /\ \A j \in 1..(Count - 1) :
           Contents'[j] = data[(((nread + 1) % UintMod) + j - 1) % PIPESIZE]
  <2>1. ContentsExact'
    BY <1>2, ContentsSeq, PTL
  <2> QED BY <1>1, <2>1, Zenon DEF ReadByte, ContentsExact
<1>6. Contents # <<>>
  BY <1>1, <1>4, EmptySeq
<1>7. \A j \in 1..(Count - 1) : Contents'[j] = Contents[j + 1]
  <2> SUFFICES ASSUME NEW j \in 1..(Count - 1) PROVE Contents'[j] = Contents[j + 1]
    BY Zenon
  <2>1. j - 1 \in Nat /\ j + 1 \in 1..Count
    BY <1>2
  <2>2. (((nread + 1) % UintMod) + (j - 1)) % PIPESIZE = (nread + 1 + (j - 1)) % PIPESIZE
    BY <1>2, <2>1, Slots, Zenon
  <2>3. Contents'[j] = data[(nread + 1 + (j - 1)) % PIPESIZE]
    <3>1. (nread + 1) % UintMod \in Int
      BY <1>2, SizeAssumption, DivMod
    <3>2. ((nread + 1) % UintMod) + (j - 1) = ((nread + 1) % UintMod) + j - 1
      BY <3>1, Zenon
    <3> QED BY <1>5, <2>2, <3>2, Zenon
  <2>4. Contents[j + 1] = data[(nread + (j + 1) - 1) % PIPESIZE]
    BY <1>4, <2>1, Zenon
  <2>5. nread + 1 + (j - 1) = nread + (j + 1) - 1
    BY <1>2
  <2> QED BY <2>3, <2>4, <2>5, Zenon
<1>8. Contents' = Tail(Contents)
  <2>1. /\ Tail(Contents) \in Seq(Byte) /\ Len(Tail(Contents)) = Count - 1
        /\ \A j \in 1..(Count - 1) : Tail(Contents)[j] = Contents[j + 1]
    BY <1>4, <1>6, HeadTailProperties, Zenon
  <2> QED BY <1>5, <1>7, <2>1, SeqEqual, Zenon
<1> QED BY <1>3, <1>6, <1>8, Zenon DEF Chan!Get, ReadByte

(* What a step that leaves struct pipe alone does to the channel.           *)
LEMMA NoChange ==
  ASSUME UNCHANGED <<data, nread, nwrite, readopen, writeopen>>
  PROVE  UNCHANGED <<Contents, readopen, writeopen>>
BY Zenon DEF Contents

LEMMA StepIsChannel ==
  ASSUME Inv, [Next]_vars
  PROVE  [Chan!Next]_<<Contents, readopen, writeopen>>
<1>1. ASSUME NEW p \in Procs, PipeClose(p)
      PROVE  Chan!CloseRead \/ Chan!CloseWrite
  <2>1. Contents' = Contents
    BY <1>1, Zenon DEF PipeClose, Contents
  <2> QED BY <1>1, <2>1, RolesAssumption, Zenon DEF PipeClose, Chan!CloseRead, Chan!CloseWrite, Procs
<1>2. ASSUME NEW p \in Procs,
             (\E n \in 0..MaxN : Call(p, n)) \/ Acquire(p) \/ CloseFile(p) \/ Kill(p)
      PROVE  UNCHANGED <<Contents, readopen, writeopen>>
  BY <1>2, NoChange, Zenon DEF Call, Acquire, CloseFile, Kill, shared
<1>3. ASSUME NEW p \in Writers, WriteTest(p) \/ WriteSleep(p) \/ WriteDone(p)
      PROVE  UNCHANGED <<Contents, readopen, writeopen>>
  BY <1>3, NoChange, Zenon DEF WriteTest, WriteSleep, WriteDone, Leave, Goto, shared
<1>4. ASSUME NEW p \in Readers, ReadEmpty(p) \/ ReadSleep(p) \/ ReadReady(p) \/ ReadDone(p)
      PROVE  UNCHANGED <<Contents, readopen, writeopen>>
  BY <1>4, NoChange, Zenon DEF ReadEmpty, ReadSleep, ReadReady, ReadDone, Leave, Goto, shared
<1>5. CASE Finished \/ UNCHANGED vars
  BY <1>5, NoChange, Zenon DEF Finished, vars, shared
<1> QED BY <1>1, <1>2, <1>3, <1>4, <1>5, WriteIsPut, ReadIsGet, Zenon DEF Next, Write, Read, Chan!Next

(* The pipe implements the channel: what is read is what was written, in    *)
(* order and once, for any buffer size and across the wrap of the counters. *)
THEOREM PipeIsFifo == Spec => Fifo
<1>1. Init => Chan!Init
  <2> SUFFICES ASSUME Init PROVE Chan!Init
    OBVIOUS
  <2>1. TypeOK /\ Count = 0
    BY InitInv, CountFacts, Zenon DEF Inv, Init, Empty
  <2>2. Contents = <<>>
    BY <2>1, ContentsSeq, EmptySeq, Zenon DEF ContentsExact
  <2> QED BY <2>2, Zenon DEF Init, Chan!Init
<1>2. Inv /\ [Next]_vars => [Chan!Next]_<<Contents, readopen, writeopen>>
  BY StepIsChannel
<1> QED BY SpecInv, <1>1, <1>2, PTL DEF Spec, Fifo, Chan!Spec

-----------------------------------------------------------------------------
(* The bytes that may be read, and those still being typed.                 *)
NReady == Uint(cons_w - cons_r)
NTyped == Uint(cons_e - cons_w)

(* The ring is not overrun, and a line that is being typed leaves room in   *)
(* it.                                                                      *)
RingSound == NReady + NTyped <= INPUT_BUF_SIZE /\ NTyped < INPUT_BUF_SIZE

(* cons.lock is held exactly in the loop of consoleread().                  *)
ConsLockExact == \A p \in ConsReaders : cpc[p] \in {"loop", "done", "sleep"} <=> cons_lock = p

(* A reader in its loop still wants a byte.                                 *)
WantsMore ==
  \A p \in ConsReaders : cpc[p] \in {"call", "loop", "sleep", "asleep"} => want[p] >= 1

(* A reader sleeps, or is going to, only when there is nothing to read.     *)
SleepOnEmpty == \A p \in ConsReaders : cpc[p] \in {"sleep", "asleep"} => cons_r = cons_w

(* The inductive invariant of Console.                                      *)
ConsInv == ConsTypeOK /\ RingSound /\ ConsLockExact /\ WantsMore /\ SleepOnEmpty

-----------------------------------------------------------------------------
(* The unsigned arithmetic of console.c, case by case.                      *)
LEMMA IndexArith ==
  ASSUME NEW a \in 0..(IndexMod - 1), NEW b \in 0..(IndexMod - 1)
  PROVE  /\ Uint(b - a) = IF b >= a THEN b - a ELSE b - a + IndexMod
         /\ Uint(b + 1) = IF b + 1 = IndexMod THEN 0 ELSE b + 1
         /\ Uint(b - 1) = IF b = 0 THEN IndexMod - 1 ELSE b - 1
         /\ Uint(b + 1 - a) = IF b + 1 = a + IndexMod THEN 0 ELSE IF b + 1 >= a THEN b + 1 - a ELSE b + 1 - a + IndexMod
<1>1. IndexMod \in Nat \ {0}
  BY ConsoleAssumption
<1>2. \A x \in Int, y \in 0..(IndexMod - 1) :
        x = y \/ x = y - IndexMod \/ x = y + IndexMod => x % IndexMod = y
  <2> SUFFICES ASSUME NEW x \in Int, NEW y \in 0..(IndexMod - 1), NEW q \in {-1, 0, 1},
                      x = IndexMod * q + y
               PROVE  x % IndexMod = y
    BY <1>1
  <2> QED BY <1>1, ModIs
<1>3. Uint(b - a) = IF b >= a THEN b - a ELSE b - a + IndexMod
  BY <1>1, <1>2 DEF Uint
<1>4. Uint(b + 1) = IF b + 1 = IndexMod THEN 0 ELSE b + 1
  BY <1>1, <1>2 DEF Uint
<1>5. Uint(b - 1) = IF b = 0 THEN IndexMod - 1 ELSE b - 1
  BY <1>1, <1>2 DEF Uint
<1>6. Uint(b + 1 - a) = IF b + 1 = a + IndexMod THEN 0 ELSE IF b + 1 >= a THEN b + 1 - a ELSE b + 1 - a + IndexMod
  BY <1>1, <1>2 DEF Uint
<1> QED BY <1>3, <1>4, <1>5, <1>6, Zenon

(* What consoleintr() computes from the indices.                            *)
LEMMA RingCounts ==
  ASSUME ConsTypeOK, RingSound
  PROVE  /\ NReady \in Nat /\ NTyped \in Nat
         /\ NReady = 0 <=> cons_r = cons_w
         /\ NTyped = 0 <=> cons_e = cons_w
         /\ Uint(cons_e - cons_r) = NReady + NTyped
         /\ NReady + NTyped < INPUT_BUF_SIZE => Uint(cons_e + 1 - cons_r) = NReady + NTyped + 1
<1>1. cons_r \in 0..(IndexMod - 1) /\ cons_w \in 0..(IndexMod - 1) /\ cons_e \in 0..(IndexMod - 1)
  BY DEF ConsTypeOK
<1>2. IndexMod \in Nat /\ INPUT_BUF_SIZE \in Nat \ {0} /\ IndexMod > INPUT_BUF_SIZE
  BY ConsoleAssumption
<1>3. NReady = IF cons_w >= cons_r THEN cons_w - cons_r ELSE cons_w - cons_r + IndexMod
  BY <1>1, IndexArith, Zenon DEF NReady
<1>4. NTyped = IF cons_e >= cons_w THEN cons_e - cons_w ELSE cons_e - cons_w + IndexMod
  BY <1>1, IndexArith, Zenon DEF NTyped
<1>5. Uint(cons_e - cons_r) = IF cons_e >= cons_r THEN cons_e - cons_r ELSE cons_e - cons_r + IndexMod
  BY <1>1, IndexArith, Zenon
<1>6. Uint(cons_e + 1 - cons_r) = IF cons_e + 1 = cons_r + IndexMod THEN 0 ELSE IF cons_e + 1 >= cons_r THEN cons_e + 1 - cons_r ELSE cons_e + 1 - cons_r + IndexMod
  BY <1>1, IndexArith, Zenon
<1>7. NReady \in Nat /\ NTyped \in Nat /\ (NReady = 0 <=> cons_r = cons_w) /\ (NTyped = 0 <=> cons_e = cons_w)
  BY <1>1, <1>2, <1>3, <1>4
<1>8. Uint(cons_e - cons_r) = NReady + NTyped
  BY <1>1, <1>2, <1>3, <1>4, <1>5 DEF RingSound
<1>9. NReady + NTyped < INPUT_BUF_SIZE => Uint(cons_e + 1 - cons_r) = NReady + NTyped + 1
  BY <1>1, <1>2, <1>3, <1>4, <1>6 DEF RingSound
<1> QED BY <1>7, <1>8, <1>9, Zenon

(* The invariant holds at the start,                                        *)
LEMMA ConsStarts == ConsInit => ConsInv
<1> SUFFICES ASSUME ConsInit PROVE ConsInv
  OBVIOUS
<1>1. IndexMod \in Nat \ {0} /\ INPUT_BUF_SIZE \in Nat \ {0} /\ 0 \in 0..(IndexMod - 1)
  BY ConsoleAssumption
<1>2. ConsTypeOK
  BY <1>1, ConsoleAssumption DEF ConsInit, ConsTypeOK
<1>3. RingSound
  <2>1. Uint(0 - 0) = 0
    BY <1>1, IndexArith
  <2> QED
    BY <1>1, <2>1 DEF ConsInit, RingSound, NReady, NTyped
<1>4. ConsLockExact /\ WantsMore /\ SleepOnEmpty
  BY ConsoleAssumption, Zenon DEF ConsInit, ConsLockExact, WantsMore, SleepOnEmpty
<1> QED BY <1>2, <1>3, <1>4, Zenon DEF ConsInv

(* and implies the property.                                                *)
LEMMA ConsMeans == ConsInv => NobodySleepsInVain
<1> SUFFICES ASSUME ConsInv PROVE NobodySleepsInVain
  BY Zenon
<1>1. ReadersSleepOnEmpty
  BY Zenon DEF ConsInv, SleepOnEmpty, ReadersSleepOnEmpty
<1>2. FullIsReadable
  <2>1. /\ NReady \in Nat /\ NTyped \in Nat /\ (NReady = 0 <=> cons_r = cons_w)
        /\ Uint(cons_e - cons_r) = NReady + NTyped
    BY RingCounts, Zenon DEF ConsInv
  <2> QED
    BY <2>1, ConsoleAssumption DEF ConsInv, RingSound, FullIsReadable, Fits
<1> QED BY <1>1, <1>2 DEF ConsInv, NobodySleepsInVain

-----------------------------------------------------------------------------
(* What the steps that move an index do to the counts: a byte read.         *)
LEMMA ReadCounts ==
  ASSUME ConsTypeOK, RingSound, cons_r # cons_w, cons_r' = Uint(cons_r + 1), UNCHANGED <<cons_w, cons_e>>
  PROVE  /\ cons_r' \in 0..(IndexMod - 1) /\ NReady' = NReady - 1 /\ NTyped' = NTyped /\ RingSound'
         /\ NReady \in Nat \ {0} /\ NTyped \in Nat
<1>1. cons_r \in 0..(IndexMod - 1) /\ cons_w \in 0..(IndexMod - 1) /\ cons_e \in 0..(IndexMod - 1)
  BY DEF ConsTypeOK
<1>2. IndexMod \in Nat /\ INPUT_BUF_SIZE \in Nat \ {0} /\ IndexMod > INPUT_BUF_SIZE
  BY ConsoleAssumption, Zenon
<1>3. cons_r' = (IF cons_r + 1 = IndexMod THEN 0 ELSE cons_r + 1) /\ cons_r' \in 0..(IndexMod - 1)
  BY <1>1, <1>2, IndexArith
<1>4. NReady = IF cons_w >= cons_r THEN cons_w - cons_r ELSE cons_w - cons_r + IndexMod
  BY <1>1, IndexArith, Zenon DEF NReady
<1>5. NReady' = IF cons_w >= cons_r' THEN cons_w - cons_r' ELSE cons_w - cons_r' + IndexMod
  BY <1>1, <1>3, IndexArith, Zenon DEF NReady
<1>6. NReady' = NReady - 1
  BY <1>1, <1>2, <1>3, <1>4, <1>5
<1>7. NTyped' = NTyped
  BY DEF NTyped
<1>8. NReady \in Nat \ {0} /\ NTyped \in Nat
  BY RingCounts, Zenon
<1>9. RingSound'
  BY <1>2, <1>6, <1>7, <1>8 DEF RingSound
<1> QED BY <1>3, <1>6, <1>7, <1>8, <1>9, Zenon

(* A byte typed,                                                            *)
LEMMA TypeCounts ==
  ASSUME ConsTypeOK, RingSound, Fits, NEW c, UNCHANGED cons_r, cons_e' = Uint(cons_e + 1),
         cons_w' = IF EndsLine(c) THEN cons_e' ELSE cons_w
  PROVE  /\ cons_e' \in 0..(IndexMod - 1) /\ NReady + NTyped < INPUT_BUF_SIZE
         /\ EndsLine(c) => NReady' = NReady + NTyped + 1 /\ NTyped' = 0
         /\ ~EndsLine(c) => NReady' = NReady /\ NTyped' = NTyped + 1 /\ NReady + NTyped + 1 # INPUT_BUF_SIZE
         /\ RingSound'
         /\ c \notin {"nl", "eof"} => (EndsLine(c) <=> NReady + NTyped + 1 = INPUT_BUF_SIZE)
<1>1. cons_r \in 0..(IndexMod - 1) /\ cons_w \in 0..(IndexMod - 1) /\ cons_e \in 0..(IndexMod - 1)
  BY Zenon DEF ConsTypeOK
<1>2. IndexMod \in Nat /\ INPUT_BUF_SIZE \in Nat \ {0} /\ IndexMod > INPUT_BUF_SIZE
  BY ConsoleAssumption, Zenon
<1>3. cons_e' = (IF cons_e + 1 = IndexMod THEN 0 ELSE cons_e + 1) /\ cons_e' \in 0..(IndexMod - 1)
  BY <1>1, <1>2, IndexArith
<1>4. /\ NReady \in Nat /\ NTyped \in Nat /\ NReady + NTyped < INPUT_BUF_SIZE
      /\ Uint(cons_e + 1 - cons_r) = NReady + NTyped + 1
  BY RingCounts, Zenon DEF Fits
<1>5. c \notin {"nl", "eof"} => (EndsLine(c) <=> NReady + NTyped + 1 = INPUT_BUF_SIZE)
  BY <1>4, Zenon DEF EndsLine
<1>6. /\ NReady = IF cons_w >= cons_r THEN cons_w - cons_r ELSE cons_w - cons_r + IndexMod
      /\ NTyped = IF cons_e >= cons_w THEN cons_e - cons_w ELSE cons_e - cons_w + IndexMod
  BY <1>1, IndexArith, Zenon DEF NReady, NTyped
<1>7. ASSUME EndsLine(c) PROVE NReady' = NReady + NTyped + 1 /\ NTyped' = 0
  <2>1. cons_w' = cons_e'
    BY <1>7, Zenon
  <2>2. NReady' = IF cons_e' >= cons_r THEN cons_e' - cons_r ELSE cons_e' - cons_r + IndexMod
    BY <1>1, <1>3, <2>1, IndexArith DEF NReady
  <2>3. NTyped' = 0
    <3>1. \A x \in 0..(IndexMod - 1) : Uint(x - x) = 0
      <4> SUFFICES ASSUME NEW x \in 0..(IndexMod - 1) PROVE Uint(x - x) = 0
        BY Zenon
      <4>1. Uint(x - x) = IF x >= x THEN x - x ELSE x - x + IndexMod
        BY IndexArith, Zenon
      <4> QED BY <1>2, <4>1
    <3> QED BY <1>3, <2>1, <3>1, Zenon DEF NTyped
  <2>4. NReady' = NReady + NTyped + 1
    BY <1>1, <1>2, <1>3, <1>4, <1>6, <2>2
  <2> QED BY <2>3, <2>4, Zenon
<1>8. ASSUME ~EndsLine(c)
      PROVE  NReady' = NReady /\ NTyped' = NTyped + 1 /\ NReady + NTyped + 1 # INPUT_BUF_SIZE
  <2>1. cons_w' = cons_w /\ NReady' = NReady
    BY <1>8, Zenon DEF NReady
  <2>2. NTyped' = IF cons_e' >= cons_w THEN cons_e' - cons_w ELSE cons_e' - cons_w + IndexMod
    BY <1>1, <1>3, <2>1, IndexArith DEF NTyped
  <2>3. NTyped' = NTyped + 1
    BY <1>1, <1>2, <1>3, <1>4, <1>6, <2>2
  <2>4. NReady + NTyped + 1 # INPUT_BUF_SIZE
    BY <1>4, <1>8, Zenon DEF EndsLine
  <2> QED BY <2>1, <2>3, <2>4, Zenon
<1>9. RingSound'
  BY <1>2, <1>4, <1>7, <1>8 DEF RingSound
<1> QED BY <1>3, <1>4, <1>5, <1>7, <1>8, <1>9, Zenon

(* a byte erased,                                                           *)
LEMMA EraseCounts ==
  ASSUME ConsTypeOK, RingSound, cons_e # cons_w, cons_e' = Uint(cons_e - 1), UNCHANGED <<cons_r, cons_w>>
  PROVE  /\ cons_e' \in 0..(IndexMod - 1) /\ NReady' = NReady /\ NTyped' = NTyped - 1 /\ RingSound'
         /\ NTyped \in Nat \ {0} /\ NReady \in Nat
<1>1. cons_w \in 0..(IndexMod - 1) /\ cons_e \in 0..(IndexMod - 1)
  BY Zenon DEF ConsTypeOK
<1>2. IndexMod \in Nat /\ INPUT_BUF_SIZE \in Nat \ {0} /\ IndexMod > INPUT_BUF_SIZE
  BY ConsoleAssumption, Zenon
<1>3. cons_e' = (IF cons_e = 0 THEN IndexMod - 1 ELSE cons_e - 1) /\ cons_e' \in 0..(IndexMod - 1)
  BY <1>1, <1>2, IndexArith
<1>4. NTyped = IF cons_e >= cons_w THEN cons_e - cons_w ELSE cons_e - cons_w + IndexMod
  BY <1>1, IndexArith, Zenon DEF NTyped
<1>5. NTyped' = IF cons_e' >= cons_w THEN cons_e' - cons_w ELSE cons_e' - cons_w + IndexMod
  BY <1>1, <1>3, IndexArith, Zenon DEF NTyped
<1>6. NTyped' = NTyped - 1
  BY <1>1, <1>2, <1>3, <1>4, <1>5
<1>7. NReady' = NReady
  BY Zenon DEF NReady
<1>8. NTyped \in Nat \ {0} /\ NReady \in Nat
  BY RingCounts
<1>9. RingSound'
  BY <1>2, <1>6, <1>7, <1>8 DEF RingSound
<1> QED BY <1>3, <1>6, <1>7, <1>8, <1>9, Zenon

(* a line erased.                                                           *)
LEMMA CancelCounts ==
  ASSUME ConsTypeOK, RingSound, cons_e' = cons_w, UNCHANGED <<cons_r, cons_w>>
  PROVE  NReady' = NReady /\ NTyped' = 0 /\ RingSound'
<1>1. cons_w \in 0..(IndexMod - 1)
  BY DEF ConsTypeOK
<1>2. NTyped' = 0
  BY <1>1, IndexArith, ConsoleAssumption DEF NTyped
<1>3. NReady' = NReady /\ NReady \in Nat /\ NTyped \in Nat
  BY RingCounts, Zenon DEF NReady
<1> QED BY <1>2, <1>3, ConsoleAssumption DEF RingSound

-----------------------------------------------------------------------------
(* Steps of a reader that leave the ring alone,                             *)
LEMMA ReaderStep ==
  ASSUME ConsInv, NEW p \in ConsReaders,
         (\E k \in 1..MaxRead : consoleread(p, k)) \/ AcquireCons(p) \/ ReadNothing(p)
           \/ SleepForInput(p) \/ ReadEnd(p) \/ KillReader(p)
  PROVE  ConsInv' /\ UNCHANGED ring
<1> USE DEF ring
<1>1. ConsTypeOK'
  <2>1. ConsTypeOK
    BY Zenon DEF ConsInv
  <2>2. ASSUME NEW k \in 1..MaxRead, consoleread(p, k) PROVE ConsTypeOK'
    <3>1. k \in 0..MaxRead
      BY ConsoleAssumption
    <3> QED BY <2>1, <2>2, <3>1 DEF ConsTypeOK, consoleread
  <2>3. CASE AcquireCons(p) \/ ReadNothing(p)
    BY <2>1, <2>3, Zenon DEF ConsTypeOK, AcquireCons, ReadNothing
  <2>4. CASE SleepForInput(p) \/ ReadEnd(p)
    BY <2>1, <2>4, Zenon DEF ConsTypeOK, SleepForInput, ReadEnd
  <2>5. CASE KillReader(p)
    BY <2>1, <2>5, Zenon DEF ConsTypeOK, KillReader
  <2> QED BY <2>2, <2>3, <2>4, <2>5, Zenon
<1>2. UNCHANGED <<cons_buf, cons_r, cons_w, cons_e>>
  BY DEF consoleread, AcquireCons, ReadNothing, SleepForInput, ReadEnd, KillReader
<1>3. RingSound'
  BY <1>2, Zenon DEF ConsInv, RingSound, NReady, NTyped
<1>4. ConsLockExact'
  BY ConsoleAssumption
     DEF ConsInv, ConsTypeOK, ConsLockExact, consoleread, AcquireCons, ReadNothing, SleepForInput, ReadEnd, KillReader
<1>5. WantsMore'
  BY ConsoleAssumption
     DEF ConsInv, ConsTypeOK, WantsMore, consoleread, AcquireCons, ReadNothing, SleepForInput, ReadEnd, KillReader
<1>6. SleepOnEmpty'
  BY <1>2, Zenon
     DEF ConsInv, ConsTypeOK, SleepOnEmpty, consoleread, AcquireCons, ReadNothing, SleepForInput, ReadEnd, KillReader
<1> QED BY <1>1, <1>2, <1>3, <1>4, <1>5, <1>6, Zenon DEF ConsInv

(* that read a byte,                                                        *)
LEMMA ReadStep ==
  ASSUME ConsInv, NEW p \in ConsReaders, ReadEof(p) \/ \E ok \in 0..1 : ReadChar(p, ok)
  PROVE  /\ ConsInv' /\ UNCHANGED <<cons_buf, cons_w, cons_e>> /\ cons_r # cons_w
         /\ UNCHANGED cons_r \/ cons_r' = Uint(cons_r + 1)
<1>1. /\ UNCHANGED <<cons_buf, cons_w, cons_e, cons_lock, ckilled>> /\ cons_r # cons_w
      /\ UNCHANGED cons_r \/ cons_r' = Uint(cons_r + 1)
  BY Zenon DEF ReadEof, ReadChar
<1>2. ConsTypeOK /\ RingSound
  BY Zenon DEF ConsInv
<1>3. cons_r' \in 0..(IndexMod - 1) /\ RingSound'
  <2>1. CASE UNCHANGED cons_r
    BY <1>1, <1>2, <2>1, Zenon DEF ConsTypeOK, RingSound, NReady, NTyped
  <2>2. CASE cons_r' = Uint(cons_r + 1)
    BY <1>1, <1>2, <2>2, ReadCounts, Zenon
  <2> QED BY <1>1, <2>1, <2>2, Zenon
<1>4. cpc[p] = "loop" /\ want[p] >= 1
  BY Zenon DEF ReadEof, ReadChar, ConsInv, WantsMore
<1>5. want' \in [ConsReaders -> 0..MaxRead] /\ got' \in [ConsReaders -> 0..1]
  <2>1. CASE ReadEof(p)
    BY <1>2, <2>1, Zenon DEF ReadEof, ConsTypeOK
  <2>2. ASSUME NEW ok \in 0..1, ReadChar(p, ok) PROVE want' \in [ConsReaders -> 0..MaxRead] /\ got' \in [ConsReaders -> 0..1]
    <3>1. want[p] - ok \in 0..MaxRead
      BY <1>2, <1>4, ConsoleAssumption DEF ConsTypeOK
    <3> QED BY <1>2, <2>2, <3>1 DEF ReadChar, ConsTypeOK
  <2> QED BY <2>1, <2>2, Zenon
<1>6. /\ \A q \in ConsReaders \ {p} : cpc'[q] = cpc[q] /\ want'[q] = want[q]
      /\ cpc'[p] = "done" \/ (cpc'[p] = "loop" /\ want'[p] >= 1)
      /\ cpc' \in [ConsReaders -> {"idle", "call", "loop", "done", "sleep", "asleep"}]
  <2>1. CASE ReadEof(p)
    BY <1>2, <2>1, Zenon DEF ReadEof, ConsTypeOK
  <2>2. ASSUME NEW ok \in 0..1, ReadChar(p, ok)
        PROVE  /\ \A q \in ConsReaders \ {p} : cpc'[q] = cpc[q] /\ want'[q] = want[q]
               /\ cpc'[p] = "done" \/ (cpc'[p] = "loop" /\ want'[p] >= 1)
               /\ cpc' \in [ConsReaders -> {"idle", "call", "loop", "done", "sleep", "asleep"}]
    <3>1. want'[p] = want[p] - ok /\ want[p] \in Nat /\ \A q \in ConsReaders \ {p} : want'[q] = want[q]
      BY <1>2, <2>2 DEF ReadChar, ConsTypeOK
    <3>2. /\ \A q \in ConsReaders \ {p} : cpc'[q] = cpc[q]
          /\ cpc'[p] = "done" \/ (cpc'[p] = "loop" /\ ok # 0 /\ want[p] # 1)
          /\ cpc' \in [ConsReaders -> {"idle", "call", "loop", "done", "sleep", "asleep"}]
      BY <1>2, <2>2, Zenon DEF ReadChar, ConsTypeOK
    <3> QED BY <1>4, <3>1, <3>2
  <2> QED BY <2>1, <2>2, Zenon
<1>7. ConsTypeOK'
  BY <1>1, <1>2, <1>3, <1>5, <1>6, Zenon DEF ConsTypeOK
<1>8. ConsLockExact' /\ WantsMore'
  BY <1>1, <1>4, <1>6, Zenon DEF ConsInv, ConsLockExact, WantsMore
<1>9. SleepOnEmpty'
  BY <1>1, <1>6, Zenon DEF ConsInv, SleepOnEmpty
<1> QED BY <1>1, <1>3, <1>7, <1>8, <1>9, Zenon DEF ConsInv

(* and of the one who types.                                                *)
LEMMA TypeByteStep ==
  ASSUME ConsInv, NEW c \in Char \cup {"nl", "eof"}, TypeByte(c)
  PROVE  ConsInv' /\ cons_e' = Uint(cons_e + 1) /\ (cons_w' = IF EndsLine(c) THEN cons_e' ELSE cons_w) /\ UNCHANGED cons_r
<1>1. /\ cons_e' = Uint(cons_e + 1) /\ (cons_w' = IF EndsLine(c) THEN cons_e' ELSE cons_w) /\ Fits /\ cons_lock = NoReader
      /\ UNCHANGED <<cons_r, cons_lock, want, got, ckilled>>
  BY Zenon DEF TypeByte
<1>2. ConsTypeOK /\ RingSound
  BY Zenon DEF ConsInv
<1>3. cons_e' \in 0..(IndexMod - 1) /\ RingSound'
  BY <1>1, <1>2, TypeCounts, Zenon
<1>4. cons_w' \in 0..(IndexMod - 1)
  BY <1>1, <1>2, <1>3, Zenon DEF ConsTypeOK
<1>5. cons_buf' \in [0..(INPUT_BUF_SIZE - 1) -> Char \cup {"nl", "eof"}]
  BY <1>2, Zenon DEF TypeByte, ConsTypeOK
<1>6. /\ cpc' \in [ConsReaders -> {"idle", "call", "loop", "done", "sleep", "asleep"}]
      /\ \A q \in ConsReaders : cpc'[q] = cpc[q] \/ (cpc[q] = "asleep" /\ cpc'[q] = "call")
      /\ EndsLine(c) => \A q \in ConsReaders : cpc'[q] # "asleep"
      /\ ~EndsLine(c) => cpc' = cpc
  <2>1. CASE EndsLine(c)
    <3>1. cpc' = [q \in ConsReaders |-> IF cpc[q] = "asleep" THEN "call" ELSE cpc[q]]
      BY <2>1, Zenon DEF TypeByte, WokenReaders
    <3> QED BY <1>2, <2>1, <3>1, Zenon DEF ConsTypeOK
  <2>2. CASE ~EndsLine(c)
    <3>1. cpc' = cpc
      BY <2>2, Zenon DEF TypeByte
    <3> QED BY <1>2, <2>2, <3>1, Zenon DEF ConsTypeOK
  <2> QED BY <2>1, <2>2, Zenon
<1>7. ConsTypeOK'
  BY <1>1, <1>2, <1>3, <1>4, <1>5, <1>6 DEF ConsTypeOK
<1>8. ConsLockExact' /\ WantsMore'
  BY <1>1, <1>6 DEF ConsInv, ConsLockExact, WantsMore
<1>9. SleepOnEmpty'
  <2>1. \A q \in ConsReaders : cpc[q] # "sleep"
    BY <1>1, ConsoleAssumption, Zenon DEF ConsInv, ConsLockExact
  <2> QED BY <1>1, <1>6, <2>1, Zenon DEF ConsInv, SleepOnEmpty
<1> QED BY <1>1, <1>3, <1>7, <1>8, <1>9, Zenon DEF ConsInv

(* Backspace and ^U.                                                        *)
LEMMA EditStep ==
  ASSUME ConsInv, Backspace \/ KillLine
  PROVE  ConsInv' /\ UNCHANGED <<cons_buf, cons_r, cons_w>>
<1>1. UNCHANGED <<cons_buf, cons_r, cons_w, cons_lock, cpc, want, got, ckilled>>
  BY Zenon DEF Backspace, KillLine
<1>2. ConsTypeOK /\ RingSound
  BY DEF ConsInv
<1>3. cons_e' \in 0..(IndexMod - 1) /\ RingSound'
  <2>1. CASE Backspace
    BY <1>2, <2>1, EraseCounts, Zenon DEF Backspace, MayErase
  <2>2. CASE KillLine
    <3>1. cons_e' = cons_w /\ UNCHANGED <<cons_r, cons_w>>
      BY <2>2, Zenon DEF KillLine
    <3> QED BY <1>2, <3>1, CancelCounts, Zenon DEF ConsTypeOK
  <2> QED BY <2>1, <2>2, Zenon
<1>4. ConsTypeOK'
  BY <1>1, <1>2, <1>3, Zenon DEF ConsTypeOK
<1>5. ConsLockExact' /\ WantsMore' /\ SleepOnEmpty'
  BY <1>1, Zenon DEF ConsInv, ConsLockExact, WantsMore, SleepOnEmpty
<1> QED BY <1>1, <1>3, <1>4, <1>5, Zenon DEF ConsInv

(* A step of nobody.                                                        *)
LEMMA ConsSame == ConsInv /\ UNCHANGED ConsVars => ConsInv'
BY Zenon DEF ConsInv, ConsVars, ring, ConsTypeOK, RingSound, NReady, NTyped, ConsLockExact, WantsMore, SleepOnEmpty

(* Every step keeps the invariant.                                          *)
LEMMA ConsKept == ConsInv /\ [ConsNext]_ConsVars => ConsInv'
BY ReaderStep, ReadStep, TypeByteStep, EditStep, ConsSame, Zenon DEF ConsNext, Reading

(* No wakeup of a console reader is lost and typing never gets stuck on a   *)
(* full ring, for any number of readers, any size of the ring and any       *)
(* width of the indices it divides.                                         *)
THEOREM ConsoleStaysSound == ConsSpec => []NobodySleepsInVain
BY ConsStarts, ConsKept, ConsMeans, PTL DEF ConsSpec

-----------------------------------------------------------------------------
(* What the ring holds.                                                     *)
Codes == Char \cup {"nl", "eof"}
(* Its contents.                                                            *)
Ring == [0..(INPUT_BUF_SIZE - 1) -> Codes]

(* k bytes of a ring from index i.                                          *)
Cells(b, i, k) == [j \in 1..k |-> b[At(i + j - 1)]]

(* An index leads to a cell,                                                *)
LEMMA AtRange == ASSUME NEW i \in Int PROVE At(i) \in 0..(INPUT_BUF_SIZE - 1)
BY ConsoleAssumption, DivMod, Zenon DEF At

(* the same one after a wrap.                                               *)
LEMMA AtShift == ASSUME NEW i \in Int PROVE At(i - IndexMod) = At(i)
<1> DEFINE d == IndexMod \div INPUT_BUF_SIZE
<1>1. IndexMod = INPUT_BUF_SIZE * d /\ d \in Int
  BY ConsoleAssumption, DivMod
<1> HIDE DEF d
<1>2. -d \in Int /\ i - IndexMod = i + INPUT_BUF_SIZE * (-d) /\ INPUT_BUF_SIZE \in Nat \ {0}
  BY <1>1, ConsoleAssumption
<1>3. (i + INPUT_BUF_SIZE * (-d)) % INPUT_BUF_SIZE = i % INPUT_BUF_SIZE
  BY <1>2, ModShift, ZenonT(40)
<1> QED BY <1>2, <1>3, Zenon DEF At

(* The bytes from an index on, as a sequence.                               *)
LEMMA CellsSeq ==
  ASSUME NEW b \in Ring, NEW i \in Int, NEW k \in Nat
  PROVE  /\ Cells(b, i, k) \in Seq(Codes) /\ Len(Cells(b, i, k)) = k
         /\ \A j \in 1..k : Cells(b, i, k)[j] = b[At(i + j - 1)]
<1>1. \A j \in 1..k : At(i + j - 1) \in 0..(INPUT_BUF_SIZE - 1)
  BY AtRange
<1>2. Cells(b, i, k) \in [1..k -> Codes]
  BY <1>1, Zenon DEF Cells, Ring
<1>3. Cells(b, i, k) \in Seq(Codes)
  BY <1>2, SeqDef, Zenon
<1>4. Len(Cells(b, i, k)) = k
  BY <1>3, LenProperties DEF Cells
<1>5. \A j \in 1..k : Cells(b, i, k)[j] = b[At(i + j - 1)]
  BY Zenon DEF Cells
<1> QED BY <1>3, <1>4, <1>5, Zenon

(* An index a whole range further stands for the same cell.                 *)
LEMMA CellsShift ==
  ASSUME NEW b \in Ring, NEW i \in Int, NEW k \in Nat
  PROVE  Cells(b, i - IndexMod, k) = Cells(b, i, k)
<1>1. \A j \in 1..k : At((i - IndexMod) + j - 1) = At(i + j - 1)
  <2> SUFFICES ASSUME NEW j \in 1..k PROVE At((i - IndexMod) + j - 1) = At(i + j - 1)
    BY Zenon
  <2>1. (i - IndexMod) + j - 1 = (i + j - 1) - IndexMod /\ i + j - 1 \in Int
    BY ConsoleAssumption
  <2> QED BY <2>1, AtShift, Zenon
<1> QED BY <1>1, Zenon DEF Cells

(* A byte stored outside makes no difference,                               *)
LEMMA CellsKept ==
  ASSUME NEW b \in Ring, NEW d \in Ring, NEW i \in Int, NEW k \in Nat, NEW x \in Int,
         i + k <= x, x < i + INPUT_BUF_SIZE,
         \A y \in 0..(INPUT_BUF_SIZE - 1) : y # At(x) => d[y] = b[y]
  PROVE  Cells(d, i, k) = Cells(b, i, k)
<1>1. \A j \in 1..k : d[At(i + j - 1)] = b[At(i + j - 1)]
  <2> SUFFICES ASSUME NEW j \in 1..k PROVE d[At(i + j - 1)] = b[At(i + j - 1)]
    BY Zenon
  <2> DEFINE y == i + j - 1
  <2>1. y \in Int /\ y < x /\ x < y + INPUT_BUF_SIZE /\ INPUT_BUF_SIZE \in Nat \ {0}
    BY ConsoleAssumption
  <2> HIDE DEF y
  <2>2. At(y) # At(x) /\ At(y) \in 0..(INPUT_BUF_SIZE - 1)
    BY <2>1, ModApart, AtRange, ZenonT(40) DEF At
  <2> QED BY <2>2, Zenon DEF y
<1> QED BY <1>1, Zenon DEF Cells

(* what follows is appended,                                                *)
LEMMA CellsJoin ==
  ASSUME NEW b \in Ring, NEW i \in Int, NEW k \in Nat, NEW m \in Nat
  PROVE  Cells(b, i, k + m) = Cells(b, i, k) \o Cells(b, i + k, m)
<1> DEFINE s == Cells(b, i, k)
           t == Cells(b, i + k, m)
           u == Cells(b, i, k + m)
<1>1. /\ s \in Seq(Codes) /\ Len(s) = k /\ \A j \in 1..k : s[j] = b[At(i + j - 1)]
      /\ t \in Seq(Codes) /\ Len(t) = m /\ \A j \in 1..m : t[j] = b[At(i + k + j - 1)]
      /\ u \in Seq(Codes) /\ Len(u) = k + m /\ \A j \in 1..(k + m) : u[j] = b[At(i + j - 1)]
  BY CellsSeq
<1> HIDE DEF s, t, u
<1>2. /\ s \o t \in Seq(Codes) /\ Len(s \o t) = k + m
      /\ \A j \in 1..(k + m) : (s \o t)[j] = IF j <= k THEN s[j] ELSE t[j - k]
  BY <1>1, ConcatProperties
<1>3. \A j \in 1..(k + m) : (s \o t)[j] = u[j]
  <2> SUFFICES ASSUME NEW j \in 1..(k + m) PROVE (s \o t)[j] = u[j]
    BY Zenon
  <2>1. CASE j <= k
    <3>1. j \in 1..k
      BY <2>1
    <3>2. s[j] = u[j]
      BY <1>1, <3>1, Zenon
    <3> QED BY <1>2, <2>1, <3>2, Zenon
  <2>2. CASE j > k
    <3>1. j - k \in 1..m /\ i + k + (j - k) - 1 = i + j - 1 /\ ~(j <= k)
      BY <2>2
    <3>2. t[j - k] = b[At(i + k + (j - k) - 1)]
      BY <1>1, <3>1, Zenon
    <3>3. t[j - k] = u[j]
      BY <1>1, <3>1, <3>2, Zenon
    <3> QED BY <1>2, <3>1, <3>3, Zenon
  <2>3. j <= k \/ j > k
    OBVIOUS
  <2> QED BY <2>1, <2>2, <2>3, Zenon
<1> QED BY <1>1, <1>2, <1>3, SeqEqual, Zenon DEF s, t, u

(* a byte stored at the end too;                                            *)
LEMMA CellsAppend ==
  ASSUME NEW b \in Ring, NEW i \in Int, NEW k \in Nat, NEW c \in Codes, k < INPUT_BUF_SIZE
  PROVE  Cells([b EXCEPT ![At(i + k)] = c], i, k + 1) = Append(Cells(b, i, k), c)
<1> DEFINE d == [b EXCEPT ![At(i + k)] = c]
<1>1. d \in Ring
  BY Zenon DEF Ring
<1>2. Cells(d, i, k) = Cells(b, i, k)
  <2>1. \A y \in 0..(INPUT_BUF_SIZE - 1) : y # At(i + k) => d[y] = b[y]
    BY DEF Ring
  <2>2. i + k \in Int /\ i + k <= i + k /\ i + k < i + INPUT_BUF_SIZE
    BY ConsoleAssumption
  <2> HIDE DEF d
  <2> QED BY <1>1, <2>1, <2>2, CellsKept
<1>3. Cells(d, i, k + 1) = Cells(d, i, k) \o Cells(d, i + k, 1)
  BY <1>1, CellsJoin
<1>4. d[At(i + k)] = c
  BY AtRange DEF Ring
<1>5. Cells(d, i + k, 1) = <<c>>
  <2>1. (i + k) + 1 - 1 = i + k
    OBVIOUS
  <2>2. /\ Cells(d, i + k, 1) \in Seq(Codes) /\ Len(Cells(d, i + k, 1)) = 1
        /\ Cells(d, i + k, 1)[1] = d[At((i + k) + 1 - 1)]
    <3> HIDE DEF d
    <3>1. i + k \in Int /\ 1 \in 1..1 /\ 1 \in Nat
      OBVIOUS
    <3> QED BY <1>1, <3>1, CellsSeq, Zenon
  <2> QED BY <1>4, <2>1, <2>2
<1>6. Cells(b, i, k) \in Seq(Codes)
  BY CellsSeq
<1> HIDE DEF d
<1>7. Cells(b, i, k) \o <<c>> = Append(Cells(b, i, k), c)
  BY <1>6
<1> QED BY <1>2, <1>3, <1>5, <1>7, Zenon DEF d

(* the first byte goes,                                                     *)
LEMMA CellsTail ==
  ASSUME NEW b \in Ring, NEW i \in Int, NEW k \in Nat \ {0}
  PROVE  Cells(b, i, k) # <<>> /\ Cells(b, i + 1, k - 1) = Tail(Cells(b, i, k))
<1> DEFINE s == Cells(b, i, k)
           t == Cells(b, i + 1, k - 1)
<1>1. /\ s \in Seq(Codes) /\ Len(s) = k /\ \A j \in 1..k : s[j] = b[At(i + j - 1)]
      /\ t \in Seq(Codes) /\ Len(t) = k - 1 /\ \A j \in 1..(k - 1) : t[j] = b[At(i + 1 + j - 1)]
  BY CellsSeq
<1> HIDE DEF s, t
<1>2. s # <<>>
  BY <1>1, EmptySeq
<1>3. /\ Tail(s) \in Seq(Codes) /\ Len(Tail(s)) = k - 1
      /\ \A j \in 1..(k - 1) : Tail(s)[j] = s[j + 1]
  BY <1>1, <1>2, HeadTailProperties, Zenon
<1>4. \A j \in 1..(k - 1) : Tail(s)[j] = t[j]
  <2> SUFFICES ASSUME NEW j \in 1..(k - 1) PROVE Tail(s)[j] = t[j]
    BY Zenon
  <2>1. j + 1 \in 1..k /\ i + 1 + j - 1 = i + (j + 1) - 1
    OBVIOUS
  <2> QED BY <1>1, <1>3, <2>1, Zenon
<1> QED BY <1>1, <1>2, <1>3, <1>4, SeqEqual, Zenon DEF s, t

(* or the last.                                                             *)
LEMMA CellsFront ==
  ASSUME NEW b \in Ring, NEW i \in Int, NEW k \in Nat \ {0}
  PROVE  Cells(b, i, k) # <<>> /\ Cells(b, i, k - 1) = SubSeq(Cells(b, i, k), 1, Len(Cells(b, i, k)) - 1)
<1> DEFINE s == Cells(b, i, k)
           t == Cells(b, i, k - 1)
<1>1. /\ s \in Seq(Codes) /\ Len(s) = k /\ \A j \in 1..k : s[j] = b[At(i + j - 1)]
      /\ t \in Seq(Codes) /\ Len(t) = k - 1 /\ \A j \in 1..(k - 1) : t[j] = b[At(i + j - 1)]
  BY CellsSeq
<1> HIDE DEF s, t
<1>2. s # <<>>
  BY <1>1, EmptySeq, Zenon
<1>3. /\ SubSeq(s, 1, k - 1) \in Seq(Codes) /\ Len(SubSeq(s, 1, k - 1)) = k - 1
      /\ \A j \in 1..(k - 1) : SubSeq(s, 1, k - 1)[j] = s[j]
  BY <1>1
<1>4. \A j \in 1..(k - 1) : SubSeq(s, 1, k - 1)[j] = t[j]
  <2> SUFFICES ASSUME NEW j \in 1..(k - 1) PROVE SubSeq(s, 1, k - 1)[j] = t[j]
    BY Zenon
  <2>1. j \in 1..k
    OBVIOUS
  <2> QED BY <1>1, <1>3, <2>1, Zenon
<1> QED BY <1>1, <1>2, <1>3, <1>4, SeqEqual, Zenon DEF s, t

-----------------------------------------------------------------------------
(* What is ready and what is typed, by their place from r on.               *)
BytesExact ==
  /\ cons_buf \in Ring /\ cons_r \in Nat /\ NReady \in Nat /\ NTyped \in Nat
  /\ Ready = Cells(cons_buf, cons_r, NReady)
  /\ Typed = Cells(cons_buf, cons_r + NReady, NTyped)
  /\ Ready \in Seq(Codes) /\ Len(Ready) = NReady
  /\ Typed \in Seq(Codes) /\ Len(Typed) = NTyped
  /\ At(cons_e) = At(cons_r + NReady + NTyped)

(* They follow each other in the ring.                                      *)
LEMMA RingBytes == ConsInv => BytesExact
<1> SUFFICES ASSUME ConsInv PROVE BytesExact
  OBVIOUS
<1>0. ConsTypeOK /\ RingSound
  BY Zenon DEF ConsInv
<1>1. cons_r \in 0..(IndexMod - 1) /\ cons_w \in 0..(IndexMod - 1) /\ cons_e \in 0..(IndexMod - 1) /\ cons_buf \in Ring
  BY <1>0, Zenon DEF ConsTypeOK, Ring, Codes
<1>2. NReady \in Nat /\ NTyped \in Nat /\ IndexMod \in Nat
  BY <1>0, RingCounts, ConsoleAssumption, Zenon
<1>3. cons_w = cons_r + NReady \/ cons_w = (cons_r + NReady) - IndexMod
  BY <1>1, <1>2, IndexArith DEF NReady
<1>4. cons_e = cons_w + NTyped \/ cons_e = (cons_w + NTyped) - IndexMod
  BY <1>1, <1>2, IndexArith DEF NTyped
<1>5. Ready = Cells(cons_buf, cons_r, NReady)
  BY Zenon DEF Ready, Bytes, Cells, NReady
<1>6. Typed = Cells(cons_buf, cons_w, NTyped)
  BY Zenon DEF Typed, Bytes, Cells, NTyped
<1>7. cons_r + NReady \in Int /\ cons_r \in Int
  BY <1>1, <1>2
<1>8. Cells(cons_buf, cons_w, NTyped) = Cells(cons_buf, cons_r + NReady, NTyped)
  BY <1>1, <1>2, <1>3, <1>7, CellsShift, Zenon
<1>9. At(cons_e) = At(cons_r + NReady + NTyped)
  <2>1. cons_r + NReady + NTyped \in Int /\ (cons_r + NReady + NTyped) - IndexMod \in Int
    BY <1>1, <1>2
  <2>2. /\ At((cons_r + NReady + NTyped) - IndexMod) = At(cons_r + NReady + NTyped)
        /\ At(((cons_r + NReady + NTyped) - IndexMod) - IndexMod) = At((cons_r + NReady + NTyped) - IndexMod)
    BY <2>1, AtShift, Zenon
  <2>3. \/ cons_e = cons_r + NReady + NTyped \/ cons_e = (cons_r + NReady + NTyped) - IndexMod
        \/ cons_e = ((cons_r + NReady + NTyped) - IndexMod) - IndexMod
    BY <1>1, <1>2, <1>3, <1>4
  <2> QED BY <2>2, <2>3, Zenon
<1>10. /\ Cells(cons_buf, cons_r, NReady) \in Seq(Codes) /\ Len(Cells(cons_buf, cons_r, NReady)) = NReady
       /\ Cells(cons_buf, cons_r + NReady, NTyped) \in Seq(Codes) /\ Len(Cells(cons_buf, cons_r + NReady, NTyped)) = NTyped
  BY <1>1, <1>2, <1>7, CellsSeq, Zenon
<1>11. cons_r \in Nat
  BY <1>1
<1> QED BY <1>1, <1>2, <1>5, <1>6, <1>8, <1>9, <1>10, <1>11, Zenon DEF BytesExact

(* consoleintr() of a byte is a byte typed,                                 *)
LEMMA TypedIs ==
  ASSUME ConsInv, NEW c \in Codes, TypeByte(c)
  PROVE  tty!Type(c)
<1>1. /\ ConsInv' /\ cons_e' = Uint(cons_e + 1) /\ (cons_w' = IF EndsLine(c) THEN cons_e' ELSE cons_w) /\ UNCHANGED cons_r /\ Fits
  BY TypeByteStep, Zenon DEF TypeByte, Codes
<1>2. /\ NReady + NTyped < INPUT_BUF_SIZE
      /\ EndsLine(c) => NReady' = NReady + NTyped + 1 /\ NTyped' = 0
      /\ ~EndsLine(c) => NReady' = NReady /\ NTyped' = NTyped + 1 /\ NReady + NTyped + 1 # INPUT_BUF_SIZE
      /\ c \notin {"nl", "eof"} => (EndsLine(c) <=> NReady + NTyped + 1 = INPUT_BUF_SIZE)
  BY <1>1, TypeCounts, Zenon DEF ConsInv
<1>3. /\ cons_buf \in Ring /\ cons_r \in Nat /\ NReady \in Nat /\ NTyped \in Nat
      /\ Ready = Cells(cons_buf, cons_r, NReady)
      /\ Typed = Cells(cons_buf, cons_r + NReady, NTyped)
      /\ Ready \in Seq(Codes) /\ Len(Ready) = NReady
      /\ Typed \in Seq(Codes) /\ Len(Typed) = NTyped
      /\ At(cons_e) = At(cons_r + NReady + NTyped)
  BY RingBytes, Zenon DEF BytesExact
<1>4. cons_buf' \in Ring /\ Ready' = Cells(cons_buf', cons_r, NReady') /\ Typed' = Cells(cons_buf', cons_r + NReady', NTyped')
  <2>1. BytesExact'
    BY <1>1, RingBytes, PTL
  <2>2. /\ cons_buf' \in Ring /\ Ready' = Cells(cons_buf', cons_r', NReady') /\ Typed' = Cells(cons_buf', cons_r' + NReady', NTyped')
    BY <2>1, Zenon DEF BytesExact
  <2> QED BY <1>1, <2>2, Zenon
<1>5. cons_buf' = [cons_buf EXCEPT ![At(cons_r + NReady + NTyped)] = c]
  BY <1>3, Zenon DEF TypeByte
<1>6. Cells(cons_buf', cons_r, NReady) = Ready
  <2>1. /\ cons_r \in Int /\ cons_r + NReady + NTyped \in Int /\ cons_r + NReady <= cons_r + NReady + NTyped
        /\ cons_r + NReady + NTyped < cons_r + INPUT_BUF_SIZE
    BY <1>2, <1>3, ConsoleAssumption
  <2>2. \A y \in 0..(INPUT_BUF_SIZE - 1) : y # At(cons_r + NReady + NTyped) => cons_buf'[y] = cons_buf[y]
    BY <1>3, <1>5, Zenon DEF Ring
  <2>3. Cells(cons_buf', cons_r, NReady) = Cells(cons_buf, cons_r, NReady)
    BY <1>3, <1>4, <2>1, <2>2, CellsKept, Zenon
  <2> QED BY <1>3, <2>3, Zenon
<1>7. Cells(cons_buf', cons_r + NReady, NTyped + 1) = Append(Typed, c)
  <2>1. cons_r + NReady \in Int /\ NTyped < INPUT_BUF_SIZE
    BY <1>2, <1>3, ConsoleAssumption
  <2> QED BY <1>3, <1>5, <2>1, CellsAppend, Zenon
<1>8. CASE EndsLine(c)
  <2>1. NReady + NTyped + 1 = NReady + (NTyped + 1) /\ NTyped + 1 \in Nat /\ cons_r \in Int /\ 0 \in Nat
    BY <1>3
  <2>2. Ready' = Cells(cons_buf', cons_r, NReady) \o Cells(cons_buf', cons_r + NReady, NTyped + 1)
    <3>1. Ready' = Cells(cons_buf', cons_r, NReady + (NTyped + 1))
      BY <1>2, <1>4, <1>8, <2>1, Zenon
    <3>2. Cells(cons_buf', cons_r, NReady + (NTyped + 1)) = Cells(cons_buf', cons_r, NReady) \o Cells(cons_buf', cons_r + NReady, NTyped + 1)
      BY <1>3, <1>4, <2>1, CellsJoin, Zenon
    <3> QED BY <3>1, <3>2, Zenon
  <2>3. Ready' = Ready \o Append(Typed, c)
    BY <1>6, <1>7, <2>2, Zenon
  <2>4. Typed' = <<>>
    <3>1. NTyped' = 0 /\ cons_r + NReady' \in Int
      BY <1>2, <1>3, <1>8
    <3>2. Typed' = Cells(cons_buf', cons_r + NReady', 0)
      BY <1>4, <3>1, Zenon
    <3>3. /\ Cells(cons_buf', cons_r + NReady', 0) \in Seq(Codes)
          /\ Len(Cells(cons_buf', cons_r + NReady', 0)) = 0
      BY <1>4, <2>1, <3>1, CellsSeq
    <3>4. Typed' \in Seq(Codes) /\ Len(Typed') = 0
      BY <3>2, <3>3, Zenon
    <3> QED BY <3>4, EmptySeq
  <2>5. c \in {"nl", "eof"} \/ NReady + NTyped + 1 = INPUT_BUF_SIZE
    BY <1>2, <1>8
  <2> QED BY <1>2, <1>3, <2>3, <2>4, <2>5, Zenon DEF tty!Type, tty!Room, tty!Ends
<1>9. CASE ~EndsLine(c)
  <2>1. Ready' = Ready
    BY <1>2, <1>4, <1>6, <1>9, Zenon
  <2>2. Typed' = Append(Typed, c)
    BY <1>2, <1>4, <1>7, <1>9, Zenon
  <2>3. ~(c \in {"nl", "eof"} \/ NReady + NTyped + 1 = INPUT_BUF_SIZE)
    BY <1>2, <1>9, Zenon DEF EndsLine
  <2> QED BY <1>2, <1>3, <2>1, <2>2, <2>3, Zenon DEF tty!Type, tty!Room, tty!Ends
<1> QED BY <1>8, <1>9, Zenon

(* a byte that a reader takes is the first one ready,                       *)
LEMMA TakenIs ==
  ASSUME ConsInv, ConsInv', UNCHANGED <<cons_buf, cons_w, cons_e>>, cons_r # cons_w, cons_r' = Uint(cons_r + 1)
  PROVE  tty!Take
<1>1. /\ NReady' = NReady - 1 /\ NTyped' = NTyped /\ NReady \in Nat \ {0}
  BY ReadCounts, Zenon DEF ConsInv
<1>2. cons_buf \in Ring /\ cons_r \in Nat /\ Ready = Cells(cons_buf, cons_r, NReady)
  BY RingBytes, Zenon DEF BytesExact
<1>3. Ready' = Cells(cons_buf, cons_r', NReady - 1)
  <2>1. BytesExact'
    BY RingBytes, PTL
  <2>2. Ready' = Cells(cons_buf', cons_r', NReady')
    BY <2>1, Zenon DEF BytesExact
  <2> QED BY <1>1, <2>2, Zenon
<1>4. cons_r' = cons_r + 1 \/ cons_r' = (cons_r + 1) - IndexMod
  <2>1. cons_r \in 0..(IndexMod - 1)
    BY Zenon DEF ConsInv, ConsTypeOK
  <2>2. cons_r' = IF cons_r + 1 = IndexMod THEN 0 ELSE cons_r + 1
    BY <2>1, IndexArith, Zenon
  <2> QED BY <2>1, <2>2, ConsoleAssumption
<1>5. cons_r + 1 \in Int /\ cons_r \in Int /\ NReady - 1 \in Nat
  BY <1>1, <1>2
<1>6. Cells(cons_buf, (cons_r + 1) - IndexMod, NReady - 1) = Cells(cons_buf, cons_r + 1, NReady - 1)
  BY <1>2, <1>5, CellsShift, Zenon
<1>7. Ready' = Cells(cons_buf, cons_r + 1, NReady - 1)
  BY <1>3, <1>4, <1>6, Zenon
<1>8. Ready # <<>> /\ Ready' = Tail(Ready)
  BY <1>1, <1>2, <1>5, <1>7, CellsTail, Zenon
<1>9. Typed' = Typed
  BY DEF Typed, Bytes
<1> QED BY <1>8, <1>9, Zenon DEF tty!Take

(* backspace takes the last byte of the line,                               *)
LEMMA ErasedIs ==
  ASSUME ConsInv, ConsInv', Backspace
  PROVE  tty!Erase
<1>1. cons_e # cons_w /\ cons_e' = Uint(cons_e - 1) /\ UNCHANGED <<cons_buf, cons_r, cons_w>>
  BY Zenon DEF Backspace, MayErase
<1>2. NReady' = NReady /\ NTyped' = NTyped - 1 /\ NTyped \in Nat \ {0} /\ NReady \in Nat
  BY <1>1, EraseCounts, Zenon DEF ConsInv
<1>3. cons_buf \in Ring /\ cons_r \in Nat /\ Typed = Cells(cons_buf, cons_r + NReady, NTyped)
  BY RingBytes, Zenon DEF BytesExact
<1>4. Typed' = Cells(cons_buf, cons_r + NReady, NTyped - 1)
  <2>1. BytesExact'
    BY RingBytes, PTL
  <2>2. Typed' = Cells(cons_buf', cons_r' + NReady', NTyped')
    BY <2>1, Zenon DEF BytesExact
  <2> QED BY <1>1, <1>2, <2>2, Zenon
<1>5. cons_r + NReady \in Int
  BY <1>2, <1>3
<1>6. Typed # <<>> /\ Typed' = SubSeq(Typed, 1, Len(Typed) - 1)
  BY <1>2, <1>3, <1>4, <1>5, CellsFront, Zenon
<1>7. Ready' = Ready
  BY <1>1, Zenon DEF Ready, Bytes
<1> QED BY <1>6, <1>7, Zenon DEF tty!Erase

(* and ^U all of it.                                                        *)
LEMMA CancelledIs ==
  ASSUME ConsInv, ConsInv', KillLine
  PROVE  tty!Cancel
<1>1. cons_e' = cons_w /\ UNCHANGED <<cons_buf, cons_r, cons_w>>
  BY DEF KillLine
<1>2. NTyped' = 0
  BY <1>1, CancelCounts, Zenon DEF ConsInv
<1>3. Typed' \in Seq(Codes) /\ Len(Typed') = NTyped'
  <2>1. BytesExact'
    BY RingBytes, PTL
  <2> QED BY <2>1, Zenon DEF BytesExact
<1>4. Typed' = <<>>
  BY <1>2, <1>3, EmptySeq, Zenon
<1>5. Ready' = Ready
  BY <1>1, Zenon DEF Ready, Bytes
<1> QED BY <1>4, <1>5, Zenon DEF tty!Cancel

(* Every step is one of the line discipline, or none.                       *)
LEMMA StepIsTty ==
  ASSUME ConsInv, ConsInv', [ConsNext]_ConsVars
  PROVE  [tty!TtyNext]_<<Ready, Typed>>
<1>1. ASSUME UNCHANGED <<cons_buf, cons_r, cons_w, cons_e>> PROVE UNCHANGED <<Ready, Typed>>
  BY <1>1, Zenon DEF Ready, Typed, Bytes
<1>2. ASSUME NEW p \in ConsReaders,
             (\E k \in 1..MaxRead : consoleread(p, k)) \/ AcquireCons(p) \/ ReadNothing(p)
               \/ SleepForInput(p) \/ ReadEnd(p) \/ KillReader(p)
      PROVE  UNCHANGED <<Ready, Typed>>
  BY <1>1, <1>2, ReaderStep, Zenon DEF ring
<1>3. ASSUME NEW p \in ConsReaders, ReadEof(p) \/ \E ok \in 0..1 : ReadChar(p, ok)
      PROVE  tty!Take \/ UNCHANGED <<Ready, Typed>>
  BY <1>1, <1>3, ReadStep, TakenIs, Zenon
<1>4. ASSUME NEW c \in Char \cup {"nl", "eof"}, TypeByte(c)
      PROVE  \E d \in Char \cup tty!Ends : tty!Type(d)
  <2>1. c \in Codes
    BY Zenon DEF Codes
  <2>2. tty!Type(c)
    BY <1>4, <2>1, TypedIs, Zenon
  <2> QED BY <1>4, <2>2, Zenon DEF tty!Ends
<1>5. CASE UNCHANGED ConsVars
  BY <1>1, <1>5, Zenon DEF ConsVars, ring
<1> QED
  BY <1>2, <1>3, <1>4, <1>5, ErasedIs, CancelledIs, Zenon DEF ConsNext, Reading, tty!TtyNext

(* The ring implements the line discipline of Tty: readers get what was     *)
(* typed, edited, in order, a line at a time, also where the indices wrap   *)
(* around; for any size of the ring and any number of readers.              *)
THEOREM ConsoleIsTty == ConsSpec => LineDiscipline
<1>1. ConsInit => tty!TtyInit
  <2> SUFFICES ASSUME ConsInit PROVE tty!TtyInit
    OBVIOUS
  <2>1. ConsTypeOK /\ RingSound /\ NReady = 0 /\ NTyped = 0
    BY ConsStarts, RingCounts, Zenon DEF ConsInv, ConsInit
  <2>2. Ready = <<>> /\ Typed = <<>>
    BY <2>1, RingBytes, ConsStarts, EmptySeq, Zenon DEF BytesExact
  <2> QED BY <2>2, Zenon DEF tty!TtyInit
<1>2. ConsInv /\ ConsInv' /\ [ConsNext]_ConsVars => [tty!TtyNext]_<<Ready, Typed>>
  BY StepIsTty
<1> QED BY <1>1, <1>2, ConsStarts, ConsKept, PTL DEF ConsSpec, LineDiscipline, tty!TtySpec, tty!tty
=============================================================================
