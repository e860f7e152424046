----------------------------- MODULE LogProofs -----------------------------
(***************************************************************************)
(* The log of log.c is sound and its transactions are atomic and durable,  *)
(* for any number of processes and blocks, any contents and any size of    *)
(* the log.                                                                *)
(*                                                                         *)
(* The invariant says who may be where while the log is written, that the  *)
(* slots calls have reserved and not yet used fit in the log, and how the  *)
(* cache, the home blocks, the log and its header hang together at each    *)
(* step of commit() and of recovery.                                       *)
(***************************************************************************)
EXTENDS Log, TLAPS, FiniteSetTheorems

Active == {p \in Procs : pc[p] = "op"}
Logged(b) == \E i \in 1..Len(lh) : lh[i] = b

(* Nobody is in a call while the log is written, and nobody has left        *)
(* user mode while recovery runs.                                           *)
WriterSound ==
  /\ by = NoOne => step \in {"read", "install", "up"} /\ committing = 0
  /\ by # NoOne => step \in {"log", "install", "done"} /\ committing = 1
  /\ step # "up" => Active = {}
  /\ ~Booted => \A p \in Procs : pc[p] = "idle"
  /\ outstanding = Cardinality(Active)

(* The blocks that calls have reserved in begin_op() and not yet taken.     *)
Reserved == {r \in Active \X (1..MAXOPBLOCKS) : r[2] > Cardinality(wrote[r[1]])}

Distinct(s) == \A i, j \in 1..Len(s) : s[i] = s[j] => i = j

(* There is room in the log for what the calls may still write.             *)
RoomSound ==
  /\ Len(lh) + Cardinality(Reserved) <= LOGBLOCKS
  /\ Distinct(lh) /\ Distinct(dhead) /\ Len(dhead) <= LOGBLOCKS
  /\ \A p \in Procs : /\ IsFiniteSet(wrote[p]) /\ Cardinality(wrote[p]) <= OpBlocks
                      /\ p \notin Active => wrote[p] = {}
  /\ \A p \in Procs : \A b \in wrote[p] : Logged(b)

(* Header, log, home blocks and cache, at each step of the writer.          *)
DiskSound ==
  /\ step \in {"up", "log", "done"} => dhead = <<>>
  /\ step = "install" => dhead = lh
  /\ step \in {"read", "done"} => lh = <<>>
  /\ tail <= Len(lh) \/ step \in {"up", "done"}
  /\ ~Booted => cache = home
  /\ Booted => \A b \in Blocks : ~Logged(b) => cache[b] = home[b]
  /\ step = "log" => \A i \in 1..tail : dlog[i] = cache[lh[i]]
  /\ step = "install" => \A i \in 1..tail : home[lh[i]] = dlog[i]
  /\ step = "install" /\ by # NoOne => \A i \in 1..Len(lh) : dlog[i] = cache[lh[i]]

(* What is not yet durable is in the log of a call under way or committing. *)
SyncSound ==
  /\ \A p \in Procs : owed[p] \subseteq unsaved
  /\ \A p \in Procs : pc[p] \in {"sync", "resync"} /\ need[p] = 0 => owed[p] = {}
  /\ lh = <<>> \/ step = "install" => unsaved = {}
  /\ step = "up" /\ Active = {} => lh = <<>>

(* Whoever sleeps will be woken.                                            *)
SleepSound ==
  /\ \A p \in Procs : pc[p] = "asleep" => committing = 1 \/ ~Room
  /\ \A p \in Procs : pc[p] = "sync" => need[p] > 0
  /\ \A p \in Procs : need[p] > 0 => MustWait

Inv ==
  /\ TypeOK /\ NoPanic
  /\ WriterSound /\ RoomSound /\ DiskSound /\ SyncSound /\ SleepSound

-----------------------------------------------------------------------------
(* What the calls under way have left of their reservations is finite, and  *)
(* no more than MAXOPBLOCKS for each call.                                  *)
Finite ==
  /\ IsFiniteSet(Active) /\ Cardinality(Active) \in Nat
  /\ Cardinality(Active) = 0 <=> Active = {}
  /\ IsFiniteSet(Reserved) /\ Cardinality(Reserved) \in Nat
  /\ Cardinality(Reserved) <= Cardinality(Active) * MAXOPBLOCKS

LEMMA FiniteNow == Finite
<1>1. IsFiniteSet(Active)
  BY ProcsAssumption, FS_Subset, Zenon DEF Active
<1>2. Cardinality(Active) \in Nat /\ (Cardinality(Active) = 0 <=> Active = {})
  BY <1>1, FS_CardinalityType, FS_EmptySet, Zenon
<1>3. IsFiniteSet(1..MAXOPBLOCKS) /\ Cardinality(1..MAXOPBLOCKS) = MAXOPBLOCKS
  BY FS_Interval, SizesAssumption
<1>4. /\ IsFiniteSet(Active \X (1..MAXOPBLOCKS))
      /\ Cardinality(Active \X (1..MAXOPBLOCKS)) = Cardinality(Active) * MAXOPBLOCKS
  BY <1>1, <1>3, FS_Product, Zenon
<1>5. Reserved \in SUBSET (Active \X (1..MAXOPBLOCKS))
  BY DEF Reserved
<1>6. IsFiniteSet(Reserved) /\ Cardinality(Reserved) <= Cardinality(Active) * MAXOPBLOCKS
  BY <1>4, <1>5, FS_Subset, Zenon
<1> QED BY <1>1, <1>2, <1>6, FS_CardinalityType, Zenon DEF Finite

LEMMA FiniteNext == Finite'
BY FiniteNow, PTL

LEMMA InitInv == Init => Inv
<1> SUFFICES ASSUME Init PROVE Inv
  OBVIOUS
<1>1. Active = {} /\ Reserved = {}
  BY Zenon DEF Init, Active, Reserved
<1>2. TypeOK /\ NoPanic
  BY SizesAssumption DEF Init, TypeOK, NoPanic, Pc, Step
<1>3. WriterSound
  BY <1>1, FS_EmptySet, Zenon DEF Init, WriterSound
<1>4. RoomSound
  <2>1. Cardinality({}) = 0 /\ IsFiniteSet({})
    BY FS_EmptySet, Zenon
  <2> QED BY <1>1, <2>1, SizesAssumption DEF Init, RoomSound, Distinct
<1>5. DiskSound
  BY DEF Init, DiskSound, Booted
<1>6. SyncSound /\ SleepSound
  BY <1>1 DEF Init, SyncSound, SleepSound
<1> QED BY <1>2, <1>3, <1>4, <1>5, <1>6, Zenon DEF Inv

-----------------------------------------------------------------------------
(* Steps that leave a part of the state alone keep what is said of it.      *)
LEMMA RoomFrame ==
  ASSUME RoomSound, Active' = Active, UNCHANGED <<lh, dhead, wrote>>
  PROVE  RoomSound'
<1>1. Reserved' = Reserved
  BY Zenon DEF Reserved
<1>2. \A b : Logged(b)' <=> Logged(b)
  BY Zenon DEF Logged
<1> QED BY <1>1, <1>2, Zenon DEF RoomSound, Distinct

LEMMA DiskFrame ==
  ASSUME DiskSound, UNCHANGED <<diskVars, cache, lh, writerVars>>
  PROVE  DiskSound'
BY Zenon DEF DiskSound, diskVars, writerVars, Booted, Logged

-----------------------------------------------------------------------------
(* begin_op().  A call that enters adds MAXOPBLOCKS reservations, and Room  *)
(* has counted them.                                                        *)
LEMMA EnterInv ==
  ASSUME Inv, NEW p \in Procs, begin_op(p), MayEnter
  PROVE  Inv'
<1> USE DEF Inv
<1>1. /\ pc[p] \in {"idle", "woken"} /\ pc' = [pc EXCEPT ![p] = "op"]
      /\ outstanding' = outstanding + 1 /\ committing = 0 /\ Room /\ Booted
      /\ UNCHANGED <<diskVars, cache, lh, committing, writerVars, wrote, need, ghostVars, fault>>
  BY Zenon DEF begin_op, MayEnter, Entered
<1>2. by = NoOne /\ step = "up"
  BY <1>1 DEF WriterSound, Booted
<1>3. TypeOK' /\ NoPanic'
  BY <1>1 DEF TypeOK, NoPanic, Pc, diskVars, writerVars, ghostVars
<1>4. Active' = Active \cup {p} /\ p \notin Active
  BY <1>1, Zenon DEF Active, TypeOK
<1>5. Cardinality(Active') = Cardinality(Active) + 1
  BY <1>4, FiniteNow, FS_AddElement, Zenon DEF Finite
<1>6. WriterSound'
  BY <1>1, <1>2, <1>5, Zenon DEF WriterSound, Booted, writerVars
<1>7. RoomSound'
  <2>1. Cardinality(Reserved') <= (outstanding + 1) * MAXOPBLOCKS
    BY <1>5, FiniteNext, Zenon DEF Finite, WriterSound
  <2>2. Len(lh) + Cardinality(Reserved') <= LOGBLOCKS
    <3>1. Len(lh) \in Nat /\ Cardinality(Reserved') \in Nat /\ (outstanding + 1) * MAXOPBLOCKS \in Nat
      BY FiniteNext, SizesAssumption DEF Finite, TypeOK
    <3> QED BY <1>1, <2>1, <3>1, SizesAssumption DEF Room
  <2>3. lh' = lh /\ dhead' = dhead /\ wrote' = wrote
    BY <1>1, Zenon DEF diskVars
  <2> QED BY <1>4, <2>2, <2>3, Zenon DEF RoomSound, Distinct, Logged
<1>8. DiskSound'
  BY <1>1, DiskFrame, Zenon
<1>9. SyncSound'
  BY <1>1, <1>4, Zenon DEF SyncSound, TypeOK, writerVars, ghostVars
<1>10. SleepSound'
  <2>1. \A q \in Procs : pc'[q] # "asleep"
    BY <1>1 DEF SleepSound, TypeOK
  <2> QED BY <1>1, <2>1 DEF SleepSound, MustWait, TypeOK
<1> QED BY <1>3, <1>6, <1>7, <1>8, <1>9, <1>10, Zenon

(* begin_op() has to wait: for a commit, or for room.                       *)
LEMMA WaitInv ==
  ASSUME Inv, NEW p \in Procs, begin_op(p), ~MayEnter
  PROVE  Inv'
<1> USE DEF Inv
<1>1. /\ pc[p] \in {"idle", "woken"} /\ pc' = [pc EXCEPT ![p] = "asleep"] /\ Booted
      /\ UNCHANGED <<outstanding, diskVars, cache, lh, committing, writerVars, wrote, need,
                     ghostVars, fault>>
  BY Zenon DEF begin_op
<1>2. TypeOK' /\ NoPanic'
  BY <1>1, Zenon DEF TypeOK, NoPanic, Pc, diskVars, writerVars, ghostVars
<1>3. Active' = Active
  BY <1>1, Zenon DEF Active, TypeOK
<1>4. WriterSound'
  BY <1>1, <1>3, Zenon DEF WriterSound, Booted, writerVars
<1>5. RoomSound'
  BY <1>1, <1>3, RoomFrame, Zenon DEF diskVars
<1>6. DiskSound'
  BY <1>1, DiskFrame, Zenon
<1>7. SyncSound'
  BY <1>1, <1>3, Zenon DEF SyncSound, TypeOK, writerVars, ghostVars
<1>8. SleepSound'
  <2>1. committing = 1 \/ ~Room
    BY DEF MayEnter, TypeOK
  <2>2. Room' = Room /\ MustWait' = MustWait
    BY <1>1, Zenon DEF Room, MustWait
  <2> QED BY <1>1, <2>1, <2>2, Zenon DEF SleepSound, TypeOK
<1> QED BY <1>2, <1>4, <1>5, <1>6, <1>7, <1>8, Zenon

-----------------------------------------------------------------------------
(* log_write() puts a block in the log once.                                *)
LEMMA AddedFacts ==
  ASSUME lh \in Seq(Blocks), Distinct(lh), NEW b \in Blocks
  PROVE  /\ Added(b) \in Seq(Blocks) /\ Added(b) # <<>>
         /\ Len(Added(b)) \in Nat /\ Len(lh) \in Nat
         /\ Len(lh) <= Len(Added(b)) /\ Len(Added(b)) <= Len(lh) + 1
         /\ Logged(b) => Added(b) = lh
         /\ Distinct(Added(b))
         /\ \A x : (\E i \in 1..Len(Added(b)) : Added(b)[i] = x) <=> Logged(x) \/ x = b
<1>1. CASE Logged(b)
  <2>1. Added(b) = lh
    BY <1>1, Zenon DEF Added, Logged
  <2>2. lh # <<>> /\ Len(lh) \in Nat
    BY <1>1 DEF Logged
  <2> QED BY <1>1, <2>1, <2>2 DEF Logged
<1>2. CASE ~Logged(b)
  <2>1. Added(b) = Append(lh, b)
    BY <1>2, Zenon DEF Added, Logged
  <2>2. /\ Len(lh) \in Nat /\ Append(lh, b) \in Seq(Blocks) /\ Append(lh, b) # <<>>
        /\ Len(Append(lh, b)) = Len(lh) + 1
        /\ \A i \in 1..Len(lh) : Append(lh, b)[i] = lh[i]
        /\ Append(lh, b)[Len(lh) + 1] = b
    OBVIOUS
  <2>3. Distinct(Append(lh, b))
    BY <1>2, <2>2 DEF Distinct, Logged
  <2>4. \A x : (\E i \in 1..Len(Append(lh, b)) : Append(lh, b)[i] = x) <=> Logged(x) \/ x = b
    BY <2>2 DEF Logged
  <2> QED BY <1>2, <2>1, <2>2, <2>3, <2>4
<1> QED BY <1>1, <1>2, Zenon

(* A call that writes a new block uses one of its reservations.             *)
LEMMA ReservedWrite ==
  ASSUME Inv, NEW p \in Active, NEW b, b \notin wrote[p], Cardinality(wrote[p]) < OpBlocks,
         wrote' = [wrote EXCEPT ![p] = @ \cup {b}], pc' = pc
  PROVE  /\ Cardinality(Reserved') = Cardinality(Reserved) - 1
         /\ IsFiniteSet(wrote'[p]) /\ Cardinality(wrote'[p]) <= OpBlocks
<1> DEFINE c == Cardinality(wrote[p])
<1>1. p \in Procs /\ IsFiniteSet(wrote[p]) /\ wrote \in [Procs -> SUBSET Blocks]
  BY Zenon DEF Inv, RoomSound, Active, TypeOK
<1>2. wrote'[p] = wrote[p] \cup {b} /\ \A q \in Procs \ {p} : wrote'[q] = wrote[q]
  BY <1>1, Zenon
<1>3. c \in Nat /\ IsFiniteSet(wrote'[p]) /\ Cardinality(wrote'[p]) = c + 1
  BY <1>1, <1>2, FS_AddElement, FS_CardinalityType, Zenon
<1>4. Active' = Active /\ Active \subseteq Procs
  BY DEF Active
<1>5. Reserved' = Reserved \ {<<p, c + 1>>}
  <2>1. \A r \in Active \X (1..MAXOPBLOCKS) :
           r[2] > Cardinality(wrote'[r[1]]) <=> r[2] > Cardinality(wrote[r[1]]) /\ r # <<p, c + 1>>
    <3> TAKE r \in Active \X (1..MAXOPBLOCKS)
    <3>1. r[1] \in Active /\ r[2] \in 1..MAXOPBLOCKS /\ r = <<r[1], r[2]>>
      OBVIOUS
    <3>2. CASE r[1] = p
      <4>1. r # <<p, c + 1>> <=> r[2] # c + 1
        BY <3>1, <3>2
      <4> QED BY <1>3, <3>1, <3>2, <4>1
    <3>3. CASE r[1] # p
      BY <1>2, <1>4, <3>1, <3>3
    <3> QED BY <3>2, <3>3, Zenon
  <2> QED BY <1>4, <2>1, Zenon DEF Reserved
<1>6. <<p, c + 1>> \in Reserved
  BY <1>3, SizesAssumption DEF Reserved
<1>7. Cardinality(Reserved') = Cardinality(Reserved) - 1
  BY <1>5, <1>6, FiniteNow, FS_RemoveElement, Zenon DEF Finite
<1> QED BY <1>3, <1>7, SizesAssumption

LEMMA LogWriteInv ==
  ASSUME Inv, NEW p \in Procs, NEW b \in Blocks, NEW v \in Data, log_write(p, b, v)
  PROVE  Inv'
<1> USE DEF Inv
<1>1. /\ p \in Active /\ (b \in wrote[p] \/ Cardinality(wrote[p]) < OpBlocks)
      /\ wrote' = [wrote EXCEPT ![p] = @ \cup {b}] /\ cache' = [cache EXCEPT ![b] = v]
      /\ UNCHANGED <<diskVars, outstanding, committing, writerVars, pc, need, ghostVars>>
  BY Zenon DEF log_write, Active
<1>2. step = "up" /\ Active' = Active
  BY <1>1, Zenon DEF WriterSound, Active
<1>3. Len(lh) < LOGBLOCKS /\ outstanding >= 1
  <2>1. Cardinality(wrote[p]) <= OpBlocks /\ Cardinality(wrote[p]) \in Nat
    BY FS_CardinalityType, Zenon DEF RoomSound
  <2>2. <<p, MAXOPBLOCKS>> \in Reserved
    BY <1>1, <2>1, SizesAssumption DEF Reserved
  <2>3. Cardinality(Reserved) # 0 /\ Cardinality(Active) # 0
    BY <1>1, <2>2, FiniteNow, FS_EmptySet, Zenon DEF Finite
  <2> QED BY <2>3, FiniteNow, SizesAssumption DEF Finite, WriterSound, RoomSound, TypeOK
<1>4. lh' = Added(b) /\ fault' = fault
  BY <1>3, SizesAssumption DEF log_write, TypeOK
<1>5. lh \in Seq(Blocks) /\ Distinct(lh)
  BY Zenon DEF TypeOK, RoomSound
<1>6. /\ lh' \in Seq(Blocks) /\ lh' # <<>> /\ Len(lh') \in Nat /\ Len(lh) \in Nat
      /\ Len(lh) <= Len(lh') /\ Len(lh') <= Len(lh) + 1 /\ Distinct(lh)'
      /\ \A x : Logged(x)' <=> Logged(x) \/ x = b
  <2>1. /\ lh' \in Seq(Blocks) /\ lh' # <<>> /\ Len(lh') \in Nat /\ Len(lh) \in Nat
        /\ Len(lh) <= Len(lh') /\ Len(lh') <= Len(lh) + 1 /\ Distinct(lh')
    BY <1>4, <1>5, AddedFacts, Zenon
  <2>2. \A x : (\E i \in 1..Len(lh') : lh'[i] = x) <=> Logged(x) \/ x = b
    BY <1>4, <1>5, AddedFacts, Zenon
  <2> QED BY <2>1, <2>2, Zenon DEF Logged, Distinct
<1>7. TypeOK' /\ NoPanic'
  BY <1>1, <1>4, <1>6, Zenon DEF TypeOK, NoPanic, diskVars, writerVars, ghostVars
<1>8. WriterSound'
  BY <1>1, <1>2, Zenon DEF WriterSound, Booted, writerVars
<1>9. RoomSound'
  <2>1. /\ IsFiniteSet(wrote'[p]) /\ Cardinality(wrote'[p]) <= OpBlocks
        /\ Len(lh') + Cardinality(Reserved') <= LOGBLOCKS
    <3>1. CASE b \in wrote[p]
      <4>1. wrote' = wrote
        BY <1>1, <3>1, Zenon DEF TypeOK
      <4>2. lh' = lh
        BY <1>4, <1>5, <3>1, AddedFacts, Zenon DEF RoomSound
      <4> QED BY <1>2, <4>1, <4>2, Zenon DEF RoomSound, Reserved
    <3>2. CASE b \notin wrote[p]
      <4>1. /\ Cardinality(Reserved') = Cardinality(Reserved) - 1
            /\ IsFiniteSet(wrote'[p]) /\ Cardinality(wrote'[p]) <= OpBlocks
        BY <1>1, <3>2, ReservedWrite, Zenon
      <4> QED BY <1>6, <4>1, FiniteNow, SizesAssumption DEF RoomSound, Finite
    <3> QED BY <3>1, <3>2, Zenon
  <2>2. /\ wrote'[p] = wrote[p] \cup {b} /\ \A q \in Procs \ {p} : wrote'[q] = wrote[q]
        /\ dhead' = dhead
    BY <1>1, Zenon DEF TypeOK, diskVars
  <2> QED BY <1>1, <1>2, <1>6, <2>1, <2>2, Zenon DEF RoomSound, Distinct
<1>10. DiskSound'
  <2>1. \A x \in Blocks : x # b => cache'[x] = cache[x]
    BY <1>1, Zenon DEF TypeOK
  <2>2. /\ step' = "up" /\ dhead' = dhead /\ home' = home /\ Booted /\ Booted'
    BY <1>1, <1>2, Zenon DEF diskVars, writerVars, Booted
  <2> QED BY <1>2, <1>6, <2>1, <2>2, Zenon DEF DiskSound
<1>11. SyncSound'
  BY <1>1, <1>2, <1>6, Zenon DEF SyncSound, writerVars, ghostVars
<1>12. SleepSound'
  <2>1. Room' => Room
    BY <1>1, <1>6, SizesAssumption DEF Room, TypeOK
  <2> QED BY <1>1, <2>1, Zenon DEF SleepSound, MustWait
<1> QED BY <1>7, <1>8, <1>9, <1>10, <1>11, <1>12, Zenon

(* wakeup(&log) moves sleepers only.                                        *)
LEMMA WokenFacts ==
  ASSUME TypeOK, NEW q \in Procs
  PROVE  /\ Woken(q) \in Pc \ {"asleep", "sync"}
         /\ Woken(q) = "op" <=> pc[q] = "op"
         /\ Woken(q) = "resync" <=> pc[q] \in {"sync", "resync"}
         /\ pc[q] = "idle" => Woken(q) = "idle"
BY Zenon DEF TypeOK, Woken, Pc

(* A call that ends gives back what it has reserved and not used.           *)
LEMMA EndOpRoom ==
  ASSUME Inv, NEW p \in Active, Active' = Active \ {p}, lh' = lh, dhead' = dhead,
         wrote' = [wrote EXCEPT ![p] = {}]
  PROVE  RoomSound'
<1>1. p \in Procs /\ wrote \in [Procs -> SUBSET Blocks]
  BY Zenon DEF Inv, TypeOK, Active
<1>2. wrote'[p] = {} /\ \A q \in Procs \ {p} : wrote'[q] = wrote[q]
  BY <1>1, Zenon
<1>3. Reserved' \in SUBSET Reserved
  <2>1. \A q \in Active' : q \in Active /\ wrote'[q] = wrote[q]
    BY <1>2, Zenon DEF Active
  <2> QED BY <2>1, Zenon DEF Reserved
<1>4. Len(lh') + Cardinality(Reserved') <= LOGBLOCKS
  <2>1. Cardinality(Reserved') <= Cardinality(Reserved)
    BY <1>3, FiniteNow, FS_Subset, Zenon DEF Finite
  <2>2. Cardinality(Reserved') \in Nat /\ Cardinality(Reserved) \in Nat /\ Len(lh) \in Nat
    BY FiniteNow, FiniteNext DEF Finite, Inv, TypeOK
  <2> QED BY <2>1, <2>2, SizesAssumption DEF Inv, RoomSound
<1>5. IsFiniteSet({}) /\ Cardinality({}) = 0 /\ 0 <= OpBlocks
  BY FS_EmptySet, SizesAssumption
<1>6. \A q \in Procs : /\ IsFiniteSet(wrote'[q]) /\ Cardinality(wrote'[q]) <= OpBlocks
                       /\ q \notin Active' => wrote'[q] = {}
                       /\ wrote'[q] \subseteq wrote[q]
  BY <1>2, <1>5, Zenon DEF Inv, RoomSound
<1> QED BY <1>4, <1>6, ZenonT(40) DEF Inv, RoomSound, Distinct, Logged

LEMMA EndOpInv ==
  ASSUME Inv, NEW p \in Procs, end_op(p)
  PROVE  Inv'
<1> USE DEF Inv
<1>1. /\ p \in Active /\ outstanding' = outstanding - 1
      /\ wrote' = [wrote EXCEPT ![p] = {}]
      /\ unsaved' = IF wrote[p] = {} THEN unsaved ELSE unsaved \cup {p}
      /\ UNCHANGED <<diskVars, cache, lh, need, owed>>
  BY Zenon DEF end_op, Active, Ended
<1>2. step = "up" /\ by = NoOne /\ committing = 0 /\ dhead = <<>> /\ p # NoOne
  BY <1>1, ProcsAssumption, Zenon DEF WriterSound, DiskSound
<1>3. fault' = "none"
  BY <1>2 DEF end_op, NoPanic
<1>4. unsaved \subseteq unsaved' /\ unsaved' \in SUBSET Procs
  BY <1>1, Zenon DEF TypeOK
<1>5. (lh = <<>> => unsaved' = {}) /\ \A q \in Procs : owed[q] \subseteq unsaved'
  <2>1. lh = <<>> => wrote[p] = {}
    BY DEF RoomSound, Logged
  <2> QED BY <1>1, <1>4, <2>1, Zenon DEF SyncSound
<1>6. /\ outstanding \in Nat \ {0} /\ Cardinality(Active \ {p}) = outstanding - 1
      /\ Cardinality(Active \ {p}) = 0 <=> Active \ {p} = {}
  <2>1. IsFiniteSet(Active \ {p}) /\ Cardinality(Active \ {p}) = Cardinality(Active) - 1
    BY <1>1, FiniteNow, FS_RemoveElement, Zenon DEF Finite
  <2>2. Cardinality(Active \ {p}) = 0 <=> Active \ {p} = {}
    BY <2>1, FS_EmptySet, Zenon
  <2> QED BY <1>1, <2>1, <2>2, FiniteNow, Zenon DEF WriterSound, Finite
<1>7. CASE Last
  <2>1. /\ committing' = 1 /\ by' = p /\ tail' = 0 /\ pc' = [pc EXCEPT ![p] = "commit"]
        /\ step' = IF lh # <<>> THEN "log" ELSE "done"
    BY <1>7, Zenon DEF end_op
  <2>2. Active \ {p} = {} /\ outstanding' = 0
    BY <1>1, <1>6, <1>7, Zenon DEF Last, Ended
  <2>3. pc'[p] = "commit" /\ \A q \in Procs \ {p} : pc'[q] = pc[q]
    BY <2>1, Zenon DEF TypeOK
  <2>4. Active' = {} /\ Active' = Active \ {p}
    BY <2>2, <2>3, Zenon DEF Active
  <2>5. TypeOK' /\ NoPanic'
    BY <1>1, <1>3, <1>4, <2>1, <2>2, SizesAssumption DEF TypeOK, NoPanic, diskVars, Pc, Step
  <2>6. WriterSound'
    BY <1>2, <2>1, <2>2, <2>4, FS_EmptySet, Zenon DEF WriterSound, Booted
  <2>7. RoomSound'
    BY <1>1, <2>4, EndOpRoom, Zenon DEF diskVars
  <2>8. DiskSound'
    <3>1. Booted /\ Booted'
      BY <1>2, <2>1, Zenon DEF Booted
    <3>2. dhead' = <<>> /\ step' \in {"log", "done"} /\ (step' = "done" => lh = <<>>)
      BY <1>1, <1>2, <2>1, Zenon DEF diskVars
    <3>3. tail' <= Len(lh') /\ \A i \in 1..tail' : dlog'[i] = cache'[lh'[i]]
      BY <1>1, <2>1 DEF TypeOK
    <3>4. step' # "install" /\ step' # "read"
      BY <3>2, Zenon
    <3>5. \A b \in Blocks : ~Logged(b)' => cache'[b] = home'[b]
      BY <1>1, <3>1, Zenon DEF DiskSound, Logged, diskVars
    <3>6. step' = "done" => lh' = <<>>
      BY <1>1, <3>2, Zenon
    <3> QED BY <3>1, <3>2, <3>3, <3>4, <3>5, <3>6, Zenon DEF DiskSound
  <2>9. SyncSound'
    <3>1. step' # "up" /\ step' # "install"
      BY <2>1, Zenon
    <3>2. \A q \in Procs : pc'[q] \in {"sync", "resync"} => pc[q] \in {"sync", "resync"}
      BY <2>3, Zenon
    <3> QED BY <1>1, <1>5, <3>1, <3>2, Zenon DEF SyncSound
  <2>10. SleepSound'
    <3>1. \A q \in Procs : pc'[q] = "sync" => pc[q] = "sync"
      BY <2>3, Zenon
    <3> QED BY <1>1, <2>1, <3>1, Zenon DEF SleepSound, MustWait
  <2> QED BY <2>5, <2>6, <2>7, <2>8, <2>9, <2>10, Zenon
<1>8. CASE ~Last
  <2>1. /\ pc' = [[q \in Procs |-> Woken(q)] EXCEPT ![p] = "idle"]
        /\ UNCHANGED <<committing, writerVars>>
    BY <1>8, Zenon DEF end_op
  <2>2. /\ outstanding' > 0 /\ outstanding' \in Nat /\ Active \ {p} # {}
    BY <1>1, <1>6, <1>8 DEF Last, Ended
  <2>3. pc'[p] = "idle" /\ \A q \in Procs \ {p} : pc'[q] = Woken(q)
    BY <2>1, Zenon
  <2>4. Active' = Active \ {p}
    BY <2>3, WokenFacts, Zenon DEF Active
  <2>5. pc' \in [Procs -> Pc]
    BY <2>1, WokenFacts, Zenon DEF Pc
  <2>6. TypeOK' /\ NoPanic'
    BY <1>1, <1>3, <1>4, <2>1, <2>2, <2>5 DEF TypeOK, NoPanic, diskVars, writerVars
  <2>7. WriterSound'
    BY <1>1, <1>2, <1>6, <2>1, <2>4, Zenon DEF WriterSound, Booted, writerVars
  <2>8. RoomSound'
    BY <1>1, <2>4, EndOpRoom, Zenon DEF diskVars
  <2>9. DiskSound'
    BY <1>1, <2>1, DiskFrame, Zenon DEF diskVars, writerVars
  <2>10. SyncSound'
    <3>1. \A q \in Procs : pc'[q] \in {"sync", "resync"} => pc[q] \in {"sync", "resync"}
      BY <2>3, WokenFacts, Zenon DEF Pc
    <3>2. step' = "up"
      BY <1>2, <2>1, Zenon DEF writerVars
    <3> QED BY <1>1, <1>5, <2>2, <2>4, <3>1, <3>2, Zenon DEF SyncSound
  <2>11. SleepSound'
    <3>1. \A q \in Procs : pc'[q] # "sync" /\ pc'[q] # "asleep"
      BY <2>3, WokenFacts, Zenon DEF Pc
    <3> QED BY <1>1, <2>2, <3>1, Zenon DEF SleepSound, MustWait
  <2> QED BY <2>6, <2>7, <2>8, <2>9, <2>10, <2>11, Zenon
<1> QED BY <1>7, <1>8, Zenon

-----------------------------------------------------------------------------
(* commit() and recovery.                                                   *)
LEMMA QuietRoom ==
  ASSUME Active' = {}, \A p \in Procs : wrote'[p] = {},
         Distinct(lh'), Len(lh') \in Nat, Len(lh') <= LOGBLOCKS,
         Distinct(dhead'), Len(dhead') <= LOGBLOCKS
  PROVE  RoomSound'
<1>1. Reserved' = {}
  BY Zenon DEF Reserved
<1>2. IsFiniteSet({}) /\ Cardinality({}) = 0 /\ 0 <= OpBlocks
  BY FS_EmptySet, SizesAssumption
<1>3. Len(lh') + Cardinality(Reserved') <= LOGBLOCKS
  BY <1>1, <1>2
<1> QED BY <1>2, <1>3, Zenon DEF RoomSound, Distinct

LEMMA SleepFrame ==
  ASSUME SleepSound, UNCHANGED <<pc, need, committing, outstanding, lh>>
  PROVE  SleepSound'
BY Zenon DEF SleepSound, Room, MustWait

LEMMA LengthFacts ==
  ASSUME Inv
  PROVE  Len(lh) \in Nat /\ Len(lh) <= LOGBLOCKS /\ \A i \in 1..Len(lh) : lh[i] \in Blocks
<1>1. lh \in Seq(Blocks) /\ Len(lh) + Cardinality(Reserved) <= LOGBLOCKS
  BY Zenon DEF Inv, RoomSound, TypeOK
<1>2. Cardinality(Reserved) \in Nat
  BY FiniteNow, Zenon DEF Finite
<1>3. Len(lh) \in Nat /\ \A i \in 1..Len(lh) : lh[i] \in Blocks
  BY <1>1
<1> QED BY <1>1, <1>2, <1>3, SizesAssumption

LEMMA WriteLogInv ==
  ASSUME Inv, write_log
  PROVE  Inv'
<1> USE DEF Inv
<1>1. /\ step = "log" /\ tail < Len(lh) /\ tail' = tail + 1
      /\ dlog' = [dlog EXCEPT ![tail + 1] = cache[lh[tail + 1]]]
      /\ UNCHANGED <<home, dhead, cache, lh, outstanding, committing, step, by,
                     pc, wrote, need, unsaved, owed, fault>>
  BY Zenon DEF write_log, ghostVars
<1>2. tail + 1 \in 1..LOGBLOCKS /\ tail + 1 <= Len(lh) /\ cache[lh[tail + 1]] \in Data
  BY <1>1, LengthFacts, SizesAssumption DEF TypeOK
<1>3. \A i \in 1..(tail + 1) : dlog'[i] = cache[lh[i]]
  BY <1>1, <1>2, LengthFacts, SizesAssumption DEF DiskSound, TypeOK
<1>4. TypeOK' /\ NoPanic'
  BY <1>1, <1>2 DEF TypeOK, NoPanic
<1>5. WriterSound' /\ SyncSound' /\ Active' = Active
  BY <1>1, Zenon DEF WriterSound, SyncSound, Active, Booted
<1>6. RoomSound' /\ SleepSound'
  BY <1>1, <1>5, RoomFrame, SleepFrame, Zenon
<1>7. DiskSound'
  BY <1>1, <1>2, <1>3 DEF DiskSound, Booted, Logged
<1> QED BY <1>4, <1>5, <1>6, <1>7, Zenon

LEMMA WriteHeadInv ==
  ASSUME Inv, write_head
  PROVE  Inv'
<1> USE DEF Inv
<1>1. /\ step = "log" /\ tail = Len(lh) /\ dhead' = lh /\ tail' = 0 /\ step' = "install"
      /\ unsaved' = {} /\ owed' = [p \in Procs |-> {}]
      /\ UNCHANGED <<home, dlog, cache, lh, outstanding, committing, by, pc, wrote, need, fault>>
  BY Zenon DEF write_head
<1>2. by # NoOne /\ Active = {} /\ Active' = Active
  BY <1>1, Zenon DEF WriterSound, Active
<1>3. TypeOK' /\ NoPanic'
  BY <1>1, SizesAssumption DEF TypeOK, NoPanic, Step
<1>4. WriterSound'
  BY <1>1, <1>2, Zenon DEF WriterSound, Booted
<1>5. RoomSound'
  <2>1. Distinct(lh') /\ Distinct(dhead')
    BY <1>1, Zenon DEF RoomSound
  <2>2. \A p \in Procs : wrote'[p] = {}
    BY <1>1, <1>2, Zenon DEF RoomSound
  <2> QED BY <1>1, <1>2, <2>1, <2>2, LengthFacts, QuietRoom, Zenon
<1>6. DiskSound'
  BY <1>1, <1>2, LengthFacts DEF DiskSound, Booted, Logged
<1>7. SyncSound'
  BY <1>1, Zenon DEF SyncSound
<1>8. SleepSound'
  BY <1>1, SleepFrame, Zenon
<1> QED BY <1>3, <1>4, <1>5, <1>6, <1>7, <1>8, Zenon

LEMMA InstallInv ==
  ASSUME Inv, install_trans
  PROVE  Inv'
<1> USE DEF Inv
<1> DEFINE n == tail + 1
           b == lh[n]
<1>1. /\ step = "install" /\ tail < Len(lh) /\ tail' = n
      /\ home' = [home EXCEPT ![b] = dlog[n]] /\ cache' = [cache EXCEPT ![b] = dlog[n]]
      /\ UNCHANGED <<dlog, dhead, lh, outstanding, committing, step, by, pc, wrote,
                     need, unsaved, owed, fault>>
  BY Zenon DEF install_trans, ghostVars
<1>2. n \in 1..LOGBLOCKS /\ n \in 1..Len(lh) /\ b \in Blocks /\ dlog[n] \in Data
  BY <1>1, LengthFacts, SizesAssumption DEF TypeOK
<1>3. /\ home'[b] = dlog[n] /\ cache'[b] = dlog[n]
      /\ \A x \in Blocks \ {b} : home'[x] = home[x] /\ cache'[x] = cache[x]
  BY <1>1, <1>2, Zenon DEF TypeOK
<1>4. \A i \in 1..Len(lh) : lh[i] \in Blocks /\ (i # n => lh[i] # b)
  BY <1>2, LengthFacts, Zenon DEF RoomSound, Distinct
<1>5. TypeOK' /\ NoPanic'
  BY <1>1, <1>2 DEF TypeOK, NoPanic
<1>6. WriterSound' /\ SyncSound' /\ Active' = Active
  BY <1>1, Zenon DEF WriterSound, SyncSound, Active, Booted
<1>7. RoomSound' /\ SleepSound'
  BY <1>1, <1>6, RoomFrame, SleepFrame, Zenon
<1>8. DiskSound'
  <2>1. tail' <= Len(lh') /\ \A i \in 1..tail' : home'[lh'[i]] = dlog'[i]
    BY <1>1, <1>2, <1>3, <1>4, LengthFacts DEF DiskSound, TypeOK
  <2>2. by' # NoOne => \A i \in 1..Len(lh') : dlog'[i] = cache'[lh'[i]]
    BY <1>1, <1>3, <1>4 DEF DiskSound
  <2>3. ~Booted => cache' = home'
    BY <1>1, Zenon DEF DiskSound, TypeOK
  <2>4. Booted => \A x \in Blocks : ~Logged(x) => cache'[x] = home'[x]
    BY <1>2, <1>3, Zenon DEF DiskSound, Logged
  <2>5. (Booted' <=> Booted) /\ \A x : Logged(x)' <=> Logged(x)
    BY <1>1, Zenon DEF Booted, Logged
  <2>6. /\ step' = "install" /\ dhead' = lh' /\ step' \notin {"up", "log", "done"}
        /\ step' \notin {"read", "done"} /\ step' # "log"
    BY <1>1, Zenon DEF DiskSound
  <2> QED BY <1>1, <2>1, <2>2, <2>3, <2>4, <2>5, <2>6, Zenon DEF DiskSound
<1> QED BY <1>5, <1>6, <1>7, <1>8, Zenon

LEMMA ClearInv ==
  ASSUME Inv, clear_log
  PROVE  Inv'
<1> USE DEF Inv
<1>1. /\ step = "install" /\ tail = Len(lh) /\ lh' = <<>> /\ dhead' = <<>> /\ tail' = 0
      /\ step' = IF by = NoOne THEN "up" ELSE "done"
      /\ UNCHANGED <<home, dlog, cache, outstanding, committing, by, pc, wrote,
                     need, unsaved, owed, fault>>
  BY Zenon DEF clear_log, ghostVars
<1>2. Active = {} /\ Active' = Active /\ (by = NoOne => ~Booted)
  BY <1>1, Zenon DEF WriterSound, Active, Booted
<1>3. TypeOK' /\ NoPanic'
  BY <1>1, SizesAssumption DEF TypeOK, NoPanic, Step
<1>4. WriterSound'
  BY <1>1, <1>2, Zenon DEF WriterSound, Booted
<1>5. RoomSound'
  <2>1. Distinct(lh') /\ Distinct(dhead') /\ Len(lh') = 0 /\ Len(dhead') = 0 /\ 0 <= LOGBLOCKS
    BY <1>1, SizesAssumption DEF Distinct
  <2>2. \A p \in Procs : wrote'[p] = {}
    BY <1>1, <1>2, Zenon DEF RoomSound
  <2>3. Len(lh') \in Nat
    BY <2>1
  <2> QED BY <1>2, <2>1, <2>2, <2>3, QuietRoom, Zenon
<1>6. \A b \in Blocks : cache[b] = home[b]
  <2>1. CASE by = NoOne
    BY <1>2, <2>1, Zenon DEF DiskSound
  <2>2. CASE by # NoOne
    BY <1>1, <2>2 DEF DiskSound, Booted, Logged
  <2> QED BY <2>1, <2>2, Zenon
<1>7. DiskSound'
  <2>1. Booted' /\ step' \in {"up", "done"} /\ step' # "install" /\ step' # "log"
    BY <1>1, Zenon DEF Booted
  <2> QED BY <1>1, <1>6, <2>1, Zenon DEF DiskSound
<1>8. SyncSound'
  BY <1>1, Zenon DEF SyncSound
<1>9. SleepSound'
  <2>1. CASE by = NoOne
    BY <1>1, <1>2, <2>1, Zenon DEF SleepSound, WriterSound, MustWait
  <2>2. CASE by # NoOne
    BY <1>1, <2>2, Zenon DEF SleepSound, WriterSound, MustWait
  <2> QED BY <2>1, <2>2, Zenon
<1> QED BY <1>3, <1>4, <1>5, <1>7, <1>8, <1>9, Zenon

LEMMA EndCommitInv ==
  ASSUME Inv, end_commit
  PROVE  Inv'
<1> USE DEF Inv
<1>1. /\ step = "done" /\ committing' = 0 /\ need' = [p \in Procs |-> 0]
      /\ pc' = [[q \in Procs |-> Woken(q)] EXCEPT ![by] = "idle"]
      /\ step' = "up" /\ by' = NoOne
      /\ UNCHANGED <<home, dlog, dhead, cache, lh, outstanding, tail, wrote, unsaved, owed, fault>>
  BY Zenon DEF end_commit, diskVars, ghostVars
<1>2. by # NoOne /\ Active = {} /\ lh = <<>> /\ dhead = <<>> /\ Booted
  BY <1>1, Zenon DEF WriterSound, DiskSound, Booted
<1>3. \A q \in Procs : pc'[q] \in Pc \ {"asleep", "sync"} /\ (pc'[q] = "op" => pc[q] = "op")
  <2>1. by \in Procs
    BY <1>2, Zenon DEF TypeOK
  <2>2. pc'[by] = "idle" /\ \A q \in Procs \ {by} : pc'[q] = Woken(q)
    BY <1>1, <2>1, Zenon
  <2> QED BY <2>2, WokenFacts, Zenon DEF Pc
<1>4. Active' = {} /\ Active' = Active
  BY <1>2, <1>3, Zenon DEF Active
<1>5. pc' \in [Procs -> Pc]
  BY <1>1, <1>3, Zenon
<1>6. TypeOK' /\ NoPanic'
  BY <1>1, <1>5 DEF TypeOK, NoPanic, Step
<1>7. WriterSound'
  BY <1>1, <1>4, Zenon DEF WriterSound, Booted
<1>8. RoomSound'
  BY <1>1, <1>4, RoomFrame, Zenon
<1>9. DiskSound'
  BY <1>1, <1>2, Zenon DEF DiskSound, Booted, Logged
<1>10. SyncSound'
  BY <1>1, <1>2, Zenon DEF SyncSound
<1>11. SleepSound'
  BY <1>1, <1>3 DEF SleepSound
<1> QED BY <1>6, <1>7, <1>8, <1>9, <1>10, <1>11, Zenon

LEMMA SyncInv ==
  ASSUME Inv, NEW p \in Procs, sys_sync(p)
  PROVE  Inv'
<1> USE DEF Inv
<1>1. /\ Booted /\ pc[p] = "idle" /\ MustWait /\ need' = [need EXCEPT ![p] = 1]
      /\ owed' = [owed EXCEPT ![p] = unsaved] /\ pc' = [pc EXCEPT ![p] = "sync"]
      /\ UNCHANGED <<diskVars, cache, lh, outstanding, committing, writerVars, wrote, unsaved, fault>>
  BY Zenon DEF sys_sync
<1>2. /\ need'[p] = 1 /\ owed'[p] = unsaved /\ pc'[p] = "sync"
      /\ \A q \in Procs \ {p} : need'[q] = need[q] /\ owed'[q] = owed[q] /\ pc'[q] = pc[q]
  BY <1>1, Zenon DEF TypeOK
<1>3. Active' = Active
  BY <1>1, <1>2, Zenon DEF Active
<1>4. TypeOK' /\ NoPanic'
  BY <1>1 DEF TypeOK, NoPanic, diskVars, writerVars, Pc
<1>5. WriterSound'
  BY <1>1, <1>3, Zenon DEF WriterSound, Booted, writerVars
<1>6. RoomSound' /\ DiskSound'
  BY <1>1, <1>3, RoomFrame, DiskFrame, Zenon DEF diskVars
<1>7. SyncSound'
  BY <1>1, <1>2, <1>3 DEF SyncSound, writerVars
<1>8. SleepSound'
  BY <1>1, <1>2 DEF SleepSound, MustWait, Room
<1> QED BY <1>4, <1>5, <1>6, <1>7, <1>8, Zenon

LEMMA SyncCheckInv ==
  ASSUME Inv, NEW p \in Procs, sync_check(p)
  PROVE  Inv'
<1> USE DEF Inv
<1>1. /\ pc[p] = "resync"
      /\ pc' = [pc EXCEPT ![p] = IF need[p] > 0 THEN "sync" ELSE "idle"]
      /\ UNCHANGED <<diskVars, cache, lh, outstanding, committing, writerVars, wrote, need, unsaved, owed, fault>>
  BY Zenon DEF sync_check, ghostVars
<1>2. /\ pc'[p] \in {"sync", "idle"} /\ (pc'[p] = "sync" => need[p] > 0)
      /\ \A q \in Procs \ {p} : pc'[q] = pc[q]
  BY <1>1, Zenon DEF TypeOK
<1>3. Active' = Active
  BY <1>1, <1>2, Zenon DEF Active
<1>4. TypeOK' /\ NoPanic'
  BY <1>1, Zenon DEF TypeOK, NoPanic, diskVars, writerVars, Pc
<1>5. WriterSound'
  <2>1. Booted /\ Booted'
    BY <1>1, Zenon DEF WriterSound, Booted, writerVars
  <2> QED BY <1>1, <1>3, <2>1, Zenon DEF WriterSound, writerVars
<1>6. RoomSound' /\ DiskSound'
  BY <1>1, <1>3, RoomFrame, DiskFrame, Zenon DEF diskVars
<1>7. SyncSound'
  BY <1>1, <1>2, <1>3, Zenon DEF SyncSound, writerVars
<1>8. SleepSound'
  BY <1>1, <1>2, Zenon DEF SleepSound, MustWait, Room
<1> QED BY <1>4, <1>5, <1>6, <1>7, <1>8, Zenon

LEMMA CrashInv ==
  ASSUME Inv, Crash
  PROVE  Inv'
<1> USE DEF Inv
<1>1. /\ cache' = home /\ lh' = <<>> /\ outstanding' = 0 /\ committing' = 0 /\ step' = "read"
      /\ by' = NoOne /\ tail' = 0 /\ pc' = [p \in Procs |-> "idle"]
      /\ wrote' = [p \in Procs |-> {}] /\ need' = [p \in Procs |-> 0] /\ unsaved' = {}
      /\ owed' = [p \in Procs |-> {}] /\ fault' = "none" /\ UNCHANGED <<home, dlog, dhead>>
  BY Zenon DEF Crash, diskVars
<1>2. Active' = {}
  BY <1>1, Zenon DEF Active
<1>3. TypeOK' /\ NoPanic'
  BY <1>1, SizesAssumption DEF TypeOK, NoPanic, Step, Pc
<1>4. WriterSound'
  BY <1>1, <1>2, FS_EmptySet, Zenon DEF WriterSound
<1>5. RoomSound'
  <2>1. Distinct(lh') /\ Len(lh') \in Nat /\ Len(lh') <= LOGBLOCKS
    BY <1>1, SizesAssumption DEF Distinct
  <2>2. Distinct(dhead') /\ Len(dhead') <= LOGBLOCKS
    BY <1>1, Zenon DEF RoomSound
  <2>3. \A p \in Procs : wrote'[p] = {}
    BY <1>1, Zenon
  <2> QED BY <1>2, <2>1, <2>2, <2>3, QuietRoom, Zenon
<1>6. DiskSound'
  BY <1>1 DEF DiskSound, Booted
<1>7. SyncSound' /\ SleepSound'
  BY <1>1 DEF SyncSound, SleepSound
<1> QED BY <1>3, <1>4, <1>5, <1>6, <1>7, Zenon

LEMMA ReadHeadInv ==
  ASSUME Inv, read_head
  PROVE  Inv'
<1> USE DEF Inv
<1>1. /\ step = "read" /\ lh' = dhead /\ tail' = 0 /\ step' = "install"
      /\ UNCHANGED <<home, dlog, dhead, cache, outstanding, committing, by, pc, wrote,
                     need, unsaved, owed, fault>>
  BY Zenon DEF read_head, diskVars, ghostVars
<1>2. by = NoOne /\ Active = {} /\ Active' = Active /\ ~Booted /\ lh = <<>>
  BY <1>1, Zenon DEF WriterSound, DiskSound, Active, Booted
<1>3. TypeOK' /\ NoPanic'
  BY <1>1, SizesAssumption DEF TypeOK, NoPanic, Step
<1>4. WriterSound'
  BY <1>1, <1>2, Zenon DEF WriterSound, Booted
<1>5. RoomSound'
  <2>1. Distinct(dhead') /\ Len(dhead') <= LOGBLOCKS /\ Distinct(lh') /\ Len(lh') <= LOGBLOCKS
    BY <1>1, Zenon DEF RoomSound
  <2>2. Len(lh') \in Nat
    BY <1>1 DEF TypeOK
  <2>3. \A p \in Procs : wrote'[p] = {}
    BY <1>1, <1>2, Zenon DEF RoomSound
  <2> QED BY <1>2, <2>1, <2>2, <2>3, QuietRoom, Zenon
<1>6. DiskSound'
  <2>1. ~Booted' /\ tail' <= Len(lh') /\ \A i \in 1..tail' : home'[lh'[i]] = dlog'[i]
    BY <1>1, <1>2 DEF Booted, TypeOK
  <2> QED BY <1>1, <1>2, <2>1, Zenon DEF DiskSound
<1>7. SyncSound'
  BY <1>1, <1>2, Zenon DEF SyncSound
<1>8. SleepSound'
  BY <1>1, <1>2, Zenon DEF SleepSound, WriterSound, MustWait
<1> QED BY <1>3, <1>4, <1>5, <1>6, <1>7, <1>8, Zenon

-----------------------------------------------------------------------------
LEMMA NextInv == Inv /\ [Next]_vars => Inv'
<1> SUFFICES ASSUME Inv, [Next]_vars PROVE Inv'
  BY Zenon
<1>1. ASSUME NEW p \in Procs, begin_op(p) PROVE Inv'
  BY <1>1, EnterInv, WaitInv, Zenon
<1>2. ASSUME NEW p \in Procs, NEW b \in Blocks, NEW v \in Data, log_write(p, b, v) PROVE Inv'
  BY <1>2, LogWriteInv, Zenon
<1>3. ASSUME NEW p \in Procs, end_op(p) PROVE Inv'
  BY <1>3, EndOpInv, Zenon
<1>4. ASSUME NEW p \in Procs, sys_sync(p) \/ sync_check(p) PROVE Inv'
  BY <1>4, SyncInv, SyncCheckInv, Zenon
<1>5. CASE Writer
  BY <1>5, WriteLogInv, WriteHeadInv, InstallInv, ClearInv, EndCommitInv, ReadHeadInv, Zenon DEF Writer
<1>6. CASE Crash
  BY <1>6, CrashInv, Zenon
<1>7. CASE UNCHANGED vars
  <2>1. UNCHANGED <<home, dlog, dhead, cache, lh, outstanding, committing, step, by,
                    tail, pc, wrote, need, unsaved, owed, fault>>
    BY <1>7, Zenon DEF vars
  <2>2. /\ TypeOK' /\ NoPanic' /\ WriterSound' /\ SyncSound' /\ Active' = Active
    BY <2>1, Zenon DEF Inv, TypeOK, NoPanic, WriterSound, SyncSound, Active, Booted
  <2>3. RoomSound' /\ DiskSound' /\ SleepSound'
    BY <2>1, <2>2, RoomFrame, DiskFrame, SleepFrame, Zenon DEF Inv, diskVars, writerVars
  <2> QED BY <2>2, <2>3, Zenon DEF Inv
<1> QED BY <1>1, <1>2, <1>3, <1>4, <1>5, <1>6, <1>7, Zenon DEF Next, Call

LEMMA LogInvariant == Spec => []Inv
BY InitInv, NextInv, PTL DEF Spec

(* log_write() never finds the log full and end_op() never finds a commit   *)
(* running, however many calls are under way: begin_op() has reserved what  *)
(* they may still write.  And nobody sleeps in begin_op() or sys_sync()     *)
(* without a commit, or the end of a call, that will wake it.               *)
THEOREM LogStaysSound == Spec => []LogSound
<1>1. Inv => LogSound
  BY Zenon DEF Inv, LogSound, SleepersHaveReason, SleepSound, MustWait, TypeOK
<1> QED BY <1>1, LogInvariant, PTL

(* When sys_sync() returns, every call that had ended when it began is on   *)
(* the disk.                                                                *)
THEOREM SyncStaysDurable == Spec => []SyncIsDurable
<1>1. ASSUME Inv PROVE SyncIsDurable
  <2>1. ASSUME Booted, ~MustWait PROVE unsaved = {}
    <3>1. committing = 0 /\ outstanding = 0
      BY <1>1, <2>1 DEF MustWait, Inv, TypeOK
    <3>2. step = "up" /\ Active = {}
      BY <1>1, <2>1, <3>1, FiniteNow DEF Inv, WriterSound, Booted, Finite
    <3> QED BY <1>1, <3>2, Zenon DEF Inv, SyncSound
  <2> QED BY <1>1, <2>1, Zenon DEF SyncIsDurable, Inv, SyncSound
<1> QED BY <1>1, LogInvariant, PTL

-----------------------------------------------------------------------------
(* The log implements AtomicDisk: what a reboot finds changes in one step,  *)
(* the write of the header, and only to what the cache then holds.          *)
Current == IF Booted THEN cache ELSE Recovered

Clean == dhead = <<>> => Recovered = home

LEMMA CleanNow == TypeOK => Clean
BY DEF Clean, Recovered, TypeOK

LEMMA CleanNext == TypeOK' => Clean'
BY CleanNow, PTL

(* What a reboot finds, block by block.                                     *)
Found ==
  /\ Recovered = [b \in Blocks |-> Recovered[b]]
  /\ \A i \in 1..Len(dhead) : dhead[i] \in Blocks /\ Recovered[dhead[i]] = dlog[i]
  /\ \A b \in Blocks : (\A i \in 1..Len(dhead) : dhead[i] # b) => Recovered[b] = home[b]

LEMMA FoundNow == Inv => Found
<1> SUFFICES ASSUME Inv PROVE Found
  OBVIOUS
<1>1. Recovered = [b \in Blocks |-> Recovered[b]]
  BY DEF Recovered
<1>2. ASSUME NEW i \in 1..Len(dhead) PROVE dhead[i] \in Blocks /\ Recovered[dhead[i]] = dlog[i]
  <2>1. dhead[i] \in Blocks
    BY DEF Inv, TypeOK
  <2>2. Recovered[dhead[i]] = dlog[CHOOSE j \in 1..Len(dhead) : dhead[j] = dhead[i]]
    BY <2>1, Zenon DEF Recovered
  <2>3. (CHOOSE j \in 1..Len(dhead) : dhead[j] = dhead[i]) = i
    BY Zenon DEF Inv, RoomSound, Distinct
  <2> QED BY <2>1, <2>2, <2>3, Zenon
<1>3. ASSUME NEW b \in Blocks, \A i \in 1..Len(dhead) : dhead[i] # b PROVE Recovered[b] = home[b]
  BY <1>3, Zenon DEF Recovered
<1> QED BY <1>1, <1>2, <1>3, Zenon DEF Found

LEMMA FoundNext == Inv' => Found'
BY FoundNow, PTL

LEMMA CallRefines ==
  ASSUME Inv, NEW p \in Procs,
         begin_op(p) \/ end_op(p) \/ sys_sync(p) \/ sync_check(p)
  PROVE  /\ UNCHANGED <<Recovered, Current>>
         /\ \/ Active' = Active
            \/ p \notin Active /\ Active' = Active \cup {p}
            \/ p \in Active /\ Active' = Active \ {p}
<1>1. UNCHANGED <<home, dlog, dhead, cache>>
  BY Zenon DEF begin_op, end_op, sys_sync, sync_check, diskVars
<1>2. Recovered' = Recovered
  BY <1>1, Zenon DEF Recovered
<1>3. Booted /\ Booted'
  <2>1. CASE begin_op(p) \/ sys_sync(p) \/ sync_check(p)
    BY <2>1, Zenon DEF begin_op, sys_sync, sync_check, writerVars, Booted, Inv, WriterSound
  <2>2. CASE end_op(p)
    BY <2>2, ProcsAssumption, Zenon DEF end_op, writerVars, Booted, Inv, WriterSound
  <2> QED BY <2>1, <2>2, Zenon
<1>4. Current' = Current
  BY <1>1, <1>3, Zenon DEF Current
<1>5. /\ pc'[p] = "op" <=> begin_op(p) /\ MayEnter
      /\ \A q \in Procs \ {p} : pc'[q] = "op" <=> pc[q] = "op"
      /\ pc[p] = "op" <=> end_op(p)
  <2> USE DEF Inv
  <2>1. CASE begin_op(p)
    BY <2>1, Zenon DEF begin_op, TypeOK, end_op
  <2>2. CASE sys_sync(p) \/ sync_check(p)
    BY <2>2, Zenon DEF sys_sync, sync_check, TypeOK, end_op, begin_op
  <2>3. CASE end_op(p)
    BY <2>3, WokenFacts, Zenon DEF end_op, TypeOK, begin_op
  <2> QED BY <2>1, <2>2, <2>3, Zenon
<1>6. \/ Active' = Active
      \/ p \notin Active /\ Active' = Active \cup {p}
      \/ p \in Active /\ Active' = Active \ {p}
  BY <1>5, Zenon DEF Active
<1> QED BY <1>2, <1>4, <1>6, Zenon

LEMMA WriteRefines ==
  ASSUME Inv, NEW p \in Procs, NEW b \in Blocks, NEW v \in Data, log_write(p, b, v)
  PROVE  p \in Active /\ Current' = [Current EXCEPT ![b] = v] /\ UNCHANGED <<Recovered, Active>>
<1>1. /\ p \in Active /\ cache' = [cache EXCEPT ![b] = v]
      /\ UNCHANGED <<home, dlog, dhead, step, by, pc>>
  BY Zenon DEF log_write, Active, diskVars, writerVars
<1>2. Recovered' = Recovered /\ Active' = Active
  BY <1>1, Zenon DEF Recovered, Active
<1>3. Booted /\ Booted'
  BY <1>1, Zenon DEF Booted, Inv, WriterSound
<1> QED BY <1>1, <1>2, <1>3, Zenon DEF Current

(* The first write_head() is the commit, and nothing else of commit() or    *)
(* of recovery can be seen from outside.                                    *)
LEMMA HeadRefines ==
  ASSUME Inv, Inv', write_head
  PROVE  Active = {} /\ Recovered' = Current /\ UNCHANGED <<Current, Active>>
<1>1. /\ step = "log" /\ tail = Len(lh) /\ dhead' = lh
      /\ UNCHANGED <<home, dlog, cache, lh, by, pc>>
  BY Zenon DEF write_head
<1>2. by # NoOne /\ Active = {} /\ Active' = Active /\ Booted /\ Booted'
  BY <1>1, Zenon DEF Inv, WriterSound, Active, Booted
<1>3. \A b \in Blocks : Recovered'[b] = cache[b]
  <2> TAKE b \in Blocks
  <2>1. CASE \E i \in 1..Len(lh) : lh[i] = b
    BY <1>1, <2>1, FoundNext DEF Found, Inv, DiskSound
  <2>2. CASE ~ \E i \in 1..Len(lh) : lh[i] = b
    BY <1>1, <1>2, <2>2, FoundNext DEF Found, Inv, DiskSound, Logged
  <2> QED BY <2>1, <2>2, Zenon
<1>4. Recovered' = cache
  BY <1>3, FoundNext, Zenon DEF Found, Inv, TypeOK
<1> QED BY <1>1, <1>2, <1>4, Zenon DEF Current

LEMMA WriterRefines ==
  ASSUME Inv, Inv', write_log \/ install_trans \/ clear_log \/ end_commit \/ read_head
  PROVE  UNCHANGED <<Recovered, Current, Active>>
<1> USE DEF Inv
<1>1. CASE write_log
  <2>1. UNCHANGED <<home, dhead, cache, step, by, pc>> /\ step = "log"
    BY <1>1, Zenon DEF write_log
  <2>2. Recovered = home /\ Recovered' = home'
    <3>1. dhead = <<>> /\ dhead' = <<>>
      BY <2>1, Zenon DEF DiskSound
    <3> QED BY <3>1, CleanNow, CleanNext, Zenon DEF Clean
  <2> QED BY <2>1, <2>2, Zenon DEF Active, Current, Booted
<1>2. CASE install_trans
  <2>1. /\ step = "install" /\ tail < Len(lh) /\ UNCHANGED <<dlog, dhead, step, by, pc, lh>>
        /\ home' = [home EXCEPT ![lh[tail + 1]] = dlog[tail + 1]]
        /\ cache' = [cache EXCEPT ![lh[tail + 1]] = dlog[tail + 1]]
    BY <1>2, Zenon DEF install_trans
  <2>2. dhead = lh /\ tail + 1 \in 1..Len(lh)
    BY <2>1, LengthFacts DEF DiskSound, TypeOK
  <2>3. \A b \in Blocks : Recovered'[b] = Recovered[b]
    <3> TAKE b \in Blocks
    <3>1. CASE \E i \in 1..Len(dhead) : dhead[i] = b
      BY <2>1, <3>1, FoundNow, FoundNext DEF Found
    <3>2. CASE ~ \E i \in 1..Len(dhead) : dhead[i] = b
      <4>1. home'[b] = home[b]
        BY <2>1, <2>2, <3>2, Zenon DEF TypeOK
      <4> QED BY <2>1, <3>2, <4>1, FoundNow, FoundNext, Zenon DEF Found
    <3> QED BY <3>1, <3>2, Zenon
  <2>4. Recovered' = Recovered
    BY <2>3, FoundNow, FoundNext, Zenon DEF Found
  <2>5. by # NoOne => cache' = cache
    BY <2>1, <2>2 DEF DiskSound, TypeOK
  <2> QED BY <2>1, <2>4, <2>5, Zenon DEF Active, Current, Booted
<1>3. CASE clear_log
  <2>1. /\ step = "install" /\ tail = Len(lh) /\ dhead' = <<>>
        /\ step' = IF by = NoOne THEN "up" ELSE "done"
        /\ UNCHANGED <<home, dlog, cache, by, pc>>
    BY <1>3, Zenon DEF clear_log
  <2>2. dhead = lh
    BY <2>1, Zenon DEF DiskSound
  <2>3. Recovered' = home'
    BY <2>1, CleanNext, Zenon DEF Clean
  <2>4. \A b \in Blocks : Recovered[b] = home[b]
    <3> TAKE b \in Blocks
    <3>1. CASE \E i \in 1..Len(dhead) : dhead[i] = b
      BY <2>1, <2>2, <3>1, FoundNow DEF Found, DiskSound
    <3>2. CASE ~ \E i \in 1..Len(dhead) : dhead[i] = b
      BY <3>2, FoundNow, Zenon DEF Found
    <3> QED BY <3>1, <3>2, Zenon
  <2>5. Recovered = home
    BY <2>4, FoundNow, Zenon DEF Found, TypeOK
  <2>6. by = NoOne => cache = home
    BY <2>1, Zenon DEF DiskSound, Booted
  <2>7. Booted' /\ (Booted <=> by # NoOne)
    BY <2>1, Zenon DEF Booted
  <2> QED BY <2>1, <2>3, <2>5, <2>6, <2>7, Zenon DEF Active, Current
<1>4. CASE end_commit
  <2>1. /\ step = "done" /\ step' = "up" /\ UNCHANGED <<home, dlog, dhead, cache>>
        /\ pc' = [[q \in Procs |-> Woken(q)] EXCEPT ![by] = "idle"]
    BY <1>4, Zenon DEF end_commit, diskVars
  <2>2. Active = {} /\ by \in Procs /\ Booted /\ Booted'
    BY <2>1, Zenon DEF WriterSound, TypeOK, Booted
  <2>3. Active' = {}
    BY <2>1, <2>2, WokenFacts, Zenon DEF Active
  <2>4. Recovered' = Recovered
    BY <2>1, Zenon DEF Recovered
  <2> QED BY <2>1, <2>2, <2>3, <2>4, Zenon DEF Current
<1>5. CASE read_head
  <2>1. step = "read" /\ step' = "install" /\ UNCHANGED <<home, dlog, dhead, cache, by, pc>>
    BY <1>5, Zenon DEF read_head, diskVars
  <2>2. Recovered' = Recovered /\ Active' = Active
    BY <2>1, Zenon DEF Recovered, Active
  <2>3. ~Booted /\ ~Booted'
    BY <2>1, Zenon DEF Booted, WriterSound
  <2> QED BY <2>2, <2>3, Zenon DEF Current
<1> QED BY <1>1, <1>2, <1>3, <1>4, <1>5, Zenon

LEMMA CrashRefines ==
  ASSUME Crash
  PROVE  Current' = Recovered /\ Active' = {} /\ Recovered' = Recovered
<1>1. /\ UNCHANGED <<home, dlog, dhead>> /\ step' = "read" /\ by' = NoOne
      /\ pc' = [p \in Procs |-> "idle"]
  BY Zenon DEF Crash, diskVars
<1>2. Recovered' = Recovered /\ ~Booted'
  BY <1>1, Zenon DEF Recovered, Booted
<1>3. Active' = {}
  BY <1>1, Zenon DEF Active
<1> QED BY <1>2, <1>3, Zenon DEF Current

LEMMA InitRefines == Init => Disk!Init
<1> SUFFICES ASSUME Init PROVE Disk!Init
  OBVIOUS
<1>1. Inv
  BY InitInv, Zenon
<1>2. dhead = <<>> /\ ~Booted /\ home \in [Blocks -> Data] /\ Active = {}
  BY Zenon DEF Init, Booted, Active
<1>3. Recovered = home
  BY <1>1, <1>2, CleanNow, Zenon DEF Inv, Clean
<1> QED BY <1>2, <1>3, Zenon DEF Disk!Init, Active

LEMMA StepRefines ==
  ASSUME Inv, Inv', [Next]_vars
  PROVE  [Disk!Next]_<<Recovered, IF Booted THEN cache ELSE Recovered, {p \in Procs : pc[p] = "op"}>>
<1> DEFINE mapped == <<Recovered, Current, Active>>
<1>1. ASSUME NEW p \in Procs, begin_op(p) \/ end_op(p) \/ sys_sync(p) \/ sync_check(p)
      PROVE  Disk!Begin(p) \/ Disk!End(p) \/ UNCHANGED mapped
  BY <1>1, CallRefines, Zenon DEF Disk!Begin, Disk!End, Current, Active
<1>2. ASSUME NEW p \in Procs, NEW b \in Blocks, NEW v \in Data, log_write(p, b, v)
      PROVE  Disk!Write(p, b, v)
  BY <1>2, WriteRefines, Zenon DEF Disk!Write, Current, Active
<1>3. CASE write_head
  BY <1>3, HeadRefines, Zenon DEF Disk!Commit, Disk!Next, Current, Active
<1>4. CASE write_log \/ install_trans \/ clear_log \/ end_commit \/ read_head
  BY <1>4, WriterRefines, Zenon DEF Current, Active
<1>5. CASE Crash
  BY <1>5, CrashRefines, Zenon DEF Disk!Crash, Disk!Next, Current, Active
<1>6. CASE UNCHANGED vars
  BY <1>6, Zenon DEF vars, Recovered, Booted
<1> QED BY <1>1, <1>2, <1>3, <1>4, <1>5, <1>6, Zenon DEF Next, Call, Writer, Disk!Next, Current, Active

(* Transactions are atomic: through crashes at any point of commit() and of *)
(* recovery, a reboot finds all the writes of the calls between two commits *)
(* or none, and no commit takes in a call that has not ended.               *)
THEOREM LogIsAtomic == Spec => Atomic
<1>1. Inv /\ Inv' /\ [Next]_vars =>
        [Disk!Next]_<<Recovered, IF Booted THEN cache ELSE Recovered, {p \in Procs : pc[p] = "op"}>>
  BY StepRefines, Zenon
<1> QED BY <1>1, InitRefines, LogInvariant, PTL DEF Spec, Atomic, Disk!Spec
=============================================================================
