---------------------------- MODULE BcacheProofs ----------------------------
(***************************************************************************)
(* The buffer cache of bio.c is sound for any number of processes, blocks, *)
(* values and buffers.                                                     *)
(*                                                                         *)
(* The invariant says who holds which buffer, that the list still holds    *)
(* every buffer, and where the latest contents of a block are: on the disk *)
(* unless its buffer is pinned or is being changed, and in its buffer when *)
(* that is valid.                                                          *)
(***************************************************************************)
EXTENDS Bcache, TLAPS, FiniteSetTheorems, WellFoundedInduction

Users(b) == {p \in Procs : buf[p] = b}
Pins(b) == IF b \in pinned THEN 1 ELSE 0
Holding == {"fill", "use", "dirty", "unpin"}

(* The reference counts, as CountsMatch says.                               *)
Counted == \A b \in Bufs : refcnt[b] = Cardinality(Users(b)) + Pins(b)

(* The list of bcache.head holds every buffer.                              *)
ListSound == \A b \in Bufs : \E i \in 1..NBUF : lru[i] = b

(* A process past bget() has a buffer with a block in it, and the sleep     *)
(* lock when acquiresleep() has returned.                                   *)
HoldersSound ==
  /\ \A p \in Procs : IF pc[p] = "idle" THEN buf[p] = 0
                      ELSE buf[p] \in Bufs /\ blockno[buf[p]] \in Blocks
  /\ \A p \in Procs : pc[p] \in Holding => locked[buf[p]] = p
  /\ \A p \in Procs, b \in Bufs : locked[b] = p => buf[p] = b /\ pc[p] \in Holding
  /\ SleepersHaveReason

(* No block has two buffers.                                                *)
BlocksSound ==
  \A b, c \in Bufs : blockno[b] = blockno[c] /\ blockno[b] \in Blocks => b = c

(* Somebody has changed buffer b and neither written nor pinned it yet.     *)
Dirty(b) == \E p \in Procs : buf[p] = b /\ pc[p] = "dirty"

(* Where the latest contents of each block are.                             *)
ContentsSound ==
  /\ \A p \in Procs : pc[p] \in {"use", "dirty", "unpin"} => valid[buf[p]] = 1
  /\ \A b \in Bufs : valid[b] = 1 => blockno[b] \in Blocks /\ data[b] = latest[blockno[b]]
  /\ \A b \in pinned : valid[b] = 1
  /\ \A p \in Procs : pc[p] = "dirty" => buf[p] \notin pinned
  /\ \A p \in Procs : pc[p] = "unpin" =>
        /\ buf[p] \in pinned
        /\ disk[blockno[buf[p]]] = latest[blockno[buf[p]]]
  /\ \A k \in Blocks :
        \/ disk[k] = latest[k]
        \/ \E b \in Bufs : blockno[b] = k /\ (b \in pinned \/ Dirty(b))

Inv ==
  /\ TypeOK /\ Counted
  /\ ListSound /\ HoldersSound /\ BlocksSound /\ ContentsSound
-----------------------------------------------------------------------------
(* Facts about the operators.                                               *)
LEMMA UsersFacts ==
  ASSUME NEW b
  PROVE  /\ IsFiniteSet(Users(b)) /\ Cardinality(Users(b)) \in Nat
         /\ Cardinality(Users(b)) <= Cardinality(Procs) /\ Cardinality(Procs) \in Nat
         /\ Cardinality(Users(b)) = 0 <=> Users(b) = {}
<1>1. Users(b) \in SUBSET Procs
  BY Zenon DEF Users
<1>2. IsFiniteSet(Users(b)) /\ Cardinality(Users(b)) <= Cardinality(Procs)
  BY <1>1, ProcsAssumption, FS_Subset, Zenon
<1> QED BY <1>2, ProcsAssumption, FS_CardinalityType, FS_EmptySet, Zenon

(* bget() finds the unused buffer that comes last in the list.              *)
LEMMA VictimFacts ==
  ASSUME Inv, Unused # {}
  PROVE  Victim \in Bufs /\ refcnt[Victim] = 0
<1> DEFINE at == {i \in 1..NBUF : lru[i] \in Unused}
           T == {n \in Nat : \E i \in at : n = NBUF - i}
<1>1. at # {}
  BY Zenon DEF Inv, ListSound, Unused
<1>2. T \subseteq Nat /\ T # {}
  BY <1>1, NbufAssumption
<1>3. PICK n \in T : \A m \in T : ~ (<<m, n>> \in OpToRel(<, Nat))
  BY <1>2, NatLessThanWellFounded, WFMin, Zenon
<1>4. \A m \in T : n <= m
  <2> TAKE m \in T
  <2>1. m \in Nat /\ n \in Nat
    BY <1>3, Zenon
  <2>2. m < n => <<m, n>> \in OpToRel(<, Nat)
    BY <2>1, Zenon DEF OpToRel
  <2>3. ~ (m < n)
    BY <1>3, <2>2, Zenon
  <2> QED BY <2>1, <2>3
<1>5. PICK i \in at : n = NBUF - i
  BY <1>3, Zenon
<1>6. \A j \in (i + 1)..NBUF : lru[j] \notin Unused
  BY <1>4, <1>5, NbufAssumption
<1>7. \E j \in 1..NBUF : lru[j] \in Unused /\ \A h \in (j + 1)..NBUF : lru[h] \notin Unused
  BY <1>5, <1>6, Zenon
<1>8. Victim \in Unused
  BY <1>7, Zenon DEF Victim
<1> QED BY <1>8, Zenon DEF Unused

(* brelse() keeps every buffer in the list.                                 *)
LEMMA ToHeadFacts ==
  ASSUME Inv, NEW b \in Bufs
  PROVE  /\ ToHead(b) \in [1..NBUF -> Bufs]
         /\ \A c \in Bufs : \E i \in 1..NBUF : ToHead(b)[i] = c
<1> DEFINE at == CHOOSE i \in 1..NBUF : lru[i] = b
<1>1. at \in 1..NBUF /\ lru[at] = b
  BY Zenon DEF Inv, ListSound
<1> HIDE DEF at
<1>2. ToHead(b) = [i \in 1..NBUF |-> IF i = 1 THEN b ELSE IF i <= at THEN lru[i - 1] ELSE lru[i]]
  BY Zenon DEF ToHead, at
<1>3. lru \in [1..NBUF -> Bufs]
  BY DEF Inv, TypeOK
<1>4. ToHead(b) \in [1..NBUF -> Bufs]
  BY <1>1, <1>2, <1>3, NbufAssumption
<1>5. ASSUME NEW c \in Bufs PROVE \E i \in 1..NBUF : ToHead(b)[i] = c
  <2>1. PICK j \in 1..NBUF : lru[j] = c
    BY DEF Inv, ListSound
  <2>2. CASE j = at
    <3>1. 1 \in 1..NBUF /\ ToHead(b)[1] = c
      BY <1>1, <1>2, <2>1, <2>2, NbufAssumption
    <3> QED BY <3>1, Zenon
  <2>3. CASE j < at
    <3>1. j + 1 \in 1..NBUF /\ ToHead(b)[j + 1] = c
      BY <1>1, <1>2, <2>1, <2>3, NbufAssumption
    <3> QED BY <3>1, Zenon
  <2>4. CASE j > at
    <3>1. ToHead(b)[j] = c
      BY <1>1, <1>2, <2>1, <2>4, NbufAssumption
    <3> QED BY <2>1, <3>1, Zenon
  <2> QED BY <1>1, <2>1, <2>2, <2>3, <2>4, NbufAssumption
<1> QED BY <1>4, <1>5, Zenon

(* The counts keep refcnt in its type.                                      *)
LEMMA CountsType ==
  ASSUME Counted, NEW b \in Bufs
  PROVE  refcnt[b] \in 0..(Cardinality(Procs) + 1)
<1>1. refcnt[b] = Cardinality(Users(b)) + Pins(b)
  BY Zenon DEF Counted
<1>2. Pins(b) \in 0..1
  BY DEF Pins
<1> QED BY <1>1, <1>2, UsersFacts

CountsInType == \A b \in Bufs : refcnt[b] \in 0..(Cardinality(Procs) + 1)

LEMMA CountedType == Counted => CountsInType
BY CountsType, Zenon DEF CountsInType

LEMMA CountedTypeNext == Counted' => CountsInType'
BY CountedType, PTL

(* bget() adds a user of the buffer it returns, and brelse() takes it away. *)
LEMMA UserAdded ==
  ASSUME Inv, NEW p \in Procs, NEW b \in Bufs, pc[p] = "idle", buf' = [buf EXCEPT ![p] = b]
  PROVE  /\ Cardinality(Users(b)') = Cardinality(Users(b)) + 1
         /\ \A c \in Bufs \ {b} : Users(c)' = Users(c)
<1>1. buf \in [Procs -> Bufs \cup {0}] /\ buf[p] = 0 /\ 0 \notin Bufs
  BY NbufAssumption DEF Inv, TypeOK, HoldersSound, Bufs
<1>2. Users(b)' = Users(b) \cup {p} /\ p \notin Users(b)
  BY <1>1, Zenon DEF Users
<1>3. \A c \in Bufs \ {b} : Users(c)' = Users(c)
  BY <1>1, Zenon DEF Users
<1> QED BY <1>2, <1>3, UsersFacts, FS_AddElement, Zenon

LEMMA UserRemoved ==
  ASSUME Inv, NEW p \in Procs, NEW b \in Bufs, buf[p] = b, buf' = [buf EXCEPT ![p] = 0]
  PROVE  /\ Cardinality(Users(b)') = Cardinality(Users(b)) - 1
         /\ \A c \in Bufs \ {b} : Users(c)' = Users(c)
<1>1. buf \in [Procs -> Bufs \cup {0}] /\ 0 \notin Bufs
  BY NbufAssumption DEF Inv, TypeOK, Bufs
<1>2. Users(b)' = Users(b) \ {p} /\ p \in Users(b)
  BY <1>1, Zenon DEF Users
<1>3. \A c \in Bufs \ {b} : Users(c)' = Users(c)
  BY <1>1, Zenon DEF Users
<1> QED BY <1>2, <1>3, UsersFacts, FS_RemoveElement, ZenonT(40)

-----------------------------------------------------------------------------
(* bget().                                                                  *)
LEMMA HitInv ==
  ASSUME Inv, NEW p \in Procs, NEW k \in Blocks, bgetHit(p, k)
  PROVE  Inv'
<1> USE DEF Inv
<1>1. PICK b \in Bufs : /\ blockno[b] = k /\ refcnt' = [refcnt EXCEPT ![b] = @ + 1]
                        /\ buf' = [buf EXCEPT ![p] = b]
  BY Zenon DEF bgetHit, Cached
<1>2. /\ pc[p] = "idle" /\ pc' = [pc EXCEPT ![p] = "lock"]
      /\ UNCHANGED <<blockno, valid, data, locked, pinned, lru, disk, latest, panic>>
  BY Zenon DEF bgetHit, Goto
<1>3. /\ pc'[p] = "lock" /\ buf'[p] = b /\ buf[p] = 0 /\ b # 0
      /\ \A q \in Procs \ {p} : pc'[q] = pc[q] /\ buf'[q] = buf[q]
      /\ refcnt'[b] = refcnt[b] + 1 /\ \A c \in Bufs \ {b} : refcnt'[c] = refcnt[c]
  BY <1>1, <1>2, NbufAssumption DEF TypeOK, HoldersSound, Bufs
<1>4. Counted'
  <2>1. \A c : Pins(c)' = Pins(c) /\ Pins(c) \in Nat
    BY <1>2, Zenon DEF Pins
  <2>2. refcnt'[b] = Cardinality(Users(b)') + Pins(b)'
    <3>1. Cardinality(Users(b)') = Cardinality(Users(b)) + 1
      BY <1>1, <1>2, UserAdded, Zenon
    <3>2. refcnt[b] = Cardinality(Users(b)) + Pins(b) /\ Cardinality(Users(b)) \in Nat
      BY UsersFacts, Zenon DEF Counted
    <3> QED BY <1>3, <2>1, <3>1, <3>2
  <2>3. \A c \in Bufs \ {b} : refcnt'[c] = Cardinality(Users(c)') + Pins(c)'
    BY <1>1, <1>2, <1>3, <2>1, UserAdded, Zenon DEF Counted
  <2> QED BY <2>2, <2>3, Zenon DEF Counted
<1>5. TypeOK'
  <2>1. \A c \in Bufs : refcnt'[c] \in 0..(Cardinality(Procs) + 1)
    BY <1>4, CountedTypeNext, Zenon DEF CountsInType
  <2>2. refcnt' \in [Bufs -> 0..(Cardinality(Procs) + 1)]
    BY <1>1, <2>1, Zenon DEF TypeOK
  <2> QED BY <1>1, <1>2, <2>2, Zenon DEF TypeOK
<1>6. ListSound' /\ BlocksSound'
  BY <1>2, Zenon DEF ListSound, BlocksSound
<1>7. HoldersSound'
  BY <1>1, <1>2, <1>3 DEF HoldersSound, SleepersHaveReason, Holding
<1>8. ContentsSound'
  <2>1. \A c \in Bufs : Dirty(c)' <=> Dirty(c)
    BY <1>2, <1>3, Zenon DEF Dirty
  <2> QED BY <1>2, <1>3, <2>1 DEF ContentsSound
<1> QED BY <1>4, <1>5, <1>6, <1>7, <1>8, Zenon

(* A buffer that nobody uses and that is not pinned holds nothing that the  *)
(* disk does not.                                                           *)
LEMMA MissInv ==
  ASSUME Inv, NEW p \in Procs, NEW k \in Blocks, bgetMiss(p, k)
  PROVE  Inv'
<1> USE DEF Inv
<1>0. PICK b : b = Victim
  BY Zenon
<1>1. /\ pc[p] = "idle" /\ pc' = [pc EXCEPT ![p] = "lock"] /\ Cached(k) = {} /\ Unused # {}
      /\ blockno' = [blockno EXCEPT ![b] = k] /\ valid' = [valid EXCEPT ![b] = 0]
      /\ refcnt' = [refcnt EXCEPT ![b] = 1] /\ buf' = [buf EXCEPT ![p] = b]
      /\ UNCHANGED <<data, locked, pinned, lru, disk, latest, panic>>
  BY <1>0, Zenon DEF bgetMiss, Goto
<1>2. b \in Bufs /\ refcnt[b] = 0
  BY <1>0, <1>1, VictimFacts, Zenon
<1>3. b \notin pinned /\ Cardinality(Users(b)) = 0 /\ Users(b) = {}
  BY <1>2, UsersFacts DEF Counted, Pins
<1>4. /\ pc'[p] = "lock" /\ buf'[p] = b /\ buf[p] = 0 /\ b # 0
      /\ \A q \in Procs \ {p} : pc'[q] = pc[q] /\ buf'[q] = buf[q] /\ buf[q] # b
      /\ refcnt'[b] = 1 /\ blockno'[b] = k /\ valid'[b] = 0
      /\ \A c \in Bufs \ {b} : refcnt'[c] = refcnt[c] /\ blockno'[c] = blockno[c] /\ valid'[c] = valid[c]
  BY <1>1, <1>2, <1>3, NbufAssumption DEF TypeOK, HoldersSound, Bufs, Users
<1>5. Counted'
  <2>1. \A c : Pins(c)' = Pins(c) /\ Pins(c) \in Nat
    BY <1>1, Zenon DEF Pins
  <2>2. refcnt'[b] = Cardinality(Users(b)') + Pins(b)'
    <3>1. Cardinality(Users(b)') = 0 + 1
      BY <1>1, <1>2, <1>3, UserAdded, Zenon
    <3>2. Pins(b)' = 0
      BY <1>1, <1>3, Zenon DEF Pins
    <3> QED BY <1>4, <3>1, <3>2
  <2>3. \A c \in Bufs \ {b} : refcnt'[c] = Cardinality(Users(c)') + Pins(c)'
    BY <1>1, <1>2, <1>4, <2>1, UserAdded, ZenonT(40) DEF Counted
  <2> QED BY <2>2, <2>3, Zenon DEF Counted
<1>6. TypeOK'
  <2>1. \A c \in Bufs : refcnt'[c] \in 0..(Cardinality(Procs) + 1)
    BY <1>5, CountedTypeNext, Zenon DEF CountsInType
  <2>2. refcnt' \in [Bufs -> 0..(Cardinality(Procs) + 1)]
    BY <1>1, <2>1, Zenon DEF TypeOK
  <2> QED BY <1>1, <1>2, <2>2 DEF TypeOK
<1>7. ListSound'
  BY <1>1, Zenon DEF ListSound
<1>8. BlocksSound'
  BY <1>1, <1>2, <1>4 DEF BlocksSound, Cached
<1>9. HoldersSound'
  BY <1>1, <1>2, <1>4 DEF HoldersSound, SleepersHaveReason, Holding
<1>10. ContentsSound'
  <2>1. \A c \in Bufs \ {b} : Dirty(c)' <=> Dirty(c)
    BY <1>1, <1>4 DEF Dirty
  <2>2. ~Dirty(b)
    BY <1>3, Zenon DEF Dirty, Users
  <2>3. \A j \in Blocks : \/ disk[j] = latest[j]
                          \/ \E c \in Bufs : blockno'[c] = j /\ (c \in pinned \/ Dirty(c)')
    BY <1>3, <1>4, <2>1, <2>2 DEF ContentsSound
  <2>4. \A c \in Bufs : valid'[c] = 1 => blockno'[c] \in Blocks /\ data[c] = latest[blockno'[c]]
    BY <1>4 DEF ContentsSound
  <2>5. \A q \in Procs : pc'[q] \in {"use", "dirty", "unpin"} => q # p /\ buf[q] \in Bufs \ {b}
    BY <1>4, Zenon DEF HoldersSound
  <2>6. \A c \in pinned : c \in Bufs \ {b}
    BY <1>3, Zenon DEF TypeOK
  <2> QED BY <1>1, <1>4, <2>3, <2>4, <2>5, <2>6 DEF ContentsSound
<1> QED BY <1>5, <1>6, <1>7, <1>8, <1>9, <1>10, Zenon

LEMMA SameCounts ==
  ASSUME Inv, UNCHANGED <<buf, pinned, refcnt>>
  PROVE  Counted'
BY Zenon DEF Inv, Counted, Users, Pins

(* bget() panics: the buffers are left as they are.                         *)
LEMMA SameInv ==
  ASSUME Inv, UNCHANGED <<bvars, disk, latest, pc, buf>>, panic' \in {"no", "yes"}
  PROVE  Inv'
<1> USE DEF Inv
<1>1. UNCHANGED <<blockno, valid, refcnt, data, locked, pinned, lru, disk, latest, pc, buf>>
  BY Zenon DEF bvars
<1>2. Counted' /\ TypeOK'
  BY <1>1, SameCounts, Zenon DEF TypeOK
<1>3. ListSound' /\ BlocksSound'
  BY <1>1, Zenon DEF ListSound, BlocksSound
<1>4. HoldersSound'
  BY <1>1, Zenon DEF HoldersSound, SleepersHaveReason
<1>5. ContentsSound'
  BY <1>1 DEF ContentsSound, Dirty
<1> QED BY <1>2, <1>3, <1>4, <1>5, Zenon

-----------------------------------------------------------------------------
(* Two processes that hold sleep locks hold those of different buffers, for *)
(* different blocks.                                                        *)
LEMMA HoldersApart ==
  ASSUME Inv, NEW p \in Procs, pc[p] \in Holding
  PROVE  /\ buf[p] \in Bufs /\ blockno[buf[p]] \in Blocks /\ locked[buf[p]] = p
         /\ \A q \in Procs \ {p} :
              pc[q] \in Holding => /\ buf[q] \in Bufs \ {buf[p]}
                                   /\ blockno[buf[q]] \in Blocks \ {blockno[buf[p]]}
         /\ \A c \in Bufs \ {buf[p]} : blockno[c] # blockno[buf[p]]
         /\ Dirty(buf[p]) <=> pc[p] = "dirty"
<1> USE DEF Inv
<1>1. \A q \in Procs : pc[q] \in Holding =>
         buf[q] \in Bufs /\ blockno[buf[q]] \in Blocks /\ locked[buf[q]] = q
  BY Zenon DEF HoldersSound, Holding
<1>2. \A c \in Bufs \ {buf[p]} : blockno[c] # blockno[buf[p]]
  BY <1>1, Zenon DEF BlocksSound
<1>3. \A q \in Procs \ {p} : pc[q] \in Holding => buf[q] # buf[p]
  BY <1>1, Zenon
<1>4. "dirty" \in Holding
  BY Zenon DEF Holding
<1>5. Dirty(buf[p]) <=> pc[p] = "dirty"
  BY <1>3, <1>4, Zenon DEF Dirty
<1> QED BY <1>1, <1>2, <1>3, <1>5, Zenon

LEMMA AcquireInv ==
  ASSUME Inv, NEW p \in Procs, acquiresleep(p)
  PROVE  Inv'
<1> USE DEF Inv
<1>1. /\ pc[p] = "lock"
      /\ UNCHANGED <<blockno, valid, refcnt, data, pinned, lru, disk, latest, buf, panic>>
      /\ \/ /\ locked[buf[p]] = None /\ locked' = [locked EXCEPT ![buf[p]] = p]
            /\ pc' = [pc EXCEPT ![p] = "fill"]
         \/ /\ locked[buf[p]] # None /\ locked' = locked /\ pc' = [pc EXCEPT ![p] = "asleep"]
  BY Zenon DEF acquiresleep, Goto
<1>2. buf[p] \in Bufs /\ blockno[buf[p]] \in Blocks
  BY <1>1, Zenon DEF HoldersSound
<1>3. pc'[p] \in {"fill", "asleep"} /\ \A q \in Procs \ {p} : pc'[q] = pc[q]
  BY <1>1, Zenon DEF TypeOK
<1>4. Counted' /\ ListSound' /\ BlocksSound'
  BY <1>1, SameCounts, Zenon DEF ListSound, BlocksSound
<1>5. TypeOK'
  <2>1. locked' \in [Bufs -> Procs \cup {None}]
    BY <1>1 DEF TypeOK
  <2>2. pc' \in [Procs -> {"idle", "lock", "asleep", "fill", "use", "dirty", "unpin", "release"}]
    BY <1>1, Zenon DEF TypeOK
  <2> QED BY <1>1, <2>1, <2>2, Zenon DEF TypeOK
<1>6. HoldersSound'
  <2>1. \A q \in Procs : IF pc'[q] = "idle" THEN buf'[q] = 0
                         ELSE buf'[q] \in Bufs /\ blockno'[buf'[q]] \in Blocks
    BY <1>1, <1>2, <1>3, Zenon DEF HoldersSound
  <2>2. CASE locked[buf[p]] = None
    <3>1. /\ locked'[buf[p]] = p /\ \A c \in Bufs \ {buf[p]} : locked'[c] = locked[c]
          /\ pc'[p] = "fill" /\ p # None
      BY <1>1, <1>2, <2>2, ProcsAssumption, Zenon DEF TypeOK
    <3>2. \A q \in Procs \ {p} : pc[q] \in Holding => buf[q] \in Bufs \ {buf[p]}
      BY <2>2, ProcsAssumption DEF HoldersSound, Holding
    <3>3. \A q \in Procs : pc'[q] = "asleep" => locked'[buf'[q]] # None
      BY <1>1, <1>3, <3>1 DEF HoldersSound, SleepersHaveReason
    <3>4. \A q \in Procs : pc'[q] \in Holding => locked'[buf'[q]] = q
      BY <1>1, <1>3, <3>1, <3>2, Zenon DEF HoldersSound, Holding
    <3>5. \A q \in Procs, c \in Bufs : locked'[c] = q => buf'[q] = c /\ pc'[q] \in Holding
      BY <1>1, <1>3, <3>1 DEF HoldersSound, Holding
    <3> QED BY <2>1, <3>3, <3>4, <3>5, Zenon DEF HoldersSound, SleepersHaveReason
  <2>3. CASE locked[buf[p]] # None
    <3>1. locked' = locked /\ pc'[p] = "asleep"
      BY <1>1, <2>3, Zenon DEF TypeOK
    <3> QED BY <1>1, <1>3, <2>1, <2>3, <3>1 DEF HoldersSound, SleepersHaveReason, Holding
  <2> QED BY <2>2, <2>3, Zenon
<1>7. ContentsSound'
  <2>1. \A c \in Bufs : Dirty(c)' <=> Dirty(c)
    BY <1>1, <1>3, Zenon DEF Dirty
  <2> QED BY <1>1, <1>3, <2>1 DEF ContentsSound
<1> QED BY <1>4, <1>5, <1>6, <1>7, Zenon

(* The disk holds the latest contents of a block whose buffer is locked and *)
(* not valid.                                                               *)
LEMMA BreadInv ==
  ASSUME Inv, NEW p \in Procs, bread(p)
  PROVE  Inv'
<1> USE DEF Inv
<1>0. PICK b : b = buf[p]
  BY Zenon
<1>1. /\ pc[p] = "fill" /\ pc' = [pc EXCEPT ![p] = "use"]
      /\ data' = IF valid[b] = 1 THEN data ELSE [data EXCEPT ![b] = disk[blockno[b]]]
      /\ valid' = [valid EXCEPT ![b] = 1]
      /\ UNCHANGED <<blockno, refcnt, locked, pinned, lru, disk, latest, buf, panic>>
  BY <1>0, Zenon DEF bread, Goto
<1>2. /\ b \in Bufs /\ blockno[b] \in Blocks /\ ~Dirty(b)
      /\ \A c \in Bufs \ {b} : blockno[c] # blockno[b]
  BY <1>0, <1>1, HoldersApart, Zenon DEF Holding
<1>3. /\ pc'[p] = "use" /\ \A q \in Procs \ {p} : pc'[q] = pc[q]
      /\ valid'[b] = 1 /\ \A c \in Bufs \ {b} : valid'[c] = valid[c] /\ data'[c] = data[c]
  BY <1>1, <1>2, Zenon DEF TypeOK
<1>4. data'[b] = latest[blockno[b]]
  <2>1. CASE valid[b] = 1
    BY <1>1, <1>2, <2>1, Zenon DEF ContentsSound
  <2>2. CASE valid[b] # 1
    <3>1. disk[blockno[b]] = latest[blockno[b]]
      BY <1>2, <2>2 DEF ContentsSound
    <3> QED BY <1>1, <1>2, <2>2, <3>1, Zenon DEF TypeOK
  <2> QED BY <2>1, <2>2, Zenon
<1>5. Counted' /\ ListSound' /\ BlocksSound'
  BY <1>1, SameCounts, Zenon DEF ListSound, BlocksSound
<1>6. TypeOK'
  BY <1>1, <1>2 DEF TypeOK
<1>7. HoldersSound'
  BY <1>1, <1>3 DEF HoldersSound, SleepersHaveReason, Holding
<1>8. ContentsSound'
  <2>1. \A c \in Bufs : Dirty(c)' <=> Dirty(c)
    BY <1>1, <1>3, Zenon DEF Dirty
  <2>2. \A c \in Bufs : valid[c] = 1 => valid'[c] = 1
    BY <1>3, Zenon
  <2>3. \A c \in Bufs : valid'[c] = 1 => blockno[c] \in Blocks /\ data'[c] = latest[blockno[c]]
    BY <1>2, <1>3, <1>4 DEF ContentsSound
  <2>4. \A q \in Procs : pc'[q] \in {"use", "dirty", "unpin"} => valid'[buf[q]] = 1
    BY <1>0, <1>3, <2>2, Zenon DEF ContentsSound, HoldersSound
  <2>5. \A c \in pinned : valid'[c] = 1
    BY <2>2, Zenon DEF ContentsSound, TypeOK
  <2> QED BY <1>1, <1>3, <2>1, <2>3, <2>4, <2>5 DEF ContentsSound
<1> QED BY <1>5, <1>6, <1>7, <1>8, Zenon

LEMMA ChangeInv ==
  ASSUME Inv, NEW p \in Procs, NEW v \in Values, Change(p, v)
  PROVE  Inv'
<1> USE DEF Inv
<1>0. PICK b, k : b = buf[p] /\ k = blockno[b]
  BY Zenon
<1>1. /\ pc[p] = "use" /\ pc' = [pc EXCEPT ![p] = IF b \in pinned THEN "use" ELSE "dirty"]
      /\ data' = [data EXCEPT ![b] = v] /\ latest' = [latest EXCEPT ![k] = v]
      /\ UNCHANGED <<blockno, valid, refcnt, locked, pinned, lru, disk, buf, panic>>
  BY <1>0, Zenon DEF Change, Goto
<1>2. /\ b \in Bufs /\ k \in Blocks
      /\ \A c \in Bufs \ {b} : blockno[c] # k
      /\ \A q \in Procs \ {p} : pc[q] \in Holding => buf[q] \in Bufs \ {b} /\ blockno[buf[q]] \in Blocks \ {k}
  BY <1>0, <1>1, HoldersApart, Zenon DEF Holding
<1>3. /\ pc'[p] \in {"use", "dirty"} /\ (b \notin pinned <=> pc'[p] = "dirty")
      /\ \A q \in Procs \ {p} : pc'[q] = pc[q]
      /\ data'[b] = v /\ \A c \in Bufs \ {b} : data'[c] = data[c]
      /\ latest'[k] = v /\ \A j \in Blocks \ {k} : latest'[j] = latest[j]
  BY <1>1, <1>2, Zenon DEF TypeOK
<1>4. Counted' /\ ListSound' /\ BlocksSound'
  BY <1>1, SameCounts, Zenon DEF ListSound, BlocksSound
<1>5. TypeOK'
  BY <1>1, <1>2, Zenon DEF TypeOK
<1>6. HoldersSound'
  BY <1>1, <1>3 DEF HoldersSound, SleepersHaveReason, Holding
<1>7. ContentsSound'
  <2>1. \A c \in Bufs : Dirty(c) => Dirty(c)'
    BY <1>1, <1>3, Zenon DEF Dirty
  <2>2. \A c \in Bufs : valid[c] = 1 => blockno[c] \in Blocks /\ data'[c] = latest'[blockno[c]]
    BY <1>0, <1>2, <1>3 DEF ContentsSound
  <2>3. b \in pinned \/ Dirty(b)'
    BY <1>0, <1>1, <1>3, Zenon DEF Dirty
  <2>4. \A j \in Blocks : \/ disk[j] = latest'[j]
                          \/ \E c \in Bufs : blockno[c] = j /\ (c \in pinned \/ Dirty(c)')
    BY <1>0, <1>2, <1>3, <2>1, <2>3 DEF ContentsSound
  <2>5. \A q \in Procs : pc'[q] = "unpin" =>
           buf[q] \in pinned /\ disk[blockno[buf[q]]] = latest'[blockno[buf[q]]]
    BY <1>2, <1>3 DEF ContentsSound, Holding
  <2>6. \A q \in Procs : pc'[q] = "dirty" => buf[q] \notin pinned
    BY <1>0, <1>3, Zenon DEF ContentsSound
  <2>7. \A q \in Procs : pc'[q] \in {"use", "dirty", "unpin"} => valid[buf[q]] = 1
    BY <1>1, <1>3, Zenon DEF ContentsSound
  <2> QED BY <1>1, <2>2, <2>4, <2>5, <2>6, <2>7 DEF ContentsSound
<1> QED BY <1>4, <1>5, <1>6, <1>7, Zenon

LEMMA BwriteInv ==
  ASSUME Inv, NEW p \in Procs, bwrite(p)
  PROVE  Inv'
<1> USE DEF Inv
<1>0. PICK b, k : b = buf[p] /\ k = blockno[b]
  BY Zenon
<1>1. /\ \/ pc[p] = "dirty" /\ pc' = [pc EXCEPT ![p] = "use"]
         \/ pc[p] = "use" /\ b \in pinned /\ pc' = [pc EXCEPT ![p] = "unpin"]
      /\ disk' = [disk EXCEPT ![k] = data[b]]
      /\ UNCHANGED <<blockno, valid, refcnt, data, locked, pinned, lru, latest, buf, panic>>
  BY <1>0, Zenon DEF bwrite, Goto, bvars
<1>2. b \in Bufs /\ k \in Blocks /\ \A c \in Bufs \ {b} : blockno[c] # k
  BY <1>0, <1>1, HoldersApart, Zenon DEF Holding
<1>3. /\ pc[p] \in {"use", "dirty"} /\ pc'[p] \in {"use", "unpin"} /\ (pc'[p] = "unpin" => b \in pinned)
      /\ \A q \in Procs \ {p} : pc'[q] = pc[q]
      /\ disk'[k] = data[b] /\ \A j \in Blocks \ {k} : disk'[j] = disk[j]
  BY <1>1, <1>2, Zenon DEF TypeOK
<1>4. Counted' /\ ListSound' /\ BlocksSound'
  BY <1>1, SameCounts, Zenon DEF ListSound, BlocksSound
<1>5. TypeOK'
  BY <1>1, <1>2, Zenon DEF TypeOK
<1>6. HoldersSound'
  BY <1>1, <1>3 DEF HoldersSound, SleepersHaveReason, Holding
<1>7. ContentsSound'
  <2>1. disk'[k] = latest[k]
    BY <1>0, <1>2, <1>3 DEF ContentsSound
  <2>2. \A c \in Bufs \ {b} : Dirty(c) => Dirty(c)'
    BY <1>0, <1>1, <1>3 DEF Dirty
  <2>3. \A j \in Blocks : \/ disk'[j] = latest[j]
                          \/ \E c \in Bufs : blockno[c] = j /\ (c \in pinned \/ Dirty(c)')
    BY <1>0, <1>3, <2>1, <2>2 DEF ContentsSound
  <2>4. \A q \in Procs : pc'[q] = "unpin" =>
           buf[q] \in pinned /\ disk'[blockno[buf[q]]] = latest[blockno[buf[q]]]
    BY <1>0, <1>3, <2>1 DEF ContentsSound, HoldersSound
  <2>5. \A q \in Procs : /\ pc'[q] = "dirty" => buf[q] \notin pinned
                         /\ pc'[q] \in {"use", "dirty", "unpin"} => valid[buf[q]] = 1
    BY <1>3 DEF ContentsSound
  <2> QED BY <1>1, <2>3, <2>4, <2>5 DEF ContentsSound
<1> QED BY <1>4, <1>5, <1>6, <1>7, Zenon

(* A pin is a reference, and pinned blocks need not be on the disk.         *)
LEMMA BpinInv ==
  ASSUME Inv, NEW p \in Procs, bpin(p)
  PROVE  Inv'
<1> USE DEF Inv
<1>0. PICK b : b = buf[p]
  OBVIOUS
<1>1. /\ pc[p] = "dirty" /\ pc' = [pc EXCEPT ![p] = "use"]
      /\ refcnt' = [refcnt EXCEPT ![b] = @ + 1] /\ pinned' = pinned \cup {b}
      /\ UNCHANGED <<blockno, valid, data, locked, lru, disk, latest, buf, panic>>
  BY <1>0, Zenon DEF bpin, Goto
<1>2. /\ b \in Bufs /\ b \notin pinned
      /\ \A q \in Procs \ {p} : pc[q] \in Holding => buf[q] # b
  BY <1>0, <1>1, HoldersApart, Zenon DEF Holding, ContentsSound
<1>3. /\ pc'[p] = "use" /\ \A q \in Procs \ {p} : pc'[q] = pc[q]
      /\ refcnt'[b] = refcnt[b] + 1 /\ \A c \in Bufs \ {b} : refcnt'[c] = refcnt[c]
  BY <1>1, <1>2, Zenon DEF TypeOK
<1>4. Counted'
  <2>1. \A c : Users(c)' = Users(c)
    BY <1>1, Zenon DEF Users
  <2>2. Pins(b) = 0 /\ Pins(b)' = 1 /\ \A c \in Bufs \ {b} : Pins(c)' = Pins(c)
    BY <1>1, <1>2, Zenon DEF Pins
  <2>3. refcnt'[b] = Cardinality(Users(b)) + Pins(b)'
    BY <1>2, <1>3, <2>2, UsersFacts DEF Counted
  <2>4. \A c \in Bufs \ {b} : refcnt'[c] = Cardinality(Users(c)) + Pins(c)'
    BY <1>3, <2>2, Zenon DEF Counted
  <2> QED BY <2>1, <2>3, <2>4, Zenon DEF Counted
<1>5. TypeOK'
  <2>1. \A c \in Bufs : refcnt'[c] \in 0..(Cardinality(Procs) + 1)
    BY <1>4, CountedTypeNext, Zenon DEF CountsInType
  <2>2. refcnt' \in [Bufs -> 0..(Cardinality(Procs) + 1)]
    BY <1>1, <2>1, Zenon DEF TypeOK
  <2> QED BY <1>1, <1>2, <2>2, Zenon DEF TypeOK
<1>6. ListSound' /\ BlocksSound'
  BY <1>1, Zenon DEF ListSound, BlocksSound
<1>7. HoldersSound'
  BY <1>1, <1>3 DEF HoldersSound, SleepersHaveReason, Holding
<1>8. ContentsSound'
  <2>1. \A c \in Bufs \ {b} : Dirty(c) => Dirty(c)'
    BY <1>0, <1>1, <1>3, Zenon DEF Dirty
  <2>2. \A j \in Blocks : \/ disk[j] = latest[j]
                          \/ \E c \in Bufs : blockno[c] = j /\ (c \in pinned' \/ Dirty(c)')
    BY <1>1, <2>1, Zenon DEF ContentsSound
  <2>3. \A q \in Procs : pc'[q] = "dirty" => buf[q] \notin pinned'
    BY <1>1, <1>2, <1>3, Zenon DEF ContentsSound, Holding
  <2>4. \A q \in Procs : /\ pc'[q] \in {"use", "dirty", "unpin"} => valid[buf[q]] = 1
                         /\ pc'[q] = "unpin" => buf[q] \in pinned' /\ disk[blockno[buf[q]]] = latest[blockno[buf[q]]]
    BY <1>1, <1>3 DEF ContentsSound
  <2>5. \A c \in pinned' : valid[c] = 1
    BY <1>0, <1>1 DEF ContentsSound
  <2> QED BY <1>1, <2>2, <2>3, <2>4, <2>5 DEF ContentsSound
<1> QED BY <1>4, <1>5, <1>6, <1>7, <1>8, Zenon

LEMMA BunpinInv ==
  ASSUME Inv, NEW p \in Procs, bunpin(p)
  PROVE  Inv'
<1> USE DEF Inv
<1>0. PICK b : b = buf[p]
  OBVIOUS
<1>1. /\ pc[p] = "unpin" /\ pc' = [pc EXCEPT ![p] = "use"]
      /\ refcnt' = [refcnt EXCEPT ![b] = @ - 1] /\ pinned' = pinned \ {b}
      /\ UNCHANGED <<blockno, valid, data, locked, lru, disk, latest, buf, panic>>
  BY <1>0, Zenon DEF bunpin, Goto
<1>2. /\ b \in Bufs /\ b \in pinned /\ disk[blockno[b]] = latest[blockno[b]]
      /\ \A q \in Procs \ {p} : pc[q] \in Holding => buf[q] # b
  BY <1>0, <1>1, HoldersApart, Zenon DEF Holding, ContentsSound
<1>3. /\ pc'[p] = "use" /\ \A q \in Procs \ {p} : pc'[q] = pc[q]
      /\ refcnt'[b] = refcnt[b] - 1 /\ \A c \in Bufs \ {b} : refcnt'[c] = refcnt[c]
  BY <1>1, <1>2, Zenon DEF TypeOK
<1>4. Counted'
  <2>1. \A c : Users(c)' = Users(c)
    BY <1>1, Zenon DEF Users
  <2>2. Pins(b) = 1 /\ Pins(b)' = 0 /\ \A c \in Bufs \ {b} : Pins(c)' = Pins(c)
    BY <1>1, <1>2, Zenon DEF Pins
  <2>3. refcnt'[b] = Cardinality(Users(b)) + Pins(b)'
    BY <1>2, <1>3, <2>2, UsersFacts DEF Counted
  <2>4. \A c \in Bufs \ {b} : refcnt'[c] = Cardinality(Users(c)) + Pins(c)'
    BY <1>3, <2>2, Zenon DEF Counted
  <2> QED BY <2>1, <2>3, <2>4, Zenon DEF Counted
<1>5. TypeOK'
  <2>1. \A c \in Bufs : refcnt'[c] \in 0..(Cardinality(Procs) + 1)
    BY <1>4, CountedTypeNext, Zenon DEF CountsInType
  <2>2. refcnt' \in [Bufs -> 0..(Cardinality(Procs) + 1)]
    BY <1>1, <2>1, Zenon DEF TypeOK
  <2> QED BY <1>1, <1>2, <2>2, Zenon DEF TypeOK
<1>6. ListSound' /\ BlocksSound'
  BY <1>1, Zenon DEF ListSound, BlocksSound
<1>7. HoldersSound'
  BY <1>1, <1>3 DEF HoldersSound, SleepersHaveReason, Holding
<1>8. ContentsSound'
  <2>1. \A c \in Bufs : Dirty(c) => Dirty(c)'
    BY <1>0, <1>1, <1>3, Zenon DEF Dirty
  <2>2. \A j \in Blocks : \/ disk[j] = latest[j]
                          \/ \E c \in Bufs : blockno[c] = j /\ (c \in pinned' \/ Dirty(c)')
    BY <1>1, <1>2, <2>1 DEF ContentsSound
  <2>3. \A q \in Procs : pc'[q] = "dirty" => buf[q] \notin pinned'
    BY <1>1, <1>3, Zenon DEF ContentsSound
  <2>4. \A q \in Procs : /\ pc'[q] \in {"use", "dirty", "unpin"} => valid[buf[q]] = 1
                         /\ pc'[q] = "unpin" => buf[q] \in pinned' /\ disk[blockno[buf[q]]] = latest[blockno[buf[q]]]
    BY <1>1, <1>2, <1>3 DEF ContentsSound, Holding
  <2>5. \A c \in pinned' : valid[c] = 1
    BY <1>1, Zenon DEF ContentsSound
  <2> QED BY <1>1, <2>2, <2>3, <2>4, <2>5 DEF ContentsSound
<1> QED BY <1>4, <1>5, <1>6, <1>7, <1>8, Zenon

(* brelse(): a buffer whose lock is given up is neither dirty nor in need   *)
(* of being unpinned, and whoever slept for the lock is woken.              *)
LEMMA ReleaseInv ==
  ASSUME Inv, NEW p \in Procs, releasesleep(p)
  PROVE  Inv'
<1> USE DEF Inv
<1>0. PICK b : b = buf[p]
  OBVIOUS
<1>1. /\ pc[p] = "use" /\ locked' = [locked EXCEPT ![b] = None]
      /\ pc' = [Awoken(b) EXCEPT ![p] = "release"]
      /\ UNCHANGED <<blockno, valid, refcnt, data, pinned, lru, disk, latest, buf, panic>>
  BY <1>0, Zenon DEF releasesleep
<1>2. /\ b \in Bufs /\ locked[b] = p
      /\ \A q \in Procs \ {p} : pc[q] \in Holding => buf[q] \in Bufs \ {b}
  BY <1>0, <1>1, HoldersApart, Zenon DEF Holding
<1>3. /\ pc'[p] = "release"
      /\ \A q \in Procs \ {p} : pc'[q] = IF pc[q] = "asleep" /\ buf[q] = b THEN "lock" ELSE pc[q]
      /\ locked'[b] = None /\ \A c \in Bufs \ {b} : locked'[c] = locked[c]
  BY <1>1, <1>2 DEF TypeOK, Awoken
<1>4. Counted' /\ ListSound' /\ BlocksSound'
  BY <1>1, SameCounts, Zenon DEF ListSound, BlocksSound
<1>5. TypeOK'
  <2>1. pc' \in [Procs -> {"idle", "lock", "asleep", "fill", "use", "dirty", "unpin", "release"}]
    BY <1>1, Zenon DEF TypeOK, Awoken
  <2> QED BY <1>1, <2>1, Zenon DEF TypeOK
<1>6. HoldersSound'
  <2>1. \A q \in Procs : IF pc'[q] = "idle" THEN buf'[q] = 0
                         ELSE buf'[q] \in Bufs /\ blockno'[buf'[q]] \in Blocks
    BY <1>1, <1>3 DEF HoldersSound
  <2>2. \A q \in Procs : pc'[q] \in Holding => q # p /\ pc'[q] = pc[q] /\ pc[q] \in Holding
    BY <1>3, Zenon DEF Holding
  <2>3. \A q \in Procs : pc'[q] \in Holding => locked'[buf'[q]] = q
    BY <1>1, <1>2, <1>3, <2>2 DEF HoldersSound
  <2>4. \A q \in Procs \ {p} : pc[q] \in Holding => pc'[q] = pc[q]
    BY <1>3, Zenon DEF Holding
  <2>5. \A q \in Procs, c \in Bufs : locked'[c] = q => buf'[q] = c /\ pc'[q] \in Holding
    BY <1>0, <1>1, <1>3, <2>4, ProcsAssumption DEF HoldersSound
  <2>6. \A q \in Procs : pc'[q] = "asleep" => locked'[buf'[q]] # None
    BY <1>1, <1>3 DEF HoldersSound, SleepersHaveReason
  <2> QED BY <2>1, <2>3, <2>5, <2>6, Zenon DEF HoldersSound, SleepersHaveReason
<1>7. ContentsSound'
  <2>1. \A q \in Procs : pc'[q] \in {"use", "dirty", "unpin"} => pc'[q] = pc[q]
    BY <1>3, Zenon
  <2>2. \A c \in Bufs : Dirty(c) => Dirty(c)'
    BY <1>0, <1>1, <1>3 DEF Dirty
  <2> QED BY <1>1, <2>1, <2>2 DEF ContentsSound
<1> QED BY <1>4, <1>5, <1>6, <1>7, Zenon

LEMMA BrelseInv ==
  ASSUME Inv, NEW p \in Procs, brelse(p)
  PROVE  Inv'
<1> USE DEF Inv
<1>0. PICK b : b = buf[p]
  OBVIOUS
<1>1. /\ pc[p] = "release" /\ pc' = [pc EXCEPT ![p] = "idle"]
      /\ refcnt' = [refcnt EXCEPT ![b] = @ - 1] /\ buf' = [buf EXCEPT ![p] = 0]
      /\ lru' = IF refcnt[b] = 1 THEN ToHead(b) ELSE lru
      /\ UNCHANGED <<blockno, valid, data, locked, pinned, disk, latest, panic>>
  BY <1>0, Zenon DEF brelse, Goto
<1>2. b \in Bufs
  BY <1>0, <1>1, Zenon DEF HoldersSound
<1>3. /\ pc'[p] = "idle" /\ buf'[p] = 0
      /\ \A q \in Procs \ {p} : pc'[q] = pc[q] /\ buf'[q] = buf[q]
      /\ refcnt'[b] = refcnt[b] - 1 /\ \A c \in Bufs \ {b} : refcnt'[c] = refcnt[c]
  BY <1>1, <1>2, Zenon DEF TypeOK
<1>4. Counted'
  <2>1. \A c : Pins(c)' = Pins(c) /\ Pins(c) \in Nat
    BY <1>1, Zenon DEF Pins
  <2>2. refcnt'[b] = Cardinality(Users(b)') + Pins(b)'
    <3>1. Cardinality(Users(b)') = Cardinality(Users(b)) - 1
      BY <1>0, <1>1, <1>2, UserRemoved, Zenon
    <3>2. refcnt[b] = Cardinality(Users(b)) + Pins(b) /\ Cardinality(Users(b)) \in Nat
      BY <1>2, UsersFacts, Zenon DEF Counted
    <3> QED BY <1>3, <2>1, <3>1, <3>2
  <2>3. \A c \in Bufs \ {b} : refcnt'[c] = Cardinality(Users(c)') + Pins(c)'
    BY <1>0, <1>1, <1>2, <1>3, <2>1, UserRemoved, Zenon DEF Counted
  <2> QED BY <2>2, <2>3, Zenon DEF Counted
<1>5. lru' \in [1..NBUF -> Bufs] /\ ListSound'
  BY <1>1, <1>2, ToHeadFacts, Zenon DEF TypeOK, ListSound
<1>6. TypeOK'
  <2>1. \A c \in Bufs : refcnt'[c] \in 0..(Cardinality(Procs) + 1)
    BY <1>4, CountedTypeNext, Zenon DEF CountsInType
  <2>2. refcnt' \in [Bufs -> 0..(Cardinality(Procs) + 1)]
    BY <1>1, <2>1, Zenon DEF TypeOK
  <2> QED BY <1>1, <1>5, <2>2, Zenon DEF TypeOK
<1>7. BlocksSound'
  BY <1>1, Zenon DEF BlocksSound
<1>8. HoldersSound'
  BY <1>1, <1>3 DEF HoldersSound, SleepersHaveReason, Holding
<1>9. ContentsSound'
  <2>1. \A c \in Bufs : Dirty(c) => Dirty(c)'
    BY <1>1, <1>3, Zenon DEF Dirty
  <2>2. \A q \in Procs : pc'[q] \in {"use", "dirty", "unpin"} => pc'[q] = pc[q] /\ buf'[q] = buf[q]
    BY <1>3, Zenon
  <2> QED BY <1>1, <2>1, <2>2 DEF ContentsSound
<1> QED BY <1>4, <1>5, <1>6, <1>7, <1>8, <1>9, Zenon

-----------------------------------------------------------------------------
LEMMA InitInv == Init => Inv
<1> SUFFICES ASSUME Init PROVE Inv
  BY Zenon
<1>1. \A b \in Bufs : Users(b) = {} /\ Pins(b) = 0
  BY NbufAssumption DEF Init, Users, Pins, Bufs
<1>2. Counted
  <2>1. Cardinality({}) = 0
    BY FS_EmptySet, Zenon
  <2>2. \A b \in Bufs : refcnt[b] = 0
    BY Zenon DEF Init
  <2> QED BY <1>1, <2>1, <2>2 DEF Counted
<1>3. TypeOK
  <2>1. refcnt \in [Bufs -> 0..(Cardinality(Procs) + 1)]
    BY <1>2, CountedType, Zenon DEF Init, CountsInType
  <2>2. lru \in [1..NBUF -> Bufs]
    BY NbufAssumption DEF Init, Bufs
  <2> QED BY <2>1, <2>2 DEF Init, TypeOK
<1>4. ListSound
  <2>1. ASSUME NEW b \in Bufs PROVE NBUF + 1 - b \in 1..NBUF /\ lru[NBUF + 1 - b] = b
    BY NbufAssumption DEF Init, Bufs
  <2> QED BY <2>1, Zenon DEF ListSound
<1>5. HoldersSound
  BY ProcsAssumption, Zenon DEF Init, HoldersSound, SleepersHaveReason, Holding
<1>6. BlocksSound /\ ContentsSound
  BY BlocksAssumption DEF Init, BlocksSound, ContentsSound
<1> QED BY <1>2, <1>3, <1>4, <1>5, <1>6, Zenon DEF Inv

LEMMA NextInv == Inv /\ [Next]_vars => Inv'
<1> SUFFICES ASSUME Inv, [Next]_vars PROVE Inv'
  BY Zenon
<1>1. ASSUME NEW p \in Procs, NEW k \in Blocks, bgetHit(p, k) \/ bgetMiss(p, k) PROVE Inv'
  BY <1>1, HitInv, MissInv, Zenon
<1>2. ASSUME NEW p \in Procs, NEW k \in Blocks, bgetPanic(p, k) PROVE Inv'
  BY <1>2, SameInv, Zenon DEF bgetPanic
<1>3. ASSUME NEW p \in Procs, NEW v \in Values, Change(p, v) PROVE Inv'
  BY <1>3, ChangeInv, Zenon
<1>4. ASSUME NEW p \in Procs, Step(p) PROVE Inv'
  BY <1>4, AcquireInv, BreadInv, BwriteInv, BpinInv, BunpinInv, ReleaseInv, BrelseInv, Zenon DEF Step
<1>5. CASE UNCHANGED vars
  BY <1>5, SameInv, Zenon DEF vars, Inv, TypeOK
<1> QED BY <1>1, <1>2, <1>3, <1>4, <1>5, Zenon DEF Next, Halted

LEMMA BcacheInvariant == Spec => []Inv
BY InitInv, NextInv, PTL DEF Spec

(* However many processes ask for blocks at once, however few buffers there *)
(* are: bget() gives a block one buffer, never recycles one that somebody   *)
(* uses or that is pinned, bread() returns what was last put in the block,  *)
(* and nobody sleeps in acquiresleep() for a buffer that nobody holds.      *)
THEOREM BuffersStaySound == Spec => []BuffersSound
<1>1. ASSUME Inv PROVE BuffersSound
  <2> USE <1>1 DEF Inv
  <2>1. OneCopy
    <3> SUFFICES ASSUME NEW k \in Blocks PROVE Cardinality(Cached(k)) <= 1
      BY Zenon DEF OneCopy
    <3>1. CASE Cached(k) = {}
      BY <3>1, FS_EmptySet
    <3>2. CASE Cached(k) # {}
      <4>1. PICK b \in Bufs : Cached(k) = {b}
        BY <3>2, Zenon DEF Cached, BlocksSound
      <4>2. Cardinality({b}) = 1
        BY FS_Singleton, Zenon
      <4> QED BY <4>1, <4>2
    <3> QED BY <3>1, <3>2, Zenon
  <2>2. CountsMatch
    BY Zenon DEF CountsMatch, Counted, Users, Pins
  <2>3. SeesLatest
    <3> SUFFICES ASSUME NEW p \in Procs, pc[p] \in {"use", "dirty", "unpin"}
                 PROVE  /\ data[buf[p]] = latest[blockno[buf[p]]]
                        /\ \A q \in Procs \ {p} :
                             buf[q] = buf[p] => pc[q] \in {"lock", "asleep", "release"}
      BY Zenon DEF SeesLatest
    <3>1. pc[p] \in Holding /\ buf[p] \in Bufs /\ buf[p] # 0
      BY NbufAssumption DEF Holding, HoldersSound, Bufs
    <3>2. data[buf[p]] = latest[blockno[buf[p]]]
      BY <3>1, Zenon DEF ContentsSound
    <3>3. ASSUME NEW q \in Procs \ {p}, buf[q] = buf[p] PROVE pc[q] \in {"lock", "asleep", "release"}
      <4>1. pc[q] \notin Holding /\ pc[q] # "idle"
        BY <3>1, <3>3, Zenon DEF HoldersSound
      <4> QED BY <4>1, Zenon DEF TypeOK, Holding
    <3> QED BY <3>2, <3>3, Zenon
  <2>4. SleepersHaveReason
    BY DEF HoldersSound
  <2> QED BY <2>1, <2>2, <2>3, <2>4, Zenon DEF BuffersSound
<1> QED BY <1>1, BcacheInvariant, PTL
=============================================================================
