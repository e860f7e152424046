------------------------------ MODULE FdsProofs ------------------------------
(***************************************************************************)
(* The counts of the file table are exact, for any number of processes,    *)
(* files and descriptors.                                                  *)
(*                                                                         *)
(* FilesExact counts what the descriptors and the calls hold.  That a step *)
(* changes the count and the set of references alike depends on where each *)
(* call is: the invariant adds what a call has in hand at each place, that *)
(* a file just allocated is known to nobody else, that fork() fills the    *)
(* descriptors of a process that does not run yet, and that an end about   *)
(* to be closed belongs to no entry.                                       *)
(***************************************************************************)
EXTENDS Fds, TLAPS

(* What a call can have in hand.                                            *)
Hands == {<<>>} \cup {<<f>> : f \in Files} \cup {<<f, g>> : f \in Files, g \in Files}

(* A call.                                                                  *)
Calls == [at : {"idle", "dup", "close", "open", "pipe1", "pipe2", "fork", "exit"},
          fs : Hands, f : 0 .. NFILE, fd : Fd, child : Procs]

(* The types of the variables of Fds.                                       *)
FdsType ==
  /\ ref \in [Files -> Int] /\ type \in [Files -> Ends \cup {FD_NONE, FD_INODE}]
  /\ ofile \in [Procs -> [Fd -> 0 .. NFILE]]
  /\ alive \in SUBSET Procs /\ call \in [Procs -> Calls]
  /\ ends \in SUBSET Ends /\ closing \in [Procs -> SUBSET Ends]

(* What a call has in hand, by the place it is at.                          *)
HandSound(p) ==
  LET c == call[p] IN
    /\ c.at \in {"idle", "dup", "fork", "exit"} => c.fs = <<>>
    /\ c.at = "close" => c.fs # <<>>
    /\ c.at \in {"open", "pipe1"} => \E f \in Files : c.fs = <<f>>
    /\ c.at = "pipe2" => \E f, g \in Files : c.fs = <<f, g>>
    /\ Len(c.fs) = 2 => c.fs[1] # c.fs[2]

(* A file just allocated is known to its call only.                         *)
Private(p) ==
  call[p].at \in {"open", "pipe1"} =>
    LET f == call[p].fs[1] IN
      /\ type[f] = FD_NONE
      /\ \A q \in Procs, d \in Fd : ofile[q][d] # f
      /\ \A q \in Procs \ {p} : ~Refers(q, -1, f)

(* dup() has the file in another descriptor too. fork() fills the           *)
(* descriptors of a process of its own, which does not run yet.             *)
LocalsSound(p) ==
  LET c == call[p] IN
    /\ c.at = "dup" => /\ c.f \in Files /\ ofile[p][c.fd] = c.f
                       /\ \E d \in Fd \ {c.fd} : ofile[p][d] = c.f
    /\ c.at = "fork" => /\ c.child \notin alive
                        /\ \A d \in Fd : d >= c.fd => ofile[c.child][d] = 0
                        /\ \A q \in Procs \ {p} : call[q].at = "fork" => call[q].child # c.child

(* Process c is being made.                                                 *)
Forking(c) == \E p \in Procs : call[p].at = "fork" /\ call[p].child = c

(* A process that does not exist has no call and, unless it is being        *)
(* made, no descriptor.                                                     *)
LifeSound(p) ==
  /\ p \notin alive => /\ call[p].at = "idle" /\ closing[p] = {}
                       /\ ~Forking(p) => \A d \in Fd : ofile[p][d] = 0
  /\ closing[p] # {} => call[p].at \in {"idle", "close", "exit"}

(* The last three conjuncts of FilesExact, and what keeps them: an end      *)
(* that is being closed belongs to no entry, and to one process.            *)
EndsSound ==
  /\ \A f \in Files : ref[f] = 0 => type[f] = FD_NONE
  /\ \A f, g \in Files : f # g /\ type[f] = type[g] => type[f] \notin Ends
  /\ \A p \in Procs, f \in Files : type[f] \notin closing[p]
  /\ \A p, q \in Procs : p # q => closing[p] \cap closing[q] = {}
  /\ \A e \in Ends : e \in ends <=> (\E f \in Files : type[f] = e) \/ (\E p \in Procs : e \in closing[p])

(* The first conjunct of FilesExact.                                        *)
Counted == \A f \in Files : ref[f] = Cardinality(References(f))

(* What the calls are in the middle of.                                     *)
CallsSound == \A p \in Procs : HandSound(p) /\ Private(p) /\ LocalsSound(p) /\ LifeSound(p)

(* The inductive invariant.                                                 *)
FdsInv == FdsType /\ CallsSound /\ EndsSound /\ Counted

-----------------------------------------------------------------------------
(* Neither an unused entry nor an inode is an end of a pipe.                *)
LEMMA EndsApart == FD_NONE \notin Ends /\ FD_INODE \notin Ends
  BY FdsAssumption DEF FD_NONE, FD_INODE, Ends, Files

(* The fields of calls.                                                     *)
LEMMA DoingFields ==
  ASSUME NEW at, NEW fs
  PROVE  /\ Doing(at, fs).at = at /\ Doing(at, fs).fs = fs /\ Doing(at, fs).f = 0
         /\ Doing(at, fs).fd = 0 /\ Doing(at, fs).child = First
  BY DEF Doing

(* The default values of a call's fields are in their types.                *)
LEMMA ZeroOk == 0 \in Fd /\ 0 \in 0 .. NFILE
  BY FdsAssumption DEF Fd

(* A call with what it may have in hand is a call.                          *)
LEMMA DoingType ==
  ASSUME NEW at \in {"idle", "dup", "close", "open", "pipe1", "pipe2", "fork", "exit"}, NEW fs \in Hands
  PROVE  Doing(at, fs) \in Calls
  BY ZeroOk, FdsAssumption, Zenon DEF Doing, Calls

(* The call of a process in user mode,                                      *)
LEMMA IdleFields ==
  /\ Idle \in Calls /\ Idle.at = "idle" /\ Idle.fs = <<>>
<1>1. <<>> \in Hands
  BY DEF Hands
<1> QED
  BY <1>1, DoingType, DoingFields DEF Idle

(* of one in dup()                                                          *)
LEMMA DupFields ==
  ASSUME NEW f \in 0 .. NFILE, NEW fd \in Fd
  PROVE  LET c == DoingDup(f, fd)
         IN  c \in Calls /\ c.at = "dup" /\ c.fs = <<>> /\ c.f = f /\ c.fd = fd
<1>1. <<>> \in Hands
  BY DEF Hands
<1> QED
  BY <1>1, FdsAssumption, Zenon DEF DoingDup, Doing, Calls

(* and of one in fork().                                                    *)
LEMMA ForkFields ==
  ASSUME NEW c \in Procs, NEW fd \in Fd
  PROVE  LET t == DoingFork(c, fd)
         IN  t \in Calls /\ t.at = "fork" /\ t.fs = <<>> /\ t.child = c /\ t.fd = fd
<1>1. <<>> \in Hands
  BY DEF Hands
<1> QED
  BY <1>1, ZeroOk, Zenon DEF DoingFork, Doing, Calls

(* A call has nothing, one file or two.                                     *)
LEMMA InHands ==
  /\ <<>> \in Hands
  /\ \A f \in Files : <<f>> \in Hands
  /\ \A f, g \in Files : <<f, g>> \in Hands
  BY DEF Hands

(* The types of the fields of a call.                                       *)
LEMMA CallFields ==
  ASSUME FdsType, NEW p \in Procs
  PROVE  /\ call[p] \in Calls /\ call[p].fs \in Hands /\ call[p].f \in 0 .. NFILE
         /\ call[p].fd \in Fd /\ call[p].child \in Procs
  BY DEF FdsType, Calls

(* What the proofs need of cardinalities. It is proved last, with the       *)
(* library's theorems, which would weigh on every step that came after      *)
(* them.                                                                    *)
Counting ==
  /\ IsFiniteSet(Procs \X (-1 .. NOFILE - 1))
  /\ \A S : IsFiniteSet(S) => Cardinality(S) \in Nat /\ (Cardinality(S) = 0 <=> S = {})
  /\ \A S : \A T \in SUBSET S : IsFiniteSet(S) => IsFiniteSet(T)
  /\ \A S, x : IsFiniteSet(S) /\ x \notin S => Cardinality(S \cup {x}) = Cardinality(S) + 1
  /\ \A S, x : IsFiniteSet(S) /\ x \in S => Cardinality(S \ {x}) = Cardinality(S) - 1

(* The references to a file are finitely many.                              *)
LEMMA ReferencesFinite ==
  ASSUME Counting, NEW f PROVE IsFiniteSet(References(f)) /\ Cardinality(References(f)) \in Nat
<1>1. References(f) \in SUBSET (Procs \X (-1 .. NOFILE - 1))
  BY DEF References
<1> QED
  BY <1>1 DEF Counting

(* How the number of references to f changes: not, when they do not;        *)
LEMMA CountSame ==
  ASSUME NEW f, \A q \in Procs, d \in -1 .. NOFILE - 1 : Refers(q, d, f)' <=> Refers(q, d, f)
  PROVE  Cardinality(References(f))' = Cardinality(References(f))
<1>1. References(f)' = References(f)
  BY DEF References
<1> QED
  BY <1>1

(* by one more, when there is one at a place that had none;                 *)
LEMMA CountGain ==
  ASSUME Counting, NEW f, NEW p \in Procs, NEW e \in -1 .. NOFILE - 1, ~Refers(p, e, f),
         \A q \in Procs, d \in -1 .. NOFILE - 1 : Refers(q, d, f)' <=> (Refers(q, d, f) \/ (q = p /\ d = e))
  PROVE  Cardinality(References(f))' = Cardinality(References(f)) + 1
<1>1. References(f)' = References(f) \cup {<<p, e>>} /\ <<p, e>> \notin References(f)
  BY DEF References
<1> QED
  BY <1>1, ReferencesFinite DEF Counting

(* by one less, when a place loses it;                                      *)
LEMMA CountLose ==
  ASSUME Counting, NEW f, NEW p \in Procs, NEW e \in -1 .. NOFILE - 1, Refers(p, e, f),
         \A q \in Procs, d \in -1 .. NOFILE - 1 : Refers(q, d, f)' <=> (Refers(q, d, f) /\ ~(q = p /\ d = e))
  PROVE  Cardinality(References(f))' = Cardinality(References(f)) - 1
<1>1. References(f)' = References(f) \ {<<p, e>>} /\ <<p, e>> \in References(f)
  BY DEF References
<1> QED
  BY <1>1, ReferencesFinite, Zenon DEF Counting

(* and not, when one moves from a place of a process to another.            *)
LEMMA CountMove ==
  ASSUME Counting, NEW f, NEW p \in Procs, NEW e \in -1 .. NOFILE - 1, NEW k \in -1 .. NOFILE - 1,
         Refers(p, e, f), ~Refers(p, k, f),
         \A q \in Procs, d \in -1 .. NOFILE - 1 :
           Refers(q, d, f)' <=> ((Refers(q, d, f) /\ ~(q = p /\ d = e)) \/ (q = p /\ d = k))
  PROVE  Cardinality(References(f))' = Cardinality(References(f))
<1> DEFINE R == References(f) \ {<<p, e>>}
<1>1. References(f)' = R \cup {<<p, k>>} /\ <<p, e>> \in References(f) /\ <<p, k>> \notin R
  BY DEF References
<1>2. IsFiniteSet(R) /\ Cardinality(R) = Cardinality(References(f)) - 1
  <2>1. R \in SUBSET References(f)
    OBVIOUS
  <2> QED
    BY <1>1, <2>1, ReferencesFinite, Zenon DEF Counting
<1>3. Cardinality(R \cup {<<p, k>>}) = Cardinality(R) + 1
  BY <1>1, <1>2, Zenon DEF Counting
<1> QED
  BY <1>1, <1>2, <1>3, ReferencesFinite

(* An entry with a reference is in use.                                     *)
LEMMA Referred ==
  ASSUME Counting, FdsInv, NEW f \in Files, NEW p \in Procs, NEW d \in -1 .. NOFILE - 1, Refers(p, d, f)
  PROVE  ref[f] > 0
<1>1. <<p, d>> \in References(f)
  BY DEF References
<1>2. Cardinality(References(f)) # 0
  BY <1>1, ReferencesFinite DEF Counting
<1> QED
  BY <1>2, ReferencesFinite DEF FdsInv, Counted

(* An entry not in use has no reference, and no descriptor leads to it.     *)
LEMMA Unreferred ==
  ASSUME Counting, FdsInv, NEW f \in Files, ref[f] = 0
  PROVE  /\ type[f] = FD_NONE
         /\ \A p \in Procs, d \in -1 .. NOFILE - 1 : ~Refers(p, d, f)
         /\ \A p \in Procs, d \in Fd : ofile[p][d] # f
<1>1. type[f] = FD_NONE
  BY DEF FdsInv, EndsSound
<1>2. \A p \in Procs, d \in -1 .. NOFILE - 1 : ~Refers(p, d, f)
  BY Referred
<1>3. ASSUME NEW p \in Procs, NEW d \in Fd, ofile[p][d] = f PROVE FALSE
  <2>1. d \in -1 .. NOFILE - 1 /\ d # -1
    BY FdsAssumption DEF Fd
  <2>2. call[p].at = "dup" /\ call[p].fd = d
    BY <1>2, <1>3, <2>1 DEF Refers
  <2>3. PICK k \in Fd \ {d} : ofile[p][k] = f
    BY <1>3, <2>2 DEF FdsInv, CallsSound, LocalsSound
  <2>4. k \in -1 .. NOFILE - 1 /\ k # -1
    BY FdsAssumption DEF Fd
  <2>5. Refers(p, k, f)
    BY <2>2, <2>3, <2>4 DEF Refers
  <2> QED
    BY <1>2, <2>4, <2>5
<1> QED
  BY <1>1, <1>2, <1>3

(* The references in hand,                                                  *)
LEMMA HandRefers ==
  ASSUME NEW q, NEW f
  PROVE  /\ call[q].fs = <<>> => ~Refers(q, -1, f)
         /\ \A a : call[q].fs = <<a>> => (Refers(q, -1, f) <=> f = a)
         /\ \A a, b : call[q].fs = <<a, b>> => (Refers(q, -1, f) <=> (f = a \/ f = b))
  BY DEF Refers

(* also after a step.                                                       *)
LEMMA HandRefersNext ==
  ASSUME NEW q, NEW f
  PROVE  /\ call'[q].fs = <<>> => ~Refers(q, -1, f)'
         /\ \A a : call'[q].fs = <<a>> => (Refers(q, -1, f)' <=> f = a)
         /\ \A a, b : call'[q].fs = <<a, b>> => (Refers(q, -1, f)' <=> (f = a \/ f = b))
  BY DEF Refers

(* The places of references are the descriptors and the hand.               *)
LEMMA Places == /\ -1 \in -1 .. NOFILE - 1
                /\ \A d \in Fd : d \in -1 .. NOFILE - 1 /\ d # -1
                /\ \A d \in -1 .. NOFILE - 1 : d # -1 => d \in Fd
  BY FdsAssumption DEF Fd

(* The references of descriptors,                                           *)
LEMMA FdRefers ==
  ASSUME NEW q, NEW d \in Fd, NEW f
  PROVE  /\ Refers(q, d, f) <=> ofile[q][d] = f /\ ~(call[q].at = "dup" /\ call[q].fd = d)
         /\ Refers(q, d, f)' <=> ofile'[q][d] = f /\ ~(call'[q].at = "dup" /\ call'[q].fd = d)
  BY Places DEF Refers

(* outside dup(),                                                           *)
LEMMA FdPlain ==
  ASSUME NEW q, NEW d \in Fd, NEW f, call[q].at # "dup"
  PROVE  Refers(q, d, f) <=> ofile[q][d] = f
  BY FdRefers, Zenon

(* also after a step.                                                       *)
LEMMA FdPlainNext ==
  ASSUME NEW q, NEW d \in Fd, NEW f, call'[q].at # "dup"
  PROVE  Refers(q, d, f)' <=> ofile'[q][d] = f
  BY FdRefers, Zenon

(* A process that a step leaves alone keeps its references.                 *)
LEMMA OtherRefers ==
  ASSUME NEW q, NEW d, NEW f, call'[q] = call[q], ofile'[q] = ofile[q]
  PROVE  Refers(q, d, f)' <=> Refers(q, d, f)
  BY DEF Refers

(* A call that goes nowhere has the same in hand.                           *)
LEMMA HandKept ==
  ASSUME NEW q, HandSound(q), call'[q] = call[q]
  PROVE  HandSound(q)'
  BY Zenon DEF HandSound

(* A file nobody knows of, but perhaps the call that has just allocated     *)
(* it.                                                                      *)
Fresh(f) == type[f] = FD_NONE /\ \A q \in Procs, d \in Fd : ofile[q][d] # f

(* What is known of such a file.                                            *)
LEMMA PrivateMeans ==
  ASSUME NEW q, NEW f, Private(q), call[q].at \in {"open", "pipe1"}, call[q].fs[1] = f
  PROVE  /\ type[f] = FD_NONE
         /\ \A k \in Procs, d \in Fd : ofile[k][d] # f
         /\ \A k \in Procs \ {q} : ~Refers(k, -1, f)
  BY DEF Private

(* A step of p, outside fork(), is on its own variables,                    *)
Frame(p) ==
  /\ \A q \in Procs \ {p} : call'[q] = call[q] /\ closing'[q] = closing[q] /\ ofile'[q] = ofile[q]
  /\ alive' = alive \/ alive' = alive \ {p}
  /\ p \in alive /\ call[p].at # "fork" /\ call'[p].at # "fork"

(* and does not touch what others have just allocated.                      *)
Leaves(p) ==
  \A f \in Files : ref[f] > 0 /\ Fresh(f) /\ ~Refers(p, -1, f)
                     => type'[f] = FD_NONE /\ ~Refers(p, -1, f)' /\ \A d \in Fd : ofile'[p][d] # f

(* Such a step keeps what the others are in the middle of.                  *)
LEMMA OthersKept ==
  ASSUME Counting, FdsInv, NEW p \in Procs, Frame(p), Leaves(p), NEW q \in Procs \ {p}
  PROVE  HandSound(q)' /\ Private(q)' /\ LocalsSound(q)' /\ LifeSound(q)'
<1>0. /\ \A k \in Procs \ {p} : call'[k] = call[k] /\ closing'[k] = closing[k] /\ ofile'[k] = ofile[k]
      /\ alive' = alive \/ alive' = alive \ {p}
      /\ p \in alive /\ call[p].at # "fork" /\ call'[p].at # "fork"
  BY DEF Frame
<1>1. HandSound(q) /\ Private(q) /\ LocalsSound(q) /\ LifeSound(q)
  BY Zenon DEF FdsInv, CallsSound
<1>2. HandSound(q)'
  BY <1>0, <1>1, HandKept, Zenon
<1>3. LocalsSound(q)'
  <2>1. call'[q].at = "fork" => /\ call'[q].child \notin alive'
                                /\ \A d \in Fd : d >= call'[q].fd => ofile'[call'[q].child][d] = 0
    <3>1. SUFFICES ASSUME call[q].at = "fork"
                   PROVE  /\ call[q].child \notin alive'
                          /\ \A d \in Fd : d >= call[q].fd => ofile'[call[q].child][d] = 0
      BY <1>0, Zenon
    <3>2. call[q].child \notin alive /\ \A d \in Fd : d >= call[q].fd => ofile[call[q].child][d] = 0
      BY <1>1, <3>1, Zenon DEF LocalsSound
    <3>3. call[q].child \in Procs \ {p}
      BY <1>0, <3>2, CallFields, Zenon DEF FdsInv
    <3> QED
      BY <1>0, <3>2, <3>3, Zenon
  <2>2. call'[q].at = "fork" => \A k \in Procs \ {q} : call'[k].at = "fork" => call'[k].child # call'[q].child
    BY <1>0, <1>1, Zenon DEF LocalsSound
  <2>3. call'[q].at = "dup" => /\ call'[q].f \in Files /\ ofile'[q][call'[q].fd] = call'[q].f
                               /\ \E d \in Fd \ {call'[q].fd} : ofile'[q][d] = call'[q].f
    BY <1>0, <1>1, Zenon DEF LocalsSound
  <2> QED
    BY <2>1, <2>2, <2>3, Zenon DEF LocalsSound
<1>4. LifeSound(q)'
  BY <1>0, <1>1, Zenon DEF LifeSound, Forking
<1>5. Private(q)'
  <2>1. SUFFICES ASSUME call[q].at \in {"open", "pipe1"} PROVE Private(q)'
    BY <1>0, Zenon DEF Private
  <2>2. PICK f \in Files : call[q].fs = <<f>>
    BY <1>1, <2>1, Zenon DEF HandSound
  <2>0. call[q].fs[1] = f
    BY <2>2
  <2>3. Fresh(f) /\ \A k \in Procs \ {q} : ~Refers(k, -1, f)
    <3>1. /\ type[f] = FD_NONE
          /\ \A k \in Procs, d \in Fd : ofile[k][d] # f
          /\ \A k \in Procs \ {q} : ~Refers(k, -1, f)
      BY <1>1, <2>1, <2>0, PrivateMeans, Zenon
    <3> QED
      BY <3>1, Zenon DEF Fresh
  <2>4. Refers(q, -1, f)
    BY <2>2, HandRefers, Zenon
  <2>5. ref[f] > 0
    BY <2>4, Referred, Places, Zenon
  <2>6. type'[f] = FD_NONE /\ ~Refers(p, -1, f)' /\ \A d \in Fd : ofile'[p][d] # f
    BY <2>3, <2>5, Zenon DEF Leaves
  <2>7. \A k \in Procs \ {q} : ~Refers(k, -1, f)'
    BY <1>0, <2>3, <2>6, OtherRefers, Zenon
  <2>8. \A k \in Procs, d \in Fd : ofile'[k][d] # f
    BY <1>0, <2>3, <2>6, Zenon DEF Fresh
  <2>9. call'[q].fs[1] = f
    BY <1>0, <2>2
  <2> QED
    BY <2>6, <2>7, <2>8, <2>9, Zenon DEF Private
<1> QED
  BY <1>2, <1>3, <1>4, <1>5, Zenon

(* Steps that leave pipes alone, and free no entry.                         *)
LEMMA EndsSame ==
  ASSUME EndsSound, UNCHANGED <<type, closing, ends>>, \A f \in Files : ref'[f] = 0 => ref[f] = 0
  PROVE  EndsSound'
  BY Zenon DEF EndsSound

(* What it is to go on in a call.                                           *)
LEMMA EnterEffect ==
  ASSUME FdsType, NEW p \in Procs, NEW c \in Calls, Enter(p, c)
  PROVE  /\ call'[p] = c /\ \A q \in Procs \ {p} : call'[q] = call[q]
         /\ call' \in [Procs -> Calls]
  BY Zenon DEF FdsType, Enter

(* What it is to write to a descriptor.                                     *)
LEMMA SetFdEffect ==
  ASSUME FdsType, NEW p \in Procs, NEW fd \in Fd, NEW f \in 0 .. NFILE,
         SetFd(p, fd, f)
  PROVE  /\ ofile'[p][fd] = f /\ \A k \in Fd \ {fd} : ofile'[p][k] = ofile[p][k]
         /\ \A q \in Procs \ {p} : ofile'[q] = ofile[q]
         /\ ofile' \in [Procs -> [Fd -> 0 .. NFILE]]
  BY DEF FdsType, SetFd

(* The counts are right when neither they nor the references change.        *)
LEMMA CountedSame ==
  ASSUME Counted, ref' = ref,
         \A f \in Files, q \in Procs, d \in -1 .. NOFILE - 1 : Refers(q, d, f)' <=> Refers(q, d, f)
  PROVE  Counted'
<1>1. ASSUME NEW f \in Files PROVE Cardinality(References(f))' = Cardinality(References(f))
  BY CountSame, Zenon
<1> QED
  BY <1>1, Zenon DEF Counted

(* A descriptor in use holds a file.                                        *)
LEMMA Taken ==
  ASSUME FdsType, NEW p \in Procs, NEW d \in Fd, ofile[p][d] # 0
  PROVE  ofile[p][d] \in Files
  BY FdsAssumption DEF FdsType, Files

(* Only a process that exists is in a call.                                 *)
LEMMA Alive ==
  ASSUME Counting, FdsInv, NEW p \in Procs, call[p].at # "idle" \/ closing[p] # {}
  PROVE  p \in alive
  BY Zenon DEF FdsInv, CallsSound, LifeSound

(* The calls are sound when that of p is and the others are.                *)
LEMMA CallsKept ==
  ASSUME NEW p \in Procs,
         \A q \in Procs \ {p} : HandSound(q)' /\ Private(q)' /\ LocalsSound(q)' /\ LifeSound(q)',
         HandSound(p)', Private(p)', LocalsSound(p)', LifeSound(p)'
  PROVE  CallsSound'
  BY Zenon DEF CallsSound

(* A call with nothing in hand,                                             *)
LEMMA HandEmpty ==
  ASSUME NEW p \in Procs, call'[p].fs = <<>>, call'[p].at \in {"idle", "dup", "fork", "exit"}
  PROVE  HandSound(p)' /\ Private(p)'
<1>1. Len(call'[p].fs) # 2
  OBVIOUS
<1>2. HandSound(p)'
  BY <1>1, Zenon DEF HandSound
<1> QED
  BY <1>2 DEF Private

(* with one file,                                                           *)
LEMMA HandOne ==
  ASSUME NEW p \in Procs, NEW f \in Files, call'[p].fs = <<f>>, call'[p].at \in {"close", "open", "pipe1"}
  PROVE  HandSound(p)'
<1>1. Len(call'[p].fs) # 2 /\ call'[p].fs # <<>>
  OBVIOUS
<1> QED
  BY <1>1, Zenon DEF HandSound

(* dup() gives the file a second descriptor, not counted yet;               *)
LEMMA DupKept ==
  ASSUME Counting, FdsInv, NEW p \in Procs, sys_dup(p)
  PROVE  FdsInv'
<1>1. FdsType /\ p \in alive /\ call[p].at = "idle" /\ closing[p] = {} /\ HandSound(p) /\ call[p].fs = <<>>
  BY Zenon DEF FdsInv, CallsSound, sys_dup, Ready, At, HandSound
<1>2. PICK d \in Fd, fd \in Fd :
        /\ ofile[p][d] # 0 /\ ofile[p][fd] = 0 /\ SetFd(p, fd, ofile[p][d])
        /\ Enter(p, DoingDup(ofile[p][d], fd))
  BY Zenon DEF sys_dup, FreeFds, fdalloc, Lowest
<1>3. PICK f \in Files : ofile[p][d] = f
  BY <1>1, <1>2, Taken, Zenon
<1>4. f \in 0 .. NFILE /\ f # 0 /\ 0 \notin Files
  BY FdsAssumption DEF Files
<1>5. PICK c : c = DoingDup(f, fd)
  BY Zenon
<1>6. c \in Calls /\ c.at = "dup" /\ c.fs = <<>> /\ c.f = f /\ c.fd = fd
  BY <1>4, <1>5, DupFields
<1>7. call'[p] = c /\ (\A q \in Procs \ {p} : call'[q] = call[q]) /\ call' \in [Procs -> Calls]
  BY <1>1, <1>2, <1>3, <1>5, <1>6, EnterEffect, Zenon
<1>8. /\ ofile'[p][fd] = f /\ \A k \in Fd \ {fd} : ofile'[p][k] = ofile[p][k]
      /\ \A q \in Procs \ {p} : ofile'[q] = ofile[q]
      /\ ofile' \in [Procs -> [Fd -> 0 .. NFILE]]
  BY <1>1, <1>2, <1>3, <1>4, SetFdEffect
<1>9. UNCHANGED <<ref, type, alive, ends, closing>>
  BY Zenon DEF sys_dup
<1>10. FdsType'
  BY <1>1, <1>7, <1>8, <1>9, Zenon DEF FdsType
<1>11. \A g \in Files, q \in Procs, k \in -1 .. NOFILE - 1 : Refers(q, k, g)' <=> Refers(q, k, g)
  <2> TAKE g \in Files, q \in Procs, k \in -1 .. NOFILE - 1
  <2>1. CASE q # p
    BY <1>7, <1>8, <2>1, OtherRefers, Zenon
  <2>2. CASE q = p /\ k = -1
    BY <1>1, <1>6, <1>7, <2>2, HandRefers, HandRefersNext, Zenon
  <2>3. CASE q = p /\ k # -1
    <3>1. k \in Fd
      BY <2>3, Places, Zenon
    <3>2. g # 0
      BY <1>4, Zenon
    <3>3. Refers(p, k, g) <=> ofile[p][k] = g
      BY <1>1, <3>1, FdPlain, Zenon
    <3>4. Refers(p, k, g)' <=> ofile'[p][k] = g /\ k # fd
      <4>1. call'[p].at = "dup" /\ call'[p].fd = fd
        BY <1>6, <1>7, Zenon
      <4> QED
        BY <3>1, <4>1, FdRefers, Zenon
    <3> QED
      BY <1>2, <1>8, <2>3, <3>1, <3>2, <3>3, <3>4, Zenon
  <2> QED
    BY <2>1, <2>2, <2>3, Zenon
<1>12. Counted'
  BY <1>9, <1>11, CountedSame, Zenon DEF FdsInv
<1>13. EndsSound'
  BY <1>9, EndsSame, Zenon DEF FdsInv
<1>14. \A q \in Procs \ {p} : HandSound(q)' /\ Private(q)' /\ LocalsSound(q)' /\ LifeSound(q)'
  <2>1. Leaves(p)
    BY <1>3, <1>8, <1>9, <1>11, Places DEF Fresh, Leaves
  <2>2. Frame(p)
    BY <1>1, <1>6, <1>7, <1>8, <1>9, Zenon DEF Frame
  <2> QED
    BY <2>1, <2>2, OthersKept, Zenon
<1>15. HandSound(p)' /\ Private(p)' /\ LocalsSound(p)' /\ LifeSound(p)'
  <2>1. HandSound(p)' /\ Private(p)'
    BY <1>6, <1>7, HandEmpty, Zenon
  <2>2. d # fd
    BY <1>2, Zenon
  <2>3. LocalsSound(p)'
    BY <1>3, <1>6, <1>7, <1>8, <2>2, Zenon DEF LocalsSound
  <2>4. LifeSound(p)'
    BY <1>1, <1>9, Zenon DEF LifeSound
  <2> QED
    BY <2>1, <2>3, <2>4, Zenon
<1> QED
  BY <1>10, <1>12, <1>13, <1>14, <1>15, CallsKept, Zenon DEF FdsInv
(* The counts are right when one more is counted and one more is there,     *)
LEMMA CountedGain ==
  ASSUME Counting, Counted, NEW f \in Files, NEW p \in Procs, NEW e \in -1 .. NOFILE - 1,
         ref'[f] = ref[f] + 1, \A g \in Files \ {f} : ref'[g] = ref[g], ~Refers(p, e, f),
         \A g \in Files, q \in Procs, d \in -1 .. NOFILE - 1 :
           Refers(q, d, g)' <=> (Refers(q, d, g) \/ (g = f /\ q = p /\ d = e))
  PROVE  Counted' /\ \A g \in Files : ref'[g] = 0 => ref[g] = 0
<1>2. ASSUME NEW g \in Files PROVE ref'[g] = Cardinality(References(g))'
  <2>1. ref[g] = Cardinality(References(g))
    BY Zenon DEF Counted
  <2>2. CASE g = f
    <3>1. Cardinality(References(f))' = Cardinality(References(f)) + 1
      BY CountGain, Zenon
    <3> QED
      BY <2>1, <2>2, <3>1, Zenon
  <2>3. CASE g # f
    <3>1. Cardinality(References(g))' = Cardinality(References(g))
      BY <2>3, CountSame, Zenon
    <3> QED
      BY <2>1, <2>3, <3>1, Zenon
  <2> QED
    BY <2>2, <2>3, Zenon
<1>3. ASSUME NEW g \in Files, ref'[g] = 0 PROVE ref[g] = 0
  <2>1. ref[g] \in Nat
    BY ReferencesFinite, Zenon DEF Counted
  <2> QED
    BY <1>3, <2>1
<1> QED
  BY <1>2, <1>3, Zenon DEF Counted

(* and when one less is.                                                    *)
LEMMA CountedLose ==
  ASSUME Counting, Counted, NEW f \in Files, NEW p \in Procs, NEW e \in -1 .. NOFILE - 1,
         ref'[f] = ref[f] - 1, \A g \in Files \ {f} : ref'[g] = ref[g], Refers(p, e, f),
         \A g \in Files, q \in Procs, d \in -1 .. NOFILE - 1 :
           Refers(q, d, g)' <=> (Refers(q, d, g) /\ ~(g = f /\ q = p /\ d = e))
  PROVE  Counted'
<1>2. ASSUME NEW g \in Files PROVE ref'[g] = Cardinality(References(g))'
  <2>1. ref[g] = Cardinality(References(g))
    BY Zenon DEF Counted
  <2>2. CASE g = f
    <3>1. Cardinality(References(f))' = Cardinality(References(f)) - 1
      BY CountLose
    <3> QED
      BY <2>1, <2>2, <3>1, Zenon
  <2>3. CASE g # f
    <3>1. Cardinality(References(g))' = Cardinality(References(g))
      BY <2>3, CountSame, Zenon
    <3> QED
      BY <2>1, <2>3, <3>1, Zenon
  <2> QED
    BY <2>2, <2>3, Zenon
<1> QED
  BY <1>2, Zenon DEF Counted

(* its filedup() counts it.                                                 *)
LEMMA DupRefKept ==
  ASSUME Counting, FdsInv, NEW p \in Procs, DupRef(p)
  PROVE  FdsInv'
<1>1. FdsType /\ call[p].at = "dup" /\ closing[p] = {} /\ call[p].fs = <<>> /\ p \in alive
  BY Alive, Zenon DEF FdsInv, CallsSound, DupRef, At, HandSound
<1>2. PICK f \in Files, fd \in Fd : call[p].f = f /\ call[p].fd = fd /\ ofile[p][fd] = f
  BY <1>1, CallFields DEF FdsInv, CallsSound, LocalsSound
<1>3. UNCHANGED <<type, ofile, alive, ends, closing>> /\ ref' = [ref EXCEPT ![f] = @ + 1]
  BY <1>2, Zenon DEF DupRef, filedup
<1>4. call'[p] = Idle /\ (\A q \in Procs \ {p} : call'[q] = call[q]) /\ call' \in [Procs -> Calls]
  BY <1>1, EnterEffect, IdleFields, Zenon DEF DupRef, Return
<1>5. \A g \in Files, q \in Procs, k \in -1 .. NOFILE - 1 :
        Refers(q, k, g)' <=> (Refers(q, k, g) \/ (g = f /\ q = p /\ k = fd))
  <2> TAKE g \in Files, q \in Procs, k \in -1 .. NOFILE - 1
  <2>1. CASE q # p
    BY <1>3, <1>4, <2>1, OtherRefers, Zenon
  <2>2. CASE q = p /\ k = -1
    BY <1>1, <1>4, <2>2, HandRefers, HandRefersNext, IdleFields, Places, Zenon
  <2>3. CASE q = p /\ k # -1
    <3>1. k \in Fd
      BY <2>3, Places, Zenon
    <3>2. Refers(p, k, g) <=> ofile[p][k] = g /\ k # fd
      BY <1>1, <1>2, <3>1, FdRefers
    <3>3. Refers(p, k, g)' <=> ofile'[p][k] = g
      BY <1>4, <3>1, FdPlainNext, IdleFields
    <3> QED
      BY <1>2, <1>3, <2>3, <3>1, <3>2, <3>3, Zenon
  <2> QED
    BY <2>1, <2>2, <2>3, Zenon
<1>6. ~Refers(p, fd, f)
  BY <1>1, <1>2, FdRefers, Zenon
<1>7. Counted' /\ ref' \in [Files -> Int] /\ \A g \in Files : ref'[g] = 0 => ref[g] = 0
  <2>1. Counted /\ fd \in -1 .. NOFILE - 1 /\ ref[f] \in Int
    BY <1>1, Places, Zenon DEF FdsInv, FdsType
  <2>2. ref' \in [Files -> Int] /\ ref'[f] = ref[f] + 1 /\ \A g \in Files \ {f} : ref'[g] = ref[g]
    BY <1>1, <1>3 DEF FdsType
  <2> QED
    BY <1>5, <1>6, <2>1, <2>2, CountedGain
<1>8. FdsType'
  BY <1>1, <1>3, <1>4, <1>7, Zenon DEF FdsType
<1>9. EndsSound'
  BY <1>3, <1>7, EndsSame, Zenon DEF FdsInv
<1>10. \A q \in Procs \ {p} : HandSound(q)' /\ Private(q)' /\ LocalsSound(q)' /\ LifeSound(q)'
  <2>1. Leaves(p)
    BY <1>3, <1>4, HandRefersNext, IdleFields, Zenon DEF Fresh, Leaves
  <2>2. Frame(p)
    BY <1>1, <1>3, <1>4, IdleFields, Zenon DEF Frame
  <2> QED
    BY <2>1, <2>2, OthersKept, Zenon
<1>11. HandSound(p)' /\ Private(p)' /\ LocalsSound(p)' /\ LifeSound(p)'
  BY <1>1, <1>3, <1>4, HandEmpty, IdleFields, Zenon DEF LocalsSound, LifeSound
<1> QED
  BY <1>7, <1>8, <1>9, <1>10, <1>11, CallsKept, Zenon DEF FdsInv

(* close() takes the file from the descriptor into its hand, without a      *)
(* change of the count.                                                     *)
LEMMA CloseKept ==
  ASSUME Counting, FdsInv, NEW p \in Procs, sys_close(p)
  PROVE  FdsInv'
<1>1. FdsType /\ p \in alive /\ call[p].at = "idle" /\ closing[p] = {} /\ call[p].fs = <<>>
  BY Zenon DEF FdsInv, CallsSound, sys_close, Ready, At, HandSound
<1>2. PICK d \in Fd : /\ ofile[p][d] # 0 /\ SetFd(p, d, 0)
                      /\ Enter(p, Doing("close", <<ofile[p][d]>>))
  BY Zenon DEF sys_close, FreeFds
<1>3. PICK f \in Files : ofile[p][d] = f
  BY <1>1, <1>2, Taken, Zenon
<1>4. 0 \in 0 .. NFILE /\ 0 \notin Files
  BY FdsAssumption DEF Files
<1>5. PICK c : c = Doing("close", <<f>>)
  BY Zenon
<1>6. c \in Calls /\ c.at = "close" /\ c.fs = <<f>>
  BY <1>5, DoingType, DoingFields, InHands, Zenon
<1>7. call'[p] = c /\ (\A q \in Procs \ {p} : call'[q] = call[q]) /\ call' \in [Procs -> Calls]
  BY <1>1, <1>2, <1>3, <1>5, <1>6, EnterEffect, Zenon
<1>8. /\ ofile'[p][d] = 0 /\ \A k \in Fd \ {d} : ofile'[p][k] = ofile[p][k]
      /\ \A q \in Procs \ {p} : ofile'[q] = ofile[q]
      /\ ofile' \in [Procs -> [Fd -> 0 .. NFILE]]
  BY <1>1, <1>2, <1>4, SetFdEffect, Zenon
<1>9. UNCHANGED <<ref, type, alive, ends, closing>>
  BY Zenon DEF sys_close
<1>10. FdsType'
  BY <1>1, <1>7, <1>8, <1>9, Zenon DEF FdsType
<1>11. \A g \in Files, q \in Procs, k \in -1 .. NOFILE - 1 :
         Refers(q, k, g)' <=> IF g = f THEN (Refers(q, k, g) /\ ~(q = p /\ k = d)) \/ (q = p /\ k = -1)
                              ELSE Refers(q, k, g)
  <2> TAKE g \in Files, q \in Procs, k \in -1 .. NOFILE - 1
  <2>1. CASE q # p
    BY <1>7, <1>8, <2>1, OtherRefers, Zenon
  <2>2. CASE q = p /\ k = -1
    BY <1>1, <1>6, <1>7, <2>2, HandRefers, HandRefersNext, Zenon
  <2>3. CASE q = p /\ k # -1
    <3>1. k \in Fd
      BY <2>3, Places, Zenon
    <3>2. call[p].at # "dup" /\ call'[p].at # "dup"
      BY <1>1, <1>3, <1>4, <1>6, <1>7, <1>8, Zenon
    <3>3. (Refers(p, k, g) <=> ofile[p][k] = g) /\ (Refers(p, k, g)' <=> ofile'[p][k] = g)
      BY <3>1, <3>2, FdPlain, FdPlainNext, Zenon
    <3> QED
      BY <1>1, <1>3, <1>4, <1>6, <1>7, <1>8, <2>3, <3>1, <3>3, Zenon
  <2> QED
    BY <2>1, <2>2, <2>3, Zenon
<1>12. Counted'
  <2>1. Refers(p, d, f) /\ ~Refers(p, -1, f)
    BY <1>1, <1>3, FdRefers, HandRefers
  <2>2. ASSUME NEW g \in Files PROVE ref'[g] = Cardinality(References(g))'
    <3>1. CASE g = f
      <4>1. Cardinality(References(f))' = Cardinality(References(f))
        BY <1>11, <2>1, CountMove, Places
      <4> QED
        BY <1>9, <3>1, <4>1, Zenon DEF FdsInv, Counted
    <3>2. CASE g # f
      <4>1. Cardinality(References(g))' = Cardinality(References(g))
        BY <1>11, <3>2, CountSame, Zenon
      <4> QED
        BY <1>9, <4>1, Zenon DEF FdsInv, Counted
    <3> QED
      BY <3>1, <3>2, Zenon
  <2> QED
    BY <2>2, Zenon DEF Counted
<1>13. EndsSound'
  BY <1>9, EndsSame, Zenon DEF FdsInv
<1>14. \A q \in Procs \ {p} : HandSound(q)' /\ Private(q)' /\ LocalsSound(q)' /\ LifeSound(q)'
  <2>1. Leaves(p)
    <3> SUFFICES ASSUME NEW g \in Files, ref[g] > 0, Fresh(g), ~Refers(p, -1, g)
                 PROVE  type'[g] = FD_NONE /\ ~Refers(p, -1, g)' /\ \A k \in Fd : ofile'[p][k] # g
      BY Zenon DEF Leaves
    <3>1. g # f /\ \A k \in Fd : ofile[p][k] # g
      BY <1>3, Zenon DEF Fresh
    <3>2. ~Refers(p, -1, g)'
      BY <1>11, <3>1, Places, Zenon
    <3> QED
      BY <1>4, <1>8, <1>9, <3>1, <3>2, Zenon DEF Fresh
  <2>2. Frame(p)
    BY <1>1, <1>6, <1>7, <1>8, <1>9, Zenon DEF Frame
  <2> QED
    BY <2>1, <2>2, OthersKept, Zenon
<1>15. HandSound(p)' /\ Private(p)' /\ LocalsSound(p)' /\ LifeSound(p)'
  <2>1. <<f>> # <<>> /\ Len(<<f>>) # 2
    OBVIOUS
  <2>2. HandSound(p)'
    BY <1>6, <1>7, <2>1, Zenon DEF HandSound
  <2> QED
    BY <1>1, <1>6, <1>7, <1>9, <2>2, Zenon DEF Private, LocalsSound, LifeSound
<1> QED
  BY <1>10, <1>12, <1>13, <1>14, <1>15, CallsKept, Zenon DEF FdsInv
(* fileclose() frees the entry with the last reference, and an end of a     *)
(* pipe goes from the entry to the process that will close it.              *)
LEMMA CloseEnds ==
  ASSUME FdsType, EndsSound, NEW p \in Procs, NEW f \in Files, ref[f] > 0, closing[p] = {},
         fileclose(p, f), UNCHANGED ends
  PROVE  /\ EndsSound' /\ type' \in [Files -> Ends \cup {FD_NONE, FD_INODE}]
         /\ closing' \in [Procs -> SUBSET Ends]
         /\ \A q \in Procs \ {p} : closing'[q] = closing[q]
         /\ \A g \in Files : type[g] = FD_NONE => type'[g] = FD_NONE
<1>1. CASE ref[f] # 1
  <2>1. UNCHANGED <<type, closing>>
    BY <1>1, Zenon DEF fileclose
  <2>2. \A g \in Files : ref'[g] = 0 => ref[g] = 0
    BY <1>1 DEF fileclose, FdsType
  <2> QED
    BY <2>1, <2>2, EndsSame, Zenon DEF FdsType
<1>2. CASE ref[f] = 1
  <2>1. /\ type'[f] = FD_NONE /\ \A g \in Files \ {f} : type'[g] = type[g]
        /\ type' \in [Files -> Ends \cup {FD_NONE, FD_INODE}]
    BY <1>2, Zenon DEF fileclose, FdsType
  <2>2. /\ closing'[p] = {type[f]} \cap Ends /\ \A q \in Procs \ {p} : closing'[q] = closing[q]
        /\ closing' \in [Procs -> SUBSET Ends]
    BY <1>2, Zenon DEF fileclose, FdsType, EndOf
  <2>3. \A g \in Files \ {f} : ref'[g] = ref[g]
    BY Zenon DEF fileclose, FdsType
  <2>4. \A g \in Files : ref'[g] = 0 => type'[g] = FD_NONE
    BY <2>1, <2>3, Zenon DEF EndsSound
  <2>5. \A g, h \in Files : g # h /\ type'[g] = type'[h] => type'[g] \notin Ends
    BY <2>1, EndsApart, Zenon DEF EndsSound
  <2>6. \A q \in Procs, g \in Files : type'[g] \notin closing'[q]
    <3> TAKE q \in Procs, g \in Files
    <3>1. CASE g = f
      BY <2>1, <2>2, <3>1, EndsApart, Zenon
    <3>2. CASE g # f /\ q = p
      BY <2>1, <2>2, <3>2 DEF EndsSound
    <3>3. CASE g # f /\ q # p
      BY <2>1, <2>2, <3>3, Zenon DEF EndsSound
    <3> QED
      BY <3>1, <3>2, <3>3, Zenon
  <2>7. \A q, k \in Procs : q # k => closing'[q] \cap closing'[k] = {}
    <3>1. \A q \in Procs \ {p} : closing'[q] \cap closing'[p] = {}
      BY <2>2 DEF EndsSound
    <3> QED
      BY <2>2, <3>1 DEF EndsSound
  <2>8. \A e \in Ends : e \in ends' <=> (\E g \in Files : type'[g] = e) \/ (\E q \in Procs : e \in closing'[q])
    <3> TAKE e \in Ends
    <3>1. e \in ends' <=> (\E g \in Files : type[g] = e) \/ (\E q \in Procs : e \in closing[q])
      BY Zenon DEF EndsSound
    <3>2. e # FD_NONE
      BY EndsApart, Zenon
    <3>3. (\E g \in Files : type[g] = e) <=> (e \in closing'[p] \/ \E g \in Files : type'[g] = e)
      BY <2>1, <2>2, <3>2, Zenon
    <3>4. (\E q \in Procs : e \in closing'[q]) <=> (e \in closing'[p] \/ \E q \in Procs : e \in closing[q])
      BY <2>2, Zenon
    <3> QED
      BY <3>1, <3>3, <3>4, Zenon
  <2>9. EndsSound'
    BY <2>4, <2>5, <2>6, <2>7, <2>8, Zenon DEF EndsSound
  <2> QED
    BY <2>1, <2>2, <2>9, Zenon
<1> QED
  BY <1>1, <1>2, Zenon

(* filealloc(): the entry had no reference, and the call has its first.     *)
LEMMA AllocKept ==
  ASSUME Counting, FdsInv, NEW p \in Procs, NEW lab \in {"open", "pipe1"}, Ready(p),
         NEW f \in Files, filealloc(f), Enter(p, Doing(lab, <<f>>)),
         UNCHANGED <<type, ofile, alive, ends, closing>>
  PROVE  FdsInv'
<1>1. FdsType /\ p \in alive /\ call[p].at = "idle" /\ closing[p] = {} /\ call[p].fs = <<>>
  BY Zenon DEF FdsInv, CallsSound, Ready, At, HandSound
<1>2. ref[f] = 0 /\ ref' = [ref EXCEPT ![f] = 1]
  BY Zenon DEF filealloc, Lowest, FreeFiles
<1>3. /\ type[f] = FD_NONE
      /\ \A q \in Procs, d \in -1 .. NOFILE - 1 : ~Refers(q, d, f)
      /\ \A q \in Procs, d \in Fd : ofile[q][d] # f
  BY <1>2, Unreferred, Zenon
<1>4. PICK c : c = Doing(lab, <<f>>)
  BY Zenon
<1>5. c \in Calls /\ c.at = lab /\ c.fs = <<f>>
  BY <1>4, DoingType, DoingFields, InHands, Zenon
<1>6. call'[p] = c /\ (\A q \in Procs \ {p} : call'[q] = call[q]) /\ call' \in [Procs -> Calls]
  BY <1>1, <1>4, <1>5, EnterEffect, Zenon
<1>7. \A g \in Files, q \in Procs, k \in -1 .. NOFILE - 1 :
        Refers(q, k, g)' <=> (Refers(q, k, g) \/ (g = f /\ q = p /\ k = -1))
  <2> TAKE g \in Files, q \in Procs, k \in -1 .. NOFILE - 1
  <2>1. CASE q # p
    BY <1>6, <2>1, OtherRefers, Zenon
  <2>2. CASE q = p /\ k = -1
    BY <1>1, <1>5, <1>6, <2>2, HandRefers, HandRefersNext
  <2>3. CASE q = p /\ k # -1
    <3>1. k \in Fd
      BY <2>3, Places, Zenon
    <3>2. call[p].at # "dup" /\ call'[p].at # "dup"
      BY <1>1, <1>5, <1>6, Zenon
    <3>3. (Refers(p, k, g) <=> ofile[p][k] = g) /\ (Refers(p, k, g)' <=> ofile'[p][k] = g)
      BY <3>1, <3>2, FdPlain, FdPlainNext, Zenon
    <3> QED
      BY <1>1, <1>5, <1>6, <2>3, <3>1, <3>3, Zenon
  <2> QED
    BY <2>1, <2>2, <2>3, Zenon
<1>8. Counted' /\ ref' \in [Files -> Int] /\ \A g \in Files : ref'[g] = 0 => ref[g] = 0
  <2>1. Counted /\ -1 \in -1 .. NOFILE - 1
    BY Places, Zenon DEF FdsInv
  <2>2. ref' \in [Files -> Int] /\ ref'[f] = ref[f] + 1 /\ \A g \in Files \ {f} : ref'[g] = ref[g]
    BY <1>1, <1>2 DEF FdsType
  <2>3. ~Refers(p, -1, f)
    BY <1>3, <2>1, Zenon
  <2> QED
    BY <1>7, <2>1, <2>2, <2>3, CountedGain, ZenonT(30)
<1>9. FdsType'
  BY <1>1, <1>6, <1>8, Zenon DEF FdsType
<1>10. EndsSound'
  BY <1>8, EndsSame, Zenon DEF FdsInv
<1>11. \A q \in Procs \ {p} : HandSound(q)' /\ Private(q)' /\ LocalsSound(q)' /\ LifeSound(q)'
  <2>1. Leaves(p)
    <3> SUFFICES ASSUME NEW g \in Files, ref[g] > 0, Fresh(g), ~Refers(p, -1, g)
                 PROVE  type'[g] = FD_NONE /\ ~Refers(p, -1, g)' /\ \A k \in Fd : ofile'[p][k] # g
      BY Zenon DEF Leaves
    <3>1. g # f
      BY <1>2
    <3>2. ~Refers(p, -1, g)'
      BY <1>7, <3>1, Places, Zenon
    <3> QED
      BY <3>2, Zenon DEF Fresh
  <2>2. Frame(p)
    BY <1>1, <1>5, <1>6, Zenon DEF Frame
  <2> QED
    BY <2>1, <2>2, OthersKept, Zenon
<1>12. HandSound(p)' /\ Private(p)' /\ LocalsSound(p)' /\ LifeSound(p)'
  <2>1. call'[p].fs = <<f>> /\ call'[p].at = lab
    BY <1>5, <1>6, Zenon
  <2>2. HandSound(p)'
    BY <2>1, HandOne, Zenon
  <2>0. call'[p].fs[1] = f
    BY <2>1
  <2>3. \A q \in Procs \ {p} : ~Refers(q, -1, f)'
    BY <1>3, <1>7, Places, Zenon
  <2>4. Private(p)'
    BY <1>3, <2>0, <2>3, Zenon DEF Private
  <2> QED
    BY <1>1, <1>5, <1>6, <2>2, <2>4, Zenon DEF LocalsSound, LifeSound
<1> QED
  BY <1>8, <1>9, <1>10, <1>11, <1>12, CallsKept, Zenon DEF FdsInv

(* fileclose() of what a call has in hand.                                  *)
LEMMA CloseNextKept ==
  ASSUME Counting, FdsInv, NEW p \in Procs, CloseNext(p)
  PROVE  FdsInv'
<1>1. FdsType /\ call[p].at = "close" /\ closing[p] = {} /\ p \in alive /\ HandSound(p)
  BY Alive, Zenon DEF FdsInv, CallsSound, CloseNext, At
<1>2. PICK f \in Files, fs \in Hands :
        /\ call[p].fs[1] = f
        /\ Refers(p, -1, f)
        /\ \/ call[p].fs = <<f>> /\ fs = <<>> /\ Return(p)
           \/ /\ \E g \in Files : g # f /\ call[p].fs = <<f, g>> /\ fs = <<g>>
              /\ Enter(p, Doing("close", fs))
  <2>1. call[p].fs \in Hands /\ call[p].fs # <<>>
    BY <1>1, CallFields, Zenon DEF HandSound
  <2>2. CASE \E f \in Files : call[p].fs = <<f>>
    <3>1. PICK f \in Files : call[p].fs = <<f>>
      BY <2>2, Zenon
    <3>2. call[p].fs[1] = f /\ Len(call[p].fs) = 1
      BY <3>1
    <3>3. Refers(p, -1, f) /\ Return(p)
      BY <3>1, <3>2, HandRefers, Zenon DEF CloseNext
    <3> QED
      BY <3>1, <3>2, <3>3, InHands, Zenon
  <2>3. CASE \E f, g \in Files : call[p].fs = <<f, g>>
    <3>1. PICK f \in Files, g \in Files : call[p].fs = <<f, g>>
      BY <2>3, Zenon
    <3>2. call[p].fs[1] = f /\ Len(call[p].fs) = 2 /\ Tail(call[p].fs) = <<g>> /\ call[p].fs[2] = g
      BY <3>1
    <3>3. f # g
      BY <1>1, <3>2, Zenon DEF HandSound
    <3>4. Refers(p, -1, f) /\ Enter(p, Doing("close", <<g>>))
      BY <3>1, <3>2, HandRefers DEF CloseNext
    <3> QED
      BY <3>1, <3>2, <3>3, <3>4, InHands, Zenon
  <2> QED
    BY <2>1, <2>2, <2>3 DEF Hands
<1>3. ref[f] > 0
  BY <1>2, Referred, Places, Zenon
<1>4. fileclose(p, f) /\ UNCHANGED <<ofile, alive, ends>>
  BY <1>2, Zenon DEF CloseNext
<1>5. PICK c \in Calls : c.fs = fs /\ c.at = (IF fs = <<>> THEN "idle" ELSE "close") /\ Enter(p, c)
  <2>1. CASE fs = <<>> /\ Return(p)
    BY <2>1, IdleFields, Zenon DEF Return
  <2>2. CASE (\E g \in Files : fs = <<g>>) /\ Enter(p, Doing("close", fs))
    <3>1. fs # <<>>
      BY <2>2
    <3> QED
      BY <2>2, <3>1, DoingType, DoingFields
  <2> QED
    BY <1>2, <2>1, <2>2, Zenon
<1>6. call'[p] = c /\ (\A q \in Procs \ {p} : call'[q] = call[q]) /\ call' \in [Procs -> Calls]
  BY <1>1, <1>5, EnterEffect, Zenon
<1>7. \A g \in Files : Refers(p, -1, g)' <=> (Refers(p, -1, g) /\ g # f)
  <2> TAKE g \in Files
  <2>1. CASE call[p].fs = <<f>> /\ fs = <<>>
    BY <1>5, <1>6, <2>1, HandRefers, HandRefersNext, Zenon
  <2>2. CASE \E h \in Files : h # f /\ call[p].fs = <<f, h>> /\ fs = <<h>>
    BY <1>5, <1>6, <2>2, HandRefers, HandRefersNext
  <2> QED
    BY <1>2, <2>1, <2>2, Zenon
<1>8. \A g \in Files, q \in Procs, k \in -1 .. NOFILE - 1 :
        Refers(q, k, g)' <=> (Refers(q, k, g) /\ ~(g = f /\ q = p /\ k = -1))
  <2> TAKE g \in Files, q \in Procs, k \in -1 .. NOFILE - 1
  <2>1. CASE q # p
    BY <1>4, <1>6, <2>1, OtherRefers, Zenon
  <2>2. CASE q = p /\ k = -1
    BY <1>7, <2>2, Zenon
  <2>3. CASE q = p /\ k # -1
    <3>1. k \in Fd
      BY <2>3, Places, Zenon
    <3>2. call[p].at # "dup" /\ call'[p].at # "dup"
      BY <1>1, <1>4, <1>5, <1>6, Zenon
    <3>3. (Refers(p, k, g) <=> ofile[p][k] = g) /\ (Refers(p, k, g)' <=> ofile'[p][k] = g)
      BY <3>1, <3>2, FdPlain, FdPlainNext, Zenon
    <3> QED
      BY <1>1, <1>4, <1>5, <1>6, <2>3, <3>1, <3>3, Zenon
  <2> QED
    BY <2>1, <2>2, <2>3, Zenon
<1>9. Counted' /\ ref' \in [Files -> Int]
  <2>1. Counted /\ -1 \in -1 .. NOFILE - 1 /\ ref[f] \in Int
    BY <1>1, Places, Zenon DEF FdsInv, FdsType
  <2>2. ref' \in [Files -> Int] /\ ref'[f] = ref[f] - 1 /\ \A g \in Files \ {f} : ref'[g] = ref[g]
    BY <1>1, <1>4 DEF fileclose, FdsType
  <2> QED
    BY <1>2, <1>8, <2>1, <2>2, CountedLose, Zenon
<1>10. /\ EndsSound' /\ type' \in [Files -> Ends \cup {FD_NONE, FD_INODE}]
       /\ closing' \in [Procs -> SUBSET Ends]
       /\ \A q \in Procs \ {p} : closing'[q] = closing[q]
       /\ \A g \in Files : type[g] = FD_NONE => type'[g] = FD_NONE
  <2>1. EndsSound
    BY Zenon DEF FdsInv
  <2> QED
    BY <1>1, <1>3, <1>4, <2>1, CloseEnds, Zenon
<1>11. FdsType'
  BY <1>1, <1>4, <1>6, <1>9, <1>10, Zenon DEF FdsType
<1>12. \A q \in Procs \ {p} : HandSound(q)' /\ Private(q)' /\ LocalsSound(q)' /\ LifeSound(q)'
  <2>1. Leaves(p)
    BY <1>4, <1>7, <1>10, Zenon DEF Fresh, Leaves
  <2>2. call[p].at # "fork" /\ call'[p].at # "fork"
    BY <1>1, <1>5, <1>6, Zenon
  <2>3. Frame(p)
    BY <1>1, <1>4, <1>6, <1>10, <2>2, Zenon DEF Frame
  <2> QED
    BY <2>1, <2>3, OthersKept, Zenon
<1>13. HandSound(p)' /\ Private(p)' /\ LocalsSound(p)' /\ LifeSound(p)'
  <2>1. CASE fs = <<>>
    BY <1>1, <1>4, <1>5, <1>6, <2>1, HandEmpty, Zenon DEF LocalsSound, LifeSound
  <2>2. CASE \E h \in Files : fs = <<h>>
    <3>1. fs # <<>> /\ Len(fs) # 2
      BY <2>2
    <3>2. HandSound(p)'
      BY <1>5, <1>6, <3>1, Zenon DEF HandSound
    <3> QED
      BY <1>1, <1>4, <1>5, <1>6, <3>1, <3>2, Zenon DEF Private, LocalsSound, LifeSound
  <2> QED
    BY <1>2, <2>1, <2>2, Zenon
<1> QED
  BY <1>9, <1>10, <1>11, <1>12, <1>13, CallsKept, Zenon DEF FdsInv
(* A call that fails closes what it has in hand.                            *)
LEMMA GiveUpKept ==
  ASSUME Counting, FdsInv, NEW p \in Procs, call[p].at \in {"open", "pipe1", "pipe2"}, closing[p] = {},
         Enter(p, Doing("close", call[p].fs)), UNCHANGED <<ref, type, ofile, alive, ends, closing>>
  PROVE  FdsInv'
<1>1. FdsType /\ p \in alive /\ HandSound(p) /\ call[p].fs \in Hands
  BY Alive, CallFields, Zenon DEF FdsInv, CallsSound
<1>2. PICK fs \in Hands : call[p].fs = fs
  BY <1>1, Zenon
<1>3. fs # <<>> /\ (Len(fs) = 2 => fs[1] # fs[2])
  <2>1. \A f, g \in Files : <<f>> # <<>> /\ <<f, g>> # <<>>
    BY Zenon
  <2> QED
    BY <1>1, <1>2, <2>1, Zenon DEF HandSound
<1>4. PICK c \in Calls : c.at = "close" /\ c.fs = fs /\ Enter(p, c)
  BY <1>2, DoingType, DoingFields
<1>5. call'[p] = c /\ (\A q \in Procs \ {p} : call'[q] = call[q]) /\ call' \in [Procs -> Calls]
  BY <1>1, <1>4, EnterEffect, Zenon
<1>6. FdsType'
  BY <1>1, <1>5, Zenon DEF FdsType
<1>7. \A g \in Files, q \in Procs, k \in -1 .. NOFILE - 1 : Refers(q, k, g)' <=> Refers(q, k, g)
  <2> TAKE g \in Files, q \in Procs, k \in -1 .. NOFILE - 1
  <2>1. CASE q # p
    BY <1>5, <2>1, OtherRefers, Zenon
  <2>2. CASE q = p /\ k = -1
    BY <1>2, <1>4, <1>5, <2>2, Zenon DEF Refers
  <2>3. CASE q = p /\ k # -1
    <3>1. k \in Fd
      BY <2>3, Places, Zenon
    <3>2. call[p].at # "dup" /\ call'[p].at # "dup"
      BY <1>4, <1>5, Zenon
    <3>3. (Refers(p, k, g) <=> ofile[p][k] = g) /\ (Refers(p, k, g)' <=> ofile'[p][k] = g)
      BY <3>1, <3>2, FdPlain, FdPlainNext, Zenon
    <3> QED
      BY <1>4, <1>5, <2>3, <3>1, <3>3, Zenon
  <2> QED
    BY <2>1, <2>2, <2>3, Zenon
<1>8. Counted' /\ EndsSound'
  BY <1>7, CountedSame, EndsSame, Zenon DEF FdsInv
<1>9. \A q \in Procs \ {p} : HandSound(q)' /\ Private(q)' /\ LocalsSound(q)' /\ LifeSound(q)'
  <2>1. Leaves(p)
    BY <1>7, Places, Zenon DEF Fresh, Leaves
  <2>2. call[p].at # "fork" /\ call'[p].at # "fork"
    BY <1>4, <1>5, Zenon
  <2>3. Frame(p)
    BY <1>1, <1>5, <2>2 DEF Frame
  <2> QED
    BY <2>1, <2>3, OthersKept, Zenon
<1>10. HandSound(p)' /\ Private(p)' /\ LocalsSound(p)' /\ LifeSound(p)'
  <2>1. HandSound(p)'
    BY <1>3, <1>4, <1>5, Zenon DEF HandSound
  <2> QED
    BY <1>1, <1>4, <1>5, <2>1, Zenon DEF Private, LocalsSound, LifeSound
<1> QED
  BY <1>6, <1>8, <1>9, <1>10, CallsKept, Zenon DEF FdsInv

(* open() makes an entry stand for an inode.                                *)
LEMMA EndsPlain ==
  ASSUME EndsSound, NEW f \in Files, ref[f] > 0, type[f] \notin Ends, type'[f] = FD_INODE,
         \A g \in Files \ {f} : type'[g] = type[g], UNCHANGED <<ref, ends, closing>>,
         FdsType
  PROVE  EndsSound'
<1>1. \A g \in Files : ref'[g] = 0 => type'[g] = FD_NONE
  BY DEF EndsSound
<1>2. \A g, h \in Files : g # h /\ type'[g] = type'[h] => type'[g] \notin Ends
  BY EndsApart, Zenon DEF EndsSound
<1>3. \A q \in Procs, g \in Files : type'[g] \notin closing'[q]
  BY EndsApart, Zenon DEF EndsSound, FdsType
<1>4. \A q, k \in Procs : q # k => closing'[q] \cap closing'[k] = {}
  BY Zenon DEF EndsSound
<1>5. \A e \in Ends : (\E g \in Files : type'[g] = e) <=> (\E g \in Files : type[g] = e)
  BY EndsApart, Zenon
<1>6. \A e \in Ends : e \in ends' <=> (\E g \in Files : type'[g] = e) \/ (\E q \in Procs : e \in closing'[q])
  BY <1>5, Zenon DEF EndsSound
<1> QED
  BY <1>1, <1>2, <1>3, <1>4, <1>6, Zenon DEF EndsSound

(* open(): the reference moves from the hand to the descriptor.             *)
LEMMA OpenFdKept ==
  ASSUME Counting, FdsInv, NEW p \in Procs, OpenFd(p)
  PROVE  FdsInv'
<1>1. FdsType /\ call[p].at = "open" /\ closing[p] = {} /\ p \in alive /\ HandSound(p) /\ Private(p)
  BY Alive, Zenon DEF FdsInv, CallsSound, OpenFd, At
<1>2. PICK f \in Files : call[p].fs = <<f>> /\ call[p].fs[1] = f
  <2>1. PICK f \in Files : call[p].fs = <<f>>
    BY <1>1, Zenon DEF HandSound
  <2> QED
    BY <2>1
<1>3. UNCHANGED <<ref, alive, ends, closing>>
  BY Zenon DEF OpenFd
<1>4. CASE Enter(p, Doing("close", <<f>>)) /\ UNCHANGED <<ofile, type>>
  BY <1>1, <1>2, <1>3, <1>4, GiveUpKept, Zenon
<1>5. CASE /\ \E d \in Fd : fdalloc(p, d, f)
           /\ type' = [type EXCEPT ![f] = FD_INODE] /\ Return(p)
  <2>1. PICK d \in Fd : ofile[p][d] = 0 /\ SetFd(p, d, f)
    BY <1>5, Zenon DEF fdalloc, Lowest, FreeFds
  <2>2. f \in 0 .. NFILE /\ 0 \notin Files
    BY FdsAssumption DEF Files
  <2>3. /\ ofile'[p][d] = f /\ \A k \in Fd \ {d} : ofile'[p][k] = ofile[p][k]
        /\ \A q \in Procs \ {p} : ofile'[q] = ofile[q]
        /\ ofile' \in [Procs -> [Fd -> 0 .. NFILE]]
    BY <1>1, <2>1, <2>2, SetFdEffect, Zenon
  <2>4. call'[p] = Idle /\ (\A q \in Procs \ {p} : call'[q] = call[q]) /\ call' \in [Procs -> Calls]
    BY <1>1, <1>5, EnterEffect, IdleFields, Zenon DEF Return
  <2>5. /\ type'[f] = FD_INODE /\ \A g \in Files \ {f} : type'[g] = type[g]
        /\ type' \in [Files -> Ends \cup {FD_NONE, FD_INODE}]
    BY <1>1, <1>5, Zenon DEF FdsType
  <2>6. /\ type[f] = FD_NONE
        /\ \A k \in Procs, e \in Fd : ofile[k][e] # f
        /\ \A k \in Procs \ {p} : ~Refers(k, -1, f)
    BY <1>1, <1>2, PrivateMeans, Zenon
  <2>7. FdsType'
    BY <1>1, <1>3, <2>3, <2>4, <2>5, Zenon DEF FdsType
  <2>8. \A g \in Files, q \in Procs, k \in -1 .. NOFILE - 1 :
          Refers(q, k, g)' <=> IF g = f THEN (Refers(q, k, g) /\ ~(q = p /\ k = -1)) \/ (q = p /\ k = d)
                               ELSE Refers(q, k, g)
    <3> TAKE g \in Files, q \in Procs, k \in -1 .. NOFILE - 1
    <3>1. CASE q # p
      BY <2>3, <2>4, <3>1, OtherRefers, Zenon
    <3>2. CASE q = p /\ k = -1
      BY <1>2, <2>4, <3>2, HandRefers, HandRefersNext, IdleFields, Places
    <3>3. CASE q = p /\ k # -1
      <4>1. k \in Fd
        BY <3>3, Places
      <4>2. call[p].at # "dup" /\ call'[p].at # "dup"
        BY <1>1, <2>1, <2>2, <2>3, <2>4, IdleFields, Zenon
      <4>3. (Refers(p, k, g) <=> ofile[p][k] = g) /\ (Refers(p, k, g)' <=> ofile'[p][k] = g)
        BY <4>1, <4>2, FdPlain, FdPlainNext, Zenon
      <4> QED
        BY <1>1, <2>1, <2>2, <2>3, <2>4, <3>3, <4>1, <4>3, Zenon
    <3> QED
      BY <3>1, <3>2, <3>3, Zenon
  <2>9. Counted'
    <3>1. Counted /\ Refers(p, -1, f) /\ ~Refers(p, d, f) /\ -1 \in -1 .. NOFILE - 1 /\ d \in -1 .. NOFILE - 1
      BY <1>2, <2>6, HandRefers, FdRefers, Places DEF FdsInv
    <3>2. ASSUME NEW g \in Files PROVE ref'[g] = Cardinality(References(g))'
      <4>1. CASE g = f
        <5>1. Cardinality(References(f))' = Cardinality(References(f))
          BY <2>8, <3>1, CountMove
        <5> QED
          BY <1>3, <3>1, <4>1, <5>1, Zenon DEF Counted
      <4>2. CASE g # f
        <5>1. Cardinality(References(g))' = Cardinality(References(g))
          BY <2>8, <4>2, CountSame, Zenon
        <5> QED
          BY <1>3, <3>1, <5>1, Zenon DEF Counted
      <4> QED
        BY <4>1, <4>2, Zenon
    <3> QED
      BY <3>2, Zenon DEF Counted
  <2>10. EndsSound'
    <3>1. ref[f] > 0
      BY <1>2, HandRefers, Referred, Places, Zenon
    <3> QED
      BY <1>3, <2>5, <2>6, <3>1, EndsApart, EndsPlain, Zenon DEF FdsInv
  <2>11. \A q \in Procs \ {p} : HandSound(q)' /\ Private(q)' /\ LocalsSound(q)' /\ LifeSound(q)'
    <3>1. Leaves(p)
      <4> SUFFICES ASSUME NEW g \in Files, ref[g] > 0, Fresh(g), ~Refers(p, -1, g)
                   PROVE  type'[g] = FD_NONE /\ ~Refers(p, -1, g)' /\ \A k \in Fd : ofile'[p][k] # g
        BY Zenon DEF Leaves
      <4>1. g # f
        BY <1>2, HandRefers, Zenon
      <4>2. ~Refers(p, -1, g)'
        BY <2>8, <4>1, Places, Zenon
      <4> QED
        BY <2>3, <2>5, <4>1, <4>2, Zenon DEF Fresh
    <3>2. Frame(p)
      BY <1>1, <1>3, <2>3, <2>4, IdleFields, Zenon DEF Frame
    <3> QED
      BY <3>1, <3>2, OthersKept
  <2>12. HandSound(p)' /\ Private(p)' /\ LocalsSound(p)' /\ LifeSound(p)'
    BY <1>1, <1>3, <2>4, HandEmpty, IdleFields, Zenon DEF LocalsSound, LifeSound
  <2> QED
    BY <2>7, <2>9, <2>10, <2>11, <2>12, CallsKept, Zenon DEF FdsInv
<1> QED
  BY <1>2, <1>4, <1>5, Zenon DEF OpenFd
(* A call with two files in hand.                                           *)
LEMMA HandTwo ==
  ASSUME NEW p \in Procs, NEW f \in Files, NEW g \in Files, f # g,
         call'[p].fs = <<f, g>>, call'[p].at \in {"close", "pipe2"}
  PROVE  HandSound(p)' /\ Private(p)'
<1>1. call'[p].fs # <<>> /\ call'[p].fs[1] = f /\ call'[p].fs[2] = g
  OBVIOUS
<1>2. HandSound(p)'
  BY <1>1, Zenon DEF HandSound
<1> QED
  BY <1>2, Zenon DEF Private

(* pipealloc(): the ends of the new pipe belong to nobody else.             *)
LEMMA PipeEnds ==
  ASSUME FdsType, EndsSound, NEW f \in Files, NEW g \in Files, f # g, type[f] = FD_NONE, type[g] = FD_NONE,
         PipePage(f, g), UNCHANGED closing,
         ref[f] > 0, ref'[g] > 0, \A h \in Files \ {g} : ref'[h] = ref[h]
  PROVE  /\ EndsSound' /\ type' \in [Files -> Ends \cup {FD_NONE, FD_INODE}] /\ ends' \in SUBSET Ends
         /\ \A h \in Files \ {f, g} : type'[h] = type[h]
<1>0. PICK n \in Files : /\ Lowest(n, Files \ {e[1] : e \in ends})
                         /\ type' = [type EXCEPT ![f] = <<n, "r">>, ![g] = <<n, "w">>]
                         /\ ends' = ends \cup {<<n, "r">>, <<n, "w">>}
  BY Zenon DEF PipePage
<1>1. <<n, "r">> \in Ends /\ <<n, "w">> \in Ends /\ <<n, "r">> # <<n, "w">>
  BY Zenon DEF Ends
<1>2. /\ type'[f] = <<n, "r">> /\ type'[g] = <<n, "w">> /\ \A h \in Files \ {f, g} : type'[h] = type[h]
      /\ type' \in [Files -> Ends \cup {FD_NONE, FD_INODE}]
  BY <1>0, <1>1, Zenon DEF FdsType
<1>3. <<n, "r">> \notin ends /\ <<n, "w">> \notin ends
  BY <1>0 DEF Lowest
<1>4. ASSUME NEW e \in Ends, e \notin ends
      PROVE  (\A h \in Files : type[h] # e) /\ (\A q \in Procs : e \notin closing[q])
  BY <1>4, Zenon DEF EndsSound
<1>5. \A h \in Files : ref'[h] = 0 => type'[h] = FD_NONE
  BY <1>2 DEF EndsSound
<1>6. \A h, k \in Files : h # k /\ type'[h] = type'[k] => type'[h] \notin Ends
  BY <1>1, <1>2, <1>3, <1>4 DEF EndsSound
<1>7. \A q \in Procs, h \in Files : type'[h] \notin closing'[q]
  BY <1>1, <1>2, <1>3, <1>4 DEF EndsSound
<1>8. \A q, k \in Procs : q # k => closing'[q] \cap closing'[k] = {}
  BY Zenon DEF EndsSound
<1>9. \A e \in Ends : e \in ends' <=> (\E h \in Files : type'[h] = e) \/ (\E q \in Procs : e \in closing'[q])
  <2> TAKE e \in Ends
  <2>1. e \in ends <=> (\E h \in Files : type[h] = e) \/ (\E q \in Procs : e \in closing[q])
    BY Zenon DEF EndsSound
  <2>2. (\E h \in Files : type'[h] = e) <=> (e = <<n, "r">> \/ e = <<n, "w">> \/ \E h \in Files : type[h] = e)
    BY <1>2, EndsApart, Zenon
  <2> QED
    BY <1>0, <2>1, <2>2, Zenon
<1>10. ends' \in SUBSET Ends
  BY <1>0, <1>1, Zenon DEF FdsType
<1> QED
  BY <1>2, <1>5, <1>6, <1>7, <1>8, <1>9, <1>10, Zenon DEF EndsSound

(* pipe(): the second entry, and the page of the pipe;                      *)
LEMMA PipeAlloc2Kept ==
  ASSUME Counting, FdsInv, NEW p \in Procs, PipeAlloc2(p)
  PROVE  FdsInv'
<1>1. FdsType /\ call[p].at = "pipe1" /\ closing[p] = {} /\ p \in alive /\ HandSound(p) /\ Private(p)
  BY Alive, Zenon DEF FdsInv, CallsSound, PipeAlloc2, At
<1>2. PICK f \in Files : call[p].fs = <<f>> /\ call[p].fs[1] = f
  <2>1. PICK f \in Files : call[p].fs = <<f>>
    BY <1>1, Zenon DEF HandSound
  <2> QED
    BY <2>1
<1>3. UNCHANGED <<ofile, alive, closing>>
  BY Zenon DEF PipeAlloc2
<1>4. CASE Enter(p, Doing("close", <<f>>)) /\ UNCHANGED <<ref, type, ends>>
  BY <1>1, <1>2, <1>3, <1>4, GiveUpKept, Zenon
<1>5. ASSUME NEW g \in Files, filealloc(g), NEW lab \in {"close", "pipe2"}, Enter(p, Doing(lab, <<f, g>>)),
             \/ UNCHANGED <<type, ends>>
             \/ PipePage(f, g)
      PROVE  FdsInv'
  <2>1. ref[g] = 0 /\ ref' = [ref EXCEPT ![g] = 1]
    BY <1>5, Zenon DEF filealloc, Lowest, FreeFiles
  <2>2. /\ type[g] = FD_NONE
        /\ \A q \in Procs, d \in -1 .. NOFILE - 1 : ~Refers(q, d, g)
        /\ \A q \in Procs, d \in Fd : ofile[q][d] # g
    BY <2>1, Unreferred, Zenon
  <2>3. ref[f] > 0 /\ f # g
    <3>1. Refers(p, -1, f)
      BY <1>2, HandRefers, Zenon
    <3> QED
      BY <3>1, <2>2, Referred, Places, Zenon
  <2>4. /\ type[f] = FD_NONE
        /\ \A k \in Procs, e \in Fd : ofile[k][e] # f
        /\ \A k \in Procs \ {p} : ~Refers(k, -1, f)
    BY <1>1, <1>2, PrivateMeans, Zenon
  <2>5. PICK c \in Calls : c.at = lab /\ c.fs = <<f, g>> /\ Enter(p, c)
    BY <1>5, DoingType, DoingFields, InHands, Zenon
  <2>6. call'[p] = c /\ (\A q \in Procs \ {p} : call'[q] = call[q]) /\ call' \in [Procs -> Calls]
    BY <1>1, <2>5, EnterEffect, Zenon
  <2>7. \A h \in Files, q \in Procs, k \in -1 .. NOFILE - 1 :
          Refers(q, k, h)' <=> (Refers(q, k, h) \/ (h = g /\ q = p /\ k = -1))
    <3> TAKE h \in Files, q \in Procs, k \in -1 .. NOFILE - 1
    <3>1. CASE q # p
      BY <1>3, <2>6, <3>1, OtherRefers, Zenon
    <3>2. CASE q = p /\ k = -1
      BY <1>2, <2>5, <2>6, <3>2, HandRefers, HandRefersNext
    <3>3. CASE q = p /\ k # -1
      <4>1. k \in Fd
        BY <3>3, Places, Zenon
      <4>2. call[p].at # "dup" /\ call'[p].at # "dup"
        BY <1>1, <2>5, <2>6, Zenon
      <4>3. (Refers(p, k, h) <=> ofile[p][k] = h) /\ (Refers(p, k, h)' <=> ofile'[p][k] = h)
        BY <4>1, <4>2, FdPlain, FdPlainNext, Zenon
      <4> QED
        BY <1>3, <3>3, <4>1, <4>3
    <3> QED
      BY <3>1, <3>2, <3>3, Zenon
  <2>8. ref' \in [Files -> Int] /\ ref'[g] = ref[g] + 1 /\ \A h \in Files \ {g} : ref'[h] = ref[h]
    BY <1>1, <2>1 DEF FdsType
  <2>9. Counted' /\ \A h \in Files : ref'[h] = 0 => ref[h] = 0
    <3>1. Counted /\ -1 \in -1 .. NOFILE - 1
      BY Places, Zenon DEF FdsInv
    <3> QED
      BY <2>2, <2>7, <2>8, <3>1, CountedGain, ZenonT(30)
  <2>10. /\ EndsSound' /\ type' \in [Files -> Ends \cup {FD_NONE, FD_INODE}] /\ ends' \in SUBSET Ends
         /\ \A h \in Files \ {f, g} : type'[h] = type[h]
    <3>1. CASE UNCHANGED <<type, ends>>
      BY <1>1, <1>3, <2>9, <3>1, EndsSame, Zenon DEF FdsInv, FdsType
    <3>2. CASE PipePage(f, g)
      <4>1. EndsSound /\ ref'[g] > 0
        BY <2>1, <2>8 DEF FdsInv
      <4> QED
        BY <1>1, <1>3, <2>2, <2>3, <2>4, <2>8, <3>2, <4>1, PipeEnds, Zenon
    <3> QED
      BY <1>5, <3>1, <3>2, Zenon
  <2>11. FdsType'
    BY <1>1, <1>3, <2>6, <2>8, <2>10, Zenon DEF FdsType
  <2>12. \A q \in Procs \ {p} : HandSound(q)' /\ Private(q)' /\ LocalsSound(q)' /\ LifeSound(q)'
    <3>1. Leaves(p)
      <4> SUFFICES ASSUME NEW h \in Files, ref[h] > 0, Fresh(h), ~Refers(p, -1, h)
                   PROVE  type'[h] = FD_NONE /\ ~Refers(p, -1, h)' /\ \A k \in Fd : ofile'[p][k] # h
        BY Zenon DEF Leaves
      <4>1. h # g /\ h # f
        BY <1>2, <2>1, HandRefers
      <4>2. ~Refers(p, -1, h)'
        BY <2>7, <4>1, Places, Zenon
      <4>3. type'[h] = type[h]
        BY <2>10, <4>1, Zenon
      <4> QED
        BY <1>3, <4>2, <4>3, Zenon DEF Fresh
    <3>2. call[p].at # "fork" /\ call'[p].at # "fork"
      BY <1>1, <2>5, <2>6, Zenon
    <3>3. Frame(p)
      BY <1>1, <1>3, <2>6, <3>2, Zenon DEF Frame
    <3> QED
      BY <3>1, <3>3, OthersKept, Zenon
  <2>13. HandSound(p)' /\ Private(p)' /\ LocalsSound(p)' /\ LifeSound(p)'
    <3>1. HandSound(p)' /\ Private(p)'
      BY <2>3, <2>5, <2>6, HandTwo, Zenon
    <3> QED
      BY <1>1, <1>3, <2>5, <2>6, <3>1, Zenon DEF LocalsSound, LifeSound
  <2> QED
    BY <2>9, <2>10, <2>11, <2>12, <2>13, CallsKept, Zenon DEF FdsInv
<1> QED
  BY <1>2, <1>4, <1>5, Zenon DEF PipeAlloc2
(* the two references move to descriptors, or both files are closed.        *)
LEMMA PipeFdsKept ==
  ASSUME Counting, FdsInv, NEW p \in Procs, PipeFds(p)
  PROVE  FdsInv'
<1>1. FdsType /\ call[p].at = "pipe2" /\ closing[p] = {} /\ p \in alive /\ HandSound(p)
  BY Alive, Zenon DEF FdsInv, CallsSound, PipeFds, At
<1>2. PICK f \in Files, g \in Files : call[p].fs = <<f, g>> /\ call[p].fs[1] = f /\ call[p].fs[2] = g /\ f # g
  <2>1. PICK f \in Files, g \in Files : call[p].fs = <<f, g>>
    BY <1>1, Zenon DEF HandSound
  <2>2. call[p].fs[1] = f /\ call[p].fs[2] = g /\ Len(call[p].fs) = 2
    BY <2>1
  <2> QED
    BY <1>1, <2>1, <2>2, Zenon DEF HandSound
<1>3. UNCHANGED <<ref, type, alive, ends, closing>>
  BY Zenon DEF PipeFds
<1>4. CASE Enter(p, Doing("close", <<f, g>>)) /\ UNCHANGED ofile
  BY <1>1, <1>2, <1>3, <1>4, GiveUpKept, Zenon
<1>5. CASE \E fd0, fd1 \in Fd :
             /\ Lowest(fd0, FreeFds(p)) /\ Lowest(fd1, FreeFds(p) \ {fd0})
             /\ ofile' = [ofile EXCEPT ![p][fd0] = f, ![p][fd1] = g]
             /\ Return(p)
  <2>1. PICK d \in Fd, e \in Fd : /\ ofile[p][d] = 0 /\ ofile[p][e] = 0 /\ d # e
                                  /\ ofile' = [ofile EXCEPT ![p][d] = f, ![p][e] = g]
    BY <1>5, Zenon DEF Lowest, FreeFds
  <2>2. f \in 0 .. NFILE /\ g \in 0 .. NFILE /\ 0 \notin Files
    BY FdsAssumption DEF Files
  <2>3. /\ ofile'[p][d] = f /\ ofile'[p][e] = g /\ \A k \in Fd \ {d, e} : ofile'[p][k] = ofile[p][k]
        /\ \A q \in Procs \ {p} : ofile'[q] = ofile[q]
        /\ ofile' \in [Procs -> [Fd -> 0 .. NFILE]]
    BY <1>1, <2>1, <2>2, Zenon DEF FdsType
  <2>4. call'[p] = Idle /\ (\A q \in Procs \ {p} : call'[q] = call[q]) /\ call' \in [Procs -> Calls]
    BY <1>1, <1>5, EnterEffect, IdleFields, Zenon DEF Return
  <2>5. FdsType'
    BY <1>1, <1>3, <2>3, <2>4, Zenon DEF FdsType
  <2>6. \A h \in Files, q \in Procs, k \in -1 .. NOFILE - 1 :
          Refers(q, k, h)' <=> \/ Refers(q, k, h) /\ ~(h \in {f, g} /\ q = p /\ k = -1)
                               \/ h = f /\ q = p /\ k = d
                               \/ h = g /\ q = p /\ k = e
    <3> TAKE h \in Files, q \in Procs, k \in -1 .. NOFILE - 1
    <3>1. CASE q # p
      BY <2>3, <2>4, <3>1, OtherRefers, Zenon
    <3>2. CASE q = p /\ k = -1
      BY <1>2, <2>4, <3>2, HandRefers, HandRefersNext, IdleFields, Places
    <3>3. CASE q = p /\ k # -1
      <4>1. k \in Fd
        BY <3>3, Places, Zenon
      <4>2. Refers(p, k, h) <=> ofile[p][k] = h
        BY <1>1, <4>1, FdPlain, Zenon
      <4>3. Refers(p, k, h)' <=> ofile'[p][k] = h
        BY <2>4, <4>1, FdPlainNext, IdleFields
      <4> QED
        BY <2>1, <2>2, <2>3, <3>3, <4>1, <4>2, <4>3
    <3> QED
      BY <3>1, <3>2, <3>3, Zenon
  <2>7. Counted'
    <3>1. /\ Counted /\ Refers(p, -1, f) /\ Refers(p, -1, g) /\ ~Refers(p, d, f) /\ ~Refers(p, e, g)
          /\ -1 \in -1 .. NOFILE - 1 /\ d \in -1 .. NOFILE - 1 /\ e \in -1 .. NOFILE - 1
      BY <1>2, <2>1, <2>2, HandRefers, FdRefers, Places DEF FdsInv
    <3>2. Cardinality(References(f))' = Cardinality(References(f))
      <4>1. \A q \in Procs, k \in -1 .. NOFILE - 1 :
              Refers(q, k, f)' <=> ((Refers(q, k, f) /\ ~(q = p /\ k = -1)) \/ (q = p /\ k = d))
        BY <1>2, <2>6, Zenon
      <4> QED
        BY <3>1, <4>1, CountMove
    <3>3. Cardinality(References(g))' = Cardinality(References(g))
      <4>1. \A q \in Procs, k \in -1 .. NOFILE - 1 :
              Refers(q, k, g)' <=> ((Refers(q, k, g) /\ ~(q = p /\ k = -1)) \/ (q = p /\ k = e))
        BY <1>2, <2>6, Zenon
      <4> QED
        BY <3>1, <4>1, CountMove
    <3>4. ASSUME NEW h \in Files \ {f, g} PROVE Cardinality(References(h))' = Cardinality(References(h))
      BY <2>6, CountSame, Zenon
    <3> QED
      BY <1>3, <3>1, <3>2, <3>3, <3>4, Zenon DEF Counted
  <2>8. EndsSound'
    BY <1>3, EndsSame, Zenon DEF FdsInv
  <2>9. \A q \in Procs \ {p} : HandSound(q)' /\ Private(q)' /\ LocalsSound(q)' /\ LifeSound(q)'
    <3>1. Leaves(p)
      <4> SUFFICES ASSUME NEW h \in Files, ref[h] > 0, Fresh(h), ~Refers(p, -1, h)
                   PROVE  type'[h] = FD_NONE /\ ~Refers(p, -1, h)' /\ \A k \in Fd : ofile'[p][k] # h
        BY Zenon DEF Leaves
      <4>1. h # g /\ h # f
        BY <1>2, HandRefers
      <4>2. ~Refers(p, -1, h)'
        BY <2>6, <4>1, Places, Zenon
      <4> QED
        BY <1>3, <2>3, <4>1, <4>2, Zenon DEF Fresh
    <3>2. Frame(p)
      BY <1>1, <1>3, <2>3, <2>4, IdleFields, Zenon DEF Frame
    <3> QED
      BY <3>1, <3>2, OthersKept, Zenon
  <2>10. HandSound(p)' /\ Private(p)' /\ LocalsSound(p)' /\ LifeSound(p)'
    BY <1>1, <1>3, <2>4, HandEmpty, IdleFields, Zenon DEF LocalsSound, LifeSound
  <2> QED
    BY <2>5, <2>7, <2>8, <2>9, <2>10, CallsKept, Zenon DEF FdsInv
<1> QED
  BY <1>2, <1>4, <1>5, Zenon DEF PipeFds

(* exit() starts on its loop.                                               *)
LEMMA ExitKept ==
  ASSUME Counting, FdsInv, NEW p \in Procs, ExitStart(p)
  PROVE  FdsInv'
<1>1. FdsType /\ p \in alive /\ call[p].at = "idle" /\ closing[p] = {} /\ call[p].fs = <<>>
  BY Zenon DEF FdsInv, CallsSound, ExitStart, Ready, At, HandSound
<1>2. UNCHANGED <<ref, type, ofile, alive, ends, closing>>
  BY Zenon DEF ExitStart
<1>3. PICK c \in Calls : c.at = "exit" /\ c.fs = <<>> /\ Enter(p, c)
  BY DoingType, DoingFields, InHands, Zenon DEF ExitStart
<1>4. call'[p] = c /\ (\A q \in Procs \ {p} : call'[q] = call[q]) /\ call' \in [Procs -> Calls]
  BY <1>1, <1>3, EnterEffect, Zenon
<1>5. FdsType'
  BY <1>1, <1>2, <1>4, Zenon DEF FdsType
<1>6. \A g \in Files, q \in Procs, k \in -1 .. NOFILE - 1 : Refers(q, k, g)' <=> Refers(q, k, g)
  <2> TAKE g \in Files, q \in Procs, k \in -1 .. NOFILE - 1
  <2>1. CASE q # p
    BY <1>2, <1>4, <2>1, OtherRefers, Zenon
  <2>2. CASE q = p /\ k = -1
    BY <1>1, <1>3, <1>4, <2>2, HandRefers, HandRefersNext, Zenon
  <2>3. CASE q = p /\ k # -1
    <3>1. k \in Fd
      BY <2>3, Places, Zenon
    <3>2. call[p].at # "dup" /\ call'[p].at # "dup"
      BY <1>1, <1>2, <1>3, <1>4, Zenon
    <3>3. (Refers(p, k, g) <=> ofile[p][k] = g) /\ (Refers(p, k, g)' <=> ofile'[p][k] = g)
      BY <3>1, <3>2, FdPlain, FdPlainNext, Zenon
    <3> QED
      BY <1>1, <1>2, <1>3, <1>4, <2>3, <3>1, <3>3, Zenon
  <2> QED
    BY <2>1, <2>2, <2>3, Zenon
<1>7. Counted' /\ EndsSound'
  BY <1>2, <1>6, CountedSame, EndsSame, Zenon DEF FdsInv
<1>8. \A q \in Procs \ {p} : HandSound(q)' /\ Private(q)' /\ LocalsSound(q)' /\ LifeSound(q)'
  <2>1. Leaves(p)
    BY <1>2, <1>6, Places, Zenon DEF Fresh, Leaves
  <2>2. Frame(p)
    BY <1>1, <1>2, <1>3, <1>4, Zenon DEF Frame
  <2> QED
    BY <2>1, <2>2, OthersKept, Zenon
<1>9. HandSound(p)' /\ Private(p)' /\ LocalsSound(p)' /\ LifeSound(p)'
  BY <1>1, <1>2, <1>3, <1>4, HandEmpty, Zenon DEF LocalsSound, LifeSound
<1> QED
  BY <1>5, <1>7, <1>8, <1>9, CallsKept, Zenon DEF FdsInv

(* An end is closed that no entry stands for any more.                      *)
LEMMA PipecloseKept ==
  ASSUME Counting, FdsInv, NEW p \in Procs, pipeclose(p)
  PROVE  FdsInv'
<1>1. FdsType /\ EndsSound /\ p \in alive /\ call[p].at \in {"idle", "close", "exit"}
  BY Alive, Zenon DEF FdsInv, CallsSound, LifeSound, pipeclose
<1>2. UNCHANGED <<ref, type, ofile, alive, call>> /\ ends' = ends \ closing[p]
  BY Zenon DEF pipeclose
<1>3. /\ closing'[p] = {} /\ \A q \in Procs \ {p} : closing'[q] = closing[q]
      /\ closing' \in [Procs -> SUBSET Ends]
  BY <1>1, Zenon DEF pipeclose, FdsType
<1>4. FdsType'
  BY <1>1, <1>2, <1>3, Zenon DEF FdsType
<1>5. \A g \in Files, q \in Procs, k \in -1 .. NOFILE - 1 : Refers(q, k, g)' <=> Refers(q, k, g)
  BY <1>2, Zenon DEF Refers
<1>6. Counted'
  BY <1>2, <1>5, CountedSame, Zenon DEF FdsInv
<1>7. EndsSound'
  <2>1. \A q \in Procs, g \in Files : type'[g] \notin closing'[q]
    BY <1>1, <1>2, <1>3, Zenon DEF EndsSound
  <2>2. \A q, k \in Procs : q # k => closing'[q] \cap closing'[k] = {}
    <3> TAKE q \in Procs, k \in Procs
    <3> HAVE q # k
    <3>1. closing[q] \cap closing[k] = {}
      BY <1>1, Zenon DEF EndsSound
    <3> QED
      BY <1>3, <3>1, Zenon
  <2>3. \A e \in Ends : e \in ends' <=> (\E g \in Files : type'[g] = e) \/ (\E q \in Procs : e \in closing'[q])
    <3> TAKE e \in Ends
    <3>1. e \in ends <=> (\E g \in Files : type[g] = e) \/ (\E q \in Procs : e \in closing[q])
      BY <1>1, Zenon DEF EndsSound
    <3>2. e \in closing[p] => (\A g \in Files : type[g] # e) /\ \A q \in Procs \ {p} : e \notin closing[q]
      BY <1>1 DEF EndsSound
    <3> QED
      BY <1>2, <1>3, <3>1, <3>2, Zenon
  <2> QED
    BY <1>1, <1>2, <2>1, <2>2, <2>3, Zenon DEF EndsSound
<1>8. \A q \in Procs \ {p} : HandSound(q)' /\ Private(q)' /\ LocalsSound(q)' /\ LifeSound(q)'
  <2>1. Leaves(p)
    BY <1>2, <1>5, Places, Zenon DEF Fresh, Leaves
  <2>2. call[p].at # "fork" /\ call'[p].at # "fork"
    BY <1>1, <1>2, Zenon
  <2>3. Frame(p)
    BY <1>1, <1>2, <1>3, <2>2, Zenon DEF Frame
  <2> QED
    BY <2>1, <2>3, OthersKept, Zenon
<1>9. HandSound(p)' /\ Private(p)' /\ LocalsSound(p)' /\ LifeSound(p)'
  <2>1. HandSound(p)'
    BY <1>2, HandKept, Zenon DEF FdsInv, CallsSound
  <2> QED
    BY <1>1, <1>2, <1>3, <2>1, Zenon DEF Private, LocalsSound, LifeSound
<1> QED
  BY <1>4, <1>6, <1>7, <1>8, <1>9, CallsKept, Zenon DEF FdsInv
(* exit(): a descriptor less and a reference less, until none is left.      *)
LEMMA ExitFdKept ==
  ASSUME Counting, FdsInv, NEW p \in Procs, ExitFd(p)
  PROVE  FdsInv'
<1>1. FdsType /\ p \in alive /\ call[p].at = "exit" /\ closing[p] = {} /\ call[p].fs = <<>>
  BY Alive, Zenon DEF FdsInv, CallsSound, ExitFd, At, HandSound
<1>2. CASE FreeFds(p) = Fd
  <2>1. UNCHANGED <<ref, type, ofile, ends, closing>> /\ alive' = alive \ {p} /\ Return(p)
    BY <1>2, Zenon DEF ExitFd
  <2>2. call'[p] = Idle /\ (\A q \in Procs \ {p} : call'[q] = call[q]) /\ call' \in [Procs -> Calls]
    BY <1>1, <2>1, EnterEffect, IdleFields, Zenon DEF Return
  <2>3. FdsType'
    BY <1>1, <2>1, <2>2, Zenon DEF FdsType
  <2>4. \A g \in Files, q \in Procs, k \in -1 .. NOFILE - 1 : Refers(q, k, g)' <=> Refers(q, k, g)
    <3> TAKE g \in Files, q \in Procs, k \in -1 .. NOFILE - 1
    <3>1. CASE q # p
      BY <2>1, <2>2, <3>1, OtherRefers, Zenon
    <3>2. CASE q = p /\ k = -1
      BY <1>1, <2>2, <3>2, HandRefers, HandRefersNext, IdleFields, Zenon
    <3>3. CASE q = p /\ k # -1
      <4>1. k \in Fd
        BY <3>3, Places, Zenon
      <4>2. call[p].at # "dup" /\ call'[p].at # "dup"
        BY <1>1, <2>1, <2>2, IdleFields, Zenon
      <4>3. (Refers(p, k, g) <=> ofile[p][k] = g) /\ (Refers(p, k, g)' <=> ofile'[p][k] = g)
        BY <4>1, <4>2, FdPlain, FdPlainNext, Zenon
      <4> QED
        BY <1>1, <2>1, <2>2, <3>3, <4>1, <4>3, Zenon
    <3> QED
      BY <3>1, <3>2, <3>3, Zenon
  <2>5. Counted' /\ EndsSound'
    BY <2>1, <2>4, CountedSame, EndsSame, Zenon DEF FdsInv
  <2>6. \A q \in Procs \ {p} : HandSound(q)' /\ Private(q)' /\ LocalsSound(q)' /\ LifeSound(q)'
    <3>1. Leaves(p)
      BY <2>1, <2>4, Places, Zenon DEF Fresh, Leaves
    <3>2. Frame(p)
      BY <1>1, <2>1, <2>2, IdleFields, Zenon DEF Frame
    <3> QED
      BY <3>1, <3>2, OthersKept
  <2>7. HandSound(p)' /\ Private(p)' /\ LocalsSound(p)' /\ LifeSound(p)'
    <3>1. \A d \in Fd : ofile'[p][d] = 0
      BY <1>2, <2>1, Zenon DEF FreeFds
    <3> QED
      BY <1>1, <2>1, <2>2, <3>1, HandEmpty, IdleFields, Zenon DEF LocalsSound, LifeSound
  <2> QED
    BY <2>3, <2>5, <2>6, <2>7, CallsKept, Zenon DEF FdsInv
<1>3. CASE FreeFds(p) # Fd
  <2>1. PICK d \in Fd : /\ ofile[p][d] # 0 /\ fileclose(p, ofile[p][d])
                        /\ SetFd(p, d, 0) /\ UNCHANGED <<alive, call, ends>>
    BY <1>3, Zenon DEF ExitFd, Lowest, FreeFds
  <2>2. PICK f \in Files : ofile[p][d] = f
    BY <1>1, <2>1, Taken, Zenon
  <2>3. 0 \in 0 .. NFILE /\ 0 \notin Files
    BY FdsAssumption DEF Files
  <2>4. /\ ofile'[p][d] = 0 /\ \A k \in Fd \ {d} : ofile'[p][k] = ofile[p][k]
        /\ \A q \in Procs \ {p} : ofile'[q] = ofile[q]
        /\ ofile' \in [Procs -> [Fd -> 0 .. NFILE]]
    BY <1>1, <2>1, <2>3, SetFdEffect, Zenon
  <2>5. Refers(p, d, f) /\ d \in -1 .. NOFILE - 1 /\ ref[f] > 0
    BY <1>1, <2>2, FdRefers, Places, Referred
  <2>6. \A g \in Files, q \in Procs, k \in -1 .. NOFILE - 1 :
          Refers(q, k, g)' <=> (Refers(q, k, g) /\ ~(g = f /\ q = p /\ k = d))
    <3> TAKE g \in Files, q \in Procs, k \in -1 .. NOFILE - 1
    <3>1. CASE q # p
      BY <2>1, <2>4, <3>1, OtherRefers, Zenon
    <3>2. CASE q = p /\ k = -1
      BY <1>1, <2>1, <3>2, HandRefers, HandRefersNext, Zenon
    <3>3. CASE q = p /\ k # -1
      <4>1. k \in Fd
        BY <3>3, Places
      <4>2. call[p].at # "dup" /\ call'[p].at # "dup"
        BY <1>1, <2>1, <2>2, <2>3, <2>4, Zenon
      <4>3. (Refers(p, k, g) <=> ofile[p][k] = g) /\ (Refers(p, k, g)' <=> ofile'[p][k] = g)
        BY <4>1, <4>2, FdPlain, FdPlainNext
      <4> QED
        BY <1>1, <2>1, <2>2, <2>3, <2>4, <3>3, <4>1, <4>3
    <3> QED
      BY <3>1, <3>2, <3>3, Zenon
  <2>7. ref' \in [Files -> Int] /\ ref'[f] = ref[f] - 1 /\ \A g \in Files \ {f} : ref'[g] = ref[g]
    BY <1>1, <2>1, <2>2 DEF FdsType, fileclose
  <2>8. Counted'
    <3>1. Counted
      BY Zenon DEF FdsInv
    <3> QED
      BY <2>5, <2>6, <2>7, <3>1, CountedLose
  <2>9. /\ EndsSound' /\ type' \in [Files -> Ends \cup {FD_NONE, FD_INODE}]
        /\ closing' \in [Procs -> SUBSET Ends]
        /\ \A q \in Procs \ {p} : closing'[q] = closing[q]
        /\ \A g \in Files : type[g] = FD_NONE => type'[g] = FD_NONE
    <3>1. EndsSound
      BY Zenon DEF FdsInv
    <3> QED
      BY <1>1, <2>1, <2>2, <2>5, <3>1, CloseEnds, Zenon
  <2>10. FdsType'
    BY <1>1, <2>1, <2>4, <2>7, <2>9, Zenon DEF FdsType
  <2>11. \A q \in Procs \ {p} : HandSound(q)' /\ Private(q)' /\ LocalsSound(q)' /\ LifeSound(q)'
    <3>1. Leaves(p)
      <4> SUFFICES ASSUME NEW g \in Files, ref[g] > 0, Fresh(g), ~Refers(p, -1, g)
                   PROVE  type'[g] = FD_NONE /\ ~Refers(p, -1, g)' /\ \A k \in Fd : ofile'[p][k] # g
        BY DEF Leaves
      <4>1. g # f /\ ~Refers(p, -1, g)'
        BY <2>2, <2>6, Places, Zenon DEF Fresh
      <4> QED
        BY <2>3, <2>4, <2>9, <4>1 DEF Fresh
    <3>2. Frame(p)
      BY <1>1, <2>1, <2>4, <2>9, Zenon DEF Frame
    <3> QED
      BY <3>1, <3>2, OthersKept
  <2>12. HandSound(p)' /\ Private(p)' /\ LocalsSound(p)' /\ LifeSound(p)'
    BY <1>1, <2>1, HandEmpty, Zenon DEF LocalsSound, LifeSound
  <2> QED
    BY <2>8, <2>9, <2>10, <2>11, <2>12, CallsKept, Zenon DEF FdsInv
<1> QED
  BY <1>2, <1>3, Zenon

(* No step of fork() takes a file from a call, or gives it one.             *)
LEMMA PrivateKept ==
  ASSUME NEW q \in Procs, Private(q), HandSound(q), call'[q] = call[q], UNCHANGED type,
         \A f \in Files, k \in Procs : Refers(k, -1, f)' <=> Refers(k, -1, f),
         \A f \in Files : (\A k \in Procs, d \in Fd : ofile[k][d] # f) => \A k \in Procs, d \in Fd : ofile'[k][d] # f
  PROVE  Private(q)'
<1>1. SUFFICES ASSUME call[q].at \in {"open", "pipe1"} PROVE Private(q)'
  BY Zenon DEF Private
<1>2. PICK f \in Files : call[q].fs = <<f>>
  BY <1>1, Zenon DEF HandSound
<1>3. call[q].fs[1] = f
  BY <1>2
<1>4. /\ type[f] = FD_NONE
      /\ \A k \in Procs, d \in Fd : ofile[k][d] # f
      /\ \A k \in Procs \ {q} : ~Refers(k, -1, f)
  BY <1>1, <1>3, PrivateMeans
<1> QED
  BY <1>3, <1>4 DEF Private

(* fork() takes a process that does not exist and that nobody else is       *)
(* making.                                                                  *)
LEMMA ForkKept ==
  ASSUME Counting, FdsInv, NEW p \in Procs, kfork(p)
  PROVE  FdsInv'
<1>1. FdsType /\ p \in alive /\ call[p].at = "idle" /\ closing[p] = {} /\ call[p].fs = <<>> /\ CallsSound
  BY Zenon DEF FdsInv, CallsSound, kfork, Ready, At, HandSound
<1>2. UNCHANGED <<ref, type, ofile, alive, ends, closing>>
  BY Zenon DEF kfork
<1>3. PICK c \in Procs \ alive : /\ \A q \in alive : At(q, "fork") => call[q].child # c
                                 /\ Enter(p, DoingFork(c, 0))
  BY Zenon DEF kfork
<1>4. PICK t \in Calls : t.at = "fork" /\ t.fs = <<>> /\ t.child = c /\ t.fd = 0 /\ Enter(p, t)
  <2>1. PICK t : t = DoingFork(c, 0)
    BY Zenon
  <2>2. t \in Calls /\ t.at = "fork" /\ t.fs = <<>> /\ t.child = c /\ t.fd = 0
    BY <2>1, ZeroOk, ForkFields
  <2> QED
    BY <1>3, <2>1, <2>2, Zenon
<1>5. call'[p] = t /\ (\A q \in Procs \ {p} : call'[q] = call[q]) /\ call' \in [Procs -> Calls]
  BY <1>1, <1>4, EnterEffect, Zenon
<1>6. FdsType'
  BY <1>1, <1>2, <1>5, Zenon DEF FdsType
<1>7. \A g \in Files, q \in Procs, k \in -1 .. NOFILE - 1 : Refers(q, k, g)' <=> Refers(q, k, g)
  <2> TAKE g \in Files, q \in Procs, k \in -1 .. NOFILE - 1
  <2>1. CASE q # p
    BY <1>2, <1>5, <2>1, OtherRefers, Zenon
  <2>2. CASE q = p /\ k = -1
    BY <1>1, <1>4, <1>5, <2>2, HandRefers, HandRefersNext, Zenon
  <2>3. CASE q = p /\ k # -1
    <3>1. k \in Fd
      BY <2>3, Places, Zenon
    <3>2. call[p].at # "dup" /\ call'[p].at # "dup"
      BY <1>1, <1>2, <1>4, <1>5, Zenon
    <3>3. (Refers(p, k, g) <=> ofile[p][k] = g) /\ (Refers(p, k, g)' <=> ofile'[p][k] = g)
      BY <3>1, <3>2, FdPlain, FdPlainNext, Zenon
    <3> QED
      BY <1>1, <1>2, <1>4, <1>5, <2>3, <3>1, <3>3, Zenon
  <2> QED
    BY <2>1, <2>2, <2>3, Zenon
<1>8. Counted' /\ EndsSound'
  BY <1>2, <1>7, CountedSame, EndsSame, Zenon DEF FdsInv
<1>9. \A q \in Procs : call[q].at = "fork" => call[q].child # c
  <2> TAKE q \in Procs
  <2> HAVE call[q].at = "fork"
  <2>1. q \in alive /\ closing[q] = {}
    BY Alive, <1>1, Zenon DEF CallsSound, LifeSound
  <2> QED
    BY <1>3, <2>1, Zenon DEF At
<1>10. \A d \in Fd : ofile[c][d] = 0
  BY <1>1, <1>3, <1>9, Zenon DEF CallsSound, LifeSound, Forking
<1>11. ASSUME NEW q \in Procs \ {p} PROVE HandSound(q)' /\ Private(q)' /\ LocalsSound(q)' /\ LifeSound(q)'
  <2>1. HandSound(q) /\ Private(q) /\ LocalsSound(q) /\ LifeSound(q) /\ call'[q] = call[q]
    BY <1>1, <1>5, Zenon DEF CallsSound
  <2>2. HandSound(q)'
    BY <2>1, HandKept, Zenon
  <2>3. Private(q)'
    BY <1>2, <1>7, <2>1, Places, PrivateKept, Zenon
  <2>4. LocalsSound(q)'
    BY <1>2, <1>4, <1>5, <1>9, <2>1 DEF LocalsSound
  <2>5. LifeSound(q)'
    <3>1. Forking(q) => Forking(q)'
      BY <1>1, <1>5, Zenon DEF Forking
    <3> QED
      BY <1>2, <2>1, <3>1, Zenon DEF LifeSound
  <2> QED
    BY <2>2, <2>3, <2>4, <2>5, Zenon
<1>12. HandSound(p)' /\ Private(p)' /\ LocalsSound(p)' /\ LifeSound(p)'
  <2>1. LocalsSound(p)'
    BY <1>2, <1>3, <1>4, <1>5, <1>9, <1>10, Zenon DEF LocalsSound
  <2> QED
    BY <1>1, <1>2, <1>4, <1>5, <2>1, HandEmpty, Zenon DEF LifeSound
<1> QED
  BY <1>6, <1>8, <1>11, <1>12, CallsKept, Zenon DEF FdsInv
(* fork(): the child's descriptor is counted as it is filled; at the end    *)
(* of the loop the child exists.                                            *)
LEMMA ForkFdKept ==
  ASSUME Counting, FdsInv, NEW p \in Procs, ForkFd(p)
  PROVE  FdsInv'
<1>1. FdsType /\ CallsSound /\ p \in alive /\ call[p].at = "fork" /\ closing[p] = {} /\ call[p].fs = <<>>
  BY Alive, Zenon DEF FdsInv, CallsSound, ForkFd, At, HandSound
<1>2. PICK c \in Procs, d \in Fd : call[p].child = c /\ call[p].fd = d
  BY <1>1, CallFields, Zenon
<1>3. /\ c \notin alive /\ c # p /\ call[c].at = "idle" /\ call[c].fs = <<>>
      /\ \A k \in Fd : k >= d => ofile[c][k] = 0
      /\ \A q \in Procs \ {p} : call[q].at = "fork" => call[q].child # c
  BY <1>1, <1>2 DEF CallsSound, LocalsSound, LifeSound, HandSound
<1>4. PICK f \in 0 .. NFILE : ofile[p][d] = f
  BY <1>1, Zenon DEF FdsType
<1>5. UNCHANGED <<type, ends, closing>>
  BY Zenon DEF ForkFd
<1>6. PICK t \in Calls :
        /\ t.fs = <<>> /\ Enter(p, t)
        /\ \/ t.at = "idle" /\ alive' = alive \cup {c}
           \/ t.at = "fork" /\ t.child = c /\ t.fd = d + 1 /\ alive' = alive
  <2>1. CASE d = NOFILE - 1
    BY <1>2, <2>1, IdleFields, Zenon DEF ForkFd, Return
  <2>2. CASE d # NOFILE - 1
    <3>1. PICK t : t = DoingFork(c, d + 1)
      BY Zenon
    <3>2. d + 1 \in Fd
      BY <2>2, FdsAssumption DEF Fd
    <3>3. t \in Calls /\ t.fs = <<>> /\ t.at = "fork" /\ t.child = c /\ t.fd = d + 1
      BY <3>1, <3>2, ForkFields
    <3>4. Enter(p, t) /\ alive' = alive
      BY <1>2, <2>2, <3>1, Zenon DEF ForkFd
    <3> QED
      BY <3>3, <3>4, Zenon
  <2> QED
    BY <2>1, <2>2, Zenon
<1>7. call'[p] = t /\ (\A q \in Procs \ {p} : call'[q] = call[q]) /\ call' \in [Procs -> Calls]
  BY <1>1, <1>6, EnterEffect, Zenon
<1>8. t.at # "dup"
  BY <1>6, Zenon
<1>9. /\ ofile'[c][d] = f /\ \A k \in Fd \ {d} : ofile'[c][k] = ofile[c][k]
      /\ \A q \in Procs \ {c} : ofile'[q] = ofile[q]
      /\ ofile' \in [Procs -> [Fd -> 0 .. NFILE]]
  <2>1. CASE f = 0
    <3>1. ofile' = ofile
      BY <1>2, <1>4, <2>1, Zenon DEF ForkFd
    <3>2. ofile[c][d] = 0
      BY <1>3 DEF Fd
    <3> QED
      BY <1>1, <2>1, <3>1, <3>2, Zenon DEF FdsType
  <2>2. CASE f # 0
    <3>1. SetFd(c, d, f)
      BY <1>2, <1>4, <2>2, Zenon DEF ForkFd
    <3> QED
      BY <1>1, <3>1, SetFdEffect, Zenon
  <2> QED
    BY <2>1, <2>2, Zenon
<1>10. \A q \in Procs, g \in Files : Refers(q, -1, g)' <=> Refers(q, -1, g)
  <2> TAKE q \in Procs, g \in Files
  <2>1. call'[q].fs = call[q].fs
    BY <1>1, <1>6, <1>7, Zenon
  <2> QED
    BY <2>1, Zenon DEF Refers
<1>11. \A g \in Files, q \in Procs, k \in -1 .. NOFILE - 1 :
         Refers(q, k, g)' <=> (Refers(q, k, g) \/ (g = f /\ q = c /\ k = d))
  <2> TAKE g \in Files, q \in Procs, k \in -1 .. NOFILE - 1
  <2>1. CASE k = -1
    BY <1>10, <2>1, Places, Zenon
  <2>2. CASE k # -1
    <3>1. k \in Fd
      BY <2>2, Places, Zenon
    <3>2. CASE q = p
      <4>1. call[p].at # "dup" /\ call'[p].at # "dup"
        BY <1>1, <1>7, <1>8, Zenon
      <4>2. (Refers(p, k, g) <=> ofile[p][k] = g) /\ (Refers(p, k, g)' <=> ofile'[p][k] = g)
        BY <3>1, <4>1, FdPlain, FdPlainNext
      <4> QED
        BY <1>3, <1>9, <3>2, <4>2, Zenon
    <3>3. CASE q = c
      <4>1. Refers(c, k, g) <=> ofile[c][k] = g
        BY <1>3, <3>1, FdPlain, Zenon
      <4>2. Refers(c, k, g)' <=> ofile'[c][k] = g
        BY <1>3, <1>7, <3>1, FdPlainNext
      <4>3. ofile[c][d] = 0 /\ g # 0
        BY <1>3 DEF Fd, Files
      <4> QED
        BY <1>9, <3>1, <3>3, <4>1, <4>2, <4>3, Zenon
    <3>4. CASE q # p /\ q # c
      BY <1>7, <1>9, <3>4, OtherRefers, Zenon
    <3> QED
      BY <3>2, <3>3, <3>4, Zenon
  <2> QED
    BY <2>1, <2>2, Zenon
<1>12. Counted' /\ ref' \in [Files -> Int] /\ \A g \in Files : ref'[g] = 0 => ref[g] = 0
  <2>1. CASE f = 0
    <3>1. ref' = ref /\ f \notin Files
      BY <1>2, <1>4, <2>1 DEF ForkFd, Files
    <3>2. \A g \in Files, q \in Procs, k \in -1 .. NOFILE - 1 : Refers(q, k, g)' <=> Refers(q, k, g)
      BY <1>11, <3>1, Zenon
    <3> QED
      BY <1>1, <3>1, <3>2, CountedSame, Zenon DEF FdsType, FdsInv
  <2>2. CASE f # 0
    <3>1. f \in Files /\ ref' = [ref EXCEPT ![f] = @ + 1]
      BY <1>2, <1>4, <2>2 DEF ForkFd, filedup, Files
    <3>2. ref' \in [Files -> Int] /\ ref'[f] = ref[f] + 1 /\ \A g \in Files \ {f} : ref'[g] = ref[g]
      BY <1>1, <3>1 DEF FdsType
    <3>3. Counted /\ d \in -1 .. NOFILE - 1 /\ ~Refers(c, d, f)
      <4>1. ofile[c][d] # f
        BY <1>3, <2>2 DEF Fd
      <4> QED
        BY <4>1, FdRefers, Places, Zenon DEF FdsInv
    <3> QED
      BY <1>11, <3>1, <3>2, <3>3, CountedGain
  <2> QED
    BY <2>1, <2>2, Zenon
<1>13. FdsType'
  BY <1>1, <1>5, <1>6, <1>7, <1>9, <1>12, Zenon DEF FdsType
<1>14. EndsSound'
  BY <1>5, <1>12, EndsSame, Zenon DEF FdsInv
<1>15. \A g \in Files : (\A k \in Procs, e \in Fd : ofile[k][e] # g) => \A k \in Procs, e \in Fd : ofile'[k][e] # g
  BY <1>4, <1>9
<1>16. ASSUME NEW q \in Procs \ {p} PROVE HandSound(q)' /\ Private(q)' /\ LocalsSound(q)' /\ LifeSound(q)'
  <2>1. HandSound(q) /\ Private(q) /\ LocalsSound(q) /\ LifeSound(q) /\ call'[q] = call[q]
    BY <1>1, <1>7, Zenon DEF CallsSound
  <2>2. HandSound(q)'
    BY <2>1, HandKept, Zenon
  <2>3. Private(q)'
    BY <1>5, <1>10, <1>15, <2>1, PrivateKept, Zenon
  <2>4. LocalsSound(q)'
    <3>1. CASE call[q].at = "dup"
      <4>1. q # c
        BY <1>3, <3>1, Zenon
      <4> QED
        BY <1>9, <2>1, <3>1, <4>1, Zenon DEF LocalsSound
    <3>2. CASE call[q].at = "fork"
      <4>1. call[q].child \in Procs \ {c}
        BY <1>1, <1>3, <3>2, CallFields, Zenon
      <4>2. ofile'[call[q].child] = ofile[call[q].child]
        BY <1>9, <4>1, Zenon
      <4>3. call[q].child \notin alive'
        BY <1>6, <2>1, <3>2, <4>1, Zenon DEF LocalsSound
      <4>4. \A k \in Procs \ {q} : call'[k].at = "fork" => call'[k].child # call[q].child
        <5> TAKE k \in Procs \ {q}
        <5> HAVE call'[k].at = "fork"
        <5>1. CASE k = p
          BY <1>6, <1>7, <4>1, <5>1, Zenon
        <5>2. CASE k # p
          BY <1>7, <2>1, <3>2, <5>2, Zenon DEF LocalsSound
        <5> QED
          BY <5>1, <5>2, Zenon
      <4> QED
        BY <2>1, <3>2, <4>2, <4>3, <4>4 DEF LocalsSound
    <3> QED
      BY <2>1, <3>1, <3>2, Zenon DEF LocalsSound
  <2>5. LifeSound(q)'
    <3>1. ASSUME q \notin alive', ~Forking(q)' PROVE \A k \in Fd : ofile'[q][k] = 0
      <4>1. q \notin alive
        BY <1>6, <3>1, Zenon
      <4>2. q # c
        BY <1>6, <1>7, <3>1 DEF Forking
      <4>3. ~Forking(q)
        BY <1>2, <1>7, <3>1, <4>2, Zenon DEF Forking
      <4> QED
        BY <1>9, <2>1, <4>1, <4>2, <4>3, Zenon DEF LifeSound
    <3>2. q \notin alive' => call'[q].at = "idle" /\ closing'[q] = {}
      BY <1>5, <1>6, <2>1, Zenon DEF LifeSound
    <3>3. closing'[q] # {} => call'[q].at \in {"idle", "close", "exit"}
      BY <1>5, <2>1, Zenon DEF LifeSound
    <3> QED
      BY <3>1, <3>2, <3>3, Zenon DEF LifeSound
  <2> QED
    BY <2>2, <2>3, <2>4, <2>5, Zenon
<1>17. HandSound(p)' /\ Private(p)' /\ LocalsSound(p)' /\ LifeSound(p)'
  <2>1. HandSound(p)' /\ Private(p)'
    BY <1>6, <1>7, HandEmpty, Zenon
  <2>2. LifeSound(p)'
    BY <1>1, <1>5, <1>6, Zenon DEF LifeSound
  <2>3. LocalsSound(p)'
    <3>1. CASE t.at = "idle"
      BY <1>7, <3>1, Zenon DEF LocalsSound
    <3>2. CASE t.at = "fork"
      <4>1. t.child = c /\ t.fd = d + 1 /\ alive' = alive
        BY <1>6, <3>2, Zenon
      <4>2. \A k \in Fd : k >= d + 1 => ofile'[c][k] = 0
        BY <1>3, <1>9 DEF Fd
      <4> QED
        BY <1>3, <1>7, <3>2, <4>1, <4>2 DEF LocalsSound
    <3> QED
      BY <1>6, <3>1, <3>2, Zenon
  <2> QED
    BY <2>1, <2>2, <2>3, Zenon
<1> QED
  BY <1>12, <1>13, <1>14, <1>16, <1>17, CallsKept, Zenon DEF FdsInv

(* The invariant holds at the start.                                        *)
LEMMA FdsInit == Counting /\ FdInit => FdsInv
<1> SUFFICES ASSUME Counting, FdInit PROVE FdsInv
  BY Zenon
<1>1. FdsType
  BY IdleFields, ZeroOk, FdsAssumption DEF FdInit, FdsType, Files
<1>2. \A p \in Procs : call[p] = Idle /\ closing[p] = {} /\ \A d \in Fd : ofile[p][d] = 0
  BY Zenon DEF FdInit
<1>3. ASSUME NEW p \in Procs PROVE HandSound(p) /\ Private(p) /\ LocalsSound(p) /\ LifeSound(p)
  <2>1. Len(<<>>) # 2
    OBVIOUS
  <2> QED
    BY <1>2, <2>1, IdleFields, Zenon DEF HandSound, Private, LocalsSound, LifeSound
<1>4. EndsSound
  BY EndsApart, Zenon DEF FdInit, EndsSound
<1>5. ASSUME NEW f \in Files PROVE ref[f] = Cardinality(References(f))
  <2>1. ref[f] = 0 /\ f # 0
    BY DEF FdInit, Files
  <2>2. \A q \in Procs, d \in -1 .. NOFILE - 1 : ~Refers(q, d, f)
    <3> TAKE q \in Procs, d \in -1 .. NOFILE - 1
    <3>1. CASE d = -1
      BY <1>2, <3>1, HandRefers, IdleFields, Zenon
    <3>2. CASE d # -1
      BY <1>2, <2>1, <3>2, FdRefers, Places
    <3> QED
      BY <3>1, <3>2, Zenon
  <2>3. References(f) = {}
    BY <2>2, Zenon DEF References
  <2> QED
    BY <2>1, <2>3, ReferencesFinite, Zenon DEF Counting
<1> QED
  BY <1>1, <1>3, <1>4, <1>5, Zenon DEF FdsInv, CallsSound, Counted

(* Every step keeps it.                                                     *)
LEMMA FdsKept == Counting /\ FdsInv /\ [FdNext]_FdVars => FdsInv'
<1> SUFFICES ASSUME Counting, FdsInv, [FdNext]_FdVars PROVE FdsInv'
  OBVIOUS
<1>1. ASSUME NEW p \in Procs,
             \/ sys_dup(p) \/ DupRef(p) \/ sys_close(p) \/ CloseNext(p) \/ OpenAlloc(p) \/ OpenFd(p)
             \/ PipeAlloc1(p) \/ PipeAlloc2(p) \/ PipeFds(p) \/ kfork(p) \/ ForkFd(p)
             \/ ExitStart(p) \/ ExitFd(p) \/ pipeclose(p)
      PROVE  FdsInv'
  <2>1. CASE OpenAlloc(p)
    BY <2>1, AllocKept, Zenon DEF OpenAlloc
  <2>2. CASE PipeAlloc1(p)
    BY <2>2, AllocKept, Zenon DEF PipeAlloc1
  <2> QED
    BY <1>1, <2>1, <2>2, DupKept, DupRefKept, CloseKept, CloseNextKept, OpenFdKept, PipeAlloc2Kept,
       PipeFdsKept, ForkKept, ForkFdKept, ExitKept, ExitFdKept, PipecloseKept, Zenon
<1>2. CASE UNCHANGED FdVars
  <2>1. \A g \in Files, q \in Procs, k \in -1 .. NOFILE - 1 : Refers(q, k, g)' <=> Refers(q, k, g)
    BY <1>2, Zenon DEF FdVars, Refers
  <2>2. Counted' /\ EndsSound'
    BY <1>2, <2>1, CountedSame, EndsSame, Zenon DEF FdsInv, FdVars
  <2>3. FdsType'
    BY <1>2, Zenon DEF FdsInv, FdsType, FdVars
  <2>4. ASSUME NEW q \in Procs PROVE HandSound(q)' /\ Private(q)' /\ LocalsSound(q)' /\ LifeSound(q)'
    <3>1. HandSound(q) /\ Private(q) /\ LocalsSound(q) /\ LifeSound(q)
      BY Zenon DEF FdsInv, CallsSound
    <3>2. HandSound(q)' /\ Private(q)'
      BY <1>2, <2>1, <3>1, HandKept, PrivateKept, Places, Zenon DEF FdVars
    <3>3. LocalsSound(q)' /\ LifeSound(q)'
      BY <1>2, <3>1, Zenon DEF LocalsSound, LifeSound, Forking, FdVars
    <3> QED
      BY <3>2, <3>3, Zenon
  <2> QED
    BY <2>2, <2>3, <2>4, Zenon DEF FdsInv, CallsSound
<1> QED
  BY <1>1, <1>2, Zenon DEF FdNext, Finished

(* It implies FilesExact.                                                   *)
LEMMA FdsMeans == FdsInv => FilesExact
<1> SUFFICES ASSUME FdsInv PROVE FilesExact
  BY Zenon
<1>1. \A e \in Ends : e \in ends <=> (\E f \in Files : type[f] = e) \/ (\E p \in Procs : e \in closing[p])
  BY Zenon DEF FdsInv, EndsSound
<1>2. ends \subseteq Ends /\ \A p \in Procs : closing[p] \subseteq Ends
  BY Zenon DEF FdsInv, FdsType
<1>3. ends = UNION ({EndOf(f) : f \in Files} \cup {closing[p] : p \in Procs})
  <2> DEFINE All == UNION ({EndOf(f) : f \in Files} \cup {closing[p] : p \in Procs})
  <2>1. \A e : e \in All <=> (\E f \in Files : e \in EndOf(f)) \/ (\E p \in Procs : e \in closing[p])
    BY Zenon
  <2>2. \A e, f : e \in EndOf(f) <=> e \in Ends /\ type[f] = e
    BY Zenon DEF EndOf
  <2>3. \A e : e \in ends <=> e \in All
    <3> HIDE DEF All
    <3> QED
      BY <1>1, <1>2, <2>1, <2>2, Zenon
  <2> QED
    BY <2>3, Zenon
<1> QED
  BY <1>3, Zenon DEF FdsInv, EndsSound, Counted, FilesExact

INSTANCE FiniteSetTheorems

(* The facts about cardinalities.                                           *)
LEMMA CountingHolds == Counting
<1>1. IsFiniteSet(Procs \X (-1 .. NOFILE - 1))
  <2>1. -1 \in Int /\ NOFILE - 1 \in Int
    BY FdsAssumption
  <2>2. IsFiniteSet(-1 .. NOFILE - 1)
    BY <2>1, FS_Interval, Zenon
  <2> QED
    BY <2>2, FS_Product, FdsAssumption, Zenon
<1>2. ASSUME NEW S, IsFiniteSet(S)
      PROVE  Cardinality(S) \in Nat /\ (Cardinality(S) = 0 <=> S = {})
  BY <1>2, FS_CardinalityType, FS_EmptySet, Zenon
<1>3. ASSUME NEW S, NEW T \in SUBSET S, IsFiniteSet(S) PROVE IsFiniteSet(T)
  BY <1>3, FS_Subset, Zenon
<1>4. ASSUME NEW S, NEW x, IsFiniteSet(S), x \notin S PROVE Cardinality(S \cup {x}) = Cardinality(S) + 1
  BY <1>4, FS_AddElement, Zenon
<1>5. ASSUME NEW S, NEW x, IsFiniteSet(S), x \in S PROVE Cardinality(S \ {x}) = Cardinality(S) - 1
  BY <1>5, FS_RemoveElement, Zenon
<1> QED
  BY <1>1, <1>2, <1>3, <1>4, <1>5, Zenon DEF Counting

(* The count of a file is that of the descriptors and calls that hold it,   *)
(* no entry is reused or freed too early, and the ends of pipes are open    *)
(* as long as somebody holds them: at every point of open, dup, close,      *)
(* pipe, fork and exit, for any number of processes, files and              *)
(* descriptors.                                                             *)
THEOREM FilesCounted == FdSpec => []FilesExact
<1>1. FdInit => FdsInv
  BY CountingHolds, FdsInit, Zenon
<1>2. FdsInv /\ [FdNext]_FdVars => FdsInv'
  BY CountingHolds, FdsKept, Zenon
<1> QED
  BY <1>1, <1>2, FdsMeans, PTL DEF FdSpec
=============================================================================
