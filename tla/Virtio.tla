------------------------------- MODULE Virtio -------------------------------
(***************************************************************************)
(* The disk driver, xv6/kernel/virtio_disk.c: requests of several          *)
(* processes, each for a buffer it has locked, the descriptors and the two *)
(* rings they share with the device, and the completion interrupt.  The    *)
(* device is external: it takes available requests in order, finishes them *)
(* in any order, and raises an interrupt.                                  *)
(***************************************************************************)
EXTENDS Integers, Sequences, FiniteSets

CONSTANTS
  Procs,
  NUM        \* descriptors, and entries of each ring

ASSUME DiskAssumption ==
  NUM \in Nat \ {0} /\ IsFiniteSet(Procs) /\ Procs \cap {"none", "intr"} = {}

Desc == 0..(NUM - 1)
Nobody == "none"
End == NUM     \* desc.next without VRING_DESC_F_NEXT

VARIABLES
  free,        \* disk.free
  next,        \* disk.desc[i].next
  info,        \* disk.info[i].b
  avail,       \* the entries of the available ring the device has not read
  used,        \* the entries of the used ring past disk.used_idx
  busy,        \* the processes whose b->disk is 1
  lock,        \* who holds vdisk_lock: a process, "intr" or None
  rpc, head,    \* of each process: where it is, and idx[0]
  irq,         \* "up" while the device asks for an interrupt
  taken,       \* device: the requests it works on
  done         \* history: the processes whose request the device has carried out

dev == <<irq, taken, done>>
DiskVars == <<free, next, info, avail, used, busy, lock, rpc, head, dev>>

(* "start": in acquire(), also after sleep(&disk.free[0]); "nodesc": asleep *)
(* there; "alloc": has vdisk_lock; "wait": has it, at the loop that waits   *)
(* for the interrupt; "asleep": sleeps in it; "woken": in acquire() again.  *)
DiskTypeOK ==
  /\ free \in SUBSET Desc
  /\ next \in [Desc -> Desc \cup {End}]
  /\ info \in [Desc -> Procs \cup {Nobody}]
  /\ avail \in Seq(Desc) /\ used \in Seq(Desc)
  /\ busy \in SUBSET Procs /\ done \in SUBSET Procs
  /\ lock \in Procs \cup {Nobody, "intr"}
  /\ rpc \in [Procs -> {"idle", "start", "nodesc", "alloc", "wait", "asleep", "woken"}]
  /\ head \in [Procs -> Desc]
  /\ irq \in {"up", "down"}
  /\ taken \in SUBSET Desc

(* virtio_disk_init().                                                      *)
DiskInit ==
  /\ free = Desc /\ next = [i \in Desc |-> End] /\ info = [i \in Desc |-> Nobody]
  /\ avail = <<>> /\ used = <<>>
  /\ busy = {} /\ lock = Nobody
  /\ rpc = [p \in Procs |-> "idle"] /\ head = [p \in Procs |-> 0]
  /\ irq = "down" /\ taken = {} /\ done = {}

-----------------------------------------------------------------------------
Resume(p, x) == rpc' = [rpc EXCEPT ![p] = x]

(* free_desc(): wakeup(&disk.free[0]), in the pcs given.                    *)
WokenForDesc(pcs) ==
  [p \in Procs |-> IF pcs[p] = "nodesc" THEN "start" ELSE pcs[p]]

(* virtio_disk_rw() is called.                                              *)
Call(p) ==
  /\ rpc[p] = "idle"
  /\ done' = done \ {p}
  /\ Resume(p, "start")
  /\ UNCHANGED <<free, next, info, avail, used, busy, lock, head, irq, taken>>

(* acquire(&disk.vdisk_lock), at the start and at the end of each sleep().  *)
Acquire(p) ==
  /\ rpc[p] \in {"start", "woken"} /\ lock = Nobody
  /\ lock' = p
  /\ Resume(p, IF rpc[p] = "start" THEN "alloc" ELSE "wait")
  /\ UNCHANGED <<free, next, info, avail, used, busy, head, dev>>

(* alloc3_desc() fails: what it has taken is given back, which wakes every  *)
(* other process that waits for descriptors; then sleep().                  *)
NoDesc(p) ==
  /\ rpc[p] = "alloc" /\ Cardinality(free) < 3
  /\ rpc' = [IF free = {} THEN rpc ELSE WokenForDesc(rpc) EXCEPT ![p] = "nodesc"]
  /\ lock' = Nobody
  /\ UNCHANGED <<free, next, info, avail, used, busy, head, dev>>

(* alloc_desc(): i is the first free descriptor, after those in T are taken. *)
alloc_desc(i, T) == i \in free \ T /\ \A j \in free \ T : i <= j

(* alloc3_desc().                                                           *)
Taken(i, j, k) == {i, j, k}

(* virtio_disk_rw(): the chain of three descriptors is put together and put *)
(* in the available ring.                                                   *)
Submit(p) ==
  /\ rpc[p] = "alloc" /\ Cardinality(free) >= 3
  /\ \E i, j, k \in Desc :
       /\ alloc_desc(i, {}) /\ alloc_desc(j, {i}) /\ alloc_desc(k, {i, j})
       /\ free' = free \ Taken(i, j, k)
       /\ next' = [next EXCEPT ![i] = j, ![j] = k, ![k] = End]
       /\ info' = [info EXCEPT ![i] = p]
       /\ head' = [head EXCEPT ![p] = i]
       /\ avail' = Append(avail, i)
  /\ busy' = busy \cup {p}
  /\ Resume(p, "wait")
  /\ UNCHANGED <<used, lock, dev>>

(* Wrong: a busy wait, with vdisk_lock held.                                *)
WaitDoneSpin(p) == rpc[p] = "wait" /\ p \in busy /\ UNCHANGED DiskVars

(* virtio_disk_rw(): b->disk is 1: sleep(b, &disk.vdisk_lock).              *)
WaitDone(p) ==
  /\ rpc[p] = "wait" /\ p \in busy
  /\ lock' = Nobody
  /\ Resume(p, "asleep")
  /\ UNCHANGED <<free, next, info, avail, used, busy, head, dev>>

Chain(i) == {i, next[i], next[next[i]]}

(* free_chain().                                                            *)
Freed(i) == free \cup Chain(i)

(* virtio_disk_rw(): the request is done.                                   *)
Finish(p) ==
  /\ rpc[p] = "wait" /\ p \notin busy
  /\ info' = [info EXCEPT ![head[p]] = Nobody]
  /\ free' = Freed(head[p])
  /\ next' = [d \in Desc |-> IF d \in Chain(head[p]) THEN End ELSE next[d]]
  /\ rpc' = [WokenForDesc(rpc) EXCEPT ![p] = "idle"]
  /\ head' = [head EXCEPT ![p] = 0]
  /\ lock' = Nobody
  /\ UNCHANGED <<avail, used, busy, dev>>

-----------------------------------------------------------------------------
(* virtio_disk_intr(): acquire, and acknowledge.                            *)
IntrAck ==
  /\ irq = "up" /\ lock = Nobody
  /\ lock' = "intr"
  /\ irq' = "down"
  /\ UNCHANGED <<free, next, info, avail, used, busy, rpc, head, taken, done>>

(* Wrong: the newest entry of the used ring is taken.                       *)
CompletedNewest == used[Len(used)]

(* virtio_disk_intr(): disk.used->ring[disk.used_idx % NUM].id.             *)
Completed == Head(used)

(* virtio_disk_intr(): an entry of the used ring; wakeup(b).                *)
IntrEntry ==
  /\ lock = "intr" /\ used # <<>>
  /\ LET p == info[Completed] IN
       /\ busy' = busy \ {p}
       /\ rpc' = [q \in Procs |-> IF q = p /\ rpc[q] = "asleep" THEN "woken" ELSE rpc[q]]
  /\ used' = Tail(used)
  /\ UNCHANGED <<free, next, info, avail, lock, head, dev>>

(* virtio_disk_intr(): no more entries.                                     *)
IntrEnd ==
  /\ lock = "intr" /\ used = <<>>
  /\ lock' = Nobody
  /\ UNCHANGED <<free, next, info, avail, used, busy, rpc, head, dev>>

-----------------------------------------------------------------------------
(* The device takes the next available request.                             *)
DevTake ==
  /\ avail # <<>>
  /\ taken' = taken \cup {Head(avail)}
  /\ avail' = Tail(avail)
  /\ UNCHANGED <<free, next, info, used, busy, lock, rpc, head, irq, done>>

(* The device has carried out a request.                                    *)
DevDone(i) ==
  /\ i \in taken
  /\ taken' = taken \ {i}
  /\ done' = done \cup {info[i]}
  /\ used' = Append(used, i)
  /\ irq' = "up"
  /\ UNCHANGED <<free, next, info, avail, busy, lock, rpc, head>>

Request(p) == NoDesc(p) \/ Submit(p) \/ WaitDone(p) \/ Finish(p)
Intr == IntrEntry \/ IntrEnd
Device == DevTake \/ \E i \in Desc : DevDone(i)

DiskNext ==
  \/ \E p \in Procs : Call(p) \/ Acquire(p) \/ Request(p)
  \/ IntrAck \/ Intr \/ Device

DiskSpec == DiskInit /\ [][DiskNext]_DiskVars

(* Whoever has the lock goes on, acquire() gets a lock that is free again   *)
(* and again, and the device serves every request.                          *)
DiskFairness ==
  /\ \A p \in Procs : WF_DiskVars(Request(p)) /\ SF_DiskVars(Acquire(p))
  /\ SF_DiskVars(IntrAck) /\ WF_DiskVars(Intr)
  /\ WF_DiskVars(DevTake) /\ \A i \in Desc : WF_DiskVars(DevDone(i))

DiskFairSpec == DiskSpec /\ DiskFairness

-----------------------------------------------------------------------------
InFlight == {p \in Procs : rpc[p] \in {"wait", "asleep", "woken"}}

(* Every descriptor is free or in the chain of exactly one request: nothing *)
(* leaks, nothing is freed twice ("free_desc 2"), no two requests share.    *)
DescriptorsAccounted ==
  /\ \A p \in InFlight : Chain(head[p]) \subseteq Desc \ free
  /\ \A p, q \in InFlight : p # q => Chain(head[p]) \cap Chain(head[q]) = {}
  /\ Cardinality(free) + 3 * Cardinality(InFlight) = NUM

(* virtio_disk_rw() goes past its wait only when the device has carried out *)
(* that request, although completions come in any order and are handled in  *)
(* one interrupt or in several.                                             *)
OnlyDoneReturn == \A p \in InFlight : p \notin busy => p \in done

(* A ring entry nobody has read yet belongs to a request that is still      *)
(* waiting, and to one only: info[id].b is its buffer, and a ring of NUM    *)
(* entries never overflows.                                                 *)
EntriesFresh ==
  LET outstanding == avail \o used IN
    /\ \A n \in 1..Len(outstanding) : info[outstanding[n]] \in busy
    /\ \A m, n \in 1..Len(outstanding) : outstanding[m] = outstanding[n] => m = n

(* A process sleeps for descriptors only while there are too few.           *)
NoDescMeansFew == \A p \in Procs : rpc[p] = "nodesc" => Cardinality(free) < 3

(* Together: descriptors are neither leaked nor shared, a process sleeps    *)
(* for them only while they are short, a ring entry belongs to a request    *)
(* that is still waiting, and only a request the device has done returns.   *)
RequestsSound ==
  /\ DiskTypeOK /\ DescriptorsAccounted /\ NoDescMeansFew
  /\ EntriesFresh /\ OnlyDoneReturn

(* Every request that was handed to the device returns.                     *)
RequestsReturn == \A p \in Procs : rpc[p] = "wait" ~> rpc[p] = "idle"
=============================================================================
