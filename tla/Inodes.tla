------------------------------- MODULE Inodes -------------------------------
(***************************************************************************)
(* Inodes, directories and the calls that change them: fs.c and sysfile.c. *)
(*                                                                         *)
(* dino and content are what the buffer cache holds of the inode blocks    *)
(* and of the directories' data blocks; core is the in-memory copy in the  *)
(* inode table (NoCopy when ip->valid is 0), ref and lock the entry's      *)
(* reference count and sleep lock.  saved is what a crash leaves: the log  *)
(* (module Log) makes the calls of a group atomic, so saved becomes the    *)
(* cached state whenever the last running call ends.                       *)
(*                                                                         *)
(* A call is cut at every ilock: that is where it can wait and where other *)
(* processes get in.  todo[p] holds the iunlock and iput steps a call has  *)
(* committed to before it goes on at pc; iput itself is cut at             *)
(* itable.lock.  File contents, "." and the size of a path are left out;   *)
(* each inode number has an entry of the inode table.                      *)
(***************************************************************************)
EXTENDS Integers, Sequences, FiniteSets, FiniteSetsExt

CONSTANTS Callers, NoProc,
          NINODES,      \* inodes on the disk
          Names,        \* what a directory entry can be called
          NFILE,        \* open files in the system
          Menus,        \* sets of calls; a behaviour makes the calls of one
          Starts,       \* what the disk holds at first: "none", "file" or "dir"
          MaxCalls,     \* calls a behaviour makes, closes not counted
          MaxCrashes

VARIABLES dino, content, core, ref, lock, proc, fd, cwd, saved, up, calls, crashes, menu

vars == <<dino, content, core, ref, lock, proc, fd, cwd, saved, up, calls, crashes, menu>>

Inum == 1..NINODES
Root == 1
None == 0
NoCopy == [type |-> "invalid", nlink |-> 0]

Types == {"none", "file", "dir"}
Dinode == [type : Types, nlink : 0..(NINODES + Cardinality(Names))]
FreeDinode == [type |-> "none", nlink |-> 0]

\* A directory's entries; ".." is the one that isdirempty skips.
Entries == Names \cup {".."}
NoEntries == [n \in Entries |-> None]

Idle == [pc |-> "idle", goal |-> "idle", call |-> "none", path |-> <<>>,
         new |-> [abs |-> TRUE, at |-> <<>>],
         cur |-> None, dp |-> None, ip |-> None, todo |-> <<>>]

\* mkfs writes a root directory whose parent is itself.
EmptyDisk ==
    [dino |-> [i \in Inum |-> IF i = Root THEN [type |-> "dir", nlink |-> 1] ELSE FreeDinode],
     content |-> [i \in Inum |-> IF i = Root THEN [NoEntries EXCEPT ![".."] = Root]
                                             ELSE NoEntries]]

\* The disk of mkfs with one more inode, named a, unless type is "none": a
\* file mkfs was given, or a directory a mkdir left.
Disk(type) ==
    IF type = "none" THEN EmptyDisk
    ELSE [dino |-> [EmptyDisk.dino EXCEPT
                      ![2] = [type |-> type, nlink |-> 1],
                      ![Root] = IF type = "dir" THEN [@ EXCEPT !.nlink = 2] ELSE @],
          content |-> [EmptyDisk.content EXCEPT
                         ![Root]["a"] = 2,
                         ![2] = IF type = "dir" THEN [@ EXCEPT ![".."] = Root] ELSE @]]

\* Every process starts in the root directory and holds a reference to it.
AllAtRoot == [i \in Inum |-> IF i = Root THEN Cardinality(Callers) ELSE 0]

Init ==
    /\ saved \in {Disk(type) : type \in Starts}
    /\ dino = saved.dino
    /\ content = saved.content
    /\ core = [i \in Inum |-> NoCopy]
    /\ ref = AllAtRoot
    /\ lock = [i \in Inum |-> NoProc]
    /\ proc = [p \in Callers |-> Idle]
    /\ fd = [p \in Callers |-> None]
    /\ cwd = [p \in Callers |-> Root]
    /\ up = TRUE
    /\ calls = 0
    /\ crashes = 0
    /\ menu \in Menus

-----------------------------------------------------------------------------
(* The inode table.                                                        *)

\* ilock reads the inode from its block unless the entry is valid.
Loaded(i) == IF core[i] = NoCopy THEN dino[i] ELSE core[i]

\* iget and idup: one more reference.
Got(i) == [ref EXCEPT ![i] = @ + 1]

\* One reference less.  iget takes an entry without references for any inode
\* and clears valid then; the model forgets the copy when the last one goes.
Forgotten(i) == IF ref[i] = 1 THEN [core EXCEPT ![i] = NoCopy] ELSE core

iunlock(i) == [do |-> "unlock", i |-> i]
iput(i) == [do |-> "put", i |-> i]
iunlockput(i) == <<iunlock(i), iput(i)>>

Ready(p, pc) == up /\ proc[p].pc = pc /\ proc[p].todo = <<>>
Doing(p, do) == up /\ proc[p].todo # <<>> /\ Head(proc[p].todo).do = do

\* The inode p's next ilock takes, when it is about to take one.
Wants(p) ==
    IF proc[p].todo = <<>> /\ proc[p].pc \notin {"idle", "end", "o_file"}
    THEN proc[p].cur ELSE None

\* p goes on at pc once it has done todo.
GoOn(p, pc, todo) == [proc EXCEPT ![p].pc = pc, ![p].todo = todo]

Unlock(p) ==
    /\ Doing(p, "unlock")
    /\ lock' = [lock EXCEPT ![Head(proc[p].todo).i] = NoProc]
    /\ proc' = [proc EXCEPT ![p].todo = Tail(@)]
    /\ UNCHANGED <<dino, content, core, ref, fd, cwd, saved, up, calls, crashes, menu>>

\* iput under itable.lock: is this the last reference to an unlinked inode?
MustFree(i) == ref[i] = 1 /\ core[i] # NoCopy /\ core[i].nlink = 0

\* The free case takes the sleep lock before it drops itable.lock.
PutFree(p) ==
    /\ Doing(p, "put")
    /\ LET i == Head(proc[p].todo).i IN
         /\ MustFree(i)
         /\ lock[i] = NoProc
         /\ lock' = [lock EXCEPT ![i] = p]
         /\ proc' = [proc EXCEPT ![p].todo = <<[do |-> "free", i |-> i]>> \o Tail(@)]
    /\ UNCHANGED <<dino, content, core, ref, fd, cwd, saved, up, calls, crashes, menu>>

PutKeep(p) ==
    /\ Doing(p, "put")
    /\ LET i == Head(proc[p].todo).i IN
         /\ ~MustFree(i)
         /\ ref' = [ref EXCEPT ![i] = @ - 1]
         /\ core' = Forgotten(i)
    /\ proc' = [proc EXCEPT ![p].todo = Tail(@)]
    /\ UNCHANGED <<dino, content, lock, fd, cwd, saved, up, calls, crashes, menu>>

\* Entries of a directory whose lock is held.
dirlookup(i, n) == content[i][n]
dirlink(c, i, n, k) == [c EXCEPT ![i][n] = k]

\* What itrunc leaves of a directory.
itrunc(c, i) == [c EXCEPT ![i] = NoEntries]

\* The in-memory copy once the inode is free: valid = 0.
FreedCopy == NoCopy

\* itrunc, type = 0, iupdate, valid = 0, releasesleep; the reference goes next.
Free(p) ==
    /\ Doing(p, "free")
    /\ LET i == Head(proc[p].todo).i IN
         /\ dino' = [dino EXCEPT ![i] = FreeDinode]
         /\ content' = itrunc(content, i)
         /\ core' = [core EXCEPT ![i] = FreedCopy]
         /\ lock' = [lock EXCEPT ![i] = NoProc]
         /\ proc' = [proc EXCEPT ![p].todo = <<[do |-> "drop", i |-> i]>> \o Tail(@)]
    /\ UNCHANGED <<ref, fd, cwd, saved, up, calls, crashes, menu>>

Drop(p) ==
    /\ Doing(p, "drop")
    /\ LET i == Head(proc[p].todo).i IN
         /\ ref' = [ref EXCEPT ![i] = @ - 1]
         /\ core' = Forgotten(i)
    /\ proc' = [proc EXCEPT ![p].todo = Tail(@)]
    /\ UNCHANGED <<dino, content, lock, fd, cwd, saved, up, calls, crashes, menu>>

\* core and dino after the holder of i's lock sets its fields and calls iupdate.
Updated(f, i, d) == [f EXCEPT ![i] = d]

-----------------------------------------------------------------------------
(* Calls: begin_op, then a walk from the root or the current directory.    *)

GoalOf(call) ==
    CASE call \in {"create", "mkdir"} -> "c_dir"
      [] call = "unlink" -> "u_dir"
      [] call = "link" -> "l_ino"
      [] call = "open" -> "o_ino"
      [] call = "chdir" -> "d_ino"

\* nameiparent stops one element early.
Parent(goal) == goal \in {"c_dir", "u_dir", "l_dir"}

FromHere(p, path) == IF path.abs THEN Root ELSE cwd[p]

\* Where a call goes when its walk fails.
LostPc(goal) == IF goal = "l_dir" THEN "l_bad" ELSE "end"

\* A path without elements names where the walk is, and has no parent.
NoParent(goal, path) == path = <<>> /\ Parent(goal)

WalkPc(goal, path) ==
    IF path # <<>> THEN "walk" ELSE IF Parent(goal) THEN LostPc(goal) ELSE goal

Begin(p) ==
    /\ Ready(p, "idle")
    /\ calls < MaxCalls
    /\ calls' = calls + 1
    /\ \E c \in menu :
         LET i == FromHere(p, c.path) IN
         /\ proc' = [proc EXCEPT ![p] =
              [@ EXCEPT !.pc = WalkPc(GoalOf(c.call), c.path.at), !.goal = GoalOf(c.call),
                        !.call = c.call, !.path = c.path.at, !.new = c.new, !.cur = i,
                        !.todo = IF NoParent(GoalOf(c.call), c.path.at) THEN <<iput(i)>> ELSE @]]
         /\ ref' = Got(i)
    /\ UNCHANGED <<dino, content, core, lock, fd, cwd, saved, up, crashes, menu>>

\* One round of namex's loop.  cur is referenced and not locked.
Walk(p) ==
    LET r == proc[p]
        i == r.cur
        d == Loaded(i)
        j == dirlookup(i, Head(r.path))
        lost == [GoOn(p, LostPc(r.goal), iunlockput(i)) EXCEPT ![p].cur = r.ip]
    IN
    /\ Ready(p, "walk")
    /\ lock[i] = NoProc
    /\ \/ /\ d.type # "dir"
          /\ lock' = [lock EXCEPT ![i] = p]
          /\ core' = [core EXCEPT ![i] = d]
          /\ proc' = lost
          /\ UNCHANGED ref
       \/ /\ d.type = "dir"
          /\ Parent(r.goal) /\ Len(r.path) = 1
          /\ core' = [core EXCEPT ![i] = d]
          /\ proc' = GoOn(p, r.goal, <<>>)
          /\ UNCHANGED <<lock, ref>>
       \/ /\ d.type = "dir"
          /\ ~(Parent(r.goal) /\ Len(r.path) = 1)
          /\ j # None
          /\ lock' = [lock EXCEPT ![i] = p]
          /\ core' = [core EXCEPT ![i] = d]
          /\ ref' = Got(j)
          /\ proc' = [GoOn(p, WalkPc(r.goal, Tail(r.path)), iunlockput(i)) EXCEPT
                        ![p].cur = j, ![p].path = Tail(@)]
       \/ /\ d.type = "dir"
          /\ ~(Parent(r.goal) /\ Len(r.path) = 1)
          /\ j = None
          /\ lock' = [lock EXCEPT ![i] = p]
          /\ core' = [core EXCEPT ![i] = d]
          /\ proc' = lost
          /\ UNCHANGED ref
    /\ UNCHANGED <<dino, content, fd, cwd, saved, up, calls, crashes, menu>>

\* end_op: the last call of the group commits it.
EndOp(p) ==
    /\ Ready(p, "end")
    /\ proc' = [proc EXCEPT ![p] = Idle]
    /\ saved' = IF \A q \in Callers \ {p} : proc[q].pc = "idle"
                THEN [dino |-> dino, content |-> content] ELSE saved
    /\ UNCHANGED <<dino, content, core, ref, lock, fd, cwd, up, calls, crashes, menu>>

-----------------------------------------------------------------------------
(* create, for open(O_CREATE) and mkdir.                                   *)

NewType(call) == IF call = "mkdir" THEN "dir" ELSE "file"

FreeInodes == {i \in Inum : dino[i].type = "none"}

\* The parent is locked: the name is there, or ialloc takes the first free
\* inode, or there is none.
CreateLookup(p) ==
    LET r == proc[p]
        i == r.cur
        d == Loaded(i)
        j == dirlookup(i, Head(r.path))
        k == Min(FreeInodes)
    IN
    /\ Ready(p, "c_dir")
    /\ lock[i] = NoProc
    /\ lock' = [lock EXCEPT ![i] = p]
    /\ \/ /\ j # None
          /\ ref' = Got(j)
          /\ core' = [core EXCEPT ![i] = d]
          /\ proc' = [GoOn(p, "c_exist", iunlockput(i)) EXCEPT ![p].cur = j]
          /\ UNCHANGED dino
       \/ /\ j = None /\ FreeInodes = {}
          /\ core' = [core EXCEPT ![i] = d]
          /\ proc' = GoOn(p, "end", iunlockput(i))
          /\ UNCHANGED <<dino, ref>>
       \/ /\ j = None /\ FreeInodes # {}
          /\ dino' = [dino EXCEPT ![k] = [type |-> NewType(r.call), nlink |-> 0]]
          /\ ref' = Got(k)
          /\ core' = [core EXCEPT ![i] = d]
          /\ proc' = [GoOn(p, "c_new", <<>>) EXCEPT ![p].cur = k, ![p].dp = i]
    /\ UNCHANGED <<content, fd, cwd, saved, up, calls, crashes, menu>>

CreateExisting(p) ==
    LET r == proc[p]
        i == r.cur
        d == Loaded(i)
    IN
    /\ Ready(p, "c_exist")
    /\ lock[i] = NoProc
    /\ lock' = [lock EXCEPT ![i] = p]
    /\ core' = [core EXCEPT ![i] = d]
    /\ proc' = IF r.call = "create" /\ d.type = "file"
               THEN GoOn(p, "o_file", <<>>) ELSE GoOn(p, "end", iunlockput(i))
    /\ UNCHANGED <<dino, content, ref, fd, cwd, saved, up, calls, crashes, menu>>

\* A new directory's ".." counts as a link to its parent.
LinkedParent(d, type) == IF type = "dir" THEN [d EXCEPT !.nlink = @ + 1] ELSE d

\* A new inode and its entry; dirlink fails when the disk has no block left.
CreateNew(p) ==
    LET r == proc[p]
        k == r.cur
        dp == r.dp
        type == NewType(r.call)
        new == [Loaded(k) EXCEPT !.nlink = 1]
        par == LinkedParent(core[dp], type)
    IN
    /\ Ready(p, "c_new")
    /\ lock[k] = NoProc
    /\ lock' = [lock EXCEPT ![k] = p]
    /\ \/ /\ core' = Updated(Updated(core, k, new), dp, par)
          /\ dino' = Updated(Updated(dino, k, new), dp, par)
          /\ content' = dirlink(IF type = "dir" THEN dirlink(content, k, "..", dp) ELSE content,
                                dp, Head(r.path), k)
          /\ proc' = IF r.call = "mkdir"
                     THEN GoOn(p, "end", iunlockput(dp) \o iunlockput(k))
                     ELSE GoOn(p, "o_file", iunlockput(dp))
       \/ /\ core' = Updated(core, k, [new EXCEPT !.nlink = 0])
          /\ dino' = Updated(dino, k, [new EXCEPT !.nlink = 0])
          /\ proc' = GoOn(p, "end", iunlockput(k) \o iunlockput(dp))
          /\ UNCHANGED content
    /\ UNCHANGED <<ref, fd, cwd, saved, up, calls, crashes, menu>>

-----------------------------------------------------------------------------
(* open, close, chdir.                                                     *)

\* open of an existing file or directory, for reading.
OpenLock(p) ==
    LET i == proc[p].cur IN
    /\ Ready(p, "o_ino")
    /\ lock[i] = NoProc
    /\ lock' = [lock EXCEPT ![i] = p]
    /\ core' = [core EXCEPT ![i] = Loaded(i)]
    /\ proc' = GoOn(p, "o_file", <<>>)
    /\ UNCHANGED <<dino, content, ref, fd, cwd, saved, up, calls, crashes, menu>>

\* Wrong: an open that finds no free file keeps its reference.
NoFileKept(i) == <<iunlock(i)>>

NoFile(i) == iunlockput(i)

FilesOpen == Cardinality({q \in Callers : fd[q] # None})

\* filealloc and fdalloc; the inode is locked.  A process has one descriptor.
OpenFile(p) ==
    LET i == proc[p].cur IN
    /\ Ready(p, "o_file")
    /\ IF FilesOpen < NFILE /\ fd[p] = None
       THEN /\ fd' = [fd EXCEPT ![p] = i]
            /\ proc' = GoOn(p, "end", <<iunlock(i)>>)
       ELSE /\ proc' = GoOn(p, "end", NoFile(i))
            /\ UNCHANGED fd
    /\ UNCHANGED <<dino, content, core, ref, lock, cwd, saved, up, calls, crashes, menu>>

Close(p) ==
    /\ Ready(p, "idle")
    /\ fd[p] # None
    /\ fd' = [fd EXCEPT ![p] = None]
    /\ proc' = GoOn(p, "end", <<iput(fd[p])>>)
    /\ UNCHANGED <<dino, content, core, ref, lock, cwd, saved, up, calls, crashes, menu>>

Chdir(p) ==
    LET i == proc[p].cur
        d == Loaded(i)
    IN
    /\ Ready(p, "d_ino")
    /\ lock[i] = NoProc
    /\ core' = [core EXCEPT ![i] = d]
    /\ IF d.type = "dir"
       THEN /\ cwd' = [cwd EXCEPT ![p] = i]
            /\ proc' = GoOn(p, "end", <<iput(cwd[p])>>)
            /\ UNCHANGED lock
       ELSE /\ lock' = [lock EXCEPT ![i] = p]
            /\ proc' = GoOn(p, "end", iunlockput(i))
            /\ UNCHANGED cwd
    /\ UNCHANGED <<dino, content, ref, fd, saved, up, calls, crashes, menu>>

-----------------------------------------------------------------------------
(* unlink.                                                                 *)

UnlinkLookup(p) ==
    LET r == proc[p]
        i == r.cur
        j == dirlookup(i, Head(r.path))
    IN
    /\ Ready(p, "u_dir")
    /\ lock[i] = NoProc
    /\ lock' = [lock EXCEPT ![i] = p]
    /\ IF j # None /\ Head(r.path) # ".."
       THEN /\ ref' = Got(j)
            /\ core' = [core EXCEPT ![i] = Loaded(i)]
            /\ proc' = [GoOn(p, "u_ino", <<>>) EXCEPT ![p].cur = j, ![p].dp = i]
       ELSE /\ core' = [core EXCEPT ![i] = Loaded(i)]
            /\ proc' = GoOn(p, "end", iunlockput(i))
            /\ UNCHANGED ref
    /\ UNCHANGED <<dino, content, fd, cwd, saved, up, calls, crashes, menu>>

isdirempty(i) == \A n \in Names : content[i][n] = None

UnlinkedParent(d, type) == IF type = "dir" THEN [d EXCEPT !.nlink = @ - 1] ELSE d

\* Both inodes are locked: the entry goes, the parent is let go, and then
\* ("less") the inode loses its link.
UnlinkInode(p) ==
    LET r == proc[p]
        i == r.cur
        dp == r.dp
        d == Loaded(i)
        par == UnlinkedParent(core[dp], d.type)
    IN
    /\ Ready(p, "u_ino")
    /\ lock[i] = NoProc
    /\ lock' = [lock EXCEPT ![i] = p]
    /\ IF d.type = "dir" /\ ~isdirempty(i)
       THEN /\ core' = [core EXCEPT ![i] = d]
            /\ proc' = GoOn(p, "end", iunlockput(i) \o iunlockput(dp))
            /\ UNCHANGED <<dino, content>>
       ELSE /\ content' = [content EXCEPT ![dp][Head(r.path)] = None]
            /\ core' = Updated([core EXCEPT ![i] = d], dp, par)
            /\ dino' = Updated(dino, dp, par)
            /\ proc' = GoOn(p, "end", iunlockput(dp) \o <<[do |-> "less", i |-> i]>>
                                                      \o iunlockput(i))
    /\ UNCHANGED <<ref, fd, cwd, saved, up, calls, crashes, menu>>

Less(p) ==
    /\ Doing(p, "less")
    /\ LET i == Head(proc[p].todo).i
           d == [core[i] EXCEPT !.nlink = @ - 1]
       IN /\ core' = Updated(core, i, d)
          /\ dino' = Updated(dino, i, d)
    /\ proc' = [proc EXCEPT ![p].todo = Tail(@)]
    /\ UNCHANGED <<content, ref, lock, fd, cwd, saved, up, calls, crashes, menu>>

-----------------------------------------------------------------------------
(* link.                                                                   *)

\* The count goes up first; then the walk to the new name's parent.
LinkCount(p) ==
    LET r == proc[p]
        i == r.cur
        d == Loaded(i)
        more == [d EXCEPT !.nlink = @ + 1]
        s == FromHere(p, r.new)
        top == NoParent("l_dir", r.new.at)
    IN
    /\ Ready(p, "l_ino")
    /\ lock[i] = NoProc
    /\ \/ /\ d.type = "dir"
          /\ lock' = [lock EXCEPT ![i] = p]
          /\ core' = [core EXCEPT ![i] = d]
          /\ proc' = GoOn(p, "end", iunlockput(i))
          /\ UNCHANGED <<dino, ref>>
       \/ /\ d.type # "dir"
          /\ dino' = Updated(dino, i, more)
          /\ core' = Updated(core, i, more)
          /\ ref' = Got(s)
          /\ proc' = [GoOn(p, WalkPc("l_dir", r.new.at), IF top THEN <<iput(s)>> ELSE <<>>) EXCEPT
                        ![p].goal = "l_dir", ![p].path = r.new.at, ![p].ip = i,
                        ![p].cur = IF top THEN i ELSE s]
          /\ UNCHANGED lock
    /\ UNCHANGED <<content, fd, cwd, saved, up, calls, crashes, menu>>

\* dirlink: an entry of that name (looked up and put back) or a full disk is
\* an error.
LinkEntry(p) ==
    LET r == proc[p]
        i == r.cur
        j == dirlookup(i, Head(r.path))
    IN
    /\ Ready(p, "l_dir")
    /\ lock[i] = NoProc
    /\ lock' = [lock EXCEPT ![i] = p]
    /\ \/ /\ j = None
          /\ content' = dirlink(content, i, Head(r.path), r.ip)
          /\ core' = [core EXCEPT ![i] = Loaded(i)]
          /\ proc' = GoOn(p, "end", iunlockput(i) \o <<iput(r.ip)>>)
          /\ UNCHANGED ref
       \/ /\ j = None
          /\ core' = [core EXCEPT ![i] = Loaded(i)]
          /\ proc' = [GoOn(p, "l_bad", iunlockput(i)) EXCEPT ![p].cur = r.ip]
          /\ UNCHANGED <<content, ref>>
       \/ /\ j # None
          /\ core' = [core EXCEPT ![i] = Loaded(i)]
          /\ ref' = Got(j)
          /\ proc' = [GoOn(p, "l_bad", <<iput(j)>> \o iunlockput(i)) EXCEPT ![p].cur = r.ip]
          /\ UNCHANGED content
    /\ UNCHANGED <<dino, fd, cwd, saved, up, calls, crashes, menu>>

\* Wrong: a failed link leaves the count raised.
RestoredNot(d) == d

\* The count as it was before a link that failed.
Restored(d) == [d EXCEPT !.nlink = @ - 1]

LinkBad(p) ==
    LET i == proc[p].cur
        d == Restored(Loaded(i))
    IN
    /\ Ready(p, "l_bad")
    /\ lock[i] = NoProc
    /\ lock' = [lock EXCEPT ![i] = p]
    /\ core' = Updated(core, i, d)
    /\ dino' = Updated(dino, i, d)
    /\ proc' = GoOn(p, "end", iunlockput(i))
    /\ UNCHANGED <<content, ref, fd, cwd, saved, up, calls, crashes, menu>>

-----------------------------------------------------------------------------
(* A crash loses memory; fsinit then frees the inodes that were removed    *)
(* while somebody had them open.                                           *)

Crash ==
    /\ crashes < MaxCrashes
    /\ crashes' = crashes + 1
    /\ up' = FALSE
    /\ dino' = saved.dino
    /\ content' = saved.content
    /\ core' = [i \in Inum |-> NoCopy]
    /\ ref' = [i \in Inum |-> 0]
    /\ lock' = [i \in Inum |-> NoProc]
    /\ proc' = [p \in Callers |-> Idle]
    /\ fd' = [p \in Callers |-> None]
    /\ cwd' = [p \in Callers |-> Root]
    /\ UNCHANGED <<saved, calls, menu>>

Orphans == {i \in Inum : dino[i].type # "none" /\ dino[i].nlink = 0}

\* ireclaim: the first orphan is locked, unlocked and put, in a transaction.
ireclaim ==
    /\ ~up
    /\ Orphans # {}
    /\ LET i == Min(Orphans) IN
         /\ dino' = [dino EXCEPT ![i] = FreeDinode]
         /\ content' = itrunc(content, i)
    /\ saved' = [dino |-> dino', content |-> content']
    /\ UNCHANGED <<core, ref, lock, proc, fd, cwd, up, calls, crashes, menu>>

Boot ==
    /\ ~up
    /\ Orphans = {}
    /\ up' = TRUE
    /\ ref' = AllAtRoot
    /\ UNCHANGED <<dino, content, core, lock, proc, fd, cwd, saved, calls, crashes, menu>>

Step(p) ==
    \/ Unlock(p) \/ PutFree(p) \/ PutKeep(p) \/ Free(p) \/ Drop(p) \/ Less(p)
    \/ Begin(p) \/ Walk(p) \/ EndOp(p)
    \/ CreateLookup(p) \/ CreateExisting(p) \/ CreateNew(p)
    \/ OpenLock(p) \/ OpenFile(p) \/ Close(p) \/ Chdir(p)
    \/ UnlinkLookup(p) \/ UnlinkInode(p)
    \/ LinkCount(p) \/ LinkEntry(p) \/ LinkBad(p)

\* All calls are made: the processes may stay idle.
Done ==
    /\ calls = MaxCalls
    /\ up /\ \A p \in Callers : proc[p] = Idle /\ fd[p] = None
    /\ UNCHANGED vars

Next ==
    \/ \E p \in Callers : Step(p)
    \/ Done
    \/ Crash
    \/ ireclaim
    \/ Boot

Spec == Init /\ [][Next]_vars

-----------------------------------------------------------------------------
(* Properties.                                                             *)

TypeOK ==
    /\ dino \in [Inum -> Dinode]
    /\ \A i \in Inum : content[i] \in [Entries -> Inum \cup {None}]
    /\ core \in [Inum -> Dinode \cup {NoCopy}]
    /\ ref \in [Inum -> 0..(6 * Cardinality(Callers))]
    /\ lock \in [Inum -> Callers \cup {NoProc}]
    /\ fd \in [Callers -> Inum \cup {None}]
    /\ cwd \in [Callers -> Inum]
    /\ up \in BOOLEAN

\* No call panics: ilock never meets a free inode ("ilock: no type", fs.c:316),
\* unlink never finds a count below one (sysfile.c:215), and dirlookup is
\* only asked about directories (fs.c:582).
NoPanic ==
    \A p \in Callers :
      LET i == Wants(p) IN
      i # None /\ lock[i] = NoProc =>
        /\ Loaded(i).type # "none"
        /\ proc[p].pc = "u_ino" => Loaded(i).nlink >= 1
        /\ Parent(proc[p].pc) => Loaded(i).type = "dir"

\* The comment at fs.c:346: "ip->ref == 1 means no other process can have ip
\* locked, so this acquiresleep() won't block".  iput waits with itable.lock
\* held, so a wait there would stop every other file system call.
PutNeverWaits ==
    \A p \in Callers :
      LET i == Head(proc[p].todo).i IN
      Doing(p, "put") /\ MustFree(i) => lock[i] = NoProc

InodesSound == TypeOK /\ NoPanic /\ PutNeverWaits

\* The names of i in the directories of a disk, and the ".." entries of live
\* directories in it.
Links(disk, i) ==
    Cardinality({e \in Inum \X Names : disk.content[e[1]][e[2]] = i})
    + Cardinality({j \in Inum \ {Root} : /\ disk.dino[j].type = "dir"
                                         /\ disk.dino[j].nlink > 0
                                         /\ disk.content[j][".."] = i})
    + (IF i = Root THEN 1 ELSE 0)

\* What a crash leaves is consistent: every inode's nlink is the number of
\* links to it in the file system (fs.h:35), and a name or ".." of a live
\* directory never leads to a free inode.
LinksExact ==
    \A i \in Inum :
      /\ saved.dino[i].nlink = Links(saved, i)
      /\ Links(saved, i) > 0 => saved.dino[i].type # "none"

\* When no call is running, the inode table holds exactly the references of
\* open files and current directories (fs.c:135) and no lock is left taken;
\* and an inode that one of those references is never freed, whatever names
\* it has lost.
NothingLost ==
    /\ \A p \in Callers : dino[cwd[p]].type = "dir" /\ (fd[p] # None => dino[fd[p]].type # "none")
    /\ up /\ (\A p \in Callers : proc[p].pc = "idle") =>
         \A i \in Inum :
           /\ ref[i] = Cardinality({p \in Callers : fd[p] = i})
                       + Cardinality({p \in Callers : cwd[p] = i})
           /\ lock[i] = NoProc

\* The comment at fs.c:131: "iput() frees if the reference and link counts have
\* fallen to zero": between calls no allocated inode has neither.
OrphansFreed ==
    up /\ (\A p \in Callers : proc[p].pc = "idle") =>
      \A i \in Inum : dino[i].type # "none" /\ dino[i].nlink = 0 => ref[i] > 0
=============================================================================
