------------------------------ MODULE MCFiles -------------------------------
(***************************************************************************)
(* What a file descriptor can stand for, side by side: a pipe (Pipe) and   *)
(* the inodes behind files and directories (Inodes).  A behaviour          *)
(* exercises one of them, the one part names.                              *)
(***************************************************************************)
EXTENDS Pipe

CONSTANTS Parts, Callers, NoProc, NINODES, Names, NFILE, Menus, Starts,
          MaxCalls, MaxCrashes

VARIABLES
  part,
  i_dino, i_content, i_core, i_ref, i_lock, i_proc, i_fd, i_cwd, i_saved, i_up,
  i_calls, i_crashes, i_menu

ivars == <<i_dino, i_content, i_core, i_ref, i_lock, i_proc, i_fd, i_cwd, i_saved,
           i_up, i_calls, i_crashes, i_menu>>

i == INSTANCE Inodes WITH
  dino <- i_dino, content <- i_content, core <- i_core, ref <- i_ref,
  lock <- i_lock, proc <- i_proc, fd <- i_fd, cwd <- i_cwd, saved <- i_saved,
  up <- i_up, calls <- i_calls, crashes <- i_crashes, menu <- i_menu

Abs(s) == [abs |-> TRUE, at |-> s]
Rel(s) == [abs |-> FALSE, at |-> s]
Do(call, path) == [call |-> call, path |-> path, new |-> path]
Link(old, new) == [call |-> "link", path |-> old, new |-> new]

\* Files of one directory under two names.
Files ==
    {Do("create", Abs(<<"a">>)), Do("open", Abs(<<"b">>)), Do("unlink", Abs(<<"a">>)),
     Do("unlink", Abs(<<"b">>)), Link(Abs(<<"a">>), Abs(<<"b">>)), Link(Abs(<<"a">>), Abs(<<>>))}

\* Directories made, entered, opened and removed.
Directories ==
    {Do("mkdir", Abs(<<"a">>)), Do("unlink", Abs(<<"a">>)), Do("chdir", Abs(<<"a">>)),
     Do("chdir", Abs(<<>>)), Do("open", Abs(<<"a">>)), Do("unlink", Rel(<<"..">>)),
     Do("create", Abs(<<"a">>)), Do("mkdir", Abs(<<>>))}

\* A directory that is never removed, and what is made in it.
Nested ==
    {Do("mkdir", Abs(<<"a">>)), Do("chdir", Abs(<<"a">>)), Do("create", Rel(<<"b">>)),
     Do("mkdir", Rel(<<"b">>)), Do("unlink", Abs(<<"a", "b">>)),
     Link(Rel(<<"b">>), Rel(<<"..", "b">>)), Do("open", Rel(<<"..", "b">>))}

\* A directory removed while something is made in it.
Vanishing ==
    {Do("mkdir", Abs(<<"a">>)), Do("unlink", Abs(<<"a">>)), Do("create", Abs(<<"a", "b">>))}

CallMenus == {Files, Directories, Nested}
VanishingMenus == {Vanishing}
FileMenus == {Files}

-----------------------------------------------------------------------------
(* The part that is not exercised keeps one initial state.                 *)
PlainPipe == data = [k \in 0..(PIPESIZE - 1) |-> CHOOSE b \in Byte : TRUE]

AllInit ==
  /\ part \in Parts
  /\ part # "pipe" => PlainPipe
  /\ Init
  /\ IF part = "inodes"
     THEN i!Init
     ELSE /\ i_saved = i!EmptyDisk /\ i_menu = {}
          /\ i_dino = i_saved.dino /\ i_content = i_saved.content
          /\ i_core = <<>> /\ i_ref = <<>> /\ i_lock = <<>> /\ i_proc = <<>>
          /\ i_fd = <<>> /\ i_cwd = <<>> /\ i_up = FALSE /\ i_calls = 0 /\ i_crashes = 0

AllNext ==
  /\ UNCHANGED part
  /\ \/ part = "pipe" /\ Next /\ UNCHANGED ivars
     \/ part = "inodes" /\ i!Next /\ UNCHANGED vars

AllSpec == AllInit /\ [][AllNext]_<<part, vars, ivars>>

-----------------------------------------------------------------------------
(* Inodes: on the disk that a crash would leave, every link count is the    *)
(* number of links, and no name leads to a free inode.                      *)
LinksExact == part = "inodes" => i!LinksExact

(* Inodes: reference counts are those of open files and current             *)
(* directories, locks are given back, nothing in use is freed, no call      *)
(* panics and iput() never waits for an inode's lock.                       *)
NothingLost == part = "inodes" => i!InodesSound /\ i!NothingLost

(* Inodes: between calls, an inode without links and references is free.    *)
OrphansFreed == part = "inodes" => i!OrphansFreed
=============================================================================
