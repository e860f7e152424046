----------------------------- MODULE MCBuffers -----------------------------
(***************************************************************************)
(* The kernel's shared buffers and pages, side by side: the buffer cache   *)
(* (Bcache), the console's input ring (Console) and user memory (Memory).  *)
(* A behaviour exercises one of them, the one part names.                  *)
(***************************************************************************)
EXTENDS Bcache, Console

CONSTANTS
  NPROC, PageCounts, PGSIZE, NPages, MaxArg, MaxGrow

VARIABLES
  part,
  m_total, m_nfree, m_pc, m_tf, m_pt, m_sz, m_npt, m_nsz, m_i, m_to, m_child, m_argv,
  m_mem, m_panic

mvars == <<m_total, m_nfree, m_pc, m_tf, m_pt, m_sz, m_npt, m_nsz, m_i, m_to, m_child,
           m_argv, m_mem, m_panic>>

m == INSTANCE Memory WITH
  total <- m_total, nfree <- m_nfree, pc <- m_pc, tf <- m_tf, pt <- m_pt, sz <- m_sz,
  npt <- m_npt, nsz <- m_nsz, i <- m_i, to <- m_to, child <- m_child, argv <- m_argv,
  mem <- m_mem, panic <- m_panic

(* One initial state is enough for the parts that are not exercised.        *)
Plain == \A b \in Bufs, k \in Blocks : data[b] = 0 /\ disk[k] = 0
Smallest == \A k \in PageCounts : m_total <= k

AllInit ==
  /\ part \in {"bcache", "console", "memory"}
  /\ Init /\ ConsInit /\ m!Init
  /\ part # "bcache" => Plain
  /\ part # "memory" => Smallest

AllNext ==
  /\ UNCHANGED part
  /\ \/ part = "bcache" /\ Next /\ UNCHANGED <<ConsVars, mvars>>
     \/ part = "console" /\ ConsNext /\ UNCHANGED <<vars, mvars>>
     \/ part = "memory" /\ m!Next /\ UNCHANGED <<vars, ConsVars>>

AllSpec == AllInit /\ [][AllNext]_<<part, vars, ConsVars, mvars>>

-----------------------------------------------------------------------------
(* Memory: a process finds in its memory what it put there, every page that *)
(* is not free belongs to a process, and no page table is freed with pages  *)
(* in it or mapped twice; the variables stay in their types.                *)
MemorySound == m!TypeOK /\ m!OwnMemory /\ m!NothingLeaks /\ m!NeverPanics
=============================================================================
