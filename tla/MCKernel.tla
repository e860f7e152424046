------------------------------ MODULE MCKernel ------------------------------
(***************************************************************************)
(* Parts of the kernel side by side: traps and context switches (Trap),    *)
(* the FIFO and round-robin schedulers with their clock (Sched), the file  *)
(* table (Fds), the UART's transmitter (Uart) and the blocks of files      *)
(* (Blocks).  A behaviour exercises one of them, the one part names; the   *)
(* others stay as they start.                                              *)
(***************************************************************************)
EXTENDS Trap, Sched, Fds, Uart, TLC

CONSTANTS
  u0, u1,
  NoProc, Inums, BlockProcs, NBLOCKS, BSIZE, NDIRECT, BPB, MAXOPBLOCKS, Lengths, MaxCalls

VARIABLES
  part,
  b_used, b_data, b_addrs, b_size, b_lock, b_off, b_call, b_bytes, b_calls, b_panicked

bvars == <<b_used, b_data, b_addrs, b_size, b_lock, b_off, b_call, b_bytes, b_calls,
           b_panicked>>

b == INSTANCE Blocks WITH
  Procs <- BlockProcs, used <- b_used, data <- b_data, addrs <- b_addrs, size <- b_size, lock <- b_lock,
  off <- b_off, call <- b_call, bytes <- b_bytes, calls <- b_calls, panicked <- b_panicked

\* A user program of two instructions, one after the other and back.
FlipPC == [x \in {u0, u1} |-> IF x = u0 THEN u1 ELSE u0]

\* Neither files nor the processes that write them differ but in name.
BlockSymmetry == Permutations(Inums) \cup Permutations(BlockProcs)

AllInit ==
  /\ part \in {"trap", "sched", "files", "blocks", "uart"}
  /\ Init /\ SchedInit /\ FdInit /\ UartInit /\ b!Init
  /\ part # "trap" => resume = [p \in Proc |-> u0] /\ hartid = [p \in Proc |-> Cpu0]
  /\ part # "sched" => policy = "RR"

AllNext ==
  /\ UNCHANGED part
  /\ \/ part = "trap" /\ Next /\ UNCHANGED <<SchedVars, FdVars, UartVars, bvars>>
     \/ part = "sched" /\ SchedNext /\ UNCHANGED <<vars, FdVars, UartVars, bvars>>
     \/ part = "files" /\ FdNext /\ UNCHANGED <<vars, SchedVars, UartVars, bvars>>
     \/ part = "uart" /\ UartNext /\ UNCHANGED <<vars, SchedVars, FdVars, bvars>>
     \/ part = "blocks" /\ b!Next /\ UNCHANGED <<vars, SchedVars, FdVars, UartVars>>

AllSpec == AllInit /\ [][AllNext]_<<part, vars, SchedVars, FdVars, UartVars, bvars>>

-----------------------------------------------------------------------------
(* Blocks: no block leaks or is in two files, and a writei() fits in what   *)
(* begin_op() has reserved.                                                 *)
BlocksAccounted == part = "blocks" => b!BlocksAccounted /\ b!WithinReservation

(* Blocks: a file reads back as its writes left it.                         *)
ReadsBack == part = "blocks" => b!ReadsBack
=============================================================================
