-------------------------------- MODULE Uart --------------------------------
(***************************************************************************)
(* The output side of xv6/kernel/uart.c: uartwrite() by processes that     *)
(* sleep until the transmit interrupt, uartputc_sync() (printk and echo)   *)
(* by harts that poll the line status instead, and uartintr().             *)
(***************************************************************************)
EXTENDS Integers, Sequences, FiniteSets

CONSTANTS
  Writers,
  Putters,    \* the harts that call uartputc_sync()
  MaxN,       \* bound: bytes of one uartwrite()
  FifoSize    \* the transmit FIFO of the device (16)

(* Processes are not harts, and there are fewer harts (NCPU is 8) than      *)
(* bytes in the FIFO.                                                       *)
ASSUME UartAssumption ==
  /\ IsFiniteSet(Putters) /\ FifoSize \in Nat /\ Cardinality(Putters) < FifoSize
  /\ Writers \cap Putters = {} /\ MaxN \in Nat

Nobody == "nobody"

VARIABLES
  tx_busy,
  tx_lock,    \* who holds tx_lock: a writer, "intr" or Nobody
  wpc, left,  \* of each writer: where it is, bytes still to send
  spc,        \* where each hart is in uartputc_sync()
  fifo,       \* device: who wrote each byte not yet sent
  irq,        \* 1 while the device asks for a transmit interrupt
  ipc         \* "acked": uartintr() has read ISR

UartVars == <<tx_busy, tx_lock, wpc, left, spc, fifo, irq, ipc>>

UartTypeOK ==
  /\ tx_busy \in 0..1 /\ irq \in 0..1 /\ ipc \in {"none", "acked"}
  /\ tx_lock \in Writers \cup {Nobody}
  /\ wpc \in [Writers -> {"idle", "call", "loop", "asleep"}]
  /\ left \in [Writers -> 0..MaxN]
  /\ spc \in [Putters -> {"idle", "spin", "put"}]
  /\ fifo \in Seq(Writers \cup Putters)

UartInit ==
  /\ tx_busy = 0 /\ irq = 0 /\ ipc = "none" /\ tx_lock = Nobody
  /\ wpc = [p \in Writers |-> "idle"] /\ left = [p \in Writers |-> 0]
  /\ spc = [q \in Putters |-> "idle"] /\ fifo = <<>>

-----------------------------------------------------------------------------
Call(p, k) ==
  /\ wpc[p] = "idle"
  /\ wpc' = [wpc EXCEPT ![p] = "call"] /\ left' = [left EXCEPT ![p] = k]
  /\ UNCHANGED <<tx_busy, tx_lock, spc, fifo, irq, ipc>>

(* acquire(&tx_lock), also when sleep() returns.                            *)
Acquire(p) ==
  /\ wpc[p] = "call" /\ tx_lock = Nobody
  /\ tx_lock' = p /\ wpc' = [wpc EXCEPT ![p] = "loop"]
  /\ UNCHANGED <<tx_busy, left, spc, fifo, irq, ipc>>

(* uartwrite(): sleep(&tx_chan, &tx_lock).                                  *)
WriteSleep(p) ==
  /\ wpc[p] = "loop" /\ left[p] > 0 /\ tx_busy = 1
  /\ tx_lock' = Nobody /\ wpc' = [wpc EXCEPT ![p] = "asleep"]
  /\ UNCHANGED <<tx_busy, left, spc, fifo, irq, ipc>>

(* uartwrite(): WriteReg(THR, buf[i]) without a look at the line status.    *)
WriteByte(p) ==
  /\ wpc[p] = "loop" /\ left[p] > 0 /\ tx_busy = 0
  /\ fifo' = Append(fifo, p)
  /\ left' = [left EXCEPT ![p] = @ - 1]
  /\ tx_busy' = 1
  /\ UNCHANGED <<tx_lock, wpc, spc, irq, ipc>>

WriteEnd(p) ==
  /\ wpc[p] = "loop" /\ left[p] = 0
  /\ tx_lock' = Nobody /\ wpc' = [wpc EXCEPT ![p] = "idle"]
  /\ UNCHANGED <<tx_busy, left, spc, fifo, irq, ipc>>

-----------------------------------------------------------------------------
(* uartputc_sync() starts to poll.                                          *)
PutCall(q) ==
  /\ spc[q] = "idle"
  /\ spc' = [spc EXCEPT ![q] = "spin"]
  /\ UNCHANGED <<tx_busy, tx_lock, wpc, left, fifo, irq, ipc>>

(* LSR_TX_IDLE.                                                             *)
SeesIdle == fifo = <<>>

(* uartputc_sync() finds the transmitter idle.                              *)
PutPoll(q) ==
  /\ spc[q] = "spin" /\ SeesIdle
  /\ spc' = [spc EXCEPT ![q] = "put"]
  /\ UNCHANGED <<tx_busy, tx_lock, wpc, left, fifo, irq, ipc>>

(* uartputc_sync(): WriteReg(THR, c).                                       *)
PutByte(q) ==
  /\ spc[q] = "put"
  /\ fifo' = Append(fifo, q)
  /\ spc' = [spc EXCEPT ![q] = "idle"]
  /\ UNCHANGED <<tx_busy, tx_lock, wpc, left, irq, ipc>>

-----------------------------------------------------------------------------
(* The device sends a byte; an empty FIFO raises an interrupt.              *)
Send ==
  /\ fifo # <<>>
  /\ fifo' = Tail(fifo)
  /\ irq' = IF fifo' = <<>> THEN 1 ELSE irq
  /\ UNCHANGED <<tx_busy, tx_lock, wpc, left, spc, ipc>>

(* uartintr(): reading ISR acknowledges the interrupt.                      *)
IntrAck ==
  /\ irq = 1 /\ ipc = "none"
  /\ irq' = 0 /\ ipc' = "acked"
  /\ UNCHANGED <<tx_busy, tx_lock, wpc, left, spc, fifo>>

(* wakeup(&tx_chan).                                                        *)
Woken == [p \in Writers |-> IF wpc[p] = "asleep" THEN "call" ELSE wpc[p]]

(* Wrong: any uart interrupt is taken for the end of the transmission.      *)
IntrTxAlways ==
  /\ ipc = "acked" /\ tx_lock = Nobody
  /\ ipc' = "none"
  /\ tx_busy' = 0 /\ wpc' = Woken
  /\ UNCHANGED <<tx_lock, left, spc, fifo, irq>>

(* uartintr(): its section of tx_lock.                                      *)
IntrTx ==
  /\ ipc = "acked" /\ tx_lock = Nobody
  /\ ipc' = "none"
  /\ IF SeesIdle THEN tx_busy' = 0 /\ wpc' = Woken ELSE UNCHANGED <<tx_busy, wpc>>
  /\ UNCHANGED <<tx_lock, left, spc, fifo, irq>>

Write(p) == WriteSleep(p) \/ WriteByte(p) \/ WriteEnd(p)
Sync(q) == PutCall(q) \/ PutPoll(q) \/ PutByte(q)

UartNext ==
  \/ \E p \in Writers : (\E k \in 1..MaxN : Call(p, k)) \/ Acquire(p) \/ Write(p)
  \/ \E q \in Putters : Sync(q)
  \/ Send \/ IntrAck \/ IntrTx

UartSpec == UartInit /\ [][UartNext]_UartVars

-----------------------------------------------------------------------------
(* No output byte is lost: although uartwrite() does not look at the line   *)
(* status and echoed bytes do not set tx_busy, the FIFO never overflows.    *)
NoOverrun == Len(fifo) <= FifoSize

(* tx_busy is 0 only when the byte of the last uartwrite() was sent, even   *)
(* if interrupts for echoed bytes come in between.                          *)
BusyUntilSent == tx_busy = 0 => \A i \in 1..Len(fifo) : fifo[i] \in Putters

(* No completion is lost: an idle transmitter with tx_busy set has an       *)
(* interrupt on its way, and a writer sleeps only while tx_busy is set.     *)
CompletionComes ==
  /\ tx_busy = 1 /\ fifo = <<>> => irq = 1 \/ ipc = "acked"
  /\ \A p \in Writers : wpc[p] = "asleep" => tx_busy = 1

(* No output byte is lost in the FIFO, tx_busy covers the byte of the last  *)
(* uartwrite(), and no completion is lost, although echoes and interrupts   *)
(* come at any time.                                                        *)
OutputFlows == UartTypeOK /\ NoOverrun /\ BusyUntilSent /\ CompletionComes
=============================================================================
