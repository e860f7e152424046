------------------------------ MODULE Console ------------------------------
(***************************************************************************)
(* The input side of xv6/kernel/console.c: consoleintr() for each typed    *)
(* byte and consoleread() by several processes, over the ring cons.buf     *)
(* with the unsigned indices r, w and e.                                   *)
(***************************************************************************)
EXTENDS Integers, Sequences

CONSTANTS
  ConsReaders,
  Char,             \* ordinary bytes
  INPUT_BUF_SIZE,
  IndexMod,         \* 2^32, a multiple of INPUT_BUF_SIZE
  MaxRead           \* bound: bytes asked for in one read

NoReader == "nobody"

ASSUME ConsoleAssumption ==
  /\ INPUT_BUF_SIZE \in Nat \ {0} /\ IndexMod \in Nat /\ MaxRead \in Nat
  /\ IndexMod > INPUT_BUF_SIZE /\ IndexMod % INPUT_BUF_SIZE = 0
  /\ NoReader \notin ConsReaders

VARIABLES
  cons_buf, cons_r, cons_w, cons_e,
  cons_lock,        \* the reader that holds cons.lock
  cpc,              \* where each reader is
  want, got,        \* n, the bytes it still wants; 1 if n < target
  ckilled

ring == <<cons_buf, cons_r, cons_w, cons_e>>
ConsVars == <<ring, cons_lock, cpc, want, got, ckilled>>

ConsTypeOK ==
  /\ cons_buf \in [0..(INPUT_BUF_SIZE - 1) -> Char \cup {"nl", "eof"}]
  /\ {cons_r, cons_w, cons_e} \subseteq 0..(IndexMod - 1)
  /\ cons_lock \in ConsReaders \cup {NoReader}
  /\ cpc \in [ConsReaders -> {"idle", "call", "loop", "done", "sleep", "asleep"}]
  /\ want \in [ConsReaders -> 0..MaxRead] /\ got \in [ConsReaders -> 0..1]
  /\ ckilled \subseteq ConsReaders

ConsInit ==
  /\ cons_buf = [i \in 0..(INPUT_BUF_SIZE - 1) |-> "nl"]
  /\ cons_r = 0 /\ cons_w = 0 /\ cons_e = 0
  /\ cons_lock = NoReader /\ cpc = [p \in ConsReaders |-> "idle"]
  /\ want = [p \in ConsReaders |-> 0] /\ got = [p \in ConsReaders |-> 0]
  /\ ckilled = {}

Uint(x) == x % IndexMod
At(i) == i % INPUT_BUF_SIZE

-----------------------------------------------------------------------------
(* consoleread() is called for k bytes.                                     *)
consoleread(p, k) ==
  /\ cpc[p] = "idle" /\ p \notin ckilled
  /\ cpc' = [cpc EXCEPT ![p] = "call"]
  /\ want' = [want EXCEPT ![p] = k] /\ got' = [got EXCEPT ![p] = 0]
  /\ UNCHANGED <<ring, cons_lock, ckilled>>

(* acquire(&cons.lock), also when sleep() returns.                          *)
AcquireCons(p) ==
  /\ cpc[p] = "call" /\ cons_lock = NoReader
  /\ cons_lock' = p /\ cpc' = [cpc EXCEPT ![p] = "loop"]
  /\ UNCHANGED <<ring, want, got, ckilled>>

(* Nothing to read: consoleread() fails if killed, or is going to sleep.    *)
ReadNothing(p) ==
  /\ cpc[p] = "loop" /\ cons_r = cons_w
  /\ cpc' = [cpc EXCEPT ![p] = IF p \in ckilled THEN "done" ELSE "sleep"]
  /\ UNCHANGED <<ring, cons_lock, want, got, ckilled>>

(* sleep(&cons.r, &cons.lock).                                              *)
SleepForInput(p) ==
  /\ cpc[p] = "sleep"
  /\ cpc' = [cpc EXCEPT ![p] = "asleep"]
  /\ cons_lock' = NoReader
  /\ UNCHANGED <<ring, want, got, ckilled>>

(* ^D: it is left for the next read unless this one returns 0.              *)
ReadEof(p) ==
  /\ cpc[p] = "loop" /\ cons_r # cons_w /\ cons_buf[At(cons_r)] = "eof"
  /\ cons_r' = IF got[p] = 1 THEN cons_r ELSE Uint(cons_r + 1)
  /\ cpc' = [cpc EXCEPT ![p] = "done"]
  /\ UNCHANGED <<cons_buf, cons_w, cons_e, cons_lock, want, got, ckilled>>

(* Another byte: it is copied out, or copyout() fails (ok is 0).            *)
ReadChar(p, ok) ==
  /\ cpc[p] = "loop" /\ cons_r # cons_w /\ cons_buf[At(cons_r)] # "eof"
  /\ cons_r' = Uint(cons_r + 1)
  /\ want' = [want EXCEPT ![p] = @ - ok]
  /\ got' = [got EXCEPT ![p] = IF ok = 1 THEN 1 ELSE @]
  /\ cpc' = [cpc EXCEPT ![p] = IF ok = 0 \/ cons_buf[At(cons_r)] = "nl" \/ want[p] = 1 THEN "done" ELSE "loop"]
  /\ UNCHANGED <<cons_buf, cons_w, cons_e, cons_lock, ckilled>>

ReadEnd(p) ==
  /\ cpc[p] = "done"
  /\ cons_lock' = NoReader /\ cpc' = [cpc EXCEPT ![p] = "idle"]
  /\ UNCHANGED <<ring, want, got, ckilled>>

-----------------------------------------------------------------------------
(* wakeup(&cons.r).                                                         *)
WokenReaders == [p \in ConsReaders |-> IF cpc[p] = "asleep" THEN "call" ELSE cpc[p]]

(* consoleintr(): there is room.                                            *)
Fits == Uint(cons_e - cons_r) < INPUT_BUF_SIZE

(* Wrong: a full ring is not given to the readers.                          *)
EndsLineByNewline(c) == c \in {"nl", "eof"}

(* consoleintr(): the byte makes what was typed ready.                      *)
EndsLine(c) == c \in {"nl", "eof"} \/ Uint(cons_e + 1 - cons_r) = INPUT_BUF_SIZE

(* consoleintr(): a byte is stored (and echoed).                            *)
TypeByte(c) ==
  /\ cons_lock = NoReader /\ Fits
  /\ cons_buf' = [cons_buf EXCEPT ![At(cons_e)] = c]
  /\ cons_e' = Uint(cons_e + 1)
  /\ IF EndsLine(c) THEN cons_w' = cons_e' /\ cpc' = WokenReaders ELSE UNCHANGED <<cons_w, cpc>>
  /\ UNCHANGED <<cons_r, cons_lock, want, got, ckilled>>

(* Wrong: backspace goes back into what readers may read.                   *)
MayEraseReady == cons_e # cons_r

(* consoleintr(): backspace and ^U stop at w.                               *)
MayErase == cons_e # cons_w

(* consoleintr(): backspace.                                                *)
Backspace ==
  /\ cons_lock = NoReader /\ MayErase
  /\ cons_e' = Uint(cons_e - 1)
  /\ UNCHANGED <<cons_buf, cons_r, cons_w, cons_lock, cpc, want, got, ckilled>>

(* consoleintr(): ^U.  There is no newline between w and e.                 *)
KillLine ==
  /\ cons_lock = NoReader
  /\ cons_e' = cons_w
  /\ UNCHANGED <<cons_buf, cons_r, cons_w, cons_lock, cpc, want, got, ckilled>>

(* kkill() sets killed and wakes the process.                               *)
KillReader(p) ==
  /\ cpc[p] \in {"call", "loop", "sleep", "asleep"} /\ p \notin ckilled
  /\ ckilled' = ckilled \cup {p}
  /\ cpc' = [cpc EXCEPT ![p] = IF @ = "asleep" THEN "call" ELSE @]
  /\ UNCHANGED <<ring, cons_lock, want, got>>

Reading(p) ==
  \/ ReadNothing(p) \/ SleepForInput(p) \/ ReadEof(p) \/ ReadEnd(p)
  \/ \E ok \in 0..1 : ReadChar(p, ok)

ConsNext ==
  \/ \E p \in ConsReaders : (\E k \in 1..MaxRead : consoleread(p, k)) \/ AcquireCons(p) \/ Reading(p) \/ KillReader(p)
  \/ \E c \in Char \cup {"nl", "eof"} : TypeByte(c)
  \/ Backspace \/ KillLine

ConsSpec == ConsInit /\ [][ConsNext]_ConsVars

-----------------------------------------------------------------------------
(* The bytes of the ring from index i, k of them.                           *)
Bytes(i, k) == [j \in 1..k |-> cons_buf[At(i + j - 1)]]

(* What readers may read, and what is still being typed.                    *)
Ready == Bytes(cons_r, Uint(cons_w - cons_r))
Typed == Bytes(cons_w, Uint(cons_e - cons_w))

tty == INSTANCE Tty WITH Size <- INPUT_BUF_SIZE, ready <- Ready, line <- Typed

(* The ring with its wrapping indices implements a line discipline: what    *)
(* readers get is what was typed, edited, in order, a line at a time.       *)
LineDiscipline == tty!TtySpec

(* Typing never gets stuck: a full ring has something to read, so a reader  *)
(* makes room again.                                                        *)
FullIsReadable == ~Fits => cons_r # cons_w

(* No wakeup is lost: while cons.lock is free, a reader sleeps only if      *)
(* there is nothing to read.                                                *)
ReadersSleepOnEmpty ==
  cons_lock = NoReader => \A p \in ConsReaders : cpc[p] = "asleep" => cons_r = cons_w

(* Nobody waits for nothing at the console: a reader sleeps only when there *)
(* is nothing to read, and a full ring has something to read.               *)
NobodySleepsInVain == ConsTypeOK /\ ReadersSleepOnEmpty /\ FullIsReadable
=============================================================================
