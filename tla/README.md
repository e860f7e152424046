# TLA+ models of the OSN mini project: xv6 with an MLFQ scheduler, and a shell

The repository holds two programs. `xv6/` is the xv6-riscv kernel with a choice
of schedulers (MLFQ, FIFO, round robin), time accounting and lazily allocated
memory, and its user programs. `c-shell/` is a Linux shell with pipelines,
background jobs, job control and a few built-in commands. This directory models
them in TLA+, checks the models with TLC, and proves with TLAPS theorems about
the schedulers, the process tree, spinlocks, traps, the file table, pipes, console and
UART, the log, the buffer cache, the disk driver and the custom shell's job control.

`PROJECT.json` maps every definition that stands for code to its lines, lists
the runs, the hazards behind the properties, and one mutated definition per
property that makes the property fail.

## Inventory

| Part | Source | State | Operations | What makes it hard |
| --- | --- | --- | --- | --- |
| MLFQ scheduler | `xv6/kernel/proc.c`, `trap.c` | run queues, level and ticks of each process, per-hart position | scheduler, yield, sleep, wakeup, boost, clock interrupt | p->lock and mlfq_lock sections of several harts interleave; queue arrays are bounded |
| FIFO and RR schedulers, metrics | `proc.c`, `trap.c` | creation time, charged ticks, locks held by a scan | scheduler, update_time | a minimum found under locks taken one by one; ticks counted before they are charged |
| Process life cycle | `proc.c` | process table, parent links, killed flags | fork, exit, wait, kill, sleep, wakeup | lost wakeups, orphans, lock order |
| Traps and context switches | `trap.c`, `trampoline.S`, `kernelvec.S`, `swtch.S` | trap registers of a hart, trapframe, kerneltrap's locals | traps, yield, sret | a thread comes back on another hart whose registers others have used |
| Write-ahead log | `xv6/kernel/log.c` | header and log blocks on disk, pinned buffers | begin_op, log_write, end_op, commit, sync, recovery | a crash between any two disk writes |
| Buffer cache | `bio.c`, `sleeplock.c` | buffers, reference counts, sleep locks | bget, bread, brelse, bpin | two processes want one block; recycling |
| Disk driver | `virtio_disk.c` | descriptors, rings | rw, interrupt | descriptor exhaustion, completions out of order |
| Inodes, directories | `fs.c`, `sysfile.c` | inode table, link and reference counts | iget, iput, create, link, unlink, open, close | counts across crashes and concurrent calls |
| File contents | `fs.c`, `file.c` | block map, bitmap, size, offset | balloc, bmap, itrunc, readi, writei, fileread, filewrite | short writes, a full disk, the log's reservation |
| File table | `file.c`, `sysfile.c`, `pipe.c`, `proc.c` | reference counts, descriptors | open, dup, close, pipe, fork, exit | calls that fail half way, an entry reused while its end is being closed |
| Pipes | `xv6/kernel/pipe.c` | ring buffer, open flags | read, write, close | sleep and wakeup on both sides, close while asleep |
| Console and UART | `console.c`, `uart.c` | input ring, transmit flag | intr, read, write | interrupt against process |
| Locks | `spinlock.c` | owner, nesting depth, interrupt enable | acquire, release, push_off, pop_off | a stale owner, an interrupt inside the lock's own code |
| Memory | `kalloc.c`, `vm.c`, `exec.c` | free list, page tables | kalloc, kfree, fork copy, lazy fault, exec | partial failure must free everything |
| xv6 shell | `xv6/user/sh.c` | a tree of processes with descriptors | parse, run | pipe ends left open, order of lists, failures of fork and open |
| User library, grep | `umalloc.c`, `printf.c`, `ulib.c`, `string.c`, `printk.c`, `grep.c` | free list; a line buffer | malloc, free, printf, memmove, match | joining with gaps; overlaps; buffer ends |
| Shell job control | `c-shell/src/main.c`, `pipe.c`, `exec_calls.c` | job table, SIGCHLD handler | launch, stop, resume, ping, activities | the handler runs between any two statements |
| Shell language | `c-shell/src/lexer.c`, `parser.c` | none | tokenise, accept | agreement of lexer, parser and executor; pipelines are read twice |
| Shell redirection | `redirection.c` | temporary files, saved descriptors | set up input and output, distribute | a file read and written by one command, errors half way |
| Shell pipelines | `pipe.c` | descriptors of the shell and its stages | pipe, fork, dup2, close, wait | an end left open makes a reader wait for ever |
| Command lookup | `exec_calls.c`, `main.c` | none | look up, run | the same search is written three times |
| Shell built-ins | `hop.c`, `peek.c`, `reveal.c`, `spy.c`, `snoop.c`, `locate.c` | directory history | hop, peek | boundaries |

How the parts meet: a process enters the kernel by a system call or an
interrupt; calls that wait go through `sleep()` and `wakeup()`, which hand the
process to the scheduler. File system calls run between `begin_op()` and
`end_op()` of the log; the log reads and writes buffers of the buffer cache; the
cache reads and writes through the disk driver; the driver sleeps until its
interrupt. All of it relies on the spinlocks. The xv6 shell uses the kernel by its
calls. The other shell is a separate program on another operating system.

## Modules

| Module | Models | A step is |
| --- | --- | --- |
| `Mlfq` | the MLFQ build of `proc.c` and `trap.c` | an mlfq_lock section, or a p->lock section that releases what it took |
| `Sched` | the FIFO and round-robin builds of `scheduler()`, and `update_time()` | one slot of the table under its lock |
| `ProcLife` | fork, exit, wait, kill in `proc.c` | what is done between two acquisitions of wait_lock or a p->lock |
| `Trap` | `trap.c`, `trampoline.S`, `kernelvec.S`, `swtch.S` | the code between two points where an interrupt or a switch can change what it uses |
| `Log` | `log.c` | a log.lock section or a disk write |
| `AtomicDisk` | what the log promises | a call's begin, write or end, a commit of everything, a crash |
| `Inodes` | `fs.c`, `sysfile.c`: names, links, references | what a call does between two `ilock()`s; the parts of `iput()` |
| `Blocks` | `fs.c`, `file.c`: blocks and contents | one block of a read, a write or a truncation |
| `Fds` | `file.c`, `sysfile.c`, `pipe.c`, `proc.c`: the file table | an ftable.lock section, or what a call does to its own process between two |
| `Pipe` | `pipe.c` | one byte moved, or a step to or from sleep, under pi->lock |
| `Channel` | what a pipe promises | a byte in or out, an end closed |
| `Bcache` | `bio.c`, `sleeplock.c` | a bcache.lock or sleep lock section, or a disk transfer |
| `Console` | input side of `console.c` | a typed byte, a byte read, a sleep |
| `Tty` | what console input promises | a byte typed, erased, made ready or read |
| `Memory` | `kalloc.c`, `vm.c`, `exec.c`, fork, sbrk | one turn of a loop that takes pages |
| `Virtio` | `virtio_disk.c` and an external device | a vdisk_lock section between waits; a step of the device |
| `Uart` | output side of `uart.c` and an external device | a byte written, a sleep, a poll, an interrupt |
| `Spinlock` | `spinlock.c` | one memory access of acquire or release |
| `ShParse` | the parser of `sh.c`, and the grammar as a reference | pure |
| `Sh` | `main()` and `runcmd()` of `sh.c` | a system call of one process of the tree |
| `Umalloc` | `umalloc.c` | a call of malloc or free, or of sbrk by the program |
| `Text` | `string.c`, `printk.c`, `printf.c`, `ulib.c` | pure |
| `Grep` | `grep.c` | a read, then a line |
| `Jobs` | job control in `main.c`, `pipe.c`, `exec_calls.c`; external operating system | code between two points where a signal handler matters |
| `Line` | `lexer.c`, `parser.c`, and the cutting in `main.c`, `pipe.c` | lexing, parsing, one segment run |
| `Redirect` | `redirection.c` and its three callers | one redirection of a command |
| `Wiring` | the pipes of `execute_pipeline()` and `execute_pipeline_bg()` | a system call of the shell or of a stage |
| `Lookup` | the search for a command | the shell's search, then the child's |
| `Hop` | `hop.c` | one hop; a new start of the shell |
| `Peek` | `peek -n -r` in `peek.c` | a chunk read, a newline met |
| `MlfqProofs`, `LogProofs`, `BcacheProofs`, `FdsProofs`, `JobsProofs` | theorems about the module of that name, see Proofs | |
| `KernelProofs` | theorems about `Trap`, `Sched` and `Uart` | |
| `ProgressProofs` | theorems about `ProcLife`, `Virtio` and `Spinlock` | |
| `RingProofs` | theorems about `Pipe` and `Console`, with the arithmetic of wrapping indices they share | |
| `MCMlfq`, `MCLog` | instances for TLC | |
| `MCFiles`, `MCBuffers`, `MCKernel`, `MCPrograms`, `MCProgress` | instances that hold several components side by side; the variable `part` says which one a behaviour exercises, and the others keep one state | |

Components whose names are disjoint (`ProcInit`, `DiskInit`, `ConsInit`, ...) are joined by
EXTENDS, so that an MC module and a proof module speak of the same definitions; the rest are
joined by INSTANCE.

### Correspondence with the code

**Mlfq.** `mlfq[q]` is the used prefix of `mlfq[q][0..mlfq_size[q])`; `queue`,
`ticks`, `state` are the fields of `struct proc`. Each hart has a program counter
`pc[c]`: *idle* and *scan* are the loop of `scheduler()`, *hand* is the moment
after `dequeue()` and before `acquire(&p->lock)`, *run* the process running,
*yield* the decision of `yield()`, *enq* its call of `enqueue()`, *out* the
switch back that ends with the release of `p->lock` in `scheduler()`.
`Locked(p)` tells which processes are locked across steps. The clock interrupt
is `Timer`, and on the boot hart `ClockTail`: the `wakeup(&ticks)` loop process
by process, then `BoostReset` process by process and `BoostRequeue` in one
mlfq_lock section, which is how `boost_priority()` is written. `fault` becomes
set where `enqueue()` panics or the boost would write past its arrays.

**ProcLife.** RUNNABLE stands for RUNNING too: any process that is not asleep may
go on. `wait_lock` is a variable; `p->lock` is held within a step only. `kfork()`
is three steps, as it releases `np->lock` before it sets the parent and again
before it makes the child RUNNABLE.

**Log.** `cache` is what `bread()` returns, `dhead`, `dlog` and `home` are on the
disk, `dhead` being the header that decides recovery. A block write is atomic. The
`unsaved` and `owed` sets are history: the calls that have ended and are not
durable, now and when a `sys_sync()` began.

**Inodes.** `dino` and `content` are the inode blocks and directory blocks as the
cache holds them, `core` the copies in the inode table, `saved` what a crash
leaves. The log is used by its promise: calls of a group become durable together
when the last one ends. A call is a record with its position, the inodes it has
found, and the unlocks and puts it has still to do. `iput()` is cut where it
releases `itable.lock`. After a crash `ireclaim()` runs before anything else.

**Pipe, Console.** `nread`, `nwrite` wrap at `UintMod`, and `cons_r`, `cons_w`, `cons_e`
(`cons.r`, `cons.w`, `cons.e`) at `IndexMod`: multiples of the ring size, as 2^32 is of the real
ones.

**Memory.** Pages are counted, not named; a user page is its content, so that
copies and freshly cleared pages can be told apart. A page table is the number
of page-table pages on its way to the trampoline and to user memory, and its
user pages.

**Spinlock.** `acquire()` is push_off, the swap, the store of `lk->cpu`;
`release()` is the test, the clearing of `lk->cpu`, the store of `locked`,
pop_off. An interrupt may come at any step while interrupts are on and takes a
lock itself.

**Sched.** A slot's lock is a variable only where it is kept from one step to the
next, which the FIFO scan does with the oldest process so far. `waited[h]` is
history: who has been RUNNABLE since hart h began its scan. `late` are the
processes created between the count of a tick and `update_time()`'s visit.

**Trap.** A hart has `stvec`, `sepc`, `spp`, `spie`, `sie` and `tp`; a process
has the words of its trapframe that `usertrap()` and `prepare_return()` use and
what `swtch()` and `sched()` keep; every kernel stack has one frame for the locals
of `kerneltrap()`. `resume[p]` is history: the user instruction that p must
execute next. User programs are any function `After` on instructions.

**Fds.** The count of an entry, its kind and each descriptor array. A call that
holds files in locals (`sys_pipe()`, `sys_open()`, `kfork()`) keeps them in its
record. `closing` is the end of a pipe that a `fileclose()` has taken out of the
table and not yet closed.

**Blocks.** A block is a sequence of cells, so that stale contents show. `bytes[i]`
is history: what the writes so far should have left in file i. `call[p].log` are
the blocks a transaction has logged, counting a bitmap block for each bit.

**Sh, Wiring.** A descriptor is an end of a pipe, a file or the console; an end is
open as long as some process has it. Programs read to end of file, may end early,
and in `Wiring` are ended by SIGPIPE when nobody reads from them.

**Jobs.** `os[p]` and `ev[p]` are what the operating system knows of a child and
has not told yet; `jobs` is the table. `sigchld_handler` runs between any two
steps in which SIGCHLD is not blocked. Commands come from a menu, one menu per
behaviour.

**Line.** Characters are classes: an ordinary one, a blank, each operator, the
two quotes, the backslash, and `\r`, which is skipped before a word and part of one inside
it. A pipeline's text is rebuilt and read again, as the children do; it starts nothing if it
has more than `MAX_PIPE_COMMANDS` commands or does not fit `LineSize` (256 and 8192 in the
code). Whether `execute_single()` accepts a command is left open: `Refused` is the case that
it returns 1, after which the rest of the line is dropped and the array of arguments is freed
twice, so that the shell may end (`dead`).

**Redirect.** The contents of a file are a sequence of texts, so that truncating,
appending and writing twice can be told apart. `SetupFails` and `DistributeFails` are the calls
of the system that fail on the way.

**Umalloc.** Memory is counted in headers. `live` is history: the blocks the
program has.

**Text, ShParse, Grep, Peek, Line.** The code's functions stand beside a reference
definition that is written another way: the grammar from the outside in, a
pattern as the set of texts it matches, a number as its digits.

## Runs

Every run checks deadlock as well: a model in which everybody waits for
everybody is an error.

| Run | Instance | Shows |
| --- | --- | --- |
| `mlfq_smp` | 2 harts, 2 processes, slices 1,2,1,1, boost every 3 ticks | `QueuesExact`: a process is RUNNABLE exactly when it is in one queue once, or in transit on one hart. `SchedulerSafe`: a process is on one hart, no panic, no array overrun. `LevelSteps`: levels change only by an expired slice or to 0 |
| `mlfq_one_hart` | 1 hart, 3 processes, the same slices, boost every 5 ticks | `BoostResetsAll`: a boost leaves everybody at level 0 without ticks. `HighestFirst`: no dequeue passes over a higher level. `NoStarvation` |
| `mlfq_boost_race` | 2 harts | violates `BoostResetsAll`: see Findings |
| `log_crash` | 3 processes, 2 blocks, 2 contents, log of 6, crash anywhere | `Atomic`: implements `AtomicDisk`. `SyncIsDurable`. `LogSound`: no panic, no sleep without reason. `SleepersWake` |
| `files` | pipe of 2 bytes, 2 writers, 2 readers, counters modulo 4, a kill; inodes: 2 processes, 3 inodes, 3 calls, 1 crash, 1 file table entry, 3 starting disks | pipe: `Fifo` (implements `Channel`); `PipeSound`: end of file is final, no lost wakeup, no use after free. Inodes: `LinksExact` on the disk a crash would leave; `NothingLost`: reference counts, locks, nothing freed in use, no panic |
| `files_reuse` | inodes, files only | violates `OrphansFreed`: see Findings |
| `files_vanishing` | inodes, a directory being removed | violates `LinksExact`: see Findings |
| `buffers` | 2 processes, 2 buffers, 3 blocks; input ring of 3, indices modulo 6, 2 readers; 2 address spaces of 4 pages, 12 or 15 pages of memory | `BuffersSound`: a locked buffer holds the latest contents of its block, and is nobody else's. `LineDiscipline`: console implements `Tty`. `NobodySleepsInVain`. `MemorySound`: every page is free or in use exactly once, also after failures, and a process reads what it wrote |
| `kernel` | traps: 2 harts, 1 process, a program of 2 instructions; schedulers: 2 harts, 3 slots, FIFO and RR, 1 tick; file table: 2 processes, 3 entries, 2 descriptors; blocks: 2 files of a direct and 2 indirect blocks of 2 bytes, 5 blocks of disk, 3 calls of 2 processes; UART: FIFO of 3, 2 writers, 2 polling harts | `Resumes`: a trap goes back to where it came from, with the registers meant for it. `OldestFirst`: a FIFO scan passes over nobody older. `WaitingBounded`: the waiting time printed. `FilesExact`: counts are those of descriptors and calls. `BlocksAccounted`: no block leaks or is in two files; a write fits its transaction. `ReadsBack`: a file holds what was written, also after a short write. `OutputFlows`: no byte is lost and no writer sleeps without an interrupt to come |
| `programs` | jobs: 3 children, pipelines of 2, 3 jobs; all lines of up to 4 characters over 11 classes and of up to 6 over 5, at most 2 commands in a pipeline, 11 characters of text; all files of up to 5 characters, chunks of 1 to 3; commands of 3 words over 2 files; a search path of 2; 3 directories, a history of 2, 4 hops; all lines of sh of up to 5 characters; a heap of 12 units; all patterns of up to 3 characters; formats over 9 characters, words of 8 bits | `JobsSound`: the table is true, nobody is stuck or forgotten. `RunsAsWritten`: exactly the lines of the grammar run, and their commands get the words that were written (in a pipeline: words that a second reading leaves alone), until one is refused; the child runs the file the shell found. `RedirectsAsWritten`. `BuiltinsExact`: peek's backward reader and hop's history. `SyntaxExact`: sh's parser agrees with the grammar. `HeapSound`. `TextExact`: the string and print functions, and grep |
| `progress` | 3 harts, 2 locks; 3 entries, pids to 4; 3 requests over 7 descriptors; pipelines of 3 stages, pipes of one unit, 3 units produced; 5 lines for sh, 2 of them in a behaviour, one failure | `LocksSound`. `FamilySound`: every process has a live parent, no lost wakeup in wait. `OrphansReaped`. `RequestsSound`, `RequestsReturn`: descriptors and completions. `PipelineEnds`. `LineAsWritten`: sh wires its programs and orders them as the line says. `PromptReturns` |
| `jobs_resume` | one job, resumed in the foreground | violates `NeverStuck`: see Findings |

### Why the bounds are enough

- *MLFQ scheduler.* Two harts give every race of two lock sections, and the proofs
  remove the bound for the safety properties. Three processes on one hart
  are the least with which level 3 can starve under two others. The slices keep
  the three cases of `yield()`: expiry at once, after a charge, no demotion at
  level 3. With a boost every 5 ticks a single hart takes a
  process to level 3 and lets its slice expire there before the boost; with two
  harts, whose timers are independent, 3 ticks are enough.
- *FIFO and RR.* Three slots are one the scan has passed, its minimum and one it
  has not reached; one tick gives the race of a creation with its count.
- *Log.* Three processes are one writing, one waiting and one syncing; two
  blocks are enough for half a transaction; a log of twice MAXOPBLOCKS makes
  the third call wait.
- *Processes, locks, traps, descriptors, pipes, console, UART, disk, log, buffers.* Small instances;
  the proofs remove the bounds for the safety properties. Three table entries are a parent, a child and an
  orphan of it with init.
- *Inodes.* Three calls are enough for two processes to meet in a create and
  an unlink and for a third call to find what they left. Three inodes are the
  root and one more for each process. The starting disks put an existing file
  or directory within reach of three calls.
- *Blocks.* A file needs up to four blocks, its indirect block included, and the
  disk has five: two writers run out of blocks at every point of a write, first at
  the indirect block, then at a data block. The two files are interchangeable, and so
  are the two processes that use them: nothing in `fs.c` depends on a number of theirs,
  so the run uses their symmetry. Lengths of 1 and 4 with blocks of
  2 bytes give unaligned writes and writes over several blocks.
- *File table.* Three entries are one less than two processes can ask for.
- *Rings.* Each ring wraps, and its counters wrap, within the length of a run.
- *Memory.* 12 pages are too few for the second process at nearly every
  step, 15 let a fork succeed and an exec fail at each of its allocations.
- *Disk.* Seven descriptors serve two requests and leave one over, so that a
  third process gets one and has to give it back.
- *Shells.* Three children are a pipeline and another job; three stops let a job
  be stopped, resumed and stopped again. Three stages are the least with a
  middle one, and more units than the pipes hold block every writer. The five lines
  of sh have every kind of node and every nesting that shares descriptors.
- *Lines.* Six characters make a pipeline of three commands, one more than
  `MAX_PIPE_COMMANDS`, and one of two commands whose text is just as long as `LineSize`
  forbids.
- *Text.* With 8 bits a long has an int of 4; the arguments are large, small and the most
  negative of each. The other functions of the library only compare or copy.

### Fairness

- *Mlfq.* A hart goes on executing scheduler, yield and interrupt code
  (weak), a fork that has begun ends (weak). A timer interrupt is taken if it is
  possible again and again (strong): interrupts are on in user mode and in every
  round of `scheduler()`. Nothing is assumed of what processes do.
- *Log.* A begun call ends, whoever commits goes on, a woken process looks
  again (weak). Crashes may come, and nothing forces them.
- *ProcLife.* A process in the kernel goes on (weak, `InKernel`); a spinning `acquire()`
  of a lock that is free again and again succeeds (strong, `TakeWaitLock`: amoswap in a
  loop on hardware that makes progress); init calls `wait()` again (`user/init.c`).
- *Virtio.* As above for vdisk_lock; the device takes and completes requests, and
  its interrupt is taken (strong, as interrupts are on again and again).
- *Wiring.* The shell and each stage that can take a step takes one (weak: they are
  processes of a fair scheduler). A stage produces a bounded amount of data.
- *Sh.* Some process of the tree that can go on does (weak, on all of them
  together). This is less than a fair scheduler gives.

`MCProgress` holds these parts side by side, and one of them runs. Its `Fairness`
asks a step of a part only in behaviours of that part (the operators `Proc`, `Disk`,
`Pipeline`, `Shell`); with the parts' own formulas a behaviour would be fair only if the
parts that do not run also went on, and every liveness property would hold for want of
behaviours. The mutants of the four liveness properties fail under the formula
that is used.

## Proofs

| Theorem | Module | For all | Says |
| --- | --- | --- | --- |
| `QueuesStayExact`, `StaysSafe`, `NeverFaults`, `OneHart`, `TypeCorrect`, `LevelDiscipline` | `MlfqProofs` | NPROC ≥ 1, sets of harts with the boot hart, slices ≥ 1, boost periods ≥ 1 | below |
| `OneHartBoosts`, `OneHartHighestFirst` | `MlfqProofs` | the same, with the boot hart as the only one (`CPUs = {Boot}`) | `Spec => BoostResetsAll`, `Spec => HighestFirst` |
| `TrapsResume` | `KernelProofs` | harts, processes, user programs (`ThreadsApart`: threads and labels have different names) | `Spec => []Resumes` |
| `SchedulerFair`, `WaitingStaysBounded` | `KernelProofs` | NPROC ≥ 1, sets of harts with the boot hart, ticks | `SchedSpec => []OldestFirst`, `SchedSpec => []WaitingBounded` |
| `OutputSound` | `KernelProofs` | writers, and echoing harts fewer than the places of the FIFO (NCPU is 8, the 16550 has 16) | `UartSpec => []OutputFlows` |
| `FilesCounted` | `FdsProofs` | finite sets of processes, NFILE, NOFILE ≥ 1 | `FdSpec => []FilesExact` |
| `FamilyStaysSound` | `ProgressProofs` | NPROC ≥ 1, MaxPid ≥ 1 | `ProcSpec => []FamilySound` |
| `DiskRequestsSound` | `ProgressProofs` | finite sets of processes, NUM ≥ 1 | `DiskSpec => []RequestsSound` |
| `LocksStaySound` | `ProgressProofs` | numbers of harts and locks | `Spec => []LocksSound` |
| `PipeStaysSound` | `RingProofs` | readers, writers, pipe sizes and counter widths that the size divides | `Spec => []PipeSound` |
| `PipeIsFifo` | `RingProofs` | the same | `Spec => Fifo`: `Pipe` implements `Channel` |
| `ConsoleStaysSound` | `RingProofs` | readers, ring sizes ≥ 1 and index widths that the size divides | `ConsSpec => []NobodySleepsInVain` |
| `ConsoleIsTty` | `RingProofs` | the same | `ConsSpec => LineDiscipline`: `Console` implements `Tty` |
| `LogStaysSound`, `SyncStaysDurable` | `LogProofs` | finite sets of processes, blocks, contents, any number of crashes, log sizes, fewer blocks in a call than MAXOPBLOCKS | `Spec => []LogSound`, `Spec => []SyncIsDurable` |
| `LogIsAtomic` | `LogProofs` | the same | `Spec => Atomic`: `Log` implements `AtomicDisk` |
| `BuffersStaySound` | `BcacheProofs` | finite sets of processes, blocks, contents, NBUF ≥ 1 | `Spec => []BuffersSound` |
| `JobTableStaysTrue` | `JobsProofs` | children, stages, stops, table sizes ≥ 1, menus | `Spec => [](TableTrue /\ NotStuck)` |
| `JobsStaySound` | `JobsProofs` | the same, with no more children than MAX_JOBS | `Spec => []JobsSound` |

Every invariant below was checked with TLC before it was proved.

**Mlfq.** `QueuesStayExact` (with `NeverQueuedTwice` and `NoLostProcess` as its
halves): no process is queued twice, and RUNNABLE means queued or in transit. So
the branch of `scheduler()` that drops a dequeued process that is not RUNNABLE is
never taken and loses nobody. `NeverFaults`: neither panic of `enqueue()` is reachable
and `boost_priority()` never writes past `temp[NPROC]` or `mlfq[0][NPROC]`. `StaysSafe`
puts it together with `OneHart` and the types. `LevelDiscipline` is an action
property.

The argument is one inductive invariant, `IInv`. `QueuesExact` is not inductive
alone: that `yield()` may enqueue its process needs to know that a process on a
hart in *enq* is RUNNABLE and on no other hart, and that `wakeup()` may enqueue
a SLEEPING process needs that it is in transit nowhere. `IInv` therefore adds
where each hart is and what it holds (`HartInv`), which state its process is in
(`StateInv`), that harts share no process (`HartInj`), that a RUNNING process is on
a hart (`RunningInv`), and that two forks never fill one entry (`ChildInv`).
`NoFault` follows by the pigeonhole principle: queues without repetition over
NPROC processes hold at most NPROC entries, and fewer if somebody is in none.
The first part of `MlfqProofs` proves that every step keeps `IInv`, with the pigeonhole
principle as the hypothesis `TableRoom`; the second discharges that from the library's
facts on finite sets (`NoRepetition`, `RoomForOneMore`, `RoomInTable`).

`BoostResetsAll` and `HighestFirst` are false on two harts. On one hart `Alone` says why
they hold: the levels `boost_priority()` has passed are reset and nobody charges a tick
before it ends; the levels above the one `scheduler()` looks at are empty, because the clock
interrupt, which may fill one, is taken only before the search begins at level 0.

**ProcLife.** `FamilyTree` is not inductive: that a parent is alive when it
exits needs that it has no children from `reparent()` on and gets none, since it has
`wait_lock` (`PlaceSound`, `ParentSound`); that no parent sleeps through a zombie
needs that the parent is awake between `wakeup()` and ZOMBIE, and that a parent between
its scan and `sleep()` has children and no zombie (`ParentSound`, `SleepSound`). A
half-made child belongs to one `kfork()` (`ForkSound`).

**Spinlock.** `LockInv` ties the word `locked` to the hart that has swapped it
(`LockedExact`), `lk->cpu` to the hart that has got past it (`CpuExact`), `noff` to the
number of locks held and calls begun (`NoffExact`), and `intena` to whether the hart
is in a handler (`IntenaExact`).

**Trap.** `Resumes` speaks of the moment after `sret`. The invariant follows
what it needs back through the kernel: `sepc` until `usertrap()` has copied it, the
trapframe from there to `prepare_return()`, the locals of `kerneltrap()` while their
thread may be on no hart (`UserSound`, `KernelSound`, `AwaySound`), and where
interrupts are off so that no second trap can overwrite the registers (`SieSound`).
`LocalStep` reduces a step to the hart that takes it and the process on it.

**Sched.** `OldestFirst` speaks of the end of a scan. `OldestSoFar` says the same of the slots
passed; it survives the other harts because the hart keeps the lock of the oldest process so far,
which therefore stays RUNNABLE (`HoldsOldest`), and because a creation time changes only in an
entry that is UNUSED. That a process in `waited` is RUNNABLE needs that no process runs on two harts
(`RunsOne`). `TimesSound` adds to `WaitingBounded` the tick that `update_time()` has still to charge
(`ToCome`).

**Uart.** That the FIFO never overflows is a pigeonhole argument: no two bytes in it are of
the same hart or of two processes, and a hart about to write has none in it (`BytesApart`), so there
is at most one more than there are echoing harts.

**Fds.** The count of a file is the cardinality of the set of places that refer to it, the
descriptors and the files a call has in hand (`References`); `dup` takes the descriptor before the
count. The invariant says what each call holds at each point (`HandSound`), that a file just
allocated is known to its call only (`Private`), that a child's descriptors fill up in order while
only its parent knows it (`LocalsSound`), and that a process that does not exist holds nothing
(`LifeSound`). So each step adds or removes one place and one count. For the ends of pipes, `EndsSound` adds that an end being closed belongs to no
entry and to one process: the entry is free for reuse before the end is closed.

**Virtio.** The requests in flight have chains of three descriptors that share nothing with
each other or with the free ones (`ChainsSound`), and each ring entry and each request in the device
belongs to one of them that is still waiting (`RingsSound`): which is why the interrupt handler finds
the right buffer in `info` in whatever order the device finishes. `Balanced` counts: what is neither
free nor in a chain is nothing.

**Pipe.** The invariant says who has `pi->lock` and what its holder has found
out under it and may rely on when it sleeps, copies or leaves (`LockExact`, `TestsHold`),
which process closes which end (`EndsExact`, `FreedExact`), and that a sleeper's reason is
gone only while the one who took it away still has the lock (`SleepersSound`). For
`PipeIsFifo` the bytes between `nread` and `nwrite` are a sequence (`Contents`); a
write appends to it because the slot `nwrite % PIPESIZE` is none of theirs, a read takes
the first, and every other step leaves it alone. The lemmas on remainders
(`ModShift`, `ModApart`, `Unsigned`) carry this across the point where a counter wraps;
they need that the size divides the range of the counters.

**Console.** `ConsInv` says that a line being typed never fills the ring (`RingSound`; the byte
that would fill it ends the line), which is why a full ring has something to read; that the ring is
empty when a reader sleeps or is about to (`SleepOnEmpty`), since only who holds `cons.lock` may
make it otherwise; and that a reader in its loop wants at least one byte more (`WantsMore`). For
`ConsoleIsTty` the bytes from `r` to `w` and from `w` to `e` are two adjoining sequences (`BytesExact`):
typing appends, backspace and ^U drop at the end, a reader takes the first.

**Log.** That `log_write()` never finds the log full is a matter of counting:
`begin_op()` lets a call in when MAXOPBLOCKS blocks are left for each call under way. The set
`Reserved` has an element for every block a call may still take, and `RoomSound` says that what
is logged and what is reserved fit together. A second write of a block is absorbed and takes
none, a call that ends gives its rest back. `DiskSound` says, for each step of the commit and
of recovery, which of the header, the log, the home blocks and the cache agree; it
holds across a crash because the header alone decides what recovery does. `SyncSound` says
that what has ended and is not durable is in the log of a call under way or in the one being
committed, which is what `sys_sync()` waits for. The refinement maps the disk of `AtomicDisk` to
`Recovered`, what a reboot would find: only the write of the header changes it, and it changes
it to what the cache then holds; the crash is AtomicDisk's own.

**Bcache.** `SeesLatest` needs to know where the latest contents of a block are
(`ContentsSound`): on the disk, unless its buffer is pinned or its holder has not yet
written it, and in its buffer when that is valid. So a recycled buffer loses nothing: its count
is 0, and a pinned or held buffer's is not (`Counted`). That `bget()` finds an unused buffer when
there is one needs that the list never loses a buffer as `brelse()` moves it (`ListSound`).
`OneCopy` rests on `bget()` looking and recycling in one section (`BlocksSound`).

**Jobs.** `ChangeIsLast` ties what the operating system has not told yet to the state of
the child, so that the handler writes the truth into the table. While the shell waits for a
command SIGCHLD is blocked: every process of it that the loop has not reached runs or has a
change to report (`ForegroundSound`), and no wait is in vain. `Accounted` says that a child
that is not collected is in the foreground or in the table; it needs room in the table, which
`JobsBounded` gives, as each job has a child of its own. At exit a child that
is alive is then in a job that is not marked as gone. Without room the code drops the job,
which is why `JobsStaySound` has its hypothesis and `JobTableStaysTrue` has not.

The assumptions on the constants are named in the components and evaluated by TLC in the runs:
sizes are natural numbers, positive where an empty table or ring would make no sense; sets of
processes are finite; the value that stands for nobody is no process and no block.

Only model-checked: the safety properties of the modules without a proof module (`Inodes`,
`Blocks`, `Memory`, `Wiring`, `Redirect`, `Lookup`, `Hop`), those of `Sh` and `Umalloc`, which
reach RECURSIVE operators, and what the pure functions compute (`ShParse`, `Text`, `Grep`,
`Peek`, `Line`). `Memory` and `Blocks` count pages and blocks with a sum over
address spaces and over files, which would have to be reasoned about by induction. Out of the prover's reach are liveness under fairness and ENABLED
(`NoStarvation`, `SleepersWake`, `OrphansReaped`, `RequestsReturn`, `PipelineEnds`,
`PromptReturns`); induction over data, that is, what a recursive definition computes for every
input; and modules that declare RECURSIVE operators, as `Line` does.

## Findings

- `mlfq_boost_race` (document and code differ): `boost_priority()` resets the
  levels process by process and takes `mlfq_lock` only afterwards. On another
  hart a `yield()` in between charges a tick or demotes a process again, so the
  boost returns with somebody not at level 0 or with a tick. REPORT.md says
  that all are reset. The Makefile builds for one hart, where
  `mlfq_one_hart` shows that it is true.
- `files_reuse`: `iput()` frees an inode and drops its own reference in two critical
  sections. An inode allocated again in between and given up by its new owner has two
  references at that moment, nobody frees it, and it stays allocated without a
  name until the next boot's `ireclaim()`.
- `files_vanishing`: `create()` does not test whether the parent was removed
  between the walk and `ilock()`. The new inode goes into a removed directory and
  keeps a link count of one without a link.
- `jobs_resume`: `resume fg` waits with SIGCHLD unblocked; if the process stops
  before `waitpid()` is called the handler takes the report and the shell waits for
  a stopped process.

### Observations without a run

Behaviours met while modelling that no comment or document speaks about:

- `kwait()` tests `killed(p)` and sleeps later; a `kkill()` in between does not wake it
  until a child exits. The same window exists wherever `killed()` is tested before `sleep()`.
- `kkill(0)` finds a free entry, whose pid is 0, and marks it; `allocproc()` does not clear
  the flag, so the next process in that entry is killed at its first trap.
- A pipe writer killed between two bytes returns without the final wakeup: the bytes it
  has written wait for the next writer or a close to wake the readers.
- A tick that triggers a boost is followed by `yield()` of the running process on the same
  hart, which charges it at level 0 at once. With a slice of one tick it is demoted to
  level 1 right after the boost.
- LOGBLOCKS and NBUF are both 30: a log full of pinned buffers leaves none for
  reading. `sys_sync()` can be overtaken for ever by new calls.
- `..` of a directory that was removed while it was somebody's current directory
  names a directory that may be gone too.
- `copyinstr()` does not call `vmfault()` where `copyin()` does: a string in a lazily
  allocated page that was never touched is not found.
- In pipelines quotes are lost before the second reading: `echo "a|b" | cat` is three
  commands. A quoted `"<"` is taken for a redirection. `<<` passes the parser and
  is then not handled.
- `peek -r` of a file that ends in a newline prints an empty line first, and drops an empty
  first line.
- A pipeline stopped after one of its stages has exited is listed as wholly stopped. The
  timeout of `resume fg` is not noticed if the alarm comes outside `waitpid()`.
- The job table has room for MAX_JOBS jobs in the life of the shell; the ones after that
  cannot be listed, resumed or hung up.
- `kexit()` can print a waiting time of -1 for a process created between the count of a tick
  and `update_time()`'s visit to its slot.
- xv6's sh opens the file of `>>` without appending, so it overwrites from the start; of several
  redirections of one descriptor the first one written is the one in force.
- `grep` stops at the first line that does not fit in its buffer, and a last line without a
  newline is never matched.
- In the custom shell the output of a background command with `>` or `>>` goes to its
  temporary file and is never copied to the target, since the child is replaced by `execv()`.
  When the shell's output is not a terminal, what a builtin has printed may still be in
  stdio's buffer when its descriptor is restored, and goes elsewhere.
- A background command is looked up in the current directory even where the foreground one is not
  (a name with `%`), and there `access()` accepts a directory.
- When `execute_single()` returns 1, for a command that is not found or for `activities` with an
  argument, the commands that follow on the line are dropped, and `args` is freed at main.c:760
  and again at main.c:764. The heap of the custom shell is not modelled: in `Line` the shell ends
  there or goes on.
- `hop` keeps at most 64 directories and forgets none: a 65th is never recorded. The file belongs
  to the directory the shell was started in.

## Not modelled

`PROJECT.json` lists every part with the reason. In short: boot and register set-up; the kernel's
own page table; the table of system calls and the fetching of arguments; general registers; the
small utilities, the benchmark, the tests and mkfs; in the custom shell `reveal`, `spy`, `snoop`, the
prompt, and the forward branches of `peek`, which are formatting around input and output. Block writes
are assumed atomic, spinlocks are assumed to give mutual exclusion outside `Spinlock`, and the log
its promise outside `Log`. `first_run_time`, whose 0 means "never ran", and the overflow of the request
size of `malloc()` are not modelled. `Bcache` takes from the log only that it pins and unpins.

The parts of one MC module share no state: their interactions are modelled in the components
themselves, as the use of the log by `Inodes` and `Blocks`, of the scheduler's switches by `Trap`, or
of the parser by `Sh`.
