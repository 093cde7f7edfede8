# A verification of the programs of sogang-univ

The repository holds course projects in C. The largest by far is Pintos, an
operating system kernel with threads, processes and a file system, extended by
two assignments: system calls (`Prj1`) and process management (`Prj2`). With it
come an interactive shell over Pintos' lists, hash tables and bitmaps (`Prj0`),
an assembler with linking loader and debugger for the SIC/XE machine
(`sogang-univ-system-programming/`), and a game of Minesweeper
(`sogang-univ-basic-engineering-design/`).

The kernel modelled is that of
`src/sogang-univ-operating-system/Prj2/pintos/src/`; paths below are relative to
it unless they begin with `src/`, `Prj0` or `Prj1`. `Prj1` is the same kernel
one assignment earlier: it differs in `threads/thread.[ch]` and
`userprog/{exception,process,syscall}.[ch]` only, so everything said here of
other files holds for both, and `EarlierProcess` models the difference that
matters.

What makes the kernel hard to test: it is preemptive (a timer interrupt may
switch threads wherever interrupts are on), its processes synchronise by hand
over semaphores in memory that is freed and used again, its file system calls
run unlocked while each of them sleeps several times in the disk driver, and
its drivers share queues and flags with interrupt handlers. What makes the other
programs hard to test: long sequences of commands over tables, lists and files
that stay from one command to the next.

## 1. Inventory

Status: **m** modelled, **p** partly, **-** not modelled. What is missing of a
part is in section 7 and in the notes of `PROJECT.json`.

| Part | Code | State | Operations | Correct when | Modules | |
|---|---|---|---|---|---|---|
| Scheduler | `threads/thread.c` | ready list, running thread, `idle_thread`, ticks of the slice, statuses | block, unblock, yield, create, exit, tick | a thread is queued exactly while it is ready, once; the idle thread is known before it is needed | `Threads`, `Machine` | p |
| Semaphores, locks, conditions | `threads/synch.c` | values, waiters, holders, elements on waiters' stacks | down, try, up (also from interrupts), acquire, release, wait, signal, broadcast | no lost wake-up, one owner, Mesa semantics | `Synch`, `Monitor` | m |
| Processes | `userprog/process.c` | children, parent pointer, three semaphores, exit status in each page; `load_flag` | exec, start, load, wait, exit | one result per child and the right one; no page used after it is freed; every page freed; the image is the file's | `Process`, `Loader`, `Machine` | p |
| System calls | `userprog/syscall.c`, `lib/user/syscall.c` | the user's stack, `file_lock`, 128 descriptors, positions | the stubs, the handler, every call | a call reaches its function with its arguments and comes back with its result; the lock is given back | `Calls`, `Files`, `Console` | p |
| Exceptions | `userprog/exception.c` | gates | kill, page fault | a dying process leaves nothing behind | `Machine`, `Process`, `Files` | m |
| Inodes and files | `filesys/inode.c`, `file.c` | open inodes with counts, removed flag | open, reopen, close, remove, deny, allow, create, read, write | one inode per sector, exact counts, removed files last until closed | `Files`, `Calls` | p |
| Directory, free map | `filesys/directory.c`, `free-map.c`, `filesys.c` | entries and bitmap on disk | lookup, add, remove, allocate, release, start | names unique; live sectors marked and disjoint; fit to start from at any moment | `Files` | p, m |
| File system utilities | `filesys/fsutil.c`, `lib/ustar.c` | an archive on the scratch disk | ls, cat, rm, extract, append | files arrive whole or not at all and none is lost | `Startup`, `Ustar` | m |
| Interrupts | `threads/interrupt.c` | descriptors, controllers, yield-on-return flag | handler entry and exit, on, off | one external interrupt at a time, handlers do not sleep, time goes on | `Machine` | m |
| Memory | `threads/palloc.c`, `malloc.c` | page bitmaps, free lists by size, arenas | get, free, malloc, calloc, realloc | no piece handed out twice; an arena goes back when it is empty | `Memory`, `Allocator` | m |
| Page tables, segments | `userprog/pagedir.c`, `gdt.c`, `tss.c` | directories, tables, CR3, TSS | create, set, get, activate, destroy | a directory in use exists and is the thread's | `Loader`, `Machine` | p |
| Start-up | `threads/loader.S`, `start.S`, `init.c` | drives, memory map, command line | find and read the kernel, map memory, options, actions, shut down | the kernel of the right partition runs at the right place; each action happens once and in order | `Boot`, `Startup` | m |
| Character devices | `devices/intq.c`, `input.c`, `serial.c`, `kbd.c`, `vga.c`, `lib/kernel/console.c` | ring buffers, shift states, screen, console lock | getc, putc, notify, write, print | lines whole, bytes in order, all output gets out | `Console` | m |
| Time | `devices/timer.c`, `pit.c`, `rtc.c`, `speaker.c` | ticks, `loops_per_tick`, counters, gate | calibrate, sleep, delay, date, beep | waits last at least as long as asked; a date was once true | `Clock`, `Machine` | m |
| Disks | `devices/ide.c`, `block.c`, `partition.c` | channel lock, completion semaphore, expected flag, device list, roles | identify, read, write, interrupt, scan | an atomic store that answers every request | `Disk`, `BlockStore` | m |
| Data structures | `lib/kernel/list.c`, `hash.c`, `bitmap.c`, `Prj0` | cells, buckets, words | all operations | they are sequences, sets and bit arrays | `Lists`, `Hashes`, `Bitmaps`, `Shell`, `Collections` | m |
| C library | `lib/string.c`, `stdio.c`, `stdlib.c`, `arithmetic.c`, `random.c` | the generator's | all functions | what the standard says of each | `Strings`, `Arithmetic`, `Format`, `Library` | p |
| Host utilities | `utils/squish-*.c` | two pipes | relay, signal handler | nothing lost or reordered up to the end; they end | `Squish` | m |
| Earlier project | `Prj1` | `mem_lock`, `mem_exit_status` | exec, wait, exit | wait returns the child's status | `EarlierProcess` | p |
| SIC/XE system | `20141543.c` | opcode and symbol tables, memory, external symbols, break points, history | every command | code and addresses agree with a reference; a command does what its text says | `Assembler`, `Sicsim`, `Commands` | p |
| Minesweeper | `Prj3.c` | field, shown squares, statistics | lay, pick, open | what is shown follows from what was opened | `Minesweeper` | m |
| Tests and examples | `tests/`, `examples/` | | | | | - |

How the parts interact. The loader reads the kernel; `init.c` starts threads,
interrupts and devices and runs the actions of its command line. User programs
trap into `syscall.c`; exec, wait and exit go to `process.c`, which creates
threads and puts parent and child to sleep on each other's semaphores; file
calls go through descriptors to `file.c`, `inode.c` and `directory.c`, allocate
through `free-map.c`, and sleep in the disk driver on a semaphore its interrupt
handler ups. Reading the keyboard and printing go through queues that interrupt
handlers fill and empty. Exceptions end a process from outside, in user mode or
in the middle of a call. All that survives a restart is the disk.

The behaviours that are hard to test are listed, each at its line, under
`hazards` in `PROJECT.json`.

## 2. The modules

| Module | Models | Role |
|---|---|---|
| `Threads`, `Synch` | `thread.c`; `synch.c` on top of it | `Synch` refines `Threads`, implements `Monitor` |
| `Monitor` | what `synch.h` promises | abstract specification |
| `Synch_proofs`, `Process_proofs`, `Squish_proofs`, `Memory_proofs`, `Files_proofs`, `Machine_proofs`, `Loader_proofs`, `Disk_proofs` | | theorems and their proofs (section 4) |
| `Process` | exec, wait, exit | |
| `Files` | file calls of `syscall.c`, `filesys/` | with `Memory` and `Loader` in `MCStorage` |
| `Memory`, `Allocator` | `palloc.c`, `malloc.c`; what they promise | detailed and abstract specification |
| `Loader` | `load()` and what it builds, `pagedir.c` | uses `Strings` |
| `Console` | character devices, console | |
| `Machine` | interrupts, descriptors, thread switches, the tick | |
| `Squish` | `squish-pty.c`, `squish-unix.c` | |
| `Disk`, `BlockStore` | `ide.c`, `block.c`, `partition.c`; what they promise | detailed and abstract specification |
| `Boot` | `loader.S`, `start.S`, `paging_init()` | |
| `Startup`, `Ustar` | `init.c`, `shutdown.c`, `fsutil.c`, `ustar.c` | |
| `Clock` | `timer.c`, `pit.c`, `rtc.c`, `speaker.c` | |
| `Calls` | stubs, `syscall_handler()`, positions | |
| `Strings`, `Arithmetic`, `Format`, `Library` | the C library | operators; `Library` calls them |
| `Lists`, `Hashes`, `Bitmaps` | `lib/kernel/` | operators |
| `Shell`, `Collections` | `Prj0`'s commands; what they promise | detailed and abstract specification |
| `Assembler`, `Sicsim`, `Commands` | `20141543.c` | |
| `Minesweeper` | `Prj3.c` | |
| `EarlierProcess` | `Prj1`'s processes | |
| `MCSynch`, `MCStorage`, `MCKernel`, `MCDevices`, `MCPrograms`, `MCLogical` | values for the constants | for TLC |

The MC modules of several components have a variable `system` that says which of
them a behaviour is of; the others stay as they begin. That keeps one run for
one question about a group of components without multiplying their states. Where
components do interact, one module has both sides: `Synch` extends `Threads`,
`Loader` has two processes over the same pages, `Console` printers, readers and
handlers, `Machine` switches, loads and interrupts, `Disk` the threads and the
drives, `Startup` the kernel, the archive, the file system and the host.
`Process` takes the outcome of loading as a choice, which `Loader` shows to be
possible each way; `Files` takes the disk as atomic sectors, which
`Disk` shows it to be.

### Threads, Synch

In `Threads` an action is a stretch of code with interrupts off; that is what
makes it atomic in the code. The callers set statuses and queues before they
call `schedule`, as in the code. What threads do between two calls of the
scheduler is left open. `Synch` says what synch.c does there: a thread is in one
place (`pc`) of one operation, and steps are split wherever interrupts are on,
so a thread may be preempted between taking a lock's semaphore and setting
`holder`, between releasing a monitor's lock and sleeping, and so on. A thread
woken in `sema_down()` looks at the value again (`Recheck`) and may go back to
sleep. `IntrUp` is an interrupt handler that ups a semaphore.

### Process, EarlierProcess

A page holds a thread, is freed and may hold another one; the semaphores of
`struct thread` are per page. The model keeps the code's own mistakes:
`process_execute()` sleeps also if there is no child, `start_process()` touches
`load_flag` after it has woken its parent, `parent` dangles when the parent has
gone. `loaded`, `ending`, `reaped` are history. In `EarlierProcess` a parent
spins on one variable of the kernel that every exit clears.

### Files, Calls

In `Files` an action is what a process does between two disk transfers; `dir`,
`disk` and `map_disk` are on the disk, the rest is lost at `Reboot`. The timer
may also preempt *between* two transfers; that is not modelled, so with
overlapping calls the model shows what can go wrong (`files_names`,
`files_lock`) and never that nothing does: the passing instance and the theorems
take `Serial`, under which a process enters a call only when no other is in one.
`lost` counts open files no pointer leads to. `Calls` has the other half of the system calls: words on the user's stack,
what is checked and read of them, the kernel's functions on positions, EAX and
the way back. What exec, wait, create and remove return is a choice there.

### Memory, Loader

`palloc_get_multiple()` scans and marks bit by bit under the pool's lock while
`palloc_free_multiple()` clears bits without it. `Loader` gives each step of
load() at which a process may lose the processor to the other one, from the
parsing of headers to the bytes of the arguments on the stack; a page is told by
what was read into it.

### Console, Machine, Clock

In `Console` what runs with interrupts off is one step up to where it sleeps;
the UART, keyboard and screen are external. `Machine` takes an interrupt apart:
entry, handler, end of interrupt, the yield on return; descriptors and gates are
compared bit by bit with what the processor's manual asks. `Clock` has a CMOS
chip that runs on between two reads, a processor of some speed that counts loops
per tick, and threads that sleep, wait busily and beep.

### Disk, Boot, Startup

In `Disk` drives answer when they please, may not be there, may fail; a request
that fails panics the kernel. `Boot` goes through drives and partition tables
entry by entry and then maps memory page by page. `Startup` runs the actions of
a command line sector by sector; the power may fail at each, and the host may
put an archive on the scratch disk between two boots.

### Shell, Sicsim, Commands, Assembler, Minesweeper, Library

One step is one command, one statement of the source, one pick or one call. A
command is taken apart where its own steps can be seen by others, and nowhere
else: these programs are sequential. Operators return the structure they leave
and the value they return. `Collections` says what a shell command promises to a
named sequence, set or bit array; `Assembler` and `Library` have references that
do not say how (labels, addresses and bytes of a program; what a sorted array, a
quotient, a number in columns is).

## 3. The runs

| Run | Instance | Distinct states | What it shows |
|---|---|---|---|
| `synch` | main, idle, 2 threads, slice 1, a semaphore upped by interrupts, a lock, a condition | 51 336 | the run queue is exact, no lost wake-up, one owner; refinement of `TSpec` and `Monitor`; units are not left lying |
| `process` | main and 3 pages, 4 tids, bad images, kills, no memory | 156 668 | no use after free, statuses right and handed out once, exec waits for the load; exec and wait return |
| `storage` | 2 processes, calls one at a time, 2 names, 2 entries, 6 sectors, 3 inodes in memory, stops after any step; 2 threads, 6 pages of 12 bytes; 2 processes, 9 command lines, 8 programs, 4 pages of each kind | 1 295 996 | live sectors marked and disjoint, disk always fit to start from, one inode per sector, openers and denials counted; bitmaps, arenas and free lists agree, refinement of `Allocator`; pages owned once, images exact |
| `kernel` | 2 drives, 2 threads, 3 requests; 3 boots, 11 command lines, a hundred archives; drives with 5 tables, 3 signatures; 4 processors, 5 dates; 3 of 83 system calls | 411 258 | partitions, refinement of `BlockStore`, archives and files, the kernel and its memory map, time, calls relayed |
| `devices` | 3 printers and 2 readers; 3 threads and 3 interrupts; 2 bytes to relay | 442 288 | output and input exact, own page directory, one external interrupt; output drains, time goes on, relays end |
| `programs` | 3 and 4 lines of source; 5 command lines; 4 nodes; 3 elements in 2 slots; fields of 3 by 3; bounded inputs of every function | 374 281 | assembler, loader, commands, shell, game and library against their references |
| `process_failure`, `files_names`, `files_lock`, `logical_partitions`, `relay_hangup`, `earlier_process` | | | the findings of section 5 |

Why the bounds are enough for what is asked:

* `synch`: two ordinary threads let one own a lock, one sleep on it and the third
  (main) barge in. `MaxValue` bounds the units of plain semaphores: with one unit
  above zero a woken thread can find it taken.
* `process`: three pages with four tids make a page be used again by a child of
  the same or of another parent while earlier references survive; grandchildren,
  orphans and exhaustion occur.
* `storage`, files: of six sectors two are reserved; two files of one block fit, so
  allocation fails, succeeds and uses again what was freed; two entries and two
  names make the directory full and a name taken. `MaxLost` bounds the open
  files nobody leads to, which dying processes leave. `Bounded` keeps the
  product small: the second name and the last sector are used only while one
  process is alone, and then no more than one sector keeps the block of a file that is
  gone (nobody reads such a block; they only multiply states); while both live a file
  is lost only when neither has one open.
* `storage`, memory: a page holds two blocks, so arenas are empty, half full and
  full; sizes fit a block, or a page with its header. Sizes are numbers below 64
  where the code's are below 2^32: the product of 5 and 13 wraps, and calloc()
  must refuse it. Sizes whose sums wrap inside malloc() are left out (section 6).
* `storage`, loading: four pages are enough for one program of the largest size
  and not for two; of two processes one loads that program (`OneLarge`).
* `kernel`: tables of four entries, with an extended partition in its drive and one past
  the end, a partition whose end wraps and unused ones; a sector of two bytes makes files of none, one and two sectors;
  every byte of a header is changed to every kind of character; signatures below,
  at and above the right one, since the loader's branch tells them apart; page
  tables of two entries make the kernel's memory take one to three. Dates stand
  before the turn of a minute, day, month, leap day and year.
* `devices`: queues of three and two bytes are empty, full, and wrap; a screen
  of two by two scrolls; the timer's interrupt, the disk's and the spurious one of
  line 7 are pending at once.
* `programs`: the programs of the assembler have all formats, both relative
  addressings, areas shorter and longer than what follows, and errors of each
  kind; five object files have references forwards, backwards, to nobody and twice,
  reserved space only and a start of its own; tables double, bitmaps cross a word.

Deadlock checking is on for `synch` and, of `storage`, for memory and loading.
Elsewhere the systems really stop: processes end or sleep for ever, machines are switched off, programs end,
kernels panic.

Symmetry is used where only safety is checked: for threads and loading
processes in `storage`, elements and names in `programs`. Each passing property has a mutant in
the module it is about: a definition with a plausible mistake (a dropped guard, a
forgotten wake-up, a wrong order) that makes TLC report the property.

### Fairness

* `SFairSpec` (`synch`): the timer ticks, and a thread that is given the
  processor again and again in the middle of an operation takes its next step
  some time. A slice is four ticks and a step some instructions; without the
  assumption the model could tick a thread away before each instruction for
  ever. Nothing is assumed of what threads call.
* `PFairSpec` (`process`): every thread that can take a kernel step of exec, wait
  or exit does so, which is what `synch` shows of the scheduler.
* `MCSpec` of `MCDevices`: threads that may run do (`Console`), the serial
  interrupt and the port's transmitter act; processor steps inside handlers,
  delivery of interrupts, resumption and requests of the timer (`Machine`); steps
  of the relay, of the emulated program and the delivery of signals (`Squish`).
  Nobody has to type, and no program has to call anything.
* `MCSpec` of `MCKernel`: the drive answers or fails, its interrupt is handled, a
  thread in the middle of a request goes on, and the channel's lock is given to
  each thread that waits again and again (strong fairness: the lock's queue is
  first in, first out, which is `Synch`'s business).

All other specifications have no fairness; their properties are safety
properties.

## 4. What is proved

TLAPS checks every leaf of the eight proof modules: what a run shows of one small
instance, a theorem says for every value of the constants. Of the constants only
what the named assumptions say is used: `ThreadAssumption`, `SynchAssumption`,
`ProcessAssumption`, `MemoryAssumption`, `SquishAssumption`, `FilesAssumption`,
`MarksAssumption`, `MachineAssumption`, `GatesAssumption`, `LoaderAssumption`,
`DiskAssumption` and `TablesAssumption`. They type the constants, keep the marks
for "none" apart from real values, and say what the code takes for granted
(finitely many threads, a page larger than two headers, a segment that ends at
`PHYS_BASE`). TLC evaluates each in the run of its component.

Every proof goes the same way: an inductive invariant, a lemma for each action
that keeps it, a lemma that the invariant implies the property, and one temporal
step. The invariants, and what in them the properties alone do not say:

* **Scheduler** (`Synch_proofs`). `TInv` is `TTypeOK`, `RunQueueExact`,
  `OneRunning` and `NextIsAThread`. It takes all four: that
  `next_thread_to_run()` returns a thread needs `NextIsAThread` (the idle thread
  is queued or running until it has published itself); that the queue stays free
  of repetitions needs that only the running thread is `RUNNING` and not queued.
  Theorem `SchedulerSafety`.
* **Semaphores, locks, conditions** (`Synch_proofs`). The invariant is
  `SInv == STypeOK /\ TInv /\ PcOK /\ ElemOnOneList /\ NoLostWakeup /\ \A l : OneOwner(l)`.
  `PcOK` says what each place in synch.c implies (what a thread sleeps on, that a
  lock between its semaphore and `holder` has no holder yet, that the thread made
  in `thread_create()` is blocked, nobody else's, and not started). `OneOwner` is
  `LockOwned` without counting. From it: `SynchImplementsScheduler`
  (`SSpec => TSpec`, the assertions of `thread_block()` and `thread_unblock()`
  among it), `SynchTypes`, `SynchKeepsRunQueue`, `OneListEach`, `WakeupsKept` and
  `MutualExclusion`. `CInv` adds that what lies on a condition's list belongs to a
  thread still in `cond_wait()` (`SignalledElemsLive`); with it each step is a step
  of `Monitor` or leaves it alone (`SynchIsAMonitor`).
* **Processes** (`Process_proofs`). `PInv` is `PTypeOK`, `TidsUnique`, `PagesOK`
  (a free page holds nothing), `KinOK` (who is on a list of children is alive,
  names that parent and has not been waited for), `ChildrenFound`, `LeavingOK`, `BirthOK`, `WokenOK` and
  `WaitingOK` (what the three semaphores of a child say about the places of child
  and parent). From it: no use after free (`PagesOutliveReferences`),
  `StatusReachesParent`, `ParentAwaitsLoad`, the action properties
  `StatusTakenOnce` and `StatusTakenBeforeDeath`, `ChildrenStayListed`.
* **squish** (`Squish_proofs`). `SInv` is `STypeOK`, `PipesFit`, for each
  direction where every byte is (`FromChild`, `ToChild`), and `Death`. From it
  `BytesRelayed` and `PipesStayInBuffers`, for buffers and streams of any length and
  for each way to end: nothing is missing after the emulator's death, and after an
  end of input or of the terminal at most what its pipe's buffer holds.
* **Memory** (`Memory_proofs`). `MInv` says what every local of a thread in the
  middle of palloc.c or malloc.c means for bitmaps, arenas and free lists
  (`BitsOK`, `PagesExact`, `ThreadsAt`, `OldKept`, `LivePlaced`, `ArenasPlaced`,
  `BlocksExact`, `ListsExact`). From it `BooksKept`. `MemoryAllocates` is the
  refinement of `Allocator`: a block is obtained when its bits or its list element
  are taken and released when they are given back. Its premise `NoWrap` is that no
  size asked for wraps 32 bits when a header and a page are added, and of the
  products of calloc() that each is such a size or one calloc() refuses; without
  it the code does hand out too little (section 6).
* **File system** (`Files_proofs`). `FInv` is `World /\ \E p : Solo(p)`. `World`
  says what holds of disk and inodes at any moment (files' sectors apart and
  marked, removed inodes with nobody left gone); `Solo(p)` says of the one process
  that may be in a call what its place and locals mean for half-done changes of
  directory, map and counts. From it: `BlocksKept`, `CrashSafe`, `InodesExact`, `DenyExact`.
  All of it is conditional on `Serialized == Serial \/ Proc = {main}`: calls come one at a time.
  The code does not see to that, since create(), remove(), close() and exec take no
  lock, and without it none of the four holds of the code: inode_open() looks for an
  inode and then makes one, the free map is scanned and then marked, both with
  interrupts on. So these are no theorems about the kernel as it is, and
  `PROJECT.json` does not list them; they say that overlapping calls, as in
  `files_names`, are the only way in which the file system breaks these promises
  within the model.
* **Interrupts and switches** (`Machine_proofs`). `MInv` is `MTypeOK`,
  `EveryThread` (a stack of frames that only handlers, calls and switches of the
  code leave), `Apart` (page directories), `CurrentThread`, `ReadyThreads`,
  `IdleThread`. From it `InterruptsTrue`: a program runs in its own
  page directory, which exists, and on its own stack; one external interrupt is
  handled at a time, and none is in service when another thread gets to run. `GatesAssumption` is a ground fact about bits of descriptors, which TLC
  computes.
* **Loading** (`Loader_proofs`). `LInv` is `ProcsAt` (locals of each place in
  load(); what is left of a segment is whole pages below `PHYS_BASE`), `KTyped`,
  `UTyped`, and `Exactly` for each pool: each page in use has one role (a
  directory, a table of one, a page mapped at one place, a page being filled), and
  no two roles have one page. From it `PagesKept`: `PagesOwned`, with its count of
  pages against marks.
* **Disks** (`Disk_proofs`). `DInv` is `DTypeOK`; `ChannelOK`: one thread drives
  the channel, and each command gets one interrupt and one completion, with none
  left over for the next; `ScanOK`: the devices found so far are those of the
  tables up to the current drive and entry; `RolesOK`; and `AskedOK`: the sector,
  direction and data of a thread's command are those its caller asked for, until
  it returns. From it `PartitionsAreFound`, and `DriverIsAStore`: every step of
  threads, interrupt handler and drives is one step of `BlockStore`, where it
  takes effect at once, or none. That is the safety half of
  `ImplementsBlockStore`; that calls return is fairness and TLC's. The invariant and
  `PartitionsAreFound` hold for tables of any contents; of a drive with an extended
  partition inside they say what the code does reach (the disk first, nothing
  outside it), and `logical_partitions` what it does not. `DriverIsAStore` has the
  premise `OnePlace`, that the partitions of two roles do not overlap: sectors that
  belong to two devices are no two stores.

What is only model-checked, and why:

* Liveness (`UnitsAreTaken`, `CallsReturn`, `AllPrinted`, `TimeGoesOn`,
  `EndsAfterDeath`, the answers of `ImplementsBlockStore`): TLAPS does not reason
  about fairness and `ENABLED`.
* The invariants and the refinement of the `programs` run (`Assembled`, `Linked`,
  `CommandsExact`, `ImplementsCollections`, `GameExact`, `StringsExact`,
  `NumbersExact`): what the operators of these sequential programs compute is
  induction over data. The library's induction theorems take an operator as a
  parameter, which the installed provers cannot instantiate, and tlapm has no SMT
  in a module that reaches a `RECURSIVE` operator (`Arithmetic`, `Format`,
  `Hashes`, `Lists`, `Minesweeper`). For sets of numbers there is a way round, a
  least counterexample by well-foundedness (`LeastNat` in several of the proof
  modules), which might carry to recursive functions, but not to `RECURSIVE`
  operators.
* `ImageExact` (the bytes of an image: `Strings`' functions over the command line
  and the whole path through a file), `PutExact`, `ArchivesKept`, `BootExact`,
  `ClockExact`, `CallsRelayed`, `OutputExact`, `InputExact`: within reach, and not
  proved. Those of start-up and time hold of functions over headers, sectors and
  dates that are mostly computed; those of the console need an invariant of every
  byte's way through queue, port and screen.

## 5. Findings

Each is a run that TLC finds to violate what the sources say; `PROJECT.json`
quotes the line.

* `process_failure`: exec returns the tid of a process that never starts, since
  `start_process()` wakes the parent before it clears `load_flag`.
* `files_lock`: a page fault inside read() leaves `file_lock` taken for good,
  and a later process in that page trips the assertion of `lock_acquire()`.
* `files_names`: two creators of one name both succeed.
* `logical_partitions`: the table of an extended partition is never read, since
  `read_partition_table()` reads sector 0 again: the partitions it names are not found.
* `relay_hangup`: the relay ends with bytes in its buffer when the terminal or the
  socket closes first.
* `earlier_process`: wait returns the status of another process than the child.

## 6. What else was met

The models follow the code in all of these; none is hidden by a guard unless it
says so. They are listed because a reader of the code would not expect them.

**Processes and system calls.** exec sleeps for ever when no thread can be
created (process.c:59): `CallsReturn` leaves that case out, and that of a child
that faults in `build_stack()`. A child killed by an exception hands 0 to its
parent (exception.c:93; process.c:123 promises -1). Orphans' pages are never
freed (process.c:180), and descriptors of killed processes stay open. One
`load_flag` serves all execs. Other processes may write to a running program
(syscall.c:232; `tests/userprog/rox-simple.c` lets only the program itself try).
The handler checks the addresses of arguments for their first byte only, not that
of the stack pointer, and none of pibo and sum4, which therefore read the kernel's
words above the user's stack; an unknown number returns with EAX unchanged. seek()
to 2^31 and beyond ends in an assertion of file.c; read() of so many bytes reads
nothing. read() from the keyboard waits with `file_lock` held (syscall.c:143);
`AllPrinted` allows for that wait.

In the earlier project a child that exits before wait gives -1, a killed child's
status is 0, of two waiters one may miss its wake-up, exec of a missing file
leaks a page, the head of a freed list is removed, and read() of a descriptor
other than 0 returns an uninitialised variable (a choice in the model).

**File system.** dir_remove() may erase an entry that has changed hands
(directory.c:206); a create that fails late leaks sectors
(filesys.c:54); an inode is in the list before its block is read.

**Memory.** Requests near 2^32 wrap in malloc.c:109 and get a block that is too
small, where malloc.c:87 promises one of at least the size; calloc()'s check (166)
lets products pass that wrap to more than both factors. The model computes as the
code does, and `ImplementsAllocator`, which wants the size asked for, would be
violated: the run and the theorem are for sizes whose sums do not wrap, which are
all the kernel asks for.

**Console.** read() of descriptor 0 takes bytes from the keyboard and stores none
(syscall.c:141-146), where its callers expect them in the buffer
(examples/shell.c:47); Ctrl+@ ends it. `CallsRelayed` says of such a read how many
bytes it took and that it writes only inside the buffer, not what is in it. reboot does not flush the serial queue. `console_lock_depth` never grows
since vprintf() is never nested. Only the boot thread prints before the serial
queue starts.

**Disks.** `expecting_interrupt` is never cleared, ide_write() does not look at
the status after the drive has taken the data, the counters of reads and writes
are changed unlocked, `block_print_stats()` stops at the roles and not at the
devices (block.c:169). Of an extended partition inside its drive the code reads
sector 0 once more and registers the primary partitions again, displaced, and so on
for ever if the displaced table's extended partition still lies inside
(`MaxDepth` bounds that): `PartitionsFound` says of such a drive only that the disk
comes first and no device lies outside it, `LogicalFound` what is missing.

**Start-up.** `inc %dl; jnc` (loader.S:97) tests the carry of an earlier
comparison, since inc sets none: a drive whose signature is below 0xaa55 ends
the search, though the comment says all disks are looked at. `inc %bx` counts
sectors in 16 bits; a partition of no sectors is read 65 536 times. start.S:98
makes 17 directory entries for 16 tables. `-rs` has no effect since init.c:275
seeds again. `-r` with `-f` formats again at each boot. An append that the power
interrupts leaves a header with older data behind it. The end-of-archive marker is
written twice to one sector (fsutil.c:212 and 216).

**Time.** The fine calibration tests the bit alone and not what has been
accumulated (timer.c:63), so `loops_per_tick` may be nearly twice what fits a tick;
nine bits are tested where the comment says eight. The end of one beep cuts
another short. rtc_get_time() counts the present month's days where it means those
of the months before (rtc.c:86) and the leap days of the wrong years; only the seed
of the random generator depends on it, and it is not modelled.

**C library.** umod64() and smod64() return the low 32 bits of a remainder
(arithmetic.c:131, 150), where their comments promise all of it: `NumbersExact`
claims remainders that fit one word. memmove() to a lower address returns the end of
its destination (string.c:45; 21 promises its start), and strlcat() to a string that
fills its room already leaves it without a terminator (string.c:365; 345 has it
always terminated): the run makes both calls, and `StringsExact` claims the return
value of moves upwards only, and of such a strlcat() that it touches nothing. A
negative star width with the zero flag pads on both sides; commas count as digits
of the precision; %p drops flags; strrchr() does not find the terminator;
strnlen() looks one byte past its limit.

**Shell.** delete of a list moves later slots down and keeps the count; a deleted
bitmap keeps its name and a dangling pointer; hash tables cannot be deleted. In a
64-bit build the bitmap's `orl`, `andl`, `xorl` reach 32 of 64 bits
(bitmap.c:170, 183, 198), where bitmap.c:163 promises any bit. scan_and_flip of no bits
returns its start (bitmap.c:326 says 0). hash_find misses elements changed by
hash_apply, which hash.c:132 does not except. `Collections` says of these three only
what is left: bits behind the first 32 may stay, no value for no bits, and after
hash_apply a miss; of sets that hash_apply has not changed a miss means absence. splice of a range into
itself and unique into the same list are undefined and excluded.

**SIC/XE.** The length of a text record counts a BYTE's hexadecimal digits
(1253-1256); small reserved areas and those with BASE behind them are not seen as gaps
(1263); NOBASE ends the program (1034-1037, 1157); WORD has no code in pass 2; an
instruction with label and none or two operands gets no n and i bits;
base-relative without BASE uses 0; 20-bit addresses are cut to 16; the
comparison of labels stops before a chain's last element (1564), so line 930
never sees some duplicates. Pass 1 of the loader counts a section's length at its first T record (1917), pass 2
and the load map always (2058, 2147), so a section that only reserves space puts those
behind it elsewhere than their symbols say; symbols are entered relative to a
section's start and text is placed without it (1914, 2010): `Linked` claims
nothing of loads with such files, and the run has them. The loader's program address moves with each load,
`error_flag` is shared by all commands, and a third name stays from an earlier
load. edit and fill check no range; assemble and type make two history entries.
`dump 4 ,5` is refused because a start of two characters is expected before a
comma of its own (219 and 628 describe the form), and `edit 12 ,` takes the missing
value for 0: `CommandsExact` claims neither; fill joins words that blanks divide and may take digits left over in its
buffer; progaddr refuses lower-case digits that dump accepts. A mnemonic that is
not the last of its chain is printed twice, one whose chain is empty crashes the
program (`crash` in the model). Run() takes a break point off without
freeing it, duplicates cut nodes off, external symbols and break points are not
freed at the end: `NodesOwned` says what is freed once and what leaks.

**squish.** The loop's condition is always true and the branch with memmove() is
never reached; SIGPIPE ends the program.

**Minesweeper.** A level the menu does not have gives a field without mines, which
the first pick wins and no count remembers.

## 7. Not modelled

* `all_list`, thread ids, priorities and the mlfqs stubs of `thread.c`;
  `debug_panic()`'s backtrace; `bitmap_dump()`; the wording and layout of
  messages, of the shell's and the simulator's help and listings; statistics of
  devices and percentages of the game.
* Assembly but for the boot loader and start.S: `intr-stubs.S` and `switch.S` are
  part of the steps that call them.
* Bytes within a sector of a file in `Files`, reads of the directory other than
  fsutil's, the swap of `Files`' disk for `Disk`'s (the refinement of
  `BlockStore` stands between them).
* Timeouts of the disk's busy waits; more than one ATA channel; of the second
  interrupt controller more than its cascade and its spurious interrupt.
* Stack pointers inside the kernel, descriptors outside the table, unmapped
  buffers in `Calls` (the last are `Files`' and `Loader`'s), arguments at odd
  addresses: what the code does with them is undefined.
* Command lines of 256 characters and more, a blank one, and failure of malloc
  in `build_stack()`; accessed and dirty bits of page tables (nobody reads them).
* More than ten objects of a kind in the shell (the arrays overflow); rows,
  columns and letters outside the game's board (undefined: `charToint()` has no
  return there).
* The assembler's output file names (lines 781-797: a name without '.' leaves an
  unset character); files of other shapes than an assembler writes.
* `tests/` and `examples/` are programs for the kernel, read for what they say of
  it; `misc/` and the documents hold no code.

## 8. What is left to do

In order of what it would add:

1. `Files` with the timer between two transfers, on the steps of `Synch`, for
   calls that overlap.
2. Proofs about `Console` (`OutputExact`, `InputExact`) and about `Clock`
   (`ClockExact`); `ImageExact`, for which `Loader_proofs` has the pages but not
   yet their bytes.
3. The start-up chain (`BootExact`, `PutExact`, `ArchivesKept`) as theorems on top of
   `PartitionsAreFound`.
4. `all_list` in `Threads`: `init_thread()` inserts with interrupts on while
   `thread_exit()` removes with interrupts off (thread.c:473).
