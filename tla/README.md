# A verification of the Interview-Projects repository

The repository holds three bodies of work:

- **`COW-PROJECT`** is the xv6 RISC-V teaching kernel with copy-on-write fork
  added: reference counts on physical pages, a page-fault handler that copies,
  and a `copyout()` that knows about shared pages.
- **`ROUND ROBIN-PROJECT`** is the same kernel with a priority scheduler in
  place of the round-robin one, and `trace`, `sysinfo` and `setpriority`
  system calls.
- **`SUDOKU`** is a backtracking solver written in C++, Lua and Prolog (the
  `RACKET` directory holds a copy of the Lua program).

The kernels are where the difficulty is: preemption on several processors,
spin locks, sleep locks and sleep/wakeup, a disk that answers when it likes,
crashes, and memory that runs out in the middle of anything. The two kernels
share everything but `vm.c`, `kalloc.c`, `proc.c`, `trap.c`, `console.c` and the
system calls, so each part is modelled once, from the copy that is the more
interesting.

## The parts of the system

| part | state | operations | what is hard |
|---|---|---|---|
| pages (`kalloc.c`) | freelist, `pageref` counts | `kalloc` `kfree` `krefpage` `kcopy_n_deref` | counts against references across CPUs |
| user memory (`vm.c`, `exec.c`, `trap.c`) | page tables, `sz` | `uvmalloc` `uvmdealloc` `uvmcopy` `uvmcowcopy` `copyout` `exec` faults | sharing, failure half way |
| processes (`proc.c`) | the table, `wait_lock`, `proc_lock`, each CPU | `fork` `exit` `wait` `kill` `sleep` `wakeup` `yield` `sched` `scheduler` | lock order, lost wakeups, freed while running, starvation |
| log (`log.c`) | `outstanding`, `committing`, header in memory and on disk | `begin_op` `log_write` `end_op` `commit` `recover_from_log` | crashes, space, atomicity across calls |
| buffer cache (`bio.c`) | the LRU list, `refcnt`, `valid`, a sleep lock each | `bread` `bwrite` `brelse` `bpin` `bunpin` | recycling under two locks |
| disk driver (`virtio_disk.c`) | descriptors, two rings, 16-bit indices | `virtio_disk_rw` `virtio_disk_intr` | a device that runs on its own |
| pipes (`pipe.c`) | buffer, two free-running counters, open flags | `pipewrite` `piperead` `pipeclose` | sleeping at both ends, kill |
| file system (`fs.c` `file.c` `sysfile.c`) | inode table, link counts, bitmap, file table | `ialloc` `iget` `iput` `bmap` `itrunc` `dirlink` `open` `unlink` `link` | references against links, lock order |
| file contents (`fs.c` `file.c` `mkfs.c`) | block map, bitmap, size, an offset per open file | `bmap` `readi` `writei` `itrunc` `balloc` `bfree` `fileread` `filewrite` `iappend` | failing half way, blocks that are recycled, transactions of bounded size |
| console (`console.c` `uart.c` `spinlock.c`) | two ring buffers, two locks, the interrupt state of each CPU | `consoleintr` `consoleread` `uartputc` `uartputc_sync` `uartstart` `uartintr` `push_off` `pop_off` | interrupts between any two steps, indices shared with them |
| shell (`sh.c`) | the processes, descriptors and pipes of a line | `parsecmd` `runcmd` `fork1` | who closes which end, who waits for whom |
| line editor (`sh.c`) | one buffer, the cursor, the history, two saved strings | `gets_or_tab` `getcmd` | keys in any order |
| `grep` (`grep.c`) | the buffer | `grep` `match` | lines cut by `read()` |
| user heap (`umalloc.c`) | the ring of free blocks | `malloc` `free` `morecore` | joining neighbours in any order of calls |
| Sudoku | a board, the call stack | `solve` `isSafe` | backtracking |

They interact by calls down the table (system calls use files, files use inodes,
inodes use the log and the buffer cache, the cache uses the driver) and by
sleep and wakeup, which every part above the scheduler relies on. `PROJECT.json`
lists every part with its files and its status.

## The modules

Each component module has its state as variables, one action per step that other
processors can see, and a specification; an MC module holds what TLC needs
beyond it; `.cfg` files give the constants.

### Pages: `PageRefs`

The abstract allocator: places (page-table entries, inner tables and pages a
path holds between two steps) refer to pages; `Alloc`, `Drop`, `Share` and `Copy`
are `kalloc`, `kfree`, `krefpage` and `kcopy_n_deref` as their callers use them.
`RefInv` says that the count of a page is the number of places that refer to it
and that the freelist holds exactly the pages without one.

### Copy-on-write memory: `Cow`, `PrivateMemory`, `CowProofs`

`Cow` is the virtual memory of both kernels: page tables as functions from
pages to entries with their PTE bits, inner page-table pages counted, the
allocator with its counts, and every path through `fork`, `sbrk`, `exec`, `exit`,
`wait`, the store page fault and `copyout` cut where another processor may come
in: each allocator call and each entry written is a step. A path that fails
half way gives back what it took in steps of its own. The variable `eager` says
which kernel runs: the one whose `uvmcopy` shares every page, or the one that
copies it. `KernelAlloc` is what the kernel takes at boot and never gives back.

It is compared with two abstractions. `PrivateMemory` is what fork promises:
each process has a memory of its own, and only its own stores change it;
`Isolation` is the refinement. `PageRefs` is the allocator seen alone:
`ImplementsPageRefs` says every step of every path is one of its steps.

`CowProofs` proves the refinement of `PageRefs`, that the counts of `PageRefs` are exact, from the two that
page tables are sound, and from all of these `Isolation`, of the behaviours in which `copyout` stores only where the program could:
for any number of processes and pages.

### Processes: `Sched`, `SchedProofs`

The process table with `p->lock`, `wait_lock` and `proc_lock`, the processors, and
`fork`, `exit`, `wait`, `sleep`, `wakeup`, `kill`, `yield`, `sched` and
`scheduler` cut at every lock acquisition. The constant `RoundRobin` chooses between the loop of
the one kernel (scan under `proc_lock`, remember the best, then run it) and of the
other (run each runnable slot in turn).

`SchedProofs` has the theorems, for any number of processes and processors and for
both loops.

### Storage: `VirtioDisk`, `BlockUsers`, `Bio`, `BlockStore`, `Log`, `JournaledDisk`, `StorageProofs`

`VirtioDisk` has the driver and, as external actions, the device: it takes
requests in the order of the ring, finishes them in any order and raises an
interrupt that the handler acknowledges before it looks. `Bio` is the cache over
a disk that serves one call at a time per buffer, and refines `BlockStore`: one
lock and one value per block. `Log` takes the cache's blocks as its state
(dirty blocks stay pinned, which is `bpin`) and every block write as a step, with crashes between
any two; `CallsAreAtomic` is the refinement of `JournaledDisk`, where the calls
of a group reach the disk at once or not at all. `BlockUsers` has the processes and blocks that the three
have in common, and `StorageProofs` the theorems of all three.

### The console: `Console`, `LineDiscipline`, `ConsoleProofs`

Processes in `read()` and `write()`, and the interrupt handlers of the CPUs, over the two
spin locks, the UART and the interrupt controller. `push_off` and `pop_off` are
state (`noff`, `intena`, whether interrupts are on), so that an interrupt comes in
wherever the code lets it. Both ways to the transmit register are there: the ring
with `uartstart`, and `uartputc_sync`, which takes no lock. `LineDiscipline` is what
readers are promised: `ImplementsLineDiscipline` reads finished lines, and the line being
typed, off the three free-running indices. `left.kernel` chooses between the
two `consoleintr`s; the round-robin one swallows escape sequences and ends a line at an arrow key,
a tab or a backspace.

### Pipes: `Pipe`, `PipeProofs`, `ByteStream`

`Pipe` has `piperead`, `pipewrite` and `pipeclose` with the sleep and wakeup that
`sleep(&pi->nread, &pi->lock)` makes atomic, and refines a queue of bytes.

### Files: `FileSystem`, `FileSystemProofs`, `TreeProofs`, `FileBytes`, `ByteFile`

Inodes, directories and open files of `fs.c`, `file.c` and `sysfile.c` above the log: the
inode table with its references, `valid` bits and sleep locks, the inodes, directories
and bitmap of the disk, the file table and the descriptors of each process. A system
call is a path through `namex`, `create`, `sys_unlink`, `sys_link`, `sys_open`,
`sys_chdir` or `exit` that stops wherever it lets go of `itable.lock` or waits for an
inode; two paths interleave at every such place. What the code undoes on a failure (no
inode, no block, no entry of a table, a name that exists) it undoes in the steps of the
model. A path is a sequence of names; a directory is the inode number of each name.

`FileBytes` and `ByteFile` are about what one file contains. `FileBytes` has the block map with direct blocks and
the indirect one, `readi`, `writei` and `itrunc` block by block under the inode's lock, the chunks of `filewrite`, the
offsets of open files, and the bitmap that other files use at the same time. `home` is what the log
knows of a block: `disk` differs from it where `either_copyin` failed in the middle of a block.
It starts with `mkfs`, which builds the same structures on the host. `ByteFile` is a
sequence of bytes; a failed write leaves positions whose bytes are unsettled.

### User programs: `Sudoku`, `SudokuProofs`, `Shell`, `ShellMeaning`, `LineEditor`, `EditedLine`, `Grep`, `Umalloc`, `MCPrograms`

`Sudoku` has the recursion as a stack of cells with the number each tried last. The reference
is the set of answers, computed from the rules.

`Shell` has the parser of `sh.c` as recursive operators on tokens, and `runcmd()` as a script of system calls, one of
which is a step of one process: `fork`, `pipe`, `close`, `dup`, `open`, `exec`, `wait`,
`exit`, and the reads and writes of three programs. A call does in one step what a process sees of it; how the kernel does it is for the other modules.
`ShellMeaning` is the reference, and shares no definition with the
parser but the sets of symbols: which lines are well formed, and what a line writes to the screen and to files, both by
where its operators stand.

`Umalloc` has the ring of free blocks with `malloc`, `free` and `morecore`.

`LineEditor` is what stands between the keyboard and the shell in the round-robin kernel: `gets_or_tab()` key by key, with the history
and the cursor, and the completion of `getcmd()`, over one buffer that the steps clear in different ways. `EditedLine` is
what a user takes it for: a line, a cursor, a place in the history and a draft; and, because the code does so, `cut`: what an erase or a recall
with the cursor inside the line has cut off may come back behind it. The keys are under no restriction. `ImplementsEditedLine` reads the one off
the other.

`Grep` has the matcher as it recurses, and the loop that looks for lines in what `read()` has delivered so far. The reference
reads a pattern as a list of characters with or without a star and asks whether some stretch of the line
is made of that list.

`MCPrograms` puts the five side by side, for one run; `program` says which of them moves.

## From the code to the models

**Steps.** A step is what no other processor, interrupt or device can look into.
In `Sched` that is the acquisition of a spin lock that is kept, or a section that takes
and releases one without blocking inside. In `Cow` it is one call of `kalloc`,
`kfree`, `krefpage` or `kcopy_n_deref`, each under the allocator's own lock, together with the
page-table entry the same path writes next. (A page table belongs to one
process and is written by its own path only, or by its parent's before it runs and
after it is dead, so entries need no steps of their own except where the code
lets go between the entry and the count, as `uvmcopy` does: `ForkMap`, then
`ForkRef`.) In `Log` it is a section under `log.lock` or the write of one
block; in `VirtioDisk` a section under `vdisk_lock`, the two fences cutting the
publication of a request in two; in `Bio` a section under `bcache.lock` or an operation of one
sleep lock; in `FileSystem` a section under `itable.lock` or `ftable.lock`, with what the
path does before and after it under the sleep locks it holds (the log makes the disk's
share of it atomic); in `Pipe` one turn of a
loop, or a sleep, with `pi->lock` held across the steps of a call because `kill` does not ask for it.

**Paths.** Where a function may be interrupted between steps, the process has
a program counter (`th[p].at` in `Cow`, `stage[p]` in `VirtioDisk`, `pc[p]` elsewhere) and keeps the local
variables that outlive the step. A function that fails half way and undoes its work
(`uvmalloc`, `uvmcopy`, `exec`'s `bad:` label) undoes it in steps.

**Panics** are states: `Cow` sends the path to `"panic"` with a reason, `Log`
sets `at = "panic"`, and a property says which are reached. In `FileSystem` a path that would
panic cannot go on, and `NeverPanics` says that no path stands there.

**Data.** Pages, blocks and processes are model values; contents are what the
properties compare: a byte per page, the number of the last system call that wrote a
block, the number of a request, the number of a byte of a pipe.

**Sharing one model between two kernels.** `log.c`, `bio.c`, `virtio_disk.c` and
`pipe.c` are the same in both. `proc.c` differs in `scheduler()`: `RoundRobin` of
`Sched` selects. `vm.c`, `kalloc.c` and `trap.c` differ in what `fork` does with memory: `eager` of `Cow`.
`console.c` differs in `consoleintr()` and `consoleread()`: `left.kernel` of `Console`. `fs.c`, `file.c` and `sysfile.c`
agree but for formatting.

**Sudoku.** `solver` is one of `"c++"` and `"lua"` and never changes in a behaviour:
the C++ `solve` takes the cell as its arguments and goes to the next, the Lua
`solve` looks for the first empty cell from the start in each call.

## What the runs check

| run | module | properties | what it shows |
|---|---|---|---|
| `cow_share` | `MCCow` | `PageTableSound`, `ImplementsPageRefs`, `Isolation` | Two processes fork, fault, grow, read, exec and exit with too few pages, or three share a page and write to it at once with enough: whichever allocation fails, counts stay exact (each step of every path is one of PageRefs), writable pages stay private, no page-table panic is reached, and sharing is invisible to the programs. The kernel that copies at once keeps the same promise. |
| `cow_oom` (violation) | `MCCow` | `Isolation` | copyout() to a shared page when no page is free for the copy writes the page other processes still map. |
| `sched_smp` | `MCSched` | `RunsOnce`, `FreedIsOffCpu`, `SchedHoldsOnlyItsLock`, `NoLockCycle`, `NoLostExit`, `DispatchesHighestSeen` | Two CPUs run three processes through fork, wait, kill, exit and setpriority under the priority scheduler: no process runs twice, no slot is freed under a CPU, the lock order holds, no exit is missed by a sleeping parent, and a dispatch never passes over a process of higher priority that the scan could see. |
| `sched_live` | `Sched` | `RunnableRuns`, `OrphanIsReaped` | On one CPU with a timer the round-robin loop runs every runnable process, and every orphan that exits is reaped by an init that keeps calling wait(). |
| `log_crash` | `MCLog` | `QuiescentIsDurable`, `CallsAreAtomic`, `SleepersAreWoken`, `ReservationSuffices` | Three processes contend for a log that holds two reservations, with two restarts at any write: calls that commit together reach the disk together or not at all, a finished call is durable once nothing is under way, nobody sleeps for ever in begin_op(), and log_write() never finds the log full. |
| `disk_live` | `MCVirtioDisk` | `ChainsArePrivate`, `ReturnsTheBlock`, `EveryCallReturns` | Three processes compete for descriptors that serve two, across the wrap of the ring indices, with completions in any order, late and shared interrupts and wakeups by kill(): requests keep to their descriptors, completions match requests, and each call returns, with its block transferred. |
| `bio_share` | `MCBio` | `RefsAreExact`, `ImplementsBlockStore` | Two processes and up to two pins over four blocks and three buffers, one too few for all of them: whatever is recycled, written back and pinned, the cache behaves as one lock and one contents per block, nobody sleeps on a free buffer, and bget() panics only when every buffer is in use. |
| `pipe_stream` | `Pipe` | `ImplementsByteStream`, `SleepersHaveReason`, `FreedIsUnused` | Two writers and two readers, one of them both, on a pipe of two bytes whose counters wrap, with one kill at any point and bad addresses: bytes come out once and in order, nobody but a killed writer leaves a sleeper with work to do, and the pipe is freed once and last. |
| `console_lines` | `MCConsole` | `InterruptsMatchLocks`, `SendsInOrder`, `SleepersHaveReason`, `ImplementsLineDiscipline`, `CallsReturn` | Typing, reading and writing at the console: with interrupts between any two steps and two CPUs, lines are edited and read as typed, output leaves once and in order, no handler waits for what it interrupted, and every write returns. |
| `fs_tree` | `MCFileSystem` | `RefsAreExact`, `BlocksOwnedOnce`, `LinksAreNames`, `NeverPanics` | Two processes make three calls among open with and without O_CREATE and O_TRUNC, write, mkdir, link, unlink, chdir, dup and fork, with close and exit at any point, on a disk that runs out of inodes and of blocks: references and link counts are exact through every failure, what is in use is not freed, and neither a lock order nor a recycled inode stops a path. |
| `user_programs` | `MCPrograms` | `SolvesCorrectly`, `PromptMeansDone`, `HeapIsTiled`, `PrintsTheLines`, `ProgramsEnd`, `EditorKeepsLine` | The user programs, in scenes of their own: both Sudoku searches over every 4 by 4 puzzle of a family with consistent givens; the shell with the processes of each of some 700 lines, well formed or not; its line editor under any keys, with history and completion; grep with every short pattern on files that read() cuts anywhere; and a program that calls malloc(), free() and sbrk() in any order. |
| `file_bytes` | `MCFileBytes` | `BlocksAreExact`, `ImplementsByteFile` | On the image mkfs has built, two processes read, write, reopen and truncate one file through two open files, with bad addresses and a disk that fills up, while other inodes take and free blocks: the file is a sequence of bytes, the bitmap is exact and a chunk fits its reservation. |

Findings, each the outcome of a violation run:

- `cow_oom`, `Isolation` (COW-PROJECT/kernel/vm.c:366): copyout() ignores the result of uvmcowcopy() (vm.c:366-368) and goes on to walkaddr() and memmove(): with no free page the store lands in the page other processes share. README.md:56 says: "Modify `copyout()` to use the same scheme as page faults when it encounters a COW page", where a fault that finds no memory kills the process.

### Bounds, and why they are enough

- **`cow_share`**: images of a guard page and a data page that `sbrk` grows to three and shrinks to
  none, nine pages, and two scenes (`OneScene`). In one the kernel has three of the pages and two processes make
  every call. A process takes two pages for its page table and one for each page of its image, `fork` the same again,
  `exec` a second table and image until it has dropped the old one, a fault one page for the copy: every allocation of
  every path fails in some behaviour and succeeds in another. In the other scene the kernel has none, and
  three processes fork and store: two faults on one page race while the third
  looks on, and memory never runs out. The kernel that copies at once needs no third process, since nothing is shared.
  `LowestFree` lets `kalloc` return only the lowest free page and the view `Shape` names a page
  by the places that refer to it: the two identify states that differ in the names of pages only.
  That `exec` asks the old table about the new one's pages matters in no state of these scenes; `CowProofs` has it for every one.
- **`cow_oom`**: one data page each, five pages, so that `copyout` finds no page for the copy.
- **`sched_smp`**: two processors and three processes: a parent, a child and a grandchild, so that
  `wait`, `exit` with orphans, and both wakeups of `exit` overlap. Priorities 0 (refused) and 1
  against the default 5. `OneSpecial` keeps at most one process at a time killed or of changed
  priority.
- **`sched_live`**: one processor, where no lock is contended, three processes.
- **`log_crash`**: three processes, three system calls, five blocks, two restarts: the
  second crash can hit the recovery from the first. The log has room for two
  reservations, so that `begin_op` makes the third caller wait. Calls write at most
  two of the three blocks they reserve; see "What else was seen".
- **`disk_live`**: eight descriptors, the code's `NUM`, serve two of three processes and leave two over, which the third takes and gives back. Indices run modulo 16 in
  place of 2^16 (both are multiples of the ring size, which is what `% NUM` needs) and start one below the
  wrap. `FirstCalls` has the first idle process call for the first block not in use;
  they are alike otherwise.
- **`bio_share`**: four blocks and three buffers make recycling necessary, a pin
  keeps a buffer from it. Two processes and two pins can take one buffer more than there are, so that `bget` panics in some
  behaviours, under `bcache.lock`, which nobody gets from then on (`LockIsFree`): hence no deadlock check. `RefsAreExact` says that it panics with
  every buffer in use, and not otherwise.
- **`pipe_stream`**: a pipe of two bytes with counters modulo 4, five bytes in a behaviour, one kill
  at any point, addresses that fail at any byte.
- **`fs_tree`**: two processes and three calls, closes and exits aside, from the disk `/`, `/x`, `/d`.
  Three calls are what the longest hazards take (link, then two unlinks; or open,
  unlink, and a create that recycles inode and entry). Four inodes, one of them free,
  five blocks, one of them free, and two directory entries to a block: the second
  `mkdir` or new entry runs out of one or the other. The table has an entry for every
  inode: `iget`'s panic for a full table needs fifty inodes in use at once, which the
  bounds of two processes and two files do not reach. `dirlink` reuses the
  holes that `unlink` leaves, so counting the entries against the blocks is exact. No path has `..` in it
  (see "What else was seen").
- **`file_bytes`**: blocks of two bytes, two direct and two indirect ones, five in all for a file that may
  take five (the indirect block counts), with others that take and free blocks; bitmap blocks of
  three bits, so that the blocks of one write fall under two. A transaction of six blocks makes `filewrite` cut
  four bytes into two chunks. Three calls, the first by `p` on the first file (the two are alike): a write over
  a truncation of another process, a read of what a failed write left.
- **`console_lines`**: four scenes (`MCScenes`): a line typed to one reader of either kernel, every key
  that is treated apart among the keys; two readers of whom one may be
  killed; output on two CPUs with echoes in between. A line buffer of three and a transmit ring of one,
  indices modulo 6 that start at 4, so that both fill and all indices wrap. A FIFO of
  two in the device, which is what `uartputc_sync` relies on.
- **`user_programs`**: 4 by 4 boards, where the first row is anything consistent and the rest an answer with
  five blanks: puzzles with one answer, several or none. Six processes, two pipes of one byte,
  `MAXARGS` 3; the lines are every sequence of up to three of nine tokens (those of three with at most
  one `|` or `&`) and eleven longer ones with nested groups, lists, pipelines and redirections; one line in
  a behaviour, for nothing of a line outlives it but background processes. Keys are two letters and the special ones, a buffer of five, three
  file names of which one begins another, a history of two commands and one more. Patterns are all up to three of `a . * ^ $`, texts all up to three
  of two letters and the newline, with three that come near or over the buffer of four. `fork` and `pipe` fail
  where processes and pipes run out. Heap addresses count headers up to 14; `morecore` asks for four at least, requests are for
  2, 3 and 5, and the program moves the break once, so that the heap has a gap.

Where a cfg says `CHECK_DEADLOCK FALSE`, the bound on the work (calls, bytes, requests) stops
the model, or the code panics, or the program has returned. `sched_smp` and `sched_live`
check for deadlock.

### Fairness

- `Sched`: a processor executes what it is given (`WF` on the scheduler and on
  `Resume`); a kernel path that timer interrupts push aside gets on in the end (`SF`,
  because an interrupt disables the path's next step for a while); the
  timer fires in every program (`SF` on `Yield`: `timervec` reloads it whatever the
  program does); and `init.c` loops in `wait`. The last two are the code's:
  `start.c` programs the timer on each processor, and `init.c` has no other path.
- `VirtioDisk`: the scheduler runs processes that are runnable, the device works on
  what it has taken and interrupts are enabled, all weak: none of them is ever disabled for good by another.
  Nothing is assumed of which request the device finishes first.
- `Console`: CPUs run what they have, the scheduler dispatches who is runnable, the device sends what it has,
  and its interrupt is taken by some CPU that has interrupts on; all weak. No key need be hit.
- `Shell`: while some process can run, one does. That is less than the scheduler gives: no process is
  promised its turn, and the line ends all the same.
- `Sudoku`: the program runs.

`Cow`, `Log`, `Bio`, `Pipe`, `FileSystem`, `FileBytes`, `Umalloc`, `LineEditor` and `Grep` state no fairness: their properties are
safety properties. That nobody sleeps for ever is stated as an invariant there (a
sleeper has someone who will wake it), which needs none.

## What is proved

| theorem | module | property | what it establishes |
|---|---|---|---|
| `PageTablesAreSound` | `CowProofs` | `PageTableSound` | For any number of processes and pages, in either kernel and whichever allocation fails: in user space a process maps exactly the pages below p->sz, a page it can store to is referred to by that entry alone, and no panic of mappages, uvmunmap, uvmcopy or freewalk is reached. |
| `CopyOnWriteIsInvisible` | `CowProofs` | `Isolation` | Each process has the memory that fork, exec, sbrk and its own stores give it, whatever paths of other processes interleave with them and whichever allocation fails, as long as copyout stores only to pages mapped writable: the one way to lose isolation is the unchecked store that the finding of cow_oom shows. |
| `ReferenceCounting` | `CowProofs` | `ImplementsPageRefs` | Every step of every path of the kernel (fork, sbrk, exec, exit, wait, faults, copyout) is one operation of the allocator's contract or none of its business. |
| `CountsAreExact` | `CowProofs` |  | At every moment of these paths a page is on the freelist exactly when nothing refers to it, and its count is the number of its references: no page leaks, none is freed while mapped. |
| `ExclusiveOwners` | `CowProofs` |  | No entry lets a process both store to a page and fault on it as copy-on-write, and what can be stored to, or is about to be mapped, is referred to from nowhere else. |
| `ShapeInvariance` | `CowProofs` |  | What each page table maps at each place of each path, whose child a path makes or reaps, and that boot has memory for the first process. |
| `PageRefsCorrect` | `CowProofs` |  | Whatever the callers do within the contract, counts equal references and the freelist holds exactly the unreferenced pages. |
| `SchedTypeCorrect` | `SchedProofs` |  | For any number of processes and CPUs and both scheduler loops, the process table, kernel paths, scheduler loops and locks keep their types, and every priority stays within 1 to 10. |
| `ProcessRunsOnce` | `SchedProofs` | `RunsOnce` | For any number of processes and CPUs, no process is run by two CPUs at once, under the priority loop and the round-robin loop alike. |
| `FreedSlotIsOffCpu` | `SchedProofs` | `FreedIsOffCpu` | For any number of processes and CPUs, no slot is freed or taken for a new process while a CPU is still on its kernel stack. |
| `SchedNeverPanics` | `SchedProofs` | `SchedHoldsOnlyItsLock` | For any number of processes and CPUs, whoever calls sched() holds its own lock and no other, and is not RUNNING any more: none of sched()'s panics is reached. |
| `NoLockCycles` | `SchedProofs` | `NoLockCycle` | For any number of CPUs and processes and both loops, no set of CPUs waits for locks that only they hold. |
| `HighestIsDispatched` | `SchedProofs` | `DispatchesHighestSeen` | For any number of CPUs and processes, a CPU that runs what its scan has found runs a process of the highest priority among those that were runnable when the scan passed them and still are. |
| `NoExitIsLost` | `SchedProofs` | `NoLostExit` | For any number of CPUs and processes, no parent sleeps in wait() beside a zombie child unless a wakeup for it is on its way. |
| `Durable` | `StorageProofs` | `QuiescentIsDurable` | For any number of processes and blocks and any log that holds its reservations: when no system call is under way and no commit, a restart would find what the system calls see. |
| `NoLostSleeper` | `StorageProofs` | `SleepersAreWoken` | Nobody sleeps in begin_op() without somebody who will wake it. |
| `LogSuffices` | `StorageProofs` | `ReservationSuffices` | What the calls admitted by begin_op() may still log fits in the log: log_write() never panics. |
| `SystemCallsAreAtomic` | `StorageProofs` | `CallsAreAtomic` | The log with its commit and recovery, stopped between any two writes, implements a disk whose system calls reach it together or not at all. |
| `PrivateChains` | `StorageProofs` | `ChainsArePrivate` | For any number of processes, blocks and descriptors and any width of the indices: the chains of the requests under way share no descriptor with each other or with the free ones. |
| `BlockReturned` | `StorageProofs` | `ReturnsTheBlock` | A call that returns has its block transferred: what the device has answered is what the driver has asked, in whatever order it answers. |
| `CacheIsExact` | `StorageProofs` | `RefsAreExact` | For any number of processes, pins, buffers and blocks, few buffers included: a buffer's count is the number of its users and its pin, no two buffers have the same block, nobody sleeps on a buffer nobody has, and bget() panics only when every buffer is in use. |
| `CacheIsStore` | `StorageProofs` | `ImplementsBlockStore` | For any number of processes, pins, buffers and blocks the cache implements one contents and one lock per block, whatever is recycled, pinned and written back when, and up to a panic of bget() and after it. |
| `PipeIsStream` | `PipeProofs` | `ImplementsByteStream` | For any number of readers and writers, any size and any width of the counters that the size divides: the pipe is a bounded first-in first-out stream. |
| `SleepersAreRight` | `PipeProofs` | `SleepersHaveReason` | Nobody sleeps on a pipe without a reason, but for the readers a killed writer forgets. |
| `FreedIsSafe` | `PipeProofs` | `FreedIsUnused` | The pipe is freed once, when no call is in it and no file refers to it. |
| `Invariance` | `ConsoleProofs` |  | The console's inductive invariant, for any CPUs, processes and buffer sizes: where every thread is, what the CPUs count of its push_off(), which lock it holds, what lies in the two buffers and what the device still has room for. |
| `HandlersNeverSelfDeadlock` | `ConsoleProofs` | `InterruptsMatchLocks` | No interrupt comes in on a CPU that holds cons.lock or uart_tx_lock, and a CPU out of all locks takes interrupts again. |
| `OutputIsInOrder` | `ConsoleProofs` | `SendsInOrder` | What write() put leaves the UART once and in order, though echoes and uartstart() write one register under no common lock: the device's FIFO need only hold two bytes. |
| `NobodySleepsInVain` | `ConsoleProofs` | `SleepersHaveReason` | A reader sleeps only on nothing to read, a writer only on a full ring, and nothing lies in the ring without a thread, the device or an interrupt to send it. |
| `ReadersGetLines` | `ConsoleProofs` | `ImplementsLineDiscipline` | The console with its interrupts, locks and wrapping indices implements the line discipline: lines are edited until they are finished and read in order, one at a time. |
| `InodesInvariant` | `FileSystemProofs` |  | For any number of processes, any calls and paths and any sizes of the disk and the tables: which local variables each path uses and which inodes it keeps locked, what the inode table caches, counts and frees, and who owns which block. |
| `ReferencesAreExact` | `FileSystemProofs` | `RefsAreExact` | Through every failure, recycling and interleaving of the calls, ip->ref and f->ref are the numbers of references there are, what is open or worked in is not freed, and a valid entry is what the disk says. |
| `BlocksHaveOneOwner` | `FileSystemProofs` | `BlocksOwnedOnce` | A block belongs to one inode or is marked free, and none is lost, also where dirlink() and writei() run out of blocks half way. |
| `TreeInvariant` | `TreeProofs` |  | As long as no path asks a removed directory for "..": who has which inode, what each name stands for while a call makes, seeks or removes it, that the folders are a tree, and what each link count is made of, in every state between two steps of any calls. |
| `LinkCountsAreExact` | `TreeProofs` | `LinksAreNames` | As long as no path asks a removed directory for "..": between calls, an inode's link count is the number of its names, through every failure and interleaving before, for the inodes that were not linked into a removed directory. |
| `InodeLocksHaveNoCycle` | `TreeProofs` |  | As long as no path asks a removed directory for "..": no set of processes has each of them waiting for an inode that one of the set keeps locked, whatever the sizes of the tables. |
| `InodeTableSuffices` | `TreeProofs` |  | iget() finds an entry when the table has one for each inode, or six for each process and one for each open file. |
| `PathsNeverPanic` | `TreeProofs` | `NeverPanics` | With such a table, and as long as no path asks a removed directory for "..": no ilock() meets a free inode, no iget() a full table, and no process waits for a lock held by one who waits. |
| `SudokuCorrect` | `SudokuProofs` | `SolvesCorrectly` | For boards of any size and both solvers: solve() answers true with a solution that keeps the givens, and false only when the puzzle has none. |

**`CowProofs`** assumes `CowAssumption`: finitely many processes and pages, at least one virtual page, names of nothing that are not
values or contents, a program that fits. The proof has three invariants, each kept by one lemma per action, each using those before it.

- `ShapeInv`, of what page tables map. `PathShape` says of each path, by where it stands: which calls it may serve
  (`ServesCall`), the bounds of its loop (`LoopBounds`), the pages its table maps so far (`Progress`: the loops of `uvmalloc`, `uvmcopy`
  and `uvmunmap` all go upwards, and a failed one hands `uvmunmap` the part it has done), what it leaves alone (`Keeps`) and the life of its process and
  of the child it makes or reaps (`Life`). `Tree`: inner tables go after their entries. `KidsApart`: a child belongs to
  one path, which is why two paths never work on one table although neither holds a lock (`Elsewhere`). `BootAlone`: nobody runs before
  `userinit()` is done, and it finds memory. A step changes only what its path may reach, so that only the path and its child
  have to be looked at (`LocalStep`).
- `Counted`, the contract's `RefInv`. A page counts for an entry before `mappages()` has written it (`map`, `remap`), and `uvmcopy()` writes
  an entry before `krefpage()` counts it (`forkref`): `Held` is what the tables say but for these, which `HeldAt` says entry by entry. Each step
  redirects one of these references in the way one operation of `PageRefs` does (`TakesPage`, `DropsPage`, `SharesPage`, `CopiesPage`), or none
  (`Quiet`). That is `ReferenceCounting`. In `PageRefs`, moving one reference changes the number of a page's holders by at most one
  (`CountAfterMove`) and each operation changes the count by as much. `FreeIsUnreferenced` alone is not inductive: a page with a count too low would reach the freelist
  with a holder left.
- `OwnerInv`: what can be stored to, or is about to be mapped, has one reference, and no entry is writable and
  copy-on-write at once. It is kept because `uvmcopy()` takes `PTE_W` from the parent before the child has its entry (`ForkMapOwners`),
  `kcopy_n_deref()` hands the page itself over only when the count, which is exact, is one (`SoleIsAlone`), and `kalloc()` gives out pages
  that nothing refers to (`FreshPage`). `PageTableSound` needs both this and `ShapeInv`.

- `ContentInv`: what the pages under construction hold. `Zeroed`: those of `uvmalloc()` hold zeroes; `Copied`: those of
  `uvmcopy()`, shared or copied, hold what the parent's hold *now*, although another process may break a sharing meanwhile, which gives
  the parent a copy with the same contents; `Filled`: so does the page that is still to be mapped; `Loaded`: `exec()`'s image holds zeroes and, at its top, the arguments.
  It speaks of `Con`, the contents that a place refers to, for which each step of the allocator has one lemma: a page taken (`ConTakes`),
  dropped (`ConDrops`), shared (`ConMoves`) or copied (`ConCopies`) changes what one place shows at most, because by `Counted` a page that leaves
  the freelist, or joins it, has no other reference; and a store (`ConWrites`) because by `OwnerInv` what may be stored to has one. Then a step shows
  nowhere (`HiddenStep`: the entry is no program's yet), or at one page (`SeenStep`), or makes what was built visible at once: `sbrk()` in `AllocDoneShows`,
  `fork()` in `ForkDoneShows`, `exec()` in `ExecCommitShows`.

`Isolation` is false of `Spec`, because of the `copyout()` that finds no memory (the finding of `cow_oom`; the scene of
`cow_share` that runs out of memory has stores of one value only, which cannot show it). `CopyOnWriteIsInvisible` therefore has a hypothesis about the
behaviour, `[][CopyoutAsksForWrite]_vars`: `copyout()` stores only to pages that are mapped writable, as it would if `walkaddr()` asked for `PTE_W`
besides `PTE_V` and `PTE_U`. It excludes the two stores that the code makes without it: to a shared page for which there was no copy, and by `read()` to a read-only page
of the program's text, which a later `fork()` shares. TLC finds `Isolation` kept under this hypothesis in the scene of `cow_oom` too, and the theorem says that nothing
else can break it: no other interleaving, failed allocation or order of calls.

**`SchedProofs`** assumes `SchedAssumption`: at least one slot and one processor, priorities that
are integers, either loop, any subset of the calls. `IInv` is the inductive invariant:

- `TypeOK`, which has the range of every priority, and `ScanInTable`.
- `CpuInv`: a processor has a process exactly while it is busy (`OnWhileBusy`); no two have
  the same (`RunsOnce`); the process of a CPU is RUNNING, or has just stopped and the CPU holds its
  lock (`OnIsRunning`); the scan of the priority loop holds `proc_lock` and what it has chosen
  stays RUNNABLE (`ScanIsLocked`); a process that waits to be run resumes behind `swtch()`
  (`StoppedReturns`). `RunsOnce` needs all of it: a CPU takes a process that it found
  RUNNABLE, which by `OnIsRunning` no other CPU has unless it holds the lock, and in the priority loop,
  which does not look at the state again under the lock, `ScanIsLocked` keeps the answer true.
- `ForksOwnSlots`: a path in `fork()` has a slot in state USED that no other path has.
- `LockInv`: which locks a CPU may hold, by where its path stands (`LocksHeld`,
  `WaitLockHeld`). `FreedIsOffCpu` and `SchedHoldsOnlyItsLock` follow from it and `OnIsRunning`:
  `wait()` frees a zombie under its lock, which the zombie's CPU keeps until it has left its stack.

Each action has a lemma per group, and the theorems join them. Three more rest on `IInv`:

- `NoLockCycles`: who holds some `p->lock` waits for no lock (`PlockHolderWantsNothing`), and who holds
  `wait_lock` or `proc_lock` waits at most for a `p->lock` (`Wanted`), so a cycle of CPUs would be shorter than two.
- `HighestIsDispatched`: `BestSoFar` says of each scan under way that its candidate is as good as every runnable
  process it has passed, but for those that became runnable behind it; `SchedPick` ends the scan there.
- `NoExitIsLost`: `XInv` adds to `NoLostExit` that only the holder of `wait_lock` stands between the locks of
  `wait()` and `exit()` (`CriticalHolds`), that no child a scan of `wait()` has passed is a zombie (`NoneExited`),
  and that a parent `exit()` has woken has not gone to sleep again (`ParentAwake`). Most steps do nothing
  of the kind (`Calm`) and are done by one lemma.

**`SudokuProofs`** assumes `SudokuAssumption`, that boxes have at least one cell and puzzles are boards, and, as a
hypothesis, that the givens of each puzzle do not contradict each other (`GivenConsistent`). The invariant has three parts beyond types.
`Stacked`: the calls under way fill, in reading order, cells that the puzzle leaves empty, each with the number it is
at, and every other cell is as given. `Filled`: every cell before the next one is filled. `Complete`: every solution of the puzzle
either agrees with all calls under way, or agrees with those up to some call and has a larger number there, one that call will
still try. The first two make the board that is answered a solution, the third
leaves none when the stack is empty. Without `Complete` for all calls on the stack, not only the last, backtracking
would lose it. The cell that `isSafe` objects to is either given or below the last on the stack, so a solution cannot differ
from it (`TryComplete`). The Lua search needs `Filled` as well, and that the first empty cell exists, which is
`FirstOfIs`, from the well-foundedness of the natural numbers.

**`PipeProofs`** assumes `PipeAssumption`: the size of the buffer divides the modulus of the counters (512 divides
2^32), the ends have somebody at them, and the bounds of the model are naturals. The invariant has five parts. `Locked`:
the holder of `pi->lock` is the one path that is inside a call. `Closing`: an end is open while somebody refers to it, and the
page is freed once both are closed. `Filled`: the buffer holds, from `nread % PIPESIZE` on, the bytes in the
order they were written, never more than fit. `Sleeping`: whoever sleeps has a reason, or somebody at work will wake
him. The free-running counters need three facts about remainders (`ModShift`, `ModApart`, `HeldIs`): this is where it is
used that the size divides the modulus, without which the place of a byte would jump where the counter wraps. From
`Filled` the queue that the buffer stands for is known byte by byte (`CarriedIs`), a byte written is appended, a byte read
is its head, and every other step leaves it alone, which is the refinement of `ByteStream`.

**`StorageProofs`**, of the cache, assumes `BioAssumption`: finitely many processes, some buffers, and names for nobody and for no block. Nothing is assumed of how many buffers there are; `Halted` says that whoever
panics in `bget` has met a buffer in use at each place of the list. `Counted` has the reference count of a buffer as the number of
processes that use it and one for a pin, `Named` that a buffer somebody uses has a block and that no two
have the same, `Ordered` that the list is a permutation of the buffers. `Ready` and `Clean` are for the refinement of `BlockStore`: who has a buffer's lock after
`bread` sees valid contents, and a buffer nobody uses and nobody pinned is as the disk has it, so that
recycling loses nothing.

**`FileSystemProofs`** assumes `FileSystemAssumption`: finitely many processes, a root directory, calls whose paths are
paths, at least one entry of each table. The calls, the names and the sizes are arbitrary; paths may contain `..` and meet. `IInv` is the inductive
invariant:

- `TypeOK`, the type invariant.
- `PathInv`, of each process by where its path stands (`Eff`, behind the references it still has to drop): which local variables are in use (`Variables`), where the
  path goes on when a step succeeds or fails (`Continues`), and which call it serves with what left of its name (`Asked`). Without it a failed
  call could not be shown to drop what it has: `namex`, `create` and `iput` are shared by six calls, and the labels they return to decide
  who owns `ip` and `dp` next. In particular nobody returns from `iput()` into a `write` (`Continues`), whose inode belongs to the file.
- `LockInv`: the entries a path keeps locked are locked by it and valid. While `iput()` frees an inode it has let go of `itable.lock`, with
  the last reference counted still: nobody has the inode open or works in it then, and the path keeps it locked through nothing else.
- `UserInv`: a process in user space has a current directory, and a process without one has no files; who writes, or truncates at the end of
  `open`, has a descriptor for the file, which is why its `ip` needs no reference of its own.
- `CacheInv` and `InUseIsAllocated`. An entry whose inode is freed stays in the table until `iput()` has come back for it, while `ialloc()` may hand the
  inode out and `iget()` find the same entry. `CacheInv` holds through this because `ialloc()` picks an inode that is free on the disk, of
  which no valid entry is left.
- `RefInv`, `FileInv`: the counts. The four kinds of references that `RefsAreExact` adds up are put into one function `Holds`, from the variables that may
  hold a reference (`Holder`) to what they hold: then moving a reference from one variable to another, taking one and dropping one
  are changes of this function at one or two points (`CountTwo`, `CountFour`), and the number of points with a given value changes by as much as `ip->ref` does.
  `CountIsSum` gives back the sum of the four. `FileInv` does the same for the descriptors of a file, through `fork()`, where all of them move at once.
- `BlockInv`: `BlocksOwnedOnce`, and a free inode has no blocks. It is kept under `LockInv` and `CacheInv`, because `itrunc()` and `writei()` change the disk from the
  copy in the entry, which would bring blocks back if it were not what the disk says.

Each action has a lemma, and `NextInv` joins them. Where the code panics the path cannot go on in the model, so what is proved holds up to a panic;
that none is reached is `NeverPanics`, which `TreeProofs` is about.

**`TreeProofs`** has the theorems about names. They assume `FileSystemAssumption`, in particular finitely many names and at least one entry to a block, and most have a hypothesis
on the behaviour, `[][StaysInTree]_vars`: no path asks a directory that has been removed for `..`. It is needed: that entry does not hold
the parent ("What else was seen"), and where the parent is gone too the code panics. The invariant `TInv` was checked by TLC on instances of
`MCFileSystem` first. It has, besides `IInv`:

- `Tree`: `Counting` (an inode's `nlink` is the number of its names, of its subdirectories, and of calls that have counted a link whose name is not yet or no more there),
  `Blank` (a free inode has no entries), `Rooted`, `OneName` (a folder has one name, and its `..` is where that is), `InFolders`, `Attached`, `Removed` (of folders without a name), `LostWithin`, and `Acyclic`: in every set of inodes is one that lists none of the set.
  Removing a name keeps the last, and so does making, because a new folder has nothing in it.
- `Exclusive`, `Allocated`: an inode being made, or being freed, is referred to by one variable of one process. `Locking`: who keeps what locked.
- `Stands`: what a call knows between its steps: what `..`, the name sought and the inode found have to do with each other (`Homes`, `Seeks`, `Unlinks`, `Makes`, `Lets`). For instance `unlink`
  holds the parent while it waits for the inode, so the entry it is about to clear still names it.

`LinkCountsAreExact` is `Counting` where nobody owes anything. `InodeLocksHaveNoCycle`: who holds one inode and waits for another waits for a child of the one it holds, so a cycle of waiters would be a
cycle of folders. `InodeTableSuffices`: references are in one to one correspondence with `Holder`, six variables of each process and the open files; with more slots than these, or one for each inode, `iget()` finds one.
Neither holds of xv6's numbers (50 slots, 200 inodes, 64 processes, 100 files): there "iget: no inodes" is a limit of the
system, and `PathsNeverPanic` takes the size of the table as its hypothesis (`TableIsLarge`).

**`StorageProofs`**, of the log, assumes `LogAssumption`: the log holds a reservation, `sb.nlog` is no less than `LOGSIZE`, and calls
write fewer blocks than they reserve or the log has one block more for its header (see "What else was seen": with neither, the
panic of `log_write` is reached). The reservation is counted one by one: `Owed` has a pair of a
process and a number for each block a call in progress may still log, and `Room` says that these and what is logged
fit in the log. `begin_op` may admit a call because the product of `outstanding` and `MAXOPBLOCKS` bounds `Owed`; each
`log_write` takes one pair out. `Phases` ties the place of the commit to the header on the disk, `Pins` says that exactly the
logged blocks not yet installed are pinned, `Coherent` that a cached block without a pin is as on the disk, and
`Copied` how far the copies to the log and home have come. The refinement of `JournaledDisk` turns on one fact of the
code, absorption: no block is in the log twice (`Listed`), so what recovery would copy to a
block is one value (`RecoveredIs`). The write of the header is the commit (`WriteHeadCommits`), the others
change neither what system calls see nor what a restart would find.

**`StorageProofs`**, of the driver, assumes `VirtioAssumption`: at least three descriptors, as many as divide the modulus of the
indices (8 divides 2^16), and names for processes and blocks that differ. The invariant has seven parts. `DiskTypes`. `Callers`: who waits for the disk has a buffer of his own, and
only the holder of `vdisk_lock` is about to publish. `Chained` and `Private`: a request under way is a chain of three descriptors, chains share none, and the
free ones are the rest; this is `ChainsArePrivate`. `DiskPlaced`: the entries of the driver's ring not yet taken, the chains the device has in
hand, and the entries of its ring not yet looked at share none, each is there once, and each belongs to a caller who still waits. `Publishing`: the entry behind the index
is that of the request being published. `Settled`: what is answered is done. That a ring never overflows follows from `Distinct` and
the pigeonhole principle: as long as one descriptor is elsewhere, fewer than `NUM` entries are in it (`RingHasRoom`), so an
entry written behind the index overwrites none. The entries are counted from an index that wraps, and only because the size divides the modulus is the place
of an entry the same before and after (`GapIs`). A caller who finds its buffer released is in none of the three places, so its block is transferred, which is `ReturnsTheBlock`.

**`ConsoleProofs`** assumes `ConsoleAssumption`: processes that are not CPUs, buffers that are not empty, sizes less than the modulus of the
indices and dividing it (128 and 32 divide 2^32 and 2^64), a device whose FIFO holds two bytes if there are two CPUs, and names for nobody and for the locks that differ from the CPUs'.
Which keys are hit, how many, and what is asked for is arbitrary. No property of the runs is inductive by itself; `IInv` is, and has these parts:

- `Sited`, `Kept`: where each kind of thread can be, and the types. `Placed`: a process is on a CPU exactly while it is in the kernel and not asleep,
  one at most on each, and an interrupt handler is above it only in `consolewrite()`, outside its locks.
- `Counted`: the `noff` of a CPU is the number of `push_off()` that the one thread running on it has not undone (`Depth`), and its interrupts are on exactly when that
  is none and no handler runs; what the last `pop_off()` will restore (`intena`) is what that thread found. Each step is of one of six kinds as far as this is concerned (`Kinds`): a thread stays, goes into the
  kernel, leaves it, a handler starts, a handler returns, or nothing of it changes. `KindOf` says so action by action, and `KindPlaced` proves the two parts from the kinds alone.
- `Locked`: a lock is held for the CPU of the one thread that stands between its `acquire()` and its `release()`. With `Counted`, a thread under a lock has interrupts off,
  therefore nothing runs above it, therefore it is alone under the lock (`OneHolder`, `Alone`): `InterruptsMatchLocks`.
- `Fitting`: `uartputc_sync()` and `uartstart()` write one register and share no lock. Each writes after it saw the device idle, one holds `cons.lock` with
  interrupts off and the other `uart_tx_lock`, so they are on two CPUs: what is in the FIFO and what is about to be
  written never exceeds a FIFO of two, and a byte of `write()` comes only behind echoes.
- `Numbered`: the bytes in the ring are the consecutive numbers behind what the device has been given, wherever the indices have wrapped to (`Ring`, `ModShift`, `ModApart`); with `Fitting` this gives `SendsInOrder`.
- `Relied`: while the ring is not empty somebody is on his way to `uartstart()`, the device is busy or an interrupt is pending.
- `Editing`: finished and edited characters fit in the buffer together, and there is still room for the character that is being echoed, because `cons.lock` is held since `consoleintr()` looked.

The refinement of `LineDiscipline` needs `LinesInv` besides: what comes from the device, is in a handler's hand, lies between `r` and `e`, or was got, are characters that were
typed, and a read that goes on has not got what ends a line. `Text` is what `m` places of the buffer from an index on contain; the lemmas about it (`TextTail`, `TextFront`, `TextAppend`, `TextJoins`) carry
reading, erasing, storing and finishing from indices that wrap over to sequences. `LinesStep` then has each of the actions: six are operations of the line discipline, the others leave it alone. In particular a character is
always stored where there is room, and its line is finished exactly when the line discipline says so (`StoreIsInsert`).

What stays with TLC: every liveness property (`CallsReturn` and the like), for liveness and `ENABLED` are beyond the prover; `FileBytes` (`BlocksAreExact` and its refinement), whose inductive invariant
has not been written down; and the programs (`MCPrograms`), which are induction over data: that the parser of the shell computes what
`ShellMeaning` says for every line, and that the Sudoku search ends. `Isolation` without its hypothesis is false, as said.

## What else was seen

These are places where the code and its documents, or its own intent, part ways. Each
was reproduced by an instance of these modules, or is plain from the
lines named; no run of the project is spent on them.

- In the line editor of the round-robin kernel (`sh.c:168-276`): an erase or a recall with the cursor inside the line leaves characters behind it that the
  next character put at the end, or the newline, brings back, and they run with the command (`cut` and `Continues` of `EditedLine`); where they fill the buffer, the newline goes into
  its last cell; a line as long as the name completed last is taken for that name, and the
  rest of it is erased; if that completion fails and Tab is hit again on such a line, `strlen(buf) - tabidx` wraps and `memset()` kills the shell (`TabKills`,
  which `EditedLine` allows as `Die`); a line that ends with the buffer or the input loses its last character (`CutOff`); and a file
  name of 14 characters has no NUL behind it in the `dirent` that `findcmds()` copies.
- `grep` ends at a line that does not fit its buffer, and does not print a last line without a newline (`grep.c:18`, `:22`).
- `copyout()` asks for `PTE_V` and `PTE_U` and not for `PTE_W` (`walkaddr`, `vm.c:370`), so a
  `read()` into a text page changes it. `COW-PROJECT/README.md:54` wants a process that
  writes to such a page killed.
- `log_write()` panics at `log.size - 1` blocks (`log.c:219`) while `begin_op()` reserves up to `LOGSIZE`, and
  `mkfs` gives the log `LOGSIZE` blocks with its header. If the calls in progress
  write every block they may, the last one panics. The calls of `fs.c` and
  `sysfile.c` stay below what they reserve, which is `OpBlocks < MAXOPBLOCKS` in the run.
- The priority scheduler starts at slot 0 each time and replaces its candidate only for a
  strictly better one (`proc.c:488-498` of the round-robin project): of two runnable
  processes of the same priority the one in the later slot never runs while the
  earlier one keeps yielding. `RunnableRuns` is checked for the other loop only.
- A process that becomes runnable after the scan has passed its slot is passed over for one
  of lower priority until the next dispatch; `DispatchesHighestSeen` excepts it.
- `create()` and `sys_link()` do not ask whether the directory they have looked up is still
  linked (`sysfile.c:251`, `:151`; `dp->nlink` is not tested). If it is removed between
  `nameiparent()` and `ilock(dp)`, or is the current directory of the caller, the new
  file gets a link count and no name that a path reaches, and is never freed.
  `LinksAreNames` excepts such inodes (the history variable `lost`).
- The `..` of a removed directory does not hold its parent. When the parent is removed as well, a path
  through `..` of a process that still works in the child reaches a free inode, and
  `ilock()` panics "no type" (`fs.c:315`).
- `mkfs` rounds the size of the root directory up by a whole block, also when it is a
  multiple of one (`mkfs.c`, end of `main`): with exactly that many entries `ls /` would read a hole,
  and `balloc()` log a block outside any transaction. The images that are built are far from it.
- `filewrite()` returns -1 for a write that failed after some of its chunks (`file.c:175`), though the bytes of those are stored
  and the offset has moved. A copy that fails in the middle of a block leaves its bytes in the
  cached block and not in the log (`fs.c:524`): they are in the file until the block is recycled. `ByteFile` says
  so (`loose`).
- `pipewrite()` returns when its process is killed after it has stored bytes and wakes nobody (`pipe.c:84-87`): a reader
  may sleep on a pipe with bytes in it. `SleepersHaveReason` excepts pipes of which a writer was killed.
- `bget()` panics "no buffers" when all 30 are in use. `NBUF` is `LOGSIZE`, a transaction may pin that many, and `fileread()` reads blocks
  outside any transaction, as up to 64 processes may: nothing keeps the sum below `NBUF`. `bio_share` reaches it with three buffers.
- `iappend()` of `mkfs` does not ask whether the image has a block left (`mkfs.c:270`); `FileBytes` starts from files that fit, its bound `NBLOCKS`.
- `uartputc_sync()` and `uartstart()` share no lock; that no byte is lost rests on the FIFO of the
  device, which has room for two bytes.
- The round-robin kernel takes the character after an escape and one more key for a left arrow, whatever it
  is (`console.c`, `skipchar`).
- In the round-robin kernel's `sh.c`: `cd foo` cuts the line twice and changes to `fo`. In both shells: `a & b` is a syntax error, `>>` writes over the file from its
  start, the first of two redirections counts, and a failed `fork1()` in `main()` ends the shell.
- `malloc()` takes an `uint`: a request near 2^32 wraps `nunits` to 1 and gets a
  block of no bytes, and one of 2 GB or more makes the argument of `sbrk()` negative.
- `equals()` of the C++ solver tests and advances the wrong index (`Sudoku.cpp:87`): it
  compares first columns only.
- A board whose givens contradict each other is reported solved (`Sudoku.cpp:97`):
  `isSafe` looks at the cell being filled only. The run's puzzles have consistent givens.

## What is not modelled

- The round-robin kernel's `trace`, `sysinfo` and the shared read-only page, and the dispatch of system calls: straight-line code
  without a second actor.
- Assembly (`swtch`, the trampoline, interrupt vectors), start-up, the interrupt
  controller beyond claim and complete, `printf`, string functions.
- The tests (`usertests.c`, `grind.c`, `cowtest.c`, `schedulertest.c`, `sysinfotest.c`), more than a quarter of the
  code: lists of calls with the answers they expect, read for what they expect. The files that CMake generates under
  `cmake-build-debug`. The other user programs: loops over `read` and `write`.
- The Prolog solver, whose search belongs to the constraint library.
- Of the file system: `stat`, `mknod` and devices, pipes as files; the entry of the file table that
  `sys_open` takes and gives back at once when the process has no descriptor free. Of `mkfs`: the super block and the directories of the image.
- The copies of one file in the two kernels are modelled once; the map names the copy that was read, so that
  the other counts as unmapped.

## Plan

1. Done: the modules and runs above, and the theorems listed.
2. Composition: `Log` over `Bio` (a pinned buffer is what keeps a logged block in memory);
   an abstract file tree that `FileSystem` implements; `Console` under `Shell`.
3. Proofs: `BlocksAreExact` of `FileBytes`; `HeapIsTiled` of `Umalloc`, whose ring is a finite set in order.
