# A TLA+ verification project for the xv6 course kernels

The repository holds four versions of xv6, a small Unix-like kernel for x86
multiprocessors, each with one piece of course work in it: `project_1` (a system
call that lists processes), `project_2` (null-pointer protection and shared
memory pages), `project_3` (kernel threads: `clone`, `join` and a user library)
and `project_4` (a priority scheduler, checksummed files and a file system
checker). This directory models the parts of these kernels in which processes,
CPUs, interrupts, the disk and crashes meet, checks them with TLC and proves the
most important results with TLAPS for every size of the system.

Most of the kernel is the same file in the four directories: `log.c`, `bio.c`,
`ide.c`, `sleeplock.c`, `spinlock.c`, `pipe.c`, `file.c`, `kalloc.c`, `trap.c`,
`console.c`, and what is said of these files holds for the four kernels. Where a
file differs, the model takes the copy in which the part is as simple as it can
be or in which the course work is: `FileSystem` and `Console` refer to
`project_1` (the file system before checksums), `Vm` and `Umalloc` to `project_2`,
`Threads` to `project_3`, the others to `project_4`.

## 1. Inventory

| part | state | operations | what is hard |
|---|---|---|---|
| spin locks, `spinlock.c` | `locked`, `cpu` of a lock; `ncli`, `intena` and the interrupt flag of a CPU | `acquire`, `release`, `pushcli`, `popcli`, `holding` | interrupts between any two instructions, stacks that move between CPUs in `swtch` |
| sleep locks, `sleeplock.c` | `locked`, `pid`, the spin lock inside | `acquiresleep`, `releasesleep` | the hand-over from `lk->lk` to `ptable.lock` in `sleep()`, kill as a spurious wakeup |
| buffer cache and IDE driver, `bio.c`, `ide.c` | buffers with `B_VALID`, `B_DIRTY`, `refcnt`; the MRU list; the disk queue | `bread`, `bwrite`, `brelse`, `iderw`, `idestart`, `ideintr` | sharing, eviction, a queue served by an interrupt handler |
| write-ahead log, `log.c` | in-memory header, `outstanding`, `committing`; header and log blocks on disk | `begin_op`, `log_write`, `end_op`, commit, recovery | crashes between any two disk writes, a full log, group commit |
| pipes, `pipe.c` | ring, `nread`, `nwrite`, open flags | `pipewrite`, `piperead`, `pipeclose` | several readers and writers, wrap-around, freeing the page that holds the lock |
| process table and scheduler, `proc.c` | `ptable`, `c->proc`, `nextpid` | `fork`, `exit`, `wait`, `kill`, `sleep`, `wakeup`, `yield`, `setpri`, `scheduler` | several CPUs, `ptable.lock` handed through `swtch`, orphans, starvation |
| timer and time, `trap.c`, `sysproc.c` | `ticks`, tick accounts | timer interrupt, `sys_sleep`, `sys_uptime` | two locks, wrap-around, a tick between test and sleep |
| kernel threads, `project_3/proc.c`, `kthread.c` | shared page directory, user stacks, user lock | `clone`, `join`, changed `exit` and `wait`, `thread_create`, `lock_acquire` | threads running while the process exits, partial failure |
| shared pages, `project_2/vm.c`, `exec.c` | `sm_addr`, `sm_counts`, `shared_page` | `shmem_access`, `shmem_count`, `fork`, `exec`, `wait` | counters without a lock, failure paths |
| files and inodes, `file.c`, `sysfile.c`, `fs.c` | file table, inode cache, bitmap, inodes and directories on disk | `open`, `close`, `dup`, `link`, `unlink`, `iget`, `iput` | reference counts under several locks, last close racing a new open |
| checksummed files, `project_4/fs.c` | checksum in the top byte of an address | `readi`, `writei`, `itrunc`, `stati` | early returns with a locked buffer, addresses with and without checksum |
| file system checker, `project_4/linux/fsChecker.c` | a disk image | its tests | sequential |
| memory, `kalloc.c`, `vm.c`, `exec.c` | free list, page directories | `kalloc`, `kfree`, `copyuvm`, `allocuvm`, `freevm`, `exec` | failure half-way |
| console, `console.c` | input ring with `r`, `w`, `e` | `consoleintr`, `consoleread` | interrupt against reader, full ring |
| boot, interrupt controllers, keyboard, serial line, memory disk, `mkfs`, shell and user programs | | | sequential or pure I/O |

How they interact. System calls run in the kernel on the process's own stack and
may be interrupted wherever no spin lock is held. Blocking is `sleep(chan, lk)` and
`wakeup(chan)`; both take `ptable.lock`. Sleep locks are built on them, the buffer
cache on sleep locks, the log on the buffer cache, inodes and files on the log,
pipes directly on `sleep` and `wakeup`. The scheduler of a CPU and a process pass
`ptable.lock` to each other through `swtch`. The disk and the timer call in
through `trap()`.

The properties that make each part correct are in section 4. The list `hazards` of
`PROJECT.json` names the lines where things can go wrong.

## 2. Plan

Done, in this order (most important first):

1. `Log` with `AtomicDisk` and `LogProofs`;
2. `Spinlock`, then `SleepLock` on top of it;
3. `Bcache` (cache and driver composed), which uses sleep locks as `SleepLock`
   shows them to be, with `BcacheProofs`;
4. `Pipe` with `ByteChannel`, and `LiveProofs` for it and `SleepLock`;
5. `Proc` with `ProcessesProofs`;
6. `Clock`, which adds to the scheduler the clock and its lock, and
   `InterruptsProofs` for it and `Spinlock`;
7. `FileSystem`: bitmap, inodes, directories, open files and the system calls on
   them, on top of a log as `Log` shows it to be;
8. `Threads`: the process table of `project_3`, with shared page directories;
9. `Vm`: pages and address spaces, through every failure, with the shared pages;
10. `Console` with `LineDiscipline` and `ConsoleProofs`;
11. `Umalloc` and `FsChecker`, the two sequential algorithms worth a model.

Left, in this order:

1. proofs for `Threads`: `AddressSpaceAlive`, `SlotInv` and `ReapersMustWait`, for
   programs that join their threads before they exit. The invariant has to say that
   every page directory has one process that owns it and that threads have the
   directory of a living older slot; a process without threads then has its
   address space for itself;
2. proofs for `Vm`: `FramesConserved` and `SpaceInv` without `Reach`, by counting the
   pages of each process and following what each operation takes or gives back;
3. proofs for `FileSystem`: `IcacheInv` and `BlocksOwnedOnce`, then `NoInodePanic` for
   calls without `..`;
4. in `FileSystem`, `dup` with `file->ref`, the file table of the whole system and the
   descriptors of `pipe()`; in `Threads`, `kill`.

A model of checksummed files was planned and given up, see section 6.

## 3. Modules

Each module's header says what one step is. In general, code between `acquire`
and `release` of a spin lock is one step, and everything that another CPU or an
interrupt could see in between is separate steps. That this granularity is sound
is what `Spinlock` shows: locks exclude, and no interrupt comes while one is held.

| module | models | steps |
|---|---|---|
| `Spinlock` | `spinlock.c` with `sched`, `scheduler`, `forkret` | each instruction group of `acquire` and `release`; interrupts; `swtch` |
| `SleepLock` | `sleeplock.c` with `sleep`, `wakeup`, `kill` | each lock operation |
| `Bcache` | `bio.c` and `ide.c`, composed; the pin that `log_write` sets | regions under `bcache.lock` and `idelock`; disk completion, with or without an error |
| `Log` | `log.c`; eviction by `bget`; `writei`'s second write | regions under `log.lock`; every single disk write; crash at any point |
| `AtomicDisk` | abstract: a disk whose contents jump from one group of finished calls to the next | |
| `Pipe` | `pipe.c` with `sleep`, `wakeup`, `kill` | byte by byte, with the lock held across steps |
| `ByteChannel` | abstract: a bounded queue of bytes | |
| `Proc` | `proc.c` of `project_4` | regions under `ptable.lock`, which is handed through `swtch`; `fork` in three parts |
| `Clock` | timer branch of `trap.c`, `sys_sleep`, `sys_uptime`, the clock reads of the `project_4` scheduler | each acquisition of `tickslock` and `ptable.lock` |
| `FileSystem` | `fs.c`, `file.c`, `sysfile.c` of `project_1`, the image of `mkfs` | regions under `icache.lock`; regions under the sleep lock of an inode, or of two; crash between calls and in the middle of them |
| `Threads` | `fork`, `clone`, `exit`, `wait`, `join`, `growproc` of `project_3` | regions under `ptable.lock`; `fork` and `clone` in three parts |
| `Vm` | `kalloc.c`, `vm.c`, `exec.c`, and `fork`, `exit`, `wait`, `growproc`, `shmem_access` of `project_2` | each page that a call asks for |
| `Console` | `consoleintr`, `consoleread` | a key; each test, sleep and character of a reader |
| `LineDiscipline` | abstract: a queue of finished lines and a line being edited | |
| `Umalloc` | `umalloc.c` | a call of `malloc`, `free` or `sbrk` |
| `FsChecker` | `linux/fsChecker.c` | a field of the image is damaged; the whole check |
| `LogProofs`, `InterruptsProofs`, `BcacheProofs`, `ConsoleProofs`, `LiveProofs`, `ProcessesProofs` | proofs, see section 5 | |
| `Remainders` | lemmas on remainders, for counters that wrap | |
| `MCStorage`, `MCInterrupts`, `MCLive`, `MCProcesses` | the instances of several modules that one run explores | |
| other `MC...` | symmetry sets, requests, images and the lock order, for TLC | |

Names follow the C code. State that is history only (for a property) is marked in
the declarations: `latest` and `failed` in `Bcache`, `elapsed` and `ran` in
`Clock`, `wrote` in `Log`, `missed` in `Pipe`, `lost` in `Threads`, `asked` in
`Umalloc`. An operator
whose name says what is wrong with it (`ExitNoReparent`, `BeginOpUncounted`)
precedes the definition it is a faulty variant of; replacing one by the other must
break a property.

The modules that explore several instances have a variable `which`, chosen in the
initial state. A behaviour belongs to one instance and the others keep their
initial state: the sets of states add up and do not multiply. This composes
nothing; it groups by subject components that share no state, or that belong to
different kernels. Components that do interact are composed inside a module:
cache and driver in `Bcache`, the log with eviction and with crashes in `Log`,
inodes with the group commit in `FileSystem`, scheduler and clock in `Clock`,
pages and processes in `Vm`.

Correspondence worth knowing:

* `Log`: `WriteThrough` is the `bwrite` that `project_4` added to `writei` after
  `log_write` (`fs.c:624`); it is FALSE for `project_1` to `project_3`. `LogBlocks`
  is `sb.nlog`, the header included; `mkfs` sets it to `LOGSIZE`. `OpBlocks` is the
  number of distinct blocks that one call logs; `filewrite` splits its work
  (`file.c:133`) so that it stays two or more below `MAXOPBLOCKS`.
* `Spinlock`: the code above the locks is any program that takes locks in a fixed
  order with `ptable.lock` last. The scheduler of `project_4` breaks that order,
  which is the subject of `clock_deadlock`. A handler may interrupt any code outside
  a critical section, also a process that has just left `forkret`.
* `Proc`: `cur[c]` is `c->proc`; `lock` is the CPU that holds `ptable.lock` between
  two steps; `pos` and `search` are `p` and `search_pri` of the scheduler.
  A system call that sleeps for another reason than `wait` is `Sleep`. `KillPids`
  leaves out 1: nobody kills `init`, which would panic. With `Priority = {1}` it is
  the scheduler of the other projects; with `Priority = {}` nobody calls `setpri`.
* `Clock`: `elapsed` counts the ticks since `sys_sleep` read `ticks`, up to `n`. Which process the scheduler takes does not matter there, any may be
  taken. `TickMod` stands for 2^32; `SleepArg` are the values of `n`.
* `Pipe`: `UintMod` stands for 2^32, a multiple of `PIPESIZE` as in the code.
  `missed` records that a killed writer has left without waking the readers
  (`pipe.c:86`), until the next wakeup of the readers.
* `FileSystem`: `proc[p].pc` is the place in the call of `p` where it holds or awaits
  a lock; `cur`, `ip` and `put` are its pointers to inodes, each of which counts in
  `ref`. `disk` is what `bread` returns; it becomes `committed`, the image a
  crash leaves, when the last call in progress reaches `end_op`, as `Log` shows. A
  directory keeps one block, names are a function from names to inode numbers, a
  file is its set of blocks. `Requests` are the calls that programs make.
* `Threads`: each slot has its own copy of the size, `sz`, and `pages` says what the page
  directories really map. Any thread may fork, create threads, and call `sbrk` with
  either sign. With `Disciplined = TRUE` a process joins its threads before it exits,
  as the programs in the repository do; with FALSE it need not. Where the code panics
  there is no step.
* `Vm`: `freelist` is the length of the free list; who owns which physical page is
  recorded by tables and pages of the spaces, `space` for the present one and `new`
  for one under construction. Addresses are counted in pages: `KERN` is the page at
  `KERNBASE`, and shared page i is mapped at page `KERN - i`. There is less memory than address
  space, as in the kernel (224 MB against 2 GB), so an `sbrk` that reaches the shared
  pages fails for want of memory. With `Reach = FALSE` a process does not ask for memory up
  to a shared page that it has mapped; with TRUE it may. A process that shrinks to nothing faults and
  exits, `init` apart. `shmem_access` is called where there is memory for the page
  table it needs; it panics otherwise.
* `Console`: `Letter` stands for characters without meaning; `UintMod` stands for
  2^32, a multiple of `INPUT_BUF` as in the code.
* `Umalloc`: addresses are counted in headers, `base` is 0. `Bytes` has no values close
  to 2^32, where `nunits` overflows.
* `FsChecker`: blocks are read as the code reads them, an indirect block also as
  directory entries and file data as zeros. Every field, not more than `MaxFaults`
  of them at a time, may be damaged; an address beyond the image is one value,
  `SIZE`.

## 4. Runs

All bounds are the constants of the `.cfg` files.

| run | instances and bounds | checks |
|---|---|---|
| `storage` | `Log`: 2 calls, 3 blocks, 2 values, log of 8, 4 per call | `AtomicAcrossCrashes`: the log implements `AtomicDisk`, with crashes anywhere, also in recovery; `IdleIsDurable`: what finished calls wrote survives; `Reservation`: running calls never hold more of the log than there is, though `begin_op` counts only what they have promised; `TypeOK` |
| | `Log`: 3 calls, 3 blocks, log of 4, 2 per call, of which 1 is used | `LogNeverPanics`: neither `log_write` ("too big a transaction") nor `end_op` panics |
| | `FileSystem`: 2 processes, 3 calls of 16 kinds, 1 crash, 4 inodes, 4 blocks | `IcacheInv`, `BlocksOwnedOnce`, `NoInodePanic`, `CommittedTree`, `CirclesNeedIput` |
| | `FsChecker`: 4 images, at most 2 damaged fields | `VerdictRight` |
| `interrupts` | `Spinlock`: 2 CPUs, 2 processes, 2 locks | `MutualExclusion`, `LockInv`, `NoLockPanic` |
| | `Clock`: 2 CPUs, 2 processes, ticks modulo 4, sleeps of 0 and 3, `setpri` | `SleepsExactly`, `TicksChargedOnce` |
| | `Bcache`: 2 processes, 3 buffers, 4 blocks, 2 values, 1 pinned | `BufferInv`, `ReadsLatest`, `QueueInv` |
| | `Console`: 2 readers, ring of 2, indices modulo 4 | `IsLineDiscipline`: the ring implements `LineDiscipline`; `ConsoleInv` |
| `live` | `Pipe`: 1 reader, 1 writer, writes of up to 3 bytes, ring of 2, counters modulo 4 | `FirstInFirstOut`: the pipe implements `ByteChannel`; `PipeInv`, `CloseReleases` |
| | `SleepLock`: 3 processes | `ExclusiveHolder`, `NoLostWakeup`, `SleeperRuns` |
| | `Log`: 3 calls, 2 blocks, log of 2 with 1 per call, `WriteThrough` | `SleeperWoken` |
| | `Proc`: 2 CPUs, 3 slots, 2 priorities | `NoStarvation` |
| `processes` | `Proc`: 2 CPUs, 4 slots, 4 pids, a kill | `OneCpuPerProcess`, `ParentAlive`, `WaitersMustWait`, `TypeOK` |
| | `Threads`: 2 CPUs, 4 slots, 4 pids, 2 pages, disciplined programs | `AddressSpaceAlive`, `SlotInv`, `ReapersMustWait` |
| | `Vm`: 3 slots, 11 pages of memory, 2 shared pages, programs of 3 pages, `KERN` 13, no `Reach` | `FramesConserved`, `SpaceInv` |
| | `Umalloc`: a heap of 8 units, 3 at a time | `HeapInv` |
| `log_uncommitted` | 2 calls, 2 blocks, `WriteThrough` | violation of `NoUncommittedUpdateOnDisk` |
| `proc_priority` | 1 CPU, 3 slots | violation of `HighFirst` |
| `clock_deadlock` | 2 CPUs, 2 processes | violation of `NoLockCycle` |
| `iput_leak` | 2 processes, 2 calls | violation of `UnlinkedIsFreed` |
| `threads_zombie` | 2 CPUs, 4 slots, any programs | violation of `ZombieStays` |
| `threads_size` | 2 CPUs, 4 slots, disciplined programs | violation of `GrowReturns` |
| `shm_freed` | 3 slots, `Reach` | violation of `FramesConserved` |
| `shm_stale_flag` | 3 slots | violation of `FlagsAreMappings` |

A property whose name ends in `Inv` is a conjunction of named parts, each with its
own comment in the module, and contains the module's type invariant:

* `BufferInv`: a block has one buffer (`OneBufferPerBlock`), `refcnt` is exact, the MRU
  list has every buffer once, no panic. `QueueInv`: a sleeper in `iderw` has a request
  in the queue, a request has one sleeper.
* `LockInv`: `ncli` counts the locks, interrupts are off under one, and come back with
  the stack that released its last.
* `SleepsExactly`: every tick wakes all sleepers and those that are not due sleep again;
  between two ticks nobody sleeps who is due (`SleepersNotDue`); and whoever leaves
  `sleep(n)` has slept n ticks, or has been killed.
* `CloseReleases`: a process in a call on a pipe whose other end is closed returns from
  the call. That it is not asleep is already in `PipeInv`; this adds that it
  gets to the end. It is stated as: again and again the process is in no call or the
  other end is open. An end stays closed for as long as anybody uses the pipe, so that this
  says the same and is cheaper to check.
* `PipeInv`, `ConsoleInv`: nobody sleeps who could go on; the page of a pipe is not
  used after it is freed; a full input ring has been handed to the readers. The one
  exception, which `PipeInv` names with `missed`: a reader may sleep over the bytes
  of a writer that was killed in the middle of its call.
* `IcacheInv`: `ref` counts the pointers, an inode is cached once, unlocked copies are
  what is on disk.
* `SlotInv`: slots of the table are not lost by `fork`, `exit` or the reapers, a `clone`
  that rejects its stack apart.
* `SpaceInv`: between two calls `p->sz` says exactly which pages there are, and no shared page
  is mapped without its flag in `p->shared_page`. The converse, that a flag means a
  mapping, is false (`shm_stale_flag`).
* `HeapInv`: the free list is in order and merged, blocks tile the heap, and are large
  enough.
* `VerdictRight` likewise: accepted images are sound, flat consistent images are
  accepted, and nothing else is accepted.

Why the bounds are enough. Two calls give every order of `begin_op`, `log_write`,
`end_op` and commit, absorption of a block logged twice and calls that wait for
a commit or for room; three blocks are more than one call writes, but too few to
come near the end of a log of eight. That is what the second instance is for: two of
three calls that each reserve two blocks take up a log of four, whose header is one of
them, and with three blocks to log an off-by-one in `begin_op` lets a third call join
them and makes `log_write` panic. In `live` two calls fill the log and a third must wait.
Three file system calls by two processes reach a `create` in a directory that is being
removed, the last close of a file whose name is being removed, and a crash in the middle
of each; the sixteen kinds have every error path of the calls among them. A damaged field
makes each of the checker's tests fail, two can compensate for each other.

Ticks modulo four let a sleep of three be woken twice before it is due, and
the counter wrap at any point of it; the longest sleep is one less than the modulus, as in
the code. Four blocks and three buffers force eviction, two processes and one pinned
buffer are the most that three buffers can serve. A ring of two with counters modulo four
makes every combination of full, empty and wrapped, for the pipe and for the console; a
write of three bytes does not fit into it, so that a writer sleeps in the middle of its
call. One process at each end of the pipe is enough there: with more, the proof stands for
the run. Four slots are the least in which a process whose parent is not `init` leaves a
zombie to `init`, and a process with a thread leaves one too; pids are used up after that.
Eleven pages are too few for three processes of three pages, so that every call runs out of
memory at every page it asks for, and they end before the shared pages begin at page 11.

`storage` uses symmetry for processes and blocks and `processes` for CPUs, which the
specifications treat alike; `Log` and `FileSystem` share the set of processes, which both
treat alike. No run with a liveness property uses it. `interrupts` has a `VIEW` instead. It
leaves out what makes no difference to the steps and the properties: of the accounts of
`Clock`, which no step reads, it keeps for each process by how much their sum differs from
the ticks it had, and of `Bcache` it leaves out the names, so that a buffer is its place on
the list and blocks and processes in the same situation are counted. Steps and properties
of `Bcache` do not tell names apart.

Deadlock is checked in every passing run. Where an instance really may stop, the module has a
step `Halted`: in `MCStorage` when the check of an image is finished, and when two file
system calls wait for each other (below); in `MCInterrupts` when the two CPUs are in the
cycle of `clock_deadlock`, and only then.

### Findings

* `log_uncommitted`. `writei` of `project_4` writes a block to its home location
  right after logging it. A crash before `end_op` keeps half of the system call;
  `log.c:12` says that this cannot happen. Recovery stays correct for committed
  calls.
* `clock_deadlock`. The scheduler of `project_4` calls `sys_uptime()` with
  `ptable.lock` held; the timer handler and `sys_sleep` take the locks in the other
  order. With two CPUs both can spin for ever. The Makefile of `project_4` starts
  one CPU unless `CPUS` is set (line 224), and there the deadlock cannot happen;
  the kernel supports up to `NCPU` = 8.
* `proc_priority`. The scheduler looks for the highest priority once per pass over
  the table. A high-priority process that becomes runnable behind the current
  position waits until the low-priority ones after it have run, which the README
  excludes.
* `iput_leak`. `iput` looks at `ref` under `icache.lock`, gives the lock up, and
  decrements later. Two processes that drop the last two references to an unlinked
  inode both see the other's reference: neither frees it, and its blocks are lost
  for good. `fs.c:328` says that the last one frees it.
* `threads_zombie`. `exit` of `project_3` makes zombies of all threads of the process,
  also of one that runs on another CPU. That one goes on, and is RUNNABLE again when
  it yields. Programs that join their threads first do not meet this, which is what
  `Disciplined` means.
* `threads_size`. The threads of a process share its pages, and each has its own `p->sz`.
  `growproc` updates that of the caller; the loop that would update the others is
  commented out (`project_3/proc.c:173`). After one thread has grown the space, an `sbrk` of
  another, `malloc` included, maps a page a second time and the kernel panics with
  "remap". In the same way a `fork` by a thread after another has shrunk the space
  panics with "page not present".
* `shm_freed`. `allocuvm` lets a program grow up to `KERNBASE`, past the shared pages. Memory
  runs out on the way, and `deallocuvm` takes back all that is mapped below the new
  size, among it the shared pages of the process: they are put on the free list
  while other processes map them. `freevm` avoids exactly this (`vm.c:299`). For
  programs that do not ask for so much memory `FramesConserved` holds.
* `shm_stale_flag`. `copyuvm` sets the child's `shared_page[i]` before it maps the page. If
  mapping fails so does `fork`, the slot is free again, and the flag stays: the next
  process in the slot is told by `shmem_access` that the page is mapped, at an address where
  there is nothing.

Behaviours that the models contain and no property is stated about:

* a failed disk read is marked valid (`ide.c:118`);
* a writer that finds the pipe full and itself killed returns without a wakeup
  (`pipe.c:86`): a reader that fell asleep on the empty pipe before this call sleeps
  on over a full one, until the next write or the last close of the writing end;
* a kill that comes between the test of `killed` and `sleep()` in `pipe.c` or
  `console.c` leaves its victim asleep;
* a slot given back by a failed `fork` keeps its pid, so that a kill of that pid
  hits the next process in the slot; a `clone` that rejects its stack never gives
  its slot back;
* the ticks of a slice are all charged to the priority at its end;
* a call that logs as many blocks as it has reserved, and one of them again, panics
  in `log_write`, whose test comes before absorption (hence the bound on `OpBlocks`
  in the theorems);
* `create` and `sys_unlink` drop a reference to the directory with `iput`, which
  locks it again, while they hold the lock of the entry's inode. Against a lookup
  that holds the directory and waits for the entry this is a deadlock; that it is
  the only one is `CirclesNeedIput`. `link("f", "d/.")` deadlocks with itself and is
  not among the calls of the instance;
* a process whose current directory is removed goes on in it and may create files
  there, which are lost with it;
* a process is in directory `d/a`; `d/a` is removed, then `d`, which is empty.
  `sys_unlink` of `d/a` has taken back the link of `d` that `create` had counted for
  `..` (`sysfile.c:222`, `sysfile.c:271`), so that `d` is freed, but the process can
  still follow `..`: `ilock` finds an inode without type and panics, or, if the number has
  been given out again, the name leads to another file. The calls of `storage` have no
  path with `..`, and `NoInodePanic` holds for them;
* the checker rejects every image with a subdirectory, also an undamaged one as `mkfs` and
  the kernel make it: `checkParentDir` takes "." and ".." for children of a directory and
  asks that their ".." be that directory. `VerdictRight` states what the checker does
  (`PassedIsFlat`);
* `sbrk(-n)` with n the whole size returns -1 and leaves `p->sz` as it was, since
  `deallocuvm` returns 0, the error value, but the pages are gone and the process faults;
* the checker accepts a root inode that is not allocated, an address of the bitmap block as
  one of data, and an indirect block that is not marked; `checekValidDir` runs
  before the table it reads is filled.

### Fairness

Liveness needs assumptions on who gets to run. They are stated next to each
`Fairness` definition and amount to this:

* code in the kernel that can go on does go on (weak fairness): CPUs do not stop,
  and every system call makes finitely many accesses before it releases what it
  holds;
* a process or a CPU that spins for a spin lock gets it if the lock is free again
  and again (strong fairness). `xchg` alone does not promise this; the hardware
  does not starve a CPU for ever in practice, and locks are held for a bounded
  time. This is an assumption about the machine, not a result;
* timer interrupts keep coming and the disk answers (the committer's steps in
  `Log`). In `Proc` a CPU that again and again could start a pass over the table or
  take a timer interrupt does one of the two.

`MCLive` states the fairness of its four modules. Only one of them runs in a
behaviour, so strong fairness of a disjunction of steps of different modules is
strong fairness of each, and TLC has fewer conditions to check.

No fairness is assumed for crashes, kills, user programs' calls or closes.

## 5. Proofs

`Spec => []P` for every value of the constants that satisfies the `ASSUME` of the
component's module. The argument is the usual one: an inductive invariant `Ind`,
lemmas `Init => Ind` and `Ind /\ [Next]_vars => Ind'` with one case per action, and
`Ind => P`.

**`LogProofs`** (any finite set of processes, any blocks, `LOGSIZE`, `MAXOPBLOCKS`,
geometry): `TypeCorrect`, `ReservationHolds`, `LogNeverOverruns`, `NeverPanics`.
`Ind` adds to `TypeOK` and `Reservation` that `outstanding` counts the running
calls, that no call runs during a commit, and that the loop counters of
`write_log` and `install_trans` stay inside the header. `Reservation` is stated
with a set of slots `<<p, i>>` promised and not used; the lemmas about it say that
a step which gives no call a new slot keeps within it, and that an append uses up
a slot of the call that makes it. The last two theorems are about the space
on disk. `mkfs` provides one block less than `LOGSIZE`, the header taking one, and
for that geometry (`LOGSIZE <= LogBlocks`) they assume that a call logs at most
`MAXOPBLOCKS - 2` blocks; `LogNeverOverruns` does without this when
`LOGSIZE < LogBlocks`. The theorems state these hypotheses.

The same module proves `DurableWhenIdle`, `LogIsAtomic` and
`UncommittedStaysOffDisk`. The refinement of `AtomicDisk` maps the disk to
`Recovered`, what recovery would make of the blocks if the machine stopped now. To
show that no step but the write of the header changes it, `Ind` is joined by
`Journal`: no block is in the header twice (`Absorbed`, without which installing
an entry could undo another), the header on disk is empty except from the commit
point to the end of the installation (`HeaderOnDisk`), only running calls hold buffers
(`Holders`), a buffer that differs from its home block is locked or pinned
(`Pinned`, without which eviction would write half a call to the disk), and the
copied part of the log equals the cache (`Copied`). `Recovered` itself is a function on
block numbers, characterised by one lemma (`RecoveredIs`), so that no induction
is needed. `LogIsAtomic` and `UncommittedStaysOffDisk` have the hypothesis
`~WriteThrough`, the kernels `project_1` to `project_3`: with the `bwrite` of
`project_4` the latter is false, which is the finding `log_uncommitted`.

**`InterruptsProofs`, the spin locks** (any number of CPUs, processes and locks, any order of the
locks): `SpinlockExcludes`, `MaskingCorrect`, `LocksNeverPanic`. Exclusion of a test
and set is easy; what is not is that the lock words, the recorded CPU and `ncli` stay
true when stacks move. `Ind` says for each frame, also one that does not run, which
locks it may hold where it is (`Frames`, `Stacks`); that a stack which no CPU runs is
inside `swtch` and believes that it holds `ptable.lock` (`Parked`), which becomes
true again for the CPU that takes it up; and relates the interrupt flag, `intena`
and `ncli` of a CPU to the stack on it (`Masks`). The absence of panics is part of it:
`sched` tests `ncli == 1`, which is the counting of `Masks`.

**`InterruptsProofs`, the clock** (any number of CPUs and processes, `ticks` of any width):
`SleepLastsExactly`, `TicksAreCharged`. It is about `MCInterrupts`, whose instance of `Clock`
the run explores. `ClockInd` has where the two locks are held, what a handler may
interrupt and who is on which CPU; that what `sys_sleep` has tested stays true until it
has `ptable.lock`, and that a tick which ends a sleep has a wakeup behind it (`Tested`);
that `ticks - ticks0` is the time slept as long as this is less than n (`Elapsed`),
which is what makes the unsigned subtraction right when `ticks` wraps; and that the two
accounts of a process and the slice it is in add up to the ticks it had (`Accounts`).
The theorems are about the states that can be reached; that two CPUs may end in
`clock_deadlock` does not contradict them.

**`LiveProofs`, the sleep lock** (any set of processes): `SleepLockExclusive`,
`WakeupNeverLost`. It is about `MCLive`, whose instance of `SleepLock` the run explores. `Ind` says where the two spin locks are held and that the test of
`lk->locked` remains true until `ptable.lock` is held; without this the wakeup
could fall in between.

**`BcacheProofs`** (any finite sets of processes and buffers, any blocks):
`DiskQueueCorrect`, `CacheCoherent`, `CacheCorrect`. It is about the instance of `Bcache`
in `MCInterrupts`. `Ind` is the conjunction of the
parts of `BufferInv` and `QueueInv` but for the panic, with what connects them: who uses
and who holds a buffer (`Users`), what the flags say of the place of the user
(`Flags`), that a sleeper which was woken early by a kill still has its request or its
result (`Woken`), that the controller has the data of the write it serves (`Sent`),
and that the newest contents of a block are in its valid buffer, or on disk if none is
dirty (`Coherent`). A lemma about sequences without repetition serves the list of the
cache and the queue of the disk. That `bget` finds a buffer is a counting argument:
a buffer that cannot be recycled is referred to by a process or pinned by the log. So
`CacheCorrect` has the hypothesis `EnoughBuffers`, a buffer for each process besides
the pinned ones. The kernel has 30 buffers for up to 64 processes (`NBUF` and `NPROC`
in `param.h`): the theorem covers it as long as no more processes use buffers at a
time than the log leaves, and nothing in the code enforces that.

**`LiveProofs`, the pipe** (any sets of readers and writers, any ring, counters modulo any
multiple of its size): `PipeCorrect`, `PipeIsChannel`. `Ind` adds to the type that
`p->lock` is held where it should be (`LockHolder`), that a call uses an open end
(`Ends`), that the counters are at most `PIPESIZE` apart (`Fill`), and who may sleep
while the lock is held: what a process in the copying loop has changed it will
announce before it releases (`Sleepers`); `PipeInv` speaks of the moments when the
lock is free and is not inductive by itself. The lemmas on remainders
(`Remainders`) say that
cells of a ring stay apart when the counters wrap; the refinement maps the
ring to the sequence of its bytes from `nread`.

**`ConsoleProofs`, the console** (any set of readers, any ring, indices modulo any
multiple of its size): `ConsoleCorrect`, `ConsoleIsLineDiscipline`. It is about the
instance of `Console` in `MCInterrupts`. `ConsInd` states `RingInOrder` in terms of two
numbers, `Committed` and `Stored`, counted from `r`, so that wrap-around appears only in
the lemmas on indices. It adds that `cons.lock` is held inside `consoleread`, that what a
reader has tested stays true until it sleeps or takes (`ConsTested`), that `got`
has `target - n` characters (`ConsCopied`: why `^D` is put back exactly when something
was returned), and that the line being edited has no end in it (`EditPlain`: why `^U`,
which stops at a newline, goes back to `w` and never into committed input).

**`ProcessesProofs`, the process table** (any number of CPUs and slots): `TypeCorrect`, `StacksExclusive`,
`NoOrphans`, `NoLostExit`. `Ind` is `TypeOK`, `OneCpuPerProcess`, `ParentAlive` together
with two facts: `fork` owns the slot it works on (`ForkOwns`), without which the unlocked
writes of `fork` could hit a slot in use, and `init` never exits (`InitAlive`),
without which reparenting would not preserve `ParentAlive`. `NoLostExit` needs
`NoStaleParent` besides: a slot that is free or not yet copied has no parent, else
a sleeper in `wait` could be kept by the trace of a former child, or acquire a zombie
without a wakeup.

Only model-checked: liveness (the prover has no fairness rule to offer here), and the
properties of `Threads`, `Vm`, `FileSystem`, `Umalloc` and `FsChecker`. The first
three are proofs still to be done (section 2), with the exception of `CommittedTree` and
`CirclesNeedIput`, which speak of the tree that the names make, along paths and circles of
any length, and do not follow from what one step reads and writes. `Umalloc` and
`FsChecker` compute along lists and tables of any length, which takes induction
over data; there the bounded check is all. `LogNeverOverruns` is a consequence of
`Reservation`, which the run `storage` checks, and `UncommittedStaysOffDisk` of
what `AtomicAcrossCrashes` rests on. Nothing is assumed beyond the named `ASSUME`s and
the hypotheses above; TLC evaluates the `ASSUME`s in the runs.

## 6. Not modelled, and why

* Checksummed files (`project_4/fs.c`). A checksum is the exclusive or of a block's
  bytes, in the top byte of its address. Reading, writing and truncating compute it
  again, one block at a time and under the inode's lock, so a model could only
  repeat the formula. What is wrong there is plain from the code: `readi` returns
  after the first block without copying it and without `brelse`, whether or not
  the checksum matches; `itrunc` frees addresses with the checksum still in them;
  a write that does not extend the file leaves the new checksum of a direct block in
  memory only; `stati` reads an entry beyond `addrs`. The hazards list it.
* `sm_counts` of `project_2`. It is changed without a lock, and `exec` drops pages
  without counting them: no property of it holds. Only what is mapped is modelled.
* The user library of `project_3` (`kthread.c`). Its lock is a local variable of each
  call and excludes nobody; `malloc` under two threads has no property to check.
* `dup` and `fork` of open files: `file->ref` counts the descriptors of a file and
  `fileclose` drops the inode with the last; each open file of `FileSystem` has one
  descriptor. A file table that is full, and the two descriptors of `sys_pipe`, fail
  like a full descriptor table, which `OpenFd` has.
* `mkfs` as a program: only the images it produces are in the models.
* `mknod`, `read` and `fstat`: the first differs from `mkdir` in the type of an inode,
  the others change no state but an offset. The contents of files, the order of their
  blocks and the indirect block, which the log and the cache treat like any other.
* `getprocsinfo`, `getpinfo` and `procdump` only read. Argument fetching in
  `syscall.c` has no state.
* Boot code, interrupt controllers, keyboard decoding, screen and serial output: pure
  I/O, once or under one lock. The memory disk replaces `ide.c` and is not linked.
* The shell, the user programs and the tests: sequential programs above the system
  call interface.
* In `Spinlock` the back-trace of `getcallerpcs` is left out, in `Bcache` the port
  I/O of a transfer is one step, in `Proc` the open files that `fork` duplicates and
  `exit` closes are left to `FileSystem`.

The repository has four copies of most files, of which one is mapped, and more than a
third of each copy are user programs and tests. The share of all lines that the map covers is
therefore small although the kernel's own logic is mostly covered.
