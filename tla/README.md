# A TLA+ model of the NachOS kernel and machine

The repository is the Nachos teaching operating system on Windows, split into a
kernel, compiled to a library (`src/NachOsDll/NachOsDll`), and a simulated MIPS
machine with its devices (`src/MIPSVirtualMachine/MIPSVirtualMachine`), which
loads it. The kernel is a real one in small: threads that switch stacks,
semaphores built on switched-off interrupts, locks and condition variables built
on semaphores, processes with a table, frames and system calls, drivers and a
file system. All of it rests on orders of events that no test of the repository
forces, and that is what is modelled here.

Contents: 1 the system; 2 the modules; 3 the runs; 4 the proofs; 5 where the code
disagrees with itself; 6 what is not modelled.

## 1. The system

The kernel runs on one CPU. Kernel code is interrupted only where interrupts go
from off to on or where a user instruction ends (`Interrupt::OneTick`): there
interrupt handlers run, and there the timer may take the CPU away. A thread that
waits for a device sleeps, and every other may run. Everything else follows from
that.

| Component | State | Operations | Hard behaviour | What makes it correct |
|---|---|---|---|---|
| Threads, scheduler (`thread.cpp`, `scheduler.cpp`) | `currentThread`, `readyList`, `toBeDestroyed`, each thread's `status` and saved registers | `Fork`, `yield`, `Ssleep`, `Begin`, `Finish`, `ReadyToRun`, `FindNextToRun`, `Run` | a time slice at every re-enabling of interrupts; a thread woken while it idles and switched to itself; a thread that cannot delete the stack it runs on | one owner of the CPU; ready list = READY threads, first come first served; a finished thread deleted once, by another |
| Simulated interrupts (`interrupt.cpp`) | `level`, `status`, `yieldOnReturn`, the pending list | `setLevel`, `OneTick`, `Idle`, `Schedule`, `CheckIfDue`, `Halt` | handlers that schedule in the middle of `CheckIfDue`'s loop; idling | due interrupts come once, in order, not early, not a tick late |
| Timer, alarm (`timer.cpp`, `alarm.cpp`) | `disable` | `CallBack` re-arms the timer and asks for a yield | a slice asked for while idle | the machine never idles with nothing pending |
| Semaphores (`synch.cpp`) | `value`, `ThreadQueue` | `P`, `V` (also from handlers) | a woken thread finds the value gone | no lost wake-up; the abstract semaphore |
| Locks, conditions (`synch.cpp`) | `lockHolder`, `WaitQueue`, semaphores | `Acquire`, `Release`, `Wait`, `Signal`, `Broadcast` | `Wait` releases the lock before it calls `P` | mutual exclusion; no signal missed |
| Synchronized list (`synchlist.cpp`) | the list, a lock, a condition | `Append`, `RemoveFront`, `Apply` | a latecomer takes the item a woken thread was signalled for | FIFO; no item left beside a waiter |
| Lists, hash table, bitmaps (`list.cpp`, `hash.cpp`, `bitmap.cpp`) | linked cells, buckets, packed words | insertion, removal, growth, `FindAndSet`, copies on disk | the last cell; growth in the middle of `Insert`; the last word | the sequence, the map and the set they stand for |
| Process table (`proctable.cpp`, `table.cpp`) | entries with status, parent, first child, sibling | `GetNewProcId`, `GetProcStatus` (Join), `ProcIsDone` (Exit) | entries reused; parent and child exit in any order; Join goes on with indices from before its wait | each live process has an entry; family lists sound; the right status to the parent, once |
| System calls (`ksyscall.h`, `exception.cpp`) | user registers | Exec, Join, Exit, Halt, file and console calls | registers restored around switches; calls that fail half-way | results in the right registers; what is reserved is given back |
| Address spaces (`addrspace.cpp`, `synchbitmap.cpp`) | page tables, `frameMap`, open files | constructor, destructor, `Translate`, user buffers | memory full half-way; frames that change hands | no frame leaked, shared or given out uncleared |
| Disk (`synchdisk.cpp`, `disk.cpp`) | `active`, head and track buffer, a semaphore, a lock | `ReadSector`, `WriteSector`, `CallBack` | request and interrupt race | one request at a time, each answered by its own interrupt |
| Console (`synchconsole.cpp`, `console.cpp`) | one-character buffers, semaphores, locks | `GetChar`, `PutChar`, polling call-backs | end of file; several readers and writers | no character lost or doubled |
| File system (`filesys.cpp`, `directory.cpp`, `filehdr.cpp`, `openfile.cpp`, `pbitmap.cpp`) | free map, directory, headers on disk and copies in memory | `Create`, `Open`, `Remove`, `ReadAt`, `WriteAt` | no locks; write-backs in sequence; a crash between two of them; partial sectors | sectors belong to one file; nothing created is lost |
| Network, post office (`network.cpp`, `post.cpp`) | pipe, one-packet receiver, mailboxes | `Send`, `Receive`, `PostalDelivery` | packets lost and retried; two hosts that wait for each other | each packet to its mailbox at most once |
| MIPS machine (`machine.cpp`, `mipssim.cpp`) | registers, memory, page table, delayed load | `Run`, `OneInstruction`, `Translate` | exceptions half-way through an instruction; carries and signs at the boundaries | instructions can be restarted; arithmetic is that of the integers |
| Boot and shutdown (`main.cpp`, `kernel.cpp`) | the global objects | construction, what the command line asks for, `Halt`, destruction | interrupts in a half-built kernel; three readings of one command line | each object there when it is called upon |

They interact by call (upwards from semaphores to the file system), by handlers
that call `V` from `OneTick` and `Idle`, by the function pointers that link the
two halves, and by the globals of the kernel object.

## 2. The modules

```
Scheduler  <--EXTENDS--  Semaphore  --implements-->  AbstractSemaphore
    ^                                                   ^     ^     ^
    |                                        INSTANCE   |     |     |
ThreadStart                                        Monitor SynchDisk SynchConsole
                                                        ^     |
                                                  SynchList   +-- implements --> AbstractDisk

ProcTable   UserPrograms   FileSystem   OpenFile   PostOffice   Interrupts   Boot   Machine
Containers --implements--> AbstractList
SemaphoreProofs  SynchListProofs  DeviceProofs  FileProofs  ProcTableProofs
UserProgramsProofs  BootProofs  LibraryProofs
```

`SemaphoreProofs` is about `Scheduler` and `Semaphore`, `SynchListProofs` about
`Monitor` and `SynchList`, `LibraryProofs` about `Containers`, the `AbstractList`
it implements, and `Machine`. `DeviceProofs` extends `SynchDisk`, `SynchConsole`, `PostOffice` and `Interrupts`,
`FileProofs` extends `FileSystem` and `OpenFile`; the other proof modules extend
the module they are named after.

Each layer uses what the one below promises: `Semaphore` adds queues and values
to the threads of `Scheduler`; `Monitor`, `SynchDisk` and `SynchConsole` use the
*abstract* semaphore that `Semaphore` is shown to implement; `SynchList` uses the
monitor, `PostOffice` takes its mailboxes as the queues that `SynchList` shows
them to be. `ProcTable` uses of the monitor that its lock excludes and its Wait
lets go. `UserPrograms` lets any thread have the CPU at any time, which contains
every order of `Scheduler`.

### Scheduler and ThreadStart

An action is a stretch of kernel code between two points where the CPU can be
lost, and the variables are those of the code: `currentThread`, `readyList`,
`toBeDestroyed`, `status`, `level`, `oldLevel` (the local of that name) and `mode`
(`Interrupt::status`). `at[t]` is where thread t is, or will be when `SWITCH`
brings it back.

* `setLevel(IntOff)` at the head of a critical section is part of the action
  that follows, since turning interrupts *off* causes nothing. Turning them *on*
  is the step `SetLevel`, and, if they were on before, the place `OneTick`.
* In `OneTick` any number of handlers may wake threads (`HandlerWake`); then
  the timer was not among them (`TickReturn`) or asked for `yieldOnReturn`
  (`TickYield`). Which interrupts are due is a free choice here; `Interrupts` has
  what makes it.
* `Ssleep`'s loop is `Dispatch` when somebody is ready and `Idle` when nobody
  is. In `Idle` handlers run too, and may ready the idle thread itself, in which
  case `Run` switches from it to itself.
* `Finish` is `Ssleep(TRUE)`: `Run` records the thread in `toBeDestroyed` and
  whoever runs next (`Begin`, `Resume`) deletes it.
* The boot runs in `Main` with interrupts off until `Enable` (main.cpp). Until
  then `Main` may fork and, with nobody forked, sleep (the file system waits for
  the disk): `Booting` in `Sleep` says so.
* `Fork` of a thread is its first use: `new` threads are names not yet used.

`ThreadStart` adds the start of a thread: `StackAllocate` puts the function among
the saved registers, `SWITCH` moves it to the global `Func`, `CallFunc` uses it.
`Scratch` is what the compiled `Run` has in those two registers at its call of
`SWITCH`: it has made calls of its own before, and neither register survives one.

### AbstractSemaphore and Semaphore

`AbstractSemaphore` is the comment in synch.h: `P` waits for a positive value and
decrements it, `V` increments it. No order of service is promised, and none is
kept: a thread that comes at the right moment overtakes the sleepers. `Semaphore`
is `P` and `V` line by line on top of `Scheduler`: `P` is its first part (pass or
sleep), `PWoken` what it does each time it is back from `Ssleep`, and `V` is
called by threads and by handlers. Any thread may call either on any semaphore,
which is more than the kernel does and costs nothing. `P` is the only caller of
`Ssleep(FALSE)` in the kernel and `V` the only one who wakes, and so Scheduler's
free sleeps and wake-ups occur here only through them.

### Monitor and SynchList

`Monitor` is one lock and one condition variable over abstract semaphores; the
semaphore that each `Wait` allocates is named after its thread, which waits once
at a time. Between any two actions any other thread may run, more often than the
code allows. `Broadcast` is `Signal` repeated under the lock, and every prefix of
it is a behaviour of the model. `SynchList` conjoins the monitor's actions with
the list and with where each thread is in its call. Items are appended once:
every caller of `Append` allocates its item.

### ProcTable

`items` is the table as a function on the identifiers in use. An operation that
runs under the table's lock is one action. `Wait` inside Join splits it into
`JoinWaits` and `JoinWoken`, and the two local variables that survive the wait
are in `joining`. Frames are taken and given back one at a time, for the bitmap
has a lock of its own and other processes come in between; the destructor's order
is left free. The walk along `siblingId` is the function `Walk`, bounded by the
table's size. A call that is refused and changes nothing (a Join of a stranger,
an Exec with a full table) is left out. `parent`, `exitCode` and `joined` are
history, as is the field `owner` of an entry. All programs have the same number
of pages; the initial state is the one in which main has started the first.

### UserPrograms

The programs with what they own: the machine's registers (`registers`, of which
the PC in instructions, r4 and r2 matter), the page table it has been told to use
(`machineTable`), `mainMemory` by frame, and of each process its page table, its
saved registers and its open files. A page holds one value, a file is named by a
value, and the time slices of `Scheduler` are a free choice of `Run`.

* A system call starts with `Trap` and ends with `Return`. Between them its steps
  end where the thread may lose the CPU; at the place "wait" it must, for the disk
  or the console. `Run` is both sides of `SWITCH`, with `ProcessStartup` for a
  thread that has never run.
* `SysExec`, `AllocatePage` (one frame at a time) and `LoadPages` are Exec, with
  the failure half-way; `Terminator` gives the frames back one by one, closes the
  files and finishes.
* What the file system, the process table or the console do is theirs: here Open
  finds a file or not, Join waits or not, and data arrive in any page.
* `expected` and `view` are history: what the program's own instructions and calls
  make of its registers and pages, `nextPC` its next instruction. A call may return
  although its thread kept the CPU throughout (Add, Close, a fault, a call that
  fails early). Then nothing has been saved since it began, and `ExceptionHandler`
  restores what the program had at its own last switch, or what memory held if it
  has not been switched yet: `atSwitch` remembers that, and `expected` goes on from
  it. So `OwnRegisters` is true of the code as it is and says that no register of
  another program gets in; that such a call does not resume where it should is
  `ResumesAfterSyscall` (section 5).

### SynchDisk and AbstractDisk, SynchConsole, PostOffice, Interrupts

`SynchDisk` is the driver (lock, request, semaphore, release) over the simulated
disk, whose `ComputeLatency` works out from the head, the rotation and the track
buffer when the interrupt comes. `AbstractDisk` is the promise: one request at a
time, each carried out once, nobody returns before the end of his own.

`SynchConsole` has the polled keyboard, its buffer of one character, the display,
and the two locks and semaphores over them. Typed characters are told apart by
position, written ones are counted. `ConsoleToKernel` and `KernelToConsole` take
the lock per character, so that several readers and writers interleave.

`PostOffice` has two hosts, each a process of its own in which one thing happens
at a time, and between them a named pipe per host: `SendToPipe`'s attempts, the
coin toss that drops a packet, the one-packet receiver, the postal worker, the
mailboxes and `NetworkTest` on both hosts. A host that polls its pipe after the
sender has connected and before it has written runs into an assertion
(`aborted`).

`Interrupts` is simulated time: the pending list sorted by time, `CheckIfDue`'s
loop with handlers that schedule again, `Idle` that moves the clock, the timer.

### FileSystem and OpenFile

`FileSystem` holds the free map, the directory and the headers as they are on the
disk, and in `op` what each operation has fetched and still has to write. Every
sector is an access of its own, and another user may come between any two; the
directory lies across two sectors, in the middle of an entry. `Crash` stops the
machine between two writes and boots from what is there. Headers are not changed
after creation, so an open file is its cached header, through which `Write`
overwrites its sectors. As in the code, only the command line removes files or
gives them a size.

Nothing repairs the disk after a crash. A Create that stopped between the directory
and the map leaves a name whose header and data are clear in the map, and the next
Create is given the same sectors, header and all: two names for one file. `hurt` has
the entries caught half-written. Nobody else is harmed by them until one is removed
(the map then frees the sectors of the other file) or written through (the sectors
are the other file's data, or its header, which then reads as a member of `Garbage`,
a header that lists any sectors). Every entry that shares such a sector is `Reached`:
it becomes hurt in its turn, and may harm others. When the system's own
sectors are reached (`corrupt`) the model ends: what follows from an overwritten
directory is anything. filesys.cpp:38-40 says as much: a crash *may corrupt the disk*.
What the properties claim is the rest, and that is not nothing: everybody else's
files, while a half-made name leads into one of them, and after it was used
everybody's but those that it led to.

`OpenFile` is the contents of one file through several open files: reads and
writes go through whole sectors, and a write reads in first the sectors it changes
in part.

### Boot

The command line is read three times, by loops that know different options; the
objects are built in one order (`BootOrder`) and deleted in another, each calling
upon others through the function pointers of the two halves (`Glue`,
`Builds`). From the moment a device is armed its handler may come in between:
in `Initialize` while the file system sleeps on the disk, and at any tick later.
`missing` collects what was called upon, or deleted, while it was not there. Then
what main does for `-N -K -C -r -cp -D -l -p -x`, in its own order, with `Copy` and
`Print` chunk by chunk; `Halt`, destruction, the system call Halt, Ctrl-C, and
another start with the disk as it was left.

### Containers, AbstractList and Machine

`Containers` has `SortedList` with its cells and pointers (`Chain` is the walk from
`first` along `next`), `MyHashTable` with its buckets, growth and iterator, and
`Bitmap` and `PersistentBitmap` in words, a word being the set of its bits that are
one. `AbstractList` is a sequence by priority, in which an item comes after those of
its own.

`Machine` executes any sequence of instruction words, through the decode tables;
the bytes have `ByteBits` bits and everything else is in proportion.
Multiplication (shift and add with carry), overflow by signs, delayed loads,
branches, translation and the exceptions are done as the code does them. A word
that a logical operation works on is the set of the positions of its ones (`Ones`,
`Number`). What an operation writes is a function from register numbers to words,
laid over the registers (`Write`, `++`). In `MCLibrary` bytes have two bits, the
operands are those at the boundaries, and (the bound) one instruction is executed
from each state of interest.

### The MC modules

`MCDevices`, `MCFiles` and `MCLibrary` put together components that share no
state: one behaviour exercises one part, chosen in the initial state. The other
MC modules instantiate one module each.

## 3. The runs

| Run | Instance | Properties |
|---|---|---|
| `scheduler` | 4 threads, symmetric | `ReadyListExact`, `LevelDiscipline`, `CarcassSafe`, `NoOvertaking` |
| `semaphore` | 3 threads, a lock (1) and an event (0), values up to 2; fair | `NoLostWakeup`, `ImplementsSemaphore`, `SemaphoreLive`, `ReadyRuns` |
| `synchlist` | 3 threads, 3 items; fair | `LockExact`, `WaiterExact`, `NoLostSignal`, `ItemsAreRemoved` |
| `proctable` | 4 processes, 3 entries, 5 frames, 2 pages each, a status of its own for each; fair | `EntryKept`, `ChildrenExact`, `JoinExact`, `FramesExact`, `JoinReturns` |
| `userprograms` | 3 processes of 2 pages in 4 frames, one page loaded and read-only, 2 file slots, 4 instructions in all | `OwnRegisters`, `OwnMemory`, `HandlesExact` |
| `devices` | disk: 2 threads, 2 tracks of 2 sectors, 8 ticks; console: 2 readers of 2 characters, 2 writers, 2 keys typed; network: 2 hosts, 3 attempts; clock: 2 devices and a random timer, 12 ticks; fair | `HeadPassed`, `ImplementsDisk`, `ConsoleExact`, `ConsoleServes`, `OneCopy`, `TestsEnd`, `ClockExact`, `InScheduledOrder` |
| `files` | file system: 1 user, 3 names (symmetric), 3 entries, 4 free sectors, 1 data sector per file, 2 open files, two headers that data may read as, a crash; open file: 2 threads, 3 bytes in sectors of 2, 2 calls each; boot: every command line of up to two options, and of three when the first is `-f` | `FilesIntact`, `NoSectorLost`, `CreatedFound`, `FileExact`, `AliveWhenUsed`, `TransferExact` |
| `library` | 4 items in 5 cells, two of one priority; 6 keys, growth from 2 buckets; 5 bits in words of 2; every opcode on words of 8 bits | `SanityChecked`, `BitmapExact`, `ImplementsList`, `ArithmeticExact`, `Restartable`, `StoreExact` |
| `proctable_leak` | 3 processes, 3 entries, 1 page | `IdsReused`, *violated* |
| `thread_start` | 3 threads | `CallsOwnFunction`, *violated* |
| `syscall_resume` | as `userprograms` | `ResumesAfterSyscall`, *violated* |

The properties are stated with their comments at the end of each module. In
short, what they would catch:

* `ReadyListExact`, `NoOvertaking`, `ReadyRuns`: a thread scheduled twice,
  forgotten, overtaken or starved. `LevelDiscipline`: a path on which interrupts
  are on in the scheduler. `CarcassSafe`: a thread deleted under its own feet,
  never, or twice; the assertion in `Run`.
* `NoLostWakeup`, `SemaphoreLive`, `ImplementsSemaphore`: a unit left while threads
  sleep for it, although latecomers take units from woken threads.
* `LockExact`, `WaiterExact`: a second owner, an assertion on `lockHolder` that
  fails, a signal that falls between `Release` and `P`.
* `NoLostSignal`, `ItemsAreRemoved`: an item stranded beside a waiter because
  somebody else took the item a signalled thread was woken for.
* `EntryKept`, `ChildrenExact`, `JoinExact`, `JoinReturns`: an entry reused under a
  live process or removed before the parent could ask; a broken sibling list; the
  indices Join remembers over its wait; a wrong or a second status.
* `FramesExact`, `OwnMemory`, `OwnRegisters`, `HandlesExact`: a frame leaked,
  shared, or given out with the last owner's data; registers of one program in
  another; an open file lost on a path that fails.
* `ImplementsDisk`, `HeadPassed`: a request to a busy disk, a caller let go by
  another's interrupt, the track buffer promising a sector it has not seen.
* `ConsoleExact`, `ConsoleServes`: a character announced twice or overwritten, a
  reader or writer that nobody wakes.
* `OneCopy`, `TestsEnd`: the worker delivering the old buffer again, a packet in two
  places, two hosts waiting for each other's pipes for ever.
* `ClockExact`, `InScheduledOrder`: an interrupt early, late, doubled or out of
  order while handlers schedule more.
* `FilesIntact`, `CreatedFound`: an operation, or a crash in one, that harms another
  file otherwise than through the half-written one. `NoSectorLost`: without a crash, a
  sector lost. `FileExact`: a partial sector that clobbers its neighbours.
* `AliveWhenUsed`, `TransferExact`: an object called upon before it is built or
  after it is deleted; the short last transfer of Copy and Print.
* `SanityChecked`, `ImplementsList`, `BitmapExact`: a dangling last cell, an item in
  the wrong bucket after growth, a bit in the wrong word.
* `ArithmeticExact`, `Restartable`, `StoreExact`: a lost carry, an instruction that
  cannot be restarted, a store through the wrong frame.

**Bounds.** Three threads are needed for one to take what another was woken for
while a third waits; with a fourth, two wait. Values up to 2 make a `V` on a
positive value happen. Three table entries with four processes make identifiers
reused, the table full, and a sibling be unlinked from the middle of a list; five
frames with two pages per program let the third program run out half-way. In
`userprograms` four frames hold two programs, so a third fails half-way or takes
over the frames of one that has exited, and four instructions let three programs
compute, store and call in turn. Two tracks of two sectors make every case of the
latency happen: with and without seek, buffered or not, on a boundary or not.
Two readers of two characters interleave their lines; two keys include a line
with its end and an end of file after a character. Three attempts of `SendToPipe`
stand for ten: what matters is that they run out. Three entries and four sectors let
two files be made after a crash beside the half-written one, and a harmed file harm a
third; the four sectors fill, and the entries too when a crash has left one with a
stale name. Two headers that data may read as, one with a sector of the system and one
with a sector of a file, make a file with an overwritten header reach each kind. Two open
files let one be written through while another is open on the same header. Three bytes in sectors of two make the last
sector partial. The two host files are shorter and longer than a transfer and do
not both fit. Eight-bit words keep the sign bit, the carry between halves and the
shift amounts distinct; the operands are the boundaries.

**Deadlock** is checked in the scheduler, semaphore and thread-start runs, where
idling never ends. It is not an error in the others: all threads may be waiting
for a signal nobody sends, all processes may have exited, or a bound is reached.

**Fairness.** The simulator always executes something, so `CpuStep`, `UserTick`,
`IdleReturn` and the continuation of a woken thread are weakly fair. `Enable` is
strongly fair since the boot is finite but may be in the middle of a critical
section. `TickYield` is strongly fair per thread: the timer re-arms itself in its
own handler (`Interrupts` checks that), so time slices keep coming, and the model
says that they also keep hitting whichever thread keeps ticking. That is an
idealisation, needed only for a thread that never gives up the CPU itself; the
real timer could be in step with a program for ever. `SynchList` assumes of the
lock what `SemaphoreLive` shows, and that a call once begun goes on. `ProcTable`
assumes that kernel calls go on. `DeviceFairness` says that the clock, the
interrupts of the devices, the polls and threads in the middle of a call go on. No
fairness makes anyone *start* a call, type a key or toss a coin one way.

## 4. The proofs

For every set of threads, semaphores, processes, frames and initial values (the
named ASSUMEs are all that is assumed):

* `SemaphoreProofs`, of the scheduler. The inductive invariant `SchedInv` is the conjunction of
  the safety invariants of the `scheduler` run with the type invariant and the
  places of threads without the CPU. No one of them is inductive: that the ready
  list is exact needs that a sleeping thread is off the list, which needs the
  places of the others, which need that only `currentThread` is RUNNING; and that
  Run's assertion holds needs that whoever just got the CPU is at a place where
  the carcass is looked for. Theorems: `SchedulerTypeCorrect`,
  `SchedulerReadyList`, `SchedulerCarcass`, `SchedulerLevels`, and the action property
  `SchedulerRoundRobin`, which needs of the invariant that the thread that yields
  is not on the list. The lemmas on `Insert` and on taking the head of a list
  without duplicates carry the sequence reasoning.
  Of the semaphores: each step of `Semaphore` is one of `Scheduler` or leaves it
  alone (`SemaphoreOnScheduler`), so `SchedInv` holds here for free; only the
  queues remain. `SemaphoreNoLostWakeup` counts the woken threads of each
  semaphore. `SemaphoreRefinement` maps the waiters of s to the threads whose `P`
  on s has slept, and shows step by step that `Sleep` in `P` is `Await`, the end
  of `P` is `PassThrough` or `Complete`, `V` is `AbsV` and all else stutters.
* `SynchListProofs`. Of the monitor, `MonInv` is the type invariant with `LockExact`
  and `WaiterExact`; the type invariant's claim that no semaphore exceeds 1 needs
  both others, and both need it. Theorems: `MonitorMutualExclusion`,
  `MonitorNoMissedSignal`.
  Each step of `SynchList` is one of `Monitor` or leaves it
  alone (`ListImplementsMonitor`), so `MonInv` holds here for free
  (`ListIsMonitor`). `ListNoLostSignal`, for a finite set of threads, counts: a
  signal sent is one signaller less and, as the thread it goes to was queued once
  and for RemoveFront, one remover more. That a queued thread is in
  RemoveFront is the part of the invariant that `NoLostSignal` lacks
  (`CallPlaces`).
* `DeviceProofs`, for any threads, clients, devices, times and sizes.
  The disk: `DiskInv` ties the lock to the one thread inside, and the active flag
  to one pending interrupt or one V not yet consumed. With it, `DiskRefinement`
  maps ReadRequest or WriteRequest to `Start`, the interrupt to `Complete`,
  Release to `Return`, and all else but the call to a stutter: the safety half of
  the `ImplementsDisk` that the `devices` run checks with its fairness.
  `DiskHead` adds the arithmetic of seek and rotation: that a read from the track
  buffer has had its sector pass under the head needs the time at which the head
  came to its track to be no later than now, and the end of a request to fall on
  a sector's boundary.
  The console: `ConsoleIsExact`; its invariant counts each semaphore against the
  buffer it stands for, in every place of a reader and of a writer.
  The clock: `ClockIsExact` and `InterruptOrder` need that the pending list is
  sorted by time and, at equal times, by the order of scheduling, through the
  insertions that handlers make in the middle of `CheckIfDue`'s loop.
  The network: `PostOneCopy`. `PostInv` adds to the types that mailboxes hold only
  what was sent to their host, that a host tries one message at a time, that the
  worker's semaphore, the receiver's full buffer and the poll are in step, and
  that a message is in one of its places only; the last is not inductive without
  the one before, by which the worker never reads a buffer it has read. What it
  assumes of the constants is that the clients of the two hosts are different and
  that `NoClient` and `NoMessage` are no clients or messages.
* `FileProofs`. `OfInv` (`FileInvariant`) is of the contents of one file: a call is
  inside the file and in the sectors of its bytes, reads before it writes, and,
  while no two Writes have shared a sector, in a sector that a Write touches each
  byte is its own, written or still to be, or the old one and, once read, the
  same in the buffer; `FileContents` follows. It rests on lemmas on `\div` by a
  constant that is not known (which bytes are in which sector, which sectors are
  touched in part) and on the order of a call's plan.
  `FsInv` is of the file system and one user (`OneUser`), with any number of
  entries, names and sectors, and a crash at any point. It says of an operation
  that reads that its copies are what is on the disk; of one that writes, which
  of its writes are left, what the disk has of them, and that the sectors a Create
  is to mark are free, those a Remove is to free its file's alone. Of the rest it
  says that every file that no operation changes and that is not hurt has its name
  and its sectors to itself, marked; that an open file is in the directory; and
  that the map has nothing else until something crashes. From it follow
  `FilesStayIntact`, `SectorsAccounted` and `CreatedStaysFound`. None of them is
  inductive: half a Create is three sectors that no file accounts for. The first and
  the last are claimed for a crash at any write, as far as `hurt` and `corrupt` reach
  (section 2): `WriteThroughKeeps` shows that a write harms no file but those that are
  reached by it. With a second user all of it is false, which the code says itself
  (filesys.cpp:33 and :217, directory.h:9): two Creates at a time lose an entry.
* `ProcTableProofs`. `FrameInv` adds to `FramesExact` the types and that a process
  in Exec has a child to give frames to; `ProcFrames` follows, through every
  order of steps that take or clear one frame.
  `TableInv` is of the table. None of the three properties is inductive. That an
  entry is its process's own needs who the parent of each is, and that an entry
  names as its parent the identifier of a process that still lives, or nobody:
  without it a reused identifier would inherit children. That the walk is right
  needs a sequence without duplicates that the list spells out, which
  GetNewProcId lengthens, GetProcStatus shortens anywhere and ProcIsDone of
  another process leaves alone; `WalkPasses` shows that the walk follows it, and
  that its length is bounded by the table's. That Join comes back to what it left
  needs that only the parent itself changes its list, so the previous entry that a
  waiting Join remembers stays before the child's. Theorems: `EntriesAreKept`,
  `ListsAreExact`, `JoinIsExact`. Of `None` they assume that it is neither a
  status nor a process with one.
* `UserProgramsProofs`. `BuildInv` (`ProgramTypeCorrect`) is the types, that a
  process under construction belongs to one Exec only, and that only a process
  that was started has the CPU. Three invariants stand on it.
  `RegistersInv` says of every thread where its registers are: in the machine while
  it has the CPU; saved, what it had at its own last switch, and unchanged since if it
  has lost the CPU in this call. It gives `ProgramRegisters`, with no hypothesis: what
  `Return` restores is the program's own in either case.
  `MemoryInv` says that no two pages of any processes share a frame, that every
  frame of a page is marked in `frameMap`, that an address space is as long as
  the state of its process says, and that the pages an Exec does not load are zero
  before it loads the rest; it gives `ProgramMemory`, with no hypothesis. That a
  store changes nobody else's page needs the first, that the frame found is
  nobody's needs the second, that a new program sees only zeros and its file
  needs the last two.
  `HandlesInv` says that the OpenFile objects are as many as the file ids in use
  and the Execs under way, both finite, and that only a thread in the kernel is in
  an Exec; it gives `HandlesAreExact`, for which 0, the NULL of the table, must
  name no file.
* `BootProofs`. `AliveInv` says what is alive at each stage of main: what the
  constructors that have run have built, all of it while main does what it was
  asked, and all but what was deleted in the destructors. `AliveWhenUsed` is not
  inductive without a bound on who may interrupt a half-built kernel: while the
  file system's constructor waits for the disk, every device but the network may.
  `TransferInv` says what main has read of the command line, which requests it is
  past, that the new file is as long as its original and the same up to where the
  copy has come, and that what is printed is the file's beginning; it gives
  `TransfersAreExact`. Of the constants they assume that the buffer is not empty,
  that files are sequences of bytes, that `NoFile` is none, and that `NachosNames`
  has every name under which `-cp` is asked to create a file.

* `LibraryProofs`, for any items, priorities, hash function, growth, width of word
  and number of cells, buckets and bits.
  Its definitions recurse over data: the walk along the pointers, the items bucket
  after bucket, the moves of a growing table, the iterator. Induction is proved here
  for *sets* of naturals (`NatSetInduction`, from `NatLessThanWellFounded` and the
  least element of a set): what must hold of every n is stated as
  "the set of the n of which it holds is all of them". From it comes the lemma
  `PrimitiveRecursion`: the recursive function exists and satisfies its equation.
  The list: `ListInv` says that `first`, `next` and `last` *spell* a sequence of
  different cells, as long as `numInList`, whose items are different and in the order
  of their priorities; `ChainIsSpelled` shows that the walk is that sequence. An
  insertion or a removal at any place spells the sequence with the cell put in or
  taken out, and so `ListRefinement` maps each to the abstract list's step. That
  `last` is right when the last element goes, and that a cell to insert is on no
  list, are what the invariant is for.
  The table: `HashInv` says that an item is in the bucket of its hash value and
  nowhere else, once, and that `numItems` counts them. `ReHashFacts` shows it for
  each of the growing table's moves in turn, `IteratedFacts` that the iterator, which
  skips from full bucket to full bucket, passes all. With the list it gives
  `ContainersAreSane`.
  The bitmap: `BitmapInv` says that a word holds just the positions of the marked bits
  in it, in memory and on disk; a bit is the only one at its place of its word
  (`PlacesDiffer`), and `BitmapIsExact` follows.
  The machine: `MachInv` says that registers and memory hold words and bytes and that
  the delayed load names a general register. `StepIsSound` adds to it, once for every
  step, what the step leaves of the registers, and gives `InstructionsRestart`; the
  tables of `Decode` are shown to have an operation for all 64 codes, each one with a
  case in `OneInstruction`. That a number put together from bits is a word
  (`NumberIsValue`), that two to the n is positive and multiplies as powers do, and
  that a word is the sum of its bytes (`WordByBytes`) are by induction as above; with
  the last, `StoresAreExact`. `Mult` has a loop invariant, `MultInv`: what has been
  added up, and what is left of one factor times the other, shifted, make the
  product. `MultStepAdds` shows that a turn, with its carry, keeps it, `LoopMultiplies`
  that after as many turns as a word has bits nothing is left, and `SignedProduct` that
  the two's complement in two words has the sign. `SumOverflows`, `DifferenceOverflows`
  and `SignedQuotient` do the rest of `ArithmeticIsExact`. The last leaves out one
  quotient, on which the host traps (`HostTraps`).

Every safety invariant, action property and refinement that a run checks is stated
by one of these theorems. Only model-checked: everything about liveness
(`SemaphoreLive`, `ReadyRuns`, `ItemsAreRemoved`, `JoinReturns`, `ConsoleServes`,
`TestsEnd` and the fairness in `ImplementsDisk`), since the prover has no rules for
fairness of this kind or for ENABLED; and the three properties that are violated.

## 5. Where the code disagrees with itself

Three runs end in a counterexample, each to a sentence of the repository:

* `thread_start`: *Fork invokes `(*func)(arg)`* (thread.cpp:223). Here `SWITCH`
  keeps the function and its argument of every thread in the two globals `Func`
  and `IniArg` (thread.cpp:100-103) instead of registers, and `ThreadRoot` reads
  them after `Begin`. `Begin` enables interrupts, which is a tick. When the time
  slice ends in that very tick the new thread yields, and when it comes back the
  globals hold what the code of `Run` had in two registers.
* `proctable_leak`: *Identifiers are eventually re-used* (proctable.h:13). An
  `Exec` that fails after `GetNewProcId` (no executable, no memory) leaves its
  entry behind; nobody ever calls `ProcIsDone` for it.
* `syscall_resume`: after a system call *execution begins at the instruction
  immediately after the syscall* (mipssim.cpp:112). `ExceptionHandler` ends with
  `RestoreUserState`, but only `Scheduler::Run` saves: a call during which the
  thread kept the CPU goes on after the instruction of its last switch.

Seen while modelling, and not a property of any state: `-K` is documented without
an operand (main.cpp:10 and the usage line), while main asserts that one follows
and skips it. A host that polls its pipe between a sender's connecting and writing
stops in an assertion (sysdep.cpp:646); `PostOffice` has the step, and `TestsEnd`
allows for it. Two threads that create files at the same time lose one of them:
directory.h:9 leaves mutual exclusion to the caller, and `SysCreate` (ksyscall.h:108)
provides none, but filesys.cpp:33 and :217 say so, and nothing is claimed of it.

## 6. What is not modelled

* The platform layer (`sysdep.cpp`) but for pipes and the polling of files, the
  debug flags, statistics, the debugger of the MIPS machine, and all printing
  (`Print` and `List` change nothing).
* `translate.cpp`, which repeats `machine.cpp` for a TLB that is never built.
* What the self-tests assert, the bounds of stacks (checked by a word at their
  end), names of threads, and memory after `delete`.
* What follows `Cleanup`, which after Ctrl-C returns to the program whose machine
  it has deleted; and files longer than `NumDirect` sectors, whose header writes
  past its array.
* The layout of executables: a program is pages that are loaded or zero,
  read-only or not.
