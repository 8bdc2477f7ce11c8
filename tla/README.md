# Verification of the kernel and its programs

This directory has TLA+ modules that model the kernel of `src/kernel` and the
programs of `src/nikshita.dir/sbin`, TLC configurations that check them on small
instances, and proofs that TLAPS checks for all instances. `PROJECT.json` lists the
components, the runs, the hazards, the theorems, and the source lines of each definition.

The kernel runs on several x86 processors with one shared memory. It has
preemptive threads, blocking synchronisation built from spin locks, a heap,
paged virtual memory, processes with file, semaphore and child tables, pipes, a
read-only ext2 file system on a polled IDE disk, and about twenty system calls.
The programs are an `init`, a login, a shell with pipelines and small filters.

## 1. Inventory

### Components and their state

| Component | Source | State | Operations |
|---|---|---|---|
| Thread scheduler | `threads.h`, `threads.cc`, `context.s`, `pit.cc` (handler) | `activeThreads`, `readyQ`, `zombies`, the TSS, per thread `no_preempt` and a saved stack | `block()` with a lambda, `yield`, `stop`, `thread`, the timer handler, the reaper |
| Locks and queue | `atomic.h`, `queue.h` | `taken` and `was`; `first`, `last`, the items' `next` | `lock`, `unlock`, `add`, `remove` |
| Semaphore, BlockingLock | `semaphore.h`, `blocking_lock.h` | `count`, `waiting`, an interrupt-safe lock | `down`, `up`, `lock`, `unlock` |
| Condition, ReusableBarrier | `condition.h`, `barrier.h` | `epoch` and a queue; `count` and `epoch` | `wait`, `notify`, `notifyAll`, `sync` |
| Future, Barrier | `future.h`, `barrier.h` | a value, a flag or a count, and one semaphore | `set`, `get`, `sync` |
| BoundedBuffer | `bb.h` | a ring and three semaphores | `put`, `get` |
| Pipe | `Pipe.h`, `PipeFile.h` | a ring, three semaphores | `read`, `write` |
| Physical memory | `physmem.cc` | a list of free frames | `alloc_frame`, `dealloc_frame` |
| Virtual memory | `vmm.cc` | page directories and tables | `make_pd`, `map`, the page fault, `delete_private`, `delete_pd` |
| Process, system calls, Shared | `process.*`, `sys.cc`, `shared.h` | slots of files, semaphores and children; reference counts; a `Future` with the exit status | `fork`, `close`, `dup2`, `pipe`, `open`, `sem`, `up`, `down`, `wait`, `exit`, `execl` |
| Kernel heap, user heap | `heap.cc`, `sbin/heap.c` | an array of tagged blocks and a list of the available ones | `malloc`, `free`, `realloc` |
| Files | `file.h`, `file_ext.h`, `u8250.h` | an offset per open file | `read`, `write`, `seek`, `size` |
| Block devices, ext2 | `block_io.*`, `ide.*`, `ext2.*` | a disk; the superblock's numbers; an i-node per `Node` | `read`, `read_all`, `read_block`, `find`, `get_node` |
| ELF loader | `elf.cc` | none of its own | `load` |
| Boot | `mbr.S`, `init.cc`, `smp.cc`, `config.cc` | the stacks, `smpInitDone`, `running`, `howManyAreHere`, `kConfig`, each core's own registers | `kernelInit`, `configInit`, `SMP::init`, `SMP::ipi`, the first process |
| Timer calibration | `pit.cc` | `apitCounter` | `Pit::calibrate`, `Pit::init` |
| Programs | `sbin/*.c`, `crt0.S` | of each: descriptors, children, buffers; the parser's array of commands | `init`'s, `login`'s and the shell's loops, the line editor, the parser, `cat`, `clear`, `echo`, `exit`, `grep`, `pipe` |

### Interaction

`block()` is what everything that waits calls: it picks a thread from `readyQ`,
switches stacks, and runs the caller's lambda on the *new* stack. The lambda
puts the old thread where it belongs (`readyQ`, `zombies`, a semaphore's or a
condition's queue) and releases the lock the old thread took. The timer comes
between any two instructions with interrupts on and calls the same `block()`.
Semaphores make `BlockingLock`, `Future`, `Barrier`, `BoundedBuffer` and `Pipe`.
The heap has a `BlockingLock`, so each `new` and `delete`, the reaper's too, may
block. A system call runs on its own thread with interrupts on (the gates are
trap gates), so another processor, or the timer on this one, interleaves with it
anywhere; what processes share after `fork()` (files, semaphores, futures) is
guarded by reference counts and by the objects' own locks.

Core 0 wakes the others one at a time while those that are awake set themselves up;
the last to arrive makes the first process. `init` then forks `login`, `login` the
shell, and the shell a process for each command, always waiting for the child. All
share what the console reads and, in a pipeline, one `Pipe`. `exec` passes the
words of a line through three buffers: the shell's, the kernel's and the new stack.

### What is hard here

* Between `add(me)` to a queue and the switch away from `me`'s stack, another
  core could run `me`: the lambda is what prevents it, and each user of `block()`
  has a protocol of its own around it.
* `no_preempt` belongs to a thread, not to a core, and `block()` can return with
  it set.
* The heap's lock can block the reaper and threads that are in the middle of
  creating others.
* Reference counts, the table copies of `fork()` and the deletion of ended
  processes run on several cores with no common lock.
* Frames pass from process to process through one list, with faults, `fork()`
  and exits interleaved at each of them; and `vmm_pageFault` does not look at the error code,
  so that a program's touch of what only the kernel may reach is answered with a frame, too.
* Ring indices, heap tags and block arithmetic have boundaries that a short test
  does not meet.
* All cores rise on one temporary stack, and the first half of one core's start overlaps
  with the second half of another's.
* What firmware reports differs: two pairs of registers for the memory, two places for
  the ACPI tables, a loop that does not look at a table's first entry.
* The shell's state lives from line to line: its files, its path string that is
  written to and cut back, its parser's array; and a pipeline leaves both ends of its pipe open in the shell.

`PROJECT.json` lists each hazard at its line, with the properties that watch it.

### What makes each component correct

| Component | Correct if |
|---|---|
| Thread scheduler | a thread runs on one core or is in one queue, never on a stack in use; none is lost or deleted twice; `block()` never changes core on its way; a stopped thread never runs again; a queued one runs in the end |
| Locks and queue | one holder; no interrupt on top of the holder; `unlock` restores the IF flag of *its* core; `add` and `remove` are FIFO and lose nothing |
| Semaphore, BlockingLock | `down` and `up` are those of a FIFO semaphore, although the thread sleeps only after it has let go of its stack; the lock excludes; idle threads never sleep |
| Condition, ReusableBarrier | no notification is missed; nobody leaves a round before all have entered it; all leave |
| BoundedBuffer, Pipe | a FIFO of bytes or items; nobody waits without reason, or with the lock that the other side needs |
| Physical and virtual memory | every frame is free or in exactly one place; a process reads what it wrote, or zero, or what its parent had; the APICs' page survives `fork` and `exec`, and only a program's own touch of it takes it away |
| Process, Shared | every reference count is the number of references; ended processes are deleted; `wait` returns |
| Heaps | tags and links agree; blocks do not overlap and keep their contents; freed neighbours join |
| Boot, timer | no two cores are on one stack; one first process, when all processors of the machine are ready for it; memory size, I/O APIC and jiffies are the machine's |
| Programs | one program reads what is typed; of a line that fits, a command gets the words that its user meant (but for further arguments of a second command), its output is right and the prompt comes back |
| Files, ext2, disk | a path leads to what the disk holds, a read returns those bytes and their number, an unshared file keeps its place |

## 2. Plan

Order: what everything else stands on comes first.

1. `Threads` (with `Scheduler`), `InterruptSafeLock` and `Queue`: done.
2. `Semaphore` on `Threads`, `HeapLock` and `Condition`/`ReusableBarrier` on these:
   done. The abstract `Semaphores` for modules that use several: done.
3. `BoundedBuffer` and `Pipe` over `Semaphores`: done.
4. `Memory` (implements `AddressSpaces`) and `Processes`: done.
5. `Heap` (implements `Allocator`), for the kernel and for programs: done.
6. `Ext2` and `Files` (implements `FileSpec`): done.
7. `Config` and `Startup`, from reset to the first process: done. `Lines`, `Exec`,
   `Programs`, `Commands` and `Shell`, from there to a prompt and around it: done. `System`
   composes the two: done.
8. Theorems of `Threads`, of `Semaphore`, `HeapLock` and the barrier on it, of the queue and its lock, of the heaps, of `Startup` and `Shell` in `System`, of the pipe and the
   bounded buffer, of the files, of `Memory` and of the reference counts of `Processes`: done.
9. Left: page directories per core (`CR3` over `Threads` and `AddressSpaces`); `exec`'s copy
   of segments as stores of `Memory`; the working directory with `cd`, `pwd` and `ls`, for which
   the programs would have to be built in a way that defines what they do (section 8).
10. Left to prove: what commands read and write (`AsTyped`, `OutputRight`) and that the search for a path finds what an
   image says, both by induction over what is read; section 6 says what only TLC checks, and why.

## 3. Modules

A component module has the state as variables, one action per step that another
core, thread or interrupt can come between, and its properties at the end. `MC*`
modules and their `.cfg` give small values to the constants. `Queue`, `BoundedBuffer`
and `Heap` need no definitions for theirs and are run as they are. A definition named
`X_Y` with the word MUTATION in its comment is `X` with a plausible bug; each property
has one that breaks it, named in `PROJECT.json`.

### Threads, Scheduler, ThreadsProofs

`pc[t]` is where a thread is, `"away"` when its registers are saved on its stack;
`frame[t]` has the locals of `block()`. A core has `onCore` (the stack it really
uses), `activeThreads` (what the kernel thinks), the stack in its TSS and its IF flag.
`block()` is six steps: entry, the choice of `next_tcb`, marking it, setting
`activeThreads`, the context switch up to the call of the lambda, and the lambda
(`handler[c]`), which runs on the new stack with the interrupts off. The timer
(`Tick`) comes at any point with interrupts on. `readyQ` and `zombies` are used in
one step each: module `Queue` shows that this is what their code does. `Scheduler`
says it in a few lines: a thread is running, ready or ended.

### InterruptSafeLock, Queue, Fifo, ListsProofs

The lock instruction by instruction, with the field `was` that all cores share, and
interrupt handlers that come between any two instructions and call the same queue.
`Queue` is on top of it, one write of `first`, `last` or `next` (the variable `next_`) per
step, and implements `Fifo`, in which each item is once (`DistinctSpec`). `ListsProofs` has
the theorems about this list and about the heap's.

### Semaphore, SemaphoreSpec, HeapLock, Condition, ReusableBarrier, Semaphores, BarrierProofs

`Semaphore` extends `Threads`: `down()` takes the lock, calls `block()` with it, and
the lambda queues the thread and lets go. `HeapLock` puts one such lock around
everything that calls `malloc` or `free`: threads' work, the reaper's `delete`, and
`thread()`, by a booting idle thread too. `Condition` and `ReusableBarrier` do the same for
the monitor. `Semaphores` is the abstract semaphore, as records, for modules that
need several and no scheduler. The theorems about `Semaphore` and `HeapLock` are in `ThreadsProofs`.

### BoundedBuffer, Pipe, PipeSpec

One step per line that touches shared state: the semaphores, the test, each byte.
`BoundedBuffer` implements a `Fifo` of `N` items, and `PipeSpec` says that a call happens at one
instant between its start and its return. `BoundedBufferProofs` and `DescriptorProofs` have the
theorems; each begins with the lemmas about `Downed`, `Upped` and rings that it needs.

### Memory, AddressSpaces, MemoryProofs

Frames, page directories and tables with their entries, and processes that fault,
store, fork, exec and exit one frame at a time. `AddressSpaces` has no frames: a
process has pages with values. The last page table is that of the APICs' region: its entry in the
directory has no bit for programs, so a program that touches a page there faults although the
page is mapped, and `map()` overwrites the entry. The frame that it held is lost, or the
APICs are no longer mapped; then the program faults again.

### Processes, ProcessesProofs

The slots of the three tables, the objects they refer to with their counts, the
`Future` of each child, and for each process the place in its system call, with the
local reference that a call holds while it waits or reads. A new process is one that
no other call knows any more (`Unused`): two parents in `fork()` get two objects. The first process
is like any other, and `initProc` is the local reference of `kernelInit()` to it, which goes
(`InitReturn`) at any time after the thread is scheduled. `Delete` is the rest of an end: the reaper's
drop of the thread's reference, and what the last reference takes with it.

### Heap, Allocator, ListsProofs

The array of words with its tags and the list of available blocks, written as the
code writes it, from `heap.cc` or `sbin/heap.c` by the choice of `tries`. One call is
one step, since the caller holds the heap's lock (`HeapLock`) or is a program with
one thread. `Allocator` is a map from blocks to their contents.

### Ext2, Files, FileSpec, DescriptorProofs

`Ext2` has no state: the disk is a constant, and mounting, i-nodes, blocks, names,
paths and links are functions of it. A link that leads nowhere is a page fault in the kernel (`Fault`), for
`open()` loops on a `Shared` that is null; the process that opens it is killed. `Files` has the open files and, step by step,
`read()` down to the registers of the drive. The offset is loaded once and added to with
one unlocked instruction, because that is what g++ makes of `file_ext.h` at the `-O3`
of the Makefile. `FileSpec` is a file that reads at one instant.

### Config, Startup, StartupProofs

`Config` is `configInit()` as a function of what the firmware left: areas to search,
tables, entries, and the registers of the BIOS call. `Startup` is each core's way from reset
through `mbr.S` and `kernelInit()`: a label per core, the stack it is on, the set of its
own registers that are set up (`tools`), and core 0's loop with its `id` (`waking`). A core
that is woken becomes `reset`; one that the machine does not have stays off
(`Present` is external). Pit calibration is the counter's value for any phase.

### Lines, Exec, Programs, Commands, Shell

`Lines` is the line editor, key by key, and the parser, which cuts words out of the buffer in
place. `Exec` is what `exec()` makes of a name, what the kernel prints on the
console when it is no program (`KernelSays`), and the stack it lays out, in bytes, from which `main()` reads its arguments. `Programs` has the processes as records: program, place in it,
parent, descriptors and the program's own variables; a step is a system call with the
program's own work around it, for nothing else of one process shows to others. `Commands`
has the small programs and what a user expects them to print, `Shell` the loops of `init`,
`login` and the shell, and the properties. The files are those of `Files` as whole texts,
`Pipe` is a sequence, and `fork`, `dup2`, `close` and `wait` are those of `Processes` on one process's
table.

### System

`Startup` and `Shell` side by side: `Begin` is the step in which a core takes the first thread,
which is the start of `init`.

## 4. Runs

| Run | What it asks, and the bounds |
|---|---|
| `threads` | Two cores, their idle threads, the reaper and two threads that end and are made again: a thread can be preempted at each step while another core takes, buries or deletes another. Two threads are enough for a zombie to be deleted while the other computes with `no_preempt` set on the other core. |
| `queue` | Two cores and three items, calls by threads and by handlers: a queue that is empty, has one item, or has several, at each write. |
| `heap_lock` | Two cores. Three threads besides the idle ones, with `down()` and `up()` at will and a count up to 1: one in `down()`, one in `up()` and one that waits. The same lock as the heap's, with the reaper and the booting idle threads as users, so that the reaper waits behind another. |
| `reusable_barrier` | Two parties, two cores, two rounds: one round's slow leaver meets the next round's first. |
| `bounded_buffer` | Four threads, two slots: two that put and two that get at once, full and empty. |
| `pipe` | Two writers, one reader, two bytes, writes of one and of three bytes: full, empty, wrapped, and a write that does not fit. |
| `memory` | Two processes of three page tables, the last one the APICs', with two entries each, and nine frames: `fork` succeeds, or runs out of frames half way, and a program faults at the APICs' page and beside it until none is left. States that differ only in the names of frames are one (`VIEW`); where an entry is none that it may be, or a frame has two uses, they are told apart. |
| `processes` | Two processes at a time, the first one included: each can be the parent, the child, or be deleted before its child and made again. Two file slots, one semaphore and one child slot: full tables, `close` while another uses, a child that ends before its parent is back from `fork`. |
| `heap` | 20 words, requests of one word and of five: splitting, rests that are too small to split off, joining on both sides, the second best fit, and no room. |
| `files` | Two processes, one file of their own and one shared, a file of 9 bytes in blocks of 4 and sectors of 2 with two direct references: reads that start and end inside blocks, cross into the indirect block, or start past the end, a file of 3 bytes through two links, and a link that leads nowhere; the offset wraps at 13, which only races on the shared file reach. |
| `system` | Three cores on machines of three, two and one processors, which report their memory in one pair of registers, in the other or in both, and their tables in either area; then a user with a right and a wrong name and password, and up to five typed lines in all, those for the shell out of fourteen: each command alone, two pipelines that fit, one whose second command has two arguments and one whose first command does not exist, a directory and a text as commands, an unknown command, corrections and TAB, a line too long, and a text that no pipe has room for. Five lines are name, password and three for the shell, so what one line leaves behind meets the next two. The buffers are scaled (`LineBytes` 19, `NameBytes` 5, `PipeBytes` 8, `CopyBytes` 3, `FgetsBytes` 4, `NFILE` 6) so that these lines reach each limit; eight processes are more than the lines can make. |
| `opened_files` | Expected to fail: `open()` of a directory succeeds, against the comments in `sys.cc`. |

Deadlock is checked except where the system may stop: in `bounded_buffer` and
`processes` all may wait for an item or an `up()` that nobody gives, and in `memory` the
kernel panics when frames run out. In `system` the user may stop typing or shut the machine
down.

## 5. Fairness

* Cores keep executing (weak fairness of each core's step), and the timer keeps
  firing (weak fairness of `Tick`). That is the hardware.
* A thread that gets a core again and again makes progress in its own code (strong
  fairness of `OwnStep`): the timer's period is many instructions long. What a thread
  computes between its calls need not end: `Finish` has no fairness, and `ReadyRuns`
  holds all the same, because the reaper yields for ever and so passes through the queue.
  In this module the reaper waits for nobody; for what changes with the heap's lock, see below.
* Calls of the heap have no fairness in `Threads`: `DeleteZombie` and `Spawn` may wait for its lock.
  `EndedIsDeleted` has as a condition that they return (`HeapAnswers`).
* `Pipe` and `Processes` assume weak fairness of each thread inside the kernel. That is
  what `ReadyRuns` gives them as long as the reaper does not wait for the heap's lock, and it is
  an assumption where it does. Nothing is assumed about programs, and nothing about deletions: that
  these come to an end is the condition `DeletionsFinish` of `EndedIsDestroyed`.
* `System` assumes that some core that can boot goes on, that a core takes the first
  thread, and that some process that is ready goes on: weak fairness of `Boots`,
  `Begins` and `Runs`, each of all cores or processes together, less than `ReadyRuns` gives. The
  user has none: `PromptReturns` is about lines that were given.
* The barrier's run assumes that every party comes to each round. Its threads are there from the
  beginning, and none ends.
* In `HeapLock`, where the reaper can wait for the heap's lock, `ReadyRuns` would need
  more: two cores can be held by threads that left `block()` with `no_preempt` set and
  compute for ever, while the reaper is in the queue behind them. `HeldWithoutReaper`
  says exactly when that can be, instead of a liveness property that would have
  to assume that the threads' work ends. This is why the properties above have their conditions.

## 6. Proofs

`ThreadsProofs` proves, for every finite set of cores and every set of threads, from the
three assumptions on the constants in `Threads` (there is a core; the reaper is a
thread; each core has an idle thread of its own): `TypeOK`, `OnePlace`,
`BlockStaysOnItsCore`, `IdleAsserts`, `InterruptDiscipline`, `SomeCorePreemptible`,
`StopIsFinal`, and that `Threads` implements `Scheduler`. On top of that it proves of `Semaphore`, for any
initial count, `LockHeldBriefly`, `SemOnePlace` and that it implements `SemaphoreSpec`;
and of `HeapLock`, from `Initial = 1`, the same, `HeapExclusive` and `HeldWithoutReaper`.

`OnePlace` is not inductive. That a thread cannot be resumed twice depends on where its
stack is: `IInv` says of every thread that is away from a core that it is in `readyQ`,
in `zombies`, chosen by some `block()`, named by a pending lambda, being deleted or parked,
and in one of these only (`ReadyOK`, `NextOK`, `ZombiesOK`, `CorpsesOK`, `CallsOK`, `ParkedOK`,
`NoneLost`); that a core executes the thread it is on, which `activeThreads` and the TSS
name except in the two steps around the switch (`CoresOK`, `ActiveOK`); that inside
`block()` the thread cannot be preempted (`ActiveOK`), so that the `core_id` in its frame stays
true (`FramesOK`); and what the interrupt flags are (`InterruptsOK`). Each action
disturbs a few of the conjuncts; there is one lemma per action (`PickReadyInv`, ...).

`JInv` adds what the other properties need: a thread that is switched to has its
`no_preempt` clear (`ResumedOK`), an idle thread never yields (`IdleOK`), and the reaper never
leaves its loop (`ReaperOK`). Then at every moment the reaper is queued, chosen or
running, so that the last core to be lost would have had a non-empty queue and would
not have returned from `block()` with the flag set: `CoreFree`, and from it
`SomeCorePreemptible`. `Refines` maps the steps of `Threads` under `JInv`: a lambda that
ends, a new thread and a deletion are steps of `Scheduler`, all others stutter.

Both invariants have a parameter, the set of the threads that are parked outside the scheduler; it
is empty in `Threads`. In `Semaphore` it is `Parked`, the threads in `waiting` and in `woken`. A step of
`Threads` keeps `JInv` of any such set (`StepJInv`), whatever labels the threads' own code has;
the lambda of `down()` adds a thread to it and `up()`'s `schedule()` takes one away, which are
the two steps with a proof of their own (`DownHandlerJInv`, `WakeJInv`). `SInv` adds that the lock of the semaphore is
held exactly while one thread is between its test of `count` and its lambda, and that `count` is 0 then
(`LockOK`): nobody else can have called `up()`, so the lambda is still right to queue the thread. `WaitOK`
says that `waiting` and the `woken` of the callers of `up()` have a thread once, and that a `woken` is
not empty only where `schedule()` is next.

For the heap's lock, `HeapOK` ties `count` to the thread that is past its `down()`, in it or passed by `up()`.
That no idle thread waits is not inductive. `BootOK` says why it is so: while an idle thread is
on its way to the first thread, no other is, there is no zombie to delete, and
no other thread calls `malloc()`, so that `count` is 1 when it does. `CoreFree` has the exception of
`HeldWithoutReaper` in it; in `Threads` nobody ever calls `down()`.

`IdleAsserts` and `InterruptDiscipline` have no run of their own: they are proved.

`BarrierProofs` proves `NoMissedSignal` and `InStep`, for any finite set of cores, any finite set of threads
(`initial_count` is their number) and any number of rounds. It does not repeat the proof about the scheduler. `T` is
`ThreadsProofs` with other state: a thread in `sync()` is seen at `"work"`, a frame or a lambda of `wait()` is seen
as one of `down()`, and interrupts are seen on in the monitor and off in a `wait()` that blocks. Seen so,
every step of the scheduler is that step of `Threads` (`SeenStep`), a step within `sync()` is none
(`SyncingJInv`), a `wait()` that blocks and its lambda are steps that park a thread (`SeenWaitBlock`, `LateHandlerJInv`), and a
`notifyAll()` wakes one (`WakeJInv`); so `JInv` holds of what is seen, with `Waiters` as the threads that are parked. Back
in the real state it says where a thread may be (`RealCores`, `RealFrames`), and from there `BInv` goes on: interrupts are off in the
monitor (`MonitorOff`), which has one thread at a time (`MonitorOK`); who is in the queue came for the present epoch,
but while `notifyAll()` empties it (`WaitersOK`); and a thread in `sync()`, running or preempted, is in a round that is
over or in the present one, of which `count` says how many are yet to come (`RoundsOK`).

`ListsProofs` proves `MutualExclusion` and `RestoresInterrupts` for any set of cores. The
invariant follows the flag that `lock()` found: while a context is on its way
through the lock its core's IF is off, and the flag is in the caller's local variable or, from
the store to the release, in the field `was` of the lock. That nobody else writes `was` meanwhile is
the exclusion; that no handler comes on top is the cleared IF; each needs the other.
`QueueIsFifo` proves, for any finite set of items, that the list implements `Fifo`. Its contents
are `Chain`, what one meets when one follows `next` from `first`. `ListInv` says what the context
inside the lock has in hand at each label (`HandOK`: the item to link is linked to nothing and not yet in the
list, the item to be `last` is at its end, the item to take is its first) and that `last` is the
end of the list unless that is empty, but between the two writes of `add()` (`LastOK`). `AddLink`
appends to the chain, `RemoveAdvance` takes its head; the other writes do not show.

`StartupProofs` proves about `System`, for any number of cores, that no two share a stack
(`NoSharedStack`), and, assuming that the firmware describes the machine it is in
(`DescribesMachine`: as many processors counted, and the memory and I/O APIC found, as there are;
what `Config` computes of a table is checked by the run), that `init` is made once and when
all are ready (`InitWhenReady`). The invariant orders the cores by `waking`, the `id` of core
0's loop: those below it are past the temporary stack, those above it are off, and the
one in between may be on it only while core 0 waits. That core 0 waits long enough is counting:
`running` is the number of cores past `Join`, `howManyAreHere` of those past `Arrive`.
Under the same assumption `OneReaderAtATime` proves that of any number of processes, with any files and
lines, one at a time is not waiting. The invariant `TurnOK` is a turn: there is nobody before
`kernelMain()`, which one core calls once because `init` is made once; `fork()` passes
the turn to the child, since each program here waits behind its `fork()`; and the child that a
`wait()` finds ended had the turn, so that nobody else has it when the parent goes on.
A waiting process knows its child, and what it is (`Forkers`), which decides where `wait()` returns to.

Of pipes `DescriptorProofs` proves `NeverBlocksLocked` for any readers, writers, texts and capacity: for each line of
the thread that holds the lock, `Inv` says where `read_sem` and `write_sem` stand against
`count`. They are one behind between `down()` and the change of `count`, and nobody else sees it.
It proves too that the ring implements `PipeSpec` (`CallsAtOnce`). A call is seen to happen in the step
that gives the lock back; until then the contents are what they were when it got the lock
(`Settled`): without the bytes that a `write()` has put so far, with those that a `read()` has taken.
For that `RInv` adds that the indices and `count` delimit the ring, and what each call
has moved: a `write()` the beginning of its bytes, which is the end of the ring (`CallsOK`).

`BoundedBufferProofs` proves `WaitsWithReason` for any finite set of threads and any
number of slots. The invariant accounts for the slots: free, held by a `put()` that has
not counted yet, counted in `n`, or held by a `get()` that has not given it back; and
likewise for the items in `n`. The sets of threads are disjoint by label, except that a thread that was
passed by `up()` moves from the queue to the holders without a step of its own.
`FirstInFirstOut` proves that the ring implements `Fifo`: an item is in the queue from `n++` to the
read of `data[head]`, and the account of the slots says that `n` is below `N` at the one and above
0 at the other, which no line tests. The lemmas about rings (`RingAppends`, `RingTail`, ...) are in both modules.

`MemoryProofs` proves `FramesAccounted`, `OnlyOwnTouchUnmapsDevices` and that `Memory` implements
`AddressSpaces`, for any processes, page tables, entries, frames and values. What the properties say
of a running process has to hold through the loops that build and empty its address space, so
`Inv` says what is done at each point of them. No frame has two uses, or one while it is free
(`AccountedOK`; not that every other frame has one, for the APICs' region loses some); nothing is mapped for a process that is not there, and a page only through a
page table (`IdleOK`, `MappedOK`); a child belongs to one `fork()`, has no page beyond the point that the
copy has reached and equal ones before it (`ChildOK`, `BlankOK`, `PartOK`, `CopyOK`); a deletion has
left nothing behind it but the table of the APICs, and that only in `exec()` (`DeleteOK`);
who runs has that table (`RegionOK`);
the frame of a page fault is cleared, and its page is still unmapped unless it is one of the APICs' (`FaultOK`). That a step loses
no frame but by their region (`NoneLost`) is shown with each step, from the one or two uses that it changes. The
copy can be seen to be exact because the parent is in `fork()` all the time and does not store.
From `MemoryAssumption` the proofs use that `Choice` takes something from a set that has something.

`ProcessesProofs` proves `Counted` for any finite set of processes and any numbers of slots. All `Shared<>`
of a state, in slots, as the exit status' `Future` or as a call's local reference, are one function
(`Now`), and the lemmas `Set`, `Cleared` and `Assigned` say what assigning one of them does to a count. Each step sets or clears one or two.
A step that sets one without dropping what was there is right only if it was null: `Blank` says that of the
slots that `fork()` has not come to, of a new process and of what a call holds. For the
references to processes, `Kin` says that a process is the child of one `fork()` at most, which is
at the point where the child is: not running yet, running, or deleted meanwhile. `InitHolds` is
about the first process: as long as `kernelInit()` refers to it, it is not deleted, and no `fork()` gets it for a child. All this needs that `new` does not return a
process that another `fork()` still knows, hence `Unused`, and that `Choice` takes from what it is given.

Of the heap `ListsProofs` proves `HeapSound` (`HeapIsSound`) and that it implements `Allocator`
(`HeapIsAllocator`), for a heap of any length that `HeapAssumption` allows, any sizes asked for, and the choice of
blocks of the kernel and of the programs alike. The properties speak of what one finds by walking:
`Blocks` from tag to tag, `AvailList` from link to link. The invariant names both instead
(`State(h, g, L, u)`): a map `g` from the blocks to their tags tiles the heap, with
no two available neighbours (`Tiling`, `NoNeighbours`), both tags of each block agree with it
(`Tagged`), a list `L` of the available blocks is linked both ways from `avail` (`Linked`), and
the others, but the two at the ends, are in use with room for what was asked (`InUse`). Then `remove()`,
`makeAvail()`, `makeTaken()`, the split and the four kinds of joining are lemmas about `g` and `L` (`RemoveLinked`,
`CutTiling`, `JoinTiling`, `JoinedState`, ...). That a link is never written in a block's tag or in words in use is
`TagsNotLinks` and `RestInUse`, from which the refinement follows. `BlocksAreTiles` and `ListIsAvail`
show that walking finds `g` and `L` again.

`Chain`, `Blocks` and `AvailList` are recursive functions. That such a function has a value, and which, needs
an induction; the library's theorems for that take an operator as a parameter and cannot be used, so
`UnfoldingsExist`, `RestOfList` and `FindsTiles` take the least number for which the claim
fails (`LeastNat`, from the well-foundedness of finite sets ordered by inclusion) and show that there is none.

Of files `DescriptorProofs` proves `ReadsContent` (`ReadsFromDisk`) and that `Files` implements `FileSpec` (`ReadsAtOnce`),
for any disk, processes, files and calls. Two things are assumed of the disk. What a path that is opened leads to is whole
(`OnDisk`: each of its blocks has a number within `read_block()`'s assertions and lies on the disk, and its
size fits its register), and blocks are whole sectors (`BlockAssumption`). And `AllRightlyFound`, the hypothesis of both
theorems: for every path the search finds what the image has there. It has no variables, and TLC evaluates it for the disk of
run `files`; all that happens while processes read is proved. First, what the loops of
`BlockIO` return: `TurnOfBytes` is one turn and `ReadAllValue` all of them, by the least number of bytes for which they would be wrong;
`NodeBlocks` and `IdeReadAll` say it of a node and of the drive. The invariant `FilesInv` says of each `read()` that its buffer has the
cells of the node up to `offset`, and of one that fetches which sectors it has and which are to come (`Fetched`), so that the
step from sectors to a block and to a piece of the file is `TransferOK`, `GotIndirectOK` and `GotBlockOK`.
The sector register is right because only the holder of the drive's lock writes it (`RegistersOK`). For the refinement,
`OffsetOK` says that nobody moves the offset of an unshared file during a `read()`; then the sum that
`AddStore` writes stays below `2 ^ 32`, and the whole `read()` happens there.

Only model-checked: liveness (fairness and ENABLED are out of the prover's reach), and
what `System` says of the words and the output of commands (`AsTyped`, `OutputRight`): the
parser of `Lines` works key by key on a buffer, with an outcome that is compared with what the user meant for the lines of the run.
`AllRightlyFound` for other disks is not proved either: it is an induction along paths, directory entries and links.

## 7. Findings

`open()` refuses `nullptr` where its comments say it refuses directories (`sys.cc:261-271`);
run `opened_files` opens one. What else was met while reading is in `PROJECT.json` as
hazards: no `Pipe` is ever deleted, a `pipe()` that fails with one slot free leaves its read end open in it,
and the working directory of a new process is a literal that programs write to.

## 8. Not modelled, and why

The components' notes in `PROJECT.json` say it for each; in short:

* Descriptor tables, port and register access, output and formatting (`snprintf.cc` and
  `printf.c` are vendored libraries): no state that the rest depends on. Their effect (which
  gates leave IF on, what `iret` restores) is in the modules that use them.
* `cd`, `pwd` and `ls`, with the working directory in the kernel and `readdir`: the programs write
  through pointers to empty string literals before they call the kernel, so what they do depends
  on the linker's layout.
* `shell.c`: it is built and is on the disk image, but nothing starts it unless a user gives it as a command.
* Lines that do not fit. Of the name of each command in a pipeline the shell copies four bytes, the size of a
  pointer (`our_shell.c:58`, `72`), so a longer one is another name; of the second command's arguments it passes
  one (`82`); in a shell that is the child of one, after an unknown
  command, a shorter name keeps the end of that one (`96`); a first command with more output
  than the pipe has room for waits for ever, since the two run in turn; and each pipeline leaves two descriptors
  less. After `exit` there is no prompt. `Fits` and `RightlyPiped` name these, and `OutputRight` and `PromptReturns` say nothing of such lines;
  `AsTyped` says nothing of a second command with more than one argument. The run has lines of most kinds, and what
  they leave behind meets the lines that follow.
* What the shell does with malformed pipelines (no second command, more than one bar, an unknown second
  command), with `login` or `our_shell` given as commands, with `grep` without a pattern or
  without a file outside a pipeline: it reads what its arrays hold from before, or starts
  another program that reads. The lines of the run have none of these.
* What an exception in a program does to it: it ends like one that calls `exit(1)`, which is in the modules.
* What the kernel itself reads or writes in the APICs' region when a program gives it such an address.
* Firmware in whose table the base processor is not first, or is followed by bytes that look like a
  processor: the loop in `config.cc` relies on that, and `DescribesMachine` states it.
* The checks of user addresses in system calls: calls are made with valid ones.
* Errors of the disk: the driver panics.
* Weak memory: each step is atomic and all cores see it at once. x86 delays a core's
  own stores only, and the exchange in `lock()` waits for them.
* Two details of the build that the programs rely on: `status` shares the stack slot of
  `pipefd[0]` in the shell, which is dead by then, and the frame that `execvp()` hands to the kernel
  has `argv[0]` where `exec()` looks for its arguments.
