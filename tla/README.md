# A verification project for the teaching kernel of OS_online_course

The repository holds the sources of a course on operating systems: a small
x86-64 kernel that grows from week to week, in copies. These TLA+ modules model
the last and most complete copy, `src/week5/syscall`, two programs that exercise
its synchronisation (`src/week4/sync`), and two locks the lectures give in
pseudo-code (`src/week4/sync/*.tex`). File names below without a
directory are in `src/week5/syscall/src`.

## 1. Inventory

The kernel runs on one CPU, with preemptive kernel threads and a timer
interrupt. All concurrency is of two kinds: the timer interrupt between any two
instructions when RFLAGS.IF is set, and, through it, other threads when
`preempt_count` is 0.

| part | files | state | operations | hard because | correct when |
|---|---|---|---|---|---|
| scheduler | `threads.c`, `lock.c`, `entry.S` | `current`, `ready`, `remained_time`, `preempt_count`, the IF flag, per thread `state` and saved context | `schedule`, `scheduler_tick`, `scheduler_idle`, `thread_start`/`wake`/`block`, `switch_threads`, spinlocks | the tick interleaves with everything; `schedule` reads and acts in several places | one thread runs, every runnable thread is in the queue once, spinlocks exclude, nobody starves |
| thread life cycle | `threads.c`, `entry.S` | `state`, `retval`, `cv`, `lock`, stack, `mm` | create, start, exit, join, destroy | exit runs on the stack that is to be freed; join sleeps on a state that changes | nothing freed is in use, no joiner sleeps for ever, join yields the exit value |
| mutex | `mutex.c` | `owner`, wait list | lock, unlock | hand-over to a thread that is asleep; list entries on stacks | exclusion, FIFO order, no lost wake-up |
| condition | `condition.c` | wait list | wait (three lock kinds), `notify_one`, `notify_all` | release-and-wait in steps; `notify_all` outside the lock | behaves as one atomic release-and-wait |
| buddy allocator | `buddy.c` | zones, per order lists, page descriptors | setup, alloc, free | splitting and uniting on indexes; stale descriptors | blocks exclusive, aligned, fully united |
| slab allocator | `slab.c` | per cache three lists of slabs, per slab a free list | alloc, free, shrink, release | the list a slab is in must match its count | objects exclusive, slabs returned only when empty |
| bootstrap allocator | `balloc.c` | two sorted arrays of ranges | add, remove, find, setup | merging and splitting at touching bounds; fixed capacity | arrays sorted, disjoint, equal to the set they stand for |
| paging | `paging.c` | page-table trees | map, unmap, map of all memory | recursion over four levels, large pages, partial failure | the tree means the intended map, no page leaks |
| address spaces | `mm.c` | sorted list of areas, a page table | mmap, munmap, copy, fill | undo after failure, release of inner tables | areas disjoint, page table agrees with areas |
| exec | `exec.c` | the new address space, the thread's `mm` and frame | load, argument copy, switch | each step may fail | a failed exec changes and leaks nothing |
| RAM files | `ramfs.c`, `inc/ramfs.h` | list of files, each a list of pages with gaps, one mutex | create, open, close, read, write | gaps, partial writes, memory that runs out in the middle | reads return what was written |
| initramfs | `initramfs.c`, `misc.c` | position in the archive | find the archive, walk over it | padding, an archive that was cut off | every file that is whole is made |
| lists | `list.c`, `inc/list.h` | circular lists of pointers | init, add, splice, delete, first, empty | an item in two lists, a splice of an empty list | the pointers stand for sequences |
| console | `vga.c` | the screen and a cursor | `putchar`, scrolling | a full row, the last row, other threads that print | whole messages in order |
| C library | `stdlib.c`, `string.c`, `print.c`, `backtrace.c`, `ctype.c` | none | conversions, moves, formats, the walk over frames | limits of width, overlaps, a broken stack | what the callers expect |
| interrupts, timer | `ints.c`, `apic.c`, `time.c`, `entry.S` | vector table, busy flags | dispatch, allocate a vector | masking discipline | one handler per vector |
| boot | `bootstrap.S`, `main.c`, `misc.c` | none the others depend on | | | |
| producer and consumer | `week4/sync/producer-consumer/example.cpp` | a slot, two flags, a lock, a condition | produce, consume, finish | one condition for both directions, spurious wake-ups | every item printed once, in order; both threads end |
| locks of the lecture | `week4/sync/rwlock.tex`, `rwreg.tex` | registers: three counters of tickets; flags and last ones | lock and unlock, for reading and for writing | counters that wrap around; flags read one at a time | a writer is alone, nobody starves |

Interaction: `threads.c` calls `condition.c` (a joiner waits on the condition of
its target, the dying thread notifies it), which calls back `thread_block`,
`thread_wake` and `schedule`; `mutex.c` uses the same three. The memory side is
layered: `balloc` feeds `buddy`, `buddy` feeds `slab` and `paging`, all three feed
`mm`, and `threads.c` and `exec.c` use `mm`. All memory operations run under a
spinlock with interrupts masked; `ramfs.c` uses the mutex. `initramfs.c` makes files of
`ramfs.c` before there are threads, `exec.c` reads them. Everything queues on the lists
of `list.c`.

`PROJECT.json` lists, under "hazards", what can go wrong in this code that a test
would hardly reach, at its line, with the property that covers it.

## 2. Plan

Order, most important behaviour first; what is done is marked.

1. (done) `Scheduler`, `Threads`, `KernelProofs`: scheduling and the life of a
   thread, checked, and its invariant proved.
2. (done) `AbstractLock`, `Mutex`, `MutexDemo`; `AbstractMonitor`, `Condition`;
   `ProducerConsumer`: the synchronisation primitives and their programs, with the
   abstract lock and monitor they implement.
3. (done) `AbstractAllocator`, `Buddy`: the page allocator.
4. (done) `BootMemory`, the bootstrap allocator and the start of the buddy allocator
   it feeds; `Slab`, over a pool of aligned blocks.
5. (done) `PageTable`, the walks over page tables; `AddressSpace`, areas over them,
   with memory that runs out.
6. (done) `Exec`, every call and its undo, over `AddressSpace`; `BootPaging`, the
   first page tables.
7. (done) `AbstractFiles`, `Ramfs`, `Initramfs`; `Lists`, pointers against sequences,
   with their proof in `FilesProofs`; `Console`; `Library`.
8. (done) the locks of the lecture: `RWLock` and `PetersonLock`, with `LocksProofs`.
9. (done) proofs: the invariants of the mutex and of the monitor, and that they
   implement `AbstractLock` and `AbstractMonitor`; conservation of items in
   `ProducerConsumer`; Peterson's lock; the slab allocator; memory at boot; the blocks
   of the buddy allocator, and that it implements `AbstractAllocator`; the RAM files,
   and that they implement `AbstractFiles`; the tables, areas and copies of address
   spaces; `exec`'s all or nothing.
10. (open) proofs: the bytes `exec` leaves a program; the lines of `Console`.
11. (open) the table of vectors of `ints.c`; `AddressSpace` with the objects `Slab`
    gives it, to see the one a failed mmap leaks.

## 3. How the modules model the code

**Atomicity.** `Scheduler` derives it from the code's own masking. A stretch that
runs with IF clear is one step, since nothing can come in between on one CPU.
Where IF is set, every statement on shared state is a step, and the action `Tick`
may be taken between any two: it does what `scheduler_tick` does, so whether
another thread gets in is decided by `preempt_count`, as in the kernel.
`cpu` is the thread whose stack is in use and `current` the kernel's variable: the
two differ from `switch_threads` to `thread_place`. `context[t]` is "live" for the
thread that executes, or the IF value its `schedule()` will restore.
`local_int_save` and `local_int_restore` are taken to be compiler barriers, as
the code relies on.

| module | models |
|---|---|
| `Scheduler` | `schedule` (`Schedule`, one disjunct per early return and per way out), `thread_place` (`ThreadPlace`), `switch_threads` and its return (`SwitchThreads`, `Resume`), `scheduler_tick` (`Tick`), the idle loop, `thread_start`, `thread_block`, `notify_one`, spinlocks |
| `Threads` | `thread_create`/`start`/`join`/`exit`/`destroy`, the return path in `entry.S`; a thread's function is any program of these calls, yields and spinlock sections |
| `Parts` | `ProducerConsumer`, `Slab` and `BootMemory` as instances with variables of their own, and the properties of each that are both checked and proved |
| `KernelProofs`, `LocksProofs`, `PartsProofs`, `FilesProofs` | proofs about the components that the runs of `MCKernel`, `MCLocks`, `MCParts` and `MCFiles` check (section 5) |
| `AddressSpaceProofs` | proofs about `PageTable`, `AddressSpace` and `Exec` |
| `MutexProofs`, `ConditionProofs`, `SeqLemmas` | proofs about single modules, which the former use, and facts about sequences |
| `AbstractLock` | a FIFO lock: what `inc/mutex.h` promises |
| `Mutex` | `mutex_lock` and `mutex_unlock`, statement by statement, for any caller |
| `MutexDemo` | the program of `week4/sync/mutexes/src/main.c` |
| `AbstractMonitor` | a FIFO lock with an atomic release-and-wait |
| `Condition` | `condition_wait`, `notify_one`, `notify_all`, and clients that call them in any order, with or without the mutex when they notify |
| `ProducerConsumer` | `example.cpp`; `std::mutex` and `std::condition_variable` are external and may wake spuriously |
| `AbstractAllocator` | an allocator of aligned, exclusive blocks |
| `Buddy` | `buddy_setup`'s freeing of ranges, `buddy_alloc` zone by zone, `buddy_free` |
| `BootMemory` | `balloc.c`: `__balloc_add_range`, `__balloc_remove_range`, `balloc_find_range`, `__balloc_alloc`, `balloc_free`, the reading of the memory map, and the walk that hands what is left to the buddy allocator |
| `Slab` | `slab.c`: set-up of a cache, `slab_cache_alloc` by its three ways, `slab_cache_free`, shrink in two steps, release |
| `PageTable` | `paging.c`: `pt_addr`, `pt_map`, `pt_unmap` as functions on memory |
| `AddressSpace` | `mm.c`: every operation, with the memory for tables and pages running out |
| `Exec` | `exec.c`, call by call, each with its failures, on the memory of `AddressSpace` with bytes in the frames |
| `BootPaging` | `paging_setup`, table by table, from the pages `balloc` has |
| `Lists` | `list.c` on `next` and `prev`, beside the sequences the other modules use |
| `AbstractFiles` | files whose reads and writes are single steps; a write may fall short, a read not |
| `Ramfs` | `ramfs.c`: the loops of read and write page by page inside `ramfs_mtx` |
| `Initramfs` | `initrd_find` and `parse_cpio`, entry by entry |
| `Console` | `putchar`, character by character, and threads that print |
| `Library` | functions without state: a behaviour is one call with its result, compared with a definition of what it should be |
| `RWLock` | the lock for readers and writers of `rwlock.tex` |
| `PetersonLock` | Peterson's lock for N threads of `rwreg.tex`, one access to a register at a time |

The modules whose names begin with MC give instances to TLC. Components that share no
state are checked side by side in one run (`MCKernel`, `MCWaiting`, `MCFiles`,
`MCParts`, `MCLocks`): the variable `on` names the component that moves and the others
stay in an initial state, so the run explores the union of the components' state
spaces, not their product. Their properties say `on = "..." => ...` where the resting
state says nothing, and are the component's own where it has them too (`AllOrNothing`
and `ImageOK`, before exec's first call); `AllFairSpec` repeats each component's fairness for its own steps.
The modules of proofs extend `MCKernel`, `MCLocks` and `Parts`, so a theorem is about the
very property a run checks.

Choices worth knowing. A thread object has a `life` of its own in `Threads` (free,
created, started), which the code keeps only in the slab; only the creator of a
thread starts, joins and destroys it, as every program of the repository does.
The loops of `__buddy_alloc_zone` and `__buddy_free_zone` run under one lock, so
each is one step; their effect is written as what the lists and descriptors become,
with the order reached as the unknown. Page indexes stand for descriptors and
addresses. `list_del` of a descriptor in no list, which the C code would carry out
on stray pointers, changes no list: the mildest outcome.

In `BootMemory` addresses do not wrap, entries of the memory map are not empty, and
a caller that gets 0 stops the machine, as all callers of `__balloc_alloc` do. In
`Slab` the release of a cache does not race with its use: that is the caller's duty.
In `AddressSpace` a call is one step, because an address space belongs to one
thread and what threads share, the allocators, gives nobody what another has.
`PageTable` takes the lowest free block that fits; which one it is only renames
frames. The kernel's half of the tables, which all share, is left out with the mmaps
that reach it (see `Exec`), addresses count pages, and what a free frame holds is one
fixed value. `Excluded` leaves out
two kinds of call whose effect on other areas is a finding of its own (section 4), so
that `address_spaces` says what holds without them.

`Exec` opens the file and checks its header in one step: nothing else is done in
between that could fail. A frame holds bytes there, each told by where it came from: an
offset in the file, a place in a string, a pointer, zero, or what was there before. Headers hold
unsigned numbers of `WORD` pages, and sums and differences wrap where the code's do; tables see
`SPACE` of them, as 48 of 64 bits. `mmap` accepts ranges above user space (section 4):
`Exec` follows such a program up to there, to where `pc` is `"kernel"`, and no further,
since the memory of the kernel itself is not modelled. argv fits into user space.
In `Ramfs` names are values that fit, and offsets do not overflow: `LIMIT` bounds the
end of a read or write and `WRITES` the number of writes, for TLC's sake; the ranges that
are read and written are the constants `ToRead` and `ToWrite`. A page and its struct
come from two allocators, either of which may have nothing. In `Initramfs` names end
inside the archive, as cpio writes them. In `Library` words have six bits, and the formats,
digits and stacks are enumerated. The registers of `RWLock` are modelled as the
numbers of tickets drawn and given back, which only grow, and every comparison takes
them modulo `UINT`, as the registers do; `TICKETS` bounds the growth for TLC alone. In
`PetersonLock` the loop over the flags reads one flag in a step, while others write.

Definitions marked as mutants are variants with a plausible bug, used to see that
a property fails when the code is wrong. They are in no specification.

## 4. What is checked

| run | bounds | shows |
|---|---|---|
| `kernel_safety` | `Threads`: idle and three threads, TIMESLICE 2; `Condition`: idle and three clients | exclusion of spinlock sections, a sound ready queue, no lost thread, no lost join, nothing freed in use, DEAD only off the stack, and the invariant that is proved; of the condition: the mutex is held where it must be, no entry outlives its frame, no wake-up is lost or doubled, and refinement of `AbstractMonitor` |
| `thread_exit_value` | idle and two threads, two values | **violated**: the value a thread function returns never reaches `thread_join` |
| `waiting_liveness` | idle and two threads, TIMESLICE 2 for `Threads` and 1 for `Condition`; five items of two values, the source's own number | a queued thread runs; a join of a finished thread returns; a notified waiter returns with the mutex; of the example: no misdirected notification, both threads end |
| `locks` | mutex: idle and three threads, TIMESLICE 2; lecture: three threads, registers of three values, six tickets | exclusion and service of all three locks; for the mutex no lost wake-up, the wait list and refinement of `AbstractLock` |
| `files` | lists: two heads, three items; buddy: zones of 7 and 2 pages, orders 0 to 2, two callers; files: two processes, two names, pages of two bytes, two writes | pointers and sequences agree; blocks partition the free memory, descriptors agree with lists where they are read, full uniting, and refinement of `AbstractAllocator`; files in one piece, no leaked page, and refinement of `AbstractFiles` |
| `buddy_stale` | a zone of four pages, one of them reserved | **violated**: a page that was never freed is given out |
| `parts` | see below | `exec` has all or nothing, and the right image; the bootstrap allocator's arrays stay sorted and apart and stand for exactly the free and the known memory, and give up only when full; the first tables map all of memory; the initrd's whole files are made; the example (five items of two values, the source's own number) conserves its items; slab objects are exclusive and no block leaks; the screen shows whole messages; the library computes what its callers expect |
| `exec_segments` | fourteen files, frames from 2 to 14 | **violated**: the second page of a segment holds the first again |
| `exec_page_zero` | the same | **violated**: page 0 becomes free memory |
| `address_spaces` | two address spaces, three levels of two entries, eight frames, two areas, two contents | areas sorted and apart, tables that map exactly the areas, one use for every frame, copies that equal their originals and share nothing with them |
| `munmap_neighbour` | one address space, nine frames, three areas | **violated**: munmap takes pages of the area above |
| `area_permissions` | one address space, two areas, all sets of permissions | **violated**: an area that may only be read is mapped for writing |

**Why the bounds are enough.** Three threads besides idle give one that runs, one
that is preempted inside a call and one that waits, with a third party to wake or
overtake it; TIMESLICE 2 distinguishes a tick that preempts from one that does not.
Two clients suffice for the condition's liveness, one to wait and one to notify and
compete for the mutex; with three, the safety run covers lists of two waiters. The
buddy instance has a page whose buddy is outside the zone, one whose buddy is
reserved, a block of the largest order that splits and unites through two levels,
and a second zone to fall back on; the code treats every order alike.
The memory maps of two entries (addresses 0 to 10) and of three (on five addresses), with
arrays of two ranges and pages of two bytes, hold every way in which two entries overlap
or touch each other, the kernel's image and the first megabyte, and fill an array. The
slab sizes make caches of each order with two or three objects in a slab, so a slab goes
from empty to full with and without passing by partial; two threads shrink and use a
cache of three blocks. The files for exec have segments that begin inside a page, share a
page, are empty, span two pages, or lie behind the end of the file; whose addresses are above
user space, behind `HIGHER_BASE`, equal to others for the tables, or wrap around; and that are
longer in the file than in memory, ending in mapped memory, in none, and right below the
stack, from where zeros run into the kernel's half. With any number of
frames up to what suffices, memory runs out at every call. Tables of four entries and
four levels let memory end inside pages of every size. The archives hold names and files
of all lengths modulo four and are cut off at every byte. A screen of two rows of three
columns scrolls after two lines, and messages fill a row exactly or pass its end. Two
lists of three items have splices of empty and non-empty lists onto either. Writes begin
and end inside pages, cover several, and leave a gap; a third one would only repeat them.
With three threads the registers of `RWLock` wrap around twice, and all three values of a
register are then tickets in use, which is the limit the code allows.
Four pages of user space with
tables of two entries have large and small pages; eight frames just hold two spaces
with a large page each, and every other mmap or copy is seen to fail somewhere.
Only one of the two spaces maps and fills, the other is copied into: address spaces
do not see each other, so a second active one only multiplies the states.
Threads that are interchangeable are declared symmetric in the safety runs.

**Fairness.** The CPU goes on executing: weak fairness of a switch under way and of
idle, and strong fairness of each thread's calls, since a thread that is given the
CPU time and again executes many instructions per tick. The timer is periodic and
an interrupt that finds IF clear stays pending; `preempt_enable` does not
reschedule, so a tick that hits a spinlock section is lost until the next one, and
liveness rests on ticks not hitting such sections for ever: they are a few dozen
instructions against a period of 2^18 times 128 bus cycles. Thread functions owe
nothing, but clients of a mutex release it. `std::mutex` is assumed not to starve
a thread for ever. In the locks of the lecture every thread goes on with its own steps
(weak fairness: the threads spin, each on a processor or a share of one), and who has
the lock leaves it; a thread outside Peterson's lock may stay there for ever.
Deadlock is checked in every run that is to pass.

**Findings.**
`thread_exit_value`: `__thread_entry` falls through into `jump_back`, which restores
all registers from the zeroed `struct frame`, `rax` too, before it reaches
`__thread_exit`; so `movq %rax, %rdi` (entry.S:12) always passes 0, although
`thread_entry` returns `fptr(arg)` (threads.c:72).
`munmap_neighbour`: `__pt_unmap` does not advance `vaddr` past an absent entry (paging.c:157),
takes a table that the range covers in part for one it covers as a whole, and
releases pages of an area that stays. The repository's programs do not meet it: exec
maps into a new address space, and the only munmaps are of everything.

`area_permissions`: `user_flags` (mm.c:188) tests the number of a bit, 1, where its mask, 2,
is meant: pages are writable exactly when they may be read.
`buddy_stale`: nothing clears the descriptors `buddy_zone_create` gets (buddy.c:75), and
`__buddy_free_zone` reads them at the buddy of the block it frees. It takes memory that is
not zero at the start; emulators hand out zeros, and `files` assumes them.
`exec_segments`: `segment_map` (exec.c:176) never advances `offs`, so every page of a
segment is read from the segment's beginning. Programs smaller than a page do not meet it.
`exec_page_zero`: when it gets no page `segment_map` frees address 0 (exec.c:165), which
is a reserved page.

Seen while modelling, without a run of their own: `mmap` compares the end of a range with
HIGHER_BASE and then cuts it to 48 bits (mm.c:195-199), so a segment at or just above
USERSPACE_END is accepted, and `pt_map` enters it into the kernel's tables, which all address
spaces share, although that part "never changes" (mm.c:32-33); `p_memsz - p_filesz` (exec.c:192) wraps when
a segment is longer in the file than in memory, and `mset` then zeroes all memory behind
the segment up to the first page that is not mapped, the kernel's if none is in between (the
programs of linkers have no such segments: `Loadable`; the files of `parts` have each of
these cases, and `AllOrNothing` says that no other program gets there); a failed `mmap`
below another area
unmaps from that area's beginning to the end of user space, since `begin` is set where
`end` is meant (mm.c:256; `UndoMap`, left out of the runs by "mmap" in `Excluded`), and
does not give its vma object back; the loop at slab.c:107 may end one above
MAX_ORDER, for objects larger than any in the kernel; `ramfs.c:40` uses what the slab
cache returns before testing it; `balloc_find_range` compares its
bounds with the wrong ends of a range, which is harmless for its one caller; `strtoul`
looks for the prefix with `tolower(*(ptr + 1) == 'x')` (stdlib.c:31), so that "0X" is not
passed, does not stop at a character that is no digit, and returns 1 for a negative number
out of range; `vsnprintf` with a size of 0 writes before the buffer; the frame pointer plus
16 in `backtrace` may wrap around.

## 5. What is proved

Every theorem holds for all values of the constants that satisfy the ASSUMEs named with
it. Each safety theorem follows the same argument: the property is not inductive, so the
component's module defines `IInv`, which says in addition where each program is and
what that implies; one lemma per action (or per shape of actions) shows that the action
preserves it; the property follows from it in any state. The `IInv` of `Threads` and
`PetersonLock` are among the invariants of the runs. TLC checked the others, too, on the
instances of the runs; the configurations name the properties they imply. Those of
`AddressSpace` and `Exec` say that there is a function with certain properties, among far
too many for TLC to try: it checked what follows from them.

**Threads.** `KernelProofs` proves, for every set of threads and conditions and every time
slice, that `IInv` of module `Threads` is an invariant (theorem `Invariance`), and
from it `TypeCorrect`, `SpinMutex`, `QueueCorrect`, `NoLostThreadCorrect`, `JoinCorrect`,
`DestroyCorrect` and the action property `DeadOffStackCorrect`. Assumed are only the ASSUMEs of `Scheduler` and
`Threads`: idle and init are two threads, every thread has a condition, TIMESLICE is
positive, 0 is an exit value.

The properties are not inductive alone. `IInv` adds: `SwitchOK` (everyone but `cpu` is
switched off, and during a switch interrupts are masked and the incoming thread is
runnable), `IdleOK` (idle never blocks, and only it runs the idle loop), `LifeOK` (an
object outside its life is DEAD), `StateOK` (where in its program a thread can be in
each state), `JoinOK` (a joiner's target is its own started child) and `WaitOK`
(exactly blocked joiners wait on a target's condition). For example, that the ready
queue has no duplicates needs that a woken waiter was BLOCKED (`WaitOK`) and that
queued threads are ACTIVE; that needs that a FINISHED thread is still `current`.
`DestroyedIsUnused` follows from `IInv` without being part of it: that a joiner's target
was not freed, for one, is `JoinOK`. There is one lemma
per action; `SwitchStep`, `ScheduleStep` and `LocalStep` serve the actions that share
a shape. `SeqLemmas` has the four facts about queues the steps need.

**The mutex.** `MutexProofs` proves, for any set of threads, that at most one thread is in
the critical section (`MutualExclusion`), that a thread on the wait list is asleep or
about to be and will be woken (`NoLostWakeup`), and that the mutex implements the FIFO
lock of `AbstractLock` (`Refinement`). The critical part of `IInv` in `MutexDemo` is
the hand-over: `mutex_unlock` gives `owner` to the first waiter before that one runs, so
between the two steps the owner is a thread that still stands inside `mutex_lock`; the
invariant tells for every place in the program who may be the owner, who is on the list,
and who holds the mutex's spinlock. In the refinement the abstract queue is the owner, the
waiters and those that took a place on the list, and every step is a request, a grant, a
release or nothing.

**The condition.** `ConditionProofs` proves the same of `condition.c` with any clients:
the mutex is held where it must be and no list entry outlives its stack frame
(`MonitorExclusion`), a notified thread is on its way back and is notified once
(`MonitorNoLostWakeup`), and `condition_wait`, `notify_one` and `notify_all` implement the
atomic release-and-wait of `AbstractMonitor`. The point is between the release of the
mutex and the sleep: a waiter has its entry in the list before it gives the mutex up,
so a notification finds it there although it still runs.

**Peterson's lock.** `LocksProofs` proves exclusion for any number of threads
(`PetersonCorrect`). On every level the invariant counts: of the threads that reached
level l, one at least is the last to arrive and waits, so each level lets through one
fewer than it receives. The loop over the flags reads one register in a step,
while others write theirs: the invariant says for every flag already read what its thread
can have become since.

**The lock for readers and writers.** `LocksProofs` proves, for any set of threads
whose number is at most that of values of an unsigned integer, that a writer is alone
(`ExclusionCorrect`), though the registers wrap around. The argument is one of counting:
the tickets drawn and not passed by `read` are all held by threads that wait, one each
(`IInv`), so there are at most as many as threads and comparing them modulo `UINT` is
comparing them (`SameRest`); `write` counts the tickets given back, so when a writer's
ticket equals it, everyone with a lower ticket has given his back, and nobody with a
higher one has passed `read` (`Held`, `Alone`). The bound on the number of threads is
needed: two tickets in use that differ by `UINT` could not be told apart.

**From a component to the run.** `MCKernel` and `MCLocks` check components side by side. A
lemma `Beside` (one for each component) says that a behaviour of the composition is
one of the component or leaves it at rest in an initial state; with it the theorems of
`MutexProofs` and `ConditionProofs`, and `PetersonAlone`, which are about one component's
specification, become theorems of `AllSpec` about the properties the runs check
(`MutexExclusive`, `MutexWakes`, `MutexImplements`, `PetersonCorrect`, `MonitorExclusive`,
`MonitorWakes`, `MonitorImplements`).

**Lists.** `FilesProofs` proves, for any lists and items, that `ListsAgree` is an
invariant (`ListsCorrect`): whatever the order of operations, `next` and `prev` of each
list run through the items of its sequence, each once, and end at the head. The
invariant is inductive once it says that no item is in two lists and where pointers of
linked items lead; the lemmas say what `Places` an insertion, a deletion and a splice
give the nodes behind the change (`Insert`, `Delete`, `Concatenation`, `Join`). It
justifies the sequences that stand for lists in all other modules.

**The page allocator.** `BuddyCorrect` (in `FilesProofs`): for any zones, any free ranges
inside them, any largest order and any number of callers in `buddy_alloc`, the free blocks
and those given out partition what `buddy_setup` has handed over, the descriptor at the
buddy of every block tells the truth, no two free buddies are left apart, and a zone that
turns a request down has no aligned run of free pages that would do. Assumed is
`Assumption` of `Buddy`: zones, and free ranges, do not touch and are not empty, which is
what `BootMemoryCorrect` establishes of balloc's arrays; each free range is in a zone; and
powers of two are what they are. As in the run, descriptors start zeroed; `buddy_stale`
shows what happens otherwise. The argument is about aligned numbers: two aligned blocks
are nested or apart (`Nested`), and with a block that grows its buddy grows away (`FlipIs`,
`FlipInside`). `DescriptorsOK` is not inductive, because uniting two blocks leaves the mark
on the first page of the right one. `FlagsOK` says how far such a mark can mislead: its
page is inside a block of a larger order, where no buddy of that page's order is looked
up (`FlagsTrue`). `Placed` says that blocks are aligned and within the zone of their list.
`SetupOK` tells where `buddy_setup` is: the block it frees next has no free buddy, since
the pages behind it are still to be freed, and the block before it would have been larger
(`NoBuddyYet`). One lemma puts each action in terms of sets of blocks (`ZoneFreeStep`,
`AllocZoneStep`, `FreeStep`), another shows that it keeps `IInv` (`ZoneFreeKeeps`,
`AllocZoneKeeps`, `FreeKeeps`). That a zone hides no memory (`BuddyHides`) follows from the
partition and from `Coalesced`: a run of free pages lies in one block (`RunInBlock`).
`BuddyImplements`: with free memory mapped to the pages of free blocks and those
`buddy_setup` has not reached, `buddy_alloc` and `buddy_free` take and return one aligned
block of `AbstractAllocator`, while splits, unions and `buddy_setup` change nothing there.

**RAM files.** `RamfsCorrect` and `RamfsImplements` (in `FilesProofs`): for any processes,
names and page size, any ranges that are read and written and any bounds on them, the
pages of a file are sorted, aligned and each there once, nothing that was allocated is
lost, and open, read and write implement `AbstractFiles`, although they go page by page
and memory may run out at any page. Assumed is `Assumption` of `Ramfs`: the page size is
positive, ranges end behind their start and within `LIMIT`, and `NoProc` is no process.
`RamfsWellFormed` is not inductive. That a new page belongs where the loop stands needs
`WriterOK`: the writer has passed only pages that end before its offset, and unless it has
just begun, its offset is the start of a page. That a read returns what was written needs
two more facts. `ReaderOK` says that what the reader has passed is in its buffer, and
`BytesOK` that a page of the file holds every byte of `image`, the file as the completed
writes left it, unless a write in progress has replaced it; such a write's bytes up to its
offset are there. `SizeOK` does the same for the size, which grows before
anything is stored, and `CallsOK` says what a call knows before it has looked at a page,
so that `ramfs_open` adds no name twice. No reader can see a half-done write because both
are inside `ramfs_mtx` (`MutexOK`). Under the refinement a call takes
effect where it returns: the last step of the search is `Open`, `ReadEnd` is `Read`, and
`WriteEnd` and `WriteFails` are `Write` with as many bytes as were stored. All
other steps start a call or change nothing there.

**The example.** `ExampleCorrect` (in `PartsProofs`): in every behaviour of
`example.cpp`, with spurious wake-ups, for any number of items of any values, what was
produced is what was consumed, then what the consumer has in hand, what is in the slot,
and what the producer is about to put there; each wait has its reason, and the consumer stops
only after the last item.

**The slab allocator.** `SlabCorrect`: for any page size, sizes and alignments of
objects and any number of blocks and threads, slabs are in the list that matches their
count, objects are given out once, and no block is lost or in two places, also while a
cache is shrunk, which takes its empty slabs away under the lock and frees them
afterwards. About powers of two only 2^o > 0 is assumed.

**Memory at boot.** `BootMemoryCorrect`: for any memory map, page size, place of the kernel's
image and capacity of the arrays, both arrays of `balloc.c` are sorted, with ranges that
do not touch, and stand for exactly the addresses that are known, and for those that are
free: what the map calls free, without the kernel and the first megabyte, without what was
given out and with what was given back; allocations are aligned and exclusive; and
`buddy_setup` hands over every whole page that is left. The arrays are compared as sets of
addresses. The lemmas follow the code's functions: `AddRangeUnites` and
`RemoveRangeTakesOut` say what the two loops make of the set, and that the result is
sorted and apart again, `FindRangeFinds` and `FindRangeMisses` what `balloc_find_range`
returns, `SegmentInOne`, `Pages` and `PageInRange` how pages lie in ranges.
`BootMemoryGivesUp` is about the capacity: `balloc` panics only where the set it has to
write down cannot be written with MAX_RANGES ranges. It rests on `PiecesAre`, which shows
that a sorted array of ranges that do not touch is the shortest way to write its set.
The proof also showed that one state the model allows for, an allocation by the start of
the buddy allocator that finds no zone, is never reached.

**Address spaces.** `AddressSpaceProofs`: for tables of any number of levels and entries,
any memory, any areas and any number of address spaces, every frame is free or in one
place of one address space's tables (`TablesOK`), `pt_addr` finds exactly the pages of the
areas (`AreasFound`), and `mm_copy` makes the same areas with the same contents in other
frames, or none (`CopiesOK`); memory may run out at any frame. Assumed are the ASSUMEs of
`PageTable` and `AddressSpace` (`Size` is 1 for a page and FAN times as much per level;
there is a value to fill pages with) and `Excluded = {"munmap", "mmap"}`, the case the run
checks: with an area above the range that a munmap, or a failing mmap, takes back, the
properties are false of the code (`munmap_neighbour` and section 4).

The tables are a graph in memory, and the proof is about a function u that gives every
frame of a tree its place: a table's level and which of that level's ranges it covers, or
a page's number. `Tree(table, r, u)` says that entries lead where u says (`Downward`), that
each frame but the root r is behind an entry (`Upward`), and that no two frames have one
place (`Places`). Then a walk reads the table that u has for the address (`WalkReads`), and
what `pt_addr` returns is read off u (`AddrFinds`). Each loop of `paging.c` is described by
what it makes of u. `__pt_unmap` takes away the frames, below the table it is called for,
whose places begin in the range (`Takes`, `Gone`). It skips an absent entry without
advancing the address, so that is true only of a range that ends with an entry and, where
it begins inside an entry, finds a table behind that (`Clears`, `Reached`). This is proved by
induction over the levels (`UnmapClears`); every call of `mm.c` outside the excluded cases
unmaps up to the end of user space, from a page that a table leads to. `pt_map` adds leaves from the start of its range on (`Grown`,
`MapGrows`): a turn goes a level up, a level down or a leaf further, and a measure
(`Progress`) shows that it ends, done or out of memory. Over both, `Become` says what the
calls of `mm.c` leave alone in the frames of the other address spaces. `IInv` says
that each live address space has such a tree (`Held`), that the trees and the free frames
are disjoint and are all frames, and that each tree serves its list of areas: leaves only
inside areas, and a leaf for every page of an area (`Serves`). The loops, in particular
`mm_copy`'s, are proved with `LoopKeeps`: a set of states for each turn, which the turn
leads into the next.

**exec.** `ExecOK` (in `AddressSpaceProofs`): with any arguments and any
memory, exec ends with the old address space and registers or with the new ones, `cr3` is
always the root of an address space that exists, and every frame is free, in one place of one
tree, or the buffer of `segment_map`, so that none is lost wherever a call fails
(`AllOrNothing`). That is so for every program that is `Loadable`, its segments in user space
and not shorter in memory than in the file. Every other program is included up to where it
makes exec go on into the kernel's half (`pc = "kernel"`); what that does to the kernel is not
modelled, so the theorem does not say what becomes of the frames from there on. It does say
that only such a program gets there, which is the invariant `KernelInv`: an mmap ends above
user space, `mcopy` writes there, or the number of zeros wraps, only for a segment that is not
`Loadable` (`MapReaches`, `CopyReaches`, `FillReaches`). Assumed are the ASSUMEs of `PageTable`,
`AddressSpace` and `Exec`: the page is not empty, the stack fits into user space, the tables
see a part of a word's addresses, the fields of program headers are numbers of a word, argv
fits into user space, and `mmap` may be asked for what `segment_flags` returns. `Excluded`
plays no part here: an mmap that runs out of memory below another area unmaps that area,
and the theorem includes it. What is left then is still a tree, whose frames begin in user
space (`FailedBelow`, `Low`), but no longer that of the areas. So `ExecInv` asks that the
new tables serve their areas (`Serves`) only while exec is still building (`Building`);
every failure leads to `mm_release`, which needs no more than the tree and gives back all
of it (`ReleaseIs`). `Placed` has the trees and the buffer where `Held` has the
trees alone; the `Placed...` lemmas say what mmap, mm_create, mm_release, `buddy_alloc` and
`buddy_free` make of it. The page 0 that `segment_map` frees when it got no buffer
(`exec_page_zero`) is kept apart: `ExecBase` says that it is free only when nothing is
allocated any more.

**Model-checked only.** Liveness and whatever needs ENABLED: the prover has no rule for
fairness. What a recursive definition computes for every input would need induction over
data, which the prover's library states with an operator for a parameter and its provers
cannot instantiate; and it has no SMT backend in modules with RECURSIVE operators. So
`Library` and `BootPaging` stay with TLC (`LibraryCorrect`, `EarlyMap`), and so do
`Console` (`ScreenShows`) and `Initramfs` (`InitrdLoaded`), which sum or concatenate over
a sequence with a fold. So does `ImageOK`, what a program finds after exec: the places of
the strings are sums over their lengths.

## 6. What is not modelled

See "components" in `PROJECT.json`: each part has a status and a reason.

The repository's C and assembly files amount to some 46 600 lines, but the kernel's files
recur in up to sixteen copies, one per lesson, and not much more than a quarter of the
lines is distinct. The models follow the last copy, which contains the earlier ones, and
map its lines only; a copy that differs by a later repair is not mapped as if it were
the same. What remains of the distinct lines is:

- hardware access: the switch to long mode, page 0 of the machine's tables, programming
  the APIC and PIC, the serial line. `allocate_interrupt` and the table of vectors of
  `ints.c` are not modelled.
- demonstrations: small programs that show a call of the host system (fork, mmap,
  signals, files, sockets), and the helpers of the lectures. They have no state of
  their own that outlives one call.
- functions of one loop in `string.c` and `ctype.c`, which a unit test reaches.
- the system call of `week5/syscall`, which prints a line.
- the lecture's other locks. Those before the ones modelled are steps on the way to
  them; Wait-Die is described and not given as code.

The variants `condition_wait_spin` (no caller) and `mutex_lock` by its own owner (no
caller either) are not run. The conditions are used from threads only: no interrupt
handler of the kernel notifies. Exec's switch to the new address space is one step, on
one processor with the old one no longer in use.
