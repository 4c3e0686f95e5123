# A TLA+ model of coro-core

coro-core is a C++20 kernel for RISC-V multiprocessors (`src/os`). Most of its upper half
(block devices, caches, file system) is written as stackless coroutines that are resumed by one
task scheduler per hart; the task schedulers are themselves kernel processes, scheduled
preemptively by one process scheduler per hart. This directory keeps TLA+ specifications of its
concurrent core, its memory management and its file system, TLC configurations that check them on
small instances, and TLAPS proofs about locks, mutexes, process schedulers, coroutine frames, the
buffer cache, the disk driver and the heap for any number of harts, locks, coroutines, processes,
frames, buffers, descriptors, pages and sizes.

## Inventory

| Part | State | Operations | Uses | What is hard |
|---|---|---|---|---|
| spinlock (`atomic/spinlock.cc`) | locked, core, saved interrupt flag | lock, unlock | harts, interrupts | unlocked reads in `__holding`, interrupt flag kept in the lock, handlers that take locks |
| coro_mutex, wait queues (`atomic/mutex.cc`, `utils/wait_queue.h`) | `_locked`, guard, sleepers | lock, unlock, done, wake_up_* | spinlock, task queue | suspend and wake-up on different harts, overtaking |
| task schedulers (`coroutine.cc`, `task_scheduler.h`) | shared queue of coroutines | schedule, try_pop, resume, this_scheduler | processes | one coroutine must not be resumed twice |
| coroutines (`coroutine.h`) | promise status, caller, ownership | await, return, fail, wake_up | task queue | failure unwinding, lifetime of frames |
| processes (`proc/*`) | state, queue, current process, timer sleepers | pop, run, push, sleep, wake_up, exit, timer | spinlock, cpu | unlocked state writes in `pop`, wake-up before the switch, migration |
| buffer cache (`utils/buffer_manager.h`, `utils/buffer.h`) | LRU list, flush list, dirty and valid flags, references | get, load, flush, put, destroy | mutex, wait queue, lists, shared pointers | lock dropped around device I/O, references taken after the unlock |
| virtio disk (`drivers/virtio`) | descriptors, two rings, sleepers | command, interrupt | spinlock, wait queue, device | out-of-order completion, partial allocation, index wrap |
| allocators (`mm/allocator.*`) | free pages, heaps of fixed-size blocks, large objects | alloc, free, truncate, second attempt | spinlock, page tables | truncation against the free chain, pages taken between the two attempts |
| page tables, user memory, ELF (`mm/vmem.cc`, `proc/process.cc`, `proc/elf.cc`) | page tables, mappings | map, unmap, copy, load, exit | allocators | running out of pages half-way, returning each page once |
| dentry cache, inodes, nfs (`fs`) | dentries, inodes, bitmaps, block index | lookup, create, link, unlink, truncate, mount, unmount | buffer cache, mutex | cached and stored copies of metadata, stale dentries, inodes held across unmount |
| ram disk, devices (`drivers/ramdisk`, `device`) | pages, device table | read, write, register | allocators | page index arithmetic |
| traps, boot, system calls (`trap`, `init.cc`, `syscall`) | trap vectors, initial processes | timer, external interrupt, exit | processes, disk | interrupt state across switches |

`PROJECT.json` lists the hazards, each at its source line, with the properties that cover it.

## Modules

| Module | Models | Checked by | Proved in |
|---|---|---|---|
| `AbstractLock` | what a lock promises | refined by the two below | |
| `Spinlock` | `spinlock::lock/unlock`, one memory access per step, two contexts per hart (thread and trap handler), nested locks | `MCSpinlock` | `SpinlockProofs` |
| `CoroMutex` | `coro_mutex`, `wait_queue`, the shared task queue and the task schedulers | `MCCoroMutex` | `CoroMutexProofs` |
| `BufferManager` | buffer cache with its list cells, references, flushes and `destroy` | `MCBufferManager` | `BufferListProofs`, `BufferProofs` |
| `VirtioDisk` | disk driver and its interrupt, with an external device | `MCVirtioDisk` | `VirtioDiskProofs` |
| `ProcSched` | process queue and schedulers, process states, timer sleepers | `MCProcSched` | `ProcSchedProofs` |
| `CallStack` | what nested awaits promise: calls, returns and exceptions on one stack per task | refined by `Coroutine` | `CoroutineProofs` |
| `Coroutine` | coroutine frames, their owners, awaits, `co_yield`, `task_fail`, executors | `MCCoroutine` | `CoroutineProofs` |
| `PageAllocator` | the list of free pages of `kernel_allocator` | `MCKernelMemory` | |
| `HeapAllocator` | `operator new` and `delete` up to 1024 bytes: heaps of fixed sizes, `truncate`, the second attempt | `MCKernelMemory` | `HeapProofs` |
| `Vmem` | `walk`, `mappages`, `uvmunmap`, `copyout` as operators on an address space | `MCKernelMemory` | |
| `UserMemory` | page table, mappings and ELF image of a user process as operators | `MCKernelMemory` | |
| `KernelMemory` | composition: heap, large objects and user processes on one list of pages | `MCKernelMemory` | |
| `NfsInode` | data of files: block index, remembered position, truncation, block allocator | `MCNfs` | |
| `NameSpace` | what directories promise: a map from directory and name to inode | refined by `NfsNames` | |
| `NfsNames` | directories, inode numbers, inode and dentry caches, mount and unmount | `MCNfs` | |

Layers are composed by abstraction. `Spinlock` and `CoroMutex` refine `AbstractLock`; the modules
above them use a lock as that abstract lock, or as one atomic action where no step of another
actor can be told apart (a critical section without a suspension that touches only protected
data). Where the code reads or writes something outside the lock, the model has a step there.

Definitions whose comment begins with `Fault:` are not part of any specification. Each is a
plausible wrong version of the definition below it; replacing that definition by it must make TLC
report the property named in `PROJECT.json`.

### Spinlock
Variables are the fields of each lock (`locked`, `core_id`, `old_status`), the interrupt flag of
each hart (`irq`, and in `base` the value its thread last set), whether the hart is in its handler
(`trapped`), and per context the program counter, the lock worked on, the local `old` and the set
of locks held. `IrqSave`, `HoldingLocked`, `HoldingCore`, `TestAndSet`, `SetCore`, `SetOld` are the
accesses of `lock()` in order; `StartUnlock`, `CheckHolding`, `ClearCore`, `ClearOld`,
`ReleaseLock`, `IrqRestore` those of `unlock()`. `Interrupt` starts a handler only on a hart with
interrupts on. Clients nest locks in increasing order. A panic is a program counter.

### CoroMutex
`Resume` is an iteration of `task_scheduler::start`, `YieldTest`/`Yield` is `co_await
this_scheduler`, `EnterLock`, `Take`, `Sleep`, `Suspend`, `Spin` are `lock()`, `Clear`, `WakeUpOne`
belong to `unlock()`. A coroutine that `wake_up` puts in the task queue may be resumed by another
hart before the hart that put it to sleep has left `await_suspend`.

### BufferManager
`GetWait`, `GetHit`, `HitReturn`, `GetNew`, `GetReuse`, `GetEvict`, `FlushEvicted`, `GetFlushed`
are the sections of `get_derived` between suspensions and lock releases; `HitReturn` is separate
because line 62 runs after the unlock. `list` caches erased cells with their `shared_ptr` inside
(`list.h:249`), so cells are modelled and count as references; with `CacheSize` cells cached, a
further one is deleted and lets go of its buffer. The device is a version per block. Left out: a
`new` that fails for a list cell; `CanAlloc` stops the task there.

### VirtioDisk
`Command`, `AllocFails`, `Submit`, `Finish` are `disk_command` between suspensions; `IntrEnter`,
`IntrComplete`, `IntrLeave` the handler, split because the device may complete more meanwhile.
`DeviceTake`, `DeviceComplete`, `DeviceNeedsReset` are the device: it reads the chains from the
descriptors, so a wrong link or a stale header shows in `served`. It finishes every request with
status 0: for another status the handler spins (`virtio_disk.cc:326`), which is not modelled.
`MCView`, the view of the run, leaves out ring entries that were consumed and the `ops`, `done` and
`status` of descriptors that head no chain; each is written before it is read again, so states that
differ only there have the same futures and satisfy the same properties.

### ProcSched
`WakeSleeper`, `PopStart`, `ScanTest`, `ScanSet`, `ScanReady`, `RunEnter`, `RunLeave`, `Push` are
one turn of `process_scheduler::run`; `ScanTest` and `ScanSet` are apart because `pop` tests and
sets the state of a process without its lock. The clients are those of
`test/process/sleep_task.hpp`. `kill` has no caller in the tree and `init.cc:112` creates no user
process any more, so neither is part of this module; the state `KILLED` cannot be reached.

### Coroutine
A frame has the fields of its promise (`status`, `caller`, `has_error_handler`, `no_yield`) and an
`owner`: the frame whose local variable or temporary is the `task` object, `None` for an executor,
which nobody owns. `Spawn` is `schedule()`, which wraps the task in an executor frame;
`Resume`, `Yield`, `Sleep`, `WakeUp` move the innermost frame between harts, task queue and wait
queues; `Await`, `AwaitNext`, `CoYield`, `Return` are `task_awaiter` and the promise's
`yield_value`, `return_value`; `Fail` and `AwaitNoMemory` end in `coroutine_handle_fail`, which
resumes the nearest caller with an error handler; its locals, and with them the frames in between,
go when it ends. The refinement of `CallStack` reads the stack of a task off the `caller` links.
Left out: result values, and `current_promise`/`last_promise`, which only backtraces read. Two
constants select bodies outside the normal use: with `Deferred = TRUE` a task is kept in a variable
and awaited later, and a failure in between reaches the panic of `~promise_base` ("promise never
ran"); with `Reserved = FALSE` the frame of an executor may fail to be allocated and `schedule()`
dereferences its null promise. The run uses the normal values.

### NfsInode
Offsets count words, so that an address block and a data block are the same array of words and a
block used for one and then for the other shows its old content if the code forgets to clear it.
`Write`, `Read`, `Truncate`, `UnlinkLast` are the operations of `nfs_inode`, each under the mutex of
its inode and hence one step. `DataRW` follows `data_rw`: direct blocks, then `IndirectPart`, which
starts at the first address block or at the remembered position (`cache_*`), and `IndirectLoop` with
`GetBlockIndex`. `Alloc` scans the bitmap blocks from `next_free_bitmap` on; when it finds nothing
the coroutine fails and what was linked so far stays. The history variable `written` is the
reference.

The remembered position belongs to the inode object, and nothing resets it: not `truncate`, not
`init_data` when the number of a deleted file is given out again (`Recreate`), and not `init` when the
inode cache gives the object to another file (`Recycle`, with `CacheFull = TRUE`, which stands for a
cache at its limit). A transfer that starts exactly there afterwards goes through a block that is
free or another file's. A `simple_file` keeps its offset over a truncation, so this is what its next
transfer does. The model makes these transfers too; `stale` and `strayed` record them. `ReadsBack` and
`BlocksOwned` say what holds until the first one: beyond it neither is true (new blocks are linked into a
freed address block, or into one of another file). `ReadsBackAlways` is `ReadsBack` without this
premise and is violated, see the findings. `lost` are the blocks that `unlink` leaves behind when the
size is 0, that is, when the first write of the file failed half-way: `BlocksOwned` says that these are the only
blocks with a bit set that no file refers to.

### PageAllocator, HeapAllocator
The list of free pages and, for each size, the list of blocks `head_block` (along `next_block`) are
sequences. The free chain is what it is in memory: `next_free_block` is a pointer and `link` the field
`info.next_free_block` in each page. A block's header is `size_of`, `used` and the list `data` of its
free cells; `asked` is the size of the object in a cell. `New` enters `default_alloc`;
`AllocFromBlock`, `AllocFromPage`, `AllocFails` are `heap_allocator::alloc` under the lock of its
size, `TruncateBegin`, `TruncateBlock`, `TruncateEnd` walk the blocks of one size under that lock, a
page at a time, `Retry` is the second attempt, and `Delete` finds the heap from the page's header. A
size of 0 is not asked for.

`truncate` takes an empty block off `head_block` but leaves it on the free chain (`allocator.h:288`).
Two things follow. When `alloc` gets to that page it hands out a cell of memory the heap does not own:
`AllocDangling` records the cell in `stray` and the model stops, since what happens then depends on the
bytes in the page. And before that, the blocks behind the page can no longer be told by following the
chain; once the page is a block again, perhaps of another size, its new header has ended the chain
there, and blocks with free cells are forgotten. `FreeChain` is stated for this code: the chain
runs over distinct blocks with a free cell, and either it ends, and all other blocks are full, or it
leads to a page that is no block of this size. `PagesOwned`, `SlotsOwned` and `FreeChain` hold up to the first
`AllocDangling`, and no property says that it never comes: it does.

### Vmem, UserMemory, KernelMemory
An address space is the page of each of its tables and the page of each mapped virtual page. The
operators take a record of the whole memory to the one they leave, with a return value and the panic
met, if any; `content` tells a few parts of a page apart, and a page fresh from the list has junk in
it. In `KernelMemory` a call of `user_process` or of `large_mem_allocator` is one step, while heap
calls keep the steps above: such calls meet only on the list of free pages, and the initial lists
(2, 5, 7, 9, 11 and 14 pages) make the call fail at each place where it can run out. `Create`, `Load`,
`Exit`, `Destroy` are the life of a `user_process` as far as memory goes; `LargeAlloc`, `LargeFails`,
`LargePanics`, `LargeDelete` are `large_mem_allocator`. A process may be loaded again, after a load that
failed as well as after one that succeeded: `test_load_elf` does not ask. A failed load leaves the
segments it has mapped, and `__load_elf` does not compare segments, so two of them may have a page in
common, within a file or in two loads; `mappages` then panics ("remap"). The run has such files;
`SpacesOwnPages` allows that panic if the process was given segments that share a page and only
then, and `LoadedImage` is checked for every load that succeeded. `boot` is the set of pages in use since boot;
`map_failed` records that `walk` ran out of pages, after which the code loses the page it was about
to map (`process.cc:103`, `:161`). `ImplementsHeap` says that all of this is to the heap what
`HeapSpec`, the specification of the proofs, allows the other clients of the page list to do.

### NfsNames
`nfs` is a record of what is on disk (inode table, directory contents) and of the caches. Create,
mkdir, link, unlink, a step of a path walk and of `read_dir` are single steps of one client, as in
`test_nfs.cc`, which calls them one after the other. `Hold` and `Release` are other tasks that keep
inodes; `on_destroy` schedules `put_inode` (`PutInode`, `PutInodeCount`), and `unmount` is the steps
`UnmountBegin`, `UnmountErase`, `UnmountFlush`, `UnmountCount`, `UnmountEnd`. The client respects what
the code does not check: it creates only names that do not exist (`inode.cc:400` does not look),
unlinks only empty directories and walks on only from existing names. Dentries of unlinked names stay
cached; with `UseStale = TRUE` the client would work in them, with `FALSE`, as in the run, it only
walks past them. `lookup` compares as many characters as the name asked for has (`dentry.cc:73`), within a bucket:
`Begins` and `bucket` describe the names. In the run one name begins the other and the two share a
bucket, or the shorter one shares it with the empty name of the root, so that a name does find a
dentry of a longer one, and the root a failed lookup. `Resolves` leaves out exactly the names that are
`Mistaken` in this way. An erased list cell of the inode cache keeps its pointer (`list.h:249`): `parked`
are the inodes such a cell still points to, so that `on_destroy` does not run when the holder lets go, and
`unmount` waits for ever; `ReuseCell` is the cell's next use. `CurrentNames` is the refinement mapping to
`NameSpace`: the names in memory while mounted, on disk while unmounted, and during `unmount` those it
has to save.

## Runs

| Run | Instance | Shows |
|---|---|---|
| `spinlock` | 2 harts with handlers, 2 locks, nesting 2 | exclusion, no false panic, interrupt flag restored, refinement |
| `coro_mutex` | 4 coroutines (one `no_yield`), 2 harts, fair | exclusion, one place per coroutine, no lost wake-up, refinement; sleepers are woken, a wanted mutex is obtained by somebody |
| `buffer_roomy` | 2 tasks, 2 blocks of 2 devices (one block rejected by its device), allocation may fail, no eviction | right and coherent buffers; `destroy` writes back |
| `buffer_tight` | 2 tasks, 2 blocks, room for one buffer, fair | one buffer per block; every flush waiter is woken |
| `buffer_window`, `buffer_unmount` | see findings | violated |
| `virtio` | 3 tasks, 8 descriptors as in the code, indices modulo 8, device may need a reset, fair | descriptor ownership, each command served once on its buffer, out of order and across a wrap; unless the device needs a reset every command returns, and sleepers for descriptors are woken |
| `proc_sched` | 2 harts, a waiting process, a timer sleeper, every initial queue in which the init process is not first, fair | one place per process and RUNNING only on a hart, no panic, no lost wake-up, runnable processes run |
| `coroutine` | 2 harts, 5 frames, 5 operations of bodies, allocation may fail, fair | one resumer and one owner per frame, failures reach the nearest handler, `no_yield` is inherited, no panic, refinement of `CallStack`; every frame is destroyed in the end |
| `nfs` | data: 2 files, 7 blocks in 2 bitmap blocks, 3 words per block, 4 operations; names: 4 inode numbers, 2 names in one bucket or two, 4 calls, 2 mounts | until a transfer starts from a stale position: reads return what was last written, also after a full disk, and each used block has exactly one use; link counts, inode numbers, path walks; names survive unmount and mount with inodes held by others (refinement of `NameSpace`) |
| `nfs_stale` | the files of `nfs` | violated, see findings |
| `memory` | 2 threads, 2 processes, 4 programs, heaps of 8 and 16 bytes, 14 pages, 4 calls | pages, cells and blocks have one owner, no page is lost unless a mapping failed for want of a table, loaded images are right, objects fit, refinement of `HeapSpec` |

Bounds. Two harts and two locks exhibit every two-party race and a handler interrupting either of
them. Two blocks and room for one buffer make eviction, reuse, refusal and the race of two
evictions happen. The eight descriptors hold two chains and leave two over, so that
commands finish out of order and allocation fails half-way. The ring index is taken modulo the ring
size instead of 2^16, so that it wraps within a run. Versions in the buffer model are capped by
`MaxVersion`. `buffer_tight` caches one list cell, so that cells are deleted too; the other buffer
runs have the 8 of `list.h`. In `nfs` a file of one direct and three indirect data blocks needs six of the
seven blocks, so that two files exhaust the disk, in the middle of a write as well; the starts and
lengths of transfers meet block ends, the end of an address block and a remembered position. `MCNfs`
chooses one of the two layers in the initial state, so their states add up and do not multiply. Four
inode numbers and four calls are enough for a directory with a file in it, for a second link and its
removal, and for an unlink and the reuse of the number. In `memory`, blocks of two cells and of one cell make a block fill, empty and
leave its heap; sizes 8, 9 and 4081 lie at the edge of a cell, above it, and at the edge of a page
with its header; page tables have a fan of three with the kernel's three levels; one of the programs
reaches beyond its file, one reaches the stack, so that loading fails after part of it is done, and one
has two segments in a page. `MaxVmem` bounds the virtual pages of large objects, `MaxCalls` the objects
asked for, processes created and files loaded. Five
frames hold an executor with a chain of three callees, or two tasks of two frames
each; `MaxOps` bounds what bodies do, so that all tasks end. Deadlock checking is off only where
the system may stop: `virtio` (a reset
leaves the lock held), `buffer_roomy` (a failed allocation does), and `coroutine`, `nfs` and `memory`,
where all bounded operations may be done (in `memory` a panic or a dangling block also ends the run).

Fairness. Harts run on: weak fairness of what a hart or a resumed coroutine can do next. Locks are
test-and-set without a queue, so that somebody who spins gets the lock is assumed as strong
fairness of that step; the code gives no stronger guarantee. The timer ends each slice (weak
fairness of `SwitchOut`), and a process that is resumed again and again gets on (strong fairness
of `ProcStep`). The disk is assumed to take and finish requests. In `Coroutine`
it is weak fairness of all steps but the start of new tasks. No fairness is assumed of
clients.

## Findings

* `buffer_window`: `get_derived` uses the list cell of a hit after releasing the lock
  (`buffer_manager.h:62`); the buffer may by then belong to another block.
* `buffer_unmount`: a buffer pinned by a cached list cell is not detached in `destroy`
  (`buffer_manager.h:170`) and its update is dropped.
* `nfs_stale`: after a truncation `data_rw` uses the position remembered before it (`inode.cc:219`): a
  write, a truncation and a write from where the first one ended, and the file no longer reads as it
  was written, which `test_kernel_process.cc:414` expects of a file.

Behaviour that the models contain but no run refutes a written statement with is listed as hazards in
`PROJECT.json`: the freed block on a free chain (`allocator.h:288`), the pages lost when a mapping
fails (`process.cc:103`), the panics of `kvmmap` (`vmem.cc:191`) and of `mappages` for segments that
share a page (`vmem.cc:175`), the wait of `unmount` that may never end (`nfs.cc:102`), the longer name found
for a shorter one (`dentry.cc:73`), and the search of `get_derived` that skips `flush_list` after its own
flush (`buffer_manager.h:127`). The last is not excluded by `Coherent`, which is checked where nothing is
evicted, nor by `UniqueBlocks`, which speaks of `buffer_list`.

## Proofs

All proofs are for any values of the constants that satisfy the modules' assumptions.

*Spinlock.* Proved: `TypeCorrect`, `MutualExclusionCorrect`, `NoPanicCorrect`, `IrqOffCorrect`,
`IrqRestoredCorrect`, `SpinlockImplementsLock`. The properties are not inductive alone. `IInv`
adds: a held lock is locked (`InvHeld`); `core_id` names the hart of the holder except between the
test-and-set and `SetCore` and between `ClearCore` and the release (`InvCore`, which is what keeps
the unlocked reads of `__holding` from raising a false panic); the target of an acquisition is
above every lock held (`InvTarget`); interrupts are off and the context is the running one
wherever it is inside `lock`, `unlock` or a critical section (`InvIrq`); and the saved flag of the
outermost lock is that of the surrounding code while nested locks carry FALSE (`InvOld`).

*Mutex.* Proved: `TypeCorrect`, `MutualExclusionCorrect`, `InOnePlaceCorrect`,
`NoLostWakeupCorrect`, `MutexImplementsLock`. `IInv` says at which program counters a coroutine may
be in the task queue, in the wait queue or on a hart (`InvPlace`), that the guard belongs to the
hart that runs the one coroutine inside a guarded section (`InvGuard`), and that a coroutine
between `Take` and `Clear` implies `_locked` (`InvOwn`).

*Process schedulers, places.* Proved: `SchedInvariant`, `SchedOnePlace`, for any finite set of harts
and any processes. `OnePlace` alone is not inductive: a hart that takes the process at position `at` must know
that it still holds the queue's lock and that the position is valid (`InvLock`), that the process it
takes is neither running nor an idle process (`InvQueue`), and that a hart has a process exactly
between the choice in `pop()` and the push, and only one that is bound to it or to none (`InvHart`);
idle processes, which are never queued, are kept apart through that binding. `InvInit` says that only
processes yet to be created are in the state INIT, so that a new one is in no place. Most steps leave
queue and choices alone and are covered by one lemma, `FrameStep`.

*Process schedulers, wake-ups.* Proved: `SchedNoPanic`, `SchedNoLostWakeup`, on
top of the invariant above. `PanicInv` rests on the one process that never sleeps: the task scheduler
of a hart is on its hart or in the queue, at or behind the position `pop` has reached, so the scan
never runs off the end of the queue (`InvScheduler`); what was chosen is still RUNNABLE when `run`
looks (`InvChosen`), although `pop` sets the state without the lock of the process. `WakeInv` counts:
`complete` is the number of subtasks that have ended, so while the waiting process sleeps one is still
to come, and a subtask that sleeps is in a timer list (`InvSleep`).

*Coroutine frames.* Proved: `TasksAreTrees`, `CoroutineOneActive`, `CoroutineOwnedByTask`,
`CoroutineNoPanic`, for any frames, harts, `MaxOps` and bodies. `IInv` says that owner links do not go
round (`Acyclic`), that a frame which has begun was called by its owner, and nobody owns exactly the
executors (`InvFrame`), that `no_yield` and the executor's error handler are handed down (`InvFlags`),
that active frames have begun or are executors in the queue (`InvActive`), and that the owners of two
active frames are disjoint while every executor has an active frame below it (`InvTrees`). `OneActive`
is not inductive without the last: what is destroyed with a frame must not be active. Return, failure,
`co_yield`, destruction and the end of an executor are one kind of step (`StackStep`: go up one's own
stack and destroy below), so one lemma covers them. `PanicInv` adds, for clients that await at once
what they create and schedule only with memory (`~Deferred`, `Reserved`, the constants of the run),
that an active frame owns at most one task that has not begun and others none (`InvPrompt`); hence no
destroyed frame is such a task, and the executor's guard makes `coroutine_handle_fail` end at a frame.
The theorem on `NoPanic` has those two constants as its hypothesis since the property is false without
them (see the Coroutine section). `OwnersOf`, `CallersOf` and `FailPoint` are recursive functions; what
they compute is shown through closed sets of frames (`AboveUnique`, `FailRecursion`), where an acyclic
relation gives a frame whose link leaves a set of counterexamples.

*Coroutines as call stacks.* Proved: `CoroutineImplementsCallStack`, for any frames, harts, `MaxOps` and
bodies: the frames refine `CallStack` under the mapping of `Coroutine` (`TaskStack`, the calls from the
active frame of a task up to its executor). To `IInv` it adds only `FreeFlags`: a frame that is free has
no error handler, so that a flag left by an earlier frame at that address never shows up in a stack. A
stack is a sequence built by a recursive function; instead of by induction it is characterised as the only
sequence that starts at a frame without an owner, follows owner links and ends at the active frame
(`Chain`), unique since links do not go round. One lemma stands for each kind of step: what changes no stack, a call, a
return, an exception down to the innermost error handler, the start and the end of a task.

*Buffer cache, lists.* Proved: `ListsApart`, `BufferUniqueBlocks`, for any tasks, blocks, devices, limits
and size of the cell caches. That a block is cached once depends on the order in `get_derived`: the list is
searched again after a flush. The induction also needs that a cell is in one list or cell cache
(`CellsApart`: a cell handed out twice would show one buffer as two), that a buffer is in one listed
cell (`NodesApart`), that a flushing task finds its victim where it left it and shares it with no other
(`InvFlush`), and that the buffers `destroy` has been through stand for no block when they return to
the list (`InvLocal`). The lemmas on lists (`OnlyFacts`, `WithoutFacts`, `ConcatSet`, `PrefixSet`) use a
least counterexample (`WellOrder`, `UpTo`) in place of induction. `BufferListProofs` has the lemmas,
`BufferProofs` the theorems.

*Buffer cache, content.* Proved: `BufferRight`, `BufferCoherent`, `BufferDestroyWritesBack`, for any tasks
and devices and any limits with `Room`: there are no more blocks than `MinCount`, the `min_buffer_count`
(2048 in the code) up to which `get_derived` makes a new buffer rather than reuse one. Without `Room` the
properties can fail: that is what the findings of `buffer_window` and `buffer_unmount` show, so the theorems say
where those begin. The argument has two parts. `NoEvictionInvariant`: while what is reused stands for no
block (`NothingEvicted`) `CInv` is inductive. It says that no cell outside the lists keeps a reference
(`NoStray`, which the cached cells of `free_node` break after an eviction), that a block has one buffer
in the list or in `destroy` (`OneCopy`), that a valid buffer has every update and the device has them too
unless the buffer is dirty (`Sound`, `Stored`), that what a task refers to stays in `buffer_list` for its
block (`TaskOK`, across the gap between `lock.unlock()` and the copy of the `shared_ptr`), and that
`destroy` works on buffers nobody else has (`LocalOK`, `Separate`, from the clients' rule that a device is
not used while it is destroyed). Second, `Room` implies `NothingEvicted`: emptied buffers are at the end of the
list (`EmptyLast`, since `destroy` merges at the back and everything else moves to the front); if the last
buffer had a block, all would have one, each its own and none the one that is missing, which are more than
there are; so the last has none, nobody refers to it, and the backward search stops at it.

*Disk driver.* Proved: `DescriptorsCorrect`, `DiskInvariant`, `ServedOnceCorrect`, `InFlightCorrect`,
for any tasks, any number of descriptors from three up and any index modulus that is a multiple of it.
`ChainInv`: the command of a task has a chain of three descriptors, chains are disjoint and not free,
and free ones and chains add up to `NUM` (`InvCount`), which is why `alloc_desc` succeeds when the count
says so; who sleeps for descriptors has no command (`InvAsleep`). `RingInv` follows a chain through the
rings: published, served, completed or none, never two, and no ring holds one twice (`InvPlaces`);
the descriptors still carry the addresses of that command (`InvAddresses`); and the place tells whether
it was served (`InvProgress`). Ring indices wrap, so the windows of a ring are shown to be injective
modulo `NUM`. `InFlightCorrect` adds that a waiting task's chain is always on its way, and that the
handler finds the status it spins on.

*Heap.* Proved: `HeapInvariant`, `HeapPagesOwned`, `HeapSlotsOwned`, `HeapFreeChain`, for any pages,
sizes, capacities and threads and any other clients of the page list. The invariant is about the states
before `AllocDangling` and holds after it too, as that step changes no block: `OwnedPages`, `OwnedSlots`
and `Chained` are inductive together, with types, `InCall` (the walk of a truncating thread is inside
the list of sizes) and `HeldFits` (objects lie in cells that a block of their size has). `OwnedPages`
is what makes a new block disjoint from all others; `OwnedSlots` makes `used` the number of live
objects, so that a block that `truncate` returns holds none; `Chained` makes `heap_block_t::alloc` find
a cell. For it one needs to know what a step does to links along a chain: a step that writes no
link of a block on it keeps the chain (`LinkedSame`), an allocation that fills a block goes on to its
tail (`LinkedTail`), a deletion in a full block puts one in front (`LinkedCons`), and a truncated block
cuts the chain where it lies (`LinkedCut`: the blocks before it remain, and the pointer after them
leads to a page that is no block any more). A page that another size takes over was on no chain as
a block, so rewriting its link disturbs none (`ChainKept`). Each operation
on lists has a lemma (`ConsFacts`, `TailFacts`, `WithoutFacts`). With `ImplementsHeap`, which TLC checks
on the instance of `memory`, they carry over to the composed system.

Assumptions are those of the modules: harts and locks of `Spinlock` are natural numbers (locks in
nesting order, -1 for none); in `CoroMutex`, `None` is neither a coroutine nor a hart and `NoYield`
is a set of coroutines; in `ProcSched` there are finitely many harts and subtasks, and the idle,
scheduler and other processes are distinct; in `Coroutine` frames are positive numbers, 0 being the
null promise; in `BufferManager` list cells are numbers, finitely many like the tasks, and `None` is
neither a cell, a buffer nor a block; in `VirtioDisk` the index modulus is a multiple of the ring size, as
2^16 is of `NUM` = 8; in `HeapAllocator` the sizes of the heaps differ, every block has a
cell, and every small size asked for has a heap.

The inductive invariants were model-checked before they were proved: `IInv` of the buffer cache on the
instances of its runs and with cell caches of 0, 1 and 8 cells (96,257 to 259,801 states), `CInv`,
`NothingEvicted` and `EmptyLast` on that of `buffer_roomy` (96,257), which satisfies `Room`, `ChainInv`
and `RingInv` on that of `virtio` (2,970,116), `PanicInv` and `WakeInv` of the schedulers (566,154),
`IInv` and `PanicInv` of the frames with five operations, and with four and `Deferred` (28,706 and
16,144), `FreeFlags` with five (28,706).

Only model-checked:
* liveness (`SleepersWoken`, `SomebodyOwns`, `FlushWaitersWoken`, `CommandsReturn`, `RunnableRuns`,
  `AllReclaimed`): fairness and ENABLED are beyond the prover;
* the data and name layers of the file system (`ReadsBack`, `BlocksOwned`, `LinksCounted`,
  `InodesOwned`, `Resolves`, `ImplementsNameSpace`), and page tables, user memory and large objects
  (`SpacesOwnPages`, `LoadedImage`, `ObjectsFit`, `ImplementsHeap`): their operations are folds and
  recursive definitions over whole transfers, paths and images, and what those compute for every input
  needs induction over data, which the installed provers cannot do.

## Not modelled

* Relaxed memory order: every access is sequentially consistent, and fences are not checked. In
  particular no fence separates the ring entry from `avail->idx` (`virtio_disk.cc:274`).
* Directory operations of several clients at once. `unlink` frees the inode number before it clears
  the entry (`inode.cc:571`), and `get_inode` suspends with a spinlock held (`nfs.cc:405`); the tests
  have one client, and a model of their interleavings needs every suspension of `nfs_inode` as a step.
* `kill`, `check_killed` and scheduling of user processes, which nothing in the tree calls.
* The separate accesses of the counters in `shared_ptr.h`; the modules count references in one step.
* The ram disk and device ids: a sequential page index whose bound check is `block_no > nblocks`
  (`ramdisk.cc:42`, one block too many).
* Boot mappings, SV39 bits, strings, system calls, printing, the C++ runtime, assembly, SBI and the
  third-party allocator: no state that a property speaks of. See the components in `PROJECT.json`.
