# A TLA+ development of xv6 with demand paging, and of the bakery simulation

The repository holds three programs: an xv6 kernel for RISC-V extended with demand paging (`src/A`), a packet
sniffer (`src/B`) and a discrete-event simulation of a bakery (`src/C`). This directory models the parts of them
that have state and an order of events, checks the models with TLC and proves what TLAPS can prove for every value of
the constants. Source positions below are relative to `src/A/kernel/` unless they name another directory.

## 1. Inventory

| Component | State | Operations | Hard behaviour | What makes it correct | Modules |
|---|---|---|---|---|---|
| Demand paging (`proc.c` 824-1395, `vm.c`, `kalloc.c`, `exec.c`, `sysproc.c` sbrk, `trap.c` fault path) | free list of frames; page tables; `page_info` entries, FIFO order, swap bitmap and file of each process; segment table and inode of the executable | page fault, eviction, swap-out, swap-in, load from the executable, copyin/copyout, sbrk, fork, exec, exit, wait, kill | processes take frames from each other between two `kalloc`s; a fault can evict; fork, exec and sbrk fail half way; flags that say where the only copy of a page is | every frame has one owner, slots are exclusive, the FIFO is the set of resident pages, each process sees its own bytes, every fault ends | `Paging`, `Memory`, `PagingMemory`, `PagingClaims`, `PagingProofs` |
| Processes, sleep and wakeup, scheduler (`proc.c`, `spinlock.c`, `sleeplock.c`, `user/init.c`) | process states, `chan`, `killed`, `xstate`, parent links, locks | `sleep`, `wakeup`, `kwait`, `kexit`, `reparent`, `kkill`, `sched`, `yield` | lost wakeups, lock order, exit racing wait | no lost wakeup, each zombie is reaped once | `ProcLife`, `Family`, `ProcLifeProofs` |
| Write-ahead log (`log.c`) | on-disk header, log blocks, home blocks; `log.lh`, `outstanding`, `committing`; cached blocks and pins | `begin_op`, `log_write`, `end_op`, `commit`, `recover_from_log` | several calls share a commit; power failure between any two writes and during recovery; reservation of log space; sleeping callers | calls take effect together or not at all, the log never overflows, pins balance, sleepers are woken | `Log`, `AtomicDisk`, `LogProofs` |
| Buffer cache (`bio.c`) and disk driver (`virtio_disk.c`) | LRU list, reference counts, sleep locks; descriptors, available and used rings, `info` | `bget`, `bread`, `bwrite`, `brelse`, `bpin`, `bunpin`; `virtio_disk_rw`, `virtio_disk_intr` | two processes want the same block, all buffers in use; descriptors run out, requests complete in any order, the device overtakes the handler | one buffer per block, a referenced buffer is not recycled; each request is answered once, descriptors come back | `BufferCache`, `BlockStore`, `BufferProofs` |
| File system (`fs.c`, `file.c`, `sysfile.c`, the swap files of `proc.c`) | inode table, on-disk inodes and bitmap, directories, open files | `iget`, `ilock`, `iput`, `itrunc`, `ireclaim`, `namex`, `create`, open, link, unlink, chdir, dup, write, close | link count and reference count fall to zero in either order; names change during a path walk; a crash with an unlinked open file | nothing with a name or a holder is freed, references and blocks are exact, no lock order deadlocks | `FileSystem`, `FileSystemProofs`, `FileSystemNameProofs` |
| Pipes, console, UART (`pipe.c`, `console.c`, `uart.c`; `user/sh.c`, `user/cat.c` as clients) | ring buffers with free-running counters, `tx_busy`, descriptors | read, write, close, interrupts, line editing | full and empty, both ends closing, kill while asleep, echo against output | a FIFO of bytes; the line discipline; nobody sleeps for ever | `Pipeline`, `LineDiscipline`, `ByteStream`, `PipelineProofs` |
| Bakery (`src/C/main.c`) | customers, four queues, ovens, chefs, register, clock | seven functions called once per simulated second | order of the functions within a second, waits of the queues, resources taken and returned in different functions | resources balance, first come first served, payment first, the loop ends | `Bakery`, `BakeryProofs` |
| Sniffer (`src/B`) | session store, stop flag, capture handle | capture, store, inspect, SIGINT handler | signal between the test of the flag and the wait; store full | the store holds the first packets of the session | - |
| Boot, PLIC, printf, strings, the other user programs, `mkfs` | - | - | none that a model of states would show | not modelled | - |

How the parts interact. Traps and copyin/copyout call `handle_page_fault`; it calls `kalloc`, and through the swap file and
the executable's inode the file system, the log, the buffer cache and the disk driver. The models follow these layers, and
each one uses the layer below through the abstract specification that layer is shown to implement: `FileSystem` has
`AtomicDisk`'s disk (what a transaction wrote becomes durable when the last call in it ends), `Log` has one atomic disk write
per block and one buffer per block, which is `BlockStore`. fork, exec, sbrk, exit and wait share the process table with paging
(`Paging`) and the locks and sleeping with everything (`ProcLife`). `Pipeline` composes five parts in one module: the shell's
forks, the files' reference counts, the pipe, the console and the uart with its interrupt handler. The bakery and the sniffer are
programs of their own.

`PROJECT.json` lists the hazards line by line, with the properties that cover them.

## 2. Plan

| Order | Module | Status |
|---|---|---|
| 1 | `Paging`, its abstract specification `Memory` and the refinement `PagingMemory`; `PagingProofs` | modelled, checked; invariants and refinement proved |
| 2 | `Log`, its abstract specification `AtomicDisk`, and `LogProofs` | modelled, checked; invariants and refinement proved |
| 3 | `Bakery`, and `BakeryProofs` | modelled, checked; invariants proved |
| 4 | `ProcLife`, its abstract specification `Family`, and `ProcLifeProofs` | modelled, checked; invariants and refinement proved |
| 5 | `BufferCache` (cache and driver), its abstract specification `BlockStore`, and `BufferProofs` | modelled, checked; invariants and refinement proved |
| 6 | `FileSystem` (inodes, links, directories, files, crash and `ireclaim`), and `FileSystemProofs`, `FileSystemNameProofs` | modelled, checked; invariants proved |
| 7 | `LineDiscipline` (console and pipe rings), `Pipeline` (`cat \| cat` at the console), abstract specification `ByteStream`; `PipelineProofs` | modelled, checked; invariants and refinement proved |
| 8 | `WellFormed` and `NothingLiveIsFree` of `FileSystem`, for workloads that leave the names of removed swap files and removed directories alone | proved |
| 9 | the fault path with the locks its callers hold (`kwait`, `pipe.c`, `console.c` copy to user memory under a spinlock), composed from `Paging`'s fault steps and `ProcLife`'s locks | open; the code has no rule here that a property could state (section 10) |

Modules 3 to 7 declare no recursive operator, so that they can be proved about.

## 3. Demand paging

### How the modules correspond to the code

`Paging.tla` is the kernel side. Its variables are fields of `struct proc` (`proc.h:106`) and of `kmem` (`kalloc.c:21`):

| Variable | Code |
|---|---|
| `state`, `parent`, `killed` | `p->state` (SLEEPING and RUNNING are RUNNABLE here), `p->parent`, `p->killed` |
| `img`, `sz` | the layout fields `text_start` ... `stack_top` committed by `kexec`, and `p->sz` in pages |
| `segs`, `execInode` | `p->segments`/`num_segments` and `p->exec_inode`, which `kexec` replaces earlier than the layout |
| `frame`, `perm` | the page table: the frame behind a valid PTE, and PTE_U, PTE_W, PTE_X |
| `info` | `p->pages`: `state`, `is_dirty`, `swap_slot`; "NONE" is a page without an entry |
| `fifo` | the resident entries in the order of `seq` |
| `slots`, `swap` | `p->swap_bitmap` and the contents of the swap file |
| `free`, `mem` | `kmem.freelist` and the contents of the frames |
| `held`, `op` | a frame between `kalloc` and its mapping, and where in a kernel path the process is |

A kernel path is cut where another process can come in between: at every `kalloc`, after every eviction, and at the
return. `handle_page_fault` is `RefuseFault`, `FirstWrite`, `FaultUntrackable` or `FaultAlloc`; then, if there was no
frame, `EvictFails`, `EvictClean` or `EvictDirty` and `AllocAfterEvict`; then `Load` (or `LoadRemap`, the panic of
`mappages`). `kfork` is `ForkStart`, one `ForkCopyPage` per page, then `ForkDone` or `ForkFails`. `kexec` is
`ExecParse`, `ExecGuard`, then `ExecCommit` or `ExecFails`. `uvmalloc` is one `GrowPage` per page, then `GrowDone`,
`GrowFails` or `GrowRemap`. What a process does to its own tables between two of these points is one step, since no one
else can see it.

`Memory.tla` is the promise: a page holds its initial bytes until its owner writes to it; fork copies, exec replaces.
It comes in two strengths, `MemorySpec` (exact) and `LossySpec` (a page may fall back to its initial bytes while the
kernel pages for its owner or forks it). `PagingMemory.tla` is the refinement mapping: the bytes of a page are those of
its frame, else of its slot, else what a fault would load. `PagingClaims.tla` states what comments and tests say and the
code does not do. `MCPaging.tla` has the definitions of the instances.

### Abstractions

- Addresses and `sz` are page numbers; `sbrk` moves by whole pages. `sz + n` stays below `MaxVPage`, so the panic of
  `walk` beyond MAXVA is not reached.
- Page-table pages and trapframes are not taken from `Frame`. The `mapping-error` exits after a failed `mappages` and
  allocproc's own failure of that kind are therefore absent.
- `next_fifo_seq` is represented by the order of `fifo`; its overflow after 2^31 page-ins is not modelled.
- The user stack is the one stack page: `sp` stays inside it.
- Creation and writing of the swap file may fail at any time (`EvictFails`). A file holds 268 blocks of 1 KiB, so only 67
  of the 1024 slots can be written; `SwapCap` is that limit.
- A program header that is refused leaves an empty segment table (the table with the first few segments is not kept).
- copyin matters only for the fault it takes. kill takes effect at the next trap of its target.
- `swap_in_page` (`proc.c:971`) has no caller. `freewalk` frees the leaves that are left, so exit frees every frame.

### Runs

| Run | Instance | Question |
|---|---|---|
| `Paging_faults` | 1 process, 4 frames, 5 pages, 2 slots, 2 values; lazy sbrk and copyout | do slots, FIFO and contents stay apart under eviction, swap-out and swap-in; is the remap panic out of reach |
| `Paging_procs` | 3 processes, 6 frames, 2 pages; fork, exec, exit, kill | are frames and process slots given out once; is memory exact when nothing is evicted |
| `Paging_sbrk` | 1 process, 4 frames, 5 pages, 3 entries; lazy and eager sbrk, shrink, exec, failing exec, instruction fetch | do all failure paths give back what they took |
| `Paging_live` | 2 processes, 4 frames, fork and eviction; weak fairness | does every kernel path end |
| `Claim_heap` | 1 process, 3 frames | a statement of the repository that the code refutes (section 10) |

The bounds are small and chosen so that the interesting cases happen: three frames less the guard page leave two pages
resident, so a third page evicts; two slots are the least for two swapped pages to collide; three processes are the
least for two forks to meet at one free slot; `MaxPages` below the number of pages makes `add_page_info` fail. Frames are
interchangeable in every definition except by identity, so runs without liveness use `SYMMETRY` on frames. Deadlock is
not checked: after a panic the kernel stops for good.

Properties: in `Paging_procs`, `FrameOwnership` (each frame is free, or maps one page, or is in one process's hands, and none
is lost), `ChildReserved` (a slot between allocproc and RUNNABLE belongs to one fork) and the refinement `ImplementsMemory`; in
`Paging_faults`, `SlotOwnership`, `FifoIsResident`, `FaultsAreSafe` (`SwapInHasSlot`, a swap-in still has its slot after the
evictions it had to wait for, and `NoRemap`, the panic of `mappages` is out of reach) and `ImplementsLossyMemory`; in
`Paging_sbrk`, `TypeOK` and `HeldInHandler`; in `Paging_live`, the liveness property `KernelReturns`.
`NoRemap` is scoped to instances without shrinking and without fetches from data pages, which do reach the panic.

Fairness: `WF` of each process's kernel steps. The scheduler (`proc.c:560-590`) visits every slot of the table in turn and
runs each RUNNABLE process it meets, so a process that can go on in the kernel does. User code gets no fairness, nor does the
exit of a killed process, so that nothing is said about when it exits: it is usertrap's test of `p->killed` alone that makes it.

### Proofs

`PagingProofs.tla` proves, for every number of processes, frames, pages and slots:

| Theorem | States |
|---|---|
| `TypeCorrect` | `Spec => []TypeOK` |
| `SlotsExclusive` | `Spec => []SlotOwnership` |
| `FifoExact` | `Spec => []FifoIsResident` |
| `HandlersConsistent` | `Spec => []HeldInHandler` |
| `ChildIsReserved` | `Spec => []ChildReserved` |
| `FramesOwned` | `Spec => []FrameOwnership` |
| `FaultsFindPages` | `Spec => []FaultsAreSafe`, if `"shrink" \notin Calls` and `"exec" \notin Accesses` |
| `PagingIsLossyMemory` | `Spec => ImplementsLossyMemory`, under the hypotheses below |
| `PagingIsMemory` | `Spec /\ []Unevicting => ImplementsMemory`, under the same hypotheses |
| `AmpleMemory` | `Spec => ImplementsMemory`, if besides there are more than `Cardinality(Proc) * (MaxVPage + 2)` frames |

None of the first six is inductive alone. Typing needs `HeldInHandler` (Load maps `held[p]`, which has to be a frame), the
slot of a swap-in needs `SwapInHasSlot` (the eviction in between must leave the entry alone), that needs
`FifoIsResident` (the victim is a resident page, hence not the page being swapped in), and fork needs `ChildReserved`
(otherwise two forks would write one child's tables). The inductive invariant is their conjunction,
`TypeInv == TypeOK /\ HeldInHandler /\ SwapInHasSlot /\ ChildReserved /\ Books`, where `Books` is
`FifoIsResident /\ SlotOwnership`; one lemma per action proves that it is kept. `FrameOwnership` is then inductive
relative to `TypeInv`: its proof sorts the actions by what they do to a frame (take one, give some back, map the held one
or a free one, release everything, exchange an image) and has one lemma for each kind. The assumptions are the named
`ASSUME`s of `Paging.tla`: disjoint null values, natural numbers, an image that fits below `MaxVPage`.

`FaultsAreSafe` has two parts. `SwapInHasSlot` is in `TypeInv`; `NoRemap` needs a second invariant, `Tidy`: pages from `sz` on (from
`op[p].at` on, while uvmalloc is at work) are not mapped; a mapped user page without write permission is text, or resident and clean, so that a
load or store which faults on it returns early; hence the page of a fault that goes on to kalloc is not mapped and below `sz`, and it stays so while
the handler evicts other pages of the process. A fork's child has nothing mapped that the parent has not. The theorem's two hypotheses are the two
things that do reach the panic in the code (section 10: a shrink below the stack; an instruction fetch from a data page, which is resident but never
executable), and the instance of `Paging_faults` satisfies both.

The refinement of `Memory` rests on a third invariant, `Faithful`, about each process that may run (`Backed`) and about the
call it is in (`Underway`). `Backed`: an image with data pages is loaded through its own segment table and from its own inode; the
guard page is not a user page and not tracked; a writable user page is not text. `Underway`: the handler that waits for a frame still has the right
`kind` of page in mind, and a copyout the page it faulted in; uvmalloc's new pages are zero; the child of an unfinished fork has copies of its
parent's pages; a kexec under way has its own segment table. It is inductive together with `TypeInv`, `Owned` and `Tidy`: `Owned` makes a write to a frame
visible at one page of one process, `Tidy` keeps a page that is loaded from being mapped already, `SlotOwnership` keeps a swap-out from overwriting another
page's slot. `See` then says what a process reads in terms of its tables (`Shown`), and `UserMemory` and `KernelMemory` match each step with one of `Memory`:
a store is `Write`, `EvictClean` is `Lose` (of a page that was writable from the start, so that no write marked it dirty, or that came back from
swap clean), `ForkDone` is `Clone`, or `LossyClone` if the parent had swapped pages, `ExecCommit` is `Replace`, `Exit` is `Vanish`, and everything else is
`Switch`: it shows nothing. The two kinds of loss (section 10) need an eviction, so a behaviour without one (`Unevicting`) keeps every write; and with a frame for each
place a process can have one in, and one more, `kalloc` in the handler never fails (`FreeFrames`, from `NoFrameLost` by counting).

The hypotheses of the three theorems name the calls after which the code does show something else, each of which TLC or a failed proof attempt produced:

- `"shrink" \notin Calls`: `uvmdealloc` leaves the pages' `page_info` entries as they are, so a later growth finds them RESIDENT or SWAPPED;
- `"badexec" \notin Calls`: a `kexec` that meets a bad header has already emptied the segment table, and text pages of the old image load as zeroes;
- `"exec" \notin Accesses`: a fetch from a resident data page ends in the panic of `mappages`;
- `"exec" \in Calls => OneProgram`: a `kexec` that finds no frame for its guard or stack page returns to the old image with the new one's segments and
  inode. With one executable, or with none that has data pages (then nothing is loaded from a file, `LoadedFromExec`), the difference does not show.

The instances of `Paging_faults` and `Paging_procs` satisfy them. TLC checked `Faithful` and `Tidy` before the proof on five instances (forks, execs,
exits and copyouts of two processes; growth, kill, evictions and swap-ins of one; two executables without data pages), two of them exhaustively.

Only model-checked: the liveness properties (fairness is outside the prover's reach).

## 4. The log

`Log.tla` models `log.c`, with as much of `bio.c` as it relies on (section 7 has the rest): `cache` and `refcnt` are the buffers' contents and
reference counts, `Recycle` is `bget` giving an unreferenced buffer to another block. `head`, `logged` and `home` are on
the disk and survive `Crash`; everything else is lost. One action is one disk write or one critical section of
`log.lock`: `BeginOp` (one round of the loop), `Update` (bread and change), `LogWrite` (log_write and brelse), `EndOp`,
`WriteLog` (one block), `WriteHead`, `Install` (one block), `Erase`, `Finish`; after a crash `RecoverHead`,
`RecoverInstall`, `RecoverErase`. The test `log.lh.n > 0` of `commit` is part of `EndOp`, since nothing can change `lh` while
`committing` is set. A power failure may tear the block being written (BSIZE is two sectors); the header's 31 integers fit
in one sector, so a header write happens or does not.

`AtomicDisk.tla` is the promise: calls read and write `current`; when no call runs it becomes `durable`; a crash goes back to
`durable`. The mapping takes for `durable` what recovery would make of the disk.

`Log_crash` checks, with 3 processes, 2 blocks and a log of 4 blocks in which each call reserves 2 and writes at most 1, a
crash at any moment and any number of times:
`ImplementsAtomicDisk`; `LogHasRoom` (the log has room for all that admitted calls may still write, so the panics of
`log_write` are out of reach); `PinsBalance`; `IdleIsDurable` (when the last `end_op` has returned everything is home);
`SleepersWoken`. Two calls can run and a third must sleep, which is what the wakeup in `end_op` is for; transactions of two
blocks come from two calls in one commit. Stale log blocks of earlier transactions stay in the log, as on the disk.

Assumptions: a call writes fewer than MAXOPBLOCKS different blocks (`OpBlocks < MAXOPBLOCKS`). The longest calls, a write of
three unaligned blocks (`file.c` filewrite) and a swap-out of four, touch seven: data, inode, indirect block and bitmap. With exactly
MAXOPBLOCKS the full log would make `log_write` panic on an absorbed block (`log.c:221` tests before it looks for the
block), and NBUF = LOGBLOCKS would leave `write_log` no buffer. Fairness: a process that can go on does (`WF`), and a call ends
(`SF` of `EndOp`): the calls write to finitely many buffers. Not in this module: readers outside of transactions, which
can only bring into the cache what is at home, and the LRU order and number of buffers. `TypeOK` of `Log` is not an invariant of
the run, since it is proved (`LogTypes`).

### Proofs

`LogProofs.tla` proves, for every number of processes and blocks and all sizes with `OpBlocks < MAXOPBLOCKS <= LOGBLOCKS`
(`LogAssumption`, which also makes `Proc` finite), from `NamesAssumption` (null values are not data):

| Theorem | States |
|---|---|
| `LogTypes` | `Spec => []TypeOK` |
| `LogNeverOverflows` | `Spec => []LogHasRoom` |
| `PinsBalanced` | `Spec => []PinsBalance` |
| `NothingLeftBehind` | `Spec => []IdleIsDurable` |
| `LogIsAtomic` | `Spec => ImplementsAtomicDisk` |

The inductive invariant `LogInv` has three layers. `Control`: `Alone` (one commit at a time, with no call inside; nothing
before recovery ends), `Calls` (what a call has locked and written, and that its blocks are in `lh`), `Headers` (the disk's
header equals `lh` while blocks are installed and is empty otherwise; no block twice) and `LogHasRoom`. `LogHasRoom` is
inductive only with `Calls`: a call that appends a block has not written it before, so the set `Unwritten` loses one pair for
each block the log gains; and `begin_op`'s test bounds `Unwritten` by `(outstanding + 1) * MAXOPBLOCKS`, which needs
`outstanding = Cardinality(InOp)`. `Pins`: a count is one for a lock and one for a block that waits to be installed, hence a
block that waits is never recycled. `Data`: whatever the disk's header lists is good in the log and the rest is good at home
(`DiskGood`, kept by a torn write because only blocks that recovery will write again, or will not read, are torn); a buffer that is
neither locked nor in the log is what is at home (`CacheGood`); and up to `tail` the copies are made (`Progress`). The
refinement then has three kinds of steps: `WriteHead` is `Settle` (what the calls read becomes durable, and no call is
running), a power failure is `Lose`, and every other step leaves `durable` alone (`DurableStep`) and changes `current` only as
`Update` does (`CurrentStep`). TLC checked the layers on the instance of `Log_crash` first. `SleepersWoken` is only
model-checked.

## 5. The bakery

`Bakery.tla` has the variables of `src/C/main.c` under their names. `stage` stands for the flags of `customer_t`, `accepting`
is empty or the one entry of the register. `step` says which function of the main loop runs next; a loop iteration is one
action, and leaving the loop another (`Enter`, `Refuse`, `ArriveDone`, ...). Input is a sorted list of arrivals, chosen in
`Init`; the first arrival is second 0 (times are relative; negative times, which would meet the sentinel -1, are left
out). `MaxTime` bounds the clock and is not reached.

`Bakery_day` runs all 1287 patterns of 6 arrivals within 9 seconds through a shop with room for 4, 3 seats, 2 chefs and 2
ovens, small enough that every limit is met, and checks `ResourcesBalance`, `NoOvertaking`, `PaymentFirst` and
`EveryoneLeaves`. The only fairness is that `main` keeps running. The run stops when `main` returns, so deadlock is not checked.

### Proofs

`BakeryProofs.tla` proves, for every number of customers, chefs, ovens, seats and places and every sorted input:

| Theorem | States |
|---|---|
| `DayInvariant` | `Spec => []Inv` |
| `ResourcesAreBalanced` | `Spec => []ResourcesBalance` |
| `NobodyOvertakes` | `Spec => []NoOvertaking` |
| `PaymentComesFirst` | `Spec => PaymentFirst` |

Nothing in the code sorts a queue, so `NoOvertaking` has to be carried from stage to stage. `Inv` adds two things. `Queues`: each queue, and
`baking[]`, lists the customers of its stages, each once, by increasing number. `Times`: of two customers who are seated (have asked, are
paying), the earlier one has sat (asked, paid) no later, cakes end in the order they were started, and none ends before the present second. So
whoever may go on is preceded by customers who have gone on or may go on too: the first place in `Eligible`, in `Ending` and at the head of each
queue is the earliest customer's. `Chefs` says that tasks have chefs of their own, which makes the counts of `ResourcesBalance` exact, and
`PaymentTaken` is what `schedule_accepts` leaves behind for `schedule_bakes`. `BakeryAssumption` is the only assumption. `EveryoneLeaves` is only
model-checked.

## 6. Processes, sleep and wakeup

`ProcLife.tla` models fork, exit, wait and kill over sleep, wakeup, yield and the scheduler, with the spinlocks these take, and the
sleep locks of `sleeplock.c`.

| Variable | Code |
|---|---|
| `state`, `parent`, `chan`, `killed`, `pid` | the fields of `struct proc`; a channel is the slot whose address it is, or `Lk` |
| `lock`, `waitLock`, `spin` | who holds `p->lock`, `wait_lock` and the spinlock inside the sleep lock |
| `holder` | the sleep lock: 0 if `locked` is 0, else its `pid` |
| `cpu` | `c->proc` |
| `pc`, `i`, `arg` | where a process is in the kernel, its loop index, `np` in fork and the pid in kill |
| `exiting`, `reaped` | who is in kexit, and the pids that wait has returned |

One action is what a process does while it holds a spinlock, or up to the next one it takes. A process runs only while a CPU
has it (`Runs`). `Sched` is what sleep, yield and exit do before the switch: take `p->lock`, change the state and keep the lock;
`Switch` is the scheduler's half, which leaves the stack and then releases it. The loops of `allocproc`, `wakeup`, `kkill` and
`kwait` visit one slot per step and wait for its lock, so the locking order matters. `kwait` tests `killed(p)` and sleeps in
two steps, as `killed` releases the lock in between.

`Family.tla` is the promise: a tree of pids in which a process forks, leaves, hands its children to the first process, exits, and is
waited for once. The mapping reads the tree from the slots in use.

The run `ProcLife` has three slots on two CPUs, kill, and preemption of the holder of a sleep lock. It checks `TableConsistent`
(types; `NoOrphans`, a process has a parent that can still wait for it; `OneHolder` of the sleep lock), `StacksExclusive` (no
kernel stack on two CPUs or given away while in use), `SleepersHaveReason` (no lost wakeup, in kwait and in acquiresleep),
`ImplementsFamily`, and the liveness properties `OrphansReaped` and `LockWaitersRun`.

Three slots are the least for a process to lose its parent, and enough for two processes to meet at a sleep lock (init takes
none). One case needs four and is not in the instance: init sleeps while a process that is not its child exits and leaves a
zombie behind, so that only the `wakeup(initproc)` in reparent tells it (with three, the exiting process is init's own child and
wakes init anyway). `MaxPid` bounds the pids given out, so each slot is used more than once only as far as it allows; `Targets` is
the pid that may be killed; `YieldAt` bounds where the timer interrupts the kernel (in user mode it always may). With every step in
`YieldAt` the instance has more states than a run can visit. Deadlock is checked: a wrong lock order would show as one.

Fairness: `SF` of scheduling a process and of its kernel steps. A CPU visits all slots in turn; a spinlock is held for a bounded
time, but the swap instruction of `acquire` does not queue, so that a waiting CPU gets the lock in the end is an assumption. init
calls wait again and again (`user/init.c`). User programs get no fairness, and the timer none either: with as many CPUs as
processes besides the sleeper, it is not needed.

Abstractions: the exit status is left out. `BeginExit` stands for the file system part of kexit by the one sleep lock it may wait for.
init does not exit and is not killed, since the kernel panics then (`proc.c:413`). A page fault taken by copyout inside kwait
(`proc.c:524`) is only its failure here. That a killed process wakes is not stated: kill between `killed(p)` and sleep in kwait sets the flag
of a process that then sleeps until a child exits.

### Proofs

`ProcLifeProofs.tla` proves, for every number of slots, CPUs and pids and every `Targets` and `YieldAt`:

| Theorem | States |
|---|---|
| `LifeInvariant` | `Spec => []LifeInv` |
| `TableIsConsistent` | `Spec => []TableConsistent` |
| `StacksAreExclusive` | `Spec => []StacksExclusive` |
| `NoWakeupIsLost` | `Spec => []SleepersHaveReason` |
| `LifeIsFamily` | `Spec => ImplementsFamily` |

The case of four slots that the run leaves out (above) is covered by them. The assumptions are `SizesAssumption`, `NamesAssumption`
(null values are not slots) and `TargetsAssumption` (nobody kills init). `LifeInv` is a conjunction of eight parts:

- `TypeOK` and `Paths`: the steps under `wait_lock` and under the sleep lock's spinlock are those of its holder, who is RUNNING; only a
  process in kexit goes through kexit's steps; init does not exit.
- `Stacks`: a process whose state is no longer RUNNING and whose stack a CPU is still on holds its own `p->lock`; every other `p->lock` that
  is held between two steps is that of the slot a fork is filling. It makes `StacksExclusive` inductive: to reuse a slot, wait has to get the lock.
- `Forks`: the slot that a fork has claimed is USED and belongs to that fork only, also between its three critical sections.
- `Tree`: parents are alive; a slot that is not occupied is a child only of the fork that is about to start it; who is about to become a zombie has
  handed over its children. `NoOrphans` is one conjunct; it is not inductive without the others, since `reparent` reads `parent` without the slots' locks.
- `Pids`: a pid in use is that of one slot and has not been waited for.
- `Holding`: the process between acquiresleep and releasesleep is the one in the lock's `pid` field, and there is one.
- `Reasons`: who sleeps for a child has children, none of them a zombie unless the one who will wake it is on its way (in `wakeparent`, or in
  `wakeinit` at a slot it has not passed); the same for the sleep lock with the waker's index `i`. It also says what kwait's scan has found so far: a slot it
  has passed is no zombie child, since exit needs the `wait_lock` that the scanner holds.

For the refinement, `Mapped` says that pids name slots, so that the map with CHOOSE in it is the map of the slots' parents; a step that
keeps who lives, who is a zombie and who is whose parent is a stutter (`SameTable`, `Stutters`), and five steps are Family's: `BeginExit` is `Leave`,
`ForkStart` is `Fork`, `Reparent` is `HandOver`, `BecomeZombie` is `Exit` and `Reap` is `Wait`. `OrphansReaped` and `LockWaitersRun` are only
model-checked.

## 7. Buffer cache and disk driver

`BufferCache.tla` models `bio.c` over `virtio_disk.c`. The cache's variables are the fields of `struct buf` (`blockno`, `valid`,
`refcnt`, `data`, `lock` for the owner of the sleep lock, `busy` for `b->disk`) and the list `lru`, most recent first; the driver's
are `free` (the descriptors), `info`, `avail` and `used` (the rings, without what has been taken from them), `irq` (the interrupt
line) and `handling` (the handler has `vdisk_lock`). `disk` is what the device has stored.

| Action | Code |
|---|---|
| `Bget` (`BgetHit`, `BgetRecycle`) | `bget` up to the release of `bcache.lock` |
| `BgetPanic` | `bget` finds no buffer to recycle and panics with `bcache.lock` held (`panicked`) |
| `Acquire` | one round of `acquiresleep(&b->lock)`, then bread's test of `valid` |
| `AllocFails`, `Submit`, `WaitOn`, `Finish` | `virtio_disk_rw`: no three descriptors; the request is made and the process sleeps; it wakes too early; it frees the chain |
| `Device`, `IntrAck`, `IntrEntry`, `IntrEnd` | the device answers any request; `virtio_disk_intr` acknowledges, handles one entry of the used ring, and returns |
| `LogWrite`, `Bwrite`, `Written` | the holder: `log_write` with `bpin`; a write through; `install_trans`'s `bunpin` |
| `Releasesleep`, `Brelse` | the two halves of `brelse` |
| `Kill` | kkill's wakeup: each sleep here has to be in a loop |

`BlockStore.tla` is the promise: a block has one value, one process has it locked, only that process changes it. The mapping takes
for the value of a block that of its valid buffer, else what the disk has.

The run `Buffers` has three processes, five blocks for four buffers, five descriptors (one request of three, and two left over that
are no help), and three workloads: more blocks than buffers while the log pins one and installs it later, three processes at
one block, and two pinned blocks with three more wanted at once, so that the last one finds no buffer. It checks `CacheConsistent` (`OneBuffer`, `RefsAreUsers`, `RequestsMatch`: a block has one buffer, references are
exactly its users and pins, every descriptor is free or in one chain, and a request leads to a buffer its process has locked; none of
the panics of `brelse` and `free_desc` is reached), `PanicsOnlyWhenFull` (when `bget` panics each buffer is used by a process or pinned),
`WriteIsDurable` (bwrite returns after the data is on the disk, whoever
woke the process), `ImplementsBlockStore` and `AllServed`. The run ends when the workloads have or `bget` has panicked, so deadlock is not
checked; `AllServed` says that it ends nowhere else.

Bounds and assumptions. `CacheAssumption` relates `NBUF` to nothing. In the kernel `NBUF` equals `LOGBLOCKS`, both 30 (`param.h`), there
are up to 64 processes, and reads need no transaction, so with enough of them at once `bget` does panic; nothing in the code excludes it. The
panic is therefore a step of the model. The CPU that panics spins with `bcache.lock` held (`printf.c:136`); the others go on until they
need that lock, in `bget`, `brelse`, `bpin` or `bunpin`, all of which are guarded by `~panicked`. What the code does promise is that
no buffer is lost: `PanicsOnlyWhenFull` says that at a panic every buffer is used or pinned, which a reference left over anywhere
before would break. `MaxPins` is `begin_op`'s reservation and bounds the pins, not the buffers.

A process has one buffer at a time here. In the kernel it holds up to three (an indirect block while `balloc` looks through the bitmap), so
that the buffers run out sooner, and it waits for one while it holds another; the order in which blocks are locked then is not modelled.

Reads outside of transactions, changes inside one, and writes through (`Reasonable`: only the committing process writes) are the three
ways blocks are used. Descriptors are taken lowest first, and `alloc3_desc`'s give-back with its wakeup is part of `AllocFails`.
Fairness: the processes, the device and the handler go on (`WF`): spinlocks are held for a bounded time and the device answers. Everything a request tells the
device besides block, direction and buffer, and the device's status byte (always 0, else panic), is left out.

### Proofs

`BufferProofs.tla` proves, for every number of processes, blocks, buffers and pins, and three descriptors or more:

| Theorem | States |
|---|---|
| `CacheInvariant` | `Spec => []CacheInv` |
| `CacheIsConsistent` | `Spec => []CacheConsistent` |
| `PanicsWhenFull` | `Spec => []PanicsOnlyWhenFull` |
| `WritesAreDurable` | `Spec => []WriteIsDurable` |
| `CacheIsStore` | `Spec => ImplementsBlockStore` |

`CacheInv` has three layers, and each is inductive given the ones before it.

- `Control`: where a process is, which buffer it uses there and whether it has its lock (`At`, `Locks`); a block has one buffer, and a
  reference count is its users and its pin (`Blocks`); `lru` is a permutation (`Listed`); after a panic in `bget` no buffer is without
  references (`Full`). `Full` is inductive because the panic keeps `bcache.lock`, and with `Blocks` it gives `PanicsWhenFull`.
- `Requests`: descriptors are free or in one process's chain of three (`Chains`), and what is in `avail` or `used` is the head of the
  chain of a process that still waits, each in one place only (`Rings`). It needs `Locks` and `Blocks`: the buffer of a request is not
  recycled or relocked, because the process that waits has its lock and a reference.
- `Data`: a valid buffer that is neither pinned nor being written is what the disk has, and so is one whose request the device has
  answered. It needs `Rings`: the answer that clears `busy` is the one to this request, whatever order the device chose.

The refinement's values are defined by CHOOSE; `AbstractIs` derives from the invariant that there is one candidate for a block's
holder and for its buffer. A step then takes a block (`Taken`), releases it (`Released`), changes its value (`Changed`) or leaves the
store alone, one lemma for each. `AllServed` is only model-checked.

## 8. File system

`FileSystem.tla` models inodes, directories, the block bitmap and open files: `fs.c`, `file.c`, the system calls of `sysfile.c`, the
creation and removal of swap files in `proc.c`, and `ireclaim`.

| Variable | Code |
|---|---|
| `fs`, `durable` | the disk as the running calls see it, and as of the last commit: dinodes (`ino`), directory contents (`ents`), bitmap (`used`) |
| `ref`, `valid`, `mem`, `lock` | the inode table: `ip->ref`, `ip->valid`, the copy of the dinode, the owner of `ip->lock` |
| `fref`, `fip`, `ofile`, `swapFile`, `cwd` | `f->ref`, `f->ip`; `p->ofile`, `p->swap_file`, `p->cwd` |
| `ops` | the processes between `begin_op` and `end_op` |
| `at`, `todo` | where a process is in a call, with its local variables; the calls it has left |

A step is what happens under one inode lock. Where the code keeps one lock while it takes another (create, unlink, the unlink in
kexit) the lock is state, and `lock` makes the others wait. `Walk` is one element of `namex`. `Put`, `Reap` and `DropRef` are the
three critical sections of `iput`, and `ref[i] = 1` with `nlink = 0` is tested in the first one only, as in `fs.c:336`. `CreateFinds`,
`CreateFails`, `CreateUndone`, `CreateNew` and `Existing` are the ways through `create`; `Open`, `Opened`, `NotOpened` and `Chdir` its
users and `sys_open`, `sys_chdir`; `LinkOld`, `LinkNew`, `LinkUndo`; `Victim` and `Unlink`; `SwapClose`, `SwapFind`, `Victim`,
`SwapUnlink` are what kexit does about a swap file. `EndOp` makes the transaction durable when it is the last one in it: that is
`AtomicDisk`, which `Log` is proved to implement. `Crash` goes back to `durable` and loses the memory; `Ireclaim` frees one orphan per
step, and then the processes start again with what they have left to do.

The run `FileSystem` has two processes, three inodes (the root's included), two blocks and two struct files, so that each of them
runs out, 25 pairs of workloads over the same few names, and at most two power failures: a crash during the recovery after the first is
included. It checks:

- `WellFormed`: types, and no panic: no path that stays clear of old swap names meets a free inode, and iput's `acquiresleep` under
  `itable.lock` never has to sleep;
- `RefsAreHolders`: every reference count is exactly the number of its holders, through all failures of all calls. Holders are places: `Inodes` and
  `Files` are a process's working directory, local variables, descriptors and swap file as sequences, and `Uses(x, s)` is where `x` occurs in them;
- `BlocksExact`: a block is in use when one inode has it, also in what a crash leaves;
- `NothingLiveIsFree`: what has a name, a child directory or a holder is not freed, by anyone, also after a crash;
- `CallsReturn`: every call ends, so lock orders do not deadlock. Fairness is `WF` of each process's steps and of recovery.

`Claim_iput` is the one statement of `fs.c` that does not hold (section 10); its instance lets an inode number be used again.

Abstractions. Paths are one or two elements long in the run, and never empty; directories one level deep. `ents` does not depend on blocks: a directory has one
block that is always large enough (64 entries), and a file's contents are the set of its blocks, one here. An entry of the inode table is
identified with the inode number: which slot of `NINODE` it has does not matter, except that `iget` panics when there is none, which 50
entries for at most 16 files each and 64 processes do not exclude and this module does. An entry without references forgets its copy at
once; the code forgets it in the next `iget`. The two `iunlock`s at the end of unlink, create and kexit are one step, as the inode that
is unlocked second is not reachable by another path at that point. `ialloc` and the `ilock` after it are one step, since nobody else can
name the new inode, except in the case of `Claim_iput`, where the lock is tested. Closing in kexit of the ordinary files and of the working
directory happens as separate calls. Devices (`mknod`), `fstat`, reads, and pipes (section 9) are not in this module.

### Proofs

`FileSystemProofs.tla` (references and blocks) and `FileSystemNameProofs.tla` (names) prove, for every finite set of processes, every
number of inodes, blocks and files, every finite set of names and every sequence of calls:

| Theorem | States |
|---|---|
| `ReferencesAreHolders` | `Spec => []RefsAreHolders` |
| `BlocksAreExact` | `Spec => []BlocksExact` |
| `FileSystemInvariant` | `Spec => []IInv`, the inductive invariant of both |
| `TablesAreWellFormed` | `Hygiene /\ Spec /\ []NobodyStrays => []WellFormed` |
| `NamedOrHeldIsLive` | `Hygiene /\ Spec /\ []NobodyStrays => []NothingLiveIsFree` |
| `NamesInvariant` | `Hygiene /\ Spec /\ []NobodyStrays => []NInv`, the inductive invariant of both, on top of `IInv` |
| `FlatNeverStrays` | `Hygiene /\ FlatPlans /\ Spec => []NobodyStrays` |
| `FlatTablesAreWellFormed`, `FlatNamedOrHeldIsLive` | the same two for `Hygiene /\ FlatPlans /\ Spec`, without a hypothesis on behaviours |

`FileSystemAssumption` asks for finitely many processes and names, a root inode and a block for it; all tables may be of
any size, and full at once. A call that takes a path has one, and `..` is not a name that a call can make. In the first three theorems plans
may use the names of swap files that are gone, so the panics they lead to (section 10) are among their behaviours.

References and blocks need more than themselves.

- References. A step changes the places of one process only, so the number of uses changes by what that process has before and after it
  (`Recount`, through a bijection between the uses of the others; `CountBoth` and the lemmas before it are about occurrences in a
  sequence). What a process has depends on where it is in its call, and `Running` says what its local variables are there:
  `RefsAreHolders` is `Counted` on top of `Running`. A swap file has one reference, which lets kexit close it.
- Blocks. `iput` frees the blocks of what the copy in memory names, so a valid copy has to be what the disk has (`Copies`), and an inode that is
  locked between two steps has to stay valid and unfreed until the lock is released (`Locking`): create hands a locked inode to open, which may
  truncate it, and unlink keeps the directory locked while it takes the victim. That `iput` frees nothing that someone still has is
  the count again: with `ref[i] = 1` and its own reference in hand, no other process and no open file can have one (`LastUser`, `RefOfTwo`).
  `FilesLive` (the inode of an open file is not free) follows and is needed for `writei`.
- Crashes. `durable` is the disk as of some earlier state, so `BlocksExact` is kept of both disks; after the crash nobody holds anything but
  the working directories (`StartIs`), and `ireclaim` runs with no copies and no files (`Empties`).

A panic ends the part of the invariant that is about memory, since a step that panics has met a free inode; `BlocksExact` holds after it too.

`WellFormed` and `NothingLiveIsFree` do not hold of every workload, and the hypotheses of their theorems are the two things the code does
not guard against (section 10):

- `Hygiene`, of the calls: every process has a swap name of its own, which no path but that of its swapon (and of its exit, which the kernel
  makes) uses, and it neither swaps nor exits again after its exit. After an exit the name leads to a free inode, for which `ilock` panics;
- `NobodyStrays`, of the behaviour: nobody follows `..` into a directory that has been removed, and nobody makes a directory in one
  (`fs.c:651`, `sysfile.c:254`). The first finds a free inode or another's; the second gives a directory without a name a link again, the new one's `..`.
  Files may be made and found in a removed directory, and processes may stay in one, with directories nested to any depth.

`FlatPlans` says of the calls what is enough for the second: directories are made by a path of one name, and by a process before its first
chdir, so all of them are in the root, which is never removed. `MCFileSystem` assumes `Hygiene` and `FlatPlans` of the run's
plans (`PlansAreFlat`), which TLC evaluates: the last two theorems are about what the run checks, for any number of processes, inodes and calls.

The invariant `NInv` behind them, on top of `IInv`:

- The tree, `Tree(d, S, pend)`, of the running disk and of `durable`. The link count of an inode covers the entries that lead to it
  (`Covered`): user names, the `..` of directories that still have links, the swap names of the processes in `S` that have not removed theirs, and
  the links that `link` has counted and not made yet (`pend`, of `Linking` processes; between its two inodes `link` holds no lock). For a
  directory the count is also no more than that (`Bounded`). Then a directory with links has exactly one name, in the directory its `..` leads
  to (`Named`, `Single`), and what isdirempty finds empty has no other links: removing it takes its last one. Without `Single`, unlink could
  leave a name to a directory with no links; without `Bounded`, a directory could keep a link
  after its removal and never be freed.
- `Safe`: what a process holds is in use, and a directory it walks from has a `..`. That is where the reference counts come in: `iput` frees at `ref = 1`,
  and by `Counted` that one reference is the one being put.
- `Route`: the path of a swap call is the root and its name; other paths have no swap name in them; the victim of unlink is still the inode
  under the name, since the parent stays locked. `Owned`: who has locked an inode still has it as its current or reaped one.
- `Ahead`: before the processes start again, both disks are the same.

`durable` needs the tree too, with nobody linking and with `S` larger: a process that is about to commit the removal of its swap file's link still
counts there (`SwapsThen`). `end_op` commits when it is the last in `ops`, and then nobody is between the two halves of `link`, so `pend` is
nothing: that is why the commit keeps it (`CommitNames`). A crash starts from that disk, and `ireclaim` takes away an inode whose count is 0, to
which by `Covered` no entry leads.

Only model-checked: `CallsReturn`, being liveness. `LastReferenceFrees` does not hold (`Claim_iput`).

## 9. Console, uart, pipe and a pipeline

`LineDiscipline.tla` has the two rings as records with counters that wrap, and what the code does to them inside a critical section: `Typed`
is `consoleintr`, `Ready` and `Line` are what readers may take and the line being edited, `Taken`, `Consumed` and `Copied` are one round of
`consoleread`, `Fits`, `Piped`, `Ahead` and `Drained` are `pipewrite` and `piperead`.
`Pipeline.tla` runs `cat | cat` on them from `sh.c`'s case PIPE to the last exit:

| Variable | Code |
|---|---|
| `cons`, `pipe` | `cons` (`console.c:46`) and `struct pipe` |
| `fref`, `fd` | `f->ref` of the struct files of the pipe's ends, and `p->ofile` |
| `prog`, `st`, `inCall`, `buf`, `writing`, `killed` | the calls a process has left (`LeftRuns`, `RightRuns`, `ShellRuns`), whether it sleeps and on what, whether it is inside a call it has slept in, cat's buffer, `p->killed` |
| `thr`, `rx`, `txBusy`, `irq`, `handler` | the uart's transmit and receive FIFOs, `tx_busy`, its interrupt, and where `uartintr` is |
| `script`, `ended` | what the user is still to type, and whether the last ^D has been |
| `text`, `taken`, `sent`, `out` | history: what the line discipline makes of the keys so far, the keys that left the console's buffer, the bytes cat got, the bytes the uart got |

A section under a spinlock that ends in release or sleep is one action. The interrupt handler has five, since it waits for the uart
(`uartputc_sync`) while it holds `cons.lock`: readers of the console wait then, the writing cat does not, and both may write to the uart.
A kill may come at any moment, also between a sleeper's test of `killed` and its sleep, and between two rounds of `pipewrite`'s loop.

`ByteStream.tla` is the promise: what was read from the console comes out, in order, once, and nothing else. The run `Pipeline` checks
`PipelineConsistent` (`EndsMatchFds`, an end is open exactly while a descriptor refers to it; `NoOverrun`, echo and output together do not
overrun the uart; `NoLostWakeup`; types), `LineDisciplineExact` (what has been read, what may be read and the line being edited are
what the same keys make of a line without a buffer: `Edited`, applied to `text` key by key as the handler gets them), `NothingLost` (bytes between the console and the uart are in the two buffers and the pipe, in order,
also with kills), `ImplementsStream` and `PipelineEnds`: after an end of file all three processes end. The three are the two cats and the
shell's child that runs the pipeline. The shell that waits for that child is not among them: when pipe or fork fails the child panics and
exits, a cat that is running by then goes on alone, and what that shell, back at its prompt, reads from the console beside it is left out.

The instance has buffers of two bytes and counters modulo 4, so both wrap and fill; cat asks for 3 bytes, more than fits; the scripts are a
line longer than the buffer, an erased character with an end of file after letters, and an erased line. One of the cats may be killed. Any
allocation in pipe and fork may fail. The system stops when everyone has exited, so deadlock is not checked, and `PipelineEnds` says that it
does not stop before. Fairness: each process, the handler and the uart go on; and the user goes on typing and types an end of file once
everything has been read. Without the last, readers wait for ever, rightly. `UINT` has to be a multiple of the buffers' sizes
(`RingAssumption`), as 2^32 is of 128 and 512.

Abstractions. A carriage return is a newline by the time it is in the buffer; ^P prints the process list and is left out; one byte stands for
the three that erase a character. `fileclose`'s decrement and `pipeclose` are one step: an end that nobody refers to cannot be used in
between. Descriptor 2 and the closing of the console's descriptors show nothing and are left out. cat's messages on a failed read or write
are left out; it leaves its loop.

### Proofs

`PipelineProofs.tla` proves, for every size of the buffers and of the counters, every chunk, every set of scripts and of killable processes
that `RingAssumption` and `PipelineAssumption` allow:

| Theorem | States |
|---|---|
| `PipelineIsConsistent` | `Spec => []PipelineConsistent` |
| `NothingIsLost` | `Spec => []NothingLost` |
| `StreamIsImplemented` | `Spec => ImplementsStream` |
| `LineDisciplineIsExact` | `Spec => []LineDisciplineExact` |

The assumptions are the code's: a buffer's size divides the range of a `uint` and is smaller, cat asks for at least one byte, and the uart's
FIFO takes two bytes or more (16 in a 16550). The last is needed and no more than needed: the handler's echo and a writer's byte may
meet in it.

Nothing in `PipelineConsistent` is inductive. `Inv` adds:

- `Progress`: where a process is in its program determines its descriptors (`Held`). That is how a step knows that close and dup find an end, that
  the left cat has the console and the pipe's write end and the right one the other two, and that no process is in cat before the pipe is there.
- `CatBuffers`: a cat that reads has room, a cat that writes has something to write, and the right one's buffer is empty while it reads, without
  which a read would overwrite what is not yet out.
- `UartRoom`: the bytes in the uart are at most one of a writer, which `tx_busy` accounts for, and one of the echo, which has waited for an
  empty uart.
- `Counted` and `Flags`, of explicit arguments, so that one lemma serves the state before and the state after a step.

The lemma behind the rings is `Places`: consecutive counters, fewer than a ring has places, are in different places, also where the
counters wrap, because the ring's size divides their range. From it `PutInRing` and `TakeFromRing` derive that what is put into the pipe comes
out behind what is in it. The same lemmas give the console's ring (`RingSplit`, `LastEntry`): a key typed after the others overwrites none of them,
an erased key shortens the line (`Shortened`), and "kill line" goes back exactly to the last line's end, as there is no newline in the line being
edited (`LineStartFacts`). `TypedIsEdited` sums it up, one key on the ring is the same key on the text without a ring; `TextInv` carries this
through the echo, when the key has been taken from the uart and the ring has not changed yet (`Pending`), and through readers, who take from the front
(`TakenIsReady`).

`PipelineEnds` is only model-checked, being liveness.

## 10. Where the code does something else

Two disagreements have a run that shows them:

- `Claim_heap`: a swapped-in page is marked clean while its slot is freed (`proc.c:1188-1200`). If it is not written again, the
  next eviction discards the only copy, and the page comes back as zeroes. `forkpagetest.c:73` says "Parent data still valid".
- `Claim_iput`: `iput` frees the inode on disk, unlocks it and takes `itable.lock` again for `ref--` (`fs.c:350-361`). In between,
  `ialloc` can hand out the number, and `iget` finds the same table entry with `ref` 1. If that process makes a directory with it, removes
  it and puts it while the first is still on its way, neither of the two sees the last reference, and an inode without a name stays
  allocated until `ireclaim` finds it at the next boot. `fs.c:330`: "If that was the last reference and the inode has no links to
  it, free the inode (and its content) on disk."

Others were met while modelling. In demand paging, all of them part of the model:

- `uvmcopy` copies mapped pages, and `kfork` makes a SWAPPED entry UNMAPPED in the child (`proc.c:351-353`): the child reads zeroes where
  the parent has data. `vm.c:312`: "copy its memory into a child's page table"; `forkpagetest.c:46` calls a child that reads
  something else a failure;
- after a shrink below the stack, which `uvmdealloc` keeps mapped, growing eagerly runs into `mappages: remap` (`vm.c:231`) and the
  kernel stops. `proc.c:281`: "Return 0 on success, -1 on failure";
- stack and data pages are writable from the start (`exec.c:150`, `proc.c:1259`), so `is_dirty` stays 0 when they are written
  (`memstat.h:18` "1 if page has been written to") and an eviction drops their contents;
- copyout refuses every page without PTE_W (`vm.c:384`), also a heap page not yet written by user code, where the comment speaks
  of "read-only user text pages";
- `uvmdealloc` has no code under "Also remove from page tracking" (`vm.c:270`): freed pages stay RESIDENT in memstat, and an
  eviction that picks one fails;
- `kexec` replaces the segment table and the executable's inode (`exec.c:61`, `exec.c:109`) before it can no longer fail, and does
  not put the old inode; the old program then loads its pages from the new file;
- `kexec` forgets swapped pages and keeps their bits in the bitmap (`exec.c:205`).

In processes and files:

- `kexit` drops the swap file's link count and keeps its directory entry (`proc.c:463`, under "Delete the swap file from filesystem",
  `proc.c:438`). The name leads to a free inode, for which `ilock` panics ("ilock: no type") as soon as someone opens, lists or removes it,
  or to whatever gets the inode next. `SwapUnlink` does what the code does; the workloads of the run do not use the names of swap files
  that are gone;
- create and link look up the parent directory and lock it in two steps, and neither looks at its link count in between
  (`sysfile.c:254`): a name made in a directory removed meanwhile is reachable by no path, and its inode is never freed;
- the working directory of a process may be removed, and ".." in it then leads to an inode that may be another's (`fs.c:651`); paths
  of two elements that start with ".." are not among the workloads;
- kill(0) marks the first UNUSED slot, whose pid is 0 (`proc.c:729`), and `allocproc` does not clear the mark: the next child there
  is killed at its first trap, where the comment says "Kill the process with the given pid";
- a kill between kwait's test of `killed` and its sleep (`proc.c:541`) wakes nobody: the process sleeps until a child exits. The same holds
  for `consoleread`, `piperead` and `pipewrite`, and `Pipeline` has it;
- a writer killed between two bytes returns from `pipewrite` without `wakeup(&pi->nread)` (`pipe.c:84`): the bytes it has put there wait with
  a sleeping reader until the next writer or the close. `NoLostWakeup` makes that exception;
- a write that faults in the middle of `filewrite`'s transaction may evict, and `swap_out_page` opens a transaction of its own in the same
  process (`proc.c:956`): the commit waits for a call that waits for the log;
- copyout under `wait_lock` (`proc.c:521`), `pi->lock` and `cons.lock` can fault, and the fault handler sleeps: `sched` panics. No module
  has both the caller's lock and the fault;
- `ticks` wraps, and `ticks - ticks0 < n` in `sys_pause` (`sysproc.c:84`) is compared unsigned.

In the sniffer, a Ctrl+C between the test of the stop flag and `select` (`src/B/src/pcap_handler.c:65-72`) is slept through until a packet or a key
comes.

`ImplementsLossyMemory` is what is left of the promise with all of these in the model: pages may lose writes, but never show
another page's, another process's or an old frame's bytes.

## 11. Not modelled

Left out for good: boot, the interrupt controller, formatted output and string functions, which have no protocol; user programs besides
init, sh's pipe command and cat, which are clients, and whose assertions are a source of the properties; `mkfs`, a sequential host tool, of
which only the resulting image matters (`Mkfs` in `FileSystem`). Of the sniffer, printing and parsing of packets is layout; its session
store is an array that one function fills and another empties, and the stop flag is one variable and one loop: a model would restate them.

Left out of the modelled parts: the contents of files and the layout of blocks within them, device inodes and `fstat`; the fetching of system
call arguments; the clock and `sys_pause`; ^P and the registers of the uart.
