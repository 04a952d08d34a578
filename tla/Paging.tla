------------------------------- MODULE Paging -------------------------------
(***************************************************************************)
(* Demand paging in the xv6 kernel of part A.                              *)
(*                                                                         *)
(* Processes share one pool of physical frames (kalloc.c).  Each process   *)
(* has a page table, the page_info entries of proc.h that say where a      *)
(* tracked page lives, a FIFO of its resident pages, and a swap file with  *)
(* a bitmap of slots.  handle_page_fault (proc.c) is modelled step by step *)
(* from one kalloc to the next, because that is where processes meet; what *)
(* a process does to its own tables between two kallocs is one step.       *)
(*                                                                         *)
(* Addresses are page numbers.  An image of kexec (exec.c) is laid out as  *)
(*   text | data | guard | stack | heap ...                                *)
(* so heap_start is the guard page and the heap grows above the stack.     *)
(***************************************************************************)
EXTENDS Integers, SequencesExt

CONSTANTS
  Proc,         \* slots of the process table (proc[NPROC])
  InitProc,     \* the slot that runs /init
  NoProc,
  Image,        \* executables on the disk
  NoImage,
  InitImage,    \* the image initproc runs
  Text, Data,   \* Text[i], Data[i]: pages of image i's text and data segments
  MaxVPage,     \* bound: the highest page number a process may use
  Frame,        \* physical pages on kmem.freelist at boot
  NoFrame,
  Slot,         \* slots of the swap bitmap
  SwapCap,      \* first slot whose page does not fit in a file (MAXFILE)
  MaxPages,     \* entries of p->pages (MAX_PAGES)
  Value,        \* what a program may write to a page
  NoValue, Zero, Junk,
  Calls,        \* bound: the system calls issued in an instance
  Accesses      \* bound: how user code touches memory in an instance

VPage == 0..MaxVPage

ASSUME ProcAssumption  == InitProc \in Proc /\ NoProc \notin Proc
ASSUME ImageAssumption == /\ InitImage \in Image /\ NoImage \notin Image
                          /\ Text \in [Image -> Nat] /\ Data \in [Image -> Nat]
                          /\ MaxVPage \in Nat
                          /\ \A i \in Image : Text[i] + Data[i] + 1 <= MaxVPage
ASSUME FrameAssumption == NoFrame \notin Frame
ASSUME SlotAssumption  == Slot \subseteq Nat /\ SwapCap \in Nat /\ MaxPages \in Nat
ASSUME ValueAssumption == NoValue \notin Value
ASSUME InputAssumption ==
  /\ Calls \subseteq {"fork", "exec", "badexec", "exit", "kill", "lazy", "eager",
                     "shrink", "copy"}
  /\ Accesses \subseteq {"read", "write", "exec"}

\* What a page can hold: zeroes, the junk kfree and kalloc fill a frame with,
\* the bytes of an executable, or what a program wrote.
Content == {Zero, Junk} \cup Image \cup Value

VARIABLES
  \* process table
  state, parent, killed,
  \* the committed image, the segment table, the executable's inode, p->sz
  img, segs, execInode, sz,
  \* page table: the frame of a page (NoFrame: PTE_V clear) and PTE_U/W/X
  frame, perm,
  \* page_info entries, resident pages by increasing seq, swap bitmap and file
  info, fifo, slots, swap,
  \* kmem.freelist, the frames' contents, a frame kalloc'ed but not yet mapped
  free, mem, held,
  \* what each process is doing in the kernel; TRUE after panic()
  op, panicked

procVars  == <<state, parent, killed>>
imageVars == <<img, segs, execInode, sz>>
ptVars    == <<frame, perm>>
pageVars  == <<info, fifo, slots, swap>>
memVars   == <<free, mem, held>>
vars == <<procVars, imageVars, ptVars, pageVars, memVars, op, panicked>>

-----------------------------------------------------------------------------
(* Layout of an image, from kexec and handle_page_fault.                    *)

HeapStart(i) == Text[i] + Data[i]
Guard(i)     == HeapStart(i)
StackPage(i) == HeapStart(i) + 1
StackTop(i)  == HeapStart(i) + 2

InText(i, v) == v < Text[i]
InData(i, v) == Data[i] > 0 /\ Text[i] <= v /\ v < Text[i] + Data[i]

\* data_end is 0 for an image without a data segment.
LoadedFromExec(i, v) == Data[i] > 0 /\ v < Text[i] + Data[i]

\* The guard page is tested first; sp stays inside the one stack page.
Valid(p, v) ==
  /\ v # Guard(img[p])
  /\ \/ InText(img[p], v)
     \/ InData(img[p], v)
     \/ HeapStart(img[p]) <= v /\ v < sz[p]
     \/ v = StackPage(img[p])

-----------------------------------------------------------------------------
(* Page tables and page_info.                                               *)

Untracked == [state |-> "NONE",     dirty |-> FALSE, slot |-> -1]
Unmapped  == [state |-> "UNMAPPED", dirty |-> FALSE, slot |-> -1]
Resident  == [state |-> "RESIDENT", dirty |-> FALSE, slot |-> -1]

Mapped(p, v) == frame[p][v] # NoFrame
MappedPages(p) == {v \in VPage : Mapped(p, v)}
FramesOf(p)  == {frame[p][v] : v \in MappedPages(p)}

Tracked(p) == {v \in VPage : info[p][v].state # "NONE"}

\* What the MMU lets a process do without a trap (PTE_R is always set).
Permitted(p, v, access) ==
  /\ Mapped(p, v) /\ "U" \in perm[p][v]
  /\ access = "write" => "W" \in perm[p][v]
  /\ access = "exec"  => "X" \in perm[p][v]

\* Bytes and PTE bits of a page loaded through the segment table.
ExecContent(p, v) ==
  IF execInode[p] # NoImage /\ segs[p] # NoImage /\ v < HeapStart(segs[p])
  THEN execInode[p] ELSE Zero

ExecPerm(p, v) ==
  {"U"} \cup (IF segs[p] # NoImage /\ InText(segs[p], v) THEN {"X"} ELSE {})
        \cup (IF segs[p] # NoImage /\ InData(segs[p], v) THEN {"W"} ELSE {})

\* pi->seq = p->next_fifo_seq++ moves a page to the young end of the FIFO.
Without(s, v) ==
  IF \E i \in 1..Len(s) : s[i] = v
  THEN RemoveAt(s, CHOOSE i \in 1..Len(s) : s[i] = v) ELSE s
Youngest(s, v) == Append(Without(s, v), v)

NoMap  == [v \in VPage |-> NoFrame]
NoPerm == [v \in VPage |-> {}]
NoInfo == [v \in VPage |-> Untracked]
NoSwap == [s \in Slot |-> Zero]

-----------------------------------------------------------------------------
(* What a process is doing: in user mode, at a step of handle_page_fault,   *)
(* about to finish a copyout, or in the middle of fork, exec or sbrk.       *)

Idle == [pc |-> "user"]
FaultAt(step, v, kind, x) == [pc |-> step, va |-> v, kind |-> kind, val |-> x]
ForkOf(c)   == [pc |-> "fork", child |-> c]
ExecOf(step, i) == [pc |-> step, img |-> i]
GrowTo(at, to)  == [pc |-> "grow", at |-> at, to |-> to]

OpType ==
       {Idle}
  \cup [pc : {"evict", "alloc", "load"}, va : VPage,
        kind : {"swap", "exec", "zero"}, val : Value \cup {NoValue}]
  \cup [pc : {"copyout"}, va : VPage, kind : {"swap", "exec", "zero"}, val : Value]
  \cup [pc : {"fork"}, child : Proc]
  \cup [pc : {"execguard", "execstack"}, img : Image]
  \cup [pc : {"grow"}, at : 0..(MaxVPage + 1), to : 0..(MaxVPage + 1)]

\* p runs user code and may trap or make a system call.
InUser(p) == state[p] = "RUNNABLE" /\ op[p] = Idle /\ ~killed[p]

Return(p) == op' = [op EXCEPT ![p] = Idle]
KillSelf(p) == killed' = [killed EXCEPT ![p] = TRUE] /\ Return(p)

-----------------------------------------------------------------------------
(* kalloc and kfree.                                                        *)

Kalloc(p, f) ==
  /\ f \in free
  /\ free' = free \ {f}
  /\ held' = [held EXCEPT ![p] = f]

\* kfree fills the frames it gets with junk.
Freed(fs) == [f \in Frame |-> IF f \in fs THEN Junk ELSE mem[f]]
Kfree(fs) == free' = free \cup fs /\ mem' = Freed(fs)

-----------------------------------------------------------------------------
(* User memory accesses that do not trap.                                   *)

Store(p, v, x) ==
  /\ InUser(p)
  /\ Permitted(p, v, "write")
  /\ mem' = [mem EXCEPT ![frame[p][v]] = x]
  /\ UNCHANGED <<procVars, imageVars, ptVars, pageVars, free, held, op, panicked>>

-----------------------------------------------------------------------------
(* handle_page_fault(va, access, from_user), up to its first kalloc.        *)

MarksDirty(p, v, access) ==
  /\ Mapped(p, v) /\ "U" \in perm[p][v] /\ access = "write"
  /\ ~InText(img[p], v)
  /\ info[p][v].state = "RESIDENT" /\ ~info[p][v].dirty

Refused(p, v, access) ==
  \/ Mapped(p, v) /\ "U" \notin perm[p][v]
  \/ access = "write" /\ InText(img[p], v)
  \/ /\ ~Valid(p, v) /\ info[p][v].state # "SWAPPED"
     /\ ~MarksDirty(p, v, access)

NoPageInfo(p, v) == v \notin Tracked(p) /\ Cardinality(Tracked(p)) >= MaxPages

FaultKind(p, v) ==
  IF info[p][v].state = "SWAPPED" THEN "swap"
  ELSE IF LoadedFromExec(img[p], v) THEN "exec" ELSE "zero"

\* Only a fault taken from user mode kills the process.
RefuseFault(p, v, access, fromUser) ==
  /\ Refused(p, v, access)
  /\ fromUser
  /\ KillSelf(p)
  /\ UNCHANGED <<state, parent, imageVars, ptVars, pageVars, memVars, panicked>>

\* The first write to a resident page that is mapped read-only.
FirstWrite(p, v, access) ==
  /\ MarksDirty(p, v, access)
  /\ perm' = [perm EXCEPT ![p][v] = @ \cup {"W"}]
  /\ info' = [info EXCEPT ![p][v].dirty = TRUE]
  /\ UNCHANGED <<procVars, imageVars, frame, fifo, slots, swap, memVars, op, panicked>>

\* add_page_info fails: KILL out-of-memory, also for a fault of the kernel.
FaultUntrackable(p, v, access) ==
  /\ ~Refused(p, v, access) /\ ~MarksDirty(p, v, access)
  /\ NoPageInfo(p, v)
  /\ KillSelf(p)
  /\ UNCHANGED <<state, parent, imageVars, ptVars, pageVars, memVars, panicked>>

\* Mutant: the entry is made afresh when there is one already.
FaultAllocForgets(p, v, access, x) ==
  /\ ~Refused(p, v, access) /\ ~MarksDirty(p, v, access)
  /\ ~NoPageInfo(p, v)
  /\ info' = [info EXCEPT ![p][v] = Unmapped]
  /\ \/ /\ \E f \in free : Kalloc(p, f)
        /\ op' = [op EXCEPT ![p] = FaultAt("load", v, FaultKind(p, v), x)]
     \/ /\ free = {}
        /\ op' = [op EXCEPT ![p] = FaultAt("evict", v, FaultKind(p, v), x)]
        /\ UNCHANGED <<free, held>>
  /\ UNCHANGED <<procVars, imageVars, ptVars, fifo, slots, swap, mem, panicked>>

\* The page is tracked from here on; kalloc succeeds or a page must go.
FaultAlloc(p, v, access, x) ==
  /\ ~Refused(p, v, access) /\ ~MarksDirty(p, v, access)
  /\ ~NoPageInfo(p, v)
  /\ info' = [info EXCEPT ![p][v] = IF @.state = "NONE" THEN Unmapped ELSE @]
  /\ \/ /\ \E f \in free : Kalloc(p, f)
        /\ op' = [op EXCEPT ![p] = FaultAt("load", v, FaultKind(p, v), x)]
     \/ /\ free = {}
        /\ op' = [op EXCEPT ![p] = FaultAt("evict", v, FaultKind(p, v), x)]
        /\ UNCHANGED <<free, held>>
  /\ UNCHANGED <<procVars, imageVars, ptVars, fifo, slots, swap, mem, panicked>>

HandlePageFault(p, v, access, fromUser, x) ==
  \/ RefuseFault(p, v, access, fromUser)
  \/ FirstWrite(p, v, access)
  \/ FaultUntrackable(p, v, access)
  \/ FaultAlloc(p, v, access, x)

\* usertrap: a load, store or fetch of user code traps.
UserFault(p, v, access) ==
  /\ InUser(p)
  /\ ~Permitted(p, v, access)
  /\ HandlePageFault(p, v, access, TRUE, NoValue)

\* copyin and copyout use walkaddr, which wants PTE_V and PTE_U, and fault as
\* a read.  x is what copyout has to write.
KernelFault(p, v, x) ==
  /\ InUser(p) /\ "copy" \in Calls
  /\ ~Permitted(p, v, "read")
  /\ HandlePageFault(p, v, "read", FALSE, x)

CopyTo(p, v, x) ==
  IF "W" \in perm[p][v] THEN mem' = [mem EXCEPT ![frame[p][v]] = x]
                        ELSE mem' = mem

\* copyout to a page that is mapped already.
CopyOut(p, v, x) ==
  /\ InUser(p) /\ "copy" \in Calls
  /\ Permitted(p, v, "read")
  /\ CopyTo(p, v, x)
  /\ UNCHANGED <<procVars, imageVars, ptVars, pageVars, free, held, op, panicked>>

\* copyout goes on after vmfault.
CopyOutResume(p) ==
  /\ op[p].pc = "copyout"
  /\ CopyTo(p, op[p].va, op[p].val)
  /\ Return(p)
  /\ UNCHANGED <<procVars, imageVars, ptVars, pageVars, free, held, panicked>>

-----------------------------------------------------------------------------
(* evict_page_fifo and the rest of handle_page_fault.                       *)

\* Mutant: the frames are freed and the page table keeps them.
FreeAll(p, vs) ==
  /\ Kfree({frame[p][v] : v \in vs})
  /\ UNCHANGED ptVars

\* uvmunmap of mapped pages, with do_free.
UnmapAll(p, vs) ==
  /\ frame' = [frame EXCEPT ![p] = [v \in VPage |-> IF v \in vs THEN NoFrame ELSE @[v]]]
  /\ perm'  = [perm EXCEPT ![p] = [v \in VPage |-> IF v \in vs THEN {} ELSE @[v]]]
  /\ Kfree({frame[p][v] : v \in vs})

\* Mutant: the bitmap is not consulted.
AnySlot(p) == Slot

FreeSlots(p) == Slot \ slots[p]
Victim(p)    == Head(fifo[p])

\* No resident page, or the page table does not have the victim.
NothingToEvict(p) == fifo[p] = <<>> \/ ~Mapped(p, Victim(p))

\* KILL swap-exhausted: no victim, no slot, or the swap file cannot be
\* created or written.
EvictFails(p) ==
  /\ op[p].pc = "evict"
  /\ \/ NothingToEvict(p)
     \/ info[p][Victim(p)].dirty
  /\ KillSelf(p)
  /\ UNCHANGED <<state, parent, imageVars, ptVars, pageVars, memVars, panicked>>

\* Mutant: the discarded page is not marked UNMAPPED.
EvictCleanStaysResident(p) ==
  /\ op[p].pc = "evict"
  /\ ~NothingToEvict(p)
  /\ ~info[p][Victim(p)].dirty
  /\ fifo' = [fifo EXCEPT ![p] = Tail(@)]
  /\ UnmapAll(p, {Victim(p)})
  /\ op' = [op EXCEPT ![p].pc = "alloc"]
  /\ UNCHANGED <<procVars, imageVars, info, slots, swap, held, panicked>>

\* DISCARD: the victim is clean.
EvictClean(p) ==
  /\ op[p].pc = "evict"
  /\ ~NothingToEvict(p)
  /\ ~info[p][Victim(p)].dirty
  /\ info' = [info EXCEPT ![p][Victim(p)].state = "UNMAPPED"]
  /\ fifo' = [fifo EXCEPT ![p] = Tail(@)]
  /\ UnmapAll(p, {Victim(p)})
  /\ op' = [op EXCEPT ![p].pc = "alloc"]
  /\ UNCHANGED <<procVars, imageVars, slots, swap, held, panicked>>

\* SWAPOUT: the victim is dirty and goes to the first free slot.
EvictDirty(p) ==
  /\ op[p].pc = "evict"
  /\ ~NothingToEvict(p)
  /\ info[p][Victim(p)].dirty
  /\ \E s \in FreeSlots(p) :
       /\ \A t \in FreeSlots(p) : s <= t
       /\ s < SwapCap
       /\ slots' = [slots EXCEPT ![p] = @ \cup {s}]
       /\ swap'  = [swap EXCEPT ![p][s] = mem[frame[p][Victim(p)]]]
       /\ info'  = [info EXCEPT ![p][Victim(p)] =
                       [@ EXCEPT !.state = "SWAPPED", !.slot = s]]
  /\ fifo' = [fifo EXCEPT ![p] = Tail(@)]
  /\ UnmapAll(p, {Victim(p)})
  /\ op' = [op EXCEPT ![p].pc = "alloc"]
  /\ UNCHANGED <<procVars, imageVars, held, panicked>>

\* Mutant: the handler waits for a frame instead of killing the process.
AllocAfterEvictWaits(p) ==
  /\ op[p].pc = "alloc"
  /\ \E f \in free : Kalloc(p, f)
  /\ op' = [op EXCEPT ![p].pc = "load"]
  /\ UNCHANGED <<procVars, imageVars, ptVars, pageVars, mem, panicked>>

\* kalloc after an eviction; another process may have taken the frame.
AllocAfterEvict(p) ==
  /\ op[p].pc = "alloc"
  /\ \/ /\ \E f \in free : Kalloc(p, f)
        /\ op' = [op EXCEPT ![p].pc = "load"]
        /\ UNCHANGED <<killed, mem>>
     \/ /\ free = {}
        /\ KillSelf(p)
        /\ UNCHANGED memVars
  /\ UNCHANGED <<state, parent, imageVars, ptVars, pageVars, panicked>>

\* mappages finds the page mapped: panic("mappages: remap").
LoadRemap(p) ==
  /\ op[p].pc = "load"
  /\ Mapped(p, op[p].va)
  /\ panicked' = TRUE
  /\ UNCHANGED <<procVars, imageVars, ptVars, pageVars, memVars, op>>

\* Fill the frame, map it and mark the page resident: SWAPIN, LOADEXEC or ALLOC.
Load(p) ==
  LET v == op[p].va
      kind == op[p].kind
  IN /\ op[p].pc = "load"
     /\ ~Mapped(p, v)
     /\ mem' = [mem EXCEPT ![held[p]] =
                  CASE kind = "swap" -> swap[p][info[p][v].slot]
                    [] kind = "exec" -> ExecContent(p, v)
                    [] kind = "zero" -> Zero]
     /\ slots' = IF kind = "swap"
                 THEN [slots EXCEPT ![p] = @ \ {info[p][v].slot}] ELSE slots
     /\ frame' = [frame EXCEPT ![p][v] = held[p]]
     /\ perm'  = [perm EXCEPT ![p][v] =
                    IF kind = "exec" THEN ExecPerm(p, v) ELSE {"U"}]
     /\ held'  = [held EXCEPT ![p] = NoFrame]
     \* swap_slot is reset on a swap-in only.
     /\ info'  = [info EXCEPT ![p][v] =
                    IF kind = "swap" THEN Resident
                    ELSE [@ EXCEPT !.state = "RESIDENT", !.dirty = FALSE]]
     /\ fifo'  = [fifo EXCEPT ![p] = Youngest(@, v)]
     /\ op' = [op EXCEPT ![p] =
                 IF @.val = NoValue THEN Idle ELSE [@ EXCEPT !.pc = "copyout"]]
     /\ UNCHANGED <<procVars, imageVars, swap, free, panicked>>

-----------------------------------------------------------------------------
(* kfork: the child's page table is filled one kalloc at a time.            *)

\* Mutant: a slot is taken that another kfork has reserved.
ForkStartUsed(p, c) ==
  /\ InUser(p) /\ "fork" \in Calls
  /\ state[c] \in {"UNUSED", "USED"}
  /\ state' = [state EXCEPT ![c] = "USED"]
  /\ op' = [op EXCEPT ![p] = ForkOf(c)]
  /\ UNCHANGED <<parent, killed, imageVars, ptVars, pageVars, memVars, panicked>>

\* allocproc: a slot in state USED with its paging fields cleared.
ForkStart(p, c) ==
  /\ InUser(p) /\ "fork" \in Calls
  /\ state[c] = "UNUSED"
  /\ state' = [state EXCEPT ![c] = "USED"]
  /\ op' = [op EXCEPT ![p] = ForkOf(c)]
  /\ UNCHANGED <<parent, killed, imageVars, ptVars, pageVars, memVars, panicked>>

\* uvmcopy: mapped pages below p->sz, in the order of their addresses.
ToCopy(p, c) == {v \in VPage : v < sz[p] /\ Mapped(p, v) /\ ~Mapped(c, v)}

\* Mutant: the page is mapped before it is copied, and never copied.
ForkMapsPage(p) ==
  LET c == op[p].child IN
  /\ op[p].pc = "fork"
  /\ \E v \in ToCopy(p, c), f \in free :
       /\ \A u \in ToCopy(p, c) : v <= u
       /\ free'  = free \ {f}
       /\ frame' = [frame EXCEPT ![c][v] = f]
       /\ perm'  = [perm EXCEPT ![c][v] = perm[p][v]]
  /\ UNCHANGED <<procVars, imageVars, pageVars, mem, held, op, panicked>>

ForkCopyPage(p) ==
  LET c == op[p].child IN
  /\ op[p].pc = "fork"
  /\ \E v \in ToCopy(p, c), f \in free :
       /\ \A u \in ToCopy(p, c) : v <= u
       /\ free'  = free \ {f}
       /\ mem'   = [mem EXCEPT ![f] = mem[frame[p][v]]]
       /\ frame' = [frame EXCEPT ![c][v] = f]
       /\ perm'  = [perm EXCEPT ![c][v] = perm[p][v]]
  /\ UNCHANGED <<procVars, imageVars, pageVars, held, op, panicked>>

\* Mutant: the page table goes and its frames stay allocated.
FreeProcLeaks(c) ==
  /\ state' = [state EXCEPT ![c] = "UNUSED"]
  /\ killed' = [killed EXCEPT ![c] = FALSE]
  /\ frame' = [frame EXCEPT ![c] = NoMap]
  /\ perm'  = [perm EXCEPT ![c] = NoPerm]
  /\ Kfree({})

\* Frames and entries of a slot that is given back (freeproc).
FreeProc(c) ==
  /\ state' = [state EXCEPT ![c] = "UNUSED"]
  /\ killed' = [killed EXCEPT ![c] = FALSE]
  /\ UnmapAll(c, MappedPages(c))

ForkFails(p) ==
  LET c == op[p].child IN
  /\ op[p].pc = "fork"
  /\ ToCopy(p, c) # {} /\ free = {}
  /\ FreeProc(c)
  /\ Return(p)
  /\ UNCHANGED <<parent, imageVars, pageVars, held, panicked>>

\* The child's entry for a page of the parent.
ChildInfo(e) ==
  [e EXCEPT !.slot = -1, !.state = IF @ = "SWAPPED" THEN "UNMAPPED" ELSE @]

ForkDone(p) ==
  LET c == op[p].child IN
  /\ op[p].pc = "fork"
  /\ ToCopy(p, c) = {}
  /\ state'  = [state EXCEPT ![c] = "RUNNABLE"]
  /\ parent' = [parent EXCEPT ![c] = p]
  /\ img'  = [img EXCEPT ![c] = img[p]]
  /\ segs' = [segs EXCEPT ![c] = segs[p]]
  /\ execInode' = [execInode EXCEPT ![c] = execInode[p]]
  /\ sz'   = [sz EXCEPT ![c] = sz[p]]
  /\ info' = [info EXCEPT ![c] = [v \in VPage |-> ChildInfo(info[p][v])]]
  /\ fifo' = [fifo EXCEPT ![c] = fifo[p]]
  /\ Return(p)
  /\ UNCHANGED <<killed, ptVars, slots, swap, memVars, panicked>>

-----------------------------------------------------------------------------
(* kexit, kwait and kkill.                                                  *)

\* The swap file and the executable's inode are given up, children go to
\* initproc, and the frames stay until the parent waits.
Exit(p) ==
  /\ state[p] = "RUNNABLE" /\ op[p] = Idle /\ p # InitProc
  /\ killed[p] \/ "exit" \in Calls
  /\ state' = [state EXCEPT ![p] = "ZOMBIE"]
  /\ parent' = [q \in Proc |-> IF parent[q] = p THEN InitProc ELSE parent[q]]
  /\ execInode' = [execInode EXCEPT ![p] = NoImage]
  /\ UNCHANGED <<killed, img, segs, sz, ptVars, pageVars, memVars, op, panicked>>

\* panic("init exiting").
InitExits(p) ==
  /\ p = InitProc /\ op[p] = Idle /\ killed[p]
  /\ panicked' = TRUE
  /\ UNCHANGED <<procVars, imageVars, ptVars, pageVars, memVars, op>>

\* freeproc resets p->num_pages and p->sz; allocproc the rest before reuse.
Wait(p, c) ==
  /\ InUser(p)
  /\ parent[c] = p /\ state[c] = "ZOMBIE"
  /\ FreeProc(c)
  /\ parent' = [parent EXCEPT ![c] = NoProc]
  /\ img'  = [img EXCEPT ![c] = InitImage]
  /\ segs' = [segs EXCEPT ![c] = NoImage]
  /\ sz'   = [sz EXCEPT ![c] = 0]
  /\ info' = [info EXCEPT ![c] = NoInfo]
  /\ fifo' = [fifo EXCEPT ![c] = <<>>]
  /\ slots' = [slots EXCEPT ![c] = {}]
  /\ swap'  = [swap EXCEPT ![c] = NoSwap]
  /\ UNCHANGED <<execInode, held, op, panicked>>

Kill(p) ==
  /\ "kill" \in Calls
  /\ state[p] # "UNUSED"
  /\ ~killed[p]
  /\ killed' = [killed EXCEPT ![p] = TRUE]
  /\ UNCHANGED <<state, parent, imageVars, ptVars, pageVars, memVars, op, panicked>>

-----------------------------------------------------------------------------
(* kexec: the segment table is replaced while the headers are read, the     *)
(* rest of the image is committed at the end.                               *)

ExecParse(p, i) ==
  /\ InUser(p) /\ "exec" \in Calls
  /\ segs' = [segs EXCEPT ![p] = i]
  /\ execInode' = [execInode EXCEPT ![p] = i]
  /\ op' = [op EXCEPT ![p] = ExecOf("execguard", i)]
  /\ UNCHANGED <<procVars, img, sz, ptVars, pageVars, memVars, panicked>>

\* A bad program header after num_segments = 0.
ExecBadHeader(p) ==
  /\ InUser(p) /\ "badexec" \in Calls
  /\ segs' = [segs EXCEPT ![p] = NoImage]
  /\ UNCHANGED <<procVars, img, execInode, sz, ptVars, pageVars, memVars, op, panicked>>

\* kalloc of the guard page.
ExecGuard(p) ==
  /\ op[p].pc = "execguard"
  /\ \/ /\ \E f \in free : Kalloc(p, f)
        /\ mem' = mem
        /\ op' = [op EXCEPT ![p].pc = "execstack"]
     \/ /\ free = {}
        /\ Return(p)
        /\ UNCHANGED memVars
  /\ UNCHANGED <<procVars, imageVars, ptVars, pageVars, panicked>>

\* Mutant: the guard page is not given back.
ExecFailsLeaks(p) ==
  /\ op[p].pc = "execstack"
  /\ free = {} \/ "badexec" \in Calls
  /\ Return(p)
  /\ UNCHANGED <<procVars, imageVars, ptVars, pageVars, memVars, panicked>>

\* No frame for the stack page, or the arguments do not fit in it.
ExecFails(p) ==
  /\ op[p].pc = "execstack"
  /\ free = {} \/ "badexec" \in Calls
  /\ held' = [held EXCEPT ![p] = NoFrame]
  /\ Kfree({held[p]})
  /\ Return(p)
  /\ UNCHANGED <<procVars, imageVars, ptVars, pageVars, panicked>>

\* kalloc of the stack page and "Commit to the user image".  The swap bitmap
\* is not touched.
ExecCommit(p) ==
  LET i == op[p].img
      old == FramesOf(p)
  IN /\ op[p].pc = "execstack"
     /\ \E f \in free :
          /\ free' = (free \ {f}) \cup old
          /\ mem'  = [Freed(old) EXCEPT ![f] = Zero, ![held[p]] = Zero]
          /\ frame' = [frame EXCEPT ![p] = [NoMap EXCEPT ![Guard(i)] = held[p],
                                                         ![StackPage(i)] = f]]
     /\ perm'  = [perm EXCEPT ![p] = [NoPerm EXCEPT ![Guard(i)] = {"W"},
                                                    ![StackPage(i)] = {"U", "W"}]]
     /\ held' = [held EXCEPT ![p] = NoFrame]
     /\ img'  = [img EXCEPT ![p] = i]
     /\ sz'   = [sz EXCEPT ![p] = StackTop(i)]
     /\ info' = [info EXCEPT ![p] = [NoInfo EXCEPT ![StackPage(i)] = Resident]]
     /\ fifo' = [fifo EXCEPT ![p] = <<StackPage(i)>>]
     /\ Return(p)
     /\ UNCHANGED <<procVars, segs, execInode, slots, swap, panicked>>

-----------------------------------------------------------------------------
(* sys_sbrk: eager (growproc, uvmalloc), lazy, and shrinking (uvmdealloc).   *)

SbrkLazy(p, n) ==
  /\ InUser(p) /\ "lazy" \in Calls
  /\ sz[p] + n <= MaxVPage + 1
  /\ sz' = [sz EXCEPT ![p] = @ + n]
  /\ UNCHANGED <<procVars, img, segs, execInode, ptVars, pageVars, memVars, op, panicked>>

SbrkEager(p, n) ==
  /\ InUser(p) /\ "eager" \in Calls
  /\ sz[p] + n <= MaxVPage + 1
  /\ op' = [op EXCEPT ![p] = GrowTo(sz[p], sz[p] + n)]
  /\ UNCHANGED <<procVars, imageVars, ptVars, pageVars, memVars, panicked>>

\* The pages uvmdealloc unmaps: the guard and stack pages stay.
Dealloc(p, from, upto) ==
  {v \in VPage : /\ from <= v /\ v < upto
                 /\ ~(Guard(img[p]) <= v /\ v < StackTop(img[p]))
                 /\ Mapped(p, v)}

\* One round of uvmalloc's loop; a page that is mapped already is a remap.
GrowPage(p) ==
  LET v == op[p].at IN
  /\ op[p].pc = "grow" /\ op[p].at < op[p].to
  /\ ~Mapped(p, v)
  /\ \E f \in free :
       /\ free'  = free \ {f}
       /\ mem'   = [mem EXCEPT ![f] = Zero]
       /\ frame' = [frame EXCEPT ![p][v] = f]
  /\ perm' = [perm EXCEPT ![p][v] = {"U", "W"}]
  /\ op'   = [op EXCEPT ![p].at = @ + 1]
  /\ UNCHANGED <<procVars, imageVars, pageVars, held, panicked>>

GrowRemap(p) ==
  /\ op[p].pc = "grow" /\ op[p].at < op[p].to
  /\ free # {} /\ Mapped(p, op[p].at)
  /\ panicked' = TRUE
  /\ UNCHANGED <<procVars, imageVars, ptVars, pageVars, memVars, op>>

\* Out of memory: the pages allocated so far go back.
GrowFails(p) ==
  /\ op[p].pc = "grow" /\ op[p].at < op[p].to
  /\ free = {}
  /\ UnmapAll(p, Dealloc(p, sz[p], op[p].at))
  /\ Return(p)
  /\ UNCHANGED <<procVars, imageVars, pageVars, held, panicked>>

GrowDone(p) ==
  /\ op[p].pc = "grow" /\ op[p].at = op[p].to
  /\ sz' = [sz EXCEPT ![p] = op[p].to]
  /\ Return(p)
  /\ UNCHANGED <<procVars, img, segs, execInode, ptVars, pageVars, memVars, panicked>>

\* Mutant: uvmdealloc's newsz >= oldsz test is missing.
SbrkShrinkUnchecked(p, n) ==
  /\ InUser(p) /\ "shrink" \in Calls
  /\ UnmapAll(p, Dealloc(p, sz[p] - n, sz[p]))
  /\ sz' = [sz EXCEPT ![p] = @ - n]
  /\ UNCHANGED <<procVars, img, segs, execInode, pageVars, held, op, panicked>>

\* The page_info entries of the pages stay as they are.
SbrkShrink(p, n) ==
  /\ InUser(p) /\ "shrink" \in Calls
  /\ n <= sz[p]
  /\ UnmapAll(p, Dealloc(p, sz[p] - n, sz[p]))
  /\ sz' = [sz EXCEPT ![p] = @ - n]
  /\ UNCHANGED <<procVars, img, segs, execInode, pageVars, held, op, panicked>>

-----------------------------------------------------------------------------
\* User code runs, traps or makes a system call.
UserStep(p) ==
  \/ \E v \in VPage, x \in Value : Store(p, v, x) \/ CopyOut(p, v, x)
  \/ \E v \in VPage, access \in Accesses : UserFault(p, v, access)
  \/ \E v \in VPage, x \in Value \cup {NoValue} : KernelFault(p, v, x)
  \/ \E c \in Proc : ForkStart(p, c) \/ Wait(p, c)
  \/ \E i \in Image : ExecParse(p, i)
  \/ ExecBadHeader(p)
  \/ \E n \in 1..(MaxVPage + 1) : SbrkLazy(p, n) \/ SbrkEager(p, n) \/ SbrkShrink(p, n)
  \/ Kill(p)

\* The kernel goes on with what p is doing; a killed process exits.
KernelStep(p) ==
  \/ EvictFails(p) \/ EvictClean(p) \/ EvictDirty(p)
  \/ AllocAfterEvict(p) \/ LoadRemap(p) \/ Load(p) \/ CopyOutResume(p)
  \/ ForkCopyPage(p) \/ ForkFails(p) \/ ForkDone(p)
  \/ ExecGuard(p) \/ ExecFails(p) \/ ExecCommit(p)
  \/ GrowPage(p) \/ GrowRemap(p) \/ GrowFails(p) \/ GrowDone(p)

Next == ~panicked /\ \E p \in Proc : UserStep(p) \/ KernelStep(p) \/ Exit(p) \/ InitExits(p)

\* kexec has just run /init: f and g are its guard and stack frames.
Init ==
  /\ state  = [p \in Proc |-> IF p = InitProc THEN "RUNNABLE" ELSE "UNUSED"]
  /\ parent = [p \in Proc |-> NoProc]
  /\ killed = [p \in Proc |-> FALSE]
  /\ img    = [p \in Proc |-> InitImage]
  /\ segs   = [p \in Proc |-> IF p = InitProc THEN InitImage ELSE NoImage]
  /\ execInode = segs
  /\ sz     = [p \in Proc |-> IF p = InitProc THEN StackTop(InitImage) ELSE 0]
  /\ \E f, g \in Frame :
       /\ f # g
       /\ frame = [p \in Proc |->
            IF p = InitProc THEN [NoMap EXCEPT ![Guard(InitImage)] = f,
                                               ![StackPage(InitImage)] = g]
            ELSE NoMap]
       /\ free = Frame \ {f, g}
       /\ mem = [h \in Frame |-> IF h \in {f, g} THEN Zero ELSE Junk]
  /\ perm = [p \in Proc |->
       IF p = InitProc THEN [NoPerm EXCEPT ![Guard(InitImage)] = {"W"},
                                           ![StackPage(InitImage)] = {"U", "W"}]
       ELSE NoPerm]
  /\ info = [p \in Proc |->
       IF p = InitProc THEN [NoInfo EXCEPT ![StackPage(InitImage)] = Resident]
       ELSE NoInfo]
  /\ fifo  = [p \in Proc |-> IF p = InitProc THEN <<StackPage(InitImage)>> ELSE <<>>]
  /\ slots = [p \in Proc |-> {}]
  /\ swap  = [p \in Proc |-> NoSwap]
  /\ held  = [p \in Proc |-> NoFrame]
  /\ op    = [p \in Proc |-> Idle]
  /\ panicked = FALSE

\* Every process in the kernel is scheduled again.
Fairness == \A p \in Proc : WF_vars(~panicked /\ KernelStep(p))

Spec == Init /\ [][Next]_vars
FairSpec == Spec /\ Fairness

-----------------------------------------------------------------------------
\* The page tables, page_info entries, free list and handler states are what
\* the code's types and the layout of kexec allow.
TypeOK ==
  /\ state  \in [Proc -> {"UNUSED", "USED", "RUNNABLE", "ZOMBIE"}]
  /\ parent \in [Proc -> Proc \cup {NoProc}]
  /\ killed \in [Proc -> BOOLEAN]
  /\ img    \in [Proc -> Image]
  /\ segs   \in [Proc -> Image \cup {NoImage}]
  /\ execInode \in [Proc -> Image \cup {NoImage}]
  /\ sz     \in [Proc -> 0..(MaxVPage + 1)]
  /\ frame  \in [Proc -> [VPage -> Frame \cup {NoFrame}]]
  /\ perm   \in [Proc -> [VPage -> SUBSET {"U", "W", "X"}]]
  /\ info   \in [Proc -> [VPage ->
                  [state : {"NONE", "UNMAPPED", "RESIDENT", "SWAPPED"},
                   dirty : BOOLEAN, slot : Slot \cup {-1}]]]
  /\ fifo   \in [Proc -> Seq(VPage)]
  /\ slots  \in [Proc -> SUBSET Slot]
  /\ swap   \in [Proc -> [Slot -> Content]]
  /\ free   \in SUBSET Frame
  /\ mem    \in [Frame -> Content]
  /\ held   \in [Proc -> Frame \cup {NoFrame}]
  /\ op     \in [Proc -> OpType]
  /\ panicked \in BOOLEAN

\* A frame backs at most one page of one process.
NoAliasing ==
  \A p, q \in Proc : \A v, w \in VPage :
    Mapped(p, v) /\ frame[p][v] = frame[q][w] => p = q /\ v = w

\* kfree is called on a frame only after its last mapping is gone.
MappedNotFree == \A p \in Proc : \A v \in VPage : frame[p][v] \notin free

\* Between kalloc and mappages a frame is in one process's hands only.
HeldExclusive ==
  \A p \in Proc : held[p] # NoFrame =>
    /\ held[p] \notin free
    /\ \A q \in Proc : (q # p => held[q] # held[p]) /\ held[p] \notin FramesOf(q)

\* No frame is lost by any path through evict, fork, exec, sbrk or wait.
NoFrameLost ==
  \A f \in Frame : f \in free \/ \E p \in Proc : held[p] = f \/ f \in FramesOf(p)

\* kalloc.c's frames: each is free, or backs one page, or is in one process's
\* hands, through every interleaving of faults, fork, exec, sbrk and exit.
FrameOwnership == NoAliasing /\ MappedNotFree /\ HeldExclusive /\ NoFrameLost

\* Two swapped pages of a process never share a slot, and the slot of a
\* swapped page is marked in the bitmap and fits in the swap file.
SlotOwnership ==
  \A p \in Proc : \A v \in VPage :
    info[p][v].state = "SWAPPED" =>
      /\ info[p][v].slot \in slots[p]
      /\ info[p][v].slot < SwapCap
      /\ \A w \in VPage \ {v} :
           info[p][w].state = "SWAPPED" => info[p][w].slot # info[p][v].slot

\* A process holds an unmapped frame exactly between kalloc and mappages: no
\* path leaves the handler or kexec with one, or maps one it does not have.
HeldInHandler ==
  \A p \in Proc : held[p] # NoFrame <=> op[p].pc \in {"load", "execstack"}

\* A slot that allocproc reserved belongs to one kfork until it returns, and
\* only a process that the scheduler runs is in the kernel.
ChildReserved ==
  \A p \in Proc :
    /\ op[p].pc # "user" => state[p] = "RUNNABLE"
    /\ op[p].pc = "fork" =>
         /\ state[op[p].child] = "USED"
         /\ \A q \in Proc \ {p} : op[q].pc = "fork" => op[q].child # op[p].child

\* The eviction a swap-in has to make first leaves the page to swap in, and so
\* its slot, alone.
SwapInHasSlot ==
  \A p \in Proc :
    op[p].pc \in {"evict", "alloc", "load"} /\ op[p].kind = "swap"
    => info[p][op[p].va].state = "SWAPPED"

\* The FIFO lists each resident page once and nothing else.
FifoIsResident ==
  \A p \in Proc :
    /\ {fifo[p][i] : i \in 1..Len(fifo[p])}
         = {v \in VPage : info[p][v].state = "RESIDENT"}
    /\ \A i, j \in 1..Len(fifo[p]) : fifo[p][i] = fifo[p][j] => i = j

\* The handler never maps a page that is mapped already, as long as no one
\* jumps to a data page or shrinks: the only panic is that of /init's death.
NoRemap == panicked => killed[InitProc] /\ op[InitProc] = Idle

\* A fault that has to wait for frames finds things as it left them
\* (handle_page_fault, evict_page_fifo, mappages).
FaultsAreSafe == SwapInHasSlot /\ NoRemap

\* Every fault, fork, exec and sbrk comes to an end, whatever the others take
\* from the free list meanwhile.
KernelReturns == \A p \in Proc : op[p].pc # "user" ~> (op[p].pc = "user" \/ panicked)

=============================================================================
