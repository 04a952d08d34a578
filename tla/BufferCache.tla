----------------------------- MODULE BufferCache -----------------------------
(***************************************************************************)
(* The buffer cache of kernel/bio.c over the driver of virtio_disk.c.      *)
(*                                                                         *)
(* Processes get buffers for blocks, sleep for a buffer's lock, for three  *)
(* descriptors and for the device; the device answers requests in any      *)
(* order and interrupts.  Sections under bcache.lock or vdisk_lock that do *)
(* not sleep are single actions; the interrupt handler, which the device   *)
(* can overtake, is one action per entry.                                  *)
(***************************************************************************)
EXTENDS Integers, Sequences, FiniteSets, Functions

CONSTANTS
  Proc, Nobody,
  Block, NoBlock,
  Content, Blank,  \* what a block holds, and what mkfs has put there
  NBUF,            \* buffers in the cache
  NUM,             \* descriptors of the queue
  MaxPins,         \* blocks the log keeps in the cache at once
  Plans            \* what the processes do: sequences of <<block>>

ASSUME CacheAssumption ==
  /\ NBUF \in Nat /\ NUM \in Nat /\ NUM >= 3 /\ MaxPins \in Nat
  /\ IsFiniteSet(Proc)
  /\ Plans \subseteq [Proc -> Seq({"read", "log", "write"} \X Block)]
  /\ Blank \in Content /\ NoBlock \notin Block /\ Nobody \notin Proc

Buf == 1..NBUF
Desc == 0..(NUM - 1)

VARIABLES
  \* struct buf: its block, whether it has been read, its references, its
  \* data, the owner of its sleep lock, "the disk has it"; the LRU list
  blockno, valid, refcnt, data, lock, busy, lru,
  \* struct disk: free descriptors, info[].b, the avail and used rings, whether
  \* the interrupt line is up and whether the handler runs
  free, info, avail, used, irq, handling,
  \* the device's blocks
  disk,
  \* a process: where it is, on which buffer, whether it writes, its
  \* descriptors, the calls it has todo
  pc, at, write, idx, todo,
  \* blocks the log has pinned
  pinned,
  \* bget has panicked, with bcache.lock held
  panicked

bufVars  == <<blockno, valid, refcnt, data, lock, busy, lru>>
diskVars == <<free, info, avail, used, irq, handling, disk>>
procVars == <<pc, at, write, idx, todo>>
vars == <<bufVars, diskVars, procVars, pinned, panicked>>

CacheInit ==
  /\ blockno = [b \in Buf |-> NoBlock] /\ valid = [b \in Buf |-> FALSE]
  /\ refcnt = [b \in Buf |-> 0] /\ data = [b \in Buf |-> Blank]
  /\ lock = [b \in Buf |-> Nobody] /\ busy = [b \in Buf |-> FALSE]
  /\ lru = [i \in Buf |-> NBUF + 1 - i]

DriverInit ==
  /\ free = Desc /\ info = [d \in Desc |-> 0]
  /\ avail = {} /\ used = <<>> /\ irq = FALSE /\ handling = FALSE

Init ==
  /\ CacheInit /\ DriverInit
  /\ disk = [b \in Block |-> Blank]
  /\ pc = [p \in Proc |-> "idle"] /\ at = [p \in Proc |-> 0]
  /\ write = [p \in Proc |-> FALSE]
  /\ idx = [p \in Proc |-> <<>>] /\ todo \in Plans
  /\ pinned = {} /\ panicked = FALSE

Goto(p, l) == pc' = [pc EXCEPT ![p] = l]

\* wakeup(chan): those who sleep at l over buffer b run on at m.
Woken(l, m, b) == [p \in Proc |-> IF pc[p] = l /\ at[p] = b THEN m ELSE pc[p]]

-----------------------------------------------------------------------------
(* bget and its sleep lock.                                                 *)

\* Mutant: a buffer that is still being read is not found.
CachedValid(n) == {b \in Buf : blockno[b] = n /\ valid[b]}

Cached(n) == {b \in Buf : blockno[b] = n}

\* Mutant: a buffer that is waited for or pinned can be taken.
Unlocked == {b \in Buf : lock[b] = Nobody}

\* Mutant: the scan from the tail stops before it has seen the first buffer.
UnusedButFirst == {b \in Buf : refcnt[b] = 0 /\ b # lru[1]}

Unused == {b \in Buf : refcnt[b] = 0}

\* The least recently used of a set of buffers: the last in the list.
LeastRecent(S, b) ==
  \E i \in Buf : lru[i] = b /\ b \in S /\ \A j \in Buf : lru[j] \in S => j <= i

Why(p) == todo[p][1][1]

\* The calls the kernel makes: read a block, change one in a transaction
\* (log_write pins it), write one through (log blocks, and pinned blocks
\* when the commit installs them: one process at a time does that).  begin_op
\* reserves what a transaction may pin.
Using(w) == {q \in Proc : pc[q] # "idle" /\ Why(q) = w}
Reasonable(w, n) ==
  /\ w = "write" => \A q \in Using("write") : blockno[at[q]] # n
  /\ w = "log" => Cardinality(pinned) + Cardinality(Using("log")) < MaxPins

BgetHit(p, n) ==
  \E b \in Cached(n) :
    /\ refcnt' = [refcnt EXCEPT ![b] = @ + 1]
    /\ at' = [at EXCEPT ![p] = b]
    /\ UNCHANGED <<blockno, valid>>

BgetRecycle(p, n) ==
  /\ Cached(n) = {}
  /\ \E b \in Buf :
       /\ LeastRecent(Unused, b)
       /\ blockno' = [blockno EXCEPT ![b] = n]
       /\ valid' = [valid EXCEPT ![b] = FALSE]
       /\ refcnt' = [refcnt EXCEPT ![b] = 1]
       /\ at' = [at EXCEPT ![p] = b]

\* Sections under bcache.lock: after a panic in one of them nobody gets the lock.
Bget(p) ==
  /\ pc[p] = "idle" /\ todo[p] # <<>> /\ ~panicked
  /\ LET n == todo[p][1][2] IN
       /\ Reasonable(Why(p), n)
       /\ BgetHit(p, n) \/ BgetRecycle(p, n)
  /\ Goto(p, "lock")
  /\ UNCHANGED <<data, lock, busy, lru, diskVars, write, idx, todo, pinned, panicked>>

\* panic("bget: no buffers"): this CPU stops with bcache.lock held; the others
\* run on until they need it.
BgetPanic(p) ==
  /\ pc[p] = "idle" /\ todo[p] # <<>> /\ ~panicked
  /\ LET n == todo[p][1][2] IN Reasonable(Why(p), n) /\ Cached(n) = {}
  /\ Unused = {}
  /\ panicked' = TRUE
  /\ UNCHANGED <<bufVars, diskVars, procVars, pinned>>

\* acquiresleep(&b->lock), and what bread does with the buffer.
Acquire(p) ==
  /\ pc[p] = "lock"
  /\ IF lock[at[p]] # Nobody
       THEN Goto(p, "waitLock") /\ UNCHANGED <<lock, write>>
       ELSE /\ lock' = [lock EXCEPT ![at[p]] = p]
            /\ Goto(p, IF valid[at[p]] THEN "held" ELSE "alloc")
            /\ write' = [write EXCEPT ![p] = FALSE]
  /\ UNCHANGED <<blockno, valid, refcnt, data, busy, lru, diskVars, at, idx,
                 todo, pinned, panicked>>
-----------------------------------------------------------------------------
(* virtio_disk_rw.                                                          *)

\* alloc_desc takes the first free one, three times.
FirstFree(d) == d[1] < d[2] /\ d[2] < d[3] /\ \A x \in free \ Range(d) : d[3] < x

\* alloc3_desc returns what it got and wakes the others when there are not
\* three; then the process sleeps.
AllocFails(p) ==
  /\ pc[p] = "alloc" /\ ~handling /\ Cardinality(free) < 3
  /\ pc' = [q \in Proc |-> CASE q = p -> "waitDesc"
                             [] q # p /\ pc[q] = "waitDesc" /\ free # {} -> "alloc"
                             [] OTHER -> pc[q]]
  /\ UNCHANGED <<bufVars, diskVars, at, write, idx, todo, pinned, panicked>>

Submit(p) ==
  /\ pc[p] = "alloc" /\ ~handling
  /\ \E d \in [1..3 -> free] :
       /\ FirstFree(d)
       /\ free' = free \ Range(d)
       /\ idx' = [idx EXCEPT ![p] = d]
       /\ info' = [info EXCEPT ![d[1]] = at[p]]
       /\ avail' = avail \cup {<<d[1], write[p]>>}
  /\ busy' = [busy EXCEPT ![at[p]] = TRUE]
  /\ Goto(p, "waitDisk")
  /\ UNCHANGED <<blockno, valid, refcnt, data, lock, lru, used, irq, handling, disk,
                 at, write, todo, pinned, panicked>>

\* The process runs again and finds its request unfinished.
WaitOn(p) ==
  /\ pc[p] = "check" /\ ~handling /\ busy[at[p]]
  /\ Goto(p, "waitDisk")
  /\ UNCHANGED <<bufVars, diskVars, at, write, idx, todo, pinned, panicked>>

\* Mutant: one waiting process is enough, and none is told.
QuietFree(p) == [q \in Proc |-> IF q = p THEN IF write[p] THEN "written" ELSE "held"
                                ELSE pc[q]]

\* free_chain wakes the waiters; a read makes the buffer valid.
AfterFree(p) ==
  [q \in Proc |-> IF q = p THEN IF write[p] THEN "written" ELSE "held"
                  ELSE IF pc[q] = "waitDesc" THEN "alloc" ELSE pc[q]]

\* Mutant: the wakeup is taken for the answer.
AnyWakeup(p) == TRUE

Answered(p) == ~busy[at[p]]

Finish(p) ==
  /\ pc[p] = "check" /\ ~handling /\ Answered(p)
  /\ info' = [info EXCEPT ![idx[p][1]] = 0]
  /\ free' = free \cup Range(idx[p])
  /\ idx' = [idx EXCEPT ![p] = <<>>]
  /\ valid' = [valid EXCEPT ![at[p]] = TRUE]
  /\ pc' = AfterFree(p)
  /\ UNCHANGED <<blockno, refcnt, data, lock, busy, lru, avail, used, irq, handling,
                 disk, at, write, todo, pinned, panicked>>

-----------------------------------------------------------------------------
(* The device, and virtio_disk_intr.                                        *)

\* The device takes any published request, moves the data, and interrupts.
Device ==
  /\ \E r \in avail :
       LET b == info[r[1]] IN
       /\ IF r[2] THEN disk' = [disk EXCEPT ![blockno[b]] = data[b]] /\ UNCHANGED data
                  ELSE data' = [data EXCEPT ![b] = disk[blockno[b]]] /\ UNCHANGED disk
       /\ avail' = avail \ {r}
       /\ used' = Append(used, r[1])
  /\ irq' = TRUE
  /\ UNCHANGED <<blockno, valid, refcnt, lock, busy, lru, free, info, handling,
                 procVars, pinned, panicked>>

IntrAck ==
  /\ irq /\ ~handling
  /\ irq' = FALSE /\ handling' = TRUE
  /\ UNCHANGED <<bufVars, free, info, avail, used, disk, procVars, pinned, panicked>>

IntrEntry ==
  /\ handling /\ used # <<>>
  /\ LET b == info[Head(used)] IN
       /\ busy' = [busy EXCEPT ![b] = FALSE]
       /\ pc' = Woken("waitDisk", "check", b)
  /\ used' = Tail(used)
  /\ UNCHANGED <<blockno, valid, refcnt, data, lock, lru, free, info, avail, irq,
                 handling, disk, at, write, idx, todo, pinned, panicked>>

IntrEnd ==
  /\ handling /\ used = <<>>
  /\ handling' = FALSE
  /\ UNCHANGED <<bufVars, free, info, avail, used, irq, disk, procVars, pinned, panicked>>
-----------------------------------------------------------------------------
(* What the holder does with the buffer.                                    *)

\* A change inside a transaction: log_write pins the block once.
LogWrite(p) ==
  /\ pc[p] = "held" /\ Why(p) = "log"
  /\ LET b == at[p]
         n == blockno[b] IN
       /\ n \in pinned \/ ~panicked  \* bpin
       /\ \E c \in Content \ {data[b]} : data' = [data EXCEPT ![b] = c]
       /\ refcnt' = IF n \in pinned THEN refcnt ELSE [refcnt EXCEPT ![b] = @ + 1]
       /\ pinned' = pinned \cup {n}
  /\ Goto(p, "done")
  /\ UNCHANGED <<blockno, valid, lock, busy, lru, diskVars, at, write, idx, todo,
                 panicked>>

\* A block that is not pinned is changed and written; a pinned one is written.
Bwrite(p) ==
  /\ pc[p] = "held" /\ Why(p) = "write"
  /\ \/ blockno[at[p]] \in pinned /\ UNCHANGED data
     \/ /\ blockno[at[p]] \notin pinned
        /\ \E c \in Content \ {data[at[p]]} :
             data' = [data EXCEPT ![at[p]] = c]
  /\ write' = [write EXCEPT ![p] = TRUE]
  /\ Goto(p, "alloc")
  /\ UNCHANGED <<blockno, valid, refcnt, lock, busy, lru, diskVars, at, idx, todo,
                 pinned, panicked>>

\* install_trans unpins what it has written.
Written(p) ==
  /\ pc[p] = "written"
  /\ LET n == blockno[at[p]] IN
       /\ n \in pinned => ~panicked  \* bunpin
       /\ refcnt' = IF n \in pinned THEN [refcnt EXCEPT ![at[p]] = @ - 1] ELSE refcnt
       /\ pinned' = pinned \ {n}
  /\ Goto(p, "done")
  /\ UNCHANGED <<blockno, valid, data, lock, busy, lru, diskVars, at, write, idx,
                 todo, panicked>>

\* brelse: releasesleep first, then the reference under bcache.lock.
Releasesleep(p) ==
  /\ pc[p] = "done" \/ (pc[p] = "held" /\ Why(p) = "read")
  /\ lock' = [lock EXCEPT ![at[p]] = Nobody]
  /\ pc' = [Woken("waitLock", "lock", at[p]) EXCEPT ![p] = "unref"]
  /\ UNCHANGED <<blockno, valid, refcnt, data, busy, lru, diskVars, at, write, idx,
                 todo, pinned, panicked>>

Moved(b) == CHOOSE i \in Buf : lru[i] = b
ListAfter(b) == [i \in Buf |-> IF i = 1 THEN b ELSE IF i <= Moved(b) THEN lru[i - 1] ELSE lru[i]]

Brelse(p) ==
  /\ pc[p] = "unref" /\ ~panicked
  /\ refcnt' = [refcnt EXCEPT ![at[p]] = @ - 1]
  /\ lru' = IF refcnt'[at[p]] = 0 THEN ListAfter(at[p]) ELSE lru
  /\ at' = [at EXCEPT ![p] = 0]
  /\ Goto(p, "idle")
  /\ todo' = [todo EXCEPT ![p] = Tail(@)]
  /\ UNCHANGED <<blockno, valid, data, lock, busy, diskVars, write, idx, pinned,
                 panicked>>

\* kkill wakes a process wherever it sleeps; every sleep here is in a loop.
Kill(p) ==
  /\ pc[p] \in {"waitLock", "waitDesc", "waitDisk"}
  /\ Goto(p, CASE pc[p] = "waitLock" -> "lock"
               [] pc[p] = "waitDesc" -> "alloc"
               [] pc[p] = "waitDisk" -> "check")
  /\ UNCHANGED <<bufVars, diskVars, at, write, idx, todo, pinned, panicked>>

ProcStep(p) == \/ Bget(p) \/ BgetPanic(p) \/ Acquire(p) \/ AllocFails(p) \/ Submit(p)
               \/ WaitOn(p) \/ Finish(p) \/ LogWrite(p) \/ Bwrite(p) \/ Written(p)
               \/ Releasesleep(p) \/ Brelse(p)
Interrupt == IntrAck \/ IntrEntry \/ IntrEnd
Next == Device \/ Interrupt \/ \E p \in Proc : ProcStep(p) \/ Kill(p)

Fairness == WF_vars(Device) /\ WF_vars(Interrupt) /\ \A p \in Proc : WF_vars(ProcStep(p))
Spec == Init /\ [][Next]_vars /\ Fairness
-----------------------------------------------------------------------------
TypeOK ==
  /\ \A b \in Buf : /\ blockno[b] \in Block \cup {NoBlock} /\ refcnt[b] \in Nat
                    /\ lock[b] \in Proc \cup {Nobody} /\ data[b] \in Content
  /\ IsInjective(lru) /\ Range(lru) = Buf
  /\ free \subseteq Desc /\ Range(used) \subseteq Desc
  /\ \A p \in Proc : at[p] \in 0..NBUF

\* A block has one buffer, whoever asks for it in whatever order: bget finds or
\* claims it in one critical section.
OneBuffer ==
  \A b, c \in Buf : blockno[b] = blockno[c] /\ blockno[b] # NoBlock => b = c

\* A buffer's references are the processes that wait for it or have it and the
\* log's pin, so none is recycled under a sleeper: brelse, bpin and bunpin.
RefsAreUsers ==
  \A b \in Buf : refcnt[b] = Cardinality({p \in Proc : at[p] = b})
                              + IF blockno[b] \in pinned THEN 1 ELSE 0

\* Every descriptor is free or in one process's chain, so free_desc never
\* panics, and a request in the rings leads to a buffer its process has locked:
\* the device never touches a buffer that has been given away.
RequestsMatch ==
  /\ \A d \in Desc : Cardinality({p \in Proc : d \in Range(idx[p])})
                         = IF d \in free THEN 0 ELSE 1
  /\ \A d \in Range(used) \cup {r[1] : r \in avail} : \E p \in Proc :
        idx[p] # <<>> /\ idx[p][1] = d /\ info[d] = at[p] /\ lock[at[p]] = p

\* All of it, after every step of the processes, the device and the interrupt
\* handler (bget, brelse, virtio_disk_rw, virtio_disk_intr).
CacheConsistent == TypeOK /\ OneBuffer /\ RefsAreUsers /\ RequestsMatch

\* bget panics only when every buffer is in the hands of some process or pinned
\* by the log: no reference is left over from a brelse, a hit on a buffer that
\* others wait for, or a commit that unpins what several calls have pinned.
PanicsOnlyWhenFull ==
  panicked => \A b \in Buf : (\E p \in Proc : at[p] = b) \/ blockno[b] \in pinned

\* When bwrite returns, the disk has the block, however the process was woken:
\* the log's commit point relies on it.
WriteIsDurable ==
  \A p \in Proc : pc[p] = "written" => disk[blockno[at[p]]] = data[at[p]]

Current(n) == IF \E b \in Cached(n) : valid[b]
                THEN data[CHOOSE b \in Cached(n) : valid[b]] ELSE disk[n]
HolderOf(n) ==
  LET H == {p \in Proc : at[p] # 0 /\ blockno[at[p]] = n /\ lock[at[p]] = p
                        /\ valid[at[p]]}
  IN IF H = {} THEN Nobody ELSE CHOOSE p \in H : TRUE

Store == INSTANCE BlockStore WITH val <- [n \in Block |-> Current(n)],
                                  holder <- [n \in Block |-> HolderOf(n)]
\* The cache, the pins, the LRU list and the driver together are a store of
\* blocks: recycling, reading and writing through change no block's value, and
\* only the process that has it locked does.
ImplementsBlockStore == Store!Spec

\* Nobody waits for ever for a lock, for descriptors or for the device, although
\* waiters are woken to find that others were faster and completions race with
\* the acknowledgement of the interrupt: every process gets through its calls,
\* unless bget has run out of buffers and panicked.
AllServed == <>(panicked \/ \A p \in Proc : pc[p] = "idle" /\ todo[p] = <<>>)
=============================================================================
