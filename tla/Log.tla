--------------------------------- MODULE Log ---------------------------------
(***************************************************************************)
(* The write-ahead log of kernel/log.c over the buffer cache, with crashes.*)
(*                                                                         *)
(* File system calls run between begin_op and end_op and change cached     *)
(* blocks; the last one to end commits for all of them: the blocks go to   *)
(* the log, the header makes them count, they are installed at home and    *)
(* the header is cleared.  A power failure can come between any two disk   *)
(* writes and tear the block that is being written; recovery starts again  *)
(* from the header.  A header fits in one sector, so it is never torn.     *)
(***************************************************************************)
EXTENDS Integers, SequencesExt, FiniteSetsExt

CONSTANTS
  Proc,
  Block,        \* home blocks of the file system
  NoBlock,
  Content,      \* what a block may hold
  Blank,        \* what mkfs has put there
  Torn,         \* a block that was being written when the power failed
  NotCached,
  LOGBLOCKS,    \* data blocks of the log
  MAXOPBLOCKS,  \* blocks begin_op reserves for a call
  OpBlocks      \* blocks a call really writes (fewer: see README)

ASSUME LogAssumption ==
  /\ LOGBLOCKS \in Nat /\ MAXOPBLOCKS \in Nat /\ OpBlocks \in Nat
  /\ OpBlocks < MAXOPBLOCKS /\ MAXOPBLOCKS <= LOGBLOCKS
  /\ IsFiniteSet(Proc)
ASSUME NamesAssumption == NoBlock \notin Block /\ Blank \in Content
                          /\ NotCached \notin Content \cup {Torn}

VARIABLES
  \* on the disk: the header's block numbers, the log's blocks, the home blocks
  head, logged, home,
  \* bcache: contents of a cached block and its reference count
  cache, refcnt,
  \* struct log: lh, outstanding, committing; processes asleep on it
  lh, outstanding, committing, asleep,
  \* what a process does, the buffer it has locked, the blocks it has written
  pc, buf, wrote,
  \* recovery after a boot, and the tail of write_log and install_trans
  phase, tail

storeVars == <<head, logged, home>>
cacheVars == <<cache, refcnt>>
logVars   == <<lh, outstanding, committing, asleep>>
opVars    == <<pc, buf, wrote>>
vars == <<storeVars, cacheVars, logVars, opVars, phase, tail>>

Index == 1..LOGBLOCKS
Up == phase = "up"
InOp == {p \in Proc : pc[p] = "op"}
Goto(p, step) == pc' = [pc EXCEPT ![p] = step]

-----------------------------------------------------------------------------
(* The buffer cache, as far as the log relies on it (bio.c).                *)

\* bread: the cached block, or the one on the disk.
Read(b) == IF cache[b] # NotCached THEN cache[b] ELSE home[b]

\* bget recycles a buffer that no one refers to.
Recycle(b) ==
  /\ Up /\ cache[b] # NotCached /\ refcnt[b] = 0
  /\ cache' = [cache EXCEPT ![b] = NotCached]
  /\ UNCHANGED <<storeVars, refcnt, logVars, opVars, phase, tail>>

-----------------------------------------------------------------------------
(* begin_op and end_op.                                                     *)

\* A process is about to enter begin_op.
Call(p) ==
  /\ Up /\ pc[p] = "idle"
  /\ Goto(p, "begin")
  /\ UNCHANGED <<storeVars, cacheVars, logVars, buf, wrote, phase, tail>>

\* Mutant: the space reserved by the running calls is forgotten.
NoRoomForgets == Len(lh) + MAXOPBLOCKS > LOGBLOCKS

NoRoom == Len(lh) + (outstanding + 1) * MAXOPBLOCKS > LOGBLOCKS

\* One round of begin_op's loop.
BeginOp(p) ==
  /\ pc[p] = "begin" /\ p \notin asleep
  /\ \/ /\ committing \/ NoRoom
        /\ asleep' = asleep \cup {p}
        /\ UNCHANGED <<outstanding, pc>>
     \/ /\ ~committing /\ ~NoRoom
        /\ outstanding' = outstanding + 1
        /\ Goto(p, "op")
        /\ UNCHANGED asleep
  /\ UNCHANGED <<storeVars, cacheVars, lh, committing, buf, wrote, phase, tail>>

\* bread and a change of the data; the buffer stays locked.
Update(p, b, x) ==
  /\ pc[p] = "op" /\ buf[p] = NoBlock
  /\ \A q \in Proc : buf[q] # b
  /\ Cardinality(wrote[p] \cup {b}) <= OpBlocks
  /\ cache'  = [cache EXCEPT ![b] = x]
  /\ refcnt' = [refcnt EXCEPT ![b] = @ + 1]
  /\ buf'    = [buf EXCEPT ![p] = b]
  /\ UNCHANGED <<storeVars, logVars, pc, wrote, phase, tail>>

\* Mutant: log_write forgets bpin.
LogWriteUnpinned(p) ==
  LET b == buf[p] IN
  /\ pc[p] = "op" /\ b # NoBlock
  /\ IF Contains(lh, b) THEN lh' = lh ELSE lh' = Append(lh, b)
  /\ refcnt' = [refcnt EXCEPT ![b] = @ - 1]
  /\ buf'   = [buf EXCEPT ![p] = NoBlock]
  /\ wrote' = [wrote EXCEPT ![p] = @ \cup {b}]
  /\ UNCHANGED <<storeVars, cache, outstanding, committing, asleep, pc, phase, tail>>

\* log_write (absorb the block, or add and pin it) and brelse.
LogWrite(p) ==
  LET b == buf[p] IN
  /\ pc[p] = "op" /\ b # NoBlock
  /\ \/ /\ Contains(lh, b)
        /\ refcnt' = [refcnt EXCEPT ![b] = @ - 1]
        /\ lh' = lh
     \/ /\ ~Contains(lh, b)
        /\ lh' = Append(lh, b)
        /\ UNCHANGED refcnt
  /\ buf'   = [buf EXCEPT ![p] = NoBlock]
  /\ wrote' = [wrote EXCEPT ![p] = @ \cup {b}]
  /\ UNCHANGED <<storeVars, cache, outstanding, committing, asleep, pc, phase, tail>>

\* Mutant: a transaction of one block is not committed.
NothingLoggedOrOne == Len(lh) <= 1

\* commit does nothing if (log.lh.n > 0) fails.
NothingLogged == Len(lh) = 0
CommitFrom == IF NothingLogged THEN "finish" ELSE "writelog"

\* Mutant: the wakeup of a call that is not the last is missing.
EndOpSilent(p) ==
  /\ pc[p] = "op" /\ buf[p] = NoBlock
  /\ outstanding' = outstanding - 1
  /\ wrote' = [wrote EXCEPT ![p] = {}]
  /\ asleep' = asleep
  /\ IF outstanding = 1 THEN committing' = TRUE /\ Goto(p, CommitFrom)
                        ELSE committing' = committing /\ Goto(p, "idle")
  /\ tail' = 1
  /\ UNCHANGED <<storeVars, cacheVars, lh, buf, phase>>

EndOp(p) ==
  /\ pc[p] = "op" /\ buf[p] = NoBlock
  /\ outstanding' = outstanding - 1
  /\ wrote' = [wrote EXCEPT ![p] = {}]
  /\ \/ /\ outstanding = 1
        /\ committing' = TRUE
        /\ Goto(p, CommitFrom)
        /\ tail' = 1
        /\ asleep' = asleep
     \/ /\ outstanding # 1
        /\ asleep' = {}
        /\ Goto(p, "idle")
        /\ UNCHANGED <<committing, tail>>
  /\ UNCHANGED <<storeVars, cacheVars, lh, buf, phase>>

-----------------------------------------------------------------------------
(* commit, by the process whose end_op was the last.                        *)

\* One block of write_log.
WriteLog(p) ==
  /\ pc[p] = "writelog" /\ tail <= Len(lh)
  /\ logged' = [logged EXCEPT ![tail] = Read(lh[tail])]
  /\ tail' = tail + 1
  /\ UNCHANGED <<head, home, cacheVars, logVars, opVars, phase>>

\* Mutant: the header is written while a block of the log is missing.
WriteHeadEarly(p) ==
  /\ pc[p] = "writelog" /\ tail >= Len(lh)
  /\ head' = lh
  /\ tail' = 1
  /\ Goto(p, "install")
  /\ UNCHANGED <<logged, home, cacheVars, logVars, buf, wrote, phase>>

\* write_head: the transaction commits.
WriteHead(p) ==
  /\ pc[p] = "writelog" /\ tail > Len(lh)
  /\ head' = lh
  /\ tail' = 1
  /\ Goto(p, "install")
  /\ UNCHANGED <<logged, home, cacheVars, logVars, buf, wrote, phase>>

\* One block of install_trans: the block of the log goes home.
CopyHome(b, x) ==
  /\ cache' = [cache EXCEPT ![b] = x]
  /\ home'  = [home EXCEPT ![b] = x]

Install(p) ==
  /\ pc[p] = "install" /\ tail <= Len(lh)
  /\ CopyHome(lh[tail], logged[tail])
  /\ refcnt' = [refcnt EXCEPT ![lh[tail]] = @ - 1]
  /\ tail' = tail + 1
  /\ UNCHANGED <<head, logged, logVars, opVars, phase>>

\* log.lh.n = 0 and the second write_head.
Erase(p) ==
  /\ pc[p] = "install" /\ tail > Len(lh)
  /\ lh' = <<>>
  /\ head' = <<>>
  /\ tail' = 1
  /\ Goto(p, "finish")
  /\ UNCHANGED <<logged, home, cacheVars, outstanding, committing, asleep, buf, wrote, phase>>

\* The end of end_op.
Finish(p) ==
  /\ pc[p] = "finish"
  /\ committing' = FALSE
  /\ asleep' = {}
  /\ Goto(p, "idle")
  /\ UNCHANGED <<storeVars, cacheVars, lh, outstanding, buf, wrote, phase, tail>>

-----------------------------------------------------------------------------
(* Power failure and recover_from_log.                                      *)

\* The block a WriteLog or Install step is about to write may be torn.
Tear ==
  \/ UNCHANGED <<logged, home>>
  \/ /\ \E p \in Proc : pc[p] = "writelog" /\ tail <= Len(lh)
     /\ logged' = [logged EXCEPT ![tail] = Torn]
     /\ UNCHANGED home
  \/ /\ phase = "install" \/ \E p \in Proc : pc[p] = "install"
     /\ tail <= Len(lh)
     /\ home' = [home EXCEPT ![lh[tail]] = Torn]
     /\ UNCHANGED logged

Crash ==
  /\ Tear
  /\ phase' = "readhead"
  /\ cache'  = [b \in Block |-> NotCached]
  /\ refcnt' = [b \in Block |-> 0]
  /\ lh' = <<>> /\ outstanding' = 0 /\ committing' = FALSE /\ asleep' = {}
  /\ pc'    = [p \in Proc |-> "idle"]
  /\ buf'   = [p \in Proc |-> NoBlock]
  /\ wrote' = [p \in Proc |-> {}]
  /\ tail' = 1
  /\ UNCHANGED head

\* read_head
RecoverHead ==
  /\ phase = "readhead"
  /\ lh' = head
  /\ phase' = "install"
  /\ UNCHANGED <<storeVars, cacheVars, outstanding, committing, asleep, opVars, tail>>

\* install_trans(1): nothing was pinned.
RecoverInstall ==
  /\ phase = "install" /\ tail <= Len(lh)
  /\ CopyHome(lh[tail], logged[tail])
  /\ tail' = tail + 1
  /\ UNCHANGED <<head, logged, refcnt, logVars, opVars, phase>>

RecoverErase ==
  /\ phase = "install" /\ tail > Len(lh)
  /\ lh' = <<>> /\ head' = <<>>
  /\ tail' = 1
  /\ phase' = "up"
  /\ UNCHANGED <<logged, home, cacheVars, outstanding, committing, asleep, opVars>>

-----------------------------------------------------------------------------
Step(p) ==
  \/ BeginOp(p) \/ LogWrite(p) \/ EndOp(p)
  \/ WriteLog(p) \/ WriteHead(p) \/ Install(p) \/ Erase(p) \/ Finish(p)

Recover == RecoverHead \/ RecoverInstall \/ RecoverErase

Next ==
  \/ \E p \in Proc : Step(p) \/ Call(p) \/ \E b \in Block, x \in Content : Update(p, b, x)
  \/ \E b \in Block : Recycle(b)
  \/ Crash
  \/ Recover

\* initlog on a file system that mkfs has written.
Init ==
  /\ head = <<>> /\ home = [b \in Block |-> Blank]
  /\ logged = [i \in Index |-> Torn]
  /\ cache = [b \in Block |-> NotCached] /\ refcnt = [b \in Block |-> 0]
  /\ lh = <<>> /\ outstanding = 0 /\ committing = FALSE /\ asleep = {}
  /\ pc = [p \in Proc |-> "idle"] /\ buf = [p \in Proc |-> NoBlock]
  /\ wrote = [p \in Proc |-> {}]
  /\ phase = "readhead" /\ tail = 1

Spec == Init /\ [][Next]_vars

\* A running process goes on, and a file system call writes to finitely many
\* buffers before it ends.
Fairness == /\ \A p \in Proc : WF_vars(Step(p)) /\ SF_vars(EndOp(p))
            /\ WF_vars(Recover)
FairSpec == Spec /\ Fairness

-----------------------------------------------------------------------------
\* The disk, the cache, the log and the processes are what log.c allows.
TypeOK ==
  /\ head \in Seq(Block) /\ Len(head) <= LOGBLOCKS
  /\ logged \in [Index -> Content \cup {Torn}]
  /\ home \in [Block -> Content \cup {Torn}]
  /\ cache \in [Block -> Content \cup {Torn, NotCached}]
  /\ refcnt \in [Block -> Nat]
  /\ lh \in Seq(Block) /\ Len(lh) <= LOGBLOCKS
  /\ outstanding \in Nat /\ committing \in BOOLEAN
  /\ asleep \in SUBSET Proc
  /\ pc \in [Proc -> {"idle", "begin", "op", "writelog", "install", "finish"}]
  /\ buf \in [Proc -> Block \cup {NoBlock}]
  /\ wrote \in [Proc -> SUBSET Block]
  /\ phase \in {"up", "readhead", "install"}
  /\ tail \in 1..(LOGBLOCKS + 1)

\* Blocks that running calls may still write, as pairs of a call and a number.
Unwritten == {r \in InOp \X (1..MAXOPBLOCKS) : r[2] > Cardinality(wrote[r[1]])}

\* begin_op admits a call only if the log has room for all that the calls in
\* progress may still write, so log_write's "too big a transaction" is never
\* reached: not even with blocks left over by calls that ended before.
LogHasRoom == Len(lh) + Cardinality(Unwritten) <= LOGBLOCKS

Installing == \E p \in Proc : pc[p] = "install"
Pinned == IF Up THEN {lh[i] : i \in (IF Installing THEN tail ELSE 1)..Len(lh)} ELSE {}

\* bpin and bunpin balance on every path: a buffer is referred to by the call
\* that has it locked and by the transaction it waits in, and by no one else.
PinsBalance ==
  \A b \in Block :
    refcnt[b] = Cardinality({p \in Proc : buf[p] = b}) + (IF b \in Pinned THEN 1 ELSE 0)

\* What recovery would make of the disk, and what a file system call reads.
Durable(b) ==
  IF Contains(head, b) THEN logged[CHOOSE i \in DOMAIN head : head[i] = b] ELSE home[b]
Current(b) == IF Up THEN Read(b) ELSE Durable(b)

\* end_op of the last call returns only when everything is on the disk: with
\* no call running and no commit, every block is home and the header clear.
IdleIsDurable ==
  Up /\ outstanding = 0 /\ ~committing =>
    head = <<>> /\ lh = <<>> /\ \A b \in Block : Read(b) = home[b]

D == INSTANCE AtomicDisk WITH
       Content <- Content,
       durable <- [b \in Block |-> Durable(b)],
       current <- [b \in Block |-> Current(b)],
       active  <- InOp

\* Calls take effect all together or not at all, whenever the power fails: in
\* the middle of write_log, between the header and the last block installed,
\* or again during recovery.
ImplementsAtomicDisk == D!DiskSpec

\* A call that sleeps in begin_op is woken again: by the next end_op or by the
\* commit, whichever made room.
SleepersWoken == \A p \in Proc : p \in asleep ~> p \notin asleep
=============================================================================
