----------------------------- MODULE LogProofs -----------------------------
(***************************************************************************)
(* The log of Log.tla, for every number of processes and blocks and every  *)
(* size of the log: it never overflows, its pins balance, and it makes the *)
(* calls that ran together one atomic transaction of AtomicDisk whenever   *)
(* the power fails.                                                        *)
(*                                                                         *)
(* The invariant comes in three layers, each proved relative to the ones   *)
(* before: Control says who may be where, how the header in memory relates *)
(* to the one on the disk, and what the running calls have reserved; Pins  *)
(* ties reference counts to locks and to the transaction; Data says which  *)
(* copy of a block is the good one at every point of a commit.             *)
(***************************************************************************)
EXTENDS Log, FiniteSetTheorems, TLAPS

Commits == {"writelog", "install", "finish"}
Locked(b) == \E p \in Proc : buf[p] = b
InLog(b)  == \E i \in 1..Len(lh) : lh[i] = b

CtlTypes ==
  /\ head \in Seq(Block) /\ Len(head) <= LOGBLOCKS
  /\ lh \in Seq(Block)
  /\ outstanding \in Nat /\ committing \in BOOLEAN /\ asleep \in SUBSET Proc
  /\ pc \in [Proc -> {"idle", "begin", "op"} \cup Commits]
  /\ buf \in [Proc -> Block \cup {NoBlock}]
  /\ wrote \in [Proc -> SUBSET Block]
  /\ phase \in {"up", "readhead", "install"}
  /\ tail \in Nat \ {0}

\* A commit runs alone, and nothing runs before recovery is over.
Alone ==
  /\ committing => InOp = {}
  /\ \A p \in Proc : pc[p] \in Commits => committing
  /\ \A p, q \in Proc : pc[p] \in Commits /\ pc[q] \in Commits => p = q
  /\ phase # "up" => ~committing /\ \A p \in Proc : pc[p] = "idle"
  /\ outstanding = Cardinality(InOp)

\* What a call has locked, has in the log, and may still add to it.
CallOf(p) ==
  /\ buf[p] # NoBlock => pc[p] = "op"
  /\ pc[p] # "op" => wrote[p] = {}
  /\ \A b \in wrote[p] : InLog(b)
  /\ IsFiniteSet(wrote[p])
  /\ Cardinality(wrote[p] \cup ({buf[p]} \ {NoBlock})) <= OpBlocks

Calls ==
  /\ \A p \in Proc : CallOf(p)
  /\ \A p, q \in Proc : buf[p] = buf[q] /\ buf[p] # NoBlock => p = q

\* The header in memory and the one on the disk.
Headers ==
  /\ \A i, j \in 1..Len(lh) : lh[i] = lh[j] => i = j
  /\ \A i, j \in 1..Len(head) : head[i] = head[j] => i = j
  /\ phase = "readhead" => lh = <<>> /\ tail = 1
  /\ phase = "install" \/ Installing => head = lh
  /\ Up /\ ~Installing => head = <<>>
  /\ \A p \in Proc : pc[p] = "finish" => lh = <<>>
  /\ Up /\ InOp = {} /\ ~committing => lh = <<>>
  /\ phase = "install" \/ (\E p \in Proc : pc[p] \in {"writelog", "install"}) =>
       tail <= Len(lh) + 1
  /\ tail <= LOGBLOCKS + 1

Control == CtlTypes /\ Alone /\ Calls /\ Headers /\ LogHasRoom

\* The block waits in the transaction to be installed.
Waits(b) == /\ Up
            /\ \E i \in 1..Len(lh) : lh[i] = b /\ (Installing => tail <= i)

Pins ==
  /\ refcnt \in [Block -> Int]
  /\ \A b \in Block :
       refcnt[b] = (IF Locked(b) THEN 1 ELSE 0) + (IF Waits(b) THEN 1 ELSE 0)

DataTypes ==
  /\ logged \in [Index -> Content \cup {Torn}]
  /\ home \in [Block -> Content \cup {Torn}]
  /\ cache \in [Block -> Content \cup {NotCached}]

\* What the header on the disk lists is good in the log, the rest is at home.
DiskGood ==
  /\ \A i \in 1..Len(head) : logged[i] \in Content
  /\ \A b \in Block : ~(\E i \in 1..Len(head) : head[i] = b) => home[b] \in Content

CacheGood ==
  /\ phase = "readhead" => \A b \in Block : cache[b] = NotCached
  /\ \A b \in Block : refcnt[b] # 0 => cache[b] # NotCached
  /\ \A b \in Block : ~InLog(b) /\ ~Locked(b) /\ cache[b] # NotCached => cache[b] = home[b]

\* How far the commit, or the recovery, has come.
Progress ==
  /\ (\E p \in Proc : pc[p] = "writelog") =>
       \A i \in 1..Len(lh) : i < tail => logged[i] = cache[lh[i]]
  /\ phase = "install" \/ Installing =>
       \A i \in 1..Len(lh) :
          /\ cache[lh[i]] # NotCached => cache[lh[i]] = logged[i]
          /\ i < tail => home[lh[i]] = logged[i]

Data == DataTypes /\ DiskGood /\ CacheGood /\ Progress
LogInv == Control /\ Pins /\ Data

-----------------------------------------------------------------------------
(* Who may be where.                                                        *)

\* Finitely many processes run, and there are none exactly when the set is empty.
LEMMA Running == /\ IsFiniteSet(InOp) /\ Cardinality(InOp) \in Nat
                 /\ (Cardinality(InOp) = 0 <=> InOp = {})
  <1>1. InOp \in SUBSET Proc /\ IsFiniteSet(Proc)
    BY LogAssumption DEF InOp
  <1> QED
    BY <1>1, FS_Subset, FS_CardinalityType, FS_EmptySet

\* The calls in progress change in begin_op and end_op, and in a crash.
LEMMA RunningStep ==
  ASSUME CtlTypes, Next
  PROVE  \/ InOp' = InOp /\ UNCHANGED outstanding
         \/ \E p \in Proc : BeginOp(p) /\ p \notin InOp /\ InOp' = InOp \cup {p}
                            /\ outstanding' = outstanding + 1
         \/ \E p \in Proc : EndOp(p) /\ p \in InOp /\ InOp' = InOp \ {p}
                            /\ outstanding' = outstanding - 1
         \/ Crash /\ InOp' = {} /\ outstanding' = 0
  <1>1. pc \in [Proc -> {"idle", "begin", "op", "writelog", "install", "finish"}]
    BY DEF CtlTypes, Commits
  <1>2. ASSUME NEW p \in Proc, BeginOp(p)
        PROVE  \/ InOp' = InOp /\ UNCHANGED outstanding
               \/ p \notin InOp /\ InOp' = InOp \cup {p} /\ outstanding' = outstanding + 1
    BY <1>1, <1>2 DEF BeginOp, Goto, InOp
  <1>3. ASSUME NEW p \in Proc, EndOp(p)
        PROVE  p \in InOp /\ InOp' = InOp \ {p} /\ outstanding' = outstanding - 1
    BY <1>1, <1>3 DEF EndOp, Goto, InOp, CommitFrom
  <1>4. ASSUME Crash
        PROVE  InOp' = {} /\ outstanding' = 0
    BY <1>4 DEF Crash, InOp
  <1>5. ASSUME NEW p \in Proc,
               \/ Call(p) \/ LogWrite(p) \/ WriteLog(p) \/ WriteHead(p)
               \/ Install(p) \/ Erase(p) \/ Finish(p)
        PROVE  InOp' = InOp /\ UNCHANGED outstanding
    BY <1>1, <1>5
       DEF Call, LogWrite, WriteLog, WriteHead, Install, Erase, Finish, Goto, InOp,
           logVars, opVars
  <1>6. ASSUME \/ Recover
               \/ \E b \in Block : Recycle(b)
               \/ \E p \in Proc, b \in Block, x \in Content : Update(p, b, x)
        PROVE  InOp' = InOp /\ UNCHANGED outstanding
    BY <1>6
       DEF Recover, RecoverHead, RecoverInstall, RecoverErase, Recycle, Update, InOp,
           logVars, opVars
  <1> QED
    BY <1>2, <1>3, <1>4, <1>5, <1>6 DEF Next, Step

\* end_op of the last call starts the only commit, and begin_op waits for it.
LEMMA AloneStep ==
  ASSUME CtlTypes, Alone, Next
  PROVE  Alone'
  <1>1. outstanding' = Cardinality(InOp')
    <2>1. outstanding = Cardinality(InOp) /\ IsFiniteSet(InOp)
          /\ outstanding \in Nat /\ Cardinality({}) = 0
      BY Running, FS_EmptySet DEF Alone
    <2>2. ASSUME NEW p \in Proc, p \notin InOp
          PROVE  Cardinality(InOp \cup {p}) = outstanding + 1
      BY <2>1, <2>2, FS_AddElement
    <2>3. ASSUME NEW p \in Proc, p \in InOp
          PROVE  Cardinality(InOp \ {p}) = outstanding - 1
      BY <2>1, <2>3, FS_RemoveElement
    <2> QED
      BY <2>1, <2>2, <2>3, RunningStep
  <1> DEFINE Control1 ==
        /\ committing => \A p \in Proc : pc[p] # "op"
        /\ \A p \in Proc : pc[p] \in Commits => committing
        /\ \A p, q \in Proc : pc[p] \in Commits /\ pc[q] \in Commits => p = q
        /\ phase # "up" => ~committing /\ \A p \in Proc : pc[p] = "idle"
  <1>2. Control1 /\ outstanding = Cardinality(InOp) /\ outstanding \in Nat
        /\ pc \in [Proc -> {"idle", "begin", "op", "writelog", "install", "finish"}]
    BY DEF Alone, InOp, CtlTypes, Commits
  <1>3. Control1'
    <2>1. ASSUME NEW p \in Proc, Call(p) PROVE Control1'
      BY <1>2, <2>1 DEF Call, Goto, Commits, Up, logVars
    <2>2. ASSUME NEW p \in Proc, BeginOp(p) PROVE Control1'
      BY <1>2, <2>2 DEF BeginOp, Goto, Commits
    <2>3. ASSUME NEW p \in Proc, EndOp(p) PROVE Control1'
      <3>1. CASE outstanding = 1
        <4>1. InOp = {p}
          <5>1. p \in InOp /\ IsFiniteSet(InOp)
            BY <2>3, Running DEF EndOp, InOp
          <5>2. PICK x : InOp = {x}
            BY <5>1, <3>1, <1>2, FS_Singleton
          <5> QED
            BY <5>1, <5>2
        <4>2. \A q \in Proc : q # p => pc[q] # "op"
          BY <4>1 DEF InOp
        <4>3. pc' = [pc EXCEPT ![p] = CommitFrom] /\ CommitFrom \in {"writelog", "finish"}
              /\ phase' = phase /\ pc[p] = "op" /\ committing'
          BY <2>3, <3>1 DEF EndOp, Goto, CommitFrom
        <4> HIDE DEF CommitFrom
        <4>4. ~committing
          BY <1>2, <4>3
        <4> QED
          BY <1>2, <4>2, <4>3, <4>4 DEF Commits
      <3>2. CASE outstanding # 1
        <4>1. pc' = [pc EXCEPT ![p] = "idle"] /\ phase' = phase /\ committing' = committing
          BY <2>3, <3>2 DEF EndOp, Goto
        <4> QED
          BY <1>2, <4>1 DEF Commits
      <3> QED
        BY <3>1, <3>2
    <2>4. ASSUME NEW p \in Proc,
                 LogWrite(p) \/ WriteLog(p) \/ Install(p)
          PROVE  Control1'
      BY <1>2, <2>4 DEF LogWrite, WriteLog, Install, logVars, opVars
    <2>5. ASSUME NEW p \in Proc, WriteHead(p) \/ Erase(p)
          PROVE  Control1'
      BY <1>2, <2>5 DEF WriteHead, Erase, Goto, Commits, logVars
    <2>6. ASSUME NEW p \in Proc, Finish(p)
          PROVE  Control1'
      BY <1>2, <2>6 DEF Finish, Goto, Commits
    <2>7. ASSUME NEW p \in Proc, NEW b \in Block, NEW x \in Content, Update(p, b, x)
          PROVE  Control1'
      BY <1>2, <2>7 DEF Update, logVars
    <2>8. ASSUME NEW b \in Block, Recycle(b)
          PROVE  Control1'
      BY <1>2, <2>8 DEF Recycle, logVars, opVars
    <2>9. ASSUME Crash PROVE Control1'
      BY <2>9 DEF Crash, Commits
    <2>10. ASSUME Recover PROVE Control1'
      BY <1>2, <2>10 DEF Recover, RecoverHead, RecoverInstall, RecoverErase, logVars, opVars
    <2> HIDE DEF Control1
    <2> QED
      BY <2>1, <2>2, <2>3, <2>4, <2>5, <2>6, <2>7, <2>8, <2>9, <2>10 DEF Next, Step
  <1> QED
    BY <1>1, <1>3 DEF Alone, InOp

-----------------------------------------------------------------------------
(* What the running calls have written.                                     *)

\* A call that has written and locked nothing.
LEMMA NoCall ==
  ASSUME NEW p, buf'[p] = NoBlock, wrote'[p] = {}
  PROVE  CallOf(p)'
  <1>1. wrote'[p] \cup ({buf'[p]} \ {NoBlock}) = {}
    OBVIOUS
  <1>2. IsFiniteSet(wrote'[p]) /\ Cardinality(wrote'[p] \cup ({buf'[p]} \ {NoBlock})) <= OpBlocks
    BY <1>1, FS_EmptySet, LogAssumption
  <1> QED
    BY <1>2 DEF CallOf

\* A call that is not the one that acts, while the log only grows.
LEMMA OtherCall ==
  ASSUME NEW p \in Proc, CallOf(p), buf'[p] = buf[p], wrote'[p] = wrote[p],
         pc[p] = "op" <=> pc'[p] = "op",
         \A b \in Block : InLog(b) => InLog(b)', wrote[p] \in SUBSET Block
  PROVE  CallOf(p)'
  BY DEF CallOf

\* Blocks are appended to the log and stay there.
LEMMA LogGrows ==
  ASSUME CtlTypes, NEW p \in Proc, LogWrite(p)
  PROVE  /\ lh' \in Seq(Block) /\ buf[p] \in Block
         /\ \A b \in Block : InLog(b)' <=> InLog(b) \/ b = buf[p]
         /\ \/ lh' = lh /\ InLog(buf[p])
            \/ lh' = Append(lh, buf[p]) /\ Len(lh') = Len(lh) + 1 /\ ~InLog(buf[p])
  <1>1. lh \in Seq(Block) /\ buf[p] \in Block /\ Len(lh) \in Nat
    BY DEF CtlTypes, LogWrite
  <1>2. CASE InLog(buf[p])
    <2>1. lh' = lh
      BY <1>2 DEF LogWrite, InLog, Contains
    <2> QED
      BY <1>1, <1>2, <2>1 DEF InLog
  <1>3. CASE ~InLog(buf[p])
    <2>1. lh' = Append(lh, buf[p])
      BY <1>3 DEF LogWrite, InLog, Contains
    <2>2. /\ Len(lh') = Len(lh) + 1 /\ lh'[Len(lh) + 1] = buf[p]
          /\ \A i \in 1..Len(lh) : lh'[i] = lh[i]
          /\ lh' \in Seq(Block)
      BY <1>1, <2>1
    <2>3. ASSUME NEW b \in Block
          PROVE  InLog(b)' <=> InLog(b) \/ b = buf[p]
      BY <1>1, <2>2 DEF InLog
    <2> QED
      BY <1>1, <1>3, <2>1, <2>2, <2>3
  <1> QED
    BY <1>2, <1>3

\* A call writes what it has reserved, and locks a buffer that no other has.
LEMMA CallsStep ==
  ASSUME CtlTypes, Alone, Calls, Next
  PROVE  Calls'
  <1> DEFINE Exclusive == \A p, q \in Proc : buf[p] = buf[q] /\ buf[p] # NoBlock => p = q
  <1>1. /\ pc \in [Proc -> {"idle", "begin", "op", "writelog", "install", "finish"}]
        /\ buf \in [Proc -> Block \cup {NoBlock}] /\ wrote \in [Proc -> SUBSET Block]
        /\ NoBlock \notin Block /\ Exclusive
    BY NamesAssumption DEF CtlTypes, Commits, Calls
  <1>2. /\ \A p \in Proc : CallOf(p) /\ (pc[p] # "op" => wrote[p] = {} /\ buf[p] = NoBlock)
        /\ committing \/ phase # "up" => \A p \in Proc : pc[p] # "op"
    BY DEF Calls, Alone, InOp, CallOf
  <1>3. ASSUME NEW p \in Proc,
               Call(p) \/ BeginOp(p) \/ WriteLog(p) \/ WriteHead(p) \/ Install(p) \/ Finish(p)
        PROVE  Calls'
    <2>1. /\ UNCHANGED <<buf, wrote, lh>>
          /\ \A q \in Proc : \/ pc[q] = "op" <=> pc'[q] = "op"
                             \/ pc[q] # "op"
      BY <1>1, <1>3
         DEF Call, BeginOp, WriteLog, WriteHead, Install, Finish, Goto, logVars, opVars
    <2>2. \A b \in Block : InLog(b) => InLog(b)'
      BY <2>1 DEF InLog
    <2>3. \A q \in Proc : CallOf(q)'
      BY <1>1, <1>2, <2>1, <2>2, NoCall, OtherCall
    <2> QED
      BY <1>1, <2>1, <2>3 DEF Calls
  <1>4. ASSUME NEW p \in Proc, EndOp(p) PROVE Calls'
    <2>1. /\ UNCHANGED <<buf, lh>> /\ wrote' = [wrote EXCEPT ![p] = {}] /\ buf[p] = NoBlock
          /\ \A q \in Proc \ {p} : pc'[q] = pc[q]
      BY <1>1, <1>4 DEF EndOp, Goto
    <2>2. \A b \in Block : InLog(b) => InLog(b)'
      BY <2>1 DEF InLog
    <2>3. \A q \in Proc \ {p} : CallOf(q)'
      BY <1>1, <1>2, <2>1, <2>2, OtherCall
    <2>4. CallOf(p)'
      BY <1>1, <2>1, NoCall
    <2> QED
      BY <1>1, <2>1, <2>3, <2>4 DEF Calls
  <1>5. ASSUME NEW p \in Proc, NEW b \in Block, NEW x \in Content, Update(p, b, x)
        PROVE  Calls'
    <2>1. /\ UNCHANGED <<pc, wrote, lh>> /\ buf' = [buf EXCEPT ![p] = b] /\ pc[p] = "op"
          /\ Cardinality(wrote[p] \cup {b}) <= OpBlocks /\ \A q \in Proc : buf[q] # b
      BY <1>5 DEF Update, logVars
    <2>2. \A c \in Block : InLog(c) => InLog(c)'
      BY <2>1 DEF InLog
    <2>3. \A q \in Proc \ {p} : CallOf(q)'
      BY <1>1, <1>2, <2>1, <2>2, OtherCall
    <2>4. CallOf(p)'
      <3>1. wrote'[p] \cup ({buf'[p]} \ {NoBlock}) = wrote[p] \cup {b}
        BY <1>1, <2>1
      <3>2. IsFiniteSet(wrote'[p]) /\ \A c \in wrote'[p] : InLog(c)'
        BY <1>1, <1>2, <2>1, <2>2 DEF CallOf
      <3> QED
        BY <2>1, <3>1, <3>2 DEF CallOf
    <2>5. Exclusive'
      BY <1>1, <2>1
    <2> QED
      BY <2>3, <2>4, <2>5 DEF Calls
  <1>6. ASSUME NEW p \in Proc, LogWrite(p)
        PROVE  Calls'
    <2>1. /\ buf' = [buf EXCEPT ![p] = NoBlock]
          /\ wrote' = [wrote EXCEPT ![p] = @ \cup {buf[p]}]
          /\ pc' = pc /\ pc[p] = "op" /\ buf[p] \in Block
      BY <1>1, <1>6 DEF LogWrite
    <2>2. \A c \in Block : InLog(c) \/ c = buf[p] => InLog(c)'
      BY <1>6, LogGrows
    <2>3. \A q \in Proc \ {p} : CallOf(q)'
      BY <1>1, <1>2, <2>1, <2>2, OtherCall
    <2>4. CallOf(p)'
      <3>1. wrote'[p] \cup ({buf'[p]} \ {NoBlock}) = wrote[p] \cup ({buf[p]} \ {NoBlock})
        BY <1>1, <2>1
      <3>2. wrote'[p] = wrote[p] \cup {buf[p]} /\ IsFiniteSet(wrote[p])
        BY <1>1, <1>2, <2>1 DEF CallOf
      <3>3. IsFiniteSet(wrote'[p])
        BY <3>2, FS_AddElement
      <3>4. \A c \in wrote'[p] : InLog(c)'
        BY <1>1, <1>2, <2>1, <2>2, <3>2 DEF CallOf
      <3>5. Cardinality(wrote'[p] \cup ({buf'[p]} \ {NoBlock})) <= OpBlocks
        BY <1>2, <3>1 DEF CallOf
      <3> QED
        BY <1>1, <2>1, <3>3, <3>4, <3>5 DEF CallOf
    <2>5. Exclusive'
      BY <1>1, <2>1
    <2> QED
      BY <2>3, <2>4, <2>5 DEF Calls
  <1>7. ASSUME NEW b \in Block, Recycle(b)
        PROVE  Calls'
    <2>1. UNCHANGED <<buf, wrote, lh, pc>>
      BY <1>7 DEF Recycle, logVars, opVars
    <2>2. \A c \in Block : InLog(c) => InLog(c)'
      BY <2>1 DEF InLog
    <2> QED
      BY <1>1, <1>2, <2>1, <2>2, OtherCall DEF Calls
  <1>8. ASSUME Crash \/ Recover \/ \E p \in Proc : Erase(p)
        PROVE  Calls'
    <2>1. \A p \in Proc : buf'[p] = NoBlock /\ wrote'[p] = {}
      <3>1. CASE Crash
        BY <3>1 DEF Crash
      <3>2. CASE Recover
        BY <1>2, <3>2 DEF Recover, RecoverHead, RecoverInstall, RecoverErase, opVars
      <3>3. CASE \E p \in Proc : Erase(p)
        <4>1. committing /\ UNCHANGED <<buf, wrote>>
          BY <3>3 DEF Erase, Alone, Commits
        <4> QED
          BY <1>2, <4>1
      <3> QED
        BY <1>8, <3>1, <3>2, <3>3
    <2> QED
      BY <2>1, NoCall DEF Calls
  <1> QED
    BY <1>3, <1>4, <1>5, <1>6, <1>7, <1>8 DEF Next, Step

-----------------------------------------------------------------------------
(* The log never overflows.                                                 *)

\* A running call writes at most MAXOPBLOCKS more blocks.
LEMMA UnwrittenFinite ==
  /\ IsFiniteSet(InOp \X (1..MAXOPBLOCKS))
  /\ Cardinality(InOp \X (1..MAXOPBLOCKS)) = Cardinality(InOp) * MAXOPBLOCKS
  /\ IsFiniteSet(Unwritten) /\ Cardinality(Unwritten) \in Nat
  /\ Cardinality(Unwritten) <= Cardinality(InOp) * MAXOPBLOCKS
  <1>1. IsFiniteSet(1..MAXOPBLOCKS) /\ Cardinality(1..MAXOPBLOCKS) = MAXOPBLOCKS
    BY FS_Interval, LogAssumption
  <1>2. /\ IsFiniteSet(InOp \X (1..MAXOPBLOCKS))
        /\ Cardinality(InOp \X (1..MAXOPBLOCKS)) = Cardinality(InOp) * MAXOPBLOCKS
    BY <1>1, Running, FS_Product
  <1>3. Unwritten \in SUBSET (InOp \X (1..MAXOPBLOCKS))
    BY DEF Unwritten
  <1> QED
    BY <1>2, <1>3, FS_Subset, FS_CardinalityType

\* With room for what may still be written, what is written fits.
LEMMA LogFits ==
  ASSUME CtlTypes, LogHasRoom
  PROVE  Len(lh) \in Nat /\ Len(lh) <= LOGBLOCKS
  BY UnwrittenFinite, LogAssumption DEF CtlTypes, LogHasRoom

\* Calls end, and the others have written what they had.
LEMMA RoomStays ==
  ASSUME CtlTypes, LogHasRoom, lh' = lh, InOp' \in SUBSET InOp,
         \A p \in InOp' : wrote'[p] = wrote[p]
  PROVE  LogHasRoom'
  <1>1. Unwritten' \in SUBSET Unwritten
    <2>1. ASSUME NEW p \in InOp', NEW n \in 1..MAXOPBLOCKS, n > Cardinality(wrote'[p])
          PROVE  <<p, n>> \in Unwritten
      BY <2>1 DEF Unwritten
    <2>2. Unwritten' \in SUBSET (InOp' \X (1..MAXOPBLOCKS))
      BY DEF Unwritten
    <2> QED
      BY <2>1, <2>2 DEF Unwritten
  <1>2. Cardinality(Unwritten') \in Nat /\ Cardinality(Unwritten') <= Cardinality(Unwritten)
    BY <1>1, UnwrittenFinite, FS_Subset, FS_CardinalityType
  <1> QED
    BY <1>2, UnwrittenFinite, LogAssumption DEF LogHasRoom, CtlTypes

\* Between calls only the log itself needs room.
LEMMA RoomAlone ==
  ASSUME InOp' = {}, Len(lh') <= LOGBLOCKS, Len(lh') \in Nat
  PROVE  LogHasRoom'
  <1>1. Unwritten' = {}
    BY DEF Unwritten
  <1>2. Cardinality(Unwritten') = 0
    BY <1>1, FS_EmptySet
  <1> QED
    BY <1>2 DEF LogHasRoom

\* begin_op admits a call only with room for all it may write.
LEMMA RoomStep ==
  ASSUME CtlTypes, Alone, Calls, LogHasRoom, Next
  PROVE  LogHasRoom'
  <1>1. /\ pc \in [Proc -> {"idle", "begin", "op", "writelog", "install", "finish"}]
        /\ wrote \in [Proc -> SUBSET Block] /\ lh \in Seq(Block) /\ Len(lh) \in Nat
    BY DEF CtlTypes, Commits
  <1>2. ASSUME NEW p \in Proc, BeginOp(p)
        PROVE  LogHasRoom'
    <2>1. CASE UNCHANGED <<pc, wrote, lh>>
      BY <2>1, RoomStays DEF InOp
    <2>2. CASE ~UNCHANGED pc
      <3>1. ~NoRoom /\ lh' = lh /\ wrote' = wrote /\ pc' = [pc EXCEPT ![p] = "op"]
            /\ pc[p] = "begin"
        BY <1>2, <2>2 DEF BeginOp, Goto
      <3>2. InOp' = InOp \cup {p} /\ p \notin InOp
        BY <3>1, <1>1 DEF InOp
      <3>3. IsFiniteSet(InOp') /\ Cardinality(InOp') = outstanding + 1 /\ outstanding \in Nat
        BY <3>2, Running, FS_AddElement DEF Alone
      <3>4. /\ IsFiniteSet(InOp' \X (1..MAXOPBLOCKS))
            /\ Cardinality(InOp' \X (1..MAXOPBLOCKS)) = (outstanding + 1) * MAXOPBLOCKS
        <4>1. IsFiniteSet(1..MAXOPBLOCKS) /\ Cardinality(1..MAXOPBLOCKS) = MAXOPBLOCKS
          BY FS_Interval, LogAssumption
        <4>2. /\ IsFiniteSet(InOp' \X (1..MAXOPBLOCKS))
              /\ Cardinality(InOp' \X (1..MAXOPBLOCKS))
                   = Cardinality(InOp') * Cardinality(1..MAXOPBLOCKS)
          BY <3>3, <4>1, FS_Product, Zenon
        <4> QED
          BY <3>3, <4>1, <4>2
      <3>5. Unwritten' \in SUBSET (InOp' \X (1..MAXOPBLOCKS))
        BY DEF Unwritten
      <3>6. Cardinality(Unwritten') \in Nat
            /\ Cardinality(Unwritten') <= (outstanding + 1) * MAXOPBLOCKS
        BY <3>4, <3>5, FS_Subset, FS_CardinalityType
      <3>7. (outstanding + 1) * MAXOPBLOCKS \in Nat
        BY <3>3, <3>4, FS_CardinalityType
      <3> QED
        BY <1>1, <3>1, <3>6, <3>7, LogAssumption DEF NoRoom, LogHasRoom
    <2>3. UNCHANGED <<wrote, lh>>
      BY <1>2 DEF BeginOp
    <2> QED
      BY <2>1, <2>2, <2>3
  <1>3. ASSUME NEW p \in Proc, LogWrite(p)
        PROVE  LogHasRoom'
    <2> DEFINE b == buf[p]
               W == wrote[p]
    <2>1. /\ p \in InOp /\ InOp' = InOp /\ b \in Block
          /\ wrote' = [wrote EXCEPT ![p] = W \cup {b}]
      BY <1>1, <1>3 DEF LogWrite, InOp, CtlTypes
    <2>2. /\ IsFiniteSet(W) /\ Cardinality(W) \in Nat /\ Cardinality(W \cup {b}) <= OpBlocks
          /\ Cardinality(W \cup {b}) = IF b \in W THEN Cardinality(W) ELSE Cardinality(W) + 1
      <3>1. IsFiniteSet(W) /\ Cardinality(W \cup ({b} \ {NoBlock})) <= OpBlocks
        BY DEF Calls, CallOf
      <3>2. {b} \ {NoBlock} = {b}
        BY <2>1, NamesAssumption
      <3> HIDE DEF W, b
      <3> QED
        BY <3>1, <3>2, FS_AddElement, FS_CardinalityType
    <2>3. \A q \in InOp \ {p} : wrote'[q] = wrote[q]
      BY <1>1, <2>1 DEF InOp
    <2>4. Unwritten' \in SUBSET Unwritten
      <3>1. ASSUME NEW q \in InOp, NEW n \in 1..MAXOPBLOCKS, n > Cardinality(wrote'[q])
            PROVE  n > Cardinality(wrote[q])
        <4>1. CASE q = p
          <5>1. wrote'[p] = W \cup {b}
            BY <1>1, <2>1
          <5> QED
            BY <3>1, <4>1, <5>1, <2>2
        <4>2. CASE q # p
          BY <3>1, <4>2, <2>3
        <4> QED
          BY <4>1, <4>2
      <3>2. Unwritten' \in SUBSET (InOp \X (1..MAXOPBLOCKS))
        BY <2>1 DEF Unwritten
      <3> QED
        BY <3>1, <3>2, <2>1 DEF Unwritten
    <2>5. Cardinality(Unwritten') \in Nat /\ Cardinality(Unwritten') <= Cardinality(Unwritten)
          /\ Cardinality(Unwritten) \in Nat
      BY <2>4, UnwrittenFinite, FS_Subset, FS_CardinalityType
    <2>6. CASE lh' = lh
      BY <1>1, <2>5, <2>6, LogAssumption DEF LogHasRoom
    <2>7. CASE Len(lh') = Len(lh) + 1 /\ ~InLog(b)
      <3>1. b \notin W
        BY <1>1, <2>7 DEF Calls, CallOf
      <3> DEFINE r == <<p, Cardinality(W) + 1>>
      <3>2. Cardinality(W) + 1 \in 1..MAXOPBLOCKS
        BY <2>2, <3>1, LogAssumption
      <3>3. r \in Unwritten
        BY <2>1, <2>2, <3>2 DEF Unwritten
      <3>4. r \notin Unwritten'
        <4>1. Cardinality(wrote'[p]) = Cardinality(W) + 1
          BY <1>1, <2>1, <2>2, <3>1
        <4> QED
          BY <4>1, <2>2 DEF Unwritten
      <3> HIDE DEF r
      <3>5. Unwritten' \in SUBSET (Unwritten \ {r})
        BY <2>4, <3>4
      <3>6. IsFiniteSet(Unwritten \ {r})
            /\ Cardinality(Unwritten \ {r}) = Cardinality(Unwritten) - 1
        BY <3>3, UnwrittenFinite, FS_RemoveElement
      <3>7. Cardinality(Unwritten') <= Cardinality(Unwritten) - 1
        BY <3>5, <3>6, FS_Subset
      <3> QED
        BY <1>1, <2>5, <2>7, <3>7, LogAssumption DEF LogHasRoom
    <2> QED
      BY <1>3, <2>6, <2>7, LogGrows
  <1>4. ASSUME NEW p \in Proc, EndOp(p)
        PROVE  LogHasRoom'
    <2>1. lh' = lh /\ InOp' \in SUBSET InOp /\ \A q \in InOp' : wrote'[q] = wrote[q]
      BY <1>1, <1>4 DEF EndOp, Goto, InOp, CommitFrom
    <2> QED
      BY <2>1, RoomStays
  <1>5. ASSUME NEW p \in Proc,
               Call(p) \/ WriteLog(p) \/ WriteHead(p) \/ Install(p) \/ Finish(p)
        PROVE  LogHasRoom'
    <2>1. lh' = lh /\ wrote' = wrote /\ InOp' \in SUBSET InOp
      BY <1>1, <1>5 DEF Call, WriteLog, WriteHead, Install, Finish, Goto, InOp, logVars, opVars
    <2> QED
      BY <2>1, RoomStays
  <1>6. ASSUME \/ \E b \in Block : Recycle(b)
               \/ \E p \in Proc, b \in Block, x \in Content : Update(p, b, x)
        PROVE  LogHasRoom'
    <2>1. lh' = lh /\ wrote' = wrote /\ pc' = pc
      BY <1>6 DEF Recycle, Update, logVars, opVars
    <2> QED
      BY <2>1, RoomStays DEF InOp
  <1>7. ASSUME Crash \/ Recover \/ \E p \in Proc : Erase(p)
        PROVE  LogHasRoom'
    <2>1. InOp' = {}
      <3>1. CASE Crash
        BY <3>1 DEF Crash, InOp
      <3>2. CASE Recover
        BY <3>2
           DEF Recover, RecoverHead, RecoverInstall, RecoverErase, opVars, InOp, Alone
      <3>3. CASE \E p \in Proc : Erase(p)
        BY <1>1, <3>3 DEF Erase, Goto, InOp, Alone, Commits
      <3> QED
        BY <1>7, <3>1, <3>2, <3>3
    <2>2. lh' \in {<<>>, head, lh}
      BY <1>7 DEF Crash, Recover, RecoverHead, RecoverInstall, RecoverErase, Erase, logVars
    <2>3. Len(lh') \in Nat /\ Len(lh') <= LOGBLOCKS
      BY <2>2, <1>1, LogFits, LogAssumption DEF CtlTypes
    <2> QED
      BY <2>1, <2>3, RoomAlone
  <1> QED
    BY <1>2, <1>3, <1>4, <1>5, <1>6, <1>7 DEF Next, Step

-----------------------------------------------------------------------------
(* The two headers.                                                         *)

\* Every step keeps the types of the log and of the processes.
LEMMA CtlTypesStep ==
  ASSUME CtlTypes, Alone, Headers, LogHasRoom, Next
  PROVE  CtlTypes'
  <1>e. <<>> \in Seq(Block) /\ Len(<<>>) <= LOGBLOCKS
    BY LogAssumption
  <1>1. /\ head \in Seq(Block) /\ Len(head) <= LOGBLOCKS
        /\ lh \in Seq(Block) /\ Len(lh) <= LOGBLOCKS
        /\ committing \in BOOLEAN /\ asleep \in SUBSET Proc
        /\ pc \in [Proc -> {"idle", "begin", "op"} \cup Commits]
        /\ buf \in [Proc -> Block \cup {NoBlock}] /\ wrote \in [Proc -> SUBSET Block]
        /\ phase \in {"up", "readhead", "install"} /\ tail \in Nat \ {0}
    BY LogFits DEF CtlTypes
  <1>2. \A s : s = head \/ s = lh \/ s = <<>> => s \in Seq(Block) /\ Len(s) <= LOGBLOCKS
    BY <1>1, <1>e, Zenon
  <1>3. outstanding' \in Nat
    <2>1. IsFiniteSet(InOp')
      <3>1. InOp' \in SUBSET Proc /\ IsFiniteSet(Proc)
        BY LogAssumption DEF InOp
      <3> QED
        BY <3>1, FS_Subset
    <2>2. outstanding' = Cardinality(InOp')
      BY AloneStep DEF Alone
    <2> QED
      BY <2>1, <2>2, FS_CardinalityType
  <1> DEFINE T == /\ head \in Seq(Block) /\ Len(head) <= LOGBLOCKS
                  /\ lh \in Seq(Block)
                  /\ committing \in BOOLEAN /\ asleep \in SUBSET Proc
                  /\ pc \in [Proc -> {"idle", "begin", "op"} \cup Commits]
                  /\ buf \in [Proc -> Block \cup {NoBlock}]
                  /\ wrote \in [Proc -> SUBSET Block]
                  /\ phase \in {"up", "readhead", "install"}
                  /\ tail \in Nat \ {0}
  <1>4. ASSUME NEW p \in Proc, Call(p) \/ BeginOp(p) \/ EndOp(p) \/ Finish(p)
        PROVE  T'
    <2>1. \A s \in {"idle", "begin", "op"} \cup Commits : Goto(p, s) =>
            pc' \in [Proc -> {"idle", "begin", "op"} \cup Commits]
      BY <1>1 DEF Goto
    <2>2. CommitFrom \in {"idle", "begin", "op"} \cup Commits
      BY DEF CommitFrom, Commits
    <2>3. pc' \in [Proc -> {"idle", "begin", "op"} \cup Commits]
      BY <1>1, <1>4, <2>1, <2>2 DEF Call, BeginOp, EndOp, Finish
    <2> HIDE DEF CommitFrom
    <2>4. asleep' \in SUBSET Proc
      BY <1>1, <1>4 DEF Call, BeginOp, EndOp, Finish, logVars
    <2>5. committing' \in BOOLEAN
      BY <1>1, <1>4 DEF Call, BeginOp, EndOp, Finish, logVars
    <2>6. UNCHANGED <<head, lh, buf, phase>> /\ tail' \in {1, tail}
      BY <1>4 DEF Call, BeginOp, EndOp, Finish, storeVars, logVars
    <2>7. wrote' = wrote \/ wrote' = [wrote EXCEPT ![p] = {}]
      BY <1>4 DEF Call, BeginOp, EndOp, Finish
    <2> QED
      BY <1>1, <2>3, <2>4, <2>5, <2>6, <2>7
  <1>5. ASSUME NEW p \in Proc, LogWrite(p)
        PROVE  T'
    <2>1. /\ buf' = [buf EXCEPT ![p] = NoBlock]
          /\ wrote' = [wrote EXCEPT ![p] = @ \cup {buf[p]}]
          /\ UNCHANGED <<head, committing, asleep, pc, phase, tail>>
      BY <1>5 DEF LogWrite, storeVars
    <2>2. lh' \in Seq(Block) /\ buf[p] \in Block
      BY <1>5, LogGrows
    <2> QED
      BY <1>1, <2>1, <2>2
  <1>6. ASSUME NEW p \in Proc, WriteLog(p) \/ WriteHead(p) \/ Install(p) \/ Erase(p)
        PROVE  T'
    <2>1. UNCHANGED <<committing, asleep, buf, wrote, phase>> /\ tail' \in {1, tail + 1}
      BY <1>6 DEF WriteLog, WriteHead, Install, Erase, logVars, opVars
    <2>2. pc' \in [Proc -> {"idle", "begin", "op"} \cup Commits]
      BY <1>1, <1>6 DEF WriteLog, WriteHead, Install, Erase, Goto, opVars, Commits
    <2>3. /\ head' = head \/ head' = lh \/ head' = <<>>
          /\ lh' = lh \/ lh' = <<>>
      BY <1>6 DEF WriteLog, WriteHead, Install, Erase, logVars
    <2>4. head' \in Seq(Block) /\ Len(head') <= LOGBLOCKS /\ lh' \in Seq(Block)
      BY <1>2, <2>3
    <2> QED
      BY <1>1, <2>1, <2>2, <2>4
  <1>7. ASSUME NEW p \in Proc, NEW b \in Block, NEW x \in Content, Update(p, b, x)
        PROVE  T'
    BY <1>1, <1>7 DEF Update, storeVars, logVars
  <1>8. ASSUME NEW b \in Block, Recycle(b)
        PROVE  T'
    BY <1>1, <1>8 DEF Recycle, storeVars, logVars, opVars
  <1>9. ASSUME Crash
        PROVE  T'
    <2>1. /\ head' = head /\ lh' = <<>> /\ committing' = FALSE /\ asleep' = {}
          /\ phase' = "readhead" /\ tail' = 1
      BY <1>9 DEF Crash
    <2>2. /\ pc' \in [Proc -> {"idle", "begin", "op"} \cup Commits]
          /\ buf' \in [Proc -> Block \cup {NoBlock}]
          /\ wrote' \in [Proc -> SUBSET Block]
      BY <1>9 DEF Crash
    <2>3. head' \in Seq(Block) /\ Len(head') <= LOGBLOCKS /\ lh' \in Seq(Block)
      BY <1>2, <2>1
    <2>4. /\ committing' \in BOOLEAN /\ asleep' \in SUBSET Proc
          /\ phase' \in {"up", "readhead", "install"} /\ tail' \in Nat \ {0}
      <3>1. committing' \in BOOLEAN
        BY <2>1
      <3>2. asleep' \in SUBSET Proc
        BY <2>1
      <3>3. phase' \in {"up", "readhead", "install"} /\ tail' \in Nat \ {0}
        BY <2>1
      <3> QED
        BY <3>1, <3>2, <3>3
    <2> QED
      BY <2>2, <2>3, <2>4
  <1>10. ASSUME Recover
         PROVE  T'
    <2>1. UNCHANGED <<committing, asleep, buf, wrote, pc>> /\ tail' \in {1, tail, tail + 1}
      BY <1>10 DEF Recover, RecoverHead, RecoverInstall, RecoverErase, logVars, opVars
    <2>2. /\ head' = head \/ head' = <<>>
          /\ lh' = lh \/ lh' = head \/ lh' = <<>>
          /\ phase' \in {"up", "readhead", "install"}
      BY <1>1, <1>10
         DEF Recover, RecoverHead, RecoverInstall, RecoverErase, logVars, storeVars
    <2>3. head' \in Seq(Block) /\ Len(head') <= LOGBLOCKS /\ lh' \in Seq(Block)
      BY <1>2, <2>2
    <2> QED
      BY <1>1, <2>1, <2>2, <2>3
  <1> HIDE DEF T
  <1>11. T'
    BY <1>4, <1>5, <1>6, <1>7, <1>8, <1>9, <1>10 DEF Next, Step
  <1> QED
    BY <1>3, <1>11 DEF CtlTypes, T

\* The header on the disk is the one in memory while blocks are installed, and empty otherwise.
LEMMA HeadersStep ==
  ASSUME CtlTypes, Alone, Calls, Headers, LogHasRoom, Next
  PROVE  Headers'
  <1>1. /\ pc \in [Proc -> {"idle", "begin", "op", "writelog", "install", "finish"}]
        /\ head \in Seq(Block) /\ lh \in Seq(Block) /\ Len(lh) \in Nat
        /\ tail \in Nat \ {0} /\ Len(lh) <= LOGBLOCKS /\ LOGBLOCKS \in Nat
        /\ phase \in {"up", "readhead", "install"}
    BY LogFits, LogAssumption DEF CtlTypes, Commits
  <1>2. /\ phase # "up" => ~committing /\ \A p \in Proc : pc[p] = "idle"
        /\ \A p \in Proc : pc[p] \in Commits => committing /\ Up /\ \A q \in Proc : pc[q] # "op"
        /\ \A p, q \in Proc : pc[p] \in Commits /\ pc[q] \in Commits => p = q
    BY DEF Alone, InOp, Up, Commits
  <1> DEFINE Same == /\ \A i, j \in 1..Len(lh) : lh[i] = lh[j] => i = j
                     /\ \A i, j \in 1..Len(head) : head[i] = head[j] => i = j
             Where == /\ phase = "readhead" => lh = <<>> /\ tail = 1
                      /\ phase = "install" \/ Installing => head = lh
                      /\ Up /\ ~Installing => head = <<>>
                      /\ \A p \in Proc : pc[p] = "finish" => lh = <<>>
                      /\ Up /\ InOp = {} /\ ~committing => lh = <<>>
             Bound == /\ phase = "install"
                           \/ (\E p \in Proc : pc[p] \in {"writelog", "install"}) =>
                           tail <= Len(lh) + 1
                      /\ tail <= LOGBLOCKS + 1
  <1>3. Same /\ Where /\ Bound
    BY DEF Headers
  <1> HIDE DEF Same, Where, Bound
  \* What the other calls do leaves the headers and the commit alone.
  <1>4. ASSUME UNCHANGED <<head, lh, phase, tail, committing>>,
               \A p \in Proc : pc[p] \in Commits \/ pc'[p] \in Commits => pc'[p] = pc[p],
               InOp' = {} /\ ~committing => InOp = {}
        PROVE  Headers'
    <2>1. Same' /\ Bound'
      BY <1>1, <1>3, <1>4 DEF Same, Bound, Commits
    <2>2. Installing' = Installing /\ Up' = Up
      BY <1>4 DEF Installing, Up, Commits
    <2>3. Where'
      BY <1>3, <1>4, <2>2 DEF Where, Commits
    <2> QED
      BY <2>1, <2>3 DEF Headers, Same, Where, Bound
  <1>5. ASSUME NEW p \in Proc, Call(p)
        PROVE  Headers'
    <2>1. /\ UNCHANGED <<head, lh, phase, tail, committing>>
          /\ pc' = [pc EXCEPT ![p] = "begin"] /\ pc[p] = "idle"
      BY <1>5 DEF Call, Goto, storeVars, logVars
    <2>2. InOp' = InOp
      BY <1>1, <2>1 DEF InOp
    <2> QED
      BY <1>1, <1>4, <2>1, <2>2 DEF Commits
  <1>6. ASSUME NEW p \in Proc, BeginOp(p)
        PROVE  Headers'
    <2>1. /\ UNCHANGED <<head, lh, phase, tail, committing>> /\ pc[p] = "begin"
          /\ pc' = [pc EXCEPT ![p] = "op"] \/ pc' = pc
      BY <1>6 DEF BeginOp, Goto, storeVars
    <2>2. InOp \subseteq InOp'
      BY <1>1, <2>1 DEF InOp
    <2> QED
      BY <1>1, <1>4, <2>1, <2>2 DEF Commits
  <1>7. ASSUME NEW p \in Proc, LogWrite(p)
        PROVE  Headers'
    <2>1. /\ UNCHANGED <<head, phase, tail, committing, pc>> /\ pc[p] = "op"
      BY <1>7 DEF LogWrite, storeVars
    <2>2. /\ \A q \in Proc : pc[q] \notin Commits /\ pc'[q] \notin Commits
          /\ Up /\ phase = "up" /\ phase' = "up"
      BY <1>1, <1>2, <2>1 DEF Up
    <2>3. Up' /\ ~Installing /\ ~Installing' /\ p \in InOp'
      BY <2>1, <2>2 DEF Installing, Up, InOp, Commits
    <2>4. Where'
      BY <1>3, <2>1, <2>2, <2>3 DEF Where, Commits
    <2>5. Same'
      <3>1. CASE lh' = lh
        BY <1>3, <2>1, <3>1 DEF Same
      <3>2. CASE lh' = Append(lh, buf[p]) /\ Len(lh') = Len(lh) + 1 /\ ~InLog(buf[p])
        <4>1. /\ lh'[Len(lh) + 1] = buf[p] /\ Len(lh') = Len(lh) + 1
              /\ \A i \in 1..Len(lh) : lh'[i] = lh[i] /\ lh[i] # buf[p]
          BY <1>1, <3>2 DEF InLog
        <4>2. \A i, j \in 1..Len(lh') : lh'[i] = lh'[j] => i = j
          BY <1>1, <1>3, <4>1 DEF Same
        <4> QED
          BY <1>3, <2>1, <4>2 DEF Same
      <3> QED
        BY <1>7, <3>1, <3>2, LogGrows
    <2>6. Bound'
      BY <1>3, <2>1, <2>2 DEF Bound, Commits
    <2> QED
      BY <2>4, <2>5, <2>6 DEF Headers, Same, Where, Bound
  <1>8. ASSUME NEW p \in Proc, EndOp(p)
        PROVE  Headers'
    <2>1. UNCHANGED <<head, lh, phase>> /\ pc[p] = "op" /\ Up
      BY <1>2, <1>8 DEF EndOp, storeVars, Up
    <2>2. ~Installing /\ \A q \in Proc : pc[q] \notin Commits
      BY <1>2, <2>1 DEF Installing, Commits
    <2>3. CASE outstanding = 1
      <3>1. pc' = [pc EXCEPT ![p] = CommitFrom] /\ committing' /\ tail' = 1
        BY <1>8, <2>3 DEF EndOp, Goto
      <3>2. CommitFrom = IF lh = <<>> THEN "finish" ELSE "writelog"
        BY <1>1 DEF CommitFrom, NothingLogged
      <3> HIDE DEF CommitFrom
      <3>3. ~Installing' /\ Up'
        BY <1>1, <2>1, <2>2, <3>1, <3>2 DEF Installing, Up
      <3>4. Where'
        BY <1>1, <1>3, <2>1, <2>2, <3>1, <3>2, <3>3 DEF Where, Commits, Up
      <3>5. Same' /\ Bound'
        BY <1>1, <1>3, <2>1, <3>1 DEF Same, Bound
      <3> QED
        BY <3>4, <3>5 DEF Headers, Same, Where, Bound
    <2>4. CASE outstanding # 1
      <3>1. pc' = [pc EXCEPT ![p] = "idle"] /\ UNCHANGED <<committing, tail>>
            /\ outstanding' = outstanding - 1 /\ outstanding \in Int
        BY <1>8, <2>4 DEF EndOp, Goto, CtlTypes
      <3>2. InOp' # {}
        <4>1. outstanding' # 0
          BY <2>4, <3>1
        <4>2. outstanding' = Cardinality(InOp')
          BY AloneStep DEF Alone
        <4> QED
          BY <4>1, <4>2, FS_EmptySet
      <3> QED
        BY <1>1, <1>4, <2>1, <2>2, <3>1, <3>2 DEF Commits
    <2> QED
      BY <2>3, <2>4
  <1>9. ASSUME \/ \E b \in Block : Recycle(b)
               \/ \E p \in Proc, b \in Block, x \in Content : Update(p, b, x)
        PROVE  Headers'
    <2>1. UNCHANGED <<head, lh, phase, tail, committing, pc>>
      BY <1>9 DEF Recycle, Update, storeVars, logVars, opVars
    <2> QED
      BY <1>4, <2>1 DEF InOp
  <1>10. ASSUME NEW p \in Proc, WriteLog(p) \/ Install(p)
         PROVE  Headers'
    <2>1. UNCHANGED <<head, lh, phase, committing, pc>> /\ tail' = tail + 1
          /\ tail <= Len(lh) /\ Up
      BY <1>2, <1>10 DEF WriteLog, Install, logVars, opVars, Commits
    <2>2. Same' /\ Bound'
      BY <1>1, <1>3, <2>1 DEF Same, Bound
    <2>3. Installing' = Installing /\ Up' = Up /\ InOp' = InOp
      BY <2>1 DEF Installing, Up, InOp
    <2>4. Where'
      BY <1>3, <2>1, <2>3 DEF Where, Up
    <2> QED
      BY <2>2, <2>4 DEF Headers, Same, Where, Bound
  <1>11. ASSUME NEW p \in Proc, WriteHead(p)
         PROVE  Headers'
    <2>1. /\ UNCHANGED <<lh, phase, committing>> /\ tail' = 1 /\ head' = lh
          /\ pc' = [pc EXCEPT ![p] = "install"] /\ pc[p] = "writelog"
      BY <1>11 DEF WriteHead, logVars, Goto
    <2>2. Up /\ committing /\ \A q \in Proc \ {p} : pc[q] \notin Commits
      BY <1>2, <2>1 DEF Commits
    <2>3. Installing' /\ Up' /\ \A q \in Proc : pc'[q] # "finish"
      BY <1>1, <2>1, <2>2 DEF Installing, Up, Commits
    <2>4. Where'
      BY <2>1, <2>2, <2>3 DEF Where, Up
    <2>5. Same' /\ Bound'
      BY <1>1, <1>3, <2>1 DEF Same, Bound
    <2> QED
      BY <2>4, <2>5 DEF Headers, Same, Where, Bound
  <1>12. ASSUME NEW p \in Proc, Erase(p)
         PROVE  Headers'
    <2>1. /\ UNCHANGED <<phase, committing>> /\ tail' = 1 /\ head' = <<>> /\ lh' = <<>>
          /\ pc' = [pc EXCEPT ![p] = "finish"] /\ pc[p] = "install"
      BY <1>12 DEF Erase, logVars, Goto
    <2>2. Up /\ committing /\ \A q \in Proc \ {p} : pc[q] \notin Commits
      BY <1>2, <2>1 DEF Commits
    <2>3. ~Installing' /\ Up'
      BY <1>1, <2>1, <2>2 DEF Installing, Up, Commits
    <2>4. Where'
      BY <2>1, <2>2, <2>3 DEF Where, Up
    <2>5. Same' /\ Bound'
      BY <1>1, <2>1 DEF Same, Bound
    <2> QED
      BY <2>4, <2>5 DEF Headers, Same, Where, Bound
  <1>13. ASSUME NEW p \in Proc, Finish(p)
         PROVE  Headers'
    <2>1. /\ UNCHANGED <<head, lh, phase, tail>> /\ pc[p] = "finish"
          /\ pc' = [pc EXCEPT ![p] = "idle"]
      BY <1>13 DEF Finish, storeVars, Goto
    <2>2. Up /\ lh = <<>> /\ \A q \in Proc \ {p} : pc[q] \notin Commits
      BY <1>2, <1>3, <2>1 DEF Commits, Where
    <2>3. ~Installing /\ ~Installing' /\ Up'
      BY <1>1, <2>1, <2>2 DEF Installing, Up, Commits
    <2>4. Where'
      BY <1>1, <1>3, <2>1, <2>2, <2>3 DEF Where, Up
    <2>5. Same' /\ Bound'
      BY <1>1, <1>3, <2>1, <2>2 DEF Same, Bound
    <2> QED
      BY <2>4, <2>5 DEF Headers, Same, Where, Bound
  <1>14. ASSUME Crash
         PROVE  Headers'
    <2>1. /\ head' = head /\ phase' = "readhead" /\ lh' = <<>> /\ tail' = 1
          /\ \A p \in Proc : pc'[p] = "idle"
      BY <1>14 DEF Crash
    <2>2. ~Installing' /\ ~Up'
      BY <2>1 DEF Installing, Up
    <2>3. Where' /\ Same' /\ Bound'
      BY <1>1, <1>3, <2>1, <2>2 DEF Where, Same, Bound
    <2> QED
      BY <2>3 DEF Headers, Same, Where, Bound
  <1>15. ASSUME Recover
         PROVE  Headers'
    <2>1. phase # "up" /\ pc' = pc /\ \A p \in Proc : pc[p] = "idle"
      BY <1>2, <1>15 DEF Recover, RecoverHead, RecoverInstall, RecoverErase, opVars
    <2>2. ~Installing /\ ~Installing'
      BY <2>1 DEF Installing
    <2>3. CASE RecoverHead
      <3>1. /\ lh' = head /\ head' = head /\ phase' = "install" /\ tail' = tail
            /\ tail = 1
        BY <1>3, <2>3 DEF RecoverHead, storeVars, Where
      <3>2. Where' /\ Same' /\ Bound'
        BY <1>1, <1>3, <2>1, <2>2, <3>1 DEF Where, Same, Bound, Up
      <3> QED
        BY <3>2 DEF Headers, Same, Where, Bound
    <2>4. CASE RecoverInstall
      <3>1. /\ lh' = lh /\ head' = head /\ phase = "install" /\ phase' = phase
            /\ tail' = tail + 1 /\ tail <= Len(lh)
        BY <2>4 DEF RecoverInstall, logVars
      <3>2. Where' /\ Same' /\ Bound'
        BY <1>1, <1>3, <2>1, <2>2, <3>1 DEF Where, Same, Bound, Up
      <3> QED
        BY <3>2 DEF Headers, Same, Where, Bound
    <2>5. CASE RecoverErase
      <3>1. lh' = <<>> /\ head' = <<>> /\ phase' = "up" /\ tail' = 1
        BY <2>5 DEF RecoverErase
      <3>2. Where' /\ Same' /\ Bound'
        BY <1>1, <2>1, <2>2, <3>1 DEF Where, Same, Bound, Up
      <3> QED
        BY <3>2 DEF Headers, Same, Where, Bound
    <2> QED
      BY <1>15, <2>3, <2>4, <2>5 DEF Recover
  <1> QED
    BY <1>5, <1>6, <1>7, <1>8, <1>9, <1>10, <1>11, <1>12, <1>13, <1>14, <1>15
       DEF Next, Step

\* The first layer is inductive.
LEMMA ControlStep ==
  ASSUME Control, Next
  PROVE  Control'
  BY CtlTypesStep, AloneStep, CallsStep, HeadersStep, RoomStep DEF Control

\* Who commits commits alone; nothing else happens before recovery is over.
LEMMA Committer ==
  ASSUME Control, NEW p \in Proc, pc[p] \in Commits
  PROVE  /\ Up /\ committing /\ \A q \in Proc : buf[q] = NoBlock
         /\ \A q \in Proc \ {p} : pc[q] \notin Commits
         /\ Installing <=> pc[p] = "install"
  <1>1. Up /\ committing /\ \A q \in Proc : pc[q] # "op"
    BY DEF Control, Alone, InOp, Up, Commits
  <1>2. \A q \in Proc : buf[q] = NoBlock
    BY <1>1 DEF Control, Calls, CallOf
  <1>3. \A q \in Proc \ {p} : pc[q] \notin Commits
    BY DEF Control, Alone
  <1>4. Installing <=> pc[p] = "install"
    BY <1>3 DEF Installing, Commits
  <1> QED
    BY <1>1, <1>2, <1>3, <1>4

\* While a call runs there is no commit.
LEMMA CallRuns ==
  ASSUME Control, NEW p \in Proc, pc[p] = "op"
  PROVE  Up /\ ~committing /\ ~Installing /\ \A q \in Proc : pc[q] \notin Commits
  BY DEF Control, Alone, InOp, Up, Installing, Commits

\* Before recovery is over, no process does anything.
LEMMA Recovery ==
  ASSUME Control, ~Up
  PROVE  /\ ~Installing /\ \A p \in Proc : pc[p] = "idle" /\ buf[p] = NoBlock
  BY DEF Control, Alone, Calls, CallOf, Installing, Up

-----------------------------------------------------------------------------
(* References.                                                              *)

\* Nothing that reference counts depend on has changed.
LEMMA SamePins ==
  ASSUME Pins, refcnt' = refcnt,
         \A b \in Block : (Locked(b)' <=> Locked(b)) /\ (Waits(b)' <=> Waits(b))
  PROVE  Pins'
  BY DEF Pins

\* bread, log_write, brelse and install_trans keep the counts.
LEMMA PinsStep ==
  ASSUME Control, Pins, Next
  PROVE  Pins'
  <1>1. /\ pc \in [Proc -> {"idle", "begin", "op", "writelog", "install", "finish"}]
        /\ buf \in [Proc -> Block \cup {NoBlock}] /\ NoBlock \notin Block
        /\ lh \in Seq(Block) /\ Len(lh) \in Nat /\ refcnt \in [Block -> Int] /\ tail \in Int
    BY NamesAssumption DEF Control, CtlTypes, Commits, Pins
  <1>2. ASSUME NEW p \in Proc, Call(p) \/ BeginOp(p) \/ EndOp(p) \/ WriteLog(p) \/ Finish(p)
        PROVE  Pins'
    <2>1. UNCHANGED <<refcnt, buf, lh, phase>>
      BY <1>2
         DEF Call, BeginOp, EndOp, WriteLog, Finish, cacheVars, logVars, opVars
    <2>2. CASE Call(p) \/ BeginOp(p)
      <3>1. Installing' = Installing /\ tail' = tail
        BY <1>1, <2>2 DEF Call, BeginOp, Goto, Installing
      <3> QED
        BY <2>1, <3>1, SamePins DEF Locked, Waits, Up
    <2>3. CASE EndOp(p)
      <3>1. ~Installing /\ pc[p] = "op"
        BY <2>3, CallRuns DEF EndOp
      <3>2. ~Installing'
        BY <1>1, <2>3, <3>1 DEF EndOp, Goto, Installing, CommitFrom
      <3> QED
        BY <2>1, <3>1, <3>2, SamePins DEF Locked, Waits, Up
    <2>4. CASE WriteLog(p) \/ Finish(p)
      <3>1. pc[p] \in Commits /\ pc[p] # "install"
        BY <2>4 DEF WriteLog, Finish, Commits
      <3>2. ~Installing
        BY <3>1, Committer
      <3>3. ~Installing'
        BY <1>1, <2>4, <3>2 DEF WriteLog, Finish, Goto, Installing, opVars
      <3> QED
        BY <2>1, <3>2, <3>3, SamePins DEF Locked, Waits, Up
    <2> QED
      BY <1>2, <2>2, <2>3, <2>4
  <1>3. ASSUME NEW p \in Proc, NEW b \in Block, NEW x \in Content, Update(p, b, x)
        PROVE  Pins'
    <2>1. /\ refcnt' = [refcnt EXCEPT ![b] = @ + 1] /\ buf' = [buf EXCEPT ![p] = b]
          /\ buf[p] = NoBlock /\ ~Locked(b)
          /\ UNCHANGED <<lh, phase, tail, pc>>
      BY <1>3 DEF Update, logVars, Locked
    <2>2. \A c \in Block : Waits(c)' <=> Waits(c)
      BY <2>1 DEF Waits, Up, Installing
    <2>3. \A c \in Block : Locked(c)' <=> Locked(c) \/ c = b
      BY <1>1, <2>1 DEF Locked
    <2> QED
      BY <1>1, <2>1, <2>2, <2>3 DEF Pins
  <1>4. ASSUME NEW p \in Proc, LogWrite(p)
        PROVE  Pins'
    <2>1. /\ buf' = [buf EXCEPT ![p] = NoBlock] /\ buf[p] \in Block /\ pc[p] = "op"
          /\ UNCHANGED <<phase, tail, pc>>
          /\ \/ lh' = lh /\ InLog(buf[p]) /\ refcnt' = [refcnt EXCEPT ![buf[p]] = @ - 1]
             \/ refcnt' = refcnt /\ ~InLog(buf[p])
      BY <1>1, <1>4 DEF LogWrite, Contains, InLog
    <2>2. Up /\ Up' /\ ~Installing /\ ~Installing'
      BY <2>1, CallRuns DEF Installing, Up
    <2>3. \A b \in Block : (Waits(b) <=> InLog(b)) /\ (Waits(b)' <=> InLog(b)')
      BY <2>2 DEF Waits, InLog
    <2>4. \A b \in Block : Locked(b)' <=> Locked(b) /\ b # buf[p]
      <3>1. \A q \in Proc : buf[q] = buf[p] => q = p
        BY <1>1, <2>1 DEF Control, Calls
      <3> QED
        BY <1>1, <2>1, <3>1 DEF Locked
    <2>5. Locked(buf[p])
      BY DEF Locked
    <2>6. \A b \in Block : InLog(b)' <=> InLog(b) \/ b = buf[p]
      BY <1>4, LogGrows DEF Control
    <2> QED
      BY <1>1, <2>1, <2>3, <2>4, <2>5, <2>6 DEF Pins
  <1>5. ASSUME NEW p \in Proc, WriteHead(p)
        PROVE  Pins'
    <2>1. /\ UNCHANGED <<refcnt, buf, lh, phase>> /\ pc[p] = "writelog" /\ tail' = 1
          /\ pc' = [pc EXCEPT ![p] = "install"]
      BY <1>5 DEF WriteHead, cacheVars, logVars, Goto
    <2>2. ~Installing
      BY <2>1, Committer DEF Commits
    <2>3. \A b \in Block : Waits(b)' <=> Waits(b)
      BY <1>1, <2>1, <2>2 DEF Waits, Up
    <2> QED
      BY <2>1, <2>3, SamePins DEF Locked
  <1>6. ASSUME NEW p \in Proc, Install(p)
        PROVE  Pins'
    <2> DEFINE b == lh[tail]
    <2>1. /\ UNCHANGED <<buf, lh, phase, pc>> /\ pc[p] = "install" /\ tail' = tail + 1
          /\ tail \in 1..Len(lh) /\ refcnt' = [refcnt EXCEPT ![b] = @ - 1]
      BY <1>1, <1>6 DEF Install, logVars, opVars, Control, CtlTypes
    <2>2. Installing /\ Installing' /\ Up /\ Up'
      BY <2>1, Committer DEF Commits, Installing, Up
    <2>3. b \in Block /\ Waits(b)
      <3>1. b \in Block /\ tail <= tail
        BY <1>1, <2>1
      <3> QED
        BY <2>1, <2>2, <3>1 DEF Waits
    <2>4. \A i, j \in 1..Len(lh) : lh[i] = lh[j] => i = j
      BY DEF Control, Headers
    <2> HIDE DEF b
    <2>5. \A c \in Block : Waits(c)' <=> Waits(c) /\ c # b
      <3>1. \A c \in Block : Waits(c) <=> \E i \in 1..Len(lh) : lh[i] = c /\ tail <= i
        BY <2>2 DEF Waits
      <3>2. \A c \in Block : Waits(c)' <=> \E i \in 1..Len(lh) : lh[i] = c /\ tail + 1 <= i
        BY <2>1, <2>2 DEF Waits
      <3>3. \A i \in 1..Len(lh) : tail <= i <=> tail + 1 <= i \/ i = tail
        BY <1>1, <2>1
      <3>4. \A i \in 1..Len(lh) : lh[i] = b <=> i = tail
        BY <2>1, <2>4 DEF b
      <3>5. \A i \in 1..Len(lh) : tail + 1 <= i => i # tail
        BY <1>1
      <3> QED
        BY <3>1, <3>2, <3>3, <3>4, <3>5
    <2>6. \A c \in Block : Locked(c)' = Locked(c)
      BY <2>1 DEF Locked
    <2> QED
      BY <1>1, <2>1, <2>3, <2>5, <2>6 DEF Pins
  <1>7. ASSUME NEW p \in Proc, Erase(p)
        PROVE  Pins'
    <2>1. /\ UNCHANGED <<buf, phase, refcnt>> /\ pc[p] = "install" /\ tail > Len(lh)
          /\ lh' = <<>>
      BY <1>7 DEF Erase, cacheVars
    <2>2. Installing
      BY <2>1 DEF Installing
    <2>3. 1..Len(lh') = {} /\ \A i \in 1..Len(lh) : ~(tail <= i)
      BY <1>1, <2>1
    <2>4. \A b \in Block : ~Waits(b) /\ ~Waits(b)'
      BY <2>2, <2>3 DEF Waits
    <2> QED
      BY <2>1, <2>4, SamePins DEF Locked
  <1>8. ASSUME NEW b \in Block, Recycle(b)
        PROVE  Pins'
    <2>1. UNCHANGED <<refcnt, lh, buf, phase, tail, pc>>
      BY <1>8 DEF Recycle, logVars, opVars
    <2> QED
      BY <2>1, SamePins DEF Locked, Waits, Up, Installing
  <1>9. ASSUME Crash
        PROVE  Pins'
    <2>1. /\ refcnt' = [b \in Block |-> 0] /\ phase' = "readhead"
          /\ \A p \in Proc : buf'[p] = NoBlock
      BY <1>9 DEF Crash
    <2>2. \A b \in Block : ~Locked(b)' /\ ~Waits(b)'
      BY <1>1, <2>1 DEF Locked, Waits, Up
    <2> QED
      BY <2>1, <2>2 DEF Pins
  <1>10. ASSUME Recover
         PROVE  Pins'
    <2>1. UNCHANGED <<refcnt, buf>> /\ ~Up /\ (phase' # "up" \/ lh' = <<>>)
      BY <1>10 DEF Recover, RecoverHead, RecoverInstall, RecoverErase, opVars, Up, cacheVars
    <2>2. \A b \in Block : ~Waits(b) /\ ~Waits(b)'
      <3>1. CASE phase' # "up"
        BY <2>1, <3>1 DEF Waits, Up
      <3>2. CASE lh' = <<>>
        <4>1. 1..Len(lh') = {}
          BY <3>2
        <4> QED
          BY <2>1, <4>1 DEF Waits
      <3> QED
        BY <2>1, <3>1, <3>2
    <2> QED
      BY <2>1, <2>2, SamePins DEF Locked
  <1> QED
    BY <1>2, <1>3, <1>4, <1>5, <1>6, <1>7, <1>8, <1>9, <1>10 DEF Next, Step

-----------------------------------------------------------------------------
(* The copies of a block.                                                   *)

\* What is locked or waits to be installed is cached, and holds data.
LEMMA KeptInCache ==
  ASSUME Control, Pins, Data, NEW b \in Block, Locked(b) \/ Waits(b)
  PROVE  refcnt[b] # 0 /\ cache[b] # NotCached /\ cache[b] \in Content
  <1>1. refcnt[b] # 0
    BY DEF Pins
  <1> QED
    BY <1>1 DEF Data, CacheGood, DataTypes

\* The log writer reads the calls' data, out of the cache.
LEMMA LogData ==
  ASSUME Control, Pins, Data, NEW p \in Proc, pc[p] = "writelog"
  PROVE  /\ Up /\ head = <<>> /\ ~Installing
         /\ \A i \in 1..Len(lh) : /\ lh[i] \in Block /\ Waits(lh[i])
                                  /\ cache[lh[i]] \in Content /\ Read(lh[i]) = cache[lh[i]]
         /\ \A i \in 1..Len(lh) : i < tail => logged[i] = cache[lh[i]]
  <1>1. Up /\ ~Installing
    BY Committer DEF Commits
  <1>2. head = <<>> /\ lh \in Seq(Block)
    BY <1>1 DEF Control, Headers, CtlTypes
  <1>3. ASSUME NEW i \in 1..Len(lh)
        PROVE  /\ lh[i] \in Block /\ Waits(lh[i])
               /\ cache[lh[i]] \in Content /\ Read(lh[i]) = cache[lh[i]]
    <2>1. lh[i] \in Block /\ Waits(lh[i])
      BY <1>1, <1>2 DEF Waits
    <2> QED
      BY <2>1, KeptInCache DEF Read
  <1>4. \A i \in 1..Len(lh) : i < tail => logged[i] = cache[lh[i]]
    BY DEF Data, Progress
  <1> QED
    BY <1>1, <1>2, <1>3, <1>4

\* Installing copies good data home, in a commit as in recovery.
LEMMA InstallData ==
  ASSUME Control, Pins, Data, phase = "install" \/ Installing
  PROVE  /\ head = lh
         /\ \A i \in 1..Len(lh) : /\ lh[i] \in Block /\ logged[i] \in Content
                                  /\ cache[lh[i]] # NotCached => cache[lh[i]] = logged[i]
                                  /\ i < tail => home[lh[i]] = logged[i]
         /\ \A i, j \in 1..Len(lh) : lh[i] = lh[j] => i = j
         /\ \A b \in Block : ~InLog(b) => home[b] \in Content
  <1>1. head = lh /\ lh \in Seq(Block)
    BY DEF Control, Headers, CtlTypes
  <1> QED
    BY <1>1 DEF Data, Progress, DiskGood, Control, Headers, InLog

\* A block that is cached and neither locked nor waiting is the one at home.
LEMMA Clean ==
  ASSUME Control, Pins, Data, NEW b \in Block, ~Locked(b), ~Waits(b),
         cache[b] # NotCached, Up
  PROVE  cache[b] = home[b]
  <1>1. CASE ~InLog(b)
    BY <1>1 DEF Data, CacheGood
  <1>2. CASE InLog(b)
    <2>1. PICK i \in 1..Len(lh) : lh[i] = b
      BY <1>2 DEF InLog
    <2>2. Installing /\ i < tail
      BY <2>1 DEF Waits, Control, CtlTypes
    <2> QED
      BY <2>1, <2>2, InstallData
  <1> QED
    BY <1>1, <1>2

\* What a step reads off the disk or out of the cache is data.
LEMMA DataTypesStep ==
  ASSUME Control, Pins, Data, Next
  PROVE  DataTypes'
  <1>1. /\ logged \in [Index -> Content \cup {Torn}] /\ home \in [Block -> Content \cup {Torn}]
        /\ cache \in [Block -> Content \cup {NotCached}]
    BY DEF Data, DataTypes
  <1>2. ASSUME NEW p \in Proc,
               \/ Call(p) \/ BeginOp(p) \/ LogWrite(p) \/ EndOp(p) \/ WriteHead(p)
               \/ Erase(p) \/ Finish(p)
        PROVE  DataTypes'
    BY <1>1, <1>2 DEF Call, BeginOp, LogWrite, EndOp, WriteHead, Erase, Finish,
                      storeVars, cacheVars, DataTypes
  <1>3. ASSUME NEW p \in Proc, WriteLog(p)
        PROVE  DataTypes'
    <2>1. /\ logged' = [logged EXCEPT ![tail] = Read(lh[tail])] /\ UNCHANGED <<home, cache>>
          /\ pc[p] = "writelog" /\ tail \in 1..Len(lh)
      BY <1>3 DEF WriteLog, cacheVars, Control, CtlTypes
    <2>2. Read(lh[tail]) \in Content
      BY <2>1, LogData
    <2> QED
      BY <1>1, <2>1, <2>2 DEF DataTypes
  <1>4. ASSUME (\E p \in Proc : Install(p)) \/ RecoverInstall
        PROVE  DataTypes'
    <2>1. /\ CopyHome(lh[tail], logged[tail]) /\ logged' = logged /\ tail \in 1..Len(lh)
          /\ phase = "install" \/ Installing
      BY <1>4 DEF Install, RecoverInstall, Installing, Control, CtlTypes
    <2>2. lh[tail] \in Block /\ logged[tail] \in Content
      BY <2>1, InstallData
    <2> QED
      BY <1>1, <2>1, <2>2 DEF DataTypes, CopyHome
  <1>5. ASSUME \/ \E b \in Block : Recycle(b)
               \/ \E p \in Proc, b \in Block, x \in Content : Update(p, b, x)
        PROVE  DataTypes'
    <2>1. UNCHANGED <<logged, home>>
      BY <1>5 DEF Recycle, Update, storeVars
    <2>2. cache' \in [Block -> Content \cup {NotCached}]
      BY <1>1, <1>5 DEF Recycle, Update
    <2> QED
      BY <1>1, <2>1, <2>2 DEF DataTypes
  <1>6. ASSUME RecoverHead \/ RecoverErase
        PROVE  DataTypes'
    BY <1>1, <1>6 DEF RecoverHead, RecoverErase, storeVars, cacheVars, DataTypes
  <1>7. ASSUME Crash
        PROVE  DataTypes'
    <2>1. Tear /\ cache' = [b \in Block |-> NotCached]
      BY <1>7 DEF Crash
    <2>2. \/ logged' = logged
          \/ \E i \in 1..Len(lh) : logged' = [logged EXCEPT ![i] = Torn]
      BY <2>1 DEF Tear, Control, CtlTypes
    <2>3. \/ home' = home
          \/ \E b : home' = [home EXCEPT ![b] = Torn]
      BY <2>1 DEF Tear
    <2> QED
      BY <1>1, <2>1, <2>2, <2>3 DEF DataTypes
  <1> QED
    BY <1>2, <1>3, <1>4, <1>5, <1>6, <1>7 DEF Next, Step, Recover

\* A block is torn only where recovery does not look, or looks again.
LEMMA DiskGoodStep ==
  ASSUME Control, Pins, Data, Next
  PROVE  DiskGood'
  <1>1. DiskGood /\ head \in Seq(Block) /\ lh \in Seq(Block)
    BY DEF Data, Control, CtlTypes
  <1>2. ASSUME UNCHANGED <<head, logged, home>>
        PROVE  DiskGood'
    BY <1>1, <1>2 DEF DiskGood
  <1>3. ASSUME NEW p \in Proc, WriteLog(p)
        PROVE  DiskGood'
    <2>1. head = <<>> /\ UNCHANGED <<head, home>>
      BY <1>3, LogData DEF WriteLog
    <2> QED
      BY <1>1, <2>1 DEF DiskGood
  <1>4. ASSUME NEW p \in Proc, WriteHead(p)
        PROVE  DiskGood'
    <2>1. /\ head' = lh /\ UNCHANGED <<logged, home>> /\ pc[p] = "writelog"
          /\ tail > Len(lh) /\ tail \in Int
      BY <1>4 DEF WriteHead, Control, CtlTypes
    <2>2. head = <<>> /\ \A i \in 1..Len(lh) : logged[i] \in Content
      BY <1>1, <2>1, LogData
    <2>3. \A b \in Block : home[b] \in Content
      <3>1. 1..Len(head) = {}
        BY <2>2
      <3> QED
        BY <1>1, <3>1 DEF DiskGood
    <2> QED
      BY <2>1, <2>2, <2>3 DEF DiskGood
  <1>5. ASSUME (\E p \in Proc : Install(p)) \/ RecoverInstall
        PROVE  DiskGood'
    <2>1. /\ home' = [home EXCEPT ![lh[tail]] = logged[tail]] /\ UNCHANGED <<logged, head>>
          /\ tail \in 1..Len(lh)
          /\ phase = "install" \/ Installing
      BY <1>5 DEF Install, RecoverInstall, Installing, CopyHome, Control, CtlTypes
    <2>2. head = lh
      BY <2>1, InstallData
    <2>3. \A b \in Block : b # lh[tail] => home'[b] = home[b]
      BY <2>1 DEF Data, DataTypes
    <2>4. ASSUME NEW b \in Block, ~(\E i \in 1..Len(head) : head[i] = b)
          PROVE  home'[b] \in Content
      <3>1. b # lh[tail]
        BY <2>1, <2>2, <2>4
      <3> QED
        BY <1>1, <2>3, <2>4, <3>1 DEF DiskGood
    <2>5. \A i \in 1..Len(head) : logged[i] \in Content
      BY <1>1 DEF DiskGood
    <2> QED
      BY <2>1, <2>4, <2>5 DEF DiskGood
  <1>6. ASSUME (\E p \in Proc : Erase(p)) \/ RecoverErase
        PROVE  DiskGood'
    <2>1. /\ UNCHANGED <<logged, home>> /\ head' = <<>> /\ tail > Len(lh)
          /\ phase = "install" \/ Installing
      BY <1>6 DEF Erase, RecoverErase, Installing
    <2>2. ASSUME NEW b \in Block
          PROVE  home[b] \in Content
      <3>1. CASE InLog(b)
        <4>1. PICK i \in 1..Len(lh) : lh[i] = b
          BY <3>1 DEF InLog
        <4>2. i < tail
          BY <1>1, <2>1 DEF Control, CtlTypes
        <4> QED
          BY <2>1, <4>1, <4>2, InstallData
      <3>2. CASE ~InLog(b)
        BY <2>1, <3>2, InstallData
      <3> QED
        BY <3>1, <3>2
    <2>3. 1..Len(head') = {}
      BY <2>1
    <2> QED
      BY <2>1, <2>2, <2>3 DEF DiskGood
  <1>7. ASSUME Crash
        PROVE  DiskGood'
    <2>1. Tear /\ head' = head
      BY <1>7 DEF Crash
    <2>2. CASE UNCHANGED <<logged, home>>
      BY <1>2, <2>1, <2>2
    <2>3. ASSUME NEW p \in Proc, pc[p] = "writelog", home' = home
          PROVE  DiskGood'
      <3>1. 1..Len(head) = {}
        BY <2>3, LogData
      <3> QED
        BY <1>1, <2>1, <2>3, <3>1 DEF DiskGood
    <2>4. ASSUME phase = "install" \/ Installing, logged' = logged, tail <= Len(lh),
                 home' = [home EXCEPT ![lh[tail]] = Torn]
          PROVE  DiskGood'
      <3>1. head = lh /\ tail \in 1..Len(lh)
        BY <2>4, InstallData DEF Control, CtlTypes
      <3>2. \A b \in Block : b # lh[tail] => home'[b] = home[b]
        BY <2>4 DEF Data, DataTypes
      <3> QED
        BY <1>1, <2>1, <2>4, <3>1, <3>2 DEF DiskGood
    <2> QED
      BY <2>1, <2>2, <2>3, <2>4 DEF Tear, Installing
  <1>8. ASSUME \/ \E p \in Proc : \/ Call(p) \/ BeginOp(p) \/ LogWrite(p) \/ EndOp(p) \/ Finish(p)
                                  \/ \E b \in Block, x \in Content : Update(p, b, x)
               \/ \E b \in Block : Recycle(b)
               \/ RecoverHead
        PROVE  UNCHANGED <<head, logged, home>>
    BY <1>8 DEF Call, BeginOp, LogWrite, EndOp, Finish, Update, Recycle, RecoverHead, storeVars
  <1> QED
    BY <1>2, <1>3, <1>4, <1>5, <1>6, <1>7, <1>8 DEF Next, Step, Recover

\* A buffer is recycled, or left in the cache, only if it is the one at home.
LEMMA CacheGoodStep ==
  ASSUME Control, Pins, Data, Pins', Next
  PROVE  CacheGood'
  <1>1. /\ cache \in [Block -> Content \cup {NotCached}] /\ NotCached \notin Content
        /\ home \in [Block -> Content \cup {Torn}] /\ lh \in Seq(Block)
        /\ buf \in [Proc -> Block \cup {NoBlock}] /\ NoBlock \notin Block
    BY NamesAssumption DEF Data, DataTypes, Control, CtlTypes
  <1>2. /\ phase = "readhead" => \A b \in Block : cache[b] = NotCached
        /\ \A b \in Block : refcnt[b] # 0 => cache[b] # NotCached
        /\ \A b \in Block : ~InLog(b) /\ ~Locked(b) /\ cache[b] # NotCached => cache[b] = home[b]
    BY DEF Data, CacheGood
  <1>3. \A b \in Block : refcnt'[b] # 0 => Locked(b)' \/ Waits(b)'
    BY DEF Pins
  <1>4. ASSUME NEW p \in Proc,
               \/ Call(p) \/ BeginOp(p) \/ EndOp(p) \/ WriteLog(p) \/ WriteHead(p) \/ Finish(p)
        PROVE  CacheGood'
    <2>1. UNCHANGED <<cache, refcnt, home, lh, buf, phase>>
      BY <1>4
         DEF Call, BeginOp, EndOp, WriteLog, WriteHead, Finish, storeVars, cacheVars, logVars,
             opVars
    <2> QED
      BY <1>2, <2>1 DEF CacheGood, InLog, Locked
  <1>5. ASSUME NEW p \in Proc, NEW b \in Block, NEW x \in Content, Update(p, b, x)
        PROVE  CacheGood'
    <2>1. /\ cache' = [cache EXCEPT ![b] = x] /\ refcnt' = [refcnt EXCEPT ![b] = @ + 1]
          /\ buf' = [buf EXCEPT ![p] = b] /\ buf[p] = NoBlock
          /\ UNCHANGED <<home, lh, phase>> /\ pc[p] = "op"
      BY <1>5 DEF Update, storeVars, logVars
    <2>2. phase = "up"
      BY <2>1, CallRuns DEF Up
    <2>3. Locked(b)' /\ \A c \in Block : Locked(c) => Locked(c)'
      BY <1>1, <2>1 DEF Locked
    <2>4. \A c \in Block \ {b} : cache'[c] = cache[c] /\ refcnt'[c] = refcnt[c]
      BY <1>1, <2>1 DEF Pins
    <2>5. cache'[b] # NotCached
      BY <1>1, <2>1
    <2>6. \A c \in Block : InLog(c)' <=> InLog(c)
      BY <2>1 DEF InLog
    <2> QED
      BY <1>2, <2>1, <2>2, <2>3, <2>4, <2>5, <2>6 DEF CacheGood
  <1>6. ASSUME NEW p \in Proc, LogWrite(p)
        PROVE  CacheGood'
    <2>1. /\ buf' = [buf EXCEPT ![p] = NoBlock] /\ UNCHANGED <<home, cache, phase>>
          /\ pc[p] = "op" /\ buf[p] \in Block
          /\ \A b \in Block : b # buf[p] => refcnt'[b] = refcnt[b]
      BY <1>1, <1>6 DEF LogWrite, storeVars, Pins
    <2>2. phase = "up" /\ Locked(buf[p])
      BY <2>1, CallRuns DEF Up, Locked
    <2>3. cache[buf[p]] # NotCached
      BY <2>1, <2>2, KeptInCache
    <2>4. \A b \in Block : InLog(b)' <=> InLog(b) \/ b = buf[p]
      BY <1>6, LogGrows DEF Control
    <2>5. \A b \in Block : Locked(b) => Locked(b)' \/ b = buf[p]
      BY <1>1, <2>1 DEF Locked
    <2> QED
      BY <1>2, <2>1, <2>2, <2>3, <2>4, <2>5 DEF CacheGood
  <1>7. ASSUME (\E p \in Proc : Install(p)) \/ RecoverInstall
        PROVE  CacheGood'
    <2>1. /\ home' = [home EXCEPT ![lh[tail]] = logged[tail]]
          /\ cache' = [cache EXCEPT ![lh[tail]] = logged[tail]]
          /\ tail \in 1..Len(lh) /\ UNCHANGED <<lh, buf, phase>>
          /\ phase = "install" \/ Installing
      BY <1>7
         DEF Install, RecoverInstall, Installing, CopyHome, Control, CtlTypes, logVars, opVars
    <2>2. /\ lh[tail] \in Block /\ logged[tail] \in Content
      BY <2>1, InstallData
    <2>3. cache'[lh[tail]] = home'[lh[tail]] /\ cache'[lh[tail]] # NotCached
      BY <1>1, <2>1, <2>2
    <2>4. \A b \in Block : b # lh[tail] => cache'[b] = cache[b] /\ home'[b] = home[b]
      BY <1>1, <2>1
    <2>5. \A b \in Block : b # lh[tail] => refcnt'[b] = refcnt[b]
      BY <1>7, <2>2 DEF Install, RecoverInstall, Pins
    <2>6. phase # "readhead"
      BY <2>1, Recovery DEF Control, Alone, Installing
    <2>7. \A b \in Block : (InLog(b)' <=> InLog(b)) /\ (Locked(b)' <=> Locked(b))
      BY <2>1 DEF InLog, Locked
    <2> QED
      BY <1>2, <2>1, <2>3, <2>4, <2>5, <2>6, <2>7 DEF CacheGood
  <1>8. ASSUME (\E p \in Proc : Erase(p)) \/ RecoverErase
        PROVE  CacheGood'
    <2>1. /\ UNCHANGED <<cache, refcnt, home, buf>> /\ lh' = <<>> /\ tail > Len(lh)
          /\ phase' # "readhead"
          /\ phase = "install" \/ Installing
      BY <1>8, Committer DEF Erase, RecoverErase, Installing, cacheVars, opVars, Up, Commits
    <2>2. ASSUME NEW b \in Block, ~Locked(b), cache[b] # NotCached
          PROVE  cache[b] = home[b]
      <3>1. CASE InLog(b)
        <4>1. PICK i \in 1..Len(lh) : lh[i] = b
          BY <3>1 DEF InLog
        <4>2. i < tail
          BY <1>1, <2>1 DEF Control, CtlTypes
        <4> QED
          BY <2>1, <2>2, <4>1, <4>2, InstallData
      <3>2. CASE ~InLog(b)
        BY <1>2, <2>2, <3>2
      <3> QED
        BY <3>1, <3>2
    <2>3. \A b \in Block : Locked(b)' <=> Locked(b)
      BY <2>1 DEF Locked
    <2> QED
      BY <1>2, <2>1, <2>2, <2>3 DEF CacheGood
  <1>9. ASSUME NEW b \in Block, Recycle(b)
        PROVE  CacheGood'
    <2>1. /\ cache' = [cache EXCEPT ![b] = NotCached] /\ refcnt[b] = 0
          /\ UNCHANGED <<refcnt, home, lh, buf, phase>> /\ phase = "up"
      BY <1>9 DEF Recycle, storeVars, logVars, opVars, Up
    <2>2. cache'[b] = NotCached /\ \A c \in Block \ {b} : cache'[c] = cache[c]
      BY <1>1, <2>1
    <2>3. \A c \in Block : (InLog(c)' <=> InLog(c)) /\ (Locked(c)' <=> Locked(c))
      BY <2>1 DEF InLog, Locked
    <2> QED
      BY <1>2, <2>1, <2>2, <2>3 DEF CacheGood
  <1>10. ASSUME Crash
         PROVE  CacheGood'
    <2>1. \A b \in Block : cache'[b] = NotCached /\ refcnt'[b] = 0
      BY <1>10 DEF Crash
    <2> QED
      BY <2>1 DEF CacheGood
  <1>11. ASSUME RecoverHead
         PROVE  CacheGood'
    <2>1. UNCHANGED <<cache, refcnt>> /\ phase = "readhead" /\ phase' = "install"
      BY <1>11 DEF RecoverHead, cacheVars
    <2> QED
      BY <1>2, <2>1 DEF CacheGood
  <1> QED
    BY <1>4, <1>5, <1>6, <1>7, <1>8, <1>9, <1>10, <1>11 DEF Next, Step, Recover

\* write_log and install_trans go on where they are.
LEMMA ProgressStep ==
  ASSUME Control, Pins, Data, Next
  PROVE  Progress'
  <1>1. /\ pc \in [Proc -> {"idle", "begin", "op", "writelog", "install", "finish"}]
        /\ lh \in Seq(Block) /\ tail \in Nat \ {0} /\ Len(lh) \in Nat
        /\ cache \in [Block -> Content \cup {NotCached}] /\ home \in [Block -> Content \cup {Torn}]
        /\ logged \in [Index -> Content \cup {Torn}] /\ Len(lh) <= LOGBLOCKS
    BY LogFits DEF Data, DataTypes, Control, CtlTypes, Commits
  <1> DEFINE Writing == \E p \in Proc : pc[p] = "writelog"
             Copying == phase = "install" \/ Installing
  <1>2. /\ Writing => \A i \in 1..Len(lh) : i < tail => logged[i] = cache[lh[i]]
        /\ Copying =>
             \A i \in 1..Len(lh) : /\ cache[lh[i]] # NotCached => cache[lh[i]] = logged[i]
                                   /\ i < tail => home[lh[i]] = logged[i]
    BY DEF Data, Progress
  \* Neither writing nor copying before a step of a call, and after it only
  \* the end of the last call starts to write.
  <1>3. ASSUME ~Writing', ~Copying'
        PROVE  Progress'
    BY <1>3 DEF Progress
  <1>4. ASSUME NEW p \in Proc, Call(p) \/ BeginOp(p)
        PROVE  Progress'
    <2>1. UNCHANGED <<lh, tail, logged, cache, home, phase>>
      BY <1>4 DEF Call, BeginOp, storeVars, cacheVars, logVars
    <2>2. (Writing' <=> Writing) /\ (Copying' <=> Copying)
      BY <1>1, <1>4, <2>1 DEF Call, BeginOp, Goto, Installing
    <2> QED
      BY <1>2, <2>1, <2>2 DEF Progress
  <1>5. ASSUME NEW p \in Proc,
               LogWrite(p) \/ \E b \in Block, x \in Content : Update(p, b, x)
        PROVE  Progress'
    <2>1. UNCHANGED <<pc, phase>> /\ pc[p] = "op"
      BY <1>5 DEF LogWrite, Update
    <2>2. Up /\ \A q \in Proc : pc[q] \notin Commits
      BY <2>1, CallRuns
    <2> QED
      BY <1>3, <2>1, <2>2 DEF Installing, Commits, Up
  <1>6. ASSUME NEW p \in Proc, EndOp(p)
        PROVE  Progress'
    <2>1. phase' = phase /\ pc[p] = "op" /\ (tail' = 1 \/ pc' = [pc EXCEPT ![p] = "idle"])
      BY <1>6 DEF EndOp, Goto
    <2>a. pc'[p] # "install" /\ \A q \in Proc : q # p => pc'[q] = pc[q]
      BY <1>1, <1>6 DEF EndOp, Goto, CommitFrom
    <2>2. Up /\ \A q \in Proc : pc[q] \notin Commits
      BY <2>1, CallRuns
    <2>3. ~Copying'
      <3>1. \A q \in Proc : pc'[q] # "install"
        BY <2>a, <2>2 DEF Commits
      <3>2. phase' # "install"
        BY <2>1, <2>2 DEF Up
      <3> QED
        BY <3>1, <3>2 DEF Installing
    <2>4. CASE tail' = 1
      <3>1. lh' = lh /\ \A i \in 1..Len(lh) : ~(i < 1)
        BY <1>1, <1>6 DEF EndOp
      <3> QED
        BY <2>3, <2>4, <3>1 DEF Progress
    <2>5. CASE pc' = [pc EXCEPT ![p] = "idle"]
      BY <1>1, <1>3, <2>2, <2>3, <2>5 DEF Commits
    <2> QED
      BY <2>1, <2>4, <2>5
  <1>7. ASSUME NEW p \in Proc, WriteLog(p)
        PROVE  Progress'
    <2>1. /\ logged' = [logged EXCEPT ![tail] = Read(lh[tail])]
          /\ tail' = tail + 1 /\ tail \in 1..Len(lh)
          /\ UNCHANGED <<cache, lh, pc, phase>> /\ pc[p] = "writelog"
      BY <1>1, <1>7 DEF WriteLog, cacheVars, logVars, opVars
    <2>2. Read(lh[tail]) = cache[lh[tail]] /\ Up /\ ~Installing
      BY <2>1, LogData
    <2>3. ~Copying'
      BY <2>1, <2>2 DEF Up, Installing
    <2>4. ASSUME NEW i \in 1..Len(lh), i < tail + 1
          PROVE  logged'[i] = cache[lh[i]]
      <3>1. i \in Index /\ tail \in Index
        BY <1>1, <2>1, LogAssumption DEF Index
      <3>2. CASE i = tail
        BY <1>1, <2>1, <2>2, <3>1, <3>2
      <3>3. CASE i # tail
        <4>1. i < tail
          BY <1>1, <2>4, <3>3
        <4> QED
          BY <1>1, <1>2, <2>1, <3>1, <3>3, <4>1
      <3> QED
        BY <3>2, <3>3
    <2> QED
      BY <2>1, <2>3, <2>4 DEF Progress
  <1>8. ASSUME NEW p \in Proc, WriteHead(p)
        PROVE  Progress'
    <2>1. /\ UNCHANGED <<logged, home, cache, lh>> /\ tail' = 1 /\ tail > Len(lh)
          /\ pc' = [pc EXCEPT ![p] = "install"] /\ pc[p] = "writelog"
      BY <1>8 DEF WriteHead, cacheVars, logVars, Goto
    <2>2. \A i \in 1..Len(lh) : logged[i] = cache[lh[i]]
      BY <1>1, <1>2, <2>1
    <2>3. ~Writing'
      BY <1>1, <2>1, Committer DEF Commits
    <2> QED
      BY <1>1, <2>1, <2>2, <2>3 DEF Progress
  <1>9. ASSUME (\E p \in Proc : Install(p)) \/ RecoverInstall
        PROVE  Progress'
    <2>1. /\ home' = [home EXCEPT ![lh[tail]] = logged[tail]]
          /\ cache' = [cache EXCEPT ![lh[tail]] = logged[tail]]
          /\ tail \in 1..Len(lh) /\ UNCHANGED <<logged, lh, phase, pc>> /\ tail' = tail + 1
          /\ Copying
      BY <1>1, <1>9 DEF Install, RecoverInstall, Installing, CopyHome, logVars, opVars
    <2>2. ~Writing
      <3>1. CASE Up
        <4>1. PICK p \in Proc : pc[p] = "install"
          BY <2>1, <3>1 DEF Up, Installing
        <4> QED
          BY <4>1, Committer DEF Commits
      <3>2. CASE ~Up
        BY <3>2, Recovery
      <3> QED
        BY <3>1, <3>2
    <2>3. lh[tail] \in Block /\ \A i \in 1..Len(lh) : lh[i] = lh[tail] => i = tail
      BY <2>1, InstallData
    <2>4. ASSUME NEW i \in 1..Len(lh)
          PROVE  /\ cache'[lh[i]] # NotCached => cache'[lh[i]] = logged[i]
                 /\ i < tail + 1 => home'[lh[i]] = logged[i]
      <3>1. CASE i = tail
        BY <1>1, <2>1, <2>3, <3>1
      <3>2. CASE i # tail
        <4>1. lh[i] \in Block /\ cache'[lh[i]] = cache[lh[i]] /\ home'[lh[i]] = home[lh[i]]
          BY <1>1, <2>1, <2>3, <3>2
        <4>2. i < tail + 1 => i < tail
          BY <1>1, <3>2
        <4> QED
          BY <1>2, <2>1, <4>1, <4>2
      <3> QED
        BY <3>1, <3>2
    <2>5. ~Writing'
      BY <2>1, <2>2
    <2> QED
      BY <2>1, <2>4, <2>5 DEF Progress
  <1>10. ASSUME NEW p \in Proc, Erase(p) \/ Finish(p)
         PROVE  Progress'
    <2>1. /\ phase' = phase /\ pc[p] \in Commits
          /\ pc' = [pc EXCEPT ![p] = "finish"] \/ pc' = [pc EXCEPT ![p] = "idle"]
      BY <1>10 DEF Erase, Finish, Goto, Commits
    <2>2. Up /\ \A q \in Proc \ {p} : pc[q] \notin Commits
      BY <2>1, Committer
    <2> QED
      BY <1>1, <1>3, <2>1, <2>2 DEF Commits, Installing, Up
  <1>11. ASSUME NEW b \in Block, Recycle(b)
         PROVE  Progress'
    <2>1. /\ cache' = [cache EXCEPT ![b] = NotCached] /\ refcnt[b] = 0
          /\ UNCHANGED <<logged, home, lh, tail, pc, phase>>
      BY <1>11 DEF Recycle, storeVars, logVars, opVars
    <2>2. (Writing' <=> Writing) /\ (Copying' <=> Copying)
      BY <2>1 DEF Installing
    <2>3. \A i \in 1..Len(lh) : cache'[lh[i]] = NotCached \/ cache'[lh[i]] = cache[lh[i]]
      BY <1>1, <2>1
    <2>4. ASSUME Writing, NEW i \in 1..Len(lh)
          PROVE  cache'[lh[i]] = cache[lh[i]]
      <3>1. lh[i] \in Block /\ Waits(lh[i])
        BY <2>4, LogData
      <3>2. lh[i] # b
        BY <2>1, <3>1, KeptInCache
      <3> QED
        BY <1>1, <2>1, <3>1, <3>2
    <2> QED
      BY <1>2, <2>1, <2>2, <2>3, <2>4 DEF Progress
  <1>12. ASSUME Crash
         PROVE  Progress'
    <2>1. phase' = "readhead" /\ \A p \in Proc : pc'[p] = "idle"
      BY <1>12 DEF Crash
    <2> QED
      BY <1>3, <2>1 DEF Installing
  <1>13. ASSUME RecoverHead
         PROVE  Progress'
    <2>1. /\ UNCHANGED <<cache, pc, tail>> /\ phase = "readhead" /\ lh' = head
          /\ \A b \in Block : cache[b] = NotCached
      BY <1>13 DEF RecoverHead, cacheVars, opVars, Data, CacheGood
    <2>2. tail = 1 /\ ~Writing
      BY <2>1, Recovery DEF Up, Control, Headers
    <2>3. \A i \in 1..Len(head) : head[i] \in Block
      BY DEF Control, CtlTypes
    <2> QED
      BY <2>1, <2>2, <2>3 DEF Progress
  <1>14. ASSUME RecoverErase
         PROVE  Progress'
    <2>1. phase = "install" /\ phase' = "up" /\ pc' = pc
      BY <1>14 DEF RecoverErase, opVars
    <2>2. \A p \in Proc : pc[p] = "idle"
      BY <2>1, Recovery DEF Up
    <2> QED
      BY <1>3, <2>1, <2>2 DEF Installing
  <1> QED
    BY <1>4, <1>5, <1>6, <1>7, <1>8, <1>9, <1>10, <1>11, <1>12, <1>13, <1>14
       DEF Next, Step, Recover

\* The third layer is inductive.
LEMMA DataStep ==
  ASSUME Control, Pins, Data, Next
  PROVE  Data'
  BY PinsStep, DataTypesStep, DiskGoodStep, CacheGoodStep, ProgressStep DEF Data

-----------------------------------------------------------------------------
(* The invariant, and what follows from it.                                 *)

\* Boot on the file system that mkfs has written.
LEMMA LogInit == Init => LogInv
  <1> SUFFICES ASSUME Init PROVE LogInv
    OBVIOUS
  <1>1. /\ head = <<>> /\ lh = <<>> /\ tail = 1 /\ phase = "readhead" /\ outstanding = 0
        /\ committing = FALSE /\ asleep = {}
        /\ pc = [p \in Proc |-> "idle"] /\ buf = [p \in Proc |-> NoBlock]
        /\ wrote = [p \in Proc |-> {}]
        /\ home = [b \in Block |-> Blank] /\ logged = [i \in Index |-> Torn]
        /\ cache = [b \in Block |-> NotCached] /\ refcnt = [b \in Block |-> 0]
    BY DEF Init
  <1>2. <<>> \in Seq(Block) /\ Len(<<>>) = 0 /\ 1..0 = {} /\ 0 <= LOGBLOCKS
    BY LogAssumption
  <1>3. InOp = {} /\ ~Installing /\ ~Up
    BY <1>1 DEF InOp, Installing, Up
  <1>4. CtlTypes
    <2>1. /\ pc \in [Proc -> {"idle", "begin", "op"} \cup Commits]
          /\ buf \in [Proc -> Block \cup {NoBlock}] /\ wrote \in [Proc -> SUBSET Block]
      BY <1>1
    <2>2. /\ head \in Seq(Block) /\ Len(head) <= LOGBLOCKS /\ lh \in Seq(Block)
      BY <1>1, <1>2
    <2>3. committing \in BOOLEAN
      BY <1>1
    <2>4. outstanding \in Nat /\ asleep \in SUBSET Proc
          /\ phase \in {"up", "readhead", "install"} /\ tail \in Nat \ {0}
      BY <1>1
    <2> QED
      BY <2>1, <2>2, <2>3, <2>4 DEF CtlTypes
  <1>5. Alone
    BY <1>1, <1>3, FS_EmptySet DEF Alone, Commits
  <1>6. Calls
    <2>1. ASSUME NEW p \in Proc
          PROVE  CallOf(p)
      <3>1. buf[p] = NoBlock /\ wrote[p] = {} /\ wrote[p] \cup ({buf[p]} \ {NoBlock}) = {}
        BY <1>1
      <3> QED
        BY <3>1, FS_EmptySet, LogAssumption DEF CallOf
    <2> QED
      BY <1>1, <2>1 DEF Calls
  <1>7. Headers
    BY <1>1, <1>2, <1>3, LogAssumption DEF Headers
  <1>8. LogHasRoom
    <2>1. Unwritten = {}
      BY <1>3 DEF Unwritten
    <2>2. Cardinality(Unwritten) = 0
      BY <2>1, FS_EmptySet
    <2> QED
      BY <1>1, <1>2, <2>2 DEF LogHasRoom
  <1>9. Pins
    <2>1. \A b \in Block : ~Locked(b) /\ ~Waits(b)
      BY <1>1, <1>3, NamesAssumption DEF Locked, Waits
    <2> QED
      BY <1>1, <2>1 DEF Pins
  <1>10. Data
    <2>1. DataTypes
      BY <1>1, NamesAssumption DEF DataTypes
    <2>2. DiskGood
      BY <1>1, <1>2, NamesAssumption DEF DiskGood
    <2>3. CacheGood
      BY <1>1 DEF CacheGood
    <2>4. Progress
      BY <1>1, <1>3 DEF Progress
    <2> QED
      BY <2>1, <2>2, <2>3, <2>4 DEF Data
  <1> QED
    BY <1>4, <1>5, <1>6, <1>7, <1>8, <1>9, <1>10 DEF LogInv, Control

\* A step that changes nothing.
LEMMA LogStutter ==
  ASSUME LogInv, UNCHANGED vars
  PROVE  LogInv'
  <1>1. UNCHANGED <<head, logged, home, cache, refcnt, lh, outstanding, committing, asleep,
                    pc, buf, wrote, phase, tail>>
    BY DEF vars, storeVars, cacheVars, logVars, opVars
  <1>2. CtlTypes'
    BY <1>1 DEF LogInv, Control, CtlTypes
  <1>3. Alone'
    BY <1>1 DEF LogInv, Control, Alone, InOp
  <1>4. Calls'
    BY <1>1 DEF LogInv, Control, Calls, CallOf, InLog
  <1>5. Headers'
    BY <1>1 DEF LogInv, Control, Headers, InOp, Installing, Up
  <1>6. LogHasRoom'
    BY <1>1 DEF LogInv, Control, LogHasRoom, Unwritten, InOp
  <1>7. Pins'
    BY <1>1 DEF LogInv, Pins, Locked, Waits, Up, Installing
  <1>8. Data'
    BY <1>1 DEF LogInv, Data, DataTypes, DiskGood, CacheGood, Progress, InLog, Locked, Installing
  <1> QED
    BY <1>2, <1>3, <1>4, <1>5, <1>6, <1>7, <1>8 DEF LogInv, Control

\* All three layers hold in every reachable state.
LEMMA LogInvariant == Spec => []LogInv
  <1>1. ASSUME LogInv, [Next]_vars
        PROVE  LogInv'
    BY <1>1, ControlStep, PinsStep, DataStep, LogStutter DEF LogInv
  <1> QED
    BY <1>1, LogInit, PTL DEF Spec

\* begin_op's reservation keeps log_write's "too big a transaction" out of
\* reach: what is in the log and what the running calls may still write fit.
THEOREM LogNeverOverflows == Spec => []LogHasRoom
  <1>1. LogInv => LogHasRoom
    BY DEF LogInv, Control
  <1> QED
    BY <1>1, LogInvariant, PTL

\* bpin and bunpin, bread and brelse balance on every path: a count is never
\* below zero, and a block that waits in the log is never recycled.
THEOREM PinsBalanced == Spec => []PinsBalance
  <1>1. LogInv => PinsBalance
    <2> SUFFICES ASSUME LogInv, NEW b \in Block
                 PROVE  refcnt[b] = Cardinality({p \in Proc : buf[p] = b})
                                      + (IF b \in Pinned THEN 1 ELSE 0)
      BY DEF PinsBalance
    <2>1. Cardinality({p \in Proc : buf[p] = b}) = IF Locked(b) THEN 1 ELSE 0
      <3>1. CASE Locked(b)
        <4>1. PICK p \in Proc : buf[p] = b
          BY <3>1 DEF Locked
        <4>2. b # NoBlock
          BY NamesAssumption
        <4>3. {q \in Proc : buf[q] = b} = {p}
          BY <4>1, <4>2 DEF LogInv, Control, Calls
        <4> QED
          BY <3>1, <4>3, FS_Singleton
      <3>2. CASE ~Locked(b)
        <4>1. {q \in Proc : buf[q] = b} = {}
          BY <3>2 DEF Locked
        <4> QED
          BY <3>2, <4>1, FS_EmptySet
      <3> QED
        BY <3>1, <3>2
    <2>2. b \in Pinned <=> Waits(b)
      <3>1. lh \in Seq(Block) /\ Len(lh) \in Nat /\ tail \in Nat \ {0}
        BY DEF LogInv, Control, CtlTypes
      <3>2. CASE Installing
        <4>1. tail..Len(lh) = {i \in 1..Len(lh) : tail <= i}
          BY <3>1
        <4> QED
          BY <3>2, <4>1 DEF Pinned, Waits
      <3>3. CASE ~Installing
        BY <3>3 DEF Pinned, Waits
      <3> QED
        BY <3>2, <3>3
    <2> QED
      BY <2>1, <2>2 DEF LogInv, Pins
  <1> QED
    BY <1>1, LogInvariant, PTL

\* When no call runs and no commit is under way, nothing is left in the log
\* and what is cached is what is on the disk.
THEOREM NothingLeftBehind == Spec => []IdleIsDurable
  <1>1. LogInv => IdleIsDurable
    <2> SUFFICES ASSUME LogInv, Up, outstanding = 0, ~committing
                 PROVE  head = <<>> /\ lh = <<>> /\ \A b \in Block : Read(b) = home[b]
      BY DEF IdleIsDurable
    <2>1. InOp = {}
      <3>1. Cardinality(InOp) = 0
        BY DEF LogInv, Control, Alone
      <3> QED
        BY <3>1, Running
    <2>2. ~Installing /\ lh = <<>> /\ head = <<>>
      <3>1. ~Installing
        BY DEF LogInv, Control, Alone, Installing, Commits
      <3> QED
        BY <2>1, <3>1 DEF LogInv, Control, Headers
    <2>3. ASSUME NEW b \in Block
          PROVE  Read(b) = home[b]
      <3>1. ~Locked(b)
        BY <2>1, NamesAssumption DEF Locked, LogInv, Control, Calls, CallOf, InOp
      <3>2. 1..Len(lh) = {}
        BY <2>2
      <3> QED
        BY <3>1, <3>2 DEF Read, LogInv, Data, CacheGood, InLog
    <2> QED
      BY <2>2, <2>3
  <1> QED
    BY <1>1, LogInvariant, PTL

\* The log's data structures hold what they are declared to hold.
THEOREM LogTypes == Spec => []TypeOK
  <1>1. LogInv => TypeOK
    <2> SUFFICES ASSUME LogInv PROVE TypeOK
      OBVIOUS
    <2>1. CtlTypes /\ DataTypes /\ Len(lh) <= LOGBLOCKS /\ tail <= LOGBLOCKS + 1
      BY LogFits DEF LogInv, Control, Data, Headers
    <2>2. refcnt \in [Block -> Nat]
      <3>1. \A b \in Block : refcnt[b] \in Nat
        BY DEF LogInv, Pins
      <3>2. refcnt \in [Block -> Int]
        BY DEF LogInv, Pins
      <3> QED
        BY <3>1, <3>2
    <2>3. tail \in 1..(LOGBLOCKS + 1)
      BY <2>1, LogAssumption DEF CtlTypes
    <2>4. cache \in [Block -> Content \cup {Torn, NotCached}]
      BY <2>1 DEF DataTypes
    <2> QED
      BY <2>1, <2>2, <2>3, <2>4 DEF TypeOK, CtlTypes, DataTypes, Commits
  <1> QED
    BY <1>1, LogInvariant, PTL

-----------------------------------------------------------------------------
(* The log implements the atomic disk.                                      *)

\* What recovery finds: a header lists a block once.
LEMMA WhatTheHeaderSays ==
  ASSUME NEW h \in Seq(Block), \A i, j \in 1..Len(h) : h[i] = h[j] => i = j,
         NEW i \in 1..Len(h)
  PROVE  Contains(h, h[i]) /\ (CHOOSE j \in DOMAIN h : h[j] = h[i]) = i
  <1>1. DOMAIN h = 1..Len(h)
    OBVIOUS
  <1> QED
    BY <1>1 DEF Contains

\* What a power failure would leave of a block.
LEMMA DurableIs ==
  ASSUME Control, NEW b \in Block
  PROVE  /\ \A i \in 1..Len(head) : head[i] = b => Durable(b) = logged[i]
         /\ ~(\E i \in 1..Len(head) : head[i] = b) => Durable(b) = home[b]
  <1>1. /\ head \in Seq(Block)
        /\ \A i, j \in 1..Len(head) : head[i] = head[j] => i = j
    BY DEF Control, CtlTypes, Headers
  <1> QED
    BY <1>1, WhatTheHeaderSays DEF Durable, Contains

\* The same, after a step.
LEMMA DurableWillBe ==
  ASSUME Control', NEW b \in Block
  PROVE  /\ \A i \in 1..Len(head') : head'[i] = b => Durable(b)' = logged'[i]
         /\ ~(\E i \in 1..Len(head') : head'[i] = b) => Durable(b)' = home'[b]
  <1>1. /\ head' \in Seq(Block)
        /\ \A i, j \in 1..Len(head') : head'[i] = head'[j] => i = j
    BY DEF Control, CtlTypes, Headers
  <1> QED
    BY <1>1, WhatTheHeaderSays DEF Durable, Contains

\* While blocks are installed the disk and the cache agree.
LEMMA CopiesAgree ==
  ASSUME LogInv, phase = "install" \/ Installing, NEW b \in Block
  PROVE  /\ \A i \in 1..Len(lh) : lh[i] = b => Durable(b) = logged[i] /\ Current(b) = logged[i]
         /\ ~InLog(b) => Durable(b) = home[b] /\ Current(b) = home[b]
  <1>1. head = lh /\ Control /\ Pins /\ Data
    BY InstallData DEF LogInv
  <1>2. /\ \A i \in 1..Len(lh) : lh[i] = b => Durable(b) = logged[i]
        /\ ~InLog(b) => Durable(b) = home[b]
    BY <1>1, DurableIs DEF InLog
  <1>3. CASE ~Up
    BY <1>2, <1>3 DEF Current
  <1>4. CASE Up
    <2>1. Installing /\ Current(b) = Read(b)
      BY <1>4 DEF Up, Current
    <2>2. \A p \in Proc : buf[p] = NoBlock
      BY <1>1, <2>1, Committer DEF Installing, Commits
    <2>3. ~Locked(b)
      BY <2>2, NamesAssumption DEF Locked
    <2>4. ASSUME NEW i \in 1..Len(lh), lh[i] = b
          PROVE  Read(b) = logged[i]
      <3>1. CASE i < tail
        <4>1. home[b] = logged[i] /\ (cache[b] # NotCached => cache[b] = logged[i])
          BY <1>1, <2>4, <3>1, InstallData
        <4> QED
          BY <4>1 DEF Read
      <3>2. CASE tail <= i
        <4>1. cache[b] # NotCached
          BY <1>1, <1>4, <2>4, <3>2, KeptInCache DEF Waits
        <4>2. cache[b] = logged[i]
          BY <1>1, <2>4, <4>1, InstallData
        <4> QED
          BY <4>1, <4>2 DEF Read
      <3> QED
        BY <3>1, <3>2, <1>1 DEF Control, CtlTypes
    <2>5. ~InLog(b) => Read(b) = home[b]
      BY <1>1, <2>3 DEF Read, Data, CacheGood
    <2> QED
      BY <1>2, <2>1, <2>4, <2>5
  <1> QED
    BY <1>3, <1>4

\* Only write_head changes what a power failure would leave; it makes it what
\* the calls have read.
LEMMA DurableStep ==
  ASSUME LogInv, Next, NEW b \in Block
  PROVE  /\ Durable(b)' = Durable(b) \/ \E p \in Proc : WriteHead(p)
         /\ \A p \in Proc : WriteHead(p) => Durable(b)' = Current(b)
  <1>1. Control /\ Pins /\ Data /\ Control'
    BY ControlStep DEF LogInv
  <1>2. /\ head \in Seq(Block) /\ lh \in Seq(Block) /\ Len(lh) \in Nat /\ tail \in Nat \ {0}
        /\ home \in [Block -> Content \cup {Torn}] /\ logged \in [Index -> Content \cup {Torn}]
    BY <1>1 DEF Control, CtlTypes, Data, DataTypes
  <1>3. ASSUME UNCHANGED <<head, logged, home>>
        PROVE  Durable(b)' = Durable(b)
    BY <1>3 DEF Durable
  <1>4. ASSUME NEW p \in Proc, WriteLog(p)
        PROVE  Durable(b)' = Durable(b)
    <2>1. head = <<>> /\ UNCHANGED <<head, home>>
      BY <1>1, <1>4, LogData DEF WriteLog
    <2>2. 1..Len(head) = {} /\ 1..Len(head') = {}
      BY <2>1
    <2> QED
      BY <1>1, <2>1, <2>2, DurableIs, DurableWillBe
  <1>5. ASSUME NEW p \in Proc, WriteHead(p)
        PROVE  Durable(b)' = Current(b)
    <2>1. /\ head' = lh /\ UNCHANGED <<logged, home>> /\ pc[p] = "writelog" /\ tail > Len(lh)
      BY <1>5 DEF WriteHead
    <2>2. /\ Up /\ head = <<>> /\ ~Installing
          /\ \A i \in 1..Len(lh) : Read(lh[i]) = logged[i]
      BY <1>1, <1>2, <2>1, LogData
    <2>3. Current(b) = Read(b)
      BY <2>2 DEF Current
    <2>4. CASE InLog(b)
      BY <1>1, <2>1, <2>2, <2>3, <2>4, DurableWillBe DEF InLog
    <2>5. CASE ~InLog(b)
      <3>1. \A q \in Proc : buf[q] = NoBlock
        BY <1>1, <2>1, Committer DEF Commits
      <3>2. ~Locked(b)
        BY <3>1, NamesAssumption DEF Locked
      <3>3. Read(b) = home[b]
        BY <1>1, <2>5, <3>2 DEF Read, Data, CacheGood
      <3> QED
        BY <1>1, <2>1, <2>3, <2>5, <3>3, DurableWillBe DEF InLog
    <2> QED
      BY <2>4, <2>5
  <1>6. ASSUME (\E p \in Proc : Install(p)) \/ RecoverInstall
        PROVE  Durable(b)' = Durable(b)
    <2>1. /\ home' = [home EXCEPT ![lh[tail]] = logged[tail]] /\ UNCHANGED <<logged, head>>
          /\ tail \in 1..Len(lh)
          /\ phase = "install" \/ Installing
      BY <1>2, <1>6 DEF Install, RecoverInstall, Installing, CopyHome
    <2>2. head = lh
      BY <1>1, <2>1, InstallData
    <2>3. CASE b = lh[tail]
      BY <1>1, <2>1, <2>2, <2>3, DurableIs, DurableWillBe
    <2>4. CASE b # lh[tail]
      <3>1. home'[b] = home[b]
        BY <1>2, <2>1, <2>4
      <3> QED
        BY <2>1, <3>1 DEF Durable
    <2> QED
      BY <2>3, <2>4
  <1>7. ASSUME (\E p \in Proc : Erase(p)) \/ RecoverErase
        PROVE  Durable(b)' = Durable(b)
    <2>1. /\ UNCHANGED <<logged, home>> /\ head' = <<>> /\ tail > Len(lh)
          /\ phase = "install" \/ Installing
      BY <1>7 DEF Erase, RecoverErase, Installing
    <2>2. 1..Len(head') = {}
      BY <2>1
    <2>3. Durable(b)' = home[b]
      BY <1>1, <2>1, <2>2, DurableWillBe
    <2>4. CASE InLog(b)
      <3>1. PICK i \in 1..Len(lh) : lh[i] = b
        BY <2>4 DEF InLog
      <3>2. i < tail
        BY <1>2, <2>1
      <3>3. home[b] = logged[i]
        BY <1>1, <2>1, <3>1, <3>2, InstallData
      <3> QED
        BY <2>1, <2>3, <3>1, <3>3, CopiesAgree
    <2>5. CASE ~InLog(b)
      BY <2>1, <2>3, <2>5, CopiesAgree
    <2> QED
      BY <2>4, <2>5
  <1>8. ASSUME Crash
        PROVE  Durable(b)' = Durable(b)
    <2>1. Tear /\ head' = head
      BY <1>8 DEF Crash
    <2>2. CASE UNCHANGED <<logged, home>>
      BY <1>3, <2>1, <2>2
    <2>3. ASSUME NEW p \in Proc, pc[p] = "writelog", home' = home
          PROVE  Durable(b)' = Durable(b)
      <3>1. head = <<>>
        BY <1>1, <2>3, LogData
      <3>2. 1..Len(head) = {} /\ 1..Len(head') = {}
        BY <2>1, <3>1
      <3> QED
        BY <1>1, <2>3, <3>2, DurableIs, DurableWillBe
    <2>4. ASSUME phase = "install" \/ Installing, logged' = logged, tail <= Len(lh),
                 home' = [home EXCEPT ![lh[tail]] = Torn]
          PROVE  Durable(b)' = Durable(b)
      <3>1. head = lh /\ tail \in 1..Len(lh)
        BY <1>1, <1>2, <2>4, InstallData
      <3>2. CASE b = lh[tail]
        BY <1>1, <2>1, <2>4, <3>1, <3>2, DurableIs, DurableWillBe
      <3>3. CASE b # lh[tail]
        <4>1. home'[b] = home[b]
          BY <1>2, <2>4, <3>3
        <4> QED
          BY <2>1, <2>4, <4>1 DEF Durable
      <3> QED
        BY <3>2, <3>3
    <2> QED
      BY <2>1, <2>2, <2>3, <2>4 DEF Tear, Installing
  <1>9. ASSUME \/ \E p \in Proc : \/ Call(p) \/ BeginOp(p) \/ LogWrite(p) \/ EndOp(p) \/ Finish(p)
                                  \/ \E c \in Block, x \in Content : Update(p, c, x)
               \/ \E c \in Block : Recycle(c)
               \/ RecoverHead
        PROVE  UNCHANGED <<head, logged, home>>
    BY <1>9 DEF Call, BeginOp, LogWrite, EndOp, Finish, Update, Recycle, RecoverHead, storeVars
  <1> QED
    BY <1>3, <1>4, <1>5, <1>6, <1>7, <1>8, <1>9 DEF Next, Step, Recover

\* What the calls read changes when a call changes it, and in a power failure.
LEMMA CurrentStep ==
  ASSUME LogInv, Next, NEW b \in Block
  PROVE  \/ Current(b)' = Current(b)
         \/ \E p \in Proc, x \in Content : Update(p, b, x) /\ Current(b)' = x
         \/ Crash /\ Current(b)' = Durable(b)'
  <1>1. Control /\ Pins /\ Data /\ Control'
    BY ControlStep DEF LogInv
  <1>2. /\ home \in [Block -> Content \cup {Torn}] /\ cache \in [Block -> Content \cup {NotCached}]
        /\ lh \in Seq(Block) /\ tail \in Nat \ {0} /\ NotCached \notin Content \cup {Torn}
    BY <1>1, NamesAssumption DEF Control, CtlTypes, Data, DataTypes
  <1>3. ASSUME UNCHANGED <<home, cache, phase>>, Up
        PROVE  Current(b)' = Current(b)
    BY <1>3 DEF Current, Read, Up
  <1>4. ASSUME NEW p \in Proc,
               \/ Call(p) \/ BeginOp(p) \/ LogWrite(p) \/ EndOp(p) \/ WriteLog(p)
               \/ WriteHead(p) \/ Erase(p) \/ Finish(p)
        PROVE  Current(b)' = Current(b)
    <2>1. UNCHANGED <<home, cache, phase>>
      BY <1>4 DEF Call, BeginOp, LogWrite, EndOp, WriteLog, WriteHead, Erase, Finish,
                  storeVars, cacheVars
    <2>2. Up
      <3>1. Up \/ pc[p] # "idle"
        BY <1>4 DEF Call, BeginOp, LogWrite, EndOp, WriteLog, WriteHead, Erase, Finish
      <3> QED
        BY <1>1, <3>1, Recovery
    <2> QED
      BY <1>3, <2>1, <2>2
  <1>5. ASSUME NEW p \in Proc, Install(p)
        PROVE  Current(b)' = Current(b)
    <2>1. /\ CopyHome(lh[tail], logged[tail]) /\ phase' = phase /\ pc[p] = "install"
          /\ tail \in 1..Len(lh)
      BY <1>2, <1>5 DEF Install
    <2>2. Installing /\ Up
      BY <1>1, <2>1, Committer DEF Installing, Commits
    <2>3. CASE b = lh[tail]
      <3>1. logged[tail] \in Content
        BY <1>1, <2>1, <2>2, InstallData
      <3>2. cache'[b] = logged[tail]
        BY <1>2, <2>1, <2>3 DEF CopyHome
      <3>3. Current(b)' = logged[tail]
        BY <1>2, <2>1, <2>2, <3>1, <3>2 DEF Current, Read, Up
      <3> QED
        BY <2>1, <2>2, <2>3, <3>3, CopiesAgree
    <2>4. CASE b # lh[tail]
      <3>1. cache'[b] = cache[b] /\ home'[b] = home[b]
        BY <1>2, <2>1, <2>4 DEF CopyHome
      <3> QED
        BY <2>1, <2>2, <3>1 DEF Current, Read, Up
    <2> QED
      BY <2>3, <2>4
  <1>6. ASSUME NEW p \in Proc, NEW c \in Block, NEW x \in Content, Update(p, c, x)
        PROVE  \/ Current(b)' = Current(b)
               \/ b = c /\ Current(b)' = x
    <2>1. /\ cache' = [cache EXCEPT ![c] = x] /\ UNCHANGED <<home, phase>> /\ pc[p] = "op"
      BY <1>6 DEF Update, storeVars
    <2>2. Up
      BY <1>1, <2>1, CallRuns
    <2>3. CASE b = c
      <3>1. cache'[b] = x
        BY <1>2, <2>1, <2>3
      <3> QED
        BY <1>2, <2>1, <2>2, <2>3, <3>1 DEF Current, Read, Up
    <2>4. CASE b # c
      <3>1. cache'[b] = cache[b]
        BY <1>2, <2>1, <2>4
      <3> QED
        BY <2>1, <2>2, <3>1 DEF Current, Read, Up
    <2> QED
      BY <2>3, <2>4
  <1>7. ASSUME NEW c \in Block, Recycle(c)
        PROVE  Current(b)' = Current(b)
    <2>1. /\ cache' = [cache EXCEPT ![c] = NotCached] /\ UNCHANGED <<home, phase>>
          /\ Up /\ cache[c] # NotCached /\ refcnt[c] = 0
      BY <1>7 DEF Recycle, storeVars
    <2>2. CASE b = c
      <3>1. cache[b] = home[b]
        BY <1>1, <2>1, <2>2, KeptInCache, Clean
      <3>2. cache'[b] = NotCached
        BY <1>2, <2>1, <2>2
      <3> QED
        BY <2>1, <3>1, <3>2 DEF Current, Read, Up
    <2>3. CASE b # c
      <3>1. cache'[b] = cache[b]
        BY <1>2, <2>1, <2>3
      <3> QED
        BY <2>1, <3>1 DEF Current, Read, Up
    <2> QED
      BY <2>2, <2>3
  <1>8. ASSUME Crash
        PROVE  Current(b)' = Durable(b)'
    BY <1>8 DEF Crash, Current, Up
  <1>9. ASSUME Recover
        PROVE  Current(b)' = Current(b)
    <2>1. ~Up /\ Current(b) = Durable(b)
      BY <1>9 DEF Recover, RecoverHead, RecoverInstall, RecoverErase, Up, Current
    <2>2. Durable(b)' = Durable(b)
      <3>1. ASSUME NEW p \in Proc PROVE ~WriteHead(p)
        BY <1>1, <2>1, Recovery DEF WriteHead
      <3> QED
        BY <3>1, DurableStep
    <2>3. CASE RecoverHead \/ RecoverInstall
      <3>1. ~Up'
        BY <2>3 DEF RecoverHead, RecoverInstall, Up
      <3> QED
        BY <2>1, <2>2, <3>1 DEF Current
    <2>4. CASE RecoverErase
      <3>1. /\ UNCHANGED <<home, cache>> /\ phase = "install" /\ phase' = "up" /\ tail > Len(lh)
            /\ head' = <<>>
        BY <2>4 DEF RecoverErase, cacheVars
      <3>2. Durable(b)' = home[b]
        <4>1. 1..Len(head') = {}
          BY <3>1
        <4> QED
          BY <1>1, <3>1, <4>1, DurableWillBe
      <3>3. cache[b] = NotCached \/ cache[b] = home[b]
        <4>1. CASE InLog(b)
          <5>1. PICK i \in 1..Len(lh) : lh[i] = b
            BY <4>1 DEF InLog
          <5>2. i < tail
            BY <1>2, <3>1
          <5> QED
            BY <1>1, <3>1, <5>1, <5>2, InstallData
        <4>2. CASE ~InLog(b)
          <5>1. ~Locked(b)
            BY <1>1, <2>1, Recovery, NamesAssumption DEF Locked
          <5> QED
            BY <1>1, <4>2, <5>1 DEF Data, CacheGood
        <4> QED
          BY <4>1, <4>2
      <3>4. Current(b)' = home[b]
        BY <3>1, <3>3 DEF Current, Read, Up
      <3> QED
        BY <2>1, <2>2, <3>2, <3>4
    <2> QED
      BY <1>9, <2>3, <2>4 DEF Recover
  <1> QED
    BY <1>4, <1>5, <1>6, <1>7, <1>8, <1>9 DEF Next, Step

\* Every step is one of the atomic disk, or changes nothing there.
LEMMA Simulation ==
  ASSUME LogInv, Next
  PROVE  [D!DiskNext]_(D!diskVars)
  <1> DEFINE dur == [b \in Block |-> Durable(b)]
             cur == [b \in Block |-> Current(b)]
  <1>1. Control /\ pc \in [Proc -> {"idle", "begin", "op", "writelog", "install", "finish"}]
    BY DEF LogInv, Control, CtlTypes, Commits
  <1>2. CASE Crash
    <2>1. ASSUME NEW p \in Proc, WriteHead(p)
          PROVE  FALSE
      <3>1. pc'[p] = "idle" /\ pc' = [pc EXCEPT ![p] = "install"]
        BY <1>2, <2>1 DEF Crash, WriteHead, Goto
      <3> QED
        BY <1>1, <3>1
    <2>2. \A b \in Block : Durable(b)' = Durable(b)
      BY <2>1, DurableStep
    <2>3. \A b \in Block : Current(b)' = Durable(b)'
      BY <1>2 DEF Crash, Current, Up
    <2>4. InOp' = {}
      BY <1>2 DEF Crash, InOp
    <2>5. dur' = dur /\ cur' = dur
      BY <2>2, <2>3
    <2> QED
      BY <2>4, <2>5 DEF D!DiskNext, D!Lose
  <1>3. CASE \E p \in Proc : WriteHead(p)
    <2>1. PICK p \in Proc : WriteHead(p)
      BY <1>3
    <2>2. pc[p] = "writelog" /\ pc' = [pc EXCEPT ![p] = "install"]
          /\ UNCHANGED <<home, cache, phase>>
      BY <2>1 DEF WriteHead, Goto, cacheVars
    <2>3. InOp = {} /\ Up
      BY <1>1, <2>2, Committer DEF Control, Alone, Commits
    <2>4. InOp' = InOp
      BY <1>1, <2>2, <2>3 DEF InOp
    <2>5. \A b \in Block : Durable(b)' = Current(b)
      BY <2>1, DurableStep
    <2>6. \A b \in Block : Current(b)' = Current(b)
      BY <2>2, <2>3 DEF Current, Read, Up
    <2>7. dur' = cur /\ cur' = cur
      BY <2>5, <2>6
    <2> QED
      BY <2>3, <2>4, <2>7 DEF D!DiskNext, D!Settle
  <1>4. CASE ~(\E p \in Proc : WriteHead(p)) /\ ~Crash
    <2>1. dur' = dur
      BY <1>4, DurableStep
    <2>2. CASE \E p \in Proc, b \in Block, x \in Content : Update(p, b, x)
      <3>1. PICK p \in Proc, b \in Block, x \in Content : Update(p, b, x)
        BY <2>2
      <3>2. /\ pc' = pc /\ cache' = [cache EXCEPT ![b] = x] /\ UNCHANGED <<home, phase>>
            /\ pc[p] = "op" /\ cache \in [Block -> Content \cup {NotCached}]
            /\ NotCached \notin Content
        BY <3>1, NamesAssumption DEF Update, storeVars, LogInv, Data, DataTypes
      <3>3. Up
        BY <1>1, <3>2, CallRuns
      <3>4. InOp' = InOp /\ p \in InOp
        BY <3>2 DEF InOp
      <3>5. cache'[b] = x /\ \A c \in Block : c # b => cache'[c] = cache[c]
        BY <3>2
      <3>6. Current(b)' = x /\ \A c \in Block : c # b => Current(c)' = Current(c)
        BY <3>2, <3>3, <3>5 DEF Current, Read, Up
      <3>7. cur' = [cur EXCEPT ![b] = x]
        BY <3>6
      <3>8. D!Modify(p, b, x)
        BY <2>1, <3>4, <3>7 DEF D!Modify
      <3> QED
        BY <3>8 DEF D!DiskNext
    <2>3. CASE ~(\E p \in Proc, b \in Block, x \in Content : Update(p, b, x))
      <3>1. cur' = cur
        BY <1>4, <2>3, CurrentStep
      <3>2. CASE InOp' = InOp
        BY <2>1, <3>1, <3>2 DEF D!diskVars
      <3>3. ASSUME NEW p \in Proc, p \notin InOp, InOp' = InOp \cup {p}
            PROVE  D!DiskNext
        BY <2>1, <3>1, <3>3 DEF D!DiskNext, D!Enter
      <3>4. ASSUME NEW p \in Proc, p \in InOp, InOp' = InOp \ {p}
            PROVE  D!DiskNext
        BY <2>1, <3>1, <3>4 DEF D!DiskNext, D!Leave
      <3> QED
        BY <1>1, <1>4, <3>2, <3>3, <3>4, RunningStep DEF Control
    <2> QED
      BY <2>2, <2>3
  <1> QED
    BY <1>2, <1>3, <1>4

\* Every file system call that ended before the last commit is on the disk
\* whole, and none of the others is there at all, whenever the power fails.
THEOREM LogIsAtomic == Spec => ImplementsAtomicDisk
  <1>1. Init => D!DiskInit
    <2> SUFFICES ASSUME Init PROVE D!DiskInit
      OBVIOUS
    <2>1. /\ head = <<>> /\ phase = "readhead" /\ home = [b \in Block |-> Blank]
          /\ \A p \in Proc : pc[p] = "idle"
      BY DEF Init
    <2>2. Control /\ 1..Len(head) = {}
      BY <2>1, LogInit DEF LogInv
    <2>3. \A b \in Block : Durable(b) = Blank /\ Current(b) = Durable(b)
      BY <2>1, <2>2, DurableIs DEF Current, Up
    <2>4. InOp = {}
      BY <2>1 DEF InOp
    <2> QED
      BY <2>3, <2>4, NamesAssumption DEF D!DiskInit
  <1>2. ASSUME LogInv, [Next]_vars
        PROVE  [D!DiskNext]_(D!diskVars)
    <2>1. CASE Next
      BY <1>2, <2>1, Simulation
    <2>2. CASE UNCHANGED vars
      <3>1. UNCHANGED <<head, logged, home, cache, phase, pc>>
        BY <2>2 DEF vars, storeVars, cacheVars, opVars
      <3> QED
        BY <3>1 DEF D!diskVars, Durable, Current, Read, Up, InOp
    <2> QED
      BY <1>2, <2>1, <2>2
  <1> QED
    BY <1>1, <1>2, LogInvariant, PTL DEF Spec, ImplementsAtomicDisk, D!DiskSpec
=============================================================================
