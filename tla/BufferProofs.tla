---------------------------- MODULE BufferProofs ----------------------------
(***************************************************************************)
(* The buffer cache and the disk driver of BufferCache.tla, for every      *)
(* number of processes, blocks, buffers and descriptors: blocks and        *)
(* buffers, references, locks and requests agree, bget panics only when    *)
(* all buffers are taken, bwrite returns when the disk has the block, and  *)
(* together they are the store of BlockStore.                              *)
(*                                                                         *)
(* The invariant comes in layers, each proved relative to the ones before: *)
(* Control (locks, references, pins), Requests (descriptors and the        *)
(* rings), Data (when a buffer and the disk agree).                        *)
(***************************************************************************)
EXTENDS BufferCache, FiniteSetTheorems, TLAPS

OnDisk == {"alloc", "waitDesc", "waitDisk", "check"}
Inside == OnDisk \cup {"held", "written", "done"}
Asked  == {"waitDisk", "check"}
Places == {"idle", "lock", "waitLock", "unref"} \cup Inside

Types ==
  /\ blockno \in [Buf -> Block \cup {NoBlock}] /\ valid \in [Buf -> BOOLEAN]
  /\ refcnt \in [Buf -> Int] /\ data \in [Buf -> Content]
  /\ lock \in [Buf -> Proc \cup {Nobody}] /\ busy \in [Buf -> BOOLEAN]
  /\ disk \in [Block -> Content]
  /\ pc \in [Proc -> Places] /\ at \in [Proc -> 0..NBUF] /\ write \in [Proc -> BOOLEAN]
  /\ todo \in [Proc -> Seq({"read", "log", "write"} \X Block)]
  /\ pinned \in SUBSET Block /\ IsFiniteSet(pinned)

\* The list is a permutation of the buffers.
Listed ==
  /\ lru \in [Buf -> Buf]
  /\ \A i, j \in Buf : lru[i] = lru[j] => i = j
  /\ \A b \in Buf : \E i \in Buf : lru[i] = b

\* Where a process is, what it has locked and what it may do there.
At ==
  \A p \in Proc :
    /\ pc[p] = "idle" <=> at[p] = 0
    /\ pc[p] # "idle" => todo[p] # <<>> /\ blockno[at[p]] # NoBlock
    /\ pc[p] \in OnDisk => valid[at[p]] = write[p]
    /\ pc[p] \in {"held", "written", "done"} => valid[at[p]]
    /\ pc[p] = "written" => write[p]

Locks == \A p \in Proc, b \in Buf : lock[b] = p <=> at[p] = b /\ pc[p] \in Inside

Users(b) == {p \in Proc : at[p] = b}
Pins(b) == IF blockno[b] \in pinned THEN 1 ELSE 0

Blocks ==
  /\ \A b, c \in Buf : blockno[b] = blockno[c] /\ blockno[b] # NoBlock => b = c
  /\ \A b \in Buf : valid[b] => blockno[b] # NoBlock
  /\ \A n \in pinned : \E b \in Buf : blockno[b] = n
  /\ \A b \in Buf : refcnt[b] = Cardinality(Users(b)) + Pins(b)

\* After a panic in bget every buffer has references.
Full == panicked => Unused = {}

Control == Types /\ Listed /\ At /\ Locks /\ Blocks /\ Full

\* Descriptors are free or in one chain; three make a chain.
Has(p, d) == idx[p] # <<>> /\ \E k \in 1..3 : idx[p][k] = d
Chains ==
  /\ free \in SUBSET Desc
  /\ idx \in [Proc -> {<<>>} \cup [1..3 -> Desc]]
  /\ \A p \in Proc : idx[p] # <<>> <=> pc[p] \in Asked
  /\ \A p \in Proc, d \in free : ~Has(p, d)
  /\ \A d \in Desc \ free : \E p \in Proc : Has(p, d)
  /\ \A p, q \in Proc, d \in Desc : Has(p, d) /\ Has(q, d) => p = q

\* A request in the rings is that of a process that waits for its answer.
Waits(p, d) == idx[p] # <<>> /\ idx[p][1] = d /\ busy[at[p]]
Used(d) == \E i \in 1..Len(used) : used[i] = d
Rings ==
  /\ info \in [Desc -> 0..NBUF]
  /\ avail \in SUBSET (Desc \X BOOLEAN) /\ used \in Seq(Desc)
  /\ \A p \in Proc : idx[p] # <<>> => info[idx[p][1]] = at[p]
  /\ \A r \in avail : \E p \in Proc : Waits(p, r[1]) /\ r[2] = write[p]
  /\ \A d \in Desc : Used(d) => \E p \in Proc : Waits(p, d)
  /\ \A i, j \in 1..Len(used) : used[i] = used[j] => i = j
  /\ \A r \in avail : ~Used(r[1])

Requests == Chains /\ Rings

Same(b) == data[b] = disk[blockno[b]]
Answer(p) == idx[p] # <<>> /\ \A r \in avail : r[1] # idx[p][1]
Dirty(b) ==
  \/ blockno[b] \in pinned
  \/ \E p \in Proc : at[p] = b /\ pc[p] \in OnDisk /\ write[p]

Data ==
  /\ \A b \in Buf : valid[b] /\ ~Dirty(b) => Same(b)
  /\ \A p \in Proc, b \in Buf : at[p] = b /\ (Answer(p) \/ pc[p] = "written") => Same(b)

CacheInv == Control /\ Requests /\ Data

\* A step other than the panic, which changes nothing but panicked.
Running == \/ Device \/ Interrupt
           \/ \E p \in Proc : Kill(p) \/ (ProcStep(p) /\ ~BgetPanic(p))
Rest == <<bufVars, diskVars, procVars, pinned>>
-----------------------------------------------------------------------------
(* Control: types, the list, locks.                                         *)

LEMMA RunsOrRests == ASSUME [Next]_vars PROVE Running \/ UNCHANGED Rest
  <1>1. CASE Next
    BY <1>1 DEF Next, Running, Rest, BgetPanic
  <1>2. CASE UNCHANGED vars
    BY <1>2 DEF vars, Rest
  <1> QED
    BY <1>1, <1>2

\* A process that is in bget for a block has that block in its plan.
LEMMA Planned ==
  ASSUME Types, NEW p \in Proc, todo[p] # <<>>
  PROVE  /\ todo[p][1][1] \in {"read", "log", "write"} /\ todo[p][1][2] \in Block
         /\ Tail(todo[p]) \in Seq({"read", "log", "write"} \X Block)
  <1>1. todo[p] \in Seq({"read", "log", "write"} \X Block)
    BY DEF Types
  <1>2. todo[p][1] \in {"read", "log", "write"} \X Block
    BY <1>1
  <1> QED
    BY <1>1, <1>2

\* A process that is not idle has a buffer, for a block.
LEMMA HasBuffer ==
  ASSUME Types, At, NEW p \in Proc, pc[p] # "idle"
  PROVE  at[p] \in Buf /\ blockno[at[p]] \in Block /\ todo[p] # <<>>
  BY CacheAssumption DEF Types, At, Buf

LEMMA Interrupts ==
  ASSUME Interrupt
  PROVE  /\ UNCHANGED <<blockno, valid, refcnt, data, lock, lru, disk, at, write, idx, todo,
                        pinned, free, info, avail>>
         /\ \/ IntrEntry
            \/ UNCHANGED <<busy, pc, used>>
  BY DEF Interrupt, IntrAck, IntrEntry, IntrEnd, bufVars, diskVars, procVars

LEMMA TypesStep ==
  ASSUME Types, At, Chains, Rings, Running
  PROVE  Types'
  <1> USE DEF Types, Places, Inside, OnDisk
  <1>1. ASSUME NEW p \in Proc, Bget(p) PROVE Types'
    <2> DEFINE n == todo[p][1][2]
    <2>1. n \in Block /\ pc' = [pc EXCEPT ![p] = "lock"]
          /\ UNCHANGED <<data, lock, busy, disk, write, todo, pinned>>
      BY <1>1, Planned DEF Bget, Goto, diskVars
    <2>2. PICK b \in Buf : /\ at' = [at EXCEPT ![p] = b]
                           /\ \/ refcnt' = [refcnt EXCEPT ![b] = @ + 1] /\ UNCHANGED <<blockno, valid>>
                              \/ /\ refcnt' = [refcnt EXCEPT ![b] = 1]
                                 /\ blockno' = [blockno EXCEPT ![b] = n]
                                 /\ valid' = [valid EXCEPT ![b] = FALSE]
      BY <1>1 DEF Bget, BgetHit, BgetRecycle, Cached
    <2> HIDE DEF n
    <2>3. at' \in [Proc -> 0..NBUF]
      BY <2>2, CacheAssumption DEF Buf
    <2>4. refcnt' \in [Buf -> Int]
      BY <2>2
    <2>5. blockno' \in [Buf -> Block \cup {NoBlock}] /\ valid' \in [Buf -> BOOLEAN]
      BY <2>1, <2>2
    <2>6. pc' \in [Proc -> Places]
      BY <2>1
    <2> QED
      BY <2>1, <2>3, <2>4, <2>5, <2>6
  <1>2. ASSUME NEW p \in Proc, Acquire(p) PROVE Types'
    <2>1. \/ UNCHANGED <<lock, write>> /\ pc' = [pc EXCEPT ![p] = "waitLock"]
          \/ /\ lock' = [lock EXCEPT ![at[p]] = p] /\ write' = [write EXCEPT ![p] = FALSE]
             /\ \E l \in {"held", "alloc"} : pc' = [pc EXCEPT ![p] = l]
      BY <1>2 DEF Acquire, Goto
    <2>2. pc' \in [Proc -> Places]
      BY <2>1
    <2>3. lock' \in [Buf -> Proc \cup {Nobody}] /\ write' \in [Proc -> BOOLEAN]
      BY <2>1, ZenonT(30)
    <2> QED
      BY <1>2, <2>2, <2>3 DEF Acquire, diskVars
  <1>3. ASSUME NEW p \in Proc, AllocFails(p) PROVE Types'
    BY <1>3 DEF AllocFails, bufVars, diskVars
  <1>4. ASSUME NEW p \in Proc, Submit(p) PROVE Types'
    BY <1>4 DEF Submit, Goto, At, Buf
  <1>5. ASSUME NEW p \in Proc, WaitOn(p) PROVE Types'
    BY <1>5 DEF WaitOn, Goto, bufVars, diskVars
  <1>6. ASSUME NEW p \in Proc, Finish(p) PROVE Types'
    BY <1>6 DEF Finish, AfterFree, At, Buf
  <1>7. ASSUME NEW p \in Proc, LogWrite(p) PROVE Types'
    <2>1. at[p] \in Buf /\ blockno[at[p]] \in Block
      BY <1>7 DEF LogWrite, At, Buf
    <2>2. IsFiniteSet(pinned \cup {blockno[at[p]]})
      BY FS_AddElement
    <2> QED
      BY <1>7, <2>1, <2>2 DEF LogWrite, Goto, diskVars
  <1>8. ASSUME NEW p \in Proc, Bwrite(p) PROVE Types'
    <2>1. data' \in [Buf -> Content]
      BY <1>8 DEF Bwrite
    <2>2. pc' \in [Proc -> Places] /\ write' \in [Proc -> BOOLEAN]
      BY <1>8 DEF Bwrite, Goto
    <2> QED
      BY <1>8, <2>1, <2>2 DEF Bwrite, diskVars
  <1>9. ASSUME NEW p \in Proc, Written(p) PROVE Types'
    <2>1. IsFiniteSet(pinned \ {blockno[at[p]]})
      BY FS_RemoveElement
    <2> QED
      BY <1>9, <2>1 DEF Written, Goto, diskVars, At, Buf
  <1>10. ASSUME NEW p \in Proc, Releasesleep(p) PROVE Types'
    BY <1>10 DEF Releasesleep, Woken, diskVars, At, Buf
  <1>11. ASSUME NEW p \in Proc, Brelse(p) PROVE Types'
    BY <1>11, HasBuffer, Planned, CacheAssumption DEF Brelse, Goto, diskVars
  <1>12. ASSUME NEW p \in Proc, Kill(p) PROVE Types'
    BY <1>12 DEF Kill, Goto, bufVars, diskVars
  <1>13. ASSUME Device PROVE Types'
    <2>1. PICK r \in avail :
            \/ r[2] /\ disk' = [disk EXCEPT ![blockno[info[r[1]]]] = data[info[r[1]]]] /\ UNCHANGED data
            \/ ~r[2] /\ data' = [data EXCEPT ![info[r[1]]] = disk[blockno[info[r[1]]]]] /\ UNCHANGED disk
      BY <1>13 DEF Device
    <2>2. PICK p \in Proc : idx[p] # <<>> /\ info[r[1]] = at[p]
      <3>1. PICK p \in Proc : Waits(p, r[1])
        BY DEF Rings
      <3> QED
        BY <3>1 DEF Rings, Waits
    <2>3. at[p] \in Buf /\ blockno[at[p]] \in Block
      BY <2>2, HasBuffer DEF Chains, Asked
    <2>4. data' \in [Buf -> Content] /\ disk' \in [Block -> Content]
      BY <2>1, <2>2, <2>3
    <2> QED
      BY <1>13, <2>4 DEF Device, procVars
  <1>14. ASSUME Interrupt PROVE Types'
    BY <1>14, Interrupts DEF IntrEntry, Woken
  <1> QED
    BY <1>1, <1>2, <1>3, <1>4, <1>5, <1>6, <1>7, <1>8, <1>9, <1>10, <1>11, <1>12, <1>13, <1>14
       DEF Running, ProcStep

\* brelse moves a buffer to the front; nothing else touches the list.
LEMMA ListedStep ==
  ASSUME Types, At, Listed, Running
  PROVE  Listed'
  <1>1. ASSUME NEW b \in Buf, lru' = ListAfter(b)
        PROVE  Listed'
    <2> DEFINE m == Moved(b)
    <2>1. m \in Buf /\ lru[m] = b
      BY DEF Listed, Moved
    <2> HIDE DEF m
    <2>2. lru' = [i \in Buf |-> IF i = 1 THEN b ELSE IF i <= m THEN lru[i - 1] ELSE lru[i]]
      BY <1>1 DEF ListAfter, m
    <2>3. Buf = 1..NBUF /\ NBUF \in Nat /\ m \in 1..NBUF
      BY <2>1, CacheAssumption DEF Buf
    <2>4. lru \in [1..NBUF -> Buf]
      BY <2>3 DEF Listed
    <2>5. lru' \in [Buf -> Buf]
      BY <2>2, <2>3, <2>4
    <2>6. \A i, j \in Buf : lru'[i] = lru'[j] => i = j
      <3> DEFINE from(i) == IF i = 1 THEN m ELSE IF i <= m THEN i - 1 ELSE i
      <3>1. \A i \in Buf : from(i) \in Buf
        BY <2>3
      <3>2. \A i \in Buf : lru'[i] = lru[from(i)]
        BY <2>1, <2>2
      <3>3. \A i, j \in Buf : from(i) = from(j) => i = j
        BY <2>3
      <3> HIDE DEF from
      <3> QED
        BY <3>1, <3>2, <3>3 DEF Listed
    <2>7. \A c \in Buf : \E i \in Buf : lru'[i] = c
      <3>1. SUFFICES ASSUME NEW c \in Buf PROVE \E i \in Buf : lru'[i] = c
        OBVIOUS
      <3>2. PICK j \in Buf : lru[j] = c
        BY DEF Listed
      <3>3. j \in 1..NBUF
        BY <2>3
      <3>4. CASE j = m
        BY <3>2, <3>4, <2>1, <2>2, <2>3
      <3>5. CASE j < m
        <4>1. j + 1 \in 1..NBUF /\ j + 1 # 1 /\ j + 1 <= m /\ (j + 1) - 1 = j
          BY <3>3, <3>5, <2>3
        <4> QED
          BY <4>1, <3>2, <2>2, <2>3
      <3>6. CASE j > m
        <4>1. j # 1 /\ ~(j <= m)
          BY <3>3, <3>6, <2>3
        <4> QED
          BY <4>1, <3>2, <2>2
      <3> QED
        BY <3>3, <3>4, <3>5, <3>6, <2>3
    <2> QED
      BY <2>5, <2>6, <2>7 DEF Listed
  <1>2. ASSUME NEW p \in Proc, Brelse(p)
        PROVE  Listed'
    <2>1. at[p] \in Buf /\ (lru' = lru \/ lru' = ListAfter(at[p]))
      BY <1>2, HasBuffer DEF Brelse
    <2> QED
      BY <2>1, <1>1 DEF Listed
  <1>3. ASSUME UNCHANGED lru PROVE Listed'
    BY <1>3 DEF Listed
  <1>4. CASE Device \/ Interrupt
    BY <1>3, <1>4, Interrupts DEF Device
  <1>5. ASSUME NEW p \in Proc, Kill(p) \/ (ProcStep(p) /\ ~BgetPanic(p)), ~Brelse(p)
        PROVE  UNCHANGED lru
    BY <1>5
       DEF Kill, ProcStep, Bget, Acquire, AllocFails, Submit, WaitOn, Finish, LogWrite,
           Bwrite, Written, Releasesleep, bufVars
  <1> QED
    BY <1>2, <1>3, <1>4, <1>5 DEF Running

\* A buffer without references is nobody's.
LEMMA NoUsers ==
  ASSUME Types, Blocks, NEW b \in Buf, refcnt[b] = 0
  PROVE  /\ \A q \in Proc : at[q] # b
         /\ blockno[b] \notin pinned
  <1>1. IsFiniteSet(Users(b))
    BY CacheAssumption, FS_Subset DEF Users
  <1>2. Cardinality(Users(b)) \in Nat /\ (Cardinality(Users(b)) = 0 <=> Users(b) = {})
    BY <1>1, FS_CardinalityType, FS_EmptySet
  <1>3. refcnt[b] = Cardinality(Users(b)) + Pins(b) /\ Pins(b) \in {0, 1}
    BY DEF Blocks, Pins
  <1>4. Users(b) = {} /\ Pins(b) = 0
    BY <1>2, <1>3
  <1> QED
    BY <1>4 DEF Users, Pins

\* bget: the buffer that has the block, or one that nobody uses.
Hit(p, b, n) ==
  /\ blockno[b] = n
  /\ refcnt' = [refcnt EXCEPT ![b] = @ + 1] /\ UNCHANGED <<blockno, valid>>
Recycle(p, b, n) ==
  /\ \A c \in Buf : blockno[c] # n
  /\ refcnt[b] = 0 /\ (\A q \in Proc : at[q] # b) /\ blockno[b] \notin pinned
  /\ blockno' = [blockno EXCEPT ![b] = n] /\ valid' = [valid EXCEPT ![b] = FALSE]
  /\ refcnt' = [refcnt EXCEPT ![b] = 1]

LEMMA Gets ==
  ASSUME Types, Blocks, NEW p \in Proc, Bget(p)
  PROVE  /\ todo[p][1][2] \in Block /\ todo[p] # <<>> /\ pc[p] = "idle"
         /\ pc' = [pc EXCEPT ![p] = "lock"]
         /\ UNCHANGED <<data, lock, busy, lru, free, info, avail, used, irq, handling, disk,
                        write, idx, todo, pinned>>
         /\ \E b \in Buf : /\ at' = [at EXCEPT ![p] = b]
                           /\ Hit(p, b, todo[p][1][2]) \/ Recycle(p, b, todo[p][1][2])
  <1>1. todo[p][1][2] \in Block
    BY Planned DEF Bget
  <1>2. CASE BgetHit(p, todo[p][1][2])
    BY <1>1, <1>2 DEF Bget, BgetHit, Cached, Hit, Goto, diskVars
  <1>3. CASE BgetRecycle(p, todo[p][1][2])
    <2>1. PICK b \in Buf : /\ refcnt[b] = 0 /\ at' = [at EXCEPT ![p] = b]
                          /\ blockno' = [blockno EXCEPT ![b] = todo[p][1][2]]
                          /\ valid' = [valid EXCEPT ![b] = FALSE]
                          /\ refcnt' = [refcnt EXCEPT ![b] = 1]
      BY <1>3 DEF BgetRecycle, LeastRecent, Unused
    <2>2. Recycle(p, b, todo[p][1][2])
      BY <1>3, <2>1, NoUsers DEF BgetRecycle, Cached, Recycle
    <2> QED
      BY <1>1, <2>1, <2>2 DEF Bget, Goto, diskVars
  <1> QED
    BY <1>2, <1>3 DEF Bget

\* Two processes inside have different buffers.
LEMMA Alone ==
  ASSUME Types, At, Locks, NEW p \in Proc, NEW q \in Proc,
         pc[p] \in Inside, pc[q] \in Inside, at[p] = at[q]
  PROVE  p = q
  <1>1. pc[p] # "idle"
    BY DEF Inside, OnDisk
  <1> QED
    BY <1>1, HasBuffer DEF Locks

LEMMA AtStep ==
  ASSUME Types, At, Locks, Blocks, Chains, Rings, Running
  PROVE  At'
  <1> USE DEF Types, Places, Inside, OnDisk
  <1>1. ASSUME NEW p \in Proc, Bget(p) PROVE At'
    <2> DEFINE n == todo[p][1][2]
    <2>1. n \in Block /\ todo[p] # <<>> /\ pc[p] = "idle" /\ pc' = [pc EXCEPT ![p] = "lock"]
          /\ UNCHANGED <<write, todo>>
      BY <1>1, Gets
    <2>2. PICK b \in Buf : at' = [at EXCEPT ![p] = b] /\ (Hit(p, b, n) \/ Recycle(p, b, n))
      BY <1>1, Gets
    <2> HIDE DEF n
    <2>3. b # 0 /\ n # NoBlock
      BY <2>1, CacheAssumption DEF Buf
    <2>4. CASE Hit(p, b, n)
      BY <2>1, <2>2, <2>3, <2>4 DEF At, Hit
    <2>5. CASE Recycle(p, b, n)
      <3>1. \A q \in Proc : pc[q] # "idle" => at[q] \in Buf
        BY HasBuffer
      <3>2. \A q \in Proc : q # p => at'[q] = at[q] /\ pc'[q] = pc[q] /\ at[q] # b
        BY <2>1, <2>2, <2>5 DEF Recycle
      <3>3. \A c \in Buf : c # b => blockno'[c] = blockno[c] /\ valid'[c] = valid[c]
        BY <2>5 DEF Recycle
      <3>4. blockno'[b] = n
        BY <2>5 DEF Recycle
      <3> QED
        BY <2>1, <2>2, <2>3, <3>1, <3>2, <3>3, <3>4 DEF At
    <2> QED
      BY <2>2, <2>4, <2>5
  <1>2. ASSUME NEW p \in Proc, Acquire(p) PROVE At'
    <2>1. UNCHANGED <<at, valid, blockno, todo>> /\ pc[p] = "lock" /\ valid[at[p]] \in BOOLEAN
      BY <1>2, HasBuffer DEF Acquire
    <2>2. \/ UNCHANGED write /\ pc' = [pc EXCEPT ![p] = "waitLock"]
          \/ /\ write' = [write EXCEPT ![p] = FALSE]
             /\ \/ valid[at[p]] = TRUE /\ pc' = [pc EXCEPT ![p] = "held"]
                \/ valid[at[p]] = FALSE /\ pc' = [pc EXCEPT ![p] = "alloc"]
      BY <1>2, <2>1 DEF Acquire, Goto
    <2>3. \A q \in Proc : q # p => write'[q] = write[q] /\ pc'[q] = pc[q]
      BY <2>2
    <2>4. pc'[p] \in {"waitLock", "held", "alloc"}
      BY <2>2
    <2>5. pc'[p] = "held" => valid[at[p]]
      BY <2>2
    <2>6. pc'[p] = "alloc" => valid[at[p]] = write'[p]
      BY <2>2
    <2> QED
      BY <2>1, <2>3, <2>4, <2>5, <2>6 DEF At
  <1>3. ASSUME NEW p \in Proc, AllocFails(p) PROVE At'
    BY <1>3 DEF AllocFails, bufVars, diskVars, At
  <1>4. ASSUME NEW p \in Proc, Submit(p) PROVE At'
    BY <1>4 DEF Submit, Goto, At
  <1>5. ASSUME NEW p \in Proc, WaitOn(p) PROVE At'
    BY <1>5 DEF WaitOn, Goto, bufVars, diskVars, At
  <1>6. ASSUME NEW p \in Proc, Finish(p) PROVE At'
    <2>1. /\ pc[p] = "check" /\ UNCHANGED <<at, blockno, todo, write>>
          /\ valid' = [valid EXCEPT ![at[p]] = TRUE]
          /\ pc' = AfterFree(p)
      BY <1>6 DEF Finish
    <2>2. pc'[p] = (IF write[p] THEN "written" ELSE "held")
      BY <2>1 DEF AfterFree
    <2>3. \A q \in Proc : q # p => pc'[q] = IF pc[q] = "waitDesc" THEN "alloc" ELSE pc[q]
      BY <2>1 DEF AfterFree
    <2>4. at[p] \in Buf
      BY <2>1, HasBuffer
    <2>5. \A q \in Proc : q # p /\ pc[q] \in Inside => at[q] # at[p]
      BY <2>1, Alone
    <2>6. \A q \in Proc : q # p /\ pc[q] \in Inside => valid'[at[q]] = valid[at[q]]
      <3>1. \A q \in Proc : pc[q] \in Inside => at[q] \in Buf
        BY HasBuffer
      <3> QED
        BY <2>1, <2>5, <3>1
    <2>7. valid'[at[p]]
      BY <2>1, <2>4
    <2> QED
      BY <2>1, <2>2, <2>3, <2>6, <2>7, ZenonT(30) DEF At
  <1>7. ASSUME NEW p \in Proc, LogWrite(p) PROVE At'
    BY <1>7 DEF LogWrite, Goto, At
  <1>8. ASSUME NEW p \in Proc, Bwrite(p) PROVE At'
    BY <1>8 DEF Bwrite, Goto, At
  <1>9. ASSUME NEW p \in Proc, Written(p) PROVE At'
    BY <1>9 DEF Written, Goto, At
  <1>10. ASSUME NEW p \in Proc, Releasesleep(p) PROVE At'
    BY <1>10 DEF Releasesleep, Woken, At
  <1>11. ASSUME NEW p \in Proc, Brelse(p) PROVE At'
    BY <1>11, CacheAssumption DEF Brelse, Goto, At
  <1>12. ASSUME NEW p \in Proc, Kill(p) PROVE At'
    BY <1>12 DEF Kill, Goto, bufVars, At
  <1>13. ASSUME Device PROVE At'
    BY <1>13 DEF Device, procVars, At
  <1>14. ASSUME Interrupt PROVE At'
    BY <1>14, Interrupts DEF IntrEntry, Woken, At
  <1> QED
    BY <1>1, <1>2, <1>3, <1>4, <1>5, <1>6, <1>7, <1>8, <1>9, <1>10, <1>11, <1>12, <1>13, <1>14
       DEF Running, ProcStep

\* acquiresleep takes a free lock; releasesleep gives it back.
LEMMA LocksStep ==
  ASSUME Types, At, Locks, Blocks, Running
  PROVE  Locks'
  <1> USE DEF Types, Places, Inside, OnDisk
  <1>1. ASSUME NEW p \in Proc, Bget(p) PROVE Locks'
    <2>1. pc[p] = "idle" /\ pc' = [pc EXCEPT ![p] = "lock"] /\ UNCHANGED lock
          /\ \E b \in Buf : at' = [at EXCEPT ![p] = b]
      BY <1>1, Gets
    <2>2. \A b \in Buf : lock[b] # p
      BY <2>1 DEF Locks
    <2> QED
      BY <2>1, <2>2 DEF Locks
  <1>2. ASSUME NEW p \in Proc, Acquire(p) PROVE Locks'
    <2>1. pc[p] = "lock" /\ UNCHANGED at /\ at[p] \in Buf
      BY <1>2, HasBuffer DEF Acquire
    <2>2. \/ UNCHANGED lock /\ pc' = [pc EXCEPT ![p] = "waitLock"]
          \/ /\ lock[at[p]] = Nobody /\ lock' = [lock EXCEPT ![at[p]] = p]
             /\ pc' \in {[pc EXCEPT ![p] = "held"], [pc EXCEPT ![p] = "alloc"]}
      BY <1>2 DEF Acquire, Goto
    <2> QED
      BY <2>1, <2>2, CacheAssumption DEF Locks
  <1>3. ASSUME NEW p \in Proc, AllocFails(p) PROVE Locks'
    BY <1>3 DEF AllocFails, bufVars, diskVars, Locks
  <1>4. ASSUME NEW p \in Proc, Submit(p) PROVE Locks'
    BY <1>4 DEF Submit, Goto, Locks
  <1>5. ASSUME NEW p \in Proc, WaitOn(p) PROVE Locks'
    BY <1>5 DEF WaitOn, Goto, bufVars, diskVars, Locks
  <1>6. ASSUME NEW p \in Proc, Finish(p) PROVE Locks'
    BY <1>6 DEF Finish, AfterFree, Locks
  <1>7. ASSUME NEW p \in Proc, LogWrite(p) PROVE Locks'
    BY <1>7 DEF LogWrite, Goto, Locks
  <1>8. ASSUME NEW p \in Proc, Bwrite(p) PROVE Locks'
    BY <1>8 DEF Bwrite, Goto, Locks
  <1>9. ASSUME NEW p \in Proc, Written(p) PROVE Locks'
    BY <1>9 DEF Written, Goto, Locks
  <1>10. ASSUME NEW p \in Proc, Releasesleep(p) PROVE Locks'
    <2>1. at[p] \in Buf /\ pc[p] \in Inside /\ UNCHANGED at
      BY <1>10, HasBuffer DEF Releasesleep
    <2>2. lock' = [lock EXCEPT ![at[p]] = Nobody]
      BY <1>10 DEF Releasesleep
    <2>3. pc'[p] = "unref"
      BY <1>10 DEF Releasesleep, Woken
    <2>4. \A q \in Proc : q # p => (pc'[q] \in Inside <=> pc[q] \in Inside)
      BY <1>10 DEF Releasesleep, Woken
    <2> QED
      BY <2>1, <2>2, <2>3, <2>4, CacheAssumption DEF Locks
  <1>11. ASSUME NEW p \in Proc, Brelse(p) PROVE Locks'
    BY <1>11 DEF Brelse, Goto, Locks
  <1>12. ASSUME NEW p \in Proc, Kill(p) PROVE Locks'
    BY <1>12 DEF Kill, Goto, bufVars, Locks
  <1>13. ASSUME Device PROVE Locks'
    BY <1>13 DEF Device, procVars, Locks
  <1>14. ASSUME Interrupt PROVE Locks'
    BY <1>14, Interrupts DEF IntrEntry, Woken, Locks
  <1> QED
    BY <1>1, <1>2, <1>3, <1>4, <1>5, <1>6, <1>7, <1>8, <1>9, <1>10, <1>11, <1>12, <1>13, <1>14
       DEF Running, ProcStep
-----------------------------------------------------------------------------
(* Control: references and pins.                                            *)

LEMMA UsersFinite ==
  ASSUME NEW b
  PROVE  IsFiniteSet(Users(b)) /\ Cardinality(Users(b)) \in Nat
  BY CacheAssumption, FS_Subset, FS_CardinalityType DEF Users

\* A step that leaves the buffers' blocks, the references and who uses what
\* alone, and at most makes buffers valid that hold blocks.
LEMMA BlocksSame ==
  ASSUME Types, Blocks, UNCHANGED <<blockno, refcnt, at, pinned>>,
         \A b \in Buf : valid'[b] => valid[b] \/ blockno[b] # NoBlock
  PROVE  Blocks'
  <1>1. \A b \in Buf : Users(b)' = Users(b) /\ Pins(b)' = Pins(b)
    BY DEF Users, Pins
  <1>2. \A b \in Buf : refcnt'[b] = Cardinality(Users(b))' + Pins(b)'
    BY <1>1 DEF Blocks
  <1> QED
    BY <1>2 DEF Blocks

LEMMA BlocksStep ==
  ASSUME Types, At, Locks, Blocks, Running
  PROVE  Blocks'
  <1>1. ASSUME NEW p \in Proc, Bget(p) PROVE Blocks'
    <2> DEFINE n == todo[p][1][2]
    <2>1. n \in Block /\ pc[p] = "idle" /\ UNCHANGED pinned
      BY <1>1, Gets
    <2>2. PICK b \in Buf : at' = [at EXCEPT ![p] = b] /\ (Hit(p, b, n) \/ Recycle(p, b, n))
      BY <1>1, Gets
    <2> HIDE DEF n
    <2>3. at[p] = 0 /\ 0 \notin Buf /\ n # NoBlock
      BY <2>1, CacheAssumption DEF At, Buf
    <2>4. /\ Users(b)' = Users(b) \cup {p} /\ p \notin Users(b)
          /\ \A c \in Buf : c # b => Users(c)' = Users(c)
      BY <2>2, <2>3 DEF Users, Types
    <2>5. Cardinality(Users(b))' = Cardinality(Users(b)) + 1
      BY <2>4, UsersFinite, FS_AddElement
    <2>6. CASE Hit(p, b, n)
      <3>1. \A c \in Buf : Pins(c)' = Pins(c)
        BY <2>1, <2>6 DEF Pins, Hit
      <3>2. refcnt'[b] = Cardinality(Users(b))' + Pins(b)'
        BY <2>5, <2>6, <3>1, UsersFinite DEF Hit, Blocks, Types, Pins
      <3>3. \A c \in Buf : c # b => refcnt'[c] = Cardinality(Users(c))' + Pins(c)'
        BY <2>4, <2>6, <3>1 DEF Hit, Blocks, Types
      <3>4. UNCHANGED <<blockno, valid>>
        BY <2>6 DEF Hit
      <3> QED
        BY <2>1, <3>2, <3>3, <3>4 DEF Blocks
    <2>7. CASE Recycle(p, b, n)
      <3>1. blockno' = [blockno EXCEPT ![b] = n] /\ valid' = [valid EXCEPT ![b] = FALSE]
            /\ refcnt' = [refcnt EXCEPT ![b] = 1]
        BY <2>7 DEF Recycle
      <3>2. n \notin pinned /\ \A c \in Buf : blockno[c] # n
        BY <2>7 DEF Recycle, Blocks
      <3>3. Pins(b)' = 0 /\ \A c \in Buf : c # b => Pins(c)' = Pins(c)
        BY <2>1, <3>1, <3>2 DEF Pins, Types
      <3>4. Cardinality(Users(b)) = 0
        <4>1. Users(b) = {}
          BY <2>7 DEF Recycle, Users
        <4> QED
          BY <4>1, FS_EmptySet
      <3>5. refcnt'[b] = Cardinality(Users(b))' + Pins(b)'
        BY <2>5, <3>1, <3>3, <3>4 DEF Types
      <3>6. \A c \in Buf : c # b => refcnt'[c] = Cardinality(Users(c))' + Pins(c)'
        BY <2>4, <3>1, <3>3 DEF Blocks, Types
      <3>7. \A c, d \in Buf : blockno'[c] = blockno'[d] /\ blockno'[c] # NoBlock => c = d
        BY <3>1, <3>2 DEF Blocks, Types
      <3>8. \A c \in Buf : valid'[c] => blockno'[c] # NoBlock
        BY <3>1 DEF Blocks, Types
      <3>9. \A m \in pinned' : \E c \in Buf : blockno'[c] = m
        <4>1. SUFFICES ASSUME NEW m \in pinned PROVE \E c \in Buf : blockno'[c] = m
          BY <2>1
        <4>2. PICK c \in Buf : blockno[c] = m
          BY DEF Blocks
        <4>3. c # b
          BY <4>2, <2>7 DEF Recycle
        <4> QED
          BY <4>2, <4>3, <3>1 DEF Types
      <3> QED
        BY <3>5, <3>6, <3>7, <3>8, <3>9 DEF Blocks
    <2> QED
      BY <2>2, <2>6, <2>7
  <1>2. ASSUME NEW p \in Proc, LogWrite(p) PROVE Blocks'
    <2>0. at[p] \in Buf /\ blockno[at[p]] \in Block
      BY <1>2, HasBuffer DEF LogWrite
    <2>1. PICK b \in Buf, n \in Block : b = at[p] /\ n = blockno[b]
      BY <2>0
    <2>2. /\ UNCHANGED <<blockno, valid, at>> /\ pinned' = pinned \cup {n}
          /\ refcnt' = IF n \in pinned THEN refcnt ELSE [refcnt EXCEPT ![b] = @ + 1]
      BY <1>2, <2>1 DEF LogWrite
    <2>3. \A c \in Buf : Users(c)' = Users(c)
      BY <2>2 DEF Users
    <2>4. \A c \in Buf : c # b => blockno[c] # n
      BY <2>1, CacheAssumption DEF Blocks
    <2>5. /\ Pins(b)' = 1 /\ (n \notin pinned => Pins(b) = 0) /\ (n \in pinned => Pins(b) = 1)
          /\ \A c \in Buf : c # b => Pins(c)' = Pins(c)
      BY <2>1, <2>2, <2>4 DEF Pins
    <2>6. \A c \in Buf : refcnt'[c] = Cardinality(Users(c)) + Pins(c)'
      <3>1. \A c \in Buf : c # b => refcnt'[c] = Cardinality(Users(c)) + Pins(c)'
        BY <2>1, <2>2, <2>5 DEF Blocks, Types
      <3>2. refcnt'[b] = Cardinality(Users(b)) + Pins(b)'
        BY <2>1, <2>2, <2>5, UsersFinite DEF Blocks, Types
      <3> QED
        BY <3>1, <3>2
    <2>7. \A c \in Buf : refcnt'[c] = Cardinality(Users(c))' + Pins(c)'
      BY <2>3, <2>6
    <2>8. \A m \in pinned' : \E c \in Buf : blockno'[c] = m
      BY <2>1, <2>2 DEF Blocks
    <2> QED
      BY <2>2, <2>7, <2>8 DEF Blocks
  <1>3. ASSUME NEW p \in Proc, Written(p) PROVE Blocks'
    <2>0. at[p] \in Buf /\ blockno[at[p]] \in Block
      BY <1>3, HasBuffer DEF Written
    <2>1. PICK b \in Buf, n \in Block : b = at[p] /\ n = blockno[b]
      BY <2>0
    <2>2. /\ UNCHANGED <<blockno, valid, at>> /\ pinned' = pinned \ {n}
          /\ refcnt' = IF n \in pinned THEN [refcnt EXCEPT ![b] = @ - 1] ELSE refcnt
      BY <1>3, <2>1 DEF Written
    <2>3. \A c \in Buf : Users(c)' = Users(c)
      BY <2>2 DEF Users
    <2>4. \A c \in Buf : c # b => blockno[c] # n
      BY <2>1, CacheAssumption DEF Blocks
    <2>5. /\ Pins(b)' = 0 /\ (n \notin pinned => Pins(b) = 0) /\ (n \in pinned => Pins(b) = 1)
          /\ \A c \in Buf : c # b => Pins(c)' = Pins(c)
      BY <2>1, <2>2, <2>4 DEF Pins
    <2>6. \A c \in Buf : refcnt'[c] = Cardinality(Users(c)) + Pins(c)'
      <3>1. \A c \in Buf : c # b => refcnt'[c] = Cardinality(Users(c)) + Pins(c)'
        BY <2>1, <2>2, <2>5 DEF Blocks, Types
      <3>2. refcnt'[b] = Cardinality(Users(b)) + Pins(b)'
        BY <2>1, <2>2, <2>5, UsersFinite DEF Blocks, Types
      <3> QED
        BY <3>1, <3>2
    <2>7. \A c \in Buf : refcnt'[c] = Cardinality(Users(c))' + Pins(c)'
      BY <2>3, <2>6
    <2> QED
      BY <2>2, <2>7 DEF Blocks
  <1>4. ASSUME NEW p \in Proc, Brelse(p) PROVE Blocks'
    <2>0. at[p] \in Buf /\ 0 \notin Buf
      BY <1>4, HasBuffer, CacheAssumption DEF Brelse, Buf
    <2>1. PICK b \in Buf : b = at[p]
      BY <2>0
    <2>2. /\ UNCHANGED <<blockno, valid, pinned>> /\ at' = [at EXCEPT ![p] = 0]
          /\ refcnt' = [refcnt EXCEPT ![b] = @ - 1]
      BY <1>4, <2>1 DEF Brelse
    <2>3. /\ Users(b)' = Users(b) \ {p} /\ p \in Users(b)
          /\ \A c \in Buf : c # b => Users(c)' = Users(c)
      BY <2>0, <2>1, <2>2 DEF Users, Types
    <2>4. Cardinality(Users(b))' = Cardinality(Users(b)) - 1
      BY <2>3, UsersFinite, FS_RemoveElement
    <2>5. \A c \in Buf : Pins(c)' = Pins(c)
      BY <2>2 DEF Pins
    <2>6. refcnt'[b] = Cardinality(Users(b))' + Pins(b)'
      BY <2>1, <2>2, <2>4, <2>5, UsersFinite DEF Blocks, Types, Pins
    <2>7. \A c \in Buf : c # b => refcnt'[c] = Cardinality(Users(c))' + Pins(c)'
      BY <2>2, <2>3, <2>5 DEF Blocks, Types
    <2> QED
      BY <2>2, <2>6, <2>7 DEF Blocks
  <1>5. ASSUME NEW p \in Proc, Finish(p) PROVE Blocks'
    <2>1. at[p] \in Buf /\ blockno[at[p]] # NoBlock /\ valid' = [valid EXCEPT ![at[p]] = TRUE]
      BY <1>5, HasBuffer, CacheAssumption DEF Finish
    <2>2. \A b \in Buf : valid'[b] => valid[b] \/ blockno[b] # NoBlock
      BY <2>1 DEF Types
    <2> QED
      BY <1>5, <2>2, BlocksSame DEF Finish
  <1>6. ASSUME UNCHANGED <<blockno, refcnt, at, pinned, valid>> PROVE Blocks'
    BY <1>6, BlocksSame
  <1>7. ASSUME NEW p \in Proc,
               \/ Acquire(p) \/ AllocFails(p) \/ Submit(p) \/ WaitOn(p)
               \/ Bwrite(p) \/ Releasesleep(p) \/ Kill(p)
        PROVE  UNCHANGED <<blockno, refcnt, at, pinned, valid>>
    BY <1>7 DEF Acquire, AllocFails, Submit, WaitOn, Bwrite, Releasesleep, Kill, bufVars
  <1>8. ASSUME Device \/ Interrupt
        PROVE  UNCHANGED <<blockno, refcnt, at, pinned, valid>>
    BY <1>8, Interrupts DEF Device, procVars
  <1> QED
    BY <1>1, <1>2, <1>3, <1>4, <1>5, <1>6, <1>7, <1>8 DEF Running, ProcStep

\* bget panics when it finds no unused buffer, and holds bcache.lock ever after:
\* nobody gets or gives back a reference.
LEMMA FullStep ==
  ASSUME Full, Next
  PROVE  Full'
  <1>1. SUFFICES ASSUME panicked' PROVE Unused' = {}
    BY DEF Full
  <1>2. ASSUME NEW p \in Proc, BgetPanic(p) PROVE Unused' = {}
    BY <1>2 DEF BgetPanic, Unused, bufVars
  <1>3. ASSUME panicked, UNCHANGED refcnt PROVE Unused' = {}
    BY <1>3 DEF Full, Unused
  <1>4. ASSUME NEW p \in Proc, ProcStep(p) \/ Kill(p), ~BgetPanic(p)
        PROVE  panicked /\ UNCHANGED refcnt
    <2>1. panicked
      BY <1>1, <1>4
         DEF Kill, ProcStep, Bget, Acquire, AllocFails, Submit, WaitOn, Finish, LogWrite,
             Bwrite, Written, Releasesleep, Brelse
    <2>2. ~Bget(p) /\ ~Brelse(p)
      BY <2>1 DEF Bget, Brelse
    <2>3. CASE LogWrite(p) \/ Written(p)
      BY <2>1, <2>3 DEF LogWrite, Written
    <2> QED
      BY <1>4, <2>1, <2>2, <2>3
         DEF Kill, ProcStep, Acquire, AllocFails, Submit, WaitOn, Finish, Bwrite, Releasesleep,
             bufVars
  <1>5. ASSUME Device \/ Interrupt PROVE panicked /\ UNCHANGED refcnt
    BY <1>1, <1>5, Interrupts DEF Device, Interrupt, IntrAck, IntrEntry, IntrEnd
  <1> QED
    BY <1>2, <1>3, <1>4, <1>5 DEF Next
-----------------------------------------------------------------------------
(* Requests: the descriptors and the rings.                                 *)

LEMMA ChainsSame ==
  ASSUME Chains, UNCHANGED <<free, idx>>, pc' \in [Proc -> Places],
         \A p \in Proc : pc'[p] \in Asked <=> pc[p] \in Asked
  PROVE  Chains'
  <1>1. \A d : \A p \in Proc : Has(p, d)' <=> Has(p, d)
    BY DEF Has
  <1> QED
    BY <1>1 DEF Chains

LEMMA ChainsStep ==
  ASSUME Types, At, Chains, Running, Types'
  PROVE  Chains'
  <1> USE DEF Asked
  <1>1. ASSUME NEW p \in Proc, Submit(p) PROVE Chains'
    <2>1. PICK d \in [1..3 -> free] : /\ FirstFree(d) /\ free' = free \ Range(d)
                                     /\ idx' = [idx EXCEPT ![p] = d]
      BY <1>1 DEF Submit
    <2>2. pc[p] = "alloc" /\ pc' = [pc EXCEPT ![p] = "waitDisk"]
      BY <1>1 DEF Submit, Goto
    <2>3. idx[p] = <<>> /\ idx'[p] = d /\ d # <<>> /\ d \in [1..3 -> Desc]
      <3>1. idx[p] = <<>> /\ idx'[p] = d
        BY <2>1, <2>2 DEF Chains
      <3>2. free \subseteq Desc
        BY DEF Chains
      <3>3. d \in [1..3 -> Desc]
        BY <3>2
      <3>4. DOMAIN d = 1..3 /\ DOMAIN <<>> = {} /\ 1 \in 1..3
        OBVIOUS
      <3> QED
        BY <3>1, <3>3, <3>4
    <2>4. \A x : \A q \in Proc : q # p => (Has(q, x)' <=> Has(q, x))
      BY <2>1 DEF Has, Chains
    <2>5. \A x : Has(p, x)' <=> x \in Range(d)
      BY <2>3 DEF Has, Range
    <2>6. \A x \in Range(d) : x \in free
      BY DEF Range
    <2>7. ~\E x : Has(p, x)
      BY <2>3 DEF Has
    <2>8. free' \in SUBSET Desc /\ idx' \in [Proc -> {<<>>} \cup [1..3 -> Desc]]
      BY <2>1, <2>3 DEF Chains
    <2>9. \A q \in Proc : idx'[q] # <<>> <=> pc'[q] \in Asked
      BY <2>1, <2>2, <2>3 DEF Chains, Types
    <2>10. \A q \in Proc, x \in free' : ~Has(q, x)'
      BY <2>1, <2>4, <2>5 DEF Chains
    <2>11. \A x \in Desc \ free' : \E q \in Proc : Has(q, x)'
      BY <2>1, <2>4, <2>5, <2>7 DEF Chains
    <2>12. \A q, r \in Proc, x \in Desc : Has(q, x)' /\ Has(r, x)' => q = r
      BY <2>4, <2>5, <2>6 DEF Chains
    <2> QED
      BY <2>8, <2>9, <2>10, <2>11, <2>12 DEF Chains
  <1>2. ASSUME NEW p \in Proc, Finish(p) PROVE Chains'
    <2>1. /\ pc[p] = "check" /\ free' = free \cup Range(idx[p])
          /\ idx' = [idx EXCEPT ![p] = <<>>] /\ pc' = AfterFree(p)
      BY <1>2 DEF Finish
    <2>2. idx[p] \in [1..3 -> Desc] /\ idx'[p] = <<>> /\ idx[p] # <<>>
      <3>1. idx[p] # <<>>
        BY <2>1 DEF Chains
      <3>2. idx'[p] = <<>>
        BY <2>1 DEF Chains
      <3>3. idx[p] \in {<<>>} \cup [1..3 -> Desc]
        BY DEF Chains
      <3> QED
        BY <3>1, <3>2, <3>3
    <2>3. \A x : \A q \in Proc : q # p => (Has(q, x)' <=> Has(q, x))
      BY <2>1 DEF Has, Chains
    <2>4. \A x : Has(p, x) <=> x \in Range(idx[p])
      BY <2>2 DEF Has, Range
    <2>5. ~\E x : Has(p, x)'
      BY <2>2 DEF Has
    <2>6. Range(idx[p]) \subseteq Desc
      BY <2>2 DEF Range
    <2>7. free' \in SUBSET Desc /\ idx' \in [Proc -> {<<>>} \cup [1..3 -> Desc]]
      BY <2>1, <2>6 DEF Chains
    <2>8. \A q \in Proc : idx'[q] # <<>> <=> pc'[q] \in Asked
      <3>1. pc'[p] \notin Asked
        BY <2>1 DEF AfterFree
      <3>2. \A q \in Proc : q # p => (pc'[q] \in Asked <=> pc[q] \in Asked)
        BY <2>1 DEF AfterFree
      <3>3. \A q \in Proc : q # p => idx'[q] = idx[q]
        BY <2>1 DEF Chains
      <3> QED
        BY <2>2, <3>1, <3>2, <3>3 DEF Chains
    <2>9. \A q \in Proc, x \in free' : ~Has(q, x)'
      BY <2>1, <2>3, <2>4, <2>5, <2>6 DEF Chains
    <2>10. \A x \in Desc \ free' : \E q \in Proc : Has(q, x)'
      BY <2>1, <2>3, <2>4 DEF Chains
    <2>11. \A q, r \in Proc, x \in Desc : Has(q, x)' /\ Has(r, x)' => q = r
      BY <2>3, <2>5 DEF Chains
    <2> QED
      BY <2>7, <2>8, <2>9, <2>10, <2>11 DEF Chains
  <1>3. ASSUME UNCHANGED <<free, idx>>, \A p \in Proc : pc'[p] \in Asked <=> pc[p] \in Asked
        PROVE  Chains'
    BY <1>3, ChainsSame DEF Types
  <1>4. ASSUME NEW p \in Proc,
               \/ Bget(p) \/ Acquire(p) \/ AllocFails(p) \/ WaitOn(p) \/ LogWrite(p)
               \/ Bwrite(p) \/ Written(p) \/ Releasesleep(p) \/ Brelse(p) \/ Kill(p)
        PROVE  Chains'
    <2>1. UNCHANGED <<free, idx>>
      BY <1>4 DEF Bget, Acquire, AllocFails, WaitOn, LogWrite, Bwrite, Written, Releasesleep,
                  Brelse, Kill, diskVars
    <2>2. CASE AllocFails(p)
      BY <2>1, <2>2, <1>3 DEF AllocFails
    <2>3. CASE Releasesleep(p)
      BY <2>1, <2>3, <1>3 DEF Releasesleep, Woken, Types
    <2>4. CASE \E l : Goto(p, l) /\ (l \in Asked <=> pc[p] \in Asked)
      BY <2>1, <2>4, <1>3 DEF Goto, Types
    <2>5. CASE Bget(p) \/ Acquire(p) \/ WaitOn(p) \/ LogWrite(p) \/ Bwrite(p)
      BY <2>4, <2>5, ZenonT(30) DEF Bget, Acquire, WaitOn, LogWrite, Bwrite, Goto
    <2>6. CASE Written(p) \/ Brelse(p) \/ Kill(p)
      BY <2>4, <2>6 DEF Written, Brelse, Kill, Goto
    <2> QED
      BY <1>4, <2>2, <2>3, <2>5, <2>6
  <1>5. ASSUME Device PROVE Chains'
    BY <1>5, <1>3 DEF Device, procVars
  <1>6. ASSUME Interrupt PROVE Chains'
    BY <1>6, <1>3, Interrupts DEF IntrEntry, Woken
  <1> QED
    BY <1>1, <1>2, <1>4, <1>5, <1>6 DEF Running, ProcStep
\* A request's process has a buffer nobody else has a request for.
LEMMA Request ==
  ASSUME Types, At, Chains, NEW p \in Proc, idx[p] # <<>>
  PROVE  /\ pc[p] \in Asked /\ pc[p] \in Inside /\ at[p] \in Buf
         /\ blockno[at[p]] \in Block /\ idx[p] \in [1..3 -> Desc] /\ idx[p][1] \in Desc
         /\ Has(p, idx[p][1])
  <1>1. pc[p] \in Asked
    BY DEF Chains
  <1>2. pc[p] # "idle" /\ pc[p] \in Inside
    BY <1>1 DEF Asked, Inside, OnDisk
  <1>3. idx[p] \in {<<>>} \cup [1..3 -> Desc]
    BY DEF Chains
  <1>4. idx[p] \in [1..3 -> Desc]
    BY <1>3
  <1> QED
    BY <1>1, <1>2, <1>4, HasBuffer DEF Has

\* One descriptor, one process; one process, one buffer.
LEMMA OneRequest ==
  ASSUME Types, At, Locks, Chains, NEW p \in Proc, NEW q \in Proc,
         idx[p] # <<>>, idx[q] # <<>>, idx[p][1] = idx[q][1] \/ at[p] = at[q]
  PROVE  p = q
  <1>1. CASE idx[p][1] = idx[q][1]
    BY <1>1, Request DEF Chains
  <1>2. CASE at[p] = at[q]
    BY <1>2, Request, Alone
  <1> QED
    BY <1>1, <1>2

\* A step after which the same processes wait.
LEMMA RingsSame ==
  ASSUME Rings, UNCHANGED <<info, avail, used, idx, busy>>,
         \A p \in Proc : idx[p] # <<>> => at'[p] = at[p] /\ write'[p] = write[p]
  PROVE  Rings'
  <1>1. \A d : \A p \in Proc : Waits(p, d)' <=> Waits(p, d)
    BY DEF Waits
  <1>2. \A r \in avail : \E p \in Proc : Waits(p, r[1])' /\ r[2] = write'[p]
    <2>1. \A d : \A p \in Proc : Waits(p, d) => write'[p] = write[p]
      BY DEF Waits
    <2> QED
      BY <1>1, <2>1 DEF Rings
  <1>3. \A p \in Proc : idx'[p] # <<>> => info'[idx'[p][1]] = at'[p]
    BY DEF Rings
  <1>4. \A d : Used(d)' <=> Used(d)
    BY DEF Used
  <1>5. \A d \in Desc : Used(d)' => \E p \in Proc : Waits(p, d)'
    BY <1>1, <1>4 DEF Rings
  <1>6. \A r \in avail : ~Used(r[1])'
    BY <1>4 DEF Rings
  <1> QED
    BY <1>2, <1>3, <1>5, <1>6 DEF Rings

LEMMA RingsStep ==
  ASSUME Types, At, Locks, Chains, Rings, Running
  PROVE  Rings'
  <1>1. ASSUME NEW p \in Proc, Submit(p) PROVE Rings'
    <2>1. PICK d \in [1..3 -> free] : /\ idx' = [idx EXCEPT ![p] = d]
                                     /\ info' = [info EXCEPT ![d[1]] = at[p]]
                                     /\ avail' = avail \cup {<<d[1], write[p]>>}
      BY <1>1 DEF Submit
    <2>2. pc[p] = "alloc" /\ busy' = [busy EXCEPT ![at[p]] = TRUE] /\ UNCHANGED <<at, write, used>>
          /\ at[p] \in Buf
      BY <1>1, HasBuffer DEF Submit
    <2>3. idx[p] = <<>> /\ idx'[p] = d /\ d # <<>>
      BY <2>1, <2>2 DEF Chains, Asked
    <2>4. d[1] \in free /\ d[1] \in Desc /\ at[p] \in 0..NBUF /\ write[p] \in BOOLEAN
      BY DEF Chains, Types
    <2>5. \A q \in Proc : q # p => idx'[q] = idx[q]
      BY <2>1 DEF Chains
    <2>6. \A q \in Proc : idx[q] # <<>> => idx[q][1] # d[1]
      BY <2>4, Request DEF Chains
    <2>7. busy'[at[p]] /\ \A q \in Proc : idx[q] # <<>> /\ busy[at[q]] => busy'[at[q]]
      BY <2>2, Request DEF Types
    <2>8. \A x : \A q \in Proc : Waits(q, x) => Waits(q, x)' /\ x # d[1]
      BY <2>2, <2>3, <2>5, <2>6, <2>7 DEF Waits
    <2>9. Waits(p, d[1])'
      BY <2>2, <2>3, <2>7 DEF Waits
    <2>10. info' \in [Desc -> 0..NBUF] /\ avail' \in SUBSET (Desc \X BOOLEAN)
      BY <2>1, <2>4 DEF Rings
    <2>11. \A q \in Proc : idx'[q] # <<>> => info'[idx'[q][1]] = at'[q]
      <3>1. SUFFICES ASSUME NEW q \in Proc, idx'[q] # <<>> PROVE info'[idx'[q][1]] = at'[q]
        OBVIOUS
      <3>2. CASE q = p
        BY <2>1, <2>2, <2>3, <2>4, <3>2 DEF Rings
      <3>3. CASE q # p
        BY <2>1, <2>2, <2>5, <2>6, <3>1, <3>3, Request DEF Rings
      <3> QED
        BY <3>2, <3>3
    <2>12. \A r \in avail' : \E q \in Proc : Waits(q, r[1])' /\ r[2] = write'[q]
      <3>1. \A r \in avail : \E q \in Proc : Waits(q, r[1])' /\ r[2] = write'[q]
        BY <2>2, <2>8 DEF Rings
      <3>2. \A r \in avail' : r \in avail \/ (r[1] = d[1] /\ r[2] = write'[p])
        BY <2>1, <2>2
      <3>3. \A r \in avail' : r[1] = d[1] => Waits(p, r[1])'
        BY <2>9
      <3> QED
        BY <3>1, <3>2, <3>3
    <2>13. \A x \in Desc : Used(x)' => Used(x) /\ x # d[1] /\ \E q \in Proc : Waits(q, x)'
      <3>1. \A x : Used(x)' <=> Used(x)
        BY <2>2 DEF Used
      <3> QED
        BY <2>8, <3>1 DEF Rings
    <2>14. \A r \in avail' : ~Used(r[1])'
      <3>1. ~Used(d[1])'
        BY <2>4, <2>13
      <3>2. \A r \in avail : ~Used(r[1])'
        BY <2>13 DEF Rings
      <3> QED
        BY <2>1, <3>1, <3>2
    <2> QED
      BY <2>2, <2>10, <2>11, <2>12, <2>13, <2>14 DEF Rings
  <1>2. ASSUME NEW p \in Proc, Finish(p) PROVE Rings'
    <2>1. /\ pc[p] = "check" /\ ~busy[at[p]]
          /\ info' = [info EXCEPT ![idx[p][1]] = 0]
          /\ idx' = [idx EXCEPT ![p] = <<>>]
          /\ UNCHANGED <<busy, avail, used, at, write>>
      BY <1>2 DEF Finish, Answered
    <2>2. idx'[p] = <<>> /\ idx[p] # <<>> /\ \A q \in Proc : q # p => idx'[q] = idx[q]
      <3>1. idx[p] # <<>>
        BY <2>1 DEF Chains, Asked
      <3> QED
        BY <2>1, <3>1 DEF Chains
    <2>3. \A x : \A q \in Proc : Waits(q, x) => Waits(q, x)'
      BY <2>1, <2>2 DEF Waits
    <2>4. info' \in [Desc -> 0..NBUF]
      <3>1. idx[p][1] \in Desc /\ 0 \in 0..NBUF
        BY <2>2, Request, CacheAssumption
      <3> QED
        BY <2>1, <3>1 DEF Rings
    <2>5. \A q \in Proc : idx'[q] # <<>> => info'[idx'[q][1]] = at'[q]
      <3>1. SUFFICES ASSUME NEW q \in Proc, idx'[q] # <<>> PROVE info'[idx'[q][1]] = at'[q]
        OBVIOUS
      <3>2. q # p /\ idx'[q] = idx[q]
        BY <2>2, <3>1
      <3>3. idx[q][1] # idx[p][1] /\ idx[q][1] \in Desc
        BY <2>2, <3>1, <3>2, OneRequest, Request
      <3> QED
        BY <2>1, <3>1, <3>2, <3>3 DEF Rings
    <2>6. \A r \in avail : \E q \in Proc : Waits(q, r[1])' /\ r[2] = write'[q]
      BY <2>1, <2>3 DEF Rings
    <2>7. \A x : Used(x)' <=> Used(x)
      BY <2>1 DEF Used
    <2>8. \A x \in Desc : Used(x)' => \E q \in Proc : Waits(q, x)'
      BY <2>3, <2>7 DEF Rings
    <2>9. \A r \in avail : ~Used(r[1])'
      BY <2>7 DEF Rings
    <2> QED
      BY <2>1, <2>4, <2>5, <2>6, <2>8, <2>9 DEF Rings
  <1>3. ASSUME Device PROVE Rings'
    <2>1. PICK r \in avail : avail' = avail \ {r} /\ used' = Append(used, r[1])
      BY <1>3 DEF Device
    <2>2. UNCHANGED <<info, idx, at, write, busy>>
      BY <1>3 DEF Device, procVars
    <2>3. \A x : \A q \in Proc : Waits(q, x)' <=> Waits(q, x)
      BY <2>2 DEF Waits
    <2>4. r[1] \in Desc /\ used \in Seq(Desc) /\ avail \in SUBSET (Desc \X BOOLEAN)
      BY DEF Rings
    <2>5. used' \in Seq(Desc) /\ Len(used') = Len(used) + 1 /\ Len(used) \in Nat
          /\ used'[Len(used) + 1] = r[1] /\ \A i \in 1..Len(used) : used'[i] = used[i]
      BY <2>1, <2>4
    <2>6. \A i \in 1..Len(used') : i \in 1..Len(used) \/ i = Len(used) + 1
      BY <2>5
    <2>7. \A x : Used(x)' <=> Used(x) \/ x = r[1]
      BY <2>5, <2>6 DEF Used
    <2>8. \A s \in avail' : s[1] # r[1]
      <3>1. SUFFICES ASSUME NEW s \in avail, s[1] = r[1] PROVE s = r
        BY <2>1
      <3>2. PICK p \in Proc : Waits(p, r[1]) /\ r[2] = write[p]
        BY DEF Rings
      <3>3. PICK q \in Proc : Waits(q, s[1]) /\ s[2] = write[q]
        BY DEF Rings
      <3>4. p = q
        BY <3>1, <3>2, <3>3, OneRequest DEF Waits
      <3> QED
        BY <2>4, <3>1, <3>2, <3>3, <3>4
    <2>9. ~Used(r[1]) /\ \E p \in Proc : Waits(p, r[1])
      BY DEF Rings
    <2>10. \A i, j \in 1..Len(used') : used'[i] = used'[j] => i = j
      <3>1. \A i, j \in 1..Len(used) : used'[i] = used'[j] => i = j
        BY <2>5 DEF Rings
      <3>2. \A i \in 1..Len(used) : used'[i] # r[1]
        BY <2>5, <2>9 DEF Used
      <3> QED
        BY <2>5, <2>6, <3>1, <3>2
    <2>11. \A s \in avail' : ~Used(s[1])'
      BY <2>1, <2>7, <2>8 DEF Rings
    <2>12. avail' \in SUBSET (Desc \X BOOLEAN) /\ info' \in [Desc -> 0..NBUF]
      BY <2>1, <2>2 DEF Rings
    <2>13. \A s \in avail' : \E p \in Proc : Waits(p, s[1])' /\ s[2] = write'[p]
      BY <2>1, <2>2, <2>3 DEF Rings
    <2>14. \A x \in Desc : Used(x)' => \E p \in Proc : Waits(p, x)'
      BY <2>3, <2>7, <2>9 DEF Rings
    <2>15. \A p \in Proc : idx'[p] # <<>> => info'[idx'[p][1]] = at'[p]
      BY <2>2 DEF Rings
    <2> QED
      BY <2>5, <2>10, <2>11, <2>12, <2>13, <2>14, <2>15 DEF Rings
  <1>4. ASSUME IntrEntry PROVE Rings'
    <2>1. /\ used # <<>> /\ used' = Tail(used)
          /\ busy' = [busy EXCEPT ![info[Head(used)]] = FALSE]
          /\ UNCHANGED <<info, avail, idx, at, write>>
      BY <1>4 DEF IntrEntry
    <2>2. used \in Seq(Desc) /\ Len(used) \in Nat /\ Len(used) >= 1 /\ Head(used) = used[1]
          /\ Len(used') = Len(used) - 1 /\ used' \in Seq(Desc)
      BY <2>1 DEF Rings
    <2>3. \A i \in 1..Len(used') : i + 1 \in 1..Len(used) /\ used'[i] = used[i + 1] /\ i + 1 # 1
      BY <2>1, <2>2
    <2>4. PICK p \in Proc : Waits(p, used[1])
      <3>1. Used(used[1]) /\ used[1] \in Desc
        BY <2>2 DEF Used
      <3> QED
        BY <3>1 DEF Rings
    <2>5. info[used[1]] = at[p]
      BY <2>4 DEF Rings, Waits
    <2>6. \A x : \A q \in Proc : Waits(q, x) /\ x # used[1] => Waits(q, x)'
      <3>1. SUFFICES ASSUME NEW q \in Proc, NEW x, Waits(q, x), x # used[1] PROVE Waits(q, x)'
        OBVIOUS
      <3>2. q # p
        BY <2>4, <3>1 DEF Waits
      <3>3. at[q] # at[p]
        BY <2>4, <3>1, <3>2, OneRequest DEF Waits
      <3>4. at[q] \in Buf
        BY <3>1, Request DEF Waits
      <3>5. busy'[at[q]] = busy[at[q]]
        BY <2>1, <2>2, <2>5, <3>3, <3>4 DEF Types
      <3> QED
        BY <2>1, <3>1, <3>5 DEF Waits
    <2>7. \A r \in avail : \E q \in Proc : Waits(q, r[1])' /\ r[2] = write'[q]
      <3>1. SUFFICES ASSUME NEW r \in avail PROVE \E q \in Proc : Waits(q, r[1])' /\ r[2] = write'[q]
        OBVIOUS
      <3>2. PICK q \in Proc : Waits(q, r[1]) /\ r[2] = write[q]
        BY DEF Rings
      <3>3. r[1] # used[1]
        BY <2>2 DEF Rings, Used
      <3> QED
        BY <2>1, <2>6, <3>2, <3>3
    <2>8. \A x : Used(x)' => Used(x) /\ x # used[1]
      <3>1. \A i \in 1..Len(used') : used[i + 1] # used[1]
        BY <2>2, <2>3 DEF Rings
      <3> QED
        BY <2>3, <3>1 DEF Used
    <2>9. \A i, j \in 1..Len(used') : used'[i] = used'[j] => i = j
      <3>1. SUFFICES ASSUME NEW i \in 1..Len(used'), NEW j \in 1..Len(used'), used'[i] = used'[j]
                     PROVE  i = j
        OBVIOUS
      <3>2. used[i + 1] = used[j + 1] /\ i + 1 \in 1..Len(used) /\ j + 1 \in 1..Len(used)
        BY <2>3, <3>1
      <3>3. i + 1 = j + 1
        BY <3>2 DEF Rings
      <3> QED
        BY <3>3
    <2>10. \A r \in avail : ~Used(r[1])'
      BY <2>8 DEF Rings
    <2>11. \A x \in Desc : Used(x)' => \E q \in Proc : Waits(q, x)'
      BY <2>6, <2>8 DEF Rings
    <2> QED
      BY <2>1, <2>2, <2>7, <2>9, <2>10, <2>11 DEF Rings
  <1>5. ASSUME UNCHANGED <<info, avail, used, idx, busy>>,
               \E p \in Proc : idx[p] = <<>> /\ \A q \in Proc \ {p} : at'[q] = at[q] /\ write'[q] = write[q]
        PROVE  Rings'
    BY <1>5, RingsSame
  <1>6. ASSUME UNCHANGED <<info, avail, used, idx, busy, at, write>> PROVE Rings'
    BY <1>6, RingsSame
  <1>7. ASSUME NEW p \in Proc,
               \/ Bget(p) \/ Acquire(p) \/ Bwrite(p) \/ Brelse(p)
        PROVE  Rings'
    <2>1. UNCHANGED <<info, avail, used, idx, busy>>
      BY <1>7 DEF Bget, Acquire, Bwrite, Brelse, diskVars
    <2>2. idx[p] = <<>>
      BY <1>7 DEF Bget, Acquire, Bwrite, Brelse, Chains, Asked
    <2>3. \A q \in Proc \ {p} : at'[q] = at[q] /\ write'[q] = write[q]
      BY <1>7 DEF Bget, BgetHit, BgetRecycle, Acquire, Bwrite, Brelse, Types
    <2> QED
      BY <2>1, <2>2, <2>3, <1>5
  <1>8. ASSUME NEW p \in Proc,
               \/ AllocFails(p) \/ WaitOn(p) \/ LogWrite(p)
               \/ Written(p) \/ Releasesleep(p) \/ Kill(p)
        PROVE  Rings'
    <2>1. UNCHANGED <<info, avail, used, idx, busy, at, write>>
      BY <1>8 DEF AllocFails, WaitOn, LogWrite, Written, Releasesleep, Kill, diskVars, bufVars
    <2> QED
      BY <2>1, <1>6
  <1>9. ASSUME Interrupt PROVE Rings'
    BY <1>9, <1>4, <1>6, Interrupts
  <1> QED
    BY <1>1, <1>2, <1>3, <1>7, <1>8, <1>9 DEF Running, ProcStep
-----------------------------------------------------------------------------
(* Data: when a buffer and the disk agree.                                  *)

\* A step that leaves data, disk, blocks and pins alone, makes nothing valid,
\* and whose processes' requests stay what they were.
LEMMA DataSame ==
  ASSUME Data, UNCHANGED <<data, disk, blockno, pinned, avail, idx>>,
         \A b \in Buf : valid'[b] => valid[b],
         \A b \in Buf, p \in Proc :
             /\ at[p] = b /\ pc[p] \in OnDisk /\ write[p]
                  => at'[p] = b /\ pc'[p] \in OnDisk /\ write'[p]
             /\ at'[p] = b /\ (idx[p] # <<>> \/ pc'[p] = "written")
                  => at[p] = b /\ (pc'[p] = "written" => pc[p] = "written")
  PROVE  Data'
  <1>1. \A b \in Buf : Dirty(b) => Dirty(b)'
    BY DEF Dirty
  <1>2. \A b \in Buf : Same(b)' <=> Same(b)
    BY DEF Same
  <1>3. \A p \in Proc : Answer(p)' <=> Answer(p) 
    BY DEF Answer
  <1>4. \A b \in Buf : valid'[b] /\ ~Dirty(b)' => Same(b)'
    BY <1>1, <1>2 DEF Data
  <1>5. \A p \in Proc, b \in Buf : at'[p] = b /\ (Answer(p)' \/ pc'[p] = "written") => Same(b)'
    BY <1>2, <1>3 DEF Data, Answer
  <1> QED
    BY <1>4, <1>5 DEF Data

LEMMA DataStep ==
  ASSUME Control, Requests, Data, Running
  PROVE  Data'
  <1> USE DEF Control, Requests
  <1>1. ASSUME NEW p \in Proc, Bget(p) PROVE Data'
    <2> DEFINE n == todo[p][1][2]
    <2>1. /\ pc[p] = "idle" /\ pc' = [pc EXCEPT ![p] = "lock"]
          /\ UNCHANGED <<data, disk, write, pinned, avail, idx>>
      BY <1>1, Gets
    <2>2. PICK b \in Buf : at' = [at EXCEPT ![p] = b] /\ (Hit(p, b, n) \/ Recycle(p, b, n))
      BY <1>1, Gets
    <2> HIDE DEF n
    <2>3. idx[p] = <<>>
      BY <2>1 DEF Chains, Asked
    <2>4. \A q \in Proc : q # p => at'[q] = at[q] /\ pc'[q] = pc[q]
      BY <2>1, <2>2 DEF Types
    <2>5. pc'[p] = "lock" /\ "lock" \notin OnDisk /\ pc[p] \notin OnDisk
      BY <2>1 DEF Types, OnDisk
    <2>6. CASE Hit(p, b, n)
      <3>1. UNCHANGED <<blockno, valid>>
        BY <2>6 DEF Hit
      <3> QED
        BY <2>1, <2>3, <2>4, <2>5, <3>1, DataSame
    <2>7. CASE Recycle(p, b, n)
      <3>1. /\ \A c \in Buf : c # b => blockno'[c] = blockno[c] /\ valid'[c] = valid[c]
            /\ ~valid'[b]
        BY <2>7 DEF Recycle, Types
      <3>2. \A c \in Buf : c # b /\ Dirty(c) => Dirty(c)'
        BY <2>1, <2>4, <2>5, <3>1 DEF Dirty
      <3>3. \A c \in Buf : c # b => (Same(c)' <=> Same(c))
        BY <2>1, <3>1 DEF Same
      <3>4. \A q \in Proc : (Answer(q)' <=> Answer(q)) /\ ~Answer(p)
        BY <2>1, <2>3 DEF Answer
      <3>5. \A q \in Proc, c \in Buf : at'[q] = c /\ (Answer(q)' \/ pc'[q] = "written")
               => q # p /\ c # b /\ at[q] = c /\ (Answer(q) \/ pc[q] = "written")
        BY <2>4, <2>5, <2>7, <3>4 DEF Recycle
      <3>6. \A c \in Buf : valid'[c] /\ ~Dirty(c)' => Same(c)'
        BY <3>1, <3>2, <3>3 DEF Data
      <3>7. \A q \in Proc, c \in Buf : at'[q] = c /\ (Answer(q)' \/ pc'[q] = "written") => Same(c)'
        BY <3>3, <3>5 DEF Data
      <3> QED
        BY <3>6, <3>7 DEF Data
    <2> QED
      BY <2>2, <2>6, <2>7
  <1>2. ASSUME NEW p \in Proc, Submit(p) PROVE Data'
    <2>1. PICK d \in [1..3 -> free] : /\ idx' = [idx EXCEPT ![p] = d]
                                     /\ avail' = avail \cup {<<d[1], write[p]>>}
      BY <1>2 DEF Submit
    <2>2. pc[p] = "alloc" /\ UNCHANGED <<at, write, blockno, valid, data, disk, pinned>>
          /\ pc' = [pc EXCEPT ![p] = "waitDisk"]
      BY <1>2 DEF Submit, Goto
    <2>3. \A b \in Buf : (Dirty(b)' <=> Dirty(b)) /\ (Same(b)' <=> Same(b))
      BY <2>2 DEF Dirty, Same, OnDisk, Types
    <2>4. \A q \in Proc : Answer(q)' => q # p /\ Answer(q)
      <3>1. idx'[p] = d /\ \A q \in Proc : q # p => idx'[q] = idx[q]
        BY <2>1 DEF Chains
      <3>2. <<d[1], write[p]>>[1] = d[1] /\ <<d[1], write[p]>> \in avail'
        BY <2>1
      <3>3. ~Answer(p)'
        BY <3>1, <3>2 DEF Answer
      <3> QED
        BY <2>1, <3>1, <3>3 DEF Answer
    <2>5. \A q \in Proc : pc'[q] = "written" => pc[q] = "written"
      BY <2>2 DEF Types
    <2>6. \A b \in Buf : valid'[b] /\ ~Dirty(b)' => Same(b)'
      BY <2>2, <2>3 DEF Data
    <2>7. \A q \in Proc, b \in Buf : at'[q] = b /\ (Answer(q)' \/ pc'[q] = "written") => Same(b)'
      BY <2>2, <2>3, <2>4, <2>5 DEF Data
    <2> QED
      BY <2>6, <2>7 DEF Data
  <1>3. ASSUME NEW p \in Proc, Finish(p) PROVE Data'
    <2>1. /\ pc[p] = "check" /\ ~busy[at[p]] /\ pc' = AfterFree(p)
          /\ idx' = [idx EXCEPT ![p] = <<>>] /\ valid' = [valid EXCEPT ![at[p]] = TRUE]
          /\ UNCHANGED <<blockno, data, disk, at, write, pinned, avail>>
      BY <1>3 DEF Finish, Answered
    <2>2. idx[p] # <<>> /\ at[p] \in Buf /\ idx'[p] = <<>>
          /\ \A q \in Proc : q # p => idx'[q] = idx[q]
      BY <2>1, HasBuffer DEF Chains, Asked
    <2>3. Answer(p)
      <3>1. SUFFICES ASSUME NEW r \in avail, r[1] = idx[p][1] PROVE FALSE
        BY <2>2 DEF Answer
      <3>2. PICK q \in Proc : Waits(q, r[1])
        BY DEF Rings
      <3>3. q = p
        BY <2>2, <3>1, <3>2, OneRequest DEF Waits
      <3> QED
        BY <2>1, <3>2, <3>3 DEF Waits
    <2>4. Same(at[p])
      BY <2>2, <2>3 DEF Data
    <2>5. PICK b \in Buf : b = at[p]
      BY <2>2
    <2>6. \A c \in Buf : Same(c)' <=> Same(c)
      BY <2>1 DEF Same
    <2>7. \A q \in Proc : q # p => (pc'[q] \in OnDisk <=> pc[q] \in OnDisk)
                                /\ (pc'[q] = "written" => pc[q] = "written")
      BY <2>1 DEF AfterFree, OnDisk, Types
    <2>8. \A c \in Buf : c # b => valid'[c] = valid[c] /\ (Dirty(c) => Dirty(c)')
      BY <2>1, <2>2, <2>5, <2>7 DEF Dirty, Types
    <2>9. \A q \in Proc : q # p /\ Answer(q)' => Answer(q)
      BY <2>1, <2>2 DEF Answer
    <2>10. ~Answer(p)'
      BY <2>2 DEF Answer
    <2>11. \A c \in Buf : valid'[c] /\ ~Dirty(c)' => Same(c)'
      BY <2>4, <2>5, <2>6, <2>8 DEF Data
    <2>12. \A q \in Proc, c \in Buf : at'[q] = c /\ (Answer(q)' \/ pc'[q] = "written") => Same(c)'
      BY <2>1, <2>4, <2>5, <2>6, <2>7, <2>9, <2>10 DEF Data
    <2> QED
      BY <2>11, <2>12 DEF Data
  <1>4. ASSUME NEW p \in Proc, LogWrite(p) PROVE Data'
    <2>1. at[p] \in Buf /\ blockno[at[p]] \in Block
      BY <1>4, HasBuffer DEF LogWrite
    <2>2. PICK b \in Buf, n \in Block : b = at[p] /\ n = blockno[b]
      BY <2>1
    <2>3. /\ pc[p] = "held" /\ pinned' = pinned \cup {n} /\ pc' = [pc EXCEPT ![p] = "done"]
          /\ UNCHANGED <<blockno, valid, disk, at, write, avail, idx>>
          /\ \A c \in Buf : c # b => data'[c] = data[c]
      BY <1>4, <2>2 DEF LogWrite, Goto, Types, diskVars
    <2>4. \A c \in Buf : c # b => (Same(c)' <=> Same(c))
      BY <2>3 DEF Same
    <2>5. Dirty(b)' /\ \A c \in Buf : Dirty(c) => Dirty(c)'
      BY <2>2, <2>3 DEF Dirty, OnDisk, Types
    <2>6. \A q \in Proc : (Answer(q) \/ pc[q] = "written") => pc[q] \in Inside /\ q # p
      BY <2>3 DEF Answer, Chains, Asked, Inside, OnDisk
    <2>7. \A q \in Proc : (Answer(q) \/ pc[q] = "written") => at[q] # b
      BY <2>2, <2>3, <2>6, Alone DEF Inside
    <2>8. \A q \in Proc : (Answer(q)' <=> Answer(q)) /\ (pc'[q] = "written" => pc[q] = "written")
      BY <2>3 DEF Answer, Types
    <2>9. \A c \in Buf : valid'[c] /\ ~Dirty(c)' => Same(c)'
      BY <2>3, <2>4, <2>5 DEF Data
    <2>10. \A q \in Proc, c \in Buf : at'[q] = c /\ (Answer(q)' \/ pc'[q] = "written") => Same(c)'
      BY <2>3, <2>4, <2>7, <2>8 DEF Data
    <2> QED
      BY <2>9, <2>10 DEF Data
  <1>5. ASSUME NEW p \in Proc, Bwrite(p) PROVE Data'
    <2>1. at[p] \in Buf
      BY <1>5, HasBuffer DEF Bwrite
    <2>2. PICK b \in Buf : b = at[p]
      BY <2>1
    <2>3. /\ pc[p] = "held" /\ pc' = [pc EXCEPT ![p] = "alloc"]
          /\ write' = [write EXCEPT ![p] = TRUE]
          /\ UNCHANGED <<blockno, valid, disk, at, avail, idx, pinned>>
          /\ \A c \in Buf : c # b => data'[c] = data[c]
      BY <1>5, <2>2 DEF Bwrite, Goto, Types, diskVars
    <2>4. \A c \in Buf : c # b => (Same(c)' <=> Same(c))
      BY <2>3 DEF Same
    <2>5. \A c \in Buf : Dirty(c) => Dirty(c)'
      BY <2>3 DEF Dirty, OnDisk, Types
    <2>6. Dirty(b)'
      <3>1. pc'[p] \in OnDisk /\ write'[p] /\ at'[p] = b
        BY <2>2, <2>3 DEF OnDisk, Types
      <3> QED
        BY <3>1 DEF Dirty
    <2>7. \A q \in Proc : (Answer(q) \/ pc[q] = "written") => pc[q] \in Inside /\ q # p
      BY <2>3 DEF Answer, Chains, Asked, Inside, OnDisk
    <2>8. \A q \in Proc : (Answer(q) \/ pc[q] = "written") => at[q] # b
      BY <2>2, <2>3, <2>7, Alone DEF Inside
    <2>9. \A q \in Proc : (Answer(q)' <=> Answer(q)) /\ (pc'[q] = "written" => pc[q] = "written")
      BY <2>3 DEF Answer, Types
    <2>10. \A c \in Buf : valid'[c] /\ ~Dirty(c)' => Same(c)'
      BY <2>3, <2>4, <2>5, <2>6 DEF Data
    <2>11. \A q \in Proc, c \in Buf : at'[q] = c /\ (Answer(q)' \/ pc'[q] = "written") => Same(c)'
      BY <2>3, <2>4, <2>8, <2>9 DEF Data
    <2> QED
      BY <2>10, <2>11 DEF Data
  <1>6. ASSUME NEW p \in Proc, Written(p) PROVE Data'
    <2>1. at[p] \in Buf /\ blockno[at[p]] \in Block
      BY <1>6, HasBuffer DEF Written
    <2>2. PICK b \in Buf, n \in Block : b = at[p] /\ n = blockno[b]
      BY <2>1
    <2>3. /\ pc[p] = "written" /\ pinned' = pinned \ {n} /\ pc' = [pc EXCEPT ![p] = "done"]
          /\ UNCHANGED <<blockno, valid, data, disk, at, write, avail, idx>>
      BY <1>6, <2>2 DEF Written, Goto, diskVars
    <2>4. \A c \in Buf : Same(c)' <=> Same(c)
      BY <2>3 DEF Same
    <2>5. \A c \in Buf : c # b => blockno[c] # n
      BY <2>2, CacheAssumption DEF Blocks
    <2>6. \A c \in Buf : c # b /\ Dirty(c) => Dirty(c)'
      BY <2>3, <2>5 DEF Dirty, OnDisk, Types
    <2>7. Same(b)
      BY <2>2, <2>3 DEF Data
    <2>8. \A q \in Proc : (Answer(q)' <=> Answer(q)) /\ (pc'[q] = "written" => pc[q] = "written")
      BY <2>3 DEF Answer, Types
    <2>9. \A c \in Buf : valid'[c] /\ ~Dirty(c)' => Same(c)'
      BY <2>3, <2>4, <2>6, <2>7 DEF Data
    <2>10. \A q \in Proc, c \in Buf : at'[q] = c /\ (Answer(q)' \/ pc'[q] = "written") => Same(c)'
      BY <2>3, <2>4, <2>8 DEF Data
    <2> QED
      BY <2>9, <2>10 DEF Data
  <1>7. ASSUME Device PROVE Data'
    <2>1. PICK r \in avail :
            /\ avail' = avail \ {r}
            /\ \/ r[2] /\ disk' = [disk EXCEPT ![blockno[info[r[1]]]] = data[info[r[1]]]] /\ UNCHANGED data
               \/ ~r[2] /\ data' = [data EXCEPT ![info[r[1]]] = disk[blockno[info[r[1]]]]] /\ UNCHANGED disk
      BY <1>7 DEF Device
    <2>2. UNCHANGED <<blockno, valid, pc, at, write, idx, pinned>>
      BY <1>7 DEF Device, procVars
    <2>3. PICK p \in Proc : Waits(p, r[1])
      BY DEF Rings
    <2>4. /\ info[r[1]] = at[p] /\ at[p] \in Buf /\ blockno[at[p]] \in Block
          /\ idx[p] # <<>> /\ idx[p][1] = r[1]
      BY <2>3, Request DEF Rings, Waits
    <2>5. PICK b \in Buf, n \in Block : b = at[p] /\ n = blockno[b]
      BY <2>4
    <2>6. \A c \in Buf : c # b => blockno[c] # n
      BY <2>5, CacheAssumption DEF Blocks
    <2>7. Same(b)'
      <3>1. CASE /\ disk' = [disk EXCEPT ![n] = data[b]] /\ UNCHANGED data
        BY <2>2, <2>5, <3>1 DEF Same, Types
      <3>2. CASE /\ data' = [data EXCEPT ![b] = disk[n]] /\ UNCHANGED disk
        BY <2>2, <2>5, <3>2 DEF Same, Types
      <3> QED
        BY <2>1, <2>4, <2>5, <3>1, <3>2
    <2>8. \A c \in Buf : c # b /\ blockno[c] # NoBlock => (Same(c)' <=> Same(c))
      <3>1. \A c \in Buf : c # b => data'[c] = data[c]
        BY <2>1, <2>4, <2>5 DEF Types
      <3>2. \A m \in Block : m # n => disk'[m] = disk[m]
        BY <2>1, <2>4, <2>5 DEF Types
      <3> QED
        BY <2>2, <2>6, <3>1, <3>2 DEF Same, Types
    <2>9. \A c \in Buf : Dirty(c)' <=> Dirty(c)
      BY <2>2 DEF Dirty
    <2>10. \A q \in Proc : Answer(q)' => Answer(q) \/ q = p
      <3>1. SUFFICES ASSUME NEW q \in Proc, Answer(q)', ~Answer(q) PROVE q = p
        OBVIOUS
      <3>2. idx[q] # <<>> /\ idx[q][1] = r[1]
        BY <2>1, <2>2, <3>1 DEF Answer
      <3> QED
        BY <2>4, <3>2, OneRequest
    <2>11. \A c \in Buf : valid'[c] /\ ~Dirty(c)' => Same(c)'
      BY <2>2, <2>7, <2>8, <2>9 DEF Data, Blocks
    <2>12. \A q \in Proc, c \in Buf : at'[q] = c /\ (Answer(q)' \/ pc'[q] = "written") => Same(c)'
      <3>1. SUFFICES ASSUME NEW q \in Proc, NEW c \in Buf, at[q] = c, c # b,
                            Answer(q)' \/ pc[q] = "written"
                     PROVE  Same(c)'
        BY <2>2, <2>7
      <3>2. Answer(q) \/ pc[q] = "written"
        BY <2>5, <2>10, <3>1
      <3>3. pc[q] # "idle"
        BY <3>2 DEF Answer, Chains, Asked
      <3>4. blockno[c] # NoBlock
        BY <3>1, <3>3, HasBuffer, CacheAssumption
      <3> QED
        BY <2>8, <3>1, <3>2, <3>4 DEF Data
    <2> QED
      BY <2>11, <2>12 DEF Data
  <1>8. ASSUME NEW p \in Proc,
               \/ Acquire(p) \/ AllocFails(p) \/ WaitOn(p) \/ Releasesleep(p) \/ Brelse(p) \/ Kill(p)
        PROVE  Data'
    <2>1. UNCHANGED <<data, disk, blockno, pinned, avail, idx, valid>>
      BY <1>8 DEF Acquire, AllocFails, WaitOn, Releasesleep, Brelse, Kill, bufVars, diskVars
    <2>2. \A q \in Proc : q # p => at'[q] = at[q] /\ write'[q] = write[q]
      BY <1>8 DEF Acquire, AllocFails, WaitOn, Releasesleep, Brelse, Kill, Types
    <2>3. \A q \in Proc : pc[q] \in OnDisk => pc'[q] \in OnDisk /\ at'[q] = at[q] /\ write'[q] = write[q]
      BY <1>8 DEF Acquire, AllocFails, WaitOn, Releasesleep, Woken, Brelse, Kill, OnDisk, Goto, Types
    <2>4. \A q \in Proc : pc'[q] = "written" => pc[q] = "written" /\ at'[q] = at[q]
      BY <1>8, ZenonT(30) DEF Acquire, AllocFails, WaitOn, Releasesleep, Woken, Brelse, Kill, Goto, Types
    <2>5. \A q \in Proc : idx[q] # <<>> => at'[q] = at[q]
      <3>1. \A q \in Proc : idx[q] # <<>> => pc[q] \in OnDisk
        BY DEF Chains, Asked, OnDisk
      <3> QED
        BY <2>3, <3>1
    <2> QED
      BY <2>1, <2>3, <2>4, <2>5, DataSame
  <1>9. ASSUME Interrupt PROVE Data'
    <2>1. UNCHANGED <<data, disk, blockno, pinned, avail, idx, valid, at, write>>
      BY <1>9, Interrupts
    <2>2. \A q \in Proc : (pc[q] \in OnDisk => pc'[q] \in OnDisk) /\ (pc'[q] = "written" => pc[q] = "written")
      BY <1>9, Interrupts DEF IntrEntry, Woken, OnDisk
    <2> QED
      BY <2>1, <2>2, DataSame
  <1> QED
    BY <1>1, <1>2, <1>3, <1>4, <1>5, <1>6, <1>7, <1>8, <1>9 DEF Running, ProcStep
-----------------------------------------------------------------------------
(* The invariant, and what the runs check on an instance.                   *)

LEMMA InitInv == ASSUME Init PROVE CacheInv
  <1> USE DEF Init, CacheInit, DriverInit
  <1>1. Types
    <2>1. IsFiniteSet(pinned) /\ pinned \in SUBSET Block
      BY FS_EmptySet
    <2>2. at \in [Proc -> 0..NBUF]
      BY CacheAssumption
    <2>3. todo \in [Proc -> Seq({"read", "log", "write"} \X Block)]
      BY CacheAssumption
    <2>4. pc \in [Proc -> Places]
      BY DEF Places
    <2>5. disk \in [Block -> Content] /\ data \in [Buf -> Content]
      BY CacheAssumption
    <2> QED
      BY <2>1, <2>2, <2>3, <2>4, <2>5 DEF Types
  <1>2. Listed
    <2>1. \A b \in Buf : NBUF + 1 - b \in Buf /\ NBUF + 1 - (NBUF + 1 - b) = b
      BY CacheAssumption DEF Buf
    <2>2. lru \in [Buf -> Buf] /\ \A b \in Buf : \E i \in Buf : lru[i] = b
      BY <2>1
    <2>3. \A i, j \in Buf : lru[i] = lru[j] => i = j
      BY <2>1
    <2> QED
      BY <2>2, <2>3 DEF Listed
  <1>3. At
    BY DEF At, OnDisk
  <1>4. Locks
    BY CacheAssumption DEF Locks, Inside, OnDisk
  <1>5. Blocks
    <2>1. \A b \in Buf : Users(b) = {} /\ Pins(b) = 0
      BY CacheAssumption DEF Users, Pins, Buf
    <2>2. \A b \in Buf : Cardinality(Users(b)) = 0
      BY <2>1, FS_EmptySet
    <2> QED
      BY <2>1, <2>2 DEF Blocks
  <1>6. Full
    BY DEF Full
  <1>7. Chains
    BY DEF Chains, Has, Asked
  <1>8. Rings
    <2>1. info \in [Desc -> 0..NBUF]
      BY CacheAssumption
    <2>2. used \in Seq(Desc) /\ Len(used) = 0 /\ 1..0 = {}
      OBVIOUS
    <2> QED
      BY <2>1, <2>2 DEF Rings, Used
  <1>9. Data
    BY DEF Data, Answer
  <1> QED
    BY <1>1, <1>2, <1>3, <1>4, <1>5, <1>6, <1>7, <1>8, <1>9 DEF CacheInv, Control, Requests

LEMMA NextInv == ASSUME CacheInv, [Next]_vars PROVE CacheInv'
  <1>1. Full'
    <2>1. CASE Next
      BY <2>1, FullStep DEF CacheInv, Control
    <2>2. CASE UNCHANGED vars
      BY <2>2 DEF CacheInv, Control, Full, Unused, vars, bufVars
    <2> QED
      BY <2>1, <2>2
  <1>2. CASE Running
    <2> USE DEF CacheInv, Control, Requests
    <2>1. Types'
      BY <1>2, TypesStep
    <2>2. Listed'
      BY <1>2, ListedStep
    <2>3. At' /\ Locks'
      BY <1>2, AtStep, LocksStep
    <2>4. Blocks'
      BY <1>2, BlocksStep
    <2>5. Chains' /\ Rings'
      BY <1>2, <2>1, ChainsStep, RingsStep
    <2>6. Data'
      BY <1>2, DataStep
    <2> QED
      BY <1>1, <2>1, <2>2, <2>3, <2>4, <2>5, <2>6
  <1>3. CASE UNCHANGED Rest
    BY <1>1, <1>3
       DEF CacheInv, Control, Requests, Data, Types, Listed, At, Locks, Blocks, Chains,
           Rings, Users, Pins, Has, Waits, Used, Same, Answer, Dirty,
           Rest, bufVars, diskVars, procVars
  <1> QED
    BY <1>2, <1>3, RunsOrRests

THEOREM CacheInvariant == Spec => []CacheInv
  BY InitInv, NextInv, PTL DEF Spec

\* Types, one buffer for a block, references that count the users and the pins,
\* descriptors and requests that match: bget, brelse, bpin, bunpin,
\* virtio_disk_rw and virtio_disk_intr, whatever the device answers first.
THEOREM CacheIsConsistent == Spec => []CacheConsistent
  <1>1. ASSUME CacheInv PROVE CacheConsistent
    <2> USE <1>1 DEF CacheInv, Control, Requests
    <2>1. \A b \in Buf : refcnt[b] = Cardinality(Users(b)) + Pins(b)
      BY DEF Blocks
    <2>2. TypeOK
      <3>1. \A b \in Buf : refcnt[b] \in Nat
        BY <2>1, UsersFinite DEF Pins
      <3>2. IsInjective(lru)
        BY DEF Listed, IsInjective
      <3>3. Range(lru) = Buf
        BY DEF Listed, Range
      <3>4. used \in Seq(Desc)
        BY DEF Rings
      <3>5. Range(used) \subseteq Desc
        BY <3>4 DEF Range
      <3>6. free \subseteq Desc
        BY DEF Chains
      <3> QED
        BY <3>1, <3>2, <3>3, <3>5, <3>6 DEF TypeOK, Types
    <2>3. OneBuffer
      BY DEF OneBuffer, Blocks
    <2>4. RefsAreUsers
      BY <2>1 DEF RefsAreUsers, Users, Pins
    <2>5. RequestsMatch
      <3>1. \A q \in Proc, d \in Desc : d \in Range(idx[q]) <=> Has(q, d)
        <4>1. SUFFICES ASSUME NEW q \in Proc, NEW d \in Desc
                       PROVE  d \in Range(idx[q]) <=> Has(q, d)
          OBVIOUS
        <4>2. CASE idx[q] = <<>>
          BY <4>2 DEF Has, Range
        <4>3. CASE idx[q] # <<>>
          <5>1. idx[q] \in [1..3 -> Desc]
            BY <4>3, Request
          <5> QED
            BY <4>3, <5>1 DEF Has, Range
        <4> QED
          BY <4>2, <4>3
      <3>2. \A d \in Desc : Cardinality({q \in Proc : d \in Range(idx[q])})
                                = IF d \in free THEN 0 ELSE 1
        <4>1. SUFFICES ASSUME NEW d \in Desc
                       PROVE  Cardinality({q \in Proc : d \in Range(idx[q])})
                                = IF d \in free THEN 0 ELSE 1
          OBVIOUS
        <4>2. CASE d \in free
          <5>1. {q \in Proc : d \in Range(idx[q])} = {}
            BY <3>1, <4>2 DEF Chains
          <5> QED
            BY <4>2, <5>1, FS_EmptySet
        <4>3. CASE d \notin free
          <5>1. PICK q \in Proc : Has(q, d)
            BY <4>3 DEF Chains
          <5>2. \A r \in Proc : Has(r, d) => r = q
            BY <5>1 DEF Chains
          <5>3. {r \in Proc : d \in Range(idx[r])} = {q}
            BY <3>1, <5>1, <5>2
          <5> QED
            BY <4>3, <5>3, FS_Singleton
        <4> QED
          BY <4>2, <4>3
      <3>3. \A d \in Range(used) \cup {r[1] : r \in avail} : \E q \in Proc : Waits(q, d)
        <4>1. used \in Seq(Desc)
          BY DEF Rings
        <4>2. \A d \in Range(used) : Used(d) /\ d \in Desc
          BY <4>1 DEF Range, Used
        <4> QED
          BY <4>2 DEF Rings
      <3>4. \A q \in Proc : \A d : Waits(q, d) =>
              idx[q] # <<>> /\ idx[q][1] = d /\ info[d] = at[q] /\ lock[at[q]] = q
        BY Request DEF Waits, Rings, Locks
      <3> QED
        BY <3>2, <3>3, <3>4 DEF RequestsMatch
    <2> QED
      BY <2>2, <2>3, <2>4, <2>5 DEF CacheConsistent
  <1> QED
    BY <1>1, CacheInvariant, PTL

\* bget panics only when each buffer is in use or pinned: no reference is leaked,
\* however many processes and pins there are for however few buffers.
THEOREM PanicsWhenFull == Spec => []PanicsOnlyWhenFull
  <1>1. ASSUME CacheInv PROVE PanicsOnlyWhenFull
    <2>1. SUFFICES ASSUME panicked, NEW b \in Buf, ~\E p \in Proc : at[p] = b,
                          blockno[b] \notin pinned
                   PROVE  FALSE
      BY DEF PanicsOnlyWhenFull
    <2>2. Users(b) = {} /\ Pins(b) = 0
      BY <2>1 DEF Users, Pins
    <2>3. refcnt[b] = 0
      BY <1>1, <2>2, FS_EmptySet DEF CacheInv, Control, Blocks
    <2> QED
      BY <1>1, <2>1, <2>3 DEF CacheInv, Control, Full, Unused
  <1> QED
    BY <1>1, CacheInvariant, PTL

\* When bwrite has returned the disk has the block: the commit point of the log.
THEOREM WritesAreDurable == Spec => []WriteIsDurable
  <1>1. ASSUME CacheInv PROVE WriteIsDurable
    <2>1. SUFFICES ASSUME NEW p \in Proc, pc[p] = "written"
                   PROVE  disk[blockno[at[p]]] = data[at[p]]
      BY DEF WriteIsDurable
    <2>2. at[p] \in Buf
      BY <1>1, <2>1, HasBuffer DEF CacheInv, Control
    <2>3. Same(at[p])
      BY <1>1, <2>1, <2>2 DEF CacheInv, Data
    <2> QED
      BY <2>3 DEF Same
  <1> QED
    BY <1>1, CacheInvariant, PTL
-----------------------------------------------------------------------------
(* The cache as a store of blocks.                                          *)

\* The process that holds a block, and the block's value, without CHOOSE.
Holds(p, n) == at[p] # 0 /\ blockno[at[p]] = n /\ lock[at[p]] = p /\ valid[at[p]]
Holders ==
  /\ \A n \in Block, p \in Proc : Holds(p, n) => p = HolderOf(n)
  /\ \A n \in Block : (\A p \in Proc : ~Holds(p, n)) => HolderOf(n) = Nobody
Values ==
  \A n \in Block :
     /\ \A b \in Buf : blockno[b] = n /\ valid[b] => Current(n) = data[b]
     /\ (\A b \in Buf : blockno[b] = n => ~valid[b]) => Current(n) = disk[n]
Abstract == Holders /\ Values

LEMMA AbstractIs == ASSUME CacheInv PROVE Abstract
  <1> USE DEF CacheInv, Control
  <1>1. Holders
    <2>1. SUFFICES ASSUME NEW n \in Block
                   PROVE  /\ \A p \in Proc : Holds(p, n) => p = HolderOf(n)
                          /\ (\A p \in Proc : ~Holds(p, n)) => HolderOf(n) = Nobody
      BY DEF Holders
    <2>2. \A p, q \in Proc : Holds(p, n) /\ Holds(q, n) => p = q
      <3>1. \A p \in Proc : at[p] # 0 => at[p] \in Buf
        BY CacheAssumption DEF Types, Buf
      <3> QED
        BY <3>1, CacheAssumption DEF Holds, Blocks
    <2> DEFINE H == {p \in Proc : at[p] # 0 /\ blockno[at[p]] = n /\ lock[at[p]] = p /\ valid[at[p]]}
    <2>3. HolderOf(n) = IF H = {} THEN Nobody ELSE CHOOSE p \in H : TRUE
      BY DEF HolderOf
    <2>4. \A p : p \in H <=> p \in Proc /\ Holds(p, n)
      BY DEF Holds
    <2> HIDE DEF H
    <2>5. \A p \in Proc : Holds(p, n) => p = HolderOf(n)
      BY <2>2, <2>3, <2>4
    <2>6. (\A p \in Proc : ~Holds(p, n)) => HolderOf(n) = Nobody
      BY <2>3, <2>4
    <2> QED
      BY <2>5, <2>6
  <1>2. Values
    <2>1. SUFFICES ASSUME NEW n \in Block
                   PROVE  /\ \A b \in Buf : blockno[b] = n /\ valid[b] => Current(n) = data[b]
                          /\ (\A b \in Buf : blockno[b] = n => ~valid[b]) => Current(n) = disk[n]
      BY DEF Values
    <2>2. \A b, c \in Cached(n) : b = c
      BY CacheAssumption DEF Cached, Blocks
    <2>3. ASSUME NEW b \in Buf, blockno[b] = n, valid[b]
          PROVE  Current(n) = data[b]
      <3>1. b \in Cached(n)
        BY <2>3 DEF Cached
      <3>2. (CHOOSE c \in Cached(n) : valid[c]) = b
        BY <2>2, <2>3, <3>1
      <3> QED
        BY <2>3, <3>1, <3>2 DEF Current
    <2>4. (\A b \in Buf : blockno[b] = n => ~valid[b]) => Current(n) = disk[n]
      BY DEF Current, Cached
    <2> QED
      BY <2>3, <2>4
  <1> QED
    BY <1>1, <1>2 DEF Abstract

\* The store's view of a step: nothing, one block taken, changed or released.
LEMMA Unseen ==
  ASSUME \A n \in Block : Current(n)' = Current(n) /\ HolderOf(n)' = HolderOf(n)
  PROVE  UNCHANGED Store!storeVars
  BY DEF Store!storeVars

\* Holders, when those who hold stay the same.
LEMMA HoldersSame ==
  ASSUME Holders, Holders', \A n \in Block : \A p \in Proc : Holds(p, n)' <=> Holds(p, n)
  PROVE  \A n \in Block : HolderOf(n)' = HolderOf(n)
  <1>1. SUFFICES ASSUME NEW n \in Block PROVE HolderOf(n)' = HolderOf(n)
    OBVIOUS
  <1>2. CASE \E p \in Proc : Holds(p, n)
    BY <1>2 DEF Holders
  <1>3. CASE \A p \in Proc : ~Holds(p, n)
    BY <1>3 DEF Holders
  <1> QED
    BY <1>2, <1>3

\* Values, when a buffer that is valid keeps its data and one that is not
\* leaves the block to the disk.
LEMMA ValuesSame ==
  ASSUME Values, Values', UNCHANGED <<blockno, valid, disk>>,
         \A b \in Buf : valid[b] => data'[b] = data[b]
  PROVE  \A n \in Block : Current(n)' = Current(n)
  <1>1. SUFFICES ASSUME NEW n \in Block PROVE Current(n)' = Current(n)
    OBVIOUS
  <1>2. CASE \E b \in Buf : blockno[b] = n /\ valid[b]
    BY <1>2 DEF Values
  <1>3. CASE \A b \in Buf : blockno[b] = n => ~valid[b]
    BY <1>3 DEF Values
  <1> QED
    BY <1>2, <1>3

\* One process begins to hold a block nobody holds: acquiresleep.
LEMMA Taken ==
  ASSUME Holders, Holders', NEW p \in Proc, NEW m \in Block,
         \A n \in Block : Current(n)' = Current(n),
         \A q \in Proc : ~Holds(q, m), Holds(p, m)',
         \A n \in Block : \A q \in Proc : n # m => (Holds(q, n)' <=> Holds(q, n))
  PROVE  Store!Next
  <1>1. HolderOf(m) = Nobody /\ HolderOf(m)' = p
    BY DEF Holders
  <1>2. \A n \in Block : n # m => HolderOf(n)' = HolderOf(n)
    <2>1. SUFFICES ASSUME NEW n \in Block, n # m PROVE HolderOf(n)' = HolderOf(n)
      OBVIOUS
    <2>2. CASE \E q \in Proc : Holds(q, n)
      BY <2>1, <2>2 DEF Holders
    <2>3. CASE \A q \in Proc : ~Holds(q, n)
      BY <2>1, <2>3 DEF Holders
    <2> QED
      BY <2>2, <2>3
  <1>3. [n \in Block |-> HolderOf(n)]' = [[n \in Block |-> HolderOf(n)] EXCEPT ![m] = p]
    BY <1>1, <1>2
  <1>4. [n \in Block |-> Current(n)]' = [n \in Block |-> Current(n)]
    OBVIOUS
  <1>5. Store!Acquire(p, m)
    BY <1>1, <1>3, <1>4 DEF Store!Acquire
  <1> QED
    BY <1>5 DEF Store!Next

\* One process ceases to hold its block: releasesleep.
LEMMA Released ==
  ASSUME Holders, Holders', NEW p \in Proc, NEW m \in Block,
         \A n \in Block : Current(n)' = Current(n),
         Holds(p, m), \A q \in Proc : ~Holds(q, m)',
         \A n \in Block : \A q \in Proc : n # m => (Holds(q, n)' <=> Holds(q, n))
  PROVE  Store!Next
  <1>1. HolderOf(m) = p /\ HolderOf(m)' = Nobody
    BY DEF Holders
  <1>2. \A n \in Block : n # m => HolderOf(n)' = HolderOf(n)
    <2>1. SUFFICES ASSUME NEW n \in Block, n # m PROVE HolderOf(n)' = HolderOf(n)
      OBVIOUS
    <2>2. CASE \E q \in Proc : Holds(q, n)
      BY <2>1, <2>2 DEF Holders
    <2>3. CASE \A q \in Proc : ~Holds(q, n)
      BY <2>1, <2>3 DEF Holders
    <2> QED
      BY <2>2, <2>3
  <1>3. [n \in Block |-> HolderOf(n)]' = [[n \in Block |-> HolderOf(n)] EXCEPT ![m] = Nobody]
    BY <1>1, <1>2
  <1>4. [n \in Block |-> Current(n)]' = [n \in Block |-> Current(n)]
    OBVIOUS
  <1>5. Store!Release(p, m)
    BY <1>1, <1>3, <1>4 DEF Store!Release
  <1> QED
    BY <1>5 DEF Store!Next

\* The holder changes its block and nothing else happens.
LEMMA Changed ==
  ASSUME Abstract, Abstract', Types', NEW p \in Proc, NEW b \in Buf, NEW m \in Block,
         blockno[b] = m, valid[b], Holds(p, m),
         UNCHANGED <<blockno, valid, disk, at, lock>>,
         \A c \in Buf : c # b => data'[c] = data[c],
         \A c \in Buf : blockno[c] = m => c = b
  PROVE  Store!Next
  <1>1. \A n \in Block : HolderOf(n)' = HolderOf(n)
    BY HoldersSame DEF Abstract, Holds
  <1>2. HolderOf(m) = p
    BY DEF Abstract, Holders
  <1>3. Current(m)' = data'[b] /\ data'[b] \in Content
    BY DEF Abstract, Values, Types
  <1>4. \A n \in Block : n # m => Current(n)' = Current(n)
    <2>1. SUFFICES ASSUME NEW n \in Block, n # m PROVE Current(n)' = Current(n)
      OBVIOUS
    <2>2. CASE \E c \in Buf : blockno[c] = n /\ valid[c]
      BY <2>1, <2>2 DEF Abstract, Values
    <2>3. CASE \A c \in Buf : blockno[c] = n => ~valid[c]
      BY <2>1, <2>3 DEF Abstract, Values
    <2> QED
      BY <2>2, <2>3
  <1>5. [n \in Block |-> Current(n)]' = [[n \in Block |-> Current(n)] EXCEPT ![m] = data'[b]]
    BY <1>3, <1>4
  <1>6. [n \in Block |-> HolderOf(n)]' = [n \in Block |-> HolderOf(n)]
    BY <1>1
  <1>7. Store!Change(p, m)
    BY <1>2, <1>3, <1>5, <1>6 DEF Store!Change
  <1> QED
    BY <1>7 DEF Store!Next
\* Every step of the cache, the driver and the device is a step of the store,
\* or none: a process takes a buffer that is valid, or has been read; log_write
\* and bwrite change it; brelse gives it back.
LEMMA StoreStep ==
  ASSUME CacheInv, Abstract, Abstract', Types', Running
  PROVE  [Store!Next]_(Store!storeVars)
  <1> USE DEF CacheInv, Control, Requests, Abstract
  <1>0. \A p \in Proc, n \in Block : Holds(p, n) => at[p] \in Buf /\ pc[p] \in Inside
    <2>1. \A p \in Proc : at[p] # 0 => at[p] \in Buf
      BY CacheAssumption DEF Types, Buf
    <2> QED
      BY <2>1 DEF Holds, Locks
  <1>1. ASSUME NEW p \in Proc, Bget(p) PROVE UNCHANGED Store!storeVars
    <2> DEFINE m == todo[p][1][2]
    <2>1. /\ pc[p] = "idle" /\ m \in Block /\ UNCHANGED <<data, lock, disk>>
          /\ pc' = [pc EXCEPT ![p] = "lock"]
      BY <1>1, Gets
    <2>2. PICK b \in Buf : at' = [at EXCEPT ![p] = b] /\ (Hit(p, b, m) \/ Recycle(p, b, m))
      BY <1>1, Gets
    <2> HIDE DEF m
    <2>3. \A n \in Block : ~Holds(p, n) /\ ~Holds(p, n)'
      <3>1. \A c \in Buf : lock[c] # p
        BY <2>1 DEF Locks, Inside, OnDisk
      <3>2. at[p] = 0 /\ at'[p] = b
        BY <2>1, <2>2 DEF At, Types
      <3> QED
        BY <2>1, <3>1, <3>2 DEF Holds
    <2>4. CASE Hit(p, b, m)
      <3>1. UNCHANGED <<blockno, valid>>
        BY <2>4 DEF Hit
      <3>2. \A n \in Block : Current(n)' = Current(n)
        BY <2>1, <3>1, ValuesSame
      <3>3. \A q \in Proc : q # p => at'[q] = at[q]
        BY <2>2 DEF Types
      <3>4. \A n \in Block : \A q \in Proc : q # p => (Holds(q, n)' <=> Holds(q, n))
        BY <2>1, <3>1, <3>3 DEF Holds
      <3>5. \A n \in Block : HolderOf(n)' = HolderOf(n)
        BY <2>3, <3>4, HoldersSame
      <3> QED
        BY <3>2, <3>5, Unseen
    <2>5. CASE Recycle(p, b, m)
      <3>1. /\ \A c \in Buf : c # b => blockno'[c] = blockno[c] /\ valid'[c] = valid[c]
            /\ ~valid'[b] /\ blockno'[b] = m
            /\ \A c \in Buf : blockno[c] # m
        BY <2>5 DEF Recycle, Types
      <3>2. \A q \in Proc : q # p => at'[q] = at[q] /\ at[q] # b
        BY <2>2, <2>5 DEF Recycle, Types
      <3>3. \A n \in Block : \A q \in Proc : q # p => (Holds(q, n)' <=> Holds(q, n))
        <4>1. \A q \in Proc : at[q] # 0 => at[q] \in Buf
          BY CacheAssumption DEF Types, Buf
        <4> QED
          BY <2>1, <3>1, <3>2, <4>1 DEF Holds
      <3>4. \A n \in Block : HolderOf(n)' = HolderOf(n)
        BY <2>3, <3>3, HoldersSame
      <3>5. valid[b] => Same(b)
        <4>1. ~Dirty(b)
          BY <2>5 DEF Dirty, Recycle
        <4> QED
          BY <4>1 DEF Data
      <3>6. \A n \in Block : Current(n)' = Current(n)
        <4>1. SUFFICES ASSUME NEW n \in Block PROVE Current(n)' = Current(n)
          OBVIOUS
        <4>2. CASE \E c \in Buf : c # b /\ blockno[c] = n /\ valid[c]
          <5>1. PICK c \in Buf : c # b /\ blockno[c] = n /\ valid[c]
            BY <4>2
          <5>2. blockno'[c] = n /\ valid'[c] /\ data'[c] = data[c]
            BY <2>1, <3>1, <5>1
          <5> QED
            BY <5>1, <5>2 DEF Values
        <4>3. CASE ~(\E c \in Buf : c # b /\ blockno[c] = n /\ valid[c])
          <5>1. \A c \in Buf : blockno'[c] = n => ~valid'[c]
            BY <3>1, <4>3
          <5>2. Current(n)' = disk[n]
            BY <2>1, <5>1 DEF Values
          <5>3. CASE blockno[b] = n /\ valid[b]
            BY <3>5, <5>2, <5>3 DEF Values, Same
          <5>4. CASE ~(blockno[b] = n /\ valid[b])
            <6>1. \A c \in Buf : blockno[c] = n => ~valid[c]
              BY <4>3, <5>4
            <6> QED
              BY <5>2, <6>1 DEF Values
          <5> QED
            BY <5>3, <5>4
        <4> QED
          BY <4>2, <4>3
      <3> QED
        BY <3>4, <3>6, Unseen
    <2> QED
      BY <2>2, <2>4, <2>5
  <1>2. ASSUME UNCHANGED <<blockno, valid, data, disk>>,
               \A q \in Proc, n \in Block : Holds(q, n)' <=> Holds(q, n)
        PROVE  UNCHANGED Store!storeVars
    BY <1>2, ValuesSame, HoldersSame, Unseen
  <1>3. ASSUME NEW p \in Proc, Acquire(p) PROVE [Store!Next]_(Store!storeVars)
    <2>1. at[p] \in Buf /\ blockno[at[p]] \in Block /\ UNCHANGED <<blockno, valid, data, disk, at>>
      BY <1>3, HasBuffer DEF Acquire, diskVars
    <2>2. CASE UNCHANGED lock
      BY <2>1, <2>2, <1>2 DEF Holds
    <2>3. CASE lock[at[p]] = Nobody /\ lock' = [lock EXCEPT ![at[p]] = p]
      <3>1. \A q \in Proc, n \in Block : q # p => (Holds(q, n)' <=> Holds(q, n))
        <4>1. SUFFICES ASSUME NEW q \in Proc, NEW n \in Block, q # p
                       PROVE  Holds(q, n)' <=> Holds(q, n)
          OBVIOUS
        <4>2. CASE at[q] = at[p]
          BY <2>1, <2>3, <4>1, <4>2, CacheAssumption DEF Holds, Types
        <4>3. CASE at[q] # at[p]
          <5>1. at[q] # 0 => lock'[at[q]] = lock[at[q]]
            BY <2>1, <2>3, <4>3, CacheAssumption DEF Types, Buf
          <5> QED
            BY <2>1, <5>1 DEF Holds
        <4> QED
          BY <4>2, <4>3
      <3>2. \A n \in Block : ~Holds(p, n)
        BY <2>3, CacheAssumption DEF Holds
      <3>3. \A n \in Block : Holds(p, n)' <=> n = blockno[at[p]] /\ valid[at[p]]
        BY <2>1, <2>3, CacheAssumption DEF Holds, Types, Buf
      <3>4. CASE ~valid[at[p]]
        BY <2>1, <3>1, <3>2, <3>3, <3>4, <1>2
      <3>5. CASE valid[at[p]]
        <4>1. PICK m \in Block : m = blockno[at[p]]
          BY <2>1
        <4>2. \A n \in Block : Current(n)' = Current(n)
          BY <2>1, ValuesSame
        <4>3. Holds(p, m)'
          BY <3>3, <3>5, <4>1
        <4>4. \A n \in Block : \A q \in Proc : n # m => (Holds(q, n)' <=> Holds(q, n))
          BY <3>1, <3>2, <3>3, <4>1
        <4>5. \A q \in Proc : ~Holds(q, m)
          <5>1. SUFFICES ASSUME NEW q \in Proc, Holds(q, m) PROVE FALSE
            OBVIOUS
          <5>2. at[q] = at[p]
            BY <1>0, <2>1, <4>1, <5>1, CacheAssumption DEF Holds, Blocks
          <5> QED
            BY <2>3, <5>1, <5>2, CacheAssumption DEF Holds
        <4> QED
          BY <4>2, <4>3, <4>4, <4>5, Taken
      <3> QED
        BY <3>4, <3>5
    <2> QED
      BY <1>3, <2>2, <2>3 DEF Acquire
  <1>4. ASSUME NEW p \in Proc,
               \/ AllocFails(p) \/ Submit(p) \/ WaitOn(p) \/ Written(p) \/ Kill(p)
        PROVE  UNCHANGED Store!storeVars
    <2>1. UNCHANGED <<blockno, valid, data, disk, at, lock>>
      BY <1>4 DEF AllocFails, Submit, WaitOn, Written, Kill, bufVars, diskVars
    <2> QED
      BY <2>1, <1>2 DEF Holds
  <1>5. ASSUME NEW p \in Proc, Finish(p) PROVE [Store!Next]_(Store!storeVars)
    <2>1. /\ pc[p] = "check" /\ ~busy[at[p]] /\ valid' = [valid EXCEPT ![at[p]] = TRUE]
          /\ UNCHANGED <<blockno, data, disk, at, lock>>
      BY <1>5 DEF Finish, Answered
    <2>2. /\ at[p] \in Buf /\ blockno[at[p]] \in Block /\ valid[at[p]] = write[p]
          /\ lock[at[p]] = p
      BY <2>1, HasBuffer DEF At, OnDisk, Locks, Inside
    <2>3. CASE valid[at[p]]
      <3>1. valid' = valid
        BY <2>1, <2>2, <2>3 DEF Types
      <3> QED
        BY <2>1, <3>1, <1>2 DEF Holds
    <2>4. CASE ~valid[at[p]]
      <3>1. PICK b \in Buf, m \in Block : b = at[p] /\ m = blockno[b]
        BY <2>2
      <3>2. valid'[b] /\ \A c \in Buf : c # b => valid'[c] = valid[c]
        BY <2>1, <2>2, <3>1 DEF Types
      <3>3. \A c \in Buf : blockno[c] = m => c = b
        BY <3>1, CacheAssumption DEF Blocks
      <3>4. Same(b)
        <4>1. idx[p] # <<>>
          BY <2>1 DEF Chains, Asked
        <4>2. Answer(p)
          <5>1. SUFFICES ASSUME NEW r \in avail, r[1] = idx[p][1] PROVE FALSE
            BY <4>1 DEF Answer
          <5>2. PICK q \in Proc : Waits(q, r[1])
            BY DEF Rings
          <5>3. q = p
            BY <4>1, <5>1, <5>2, OneRequest DEF Waits
          <5> QED
            BY <2>1, <5>2, <5>3 DEF Waits
        <4> QED
          BY <3>1, <4>2 DEF Data
      <3>5. \A n \in Block : Current(n)' = Current(n)
        <4>1. SUFFICES ASSUME NEW n \in Block PROVE Current(n)' = Current(n)
          OBVIOUS
        <4>2. CASE n = m
          <5>1. Current(n) = disk[n]
            BY <2>4, <3>1, <3>3, <4>2 DEF Values
          <5>2. Current(n)' = data[b]
            BY <2>1, <3>1, <3>2, <4>2 DEF Values
          <5> QED
            BY <3>1, <3>4, <4>2, <5>1, <5>2 DEF Same
        <4>3. CASE n # m /\ \E c \in Buf : blockno[c] = n /\ valid[c]
          BY <2>1, <3>1, <3>2, <4>3 DEF Values
        <4>4. CASE n # m /\ \A c \in Buf : blockno[c] = n => ~valid[c]
          BY <2>1, <3>1, <3>2, <4>4 DEF Values
        <4> QED
          BY <4>2, <4>3, <4>4
      <3>6. Holds(p, m)'
        BY <2>1, <2>2, <3>1, <3>2, CacheAssumption DEF Holds, Buf
      <3>7. \A q \in Proc : ~Holds(q, m)
        <4>1. SUFFICES ASSUME NEW q \in Proc, Holds(q, m) PROVE FALSE
          OBVIOUS
        <4>2. at[q] = b
          BY <1>0, <3>3, <4>1 DEF Holds
        <4> QED
          BY <2>4, <3>1, <4>1, <4>2 DEF Holds
      <3>8. \A n \in Block : \A q \in Proc : n # m => (Holds(q, n)' <=> Holds(q, n))
        <4>1. SUFFICES ASSUME NEW n \in Block, NEW q \in Proc, n # m, at[q] # 0
                       PROVE  Holds(q, n)' <=> Holds(q, n)
          BY <2>1 DEF Holds
        <4>2. at[q] \in Buf
          BY <4>1, CacheAssumption DEF Types, Buf
        <4>3. CASE at[q] = b
          BY <2>1, <3>1, <4>1, <4>3 DEF Holds
        <4>4. CASE at[q] # b
          BY <2>1, <3>2, <4>2, <4>4 DEF Holds
        <4> QED
          BY <4>3, <4>4
      <3> QED
        BY <3>5, <3>6, <3>7, <3>8, Taken
    <2> QED
      BY <2>3, <2>4
  <1>6. ASSUME NEW p \in Proc, LogWrite(p) \/ Bwrite(p) PROVE [Store!Next]_(Store!storeVars)
    <2>1. pc[p] = "held" /\ UNCHANGED <<blockno, valid, disk, at, lock>>
      BY <1>6 DEF LogWrite, Bwrite, diskVars
    <2>2. /\ at[p] \in Buf /\ blockno[at[p]] \in Block /\ valid[at[p]]
          /\ lock[at[p]] = p
      BY <2>1, HasBuffer DEF At, Locks, Inside
    <2>3. PICK b \in Buf, m \in Block : b = at[p] /\ m = blockno[b]
      BY <2>2
    <2>4. Holds(p, m)
      BY <2>2, <2>3, CacheAssumption DEF Holds, Buf
    <2>5. \A c \in Buf : c # b => data'[c] = data[c]
      BY <1>6, <2>3 DEF LogWrite, Bwrite, Types
    <2>6. \A c \in Buf : blockno[c] = m => c = b
      BY <2>3, CacheAssumption DEF Blocks
    <2> QED
      BY <2>1, <2>2, <2>3, <2>4, <2>5, <2>6, Changed
  <1>7. ASSUME NEW p \in Proc, Releasesleep(p) PROVE [Store!Next]_(Store!storeVars)
    <2>1. /\ pc[p] \in {"done", "held"} /\ lock' = [lock EXCEPT ![at[p]] = Nobody]
          /\ UNCHANGED <<blockno, valid, data, disk, at>>
      BY <1>7 DEF Releasesleep, diskVars
    <2>2. /\ at[p] \in Buf /\ blockno[at[p]] \in Block /\ valid[at[p]]
          /\ lock[at[p]] = p
      BY <2>1, HasBuffer DEF At, Locks, Inside
    <2>3. PICK b \in Buf, m \in Block : b = at[p] /\ m = blockno[b]
      BY <2>2
    <2>4. Holds(p, m)
      BY <2>2, <2>3, CacheAssumption DEF Holds, Buf
    <2>5. lock'[b] = Nobody /\ \A c \in Buf : c # b => lock'[c] = lock[c]
      BY <2>1, <2>3 DEF Types
    <2>6. \A c \in Buf : blockno[c] = m => c = b
      BY <2>3, CacheAssumption DEF Blocks
    <2>7. \A q \in Proc : at[q] # 0 => at[q] \in Buf
      BY CacheAssumption DEF Types, Buf
    <2>8. \A q \in Proc : ~Holds(q, m)'
      BY <2>1, <2>5, <2>6, <2>7, CacheAssumption DEF Holds
    <2>9. \A n \in Block : \A q \in Proc : n # m => (Holds(q, n)' <=> Holds(q, n))
      BY <2>1, <2>3, <2>5, <2>7 DEF Holds
    <2>10. \A n \in Block : Current(n)' = Current(n)
      BY <2>1, ValuesSame
    <2> QED
      BY <2>4, <2>8, <2>9, <2>10, Released
  <1>8. ASSUME NEW p \in Proc, Brelse(p) PROVE UNCHANGED Store!storeVars
    <2>1. pc[p] = "unref" /\ UNCHANGED <<blockno, valid, data, disk, lock>>
          /\ at' = [at EXCEPT ![p] = 0]
      BY <1>8 DEF Brelse, diskVars
    <2>2. \A n \in Block : ~Holds(p, n) /\ ~Holds(p, n)'
      BY <1>0, <2>1 DEF Holds, Inside, OnDisk, Types
    <2>3. \A q \in Proc, n \in Block : q # p => (Holds(q, n)' <=> Holds(q, n))
      BY <2>1 DEF Holds, Types
    <2> QED
      BY <2>1, <2>2, <2>3, <1>2
  <1>9. ASSUME Device PROVE UNCHANGED Store!storeVars
    <2>1. PICK r \in avail :
            \/ r[2] /\ disk' = [disk EXCEPT ![blockno[info[r[1]]]] = data[info[r[1]]]] /\ UNCHANGED data
            \/ ~r[2] /\ data' = [data EXCEPT ![info[r[1]]] = disk[blockno[info[r[1]]]]] /\ UNCHANGED disk
      BY <1>9 DEF Device
    <2>2. UNCHANGED <<blockno, valid, at, lock>>
      BY <1>9 DEF Device, procVars
    <2>3. PICK p \in Proc : Waits(p, r[1]) /\ r[2] = write[p]
      BY DEF Rings
    <2>4. /\ info[r[1]] = at[p] /\ at[p] \in Buf /\ blockno[at[p]] \in Block
          /\ valid[at[p]] = write[p]
      BY <2>3, Request DEF Rings, Waits, At, Asked, OnDisk
    <2>5. PICK b \in Buf, m \in Block : b = at[p] /\ m = blockno[b]
      BY <2>4
    <2>6. \A n \in Block : HolderOf(n)' = HolderOf(n)
      BY <2>2, HoldersSame DEF Holds
    <2>7. CASE write[p]
      <3>1. disk' = [disk EXCEPT ![m] = data[b]] /\ UNCHANGED data /\ valid[b]
        BY <2>1, <2>3, <2>4, <2>5, <2>7
      <3>2. \A n \in Block : Current(n)' = Current(n)
        <4>1. SUFFICES ASSUME NEW n \in Block PROVE Current(n)' = Current(n)
          OBVIOUS
        <4>2. CASE \E c \in Buf : blockno[c] = n /\ valid[c]
          BY <2>2, <3>1, <4>2 DEF Values
        <4>3. CASE \A c \in Buf : blockno[c] = n => ~valid[c]
          <5>1. n # m
            BY <2>5, <3>1, <4>3
          <5>2. disk'[n] = disk[n]
            BY <3>1, <5>1 DEF Types
          <5> QED
            BY <2>2, <4>3, <5>2 DEF Values
        <4> QED
          BY <4>2, <4>3
      <3> QED
        BY <2>6, <3>2, Unseen
    <2>8. CASE ~write[p]
      <3>1. data' = [data EXCEPT ![b] = disk[m]] /\ UNCHANGED disk /\ ~valid[b]
        BY <2>1, <2>3, <2>4, <2>5, <2>8
      <3>2. \A c \in Buf : valid[c] => data'[c] = data[c]
        BY <3>1 DEF Types
      <3> QED
        BY <2>2, <2>6, <3>1, <3>2, ValuesSame, Unseen
    <2> QED
      BY <2>7, <2>8
  <1>10. ASSUME Interrupt PROVE UNCHANGED Store!storeVars
    <2>1. UNCHANGED <<blockno, valid, data, disk, at, lock>>
      BY <1>10, Interrupts
    <2> QED
      BY <2>1, <1>2 DEF Holds
  <1> QED
    BY <1>1, <1>3, <1>4, <1>5, <1>6, <1>7, <1>8, <1>9, <1>10 DEF Running, ProcStep

\* The cache, the pins, the LRU list, the driver and the device together are a
\* store of blocks that only the holder of a block's lock changes.
THEOREM CacheIsStore == Spec => ImplementsBlockStore
  <1>1. Init => Store!Init
    <2> SUFFICES ASSUME Init PROVE Store!Init
      OBVIOUS
    <2>1. /\ \A b \in Buf : ~valid[b]
          /\ \A p \in Proc : at[p] = 0
          /\ \A n \in Block : disk[n] = Blank
      BY DEF Init, CacheInit
    <2>2. Abstract
      BY InitInv, AbstractIs
    <2>3. \A n \in Block : Current(n) = Blank
      BY <2>1, <2>2 DEF Abstract, Values
    <2>4. \A n \in Block : HolderOf(n) = Nobody
      BY <2>1, <2>2 DEF Abstract, Holders, Holds
    <2> QED
      BY <2>3, <2>4 DEF Store!Init
  <1>2. ASSUME CacheInv, CacheInv', Abstract, Abstract', [Next]_vars
        PROVE  [Store!Next]_(Store!storeVars)
    <2>1. CASE Running
      BY <1>2, <2>1, StoreStep DEF CacheInv, Control
    <2>2. CASE UNCHANGED Rest
      BY <2>2 DEF Rest, bufVars, diskVars, procVars, Store!storeVars, Current, Cached, HolderOf
    <2> QED
      BY <1>2, <2>1, <2>2, RunsOrRests
  <1>3. CacheInv => Abstract
    BY AbstractIs
  <1> QED
    BY <1>1, <1>2, <1>3, CacheInvariant, PTL DEF Spec, ImplementsBlockStore, Store!Spec
=============================================================================
