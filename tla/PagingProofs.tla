---------------------------- MODULE PagingProofs ----------------------------
(***************************************************************************)
(* The bookkeeping of Paging, for every number of processes, frames, pages *)
(* and slots.                                                              *)
(*                                                                         *)
(* The types alone are not inductive: filling a frame reads the slot of    *)
(* the page the fault is about, which is a slot only while that page is    *)
(* SWAPPED (SwapInHasSlot), which an eviction keeps because it takes its   *)
(* victim from a FIFO that lists resident pages only, each once            *)
(* (FifoIsResident).  A new child's books may replace the old ones of its  *)
(* slot because nobody runs in it (ChildReserved).                         *)
(*                                                                         *)
(* Then: who owns a frame (FrameOwnership), why a fault that has waited    *)
(* for frames never meets the panic of mappages (FaultsAreSafe), and that  *)
(* Paging refines Memory.                                                  *)
(***************************************************************************)
EXTENDS PagingMemory, SequenceTheorems, FiniteSetTheorems, TLAPS

Books == FifoIsResident /\ SlotOwnership
TypeInv == TypeOK /\ HeldInHandler /\ SwapInHasSlot /\ ChildReserved /\ Books

-----------------------------------------------------------------------------
(* Sequences without repetitions.                                           *)

Elems(s) == {s[i] : i \in 1..Len(s)}
Distinct(s) == \A i, j \in 1..Len(s) : s[i] = s[j] => i = j

\* Evicting the oldest page.
LEMMA TailFacts ==
  ASSUME NEW S, NEW s \in Seq(S), s # <<>>, Distinct(s)
  PROVE  /\ Tail(s) \in Seq(S) /\ Distinct(Tail(s))
         /\ Head(s) \in S /\ Head(s) \in Elems(s)
         /\ Elems(Tail(s)) = Elems(s) \ {Head(s)}
  <1>1. Len(s) \in Nat /\ Len(s) # 0 /\ Tail(s) \in Seq(S) /\ Len(Tail(s)) = Len(s) - 1
        /\ Head(s) = s[1] /\ Head(s) \in S
        /\ \A i \in 1..(Len(s) - 1) : Tail(s)[i] = s[i + 1]
    OBVIOUS
  <1>2. Distinct(Tail(s)) /\ Head(s) \in Elems(s)
    BY <1>1 DEF Distinct, Elems
  <1>3. ASSUME NEW x \in Elems(s) \ {Head(s)}
        PROVE  x \in Elems(Tail(s))
    <2>1. PICK i \in 1..Len(s) : s[i] = x /\ i # 1
      BY <1>1 DEF Elems
    <2>2. i - 1 \in 1..(Len(s) - 1) /\ Tail(s)[i - 1] = x
      BY <1>1, <2>1
    <2> QED
      BY <1>1, <2>2 DEF Elems
  <1>4. Elems(Tail(s)) \subseteq Elems(s) \ {Head(s)}
    BY <1>1 DEF Elems, Distinct
  <1> QED
    BY <1>1, <1>2, <1>3, <1>4

\* Taking a page out of the middle of the FIFO.
LEMMA WithoutFacts ==
  ASSUME NEW S, NEW s \in Seq(S), NEW v, Distinct(s)
  PROVE  /\ Without(s, v) \in Seq(S) /\ Distinct(Without(s, v))
         /\ Elems(Without(s, v)) = Elems(s) \ {v}
  <1>0. Len(s) \in Nat /\ \A i \in 1..Len(s) : s[i] \in S
    BY LenProperties, ElementOfSeq
  <1>1. CASE \E i \in 1..Len(s) : s[i] = v
    <2> DEFINE k == CHOOSE i \in 1..Len(s) : s[i] = v
               a == SubSeq(s, 1, k - 1)
               b == SubSeq(s, k + 1, Len(s))
               t == a \o b
    <2>1. k \in 1..Len(s) /\ s[k] = v
      BY <1>1
    <2>2. Without(s, v) = t
      BY <1>1 DEF Without, RemoveAt
    <2> HIDE DEF k
    <2>3. a \in Seq(S) /\ Len(a) = k - 1 /\ \A i \in 1..(k - 1) : a[i] = s[i]
      <3>1. 1 \in Int /\ k - 1 \in Int /\ \A i \in 1..(k - 1) : s[i] \in S
        BY <1>0, <2>1
      <3>2. /\ a \in Seq(S) /\ Len(a) = IF 1 <= k - 1 THEN k - 1 - 1 + 1 ELSE 0
            /\ \A i \in 1..(k - 1 - 1 + 1) : a[i] = s[1 + i - 1]
        BY <3>1, SubSeqProperties
      <3> QED
        BY <3>1, <3>2, <2>1, <1>0
    <2>4. b \in Seq(S) /\ Len(b) = Len(s) - k /\ \A i \in 1..(Len(s) - k) : b[i] = s[k + i]
      <3>1. k + 1 \in Int /\ Len(s) \in Int /\ \A i \in (k + 1)..Len(s) : s[i] \in S
        BY <1>0, <2>1
      <3>2. /\ b \in Seq(S)
            /\ Len(b) = IF k + 1 <= Len(s) THEN Len(s) - (k + 1) + 1 ELSE 0
            /\ \A i \in 1..(Len(s) - (k + 1) + 1) : b[i] = s[k + 1 + i - 1]
        BY <3>1, SubSeqProperties
      <3> QED
        BY <3>1, <3>2, <2>1, <1>0
    <2> HIDE DEF a, b
    <2>5. /\ t \in Seq(S) /\ Len(t) = Len(s) - 1
          /\ \A i \in 1..(Len(s) - 1) : t[i] = IF i < k THEN s[i] ELSE s[i + 1]
      <3>1. /\ t \in Seq(S) /\ Len(t) = Len(a) + Len(b)
            /\ \A i \in 1..(Len(a) + Len(b)) :
                 t[i] = IF i <= Len(a) THEN a[i] ELSE b[i - Len(a)]
        BY <2>3, <2>4, ConcatProperties, Zenon
      <3> HIDE DEF t
      <3>2. Len(t) = Len(s) - 1
        BY <3>1, <2>1, <2>3, <2>4, <1>0
      <3>3. ASSUME NEW i \in 1..(Len(s) - 1)
            PROVE  t[i] = IF i < k THEN s[i] ELSE s[i + 1]
        <4>1. CASE i < k
          BY <4>1, <3>1, <3>2, <2>1, <2>3, <1>0
        <4>2. CASE ~(i < k)
          <5>1. i - (k - 1) \in 1..(Len(s) - k) /\ k + (i - (k - 1)) = i + 1
            BY <4>2, <2>1, <1>0
          <5>2. t[i] = b[i - (k - 1)]
            BY <4>2, <3>1, <3>2, <2>1, <2>3, <1>0
          <5>3. b[i - (k - 1)] = s[k + (i - (k - 1))]
            BY <5>1, <2>4
          <5> QED
            BY <4>2, <5>1, <5>2, <5>3
        <4> QED
          BY <4>1, <4>2
      <3> QED
        BY <3>1, <3>2, <3>3
    <2> HIDE DEF t
    <2> DEFINE o(i) == IF i < k THEN i ELSE i + 1
    <2>o. ASSUME NEW i \in 1..Len(t)
          PROVE  o(i) \in 1..Len(s) /\ o(i) # k /\ t[i] = s[o(i)]
      <3>1. i \in 1..(Len(s) - 1)
        BY <2>5
      <3>2. t[i] = IF i < k THEN s[i] ELSE s[i + 1]
        BY <3>1, <2>5
      <3>3. o(i) \in 1..Len(s) /\ o(i) # k
        BY <3>1, <2>1, <1>0
      <3> QED
        BY <3>2, <3>3
    <2>i. ASSUME NEW i \in 1..Len(t), NEW j \in 1..Len(t), o(i) = o(j)
          PROVE  i = j
      <3>1. i \in Int /\ j \in Int /\ k \in Int
        BY <2>1, <2>5, <1>0
      <3> QED
        BY <2>i, <3>1
    <2> HIDE DEF o
    <2>6. Distinct(t)
      <3>1. ASSUME NEW i \in 1..Len(t), NEW j \in 1..Len(t), t[i] = t[j]
            PROVE  i = j
        <4>1. s[o(i)] = s[o(j)]
          BY <3>1, <2>o
        <4>2. o(i) = o(j)
          BY <4>1, <2>o DEF Distinct
        <4> QED
          BY <4>2, <2>i
      <3> QED
        BY <3>1 DEF Distinct
    <2>7. Elems(t) \subseteq Elems(s) \ {v}
      <3>1. ASSUME NEW i \in 1..Len(t)
            PROVE  t[i] \in Elems(s) /\ t[i] # v
        BY <2>o, <2>1 DEF Distinct, Elems
      <3> QED
        BY <3>1 DEF Elems
    <2>8. ASSUME NEW x \in Elems(s) \ {v}
          PROVE  x \in Elems(t)
      <3>1. PICK i \in 1..Len(s) : s[i] = x /\ i # k
        BY <2>1 DEF Elems
      <3>2. CASE i < k
        BY <3>1, <3>2, <2>1, <2>5, <1>0 DEF Elems
      <3>3. CASE i > k
        <4>1. i - 1 \in 1..(Len(s) - 1) /\ t[i - 1] = x
          BY <3>1, <3>3, <2>1, <2>5, <1>0
        <4> QED
          BY <4>1, <2>5 DEF Elems
      <3> QED
        BY <3>1, <3>2, <3>3, <2>1, <1>0
    <2> QED
      BY <2>2, <2>5, <2>6, <2>7, <2>8
  <1>2. CASE ~(\E i \in 1..Len(s) : s[i] = v)
    BY <1>2 DEF Without, Elems
  <1> QED
    BY <1>1, <1>2

\* A page that becomes resident goes to the young end, wherever it was.
LEMMA YoungestFacts ==
  ASSUME NEW S, NEW s \in Seq(S), NEW v \in S, Distinct(s)
  PROVE  /\ Youngest(s, v) \in Seq(S) /\ Distinct(Youngest(s, v))
         /\ Elems(Youngest(s, v)) = Elems(s) \cup {v}
  <1> DEFINE t == Without(s, v)
             y == Append(t, v)
  <1>1. t \in Seq(S) /\ Distinct(t) /\ Elems(t) = Elems(s) \ {v}
    BY WithoutFacts
  <1>2. y = Youngest(s, v)
    BY DEF Youngest
  <1> HIDE DEF t
  <1>3. /\ y \in Seq(S) /\ Len(t) \in Nat /\ Len(y) = Len(t) + 1
        /\ y[Len(t) + 1] = v /\ \A i \in 1..Len(t) : y[i] = t[i]
    BY <1>1
  <1> HIDE DEF y
  <1>4. Distinct(y)
    <2>1. \A i \in 1..Len(t) : y[i] # v
      BY <1>1, <1>3 DEF Elems
    <2>2. \A i, j \in 1..Len(t) : y[i] = y[j] => i = j
      BY <1>1, <1>3 DEF Distinct
    <2>3. \A i \in 1..Len(y) : i \in 1..Len(t) \/ i = Len(t) + 1
      BY <1>3
    <2> QED
      BY <2>1, <2>2, <2>3, <1>3 DEF Distinct
  <1>5. Elems(y) = Elems(t) \cup {v}
    BY <1>3 DEF Elems
  <1> QED
    BY <1>1, <1>2, <1>3, <1>4, <1>5

-----------------------------------------------------------------------------
(* The books of one process: its FIFO, its page_info entries, its bitmap.   *)

Entry == [state : {"NONE", "UNMAPPED", "RESIDENT", "SWAPPED"},
          dirty : BOOLEAN, slot : Slot \cup {-1}]
Entries == [VPage -> Entry]

InBooks(s, e, m) ==
  /\ Distinct(s) /\ Elems(s) = {v \in VPage : e[v].state = "RESIDENT"}
  /\ \A v \in VPage : e[v].state = "SWAPPED" =>
       /\ e[v].slot \in m /\ e[v].slot < SwapCap
       /\ \A w \in VPage \ {v} : e[w].state = "SWAPPED" => e[w].slot # e[v].slot

LEMMA BooksPerProcess ==
  Books <=> \A p \in Proc : InBooks(fifo[p], info[p], slots[p])
  BY DEF Books, FifoIsResident, SlotOwnership, InBooks, Distinct, Elems

\* DISCARD of the oldest page.
LEMMA DiscardBooks ==
  ASSUME NEW s \in Seq(VPage), NEW e \in Entries, NEW m, InBooks(s, e, m), s # <<>>
  PROVE  InBooks(Tail(s), [e EXCEPT ![Head(s)].state = "UNMAPPED"], m)
  <1>1. /\ Distinct(Tail(s)) /\ Head(s) \in VPage
        /\ Elems(Tail(s)) = Elems(s) \ {Head(s)}
    BY TailFacts DEF InBooks
  <1> QED
    BY <1>1 DEF InBooks, Entries, Entry

\* SWAPOUT of the oldest page to a slot that is not in use.
LEMMA SwapOutBooks ==
  ASSUME NEW s \in Seq(VPage), NEW e \in Entries, NEW m, InBooks(s, e, m), s # <<>>,
         NEW k \in Slot \ m, k < SwapCap
  PROVE  InBooks(Tail(s), [e EXCEPT ![Head(s)] = [@ EXCEPT !.state = "SWAPPED", !.slot = k]],
                 m \cup {k})
  <1>1. /\ Distinct(Tail(s)) /\ Head(s) \in VPage
        /\ Elems(Tail(s)) = Elems(s) \ {Head(s)}
    BY TailFacts DEF InBooks
  <1> QED
    BY <1>1 DEF InBooks, Entries, Entry

\* A page becomes resident; the slot of a swapped page is given back.
LEMMA LoadBooks ==
  ASSUME NEW s \in Seq(VPage), NEW e \in Entries, NEW m, InBooks(s, e, m),
         NEW v \in VPage, NEW x \in Entry, x.state = "RESIDENT", NEW n,
         \/ n = m
         \/ e[v].state = "SWAPPED" /\ n = m \ {e[v].slot}
  PROVE  InBooks(Youngest(s, v), [e EXCEPT ![v] = x], n)
  <1>1. /\ Distinct(Youngest(s, v)) /\ Elems(Youngest(s, v)) = Elems(s) \cup {v}
    BY YoungestFacts DEF InBooks
  <1> QED
    BY <1>1 DEF InBooks, Entries, Entry

\* The child's books after kfork: the parent's, without what is swapped.
LEMMA ForkBooks ==
  ASSUME NEW s \in Seq(VPage), NEW e \in Entries, NEW m, InBooks(s, e, m), NEW n
  PROVE  /\ [v \in VPage |-> ChildInfo(e[v])] \in Entries
         /\ InBooks(s, [v \in VPage |-> ChildInfo(e[v])], n)
  <1>1. \A v \in VPage : /\ ChildInfo(e[v]) \in Entry
                         /\ ChildInfo(e[v]).state # "SWAPPED"
                         /\ ChildInfo(e[v]).state = "RESIDENT" <=> e[v].state = "RESIDENT"
    BY DEF ChildInfo, Entries, Entry
  <1> HIDE DEF ChildInfo
  <1> QED
    BY <1>1 DEF InBooks, Entries

\* The books kexec and kwait leave.
LEMMA FreshBooks ==
  ASSUME NEW m, NEW v \in VPage
  PROVE  /\ NoInfo \in Entries /\ InBooks(<<>>, NoInfo, m)
         /\ [NoInfo EXCEPT ![v] = Resident] \in Entries
         /\ InBooks(<<v>>, [NoInfo EXCEPT ![v] = Resident], m)
  <1>1. NoInfo \in Entries /\ [NoInfo EXCEPT ![v] = Resident] \in Entries
    BY DEF NoInfo, Untracked, Resident, Entries, Entry
  <1>2. InBooks(<<>>, NoInfo, m)
    BY DEF InBooks, Distinct, Elems, NoInfo, Untracked
  <1>3. Distinct(<<v>>) /\ Elems(<<v>>) = {v}
    BY DEF Distinct, Elems
  <1>4. InBooks(<<v>>, [NoInfo EXCEPT ![v] = Resident], m)
    BY <1>3 DEF InBooks, NoInfo, Untracked, Resident
  <1> QED
    BY <1>1, <1>2, <1>4

\* Books that lists and bitmap leave alone, and entries change in dirty bits
\* or from NONE to UNMAPPED only.
LEMMA SameBooks ==
  ASSUME Books, fifo' = fifo, slots' = slots,
         \A p \in Proc : \A v \in VPage :
           /\ info'[p][v].state = "RESIDENT" <=> info[p][v].state = "RESIDENT"
           /\ info'[p][v].state = "SWAPPED" <=> info[p][v].state = "SWAPPED"
           /\ info'[p][v].slot = info[p][v].slot
  PROVE  Books'
  BY DEF Books, FifoIsResident, SlotOwnership

-----------------------------------------------------------------------------
\* Where an image puts its guard and stack pages.
LEMMA Layout ==
  ASSUME NEW i \in Image
  PROVE  /\ Guard(i) \in VPage /\ StackPage(i) \in VPage /\ Guard(i) # StackPage(i)
         /\ StackTop(i) \in 0..(MaxVPage + 1)
  BY ImageAssumption DEF Guard, StackPage, StackTop, HeapStart, VPage

\* What the program counter says about the other fields of op.
LEMMA OpFields ==
  ASSUME NEW o \in OpType
  PROVE  /\ o.pc \in {"evict", "alloc", "load"} =>
              o \in [pc : {"evict", "alloc", "load"}, va : VPage,
                     kind : {"swap", "exec", "zero"}, val : Value \cup {NoValue}]
         /\ o.pc = "copyout" => o.va \in VPage /\ o.val \in Value
         /\ o.pc = "fork" => o.child \in Proc
         /\ o.pc \in {"execguard", "execstack"} =>
              o \in [pc : {"execguard", "execstack"}, img : Image]
         /\ o.pc = "grow" => o \in [pc : {"grow"}, at : 0..(MaxVPage + 1),
                                    to : 0..(MaxVPage + 1)]
         /\ o.pc = "user" => o = Idle
  BY DEF OpType, Idle

LEMMA IdleType == Idle \in OpType /\ Idle.pc = "user"
  BY DEF OpType, Idle

\* The fault handler, kexec and uvmalloc go on to their next step.
LEMMA FaultStep ==
  ASSUME NEW o \in OpType, o.pc \in {"evict", "alloc"}, NEW c \in {"alloc", "load"}
  PROVE  /\ [o EXCEPT !.pc = c] \in OpType /\ [o EXCEPT !.pc = c].pc = c
         /\ [o EXCEPT !.pc = c].va = o.va /\ [o EXCEPT !.pc = c].kind = o.kind
  <1>1. o \in [pc : {"evict", "alloc", "load"}, va : VPage,
               kind : {"swap", "exec", "zero"}, val : Value \cup {NoValue}]
    BY OpFields
  <1> QED
    BY <1>1 DEF OpType

LEMMA CopyoutStep ==
  ASSUME NEW o \in OpType, o.pc = "load", o.val # NoValue
  PROVE  [o EXCEPT !.pc = "copyout"] \in OpType /\ [o EXCEPT !.pc = "copyout"].pc = "copyout"
  <1>1. o \in [pc : {"evict", "alloc", "load"}, va : VPage,
               kind : {"swap", "exec", "zero"}, val : Value \cup {NoValue}]
    BY OpFields
  <1> QED
    BY <1>1 DEF OpType

LEMMA ExecStep ==
  ASSUME NEW o \in OpType, o.pc = "execguard"
  PROVE  [o EXCEPT !.pc = "execstack"] \in OpType /\ [o EXCEPT !.pc = "execstack"].pc = "execstack"
  <1>1. o \in [pc : {"execguard", "execstack"}, img : Image]
    BY OpFields
  <1> QED
    BY <1>1 DEF OpType

LEMMA GrowStep ==
  ASSUME NEW o \in OpType, o.pc = "grow", o.at < o.to
  PROVE  /\ [o EXCEPT !.at = @ + 1] \in OpType /\ [o EXCEPT !.at = @ + 1].pc = "grow"
         /\ o.at \in VPage
  <1>1. o \in [pc : {"grow"}, at : 0..(MaxVPage + 1), to : 0..(MaxVPage + 1)]
    BY OpFields
  <1>2. o.at \in 0..MaxVPage /\ o.at + 1 \in 0..(MaxVPage + 1)
    BY <1>1, ImageAssumption
  <1> QED
    BY <1>1, <1>2 DEF OpType, VPage

\* A step of p that starts no kfork and leaves every state alone.
LEMMA NoForkStep ==
  ASSUME ChildReserved, NEW p \in Proc, op \in [Proc -> OpType], NEW o,
         op' = [op EXCEPT ![p] = o], state' = state, o.pc # "fork",
         o.pc = "user" \/ state[p] = "RUNNABLE"
  PROVE  ChildReserved'
  BY DEF ChildReserved

LEMMA DirtyEntry == ASSUME NEW e \in Entry PROVE [e EXCEPT !.dirty = TRUE] \in Entry
  BY DEF Entry

LEMMA StoreTypes ==
  ASSUME TypeInv, NEW p \in Proc, NEW v \in VPage, NEW x \in Value, Store(p, v, x)
  PROVE  TypeInv'
  <1> USE DEF TypeInv, TypeOK, Store,
              vars, procVars, imageVars, ptVars, pageVars, memVars
  <1>1. TypeOK'
    BY OpFields, IdleType DEF OpType, Content, HeldInHandler, VPage, InUser, Permitted, Mapped
  <1>2. HeldInHandler' /\ SwapInHasSlot' /\ ChildReserved'
    BY OpFields, IdleType DEF HeldInHandler, SwapInHasSlot, ChildReserved, InUser
  <1>3. Books'
    BY SameBooks
  <1> QED
    BY <1>1, <1>2, <1>3

LEMMA EvictFailsTypes ==
  ASSUME TypeInv, NEW p \in Proc, EvictFails(p)
  PROVE  TypeInv'
  <1> USE DEF TypeInv, TypeOK, EvictFails, KillSelf, Return,
              vars, procVars, imageVars, ptVars, pageVars, memVars
  <1>1. TypeOK'
    BY OpFields, IdleType DEF OpType, Content, HeldInHandler, VPage, InUser, Permitted, Mapped
  <1>2. HeldInHandler' /\ SwapInHasSlot' /\ ChildReserved'
    BY OpFields, IdleType DEF HeldInHandler, SwapInHasSlot, ChildReserved, InUser
  <1>3. Books'
    BY SameBooks
  <1> QED
    BY <1>1, <1>2, <1>3

LEMMA LoadRemapTypes ==
  ASSUME TypeInv, NEW p \in Proc, LoadRemap(p)
  PROVE  TypeInv'
  <1> USE DEF TypeInv, TypeOK, LoadRemap,
              vars, procVars, imageVars, ptVars, pageVars, memVars
  <1>1. TypeOK'
    BY OpFields, IdleType DEF OpType, Content, HeldInHandler, VPage, InUser, Permitted, Mapped
  <1>2. HeldInHandler' /\ SwapInHasSlot' /\ ChildReserved'
    BY OpFields, IdleType DEF HeldInHandler, SwapInHasSlot, ChildReserved, InUser
  <1>3. Books'
    BY SameBooks
  <1> QED
    BY <1>1, <1>2, <1>3

LEMMA ForkStartTypes ==
  ASSUME TypeInv, NEW p \in Proc, NEW c \in Proc, ForkStart(p, c)
  PROVE  TypeInv'
  <1> USE DEF TypeInv, TypeOK, ForkStart, ForkOf,
              vars, procVars, imageVars, ptVars, pageVars, memVars
  <1>1. TypeOK'
    BY OpFields, IdleType DEF OpType, Content, HeldInHandler, VPage, InUser, Permitted, Mapped
  <1>2. HeldInHandler' /\ SwapInHasSlot' /\ ChildReserved'
    BY OpFields, IdleType DEF HeldInHandler, SwapInHasSlot, ChildReserved, InUser
  <1>3. Books'
    BY SameBooks
  <1> QED
    BY <1>1, <1>2, <1>3

LEMMA InitExitsTypes ==
  ASSUME TypeInv, NEW p \in Proc, InitExits(p)
  PROVE  TypeInv'
  <1> USE DEF TypeInv, TypeOK, InitExits,
              vars, procVars, imageVars, ptVars, pageVars, memVars
  <1>1. TypeOK'
    BY OpFields, IdleType DEF OpType, Content, HeldInHandler, VPage, InUser, Permitted, Mapped
  <1>2. HeldInHandler' /\ SwapInHasSlot' /\ ChildReserved'
    BY OpFields, IdleType DEF HeldInHandler, SwapInHasSlot, ChildReserved, InUser
  <1>3. Books'
    BY SameBooks
  <1> QED
    BY <1>1, <1>2, <1>3

LEMMA KillTypes ==
  ASSUME TypeInv, NEW p \in Proc, Kill(p)
  PROVE  TypeInv'
  <1> USE DEF TypeInv, TypeOK, Kill,
              vars, procVars, imageVars, ptVars, pageVars, memVars
  <1>1. TypeOK'
    BY OpFields, IdleType DEF OpType, Content, HeldInHandler, VPage, InUser, Permitted, Mapped
  <1>2. HeldInHandler' /\ SwapInHasSlot' /\ ChildReserved'
    BY OpFields, IdleType DEF HeldInHandler, SwapInHasSlot, ChildReserved, InUser
  <1>3. Books'
    BY SameBooks
  <1> QED
    BY <1>1, <1>2, <1>3

LEMMA ExecParseTypes ==
  ASSUME TypeInv, NEW p \in Proc, NEW i \in Image, ExecParse(p, i)
  PROVE  TypeInv'
  <1> USE DEF TypeInv, TypeOK, ExecParse, ExecOf,
              vars, procVars, imageVars, ptVars, pageVars, memVars
  <1>1. TypeOK'
    BY OpFields, IdleType DEF OpType, Content, HeldInHandler, VPage, InUser, Permitted, Mapped
  <1>2. HeldInHandler' /\ SwapInHasSlot' /\ ChildReserved'
    BY OpFields, IdleType DEF HeldInHandler, SwapInHasSlot, ChildReserved, InUser
  <1>3. Books'
    BY SameBooks
  <1> QED
    BY <1>1, <1>2, <1>3

LEMMA ExecBadHeaderTypes ==
  ASSUME TypeInv, NEW p \in Proc, ExecBadHeader(p)
  PROVE  TypeInv'
  <1> USE DEF TypeInv, TypeOK, ExecBadHeader,
              vars, procVars, imageVars, ptVars, pageVars, memVars
  <1>1. TypeOK'
    BY OpFields, IdleType DEF OpType, Content, HeldInHandler, VPage, InUser, Permitted, Mapped
  <1>2. HeldInHandler' /\ SwapInHasSlot' /\ ChildReserved'
    BY OpFields, IdleType DEF HeldInHandler, SwapInHasSlot, ChildReserved, InUser
  <1>3. Books'
    BY SameBooks
  <1> QED
    BY <1>1, <1>2, <1>3

LEMMA ExecFailsTypes ==
  ASSUME TypeInv, NEW p \in Proc, ExecFails(p)
  PROVE  TypeInv'
  <1> USE DEF TypeInv, TypeOK, ExecFails, Kfree, Freed, Return,
              vars, procVars, imageVars, ptVars, pageVars, memVars
  <1>1. TypeOK'
    BY OpFields, IdleType DEF OpType, Content, HeldInHandler, VPage, InUser, Permitted, Mapped
  <1>2. HeldInHandler' /\ SwapInHasSlot' /\ ChildReserved'
    BY OpFields, IdleType DEF HeldInHandler, SwapInHasSlot, ChildReserved, InUser
  <1>3. Books'
    BY SameBooks
  <1> QED
    BY <1>1, <1>2, <1>3

LEMMA SbrkLazyTypes ==
  ASSUME TypeInv, NEW p \in Proc, NEW n \in 1..(MaxVPage + 1), SbrkLazy(p, n)
  PROVE  TypeInv'
  <1> USE DEF TypeInv, TypeOK, SbrkLazy,
              vars, procVars, imageVars, ptVars, pageVars, memVars
  <1>1. TypeOK'
    BY OpFields, IdleType DEF OpType, Content, HeldInHandler, VPage, InUser, Permitted, Mapped
  <1>2. HeldInHandler' /\ SwapInHasSlot' /\ ChildReserved'
    BY OpFields, IdleType DEF HeldInHandler, SwapInHasSlot, ChildReserved, InUser
  <1>3. Books'
    BY SameBooks
  <1> QED
    BY <1>1, <1>2, <1>3

LEMMA SbrkEagerTypes ==
  ASSUME TypeInv, NEW p \in Proc, NEW n \in 1..(MaxVPage + 1), SbrkEager(p, n)
  PROVE  TypeInv'
  <1> USE DEF TypeInv, TypeOK, SbrkEager, GrowTo,
              vars, procVars, imageVars, ptVars, pageVars, memVars
  <1>1. TypeOK'
    BY OpFields, IdleType DEF OpType, Content, HeldInHandler, VPage, InUser, Permitted, Mapped
  <1>2. HeldInHandler' /\ SwapInHasSlot' /\ ChildReserved'
    BY OpFields, IdleType DEF HeldInHandler, SwapInHasSlot, ChildReserved, InUser
  <1>3. Books'
    BY SameBooks
  <1> QED
    BY <1>1, <1>2, <1>3

LEMMA GrowRemapTypes ==
  ASSUME TypeInv, NEW p \in Proc, GrowRemap(p)
  PROVE  TypeInv'
  <1> USE DEF TypeInv, TypeOK, GrowRemap,
              vars, procVars, imageVars, ptVars, pageVars, memVars
  <1>1. TypeOK'
    BY OpFields, IdleType DEF OpType, Content, HeldInHandler, VPage, InUser, Permitted, Mapped
  <1>2. HeldInHandler' /\ SwapInHasSlot' /\ ChildReserved'
    BY OpFields, IdleType DEF HeldInHandler, SwapInHasSlot, ChildReserved, InUser
  <1>3. Books'
    BY SameBooks
  <1> QED
    BY <1>1, <1>2, <1>3

LEMMA GrowDoneTypes ==
  ASSUME TypeInv, NEW p \in Proc, GrowDone(p)
  PROVE  TypeInv'
  <1> USE DEF TypeInv, TypeOK, GrowDone, Return,
              vars, procVars, imageVars, ptVars, pageVars, memVars
  <1>1. TypeOK'
    BY OpFields, IdleType DEF OpType, Content, HeldInHandler, VPage, InUser, Permitted, Mapped
  <1>2. HeldInHandler' /\ SwapInHasSlot' /\ ChildReserved'
    BY OpFields, IdleType DEF HeldInHandler, SwapInHasSlot, ChildReserved, InUser
  <1>3. Books'
    BY SameBooks
  <1> QED
    BY <1>1, <1>2, <1>3

LEMMA CopyOutTypes ==
  ASSUME TypeInv, NEW p \in Proc, NEW v \in VPage, NEW x \in Value, CopyOut(p, v, x)
  PROVE  TypeInv'
  <1> USE DEF TypeInv, TypeOK, CopyOut,
              vars, procVars, imageVars, ptVars, pageVars, memVars
  <1>0. mem' \in [Frame -> Content]
    BY DEF CopyTo, Content
  <1>1. TypeOK'
    BY <1>0
  <1>2. HeldInHandler' /\ SwapInHasSlot' /\ ChildReserved'
    BY OpFields, IdleType DEF HeldInHandler, SwapInHasSlot, ChildReserved, InUser
  <1>3. Books'
    BY SameBooks
  <1> QED
    BY <1>1, <1>2, <1>3

LEMMA CopyOutResumeTypes ==
  ASSUME TypeInv, NEW p \in Proc, CopyOutResume(p)
  PROVE  TypeInv'
  <1> USE DEF TypeInv, TypeOK, CopyOutResume, Return,
              vars, procVars, imageVars, ptVars, pageVars, memVars
  <1>0. mem' \in [Frame -> Content]
    <2>1. op[p].val \in Value
      BY OpFields
    <2> QED
      BY <2>1 DEF CopyTo, Content
  <1>1. TypeOK'
    BY <1>0, IdleType
  <1>2. HeldInHandler' /\ SwapInHasSlot' /\ ChildReserved'
    BY OpFields, IdleType DEF HeldInHandler, SwapInHasSlot, ChildReserved, InUser
  <1>3. Books'
    BY SameBooks
  <1> QED
    BY <1>1, <1>2, <1>3

LEMMA RefuseFaultTypes ==
  ASSUME TypeInv, NEW p \in Proc, NEW v \in VPage, NEW access, NEW fromUser,
         InUser(p), RefuseFault(p, v, access, fromUser)
  PROVE  TypeInv'
  <1> USE DEF TypeInv, TypeOK, RefuseFault, KillSelf, Return,
              vars, procVars, imageVars, ptVars, pageVars, memVars
  <1>1. TypeOK'
    BY IdleType
  <1>2. HeldInHandler' /\ SwapInHasSlot' /\ ChildReserved'
    BY OpFields, IdleType DEF HeldInHandler, SwapInHasSlot, ChildReserved, InUser
  <1>3. Books'
    BY SameBooks
  <1> QED
    BY <1>1, <1>2, <1>3

LEMMA FaultUntrackableTypes ==
  ASSUME TypeInv, NEW p \in Proc, NEW v \in VPage, NEW access,
         InUser(p), FaultUntrackable(p, v, access)
  PROVE  TypeInv'
  <1> USE DEF TypeInv, TypeOK, FaultUntrackable, KillSelf, Return,
              vars, procVars, imageVars, ptVars, pageVars, memVars
  <1>1. TypeOK'
    BY IdleType
  <1>2. HeldInHandler' /\ SwapInHasSlot' /\ ChildReserved'
    BY OpFields, IdleType DEF HeldInHandler, SwapInHasSlot, ChildReserved, InUser
  <1>3. Books'
    BY SameBooks
  <1> QED
    BY <1>1, <1>2, <1>3

LEMMA FirstWriteTypes ==
  ASSUME TypeInv, NEW p \in Proc, NEW v \in VPage, NEW access, FirstWrite(p, v, access)
  PROVE  TypeInv'
  <1>1. info \in [Proc -> [VPage -> Entry]] /\ perm \in [Proc -> [VPage -> SUBSET {"U", "W", "X"}]]
    BY DEF TypeInv, TypeOK, Entry
  <1>2. info' \in [Proc -> [VPage -> Entry]]
    BY <1>1, DirtyEntry DEF FirstWrite
  <1>3. perm' \in [Proc -> [VPage -> SUBSET {"U", "W", "X"}]]
    BY <1>1 DEF FirstWrite
  <1>4. TypeOK'
    BY <1>2, <1>3 DEF TypeInv, TypeOK, Entry, FirstWrite, procVars, imageVars, memVars
  <1>5. \A q \in Proc : \A w \in VPage : info'[q][w].state = info[q][w].state
                                    /\ info'[q][w].slot = info[q][w].slot
    BY <1>1 DEF FirstWrite, Entry
  <1>6. HeldInHandler' /\ SwapInHasSlot' /\ ChildReserved'
    BY <1>5, OpFields
    DEF TypeInv, TypeOK, HeldInHandler, SwapInHasSlot, ChildReserved, FirstWrite, memVars,
        procVars
  <1>7. Books'
    BY <1>5, SameBooks DEF TypeInv, FirstWrite
  <1> QED
    BY <1>4, <1>6, <1>7 DEF TypeInv

LEMMA AllocAfterEvictTypes ==
  ASSUME TypeInv, NEW p \in Proc, AllocAfterEvict(p)
  PROVE  TypeInv'
  <1>1. op \in [Proc -> OpType] /\ op[p].pc = "alloc"
    BY DEF TypeInv, TypeOK, AllocAfterEvict
  <1>2. PICK o \in OpType : /\ o = [op[p] EXCEPT !.pc = "load"] /\ o.pc = "load"
                           /\ o.va = op[p].va /\ o.kind = op[p].kind
    BY <1>1, FaultStep
  <1>x. o.pc = "load" /\ o.va = op[p].va /\ o.kind = op[p].kind
    BY <1>2
  <1>3. [op EXCEPT ![p].pc = "load"] = [op EXCEPT ![p] = o]
    BY <1>1, <1>2
  <1>4. \/ \E f \in free : /\ free' = free \ {f} /\ held' = [held EXCEPT ![p] = f]
                           /\ op' = [op EXCEPT ![p] = o]
        \/ free' = free /\ held' = held /\ op' = [op EXCEPT ![p] = Idle]
    BY <1>3 DEF AllocAfterEvict, Kalloc, Return, KillSelf, memVars
  <1>k. killed' \in {killed, [killed EXCEPT ![p] = TRUE]}
    BY DEF AllocAfterEvict, KillSelf, procVars
  <1>5. /\ state' = state /\ parent' = parent /\ img' = img /\ segs' = segs
        /\ execInode' = execInode /\ sz' = sz /\ frame' = frame /\ perm' = perm
        /\ info' = info /\ fifo' = fifo /\ slots' = slots /\ swap' = swap
        /\ mem' = mem /\ panicked' = panicked
    BY DEF AllocAfterEvict, Kalloc, KillSelf, procVars, imageVars, ptVars, pageVars, memVars
  <1>6. /\ op' \in [Proc -> OpType] /\ killed' \in [Proc -> BOOLEAN]
        /\ free' \in SUBSET Frame /\ held' \in [Proc -> Frame \cup {NoFrame}]
    <2>1. /\ killed \in [Proc -> BOOLEAN] /\ free \in SUBSET Frame
          /\ held \in [Proc -> Frame \cup {NoFrame}]
      BY DEF TypeInv, TypeOK
    <2>2. op' \in [Proc -> OpType]
      BY <1>1, <1>4, IdleType
    <2>3. killed' \in [Proc -> BOOLEAN]
      BY <1>k, <2>1
    <2>4. free' \in SUBSET Frame /\ held' \in [Proc -> Frame \cup {NoFrame}]
      BY <1>4, <2>1
    <2> QED
      BY <2>2, <2>3, <2>4
  <1>7. TypeOK'
    BY <1>5, <1>6 DEF TypeInv, TypeOK
  <1>8. HeldInHandler'
    <2>1. HeldInHandler /\ free \in SUBSET Frame /\ held \in [Proc -> Frame \cup {NoFrame}]
      BY DEF TypeInv, TypeOK
    <2> QED
      BY <1>1, <1>x, <1>4, <2>1, IdleType, FrameAssumption DEF HeldInHandler
  <1>9. SwapInHasSlot'
    <2>1. SwapInHasSlot
      BY DEF TypeInv
    <2> QED
      BY <1>1, <1>x, <1>4, <1>5, <2>1, IdleType DEF SwapInHasSlot
  <1>10. ChildReserved'
    <2>1. ChildReserved /\ state[p] = "RUNNABLE" /\ Idle.pc = "user"
      BY <1>1, IdleType DEF TypeInv, ChildReserved
    <2> QED
      BY <1>1, <1>x, <1>4, <1>5, <2>1, NoForkStep
  <1>11. Books'
    BY <1>5, SameBooks DEF TypeInv
  <1> QED
    BY <1>7, <1>8, <1>9, <1>10, <1>11 DEF TypeInv

LEMMA ExecGuardTypes ==
  ASSUME TypeInv, NEW p \in Proc, ExecGuard(p)
  PROVE  TypeInv'
  <1>1. op \in [Proc -> OpType] /\ op[p].pc = "execguard"
    BY DEF TypeInv, TypeOK, ExecGuard
  <1>2. PICK o \in OpType : o = [op[p] EXCEPT !.pc = "execstack"] /\ o.pc = "execstack"
    BY <1>1, ExecStep
  <1>x. o.pc = "execstack"
    BY <1>2
  <1>3. [op EXCEPT ![p].pc = "execstack"] = [op EXCEPT ![p] = o]
    BY <1>1, <1>2
  <1>4. \/ \E f \in free : /\ free' = free \ {f} /\ held' = [held EXCEPT ![p] = f]
                           /\ op' = [op EXCEPT ![p] = o]
        \/ free' = free /\ held' = held /\ op' = [op EXCEPT ![p] = Idle]
    BY <1>3 DEF ExecGuard, Kalloc, Return, KillSelf, memVars
  <1>k. killed' \in {killed, [killed EXCEPT ![p] = TRUE]}
    BY DEF ExecGuard, KillSelf, procVars
  <1>5. /\ state' = state /\ parent' = parent /\ img' = img /\ segs' = segs
        /\ execInode' = execInode /\ sz' = sz /\ frame' = frame /\ perm' = perm
        /\ info' = info /\ fifo' = fifo /\ slots' = slots /\ swap' = swap
        /\ mem' = mem /\ panicked' = panicked
    BY DEF ExecGuard, Kalloc, KillSelf, procVars, imageVars, ptVars, pageVars, memVars
  <1>6. /\ op' \in [Proc -> OpType] /\ killed' \in [Proc -> BOOLEAN]
        /\ free' \in SUBSET Frame /\ held' \in [Proc -> Frame \cup {NoFrame}]
    <2>1. /\ killed \in [Proc -> BOOLEAN] /\ free \in SUBSET Frame
          /\ held \in [Proc -> Frame \cup {NoFrame}]
      BY DEF TypeInv, TypeOK
    <2>2. op' \in [Proc -> OpType]
      BY <1>1, <1>4, IdleType
    <2>3. killed' \in [Proc -> BOOLEAN]
      BY <1>k, <2>1
    <2>4. free' \in SUBSET Frame /\ held' \in [Proc -> Frame \cup {NoFrame}]
      BY <1>4, <2>1
    <2> QED
      BY <2>2, <2>3, <2>4
  <1>7. TypeOK'
    BY <1>5, <1>6 DEF TypeInv, TypeOK
  <1>8. HeldInHandler'
    <2>1. HeldInHandler /\ free \in SUBSET Frame /\ held \in [Proc -> Frame \cup {NoFrame}]
      BY DEF TypeInv, TypeOK
    <2> QED
      BY <1>1, <1>x, <1>4, <2>1, IdleType, FrameAssumption DEF HeldInHandler
  <1>9. SwapInHasSlot'
    <2>1. SwapInHasSlot
      BY DEF TypeInv
    <2> QED
      BY <1>1, <1>x, <1>4, <1>5, <2>1, IdleType DEF SwapInHasSlot
  <1>10. ChildReserved'
    <2>1. ChildReserved /\ state[p] = "RUNNABLE" /\ Idle.pc = "user"
      BY <1>1, IdleType DEF TypeInv, ChildReserved
    <2> QED
      BY <1>1, <1>x, <1>4, <1>5, <2>1, NoForkStep
  <1>11. Books'
    BY <1>5, SameBooks DEF TypeInv
  <1> QED
    BY <1>7, <1>8, <1>9, <1>10, <1>11 DEF TypeInv

LEMMA UnmapTypes ==
  ASSUME TypeOK, NEW p \in Proc, NEW vs \in SUBSET MappedPages(p), UnmapAll(p, vs)
  PROVE  /\ frame' \in [Proc -> [VPage -> Frame \cup {NoFrame}]]
         /\ perm' \in [Proc -> [VPage -> SUBSET {"U", "W", "X"}]]
         /\ free' \in SUBSET Frame /\ mem' \in [Frame -> Content]
  <1> USE DEF TypeOK, UnmapAll, MappedPages, Mapped
  <1>1. \A v \in vs : frame[p][v] \in Frame
    OBVIOUS
  <1>2. free' \in SUBSET Frame
    BY <1>1 DEF Kfree
  <1>3. mem' \in [Frame -> Content]
    BY DEF Kfree, Freed, Content
  <1> QED
    BY <1>2, <1>3

LEMMA ForkFailsTypes ==
  ASSUME TypeInv, NEW p \in Proc, ForkFails(p)
  PROVE  TypeInv'
  <1> USE DEF TypeInv, TypeOK, ForkFails, Return,
              vars, procVars, imageVars, ptVars, pageVars, memVars
  <1>0. op[p].child \in Proc
    BY OpFields
  <1>1. TypeOK'
    BY <1>0, UnmapTypes, IdleType DEF FreeProc
  <1>2. HeldInHandler' /\ SwapInHasSlot'
    BY IdleType DEF HeldInHandler, SwapInHasSlot
  <1>3. ChildReserved'
    <2>1. /\ state' = [state EXCEPT ![op[p].child] = "UNUSED"] /\ op' = [op EXCEPT ![p] = Idle]
          /\ op[p].pc = "fork"
      BY DEF FreeProc
    <2>2. \A q \in Proc : op[q].pc = "fork" => op[q].child \in Proc
      BY OpFields
    <2> QED
      BY <1>0, <2>1, <2>2, IdleType DEF ChildReserved
  <1>4. Books'
    BY SameBooks
  <1> QED
    BY <1>1, <1>2, <1>3, <1>4

LEMMA ForkCopyPageTypes ==
  ASSUME TypeInv, NEW p \in Proc, ForkCopyPage(p)
  PROVE  TypeInv'
  <1> USE DEF TypeInv, TypeOK, ForkCopyPage,
              vars, procVars, imageVars, ptVars, pageVars, memVars
  <1>0. /\ frame' \in [Proc -> [VPage -> Frame \cup {NoFrame}]]
        /\ perm' \in [Proc -> [VPage -> SUBSET {"U", "W", "X"}]]
        /\ free' \in SUBSET Frame /\ mem' \in [Frame -> Content]
    BY OpFields DEF ToCopy, Mapped
  <1>1. TypeOK'
    BY <1>0
  <1>2. HeldInHandler' /\ SwapInHasSlot' /\ ChildReserved'
    BY OpFields, IdleType DEF HeldInHandler, SwapInHasSlot, ChildReserved, InUser
  <1>3. Books'
    BY SameBooks
  <1> QED
    BY <1>1, <1>2, <1>3

LEMMA ExitTypes ==
  ASSUME TypeInv, NEW p \in Proc, Exit(p)
  PROVE  TypeInv'
  <1> USE DEF TypeInv, TypeOK, Exit,
              vars, procVars, imageVars, ptVars, pageVars, memVars
  <1>1. TypeOK'
    BY ProcAssumption
  <1>2. HeldInHandler' /\ SwapInHasSlot' /\ ChildReserved'
    BY OpFields, IdleType DEF HeldInHandler, SwapInHasSlot, ChildReserved, InUser
  <1>3. Books'
    BY SameBooks
  <1> QED
    BY <1>1, <1>2, <1>3

LEMMA SbrkShrinkTypes ==
  ASSUME TypeInv, NEW p \in Proc, NEW n \in 1..(MaxVPage + 1), SbrkShrink(p, n)
  PROVE  TypeInv'
  <1> USE DEF TypeInv, TypeOK, SbrkShrink,
              vars, procVars, imageVars, ptVars, pageVars, memVars
  <1>0. sz' \in [Proc -> 0..(MaxVPage + 1)]
    BY ImageAssumption
  <1>1. TypeOK'
    BY <1>0, UnmapTypes DEF Dealloc, MappedPages
  <1>2. HeldInHandler' /\ SwapInHasSlot' /\ ChildReserved'
    BY OpFields, IdleType DEF HeldInHandler, SwapInHasSlot, ChildReserved, InUser
  <1>3. Books'
    BY SameBooks
  <1> QED
    BY <1>1, <1>2, <1>3

LEMMA GrowFailsTypes ==
  ASSUME TypeInv, NEW p \in Proc, GrowFails(p)
  PROVE  TypeInv'
  <1> USE DEF TypeInv, TypeOK, GrowFails, Return,
              vars, procVars, imageVars, ptVars, pageVars, memVars
  <1>1. TypeOK'
    BY UnmapTypes, IdleType DEF Dealloc, MappedPages
  <1>2. HeldInHandler' /\ SwapInHasSlot' /\ ChildReserved'
    BY OpFields, IdleType DEF HeldInHandler, SwapInHasSlot, ChildReserved, InUser
  <1>3. Books'
    BY SameBooks
  <1> QED
    BY <1>1, <1>2, <1>3

LEMMA GrowPageTypes ==
  ASSUME TypeInv, NEW p \in Proc, GrowPage(p)
  PROVE  TypeInv'
  <1>1. op \in [Proc -> OpType] /\ op[p].pc = "grow" /\ op[p].at < op[p].to
    BY DEF TypeInv, TypeOK, GrowPage
  <1>2. op[p].at \in VPage
    BY <1>1, GrowStep
  <1>3. PICK o \in OpType : o = [op[p] EXCEPT !.at = @ + 1] /\ o.pc = "grow"
    BY <1>1, GrowStep
  <1>4. op' = [op EXCEPT ![p] = o]
    BY <1>1, <1>3 DEF GrowPage
  <1>5. TypeOK'
    <2>1. op' \in [Proc -> OpType]
      BY <1>1, <1>4
    <2>2. /\ perm' \in [Proc -> [VPage -> SUBSET {"U", "W", "X"}]]
          /\ frame' \in [Proc -> [VPage -> Frame \cup {NoFrame}]]
          /\ free' \in SUBSET Frame
      BY <1>2 DEF TypeInv, TypeOK, GrowPage
    <2>3. mem' \in [Frame -> Content]
      BY DEF TypeInv, TypeOK, GrowPage, Content
    <2> QED
      BY <2>1, <2>2, <2>3 DEF TypeInv, TypeOK, GrowPage, procVars, imageVars, pageVars
  <1>6. HeldInHandler' /\ SwapInHasSlot' /\ ChildReserved'
    <2>1. ChildReserved /\ state[p] = "RUNNABLE" /\ state' = state
      BY <1>1 DEF TypeInv, ChildReserved, GrowPage, procVars
    <2>2. ChildReserved'
      BY <1>1, <1>3, <1>4, <2>1, NoForkStep
    <2> QED
      BY <1>1, <1>3, <1>4, <2>2 DEF TypeInv, HeldInHandler, SwapInHasSlot, GrowPage, pageVars
  <1>7. Books'
    BY SameBooks DEF TypeInv, GrowPage, pageVars
  <1> QED
    BY <1>5, <1>6, <1>7 DEF TypeInv

\* A step that touches the books of one process only.
LEMMA OneProcessBooks ==
  ASSUME Books, NEW p \in Proc, InBooks(fifo'[p], info'[p], slots'[p]),
         \A q \in Proc \ {p} : /\ fifo'[q] = fifo[q] /\ info'[q] = info[q]
                               /\ slots'[q] = slots[q]
  PROVE  Books'
  <1>1. \A q \in Proc : InBooks(fifo'[q], info'[q], slots'[q])
    BY BooksPerProcess
  <1> QED
    BY <1>1 DEF Books, FifoIsResident, SlotOwnership, InBooks, Distinct, Elems

LEMMA EntryTypes ==
  /\ \A e \in Entry : [e EXCEPT !.state = "UNMAPPED"] \in Entry
  /\ \A e \in Entry : [e EXCEPT !.state = "RESIDENT", !.dirty = FALSE] \in Entry
  /\ Untracked \in Entry /\ Unmapped \in Entry /\ Resident \in Entry
  BY DEF Entry, Untracked, Unmapped, Resident

LEMMA SwappedEntry ==
  ASSUME NEW e \in Entry, NEW k \in Slot
  PROVE  [e EXCEPT !.state = "SWAPPED", !.slot = k] \in Entry
  BY DEF Entry

LEMMA FaultAllocTypes ==
  ASSUME TypeInv, NEW p \in Proc, NEW v \in VPage, NEW access,
         NEW x \in Value \cup {NoValue}, InUser(p), FaultAlloc(p, v, access, x)
  PROVE  TypeInv'
  <1>1. /\ info \in [Proc -> [VPage -> Entry]] /\ op \in [Proc -> OpType]
        /\ op[p] = Idle /\ free \in SUBSET Frame /\ held \in [Proc -> Frame \cup {NoFrame}]
    BY DEF TypeInv, TypeOK, Entry, InUser
  <1>2. info' = [info EXCEPT ![p][v] = IF @.state = "NONE" THEN Unmapped ELSE @]
    BY DEF FaultAlloc
  <1>3. info' \in [Proc -> [VPage -> Entry]]
    BY <1>1, <1>2, EntryTypes
  <1>4. \A q \in Proc : \A w \in VPage :
          /\ info'[q][w].state = "RESIDENT" <=> info[q][w].state = "RESIDENT"
          /\ info'[q][w].state = "SWAPPED" <=> info[q][w].state = "SWAPPED"
    BY <1>1, <1>2 DEF Unmapped
  <1>5. \A c \in {"load", "evict"} :
          /\ FaultAt(c, v, FaultKind(p, v), x) \in OpType
          /\ FaultAt(c, v, FaultKind(p, v), x).pc = c
          /\ FaultAt(c, v, FaultKind(p, v), x).va = v
          /\ FaultAt(c, v, FaultKind(p, v), x).kind = "swap" => info[p][v].state = "SWAPPED"
    BY DEF FaultAt, FaultKind, OpType
  <1>6. \/ /\ \E f \in free : free' = free \ {f} /\ held' = [held EXCEPT ![p] = f]
           /\ op' = [op EXCEPT ![p] = FaultAt("load", v, FaultKind(p, v), x)]
        \/ /\ free' = free /\ held' = held
           /\ op' = [op EXCEPT ![p] = FaultAt("evict", v, FaultKind(p, v), x)]
    BY DEF FaultAlloc, Kalloc
  <1> HIDE DEF FaultAt, FaultKind
  <1>7. TypeOK'
    <2>1. op' \in [Proc -> OpType]
      BY <1>1, <1>5, <1>6
    <2>2. free' \in SUBSET Frame /\ held' \in [Proc -> Frame \cup {NoFrame}]
      BY <1>1, <1>6
    <2> QED
      BY <1>3, <2>1, <2>2
      DEF TypeInv, TypeOK, Entry, FaultAlloc, procVars, imageVars, ptVars
  <1>8. HeldInHandler'
    <2>1. HeldInHandler
      BY DEF TypeInv
    <2> QED
      BY <1>1, <1>5, <1>6, <2>1, IdleType, FrameAssumption DEF HeldInHandler
  <1>9. SwapInHasSlot'
    <2>1. SwapInHasSlot
      BY DEF TypeInv
    <2>2. \A q \in Proc \ {p} : op'[q] = op[q]
      BY <1>1, <1>6
    <2>3. op'[p].va = v /\ (op'[p].kind = "swap" => info[p][v].state = "SWAPPED")
      BY <1>1, <1>5, <1>6
    <2>4. \A q \in Proc : op[q].pc \in {"evict", "alloc", "load"} => op[q].va \in VPage
      BY <1>1, OpFields
    <2> QED
      BY <1>4, <2>1, <2>2, <2>3, <2>4 DEF SwapInHasSlot
  <1>a. ChildReserved'
    <2>1. ChildReserved /\ state[p] = "RUNNABLE" /\ state' = state
      BY DEF TypeInv, InUser, FaultAlloc, procVars
    <2> QED
      BY <1>1, <1>5, <1>6, <2>1, NoForkStep
  <1>10. Books'
    <2>1. /\ fifo' = fifo /\ slots' = slots /\ slots \in [Proc -> SUBSET Slot]
      BY DEF FaultAlloc, TypeInv, TypeOK
    <2>2. \A w \in VPage : info'[p][w].state = "SWAPPED" => info'[p][w] = info[p][w]
      BY <1>1, <1>2 DEF Unmapped
    <2>3. InBooks(fifo'[p], info'[p], slots'[p])
      BY <1>4, <2>1, <2>2, BooksPerProcess DEF InBooks, TypeInv
    <2> QED
      BY <1>1, <1>2, <2>1, <2>3, OneProcessBooks DEF TypeInv
  <1> QED
    BY <1>7, <1>8, <1>9, <1>a, <1>10 DEF TypeInv

\* What the two evictions have in common: the victim is resident, so it is not
\* the page of a pending swap-in.
LEMMA VictimFacts ==
  ASSUME TypeInv, NEW p \in Proc, op[p].pc = "evict", ~NothingToEvict(p)
  PROVE  /\ fifo[p] \in Seq(VPage) /\ fifo[p] # <<>> /\ Tail(fifo[p]) \in Seq(VPage)
         /\ Victim(p) \in VPage /\ {Victim(p)} \in SUBSET MappedPages(p)
         /\ Victim(p) = Head(fifo[p])
         /\ info[p][Victim(p)].state = "RESIDENT"
  <1>1. fifo[p] \in Seq(VPage) /\ fifo[p] # <<>> /\ Mapped(p, Victim(p))
        /\ Victim(p) = Head(fifo[p])
    BY DEF TypeInv, TypeOK, NothingToEvict, Victim
  <1>2. InBooks(fifo[p], info[p], slots[p])
    BY BooksPerProcess DEF TypeInv
  <1>3. Tail(fifo[p]) \in Seq(VPage) /\ Head(fifo[p]) \in VPage /\ Head(fifo[p]) \in Elems(fifo[p])
    BY <1>1, <1>2, TailFacts DEF InBooks
  <1> QED
    BY <1>1, <1>2, <1>3 DEF MappedPages, InBooks

LEMMA EvictOp ==
  ASSUME TypeInv, NEW p \in Proc, op[p].pc = "evict", ~NothingToEvict(p),
         op' = [op EXCEPT ![p].pc = "alloc"], held' = held, state' = state,
         \A q \in Proc \ {p} : info'[q] = info[q],
         \A v \in VPage \ {Victim(p)} : info'[p][v] = info[p][v]
  PROVE  /\ op' \in [Proc -> OpType]
         /\ HeldInHandler' /\ SwapInHasSlot' /\ ChildReserved'
  <1>1. op \in [Proc -> OpType] /\ HeldInHandler /\ SwapInHasSlot
    BY DEF TypeInv, TypeOK
  <1>2. PICK o \in OpType : o = [op[p] EXCEPT !.pc = "alloc"]
    BY <1>1, FaultStep
  <1>3. o.pc = "alloc" /\ o.va = op[p].va /\ o.kind = op[p].kind
    BY <1>1, <1>2, FaultStep
  <1>4. op' = [op EXCEPT ![p] = o]
    BY <1>1, <1>2
  <1>5. HeldInHandler'
    BY <1>1, <1>3, <1>4 DEF HeldInHandler
  <1>6. op[p].va \in VPage /\ (op[p].kind = "swap" => op[p].va # Victim(p))
    BY <1>1, OpFields, VictimFacts DEF SwapInHasSlot
  <1>7. SwapInHasSlot'
    BY <1>1, <1>3, <1>4, <1>6 DEF SwapInHasSlot
  <1>8. ChildReserved'
    <2>1. ChildReserved /\ state[p] = "RUNNABLE"
      BY DEF TypeInv, ChildReserved
    <2> QED
      BY <1>1, <1>3, <1>4, <2>1, NoForkStep
  <1> QED
    BY <1>1, <1>4, <1>5, <1>7, <1>8

LEMMA EvictCleanTypes ==
  ASSUME TypeInv, NEW p \in Proc, EvictClean(p)
  PROVE  TypeInv'
  <1> DEFINE e == [info[p] EXCEPT ![Victim(p)].state = "UNMAPPED"]
  <1>1. /\ info \in [Proc -> [VPage -> Entry]] /\ fifo \in [Proc -> Seq(VPage)]
        /\ slots \in [Proc -> SUBSET Slot]
    BY DEF TypeInv, TypeOK, Entry
  <1>2. op[p].pc = "evict" /\ ~NothingToEvict(p)
    BY DEF EvictClean
  <1>3. info' = [info EXCEPT ![p] = e] /\ fifo' = [fifo EXCEPT ![p] = Tail(@)] /\ slots' = slots
    BY <1>1 DEF EvictClean
  <1>4. e \in [VPage -> Entry]
    <2>1. Victim(p) \in VPage
      BY <1>2, VictimFacts
    <2>2. [info[p][Victim(p)] EXCEPT !.state = "UNMAPPED"] \in Entry
      BY <1>1, <2>1, EntryTypes
    <2> QED
      BY <1>1, <2>1, <2>2
  <1>5. \A v \in VPage \ {Victim(p)} : e[v] = info[p][v]
    BY <1>1
  <1>6. InBooks(Tail(fifo[p]), e, slots[p])
    <2>1. InBooks(fifo[p], info[p], slots[p])
      BY BooksPerProcess DEF TypeInv
    <2> QED
      BY <1>1, <1>2, <2>1, VictimFacts, DiscardBooks DEF Entries
  <1> HIDE DEF e
  <1>7. /\ op' \in [Proc -> OpType]
        /\ HeldInHandler' /\ SwapInHasSlot' /\ ChildReserved'
    BY <1>1, <1>2, <1>3, <1>5, EvictOp DEF EvictClean, procVars
  <1>8. TypeOK'
    <2>1. info' \in [Proc -> [VPage -> Entry]] /\ fifo' \in [Proc -> Seq(VPage)]
      BY <1>1, <1>2, <1>3, <1>4, VictimFacts
    <2> QED
      BY <1>2, <1>7, <2>1, VictimFacts, UnmapTypes
      DEF TypeInv, TypeOK, Entry, EvictClean, procVars, imageVars
  <1>9. Books'
    BY <1>1, <1>3, <1>6, OneProcessBooks DEF TypeInv
  <1> QED
    BY <1>7, <1>8, <1>9 DEF TypeInv

LEMMA EvictDirtyTypes ==
  ASSUME TypeInv, NEW p \in Proc, EvictDirty(p)
  PROVE  TypeInv'
  <1>1. /\ info \in [Proc -> [VPage -> Entry]] /\ fifo \in [Proc -> Seq(VPage)]
        /\ slots \in [Proc -> SUBSET Slot] /\ swap \in [Proc -> [Slot -> Content]]
        /\ mem \in [Frame -> Content] /\ frame \in [Proc -> [VPage -> Frame \cup {NoFrame}]]
    BY DEF TypeInv, TypeOK, Entry
  <1>2. op[p].pc = "evict" /\ ~NothingToEvict(p)
    BY DEF EvictDirty
  <1>3. PICK s \in Slot \ slots[p] :
          /\ s < SwapCap
          /\ slots' = [slots EXCEPT ![p] = @ \cup {s}]
          /\ swap'  = [swap EXCEPT ![p][s] = mem[frame[p][Victim(p)]]]
          /\ info'  = [info EXCEPT ![p][Victim(p)] =
                          [@ EXCEPT !.state = "SWAPPED", !.slot = s]]
    BY DEF EvictDirty, FreeSlots
  <1> DEFINE e == [info[p] EXCEPT ![Victim(p)] =
                     [@ EXCEPT !.state = "SWAPPED", !.slot = s]]
  <1>4. info' = [info EXCEPT ![p] = e] /\ fifo' = [fifo EXCEPT ![p] = Tail(@)]
    BY <1>1, <1>3 DEF EvictDirty
  <1>5. e \in [VPage -> Entry]
    <2>1. Victim(p) \in VPage
      BY <1>2, VictimFacts
    <2>2. [info[p][Victim(p)] EXCEPT !.state = "SWAPPED", !.slot = s] \in Entry
      <3>1. info[p][Victim(p)] \in Entry /\ s \in Slot
        BY <1>1, <2>1
      <3> QED
        BY <3>1, SwappedEntry
    <2> QED
      BY <1>1, <2>1, <2>2
  <1>6. \A v \in VPage \ {Victim(p)} : e[v] = info[p][v]
    BY <1>1
  <1>7. InBooks(Tail(fifo[p]), e, slots[p] \cup {s})
    <2>1. InBooks(fifo[p], info[p], slots[p])
      BY BooksPerProcess DEF TypeInv
    <2> QED
      BY <1>1, <1>2, <1>3, <2>1, VictimFacts, SwapOutBooks DEF Entries
  <1> HIDE DEF e
  <1>8. /\ op' \in [Proc -> OpType]
        /\ HeldInHandler' /\ SwapInHasSlot' /\ ChildReserved'
    BY <1>1, <1>2, <1>4, <1>6, EvictOp DEF EvictDirty, procVars
  <1>9. TypeOK'
    <2>1. info' \in [Proc -> [VPage -> Entry]] /\ fifo' \in [Proc -> Seq(VPage)]
      BY <1>1, <1>2, <1>4, <1>5, VictimFacts
    <2>2. mem[frame[p][Victim(p)]] \in Content
      BY <1>1, <1>2, VictimFacts DEF MappedPages, Mapped
    <2>3. slots' \in [Proc -> SUBSET Slot] /\ swap' \in [Proc -> [Slot -> Content]]
      BY <1>1, <1>3, <2>2
    <2> QED
      BY <1>2, <1>8, <2>1, <2>3, VictimFacts, UnmapTypes
      DEF TypeInv, TypeOK, Entry, EvictDirty, procVars, imageVars
  <1>10. Books'
    <2>1. slots'[p] = slots[p] \cup {s} /\ fifo'[p] = Tail(fifo[p]) /\ info'[p] = e
      BY <1>1, <1>3, <1>4
    <2>2. \A q \in Proc \ {p} : fifo'[q] = fifo[q] /\ info'[q] = info[q] /\ slots'[q] = slots[q]
      BY <1>1, <1>3, <1>4
    <2> QED
      BY <1>7, <2>1, <2>2, OneProcessBooks DEF TypeInv
  <1> QED
    BY <1>8, <1>9, <1>10 DEF TypeInv

LEMMA LoadTypes ==
  ASSUME TypeInv, NEW p \in Proc, Load(p)
  PROVE  TypeInv'
  <1> DEFINE v == op[p].va
             kind == op[p].kind
             x == IF kind = "swap" THEN Resident
                  ELSE [info[p][v] EXCEPT !.state = "RESIDENT", !.dirty = FALSE]
             o == IF op[p].val = NoValue THEN Idle ELSE [op[p] EXCEPT !.pc = "copyout"]
             n == IF kind = "swap" THEN slots[p] \ {info[p][v].slot} ELSE slots[p]
  <1>1. /\ info \in [Proc -> [VPage -> Entry]] /\ fifo \in [Proc -> Seq(VPage)]
        /\ slots \in [Proc -> SUBSET Slot] /\ swap \in [Proc -> [Slot -> Content]]
        /\ mem \in [Frame -> Content] /\ op \in [Proc -> OpType]
        /\ frame \in [Proc -> [VPage -> Frame \cup {NoFrame}]]
        /\ held \in [Proc -> Frame \cup {NoFrame}]
        /\ perm \in [Proc -> [VPage -> SUBSET {"U", "W", "X"}]]
        /\ HeldInHandler /\ SwapInHasSlot /\ op[p].pc = "load"
        /\ execInode \in [Proc -> Image \cup {NoImage}]
    BY DEF TypeInv, TypeOK, Entry, Load
  <1>2. v \in VPage /\ kind \in {"swap", "exec", "zero"}
    BY <1>1, OpFields
  <1>3. kind = "swap" => /\ info[p][v].state = "SWAPPED" /\ info[p][v].slot \in slots[p]
                         /\ info[p][v].slot \in Slot
    <2>1. kind = "swap" => info[p][v].state = "SWAPPED"
      BY <1>1 DEF SwapInHasSlot
    <2>2. SlotOwnership
      BY DEF TypeInv, Books
    <2> QED
      BY <1>1, <1>2, <2>1, <2>2 DEF SlotOwnership
  <1>4. o \in OpType /\ o.pc \in {"user", "copyout"}
    BY <1>1, IdleType, CopyoutStep
  <1>5. x \in Entry /\ x.state = "RESIDENT"
    <2>1. info[p][v] \in Entry
      BY <1>1, <1>2
    <2>2. [info[p][v] EXCEPT !.state = "RESIDENT", !.dirty = FALSE] \in Entry
      BY <2>1, EntryTypes
    <2>3. [info[p][v] EXCEPT !.state = "RESIDENT", !.dirty = FALSE].state = "RESIDENT"
      BY <2>1 DEF Entry
    <2>4. Resident \in Entry /\ Resident.state = "RESIDENT"
      BY EntryTypes DEF Resident
    <2> QED
      BY <2>2, <2>3, <2>4
  <1>6. /\ n \in SUBSET Slot
        /\ \/ n = slots[p]
           \/ info[p][v].state = "SWAPPED" /\ n = slots[p] \ {info[p][v].slot}
    BY <1>1, <1>3
  <1>7. /\ info' = [info EXCEPT ![p] = [info[p] EXCEPT ![v] = x]]
        /\ fifo' = [fifo EXCEPT ![p] = Youngest(fifo[p], v)]
        /\ slots' = [slots EXCEPT ![p] = n] /\ op' = [op EXCEPT ![p] = o]
        /\ held' = [held EXCEPT ![p] = NoFrame] /\ swap' = swap /\ free' = free
        /\ frame' = [frame EXCEPT ![p][v] = held[p]]
    BY <1>1, <1>2 DEF Load
  <1>8. mem' \in [Frame -> Content]
    <2>1. (kind = "swap") => swap[p][info[p][v].slot] \in Content
      BY <1>1, <1>3
    <2>2. ExecContent(p, v) \in Content /\ Zero \in Content
      BY <1>1 DEF ExecContent, Content
    <2> DEFINE y == CASE kind = "swap" -> swap[p][info[p][v].slot]
                      [] kind = "exec" -> ExecContent(p, v)
                      [] kind = "zero" -> Zero
    <2>3. y \in Content
      BY <1>2, <2>1, <2>2
    <2>4. mem' = [mem EXCEPT ![held[p]] = y]
      BY DEF Load
    <2> HIDE DEF y
    <2> QED
      BY <1>1, <2>3, <2>4
  <1>9. perm' \in [Proc -> [VPage -> SUBSET {"U", "W", "X"}]]
    <2> DEFINE b == IF kind = "exec" THEN ExecPerm(p, v) ELSE {"U"}
    <2>1. b \in SUBSET {"U", "W", "X"}
      BY DEF ExecPerm
    <2>2. perm' = [perm EXCEPT ![p][v] = b]
      BY DEF Load
    <2> HIDE DEF b
    <2> QED
      BY <1>1, <1>2, <2>1, <2>2
  <1>10. /\ InBooks(Youngest(fifo[p], v), [info[p] EXCEPT ![v] = x], n)
         /\ Youngest(fifo[p], v) \in Seq(VPage)
    <2>1. InBooks(fifo[p], info[p], slots[p])
      BY BooksPerProcess DEF TypeInv
    <2>2. fifo[p] \in Seq(VPage) /\ info[p] \in Entries
      BY <1>1 DEF Entries
    <2> HIDE DEF x, n
    <2>3. InBooks(Youngest(fifo[p], v), [info[p] EXCEPT ![v] = x], n)
      BY <1>2, <1>5, <1>6, <2>1, <2>2, LoadBooks
    <2>4. Youngest(fifo[p], v) \in Seq(VPage)
      BY <1>2, <2>1, <2>2, YoungestFacts DEF InBooks
    <2> QED
      BY <2>3, <2>4
  <1> HIDE DEF x, o, n, v, kind
  <1>11. TypeOK'
    <2>1. info' \in [Proc -> [VPage -> Entry]] /\ fifo' \in [Proc -> Seq(VPage)]
      BY <1>1, <1>2, <1>5, <1>7, <1>10
    <2>2. op' \in [Proc -> OpType] /\ slots' \in [Proc -> SUBSET Slot]
      BY <1>1, <1>4, <1>6, <1>7
    <2>3. /\ frame' \in [Proc -> [VPage -> Frame \cup {NoFrame}]]
          /\ held' \in [Proc -> Frame \cup {NoFrame}]
      BY <1>1, <1>2, <1>7
    <2> QED
      BY <1>7, <1>8, <1>9, <2>1, <2>2, <2>3
      DEF TypeInv, TypeOK, Entry, Load, procVars, imageVars
  <1>12. HeldInHandler'
    BY <1>1, <1>4, <1>7 DEF HeldInHandler
  <1>13. SwapInHasSlot'
    <2>1. \A q \in Proc \ {p} : op'[q] = op[q] /\ info'[q] = info[q]
      BY <1>1, <1>7
    <2>2. op'[p].pc \in {"user", "copyout"}
      BY <1>1, <1>4, <1>7
    <2> QED
      BY <1>1, <2>1, <2>2 DEF SwapInHasSlot
  <1>a. ChildReserved'
    <2>1. ChildReserved /\ state[p] = "RUNNABLE" /\ state' = state
      BY <1>1 DEF TypeInv, ChildReserved, Load, procVars
    <2> QED
      BY <1>1, <1>4, <1>7, <2>1, NoForkStep
  <1>14. Books'
    <2>1. InBooks(fifo'[p], info'[p], slots'[p])
      BY <1>1, <1>7, <1>10
    <2>2. \A q \in Proc \ {p} : fifo'[q] = fifo[q] /\ info'[q] = info[q] /\ slots'[q] = slots[q]
      BY <1>1, <1>7
    <2> QED
      BY <2>1, <2>2, OneProcessBooks DEF TypeInv
  <1> QED
    BY <1>11, <1>12, <1>13, <1>a, <1>14 DEF TypeInv

LEMMA ForkDoneTypes ==
  ASSUME TypeInv, NEW p \in Proc, ForkDone(p)
  PROVE  TypeInv'
  <1> DEFINE c == op[p].child
             e == [v \in VPage |-> ChildInfo(info[p][v])]
  <1>1. /\ info \in [Proc -> [VPage -> Entry]] /\ fifo \in [Proc -> Seq(VPage)]
        /\ slots \in [Proc -> SUBSET Slot] /\ op \in [Proc -> OpType]
        /\ HeldInHandler /\ SwapInHasSlot /\ ChildReserved /\ op[p].pc = "fork"
    BY DEF TypeInv, TypeOK, Entry, ForkDone
  <1>2. c \in Proc
    BY <1>1, OpFields
  <1>3. e \in [VPage -> Entry] /\ InBooks(fifo[p], e, slots[c])
    BY <1>1, BooksPerProcess, ForkBooks DEF TypeInv, Entries
  <1>4. /\ info' = [info EXCEPT ![c] = e] /\ fifo' = [fifo EXCEPT ![c] = fifo[p]]
        /\ slots' = slots /\ op' = [op EXCEPT ![p] = Idle] /\ held' = held
    BY DEF ForkDone, Return, memVars
  <1> HIDE DEF c, e
  <1>5. TypeOK'
    <2>1. info' \in [Proc -> [VPage -> Entry]] /\ fifo' \in [Proc -> Seq(VPage)]
          /\ op' \in [Proc -> OpType]
      BY <1>1, <1>2, <1>3, <1>4, IdleType
    <2>2. /\ state' \in [Proc -> {"UNUSED", "USED", "RUNNABLE", "ZOMBIE"}]
          /\ parent' \in [Proc -> Proc \cup {NoProc}]
          /\ img' \in [Proc -> Image]
          /\ segs' \in [Proc -> Image \cup {NoImage}]
          /\ execInode' \in [Proc -> Image \cup {NoImage}]
          /\ sz' \in [Proc -> 0..(MaxVPage + 1)]
      BY <1>2 DEF TypeInv, TypeOK, ForkDone, c
    <2> QED
      BY <2>1, <2>2 DEF TypeInv, TypeOK, Entry, ForkDone, ptVars, memVars
  <1>6. HeldInHandler'
    BY <1>1, <1>4, IdleType DEF HeldInHandler
  <1>7. SwapInHasSlot'
    <2>1. SUFFICES ASSUME NEW q \in Proc, op'[q].pc \in {"evict", "alloc", "load"},
                          op'[q].kind = "swap"
                   PROVE  info'[q][op'[q].va].state = "SWAPPED"
      BY DEF SwapInHasSlot
    <2>2. q # p /\ op'[q] = op[q]
      BY <1>1, <1>4, <2>1, IdleType
    <2>3. q # c
      BY <1>1, <2>1, <2>2 DEF ChildReserved, c
    <2> QED
      BY <1>1, <1>4, <2>1, <2>2, <2>3 DEF SwapInHasSlot
  <1>a. ChildReserved'
    <2>1. /\ state' = [state EXCEPT ![c] = "RUNNABLE"]
          /\ state \in [Proc -> {"UNUSED", "USED", "RUNNABLE", "ZOMBIE"}]
      BY DEF TypeInv, TypeOK, ForkDone, c
    <2>2. \A q \in Proc : op[q].pc = "fork" => op[q].child \in Proc
      BY <1>1, OpFields
    <2>3. \A q \in Proc \ {p} : op[q].pc = "fork" => op[q].child # c
      BY <1>1 DEF ChildReserved, c
    <2> QED
      BY <1>1, <1>2, <1>4, <2>1, <2>2, <2>3, IdleType DEF ChildReserved
  <1>8. Books'
    <2>1. InBooks(fifo'[c], info'[c], slots'[c])
      BY <1>1, <1>2, <1>3, <1>4
    <2>2. \A q \in Proc \ {c} : fifo'[q] = fifo[q] /\ info'[q] = info[q] /\ slots'[q] = slots[q]
      BY <1>1, <1>4
    <2> QED
      BY <1>2, <2>1, <2>2, OneProcessBooks DEF TypeInv
  <1> QED
    BY <1>5, <1>6, <1>7, <1>a, <1>8 DEF TypeInv

LEMMA WaitTypes ==
  ASSUME TypeInv, NEW p \in Proc, NEW c \in Proc, Wait(p, c)
  PROVE  TypeInv'
  <1>1. /\ info \in [Proc -> [VPage -> Entry]] /\ fifo \in [Proc -> Seq(VPage)]
        /\ slots \in [Proc -> SUBSET Slot] /\ swap \in [Proc -> [Slot -> Content]]
        /\ ChildReserved /\ state[c] = "ZOMBIE" /\ op' = op /\ held' = held
        /\ state' = [state EXCEPT ![c] = "UNUSED"]
    BY DEF TypeInv, TypeOK, Entry, Wait, FreeProc
  <1>2. /\ info' = [info EXCEPT ![c] = NoInfo] /\ fifo' = [fifo EXCEPT ![c] = <<>>]
        /\ slots' = [slots EXCEPT ![c] = {}] /\ swap' = [swap EXCEPT ![c] = NoSwap]
    BY DEF Wait
  <1>3. NoInfo \in [VPage -> Entry] /\ InBooks(<<>>, NoInfo, {}) /\ <<>> \in Seq(VPage)
        /\ NoSwap \in [Slot -> Content]
    <2>1. PICK v : v \in VPage
      BY ImageAssumption, Layout
    <2>2. NoInfo \in [VPage -> Entry] /\ InBooks(<<>>, NoInfo, {})
      BY <2>1, FreshBooks DEF Entries
    <2> QED
      BY <2>2 DEF NoSwap, Content
  <1>4. TypeOK'
    <2>1. /\ info' \in [Proc -> [VPage -> Entry]] /\ fifo' \in [Proc -> Seq(VPage)]
          /\ slots' \in [Proc -> SUBSET Slot] /\ swap' \in [Proc -> [Slot -> Content]]
      BY <1>1, <1>2, <1>3
    <2>2. /\ frame' \in [Proc -> [VPage -> Frame \cup {NoFrame}]]
          /\ perm' \in [Proc -> [VPage -> SUBSET {"U", "W", "X"}]]
          /\ free' \in SUBSET Frame /\ mem' \in [Frame -> Content]
      BY UnmapTypes DEF TypeInv, Wait, FreeProc
    <2>3. /\ state' \in [Proc -> {"UNUSED", "USED", "RUNNABLE", "ZOMBIE"}]
          /\ parent' \in [Proc -> Proc \cup {NoProc}] /\ killed' \in [Proc -> BOOLEAN]
      BY DEF TypeInv, TypeOK, Wait, FreeProc
    <2>4. /\ img' \in [Proc -> Image] /\ segs' \in [Proc -> Image \cup {NoImage}]
          /\ sz' \in [Proc -> 0..(MaxVPage + 1)]
      BY ImageAssumption DEF TypeInv, TypeOK, Wait
    <2> QED
      BY <2>1, <2>2, <2>3, <2>4, SMTT(40) DEF TypeInv, TypeOK, Entry, Wait
  <1>5. HeldInHandler'
    BY <1>1 DEF TypeInv, HeldInHandler
  <1>6. ChildReserved'
    <2>1. /\ state \in [Proc -> {"UNUSED", "USED", "RUNNABLE", "ZOMBIE"}]
          /\ \A q \in Proc : op[q].pc = "fork" => op[q].child \in Proc
      BY OpFields DEF TypeInv, TypeOK
    <2> QED
      BY <1>1, <2>1 DEF ChildReserved
  <1>7. SwapInHasSlot'
    BY <1>1, <1>2 DEF TypeInv, SwapInHasSlot, ChildReserved
  <1>8. Books'
    <2>1. InBooks(fifo'[c], info'[c], slots'[c])
      BY <1>1, <1>2, <1>3
    <2>2. \A q \in Proc \ {c} : fifo'[q] = fifo[q] /\ info'[q] = info[q] /\ slots'[q] = slots[q]
      BY <1>1, <1>2
    <2> QED
      BY <2>1, <2>2, OneProcessBooks DEF TypeInv
  <1> QED
    BY <1>4, <1>5, <1>6, <1>7, <1>8 DEF TypeInv

LEMMA ExecCommitTypes ==
  ASSUME TypeInv, NEW p \in Proc, ExecCommit(p)
  PROVE  TypeInv'
  <1> DEFINE i == op[p].img
             s == StackPage(i)
             e == [NoInfo EXCEPT ![s] = Resident]
  <1>1. /\ info \in [Proc -> [VPage -> Entry]] /\ fifo \in [Proc -> Seq(VPage)]
        /\ slots \in [Proc -> SUBSET Slot] /\ op \in [Proc -> OpType]
        /\ ChildReserved /\ HeldInHandler /\ SwapInHasSlot /\ op[p].pc = "execstack"
        /\ free \in SUBSET Frame /\ held \in [Proc -> Frame \cup {NoFrame}]
        /\ mem \in [Frame -> Content]
        /\ frame \in [Proc -> [VPage -> Frame \cup {NoFrame}]]
        /\ perm \in [Proc -> [VPage -> SUBSET {"U", "W", "X"}]]
        /\ img \in [Proc -> Image] /\ sz \in [Proc -> 0..(MaxVPage + 1)]
    BY DEF TypeInv, TypeOK, Entry, ExecCommit
  <1>2. i \in Image /\ s \in VPage /\ Guard(i) \in VPage /\ StackTop(i) \in 0..(MaxVPage + 1)
    BY <1>1, OpFields, Layout
  <1>3. e \in [VPage -> Entry] /\ InBooks(<<s>>, e, slots[p]) /\ <<s>> \in Seq(VPage)
    BY <1>2, FreshBooks DEF Entries
  <1>4. /\ info' = [info EXCEPT ![p] = e] /\ fifo' = [fifo EXCEPT ![p] = <<s>>]
        /\ slots' = slots /\ op' = [op EXCEPT ![p] = Idle]
        /\ held' = [held EXCEPT ![p] = NoFrame] /\ state' = state
    BY DEF ExecCommit, Return, procVars
  <1>5. PICK f \in free :
          /\ free' = (free \ {f}) \cup FramesOf(p)
          /\ mem' = [Freed(FramesOf(p)) EXCEPT ![f] = Zero, ![held[p]] = Zero]
          /\ frame' = [frame EXCEPT ![p] = [NoMap EXCEPT ![Guard(i)] = held[p], ![s] = f]]
    BY DEF ExecCommit
  <1>6. perm' = [perm EXCEPT ![p] = [NoPerm EXCEPT ![Guard(i)] = {"W"}, ![s] = {"U", "W"}]]
        /\ img' = [img EXCEPT ![p] = i] /\ sz' = [sz EXCEPT ![p] = StackTop(i)]
    BY DEF ExecCommit
  <1> HIDE DEF i, s, e
  <1>7. TypeOK'
    <2>1. /\ info' \in [Proc -> [VPage -> Entry]] /\ fifo' \in [Proc -> Seq(VPage)]
          /\ op' \in [Proc -> OpType]
      BY <1>1, <1>3, <1>4, IdleType
    <2>2. FramesOf(p) \in SUBSET Frame /\ free' \in SUBSET Frame
      BY <1>1, <1>5 DEF FramesOf, MappedPages, Mapped
    <2>3. mem' \in [Frame -> Content]
      <3>1. Freed(FramesOf(p)) \in [Frame -> Content] /\ Zero \in Content
        BY <1>1 DEF Freed, Content
      <3> QED
        BY <1>5, <3>1
    <2>4. frame' \in [Proc -> [VPage -> Frame \cup {NoFrame}]]
      <3>1. [NoMap EXCEPT ![Guard(i)] = held[p], ![s] = f] \in [VPage -> Frame \cup {NoFrame}]
        BY <1>1 DEF NoMap
      <3> QED
        BY <1>1, <1>5, <3>1
    <2>5. perm' \in [Proc -> [VPage -> SUBSET {"U", "W", "X"}]]
      <3>1. [NoPerm EXCEPT ![Guard(i)] = {"W"}, ![s] = {"U", "W"}]
              \in [VPage -> SUBSET {"U", "W", "X"}]
        BY DEF NoPerm
      <3> QED
        BY <1>1, <1>6, <3>1
    <2>6. img' \in [Proc -> Image] /\ sz' \in [Proc -> 0..(MaxVPage + 1)]
          /\ held' \in [Proc -> Frame \cup {NoFrame}]
      BY <1>1, <1>2, <1>4, <1>6
    <2> QED
      BY <2>1, <2>2, <2>3, <2>4, <2>5, <2>6
      DEF TypeInv, TypeOK, Entry, ExecCommit, procVars
  <1>8. HeldInHandler'
    BY <1>1, <1>4, IdleType DEF HeldInHandler
  <1>9. ChildReserved'
    BY <1>1, <1>4, IdleType, NoForkStep
  <1>10. SwapInHasSlot'
    BY <1>1, <1>4, IdleType DEF SwapInHasSlot
  <1>11. Books'
    <2>1. InBooks(fifo'[p], info'[p], slots'[p])
      BY <1>1, <1>3, <1>4
    <2>2. \A q \in Proc \ {p} : fifo'[q] = fifo[q] /\ info'[q] = info[q] /\ slots'[q] = slots[q]
      BY <1>1, <1>4
    <2> QED
      BY <2>1, <2>2, OneProcessBooks DEF TypeInv
  <1> QED
    BY <1>7, <1>8, <1>9, <1>10, <1>11 DEF TypeInv

LEMMA InitTypes == Init => TypeInv
  <1> SUFFICES ASSUME Init PROVE TypeInv
    OBVIOUS
  <1> DEFINE s == StackPage(InitImage)
             e == [NoInfo EXCEPT ![s] = Resident]
  <1>1. InitImage \in Image /\ s \in VPage /\ StackTop(InitImage) \in 0..(MaxVPage + 1)
    BY ImageAssumption, Layout
  <1>2. /\ e \in [VPage -> Entry] /\ NoInfo \in [VPage -> Entry]
        /\ InBooks(<<s>>, e, {}) /\ InBooks(<<>>, NoInfo, {})
        /\ <<s>> \in Seq(VPage) /\ <<>> \in Seq(VPage)
    <2>1. /\ e \in [VPage -> Entry] /\ NoInfo \in [VPage -> Entry]
          /\ InBooks(<<s>>, e, {}) /\ InBooks(<<>>, NoInfo, {})
      BY <1>1, FreshBooks DEF Entries
    <2>2. <<s>> \in Seq(VPage) /\ <<>> \in Seq(VPage)
      BY <1>1
    <2> QED
      BY <2>1, <2>2
  <1>3. /\ info = [p \in Proc |-> IF p = InitProc THEN e ELSE NoInfo]
        /\ fifo = [p \in Proc |-> IF p = InitProc THEN <<s>> ELSE <<>>]
        /\ slots = [p \in Proc |-> {}] /\ swap = [p \in Proc |-> NoSwap]
    BY DEF Init
  <1> HIDE DEF s, e
  <1>4. TypeOK
    <2>1. /\ info \in [Proc -> [VPage -> Entry]] /\ fifo \in [Proc -> Seq(VPage)]
          /\ slots \in [Proc -> SUBSET Slot]
      BY <1>2, <1>3
    <2>2. swap \in [Proc -> [Slot -> Content]]
      BY <1>3 DEF NoSwap, Content
    <2>3. /\ frame \in [Proc -> [VPage -> Frame \cup {NoFrame}]]
          /\ free \in SUBSET Frame /\ mem \in [Frame -> Content]
      <3>1. PICK f, g \in Frame :
              /\ frame = [p \in Proc |->
                   IF p = InitProc THEN [NoMap EXCEPT ![Guard(InitImage)] = f, ![s] = g]
                   ELSE NoMap]
              /\ free = Frame \ {f, g}
              /\ mem = [h \in Frame |-> IF h \in {f, g} THEN Zero ELSE Junk]
        BY DEF Init, s
      <3>2. /\ NoMap \in [VPage -> Frame \cup {NoFrame}]
            /\ [NoMap EXCEPT ![Guard(InitImage)] = f, ![s] = g] \in [VPage -> Frame \cup {NoFrame}]
        BY DEF NoMap
      <3>3. frame \in [Proc -> [VPage -> Frame \cup {NoFrame}]]
        BY <3>1, <3>2
      <3>4. mem \in [Frame -> Content]
        BY <3>1 DEF Content
      <3> QED
        BY <3>1, <3>3, <3>4
    <2>4. perm \in [Proc -> [VPage -> SUBSET {"U", "W", "X"}]]
      BY DEF Init, NoPerm
    <2>5. /\ state \in [Proc -> {"UNUSED", "USED", "RUNNABLE", "ZOMBIE"}]
          /\ parent \in [Proc -> Proc \cup {NoProc}] /\ killed \in [Proc -> BOOLEAN]
          /\ img \in [Proc -> Image] /\ segs \in [Proc -> Image \cup {NoImage}]
          /\ execInode \in [Proc -> Image \cup {NoImage}]
          /\ sz \in [Proc -> 0..(MaxVPage + 1)]
      BY <1>1, ImageAssumption DEF Init
    <2>6. held \in [Proc -> Frame \cup {NoFrame}] /\ op \in [Proc -> OpType] /\ panicked \in BOOLEAN
      BY IdleType DEF Init
    <2> QED
      BY <2>1, <2>2, <2>3, <2>4, <2>5, <2>6 DEF TypeOK, Entry
  <1>5. HeldInHandler /\ SwapInHasSlot /\ ChildReserved
    BY IdleType DEF Init, HeldInHandler, SwapInHasSlot, ChildReserved
  <1>6. Books
    BY <1>2, <1>3, BooksPerProcess
  <1> QED
    BY <1>4, <1>5, <1>6 DEF TypeInv

LEMMA TypeStep == TypeInv /\ [Next]_vars => TypeInv'
  <1> SUFFICES ASSUME TypeInv, [Next]_vars PROVE TypeInv'
    OBVIOUS
  <1>1. CASE UNCHANGED vars
    <2>1. /\ info' = info /\ fifo' = fifo /\ slots' = slots /\ op' = op /\ held' = held
          /\ state' = state
      BY <1>1 DEF vars, procVars, pageVars, memVars
    <2>2. TypeOK'
      BY <1>1 DEF TypeInv, TypeOK, vars, procVars, imageVars, ptVars, pageVars, memVars
    <2>3. HeldInHandler' /\ SwapInHasSlot' /\ ChildReserved'
      BY <2>1 DEF TypeInv, HeldInHandler, SwapInHasSlot, ChildReserved
    <2> QED
      BY <2>1, <2>2, <2>3, SameBooks DEF TypeInv
  <1>2. ASSUME NEW p \in Proc, UserStep(p)
        PROVE  TypeInv'
    <2>1. CASE \E v \in VPage, x \in Value : Store(p, v, x) \/ CopyOut(p, v, x)
      BY <2>1, StoreTypes, CopyOutTypes
    <2>2. ASSUME NEW v \in VPage, NEW access, NEW fromUser, NEW x \in Value \cup {NoValue},
                 InUser(p), HandlePageFault(p, v, access, fromUser, x)
          PROVE  TypeInv'
      BY <2>2, RefuseFaultTypes, FirstWriteTypes, FaultUntrackableTypes, FaultAllocTypes
      DEF HandlePageFault
    <2>3. CASE \E v \in VPage, access \in Accesses : UserFault(p, v, access)
      BY <2>3, <2>2 DEF UserFault
    <2>4. CASE \E v \in VPage, x \in Value \cup {NoValue} : KernelFault(p, v, x)
      BY <2>4, <2>2 DEF KernelFault
    <2>5. CASE \E c \in Proc : ForkStart(p, c) \/ Wait(p, c)
      BY <2>5, ForkStartTypes, WaitTypes
    <2>6. CASE (\E i \in Image : ExecParse(p, i)) \/ ExecBadHeader(p)
      BY <2>6, ExecParseTypes, ExecBadHeaderTypes
    <2>7. CASE \E n \in 1..(MaxVPage + 1) : SbrkLazy(p, n) \/ SbrkEager(p, n) \/ SbrkShrink(p, n)
      BY <2>7, SbrkLazyTypes, SbrkEagerTypes, SbrkShrinkTypes
    <2>8. CASE Kill(p)
      BY <2>8, KillTypes
    <2> QED
      BY <1>2, <2>1, <2>3, <2>4, <2>5, <2>6, <2>7, <2>8 DEF UserStep
  <1>3. ASSUME NEW p \in Proc, KernelStep(p)
        PROVE  TypeInv'
    <2>1. CASE EvictFails(p) \/ EvictClean(p) \/ EvictDirty(p) \/ AllocAfterEvict(p)
      BY <2>1, EvictFailsTypes, EvictCleanTypes, EvictDirtyTypes, AllocAfterEvictTypes
    <2>2. CASE LoadRemap(p) \/ Load(p) \/ CopyOutResume(p)
      BY <2>2, LoadRemapTypes, LoadTypes, CopyOutResumeTypes
    <2>3. CASE ForkCopyPage(p) \/ ForkFails(p) \/ ForkDone(p)
      BY <2>3, ForkCopyPageTypes, ForkFailsTypes, ForkDoneTypes
    <2>4. CASE ExecGuard(p) \/ ExecFails(p) \/ ExecCommit(p)
      BY <2>4, ExecGuardTypes, ExecFailsTypes, ExecCommitTypes
    <2>5. CASE GrowPage(p) \/ GrowRemap(p) \/ GrowFails(p) \/ GrowDone(p)
      BY <2>5, GrowPageTypes, GrowRemapTypes, GrowFailsTypes, GrowDoneTypes
    <2> QED
      BY <1>3, <2>1, <2>2, <2>3, <2>4, <2>5 DEF KernelStep
  <1>4. CASE Next
    BY <1>2, <1>3, <1>4, ExitTypes, InitExitsTypes DEF Next
  <1> QED
    BY <1>1, <1>4

LEMMA TypeInvariant == Spec => []TypeInv
  BY InitTypes, TypeStep, PTL DEF Spec

-----------------------------------------------------------------------------
\* The tables, entries and handler states stay within their types, whatever
\* the processes do.
THEOREM TypeCorrect == Spec => []TypeOK
  <1>1. TypeInv => TypeOK
    BY DEF TypeInv
  <1> QED
    BY <1>1, TypeInvariant, PTL

\* No two swapped pages of a process share a slot, and each one's slot is
\* marked in the bitmap: evict, swap-in, fork, exec and wait all keep it.
THEOREM SlotsExclusive == Spec => []SlotOwnership
  <1>1. TypeInv => SlotOwnership
    BY DEF TypeInv, Books
  <1> QED
    BY <1>1, TypeInvariant, PTL

\* The pages with a FIFO number are the resident ones, each once.
THEOREM FifoExact == Spec => []FifoIsResident
  <1>1. TypeInv => FifoIsResident
    BY DEF TypeInv, Books
  <1> QED
    BY <1>1, TypeInvariant, PTL

\* A frame is in a process's hands exactly between kalloc and mappages.
THEOREM HandlersConsistent == Spec => []HeldInHandler
  <1>1. TypeInv => HeldInHandler
    BY DEF TypeInv
  <1> QED
    BY <1>1, TypeInvariant, PTL

\* A slot that allocproc has handed to a fork stays USED and with that fork
\* until it is freed or made RUNNABLE.
THEOREM ChildIsReserved == Spec => []ChildReserved
  <1>1. TypeInv => ChildReserved
    BY DEF TypeInv
  <1> QED
    BY <1>1, TypeInvariant, PTL
-----------------------------------------------------------------------------
(* Every step does one of six things to the page tables and the free list; *)
(* one lemma each shows that it keeps FrameOwnership, and the proof of the *)
(* theorem says which action does which.                                   *)

FrameTypes ==
  /\ frame \in [Proc -> [VPage -> Frame \cup {NoFrame}]]
  /\ held  \in [Proc -> Frame \cup {NoFrame}]
  /\ free  \in SUBSET Frame

Owned == FrameTypes /\ FrameOwnership

\* Nothing moves.
LEMMA Quiet ==
  ASSUME Owned, UNCHANGED <<frame, free, held>>
  PROVE  Owned'
  BY DEF Owned, FrameTypes, FrameOwnership, NoAliasing, MappedNotFree,
         HeldExclusive, NoFrameLost, Mapped, FramesOf, MappedPages

\* kalloc into p's hands.
LEMMA Take ==
  ASSUME Owned, NEW p \in Proc, NEW f \in free, held[p] = NoFrame,
         frame' = frame, free' = free \ {f}, held' = [held EXCEPT ![p] = f]
  PROVE  Owned'
  <1> USE FrameAssumption DEF Owned, FrameTypes, Mapped, FramesOf, MappedPages
  <1>1. FrameTypes'
    OBVIOUS
  <1>2. NoAliasing' /\ MappedNotFree'
    BY DEF FrameOwnership, NoAliasing, MappedNotFree
  <1>3. HeldExclusive'
    BY DEF FrameOwnership, MappedNotFree, HeldExclusive
  <1>4. NoFrameLost'
    BY DEF FrameOwnership, NoFrameLost
  <1> QED
    BY <1>1, <1>2, <1>3, <1>4 DEF FrameOwnership

\* kfree of a frame that was never mapped.
LEMMA GiveBack ==
  ASSUME Owned, NEW p \in Proc, held[p] # NoFrame,
         frame' = frame, free' = free \cup {held[p]},
         held' = [held EXCEPT ![p] = NoFrame]
  PROVE  Owned'
  <1> USE FrameAssumption DEF Owned, FrameTypes, Mapped, FramesOf, MappedPages
  <1>1. FrameTypes'
    OBVIOUS
  <1>2. NoAliasing' /\ MappedNotFree'
    BY DEF FrameOwnership, NoAliasing, MappedNotFree, HeldExclusive
  <1>3. HeldExclusive'
    BY DEF FrameOwnership, HeldExclusive
  <1>4. NoFrameLost'
    BY DEF FrameOwnership, NoFrameLost
  <1> QED
    BY <1>1, <1>2, <1>3, <1>4 DEF FrameOwnership

\* mappages of the frame in p's hands.
LEMMA MapHeld ==
  ASSUME Owned, NEW p \in Proc, NEW v \in VPage, held[p] # NoFrame,
         frame[p][v] = NoFrame,
         frame' = [frame EXCEPT ![p][v] = held[p]], free' = free,
         held' = [held EXCEPT ![p] = NoFrame]
  PROVE  Owned'
  <1> USE FrameAssumption DEF Owned, FrameTypes, Mapped, FramesOf, MappedPages
  <1>1. FrameTypes'
    OBVIOUS
  <1>2. NoAliasing' /\ MappedNotFree'
    BY DEF FrameOwnership, NoAliasing, MappedNotFree, HeldExclusive
  <1>3. HeldExclusive'
    BY DEF FrameOwnership, HeldExclusive
  <1>4. NoFrameLost'
    BY DEF FrameOwnership, NoFrameLost
  <1> QED
    BY <1>1, <1>2, <1>3, <1>4 DEF FrameOwnership

\* kalloc and mappages in one step, in q's page table.
LEMMA MapFree ==
  ASSUME Owned, NEW q \in Proc, NEW v \in VPage, NEW f \in free,
         frame[q][v] = NoFrame,
         frame' = [frame EXCEPT ![q][v] = f], free' = free \ {f}, held' = held
  PROVE  Owned'
  <1> USE FrameAssumption DEF Owned, FrameTypes, Mapped, FramesOf, MappedPages
  <1>1. FrameTypes'
    OBVIOUS
  <1>2. NoAliasing' /\ MappedNotFree'
    BY DEF FrameOwnership, NoAliasing, MappedNotFree
  <1>3. HeldExclusive'
    BY DEF FrameOwnership, HeldExclusive
  <1>4. NoFrameLost'
    BY DEF FrameOwnership, NoFrameLost
  <1> QED
    BY <1>1, <1>2, <1>3, <1>4 DEF FrameOwnership

\* uvmunmap of mapped pages of q.
LEMMA Release ==
  ASSUME Owned, NEW q \in Proc, NEW vs \in SUBSET VPage,
         \A v \in vs : frame[q][v] # NoFrame,
         UnmapAll(q, vs), held' = held
  PROVE  Owned'
  <1> USE FrameAssumption DEF Owned, FrameTypes, Mapped, FramesOf, MappedPages, UnmapAll, Kfree
  <1>1. FrameTypes'
    OBVIOUS
  <1>2. NoAliasing' /\ MappedNotFree'
    BY DEF FrameOwnership, NoAliasing, MappedNotFree
  <1>3. HeldExclusive'
    BY DEF FrameOwnership, HeldExclusive
  <1>4. NoFrameLost'
    BY DEF FrameOwnership, NoFrameLost
  <1> QED
    BY <1>1, <1>2, <1>3, <1>4 DEF FrameOwnership

\* kexec's commit: two fresh pages replace the whole page table.
LEMMA Exchange ==
  ASSUME Owned, NEW p \in Proc, NEW f \in free, held[p] # NoFrame,
         NEW v \in VPage, NEW w \in VPage, v # w,
         free' = (free \ {f}) \cup FramesOf(p),
         FrameTypes',
         frame'[p][v] = held[p], frame'[p][w] = f,
         \A u \in VPage \ {v, w} : frame'[p][u] = NoFrame,
         \A q \in Proc \ {p} : frame'[q] = frame[q],
         held'[p] = NoFrame, \A q \in Proc \ {p} : held'[q] = held[q]
  PROVE  Owned'
  <1> USE FrameAssumption DEF Mapped, FramesOf, MappedPages
  <1>1. /\ f \in Frame /\ held[p] \in Frame /\ f # held[p]
        /\ \A q \in Proc : \A u \in VPage : frame[q][u] # f /\ frame[q][u] # held[p]
    BY DEF Owned, FrameTypes, FrameOwnership, HeldExclusive, MappedNotFree
  <1>2. NoAliasing'
    <2> SUFFICES ASSUME NEW q \in Proc, NEW r \in Proc, NEW u \in VPage, NEW x \in VPage,
                        frame'[q][u] # NoFrame, frame'[q][u] = frame'[r][x]
                 PROVE  q = r /\ u = x
      BY DEF NoAliasing
    <2>1. CASE q = p /\ r = p
      BY <2>1, <1>1
    <2>2. CASE q # p /\ r # p
      BY <2>2 DEF Owned, FrameOwnership, NoAliasing
    <2>3. CASE (q = p) # (r = p)
      BY <2>3, <1>1
    <2> QED
      BY <2>1, <2>2, <2>3
  <1>3. MappedNotFree'
    <2> SUFFICES ASSUME NEW q \in Proc, NEW u \in VPage
                 PROVE  frame'[q][u] \notin free'
      BY DEF MappedNotFree
    <2>1. CASE q = p
      BY <2>1, <1>1 DEF Owned, FrameTypes, FrameOwnership, HeldExclusive, MappedNotFree
    <2>2. CASE q # p
      BY <2>2, <1>1 DEF Owned, FrameTypes, FrameOwnership, NoAliasing, MappedNotFree
    <2> QED
      BY <2>1, <2>2
  <1>4. HeldExclusive'
    <2> SUFFICES ASSUME NEW q \in Proc, held'[q] # NoFrame
                 PROVE  /\ held'[q] \notin free'
                        /\ \A r \in Proc : /\ r # q => held'[r] # held'[q]
                                           /\ \A u \in VPage : frame'[r][u] # held'[q]
      BY DEF HeldExclusive
    <2>1. q # p /\ held'[q] = held[q]
      OBVIOUS
    <2>2. held[q] \notin free /\ held[q] # held[p] /\ held[q] # f
          /\ \A r \in Proc : \A u \in VPage : frame[r][u] # held[q]
      BY <2>1 DEF Owned, FrameTypes, FrameOwnership, HeldExclusive
    <2> QED
      BY <2>1, <2>2 DEF Owned, FrameOwnership, HeldExclusive
  <1>5. NoFrameLost'
    <2> SUFFICES ASSUME NEW g \in Frame, g \notin free'
                 PROVE  \E q \in Proc : held'[q] = g \/ \E u \in VPage : frame'[q][u] = g
      BY DEF NoFrameLost
    <2>1. CASE g = f \/ g = held[p]
      BY <2>1
    <2>2. CASE g # f /\ g # held[p]
      BY <2>2 DEF Owned, FrameOwnership, NoFrameLost
    <2> QED
      BY <2>1, <2>2
  <1> QED
    BY <1>2, <1>3, <1>4, <1>5 DEF Owned, FrameOwnership

-----------------------------------------------------------------------------
(* Which step does what.  TypeInv holds along the way, so that a victim is  *)
(* a mapped page and a handler has the frame it maps or gives back.         *)

LEMMA InitOwned == Init => Owned
  <1> SUFFICES ASSUME Init PROVE Owned
    OBVIOUS
  <1>1. PICK f, g \in Frame :
          /\ f # g
          /\ frame = [p \in Proc |->
               IF p = InitProc THEN [NoMap EXCEPT ![Guard(InitImage)] = f,
                                                  ![StackPage(InitImage)] = g]
               ELSE NoMap]
          /\ free = Frame \ {f, g}
    BY DEF Init
  <1>2. /\ InitProc \in Proc /\ Guard(InitImage) \in VPage /\ StackPage(InitImage) \in VPage
        /\ Guard(InitImage) # StackPage(InitImage)
    BY ProcAssumption, ImageAssumption, Layout
  <1>3. /\ frame[InitProc][Guard(InitImage)] = f /\ frame[InitProc][StackPage(InitImage)] = g
        /\ \A v \in VPage \ {Guard(InitImage), StackPage(InitImage)} :
             frame[InitProc][v] = NoFrame
        /\ \A p \in Proc \ {InitProc} : \A v \in VPage : frame[p][v] = NoFrame
    BY <1>1, <1>2 DEF NoMap
  <1>4. FrameTypes /\ \A p \in Proc : held[p] = NoFrame
    <2>1. TypeOK
      BY InitTypes DEF TypeInv
    <2> QED
      BY <2>1 DEF TypeOK, FrameTypes, Init
  <1>5. \A p \in Proc : \A v \in VPage : frame[p][v] # NoFrame =>
          /\ p = InitProc
          /\ \/ v = Guard(InitImage) /\ frame[p][v] = f
             \/ v = StackPage(InitImage) /\ frame[p][v] = g
    BY <1>3
  <1>6. NoAliasing
    BY <1>1, <1>5 DEF NoAliasing, Mapped
  <1>7. MappedNotFree /\ HeldExclusive
    <2>1. free = Frame \ {f, g} /\ NoFrame \notin free
      BY <1>1, FrameAssumption
    <2>2. MappedNotFree
      BY <1>5, <2>1 DEF MappedNotFree
    <2> QED
      BY <1>4, <2>2 DEF HeldExclusive
  <1>8. NoFrameLost
    BY <1>1, <1>2, <1>3, FrameAssumption DEF NoFrameLost, FramesOf, MappedPages, Mapped
  <1> QED
    BY <1>4, <1>6, <1>7, <1>8 DEF Owned, FrameOwnership

LEMMA UserOwned ==
  ASSUME TypeInv, Owned, NEW p \in Proc, UserStep(p)
  PROVE  Owned'
  <1>1. InUser(p) => held[p] = NoFrame
    BY IdleType DEF TypeInv, HeldInHandler, InUser
  <1>2. ASSUME NEW v \in VPage, NEW x, Store(p, v, x) \/ CopyOut(p, v, x)
        PROVE  Owned'
    BY <1>2, Quiet DEF Store, CopyOut, ptVars
  <1>3. ASSUME NEW v \in VPage, NEW access, NEW fromUser, NEW x, InUser(p),
               HandlePageFault(p, v, access, fromUser, x)
        PROVE  Owned'
    <2>1. CASE RefuseFault(p, v, access, fromUser) \/ FirstWrite(p, v, access)
               \/ FaultUntrackable(p, v, access)
      BY <2>1, Quiet DEF RefuseFault, FirstWrite, FaultUntrackable, ptVars, memVars
    <2>2. CASE FaultAlloc(p, v, access, x)
      <3>1. CASE \E f \in free : Kalloc(p, f)
        BY <1>1, <1>3, <2>2, <3>1, Take DEF FaultAlloc, Kalloc, ptVars
      <3>2. CASE ~(\E f \in free : Kalloc(p, f))
        BY <2>2, <3>2, Quiet DEF FaultAlloc, ptVars
      <3> QED
        BY <3>1, <3>2
    <2> QED
      BY <1>3, <2>1, <2>2 DEF HandlePageFault
  <1>4. CASE \E v \in VPage, access \in Accesses : UserFault(p, v, access)
    BY <1>3, <1>4 DEF UserFault
  <1>5. CASE \E v \in VPage, x \in Value \cup {NoValue} : KernelFault(p, v, x)
    BY <1>3, <1>5 DEF KernelFault
  <1>6. ASSUME NEW c \in Proc, ForkStart(p, c)
        PROVE  Owned'
    BY <1>6, Quiet DEF ForkStart, ptVars, memVars
  <1>7. ASSUME NEW c \in Proc, Wait(p, c)
        PROVE  Owned'
    BY <1>7, Release DEF Wait, FreeProc, MappedPages, Mapped
  <1>8. ASSUME NEW i \in Image, ExecParse(p, i)
        PROVE  Owned'
    BY <1>8, Quiet DEF ExecParse, ptVars, memVars
  <1>9. CASE ExecBadHeader(p)
    BY <1>9, Quiet DEF ExecBadHeader, ptVars, memVars
  <1>10. ASSUME NEW n \in 1..(MaxVPage + 1), SbrkLazy(p, n) \/ SbrkEager(p, n)
         PROVE  Owned'
    BY <1>10, Quiet DEF SbrkLazy, SbrkEager, ptVars, memVars
  <1>11. ASSUME NEW n \in 1..(MaxVPage + 1), SbrkShrink(p, n)
         PROVE  Owned'
    <2>1. UnmapAll(p, Dealloc(p, sz[p] - n, sz[p])) /\ held' = held
      BY <1>11 DEF SbrkShrink
    <2> QED
      BY <2>1, Release DEF Dealloc, Mapped
  <1>12. CASE Kill(p)
    BY <1>12, Quiet DEF Kill, ptVars, memVars
  <1> QED
    BY <1>2, <1>4, <1>5, <1>6, <1>7, <1>8, <1>9, <1>10, <1>11, <1>12 DEF UserStep

LEMMA KernelOwned ==
  ASSUME TypeInv, Owned, NEW p \in Proc, KernelStep(p)
  PROVE  Owned'
  <1>1. HeldInHandler /\ op \in [Proc -> OpType]
    BY DEF TypeInv, TypeOK
  <1>2. CASE EvictFails(p) \/ LoadRemap(p) \/ CopyOutResume(p) \/ ForkDone(p)
             \/ GrowRemap(p) \/ GrowDone(p)
    BY <1>2, Quiet
    DEF EvictFails, LoadRemap, CopyOutResume, ForkDone, GrowRemap, GrowDone, ptVars, memVars
  <1>3. CASE EvictClean(p) \/ EvictDirty(p)
    <2>1. UnmapAll(p, {Victim(p)}) /\ held' = held /\ op[p].pc = "evict" /\ ~NothingToEvict(p)
      BY <1>3 DEF EvictClean, EvictDirty
    <2> QED
      BY <2>1, VictimFacts, Release DEF MappedPages, Mapped
  <1>4. CASE AllocAfterEvict(p) \/ ExecGuard(p)
    <2>1. held[p] = NoFrame
      BY <1>1, <1>4 DEF HeldInHandler, AllocAfterEvict, ExecGuard
    <2>2. CASE \E f \in free : Kalloc(p, f)
      BY <1>4, <2>1, <2>2, Take DEF AllocAfterEvict, ExecGuard, Kalloc, ptVars
    <2>3. CASE ~(\E f \in free : Kalloc(p, f))
      BY <1>4, <2>3, Quiet DEF AllocAfterEvict, ExecGuard, ptVars, memVars
    <2> QED
      BY <2>2, <2>3
  <1>5. CASE Load(p)
    <2>1. held[p] # NoFrame /\ op[p].va \in VPage /\ frame[p][op[p].va] = NoFrame
      BY <1>1, <1>5, OpFields DEF HeldInHandler, Load, Mapped
    <2>2. /\ frame' = [frame EXCEPT ![p][op[p].va] = held[p]] /\ free' = free
          /\ held' = [held EXCEPT ![p] = NoFrame]
      BY <1>5 DEF Load
    <2> QED
      BY <2>1, <2>2, MapHeld
  <1>6. CASE ForkCopyPage(p)
    <2>1. op[p].child \in Proc
      BY <1>1, <1>6, OpFields DEF ForkCopyPage
    <2>2. PICK v \in ToCopy(p, op[p].child), f \in free :
            /\ free' = free \ {f} /\ frame' = [frame EXCEPT ![op[p].child][v] = f]
      BY <1>6 DEF ForkCopyPage
    <2>3. v \in VPage /\ frame[op[p].child][v] = NoFrame /\ held' = held
      BY <1>6 DEF ToCopy, Mapped, ForkCopyPage
    <2> QED
      BY <2>1, <2>2, <2>3, MapFree
  <1>7. CASE ForkFails(p)
    <2>1. op[p].child \in Proc
      BY <1>1, <1>7, OpFields DEF ForkFails
    <2>2. UnmapAll(op[p].child, MappedPages(op[p].child)) /\ held' = held
      BY <1>7 DEF ForkFails, FreeProc
    <2> QED
      BY <2>1, <2>2, Release DEF MappedPages, Mapped
  <1>8. CASE ExecFails(p)
    <2>1. held[p] # NoFrame
      BY <1>1, <1>8 DEF HeldInHandler, ExecFails
    <2> QED
      BY <1>8, <2>1, GiveBack DEF ExecFails, Kfree, ptVars
  <1>9. CASE ExecCommit(p)
    <2> DEFINE v == Guard(op[p].img)
               w == StackPage(op[p].img)
    <2>1. held[p] # NoFrame
      BY <1>1, <1>9 DEF HeldInHandler, ExecCommit
    <2>2. v \in VPage /\ w \in VPage /\ v # w
      BY <1>1, <1>9, OpFields, Layout DEF ExecCommit
    <2>3. PICK f \in free :
            /\ free' = (free \ {f}) \cup FramesOf(p)
            /\ frame' = [frame EXCEPT ![p] = [NoMap EXCEPT ![v] = held[p], ![w] = f]]
      BY <1>9 DEF ExecCommit
    <2>4. held' = [held EXCEPT ![p] = NoFrame]
      BY <1>9 DEF ExecCommit
    <2>5. FrameTypes'
      <3>1. TypeOK'
        BY <1>9, ExecCommitTypes DEF TypeInv
      <3> QED
        BY <3>1 DEF TypeOK, FrameTypes
    <2> HIDE DEF v, w
    <2>6. /\ frame'[p][v] = held[p] /\ frame'[p][w] = f
          /\ \A u \in VPage \ {v, w} : frame'[p][u] = NoFrame
          /\ \A q \in Proc \ {p} : frame'[q] = frame[q]
      BY <2>2, <2>3 DEF Owned, FrameTypes, NoMap
    <2>7. held'[p] = NoFrame /\ \A q \in Proc \ {p} : held'[q] = held[q]
      BY <2>4 DEF Owned, FrameTypes
    <2> QED
      BY <2>1, <2>2, <2>3, <2>5, <2>6, <2>7, Exchange
  <1>10. CASE GrowPage(p)
    <2>1. op[p].at \in VPage
      BY <1>1, <1>10, GrowStep DEF GrowPage
    <2> QED
      BY <1>10, <2>1, MapFree DEF GrowPage, Mapped
  <1>11. CASE GrowFails(p)
    <2>1. UnmapAll(p, Dealloc(p, sz[p], op[p].at)) /\ held' = held
      BY <1>11 DEF GrowFails
    <2> QED
      BY <2>1, Release DEF Dealloc, Mapped
  <1> QED
    BY <1>2, <1>3, <1>4, <1>5, <1>6, <1>7, <1>8, <1>9, <1>10, <1>11 DEF KernelStep

LEMMA OwnedStep == TypeInv /\ Owned /\ [Next]_vars => Owned'
  <1> SUFFICES ASSUME TypeInv, Owned, [Next]_vars PROVE Owned'
    OBVIOUS
  <1>1. CASE UNCHANGED vars
    BY <1>1, Quiet DEF vars, ptVars, memVars
  <1>2. ASSUME NEW p \in Proc, Exit(p) \/ InitExits(p)
        PROVE  Owned'
    BY <1>2, Quiet DEF Exit, InitExits, ptVars, memVars
  <1>3. CASE Next
    BY <1>2, <1>3, UserOwned, KernelOwned DEF Next
  <1> QED
    BY <1>1, <1>3

LEMMA OwnedInvariant == Spec => []Owned
  BY InitOwned, OwnedStep, TypeInvariant, PTL DEF Spec

\* kalloc.c, proc.c, exec.c and vm.c together never map a frame twice, free a
\* mapped one or lose one, whatever the processes do and however they
\* interleave.
THEOREM FramesOwned == Spec => []FrameOwnership
  <1>1. Owned => FrameOwnership
    BY DEF Owned
  <1> QED
    BY <1>1, OwnedInvariant, PTL
-----------------------------------------------------------------------------
(* Faults, as long as no process shrinks its heap or jumps to a data page. *)
(*                                                                         *)
(* handle_page_fault goes on to kalloc only for a page that is not mapped: *)
(* a mapped user page that a load or store still faults on is resident and *)
(* clean, or text, and those cases return early.  Pages from sz on are not *)
(* mapped, so uvmalloc does not meet one either.                           *)

Handling == {"evict", "alloc", "load"}

\* uvmalloc has mapped the pages below at.
Limit(p) == IF op[p].pc = "grow" THEN op[p].at ELSE sz[p]

\* The tables of a process that may run.
Tables(p) ==
  /\ StackTop(img[p]) <= sz[p] /\ sz[p] <= Limit(p)
  /\ \A v \in VPage : Mapped(p, v) => v < Limit(p)
  /\ \A v \in VPage : info[p][v].state \in {"RESIDENT", "SWAPPED"} => v < sz[p]
  /\ \A v \in VPage : Mapped(p, v) /\ "U" \in perm[p][v] /\ "W" \notin perm[p][v]
       => InText(img[p], v) \/ (info[p][v].state = "RESIDENT" /\ ~info[p][v].dirty)

\* ... of one that waits for a frame, that is not used, or that fills a child's.
Neat(p) ==
  /\ state[p] = "RUNNABLE" => Tables(p)
  /\ op[p].pc \in Handling => ~Mapped(p, op[p].va) /\ op[p].va < sz[p]
  /\ state[p] = "UNUSED" => \A v \in VPage : ~Mapped(p, v)
  /\ op[p].pc = "fork" =>
       \A v \in VPage : Mapped(op[p].child, v)
         => Mapped(p, v) /\ perm[op[p].child][v] = perm[p][v]

Tidy == \A p \in Proc : Neat(p)
-----------------------------------------------------------------------------
\* The processes outside S keep their tables, and their children's.
LEMMA Rest ==
  ASSUME Tidy, op \in [Proc -> OpType], NEW S \in SUBSET Proc, \A q \in S : Neat(q)',
         \A q \in Proc \ S :
           /\ frame'[q] = frame[q] /\ perm'[q] = perm[q] /\ info'[q] = info[q]
           /\ img'[q] = img[q] /\ sz'[q] = sz[q] /\ op'[q] = op[q] /\ state'[q] = state[q]
           /\ op[q].pc = "fork" => op[q].child \notin S
  PROVE  Tidy'
  <1> SUFFICES ASSUME NEW q \in Proc \ S PROVE Neat(q)'
    BY DEF Tidy
  <1>1. Neat(q) /\ (op[q].pc = "fork" => op[q].child \in Proc \ S)
    BY OpFields DEF Tidy
  <1> QED
    BY <1>1 DEF Neat, Tables, Limit, Mapped

\* A process in the kernel is nobody's child to be, and one that is has no
\* other parent.
LEMMA NotAChild ==
  ASSUME TypeInv, NEW p \in Proc, NEW q \in Proc, op[q].pc = "fork"
  PROVE  /\ state[p] # "USED" => op[q].child # p
         /\ op[p].pc = "fork" /\ p # q => op[q].child # op[p].child
         /\ state[q] = "RUNNABLE"
  BY DEF TypeInv, ChildReserved

\* A fault goes on to kalloc only for a page below sz that is not mapped.
LEMMA FaultsOnUnmapped ==
  ASSUME TypeInv, Tidy, NEW p \in Proc, InUser(p), NEW v \in VPage,
         NEW access \in {"read", "write"}, ~Permitted(p, v, access),
         ~Refused(p, v, access), ~MarksDirty(p, v, access)
  PROVE  ~Mapped(p, v) /\ v < sz[p]
  <1>1. Tables(p) /\ img[p] \in Image /\ sz[p] \in Int
    BY DEF Tidy, Neat, InUser, TypeInv, TypeOK
  <1>2. ~Mapped(p, v)
    BY <1>1 DEF Tables, Permitted, Refused, MarksDirty
  <1>3. Valid(p, v) \/ info[p][v].state = "SWAPPED"
    BY DEF Refused
  <1>4. Text[img[p]] \in Nat /\ Data[img[p]] \in Nat /\ v \in Int
    BY <1>1, ImageAssumption DEF VPage
  <1>5. Valid(p, v) => v < sz[p]
    BY <1>1, <1>4 DEF Valid, Tables, InText, InData, HeapStart, StackPage, StackTop
  <1> QED
    BY <1>1, <1>2, <1>3, <1>5 DEF Tables

\* What a step of p does to p alone.
LEMMA OnlyOwn ==
  ASSUME TypeInv, Tidy, NEW p \in Proc, state[p] # "USED", Neat(p)',
         \A q \in Proc \ {p} :
           /\ frame'[q] = frame[q] /\ perm'[q] = perm[q] /\ info'[q] = info[q]
           /\ img'[q] = img[q] /\ sz'[q] = sz[q] /\ op'[q] = op[q] /\ state'[q] = state[q]
  PROVE  Tidy'
  <1>1. \A q \in Proc \ {p} : op[q].pc = "fork" => op[q].child \notin {p}
    BY NotAChild
  <1>2. {p} \in SUBSET Proc /\ op \in [Proc -> OpType] /\ \A q \in {p} : Neat(q)'
    BY DEF TypeInv, TypeOK
  <1> QED
    BY <1>1, <1>2, Rest

\* Tables, programs and states stay.
LEMMA Still ==
  ASSUME TypeInv, Tidy, UNCHANGED <<frame, perm, info, img, sz, op, state>>
  PROVE  Tidy'
  BY DEF Tidy, Neat, Tables, Limit, Mapped

\* Growing moves sz away from the pages.
LEMMA Beyond ==
  ASSUME NEW a \in Int, NEW n \in Int, n > 0
  PROVE  \A v \in Int : (v < a => v < a + n) /\ (v <= a => v <= a + n)
  OBVIOUS

\* A fork's child forgets swapped pages and keeps the other entries' marks.
LEMMA ChildEntry ==
  ASSUME NEW e \in Entry
  PROVE  /\ ChildInfo(e).dirty = e.dirty /\ ChildInfo(e).state # "SWAPPED"
         /\ ChildInfo(e).state = "RESIDENT" <=> e.state = "RESIDENT"
  BY DEF ChildInfo, Entry
-----------------------------------------------------------------------------
(* The actions.                                                             *)

\* Every step keeps the tables tidy and mappages out of its panic.
LEMMA TidyStep ==
  ASSUME TypeInv, Tidy, NoRemap, ~panicked, TypeInv', Next,
         "shrink" \notin Calls, Accesses \subseteq {"read", "write"}
  PROVE  Tidy' /\ NoRemap'
  <1> USE OpFields, IdleType DEF vars, procVars, imageVars, ptVars, pageVars, memVars
  <1>1. ASSUME NEW p \in Proc, NEW v \in VPage, NEW x \in Value, Store(p, v, x) PROVE Tidy' /\ NoRemap'
    <2>1. Neat(p)'
      BY <1>1
         DEF TypeInv, TypeOK, ChildReserved, Tidy, Neat, Tables, Limit, Mapped, InUser,
             Handling, Store
    <2>2. panicked' = panicked /\ state[p] # "USED"
      BY <1>1 DEF TypeInv, ChildReserved, InUser, Store
    <2>3. \A q \in Proc \ {p} :
           /\ frame'[q] = frame[q] /\ perm'[q] = perm[q] /\ info'[q] = info[q]
           /\ img'[q] = img[q] /\ sz'[q] = sz[q] /\ op'[q] = op[q] /\ state'[q] = state[q]
      BY <1>1 DEF TypeInv, TypeOK, Store
    <2> QED
      BY <2>1, <2>2, <2>3, OnlyOwn DEF NoRemap
  <1>2. ASSUME NEW p \in Proc, NEW v \in VPage, NEW x \in Value, CopyOut(p, v, x) PROVE Tidy' /\ NoRemap'
    <2>1. Neat(p)'
      BY <1>2
         DEF TypeInv, TypeOK, ChildReserved, Tidy, Neat, Tables, Limit, Mapped, InUser,
             Handling, CopyOut
    <2>2. panicked' = panicked /\ state[p] # "USED"
      BY <1>2 DEF TypeInv, ChildReserved, InUser, CopyOut
    <2>3. \A q \in Proc \ {p} :
           /\ frame'[q] = frame[q] /\ perm'[q] = perm[q] /\ info'[q] = info[q]
           /\ img'[q] = img[q] /\ sz'[q] = sz[q] /\ op'[q] = op[q] /\ state'[q] = state[q]
      BY <1>2 DEF TypeInv, TypeOK, CopyOut
    <2> QED
      BY <2>1, <2>2, <2>3, OnlyOwn DEF NoRemap
  <1>3. ASSUME NEW p \in Proc, InUser(p), NEW v \in VPage, NEW access \in {"read", "write"}, ~Permitted(p, v, access),
         NEW fromUser, NEW x \in Value \cup {NoValue}, RefuseFault(p, v, access, fromUser) PROVE Tidy' /\ NoRemap'
    <2>1. Neat(p)'
      BY <1>3
         DEF TypeInv, TypeOK, ChildReserved, Tidy, Neat, Tables, Limit, Mapped, InUser,
             Handling, RefuseFault, KillSelf, Return
    <2>2. panicked' = panicked /\ state[p] # "USED"
      BY <1>3 DEF TypeInv, ChildReserved, InUser, RefuseFault, KillSelf, Return
    <2>3. \A q \in Proc \ {p} :
           /\ frame'[q] = frame[q] /\ perm'[q] = perm[q] /\ info'[q] = info[q]
           /\ img'[q] = img[q] /\ sz'[q] = sz[q] /\ op'[q] = op[q] /\ state'[q] = state[q]
      BY <1>3 DEF TypeInv, TypeOK, RefuseFault, KillSelf, Return
    <2> QED
      BY <2>1, <2>2, <2>3, OnlyOwn DEF NoRemap
  <1>4. ASSUME NEW p \in Proc, InUser(p), NEW v \in VPage, NEW access \in {"read", "write"}, ~Permitted(p, v, access),
         NEW fromUser, NEW x \in Value \cup {NoValue}, FirstWrite(p, v, access) PROVE Tidy' /\ NoRemap'
    <2>1. Neat(p)'
      BY <1>4
         DEF TypeInv, TypeOK, ChildReserved, Tidy, Neat, Tables, Limit, Mapped, InUser,
             Handling, FirstWrite, MarksDirty
    <2>2. panicked' = panicked /\ state[p] # "USED"
      BY <1>4 DEF TypeInv, ChildReserved, InUser, FirstWrite, MarksDirty
    <2>3. \A q \in Proc \ {p} :
           /\ frame'[q] = frame[q] /\ perm'[q] = perm[q] /\ info'[q] = info[q]
           /\ img'[q] = img[q] /\ sz'[q] = sz[q] /\ op'[q] = op[q] /\ state'[q] = state[q]
      BY <1>4 DEF TypeInv, TypeOK, FirstWrite, MarksDirty
    <2> QED
      BY <2>1, <2>2, <2>3, OnlyOwn DEF NoRemap
  <1>5. ASSUME NEW p \in Proc, InUser(p), NEW v \in VPage, NEW access \in {"read", "write"}, ~Permitted(p, v, access),
         NEW fromUser, NEW x \in Value \cup {NoValue}, FaultUntrackable(p, v, access) PROVE Tidy' /\ NoRemap'
    <2>1. Neat(p)'
      BY <1>5
         DEF TypeInv, TypeOK, ChildReserved, Tidy, Neat, Tables, Limit, Mapped, InUser,
             Handling, FaultUntrackable, KillSelf, Return
    <2>2. panicked' = panicked /\ state[p] # "USED"
      BY <1>5 DEF TypeInv, ChildReserved, InUser, FaultUntrackable, KillSelf, Return
    <2>3. \A q \in Proc \ {p} :
           /\ frame'[q] = frame[q] /\ perm'[q] = perm[q] /\ info'[q] = info[q]
           /\ img'[q] = img[q] /\ sz'[q] = sz[q] /\ op'[q] = op[q] /\ state'[q] = state[q]
      BY <1>5 DEF TypeInv, TypeOK, FaultUntrackable, KillSelf, Return
    <2> QED
      BY <2>1, <2>2, <2>3, OnlyOwn DEF NoRemap
  <1>6. ASSUME NEW p \in Proc, InUser(p), NEW v \in VPage, NEW access \in {"read", "write"}, ~Permitted(p, v, access),
         NEW fromUser, NEW x \in Value \cup {NoValue}, FaultAlloc(p, v, access, x) PROVE Tidy' /\ NoRemap'
    <2>1. ~Mapped(p, v) /\ v < sz[p]
      BY <1>6, FaultsOnUnmapped DEF FaultAlloc
    <2>2. /\ op'[p].pc \in Handling /\ op'[p].va = v
          /\ frame'[p] = frame[p] /\ perm'[p] = perm[p] /\ img'[p] = img[p]
          /\ sz'[p] = sz[p] /\ state'[p] = state[p]
      BY <1>6 DEF TypeInv, TypeOK, FaultAlloc, FaultAt, Handling
    <2>3. \A u \in VPage : info'[p][u] = info[p][u] \/ (u = v /\ info'[p][u].state = "UNMAPPED")
      BY <1>6 DEF TypeInv, TypeOK, FaultAlloc, Unmapped
    <2>4. Tables(p) /\ op[p].pc = "user"
      BY <1>6 DEF Tidy, Neat, InUser
    <2>a. Neat(p)'
      BY <2>1, <2>2, <2>3, <2>4, <1>6 DEF Neat, Tables, Limit, Mapped, Handling, InUser
    <2>b. panicked' = panicked /\ state[p] # "USED"
      BY <1>6 DEF TypeInv, ChildReserved, InUser, FaultAlloc, Kalloc, FaultAt
    <2>c. \A q \in Proc \ {p} :
           /\ frame'[q] = frame[q] /\ perm'[q] = perm[q] /\ info'[q] = info[q]
           /\ img'[q] = img[q] /\ sz'[q] = sz[q] /\ op'[q] = op[q] /\ state'[q] = state[q]
      BY <1>6 DEF TypeInv, TypeOK, FaultAlloc, Kalloc, FaultAt
    <2> QED
      BY <2>a, <2>b, <2>c, OnlyOwn DEF NoRemap
  <1>7. ASSUME NEW p \in Proc, EvictFails(p) PROVE Tidy' /\ NoRemap'
    <2>1. Neat(p)'
      BY <1>7
         DEF TypeInv, TypeOK, ChildReserved, Tidy, Neat, Tables, Limit, Mapped, InUser,
             Handling, EvictFails, KillSelf, Return
    <2>2. panicked' = panicked /\ state[p] # "USED"
      BY <1>7 DEF TypeInv, ChildReserved, InUser, EvictFails, KillSelf, Return
    <2>3. \A q \in Proc \ {p} :
           /\ frame'[q] = frame[q] /\ perm'[q] = perm[q] /\ info'[q] = info[q]
           /\ img'[q] = img[q] /\ sz'[q] = sz[q] /\ op'[q] = op[q] /\ state'[q] = state[q]
      BY <1>7 DEF TypeInv, TypeOK, EvictFails, KillSelf, Return
    <2> QED
      BY <2>1, <2>2, <2>3, OnlyOwn DEF NoRemap
  <1>8. ASSUME NEW p \in Proc, EvictClean(p) PROVE Tidy' /\ NoRemap'
    <2>1. Neat(p)'
      BY <1>8
         DEF TypeInv, TypeOK, ChildReserved, Tidy, Neat, Tables, Limit, Mapped, InUser,
             Handling, EvictClean, UnmapAll, Kfree
    <2>2. panicked' = panicked /\ state[p] # "USED"
      BY <1>8 DEF TypeInv, ChildReserved, InUser, EvictClean, UnmapAll, Kfree
    <2>3. \A q \in Proc \ {p} :
           /\ frame'[q] = frame[q] /\ perm'[q] = perm[q] /\ info'[q] = info[q]
           /\ img'[q] = img[q] /\ sz'[q] = sz[q] /\ op'[q] = op[q] /\ state'[q] = state[q]
      BY <1>8 DEF TypeInv, TypeOK, EvictClean, UnmapAll, Kfree
    <2> QED
      BY <2>1, <2>2, <2>3, OnlyOwn DEF NoRemap
  <1>9. ASSUME NEW p \in Proc, EvictDirty(p) PROVE Tidy' /\ NoRemap'
    <2>1. /\ op'[p].pc \in Handling /\ op'[p].va = op[p].va
          /\ img'[p] = img[p] /\ sz'[p] = sz[p] /\ state'[p] = state[p]
      BY <1>9 DEF TypeInv, TypeOK, EvictDirty, UnmapAll, Kfree, Handling
    <2>2. \A u \in VPage :
            /\ frame'[p][u] = NoFrame \/ (frame'[p][u] = frame[p][u] /\ perm'[p][u] = perm[p][u])
            /\ u # Victim(p) => info'[p][u] = info[p][u]
      BY <1>9 DEF TypeInv, TypeOK, EvictDirty, UnmapAll, Kfree
    <2>3. Tables(p) /\ op[p].pc \in Handling /\ state[p] = "RUNNABLE"
          /\ op[p].va \in VPage /\ ~Mapped(p, op[p].va) /\ op[p].va < sz[p]
      BY <1>9 DEF TypeInv, TypeOK, ChildReserved, Tidy, Neat, EvictDirty, UnmapAll, Kfree, Handling
    <2>4. info[p][Victim(p)].state = "RESIDENT" /\ Victim(p) \in VPage /\ frame'[p][Victim(p)] = NoFrame
      BY <1>9, VictimFacts DEF TypeInv, TypeOK, EvictDirty, UnmapAll, Kfree
    <2>5. Tables(p)'
      BY <2>1, <2>2, <2>3, <2>4 DEF Tables, Limit, Mapped, Handling
    <2>a. Neat(p)'
      BY <2>1, <2>2, <2>3, <2>5 DEF Neat, Mapped, Handling
    <2>b. panicked' = panicked /\ state[p] # "USED"
      BY <1>9 DEF TypeInv, ChildReserved, InUser, EvictDirty, UnmapAll, Kfree
    <2>c. \A q \in Proc \ {p} :
           /\ frame'[q] = frame[q] /\ perm'[q] = perm[q] /\ info'[q] = info[q]
           /\ img'[q] = img[q] /\ sz'[q] = sz[q] /\ op'[q] = op[q] /\ state'[q] = state[q]
      BY <1>9 DEF TypeInv, TypeOK, EvictDirty, UnmapAll, Kfree
    <2> QED
      BY <2>a, <2>b, <2>c, OnlyOwn DEF NoRemap
  <1>10. ASSUME NEW p \in Proc, AllocAfterEvict(p) PROVE Tidy' /\ NoRemap'
    <2>1. /\ frame'[p] = frame[p] /\ perm'[p] = perm[p] /\ img'[p] = img[p]
          /\ info'[p] = info[p] /\ sz'[p] = sz[p] /\ state'[p] = state[p]
      BY <1>10 DEF TypeInv, TypeOK, AllocAfterEvict, KillSelf, Return, Kalloc
    <2>2. \/ op'[p] = Idle
          \/ op'[p].pc = "load" /\ op'[p].va = op[p].va
      BY <1>10 DEF TypeInv, TypeOK, AllocAfterEvict, KillSelf, Return
    <2>3. Tables(p) /\ op[p].pc \in Handling /\ Neat(p) /\ state[p] = "RUNNABLE"
      BY <1>10 DEF TypeInv, ChildReserved, Tidy, Neat, AllocAfterEvict, Handling
    <2>a. Neat(p)'
      BY <2>1, <2>2, <2>3 DEF Neat, Tables, Limit, Mapped, Handling
    <2>b. panicked' = panicked /\ state[p] # "USED"
      BY <1>10 DEF TypeInv, ChildReserved, InUser, AllocAfterEvict, KillSelf, Return, Kalloc
    <2>c. \A q \in Proc \ {p} :
           /\ frame'[q] = frame[q] /\ perm'[q] = perm[q] /\ info'[q] = info[q]
           /\ img'[q] = img[q] /\ sz'[q] = sz[q] /\ op'[q] = op[q] /\ state'[q] = state[q]
      BY <1>10 DEF TypeInv, TypeOK, AllocAfterEvict, KillSelf, Return, Kalloc
    <2> QED
      BY <2>a, <2>b, <2>c, OnlyOwn DEF NoRemap
  <1>11. ASSUME NEW p \in Proc, LoadRemap(p) PROVE Tidy' /\ NoRemap'
    BY <1>11, SMTT(30) DEF LoadRemap, Tidy, Neat, Handling
  <1>12. ASSUME NEW p \in Proc, Load(p) PROVE Tidy' /\ NoRemap'
    <2>1. Neat(p)'
      BY <1>12
         DEF TypeInv, TypeOK, ChildReserved, Tidy, Neat, Tables, Limit, Mapped, InUser,
             Handling, Load, Resident
    <2>2. panicked' = panicked /\ state[p] # "USED"
      BY <1>12 DEF TypeInv, ChildReserved, InUser, Load, Resident
    <2>3. \A q \in Proc \ {p} :
           /\ frame'[q] = frame[q] /\ perm'[q] = perm[q] /\ info'[q] = info[q]
           /\ img'[q] = img[q] /\ sz'[q] = sz[q] /\ op'[q] = op[q] /\ state'[q] = state[q]
      BY <1>12 DEF TypeInv, TypeOK, Load, Resident
    <2> QED
      BY <2>1, <2>2, <2>3, OnlyOwn DEF NoRemap
  <1>13. ASSUME NEW p \in Proc, CopyOutResume(p) PROVE Tidy' /\ NoRemap'
    <2>1. Neat(p)'
      BY <1>13
         DEF TypeInv, TypeOK, ChildReserved, Tidy, Neat, Tables, Limit, Mapped, InUser,
             Handling, CopyOutResume, Return
    <2>2. panicked' = panicked /\ state[p] # "USED"
      BY <1>13 DEF TypeInv, ChildReserved, InUser, CopyOutResume, Return
    <2>3. \A q \in Proc \ {p} :
           /\ frame'[q] = frame[q] /\ perm'[q] = perm[q] /\ info'[q] = info[q]
           /\ img'[q] = img[q] /\ sz'[q] = sz[q] /\ op'[q] = op[q] /\ state'[q] = state[q]
      BY <1>13 DEF TypeInv, TypeOK, CopyOutResume, Return
    <2> QED
      BY <2>1, <2>2, <2>3, OnlyOwn DEF NoRemap
  <1>14. ASSUME NEW p \in Proc, ForkCopyPage(p) PROVE Tidy' /\ NoRemap'
    <2>1. PICK c \in Proc : /\ c = op[p].child /\ state[c] = "USED" /\ state[p] = "RUNNABLE"
                           /\ op[p].pc = "fork" /\ c # p
      BY <1>14 DEF TypeInv, TypeOK, ChildReserved, ForkCopyPage
    <2>2. PICK v \in ToCopy(p, c), f \in free :
            frame' = [frame EXCEPT ![c][v] = f] /\ perm' = [perm EXCEPT ![c][v] = perm[p][v]]
      BY <1>14, <2>1 DEF ForkCopyPage
    <2>3. UNCHANGED <<info, img, sz, op, state, panicked>>
      BY <1>14 DEF ForkCopyPage
    <2>4. v \in VPage /\ Mapped(p, v) /\ ~Mapped(c, v)
      BY <2>2 DEF ToCopy
    <2>5. Neat(p)'
      BY <2>1, <2>2, <2>3, <2>4 DEF TypeInv, TypeOK, Tidy, Neat, Tables, Limit, Mapped, Handling
    <2>6. Neat(c)'
      BY <2>1, <2>3, NotAChild DEF TypeInv, TypeOK, ChildReserved, Neat, Handling
    <2>7. \A q \in Proc \ {p, c} :
           /\ frame'[q] = frame[q] /\ perm'[q] = perm[q] /\ info'[q] = info[q]
           /\ img'[q] = img[q] /\ sz'[q] = sz[q] /\ op'[q] = op[q] /\ state'[q] = state[q]
           /\ op[q].pc = "fork" => op[q].child \notin {p, c}
      BY <2>1, <2>2, <2>3, NotAChild, SMTT(30) DEF TypeInv, TypeOK
    <2>8. {p, c} \in SUBSET Proc /\ op \in [Proc -> OpType] /\ \A q \in {p, c} : Neat(q)'
      BY <2>1, <2>5, <2>6 DEF TypeInv, TypeOK
    <2> QED
      BY <2>3, <2>7, <2>8, Rest DEF NoRemap
  <1>15. ASSUME NEW p \in Proc, ForkFails(p) PROVE Tidy' /\ NoRemap'
    <2>1. PICK c \in Proc : /\ c = op[p].child /\ state[c] = "USED" /\ state[p] = "RUNNABLE"
                           /\ op[p].pc = "fork" /\ c # p
      BY <1>15 DEF TypeInv, TypeOK, ChildReserved, ForkFails
    <2>2. op[c].pc = "user"
      BY <2>1 DEF TypeInv, ChildReserved
    <2>3. /\ op'[p] = Idle /\ op'[c] = op[c] /\ state'[p] = state[p] /\ state'[c] = "UNUSED"
          /\ frame'[p] = frame[p] /\ perm'[p] = perm[p] /\ info'[p] = info[p]
          /\ img'[p] = img[p] /\ sz'[p] = sz[p]
          /\ \A v \in VPage : frame'[c][v] = NoFrame
      BY <1>15, <2>1
         DEF TypeInv, TypeOK, ForkFails, FreeProc, UnmapAll, Kfree, Return, MappedPages, Mapped
    <2>4. Tables(p)
      BY <2>1 DEF Tidy, Neat
    <2>5. Neat(p)'
      BY <2>1, <2>3, <2>4 DEF Neat, Tables, Limit, Mapped, Handling
    <2>6. Neat(c)'
      BY <2>2, <2>3 DEF Neat, Mapped, Handling
    <2>7. \A q \in Proc \ {p, c} :
           /\ frame'[q] = frame[q] /\ perm'[q] = perm[q] /\ info'[q] = info[q]
           /\ img'[q] = img[q] /\ sz'[q] = sz[q] /\ op'[q] = op[q] /\ state'[q] = state[q]
           /\ op[q].pc = "fork" => op[q].child \notin {p, c}
      BY <1>15, <2>1, NotAChild DEF TypeInv, TypeOK, ForkFails, FreeProc, UnmapAll, Kfree, Return
    <2>8. {p, c} \in SUBSET Proc /\ op \in [Proc -> OpType] /\ \A q \in {p, c} : Neat(q)'
      BY <2>1, <2>5, <2>6 DEF TypeInv, TypeOK
    <2>9. panicked' = panicked
      BY <1>15 DEF ForkFails
    <2> QED
      BY <2>7, <2>8, <2>9, Rest DEF NoRemap
  <1>16. ASSUME NEW p \in Proc, ForkDone(p) PROVE Tidy' /\ NoRemap'
    <2>1. PICK c \in Proc : /\ c = op[p].child /\ state[c] = "USED" /\ state[p] = "RUNNABLE"
                           /\ op[p].pc = "fork" /\ c # p
      BY <1>16 DEF TypeInv, TypeOK, ChildReserved, ForkDone
    <2>2. op[c].pc = "user"
      BY <2>1 DEF TypeInv, ChildReserved
    <2>3. /\ op'[p] = Idle /\ op'[c] = op[c] /\ state'[p] = state[p]
          /\ frame' = frame /\ perm' = perm /\ info'[p] = info[p]
          /\ img'[p] = img[p] /\ sz'[p] = sz[p] /\ img'[c] = img[p] /\ sz'[c] = sz[p]
          /\ \A v \in VPage : info'[c][v] = ChildInfo(info[p][v])
      BY <1>16, <2>1 DEF TypeInv, TypeOK, ForkDone, Return
    <2>a. \A v \in VPage :
            /\ info'[c][v].state \in {"RESIDENT", "SWAPPED"} => info[p][v].state \in {"RESIDENT", "SWAPPED"}
            /\ info[p][v].state = "RESIDENT" => info'[c][v].state = "RESIDENT"
            /\ info'[c][v].dirty = info[p][v].dirty
      <3>1. \A v \in VPage : info[p][v] \in Entry
        BY DEF TypeInv, TypeOK, Entry
      <3> QED
        BY <2>3, <3>1, ChildEntry
    <2>4. Tables(p) /\ \A v \in VPage : Mapped(c, v) => Mapped(p, v) /\ perm[c][v] = perm[p][v]
      BY <2>1 DEF Tidy, Neat
    <2>5. Neat(p)'
      BY <2>1, <2>3, <2>4 DEF Neat, Tables, Limit, Mapped, Handling
    <2>b. Tables(c)'
      BY <2>1, <2>2, <2>3, <2>4, <2>a DEF Tables, Limit, Mapped
    <2>c. state'[c] = "RUNNABLE"
      BY <1>16, <2>1 DEF ForkDone, TypeInv, TypeOK
    <2>6. Neat(c)'
      BY <2>2, <2>3, <2>b, <2>c DEF Neat, Handling
    <2>7. \A q \in Proc \ {p, c} :
           /\ frame'[q] = frame[q] /\ perm'[q] = perm[q] /\ info'[q] = info[q]
           /\ img'[q] = img[q] /\ sz'[q] = sz[q] /\ op'[q] = op[q] /\ state'[q] = state[q]
           /\ op[q].pc = "fork" => op[q].child \notin {p, c}
      BY <1>16, <2>1, NotAChild DEF TypeInv, TypeOK, ForkDone, Return
    <2>8. {p, c} \in SUBSET Proc /\ op \in [Proc -> OpType] /\ \A q \in {p, c} : Neat(q)'
      BY <2>1, <2>5, <2>6 DEF TypeInv, TypeOK
    <2>9. panicked' = panicked
      BY <1>16 DEF ForkDone
    <2> QED
      BY <2>7, <2>8, <2>9, Rest DEF NoRemap
  <1>17. ASSUME NEW p \in Proc, Exit(p) PROVE Tidy' /\ NoRemap'
    <2>1. Neat(p)'
      BY <1>17
         DEF TypeInv, TypeOK, ChildReserved, Tidy, Neat, Tables, Limit, Mapped, InUser,
             Handling, Exit
    <2>2. panicked' = panicked /\ state[p] # "USED"
      BY <1>17 DEF TypeInv, ChildReserved, InUser, Exit
    <2>3. \A q \in Proc \ {p} :
           /\ frame'[q] = frame[q] /\ perm'[q] = perm[q] /\ info'[q] = info[q]
           /\ img'[q] = img[q] /\ sz'[q] = sz[q] /\ op'[q] = op[q] /\ state'[q] = state[q]
      BY <1>17 DEF TypeInv, TypeOK, Exit
    <2> QED
      BY <2>1, <2>2, <2>3, OnlyOwn DEF NoRemap
  <1>18. ASSUME NEW p \in Proc, InitExits(p) PROVE Tidy' /\ NoRemap'
    <2>1. UNCHANGED <<frame, perm, info, img, sz, op, state, killed>> /\ killed[InitProc] /\ op[InitProc] = Idle
      BY <1>18 DEF InitExits
    <2> QED
      BY <2>1, Still DEF NoRemap
  <1>19. ASSUME NEW p \in Proc, Kill(p) PROVE Tidy' /\ NoRemap'
    <2>1. UNCHANGED <<frame, perm, info, img, sz, op, state, panicked>>
      BY <1>19 DEF Kill
    <2> QED
      BY <2>1, Still DEF NoRemap
  <1>20. ASSUME NEW p \in Proc, ExecBadHeader(p) PROVE Tidy' /\ NoRemap'
    <2>1. Neat(p)'
      BY <1>20
         DEF TypeInv, TypeOK, ChildReserved, Tidy, Neat, Tables, Limit, Mapped, InUser,
             Handling, ExecBadHeader
    <2>2. panicked' = panicked /\ state[p] # "USED"
      BY <1>20 DEF TypeInv, ChildReserved, InUser, ExecBadHeader
    <2>3. \A q \in Proc \ {p} :
           /\ frame'[q] = frame[q] /\ perm'[q] = perm[q] /\ info'[q] = info[q]
           /\ img'[q] = img[q] /\ sz'[q] = sz[q] /\ op'[q] = op[q] /\ state'[q] = state[q]
      BY <1>20 DEF TypeInv, TypeOK, ExecBadHeader
    <2> QED
      BY <2>1, <2>2, <2>3, OnlyOwn DEF NoRemap
  <1>21. ASSUME NEW p \in Proc, ExecGuard(p) PROVE Tidy' /\ NoRemap'
    <2>1. Neat(p)'
      BY <1>21
         DEF TypeInv, TypeOK, ChildReserved, Tidy, Neat, Tables, Limit, Mapped, InUser,
             Handling, ExecGuard, Kalloc, Return
    <2>2. panicked' = panicked /\ state[p] # "USED"
      BY <1>21 DEF TypeInv, ChildReserved, InUser, ExecGuard, Kalloc, Return
    <2>3. \A q \in Proc \ {p} :
           /\ frame'[q] = frame[q] /\ perm'[q] = perm[q] /\ info'[q] = info[q]
           /\ img'[q] = img[q] /\ sz'[q] = sz[q] /\ op'[q] = op[q] /\ state'[q] = state[q]
      BY <1>21 DEF TypeInv, TypeOK, ExecGuard, Kalloc, Return
    <2> QED
      BY <2>1, <2>2, <2>3, OnlyOwn DEF NoRemap
  <1>22. ASSUME NEW p \in Proc, ExecFails(p) PROVE Tidy' /\ NoRemap'
    <2>1. Neat(p)'
      BY <1>22
         DEF TypeInv, TypeOK, ChildReserved, Tidy, Neat, Tables, Limit, Mapped, InUser,
             Handling, ExecFails, Kfree, Return
    <2>2. panicked' = panicked /\ state[p] # "USED"
      BY <1>22 DEF TypeInv, ChildReserved, InUser, ExecFails, Kfree, Return
    <2>3. \A q \in Proc \ {p} :
           /\ frame'[q] = frame[q] /\ perm'[q] = perm[q] /\ info'[q] = info[q]
           /\ img'[q] = img[q] /\ sz'[q] = sz[q] /\ op'[q] = op[q] /\ state'[q] = state[q]
      BY <1>22 DEF TypeInv, TypeOK, ExecFails, Kfree, Return
    <2> QED
      BY <2>1, <2>2, <2>3, OnlyOwn DEF NoRemap
  <1>23. ASSUME NEW p \in Proc, ExecCommit(p) PROVE Tidy' /\ NoRemap'
    <2> DEFINE j == op[p].img
    <2>1. j \in Image /\ state[p] = "RUNNABLE"
      BY <1>23 DEF TypeInv, TypeOK, ChildReserved, ExecCommit
    <2>2. /\ op'[p] = Idle /\ img'[p] = j /\ sz'[p] = StackTop(j) /\ state'[p] = state[p]
          /\ perm'[p] = [NoPerm EXCEPT ![Guard(j)] = {"W"}, ![StackPage(j)] = {"U", "W"}]
          /\ info'[p] = [NoInfo EXCEPT ![StackPage(j)] = Resident]
      BY <1>23 DEF TypeInv, TypeOK, ExecCommit, Return
    <2>e. PICK f \in free : frame' = [frame EXCEPT ![p] = [NoMap EXCEPT ![Guard(j)] = held[p], ![StackPage(j)] = f]]
      BY <1>23 DEF ExecCommit
    <2>f. frame'[p] = [NoMap EXCEPT ![Guard(j)] = held[p], ![StackPage(j)] = f]
      BY <2>e DEF TypeInv, TypeOK
    <2>3. \A v \in VPage : /\ v \notin {Guard(j), StackPage(j)} => frame'[p][v] = NoFrame
                           /\ v # StackPage(j) => info'[p][v].state = "NONE"
                           /\ v \in {Guard(j), StackPage(j)} => "W" \in perm'[p][v]
      BY <2>1, <2>2, <2>f, Layout DEF NoMap, NoPerm, NoInfo, Untracked
    <2>4. Guard(j) < StackTop(j) /\ StackPage(j) < StackTop(j) /\ StackTop(j) \in Int
      BY <2>1, ImageAssumption DEF Guard, StackPage, StackTop, HeapStart
    <2>x. op'[p].pc # "grow" /\ StackTop(img'[p]) = sz'[p] /\ sz'[p] \in Int /\ sz'[p] = StackTop(j)
      BY <2>2, <2>4, IdleType
    <2>y. \A v \in VPage : /\ frame'[p][v] # NoFrame => v < sz'[p] /\ "W" \in perm'[p][v]
                           /\ info'[p][v].state \in {"RESIDENT", "SWAPPED"} => v < sz'[p]
      BY <2>3, <2>4, <2>x
    <2>5. Tables(p)'
      BY <2>x, <2>y DEF Tables, Limit, Mapped
    <2>a. Neat(p)'
      BY <2>1, <2>2, <2>5 DEF Neat, Handling
    <2>b. panicked' = panicked /\ state[p] # "USED"
      BY <1>23 DEF TypeInv, ChildReserved, InUser, ExecCommit, Return
    <2>c. \A q \in Proc \ {p} :
           /\ frame'[q] = frame[q] /\ perm'[q] = perm[q] /\ info'[q] = info[q]
           /\ img'[q] = img[q] /\ sz'[q] = sz[q] /\ op'[q] = op[q] /\ state'[q] = state[q]
      BY <1>23 DEF TypeInv, TypeOK, ExecCommit, Return
    <2> QED
      BY <2>a, <2>b, <2>c, OnlyOwn DEF NoRemap
  <1>24. ASSUME NEW p \in Proc, GrowPage(p) PROVE Tidy' /\ NoRemap'
    <2> DEFINE u == op[p].at
    <2>1. Tables(p) /\ state[p] = "RUNNABLE" /\ op[p].pc = "grow" /\ u \in VPage /\ u = Limit(p)
      BY <1>24, GrowStep DEF TypeInv, TypeOK, ChildReserved, Tidy, Neat, GrowPage, Limit
    <2>2. /\ op'[p].pc = "grow" /\ op'[p].at = u + 1
          /\ img'[p] = img[p] /\ sz'[p] = sz[p] /\ state'[p] = state[p] /\ info'[p] = info[p]
      BY <1>24, <2>1, GrowStep DEF TypeInv, TypeOK, GrowPage
    <2>3. "W" \in perm'[p][u] /\ \A v \in VPage \ {u} : perm'[p][v] = perm[p][v] /\ frame'[p][v] = frame[p][v]
      BY <1>24, <2>1 DEF TypeInv, TypeOK, GrowPage
    <2>4. u \in Int /\ sz[p] \in Int /\ VPage \subseteq Int
      BY <2>1 DEF TypeInv, TypeOK, VPage
    <2>5. Tables(p)'
      BY <2>1, <2>2, <2>3, <2>4 DEF Tables, Limit, Mapped
    <2>a. Neat(p)'
      BY <2>1, <2>2, <2>5 DEF Neat, Handling
    <2>b. panicked' = panicked /\ state[p] # "USED"
      BY <1>24 DEF TypeInv, ChildReserved, InUser, GrowPage
    <2>c. \A q \in Proc \ {p} :
           /\ frame'[q] = frame[q] /\ perm'[q] = perm[q] /\ info'[q] = info[q]
           /\ img'[q] = img[q] /\ sz'[q] = sz[q] /\ op'[q] = op[q] /\ state'[q] = state[q]
      BY <1>24 DEF TypeInv, TypeOK, GrowPage
    <2> QED
      BY <2>a, <2>b, <2>c, OnlyOwn DEF NoRemap
  <1>25. ASSUME NEW p \in Proc, GrowRemap(p) PROVE Tidy' /\ NoRemap'
    <2>1. Tables(p) /\ op[p].pc = "grow" /\ op[p].at \in VPage /\ Mapped(p, op[p].at)
      BY <1>25, GrowStep DEF TypeInv, TypeOK, ChildReserved, Tidy, Neat, GrowRemap
    <2>2. op[p].at < op[p].at
      BY <2>1 DEF Tables, Limit
    <2> QED
      BY <2>1, <2>2 DEF VPage
  <1>26. ASSUME NEW p \in Proc, GrowFails(p) PROVE Tidy' /\ NoRemap'
    <2>1. Tables(p) /\ state[p] = "RUNNABLE" /\ op[p].pc = "grow" /\ op[p].at \in VPage
      BY <1>26, GrowStep DEF TypeInv, TypeOK, ChildReserved, Tidy, Neat, GrowFails
    <2>2. /\ op'[p] = Idle /\ img'[p] = img[p] /\ sz'[p] = sz[p] /\ state'[p] = state[p] /\ info'[p] = info[p]
          /\ \A v \in VPage : IF v \in Dealloc(p, sz[p], op[p].at) THEN frame'[p][v] = NoFrame
                              ELSE frame'[p][v] = frame[p][v] /\ perm'[p][v] = perm[p][v]
      BY <1>26 DEF TypeInv, TypeOK, GrowFails, UnmapAll, Return
    <2>3. sz[p] \in Int /\ VPage \subseteq Int /\ StackTop(img[p]) \in Int
      BY Layout DEF TypeInv, TypeOK, VPage
    <2>4. \A v \in VPage : frame'[p][v] # NoFrame => v < sz[p]
      BY <2>1, <2>2, <2>3 DEF Tables, Limit, Dealloc, Mapped
    <2>5. Tables(p)'
      BY <2>1, <2>2, <2>3, <2>4 DEF Tables, Limit, Mapped
    <2>a. Neat(p)'
      BY <2>1, <2>2, <2>5 DEF Neat, Handling
    <2>b. panicked' = panicked /\ state[p] # "USED"
      BY <1>26 DEF TypeInv, ChildReserved, InUser, GrowFails, UnmapAll, Kfree, Return
    <2>c. \A q \in Proc \ {p} :
           /\ frame'[q] = frame[q] /\ perm'[q] = perm[q] /\ info'[q] = info[q]
           /\ img'[q] = img[q] /\ sz'[q] = sz[q] /\ op'[q] = op[q] /\ state'[q] = state[q]
      BY <1>26 DEF TypeInv, TypeOK, GrowFails, UnmapAll, Kfree, Return
    <2> QED
      BY <2>a, <2>b, <2>c, OnlyOwn DEF NoRemap
  <1>27. ASSUME NEW p \in Proc, GrowDone(p) PROVE Tidy' /\ NoRemap'
    <2>1. Tables(p) /\ state[p] = "RUNNABLE" /\ op[p].pc = "grow" /\ op[p].at = op[p].to
      BY <1>27 DEF TypeInv, TypeOK, ChildReserved, Tidy, Neat, GrowDone
    <2>2. /\ op'[p] = Idle /\ img'[p] = img[p] /\ sz'[p] = op[p].at /\ state'[p] = state[p]
          /\ info'[p] = info[p] /\ frame'[p] = frame[p] /\ perm'[p] = perm[p]
      BY <1>27 DEF TypeInv, TypeOK, GrowDone, Return
    <2>3. sz[p] \in Int /\ VPage \subseteq Int /\ StackTop(img[p]) \in Int /\ op[p].at \in Int
      BY <2>1, Layout DEF TypeInv, TypeOK, VPage
    <2>5. Tables(p)'
      BY <2>1, <2>2, <2>3 DEF Tables, Limit, Mapped
    <2>a. Neat(p)'
      BY <2>1, <2>2, <2>5 DEF Neat, Handling
    <2>b. panicked' = panicked /\ state[p] # "USED"
      BY <1>27 DEF TypeInv, ChildReserved, InUser, GrowDone, Return
    <2>c. \A q \in Proc \ {p} :
           /\ frame'[q] = frame[q] /\ perm'[q] = perm[q] /\ info'[q] = info[q]
           /\ img'[q] = img[q] /\ sz'[q] = sz[q] /\ op'[q] = op[q] /\ state'[q] = state[q]
      BY <1>27 DEF TypeInv, TypeOK, GrowDone, Return
    <2> QED
      BY <2>a, <2>b, <2>c, OnlyOwn DEF NoRemap
  <1>28. ASSUME NEW p \in Proc, NEW c \in Proc, ForkStart(p, c) PROVE Tidy' /\ NoRemap'
    <2>1. state[p] = "RUNNABLE" /\ op[p].pc = "user" /\ c # p /\ op[c].pc = "user" /\ state[c] \notin {"USED", "RUNNABLE"}
      BY <1>28 DEF TypeInv, ChildReserved, InUser, ForkStart
    <2>3. /\ op'[p].pc = "fork" /\ op'[p].child = c /\ op'[c] = op[c] /\ state'[p] = state[p] /\ state'[c] = "USED"
          /\ frame' = frame /\ perm' = perm /\ info' = info /\ img' = img /\ sz' = sz
          /\ \A v \in VPage : ~Mapped(c, v)
      BY <1>28, <2>1 DEF TypeInv, TypeOK, ForkStart, ForkOf, Tidy, Neat
    <2>4. Tables(p)
      BY <2>1 DEF Tidy, Neat
    <2>5. Neat(p)'
      BY <2>1, <2>3, <2>4 DEF Neat, Tables, Limit, Mapped, Handling
    <2>6. Neat(c)'
      BY <2>1, <2>3 DEF Neat, Handling
    <2>7. \A q \in Proc \ {p, c} :
           /\ frame'[q] = frame[q] /\ perm'[q] = perm[q] /\ info'[q] = info[q]
           /\ img'[q] = img[q] /\ sz'[q] = sz[q] /\ op'[q] = op[q] /\ state'[q] = state[q]
           /\ op[q].pc = "fork" => op[q].child \notin {p, c}
      BY <1>28, <2>1, NotAChild DEF TypeInv, TypeOK, ForkStart
    <2>8. {p, c} \in SUBSET Proc /\ op \in [Proc -> OpType] /\ \A q \in {p, c} : Neat(q)'
      BY <2>1, <2>5, <2>6 DEF TypeInv, TypeOK
    <2>9. panicked' = panicked
      BY <1>28 DEF ForkStart
    <2> QED
      BY <2>7, <2>8, <2>9, Rest DEF NoRemap
  <1>29. ASSUME NEW p \in Proc, NEW c \in Proc, Wait(p, c) PROVE Tidy' /\ NoRemap'
    <2>1. state[p] = "RUNNABLE" /\ op[p].pc = "user" /\ c # p /\ op[c].pc = "user" /\ state[c] \notin {"USED", "RUNNABLE"}
      BY <1>29 DEF TypeInv, ChildReserved, InUser, Wait
    <2>3. /\ op' = op /\ state'[p] = state[p] /\ state'[c] = "UNUSED"
          /\ frame'[p] = frame[p] /\ perm'[p] = perm[p] /\ info'[p] = info[p] /\ img'[p] = img[p] /\ sz'[p] = sz[p]
          /\ \A v \in VPage : frame'[c][v] = NoFrame
      BY <1>29, <2>1 DEF TypeInv, TypeOK, Wait, FreeProc, UnmapAll, Kfree, MappedPages, Mapped
    <2>4. Tables(p)
      BY <2>1 DEF Tidy, Neat
    <2>5. Neat(p)'
      BY <2>1, <2>3, <2>4 DEF Neat, Tables, Limit, Mapped, Handling
    <2>6. Neat(c)'
      BY <2>1, <2>3 DEF Neat, Handling, Mapped
    <2>7. \A q \in Proc \ {p, c} :
           /\ frame'[q] = frame[q] /\ perm'[q] = perm[q] /\ info'[q] = info[q]
           /\ img'[q] = img[q] /\ sz'[q] = sz[q] /\ op'[q] = op[q] /\ state'[q] = state[q]
           /\ op[q].pc = "fork" => op[q].child \notin {p, c}
      BY <1>29, <2>1, NotAChild DEF TypeInv, TypeOK, Wait, FreeProc, UnmapAll, Kfree
    <2>8. {p, c} \in SUBSET Proc /\ op \in [Proc -> OpType] /\ \A q \in {p, c} : Neat(q)'
      BY <2>1, <2>5, <2>6 DEF TypeInv, TypeOK
    <2>9. panicked' = panicked
      BY <1>29 DEF Wait
    <2> QED
      BY <2>7, <2>8, <2>9, Rest DEF NoRemap
  <1>30. ASSUME NEW p \in Proc, NEW j \in Image, ExecParse(p, j) PROVE Tidy' /\ NoRemap'
    <2>1. Neat(p)'
      BY <1>30
         DEF TypeInv, TypeOK, ChildReserved, Tidy, Neat, Tables, Limit, Mapped, InUser,
             Handling, ExecParse, ExecOf
    <2>2. panicked' = panicked /\ state[p] # "USED"
      BY <1>30 DEF TypeInv, ChildReserved, InUser, ExecParse, ExecOf
    <2>3. \A q \in Proc \ {p} :
           /\ frame'[q] = frame[q] /\ perm'[q] = perm[q] /\ info'[q] = info[q]
           /\ img'[q] = img[q] /\ sz'[q] = sz[q] /\ op'[q] = op[q] /\ state'[q] = state[q]
      BY <1>30 DEF TypeInv, TypeOK, ExecParse, ExecOf
    <2> QED
      BY <2>1, <2>2, <2>3, OnlyOwn DEF NoRemap
  <1>31. ASSUME NEW p \in Proc, NEW n \in 1..(MaxVPage + 1), SbrkLazy(p, n) PROVE Tidy' /\ NoRemap'
    <2>1. Tables(p) /\ state[p] = "RUNNABLE" /\ op[p].pc = "user"
      BY <1>31 DEF Tidy, Neat, SbrkLazy, InUser
    <2>2. /\ op'[p] = op[p] /\ img'[p] = img[p] /\ sz'[p] = sz[p] + n /\ state'[p] = state[p]
          /\ info'[p] = info[p] /\ frame'[p] = frame[p] /\ perm'[p] = perm[p]
      BY <1>31 DEF TypeInv, TypeOK, SbrkLazy
    <2>3. sz[p] \in Int /\ VPage \subseteq Int /\ StackTop(img[p]) \in Int /\ n \in Int /\ n > 0
      BY <1>31, Layout, ImageAssumption DEF TypeInv, TypeOK, VPage
    <2>4. StackTop(img[p]) <= sz[p] + n /\ \A v \in VPage : v < sz[p] => v < sz[p] + n
      BY <2>1, <2>3, Beyond DEF Tables
    <2>5. Tables(p)'
      BY <2>1, <2>2, <2>3, <2>4 DEF Tables, Limit, Mapped
    <2>a. Neat(p)'
      BY <2>1, <2>2, <2>5 DEF Neat, Handling
    <2>b. panicked' = panicked /\ state[p] # "USED"
      BY <1>31 DEF TypeInv, ChildReserved, InUser, SbrkLazy
    <2>c. \A q \in Proc \ {p} :
           /\ frame'[q] = frame[q] /\ perm'[q] = perm[q] /\ info'[q] = info[q]
           /\ img'[q] = img[q] /\ sz'[q] = sz[q] /\ op'[q] = op[q] /\ state'[q] = state[q]
      BY <1>31 DEF TypeInv, TypeOK, SbrkLazy
    <2> QED
      BY <2>a, <2>b, <2>c, OnlyOwn DEF NoRemap
  <1>32. ASSUME NEW p \in Proc, NEW n \in 1..(MaxVPage + 1), SbrkEager(p, n) PROVE Tidy' /\ NoRemap'
    <2>1. Neat(p)'
      BY <1>32
         DEF TypeInv, TypeOK, ChildReserved, Tidy, Neat, Tables, Limit, Mapped, InUser,
             Handling, SbrkEager, GrowTo
    <2>2. panicked' = panicked /\ state[p] # "USED"
      BY <1>32 DEF TypeInv, ChildReserved, InUser, SbrkEager, GrowTo
    <2>3. \A q \in Proc \ {p} :
           /\ frame'[q] = frame[q] /\ perm'[q] = perm[q] /\ info'[q] = info[q]
           /\ img'[q] = img[q] /\ sz'[q] = sz[q] /\ op'[q] = op[q] /\ state'[q] = state[q]
      BY <1>32 DEF TypeInv, TypeOK, SbrkEager, GrowTo
    <2> QED
      BY <2>1, <2>2, <2>3, OnlyOwn DEF NoRemap
  <1> HIDE OpFields, IdleType DEF vars, procVars, imageVars, ptVars, pageVars, memVars
  <1>a. ASSUME NEW p \in Proc, InUser(p), NEW v \in VPage, NEW access \in {"read", "write"},
               ~Permitted(p, v, access), NEW fromUser, NEW x \in Value \cup {NoValue},
               HandlePageFault(p, v, access, fromUser, x)
        PROVE  Tidy' /\ NoRemap'
    BY <1>3, <1>4, <1>5, <1>6, <1>a DEF HandlePageFault
  <1>b. ASSUME NEW p \in Proc, UserStep(p) PROVE Tidy' /\ NoRemap'
    <2>1. ASSUME NEW v \in VPage, NEW access \in Accesses, UserFault(p, v, access)
          PROVE  Tidy' /\ NoRemap'
      BY <2>1, <1>a DEF UserFault
    <2>2. ASSUME NEW v \in VPage, NEW x \in Value \cup {NoValue}, KernelFault(p, v, x)
          PROVE  Tidy' /\ NoRemap'
      BY <2>2, <1>a DEF KernelFault
    <2>3. ASSUME NEW n \in 1..(MaxVPage + 1), SbrkShrink(p, n) PROVE FALSE
      BY <2>3 DEF SbrkShrink
    <2> QED
      BY <1>b, <1>1, <1>2, <1>19, <1>20, <1>28, <1>29, <1>30, <1>31, <1>32, <2>1, <2>2, <2>3
         DEF UserStep
  <1>c. ASSUME NEW p \in Proc, KernelStep(p) PROVE Tidy' /\ NoRemap'
    BY <1>c, <1>7, <1>8, <1>9, <1>10, <1>11, <1>12, <1>13, <1>14, <1>15, <1>16,
       <1>21, <1>22, <1>23, <1>24, <1>25, <1>26, <1>27 DEF KernelStep
  <1> QED
    BY <1>b, <1>c, <1>17, <1>18 DEF Next

\* init's tables, and the unused slots', are tidy.
LEMMA TidyInit == Init => Tidy /\ NoRemap
  <1> SUFFICES ASSUME Init PROVE Tidy /\ NoRemap
    OBVIOUS
  <1> USE IdleType
  <1> DEFINE g == Guard(InitImage)
             t == StackPage(InitImage)
  <1>1. /\ g \in VPage /\ t \in VPage /\ g < StackTop(InitImage) /\ t < StackTop(InitImage)
        /\ StackTop(InitImage) \in Int
    BY Layout, ImageAssumption DEF Guard, StackPage, StackTop, HeapStart
  <1>2. ASSUME NEW p \in Proc, p # InitProc PROVE Neat(p)
    BY <1>2 DEF Init, Neat, Mapped, NoMap, Handling
  <1>3. /\ op[InitProc] = Idle /\ img[InitProc] = InitImage /\ sz[InitProc] = StackTop(InitImage)
        /\ state[InitProc] = "RUNNABLE"
        /\ \A v \in VPage : /\ v \notin {g, t} => frame[InitProc][v] = NoFrame
                            /\ v # t => info[InitProc][v].state = "NONE"
                            /\ v \in {g, t} => "W" \in perm[InitProc][v]
    BY <1>1, ProcAssumption DEF Init, NoMap, NoPerm, NoInfo, Untracked
  <1>4. Neat(InitProc)
    BY <1>1, <1>3 DEF Neat, Tables, Limit, Mapped, Handling
  <1> QED
    BY <1>2, <1>4 DEF Tidy, NoRemap, Init

LEMMA TidyInvariant ==
  ASSUME "shrink" \notin Calls, "exec" \notin Accesses
  PROVE  Spec => [](TypeInv /\ Tidy /\ NoRemap)
  <1>1. TypeInv /\ Tidy /\ NoRemap /\ [Next]_vars /\ TypeInv' => (Tidy /\ NoRemap)'
    <2> SUFFICES ASSUME TypeInv, Tidy, NoRemap, [Next]_vars, TypeInv' PROVE Tidy' /\ NoRemap'
      OBVIOUS
    <2>1. CASE UNCHANGED vars
      <3>1. UNCHANGED <<frame, perm, info, img, sz, op, state, killed, panicked>>
        BY <2>1 DEF vars, procVars, imageVars, ptVars, pageVars
      <3> QED
        BY <3>1, Still DEF NoRemap
    <2>2. CASE Next
      <3>1. ~panicked /\ Accesses \subseteq {"read", "write"}
        BY <2>2, InputAssumption DEF Next
      <3> QED
        BY <2>2, <3>1, TidyStep
    <2> QED
      BY <2>1, <2>2
  <1> QED
    BY <1>1, TidyInit, InitTypes, TypeInvariant, PTL DEF Spec

\* A fault that has waited for frames finds the page to swap in still swapped and
\* the page to map not mapped; so does uvmalloc. Without the two calls that break
\* it (a shrink below the stack, a fetch from a data page) the kernel stops in no
\* other way than by the death of init (handle_page_fault, evict_page_fifo, mappages).
THEOREM FaultsFindPages ==
  ASSUME "shrink" \notin Calls, "exec" \notin Accesses
  PROVE  Spec => []FaultsAreSafe
  <1>1. TypeInv /\ Tidy /\ NoRemap => FaultsAreSafe
    BY DEF TypeInv, FaultsAreSafe
  <1> QED
    BY <1>1, TidyInvariant, PTL
-----------------------------------------------------------------------------
(***************************************************************************)
(* Paging refines Memory, for every number of processes, frames, pages and *)
(* slots: every step of the fault handler, kfork, kexec, sbrk, kexit and   *)
(* kwait is a step of Memory, or shows nothing.                            *)
(*                                                                         *)
(* What makes it so is kept by Faithful.  A page that is neither mapped    *)
(* nor swapped is loaded again from the executable the process was         *)
(* started with (Backed); the handler that has waited for a frame still    *)
(* has the right kind of page in mind, the child of a fork under way has   *)
(* copies of its parent's pages, and what uvmalloc has mapped so far is    *)
(* zero (Underway).  That a frame backs one page only (Owned) makes a      *)
(* store visible at one page only.                                         *)
(*                                                                         *)
(* Four hypotheses name the calls that break it.  shrink leaves page_info  *)
(* entries behind that a later growth meets; a kexec that fails on a bad   *)
(* header has already replaced the segment table the old image is loaded   *)
(* through (badexec), and one that runs out of frames leaves the new       *)
(* image's, which OneProgram makes the same for loading purposes; a fetch  *)
(* from a data page remaps it and panics.                                  *)
(***************************************************************************)

\* What a process that may run has behind its page table entries.
Backed(p) ==
  /\ Data[img[p]] > 0 => segs[p] = img[p] /\ execInode[p] = img[p]
  /\ Mapped(p, Guard(img[p])) => "U" \notin perm[p][Guard(img[p])]
  /\ info[p][Guard(img[p])].state \notin {"RESIDENT", "SWAPPED"}
  /\ \A v \in VPage : Mapped(p, v) /\ "U" \in perm[p][v] /\ "W" \in perm[p][v]
       => ~InText(img[p], v)

\* What it has in hand for the next step of the call it is in.
Underway(p) ==
  /\ op[p].pc \in Handling =>
       op[p].va # Guard(img[p]) /\ op[p].kind = FaultKind(p, op[p].va)
  /\ op[p].pc = "copyout" => Permitted(p, op[p].va, "read")
  /\ op[p].pc \in {"execguard", "execstack"} =>
       segs[p] = op[p].img /\ execInode[p] = op[p].img
  /\ op[p].pc = "grow" =>
       \A v \in VPage : Mapped(p, v) /\ sz[p] <= v => mem[frame[p][v]] = Zero
  /\ op[p].pc = "fork" =>
       \A v \in VPage : Mapped(op[p].child, v)
         => mem[frame[op[p].child][v]] = mem[frame[p][v]]

Sound(p) == (state[p] = "RUNNABLE" => Backed(p)) /\ Underway(p)
Faithful == \A p \in Proc : Sound(p)

\* There is one executable, or none has pages that are loaded from it: then the
\* segment table a failing kexec leaves behind is as good as the old one.
OneProgram == (\A i \in Image : i = InitImage) \/ (\A i \in Image : Data[i] = 0)

-----------------------------------------------------------------------------
(* The steps of Memory, one process at a time.                              *)

\* What the rest of the world sees of q is what it saw before.
Alike(q) ==
  /\ \A v \in VPage : Visible(q, v)' = Visible(q, v)
  /\ VisibleProgram(q)' = VisibleProgram(q)
  /\ VisibleMode(q)' = VisibleMode(q)

\* The variables of Memory, as functions.
Bytes == [p \in Proc |-> [v \in VPage |-> Visible(p, v)]]
Programs == [p \in Proc |-> VisibleProgram(p)]
Modes == [p \in Proc |-> VisibleMode(p)]

\* Bytes and program stay.
LEMMA SwitchStep ==
  ASSUME NEW p \in Proc, \A q \in Proc \ {p} : Alike(q),
         \A v \in VPage : Visible(p, v)' = Visible(p, v),
         VisibleProgram(p)' = VisibleProgram(p)
  PROVE  M!MemoryNext
  <1>1. VisibleMode(p)' \in M!Mode
    BY DEF VisibleMode, M!Mode
  <1>2. Bytes' = Bytes /\ Programs' = Programs
        /\ Modes' = [Modes EXCEPT ![p] = VisibleMode(p)']
    BY DEF Alike, Bytes, Programs, Modes
  <1>3. M!Switch(p, VisibleMode(p)')
    BY <1>2 DEF M!Switch, Bytes, Programs, Modes
  <1> QED
    BY <1>1, <1>3 DEF M!MemoryNext

\* A store by user code, or by copyout.
LEMMA WriteStep ==
  ASSUME NEW p \in Proc, \A q \in Proc \ {p} : Alike(q),
         NEW v \in VPage, NEW x \in Value, ~InText(img[p], v),
         VisibleProgram(p) = img[p], img[p] \in Image,
         VisibleMode(p) \in {"user", "copy"},
         Visible(p, v)' = x, \A w \in VPage \ {v} : Visible(p, w)' = Visible(p, w),
         VisibleProgram(p)' = VisibleProgram(p), VisibleMode(p)' = "user"
  PROVE  M!MemoryNext
  <1>2. Bytes' = [Bytes EXCEPT ![p][v] = x] /\ Programs' = Programs
        /\ Modes' = [Modes EXCEPT ![p] = "user"]
        /\ Programs[p] = img[p] /\ Modes[p] \in {"user", "copy"}
    BY DEF Alike, Bytes, Programs, Modes
  <1>3. M!Write(p, v, x)
    BY <1>2, ContentAssumption DEF M!Write, M!Runs, Bytes, Programs, Modes
  <1> QED
    BY <1>3 DEF M!MemoryNext

\* A page falls back to what it would be loaded with.
LEMMA LoseStep ==
  ASSUME NEW p \in Proc, \A q \in Proc \ {p} : Alike(q), NEW v \in VPage,
         VisibleProgram(p) = img[p], img[p] \in Image,
         VisibleMode(p) = "paging", VisibleMode(p)' = "paging",
         Visible(p, v)' = IF LoadedFromExec(img[p], v) THEN img[p] ELSE Zero,
         \A w \in VPage \ {v} : Visible(p, w)' = Visible(p, w),
         VisibleProgram(p)' = VisibleProgram(p)
  PROVE  M!LossyNext
  <1>1. M!Fresh(img[p])[v] = Visible(p, v)'
    BY DEF M!Fresh
  <1>2. Bytes' = [Bytes EXCEPT ![p][v] = M!Fresh(Programs[p])[v]] /\ Programs' = Programs
        /\ Modes' = [Modes EXCEPT ![p] = "paging"]
        /\ Programs[p] = img[p] /\ Modes[p] = "paging"
    BY <1>1 DEF Alike, Bytes, Programs, Modes
  <1>3. M!Lose(p, v)
    BY <1>2, ContentAssumption DEF M!Lose, M!Runs, Bytes, Programs, Modes
  <1> QED
    BY <1>3 DEF M!LossyNext

\* A process becomes a zombie.
LEMMA VanishStep ==
  ASSUME NEW p \in Proc, \A q \in Proc \ {p} : Alike(q),
         \A v \in VPage : Visible(p, v)' = Zero,
         VisibleProgram(p)' = Zero, VisibleMode(p)' = VisibleMode(p)
  PROVE  M!MemoryNext
  <1>2. Bytes' = [Bytes EXCEPT ![p] = M!Nothing] /\ Programs' = [Programs EXCEPT ![p] = Zero]
        /\ Modes' = Modes
    BY DEF Alike, Bytes, Programs, Modes, M!Nothing
  <1>3. M!Vanish(p)
    BY <1>2 DEF M!Vanish, Bytes, Programs, Modes
  <1> QED
    BY <1>3 DEF M!MemoryNext

\* kexec commits.
LEMMA ReplaceStep ==
  ASSUME NEW p \in Proc, \A q \in Proc \ {p} : Alike(q), NEW i \in Image,
         VisibleProgram(p) \in Image, VisibleMode(p) = "exec",
         \A v \in VPage : Visible(p, v)' = IF LoadedFromExec(i, v) THEN i ELSE Zero,
         VisibleProgram(p)' = i, VisibleMode(p)' = "user"
  PROVE  M!MemoryNext
  <1>2. Bytes' = [Bytes EXCEPT ![p] = M!Fresh(i)] /\ Programs' = [Programs EXCEPT ![p] = i]
        /\ Modes' = [Modes EXCEPT ![p] = "user"]
        /\ Programs[p] \in Image /\ Modes[p] = "exec"
    BY DEF Alike, Bytes, Programs, Modes, M!Fresh
  <1>3. M!Replace(p, i)
    BY <1>2, ContentAssumption DEF M!Replace, M!Runs, Bytes, Programs, Modes
  <1> QED
    BY <1>3 DEF M!MemoryNext

\* The child sees the parent's pages, or what they would be loaded with.
LEMMA CloneStep ==
  ASSUME NEW p \in Proc, NEW c \in Proc, c # p, \A q \in Proc \ {p, c} : Alike(q),
         VisibleProgram(p) = img[p], img[p] \in Image, VisibleProgram(c) = Zero,
         VisibleMode(p) = "fork", VisibleMode(p)' = "user", VisibleMode(c)' = VisibleMode(c),
         VisibleProgram(p)' = VisibleProgram(p), VisibleProgram(c)' = VisibleProgram(p),
         \A v \in VPage : Visible(p, v)' = Visible(p, v),
         \A v \in VPage : \/ Visible(c, v)' = Visible(p, v)
                          \/ Visible(c, v)' = IF LoadedFromExec(img[p], v) THEN img[p] ELSE Zero
  PROVE  /\ M!LossyNext
         /\ (\A v \in VPage : Visible(c, v)' = Visible(p, v)) => M!MemoryNext
  <1>1. /\ Programs' = [Programs EXCEPT ![c] = Programs[p]]
        /\ Modes' = [Modes EXCEPT ![p] = "user"]
        /\ Programs[p] = img[p] /\ Programs[c] = Zero /\ Modes[p] = "fork"
        /\ \A q \in Proc \ {c} : Bytes'[q] = Bytes[q]
    BY DEF Alike, Bytes, Programs, Modes
  <1>2. M!Starts(p, c)
    BY <1>1, ContentAssumption DEF M!Starts, M!Runs, Programs, Modes
  <1>3. \A v \in VPage : Bytes'[c][v] \in {Bytes[p][v], M!Fresh(Programs[p])[v]}
    <2>1. \A v \in VPage : M!Fresh(img[p])[v] = IF LoadedFromExec(img[p], v) THEN img[p] ELSE Zero
      BY DEF M!Fresh
    <2> QED
      BY <2>1, <1>1 DEF Bytes
  <1>4. M!LossyClone(p, c)
    BY <1>1, <1>2, <1>3 DEF M!LossyClone, Bytes, Programs
  <1>5. ASSUME \A v \in VPage : Visible(c, v)' = Visible(p, v)
        PROVE  M!MemoryNext
    <2>1. Bytes' = [Bytes EXCEPT ![c] = Bytes[p]]
      BY <1>5 DEF Alike, Bytes
    <2>2. M!Clone(p, c)
      BY <1>2, <2>1 DEF M!Clone, Bytes
    <2> QED
      BY <2>2 DEF M!MemoryNext
  <1> QED
    BY <1>4, <1>5 DEF M!LossyNext
-----------------------------------------------------------------------------
(* What a step of p leaves alone.                                           *)

\* The bytes of q's page v stay.
Intact(q, v) == Mapped(q, v) => mem'[frame[q][v]] = mem[frame[q][v]]

\* So do q's tables, its program, its swap file and what the kernel does for it.
Kept(q) ==
  /\ state'[q] = state[q] /\ op'[q] = op[q]
  /\ img'[q] = img[q] /\ segs'[q] = segs[q] /\ execInode'[q] = execInode[q] /\ sz'[q] = sz[q]
  /\ frame'[q] = frame[q] /\ perm'[q] = perm[q] /\ info'[q] = info[q] /\ swap'[q] = swap[q]
  /\ \A v \in VPage : Intact(q, v)

Inv == TypeInv /\ Owned /\ Tidy /\ Faithful

\* What stays is seen to stay.
LEMMA KeptAlike == ASSUME NEW q \in Proc, Kept(q) PROVE Alike(q)
  BY DEF Kept, Intact, Alike, Visible, VisibleProgram, VisibleMode, Valid, Mapped, Reload,
         ExecContent

\* A store goes to one page of one process.
LEMMA StoreElsewhere ==
  ASSUME Inv, NEW p \in Proc, NEW v \in VPage, Mapped(p, v), NEW x,
         mem' = [mem EXCEPT ![frame[p][v]] = x]
  PROVE  \A q \in Proc : \A w \in VPage : q # p \/ w # v => Intact(q, w)
  BY DEF Inv, Owned, FrameOwnership, NoAliasing, TypeInv, TypeOK, Intact, Mapped

\* A frame that was free, or in someone's hands, backs nobody's page.
LEMMA FillElsewhere ==
  ASSUME Inv, NEW f \in free, NEW x, mem' = [mem EXCEPT ![f] = x]
  PROVE  \A q \in Proc : \A w \in VPage : Intact(q, w)
  BY DEF Inv, Owned, FrameOwnership, MappedNotFree, TypeInv, TypeOK, Intact, Mapped

LEMMA FillHeld ==
  ASSUME Inv, NEW p \in Proc, held[p] # NoFrame, NEW x, mem' = [mem EXCEPT ![held[p]] = x]
  PROVE  \A q \in Proc : \A w \in VPage : Intact(q, w)
  BY DEF Inv, Owned, FrameOwnership, HeldExclusive, FramesOf, MappedPages, TypeInv, TypeOK,
         Intact, Mapped

\* kfree of p's pages touches nobody else's.
LEMMA FreeElsewhere ==
  ASSUME Inv, NEW p \in Proc, NEW vs \in SUBSET VPage, \A v \in vs : Mapped(p, v),
         UnmapAll(p, vs)
  PROVE  \A q \in Proc : \A w \in VPage : q # p \/ w \notin vs => Intact(q, w)
  <1> SUFFICES ASSUME NEW q \in Proc, NEW w \in VPage, q # p \/ w \notin vs, Mapped(q, w)
               PROVE  mem'[frame[q][w]] = mem[frame[q][w]]
    BY DEF Intact
  <1>1. frame[q][w] \notin {frame[p][v] : v \in vs}
    BY DEF Inv, Owned, FrameOwnership, NoAliasing
  <1>2. frame[q][w] \in Frame
    BY DEF Inv, TypeInv, TypeOK, Mapped
  <1> QED
    BY <1>1, <1>2 DEF UnmapAll, Kfree, Freed

\* No frame is written to.
LEMMA SameIntact ==
  ASSUME mem' = mem
  PROVE  \A q \in Proc : \A w \in VPage : Intact(q, w)
  BY DEF Intact

\* Most steps of user code change p's own tables and no other's.
LEMMA UserKept ==
  ASSUME Inv, NEW p \in Proc, NEW q \in Proc, q # p, UserStep(p)
  PROVE  Kept(q) \/ \E c \in Proc : (ForkStart(p, c) \/ Wait(p, c))
  <1> USE DEF Kept, vars, procVars, imageVars, ptVars, pageVars, memVars
  <1>0. TypeOK
    BY DEF Inv, TypeInv
  <1> USE <1>0 DEF TypeOK
  <1>1. ASSUME NEW v \in VPage, NEW x \in Value, Store(p, v, x)
        PROVE  Kept(q)
    <2>1. \A w \in VPage : Intact(q, w)
      BY <1>1, StoreElsewhere DEF Store, Permitted
    <2> QED
      BY <1>1, <2>1 DEF Store
  <1>2. ASSUME NEW v \in VPage, NEW x \in Value, CopyOut(p, v, x)
        PROVE  Kept(q)
    <2>1. \A w \in VPage : Intact(q, w)
      BY <1>2, StoreElsewhere, SameIntact DEF CopyOut, CopyTo, Permitted
    <2> QED
      BY <1>2, <2>1 DEF CopyOut
  <1>3. ASSUME NEW v \in VPage, NEW access, NEW fromUser, NEW x,
               HandlePageFault(p, v, access, fromUser, x)
        PROVE  Kept(q)
    <2>0. mem' = mem
      BY <1>3 DEF HandlePageFault, RefuseFault, FirstWrite, FaultUntrackable, FaultAlloc
    <2>1. \A w \in VPage : Intact(q, w)
      BY <2>0, SameIntact
    <2>2. CASE RefuseFault(p, v, access, fromUser) \/ FaultUntrackable(p, v, access)
      BY <2>1, <2>2 DEF RefuseFault, FaultUntrackable, KillSelf, Return
    <2>3. CASE FirstWrite(p, v, access)
      BY <2>1, <2>3 DEF FirstWrite
    <2>4. CASE FaultAlloc(p, v, access, x)
      BY <2>1, <2>4 DEF FaultAlloc
    <2> QED
      BY <1>3, <2>2, <2>3, <2>4 DEF HandlePageFault
  <1>4. CASE \E i \in Image : ExecParse(p, i)
    <2>1. \A w \in VPage : Intact(q, w)
      BY <1>4, SameIntact DEF ExecParse
    <2> QED
      BY <1>4, <2>1 DEF ExecParse
  <1>5. CASE ExecBadHeader(p)
    <2>1. \A w \in VPage : Intact(q, w)
      BY <1>5, SameIntact DEF ExecBadHeader
    <2> QED
      BY <1>5, <2>1 DEF ExecBadHeader
  <1>6. CASE Kill(p)
    <2>1. \A w \in VPage : Intact(q, w)
      BY <1>6, SameIntact DEF Kill
    <2> QED
      BY <1>6, <2>1 DEF Kill
  <1>7. ASSUME NEW n \in 1..(MaxVPage + 1), SbrkLazy(p, n) \/ SbrkEager(p, n)
        PROVE  Kept(q)
    <2>1. \A w \in VPage : Intact(q, w)
      BY <1>7, SameIntact DEF SbrkLazy, SbrkEager
    <2> QED
      BY <1>7, <2>1 DEF SbrkLazy, SbrkEager
  <1>8. ASSUME NEW n \in 1..(MaxVPage + 1), SbrkShrink(p, n)
        PROVE  Kept(q)
    <2>0. UnmapAll(p, Dealloc(p, sz[p] - n, sz[p]))
      BY <1>8 DEF SbrkShrink
    <2>1. \A w \in VPage : Intact(q, w)
      BY <2>0, FreeElsewhere DEF Dealloc
    <2> QED
      BY <1>8, <2>1 DEF SbrkShrink, UnmapAll
  <1> QED
    BY <1>1, <1>2, <1>3, <1>4, <1>5, <1>6, <1>7, <1>8 DEF UserStep, UserFault, KernelFault

\* The kernel works for p, and on the child that p's fork has reserved.
LEMMA KernelKept ==
  ASSUME Inv, NEW p \in Proc, NEW q \in Proc, q # p,
         op[p].pc = "fork" => q # op[p].child,
         KernelStep(p) \/ Exit(p) \/ InitExits(p)
  PROVE  Kept(q)
  <1> USE DEF Kept, vars, procVars, imageVars, ptVars, pageVars, memVars
  <1>0. TypeOK /\ HeldInHandler
    BY DEF Inv, TypeInv
  <1> USE <1>0 DEF TypeOK
  <1>1. CASE EvictFails(p) \/ LoadRemap(p) \/ GrowRemap(p) \/ GrowDone(p)
    <2>1. \A w \in VPage : Intact(q, w)
      BY <1>1, SameIntact DEF EvictFails, LoadRemap, GrowRemap, GrowDone
    <2> QED
      BY <1>1, <2>1 DEF EvictFails, LoadRemap, GrowRemap, GrowDone, KillSelf, Return
  <1>2. CASE EvictClean(p) \/ EvictDirty(p)
    <2>1. UnmapAll(p, {Victim(p)}) /\ op[p].pc = "evict" /\ ~NothingToEvict(p)
      BY <1>2 DEF EvictClean, EvictDirty
    <2>2. Victim(p) \in VPage /\ Mapped(p, Victim(p))
      BY <2>1, VictimFacts DEF Inv, Mapped, MappedPages
    <2>3. PICK vs \in SUBSET VPage : vs = {Victim(p)}
      BY <2>2
    <2>4. UnmapAll(p, vs) /\ \A v \in vs : Mapped(p, v)
      BY <2>1, <2>2, <2>3, Zenon
    <2>5. \A w \in VPage : Intact(q, w)
      BY <2>4, FreeElsewhere
    <2> QED
      BY <1>2, <2>5, ZenonT(30) DEF EvictClean, EvictDirty, UnmapAll
  <1>3. CASE AllocAfterEvict(p) \/ ExecGuard(p)
    <2>1. \A w \in VPage : Intact(q, w)
      BY <1>3, SameIntact DEF AllocAfterEvict, ExecGuard
    <2> QED
      BY <1>3, <2>1 DEF AllocAfterEvict, ExecGuard, KillSelf, Return
  <1>4. CASE Load(p)
    <2>1. held[p] # NoFrame /\ \E x : mem' = [mem EXCEPT ![held[p]] = x]
      BY <1>4 DEF HeldInHandler, Load
    <2>2. \A w \in VPage : Intact(q, w)
      BY <2>1, FillHeld
    <2> QED
      BY <1>4, <2>2 DEF Load
  <1>5. CASE CopyOutResume(p)
    <2>1. Mapped(p, op[p].va) /\ op[p].va \in VPage
      BY <1>5, OpFields DEF Inv, Faithful, Sound, Underway, Permitted, CopyOutResume
    <2>a. PICK v \in VPage : v = op[p].va /\ Mapped(p, v)
      BY <2>1
    <2>b. mem' = mem \/ mem' = [mem EXCEPT ![frame[p][v]] = op[p].val]
      BY <1>5, <2>a DEF CopyOutResume, CopyTo
    <2>c. CASE mem' = mem
      BY <1>5, <2>c, SameIntact DEF CopyOutResume, Return
    <2>d. ASSUME NEW x, mem' = [mem EXCEPT ![frame[p][v]] = x]
          PROVE  Kept(q)
      <3>0. \A r \in Proc : \A w \in VPage : r # p \/ w # v => Intact(r, w)
        <4> HIDE DEF TypeOK
        <4>1. Mapped(p, v)
          BY <2>a
        <4> QED
          BY <2>d, <4>1, StoreElsewhere
      <3>1. \A w \in VPage : Intact(q, w)
        BY <3>0
      <3> QED
        BY <1>5, <3>1 DEF CopyOutResume, Return
    <2> QED
      BY <2>b, <2>c, <2>d
  <1>6. CASE ForkCopyPage(p)
    <2>1. \E x : \E f \in free : mem' = [mem EXCEPT ![f] = x]
      BY <1>6 DEF ForkCopyPage
    <2>2. \A w \in VPage : Intact(q, w)
      BY <2>1, FillElsewhere
    <2> QED
      BY <1>6, <2>2 DEF ForkCopyPage
  <1>7. CASE ForkFails(p)
    <2>1. op[p].pc = "fork" /\ op[p].child \in Proc
          /\ UnmapAll(op[p].child, MappedPages(op[p].child))
      BY <1>7, OpFields DEF ForkFails, FreeProc
    <2>a. PICK c \in Proc : c = op[p].child
      BY <2>1
    <2>b. /\ UnmapAll(c, MappedPages(c)) /\ MappedPages(c) \in SUBSET VPage /\ q # c
          /\ \A v \in MappedPages(c) : Mapped(c, v)
      BY <2>1, <2>a DEF MappedPages
    <2>2. \A w \in VPage : Intact(q, w)
      BY <2>b, FreeElsewhere
    <2> QED
      BY <1>7, <2>1, <2>2 DEF ForkFails, FreeProc, UnmapAll, Return
  <1>8. CASE ForkDone(p)
    <2>1. \A w \in VPage : Intact(q, w)
      BY <1>8, SameIntact DEF ForkDone
    <2> QED
      BY <1>8, <2>1 DEF ForkDone, Return
  <1>9. CASE ExecFails(p)
    <2>1. held[p] # NoFrame /\ mem' = [mem EXCEPT ![held[p]] = Junk]
      BY <1>9 DEF HeldInHandler, ExecFails, Kfree, Freed
    <2>2. \A w \in VPage : Intact(q, w)
      BY <2>1, FillHeld
    <2> QED
      BY <1>9, <2>2 DEF ExecFails, Return
  <1>10. CASE ExecCommit(p)
    <2>0. op[p].pc = "execstack" /\ held[p] # NoFrame
      BY <1>10 DEF HeldInHandler, ExecCommit
    <2>1. PICK f \in free : mem' = [Freed(FramesOf(p)) EXCEPT ![f] = Zero, ![held[p]] = Zero]
      BY <1>10 DEF ExecCommit
    <2>2. ASSUME NEW w \in VPage, Mapped(q, w)
          PROVE  mem'[frame[q][w]] = mem[frame[q][w]]
      <3>1. frame[q][w] \in Frame /\ frame[q][w] # f /\ frame[q][w] # held[p]
        BY <2>0, <2>2 DEF Inv, Owned, FrameOwnership, MappedNotFree, HeldExclusive, Mapped,
                     FramesOf, MappedPages
      <3>2. frame[q][w] \notin FramesOf(p)
        BY <2>2 DEF Inv, Owned, FrameOwnership, NoAliasing, FramesOf, MappedPages
      <3> QED
        BY <2>1, <3>1, <3>2 DEF Freed
    <2>3. \A w \in VPage : Intact(q, w)
      BY <2>2 DEF Intact
    <2> QED
      BY <1>10, <2>3 DEF ExecCommit, Return
  <1>11. CASE GrowPage(p)
    <2>1. \E f \in free : mem' = [mem EXCEPT ![f] = Zero]
      BY <1>11 DEF GrowPage
    <2>2. \A w \in VPage : Intact(q, w)
      BY <2>1, FillElsewhere
    <2> QED
      BY <1>11, <2>2 DEF GrowPage
  <1>12. CASE GrowFails(p)
    <2>1. UnmapAll(p, Dealloc(p, sz[p], op[p].at))
      BY <1>12 DEF GrowFails
    <2>2. \A w \in VPage : Intact(q, w)
      BY <2>1, FreeElsewhere DEF Dealloc
    <2> QED
      BY <1>12, <2>1, <2>2 DEF GrowFails, UnmapAll, Return
  <1>13. CASE Exit(p) \/ InitExits(p)
    <2>1. \A w \in VPage : Intact(q, w)
      BY <1>13, SameIntact DEF Exit, InitExits
    <2> QED
      BY <1>13, <2>1 DEF Exit, InitExits
  <1> QED
    BY <1>1, <1>2, <1>3, <1>4, <1>5, <1>6, <1>7, <1>8, <1>9, <1>10, <1>11, <1>12, <1>13
    DEF KernelStep
-----------------------------------------------------------------------------
(* Faithful is inductive.                                                   *)

\* Faithful for the processes a step leaves alone, unless it is about their child.
LEMMA RestFaithful ==
  ASSUME Inv, NEW S \in SUBSET Proc, \A q \in S : Sound(q)',
         \A q \in Proc \ S : Kept(q) /\ (op[q].pc = "fork" => op[q].child \notin S)
  PROVE  Faithful'
  <1> SUFFICES ASSUME NEW q \in Proc \ S PROVE Sound(q)'
    BY DEF Faithful
  <1>1. Sound(q) /\ Kept(q)
    BY DEF Inv, Faithful
  <1>2. op[q].pc = "fork" => op[q].child \in Proc \ S
    BY OpFields DEF Inv, TypeInv, TypeOK
  <1>3. op[q].pc = "fork" => Kept(op[q].child)
    BY <1>2
  <1>4. op[q].pc = "fork" => \A v \in VPage : Mapped(op[q].child, v) => Mapped(q, v)
    BY DEF Inv, Tidy, Neat
  <1>5. state[q] = "RUNNABLE" => Backed(q)'
    BY <1>1 DEF Sound, Kept, Backed, Mapped
  <1>6. op[q].pc = "fork" =>
          \A v \in VPage : Mapped(op[q].child, v)'
            => mem'[frame'[op[q].child][v]] = mem'[frame'[q][v]]
    BY <1>1, <1>3, <1>4 DEF Sound, Kept, Underway, Mapped, Intact
  <1>7. Underway(q)'
    BY <1>1, <1>6 DEF Sound, Kept, Underway, Mapped, Permitted, FaultKind, Intact
  <1> QED
    BY <1>1, <1>5, <1>7 DEF Sound, Kept

\* A step that no memory shows.
LEMMA StillFaithful ==
  ASSUME Inv, \A q \in Proc : Kept(q)
  PROVE  Faithful'
  <1> DEFINE S == {}
  <1>1. S \in SUBSET Proc /\ \A q \in S : Sound(q)'
    OBVIOUS
  <1>2. \A q \in Proc \ S : Kept(q) /\ (op[q].pc = "fork" => op[q].child \notin S)
    OBVIOUS
  <1> HIDE DEF S
  <1> QED
    BY <1>1, <1>2, RestFaithful

\* A step of p alone.
LEMMA OwnFaithful ==
  ASSUME Inv, NEW p \in Proc, state[p] # "USED", \A q \in Proc \ {p} : Kept(q), Sound(p)'
  PROVE  Faithful'
  <1>1. \A q \in Proc \ {p} : op[q].pc = "fork" => op[q].child \notin {p}
    BY NotAChild DEF Inv
  <1> QED
    BY <1>1, RestFaithful

\* A step of p on its child, or on the slot of a zombie.
LEMMA PairFaithful ==
  ASSUME Inv, NEW p \in Proc, NEW c \in Proc, state[p] = "RUNNABLE",
         state[c] # "USED" \/ (op[p].pc = "fork" /\ op[p].child = c),
         \A q \in Proc \ {p, c} : Kept(q), Sound(p)', Sound(c)'
  PROVE  Faithful'
  <1>1. \A q \in Proc \ {p, c} : op[q].pc = "fork" => op[q].child \notin {p, c}
    BY NotAChild DEF Inv
  <1>2. {p, c} \in SUBSET Proc /\ \A q \in {p, c} : Sound(q)'
    OBVIOUS
  <1> QED
    BY <1>1, <1>2, RestFaithful

\* A process in the kernel, or in user code, is not a slot under construction.
LEMMA Runs ==
  ASSUME Inv, NEW p \in Proc
  PROVE  /\ state[p] = "RUNNABLE" => Backed(p) /\ Tables(p)
         /\ op[p].pc # "user" => state[p] = "RUNNABLE"
         /\ InUser(p) => state[p] = "RUNNABLE" /\ op[p].pc = "user"
         /\ Underway(p) /\ img[p] \in Image /\ op[p] \in OpType
  BY IdleType DEF Inv, Faithful, Sound, Tidy, Neat, TypeInv, TypeOK, ChildReserved, InUser

\* Outside the kernel nothing is under way.
LEMMA UserUnderway == ASSUME NEW p \in Proc, op[p].pc = "user" PROVE Underway(p)
  BY DEF Underway, Handling

\* The layout in numbers.
LEMMA Pages ==
  ASSUME NEW i \in Image
  PROVE  /\ Text[i] \in Nat /\ Data[i] \in Nat /\ Guard(i) \in VPage /\ StackPage(i) \in VPage
         /\ Guard(i) = Text[i] + Data[i] /\ StackPage(i) = Text[i] + Data[i] + 1
         /\ StackTop(i) = Text[i] + Data[i] + 2 /\ HeapStart(i) = Text[i] + Data[i]
         /\ VPage \subseteq Int
  BY ImageAssumption, Layout DEF Guard, StackPage, StackTop, HeapStart, VPage

\* The stack page and what lies above it are not text.
LEMMA AboveText ==
  ASSUME NEW i \in Image, NEW s \in Int, StackTop(i) <= s
  PROVE  /\ ~InText(i, StackPage(i))
         /\ \A v \in VPage : s <= v => ~InText(i, v) /\ v # Guard(i)
  BY Pages DEF InText

\* The steps of user code, its traps and its system calls keep Faithful.
LEMMA UserFaithful ==
  ASSUME Inv, NEW p \in Proc, UserStep(p),
         "shrink" \notin Calls, "badexec" \notin Calls, Accesses \subseteq {"read", "write"},
         "exec" \in Calls => OneProgram
  PROVE  Faithful'
  <1> USE DEF vars, procVars, imageVars, ptVars, pageVars, memVars
  <1>0. TypeOK
    BY DEF Inv, TypeInv
  <1> USE <1>0 DEF TypeOK
  <1>a. ASSUME Sound(p)', state[p] = "RUNNABLE",
               ~\E c \in Proc : (ForkStart(p, c) \/ Wait(p, c))
        PROVE  Faithful'
    <2>1. \A q \in Proc \ {p} : Kept(q)
      BY <1>a, UserKept
    <2> QED
      BY <1>a, <2>1, OwnFaithful
  <1>b. ASSUME NEW c \in Proc, ForkStart(p, c) \/ Wait(p, c)
        PROVE  Faithful'
    <2>1. /\ state[p] = "RUNNABLE" /\ op[p].pc = "user" /\ op[c].pc = "user" /\ c # p
          /\ state[c] # "USED" /\ Backed(p)
      BY <1>b, Runs DEF ForkStart, Wait, Inv, TypeInv, ChildReserved
    <2>2. CASE ForkStart(p, c)
      <3>1. mem' = mem /\ \A v \in VPage : ~Mapped(c, v)
        BY <2>2 DEF ForkStart, Inv, Tidy, Neat
      <3>2. \A q \in Proc \ {p, c} : Kept(q)
        BY <2>2, <3>1, SameIntact DEF ForkStart, Kept
      <3>3. Sound(p)'
        BY <2>1, <2>2, <3>1 DEF ForkStart, ForkOf, Sound, Backed, Underway, Mapped, Handling
      <3>4. Sound(c)'
        BY <2>1, <2>2 DEF ForkStart, Sound, Underway, Handling
      <3> QED
        BY <2>1, <3>2, <3>3, <3>4, PairFaithful
    <2>3. CASE Wait(p, c)
      <3>1. UnmapAll(c, MappedPages(c)) /\ \A v \in MappedPages(c) : Mapped(c, v)
        BY <2>3 DEF Wait, FreeProc, MappedPages
      <3>2. MappedPages(c) \in SUBSET VPage
        BY DEF MappedPages
      <3>3. \A q \in Proc \ {c} : \A w \in VPage : Intact(q, w)
        BY <3>1, <3>2, FreeElsewhere
      <3>4. \A q \in Proc \ {p, c} : Kept(q)
        BY <2>3, <3>1, <3>3 DEF Wait, FreeProc, UnmapAll, Kept
      <3>5. Sound(p)'
        BY <2>1, <2>3 DEF Wait, FreeProc, UnmapAll, Sound, Backed, Underway, Mapped, Handling
      <3>6. Sound(c)'
        BY <2>1, <2>3 DEF Wait, FreeProc, Sound, Underway, Handling
      <3> QED
        BY <2>1, <3>4, <3>5, <3>6, PairFaithful
    <2> QED
      BY <1>b, <2>2, <2>3
  <1>c. CASE \E c \in Proc : (ForkStart(p, c) \/ Wait(p, c))
    BY <1>b, <1>c
  <1>e. CASE Kill(p)
    <2>1. \A q \in Proc : Kept(q)
      BY <1>e, SameIntact DEF Kill, Kept
    <2> QED
      BY <2>1, StillFaithful
  <1>d. CASE ~(\E c \in Proc : (ForkStart(p, c) \/ Wait(p, c))) /\ ~Kill(p)
    <2> SUFFICES Sound(p)' /\ state[p] = "RUNNABLE"
      BY <1>a, <1>d
    <2>1. ASSUME NEW v \in VPage, NEW x \in Value, Store(p, v, x) \/ CopyOut(p, v, x)
          PROVE  Sound(p)' /\ state[p] = "RUNNABLE"
      BY <2>1, Runs DEF Store, CopyOut, Sound, Backed, Underway, Mapped, Handling
    <2>2. ASSUME InUser(p), NEW v \in VPage, NEW access \in {"read", "write"},
                 ~Permitted(p, v, access), NEW fromUser, NEW x \in Value \cup {NoValue},
                 HandlePageFault(p, v, access, fromUser, x)
          PROVE  Sound(p)' /\ state[p] = "RUNNABLE"
      <3>0. state[p] = "RUNNABLE" /\ op[p].pc = "user" /\ Backed(p) /\ img[p] \in Image
        BY <2>2, Runs
      <3>1. CASE RefuseFault(p, v, access, fromUser) \/ FaultUntrackable(p, v, access)
        BY <3>0, <3>1, IdleType DEF RefuseFault, FaultUntrackable, KillSelf, Return, Sound, Backed,
             Underway, Mapped, Handling
      <3>2. CASE FirstWrite(p, v, access)
        BY <3>0, <3>2 DEF FirstWrite, MarksDirty, Sound, Backed, Underway, Mapped, Handling
      <3>3. CASE FaultAlloc(p, v, access, x)
        <4>1. v # Guard(img[p])
          BY <3>0, <3>3 DEF FaultAlloc, Refused, Valid, Backed
        <4>2. op'[p].pc \in Handling /\ op'[p].va = v /\ op'[p].kind = FaultKind(p, v)
              /\ op'[p].pc \notin {"copyout", "execguard", "execstack", "grow", "fork"}
          BY <3>3 DEF FaultAlloc, FaultAt, Handling
        <4>3. /\ img'[p] = img[p] /\ segs' = segs /\ execInode' = execInode /\ frame' = frame
              /\ perm' = perm /\ state' = state
              /\ \A w \in VPage : info'[p][w].state = info[p][w].state
                                  \/ (info'[p][w].state = "UNMAPPED" /\ info[p][w].state = "NONE")
          BY <3>3 DEF FaultAlloc, Unmapped
        <4>4. FaultKind(p, v)' = FaultKind(p, v)
          BY <4>3 DEF FaultKind
        <4>5. Backed(p)'
          BY <3>0, <4>3, Pages DEF Backed, Mapped
        <4>6. Underway(p)'
          BY <4>1, <4>2, <4>3, <4>4 DEF Underway
        <4> QED
          BY <3>0, <4>3, <4>5, <4>6 DEF Sound
      <3> QED
        BY <2>2, <3>1, <3>2, <3>3 DEF HandlePageFault
    <2>3. CASE \E v \in VPage, access \in Accesses : UserFault(p, v, access)
      BY <2>2, <2>3 DEF UserFault
    <2>4. CASE \E v \in VPage, x \in Value \cup {NoValue} : KernelFault(p, v, x)
      BY <2>2, <2>4 DEF KernelFault
    <2>5. ASSUME NEW i \in Image, ExecParse(p, i)
          PROVE  Sound(p)' /\ state[p] = "RUNNABLE"
      <3>1. state[p] = "RUNNABLE" /\ Backed(p) /\ img[p] \in Image
        BY <2>5, Runs DEF ExecParse
      <3>2. Data[img[p]] > 0 => i = img[p]
        BY <2>5, <3>1 DEF ExecParse, OneProgram
      <3> QED
        BY <2>5, <3>1, <3>2 DEF ExecParse, ExecOf, Sound, Backed, Underway, Mapped, Handling
    <2>7. ASSUME NEW n \in 1..(MaxVPage + 1), SbrkLazy(p, n)
          PROVE  Sound(p)' /\ state[p] = "RUNNABLE"
      BY <2>7, Runs DEF SbrkLazy, Sound, Backed, Underway, Mapped, Handling
    <2>8. ASSUME NEW n \in 1..(MaxVPage + 1), SbrkEager(p, n)
          PROVE  Sound(p)' /\ state[p] = "RUNNABLE"
      <3>1. state[p] = "RUNNABLE" /\ op[p].pc = "user" /\ Backed(p) /\ Tables(p)
        BY <2>8, Runs DEF SbrkEager
      <3>2. \A v \in VPage : ~(Mapped(p, v) /\ sz[p] <= v)
        BY <3>1, Pages DEF Tables, Limit, VPage
      <3> QED
        BY <2>8, <3>1, <3>2 DEF SbrkEager, GrowTo, Sound, Backed, Underway, Mapped, Handling
    <2> QED
      BY <1>d, <2>1, <2>3, <2>4, <2>5, <2>7, <2>8
      DEF UserStep, SbrkShrink, ExecBadHeader
  <1> QED
    BY <1>c, <1>d, <1>e

\* So do the steps of the kernel, and the end of a process.
LEMMA KernelFaithful ==
  ASSUME Inv, NEW p \in Proc, KernelStep(p) \/ Exit(p) \/ InitExits(p), "badexec" \notin Calls,
         "exec" \in Calls => OneProgram
  PROVE  Faithful'
  <1> USE DEF vars, procVars, imageVars, ptVars, pageVars, memVars
  <1>0. TypeOK /\ HeldInHandler
    BY DEF Inv, TypeInv
  <1> USE <1>0 DEF TypeOK
  <1>r. /\ state[p] = "RUNNABLE" => Backed(p) /\ Tables(p)
        /\ op[p].pc # "user" => state[p] = "RUNNABLE"
        /\ Underway(p) /\ img[p] \in Image /\ op[p] \in OpType
    BY Runs
  <1>a. ASSUME Sound(p)', state[p] # "USED", op[p].pc # "fork"
        PROVE  Faithful'
    <2>1. \A q \in Proc \ {p} : Kept(q)
      BY <1>a, KernelKept
    <2> QED
      BY <1>a, <2>1, OwnFaithful
  <1>b. ASSUME NEW c \in Proc, op[p].pc = "fork", op[p].child = c, Sound(p)', Sound(c)'
        PROVE  Faithful'
    <2>1. \A q \in Proc \ {p, c} : Kept(q)
      BY <1>b, KernelKept
    <2> QED
      BY <1>b, <1>r, <2>1, PairFaithful
  <1>1. CASE EvictFails(p)
    <2>1. Sound(p)' /\ state[p] = "RUNNABLE"
      BY <1>1, <1>r, IdleType
         DEF EvictFails, KillSelf, Return, Sound, Backed, Underway, Mapped, Handling
    <2> QED
      BY <1>1, <1>a, <2>1 DEF EvictFails
  <1>2. CASE LoadRemap(p) \/ GrowRemap(p) \/ InitExits(p)
    <2>1. \A q \in Proc : Kept(q)
      BY <1>2, SameIntact DEF LoadRemap, GrowRemap, InitExits, Kept
    <2> QED
      BY <2>1, StillFaithful
  <1>3. CASE EvictClean(p) \/ EvictDirty(p)
    <2>0. op[p].pc = "evict" /\ state[p] = "RUNNABLE" /\ ~NothingToEvict(p)
      BY <1>3, <1>r DEF EvictClean, EvictDirty
    <2>1. PICK u \in VPage : u = Victim(p) /\ Mapped(p, u) /\ info[p][u].state = "RESIDENT"
      BY <2>0, VictimFacts DEF Inv, Mapped, MappedPages
    <2>2. /\ op[p].va # u /\ op[p].va # Guard(img[p]) /\ op[p].kind = FaultKind(p, op[p].va)
          /\ op[p].va \in VPage /\ u # Guard(img[p])
      BY <2>0, <2>1, <1>r, OpFields DEF Underway, Handling, Inv, Tidy, Neat, Backed
    <2>3. /\ state' = state /\ img' = img /\ segs' = segs /\ execInode' = execInode
          /\ op'[p].pc = "alloc" /\ op'[p].va = op[p].va /\ op'[p].kind = op[p].kind
      <3>1. op'[p] = [op[p] EXCEPT !.pc = "alloc"]
        BY <1>3 DEF EvictClean, EvictDirty
      <3>2. op'[p].pc = "alloc" /\ op'[p].va = op[p].va /\ op'[p].kind = op[p].kind
        BY <2>0, <3>1, <1>r, FaultStep
      <3> QED
        BY <1>3, <3>2 DEF EvictClean, EvictDirty
    <2>a. UnmapAll(p, {u})
      BY <1>3, <2>1 DEF EvictClean, EvictDirty
    <2>b. \A w \in VPage \ {u} : frame'[p][w] = frame[p][w] /\ perm'[p][w] = perm[p][w]
      BY <2>a DEF UnmapAll
    <2>c. \A w \in VPage \ {u} : info'[p][w] = info[p][w]
      <3>1. CASE EvictClean(p)
        BY <3>1, <2>1 DEF EvictClean
      <3>2. CASE EvictDirty(p)
        <4>1. \E s : info' = [info EXCEPT ![p][u] = [@ EXCEPT !.state = "SWAPPED", !.slot = s]]
          BY <3>2, <2>1 DEF EvictDirty
        <4> QED
          BY <4>1
      <3> QED
        BY <1>3, <3>1, <3>2
    <2>4. \A w \in VPage \ {u} : /\ info'[p][w] = info[p][w] /\ frame'[p][w] = frame[p][w]
                                 /\ perm'[p][w] = perm[p][w]
      BY <2>b, <2>c
    <2>5. ~Mapped(p, u)'
      BY <2>a DEF UnmapAll, Mapped
    <2>6. Backed(p)'
      BY <2>0, <2>2, <2>3, <2>4, <2>5, <1>r, Pages DEF Backed, Mapped
    <2>7. FaultKind(p, op[p].va)' = FaultKind(p, op[p].va)
      BY <2>2, <2>3, <2>4 DEF FaultKind
    <2>8. Underway(p)'
      BY <2>2, <2>3, <2>4 DEF Underway, Handling, FaultKind
    <2> QED
      BY <2>0, <2>3, <2>6, <2>8, <1>a DEF Sound
  <1>4. CASE AllocAfterEvict(p)
    <2>0. op[p].pc = "alloc" /\ state[p] = "RUNNABLE"
      BY <1>4, <1>r DEF AllocAfterEvict
    <2>1. CASE op' = [op EXCEPT ![p].pc = "load"]
      <3>1. op'[p].pc = "load" /\ op'[p].va = op[p].va /\ op'[p].kind = op[p].kind
        <4>1. op'[p] = [op[p] EXCEPT !.pc = "load"]
          BY <2>1
        <4> QED
          BY <2>0, <4>1, <1>r, FaultStep
      <3>2. Sound(p)'
        BY <1>4, <2>0, <3>1, <1>r
           DEF AllocAfterEvict, Sound, Backed, Underway, Mapped, Handling, FaultKind
      <3> QED
        BY <2>0, <3>2, <1>a
    <2>2. CASE KillSelf(p)
      <3>1. Sound(p)'
        BY <1>4, <2>0, <2>2, <1>r, IdleType
           DEF AllocAfterEvict, KillSelf, Return, Sound, Backed, Underway,
             Mapped, Handling
      <3> QED
        BY <2>0, <3>1, <1>a
    <2> QED
      BY <1>4, <2>1, <2>2 DEF AllocAfterEvict
  <1>5. CASE Load(p)
    <2>0. /\ op[p].pc = "load" /\ state[p] = "RUNNABLE" /\ held[p] # NoFrame
          /\ op[p].va # Guard(img[p]) /\ op[p].kind = FaultKind(p, op[p].va)
      BY <1>5, <1>r DEF Load, Underway, Handling, HeldInHandler
    <2>1. PICK v \in VPage : v = op[p].va
      BY <2>0, <1>r, OpFields
    <2>2. /\ state' = state /\ img' = img /\ segs' = segs /\ execInode' = execInode
          /\ frame' = [frame EXCEPT ![p][v] = held[p]]
          /\ perm' = [perm EXCEPT ![p][v] = IF FaultKind(p, v) = "exec" THEN ExecPerm(p, v) ELSE {"U"}]
          /\ \A w \in VPage \ {v} : info'[p][w] = info[p][w]
      BY <1>5, <2>0, <2>1 DEF Load
    <2>3. "W" \in perm'[p][v] => ~InText(img[p], v)
      <3>1. SUFFICES ASSUME FaultKind(p, v) = "exec", "W" \in ExecPerm(p, v) PROVE ~InText(img[p], v)
        BY <2>2
      <3>2. Data[img[p]] > 0
        BY <3>1 DEF FaultKind, LoadedFromExec
      <3>3. segs[p] = img[p] /\ img[p] \in Image
        BY <3>2, <2>0, <1>r DEF Backed
      <3>4. InData(img[p], v)
        BY <3>1, <3>3 DEF ExecPerm
      <3> QED
        BY <3>4, <3>3, Pages DEF InData, InText
    <2>4. Backed(p)'
      BY <2>0, <2>1, <2>2, <2>3, <1>r, Pages DEF Backed, Mapped
    <2>5. Permitted(p, v, "read")'
      <3>1. "U" \in perm'[p][v]
        BY <2>2 DEF ExecPerm
      <3> QED
        BY <2>0, <2>2, <3>1 DEF Permitted, Mapped
    <2>6. op'[p] = Idle \/ (op'[p].pc = "copyout" /\ op'[p].va = v)
      <3>1. op'[p] = IF op[p].val = NoValue THEN Idle ELSE [op[p] EXCEPT !.pc = "copyout"]
        BY <1>5 DEF Load
      <3>2. op[p] \in [pc : {"evict", "alloc", "load"}, va : VPage,
               kind : {"swap", "exec", "zero"}, val : Value \cup {NoValue}]
        BY <2>0, <1>r, OpFields
      <3> QED
        BY <2>1, <3>1, <3>2
    <2>7. Underway(p)'
      BY <2>5, <2>6, IdleType DEF Underway, Handling
    <2> QED
      BY <2>0, <2>2, <2>4, <2>7, <1>a DEF Sound
  <1>6. CASE CopyOutResume(p) \/ ExecFails(p) \/ GrowDone(p)
    <2>1. Sound(p)' /\ state[p] = "RUNNABLE"
      BY <1>6, <1>r, IdleType
      DEF CopyOutResume, ExecFails, GrowDone, Return, Sound, Backed, Underway, Mapped, Handling
    <2> QED
      BY <1>6, <1>a, <2>1 DEF CopyOutResume, ExecFails, GrowDone
  <1>7. CASE ForkCopyPage(p) \/ ForkFails(p) \/ ForkDone(p)
    <2>0. op[p].pc = "fork" /\ state[p] = "RUNNABLE"
      BY <1>7, <1>r DEF ForkCopyPage, ForkFails, ForkDone
    <2>1. PICK c \in Proc : c = op[p].child
      BY <2>0, <1>r, OpFields
    <2>2. /\ state[c] = "USED" /\ op[c].pc = "user" /\ c # p
          /\ \A v \in VPage : Mapped(c, v) =>
               Mapped(p, v) /\ perm[c][v] = perm[p][v] /\ mem[frame[c][v]] = mem[frame[p][v]]
      BY <2>0, <2>1, <1>r DEF Inv, TypeInv, ChildReserved, Tidy, Neat, Underway
    <2>3. CASE ForkCopyPage(p)
      <3>1. PICK v \in ToCopy(p, c), f \in free :
              /\ mem'   = [mem EXCEPT ![f] = mem[frame[p][v]]]
              /\ frame' = [frame EXCEPT ![c][v] = f]
              /\ perm'  = [perm EXCEPT ![c][v] = perm[p][v]]
        BY <2>1, <2>3 DEF ForkCopyPage
      <3>2. \A q \in Proc : \A w \in VPage : Intact(q, w)
        BY <3>1, FillElsewhere
      <3>3. v \in VPage /\ Mapped(p, v) /\ f \in Frame
        BY <3>1 DEF ToCopy
      <3>4. /\ mem'[f] = mem[frame[p][v]] /\ frame'[c][v] = f /\ frame'[p] = frame[p]
            /\ \A w \in VPage \ {v} : frame'[c][w] = frame[c][w]
        BY <3>1, <3>3, <2>2
      <3>5. ASSUME NEW w \in VPage, Mapped(c, w)'
            PROVE  mem'[frame'[c][w]] = mem'[frame'[p][w]]
        <4>1. CASE w = v
          <5>1. mem'[frame[p][v]] = mem[frame[p][v]]
            BY <3>2, <3>3 DEF Intact
          <5> QED
            BY <4>1, <5>1, <3>4
        <4>2. CASE w # v
          <5>1. Mapped(c, w) /\ Mapped(p, w) /\ mem[frame[c][w]] = mem[frame[p][w]]
            BY <3>5, <4>2, <3>4, <2>2 DEF Mapped
          <5>2. mem'[frame[c][w]] = mem[frame[c][w]] /\ mem'[frame[p][w]] = mem[frame[p][w]]
            BY <5>1, <3>2 DEF Intact
          <5> QED
            BY <4>2, <5>1, <5>2, <3>4
        <4> QED
          BY <4>1, <4>2
      <3>6. Sound(p)'
        BY <2>0, <2>1, <2>2, <2>3, <3>1, <3>4, <3>5, <1>r
        DEF ForkCopyPage, Sound, Backed, Underway, Mapped, Handling
      <3>7. Sound(c)'
        BY <2>2, <2>3 DEF ForkCopyPage, Sound, Underway, Handling
      <3> QED
        BY <2>0, <2>1, <3>6, <3>7, <1>b
    <2>4. CASE ForkFails(p)
      <3>1. Sound(p)'
        BY <2>0, <2>1, <2>2, <2>4, <1>r, IdleType
        DEF ForkFails, FreeProc, UnmapAll, Return, Sound, Backed, Underway, Mapped, Handling
      <3>2. Sound(c)'
        BY <2>1, <2>2, <2>4 DEF ForkFails, FreeProc, Return, Sound, Underway, Handling
      <3> QED
        BY <2>0, <2>1, <3>1, <3>2, <1>b
    <2>5. CASE ForkDone(p)
      <3>1. Sound(p)'
        BY <2>0, <2>1, <2>2, <2>5, <1>r, IdleType
        DEF ForkDone, Return, Sound, Backed, Underway, Mapped, Handling
      <3>2. /\ img'[c] = img[p] /\ segs'[c] = segs[p] /\ execInode'[c] = execInode[p]
            /\ frame' = frame /\ perm' = perm /\ op'[c] = op[c]
            /\ info'[c] = [v \in VPage |-> ChildInfo(info[p][v])]
        BY <2>1, <2>2, <2>5 DEF ForkDone, Return
      <3>3. \A v \in VPage : info'[c][v].state \in {"RESIDENT", "SWAPPED"}
                             => info[p][v].state = "RESIDENT"
        <4>1. \A v \in VPage : info[p][v] \in Entry /\ info'[c][v] = ChildInfo(info[p][v])
          BY <3>2 DEF Entry
        <4> QED
          BY <4>1, ChildEntry
      <3>4. Backed(c)'
        BY <2>0, <2>2, <3>2, <3>3, <1>r, Pages DEF Backed, Mapped
      <3>5. Underway(c)'
        BY <2>2, <3>2 DEF Underway, Handling
      <3> QED
        BY <2>0, <2>1, <3>1, <3>4, <3>5, <1>b DEF Sound
    <2> QED
      BY <1>7, <2>3, <2>4, <2>5
  <1>8. CASE ExecGuard(p)
    <2>0. op[p].pc = "execguard" /\ state[p] = "RUNNABLE"
      BY <1>8, <1>r DEF ExecGuard
    <2>1. op'[p] = Idle \/ (op'[p].pc = "execstack" /\ op'[p].img = op[p].img)
      <3>1. op'[p] = Idle \/ op'[p] = [op[p] EXCEPT !.pc = "execstack"]
        BY <1>8 DEF ExecGuard, Return
      <3>2. op[p] \in [pc : {"execguard", "execstack"}, img : Image]
        BY <2>0, <1>r, OpFields
      <3> QED
        BY <3>1, <3>2
    <2>2. Sound(p)'
      BY <1>8, <2>0, <2>1, <1>r, IdleType DEF ExecGuard, Sound, Backed, Underway, Mapped, Handling
    <2> QED
      BY <2>0, <2>2, <1>a
  <1>9. CASE ExecCommit(p)
    <2>0. op[p].pc = "execstack" /\ state[p] = "RUNNABLE" /\ segs[p] = op[p].img /\ execInode[p] = op[p].img
      BY <1>9, <1>r DEF ExecCommit, Underway
    <2>1. PICK i \in Image : i = op[p].img
      BY <2>0, <1>r, OpFields
    <2>2. /\ op'[p] = Idle /\ img'[p] = i /\ segs'[p] = i /\ execInode'[p] = i /\ state' = state
          /\ perm'[p] = [NoPerm EXCEPT ![Guard(i)] = {"W"}, ![StackPage(i)] = {"U", "W"}]
          /\ info'[p] = [NoInfo EXCEPT ![StackPage(i)] = Resident]
      BY <1>9, <2>0, <2>1 DEF ExecCommit, Return
    <2>3. /\ "U" \notin perm'[p][Guard(i)] /\ info'[p][Guard(i)].state = "NONE"
          /\ \A v \in VPage : "U" \in perm'[p][v] => v = StackPage(i)
      <3>1. Guard(i) \in VPage /\ StackPage(i) \in VPage /\ Guard(i) # StackPage(i)
        BY Layout
      <3>2. info'[p][Guard(i)].state = "NONE"
        BY <2>2, <3>1 DEF NoInfo, Untracked
      <3>3. \A v \in VPage : perm'[p][v] = IF v = StackPage(i) THEN {"U", "W"}
                                           ELSE IF v = Guard(i) THEN {"W"} ELSE {}
        BY <2>2, <3>1 DEF NoPerm
      <3>4. "U" \notin perm'[p][Guard(i)]
        BY <3>1, <3>3
      <3>5. ASSUME NEW v \in VPage, v # StackPage(i) PROVE "U" \notin perm'[p][v]
        <4>1. perm'[p][v] = {"W"} \/ perm'[p][v] = {}
          BY <3>3, <3>5
        <4> QED
          BY <4>1
      <3> QED
        BY <3>2, <3>4, <3>5
    <2>4. ~InText(i, StackPage(i))
      BY Pages, AboveText
    <2>5. Backed(p)'
      BY <2>2, <2>3, <2>4 DEF Backed
    <2>6. Underway(p)'
      BY <2>2, IdleType DEF Underway, Handling
    <2> QED
      BY <2>0, <2>5, <2>6, <1>a DEF Sound
  <1>10. CASE GrowPage(p)
    <2>0. op[p].pc = "grow" /\ state[p] = "RUNNABLE" /\ op[p].at < op[p].to /\ ~Mapped(p, op[p].at)
      BY <1>10, <1>r DEF GrowPage
    <2>1. PICK v \in VPage : v = op[p].at
      BY <2>0, <1>r, GrowStep
    <2>2. PICK f \in free : mem' = [mem EXCEPT ![f] = Zero] /\ frame' = [frame EXCEPT ![p][v] = f]
      BY <1>10, <2>1 DEF GrowPage
    <2>3. /\ op'[p].pc = "grow" /\ state' = state /\ img' = img /\ segs' = segs /\ execInode' = execInode
          /\ info' = info /\ perm' = [perm EXCEPT ![p][v] = {"U", "W"}] /\ sz' = sz
      BY <1>10, <2>1, <2>0, <1>r, GrowStep DEF GrowPage
    <2>4. \A q \in Proc : \A w \in VPage : Intact(q, w)
      BY <2>2, FillElsewhere
    <2>5. sz[p] <= v /\ StackTop(img[p]) <= sz[p]
      BY <2>0, <2>1, <1>r DEF Tables, Limit
    <2>6. ~InText(img[p], v) /\ v # Guard(img[p])
      BY <2>5, <1>r, AboveText
    <2>7. Backed(p)'
      BY <2>0, <2>2, <2>3, <2>6, <1>r, Pages DEF Backed, Mapped
    <2>8. \A w \in VPage : Mapped(p, w)' /\ sz'[p] <= w => mem'[frame'[p][w]] = Zero
      BY <2>0, <2>2, <2>3, <2>4, <1>r DEF Underway, Intact, Mapped
    <2>9. Underway(p)'
      BY <2>3, <2>8 DEF Underway, Handling
    <2> QED
      BY <2>0, <2>3, <2>7, <2>9, <1>a DEF Sound
  <1>11. CASE GrowFails(p)
    <2>1. Sound(p)' /\ state[p] = "RUNNABLE"
      BY <1>11, <1>r, IdleType, Pages
      DEF GrowFails, UnmapAll, Return, Sound, Backed, Underway, Mapped, Handling
    <2> QED
      BY <1>11, <1>a, <2>1 DEF GrowFails
  <1>12. CASE Exit(p)
    <2>1. Sound(p)' /\ state[p] = "RUNNABLE"
      BY <1>12, IdleType DEF Exit, Sound, Underway, Handling
    <2> QED
      BY <1>12, <1>a, <2>1, IdleType DEF Exit
  <1> QED
    BY <1>1, <1>2, <1>3, <1>4, <1>5, <1>6, <1>7, <1>8, <1>9, <1>10, <1>11, <1>12 DEF KernelStep

\* /init has its stack page, and nobody else has anything.
LEMMA InitFaithful == Init => Faithful
  <1> SUFFICES ASSUME Init, NEW p \in Proc PROVE Sound(p)
    BY DEF Faithful
  <1> DEFINE g == Guard(InitImage)
             t == StackPage(InitImage)
  <1>1. op[p] = Idle
    BY DEF Init
  <1>2. Underway(p)
    BY <1>1, IdleType, UserUnderway
  <1>3. InitImage \in Image /\ g \in VPage /\ t \in VPage /\ g # t
    BY ImageAssumption, Layout
  <1>4. ASSUME state[p] = "RUNNABLE"
        PROVE  Backed(p)
    <2>1. p = InitProc /\ img[p] = InitImage /\ segs[p] = InitImage /\ execInode[p] = InitImage
      BY <1>4 DEF Init
    <2>2. /\ perm[p] = [NoPerm EXCEPT ![g] = {"W"}, ![t] = {"U", "W"}]
          /\ info[p] = [NoInfo EXCEPT ![t] = Resident]
      BY <2>1 DEF Init
    <2> HIDE DEF g, t
    <2>3. perm[p][g] = {"W"} /\ info[p][g].state = "NONE"
      BY <2>2, <1>3 DEF NoPerm, NoInfo, Untracked
    <2>4. ASSUME NEW v \in VPage, v # t PROVE "U" \notin perm[p][v]
      <3>1. perm[p][v] = {"W"} \/ perm[p][v] = {}
        BY <2>2, <2>4, <1>3 DEF NoPerm
      <3> QED
        BY <3>1
    <2>5. ~InText(InitImage, t)
      BY <1>3, Pages, AboveText DEF t
    <2> QED
      BY <1>3, <2>1, <2>3, <2>4, <2>5 DEF Backed, g
  <1> QED
    BY <1>2, <1>4 DEF Sound

\* Faithful is inductive, with the other parts of Inv.
LEMMA FaithfulStep ==
  ASSUME Inv, [Next]_vars,
         "shrink" \notin Calls, "badexec" \notin Calls, "exec" \notin Accesses,
         "exec" \in Calls => OneProgram
  PROVE  Faithful'
  <1>1. CASE UNCHANGED vars
    <2>1. \A q \in Proc : Kept(q)
      BY <1>1, SameIntact DEF Kept, vars, procVars, imageVars, ptVars, pageVars, memVars
    <2> QED
      BY <2>1, StillFaithful
  <1>2. Accesses \subseteq {"read", "write"}
    BY InputAssumption
  <1> QED
    BY <1>1, <1>2, UserFaithful, KernelFaithful DEF Next

-----------------------------------------------------------------------------
(* What a process reads.                                                    *)

\* The bytes page v of image i starts with.
Initial(i, v) == IF LoadedFromExec(i, v) THEN i ELSE Zero

\* The bytes p reads at v, if it may run.
Shown(p, v) ==
  IF v < sz[p] /\ v # Guard(img[p])
  THEN IF Mapped(p, v) THEN mem[frame[p][v]]
       ELSE IF info[p][v].state = "SWAPPED" THEN swap[p][info[p][v].slot]
       ELSE Initial(img[p], v)
  ELSE Zero

\* handle_page_fault accepts the pages below sz other than the guard page.
LEMMA ValidPages ==
  ASSUME Inv, NEW p \in Proc, state[p] = "RUNNABLE", NEW v \in VPage
  PROVE  Valid(p, v) <=> v < sz[p] /\ v # Guard(img[p])
  <1>1. img[p] \in Image /\ sz[p] \in Int /\ StackTop(img[p]) <= sz[p] /\ v \in Int /\ 0 <= v
    BY Runs DEF Tables, Inv, TypeInv, TypeOK, VPage
  <1> QED
    BY <1>1, Pages DEF Valid, InText, InData

\* A page that is nowhere is reloaded as kexec laid it out.
LEMMA Reloaded ==
  ASSUME Inv, NEW p \in Proc, state[p] = "RUNNABLE", NEW v \in VPage
  PROVE  Reload(p, v) = Initial(img[p], v)
  <1>1. Backed(p) /\ img[p] \in Image
    BY Runs
  <1>2. ASSUME LoadedFromExec(img[p], v)
        PROVE  ExecContent(p, v) = img[p]
    <2>1. segs[p] = img[p] /\ execInode[p] = img[p] /\ v < HeapStart(img[p])
      BY <1>1, <1>2 DEF Backed, LoadedFromExec, HeapStart
    <2> QED
      BY <1>1, <2>1, ImageAssumption DEF ExecContent
  <1> QED
    BY <1>2 DEF Reload, Initial

\* What Memory shows, by the tables of a process.
LEMMA See ==
  Inv => \A p \in Proc : \A v \in VPage :
           /\ state[p] = "RUNNABLE" => Visible(p, v) = Shown(p, v)
           /\ state[p] # "RUNNABLE" => Visible(p, v) = Zero
  <1> SUFFICES ASSUME Inv, NEW p \in Proc, NEW v \in VPage
               PROVE  /\ state[p] = "RUNNABLE" => Visible(p, v) = Shown(p, v)
                      /\ state[p] # "RUNNABLE" => Visible(p, v) = Zero
    OBVIOUS
  <1>1. CASE state[p] = "RUNNABLE"
    BY <1>1, ValidPages, Reloaded DEF Visible, Shown
  <1>2. CASE state[p] # "RUNNABLE"
    BY <1>2 DEF Visible
  <1> QED
    BY <1>1, <1>2

\* And after a step.
LEMMA SeeNext ==
  Inv' => \A p \in Proc : \A v \in VPage :
            /\ state'[p] = "RUNNABLE" => Visible(p, v)' = Shown(p, v)'
            /\ state'[p] # "RUNNABLE" => Visible(p, v)' = Zero
  <1>1. (\A p \in Proc : \A v \in VPage :
            /\ state[p] = "RUNNABLE" => Visible(p, v) = Shown(p, v)
            /\ state[p] # "RUNNABLE" => Visible(p, v) = Zero)'
        => \A p \in Proc : \A v \in VPage :
            /\ state'[p] = "RUNNABLE" => Visible(p, v)' = Shown(p, v)'
            /\ state'[p] # "RUNNABLE" => Visible(p, v)' = Zero
    OBVIOUS
  <1> QED
    BY <1>1, See, PTL

\* A step that shows nothing: into the kernel, out of it, or inside.
LEMMA NothingSeen ==
  ASSUME Inv, Inv', NEW p \in Proc, \A q \in Proc \ {p} : Alike(q),
         state'[p] = state[p], img'[p] = img[p],
         \A v \in VPage : state[p] = "RUNNABLE" => Shown(p, v)' = Shown(p, v)
  PROVE  M!MemoryNext
  <1>1. \A v \in VPage : Visible(p, v)' = Visible(p, v)
    BY See, SeeNext
  <1>2. VisibleProgram(p)' = VisibleProgram(p)
    BY DEF VisibleProgram
  <1> QED
    BY <1>1, <1>2, SwitchStep

\* A store, or a copyout, to one page.
LEMMA OneWrite ==
  ASSUME Inv, Inv', NEW p \in Proc, \A q \in Proc \ {p} : Alike(q),
         NEW v \in VPage, NEW x \in Value, state[p] = "RUNNABLE",
         op[p].pc \in {"user", "copyout"}, op'[p].pc = "user",
         Mapped(p, v), "U" \in perm[p][v], "W" \in perm[p][v],
         mem' = [mem EXCEPT ![frame[p][v]] = x],
         UNCHANGED <<state, imageVars, ptVars, pageVars>>
  PROVE  M!MemoryNext
  <1> USE DEF imageVars, ptVars, pageVars
  <1>1. Backed(p) /\ Tables(p) /\ img[p] \in Image
    BY Runs
  <1>2. v < sz[p] /\ v # Guard(img[p]) /\ ~InText(img[p], v)
    BY <1>1 DEF Backed, Tables, Limit
  <1>3. Shown(p, v)' = x
    <2>1. mem'[frame[p][v]] = x
      BY DEF Inv, TypeInv, TypeOK, Mapped
    <2> QED
      BY <1>2, <2>1 DEF Shown, Mapped
  <1>4. ASSUME NEW w \in VPage \ {v} PROVE Shown(p, w)' = Shown(p, w)
    <2>0. \A q \in Proc : \A u \in VPage : q # p \/ u # v => Intact(q, u)
      BY StoreElsewhere
    <2>1. Intact(p, w)
      BY <2>0
    <2> QED
      BY <2>1 DEF Shown, Mapped, Intact
  <1>5. Visible(p, v)' = x /\ \A w \in VPage \ {v} : Visible(p, w)' = Visible(p, w)
    BY <1>3, <1>4, See, SeeNext
  <1>6. /\ VisibleProgram(p) = img[p] /\ VisibleProgram(p)' = VisibleProgram(p)
        /\ VisibleMode(p) \in {"user", "copy"} /\ VisibleMode(p)' = "user"
    BY DEF VisibleProgram, VisibleMode
  <1> QED
    BY <1>1, <1>2, <1>5, <1>6, WriteStep

\* A slot that no process runs in shows nothing.
LEMMA EmptyAlike ==
  ASSUME Inv, Inv', NEW c \in Proc, state[c] # "RUNNABLE", state'[c] # "RUNNABLE",
         op'[c] = op[c]
  PROVE  Alike(c)
  BY See, SeeNext DEF Alike, VisibleProgram, VisibleMode

\* Every step of user code is one of Memory.
LEMMA UserMemory ==
  ASSUME Inv, Inv', NEW p \in Proc, UserStep(p),
         "shrink" \notin Calls, "badexec" \notin Calls, Accesses \subseteq {"read", "write"}
  PROVE  M!MemoryNext
  <1> USE DEF vars, procVars, imageVars, ptVars, pageVars, memVars
  <1>0. TypeOK
    BY DEF Inv, TypeInv
  <1>1. ASSUME NEW c \in Proc, ForkStart(p, c) \/ Wait(p, c)
        PROVE  M!MemoryNext
    <2>0. /\ state[p] = "RUNNABLE" /\ state[c] # "RUNNABLE" /\ state[c] # "USED" /\ c # p
          /\ op[c].pc = "user" /\ op[p].pc = "user"
      BY <1>1, Runs DEF ForkStart, Wait, Inv, TypeInv, ChildReserved
    <2>1. \A q \in Proc \ {p, c} : Kept(q)
      <3>1. CASE ForkStart(p, c)
        BY <3>1, <1>0, SameIntact DEF ForkStart, Kept, TypeOK
      <3>2. CASE Wait(p, c)
        <4>1. UnmapAll(c, MappedPages(c)) /\ MappedPages(c) \in SUBSET VPage
              /\ \A v \in MappedPages(c) : Mapped(c, v)
          BY <3>2 DEF Wait, FreeProc, MappedPages
        <4>2. \A q \in Proc \ {c} : \A w \in VPage : Intact(q, w)
          BY <4>1, FreeElsewhere
        <4> QED
          BY <3>2, <4>1, <4>2, <1>0 DEF Wait, FreeProc, UnmapAll, Kept, TypeOK
      <3> QED
        BY <1>1, <3>1, <3>2
    <2>2. Alike(c)
      <3>1. state'[c] # "RUNNABLE" /\ op'[c] = op[c]
        BY <1>1, <2>0, <1>0 DEF ForkStart, Wait, FreeProc, TypeOK
      <3> QED
        BY <2>0, <3>1, EmptyAlike
    <2>3. \A q \in Proc \ {p} : Alike(q)
      BY <2>1, <2>2, KeptAlike
    <2>4. /\ state'[p] = state[p] /\ img'[p] = img[p] /\ sz'[p] = sz[p] /\ frame'[p] = frame[p]
          /\ info'[p] = info[p] /\ swap'[p] = swap[p]
      BY <1>1, <2>0, <1>0 DEF ForkStart, Wait, FreeProc, UnmapAll, TypeOK
    <2>5. \A w \in VPage : Intact(p, w)
      <3>1. CASE ForkStart(p, c)
        BY <3>1, SameIntact DEF ForkStart
      <3>2. CASE Wait(p, c)
        <4>1. UnmapAll(c, MappedPages(c)) /\ MappedPages(c) \in SUBSET VPage
              /\ \A v \in MappedPages(c) : Mapped(c, v)
          BY <3>2 DEF Wait, FreeProc, MappedPages
        <4> QED
          BY <2>0, <4>1, FreeElsewhere
      <3> QED
        BY <1>1, <3>1, <3>2
    <2>6. \A v \in VPage : Shown(p, v)' = Shown(p, v)
      BY <2>4, <2>5 DEF Shown, Mapped, Intact
    <2> QED
      BY <2>3, <2>4, <2>6, NothingSeen
  <1>2. CASE \E c \in Proc : (ForkStart(p, c) \/ Wait(p, c))
    BY <1>1, <1>2
  <1>3. CASE ~\E c \in Proc : (ForkStart(p, c) \/ Wait(p, c))
    <2>1. \A q \in Proc \ {p} : Alike(q)
      BY <1>3, UserKept, KeptAlike
    <2>2. ASSUME NEW v \in VPage, NEW x \in Value, Store(p, v, x) \/ CopyOut(p, v, x)
          PROVE  M!MemoryNext
      <3>0. /\ state[p] = "RUNNABLE" /\ op[p].pc = "user" /\ op' = op
            /\ Mapped(p, v) /\ "U" \in perm[p][v]
            /\ UNCHANGED <<state, imageVars, ptVars, pageVars>>
        BY <2>2, Runs DEF Store, CopyOut, Permitted
      <3>1. CASE mem' = mem
        <4>1. \A w \in VPage : Shown(p, w)' = Shown(p, w)
          BY <3>0, <3>1 DEF Shown, Mapped
        <4> QED
          BY <2>1, <3>0, <4>1, NothingSeen
      <3>2. CASE "W" \in perm[p][v] /\ mem' = [mem EXCEPT ![frame[p][v]] = x]
        BY <2>1, <3>0, <3>2, OneWrite
      <3> QED
        BY <2>2, <3>1, <3>2 DEF Store, CopyOut, Permitted, CopyTo
    <2>3. ASSUME NEW v \in VPage, NEW access, NEW fromUser, NEW x,
                 HandlePageFault(p, v, access, fromUser, x)
          PROVE  M!MemoryNext
      <3>1. /\ state' = state /\ img' = img /\ sz' = sz /\ frame' = frame /\ swap' = swap
            /\ mem' = mem
        BY <2>3 DEF HandlePageFault, RefuseFault, FirstWrite, FaultUntrackable, FaultAlloc, KillSelf
      <3>2. \A w \in VPage :
               /\ info'[p][w].state = "SWAPPED" <=> info[p][w].state = "SWAPPED"
               /\ info[p][w].state = "SWAPPED" => info'[p][w].slot = info[p][w].slot
        <4>1. CASE info' = info
          BY <4>1
        <4>2. CASE FirstWrite(p, v, access)
          BY <4>2, <1>0 DEF FirstWrite, TypeOK
        <4>3. CASE FaultAlloc(p, v, access, x)
          BY <4>3, <1>0 DEF FaultAlloc, Unmapped, TypeOK
        <4> QED
          BY <2>3, <4>1, <4>2, <4>3 DEF HandlePageFault, RefuseFault, FaultUntrackable
      <3>3. \A w \in VPage : Shown(p, w)' = Shown(p, w)
        BY <3>1, <3>2 DEF Shown, Mapped
      <3> QED
        BY <2>1, <3>1, <3>3, NothingSeen
    <2>4. CASE Kill(p) \/ (\E i \in Image : ExecParse(p, i))
               \/ \E n \in 1..(MaxVPage + 1) : SbrkEager(p, n)
      <3>1. /\ state' = state /\ img' = img /\ sz' = sz /\ frame' = frame /\ swap' = swap
            /\ mem' = mem /\ info' = info
        BY <2>4 DEF Kill, ExecParse, SbrkEager
      <3>2. \A w \in VPage : Shown(p, w)' = Shown(p, w)
        BY <3>1 DEF Shown, Mapped
      <3> QED
        BY <2>1, <3>1, <3>2, NothingSeen
    <2>5. ASSUME NEW n \in 1..(MaxVPage + 1), SbrkLazy(p, n)
          PROVE  M!MemoryNext
      <3>1. /\ state' = state /\ img' = img /\ frame' = frame /\ swap' = swap
            /\ mem' = mem /\ info' = info /\ sz'[p] = sz[p] + n
        BY <2>5, <1>0 DEF SbrkLazy, TypeOK
      <3>2. state[p] = "RUNNABLE" /\ Tables(p) /\ op[p].pc = "user" /\ img[p] \in Image
        BY <2>5, Runs DEF SbrkLazy
      <3>3. ASSUME NEW w \in VPage PROVE Shown(p, w)' = Shown(p, w)
        <4>0. sz[p] \in Int /\ n \in Int /\ n > 0 /\ w \in Int
          BY <1>0, Pages, ImageAssumption DEF TypeOK, VPage
        <4>1. CASE w < sz[p]
          <5>1. w < sz[p] + n
            BY <4>0, <4>1
          <5> QED
            BY <3>1, <4>1, <5>1 DEF Shown, Mapped
        <4>2. CASE ~(w < sz[p])
          <5>1. ~Mapped(p, w) /\ info[p][w].state # "SWAPPED" /\ StackTop(img[p]) <= w
            BY <3>2, <4>0, <4>2, Pages DEF Tables, Limit
          <5>2. ~LoadedFromExec(img[p], w)
            BY <5>1, <3>2, <4>0, Pages DEF LoadedFromExec
          <5> QED
            BY <3>1, <4>2, <5>1, <5>2 DEF Shown, Mapped, Initial
        <4> QED
          BY <4>1, <4>2
      <3> QED
        BY <2>1, <3>1, <3>3, NothingSeen
    <2> QED
      BY <1>3, <2>2, <2>3, <2>4, <2>5
      DEF UserStep, UserFault, KernelFault, SbrkShrink, ExecBadHeader
  <1> QED
    BY <1>2, <1>3

\* What the kernel does for p: only the loss of a clean page that was written
\* before it was swapped, and a fork that forgets swapped pages, show.
LEMMA KernelMemory ==
  ASSUME Inv, Inv', NEW p \in Proc, KernelStep(p) \/ Exit(p) \/ InitExits(p),
         "badexec" \notin Calls
  PROVE  /\ M!LossyNext
         /\ (op[p].pc # "evict" /\ \A v \in VPage : info[p][v].state # "SWAPPED")
              => M!MemoryNext
  <1> USE DEF vars, procVars, imageVars, ptVars, pageVars, memVars
  <1>0. TypeOK /\ HeldInHandler
    BY DEF Inv, TypeInv
  <1>r. /\ state[p] = "RUNNABLE" => Backed(p) /\ Tables(p)
        /\ op[p].pc # "user" => state[p] = "RUNNABLE"
        /\ Underway(p) /\ img[p] \in Image /\ op[p] \in OpType
    BY Runs
  <1>k. op[p].pc # "fork" => \A q \in Proc \ {p} : Alike(q)
    BY KernelKept, KeptAlike
  <1>n. ASSUME M!MemoryNext
        PROVE  /\ M!LossyNext
               /\ (op[p].pc # "evict" /\ \A v \in VPage : info[p][v].state # "SWAPPED")
                    => M!MemoryNext
    BY <1>n DEF M!LossyNext
  <1>1. CASE EvictFails(p) \/ LoadRemap(p) \/ GrowRemap(p) \/ InitExits(p) \/ AllocAfterEvict(p)
             \/ ExecGuard(p)
    <2>1. /\ state' = state /\ img' = img /\ sz' = sz /\ frame' = frame /\ swap' = swap
          /\ mem' = mem /\ info' = info /\ op[p].pc # "fork"
      BY <1>1, IdleType
      DEF EvictFails, LoadRemap, GrowRemap, InitExits, AllocAfterEvict, ExecGuard, KillSelf
    <2>2. \A w \in VPage : Shown(p, w)' = Shown(p, w)
      BY <2>1 DEF Shown, Mapped
    <2>3. M!MemoryNext
      BY <1>k, <2>1, <2>2, NothingSeen
    <2> QED
      BY <2>3, <1>n
  <1>2. CASE EvictClean(p) \/ EvictDirty(p)
    <2>0. op[p].pc = "evict" /\ state[p] = "RUNNABLE" /\ ~NothingToEvict(p)
      BY <1>2, <1>r DEF EvictClean, EvictDirty
    <2>1. PICK u \in VPage : u = Victim(p) /\ Mapped(p, u) /\ info[p][u].state = "RESIDENT"
      BY <2>0, VictimFacts DEF Inv, Mapped, MappedPages
    <2>a. UnmapAll(p, {u}) /\ {u} \in SUBSET VPage
      BY <1>2, <2>1 DEF EvictClean, EvictDirty
    <2>2. \A w \in VPage \ {u} : Intact(p, w)
      BY <2>a, <2>1, FreeElsewhere
    <2>3. /\ state' = state /\ img' = img /\ sz' = sz /\ ~Mapped(p, u)'
          /\ \A w \in VPage \ {u} : frame'[p][w] = frame[p][w]
      BY <1>2, <2>a, <1>0 DEF EvictClean, EvictDirty, UnmapAll, Mapped, TypeOK
    <2>4. u < sz[p] /\ u # Guard(img[p])
      BY <2>0, <2>1, <1>r DEF Tables, Backed
    <2>5. CASE EvictClean(p)
      <3>1. /\ swap' = swap /\ \A w \in VPage \ {u} : info'[p][w] = info[p][w]
            /\ info'[p][u].state = "UNMAPPED"
        BY <2>1, <2>5, <1>0 DEF EvictClean, TypeOK
      <3>2. Shown(p, u)' = Initial(img[p], u)
        BY <2>3, <2>4, <3>1 DEF Shown, Initial
      <3>3. \A w \in VPage \ {u} : Shown(p, w)' = Shown(p, w)
        BY <2>2, <2>3, <3>1 DEF Shown, Mapped, Intact
      <3>4. /\ Visible(p, u)' = IF LoadedFromExec(img[p], u) THEN img[p] ELSE Zero
            /\ \A w \in VPage \ {u} : Visible(p, w)' = Visible(p, w)
        BY <2>0, <2>3, <3>2, <3>3, See, SeeNext DEF Initial
      <3>5. op'[p].pc = "alloc"
        <4>1. op'[p] = [op[p] EXCEPT !.pc = "alloc"]
          BY <2>5, <1>0 DEF EvictClean, TypeOK
        <4> QED
          BY <2>0, <4>1, <1>r, FaultStep
      <3>6. /\ VisibleProgram(p) = img[p] /\ VisibleProgram(p)' = VisibleProgram(p)
            /\ VisibleMode(p) = "paging" /\ VisibleMode(p)' = "paging"
        BY <2>0, <2>3, <3>5 DEF VisibleProgram, VisibleMode
      <3>7. \A q \in Proc \ {p} : Alike(q)
        BY <2>0, <1>k
      <3>8. M!LossyNext
        BY <3>4, <3>6, <3>7, <1>r, LoseStep
      <3> QED
        BY <2>0, <3>8
    <2>6. CASE EvictDirty(p)
      <3>1. PICK s \in Slot \ slots[p] :
               /\ swap'  = [swap EXCEPT ![p][s] = mem[frame[p][u]]]
               /\ info'  = [info EXCEPT ![p][u] = [@ EXCEPT !.state = "SWAPPED", !.slot = s]]
        BY <2>1, <2>6 DEF EvictDirty, FreeSlots
      <3>2. /\ info'[p][u].state = "SWAPPED" /\ info'[p][u].slot = s
            /\ swap'[p][s] = mem[frame[p][u]]
            /\ \A w \in VPage \ {u} : info'[p][w] = info[p][w]
            /\ \A t \in Slot \ {s} : swap'[p][t] = swap[p][t]
        BY <3>1, <1>0 DEF TypeOK
      <3>3. Shown(p, u)' = Shown(p, u)
        BY <2>1, <2>3, <2>4, <3>2 DEF Shown
      <3>4. ASSUME NEW w \in VPage \ {u} PROVE Shown(p, w)' = Shown(p, w)
        <4>1. info[p][w].state = "SWAPPED" => info[p][w].slot \in Slot \ {s}
          BY <3>1, <1>0 DEF Inv, TypeInv, Books, SlotOwnership, TypeOK
        <4> QED
          BY <2>2, <2>3, <3>2, <4>1 DEF Shown, Mapped, Intact
      <3>5. \A w \in VPage : Shown(p, w)' = Shown(p, w)
        BY <3>3, <3>4
      <3>6. M!MemoryNext
        BY <2>0, <2>3, <3>5, <1>k, NothingSeen
      <3> QED
        BY <3>6, <1>n
    <2> QED
      BY <1>2, <2>5, <2>6
  <1>3. CASE Load(p)
    <2>0. /\ op[p].pc = "load" /\ state[p] = "RUNNABLE" /\ held[p] \in Frame
          /\ op[p].kind = FaultKind(p, op[p].va)
          /\ ~Mapped(p, op[p].va) /\ op[p].va < sz[p] /\ op[p].va # Guard(img[p])
      BY <1>3, <1>0, <1>r DEF Load, Underway, Handling, HeldInHandler, Inv, Tidy, Neat, TypeOK
    <2>1. PICK v \in VPage : v = op[p].va
      BY <2>0, <1>r, OpFields
    <2>2. PICK x : /\ x = CASE FaultKind(p, v) = "swap" -> swap[p][info[p][v].slot]
                            [] FaultKind(p, v) = "exec" -> ExecContent(p, v)
                            [] FaultKind(p, v) = "zero" -> Zero
                   /\ mem' = [mem EXCEPT ![held[p]] = x]
      BY <1>3, <2>0, <2>1 DEF Load
    <2>3. /\ state' = state /\ img' = img /\ sz' = sz /\ swap' = swap
          /\ frame' = [frame EXCEPT ![p][v] = held[p]]
          /\ \A w \in VPage \ {v} : info'[p][w] = info[p][w]
      BY <1>3, <2>1, <1>0 DEF Load, TypeOK
    <2>4. x = Shown(p, v)
      <3>1. CASE info[p][v].state = "SWAPPED"
        BY <2>0, <2>1, <2>2, <3>1 DEF FaultKind, Shown
      <3>2. CASE info[p][v].state # "SWAPPED" /\ LoadedFromExec(img[p], v)
        <4>1. ExecContent(p, v) = Initial(img[p], v)
          BY <2>0, <3>2, Reloaded DEF Reload
        <4> QED
          BY <2>0, <2>1, <2>2, <3>2, <4>1 DEF FaultKind, Shown
      <3>3. CASE info[p][v].state # "SWAPPED" /\ ~LoadedFromExec(img[p], v)
        BY <2>0, <2>1, <2>2, <3>3 DEF FaultKind, Shown, Initial
      <3> QED
        BY <3>1, <3>2, <3>3
    <2>5. \A w \in VPage : Intact(p, w)
      BY <2>0, <2>2, FillHeld, FrameAssumption
    <2>6. Shown(p, v)' = Shown(p, v)
      <3>1. frame'[p][v] = held[p] /\ mem'[held[p]] = x /\ held[p] # NoFrame
        BY <2>0, <2>2, <2>3, <1>0, FrameAssumption DEF TypeOK
      <3> QED
        BY <2>0, <2>1, <2>3, <2>4, <3>1 DEF Shown, Mapped
    <2>7. ASSUME NEW w \in VPage \ {v} PROVE Shown(p, w)' = Shown(p, w)
      <3>1. frame'[p][w] = frame[p][w]
        BY <2>3, <1>0 DEF TypeOK
      <3> QED
        BY <2>3, <2>5, <3>1 DEF Shown, Mapped, Intact
    <2>8. \A w \in VPage : Shown(p, w)' = Shown(p, w)
      BY <2>6, <2>7
    <2>9. M!MemoryNext
      BY <2>0, <2>3, <2>8, <1>k, NothingSeen
    <2> QED
      BY <2>9, <1>n
  <1>4. CASE CopyOutResume(p)
    <2>0. op[p].pc = "copyout" /\ state[p] = "RUNNABLE" /\ Permitted(p, op[p].va, "read")
      BY <1>4, <1>r DEF CopyOutResume, Underway
    <2>1. PICK v \in VPage, x \in Value : v = op[p].va /\ x = op[p].val
      BY <2>0, <1>r, OpFields
    <2>2. /\ UNCHANGED <<state, imageVars, ptVars, pageVars>> /\ op'[p].pc = "user"
          /\ Mapped(p, v) /\ "U" \in perm[p][v]
      BY <1>4, <2>0, <2>1, <1>0, IdleType DEF CopyOutResume, Return, Permitted, TypeOK
    <2>3. \A q \in Proc \ {p} : Alike(q)
      BY <2>0, <1>k
    <2>4. CASE "W" \in perm[p][v] /\ mem' = [mem EXCEPT ![frame[p][v]] = x]
      <3>1. M!MemoryNext
        BY <2>0, <2>2, <2>3, <2>4, OneWrite
      <3> QED
        BY <3>1, <1>n
    <2>5. CASE mem' = mem
      <3>1. \A w \in VPage : Shown(p, w)' = Shown(p, w)
        BY <2>2, <2>5 DEF Shown, Mapped
      <3>2. M!MemoryNext
        BY <2>2, <2>3, <3>1, NothingSeen
      <3> QED
        BY <3>2, <1>n
    <2> QED
      BY <1>4, <2>1, <2>4, <2>5 DEF CopyOutResume, CopyTo
  <1>5. CASE ForkCopyPage(p) \/ ForkFails(p) \/ ForkDone(p)
    <2>0. op[p].pc = "fork" /\ state[p] = "RUNNABLE"
      BY <1>5, <1>r DEF ForkCopyPage, ForkFails, ForkDone
    <2>1. PICK c \in Proc : c = op[p].child
      BY <2>0, <1>r, OpFields
    <2>2. /\ state[c] = "USED" /\ op[c].pc = "user" /\ c # p
          /\ \A v \in VPage : Mapped(c, v) =>
               Mapped(p, v) /\ mem[frame[c][v]] = mem[frame[p][v]]
      BY <2>0, <2>1, <1>r DEF Inv, TypeInv, ChildReserved, Tidy, Neat, Underway
    <2>3. \A q \in Proc \ {p, c} : Alike(q)
      BY <2>1, KernelKept, KeptAlike
    <2>4. CASE ForkCopyPage(p) \/ ForkFails(p)
      <3>1. state'[c] # "RUNNABLE" /\ op'[c] = op[c]
        BY <2>0, <2>1, <2>2, <2>4, <1>0 DEF ForkCopyPage, ForkFails, FreeProc, Return, TypeOK
      <3>2. \A q \in Proc \ {p} : Alike(q)
        BY <2>2, <2>3, <3>1, EmptyAlike
      <3>3. /\ state'[p] = state[p] /\ img' = img /\ sz' = sz /\ frame'[p] = frame[p]
            /\ info' = info /\ swap' = swap
        BY <2>1, <2>2, <2>4, <1>0 DEF ForkCopyPage, ForkFails, FreeProc, UnmapAll, TypeOK
      <3>4. \A w \in VPage : Intact(p, w)
        <4>1. CASE ForkCopyPage(p)
          <5>1. \E x : \E f \in free : mem' = [mem EXCEPT ![f] = x]
            BY <4>1 DEF ForkCopyPage
          <5> QED
            BY <5>1, FillElsewhere
        <4>2. CASE ForkFails(p)
          <5>1. /\ UnmapAll(c, MappedPages(c)) /\ MappedPages(c) \in SUBSET VPage
                /\ \A v \in MappedPages(c) : Mapped(c, v)
            BY <2>1, <4>2 DEF ForkFails, FreeProc, MappedPages
          <5> QED
            BY <2>2, <5>1, FreeElsewhere
        <4> QED
          BY <2>4, <4>1, <4>2
      <3>5. \A w \in VPage : Shown(p, w)' = Shown(p, w)
        BY <3>3, <3>4 DEF Shown, Mapped, Intact
      <3>6. M!MemoryNext
        BY <3>2, <3>3, <3>5, NothingSeen
      <3> QED
        BY <3>6, <1>n
    <2>5. CASE ForkDone(p)
      <3>1. /\ state' = [state EXCEPT ![c] = "RUNNABLE"] /\ img' = [img EXCEPT ![c] = img[p]]
            /\ sz' = [sz EXCEPT ![c] = sz[p]] /\ frame' = frame /\ mem' = mem /\ swap' = swap
            /\ info' = [info EXCEPT ![c] = [v \in VPage |-> ChildInfo(info[p][v])]]
            /\ op' = [op EXCEPT ![p] = Idle] /\ ToCopy(p, c) = {}
        BY <2>1, <2>5 DEF ForkDone, Return
      <3>2. /\ state'[p] = "RUNNABLE" /\ img'[p] = img[p] /\ sz'[p] = sz[p] /\ info'[p] = info[p]
            /\ state'[c] = "RUNNABLE" /\ img'[c] = img[p] /\ sz'[c] = sz[p]
            /\ \A v \in VPage : info'[c][v].state # "SWAPPED"
            /\ op'[p].pc = "user" /\ op'[c] = op[c]
        <4>1. \A v \in VPage : info[p][v] \in Entry /\ info'[c][v] = ChildInfo(info[p][v])
          BY <3>1, <1>0 DEF TypeOK, Entry
        <4>2. \A v \in VPage : info'[c][v].state # "SWAPPED"
          BY <4>1, ChildEntry
        <4> QED
          BY <2>0, <2>2, <3>1, <4>2, <1>0, IdleType DEF TypeOK
      <3>3. \A v \in VPage : Shown(p, v)' = Shown(p, v)
        BY <3>1, <3>2 DEF Shown, Mapped
      <3>4. ASSUME NEW v \in VPage
            PROVE  \/ Shown(c, v)' = Shown(p, v)
                   \/ Shown(c, v)' = Initial(img[p], v) /\ info[p][v].state = "SWAPPED"
        <4>1. CASE ~(v < sz[p] /\ v # Guard(img[p]))
          BY <3>2, <4>1 DEF Shown
        <4>2. CASE v < sz[p] /\ v # Guard(img[p]) /\ Mapped(c, v)
          BY <3>1, <3>2, <4>2, <2>2 DEF Shown, Mapped
        <4>3. CASE v < sz[p] /\ v # Guard(img[p]) /\ ~Mapped(c, v)
          <5>1. ~Mapped(p, v)
            BY <3>1, <4>3 DEF ToCopy
          <5>2. Shown(c, v)' = Initial(img[p], v)
            BY <3>1, <3>2, <4>3 DEF Shown, Mapped, Initial
          <5>3. Shown(p, v) = IF info[p][v].state = "SWAPPED" THEN swap[p][info[p][v].slot]
                              ELSE Initial(img[p], v)
            BY <4>3, <5>1 DEF Shown
          <5> QED
            BY <5>2, <5>3
        <4> QED
          BY <4>1, <4>2, <4>3
      <3>5. /\ \A v \in VPage : Visible(p, v)' = Visible(p, v)
            /\ \A v \in VPage : \/ Visible(c, v)' = Visible(p, v)
                                \/ Visible(c, v)' = Initial(img[p], v)
                                   /\ info[p][v].state = "SWAPPED"
        BY <2>0, <3>2, <3>3, <3>4, See, SeeNext
      <3>6. /\ VisibleProgram(p) = img[p] /\ VisibleProgram(c) = Zero
            /\ VisibleMode(p) = "fork" /\ VisibleMode(p)' = "user"
            /\ VisibleMode(c)' = VisibleMode(c)
            /\ VisibleProgram(p)' = VisibleProgram(p) /\ VisibleProgram(c)' = VisibleProgram(p)
        BY <2>0, <2>2, <3>2 DEF VisibleProgram, VisibleMode
      <3>7. \A v \in VPage : \/ Visible(c, v)' = Visible(p, v)
                             \/ Visible(c, v)' = IF LoadedFromExec(img[p], v) THEN img[p] ELSE Zero
        BY <3>5 DEF Initial
      <3>8. /\ M!LossyNext
            /\ (\A v \in VPage : Visible(c, v)' = Visible(p, v)) => M!MemoryNext
        BY <2>2, <2>3, <3>5, <3>6, <3>7, <1>r, CloneStep
      <3> QED
        BY <3>5, <3>8
    <2> QED
      BY <1>5, <2>4, <2>5
  <1>6. CASE ExecFails(p)
    <2>0. op[p].pc = "execstack" /\ state[p] = "RUNNABLE" /\ held[p] # NoFrame
      BY <1>6, <1>0, <1>r DEF ExecFails, HeldInHandler
    <2>1. /\ state' = state /\ img' = img /\ sz' = sz /\ frame' = frame /\ swap' = swap /\ info' = info
          /\ mem' = [mem EXCEPT ![held[p]] = Junk]
      BY <1>6, <1>0 DEF ExecFails, Kfree, Freed, TypeOK
    <2>2. \A w \in VPage : Intact(p, w)
      BY <2>0, <2>1, FillHeld
    <2>3. \A w \in VPage : Shown(p, w)' = Shown(p, w)
      BY <2>1, <2>2 DEF Shown, Mapped, Intact
    <2>4. M!MemoryNext
      BY <2>0, <2>1, <2>3, <1>k, NothingSeen
    <2> QED
      BY <2>4, <1>n
  <1>7. CASE ExecCommit(p)
    <2>0. op[p].pc = "execstack" /\ state[p] = "RUNNABLE" /\ held[p] \in Frame
      BY <1>7, <1>0, <1>r DEF ExecCommit, HeldInHandler, TypeOK
    <2>1. PICK i \in Image : i = op[p].img
      BY <2>0, <1>r, OpFields
    <2>2. PICK f \in free :
            /\ mem'  = [Freed(FramesOf(p)) EXCEPT ![f] = Zero, ![held[p]] = Zero]
            /\ frame' = [frame EXCEPT ![p] = [NoMap EXCEPT ![Guard(i)] = held[p],
                                                           ![StackPage(i)] = f]]
      BY <1>7, <2>1 DEF ExecCommit
    <2>3. /\ op'[p] = Idle /\ img'[p] = i /\ state' = state /\ sz'[p] = StackTop(i)
          /\ info'[p] = [NoInfo EXCEPT ![StackPage(i)] = Resident]
      BY <1>7, <2>1, <1>0 DEF ExecCommit, Return, TypeOK
    <2>4. Guard(i) \in VPage /\ StackPage(i) \in VPage /\ Guard(i) # StackPage(i)
      BY Layout
    <2>5. /\ frame'[p][StackPage(i)] = f /\ mem'[f] = Zero /\ f \in Frame
          /\ \A v \in VPage \ {Guard(i), StackPage(i)} : frame'[p][v] = NoFrame
          /\ \A v \in VPage : info'[p][v].state # "SWAPPED"
      <3>1. frame'[p] = [NoMap EXCEPT ![Guard(i)] = held[p], ![StackPage(i)] = f]
        BY <2>2, <1>0 DEF TypeOK
      <3>2. f \in Frame /\ mem'[f] = Zero
        BY <2>0, <2>2, <1>0 DEF Freed, TypeOK
      <3>3. \A v \in VPage : info'[p][v].state # "SWAPPED"
        BY <2>3, <2>4 DEF NoInfo, Untracked, Resident
      <3> QED
        BY <3>1, <3>2, <3>3, <2>4 DEF NoMap
    <2>6. ASSUME NEW v \in VPage PROVE Shown(p, v)' = Initial(i, v)
      <3>0. v \in Int /\ 0 <= v
        BY DEF VPage
      <3>1. CASE v = StackPage(i)
        <4>1. Shown(p, v)' = Zero
          BY <2>3, <2>5, <3>1, FrameAssumption DEF Shown, Mapped
        <4>2. ~LoadedFromExec(i, v)
          BY <3>1, Pages DEF LoadedFromExec
        <4> QED
          BY <4>1, <4>2 DEF Initial
      <3>2. CASE v = Guard(i)
        <4>1. Shown(p, v)' = Zero
          BY <2>3, <3>2 DEF Shown
        <4>2. ~LoadedFromExec(i, v)
          BY <3>2, Pages DEF LoadedFromExec
        <4> QED
          BY <4>1, <4>2 DEF Initial
      <3>3. CASE v # StackPage(i) /\ v # Guard(i)
        <4>1. ~Mapped(p, v)'
          BY <2>5, <3>3 DEF Mapped
        <4>2. LoadedFromExec(i, v) => v < StackTop(i)
          BY <3>0, Pages DEF LoadedFromExec
        <4> QED
          BY <2>3, <2>5, <3>3, <4>1, <4>2 DEF Shown, Initial
      <3> QED
        BY <3>1, <3>2, <3>3
    <2>7. \A v \in VPage : Visible(p, v)' = IF LoadedFromExec(i, v) THEN i ELSE Zero
      BY <2>0, <2>3, <2>6, SeeNext DEF Initial
    <2>8. /\ VisibleProgram(p) \in Image /\ VisibleMode(p) = "exec"
          /\ VisibleProgram(p)' = i /\ VisibleMode(p)' = "user"
      BY <2>0, <2>3, <1>r, IdleType DEF VisibleProgram, VisibleMode
    <2>9. M!MemoryNext
      BY <2>0, <2>7, <2>8, <1>k, ReplaceStep
    <2> QED
      BY <2>9, <1>n
  <1>8. CASE GrowPage(p)
    <2>0. op[p].pc = "grow" /\ state[p] = "RUNNABLE" /\ op[p].at < op[p].to /\ ~Mapped(p, op[p].at)
      BY <1>8, <1>r DEF GrowPage
    <2>1. PICK v \in VPage : v = op[p].at
      BY <2>0, <1>r, GrowStep
    <2>2. PICK f \in free : mem' = [mem EXCEPT ![f] = Zero] /\ frame' = [frame EXCEPT ![p][v] = f]
      BY <1>8, <2>1 DEF GrowPage
    <2>3. /\ state' = state /\ img' = img /\ info' = info /\ sz' = sz /\ swap' = swap
          /\ \A w \in VPage \ {v} : frame'[p][w] = frame[p][w]
      BY <1>8, <2>2, <1>0 DEF GrowPage, TypeOK
    <2>4. \A w \in VPage : Intact(p, w)
      BY <2>2, FillElsewhere
    <2>5. ~(v < sz[p])
      BY <2>0, <2>1, <1>0, <1>r DEF Tables, Limit, TypeOK, VPage
    <2>6. ASSUME NEW w \in VPage PROVE Shown(p, w)' = Shown(p, w)
      <3>1. CASE w = v
        BY <2>3, <2>5, <3>1 DEF Shown
      <3>2. CASE w # v
        BY <2>3, <2>4, <3>2 DEF Shown, Mapped, Intact
      <3> QED
        BY <3>1, <3>2
    <2>7. M!MemoryNext
      BY <2>0, <2>3, <2>6, <1>k, NothingSeen
    <2> QED
      BY <2>7, <1>n
  <1>9. CASE GrowFails(p)
    <2>0. op[p].pc = "grow" /\ state[p] = "RUNNABLE"
      BY <1>9, <1>r DEF GrowFails
    <2>1. PICK vs \in SUBSET VPage : /\ UnmapAll(p, vs) /\ \A v \in vs : Mapped(p, v) /\ sz[p] <= v
      <3>1. UnmapAll(p, Dealloc(p, sz[p], op[p].at))
        BY <1>9 DEF GrowFails
      <3> QED
        BY <3>1 DEF Dealloc
    <2>2. /\ state' = state /\ img' = img /\ info' = info /\ sz' = sz /\ swap' = swap
          /\ \A w \in VPage \ vs : frame'[p][w] = frame[p][w]
      BY <1>9, <2>1, <1>0 DEF GrowFails, UnmapAll, TypeOK
    <2>3. \A w \in VPage \ vs : Intact(p, w)
      BY <2>1, FreeElsewhere
    <2>4. ASSUME NEW w \in VPage PROVE Shown(p, w)' = Shown(p, w)
      <3>1. CASE w \in vs
        <4>1. ~(w < sz[p])
          BY <2>1, <3>1, <1>0 DEF TypeOK, VPage
        <4> QED
          BY <2>2, <4>1 DEF Shown
      <3>2. CASE w \notin vs
        BY <2>2, <2>3, <3>2 DEF Shown, Mapped, Intact
      <3> QED
        BY <3>1, <3>2
    <2>5. M!MemoryNext
      BY <2>0, <2>2, <2>4, <1>k, NothingSeen
    <2> QED
      BY <2>5, <1>n
  <1>10. CASE GrowDone(p)
    <2>0. /\ op[p].pc = "grow" /\ state[p] = "RUNNABLE" /\ op[p].at = op[p].to
          /\ \A v \in VPage : Mapped(p, v) /\ sz[p] <= v => mem[frame[p][v]] = Zero
      BY <1>10, <1>r DEF GrowDone, Underway
    <2>1. /\ state' = state /\ img' = img /\ info' = info /\ swap' = swap /\ frame' = frame
          /\ mem' = mem /\ sz'[p] = op[p].at
      BY <1>10, <2>0, <1>0 DEF GrowDone, TypeOK
    <2>2. /\ sz[p] \in Int /\ op[p].at \in Int /\ sz[p] <= op[p].at
          /\ StackTop(img[p]) <= sz[p]
      BY <2>0, <1>0, <1>r, OpFields DEF Tables, Limit, TypeOK
    <2>3. ASSUME NEW w \in VPage PROVE Shown(p, w)' = Shown(p, w)
      <3>0. w \in Int
        BY DEF VPage
      <3>1. CASE w < sz[p]
        <4>1. w < op[p].at
          BY <3>0, <3>1, <2>2
        <4> QED
          BY <2>1, <3>1, <4>1 DEF Shown, Mapped
      <3>2. CASE ~(w < sz[p])
        <4>1. sz[p] <= w /\ StackTop(img[p]) <= w
          BY <3>0, <3>2, <2>2, <1>r, Pages
        <4>2. info[p][w].state # "SWAPPED"
          BY <2>0, <3>2, <1>r DEF Tables
        <4>3. ~LoadedFromExec(img[p], w)
          BY <4>1, <3>0, <1>r, Pages DEF LoadedFromExec
        <4>4. Shown(p, w) = Zero
          BY <3>2 DEF Shown
        <4>5. Shown(p, w)' = Zero
          BY <2>0, <2>1, <4>1, <4>2, <4>3 DEF Shown, Mapped, Initial
        <4> QED
          BY <4>4, <4>5
      <3> QED
        BY <3>1, <3>2
    <2>4. M!MemoryNext
      BY <2>0, <2>1, <2>3, <1>k, NothingSeen
    <2> QED
      BY <2>4, <1>n
  <1>11. CASE Exit(p)
    <2>0. op[p].pc = "user" /\ op' = op /\ state'[p] = "ZOMBIE"
      BY <1>11, <1>0, IdleType DEF Exit, TypeOK
    <2>1. \A v \in VPage : Visible(p, v)' = Zero
      BY <2>0, SeeNext
    <2>2. VisibleProgram(p)' = Zero /\ VisibleMode(p)' = VisibleMode(p)
      BY <2>0 DEF VisibleProgram, VisibleMode
    <2>3. M!MemoryNext
      BY <2>0, <2>1, <2>2, <1>k, VanishStep
    <2> QED
      BY <2>3, <1>n
  <1> QED
    BY <1>1, <1>2, <1>3, <1>4, <1>5, <1>6, <1>7, <1>8, <1>9, <1>10, <1>11 DEF KernelStep

-----------------------------------------------------------------------------
(* The behaviours.                                                          *)

\* All of it together, whatever the processes do.
LEMMA Invariant ==
  ASSUME "shrink" \notin Calls, "badexec" \notin Calls, "exec" \notin Accesses,
         "exec" \in Calls => OneProgram
  PROVE  Spec => []Inv
  <1>1. Inv /\ [Next]_vars => Faithful'
    BY FaithfulStep
  <1> DEFINE Base == TypeInv /\ Owned /\ Tidy
  <1>2. Spec => []Base
    BY TidyInvariant, OwnedInvariant, PTL
  <1>3. Base /\ Faithful <=> Inv
    BY DEF Inv
  <1> HIDE DEF Base
  <1> QED
    BY <1>1, <1>2, <1>3, InitFaithful, PTL DEF Spec

\* /init starts with the bytes of its executable, a zero stack and nothing else.
LEMMA InitMemory == Init => M!MemoryInit
  <1> SUFFICES ASSUME Init PROVE M!MemoryInit
    OBVIOUS
  <1> DEFINE g == Guard(InitImage)
             t == StackPage(InitImage)
  <1>0. Inv
    BY InitTypes, InitOwned, TidyInit, InitFaithful DEF Inv
  <1>1. InitImage \in Image /\ g \in VPage /\ t \in VPage /\ g # t
    BY ImageAssumption, Layout
  <1>2. InitProc \in Proc
    BY ProcAssumption
  <1>3. ASSUME NEW v \in VPage
        PROVE  Shown(InitProc, v) = Initial(InitImage, v)
    <2>1. PICK a \in Frame, b \in Frame :
            /\ frame[InitProc] = [NoMap EXCEPT ![g] = a, ![t] = b]
            /\ mem = [h \in Frame |-> IF h \in {a, b} THEN Zero ELSE Junk]
      BY <1>2 DEF Init
    <2>2. /\ img[InitProc] = InitImage /\ sz[InitProc] = StackTop(InitImage)
          /\ info[InitProc] = [NoInfo EXCEPT ![t] = Resident]
      BY <1>2 DEF Init
    <2>3. info[InitProc][v].state # "SWAPPED"
      BY <2>2, <1>1 DEF NoInfo, Untracked, Resident
    <2> HIDE DEF g, t
    <2>4. CASE v = t
      <3>1. frame[InitProc][v] = b /\ mem[b] = Zero
        BY <2>1, <2>4, <1>1 DEF NoMap
      <3>2. ~LoadedFromExec(InitImage, v)
        BY <2>4, <1>1, Pages DEF LoadedFromExec, t
      <3>3. b # NoFrame
        BY FrameAssumption
      <3> QED
        BY <3>1, <3>2, <3>3 DEF Shown, Mapped, Initial
    <2>5. CASE v # t /\ v = g
      <3>1. ~LoadedFromExec(InitImage, v)
        BY <2>5, <1>1, Pages DEF LoadedFromExec, g
      <3> QED
        BY <3>1, <2>2, <2>5 DEF Shown, Initial, g
    <2>6. CASE v # t /\ v # g
      <3>1. frame[InitProc][v] = NoFrame
        BY <2>1, <2>6, <1>1 DEF NoMap
      <3>2. ~(v < sz[InitProc]) => ~LoadedFromExec(InitImage, v)
        BY <2>2, <1>1, Pages DEF LoadedFromExec
      <3> QED
        BY <3>1, <3>2, <2>2, <2>3, <2>6 DEF Shown, Mapped, Initial, g
    <2> QED
      BY <2>4, <2>5, <2>6
  <1>4. /\ state = [p \in Proc |-> IF p = InitProc THEN "RUNNABLE" ELSE "UNUSED"]
        /\ img = [p \in Proc |-> InitImage] /\ op = [p \in Proc |-> Idle]
    BY DEF Init
  <1>5. \A p \in Proc : \A v \in VPage :
           Visible(p, v) = IF p = InitProc THEN Initial(InitImage, v) ELSE Zero
    BY <1>0, <1>3, <1>4, See
  <1>6. \A p \in Proc : /\ VisibleProgram(p) = IF p = InitProc THEN InitImage ELSE Zero
                        /\ VisibleMode(p) = "user"
    BY <1>4 DEF VisibleProgram, VisibleMode, Idle
  <1>7. \A p \in Proc : [v \in VPage |-> Visible(p, v)]
                          = IF p = InitProc THEN M!Fresh(InitImage) ELSE M!Nothing
    BY <1>5 DEF M!Fresh, M!Nothing, Initial
  <1> QED
    BY <1>6, <1>7 DEF M!MemoryInit

\* A step of Paging that moves nothing moves nothing that is seen.
LEMMA Stutter == UNCHANGED vars => UNCHANGED M!memoryVars
  <1> SUFFICES ASSUME UNCHANGED vars PROVE UNCHANGED M!memoryVars
    OBVIOUS
  <1>1. \A q \in Proc : Kept(q)
    BY SameIntact DEF Kept, vars, procVars, imageVars, ptVars, pageVars, memVars
  <1>2. \A q \in Proc : Alike(q)
    BY <1>1, KeptAlike
  <1> QED
    BY <1>2 DEF M!memoryVars, Alike

\* Whatever is evicted, swapped, forked, loaded again or refused, and however
\* the processes' faults interleave (handle_page_fault, kfork, kexec, sbrk,
\* kexit, kwait), a page shows its owner's last write or the bytes it started
\* with; it never shows a stale, a foreign or a junk page, and no step of one
\* process changes what another one reads.
THEOREM PagingIsLossyMemory ==
  ASSUME "shrink" \notin Calls, "badexec" \notin Calls, "exec" \notin Accesses,
         "exec" \in Calls => OneProgram
  PROVE  Spec => ImplementsLossyMemory
  <1>1. Inv /\ Inv' /\ [Next]_vars => [M!LossyNext]_(M!memoryVars)
    <2> SUFFICES ASSUME Inv, Inv', [Next]_vars, ~UNCHANGED vars
                 PROVE  M!LossyNext
      BY Stutter
    <2>1. Accesses \subseteq {"read", "write"}
      BY InputAssumption
    <2>2. PICK p \in Proc : UserStep(p) \/ KernelStep(p) \/ Exit(p) \/ InitExits(p)
      BY DEF Next
    <2>3. CASE UserStep(p)
      BY <2>1, <2>3, UserMemory DEF M!LossyNext
    <2>4. CASE KernelStep(p) \/ Exit(p) \/ InitExits(p)
      BY <2>4, KernelMemory
    <2> QED
      BY <2>2, <2>3, <2>4
  <1> QED
    BY <1>1, Invariant, InitMemory, PTL DEF Spec, ImplementsLossyMemory, M!LossySpec

-----------------------------------------------------------------------------
(* Nothing is lost while nobody evicts.                                     *)

Unevicting == \A p \in Proc : op[p].pc # "evict"
NoneSwapped == \A p \in Proc : \A v \in VPage : info[p][v].state # "SWAPPED"

\* Only an eviction makes a page SWAPPED; a child starts with none.
LEMMA NoneSwappedStep ==
  ASSUME TypeOK, NoneSwapped, Unevicting, [Next]_vars
  PROVE  NoneSwapped'
  <1> USE DEF NoneSwapped, vars, procVars, imageVars, ptVars, pageVars, memVars, TypeOK
  <1>1. CASE UNCHANGED vars
    BY <1>1
  <1>2. CASE Next
    <2>0. PICK p \in Proc : UserStep(p) \/ KernelStep(p) \/ Exit(p) \/ InitExits(p)
      BY <1>2 DEF Next
    <2>1. ASSUME NEW v \in VPage, NEW access, NEW u, NEW x, HandlePageFault(p, v, access, u, x)
          PROVE  NoneSwapped'
      <3>1. CASE FirstWrite(p, v, access)
        BY <3>1 DEF FirstWrite
      <3>2. CASE FaultAlloc(p, v, access, x)
        BY <3>2 DEF FaultAlloc, Unmapped
      <3> QED
        BY <2>1, <3>1, <3>2 DEF HandlePageFault, RefuseFault, FaultUntrackable
    <2>2. CASE UserStep(p)
      <3>1. ASSUME NEW c \in Proc, Wait(p, c) PROVE NoneSwapped'
        BY <3>1 DEF Wait, NoInfo, Untracked
      <3> QED
        BY <2>2, <2>1, <3>1
           DEF UserStep, Store, CopyOut, UserFault, KernelFault, ForkStart, ExecParse,
               ExecBadHeader, SbrkLazy, SbrkEager, SbrkShrink, Kill
    <2>3. CASE KernelStep(p) \/ Exit(p) \/ InitExits(p)
      <3>1. CASE Load(p)
        <4> DEFINE e == IF op[p].kind = "swap" THEN Resident
                        ELSE [info[p][op[p].va] EXCEPT !.state = "RESIDENT", !.dirty = FALSE]
        <4>1. info' = [info EXCEPT ![p][op[p].va] = e]
          BY <3>1 DEF Load
        <4>2. e.state = "RESIDENT"
          BY DEF Resident
        <4> HIDE DEF e
        <4>3. \A q \in Proc : \A v \in VPage : info'[q][v] \in {info[q][v], e}
          BY <4>1
        <4> QED
          BY <4>2, <4>3
      <3>2. CASE ForkDone(p)
        <4> DEFINE c == op[p].child
        <4>1. info' = [info EXCEPT ![c] = [v \in VPage |-> ChildInfo(info[p][v])]]
          BY <3>2 DEF ForkDone
        <4>2. \A v \in VPage : ChildInfo(info[p][v]).state # "SWAPPED"
          BY DEF ChildInfo
        <4> HIDE DEF c
        <4>3. \A q \in Proc : \A v \in VPage :
                info'[q][v] = info[q][v] \/ info'[q][v] = ChildInfo(info[p][v])
          BY <4>1
        <4> QED
          BY <4>2, <4>3
      <3>3. CASE ExecCommit(p)
        BY <3>3 DEF ExecCommit, NoInfo, Untracked, Resident
      <3>4. ~EvictClean(p) /\ ~EvictDirty(p) /\ ~EvictFails(p)
        BY DEF Unevicting, EvictClean, EvictDirty, EvictFails
      <3> QED
        BY <2>3, <3>1, <3>2, <3>3, <3>4
           DEF KernelStep, AllocAfterEvict, LoadRemap, CopyOutResume, ForkCopyPage, ForkFails,
               ExecGuard, ExecFails, GrowPage, GrowRemap, GrowFails, GrowDone, Exit, InitExits
    <2> QED
      BY <2>0, <2>2, <2>3
  <1> QED
    BY <1>1, <1>2

\* As long as no fault has to evict, paging cannot be told from a memory that
\* keeps every write: copy-on-fork, lazy allocation, loading on demand, exec and
\* a kalloc that fails half way through a call are all invisible.
THEOREM PagingIsMemory ==
  ASSUME "shrink" \notin Calls, "badexec" \notin Calls, "exec" \notin Accesses,
         "exec" \in Calls => OneProgram
  PROVE  Spec /\ []Unevicting => ImplementsMemory
  <1>1. Inv /\ Inv' /\ Unevicting /\ NoneSwapped /\ [Next]_vars
          => [M!MemoryNext]_(M!memoryVars)
    <2> SUFFICES ASSUME Inv, Inv', Unevicting, NoneSwapped, [Next]_vars, ~UNCHANGED vars
                 PROVE  M!MemoryNext
      BY Stutter
    <2>1. Accesses \subseteq {"read", "write"}
      BY InputAssumption
    <2>2. PICK p \in Proc : UserStep(p) \/ KernelStep(p) \/ Exit(p) \/ InitExits(p)
      BY DEF Next
    <2>3. CASE UserStep(p)
      BY <2>1, <2>3, UserMemory
    <2>4. CASE KernelStep(p) \/ Exit(p) \/ InitExits(p)
      <3>1. op[p].pc # "evict" /\ \A v \in VPage : info[p][v].state # "SWAPPED"
        BY DEF Unevicting, NoneSwapped
      <3> QED
        BY <2>4, <3>1, KernelMemory
    <2> QED
      BY <2>2, <2>3, <2>4
  <1>2. Init => NoneSwapped
    BY DEF Init, NoneSwapped, NoInfo, Untracked, Resident
  <1>3. Inv => TypeOK
    BY DEF Inv, TypeInv
  <1>4. Inv /\ NoneSwapped /\ Unevicting /\ [Next]_vars => NoneSwapped'
    BY <1>3, NoneSwappedStep
  <1> QED
    BY <1>1, <1>2, <1>4, Invariant, InitMemory, PTL DEF Spec, ImplementsMemory, M!MemorySpec

-----------------------------------------------------------------------------
(* Enough frames for everyone.                                              *)

\* A process has at most its pages' frames and the one in its hands.
LEMMA FreeFrames ==
  ASSUME Owned, IsFiniteSet(Proc), IsFiniteSet(Frame),
         Cardinality(Frame) > Cardinality(Proc) * (MaxVPage + 2)
  PROVE  free # {}
  <1> SUFFICES ASSUME free = {} PROVE FALSE
    OBVIOUS
  <1> DEFINE Place == -1..MaxVPage
             D == Proc \X Place
             At(d) == IF d[2] = -1 THEN held[d[1]] ELSE frame[d[1]][d[2]]
             U == {d \in D : At(d) \in Frame}
             place == [d \in U |-> At(d)]
  <1>1. MaxVPage \in Nat
    BY ImageAssumption
  <1>2. IsFiniteSet(Place) /\ Cardinality(Place) = MaxVPage + 2
    BY <1>1, FS_Interval
  <1>3. IsFiniteSet(D) /\ Cardinality(D) = Cardinality(Proc) * (MaxVPage + 2)
    BY <1>2, FS_Product
  <1>4. IsFiniteSet(U) /\ Cardinality(U) <= Cardinality(D)
    BY <1>3, FS_Subset
  <1>5. \A f \in Frame : \E d \in U : At(d) = f
    <2> SUFFICES ASSUME NEW f \in Frame PROVE \E d \in D : At(d) = f
      OBVIOUS
    <2>1. PICK p \in Proc : held[p] = f \/ f \in FramesOf(p)
      BY DEF Owned, FrameOwnership, NoFrameLost
    <2>2. CASE held[p] = f
      <3>1. <<p, -1>> \in D /\ At(<<p, -1>>) = f
        BY <1>1, <2>2
      <3> QED
        BY <3>1
    <2>3. CASE f \in FramesOf(p)
      <3>1. PICK v \in VPage : frame[p][v] = f
        BY <2>3 DEF FramesOf, MappedPages
      <3>2. <<p, v>> \in D /\ At(<<p, v>>) = f
        BY <1>1, <3>1 DEF VPage
      <3> QED
        BY <3>2
    <2> QED
      BY <2>1, <2>2, <2>3
  <1>6. place \in Surjection(U, Frame)
    BY <1>5 DEF Surjection
  <1>7. Cardinality(Frame) <= Cardinality(U)
    BY <1>4, <1>6, FS_Surjection
  <1>8. Cardinality(Frame) \in Nat /\ Cardinality(U) \in Nat /\ Cardinality(D) \in Nat
    BY <1>3, <1>4, FS_CardinalityType
  <1> QED
    BY <1>3, <1>4, <1>7, <1>8

\* With a frame for every page a process can have and one in the hands of each,
\* kalloc in the handler always succeeds, so nobody evicts.
LEMMA NobodyEvicts ==
  ASSUME IsFiniteSet(Proc), IsFiniteSet(Frame),
         Cardinality(Frame) > Cardinality(Proc) * (MaxVPage + 2)
  PROVE  Spec => []Unevicting
  <1>1. TypeOK /\ Owned /\ Unevicting /\ [Next]_vars => Unevicting'
    <2> SUFFICES ASSUME TypeOK, Owned, Unevicting, [Next]_vars PROVE Unevicting'
      OBVIOUS
    <2> USE DEF Unevicting, vars, procVars, imageVars, ptVars, pageVars, memVars, TypeOK
    <2>0. free # {}
      BY FreeFrames
    <2>1. CASE UNCHANGED vars
      BY <2>1
    <2>2. CASE Next
      <3>0. PICK p \in Proc : UserStep(p) \/ KernelStep(p) \/ Exit(p) \/ InitExits(p)
        BY <2>2 DEF Next
      <3>1. op' = op \/ \E o : op' = [op EXCEPT ![p] = o] /\ o.pc # "evict"
        <4>1. ASSUME NEW v \in VPage, NEW access, NEW u, NEW x,
                     HandlePageFault(p, v, access, u, x)
              PROVE  op' = op \/ \E o : op' = [op EXCEPT ![p] = o] /\ o.pc # "evict"
          BY <4>1, <2>0 DEF HandlePageFault, RefuseFault, FirstWrite, FaultUntrackable,
                            FaultAlloc, KillSelf, Return, Idle, FaultAt
        <4>2. CASE UserStep(p)
          <5>1. CASE \E v \in VPage, access \in Accesses : UserFault(p, v, access)
            BY <5>1, <4>1 DEF UserFault
          <5>2. CASE \E v \in VPage, x \in Value \cup {NoValue} : KernelFault(p, v, x)
            BY <5>2, <4>1 DEF KernelFault
          <5>3. CASE \E c \in Proc : ForkStart(p, c) \/ Wait(p, c)
            BY <5>3 DEF ForkStart, Wait, ForkOf
          <5>4. CASE \E i \in Image : ExecParse(p, i)
            <6>1. PICK i \in Image : op' = [op EXCEPT ![p] = ExecOf("execguard", i)]
              BY <5>4 DEF ExecParse
            <6>2. ExecOf("execguard", i).pc # "evict"
              BY DEF ExecOf
            <6> QED
              BY <6>1, <6>2
          <5>5. CASE \E n \in 1..(MaxVPage + 1) :
                       SbrkLazy(p, n) \/ SbrkEager(p, n) \/ SbrkShrink(p, n)
            BY <5>5 DEF SbrkLazy, SbrkEager, SbrkShrink, GrowTo
          <5> QED
            BY <4>2, <5>1, <5>2, <5>3, <5>4, <5>5
               DEF UserStep, Store, CopyOut, ExecBadHeader, Kill
        <4>3. CASE KernelStep(p) \/ Exit(p) \/ InitExits(p)
          <5>1. op[p].pc # "evict" /\ op[p] \in OpType
            OBVIOUS
          <5>2. ASSUME Return(p) PROVE \E o : op' = [op EXCEPT ![p] = o] /\ o.pc # "evict"
            <6>1. op' = [op EXCEPT ![p] = Idle] /\ Idle.pc # "evict"
              BY <5>2 DEF Return, Idle
            <6> QED
              BY <6>1
          <5>3. CASE AllocAfterEvict(p)
            <6>1. CASE op' = [op EXCEPT ![p].pc = "load"] /\ op[p].pc = "alloc"
              <7> DEFINE o == [op[p] EXCEPT !.pc = "load"]
              <7>1. op' = [op EXCEPT ![p] = o] /\ o.pc = "load"
                BY <6>1, <5>1 DEF OpType
              <7> QED
                BY <7>1
            <6> QED
              BY <5>3, <5>2, <6>1 DEF AllocAfterEvict, KillSelf
          <5>4. CASE Load(p)
            <6> DEFINE o == IF op[p].val = NoValue THEN Idle ELSE [op[p] EXCEPT !.pc = "copyout"]
            <6>1. op' = [op EXCEPT ![p] = o] /\ op[p].pc = "load"
              BY <5>4 DEF Load
            <6>2. o.pc # "evict"
              BY <5>1, <6>1 DEF OpType, Idle
            <6> QED
              BY <6>1, <6>2
          <5>5. CASE ExecGuard(p)
            <6>1. CASE op' = [op EXCEPT ![p].pc = "execstack"] /\ op[p].pc = "execguard"
              <7> DEFINE o == [op[p] EXCEPT !.pc = "execstack"]
              <7>1. op' = [op EXCEPT ![p] = o] /\ o.pc = "execstack"
                BY <6>1, <5>1 DEF OpType
              <7> QED
                BY <7>1
            <6> QED
              BY <5>5, <5>2, <6>1 DEF ExecGuard
          <5>6. CASE GrowPage(p)
            <6> DEFINE o == [op[p] EXCEPT !.at = @ + 1]
            <6>1. op' = [op EXCEPT ![p] = o] /\ o.pc = op[p].pc
              BY <5>6, <5>1 DEF GrowPage, OpType
            <6> QED
              BY <6>1, <5>1
          <5>7. ~EvictClean(p) /\ ~EvictDirty(p) /\ ~EvictFails(p)
            BY <5>1 DEF EvictClean, EvictDirty, EvictFails
          <5> QED
            BY <4>3, <5>2, <5>3, <5>4, <5>5, <5>6, <5>7
               DEF KernelStep, LoadRemap, CopyOutResume, ForkCopyPage, ForkFails, ForkDone,
                   ExecFails, ExecCommit, GrowRemap, GrowFails, GrowDone, Exit, InitExits
        <4> QED
          BY <3>0, <4>2, <4>3
      <3> QED
        BY <3>1
    <2> QED
      BY <2>1, <2>2
  <1>2. Init => Unevicting
    BY DEF Init, Unevicting, Idle
  <1>3. TypeInv => TypeOK
    BY DEF TypeInv
  <1> QED
    BY <1>1, <1>2, <1>3, OwnedInvariant, TypeInvariant, PTL DEF Spec

\* A machine with more frames than the processes can have between them never
\* shows its paging.
THEOREM AmpleMemory ==
  ASSUME "shrink" \notin Calls, "badexec" \notin Calls, "exec" \notin Accesses,
         "exec" \in Calls => OneProgram,
         IsFiniteSet(Proc), IsFiniteSet(Frame),
         Cardinality(Frame) > Cardinality(Proc) * (MaxVPage + 2)
  PROVE  Spec => ImplementsMemory
  BY PagingIsMemory, NobodyEvicts, PTL
=============================================================================
