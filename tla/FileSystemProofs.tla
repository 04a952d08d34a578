-------------------------- MODULE FileSystemProofs --------------------------
(***************************************************************************)
(* References and blocks, for every number of processes, inodes, blocks and*)
(* files and every sequence of calls: each path through each call gives    *)
(* back the references it took, and a block is in use when one inode has   *)
(* it, whatever fails and whenever the power does.                         *)
(*                                                                         *)
(* References are counted by the places that hold them (Uses); a step of a *)
(* process changes its own places only (Recount).  Blocks need more: a     *)
(* copy in memory that is valid is what the disk has, an inode that a file *)
(* is about to be opened on stays locked and valid, and iput frees an      *)
(* inode only when no open file has it, since its last reference is then   *)
(* the one being put.                                                      *)
(***************************************************************************)
EXTENDS FileSystem, FiniteSetTheorems, SequenceTheorems, TLAPS

Later == {"walk", "found", "existing", "opened", "undo", "end", "again"}
Pcs == Later \cup {"user", "parent", "victim", "write", "put", "reap", "unref"}
Inode == [type : {"free", "file", "dir"}, nlink : Int, addrs : SUBSET Block]
Disk == [ino : [Inum -> Inode], ents : [Inum -> [Names -> Inum \cup {0}]], used : SUBSET Block]
Place == [pc : Pcs, cur : Inum \cup {0}, ip : Inum \cup {0},
          path : Seq(Names), drop : Seq(Inum), next : Later]

Types ==
  /\ fs \in Disk /\ durable \in Disk
  /\ ref \in [Inum -> Int] /\ valid \in SUBSET Inum /\ mem \in [Inum -> Inode]
  /\ lock \in [Inum -> Proc \cup {Nobody}]
  /\ fref \in [File -> Nat] /\ fip \in [File -> Inum \cup {0}]
  /\ ofile \in [Proc -> Seq(File)] /\ swapFile \in [Proc -> File \cup {0}]
  /\ cwd \in [Proc -> Inum] /\ ops \in SUBSET Proc
  /\ at \in [Proc -> Place] /\ todo \in [Proc -> Seq(Calls)]
  /\ phase \in {"up", "boot", "panic"}
  /\ \A p \in Proc : \A k \in DOMAIN todo[p] : WellMade(todo[p][k])

\* What a process's local variables are at r, c being its call.
Placed(r, c) ==
  /\ Puts(r) => r.drop # <<>>
  /\ Stage(r) \in {"walk", "parent", "found", "existing", "opened", "victim"} => r.cur \in Inum
  /\ Stage(r) \in {"undo", "victim"} => r.ip \in Inum
  /\ Stage(r) \in {"walk", "parent"} => r.path # <<>> /\ (r.ip # 0 => c.op = "link")
  /\ Stage(r) = "again" => r.ip = 0 /\ c.op = "exit"

\* A call has a transaction and a file to write to.
Runs(p) ==
  /\ at[p].pc = "user" => at[p] = Idle
  /\ at[p].pc # "user" => todo[p] # <<>> /\ Placed(at[p], Call(p))
  /\ at[p].pc = "write" => ofile[p] # <<>> /\ at[p].cur = fip[Head(ofile[p])]
Running == \A p \in Proc : Runs(p)

\* References to inodes and to struct files are counted; a swap file has one, and
\* a process that has one is not about to open another.
Busy(r) == Stage(r) \notin {"user", "end", "again"}
Opens(i) == {f \in File : fref[f] > 0 /\ fip[f] = i}
Counted ==
  /\ \A i \in Inum : ref[i] = Cardinality(Uses(i, Inodes)) + Cardinality(Opens(i))
  /\ \A f \in File : fref[f] = Cardinality(Uses(f, Files))
  /\ \A p \in Proc : swapFile[p] # 0 => /\ fref[swapFile[p]] = 1
                                        /\ Busy(at[p]) => Call(p).op # "swapon"

\* A valid copy is what the disk has, and a struct file in use has an inode in use.
Copies == \A i \in valid : mem[i] = fs.ino[i] /\ mem[i].type # "free"
FilesLive == \A f \in File : fref[f] > 0 => fip[f] \in Inum /\ fs.ino[fip[f]].type # "free"

\* Who keeps an inode locked between two steps, and what is so of that inode.
Reaps(r, i) == r.pc = "reap" /\ Head(r.drop) = i
Keeps(r) == Stage(r) \in {"opened", "victim"}
Locks(p) ==
  LET r == at[p] IN
  /\ Keeps(r) => lock[r.cur] = p /\ r.cur \in valid /\ ~Reaps(r, r.cur)
  /\ r.pc = "parent" => r.cur \in valid /\ \A q \in Proc : ~Reaps(at[q], r.cur)
  /\ r.pc = "reap" => /\ lock[Head(r.drop)] = p /\ Head(r.drop) \in valid
                      /\ Opens(Head(r.drop)) = {}
Locking == \A p \in Proc : Locks(p)

Inv == /\ Types /\ BlocksExact
       /\ phase # "panic" => Running /\ Counted /\ Copies /\ FilesLive /\ Locking
-----------------------------------------------------------------------------
(* How often an element occurs in a sequence.                               *)

Positions(x, s) == {k \in DOMAIN s : s[k] = x}
Count(x, s) == Cardinality(Positions(x, s))

\* It occurs finitely often.
LEMMA CountFinite ==
  ASSUME NEW S, NEW s \in Seq(S), NEW x
  PROVE  IsFiniteSet(Positions(x, s)) /\ Count(x, s) \in Nat
  <1>1. Len(s) \in Nat /\ DOMAIN s = 1..Len(s)
    OBVIOUS
  <1>2. IsFiniteSet(1..Len(s))
    BY <1>1, FS_Interval
  <1>3. Positions(x, s) \in SUBSET (1..Len(s))
    BY <1>1 DEF Positions
  <1> QED
    BY <1>2, <1>3, FS_Subset, FS_CardinalityType DEF Count

\* Never in the empty sequence.
LEMMA CountNone ==
  ASSUME NEW x
  PROVE  Count(x, <<>>) = 0
  <1>1. Positions(x, <<>>) = {}
    BY DEF Positions
  <1> QED
    BY <1>1, FS_EmptySet DEF Count

\* Once or never in a sequence of one.
LEMMA CountOne ==
  ASSUME NEW x, NEW a
  PROVE  Count(x, <<a>>) = IF a = x THEN 1 ELSE 0
  <1>1. Positions(x, <<a>>) = IF a = x THEN {1} ELSE {}
    BY DEF Positions
  <1> QED
    BY <1>1, FS_EmptySet, FS_Singleton DEF Count

\* The positions in the second part are those in it, moved.
LEMMA CountBoth ==
  ASSUME NEW S, NEW a \in Seq(S), NEW b \in Seq(S), NEW x
  PROVE  Count(x, a \o b) = Count(x, a) + Count(x, b)
  <1> DEFINE n == Len(a)
             low == Positions(x, a)
             high == {k \in (n + 1)..(n + Len(b)) : b[k - n] = x}
             move == [k \in Positions(x, b) |-> k + n]
  <1>1. /\ n \in Nat /\ Len(b) \in Nat /\ DOMAIN a = 1..n /\ DOMAIN b = 1..Len(b)
        /\ DOMAIN (a \o b) = 1..(n + Len(b))
        /\ \A k \in 1..(n + Len(b)) : (a \o b)[k] = IF k <= n THEN a[k] ELSE b[k - n]
    BY ConcatProperties
  <1>2. Positions(x, a \o b) = low \cup high
    BY <1>1 DEF Positions
  <1>3. low \cap high = {}
    BY <1>1 DEF Positions
  <1>4. move \in Bijection(Positions(x, b), high)
    <2>1. move \in [Positions(x, b) -> high]
      BY <1>1 DEF Positions
    <2>2. \A j, k \in Positions(x, b) : move[j] = move[k] => j = k
      BY <1>1 DEF Positions
    <2>3. \A h \in high : h - n \in Positions(x, b) /\ move[h - n] = h
      BY <1>1 DEF Positions
    <2>4. \A h \in high : \E k \in Positions(x, b) : move[k] = h
      BY <2>3
    <2> QED
      BY <2>1, <2>2, <2>4 DEF Bijection, Injection, Surjection, IsInjective
  <1>5. ExistsBijection(Positions(x, b), high)
    BY <1>4 DEF ExistsBijection
  <1>6. /\ IsFiniteSet(low) /\ IsFiniteSet(Positions(x, b))
        /\ Cardinality(low) \in Nat /\ Cardinality(Positions(x, b)) \in Nat
    BY CountFinite DEF Count
  <1>7. IsFiniteSet(high) /\ Cardinality(high) = Cardinality(Positions(x, b))
    BY <1>5, <1>6, FS_Bijection
  <1> HIDE DEF low, high
  <1>8. Cardinality(low \cup high) = Cardinality(low) + Cardinality(high)
    <2>1. Cardinality(low \cup high) = Cardinality(low) + Cardinality(high) - Cardinality({})
      BY <1>3, <1>6, <1>7, FS_Union
    <2> QED
      BY <2>1, <1>6, <1>7, FS_EmptySet
  <1> QED
    BY <1>2, <1>7, <1>8 DEF Count, low

\* The first element, and the rest.
LEMMA CountTail ==
  ASSUME NEW S, NEW s \in Seq(S), s # <<>>, NEW x
  PROVE  Count(x, s) = (IF Head(s) = x THEN 1 ELSE 0) + Count(x, Tail(s))
  <1>1. Head(s) \in S /\ Tail(s) \in Seq(S) /\ <<Head(s)>> \in Seq(S)
    OBVIOUS
  <1>2. s = <<Head(s)>> \o Tail(s)
    OBVIOUS
  <1>3. Count(x, <<Head(s)>> \o Tail(s)) = Count(x, <<Head(s)>>) + Count(x, Tail(s))
    BY <1>1, CountBoth
  <1> QED
    BY <1>2, <1>3, CountOne

\* One more at the end.
LEMMA CountAppend ==
  ASSUME NEW S, NEW s \in Seq(S), NEW e \in S, NEW x
  PROVE  Count(x, Append(s, e)) = Count(x, s) + (IF e = x THEN 1 ELSE 0)
  <1>1. <<e>> \in Seq(S) /\ Append(s, e) = s \o <<e>>
    BY AppendIsConcat
  <1>2. Count(x, s \o <<e>>) = Count(x, s) + Count(x, <<e>>)
    BY <1>1, CountBoth
  <1> QED
    BY <1>1, <1>2, CountOne

\* The first element occurs.
LEMMA CountHead ==
  ASSUME NEW S, NEW s \in Seq(S), s # <<>>
  PROVE  Count(Head(s), s) >= 1
  <1>1. Tail(s) \in Seq(S)
    OBVIOUS
  <1>2. Count(Head(s), Tail(s)) \in Nat
    BY <1>1, CountFinite
  <1> QED
    BY <1>2, CountTail
-----------------------------------------------------------------------------
(* Uses: when the references of one process change.                         *)

Others(x, s, p) == {y \in Uses(x, s) : y[1] # p}
Own(x, s, p) == {p} \X Positions(x, s[p])

\* A use is a process and a position in its sequence.
LEMMA UsesOf ==
  ASSUME NEW S, NEW s \in [Proc -> Seq(S)], NEW x
  PROVE  /\ \A y \in Uses(x, s) : /\ y[1] \in Proc /\ y[2] \in Positions(x, s[y[1]])
                                  /\ y = <<y[1], y[2]>>
         /\ \A p \in Proc : \A k \in Positions(x, s[p]) : <<p, k>> \in Uses(x, s)
  BY DEF Uses, Positions

\* There are finitely many processes, so finitely many uses.
LEMMA UsesFinite ==
  ASSUME NEW S, NEW s \in [Proc -> Seq(S)], NEW x
  PROVE  IsFiniteSet(Uses(x, s)) /\ Cardinality(Uses(x, s)) \in Nat
  <1> DEFINE parts == {{p} \X DOMAIN s[p] : p \in Proc}
             f == [p \in Proc |-> {p} \X DOMAIN s[p]]
  <1>1. IsFiniteSet(Proc)
    BY FileSystemAssumption
  <1>2. f \in Surjection(Proc, parts)
    BY DEF Surjection
  <1>3. IsFiniteSet(parts)
    BY <1>1, <1>2, FS_Surjection
  <1>4. \A T \in parts : IsFiniteSet(T)
    <2> TAKE T \in parts
    <2>1. PICK p \in Proc : T = {p} \X DOMAIN s[p]
      OBVIOUS
    <2>2. s[p] \in Seq(S) /\ Len(s[p]) \in Nat /\ DOMAIN s[p] = 1..Len(s[p])
      OBVIOUS
    <2>3. IsFiniteSet(1..Len(s[p]))
      BY <2>2, FS_Interval
    <2> QED
      BY <2>1, <2>2, <2>3, FS_Singleton, FS_Product
  <1>5. IsFiniteSet(UNION parts)
    BY <1>3, <1>4, FS_UNION
  <1>6. Uses(x, s) \in SUBSET UNION parts
    BY DEF Uses
  <1> QED
    BY <1>5, <1>6, FS_Subset, FS_CardinalityType

\* The uses by one process, and those by the others.
LEMMA UsesSplit ==
  ASSUME NEW S, NEW s \in [Proc -> Seq(S)], NEW x, NEW p \in Proc
  PROVE  /\ IsFiniteSet(Others(x, s, p)) /\ Cardinality(Others(x, s, p)) \in Nat
         /\ Count(x, s[p]) \in Nat
         /\ Cardinality(Uses(x, s)) = Cardinality(Others(x, s, p)) + Count(x, s[p])
  <1> DEFINE P == Positions(x, s[p])
  <1>1. s[p] \in Seq(S)
    OBVIOUS
  <1>2. IsFiniteSet(P) /\ Cardinality(P) \in Nat
    BY <1>1, CountFinite DEF Count
  <1>3. Others(x, s, p) \in SUBSET Uses(x, s)
    BY DEF Others
  <1>4. IsFiniteSet(Others(x, s, p)) /\ Cardinality(Others(x, s, p)) \in Nat
    BY <1>3, UsesFinite, FS_Subset, FS_CardinalityType
  <1>5. [k \in P |-> <<p, k>>] \in Bijection(P, Own(x, s, p))
    BY DEF Own, Bijection, Injection, Surjection, IsInjective
  <1>6. ExistsBijection(P, Own(x, s, p))
    BY <1>5 DEF ExistsBijection
  <1>7. IsFiniteSet(Own(x, s, p)) /\ Cardinality(Own(x, s, p)) = Cardinality(P)
    BY <1>2, <1>6, FS_Bijection
  <1>8. Uses(x, s) = Others(x, s, p) \cup Own(x, s, p)
    <2>1. \A y \in Uses(x, s) : y \in Others(x, s, p) \/ y \in Own(x, s, p)
      BY UsesOf DEF Others, Own
    <2>2. \A y \in Own(x, s, p) : y \in Uses(x, s)
      BY UsesOf DEF Own
    <2> QED
      BY <1>3, <2>1, <2>2
  <1>9. Others(x, s, p) \cap Own(x, s, p) = {}
    BY DEF Others, Own
  <1>10. Cardinality(Others(x, s, p) \cup Own(x, s, p))
         = Cardinality(Others(x, s, p)) + Cardinality(Own(x, s, p))
    <2>1. Cardinality(Others(x, s, p) \cup Own(x, s, p))
          = Cardinality(Others(x, s, p)) + Cardinality(Own(x, s, p)) - Cardinality({})
      BY <1>2, <1>4, <1>7, <1>9, FS_Union
    <2> QED
      BY <2>1, <1>2, <1>4, <1>7, FS_EmptySet
  <1> QED
    BY <1>2, <1>4, <1>7, <1>8, <1>10 DEF Count

\* A step of p changes the references of p.
LEMMA Recount ==
  ASSUME NEW S, NEW s \in [Proc -> Seq(S)], NEW t \in [Proc -> Seq(S)], NEW x, NEW p \in Proc,
         \A q \in Proc : q # p => t[q] = s[q]
  PROVE  Cardinality(Uses(x, t)) = Cardinality(Uses(x, s)) - Count(x, s[p]) + Count(x, t[p])
  <1>1. \A y \in Others(x, s, p) : y \in Others(x, t, p)
    BY UsesOf DEF Others, Positions
  <1>2. \A y \in Others(x, t, p) : y \in Others(x, s, p)
    BY UsesOf DEF Others, Positions
  <1>3. Others(x, s, p) = Others(x, t, p)
    BY <1>1, <1>2
  <1>4. /\ Cardinality(Others(x, s, p)) \in Nat /\ Count(x, s[p]) \in Nat
        /\ Cardinality(Uses(x, s)) = Cardinality(Others(x, s, p)) + Count(x, s[p])
    BY UsesSplit
  <1>5. /\ Count(x, t[p]) \in Nat
        /\ Cardinality(Uses(x, t)) = Cardinality(Others(x, t, p)) + Count(x, t[p])
    BY UsesSplit
  <1> QED
    BY <1>3, <1>4, <1>5

\* A process's own references are among all; with one of another process there
\* are more.
LEMMA OwnUses ==
  ASSUME NEW S, NEW s \in [Proc -> Seq(S)], NEW x, NEW p \in Proc
  PROVE  Cardinality(Uses(x, s)) \in Nat /\ Count(x, s[p]) \in Nat
         /\ Cardinality(Uses(x, s)) >= Count(x, s[p])
  <1>1. /\ Cardinality(Others(x, s, p)) \in Nat /\ Count(x, s[p]) \in Nat
        /\ Cardinality(Uses(x, s)) = Cardinality(Others(x, s, p)) + Count(x, s[p])
    BY UsesSplit
  <1> QED
    BY <1>1

\* A use by another process is one more.
LEMMA TwoUsers ==
  ASSUME NEW S, NEW s \in [Proc -> Seq(S)], NEW x, NEW p \in Proc, NEW q \in Proc, p # q,
         Count(x, s[q]) >= 1
  PROVE  Cardinality(Uses(x, s)) >= Count(x, s[p]) + 1
  <1>1. /\ IsFiniteSet(Others(x, s, p)) /\ Cardinality(Others(x, s, p)) \in Nat
        /\ Count(x, s[p]) \in Nat
        /\ Cardinality(Uses(x, s)) = Cardinality(Others(x, s, p)) + Count(x, s[p])
    BY UsesSplit
  <1>2. Positions(x, s[q]) # {}
    <2>1. Positions(x, s[q]) = {} => Count(x, s[q]) = 0
      BY FS_EmptySet DEF Count
    <2> QED
      BY <2>1
  <1>3. PICK k \in Positions(x, s[q]) : TRUE
    BY <1>2
  <1>4. <<q, k>> \in Others(x, s, p)
    BY <1>3, UsesOf DEF Others
  <1>5. Cardinality(Others(x, s, p)) # 0
    BY <1>1, <1>4, FS_EmptySet
  <1> QED
    BY <1>1, <1>5
-----------------------------------------------------------------------------
(* The references in local variables, and those of a step.                  *)

Holding == {"walk", "parent", "found", "existing", "opened", "victim"}
HasSecond(r) == \/ Stage(r) \in {"undo", "victim"}
                \/ Stage(r) \in {"walk", "parent"} /\ r.ip # 0
Here(x, c, r) ==
  (IF c = x THEN 1 ELSE 0) + (IF Puts(r) THEN Count(x, r.drop) ELSE 0)
  + (IF Stage(r) \in Holding /\ r.cur = x THEN 1 ELSE 0)
  + (IF HasSecond(r) /\ r.ip = x THEN 1 ELSE 0)

\* Here counts the references in a process's working directory and locals.
LEMMA LocalsCount ==
  ASSUME NEW r \in Place, NEW c \in Inum, NEW x
  PROVE  /\ <<c>> \o Locals(r) \in Seq(Inum \cup {0})
         /\ Count(x, <<c>> \o Locals(r)) = Here(x, c, r)
         /\ Here(x, c, r) \in Nat
  <1> DEFINE S == Inum \cup {0}
             d == IF Puts(r) THEN r.drop ELSE <<>>
             u == IF Stage(r) \in Holding THEN <<r.cur>> ELSE <<>>
             v == IF HasSecond(r) THEN <<r.ip>> ELSE <<>>
  <1>1. r.drop \in Seq(Inum) /\ r.cur \in S /\ r.ip \in S
    BY DEF Place
  <1>2. d \in Seq(S) /\ u \in Seq(S) /\ v \in Seq(S) /\ <<c>> \in Seq(S)
    <2>1. r.drop \in Seq(S)
      BY <1>1, SeqMonotonic
    <2>2. <<>> \in Seq(S)
      OBVIOUS
    <2>3. <<r.cur>> \in Seq(S) /\ <<r.ip>> \in Seq(S) /\ <<c>> \in Seq(S)
      BY <1>1
    <2> QED
      BY <2>1, <2>2, <2>3
  <1>3. Locals(r) = d \o u \o v
    BY DEF Locals, Holding, HasSecond
  <1>4. Count(x, d) = IF Puts(r) THEN Count(x, r.drop) ELSE 0
    BY CountNone
  <1>5. Count(x, u) = IF Stage(r) \in Holding /\ r.cur = x THEN 1 ELSE 0
    BY CountNone, CountOne
  <1>6. Count(x, v) = IF HasSecond(r) /\ r.ip = x THEN 1 ELSE 0
    BY CountNone, CountOne
  <1>7. Count(x, <<c>>) = IF c = x THEN 1 ELSE 0
    BY CountOne
  <1> HIDE DEF S, d, u, v
  <1>8. Count(x, d) \in Nat
    BY <1>2, CountFinite
  <1>9. d \o u \in Seq(S) /\ Count(x, d \o u) = Count(x, d) + Count(x, u)
    BY <1>2, CountBoth
  <1>10. /\ d \o u \o v \in Seq(S)
         /\ Count(x, d \o u \o v) = Count(x, d \o u) + Count(x, v)
    <2> DEFINE e == d \o u
    <2>1. e \in Seq(S)
      BY <1>9
    <2> HIDE DEF e
    <2>2. e \o v \in Seq(S) /\ Count(x, e \o v) = Count(x, e) + Count(x, v)
      BY <1>2, <2>1, CountBoth
    <2> QED
      BY <2>2 DEF e
  <1>11. /\ <<c>> \o (d \o u \o v) \in Seq(S)
         /\ Count(x, <<c>> \o (d \o u \o v)) = Count(x, <<c>>) + Count(x, d \o u \o v)
    <2> DEFINE b == <<c>>
               e == d \o u \o v
    <2>1. e \in Seq(S) /\ b \in Seq(S)
      BY <1>2, <1>10
    <2> HIDE DEF b, e
    <2>2. b \o e \in Seq(S) /\ Count(x, b \o e) = Count(x, b) + Count(x, e)
      BY <2>1, CountBoth
    <2> QED
      BY <2>2 DEF b, e
  <1>12. Here(x, c, r) = Count(x, <<c>>) + Count(x, d) + Count(x, u) + Count(x, v)
    BY <1>4, <1>5, <1>6, <1>7 DEF Here
  <1>13. Count(x, <<c>>) \in Nat /\ Count(x, u) \in Nat /\ Count(x, v) \in Nat
    BY <1>5, <1>6, <1>7
  <1>14. Here(x, c, r) \in Nat
    BY <1>8, <1>12, <1>13
  <1>15. Count(x, <<c>> \o (d \o u \o v)) = Here(x, c, r)
    BY <1>8, <1>9, <1>10, <1>11, <1>12, <1>13
  <1> QED
    BY <1>3, <1>11, <1>14, <1>15 DEF S

\* So it does for every process.
LEMMA InodesTyped ==
  ASSUME Types
  PROVE  /\ Inodes \in [Proc -> Seq(Inum \cup {0})]
         /\ \A p \in Proc : \A x : /\ Count(x, Inodes[p]) = Here(x, cwd[p], at[p])
                                   /\ Here(x, cwd[p], at[p]) \in Nat
  <1>1. \A p \in Proc : at[p] \in Place /\ cwd[p] \in Inum
    BY DEF Types
  <1>2. \A p \in Proc : \A x : /\ <<cwd[p]>> \o Locals(at[p]) \in Seq(Inum \cup {0})
                               /\ Count(x, <<cwd[p]>> \o Locals(at[p])) = Here(x, cwd[p], at[p])
                               /\ Here(x, cwd[p], at[p]) \in Nat
    BY <1>1, LocalsCount
  <1> QED
    BY <1>2 DEF Inodes

\* Recount for any element and any sequences.
LEMMA RecountAll ==
  \A S, x : \A p \in Proc : \A s, t \in [Proc -> Seq(S)] : (\A q \in Proc : q # p => t[q] = s[q])
    => Cardinality(Uses(x, t)) = Cardinality(Uses(x, s)) - Count(x, s[p]) + Count(x, t[p])
  BY Recount, ZenonT(30)

\* The count of an inode moves as the references of the one process that moves.
LEMMA InodesMoved ==
  ASSUME Types, Types', NEW p \in Proc, NEW x,
         \A q \in Proc \ {p} : at'[q] = at[q] /\ cwd'[q] = cwd[q]
  PROVE  /\ Cardinality(Uses(x, Inodes)) \in Nat
         /\ Cardinality(Uses(x, Inodes'))
            = Cardinality(Uses(x, Inodes)) - Here(x, cwd[p], at[p]) + Here(x, cwd'[p], at'[p])
  <1> DEFINE s == Inodes
             t == Inodes'
  <1>1. s \in [Proc -> Seq(Inum \cup {0})] /\ Count(x, s[p]) = Here(x, cwd[p], at[p])
    BY InodesTyped
  <1>2. \A q \in Proc : at'[q] \in Place /\ cwd'[q] \in Inum
    BY DEF Types
  <1>3. \A q \in Proc : /\ <<cwd'[q]>> \o Locals(at'[q]) \in Seq(Inum \cup {0})
                        /\ Count(x, <<cwd'[q]>> \o Locals(at'[q])) = Here(x, cwd'[q], at'[q])
    BY <1>2, LocalsCount
  <1>4. t = [q \in Proc |-> <<cwd'[q]>> \o Locals(at'[q])]
    BY DEF Inodes
  <1>5. t \in [Proc -> Seq(Inum \cup {0})] /\ Count(x, t[p]) = Here(x, cwd'[p], at'[p])
    BY <1>3, <1>4
  <1>6. \A q \in Proc \ {p} : t[q] = s[q]
    BY <1>4 DEF Inodes
  <1> HIDE DEF s, t
  <1>7. Cardinality(Uses(x, t)) = Cardinality(Uses(x, s)) - Count(x, s[p]) + Count(x, t[p])
    <2> DEFINE S == Inum \cup {0}
    <2>1. s \in [Proc -> Seq(S)] /\ t \in [Proc -> Seq(S)]
      BY <1>1, <1>5
    <2> HIDE DEF S
    <2>2. \A q \in Proc : q # p => t[q] = s[q]
      BY <1>6
    <2> QED
      BY <2>1, <2>2, RecountAll
  <1>8. Cardinality(Uses(x, s)) \in Nat
    BY <1>1, UsesFinite
  <1> QED
    BY <1>1, <1>5, <1>7, <1>8 DEF s, t

\* References held by a process, by two, and the files that are open.
LEMMA OpensFinite ==
  ASSUME NEW i
  PROVE  IsFiniteSet(Opens(i)) /\ Cardinality(Opens(i)) \in Nat
         /\ (Cardinality(Opens(i)) = 0 <=> Opens(i) = {})
  <1>1. IsFiniteSet(File)
    BY FileSystemAssumption, FS_Interval DEF File
  <1>2. Opens(i) \in SUBSET File
    BY DEF Opens
  <1> QED
    BY <1>1, <1>2, FS_Subset, FS_CardinalityType, FS_EmptySet

\* iget counted each reference that a process has, and each open file.
LEMMA RefAtLeast ==
  ASSUME Types, Counted, NEW p \in Proc, NEW i \in Inum
  PROVE  ref[i] >= Here(i, cwd[p], at[p]) + Cardinality(Opens(i))
  <1>1. Inodes \in [Proc -> Seq(Inum \cup {0})] /\ Count(i, Inodes[p]) = Here(i, cwd[p], at[p])
    BY InodesTyped
  <1>2. /\ Cardinality(Uses(i, Inodes)) \in Nat /\ Count(i, Inodes[p]) \in Nat
        /\ Cardinality(Uses(i, Inodes)) >= Count(i, Inodes[p])
    BY <1>1, OwnUses
  <1>3. ref[i] = Cardinality(Uses(i, Inodes)) + Cardinality(Opens(i))
    BY DEF Counted
  <1> QED
    BY <1>1, <1>2, <1>3, OpensFinite

\* And those of another process on top.
LEMMA RefOfTwo ==
  ASSUME Types, Counted, NEW p \in Proc, NEW q \in Proc, p # q, NEW i \in Inum,
         Here(i, cwd[q], at[q]) >= 1
  PROVE  ref[i] >= Here(i, cwd[p], at[p]) + 1
  <1>1. /\ Inodes \in [Proc -> Seq(Inum \cup {0})] /\ Count(i, Inodes[p]) = Here(i, cwd[p], at[p])
        /\ Count(i, Inodes[q]) = Here(i, cwd[q], at[q]) /\ Here(i, cwd[p], at[p]) \in Nat
    BY InodesTyped
  <1>2. Cardinality(Uses(i, Inodes)) \in Nat
    BY <1>1, UsesFinite
  <1>3. Cardinality(Uses(i, Inodes)) >= Count(i, Inodes[p]) + 1
    BY <1>1, TwoUsers
  <1>4. ref[i] = Cardinality(Uses(i, Inodes)) + Cardinality(Opens(i))
    BY DEF Counted
  <1> QED
    BY <1>1, <1>2, <1>3, <1>4, OpensFinite
-----------------------------------------------------------------------------
(* Blocks: the changes of a disk that keep its bitmap exact.                *)

Exact(d) ==
  /\ d.used = UNION {d.ino[i].addrs : i \in Inum}
  /\ \A i, j \in Inum : i # j => d.ino[i].addrs \cap d.ino[j].addrs = {}
  /\ \A i \in Inum : d.ino[i].type = "free" => d.ino[i].addrs = {}

\* Both disks are exact, now and after the step.
LEMMA ExactDisks ==
  /\ BlocksExact <=> Exact(fs) /\ Exact(durable)
  /\ BlocksExact' <=> Exact(fs') /\ Exact(durable')
  BY DEF BlocksExact, Exact

\* A write that moves no blocks (link counts, entries).
LEMMA ExactSame ==
  ASSUME NEW d, NEW e, Exact(d), e.used = d.used,
         \A i \in Inum : /\ e.ino[i].addrs = d.ino[i].addrs
                         /\ e.ino[i].type = "free" => d.ino[i].type = "free"
  PROVE  Exact(e)
  BY DEF Exact

\* balloc: the new blocks are those of one inode.
LEMMA ExactGrown ==
  ASSUME NEW d, NEW e, NEW k \in Inum, Exact(d), d.used \subseteq e.used,
         e.ino[k].addrs = d.ino[k].addrs \cup (e.used \ d.used), e.ino[k].type # "free",
         \A i \in Inum : i # k => /\ e.ino[i].addrs = d.ino[i].addrs
                                  /\ e.ino[i].type = "free" => d.ino[i].type = "free"
  PROVE  Exact(e)
  <1>1. \A i \in Inum : d.ino[i].addrs \subseteq d.used
    BY DEF Exact
  <1>2. e.used = UNION {e.ino[i].addrs : i \in Inum}
    <2>1. \A b \in e.used : \E i \in Inum : b \in e.ino[i].addrs
      BY DEF Exact
    <2>2. \A i \in Inum : e.ino[i].addrs \subseteq e.used
      BY <1>1
    <2> QED
      BY <2>1, <2>2
  <1>3. \A i, j \in Inum : i # j => e.ino[i].addrs \cap e.ino[j].addrs = {}
    BY <1>1 DEF Exact
  <1> QED
    BY <1>2, <1>3 DEF Exact

\* itrunc: the blocks of one inode are free again.
LEMMA ExactFreed ==
  ASSUME NEW d, NEW e, NEW k \in Inum, Exact(d), e.used = d.used \ d.ino[k].addrs,
         e.ino[k].addrs = {},
         \A i \in Inum : i # k => /\ e.ino[i].addrs = d.ino[i].addrs
                                  /\ e.ino[i].type = "free" => d.ino[i].type = "free"
  PROVE  Exact(e)
  <1>1. e.used = UNION {e.ino[i].addrs : i \in Inum}
    <2>1. \A b \in e.used : \E i \in Inum : b \in e.ino[i].addrs
      BY DEF Exact
    <2>2. \A i \in Inum : e.ino[i].addrs \subseteq e.used
      BY DEF Exact
    <2> QED
      BY <2>1, <2>2
  <1>2. \A i, j \in Inum : i # j => e.ino[i].addrs \cap e.ino[j].addrs = {}
    BY DEF Exact
  <1> QED
    BY <1>1, <1>2 DEF Exact
-----------------------------------------------------------------------------
(* What Look, Write and Ilock do.                                           *)

\* A copy is what the disk has.
LEMMA CopyIsDisk ==
  ASSUME Types, Copies, NEW i \in Inum
  PROVE  Copy(i) = fs.ino[i] /\ Copy(i) \in Inode /\ fs.ino[i] \in Inode
  BY DEF Types, Disk, Copies, Copy

\* ilock reads the inode from the disk unless the copy is valid already.
LEMMA LookIs ==
  ASSUME Types, Copies, NEW i \in Inum, Look(i)
  PROVE  /\ fs' = fs /\ valid' = valid \cup {i} /\ valid' \in SUBSET Inum
         /\ mem' \in [Inum -> Inode]
         /\ \A k \in Inum : mem'[k] = IF k = i THEN fs.ino[i] ELSE mem[k]
  BY CopyIsDisk DEF Types, Look

\* So the copies stay what the disk has, and ilock found the inode in use.
LEMMA LookKeeps ==
  ASSUME Types, Copies, FilesLive, NEW i \in Inum, Look(i), Ilock(i), phase # "panic",
         phase' # "panic", UNCHANGED <<fref, fip>>
  PROVE  Copies' /\ FilesLive' /\ fs.ino[i].type # "free"
  <1>1. i \in valid \/ fs.ino[i].type # "free"
    BY DEF Ilock
  <1>2. fs.ino[i].type # "free"
    BY <1>1 DEF Copies
  <1>3. Copies'
    BY <1>2, LookIs, ZenonT(30) DEF Copies, Types
  <1> QED
    BY <1>2, <1>3, LookIs DEF FilesLive

\* What iupdate, writei and balloc leave in memory and on the disk.
LEMMA WriteIs ==
  ASSUME Types, NEW new, DOMAIN new \subseteq Inum, new \in [DOMAIN new -> Inode],
         NEW ents \in [Inum -> [Names -> Inum \cup {0}]], NEW used \in SUBSET Block,
         Write(new, ents, used)
  PROVE  /\ mem' \in [Inum -> Inode] /\ valid' \in SUBSET Inum /\ fs' \in Disk
         /\ valid' = valid \cup DOMAIN new
         /\ \A i \in Inum : /\ mem'[i] = IF i \in DOMAIN new THEN new[i] ELSE mem[i]
                            /\ fs'.ino[i] = IF i \in DOMAIN new THEN new[i] ELSE fs.ino[i]
         /\ fs'.ents = ents /\ fs'.used = used
  <1> DEFINE D == DOMAIN new
             ino == [i \in Inum |-> IF i \in D THEN new[i] ELSE fs.ino[i]]
             inm == [i \in Inum |-> IF i \in D THEN new[i] ELSE mem[i]]
  <1>1. fs' = [ino |-> ino, ents |-> ents, used |-> used] /\ mem' = inm /\ valid' = valid \cup D
    BY DEF Write
  <1>2. \A i \in D : new[i] \in Inode
    OBVIOUS
  <1> HIDE DEF D
  <1>3. ino \in [Inum -> Inode] /\ inm \in [Inum -> Inode]
    BY <1>2 DEF Types, Disk
  <1>4. fs' \in Disk
    BY <1>1, <1>3 DEF Disk
  <1>5. valid' \in SUBSET Inum
    BY <1>1 DEF Types, D
  <1> QED
    BY <1>1, <1>3, <1>4, <1>5 DEF D

\* Copies written to the disk are what the disk has.
LEMMA WriteKeeps ==
  ASSUME Types, Copies, FilesLive, NEW D \in SUBSET Inum, NEW new \in [D -> Inode],
         NEW ents \in [Inum -> [Names -> Inum \cup {0}]], NEW used \in SUBSET Block,
         Write(new, ents, used), UNCHANGED <<fref, fip>>, \A i \in D : new[i].type # "free"
  PROVE  Copies' /\ FilesLive'
  <1>1. /\ valid' = valid \cup D
        /\ \A i \in Inum : /\ mem'[i] = IF i \in D THEN new[i] ELSE mem[i]
                           /\ fs'.ino[i] = IF i \in D THEN new[i] ELSE fs.ino[i]
    <2>1. DOMAIN new = D
      OBVIOUS
    <2> QED
      BY <2>1, WriteIs
  <1>2. valid \in SUBSET Inum
    BY DEF Types
  <1>3. Copies'
    BY <1>1, <1>2 DEF Copies
  <1>4. FilesLive'
    BY <1>1 DEF FilesLive
  <1> QED
    BY <1>3, <1>4
-----------------------------------------------------------------------------
(* What the step of one process leaves to the others.                       *)

\* The others run on: their locals and their open files are theirs.
LEMMA OthersRun ==
  ASSUME Running, NEW p \in Proc, Runs(p)',
         \A q \in Proc : q # p => /\ at'[q] = at[q] /\ todo'[q] = todo[q] /\ ofile'[q] = ofile[q]
                                  /\ at[q].pc = "write"
                                       => fip'[Head(ofile[q])] = fip[Head(ofile[q])]
  PROVE  Running'
  BY DEF Running, Runs, Call

\* The others keep the inodes that they locked.
LEMMA OthersLock ==
  ASSUME Types, Locking, NEW p \in Proc, Locks(p)',
         \A q \in Proc : q # p =>
           /\ at'[q] = at[q]
           /\ \A i \in Inum :
                /\ lock[i] = q => lock'[i] = q
                /\ i \in valid /\ (\/ (Keeps(at[q]) \/ at[q].pc = "parent") /\ at[q].cur = i
                                   \/ Reaps(at[q], i))
                     => i \in valid'
           /\ at[q].pc = "reap" => Opens(Head(at[q].drop))' \subseteq Opens(Head(at[q].drop))
           /\ at[q].pc = "parent" => ~Reaps(at'[p], at[q].cur)
  PROVE  Locking'
  <1> SUFFICES ASSUME NEW q \in Proc, q # p
               PROVE  Locks(q)'
    BY DEF Locking
  <1> DEFINE r == at[q]
  <1>1. at'[q] = r /\ valid \in SUBSET Inum
    BY DEF Types
  <1>2. Keeps(r) => lock'[r.cur] = q /\ r.cur \in valid' /\ ~Reaps(r, r.cur)
    BY <1>1 DEF Locking, Locks
  <1>3. r.pc = "parent" => r.cur \in valid' /\ \A w \in Proc : ~Reaps(at'[w], r.cur)
    BY <1>1 DEF Locking, Locks
  <1>4. r.pc = "reap" => /\ lock'[Head(r.drop)] = q /\ Head(r.drop) \in valid'
                         /\ Opens(Head(r.drop))' = {}
    BY <1>1 DEF Locking, Locks, Reaps
  <1> QED
    BY <1>1, <1>2, <1>3, <1>4 DEF Locks

\* Twice or once in a sequence of two.
LEMMA CountTwo ==
  ASSUME NEW i \in Inum, NEW j \in Inum, NEW x
  PROVE  Count(x, <<i, j>>) = (IF i = x THEN 1 ELSE 0) + (IF j = x THEN 1 ELSE 0)
  <1>1. /\ <<i, j>> \in Seq(Inum) /\ <<i, j>> # <<>>
        /\ Head(<<i, j>>) = i /\ Tail(<<i, j>>) = <<j>>
    OBVIOUS
  <1>2. Count(x, <<i, j>>) = (IF i = x THEN 1 ELSE 0) + Count(x, <<j>>)
    BY <1>1, CountTail
  <1> QED
    BY <1>2, CountOne

\* The call a process is in.
LEMMA CallIs ==
  ASSUME Types, NEW p \in Proc, todo[p] # <<>>
  PROVE  /\ Call(p) \in Calls /\ WellMade(Call(p))
         /\ Call(p).path \in Seq(Names) /\ Call(p).to \in Seq(Names)
  <1>1. todo[p] \in Seq(Calls) /\ \A k \in DOMAIN todo[p] : WellMade(todo[p][k])
    BY DEF Types
  <1>2. 1 \in DOMAIN todo[p] /\ Call(p) = todo[p][1] /\ Call(p) \in Calls
    BY <1>1 DEF Call
  <1> QED
    BY <1>1, <1>2 DEF Calls

\* A step to r.
LEMMA GotoIs ==
  ASSUME Types, NEW p \in Proc, NEW r \in Place, Goto(p, r)
  PROVE  /\ at' \in [Proc -> Place] /\ at'[p] = r
         /\ \A q \in Proc : q # p => at'[q] = at[q]
  BY DEF Types, Goto

\* A step to l, with the locals as they are.
LEMMA AtIs ==
  ASSUME Types, NEW p \in Proc, NEW l \in Pcs, At(p, l)
  PROVE  /\ at' \in [Proc -> Place] /\ at'[p].pc = l
         /\ at'[p].cur = at[p].cur /\ at'[p].ip = at[p].ip /\ at'[p].path = at[p].path
         /\ at'[p].drop = at[p].drop /\ at'[p].next = at[p].next
         /\ \A q \in Proc : q # p => at'[q] = at[q]
  BY ZenonT(30) DEF Types, Place, At, Goto

\* A step to iput of ds, and from there to l.
LEMMA PutThenIs ==
  ASSUME Types, NEW p \in Proc, NEW ds \in Seq(Inum), NEW l \in Later, PutThen(p, ds, l)
  PROVE  /\ at' \in [Proc -> Place] /\ at'[p].pc = "put"
         /\ at'[p].cur = at[p].cur /\ at'[p].ip = at[p].ip /\ at'[p].path = at[p].path
         /\ at'[p].drop = ds /\ at'[p].next = l
         /\ \A q \in Proc : q # p => at'[q] = at[q]
  <1>1. "put" \in Pcs
    BY DEF Pcs
  <1> QED
    BY <1>1, ZenonT(30) DEF Types, Place, PutThen, Goto

\* A step of p that changes no open files.
LEMMA CountedStep ==
  ASSUME Types, Running, Counted, NEW p \in Proc, Types',
         UNCHANGED <<fref, fip, ofile, swapFile>>,
         \A q \in Proc : q # p => at'[q] = at[q] /\ cwd'[q] = cwd[q] /\ todo'[q] = todo[q],
         \A i \in Inum : ref'[i] = ref[i] - Here(i, cwd[p], at[p]) + Here(i, cwd'[p], at'[p]),
         Runs(p)',
         Busy(at'[p]) => todo'[p] = todo[p] /\ \/ Busy(at[p]) \/ Call(p).op # "swapon"
                                               \/ swapFile[p] = 0
  PROVE  Running' /\ Counted'
  <1>1. Running'
    BY OthersRun
  <1>2. ASSUME NEW i \in Inum
        PROVE  ref'[i] = Cardinality(Uses(i, Inodes')) + Cardinality(Opens(i)')
    <2>1. /\ Cardinality(Uses(i, Inodes)) \in Nat
          /\ Cardinality(Uses(i, Inodes'))
             = Cardinality(Uses(i, Inodes)) - Here(i, cwd[p], at[p]) + Here(i, cwd'[p], at'[p])
      BY InodesMoved
    <2>2. Opens(i)' = Opens(i) /\ Cardinality(Opens(i)) \in Nat
      BY OpensFinite, ZenonT(30) DEF Opens
    <2>3. ref[i] = Cardinality(Uses(i, Inodes)) + Cardinality(Opens(i))
      BY DEF Counted
    <2>4. Here(i, cwd[p], at[p]) \in Nat
      BY InodesTyped
    <2>5. Here(i, cwd'[p], at'[p]) \in Nat
      BY LocalsCount DEF Types
    <2> QED
      BY <2>1, <2>2, <2>3, <2>4, <2>5
  <1>3. Files' = Files
    BY DEF Files
  <1>4. \A q \in Proc : swapFile'[q] # 0 => /\ fref'[swapFile'[q]] = 1
                                            /\ Busy(at'[q]) => Call(q)'.op # "swapon"
    BY DEF Counted, Call
  <1>5. Counted'
    BY <1>2, <1>3, <1>4 DEF Counted
  <1> QED
    BY <1>1, <1>5

\* ... which keeps the copies in memory and takes locks that nobody has, or
\* gives back its own.
LEMMA CallStep ==
  ASSUME Types, Running, Counted, Locking, NEW p \in Proc, Types',
         UNCHANGED <<fref, fip, ofile, swapFile>>, valid \subseteq valid',
         \A q \in Proc : q # p => /\ at'[q] = at[q] /\ cwd'[q] = cwd[q] /\ todo'[q] = todo[q]
                                  /\ \A i \in Inum : lock[i] = q => lock'[i] = q,
         \A i \in Inum : ref'[i] = ref[i] - Here(i, cwd[p], at[p]) + Here(i, cwd'[p], at'[p]),
         at'[p].pc # "reap", Runs(p)', Locks(p)',
         Busy(at'[p]) => todo'[p] = todo[p] /\ \/ Busy(at[p]) \/ Call(p).op # "swapon"
                                               \/ swapFile[p] = 0
  PROVE  Running' /\ Counted' /\ Locking'
  <1>1. Running' /\ Counted'
    BY CountedStep
  <1>2. \A i : Opens(i)' = Opens(i)
    BY DEF Opens
  <1>3. \A i : ~Reaps(at'[p], i)
    BY DEF Reaps
  <1> QED
    BY <1>1, <1>2, <1>3, OthersLock
-----------------------------------------------------------------------------
(* The steps, one by one: namex.                                            *)

\* sys_open, sys_link and the others begin: namei starts at the root or at the working directory.
LEMMA BeginKeeps ==
  ASSUME Inv, phase = "up", NEW p \in Proc, Begin(p)
  PROVE  Inv'
  <1> USE DEF Inv
  <1> DEFINE c == Call(p)
             i == IF c.op = "swapon" THEN ROOTINO ELSE cwd[p]
             n == [at[p] EXCEPT !.pc = "walk", !.cur = i, !.path = c.path]
  <1>1. c \in Calls /\ c.path \in Seq(Names) /\ c.path # <<>> /\ i \in Inum
    <2>1. c \in Calls /\ WellMade(c) /\ c.path \in Seq(Names)
      BY CallIs DEF Begin
    <2>2. ROOTINO \in Inum /\ cwd[p] \in Inum
      BY FileSystemAssumption DEF Inum, ROOTINO, Types
    <2> QED
      BY <2>1, <2>2 DEF Begin, WellMade
  <1>2. n \in Place /\ n.pc = "walk" /\ n.cur = i /\ n.path = c.path /\ n.ip = 0
    <2>1. at[p] \in Place /\ at[p].ip = 0
      BY DEF Begin, Types, Running, Runs, Idle
    <2>2. "walk" \in Pcs
      BY DEF Pcs, Later
    <2> QED
      BY <1>1, <2>1, <2>2 DEF Place
  <1>3. at' \in [Proc -> Place] /\ at'[p] = n /\ \A q \in Proc : q # p => at'[q] = at[q]
    BY <1>2, GotoIs DEF Begin
  <1>4. /\ UNCHANGED <<fs, durable, valid, mem, lock, ftableVars, todo, phase, crashes>>
        /\ ref' = [ref EXCEPT ![i] = @ + 1] /\ ops' = ops \cup {p} /\ at[p].pc = "user"
        /\ todo[p] # <<>>
    BY DEF Begin, Iget
  <1> HIDE DEF i, n
  <1>5. Types'
    BY <1>1, <1>3, <1>4 DEF Types, ftableVars
  <1>6. ASSUME NEW k \in Inum
        PROVE  ref'[k] = ref[k] - Here(k, cwd[p], at[p]) + Here(k, cwd'[p], at'[p])
    BY <1>1, <1>2, <1>3, <1>4 DEF Types, ftableVars, Here, Puts, Stage, HasSecond, Holding
  <1>7. Runs(p)'
    BY <1>1, <1>2, <1>3, <1>4 DEF Runs, Placed, Puts, Stage, Call
  <1>8. Locks(p)'
    BY <1>2, <1>3 DEF Locks, Keeps, Puts, Stage
  <1>9. Busy(at'[p]) => todo'[p] = todo[p] /\ (c.op # "swapon" \/ swapFile[p] = 0)
    BY <1>4 DEF Begin
  <1>10. Running' /\ Counted' /\ Locking'
    BY <1>3, <1>4, <1>5, <1>6, <1>7, <1>8, <1>9, <1>2, CallStep DEF ftableVars
  <1> QED
    BY <1>4, <1>5, <1>10 DEF BlocksExact, Copies, FilesLive, ftableVars

\* A step of p that reads one inode under its lock.
LEMMA LookStep ==
  ASSUME Inv, phase = "up", NEW p \in Proc, NEW i \in Inum, Look(i), Ilock(i), Types',
         UNCHANGED <<durable, fref, fip, ofile, swapFile, todo>>,
         \A q \in Proc : q # p => /\ at'[q] = at[q] /\ cwd'[q] = cwd[q]
                                  /\ \A k \in Inum : lock[k] = q => lock'[k] = q,
         \A k \in Inum : ref'[k] = ref[k] - Here(k, cwd[p], at[p]) + Here(k, cwd'[p], at'[p]),
         at'[p].pc # "reap", Runs(p)', phase' # "panic" => Locks(p)',
         at[p].pc \in {"walk", "parent", "found", "existing", "opened", "victim", "undo", "write"}
  PROVE  Inv'
  <1> USE DEF Inv
  <1>1. fs' = fs /\ valid' = valid \cup {i}
    BY DEF Look
  <1>2. BlocksExact'
    BY <1>1 DEF BlocksExact
  <1>3. ASSUME phase' # "panic"
        PROVE  Running' /\ Counted' /\ Copies' /\ FilesLive' /\ Locking'
    <2>1. Copies' /\ FilesLive'
      BY <1>3, LookKeeps
    <2>2. Busy(at[p])
      BY DEF Busy, Stage, Puts
    <2>3. Running' /\ Counted' /\ Locking'
      BY <1>1, <1>3, <2>2, CallStep
    <2> QED
      BY <2>1, <2>3
  <1> QED
    BY <1>2, <1>3

\* Where a process is in its call.
LEMMA InCall ==
  ASSUME Inv, phase = "up", NEW p \in Proc, at[p].pc # "user"
  PROVE  /\ todo[p] # <<>> /\ Call(p) \in Calls /\ WellMade(Call(p))
         /\ Call(p).path \in Seq(Names) /\ Call(p).to \in Seq(Names)
         /\ at[p] \in Place /\ Placed(at[p], Call(p)) /\ cwd[p] \in Inum
         /\ at[p].drop \in Seq(Inum) /\ at[p].path \in Seq(Names) /\ at[p].next \in Later
         /\ at[p].ip \in Inum \cup {0} /\ at[p].cur \in Inum \cup {0}
  <1>1. todo[p] # <<>> /\ Placed(at[p], Call(p))
    BY DEF Inv, Running, Runs
  <1>2. at[p] \in Place /\ cwd[p] \in Inum
    BY DEF Inv, Types
  <1> QED
    BY <1>1, <1>2, CallIs DEF Inv, Place

\* namex: the directory is locked, looked up in and put, with the next one in hand or none.
LEMMA WalkKeeps ==
  ASSUME Inv, phase = "up", NEW p \in Proc, Walk(p)
  PROVE  Inv'
  <1> USE DEF Inv
  <1> DEFINE i == at[p].cur
             name == Head(at[p].path)
             last == Len(at[p].path) = 1
             next == fs.ents[i][name]
  <1>1. /\ at[p].pc = "walk" /\ Ilock(i) /\ Look(i)
        /\ UNCHANGED <<durable, lock, ftableVars, callVars, crashes>>
    BY DEF Walk
  <1>2. /\ i \in Inum /\ at[p].path # <<>> /\ at[p].ip \in Inum \cup {0}
        /\ at[p].path \in Seq(Names) /\ (at[p].ip # 0 => Call(p).op = "link")
        /\ todo[p] # <<>> /\ at[p] \in Place
    BY <1>1, InCall DEF Placed, Puts, Stage
  <1>3. name \in Names /\ next \in Inum \cup {0} /\ Tail(at[p].path) \in Seq(Names)
        /\ (~last => Tail(at[p].path) # <<>>)
    <2>1. name \in Names /\ Tail(at[p].path) \in Seq(Names)
          /\ Len(Tail(at[p].path)) = Len(at[p].path) - 1 /\ Len(at[p].path) \in Nat
      BY <1>2, HeadTailProperties
    <2>2. fs.ents[i] \in [Names -> Inum \cup {0}]
      BY <1>2 DEF Types, Disk
    <2>3. next \in Inum \cup {0}
      BY <2>1, <2>2
    <2>4. Len(Tail(at[p].path)) # 0 => Tail(at[p].path) # <<>>
      BY Zenon, EmptySeq
    <2>5. ~last => Tail(at[p].path) # <<>>
      BY <1>2, <2>1, <2>4
    <2> QED
      BY <2>1, <2>3, <2>5
  <1>4. /\ phase' \in {"up", "panic"} /\ fs' = fs
        /\ valid' = valid \cup {i} /\ valid' \in SUBSET Inum
        /\ mem' \in [Inum -> Inode]
    BY <1>1, <1>2, LookIs DEF Ilock
  <1> HIDE DEF i, name, last, next
  <1>5. CASE PutThen(p, <<i>>, IfMissing(p)) /\ UNCHANGED ref
    <2>1. IfMissing(p) \in Later /\ (IfMissing(p) = "undo" => at[p].ip \in Inum)
          /\ IfMissing(p) \in {"undo", "end"} /\ <<i>> \in Seq(Inum)
          /\ (IfMissing(p) = "undo" <=> at[p].ip # 0)
      BY <1>2 DEF IfMissing, LinksNow, Later
    <2>2. /\ at' \in [Proc -> Place] /\ at'[p].pc = "put"
          /\ at'[p].cur = i /\ at'[p].ip = at[p].ip
          /\ at'[p].drop = <<i>> /\ at'[p].next = IfMissing(p)
          /\ \A q \in Proc : q # p => at'[q] = at[q]
      BY <1>5, <2>1, PutThenIs DEF i
    <2>3. Types'
      BY <1>1, <1>4, <1>5, <2>2 DEF Types, ftableVars, callVars
    <2>4. ASSUME NEW k \in Inum
          PROVE  ref'[k] = ref[k] - Here(k, cwd[p], at[p]) + Here(k, cwd'[p], at'[p])
      BY <1>1, <1>2, <1>5, <2>1, <2>2, CountOne
      DEF Types, ftableVars, Here, Puts, Stage, HasSecond, Holding, i
    <2>5. Runs(p)'
      BY <1>1, <1>2, <2>1, <2>2 DEF Runs, Placed, Puts, Stage, Call, callVars
    <2>6. Locks(p)'
      BY <2>1, <2>2 DEF Locks, Keeps, Puts, Stage
    <2> QED
      BY <1>1, <1>2, <2>2, <2>3, <2>4, <2>5, <2>6, LookStep DEF ftableVars, callVars
  <1>6. CASE At(p, "parent") /\ UNCHANGED ref
    <2>1. "parent" \in Pcs
      BY DEF Pcs
    <2>2. /\ at' \in [Proc -> Place] /\ at'[p].pc = "parent"
          /\ at'[p].cur = i /\ at'[p].ip = at[p].ip /\ at'[p].path = at[p].path
          /\ \A q \in Proc : q # p => at'[q] = at[q]
      BY <1>6, <2>1, AtIs DEF i
    <2>3. Types'
      BY <1>1, <1>4, <1>6, <2>2 DEF Types, ftableVars, callVars
    <2>4. ASSUME NEW k \in Inum
          PROVE  ref'[k] = ref[k] - Here(k, cwd[p], at[p]) + Here(k, cwd'[p], at'[p])
      BY <1>1, <1>2, <1>6, <2>2
      DEF Types, ftableVars, Here, Puts, Stage, HasSecond, Holding, i
    <2>5. Runs(p)'
      BY <1>1, <1>2, <2>2 DEF Runs, Placed, Puts, Stage, Call, callVars
    <2>6. Locks(p)'
      <3>1. \A q \in Proc : ~Reaps(at[q], i)
        BY <1>1, FileSystemAssumption DEF Ilock, Locking, Locks, Reaps
      <3>2. \A q \in Proc : ~Reaps(at'[q], i)
        BY <2>2, <3>1 DEF Reaps
      <3> QED
        BY <1>4, <2>2, <3>2 DEF Locks, Keeps, Puts, Stage
    <2> QED
      BY <1>1, <1>2, <2>2, <2>3, <2>4, <2>5, <2>6, LookStep DEF ftableVars, callVars
  <1>7. CASE /\ next # 0 /\ Iget(next)
             /\ Goto(p, [at[p] EXCEPT !.pc = "put", !.drop = <<i>>, !.cur = next, !.path = Tail(@),
                                      !.next = IF last THEN "found" ELSE "walk"])
             /\ ~(last /\ WantsParent(p))
    <2> DEFINE l == IF last THEN "found" ELSE "walk"
               n == [at[p] EXCEPT !.pc = "put", !.drop = <<i>>, !.cur = next, !.path = Tail(@),
                                  !.next = l]
    <2>1. /\ n \in Place /\ n.pc = "put" /\ n.drop = <<i>> /\ n.cur = next /\ n.next = l
          /\ n.path = Tail(at[p].path) /\ n.ip = at[p].ip /\ l \in {"found", "walk"}
          /\ next \in Inum
      <3>1. "put" \in Pcs /\ l \in Later
        BY DEF Pcs, Later
      <3>2. <<i>> \in Seq(Inum)
        BY <1>2
      <3> QED
        BY <1>2, <1>3, <1>7, <3>1, <3>2 DEF Place
    <2>2. (l = "found" /\ at[p].ip = 0) \/ (l = "walk" /\ Tail(at[p].path) # <<>>)
      BY <1>2, <1>3, <1>7 DEF WantsParent, LinksNow
    <2>3. at' \in [Proc -> Place] /\ at'[p] = n /\ \A q \in Proc : q # p => at'[q] = at[q]
      BY <1>7, <2>1, GotoIs
    <2>4. ref' = [ref EXCEPT ![next] = @ + 1]
      BY <1>7 DEF Iget
    <2>9. /\ at'[p].pc = "put" /\ at'[p].drop = <<i>> /\ at'[p].cur = next /\ at'[p].next = l
          /\ at'[p].path = Tail(at[p].path) /\ at'[p].ip = at[p].ip
      BY <2>1, <2>3
    <2> HIDE DEF n, l
    <2>5. Types'
      BY <1>1, <1>4, <2>1, <2>3, <2>4 DEF Types, ftableVars, callVars
    <2>6. ASSUME NEW k \in Inum
          PROVE  ref'[k] = ref[k] - Here(k, cwd[p], at[p]) + Here(k, cwd'[p], at'[p])
      <3>1. Count(k, at'[p].drop) = IF i = k THEN 1 ELSE 0
        BY <2>9, CountOne
      <3>2. /\ ref[k] \in Int /\ ref'[k] = ref[k] + (IF k = next THEN 1 ELSE 0)
            /\ cwd'[p] = cwd[p]
        BY <1>1, <2>1, <2>4 DEF Types, ftableVars
      <3>3. CASE l = "found"
        BY <1>1, <2>2, <2>9, <3>1, <3>2, <3>3 DEF Here, Puts, Stage, HasSecond, Holding, i
      <3>4. CASE l = "walk"
        BY <1>1, <2>2, <2>9, <3>1, <3>2, <3>4 DEF Here, Puts, Stage, HasSecond, Holding, i
      <3> QED
        BY <2>2, <3>3, <3>4
    <2>7. Runs(p)'
      <3>1. todo'[p] # <<>> /\ Call(p)' = Call(p)
        BY <1>1, <1>2 DEF callVars, Call
      <3>2. CASE l = "found"
        BY <1>2, <2>1, <2>2, <2>9, <3>1, <3>2 DEF Runs, Placed, Puts, Stage
      <3>3. CASE l = "walk"
        BY <1>2, <2>1, <2>2, <2>9, <3>1, <3>3 DEF Runs, Placed, Puts, Stage
      <3> QED
        BY <2>2, <3>2, <3>3
    <2>8. Locks(p)'
      BY <2>1, <2>9 DEF Locks, Keeps, Puts, Stage
    <2> QED
      BY <1>1, <1>2, <2>1, <2>3, <2>5, <2>6, <2>7, <2>8, LookStep DEF ftableVars, callVars
  <1> QED
    BY <1>5, <1>6, <1>7 DEF Walk, i, name, last, next
-----------------------------------------------------------------------------
(* iput.                                                                    *)

\* A process has a reference to the inode in its hand and to the one that it puts.
LEMMA HereAtLeast ==
  ASSUME NEW r \in Place, NEW c \in Inum, NEW x
  PROVE  /\ Here(x, c, r) \in Nat
         /\ Stage(r) \in Holding /\ r.cur = x => Here(x, c, r) >= 1
         /\ Puts(r) /\ r.drop # <<>> /\ Head(r.drop) = x => Here(x, c, r) >= 1
         /\ Puts(r) /\ r.drop # <<>> /\ Head(r.drop) = x /\ Stage(r) \in Holding /\ r.cur = x
              => Here(x, c, r) >= 2
  <1>1. Here(x, c, r) \in Nat
    BY LocalsCount
  <1>2. r.drop \in Seq(Inum)
    BY DEF Place
  <1>3. Count(x, r.drop) \in Nat
    BY <1>2, CountFinite
  <1>4. r.drop # <<>> /\ Head(r.drop) = x => Count(x, r.drop) >= 1
    BY <1>2, CountHead
  <1> QED
    BY <1>1, <1>3, <1>4 DEF Here

\* The process that gives the last reference to i back is the only one near i.
LEMMA LastUser ==
  ASSUME Inv, phase = "up", NEW p \in Proc, at[p].pc \in {"put", "unref"}, NEW i,
         i = Head(at[p].drop), ref[i] = 1
  PROVE  /\ Opens(i) = {}
         /\ ~(Stage(at[p]) \in Holding /\ at[p].cur = i)
         /\ \A q \in Proc : q # p => /\ ~(Stage(at[q]) \in Holding /\ at[q].cur = i)
                                     /\ ~Reaps(at[q], i)
  <1> USE DEF Inv
  <1>1. Puts(at[p]) /\ at[p].drop # <<>> /\ at[p] \in Place /\ cwd[p] \in Inum /\ i \in Inum
    BY InCall DEF Placed, Puts
  <1>2. Here(i, cwd[p], at[p]) >= 1 /\ Here(i, cwd[p], at[p]) \in Nat
    BY <1>1, HereAtLeast
  <1>3. ref[i] >= Here(i, cwd[p], at[p]) + Cardinality(Opens(i))
    BY <1>1, RefAtLeast
  <1>4. Opens(i) = {}
    BY <1>2, <1>3, OpensFinite
  <1>5. ~(Stage(at[p]) \in Holding /\ at[p].cur = i)
    <2>1. Cardinality(Opens(i)) \in Nat
      BY OpensFinite
    <2>2. ~(Here(i, cwd[p], at[p]) >= 2)
      BY <1>2, <1>3, <2>1
    <2> QED
      BY <1>1, <2>2, HereAtLeast
  <1>6. ASSUME NEW q \in Proc, q # p
        PROVE  ~(Stage(at[q]) \in Holding /\ at[q].cur = i) /\ ~Reaps(at[q], i)
    <2>1. at[q] \in Place /\ cwd[q] \in Inum
      BY DEF Types
    <2>2. ~(Here(i, cwd[q], at[q]) >= 1)
      BY <1>1, <1>2, <1>6, RefOfTwo
    <2>3. at[q].pc = "reap" => Puts(at[q]) /\ at[q].drop # <<>>
      BY DEF Running, Runs, Placed, Puts
    <2> QED
      BY <2>1, <2>2, <2>3, HereAtLeast DEF Reaps
  <1> QED
    BY <1>4, <1>5, <1>6

\* iput drops a reference that is in hand, and the inode stays.
LEMMA UnrefKeeps ==
  ASSUME Inv, phase = "up", NEW p \in Proc, at[p].pc \in {"put", "unref"}, NEW i,
         i = Head(at[p].drop), Unref(p, i),
         UNCHANGED <<fs, durable, lock, ftableVars, callVars, phase, crashes>>
  PROVE  Inv'
  <1> USE DEF Inv
  <1> DEFINE r == at[p]
             l == IF Len(r.drop) = 1 THEN r.next ELSE "put"
             n == [r EXCEPT !.drop = Tail(@), !.pc = l]
  <1>1. /\ Puts(r) /\ r.drop # <<>> /\ r \in Place /\ cwd[p] \in Inum /\ i \in Inum
        /\ r.drop \in Seq(Inum) /\ r.next \in Later /\ todo[p] # <<>> /\ Placed(r, Call(p))
        /\ Stage(r) = r.next
    BY InCall DEF Placed, Puts, Stage
  <1>2. /\ Tail(r.drop) \in Seq(Inum) /\ (Len(r.drop) = 1 <=> Tail(r.drop) = <<>>)
        /\ \A k : Count(k, r.drop) = (IF i = k THEN 1 ELSE 0) + Count(k, Tail(r.drop))
        /\ \A k : Count(k, Tail(r.drop)) \in Nat
    <2>1. /\ Tail(r.drop) \in Seq(Inum) /\ Len(Tail(r.drop)) = Len(r.drop) - 1
          /\ Len(r.drop) \in Nat
      BY <1>1, HeadTailProperties
    <2>2. Len(Tail(r.drop)) = 0 <=> Tail(r.drop) = <<>>
      BY <2>1, EmptySeq
    <2>3. \A k : Count(k, r.drop) = (IF i = k THEN 1 ELSE 0) + Count(k, Tail(r.drop))
      BY <1>1, CountTail
    <2>4. \A k : Count(k, Tail(r.drop)) \in Nat
      BY <2>1, CountFinite
    <2> QED
      BY <2>1, <2>2, <2>3, <2>4
  <1>3. at' = [at EXCEPT ![p] = n]
    BY DEF Unref, Goto
  <1>4. /\ at' \in [Proc -> Place] /\ at'[p].drop = Tail(r.drop) /\ at'[p].next = r.next
        /\ at'[p].cur = r.cur /\ at'[p].ip = r.ip /\ at'[p].path = r.path
        /\ at'[p].pc = l /\ \A q \in Proc : q # p => at'[q] = at[q]
    <2>1. l \in Pcs
      BY <1>1 DEF Pcs
    <2> HIDE DEF l
    <2>2. n \in Place
      BY <1>1, <1>2, <2>1 DEF Place
    <2> QED
      BY <1>1, <1>3, <2>2 DEF Types, Place
  <1>5. /\ ref' = [ref EXCEPT ![i] = @ - 1]
        /\ valid' = IF ref[i] = 1 THEN valid \ {i} ELSE valid
        /\ mem' = IF ref[i] = 1 THEN [mem EXCEPT ![i] = NoInode] ELSE mem
    BY DEF Unref
  <1>6. Stage(at'[p]) = r.next /\ at'[p].pc # "reap" /\ at'[p].pc # "parent"
        /\ (Puts(at'[p]) <=> Tail(r.drop) # <<>>)
    BY <1>1, <1>2, <1>4 DEF Stage, Puts, Later
  <1> HIDE DEF r, l, n
  <1>7. Types'
    <2>1. NoInode \in Inode
      BY DEF NoInode, Inode
    <2> QED
      BY <1>1, <1>4, <1>5, <2>1 DEF Types, ftableVars, callVars
  <1>8. ASSUME NEW k \in Inum
        PROVE  ref'[k] = ref[k] - Here(k, cwd[p], r) + Here(k, cwd'[p], at'[p])
    <2>1. /\ Count(k, r.drop) = (IF i = k THEN 1 ELSE 0) + Count(k, Tail(r.drop))
          /\ Count(k, Tail(r.drop)) \in Nat
      BY <1>2
    <2>2. /\ ref[k] \in Int /\ ref'[k] = ref[k] - (IF k = i THEN 1 ELSE 0)
          /\ cwd'[p] = cwd[p]
      BY <1>1, <1>5 DEF Types, ftableVars
    <2>3. Tail(r.drop) = <<>> => Count(k, Tail(r.drop)) = 0
      BY CountNone
    <2>4. HasSecond(at'[p]) <=> HasSecond(r)
      BY <1>1, <1>4, <1>6 DEF HasSecond
    <2>5. /\ (IF Puts(r) THEN Count(k, r.drop) ELSE 0) = Count(k, r.drop)
          /\ (IF Puts(at'[p]) THEN Count(k, at'[p].drop) ELSE 0) = Count(k, Tail(r.drop))
      BY <1>1, <1>4, <1>6, <2>3
    <2>6. Stage(at'[p]) = Stage(r) /\ at'[p].cur = r.cur /\ at'[p].ip = r.ip
      BY <1>1, <1>4, <1>6
    <2> QED
      BY <2>1, <2>2, <2>4, <2>5, <2>6 DEF Here
  <1>9. Runs(p)'
    <2>1. todo'[p] # <<>> /\ Call(p)' = Call(p)
      BY <1>1 DEF callVars, Call
    <2>2. Placed(at'[p], Call(p))
      BY <1>1, <1>4, <1>6 DEF Placed
    <2>3. at'[p].pc # "user" /\ at'[p].pc # "write"
      BY <1>1, <1>4 DEF Later, l
    <2> QED
      BY <2>1, <2>2, <2>3 DEF Runs
  <1>10. Running' /\ Counted'
    <2>1. Busy(at'[p]) => Busy(at[p])
      BY <1>1, <1>6 DEF Busy, r
    <2> QED
      BY <1>4, <1>7, <1>8, <1>9, <2>1, CountedStep DEF r, ftableVars, callVars
  <1>11. Locks(p)'
    <2>1. Keeps(at'[p]) <=> Keeps(r)
      BY <1>1, <1>6 DEF Keeps
    <2>2. Keeps(r) => lock[r.cur] = p /\ r.cur \in valid /\ Stage(r) \in Holding
      BY DEF Locking, Locks, Keeps, Holding, r
    <2>3. Keeps(r) => r.cur \in valid'
      BY <1>5, <2>2, LastUser DEF r
    <2> QED
      BY <1>4, <1>6, <2>1, <2>2, <2>3 DEF Locks, Reaps
  <1>12. Locking'
    <2>1. \A q : Opens(q)' = Opens(q)
      BY DEF Opens, ftableVars
    <2>2. ASSUME NEW q \in Proc, q # p, NEW k \in valid,
                 \/ (Keeps(at[q]) \/ at[q].pc = "parent") /\ at[q].cur = k
                 \/ Reaps(at[q], k)
          PROVE  k \in valid'
      <3>1. Keeps(at[q]) \/ at[q].pc = "parent" => Stage(at[q]) \in Holding
        BY DEF Keeps, Holding, Stage, Puts
      <3> QED
        BY <1>5, <2>2, <3>1, LastUser
    <2>3. \A k : ~Reaps(at'[p], k)
      BY <1>6 DEF Reaps
    <2> QED
      BY <1>4, <1>11, <2>1, <2>2, <2>3, OthersLock
  <1>13. Copies' /\ FilesLive' /\ BlocksExact'
    BY <1>5 DEF Copies, FilesLive, BlocksExact, ftableVars, Types
  <1> QED
    BY <1>7, <1>10, <1>12, <1>13

\* iput up to the test: the last reference to an inode with no links locks it.
LEMMA PutKeeps ==
  ASSUME Inv, phase = "up", NEW p \in Proc, Put(p)
  PROVE  Inv'
  <1> USE DEF Inv
  <1> DEFINE r == at[p]
             i == Head(r.drop)
  <1>1. r.pc = "put" /\ UNCHANGED <<fs, durable, ftableVars, callVars, crashes>>
    BY DEF Put
  <1>2. CASE ~Orphan(i) /\ Unref(p, i) /\ UNCHANGED <<lock, phase>>
    BY <1>1, <1>2, UnrefKeeps
  <1>3. CASE /\ Orphan(i) /\ Lock(p, i) /\ At(p, "reap") /\ UNCHANGED <<ref, valid, mem>>
             /\ phase' = IF lock[i] # Nobody THEN "panic" ELSE phase
    <2>1. /\ Puts(r) /\ r.drop # <<>> /\ r \in Place /\ r.drop \in Seq(Inum) /\ r.next \in Later
          /\ todo[p] # <<>> /\ Placed(r, Call(p)) /\ Stage(r) = r.next
      BY <1>1, InCall DEF Placed, Puts, Stage
    <2>2. i \in Inum /\ ref[i] = 1 /\ i \in valid
      BY <1>3, <2>1 DEF Orphan
    <2>3. /\ at' \in [Proc -> Place] /\ at'[p].pc = "reap"
          /\ at'[p].cur = r.cur /\ at'[p].ip = r.ip /\ at'[p].path = r.path
          /\ at'[p].drop = r.drop /\ at'[p].next = r.next
          /\ \A q \in Proc : q # p => at'[q] = at[q]
      <3>1. "reap" \in Pcs
        BY DEF Pcs
      <3> QED
        BY <1>3, <3>1, AtIs
    <2>4. Stage(at'[p]) = Stage(r) /\ Puts(at'[p]) /\ at'[p].pc # "parent"
      BY <2>1, <2>3 DEF Stage, Puts
    <2>5. Types'
      BY <1>1, <1>3, <2>2, <2>3 DEF Types, ftableVars, callVars, Lock
    <2>6. BlocksExact'
      BY <1>1 DEF BlocksExact
    <2>7. ASSUME NEW k \in Inum
          PROVE  ref'[k] = ref[k] - Here(k, cwd[p], r) + Here(k, cwd'[p], at'[p])
      <3>1. Here(k, cwd'[p], at'[p]) = Here(k, cwd[p], r)
        BY <1>1, <2>1, <2>3, <2>4 DEF Here, HasSecond, ftableVars
      <3>2. Here(k, cwd[p], r) \in Nat /\ ref[k] \in Int
        BY InodesTyped DEF Types
      <3> QED
        BY <1>3, <3>1, <3>2
    <2>8. Runs(p)'
      <3>1. todo'[p] # <<>> /\ Call(p)' = Call(p)
        BY <1>1, <2>1 DEF callVars, Call
      <3>2. Placed(at'[p], Call(p))
        BY <2>1, <2>3, <2>4 DEF Placed
      <3> QED
        BY <2>3, <3>1, <3>2 DEF Runs
    <2>9. Running' /\ Counted'
      <3>1. Busy(at'[p]) => Busy(at[p])
        BY <2>4 DEF Busy
      <3> QED
        BY <1>1, <2>3, <2>5, <2>7, <2>8, <3>1, CountedStep DEF ftableVars, callVars
    <2>10. ASSUME phase' # "panic"
           PROVE  Locking' /\ Copies' /\ FilesLive'
      <3>1. lock[i] = Nobody /\ lock' = [lock EXCEPT ![i] = p]
        BY <1>3, <2>10 DEF Lock
      <3>2. Keeps(r) => lock[r.cur] = p /\ r.cur \in valid
        BY DEF Locking, Locks
      <3>3. Keeps(r) => lock'[r.cur] = p /\ r.cur \in valid' /\ r.cur # i
        BY <1>3, <2>2, <3>1, <3>2, FileSystemAssumption DEF Types
      <3>4. Opens(i) = {} /\ \A k : Opens(k)' = Opens(k)
        <4>1. Opens(i) = {}
          BY <1>1, <2>2, LastUser
        <4>2. \A k : Opens(k)' = Opens(k)
          BY <1>1 DEF Opens, ftableVars
        <4> QED
          BY <4>1, <4>2
      <3>5. lock'[i] = p
        BY <2>2, <3>1 DEF Types
      <3>6. Locks(p)'
        BY <1>3, <2>2, <2>3, <2>4, <3>3, <3>4, <3>5 DEF Locks, Keeps, Reaps
      <3>7. \A q \in Proc : q # p => (at[q].pc = "parent" => ~Reaps(at'[p], at[q].cur))
        <4>1. \A q \in Proc : q # p /\ at[q].pc = "parent" => at[q].cur # i
          BY <1>1, <2>2, LastUser DEF Stage, Puts, Holding
        <4> QED
          BY <2>3, <4>1 DEF Reaps
      <3>8. \A q \in Proc : q # p => \A k \in Inum : lock[k] = q => lock'[k] = q
        BY <2>2, <3>1, FileSystemAssumption DEF Types
      <3>9. Locking'
        BY <1>3, <2>3, <3>4, <3>6, <3>7, <3>8, OthersLock
      <3> QED
        BY <1>1, <1>3, <3>9 DEF Copies, FilesLive, ftableVars
    <2> QED
      BY <2>5, <2>6, <2>9, <2>10
  <1> QED
    BY <1>2, <1>3 DEF Put

\* The end of iput: the reference is dropped.
LEMMA DropRefKeeps ==
  ASSUME Inv, phase = "up", NEW p \in Proc, DropRef(p)
  PROVE  Inv'
  BY UnrefKeeps DEF DropRef

\* iput frees an inode: nobody else has it and no file is open on it.
LEMMA ReapKeeps ==
  ASSUME Inv, phase = "up", NEW p \in Proc, Reap(p)
  PROVE  Inv'
  <1> USE DEF Inv
  <1> DEFINE r == at[p]
             i == Head(r.drop)
  <1>1. /\ r.pc = "reap" /\ At(p, "unref") /\ Unlock(i)
        /\ UNCHANGED <<durable, ref, ftableVars, callVars, phase, crashes>>
        /\ fs' = [ino |-> [fs.ino EXCEPT ![i] = NoInode],
                  ents |-> [fs.ents EXCEPT ![i] = NoEntries],
                  used |-> fs.used \ FreedBlocks(i)]
        /\ mem' = [mem EXCEPT ![i] = NoInode] /\ valid' = valid \ {i}
    BY DEF Reap, Invalidated
  <1>2. /\ Puts(r) /\ r.drop # <<>> /\ r \in Place /\ r.drop \in Seq(Inum) /\ r.next \in Later
        /\ todo[p] # <<>> /\ Placed(r, Call(p)) /\ Stage(r) = r.next
    BY <1>1, InCall DEF Placed, Puts, Stage
  <1>3. i \in Inum /\ i \in valid /\ lock[i] = p /\ Opens(i) = {}
    BY <1>1, <1>2 DEF Locking, Locks
  <1>4. /\ at' \in [Proc -> Place] /\ at'[p].pc = "unref"
        /\ at'[p].cur = r.cur /\ at'[p].ip = r.ip /\ at'[p].path = r.path
        /\ at'[p].drop = r.drop /\ at'[p].next = r.next
        /\ \A q \in Proc : q # p => at'[q] = at[q]
    <2>1. "unref" \in Pcs
      BY DEF Pcs
    <2> QED
      BY <1>1, <2>1, AtIs
  <1>5. Stage(at'[p]) = Stage(r) /\ Puts(at'[p]) /\ at'[p].pc # "parent"
    BY <1>2, <1>4 DEF Stage, Puts
  <1>6. /\ \A k \in Inum : fs'.ino[k] = IF k = i THEN NoInode ELSE fs.ino[k]
        /\ fs'.used = fs.used \ fs.ino[i].addrs /\ fs' \in Disk
        /\ mem' \in [Inum -> Inode] /\ \A k \in Inum : k # i => mem'[k] = mem[k]
    <2>1. mem[i] = fs.ino[i]
      BY <1>3 DEF Copies
    <2>2. NoInode \in Inode /\ NoEntries \in [Names -> Inum \cup {0}]
      BY DEF NoInode, NoEntries, Inode
    <2> QED
      BY <1>1, <1>3, <2>1, <2>2 DEF Types, Disk, FreedBlocks
  <1>7. /\ lock' = [lock EXCEPT ![i] = Nobody]
    BY <1>1 DEF Unlock
  <1>8. Types'
    BY <1>1, <1>3, <1>4, <1>6, <1>7 DEF Types, ftableVars, callVars
  <1>9. BlocksExact'
    <2>1. Exact(fs')
      <3>1. NoInode.addrs = {}
        BY DEF NoInode
      <3> QED
        <4>1. Exact(fs) /\ fs'.ino[i].addrs = {} /\ fs'.used = fs.used \ fs.ino[i].addrs
          BY <1>3, <1>6, <3>1, ExactDisks
        <4>2. \A k \in Inum : k # i => /\ fs'.ino[k].addrs = fs.ino[k].addrs
                                       /\ fs'.ino[k].type = "free" => fs.ino[k].type = "free"
          BY <1>6
        <4> QED
          BY <1>3, <4>1, <4>2, ExactFreed
    <2> QED
      BY <1>1, <2>1, ExactDisks
  <1>10. ASSUME NEW k \in Inum
         PROVE  ref'[k] = ref[k] - Here(k, cwd[p], r) + Here(k, cwd'[p], at'[p])
    <2>1. Here(k, cwd'[p], at'[p]) = Here(k, cwd[p], r)
      BY <1>1, <1>2, <1>4, <1>5 DEF Here, HasSecond, ftableVars
    <2>2. Here(k, cwd[p], r) \in Nat /\ ref[k] \in Int
      BY InodesTyped DEF Types
    <2> QED
      BY <1>1, <2>1, <2>2
  <1>11. Runs(p)'
    <2>1. todo'[p] # <<>> /\ Call(p)' = Call(p)
      BY <1>1, <1>2 DEF callVars, Call
    <2>2. Placed(at'[p], Call(p))
      BY <1>2, <1>4, <1>5 DEF Placed
    <2> QED
      BY <1>4, <2>1, <2>2 DEF Runs
  <1>12. Running' /\ Counted'
    <2>1. Busy(at'[p]) => Busy(at[p])
      BY <1>5 DEF Busy
    <2> QED
      BY <1>1, <1>4, <1>8, <1>10, <1>11, <2>1, CountedStep DEF ftableVars, callVars
  <1>13. \A k : Opens(k)' = Opens(k)
    BY <1>1 DEF Opens, ftableVars
  <1>14. Locks(p)'
    <2>1. Keeps(r) => lock[r.cur] = p /\ r.cur \in valid /\ r.cur # i
      BY <1>1 DEF Locking, Locks, Reaps
    <2>2. Keeps(r) => lock'[r.cur] = p /\ r.cur \in valid'
      BY <1>1, <1>7, <2>1 DEF Types
    <2> QED
      BY <1>4, <1>5, <2>2 DEF Locks, Keeps, Reaps
  <1>15. Locking'
    <2>1. ASSUME NEW q \in Proc, q # p, NEW k \in valid,
                 \/ (Keeps(at[q]) \/ at[q].pc = "parent") /\ at[q].cur = k
                 \/ Reaps(at[q], k)
          PROVE  k \in valid'
      <3>1. Keeps(at[q]) \/ Reaps(at[q], k) => k # i
        BY <1>3, <2>1 DEF Locking, Locks, Reaps, Keeps, Stage, Puts
      <3>2. at[q].pc = "parent" => at[q].cur # i
        BY <1>1 DEF Locking, Locks, Reaps
      <3> QED
        BY <1>1, <2>1, <3>1, <3>2
    <2>2. \A k : ~Reaps(at'[p], k)
      BY <1>4 DEF Reaps
    <2>3. \A q \in Proc : q # p => \A k \in Inum : lock[k] = q => lock'[k] = q
      BY <1>3, <1>7 DEF Types
    <2> QED
      BY <1>4, <1>13, <1>14, <2>1, <2>2, <2>3, OthersLock
  <1>16. Copies'
    BY <1>1, <1>6 DEF Copies, Types
  <1>17. FilesLive'
    <2>1. \A f \in File : fref[f] > 0 => fip[f] # i
      BY <1>3 DEF Opens
    <2> QED
      BY <1>1, <1>6, <2>1 DEF FilesLive, ftableVars
  <1> QED
    BY <1>8, <1>9, <1>12, <1>15, <1>16, <1>17
-----------------------------------------------------------------------------
(* create, open, chdir, link and unlink.                                    *)

\* A step of p that writes inodes under their locks.
LEMMA WriteStep ==
  ASSUME Inv, phase = "up", NEW p \in Proc, NEW D \in SUBSET Inum, NEW new \in [D -> Inode],
         NEW ents \in [Inum -> [Names -> Inum \cup {0}]], NEW used \in SUBSET Block,
         Write(new, ents, used), Types', Exact(fs'),
         UNCHANGED <<durable, fref, fip, ofile, swapFile, todo>>,
         \A q \in Proc : q # p => /\ at'[q] = at[q] /\ cwd'[q] = cwd[q]
                                  /\ \A k \in Inum : lock[k] = q => lock'[k] = q,
         \A k \in Inum : ref'[k] = ref[k] - Here(k, cwd[p], at[p]) + Here(k, cwd'[p], at'[p]),
         at'[p].pc # "reap", Runs(p)',
         phase' # "panic" => Locks(p)' /\ \A i \in D : new[i].type # "free",
         at[p].pc \in {"walk", "parent", "found", "existing", "opened", "victim", "undo", "write"}
  PROVE  Inv'
  <1> USE DEF Inv
  <1>1. BlocksExact'
    BY ExactDisks
  <1>2. valid \subseteq valid'
    BY DEF Write
  <1>3. ASSUME phase' # "panic"
        PROVE  Running' /\ Counted' /\ Copies' /\ FilesLive' /\ Locking'
    <2>1. Copies' /\ FilesLive'
      BY <1>3, WriteKeeps
    <2>2. Busy(at[p])
      BY DEF Busy, Stage, Puts
    <2>3. Running' /\ Counted' /\ Locking'
      BY <1>2, <1>3, <2>2, CallStep
    <2> QED
      BY <2>1, <2>3
  <1> QED
    BY <1>1, <1>3

\* A step of p that leaves inodes and blocks alone.
LEMMA QuietStep ==
  ASSUME Inv, phase = "up", NEW p \in Proc, Types', durable' \in {durable, fs},
         UNCHANGED <<fs, valid, mem, fref, fip, ofile, swapFile>>,
         \A q \in Proc : q # p => /\ at'[q] = at[q] /\ cwd'[q] = cwd[q] /\ todo'[q] = todo[q]
                                  /\ \A k \in Inum : lock[k] = q => lock'[k] = q,
         \A k \in Inum : ref'[k] = ref[k] - Here(k, cwd[p], at[p]) + Here(k, cwd'[p], at'[p]),
         at'[p].pc # "reap", Runs(p)', Locks(p)',
         Busy(at'[p]) => todo'[p] = todo[p] /\ \/ Busy(at[p]) \/ Call(p).op # "swapon"
                                               \/ swapFile[p] = 0
  PROVE  Inv'
  <1> USE DEF Inv
  <1>1. BlocksExact'
    BY DEF BlocksExact
  <1>2. Copies' /\ FilesLive'
    BY DEF Copies, FilesLive
  <1>3. Running' /\ Counted' /\ Locking'
    BY CallStep
  <1> QED
    BY <1>1, <1>2, <1>3

\* The end of a call, with references to give back.
LEMMA PutAtEnd ==
  ASSUME Types, NEW p \in Proc, NEW ds \in Seq(Inum), ds # <<>>, PutThen(p, ds, "end"),
         todo[p] # <<>>, todo'[p] = todo[p]
  PROVE  /\ at' \in [Proc -> Place] /\ \A q \in Proc : q # p => at'[q] = at[q]
         /\ at'[p].pc # "reap" /\ Runs(p)' /\ Locks(p)'
         /\ \A k, c : Here(k, c, at'[p]) = (IF c = k THEN 1 ELSE 0) + Count(k, ds)
  <1>1. /\ at' \in [Proc -> Place] /\ at'[p].pc = "put" /\ at'[p].drop = ds /\ at'[p].next = "end"
        /\ \A q \in Proc : q # p => at'[q] = at[q]
    BY PutThenIs DEF Later
  <1>2. Puts(at'[p]) /\ Stage(at'[p]) = "end"
    BY <1>1 DEF Puts, Stage
  <1>3. Runs(p)'
    BY <1>1, <1>2 DEF Runs, Placed
  <1>4. Locks(p)'
    BY <1>1, <1>2 DEF Locks, Keeps
  <1>5. ASSUME NEW k, NEW c
        PROVE  Here(k, c, at'[p]) = (IF c = k THEN 1 ELSE 0) + Count(k, ds)
    <2>1. Count(k, ds) \in Nat
      BY CountFinite
    <2> QED
      BY <1>1, <1>2, <2>1 DEF Here, HasSecond, Holding
  <1> QED
    BY <1>1, <1>3, <1>4, <1>5

\* What a process has before it goes to the end of its call.
LEMMA HereOf ==
  ASSUME Inv, phase = "up", NEW p \in Proc, NEW k \in Inum
  PROVE  /\ ref[k] \in Int
         /\ at[p].pc \in {"found", "existing", "opened"}
              => Here(k, cwd[p], at[p]) = (IF cwd[p] = k THEN 1 ELSE 0)
                                          + (IF at[p].cur = k THEN 1 ELSE 0)
         /\ at[p].pc = "parent"
              => Here(k, cwd[p], at[p]) = (IF cwd[p] = k THEN 1 ELSE 0)
                                          + (IF at[p].cur = k THEN 1 ELSE 0)
                                          + (IF at[p].ip # 0 /\ at[p].ip = k THEN 1 ELSE 0)
         /\ at[p].pc = "victim"
              => Here(k, cwd[p], at[p]) = (IF cwd[p] = k THEN 1 ELSE 0)
                                          + (IF at[p].cur = k THEN 1 ELSE 0)
                                          + (IF at[p].ip = k THEN 1 ELSE 0)
         /\ at[p].pc = "undo"
              => Here(k, cwd[p], at[p]) = (IF cwd[p] = k THEN 1 ELSE 0)
                                          + (IF at[p].ip = k THEN 1 ELSE 0)
         /\ at[p].pc \in {"user", "write", "end", "again"}
              => Here(k, cwd[p], at[p]) = IF cwd[p] = k THEN 1 ELSE 0
  BY DEF Inv, Types, Here, Puts, Stage, HasSecond, Holding

\* A directory found by name is locked without a panic.
LEMMA ParentIs ==
  ASSUME Inv, phase = "up", NEW p \in Proc, at[p].pc = "parent"
  PROVE  /\ at[p].cur \in Inum /\ at[p].cur \in valid /\ fs.ino[at[p].cur].type # "free"
         /\ at[p].path # <<>> /\ Head(at[p].path) \in Names
         /\ fs.ents[at[p].cur][Head(at[p].path)] \in Inum \cup {0}
         /\ (at[p].ip # 0 => Call(p).op = "link")
         /\ (Ilock(at[p].cur) => phase' = "up" /\ lock[at[p].cur] = Nobody)
  <1> USE DEF Inv
  <1>1. /\ at[p].cur \in Inum /\ at[p].path # <<>> /\ at[p].path \in Seq(Names)
        /\ (at[p].ip # 0 => Call(p).op = "link")
    BY InCall DEF Placed, Puts, Stage
  <1>2. at[p].cur \in valid
    BY DEF Locking, Locks
  <1>3. fs.ino[at[p].cur].type # "free"
    BY <1>2 DEF Copies
  <1>4. Head(at[p].path) \in Names
    BY <1>1
  <1>5. fs.ents[at[p].cur] \in [Names -> Inum \cup {0}]
    BY <1>1 DEF Types, Disk
  <1> QED
    BY <1>1, <1>2, <1>3, <1>4, <1>5 DEF Ilock

\* create finds the name.
LEMMA CreateFindsKeeps ==
  ASSUME Inv, phase = "up", NEW p \in Proc, CreateFinds(p)
  PROVE  Inv'
  <1> USE DEF Inv
  <1> DEFINE dp == at[p].cur
             i  == fs.ents[dp][Head(at[p].path)]
             n  == [at[p] EXCEPT !.pc = "put", !.drop = <<dp>>, !.cur = i, !.next = "existing"]
  <1>1. /\ at[p].pc = "parent" /\ Ilock(dp) /\ Look(dp) /\ Iget(i) /\ i # 0
        /\ Goto(p, n) /\ Call(p).op \in {"create", "mkdir", "swapon"}
        /\ UNCHANGED <<durable, lock, ftableVars, callVars, crashes>>
    BY SMTT(30) DEF CreateFinds, CreateHere
  <1>2. /\ dp \in Inum /\ i \in Inum /\ phase' = "up" /\ at[p].ip = 0
        /\ todo[p] # <<>> /\ at[p] \in Place /\ cwd[p] \in Inum
    BY <1>1, ParentIs, InCall, ZenonT(30)
  <1>3. /\ n \in Place /\ n.pc = "put" /\ n.drop = <<dp>> /\ n.cur = i /\ n.next = "existing"
    <2>1. "put" \in Pcs /\ "existing" \in Later /\ <<dp>> \in Seq(Inum)
      BY <1>2 DEF Pcs, Later
    <2> QED
      BY <1>2, <2>1 DEF Place
  <1>4. /\ at' \in [Proc -> Place] /\ at'[p] = n /\ \A q \in Proc : q # p => at'[q] = at[q]
    BY <1>1, <1>3, GotoIs
  <1>5. /\ at'[p].pc = "put" /\ at'[p].drop = <<dp>> /\ at'[p].cur = i
        /\ Stage(at'[p]) = "existing" /\ Puts(at'[p])
    BY <1>3, <1>4 DEF Stage, Puts
  <1> HIDE DEF n, i, dp
  <1>6. Types'
    BY <1>1, <1>2, <1>4, LookIs DEF Types, Iget, ftableVars, callVars
  <1>7. ASSUME NEW k \in Inum
        PROVE  ref'[k] = ref[k] - Here(k, cwd[p], at[p]) + Here(k, cwd'[p], at'[p])
    <2>1. Here(k, cwd'[p], at'[p]) = (IF cwd[p] = k THEN 1 ELSE 0) + (IF dp = k THEN 1 ELSE 0)
                                     + (IF i = k THEN 1 ELSE 0)
      BY <1>1, <1>5, CountOne DEF Here, HasSecond, Holding, ftableVars
    <2> QED
      BY <1>1, <1>2, <2>1, HereOf, SMTT(30) DEF Iget, Types, dp
  <1>8. Runs(p)'
    BY <1>1, <1>2, <1>5 DEF Runs, Placed, callVars, Call
  <1>9. Locks(p)'
    BY <1>5 DEF Locks, Keeps
  <1> QED
    BY <1>1, <1>2, <1>4, <1>5, <1>6, <1>7, <1>8, <1>9, LookStep, SMTT(30)
         DEF ftableVars, callVars

\* create without a free inode.
LEMMA CreateFailsKeeps ==
  ASSUME Inv, phase = "up", NEW p \in Proc, CreateFails(p)
  PROVE  Inv'
  <1> USE DEF Inv
  <1> DEFINE dp == at[p].cur
  <1>1. /\ at[p].pc = "parent" /\ Ilock(dp) /\ Look(dp) /\ PutThen(p, <<dp>>, "end")
        /\ Call(p).op \in {"create", "mkdir", "swapon"}
        /\ UNCHANGED <<durable, ref, lock, ftableVars, callVars, crashes>>
    BY DEF CreateFails, CreateHere
  <1>2. /\ dp \in Inum /\ phase' = "up" /\ at[p].ip = 0 /\ todo[p] # <<>> /\ <<dp>> \in Seq(Inum)
    BY <1>1, ParentIs, InCall
  <1> HIDE DEF dp
  <1>3. /\ at' \in [Proc -> Place] /\ \A q \in Proc : q # p => at'[q] = at[q]
        /\ at'[p].pc # "reap" /\ Runs(p)' /\ Locks(p)'
        /\ \A k, c : Here(k, c, at'[p]) = (IF c = k THEN 1 ELSE 0) + Count(k, <<dp>>)
    BY <1>1, <1>2, PutAtEnd DEF callVars
  <1>4. Types'
    BY <1>1, <1>2, <1>3, LookIs DEF Types, ftableVars, callVars
  <1>5. ASSUME NEW k \in Inum
        PROVE  ref'[k] = ref[k] - Here(k, cwd[p], at[p]) + Here(k, cwd'[p], at'[p])
    <2>1. Here(k, cwd'[p], at'[p]) = (IF cwd[p] = k THEN 1 ELSE 0) + (IF dp = k THEN 1 ELSE 0)
      BY <1>1, <1>3, CountOne DEF ftableVars
    <2> QED
      BY <1>1, <1>2, <2>1, HereOf DEF dp
  <1> QED
    BY <1>1, <1>2, <1>3, <1>4, <1>5, LookStep DEF ftableVars, callVars

\* ialloc and balloc take the first.
LEMMA Least ==
  ASSUME NEW S \in SUBSET Nat, S # {}
  PROVE  Min(S) \in S
  <1> DEFINE R == OpToRel(<, Nat)
  <1>1. IsWellFoundedOn(R, Nat)
    BY NatLessThanWellFounded
  <1>2. \A x, y \in Nat : <<x, y>> \in R <=> x < y
    BY DEF OpToRel
  <1> HIDE DEF R
  <1>3. PICK x \in S : \A y \in S : ~(<<y, x>> \in R)
    BY <1>1, WFMin
  <1>4. ASSUME NEW y \in S PROVE x <= y
    <2>1. x \in Nat /\ y \in Nat
      OBVIOUS
    <2>2. ~(y < x)
      BY <1>2, <1>3, <2>1
    <2> QED
      BY <2>1, <2>2
  <1> QED
    BY <1>4 DEF Min

\* The inode that ialloc finds has no blocks, nor has what ilock then shows.
LEMMA FreshIs ==
  ASSUME Inv, phase = "up", NEW p \in Proc, FreeInodes # {}
  PROVE  LET i == Min(FreeInodes) IN
         /\ i \in Inum /\ fs.ino[i].type = "free" /\ i \notin valid /\ fs.ino[i].addrs = {}
         /\ Fresh(p, i) = [NoInode EXCEPT !.type = TypeOf(p)]
         /\ Fresh(p, i) \in Inode /\ Fresh(p, i).type # "free" /\ Fresh(p, i).addrs = {}
  <1> USE DEF Inv
  <1> DEFINE i == Min(FreeInodes)
  <1>1. i \in FreeInodes
    BY Least DEF FreeInodes, Inum
  <1> HIDE DEF i
  <1>2. i \in Inum /\ fs.ino[i].type = "free"
    BY <1>1 DEF FreeInodes
  <1>3. i \notin valid
    BY <1>2 DEF Copies
  <1>4. fs.ino[i].addrs = {}
    BY <1>2, ExactDisks DEF Exact
  <1>5. Fresh(p, i) = [NoInode EXCEPT !.type = TypeOf(p)]
    BY <1>3 DEF Fresh
  <1>6. TypeOf(p) \in {"dir", "file"}
    BY DEF TypeOf
  <1>7. Fresh(p, i) \in Inode /\ Fresh(p, i).type # "free" /\ Fresh(p, i).addrs = {}
    BY <1>5, <1>6 DEF NoInode, Inode
  <1> QED
    BY <1>2, <1>3, <1>4, <1>5, <1>7 DEF i

\* mkdir without a block for the new directory: its inode is put with no links.
LEMMA CreateUndoneKeeps ==
  ASSUME Inv, phase = "up", NEW p \in Proc, CreateUndone(p)
  PROVE  Inv'
  <1> USE DEF Inv
  <1> DEFINE dp == at[p].cur
             i  == Min(FreeInodes)
             D  == {dp, i}
             new == Two(dp, Copy(dp), i, Fresh(p, i))
  <1>1. /\ at[p].pc = "parent" /\ Ilock(dp) /\ Iget(i) /\ Save(new)
        /\ PutThen(p, <<i, dp>>, "end") /\ FreeInodes # {}
        /\ Call(p).op \in {"create", "mkdir", "swapon"}
        /\ UNCHANGED <<durable, lock, ftableVars, callVars, crashes>>
    BY DEF CreateUndone, CreateHere
  <1>2. /\ dp \in Inum /\ phase' = "up" /\ at[p].ip = 0 /\ todo[p] # <<>>
        /\ fs.ino[dp].type # "free" /\ Copy(dp) = fs.ino[dp] /\ Copy(dp) \in Inode
    BY <1>1, ParentIs, InCall, CopyIsDisk
  <1>3. /\ i \in Inum /\ fs.ino[i].type = "free" /\ fs.ino[i].addrs = {}
        /\ Fresh(p, i) \in Inode /\ Fresh(p, i).type # "free" /\ Fresh(p, i).addrs = {}
    BY <1>1, FreshIs
  <1>4. <<i, dp>> \in Seq(Inum) /\ <<i, dp>> # <<>> /\ i # dp
    BY <1>2, <1>3
  <1>5. /\ new \in [D -> Inode] /\ new[dp] = fs.ino[dp] /\ new[i] = Fresh(p, i)
        /\ D \in SUBSET Inum /\ dp \in D /\ i \in D
    BY <1>2, <1>3, <1>4 DEF Two
  <1>6. Write(new, fs.ents, fs.used)
    BY <1>1 DEF Save
  <1>7. fs.ents \in [Inum -> [Names -> Inum \cup {0}]] /\ fs.used \in SUBSET Block
    BY DEF Types, Disk
  <1> HIDE DEF dp, i, new, D
  <1>8. /\ mem' \in [Inum -> Inode] /\ valid' \in SUBSET Inum /\ fs' \in Disk
        /\ fs'.used = fs.used
        /\ \A k \in Inum : fs'.ino[k] = IF k \in D THEN new[k] ELSE fs.ino[k]
    <2>1. DOMAIN new = D
      BY <1>5
    <2>2. Types /\ DOMAIN new \subseteq Inum /\ new \in [DOMAIN new -> Inode]
      BY <2>1, <1>5
    <2> HIDE DEF Inv
    <2> QED
      BY <2>1, <2>2, <1>6, <1>7, WriteIs
  <1>9. Exact(fs')
    <2>1. Exact(fs)
      BY ExactDisks
    <2>2. \A k \in Inum : /\ fs'.ino[k].addrs = fs.ino[k].addrs
                          /\ fs'.ino[k].type = "free" => fs.ino[k].type = "free"
      BY <1>2, <1>3, <1>5, <1>8 DEF D
    <2> QED
      BY <1>8, <2>1, <2>2, ExactSame
  <1>10. /\ at' \in [Proc -> Place] /\ \A q \in Proc : q # p => at'[q] = at[q]
         /\ at'[p].pc # "reap" /\ Runs(p)' /\ Locks(p)'
         /\ \A k, c : Here(k, c, at'[p]) = (IF c = k THEN 1 ELSE 0) + Count(k, <<i, dp>>)
    BY <1>1, <1>2, <1>4, PutAtEnd DEF callVars
  <1>11. Types'
    <2>1. ref' \in [Inum -> Int]
      BY <1>1, <1>3 DEF Types, Iget
    <2>2. at' \in [Proc -> Place] /\ phase' \in {"up", "boot", "panic"}
      BY <1>2, <1>10
    <2> QED
      BY <1>1, <1>8, <2>1, <2>2 DEF Types, ftableVars, callVars
  <1>12. ASSUME NEW k \in Inum
         PROVE  ref'[k] = ref[k] - Here(k, cwd[p], at[p]) + Here(k, cwd'[p], at'[p])
    <2>1. Here(k, cwd'[p], at'[p]) = (IF cwd[p] = k THEN 1 ELSE 0) + (IF i = k THEN 1 ELSE 0)
                                     + (IF dp = k THEN 1 ELSE 0)
      BY <1>1, <1>2, <1>3, <1>10, CountTwo DEF ftableVars
    <2>2. Here(k, cwd[p], at[p]) = (IF cwd[p] = k THEN 1 ELSE 0) + (IF dp = k THEN 1 ELSE 0)
      BY <1>1, <1>2, HereOf DEF dp
    <2>3. ref[k] \in Int /\ ref'[k] = ref[k] + (IF i = k THEN 1 ELSE 0)
      BY <1>1, <1>3 DEF Types, Iget
    <2> QED
      BY <2>1, <2>2, <2>3
  <1>13. \A k \in D : new[k].type # "free"
    BY <1>2, <1>3, <1>5 DEF D
  <1> QED
    BY <1>1, <1>2, <1>5, <1>6, <1>7, <1>9, <1>10, <1>11, <1>12, <1>13, WriteStep
    DEF ftableVars, callVars

\* The fields that create sets.
LEMMA InodeMade ==
  ASSUME NEW f \in Inode, NEW B \in SUBSET Block
  PROVE  LET m == [f EXCEPT !.nlink = 1, !.addrs = B]
         IN  m \in Inode /\ m.type = f.type /\ m.addrs = B
  <1> DEFINE g == [f EXCEPT !.nlink = 1]
             m == [g EXCEPT !.addrs = B]
  <1>1. g \in Inode /\ g.type = f.type
    BY DEF Inode
  <1> HIDE DEF g
  <1>2. m \in Inode /\ m.type = g.type /\ m.addrs = B
    BY <1>1 DEF Inode
  <1>3. [f EXCEPT !.nlink = 1, !.addrs = B] = m
    BY DEF Inode, g
  <1> QED
    BY <1>1, <1>2, <1>3

\* create makes an inode and its entry.
LEMMA CreateNewKeeps ==
  ASSUME Inv, phase = "up", NEW p \in Proc, CreateNew(p)
  PROVE  Inv'
  <1> USE DEF Inv
  <1> DEFINE dp   == at[p].cur
             name == Head(at[p].path)
             i    == Min(FreeInodes)
             dir  == TypeOf(p) = "dir"
             B    == IF dir THEN NextBlock ELSE {}
             mine == [Fresh(p, i) EXCEPT !.nlink = 1, !.addrs = B]
             new  == Two(dp, Parent(p, Copy(dp)), i, mine)
             D    == {dp, i}
             ents == [fs.ents EXCEPT ![dp][name] = i, ![i][".."] = IF dir THEN dp ELSE 0]
             used == fs.used \cup B
             n    == [at[p] EXCEPT !.pc = "put", !.drop = <<dp>>, !.cur = i, !.next = "opened"]
  <1>1. /\ at[p].pc = "parent" /\ Ilock(dp) /\ Iget(i) /\ Lock(p, i) /\ lock[i] = Nobody
        /\ FreeInodes # {} /\ (dir => Spare # {}) /\ Goto(p, n)
        /\ Call(p).op \in {"create", "mkdir", "swapon"}
        /\ UNCHANGED <<durable, ftableVars, callVars, crashes>>
    BY DEF CreateNew, CreateHere
  <1>2. /\ dp \in Inum /\ phase' = "up" /\ at[p].ip = 0 /\ todo[p] # <<>> /\ at[p] \in Place
        /\ fs.ino[dp].type # "free" /\ Copy(dp) = fs.ino[dp] /\ Copy(dp) \in Inode
        /\ name \in Names /\ cwd[p] \in Inum
    BY <1>1, ParentIs, InCall, CopyIsDisk
  <1>3. /\ i \in Inum /\ fs.ino[i].type = "free" /\ fs.ino[i].addrs = {} /\ i # dp
        /\ Fresh(p, i) \in Inode /\ Fresh(p, i).type # "free"
    BY <1>1, <1>2, FreshIs
  <1>4. B \in SUBSET Block /\ B \cap fs.used = {}
    <2>1. Spare # {} => Min(Spare) \in Spare
      BY Least DEF Spare, Block
    <2> QED
      BY <1>1, <2>1 DEF NextBlock, Spare
  <1> HIDE DEF B
  <1>5. mine \in Inode /\ mine.type # "free" /\ mine.addrs = B
    <2> DEFINE f == Fresh(p, i)
    <2>1. f \in Inode /\ f.type # "free"
      BY <1>3
    <2> HIDE DEF f
    <2>2. LET m == [f EXCEPT !.nlink = 1, !.addrs = B]
          IN  m \in Inode /\ m.type = f.type /\ m.addrs = B
      BY <1>4, <2>1, InodeMade
    <2> QED
      BY <2>1, <2>2 DEF f
  <1>6. /\ Parent(p, Copy(dp)) \in Inode /\ Parent(p, Copy(dp)).type = fs.ino[dp].type
        /\ Parent(p, Copy(dp)).addrs = fs.ino[dp].addrs
    BY <1>2 DEF Parent, Inode
  <1> HIDE DEF mine
  <1>7. /\ new \in [D -> Inode] /\ new[dp] = Parent(p, Copy(dp)) /\ new[i] = mine
        /\ D \in SUBSET Inum /\ dp \in D /\ i \in D
    BY <1>2, <1>3, <1>5, <1>6 DEF Two
  <1>8. Write(new, ents, used)
    <2>1. CreateNew(p) => Write(new, ents, fs.used \cup mine.addrs)
      BY DEF CreateNew, mine, B
    <2> QED
      BY <1>5, <2>1
  <1>9. ents \in [Inum -> [Names -> Inum \cup {0}]] /\ used \in SUBSET Block
    <2>1. fs.ents \in [Inum -> [Names -> Inum \cup {0}]] /\ fs.used \in SUBSET Block
      BY DEF Types, Disk
    <2>2. ".." \in Names
      BY DEF Names
    <2> QED
      BY <1>2, <1>3, <1>4, <2>1, <2>2
  <1>10. /\ n \in Place /\ n.pc = "put" /\ n.drop = <<dp>> /\ n.cur = i /\ n.next = "opened"
    <2>1. "put" \in Pcs /\ "opened" \in Later /\ <<dp>> \in Seq(Inum)
      BY <1>2 DEF Pcs, Later
    <2> QED
      BY <1>2, <1>3, <2>1 DEF Place
  <1>11. /\ at' \in [Proc -> Place] /\ at'[p] = n /\ \A q \in Proc : q # p => at'[q] = at[q]
    BY <1>1, <1>10, GotoIs
  <1>12. /\ at'[p].pc = "put" /\ at'[p].drop = <<dp>> /\ at'[p].cur = i
         /\ Stage(at'[p]) = "opened" /\ Puts(at'[p])
    BY <1>10, <1>11 DEF Stage, Puts
  <1> HIDE DEF dp, i, new, ents, used, n, D
  <1>13. /\ mem' \in [Inum -> Inode] /\ valid' \in SUBSET Inum /\ fs' \in Disk
         /\ fs'.used = used /\ valid' = valid \cup D
         /\ \A k \in Inum : fs'.ino[k] = IF k \in D THEN new[k] ELSE fs.ino[k]
    <2>1. DOMAIN new = D
      BY <1>7
    <2>2. Types /\ DOMAIN new \subseteq Inum /\ new \in [DOMAIN new -> Inode]
      BY <2>1, <1>7
    <2> HIDE DEF Inv
    <2> QED
      BY <2>1, <2>2, <1>8, <1>9, WriteIs
  <1>14. Exact(fs')
    <2>1. Exact(fs) /\ fs.used \subseteq fs'.used /\ B = fs'.used \ fs.used
      BY <1>4, <1>13, ExactDisks DEF used
    <2>2. /\ fs'.ino[i].addrs = fs.ino[i].addrs \cup (fs'.used \ fs.used)
          /\ fs'.ino[i].type # "free"
      BY <2>1, <1>3, <1>5, <1>7, <1>13
    <2>3. \A k \in Inum : k # i => /\ fs'.ino[k].addrs = fs.ino[k].addrs
                                   /\ fs'.ino[k].type = "free" => fs.ino[k].type = "free"
      BY <1>6, <1>7, <1>13 DEF D
    <2>4. i \in Inum
      BY <1>3
    <2> HIDE DEF Inv
    <2> QED
      BY <2>1, <2>2, <2>3, <2>4, ExactGrown
  <1>15. Types'
    <2>1. ref' \in [Inum -> Int] /\ lock' \in [Inum -> Proc \cup {Nobody}]
      BY <1>1, <1>3 DEF Types, Iget, Lock
    <2>2. at' \in [Proc -> Place] /\ phase' \in {"up", "boot", "panic"}
      BY <1>2, <1>11
    <2> QED
      BY <1>1, <1>13, <2>1, <2>2 DEF Types, ftableVars, callVars
  <1>16. ASSUME NEW k \in Inum
         PROVE  ref'[k] = ref[k] - Here(k, cwd[p], at[p]) + Here(k, cwd'[p], at'[p])
    <2>1. Here(k, cwd'[p], at'[p]) = (IF cwd[p] = k THEN 1 ELSE 0) + (IF dp = k THEN 1 ELSE 0)
                                     + (IF i = k THEN 1 ELSE 0)
      BY <1>1, <1>12, CountOne DEF Here, HasSecond, Holding, ftableVars
    <2> QED
      BY <1>1, <1>2, <1>3, <2>1, HereOf, SMTT(30) DEF Iget, Types, dp
  <1>17. Runs(p)'
    BY <1>1, <1>2, <1>3, <1>12 DEF Runs, Placed, callVars, Call
  <1>18. Locks(p)'
    <2>1. lock'[i] = p
      BY <1>1, <1>3 DEF Lock, Types
    <2>2. i \in valid'
      BY <1>7, <1>13
    <2> QED
      BY <1>12, <2>1, <2>2 DEF Locks, Keeps, Reaps
  <1>19. \A q \in Proc : q # p => \A k \in Inum : lock[k] = q => lock'[k] = q
    BY <1>1, FileSystemAssumption DEF Lock, Types
  <1>20. \A k \in D : new[k].type # "free"
    BY <1>2, <1>5, <1>6, <1>7 DEF D
  <1>21. Inv
    OBVIOUS
  <1> HIDE DEF Inv
  <1> QED
    BY <1>1, <1>7, <1>8, <1>9, <1>11, <1>12, <1>14, <1>15, <1>16, <1>17, <1>18, <1>19, <1>20,
       ZenonT(30),
       <1>21, WriteStep DEF ftableVars, callVars

\* ip is locked and kept, or found wanting.
LEMMA KeepsInode ==
  ASSUME Inv, phase = "up", NEW p \in Proc, at[p].pc \in {"found", "existing"}, NEW i,
         i = at[p].cur, Ilock(i), Look(i), Lock(p, i), At(p, "opened"),
         UNCHANGED <<durable, ref, ftableVars, callVars, crashes>>
  PROVE  Inv'
  <1> USE DEF Inv
  <1>1. i \in Inum /\ todo[p] # <<>>
    BY InCall DEF Placed, Puts, Stage
  <1>2. "opened" \in Pcs
    BY DEF Pcs, Later
  <1>3. /\ at' \in [Proc -> Place] /\ at'[p].pc = "opened" /\ at'[p].cur = i
        /\ \A q \in Proc : q # p => at'[q] = at[q]
    BY <1>2, AtIs
  <1>4. Stage(at'[p]) = "opened" /\ ~Puts(at'[p])
    BY <1>3 DEF Stage, Puts
  <1>5. lock' = [lock EXCEPT ![i] = p] /\ lock[i] = Nobody /\ phase' \in {"up", "panic"}
    BY DEF Lock, Ilock
  <1>6. mem' \in [Inum -> Inode] /\ valid' \in SUBSET Inum /\ fs' = fs /\ i \in valid'
    BY <1>1, LookIs
  <1>7. Types'
    BY <1>1, <1>3, <1>5, <1>6 DEF Types, ftableVars, callVars
  <1>8. ASSUME NEW k \in Inum
        PROVE  ref'[k] = ref[k] - Here(k, cwd[p], at[p]) + Here(k, cwd'[p], at'[p])
    <2>1. Here(k, cwd'[p], at'[p]) = (IF cwd[p] = k THEN 1 ELSE 0) + (IF i = k THEN 1 ELSE 0)
      BY <1>3, <1>4 DEF Here, HasSecond, Holding, ftableVars
    <2> QED
      BY <2>1, HereOf
  <1>9. Runs(p)'
    BY <1>1, <1>3, <1>4 DEF Runs, Placed, callVars
  <1>10. Locks(p)'
    BY <1>1, <1>3, <1>4, <1>5, <1>6 DEF Locks, Keeps, Reaps, Types
  <1>11. \A q \in Proc : q # p => \A k \in Inum : lock[k] = q => lock'[k] = q
    BY <1>1, <1>5, FileSystemAssumption DEF Types
  <1> QED
    BY <1>1, <1>3, <1>7, <1>8, <1>9, <1>10, <1>11, LookStep DEF ftableVars, callVars

\* A call that finds the inode to be none of its kind puts it and ends.
LEMMA GivesUp ==
  ASSUME Inv, phase = "up", NEW p \in Proc, at[p].pc \in {"found", "existing"}, NEW i,
         i = at[p].cur, Ilock(i), Look(i), PutThen(p, <<i>>, "end"),
         UNCHANGED <<durable, ref, lock, ftableVars, callVars, crashes>>
  PROVE  Inv'
  <1> USE DEF Inv
  <1>1. i \in Inum /\ todo[p] # <<>> /\ <<i>> \in Seq(Inum)
    BY InCall DEF Placed, Puts, Stage
  <1>2. /\ at' \in [Proc -> Place] /\ \A q \in Proc : q # p => at'[q] = at[q]
        /\ at'[p].pc # "reap" /\ Runs(p)' /\ Locks(p)'
        /\ \A k, c : Here(k, c, at'[p]) = (IF c = k THEN 1 ELSE 0) + Count(k, <<i>>)
    BY <1>1, PutAtEnd DEF callVars
  <1>3. Types'
    <2>1. phase' \in {"up", "panic"}
      BY DEF Ilock
    <2> QED
      BY <1>1, <1>2, <2>1, LookIs DEF Types, ftableVars, callVars
  <1>4. ASSUME NEW k \in Inum
        PROVE  ref'[k] = ref[k] - Here(k, cwd[p], at[p]) + Here(k, cwd'[p], at'[p])
    <2>1. Here(k, cwd'[p], at'[p]) = (IF cwd[p] = k THEN 1 ELSE 0) + (IF i = k THEN 1 ELSE 0)
      BY <1>2, CountOne DEF ftableVars
    <2> QED
      BY <2>1, HereOf
  <1> QED
    BY <1>1, <1>2, <1>3, <1>4, LookStep DEF ftableVars, callVars

\* create of a name that is there, of the wrong type.
LEMMA ExistingKeeps ==
  ASSUME Inv, phase = "up", NEW p \in Proc, Existing(p)
  PROVE  Inv'
  BY KeepsInode, GivesUp DEF Existing

\* sys_open of a name that is there.
LEMMA OpenKeeps ==
  ASSUME Inv, phase = "up", NEW p \in Proc, Open(p)
  PROVE  Inv'
  BY KeepsInode, GivesUp DEF Open

\* sys_mkdir, and sys_open without a struct file: unlocked and put.
LEMMA NotOpenedKeeps ==
  ASSUME Inv, phase = "up", NEW p \in Proc, NotOpened(p)
  PROVE  Inv'
  <1> USE DEF Inv
  <1> DEFINE i == at[p].cur
  <1>1. /\ at[p].pc = "opened" /\ Unlock(i) /\ PutThen(p, <<i>>, "end")
        /\ UNCHANGED <<fs, durable, ref, valid, mem, ftableVars, callVars, phase, crashes>>
    BY DEF NotOpened
  <1>2. i \in Inum /\ todo[p] # <<>> /\ <<i>> \in Seq(Inum)
    BY <1>1, InCall DEF Placed, Puts, Stage
  <1>3. lock[i] = p /\ lock' = [lock EXCEPT ![i] = Nobody]
    BY <1>1 DEF Unlock, Locking, Locks, Keeps, Stage, Puts
  <1> HIDE DEF i
  <1>4. /\ at' \in [Proc -> Place] /\ \A q \in Proc : q # p => at'[q] = at[q]
        /\ at'[p].pc # "reap" /\ Runs(p)' /\ Locks(p)'
        /\ \A k, c : Here(k, c, at'[p]) = (IF c = k THEN 1 ELSE 0) + Count(k, <<i>>)
    BY <1>1, <1>2, PutAtEnd DEF callVars
  <1>5. Types'
    BY <1>1, <1>2, <1>3, <1>4 DEF Types, ftableVars, callVars
  <1>6. ASSUME NEW k \in Inum
        PROVE  ref'[k] = ref[k] - Here(k, cwd[p], at[p]) + Here(k, cwd'[p], at'[p])
    <2>1. Here(k, cwd'[p], at'[p]) = (IF cwd[p] = k THEN 1 ELSE 0) + (IF i = k THEN 1 ELSE 0)
      BY <1>1, <1>4, CountOne DEF ftableVars
    <2> QED
      BY <1>1, <2>1, HereOf DEF i
  <1>7. \A q \in Proc : q # p => \A k \in Inum : lock[k] = q => lock'[k] = q
    BY <1>2, <1>3 DEF Types
  <1>8. Busy(at[p])
    BY <1>1 DEF Busy, Stage, Puts
  <1> QED
    BY <1>1, <1>4, <1>5, <1>6, <1>7, <1>8, QuietStep DEF ftableVars, callVars

\* sys_chdir: the old working directory is put for the new.
LEMMA ChdirKeeps ==
  ASSUME Inv, phase = "up", NEW p \in Proc, Chdir(p)
  PROVE  Inv'
  <1> USE DEF Inv
  <1> DEFINE i == at[p].cur
             d == cwd[p]
  <1>1. at[p].pc = "found" /\ Ilock(i) /\ Look(i)
        /\ UNCHANGED <<durable, ref, lock, fref, fip, ofile, swapFile, callVars, crashes>>
    BY DEF Chdir
  <1>2. CASE PutThen(p, <<i>>, "end") /\ UNCHANGED cwd
    BY <1>1, <1>2, GivesUp DEF ftableVars
  <1>3. CASE cwd' = [cwd EXCEPT ![p] = i] /\ PutThen(p, <<d>>, "end")
    <2>1. i \in Inum /\ d \in Inum /\ todo[p] # <<>> /\ <<d>> \in Seq(Inum)
      BY <1>1, InCall DEF Placed, Puts, Stage
    <2> HIDE DEF i, d
    <2>2. /\ at' \in [Proc -> Place] /\ \A q \in Proc : q # p => at'[q] = at[q]
          /\ at'[p].pc # "reap" /\ Runs(p)' /\ Locks(p)'
          /\ \A k, c : Here(k, c, at'[p]) = (IF c = k THEN 1 ELSE 0) + Count(k, <<d>>)
      BY <1>1, <1>3, <2>1, PutAtEnd DEF callVars
    <2>3. /\ cwd' \in [Proc -> Inum] /\ cwd'[p] = i
          /\ \A q \in Proc : q # p => cwd'[q] = cwd[q]
      BY <1>3, <2>1 DEF Types
    <2>4. Types'
      <3>1. phase' \in {"up", "panic"}
        BY <1>1 DEF Ilock
      <3> QED
        BY <1>1, <2>1, <2>2, <2>3, <3>1, LookIs DEF Types, callVars
    <2>5. ASSUME NEW k \in Inum
          PROVE  ref'[k] = ref[k] - Here(k, cwd[p], at[p]) + Here(k, cwd'[p], at'[p])
      <3>1. Here(k, cwd'[p], at'[p]) = (IF i = k THEN 1 ELSE 0) + (IF d = k THEN 1 ELSE 0)
        BY <2>2, <2>3, CountOne
      <3> QED
        BY <1>1, <3>1, HereOf DEF i, d
    <2> QED
      BY <1>1, <2>1, <2>2, <2>3, <2>4, <2>5, LookStep DEF callVars
  <1> QED
    BY <1>2, <1>3 DEF Chdir

\* sys_unlink looks the name up, with the directory locked.
LEMMA VictimKeeps ==
  ASSUME Inv, phase = "up", NEW p \in Proc, Victim(p)
  PROVE  Inv'
  <1> USE DEF Inv
  <1> DEFINE dp == at[p].cur
             i  == fs.ents[dp][Head(at[p].path)]
             n  == [at[p] EXCEPT !.pc = "victim", !.ip = i]
  <1>1. /\ at[p].pc = "parent" /\ Ilock(dp) /\ Look(dp) /\ Call(p).op \in {"unlink", "exit"}
        /\ UNCHANGED <<durable, ftableVars, callVars, crashes>>
    BY DEF Victim
  <1>2. /\ dp \in Inum /\ dp \in valid /\ i \in Inum \cup {0} /\ phase' = "up" /\ at[p].ip = 0
        /\ lock[dp] = Nobody /\ todo[p] # <<>> /\ <<dp>> \in Seq(Inum) /\ at[p] \in Place
    BY <1>1, ParentIs, InCall
  <1>3. mem' \in [Inum -> Inode] /\ valid' \in SUBSET Inum /\ fs' = fs /\ dp \in valid'
    BY <1>1, <1>2, LookIs
  <1>4. CASE PutThen(p, <<dp>>, "end") /\ UNCHANGED <<ref, lock>>
    <2> HIDE DEF dp, i
    <2>1. /\ at' \in [Proc -> Place] /\ \A q \in Proc : q # p => at'[q] = at[q]
          /\ at'[p].pc # "reap" /\ Runs(p)' /\ Locks(p)'
          /\ \A k, c : Here(k, c, at'[p]) = (IF c = k THEN 1 ELSE 0) + Count(k, <<dp>>)
      BY <1>1, <1>2, <1>4, PutAtEnd DEF callVars
    <2>2. Types'
      BY <1>1, <1>2, <1>3, <1>4, <2>1 DEF Types, ftableVars, callVars
    <2>3. ASSUME NEW k \in Inum
          PROVE  ref'[k] = ref[k] - Here(k, cwd[p], at[p]) + Here(k, cwd'[p], at'[p])
      <3>1. Here(k, cwd'[p], at'[p]) = (IF cwd[p] = k THEN 1 ELSE 0) + (IF dp = k THEN 1 ELSE 0)
        BY <1>1, <2>1, CountOne DEF ftableVars
      <3> QED
        BY <1>1, <1>2, <1>4, <3>1, HereOf DEF dp
    <2> QED
      BY <1>1, <1>2, <1>4, <2>1, <2>2, <2>3, LookStep DEF ftableVars, callVars
  <1>5. CASE i # 0 /\ Iget(i) /\ Lock(p, dp) /\ Goto(p, n)
    <2>1. /\ n \in Place /\ n.pc = "victim" /\ n.cur = dp /\ n.ip = i /\ i \in Inum
      BY <1>2, <1>5, ZenonT(30) DEF Place, Pcs
    <2>2. /\ at' \in [Proc -> Place] /\ at'[p] = n /\ \A q \in Proc : q # p => at'[q] = at[q]
      BY <1>5, <2>1, GotoIs
    <2>3. /\ at'[p].pc = "victim" /\ at'[p].cur = dp /\ at'[p].ip = i
          /\ Stage(at'[p]) = "victim" /\ ~Puts(at'[p])
      BY <2>1, <2>2 DEF Stage, Puts
    <2> HIDE DEF n, i, dp
    <2>4. lock' = [lock EXCEPT ![dp] = p] /\ ref' = [ref EXCEPT ![i] = @ + 1]
      BY <1>5 DEF Lock, Iget
    <2>5. Types'
      BY <1>1, <1>2, <1>3, <2>1, <2>2, <2>4 DEF Types, ftableVars, callVars
    <2>6. ASSUME NEW k \in Inum
          PROVE  ref'[k] = ref[k] - Here(k, cwd[p], at[p]) + Here(k, cwd'[p], at'[p])
      <3>1. Here(k, cwd'[p], at'[p]) = (IF cwd[p] = k THEN 1 ELSE 0) + (IF dp = k THEN 1 ELSE 0)
                                       + (IF i = k THEN 1 ELSE 0)
        BY <1>1, <2>3 DEF Here, HasSecond, Holding, ftableVars
      <3>2. Here(k, cwd[p], at[p]) = (IF cwd[p] = k THEN 1 ELSE 0) + (IF dp = k THEN 1 ELSE 0)
        BY <1>1, <1>2, HereOf DEF dp
      <3>3. ref[k] \in Int /\ ref'[k] = ref[k] + (IF i = k THEN 1 ELSE 0)
        BY <2>1, <2>4 DEF Types
      <3> QED
        BY <3>1, <3>2, <3>3
    <2>7. Runs(p)'
      BY <1>1, <1>2, <2>1, <2>3 DEF Runs, Placed, callVars
    <2>8. Locks(p)'
      BY <1>2, <1>3, <2>3, <2>4 DEF Locks, Keeps, Reaps, Types
    <2>9. \A q \in Proc : q # p => \A k \in Inum : lock[k] = q => lock'[k] = q
      BY <1>2, <2>4, FileSystemAssumption DEF Types
    <2> QED
      BY <1>1, <1>2, <2>2, <2>3, <2>5, <2>6, <2>7, <2>8, <2>9, LookStep, SMTT(30)
         DEF ftableVars, callVars
  <1> QED
    BY <1>4, <1>5 DEF Victim

\* One inode to write.
LEMMA OneIs ==
  ASSUME NEW i \in Inum, NEW x \in Inode
  PROVE  {i} \in SUBSET Inum /\ One(i, x) \in [{i} -> Inode] /\ One(i, x)[i] = x
  BY DEF One

\* ilock does not find a free inode without a panic.
LEMMA IlockIs ==
  ASSUME Inv, phase = "up", NEW i \in Inum, Ilock(i)
  PROVE  /\ phase' \in {"up", "panic"} /\ lock[i] = Nobody
         /\ Copy(i) = fs.ino[i] /\ Copy(i) \in Inode
         /\ (phase' # "panic" => Copy(i).type # "free")
  <1>1. Types /\ Copies
    BY DEF Inv
  <1>2. Copy(i) = fs.ino[i] /\ Copy(i) \in Inode
    BY <1>1, CopyIsDisk
  <1>3. phase' # "panic" => i \in valid \/ fs.ino[i].type # "free"
    BY DEF Ilock
  <1>4. i \in valid => fs.ino[i].type # "free"
    BY <1>1 DEF Copies
  <1> QED
    BY <1>2, <1>3, <1>4 DEF Ilock

\* iupdate of one inode, for another number of links: its blocks stay.
LEMMA LinksWritten ==
  ASSUME Inv, phase = "up", NEW i \in Inum, NEW x \in Inode,
         NEW ents \in [Inum -> [Names -> Inum \cup {0}]], Ilock(i), Write(One(i, x), ents, fs.used),
         x.type = Copy(i).type, x.addrs = Copy(i).addrs
  PROVE  /\ mem' \in [Inum -> Inode] /\ valid' \in SUBSET Inum /\ fs' \in Disk /\ Exact(fs')
         /\ phase' \in {"up", "panic"}
         /\ {i} \in SUBSET Inum /\ One(i, x) \in [{i} -> Inode] /\ fs.used \in SUBSET Block
         /\ phase' # "panic" => \A k \in {i} : One(i, x)[k].type # "free"
  <1>1. {i} \in SUBSET Inum /\ One(i, x) \in [{i} -> Inode] /\ One(i, x)[i] = x
    BY OneIs
  <1>2. fs.used \in SUBSET Block /\ Exact(fs)
    BY ExactDisks DEF Inv, Types, Disk
  <1>3. /\ mem' \in [Inum -> Inode] /\ valid' \in SUBSET Inum /\ fs' \in Disk
        /\ fs'.used = fs.used
        /\ \A k \in Inum : fs'.ino[k] = IF k \in {i} THEN One(i, x)[k] ELSE fs.ino[k]
    <2> DEFINE D == {i}
               new == One(i, x)
               used == fs.used
    <2>1. DOMAIN new = D /\ used \in SUBSET Block /\ Write(new, ents, used)
      BY <1>1, <1>2
    <2>2. Types /\ DOMAIN new \subseteq Inum /\ new \in [DOMAIN new -> Inode]
      BY <1>1, <2>1 DEF Inv
    <2> HIDE DEF D, new, used
    <2>3. /\ mem' \in [Inum -> Inode] /\ valid' \in SUBSET Inum /\ fs' \in Disk
          /\ fs'.used = used
          /\ \A k \in Inum : fs'.ino[k] = IF k \in DOMAIN new THEN new[k] ELSE fs.ino[k]
      BY <2>1, <2>2, WriteIs
    <2> QED
      BY <2>1, <2>3 DEF D, new, used
  <1>4. /\ phase' \in {"up", "panic"} /\ Copy(i) = fs.ino[i]
        /\ (phase' # "panic" => Copy(i).type # "free")
    BY IlockIs
  <1>5. Exact(fs')
    <2>1. \A k \in Inum : /\ fs'.ino[k].addrs = fs.ino[k].addrs
                          /\ fs'.ino[k].type = "free" => fs.ino[k].type = "free"
      BY <1>1, <1>3, <1>4
    <2> QED
      BY <1>2, <1>3, <2>1, ExactSame
  <1> QED
    BY <1>1, <1>2, <1>3, <1>4, <1>5

\* sys_link counts the new link first.
LEMMA LinkOldKeeps ==
  ASSUME Inv, phase = "up", NEW p \in Proc, LinkOld(p)
  PROVE  Inv'
  <1> USE DEF Inv
  <1> DEFINE i == at[p].cur
             c == cwd[p]
             x == [Copy(i) EXCEPT !.nlink = @ + 1]
             n == [at[p] EXCEPT !.pc = "walk", !.ip = i, !.cur = c, !.path = Call(p).to]
  <1>1. /\ at[p].pc = "found" /\ Call(p).op = "link" /\ ~LinksNow(p) /\ Ilock(i)
        /\ UNCHANGED <<durable, lock, ftableVars, callVars, crashes>>
    BY DEF LinkOld
  <1>2. CASE Look(i) /\ PutThen(p, <<i>>, "end") /\ UNCHANGED ref
    BY <1>1, <1>2, GivesUp
  <1>3. CASE Save(One(i, x)) /\ Iget(c) /\ Goto(p, n)
    <2>1. /\ i \in Inum /\ c \in Inum /\ todo[p] # <<>> /\ at[p] \in Place
          /\ Call(p).to \in Seq(Names) /\ Call(p).to # <<>>
      BY <1>1, InCall DEF Placed, Puts, Stage, WellMade
    <2>2. Copy(i) \in Inode
      BY <1>1, <2>1, IlockIs
    <2>3. x \in Inode /\ x.type = Copy(i).type /\ x.addrs = Copy(i).addrs
      BY <2>2 DEF Inode
    <2>4. /\ n \in Place /\ n.pc = "walk" /\ n.cur = c /\ n.ip = i /\ n.path = Call(p).to
      <3>1. "walk" \in Pcs
        BY DEF Pcs, Later
      <3> QED
        BY <2>1, <3>1 DEF Place
    <2>5. /\ at' \in [Proc -> Place] /\ at'[p] = n /\ \A q \in Proc : q # p => at'[q] = at[q]
      BY <1>3, <2>4, GotoIs
    <2>6. /\ at'[p].pc = "walk" /\ at'[p].cur = c /\ at'[p].ip = i /\ at'[p].path = Call(p).to
          /\ Stage(at'[p]) = "walk" /\ ~Puts(at'[p])
      BY <2>4, <2>5 DEF Stage, Puts
    <2>7. fs.ents \in [Inum -> [Names -> Inum \cup {0}]]
      BY DEF Types, Disk
    <2>8. Write(One(i, x), fs.ents, fs.used)
      BY <1>3 DEF Save
    <2> HIDE DEF i, c, x, n
    <2>9. /\ mem' \in [Inum -> Inode] /\ valid' \in SUBSET Inum /\ fs' \in Disk /\ Exact(fs')
          /\ phase' \in {"up", "panic"}
          /\ {i} \in SUBSET Inum /\ One(i, x) \in [{i} -> Inode] /\ fs.used \in SUBSET Block
          /\ phase' # "panic" => \A k \in {i} : One(i, x)[k].type # "free"
      BY <1>1, <2>1, <2>3, <2>7, <2>8, LinksWritten
    <2>10. ref' = [ref EXCEPT ![c] = @ + 1]
      BY <1>3 DEF Iget
    <2>11. Types'
      BY <1>1, <2>1, <2>5, <2>9, <2>10 DEF Types, ftableVars, callVars
    <2>12. ASSUME NEW k \in Inum
           PROVE  ref'[k] = ref[k] - Here(k, cwd[p], at[p]) + Here(k, cwd'[p], at'[p])
      <3>1. Here(k, cwd'[p], at'[p]) = (IF c = k THEN 1 ELSE 0) + (IF c = k THEN 1 ELSE 0)
                                       + (IF i = k THEN 1 ELSE 0)
        BY <1>1, <2>1, <2>6, FileSystemAssumption DEF Here, HasSecond, Holding, ftableVars, Inum, c
      <3>2. Here(k, cwd[p], at[p]) = (IF c = k THEN 1 ELSE 0) + (IF i = k THEN 1 ELSE 0)
        BY <1>1, HereOf DEF i, c
      <3>3. ref[k] \in Int /\ ref'[k] = ref[k] + (IF c = k THEN 1 ELSE 0)
        BY <2>1, <2>10 DEF Types
      <3> QED
        BY <3>1, <3>2, <3>3
    <2>13. Runs(p)'
      BY <1>1, <2>1, <2>6 DEF Runs, Placed, callVars, Call
    <2>14. Locks(p)'
      BY <2>6 DEF Locks, Keeps
    <2>15. Inv
      OBVIOUS
    <2> HIDE DEF Inv
    <2> QED
      BY <1>1, <2>5, <2>6, <2>7, <2>8, <2>9, <2>11, <2>12, <2>13, <2>14, <2>15, WriteStep
      DEF ftableVars, callVars
  <1> QED
    BY <1>2, <1>3 DEF LinkOld

\* sys_link writes the entry.
LEMMA LinkNewKeeps ==
  ASSUME Inv, phase = "up", NEW p \in Proc, LinkNew(p)
  PROVE  Inv'
  <1> USE DEF Inv
  <1> DEFINE dp == at[p].cur
             name == Head(at[p].path)
             i == at[p].ip
             ents == [fs.ents EXCEPT ![dp][name] = i]
             x == Copy(dp)
  <1>1. /\ at[p].pc = "parent" /\ LinksNow(p) /\ Ilock(dp)
        /\ UNCHANGED <<durable, ref, lock, ftableVars, callVars, crashes>>
    BY DEF LinkNew
  <1>2. /\ dp \in Inum /\ i \in Inum /\ name \in Names /\ todo[p] # <<>> /\ at[p] \in Place
    BY <1>1, ParentIs, InCall DEF LinksNow
  <1>3. x \in Inode
    BY <1>1, <1>2, IlockIs
  <1>4. CASE Write(One(dp, x), ents, fs.used) /\ PutThen(p, <<dp, i>>, "end")
    <2>1. ents \in [Inum -> [Names -> Inum \cup {0}]]
      BY <1>2 DEF Types, Disk
    <2>2. <<dp, i>> \in Seq(Inum) /\ <<dp, i>> # <<>>
      BY <1>2
    <2> HIDE DEF dp, name, i, ents
    <2>3. /\ mem' \in [Inum -> Inode] /\ valid' \in SUBSET Inum /\ fs' \in Disk /\ Exact(fs')
          /\ phase' \in {"up", "panic"}
          /\ {dp} \in SUBSET Inum /\ One(dp, x) \in [{dp} -> Inode] /\ fs.used \in SUBSET Block
          /\ phase' # "panic" => \A k \in {dp} : One(dp, x)[k].type # "free"
      BY <1>1, <1>2, <1>3, <1>4, <2>1, LinksWritten
    <2>4. /\ at' \in [Proc -> Place] /\ \A q \in Proc : q # p => at'[q] = at[q]
          /\ at'[p].pc # "reap" /\ Runs(p)' /\ Locks(p)'
          /\ \A k, c : Here(k, c, at'[p]) = (IF c = k THEN 1 ELSE 0) + Count(k, <<dp, i>>)
      BY <1>1, <1>2, <1>4, <2>2, PutAtEnd DEF callVars
    <2>5. Types'
      BY <1>1, <2>3, <2>4 DEF Types, ftableVars, callVars
    <2>6. ASSUME NEW k \in Inum
          PROVE  ref'[k] = ref[k] - Here(k, cwd[p], at[p]) + Here(k, cwd'[p], at'[p])
      <3>1. Here(k, cwd'[p], at'[p]) = (IF cwd[p] = k THEN 1 ELSE 0) + (IF dp = k THEN 1 ELSE 0)
                                       + (IF i = k THEN 1 ELSE 0)
        BY <1>1, <1>2, <2>4, CountTwo DEF ftableVars
      <3>2. Here(k, cwd[p], at[p]) = (IF cwd[p] = k THEN 1 ELSE 0) + (IF dp = k THEN 1 ELSE 0)
                                     + (IF i = k THEN 1 ELSE 0)
        BY <1>1, HereOf DEF dp, i, LinksNow
      <3> QED
        BY <1>1, <3>1, <3>2, HereOf
    <2>7. Inv
      OBVIOUS
    <2> HIDE DEF Inv, x
    <2> QED
      BY <1>1, <1>4, <2>1, <2>3, <2>4, <2>5, <2>6, <2>7, WriteStep DEF ftableVars, callVars
  <1>5. CASE Look(dp) /\ PutThen(p, <<dp>>, "undo")
    <2>1. "undo" \in Later /\ <<dp>> \in Seq(Inum)
      BY <1>2 DEF Later
    <2>2. /\ at' \in [Proc -> Place] /\ at'[p].pc = "put" /\ at'[p].ip = i
          /\ at'[p].drop = <<dp>> /\ at'[p].next = "undo"
          /\ \A q \in Proc : q # p => at'[q] = at[q]
      BY <1>5, <2>1, PutThenIs
    <2>3. Stage(at'[p]) = "undo" /\ Puts(at'[p])
      BY <2>2 DEF Stage, Puts
    <2> HIDE DEF dp, name, i
    <2>4. Types'
      <3>1. phase' \in {"up", "panic"}
        BY <1>1 DEF Ilock
      <3> QED
        BY <1>1, <1>2, <1>5, <2>2, <3>1, LookIs DEF Types, ftableVars, callVars
    <2>5. ASSUME NEW k \in Inum
          PROVE  ref'[k] = ref[k] - Here(k, cwd[p], at[p]) + Here(k, cwd'[p], at'[p])
      <3>1. Here(k, cwd'[p], at'[p]) = (IF cwd[p] = k THEN 1 ELSE 0) + (IF dp = k THEN 1 ELSE 0)
                                       + (IF i = k THEN 1 ELSE 0)
        BY <1>1, <2>2, <2>3, CountOne DEF Here, HasSecond, Holding, ftableVars
      <3>2. Here(k, cwd[p], at[p]) = (IF cwd[p] = k THEN 1 ELSE 0) + (IF dp = k THEN 1 ELSE 0)
                                     + (IF i = k THEN 1 ELSE 0)
        BY <1>1, HereOf DEF dp, i, LinksNow
      <3> QED
        BY <1>1, <3>1, <3>2, HereOf
    <2>6. Runs(p)'
      BY <1>1, <1>2, <2>2, <2>3 DEF Runs, Placed, callVars, Call
    <2>7. Locks(p)'
      BY <2>2, <2>3 DEF Locks, Keeps
    <2> QED
      BY <1>1, <1>2, <1>5, <2>2, <2>4, <2>5, <2>6, <2>7, LookStep DEF ftableVars, callVars
  <1> QED
    BY <1>4, <1>5 DEF LinkNew

\* sys_link takes the count back.
LEMMA LinkUndoKeeps ==
  ASSUME Inv, phase = "up", NEW p \in Proc, LinkUndo(p)
  PROVE  Inv'
  <1> USE DEF Inv
  <1> DEFINE i == at[p].ip
             x == TakenBack(Copy(i))
  <1>1. /\ at[p].pc = "undo" /\ Ilock(i) /\ Write(One(i, x), fs.ents, fs.used)
        /\ PutThen(p, <<i>>, "end")
        /\ UNCHANGED <<durable, ref, lock, ftableVars, callVars, crashes>>
    BY DEF LinkUndo, Save
  <1>2. i \in Inum /\ todo[p] # <<>> /\ <<i>> \in Seq(Inum) /\ <<i>> # <<>>
    BY <1>1, InCall DEF Placed, Puts, Stage
  <1>3. Copy(i) \in Inode
    BY <1>1, <1>2, IlockIs
  <1>4. x \in Inode /\ x.type = Copy(i).type /\ x.addrs = Copy(i).addrs
    BY <1>3 DEF Inode, TakenBack
  <1>5. fs.ents \in [Inum -> [Names -> Inum \cup {0}]]
    BY DEF Types, Disk
  <1> HIDE DEF i, x
  <1>6. /\ mem' \in [Inum -> Inode] /\ valid' \in SUBSET Inum /\ fs' \in Disk /\ Exact(fs')
        /\ phase' \in {"up", "panic"}
        /\ {i} \in SUBSET Inum /\ One(i, x) \in [{i} -> Inode] /\ fs.used \in SUBSET Block
        /\ phase' # "panic" => \A k \in {i} : One(i, x)[k].type # "free"
    BY <1>1, <1>2, <1>4, <1>5, LinksWritten
  <1>7. /\ at' \in [Proc -> Place] /\ \A q \in Proc : q # p => at'[q] = at[q]
        /\ at'[p].pc # "reap" /\ Runs(p)' /\ Locks(p)'
        /\ \A k, c : Here(k, c, at'[p]) = (IF c = k THEN 1 ELSE 0) + Count(k, <<i>>)
    BY <1>1, <1>2, PutAtEnd DEF callVars
  <1>8. Types'
    BY <1>1, <1>6, <1>7 DEF Types, ftableVars, callVars
  <1>9. ASSUME NEW k \in Inum
        PROVE  ref'[k] = ref[k] - Here(k, cwd[p], at[p]) + Here(k, cwd'[p], at'[p])
    <2>1. Here(k, cwd'[p], at'[p]) = (IF cwd[p] = k THEN 1 ELSE 0) + (IF i = k THEN 1 ELSE 0)
      BY <1>1, <1>7, CountOne DEF ftableVars
    <2> QED
      BY <1>1, <2>1, HereOf DEF i
  <1>10. Inv
    OBVIOUS
  <1> HIDE DEF Inv
  <1> QED
    BY <1>1, <1>5, <1>6, <1>7, <1>8, <1>9, <1>10, WriteStep DEF ftableVars, callVars

\* sys_unlink erases the entry and the link.
LEMMA UnlinkKeeps ==
  ASSUME Inv, phase = "up", NEW p \in Proc, Unlink(p)
  PROVE  Inv'
  <1> USE DEF Inv
  <1> DEFINE dp  == at[p].cur
             i   == at[p].ip
             dir == Copy(i).type = "dir"
             X   == IF dir THEN TakenBack(mem[dp]) ELSE mem[dp]
             Y   == TakenBack(Copy(i))
             new == Two(dp, X, i, Y)
             D   == {dp, i}
             ents == [fs.ents EXCEPT ![dp][Head(at[p].path)] = 0]
             used == fs.used
  <1>1. /\ at[p].pc = "victim" /\ Ilock(i) /\ lock' = [lock EXCEPT ![dp] = Nobody]
        /\ UNCHANGED <<durable, ref, ftableVars, callVars, crashes>>
    BY DEF Unlink, Unlock
  <1>2. /\ dp \in Inum /\ i \in Inum /\ todo[p] # <<>>
        /\ <<dp, i>> \in Seq(Inum) /\ <<i, dp>> \in Seq(Inum)
    BY <1>1, InCall DEF Placed, Puts, Stage
  <1>3. /\ lock[dp] = p /\ dp \in valid
    BY <1>1 DEF Locking, Locks, Keeps, Stage, Puts
  <1>4. /\ phase' \in {"up", "panic"} /\ dp # i /\ Copy(i) = fs.ino[i] /\ Copy(i) \in Inode
        /\ (phase' # "panic" => Copy(i).type # "free")
    BY <1>1, <1>2, <1>3, IlockIs, FileSystemAssumption
  <1>5. mem[dp] = fs.ino[dp] /\ mem[dp].type # "free" /\ mem[dp] \in Inode
    BY <1>2, <1>3 DEF Copies, Types
  <1>6. \A q \in Proc : q # p => \A k \in Inum : lock[k] = q => lock'[k] = q
    BY <1>1, <1>2, <1>3 DEF Types
  <1>7. lock' \in [Inum -> Proc \cup {Nobody}]
    BY <1>1 DEF Types
  <1>8. CASE Write(new, ents, used) /\ PutThen(p, <<dp, i>>, "end")
    <2>1. /\ X \in Inode /\ X.type = fs.ino[dp].type /\ X.addrs = fs.ino[dp].addrs
          /\ Y \in Inode /\ Y.type = fs.ino[i].type /\ Y.addrs = fs.ino[i].addrs
      BY <1>4, <1>5 DEF TakenBack, Inode
    <2> HIDE DEF X, Y
    <2>2. /\ new \in [D -> Inode] /\ new[dp] = X /\ new[i] = Y /\ D \in SUBSET Inum
          /\ DOMAIN new = D
      BY <1>2, <1>4, <2>1 DEF Two
    <2>3. ents \in [Inum -> [Names -> Inum \cup {0}]] /\ used \in SUBSET Block
      BY DEF Types, Disk
    <2>4. Types /\ DOMAIN new \subseteq Inum /\ new \in [DOMAIN new -> Inode]
      BY <2>2
    <2> HIDE DEF dp, i, D, new, ents, used
    <2>5. /\ mem' \in [Inum -> Inode] /\ valid' \in SUBSET Inum /\ fs' \in Disk
          /\ fs'.used = used
          /\ \A k \in Inum : fs'.ino[k] = IF k \in D THEN new[k] ELSE fs.ino[k]
      <3> HIDE DEF Inv
      <3> QED
        BY <1>8, <2>2, <2>3, <2>4, WriteIs
    <2>6. Exact(fs')
      <3>1. Exact(fs)
        BY ExactDisks
      <3>2. \A k \in Inum : /\ fs'.ino[k].addrs = fs.ino[k].addrs
                            /\ fs'.ino[k].type = "free" => fs.ino[k].type = "free"
        BY <2>1, <2>2, <2>5 DEF D
      <3> QED
        BY <2>5, <3>1, <3>2, ExactSame DEF used
    <2>7. /\ at' \in [Proc -> Place] /\ \A q \in Proc : q # p => at'[q] = at[q]
          /\ at'[p].pc # "reap" /\ Runs(p)' /\ Locks(p)'
          /\ \A k, c : Here(k, c, at'[p]) = (IF c = k THEN 1 ELSE 0) + Count(k, <<dp, i>>)
      BY <1>1, <1>2, <1>8, PutAtEnd DEF callVars
    <2>8. Types'
      BY <1>1, <1>4, <1>7, <2>5, <2>7 DEF Types, ftableVars, callVars
    <2>9. ASSUME NEW k \in Inum
          PROVE  ref'[k] = ref[k] - Here(k, cwd[p], at[p]) + Here(k, cwd'[p], at'[p])
      <3>1. Here(k, cwd'[p], at'[p]) = (IF cwd[p] = k THEN 1 ELSE 0) + (IF dp = k THEN 1 ELSE 0)
                                       + (IF i = k THEN 1 ELSE 0)
        BY <1>1, <1>2, <2>7, CountTwo DEF ftableVars
      <3>2. Here(k, cwd[p], at[p]) = (IF cwd[p] = k THEN 1 ELSE 0) + (IF dp = k THEN 1 ELSE 0)
                                     + (IF i = k THEN 1 ELSE 0)
        BY <1>1, HereOf DEF dp, i
      <3> QED
        BY <1>1, <3>1, <3>2, HereOf
    <2>10. phase' # "panic" => \A k \in D : new[k].type # "free"
      BY <1>4, <1>5, <2>1, <2>2 DEF D
    <2>11. Inv
      OBVIOUS
    <2> HIDE DEF Inv
    <2> QED
      BY <1>1, <1>6, <1>8, <2>2, <2>3, <2>6, <2>7, <2>8, <2>9, <2>10, <2>11, WriteStep
      DEF ftableVars, callVars
  <1>9. CASE Look(i) /\ PutThen(p, <<i, dp>>, "end")
    <2> HIDE DEF dp, i
    <2>1. /\ at' \in [Proc -> Place] /\ \A q \in Proc : q # p => at'[q] = at[q]
          /\ at'[p].pc # "reap" /\ Runs(p)' /\ Locks(p)'
          /\ \A k, c : Here(k, c, at'[p]) = (IF c = k THEN 1 ELSE 0) + Count(k, <<i, dp>>)
      BY <1>1, <1>2, <1>9, PutAtEnd DEF callVars
    <2>2. Types'
      BY <1>1, <1>2, <1>4, <1>7, <1>9, <2>1, LookIs DEF Types, ftableVars, callVars
    <2>3. ASSUME NEW k \in Inum
          PROVE  ref'[k] = ref[k] - Here(k, cwd[p], at[p]) + Here(k, cwd'[p], at'[p])
      <3>1. Here(k, cwd'[p], at'[p]) = (IF cwd[p] = k THEN 1 ELSE 0) + (IF i = k THEN 1 ELSE 0)
                                       + (IF dp = k THEN 1 ELSE 0)
        BY <1>1, <1>2, <2>1, CountTwo DEF ftableVars
      <3>2. Here(k, cwd[p], at[p]) = (IF cwd[p] = k THEN 1 ELSE 0) + (IF dp = k THEN 1 ELSE 0)
                                     + (IF i = k THEN 1 ELSE 0)
        BY <1>1, HereOf DEF dp, i
      <3> QED
        BY <1>1, <3>1, <3>2, HereOf
    <2> QED
      BY <1>1, <1>2, <1>6, <1>9, <2>1, <2>2, <2>3, LookStep DEF ftableVars, callVars
  <1> QED
    BY <1>8, <1>9 DEF Unlink

\* kexit takes the link of the swap file away.
LEMMA SwapUnlinkKeeps ==
  ASSUME Inv, phase = "up", NEW p \in Proc, SwapUnlink(p)
  PROVE  Inv'
  <1> USE DEF Inv
  <1> DEFINE dp == at[p].cur
             i == at[p].ip
             x == TakenBack(Copy(i))
  <1>1. /\ at[p].pc = "victim" /\ Ilock(i) /\ Write(One(i, x), fs.ents, fs.used)
        /\ PutThen(p, <<i, dp>>, "end") /\ lock' = [lock EXCEPT ![dp] = Nobody]
        /\ UNCHANGED <<durable, ref, ftableVars, callVars, crashes>>
    BY DEF SwapUnlink, Save, Unlock
  <1>2. dp \in Inum /\ i \in Inum /\ todo[p] # <<>> /\ <<i, dp>> \in Seq(Inum) /\ <<i, dp>> # <<>>
    BY <1>1, InCall DEF Placed, Puts, Stage
  <1>3. Copy(i) \in Inode
    BY <1>1, <1>2, IlockIs
  <1>4. x \in Inode /\ x.type = Copy(i).type /\ x.addrs = Copy(i).addrs
    BY <1>3 DEF Inode, TakenBack
  <1>5. fs.ents \in [Inum -> [Names -> Inum \cup {0}]]
    BY DEF Types, Disk
  <1>6. lock[dp] = p
    BY <1>1 DEF Locking, Locks, Keeps, Stage, Puts
  <1> HIDE DEF dp, i, x
  <1>7. /\ mem' \in [Inum -> Inode] /\ valid' \in SUBSET Inum /\ fs' \in Disk /\ Exact(fs')
        /\ phase' \in {"up", "panic"}
        /\ {i} \in SUBSET Inum /\ One(i, x) \in [{i} -> Inode] /\ fs.used \in SUBSET Block
        /\ phase' # "panic" => \A k \in {i} : One(i, x)[k].type # "free"
    BY <1>1, <1>2, <1>4, <1>5, LinksWritten
  <1>8. /\ at' \in [Proc -> Place] /\ \A q \in Proc : q # p => at'[q] = at[q]
        /\ at'[p].pc # "reap" /\ Runs(p)' /\ Locks(p)'
        /\ \A k, c : Here(k, c, at'[p]) = (IF c = k THEN 1 ELSE 0) + Count(k, <<i, dp>>)
    BY <1>1, <1>2, PutAtEnd DEF callVars
  <1>9. Types'
    BY <1>1, <1>7, <1>8 DEF Types, ftableVars, callVars
  <1>10. ASSUME NEW k \in Inum
         PROVE  ref'[k] = ref[k] - Here(k, cwd[p], at[p]) + Here(k, cwd'[p], at'[p])
    <2>1. Here(k, cwd'[p], at'[p]) = (IF cwd[p] = k THEN 1 ELSE 0) + (IF i = k THEN 1 ELSE 0)
                                     + (IF dp = k THEN 1 ELSE 0)
      BY <1>1, <1>2, <1>8, CountTwo DEF ftableVars
    <2>2. Here(k, cwd[p], at[p]) = (IF cwd[p] = k THEN 1 ELSE 0) + (IF dp = k THEN 1 ELSE 0)
                                   + (IF i = k THEN 1 ELSE 0)
      BY <1>1, HereOf DEF dp, i
    <2> QED
      BY <1>1, <2>1, <2>2, HereOf
  <1>11. \A q \in Proc : q # p => \A k \in Inum : lock[k] = q => lock'[k] = q
    BY <1>1, <1>2, <1>6 DEF Types
  <1>12. Inv
    OBVIOUS
  <1> HIDE DEF Inv
  <1> QED
    BY <1>1, <1>5, <1>7, <1>8, <1>9, <1>10, <1>11, <1>12, WriteStep DEF ftableVars, callVars
-----------------------------------------------------------------------------
(* Calls on open files.                                                     *)

\* A process's descriptors and its swap file.
LEMMA DescriptorsCount ==
  ASSUME NEW s \in Seq(File), NEW w \in File \cup {0}, NEW f
  PROVE  LET t == s \o (IF w = 0 THEN <<>> ELSE <<w>>) IN
         /\ t \in Seq(File)
         /\ f # 0 => Count(f, t) = Count(f, s) + (IF w = f THEN 1 ELSE 0)
         /\ Count(f, t) \in Nat /\ Count(f, s) \in Nat
  <1> DEFINE u == IF w = 0 THEN <<>> ELSE <<w>>
             t == s \o u
  <1>1. u \in Seq(File)
    OBVIOUS
  <1>2. Count(f, u) = IF w # 0 /\ w = f THEN 1 ELSE 0
    BY CountNone, CountOne
  <1> HIDE DEF u
  <1>3. t \in Seq(File)
    BY <1>1
  <1>4. Count(f, t) = Count(f, s) + Count(f, u)
    BY <1>1, CountBoth
  <1>5. Count(f, s) \in Nat
    BY CountFinite
  <1> QED
    BY <1>2, <1>3, <1>4, <1>5 DEF u

\* Descriptors and the swap file of a process are references to struct files.
LEMMA FilesTyped ==
  ASSUME Types
  PROVE  /\ Files \in [Proc -> Seq(File)]
         /\ \A p \in Proc : \A f \in File :
              /\ Count(f, Files[p]) = Count(f, ofile[p]) + (IF swapFile[p] = f THEN 1 ELSE 0)
              /\ Count(f, Files[p]) \in Nat /\ Count(f, ofile[p]) \in Nat
  <1>1. \A p \in Proc : ofile[p] \in Seq(File) /\ swapFile[p] \in File \cup {0}
    BY DEF Types
  <1>2. 0 \notin File
    BY DEF File
  <1>3. \A p \in Proc : \A f \in File :
          LET t == ofile[p] \o (IF swapFile[p] = 0 THEN <<>> ELSE <<swapFile[p]>>) IN
          /\ t \in Seq(File)
          /\ Count(f, t) = Count(f, ofile[p]) + (IF swapFile[p] = f THEN 1 ELSE 0)
          /\ Count(f, t) \in Nat /\ Count(f, ofile[p]) \in Nat
    BY <1>1, <1>2, DescriptorsCount
  <1>4. \A p \in Proc :
          ofile[p] \o (IF swapFile[p] = 0 THEN <<>> ELSE <<swapFile[p]>>) \in Seq(File)
    BY <1>1
  <1> QED
    BY <1>3, <1>4 DEF Files

\* A file that a process has open has references and an inode in use.
LEMMA OpenIsLive ==
  ASSUME Inv, phase = "up", NEW p \in Proc, NEW f,
         (ofile[p] # <<>> /\ f = Head(ofile[p])) \/ (swapFile[p] # 0 /\ f = swapFile[p])
  PROVE  /\ f \in File /\ fref[f] >= 1 /\ fref[f] >= Count(f, Files[p]) /\ Count(f, Files[p]) >= 1
         /\ fip[f] \in Inum /\ fs.ino[fip[f]].type # "free"
         /\ \A q \in Proc : q # p /\ Count(f, Files[q]) >= 1 => fref[f] >= Count(f, Files[p]) + 1
  <1> USE DEF Inv
  <1>1. f \in File
    BY DEF Types
  <1>2. Files \in [Proc -> Seq(File)]
    BY FilesTyped
  <1>3. Count(f, Files[p]) >= 1
    <2>1. ofile[p] # <<>> /\ f = Head(ofile[p]) => Count(f, ofile[p]) >= 1
      BY CountHead DEF Types
    <2> QED
      BY <1>1, <2>1, FilesTyped
  <1>4. /\ Cardinality(Uses(f, Files)) >= Count(f, Files[p]) /\ Count(f, Files[p]) \in Nat
        /\ Cardinality(Uses(f, Files)) \in Nat
    BY <1>2, OwnUses
  <1>5. fref[f] = Cardinality(Uses(f, Files))
    BY <1>1 DEF Counted
  <1>6. fref[f] >= 1 /\ fref[f] > 0
    BY <1>3, <1>4, <1>5
  <1>7. fip[f] \in Inum /\ fs.ino[fip[f]].type # "free"
    BY <1>1, <1>6 DEF FilesLive
  <1>8. \A q \in Proc : q # p /\ Count(f, Files[q]) >= 1
          => Cardinality(Uses(f, Files)) >= Count(f, Files[p]) + 1
    BY <1>2, TwoUsers
  <1> QED
    BY <1>1, <1>3, <1>4, <1>5, <1>6, <1>7, <1>8

\* writei: blocks are allocated to the inode that is written.
LEMMA WriteiKeeps ==
  ASSUME Inv, phase = "up", NEW p \in Proc, Writei(p)
  PROVE  Inv'
  <1> USE DEF Inv
  <1> DEFINE i == at[p].cur
             more == IF Cardinality(Copy(i).addrs) < MAXFILE /\ Spare # {} THEN NextBlock ELSE {}
             x == [Copy(i) EXCEPT !.addrs = @ \cup more]
             D == {i}
             new == One(i, x)
             ents == fs.ents
             used == fs.used \cup more
  <1>1. /\ at[p].pc = "write" /\ Ilock(i) /\ Write(new, ents, used) /\ At(p, "end")
        /\ UNCHANGED <<durable, ref, lock, ftableVars, callVars, crashes>>
    BY DEF Writei
  <1>2. i = fip[Head(ofile[p])] /\ ofile[p] # <<>> /\ todo[p] # <<>>
    BY <1>1 DEF Running, Runs
  <1>3. i \in Inum /\ fs.ino[i].type # "free"
    BY <1>2, OpenIsLive
  <1>4. /\ phase' \in {"up", "panic"} /\ Copy(i) = fs.ino[i] /\ Copy(i) \in Inode
    BY <1>1, <1>3, IlockIs
  <1>5. more \in SUBSET Block /\ more \cap fs.used = {}
    <2>1. Spare # {} => Min(Spare) \in Spare
      BY Least DEF Spare, Block
    <2> QED
      BY <2>1 DEF NextBlock, Spare
  <1> HIDE DEF more
  <1>6. x \in Inode /\ x.type = fs.ino[i].type /\ x.addrs = fs.ino[i].addrs \cup more
    BY <1>4, <1>5 DEF Inode
  <1> HIDE DEF x
  <1>7. /\ D \in SUBSET Inum /\ new \in [D -> Inode] /\ new[i] = x /\ DOMAIN new = D /\ i \in D
        /\ DOMAIN new \subseteq Inum /\ new \in [DOMAIN new -> Inode]
    BY <1>3, <1>6 DEF One
  <1>8. ents \in [Inum -> [Names -> Inum \cup {0}]] /\ used \in SUBSET Block
    BY <1>5 DEF Types, Disk
  <1>9. /\ at' \in [Proc -> Place] /\ at'[p].pc = "end" /\ \A q \in Proc : q # p => at'[q] = at[q]
    BY <1>1, AtIs DEF Pcs, Later
  <1>10. Stage(at'[p]) = "end" /\ ~Puts(at'[p])
    BY <1>9 DEF Stage, Puts
  <1>11. Inv /\ Types /\ Exact(fs)
    BY ExactDisks
  <1> HIDE DEF i, D, new, ents, used
  <1>12. /\ mem' \in [Inum -> Inode] /\ valid' \in SUBSET Inum /\ fs' \in Disk
         /\ fs'.used = used
         /\ \A k \in Inum : fs'.ino[k] = IF k \in D THEN new[k] ELSE fs.ino[k]
    <2> HIDE DEF Inv
    <2> QED
      BY <1>1, <1>7, <1>8, <1>11, WriteIs
  <1>13. Exact(fs')
    <2>1. fs.used \subseteq fs'.used /\ more = fs'.used \ fs.used
      BY <1>5, <1>12 DEF used
    <2>2. /\ fs'.ino[i].addrs = fs.ino[i].addrs \cup (fs'.used \ fs.used)
          /\ fs'.ino[i].type # "free"
      BY <2>1, <1>3, <1>6, <1>7, <1>12
    <2>3. \A k \in Inum : k # i => /\ fs'.ino[k].addrs = fs.ino[k].addrs
                                   /\ fs'.ino[k].type = "free" => fs.ino[k].type = "free"
      BY <1>12 DEF D
    <2> HIDE DEF Inv
    <2> QED
      BY <1>3, <1>11, <2>1, <2>2, <2>3, ExactGrown
  <1>14. Types'
    BY <1>1, <1>4, <1>9, <1>12 DEF Types, ftableVars, callVars
  <1>15. ASSUME NEW k \in Inum
         PROVE  ref'[k] = ref[k] - Here(k, cwd[p], at[p]) + Here(k, cwd'[p], at'[p])
    <2>1. Here(k, cwd'[p], at'[p]) = IF cwd[p] = k THEN 1 ELSE 0
      BY <1>1, <1>10 DEF Here, HasSecond, Holding, ftableVars
    <2> QED
      BY <1>1, <2>1, HereOf
  <1>16. Runs(p)'
    BY <1>1, <1>2, <1>9, <1>10 DEF Runs, Placed, callVars
  <1>17. Locks(p)'
    BY <1>9, <1>10 DEF Locks, Keeps
  <1>18. \A k \in D : new[k].type # "free"
    BY <1>3, <1>6, <1>7 DEF D
  <1> HIDE DEF Inv
  <1> QED
    BY <1>1, <1>7, <1>8, <1>9, <1>11, <1>13, <1>14, <1>15, <1>16, <1>17, <1>18, WriteStep
    DEF ftableVars, callVars

\* sys_write takes the struct file of the descriptor.
LEMMA WriteCallKeeps ==
  ASSUME Inv, phase = "up", NEW p \in Proc, WriteCall(p)
  PROVE  Inv'
  <1> USE DEF Inv
  <1> DEFINE i == fip[Head(ofile[p])]
             n == [at[p] EXCEPT !.pc = "write", !.cur = i]
  <1>1. /\ at[p].pc = "user" /\ todo[p] # <<>> /\ ofile[p] # <<>> /\ Goto(p, n)
        /\ ops' = ops \cup {p} /\ Call(p).op # "swapon"
        /\ UNCHANGED <<fs, durable, itableVars, ftableVars, todo, phase, crashes>>
    BY DEF WriteCall
  <1>2. i \in Inum /\ at[p] \in Place
    BY <1>1, OpenIsLive DEF Types
  <1>3. n \in Place /\ n.pc = "write" /\ n.cur = i
    BY <1>2 DEF Place, Pcs
  <1>4. /\ at' \in [Proc -> Place] /\ at'[p] = n /\ \A q \in Proc : q # p => at'[q] = at[q]
    BY <1>1, <1>3, GotoIs
  <1>5. /\ at'[p].pc = "write" /\ at'[p].cur = i /\ Stage(at'[p]) = "write" /\ ~Puts(at'[p])
    BY <1>3, <1>4 DEF Stage, Puts
  <1> HIDE DEF n
  <1>6. Types'
    BY <1>1, <1>4 DEF Types, itableVars, ftableVars
  <1>7. ASSUME NEW k \in Inum
        PROVE  ref'[k] = ref[k] - Here(k, cwd[p], at[p]) + Here(k, cwd'[p], at'[p])
    <2>1. Here(k, cwd'[p], at'[p]) = IF cwd[p] = k THEN 1 ELSE 0
      BY <1>1, <1>5 DEF Here, HasSecond, Holding, ftableVars
    <2> QED
      BY <1>1, <2>1, HereOf DEF itableVars
  <1>8. Runs(p)'
    BY <1>1, <1>5 DEF Runs, Placed, ftableVars
  <1>9. Locks(p)'
    BY <1>5 DEF Locks, Keeps
  <1> QED
    BY <1>1, <1>4, <1>5, <1>6, <1>7, <1>8, <1>9, QuietStep DEF itableVars, ftableVars

\* kexit's namei of the swap file.
LEMMA SwapFindKeeps ==
  ASSUME Inv, phase = "up", NEW p \in Proc, SwapFind(p)
  PROVE  Inv'
  <1> USE DEF Inv
  <1> DEFINE i == ROOTINO
             path == <<SwapName[p]>>
             n == [at[p] EXCEPT !.pc = "walk", !.cur = i, !.path = path]
  <1>1. /\ at[p].pc = "again" /\ durable' \in {fs, durable} /\ Goto(p, n)
        /\ ref' = [ref EXCEPT ![i] = @ + 1]
        /\ UNCHANGED <<fs, valid, mem, lock, ftableVars, callVars, phase, crashes>>
    BY DEF SwapFind, Committed, Iget
  <1>2. /\ todo[p] # <<>> /\ at[p] \in Place /\ at[p].ip = 0 /\ Call(p).op # "swapon"
    BY <1>1, InCall DEF Placed, Stage, Puts
  <1>3. i \in Inum /\ path \in Seq(Names) /\ path # <<>>
    <2>1. i \in Inum
      BY FileSystemAssumption DEF Inum, ROOTINO
    <2>2. SwapName[p] \in Names
      BY FileSystemAssumption DEF Names
    <2> QED
      BY <2>1, <2>2
  <1> HIDE DEF i, path
  <1>4. /\ n \in Place /\ n.pc = "walk" /\ n.cur = i /\ n.path = path /\ n.ip = 0
    <2>1. "walk" \in Pcs
      BY DEF Pcs, Later
    <2> QED
      BY <1>2, <1>3, <2>1 DEF Place
  <1>5. /\ at' \in [Proc -> Place] /\ at'[p] = n /\ \A q \in Proc : q # p => at'[q] = at[q]
    BY <1>1, <1>4, GotoIs
  <1>6. /\ at'[p].pc = "walk" /\ at'[p].cur = i /\ at'[p].path = path /\ at'[p].ip = 0
        /\ Stage(at'[p]) = "walk" /\ ~Puts(at'[p])
    BY <1>4, <1>5 DEF Stage, Puts
  <1> HIDE DEF n
  <1>7. Types'
    BY <1>1, <1>3, <1>5 DEF Types, ftableVars, callVars
  <1>8. ASSUME NEW k \in Inum
        PROVE  ref'[k] = ref[k] - Here(k, cwd[p], at[p]) + Here(k, cwd'[p], at'[p])
    <2>1. Here(k, cwd'[p], at'[p]) = (IF cwd[p] = k THEN 1 ELSE 0) + (IF i = k THEN 1 ELSE 0)
      BY <1>1, <1>6 DEF Here, HasSecond, Holding, ftableVars
    <2>2. ref[k] \in Int /\ ref'[k] = ref[k] + (IF i = k THEN 1 ELSE 0)
      BY <1>1, <1>3 DEF Types
    <2> QED
      BY <1>1, <2>1, <2>2, HereOf
  <1>9. Runs(p)'
    BY <1>1, <1>2, <1>3, <1>6 DEF Runs, Placed, callVars
  <1>10. Locks(p)'
    BY <1>6 DEF Locks, Keeps
  <1> QED
    BY <1>1, <1>2, <1>5, <1>6, <1>7, <1>8, <1>9, <1>10, QuietStep DEF ftableVars, callVars

\* The calls that are left.
LEMMA DoneIs ==
  ASSUME Types, NEW p \in Proc, todo[p] # <<>>, Done(p)
  PROVE  /\ todo' \in [Proc -> Seq(Calls)]
         /\ \A q \in Proc : q # p => todo'[q] = todo[q]
         /\ \A q \in Proc : \A k \in DOMAIN todo'[q] : WellMade(todo'[q][k])
  <1> DEFINE s == todo[p]
  <1>1. s \in Seq(Calls) /\ \A k \in DOMAIN s : WellMade(s[k])
    BY DEF Types
  <1>2. /\ Tail(s) \in Seq(Calls) /\ Len(Tail(s)) = Len(s) - 1 /\ Len(s) \in Nat
        /\ \A k \in 1..Len(Tail(s)) : Tail(s)[k] = s[k + 1]
    BY <1>1, HeadTailProperties
  <1>3. \A k \in DOMAIN Tail(s) : WellMade(Tail(s)[k])
    <2> TAKE k \in DOMAIN Tail(s)
    <2>1. k \in 1..Len(Tail(s)) /\ k + 1 \in DOMAIN s
      BY <1>1, <1>2
    <2> QED
      BY <1>1, <1>2, <2>1
  <1> HIDE DEF s
  <1>4. todo' = [todo EXCEPT ![p] = Tail(s)]
    BY DEF Done, s
  <1> QED
    BY <1>2, <1>3, <1>4 DEF Types

\* end_op: what was done is on the disk.
LEMMA EndOpKeeps ==
  ASSUME Inv, phase = "up", NEW p \in Proc, EndOp(p)
  PROVE  Inv'
  <1> USE DEF Inv
  <1>1. /\ at[p].pc = "end" /\ durable' \in {fs, durable} /\ Done(p) /\ ops' = ops \ {p}
        /\ at' = [at EXCEPT ![p] = Idle]
        /\ UNCHANGED <<fs, itableVars, ftableVars, phase, crashes>>
    BY DEF EndOp, Committed
  <1>2. /\ todo' \in [Proc -> Seq(Calls)] /\ \A q \in Proc : q # p => todo'[q] = todo[q]
        /\ \A q \in Proc : \A k \in DOMAIN todo'[q] : WellMade(todo'[q][k])
    BY <1>1, InCall, DoneIs
  <1>3. Idle \in Place /\ Idle.pc = "user" /\ Stage(Idle) = "user" /\ ~Puts(Idle)
    <2>1. "user" \in Pcs /\ "end" \in Later
      BY DEF Pcs, Later
    <2> QED
      BY <2>1 DEF Idle, Place, Stage, Puts
  <1>4. /\ at' \in [Proc -> Place] /\ at'[p] = Idle /\ \A q \in Proc : q # p => at'[q] = at[q]
    BY <1>1, <1>3 DEF Types
  <1>5. Types'
    BY <1>1, <1>2, <1>4 DEF Types, itableVars, ftableVars
  <1>6. ASSUME NEW k \in Inum
        PROVE  ref'[k] = ref[k] - Here(k, cwd[p], at[p]) + Here(k, cwd'[p], at'[p])
    <2>1. Here(k, cwd'[p], at'[p]) = IF cwd[p] = k THEN 1 ELSE 0
      BY <1>1, <1>3, <1>4 DEF Here, HasSecond, Holding, ftableVars
    <2> QED
      BY <1>1, <2>1, HereOf DEF itableVars
  <1>7. Runs(p)' /\ Locks(p)'
    BY <1>3, <1>4 DEF Runs, Locks, Keeps
  <1>8. ~Busy(at'[p])
    BY <1>3, <1>4 DEF Busy
  <1> QED
    BY <1>1, <1>2, <1>3, <1>4, <1>5, <1>6, <1>7, <1>8, QuietStep DEF itableVars, ftableVars

\* A call that has nothing to do returns.
LEMMA NothingToDoKeeps ==
  ASSUME Inv, phase = "up", NEW p \in Proc, NothingToDo(p)
  PROVE  Inv'
  <1> USE DEF Inv
  <1>1. /\ at[p].pc = "user" /\ todo[p] # <<>> /\ Done(p)
        /\ UNCHANGED <<fs, durable, itableVars, ftableVars, ops, at, phase, crashes>>
    BY DEF NothingToDo
  <1>2. /\ todo' \in [Proc -> Seq(Calls)] /\ \A q \in Proc : q # p => todo'[q] = todo[q]
        /\ \A q \in Proc : \A k \in DOMAIN todo'[q] : WellMade(todo'[q][k])
    BY <1>1, DoneIs
  <1>3. at'[p] = Idle /\ Idle.pc = "user" /\ Stage(Idle) = "user"
    BY <1>1 DEF Running, Runs, Idle, Stage, Puts
  <1>4. Types'
    BY <1>1, <1>2 DEF Types, itableVars, ftableVars
  <1>5. ASSUME NEW k \in Inum
        PROVE  ref'[k] = ref[k] - Here(k, cwd[p], at[p]) + Here(k, cwd'[p], at'[p])
    BY <1>1, HereOf, InodesTyped DEF itableVars, ftableVars
  <1>6. Runs(p)' /\ Locks(p)'
    BY <1>3 DEF Runs, Locks, Keeps
  <1>7. ~Busy(at'[p])
    BY <1>3 DEF Busy
  <1> QED
    BY <1>1, <1>2, <1>3, <1>4, <1>5, <1>6, <1>7, QuietStep DEF itableVars, ftableVars

\* When the descriptors and the swap file of p change.
Descriptors(f, s, w) == Count(f, s) + (IF w = f THEN 1 ELSE 0)

\* The count of a struct file moves as the descriptors of the one process that moves.
LEMMA FilesMoved ==
  ASSUME Types, Types', NEW p \in Proc, NEW f \in File,
         \A q \in Proc \ {p} : ofile'[q] = ofile[q] /\ swapFile'[q] = swapFile[q]
  PROVE  /\ Cardinality(Uses(f, Files)) \in Nat
         /\ Descriptors(f, ofile[p], swapFile[p]) \in Nat
         /\ Descriptors(f, ofile'[p], swapFile'[p]) \in Nat
         /\ Cardinality(Uses(f, Files'))
            = Cardinality(Uses(f, Files)) - Descriptors(f, ofile[p], swapFile[p])
              + Descriptors(f, ofile'[p], swapFile'[p])
  <1> DEFINE s == Files
             t == Files'
             F == File
  <1>1. /\ s \in [Proc -> Seq(F)] /\ Count(f, s[p]) = Descriptors(f, ofile[p], swapFile[p])
        /\ Count(f, s[p]) \in Nat
    BY FilesTyped DEF Descriptors
  <1>2. \A q \in Proc : ofile'[q] \in Seq(File) /\ swapFile'[q] \in File \cup {0}
    BY DEF Types
  <1>3. f # 0
    BY DEF File
  <1>4. \A q \in Proc :
          LET u == ofile'[q] \o (IF swapFile'[q] = 0 THEN <<>> ELSE <<swapFile'[q]>>) IN
          /\ u \in Seq(File)
          /\ Count(f, u) = Descriptors(f, ofile'[q], swapFile'[q]) /\ Count(f, u) \in Nat
    BY <1>2, <1>3, DescriptorsCount DEF Descriptors
  <1>5. t = [q \in Proc |-> ofile'[q] \o (IF swapFile'[q] = 0 THEN <<>> ELSE <<swapFile'[q]>>)]
    BY DEF Files
  <1>6. /\ t \in [Proc -> Seq(F)] /\ Count(f, t[p]) = Descriptors(f, ofile'[p], swapFile'[p])
        /\ Count(f, t[p]) \in Nat
    BY <1>4, <1>5
  <1>7. \A q \in Proc : q # p => t[q] = s[q]
    BY <1>5 DEF Files
  <1> HIDE DEF s, t, F
  <1>8. Cardinality(Uses(f, t)) = Cardinality(Uses(f, s)) - Count(f, s[p]) + Count(f, t[p])
    BY <1>1, <1>6, <1>7, RecountAll
  <1>9. Cardinality(Uses(f, s)) \in Nat
    BY <1>1, UsesFinite
  <1> QED
    BY <1>1, <1>6, <1>8, <1>9 DEF s, t

\* A step of p that may open and close files.
LEMMA FileStep ==
  ASSUME Types, Running, Counted, NEW p \in Proc, Types',
         \A q \in Proc : q # p => /\ at'[q] = at[q] /\ cwd'[q] = cwd[q] /\ todo'[q] = todo[q]
                                  /\ ofile'[q] = ofile[q] /\ swapFile'[q] = swapFile[q]
                                  /\ at[q].pc = "write"
                                       => fip'[Head(ofile[q])] = fip[Head(ofile[q])],
         \A i \in Inum : ref'[i] = ref[i] - (Here(i, cwd[p], at[p]) + Cardinality(Opens(i)))
                                          + (Here(i, cwd'[p], at'[p]) + Cardinality(Opens(i)')),
         \A f \in File : fref'[f] = fref[f] - Descriptors(f, ofile[p], swapFile[p])
                                            + Descriptors(f, ofile'[p], swapFile'[p]),
         Runs(p)',
         \A q \in Proc : swapFile'[q] # 0 => /\ fref'[swapFile'[q]] = 1
                                             /\ Busy(at'[q]) => Call(q)'.op # "swapon"
  PROVE  Running' /\ Counted'
  <1>1. Running'
    BY OthersRun
  <1>2. ASSUME NEW i \in Inum
        PROVE  ref'[i] = Cardinality(Uses(i, Inodes')) + Cardinality(Opens(i)')
    <2>1. /\ Cardinality(Uses(i, Inodes)) \in Nat
          /\ Cardinality(Uses(i, Inodes'))
             = Cardinality(Uses(i, Inodes)) - Here(i, cwd[p], at[p]) + Here(i, cwd'[p], at'[p])
      BY InodesMoved
    <2>2. Cardinality(Opens(i)) \in Nat
      BY OpensFinite
    <2>3. Cardinality(Opens(i)') \in Nat
      <3>1. IsFiniteSet(File)
        BY FileSystemAssumption, FS_Interval DEF File
      <3>2. Opens(i)' \in SUBSET File
        BY DEF Opens
      <3> QED
        BY <3>1, <3>2, FS_Subset, FS_CardinalityType
    <2>4. ref[i] = Cardinality(Uses(i, Inodes)) + Cardinality(Opens(i))
      BY DEF Counted
    <2>5. Here(i, cwd[p], at[p]) \in Nat
      BY InodesTyped
    <2>6. Here(i, cwd'[p], at'[p]) \in Nat
      BY LocalsCount DEF Types
    <2> QED
      BY <2>1, <2>2, <2>3, <2>4, <2>5, <2>6
  <1>3. ASSUME NEW f \in File
        PROVE  fref'[f] = Cardinality(Uses(f, Files'))
    <2>1. /\ Cardinality(Uses(f, Files)) \in Nat
          /\ Descriptors(f, ofile[p], swapFile[p]) \in Nat
          /\ Descriptors(f, ofile'[p], swapFile'[p]) \in Nat
          /\ Cardinality(Uses(f, Files'))
             = Cardinality(Uses(f, Files)) - Descriptors(f, ofile[p], swapFile[p])
               + Descriptors(f, ofile'[p], swapFile'[p])
      BY FilesMoved
    <2>2. fref[f] = Cardinality(Uses(f, Files))
      BY DEF Counted
    <2> QED
      BY <2>1, <2>2
  <1> QED
    BY <1>1, <1>2, <1>3 DEF Counted

\* A struct file with one reference is in one place.
HasOpen(p, f) == (ofile[p] # <<>> /\ f = Head(ofile[p])) \/ (swapFile[p] # 0 /\ f = swapFile[p])

\* A struct file with one reference is used by one process, in one way.
LEMMA SoleUser ==
  ASSUME Inv, phase = "up", NEW p \in Proc, NEW f, HasOpen(p, f), fref[f] = 1
  PROVE  /\ \A q \in Proc : q # p => ~HasOpen(q, f)
         /\ ofile[p] # <<>> /\ f = Head(ofile[p]) => swapFile[p] # f
  <1>1. /\ f \in File /\ Count(f, Files[p]) >= 1 /\ Count(f, Files[p]) \in Nat
        /\ fref[f] >= Count(f, Files[p])
        /\ \A q \in Proc : q # p /\ Count(f, Files[q]) >= 1 => fref[f] >= Count(f, Files[p]) + 1
    BY OpenIsLive, FilesTyped DEF HasOpen, Inv
  <1>2. ASSUME NEW q \in Proc, q # p, HasOpen(q, f)
        PROVE  FALSE
    <2>1. Count(f, Files[q]) >= 1
      BY <1>2, OpenIsLive DEF HasOpen
    <2> QED
      BY <1>1, <1>2, <2>1
  <1>3. ASSUME ofile[p] # <<>>, f = Head(ofile[p]), swapFile[p] = f
        PROVE  FALSE
    <2>1. Count(f, ofile[p]) >= 1
      BY <1>3, CountHead DEF Inv, Types
    <2>2. Count(f, Files[p]) = Count(f, ofile[p]) + 1 /\ Count(f, ofile[p]) \in Nat
      BY <1>1, <1>3, FilesTyped DEF Inv
    <2> QED
      BY <1>1, <2>1, <2>2
  <1> QED
    BY <1>2, <1>3

\* fileclose of the last reference.
LEMMA LastClosed ==
  ASSUME Inv, phase = "up", NEW p \in Proc, at[p].pc = "user", NEW f, HasOpen(p, f), fref[f] = 1,
         Call(p).op # "swapon", fref' = [fref EXCEPT ![f] = 0], fip' = [fip EXCEPT ![f] = 0],
         UNCHANGED <<fs, durable, itableVars, cwd, todo, phase>>, Types',
         \A q \in Proc : q # p => /\ at'[q] = at[q]
                                  /\ ofile'[q] = ofile[q] /\ swapFile'[q] = swapFile[q],
         \A g \in File : Descriptors(g, ofile'[p], swapFile'[p])
                         = Descriptors(g, ofile[p], swapFile[p]) - (IF g = f THEN 1 ELSE 0),
         swapFile'[p] \in {0, swapFile[p]}, swapFile'[p] # f,
         \A k \in Inum : Here(k, cwd[p], at'[p]) = (IF cwd[p] = k THEN 1 ELSE 0)
                                                   + (IF fip[f] = k THEN 1 ELSE 0),
         at'[p].pc # "reap", Runs(p)', Locks(p)'
  PROVE  Inv'
  <1> USE DEF Inv
  <1>1. f \in File /\ fip[f] \in Inum
    BY OpenIsLive DEF HasOpen
  <1>0. PICK i \in Inum : i = fip[f]
    BY <1>1
  <1>2. /\ fref' \in [File -> Nat] /\ fref'[f] = 0 /\ fip'[f] = 0
        /\ \A g \in File : g # f => fref'[g] = fref[g] /\ fip'[g] = fip[g]
    BY <1>1 DEF Types
  <1>3. \A k \in Inum : /\ Opens(k)' \subseteq Opens(k)
                        /\ k # i => Opens(k)' = Opens(k)
    BY <1>0, <1>1, <1>2 DEF Opens
  <1>4. Opens(i)' = Opens(i) \ {f} /\ f \in Opens(i)
    BY <1>0, <1>1, <1>2 DEF Opens
  <1>5. Cardinality(Opens(i)') = Cardinality(Opens(i)) - 1
    <2>1. IsFiniteSet(Opens(i))
      BY OpensFinite
    <2> QED
      BY <1>4, <2>1, FS_RemoveElement
  <1>6. ASSUME NEW k \in Inum
        PROVE  ref'[k] = ref[k] - (Here(k, cwd[p], at[p]) + Cardinality(Opens(k)))
                                + (Here(k, cwd'[p], at'[p]) + Cardinality(Opens(k)'))
    <2>1. Here(k, cwd[p], at[p]) = IF cwd[p] = k THEN 1 ELSE 0
      BY HereOf
    <2>2. Here(k, cwd'[p], at'[p]) = (IF cwd[p] = k THEN 1 ELSE 0) + (IF i = k THEN 1 ELSE 0)
      BY <1>0
    <2>3. Cardinality(Opens(k)') = Cardinality(Opens(k)) - (IF i = k THEN 1 ELSE 0)
      <3>1. CASE i = k
        BY <1>5, <3>1
      <3>2. CASE i # k
        BY <1>3, <3>2, OpensFinite
      <3> QED
        BY <3>1, <3>2
    <2>4. ref'[k] = ref[k] /\ ref[k] \in Int /\ Cardinality(Opens(k)) \in Nat
      BY OpensFinite DEF itableVars, Types
    <2> QED
      BY <2>1, <2>2, <2>3, <2>4
  <1>7. \A g \in File : fref'[g] = fref[g] - Descriptors(g, ofile[p], swapFile[p])
                                           + Descriptors(g, ofile'[p], swapFile'[p])
    <2>0. \A g \in File : Count(g, ofile[p]) \in Nat
      BY FilesTyped
    <2>1. \A g \in File : Descriptors(g, ofile[p], swapFile[p]) \in Nat /\ fref[g] \in Nat
      BY <2>0 DEF Descriptors, Types
    <2> QED
      BY <1>1, <1>2, <2>1
  <1>8. \A q \in Proc : q # p => (at[q].pc = "write"
                                    => fip'[Head(ofile[q])] = fip[Head(ofile[q])])
    <2>0. \A q \in Proc : q # p => ~HasOpen(q, f)
      BY SoleUser
    <2>1. ASSUME NEW q \in Proc, q # p, at[q].pc = "write"
          PROVE  Head(ofile[q]) # f /\ Head(ofile[q]) \in File
      <3>1. ofile[q] # <<>>
        BY <2>1 DEF Running, Runs
      <3> QED
        BY <2>0, <2>1, <3>1, SMTT(30) DEF HasOpen, Types
    <2> QED
      BY <1>2, <2>1
  <1>9. \A q \in Proc : swapFile'[q] # 0 => /\ fref'[swapFile'[q]] = 1
                                            /\ Busy(at'[q]) => Call(q)'.op # "swapon"
    <2> SUFFICES ASSUME NEW q \in Proc, swapFile'[q] # 0
                 PROVE  fref'[swapFile'[q]] = 1 /\ (Busy(at'[q]) => Call(q)'.op # "swapon")
      OBVIOUS
    <2>0. q # p => ~HasOpen(q, f)
      BY SoleUser
    <2>1. /\ swapFile'[q] = swapFile[q] /\ swapFile[q] \in File /\ swapFile[q] # f
          /\ fref[swapFile[q]] = 1
      BY <2>0 DEF HasOpen, Types, Counted
    <2>2. Call(q)' = Call(q)
      BY DEF Call
    <2> QED
      BY <1>2, <2>1, <2>2 DEF Counted
  <1>10. Running' /\ Counted'
    BY <1>6, <1>7, <1>8, <1>9, FileStep
  <1>11. Locking'
    <2>1. \A k : ~Reaps(at'[p], k)
      BY DEF Reaps
    <2>2. \A q \in Proc : at[q].pc = "reap"
            => Opens(Head(at[q].drop))' \subseteq Opens(Head(at[q].drop))
      BY <1>2 DEF Opens
    <2> QED
      BY <2>1, <2>2, OthersLock DEF itableVars
  <1>12. Copies' /\ FilesLive' /\ BlocksExact'
    BY <1>2 DEF Copies, FilesLive, BlocksExact, itableVars
  <1> QED
    BY <1>10, <1>11, <1>12

\* A struct file with other references, before or after.
LEMMA SharedKept ==
  ASSUME Inv, phase = "up", NEW p \in Proc, at[p].pc = "user", todo[p] # <<>>, Done(p),
         ofile[p] # <<>>, fref' \in [File -> Nat], fref'[Head(ofile[p])] >= 1,
         \A g \in File : g # Head(ofile[p]) => fref'[g] = fref[g],
         ofile' \in [Proc -> Seq(File)], \A q \in Proc : q # p => ofile'[q] = ofile[q],
         \A g \in File : Count(g, ofile'[p]) = Count(g, ofile[p]) + fref'[g] - fref[g],
         UNCHANGED <<fs, durable, itableVars, fip, swapFile, cwd, ops, at, phase, crashes>>
  PROVE  Inv'
  <1> USE DEF Inv
  <1> DEFINE f == Head(ofile[p])
  <1>1. f \in File /\ fref[f] >= 1 /\ fref[f] \in Nat
    BY OpenIsLive DEF Types
  <1>2. /\ todo' \in [Proc -> Seq(Calls)] /\ \A q \in Proc : q # p => todo'[q] = todo[q]
        /\ \A q \in Proc : \A k \in DOMAIN todo'[q] : WellMade(todo'[q][k])
    BY DoneIs
  <1>3. /\ fref' \in [File -> Nat] /\ fref'[f] >= 1
        /\ \A g \in File : g # f => fref'[g] = fref[g]
    OBVIOUS
  <1> HIDE DEF f
  <1>5. Types'
    BY <1>2, <1>3 DEF Types, itableVars
  <1>6. at'[p] = Idle /\ Idle.pc = "user" /\ Stage(Idle) = "user"
    BY DEF Running, Runs, Idle, Stage, Puts
  <1>7. \A k : Opens(k)' = Opens(k)
    BY <1>1, <1>3, SMTT(30) DEF Opens
  <1>8. ASSUME NEW k \in Inum
        PROVE  ref'[k] = ref[k] - (Here(k, cwd[p], at[p]) + Cardinality(Opens(k)))
                                + (Here(k, cwd'[p], at'[p]) + Cardinality(Opens(k)'))
    <2>1. ref'[k] = ref[k] /\ ref[k] \in Int /\ Cardinality(Opens(k)) \in Nat
      BY OpensFinite DEF itableVars, Types
    <2>2. Here(k, cwd[p], at[p]) \in Nat
      BY InodesTyped
    <2>3. Cardinality(Opens(k)') = Cardinality(Opens(k)) /\ cwd'[p] = cwd[p] /\ at'[p] = at[p]
      BY <1>7
    <2> QED
      BY <2>1, <2>2, <2>3
  <1>9. \A g \in File : fref'[g] = fref[g] - Descriptors(g, ofile[p], swapFile[p])
                                           + Descriptors(g, ofile'[p], swapFile'[p])
    <2>1. \A g \in File : Count(g, ofile[p]) \in Nat
      BY FilesTyped
    <2>2. \A g \in File : fref[g] \in Nat /\ fref'[g] \in Nat
      BY <1>3 DEF Types
    <2>3. \A g \in File : Count(g, ofile'[p]) = Count(g, ofile[p]) + fref'[g] - fref[g]
      OBVIOUS
    <2> SUFFICES ASSUME NEW g \in File
                 PROVE  fref'[g] = fref[g] - Descriptors(g, ofile[p], swapFile[p])
                                           + Descriptors(g, ofile'[p], swapFile'[p])
      OBVIOUS
    <2> DEFINE w == IF swapFile[p] = g THEN 1 ELSE 0
               c == Count(g, ofile[p])
               e == Count(g, ofile'[p])
    <2>4. Descriptors(g, ofile[p], swapFile[p]) = c + w
      BY DEF Descriptors
    <2>5. Descriptors(g, ofile'[p], swapFile'[p]) = e + w
      BY DEF Descriptors
    <2>6. w \in Nat /\ c \in Nat /\ e = c + fref'[g] - fref[g]
      BY <2>1, <2>3
    <2> HIDE DEF w, c, e, Inv
    <2> QED
      BY <2>2, <2>4, <2>5, <2>6
  <1>10. Runs(p)' /\ Locks(p)'
    BY <1>6 DEF Runs, Locks, Keeps
  <1>11. \A q \in Proc : swapFile'[q] # 0 => /\ fref'[swapFile'[q]] = 1
                                             /\ Busy(at'[q]) => Call(q)'.op # "swapon"
    <2> SUFFICES ASSUME NEW q \in Proc, swapFile[q] # 0
                 PROVE  fref'[swapFile[q]] = 1 /\ (Busy(at'[q]) => Call(q)'.op # "swapon")
      OBVIOUS
    <2>1. swapFile[q] \in File /\ fref[swapFile[q]] = 1
      BY DEF Types, Counted
    <2>2. HasOpen(p, f) /\ HasOpen(q, swapFile[q])
      BY DEF HasOpen, f
    <2>3. swapFile[q] # f
      <3>1. fref[f] = 1 => swapFile[q] # f
        BY <2>2, SoleUser DEF f
      <3> QED
        BY <2>1, <3>1
    <2>4. Busy(at'[q]) => q # p
      BY <1>6 DEF Busy
    <2>5. q # p => Call(q)' = Call(q) /\ at'[q] = at[q]
      BY <1>2 DEF Call
    <2> QED
      BY <1>3, <2>1, <2>3, <2>4, <2>5 DEF Counted
  <1>12. Running' /\ Counted'
    BY <1>2, <1>5, <1>8, <1>9, <1>10, <1>11, FileStep
  <1>13. Locking'
    <2>1. \A k : ~Reaps(at'[p], k)
      BY <1>6 DEF Reaps
    <2>2. \A q \in Proc : at[q].pc = "reap"
            => Opens(Head(at[q].drop))' \subseteq Opens(Head(at[q].drop))
      BY <1>7
    <2> QED
      BY <1>10, <2>1, <2>2, OthersLock DEF itableVars
  <1>14. Copies' /\ FilesLive' /\ BlocksExact'
    BY <1>1, <1>3 DEF Copies, FilesLive, BlocksExact, itableVars
  <1> QED
    BY <1>5, <1>12, <1>13, <1>14

\* sys_dup.
LEMMA DupKeeps ==
  ASSUME Inv, phase = "up", NEW p \in Proc, Dup(p)
  PROVE  Inv'
  <1> DEFINE f == Head(ofile[p])
             s == Append(ofile[p], f)
  <1>1. /\ at[p].pc = "user" /\ todo[p] # <<>> /\ ofile[p] # <<>> /\ Done(p)
        /\ fref' = [fref EXCEPT ![f] = @ + 1] /\ ofile' = [ofile EXCEPT ![p] = Append(@, Head(@))]
        /\ UNCHANGED <<fs, durable, itableVars, fip, swapFile, cwd, ops, at, phase, crashes>>
    BY DEF Dup
  <1>2. f \in File /\ ofile[p] \in Seq(File) /\ s \in Seq(File)
    BY <1>1 DEF Inv, Types
  <1>3. /\ fref' \in [File -> Nat] /\ fref'[f] >= 1 /\ fref[f] \in Nat /\ fref'[f] = fref[f] + 1
        /\ \A g \in File : g # f => fref'[g] = fref[g] /\ fref[g] \in Nat
    BY <1>1, <1>2 DEF Inv, Types
  <1>4. /\ ofile' \in [Proc -> Seq(File)] /\ ofile'[p] = s
        /\ \A q \in Proc : q # p => ofile'[q] = ofile[q]
    BY <1>1, <1>2 DEF Inv, Types
  <1>5. \A g \in File : Count(g, ofile'[p]) = Count(g, ofile[p]) + fref'[g] - fref[g]
    <2>1. \A g : /\ Count(g, s) = Count(g, ofile[p]) + (IF f = g THEN 1 ELSE 0)
                 /\ Count(g, ofile[p]) \in Nat
      BY <1>2, CountAppend, CountFinite
    <2> QED
      BY <1>3, <1>4, <2>1
  <1> QED
    BY <1>1, <1>3, <1>4, <1>5, SharedKept

\* sys_close: the last reference takes the inode to iput.
LEMMA CloseKeeps ==
  ASSUME Inv, phase = "up", NEW p \in Proc, Close(p)
  PROVE  Inv'
  <1> DEFINE f == Head(ofile[p])
             s == Tail(ofile[p])
             ds == <<fip[f]>>
  <1>1. /\ at[p].pc = "user" /\ todo[p] # <<>> /\ Call(p).op = "close" /\ ofile[p] # <<>>
        /\ ofile' = [ofile EXCEPT ![p] = Tail(@)]
        /\ UNCHANGED <<fs, durable, itableVars, swapFile, cwd, phase, crashes>>
    BY DEF Close
  <1>2. /\ f \in File /\ ofile[p] \in Seq(File) /\ fref[f] \in Nat /\ s \in Seq(File)
        /\ ofile' = [ofile EXCEPT ![p] = s]
    BY <1>1 DEF Inv, Types
  <1>3. \A g : /\ Count(g, s) = Count(g, ofile[p]) - (IF f = g THEN 1 ELSE 0)
               /\ Count(g, s) \in Nat /\ Count(g, ofile[p]) \in Nat
    <2>1. \A g : /\ Count(g, ofile[p]) = (IF f = g THEN 1 ELSE 0) + Count(g, s)
                 /\ Count(g, s) \in Nat
      BY <1>1, <1>2, CountTail, CountFinite
    <2> QED
      BY <2>1
  <1>4. f = Head(ofile[p])
    OBVIOUS
  <1>5. CASE /\ fref[f] > 1 /\ fref' = [fref EXCEPT ![f] = @ - 1] /\ Done(p)
             /\ UNCHANGED <<fip, ops, at>>
    <2>1. /\ fref' \in [File -> Nat] /\ fref'[f] >= 1 /\ fref'[f] = fref[f] - 1
          /\ \A g \in File : g # f => fref'[g] = fref[g] /\ fref[g] \in Nat
      BY <1>2, <1>5 DEF Inv, Types
    <2>2. /\ ofile' \in [Proc -> Seq(File)] /\ ofile'[p] = s
          /\ \A q \in Proc : q # p => ofile'[q] = ofile[q]
      BY <1>2 DEF Inv, Types
    <2>3. \A g \in File : Count(g, ofile'[p]) = Count(g, ofile[p]) + fref'[g] - fref[g]
      BY <1>2, <1>3, <2>1, <2>2, SMTT(30)
    <2> QED
      BY <1>1, <1>5, <2>1, <2>2, <2>3, SharedKept
  <1>6. CASE fref[f] = 1 /\ CloseLast(p, f, "end") /\ UNCHANGED todo
    <2>1. /\ HasOpen(p, f) /\ swapFile[p] # f
      BY <1>1, <1>6, SoleUser DEF HasOpen
    <2>2. /\ fref' = [fref EXCEPT ![f] = 0] /\ fip' = [fip EXCEPT ![f] = 0]
          /\ ops' = ops \cup {p} /\ PutThen(p, ds, "end")
      BY <1>6 DEF CloseLast
    <2>3. fip[f] \in Inum /\ ds \in Seq(Inum) /\ ds # <<>>
      <3>1. fip[f] \in Inum
        BY <1>1, OpenIsLive
      <3> QED
        BY <3>1
    <2> HIDE DEF f, s
    <2>4. /\ at' \in [Proc -> Place] /\ \A q \in Proc : q # p => at'[q] = at[q]
          /\ at'[p].pc # "reap" /\ Runs(p)' /\ Locks(p)'
          /\ \A k, c : Here(k, c, at'[p]) = (IF c = k THEN 1 ELSE 0) + Count(k, ds)
      BY <1>1, <1>6, <2>2, <2>3, PutAtEnd DEF Inv
    <2>5. Types'
      BY <1>1, <1>2, <1>6, <2>2, <2>4, ZenonT(30) DEF Inv, Types, itableVars
    <2>6. \A k \in Inum : Here(k, cwd[p], at'[p]) = (IF cwd[p] = k THEN 1 ELSE 0)
                                                    + (IF fip[f] = k THEN 1 ELSE 0)
      BY <2>4, CountOne
    <2>7. \A g \in File : Descriptors(g, ofile'[p], swapFile'[p])
                          = Descriptors(g, ofile[p], swapFile[p]) - (IF g = f THEN 1 ELSE 0)
      <3>1. ofile'[p] = s /\ swapFile'[p] = swapFile[p]
        BY <1>1, <1>2 DEF Inv, Types
      <3> QED
        BY <1>3, <3>1 DEF Descriptors
    <2>8. \A q \in Proc : q # p => ofile'[q] = ofile[q] /\ swapFile'[q] = swapFile[q]
      BY <1>1, <1>2 DEF Inv, Types
    <2>9. swapFile'[p] \in {0, swapFile[p]} /\ swapFile'[p] # f /\ Call(p).op # "swapon"
      BY <1>1, <2>1
    <2> QED
      BY <1>1, <1>6, <2>1, <2>2, <2>4, <2>5, <2>6, <2>7, <2>8, <2>9, LastClosed, ZenonT(30)
  <1> QED
    BY <1>5, <1>6 DEF Close

\* kexit closes the swap file.
LEMMA SwapCloseKeeps ==
  ASSUME Inv, phase = "up", NEW p \in Proc, SwapClose(p)
  PROVE  Inv'
  <1> DEFINE f == swapFile[p]
             ds == <<fip[f]>>
  <1>1. /\ at[p].pc = "user" /\ todo[p] # <<>> /\ Call(p).op = "exit" /\ f # 0
        /\ fref' = [fref EXCEPT ![f] = 0] /\ fip' = [fip EXCEPT ![f] = 0]
        /\ ops' = ops \cup {p} /\ PutThen(p, ds, "again")
        /\ swapFile' = [swapFile EXCEPT ![p] = 0]
        /\ UNCHANGED <<fs, durable, itableVars, ofile, cwd, todo, phase, crashes>>
    BY DEF SwapClose, CloseLast
  <1>2. HasOpen(p, f) /\ f \in File /\ fref[f] = 1 /\ fip[f] \in Inum
    <2>1. fref[f] = 1
      BY <1>1 DEF Inv, Counted
    <2>2. f \in File /\ fip[f] \in Inum
      BY <1>1, OpenIsLive
    <2> QED
      BY <1>1, <2>1, <2>2 DEF HasOpen
  <1>3. ds \in Seq(Inum) /\ "again" \in Later /\ at[p].ip = 0
    BY <1>1, <1>2 DEF Later, Inv, Running, Runs, Idle
  <1> HIDE DEF f
  <1>4. /\ at' \in [Proc -> Place] /\ at'[p].pc = "put" /\ at'[p].ip = 0
        /\ at'[p].drop = ds /\ at'[p].next = "again"
        /\ \A q \in Proc : q # p => at'[q] = at[q]
    BY <1>1, <1>3, PutThenIs, ZenonT(30) DEF Inv
  <1>5. Stage(at'[p]) = "again" /\ Puts(at'[p])
    BY <1>4 DEF Stage, Puts
  <1>6. Types'
    BY <1>1, <1>2, <1>4 DEF Inv, Types, itableVars
  <1>7. Runs(p)'
    BY <1>1, <1>4, <1>5 DEF Runs, Placed, Call
  <1>8. Locks(p)'
    BY <1>4, <1>5 DEF Locks, Keeps
  <1>9. \A k \in Inum : Here(k, cwd[p], at'[p]) = (IF cwd[p] = k THEN 1 ELSE 0)
                                                  + (IF fip[f] = k THEN 1 ELSE 0)
    BY <1>4, <1>5, CountOne DEF Here, HasSecond, Holding
  <1>10. /\ swapFile'[p] \in {0, swapFile[p]} /\ swapFile'[p] # f /\ Call(p).op # "swapon"
         /\ swapFile'[p] = 0 /\ swapFile[p] = f /\ f # 0 /\ at'[p].pc # "reap"
         /\ \A q \in Proc : q # p => ofile'[q] = ofile[q] /\ swapFile'[q] = swapFile[q]
    BY <1>1, <1>4 DEF f, Inv, Types
  <1>11. \A g \in File : Descriptors(g, ofile'[p], swapFile'[p])
                         = Descriptors(g, ofile[p], swapFile[p]) - (IF g = f THEN 1 ELSE 0)
    <2>1. \A g \in File : g # 0 /\ Count(g, ofile[p]) \in Nat
      BY FilesTyped DEF Inv, File
    <2> QED
      BY <1>1, <1>10, <2>1 DEF Descriptors
  <1>12. /\ HasOpen(p, f) /\ fref[f] = 1 /\ at[p].pc = "user" /\ Call(p).op # "swapon"
         /\ fref' = [fref EXCEPT ![f] = 0] /\ fip' = [fip EXCEPT ![f] = 0]
         /\ UNCHANGED <<fs, durable, itableVars, cwd, todo, phase>>
         /\ \A q \in Proc : q # p => /\ at'[q] = at[q]
                                     /\ ofile'[q] = ofile[q] /\ swapFile'[q] = swapFile[q]
         /\ swapFile'[p] \in {0, swapFile[p]} /\ swapFile'[p] # f /\ at'[p].pc # "reap"
    BY <1>1, <1>2, <1>4, <1>10
  <1> QED
    BY <1>6, <1>7, <1>8, <1>9, <1>11, <1>12, LastClosed

\* What becomes of the inode a file is opened on: O_TRUNC, or nothing.
LEMMA OpenedInode ==
  ASSUME Inv, phase = "up", NEW p \in Proc, Opened(p), NEW i, i = at[p].cur
  PROVE  /\ i \in Inum /\ i \in valid /\ lock[i] = p /\ todo[p] # <<>> /\ fs.ino[i].type # "free"
         /\ fs' \in Disk /\ mem' \in [Inum -> Inode] /\ valid' = valid /\ Exact(fs') /\ Copies'
         /\ \A k \in Inum : fs'.ino[k].type = fs.ino[k].type
  <1> USE DEF Inv
  <1>1. at[p].pc = "opened"
    BY DEF Opened
  <1>2. i \in Inum /\ todo[p] # <<>>
    BY <1>1, InCall DEF Placed, Puts, Stage
  <1>3. i \in valid /\ lock[i] = p
    BY <1>1 DEF Locking, Locks, Keeps, Puts, Stage
  <1>4. mem[i] = fs.ino[i] /\ mem[i].type # "free" /\ mem[i] \in Inode
    BY <1>2, <1>3 DEF Copies, Types
  <1>5. CASE UNCHANGED <<fs, mem, valid>>
    BY <1>2, <1>3, <1>4, <1>5, ExactDisks DEF Types, Copies
  <1>6. CASE Write(One(i, [mem[i] EXCEPT !.addrs = {}]), fs.ents, fs.used \ mem[i].addrs)
    <2> DEFINE x == [mem[i] EXCEPT !.addrs = {}]
               D == {i}
               new == One(i, x)
               ents == fs.ents
               used == fs.used \ mem[i].addrs
    <2>1. x \in Inode /\ x.type = mem[i].type /\ x.addrs = {}
      BY <1>4 DEF Inode
    <2> HIDE DEF x
    <2>2. /\ D \in SUBSET Inum /\ new \in [D -> Inode] /\ new[i] = x /\ DOMAIN new = D
          /\ DOMAIN new \subseteq Inum /\ new \in [DOMAIN new -> Inode]
      BY <1>2, <2>1 DEF One
    <2>3. ents \in [Inum -> [Names -> Inum \cup {0}]] /\ used \in SUBSET Block
      BY DEF Types, Disk
    <2>4. Write(new, ents, used) /\ Types /\ Exact(fs)
      BY <1>6, ExactDisks DEF x
    <2> HIDE DEF D, new, ents, used
    <2>5. /\ mem' \in [Inum -> Inode] /\ valid' \in SUBSET Inum /\ fs' \in Disk
          /\ fs'.used = used /\ valid' = valid \cup D
          /\ \A k \in Inum : /\ fs'.ino[k] = IF k \in D THEN new[k] ELSE fs.ino[k]
                             /\ mem'[k] = IF k \in D THEN new[k] ELSE mem[k]
      <3> HIDE DEF Inv
      <3> QED
        BY <2>2, <2>3, <2>4, WriteIs
    <2>6. Exact(fs')
      <3>1. fs'.used = fs.used \ fs.ino[i].addrs /\ fs'.ino[i].addrs = {}
        BY <1>2, <1>4, <2>1, <2>2, <2>5 DEF used, D
      <3>2. \A k \in Inum : k # i => /\ fs'.ino[k].addrs = fs.ino[k].addrs
                                     /\ fs'.ino[k].type = "free" => fs.ino[k].type = "free"
        BY <2>5 DEF D
      <3> HIDE DEF Inv
      <3> QED
        BY <1>2, <2>4, <3>1, <3>2, ExactFreed, ZenonT(30)
    <2>7. valid' = valid
      BY <1>3, <2>5 DEF D
    <2>8. \A k \in Inum : fs'.ino[k].type = fs.ino[k].type
      BY <1>4, <2>1, <2>2, <2>5 DEF D
    <2>9. Copies'
      BY <1>4, <2>1, <2>2, <2>5, <2>7 DEF D, Copies, Types
    <2> QED
      BY <1>2, <1>3, <1>4, <2>5, <2>6, <2>7, <2>8, <2>9
  <1> QED
    BY <1>5, <1>6 DEF Opened

\* sys_open has the inode locked and takes a struct file and a descriptor.
LEMMA OpenedKeeps ==
  ASSUME Inv, phase = "up", NEW p \in Proc, Opened(p)
  PROVE  Inv'
  <1> USE DEF Inv
  <1>1. PICK i : i = at[p].cur
    OBVIOUS
  <1>2. PICK f : f = Min(FreeFiles)
    OBVIOUS
  <1>3. /\ at[p].pc = "opened" /\ FreeFiles # {}
        /\ fref' = [fref EXCEPT ![f] = 1] /\ fip' = [fip EXCEPT ![f] = i]
        /\ lock' = [lock EXCEPT ![i] = Nobody] /\ At(p, "end")
        /\ UNCHANGED <<durable, ref, cwd, callVars, phase, crashes>>
    BY <1>1, <1>2 DEF Opened, Unlock
  <1>4. /\ i \in Inum /\ i \in valid /\ lock[i] = p /\ todo[p] # <<>> /\ fs.ino[i].type # "free"
        /\ fs' \in Disk /\ mem' \in [Inum -> Inode] /\ valid' = valid /\ Exact(fs') /\ Copies'
        /\ \A k \in Inum : fs'.ino[k].type = fs.ino[k].type
    BY <1>1, OpenedInode
  <1>5. f \in File /\ fref[f] = 0
    <2>1. FreeFiles \in SUBSET Nat
      BY DEF FreeFiles, File
    <2>2. f \in FreeFiles
      BY <1>2, <1>3, <2>1, Least
    <2> QED
      BY <2>2 DEF FreeFiles
  <1>6. /\ fref' \in [File -> Nat] /\ fref'[f] = 1
        /\ fip' \in [File -> Inum \cup {0}] /\ fip'[f] = i
        /\ \A g \in File : g # f => fref'[g] = fref[g] /\ fip'[g] = fip[g]
    BY <1>3, <1>4, <1>5 DEF Types
  <1>7. /\ at' \in [Proc -> Place] /\ at'[p].pc = "end" /\ \A q \in Proc : q # p => at'[q] = at[q]
    BY <1>3, AtIs DEF Pcs, Later
  <1>8. Stage(at'[p]) = "end" /\ ~Puts(at'[p]) /\ ~Busy(at'[p]) /\ Busy(at[p])
    BY <1>3, <1>7 DEF Stage, Puts, Busy
  <1>9. \A q \in Proc : ~HasOpen(q, f)
    BY <1>5, OpenIsLive DEF HasOpen
  <1>10. /\ ofile' \in [Proc -> Seq(File)] /\ swapFile' \in [Proc -> File \cup {0}]
         /\ \A q \in Proc : q # p => ofile'[q] = ofile[q] /\ swapFile'[q] = swapFile[q]
         /\ \/ ofile'[p] = ofile[p] /\ swapFile'[p] = f /\ swapFile[p] = 0
            \/ ofile'[p] = Append(ofile[p], f) /\ swapFile'[p] = swapFile[p]
    <2>1. ofile[p] \in Seq(File)
      BY DEF Types
    <2>2. CASE Call(p).op = "swapon" /\ swapFile' = [swapFile EXCEPT ![p] = f] /\ UNCHANGED ofile
      <3>1. swapFile[p] = 0
        BY <1>8, <2>2 DEF Counted
      <3> QED
        BY <1>5, <2>2, <3>1 DEF Types
    <2>3. CASE ofile' = [ofile EXCEPT ![p] = Append(@, f)] /\ UNCHANGED swapFile
      BY <1>5, <2>1, <2>3 DEF Types
    <2> QED
      BY <1>2, <2>2, <2>3 DEF Opened
  <1>11. Types'
    BY <1>3, <1>4, <1>6, <1>7, <1>10 DEF Types, callVars
  <1>12. \A g \in File : fref'[g] = fref[g] - Descriptors(g, ofile[p], swapFile[p])
                                            + Descriptors(g, ofile'[p], swapFile'[p])
    <2> SUFFICES ASSUME NEW g \in File
                 PROVE  fref'[g] = fref[g] - Descriptors(g, ofile[p], swapFile[p])
                                           + Descriptors(g, ofile'[p], swapFile'[p])
      OBVIOUS
    <2>0. Count(g, ofile[p]) \in Nat
      BY FilesTyped
    <2>1. Count(g, ofile[p]) \in Nat /\ fref[g] \in Nat /\ g # 0 /\ f # 0
      BY <1>5, <2>0 DEF Types, File
    <2>2. fref'[g] = fref[g] + (IF f = g THEN 1 ELSE 0)
      BY <1>5, <1>6, <2>1
    <2>3. Count(g, Append(ofile[p], f)) = Count(g, ofile[p]) + (IF f = g THEN 1 ELSE 0)
      BY <1>5, CountAppend DEF Types
    <2>4. CASE ofile'[p] = ofile[p] /\ swapFile'[p] = f /\ swapFile[p] = 0
      BY <2>1, <2>2, <2>4 DEF Descriptors
    <2>5. CASE ofile'[p] = Append(ofile[p], f) /\ swapFile'[p] = swapFile[p]
      BY <2>1, <2>2, <2>3, <2>5 DEF Descriptors
    <2> QED
      BY <1>10, <2>4, <2>5
  <1>13. /\ \A k \in Inum : k # i => Opens(k)' = Opens(k)
         /\ Opens(i)' = Opens(i) \cup {f} /\ f \notin Opens(i)
    BY <1>4, <1>5, <1>6 DEF Opens
  <1>14. ASSUME NEW k \in Inum
         PROVE  ref'[k] = ref[k] - (Here(k, cwd[p], at[p]) + Cardinality(Opens(k)))
                                 + (Here(k, cwd'[p], at'[p]) + Cardinality(Opens(k)'))
    <2>1. Here(k, cwd[p], at[p]) = (IF cwd[p] = k THEN 1 ELSE 0) + (IF i = k THEN 1 ELSE 0)
      BY <1>1, <1>3, HereOf
    <2>2. Here(k, cwd'[p], at'[p]) = IF cwd[p] = k THEN 1 ELSE 0
      BY <1>3, <1>8 DEF Here, HasSecond, Holding
    <2>3. Cardinality(Opens(k)') = Cardinality(Opens(k)) + (IF i = k THEN 1 ELSE 0)
      <3>1. CASE i = k
        <4>1. IsFiniteSet(Opens(i)) /\ Cardinality(Opens(i)) \in Nat
          BY OpensFinite
        <4>2. Cardinality(Opens(i) \cup {f}) = Cardinality(Opens(i)) + 1
          BY <1>13, <4>1, FS_AddElement
        <4> QED
          BY <1>13, <3>1, <4>2
      <3>2. CASE i # k
        BY <1>13, <3>2, OpensFinite
      <3> QED
        BY <3>1, <3>2
    <2>4. ref'[k] = ref[k] /\ ref[k] \in Int /\ Cardinality(Opens(k)) \in Nat
      BY <1>3, OpensFinite DEF Types
    <2> QED
      BY <2>1, <2>2, <2>3, <2>4
  <1>15. \A q \in Proc : q # p => (at[q].pc = "write"
                                     => fip'[Head(ofile[q])] = fip[Head(ofile[q])])
    <2>1. ASSUME NEW q \in Proc, q # p, at[q].pc = "write"
          PROVE  Head(ofile[q]) # f /\ Head(ofile[q]) \in File
      <3>1. ofile[q] # <<>>
        BY <2>1 DEF Running, Runs
      <3> QED
        BY <1>9, <2>1, <3>1 DEF HasOpen, Types
    <2> QED
      BY <1>6, <2>1
  <1>16. \A q \in Proc : swapFile'[q] # 0 => /\ fref'[swapFile'[q]] = 1
                                             /\ Busy(at'[q]) => Call(q)'.op # "swapon"
    <2> SUFFICES ASSUME NEW q \in Proc, swapFile'[q] # 0
                 PROVE  fref'[swapFile'[q]] = 1 /\ (Busy(at'[q]) => Call(q)'.op # "swapon")
      OBVIOUS
    <2>1. fref'[swapFile'[q]] = 1
      <3>1. CASE swapFile'[q] = f
        BY <1>6, <3>1
      <3>2. CASE swapFile'[q] # f
        <4>1. swapFile'[q] = swapFile[q] /\ swapFile[q] \in File
          BY <1>10, <3>2 DEF Types
        <4> QED
          BY <1>6, <3>2, <4>1 DEF Counted
      <3> QED
        BY <3>1, <3>2
    <2>2. q # p => /\ swapFile'[q] = swapFile[q] /\ at'[q] = at[q] /\ Call(q)' = Call(q)
      BY <1>3, <1>7, <1>10 DEF Call, callVars
    <2> QED
      BY <1>8, <2>1, <2>2 DEF Counted
  <1>17. Runs(p)'
    BY <1>3, <1>4, <1>7, <1>8 DEF Runs, Placed, callVars
  <1>18. Running' /\ Counted'
    BY <1>3, <1>7, <1>10, <1>11, <1>12, <1>14, <1>15, <1>16, <1>17, FileStep DEF callVars
  <1>19. Locking'
    <2>1. Locks(p)' /\ \A k : ~Reaps(at'[p], k)
      BY <1>7, <1>8 DEF Locks, Keeps, Reaps
    <2>2. \A q \in Proc : q # p => \A k \in Inum : lock[k] = q => lock'[k] = q
      BY <1>3, <1>4 DEF Types
    <2>3. ASSUME NEW q \in Proc, q # p, at[q].pc = "reap"
          PROVE  Opens(Head(at[q].drop))' \subseteq Opens(Head(at[q].drop))
      <3>1. PICK h : h = Head(at[q].drop)
        OBVIOUS
      <3>2. h # i /\ Head(at'[q].drop) = h
        BY <1>4, <1>7, <2>3, <3>1 DEF Locking, Locks
      <3>3. h \in Inum
        BY <2>3, <3>1 DEF Locking, Locks, Types
      <3> QED
        BY <1>13, <3>1, <3>2, <3>3
    <2>4. Types /\ Locking /\ Locks(p)'
      BY <2>1
    <2>5. \A q \in Proc : q # p =>
            /\ at'[q] = at[q]
            /\ \A k \in Inum : (lock[k] = q => lock'[k] = q) /\ (k \in valid => k \in valid')
            /\ at[q].pc = "reap" => Opens(Head(at[q].drop))' \subseteq Opens(Head(at[q].drop))
            /\ at[q].pc = "parent" => ~Reaps(at'[p], at[q].cur)
      BY <1>4, <1>7, <2>1, <2>2, <2>3
    <2> HIDE DEF Inv
    <2> QED
      BY <2>4, <2>5, OthersLock
  <1>20. FilesLive'
    BY <1>4, <1>5, <1>6 DEF FilesLive
  <1>21. BlocksExact'
    BY <1>3, <1>4, ExactDisks
  <1> QED
    BY <1>4, <1>11, <1>18, <1>19, <1>20, <1>21
-----------------------------------------------------------------------------
(* Starts, crashes and the recovery.                                        *)

\* Nobody is in a call and nothing is open.
Start ==
  /\ ref = AtRoot /\ valid = {} /\ mem = [i \in Inum |-> NoInode]
  /\ lock = [i \in Inum |-> Nobody]
  /\ fref = NoFiles /\ fip = NoFiles /\ ofile = [p \in Proc |-> <<>>]
  /\ swapFile = [p \in Proc |-> 0] /\ cwd = [p \in Proc |-> ROOTINO]
  /\ ops = {} /\ at = [p \in Proc |-> Idle]
  /\ fs \in Disk /\ durable \in Disk /\ BlocksExact
  /\ todo \in [Proc -> Seq(Calls)] /\ phase \in {"up", "boot", "panic"}
  /\ \A p \in Proc : \A k \in DOMAIN todo[p] : WellMade(todo[p][k])

\* One use by each process: its working directory.
LEMMA UsesAlone ==
  ASSUME NEW x, NEW c, NEW s, s = [p \in Proc |-> <<c>>]
  PROVE  Cardinality(Uses(x, s)) = IF x = c THEN Cardinality(Proc) ELSE 0
  <1>1. \A p \in Proc : DOMAIN s[p] = {1} /\ s[p][1] = c
    OBVIOUS
  <1>2. CASE x # c
    <2>1. Uses(x, s) = {}
      BY <1>1, <1>2 DEF Uses
    <2> QED
      BY <1>2, <2>1, FS_EmptySet
  <1>3. CASE x = c
    <2> DEFINE U == {<<p, 1>> : p \in Proc}
    <2>1. Uses(x, s) = U
      <3>1. \A y \in Uses(x, s) : \E p \in Proc : y = <<p, 1>>
        BY <1>1 DEF Uses
      <3>2. \A p \in Proc : <<p, 1>> \in Uses(x, s)
        BY <1>1, <1>3 DEF Uses
      <3> QED
        BY <3>1, <3>2
    <2>2. [p \in Proc |-> <<p, 1>>] \in Bijection(Proc, U)
      BY DEF Bijection, Injection, Surjection, IsInjective
    <2>3. ExistsBijection(Proc, U)
      BY <2>2 DEF ExistsBijection
    <2>4. Cardinality(U) = Cardinality(Proc)
      BY <2>3, FS_Bijection, FileSystemAssumption
    <2> QED
      BY <1>3, <2>1, <2>4
  <1> QED
    BY <1>2, <1>3

\* Where no call is running and no file is open, the invariant is that of the disks.
LEMMA StartIs ==
  ASSUME Start
  PROVE  Inv
  <1>1. IsFiniteSet(Proc) /\ Cardinality(Proc) \in Nat
    BY FileSystemAssumption, FS_CardinalityType
  <1>2. Idle \in Place /\ Idle.pc = "user" /\ Stage(Idle) = "user" /\ ~Puts(Idle)
    <2>1. "user" \in Pcs /\ "end" \in Later
      BY DEF Pcs, Later
    <2> QED
      BY <2>1 DEF Idle, Place, Stage, Puts
  <1>3. ROOTINO \in Inum
    BY FileSystemAssumption DEF Inum, ROOTINO
  <1>4. Types
    <2>1. NoInode \in Inode
      BY DEF NoInode, Inode
    <2>2. ref \in [Inum -> Int]
      BY <1>1 DEF Start, AtRoot
    <2>3. NoFiles \in [File -> Nat] /\ NoFiles \in [File -> Inum \cup {0}]
      BY DEF NoFiles
    <2> QED
      BY <1>2, <1>3, <2>1, <2>2, <2>3 DEF Start, Types
  <1>5. Running
    BY <1>2 DEF Start, Running, Runs
  <1>6. Counted
    <2>1. Inodes = [p \in Proc |-> <<ROOTINO>>]
      <3>1. Locals(Idle) = <<>>
        BY <1>2 DEF Locals
      <3>2. \A p \in Proc : cwd[p] = ROOTINO /\ at[p] = Idle
        BY DEF Start
      <3>3. <<ROOTINO>> \o <<>> = <<ROOTINO>>
        OBVIOUS
      <3> QED
        BY <3>1, <3>2, <3>3 DEF Inodes
    <2>2. Files = [p \in Proc |-> <<>>]
      <3>1. \A p \in Proc : ofile[p] = <<>> /\ swapFile[p] = 0
        BY DEF Start
      <3>2. <<>> \o <<>> = <<>>
        OBVIOUS
      <3> QED
        BY <3>1, <3>2 DEF Files
    <2>3. ASSUME NEW i \in Inum
          PROVE  ref[i] = Cardinality(Uses(i, Inodes)) + Cardinality(Opens(i))
      <3>1. Opens(i) = {}
        BY DEF Start, NoFiles, Opens
      <3>2. Cardinality(Opens(i)) = 0
        BY <3>1, FS_EmptySet
      <3>3. Cardinality(Uses(i, Inodes)) = IF i = ROOTINO THEN Cardinality(Proc) ELSE 0
        BY <2>1, UsesAlone
      <3> QED
        BY <1>1, <3>2, <3>3 DEF Start, AtRoot
    <2>4. ASSUME NEW f \in File
          PROVE  fref[f] = Cardinality(Uses(f, Files))
      <3>1. Uses(f, Files) = {}
        BY <2>2 DEF Uses
      <3> QED
        BY <3>1, FS_EmptySet DEF Start, NoFiles
    <2> QED
      BY <2>3, <2>4 DEF Start, Counted
  <1>7. Copies /\ FilesLive /\ Locking
    BY <1>2 DEF Start, NoFiles, Copies, FilesLive, Locking, Locks, Keeps
  <1> QED
    BY <1>4, <1>5, <1>6, <1>7 DEF Start, Inv

\* ireclaim finds no copies in memory and no open files.
Empties == phase = "boot" => valid = {} /\ fref = NoFiles
IInv == Inv /\ Empties

\* mkfs makes such a disk.
LEMMA InitIs ==
  ASSUME Init
  PROVE  Start /\ Empties
  <1>1. ROOTINO \in Inum /\ 1 \in Block /\ ".." \in Names
    BY FileSystemAssumption DEF Inum, ROOTINO, Block, Names
  <1>2. NoInode \in Inode /\ NoInode.addrs = {}
    BY DEF NoInode, Inode
  <1>3. Mkfs \in Disk
    <2>1. [type |-> "dir", nlink |-> 1, addrs |-> {1}] \in Inode
      BY <1>1 DEF Inode
    <2>2. Mkfs.ino \in [Inum -> Inode]
      BY <1>2, <2>1 DEF Mkfs
    <2>3. Mkfs.ents \in [Inum -> [Names -> Inum \cup {0}]]
      BY <1>1 DEF Mkfs, NoEntries
    <2> QED
      BY <1>1, <2>2, <2>3 DEF Mkfs, Disk
  <1>4. Exact(Mkfs)
    <2>1. \A i \in Inum : Mkfs.ino[i].addrs = IF i = ROOTINO THEN {1} ELSE {}
      BY <1>2 DEF Mkfs
    <2>2. Mkfs.used = {1} /\ Mkfs.ino[ROOTINO].type # "free"
      BY <1>1 DEF Mkfs
    <2> QED
      BY <1>1, <2>1, <2>2 DEF Exact
  <1>5. BlocksExact
    BY <1>4, ExactDisks DEF Init
  <1>6. /\ todo \in [Proc -> Seq(Calls)]
        /\ \A p \in Proc : \A k \in DOMAIN todo[p] : WellMade(todo[p][k])
    BY FileSystemAssumption DEF Init
  <1> QED
    BY <1>3, <1>5, <1>6 DEF Init, Start, Empties

\* So does a crash, of what was committed.
LEMMA CrashKeeps ==
  ASSUME IInv, Crash
  PROVE  IInv'
  <1>1. Start'
    <2>1. Types /\ BlocksExact
      BY DEF IInv, Inv
    <2>2. BlocksExact'
      BY <2>1 DEF BlocksExact, Crash
    <2> QED
      BY <2>1, <2>2 DEF Start, Types, Crash
  <1>2. Inv'
    BY <1>1, StartIs, PTL
  <1>3. Empties'
    BY DEF Crash, Empties
  <1> QED
    BY <1>2, <1>3 DEF IInv

\* ireclaim frees an inode without links, before any process runs.
LEMMA IreclaimKeeps ==
  ASSUME IInv, Ireclaim
  PROVE  IInv'
  <1> USE DEF IInv, Inv
  <1> DEFINE i == Min(Orphans)
  <1>1. /\ phase = "boot" /\ Orphans # {} /\ durable' = fs'
        /\ fs' = [ino |-> [fs.ino EXCEPT ![i] = NoInode],
                  ents |-> [fs.ents EXCEPT ![i] = NoEntries],
                  used |-> fs.used \ fs.ino[i].addrs]
        /\ UNCHANGED <<ref, valid, mem, lock, fref, fip, ofile, swapFile, cwd, ops, todo, at,
                       phase, crashes>>
    BY DEF Ireclaim, itableVars, ftableVars, callVars
  <1>2. valid = {} /\ fref = NoFiles
    BY <1>1 DEF Empties
  <1>3. i \in Inum
    <2>1. Orphans \in SUBSET Nat
      BY DEF Orphans, Inum
    <2>2. i \in Orphans
      BY <1>1, <2>1, Least
    <2> QED
      BY <2>2 DEF Orphans
  <1> HIDE DEF i
  <1>4. /\ \A k \in Inum : fs'.ino[k] = IF k = i THEN NoInode ELSE fs.ino[k]
        /\ fs'.used = fs.used \ fs.ino[i].addrs /\ fs' \in Disk
    <2>1. NoInode \in Inode /\ NoEntries \in [Names -> Inum \cup {0}]
      BY DEF NoInode, NoEntries, Inode
    <2> QED
      BY <1>1, <1>3, <2>1 DEF Types, Disk
  <1>5. Exact(fs')
    <2>1. NoInode.addrs = {}
      BY DEF NoInode
    <2>2. Exact(fs) /\ fs'.ino[i].addrs = {} /\ fs'.used = fs.used \ fs.ino[i].addrs
      BY <1>3, <1>4, <2>1, ExactDisks
    <2>3. \A k \in Inum : k # i => /\ fs'.ino[k].addrs = fs.ino[k].addrs
                                   /\ fs'.ino[k].type = "free" => fs.ino[k].type = "free"
      BY <1>4
    <2> QED
      BY <1>3, <2>2, <2>3, ExactFreed
  <1>6. Types'
    BY <1>1, <1>4 DEF Types
  <1>7. BlocksExact'
    BY <1>1, <1>5, ExactDisks
  <1>8. Running' /\ Counted' /\ Locking'
    <2>1. Running /\ Counted /\ Locking
      BY <1>1
    <2>2. Running'
      BY <1>1, <2>1 DEF Running, Runs, Call
    <2>3. Inodes' = Inodes /\ Files' = Files /\ \A k : Opens(k)' = Opens(k)
      BY <1>1 DEF Inodes, Files, Opens
    <2>4. Counted'
      BY <1>1, <2>1, <2>3 DEF Counted, Call
    <2>5. Locking'
      BY <1>1, <2>1 DEF Locking, Locks, Opens
    <2> QED
      BY <2>2, <2>4, <2>5
  <1>9. Copies' /\ FilesLive' /\ Empties'
    BY <1>1, <1>2 DEF Copies, FilesLive, Empties, NoFiles
  <1> QED
    BY <1>6, <1>7, <1>8, <1>9

\* A step that changes the phase alone, and not out of a panic.
LEMMA PhaseKeeps ==
  ASSUME IInv, phase' = phase \/ (phase = "boot" /\ phase' = "up"),
         UNCHANGED <<fs, durable, ref, valid, mem, lock, fref, fip, ofile, swapFile, cwd, ops, todo,
                     at>>
  PROVE  IInv'
  <1> USE DEF IInv, Inv
  <1>1. phase' # "panic" => phase # "panic"
    OBVIOUS
  <1>2. Types'
    BY DEF Types
  <1>3. BlocksExact'
    BY DEF BlocksExact
  <1>4. Inodes' = Inodes /\ Files' = Files /\ \A k : Opens(k)' = Opens(k)
    BY DEF Inodes, Files, Opens
  <1>5. Running => Running'
    BY DEF Running, Runs, Call
  <1>6. Counted => Counted'
    BY <1>4 DEF Counted, Call
  <1>7. Locking => Locking'
    BY DEF Locking, Locks, Opens
  <1>8. (Copies => Copies') /\ (FilesLive => FilesLive')
    BY DEF Copies, FilesLive
  <1>9. Empties'
    BY SMTT(30) DEF Empties
  <1> QED
    BY <1>1, <1>2, <1>3, <1>5, <1>6, <1>7, <1>8, <1>9

\* The steps of the processes.
LEMMA StepPhase ==
  ASSUME NEW p \in Proc, Step(p)
  PROVE  phase' \in {"up", "panic"}
  BY ZenonT(30)
     DEF Step, Begin, Walk, Put, Reap, DropRef, CreateHere, CreateFinds, CreateFails, CreateUndone,
         CreateNew, Existing, Open, Opened, NotOpened, Chdir, LinkOld, LinkNew, LinkUndo, Victim,
         Unlink, SwapUnlink, Close, Dup, NothingToDo, WriteCall, Writei, SwapClose, SwapFind, EndOp,
         Ilock

\* Every step of a process.
LEMMA StepKeeps ==
  ASSUME IInv, NEW p \in Proc, Step(p)
  PROVE  IInv'
  <1>1. Inv /\ phase = "up"
    BY DEF IInv, Step
  <1>2. Inv'
    <2>1. CASE Begin(p) \/ Walk(p) \/ Put(p) \/ Reap(p) \/ DropRef(p)
      BY <1>1, <2>1, BeginKeeps, WalkKeeps, PutKeeps, ReapKeeps, DropRefKeeps
    <2>2. CASE CreateFinds(p) \/ CreateFails(p) \/ CreateUndone(p) \/ CreateNew(p) \/ Existing(p)
      BY <1>1, <2>2, CreateFindsKeeps, CreateFailsKeeps, CreateUndoneKeeps, CreateNewKeeps,
         ExistingKeeps
    <2>3. CASE Open(p) \/ Opened(p) \/ NotOpened(p) \/ Chdir(p)
      BY <1>1, <2>3, OpenKeeps, OpenedKeeps, NotOpenedKeeps, ChdirKeeps
    <2>4. CASE LinkOld(p) \/ LinkNew(p) \/ LinkUndo(p)
      BY <1>1, <2>4, LinkOldKeeps, LinkNewKeeps, LinkUndoKeeps
    <2>5. CASE Victim(p) \/ Unlink(p) \/ SwapUnlink(p)
      BY <1>1, <2>5, VictimKeeps, UnlinkKeeps, SwapUnlinkKeeps
    <2>6. CASE Close(p) \/ Dup(p) \/ NothingToDo(p) \/ WriteCall(p) \/ Writei(p)
      BY <1>1, <2>6, CloseKeeps, DupKeeps, NothingToDoKeeps, WriteCallKeeps, WriteiKeeps
    <2>7. CASE SwapClose(p) \/ SwapFind(p) \/ EndOp(p)
      BY <1>1, <2>7, SwapCloseKeeps, SwapFindKeeps, EndOpKeeps
    <2> QED
      BY <2>1, <2>2, <2>3, <2>4, <2>5, <2>6, <2>7 DEF Step
  <1> QED
    BY <1>2, StepPhase DEF IInv, Empties
-----------------------------------------------------------------------------
\* The inductive invariant.
THEOREM FileSystemInvariant == Spec => []IInv
  <1>1. Init => IInv
    BY InitIs, StartIs DEF IInv
  <1>2. IInv /\ [Next]_vars => IInv'
    <2> SUFFICES ASSUME IInv, [Next]_vars
                 PROVE  IInv'
      OBVIOUS
    <2>1. CASE \E p \in Proc : Step(p)
      BY <2>1, StepKeeps
    <2>2. CASE Crash
      BY <2>2, CrashKeeps
    <2>3. CASE Ireclaim
      BY <2>3, IreclaimKeeps
    <2>4. CASE Booted
      <3>1. /\ phase = "boot" /\ phase' = "up"
            /\ UNCHANGED <<fs, durable, ref, valid, mem, lock, fref, fip, ofile, swapFile, cwd, ops,
                           todo, at>>
        BY <2>4 DEF Booted, itableVars, ftableVars, callVars
      <3> QED
        BY <3>1, PhaseKeeps
    <2>5. CASE UNCHANGED vars
      <3>1. phase' = phase
        BY <2>5 DEF vars
      <3>2. UNCHANGED <<fs, durable, ref, valid, mem, lock, fref, fip, ofile, swapFile, cwd, ops,
                        todo, at>>
        BY <2>5 DEF vars, itableVars, ftableVars, callVars
      <3> QED
        BY <3>1, <3>2, PhaseKeeps, ZenonT(30)
    <2> QED
      BY <2>1, <2>2, <2>3, <2>4, <2>5 DEF Next
  <1> QED
    BY <1>1, <1>2, PTL DEF Spec

\* Every path through every call gives back exactly the references it took, to
\* inodes and to struct files (iget, iput, filealloc, filedup, fileclose).
THEOREM ReferencesAreHolders == Spec => []RefsAreHolders
  <1>1. IInv => RefsAreHolders
    BY DEF IInv, Inv, Counted, Opens, RefsAreHolders
  <1> QED
    BY <1>1, FileSystemInvariant, PTL

\* A block is in the bitmap when one inode has it, and no two have it (balloc,
\* itrunc, iput, ireclaim), on the disk that a crash leaves too.
THEOREM BlocksAreExact == Spec => []BlocksExact
  <1>1. IInv => BlocksExact
    BY DEF IInv, Inv
  <1> QED
    BY <1>1, FileSystemInvariant, PTL
=============================================================================
