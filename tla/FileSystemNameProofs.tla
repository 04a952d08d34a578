------------------------ MODULE FileSystemNameProofs ------------------------
(***************************************************************************)
(* Names: nothing with a name or a holder is freed, and no path meets a    *)
(* free inode.                                                             *)
(*                                                                         *)
(* The directories that have links are a tree whose link counts cover the  *)
(* names in it (Tree), on the running disk and on the committed one.  The  *)
(* entries that a link count is about are those of users, the ".." of      *)
(* linked directories and the swap names that are still their processes'.  *)
(* The tree is lost when someone makes a directory in a removed one, which *)
(* the code allows: the theorems say that nobody does, and the last        *)
(* section that processes with all their directories in the root cannot.   *)
(***************************************************************************)
EXTENDS FileSystemProofs

\* Whether p still has its swap file's name, on the running disk and on the
\* committed one: it has not removed it yet.
Swaps(p) == \E k \in DOMAIN todo[p] : Swapping(todo[p][k])
Gone(p) == at[p].pc # "user" /\ Call(p).op = "exit" /\ Stage(at[p]) = "end"
SwapsNow == {p \in Proc : Swaps(p) /\ ~Gone(p)}
SwapsThen == {p \in Proc : Swaps(p)}

\* The links that are counted and not made yet.
Linking(r) == Stage(r) = "undo" \/ (Stage(r) \in {"walk", "parent"} /\ r.ip # 0)
Pending(i) == {p \in Proc : Linking(at[p]) /\ at[p].ip = i}
PendingNow == [i \in Inum |-> Cardinality(Pending(i))]
None == [i \in Inum |-> 0]

\* The entries that a link count is about, S being the processes whose swap
\* file's name counts.
Counts(d, S, y) ==
  \/ y[2] \in UserNames
  \/ y[2] = ".." /\ y[1] # ROOTINO /\ d.ino[y[1]].nlink > 0
  \/ y[1] = ROOTINO /\ \E p \in S : y[2] = SwapName[p]
To(d, S, i) == {y \in Inum \X Names : d.ents[y[1]][y[2]] = i /\ Counts(d, S, y)}
Base(i) == IF i = ROOTINO THEN 1 ELSE 0

\* The tree: link counts cover the entries, exactly for directories; a directory
\* that has links has one name, in the directory its ".." leads to.
Blank(d) == \A i \in Inum : /\ d.ino[i].type = "free" => d.ino[i] = NoInode
                            /\ d.ino[i].type # "dir" => d.ents[i] = NoEntries
Covered(d, S, pend) ==
  \A i \in Inum : d.ino[i].nlink >= Base(i) + Cardinality(To(d, S, i)) + pend[i]
Bounded(d) ==
  \A i \in Inum : d.ino[i].type = "dir" => d.ino[i].nlink <= Base(i) + Cardinality(To(d, {}, i))
Named(d) ==
  \A j \in Inum \ {ROOTINO} : d.ino[j].type = "dir" /\ d.ino[j].nlink > 0 =>
    d.ents[j][".."] \in Inum /\ \E n \in UserNames : d.ents[d.ents[j][".."]][n] = j
Single(d) ==
  \A i, j \in Inum : \A n \in UserNames : d.ents[i][n] = j /\ d.ino[j].type = "dir" =>
    /\ j # ROOTINO /\ d.ents[j][".."] = i
    /\ \A m \in UserNames : d.ents[i][m] = j => m = n
Rooted(d) == d.ino[ROOTINO].type = "dir" /\ d.ents[ROOTINO][".."] = ROOTINO
Tree(d, S, pend) == Blank(d) /\ Covered(d, S, pend) /\ Bounded(d) /\ Named(d) /\ Single(d) /\ Rooted(d)

\* What a process holds is in use, and what it walks from has a "..".
Live(i) == fs.ino[i].type # "free"
Good(i) == Live(i) /\ (fs.ino[i].type = "dir" => fs.ents[i][".."] # 0)
Safe(p) ==
  LET r == at[p] IN
  /\ fs.ino[cwd[p]].type = "dir" /\ Good(cwd[p])
  /\ Puts(r) => \A k \in DOMAIN r.drop : k > 1 \/ r.pc # "unref" => Live(r.drop[k])
  /\ Stage(r) \in Holding => Good(r.cur)
  /\ HasSecond(r) => Live(r.ip)
  /\ r.pc \in {"parent", "victim"} => fs.ino[r.cur].type = "dir"
  /\ Linking(r) => fs.ino[r.ip].type = "file"
  /\ r.pc = "reap" => ref[Head(r.drop)] = 1 /\ fs.ino[Head(r.drop)].nlink = 0

\* Where the path of a call leads: that of a swap file is the root and its name.
Route(p) ==
  LET r == at[p] IN
  /\ Stage(r) \in {"walk", "parent", "victim"} =>
       IF Swapping(Call(p)) THEN r.cur = ROOTINO /\ r.path = <<SwapName[p]>>
       ELSE r.path \in Seq(Steps)
  /\ r.pc = "victim" => /\ Call(p).op \in {"unlink", "exit"}
                        /\ r.path # <<>> /\ Head(r.path) # ".."
                        /\ fs.ents[r.cur][Head(r.path)] = r.ip

\* A locked inode is kept or reaped by who has locked it.
Owns(p, i) == (Keeps(at[p]) /\ at[p].cur = i) \/ Reaps(at[p], i)
Owned == \A i \in Inum : lock[i] # Nobody => Owns(lock[i], i)

Settled(p) == /\ Safe(p) /\ Route(p) /\ Tidily(p, todo[p])
              /\ at[p].pc # "user" => p \in ops
Ahead == phase = "boot" => /\ fs = durable /\ at = [p \in Proc |-> Idle]
                           /\ cwd = [p \in Proc |-> ROOTINO]
NInv == /\ phase # "panic"
        /\ Tree(fs, SwapsNow, PendingNow) /\ Tree(durable, SwapsThen, None)
        /\ \A p \in Proc : Settled(p)
        /\ Owned
        /\ \A f \in File : fip[f] # 0 => fref[f] > 0
        /\ Ahead

\* There are finitely many entries, so finitely many lead to an inode.
LEMMA ToFinite ==
  ASSUME NEW d, NEW S, NEW i
  PROVE  /\ To(d, S, i) \in SUBSET (Inum \X Names)
         /\ IsFiniteSet(To(d, S, i)) /\ Cardinality(To(d, S, i)) \in Nat
         /\ (Cardinality(To(d, S, i)) = 0 <=> To(d, S, i) = {})
  <1>1. IsFiniteSet(Inum) /\ IsFiniteSet(Names)
    BY FileSystemAssumption, FS_Interval, FS_AddElement DEF Inum, Names
  <1>2. IsFiniteSet(Inum \X Names)
    BY <1>1, FS_Product
  <1>3. To(d, S, i) \in SUBSET (Inum \X Names)
    BY DEF To
  <1> QED
    BY <1>2, <1>3, FS_Subset, FS_CardinalityType, FS_EmptySet

\* Fewer entries lead to it when each that does is one that did.
LEMMA ToFewer ==
  ASSUME NEW d, NEW S, NEW e, NEW T, NEW i, To(e, T, i) \subseteq To(d, S, i)
  PROVE  Cardinality(To(e, T, i)) <= Cardinality(To(d, S, i))
  BY ToFinite, FS_Subset

\* One fewer.
LEMMA ToOneFewer ==
  ASSUME NEW d, NEW S, NEW e, NEW T, NEW i, NEW y \in To(d, S, i),
         To(e, T, i) \subseteq To(d, S, i) \ {y}
  PROVE  Cardinality(To(e, T, i)) <= Cardinality(To(d, S, i)) - 1
  <1>1. /\ IsFiniteSet(To(d, S, i)) /\ IsFiniteSet(To(d, S, i) \ {y})
        /\ Cardinality(To(d, S, i) \ {y}) = Cardinality(To(d, S, i)) - 1
    BY ToFinite, FS_RemoveElement
  <1>2. Cardinality(To(e, T, i)) <= Cardinality(To(d, S, i) \ {y})
    BY <1>1, FS_Subset
  <1> QED
    BY <1>1, <1>2

\* One more at the most.
LEMMA ToOneMore ==
  ASSUME NEW d, NEW S, NEW e, NEW T, NEW i, NEW y, To(e, T, i) \subseteq To(d, S, i) \cup {y}
  PROVE  Cardinality(To(e, T, i)) <= Cardinality(To(d, S, i)) + 1
  <1>1. IsFiniteSet(To(d, S, i)) /\ Cardinality(To(d, S, i)) \in Nat
    BY ToFinite
  <1>2. /\ IsFiniteSet(To(d, S, i) \cup {y})
        /\ Cardinality(To(d, S, i) \cup {y}) <= Cardinality(To(d, S, i)) + 1
    BY <1>1, FS_AddElement
  <1>3. Cardinality(To(e, T, i)) <= Cardinality(To(d, S, i) \cup {y})
    BY <1>2, FS_Subset
  <1>4. Cardinality(To(e, T, i)) \in Nat /\ Cardinality(To(d, S, i) \cup {y}) \in Nat
    BY <1>2, ToFinite, FS_CardinalityType
  <1> QED
    BY <1>1, <1>2, <1>3, <1>4

\* One more, when one is there that was not.
LEMMA ToOneAdded ==
  ASSUME NEW d, NEW S, NEW e, NEW T, NEW i, NEW y \in To(e, T, i), y \notin To(d, S, i),
         To(d, S, i) \subseteq To(e, T, i)
  PROVE  Cardinality(To(e, T, i)) >= Cardinality(To(d, S, i)) + 1
  <1>1. To(d, S, i) \subseteq To(e, T, i) \ {y}
    OBVIOUS
  <1>2. Cardinality(To(d, S, i)) <= Cardinality(To(e, T, i)) - 1
    BY <1>1, ToOneFewer
  <1> QED
    BY <1>2, ToFinite

\* One fewer at the most.
LEMMA ToAllButOne ==
  ASSUME NEW d, NEW S, NEW e, NEW T, NEW i, NEW y \in To(d, S, i),
         To(d, S, i) \ {y} \subseteq To(e, T, i)
  PROVE  Cardinality(To(e, T, i)) >= Cardinality(To(d, S, i)) - 1
  <1>1. /\ IsFiniteSet(To(d, S, i) \ {y})
        /\ Cardinality(To(d, S, i) \ {y}) = Cardinality(To(d, S, i)) - 1
    BY ToFinite, FS_RemoveElement
  <1>2. Cardinality(To(d, S, i) \ {y}) <= Cardinality(To(e, T, i))
    BY ToFinite, FS_Subset
  <1> QED
    BY <1>1, <1>2, ToFinite

\* Two lead to it.
LEMMA ToTwo ==
  ASSUME NEW d, NEW S, NEW i, NEW y \in To(d, S, i), NEW z \in To(d, S, i), y # z
  PROVE  Cardinality(To(d, S, i)) >= 2
  <1>1. /\ IsFiniteSet(To(d, S, i) \ {y})
        /\ Cardinality(To(d, S, i) \ {y}) = Cardinality(To(d, S, i)) - 1
    BY ToFinite, FS_RemoveElement
  <1>2. Cardinality(To(d, S, i) \ {y}) # 0
    BY <1>1, FS_EmptySet
  <1> QED
    BY <1>1, <1>2, ToFinite
-----------------------------------------------------------------------------
(* What the tree says of an inode.                                          *)

\* The types of what a tree is made of.
LEMMA DiskTyped ==
  ASSUME NEW d \in Disk, NEW i \in Inum
  PROVE  /\ d.ino[i] \in Inode /\ d.ino[i].nlink \in Int /\ d.ino[i].type \in {"free", "file", "dir"}
         /\ \A n \in Names : d.ents[i][n] \in Inum \cup {0}
         /\ ROOTINO \in Inum /\ ".." \in Names /\ Steps \subseteq Names /\ 0 \notin Inum
  BY FileSystemAssumption DEF Disk, Inode, Inum, ROOTINO, Names, Steps, UserNames

\* An inode with an entry or a link to come has links, so it is in use; one
\* without links has no entries.
LEMMA Linked ==
  ASSUME NEW d \in Disk, NEW S, NEW pend \in [Inum -> Nat], Tree(d, S, pend), NEW i \in Inum
  PROVE  /\ d.ino[i].nlink \in Nat
         /\ (To(d, S, i) # {} \/ pend[i] > 0 \/ i = ROOTINO) => d.ino[i].nlink > 0
         /\ d.ino[i].nlink # 0 => d.ino[i].type # "free"
         /\ d.ino[i].nlink = 0 => To(d, S, i) = {} /\ pend[i] = 0 /\ i # ROOTINO
  <1>1. d.ino[i].nlink >= Base(i) + Cardinality(To(d, S, i)) + pend[i]
    BY DEF Tree, Covered
  <1>2. Base(i) = (IF i = ROOTINO THEN 1 ELSE 0) /\ pend[i] \in Nat /\ d.ino[i].nlink \in Int
    BY DiskTyped DEF Base
  <1>3. Cardinality(To(d, S, i)) \in Nat /\ (Cardinality(To(d, S, i)) = 0 <=> To(d, S, i) = {})
    BY ToFinite
  <1>4. d.ino[i].type = "free" => d.ino[i].nlink = 0
    BY DEF Tree, Blank, NoInode
  <1> QED
    BY <1>1, <1>2, <1>3, <1>4

\* A user's name leads to an inode in use, which has a ".." if it is a directory.
LEMMA NameLeads ==
  ASSUME NEW d \in Disk, NEW S, NEW pend \in [Inum -> Nat], Tree(d, S, pend),
         NEW a \in Inum, NEW n \in UserNames, NEW i, i = d.ents[a][n], i # 0
  PROVE  /\ i \in Inum /\ d.ino[i].nlink > 0 /\ d.ino[i].type # "free"
         /\ <<a, n>> \in To(d, S, i) /\ <<a, n>> \in To(d, {}, i)
         /\ d.ino[i].type = "dir" => i # ROOTINO /\ d.ents[i][".."] = a
         /\ d.ino[a].type = "dir"
  <1>1. n \in Names /\ i \in Inum
    BY DiskTyped DEF Steps
  <1>2. <<a, n>> \in To(d, S, i) /\ <<a, n>> \in To(d, {}, i)
    BY <1>1 DEF To, Counts
  <1>3. d.ino[i].nlink > 0 /\ d.ino[i].type # "free"
    BY <1>1, <1>2, Linked
  <1>4. d.ino[i].type = "dir" => i # ROOTINO /\ d.ents[i][".."] = a
    BY <1>1 DEF Tree, Single
  <1>5. d.ino[a].type = "dir"
    BY <1>1 DEF Tree, Blank, NoEntries
  <1> QED
    BY <1>1, <1>2, <1>3, <1>4, <1>5

\* A directory with links has a ".." that leads to a directory with links.
LEMMA DotsLead ==
  ASSUME NEW d \in Disk, NEW S, NEW pend \in [Inum -> Nat], Tree(d, S, pend),
         NEW i \in Inum, d.ino[i].type = "dir", d.ino[i].nlink > 0
  PROVE  /\ d.ents[i][".."] \in Inum /\ d.ino[d.ents[i][".."]].nlink > 0
         /\ d.ino[d.ents[i][".."]].type = "dir"
         /\ i # ROOTINO => <<i, "..">> \in To(d, S, d.ents[i][".."])
  <1> DEFINE j == d.ents[i][".."]
  <1>1. CASE i = ROOTINO
    BY <1>1, Linked DEF Tree, Rooted
  <1>2. CASE i # ROOTINO
    <2>1. j \in Inum /\ \E n \in UserNames : d.ents[j][n] = i
      BY <1>2 DEF Tree, Named
    <2>2. <<i, "..">> \in To(d, S, j)
      BY <1>2, DiskTyped DEF To, Counts
    <2>3. d.ino[j].nlink > 0
      BY <2>1, <2>2, Linked
    <2>4. d.ino[j].type = "dir"
      <3>1. PICK n \in UserNames : d.ents[j][n] = i
        BY <2>1
      <3>2. i # 0 /\ j \in Inum /\ n \in Names
        BY <2>1, DiskTyped DEF Steps
      <3> HIDE DEF j
      <3> QED
        BY <3>1, <3>2 DEF Tree, Blank, NoEntries
    <2> QED
      BY <2>1, <2>2, <2>3, <2>4
  <1> QED
    BY <1>1, <1>2

\* The swap file's name of a process that still has it leads to a file.
LEMMA SwapLeads ==
  ASSUME NEW d \in Disk, NEW S \in SUBSET Proc, NEW pend \in [Inum -> Nat], Tree(d, S, pend),
         NEW p \in S, NEW i, i = d.ents[ROOTINO][SwapName[p]], i # 0
  PROVE  /\ i \in Inum /\ d.ino[i].nlink > 0 /\ d.ino[i].type = "file"
         /\ <<ROOTINO, SwapName[p]>> \in To(d, S, i)
  <1>1. /\ SwapName[p] \in Names /\ SwapName[p] \notin UserNames /\ SwapName[p] # ".."
        /\ ROOTINO \in Inum
    BY FileSystemAssumption DEF Names, UserNames, Range, Inum, ROOTINO
  <1>2. i \in Inum
    BY <1>1, DiskTyped
  <1>3. <<ROOTINO, SwapName[p]>> \in To(d, S, i)
    BY <1>1, DiskTyped DEF To, Counts
  <1>4. d.ino[i].nlink > 0 /\ d.ino[i].type # "free"
    BY <1>2, <1>3, Linked
  <1>5. d.ino[i].type # "dir"
    <2>1. SUFFICES ASSUME d.ino[i].type = "dir"
                   PROVE  FALSE
      OBVIOUS
    <2>2. To(d, {}, i) \subseteq To(d, S, i) \ {<<ROOTINO, SwapName[p]>>}
      BY <1>1 DEF To, Counts
    <2>3. Cardinality(To(d, {}, i)) <= Cardinality(To(d, S, i)) - 1
      BY <1>3, <2>2, ToOneFewer
    <2>4. /\ d.ino[i].nlink >= Base(i) + Cardinality(To(d, S, i)) + pend[i]
          /\ d.ino[i].nlink <= Base(i) + Cardinality(To(d, {}, i))
      BY <1>2, <2>1 DEF Tree, Covered, Bounded
    <2>5. Base(i) \in Nat /\ pend[i] \in Nat /\ d.ino[i].nlink \in Int
      BY <1>2, DiskTyped DEF Base
    <2> QED
      BY <2>3, <2>4, <2>5, ToFinite
  <1> QED
    BY <1>2, <1>3, <1>4, <1>5, DiskTyped

\* A link count that stays still covers the entries when they do not become more.
LEMMA StillCovered ==
  ASSUME NEW d \in Disk, NEW e \in Disk, NEW S, NEW T,
         NEW pend \in [Inum -> Nat], NEW pend2 \in [Inum -> Nat], Tree(d, S, pend), NEW k \in Inum,
         e.ino[k].nlink = d.ino[k].nlink, pend2[k] <= pend[k], To(e, T, k) \subseteq To(d, S, k)
  PROVE  e.ino[k].nlink >= Base(k) + Cardinality(To(e, T, k)) + pend2[k]
  <1>1. Cardinality(To(e, T, k)) <= Cardinality(To(d, S, k))
    BY ToFewer
  <1>2. d.ino[k].nlink >= Base(k) + Cardinality(To(d, S, k)) + pend[k]
    BY DEF Tree, Covered
  <1>3. pend[k] \in Nat /\ pend2[k] \in Nat /\ Base(k) \in Nat /\ d.ino[k].nlink \in Int
    BY DiskTyped DEF Base
  <1> QED
    BY <1>1, <1>2, <1>3, ToFinite

\* That of a directory is covered by them when they do not become fewer.
LEMMA StillBounded ==
  ASSUME NEW d \in Disk, NEW e \in Disk, NEW S, NEW pend, Tree(d, S, pend), NEW k \in Inum,
         e.ino[k].nlink = d.ino[k].nlink, d.ino[k].type = "dir", To(d, {}, k) \subseteq To(e, {}, k)
  PROVE  e.ino[k].nlink <= Base(k) + Cardinality(To(e, {}, k))
  <1>1. Cardinality(To(d, {}, k)) <= Cardinality(To(e, {}, k))
    BY ToFewer
  <1>2. d.ino[k].nlink <= Base(k) + Cardinality(To(d, {}, k))
    BY DEF Tree, Bounded
  <1>3. Base(k) \in Nat /\ d.ino[k].nlink \in Int
    BY DiskTyped DEF Base
  <1> QED
    BY <1>1, <1>2, <1>3, ToFinite

\* Steps that change neither a type, nor a link count, nor an entry keep the tree,
\* with fewer links to come and fewer swap files too.
LEMMA TreeSame ==
  ASSUME NEW d \in Disk, NEW e \in Disk, NEW S, NEW T, T \subseteq S,
         NEW pend \in [Inum -> Nat], NEW pend2 \in [Inum -> Nat], Tree(d, S, pend),
         \A i \in Inum : /\ e.ino[i].type = d.ino[i].type /\ e.ino[i].nlink = d.ino[i].nlink
                         /\ e.ino[i].type = "free" => e.ino[i] = NoInode
                         /\ pend2[i] <= pend[i],
         e.ents = d.ents
  PROVE  Tree(e, T, pend2)
  <1>1. Blank(e)
    BY DEF Tree, Blank
  <1>2. Named(e)
    BY DEF Tree, Named
  <1>3. Single(e)
    BY DEF Tree, Single
  <1>4. Rooted(e)
    BY FileSystemAssumption DEF Tree, Rooted, Inum, ROOTINO
  <1>5. ASSUME NEW i \in Inum
        PROVE  To(e, T, i) \subseteq To(d, S, i) /\ To(d, {}, i) \subseteq To(e, {}, i)
    BY DEF To, Counts
  <1>6. Covered(e, T, pend2)
    BY <1>5, StillCovered DEF Covered
  <1>7. Bounded(e)
    BY <1>5, StillBounded DEF Bounded
  <1> QED
    BY <1>1, <1>2, <1>3, <1>4, <1>6, <1>7 DEF Tree

\* A file is made, linked or unlinked: entries of directories come to lead to it
\* or cease to, none of them "..", and its link count still covers them.
LEMMA TreeFile ==
  ASSUME NEW d \in Disk, NEW e \in Disk, NEW S, NEW T, T \subseteq S,
         NEW pend \in [Inum -> Nat], NEW pend2 \in [Inum -> Nat], Tree(d, S, pend),
         NEW i \in Inum, d.ino[i].type # "dir", e.ino[i].type = "file",
         \A k \in Inum : k # i =>
           /\ e.ino[k].type = d.ino[k].type /\ e.ino[k].nlink = d.ino[k].nlink
           /\ e.ino[k].type = "free" => e.ino[k] = NoInode
           /\ pend2[k] <= pend[k],
         \A a \in Inum :
           /\ e.ents[a][".."] = d.ents[a][".."]
           /\ d.ino[a].type # "dir" => e.ents[a] = d.ents[a]
           /\ \A n \in Names : e.ents[a][n] # d.ents[a][n] =>
                e.ents[a][n] \in {0, i} /\ d.ents[a][n] \in {0, i},
         e.ino[i].nlink >= Cardinality(To(e, T, i)) + pend2[i]
  PROVE  Tree(e, T, pend2)
  <1>1. i # ROOTINO /\ 0 \notin Inum /\ ".." \in Names /\ UserNames \subseteq Names
        /\ ROOTINO \in Inum
    BY DiskTyped DEF Tree, Rooted, Steps
  <1>2. Blank(e)
    BY DEF Tree, Blank
  <1>3. Rooted(e)
    BY <1>1 DEF Tree, Rooted
  <1>4. \A k \in Inum : k # i => \A a \in Inum : \A n \in Names :
          e.ents[a][n] = k <=> d.ents[a][n] = k
    BY <1>1
  <1>5. Named(e)
    <2> SUFFICES ASSUME NEW j \in Inum \ {ROOTINO}, e.ino[j].type = "dir", e.ino[j].nlink > 0
                 PROVE  e.ents[j][".."] \in Inum
                        /\ \E n \in UserNames : e.ents[e.ents[j][".."]][n] = j
      BY DEF Named
    <2>1. j # i /\ d.ino[j].type = "dir" /\ d.ino[j].nlink > 0
      OBVIOUS
    <2>2. d.ents[j][".."] \in Inum /\ e.ents[j][".."] = d.ents[j][".."]
      BY <2>1 DEF Tree, Named
    <2>3. PICK n \in UserNames : d.ents[d.ents[j][".."]][n] = j
      BY <2>1 DEF Tree, Named
    <2>4. e.ents[d.ents[j][".."]][n] = j
      BY <1>1, <1>4, <2>1, <2>2, <2>3
    <2> QED
      BY <2>2, <2>4
  <1>6. Single(e)
    <2> SUFFICES ASSUME NEW a \in Inum, NEW j \in Inum, NEW n \in UserNames,
                        e.ents[a][n] = j, e.ino[j].type = "dir"
                 PROVE  /\ j # ROOTINO /\ e.ents[j][".."] = a
                        /\ \A m \in UserNames : e.ents[a][m] = j => m = n
      BY DEF Single
    <2>1. j # i /\ d.ino[j].type = "dir" /\ d.ents[a][n] = j
      BY <1>1, <1>4
    <2>2. j # ROOTINO /\ d.ents[j][".."] = a /\ \A m \in UserNames : d.ents[a][m] = j => m = n
      BY <2>1 DEF Tree, Single
    <2> QED
      BY <1>1, <1>4, <2>1, <2>2
  <1>7. ASSUME NEW k \in Inum, k # i
        PROVE  To(e, T, k) \subseteq To(d, S, k) /\ To(d, {}, k) \subseteq To(e, {}, k)
    <2>1. \A y \in Inum \X Names : e.ents[y[1]][y[2]] = k <=> d.ents[y[1]][y[2]] = k
      BY <1>4, <1>7
    <2>2. d.ents[i][".."] = 0
      BY DEF Tree, Blank, NoEntries, Names
    <2>3. \A y \in Inum \X Names : d.ents[y[1]][y[2]] = k =>
             /\ Counts(e, T, y) => Counts(d, S, y)
             /\ Counts(d, {}, y) => Counts(e, {}, y)
      BY <1>1, <2>2 DEF Counts
    <2> QED
      BY <2>1, <2>3 DEF To
  <1>8. ASSUME NEW k \in Inum
        PROVE  e.ino[k].nlink >= Base(k) + Cardinality(To(e, T, k)) + pend2[k]
    <2>1. CASE k = i
      BY <1>1, <2>1, ToFinite DEF Base
    <2>2. CASE k # i
      BY <1>7, <2>2, StillCovered
    <2> QED
      BY <2>1, <2>2
  <1>9. ASSUME NEW k \in Inum, e.ino[k].type = "dir"
        PROVE  e.ino[k].nlink <= Base(k) + Cardinality(To(e, {}, k))
    <2>1. k # i
      BY <1>9
    <2> QED
      BY <1>7, <1>9, <2>1, StillBounded
  <1> QED
    BY <1>2, <1>3, <1>5, <1>6, <1>8, <1>9 DEF Tree, Covered, Bounded

\* A directory is made without its entries, and without links.
LEMMA TreeBare ==
  ASSUME NEW d \in Disk, NEW e \in Disk, NEW S, NEW T, T \subseteq S,
         NEW pend \in [Inum -> Nat], NEW pend2 \in [Inum -> Nat], Tree(d, S, pend),
         NEW i \in Inum, d.ino[i].type = "free", e.ino[i].nlink = 0,
         \A k \in Inum : k # i =>
           /\ e.ino[k].type = d.ino[k].type /\ e.ino[k].nlink = d.ino[k].nlink
           /\ e.ino[k].type = "free" => e.ino[k] = NoInode,
         e.ino[i].type # "free",
         \A k \in Inum : pend2[k] <= pend[k],
         e.ents = d.ents
  PROVE  Tree(e, T, pend2)
  <1>1. /\ d.ino[i].nlink = 0 /\ To(d, S, i) = {} /\ pend[i] = 0 /\ i # ROOTINO
        /\ d.ents[i] = NoEntries
    BY Linked DEF Tree, Blank, NoInode
  <1>2. \A k \in Inum : e.ino[k].nlink = d.ino[k].nlink
    BY <1>1
  <1>3. Blank(e)
    BY <1>1 DEF Tree, Blank
  <1>4. Rooted(e)
    BY <1>1, DiskTyped DEF Tree, Rooted
  <1>5. Named(e)
    BY <1>1 DEF Tree, Named
  <1>6. Single(e)
    <2>1. \A a \in Inum : \A n \in UserNames : d.ents[a][n] # i
      <3> SUFFICES ASSUME NEW a \in Inum, NEW n \in UserNames, d.ents[a][n] = i
                   PROVE  FALSE
        OBVIOUS
      <3>1. <<a, n>> \in To(d, S, i)
        BY DiskTyped DEF To, Counts, Steps
      <3> QED
        BY <1>1, <3>1
    <2> QED
      BY <2>1 DEF Tree, Single
  <1>7. ASSUME NEW k \in Inum
        PROVE  To(e, T, k) \subseteq To(d, S, k) /\ To(d, {}, k) \subseteq To(e, {}, k)
    BY <1>2 DEF To, Counts
  <1>8. Covered(e, T, pend2)
    BY <1>2, <1>7, StillCovered DEF Covered
  <1>9. ASSUME NEW k \in Inum, e.ino[k].type = "dir"
        PROVE  e.ino[k].nlink <= Base(k) + Cardinality(To(e, {}, k))
    <2>1. CASE k = i
      BY <1>1, <2>1, ToFinite DEF Base
    <2>2. CASE k # i
      BY <1>2, <1>7, <1>9, <2>2, StillBounded
    <2> QED
      BY <2>1, <2>2
  <1> QED
    BY <1>3, <1>4, <1>5, <1>6, <1>8, <1>9 DEF Tree, Covered, Bounded

\* The directory i is made in dp.
DirMade(d, e, i, dp, name) ==
  /\ name \in UserNames
  /\ d.ino[i].type = "free" /\ d.ino[dp].type = "dir" /\ d.ino[dp].nlink > 0
  /\ d.ents[dp][name] = 0
  /\ e.ino[i].type = "dir" /\ e.ino[i].nlink = 1
  /\ e.ino[dp].type = "dir" /\ e.ino[dp].nlink = d.ino[dp].nlink + 1
  /\ \A k \in Inum : k # i /\ k # dp =>
       /\ e.ino[k].type = d.ino[k].type /\ e.ino[k].nlink = d.ino[k].nlink
       /\ e.ino[k].type = "free" => e.ino[k] = NoInode
  /\ e.ents[dp][name] = i /\ e.ents[i][".."] = dp
  /\ \A a \in Inum : \A n \in Names :
       ~(a = dp /\ n = name) /\ ~(a = i /\ n = "..") => e.ents[a][n] = d.ents[a][n]
  /\ \A a \in Inum : a # dp /\ a # i => e.ents[a] = d.ents[a]

\* A directory is made in one that has links: it has one name, and its parent one
\* link more for its "..".
LEMMA TreeDir ==
  ASSUME NEW d \in Disk, NEW e \in Disk, NEW S, NEW T, T \subseteq S,
         NEW pend \in [Inum -> Nat], NEW pend2 \in [Inum -> Nat], Tree(d, S, pend),
         NEW i \in Inum, NEW dp \in Inum, NEW name, DirMade(d, e, i, dp, name),
         \A k \in Inum : pend2[k] <= pend[k]
  PROVE  Tree(e, T, pend2)
  <1> USE DEF DirMade
  <1>1. /\ 0 \notin Inum /\ ".." \in Names /\ UserNames \subseteq Names /\ ".." \notin UserNames
        /\ ROOTINO \in Inum
    BY DiskTyped, FileSystemAssumption DEF Steps, UserNames
  <1>2. /\ d.ino[i].nlink = 0 /\ To(d, S, i) = {} /\ pend[i] = 0 /\ i # ROOTINO
        /\ d.ents[i] = NoEntries /\ i # dp
    BY Linked DEF Tree, Blank, NoInode
  <1>3. Blank(e)
    BY <1>2 DEF Tree, Blank
  <1>4. Rooted(e)
    BY <1>1, <1>2 DEF Tree, Rooted
  <1>5. \A a \in Inum : \A n \in UserNames : d.ents[a][n] # i
    <2> SUFFICES ASSUME NEW a \in Inum, NEW n \in UserNames, d.ents[a][n] = i
                 PROVE  FALSE
      OBVIOUS
    <2>1. <<a, n>> \in To(d, S, i)
      BY <1>1 DEF To, Counts
    <2> QED
      BY <1>2, <2>1
  <1>6. Named(e)
    <2> SUFFICES ASSUME NEW j \in Inum \ {ROOTINO}, e.ino[j].type = "dir", e.ino[j].nlink > 0
                 PROVE  e.ents[j][".."] \in Inum
                        /\ \E n \in UserNames : e.ents[e.ents[j][".."]][n] = j
      BY DEF Named
    <2>1. CASE j = i
      BY <2>1
    <2>2. CASE j # i
      <3>1. d.ino[j].type = "dir" /\ d.ino[j].nlink > 0
        BY <2>2
      <3>2. d.ents[j][".."] \in Inum /\ e.ents[j][".."] = d.ents[j][".."]
        BY <1>1, <2>2, <3>1 DEF Tree, Named
      <3>3. PICK n \in UserNames : d.ents[d.ents[j][".."]][n] = j
        BY <3>1 DEF Tree, Named
      <3>4. e.ents[d.ents[j][".."]][n] = j
        BY <1>1, <3>2, <3>3
      <3> QED
        BY <3>2, <3>4
    <2> QED
      BY <2>1, <2>2
  <1>7. Single(e)
    <2> SUFFICES ASSUME NEW a \in Inum, NEW j \in Inum, NEW n \in UserNames,
                        e.ents[a][n] = j, e.ino[j].type = "dir"
                 PROVE  /\ j # ROOTINO /\ e.ents[j][".."] = a
                        /\ \A m \in UserNames : e.ents[a][m] = j => m = n
      BY DEF Single
    <2>1. CASE j = i
      <3>1. a = dp /\ n = name
        BY <1>1, <1>5, <2>1
      <3>2. \A m \in UserNames : e.ents[a][m] = j => m = name
        BY <1>1, <1>5, <2>1
      <3> QED
        BY <1>2, <2>1, <3>1, <3>2
    <2>2. CASE j # i
      <3>1. d.ino[j].type = "dir" /\ d.ents[a][n] = j
        BY <1>1, <2>2
      <3>2. j # ROOTINO /\ d.ents[j][".."] = a /\ \A m \in UserNames : d.ents[a][m] = j => m = n
        BY <3>1 DEF Tree, Single
      <3> QED
        BY <1>1, <2>2, <3>2
    <2> QED
      BY <2>1, <2>2
  <1>8. ASSUME NEW k \in Inum, k # i, k # dp
        PROVE  To(e, T, k) \subseteq To(d, S, k) /\ To(d, {}, k) \subseteq To(e, {}, k)
    <2>1. \A y \in Inum \X Names : e.ents[y[1]][y[2]] = k <=> d.ents[y[1]][y[2]] = k
      <3> SUFFICES ASSUME NEW a \in Inum, NEW n \in Names
                   PROVE  e.ents[a][n] = k <=> d.ents[a][n] = k
        OBVIOUS
      <3>1. CASE a = dp /\ n = name
        BY <1>1, <1>8, <3>1
      <3>2. CASE a = i /\ n = ".."
        BY <1>1, <1>2, <1>8, <3>2 DEF NoEntries
      <3> QED
        BY <3>1, <3>2
    <2>2. \A y \in Inum \X Names : d.ents[y[1]][y[2]] = k =>
             /\ Counts(e, T, y) => Counts(d, S, y)
             /\ Counts(d, {}, y) => Counts(e, {}, y)
      <3> SUFFICES ASSUME NEW y \in Inum \X Names, d.ents[y[1]][y[2]] = k
                   PROVE  /\ Counts(e, T, y) => Counts(d, S, y)
                          /\ Counts(d, {}, y) => Counts(e, {}, y)
        OBVIOUS
      <3>1. y[1] # i
        BY <1>1, <1>2 DEF NoEntries
      <3>2. e.ino[y[1]].nlink > 0 <=> d.ino[y[1]].nlink > 0
        BY <3>1, DiskTyped
      <3> QED
        BY <3>2 DEF Counts
    <2> QED
      BY <2>1, <2>2 DEF To
  <1>9. /\ Cardinality(To(e, T, i)) <= 1 /\ Cardinality(To(e, {}, i)) >= 1
    <2>1. To(e, T, i) \subseteq To(d, S, i) \cup {<<dp, name>>}
      <3> SUFFICES ASSUME NEW y \in To(e, T, i)
                   PROVE  y = <<dp, name>>
        OBVIOUS
      <3>1. y \in Inum \X Names /\ e.ents[y[1]][y[2]] = i
        BY DEF To
      <3>2. CASE y[1] = i /\ y[2] = ".."
        BY <1>2, <3>1, <3>2
      <3>3. CASE d.ents[y[1]][y[2]] = i
        <4>1. Counts(e, T, y)
          BY DEF To
        <4>2. y[1] # i
          BY <1>1, <1>2, <3>1, <3>3 DEF NoEntries
        <4>3. e.ino[y[1]].nlink > 0 => d.ino[y[1]].nlink > 0
          BY <3>1, <4>2
        <4>4. Counts(d, S, y)
          BY <4>1, <4>3 DEF Counts
        <4> QED
          BY <1>2, <3>1, <3>3, <4>4 DEF To
      <3> QED
        BY <3>1, <3>2, <3>3
    <2>2. <<dp, name>> \in To(e, {}, i)
      BY <1>1 DEF To, Counts
    <2>3. Cardinality(To(d, S, i)) = 0
      BY <1>2, FS_EmptySet
    <2>4. Cardinality(To(e, T, i)) <= Cardinality(To(d, S, i)) + 1
      BY <2>1, ToOneMore
    <2>5. Cardinality(To(e, {}, i)) # 0
      BY <2>2, ToFinite
    <2> QED
      BY <2>3, <2>4, <2>5, ToFinite
  <1>10. /\ Cardinality(To(e, T, dp)) <= Cardinality(To(d, S, dp)) + 1
         /\ Cardinality(To(e, {}, dp)) >= Cardinality(To(d, {}, dp)) + 1
    <2>1. ASSUME NEW y \in Inum \X Names, y # <<i, "..">>
          PROVE  /\ e.ents[y[1]][y[2]] = dp <=> d.ents[y[1]][y[2]] = dp
                 /\ e.ents[y[1]][y[2]] = dp => /\ Counts(e, T, y) => Counts(d, S, y)
                                               /\ Counts(d, {}, y) => Counts(e, {}, y)
      <3>1. PICK a \in Inum, n \in Names : y = <<a, n>>
        OBVIOUS
      <3>2. ~(a = i /\ n = "..")
        BY <2>1, <3>1
      <3>3. e.ents[a][n] = dp <=> d.ents[a][n] = dp
        BY <1>1, <1>2, <3>2
      <3>4. ASSUME d.ents[a][n] = dp
            PROVE  e.ino[a].nlink > 0 <=> d.ino[a].nlink > 0
        <4>1. a # i
          BY <1>1, <1>2, <3>4 DEF NoEntries
        <4> QED
          BY <4>1, DiskTyped
      <3> QED
        BY <3>1, <3>3, <3>4 DEF Counts
    <2>2. To(e, T, dp) \subseteq To(d, S, dp) \cup {<<i, "..">>}
      BY <2>1 DEF To
    <2>3. To(d, {}, dp) \subseteq To(e, {}, dp)
      <3>1. <<i, "..">> \notin To(d, {}, dp)
        BY <1>1, <1>2 DEF To, NoEntries
      <3> QED
        BY <2>1, <3>1 DEF To
    <2>4. <<i, "..">> \in To(e, {}, dp) /\ <<i, "..">> \notin To(d, {}, dp)
      BY <1>1, <1>2 DEF To, NoEntries, Counts
    <2> QED
      BY <2>2, <2>3, <2>4, ToOneMore, ToOneAdded
  <1>11. Covered(e, T, pend2)
    <2> SUFFICES ASSUME NEW k \in Inum
                 PROVE  e.ino[k].nlink >= Base(k) + Cardinality(To(e, T, k)) + pend2[k]
      BY DEF Covered
    <2>1. CASE k = i
      <3>1. pend2[i] = 0
        BY <1>2
      <3> QED
        BY <1>2, <1>9, <2>1, <3>1, ToFinite DEF Base
    <2>2. CASE k = dp
      <3>1. d.ino[dp].nlink >= Base(dp) + Cardinality(To(d, S, dp)) + pend[dp]
        BY DEF Tree, Covered
      <3>2. pend[dp] \in Nat /\ pend2[dp] \in Nat /\ pend2[dp] <= pend[dp] /\ Base(dp) \in Nat
            /\ d.ino[dp].nlink \in Int
        BY DiskTyped DEF Base
      <3> QED
        BY <1>10, <2>2, <3>1, <3>2, ToFinite
    <2>3. CASE k # i /\ k # dp
      BY <1>8, <2>3, StillCovered
    <2> QED
      BY <2>1, <2>2, <2>3
  <1>12. Bounded(e)
    <2> SUFFICES ASSUME NEW k \in Inum, e.ino[k].type = "dir"
                 PROVE  e.ino[k].nlink <= Base(k) + Cardinality(To(e, {}, k))
      BY DEF Bounded
    <2>1. CASE k = i
      BY <1>2, <1>9, <2>1, ToFinite DEF Base
    <2>2. CASE k = dp
      <3>1. d.ino[dp].nlink <= Base(dp) + Cardinality(To(d, {}, dp))
        BY DEF Tree, Bounded
      <3>2. Base(dp) \in Nat /\ d.ino[dp].nlink \in Int
        BY DiskTyped DEF Base
      <3> QED
        BY <1>10, <2>2, <3>1, <3>2, ToFinite
    <2>3. CASE k # i /\ k # dp
      BY <1>8, <2>3, StillBounded
    <2> QED
      BY <2>1, <2>2, <2>3
  <1> QED
    BY <1>3, <1>4, <1>6, <1>7, <1>11, <1>12 DEF Tree

\* An inode without links is freed, and what it has entries for, if it is a
\* directory, are files.
LEMMA TreeFreed ==
  ASSUME NEW d \in Disk, NEW e \in Disk, NEW S, NEW T, T \subseteq S,
         NEW pend \in [Inum -> Nat], NEW pend2 \in [Inum -> Nat], Tree(d, S, pend),
         NEW i \in Inum, d.ino[i].nlink = 0, e.ino[i] = NoInode, e.ents[i] = NoEntries,
         \A k \in Inum : k # i => e.ino[k] = d.ino[k] /\ e.ents[k] = d.ents[k],
         \A k \in Inum : pend2[k] <= pend[k]
  PROVE  Tree(e, T, pend2)
  <1>1. /\ 0 \notin Inum /\ ".." \in Names /\ UserNames \subseteq Names /\ ".." \notin UserNames
        /\ ROOTINO \in Inum /\ To(d, S, i) = {} /\ i # ROOTINO
    BY DiskTyped, FileSystemAssumption, Linked DEF Steps, UserNames
  <1>2. \A k \in Inum : e.ino[k].nlink = d.ino[k].nlink
    BY DEF NoInode
  <1>3. \A a \in Inum : \A n \in Names : \A k \in Inum :
          e.ents[a][n] = k => a # i /\ d.ents[a][n] = k
    BY <1>1 DEF NoEntries
  <1>4. Blank(e)
    BY DEF Tree, Blank, NoInode
  <1>5. Rooted(e)
    BY <1>1 DEF Tree, Rooted
  <1>6. \A j \in Inum \ {ROOTINO} : d.ino[j].nlink > 0 => d.ents[j][".."] # i
    <2> SUFFICES ASSUME NEW j \in Inum \ {ROOTINO}, d.ino[j].nlink > 0, d.ents[j][".."] = i
                 PROVE  FALSE
      OBVIOUS
    <2>1. <<j, "..">> \in To(d, S, i)
      BY <1>1 DEF To, Counts
    <2> QED
      BY <1>1, <2>1
  <1>7. Named(e)
    <2> SUFFICES ASSUME NEW j \in Inum \ {ROOTINO}, e.ino[j].type = "dir", e.ino[j].nlink > 0
                 PROVE  e.ents[j][".."] \in Inum
                        /\ \E n \in UserNames : e.ents[e.ents[j][".."]][n] = j
      BY DEF Named
    <2>1. j # i /\ d.ino[j].type = "dir" /\ d.ino[j].nlink > 0
      BY DEF NoInode
    <2>2. e.ents[j] = d.ents[j] /\ d.ents[j][".."] \in Inum \ {i}
      BY <1>6, <2>1 DEF Tree, Named
    <2>3. PICK n \in UserNames : d.ents[d.ents[j][".."]][n] = j
      BY <2>1 DEF Tree, Named
    <2> QED
      BY <2>2, <2>3
  <1>8. Single(e)
    <2> SUFFICES ASSUME NEW a \in Inum, NEW j \in Inum, NEW n \in UserNames,
                        e.ents[a][n] = j, e.ino[j].type = "dir"
                 PROVE  /\ j # ROOTINO /\ e.ents[j][".."] = a
                        /\ \A m \in UserNames : e.ents[a][m] = j => m = n
      BY DEF Single
    <2>1. j # i /\ a # i /\ d.ino[j].type = "dir" /\ d.ents[a][n] = j
      BY <1>1, <1>3 DEF NoInode
    <2>2. j # ROOTINO /\ d.ents[j][".."] = a /\ \A m \in UserNames : d.ents[a][m] = j => m = n
      BY <2>1 DEF Tree, Single
    <2> QED
      BY <2>1, <2>2
  <1>9. ASSUME NEW k \in Inum
        PROVE  To(e, T, k) \subseteq To(d, S, k)
    BY <1>2, <1>3 DEF To, Counts
  <1>10. ASSUME NEW k \in Inum, e.ino[k].type = "dir"
         PROVE  To(d, {}, k) \subseteq To(e, {}, k)
    <2> SUFFICES ASSUME NEW y \in To(d, {}, k)
                 PROVE  y \in To(e, {}, k)
      OBVIOUS
    <2>1. y \in Inum \X Names /\ d.ents[y[1]][y[2]] = k /\ Counts(d, {}, y)
      BY DEF To
    <2>2. k # i /\ d.ino[k].type = "dir"
      BY <1>10 DEF NoInode
    <2>3. y[1] # i
      <3> SUFFICES ASSUME y[1] = i
                   PROVE  FALSE
        OBVIOUS
      <3>1. y[2] \in UserNames
        BY <2>1 DEF Counts
      <3>2. PICK n \in UserNames : d.ents[i][n] = k
        BY <2>1, <3>1
      <3>3. <<i, n>> \in To(d, S, k)
        BY <1>1, <3>2 DEF To, Counts
      <3>4. d.ino[k].nlink > 0
        BY <3>3, Linked
      <3>5. k # ROOTINO /\ d.ents[k][".."] = i
        BY <2>2, <3>2 DEF Tree, Single
      <3> QED
        BY <1>6, <3>4, <3>5
    <2> QED
      BY <1>2, <2>1, <2>3 DEF To, Counts
  <1>11. Covered(e, T, pend2)
    BY <1>2, <1>9, StillCovered DEF Covered
  <1>12. ASSUME NEW k \in Inum, e.ino[k].type = "dir"
         PROVE  e.ino[k].nlink <= Base(k) + Cardinality(To(e, {}, k))
    <2>1. d.ino[k].type = "dir"
      BY <1>12 DEF NoInode
    <2> QED
      BY <1>2, <1>10, <1>12, <2>1, StillBounded
  <1> QED
    BY <1>4, <1>5, <1>7, <1>8, <1>11, <1>12 DEF Tree, Bounded

\* What an empty directory with a name is: its name is its only link, and its
\* parent has another one, besides the link for its "..".
LEMMA EmptyDir ==
  ASSUME NEW d \in Disk, NEW S, NEW pend \in [Inum -> Nat], Tree(d, S, pend),
         NEW i \in Inum, NEW dp \in Inum, NEW name \in UserNames,
         d.ino[i].type = "dir", d.ents[dp][name] = i, \A n \in Name : d.ents[i][n] = 0
  PROVE  /\ i # ROOTINO /\ i # dp /\ d.ents[i][".."] = dp /\ d.ino[dp].type = "dir"
         /\ d.ino[i].nlink = 1 /\ d.ino[dp].nlink >= 2
         /\ To(d, {}, i) = {<<dp, name>>} /\ <<dp, name>> \in To(d, S, i)
         /\ <<i, "..">> \in To(d, S, dp)
         /\ Cardinality(To(d, S, i)) = 1 /\ pend[i] = 0
  <1>1. /\ 0 \notin Inum /\ ".." \in Names /\ UserNames \subseteq Names /\ ".." \notin UserNames
        /\ ROOTINO \in Inum /\ UserNames \subseteq Name
    BY DiskTyped, FileSystemAssumption DEF Steps, UserNames
  <1>2. /\ i # ROOTINO /\ d.ents[i][".."] = dp
        /\ \A a \in Inum : \A n \in UserNames : d.ents[a][n] = i => a = dp /\ n = name
    BY DEF Tree, Single
  <1>3. /\ i # dp /\ d.ino[dp].type = "dir"
    BY <1>1 DEF Tree, Blank, NoEntries
  <1>4. <<dp, name>> \in To(d, {}, i) /\ <<dp, name>> \in To(d, S, i)
    BY <1>1 DEF To, Counts
  <1>5. d.ino[i].nlink > 0
    BY <1>4, Linked
  <1>6. <<i, "..">> \in To(d, S, dp)
    BY <1>1, <1>2, <1>5 DEF To, Counts
  <1>7. To(d, {}, i) = {<<dp, name>>}
    <2> SUFFICES ASSUME NEW a \in Inum, NEW n \in Names, <<a, n>> \in To(d, {}, i)
                 PROVE  a = dp /\ n = name
      BY <1>4 DEF To
    <2>1. d.ents[a][n] = i /\ (n \in UserNames \/ (n = ".." /\ a # ROOTINO /\ d.ino[a].nlink > 0))
      BY DEF To, Counts
    <2>2. CASE n \in UserNames
      BY <1>2, <2>1, <2>2
    <2>3. CASE n = ".." /\ a # ROOTINO /\ d.ino[a].nlink > 0
      <3>1. d.ino[a].type = "dir"
        BY <1>1, <2>1 DEF Tree, Blank, NoEntries
      <3>2. \E m \in UserNames : d.ents[i][m] = a
        BY <2>1, <2>3, <3>1 DEF Tree, Named
      <3> QED
        BY <1>1, <3>2
    <2> QED
      BY <2>1, <2>2, <2>3
  <1>8. Cardinality(To(d, {}, i)) = 1
    BY <1>7, FS_Singleton
  <1>9. d.ino[i].nlink <= 1
    <2>1. d.ino[i].nlink <= Base(i) + Cardinality(To(d, {}, i))
      BY DEF Tree, Bounded
    <2> QED
      BY <1>2, <1>8, <2>1, DiskTyped DEF Base
  <1>10. Cardinality(To(d, S, i)) = 1 /\ pend[i] = 0 /\ d.ino[i].nlink = 1
    <2>1. d.ino[i].nlink >= Base(i) + Cardinality(To(d, S, i)) + pend[i]
      BY DEF Tree, Covered
    <2>2. Cardinality(To(d, S, i)) \in Nat /\ Cardinality(To(d, S, i)) # 0
      BY <1>4, ToFinite
    <2>3. Base(i) = 0 /\ pend[i] \in Nat /\ d.ino[i].nlink \in Int
      BY <1>2, DiskTyped DEF Base
    <2> QED
      BY <1>9, <2>1, <2>2, <2>3
  <1>11. d.ino[dp].nlink >= 2
    <2>1. /\ d.ino[dp].nlink >= Base(dp) + Cardinality(To(d, S, dp)) + pend[dp]
          /\ pend[dp] \in Nat /\ d.ino[dp].nlink \in Int
      BY DiskTyped DEF Tree, Covered
    <2>2. Cardinality(To(d, S, dp)) \in Nat /\ Cardinality(To(d, S, dp)) # 0
      BY <1>6, ToFinite
    <2>3. CASE dp = ROOTINO
      BY <2>1, <2>2, <2>3 DEF Base
    <2>4. CASE dp # ROOTINO
      <3>1. d.ino[dp].nlink > 0
        BY <1>6, Linked
      <3>2. d.ents[dp][".."] \in Inum /\ \E n \in UserNames : d.ents[d.ents[dp][".."]][n] = dp
        BY <1>3, <2>4, <3>1 DEF Tree, Named
      <3>3. PICK a \in Inum, n \in UserNames : d.ents[a][n] = dp
        BY <3>2
      <3>4. <<a, n>> \in To(d, S, dp) /\ <<a, n>> # <<i, "..">>
        BY <1>1, <3>3 DEF To, Counts
      <3>5. Cardinality(To(d, S, dp)) >= 2
        BY <1>6, <3>4, ToTwo
      <3>6. Base(dp) = 0
        BY <2>4 DEF Base
      <3> QED
        BY <2>1, <2>2, <3>5, <3>6
    <2> QED
      BY <2>3, <2>4
  <1> QED
    BY <1>2, <1>3, <1>4, <1>6, <1>7, <1>10, <1>11

\* The empty directory i is taken out of dp.
DirGone(d, e, i, dp, name) ==
  /\ d.ino[i].type = "dir" /\ d.ents[dp][name] = i /\ \A n \in Name : d.ents[i][n] = 0
  /\ e.ino[i].type = "dir" /\ e.ino[i].nlink = d.ino[i].nlink - 1
  /\ e.ino[dp].type = "dir" /\ e.ino[dp].nlink = d.ino[dp].nlink - 1
  /\ \A k \in Inum : k # i /\ k # dp => e.ino[k] = d.ino[k]
  /\ e.ents[dp][name] = 0
  /\ \A a \in Inum : \A n \in Names : ~(a = dp /\ n = name) => e.ents[a][n] = d.ents[a][n]
  /\ \A a \in Inum : a # dp => e.ents[a] = d.ents[a]

\* An empty directory is unlinked: it has no links left, and its parent one less.
LEMMA TreeUndir ==
  ASSUME NEW d \in Disk, NEW e \in Disk, NEW S, NEW T, T \subseteq S,
         NEW pend \in [Inum -> Nat], NEW pend2 \in [Inum -> Nat], Tree(d, S, pend),
         NEW i \in Inum, NEW dp \in Inum, NEW name \in UserNames, DirGone(d, e, i, dp, name),
         \A k \in Inum : pend2[k] <= pend[k]
  PROVE  Tree(e, T, pend2)
  <1> USE DEF DirGone
  <1>1. /\ 0 \notin Inum /\ ".." \in Names /\ UserNames \subseteq Names /\ ".." \notin UserNames
        /\ ROOTINO \in Inum
    BY DiskTyped, FileSystemAssumption DEF Steps, UserNames
  <1>2. /\ i # ROOTINO /\ i # dp /\ d.ents[i][".."] = dp /\ d.ino[dp].type = "dir"
        /\ d.ino[i].nlink = 1 /\ d.ino[dp].nlink >= 2
        /\ To(d, {}, i) = {<<dp, name>>} /\ <<dp, name>> \in To(d, S, i)
        /\ <<i, "..">> \in To(d, S, dp)
        /\ Cardinality(To(d, S, i)) = 1 /\ pend[i] = 0
    BY EmptyDir
  <1>3. /\ e.ino[i].nlink = 0 /\ e.ino[dp].nlink > 0 /\ d.ino[dp].nlink \in Int
    BY <1>2, DiskTyped
  <1>4. Blank(e)
    BY <1>2 DEF Tree, Blank
  <1>5. Rooted(e)
    BY <1>1, <1>2 DEF Tree, Rooted
  <1>6. \A a \in Inum : \A n \in Names : \A k \in Inum :
          e.ents[a][n] = k <=> d.ents[a][n] = k /\ <<a, n>> # <<dp, name>>
    BY <1>1
  <1>7. Named(e)
    <2> SUFFICES ASSUME NEW j \in Inum \ {ROOTINO}, e.ino[j].type = "dir", e.ino[j].nlink > 0
                 PROVE  e.ents[j][".."] \in Inum
                        /\ \E n \in UserNames : e.ents[e.ents[j][".."]][n] = j
      BY DEF Named
    <2>1. j # i /\ d.ino[j].type = "dir" /\ d.ino[j].nlink > 0
      BY <1>2, <1>3
    <2>2. e.ents[j][".."] = d.ents[j][".."] /\ d.ents[j][".."] \in Inum
      BY <1>1, <2>1 DEF Tree, Named
    <2>3. PICK n \in UserNames : d.ents[d.ents[j][".."]][n] = j
      BY <2>1 DEF Tree, Named
    <2>4. e.ents[d.ents[j][".."]][n] = j
      BY <1>1, <2>1, <2>2, <2>3
    <2> QED
      BY <2>2, <2>4
  <1>8. Single(e)
    <2> SUFFICES ASSUME NEW a \in Inum, NEW j \in Inum, NEW n \in UserNames,
                        e.ents[a][n] = j, e.ino[j].type = "dir"
                 PROVE  /\ j # ROOTINO /\ e.ents[j][".."] = a
                        /\ \A m \in UserNames : e.ents[a][m] = j => m = n
      BY DEF Single
    <2>1. d.ino[j].type = "dir" /\ d.ents[a][n] = j
      BY <1>1, <1>2, <1>6
    <2>2. j # ROOTINO /\ d.ents[j][".."] = a /\ \A m \in UserNames : d.ents[a][m] = j => m = n
      BY <2>1 DEF Tree, Single
    <2> QED
      BY <1>1, <1>6, <2>2
  <1>9. \A y \in Inum \X Names : y # <<i, "..">> =>
           /\ Counts(e, T, y) => Counts(d, S, y)
           /\ Counts(d, {}, y) => Counts(e, {}, y)
    <2> SUFFICES ASSUME NEW y \in Inum \X Names, y # <<i, "..">>
                 PROVE  /\ Counts(e, T, y) => Counts(d, S, y)
                        /\ Counts(d, {}, y) => Counts(e, {}, y)
      OBVIOUS
    <2>1. CASE y[1] = i
      BY <1>1, <1>2, <2>1 DEF Counts
    <2>2. CASE y[1] # i
      <3>1. e.ino[y[1]].nlink > 0 <=> d.ino[y[1]].nlink > 0
        BY <1>2, <1>3, <2>2
      <3> QED
        BY <3>1 DEF Counts
    <2> QED
      BY <2>1, <2>2
  <1>10. ~Counts(e, T, <<i, "..">>)
    BY <1>1, <1>2, <1>3 DEF Counts
  <1>11. \A k \in Inum : To(e, T, k) \subseteq To(d, S, k)
    BY <1>6, <1>9, <1>10 DEF To
  <1>12. \A k \in Inum : k # i => To(d, {}, k) \ {<<i, "..">>} \subseteq To(e, {}, k)
    <2> SUFFICES ASSUME NEW k \in Inum, k # i, NEW y \in To(d, {}, k), y # <<i, "..">>
                 PROVE  y \in To(e, {}, k)
      OBVIOUS
    <2>1. y \in Inum \X Names /\ d.ents[y[1]][y[2]] = k /\ Counts(d, {}, y)
      BY DEF To
    <2>2. e.ents[y[1]][y[2]] = k
      BY <2>1
    <2> QED
      BY <1>9, <2>1, <2>2 DEF To
  <1>13. Covered(e, T, pend2)
    <2> SUFFICES ASSUME NEW k \in Inum
                 PROVE  e.ino[k].nlink >= Base(k) + Cardinality(To(e, T, k)) + pend2[k]
      BY DEF Covered
    <2>1. CASE k = i
      <3>1. To(e, T, i) \subseteq To(d, S, i) \ {<<dp, name>>}
        BY <1>6, <1>11 DEF To
      <3>2. Cardinality(To(e, T, i)) <= Cardinality(To(d, S, i)) - 1
        BY <1>2, <3>1, ToOneFewer
      <3>3. pend2[i] = 0 /\ Base(i) = 0
        BY <1>2 DEF Base
      <3> QED
        BY <1>2, <1>3, <2>1, <3>2, <3>3, ToFinite
    <2>2. CASE k = dp
      <3>1. To(e, T, dp) \subseteq To(d, S, dp) \ {<<i, "..">>}
        BY <1>10, <1>11 DEF To
      <3>2. Cardinality(To(e, T, dp)) <= Cardinality(To(d, S, dp)) - 1
        BY <1>2, <3>1, ToOneFewer
      <3>3. d.ino[dp].nlink >= Base(dp) + Cardinality(To(d, S, dp)) + pend[dp]
        BY DEF Tree, Covered
      <3>4. pend[dp] \in Nat /\ pend2[dp] \in Nat /\ pend2[dp] <= pend[dp] /\ Base(dp) \in Nat
        BY DEF Base
      <3> QED
        BY <1>3, <2>2, <3>2, <3>3, <3>4, ToFinite
    <2>3. CASE k # i /\ k # dp
      BY <1>11, <2>3, StillCovered
    <2> QED
      BY <2>1, <2>2, <2>3
  <1>14. Bounded(e)
    <2> SUFFICES ASSUME NEW k \in Inum, e.ino[k].type = "dir"
                 PROVE  e.ino[k].nlink <= Base(k) + Cardinality(To(e, {}, k))
      BY DEF Bounded
    <2>1. CASE k = i
      BY <1>2, <1>3, <2>1, ToFinite DEF Base
    <2>2. CASE k = dp
      <3>1. <<i, "..">> \in To(d, {}, dp)
        BY <1>2 DEF To, Counts
      <3>2. To(d, {}, dp) \ {<<i, "..">>} \subseteq To(e, {}, dp)
        BY <1>2, <1>12
      <3>3. Cardinality(To(e, {}, dp)) >= Cardinality(To(d, {}, dp)) - 1
        BY <3>1, <3>2, ToAllButOne
      <3>4. d.ino[dp].nlink <= Base(dp) + Cardinality(To(d, {}, dp)) /\ Base(dp) \in Nat
        BY <1>2 DEF Tree, Bounded, Base
      <3> QED
        BY <1>3, <2>2, <3>3, <3>4, ToFinite
    <2>3. CASE k # i /\ k # dp
      <3>1. <<i, "..">> \notin To(d, {}, k)
        BY <1>2, <2>3 DEF To
      <3>2. To(d, {}, k) \subseteq To(e, {}, k)
        BY <1>12, <2>3, <3>1
      <3> QED
        BY <2>3, <3>2, StillBounded
    <2> QED
      BY <2>1, <2>2, <2>3
  <1> QED
    BY <1>4, <1>5, <1>7, <1>8, <1>13, <1>14 DEF Tree
-----------------------------------------------------------------------------
(* Who has a reference to an inode.                                         *)

Refers(p, i) == \/ cwd[p] = i
                \/ Puts(at[p]) /\ \E k \in DOMAIN at[p].drop : at[p].drop[k] = i
                \/ Stage(at[p]) \in Holding /\ at[p].cur = i
                \/ HasSecond(at[p]) /\ at[p].ip = i

\* An element of a sequence occurs in it.
LEMMA CountThere ==
  ASSUME NEW S, NEW s \in Seq(S), NEW k \in DOMAIN s
  PROVE  Count(s[k], s) >= 1
  <1>1. k \in Positions(s[k], s)
    BY DEF Positions
  <1>2. IsFiniteSet(Positions(s[k], s)) /\ Count(s[k], s) \in Nat
    BY CountFinite
  <1>3. Count(s[k], s) # 0
    BY <1>1, <1>2, FS_EmptySet DEF Count
  <1> QED
    BY <1>2, <1>3

\* One that occurs once is not in the rest.
LEMMA CountOnce ==
  ASSUME NEW S, NEW s \in Seq(S), s # <<>>, Count(Head(s), s) <= 1, NEW k \in DOMAIN s,
         s[k] = Head(s)
  PROVE  k = 1
  <1>1. IsFiniteSet(Positions(Head(s), s)) /\ Count(Head(s), s) \in Nat
    BY CountFinite
  <1>2. 1 \in Positions(Head(s), s) /\ k \in Positions(Head(s), s)
    BY DEF Positions
  <1>3. /\ IsFiniteSet(Positions(Head(s), s) \ {1})
        /\ Cardinality(Positions(Head(s), s) \ {1}) = Count(Head(s), s) - 1
    BY <1>1, <1>2, FS_RemoveElement DEF Count
  <1>4. Positions(Head(s), s) \ {1} = {}
    <2>1. Cardinality(Positions(Head(s), s) \ {1}) \in Nat
      BY <1>3, FS_CardinalityType
    <2>2. Cardinality(Positions(Head(s), s) \ {1}) = 0
      BY <1>1, <1>3, <2>1
    <2> QED
      BY <1>3, <2>2, FS_EmptySet
  <1> QED
    BY <1>2, <1>4

\* A reference is counted.
LEMMA RefersHere ==
  ASSUME Types, NEW p \in Proc, NEW i \in Inum, Refers(p, i)
  PROVE  Here(i, cwd[p], at[p]) >= 1
  <1> DEFINE r == at[p]
  <1>1. r.drop \in Seq(Inum)
    BY DEF Types, Place
  <1>2. Count(i, r.drop) \in Nat
    BY <1>1, CountFinite
  <1>3. Puts(r) /\ (\E k \in DOMAIN r.drop : r.drop[k] = i) => Count(i, r.drop) >= 1
    BY <1>1, CountThere
  <1> QED
    BY <1>2, <1>3 DEF Refers, Here

\* While the last reference to an inode is given back, nobody has another one.
LEMMA Alone ==
  ASSUME Types, Counted, NEW p \in Proc, NEW i \in Inum, Puts(at[p]), at[p].drop # <<>>,
         i = Head(at[p].drop), ref[i] = 1
  PROVE  /\ Opens(i) = {} /\ cwd[p] # i /\ ~(Stage(at[p]) \in Holding /\ at[p].cur = i)
         /\ ~(HasSecond(at[p]) /\ at[p].ip = i)
         /\ \A k \in DOMAIN at[p].drop : at[p].drop[k] = i => k = 1
         /\ \A q \in Proc : q # p => ~Refers(q, i)
  <1> DEFINE r == at[p]
  <1>1. r.drop \in Seq(Inum)
    BY DEF Types, Place
  <1>2. Count(i, r.drop) \in Nat /\ Count(i, r.drop) >= 1
    BY <1>1, CountFinite, CountHead
  <1>3. ref[i] >= Here(i, cwd[p], r) + Cardinality(Opens(i))
    BY RefAtLeast
  <1>4. Cardinality(Opens(i)) \in Nat /\ (Cardinality(Opens(i)) = 0 <=> Opens(i) = {})
    BY OpensFinite
  <1>5. /\ Opens(i) = {} /\ cwd[p] # i /\ ~(Stage(r) \in Holding /\ r.cur = i)
        /\ ~(HasSecond(r) /\ r.ip = i) /\ Count(i, r.drop) <= 1
    BY <1>2, <1>3, <1>4 DEF Here
  <1>6. \A k \in DOMAIN r.drop : r.drop[k] = i => k = 1
    BY <1>1, <1>5, CountOnce
  <1>7. Here(i, cwd[p], r) >= 1
    BY <1>2 DEF Here
  <1>8. ASSUME NEW q \in Proc, q # p
        PROVE  ~Refers(q, i)
    <2> SUFFICES ASSUME Refers(q, i)
                 PROVE  FALSE
      OBVIOUS
    <2>1. Here(i, cwd[q], at[q]) >= 1
      BY RefersHere
    <2>2. ref[i] >= Here(i, cwd[p], r) + 1
      BY <1>8, <2>1, RefOfTwo
    <2>3. Here(i, cwd[p], r) \in Nat
      BY InodesTyped
    <2> QED
      BY <1>7, <2>2, <2>3
  <1> QED
    BY <1>5, <1>6, <1>8

\* The inode that a process reaps.
LEMMA ReapedIs ==
  ASSUME IInv, NInv, phase = "up", NEW q \in Proc, NEW i, Reaps(at[q], i)
  PROVE  /\ i \in Inum /\ ref[i] = 1 /\ fs.ino[i].nlink = 0 /\ Live(i) /\ Opens(i) = {}
         /\ \A p \in Proc : p # q => ~Refers(p, i)
  <1>1. /\ at[q].pc = "reap" /\ Puts(at[q]) /\ i = Head(at[q].drop) /\ at[q].drop \in Seq(Inum)
        /\ at[q].drop # <<>>
    BY InCall DEF Reaps, Puts, IInv, Placed
  <1>2. Safe(q) /\ 1 \in DOMAIN at[q].drop /\ at[q].drop[1] = i /\ i \in Inum
    BY <1>1 DEF NInv, Settled
  <1>3. ref[i] = 1 /\ fs.ino[i].nlink = 0 /\ Live(i)
    BY <1>1, <1>2 DEF Safe
  <1> QED
    BY <1>1, <1>2, <1>3, Alone DEF IInv, Inv
-----------------------------------------------------------------------------
(* What the others keep during a step.                                      *)

\* What a process holds stays as it was, as far as Safe and Route are concerned.
LEMMA OthersSettled ==
  ASSUME IInv, NInv, phase = "up", NEW p \in Proc, Types',
         NEW q \in Proc, q # p,
         at'[q] = at[q] /\ cwd'[q] = cwd[q] /\ todo'[q] = todo[q] /\ (q \in ops => q \in ops'),
         \A i \in Inum : Live(i) /\ Refers(q, i) =>
           fs'.ino[i].type = fs.ino[i].type /\ (fs.ents[i][".."] # 0 => fs'.ents[i][".."] # 0),
         \A i \in Inum : \/ Refers(p, i) \/ fs.ino[i].nlink # 0 \/ ~Live(i) \/ Opens(i) # {}
                         \/ ref'[i] = ref[i] /\ fs'.ino[i].nlink = fs.ino[i].nlink,
         \A i \in Inum : fs'.ents[i] = fs.ents[i] \/ lock[i] \in {Nobody, p} \/ ~Live(i)
  PROVE  Settled(q)'
  <1> DEFINE r == at[q]
  <1>1. Safe(q) /\ Route(q) /\ Tidily(q, todo[q]) /\ (r.pc # "user" => q \in ops)
    BY DEF NInv, Settled
  <1>2. r \in Place /\ cwd[q] \in Inum /\ r.drop \in Seq(Inum)
        /\ (r.pc # "user" => Placed(r, Call(q)))
    BY DEF IInv, Inv, Types, Place, Running, Runs
  <1>3. ASSUME NEW i \in Inum, Good(i), Refers(q, i)
        PROVE  Good(i)' /\ fs'.ino[i].type = fs.ino[i].type
    BY <1>3 DEF Good, Live
  <1>4. Refers(q, cwd[q])
    BY DEF Refers
  <1>5. Safe(q)'
    <2>1. fs'.ino[cwd[q]].type = "dir" /\ Good(cwd[q])'
      BY <1>1, <1>2, <1>3, <1>4 DEF Safe, Good
    <2>2. ASSUME Puts(r), NEW k \in DOMAIN r.drop, k > 1 \/ r.pc # "unref"
          PROVE  fs'.ino[r.drop[k]].type # "free"
      <3>1. r.drop[k] \in Inum /\ Live(r.drop[k]) /\ Refers(q, r.drop[k])
        BY <1>1, <1>2, <2>2 DEF Safe, Refers
      <3> QED
        BY <3>1 DEF Live
    <2>3. ASSUME Stage(r) \in Holding
          PROVE  Good(r.cur)' /\ fs'.ino[r.cur].type = fs.ino[r.cur].type
      <3>1. r.cur \in Inum
        BY <1>2, <2>3 DEF Placed, Holding, Stage, Puts
      <3>2. Good(r.cur) /\ Refers(q, r.cur)
        BY <1>1, <2>3 DEF Safe, Refers
      <3> QED
        BY <1>3, <3>1, <3>2
    <2>4. ASSUME HasSecond(r)
          PROVE  fs'.ino[r.ip].type # "free" /\ fs'.ino[r.ip].type = fs.ino[r.ip].type
      <3>1. r.ip \in Inum
        BY <1>2, <2>4 DEF Placed, HasSecond, Stage, Puts, Place
      <3>2. Live(r.ip) /\ Refers(q, r.ip)
        BY <1>1, <2>4 DEF Safe, Refers
      <3> QED
        BY <3>1, <3>2 DEF Live
    <2>5. r.pc \in {"parent", "victim"} => fs'.ino[r.cur].type = "dir"
      BY <1>1, <2>3 DEF Safe, Holding, Stage, Puts
    <2>6. Linking(r) => fs'.ino[r.ip].type = "file"
      BY <1>1, <2>4 DEF Safe, Linking, HasSecond
    <2>7. r.pc = "reap" => ref'[Head(r.drop)] = 1 /\ fs'.ino[Head(r.drop)].nlink = 0
      <3> SUFFICES ASSUME r.pc = "reap"
                   PROVE  ref'[Head(r.drop)] = 1 /\ fs'.ino[Head(r.drop)].nlink = 0
        OBVIOUS
      <3> DEFINE i == Head(r.drop)
      <3>1. Reaps(r, i)
        BY DEF Reaps
      <3> HIDE DEF i
      <3>2. /\ i \in Inum /\ ref[i] = 1 /\ fs.ino[i].nlink = 0 /\ Live(i) /\ Opens(i) = {}
            /\ ~Refers(p, i)
        BY <3>1, ReapedIs
      <3>3. ref'[i] = 1 /\ fs'.ino[i].nlink = 0
        BY <3>2
      <3> QED
        BY <3>3 DEF i
    <2> QED
      BY <2>1, <2>2, <2>3, <2>4, <2>5, <2>6, <2>7 DEF Safe, Live
  <1>6. Route(q)'
    <2>1. Call(q)' = Call(q)
      BY DEF Call
    <2>2. ASSUME r.pc = "victim"
          PROVE  fs'.ents[r.cur] = fs.ents[r.cur]
      <3>1. r.cur \in Inum
        BY <1>2, <2>2 DEF Placed, Stage, Puts
      <3>2. Good(r.cur)
        BY <1>1, <2>2 DEF Safe, Holding, Stage, Puts
      <3>3. lock[r.cur] = q
        BY <2>2 DEF IInv, Inv, Locking, Locks, Keeps, Stage, Puts
      <3> QED
        BY <3>1, <3>2, <3>3, FileSystemAssumption DEF Good
    <2> QED
      BY <1>1, <2>1, <2>2 DEF Route
  <1> QED
    BY <1>1, <1>5, <1>6 DEF Settled

\* A lock that is taken or kept by p is one that p is at.
LEMMA OthersOwned ==
  ASSUME IInv, NInv, phase = "up", NEW p \in Proc,
         \A q \in Proc : q # p => at'[q] = at[q],
         \A i \in Inum : lock'[i] \in {lock[i], Nobody, p},
         \A i \in Inum : lock'[i] = p => Owns(p, i)'
  PROVE  Owned'
  <1> SUFFICES ASSUME NEW i \in Inum, lock'[i] # Nobody
               PROVE  Owns(lock[i], i)'
    BY DEF Owned
  <1>1. CASE lock'[i] = p
    BY <1>1
  <1>2. CASE lock'[i] = lock[i] /\ lock[i] # p
    <2>1. lock[i] \in Proc /\ Owns(lock[i], i)
      BY <1>2 DEF NInv, Owned, IInv, Inv, Types
    <2>2. PICK q \in Proc : q = lock[i]
      BY <2>1
    <2>3. Owns(q, i) /\ at'[q] = at[q]
      BY <1>2, <2>1, <2>2
    <2>4. lock'[i] = q
      BY <1>2, <2>2
    <2> QED
      BY <2>3, <2>4 DEF Owns
  <1> QED
    BY <1>1, <1>2

\* There are finitely many links to come.
LEMMA PendingFinite ==
  ASSUME NEW i
  PROVE  /\ IsFiniteSet(Pending(i)) /\ Cardinality(Pending(i)) \in Nat
         /\ Pending(i) \in SUBSET Proc
  BY FileSystemAssumption, FS_Subset, FS_CardinalityType DEF Pending

\* Links pending are numbers.
LEMMA PendingTyped == PendingNow \in [Inum -> Nat] /\ None \in [Inum -> Nat]
  BY PendingFinite DEF PendingNow, None

\* A step of p that does not start to make a link leaves no more to come.
LEMMA PendingKept ==
  ASSUME NEW p \in Proc, \A q \in Proc : q # p => at'[q] = at[q],
         Linking(at'[p]) => Linking(at[p]) /\ at'[p].ip = at[p].ip
  PROVE  /\ \A i \in Inum : PendingNow'[i] <= PendingNow[i]
         /\ PendingNow \in [Inum -> Nat] /\ PendingNow' \in [Inum -> Nat]
  <1>1. \A i \in Inum : Pending(i)' \subseteq Pending(i)
    BY DEF Pending
  <1>2. ASSUME NEW i \in Inum
        PROVE  /\ Cardinality(Pending(i)') <= Cardinality(Pending(i))
               /\ Cardinality(Pending(i)') \in Nat
    <2>1. IsFiniteSet(Pending(i)) /\ Pending(i)' \subseteq Pending(i)
      BY <1>1, PendingFinite
    <2> QED
      BY <2>1, FS_Subset, FS_CardinalityType
  <1> QED
    BY <1>2, PendingFinite DEF PendingNow

\* ... and one of a call leaves no more swap files with their names.
LEMMA SwapsKept ==
  ASSUME NEW p \in Proc, \A q \in Proc : q # p => at'[q] = at[q] /\ todo'[q] = todo[q],
         todo'[p] = todo[p],
         at[p].pc # "user" /\ Stage(at[p]) = "end" => at'[p].pc # "user" /\ Stage(at'[p]) = "end"
  PROVE  SwapsNow' \subseteq SwapsNow /\ SwapsThen' = SwapsThen
  <1>1. \A q \in Proc : Swaps(q)' = Swaps(q) /\ Call(q)' = Call(q)
    <2> SUFFICES ASSUME NEW q \in Proc
                 PROVE  Swaps(q)' = Swaps(q) /\ Call(q)' = Call(q)
      OBVIOUS
    <2>1. todo'[q] = todo[q]
      OBVIOUS
    <2> QED
      BY <2>1 DEF Swaps, Call
  <1>2. \A q \in Proc : Gone(q) => Gone(q)'
    BY <1>1 DEF Gone
  <1> QED
    BY <1>1, <1>2 DEF SwapsNow, SwapsThen

\* A step of a process.
LEMMA NamesStep ==
  ASSUME IInv, NInv, phase = "up", NEW p \in Proc, Types', phase' = "up",
         \A q \in Proc : q # p => /\ at'[q] = at[q] /\ cwd'[q] = cwd[q] /\ todo'[q] = todo[q]
                                  /\ q \in ops => q \in ops',
         \A i \in Inum : Live(i) =>
           \/ fs'.ino[i].type = fs.ino[i].type /\ (fs.ents[i][".."] # 0 => fs'.ents[i][".."] # 0)
           \/ \A q \in Proc : q # p => ~Refers(q, i),
         \A i \in Inum : \/ Refers(p, i) \/ fs.ino[i].nlink # 0 \/ ~Live(i) \/ Opens(i) # {}
                         \/ ref'[i] = ref[i] /\ fs'.ino[i].nlink = fs.ino[i].nlink,
         \A i \in Inum : fs'.ents[i] = fs.ents[i] \/ lock[i] \in {Nobody, p} \/ ~Live(i),
         \A i \in Inum : lock'[i] \in {lock[i], Nobody, p},
         \A i \in Inum : lock'[i] = p => Owns(p, i)',
         Tree(fs, SwapsNow, PendingNow)', Tree(durable, SwapsThen, None)',
         Settled(p)',
         \A f \in File : fip'[f] # 0 => fref'[f] > 0
  PROVE  NInv'
  <1>1. \A q \in Proc : Settled(q)'
    <2> SUFFICES ASSUME NEW q \in Proc, q # p
                 PROVE  Settled(q)'
      OBVIOUS
    <2>1. /\ at'[q] = at[q] /\ cwd'[q] = cwd[q] /\ todo'[q] = todo[q] /\ (q \in ops => q \in ops')
          /\ \A i \in Inum : Live(i) /\ Refers(q, i) =>
               fs'.ino[i].type = fs.ino[i].type /\ (fs.ents[i][".."] # 0 => fs'.ents[i][".."] # 0)
      OBVIOUS
    <2> QED
      BY <2>1, OthersSettled
  <1>2. Owned'
    BY OthersOwned
  <1>3. Ahead' /\ phase' # "panic"
    BY DEF Ahead
  <1> QED
    BY <1>1, <1>2, <1>3 DEF NInv

\* A step of a call that leaves disks and struct files as they are.
LEMMA QuietNames ==
  ASSUME IInv, NInv, phase = "up", NEW p \in Proc, Types', phase' = "up",
         UNCHANGED <<fs, durable, todo, fref, fip>>,
         \A q \in Proc : q # p => /\ at'[q] = at[q] /\ cwd'[q] = cwd[q]
                                  /\ q \in ops => q \in ops',
         \A i \in Inum : \/ Refers(p, i) \/ fs.ino[i].nlink # 0 \/ ~Live(i) \/ Opens(i) # {}
                         \/ ref'[i] = ref[i],
         \A i \in Inum : lock'[i] \in {lock[i], Nobody, p},
         \A i \in Inum : lock'[i] = p => Owns(p, i)',
         Linking(at'[p]) => Linking(at[p]) /\ at'[p].ip = at[p].ip,
         at[p].pc # "user" /\ Stage(at[p]) = "end" => at'[p].pc # "user" /\ Stage(at'[p]) = "end",
         Safe(p)', Route(p)', at'[p].pc # "user" => p \in ops'
  PROVE  NInv'
  <1>1. SwapsNow' \subseteq SwapsNow /\ SwapsThen' = SwapsThen
    BY SwapsKept
  <1>2. /\ \A i \in Inum : PendingNow'[i] <= PendingNow[i]
        /\ PendingNow \in [Inum -> Nat] /\ PendingNow' \in [Inum -> Nat]
    BY PendingKept
  <1>3. fs \in Disk /\ Tree(fs, SwapsNow, PendingNow) /\ Blank(fs)
    BY DEF IInv, Inv, Types, NInv, Tree
  <1>4. Tree(fs, SwapsNow', PendingNow')
    <2>1. \A i \in Inum : fs.ino[i].type = "free" => fs.ino[i] = NoInode
      BY <1>3 DEF Blank
    <2> QED
      BY <1>1, <1>2, <1>3, <2>1, TreeSame
  <1>5. Tree(fs, SwapsNow, PendingNow)'
    BY <1>4
  <1>6. Tree(durable, SwapsThen, None)'
    <2>1. Tree(durable, SwapsThen, None)
      BY DEF NInv
    <2> QED
      BY <1>1, <2>1 DEF None
  <1>7. Settled(p)'
    BY DEF Settled, NInv
  <1>8. \A f \in File : fip'[f] # 0 => fref'[f] > 0
    BY DEF NInv
  <1>9. \A i \in Inum : Live(i) => fs'.ino[i].type = fs.ino[i].type
                                   /\ (fs.ents[i][".."] # 0 => fs'.ents[i][".."] # 0)
    OBVIOUS
  <1> QED
    BY <1>5, <1>6, <1>7, <1>8, <1>9, NamesStep
-----------------------------------------------------------------------------
(* The steps that leave the disk as it is.                                  *)

\* What is known of a process in a call.
LEMMA AtHand ==
  ASSUME IInv, NInv, phase = "up", NEW p \in Proc
  PROVE  /\ Types /\ Inv /\ fs \in Disk /\ Tree(fs, SwapsNow, PendingNow)
         /\ PendingNow \in [Inum -> Nat] /\ SwapsNow \in SUBSET Proc
         /\ Safe(p) /\ Route(p) /\ Tidily(p, todo[p]) /\ (at[p].pc # "user" => p \in ops)
         /\ cwd[p] \in Inum /\ Good(cwd[p]) /\ fs.ino[cwd[p]].type = "dir"
         /\ ROOTINO \in Inum /\ Good(ROOTINO) /\ fs.ino[ROOTINO].type = "dir"
         /\ fs.ino[ROOTINO].nlink # 0
         /\ \A i \in Inum : fs.ino[i].nlink \in Nat /\ (fs.ino[i].nlink # 0 => Live(i))
  <1>1. Types /\ Inv /\ fs \in Disk /\ cwd[p] \in Inum
    BY DEF IInv, Inv, Types
  <1>2. Tree(fs, SwapsNow, PendingNow) /\ PendingNow \in [Inum -> Nat]
    BY PendingTyped DEF NInv
  <1>3. Safe(p) /\ Route(p) /\ Tidily(p, todo[p]) /\ (at[p].pc # "user" => p \in ops)
    BY DEF NInv, Settled
  <1>4. Good(cwd[p]) /\ fs.ino[cwd[p]].type = "dir"
    BY <1>3 DEF Safe
  <1>5. ROOTINO \in Inum
    BY FileSystemAssumption DEF ROOTINO, Inum
  <1>6. Good(ROOTINO) /\ fs.ino[ROOTINO].type = "dir"
    BY <1>2, <1>5 DEF Tree, Rooted, Good, Live, ROOTINO
  <1>7. \A i \in Inum : /\ fs.ino[i].nlink \in Nat /\ (fs.ino[i].nlink # 0 => Live(i))
                        /\ i = ROOTINO => fs.ino[i].nlink > 0
    BY <1>1, <1>2, Linked DEF Live
  <1> QED
    BY <1>1, <1>2, <1>3, <1>4, <1>5, <1>6, <1>7 DEF SwapsNow

\* A process that neither keeps nor reaps an inode has locked none.
LEMMA OwnsNone ==
  ASSUME NInv, NEW p \in Proc, at[p].pc # "reap", Stage(at[p]) \notin {"opened", "victim"}
  PROVE  \A i \in Inum : lock[i] # p
  BY FileSystemAssumption DEF NInv, Owned, Owns, Keeps, Reaps

\* ilock of an inode in use is no panic.
LEMMA LockedIs ==
  ASSUME phase = "up", NEW i, Live(i), Ilock(i)
  PROVE  phase' = "up" /\ lock[i] = Nobody
  BY DEF Live, Ilock

\* A call that gives its references back and ends.
LEMMA EndsSafe ==
  ASSUME NEW p \in Proc, NEW ds \in Seq(Inum), at'[p].pc = "put", at'[p].next = "end",
         at'[p].drop = ds, fs'.ino[cwd'[p]].type = "dir", Good(cwd[p])',
         \A k \in DOMAIN ds : fs'.ino[ds[k]].type # "free"
  PROVE  /\ Safe(p)' /\ Route(p)' /\ ~Linking(at'[p]) /\ Stage(at'[p]) = "end"
         /\ \A i : ~Owns(p, i)'
  <1>1. Stage(at'[p]) = "end" /\ Puts(at'[p])
    BY DEF Stage, Puts
  <1>2. ~HasSecond(at'[p]) /\ ~Linking(at'[p]) /\ \A i : ~Owns(p, i)'
    BY <1>1 DEF HasSecond, Linking, Owns, Keeps, Reaps
  <1>3. Safe(p)'
    BY <1>1, <1>2 DEF Safe, Holding, Live
  <1>4. Route(p)'
    BY <1>1 DEF Route
  <1> QED
    BY <1>1, <1>2, <1>3, <1>4

\* begin_op, from the root or the working directory.
LEMMA BeginNames ==
  ASSUME IInv, NInv, phase = "up", NEW p \in Proc, Types', Begin(p)
  PROVE  NInv'
  <1> DEFINE start == IF Call(p).op = "swapon" THEN ROOTINO ELSE cwd[p]
             r == [at[p] EXCEPT !.pc = "walk", !.cur = start, !.path = Call(p).path]
  <1>1. /\ at[p].pc = "user" /\ todo[p] # <<>> /\ Call(p).op \notin OnOpenFile
        /\ Iget(start) /\ Goto(p, r) /\ ops' = ops \cup {p}
        /\ UNCHANGED <<fs, durable, valid, mem, lock, ftableVars, todo, phase, crashes>>
    BY DEF Begin
  <1>2. at[p] = Idle
    BY <1>1 DEF IInv, Inv, Running, Runs
  <1>3. start \in Inum /\ Good(start) /\ fs.ino[start].type = "dir"
    BY AtHand
  <1>4. r.pc = "walk" /\ r.cur = start /\ r.path = Call(p).path /\ r.ip = 0 /\ r.drop = <<>>
    BY <1>2 DEF Idle
  <1>5. at'[p] = r /\ \A q \in Proc : q # p => at'[q] = at[q]
    BY <1>1 DEF Goto, IInv, Inv, Types
  <1>6. Stage(at'[p]) = "walk" /\ ~Puts(at'[p]) /\ ~HasSecond(at'[p]) /\ ~Linking(at'[p])
    BY <1>4, <1>5 DEF Stage, Puts, HasSecond, Linking
  <1> HIDE DEF r
  <1>7. Safe(p)'
    <2>1. cwd'[p] = cwd[p] /\ Good(cwd[p])' /\ fs'.ino[cwd'[p]].type = "dir"
      BY <1>1, AtHand DEF ftableVars, Good, Live
    <2>2. Good(at[p].cur)'
      BY <1>1, <1>3, <1>4, <1>5 DEF Good, Live
    <2> QED
      BY <1>4, <1>5, <1>6, <2>1, <2>2 DEF Safe
  <1>8. Route(p)'
    <2>1. Tidy(p, Call(p))
      <3>1. 1 \in DOMAIN todo[p] /\ Call(p) = todo[p][1]
        BY <1>1 DEF Call, IInv, Inv, Types
      <3> QED
        BY <3>1, AtHand DEF Tidily
    <2>2. Call(p)' = Call(p)
      BY <1>1 DEF Call
    <2>3. CASE Call(p).op = "swapon"
      BY <1>4, <1>5, <1>6, <2>1, <2>2, <2>3 DEF Route, Tidy, Swapping
    <2>4. CASE Call(p).op # "swapon"
      BY <1>1, <1>4, <1>5, <1>6, <2>1, <2>2, <2>4 DEF Route, Tidy, Swapping, OnOpenFile
    <2> QED
      BY <2>3, <2>4
  <1>9. \A i \in Inum : Refers(p, i) \/ fs.ino[i].nlink # 0 \/ ref'[i] = ref[i]
    <2>1. ref' = [ref EXCEPT ![start] = @ + 1] /\ ref \in [Inum -> Int]
      BY <1>1 DEF Iget, IInv, Inv, Types
    <2>2. Refers(p, start) \/ fs.ino[start].nlink # 0
      BY AtHand DEF Refers
    <2> QED
      BY <2>1, <2>2
  <1>10. \A i \in Inum : lock'[i] = lock[i] /\ lock'[i] # p
    BY <1>1, <1>2, OwnsNone DEF Stage, Puts, Idle
  <1>11. UNCHANGED <<fs, durable, todo, fref, fip>> /\ cwd' = cwd
    BY <1>1 DEF ftableVars
  <1>12. phase' = "up" /\ p \in ops' /\ \A q \in Proc : q \in ops => q \in ops'
    BY <1>1
  <1> QED
    BY <1>1, <1>5, <1>6, <1>7, <1>8, <1>9, <1>10, <1>11, <1>12, QuietNames

\* An element of a path leads to an inode in use, when ".." does not to one removed.
LEMMA StepLeads ==
  ASSUME IInv, NInv, NEW i \in Inum, NEW n \in Steps, NEW j, j = fs.ents[i][n], j # 0,
         n = ".." => fs.ino[j].nlink # 0
  PROVE  j \in Inum /\ fs.ino[j].nlink # 0 /\ Good(j) /\ (fs.ino[i].type = "dir")
  <1>1. /\ fs \in Disk /\ Tree(fs, SwapsNow, PendingNow) /\ PendingNow \in [Inum -> Nat]
    BY PendingTyped DEF NInv, IInv, Inv, Types
  <1>2. j \in Inum /\ n \in Names /\ ROOTINO \in Inum
    BY <1>1, DiskTyped
  <1>3. fs.ino[j].nlink # 0
    <2>1. CASE n = ".."
      BY <2>1
    <2>2. CASE n \in UserNames
      <3>1. fs.ino[j].nlink > 0
        BY <1>1, <2>2, NameLeads, ZenonT(40)
      <3> QED
        BY <3>1
    <2> QED
      BY <2>1, <2>2 DEF Steps
  <1>4. fs.ino[j].nlink \in Nat /\ Live(j)
    BY <1>1, <1>2, <1>3, Linked DEF Live
  <1>5. fs.ino[j].type = "dir" => fs.ents[j][".."] # 0
    <2>1. fs.ino[j].nlink > 0
      BY <1>3, <1>4
    <2>2. fs.ino[j].type = "dir" => fs.ents[j][".."] \in Inum
      BY <1>1, <1>2, <2>1, DotsLead
    <2> QED
      BY <1>1, <1>2, <2>2, DiskTyped
  <1>6. fs.ino[i].type = "dir"
    BY <1>1, <1>2 DEF Tree, Blank, NoEntries
  <1> QED
    BY <1>2, <1>3, <1>4, <1>5, <1>6 DEF Good

\* namex, one element of the path.
LEMMA WalkNames ==
  ASSUME IInv, NInv, phase = "up", NEW p \in Proc, Types', Walk(p), ~Strays(p)
  PROVE  NInv'
  <1> DEFINE i == at[p].cur
             name == Head(at[p].path)
             last == Len(at[p].path) = 1
             next == fs.ents[i][name]
  <1>1. /\ at[p].pc = "walk" /\ Ilock(i) /\ Look(i)
        /\ UNCHANGED <<durable, lock, ftableVars, callVars, crashes>>
    BY DEF Walk
  <1>2. /\ Stage(at[p]) = "walk" /\ ~Puts(at[p]) /\ todo[p] # <<>> /\ at[p] \in Place
        /\ i \in Inum /\ at[p].path # <<>> /\ at[p].path \in Seq(Names) /\ p \in ops
        /\ at[p].ip \in Inum \cup {0}
    BY <1>1, InCall, AtHand DEF Placed, Puts, Stage
  <1>3. Good(i) /\ Refers(p, i)
    BY <1>2, AtHand DEF Safe, Holding, Refers
  <1>4. phase' = "up" /\ fs' = fs /\ Copy(i) = fs.ino[i]
    BY <1>1, <1>2, <1>3, LockedIs, CopyIsDisk DEF Look, Good, IInv, Inv
  <1>5. /\ UNCHANGED <<fs, durable, todo, fref, fip>> /\ cwd' = cwd /\ ops' = ops
        /\ Call(p)' = Call(p)
        /\ \A k \in Inum : lock'[k] = lock[k] /\ lock'[k] # p
    BY <1>1, <1>2, <1>4, OwnsNone DEF ftableVars, callVars, Call
  <1>6. Good(cwd[p])' /\ fs'.ino[cwd'[p]].type = "dir"
    BY <1>5, AtHand DEF Good, Live
  <1>7. /\ Safe(p) /\ Route(p) /\ (at[p].ip # 0 => Live(at[p].ip) /\ fs.ino[at[p].ip].type = "file")
        /\ Types
    BY <1>2, AtHand DEF Safe, HasSecond, Linking
  <1> HIDE DEF i, name, last, next
  <1>8. CASE PutThen(p, <<i>>, IfMissing(p)) /\ UNCHANGED ref
    <2>1. IfMissing(p) \in {"undo", "end"} /\ (IfMissing(p) = "undo" => at[p].ip # 0)
          /\ IfMissing(p) \in Later /\ <<i>> \in Seq(Inum)
      BY <1>2 DEF IfMissing, LinksNow, Later, i
    <2>2. /\ at'[p].pc = "put" /\ at'[p].ip = at[p].ip /\ at'[p].drop = <<i>>
          /\ at'[p].next = IfMissing(p) /\ \A q \in Proc : q # p => at'[q] = at[q]
      BY <1>2, <1>7, <1>8, <2>1, PutThenIs
    <2>3. Stage(at'[p]) = IfMissing(p) /\ Puts(at'[p])
      BY <2>2 DEF Stage, Puts
    <2>4. /\ Linking(at'[p]) => Linking(at[p]) /\ at'[p].ip = at[p].ip
          /\ (HasSecond(at'[p]) \/ Linking(at'[p])) => at[p].ip # 0
      BY <1>2, <2>1, <2>2, <2>3 DEF Linking, HasSecond
    <2>5. Safe(p)'
      BY <1>3, <1>5, <1>6, <1>7, <2>1, <2>2, <2>3, <2>4 DEF Safe, Good, Live, Holding
    <2>6. Route(p)'
      BY <2>1, <2>2, <2>3 DEF Route
    <2> QED
      BY <1>2, <1>4, <1>5, <1>8, <2>2, <2>4, <2>5, <2>6, QuietNames
  <1>9. CASE Copy(i).type = "dir" /\ At(p, "parent") /\ UNCHANGED ref
    <2>1. /\ at'[p] = [at[p] EXCEPT !.pc = "parent"] /\ \A q \in Proc : q # p => at'[q] = at[q]
      BY <1>9, <1>7 DEF At, Goto, Types
    <2>2. /\ at'[p].pc = "parent" /\ at'[p].cur = i /\ at'[p].path = at[p].path
          /\ at'[p].ip = at[p].ip
      BY <1>2, <2>1 DEF Place, i
    <2>3. Stage(at'[p]) = "parent" /\ ~Puts(at'[p])
      BY <2>2 DEF Stage, Puts
    <2>4. /\ Linking(at'[p]) => Linking(at[p]) /\ at'[p].ip = at[p].ip
          /\ (HasSecond(at'[p]) \/ Linking(at'[p])) => at[p].ip # 0
      BY <1>2, <2>2, <2>3 DEF Linking, HasSecond
    <2>5. Safe(p)'
      BY <1>3, <1>4, <1>5, <1>6, <1>7, <1>9, <2>2, <2>3, <2>4 DEF Safe, Good, Live, Holding
    <2>6. Route(p)'
      BY <1>2, <1>5, <1>7, <2>2, <2>3 DEF Route, i
    <2>7. ref' = ref
      BY <1>9
    <2> QED
      BY <1>2, <1>4, <1>5, <2>1, <2>4, <2>5, <2>6, <2>7, QuietNames
  <1>10. CASE /\ next # 0 /\ ~(last /\ WantsParent(p))
              /\ Iget(next)
              /\ Goto(p, [at[p] EXCEPT !.pc = "put", !.drop = <<i>>, !.cur = next,
                                       !.path = Tail(@),
                                       !.next = IF last THEN "found" ELSE "walk"])
    <2>1. ~Swapping(Call(p)) /\ at[p].path \in Seq(Steps)
      <3>1. Swapping(Call(p)) => last /\ WantsParent(p)
        <4>1. Swapping(Call(p)) => at[p].path = <<SwapName[p]>>
          BY <1>2, <1>7 DEF Route
        <4>2. at[p].path = <<SwapName[p]>> => last
          BY DEF last
        <4> QED
          BY <4>1, <4>2 DEF Swapping, WantsParent
      <3> QED
        BY <1>2, <1>7, <1>10, <3>1 DEF Route
    <2>2. name \in Steps /\ Tail(at[p].path) \in Seq(Steps)
      BY <1>2, <2>1 DEF name
    <2>3. next \in Inum /\ fs.ino[next].nlink # 0 /\ Good(next)
      <3>1. name = ".." => fs.ino[next].nlink # 0
        BY <1>1, <1>10 DEF Strays, name, next, i
      <3> QED
        BY <1>2, <1>10, <2>2, <3>1, StepLeads DEF next
    <2>4. /\ at'[p] = [at[p] EXCEPT !.pc = "put", !.drop = <<i>>, !.cur = next,
                                    !.path = Tail(@),
                                    !.next = IF last THEN "found" ELSE "walk"]
          /\ \A q \in Proc : q # p => at'[q] = at[q]
      BY <1>7, <1>10 DEF Goto, Types
    <2>5. /\ at'[p].pc = "put" /\ at'[p].drop = <<i>> /\ at'[p].cur = next
          /\ at'[p].path = Tail(at[p].path) /\ at'[p].ip = at[p].ip
          /\ at'[p].next = IF last THEN "found" ELSE "walk"
      BY <1>2, <2>4 DEF Place
    <2>6. Stage(at'[p]) = (IF last THEN "found" ELSE "walk") /\ Puts(at'[p])
      BY <2>5 DEF Stage, Puts
    <2>7. /\ Linking(at'[p]) => Linking(at[p]) /\ at'[p].ip = at[p].ip
          /\ (HasSecond(at'[p]) \/ Linking(at'[p])) => at[p].ip # 0
      BY <1>2, <2>5, <2>6 DEF Linking, HasSecond
    <2>8. Safe(p)'
      <3>1. Good(at[p].cur)'
        BY <1>5, <2>3, <2>5 DEF Good, Live
      <3> QED
        BY <1>3, <1>5, <1>6, <1>7, <2>5, <2>6, <2>7, <3>1 DEF Safe, Good, Live, Holding
    <2>9. Route(p)'
      BY <1>5, <2>1, <2>2, <2>5, <2>6 DEF Route
    <2>10. \A k \in Inum : fs.ino[k].nlink # 0 \/ ref'[k] = ref[k]
      BY <1>7, <1>10, <2>3 DEF Iget, Types
    <2> QED
      BY <1>2, <1>4, <1>5, <2>4, <2>5, <2>7, <2>8, <2>9, <2>10, QuietNames
  <1> QED
    <2>1. \/ PutThen(p, <<i>>, IfMissing(p)) /\ UNCHANGED ref
          \/ Copy(i).type = "dir" /\ At(p, "parent") /\ UNCHANGED ref
          \/ /\ next # 0 /\ ~(last /\ WantsParent(p))
             /\ Iget(next)
             /\ Goto(p, [at[p] EXCEPT !.pc = "put", !.drop = <<i>>, !.cur = next,
                                      !.path = Tail(@),
                                      !.next = IF last THEN "found" ELSE "walk"])
      BY DEF Walk, i, next, last, name
    <2> QED
      BY <1>8, <1>9, <1>10, <2>1
-----------------------------------------------------------------------------
(* iput.                                                                    *)

\* What is known of a process that gives references back.
LEMMA PutsIs ==
  ASSUME IInv, NInv, phase = "up", NEW p \in Proc, Puts(at[p]), NEW i, i = Head(at[p].drop)
  PROVE  /\ i \in Inum /\ at[p].drop # <<>> /\ at[p].drop \in Seq(Inum) /\ at[p] \in Place
         /\ Stage(at[p]) = at[p].next /\ at[p].next \in Later /\ p \in ops
         /\ 1 \in DOMAIN at[p].drop /\ at[p].drop[1] = i /\ Refers(p, i)
  <1>1. at[p].pc # "user"
    BY DEF Puts
  <1>2. /\ at[p].drop # <<>> /\ at[p].drop \in Seq(Inum) /\ at[p] \in Place
        /\ at[p].next \in Later /\ p \in ops
    BY <1>1, InCall, AtHand DEF Placed, IInv
  <1>3. 1 \in DOMAIN at[p].drop /\ at[p].drop[1] = i /\ i \in Inum
    BY <1>2
  <1> QED
    BY <1>2, <1>3 DEF Stage, Refers

\* One reference less, and on.
LEMMA UnrefNames ==
  ASSUME IInv, NInv, phase = "up", NEW p \in Proc, Types', at[p].pc \in {"put", "unref"},
         NEW i, i = Head(at[p].drop), Unref(p, i),
         UNCHANGED <<fs, durable, lock, ftableVars, callVars, phase>>
  PROVE  NInv'
  <1> DEFINE r == at[p]
             next == IF Len(r.drop) = 1 THEN r.next ELSE "put"
  <1>1. /\ i \in Inum /\ r.drop # <<>> /\ r.drop \in Seq(Inum) /\ r \in Place /\ Puts(r)
        /\ Stage(r) = r.next /\ r.next \in Later /\ p \in ops /\ Refers(p, i)
    BY PutsIs DEF Puts
  <1>2. /\ at'[p] = [r EXCEPT !.drop = Tail(r.drop), !.pc = next]
        /\ \A q \in Proc : q # p => at'[q] = at[q]
    BY DEF Unref, Goto, IInv, Inv, Types
  <1>3. /\ at'[p].drop = Tail(r.drop) /\ at'[p].pc = next /\ at'[p].cur = r.cur
        /\ at'[p].ip = r.ip /\ at'[p].path = r.path /\ at'[p].next = r.next
    BY <1>1, <1>2 DEF Place
  <1>4. /\ Stage(at'[p]) = Stage(r) /\ (Puts(at'[p]) => at'[p].pc = "put" /\ Len(r.drop) # 1)
        /\ at'[p].pc \notin {"user", "parent", "victim", "reap", "unref"}
    BY <1>1, <1>3 DEF Stage, Puts, Later
  <1>5. /\ HasSecond(at'[p]) => HasSecond(r)
        /\ Linking(at'[p]) => Linking(r)
        /\ Keeps(at'[p]) <=> Keeps(r)
    BY <1>3, <1>4 DEF HasSecond, Linking, Keeps
  <1>6. /\ UNCHANGED <<fs, durable, todo, fref, fip>> /\ cwd' = cwd /\ ops' = ops /\ lock' = lock
        /\ Call(p)' = Call(p) /\ phase' = "up"
    BY DEF ftableVars, callVars, Call
  <1>7. Safe(p) /\ Route(p) /\ Good(cwd[p])' /\ fs'.ino[cwd'[p]].type = "dir"
    BY <1>6, AtHand DEF Good, Live
  <1> HIDE DEF next
  <1>8. ASSUME Puts(at'[p]), NEW k \in DOMAIN at'[p].drop
        PROVE  Live(at[p].drop[k])'
    <2>1. k + 1 \in DOMAIN r.drop /\ at'[p].drop[k] = r.drop[k + 1] /\ k + 1 > 1
      BY <1>1, <1>3, <1>8
    <2> QED
      BY <1>1, <1>6, <1>7, <2>1 DEF Safe, Live
  <1>9. Safe(p)'
    BY <1>3, <1>4, <1>5, <1>6, <1>7, <1>8 DEF Safe, Good, Live
  <1>10. Route(p)'
    BY <1>3, <1>4, <1>6, <1>7 DEF Route
  <1>11. \A k \in Inum : Refers(p, k) \/ ref'[k] = ref[k]
    BY <1>1 DEF Unref, IInv, Inv, Types
  <1>12. \A k \in Inum : lock'[k] = p => Owns(p, k)'
    <2> SUFFICES ASSUME NEW k \in Inum, lock[k] = p
                 PROVE  Owns(p, k)'
      BY <1>6
    <2>1. Owns(p, k)
      BY FileSystemAssumption DEF NInv, Owned
    <2>2. ~Reaps(r, k)
      BY DEF Reaps
    <2> QED
      BY <1>3, <1>5, <2>1, <2>2 DEF Owns
  <1> QED
    BY <1>1, <1>2, <1>3, <1>4, <1>5, <1>6, <1>9, <1>10, <1>11, <1>12, QuietNames

\* iput: the last reference to an inode without links is kept, to free it.
LEMMA PutNames ==
  ASSUME IInv, NInv, phase = "up", NEW p \in Proc, Types', Put(p)
  PROVE  NInv'
  <1> DEFINE i == Head(at[p].drop)
             r == at[p]
  <1>1. /\ r.pc = "put" /\ UNCHANGED <<fs, durable, ftableVars, callVars, crashes>>
    BY DEF Put
  <1>2. /\ i \in Inum /\ r.drop # <<>> /\ r.drop \in Seq(Inum) /\ r \in Place /\ Puts(r)
        /\ Stage(r) = r.next /\ r.next \in Later /\ p \in ops /\ Refers(p, i)
    BY <1>1, PutsIs DEF Puts
  <1> HIDE DEF i
  <1>3. CASE Unref(p, i) /\ UNCHANGED <<lock, phase>>
    BY <1>1, <1>3, UnrefNames DEF i
  <1>4. CASE /\ Orphan(i)
             /\ phase' = IF lock[i] # Nobody THEN "panic" ELSE phase
             /\ Lock(p, i) /\ At(p, "reap")
             /\ UNCHANGED <<ref, valid, mem>>
    <2>1. ref[i] = 1 /\ i \in valid /\ mem[i].nlink = 0 /\ fs.ino[i].nlink = 0
      BY <1>2, <1>4 DEF Orphan, IInv, Inv, Copies
    <2>2. /\ Opens(i) = {} /\ ~(Stage(r) \in Holding /\ r.cur = i)
          /\ \A q \in Proc : q # p => ~Refers(q, i)
      BY <1>2, <2>1, Alone DEF i, IInv, Inv
    <2>3. lock[i] = Nobody
      <3> SUFFICES ASSUME lock[i] # Nobody
                   PROVE  FALSE
        OBVIOUS
      <3>1. PICK q \in Proc : q = lock[i]
        BY <1>2 DEF IInv, Inv, Types
      <3>2. Owns(q, i)
        BY <1>2, <3>1 DEF NInv, Owned
      <3>3. CASE Keeps(at[q]) /\ at[q].cur = i
        BY <2>2, <3>3 DEF Keeps, Holding, Refers
      <3>4. CASE Reaps(at[q], i)
        <4>1. q # p /\ Puts(at[q])
          BY <1>1, <3>4 DEF Reaps, Puts
        <4>2. Refers(q, i)
          BY <3>4, <4>1, PutsIs DEF Reaps
        <4> QED
          BY <2>2, <4>1, <4>2
      <3> QED
        BY <3>2, <3>3, <3>4 DEF Owns
    <2>4. phase' = "up" /\ lock' = [lock EXCEPT ![i] = p] /\ ref' = ref
      BY <1>4, <2>3 DEF Lock
    <2>5. /\ at'[p] = [r EXCEPT !.pc = "reap"] /\ \A q \in Proc : q # p => at'[q] = at[q]
      BY <1>4 DEF At, Goto, IInv, Inv, Types
    <2>6. /\ at'[p].drop = r.drop /\ at'[p].pc = "reap" /\ at'[p].cur = r.cur
          /\ at'[p].ip = r.ip /\ at'[p].path = r.path /\ at'[p].next = r.next
      BY <1>2, <2>5 DEF Place
    <2>7. Stage(at'[p]) = Stage(r) /\ Puts(at'[p])
      BY <1>2, <2>6 DEF Stage, Puts
    <2>8. /\ HasSecond(at'[p]) => HasSecond(r)
          /\ Linking(at'[p]) => Linking(r)
          /\ Keeps(at'[p]) <=> Keeps(r)
      BY <2>6, <2>7 DEF HasSecond, Linking, Keeps
    <2>9. /\ UNCHANGED <<fs, durable, todo, fref, fip>> /\ cwd' = cwd /\ ops' = ops
          /\ Call(p)' = Call(p)
      BY <1>1 DEF ftableVars, callVars, Call
    <2>10. Safe(p) /\ Route(p) /\ Good(cwd[p])' /\ fs'.ino[cwd'[p]].type = "dir"
      BY <2>9, AtHand DEF Good, Live
    <2>11. Safe(p)'
      BY <1>1, <1>2, <2>1, <2>4, <2>6, <2>7, <2>8, <2>9, <2>10 DEF Safe, Good, Live, i
    <2>12. Route(p)'
      BY <2>6, <2>7, <2>9, <2>10 DEF Route
    <2>13. \A k \in Inum : lock'[k] = p => Owns(p, k)'
      <3> SUFFICES ASSUME NEW k \in Inum, lock'[k] = p
                   PROVE  Owns(p, k)'
        OBVIOUS
      <3>1. CASE k = i
        BY <2>6, <3>1 DEF Owns, Reaps, i
      <3>2. CASE k # i
        <4>1. lock[k] = p
          BY <2>4, <3>2 DEF IInv, Inv, Types
        <4>2. Owns(p, k) /\ ~Reaps(r, k)
          BY <1>1, <4>1, FileSystemAssumption DEF NInv, Owned, Reaps
        <4> QED
          BY <2>6, <2>8, <4>2 DEF Owns
      <3> QED
        BY <3>1, <3>2
    <2>14. \A k \in Inum : lock'[k] \in {lock[k], Nobody, p}
      BY <2>4 DEF IInv, Inv, Types
    <2> QED
      BY <1>2, <2>4, <2>5, <2>6, <2>7, <2>8, <2>9, <2>11, <2>12, <2>13, <2>14, QuietNames
  <1> QED
    BY <1>3, <1>4 DEF Put, i

\* The last reference is given back.
LEMMA DropRefNames ==
  ASSUME IInv, NInv, phase = "up", NEW p \in Proc, Types', DropRef(p)
  PROVE  NInv'
  <1> DEFINE i == Head(at[p].drop)
  <1>1. /\ at[p].pc = "unref" /\ Unref(p, i)
        /\ UNCHANGED <<fs, durable, lock, ftableVars, callVars, phase>>
    BY DEF DropRef
  <1> HIDE DEF i
  <1> QED
    BY <1>1, UnrefNames DEF i

\* The inode is freed.  Nobody else has a reference to it and no name leads to it.
LEMMA ReapNames ==
  ASSUME IInv, NInv, phase = "up", NEW p \in Proc, Types', Reap(p)
  PROVE  NInv'
  <1> DEFINE i == Head(at[p].drop)
             r == at[p]
  <1>1. /\ r.pc = "reap" /\ UNCHANGED <<durable, ref, ftableVars, callVars, phase, crashes>>
        /\ fs' = [ino |-> [fs.ino EXCEPT ![i] = NoInode],
                  ents |-> [fs.ents EXCEPT ![i] = NoEntries],
                  used |-> fs.used \ FreedBlocks(i)]
        /\ Unlock(i) /\ At(p, "unref")
    BY DEF Reap
  <1>2. /\ i \in Inum /\ r.drop # <<>> /\ r.drop \in Seq(Inum) /\ r \in Place /\ Puts(r)
        /\ Stage(r) = r.next /\ r.next \in Later /\ p \in ops /\ Refers(p, i)
    BY <1>1, PutsIs DEF Puts
  <1>3. Reaps(r, i) /\ lock[i] = p
    BY <1>1 DEF Reaps, IInv, Inv, Locking, Locks
  <1> HIDE DEF i
  <1>4. ref[i] = 1 /\ fs.ino[i].nlink = 0 /\ \A q \in Proc : q # p => ~Refers(q, i)
    BY <1>3, ReapedIs
  <1>5. /\ cwd[p] # i /\ ~(Stage(r) \in Holding /\ r.cur = i) /\ ~(HasSecond(r) /\ r.ip = i)
        /\ \A k \in DOMAIN r.drop : r.drop[k] = i => k = 1
    BY <1>2, <1>4, Alone DEF i, IInv, Inv
  <1>6. /\ fs'.ino[i] = NoInode /\ fs'.ents[i] = NoEntries
        /\ \A k \in Inum : k # i => fs'.ino[k] = fs.ino[k] /\ fs'.ents[k] = fs.ents[k]
    BY <1>1, <1>2 DEF IInv, Inv, Types, Disk
  <1>7. /\ at'[p] = [r EXCEPT !.pc = "unref"] /\ \A q \in Proc : q # p => at'[q] = at[q]
    BY <1>1 DEF At, Goto, IInv, Inv, Types
  <1>8. /\ at'[p].drop = r.drop /\ at'[p].pc = "unref" /\ at'[p].cur = r.cur
        /\ at'[p].ip = r.ip /\ at'[p].path = r.path /\ at'[p].next = r.next
    BY <1>2, <1>7 DEF Place
  <1>9. Stage(at'[p]) = Stage(r) /\ Puts(at'[p])
    BY <1>2, <1>8 DEF Stage, Puts
  <1>10. /\ HasSecond(at'[p]) <=> HasSecond(r)
         /\ Linking(at'[p]) <=> Linking(r)
         /\ Keeps(at'[p]) <=> Keeps(r)
         /\ Linking(r) => HasSecond(r)
    BY <1>8, <1>9 DEF HasSecond, Linking, Keeps
  <1>11. /\ UNCHANGED <<durable, todo, fref, fip, ref>> /\ cwd' = cwd /\ ops' = ops
         /\ Call(p)' = Call(p) /\ phase' = "up"
    BY <1>1 DEF ftableVars, callVars, Call
  <1>12. /\ Safe(p) /\ Route(p) /\ Good(cwd[p]) /\ fs.ino[cwd[p]].type = "dir"
         /\ cwd[p] \in Inum /\ fs \in Disk /\ fs' \in Disk
         /\ Tree(fs, SwapsNow, PendingNow)
    BY AtHand DEF Types
  <1>13. /\ \A k \in Inum : PendingNow'[k] <= PendingNow[k]
         /\ PendingNow \in [Inum -> Nat] /\ PendingNow' \in [Inum -> Nat]
    BY <1>7, <1>8, <1>10, PendingKept
  <1>14. SwapsNow' \subseteq SwapsNow /\ SwapsThen' = SwapsThen
    <2>1. at'[p].pc # "user"
      BY <1>8
    <2> QED
      BY <1>7, <1>9, <1>11, <2>1, SwapsKept
  <1>15. Tree(fs, SwapsNow, PendingNow)'
    BY <1>2, <1>4, <1>6, <1>12, <1>13, <1>14, TreeFreed
  <1>16. Tree(durable, SwapsThen, None)'
    BY <1>11, <1>14 DEF NInv, None
  <1>17. Safe(p)'
    <2>1. Good(cwd[p])' /\ fs'.ino[cwd'[p]].type = "dir"
      BY <1>5, <1>6, <1>11, <1>12 DEF Good, Live
    <2>2. \A k \in DOMAIN r.drop : k > 1 => Live(at[p].drop[k])'
      BY <1>1, <1>2, <1>5, <1>6, <1>8, <1>12 DEF Safe, Live
    <2>3. Stage(r) \in Holding => Good(at[p].cur)'
      <3>1. Stage(r) \in Holding => r.cur \in Inum /\ r.cur # i /\ Good(r.cur)
        BY <1>1, <1>5, <1>12, InCall DEF Safe, Placed, Holding, IInv
      <3> QED
        BY <1>6, <1>8, <3>1 DEF Good, Live
    <2>4. HasSecond(r) => Live(at[p].ip)' /\ fs'.ino[r.ip].type = fs.ino[r.ip].type
      <3>1. HasSecond(r) => r.ip \in Inum /\ r.ip # i /\ Live(r.ip)
        BY <1>2, <1>5, <1>1, <1>12, InCall DEF Safe, Placed, HasSecond, IInv, Place
      <3> QED
        BY <1>6, <1>8, <3>1 DEF Live
    <2> QED
      BY <1>8, <1>9, <1>10, <1>12, <2>1, <2>2, <2>3, <2>4 DEF Safe
  <1>18. Route(p)'
    BY <1>1, <1>8, <1>9, <1>11, <1>12 DEF Route
  <1>19. Settled(p)'
    BY <1>2, <1>11, <1>17, <1>18, AtHand DEF Settled
  <1>20. /\ \A k \in Inum : lock'[k] \in {lock[k], Nobody, p}
         /\ \A k \in Inum : lock'[k] = p => Owns(p, k)'
    <2>1. lock' = [lock EXCEPT ![i] = Nobody] /\ lock \in [Inum -> Proc \cup {Nobody}]
      BY <1>1 DEF Unlock, IInv, Inv, Types
    <2>2. ASSUME NEW k \in Inum, lock'[k] = p
          PROVE  Owns(p, k)'
      <3>1. k # i /\ lock[k] = p
        BY <1>2, <2>1, <2>2, FileSystemAssumption
      <3>2. Owns(p, k) /\ ~Reaps(r, k)
        BY <3>1, FileSystemAssumption DEF NInv, Owned, Reaps, i
      <3> QED
        BY <1>8, <1>10, <3>2 DEF Owns
    <2> QED
      BY <1>2, <2>1, <2>2
  <1>21. \A f \in File : fip'[f] # 0 => fref'[f] > 0
    BY <1>11 DEF NInv
  <1>22. \A k \in Inum : Live(k) =>
           \/ fs'.ino[k].type = fs.ino[k].type /\ (fs.ents[k][".."] # 0 => fs'.ents[k][".."] # 0)
           \/ \A q \in Proc : q # p => ~Refers(q, k)
    BY <1>4, <1>6
  <1>23. \A k \in Inum : \/ Refers(p, k) \/ fs.ino[k].nlink # 0 \/ ~Live(k) \/ Opens(k) # {}
                         \/ ref'[k] = ref[k] /\ fs'.ino[k].nlink = fs.ino[k].nlink
    BY <1>2, <1>6, <1>11
  <1>24. \A k \in Inum : fs'.ents[k] = fs.ents[k] \/ lock[k] \in {Nobody, p} \/ ~Live(k)
    BY <1>3, <1>6
  <1> QED
    BY <1>7, <1>11, <1>15, <1>16, <1>19, <1>20, <1>21, <1>22, <1>23, <1>24, NamesStep
-----------------------------------------------------------------------------
(* create.                                                                  *)

\* What is known of a process at the last element of its path, when it locks the
\* directory.
LEMMA AtParent ==
  ASSUME IInv, NInv, phase = "up", NEW p \in Proc, at[p].pc = "parent", Ilock(at[p].cur)
  PROVE  /\ at[p].cur \in Inum /\ Good(at[p].cur) /\ fs.ino[at[p].cur].type = "dir"
         /\ at[p].path # <<>> /\ Head(at[p].path) \in Names /\ at[p] \in Place
         /\ fs.ents[at[p].cur][Head(at[p].path)] \in Inum \cup {0}
         /\ fs.ents[at[p].cur][".."] # 0 /\ Copy(at[p].cur) = fs.ino[at[p].cur]
         /\ phase' = "up" /\ lock[at[p].cur] = Nobody /\ Refers(p, at[p].cur)
         /\ Stage(at[p]) = "parent" /\ ~Puts(at[p]) /\ p \in ops /\ todo[p] # <<>>
         /\ (at[p].ip # 0 => Call(p).op = "link")
         /\ IF Swapping(Call(p)) THEN at[p].cur = ROOTINO /\ Head(at[p].path) = SwapName[p]
            ELSE Head(at[p].path) \in Steps
         /\ \A k \in Inum : lock[k] # p
  <1>1. /\ Stage(at[p]) = "parent" /\ ~Puts(at[p])
    BY DEF Stage, Puts
  <1>2. /\ at[p].cur \in Inum /\ at[p].path # <<>> /\ Head(at[p].path) \in Names
        /\ fs.ents[at[p].cur][Head(at[p].path)] \in Inum \cup {0}
        /\ (at[p].ip # 0 => Call(p).op = "link")
        /\ phase' = "up" /\ lock[at[p].cur] = Nobody
    BY ParentIs DEF IInv
  <1>3. Safe(p) /\ Route(p) /\ p \in ops /\ Types
    BY AtHand
  <1>4. /\ Good(at[p].cur) /\ fs.ino[at[p].cur].type = "dir" /\ Refers(p, at[p].cur)
        /\ fs.ents[at[p].cur][".."] # 0
    BY <1>1, <1>3 DEF Safe, Holding, Refers, Good
  <1>5. Copy(at[p].cur) = fs.ino[at[p].cur]
    BY <1>2, CopyIsDisk DEF IInv, Inv
  <1>6. /\ at[p] \in Place /\ todo[p] # <<>> /\ \A k \in Inum : lock[k] # p
    BY <1>1, InCall, OwnsNone DEF IInv
  <1>7. IF Swapping(Call(p)) THEN at[p].cur = ROOTINO /\ Head(at[p].path) = SwapName[p]
        ELSE Head(at[p].path) \in Steps
    <2>1. CASE Swapping(Call(p))
      BY <1>1, <1>3, <2>1 DEF Route
    <2>2. CASE ~Swapping(Call(p))
      <3>1. at[p].path \in Seq(Steps)
        BY <1>1, <1>3, <2>2 DEF Route
      <3> QED
        BY <1>2, <2>2, <3>1
    <2> QED
      BY <2>1, <2>2
  <1> QED
    BY <1>1, <1>2, <1>3, <1>4, <1>5, <1>6, <1>7

\* A process that has a swapon or an exit to do still has its swap file's name.
LEMMA StillSwaps ==
  ASSUME Types, NEW p \in Proc, todo[p] # <<>>, Swapping(Call(p)), Stage(at[p]) # "end"
  PROVE  p \in SwapsNow
  <1>1. 1 \in DOMAIN todo[p] /\ Call(p) = todo[p][1]
    BY DEF Call, Types
  <1> QED
    BY <1>1 DEF SwapsNow, Swaps, Gone

\* The name at the end of a path leads to an inode in use: a user's name, "..", or
\* the swap file's.
LEMMA LastLeads ==
  ASSUME IInv, NInv, phase = "up", NEW p \in Proc, at[p].pc = "parent", Ilock(at[p].cur),
         ~Strays(p), NEW i, i = fs.ents[at[p].cur][Head(at[p].path)], i # 0
  PROVE  i \in Inum /\ fs.ino[i].nlink # 0 /\ Good(i)
  <1>1. CASE Swapping(Call(p))
    <2>1. p \in SwapsNow
      BY <1>1, AtParent, StillSwaps DEF IInv, Inv
    <2>2. i = fs.ents[ROOTINO][SwapName[p]]
      BY <1>1, AtParent
    <2>3. /\ fs \in Disk /\ Tree(fs, SwapsNow, PendingNow)
          /\ PendingNow \in [Inum -> Nat] /\ SwapsNow \in SUBSET Proc
      BY AtHand
    <2>4. i \in Inum /\ fs.ino[i].nlink > 0 /\ fs.ino[i].type = "file"
      BY <2>1, <2>2, <2>3, SwapLeads
    <2>5. fs.ino[i].nlink # 0
      <3>1. PICK n : n = fs.ino[i].nlink
        OBVIOUS
      <3>2. n \in Nat /\ n > 0
        BY <2>4, <3>1, AtHand
      <3>3. n # 0
        BY <3>2
      <3> QED
        BY <3>1, <3>3
    <2> QED
      BY <2>4, <2>5 DEF Good, Live
  <1>2. CASE ~Swapping(Call(p))
    <2>1. Head(at[p].path) \in Steps /\ at[p].cur \in Inum
      BY <1>2, AtParent
    <2>2. Head(at[p].path) = ".." => fs.ino[i].nlink # 0
      BY DEF Strays
    <2> QED
      BY <2>1, <2>2, StepLeads
  <1> QED
    BY <1>1, <1>2

\* The name exists.
LEMMA CreateFindsNames ==
  ASSUME IInv, NInv, phase = "up", NEW p \in Proc, Types', CreateFinds(p), ~Strays(p)
  PROVE  NInv'
  <1> DEFINE dp == at[p].cur
             i  == fs.ents[dp][Head(at[p].path)]
             r  == [at[p] EXCEPT !.pc = "put", !.drop = <<dp>>, !.cur = i, !.next = "existing"]
  <1>1. /\ at[p].pc = "parent" /\ Ilock(dp) /\ Look(dp) /\ Iget(i) /\ Goto(p, r) /\ i # 0
        /\ Call(p).op \in {"create", "mkdir", "swapon"}
        /\ UNCHANGED <<durable, lock, ftableVars, callVars, crashes>>
    BY DEF CreateFinds, CreateHere
  <1>2. /\ dp \in Inum /\ Good(dp) /\ phase' = "up" /\ at[p] \in Place /\ p \in ops
        /\ \A k \in Inum : lock[k] # p
        /\ Stage(at[p]) = "parent"
    BY <1>1, AtParent
  <1>3. i \in Inum /\ fs.ino[i].nlink # 0 /\ Good(i)
    BY <1>1, LastLeads
  <1>4. /\ at'[p] = r /\ \A q \in Proc : q # p => at'[q] = at[q]
    BY <1>1 DEF Goto, IInv, Inv, Types
  <1>5. /\ r.pc = "put" /\ r.drop = <<dp>> /\ r.cur = i /\ r.next = "existing"
    BY <1>2 DEF Place
  <1> HIDE DEF r, i, dp
  <1>6. /\ Stage(at'[p]) = "existing" /\ ~HasSecond(at'[p]) /\ ~Linking(at'[p])
    BY <1>4, <1>5 DEF Stage, Puts, HasSecond, Linking
  <1>7. /\ UNCHANGED <<fs, durable, todo, fref, fip>> /\ cwd' = cwd /\ ops' = ops /\ lock' = lock
    BY <1>1 DEF Look, ftableVars, callVars
  <1>8. Safe(p)'
    <2>1. Good(cwd[p])' /\ fs'.ino[cwd'[p]].type = "dir"
      BY <1>7, AtHand DEF Good, Live
    <2>2. Good(at[p].cur)' /\ fs'.ino[dp].type # "free"
      BY <1>2, <1>3, <1>4, <1>5, <1>7 DEF Good, Live
    <2> QED
      BY <1>4, <1>5, <1>6, <2>1, <2>2 DEF Safe, Live, Holding
  <1>9. Route(p)'
    BY <1>4, <1>5, <1>6 DEF Route
  <1>10. \A k \in Inum : fs.ino[k].nlink # 0 \/ ref'[k] = ref[k]
    BY <1>1, <1>3 DEF Iget, IInv, Inv, Types
  <1> QED
    BY <1>2, <1>4, <1>6, <1>7, <1>8, <1>9, <1>10, QuietNames

\* There is no inode left.
LEMMA CreateFailsNames ==
  ASSUME IInv, NInv, phase = "up", NEW p \in Proc, Types', CreateFails(p)
  PROVE  NInv'
  <1> DEFINE dp == at[p].cur
  <1>1. /\ at[p].pc = "parent" /\ Ilock(dp) /\ Look(dp) /\ PutThen(p, <<dp>>, "end")
        /\ UNCHANGED <<durable, ref, lock, ftableVars, callVars, crashes>>
    BY DEF CreateFails, CreateHere
  <1>2. /\ dp \in Inum /\ Good(dp) /\ phase' = "up" /\ at[p] \in Place /\ p \in ops
        /\ \A k \in Inum : lock[k] # p
        /\ Stage(at[p]) = "parent"
    BY <1>1, AtParent
  <1> HIDE DEF dp
  <1>3. <<dp>> \in Seq(Inum) /\ "end" \in Later
    BY <1>2 DEF Later
  <1>4. /\ at'[p].pc = "put" /\ at'[p].next = "end" /\ at'[p].drop = <<dp>>
        /\ \A q \in Proc : q # p => at'[q] = at[q]
    BY <1>1, <1>3, PutThenIs DEF IInv, Inv
  <1>5. /\ UNCHANGED <<fs, durable, todo, fref, fip>> /\ cwd' = cwd /\ ops' = ops /\ lock' = lock
        /\ ref' = ref
    BY <1>1 DEF Look, ftableVars, callVars
  <1>6. Good(cwd[p])' /\ fs'.ino[cwd'[p]].type = "dir"
    BY <1>5, AtHand DEF Good, Live
  <1>7. /\ Safe(p)' /\ Route(p)' /\ ~Linking(at'[p])
    <2>1. PICK ds \in Seq(Inum) : ds = <<dp>>
      BY <1>3
    <2>2. \A k \in DOMAIN ds : fs'.ino[ds[k]].type # "free"
      BY <1>2, <1>5, <2>1 DEF Good, Live
    <2>3. at'[p].drop = ds
      BY <1>4, <2>1
    <2> QED
      BY <1>4, <1>6, <2>2, <2>3, EndsSafe
  <1> QED
    BY <1>2, <1>4, <1>5, <1>7, QuietNames

\* What ialloc gives: an inode that nothing leads to.
LEMMA FreeIs ==
  ASSUME IInv, NInv, phase = "up", NEW p \in Proc, FreeInodes # {}, NEW i, i = Min(FreeInodes)
  PROVE  /\ i \in Inum /\ fs.ino[i].type = "free" /\ ~Live(i)
         /\ fs.ents[i] = NoEntries /\ fs.ents[i][".."] = 0
         /\ To(fs, SwapsNow, i) = {} /\ PendingNow[i] = 0 /\ i # ROOTINO
         /\ Fresh(p, i) = [NoInode EXCEPT !.type = TypeOf(p)] /\ Fresh(p, i) \in Inode
         /\ Fresh(p, i).type = TypeOf(p) /\ Fresh(p, i).nlink = 0
  <1>1. /\ i \in Inum /\ fs.ino[i].type = "free"
        /\ Fresh(p, i) = [NoInode EXCEPT !.type = TypeOf(p)] /\ Fresh(p, i) \in Inode
    BY FreshIs DEF IInv
  <1>2. /\ fs \in Disk /\ Tree(fs, SwapsNow, PendingNow) /\ PendingNow \in [Inum -> Nat]
    BY AtHand
  <1>3. fs.ino[i].nlink = 0 /\ fs.ents[i] = NoEntries
    BY <1>1, <1>2 DEF Tree, Blank, NoInode
  <1>4. To(fs, SwapsNow, i) = {} /\ PendingNow[i] = 0 /\ i # ROOTINO
    BY <1>1, <1>2, <1>3, Linked
  <1>5. fs.ents[i][".."] = 0
    BY <1>3 DEF NoEntries, Names
  <1> QED
    BY <1>1, <1>3, <1>4, <1>5 DEF Live, NoInode
-----------------------------------------------------------------------------
(* The steps of a call that write.                                          *)

\* What iupdate of one inode leaves.
LEMMA OneWritten ==
  ASSUME NEW i \in Inum, NEW x, NEW ents, NEW used, Write(One(i, x), ents, used)
  PROVE  /\ fs'.ino[i] = x /\ fs'.ents = ents
         /\ \A k \in Inum : k # i => fs'.ino[k] = fs.ino[k]
  BY DEF Write, One

\* ... and of two.
LEMMA TwoWritten ==
  ASSUME NEW i \in Inum, NEW j \in Inum, i # j, NEW x, NEW y, NEW ents, NEW used,
         Write(Two(i, x, j, y), ents, used)
  PROVE  /\ fs'.ino[i] = x /\ fs'.ino[j] = y /\ fs'.ents = ents
         /\ \A k \in Inum : k # i /\ k # j => fs'.ino[k] = fs.ino[k]
  BY DEF Write, Two

\* A step of a call that changes no struct file and commits nothing.
LEMMA CallNames ==
  ASSUME IInv, NInv, phase = "up", NEW p \in Proc, Types', phase' = "up",
         UNCHANGED <<durable, fref, fip>>, UNCHANGED <<ops, todo>>,
         \A q \in Proc : q # p => at'[q] = at[q] /\ cwd'[q] = cwd[q],
         \A i \in Inum : Live(i) =>
           /\ fs'.ino[i].type = fs.ino[i].type
           /\ fs.ents[i][".."] # 0 => fs'.ents[i][".."] # 0,
         \A i \in Inum : \/ Refers(p, i) \/ fs.ino[i].nlink # 0 \/ ~Live(i) \/ Opens(i) # {}
                         \/ ref'[i] = ref[i] /\ fs'.ino[i].nlink = fs.ino[i].nlink,
         \A i \in Inum : fs'.ents[i] = fs.ents[i] \/ lock[i] \in {Nobody, p} \/ ~Live(i),
         \A i \in Inum : lock'[i] \in {lock[i], Nobody, p},
         \A i \in Inum : lock'[i] = p => Owns(p, i)',
         Tree(fs', SwapsNow', PendingNow'),
         at[p].pc # "user" /\ Stage(at[p]) = "end" => at'[p].pc # "user" /\ Stage(at'[p]) = "end",
         Safe(p)', Route(p)', at[p].pc # "user"
  PROVE  NInv'
  <1>1. SwapsThen' = SwapsThen
    <2>1. todo' = todo
      OBVIOUS
    <2> QED
      BY <2>1, SwapsKept
  <1>2. Tree(fs, SwapsNow, PendingNow)'
    OBVIOUS
  <1>3. Tree(durable, SwapsThen, None)'
    <2>1. Tree(durable, SwapsThen, None) /\ durable' = durable
      BY DEF NInv
    <2> QED
      BY <1>1, <2>1 DEF None
  <1>4. Settled(p)'
    BY AtHand DEF Settled
  <1>5. \A f \in File : fip'[f] # 0 => fref'[f] > 0
    BY DEF NInv
  <1>6. \A q \in Proc : q # p => /\ at'[q] = at[q] /\ cwd'[q] = cwd[q] /\ todo'[q] = todo[q]
                                 /\ q \in ops => q \in ops'
    OBVIOUS
  <1>7. \A i \in Inum : Live(i) =>
           \/ fs'.ino[i].type = fs.ino[i].type /\ (fs.ents[i][".."] # 0 => fs'.ents[i][".."] # 0)
           \/ \A q \in Proc : q # p => ~Refers(q, i)
    OBVIOUS
  <1> QED
    BY <1>2, <1>3, <1>4, <1>5, <1>6, <1>7, NamesStep

\* mkdir without a block for the new directory.
LEMMA CreateUndoneNames ==
  ASSUME IInv, NInv, phase = "up", NEW p \in Proc, Types', CreateUndone(p)
  PROVE  NInv'
  <1> DEFINE dp == at[p].cur
             i  == Min(FreeInodes)
             x  == Fresh(p, i)
  <1>1. /\ at[p].pc = "parent" /\ Ilock(dp) /\ Iget(i) /\ Save(Two(dp, Copy(dp), i, x))
        /\ PutThen(p, <<i, dp>>, "end") /\ FreeInodes # {} /\ TypeOf(p) = "dir"
        /\ UNCHANGED <<durable, lock, ftableVars, callVars, crashes>>
    BY DEF CreateUndone, CreateHere
  <1>2. /\ dp \in Inum /\ Good(dp) /\ phase' = "up" /\ at[p] \in Place /\ p \in ops
        /\ \A k \in Inum : lock[k] # p
        /\ Stage(at[p]) = "parent" /\ Copy(dp) = fs.ino[dp]
    BY <1>1, AtParent
  <1>3. /\ i \in Inum /\ fs.ino[i].type = "free" /\ ~Live(i)
        /\ x.type = "dir" /\ x.nlink = 0 /\ fs.ents[i][".."] = 0
    BY <1>1, FreeIs
  <1>4. i # dp
    BY <1>2, <1>3 DEF Good
  <1> HIDE DEF dp, i, x
  <1>5. /\ fs'.ino[i] = x /\ fs'.ents = fs.ents
        /\ \A k \in Inum : k # i => fs'.ino[k] = fs.ino[k]
    BY <1>1, <1>2, <1>3, <1>4, TwoWritten DEF Save
  <1>6. PICK ds \in Seq(Inum) : ds = <<i, dp>>
    <2>1. <<i, dp>> \in Seq(Inum)
      BY <1>2, <1>3
    <2> QED
      BY <2>1
  <1>7. /\ at'[p].pc = "put" /\ at'[p].next = "end" /\ at'[p].drop = ds
        /\ \A q \in Proc : q # p => at'[q] = at[q]
    BY <1>1, <1>6, PutThenIs DEF IInv, Inv, Later
  <1>8. /\ UNCHANGED <<durable, fref, fip>> /\ UNCHANGED <<ops, todo>> /\ cwd' = cwd
        /\ lock' = lock
    BY <1>1 DEF ftableVars, callVars
  <1>9. Good(cwd[p])' /\ fs'.ino[cwd'[p]].type = "dir"
    <2>1. cwd[p] \in Inum /\ Good(cwd[p]) /\ fs.ino[cwd[p]].type = "dir"
      BY AtHand
    <2>2. cwd[p] # i
      BY <1>3, <2>1
    <2> QED
      BY <1>5, <1>8, <2>1, <2>2 DEF Good, Live
  <1>10. \A k \in DOMAIN ds : fs'.ino[ds[k]].type # "free"
    BY <1>2, <1>3, <1>4, <1>5, <1>6 DEF Good, Live
  <1>11. Safe(p)' /\ Route(p)' /\ ~Linking(at'[p])
    BY <1>7, <1>9, <1>10, EndsSafe
  <1>12. /\ \A k \in Inum : PendingNow'[k] <= PendingNow[k]
         /\ PendingNow \in [Inum -> Nat] /\ PendingNow' \in [Inum -> Nat]
    BY <1>7, <1>11, PendingKept
  <1>13. SwapsNow' \subseteq SwapsNow
    BY <1>2, <1>7, <1>8, SwapsKept
  <1>14. Tree(fs', SwapsNow', PendingNow')
    <2>1. fs \in Disk /\ fs' \in Disk /\ Tree(fs, SwapsNow, PendingNow) /\ Blank(fs)
      BY AtHand DEF Types, Tree
    <2>2. fs'.ino[i].type # "free" /\ fs'.ino[i].nlink = 0
      BY <1>3, <1>5
    <2>3. \A k \in Inum : k # i =>
           /\ fs'.ino[k].type = fs.ino[k].type /\ fs'.ino[k].nlink = fs.ino[k].nlink
           /\ fs'.ino[k].type = "free" => fs'.ino[k] = NoInode
      BY <1>5, <2>1 DEF Blank
    <2> QED
      BY <1>3, <1>5, <1>12, <1>13, <2>1, <2>2, <2>3, TreeBare
  <1>15. \A k \in Inum : Live(k) =>
           /\ fs'.ino[k].type = fs.ino[k].type
           /\ fs.ents[k][".."] # 0 => fs'.ents[k][".."] # 0
    BY <1>3, <1>5
  <1>16. \A k \in Inum : Live(k) => ref'[k] = ref[k] /\ fs'.ino[k].nlink = fs.ino[k].nlink
    <2>1. ref' = [ref EXCEPT ![i] = @ + 1] /\ ref \in [Inum -> Int]
      BY <1>1 DEF Iget, IInv, Inv, Types
    <2>2. \A k \in Inum : k # i => ref'[k] = ref[k]
      BY <2>1
    <2>3. \A k \in Inum : k # i => fs'.ino[k].nlink = fs.ino[k].nlink
      BY <1>5
    <2>4. \A k \in Inum : Live(k) => k # i
      BY <1>3
    <2> QED
      BY <2>2, <2>3, <2>4
  <1>17. at[p].pc # "user" /\ Stage(at[p]) # "end"
    BY <1>1, <1>2
  <1> QED
    BY <1>2, <1>5, <1>7, <1>8, <1>11, <1>14, <1>15, <1>16, <1>17, CallNames

\* The entries that create writes.
LEMMA EntriesMade ==
  ASSUME NEW ents \in [Inum -> [Names -> Inum \cup {0}]], NEW dp \in Inum, NEW i \in Inum, i # dp,
         NEW name \in Names, NEW up, ".." \in Names, NEW e,
         e = [ents EXCEPT ![dp][name] = i, ![i][".."] = up]
  PROVE  /\ e[dp][name] = i /\ e[i][".."] = up
         /\ \A a \in Inum : a # dp /\ a # i => e[a] = ents[a]
         /\ \A n \in Names : n # name => e[dp][n] = ents[dp][n]
         /\ \A n \in Names : n # ".." => e[i][n] = ents[i][n]
         /\ up = ents[i][".."] => e[i] = ents[i]
  <1> DEFINE f == [ents EXCEPT ![dp][name] = i]
  <1>1. e = [f EXCEPT ![i][".."] = up]
    OBVIOUS
  <1>2. f \in [Inum -> [Names -> Inum \cup {0}]] /\ f[dp][name] = i
        /\ (\A a \in Inum : a # dp => f[a] = ents[a])
        /\ \A n \in Names : n # name => f[dp][n] = ents[dp][n]
    OBVIOUS
  <1> HIDE DEF f
  <1>3. /\ e[i] = [f[i] EXCEPT ![".."] = up] /\ \A a \in Inum : a # i => e[a] = f[a]
    BY <1>1, <1>2
  <1>4. f[i] = ents[i] /\ f[i] \in [Names -> Inum \cup {0}]
    BY <1>2
  <1>5. e[i][".."] = up /\ \A n \in Names : n # ".." => e[i][n] = ents[i][n]
    BY <1>3, <1>4
  <1>6. up = ents[i][".."] => e[i] = ents[i]
    BY <1>3, <1>4
  <1> QED
    BY <1>2, <1>3, <1>5, <1>6

\* The file i is made in dp.
FileMade(d, e, i, dp, name) ==
  /\ name # ".." /\ i # dp
  /\ d.ino[i].type = "free" /\ d.ino[dp].type = "dir" /\ d.ents[dp][name] = 0
  /\ e.ino[i].type = "file" /\ e.ino[i].nlink = 1
  /\ \A k \in Inum : k # i => e.ino[k] = d.ino[k]
  /\ e.ents[dp][name] = i
  /\ \A n \in Names : n # name => e.ents[dp][n] = d.ents[dp][n]
  /\ \A a \in Inum : a # dp => e.ents[a] = d.ents[a]

\* A new file has one name and no links to come.
LEMMA TreeFileMade ==
  ASSUME NEW d \in Disk, NEW e \in Disk, NEW S, NEW T, T \subseteq S,
         NEW pend \in [Inum -> Nat], NEW pend2 \in [Inum -> Nat], Tree(d, S, pend),
         NEW i \in Inum, NEW dp \in Inum, NEW name \in Names, FileMade(d, e, i, dp, name),
         \A k \in Inum : pend2[k] <= pend[k]
  PROVE  Tree(e, T, pend2)
  <1> USE DEF FileMade
  <1>1. /\ To(d, S, i) = {} /\ pend[i] = 0 /\ d.ents[i] = NoEntries /\ Blank(d)
        /\ ".." \in Names /\ 0 \notin Inum
    <2>1. Blank(d)
      BY DEF Tree
    <2>2. d.ino[i].nlink = 0 /\ d.ents[i] = NoEntries
      BY <2>1 DEF Blank, NoInode
    <2> QED
      BY <2>1, <2>2, Linked, DiskTyped
  <1>2. To(e, T, i) \subseteq {<<dp, name>>}
    <2> SUFFICES ASSUME NEW y \in To(e, T, i), y # <<dp, name>>
                 PROVE  FALSE
      OBVIOUS
    <2>1. y \in Inum \X Names /\ e.ents[y[1]][y[2]] = i /\ Counts(e, T, y)
      BY DEF To
    <2>2. y[1] # dp \/ y[2] # name
      BY <2>1
    <2>3. d.ents[y[1]][y[2]] = i
      BY <2>1, <2>2
    <2>4. y[1] # i
      BY <1>1, <2>1, <2>3 DEF NoEntries
    <2>5. e.ino[y[1]] = d.ino[y[1]]
      BY <2>1, <2>4
    <2>6. Counts(d, S, y)
      BY <2>1, <2>5 DEF Counts
    <2> QED
      BY <1>1, <2>1, <2>3, <2>6 DEF To
  <1>3. Cardinality(To(e, T, i)) <= 1 /\ Cardinality(To(e, T, i)) \in Nat
    <2>1. IsFiniteSet({<<dp, name>>}) /\ Cardinality({<<dp, name>>}) = 1
      BY FS_Singleton
    <2> QED
      BY <1>2, <2>1, FS_Subset, FS_CardinalityType
  <1>4. e.ino[i].nlink >= Cardinality(To(e, T, i)) + pend2[i]
    <2>1. pend2[i] \in Nat /\ pend2[i] <= 0
      BY <1>1
    <2> QED
      BY <1>3, <2>1
  <1>5. \A k \in Inum : k # i =>
          /\ e.ino[k].type = d.ino[k].type /\ e.ino[k].nlink = d.ino[k].nlink
          /\ e.ino[k].type = "free" => e.ino[k] = NoInode
          /\ pend2[k] <= pend[k]
    BY <1>1 DEF Blank
  <1>6. \A a \in Inum :
          /\ e.ents[a][".."] = d.ents[a][".."]
          /\ d.ino[a].type # "dir" => e.ents[a] = d.ents[a]
          /\ \A n \in Names : e.ents[a][n] # d.ents[a][n] =>
               e.ents[a][n] \in {0, i} /\ d.ents[a][n] \in {0, i}
    BY <1>1
  <1> QED
    BY <1>4, <1>5, <1>6, TreeFile

\* create makes an inode and its entry.
LEMMA CreateNewNames ==
  ASSUME IInv, NInv, phase = "up", NEW p \in Proc, Types', CreateNew(p), ~Strays(p)
  PROVE  NInv'
  <1> DEFINE dp   == at[p].cur
             name == Head(at[p].path)
             i    == Min(FreeInodes)
             dir  == TypeOf(p) = "dir"
             x    == Fresh(p, i)
             B    == IF dir THEN NextBlock ELSE {}
             mine == [x EXCEPT !.nlink = 1, !.addrs = B]
             par  == Parent(p, Copy(dp))
             up   == IF dir THEN dp ELSE 0
             ents == [fs.ents EXCEPT ![dp][name] = i, ![i][".."] = up]
             n    == [at[p] EXCEPT !.pc = "put", !.drop = <<dp>>, !.cur = i, !.next = "opened"]
  <1>1. /\ at[p].pc = "parent" /\ Ilock(dp) /\ Iget(i) /\ Lock(p, i) /\ lock[i] = Nobody
        /\ FreeInodes # {} /\ Goto(p, n) /\ fs.ents[dp][name] = 0
        /\ Write(Two(dp, par, i, mine), ents, fs.used \cup mine.addrs)
        /\ UNCHANGED <<durable, ftableVars, callVars, crashes>>
    BY DEF CreateNew, CreateHere
  <1>2. /\ dp \in Inum /\ Good(dp) /\ phase' = "up" /\ at[p] \in Place /\ p \in ops
        /\ \A k \in Inum : lock[k] # p
        /\ Stage(at[p]) = "parent" /\ Copy(dp) = fs.ino[dp] /\ fs.ino[dp].type = "dir"
        /\ fs.ents[dp][".."] # 0 /\ name \in Names /\ lock[dp] = Nobody
    BY <1>1, AtParent
  <1>3. /\ i \in Inum /\ fs.ino[i].type = "free" /\ ~Live(i)
        /\ x.type = TypeOf(p) /\ x \in Inode /\ fs.ents[i][".."] = 0
        /\ fs.ents[i] = NoEntries
    BY <1>1, FreeIs
  <1>4. i # dp /\ name # ".."
    BY <1>1, <1>2, <1>3
  <1>5. mine.type = TypeOf(p) /\ mine.nlink = 1
    BY <1>3 DEF Inode
  <1>6. /\ par.type = "dir" /\ (~dir => par = fs.ino[dp])
        /\ dir => par.nlink = fs.ino[dp].nlink + 1
    <2>1. fs.ino[dp] \in Inode
      BY <1>2 DEF IInv, Inv, Types, Disk
    <2> QED
      BY <1>2, <2>1 DEF Parent, Inode
  <1>7. /\ at'[p] = n /\ \A q \in Proc : q # p => at'[q] = at[q]
    BY <1>1 DEF Goto, IInv, Inv, Types
  <1>8. /\ n.pc = "put" /\ n.drop = <<dp>> /\ n.cur = i /\ n.next = "opened"
    BY <1>2 DEF Place
  <1>9. Strays(p) \/ ~dir \/ fs.ino[dp].nlink # 0
    BY <1>1, <1>4 DEF Strays, TypeOf
  <1>10. dir => name \in UserNames
    <2>1. dir => ~Swapping(Call(p))
      BY DEF TypeOf, Swapping
    <2> QED
      BY <1>1, <1>4, <2>1, AtParent DEF Steps
  <1> HIDE DEF i, x, mine, par
  <1>11. /\ fs'.ino[dp] = par /\ fs'.ino[i] = mine /\ fs'.ents = ents
         /\ \A k \in Inum : k # i /\ k # dp => fs'.ino[k] = fs.ino[k]
    BY <1>1, <1>2, <1>3, <1>4, TwoWritten
  <1>12. /\ fs \in Disk /\ fs' \in Disk /\ Tree(fs, SwapsNow, PendingNow) /\ Blank(fs)
         /\ ".." \in Names /\ fs.ents \in [Inum -> [Names -> Inum \cup {0}]] /\ 0 \notin Inum
    BY <1>2, AtHand, DiskTyped DEF Types, Tree, Disk
  <1> HIDE DEF dp, name, up, n
  <1>13. /\ ents[dp][name] = i /\ ents[i][".."] = up
         /\ \A a \in Inum : a # dp /\ a # i => ents[a] = fs.ents[a]
         /\ \A m \in Names : m # name => ents[dp][m] = fs.ents[dp][m]
         /\ \A m \in Names : m # ".." => ents[i][m] = fs.ents[i][m]
         /\ up = fs.ents[i][".."] => ents[i] = fs.ents[i]
    <2>1. PICK e : e = ents
      OBVIOUS
    <2>2. PICK E \in [Inum -> [Names -> Inum \cup {0}]] : E = fs.ents
      BY <1>12
    <2>3. e = [E EXCEPT ![dp][name] = i, ![i][".."] = up]
      BY <2>1, <2>2
    <2> HIDE DEF ents
    <2>4. /\ e[dp][name] = i /\ e[i][".."] = up
          /\ \A a \in Inum : a # dp /\ a # i => e[a] = E[a]
          /\ \A m \in Names : m # name => e[dp][m] = E[dp][m]
          /\ \A m \in Names : m # ".." => e[i][m] = E[i][m]
          /\ up = E[i][".."] => e[i] = E[i]
      BY <1>2, <1>3, <1>4, <1>12, <2>3, EntriesMade
    <2> QED
      BY <2>1, <2>2, <2>4
  <1> HIDE DEF ents, dir
  <1>14. /\ UNCHANGED <<durable, fref, fip>> /\ UNCHANGED <<ops, todo>> /\ cwd' = cwd
         /\ lock' = [lock EXCEPT ![i] = p] /\ ref' = [ref EXCEPT ![i] = @ + 1]
    BY <1>1 DEF ftableVars, callVars, Lock, Iget
  <1>15. Stage(at'[p]) = "opened" /\ ~HasSecond(at'[p]) /\ ~Linking(at'[p]) /\ Puts(at'[p])
         /\ Keeps(at'[p])
    BY <1>7, <1>8 DEF Stage, Puts, HasSecond, Linking, Keeps
  <1>16. /\ \A k \in Inum : PendingNow'[k] <= PendingNow[k]
         /\ PendingNow \in [Inum -> Nat] /\ PendingNow' \in [Inum -> Nat]
    BY <1>7, <1>15, PendingKept
  <1>17. SwapsNow' \subseteq SwapsNow
    BY <1>2, <1>7, <1>14, SwapsKept
  <1>18. TypeOf(p) \in {"dir", "file"} /\ (dir <=> TypeOf(p) = "dir")
         /\ up = IF dir THEN dp ELSE 0
    BY DEF TypeOf, dir, up
  <1>19. Tree(fs', SwapsNow', PendingNow')
    <2>0. fs.ents[dp][name] = 0
      BY <1>1 DEF dp, name
    <2>1. CASE dir
      <3>1. name \in UserNames /\ fs.ino[dp].nlink > 0
        <4>1. fs.ino[dp].nlink # 0 /\ fs.ino[dp].nlink \in Nat
          BY <1>2, <1>9, <2>1, AtHand
        <4> QED
          BY <1>10, <2>1, <4>1
      <3>2. /\ fs'.ino[i].type = "dir" /\ fs'.ino[i].nlink = 1
            /\ fs'.ino[dp].type = "dir" /\ fs'.ino[dp].nlink = fs.ino[dp].nlink + 1
        BY <1>5, <1>6, <1>11, <1>18, <2>1
      <3>3. \A k \in Inum : k # i /\ k # dp =>
              /\ fs'.ino[k].type = fs.ino[k].type /\ fs'.ino[k].nlink = fs.ino[k].nlink
              /\ fs'.ino[k].type = "free" => fs'.ino[k] = NoInode
        BY <1>11, <1>12 DEF Blank
      <3>4. /\ fs'.ents[dp][name] = i /\ fs'.ents[i][".."] = dp
            /\ \A a \in Inum : \A m \in Names :
                 ~(a = dp /\ m = name) /\ ~(a = i /\ m = "..") => fs'.ents[a][m] = fs.ents[a][m]
            /\ \A a \in Inum : a # dp /\ a # i => fs'.ents[a] = fs.ents[a]
        BY <1>11, <1>13, <1>18, <2>1
      <3>5. PICK m \in UserNames : m = name
        BY <3>1
      <3>6. PICK j \in Inum, k \in Inum : j = i /\ k = dp
        BY <1>2, <1>3
      <3>7. PICK P \in [Inum -> Nat], Q \in [Inum -> Nat] : P = PendingNow /\ Q = PendingNow'
        BY <1>16
      <3>8. /\ fs \in Disk /\ fs' \in Disk /\ SwapsNow' \subseteq SwapsNow
            /\ Tree(fs, SwapsNow, P) /\ \A z \in Inum : Q[z] <= P[z]
        BY <1>12, <1>16, <1>17, <3>7
      <3>9. /\ fs.ino[j].type = "free" /\ fs.ino[k].type = "dir" /\ fs.ino[k].nlink > 0
            /\ fs.ents[k][m] = 0
            /\ fs'.ino[j].type = "dir" /\ fs'.ino[j].nlink = 1
            /\ fs'.ino[k].type = "dir" /\ fs'.ino[k].nlink = fs.ino[k].nlink + 1
            /\ fs'.ents[k][m] = j /\ fs'.ents[j][".."] = k
        BY <1>2, <1>3, <2>0, <3>1, <3>2, <3>4, <3>5, <3>6
      <3>10. \A z \in Inum : z # j /\ z # k =>
              /\ fs'.ino[z].type = fs.ino[z].type /\ fs'.ino[z].nlink = fs.ino[z].nlink
              /\ fs'.ino[z].type = "free" => fs'.ino[z] = NoInode
        BY <3>3, <3>6
      <3>11. /\ \A a \in Inum : \A y \in Names :
                  ~(a = k /\ y = m) /\ ~(a = j /\ y = "..") => fs'.ents[a][y] = fs.ents[a][y]
             /\ \A a \in Inum : a # k /\ a # j => fs'.ents[a] = fs.ents[a]
        BY <3>4, <3>5, <3>6
      <3>12. DirMade(fs, fs', j, k, m)
        BY <3>9, <3>10, <3>11 DEF DirMade
      <3>13. Tree(fs', SwapsNow', Q)
        BY <3>8, <3>12, TreeDir
      <3> QED
        BY <3>7, <3>13
    <2>2. CASE ~dir
      <3>1. /\ fs'.ino[i].type = "file" /\ fs'.ino[i].nlink = 1
        BY <1>5, <1>11, <1>18, <2>2
      <3>2. \A k \in Inum : k # i => fs'.ino[k] = fs.ino[k]
        BY <1>6, <1>11, <2>2
      <3>3. /\ fs'.ents[dp][name] = i
            /\ \A m \in Names : m # name => fs'.ents[dp][m] = fs.ents[dp][m]
            /\ \A a \in Inum : a # dp => fs'.ents[a] = fs.ents[a]
        BY <1>3, <1>11, <1>13, <1>18, <2>2
      <3>5. PICK m \in Names : m = name
        BY <1>2
      <3>6. PICK j \in Inum, k \in Inum : j = i /\ k = dp
        BY <1>2, <1>3
      <3>7. PICK P \in [Inum -> Nat], Q \in [Inum -> Nat] : P = PendingNow /\ Q = PendingNow'
        BY <1>16
      <3>8. /\ fs \in Disk /\ fs' \in Disk /\ SwapsNow' \subseteq SwapsNow
            /\ Tree(fs, SwapsNow, P) /\ \A z \in Inum : Q[z] <= P[z]
        BY <1>12, <1>16, <1>17, <3>7
      <3>9. /\ m # ".." /\ j # k /\ fs.ino[j].type = "free" /\ fs.ino[k].type = "dir"
            /\ fs.ents[k][m] = 0
            /\ fs'.ino[j].type = "file" /\ fs'.ino[j].nlink = 1
            /\ fs'.ents[k][m] = j
        BY <1>2, <1>3, <1>4, <2>0, <3>1, <3>3, <3>5, <3>6
      <3>10. /\ \A z \in Inum : z # j => fs'.ino[z] = fs.ino[z]
             /\ \A y \in Names : y # m => fs'.ents[k][y] = fs.ents[k][y]
             /\ \A a \in Inum : a # k => fs'.ents[a] = fs.ents[a]
        BY <3>2, <3>3, <3>5, <3>6
      <3>11. FileMade(fs, fs', j, k, m)
        BY <3>9, <3>10 DEF FileMade
      <3>12. Tree(fs', SwapsNow', Q)
        BY <3>8, <3>11, TreeFileMade
      <3> QED
        BY <3>7, <3>12
    <2> QED
      BY <2>1, <2>2
  <1>20. Good(cwd[p])' /\ fs'.ino[cwd'[p]].type = "dir"
    <2>1. cwd[p] \in Inum /\ Good(cwd[p]) /\ fs.ino[cwd[p]].type = "dir"
      BY AtHand
    <2>2. cwd[p] # i
      BY <1>3, <2>1
    <2>3. fs'.ino[cwd[p]].type = "dir"
      BY <1>6, <1>11, <2>1, <2>2
    <2>4. fs'.ents[cwd[p]][".."] # 0
      BY <1>4, <1>11, <1>12, <1>13, <2>1, <2>2 DEF Good
    <2> QED
      BY <1>14, <2>3, <2>4 DEF Good, Live
  <1>21. Good(at[p].cur)' /\ at'[p].cur = i
    BY <1>5, <1>7, <1>8, <1>11, <1>12, <1>13, <1>18, <1>2 DEF Good, Live
  <1>22. Safe(p)'
    <2>1. fs'.ino[dp].type # "free"
      BY <1>6, <1>11
    <2> QED
      BY <1>7, <1>8, <1>15, <1>20, <1>21, <2>1 DEF Safe, Live
  <1>23. Route(p)'
    BY <1>7, <1>8, <1>15 DEF Route
  <1>24. \A k \in Inum : Live(k) =>
           /\ fs'.ino[k].type = fs.ino[k].type
           /\ fs.ents[k][".."] # 0 => fs'.ents[k][".."] # 0
    <2> SUFFICES ASSUME NEW k \in Inum, k # i
                 PROVE  /\ fs'.ino[k].type = fs.ino[k].type
                        /\ fs.ents[k][".."] # 0 => fs'.ents[k][".."] # 0
      BY <1>3
    <2> QED
      BY <1>2, <1>4, <1>6, <1>11, <1>12, <1>13
  <1>25. \A k \in Inum : \/ Refers(p, k) \/ ~Live(k)
                         \/ (ref'[k] = ref[k] /\ fs'.ino[k].nlink = fs.ino[k].nlink)
    <2> SUFFICES ASSUME NEW k \in Inum, k # i, k # dp
                 PROVE  ref'[k] = ref[k] /\ fs'.ino[k].nlink = fs.ino[k].nlink
      BY <1>1, <1>3, AtParent DEF dp
    <2>1. ref \in [Inum -> Int]
      BY DEF IInv, Inv, Types
    <2> QED
      BY <1>11, <1>14, <2>1
  <1>26. \A k \in Inum : \/ fs'.ents[k] = fs.ents[k] \/ lock[k] \in {Nobody, p} \/ ~Live(k)
    BY <1>2, <1>3, <1>11, <1>13
  <1>27. /\ \A k \in Inum : lock'[k] \in {lock[k], Nobody, p}
         /\ \A k \in Inum : lock'[k] = p => Owns(p, k)'
    <2>1. lock \in [Inum -> Proc \cup {Nobody}]
      BY DEF IInv, Inv, Types
    <2>2. \A k \in Inum : k = i => Owns(p, k)'
      BY <1>15, <1>21 DEF Owns
    <2>3. \A k \in Inum : lock'[k] = p => k = i
      BY <1>2, <1>14, <2>1
    <2> QED
      BY <1>14, <2>1, <2>2, <2>3
  <1>28. at[p].pc # "user" /\ Stage(at[p]) # "end"
    BY <1>1, <1>2
  <1> QED
    BY <1>2, <1>7, <1>14, <1>19, <1>22, <1>23, <1>24, <1>25, <1>26, <1>27, <1>28, CallNames
-----------------------------------------------------------------------------
(* open, chdir, and the calls that end early.                               *)

\* A call that leaves the disk, gives its references back and ends.
LEMMA EndsNames ==
  ASSUME IInv, NInv, phase = "up", NEW p \in Proc, Types', phase' = "up",
         NEW ds \in Seq(Inum), PutThen(p, ds, "end"), \A k \in DOMAIN ds : Live(ds[k]),
         UNCHANGED <<fs, durable, ref, fref, fip>>, UNCHANGED <<ops, todo>>, at[p].pc # "user",
         \A q \in Proc : q # p => cwd'[q] = cwd[q],
         Good(cwd[p])', fs'.ino[cwd'[p]].type = "dir",
         \A i \in Inum : lock'[i] \in {lock[i], Nobody} /\ lock'[i] # p
  PROVE  NInv'
  <1>1. /\ at'[p].pc = "put" /\ at'[p].next = "end" /\ at'[p].drop = ds
        /\ \A q \in Proc : q # p => at'[q] = at[q]
    BY PutThenIs DEF IInv, Inv, Later
  <1>2. \A k \in DOMAIN ds : fs'.ino[ds[k]].type # "free"
    BY DEF Live
  <1>3. Safe(p)' /\ Route(p)' /\ ~Linking(at'[p]) /\ Stage(at'[p]) = "end"
    BY <1>1, <1>2, EndsSafe
  <1>4. \A q \in Proc : q # p => /\ at'[q] = at[q] /\ cwd'[q] = cwd[q]
                                 /\ q \in ops => q \in ops'
    BY <1>1
  <1>5. p \in ops'
    BY AtHand
  <1> QED
    BY <1>1, <1>3, <1>4, <1>5, QuietNames

\* What is known of a process at the inode that its path leads to.
LEMMA AtInode ==
  ASSUME IInv, NInv, phase = "up", NEW p \in Proc, at[p].pc \in {"found", "existing"},
         Ilock(at[p].cur)
  PROVE  /\ at[p].cur \in Inum /\ Good(at[p].cur) /\ Copy(at[p].cur) = fs.ino[at[p].cur]
         /\ phase' = "up" /\ lock[at[p].cur] = Nobody /\ Refers(p, at[p].cur)
         /\ Stage(at[p]) = at[p].pc /\ ~Puts(at[p]) /\ p \in ops /\ todo[p] # <<>>
         /\ at[p] \in Place /\ Types /\ \A k \in Inum : lock[k] # p
  <1>1. /\ Stage(at[p]) = at[p].pc /\ ~Puts(at[p])
    BY DEF Stage, Puts
  <1>2. /\ at[p].cur \in Inum /\ todo[p] # <<>> /\ at[p] \in Place
    BY <1>1, InCall DEF IInv, Placed
  <1>3. Safe(p) /\ p \in ops /\ Types
    BY AtHand
  <1>4. Good(at[p].cur) /\ Refers(p, at[p].cur)
    BY <1>1, <1>3 DEF Safe, Holding, Refers
  <1>5. Copy(at[p].cur) = fs.ino[at[p].cur]
    BY <1>2, CopyIsDisk DEF IInv, Inv
  <1>6. phase' = "up" /\ lock[at[p].cur] = Nobody
    BY <1>4, LockedIs DEF Good
  <1>7. \A k \in Inum : lock[k] # p
    BY <1>1, OwnsNone
  <1> QED
    BY <1>1, <1>2, <1>3, <1>4, <1>5, <1>6, <1>7

\* ip is locked and kept.
LEMMA KeepsInodeNames ==
  ASSUME IInv, NInv, phase = "up", NEW p \in Proc, Types', at[p].pc \in {"found", "existing"},
         NEW i, i = at[p].cur, Ilock(i), Look(i), Lock(p, i), At(p, "opened"),
         UNCHANGED <<durable, ref, ftableVars, callVars, crashes>>
  PROVE  NInv'
  <1>1. /\ i \in Inum /\ Good(i) /\ phase' = "up" /\ p \in ops /\ at[p] \in Place /\ Types
        /\ \A k \in Inum : lock[k] # p
        /\ Stage(at[p]) = at[p].pc
    BY AtInode
  <1>2. /\ at'[p].pc = "opened" /\ at'[p].cur = i
        /\ \A q \in Proc : q # p => at'[q] = at[q]
    BY <1>1, AtIs DEF Pcs, Later
  <1>3. Stage(at'[p]) = "opened" /\ ~Puts(at'[p]) /\ Keeps(at'[p]) /\ ~HasSecond(at'[p])
        /\ ~Linking(at'[p])
    BY <1>2 DEF Stage, Puts, Keeps, HasSecond, Linking
  <1>4. /\ UNCHANGED <<fs, durable, todo, fref, fip>> /\ cwd' = cwd /\ ops' = ops /\ ref' = ref
        /\ lock' = [lock EXCEPT ![i] = p]
    BY DEF Look, ftableVars, callVars, Lock
  <1>5. Good(cwd[p])' /\ fs'.ino[cwd'[p]].type = "dir"
    BY <1>4, AtHand DEF Good, Live
  <1>6. Good(at[p].cur)'
    BY <1>1, <1>2, <1>4 DEF Good, Live
  <1>7. Safe(p)' /\ Route(p)'
    BY <1>2, <1>3, <1>5, <1>6 DEF Safe, Route
  <1>8. /\ \A k \in Inum : lock'[k] \in {lock[k], Nobody, p}
        /\ \A k \in Inum : lock'[k] = p => Owns(p, k)'
    <2>1. lock \in [Inum -> Proc \cup {Nobody}]
      BY <1>1 DEF Types
    <2>2. \A k \in Inum : k = i => Owns(p, k)'
      BY <1>2, <1>3 DEF Owns
    <2>3. \A k \in Inum : lock'[k] = p => k = i
      BY <1>1, <1>4, <2>1
    <2> QED
      BY <1>4, <2>1, <2>2, <2>3
  <1> QED
    BY <1>1, <1>2, <1>3, <1>4, <1>7, <1>8, QuietNames

\* ip is put.
LEMMA GivesUpNames ==
  ASSUME IInv, NInv, phase = "up", NEW p \in Proc, Types', at[p].pc \in {"found", "existing"},
         NEW i, i = at[p].cur, Ilock(i), Look(i), PutThen(p, <<i>>, "end"),
         UNCHANGED <<durable, ref, lock, ftableVars, callVars, crashes>>
  PROVE  NInv'
  <1>1. /\ i \in Inum /\ Good(i) /\ phase' = "up" /\ p \in ops
        /\ \A k \in Inum : lock[k] # p
    BY AtInode
  <1>2. PICK ds \in Seq(Inum) : ds = <<i>>
    <2>1. <<i>> \in Seq(Inum)
      BY <1>1
    <2> QED
      BY <2>1
  <1>3. PutThen(p, ds, "end") /\ \A k \in DOMAIN ds : Live(ds[k])
    BY <1>1, <1>2 DEF Good
  <1>4. /\ UNCHANGED <<fs, durable, ref, fref, fip>> /\ UNCHANGED <<ops, todo>> /\ cwd' = cwd
        /\ lock' = lock
    BY DEF Look, ftableVars, callVars
  <1>5. Good(cwd[p])' /\ fs'.ino[cwd'[p]].type = "dir"
    BY <1>4, AtHand DEF Good, Live
  <1> QED
    BY <1>1, <1>3, <1>4, <1>5, EndsNames

\* create of a name that is there.
LEMMA ExistingNames ==
  ASSUME IInv, NInv, phase = "up", NEW p \in Proc, Types', Existing(p)
  PROVE  NInv'
  BY KeepsInodeNames, GivesUpNames DEF Existing

\* sys_open of a name that is there.
LEMMA OpenNames ==
  ASSUME IInv, NInv, phase = "up", NEW p \in Proc, Types', Open(p)
  PROVE  NInv'
  BY KeepsInodeNames, GivesUpNames DEF Open

\* What is known of a process that keeps an inode locked.
LEMMA AtOpened ==
  ASSUME IInv, NInv, phase = "up", NEW p \in Proc, at[p].pc = "opened"
  PROVE  /\ at[p].cur \in Inum /\ Good(at[p].cur) /\ Refers(p, at[p].cur) /\ p \in ops
         /\ lock[at[p].cur] = p /\ Stage(at[p]) = "opened" /\ ~Puts(at[p]) /\ at[p] \in Place
         /\ mem[at[p].cur] = fs.ino[at[p].cur] /\ Types
         /\ \A k \in Inum : lock[k] = p => k = at[p].cur
  <1>1. /\ Stage(at[p]) = "opened" /\ ~Puts(at[p]) /\ Keeps(at[p])
    BY DEF Stage, Puts, Keeps
  <1>2. at[p].cur \in Inum /\ at[p] \in Place
    BY <1>1, InCall DEF IInv, Placed
  <1>3. Safe(p) /\ p \in ops /\ Types
    BY AtHand
  <1>4. Good(at[p].cur) /\ Refers(p, at[p].cur)
    BY <1>1, <1>3 DEF Safe, Holding, Refers
  <1>5. lock[at[p].cur] = p /\ mem[at[p].cur] = fs.ino[at[p].cur]
    BY <1>1 DEF IInv, Inv, Locking, Locks, Copies
  <1>6. \A k \in Inum : lock[k] = p => k = at[p].cur
    BY <1>1, FileSystemAssumption DEF NInv, Owned, Owns, Reaps, Puts
  <1> QED
    BY <1>1, <1>2, <1>3, <1>4, <1>5, <1>6

\* sys_mkdir, and sys_open without a struct file.
LEMMA NotOpenedNames ==
  ASSUME IInv, NInv, phase = "up", NEW p \in Proc, Types', NotOpened(p)
  PROVE  NInv'
  <1>1. PICK i : i = at[p].cur
    OBVIOUS
  <1>2. /\ at[p].pc = "opened" /\ Unlock(i) /\ PutThen(p, <<i>>, "end")
        /\ UNCHANGED <<fs, durable, ref, valid, mem, ftableVars, callVars, phase, crashes>>
    BY <1>1 DEF NotOpened
  <1>3. /\ i \in Inum /\ Good(i) /\ Types /\ \A k \in Inum : lock[k] = p => k = i
    BY <1>1, <1>2, AtOpened
  <1>4. PICK ds \in Seq(Inum) : ds = <<i>>
    <2>1. <<i>> \in Seq(Inum)
      BY <1>3
    <2> QED
      BY <2>1
  <1>5. PutThen(p, ds, "end") /\ \A k \in DOMAIN ds : Live(ds[k])
    BY <1>2, <1>3, <1>4 DEF Good
  <1>6. /\ UNCHANGED <<fs, durable, ref, fref, fip>> /\ UNCHANGED <<ops, todo>> /\ cwd' = cwd
        /\ lock' = [lock EXCEPT ![i] = Nobody] /\ phase' = "up"
    BY <1>2 DEF ftableVars, callVars, Unlock
  <1>7. Good(cwd[p])' /\ fs'.ino[cwd'[p]].type = "dir"
    BY <1>6, AtHand DEF Good, Live
  <1>8. \A k \in Inum : lock'[k] \in {lock[k], Nobody} /\ lock'[k] # p
    BY <1>3, <1>6, FileSystemAssumption DEF Types
  <1> QED
    BY <1>2, <1>5, <1>6, <1>7, <1>8, EndsNames

\* sys_chdir.
LEMMA ChdirNames ==
  ASSUME IInv, NInv, phase = "up", NEW p \in Proc, Types', Chdir(p)
  PROVE  NInv'
  <1>1. PICK i, c : i = at[p].cur /\ c = cwd[p]
    OBVIOUS
  <1>2. at[p].pc = "found" /\ Ilock(i) /\ Look(i)
        /\ UNCHANGED <<durable, ref, lock, fref, fip, ofile, swapFile, callVars, crashes>>
    BY <1>1 DEF Chdir
  <1>3. CASE PutThen(p, <<i>>, "end") /\ UNCHANGED cwd
    BY <1>1, <1>2, <1>3, GivesUpNames DEF ftableVars
  <1>4. CASE Copy(i).type = "dir" /\ cwd' = [cwd EXCEPT ![p] = i] /\ PutThen(p, <<c>>, "end")
    <2>1. /\ i \in Inum /\ Good(i) /\ phase' = "up" /\ Copy(i) = fs.ino[i] /\ Types
          /\ \A k \in Inum : lock[k] # p
      BY <1>1, <1>2, AtInode
    <2>2. c \in Inum /\ Good(c)
      BY <1>1, AtHand
    <2>3. PICK ds \in Seq(Inum) : ds = <<c>>
      <3>1. <<c>> \in Seq(Inum)
        BY <2>2
      <3> QED
        BY <3>1
    <2>4. PutThen(p, ds, "end") /\ \A k \in DOMAIN ds : Live(ds[k])
      BY <1>4, <2>2, <2>3 DEF Good
    <2>5. /\ UNCHANGED <<fs, durable, ref, fref, fip>> /\ UNCHANGED <<ops, todo>>
          /\ lock' = lock
      BY <1>2 DEF Look, callVars
    <2>6. cwd'[p] = i /\ \A q \in Proc : q # p => cwd'[q] = cwd[q]
      BY <1>4, <2>1 DEF Types
    <2>7. Good(cwd[p])' /\ fs'.ino[cwd'[p]].type = "dir"
      BY <1>4, <2>1, <2>5, <2>6 DEF Good, Live
    <2> QED
      BY <1>2, <2>1, <2>4, <2>5, <2>6, <2>7, EndsNames
  <1> QED
    BY <1>1, <1>3, <1>4 DEF Chdir
-----------------------------------------------------------------------------
(* unlink, and the exit of a process with a swap file.                      *)

\* The directory is kept, with the inode that the name leads to.
LEMMA VictimNames ==
  ASSUME IInv, NInv, phase = "up", NEW p \in Proc, Types', Victim(p)
  PROVE  NInv'
  <1>1. PICK dp, name, i : /\ dp = at[p].cur /\ name = Head(at[p].path)
                           /\ i = fs.ents[dp][name]
    OBVIOUS
  <1>2. /\ at[p].pc = "parent" /\ Ilock(dp) /\ Look(dp) /\ Call(p).op \in {"unlink", "exit"}
        /\ UNCHANGED <<durable, ftableVars, callVars, crashes>>
    BY <1>1 DEF Victim
  <1>3. /\ dp \in Inum /\ Good(dp) /\ fs.ino[dp].type = "dir" /\ phase' = "up" /\ p \in ops
        /\ \A k \in Inum : lock[k] # p
        /\ Stage(at[p]) = "parent" /\ at[p] \in Place /\ at[p].path # <<>>
    BY <1>1, <1>2, AtParent
  <1>4. /\ UNCHANGED <<fs, durable, todo, fref, fip>> /\ UNCHANGED <<ops, todo>> /\ cwd' = cwd
        /\ ops' = ops
    BY <1>2 DEF Look, ftableVars, callVars
  <1>5. Good(cwd[p])' /\ fs'.ino[cwd'[p]].type = "dir"
    BY <1>4, AtHand DEF Good, Live
  <1>6. CASE PutThen(p, <<dp>>, "end") /\ UNCHANGED <<ref, lock>>
    <2>1. PICK ds \in Seq(Inum) : ds = <<dp>>
      <3>1. <<dp>> \in Seq(Inum)
        BY <1>3
      <3> QED
        BY <3>1
    <2>2. PutThen(p, ds, "end") /\ \A k \in DOMAIN ds : Live(ds[k])
      BY <1>3, <1>6, <2>1 DEF Good
    <2> QED
      BY <1>2, <1>3, <1>4, <1>5, <1>6, <2>2, EndsNames
  <1>7. CASE /\ i # 0 /\ name # ".." /\ Iget(i) /\ Lock(p, dp)
             /\ Goto(p, [at[p] EXCEPT !.pc = "victim", !.ip = i])
    <2>1. ~Strays(p)
      BY <1>1, <1>2, <1>7 DEF Strays
    <2>2. i \in Inum /\ fs.ino[i].nlink # 0 /\ Good(i)
      BY <1>1, <1>2, <1>7, <2>1, LastLeads
    <2>3. /\ at'[p] = [at[p] EXCEPT !.pc = "victim", !.ip = i]
          /\ \A q \in Proc : q # p => at'[q] = at[q]
      BY <1>7 DEF Goto, IInv, Inv, Types
    <2>4. /\ at'[p].pc = "victim" /\ at'[p].cur = dp /\ at'[p].ip = i
          /\ at'[p].path = at[p].path
      BY <1>1, <1>3, <2>3 DEF Place
    <2>5. /\ Stage(at'[p]) = "victim" /\ ~Puts(at'[p]) /\ Keeps(at'[p]) /\ ~Linking(at'[p])
      BY <2>4 DEF Stage, Puts, Keeps, Linking
    <2>6. Safe(p)'
      <3>1. Good(at[p].cur)' /\ Live(at[p].ip)' /\ fs'.ino[dp].type = "dir"
        BY <1>3, <1>4, <2>2, <2>4 DEF Good, Live
      <3> QED
        BY <1>5, <2>4, <2>5, <3>1 DEF Safe
    <2>7. Route(p)'
      <3>1. Call(p)' = Call(p)
        BY <1>4 DEF Call
      <3>2. IF Swapping(Call(p)) THEN at[p].cur = ROOTINO /\ at[p].path = <<SwapName[p]>>
            ELSE at[p].path \in Seq(Steps)
        BY <1>3, AtHand DEF Route
      <3> QED
        BY <1>1, <1>2, <1>3, <1>4, <1>7, <2>4, <2>5, <3>1, <3>2 DEF Route
    <2>8. lock' = [lock EXCEPT ![dp] = p] /\ ref' = [ref EXCEPT ![i] = @ + 1]
      BY <1>7 DEF Lock, Iget
    <2>9. /\ \A k \in Inum : lock'[k] \in {lock[k], Nobody, p}
          /\ \A k \in Inum : lock'[k] = p => Owns(p, k)'
      <3>1. lock \in [Inum -> Proc \cup {Nobody}]
        BY DEF IInv, Inv, Types
      <3>2. \A k \in Inum : k = dp => Owns(p, k)'
        BY <2>4, <2>5 DEF Owns
      <3>3. \A k \in Inum : lock'[k] = p => k = dp
        BY <1>3, <2>8, <3>1
      <3> QED
        BY <2>8, <3>1, <3>2, <3>3
    <2>10. \A k \in Inum : fs.ino[k].nlink # 0 \/ ref'[k] = ref[k]
      BY <2>2, <2>8 DEF IInv, Inv, Types
    <2> QED
      BY <1>3, <1>4, <2>3, <2>5, <2>6, <2>7, <2>9, <2>10, QuietNames
  <1> QED
    BY <1>1, <1>6, <1>7 DEF Victim

\* What is known of a process that has locked the directory it unlinks from.
LEMMA AtVictim ==
  ASSUME IInv, NInv, phase = "up", NEW p \in Proc, at[p].pc = "victim", Ilock(at[p].ip)
  PROVE  /\ at[p].cur \in Inum /\ Good(at[p].cur) /\ fs.ino[at[p].cur].type = "dir"
         /\ at[p].ip \in Inum /\ Live(at[p].ip) /\ at[p].ip # at[p].cur
         /\ at[p] \in Place /\ p \in ops /\ todo[p] # <<>> /\ Types
         /\ Refers(p, at[p].cur) /\ Refers(p, at[p].ip)
         /\ Stage(at[p]) = "victim" /\ ~Puts(at[p]) /\ phase' = "up"
         /\ lock[at[p].cur] = p /\ lock[at[p].ip] = Nobody
         /\ \A k \in Inum : lock[k] = p => k = at[p].cur
         /\ Copy(at[p].ip) = fs.ino[at[p].ip] /\ mem[at[p].cur] = fs.ino[at[p].cur]
         /\ Head(at[p].path) # ".." /\ fs.ents[at[p].cur][Head(at[p].path)] = at[p].ip
         /\ IF Call(p).op = "exit" THEN at[p].cur = ROOTINO /\ Head(at[p].path) = SwapName[p]
            ELSE Head(at[p].path) \in UserNames
  <1>1. /\ Stage(at[p]) = "victim" /\ ~Puts(at[p]) /\ Keeps(at[p]) /\ HasSecond(at[p])
    BY DEF Stage, Puts, Keeps, HasSecond
  <1>2. at[p].cur \in Inum /\ at[p].ip \in Inum /\ at[p] \in Place /\ todo[p] # <<>>
    BY <1>1, InCall DEF IInv, Placed
  <1>3. Safe(p) /\ Route(p) /\ p \in ops /\ Types
    BY AtHand
  <1>4. /\ Good(at[p].cur) /\ Refers(p, at[p].cur) /\ Refers(p, at[p].ip)
        /\ fs.ino[at[p].cur].type = "dir" /\ Live(at[p].ip)
    BY <1>1, <1>3 DEF Safe, Holding, Refers
  <1>5. /\ lock[at[p].cur] = p /\ mem[at[p].cur] = fs.ino[at[p].cur]
    BY <1>1 DEF IInv, Inv, Locking, Locks, Copies
  <1>6. \A k \in Inum : lock[k] = p => k = at[p].cur
    BY <1>1, FileSystemAssumption DEF NInv, Owned, Owns, Reaps, Puts
  <1>7. phase' = "up" /\ lock[at[p].ip] = Nobody
    BY <1>4, LockedIs
  <1>8. at[p].ip # at[p].cur
    BY <1>5, <1>7, FileSystemAssumption
  <1>9. Copy(at[p].ip) = fs.ino[at[p].ip]
    BY <1>2, CopyIsDisk DEF IInv, Inv
  <1>10. Head(at[p].path) # ".." /\ fs.ents[at[p].cur][Head(at[p].path)] = at[p].ip
         /\ Call(p).op \in {"unlink", "exit"} /\ at[p].path # <<>>
    BY <1>3 DEF Route
  <1>11. IF Swapping(Call(p)) THEN at[p].cur = ROOTINO /\ at[p].path = <<SwapName[p]>>
         ELSE at[p].path \in Seq(Steps)
    BY <1>1, <1>3 DEF Route
  <1>12. CASE Call(p).op = "exit"
    <2>1. Head(at[p].path) = SwapName[p] /\ at[p].cur = ROOTINO
      BY <1>11, <1>12 DEF Swapping
    <2> QED
      BY <1>1, <1>2, <1>3, <1>4, <1>5, <1>6, <1>7, <1>8, <1>9, <1>10, <1>12, <2>1
  <1>13. CASE Call(p).op # "exit"
    <2>1. at[p].path \in Seq(Steps)
      BY <1>10, <1>11, <1>13 DEF Swapping
    <2>2. Head(at[p].path) \in UserNames
      BY <1>10, <2>1 DEF Steps
    <2> QED
      BY <1>1, <1>2, <1>3, <1>4, <1>5, <1>6, <1>7, <1>8, <1>9, <1>10, <1>13, <2>2
  <1> QED
    BY <1>12, <1>13

\* The name of the file i is taken out of dp.
FileGone(d, e, i, dp, name) ==
  /\ d.ino[i].type = "file" /\ d.ino[dp].type = "dir" /\ d.ents[dp][name] = i
  /\ e.ino[i].type = "file" /\ e.ino[i].nlink = d.ino[i].nlink - 1
  /\ \A k \in Inum : k # i => e.ino[k] = d.ino[k]
  /\ e.ents[dp][name] = 0
  /\ \A n \in Names : n # name => e.ents[dp][n] = d.ents[dp][n]
  /\ \A a \in Inum : a # dp => e.ents[a] = d.ents[a]

\* The file has one link and one name less.
LEMMA TreeFileGone ==
  ASSUME NEW d \in Disk, NEW e \in Disk, NEW S, NEW T, T \subseteq S,
         NEW pend \in [Inum -> Nat], NEW pend2 \in [Inum -> Nat], Tree(d, S, pend),
         NEW i \in Inum, NEW dp \in Inum, NEW name \in UserNames, FileGone(d, e, i, dp, name),
         \A k \in Inum : pend2[k] <= pend[k]
  PROVE  Tree(e, T, pend2)
  <1> USE DEF FileGone
  <1>1. /\ 0 \notin Inum /\ ".." \in Names /\ name \in Names /\ name # ".." /\ Blank(d)
    BY DiskTyped, FileSystemAssumption DEF Steps, UserNames, Tree
  <1>2. <<dp, name>> \in To(d, S, i)
    BY <1>1 DEF To, Counts
  <1>3. To(e, T, i) \subseteq To(d, S, i) \ {<<dp, name>>}
    <2> SUFFICES ASSUME NEW y \in To(e, T, i)
                 PROVE  y \in To(d, S, i) /\ y # <<dp, name>>
      OBVIOUS
    <2>1. y \in Inum \X Names /\ e.ents[y[1]][y[2]] = i /\ Counts(e, T, y)
      BY DEF To
    <2>2. y # <<dp, name>> /\ d.ents[y[1]][y[2]] = i
      <3>1. y[1] \in Inum /\ y[2] \in Names /\ y = <<y[1], y[2]>>
        BY <2>1
      <3>2. ~(y[1] = dp /\ y[2] = name)
        BY <1>1, <2>1
      <3> QED
        BY <2>1, <3>1, <3>2
    <2>3. e.ino[y[1]].nlink > 0 => d.ino[y[1]].nlink > 0
      <3>1. d.ino[i].nlink \in Int
        BY DiskTyped
      <3> QED
        BY <2>1, <3>1
    <2>4. Counts(d, S, y)
      BY <2>1, <2>3 DEF Counts
    <2> QED
      BY <2>1, <2>2, <2>4 DEF To
  <1>4. Cardinality(To(e, T, i)) <= Cardinality(To(d, S, i)) - 1
    BY <1>2, <1>3, ToOneFewer
  <1>5. e.ino[i].nlink >= Cardinality(To(e, T, i)) + pend2[i]
    <2>1. d.ino[i].nlink >= Base(i) + Cardinality(To(d, S, i)) + pend[i]
      BY DEF Tree, Covered
    <2>2. /\ Base(i) \in Nat /\ pend[i] \in Nat /\ pend2[i] \in Nat /\ pend2[i] <= pend[i]
          /\ d.ino[i].nlink \in Int
      BY DiskTyped DEF Base
    <2>3. Cardinality(To(d, S, i)) \in Nat /\ Cardinality(To(e, T, i)) \in Nat
      BY ToFinite
    <2> QED
      BY <1>4, <2>1, <2>2, <2>3
  <1>6. \A k \in Inum : k # i =>
          /\ e.ino[k].type = d.ino[k].type /\ e.ino[k].nlink = d.ino[k].nlink
          /\ e.ino[k].type = "free" => e.ino[k] = NoInode
          /\ pend2[k] <= pend[k]
    BY <1>1 DEF Blank
  <1>7. \A a \in Inum :
          /\ e.ents[a][".."] = d.ents[a][".."]
          /\ d.ino[a].type # "dir" => e.ents[a] = d.ents[a]
          /\ \A n \in Names : e.ents[a][n] # d.ents[a][n] =>
               e.ents[a][n] \in {0, i} /\ d.ents[a][n] \in {0, i}
    BY <1>1
  <1> QED
    BY <1>5, <1>6, <1>7, TreeFile

\* The swap file i of p loses its link and keeps its entry.
SwapGone(d, e, p, i) ==
  /\ d.ents[ROOTINO][SwapName[p]] = i /\ d.ino[i].type = "file"
  /\ e.ino[i].type = "file" /\ e.ino[i].nlink = d.ino[i].nlink - 1
  /\ \A k \in Inum : k # i => e.ino[k] = d.ino[k]
  /\ e.ents = d.ents

\* It has one link less, and its name is no longer p's.
LEMMA TreeSwapGone ==
  ASSUME Hygiene, NEW d \in Disk, NEW e \in Disk, NEW S \in SUBSET Proc, NEW T, T \subseteq S,
         NEW pend \in [Inum -> Nat], NEW pend2 \in [Inum -> Nat], Tree(d, S, pend),
         NEW p \in S, p \notin T, NEW i \in Inum, SwapGone(d, e, p, i),
         \A k \in Inum : pend2[k] <= pend[k]
  PROVE  Tree(e, T, pend2)
  <1> USE DEF SwapGone
  <1> DEFINE z == <<ROOTINO, SwapName[p]>>
  <1>1. /\ SwapName[p] \in Names /\ SwapName[p] \notin UserNames /\ SwapName[p] # ".."
        /\ ROOTINO \in Inum /\ 0 \notin Inum /\ Blank(d)
    BY FileSystemAssumption DEF Names, UserNames, Range, Inum, ROOTINO, Tree
  <1>2. z \in To(d, S, i)
    BY <1>1 DEF To, Counts
  <1>3. To(e, T, i) \subseteq To(d, S, i) \ {z}
    <2> SUFFICES ASSUME NEW y \in To(e, T, i)
                 PROVE  y \in To(d, S, i) /\ y # z
      OBVIOUS
    <2>1. y \in Inum \X Names /\ d.ents[y[1]][y[2]] = i /\ Counts(e, T, y)
      BY DEF To
    <2>2. y # z
      <3> SUFFICES ASSUME y = z
                   PROVE  FALSE
        OBVIOUS
      <3>1. y[1] = ROOTINO /\ y[2] = SwapName[p]
        OBVIOUS
      <3>2. PICK q \in T : SwapName[p] = SwapName[q]
        BY <1>1, <2>1, <3>1 DEF Counts
      <3> QED
        BY <3>2 DEF Hygiene
    <2>3. e.ino[y[1]].nlink > 0 => d.ino[y[1]].nlink > 0
      <3>1. d.ino[i].nlink \in Int
        BY DiskTyped
      <3> QED
        BY <2>1, <3>1
    <2>4. Counts(d, S, y)
      BY <2>1, <2>3 DEF Counts
    <2> QED
      BY <2>1, <2>2, <2>4 DEF To
  <1>4. Cardinality(To(e, T, i)) <= Cardinality(To(d, S, i)) - 1
    BY <1>2, <1>3, ToOneFewer
  <1>5. e.ino[i].nlink >= Cardinality(To(e, T, i)) + pend2[i]
    <2>1. d.ino[i].nlink >= Base(i) + Cardinality(To(d, S, i)) + pend[i]
      BY DEF Tree, Covered
    <2>2. /\ Base(i) \in Nat /\ pend[i] \in Nat /\ pend2[i] \in Nat /\ pend2[i] <= pend[i]
          /\ d.ino[i].nlink \in Int
      BY DiskTyped DEF Base
    <2>3. Cardinality(To(d, S, i)) \in Nat /\ Cardinality(To(e, T, i)) \in Nat
      BY ToFinite
    <2> QED
      BY <1>4, <2>1, <2>2, <2>3
  <1>6. \A k \in Inum : k # i =>
          /\ e.ino[k].type = d.ino[k].type /\ e.ino[k].nlink = d.ino[k].nlink
          /\ e.ino[k].type = "free" => e.ino[k] = NoInode
          /\ pend2[k] <= pend[k]
    BY <1>1 DEF Blank
  <1>7. \A a \in Inum :
          /\ e.ents[a][".."] = d.ents[a][".."]
          /\ d.ino[a].type # "dir" => e.ents[a] = d.ents[a]
          /\ \A n \in Names : e.ents[a][n] # d.ents[a][n] =>
               e.ents[a][n] \in {0, i} /\ d.ents[a][n] \in {0, i}
    OBVIOUS
  <1> QED
    BY <1>5, <1>6, <1>7, TreeFile

\* What TakenBack leaves.
LEMMA TakenBackIs ==
  ASSUME NEW x \in Inode
  PROVE  TakenBack(x).type = x.type /\ TakenBack(x).nlink = x.nlink - 1
  BY DEF TakenBack, Inode

\* sys_unlink takes the name out, when it is not that of a directory with entries.
LEMMA UnlinkNames ==
  ASSUME IInv, NInv, phase = "up", NEW p \in Proc, Types', Unlink(p)
  PROVE  NInv'
  <1>1. PICK dp, name, i : dp = at[p].cur /\ name = Head(at[p].path) /\ i = at[p].ip
    OBVIOUS
  <1> DEFINE dir == Copy(i).type = "dir"
             x == TakenBack(Copy(i))
             y == IF dir THEN TakenBack(mem[dp]) ELSE mem[dp]
  <1>2. /\ at[p].pc = "victim" /\ Call(p).op = "unlink" /\ Ilock(i) /\ Unlock(dp)
        /\ UNCHANGED <<durable, ref, ftableVars, callVars, crashes>>
    BY <1>1 DEF Unlink
  <1>3. /\ dp \in Inum /\ Good(dp) /\ fs.ino[dp].type = "dir"
        /\ i \in Inum /\ Live(i) /\ i # dp /\ p \in ops /\ Types
        /\ Refers(p, dp) /\ Refers(p, i)
        /\ Stage(at[p]) = "victim" /\ phase' = "up"
        /\ lock[dp] = p /\ \A k \in Inum : lock[k] = p => k = dp
        /\ Copy(i) = fs.ino[i] /\ mem[dp] = fs.ino[dp]
        /\ name # ".." /\ fs.ents[dp][name] = i /\ name \in UserNames
    BY <1>1, <1>2, AtVictim
  <1>4. /\ UNCHANGED <<durable, fref, fip>> /\ UNCHANGED <<ops, todo>> /\ cwd' = cwd /\ ref' = ref
        /\ lock' = [lock EXCEPT ![dp] = Nobody]
    BY <1>2 DEF ftableVars, callVars, Unlock
  <1>5. \A k \in Inum : lock'[k] \in {lock[k], Nobody} /\ lock'[k] # p
    BY <1>3, <1>4, FileSystemAssumption DEF Types
  <1>6. <<dp, i>> \in Seq(Inum) /\ <<i, dp>> \in Seq(Inum)
    BY <1>3
  <1> HIDE DEF dir, x, y
  <1>7. CASE Look(i) /\ PutThen(p, <<i, dp>>, "end")
    <2>1. fs' = fs
      BY <1>7 DEF Look
    <2>2. PICK ds \in Seq(Inum) : ds = <<i, dp>>
      BY <1>6
    <2>3. PutThen(p, ds, "end") /\ \A k \in DOMAIN ds : Live(ds[k])
      BY <1>3, <1>7, <2>2 DEF Good
    <2>4. Good(cwd[p])' /\ fs'.ino[cwd'[p]].type = "dir"
      BY <1>4, <2>1, AtHand DEF Good, Live
    <2> QED
      BY <1>2, <1>3, <1>4, <1>5, <2>1, <2>3, <2>4, EndsNames
  <1>8. CASE /\ dir => Empty(i)
             /\ Write(Two(dp, y, i, x), [fs.ents EXCEPT ![dp][name] = 0], fs.used)
             /\ PutThen(p, <<dp, i>>, "end")
    <2>1. /\ fs \in Disk /\ fs' \in Disk /\ Tree(fs, SwapsNow, PendingNow) /\ Blank(fs)
          /\ ".." \in Names /\ 0 \notin Inum /\ name \in Names
          /\ fs.ents \in [Inum -> [Names -> Inum \cup {0}]]
          /\ fs.ino[i] \in Inode /\ fs.ino[dp] \in Inode
      BY <1>3, AtHand, DiskTyped DEF Types, Tree, Disk, Steps
    <2>2. PICK ents : ents = [fs.ents EXCEPT ![dp][name] = 0]
      OBVIOUS
    <2>3. /\ ents[dp][name] = 0 /\ \A n \in Names : n # name => ents[dp][n] = fs.ents[dp][n]
          /\ \A a \in Inum : a # dp => ents[a] = fs.ents[a]
      BY <1>3, <2>1, <2>2
    <2>4. /\ fs'.ino[dp] = y /\ fs'.ino[i] = x /\ fs'.ents = ents
          /\ \A k \in Inum : k # dp /\ k # i => fs'.ino[k] = fs.ino[k]
      BY <1>3, <1>8, <2>2, TwoWritten
    <2>5. /\ x.type = fs.ino[i].type /\ x.nlink = fs.ino[i].nlink - 1 /\ y.type = "dir"
          /\ dir => y.nlink = fs.ino[dp].nlink - 1
          /\ ~dir => y = fs.ino[dp]
          /\ dir <=> fs.ino[i].type = "dir"
      BY <1>3, <2>1, TakenBackIs DEF x, y, dir
    <2>6. PICK ds \in Seq(Inum) : ds = <<dp, i>>
      BY <1>6
    <2>7. /\ at'[p].pc = "put" /\ at'[p].next = "end" /\ at'[p].drop = ds
          /\ \A q \in Proc : q # p => at'[q] = at[q]
      BY <1>3, <1>8, <2>6, PutThenIs DEF Later
    <2>8. \A k \in Inum : /\ fs'.ino[k].type = fs.ino[k].type
                          /\ fs'.ents[k][".."] = fs.ents[k][".."]
      <3>1. \A k \in Inum : fs'.ino[k].type = fs.ino[k].type
        BY <1>3, <2>4, <2>5
      <3>2. \A k \in Inum : fs'.ents[k][".."] = fs.ents[k][".."]
        BY <1>3, <2>1, <2>3, <2>4
      <3> QED
        BY <3>1, <3>2
    <2>9. Good(cwd[p])' /\ fs'.ino[cwd'[p]].type = "dir"
      BY <1>4, <2>8, AtHand DEF Good, Live
    <2>10. \A k \in DOMAIN ds : fs'.ino[ds[k]].type # "free"
      BY <1>3, <2>6, <2>8 DEF Good, Live
    <2>11. Safe(p)' /\ Route(p)' /\ ~Linking(at'[p]) /\ Stage(at'[p]) = "end"
      BY <2>7, <2>9, <2>10, EndsSafe
    <2>12. /\ \A k \in Inum : PendingNow'[k] <= PendingNow[k]
           /\ PendingNow \in [Inum -> Nat] /\ PendingNow' \in [Inum -> Nat]
      BY <2>7, <2>11, PendingKept
    <2>13. SwapsNow' \subseteq SwapsNow
      BY <1>3, <1>4, <2>7, SwapsKept
    <2>14. Tree(fs', SwapsNow', PendingNow')
      <3>1. CASE dir
        <4>1. \A n \in Name : fs.ents[i][n] = 0
          BY <1>8, <3>1 DEF Empty
        <4>2. /\ fs.ino[i].type = "dir" /\ fs'.ino[i].type = "dir"
              /\ fs'.ino[i].nlink = fs.ino[i].nlink - 1
              /\ fs'.ino[dp].type = "dir" /\ fs'.ino[dp].nlink = fs.ino[dp].nlink - 1
              /\ \A k \in Inum : k # i /\ k # dp => fs'.ino[k] = fs.ino[k]
          BY <2>4, <2>5, <3>1
        <4>3. /\ fs'.ents[dp][name] = 0
              /\ \A a \in Inum : \A n \in Names :
                   ~(a = dp /\ n = name) => fs'.ents[a][n] = fs.ents[a][n]
              /\ \A a \in Inum : a # dp => fs'.ents[a] = fs.ents[a]
          BY <2>3, <2>4
        <4>4. DirGone(fs, fs', i, dp, name)
          BY <1>3, <4>1, <4>2, <4>3 DEF DirGone
        <4> QED
          BY <1>3, <2>1, <2>12, <2>13, <4>4, TreeUndir
      <3>2. CASE ~dir
        <4>1. fs.ino[i].type = "file"
          BY <1>3, <2>1, <2>5, <3>2 DEF Live, Inode
        <4>2. FileGone(fs, fs', i, dp, name)
          BY <1>3, <2>3, <2>4, <2>5, <3>2, <4>1 DEF FileGone
        <4> QED
          BY <1>3, <2>1, <2>12, <2>13, <4>2, TreeFileGone
      <3> QED
        BY <3>1, <3>2
    <2>15. \A k \in Inum : \/ Refers(p, k)
                           \/ (ref'[k] = ref[k] /\ fs'.ino[k].nlink = fs.ino[k].nlink)
      BY <1>3, <1>4, <2>4
    <2>16. \A k \in Inum : fs'.ents[k] = fs.ents[k] \/ lock[k] \in {Nobody, p}
      BY <1>3, <2>3, <2>4
    <2>17. at[p].pc # "user" /\ Stage(at[p]) # "end"
      BY <1>2, <1>3
    <2>18. \A q \in Proc : q # p => at'[q] = at[q] /\ cwd'[q] = cwd[q]
      BY <1>4, <2>7
    <2> QED
      BY <1>3, <1>4, <1>5, <2>8, <2>11, <2>14, <2>15, <2>16, <2>17, <2>18, CallNames
  <1>9. \/ Look(i) /\ PutThen(p, <<i, dp>>, "end")
        \/ /\ dir => Empty(i)
           /\ Write(Two(dp, y, i, x), [fs.ents EXCEPT ![dp][name] = 0], fs.used)
           /\ PutThen(p, <<dp, i>>, "end")
    BY <1>1 DEF Unlink, dir, x, y
  <1> QED
    BY <1>7, <1>8, <1>9

\* kexit takes the swap file's link back.
LEMMA SwapUnlinkNames ==
  ASSUME Hygiene, IInv, NInv, phase = "up", NEW p \in Proc, Types', SwapUnlink(p)
  PROVE  NInv'
  <1>1. PICK dp, i : dp = at[p].cur /\ i = at[p].ip
    OBVIOUS
  <1>2. PICK x : x = TakenBack(Copy(i))
    OBVIOUS
  <1>3. /\ at[p].pc = "victim" /\ Call(p).op = "exit" /\ Ilock(i) /\ Unlock(dp)
        /\ Save(One(i, x)) /\ PutThen(p, <<i, dp>>, "end")
        /\ UNCHANGED <<durable, ref, ftableVars, callVars, crashes>>
    BY <1>1, <1>2 DEF SwapUnlink
  <1>4. /\ dp \in Inum /\ Good(dp) /\ fs.ino[dp].type = "dir"
        /\ i \in Inum /\ Live(i) /\ i # dp /\ p \in ops /\ Types
        /\ Refers(p, dp) /\ Refers(p, i) /\ todo[p] # <<>>
        /\ Stage(at[p]) = "victim" /\ phase' = "up"
        /\ lock[dp] = p /\ \A k \in Inum : lock[k] = p => k = dp
        /\ Copy(i) = fs.ino[i]
        /\ fs.ents[ROOTINO][SwapName[p]] = i
    BY <1>1, <1>3, AtVictim
  <1>5. /\ UNCHANGED <<durable, fref, fip>> /\ UNCHANGED <<ops, todo>> /\ cwd' = cwd /\ ref' = ref
        /\ lock' = [lock EXCEPT ![dp] = Nobody]
    BY <1>3 DEF ftableVars, callVars, Unlock
  <1>6. \A k \in Inum : lock'[k] \in {lock[k], Nobody} /\ lock'[k] # p
    BY <1>4, <1>5, FileSystemAssumption DEF Types
  <1>7. /\ fs \in Disk /\ fs' \in Disk /\ Tree(fs, SwapsNow, PendingNow)
        /\ PendingNow \in [Inum -> Nat] /\ SwapsNow \in SUBSET Proc
        /\ fs.ino[i] \in Inode /\ 0 \notin Inum
    BY <1>4, AtHand, DiskTyped DEF Types
  <1>8. p \in SwapsNow
    BY <1>3, <1>4, StillSwaps DEF Swapping
  <1>9. fs.ino[i].type = "file"
    <2>1. i # 0
      BY <1>4, <1>7
    <2> QED
      BY <1>4, <1>7, <1>8, <2>1, SwapLeads
  <1>10. /\ fs'.ino[i] = x /\ fs'.ents = fs.ents
         /\ \A k \in Inum : k # i => fs'.ino[k] = fs.ino[k]
    BY <1>3, <1>4, OneWritten DEF Save
  <1>11. x.type = "file" /\ x.nlink = fs.ino[i].nlink - 1
    BY <1>2, <1>4, <1>7, <1>9, TakenBackIs
  <1>12. PICK ds \in Seq(Inum) : ds = <<i, dp>>
    <2>1. <<i, dp>> \in Seq(Inum)
      BY <1>4
    <2> QED
      BY <2>1
  <1>13. /\ at'[p].pc = "put" /\ at'[p].next = "end" /\ at'[p].drop = ds
         /\ \A q \in Proc : q # p => at'[q] = at[q]
    BY <1>3, <1>4, <1>12, PutThenIs DEF Later
  <1>14. \A k \in Inum : fs'.ino[k].type = fs.ino[k].type
    BY <1>9, <1>10, <1>11
  <1>15. Good(cwd[p])' /\ fs'.ino[cwd'[p]].type = "dir"
    BY <1>5, <1>10, <1>14, AtHand DEF Good, Live
  <1>16. \A k \in DOMAIN ds : fs'.ino[ds[k]].type # "free"
    BY <1>4, <1>12, <1>14 DEF Good, Live
  <1>17. Safe(p)' /\ Route(p)' /\ ~Linking(at'[p]) /\ Stage(at'[p]) = "end"
    BY <1>13, <1>15, <1>16, EndsSafe
  <1>18. /\ \A k \in Inum : PendingNow'[k] <= PendingNow[k]
         /\ PendingNow' \in [Inum -> Nat]
    BY <1>13, <1>17, PendingKept
  <1>19. SwapsNow' \subseteq SwapsNow
    BY <1>4, <1>5, <1>13, SwapsKept
  <1>20. p \notin SwapsNow'
    <2>1. Call(p)' = Call(p)
      BY <1>5 DEF Call
    <2>2. Gone(p)'
      BY <1>3, <1>13, <1>17, <2>1 DEF Gone
    <2> QED
      BY <2>2 DEF SwapsNow
  <1>21. Tree(fs', SwapsNow', PendingNow')
    <2>1. fs'.ino[i].type = "file" /\ fs'.ino[i].nlink = fs.ino[i].nlink - 1
      BY <1>10, <1>11
    <2>2. SwapGone(fs, fs', p, i)
      BY <1>4, <1>9, <1>10, <2>1 DEF SwapGone
    <2> QED
      BY <1>4, <1>7, <1>8, <1>18, <1>19, <1>20, <2>2, TreeSwapGone
  <1>22. \A k \in Inum : \/ Refers(p, k)
                         \/ (ref'[k] = ref[k] /\ fs'.ino[k].nlink = fs.ino[k].nlink)
    BY <1>4, <1>5, <1>10
  <1>23. at[p].pc # "user" /\ Stage(at[p]) # "end"
    BY <1>3, <1>4
  <1>24. \A q \in Proc : q # p => at'[q] = at[q] /\ cwd'[q] = cwd[q]
    BY <1>5, <1>13
  <1> QED
    BY <1>4, <1>5, <1>6, <1>10, <1>14, <1>17, <1>21, <1>22, <1>23, <1>24, CallNames
-----------------------------------------------------------------------------
(* link.                                                                    *)

\* p starts to make a link to i.
LEMMA PendingMore ==
  ASSUME NEW p \in Proc, NEW i \in Inum, \A q \in Proc : q # p => at'[q] = at[q], at'[p].ip = i
  PROVE  /\ \A k \in Inum : k # i => PendingNow'[k] <= PendingNow[k]
         /\ PendingNow'[i] <= PendingNow[i] + 1
         /\ PendingNow \in [Inum -> Nat] /\ PendingNow' \in [Inum -> Nat]
  <1>1. /\ \A k \in Inum : k # i => Pending(k)' \subseteq Pending(k)
        /\ Pending(i)' \subseteq Pending(i) \cup {p}
    BY DEF Pending
  <1>2. ASSUME NEW k \in Inum
        PROVE  /\ Cardinality(Pending(k)') \in Nat /\ Cardinality(Pending(k)) \in Nat
               /\ k # i => Cardinality(Pending(k)') <= Cardinality(Pending(k))
               /\ k = i => Cardinality(Pending(k)') <= Cardinality(Pending(k)) + 1
    <2>1. IsFiniteSet(Pending(k)) /\ Cardinality(Pending(k)) \in Nat
      BY PendingFinite
    <2>2. /\ IsFiniteSet(Pending(k) \cup {p})
          /\ Cardinality(Pending(k) \cup {p}) <= Cardinality(Pending(k)) + 1
          /\ Cardinality(Pending(k) \cup {p}) \in Nat
      BY <2>1, FS_AddElement, FS_CardinalityType
    <2>3. Pending(k)' \subseteq Pending(k) \cup {p}
      BY <1>1
    <2>4. /\ Cardinality(Pending(k)') <= Cardinality(Pending(k) \cup {p})
          /\ Cardinality(Pending(k)') \in Nat
      BY <2>2, <2>3, FS_Subset, FS_CardinalityType
    <2>5. k # i => Cardinality(Pending(k)') <= Cardinality(Pending(k))
      BY <1>1, <2>1, FS_Subset
    <2> QED
      BY <2>1, <2>2, <2>4, <2>5
  <1> QED
    BY <1>2 DEF PendingNow

\* p makes the link to i, or takes it back.
LEMMA PendingLess ==
  ASSUME NEW p \in Proc, NEW i \in Inum, \A q \in Proc : q # p => at'[q] = at[q],
         Linking(at[p]), at[p].ip = i, ~Linking(at'[p])
  PROVE  /\ \A k \in Inum : k # i => PendingNow'[k] <= PendingNow[k]
         /\ PendingNow'[i] <= PendingNow[i] - 1
         /\ PendingNow \in [Inum -> Nat] /\ PendingNow' \in [Inum -> Nat]
  <1>1. /\ \A k \in Inum : PendingNow'[k] <= PendingNow[k]
        /\ PendingNow \in [Inum -> Nat] /\ PendingNow' \in [Inum -> Nat]
    BY PendingKept
  <1>2. Pending(i)' \subseteq Pending(i) \ {p} /\ p \in Pending(i)
    BY DEF Pending
  <1>3. IsFiniteSet(Pending(i)) /\ Cardinality(Pending(i)) \in Nat
    BY PendingFinite
  <1>4. /\ IsFiniteSet(Pending(i) \ {p})
        /\ Cardinality(Pending(i) \ {p}) = Cardinality(Pending(i)) - 1
    BY <1>2, <1>3, FS_RemoveElement
  <1>5. Cardinality(Pending(i)') <= Cardinality(Pending(i)) - 1
    BY <1>2, <1>4, FS_Subset
  <1> QED
    BY <1>1, <1>5 DEF PendingNow

\* The links of the file i change, and nothing else.
FileLinked(d, e, i) ==
  /\ d.ino[i].type = "file" /\ e.ino[i].type = "file"
  /\ \A k \in Inum : k # i => e.ino[k] = d.ino[k]
  /\ e.ents = d.ents

\* A link to i is counted that is to come, or one that was to come is taken back.
LEMMA TreeFileLinked ==
  ASSUME NEW d \in Disk, NEW e \in Disk, NEW S, NEW T, T \subseteq S,
         NEW pend \in [Inum -> Nat], NEW pend2 \in [Inum -> Nat], Tree(d, S, pend),
         NEW i \in Inum, FileLinked(d, e, i),
         \A k \in Inum : k # i => pend2[k] <= pend[k],
         e.ino[i].nlink - d.ino[i].nlink >= pend2[i] - pend[i]
  PROVE  Tree(e, T, pend2)
  <1> USE DEF FileLinked
  <1>1. Blank(d) /\ ".." \in Names /\ 0 \notin Inum
    BY DiskTyped DEF Tree
  <1>2. To(e, T, i) \subseteq To(d, S, i)
    <2> SUFFICES ASSUME NEW y \in To(e, T, i)
                 PROVE  y \in To(d, S, i)
      OBVIOUS
    <2>1. y \in Inum \X Names /\ d.ents[y[1]][y[2]] = i /\ Counts(e, T, y)
      BY DEF To
    <2>2. d.ino[y[1]].type = "dir"
      BY <1>1, <2>1 DEF Blank, NoEntries
    <2>3. e.ino[y[1]] = d.ino[y[1]]
      BY <2>1, <2>2
    <2>4. Counts(d, S, y)
      BY <2>1, <2>3 DEF Counts
    <2> QED
      BY <2>1, <2>4 DEF To
  <1>3. Cardinality(To(e, T, i)) <= Cardinality(To(d, S, i))
    BY <1>2, ToFewer
  <1>4. e.ino[i].nlink >= Cardinality(To(e, T, i)) + pend2[i]
    <2>1. d.ino[i].nlink >= Base(i) + Cardinality(To(d, S, i)) + pend[i]
      BY DEF Tree, Covered
    <2>2. /\ Base(i) \in Nat /\ pend[i] \in Nat /\ pend2[i] \in Nat
          /\ d.ino[i].nlink \in Int /\ e.ino[i].nlink \in Int
      BY DiskTyped DEF Base
    <2>3. Cardinality(To(d, S, i)) \in Nat /\ Cardinality(To(e, T, i)) \in Nat
      BY ToFinite
    <2> QED
      BY <1>3, <2>1, <2>2, <2>3
  <1>5. \A k \in Inum : k # i =>
          /\ e.ino[k].type = d.ino[k].type /\ e.ino[k].nlink = d.ino[k].nlink
          /\ e.ino[k].type = "free" => e.ino[k] = NoInode
          /\ pend2[k] <= pend[k]
    BY <1>1 DEF Blank
  <1>6. \A a \in Inum :
          /\ e.ents[a][".."] = d.ents[a][".."]
          /\ d.ino[a].type # "dir" => e.ents[a] = d.ents[a]
          /\ \A n \in Names : e.ents[a][n] # d.ents[a][n] =>
               e.ents[a][n] \in {0, i} /\ d.ents[a][n] \in {0, i}
    OBVIOUS
  <1> QED
    BY <1>4, <1>5, <1>6, TreeFile

\* The file i gets the name that was to come.
FileNamed(d, e, i, dp, name) ==
  /\ d.ino[i].type = "file" /\ d.ino[dp].type = "dir" /\ d.ents[dp][name] = 0 /\ name # ".."
  /\ \A k \in Inum : e.ino[k] = d.ino[k]
  /\ e.ents[dp][name] = i
  /\ \A n \in Names : n # name => e.ents[dp][n] = d.ents[dp][n]
  /\ \A a \in Inum : a # dp => e.ents[a] = d.ents[a]
\* A file gets a name in a directory.
LEMMA TreeFileNamed ==
  ASSUME NEW d \in Disk, NEW e \in Disk, NEW S, NEW T, T \subseteq S,
         NEW pend \in [Inum -> Nat], NEW pend2 \in [Inum -> Nat], Tree(d, S, pend),
         NEW i \in Inum, NEW dp \in Inum, NEW name \in Names, FileNamed(d, e, i, dp, name),
         \A k \in Inum : k # i => pend2[k] <= pend[k], pend2[i] <= pend[i] - 1
  PROVE  Tree(e, T, pend2)
  <1> USE DEF FileNamed
  <1>1. Blank(d) /\ ".." \in Names /\ 0 \notin Inum
    BY DiskTyped DEF Tree
  <1>2. To(e, T, i) \subseteq To(d, S, i) \cup {<<dp, name>>}
    <2> SUFFICES ASSUME NEW y \in To(e, T, i), y # <<dp, name>>
                 PROVE  y \in To(d, S, i)
      OBVIOUS
    <2>1. y \in Inum \X Names /\ e.ents[y[1]][y[2]] = i /\ Counts(e, T, y)
      BY DEF To
    <2>2. d.ents[y[1]][y[2]] = i
      <3>1. y[1] # dp \/ y[2] # name
        BY <2>1
      <3> QED
        BY <2>1, <3>1
    <2>3. Counts(d, S, y)
      BY <2>1 DEF Counts
    <2> QED
      BY <2>1, <2>2, <2>3 DEF To
  <1>3. Cardinality(To(e, T, i)) <= Cardinality(To(d, S, i)) + 1
    BY <1>2, ToOneMore
  <1>4. e.ino[i].nlink >= Cardinality(To(e, T, i)) + pend2[i]
    <2>1. d.ino[i].nlink >= Base(i) + Cardinality(To(d, S, i)) + pend[i]
      BY DEF Tree, Covered
    <2>2. /\ Base(i) \in Nat /\ pend[i] \in Nat /\ pend2[i] \in Nat
          /\ d.ino[i].nlink \in Int /\ e.ino[i].nlink = d.ino[i].nlink
      BY DiskTyped DEF Base
    <2>3. Cardinality(To(d, S, i)) \in Nat /\ Cardinality(To(e, T, i)) \in Nat
      BY ToFinite
    <2> QED
      BY <1>3, <2>1, <2>2, <2>3
  <1>5. \A k \in Inum : k # i =>
          /\ e.ino[k].type = d.ino[k].type /\ e.ino[k].nlink = d.ino[k].nlink
          /\ e.ino[k].type = "free" => e.ino[k] = NoInode
          /\ pend2[k] <= pend[k]
    BY <1>1 DEF Blank
  <1>6. \A a \in Inum :
          /\ e.ents[a][".."] = d.ents[a][".."]
          /\ d.ino[a].type # "dir" => e.ents[a] = d.ents[a]
          /\ \A n \in Names : e.ents[a][n] # d.ents[a][n] =>
               e.ents[a][n] \in {0, i} /\ d.ents[a][n] \in {0, i}
    BY <1>1
  <1> QED
    BY <1>4, <1>5, <1>6, TreeFile

\* The link count goes up, and the name is to come.
LEMMA LinkOldNames ==
  ASSUME IInv, NInv, phase = "up", NEW p \in Proc, Types', LinkOld(p)
  PROVE  NInv'
  <1>1. PICK i, x, c, to : i = at[p].cur /\ x = [Copy(i) EXCEPT !.nlink = @ + 1] /\ c = cwd[p]
                           /\ to = Call(p).to
    OBVIOUS
  <1>2. /\ at[p].pc = "found" /\ Call(p).op = "link" /\ ~LinksNow(p) /\ Ilock(i)
        /\ UNCHANGED <<durable, lock, ftableVars, callVars, crashes>>
    BY <1>1 DEF LinkOld
  <1>3. /\ i \in Inum /\ Good(i) /\ Copy(i) = fs.ino[i] /\ phase' = "up" /\ Refers(p, i)
        /\ Stage(at[p]) = "found" /\ p \in ops /\ todo[p] # <<>> /\ at[p] \in Place /\ Types
        /\ \A k \in Inum : lock[k] # p
    BY <1>1, <1>2, AtInode
  <1>4. CASE Copy(i).type = "dir" /\ Look(i) /\ PutThen(p, <<i>>, "end") /\ UNCHANGED ref
    <2>1. at[p].pc \in {"found", "existing"}
          /\ UNCHANGED <<durable, ref, lock, ftableVars, callVars, crashes>>
      BY <1>2, <1>4
    <2> QED
      BY <1>1, <1>2, <1>4, <2>1, GivesUpNames
  <1>5. CASE /\ Copy(i).type # "dir" /\ Save(One(i, x)) /\ Iget(c)
             /\ Goto(p, [at[p] EXCEPT !.pc = "walk", !.ip = i, !.cur = c, !.path = to])
    <2>1. /\ fs \in Disk /\ fs' \in Disk /\ Tree(fs, SwapsNow, PendingNow)
          /\ fs.ino[i] \in Inode /\ c \in Inum /\ Good(c) /\ fs.ino[c].type = "dir"
      BY <1>1, <1>3, AtHand, DiskTyped DEF Types
    <2>2. /\ fs'.ino[i] = x /\ fs'.ents = fs.ents
          /\ \A k \in Inum : k # i => fs'.ino[k] = fs.ino[k]
      BY <1>3, <1>5, OneWritten DEF Save
    <2>3. /\ x.type = "file" /\ fs.ino[i].type = "file" /\ x.nlink = fs.ino[i].nlink + 1
          /\ fs.ino[i].nlink \in Int
      BY <1>1, <1>3, <1>5, <2>1 DEF Good, Live, Inode
    <2>4. /\ at'[p] = [at[p] EXCEPT !.pc = "walk", !.ip = i, !.cur = c, !.path = to]
          /\ \A q \in Proc : q # p => at'[q] = at[q]
      BY <1>3, <1>5 DEF Goto, Types
    <2>5. at'[p].pc = "walk" /\ at'[p].ip = i /\ at'[p].cur = c /\ at'[p].path = to
      BY <1>3, <2>4 DEF Place
    <2>6. /\ Stage(at'[p]) = "walk" /\ ~Puts(at'[p])
      BY <2>5 DEF Stage, Puts
    <2>7. /\ UNCHANGED <<durable, fref, fip>> /\ UNCHANGED <<ops, todo>> /\ cwd' = cwd
          /\ lock' = lock /\ ref' = [ref EXCEPT ![c] = @ + 1]
      BY <1>2, <1>5 DEF ftableVars, callVars, Iget
    <2>8. \A k \in Inum : fs'.ino[k].type = fs.ino[k].type
      BY <2>2, <2>3
    <2>9. Good(cwd[p])' /\ fs'.ino[cwd'[p]].type = "dir"
      BY <2>2, <2>7, <2>8, AtHand DEF Good, Live
    <2>10. Safe(p)'
      <3>1. Good(at[p].cur)' /\ fs'.ino[i].type = "file"
        BY <1>3, <2>1, <2>2, <2>3, <2>5, <2>8 DEF Good, Live
      <3> QED
        BY <2>5, <2>6, <2>9, <3>1 DEF Safe, Live
    <2>11. Route(p)'
      <3>1. Call(p)' = Call(p)
        BY <2>7 DEF Call
      <3>2. to \in Seq(Steps)
        <4>1. 1 \in DOMAIN todo[p] /\ Call(p) = todo[p][1]
          BY <1>3 DEF Call, Types
        <4> QED
          BY <1>1, <1>2, <4>1, AtHand DEF Tidily, Tidy
      <3> QED
        BY <1>2, <2>5, <2>6, <3>1, <3>2 DEF Route, Swapping
    <2>12. /\ \A k \in Inum : k # i => PendingNow'[k] <= PendingNow[k]
           /\ PendingNow'[i] <= PendingNow[i] + 1
           /\ PendingNow \in [Inum -> Nat] /\ PendingNow' \in [Inum -> Nat]
      BY <1>3, <2>4, <2>5, PendingMore
    <2>13. SwapsNow' \subseteq SwapsNow
      BY <1>3, <2>4, <2>7, SwapsKept
    <2>14. Tree(fs', SwapsNow', PendingNow')
      <3>1. FileLinked(fs, fs', i)
        BY <2>2, <2>3 DEF FileLinked
      <3>2. fs'.ino[i].nlink - fs.ino[i].nlink >= PendingNow'[i] - PendingNow[i]
        <4>1. PendingNow[i] \in Nat /\ PendingNow'[i] \in Nat
          BY <1>3, <2>12
        <4>2. fs'.ino[i].nlink = fs.ino[i].nlink + 1
          BY <2>2, <2>3
        <4> QED
          BY <2>3, <2>12, <4>1, <4>2
      <3> QED
        BY <1>3, <2>1, <2>12, <2>13, <3>1, <3>2, TreeFileLinked
    <2>15. \A k \in Inum : \/ Refers(p, k)
                           \/ (ref'[k] = ref[k] /\ fs'.ino[k].nlink = fs.ino[k].nlink)
      <3> SUFFICES ASSUME NEW k \in Inum, k # i, k # c
                   PROVE  ref'[k] = ref[k] /\ fs'.ino[k].nlink = fs.ino[k].nlink
        BY <1>1, <1>3 DEF Refers
      <3>1. ref \in [Inum -> Int]
        BY <1>3 DEF Types
      <3> QED
        BY <2>2, <2>7, <3>1
    <2>16. at[p].pc # "user" /\ Stage(at[p]) # "end"
      BY <1>2, <1>3
    <2>17. \A q \in Proc : q # p => at'[q] = at[q] /\ cwd'[q] = cwd[q]
      BY <2>4, <2>7
    <2>18. \A k \in Inum : lock'[k] \in {lock[k], Nobody, p} /\ lock'[k] # p
      BY <1>3, <2>7
    <2> QED
      BY <1>3, <2>2, <2>7, <2>8, <2>10, <2>11, <2>14, <2>15, <2>16, <2>17, <2>18, CallNames
  <1>6. \/ /\ Copy(i).type # "dir" /\ Save(One(i, x)) /\ Iget(c)
           /\ Goto(p, [at[p] EXCEPT !.pc = "walk", !.ip = i, !.cur = c, !.path = to])
        \/ Copy(i).type = "dir" /\ Look(i) /\ PutThen(p, <<i>>, "end") /\ UNCHANGED ref
    BY <1>1 DEF LinkOld
  <1> QED
    BY <1>4, <1>5, <1>6

\* The name is made, or found taken.
LEMMA LinkNewNames ==
  ASSUME IInv, NInv, phase = "up", NEW p \in Proc, Types', LinkNew(p)
  PROVE  NInv'
  <1>1. PICK dp, name, i : dp = at[p].cur /\ name = Head(at[p].path) /\ i = at[p].ip
    OBVIOUS
  <1>2. /\ at[p].pc = "parent" /\ LinksNow(p) /\ Ilock(dp)
        /\ UNCHANGED <<durable, ref, lock, ftableVars, callVars, crashes>>
    BY <1>1 DEF LinkNew
  <1>3. /\ dp \in Inum /\ Good(dp) /\ fs.ino[dp].type = "dir" /\ phase' = "up" /\ p \in ops
        /\ \A k \in Inum : lock[k] # p
        /\ Stage(at[p]) = "parent" /\ at[p] \in Place /\ Refers(p, dp) /\ lock[dp] = Nobody
        /\ Copy(dp) = fs.ino[dp] /\ name \in Names
    BY <1>1, <1>2, AtParent
  <1>4. Call(p).op = "link" /\ i # 0
    BY <1>1, <1>2 DEF LinksNow
  <1>5. name \in Steps
    BY <1>1, <1>2, <1>4, AtParent DEF Swapping
  <1>6. /\ Linking(at[p]) /\ HasSecond(at[p]) /\ i \in Inum
    BY <1>1, <1>2, <1>3, <1>4 DEF Linking, HasSecond, Place
  <1>7. /\ fs.ino[i].type = "file" /\ Live(i) /\ Types
        /\ fs \in Disk /\ fs' \in Disk /\ Tree(fs, SwapsNow, PendingNow)
        /\ fs.ents \in [Inum -> [Names -> Inum \cup {0}]] /\ ".." \in Names
    BY <1>1, <1>6, AtHand, DiskTyped DEF Safe, Live, Types, Disk
  <1>8. /\ UNCHANGED <<durable, fref, fip>> /\ UNCHANGED <<ops, todo>> /\ cwd' = cwd
        /\ lock' = lock /\ ref' = ref
    BY <1>2 DEF ftableVars, callVars
  <1>9. CASE fs.ents[dp][name] # 0 /\ Look(dp) /\ PutThen(p, <<dp>>, "undo")
    <2>1. PICK ds \in Seq(Inum) : ds = <<dp>>
      <3>1. <<dp>> \in Seq(Inum)
        BY <1>3
      <3> QED
        BY <3>1
    <2>2. /\ at'[p].pc = "put" /\ at'[p].next = "undo" /\ at'[p].drop = ds /\ at'[p].ip = i
          /\ \A q \in Proc : q # p => at'[q] = at[q]
      BY <1>1, <1>7, <1>9, <2>1, PutThenIs DEF Later
    <2>3. Stage(at'[p]) = "undo" /\ Puts(at'[p])
      BY <2>2 DEF Stage, Puts
    <2>4. fs' = fs
      BY <1>9 DEF Look
    <2>5. Good(cwd[p])' /\ fs'.ino[cwd'[p]].type = "dir"
      BY <1>8, <2>4, AtHand DEF Good, Live
    <2>6. Safe(p)' /\ Route(p)'
      <3>1. \A k \in DOMAIN ds : fs'.ino[ds[k]].type # "free"
        BY <1>3, <2>1, <2>4 DEF Good, Live
      <3>2. fs'.ino[i].type = "file"
        BY <1>7, <2>4
      <3>3. Safe(p)'
        BY <2>2, <2>3, <2>5, <3>1, <3>2 DEF Safe, Live, Holding
      <3>4. Route(p)'
        BY <2>2, <2>3 DEF Route
      <3> QED
        BY <3>3, <3>4
    <2>7. UNCHANGED <<fs, durable, todo, fref, fip>> /\ p \in ops'
          /\ \A q \in Proc : q # p => /\ at'[q] = at[q] /\ cwd'[q] = cwd[q]
                                      /\ q \in ops => q \in ops'
      BY <1>3, <1>8, <2>2, <2>4
    <2>8. at'[p].ip = at[p].ip
      BY <1>1, <2>2
    <2> QED
      BY <1>3, <1>6, <1>8, <2>6, <2>7, <2>8, QuietNames
  <1>10. CASE /\ fs.ents[dp][name] = 0
              /\ Write(One(dp, Copy(dp)), [fs.ents EXCEPT ![dp][name] = i], fs.used)
              /\ PutThen(p, <<dp, i>>, "end")
    <2>1. name # ".."
      BY <1>3, <1>10 DEF Good
    <2>2. PICK ents : ents = [fs.ents EXCEPT ![dp][name] = i]
      OBVIOUS
    <2>3. /\ ents[dp][name] = i /\ \A n \in Names : n # name => ents[dp][n] = fs.ents[dp][n]
          /\ \A a \in Inum : a # dp => ents[a] = fs.ents[a]
      BY <1>3, <1>7, <2>2
    <2>4. fs'.ents = ents /\ \A k \in Inum : fs'.ino[k] = fs.ino[k]
      BY <1>3, <1>10, <2>2, OneWritten
    <2>5. PICK ds \in Seq(Inum) : ds = <<dp, i>>
      <3>1. <<dp, i>> \in Seq(Inum)
        BY <1>3, <1>6
      <3> QED
        BY <3>1
    <2>6. /\ at'[p].pc = "put" /\ at'[p].next = "end" /\ at'[p].drop = ds
          /\ \A q \in Proc : q # p => at'[q] = at[q]
      BY <1>7, <1>10, <2>5, PutThenIs DEF Later
    <2>7. \A k \in Inum : fs'.ents[k][".."] = fs.ents[k][".."]
      BY <1>3, <1>7, <2>1, <2>3, <2>4
    <2>8. Good(cwd[p])' /\ fs'.ino[cwd'[p]].type = "dir"
      BY <1>8, <2>4, <2>7, AtHand DEF Good, Live
    <2>9. \A k \in DOMAIN ds : fs'.ino[ds[k]].type # "free"
      <3>1. fs'.ino[dp].type # "free" /\ fs'.ino[i].type # "free"
        BY <1>3, <1>6, <1>7, <2>4 DEF Good, Live
      <3>2. DOMAIN ds = {1, 2} /\ ds[1] = dp /\ ds[2] = i
        BY <2>5
      <3> QED
        BY <3>1, <3>2
    <2>10. Safe(p)' /\ Route(p)' /\ ~Linking(at'[p]) /\ Stage(at'[p]) = "end"
      BY <2>6, <2>8, <2>9, EndsSafe
    <2>11. /\ \A k \in Inum : k # i => PendingNow'[k] <= PendingNow[k]
           /\ PendingNow'[i] <= PendingNow[i] - 1
           /\ PendingNow \in [Inum -> Nat] /\ PendingNow' \in [Inum -> Nat]
      BY <1>1, <1>6, <2>6, <2>10, PendingLess
    <2>12. SwapsNow' \subseteq SwapsNow
      BY <1>3, <1>8, <2>6, SwapsKept
    <2>13. Tree(fs', SwapsNow', PendingNow')
      <3>1. FileNamed(fs, fs', i, dp, name)
        BY <1>3, <1>7, <1>10, <2>1, <2>3, <2>4 DEF FileNamed
      <3> QED
        BY <1>3, <1>6, <1>7, <2>11, <2>12, <3>1, TreeFileNamed
    <2>14. \A k \in Inum : fs'.ents[k] = fs.ents[k] \/ lock[k] \in {Nobody, p}
      BY <1>3, <2>3, <2>4
    <2>15. at[p].pc # "user" /\ Stage(at[p]) # "end"
      BY <1>2, <1>3
    <2>16. \A q \in Proc : q # p => at'[q] = at[q] /\ cwd'[q] = cwd[q]
      BY <1>8, <2>6
    <2> QED
      BY <1>3, <1>8, <2>4, <2>7, <2>10, <2>13, <2>14, <2>15, <2>16, CallNames
  <1>11. \/ /\ fs.ents[dp][name] = 0
            /\ Write(One(dp, Copy(dp)), [fs.ents EXCEPT ![dp][name] = i], fs.used)
            /\ PutThen(p, <<dp, i>>, "end")
         \/ fs.ents[dp][name] # 0 /\ Look(dp) /\ PutThen(p, <<dp>>, "undo")
    BY <1>1 DEF LinkNew
  <1> QED
    BY <1>9, <1>10, <1>11

\* The link count is taken back.
LEMMA LinkUndoNames ==
  ASSUME IInv, NInv, phase = "up", NEW p \in Proc, Types', LinkUndo(p)
  PROVE  NInv'
  <1>1. PICK i, x : i = at[p].ip /\ x = TakenBack(Copy(i))
    OBVIOUS
  <1>2. /\ at[p].pc = "undo" /\ Ilock(i) /\ Save(One(i, x)) /\ PutThen(p, <<i>>, "end")
        /\ UNCHANGED <<durable, ref, lock, ftableVars, callVars, crashes>>
    BY <1>1 DEF LinkUndo
  <1>3. Stage(at[p]) = "undo" /\ ~Puts(at[p]) /\ Linking(at[p]) /\ HasSecond(at[p])
    BY <1>2 DEF Stage, Puts, Linking, HasSecond
  <1>4. i \in Inum /\ Types /\ Safe(p) /\ p \in ops
    BY <1>1, <1>2, <1>3, InCall, AtHand DEF IInv, Placed
  <1>5. /\ fs.ino[i].type = "file" /\ Live(i) /\ Refers(p, i)
    BY <1>1, <1>3, <1>4 DEF Safe, Live, Refers
  <1>6. phase' = "up" /\ Copy(i) = fs.ino[i] /\ \A k \in Inum : lock[k] # p
    BY <1>2, <1>3, <1>4, <1>5, LockedIs, OwnsNone, CopyIsDisk DEF IInv, Inv
  <1>7. /\ fs \in Disk /\ fs' \in Disk /\ Tree(fs, SwapsNow, PendingNow) /\ fs.ino[i] \in Inode
        /\ fs.ino[i].nlink \in Int
    BY <1>4, AtHand, DiskTyped DEF Types
  <1>8. x.type = "file" /\ x.nlink = fs.ino[i].nlink - 1
    BY <1>1, <1>5, <1>6, <1>7, TakenBackIs
  <1>9. /\ fs'.ino[i] = x /\ fs'.ents = fs.ents
        /\ \A k \in Inum : k # i => fs'.ino[k] = fs.ino[k]
    BY <1>2, <1>4, OneWritten DEF Save
  <1>10. PICK ds \in Seq(Inum) : ds = <<i>>
    <2>1. <<i>> \in Seq(Inum)
      BY <1>4
    <2> QED
      BY <2>1
  <1>11. /\ at'[p].pc = "put" /\ at'[p].next = "end" /\ at'[p].drop = ds
         /\ \A q \in Proc : q # p => at'[q] = at[q]
    BY <1>2, <1>4, <1>10, PutThenIs DEF Later
  <1>12. /\ UNCHANGED <<durable, fref, fip>> /\ UNCHANGED <<ops, todo>> /\ cwd' = cwd
         /\ lock' = lock /\ ref' = ref
    BY <1>2 DEF ftableVars, callVars
  <1>13. \A k \in Inum : fs'.ino[k].type = fs.ino[k].type
    BY <1>5, <1>8, <1>9
  <1>14. Good(cwd[p])' /\ fs'.ino[cwd'[p]].type = "dir"
    BY <1>9, <1>12, <1>13, AtHand DEF Good, Live
  <1>15. \A k \in DOMAIN ds : fs'.ino[ds[k]].type # "free"
    BY <1>4, <1>5, <1>10, <1>13 DEF Live
  <1>16. Safe(p)' /\ Route(p)' /\ ~Linking(at'[p]) /\ Stage(at'[p]) = "end"
    BY <1>11, <1>14, <1>15, EndsSafe
  <1>17. /\ \A k \in Inum : k # i => PendingNow'[k] <= PendingNow[k]
         /\ PendingNow'[i] <= PendingNow[i] - 1
         /\ PendingNow \in [Inum -> Nat] /\ PendingNow' \in [Inum -> Nat]
    BY <1>1, <1>3, <1>4, <1>11, <1>16, PendingLess
  <1>18. SwapsNow' \subseteq SwapsNow
    BY <1>3, <1>11, <1>12, SwapsKept
  <1>19. Tree(fs', SwapsNow', PendingNow')
    <2>1. FileLinked(fs, fs', i)
      BY <1>5, <1>8, <1>9 DEF FileLinked
    <2>2. fs'.ino[i].nlink - fs.ino[i].nlink >= PendingNow'[i] - PendingNow[i]
      <3>1. PendingNow[i] \in Nat /\ PendingNow'[i] \in Nat
        BY <1>4, <1>17
      <3>2. fs'.ino[i].nlink = fs.ino[i].nlink - 1
        BY <1>8, <1>9
      <3> QED
        BY <1>7, <1>17, <3>1, <3>2
    <2> QED
      BY <1>4, <1>7, <1>17, <1>18, <2>1, <2>2, TreeFileLinked
  <1>20. \A k \in Inum : \/ Refers(p, k)
                         \/ (ref'[k] = ref[k] /\ fs'.ino[k].nlink = fs.ino[k].nlink)
    BY <1>5, <1>9, <1>12
  <1>21. at[p].pc # "user" /\ Stage(at[p]) # "end"
    BY <1>2, <1>3
  <1>22. \A q \in Proc : q # p => at'[q] = at[q] /\ cwd'[q] = cwd[q]
    BY <1>11, <1>12
  <1> QED
    BY <1>6, <1>9, <1>12, <1>13, <1>16, <1>19, <1>20, <1>21, <1>22, CallNames
-----------------------------------------------------------------------------
(* Open files.                                                              *)

\* A call that is at its end, or between two, holds nothing.
LEMMA RestsSafe ==
  ASSUME NEW p \in Proc, at'[p].pc \in {"user", "end", "write"},
         fs'.ino[cwd'[p]].type = "dir", Good(cwd[p])'
  PROVE  /\ Safe(p)' /\ Route(p)' /\ ~Linking(at'[p]) /\ Stage(at'[p]) = at'[p].pc
         /\ \A i : ~Owns(p, i)'
  <1>1. Stage(at'[p]) = at'[p].pc /\ ~Puts(at'[p]) /\ at'[p].pc # "reap"
    BY DEF Stage, Puts
  <1>2. ~Linking(at'[p]) /\ ~HasSecond(at'[p]) /\ Stage(at'[p]) \notin Holding
    BY <1>1 DEF Linking, HasSecond, Holding
  <1>3. Safe(p)'
    BY <1>1, <1>2 DEF Safe
  <1>4. Route(p)'
    BY <1>1 DEF Route
  <1>5. ASSUME NEW i
        PROVE  ~Owns(p, i)'
    BY <1>1 DEF Owns, Keeps, Reaps
  <1> QED
    BY <1>1, <1>2, <1>3, <1>4, <1>5

\* sys_write.
LEMMA WriteCallNames ==
  ASSUME IInv, NInv, phase = "up", NEW p \in Proc, Types', WriteCall(p)
  PROVE  NInv'
  <1>1. /\ at[p].pc = "user" /\ ops' = ops \cup {p}
        /\ Goto(p, [at[p] EXCEPT !.pc = "write", !.cur = fip[Head(ofile[p])]])
        /\ UNCHANGED <<fs, durable, itableVars, ftableVars, todo, phase, crashes>>
    BY DEF WriteCall
  <1>2. /\ Types /\ Good(cwd[p]) /\ fs.ino[cwd[p]].type = "dir"
    BY AtHand
  <1>3. /\ at'[p].pc = "write" /\ \A q \in Proc : q # p => at'[q] = at[q]
    BY <1>1, <1>2 DEF Types, Place, Goto
  <1>4. UNCHANGED <<fs, durable, todo, fref, fip>> /\ cwd' = cwd /\ ref' = ref /\ lock' = lock
    BY <1>1 DEF itableVars, ftableVars
  <1>5. Good(cwd[p])' /\ fs'.ino[cwd'[p]].type = "dir"
    BY <1>2, <1>4 DEF Good, Live
  <1>6. /\ Safe(p)' /\ Route(p)' /\ ~Linking(at'[p]) /\ \A i : ~Owns(p, i)'
    BY <1>3, <1>5, RestsSafe
  <1>7. \A i \in Inum : lock[i] # p
    BY <1>1, OwnsNone DEF Stage, Puts
  <1>8. phase' = "up"
    BY <1>1
  <1> QED
    BY <1>1, <1>3, <1>4, <1>6, <1>7, <1>8, QuietNames

\* The blocks of an inode change, nothing else does: the tree is the same.
LEMMA SameTree ==
  ASSUME IInv, NInv, phase = "up", NEW p \in Proc, Types', fs'.ents = fs.ents,
         NEW i \in Inum, Live(i), fs'.ino[i].type = fs.ino[i].type, fs'.ino[i].nlink = fs.ino[i].nlink,
         \A k \in Inum : k # i => fs'.ino[k] = fs.ino[k],
         \A q \in Proc : q # p => at'[q] = at[q], todo' = todo,
         ~Linking(at'[p]), at'[p].pc # "user" /\ Stage(at'[p]) = "end"
  PROVE  Tree(fs', SwapsNow', PendingNow') /\ SwapsThen' = SwapsThen
  <1>1. SwapsNow' \subseteq SwapsNow /\ SwapsThen' = SwapsThen
    BY SwapsKept
  <1>2. /\ \A k \in Inum : PendingNow'[k] <= PendingNow[k]
        /\ PendingNow \in [Inum -> Nat] /\ PendingNow' \in [Inum -> Nat]
    BY PendingKept
  <1>3. fs \in Disk /\ Tree(fs, SwapsNow, PendingNow) /\ fs' \in Disk
    BY AtHand DEF Types
  <1>4. \A k \in Inum : /\ fs'.ino[k].type = fs.ino[k].type /\ fs'.ino[k].nlink = fs.ino[k].nlink
                        /\ fs'.ino[k].type = "free" => fs'.ino[k] = NoInode
    BY <1>3 DEF Tree, Blank, Live
  <1> QED
    BY <1>1, <1>2, <1>3, <1>4, TreeSame

\* writei.
LEMMA WriteiNames ==
  ASSUME IInv, NInv, phase = "up", NEW p \in Proc, Types', Writei(p)
  PROVE  NInv'
  <1>1. PICK i, more : /\ i = at[p].cur /\ more = IF Cardinality(Copy(i).addrs) < MAXFILE /\ Spare # {} THEN NextBlock ELSE {}
    OBVIOUS
  <1>2. PICK x : x = [Copy(i) EXCEPT !.addrs = @ \cup more]
    OBVIOUS
  <1>3. /\ at[p].pc = "write" /\ Ilock(i) /\ Write(One(i, x), fs.ents, fs.used \cup more)
        /\ At(p, "end") /\ UNCHANGED <<durable, ref, lock, ftableVars, callVars, crashes>>
    BY <1>1, <1>2 DEF Writei
  <1>4. Inv /\ Types /\ Copies
    BY DEF IInv, Inv
  <1>5. i \in Inum /\ Live(i)
    <2>1. i = fip[Head(ofile[p])] /\ ofile[p] # <<>>
      BY <1>1, <1>3, <1>4 DEF Inv, Running, Runs
    <2> QED
      BY <1>4, <2>1, OpenIsLive DEF Live
  <1>6. phase' = "up" /\ Copy(i) = fs.ino[i] /\ fs.ino[i] \in Inode
    BY <1>3, <1>4, <1>5, LockedIs, CopyIsDisk
  <1>7. x.type = fs.ino[i].type /\ x.nlink = fs.ino[i].nlink
    BY <1>2, <1>6 DEF Inode
  <1>8. /\ fs'.ino[i] = x /\ fs'.ents = fs.ents
        /\ \A k \in Inum : k # i => fs'.ino[k] = fs.ino[k]
    BY <1>3, <1>5, OneWritten
  <1>9. at'[p].pc = "end" /\ \A q \in Proc : q # p => at'[q] = at[q]
    BY <1>3, <1>4, AtIs DEF Pcs, Later
  <1>10. UNCHANGED <<durable, fref, fip>> /\ UNCHANGED <<ops, todo>> /\ cwd' = cwd /\ ref' = ref
         /\ lock' = lock
    BY <1>3 DEF ftableVars, callVars
  <1>11. Good(cwd[p])' /\ fs'.ino[cwd'[p]].type = "dir"
    BY <1>4, <1>7, <1>8, <1>10, AtHand DEF Good, Live
  <1>12. /\ Safe(p)' /\ Route(p)' /\ ~Linking(at'[p]) /\ Stage(at'[p]) = "end" /\ \A k : ~Owns(p, k)'
    BY <1>9, <1>11, RestsSafe
  <1>13. Tree(fs', SwapsNow', PendingNow')
    BY <1>5, <1>7, <1>8, <1>9, <1>10, <1>12, SameTree
  <1>14. \A k \in Inum : lock[k] # p
    BY <1>3, OwnsNone DEF Stage, Puts
  <1>15. \A k \in Inum : /\ fs'.ino[k].type = fs.ino[k].type /\ fs'.ino[k].nlink = fs.ino[k].nlink
                         /\ fs'.ents[k] = fs.ents[k]
    BY <1>7, <1>8
  <1>16. \A q \in Proc : q # p => at'[q] = at[q] /\ cwd'[q] = cwd[q]
    BY <1>9, <1>10
  <1>17. at'[p].pc # "user" /\ Stage(at'[p]) = "end" /\ at[p].pc # "user"
    BY <1>3, <1>9, <1>12
  <1>18. \A k \in Inum : lock'[k] \in {lock[k], Nobody, p}
    BY <1>10
  <1>19. \A k \in Inum : lock'[k] = p => Owns(p, k)'
    BY <1>10, <1>14
  <1> QED
    BY <1>6, <1>10, <1>12, <1>13, <1>15, <1>16, <1>17, <1>18, <1>19, CallNames

\* sys_open and create_swap_file, from the lock of the inode to the end of the call.
LEMMA OpenedNames ==
  ASSUME IInv, NInv, phase = "up", NEW p \in Proc, Types', Opened(p)
  PROVE  NInv'
  <1>1. PICK i, f : i = at[p].cur /\ f = Min(FreeFiles)
    OBVIOUS
  <1>2. /\ at[p].pc = "opened" /\ FreeFiles # {}
        /\ fref' = [fref EXCEPT ![f] = 1] /\ fip' = [fip EXCEPT ![f] = i]
        /\ lock' = [lock EXCEPT ![i] = Nobody] /\ At(p, "end")
        /\ UNCHANGED <<durable, ref, cwd, callVars, phase, crashes>>
    BY <1>1 DEF Opened, Unlock
  <1>3. PICK used : /\ \/ Write(One(i, [mem[i] EXCEPT !.addrs = {}]), fs.ents, used)
                       \/ UNCHANGED <<fs, mem, valid>>
    BY <1>1 DEF Opened
  <1>4. /\ i \in Inum /\ Good(i) /\ Refers(p, i) /\ Stage(at[p]) = "opened"
        /\ mem[i] = fs.ino[i] /\ Types /\ \A k \in Inum : lock[k] = p => k = i
    BY <1>1, <1>2, AtOpened
  <1>5. fs.ino[i] \in Inode /\ Live(i)
    BY <1>4 DEF Types, Disk, Good
  <1>6. /\ fs'.ents = fs.ents /\ fs'.ino[i].type = fs.ino[i].type
        /\ fs'.ino[i].nlink = fs.ino[i].nlink
        /\ \A k \in Inum : k # i => fs'.ino[k] = fs.ino[k]
    <2>1. CASE UNCHANGED <<fs, mem, valid>>
      BY <2>1
    <2>2. CASE Write(One(i, [mem[i] EXCEPT !.addrs = {}]), fs.ents, used)
      <3>1. PICK x : x = [mem[i] EXCEPT !.addrs = {}]
        OBVIOUS
      <3>2. x.type = fs.ino[i].type /\ x.nlink = fs.ino[i].nlink
        BY <1>4, <1>5, <3>1 DEF Inode
      <3>3. Write(One(i, x), fs.ents, used)
        BY <2>2, <3>1
      <3> QED
        BY <1>4, <3>2, <3>3, OneWritten
    <2> QED
      BY <1>3, <2>1, <2>2
  <1>7. at'[p].pc = "end" /\ \A q \in Proc : q # p => at'[q] = at[q]
    BY <1>2, <1>4, AtIs DEF Pcs, Later
  <1>8. f \in File /\ \A g \in File : fip'[g] # 0 => fref'[g] > 0
    <2>1. FreeFiles \in SUBSET Nat
      BY DEF FreeFiles, File
    <2>2. f \in FreeFiles
      BY <1>1, <1>2, <2>1, Least
    <2>3. \A g \in File : fip[g] # 0 => fref[g] > 0
      BY DEF NInv
    <2> QED
      BY <1>2, <1>4, <2>2, <2>3 DEF FreeFiles, Types
  <1>9. ops' = ops /\ todo' = todo /\ cwd' = cwd /\ ref' = ref /\ durable' = durable /\ phase' = "up"
    BY <1>2 DEF callVars
  <1>10. Good(cwd[p])' /\ fs'.ino[cwd'[p]].type = "dir"
    BY <1>4, <1>6, <1>9, AtHand DEF Good, Live
  <1>11. /\ Safe(p)' /\ Route(p)' /\ ~Linking(at'[p]) /\ Stage(at'[p]) = "end" /\ at'[p].pc # "user"
    BY <1>7, <1>10, RestsSafe
  <1>12. Tree(fs', SwapsNow', PendingNow') /\ SwapsThen' = SwapsThen
    BY <1>4, <1>5, <1>6, <1>7, <1>9, <1>11, SameTree
  <1>13. Tree(fs, SwapsNow, PendingNow)'
    BY <1>12
  <1>14. Tree(durable, SwapsThen, None)'
    <2>1. Tree(durable, SwapsThen, None)
      BY DEF NInv
    <2> QED
      BY <1>9, <1>12, <2>1 DEF None
  <1>15. Settled(p)'
    <2>1. Tidily(p, todo[p]) /\ p \in ops
      BY <1>2, AtHand
    <2> QED
      BY <1>9, <1>11, <2>1 DEF Settled
  <1>16. \A k \in Inum : /\ lock'[k] \in {lock[k], Nobody, p}
                         /\ lock'[k] = p => Owns(p, k)'
    BY <1>2, <1>4, FileSystemAssumption DEF Types
  <1>17. \A k \in Inum : /\ fs'.ino[k].type = fs.ino[k].type /\ fs'.ino[k].nlink = fs.ino[k].nlink
                         /\ fs'.ents[k] = fs.ents[k]
    BY <1>6
  <1>18. \A k \in Inum : Live(k) =>
           \/ fs'.ino[k].type = fs.ino[k].type /\ (fs.ents[k][".."] # 0 => fs'.ents[k][".."] # 0)
           \/ \A q \in Proc : q # p => ~Refers(q, k)
    BY <1>17
  <1>19. \A k \in Inum : \/ Refers(p, k) \/ fs.ino[k].nlink # 0 \/ ~Live(k) \/ Opens(k) # {}
                         \/ ref'[k] = ref[k] /\ fs'.ino[k].nlink = fs.ino[k].nlink
    BY <1>9, <1>17
  <1>20. \A q \in Proc : q # p => /\ at'[q] = at[q] /\ cwd'[q] = cwd[q] /\ todo'[q] = todo[q]
                                  /\ q \in ops => q \in ops'
    BY <1>7, <1>9
  <1> QED
    BY <1>8, <1>9, <1>13, <1>14, <1>15, <1>16, <1>17, <1>18, <1>19, <1>20, NamesStep
-----------------------------------------------------------------------------
(* The end of a call, and what a commit makes durable.                      *)

\* The calls that are left are tidy, and none of them is about a swap file that
\* exit has removed.
LEMMA TidilyDone ==
  ASSUME Types, NEW p \in Proc, todo[p] # <<>>, Tidily(p, todo[p]), Done(p)
  PROVE  /\ Tidily(p, todo'[p])
         /\ Swaps(p)' => Swaps(p) /\ Call(p).op # "exit"
         /\ \A q \in Proc : q # p => todo'[q] = todo[q]
  <1>1. PICK s \in Seq(Calls) : s = todo[p]
    BY DEF Types
  <1>2. PICK t : t = Tail(s)
    OBVIOUS
  <1>3. /\ s # <<>> /\ Head(s) = s[1] /\ Len(s) \in Nat /\ DOMAIN s = 1..Len(s) /\ 1 \in DOMAIN s
        /\ DOMAIN t = 1..(Len(s) - 1) /\ \A k \in DOMAIN t : t[k] = s[k + 1] /\ k + 1 \in DOMAIN s
    BY <1>1, <1>2
  <1>4. todo'[p] = t /\ \A q \in Proc : q # p => todo'[q] = todo[q]
    BY <1>1, <1>2 DEF Done, Types
  <1>5. /\ \A k \in DOMAIN s : Tidy(p, s[k])
        /\ \A j, k \in DOMAIN s : j < k /\ s[j].op = "exit" => ~Swapping(s[k])
    BY <1>1 DEF Tidily
  <1>6. Tidily(p, t)
    <2>1. \A k \in DOMAIN t : Tidy(p, t[k])
      BY <1>3, <1>5
    <2>2. ASSUME NEW j \in DOMAIN t, NEW k \in DOMAIN t, j < k, t[j].op = "exit"
          PROVE  ~Swapping(t[k])
      <3>1. j + 1 < k + 1 /\ j + 1 \in DOMAIN s /\ k + 1 \in DOMAIN s
        BY <1>3, <2>2
      <3>2. s[j + 1].op = "exit" /\ t[k] = s[k + 1]
        BY <1>3, <2>2
      <3> QED
        BY <1>5, <3>1, <3>2
    <2> QED
      BY <2>1, <2>2 DEF Tidily
  <1>7. ASSUME Swaps(p)'
        PROVE  Swaps(p) /\ Call(p).op # "exit"
    <2>1. PICK k \in DOMAIN t : Swapping(t[k])
      BY <1>4, <1>7 DEF Swaps
    <2>2. k + 1 \in DOMAIN s /\ Swapping(s[k + 1]) /\ 1 < k + 1
      BY <1>3, <2>1
    <2>3. s[1].op # "exit"
      BY <1>3, <1>5, <2>2
    <2> QED
      BY <1>1, <1>3, <2>2, <2>3 DEF Swaps, Call
  <1> QED
    BY <1>4, <1>6, <1>7

\* No swap file's name begins to count.
LEMMA SwapsDone ==
  ASSUME Types, NEW p \in Proc, todo[p] # <<>>, Tidily(p, todo[p]), Done(p),
         \A q \in Proc : q # p => at'[q] = at[q], at'[p].pc = "user"
  PROVE  /\ SwapsNow' \subseteq SwapsNow /\ SwapsThen' \subseteq SwapsThen
         /\ p \in SwapsThen' => p \in SwapsNow
  <1>1. /\ Swaps(p)' => Swaps(p) /\ Call(p).op # "exit"
        /\ \A q \in Proc : q # p => todo'[q] = todo[q]
    BY TidilyDone
  <1>2. \A q \in Proc : q # p => Swaps(q)' = Swaps(q) /\ Gone(q)' = Gone(q)
    BY <1>1 DEF Swaps, Gone, Call
  <1>3. Swaps(p)' => Swaps(p) /\ ~Gone(p)
    BY <1>1 DEF Gone
  <1> QED
    BY <1>2, <1>3 DEF SwapsNow, SwapsThen

\* The last one out commits a tree in which no link is to come.
LEMMA CommitNames ==
  ASSUME IInv, NInv, phase = "up", NEW p \in Proc, NEW S \in SUBSET SwapsThen,
         p \in S => p \in SwapsNow
  PROVE  Tree(Committed(p), S, None)
  <1>1. Tree(fs, SwapsNow, PendingNow) /\ Tree(durable, SwapsThen, None) /\ fs \in Disk /\ durable \in Disk
    BY DEF NInv, IInv, Inv, Types
  <1>2. PendingNow \in [Inum -> Nat] /\ None \in [Inum -> Nat]
    BY PendingTyped
  <1>3. CASE ops = {p}
    <2>1. ASSUME NEW q \in S
          PROVE  q \in SwapsNow
      <3>1. CASE q = p
        BY <2>1, <3>1
      <3>2. CASE q # p
        <4>1. q \in Proc /\ Swaps(q)
          BY <2>1 DEF SwapsThen
        <4>2. at[q].pc = "user"
          BY <1>3, <3>2, <4>1, AtHand
        <4> QED
          BY <4>1, <4>2 DEF SwapsNow, Gone
      <3> QED
        BY <3>1, <3>2
    <2>2. \A i \in Inum : None[i] <= PendingNow[i]
      BY <1>2 DEF None
    <2>3. \A i \in Inum : fs.ino[i].type = "free" => fs.ino[i] = NoInode
      BY <1>1 DEF Tree, Blank
    <2>4. Tree(fs, S, None)
      BY <1>1, <1>2, <2>1, <2>2, <2>3, TreeSame
    <2> QED
      BY <1>3, <2>4 DEF Committed
  <1>4. CASE ops # {p}
    <2>1. \A i \in Inum : durable.ino[i].type = "free" => durable.ino[i] = NoInode
      BY <1>1 DEF Tree, Blank
    <2>2. Tree(durable, S, None)
      BY <1>1, <1>2, <2>1, TreeSame DEF None
    <2> QED
      BY <1>4, <2>2 DEF Committed
  <1> QED
    BY <1>3, <1>4

\* The tree is as it was when fewer names count and no more links are to come.
LEMMA LessTree ==
  ASSUME IInv, NInv, phase = "up", fs' = fs, SwapsNow' \subseteq SwapsNow, NEW p \in Proc,
         \A q \in Proc : q # p => at'[q] = at[q], ~Linking(at'[p])
  PROVE  Tree(fs, SwapsNow, PendingNow)'
  <1>1. /\ \A k \in Inum : PendingNow'[k] <= PendingNow[k]
        /\ PendingNow \in [Inum -> Nat] /\ PendingNow' \in [Inum -> Nat]
    BY PendingKept
  <1>2. fs \in Disk /\ Tree(fs, SwapsNow, PendingNow)
    BY AtHand
  <1>3. \A k \in Inum : fs.ino[k].type = "free" => fs.ino[k] = NoInode
    BY <1>2 DEF Tree, Blank
  <1>4. Tree(fs, SwapsNow', PendingNow')
    BY <1>1, <1>2, <1>3, TreeSame
  <1> QED
    BY <1>4

\* end_op.
LEMMA EndOpNames ==
  ASSUME IInv, NInv, phase = "up", NEW p \in Proc, Types', EndOp(p)
  PROVE  NInv'
  <1>1. /\ at[p].pc = "end" /\ durable' = Committed(p) /\ ops' = ops \ {p}
        /\ at' = [at EXCEPT ![p] = Idle] /\ Done(p) /\ phase' = "up"
        /\ fs' = fs /\ ref' = ref /\ lock' = lock /\ fref' = fref /\ fip' = fip /\ cwd' = cwd
    BY DEF EndOp, itableVars, ftableVars
  <1>2. /\ Types /\ Tidily(p, todo[p]) /\ Good(cwd[p]) /\ fs.ino[cwd[p]].type = "dir"
    BY AtHand
  <1>3. todo[p] # <<>>
    BY <1>1, InCall DEF IInv
  <1>4. at'[p].pc = "user" /\ \A q \in Proc : q # p => at'[q] = at[q]
    BY <1>1, <1>2 DEF Types, Idle
  <1>5. /\ SwapsNow' \subseteq SwapsNow /\ SwapsThen' \subseteq SwapsThen
        /\ p \in SwapsThen' => p \in SwapsNow
    BY <1>1, <1>2, <1>3, <1>4, SwapsDone
  <1>6. Good(cwd[p])' /\ fs'.ino[cwd'[p]].type = "dir"
    BY <1>1, <1>2 DEF Good, Live
  <1>7. Safe(p)' /\ Route(p)' /\ ~Linking(at'[p])
    BY <1>4, <1>6, RestsSafe
  <1>8. Tree(fs, SwapsNow, PendingNow)'
    BY <1>1, <1>4, <1>5, <1>7, LessTree
  <1>9. Tree(durable, SwapsThen, None)'
    <2>1. PICK S \in SUBSET SwapsThen : S = SwapsThen'
      BY <1>5
    <2>2. Tree(Committed(p), S, None)
      BY <1>5, <2>1, CommitNames
    <2> QED
      BY <1>1, <2>1, <2>2 DEF None
  <1>10. Tidily(p, todo'[p]) /\ \A q \in Proc : q # p => todo'[q] = todo[q]
    BY <1>1, <1>2, <1>3, TidilyDone
  <1>11. Settled(p)'
    BY <1>4, <1>7, <1>10 DEF Settled
  <1>12. \A i \in Inum : lock[i] # p
    BY <1>1, OwnsNone DEF Stage, Puts
  <1>13. \A f \in File : fip'[f] # 0 => fref'[f] > 0
    BY <1>1 DEF NInv
  <1>14. \A q \in Proc : q # p => /\ at'[q] = at[q] /\ cwd'[q] = cwd[q] /\ todo'[q] = todo[q]
                                  /\ q \in ops => q \in ops'
    BY <1>1, <1>4, <1>10
  <1>15. \A k \in Inum : Live(k) =>
           \/ fs'.ino[k].type = fs.ino[k].type /\ (fs.ents[k][".."] # 0 => fs'.ents[k][".."] # 0)
           \/ \A q \in Proc : q # p => ~Refers(q, k)
    BY <1>1
  <1>16. \A k \in Inum : \/ Refers(p, k) \/ fs.ino[k].nlink # 0 \/ ~Live(k) \/ Opens(k) # {}
                         \/ ref'[k] = ref[k] /\ fs'.ino[k].nlink = fs.ino[k].nlink
    BY <1>1
  <1>17. \A k \in Inum : /\ lock'[k] \in {lock[k], Nobody, p}
                         /\ lock'[k] = p => Owns(p, k)'
                         /\ fs'.ents[k] = fs.ents[k] \/ lock[k] \in {Nobody, p} \/ ~Live(k)
    BY <1>1, <1>12
  <1> QED
    BY <1>1, <1>8, <1>9, <1>11, <1>13, <1>14, <1>15, <1>16, <1>17, NamesStep

\* A call without a transaction of its own is over.
LEMMA TodoNames ==
  ASSUME IInv, NInv, phase = "up", NEW p \in Proc, Types', at[p].pc = "user", todo[p] # <<>>,
         Done(p), UNCHANGED <<fs, durable, ref, lock, fip, cwd>>, UNCHANGED <<ops, at, phase>>,
         \A f \in File : fref[f] > 0 => fref'[f] > 0
  PROVE  NInv'
  <1>1. /\ Types /\ Tidily(p, todo[p]) /\ Good(cwd[p]) /\ fs.ino[cwd[p]].type = "dir"
    BY AtHand
  <1>2. at'[p].pc = "user" /\ \A q \in Proc : q # p => at'[q] = at[q]
    OBVIOUS
  <1>3. SwapsNow' \subseteq SwapsNow /\ SwapsThen' \subseteq SwapsThen
    BY <1>1, <1>2, SwapsDone
  <1>4. Good(cwd[p])' /\ fs'.ino[cwd'[p]].type = "dir"
    BY <1>1 DEF Good, Live
  <1>5. Safe(p)' /\ Route(p)' /\ ~Linking(at'[p])
    BY <1>2, <1>4, RestsSafe
  <1>6. Tree(fs, SwapsNow, PendingNow)'
    BY <1>2, <1>3, <1>5, LessTree
  <1>7. Tree(durable, SwapsThen, None)'
    <2>1. Tree(durable, SwapsThen, None) /\ durable \in Disk /\ None \in [Inum -> Nat]
      BY PendingTyped DEF NInv, IInv, Inv, Types
    <2>2. \A i \in Inum : durable.ino[i].type = "free" => durable.ino[i] = NoInode
      BY <2>1 DEF Tree, Blank
    <2>3. Tree(durable, SwapsThen', None)
      BY <1>3, <2>1, <2>2, TreeSame DEF None
    <2> QED
      BY <2>3 DEF None
  <1>8. Tidily(p, todo'[p]) /\ \A q \in Proc : q # p => todo'[q] = todo[q]
    BY <1>1, TidilyDone
  <1>9. Settled(p)'
    BY <1>2, <1>5, <1>8 DEF Settled
  <1>10. \A i \in Inum : lock[i] # p
    BY OwnsNone DEF Stage, Puts
  <1>11. \A f \in File : fip'[f] # 0 => fref'[f] > 0
    BY DEF NInv
  <1>12. \A q \in Proc : q # p => /\ at'[q] = at[q] /\ cwd'[q] = cwd[q] /\ todo'[q] = todo[q]
                                  /\ q \in ops => q \in ops'
    BY <1>8
  <1>13. \A k \in Inum : Live(k) =>
           \/ fs'.ino[k].type = fs.ino[k].type /\ (fs.ents[k][".."] # 0 => fs'.ents[k][".."] # 0)
           \/ \A q \in Proc : q # p => ~Refers(q, k)
    OBVIOUS
  <1>14. \A k \in Inum : \/ Refers(p, k) \/ fs.ino[k].nlink # 0 \/ ~Live(k) \/ Opens(k) # {}
                         \/ ref'[k] = ref[k] /\ fs'.ino[k].nlink = fs.ino[k].nlink
    OBVIOUS
  <1>15. \A k \in Inum : /\ lock'[k] \in {lock[k], Nobody, p}
                         /\ lock'[k] = p => Owns(p, k)'
                         /\ fs'.ents[k] = fs.ents[k] \/ lock[k] \in {Nobody, p} \/ ~Live(k)
    BY <1>10
  <1>16. phase' = "up"
    OBVIOUS
  <1> QED
    BY <1>6, <1>7, <1>9, <1>11, <1>12, <1>13, <1>14, <1>15, <1>16, NamesStep

\* argfd fails, or the swap file is there, or is not.
LEMMA NothingToDoNames ==
  ASSUME IInv, NInv, phase = "up", NEW p \in Proc, Types', NothingToDo(p)
  PROVE  NInv'
  <1>1. /\ at[p].pc = "user" /\ todo[p] # <<>> /\ Done(p)
        /\ UNCHANGED <<fs, durable, ref, lock, fip, cwd>> /\ UNCHANGED <<ops, at, phase>>
        /\ fref' = fref
    BY DEF NothingToDo, itableVars, ftableVars
  <1>2. \A f \in File : fref[f] > 0 => fref'[f] > 0
    BY <1>1
  <1> QED
    BY <1>1, <1>2, TodoNames

\* sys_dup.
LEMMA DupNames ==
  ASSUME IInv, NInv, phase = "up", NEW p \in Proc, Types', Dup(p)
  PROVE  NInv'
  <1>1. /\ at[p].pc = "user" /\ todo[p] # <<>> /\ Done(p) /\ ofile[p] # <<>>
        /\ UNCHANGED <<fs, durable, ref, lock, fip, cwd>> /\ UNCHANGED <<ops, at, phase>>
    BY DEF Dup, itableVars
  <1>2. PICK f : f = Head(ofile[p])
    OBVIOUS
  <1>3. fref' = [fref EXCEPT ![f] = @ + 1]
    BY <1>2 DEF Dup
  <1>4. Types
    BY AtHand
  <1>5. f \in File
    BY <1>1, <1>2, <1>4 DEF Types
  <1>6. \A g \in File : fref[g] > 0 => fref'[g] > 0
    BY <1>3, <1>4, <1>5 DEF Types
  <1> QED
    BY <1>1, <1>6, TodoNames

\* fileclose of the last reference: the inode is put in a transaction.
LEMMA CloseLastNames ==
  ASSUME IInv, NInv, phase = "up", NEW p \in Proc, Types', at[p].pc = "user",
         NEW f, HasOpen(p, f), NEW l \in {"end", "again"}, CloseLast(p, f, l),
         UNCHANGED <<fs, durable, ref, lock, cwd>>, UNCHANGED <<todo, phase>>
  PROVE  NInv'
  <1>1. Types /\ Inv
    BY AtHand
  <1>2. f \in File /\ fip[f] \in Inum /\ Live(fip[f])
    BY <1>1, OpenIsLive DEF HasOpen, Live
  <1>3. PICK ds \in Seq(Inum) : ds = <<fip[f]>>
    <2>1. <<fip[f]>> \in Seq(Inum)
      BY <1>2
    <2> QED
      BY <2>1
  <1>4. /\ fref' = [fref EXCEPT ![f] = 0] /\ fip' = [fip EXCEPT ![f] = 0]
        /\ ops' = ops \cup {p} /\ PutThen(p, ds, l)
    BY <1>3 DEF CloseLast
  <1>5. l \in Later
    BY DEF Later
  <1>6. /\ at'[p].pc = "put" /\ at'[p].next = l /\ at'[p].drop = ds
        /\ \A q \in Proc : q # p => at'[q] = at[q]
    BY <1>1, <1>4, <1>5, PutThenIs
  <1>7. /\ Stage(at'[p]) = l /\ Puts(at'[p]) /\ ~Linking(at'[p]) /\ ~HasSecond(at'[p])
        /\ Stage(at'[p]) \notin Holding /\ ~Keeps(at'[p])
    BY <1>6 DEF Stage, Puts, Linking, HasSecond, Holding, Keeps
  <1>8. Good(cwd[p])' /\ fs'.ino[cwd'[p]].type = "dir"
    BY AtHand DEF Good, Live
  <1>9. \A k \in DOMAIN ds : fs'.ino[ds[k]].type # "free"
    BY <1>2, <1>3 DEF Live
  <1>10. Safe(p)'
    BY <1>6, <1>7, <1>8, <1>9 DEF Safe, Live
  <1>11. Route(p)'
    BY <1>6, <1>7 DEF Route
  <1>12. SwapsNow' \subseteq SwapsNow /\ SwapsThen' = SwapsThen
    BY <1>6, SwapsKept
  <1>13. Tree(fs, SwapsNow, PendingNow)'
    BY <1>6, <1>7, <1>12, LessTree
  <1>14. Tree(durable, SwapsThen, None)'
    <2>1. Tree(durable, SwapsThen, None)
      BY DEF NInv
    <2> QED
      BY <1>12, <2>1 DEF None
  <1>15. Settled(p)'
    BY <1>4, <1>10, <1>11, AtHand DEF Settled
  <1>16. \A i \in Inum : lock[i] # p
    BY OwnsNone DEF Stage, Puts
  <1>17. \A g \in File : fip'[g] # 0 => fref'[g] > 0
    BY <1>1, <1>2, <1>4 DEF NInv, Types
  <1>18. \A q \in Proc : q # p => /\ at'[q] = at[q] /\ cwd'[q] = cwd[q] /\ todo'[q] = todo[q]
                                  /\ q \in ops => q \in ops'
    BY <1>4, <1>6
  <1>19. \A k \in Inum : Live(k) =>
           \/ fs'.ino[k].type = fs.ino[k].type /\ (fs.ents[k][".."] # 0 => fs'.ents[k][".."] # 0)
           \/ \A q \in Proc : q # p => ~Refers(q, k)
    OBVIOUS
  <1>20. \A k \in Inum : \/ Refers(p, k) \/ fs.ino[k].nlink # 0 \/ ~Live(k) \/ Opens(k) # {}
                         \/ ref'[k] = ref[k] /\ fs'.ino[k].nlink = fs.ino[k].nlink
    OBVIOUS
  <1>21. \A k \in Inum : /\ lock'[k] \in {lock[k], Nobody, p}
                         /\ lock'[k] = p => Owns(p, k)'
                         /\ fs'.ents[k] = fs.ents[k] \/ lock[k] \in {Nobody, p} \/ ~Live(k)
    BY <1>16
  <1>22. phase' = "up"
    OBVIOUS
  <1> QED
    BY <1>13, <1>14, <1>15, <1>17, <1>18, <1>19, <1>20, <1>21, <1>22, NamesStep

\* sys_close.
LEMMA CloseNames ==
  ASSUME IInv, NInv, phase = "up", NEW p \in Proc, Types', Close(p)
  PROVE  NInv'
  <1>1. PICK f : f = Head(ofile[p])
    OBVIOUS
  <1>2. /\ at[p].pc = "user" /\ todo[p] # <<>> /\ ofile[p] # <<>>
        /\ UNCHANGED <<fs, durable, ref, lock, cwd>> /\ phase' = phase
        /\ \/ fref[f] = 1 /\ CloseLast(p, f, "end") /\ UNCHANGED todo
           \/ fref[f] > 1 /\ fref' = [fref EXCEPT ![f] = @ - 1] /\ Done(p) /\ UNCHANGED <<fip, ops, at>>
    BY <1>1 DEF Close, itableVars
  <1>3. HasOpen(p, f)
    BY <1>1, <1>2 DEF HasOpen
  <1>4. CASE fref[f] = 1 /\ CloseLast(p, f, "end") /\ UNCHANGED todo
    <2>1. UNCHANGED <<fs, durable, ref, lock, cwd>> /\ UNCHANGED <<todo, phase>>
      BY <1>2, <1>4
    <2>2. "end" \in {"end", "again"} /\ CloseLast(p, f, "end")
      BY <1>4
    <2> QED
      BY <1>2, <1>3, <2>1, <2>2, CloseLastNames
  <1>5. CASE fref[f] > 1 /\ fref' = [fref EXCEPT ![f] = @ - 1] /\ Done(p) /\ UNCHANGED <<fip, ops, at>>
    <2>1. Types
      BY AtHand
    <2>2. \A g \in File : fref[g] > 0 => fref'[g] > 0
      BY <1>5, <2>1 DEF Types
    <2>3. UNCHANGED <<fs, durable, ref, lock, fip, cwd>> /\ UNCHANGED <<ops, at, phase>> /\ Done(p)
      BY <1>2, <1>5
    <2> QED
      BY <1>2, <2>2, <2>3, TodoNames
  <1> QED
    BY <1>2, <1>4, <1>5

\* kexit closes the swap file.
LEMMA SwapCloseNames ==
  ASSUME IInv, NInv, phase = "up", NEW p \in Proc, Types', SwapClose(p)
  PROVE  NInv'
  <1>1. PICK f : f = swapFile[p]
    OBVIOUS
  <1>2. /\ at[p].pc = "user" /\ f # 0 /\ CloseLast(p, f, "again")
        /\ UNCHANGED <<fs, durable, ref, lock, cwd>> /\ UNCHANGED <<todo, phase>>
    BY <1>1 DEF SwapClose, itableVars
  <1>3. HasOpen(p, f)
    BY <1>1, <1>2 DEF HasOpen
  <1>4. "again" \in {"end", "again"}
    OBVIOUS
  <1> QED
    BY <1>2, <1>3, <1>4, CloseLastNames

\* kexit looks for the swap file's name in the root.
LEMMA SwapFindNames ==
  ASSUME IInv, NInv, phase = "up", NEW p \in Proc, Types', SwapFind(p)
  PROVE  NInv'
  <1>1. PICK path : path = <<SwapName[p]>>
    OBVIOUS
  <1>2. /\ at[p].pc = "again" /\ durable' = Committed(p)
        /\ ref' = [ref EXCEPT ![ROOTINO] = @ + 1]
        /\ Goto(p, [at[p] EXCEPT !.pc = "walk", !.cur = ROOTINO, !.path = path])
        /\ fs' = fs /\ lock' = lock /\ fref' = fref /\ fip' = fip /\ cwd' = cwd /\ ops' = ops
        /\ todo' = todo /\ phase' = "up"
    BY <1>1 DEF SwapFind, Iget, ftableVars, callVars
  <1>3. /\ Types /\ ROOTINO \in Inum /\ Good(ROOTINO) /\ fs.ino[ROOTINO].nlink # 0
        /\ Good(cwd[p]) /\ fs.ino[cwd[p]].type = "dir" /\ Tidily(p, todo[p]) /\ p \in ops
    BY <1>2, AtHand
  <1>4. /\ at[p].ip = 0 /\ Call(p).op = "exit" /\ Stage(at[p]) = "again"
    BY <1>2, InCall DEF IInv, Placed, Stage, Puts
  <1>5. /\ at'[p].pc = "walk" /\ at'[p].cur = ROOTINO /\ at'[p].path = path /\ at'[p].ip = at[p].ip
        /\ \A q \in Proc : q # p => at'[q] = at[q]
    BY <1>2, <1>3 DEF Types, Place, Goto
  <1>6. /\ Stage(at'[p]) = "walk" /\ ~Puts(at'[p]) /\ ~Linking(at'[p]) /\ ~HasSecond(at'[p])
        /\ ~Keeps(at'[p]) /\ Call(p)' = Call(p)
    BY <1>2, <1>4, <1>5 DEF Stage, Puts, Linking, HasSecond, Keeps, Call
  <1>7. Good(cwd[p])' /\ fs'.ino[cwd'[p]].type = "dir" /\ Good(at[p].cur)'
    BY <1>2, <1>3, <1>5 DEF Good, Live
  <1>8. Safe(p)'
    BY <1>5, <1>6, <1>7 DEF Safe
  <1>9. Route(p)'
    BY <1>1, <1>4, <1>5, <1>6 DEF Route, Swapping
  <1>10. SwapsNow' \subseteq SwapsNow /\ SwapsThen' = SwapsThen
    BY <1>2, <1>4, <1>5, SwapsKept
  <1>11. Tree(fs, SwapsNow, PendingNow)'
    BY <1>2, <1>5, <1>6, <1>10, LessTree
  <1>12. Tree(durable, SwapsThen, None)'
    <2>1. PICK S \in SUBSET SwapsThen : S = SwapsThen
      OBVIOUS
    <2>2. p \in S => p \in SwapsNow
      BY <1>4, <2>1 DEF SwapsThen, SwapsNow, Gone
    <2>3. Tree(Committed(p), S, None)
      BY <2>2, CommitNames
    <2> QED
      BY <1>2, <1>10, <2>1, <2>3 DEF None
  <1>13. Settled(p)'
    BY <1>2, <1>3, <1>8, <1>9 DEF Settled
  <1>14. \A i \in Inum : lock[i] # p
    BY <1>2, OwnsNone DEF Stage, Puts
  <1>15. \A f \in File : fip'[f] # 0 => fref'[f] > 0
    BY <1>2 DEF NInv
  <1>16. \A q \in Proc : q # p => /\ at'[q] = at[q] /\ cwd'[q] = cwd[q] /\ todo'[q] = todo[q]
                                  /\ q \in ops => q \in ops'
    BY <1>2, <1>5
  <1>17. \A k \in Inum : Live(k) =>
           \/ fs'.ino[k].type = fs.ino[k].type /\ (fs.ents[k][".."] # 0 => fs'.ents[k][".."] # 0)
           \/ \A q \in Proc : q # p => ~Refers(q, k)
    BY <1>2
  <1>18. \A k \in Inum : \/ Refers(p, k) \/ fs.ino[k].nlink # 0 \/ ~Live(k) \/ Opens(k) # {}
                         \/ ref'[k] = ref[k] /\ fs'.ino[k].nlink = fs.ino[k].nlink
    BY <1>2, <1>3 DEF Types
  <1>19. \A k \in Inum : /\ lock'[k] \in {lock[k], Nobody, p}
                         /\ lock'[k] = p => Owns(p, k)'
                         /\ fs'.ents[k] = fs.ents[k] \/ lock[k] \in {Nobody, p} \/ ~Live(k)
    BY <1>2, <1>14
  <1> QED
    BY <1>2, <1>11, <1>12, <1>13, <1>15, <1>16, <1>17, <1>18, <1>19, NamesStep
-----------------------------------------------------------------------------
(* Starts, crashes and the recovery: the tree.                              *)

\* Nobody is in a call; what the disk has is committed.
Rests ==
  /\ phase # "panic" /\ fs = durable /\ Tree(durable, SwapsThen, None)
  /\ at = [p \in Proc |-> Idle] /\ cwd = [p \in Proc |-> ROOTINO]
  /\ \A p \in Proc : Tidily(p, todo[p])
  /\ \A i \in Inum : lock[i] = Nobody
  /\ \A f \in File : fip[f] # 0 => fref[f] > 0

\* The invariant is that of the tree, then.
LEMMA RestsIs ==
  ASSUME Rests
  PROVE  NInv
  <1>1. \A p \in Proc : at[p] = Idle /\ cwd[p] = ROOTINO
    BY DEF Rests
  <1>2. Stage(Idle) = "user" /\ ~Puts(Idle) /\ Idle.pc = "user"
    BY DEF Idle, Stage, Puts
  <1>3. /\ ~Linking(Idle) /\ ~HasSecond(Idle) /\ Stage(Idle) \notin Holding
    BY <1>2 DEF Linking, HasSecond, Holding
  <1>4. PendingNow = None
    <2>1. ASSUME NEW i
          PROVE  Cardinality(Pending(i)) = 0
      <3>1. Pending(i) = {}
        BY <1>1, <1>3 DEF Pending
      <3> QED
        BY <3>1, FS_EmptySet
    <2> QED
      BY <2>1 DEF PendingNow, None
  <1>5. SwapsNow = SwapsThen
    BY <1>1, <1>2 DEF SwapsNow, SwapsThen, Gone
  <1>6. Tree(fs, SwapsNow, PendingNow)
    BY <1>4, <1>5 DEF Rests
  <1>7. fs.ino[ROOTINO].type = "dir" /\ Good(ROOTINO)
    BY <1>6 DEF Tree, Rooted, Good, Live, ROOTINO
  <1>8. ASSUME NEW p \in Proc
        PROVE  Settled(p)
    <2>1. Safe(p)
      BY <1>1, <1>2, <1>3, <1>7 DEF Safe
    <2>2. Route(p)
      BY <1>1, <1>2 DEF Route
    <2> QED
      BY <1>1, <1>2, <2>1, <2>2 DEF Settled, Rests
  <1> QED
    BY <1>6, <1>8 DEF NInv, Rests, Owned, Ahead

\* What mkfs makes is a tree.
LEMMA InitNames ==
  ASSUME Hygiene, Init
  PROVE  NInv
  <1>1. ROOTINO \in Inum /\ ".." \in Names /\ 0 \notin Inum /\ ".." \notin UserNames
        /\ UserNames \subseteq Names
    BY FileSystemAssumption DEF Inum, ROOTINO, Names, UserNames
  <1>2. /\ \A i \in Inum : i # ROOTINO => Mkfs.ino[i] = NoInode /\ Mkfs.ents[i] = NoEntries
        /\ Mkfs.ino[ROOTINO].type = "dir" /\ Mkfs.ino[ROOTINO].nlink = 1
        /\ Mkfs.ents[ROOTINO][".."] = ROOTINO
        /\ \A n \in Names : n # ".." => Mkfs.ents[ROOTINO][n] = 0
    BY <1>1 DEF Mkfs, NoEntries
  <1>3. \A p \in Proc : SwapName[p] \in Names /\ SwapName[p] # ".."
    BY FileSystemAssumption DEF Names
  <1>4. ASSUME NEW i \in Inum, NEW S \in SUBSET Proc
        PROVE  To(Mkfs, S, i) = {}
    <2> SUFFICES ASSUME NEW a \in Inum, NEW n \in Names, Mkfs.ents[a][n] = i,
                        Counts(Mkfs, S, <<a, n>>)
                 PROVE  FALSE
      BY DEF To
    <2>1. a = ROOTINO /\ n = ".."
      BY <1>1, <1>2 DEF NoEntries
    <2> QED
      BY <1>1, <1>3, <2>1 DEF Counts
  <1>5. ASSUME NEW i \in Inum, NEW S \in SUBSET Proc
        PROVE  Cardinality(To(Mkfs, S, i)) = 0
    BY <1>4, FS_EmptySet
  <1>6. Blank(Mkfs)
    BY <1>2 DEF Blank, NoInode
  <1>7. Covered(Mkfs, SwapsThen, None)
    <2>1. SwapsThen \in SUBSET Proc
      BY DEF SwapsThen
    <2> QED
      BY <1>2, <1>5, <2>1 DEF Covered, Base, None, NoInode
  <1>8. Bounded(Mkfs)
    BY <1>2, <1>5 DEF Bounded, Base, NoInode
  <1>9. Named(Mkfs)
    BY <1>2 DEF Named, NoInode
  <1>10. Single(Mkfs)
    BY <1>1, <1>2 DEF Single, NoEntries
  <1>11. Tree(Mkfs, SwapsThen, None)
    BY <1>2, <1>6, <1>7, <1>8, <1>9, <1>10 DEF Tree, Rooted
  <1>12. \A p \in Proc : Tidily(p, todo[p])
    BY DEF Hygiene, Init
  <1>13. Rests
    BY <1>11, <1>12 DEF Rests, Init, NoFiles
  <1> QED
    BY <1>13, RestsIs

\* A crash goes back to the tree that was committed.
LEMMA CrashNames ==
  ASSUME IInv, NInv, Crash
  PROVE  NInv'
  <1>1. /\ phase' = "boot" /\ fs' = durable /\ durable' = durable /\ todo' = todo
        /\ at' = [p \in Proc |-> Idle] /\ cwd' = [p \in Proc |-> ROOTINO]
        /\ lock' = [i \in Inum |-> Nobody] /\ fip' = NoFiles
    BY DEF Crash
  <1>2. Tree(durable, SwapsThen, None) /\ \A p \in Proc : Tidily(p, todo[p])
    BY DEF NInv, Settled
  <1>3. Tree(durable, SwapsThen, None)'
    BY <1>1, <1>2 DEF SwapsThen, Swaps, None
  <1>4. Rests'
    BY <1>1, <1>2, <1>3 DEF Rests, NoFiles
  <1> QED
    BY <1>4, RestsIs, PTL

\* ireclaim frees an inode that no name leads to.
LEMMA IreclaimNames ==
  ASSUME IInv, NInv, Ireclaim, Types'
  PROVE  NInv'
  <1>1. PICK i : i = Min(Orphans)
    OBVIOUS
  <1>2. /\ phase = "boot" /\ Orphans # {} /\ durable' = fs' /\ phase' = phase /\ todo' = todo
        /\ fs' = [ino |-> [fs.ino EXCEPT ![i] = NoInode],
                  ents |-> [fs.ents EXCEPT ![i] = NoEntries],
                  used |-> fs.used \ fs.ino[i].addrs]
        /\ at' = at /\ cwd' = cwd /\ lock' = lock /\ fip' = fip /\ fref' = fref
    BY <1>1 DEF Ireclaim, itableVars, ftableVars, callVars
  <1>3. i \in Inum /\ fs.ino[i].nlink = 0
    <2>1. Orphans \in SUBSET Nat
      BY DEF Orphans, Inum
    <2>2. i \in Orphans
      BY <1>1, <1>2, <2>1, Least
    <2> QED
      BY <2>2 DEF Orphans
  <1>4. Types /\ fs \in Disk /\ fs' \in Disk
    BY DEF IInv, Inv, Types
  <1>5. /\ fs = durable /\ at = [p \in Proc |-> Idle] /\ cwd = [p \in Proc |-> ROOTINO]
        /\ Tree(durable, SwapsThen, None) /\ \A p \in Proc : Tidily(p, todo[p])
    BY <1>2 DEF NInv, Ahead, Settled
  <1>6. /\ fs'.ino[i] = NoInode /\ fs'.ents[i] = NoEntries
        /\ \A k \in Inum : k # i => fs'.ino[k] = fs.ino[k] /\ fs'.ents[k] = fs.ents[k]
    BY <1>2, <1>3, <1>4 DEF Disk
  <1>7. Tree(fs', SwapsThen, None)
    <2>1. None \in [Inum -> Nat] /\ \A k \in Inum : None[k] <= None[k]
      BY PendingTyped DEF None
    <2> QED
      BY <1>3, <1>4, <1>5, <1>6, <2>1, TreeFreed
  <1>8. Tree(durable, SwapsThen, None)'
    <2>1. SwapsThen' = SwapsThen
      BY <1>2 DEF SwapsThen, Swaps
    <2> QED
      BY <1>2, <1>7, <2>1 DEF None
  <1>9. \A k \in Inum : lock[k] = Nobody
    <2>1. \A q \in Proc : at[q].pc = "user" /\ Stage(at[q]) = "user"
      BY <1>5 DEF Idle, Stage, Puts
    <2>2. \A k \in Inum : lock[k] \in Proc \cup {Nobody}
      BY <1>4 DEF Types
    <2> QED
      BY <2>1, <2>2 DEF NInv, Owned, Owns, Keeps, Reaps
  <1>10. Rests'
    BY <1>2, <1>5, <1>8, <1>9 DEF Rests, NInv
  <1> QED
    BY <1>10, RestsIs, PTL

\* What is unchanged, the phase and the counters of no concern apart.
LEMMA PhaseNames ==
  ASSUME NInv, phase' = phase \/ phase' = "up",
         UNCHANGED <<fs, durable, ref, lock, fref, fip, cwd>>, UNCHANGED <<ops, todo, at>>
  PROVE  NInv'
  <1>1. SwapsNow' = SwapsNow /\ SwapsThen' = SwapsThen /\ PendingNow' = PendingNow
    BY DEF SwapsNow, SwapsThen, PendingNow, Swaps, Gone, Call, Pending
  <1>2. Tree(fs, SwapsNow, PendingNow)' /\ Tree(durable, SwapsThen, None)'
    BY <1>1 DEF NInv, None
  <1>3. ASSUME NEW p \in Proc
        PROVE  Settled(p)'
    <2>1. Settled(p)
      BY DEF NInv
    <2>2. Safe(p)'
      BY <2>1 DEF Settled, Safe, Good, Live
    <2>3. Route(p)'
      BY <2>1 DEF Settled, Route, Call
    <2> QED
      BY <2>1, <2>2, <2>3 DEF Settled
  <1>4. Owned'
    BY DEF NInv, Owned, Owns
  <1>5. Ahead' /\ phase' # "panic"
    BY DEF NInv, Ahead
  <1>6. \A f \in File : fip'[f] # 0 => fref'[f] > 0
    BY DEF NInv
  <1> QED
    BY <1>2, <1>3, <1>4, <1>5, <1>6 DEF NInv
-----------------------------------------------------------------------------
(* Every step, and what the invariant says.                                 *)

\* Every step of a process that does not stray.
LEMMA StepNames ==
  ASSUME Hygiene, IInv, NInv, NEW p \in Proc, Step(p), ~Strays(p)
  PROVE  NInv'
  <1>1. phase = "up"
    BY DEF Step
  <1>2. Types'
    BY StepKeeps DEF IInv, Inv
  <1>3. CASE Begin(p) \/ Walk(p) \/ Put(p) \/ Reap(p) \/ DropRef(p)
    BY <1>1, <1>2, <1>3, BeginNames, WalkNames, PutNames, ReapNames, DropRefNames
  <1>4. CASE CreateFinds(p) \/ CreateFails(p) \/ CreateUndone(p) \/ CreateNew(p) \/ Existing(p)
    BY <1>1, <1>2, <1>4, CreateFindsNames, CreateFailsNames, CreateUndoneNames, CreateNewNames,
       ExistingNames
  <1>5. CASE Open(p) \/ Opened(p) \/ NotOpened(p) \/ Chdir(p)
    BY <1>1, <1>2, <1>5, OpenNames, OpenedNames, NotOpenedNames, ChdirNames
  <1>6. CASE LinkOld(p) \/ LinkNew(p) \/ LinkUndo(p)
    BY <1>1, <1>2, <1>6, LinkOldNames, LinkNewNames, LinkUndoNames
  <1>7. CASE Victim(p) \/ Unlink(p) \/ SwapUnlink(p)
    BY <1>1, <1>2, <1>7, VictimNames, UnlinkNames, SwapUnlinkNames
  <1>8. CASE Close(p) \/ Dup(p) \/ NothingToDo(p) \/ WriteCall(p) \/ Writei(p)
    BY <1>1, <1>2, <1>8, CloseNames, DupNames, NothingToDoNames, WriteCallNames, WriteiNames
  <1>9. CASE SwapClose(p) \/ SwapFind(p) \/ EndOp(p)
    BY <1>1, <1>2, <1>9, SwapCloseNames, SwapFindNames, EndOpNames
  <1> QED
    BY <1>3, <1>4, <1>5, <1>6, <1>7, <1>8, <1>9 DEF Step

\* Every step, a power failure and the recovery included.
LEMMA NextNames ==
  ASSUME Hygiene, IInv, NInv, NobodyStrays, [Next]_vars
  PROVE  IInv' /\ NInv'
  <1>1. CASE \E p \in Proc : Step(p)
    BY <1>1, StepKeeps, StepNames DEF NobodyStrays
  <1>2. CASE Crash
    BY <1>2, CrashKeeps, CrashNames
  <1>3. CASE Ireclaim
    <2>1. IInv' /\ Types'
      BY <1>3, IreclaimKeeps DEF IInv, Inv
    <2> QED
      BY <1>3, <2>1, IreclaimNames
  <1>4. CASE Booted
    <2>1. /\ phase = "boot" /\ phase' = "up"
          /\ UNCHANGED <<fs, durable, ref, valid, mem, lock, fref, fip, ofile, swapFile, cwd, ops,
                         todo, at>>
      BY <1>4 DEF Booted, itableVars, ftableVars, callVars
    <2>2. IInv'
      BY <2>1, PhaseKeeps
    <2>3. UNCHANGED <<fs, durable, ref, lock, fref, fip, cwd>> /\ UNCHANGED <<ops, todo, at>>
      BY <2>1
    <2> QED
      BY <2>1, <2>2, <2>3, PhaseNames
  <1>5. CASE UNCHANGED vars
    <2>1. phase' = phase
      BY <1>5 DEF vars
    <2>2. UNCHANGED <<fs, durable, ref, valid, mem, lock, fref, fip, ofile, swapFile, cwd, ops,
                      todo, at>>
      BY <1>5 DEF vars, itableVars, ftableVars, callVars
    <2>3. IInv'
      BY <2>1, <2>2, PhaseKeeps, ZenonT(30)
    <2>4. UNCHANGED <<fs, durable, ref, lock, fref, fip, cwd>> /\ UNCHANGED <<ops, todo, at>>
      BY <2>2
    <2> QED
      BY <2>1, <2>3, <2>4, PhaseNames
  <1> QED
    BY <1>1, <1>2, <1>3, <1>4, <1>5 DEF Next

\* The links that an inode is asked to cover are among those that are counted.
LEMMA LinksCovered ==
  ASSUME NEW d \in Disk, NEW S, NEW pend \in [Inum -> Nat], Tree(d, S, pend), NEW i \in Inum
  PROVE  Links(d, i) > 0 => d.ino[i].type # "free" /\ d.ino[i].nlink >= Links(d, i)
  <1> DEFINE A == {y \in Inum \X UserNames : d.ents[y[1]][y[2]] = i}
             B == {j \in Inum \ {ROOTINO} : d.ino[j].nlink > 0 /\ d.ents[j][".."] = i}
             C == {y \in Inum \X {".."} : y[1] \in B}
             move == [j \in B |-> <<j, "..">>]
  <1>1. /\ ".." \in Names /\ UserNames \subseteq Names /\ ".." \notin UserNames
    BY FileSystemAssumption DEF Names, UserNames
  <1>2. A \cup C \in SUBSET To(d, S, i) /\ A \cap C = {}
    BY <1>1 DEF To, Counts
  <1>3. IsFiniteSet(To(d, S, i)) /\ Cardinality(To(d, S, i)) \in Nat
    BY ToFinite
  <1>4. /\ IsFiniteSet(A) /\ IsFiniteSet(C) /\ Cardinality(A) \in Nat /\ Cardinality(C) \in Nat
        /\ Cardinality(A \cup C) = Cardinality(A) + Cardinality(C)
        /\ Cardinality(A \cup C) <= Cardinality(To(d, S, i))
    <2>1. A \in SUBSET To(d, S, i) /\ C \in SUBSET To(d, S, i)
      BY <1>2
    <2>2. IsFiniteSet(A) /\ IsFiniteSet(C)
      BY <1>3, <2>1, FS_Subset
    <2>3. Cardinality(A) \in Nat /\ Cardinality(C) \in Nat
      BY <2>2, FS_CardinalityType
    <2>4. Cardinality(A \cup C) = Cardinality(A) + Cardinality(C) - Cardinality(A \cap C)
      BY <2>2, FS_Union
    <2>5. Cardinality(A \cap C) = 0
      BY <1>2, FS_EmptySet
    <2>6. Cardinality(A \cup C) <= Cardinality(To(d, S, i))
      BY <1>2, <1>3, FS_Subset
    <2> HIDE DEF A, C
    <2> QED
      BY <2>2, <2>3, <2>4, <2>5, <2>6
  <1>5. Cardinality(B) = Cardinality(C)
    <2>1. IsFiniteSet(B)
      <3>1. IsFiniteSet(Inum)
        BY FileSystemAssumption, FS_Interval DEF Inum
      <3>2. B \in SUBSET Inum
        OBVIOUS
      <3> QED
        BY <3>1, <3>2, FS_Subset
    <2>2. move \in Bijection(B, C)
      <3>1. move \in [B -> C]
        OBVIOUS
      <3>2. \A j, k \in B : move[j] = move[k] => j = k
        OBVIOUS
      <3>3. \A y \in C : \E j \in B : move[j] = y
        OBVIOUS
      <3> QED
        BY <3>1, <3>2, <3>3 DEF Bijection, Injection, Surjection, IsInjective
    <2>3. ExistsBijection(B, C)
      BY <2>2 DEF ExistsBijection
    <2> QED
      BY <2>1, <2>3, FS_Bijection
  <1>6. Links(d, i) = Cardinality(A) + Cardinality(B)
    BY DEF Links
  <1>7. d.ino[i].nlink >= Base(i) + Cardinality(To(d, S, i)) + pend[i] /\ d.ino[i].nlink \in Nat
    BY Linked DEF Tree, Covered
  <1>8. Base(i) \in Nat /\ pend[i] \in Nat
    BY DEF Base
  <1> HIDE DEF A, B, C
  <1>9. d.ino[i].nlink >= Links(d, i)
    BY <1>3, <1>4, <1>5, <1>6, <1>7, <1>8
  <1>10. Links(d, i) > 0 => d.ino[i].nlink # 0
    BY <1>4, <1>5, <1>6, <1>7, <1>9
  <1> QED
    BY <1>9, <1>10, Linked

\* The invariant says that the tables are well formed.
LEMMA NamesWellFormed ==
  ASSUME IInv, NInv
  PROVE  WellFormed
  <1>1. Types /\ BlocksExact /\ phase # "panic" /\ Counted
    BY DEF IInv, Inv, NInv
  <1>2. ASSUME NEW i \in Inum
        PROVE  ref[i] \in Nat
    <2>1. Inodes \in [Proc -> Seq(Inum \cup {0})]
      BY <1>1, InodesTyped
    <2>2. Cardinality(Uses(i, Inodes)) \in Nat
      BY <2>1, UsesFinite
    <2>3. Cardinality(Opens(i)) \in Nat
      BY OpensFinite
    <2> QED
      BY <1>1, <2>2, <2>3 DEF Counted
  <1>3. ASSUME NEW i \in Inum
        PROVE  fs.ino[i].nlink \in Nat /\ fs.ino[i].addrs \subseteq fs.used
    <2>1. fs.ino[i].nlink \in Nat
      BY <1>1, PendingTyped, Linked DEF NInv, Types
    <2> QED
      BY <1>1, <2>1 DEF BlocksExact
  <1>4. \A p \in Proc : cwd[p] \in Inum /\ Range(ofile[p]) \subseteq File
    BY <1>1 DEF Types, Range
  <1> QED
    BY <1>1, <1>2, <1>3, <1>4 DEF WellFormed, NoPanic, TypeOK, Types, Disk

\* It says that what has a name or a holder is in use.
LEMMA NamesAreInUse ==
  ASSUME IInv, NInv
  PROVE  NothingLiveIsFree
  <1>1. Types /\ (phase = "up" => Copies /\ FilesLive)
    BY DEF IInv, Inv
  <1>2. NamesAreLive
    <2>1. /\ fs \in Disk /\ Tree(fs, SwapsNow, PendingNow) /\ PendingNow \in [Inum -> Nat]
          /\ durable \in Disk /\ Tree(durable, SwapsThen, None) /\ None \in [Inum -> Nat]
      BY <1>1, PendingTyped DEF NInv, Types
    <2>2. \A i \in Inum : Links(fs, i) > 0 => fs.ino[i].type # "free" /\ fs.ino[i].nlink >= Links(fs, i)
      BY <2>1, LinksCovered
    <2>3. \A i \in Inum : Links(durable, i) > 0 =>
            durable.ino[i].type # "free" /\ durable.ino[i].nlink >= Links(durable, i)
      BY <2>1, LinksCovered
    <2> QED
      BY <2>2, <2>3 DEF NamesAreLive
  <1>3. HeldIsLive
    <2> SUFFICES ASSUME phase = "up", NEW i \in Range(cwd) \cup (Range(fip) \ {0})
                 PROVE  fs.ino[i].type # "free" /\ (i \in valid => mem[i] = fs.ino[i])
      BY DEF HeldIsLive
    <2>1. i \in valid => mem[i] = fs.ino[i]
      BY <1>1 DEF Copies
    <2>2. CASE i \in Range(cwd)
      <3>1. PICK p \in Proc : i = cwd[p]
        BY <1>1, <2>2 DEF Types, Range
      <3> QED
        BY <2>1, <3>1, AtHand DEF Good, Live
    <2>3. CASE i \in Range(fip) \ {0}
      <3>1. PICK f \in File : i = fip[f] /\ fip[f] # 0
        BY <1>1, <2>3 DEF Types, Range
      <3>2. fref[f] > 0
        BY <3>1 DEF NInv
      <3> QED
        BY <1>1, <2>1, <3>1, <3>2 DEF FilesLive
    <2> QED
      BY <2>2, <2>3
  <1> QED
    BY <1>2, <1>3 DEF NothingLiveIsFree

\* The inductive invariant of the names, as long as nobody strays.
THEOREM NamesInvariant == Hygiene /\ Spec /\ []NobodyStrays => []NInv
  <1>1. Hygiene /\ Init => IInv /\ NInv
    BY InitIs, StartIs, InitNames DEF IInv
  <1>2. (Hygiene /\ IInv /\ NInv) /\ NobodyStrays /\ [Next]_vars => (Hygiene /\ IInv /\ NInv)'
    BY NextNames
  <1> QED
    BY <1>1, <1>2, PTL DEF Spec

\* ilock never meets a free inode and iput never sleeps for a lock: the tables stay
\* well formed through every call, crash and recovery in which nobody strays.
THEOREM TablesAreWellFormed == Hygiene /\ Spec /\ []NobodyStrays => []WellFormed
  <1>1. IInv /\ NInv => WellFormed
    BY NamesWellFormed
  <1> QED
    BY <1>1, FileSystemInvariant, NamesInvariant, PTL

\* iput and ireclaim free nothing that has a name, an open file or a process in it,
\* whatever unlink, link, close, chdir, exit and a crash do, as long as nobody strays.
THEOREM NamedOrHeldIsLive == Hygiene /\ Spec /\ []NobodyStrays => []NothingLiveIsFree
  <1>1. IInv /\ NInv => NothingLiveIsFree
    BY NamesAreInUse
  <1> QED
    BY <1>1, FileSystemInvariant, NamesInvariant, PTL
-----------------------------------------------------------------------------
(* Calls that cannot stray: directories are made in the root alone.         *)

\* Every ".." leads to the root, and who makes a directory is there.
OneDeep(d) == \A i \in Inum : d.ents[i][".."] \in {0, ROOTINO}
Makes(s) == \E k \in DOMAIN s : s[k].op = "mkdir"
FlatCall(p) ==
  /\ FlatTodo(todo[p])
  /\ Makes(todo[p]) => cwd[p] = ROOTINO
  /\ at[p].pc # "user" /\ Call(p).op = "mkdir" /\ Stage(at[p]) \in {"walk", "parent"} =>
       at[p].cur = ROOTINO /\ Len(at[p].path) = 1
Flat == OneDeep(fs) /\ OneDeep(durable) /\ \A p \in Proc : FlatCall(p)

\* So nobody strays.
LEMMA FlatNoStrays ==
  ASSUME IInv, NInv, phase = "up", Flat
  PROVE  NobodyStrays
  <1> SUFFICES ASSUME NEW p \in Proc, Strays(p)
               PROVE  FALSE
    BY DEF NobodyStrays
  <1>1. at[p].pc \in {"walk", "parent"} /\ at[p].cur \in Inum /\ Stage(at[p]) = at[p].pc
    BY InCall DEF Strays, IInv, Placed, Stage, Puts
  <1>2. fs.ino[ROOTINO].nlink # 0
    BY AtHand
  <1>3. fs.ents[at[p].cur][".."] \in {0, ROOTINO}
    BY <1>1 DEF Flat, OneDeep
  <1>4. at[p].pc = "parent" /\ Call(p).op = "mkdir" => at[p].cur = ROOTINO
    BY <1>1 DEF Flat, FlatCall
  <1> QED
    BY <1>2, <1>3, <1>4 DEF Strays

\* A step of a process.
LEMMA FlatStep ==
  ASSUME Types, Flat, NEW p \in Proc,
         \A q \in Proc : q # p => at'[q] = at[q] /\ cwd'[q] = cwd[q] /\ todo'[q] = todo[q],
         OneDeep(fs)', durable' \in {durable, fs},
         todo'[p] = todo[p] \/ (Done(p) /\ todo[p] # <<>> /\ at'[p].pc = "user"),
         cwd'[p] = cwd[p] \/ ~Makes(todo'[p]),
         at'[p].pc # "user" /\ Call(p).op = "mkdir" /\ Stage(at'[p]) \in {"walk", "parent"} =>
           at'[p].cur = ROOTINO /\ Len(at'[p].path) = 1
  PROVE  Flat'
  <1>1. ASSUME NEW q \in Proc, q # p
        PROVE  FlatCall(q)'
    <2>1. FlatCall(q) /\ at'[q] = at[q] /\ cwd'[q] = cwd[q] /\ todo'[q] = todo[q]
      BY <1>1 DEF Flat
    <2> QED
      BY <2>1 DEF FlatCall, Call
  <1>2. FlatCall(p)'
    <2>1. FlatCall(p)
      BY DEF Flat
    <2>2. CASE todo'[p] = todo[p]
      BY <2>1, <2>2 DEF FlatCall, Call
    <2>3. CASE Done(p) /\ todo[p] # <<>> /\ at'[p].pc = "user"
      <3>1. PICK s \in Seq(Calls) : s = todo[p]
        BY DEF Types
      <3>2. PICK t : t = Tail(s)
        OBVIOUS
      <3>3. /\ s # <<>> /\ Len(s) \in Nat /\ DOMAIN s = 1..Len(s) /\ DOMAIN t = 1..(Len(s) - 1)
            /\ \A k \in DOMAIN t : t[k] = s[k + 1] /\ k + 1 \in DOMAIN s
        BY <2>3, <3>1, <3>2
      <3>4. todo'[p] = t
        BY <2>3, <3>1, <3>2 DEF Done, Types
      <3>5. FlatTodo(s) /\ (Makes(s) => cwd[p] = ROOTINO)
        BY <2>1, <3>1 DEF FlatCall
      <3>6. FlatTodo(t)
        <4> SUFFICES ASSUME NEW k \in DOMAIN t, t[k].op = "mkdir"
                     PROVE  Len(t[k].path) = 1 /\ \A j \in DOMAIN t : j < k => t[j].op # "chdir"
          BY DEF FlatTodo
        <4>1. s[k + 1] = t[k] /\ k + 1 \in DOMAIN s
          BY <3>3
        <4>2. Len(t[k].path) = 1 /\ \A j \in DOMAIN s : j < k + 1 => s[j].op # "chdir"
          BY <3>5, <4>1 DEF FlatTodo
        <4>3. ASSUME NEW j \in DOMAIN t, j < k
              PROVE  t[j].op # "chdir"
          <5>1. t[j] = s[j + 1] /\ j + 1 \in DOMAIN s /\ j + 1 < k + 1
            BY <3>3, <4>3
          <5> QED
            BY <4>2, <5>1
        <4> QED
          BY <4>2, <4>3
      <3>7. Makes(t) => Makes(s)
        BY <3>3 DEF Makes
      <3> QED
        BY <2>3, <3>4, <3>5, <3>6, <3>7 DEF FlatCall
    <2> QED
      BY <2>2, <2>3
  <1>3. OneDeep(durable)'
    BY DEF Flat, OneDeep
  <1> QED
    BY <1>1, <1>2, <1>3 DEF Flat

\* A step within a call that does not look for a directory.
LEMMA FlatCallStep ==
  ASSUME Types, Flat, NEW p \in Proc, UNCHANGED <<durable, cwd, todo>>,
         \A q \in Proc : q # p => at'[q] = at[q], OneDeep(fs)',
         Stage(at'[p]) \in {"walk", "parent"} =>
           /\ at[p].pc # "user" /\ Stage(at[p]) \in {"walk", "parent"}
           /\ at'[p].cur = at[p].cur /\ at'[p].path = at[p].path
  PROVE  Flat'
  <1>1. at'[p].pc # "user" /\ Call(p).op = "mkdir" /\ Stage(at'[p]) \in {"walk", "parent"} =>
          at'[p].cur = ROOTINO /\ Len(at'[p].path) = 1
    BY DEF Flat, FlatCall
  <1>2. \A q \in Proc : q # p => at'[q] = at[q] /\ cwd'[q] = cwd[q] /\ todo'[q] = todo[q]
    OBVIOUS
  <1>3. todo'[p] = todo[p] /\ cwd'[p] = cwd[p]
    OBVIOUS
  <1> QED
    BY <1>1, <1>2, <1>3, FlatStep

\* ... and gives references back.
LEMMA FlatPut ==
  ASSUME Types, Flat, NEW p \in Proc, UNCHANGED <<durable, cwd, todo>>, OneDeep(fs)',
         NEW ds, NEW l \in {"end", "undo", "again"}, PutThen(p, ds, l)
  PROVE  Flat'
  <1>1. at[p] \in Place
    BY DEF Types
  <1>2. at'[p].pc = "put" /\ at'[p].next = l /\ \A q \in Proc : q # p => at'[q] = at[q]
    BY <1>1 DEF Types, Place, PutThen, Goto
  <1>3. Stage(at'[p]) = l
    BY <1>2 DEF Stage, Puts
  <1> QED
    BY <1>2, <1>3, FlatCallStep

\* A name other than ".." does not matter.
LEMMA DeepWritten ==
  ASSUME fs \in Disk, OneDeep(fs), NEW a, NEW n, NEW v, n # ".." \/ v \in {0, ROOTINO},
         fs'.ents = [fs.ents EXCEPT ![a][n] = v]
  PROVE  OneDeep(fs)'
  BY DEF OneDeep, Disk

\* The steps that change neither directories nor todo, one by one: iput and the
\* calls on open files.
LEMMA FlatPuts ==
  ASSUME Types, Flat, NEW p \in Proc, Put(p) \/ DropRef(p) \/ Reap(p)
  PROVE  Flat'
  <1>1. UNCHANGED <<durable, cwd, todo>>
    BY DEF Put, DropRef, Reap, ftableVars, callVars
  <1>2. OneDeep(fs)'
    <2>1. OneDeep(fs) /\ fs \in Disk
      BY DEF Flat, Types
    <2>2. ASSUME NEW i \in Inum
          PROVE  fs'.ents[i] = fs.ents[i] \/ fs'.ents[i] = NoEntries
      BY <2>1 DEF Put, DropRef, Reap, Disk
    <2>3. NoEntries[".."] = 0
      BY DEF NoEntries, Names
    <2> QED
      BY <2>1, <2>2, <2>3 DEF OneDeep
  <1>3. at[p] \in Place /\ Puts(at[p])
    BY DEF Types, Puts, Put, DropRef, Reap
  <1>4. /\ \A q \in Proc : q # p => at'[q] = at[q]
        /\ at'[p].next = at[p].next /\ at'[p].cur = at[p].cur /\ at'[p].path = at[p].path
        /\ at'[p].pc \in {"put", "reap", "unref", at[p].next}
    <2>1. CASE Put(p) /\ Orphan(Head(at[p].drop))
      BY <1>3, <2>1 DEF Put, At, Goto, Types, Place
    <2>2. CASE (Put(p) /\ ~Orphan(Head(at[p].drop))) \/ DropRef(p)
      <3>1. PICK ds, l : ds = Tail(at[p].drop) /\ l = IF Len(at[p].drop) = 1 THEN at[p].next ELSE "put"
        OBVIOUS
      <3>2. Goto(p, [at[p] EXCEPT !.drop = ds, !.pc = l])
        BY <2>2, <3>1 DEF Put, DropRef, Unref
      <3>3. l \in {"put", at[p].next}
        BY <3>1
      <3> QED
        BY <1>3, <3>2, <3>3 DEF Goto, Types, Place
    <2>3. CASE Reap(p)
      BY <1>3, <2>3 DEF Reap, At, Goto, Types, Place
    <2> QED
      BY <2>1, <2>2, <2>3
  <1>5. Stage(at'[p]) = Stage(at[p])
    <2>1. at[p].next \notin {"put", "reap", "unref"}
      BY <1>3 DEF Place, Later
    <2> QED
      BY <1>3, <1>4, <2>1 DEF Stage, Puts
  <1>6. at[p].pc # "user"
    BY <1>3 DEF Puts
  <1> QED
    BY <1>1, <1>2, <1>4, <1>5, <1>6, FlatCallStep

\* The directories are as they were.
LEMMA DeepSame ==
  ASSUME Flat, fs'.ents = fs.ents
  PROVE  OneDeep(fs)'
  BY DEF Flat, OneDeep

\* What is written to the directories.
LEMMA EntsWritten ==
  \A new, ents, used : Write(new, ents, used) => fs'.ents = ents
  BY DEF Write

\* open, of an inode that is there.
LEMMA FlatOpens ==
  ASSUME Types, Flat, NEW p \in Proc, Existing(p) \/ Open(p) \/ Opened(p) \/ NotOpened(p)
  PROVE  Flat'
  <1>1. UNCHANGED <<durable, cwd, todo>>
    BY DEF Existing, Open, Opened, NotOpened, ftableVars, callVars
  <1>2. OneDeep(fs)'
    <2>1. (\E new, used : Write(new, fs.ents, used)) \/ fs' = fs
      BY ZenonT(30) DEF Existing, Open, Opened, NotOpened, Look
    <2>2. fs'.ents = fs.ents
      BY <2>1, EntsWritten
    <2> QED
      BY <2>2, DeepSame
  <1>3. \/ At(p, "opened") \/ At(p, "end") \/ PutThen(p, <<at[p].cur>>, "end")
    BY DEF Existing, Open, Opened, NotOpened
  <1>4. CASE At(p, "opened") \/ At(p, "end")
    <2>1. at'[p].pc \in {"opened", "end"} /\ \A q \in Proc : q # p => at'[q] = at[q]
      BY <1>4, AtIs DEF Pcs, Later
    <2>2. Stage(at'[p]) \notin {"walk", "parent"}
      BY <2>1 DEF Stage, Puts
    <2> QED
      BY <1>1, <1>2, <2>1, <2>2, FlatCallStep
  <1>5. CASE PutThen(p, <<at[p].cur>>, "end")
    BY <1>1, <1>2, <1>5, FlatPut
  <1> QED
    BY <1>3, <1>4, <1>5

\* write.
LEMMA FlatWrites ==
  ASSUME Types, Flat, NEW p \in Proc, WriteCall(p) \/ Writei(p)
  PROVE  Flat'
  <1>1. UNCHANGED <<durable, cwd, todo>>
    BY DEF WriteCall, Writei, ftableVars, callVars
  <1>2. OneDeep(fs)'
    <2>1. (\E new, used : Write(new, fs.ents, used)) \/ fs' = fs
      BY ZenonT(30) DEF WriteCall, Writei
    <2>2. fs'.ents = fs.ents
      BY <2>1, EntsWritten
    <2> QED
      BY <2>2, DeepSame
  <1>3. at'[p].pc \in {"write", "end"} /\ \A q \in Proc : q # p => at'[q] = at[q]
    <2>1. (\E c : Goto(p, [at[p] EXCEPT !.pc = "write", !.cur = c])) \/ At(p, "end")
      BY ZenonT(30) DEF WriteCall, Writei
    <2>2. CASE At(p, "end")
      BY <2>2, AtIs DEF Pcs, Later
    <2>3. ASSUME NEW c, Goto(p, [at[p] EXCEPT !.pc = "write", !.cur = c])
          PROVE  at'[p].pc = "write" /\ \A q \in Proc : q # p => at'[q] = at[q]
      BY <2>3 DEF Goto, Types, Place
    <2> QED
      BY <2>1, <2>2, <2>3
  <1>4. Stage(at'[p]) \notin {"walk", "parent"}
    BY <1>3 DEF Stage, Puts
  <1> QED
    BY <1>1, <1>2, <1>3, <1>4, FlatCallStep

\* link, and its way back.
LEMMA FlatLinks ==
  ASSUME IInv, NInv, phase = "up", Types, Flat, NEW p \in Proc, LinkNew(p) \/ LinkUndo(p)
  PROVE  Flat'
  <1>1. UNCHANGED <<durable, cwd, todo>>
    BY DEF LinkNew, LinkUndo, ftableVars, callVars
  <1>2. OneDeep(fs)'
    <2>1. CASE fs'.ents = fs.ents
      BY <2>1, DeepSame
    <2>2. CASE fs'.ents # fs.ents
      <3>1. PICK dp, name, i : dp = at[p].cur /\ name = Head(at[p].path) /\ i = at[p].ip
        OBVIOUS
      <3>2. /\ at[p].pc = "parent" /\ Ilock(dp) /\ fs.ents[dp][name] = 0
            /\ fs'.ents = [fs.ents EXCEPT ![dp][name] = i]
        BY <2>2, <3>1 DEF LinkNew, LinkUndo, Look, Save, Write
      <3>3. name # ".."
        BY <3>1, <3>2, AtParent
      <3> QED
        BY <3>2, <3>3, DeepWritten DEF Flat, Types
    <2> QED
      BY <2>1, <2>2
  <1>3. \/ PutThen(p, <<at[p].cur, at[p].ip>>, "end") \/ PutThen(p, <<at[p].cur>>, "undo")
        \/ PutThen(p, <<at[p].ip>>, "end")
    BY DEF LinkNew, LinkUndo
  <1> QED
    BY <1>1, <1>2, <1>3, FlatPut

\* unlink, and kexit's.
LEMMA FlatUnlinks ==
  ASSUME Types, Flat, NEW p \in Proc, Victim(p) \/ Unlink(p) \/ SwapUnlink(p)
  PROVE  Flat'
  <1>1. UNCHANGED <<durable, cwd, todo>>
    BY DEF Victim, Unlink, SwapUnlink, ftableVars, callVars
  <1>2. OneDeep(fs)'
    <2>1. CASE fs'.ents = fs.ents
      BY <2>1, DeepSame
    <2>2. CASE fs'.ents # fs.ents
      <3>1. PICK ents : ents = [fs.ents EXCEPT ![at[p].cur][Head(at[p].path)] = 0]
        OBVIOUS
      <3>2. \/ \E new, used : Write(new, ents, used)
            \/ \E new : Save(new)
            \/ fs' = fs
        BY <3>1, ZenonT(30) DEF Victim, Unlink, SwapUnlink, Look
      <3>3. fs'.ents = ents
        BY <2>2, <3>2, EntsWritten DEF Save
      <3>4. PICK a, n, v : v = 0 /\ fs'.ents = [fs.ents EXCEPT ![a][n] = v]
        BY <3>1, <3>3
      <3>5. v \in {0, ROOTINO} /\ fs \in Disk /\ OneDeep(fs)
        BY <3>4 DEF Flat, Types
      <3> QED
        BY <3>4, <3>5, DeepWritten
    <2> QED
      BY <2>1, <2>2
  <1>3. \/ Goto(p, [at[p] EXCEPT !.pc = "victim", !.ip = fs.ents[at[p].cur][Head(at[p].path)]])
        \/ PutThen(p, <<at[p].cur>>, "end")
        \/ PutThen(p, <<at[p].cur, at[p].ip>>, "end") \/ PutThen(p, <<at[p].ip, at[p].cur>>, "end")
    BY DEF Victim, Unlink, SwapUnlink
  <1>4. CASE Goto(p, [at[p] EXCEPT !.pc = "victim", !.ip = fs.ents[at[p].cur][Head(at[p].path)]])
    <2>1. PICK i : Goto(p, [at[p] EXCEPT !.pc = "victim", !.ip = i])
      BY <1>4
    <2>2. at'[p].pc = "victim" /\ \A q \in Proc : q # p => at'[q] = at[q]
      BY <2>1 DEF Goto, Types, Place
    <2>3. Stage(at'[p]) \notin {"walk", "parent"}
      BY <2>2 DEF Stage, Puts
    <2> QED
      BY <1>1, <1>2, <2>2, <2>3, FlatCallStep
  <1> QED
    BY <1>1, <1>2, <1>3, <1>4, FlatPut

\* A step to another inode, within a call.
LEMMA FlatGoes ==
  ASSUME Types, Flat, NEW p \in Proc, UNCHANGED <<durable, cwd, todo>>, OneDeep(fs)',
         NEW ds, NEW c, NEW l \in {"existing", "opened"},
         Goto(p, [at[p] EXCEPT !.pc = "put", !.drop = ds, !.cur = c, !.next = l])
  PROVE  Flat'
  <1>1. at'[p].pc = "put" /\ at'[p].next = l /\ \A q \in Proc : q # p => at'[q] = at[q]
    BY DEF Types, Place, Goto
  <1>2. Stage(at'[p]) = l
    BY <1>1 DEF Stage, Puts
  <1> QED
    BY <1>1, <1>2, FlatCallStep

\* create.
LEMMA FlatCreates ==
  ASSUME Types, Flat, NEW p \in Proc, CreateFinds(p) \/ CreateFails(p) \/ CreateUndone(p)
  PROVE  Flat'
  <1>1. UNCHANGED <<durable, cwd, todo>>
    BY DEF CreateFinds, CreateFails, CreateUndone, ftableVars, callVars
  <1>2. OneDeep(fs)'
    <2>1. (\E new : Save(new)) \/ fs' = fs
      BY ZenonT(30) DEF CreateFinds, CreateFails, CreateUndone, Look
    <2>2. fs'.ents = fs.ents
      BY <2>1, EntsWritten DEF Save
    <2> QED
      BY <2>2, DeepSame
  <1>3. CASE CreateFinds(p)
    <2>1. PICK ds, c : Goto(p, [at[p] EXCEPT !.pc = "put", !.drop = ds, !.cur = c, !.next = "existing"])
      BY <1>3 DEF CreateFinds
    <2> QED
      BY <1>1, <1>2, <2>1, FlatGoes
  <1>4. CASE CreateFails(p) \/ CreateUndone(p)
    <2>1. \E ds : PutThen(p, ds, "end")
      BY <1>4 DEF CreateFails, CreateUndone
    <2> QED
      BY <1>1, <1>2, <2>1, FlatPut
  <1> QED
    BY <1>3, <1>4

\* ... and makes a directory in the root.
LEMMA FlatCreateNew ==
  ASSUME IInv, NInv, phase = "up", Types, Flat, NEW p \in Proc, CreateNew(p)
  PROVE  Flat'
  <1>1. PICK dp, name, i, up : /\ dp = at[p].cur /\ name = Head(at[p].path) /\ i = Min(FreeInodes)
                               /\ up = IF TypeOf(p) = "dir" THEN dp ELSE 0
    OBVIOUS
  <1>2. PICK ents : ents = [fs.ents EXCEPT ![dp][name] = i, ![i][".."] = up]
    OBVIOUS
  <1>3. /\ at[p].pc = "parent" /\ Ilock(dp) /\ fs.ents[dp][name] = 0
        /\ Goto(p, [at[p] EXCEPT !.pc = "put", !.drop = <<dp>>, !.cur = i, !.next = "opened"])
        /\ UNCHANGED <<durable, cwd, todo>>
    BY <1>1 DEF CreateNew, CreateHere, ftableVars, callVars
  <1>4. fs'.ents = ents
    <2>1. \E new, used : Write(new, ents, used)
      BY <1>1, <1>2 DEF CreateNew
    <2> QED
      BY <2>1, EntsWritten
  <1>5. /\ name # ".." /\ Stage(at[p]) = "parent"
    BY <1>1, <1>3, AtParent
  <1>6. up \in {0, ROOTINO}
    BY <1>1, <1>3, <1>5 DEF Flat, FlatCall, TypeOf
  <1>7. OneDeep(fs)'
    <2>1. OneDeep(fs) /\ fs \in Disk
      BY DEF Flat, Types
    <2>2. PICK mid : mid = [fs.ents EXCEPT ![dp][name] = i]
      OBVIOUS
    <2>3. ents = [mid EXCEPT ![i][".."] = up]
      BY <1>2, <2>2
    <2>4. fs.ents \in [Inum -> [Names -> Inum \cup {0}]] /\ ".." \in Names
      BY <2>1 DEF Disk, Names
    <2>5. /\ DOMAIN mid = Inum
          /\ \A a \in Inum : mid[a][".."] = fs.ents[a][".."] /\ DOMAIN mid[a] = Names
      BY <1>5, <2>2, <2>4
    <2>6. \A a \in Inum : ents[a][".."] \in {fs.ents[a][".."], up}
      BY <2>3, <2>4, <2>5
    <2> QED
      BY <1>4, <1>6, <2>1, <2>6 DEF OneDeep
  <1>8. \E ds : Goto(p, [at[p] EXCEPT !.pc = "put", !.drop = ds, !.cur = i, !.next = "opened"])
    BY <1>3
  <1> QED
    BY <1>3, <1>7, <1>8, FlatGoes

\* A call begins: mkdir from the root.
LEMMA FlatBegin ==
  ASSUME Types, Flat, NEW p \in Proc, Begin(p)
  PROVE  Flat'
  <1>1. PICK c, path : /\ c = IF Call(p).op = "swapon" THEN ROOTINO ELSE cwd[p]
                       /\ path = Call(p).path
    OBVIOUS
  <1>2. /\ todo[p] # <<>> /\ Goto(p, [at[p] EXCEPT !.pc = "walk", !.cur = c, !.path = path])
        /\ UNCHANGED <<fs, durable, cwd, todo>>
    BY <1>1 DEF Begin, ftableVars
  <1>3. /\ at'[p].cur = c /\ at'[p].path = path /\ \A q \in Proc : q # p => at'[q] = at[q]
    BY <1>2 DEF Types, Place, Goto
  <1>4. Call(p).op = "mkdir" => c = ROOTINO /\ Len(path) = 1
    <2>1. 1 \in DOMAIN todo[p] /\ Call(p) = todo[p][1]
      BY <1>2 DEF Call, Types
    <2>2. FlatTodo(todo[p]) /\ (Makes(todo[p]) => cwd[p] = ROOTINO)
      BY DEF Flat, FlatCall
    <2> QED
      BY <1>1, <2>1, <2>2 DEF FlatTodo, Makes
  <1>5. OneDeep(fs)'
    BY <1>2, DeepSame
  <1>6. \A q \in Proc : q # p => at'[q] = at[q] /\ cwd'[q] = cwd[q] /\ todo'[q] = todo[q]
    BY <1>2, <1>3
  <1>7. todo'[p] = todo[p] /\ cwd'[p] = cwd[p] /\ durable' \in {durable, fs}
    BY <1>2
  <1>8. at'[p].pc # "user" /\ Call(p).op = "mkdir" /\ Stage(at'[p]) \in {"walk", "parent"} =>
          at'[p].cur = ROOTINO /\ Len(at'[p].path) = 1
    BY <1>3, <1>4
  <1> QED
    BY <1>5, <1>6, <1>7, <1>8, FlatStep

\* A path of one name is not walked.
LEMMA FlatWalk ==
  ASSUME Types, Flat, NEW p \in Proc, Walk(p)
  PROVE  Flat'
  <1>1. /\ at[p].pc = "walk" /\ UNCHANGED <<fs, durable, cwd, todo>>
    BY DEF Walk, Look, ftableVars, callVars
  <1>2. Stage(at[p]) = "walk" /\ at[p] \in Place
    BY <1>1 DEF Stage, Puts, Types
  <1>3. OneDeep(fs)'
    BY <1>1, DeepSame
  <1>4. CASE PutThen(p, <<at[p].cur>>, IfMissing(p))
    <2>1. IfMissing(p) \in {"end", "undo", "again"}
      BY DEF IfMissing
    <2> QED
      BY <1>1, <1>3, <1>4, <2>1, FlatPut
  <1>5. CASE At(p, "parent")
    <2>1. /\ at'[p].cur = at[p].cur /\ at'[p].path = at[p].path
          /\ \A q \in Proc : q # p => at'[q] = at[q]
      BY <1>5, AtIs DEF Pcs
    <2>2. at[p].pc # "user" /\ Stage(at[p]) \in {"walk", "parent"}
      BY <1>1, <1>2
    <2> QED
      BY <1>1, <1>3, <2>1, <2>2, FlatCallStep
  <1>6. ASSUME NEW ds, NEW c, NEW path, NEW l, ~(Len(at[p].path) = 1 /\ WantsParent(p)),
               Goto(p, [at[p] EXCEPT !.pc = "put", !.drop = ds, !.cur = c, !.path = path, !.next = l])
        PROVE  Flat'
    <2>1. Call(p).op # "mkdir"
      BY <1>1, <1>2, <1>6 DEF Flat, FlatCall, WantsParent
    <2>2. \A q \in Proc : q # p => at'[q] = at[q]
      BY <1>6 DEF Types, Goto
    <2>3. \A q \in Proc : q # p => at'[q] = at[q] /\ cwd'[q] = cwd[q] /\ todo'[q] = todo[q]
      BY <1>1, <2>2
    <2>4. todo'[p] = todo[p] /\ cwd'[p] = cwd[p] /\ durable' \in {durable, fs}
      BY <1>1
    <2> QED
      BY <1>3, <2>1, <2>3, <2>4, FlatStep
  <1>7. \/ PutThen(p, <<at[p].cur>>, IfMissing(p))
        \/ At(p, "parent")
        \/ /\ ~(Len(at[p].path) = 1 /\ WantsParent(p))
           /\ \E ds, c, path, l :
                Goto(p, [at[p] EXCEPT !.pc = "put", !.drop = ds, !.cur = c, !.path = path, !.next = l])
    BY ZenonT(30) DEF Walk
  <1> QED
    BY <1>4, <1>5, <1>6, <1>7

\* Going to another directory: no directory is made after that.
LEMMA FlatChdir ==
  ASSUME Types, Flat, NEW p \in Proc, todo[p] # <<>>, Chdir(p)
  PROVE  Flat'
  <1>1. /\ UNCHANGED <<fs, durable, todo>> /\ Call(p).op = "chdir"
        /\ \A q \in Proc : q # p => cwd'[q] = cwd[q]
    BY DEF Chdir, Look, callVars, Types
  <1>2. OneDeep(fs)'
    BY <1>1, DeepSame
  <1>3. PICK ds : PutThen(p, ds, "end")
    BY DEF Chdir
  <1>4. /\ at'[p].pc = "put" /\ at'[p].next = "end" /\ \A q \in Proc : q # p => at'[q] = at[q]
    BY <1>3 DEF Types, Place, PutThen, Goto
  <1>5. Stage(at'[p]) = "end"
    BY <1>4 DEF Stage, Puts
  <1>6. ~Makes(todo[p])
    <2>1. PICK s \in Seq(Calls) : s = todo[p]
      BY DEF Types
    <2>2. /\ Len(s) \in Nat /\ DOMAIN s = 1..Len(s) /\ s # <<>> /\ 1 \in DOMAIN s
          /\ s[1].op = "chdir"
      BY <1>1, <2>1 DEF Call
    <2>3. FlatTodo(s)
      BY <2>1 DEF Flat, FlatCall
    <2>4. ASSUME NEW k \in DOMAIN s, s[k].op = "mkdir"
          PROVE  FALSE
      <3>1. k # 1 /\ 1 < k
        BY <2>2, <2>4
      <3> QED
        BY <2>2, <2>3, <2>4, <3>1 DEF FlatTodo
    <2> QED
      BY <2>1, <2>4 DEF Makes
  <1>7. \A q \in Proc : q # p => at'[q] = at[q] /\ cwd'[q] = cwd[q] /\ todo'[q] = todo[q]
    BY <1>1, <1>4
  <1>8. durable' \in {durable, fs} /\ todo'[p] = todo[p] /\ ~Makes(todo'[p])
    BY <1>1, <1>6
  <1> QED
    BY <1>2, <1>5, <1>7, <1>8, FlatStep

\* link of an old name.
LEMMA FlatLinkOld ==
  ASSUME Types, Flat, NEW p \in Proc, LinkOld(p)
  PROVE  Flat'
  <1>1. UNCHANGED <<durable, cwd, todo>> /\ Call(p).op = "link"
    BY DEF LinkOld, ftableVars, callVars
  <1>2. OneDeep(fs)'
    <2>1. (\E new : Save(new)) \/ fs' = fs
      BY ZenonT(30) DEF LinkOld, Look
    <2>2. fs'.ents = fs.ents
      BY <2>1, EntsWritten DEF Save
    <2> QED
      BY <2>2, DeepSame
  <1>3. \A q \in Proc : q # p => at'[q] = at[q]
    BY DEF LinkOld, PutThen, Goto, Types
  <1>4. \A q \in Proc : q # p => at'[q] = at[q] /\ cwd'[q] = cwd[q] /\ todo'[q] = todo[q]
    BY <1>1, <1>3
  <1>5. todo'[p] = todo[p] /\ cwd'[p] = cwd[p] /\ durable' \in {durable, fs} /\ Call(p).op # "mkdir"
    BY <1>1
  <1> QED
    BY <1>2, <1>4, <1>5, FlatStep

\* The first transaction of an exit ends.
LEMMA FlatSwapFind ==
  ASSUME Types, Flat, NEW p \in Proc, Placed(at[p], Call(p)), SwapFind(p)
  PROVE  Flat'
  <1>1. UNCHANGED <<fs, cwd, todo>> /\ durable' \in {durable, fs} /\ at[p].pc = "again"
    BY DEF SwapFind, Committed, ftableVars, callVars
  <1>2. Call(p).op = "exit"
    BY <1>1 DEF Placed, Stage, Puts
  <1>3. OneDeep(fs)'
    BY <1>1, DeepSame
  <1>4. \A q \in Proc : q # p => at'[q] = at[q]
    BY DEF SwapFind, Goto, Types
  <1>5. \A q \in Proc : q # p => at'[q] = at[q] /\ cwd'[q] = cwd[q] /\ todo'[q] = todo[q]
    BY <1>1, <1>4
  <1>6. todo'[p] = todo[p] /\ cwd'[p] = cwd[p] /\ Call(p).op # "mkdir"
    BY <1>1, <1>2
  <1> QED
    BY <1>1, <1>3, <1>5, <1>6, FlatStep

\* A call is over.
LEMMA FlatDone ==
  ASSUME Types, Flat, NEW p \in Proc, todo[p] # <<>>, UNCHANGED <<fs, cwd>>, Done(p),
         durable' \in {durable, fs}, at'[p].pc = "user",
         \A q \in Proc : q # p => at'[q] = at[q]
  PROVE  Flat'
  <1>1. OneDeep(fs)'
    BY DeepSame
  <1>2. \A q \in Proc : q # p => at'[q] = at[q] /\ cwd'[q] = cwd[q] /\ todo'[q] = todo[q]
    BY DEF Done, Types
  <1> QED
    BY <1>1, <1>2, FlatStep

\* ... at the end of its transaction, or having had none.
LEMMA FlatEnds ==
  ASSUME Types, Flat, NEW p \in Proc, todo[p] # <<>>, EndOp(p) \/ Dup(p) \/ NothingToDo(p)
  PROVE  Flat'
  <1>1. UNCHANGED <<fs, cwd>> /\ Done(p) /\ durable' \in {durable, fs}
    BY DEF EndOp, Dup, NothingToDo, Committed, ftableVars
  <1>2. at'[p].pc = "user" /\ \A q \in Proc : q # p => at'[q] = at[q]
    BY DEF EndOp, Dup, NothingToDo, Idle, Types
  <1> QED
    BY <1>1, <1>2, FlatDone

\* close, and kexit's.
LEMMA FlatCloses ==
  ASSUME Types, Flat, NEW p \in Proc, Close(p) \/ SwapClose(p)
  PROVE  Flat'
  <1>1. UNCHANGED <<fs, durable, cwd>> /\ todo[p] # <<>> /\ at[p].pc = "user"
    BY DEF Close, SwapClose, ftableVars
  <1>2. \/ UNCHANGED todo /\ \E l \in {"end", "again"} : \E ds : PutThen(p, ds, l)
        \/ Done(p) /\ UNCHANGED at
    BY DEF Close, SwapClose, CloseLast
  <1>3. OneDeep(fs)'
    BY <1>1, DeepSame
  <1>4. CASE UNCHANGED todo /\ \E l \in {"end", "again"} : \E ds : PutThen(p, ds, l)
    <2>1. UNCHANGED <<durable, cwd, todo>>
      BY <1>1, <1>4
    <2>2. PICK l \in {"end", "again"} : \E ds : PutThen(p, ds, l)
      BY <1>4
    <2>3. PICK ds : PutThen(p, ds, l)
      BY <2>2
    <2>4. l \in {"end", "undo", "again"}
      OBVIOUS
    <2> QED
      BY <1>3, <2>1, <2>3, <2>4, FlatPut
  <1>5. CASE Done(p) /\ UNCHANGED at
    BY <1>1, <1>5, FlatDone
  <1> QED
    BY <1>2, <1>4, <1>5

\* A power failure: everyone starts from the root.
LEMMA FlatCrash ==
  ASSUME Flat, Crash
  PROVE  Flat'
  <1>1. OneDeep(fs)' /\ OneDeep(durable)'
    BY DEF Flat, Crash, OneDeep
  <1>2. ASSUME NEW p \in Proc
        PROVE  FlatCall(p)'
    <2>1. todo' = todo /\ cwd'[p] = ROOTINO /\ at'[p].pc = "user"
      BY DEF Crash, Idle
    <2>2. FlatTodo(todo[p])
      BY DEF Flat, FlatCall
    <2> QED
      BY <2>1, <2>2 DEF FlatCall
  <1> QED
    BY <1>1, <1>2 DEF Flat

\* The recovery takes directories away.
LEMMA FlatIreclaim ==
  ASSUME Types, Flat, Ireclaim
  PROVE  Flat'
  <1>1. UNCHANGED <<at, cwd, todo>> /\ durable' = fs'
    BY DEF Ireclaim, ftableVars, callVars
  <1>2. OneDeep(fs)'
    <2>1. OneDeep(fs) /\ fs \in Disk
      BY DEF Flat, Types
    <2>2. ASSUME NEW i \in Inum
          PROVE  fs'.ents[i] = fs.ents[i] \/ fs'.ents[i] = NoEntries
      BY <2>1 DEF Ireclaim, Disk
    <2>3. NoEntries[".."] = 0
      BY DEF NoEntries, Names
    <2> QED
      BY <2>1, <2>2, <2>3 DEF OneDeep
  <1>3. OneDeep(durable)'
    BY <1>1, <1>2 DEF OneDeep
  <1>4. \A p \in Proc : FlatCall(p)'
    BY <1>1 DEF Flat, FlatCall, Call
  <1> QED
    BY <1>2, <1>3, <1>4 DEF Flat

\* The processes start.
LEMMA FlatInit ==
  ASSUME FlatPlans, Init
  PROVE  Flat
  <1>1. NoEntries \in [Names -> {0}] /\ ".." \in Names
    BY DEF NoEntries, Names
  <1>2. OneDeep(Mkfs)
    BY <1>1 DEF OneDeep, Mkfs
  <1>3. ASSUME NEW p \in Proc
        PROVE  FlatCall(p)
    <2>1. cwd[p] = ROOTINO /\ at[p].pc = "user" /\ FlatTodo(todo[p])
      BY DEF Init, Idle, FlatPlans
    <2> QED
      BY <2>1 DEF FlatCall
  <1> QED
    BY <1>2, <1>3 DEF Init, Flat

\* Every step of a process.
LEMMA FlatSteps ==
  ASSUME IInv, NInv, Flat, NEW p \in Proc, Step(p)
  PROVE  Flat'
  <1>1. phase = "up" /\ Types
    BY DEF Step, IInv, Inv
  <1>2. at[p].pc # "user" => todo[p] # <<>> /\ Placed(at[p], Call(p))
    BY <1>1, InCall DEF IInv
  <1>3. CASE Begin(p) \/ Walk(p) \/ Put(p) \/ Reap(p) \/ DropRef(p)
    BY <1>1, <1>3, FlatBegin, FlatWalk, FlatPuts
  <1>4. CASE CreateFinds(p) \/ CreateFails(p) \/ CreateUndone(p) \/ CreateNew(p)
    BY <1>1, <1>4, FlatCreates, FlatCreateNew
  <1>5. CASE Existing(p) \/ Open(p) \/ Opened(p) \/ NotOpened(p)
    BY <1>1, <1>5, FlatOpens
  <1>6. CASE Chdir(p)
    <2>1. at[p].pc # "user"
      BY <1>6 DEF Chdir
    <2> QED
      BY <1>1, <1>2, <1>6, <2>1, FlatChdir
  <1>7. CASE LinkOld(p) \/ LinkNew(p) \/ LinkUndo(p)
    BY <1>1, <1>7, FlatLinkOld, FlatLinks
  <1>8. CASE Victim(p) \/ Unlink(p) \/ SwapUnlink(p)
    BY <1>1, <1>8, FlatUnlinks
  <1>9. CASE Close(p) \/ SwapClose(p) \/ WriteCall(p) \/ Writei(p)
    BY <1>1, <1>9, FlatCloses, FlatWrites
  <1>10. CASE SwapFind(p)
    <2>1. at[p].pc # "user"
      BY <1>10 DEF SwapFind
    <2> QED
      BY <1>1, <1>2, <1>10, <2>1, FlatSwapFind
  <1>11. CASE EndOp(p) \/ Dup(p) \/ NothingToDo(p)
    <2>1. todo[p] # <<>>
      BY <1>2, <1>11 DEF EndOp, Dup, NothingToDo
    <2> QED
      BY <1>1, <1>11, <2>1, FlatEnds
  <1> QED
    BY <1>3, <1>4, <1>5, <1>6, <1>7, <1>8, <1>9, <1>10, <1>11 DEF Step

\* Every step.
LEMMA FlatNext ==
  ASSUME IInv, NInv, Flat, [Next]_vars
  PROVE  Flat'
  <1>1. Types
    BY DEF IInv, Inv
  <1>2. CASE Booted \/ UNCHANGED vars
    <2>1. UNCHANGED <<fs, durable, cwd, at, todo>>
      BY <1>2 DEF Booted, vars, ftableVars, callVars
    <2> QED
      BY <2>1 DEF Flat, FlatCall, OneDeep, Call
  <1> QED
    BY <1>1, <1>2, FlatSteps, FlatCrash, FlatIreclaim DEF Next

\* Nobody walks while the kernel boots.
LEMMA FlatNobodyStrays ==
  ASSUME IInv, NInv, Flat
  PROVE  NobodyStrays
  <1>1. CASE phase = "up"
    BY <1>1, FlatNoStrays
  <1>2. CASE phase = "boot"
    <2>1. \A p \in Proc : at[p].pc = "user"
      BY <1>2 DEF NInv, Ahead, Idle
    <2> QED
      BY <2>1 DEF NobodyStrays, Strays
  <1> QED
    BY <1>1, <1>2 DEF IInv, Inv, Types, NInv

\* Processes whose directories are all in the root never stray, so the
\* invariant of the names is theirs without a hypothesis on what happens.
THEOREM FlatInvariant == Hygiene /\ FlatPlans /\ Spec => [](NInv /\ Flat)
  <1> DEFINE J == Hygiene /\ IInv /\ NInv /\ Flat
  <1>1. Hygiene /\ FlatPlans /\ Init => J
    BY InitIs, StartIs, InitNames, FlatInit DEF IInv
  <1>2. J /\ [Next]_vars => J'
    BY NextNames, FlatNext, FlatNobodyStrays
  <1> QED
    BY <1>1, <1>2, PTL DEF Spec

\* namex meets no removed directory and create makes no directory in one when all
\* directories are in the root.
THEOREM FlatNeverStrays == Hygiene /\ FlatPlans /\ Spec => []NobodyStrays
  <1>1. IInv /\ NInv /\ Flat => NobodyStrays
    BY FlatNobodyStrays
  <1> QED
    BY <1>1, FileSystemInvariant, FlatInvariant, PTL

\* Then no ilock meets a free inode, from the calls alone.
THEOREM FlatTablesAreWellFormed == Hygiene /\ FlatPlans /\ Spec => []WellFormed
  BY FlatNeverStrays, TablesAreWellFormed, PTL

\* And iput and ireclaim free nothing that has a name or a holder.
THEOREM FlatNamedOrHeldIsLive == Hygiene /\ FlatPlans /\ Spec => []NothingLiveIsFree
  BY FlatNeverStrays, NamedOrHeldIsLive, PTL
=============================================================================
