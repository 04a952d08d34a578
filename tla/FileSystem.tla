----------------------------- MODULE FileSystem -----------------------------
(***************************************************************************)
(* Inodes, directories, blocks and open files of kernel/fs.c, sysfile.c    *)
(* and file.c, with the swap files of proc.c and a power failure.          *)
(*                                                                         *)
(* A system call is a transaction of steps.  A step is what happens under  *)
(* one inode lock; where the code keeps a lock over the acquisition of     *)
(* another (create, unlink, kexit), the lock is state.  iput has its own   *)
(* steps, since it works between two critical sections of itable.lock.     *)
(* The log below is the atomic disk of AtomicDisk: when the last call of a *)
(* transaction ends, what they did is durable; a crash goes back to that.  *)
(***************************************************************************)
EXTENDS Integers, SequencesExt, FiniteSetsExt, Functions

CONSTANTS
  Proc, Nobody,
  NINODES,     \* sb.ninodes: inodes are 1..NINODES - 1, ROOTINO is 1
  NBLOCKS,     \* data blocks
  MAXFILE,     \* blocks of a file
  NFILE,       \* struct files
  Name,        \* directory entries other than ".."
  SwapName,    \* the name of a process's swap file
  Plans,       \* what the processes do: sequences of calls
  MaxCrashes

Inum == 1..(NINODES - 1)
Block == 1..NBLOCKS
File == 1..NFILE
ROOTINO == 1
Names == Name \cup {".."}

\* System calls.  The empty path, which namei takes for its start, is left out.
Calls == [op : {"open", "create", "mkdir", "chdir", "link", "unlink", "swapon",
                "close", "dup", "write", "exit"},
          path : Seq(Names), to : Seq(Names), write : BOOLEAN]
OnOpenFile == {"close", "dup", "write", "exit"}

WellMade(c) == /\ c.op \notin OnOpenFile => c.path # <<>>
               /\ c.op = "link" => c.to # <<>>

ASSUME FileSystemAssumption ==
  /\ IsFiniteSet(Proc) /\ Plans \subseteq [Proc -> Seq(Calls)]
  /\ \A plan \in Plans, p \in Proc : \A k \in DOMAIN plan[p] : WellMade(plan[p][k])
  /\ NINODES \in Nat \ {0, 1} /\ NBLOCKS \in Nat \ {0} /\ MAXFILE \in Nat \ {0}
  /\ NFILE \in Nat /\ MaxCrashes \in Nat /\ Nobody \notin Proc
  /\ IsFiniteSet(Name) /\ SwapName \in [Proc -> Name] /\ ".." \notin Name

VARIABLES
  \* the blocks of the disk as the running calls see them, and as the last
  \* commit left them: dinodes, directory contents, bitmap
  fs, durable,
  \* itable: references, "valid", the copies of dinodes, sleep locks
  ref, valid, mem, lock,
  \* ftable: references and inode; a process's files, swap file and directory
  fref, fip, ofile, swapFile, cwd,
  \* calls inside begin_op and end_op; where each process is in its call
  ops, at, todo,
  \* whether the kernel runs, boots or has panicked; power failures so far
  phase, crashes

itableVars == <<ref, valid, mem, lock>>
ftableVars == <<fref, fip, ofile, swapFile, cwd>>
callVars   == <<ops, todo>>
vars == <<fs, durable, itableVars, ftableVars, callVars, at, phase, crashes>>

NoInode == [type |-> "free", nlink |-> 0, addrs |-> {}]
NoEntries == [n \in Names |-> 0]
Idle == [pc |-> "user", cur |-> 0, ip |-> 0, path |-> <<>>, drop |-> <<>>, next |-> "end"]

\* mkfs leaves a root directory with one block.
Mkfs == [ino  |-> [i \in Inum |-> IF i = ROOTINO
                     THEN [type |-> "dir", nlink |-> 1, addrs |-> {1}] ELSE NoInode],
         ents |-> [i \in Inum |-> IF i = ROOTINO
                     THEN [NoEntries EXCEPT ![".."] = ROOTINO] ELSE NoEntries],
         used |-> {1}]

\* The processes' directories are the only references after a boot.
AtRoot == [i \in Inum |-> IF i = ROOTINO THEN Cardinality(Proc) ELSE 0]
NoFiles == [f \in File |-> 0]

Init ==
  /\ fs = Mkfs /\ durable = Mkfs
  /\ ref = AtRoot /\ valid = {} /\ mem = [i \in Inum |-> NoInode]
  /\ lock = [i \in Inum |-> Nobody]
  /\ fref = NoFiles /\ fip = NoFiles /\ ofile = [p \in Proc |-> <<>>]
  /\ swapFile = [p \in Proc |-> 0] /\ cwd = [p \in Proc |-> ROOTINO]
  /\ ops = {} /\ at = [p \in Proc |-> Idle] /\ todo \in Plans
  /\ phase = "up" /\ crashes = 0
-----------------------------------------------------------------------------
(* Inodes in memory, blocks, and how steps are put together.                *)

Call(p) == Head(todo[p])
Goto(p, r) == at' = [at EXCEPT ![p] = r]
At(p, l) == Goto(p, [at[p] EXCEPT !.pc = l])

\* Give the references in ds back, then go on at l.
PutThen(p, ds, l) == Goto(p, [at[p] EXCEPT !.pc = "put", !.drop = ds, !.next = l])

\* ilock: what the holder of i's lock sees.  A free inode is a panic.
Copy(i) == IF i \in valid THEN mem[i] ELSE fs.ino[i]
Ilock(i) ==
  /\ lock[i] = Nobody
  /\ phase' = IF i \notin valid /\ fs.ino[i].type = "free" THEN "panic" ELSE phase

One(i, x) == [k \in {i} |-> x]
Two(i, x, j, y) == [k \in {i, j} |-> IF k = i THEN x ELSE y]

\* ilock, iupdate of the inodes in new, a function from numbers to inodes, and
\* the change of the rest of the disk.
Write(new, ents, used) ==
  /\ mem' = [i \in Inum |-> IF i \in DOMAIN new THEN new[i] ELSE mem[i]]
  /\ valid' = valid \cup DOMAIN new
  /\ fs' = [ino |-> [i \in Inum |-> IF i \in DOMAIN new THEN new[i] ELSE fs.ino[i]],
            ents |-> ents, used |-> used]
Save(new) == Write(new, fs.ents, fs.used)

\* ilock and nothing else: the copy is read.
Look(i) == /\ valid' = valid \cup {i}
           /\ mem' = [mem EXCEPT ![i] = Copy(i)]
           /\ UNCHANGED fs

Iget(i) == ref' = [ref EXCEPT ![i] = @ + 1]
Lock(p, i) == lock' = [lock EXCEPT ![i] = p]

\* Mutant: an error path returns without iunlock.
StaysLocked(i) == UNCHANGED lock

Unlock(i) == lock' = [lock EXCEPT ![i] = Nobody]

\* balloc takes the first free block.
Spare == Block \ fs.used
NextBlock == {Min(Spare)}

\* Calls without begin_op are over at once.
Done(p) == todo' = [todo EXCEPT ![p] = Tail(@)]
-----------------------------------------------------------------------------
(* namex.                                                                   *)

LinksNow(p) == Call(p).op = "link" /\ at[p].ip # 0
WantsParent(p) == Call(p).op \in {"create", "mkdir", "unlink", "swapon", "exit"} \/ LinksNow(p)

\* Mutant: a link that fails forgets what it has done.
JustEnd(p) == "end"

IfMissing(p) == IF LinksNow(p) THEN "undo" ELSE "end"

\* begin_op, and the directory the path starts from.
Begin(p) ==
  /\ at[p].pc = "user" /\ todo[p] # <<>>
  /\ Call(p).op \notin OnOpenFile /\ (Call(p).op = "swapon" => swapFile[p] = 0)
  /\ LET start == IF Call(p).op = "swapon" THEN ROOTINO ELSE cwd[p] IN
       Iget(start) /\ Goto(p, [at[p] EXCEPT !.pc = "walk", !.cur = start, !.path = Call(p).path])
  /\ ops' = ops \cup {p}
  /\ UNCHANGED <<fs, durable, valid, mem, lock, ftableVars, todo, phase, crashes>>

\* One element of the path.
Walk(p) ==
  LET i    == at[p].cur
      name == Head(at[p].path)
      last == Len(at[p].path) = 1
      next == fs.ents[i][name] IN
  /\ at[p].pc = "walk"
  /\ Ilock(i) /\ Look(i)
  /\ \/ /\ Copy(i).type # "dir" \/ (next = 0 /\ ~(last /\ WantsParent(p)))
        /\ PutThen(p, <<i>>, IfMissing(p)) /\ UNCHANGED ref
     \/ /\ Copy(i).type = "dir" /\ last /\ WantsParent(p)
        /\ At(p, "parent") /\ UNCHANGED ref
     \/ /\ Copy(i).type = "dir" /\ next # 0 /\ ~(last /\ WantsParent(p))
        /\ Iget(next)
        /\ Goto(p, [at[p] EXCEPT !.pc = "put", !.drop = <<i>>, !.cur = next, !.path = Tail(@),
                                 !.next = IF last THEN "found" ELSE "walk"])
  /\ UNCHANGED <<durable, lock, ftableVars, callVars, crashes>>
-----------------------------------------------------------------------------
(* iput.                                                                    *)

\* Mutants: iput does not look at the other references, or not at the links.
Unlinked(i) == i \in valid /\ mem[i].nlink = 0
LastRef(i) == ref[i] = 1 /\ i \in valid

\* No links and no other references.
Orphan(i) == ref[i] = 1 /\ i \in valid /\ mem[i].nlink = 0

\* ref--; an entry without references has no copy worth keeping (iget).
Unref(p, i) ==
  /\ ref' = [ref EXCEPT ![i] = @ - 1]
  /\ valid' = IF ref[i] = 1 THEN valid \ {i} ELSE valid
  /\ mem' = IF ref[i] = 1 THEN [mem EXCEPT ![i] = NoInode] ELSE mem
  /\ Goto(p, [at[p] EXCEPT !.drop = Tail(@),
                           !.pc = IF Len(at[p].drop) = 1 THEN at[p].next ELSE "put"])

\* Sleeping for the lock with itable.lock held would panic in sched.
Put(p) ==
  LET i == Head(at[p].drop) IN
  /\ at[p].pc = "put"
  /\ \/ /\ Orphan(i)
        /\ phase' = IF lock[i] # Nobody THEN "panic" ELSE phase
        /\ Lock(p, i) /\ At(p, "reap")
        /\ UNCHANGED <<ref, valid, mem>>
     \/ ~Orphan(i) /\ Unref(p, i) /\ UNCHANGED <<lock, phase>>
  /\ UNCHANGED <<fs, durable, ftableVars, callVars, crashes>>

Invalidated(i) == valid \ {i}

\* Mutant: the inode is freed and its blocks are not.
NoBlocks(i) == {}

FreedBlocks(i) == mem[i].addrs

\* itrunc, type = 0, iupdate, valid = 0.
Reap(p) ==
  LET i == Head(at[p].drop) IN
  /\ at[p].pc = "reap"
  /\ fs' = [ino |-> [fs.ino EXCEPT ![i] = NoInode],
            ents |-> [fs.ents EXCEPT ![i] = NoEntries],
            used |-> fs.used \ FreedBlocks(i)]
  /\ mem' = [mem EXCEPT ![i] = NoInode] /\ valid' = Invalidated(i)
  /\ Unlock(i) /\ At(p, "unref")
  /\ UNCHANGED <<durable, ref, ftableVars, callVars, phase, crashes>>

DropRef(p) ==
  /\ at[p].pc = "unref"
  /\ Unref(p, Head(at[p].drop))
  /\ UNCHANGED <<fs, durable, lock, ftableVars, callVars, phase, crashes>>
-----------------------------------------------------------------------------
(* create.                                                                  *)

\* ialloc: the first free inode on the disk.
FreeInodes == {i \in Inum : fs.ino[i].type = "free"}
TypeOf(p) == IF Call(p).op = "mkdir" THEN "dir" ELSE "file"

\* The inode ialloc has marked, as ilock finds it.
Fresh(p, i) == IF i \in valid THEN mem[i] ELSE [NoInode EXCEPT !.type = TypeOf(p)]

CreateHere(p) ==
  /\ at[p].pc = "parent" /\ Call(p).op \in {"create", "mkdir", "swapon"}
  /\ Ilock(at[p].cur)

\* The name exists: dp is unlocked before ip is locked.
CreateFinds(p) ==
  LET dp == at[p].cur
      i  == fs.ents[dp][Head(at[p].path)] IN
  /\ CreateHere(p) /\ i # 0
  /\ Look(dp) /\ Iget(i)
  /\ Goto(p, [at[p] EXCEPT !.pc = "put", !.drop = <<dp>>, !.cur = i, !.next = "existing"])
  /\ UNCHANGED <<durable, lock, ftableVars, callVars, crashes>>

CreateFails(p) ==
  LET dp == at[p].cur IN
  /\ CreateHere(p) /\ fs.ents[dp][Head(at[p].path)] = 0
  /\ FreeInodes = {}
  /\ Look(dp) /\ PutThen(p, <<dp>>, "end")
  /\ UNCHANGED <<durable, ref, lock, ftableVars, callVars, crashes>>

\* "." and ".." of a directory need a block; without one ip has no links.
CreateUndone(p) ==
  LET dp == at[p].cur
      i  == Min(FreeInodes) IN
  /\ CreateHere(p) /\ fs.ents[dp][Head(at[p].path)] = 0
  /\ FreeInodes # {} /\ TypeOf(p) = "dir" /\ Spare = {}
  /\ Iget(i) /\ Save(Two(dp, Copy(dp), i, Fresh(p, i)))
  /\ PutThen(p, <<i, dp>>, "end")
  /\ UNCHANGED <<durable, lock, ftableVars, callVars, crashes>>

\* nlink++ for "..".
Parent(p, d) == IF TypeOf(p) = "dir" THEN [d EXCEPT !.nlink = @ + 1] ELSE d

CreateNew(p) ==
  LET dp   == at[p].cur
      name == Head(at[p].path)
      i    == Min(FreeInodes)
      dir  == TypeOf(p) = "dir"
      new  == [Fresh(p, i) EXCEPT !.nlink = 1, !.addrs = IF dir THEN NextBlock ELSE {}] IN
  /\ CreateHere(p) /\ fs.ents[dp][name] = 0
  /\ FreeInodes # {} /\ (dir => Spare # {}) /\ lock[i] = Nobody
  /\ Iget(i) /\ Lock(p, i)
  /\ Write(Two(dp, Parent(p, Copy(dp)), i, new),
           [fs.ents EXCEPT ![dp][name] = i, ![i][".."] = IF dir THEN dp ELSE 0],
           fs.used \cup new.addrs)
  /\ Goto(p, [at[p] EXCEPT !.pc = "put", !.drop = <<dp>>, !.cur = i, !.next = "opened"])
  /\ UNCHANGED <<durable, ftableVars, callVars, crashes>>

\* ip is locked, whoever made it: a file will do, unless a directory is wanted.
Existing(p) ==
  LET i == at[p].cur IN
  /\ at[p].pc = "existing"
  /\ Ilock(i) /\ Look(i)
  /\ \/ /\ Call(p).op # "mkdir" /\ Copy(i).type = "file"
        /\ Lock(p, i) /\ At(p, "opened")
     \/ /\ Call(p).op = "mkdir" \/ Copy(i).type # "file"
        /\ PutThen(p, <<i>>, "end") /\ UNCHANGED lock
  /\ UNCHANGED <<durable, ref, ftableVars, callVars, crashes>>
-----------------------------------------------------------------------------
(* open, mkdir, create_swap_file, chdir.                                    *)

Open(p) ==
  LET i == at[p].cur IN
  /\ at[p].pc = "found" /\ Call(p).op = "open"
  /\ Ilock(i) /\ Look(i)
  /\ \/ /\ Copy(i).type = "dir" /\ Call(p).write
        /\ PutThen(p, <<i>>, "end") /\ UNCHANGED lock
     \/ /\ ~(Copy(i).type = "dir" /\ Call(p).write)
        /\ Lock(p, i) /\ At(p, "opened")
  /\ UNCHANGED <<durable, ref, ftableVars, callVars, crashes>>

\* filealloc.
FreeFiles == {f \in File : fref[f] = 0}

\* ip is locked and has a reference for the struct file.
Opened(p) ==
  LET i == at[p].cur
      f == Min(FreeFiles)
      trunc == Call(p).op = "open" /\ Call(p).write /\ mem[i].type = "file" IN
  /\ at[p].pc = "opened" /\ Call(p).op # "mkdir" /\ FreeFiles # {}
  /\ fref' = [fref EXCEPT ![f] = 1] /\ fip' = [fip EXCEPT ![f] = i]
  /\ \/ Call(p).op = "swapon" /\ swapFile' = [swapFile EXCEPT ![p] = f] /\ UNCHANGED ofile
     \/ Call(p).op # "swapon" /\ ofile' = [ofile EXCEPT ![p] = Append(@, f)] /\ UNCHANGED swapFile
  /\ \/ trunc /\ Write(One(i, [mem[i] EXCEPT !.addrs = {}]), fs.ents, fs.used \ mem[i].addrs)
     \/ ~trunc /\ UNCHANGED <<fs, mem, valid>>
  /\ Unlock(i) /\ At(p, "end")
  /\ UNCHANGED <<durable, ref, cwd, callVars, phase, crashes>>

\* mkdir needs no file; open and the swap file do.
NotOpened(p) ==
  LET i == at[p].cur IN
  /\ at[p].pc = "opened" /\ (Call(p).op = "mkdir" \/ FreeFiles = {})
  /\ Unlock(i) /\ PutThen(p, <<i>>, "end")
  /\ UNCHANGED <<fs, durable, ref, valid, mem, ftableVars, callVars, phase, crashes>>

Chdir(p) ==
  LET i == at[p].cur IN
  /\ at[p].pc = "found" /\ Call(p).op = "chdir"
  /\ Ilock(i) /\ Look(i)
  /\ \/ /\ Copy(i).type = "dir"
        /\ cwd' = [cwd EXCEPT ![p] = i] /\ PutThen(p, <<cwd[p]>>, "end")
     \/ Copy(i).type # "dir" /\ PutThen(p, <<i>>, "end") /\ UNCHANGED cwd
  /\ UNCHANGED <<durable, ref, lock, fref, fip, ofile, swapFile, callVars, crashes>>
-----------------------------------------------------------------------------
(* link.                                                                    *)

LinkOld(p) ==
  LET i == at[p].cur IN
  /\ at[p].pc = "found" /\ Call(p).op = "link" /\ ~LinksNow(p)
  /\ Ilock(i)
  /\ \/ /\ Copy(i).type # "dir"
        /\ Save(One(i, [Copy(i) EXCEPT !.nlink = @ + 1]))
        /\ Iget(cwd[p])
        /\ Goto(p, [at[p] EXCEPT !.pc = "walk", !.ip = i, !.cur = cwd[p], !.path = Call(p).to])
     \/ Copy(i).type = "dir" /\ Look(i) /\ PutThen(p, <<i>>, "end") /\ UNCHANGED ref
  /\ UNCHANGED <<durable, lock, ftableVars, callVars, crashes>>

LinkNew(p) ==
  LET dp == at[p].cur
      name == Head(at[p].path) IN
  /\ at[p].pc = "parent" /\ LinksNow(p)
  /\ Ilock(dp)
  /\ \/ /\ fs.ents[dp][name] = 0
        /\ Write(One(dp, Copy(dp)), [fs.ents EXCEPT ![dp][name] = at[p].ip], fs.used)
        /\ PutThen(p, <<dp, at[p].ip>>, "end")
     \/ fs.ents[dp][name] # 0 /\ Look(dp) /\ PutThen(p, <<dp>>, "undo")
  /\ UNCHANGED <<durable, ref, lock, ftableVars, callVars, crashes>>

TakenBack(d) == [d EXCEPT !.nlink = @ - 1]

LinkUndo(p) ==
  LET i == at[p].ip IN
  /\ at[p].pc = "undo"
  /\ Ilock(i) /\ Save(One(i, TakenBack(Copy(i)))) /\ PutThen(p, <<i>>, "end")
  /\ UNCHANGED <<durable, ref, lock, ftableVars, callVars, crashes>>
-----------------------------------------------------------------------------
(* unlink, and what kexit does with the swap file's name.                   *)

\* dp stays locked while ip is locked.
Victim(p) ==
  LET dp == at[p].cur
      i  == fs.ents[dp][Head(at[p].path)] IN
  /\ at[p].pc = "parent" /\ Call(p).op \in {"unlink", "exit"}
  /\ Ilock(dp) /\ Look(dp)
  /\ \/ /\ i # 0 /\ Head(at[p].path) # ".."
        /\ Iget(i) /\ Lock(p, dp) /\ Goto(p, [at[p] EXCEPT !.pc = "victim", !.ip = i])
     \/ /\ i = 0 \/ Head(at[p].path) = ".."
        /\ PutThen(p, <<dp>>, "end") /\ UNCHANGED <<ref, lock>>
  /\ UNCHANGED <<durable, ftableVars, callVars, crashes>>

\* isdirempty.
Empty(i) == \A n \in Name : fs.ents[i][n] = 0

Unlink(p) ==
  LET dp  == at[p].cur
      i   == at[p].ip
      dir == Copy(i).type = "dir" IN
  /\ at[p].pc = "victim" /\ Call(p).op = "unlink"
  /\ Ilock(i)
  /\ \/ /\ dir => Empty(i)
        /\ Write(Two(dp, IF dir THEN TakenBack(mem[dp]) ELSE mem[dp], i, TakenBack(Copy(i))),
                 [fs.ents EXCEPT ![dp][Head(at[p].path)] = 0], fs.used)
        /\ PutThen(p, <<dp, i>>, "end")
     \/ dir /\ ~Empty(i) /\ Look(i) /\ PutThen(p, <<i, dp>>, "end")
  /\ Unlock(dp)
  /\ UNCHANGED <<durable, ref, ftableVars, callVars, crashes>>

\* The link count goes down and the directory entry stays.
SwapUnlink(p) ==
  LET i == at[p].ip IN
  /\ at[p].pc = "victim" /\ Call(p).op = "exit"
  /\ Ilock(i) /\ Save(One(i, TakenBack(Copy(i))))
  /\ Unlock(at[p].cur) /\ PutThen(p, <<i, at[p].cur>>, "end")
  /\ UNCHANGED <<durable, ref, ftableVars, callVars, crashes>>
-----------------------------------------------------------------------------
(* Calls on open files, the end of a call, and crashes.                     *)

\* fileclose.
CloseLast(p, f, l) ==
  /\ fref' = [fref EXCEPT ![f] = 0] /\ fip' = [fip EXCEPT ![f] = 0]
  /\ ops' = ops \cup {p}
  /\ PutThen(p, <<fip[f]>>, l)

Close(p) ==
  LET f == Head(ofile[p]) IN
  /\ at[p].pc = "user" /\ todo[p] # <<>> /\ Call(p).op = "close" /\ ofile[p] # <<>>
  /\ ofile' = [ofile EXCEPT ![p] = Tail(@)]
  /\ \/ fref[f] = 1 /\ CloseLast(p, f, "end") /\ UNCHANGED todo
     \/ fref[f] > 1 /\ fref' = [fref EXCEPT ![f] = @ - 1] /\ Done(p) /\ UNCHANGED <<fip, ops, at>>
  /\ UNCHANGED <<fs, durable, itableVars, swapFile, cwd, phase, crashes>>

\* sys_dup: filedup.
Dup(p) ==
  /\ at[p].pc = "user" /\ todo[p] # <<>> /\ Call(p).op = "dup" /\ ofile[p] # <<>>
  /\ fref' = [fref EXCEPT ![Head(ofile[p])] = @ + 1]
  /\ ofile' = [ofile EXCEPT ![p] = Append(@, Head(@))]
  /\ Done(p)
  /\ UNCHANGED <<fs, durable, itableVars, fip, swapFile, cwd, ops, at, phase, crashes>>

\* argfd fails, or there is no swap file to remove, or one already.
NothingToDo(p) ==
  /\ at[p].pc = "user" /\ todo[p] # <<>>
  /\ \/ Call(p).op \in {"close", "dup", "write"} /\ ofile[p] = <<>>
     \/ Call(p).op = "exit" /\ swapFile[p] = 0
     \/ Call(p).op = "swapon" /\ swapFile[p] # 0
  /\ Done(p)
  /\ UNCHANGED <<fs, durable, itableVars, ftableVars, ops, at, phase, crashes>>

\* filewrite: a block more, while there is one and the file may grow.
WriteCall(p) ==
  /\ at[p].pc = "user" /\ todo[p] # <<>> /\ Call(p).op = "write" /\ ofile[p] # <<>>
  /\ ops' = ops \cup {p} /\ Goto(p, [at[p] EXCEPT !.pc = "write", !.cur = fip[Head(ofile[p])]])
  /\ UNCHANGED <<fs, durable, itableVars, ftableVars, todo, phase, crashes>>

Writei(p) ==
  LET i == at[p].cur
      more == IF Cardinality(Copy(i).addrs) < MAXFILE /\ Spare # {} THEN NextBlock ELSE {} IN
  /\ at[p].pc = "write"
  /\ Ilock(i)
  /\ Write(One(i, [Copy(i) EXCEPT !.addrs = @ \cup more]), fs.ents, fs.used \cup more)
  /\ At(p, "end")
  /\ UNCHANGED <<durable, ref, lock, ftableVars, callVars, crashes>>

\* kexit closes the swap file in one transaction and goes for its name in the next.
SwapClose(p) ==
  /\ at[p].pc = "user" /\ todo[p] # <<>> /\ Call(p).op = "exit" /\ swapFile[p] # 0
  /\ CloseLast(p, swapFile[p], "again")
  /\ swapFile' = [swapFile EXCEPT ![p] = 0]
  /\ UNCHANGED <<fs, durable, itableVars, ofile, cwd, todo, phase, crashes>>

\* end_op: the last one out commits for all.
Committed(p) == IF ops = {p} THEN fs ELSE durable

SwapFind(p) ==
  /\ at[p].pc = "again"
  /\ durable' = Committed(p)
  /\ Iget(ROOTINO)
  /\ Goto(p, [at[p] EXCEPT !.pc = "walk", !.cur = ROOTINO, !.path = <<SwapName[p]>>])
  /\ UNCHANGED <<fs, valid, mem, lock, ftableVars, callVars, phase, crashes>>

EndOp(p) ==
  /\ at[p].pc = "end"
  /\ durable' = Committed(p) /\ ops' = ops \ {p}
  /\ at' = [at EXCEPT ![p] = Idle] /\ Done(p)
  /\ UNCHANGED <<fs, itableVars, ftableVars, phase, crashes>>

\* Power fails; the processes start again with the rest of what they do.
Crash ==
  /\ phase \in {"up", "boot"} /\ crashes < MaxCrashes
  /\ crashes' = crashes + 1 /\ phase' = "boot"
  /\ fs' = durable
  /\ ref' = AtRoot /\ valid' = {} /\ mem' = [i \in Inum |-> NoInode]
  /\ lock' = [i \in Inum |-> Nobody]
  /\ fref' = NoFiles /\ fip' = NoFiles /\ ofile' = [p \in Proc |-> <<>>]
  /\ swapFile' = [p \in Proc |-> 0] /\ cwd' = [p \in Proc |-> ROOTINO]
  /\ ops' = {} /\ at' = [p \in Proc |-> Idle]
  /\ UNCHANGED <<durable, todo>>

Orphans == {i \in Inum : fs.ino[i].type # "free" /\ fs.ino[i].nlink = 0}

\* ireclaim, one transaction for each orphan; then the processes start.
Ireclaim ==
  /\ phase = "boot" /\ Orphans # {}
  /\ LET i == Min(Orphans) IN
       fs' = [ino |-> [fs.ino EXCEPT ![i] = NoInode],
              ents |-> [fs.ents EXCEPT ![i] = NoEntries],
              used |-> fs.used \ fs.ino[i].addrs]
  /\ durable' = fs'
  /\ UNCHANGED <<itableVars, ftableVars, callVars, at, phase, crashes>>

Booted ==
  /\ phase = "boot" /\ Orphans = {}
  /\ phase' = "up"
  /\ UNCHANGED <<fs, durable, itableVars, ftableVars, callVars, at, crashes>>

Step(p) ==
  /\ phase = "up"
  /\ \/ Begin(p) \/ Walk(p) \/ Put(p) \/ Reap(p) \/ DropRef(p)
     \/ CreateFinds(p) \/ CreateFails(p) \/ CreateUndone(p) \/ CreateNew(p) \/ Existing(p)
     \/ Open(p) \/ Opened(p) \/ NotOpened(p) \/ Chdir(p)
     \/ LinkOld(p) \/ LinkNew(p) \/ LinkUndo(p)
     \/ Victim(p) \/ Unlink(p) \/ SwapUnlink(p)
     \/ Close(p) \/ Dup(p) \/ NothingToDo(p) \/ WriteCall(p) \/ Writei(p)
     \/ SwapClose(p) \/ SwapFind(p) \/ EndOp(p)
Next == (\E p \in Proc : Step(p)) \/ Crash \/ Ireclaim \/ Booted

Fairness == WF_vars(Ireclaim \/ Booted) /\ \A p \in Proc : WF_vars(Step(p))
Spec == Init /\ [][Next]_vars /\ Fairness
-----------------------------------------------------------------------------
TypeOK ==
  /\ \A i \in Inum : /\ ref[i] \in Nat /\ lock[i] \in Proc \cup {Nobody}
                     /\ fs.ino[i].nlink \in Nat /\ fs.ino[i].addrs \subseteq fs.used
  /\ valid \subseteq Inum /\ fs.used \subseteq Block /\ ops \subseteq Proc
  /\ fref \in [File -> Nat] /\ fip \in [File -> Inum \cup {0}]
  /\ \A p \in Proc : cwd[p] \in Inum /\ Range(ofile[p]) \subseteq File

\* The references in a process's local variables: what it is about to put, the
\* inode it goes on with, and the second one of link, unlink and kexit.
Puts(r) == r.pc \in {"put", "reap", "unref"}
Stage(r) == IF Puts(r) THEN r.next ELSE r.pc
Locals(r) ==
  (IF Puts(r) THEN r.drop ELSE <<>>)
  \o (IF Stage(r) \in {"walk", "parent", "found", "existing", "opened", "victim"}
        THEN <<r.cur>> ELSE <<>>)
  \o (IF Stage(r) \in {"undo", "victim"} \/ (Stage(r) \in {"walk", "parent"} /\ r.ip # 0)
        THEN <<r.ip>> ELSE <<>>)

\* A process's references to inodes and to struct files.
Inodes == [p \in Proc |-> <<cwd[p]>> \o Locals(at[p])]
Files == [p \in Proc |-> ofile[p] \o (IF swapFile[p] = 0 THEN <<>> ELSE <<swapFile[p]>>)]

\* Where x is among the references s.
Uses(x, s) == {y \in UNION {{p} \X DOMAIN s[p] : p \in Proc} : s[y[1]][y[2]] = x}

\* Every path through the calls, their failures included, gives back exactly the
\* references it took: an inode's are the working directories, open files and
\* local variables that name it, a struct file's are the descriptors.
RefsAreHolders ==
  phase = "up" =>
    /\ \A i \in Inum : ref[i] = Cardinality(Uses(i, Inodes))
                                + Cardinality({f \in File : fref[f] > 0 /\ fip[f] = i})
    /\ \A f \in File : fref[f] = Cardinality(Uses(f, Files))

\* A block is in the bitmap when one inode has it, and no two have it: balloc,
\* itrunc, iput and ireclaim, also in what a crash leaves.
BlocksExact ==
  \A d \in {fs, durable} :
    /\ d.used = UNION {d.ino[i].addrs : i \in Inum}
    /\ \A i, j \in Inum : i # j => d.ino[i].addrs \cap d.ino[j].addrs = {}
    /\ \A i \in Inum : d.ino[i].type = "free" => d.ino[i].addrs = {}

\* A name that is not a swap file's leads to an inode in use, whose link count
\* covers its names and the ".." of the directories in it, so it is not freed
\* under one of them: create, link, unlink and their failures, and any crash.
UserNames == Name \ Range(SwapName)
Links(d, i) ==
  Cardinality({y \in Inum \X UserNames : d.ents[y[1]][y[2]] = i})
  + Cardinality({j \in Inum \ {ROOTINO} : d.ino[j].nlink > 0 /\ d.ents[j][".."] = i})
NamesAreLive ==
  \A d \in {fs, durable} : \A i \in Inum :
    Links(d, i) > 0 => d.ino[i].type # "free" /\ d.ino[i].nlink >= Links(d, i)

\* An open file or a working directory keeps its inode, named or not, whoever
\* unlinks it and whoever puts references to it at the same time.
HeldIsLive ==
  phase = "up" =>
    \A i \in Range(cwd) \cup (Range(fip) \ {0}) :
      fs.ino[i].type # "free" /\ (i \in valid => mem[i] = fs.ino[i])

\* Nothing that has a name or a holder is freed, by unlink, close, chdir, exit,
\* a failed call or the recovery after a crash (iput, ireclaim).
NothingLiveIsFree == NamesAreLive /\ HeldIsLive

\* No path that stays clear of old swap names meets a free inode in ilock, and
\* the acquiresleep in iput never has to sleep under itable.lock.
NoPanic == phase # "panic"

\* ... and the tables stay well formed (ilock, iput, create).
WellFormed == TypeOK /\ NoPanic

\* Locks are taken from parent to child and given back: every call returns,
\* whatever the others do to the same directories.
CallsReturn == <>(phase = "panic" \/ \A p \in Proc : todo[p] = <<>>)

\* iput, "If that was the last reference and the inode has no links to it, free
\* the inode (and its content) on disk": an inode without links is held by
\* someone who will free it.
LastReferenceFrees == phase = "up" => \A i \in Orphans : ref[i] > 0
-----------------------------------------------------------------------------
(* Calls that keep clear of what the code does not guard against: a swap    *)
(* file's name that leads to a free inode, and a removed directory.         *)

\* A swap name is its process's own, only swapon and exit go to it, and exit is
\* the last of them.
Steps == UserNames \cup {".."}
Tidy(p, c) ==
  IF c.op = "swapon" THEN c.path = <<SwapName[p]>>
  ELSE c.path \in Seq(Steps) /\ c.to \in Seq(Steps)
Swapping(c) == c.op \in {"swapon", "exit"}
Tidily(p, s) ==
  /\ \A k \in DOMAIN s : Tidy(p, s[k])
  /\ \A j, k \in DOMAIN s : j < k /\ s[j].op = "exit" => ~Swapping(s[k])
Hygiene == /\ \A p, q \in Proc : SwapName[p] = SwapName[q] => p = q
           /\ \A plan \in Plans : \A p \in Proc : Tidily(p, plan[p])

\* p follows ".." to a directory that has been removed, or makes one in it.
Strays(p) ==
  LET r == at[p]
      i == fs.ents[r.cur][".."] IN
  /\ r.pc \in {"walk", "parent"}
  /\ \/ Head(r.path) = ".." /\ i # 0 /\ fs.ino[i].nlink = 0
     \/ r.pc = "parent" /\ Call(p).op = "mkdir" /\ Head(r.path) # ".." /\ fs.ino[r.cur].nlink = 0
NobodyStrays == \A p \in Proc : ~Strays(p)

\* Calls that cannot: a process makes directories by one name, and before it
\* goes to another directory.
FlatTodo(s) ==
  \A k \in DOMAIN s : s[k].op = "mkdir" =>
    Len(s[k].path) = 1 /\ \A j \in DOMAIN s : j < k => s[j].op # "chdir"
FlatPlans == \A plan \in Plans : \A p \in Proc : FlatTodo(plan[p])
=============================================================================
