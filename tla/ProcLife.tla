------------------------------ MODULE ProcLife ------------------------------
(***************************************************************************)
(* The life of processes in kernel/proc.c: fork, exit, wait and kill over  *)
(* sleep, wakeup and the scheduler, with the spinlocks they take, and the  *)
(* sleep locks of sleeplock.c.                                             *)
(*                                                                         *)
(* One action is what a process does while it holds a lock, or until it    *)
(* takes the next one.  p->lock is held across the switch to the           *)
(* scheduler: a process that has given up its state keeps the lock until   *)
(* the CPU has left its stack (Switch).                                    *)
(***************************************************************************)
EXTENDS Integers

CONSTANTS
  NPROC,     \* slots of the process table
  Cpu,
  NoProc, NoChan,
  Lk,        \* a sleep lock, say the root directory's
  Targets,   \* pids a program may pass to kill
  YieldAt,   \* bound: where in the kernel the timer may interrupt
  MaxPid     \* bound: pids that are given out

Slot == 0..NPROC-1
initproc == 0
Pid == 1..MaxPid

ASSUME SizesAssumption == NPROC \in Nat \ {0} /\ MaxPid \in Nat \ {0}
ASSUME NamesAssumption == NoProc \notin Slot /\ NoChan \notin Slot \cup {Lk} /\ Lk \notin Slot
\* Killing init makes the kernel panic ("init exiting"): no program does it here.
ASSUME TargetsAssumption == Targets \subseteq Nat \ {1}

VARIABLES
  \* struct proc: state, parent, chan, killed, pid, and who holds lock
  state, parent, chan, killed, pid, lock,
  \* wait_lock, nextpid
  waitLock, nextpid,
  \* c->proc
  cpu,
  \* struct sleeplock: lk, and pid if locked
  spin, holder,
  \* where a process is; its loop index; np in fork, the pid in kill
  pc, i, arg,
  \* processes in kexit; pids that wait has returned
  exiting, reaped

procVars == <<state, parent, chan, killed, pid, lock>>
lkVars   == <<spin, holder>>
locals   == <<pc, i, arg>>
vars == <<procVars, waitLock, nextpid, cpu, lkVars, locals, exiting, reaped>>

Live == {"SLEEPING", "RUNNABLE", "RUNNING"}
Kids(p) == {q \in Slot : parent[q] = p}

\* p is the process of some CPU and is executing its own code.
Runs(p) == state[p] = "RUNNING" /\ \E c \in Cpu : cpu[c] = p
At(p, step) == Runs(p) /\ pc[p] = step
Goto(p, step) == pc' = [pc EXCEPT ![p] = step] /\ i' = [i EXCEPT ![p] = 0]
Again(p) == i' = [i EXCEPT ![p] = @ + 1] /\ UNCHANGED pc

Free(q) == lock[q] = NoProc

-----------------------------------------------------------------------------
(* The scheduler, sleep and wakeup.                                         *)

\* Mutant: sleep gives its lock back before the CPU has left the stack.
SchedUnlocked(p, s, c) ==
  /\ Free(p)
  /\ UNCHANGED lock
  /\ state' = [state EXCEPT ![p] = s]
  /\ chan'  = [chan EXCEPT ![p] = c]

\* Up to sched(): p takes its own lock, changes its state and keeps the lock.
Sched(p, s, c) ==
  /\ Free(p)
  /\ lock'  = [lock EXCEPT ![p] = p]
  /\ state' = [state EXCEPT ![p] = s]
  /\ chan'  = [chan EXCEPT ![p] = c]

\* The scheduler's half of a swtch out of p.
Switch(c) ==
  LET p == cpu[c] IN
  /\ p # NoProc /\ state[p] # "RUNNING"
  /\ cpu' = [cpu EXCEPT ![c] = NoProc]
  /\ lock' = [lock EXCEPT ![p] = NoProc]
  /\ UNCHANGED <<state, parent, chan, killed, pid, waitLock, nextpid, lkVars, locals, exiting, reaped>>

\* scheduler runs p, which tidies up after sleep or yield and releases its lock.
Dispatch(c, p) ==
  /\ cpu[c] = NoProc /\ Free(p) /\ state[p] = "RUNNABLE"
  /\ state' = [state EXCEPT ![p] = "RUNNING"]
  /\ chan'  = [chan EXCEPT ![p] = NoChan]
  /\ cpu'   = [cpu EXCEPT ![c] = p]
  /\ UNCHANGED <<parent, killed, pid, lock, waitLock, nextpid, lkVars, locals, exiting, reaped>>

\* Interrupts are off while a spinlock is held.
HoldsSpinlock(p) == waitLock = p \/ spin = p \/ \E q \in Slot : lock[q] = p

\* A timer interrupt in the kernel (kerneltrap): yield.
Preempt(p) ==
  /\ Runs(p) /\ pc[p] \in YieldAt /\ ~HoldsSpinlock(p)
  /\ Sched(p, "RUNNABLE", chan[p])
  /\ UNCHANGED <<parent, killed, pid, waitLock, nextpid, cpu, lkVars, locals, exiting, reaped>>

\* One round of wakeup's loop over the table, for the channel c.
WakeOne(p, c) ==
  LET q == i[p] IN
  /\ q < NPROC /\ (q # p => Free(q))
  /\ state' = [state EXCEPT ![q] = IF q # p /\ @ = "SLEEPING" /\ chan[q] = c THEN "RUNNABLE" ELSE @]
  /\ Again(p)
Woken(p) == i[p] = NPROC

-----------------------------------------------------------------------------
(* Entering and leaving the kernel (usertrap).                              *)

\* kexit before it takes wait_lock: it may have a swap file to unlink, for
\* which it locks the root directory.
BeginExit(p) ==
  /\ exiting' = exiting \cup {p}
  /\ \E hasSwap \in BOOLEAN : Goto(p, IF hasSwap THEN "lock" ELSE "exit")

\* A system call, for a process that has not been killed.  init only forks and
\* waits (user/init.c); "lock" stands for any call on a file.
Enter(p) ==
  /\ At(p, "user") /\ ~killed[p]
  /\ \/ /\ \E call \in {"fork", "wait"} : Goto(p, call)
        /\ UNCHANGED <<arg, exiting>>
     \/ /\ p # initproc /\ Goto(p, "lock")
        /\ UNCHANGED <<arg, exiting>>
     \/ /\ p # initproc /\ \E n \in Targets : arg' = [arg EXCEPT ![p] = n]
        /\ Goto(p, "kill")
        /\ UNCHANGED exiting
     \/ /\ p # initproc /\ BeginExit(p) /\ UNCHANGED arg
  /\ UNCHANGED <<procVars, waitLock, nextpid, cpu, lkVars, reaped>>

\* Any trap of a killed process.
EnterKilled(p) ==
  /\ At(p, "user") /\ killed[p] /\ BeginExit(p)
  /\ UNCHANGED <<procVars, waitLock, nextpid, cpu, lkVars, arg, reaped>>

\* A timer interrupt in user mode.
Tick(p) ==
  /\ At(p, "user") /\ ~killed[p]
  /\ Sched(p, "RUNNABLE", chan[p])
  /\ UNCHANGED <<parent, killed, pid, waitLock, nextpid, cpu, lkVars, locals, exiting, reaped>>

\* The last test of p->killed, then prepare_return.
Return(p) ==
  /\ At(p, "return")
  /\ \/ killed[p] /\ BeginExit(p)
     \/ ~killed[p] /\ Goto(p, "user") /\ UNCHANGED exiting
  /\ arg' = [arg EXCEPT ![p] = 0]
  /\ UNCHANGED <<procVars, waitLock, nextpid, cpu, lkVars, reaped>>

-----------------------------------------------------------------------------
(* kfork.                                                                   *)

\* freeproc, for a slot whose lock is held.
FreeProc(q) ==
  /\ state'  = [state EXCEPT ![q] = "UNUSED"]
  /\ parent' = [parent EXCEPT ![q] = NoProc]
  /\ chan'   = [chan EXCEPT ![q] = NoChan]
  /\ killed' = [killed EXCEPT ![q] = FALSE]
  /\ pid'    = [pid EXCEPT ![q] = 0]

\* allocproc looks at the next slot.
AllocProc(p) ==
  LET q == i[p] IN
  /\ At(p, "fork") /\ q < NPROC /\ Free(q)
  /\ \/ /\ state[q] = "UNUSED" /\ nextpid <= MaxPid
        /\ state' = [state EXCEPT ![q] = "USED"]
        /\ pid'   = [pid EXCEPT ![q] = nextpid]
        /\ lock'  = [lock EXCEPT ![q] = p]
        /\ nextpid' = nextpid + 1
        /\ arg' = [arg EXCEPT ![p] = q]
        /\ Goto(p, "copy")
     \/ /\ state[q] # "UNUSED" \/ nextpid > MaxPid
        /\ Again(p)
        /\ UNCHANGED <<state, pid, lock, nextpid, arg>>
  /\ UNCHANGED <<parent, chan, killed, waitLock, cpu, lkVars, exiting, reaped>>

NoSlot(p) ==
  /\ At(p, "fork") /\ i[p] = NPROC
  /\ Goto(p, "return")
  /\ UNCHANGED <<procVars, waitLock, nextpid, cpu, lkVars, arg, exiting, reaped>>

\* No memory for the trapframe, the page table or the copy.
ForkFails(p) ==
  /\ At(p, "copy")
  /\ FreeProc(arg[p])
  /\ lock' = [lock EXCEPT ![arg[p]] = NoProc]
  /\ Goto(p, "return")
  /\ UNCHANGED <<waitLock, nextpid, cpu, lkVars, arg, exiting, reaped>>

\* The copy is made and np->lock released, as wait_lock comes before it.
ForkCopied(p) ==
  /\ At(p, "copy")
  /\ lock' = [lock EXCEPT ![arg[p]] = NoProc]
  /\ Goto(p, "adopt")
  /\ UNCHANGED <<state, parent, chan, killed, pid, waitLock, nextpid, cpu, lkVars, arg, exiting, reaped>>

ForkAdopt(p) ==
  /\ At(p, "adopt") /\ waitLock = NoProc
  /\ parent' = [parent EXCEPT ![arg[p]] = p]
  /\ Goto(p, "start")
  /\ UNCHANGED <<state, chan, killed, pid, lock, waitLock, nextpid, cpu, lkVars, arg, exiting, reaped>>

ForkStart(p) ==
  /\ At(p, "start") /\ Free(arg[p])
  /\ state' = [state EXCEPT ![arg[p]] = "RUNNABLE"]
  /\ Goto(p, "return")
  /\ UNCHANGED <<parent, chan, killed, pid, lock, waitLock, nextpid, cpu, lkVars, arg, exiting, reaped>>

-----------------------------------------------------------------------------
(* kwait.                                                                   *)

WaitLock(p) ==
  /\ At(p, "wait") /\ waitLock = NoProc
  /\ waitLock' = p
  /\ Goto(p, "scan")
  /\ UNCHANGED <<procVars, nextpid, cpu, lkVars, arg, exiting, reaped>>

\* The children that the loop over the table has not come to.
Unscanned(p) == {q \in Kids(p) : q >= i[p]}
NextKid(p, q) == q \in Unscanned(p) /\ \A r \in Unscanned(p) : q <= r

\* Mutant: the slot of the child is not freed.
ReapForgets(p) ==
  /\ At(p, "scan")
  /\ \E q \in Slot : /\ NextKid(p, q) /\ Free(q) /\ state[q] = "ZOMBIE"
                    /\ reaped' = reaped \cup {pid[q]}
  /\ waitLock' = NoProc
  /\ Goto(p, "return")
  /\ UNCHANGED <<procVars, nextpid, cpu, lkVars, arg, exiting>>

\* A child that has exited: its slot is freed, both locks are released.
Reap(p) ==
  /\ At(p, "scan")
  /\ \E q \in Slot : /\ NextKid(p, q) /\ Free(q) /\ state[q] = "ZOMBIE"
                    /\ reaped' = reaped \cup {pid[q]}
                    /\ FreeProc(q)
  /\ waitLock' = NoProc
  /\ Goto(p, "return")
  /\ UNCHANGED <<lock, nextpid, cpu, lkVars, arg, exiting>>

\* copyout of the status fails: the child stays a zombie.
ReapFails(p) ==
  /\ At(p, "scan") /\ p # initproc
  /\ \E q \in Slot : NextKid(p, q) /\ Free(q) /\ state[q] = "ZOMBIE"
  /\ waitLock' = NoProc
  /\ Goto(p, "return")
  /\ UNCHANGED <<procVars, nextpid, cpu, lkVars, arg, exiting, reaped>>

\* A child that goes on.
WaitScan(p) ==
  /\ At(p, "scan")
  /\ \E q \in Slot : /\ NextKid(p, q) /\ Free(q) /\ state[q] # "ZOMBIE"
                    /\ i' = [i EXCEPT ![p] = q + 1]
  /\ UNCHANGED <<procVars, waitLock, nextpid, cpu, lkVars, pc, arg, exiting, reaped>>

\* Mutant: wait_lock is given back before the process sleeps.
WaitCheckUnlocks(p) ==
  /\ At(p, "scan") /\ Unscanned(p) = {}
  /\ waitLock' = NoProc
  /\ Goto(p, IF Kids(p) = {} \/ killed[p] THEN "return" ELSE "sleep")
  /\ UNCHANGED <<procVars, nextpid, cpu, lkVars, arg, exiting, reaped>>

\* No children, or killed.  p->lock is released before sleep takes it again.
WaitCheck(p) ==
  /\ At(p, "scan") /\ Unscanned(p) = {}
  /\ \/ /\ Kids(p) = {} \/ killed[p]
        /\ waitLock' = NoProc
        /\ Goto(p, "return")
     \/ /\ Kids(p) # {} /\ ~killed[p]
        /\ Goto(p, "sleep")
        /\ UNCHANGED waitLock
  /\ UNCHANGED <<procVars, nextpid, cpu, lkVars, arg, exiting, reaped>>

\* sleep(p, &wait_lock); when it runs again it takes wait_lock and scans anew.
WaitSleep(p) ==
  /\ At(p, "sleep")
  /\ Sched(p, "SLEEPING", p)
  /\ waitLock' = NoProc
  /\ Goto(p, "wait")
  /\ UNCHANGED <<parent, killed, pid, nextpid, cpu, lkVars, arg, exiting, reaped>>

-----------------------------------------------------------------------------
(* kexit from acquire(&wait_lock).                                          *)

ExitLock(p) ==
  /\ At(p, "exit") /\ waitLock = NoProc
  /\ waitLock' = p
  /\ Goto(p, "reparent")
  /\ UNCHANGED <<procVars, nextpid, cpu, lkVars, arg, exiting, reaped>>

\* reparent gives the next child to init.
Reparent(p) ==
  /\ At(p, "reparent")
  /\ \E q \in Kids(p) : /\ \A r \in Kids(p) : q <= r
                       /\ parent' = [parent EXCEPT ![q] = initproc]
  /\ Goto(p, "wakeinit")
  /\ UNCHANGED <<state, chan, killed, pid, lock, waitLock, nextpid, cpu, lkVars, arg, exiting, reaped>>

\* Mutant: children that have exited do not count.
ReparentedRunning(p) ==
  /\ At(p, "reparent") /\ \A q \in Kids(p) : state[q] = "ZOMBIE"
  /\ Goto(p, "wakeparent")
  /\ UNCHANGED <<procVars, waitLock, nextpid, cpu, lkVars, arg, exiting, reaped>>

\* Mutant: wakeup(p->parent) is missing.
ReparentedSilent(p) ==
  /\ At(p, "reparent") /\ Kids(p) = {}
  /\ pc' = [pc EXCEPT ![p] = "wakeparent"] /\ i' = [i EXCEPT ![p] = NPROC]
  /\ UNCHANGED <<procVars, waitLock, nextpid, cpu, lkVars, arg, exiting, reaped>>

Reparented(p) ==
  /\ At(p, "reparent") /\ Kids(p) = {}
  /\ Goto(p, "wakeparent")
  /\ UNCHANGED <<procVars, waitLock, nextpid, cpu, lkVars, arg, exiting, reaped>>

\* wakeup(initproc) in reparent, and wakeup(p->parent).
ExitWakes(p) ==
  /\ \/ At(p, "wakeinit")   /\ WakeOne(p, initproc)
     \/ At(p, "wakeparent") /\ WakeOne(p, parent[p])
  /\ UNCHANGED <<parent, chan, killed, pid, lock, waitLock, nextpid, cpu, lkVars, arg, exiting, reaped>>

InitWoken(p) ==
  /\ At(p, "wakeinit") /\ Woken(p)
  /\ Goto(p, "reparent")
  /\ UNCHANGED <<procVars, waitLock, nextpid, cpu, lkVars, arg, exiting, reaped>>

\* The state changes before wait_lock is released, and the lock is kept.
BecomeZombie(p) ==
  /\ At(p, "wakeparent") /\ Woken(p)
  /\ Sched(p, "ZOMBIE", chan[p])
  /\ waitLock' = NoProc
  /\ exiting' = exiting \ {p}
  /\ Goto(p, "user")
  /\ UNCHANGED <<parent, killed, pid, nextpid, cpu, lkVars, arg, reaped>>

-----------------------------------------------------------------------------
(* kkill: the slots in turn.                                                *)

KillOne(p) ==
  LET q == i[p] IN
  /\ At(p, "kill") /\ q < NPROC /\ Free(q)
  /\ \/ /\ pid[q] = arg[p]
        /\ killed' = [killed EXCEPT ![q] = TRUE]
        /\ state'  = [state EXCEPT ![q] = IF @ = "SLEEPING" THEN "RUNNABLE" ELSE @]
        /\ Goto(p, "return")
     \/ /\ pid[q] # arg[p] /\ Again(p)
        /\ UNCHANGED <<killed, state>>
  /\ UNCHANGED <<parent, chan, pid, lock, waitLock, nextpid, cpu, lkVars, arg, exiting, reaped>>

KillNobody(p) ==
  /\ At(p, "kill") /\ i[p] = NPROC
  /\ Goto(p, "return")
  /\ UNCHANGED <<procVars, waitLock, nextpid, cpu, lkVars, arg, exiting, reaped>>

-----------------------------------------------------------------------------
(* acquiresleep and releasesleep.                                           *)

\* One round of acquiresleep's loop; lk is free again at its end.
AcquireSleep(p) ==
  /\ At(p, "lock") /\ spin = NoProc
  /\ \/ /\ holder = 0
        /\ holder' = pid[p]
        /\ Goto(p, "hold")
        /\ UNCHANGED <<state, chan, lock>>
     \/ /\ holder # 0
        /\ Sched(p, "SLEEPING", Lk)
        /\ UNCHANGED <<holder, pc, i>>
  /\ UNCHANGED <<parent, killed, pid, waitLock, nextpid, cpu, spin, arg, exiting, reaped>>

\* Mutant: no wakeup.
ReleaseSilent(p) ==
  /\ At(p, "hold") /\ spin = NoProc
  /\ holder' = 0
  /\ Goto(p, IF p \in exiting THEN "exit" ELSE "return")
  /\ UNCHANGED <<procVars, waitLock, nextpid, cpu, spin, arg, exiting, reaped>>

ReleaseSleep(p) ==
  /\ At(p, "hold") /\ spin = NoProc
  /\ spin' = p /\ holder' = 0
  /\ Goto(p, "unlock")
  /\ UNCHANGED <<procVars, waitLock, nextpid, cpu, arg, exiting, reaped>>

ReleaseWakes(p) ==
  /\ At(p, "unlock") /\ WakeOne(p, Lk)
  /\ UNCHANGED <<parent, chan, killed, pid, lock, waitLock, nextpid, cpu, lkVars, arg, exiting, reaped>>

\* lk is released; a system call returns, kexit goes on.
Released(p) ==
  /\ At(p, "unlock") /\ Woken(p)
  /\ spin' = NoProc
  /\ Goto(p, IF p \in exiting THEN "exit" ELSE "return")
  /\ UNCHANGED <<procVars, waitLock, nextpid, cpu, holder, arg, exiting, reaped>>

-----------------------------------------------------------------------------
\* userinit has made init, which the scheduler has not run yet.
Init ==
  /\ state  = [q \in Slot |-> IF q = initproc THEN "RUNNABLE" ELSE "UNUSED"]
  /\ pid    = [q \in Slot |-> IF q = initproc THEN 1 ELSE 0]
  /\ parent = [q \in Slot |-> NoProc]
  /\ chan   = [q \in Slot |-> NoChan]
  /\ killed = [q \in Slot |-> FALSE]
  /\ lock   = [q \in Slot |-> NoProc]
  /\ waitLock = NoProc /\ spin = NoProc
  /\ nextpid = 2 /\ holder = 0
  /\ cpu = [c \in Cpu |-> NoProc]
  /\ pc  = [q \in Slot |-> "user"]
  /\ i   = [q \in Slot |-> 0]
  /\ arg = [q \in Slot |-> 0]
  /\ exiting = {} /\ reaped = {}

\* The steps of a kernel path.
KernelStep(p) ==
  \/ Return(p)
  \/ AllocProc(p) \/ NoSlot(p) \/ ForkFails(p) \/ ForkCopied(p) \/ ForkAdopt(p) \/ ForkStart(p)
  \/ WaitLock(p) \/ Reap(p) \/ ReapFails(p) \/ WaitScan(p) \/ WaitCheck(p) \/ WaitSleep(p)
  \/ ExitLock(p) \/ Reparent(p) \/ Reparented(p) \/ ExitWakes(p) \/ InitWoken(p) \/ BecomeZombie(p)
  \/ KillOne(p) \/ KillNobody(p)
  \/ AcquireSleep(p) \/ ReleaseSleep(p) \/ ReleaseWakes(p) \/ Released(p)

Next ==
  \/ \E c \in Cpu : Switch(c) \/ \E p \in Slot : Dispatch(c, p)
  \/ \E p \in Slot : Preempt(p) \/ Tick(p) \/ Enter(p) \/ EnterKilled(p) \/ KernelStep(p)

Spec == Init /\ [][Next]_vars

-----------------------------------------------------------------------------
(* Safety.                                                                  *)

\* Types of the variables.
TypeOK ==
  /\ state \in [Slot -> Live \cup {"UNUSED", "USED", "ZOMBIE"}]
  /\ parent \in [Slot -> Slot \cup {NoProc}]
  /\ chan \in [Slot -> Slot \cup {Lk, NoChan}]
  /\ killed \in [Slot -> BOOLEAN]
  /\ pid \in [Slot -> 0..MaxPid]
  /\ lock \in [Slot -> Slot \cup {NoProc}]
  /\ waitLock \in Slot \cup {NoProc} /\ spin \in Slot \cup {NoProc}
  /\ nextpid \in 1..MaxPid + 1 /\ holder \in 0..MaxPid
  /\ cpu \in [Cpu -> Slot \cup {NoProc}]
  /\ pc \in [Slot -> {"user", "return", "fork", "copy", "adopt", "start", "wait", "scan", "sleep",
                      "exit", "reparent", "wakeinit", "wakeparent", "kill", "lock", "hold", "unlock"}]
  /\ i \in [Slot -> 0..NPROC]
  /\ arg \in [Slot -> Slot \cup Targets]
  /\ exiting \subseteq Slot /\ reaped \subseteq Pid

\* A kernel stack is in use on one CPU at a time, and is not given to a new
\* process while a CPU is still on it ("make sure the child isn't still in
\* exit() or swtch()" in kwait).
StacksExclusive ==
  \A c \in Cpu : cpu[c] # NoProc =>
    /\ state[cpu[c]] \notin {"UNUSED", "USED"}
    /\ \A d \in Cpu \ {c} : cpu[d] # cpu[c]

\* Every process but init has a parent that has not exited and can wait for
\* it: kexit hands its children over before it becomes a zombie.
NoOrphans ==
  \A q \in Slot \ {initproc} :
    state[q] \in Live \cup {"ZOMBIE"} => parent[q] \in Slot /\ state[parent[q]] \in Live

\* No wakeup is lost.  Once the lock that guards the condition is free, who
\* sleeps in kwait has children and none of them is a zombie; who sleeps in
\* acquiresleep waits for a lock that is taken.
SleepersHaveReason ==
  \A p \in Slot : state[p] = "SLEEPING" =>
    /\ chan[p] = p /\ waitLock = NoProc =>
         Kids(p) # {} /\ \A q \in Kids(p) : state[q] # "ZOMBIE"
    /\ chan[p] = Lk /\ spin = NoProc => holder # 0

\* A sleep lock is held by the one process that is inside, under its own pid
\* (holdingsleep compares pids), whatever kills and wakeups come.
OneHolder ==
  \A p \in Slot : pc[p] = "hold" => holder = pid[p] /\ \A q \in Slot \ {p} : pc[q] # "hold"

\* All of it, for every slot (kfork, kwait, kexit, acquiresleep).
TableConsistent == TypeOK /\ NoOrphans /\ OneHolder

-----------------------------------------------------------------------------
(* fork, exit and wait keep the promise of Family.                          *)

InUse == {q \in Slot : state[q] \in Live \cup {"ZOMBIE"}}
SlotOf(n) == CHOOSE q \in InUse : pid[q] = n

F == INSTANCE Family WITH
  Pid <- Pid, First <- 1,
  live <- {pid[q] : q \in {r \in Slot : state[r] \in Live}},
  dead <- {pid[q] : q \in {r \in Slot : state[r] = "ZOMBIE"}},
  reaped <- reaped,
  leaving <- {pid[q] : q \in exiting},
  parentOf <- [n \in {pid[q] : q \in InUse} |->
                 IF SlotOf(n) = initproc THEN 1 ELSE pid[parent[SlotOf(n)]]]

\* Pids are never given twice among processes that live or were waited for;
\* each exited process is waited for once, by its parent or by init; a process
\* in kexit does nothing but hand over its children and end.
ImplementsFamily == F!Spec

-----------------------------------------------------------------------------
(* Liveness.                                                                *)

\* init waits again and again (user/init.c).
InitWaits == At(initproc, "user") /\ Enter(initproc) /\ pc'[initproc] = "wait"

\* The scheduler takes p from or to a CPU.
Schedule(p) == \E c \in Cpu : Dispatch(c, p) \/ (cpu[c] = p /\ Switch(c))

\* Every CPU visits all slots in turn and spinlocks are released after a
\* bounded time, so a process that can run, or go on, again and again does.
Fairness ==
  /\ \A p \in Slot : SF_vars(Schedule(p)) /\ SF_vars(KernelStep(p))
  /\ SF_vars(InitWaits)
FairSpec == Spec /\ Fairness

\* A zombie that init has to wait for is waited for.
OrphansReaped ==
  \A q \in Slot \ {initproc} :
    (state[q] = "ZOMBIE" /\ parent[q] = initproc) ~> state[q] = "UNUSED"

\* A process that sleeps for a sleep lock gets to run again.
LockWaitersRun ==
  \A p \in Slot \ {initproc} : (state[p] = "SLEEPING" /\ chan[p] = Lk) ~> Runs(p)
=============================================================================
