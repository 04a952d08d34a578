--------------------------- MODULE ProcLifeProofs ---------------------------
(***************************************************************************)
(* The process table of ProcLife.tla for every number of slots, CPUs and   *)
(* pids: the tree of processes, kernel stacks, the sleep lock and the      *)
(* reasons to sleep are consistent, and fork, exit and wait implement      *)
(* Family.                                                                 *)
(*                                                                         *)
(* The invariant comes in parts, each proved relative to the ones before:  *)
(* TypeOK, Paths (where a process may be, who has wait_lock and lk), Stacks *)
(* (p->lock across the switch), Forks (the slot a fork has claimed), Tree, *)
(* Pids, Holding and Reasons.                                              *)
(***************************************************************************)
EXTENDS ProcLife, TLAPS

Scanning == {"scan", "sleep", "reparent", "wakeinit", "wakeparent"}
Forking  == {"copy", "adopt", "start"}
Ending   == {"exit", "reparent", "wakeinit", "wakeparent"}
OnFile   == {"lock", "hold", "unlock"}
Occupied == Live \cup {"ZOMBIE"}

\* Scanning is being under wait_lock, "unlock" is being under lk, and a process
\* is never switched away from there; init only forks and waits, and is not killed.
Paths ==
  /\ \A p \in Slot : pc[p] # "user" => state[p] \in Live
  /\ \A p \in Slot : pc[p] \in Scanning <=> waitLock = p
  /\ \A p \in Slot : pc[p] = "unlock" <=> spin = p
  /\ \A p \in Slot : pc[p] \in Scanning \cup {"unlock"} => state[p] = "RUNNING"
  /\ \A p \in exiting : pc[p] \in OnFile \cup Ending
  /\ \A p \in Slot : pc[p] \in Ending => p \in exiting
  /\ \A p \in Slot : pc[p] = "kill" => arg[p] \in Targets
  /\ initproc \notin exiting /\ pc[initproc] \notin OnFile
  /\ state[initproc] \in Live /\ pid[initproc] = 1 /\ ~killed[initproc]

\* A process that has left its state but not yet its stack keeps its own lock;
\* any other lock that is held is that of the slot a fork is filling.
Stacks ==
  /\ \A c, d \in Cpu : cpu[c] # NoProc /\ cpu[c] = cpu[d] => c = d
  /\ \A q \in Slot : state[q] = "RUNNING" => \E c \in Cpu : cpu[c] = q
  /\ \A c \in Cpu, q \in Slot : cpu[c] = q /\ state[q] # "RUNNING" => lock[q] = q
  /\ \A q \in Slot : lock[q] = q => /\ state[q] \in Occupied \ {"RUNNING"}
                                    /\ \E c \in Cpu : cpu[c] = q
  /\ \A p, q \in Slot : lock[q] = p /\ p # q => pc[p] = "copy" /\ arg[p] = q

\* The slot that a fork has claimed is nobody else's, and nobody's child until
\* the fork has taken wait_lock.
Forks ==
  /\ \A p \in Slot : pc[p] = "copy" => state[p] = "RUNNING" /\ lock[arg[p]] = p
  /\ \A p \in Slot : pc[p] \in Forking => arg[p] \in Slot /\ state[arg[p]] = "USED"
  /\ \A p, q \in Slot : pc[p] \in Forking /\ pc[q] \in Forking /\ arg[p] = arg[q] => p = q

Tree ==
  /\ \A p \in Slot : pc[p] \in {"copy", "adopt"} => parent[arg[p]] = NoProc
  /\ \A p \in Slot : pc[p] = "start" => parent[arg[p]] = p
  /\ parent[initproc] = NoProc
  /\ \A q \in Slot : state[q] \in Occupied /\ q # initproc => parent[q] \in Slot
  /\ \A q \in Slot : parent[q] \in Slot => state[parent[q]] \in Live
  /\ \A q \in Slot : parent[q] \in Slot /\ state[q] \notin Occupied
                       => pc[parent[q]] = "start" /\ arg[parent[q]] = q
  /\ \A p \in Slot : pc[p] = "wakeparent" => Kids(p) = {}

Pids ==
  /\ nextpid >= 2
  /\ \A q \in Slot : state[q] # "UNUSED" => pid[q] \in 1..(nextpid - 1) /\ pid[q] \notin reaped
  /\ \A p, q \in Slot : state[p] # "UNUSED" /\ state[q] # "UNUSED" /\ pid[p] = pid[q] => p = q
  /\ \A n \in reaped : n < nextpid

Holding ==
  /\ \A p \in Slot : pc[p] = "hold" => holder = pid[p]
  /\ \A p, q \in Slot : pc[p] = "hold" /\ pc[q] = "hold" => p = q

\* Who sleeps for a child has one that goes on, or the process that hands it a
\* zombie is about to wake it; who sleeps for lk finds it taken, or the process
\* that gave it back is about to wake him.
Asleep(p, c) == state[p] = "SLEEPING" /\ chan[p] = c
Reasons ==
  /\ \A p \in Slot : state[p] = "SLEEPING" => chan[p] \in {p, Lk}
  /\ \A p \in Slot : Asleep(p, p) => Kids(p) # {}
  /\ \A p, q \in Slot : Asleep(p, p) /\ parent[q] = p /\ state[q] = "ZOMBIE"
       => p = initproc /\ \E r \in Slot : pc[r] = "wakeinit" /\ i[r] = 0
  /\ \A q \in Slot : pc[q] = "wakeparent" /\ i[q] > parent[q] => ~Asleep(parent[q], parent[q])
  /\ \A p \in Slot : Asleep(p, Lk) => holder # 0 \/ \E r \in Slot : pc[r] = "unlock" /\ i[r] <= p
  /\ \A p, q \in Slot : pc[p] = "scan" /\ parent[q] = p /\ q < i[p] => state[q] # "ZOMBIE"
  /\ \A p, q \in Slot : pc[p] = "sleep" /\ parent[q] = p => state[q] # "ZOMBIE"
  /\ \A p \in Slot : pc[p] = "sleep" => Kids(p) # {}

LifeInv == TypeOK /\ Paths /\ Stacks /\ Forks /\ Tree /\ Pids /\ Holding /\ Reasons
-----------------------------------------------------------------------------
(* Types.                                                                   *)

Steps == {"user", "return", "fork", "copy", "adopt", "start", "wait", "scan", "sleep",
          "exit", "reparent", "wakeinit", "wakeparent", "kill", "lock", "hold", "unlock"}

\* Where Goto leads.
LEMMA Moves ==
  ASSUME TypeOK, NEW p \in Slot, NEW l \in Steps, Goto(p, l)
  PROVE  pc' \in [Slot -> Steps] /\ i' \in [Slot -> 0..NPROC]
  BY SizesAssumption DEF Goto, TypeOK, Steps

\* The slots are the indices of the table.
LEMMA Indices ==
  /\ 0 \in Slot /\ NPROC \in 0..NPROC /\ 0 \in 0..NPROC
  /\ \A q \in Slot : q \in Int /\ q >= 0 /\ q < NPROC /\ q + 1 \in 0..NPROC /\ q \in 0..NPROC
  /\ \A n \in 0..NPROC : n < NPROC => n \in Slot
  BY SizesAssumption DEF Slot

\* A step keeps the types: the pid of a zombie is one that was given out.
LEMMA TypesStep ==
  ASSUME TypeOK, Forks, Pids, Next
  PROVE  TypeOK'
  <1> USE Indices DEF initproc, At, procVars, lkVars, locals, Live
  <1>1. ASSUME NEW c \in Cpu, Switch(c) PROVE TypeOK'
    BY <1>1 DEF Switch, TypeOK
  <1>2. ASSUME NEW c \in Cpu, NEW p \in Slot, Dispatch(c, p) PROVE TypeOK'
    BY <1>2, SizesAssumption DEF Dispatch, TypeOK
  <1>3. ASSUME NEW p \in Slot, Preempt(p) PROVE TypeOK'
    <2>1. state' \in [Slot -> Live \cup {"UNUSED", "USED", "ZOMBIE"}]
      BY <1>3 DEF Preempt, Sched, TypeOK
    <2>2. chan' \in [Slot -> Slot \cup {Lk, NoChan}]
      BY <1>3 DEF Preempt, Sched, TypeOK
    <2>3. lock' \in [Slot -> Slot \cup {NoProc}]
      BY <1>3 DEF Preempt, Sched, TypeOK
    <2> QED
      BY <1>3, <2>1, <2>2, <2>3 DEF Preempt, Sched, TypeOK, Steps
  <1>4. ASSUME NEW p \in Slot, Tick(p) PROVE TypeOK'
    <2>1. state' \in [Slot -> Live \cup {"UNUSED", "USED", "ZOMBIE"}]
      BY <1>4 DEF Tick, Sched, TypeOK
    <2>2. chan' \in [Slot -> Slot \cup {Lk, NoChan}]
      BY <1>4 DEF Tick, Sched, TypeOK
    <2>3. lock' \in [Slot -> Slot \cup {NoProc}]
      BY <1>4 DEF Tick, Sched, TypeOK
    <2> QED
      BY <1>4, <2>1, <2>2, <2>3 DEF Tick, Sched, TypeOK, Steps
  <1>5. ASSUME NEW p \in Slot, Enter(p) PROVE TypeOK'
    <2>1. pc' \in [Slot -> Steps] /\ i' \in [Slot -> 0..NPROC]
      BY <1>5, Moves DEF Enter, BeginExit, Steps
    <2>2. arg' \in [Slot -> Slot \cup Targets]
      BY <1>5 DEF Enter, BeginExit, TypeOK
    <2>3. exiting' \subseteq Slot
      BY <1>5 DEF Enter, BeginExit, TypeOK
    <2> QED
      BY <1>5, <2>1, <2>2, <2>3 DEF Enter, BeginExit, TypeOK, Steps
  <1>6. ASSUME NEW p \in Slot, EnterKilled(p) PROVE TypeOK'
    <2>1. pc' \in [Slot -> Steps] /\ i' \in [Slot -> 0..NPROC]
      BY <1>6, Moves DEF EnterKilled, BeginExit, Steps
    <2>2. exiting' \subseteq Slot
      BY <1>6 DEF EnterKilled, BeginExit, TypeOK
    <2> QED
      BY <1>6, <2>1, <2>2 DEF EnterKilled, BeginExit, TypeOK, Steps
  <1>7. ASSUME NEW p \in Slot, Return(p) PROVE TypeOK'
    <2>1. pc' \in [Slot -> Steps] /\ i' \in [Slot -> 0..NPROC]
      BY <1>7, Moves DEF Return, BeginExit, Steps
    <2>2. arg' \in [Slot -> Slot \cup Targets]
      BY <1>7 DEF Return, BeginExit, TypeOK
    <2>3. exiting' \subseteq Slot
      BY <1>7 DEF Return, BeginExit, TypeOK
    <2> QED
      BY <1>7, <2>1, <2>2, <2>3 DEF Return, BeginExit, TypeOK, Steps
  <1>8. ASSUME NEW p \in Slot, AllocProc(p) PROVE TypeOK'
    <2>1. pc' \in [Slot -> Steps] /\ i' \in [Slot -> 0..NPROC]
      BY <1>8, Moves DEF AllocProc, Again, Steps, TypeOK
    <2>2. state' \in [Slot -> Live \cup {"UNUSED", "USED", "ZOMBIE"}]
      BY <1>8 DEF AllocProc, Again, TypeOK
    <2>3. pid' \in [Slot -> 0..MaxPid]
      BY <1>8, SizesAssumption DEF AllocProc, Again, TypeOK
    <2>4. lock' \in [Slot -> Slot \cup {NoProc}]
      BY <1>8 DEF AllocProc, Again, TypeOK
    <2>5. nextpid' \in 1..MaxPid + 1
      BY <1>8, SizesAssumption DEF AllocProc, Again, TypeOK
    <2>6. arg' \in [Slot -> Slot \cup Targets]
      BY <1>8 DEF AllocProc, Again, TypeOK
    <2> QED
      BY <1>8, <2>1, <2>2, <2>3, <2>4, <2>5, <2>6 DEF AllocProc, Again, TypeOK, Steps
  <1>9. ASSUME NEW p \in Slot, NoSlot(p) PROVE TypeOK'
    <2>1. pc' \in [Slot -> Steps] /\ i' \in [Slot -> 0..NPROC]
      BY <1>9, Moves DEF NoSlot, Steps
    <2> QED
      BY <1>9, <2>1 DEF NoSlot, TypeOK, Steps
  <1>10. ASSUME NEW p \in Slot, ForkFails(p) PROVE TypeOK'
    <2>1. pc' \in [Slot -> Steps] /\ i' \in [Slot -> 0..NPROC]
      BY <1>10, Moves DEF ForkFails, FreeProc, Steps
    <2>2. state' \in [Slot -> Live \cup {"UNUSED", "USED", "ZOMBIE"}]
      BY <1>10 DEF ForkFails, FreeProc, Forks, Forking, TypeOK
    <2>3. parent' \in [Slot -> Slot \cup {NoProc}]
      BY <1>10 DEF ForkFails, FreeProc, Forks, Forking, TypeOK
    <2>4. chan' \in [Slot -> Slot \cup {Lk, NoChan}]
      BY <1>10 DEF ForkFails, FreeProc, Forks, Forking, TypeOK
    <2>5. killed' \in [Slot -> BOOLEAN]
      BY <1>10 DEF ForkFails, FreeProc, Forks, Forking, TypeOK
    <2>6. pid' \in [Slot -> 0..MaxPid]
      BY <1>10, SizesAssumption DEF ForkFails, FreeProc, Forks, Forking, TypeOK
    <2>7. lock' \in [Slot -> Slot \cup {NoProc}]
      BY <1>10 DEF ForkFails, FreeProc, Forks, Forking, TypeOK
    <2> QED
      BY <1>10, <2>1, <2>2, <2>3, <2>4, <2>5, <2>6, <2>7 DEF ForkFails, FreeProc, TypeOK, Steps
  <1>11. ASSUME NEW p \in Slot, ForkCopied(p) PROVE TypeOK'
    <2>1. pc' \in [Slot -> Steps] /\ i' \in [Slot -> 0..NPROC]
      BY <1>11, Moves DEF ForkCopied, Steps
    <2>2. lock' \in [Slot -> Slot \cup {NoProc}]
      BY <1>11 DEF ForkCopied, Forks, Forking, TypeOK
    <2> QED
      BY <1>11, <2>1, <2>2 DEF ForkCopied, TypeOK, Steps
  <1>12. ASSUME NEW p \in Slot, ForkAdopt(p) PROVE TypeOK'
    <2>1. pc' \in [Slot -> Steps] /\ i' \in [Slot -> 0..NPROC]
      BY <1>12, Moves DEF ForkAdopt, Steps
    <2>2. parent' \in [Slot -> Slot \cup {NoProc}]
      BY <1>12 DEF ForkAdopt, Forks, Forking, TypeOK
    <2> QED
      BY <1>12, <2>1, <2>2 DEF ForkAdopt, TypeOK, Steps
  <1>13. ASSUME NEW p \in Slot, ForkStart(p) PROVE TypeOK'
    <2>1. pc' \in [Slot -> Steps] /\ i' \in [Slot -> 0..NPROC]
      BY <1>13, Moves DEF ForkStart, Steps
    <2>2. state' \in [Slot -> Live \cup {"UNUSED", "USED", "ZOMBIE"}]
      BY <1>13 DEF ForkStart, Forks, Forking, TypeOK
    <2> QED
      BY <1>13, <2>1, <2>2 DEF ForkStart, TypeOK, Steps
  <1>14. ASSUME NEW p \in Slot, WaitLock(p) PROVE TypeOK'
    <2>1. pc' \in [Slot -> Steps] /\ i' \in [Slot -> 0..NPROC]
      BY <1>14, Moves DEF WaitLock, Steps
    <2>2. waitLock' \in Slot \cup {NoProc}
      BY <1>14 DEF WaitLock, TypeOK
    <2> QED
      BY <1>14, <2>1, <2>2 DEF WaitLock, TypeOK, Steps
  <1>15. ASSUME NEW p \in Slot, Reap(p) PROVE TypeOK'
    <2>1. pc' \in [Slot -> Steps] /\ i' \in [Slot -> 0..NPROC]
      BY <1>15, Moves DEF Reap, FreeProc, Steps
    <2>2. state' \in [Slot -> Live \cup {"UNUSED", "USED", "ZOMBIE"}]
      BY <1>15 DEF Reap, FreeProc, TypeOK
    <2>3. parent' \in [Slot -> Slot \cup {NoProc}]
      BY <1>15 DEF Reap, FreeProc, TypeOK
    <2>4. chan' \in [Slot -> Slot \cup {Lk, NoChan}]
      BY <1>15 DEF Reap, FreeProc, TypeOK
    <2>5. killed' \in [Slot -> BOOLEAN]
      BY <1>15 DEF Reap, FreeProc, TypeOK
    <2>6. pid' \in [Slot -> 0..MaxPid]
      BY <1>15, SizesAssumption DEF Reap, FreeProc, TypeOK
    <2>7. waitLock' \in Slot \cup {NoProc}
      BY <1>15 DEF Reap, FreeProc, TypeOK
    <2>8. reaped' \subseteq Pid
      <3>1. \A q \in Slot : state[q] = "ZOMBIE" => pid[q] \in Pid
        BY SizesAssumption DEF Pids, Pid, TypeOK
      <3> QED
        BY <1>15, <3>1 DEF Reap, TypeOK
    <2> QED
      BY <1>15, <2>1, <2>2, <2>3, <2>4, <2>5, <2>6, <2>7, <2>8 DEF Reap, FreeProc, TypeOK, Steps
  <1>16. ASSUME NEW p \in Slot, ReapFails(p) PROVE TypeOK'
    <2>1. pc' \in [Slot -> Steps] /\ i' \in [Slot -> 0..NPROC]
      BY <1>16, Moves DEF ReapFails, Steps
    <2>2. waitLock' \in Slot \cup {NoProc}
      BY <1>16 DEF ReapFails, TypeOK
    <2> QED
      BY <1>16, <2>1, <2>2 DEF ReapFails, TypeOK, Steps
  <1>17. ASSUME NEW p \in Slot, WaitScan(p) PROVE TypeOK'
    <2>1. pc' \in [Slot -> Steps] /\ i' \in [Slot -> 0..NPROC]
      BY <1>17, Moves DEF WaitScan, Steps, TypeOK
    <2> QED
      BY <1>17, <2>1 DEF WaitScan, TypeOK, Steps
  <1>18. ASSUME NEW p \in Slot, WaitCheck(p) PROVE TypeOK'
    <2>1. pc' \in [Slot -> Steps] /\ i' \in [Slot -> 0..NPROC]
      BY <1>18, Moves DEF WaitCheck, Steps
    <2>2. waitLock' \in Slot \cup {NoProc}
      BY <1>18 DEF WaitCheck, TypeOK
    <2> QED
      BY <1>18, <2>1, <2>2 DEF WaitCheck, TypeOK, Steps
  <1>19. ASSUME NEW p \in Slot, WaitSleep(p) PROVE TypeOK'
    <2>1. pc' \in [Slot -> Steps] /\ i' \in [Slot -> 0..NPROC]
      BY <1>19, Moves DEF WaitSleep, Sched, Steps
    <2>2. state' \in [Slot -> Live \cup {"UNUSED", "USED", "ZOMBIE"}]
      BY <1>19 DEF WaitSleep, Sched, TypeOK
    <2>3. chan' \in [Slot -> Slot \cup {Lk, NoChan}]
      BY <1>19 DEF WaitSleep, Sched, TypeOK
    <2>4. lock' \in [Slot -> Slot \cup {NoProc}]
      BY <1>19 DEF WaitSleep, Sched, TypeOK
    <2>5. waitLock' \in Slot \cup {NoProc}
      BY <1>19 DEF WaitSleep, Sched, TypeOK
    <2> QED
      BY <1>19, <2>1, <2>2, <2>3, <2>4, <2>5 DEF WaitSleep, Sched, TypeOK, Steps
  <1>20. ASSUME NEW p \in Slot, ExitLock(p) PROVE TypeOK'
    <2>1. pc' \in [Slot -> Steps] /\ i' \in [Slot -> 0..NPROC]
      BY <1>20, Moves DEF ExitLock, Steps
    <2>2. waitLock' \in Slot \cup {NoProc}
      BY <1>20 DEF ExitLock, TypeOK
    <2> QED
      BY <1>20, <2>1, <2>2 DEF ExitLock, TypeOK, Steps
  <1>21. ASSUME NEW p \in Slot, Reparent(p) PROVE TypeOK'
    <2>1. pc' \in [Slot -> Steps] /\ i' \in [Slot -> 0..NPROC]
      BY <1>21, Moves DEF Reparent, Steps
    <2>2. parent' \in [Slot -> Slot \cup {NoProc}]
      BY <1>21 DEF Reparent, TypeOK
    <2> QED
      BY <1>21, <2>1, <2>2 DEF Reparent, TypeOK, Steps
  <1>22. ASSUME NEW p \in Slot, Reparented(p) PROVE TypeOK'
    <2>1. pc' \in [Slot -> Steps] /\ i' \in [Slot -> 0..NPROC]
      BY <1>22, Moves DEF Reparented, Steps
    <2> QED
      BY <1>22, <2>1 DEF Reparented, TypeOK, Steps
  <1>23. ASSUME NEW p \in Slot, ExitWakes(p) PROVE TypeOK'
    <2>1. pc' \in [Slot -> Steps] /\ i' \in [Slot -> 0..NPROC]
      BY <1>23, Moves DEF ExitWakes, WakeOne, Again, Steps, TypeOK
    <2>2. state' \in [Slot -> Live \cup {"UNUSED", "USED", "ZOMBIE"}]
      BY <1>23 DEF ExitWakes, WakeOne, Again, TypeOK
    <2> QED
      BY <1>23, <2>1, <2>2 DEF ExitWakes, WakeOne, Again, TypeOK, Steps
  <1>24. ASSUME NEW p \in Slot, InitWoken(p) PROVE TypeOK'
    <2>1. pc' \in [Slot -> Steps] /\ i' \in [Slot -> 0..NPROC]
      BY <1>24, Moves DEF InitWoken, Steps
    <2> QED
      BY <1>24, <2>1 DEF InitWoken, TypeOK, Steps
  <1>25. ASSUME NEW p \in Slot, BecomeZombie(p) PROVE TypeOK'
    <2>1. pc' \in [Slot -> Steps] /\ i' \in [Slot -> 0..NPROC]
      BY <1>25, Moves DEF BecomeZombie, Sched, Steps
    <2>2. state' \in [Slot -> Live \cup {"UNUSED", "USED", "ZOMBIE"}]
      BY <1>25 DEF BecomeZombie, Sched, TypeOK
    <2>3. chan' \in [Slot -> Slot \cup {Lk, NoChan}]
      BY <1>25 DEF BecomeZombie, Sched, TypeOK
    <2>4. lock' \in [Slot -> Slot \cup {NoProc}]
      BY <1>25 DEF BecomeZombie, Sched, TypeOK
    <2>5. waitLock' \in Slot \cup {NoProc}
      BY <1>25 DEF BecomeZombie, Sched, TypeOK
    <2>6. exiting' \subseteq Slot
      BY <1>25 DEF BecomeZombie, Sched, TypeOK
    <2> QED
      BY <1>25, <2>1, <2>2, <2>3, <2>4, <2>5, <2>6 DEF BecomeZombie, Sched, TypeOK, Steps
  <1>26. ASSUME NEW p \in Slot, KillOne(p) PROVE TypeOK'
    <2>1. pc' \in [Slot -> Steps] /\ i' \in [Slot -> 0..NPROC]
      BY <1>26, Moves DEF KillOne, Again, Steps, TypeOK
    <2>2. killed' \in [Slot -> BOOLEAN]
      BY <1>26 DEF KillOne, Again, TypeOK
    <2>3. state' \in [Slot -> Live \cup {"UNUSED", "USED", "ZOMBIE"}]
      BY <1>26 DEF KillOne, Again, TypeOK
    <2> QED
      BY <1>26, <2>1, <2>2, <2>3 DEF KillOne, Again, TypeOK, Steps
  <1>27. ASSUME NEW p \in Slot, KillNobody(p) PROVE TypeOK'
    <2>1. pc' \in [Slot -> Steps] /\ i' \in [Slot -> 0..NPROC]
      BY <1>27, Moves DEF KillNobody, Steps
    <2> QED
      BY <1>27, <2>1 DEF KillNobody, TypeOK, Steps
  <1>28. ASSUME NEW p \in Slot, AcquireSleep(p) PROVE TypeOK'
    <2>1. pc' \in [Slot -> Steps] /\ i' \in [Slot -> 0..NPROC]
      BY <1>28, Moves DEF AcquireSleep, Sched, Steps, TypeOK
    <2>2. holder' \in 0..MaxPid
      BY <1>28 DEF AcquireSleep, Sched, TypeOK
    <2>3. state' \in [Slot -> Live \cup {"UNUSED", "USED", "ZOMBIE"}]
      BY <1>28 DEF AcquireSleep, Sched, TypeOK
    <2>4. chan' \in [Slot -> Slot \cup {Lk, NoChan}]
      BY <1>28 DEF AcquireSleep, Sched, TypeOK
    <2>5. lock' \in [Slot -> Slot \cup {NoProc}]
      BY <1>28 DEF AcquireSleep, Sched, TypeOK
    <2> QED
      BY <1>28, <2>1, <2>2, <2>3, <2>4, <2>5 DEF AcquireSleep, Sched, TypeOK, Steps
  <1>29. ASSUME NEW p \in Slot, ReleaseSleep(p) PROVE TypeOK'
    <2>1. pc' \in [Slot -> Steps] /\ i' \in [Slot -> 0..NPROC]
      BY <1>29, Moves DEF ReleaseSleep, Steps
    <2>2. spin' \in Slot \cup {NoProc}
      BY <1>29 DEF ReleaseSleep, TypeOK
    <2>3. holder' \in 0..MaxPid
      BY <1>29, SizesAssumption DEF ReleaseSleep, TypeOK
    <2> QED
      BY <1>29, <2>1, <2>2, <2>3 DEF ReleaseSleep, TypeOK, Steps
  <1>30. ASSUME NEW p \in Slot, ReleaseWakes(p) PROVE TypeOK'
    <2>1. pc' \in [Slot -> Steps] /\ i' \in [Slot -> 0..NPROC]
      BY <1>30, Moves DEF ReleaseWakes, WakeOne, Again, Steps, TypeOK
    <2>2. state' \in [Slot -> Live \cup {"UNUSED", "USED", "ZOMBIE"}]
      BY <1>30 DEF ReleaseWakes, WakeOne, Again, TypeOK
    <2> QED
      BY <1>30, <2>1, <2>2 DEF ReleaseWakes, WakeOne, Again, TypeOK, Steps
  <1>31. ASSUME NEW p \in Slot, Released(p) PROVE TypeOK'
    <2>1. pc' \in [Slot -> Steps] /\ i' \in [Slot -> 0..NPROC]
      BY <1>31, Moves DEF Released, Steps
    <2>2. spin' \in Slot \cup {NoProc}
      BY <1>31 DEF Released, TypeOK
    <2> QED
      BY <1>31, <2>1, <2>2 DEF Released, TypeOK, Steps
  <1> QED
    BY <1>1, <1>2, <1>3, <1>4, <1>5, <1>6, <1>7, <1>8, <1>9, <1>10, <1>11, <1>12, <1>13, <1>14, <1>15, <1>16, <1>17, <1>18, <1>19, <1>20, <1>21, <1>22, <1>23, <1>24, <1>25, <1>26, <1>27, <1>28, <1>29, <1>30, <1>31 DEF Next, KernelStep

\* What allocproc does when it finds a slot.
Claims(p, q) ==
  /\ state[p] = "RUNNING" /\ pc[p] = "fork" /\ p # q
  /\ state[q] = "UNUSED" /\ lock[q] = NoProc /\ nextpid <= MaxPid
  /\ state'[q] = "USED" /\ \A r \in Slot \ {q} : state'[r] = state[r]
  /\ pid'[q] = nextpid /\ \A r \in Slot \ {q} : pid'[r] = pid[r]
  /\ lock'[q] = p /\ \A r \in Slot \ {q} : lock'[r] = lock[r]
  /\ arg'[p] = q /\ \A r \in Slot \ {p} : arg'[r] = arg[r]
  /\ pc'[p] = "copy" /\ \A r \in Slot \ {p} : pc'[r] = pc[r] /\ i'[r] = i[r]
  /\ nextpid' = nextpid + 1
  /\ UNCHANGED <<parent, chan, killed, waitLock, cpu, spin, holder, exiting, reaped>>

LEMMA ForkClaims ==
  ASSUME TypeOK, NEW p \in Slot, AllocProc(p), state[i[p]] = "UNUSED", nextpid <= MaxPid
  PROVE  \E q \in Slot : Claims(p, q)
  <1>1. PICK q \in Slot : q = i[p]
    BY Indices DEF AllocProc, TypeOK
  <1>2. /\ state' = [state EXCEPT ![q] = "USED"] /\ pid' = [pid EXCEPT ![q] = nextpid]
        /\ lock' = [lock EXCEPT ![q] = p] /\ arg' = [arg EXCEPT ![p] = q]
        /\ pc' = [pc EXCEPT ![p] = "copy"] /\ i' = [i EXCEPT ![p] = 0]
    BY <1>1, SizesAssumption DEF AllocProc, Goto, TypeOK
  <1>3. /\ nextpid' = nextpid + 1 /\ nextpid <= MaxPid
        /\ state[p] = "RUNNING" /\ pc[p] = "fork" /\ state[q] = "UNUSED" /\ lock[q] = NoProc
        /\ UNCHANGED <<parent, chan, killed, waitLock, cpu, spin, holder, exiting, reaped>>
    BY <1>1, SizesAssumption DEF AllocProc, At, Runs, Free, lkVars, TypeOK
  <1> QED
    BY <1>2, <1>3 DEF Claims, TypeOK

-----------------------------------------------------------------------------
(* Every step keeps every part, relative to the parts before it.            *)

\* Only the steps into and out of the critical sections move wait_lock and lk, and
\* no process is switched away from in one.
LEMMA PathsStep ==
  ASSUME TypeOK, Paths, Forks, Next
  PROVE  Paths'
  <1> USE Indices, NamesAssumption, TargetsAssumption DEF TypeOK, Paths, Forks, Scanning, Forking, Ending, OnFile, Live, initproc, At, Runs, Goto, procVars, lkVars, locals
  <1>1. ASSUME NEW c \in Cpu, Switch(c) PROVE Paths'
    BY <1>1 DEF Switch
  <1>2. ASSUME NEW c \in Cpu, NEW p \in Slot, Dispatch(c, p) PROVE Paths'
    BY <1>2 DEF Dispatch
  <1>3. ASSUME NEW p \in Slot, Preempt(p) PROVE Paths'
    BY <1>3 DEF Preempt, Sched, HoldsSpinlock
  <1>4. ASSUME NEW p \in Slot, Tick(p) PROVE Paths'
    BY <1>4 DEF Tick, Sched
  <1>5. ASSUME NEW p \in Slot, Enter(p) PROVE Paths'
    BY <1>5 DEF Enter, BeginExit
  <1>6. ASSUME NEW p \in Slot, EnterKilled(p) PROVE Paths'
    BY <1>6 DEF EnterKilled, BeginExit
  <1>7. ASSUME NEW p \in Slot, Return(p) PROVE Paths'
    BY <1>7 DEF Return, BeginExit
  <1>8. ASSUME NEW p \in Slot, AllocProc(p) PROVE Paths'
    <2>1. i[p] \in Slot
      BY <1>8 DEF AllocProc
    <2>2. CASE state[i[p]] = "UNUSED" /\ nextpid <= MaxPid
      <3>1. PICK q \in Slot : Claims(p, q)
        BY <1>8, <2>2, ForkClaims
      <3>2. (\A a \in Slot : pc[a] # "user" => state[a] \in Live)'
        BY <3>1 DEF Claims
      <3>3. (\A a \in Slot : pc[a] \in Scanning <=> waitLock = a)'
        BY <3>1 DEF Claims
      <3>4. (\A a \in Slot : pc[a] = "unlock" <=> spin = a)'
        BY <3>1 DEF Claims
      <3>5. (\A a \in Slot : pc[a] \in Scanning \cup {"unlock"} => state[a] = "RUNNING")'
        BY <3>1 DEF Claims
      <3>6. (\A a \in exiting : pc[a] \in OnFile \cup Ending)'
        BY <3>1 DEF Claims
      <3>7. (\A a \in Slot : pc[a] \in Ending => a \in exiting)'
        BY <3>1 DEF Claims
      <3>8. (\A a \in Slot : pc[a] = "kill" => arg[a] \in Targets)'
        BY <3>1 DEF Claims
      <3>9. (initproc \notin exiting /\ pc[initproc] \notin OnFile)'
        BY <3>1 DEF Claims
      <3>10. (state[initproc] \in Live /\ pid[initproc] = 1 /\ ~killed[initproc])'
        BY <3>1 DEF Claims
      <3> QED
        BY <3>2, <3>3, <3>4, <3>5, <3>6, <3>7, <3>8, <3>9, <3>10 DEF Paths
    <2>3. CASE ~(state[i[p]] = "UNUSED" /\ nextpid <= MaxPid)
      BY <1>8, <2>1, <2>3 DEF AllocProc, Again
    <2> QED
      BY <2>2, <2>3
  <1>9. ASSUME NEW p \in Slot, NoSlot(p) PROVE Paths'
    BY <1>9 DEF NoSlot
  <1>10. ASSUME NEW p \in Slot, ForkFails(p) PROVE Paths'
    BY <1>10 DEF ForkFails, FreeProc
  <1>11. ASSUME NEW p \in Slot, ForkCopied(p) PROVE Paths'
    BY <1>11 DEF ForkCopied
  <1>12. ASSUME NEW p \in Slot, ForkAdopt(p) PROVE Paths'
    BY <1>12 DEF ForkAdopt
  <1>13. ASSUME NEW p \in Slot, ForkStart(p) PROVE Paths'
    BY <1>13 DEF ForkStart
  <1>14. ASSUME NEW p \in Slot, WaitLock(p) PROVE Paths'
    BY <1>14 DEF WaitLock
  <1>15. ASSUME NEW p \in Slot, Reap(p) PROVE Paths'
    BY <1>15 DEF Reap, FreeProc
  <1>16. ASSUME NEW p \in Slot, ReapFails(p) PROVE Paths'
    BY <1>16 DEF ReapFails
  <1>17. ASSUME NEW p \in Slot, WaitScan(p) PROVE Paths'
    BY <1>17 DEF WaitScan
  <1>18. ASSUME NEW p \in Slot, WaitCheck(p) PROVE Paths'
    BY <1>18 DEF WaitCheck
  <1>19. ASSUME NEW p \in Slot, WaitSleep(p) PROVE Paths'
    BY <1>19 DEF WaitSleep, Sched
  <1>20. ASSUME NEW p \in Slot, ExitLock(p) PROVE Paths'
    BY <1>20 DEF ExitLock
  <1>21. ASSUME NEW p \in Slot, Reparent(p) PROVE Paths'
    BY <1>21 DEF Reparent
  <1>22. ASSUME NEW p \in Slot, Reparented(p) PROVE Paths'
    BY <1>22 DEF Reparented
  <1>23. ASSUME NEW p \in Slot, ExitWakes(p) PROVE Paths'
    BY <1>23 DEF ExitWakes, WakeOne, Again
  <1>24. ASSUME NEW p \in Slot, InitWoken(p) PROVE Paths'
    BY <1>24 DEF InitWoken
  <1>25. ASSUME NEW p \in Slot, BecomeZombie(p) PROVE Paths'
    BY <1>25 DEF BecomeZombie, Sched
  <1>26. ASSUME NEW p \in Slot, KillOne(p) PROVE Paths'
    BY <1>26 DEF KillOne, Again
  <1>27. ASSUME NEW p \in Slot, KillNobody(p) PROVE Paths'
    BY <1>27 DEF KillNobody
  <1>28. ASSUME NEW p \in Slot, AcquireSleep(p) PROVE Paths'
    BY <1>28 DEF AcquireSleep, Sched
  <1>29. ASSUME NEW p \in Slot, ReleaseSleep(p) PROVE Paths'
    BY <1>29 DEF ReleaseSleep
  <1>30. ASSUME NEW p \in Slot, ReleaseWakes(p) PROVE Paths'
    BY <1>30 DEF ReleaseWakes, WakeOne, Again
  <1>31. ASSUME NEW p \in Slot, Released(p) PROVE Paths'
    BY <1>31 DEF Released
  <1> QED
    BY <1>1, <1>2, <1>3, <1>4, <1>5, <1>6, <1>7, <1>8, <1>9, <1>10, <1>11, <1>12, <1>13, <1>14, <1>15, <1>16, <1>17, <1>18, <1>19, <1>20, <1>21, <1>22, <1>23, <1>24, <1>25, <1>26, <1>27, <1>28, <1>29, <1>30, <1>31 DEF Next, KernelStep

\* p->lock is taken with the state and given back with the stack.
LEMMA StacksStep ==
  ASSUME TypeOK, Paths, Stacks, Forks, Next
  PROVE  Stacks'
  <1> USE NamesAssumption, Indices DEF TypeOK, Paths, Stacks, Forks, Free, Scanning, Forking, Live, Occupied, initproc, At, Runs, Goto, procVars, lkVars, locals
  <1>1. ASSUME NEW c \in Cpu, Switch(c) PROVE Stacks'
    BY <1>1 DEF Switch
  <1>2. ASSUME NEW c \in Cpu, NEW p \in Slot, Dispatch(c, p) PROVE Stacks'
    BY <1>2 DEF Dispatch
  <1>3. ASSUME NEW p \in Slot, Preempt(p) PROVE Stacks'
    BY <1>3 DEF Preempt, Sched, HoldsSpinlock
  <1>4. ASSUME NEW p \in Slot, Tick(p) PROVE Stacks'
    BY <1>4 DEF Tick, Sched
  <1>5. ASSUME NEW p \in Slot, Enter(p) PROVE Stacks'
    BY <1>5 DEF Enter, BeginExit
  <1>6. ASSUME NEW p \in Slot, EnterKilled(p) PROVE Stacks'
    BY <1>6 DEF EnterKilled, BeginExit
  <1>7. ASSUME NEW p \in Slot, Return(p) PROVE Stacks'
    BY <1>7 DEF Return, BeginExit
  <1>8. ASSUME NEW p \in Slot, AllocProc(p) PROVE Stacks'
    <2>1. i[p] \in Slot
      BY <1>8 DEF AllocProc
    <2>2. CASE state[i[p]] = "UNUSED" /\ nextpid <= MaxPid
      <3>1. PICK q \in Slot : Claims(p, q)
        BY <1>8, <2>2, ForkClaims
      <3> QED
        BY <3>1 DEF Claims
    <2>3. CASE ~(state[i[p]] = "UNUSED" /\ nextpid <= MaxPid)
      BY <1>8, <2>1, <2>3 DEF AllocProc, Again
    <2> QED
      BY <2>2, <2>3
  <1>9. ASSUME NEW p \in Slot, NoSlot(p) PROVE Stacks'
    BY <1>9 DEF NoSlot
  <1>10. ASSUME NEW p \in Slot, ForkFails(p) PROVE Stacks'
    BY <1>10 DEF ForkFails, FreeProc
  <1>11. ASSUME NEW p \in Slot, ForkCopied(p) PROVE Stacks'
    BY <1>11 DEF ForkCopied
  <1>12. ASSUME NEW p \in Slot, ForkAdopt(p) PROVE Stacks'
    BY <1>12 DEF ForkAdopt
  <1>13. ASSUME NEW p \in Slot, ForkStart(p) PROVE Stacks'
    BY <1>13 DEF ForkStart
  <1>14. ASSUME NEW p \in Slot, WaitLock(p) PROVE Stacks'
    BY <1>14 DEF WaitLock
  <1>15. ASSUME NEW p \in Slot, Reap(p) PROVE Stacks'
    BY <1>15 DEF Reap, FreeProc
  <1>16. ASSUME NEW p \in Slot, ReapFails(p) PROVE Stacks'
    BY <1>16 DEF ReapFails
  <1>17. ASSUME NEW p \in Slot, WaitScan(p) PROVE Stacks'
    BY <1>17 DEF WaitScan
  <1>18. ASSUME NEW p \in Slot, WaitCheck(p) PROVE Stacks'
    BY <1>18 DEF WaitCheck
  <1>19. ASSUME NEW p \in Slot, WaitSleep(p) PROVE Stacks'
    BY <1>19 DEF WaitSleep, Sched
  <1>20. ASSUME NEW p \in Slot, ExitLock(p) PROVE Stacks'
    BY <1>20 DEF ExitLock
  <1>21. ASSUME NEW p \in Slot, Reparent(p) PROVE Stacks'
    BY <1>21 DEF Reparent
  <1>22. ASSUME NEW p \in Slot, Reparented(p) PROVE Stacks'
    BY <1>22 DEF Reparented
  <1>23. ASSUME NEW p \in Slot, ExitWakes(p) PROVE Stacks'
    BY <1>23 DEF ExitWakes, WakeOne, Again
  <1>24. ASSUME NEW p \in Slot, InitWoken(p) PROVE Stacks'
    BY <1>24 DEF InitWoken
  <1>25. ASSUME NEW p \in Slot, BecomeZombie(p) PROVE Stacks'
    BY <1>25 DEF BecomeZombie, Sched
  <1>26. ASSUME NEW p \in Slot, KillOne(p) PROVE Stacks'
    <2>1. i[p] \in Slot
      BY <1>26 DEF KillOne
    <2>2. CASE pid[i[p]] = arg[p]
      BY <1>26, <2>1, <2>2 DEF KillOne, Again
    <2>3. CASE pid[i[p]] # arg[p]
      BY <1>26, <2>1, <2>3 DEF KillOne, Again
    <2> QED
      BY <2>2, <2>3
  <1>27. ASSUME NEW p \in Slot, KillNobody(p) PROVE Stacks'
    BY <1>27 DEF KillNobody
  <1>28. ASSUME NEW p \in Slot, AcquireSleep(p) PROVE Stacks'
    BY <1>28 DEF AcquireSleep, Sched
  <1>29. ASSUME NEW p \in Slot, ReleaseSleep(p) PROVE Stacks'
    BY <1>29 DEF ReleaseSleep
  <1>30. ASSUME NEW p \in Slot, ReleaseWakes(p) PROVE Stacks'
    BY <1>30 DEF ReleaseWakes, WakeOne, Again
  <1>31. ASSUME NEW p \in Slot, Released(p) PROVE Stacks'
    BY <1>31 DEF Released
  <1> QED
    BY <1>1, <1>2, <1>3, <1>4, <1>5, <1>6, <1>7, <1>8, <1>9, <1>10, <1>11, <1>12, <1>13, <1>14, <1>15, <1>16, <1>17, <1>18, <1>19, <1>20, <1>21, <1>22, <1>23, <1>24, <1>25, <1>26, <1>27, <1>28, <1>29, <1>30, <1>31 DEF Next, KernelStep

\* The slot being filled stays USED until its fork fails or starts it.
LEMMA ForksStep ==
  ASSUME TypeOK, Paths, Stacks, Forks, Next
  PROVE  Forks'
  <1> USE NamesAssumption, Indices DEF TypeOK, Paths, Stacks, Forks, Free, Forking, Live, Occupied, initproc, At, Runs, Goto, procVars, lkVars, locals
  <1>1. ASSUME NEW c \in Cpu, Switch(c) PROVE Forks'
    BY <1>1 DEF Switch
  <1>2. ASSUME NEW c \in Cpu, NEW p \in Slot, Dispatch(c, p) PROVE Forks'
    BY <1>2 DEF Dispatch
  <1>3. ASSUME NEW p \in Slot, Preempt(p) PROVE Forks'
    BY <1>3 DEF Preempt, Sched, HoldsSpinlock
  <1>4. ASSUME NEW p \in Slot, Tick(p) PROVE Forks'
    BY <1>4 DEF Tick, Sched
  <1>5. ASSUME NEW p \in Slot, Enter(p) PROVE Forks'
    BY <1>5 DEF Enter, BeginExit
  <1>6. ASSUME NEW p \in Slot, EnterKilled(p) PROVE Forks'
    BY <1>6 DEF EnterKilled, BeginExit
  <1>7. ASSUME NEW p \in Slot, Return(p) PROVE Forks'
    BY <1>7 DEF Return, BeginExit
  <1>8. ASSUME NEW p \in Slot, AllocProc(p) PROVE Forks'
    <2>1. i[p] \in Slot
      BY <1>8 DEF AllocProc
    <2>2. CASE state[i[p]] = "UNUSED" /\ nextpid <= MaxPid
      <3>1. PICK q \in Slot : Claims(p, q)
        BY <1>8, <2>2, ForkClaims
      <3> QED
        BY <3>1 DEF Claims
    <2>3. CASE ~(state[i[p]] = "UNUSED" /\ nextpid <= MaxPid)
      BY <1>8, <2>1, <2>3 DEF AllocProc, Again
    <2> QED
      BY <2>2, <2>3
  <1>9. ASSUME NEW p \in Slot, NoSlot(p) PROVE Forks'
    BY <1>9 DEF NoSlot
  <1>10. ASSUME NEW p \in Slot, ForkFails(p) PROVE Forks'
    BY <1>10 DEF ForkFails, FreeProc
  <1>11. ASSUME NEW p \in Slot, ForkCopied(p) PROVE Forks'
    BY <1>11 DEF ForkCopied
  <1>12. ASSUME NEW p \in Slot, ForkAdopt(p) PROVE Forks'
    BY <1>12 DEF ForkAdopt
  <1>13. ASSUME NEW p \in Slot, ForkStart(p) PROVE Forks'
    BY <1>13 DEF ForkStart
  <1>14. ASSUME NEW p \in Slot, WaitLock(p) PROVE Forks'
    BY <1>14 DEF WaitLock
  <1>15. ASSUME NEW p \in Slot, Reap(p) PROVE Forks'
    BY <1>15 DEF Reap, FreeProc
  <1>16. ASSUME NEW p \in Slot, ReapFails(p) PROVE Forks'
    BY <1>16 DEF ReapFails
  <1>17. ASSUME NEW p \in Slot, WaitScan(p) PROVE Forks'
    BY <1>17 DEF WaitScan
  <1>18. ASSUME NEW p \in Slot, WaitCheck(p) PROVE Forks'
    BY <1>18 DEF WaitCheck
  <1>19. ASSUME NEW p \in Slot, WaitSleep(p) PROVE Forks'
    BY <1>19 DEF WaitSleep, Sched
  <1>20. ASSUME NEW p \in Slot, ExitLock(p) PROVE Forks'
    BY <1>20 DEF ExitLock
  <1>21. ASSUME NEW p \in Slot, Reparent(p) PROVE Forks'
    BY <1>21 DEF Reparent
  <1>22. ASSUME NEW p \in Slot, Reparented(p) PROVE Forks'
    BY <1>22 DEF Reparented
  <1>23. ASSUME NEW p \in Slot, ExitWakes(p) PROVE Forks'
    BY <1>23 DEF ExitWakes, WakeOne, Again
  <1>24. ASSUME NEW p \in Slot, InitWoken(p) PROVE Forks'
    BY <1>24 DEF InitWoken
  <1>25. ASSUME NEW p \in Slot, BecomeZombie(p) PROVE Forks'
    BY <1>25 DEF BecomeZombie, Sched
  <1>26. ASSUME NEW p \in Slot, KillOne(p) PROVE Forks'
    BY <1>26 DEF KillOne, Again
  <1>27. ASSUME NEW p \in Slot, KillNobody(p) PROVE Forks'
    BY <1>27 DEF KillNobody
  <1>28. ASSUME NEW p \in Slot, AcquireSleep(p) PROVE Forks'
    BY <1>28 DEF AcquireSleep, Sched
  <1>29. ASSUME NEW p \in Slot, ReleaseSleep(p) PROVE Forks'
    BY <1>29 DEF ReleaseSleep
  <1>30. ASSUME NEW p \in Slot, ReleaseWakes(p) PROVE Forks'
    BY <1>30 DEF ReleaseWakes, WakeOne, Again
  <1>31. ASSUME NEW p \in Slot, Released(p) PROVE Forks'
    BY <1>31 DEF Released
  <1> QED
    BY <1>1, <1>2, <1>3, <1>4, <1>5, <1>6, <1>7, <1>8, <1>9, <1>10, <1>11, <1>12, <1>13, <1>14, <1>15, <1>16, <1>17, <1>18, <1>19, <1>20, <1>21, <1>22, <1>23, <1>24, <1>25, <1>26, <1>27, <1>28, <1>29, <1>30, <1>31 DEF Next, KernelStep

\* reparent empties the children before the parent ends.
LEMMA TreeStep ==
  ASSUME TypeOK, Paths, Stacks, Forks, Tree, Next
  PROVE  Tree'
  <1> USE NamesAssumption, Indices DEF TypeOK, Paths, Stacks, Forks, Tree, Free, Kids, Unscanned, NextKid, Scanning, Forking, Ending, OnFile, Live, Occupied, initproc, At, Runs, Goto, procVars, lkVars, locals
  <1>1. ASSUME NEW c \in Cpu, Switch(c) PROVE Tree'
    BY <1>1 DEF Switch
  <1>2. ASSUME NEW c \in Cpu, NEW p \in Slot, Dispatch(c, p) PROVE Tree'
    BY <1>2 DEF Dispatch
  <1>3. ASSUME NEW p \in Slot, Preempt(p) PROVE Tree'
    BY <1>3 DEF Preempt, Sched, HoldsSpinlock
  <1>4. ASSUME NEW p \in Slot, Tick(p) PROVE Tree'
    BY <1>4 DEF Tick, Sched
  <1>5. ASSUME NEW p \in Slot, Enter(p) PROVE Tree'
    BY <1>5 DEF Enter, BeginExit
  <1>6. ASSUME NEW p \in Slot, EnterKilled(p) PROVE Tree'
    BY <1>6 DEF EnterKilled, BeginExit
  <1>7. ASSUME NEW p \in Slot, Return(p) PROVE Tree'
    BY <1>7 DEF Return, BeginExit
  <1>8. ASSUME NEW p \in Slot, AllocProc(p) PROVE Tree'
    <2>1. i[p] \in Slot
      BY <1>8 DEF AllocProc
    <2>2. CASE state[i[p]] = "UNUSED" /\ nextpid <= MaxPid
      <3>1. PICK q \in Slot : Claims(p, q)
        BY <1>8, <2>2, ForkClaims
      <3>2. (\A a \in Slot : pc[a] \in {"copy", "adopt"} => parent[arg[a]] = NoProc)'
        BY <3>1 DEF Claims
      <3>3. (\A a \in Slot : pc[a] = "start" => parent[arg[a]] = a)'
        BY <3>1 DEF Claims
      <3>4. (parent[initproc] = NoProc)'
        BY <3>1 DEF Claims
      <3>5. (\A b \in Slot : state[b] \in Occupied /\ b # initproc => parent[b] \in Slot)'
        BY <3>1 DEF Claims
      <3>6. (\A b \in Slot : parent[b] \in Slot => state[parent[b]] \in Live)'
        BY <3>1 DEF Claims
      <3>7. (\A b \in Slot : parent[b] \in Slot /\ state[b] \notin Occupied => pc[parent[b]] = "start" /\ arg[parent[b]] = b)'
        BY <3>1 DEF Claims
      <3>8. (\A a \in Slot : pc[a] = "wakeparent" => Kids(a) = {})'
        BY <3>1 DEF Claims
      <3> QED
        BY <3>2, <3>3, <3>4, <3>5, <3>6, <3>7, <3>8 DEF Tree
    <2>3. CASE ~(state[i[p]] = "UNUSED" /\ nextpid <= MaxPid)
      BY <1>8, <2>1, <2>3 DEF AllocProc, Again
    <2> QED
      BY <2>2, <2>3
  <1>9. ASSUME NEW p \in Slot, NoSlot(p) PROVE Tree'
    BY <1>9 DEF NoSlot
  <1>10. ASSUME NEW p \in Slot, ForkFails(p) PROVE Tree'
    BY <1>10 DEF ForkFails, FreeProc
  <1>11. ASSUME NEW p \in Slot, ForkCopied(p) PROVE Tree'
    BY <1>11 DEF ForkCopied
  <1>12. ASSUME NEW p \in Slot, ForkAdopt(p) PROVE Tree'
    BY <1>12 DEF ForkAdopt
  <1>13. ASSUME NEW p \in Slot, ForkStart(p) PROVE Tree'
    BY <1>13 DEF ForkStart
  <1>14. ASSUME NEW p \in Slot, WaitLock(p) PROVE Tree'
    BY <1>14 DEF WaitLock
  <1>15. ASSUME NEW p \in Slot, Reap(p) PROVE Tree'
    BY <1>15 DEF Reap, FreeProc
  <1>16. ASSUME NEW p \in Slot, ReapFails(p) PROVE Tree'
    BY <1>16 DEF ReapFails
  <1>17. ASSUME NEW p \in Slot, WaitScan(p) PROVE Tree'
    BY <1>17 DEF WaitScan
  <1>18. ASSUME NEW p \in Slot, WaitCheck(p) PROVE Tree'
    BY <1>18 DEF WaitCheck
  <1>19. ASSUME NEW p \in Slot, WaitSleep(p) PROVE Tree'
    BY <1>19 DEF WaitSleep, Sched
  <1>20. ASSUME NEW p \in Slot, ExitLock(p) PROVE Tree'
    BY <1>20 DEF ExitLock
  <1>21. ASSUME NEW p \in Slot, Reparent(p) PROVE Tree'
    BY <1>21 DEF Reparent
  <1>22. ASSUME NEW p \in Slot, Reparented(p) PROVE Tree'
    BY <1>22 DEF Reparented
  <1>23. ASSUME NEW p \in Slot, ExitWakes(p) PROVE Tree'
    BY <1>23 DEF ExitWakes, WakeOne, Again
  <1>24. ASSUME NEW p \in Slot, InitWoken(p) PROVE Tree'
    BY <1>24 DEF InitWoken
  <1>25. ASSUME NEW p \in Slot, BecomeZombie(p) PROVE Tree'
    BY <1>25 DEF BecomeZombie, Sched
  <1>26. ASSUME NEW p \in Slot, KillOne(p) PROVE Tree'
    <2>1. i[p] \in Slot
      BY <1>26 DEF KillOne
    <2>2. CASE pid[i[p]] = arg[p]
      <3>1. (\A a \in Slot : pc[a] \in {"copy", "adopt"} => parent[arg[a]] = NoProc)'
        BY <1>26, <2>1, <2>2 DEF KillOne, Again
      <3>2. (\A a \in Slot : pc[a] = "start" => parent[arg[a]] = a)'
        BY <1>26, <2>1, <2>2 DEF KillOne, Again
      <3>3. (parent[initproc] = NoProc)'
        BY <1>26, <2>1, <2>2 DEF KillOne, Again
      <3>4. (\A b \in Slot : state[b] \in Occupied /\ b # initproc => parent[b] \in Slot)'
        BY <1>26, <2>1, <2>2 DEF KillOne, Again
      <3>5. (\A b \in Slot : parent[b] \in Slot => state[parent[b]] \in Live)'
        BY <1>26, <2>1, <2>2 DEF KillOne, Again
      <3>6. (\A b \in Slot : parent[b] \in Slot /\ state[b] \notin Occupied => pc[parent[b]] = "start" /\ arg[parent[b]] = b)'
        BY <1>26, <2>1, <2>2 DEF KillOne, Again
      <3>7. (\A a \in Slot : pc[a] = "wakeparent" => Kids(a) = {})'
        BY <1>26, <2>1, <2>2 DEF KillOne, Again
      <3> QED
        BY <3>1, <3>2, <3>3, <3>4, <3>5, <3>6, <3>7 DEF Tree
    <2>3. CASE pid[i[p]] # arg[p]
      BY <1>26, <2>1, <2>3 DEF KillOne, Again
    <2> QED
      BY <2>2, <2>3
  <1>27. ASSUME NEW p \in Slot, KillNobody(p) PROVE Tree'
    BY <1>27 DEF KillNobody
  <1>28. ASSUME NEW p \in Slot, AcquireSleep(p) PROVE Tree'
    BY <1>28 DEF AcquireSleep, Sched
  <1>29. ASSUME NEW p \in Slot, ReleaseSleep(p) PROVE Tree'
    BY <1>29 DEF ReleaseSleep
  <1>30. ASSUME NEW p \in Slot, ReleaseWakes(p) PROVE Tree'
    BY <1>30 DEF ReleaseWakes, WakeOne, Again
  <1>31. ASSUME NEW p \in Slot, Released(p) PROVE Tree'
    BY <1>31 DEF Released
  <1> QED
    BY <1>1, <1>2, <1>3, <1>4, <1>5, <1>6, <1>7, <1>8, <1>9, <1>10, <1>11, <1>12, <1>13, <1>14, <1>15, <1>16, <1>17, <1>18, <1>19, <1>20, <1>21, <1>22, <1>23, <1>24, <1>25, <1>26, <1>27, <1>28, <1>29, <1>30, <1>31 DEF Next, KernelStep

\* nextpid is above every pid given out.
LEMMA PidsStep ==
  ASSUME TypeOK, Paths, Forks, Pids, Next
  PROVE  Pids'
  <1> USE SizesAssumption, Indices DEF TypeOK, Forks, Pids, Forking, Live, initproc, At, Runs, Goto, procVars, lkVars, locals
  <1>1. ASSUME NEW c \in Cpu, Switch(c) PROVE Pids'
    BY <1>1 DEF Switch
  <1>2. ASSUME NEW c \in Cpu, NEW p \in Slot, Dispatch(c, p) PROVE Pids'
    BY <1>2 DEF Dispatch
  <1>3. ASSUME NEW p \in Slot, Preempt(p) PROVE Pids'
    BY <1>3 DEF Preempt, Sched, HoldsSpinlock
  <1>4. ASSUME NEW p \in Slot, Tick(p) PROVE Pids'
    BY <1>4 DEF Tick, Sched
  <1>5. ASSUME NEW p \in Slot, Enter(p) PROVE Pids'
    BY <1>5 DEF Enter, BeginExit
  <1>6. ASSUME NEW p \in Slot, EnterKilled(p) PROVE Pids'
    BY <1>6 DEF EnterKilled, BeginExit
  <1>7. ASSUME NEW p \in Slot, Return(p) PROVE Pids'
    BY <1>7 DEF Return, BeginExit
  <1>8. ASSUME NEW p \in Slot, AllocProc(p) PROVE Pids'
    <2>1. i[p] \in Slot
      BY <1>8 DEF AllocProc
    <2>2. CASE state[i[p]] = "UNUSED" /\ nextpid <= MaxPid
      <3>1. PICK q \in Slot : Claims(p, q)
        BY <1>8, <2>2, ForkClaims
      <3>2. (nextpid >= 2)'
        BY <3>1 DEF Claims
      <3>3. \A b \in Slot : state'[b] # "UNUSED" => pid'[b] \in 1..(nextpid' - 1) /\ pid'[b] \notin reaped'
        <4>1. nextpid \in Int /\ nextpid' = nextpid + 1 /\ reaped' = reaped
          BY <3>1 DEF Claims
        <4>2. pid'[q] \in 1..(nextpid' - 1) /\ pid'[q] \notin reaped'
          BY <3>1, <4>1 DEF Claims
        <4>3. \A b \in Slot \ {q} : pid'[b] = pid[b] /\ state'[b] = state[b]
          BY <3>1 DEF Claims
        <4> QED
          BY <4>1, <4>2, <4>3
      <3>4. (\A a, b \in Slot : state[a] # "UNUSED" /\ state[b] # "UNUSED" /\ pid[a] = pid[b] => a = b)'
        BY <3>1 DEF Claims
      <3>5. (\A n \in reaped : n < nextpid)'
        BY <3>1 DEF Claims, Pid
      <3> QED
        BY <3>2, <3>3, <3>4, <3>5 DEF Pids
    <2>3. CASE ~(state[i[p]] = "UNUSED" /\ nextpid <= MaxPid)
      BY <1>8, <2>1, <2>3 DEF AllocProc, Again
    <2> QED
      BY <2>2, <2>3
  <1>9. ASSUME NEW p \in Slot, NoSlot(p) PROVE Pids'
    BY <1>9 DEF NoSlot
  <1>10. ASSUME NEW p \in Slot, ForkFails(p) PROVE Pids'
    BY <1>10 DEF ForkFails, FreeProc
  <1>11. ASSUME NEW p \in Slot, ForkCopied(p) PROVE Pids'
    BY <1>11 DEF ForkCopied
  <1>12. ASSUME NEW p \in Slot, ForkAdopt(p) PROVE Pids'
    BY <1>12 DEF ForkAdopt
  <1>13. ASSUME NEW p \in Slot, ForkStart(p) PROVE Pids'
    BY <1>13 DEF ForkStart
  <1>14. ASSUME NEW p \in Slot, WaitLock(p) PROVE Pids'
    BY <1>14 DEF WaitLock
  <1>15. ASSUME NEW p \in Slot, Reap(p) PROVE Pids'
    BY <1>15 DEF Reap, FreeProc
  <1>16. ASSUME NEW p \in Slot, ReapFails(p) PROVE Pids'
    BY <1>16 DEF ReapFails
  <1>17. ASSUME NEW p \in Slot, WaitScan(p) PROVE Pids'
    BY <1>17 DEF WaitScan
  <1>18. ASSUME NEW p \in Slot, WaitCheck(p) PROVE Pids'
    BY <1>18 DEF WaitCheck
  <1>19. ASSUME NEW p \in Slot, WaitSleep(p) PROVE Pids'
    BY <1>19 DEF WaitSleep, Sched
  <1>20. ASSUME NEW p \in Slot, ExitLock(p) PROVE Pids'
    BY <1>20 DEF ExitLock
  <1>21. ASSUME NEW p \in Slot, Reparent(p) PROVE Pids'
    BY <1>21 DEF Reparent
  <1>22. ASSUME NEW p \in Slot, Reparented(p) PROVE Pids'
    BY <1>22 DEF Reparented
  <1>23. ASSUME NEW p \in Slot, ExitWakes(p) PROVE Pids'
    BY <1>23 DEF ExitWakes, WakeOne, Again
  <1>24. ASSUME NEW p \in Slot, InitWoken(p) PROVE Pids'
    BY <1>24 DEF InitWoken
  <1>25. ASSUME NEW p \in Slot, BecomeZombie(p) PROVE Pids'
    BY <1>25 DEF BecomeZombie, Sched
  <1>26. ASSUME NEW p \in Slot, KillOne(p) PROVE Pids'
    BY <1>26 DEF KillOne, Again
  <1>27. ASSUME NEW p \in Slot, KillNobody(p) PROVE Pids'
    BY <1>27 DEF KillNobody
  <1>28. ASSUME NEW p \in Slot, AcquireSleep(p) PROVE Pids'
    BY <1>28 DEF AcquireSleep, Sched
  <1>29. ASSUME NEW p \in Slot, ReleaseSleep(p) PROVE Pids'
    BY <1>29 DEF ReleaseSleep
  <1>30. ASSUME NEW p \in Slot, ReleaseWakes(p) PROVE Pids'
    BY <1>30 DEF ReleaseWakes, WakeOne, Again
  <1>31. ASSUME NEW p \in Slot, Released(p) PROVE Pids'
    BY <1>31 DEF Released
  <1> QED
    BY <1>1, <1>2, <1>3, <1>4, <1>5, <1>6, <1>7, <1>8, <1>9, <1>10, <1>11, <1>12, <1>13, <1>14, <1>15, <1>16, <1>17, <1>18, <1>19, <1>20, <1>21, <1>22, <1>23, <1>24, <1>25, <1>26, <1>27, <1>28, <1>29, <1>30, <1>31 DEF Next, KernelStep

\* lk passes from one holder to none to one.
LEMMA HoldingStep ==
  ASSUME TypeOK, Paths, Forks, Pids, Holding, Next
  PROVE  Holding'
  <1> USE SizesAssumption, Indices DEF TypeOK, Paths, Forks, Pids, Holding, Forking, Live, initproc, At, Runs, Goto, procVars, lkVars, locals
  <1>1. ASSUME NEW c \in Cpu, Switch(c) PROVE Holding'
    BY <1>1 DEF Switch
  <1>2. ASSUME NEW c \in Cpu, NEW p \in Slot, Dispatch(c, p) PROVE Holding'
    BY <1>2 DEF Dispatch
  <1>3. ASSUME NEW p \in Slot, Preempt(p) PROVE Holding'
    BY <1>3 DEF Preempt, Sched, HoldsSpinlock
  <1>4. ASSUME NEW p \in Slot, Tick(p) PROVE Holding'
    BY <1>4 DEF Tick, Sched
  <1>5. ASSUME NEW p \in Slot, Enter(p) PROVE Holding'
    BY <1>5 DEF Enter, BeginExit
  <1>6. ASSUME NEW p \in Slot, EnterKilled(p) PROVE Holding'
    BY <1>6 DEF EnterKilled, BeginExit
  <1>7. ASSUME NEW p \in Slot, Return(p) PROVE Holding'
    BY <1>7 DEF Return, BeginExit
  <1>8. ASSUME NEW p \in Slot, AllocProc(p) PROVE Holding'
    <2>1. i[p] \in Slot
      BY <1>8 DEF AllocProc
    <2>2. CASE state[i[p]] = "UNUSED" /\ nextpid <= MaxPid
      <3>1. PICK q \in Slot : Claims(p, q)
        BY <1>8, <2>2, ForkClaims
      <3>2. (\A a \in Slot : pc[a] = "hold" => holder = pid[a])'
        BY <3>1 DEF Claims
      <3>3. (\A a, b \in Slot : pc[a] = "hold" /\ pc[b] = "hold" => a = b)'
        BY <3>1 DEF Claims
      <3> QED
        BY <3>2, <3>3 DEF Holding
    <2>3. CASE ~(state[i[p]] = "UNUSED" /\ nextpid <= MaxPid)
      BY <1>8, <2>1, <2>3 DEF AllocProc, Again
    <2> QED
      BY <2>2, <2>3
  <1>9. ASSUME NEW p \in Slot, NoSlot(p) PROVE Holding'
    BY <1>9 DEF NoSlot
  <1>10. ASSUME NEW p \in Slot, ForkFails(p) PROVE Holding'
    BY <1>10 DEF ForkFails, FreeProc
  <1>11. ASSUME NEW p \in Slot, ForkCopied(p) PROVE Holding'
    BY <1>11 DEF ForkCopied
  <1>12. ASSUME NEW p \in Slot, ForkAdopt(p) PROVE Holding'
    BY <1>12 DEF ForkAdopt
  <1>13. ASSUME NEW p \in Slot, ForkStart(p) PROVE Holding'
    BY <1>13 DEF ForkStart
  <1>14. ASSUME NEW p \in Slot, WaitLock(p) PROVE Holding'
    BY <1>14 DEF WaitLock
  <1>15. ASSUME NEW p \in Slot, Reap(p) PROVE Holding'
    BY <1>15 DEF Reap, FreeProc
  <1>16. ASSUME NEW p \in Slot, ReapFails(p) PROVE Holding'
    BY <1>16 DEF ReapFails
  <1>17. ASSUME NEW p \in Slot, WaitScan(p) PROVE Holding'
    BY <1>17 DEF WaitScan
  <1>18. ASSUME NEW p \in Slot, WaitCheck(p) PROVE Holding'
    BY <1>18 DEF WaitCheck
  <1>19. ASSUME NEW p \in Slot, WaitSleep(p) PROVE Holding'
    BY <1>19 DEF WaitSleep, Sched
  <1>20. ASSUME NEW p \in Slot, ExitLock(p) PROVE Holding'
    BY <1>20 DEF ExitLock
  <1>21. ASSUME NEW p \in Slot, Reparent(p) PROVE Holding'
    BY <1>21 DEF Reparent
  <1>22. ASSUME NEW p \in Slot, Reparented(p) PROVE Holding'
    BY <1>22 DEF Reparented
  <1>23. ASSUME NEW p \in Slot, ExitWakes(p) PROVE Holding'
    BY <1>23 DEF ExitWakes, WakeOne, Again
  <1>24. ASSUME NEW p \in Slot, InitWoken(p) PROVE Holding'
    BY <1>24 DEF InitWoken
  <1>25. ASSUME NEW p \in Slot, BecomeZombie(p) PROVE Holding'
    BY <1>25 DEF BecomeZombie, Sched
  <1>26. ASSUME NEW p \in Slot, KillOne(p) PROVE Holding'
    BY <1>26 DEF KillOne, Again
  <1>27. ASSUME NEW p \in Slot, KillNobody(p) PROVE Holding'
    BY <1>27 DEF KillNobody
  <1>28. ASSUME NEW p \in Slot, AcquireSleep(p) PROVE Holding'
    <2>1. CASE holder = 0
      <3>1. (\A a \in Slot : pc[a] = "hold" => holder = pid[a])'
        BY <1>28, <2>1 DEF AcquireSleep, Sched
      <3>2. (\A a, b \in Slot : pc[a] = "hold" /\ pc[b] = "hold" => a = b)'
        BY <1>28, <2>1 DEF AcquireSleep, Sched
      <3> QED
        BY <3>1, <3>2 DEF Holding
    <2>2. CASE holder # 0
      BY <1>28, <2>2 DEF AcquireSleep, Sched
    <2> QED
      BY <2>1, <2>2
  <1>29. ASSUME NEW p \in Slot, ReleaseSleep(p) PROVE Holding'
    BY <1>29 DEF ReleaseSleep
  <1>30. ASSUME NEW p \in Slot, ReleaseWakes(p) PROVE Holding'
    BY <1>30 DEF ReleaseWakes, WakeOne, Again
  <1>31. ASSUME NEW p \in Slot, Released(p) PROVE Holding'
    BY <1>31 DEF Released
  <1> QED
    BY <1>1, <1>2, <1>3, <1>4, <1>5, <1>6, <1>7, <1>8, <1>9, <1>10, <1>11, <1>12, <1>13, <1>14, <1>15, <1>16, <1>17, <1>18, <1>19, <1>20, <1>21, <1>22, <1>23, <1>24, <1>25, <1>26, <1>27, <1>28, <1>29, <1>30, <1>31 DEF Next, KernelStep

\* A round of wakeup that ends beyond a slot was at it or had passed it.
LEMMA NextRound ==
  ASSUME TypeOK, NEW p \in Slot, i' = [i EXCEPT ![p] = @ + 1], parent[p] \in Slot, i'[p] > parent[p]
  PROVE  i[p] = parent[p] \/ i[p] > parent[p]
  <1>1. i[p] \in Int /\ i'[p] = i[p] + 1
    BY Indices DEF TypeOK
  <1>2. parent[p] \in Int
    BY Indices
  <1> QED
    BY <1>1, <1>2

\* Every zombie is announced to its parent under wait_lock, every release of
\* the sleep lock to its waiters under lk.
LEMMA ReasonsStep ==
  ASSUME TypeOK, Paths, Stacks, Forks, Tree, Holding, Reasons, Next
  PROVE  Reasons'
  <1> USE NamesAssumption, Indices, SizesAssumption DEF TypeOK, Paths, Stacks, Tree, Forks, Reasons, Asleep, Free, Kids, Unscanned, NextKid, Scanning, Forking, Ending, OnFile, Live, Occupied, initproc, At, Runs, Goto, procVars, lkVars, locals
  <1>1. ASSUME NEW c \in Cpu, Switch(c) PROVE Reasons'
    BY <1>1 DEF Switch
  <1>2. ASSUME NEW c \in Cpu, NEW p \in Slot, Dispatch(c, p) PROVE Reasons'
    BY <1>2 DEF Dispatch
  <1>3. ASSUME NEW p \in Slot, Preempt(p) PROVE Reasons'
    BY <1>3 DEF Preempt, Sched
  <1>4. ASSUME NEW p \in Slot, Tick(p) PROVE Reasons'
    BY <1>4 DEF Tick, Sched
  <1>5. ASSUME NEW p \in Slot, Enter(p) PROVE Reasons'
    BY <1>5, SMTT(30) DEF Enter, BeginExit
  <1>6. ASSUME NEW p \in Slot, EnterKilled(p) PROVE Reasons'
    BY <1>6 DEF EnterKilled, BeginExit
  <1>7. ASSUME NEW p \in Slot, Return(p) PROVE Reasons'
    <2>1. (\A a \in Slot : state[a] = "SLEEPING" => chan[a] \in {a, Lk})'
      BY <1>7 DEF Return, BeginExit
    <2>2. (\A a \in Slot : Asleep(a, a) => Kids(a) # {})'
      BY <1>7 DEF Return, BeginExit
    <2>3. (\A a, b \in Slot : Asleep(a, a) /\ parent[b] = a /\ state[b] = "ZOMBIE" => a = initproc /\ \E r \in Slot : pc[r] = "wakeinit" /\ i[r] = 0)'
      BY <1>7 DEF Return, BeginExit
    <2>4. (\A b \in Slot : pc[b] = "wakeparent" /\ i[b] > parent[b] => ~Asleep(parent[b], parent[b]))'
      BY <1>7 DEF Return, BeginExit
    <2>5. (\A a \in Slot : Asleep(a, Lk) => holder # 0 \/ \E r \in Slot : pc[r] = "unlock" /\ i[r] <= a)'
      BY <1>7 DEF Return, BeginExit
    <2>6. (\A a, b \in Slot : pc[a] = "scan" /\ parent[b] = a /\ b < i[a] => state[b] # "ZOMBIE")'
      BY <1>7 DEF Return, BeginExit
    <2>7. (\A a, b \in Slot : pc[a] = "sleep" /\ parent[b] = a => state[b] # "ZOMBIE")'
      BY <1>7 DEF Return, BeginExit
    <2>8. (\A a \in Slot : pc[a] = "sleep" => Kids(a) # {})'
      BY <1>7 DEF Return, BeginExit
    <2> QED
      BY <2>1, <2>2, <2>3, <2>4, <2>5, <2>6, <2>7, <2>8 DEF Reasons
  <1>8. ASSUME NEW p \in Slot, AllocProc(p) PROVE Reasons'
    <2>1. i[p] \in Slot
      BY <1>8 DEF AllocProc
    <2>2. CASE state[i[p]] = "UNUSED" /\ nextpid <= MaxPid
      <3>1. PICK q \in Slot : Claims(p, q)
        BY <1>8, <2>2, ForkClaims
      <3> QED
        <4>1. (\A a \in Slot : state[a] = "SLEEPING" => chan[a] \in {a, Lk})'
          BY <3>1 DEF Claims
        <4>2. (\A a \in Slot : Asleep(a, a) => Kids(a) # {})'
          BY <3>1 DEF Claims
        <4>3. (\A a, b \in Slot : Asleep(a, a) /\ parent[b] = a /\ state[b] = "ZOMBIE" => a = initproc /\ \E r \in Slot : pc[r] = "wakeinit" /\ i[r] = 0)'
          <5>1. \A r \in Slot : pc[r] = "wakeinit" /\ i[r] = 0 => pc'[r] = "wakeinit" /\ i'[r] = 0
            BY <3>1 DEF Claims
          <5>2. \A r \in Slot : state'[r] \in {"SLEEPING", "ZOMBIE"} => state[r] = state'[r]
            BY <3>1 DEF Claims
          <5> QED
            BY <3>1, <5>1, <5>2 DEF Claims
        <4>4. (\A b \in Slot : pc[b] = "wakeparent" /\ i[b] > parent[b] => ~Asleep(parent[b], parent[b]))'
          BY <3>1 DEF Claims
        <4>5. (\A a \in Slot : Asleep(a, Lk) => holder # 0 \/ \E r \in Slot : pc[r] = "unlock" /\ i[r] <= a)'
          <5>1. \A r \in Slot : pc[r] = "unlock" => pc'[r] = "unlock" /\ i'[r] = i[r]
            BY <3>1 DEF Claims
          <5>2. \A r \in Slot : state'[r] = "SLEEPING" => state[r] = "SLEEPING"
            BY <3>1 DEF Claims
          <5> QED
            BY <3>1, <5>1, <5>2 DEF Claims
        <4>6. (\A a, b \in Slot : pc[a] = "scan" /\ parent[b] = a /\ b < i[a] => state[b] # "ZOMBIE")'
          BY <3>1 DEF Claims
        <4>7. (\A a, b \in Slot : pc[a] = "sleep" /\ parent[b] = a => state[b] # "ZOMBIE")'
          BY <3>1 DEF Claims
        <4>8. (\A a \in Slot : pc[a] = "sleep" => Kids(a) # {})'
          BY <3>1 DEF Claims
        <4> QED
          BY <4>1, <4>2, <4>3, <4>4, <4>5, <4>6, <4>7, <4>8 DEF Reasons
    <2>3. CASE ~(state[i[p]] = "UNUSED" /\ nextpid <= MaxPid)
      <3>1. (\A a \in Slot : state[a] = "SLEEPING" => chan[a] \in {a, Lk})'
        BY <1>8, <2>1, <2>3 DEF AllocProc, Again
      <3>2. (\A a \in Slot : Asleep(a, a) => Kids(a) # {})'
        BY <1>8, <2>1, <2>3 DEF AllocProc, Again
      <3>3. (\A a, b \in Slot : Asleep(a, a) /\ parent[b] = a /\ state[b] = "ZOMBIE" => a = initproc /\ \E r \in Slot : pc[r] = "wakeinit" /\ i[r] = 0)'
        BY <1>8, <2>1, <2>3 DEF AllocProc, Again
      <3>4. (\A b \in Slot : pc[b] = "wakeparent" /\ i[b] > parent[b] => ~Asleep(parent[b], parent[b]))'
        BY <1>8, <2>1, <2>3 DEF AllocProc, Again
      <3>5. (\A a \in Slot : Asleep(a, Lk) => holder # 0 \/ \E r \in Slot : pc[r] = "unlock" /\ i[r] <= a)'
        BY <1>8, <2>1, <2>3 DEF AllocProc, Again
      <3>6. (\A a, b \in Slot : pc[a] = "scan" /\ parent[b] = a /\ b < i[a] => state[b] # "ZOMBIE")'
        BY <1>8, <2>1, <2>3 DEF AllocProc, Again
      <3>7. (\A a, b \in Slot : pc[a] = "sleep" /\ parent[b] = a => state[b] # "ZOMBIE")'
        BY <1>8, <2>1, <2>3 DEF AllocProc, Again
      <3>8. (\A a \in Slot : pc[a] = "sleep" => Kids(a) # {})'
        BY <1>8, <2>1, <2>3 DEF AllocProc, Again
      <3> QED
        BY <3>1, <3>2, <3>3, <3>4, <3>5, <3>6, <3>7, <3>8 DEF Reasons
    <2> QED
      BY <2>2, <2>3
  <1>9. ASSUME NEW p \in Slot, NoSlot(p) PROVE Reasons'
    BY <1>9 DEF NoSlot
  <1>10. ASSUME NEW p \in Slot, ForkFails(p) PROVE Reasons'
    BY <1>10 DEF ForkFails, FreeProc
  <1>11. ASSUME NEW p \in Slot, ForkCopied(p) PROVE Reasons'
    BY <1>11 DEF ForkCopied
  <1>12. ASSUME NEW p \in Slot, ForkAdopt(p) PROVE Reasons'
    BY <1>12 DEF ForkAdopt
  <1>13. ASSUME NEW p \in Slot, ForkStart(p) PROVE Reasons'
    BY <1>13 DEF ForkStart
  <1>14. ASSUME NEW p \in Slot, WaitLock(p) PROVE Reasons'
    BY <1>14 DEF WaitLock
  <1>15. ASSUME NEW p \in Slot, Reap(p) PROVE Reasons'
    BY <1>15 DEF Reap, FreeProc
  <1>16. ASSUME NEW p \in Slot, ReapFails(p) PROVE Reasons'
    BY <1>16 DEF ReapFails
  <1>17. ASSUME NEW p \in Slot, WaitScan(p) PROVE Reasons'
    <2>1. (\A a \in Slot : state[a] = "SLEEPING" => chan[a] \in {a, Lk})'
      BY <1>17 DEF WaitScan
    <2>2. (\A a \in Slot : Asleep(a, a) => Kids(a) # {})'
      BY <1>17 DEF WaitScan
    <2>3. (\A a, b \in Slot : Asleep(a, a) /\ parent[b] = a /\ state[b] = "ZOMBIE" => a = initproc /\ \E r \in Slot : pc[r] = "wakeinit" /\ i[r] = 0)'
      BY <1>17 DEF WaitScan
    <2>4. (\A b \in Slot : pc[b] = "wakeparent" /\ i[b] > parent[b] => ~Asleep(parent[b], parent[b]))'
      BY <1>17 DEF WaitScan
    <2>5. (\A a \in Slot : Asleep(a, Lk) => holder # 0 \/ \E r \in Slot : pc[r] = "unlock" /\ i[r] <= a)'
      BY <1>17 DEF WaitScan
    <2>6. (\A a, b \in Slot : pc[a] = "scan" /\ parent[b] = a /\ b < i[a] => state[b] # "ZOMBIE")'
      <3>1. PICK q \in Slot : NextKid(p, q) /\ state[q] # "ZOMBIE" /\ i' = [i EXCEPT ![p] = q + 1]
        BY <1>17 DEF WaitScan
      <3>2. UNCHANGED <<pc, parent, state>>
        BY <1>17 DEF WaitScan
      <3>3. ASSUME NEW b \in Slot, parent[b] = p, b < q + 1 PROVE state[b] # "ZOMBIE"
        <4>1. CASE b < i[p]
          BY <1>17, <3>3, <4>1 DEF WaitScan
        <4>2. CASE b >= i[p]
          <5>1. b >= q
            BY <3>1, <3>3, <4>2
          <5>2. b \in Int /\ q \in Int
            OBVIOUS
          <5>3. b = q
            BY <3>3, <5>1, <5>2
          <5> QED
            BY <3>1, <5>3
        <4> QED
          BY <4>1, <4>2
      <3> QED
        BY <3>1, <3>2, <3>3
    <2>7. (\A a, b \in Slot : pc[a] = "sleep" /\ parent[b] = a => state[b] # "ZOMBIE")'
      BY <1>17 DEF WaitScan
    <2>8. (\A a \in Slot : pc[a] = "sleep" => Kids(a) # {})'
      BY <1>17 DEF WaitScan
    <2> QED
      BY <2>1, <2>2, <2>3, <2>4, <2>5, <2>6, <2>7, <2>8 DEF Reasons
  <1>18. ASSUME NEW p \in Slot, WaitCheck(p) PROVE Reasons'
    BY <1>18, SMTT(30) DEF WaitCheck
  <1>19. ASSUME NEW p \in Slot, WaitSleep(p) PROVE Reasons'
    BY <1>19 DEF WaitSleep, Sched
  <1>20. ASSUME NEW p \in Slot, ExitLock(p) PROVE Reasons'
    BY <1>20 DEF ExitLock
  <1>21. ASSUME NEW p \in Slot, Reparent(p) PROVE Reasons'
    BY <1>21 DEF Reparent
  <1>22. ASSUME NEW p \in Slot, Reparented(p) PROVE Reasons'
    BY <1>22 DEF Reparented
  <1>23. ASSUME NEW p \in Slot, ExitWakes(p) PROVE Reasons'
    <2>1. (\A a \in Slot : state[a] = "SLEEPING" => chan[a] \in {a, Lk})'
      BY <1>23 DEF ExitWakes, WakeOne, Again
    <2>2. (\A a \in Slot : Asleep(a, a) => Kids(a) # {})'
      BY <1>23 DEF ExitWakes, WakeOne, Again
    <2>3. (\A a, b \in Slot : Asleep(a, a) /\ parent[b] = a /\ state[b] = "ZOMBIE" => a = initproc /\ \E r \in Slot : pc[r] = "wakeinit" /\ i[r] = 0)'
      BY <1>23 DEF ExitWakes, WakeOne, Again
    <2>4. (\A b \in Slot : pc[b] = "wakeparent" /\ i[b] > parent[b] => ~Asleep(parent[b], parent[b]))'
      <3>1. UNCHANGED <<pc, parent, chan>> /\ i' = [i EXCEPT ![p] = @ + 1]
        BY <1>23 DEF ExitWakes, WakeOne, Again
      <3>2. \A a \in Slot : state'[a] = "SLEEPING" => state[a] = "SLEEPING"
        BY <1>23 DEF ExitWakes, WakeOne, Again
      <3>3. \A b \in Slot : pc[b] = "wakeparent" => parent[b] \in Slot
        OBVIOUS
      <3>4. ASSUME pc[p] = "wakeparent", i[p] = parent[p] PROVE state'[parent[p]] # "SLEEPING" \/ chan[parent[p]] # parent[p]
        <4>1. parent[p] \in Slot /\ parent[p] # p
          BY <3>3, <3>4
        <4>2. state' = [state EXCEPT ![i[p]] = IF i[p] # p /\ @ = "SLEEPING" /\ chan[i[p]] = parent[p] THEN "RUNNABLE" ELSE @]
          BY <1>23, <3>4 DEF ExitWakes, WakeOne
        <4> QED
          BY <3>4, <4>1, <4>2
      <3>6. pc[p] = "wakeparent" /\ i'[p] > parent[p] => i[p] = parent[p] \/ i[p] > parent[p]
        BY <3>1, <3>3, NextRound
      <3>5. ASSUME NEW b \in Slot, pc[b] = "wakeparent", i'[b] > parent[b] PROVE ~(state'[parent[b]] = "SLEEPING" /\ chan[parent[b]] = parent[b])
        <4>1. CASE b = p
          BY <3>2, <3>3, <3>4, <3>5, <3>6, <4>1
        <4>2. CASE b # p
          BY <3>1, <3>2, <3>3, <3>5, <4>2
        <4> QED
          BY <4>1, <4>2
      <3> QED
        BY <3>1, <3>5
    <2>5. (\A a \in Slot : Asleep(a, Lk) => holder # 0 \/ \E r \in Slot : pc[r] = "unlock" /\ i[r] <= a)'
      BY <1>23 DEF ExitWakes, WakeOne, Again
    <2>6. (\A a, b \in Slot : pc[a] = "scan" /\ parent[b] = a /\ b < i[a] => state[b] # "ZOMBIE")'
      BY <1>23 DEF ExitWakes, WakeOne, Again
    <2>7. (\A a, b \in Slot : pc[a] = "sleep" /\ parent[b] = a => state[b] # "ZOMBIE")'
      BY <1>23 DEF ExitWakes, WakeOne, Again
    <2>8. (\A a \in Slot : pc[a] = "sleep" => Kids(a) # {})'
      BY <1>23 DEF ExitWakes, WakeOne, Again
    <2> QED
      BY <2>1, <2>2, <2>3, <2>4, <2>5, <2>6, <2>7, <2>8 DEF Reasons
  <1>24. ASSUME NEW p \in Slot, InitWoken(p) PROVE Reasons'
    <2>1. (\A a \in Slot : state[a] = "SLEEPING" => chan[a] \in {a, Lk})'
      BY <1>24 DEF InitWoken
    <2>2. (\A a \in Slot : Asleep(a, a) => Kids(a) # {})'
      BY <1>24 DEF InitWoken
    <2>3. (\A a, b \in Slot : Asleep(a, a) /\ parent[b] = a /\ state[b] = "ZOMBIE" => a = initproc /\ \E r \in Slot : pc[r] = "wakeinit" /\ i[r] = 0)'
      <3>1. \A r \in Slot : ~(pc[r] = "wakeinit" /\ i[r] = 0)
        BY <1>24 DEF InitWoken, Woken
      <3> QED
        BY <1>24, <3>1 DEF InitWoken
    <2>4. (\A b \in Slot : pc[b] = "wakeparent" /\ i[b] > parent[b] => ~Asleep(parent[b], parent[b]))'
      BY <1>24 DEF InitWoken
    <2>5. (\A a \in Slot : Asleep(a, Lk) => holder # 0 \/ \E r \in Slot : pc[r] = "unlock" /\ i[r] <= a)'
      BY <1>24 DEF InitWoken
    <2>6. (\A a, b \in Slot : pc[a] = "scan" /\ parent[b] = a /\ b < i[a] => state[b] # "ZOMBIE")'
      BY <1>24 DEF InitWoken
    <2>7. (\A a, b \in Slot : pc[a] = "sleep" /\ parent[b] = a => state[b] # "ZOMBIE")'
      BY <1>24 DEF InitWoken
    <2>8. (\A a \in Slot : pc[a] = "sleep" => Kids(a) # {})'
      BY <1>24 DEF InitWoken
    <2> QED
      BY <2>1, <2>2, <2>3, <2>4, <2>5, <2>6, <2>7, <2>8 DEF Reasons
  <1>25. ASSUME NEW p \in Slot, BecomeZombie(p) PROVE Reasons'
    <2>1. (\A a \in Slot : state[a] = "SLEEPING" => chan[a] \in {a, Lk})'
      BY <1>25 DEF BecomeZombie, Sched
    <2>2. (\A a \in Slot : Asleep(a, a) => Kids(a) # {})'
      BY <1>25 DEF BecomeZombie, Sched
    <2>3. (\A a, b \in Slot : Asleep(a, a) /\ parent[b] = a /\ state[b] = "ZOMBIE" => a = initproc /\ \E r \in Slot : pc[r] = "wakeinit" /\ i[r] = 0)'
      <3>1. \A r \in Slot : pc[r] # "wakeinit"
        BY <1>25 DEF BecomeZombie
      <3>2. ~Asleep(parent[p], parent[p])
        BY <1>25 DEF BecomeZombie, Woken
      <3>3. \A a \in Slot : state'[a] = "SLEEPING" => state[a] = "SLEEPING" /\ a # p
        BY <1>25 DEF BecomeZombie, Sched
      <3>4. \A b \in Slot : state'[b] = "ZOMBIE" => b = p \/ state[b] = "ZOMBIE"
        BY <1>25 DEF BecomeZombie, Sched
      <3>5. parent' = parent /\ \A a \in Slot : a # p => chan'[a] = chan[a]
        BY <1>25 DEF BecomeZombie, Sched
      <3> QED
        BY <3>1, <3>2, <3>3, <3>4, <3>5
    <2>4. (\A b \in Slot : pc[b] = "wakeparent" /\ i[b] > parent[b] => ~Asleep(parent[b], parent[b]))'
      BY <1>25 DEF BecomeZombie, Sched
    <2>5. (\A a \in Slot : Asleep(a, Lk) => holder # 0 \/ \E r \in Slot : pc[r] = "unlock" /\ i[r] <= a)'
      BY <1>25 DEF BecomeZombie, Sched
    <2>6. (\A a, b \in Slot : pc[a] = "scan" /\ parent[b] = a /\ b < i[a] => state[b] # "ZOMBIE")'
      BY <1>25 DEF BecomeZombie, Sched
    <2>7. (\A a, b \in Slot : pc[a] = "sleep" /\ parent[b] = a => state[b] # "ZOMBIE")'
      BY <1>25 DEF BecomeZombie, Sched
    <2>8. (\A a \in Slot : pc[a] = "sleep" => Kids(a) # {})'
      BY <1>25 DEF BecomeZombie, Sched
    <2> QED
      BY <2>1, <2>2, <2>3, <2>4, <2>5, <2>6, <2>7, <2>8 DEF Reasons
  <1>26. ASSUME NEW p \in Slot, KillOne(p) PROVE Reasons'
    <2>1. (\A a \in Slot : state[a] = "SLEEPING" => chan[a] \in {a, Lk})'
      BY <1>26 DEF KillOne, Again
    <2>2. (\A a \in Slot : Asleep(a, a) => Kids(a) # {})'
      BY <1>26 DEF KillOne, Again
    <2>3. (\A a, b \in Slot : Asleep(a, a) /\ parent[b] = a /\ state[b] = "ZOMBIE" => a = initproc /\ \E r \in Slot : pc[r] = "wakeinit" /\ i[r] = 0)'
      BY <1>26 DEF KillOne, Again
    <2>4. (\A b \in Slot : pc[b] = "wakeparent" /\ i[b] > parent[b] => ~Asleep(parent[b], parent[b]))'
      BY <1>26 DEF KillOne, Again
    <2>5. (\A a \in Slot : Asleep(a, Lk) => holder # 0 \/ \E r \in Slot : pc[r] = "unlock" /\ i[r] <= a)'
      BY <1>26 DEF KillOne, Again
    <2>6. (\A a, b \in Slot : pc[a] = "scan" /\ parent[b] = a /\ b < i[a] => state[b] # "ZOMBIE")'
      BY <1>26 DEF KillOne, Again
    <2>7. (\A a, b \in Slot : pc[a] = "sleep" /\ parent[b] = a => state[b] # "ZOMBIE")'
      BY <1>26 DEF KillOne, Again
    <2>8. (\A a \in Slot : pc[a] = "sleep" => Kids(a) # {})'
      BY <1>26 DEF KillOne, Again
    <2> QED
      BY <2>1, <2>2, <2>3, <2>4, <2>5, <2>6, <2>7, <2>8 DEF Reasons
  <1>27. ASSUME NEW p \in Slot, KillNobody(p) PROVE Reasons'
    BY <1>27 DEF KillNobody
  <1>28. ASSUME NEW p \in Slot, AcquireSleep(p) PROVE Reasons'
    <2>1. (\A a \in Slot : state[a] = "SLEEPING" => chan[a] \in {a, Lk})'
      BY <1>28 DEF AcquireSleep, Sched
    <2>2. (\A a \in Slot : Asleep(a, a) => Kids(a) # {})'
      BY <1>28 DEF AcquireSleep, Sched
    <2>3. (\A a, b \in Slot : Asleep(a, a) /\ parent[b] = a /\ state[b] = "ZOMBIE" => a = initproc /\ \E r \in Slot : pc[r] = "wakeinit" /\ i[r] = 0)'
      BY <1>28 DEF AcquireSleep, Sched
    <2>4. (\A b \in Slot : pc[b] = "wakeparent" /\ i[b] > parent[b] => ~Asleep(parent[b], parent[b]))'
      BY <1>28 DEF AcquireSleep, Sched
    <2>5. (\A a \in Slot : Asleep(a, Lk) => holder # 0 \/ \E r \in Slot : pc[r] = "unlock" /\ i[r] <= a)'
      BY <1>28 DEF AcquireSleep, Sched
    <2>6. (\A a, b \in Slot : pc[a] = "scan" /\ parent[b] = a /\ b < i[a] => state[b] # "ZOMBIE")'
      BY <1>28 DEF AcquireSleep, Sched
    <2>7. (\A a, b \in Slot : pc[a] = "sleep" /\ parent[b] = a => state[b] # "ZOMBIE")'
      BY <1>28 DEF AcquireSleep, Sched
    <2>8. (\A a \in Slot : pc[a] = "sleep" => Kids(a) # {})'
      BY <1>28 DEF AcquireSleep, Sched
    <2> QED
      BY <2>1, <2>2, <2>3, <2>4, <2>5, <2>6, <2>7, <2>8 DEF Reasons
  <1>29. ASSUME NEW p \in Slot, ReleaseSleep(p) PROVE Reasons'
    BY <1>29 DEF ReleaseSleep
  <1>30. ASSUME NEW p \in Slot, ReleaseWakes(p) PROVE Reasons'
    <2>1. (\A a \in Slot : state[a] = "SLEEPING" => chan[a] \in {a, Lk})'
      BY <1>30 DEF ReleaseWakes, WakeOne, Again
    <2>2. (\A a \in Slot : Asleep(a, a) => Kids(a) # {})'
      BY <1>30 DEF ReleaseWakes, WakeOne, Again
    <2>3. (\A a, b \in Slot : Asleep(a, a) /\ parent[b] = a /\ state[b] = "ZOMBIE" => a = initproc /\ \E r \in Slot : pc[r] = "wakeinit" /\ i[r] = 0)'
      BY <1>30 DEF ReleaseWakes, WakeOne, Again
    <2>4. (\A b \in Slot : pc[b] = "wakeparent" /\ i[b] > parent[b] => ~Asleep(parent[b], parent[b]))'
      BY <1>30 DEF ReleaseWakes, WakeOne, Again
    <2>5. (\A a \in Slot : Asleep(a, Lk) => holder # 0 \/ \E r \in Slot : pc[r] = "unlock" /\ i[r] <= a)'
      <3>1. UNCHANGED <<pc, chan, holder>> /\ i' = [i EXCEPT ![p] = @ + 1] /\ pc[p] = "unlock" /\ state[p] = "RUNNING"
        BY <1>30 DEF ReleaseWakes, WakeOne, Again
      <3>2. state' = [state EXCEPT ![i[p]] = IF i[p] # p /\ @ = "SLEEPING" /\ chan[i[p]] = Lk THEN "RUNNABLE" ELSE @]
        BY <1>30 DEF ReleaseWakes, WakeOne
      <3>3. \A r \in Slot : pc[r] = "unlock" => r = p
        BY <3>1
      <3>4. ASSUME NEW a \in Slot, state'[a] = "SLEEPING", chan[a] = Lk, holder = 0 PROVE i'[p] <= a
        <4>1. state[a] = "SLEEPING" /\ a # i[p]
          BY <3>1, <3>2, <3>4
        <4>2. i[p] <= a
          BY <3>3, <3>4, <4>1
        <4>3. i'[p] = i[p] + 1 /\ i[p] \in Int /\ a \in Int
          BY <3>1
        <4> QED
          BY <4>1, <4>2, <4>3
      <3> QED
        BY <3>1, <3>4
    <2>6. (\A a, b \in Slot : pc[a] = "scan" /\ parent[b] = a /\ b < i[a] => state[b] # "ZOMBIE")'
      BY <1>30 DEF ReleaseWakes, WakeOne, Again
    <2>7. (\A a, b \in Slot : pc[a] = "sleep" /\ parent[b] = a => state[b] # "ZOMBIE")'
      BY <1>30 DEF ReleaseWakes, WakeOne, Again
    <2>8. (\A a \in Slot : pc[a] = "sleep" => Kids(a) # {})'
      BY <1>30 DEF ReleaseWakes, WakeOne, Again
    <2> QED
      BY <2>1, <2>2, <2>3, <2>4, <2>5, <2>6, <2>7, <2>8 DEF Reasons
  <1>31. ASSUME NEW p \in Slot, Released(p) PROVE Reasons'
    <2>1. (\A a \in Slot : state[a] = "SLEEPING" => chan[a] \in {a, Lk})'
      BY <1>31 DEF Released
    <2>2. (\A a \in Slot : Asleep(a, a) => Kids(a) # {})'
      BY <1>31 DEF Released
    <2>3. (\A a, b \in Slot : Asleep(a, a) /\ parent[b] = a /\ state[b] = "ZOMBIE" => a = initproc /\ \E r \in Slot : pc[r] = "wakeinit" /\ i[r] = 0)'
      BY <1>31 DEF Released
    <2>4. (\A b \in Slot : pc[b] = "wakeparent" /\ i[b] > parent[b] => ~Asleep(parent[b], parent[b]))'
      BY <1>31 DEF Released
    <2>5. (\A a \in Slot : Asleep(a, Lk) => holder # 0 \/ \E r \in Slot : pc[r] = "unlock" /\ i[r] <= a)'
      <3>1. \A r \in Slot : pc[r] = "unlock" => i[r] = NPROC
        BY <1>31 DEF Released, Woken
      <3>2. \A a \in Slot : Asleep(a, Lk) => holder # 0
        BY <3>1
      <3> QED
        BY <1>31, <3>2 DEF Released
    <2>6. (\A a, b \in Slot : pc[a] = "scan" /\ parent[b] = a /\ b < i[a] => state[b] # "ZOMBIE")'
      BY <1>31 DEF Released
    <2>7. (\A a, b \in Slot : pc[a] = "sleep" /\ parent[b] = a => state[b] # "ZOMBIE")'
      BY <1>31 DEF Released
    <2>8. (\A a \in Slot : pc[a] = "sleep" => Kids(a) # {})'
      BY <1>31 DEF Released
    <2> QED
      BY <2>1, <2>2, <2>3, <2>4, <2>5, <2>6, <2>7, <2>8 DEF Reasons
  <1> QED
    BY <1>1, <1>2, <1>3, <1>4, <1>5, <1>6, <1>7, <1>8, <1>9, <1>10, <1>11, <1>12, <1>13, <1>14, <1>15, <1>16, <1>17, <1>18, <1>19, <1>20, <1>21, <1>22, <1>23, <1>24, <1>25, <1>26, <1>27, <1>28, <1>29, <1>30, <1>31 DEF Next, KernelStep

-----------------------------------------------------------------------------
(* The invariant and what follows from it.                                  *)

LEMMA InitLife ==
  Init => LifeInv
  <1> SUFFICES ASSUME Init PROVE LifeInv
    OBVIOUS
  <1> USE Indices, NamesAssumption, SizesAssumption DEF Init, initproc
  <1>1. TypeOK
    BY DEF TypeOK, Live
  <1>2. Paths
    BY DEF Paths, Scanning, Ending, OnFile, Live
  <1>3. Stacks
    BY DEF Stacks
  <1>4. Forks
    BY DEF Forks, Forking
  <1>5. Tree
    BY DEF Tree, Occupied, Live
  <1>6. Pids
    BY DEF Pids
  <1>7. Holding
    BY DEF Holding
  <1>8. Reasons
    BY DEF Reasons, Asleep
  <1> QED
    BY <1>1, <1>2, <1>3, <1>4, <1>5, <1>6, <1>7, <1>8 DEF LifeInv

LEMMA NextLife ==
  LifeInv /\ [Next]_vars => LifeInv'
  <1>1. ASSUME LifeInv, Next PROVE LifeInv'
    BY <1>1, TypesStep, PathsStep, StacksStep, ForksStep, TreeStep, PidsStep, HoldingStep, ReasonsStep DEF LifeInv
  <1>2. ASSUME LifeInv, UNCHANGED vars PROVE LifeInv'
    <2> USE <1>2 DEF LifeInv, vars, procVars, lkVars, locals
    <2>1. TypeOK'
      BY DEF TypeOK
    <2>2. Paths'
      BY DEF Paths
    <2>3. Stacks' /\ Forks'
      BY DEF Stacks, Forks
    <2>4. Tree'
      BY DEF Tree, Kids
    <2>5. Pids' /\ Holding'
      BY DEF Pids, Holding
    <2>6. Reasons'
      BY DEF Reasons, Asleep, Kids
    <2> QED
      BY <2>1, <2>2, <2>3, <2>4, <2>5, <2>6
  <1> QED
    BY <1>1, <1>2

\* Every state of the process table is typed, and the parts of the inductive
\* invariant hold in it.
THEOREM LifeInvariant == Spec => []LifeInv
  BY InitLife, NextLife, PTL DEF Spec

\* Every process has a parent that can wait for it, and the sleep lock has one
\* holder (kfork, kwait, kexit, kkill, acquiresleep).
THEOREM TableIsConsistent == Spec => []TableConsistent
  <1>1. LifeInv => NoOrphans
    BY DEF LifeInv, Tree, NoOrphans, Occupied
  <1>2. LifeInv => OneHolder
    BY DEF LifeInv, Holding, OneHolder
  <1>3. LifeInv => TableConsistent
    BY <1>1, <1>2 DEF LifeInv, TableConsistent
  <1> QED
    BY <1>3, LifeInvariant, PTL

\* No kernel stack is in use on two CPUs, and none is freed under one (swtch
\* with p->lock held, scheduler, kwait).
THEOREM StacksAreExclusive == Spec => []StacksExclusive
  <1>1. LifeInv => StacksExclusive
    BY DEF LifeInv, TypeOK, Stacks, StacksExclusive, Occupied, Live
  <1> QED
    BY <1>1, LifeInvariant, PTL

\* No wakeup is lost (sleep, wakeup, kwait, kexit, acquiresleep, releasesleep).
THEOREM NoWakeupIsLost == Spec => []SleepersHaveReason
  <1>1. ASSUME LifeInv, NEW p \in Slot, state[p] = "SLEEPING", chan[p] = p, waitLock = NoProc
        PROVE  Kids(p) # {} /\ \A q \in Kids(p) : state[q] # "ZOMBIE"
    BY <1>1, NamesAssumption DEF LifeInv, Paths, Scanning, Reasons, Asleep, Kids
  <1>2. ASSUME LifeInv, NEW p \in Slot, state[p] = "SLEEPING", chan[p] = Lk, spin = NoProc
        PROVE  holder # 0
    BY <1>2, NamesAssumption DEF LifeInv, Paths, Reasons, Asleep
  <1>3. LifeInv => SleepersHaveReason
    BY <1>1, <1>2 DEF SleepersHaveReason
  <1> QED
    BY <1>3, LifeInvariant, PTL

-----------------------------------------------------------------------------
(* fork, exit and wait implement Family.                                    *)

\* What ProcLife substitutes for live, dead, leaving and parentOf.
Lives     == {pid[q] : q \in {r \in Slot : state[r] \in Live}}
Deads     == {pid[q] : q \in {r \in Slot : state[r] = "ZOMBIE"}}
Leaving   == {pid[q] : q \in exiting}
ParentMap == [n \in {pid[q] : q \in InUse} |->
                IF SlotOf(n) = initproc THEN 1 ELSE pid[parent[SlotOf(n)]]]
Up(q)     == IF q = initproc THEN 1 ELSE pid[parent[q]]

\* A pid stands for one slot, so the map is that of the slots' parents.
Mapped ==
  /\ \A q \in InUse : pid[q] \in Pid
  /\ \A p, q \in InUse : pid[p] = pid[q] => p = q
  /\ \A q \in InUse : ParentMap[pid[q]] = Up(q)
  /\ ParentMap = [n \in {pid[q] : q \in InUse} |-> ParentMap[n]]
  /\ Lives \cup Deads = {pid[q] : q \in InUse}

\* Pids name slots, so CHOOSE in SlotOf has one candidate.
LEMMA Maps ==
  LifeInv => Mapped
  <1> SUFFICES ASSUME LifeInv PROVE Mapped
    OBVIOUS
  <1>1. \A q \in InUse : q \in Slot /\ pid[q] \in Pid
    BY SizesAssumption DEF LifeInv, Pids, TypeOK, InUse, Live, Pid
  <1>2. \A p, q \in InUse : pid[p] = pid[q] => p = q
    BY DEF LifeInv, Pids, InUse, Live
  <1>3. ASSUME NEW q \in InUse PROVE SlotOf(pid[q]) = q
    <2>1. SlotOf(pid[q]) \in InUse /\ pid[SlotOf(pid[q])] = pid[q]
      BY DEF SlotOf
    <2> QED
      BY <1>2, <2>1
  <1>4. ASSUME NEW q \in InUse PROVE ParentMap[pid[q]] = Up(q)
    BY <1>3 DEF ParentMap, Up
  <1>5. ParentMap = [n \in {pid[q] : q \in InUse} |-> ParentMap[n]]
    BY DEF ParentMap
  <1>6. Lives \cup Deads = {pid[q] : q \in InUse}
    BY DEF Lives, Deads, InUse
  <1> QED
    BY <1>1, <1>2, <1>4, <1>5, <1>6 DEF Mapped

\* The processes, their pids and their parents stay.
SameTable ==
  /\ \A q \in Slot : /\ state'[q] \in Live <=> state[q] \in Live
                     /\ state'[q] = "ZOMBIE" <=> state[q] = "ZOMBIE"
  /\ \A q \in InUse : pid'[q] = pid[q]
  /\ \A q \in InUse \ {initproc} : pid'[parent'[q]] = pid[parent[q]]

\* Then Family's variables stay.
LEMMA SameFamily ==
  ASSUME LifeInv, Mapped, Mapped', SameTable
  PROVE  UNCHANGED <<Lives, Deads, ParentMap>> /\ (UNCHANGED exiting => UNCHANGED Leaving)
  <1>1. InUse' = InUse
    BY DEF SameTable, InUse
  <1>2. UNCHANGED <<Lives, Deads>>
    BY DEF SameTable, Lives, Deads, InUse
  <1>3. \A q \in InUse : Up(q)' = Up(q)
    BY DEF SameTable, Up
  <1>4. {pid[q] : q \in InUse}' = {pid[q] : q \in InUse}
    BY <1>1 DEF SameTable
  <1>5. \A n \in {pid[q] : q \in InUse} : ParentMap'[n] = ParentMap[n]
    BY <1>1, <1>3 DEF SameTable, Mapped
  <1>6. ParentMap' = ParentMap
    BY <1>4, <1>5 DEF Mapped
  <1>7. exiting \subseteq InUse
    BY DEF LifeInv, TypeOK, Paths, OnFile, Ending, InUse
  <1>8. UNCHANGED exiting => UNCHANGED Leaving
    BY <1>7 DEF SameTable, Leaving
  <1> QED
    BY <1>2, <1>6, <1>8

\* These steps are none of Family's.
LEMMA Stutters ==
  ASSUME LifeInv, NEW p \in Slot,
         \/ \E c \in Cpu : Switch(c) \/ Dispatch(c, p)
         \/ Preempt(p) \/ Tick(p)
         \/ AllocProc(p) \/ NoSlot(p) \/ ForkFails(p) \/ ForkCopied(p) \/ ForkAdopt(p)
         \/ WaitLock(p) \/ ReapFails(p) \/ WaitScan(p) \/ WaitCheck(p) \/ WaitSleep(p)
         \/ ExitLock(p) \/ Reparented(p) \/ ExitWakes(p) \/ InitWoken(p)
         \/ KillOne(p) \/ KillNobody(p)
         \/ AcquireSleep(p) \/ ReleaseSleep(p) \/ ReleaseWakes(p) \/ Released(p)
  PROVE  SameTable /\ UNCHANGED <<exiting, reaped>>
  <1> USE Indices, NamesAssumption DEF LifeInv, TypeOK, Forks, Tree, SameTable, InUse, initproc, At, Runs, Live, Forking, Occupied, procVars
  <1>1. ASSUME NEW c \in Cpu, Switch(c) PROVE SameTable /\ UNCHANGED <<exiting, reaped>>
    BY <1>1 DEF Switch
  <1>2. ASSUME NEW c \in Cpu, Dispatch(c, p) PROVE SameTable /\ UNCHANGED <<exiting, reaped>>
    BY <1>2 DEF Dispatch
  <1>3. ASSUME Preempt(p) PROVE SameTable /\ UNCHANGED <<exiting, reaped>>
    BY <1>3 DEF Preempt, Sched
  <1>4. ASSUME Tick(p) PROVE SameTable /\ UNCHANGED <<exiting, reaped>>
    BY <1>4 DEF Tick, Sched
  <1>5. ASSUME AllocProc(p) PROVE SameTable /\ UNCHANGED <<exiting, reaped>>
    <2>1. CASE state[i[p]] = "UNUSED" /\ nextpid <= MaxPid
      <3>1. PICK q \in Slot : Claims(p, q)
        BY <1>5, <2>1, ForkClaims
      <3> QED
        BY <3>1 DEF Claims
    <2>2. CASE ~(state[i[p]] = "UNUSED" /\ nextpid <= MaxPid)
      BY <1>5, <2>2 DEF AllocProc
    <2> QED
      BY <2>1, <2>2
  <1>6. ASSUME NoSlot(p) PROVE SameTable /\ UNCHANGED <<exiting, reaped>>
    BY <1>6 DEF NoSlot
  <1>7. ASSUME ForkFails(p) PROVE SameTable /\ UNCHANGED <<exiting, reaped>>
    BY <1>7 DEF ForkFails, FreeProc
  <1>8. ASSUME ForkCopied(p) PROVE SameTable /\ UNCHANGED <<exiting, reaped>>
    BY <1>8 DEF ForkCopied
  <1>9. ASSUME ForkAdopt(p) PROVE SameTable /\ UNCHANGED <<exiting, reaped>>
    BY <1>9 DEF ForkAdopt
  <1>10. ASSUME WaitLock(p) PROVE SameTable /\ UNCHANGED <<exiting, reaped>>
    BY <1>10 DEF WaitLock
  <1>11. ASSUME ReapFails(p) PROVE SameTable /\ UNCHANGED <<exiting, reaped>>
    BY <1>11 DEF ReapFails
  <1>12. ASSUME WaitScan(p) PROVE SameTable /\ UNCHANGED <<exiting, reaped>>
    BY <1>12 DEF WaitScan
  <1>13. ASSUME WaitCheck(p) PROVE SameTable /\ UNCHANGED <<exiting, reaped>>
    BY <1>13 DEF WaitCheck
  <1>14. ASSUME WaitSleep(p) PROVE SameTable /\ UNCHANGED <<exiting, reaped>>
    BY <1>14 DEF WaitSleep, Sched
  <1>15. ASSUME ExitLock(p) PROVE SameTable /\ UNCHANGED <<exiting, reaped>>
    BY <1>15 DEF ExitLock
  <1>16. ASSUME Reparented(p) PROVE SameTable /\ UNCHANGED <<exiting, reaped>>
    BY <1>16 DEF Reparented
  <1>17. ASSUME ExitWakes(p) PROVE SameTable /\ UNCHANGED <<exiting, reaped>>
    BY <1>17 DEF ExitWakes, WakeOne, Again
  <1>18. ASSUME InitWoken(p) PROVE SameTable /\ UNCHANGED <<exiting, reaped>>
    BY <1>18 DEF InitWoken
  <1>19. ASSUME KillOne(p) PROVE SameTable /\ UNCHANGED <<exiting, reaped>>
    BY <1>19 DEF KillOne, Again
  <1>20. ASSUME KillNobody(p) PROVE SameTable /\ UNCHANGED <<exiting, reaped>>
    BY <1>20 DEF KillNobody
  <1>21. ASSUME AcquireSleep(p) PROVE SameTable /\ UNCHANGED <<exiting, reaped>>
    BY <1>21 DEF AcquireSleep, Sched
  <1>22. ASSUME ReleaseSleep(p) PROVE SameTable /\ UNCHANGED <<exiting, reaped>>
    BY <1>22 DEF ReleaseSleep
  <1>23. ASSUME ReleaseWakes(p) PROVE SameTable /\ UNCHANGED <<exiting, reaped>>
    BY <1>23 DEF ReleaseWakes, WakeOne, Again
  <1>24. ASSUME Released(p) PROVE SameTable /\ UNCHANGED <<exiting, reaped>>
    BY <1>24 DEF Released
  <1> QED
    BY <1>1, <1>2, <1>3, <1>4, <1>5, <1>6, <1>7, <1>8, <1>9, <1>10, <1>11, <1>12, <1>13, <1>14, <1>15, <1>16, <1>17, <1>18, <1>19, <1>20, <1>21, <1>22, <1>23, <1>24

\* kexit begins: Leave.
LEMMA BeginLeaves ==
  ASSUME LifeInv, Mapped, Mapped', NEW p \in Slot, p # initproc,
         Runs(p), pc[p] \in {"user", "return"}, exiting' = exiting \cup {p},
         UNCHANGED <<procVars, reaped>>
  PROVE  F!Next
  <1>1. p \in InUse /\ pid[p] \in Pid /\ pid[p] \in Lives
    BY DEF Runs, InUse, Live, Mapped, Lives
  <1>2. pid[p] \notin Leaving
    <2>1. p \notin exiting
      BY DEF LifeInv, Paths, OnFile, Ending
    <2>2. exiting \subseteq InUse
      BY DEF LifeInv, TypeOK, Paths, OnFile, Ending, InUse
    <2> QED
      BY <1>1, <2>1, <2>2 DEF Mapped, Leaving
  <1>3. pid[p] # 1
    <2>1. initproc \in InUse /\ pid[initproc] = 1
      BY Indices DEF LifeInv, Paths, InUse, initproc
    <2> QED
      BY <1>1, <2>1 DEF Mapped
  <1>4. UNCHANGED <<Lives, Deads, ParentMap>>
    <2>1. SameTable
      BY DEF SameTable, procVars
    <2> QED
      BY <2>1, SameFamily
  <1>5. Leaving' = Leaving \cup {pid[p]}
    BY DEF Leaving, procVars
  <1>6. PICK m \in Pid : m = pid[p]
    BY <1>1
  <1>7. F!Leave(m)
    BY <1>1, <1>2, <1>3, <1>4, <1>5, <1>6 DEF F!Leave, F!CanAct, Lives, Deads, Leaving, ParentMap
  <1> QED
    BY <1>7 DEF F!Next

\* kfork makes the child runnable: Fork.
LEMMA StartForks ==
  ASSUME LifeInv, LifeInv', Mapped, Mapped', NEW p \in Slot, ForkStart(p)
  PROVE  F!Next
  <1>1. PICK q \in Slot : q = arg[p] /\ state[q] = "USED" /\ parent[q] = p /\ q # initproc
    BY DEF ForkStart, At, LifeInv, Forks, Forking, Tree, Paths, Live
  <1>2. /\ state' = [state EXCEPT ![q] = "RUNNABLE"]
        /\ UNCHANGED <<parent, pid, exiting, reaped>>
        /\ state[p] = "RUNNING" /\ pc[p] = "start"
    BY <1>1 DEF ForkStart, At, Runs
  <1>3. InUse' = InUse \cup {q} /\ q \notin InUse /\ p \in InUse
    BY <1>1, <1>2 DEF InUse, Live, LifeInv, TypeOK
  <1>4. Lives' = Lives \cup {pid[q]} /\ Deads' = Deads
    BY <1>1, <1>2 DEF Lives, Deads, Live, LifeInv, TypeOK
  <1>5. pid[p] \in Pid /\ pid[q] \in Pid /\ pid[p] \in Lives
    <2>1. q \in InUse'
      BY <1>3
    <2>2. pid'[q] \in Pid
      BY <2>1 DEF Mapped
    <2> QED
      BY <1>2, <1>3, <2>2 DEF Mapped, Lives, Live
  <1>6. pid[p] \notin Leaving
    <2>1. p \notin exiting
      BY <1>2 DEF LifeInv, Paths, OnFile, Ending
    <2>2. exiting \subseteq InUse
      BY DEF LifeInv, TypeOK, Paths, OnFile, Ending, InUse
    <2> QED
      BY <1>3, <2>1, <2>2 DEF Mapped, Leaving
  <1>7. pid[q] \notin Lives \cup Deads \cup reaped
    <2>1. \A r \in InUse : pid[r] # pid[q]
      BY <1>1, <1>3 DEF LifeInv, Pids, InUse, Live
    <2> QED
      BY <1>1, <2>1 DEF LifeInv, Pids, Mapped
  <1>8. ParentMap' = [n \in Lives' \cup Deads' |-> IF n = pid[q] THEN pid[p] ELSE ParentMap[n]]
    <2>1. \A r \in InUse' : r # q => pid[r] # pid[q] /\ ParentMap'[pid[r]] = ParentMap[pid[r]]
      BY <1>2, <1>3, <1>7 DEF Mapped, Up
    <2>2. ParentMap'[pid[q]] = pid[p]
      BY <1>1, <1>2, <1>3 DEF Mapped, Up
    <2>3. ParentMap' = [n \in Lives' \cup Deads' |-> ParentMap'[n]]
      BY DEF Mapped
    <2>4. \A n \in Lives' \cup Deads' : \E r \in InUse' : n = pid[r]
      BY <1>2 DEF Mapped
    <2>5. \A n \in Lives' \cup Deads' : ParentMap'[n] = IF n = pid[q] THEN pid[p] ELSE ParentMap[n]
      BY <2>1, <2>2, <2>4
    <2> QED
      BY <2>3, <2>5
  <1>9. Leaving' = Leaving
    BY <1>2 DEF Leaving
  <1>10. PICK m, n \in Pid : m = pid[p] /\ n = pid[q]
    BY <1>5
  <1>11. ParentMap' = [r \in Lives' \cup Deads |-> IF r = n THEN m ELSE ParentMap[r]]
    BY <1>4, <1>8, <1>10
  <1>12. F!Fork(m, n)
    BY <1>2, <1>4, <1>5, <1>6, <1>7, <1>9, <1>10, <1>11 DEF F!Fork, F!CanAct, Lives, Deads, Leaving, ParentMap
  <1> QED
    BY <1>12 DEF F!Next

\* reparent: HandOver.
LEMMA ReparentHands ==
  ASSUME LifeInv, Mapped, Mapped', NEW p \in Slot, Reparent(p)
  PROVE  F!Next
  <1>1. PICK q \in Slot : parent[q] = p /\ parent' = [parent EXCEPT ![q] = initproc]
    BY DEF Reparent, Kids
  <1>2. /\ UNCHANGED <<state, pid, exiting, reaped>>
        /\ state[p] = "RUNNING" /\ pc[p] = "reparent" /\ p \in exiting
    BY DEF Reparent, At, Runs, LifeInv, Paths, Ending
  <1>3. p \in InUse /\ q \in InUse /\ q # initproc /\ p # initproc
    BY <1>1, <1>2, NamesAssumption DEF LifeInv, Tree, Paths, InUse, Live, Occupied
  <1>4. pid[p] \in Pid /\ pid[q] \in Pid /\ pid[p] \in Leaving /\ pid[q] \in Lives \cup Deads
    BY <1>2, <1>3 DEF Mapped, Leaving
  <1>5. ParentMap[pid[q]] = pid[p]
    BY <1>1, <1>3 DEF Mapped, Up
  <1>6. InUse' = InUse /\ UNCHANGED <<Lives, Deads, Leaving>>
    BY <1>2 DEF InUse, Lives, Deads, Leaving
  <1>7. ParentMap' = [ParentMap EXCEPT ![pid[q]] = 1]
    <2>1. pid[initproc] = 1
      BY DEF LifeInv, Paths
    <2>2. ParentMap'[pid[q]] = 1
      BY <1>1, <1>2, <1>3, <1>6, <2>1, Indices DEF Mapped, Up, LifeInv, TypeOK, initproc
    <2>3. \A r \in InUse : r # q => pid[r] # pid[q] /\ ParentMap'[pid[r]] = ParentMap[pid[r]]
      <3>1. \A r \in InUse : r # q => Up(r)' = Up(r)
        BY <1>1, <1>2 DEF Up, LifeInv, TypeOK, InUse
      <3> QED
        BY <1>2, <1>3, <1>6, <3>1 DEF Mapped
    <2>4. {pid[r] : r \in InUse}' = {pid[r] : r \in InUse}
      BY <1>2, <1>6
    <2>5. \A n \in {pid[r] : r \in InUse} : ParentMap'[n] = IF n = pid[q] THEN 1 ELSE ParentMap[n]
      BY <2>2, <2>3
    <2>6. ParentMap' = [n \in {pid[r] : r \in InUse} |-> ParentMap'[n]]
      BY <2>4 DEF Mapped
    <2>7. ParentMap = [n \in {pid[r] : r \in InUse} |-> ParentMap[n]]
      BY DEF Mapped
    <2> QED
      BY <2>5, <2>6, <2>7
  <1>8. PICK m, n \in Pid : m = pid[p] /\ n = pid[q]
    BY <1>4
  <1>9. F!HandOver(m, n)
    BY <1>2, <1>4, <1>5, <1>6, <1>7, <1>8 DEF F!HandOver, F!Kids, Lives, Deads, Leaving, ParentMap
  <1> QED
    BY <1>9 DEF F!Next

\* kexit ends: Exit.
LEMMA ZombieExits ==
  ASSUME LifeInv, Mapped, Mapped', NEW p \in Slot, BecomeZombie(p)
  PROVE  F!Next
  <1>1. /\ state' = [state EXCEPT ![p] = "ZOMBIE"] /\ exiting' = exiting \ {p}
        /\ UNCHANGED <<parent, pid, reaped>>
        /\ state[p] = "RUNNING" /\ pc[p] = "wakeparent" /\ p \in exiting /\ Kids(p) = {}
    BY DEF BecomeZombie, Sched, At, Runs, LifeInv, Paths, Ending, Tree
  <1>2. InUse' = InUse /\ p \in InUse /\ pid[p] \in Pid
    BY <1>1 DEF InUse, Live, LifeInv, TypeOK, Mapped
  <1>3. pid[p] \in Leaving
    BY <1>1 DEF Leaving
  <1>4. exiting \subseteq InUse
    BY DEF LifeInv, TypeOK, Paths, OnFile, Ending, InUse
  <1>5. \A r \in InUse : r # p => pid[r] # pid[p]
    BY <1>2 DEF Mapped
  <1>6. Leaving' = Leaving \ {pid[p]}
    BY <1>1, <1>4, <1>5 DEF Leaving
  <1>7. Lives' = Lives \ {pid[p]} /\ Deads' = Deads \cup {pid[p]}
    <2>1. \A r \in Slot : (state'[r] \in Live <=> state[r] \in Live /\ r # p)
                          /\ (state'[r] = "ZOMBIE" <=> state[r] = "ZOMBIE" \/ r = p)
      BY <1>1 DEF Live, LifeInv, TypeOK
    <2>2. \A r \in Slot : state[r] \in Live /\ r # p => pid[r] # pid[p]
      BY <1>5 DEF InUse
    <2>3. Lives' = Lives \ {pid[p]}
      BY <1>1, <2>1, <2>2 DEF Lives
    <2>4. Deads' = Deads \cup {pid[p]}
      BY <1>1, <2>1 DEF Deads
    <2> QED
      BY <2>3, <2>4
  <1>8. ParentMap' = ParentMap
    <2>1. \A r \in InUse : ParentMap'[pid[r]] = ParentMap[pid[r]]
      BY <1>1, <1>2 DEF Mapped, Up
    <2>2. ParentMap' = [n \in {pid[r] : r \in InUse} |-> ParentMap'[n]]
      BY <1>1, <1>2 DEF Mapped
    <2> QED
      BY <2>1, <2>2 DEF Mapped
  <1>9. \A n \in Lives \cup Deads : ParentMap[n] # pid[p]
    <2>1. ASSUME NEW r \in InUse PROVE Up(r) # pid[p]
      <3>1. CASE r = initproc
        <4>1. initproc \in InUse /\ pid[initproc] = 1 /\ p # initproc
          BY <1>1, Indices DEF LifeInv, Paths, InUse, initproc
        <4> QED
          BY <3>1, <4>1, <1>5 DEF Up
      <3>2. CASE r # initproc
        <4>1. parent[r] \in Slot /\ parent[r] # p
          BY <1>1, <3>2 DEF LifeInv, Tree, InUse, Occupied, Kids
        <4>2. parent[r] \in InUse
          BY <4>1 DEF LifeInv, Tree, InUse
        <4> QED
          BY <1>5, <3>2, <4>1, <4>2 DEF Up
      <3> QED
        BY <3>1, <3>2
    <2> QED
      BY <2>1 DEF Mapped
  <1>10. PICK m \in Pid : m = pid[p]
    BY <1>2
  <1>11. F!Exit(m)
    BY <1>1, <1>3, <1>6, <1>7, <1>8, <1>9, <1>10 DEF F!Exit, F!Kids, Lives, Deads, Leaving, ParentMap
  <1> QED
    BY <1>11 DEF F!Next

\* kwait frees a zombie: Wait.
LEMMA ReapWaits ==
  ASSUME LifeInv, Mapped, Mapped', NEW p \in Slot, Reap(p)
  PROVE  F!Next
  <1>1. PICK q \in Slot : /\ NextKid(p, q) /\ state[q] = "ZOMBIE"
                          /\ reaped' = reaped \cup {pid[q]} /\ FreeProc(q)
    BY DEF Reap
  <1>2. /\ state' = [state EXCEPT ![q] = "UNUSED"] /\ parent' = [parent EXCEPT ![q] = NoProc]
        /\ pid' = [pid EXCEPT ![q] = 0]
        /\ exiting' = exiting /\ state[p] = "RUNNING" /\ pc[p] = "scan" /\ parent[q] = p
    BY <1>1 DEF Reap, At, Runs, FreeProc, NextKid, Unscanned, Kids
  <1>3. InUse' = InUse \ {q} /\ p \in InUse /\ q \in InUse /\ p # q
    BY <1>1, <1>2 DEF InUse, Live, LifeInv, TypeOK
  <1>4. pid[p] \in Pid /\ pid[q] \in Pid
    BY <1>3 DEF Mapped
  <1>5. pid[p] \in Lives /\ pid[q] \in Deads
    BY <1>1, <1>2 DEF Lives, Deads, Live
  <1>6. exiting \subseteq InUse /\ p \notin exiting /\ q \notin exiting
    BY <1>1, <1>2 DEF LifeInv, TypeOK, Paths, OnFile, Ending, InUse, Live
  <1>7. \A r \in InUse : r # q => pid[r] # pid[q] /\ pid'[r] = pid[r]
    BY <1>2, <1>3 DEF Mapped, LifeInv, TypeOK, InUse
  <1>8. pid[p] \notin Leaving /\ Leaving' = Leaving
    BY <1>2, <1>3, <1>6, <1>7 DEF Mapped, Leaving
  <1>9. ParentMap[pid[q]] = pid[p]
    <2>1. q # initproc
      BY <1>1 DEF LifeInv, Paths, Live
    <2> QED
      BY <1>2, <1>3, <2>1 DEF Mapped, Up
  <1>10. Lives' = Lives /\ Deads' = Deads \ {pid[q]}
    <2>1. \A r \in Slot : (state'[r] \in Live <=> state[r] \in Live)
                          /\ (state'[r] = "ZOMBIE" <=> state[r] = "ZOMBIE" /\ r # q)
      BY <1>1, <1>2 DEF Live, LifeInv, TypeOK
    <2>2. \A r \in Slot : state[r] \in Live => r # q /\ pid'[r] = pid[r]
      BY <1>1, <1>7 DEF Live, InUse
    <2>3. \A r \in Slot : state[r] = "ZOMBIE" /\ r # q => pid'[r] = pid[r] /\ pid[r] # pid[q]
      BY <1>7 DEF InUse
    <2>4. Lives' = Lives
      BY <2>1, <2>2 DEF Lives
    <2>5. Deads' = Deads \ {pid[q]}
      BY <1>1, <2>1, <2>3 DEF Deads
    <2> QED
      BY <2>4, <2>5
  <1>11. ParentMap' = [n \in Lives \cup Deads' |-> ParentMap[n]]
    <2>1. ASSUME NEW r \in InUse' PROVE Up(r)' = Up(r) /\ r \in InUse /\ pid'[r] = pid[r]
      <3>1. r \in InUse /\ r # q /\ parent'[r] = parent[r]
        BY <1>2, <1>3, <2>1 DEF LifeInv, TypeOK, InUse
      <3>2. r # initproc => parent[r] \in InUse /\ parent[r] # q
        BY <1>1, <3>1 DEF LifeInv, Tree, InUse, Occupied, Live
      <3> QED
        BY <1>7, <3>1, <3>2 DEF Up
    <2>2. \A r \in InUse' : ParentMap'[pid'[r]] = ParentMap[pid'[r]]
      BY <2>1 DEF Mapped
    <2>3. ParentMap' = [n \in Lives' \cup Deads' |-> ParentMap'[n]]
      BY DEF Mapped
    <2>4. \A n \in Lives' \cup Deads' : \E r \in InUse' : n = pid'[r]
      BY DEF Mapped
    <2>5. \A n \in Lives' \cup Deads' : ParentMap'[n] = ParentMap[n]
      BY <2>2, <2>4
    <2> QED
      BY <1>10, <2>3, <2>5
  <1>12. PICK m, n \in Pid : m = pid[p] /\ n = pid[q]
    BY <1>4
  <1>13. F!Wait(m, n)
    BY <1>1, <1>5, <1>8, <1>9, <1>10, <1>11, <1>12 DEF F!Wait, F!CanAct, F!Kids, Lives, Deads, Leaving, ParentMap
  <1> QED
    BY <1>13 DEF F!Next

\* A step of the table is a step of Family or none.
LEMMA FamilyStep ==
  ASSUME LifeInv, LifeInv', Mapped, Mapped', [Next]_vars
  PROVE  [F!Next]_(F!vars)
  <1>1. ASSUME SameTable, UNCHANGED <<exiting, reaped>> PROVE UNCHANGED F!vars
    BY <1>1, SameFamily DEF F!vars, Lives, Deads, Leaving, ParentMap
  <1>2. CASE UNCHANGED vars
    <2>1. SameTable
      BY <1>2 DEF SameTable, vars, procVars
    <2> QED
      BY <1>1, <1>2, <2>1 DEF vars
  <1>3. ASSUME NEW c \in Cpu, Switch(c) PROVE [F!Next]_(F!vars)
    <2>1. \E p \in Slot : TRUE
      BY Indices
    <2> QED
      BY <1>1, <1>3, <2>1, Stutters
  <1>4. ASSUME NEW c \in Cpu, NEW p \in Slot, Dispatch(c, p) PROVE [F!Next]_(F!vars)
    BY <1>1, <1>4, Stutters
  <1>5. ASSUME NEW p \in Slot, Preempt(p) \/ Tick(p) PROVE [F!Next]_(F!vars)
    BY <1>1, <1>5, Stutters
  <1>6. ASSUME NEW p \in Slot, Enter(p) \/ EnterKilled(p) \/ Return(p) PROVE [F!Next]_(F!vars)
    <2>1. /\ UNCHANGED <<procVars, reaped>> /\ Runs(p) /\ pc[p] \in {"user", "return"}
          /\ exiting' = exiting \/ (p # initproc /\ exiting' = exiting \cup {p})
      BY <1>6 DEF Enter, EnterKilled, Return, BeginExit, At, LifeInv, Paths
    <2>2. CASE exiting' = exiting
      <3>1. SameTable
        BY <2>1 DEF SameTable, procVars
      <3> QED
        BY <1>1, <2>1, <2>2, <3>1
    <2>3. CASE p # initproc /\ exiting' = exiting \cup {p}
      BY <2>1, <2>3, BeginLeaves
    <2> QED
      BY <2>1, <2>2, <2>3
  <1>7. ASSUME NEW p \in Slot, KernelStep(p) PROVE [F!Next]_(F!vars)
    <2>1. CASE Return(p)
      BY <1>6, <2>1
    <2>2. CASE ForkStart(p)
      BY <2>2, StartForks
    <2>3. CASE Reap(p)
      BY <2>3, ReapWaits
    <2>4. CASE Reparent(p)
      BY <2>4, ReparentHands
    <2>5. CASE BecomeZombie(p)
      BY <2>5, ZombieExits
    <2>6. CASE \/ AllocProc(p) \/ NoSlot(p) \/ ForkFails(p) \/ ForkCopied(p) \/ ForkAdopt(p)
               \/ WaitLock(p) \/ ReapFails(p) \/ WaitScan(p) \/ WaitCheck(p) \/ WaitSleep(p)
               \/ ExitLock(p) \/ Reparented(p) \/ ExitWakes(p) \/ InitWoken(p)
               \/ KillOne(p) \/ KillNobody(p)
               \/ AcquireSleep(p) \/ ReleaseSleep(p) \/ ReleaseWakes(p) \/ Released(p)
      BY <1>1, <2>6, Stutters
    <2> QED
      BY <1>7, <2>1, <2>2, <2>3, <2>4, <2>5, <2>6 DEF KernelStep
  <1> QED
    BY <1>2, <1>3, <1>4, <1>5, <1>6, <1>7 DEF Next

\* fork, exit and wait keep the promise of Family: every process that ends is
\* waited for once, by its parent or by init (kfork, kexit, reparent, kwait).
THEOREM LifeIsFamily == Spec => ImplementsFamily
  <1>1. Init => F!Init
    <2> SUFFICES ASSUME Init PROVE F!Init
      OBVIOUS
    <2>1. LifeInv
      BY InitLife
    <2>2. Mapped
      BY <2>1, Maps
    <2>3. InUse = {initproc} /\ pid[initproc] = 1
      BY Indices DEF Init, InUse, Live, initproc
    <2>4. Lives = {1} /\ Deads = {} /\ Leaving = {} /\ reaped = {}
      BY Indices DEF Init, Lives, Deads, Leaving, Live, initproc
    <2>5. ParentMap = [p \in {1} |-> 1]
      <3>1. ParentMap[1] = 1
        BY <2>2, <2>3 DEF Mapped, Up
      <3>2. ParentMap = [n \in {1} |-> ParentMap[n]]
        BY <2>2, <2>3 DEF Mapped
      <3> QED
        BY <3>1, <3>2
    <2> QED
      BY <2>4, <2>5 DEF F!Init, Lives, Deads, Leaving, ParentMap
  <1>2. LifeInv /\ LifeInv' /\ Mapped /\ Mapped' /\ [Next]_vars => [F!Next]_(F!vars)
    BY FamilyStep
  <1> QED
    BY <1>1, <1>2, Maps, LifeInvariant, PTL DEF Spec, ImplementsFamily, F!Spec
=============================================================================
