------------------------------- MODULE Family -------------------------------
(***************************************************************************)
(* What fork, exit and wait promise to user programs: a tree of processes, *)
(* in which every process that ends is waited for once, by its parent or,  *)
(* when the parent has ended first, by the first process.                  *)
(***************************************************************************)
CONSTANTS Pid, First

VARIABLES
  live, dead,   \* running processes, and those that ended and were not waited for
  reaped,       \* pids a wait has returned
  leaving,      \* live processes that are ending
  parentOf

vars == <<live, dead, reaped, leaving, parentOf>>
Kids(p) == {q \in live \cup dead : parentOf[q] = p}

Init ==
  /\ live = {First} /\ dead = {} /\ reaped = {} /\ leaving = {}
  /\ parentOf = [p \in {First} |-> First]

\* A process ends only once, and does nothing else any more.
CanAct(p) == p \in live \ leaving

Fork(p, n) ==
  /\ CanAct(p) /\ n \notin live \cup dead \cup reaped
  /\ live' = live \cup {n}
  /\ parentOf' = [q \in live' \cup dead |-> IF q = n THEN p ELSE parentOf[q]]
  /\ UNCHANGED <<dead, reaped, leaving>>

Leave(p) ==
  /\ CanAct(p) /\ p # First
  /\ leaving' = leaving \cup {p}
  /\ UNCHANGED <<live, dead, reaped, parentOf>>

\* A process that is leaving hands its children over, one by one.
HandOver(p, q) ==
  /\ p \in leaving /\ q \in Kids(p)
  /\ parentOf' = [parentOf EXCEPT ![q] = First]
  /\ UNCHANGED <<live, dead, reaped, leaving>>

Exit(p) ==
  /\ p \in leaving /\ Kids(p) = {}
  /\ live' = live \ {p} /\ leaving' = leaving \ {p}
  /\ dead' = dead \cup {p}
  /\ UNCHANGED <<reaped, parentOf>>

Wait(p, q) ==
  /\ CanAct(p) /\ q \in Kids(p) \cap dead
  /\ dead' = dead \ {q} /\ reaped' = reaped \cup {q}
  /\ parentOf' = [r \in live \cup dead' |-> parentOf[r]]
  /\ UNCHANGED <<live, leaving>>

Next ==
  \E p \in Pid : \/ Leave(p) \/ Exit(p)
                 \/ \E q \in Pid : Fork(p, q) \/ HandOver(p, q) \/ Wait(p, q)

Spec == Init /\ [][Next]_vars
=============================================================================
