----------------------------- MODULE AtomicDisk -----------------------------
(***************************************************************************)
(* What log.c promises to file system calls: the disk moves from one state *)
(* between calls to another, all at once, and a crash at any moment goes   *)
(* back to the last one.                                                   *)
(***************************************************************************)
CONSTANTS Proc, Block, Content

VARIABLES durable,  \* what a crash leaves of each block
          current,  \* what the running calls read
          active    \* processes in a file system call

diskVars == <<durable, current, active>>

DiskInit == durable \in [Block -> Content] /\ current = durable /\ active = {}

Enter(p) == p \notin active /\ active' = active \cup {p} /\ UNCHANGED <<durable, current>>
Leave(p) == p \in active /\ active' = active \ {p} /\ UNCHANGED <<durable, current>>

Modify(p, b, x) ==
  /\ p \in active
  /\ current' = [current EXCEPT ![b] = x]
  /\ UNCHANGED <<durable, active>>

\* Never a part of a call: no call is running.
Settle == active = {} /\ durable' = current /\ UNCHANGED <<current, active>>

Lose == active' = {} /\ current' = durable /\ UNCHANGED durable

DiskNext ==
  \/ \E p \in Proc : Enter(p) \/ Leave(p) \/ \E b \in Block, x \in Content : Modify(p, b, x)
  \/ Settle
  \/ Lose

DiskSpec == DiskInit /\ [][DiskNext]_diskVars
=============================================================================
