----------------------------- MODULE BlockStore -----------------------------
(***************************************************************************)
(* What the buffer cache and the disk driver promise together: a block has *)
(* one value, one process at a time has it locked, and only that process   *)
(* changes it.  Nothing here knows of buffers, descriptors or the device.  *)
(***************************************************************************)
CONSTANTS Proc, Block, Content, Blank, Nobody

VARIABLES val, holder
storeVars == <<val, holder>>

Init == val = [b \in Block |-> Blank] /\ holder = [b \in Block |-> Nobody]

Acquire(p, b) ==
  /\ holder[b] = Nobody
  /\ holder' = [holder EXCEPT ![b] = p]
  /\ UNCHANGED val

Change(p, b) ==
  /\ holder[b] = p
  /\ \E c \in Content : val' = [val EXCEPT ![b] = c]
  /\ UNCHANGED holder

Release(p, b) ==
  /\ holder[b] = p
  /\ holder' = [holder EXCEPT ![b] = Nobody]
  /\ UNCHANGED val

Next == \E p \in Proc, b \in Block : Acquire(p, b) \/ Change(p, b) \/ Release(p, b)

Spec == Init /\ [][Next]_storeVars
=============================================================================
