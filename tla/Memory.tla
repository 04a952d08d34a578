------------------------------- MODULE Memory -------------------------------
(***************************************************************************)
(* What an address space promises, without frames, swap or faults: a page  *)
(* holds its initial bytes until its owner writes to it, fork copies it,   *)
(* exec replaces it, and no process touches another one's pages.           *)
(***************************************************************************)
EXTENDS Naturals

CONSTANTS Proc, InitProc, Page, Image, InitImage, Value, Zero,
          FileBacked(_, _),  \* page v of image i is loaded from the executable
          ReadOnly(_, _)     \* page v of image i is text

VARIABLES bytes,    \* bytes[p][v]: what p reads at page v
          program,  \* program[p]: the image p runs, or Zero when p runs none
          mode      \* mode[p]: running user code, or what the kernel does for p

memoryVars == <<bytes, program, mode>>

Mode == {"user", "paging", "copy", "fork", "exec"}

Fresh(i) == [v \in Page |-> IF FileBacked(i, v) THEN i ELSE Zero]
Nothing  == [v \in Page |-> Zero]

MemoryInit ==
  /\ program = [p \in Proc |-> IF p = InitProc THEN InitImage ELSE Zero]
  /\ bytes = [p \in Proc |-> IF p = InitProc THEN Fresh(InitImage) ELSE Nothing]
  /\ mode = [p \in Proc |-> "user"]

Runs(p) == program[p] # Zero

\* User code, or a copyout on its behalf, writes to a page.
Write(p, v, x) ==
  /\ Runs(p) /\ mode[p] \in {"user", "copy"} /\ ~ReadOnly(program[p], v)
  /\ bytes' = [bytes EXCEPT ![p][v] = x]
  /\ mode' = [mode EXCEPT ![p] = "user"]
  /\ UNCHANGED program

\* Entering and leaving the kernel, and paging, leave the memory alone.
Switch(p, m) ==
  /\ mode' = [mode EXCEPT ![p] = m]
  /\ UNCHANGED <<bytes, program>>

Starts(p, c) ==
  /\ Runs(p) /\ ~Runs(c) /\ mode[p] = "fork"
  /\ program' = [program EXCEPT ![c] = program[p]]
  /\ mode' = [mode EXCEPT ![p] = "user"]

Clone(p, c) == Starts(p, c) /\ bytes' = [bytes EXCEPT ![c] = bytes[p]]

Replace(p, i) ==
  /\ Runs(p) /\ mode[p] = "exec"
  /\ program' = [program EXCEPT ![p] = i]
  /\ bytes' = [bytes EXCEPT ![p] = Fresh(i)]
  /\ mode' = [mode EXCEPT ![p] = "user"]

Vanish(p) ==
  /\ program' = [program EXCEPT ![p] = Zero]
  /\ bytes' = [bytes EXCEPT ![p] = Nothing]
  /\ UNCHANGED mode

MemoryNext ==
  \E p \in Proc :
    \/ \E v \in Page, x \in Value : Write(p, v, x)
    \/ \E m \in Mode : Switch(p, m)
    \/ \E c \in Proc : Clone(p, c)
    \/ \E i \in Image : Replace(p, i)
    \/ Vanish(p)

MemorySpec == MemoryInit /\ [][MemoryNext]_memoryVars

-----------------------------------------------------------------------------
(* The weaker promise of a memory that may lose writes: while the kernel    *)
(* pages for p, or forks it, a page can fall back to the bytes it would     *)
(* have been loaded with.  It never shows the bytes of another page, of     *)
(* another process or of another time.                                      *)

Lose(p, v) ==
  /\ Runs(p) /\ mode[p] = "paging"
  /\ bytes' = [bytes EXCEPT ![p][v] = Fresh(program[p])[v]]
  /\ \E m \in {"paging", "copy", "user"} : mode' = [mode EXCEPT ![p] = m]
  /\ UNCHANGED program

LossyClone(p, c) ==
  /\ Starts(p, c)
  /\ \A q \in Proc \ {c} : bytes'[q] = bytes[q]
  /\ \A v \in Page : bytes'[c][v] \in {bytes[p][v], Fresh(program[p])[v]}

LossyNext ==
  \/ MemoryNext
  \/ \E p \in Proc, v \in Page : Lose(p, v)
  \/ \E p, c \in Proc : LossyClone(p, c)

LossySpec == MemoryInit /\ [][LossyNext]_memoryVars
=============================================================================
