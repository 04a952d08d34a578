---------------------------- MODULE PagingMemory ----------------------------
(***************************************************************************)
(* Paging as an implementation of Memory.  The bytes a process sees at a   *)
(* page are those of the mapped frame, else those of its swap slot, else   *)
(* what the fault handler would load.                                      *)
(***************************************************************************)
EXTENDS Paging

\* Zero stands for no program where a program is expected.
ASSUME ContentAssumption == Zero \notin Image

Reload(p, v) == IF LoadedFromExec(img[p], v) THEN ExecContent(p, v) ELSE Zero

Visible(p, v) ==
  CASE state[p] # "RUNNABLE" \/ ~Valid(p, v)  -> Zero
    [] OTHER ->
       IF Mapped(p, v) THEN mem[frame[p][v]]
       ELSE IF info[p][v].state = "SWAPPED" THEN swap[p][info[p][v].slot]
       ELSE Reload(p, v)

VisibleProgram(p) == IF state[p] = "RUNNABLE" THEN img[p] ELSE Zero

VisibleMode(p) ==
  CASE op[p].pc = "user" -> "user"
    [] op[p].pc = "copyout" -> "copy"
    [] op[p].pc = "fork" -> "fork"
    [] op[p].pc \in {"execguard", "execstack"} -> "exec"
    [] OTHER -> "paging"

M == INSTANCE Memory WITH
       Page       <- VPage,
       FileBacked <- LoadedFromExec,
       ReadOnly   <- InText,
       bytes      <- [p \in Proc |-> [v \in VPage |-> Visible(p, v)]],
       program    <- [p \in Proc |-> VisibleProgram(p)],
       mode       <- [p \in Proc |-> VisibleMode(p)]

\* Paging is invisible: every process sees the memory of Memory.tla.
ImplementsMemory == M!MemorySpec

\* Whatever is evicted, swapped, forked or reloaded, a page shows its owner's
\* last write or its initial bytes, never a stale, foreign or junk page.
ImplementsLossyMemory == M!LossySpec
=============================================================================
