---------------------------- MODULE PagingClaims ----------------------------
(***************************************************************************)
(* What the repository's comments and tests say of demand paging, stated   *)
(* over Paging.  A run refutes it: the code does something else.           *)
(* README.md tells what and why.                                           *)
(***************************************************************************)
EXTENDS PagingMemory

\* forkpagetest.c:73, "Parent data still valid": heap pages, whose first write
\* does fault, keep what was written to them.  A swapped-in page is clean
\* again and has no slot, so the next eviction drops it.
InHeap(p, v) == v >= StackTop(img[p])
HeapMemory == INSTANCE Memory WITH
       Page       <- VPage,
       FileBacked <- LoadedFromExec,
       ReadOnly   <- InText,
       bytes      <- [p \in Proc |-> [v \in VPage |->
                        IF InHeap(p, v) THEN Visible(p, v)
                        ELSE IF state[p] = "RUNNABLE" /\ LoadedFromExec(img[p], v)
                             THEN img[p] ELSE Zero]],
       program    <- [p \in Proc |-> VisibleProgram(p)],
       mode       <- [p \in Proc |-> VisibleMode(p)]
HeapKeepsData == HeapMemory!MemorySpec
=============================================================================
