------------------------------ MODULE MCPaging ------------------------------
(* Paging on small instances: one page of text, and one of data.            *)
EXTENDS PagingClaims

CONSTANTS p1, p2, p3, sh, cat

NoText == [i \in Image |-> 0]
OnePageData == [i \in Image |-> 1]

FrameSymmetry == Permutations(Frame)
=============================================================================
