---------------------------- MODULE MCBufferCache ----------------------------
(***************************************************************************)
(* Workloads for BufferCache.                                              *)
(***************************************************************************)
EXTENDS BufferCache

CONSTANTS p1, p2, p3, n1, n2, n3, n4, n5

Plan(a, b, c) == [p \in Proc |-> CASE p = p1 -> a [] p = p2 -> b [] p = p3 -> c]

\* Five blocks for four buffers while the log pins one and later installs it;
\* everybody wants the same block; and the log pins two while three more blocks
\* are wanted at once, which is one buffer too few.
MCPlans ==
  { Plan(<< <<"log", n1>>, <<"read", n4>> >>, << <<"read", n2>>, <<"read", n5>> >>,
         << <<"read", n3>>, <<"write", n1>> >>),
    Plan(<< <<"log", n1>>, <<"write", n1>> >>, << <<"read", n1>> >>, << <<"write", n1>> >>),
    Plan(<< <<"log", n1>>, <<"log", n2>>, <<"read", n5>> >>, << <<"read", n3>> >>,
         << <<"read", n4>> >>) }
=============================================================================
