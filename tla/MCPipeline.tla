----------------------------- MODULE MCPipeline -----------------------------
(***************************************************************************)
(* What the user types: short texts around a full buffer, an erased        *)
(* character, an erased line and an end of file after some letters.        *)
(***************************************************************************)
EXTENDS Pipeline

MCScripts == { <<"a", "b", "NL">>,
               <<"a", "ERASE", "b", "EOF">>,
               <<"a", "KILLLINE">> }
=============================================================================
