----------------------------- MODULE ByteStream -----------------------------
(***************************************************************************)
(* What two programs and a pipe between them are for: what the first one   *)
(* has read comes out of the second one, in order, once, nothing else.     *)
(***************************************************************************)
EXTENDS Sequences, SequencesExt

VARIABLES sent, got
streamVars == <<sent, got>>

Init == sent = <<>> /\ got = <<>>
Send == IsPrefix(sent, sent') /\ UNCHANGED got
Deliver == IsPrefix(got, got') /\ IsPrefix(got', sent) /\ UNCHANGED sent
Spec == Init /\ [][Send \/ Deliver]_streamVars
=============================================================================
