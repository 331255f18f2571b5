----------------------------- MODULE MCMsgQueue -----------------------------
(* Instances of MsgQueue for TLC. *)
EXTENDS MsgQueue, TLC

CONSTANTS g1, g2, g3

Receivers == {g1, g2, g3}
Symmetry == Permutations(Receivers)
=============================================================================
