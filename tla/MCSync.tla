------------------------------- MODULE MCSync -------------------------------
(* Instances of Sync for TLC. *)
EXTENDS Sync, TLC

CONSTANTS t1, t2, t3

Threads == {t1, t2, t3}
Symmetry == Permutations(Threads)
=============================================================================
