------------------------------ MODULE Binding ------------------------------
(* The functions of the drivers and of yaffs2 change the memory one step   *)
(* after the other.  With(e, LAMBDA x : f) is f where x stands for e: it   *)
(* names the memory after a step.  Loop(op, base, s) is the memory after a *)
(* loop with the body op over the elements of s, which begins with base.   *)
EXTENDS Naturals, Sequences

With(e, F(_)) == F(e)

Loop(op(_, _), base, s) ==
  LET after[k \in 0 .. Len(s)] == IF k = 0 THEN base ELSE op(after[k - 1], s[k])
  IN  after[Len(s)]
=============================================================================
