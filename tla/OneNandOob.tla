----------------------------- MODULE OneNandOob -----------------------------
(***************************************************************************)
(* Where the free spare data of a OneNAND page is: the loops over oobfree  *)
(* of onenand_transfer_auto_oob and onenand_fill_auto_oob.  free is a      *)
(* sequence of <<offset, length>>.                                         *)
(***************************************************************************)
EXTENDS Integers, Sequences, SequencesExt

GapAt(f) == f[1] + f[2]

\* Where the units column .. column + len - 1 of the free spare data are
Shifted(free, c) ==
  LET Step(a, f) == [c |-> IF a.c >= a.gap THEN a.c + f[1] - a.gap ELSE a.c, gap |-> GapAt(f)]
  IN  FoldLeft(Step, [c |-> c, gap |-> 0], free).c
AutoPos(free, column, len) ==
  LET col == Shifted(free, column)
      end == Shifted(free, column + len)
      Part(s, f) == s \o [k \in 1 .. f[2] |-> f[1] + k - 1]
  IN  SelectSeq(FoldLeft(Part, <<>>, free), LAMBDA p : p >= col /\ p < end)
OobAvail(free) == FoldLeft(LAMBDA a, f : a + f[2], 0, free)
==============================================================================
