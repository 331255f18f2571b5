----------------------------- MODULE MCOneNand -----------------------------
(* Chips and calls for the run of OneNand *)
EXTENDS OneNand

Layout == <<<<2, 1>>, <<6, 1>>>>

\* Two dies of one block of two pages: within a page, across pages, across the dies,
\* beyond the end
TwoDies ==
  [flex |-> FALSE, ddp |-> TRUE, wide |-> FALSE, blocks |-> 1, pages |-> 2, sub |-> 2,
   reads |-> {<<1, 2>>, <<2, 6>>, <<6, 4>>}, writes |-> {<<2, 4>>, <<5, 1>>}, erases |-> {<<0, 2>>, <<0, 4>>},
   bad |-> {{}, {1}}, boundaries |-> {0}, values |-> {1, 2},
   erased |-> 0, faults |-> 1, fateAt |-> 3, flips |-> 0, ops |-> 3]

\* Blocks of four (small) or eight pages of one subpage
FlexChip ==
  [flex |-> TRUE, ddp |-> FALSE, wide |-> TRUE, blocks |-> 2, pages |-> 4, sub |-> 1,
   reads |-> {<<3, 1>>, <<3, 2>>, <<4, 1>>}, writes |-> {<<3, 2>>, <<4, 1>>}, erases |-> {<<4, 8>>, <<0, 12>>},
   bad |-> {{}, {1}}, boundaries |-> {0, 1}, values |-> {1},
   erased |-> 1, faults |-> 0, fateAt |-> 9, flips |-> 1, ops |-> 3]

MCChips ==
  {TwoDies, FlexChip,
   \* across the dies, if the boundary of the first is 0
   [FlexChip EXCEPT !.ddp = TRUE, !.reads = {<<11, 2>>}, !.writes = {<<11, 2>>}, !.bad = {{}},
                    !.faults = 1, !.flips = 0, !.ops = 3]}
=============================================================================
