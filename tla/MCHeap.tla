------------------------------- MODULE MCHeap -------------------------------
(* Instances of the heap for TLC. *)
EXTENDS Heap

\* Two blocks, as Powerpc::init adds them around the hash table.
TwoBlocks == <<<<64, 200>>, <<264, 420>>>>
OneBlock == <<<<64, 272>>>>

\* Callers of the plain allocate, who may free twice; callers who ask for the
\* alignment the code uses for stacks and message pools as well.
Plain == [blocks |-> TwoBlocks, ctlSize |-> 30, sizes |-> {3, 40},
          alignments |-> {}, doubleFree |-> TRUE]
Aligned == [blocks |-> OneBlock, ctlSize |-> 34, sizes |-> {3, 36},
            alignments |-> {8}, doubleFree |-> FALSE]
MCSetups == {Plain, Aligned}

\* An alignment larger than a small free segment.
Overaligned == [blocks |-> TwoBlocks, ctlSize |-> 30, sizes |-> {4, 36},
                alignments |-> {32}, doubleFree |-> FALSE]
OveralignedSetups == {Overaligned}
=============================================================================
