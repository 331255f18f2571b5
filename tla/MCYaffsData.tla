---------------------------- MODULE MCYaffsData ----------------------------
(* The devices and the trees of the run of YaffsCache and YaffsTnodes.  The *)
(* two share no variable: a behaviour works on one of them.                 *)
EXTENDS YaffsCache, YaffsTnodes

\* A cache of two slots for a file of three chunks
TwoSlots ==
  [files |-> {"f"}, nCaches |-> 2, chunk |-> 1, maxSize |-> 3, total |-> 5, reserve |-> 2, threshold |-> 1,
   bypass |-> FALSE, useLimit |-> 1, maxOps |-> 3]
MCDevices ==
  {TwoSlots,
   \* a device that is full after a few chunks, aligned writes go past the cache
   [TwoSlots EXCEPT !.nCaches = 1, !.chunk = 2, !.maxSize = 4, !.total = 3, !.reserve = 1, !.bypass = TRUE,
                    !.useLimit = 2],
   \* two files share a slot, holes are filled while their chunks evict each other
   [TwoSlots EXCEPT !.files = {"f", "g"}, !.nCaches = 1, !.chunk = 2, !.reserve = 1, !.threshold = 2, !.maxOps = 2],
   \* without a cache, as the glue of this system configures yaffs; truncations into
   \* holes can take the last chunk
   [TwoSlots EXCEPT !.nCaches = 0, !.chunk = 2, !.maxSize = 5, !.total = 2, !.reserve = 0, !.useLimit = 2]}

\* Fields that lie across two words
SmallTree ==
  [wordBits |-> 8, l0Bits |-> 2, l1Bits |-> 1, maxLevel |-> 2, minWidth |-> 2, wideDisabled |-> FALSE,
   cpb |-> 8, endBlock |-> 6, ids |-> {1, 2, 5, 11, 15}, nand |-> {9, 38, 55}, maxNoMem |-> 1]
MCTrees ==
  {SmallTree,
   \* fields too narrow for a chunk number: an entry names a group of chunks
   [SmallTree EXCEPT !.minWidth = 4, !.wideDisabled = TRUE, !.ids = {1, 2, 5, 15}, !.nand = {8, 10, 11, 38}],
   \* the widths and the levels of the code, up to the largest number of a chunk
   [SmallTree EXCEPT !.wordBits = 32, !.l0Bits = 4, !.l1Bits = 3, !.maxLevel = 8, !.minWidth = 16, !.cpb = 64,
                     !.endBlock = 4090, !.ids = {1, 14, 15, 129, 268435455}, !.nand = {64, 131073, 261823},
                     !.maxNoMem = 0]}

VARIABLE side   \* which of the two a behaviour works on

MCInit ==
  /\ Init /\ TreeInit
  /\ \/ side = "bytes" /\ geo = (CHOOSE x \in Initialised : TRUE)
     \/ side = "tree" /\ device = (CHOOSE x \in Devices : TRUE)
MCNext ==
  \/ side = "bytes" /\ Next /\ UNCHANGED <<side, treeVars>>
  \/ side = "tree" /\ TreeNext /\ UNCHANGED <<side, vars>>
MCSpec == MCInit /\ [][MCNext]_<<side, vars, treeVars>>
============================================================================
