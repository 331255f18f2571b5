--------------------------- MODULE YaffsChunkMap ---------------------------
(***************************************************************************)
(* What the tree of a yaffs file promises: a table from the chunks of the  *)
(* file to chunks of the device, in which a chunk is replaced by a new one *)
(* and the end is cut off.                                                 *)
(***************************************************************************)
EXTENDS Integers

CONSTANTS
  Ids,     \* the numbers of the file's chunks
  Nand     \* the numbers of the device's chunks

NoChunk == -1

VARIABLE map

Init == map = [i \in Ids |-> NoChunk]

\* The new chunk is nobody else's.
Replace(i, c) ==
  /\ \A j \in Ids : map[j] # c
  /\ map' = [map EXCEPT ![i] = c]

Cut(n) == map' = [i \in Ids |-> IF i >= n THEN NoChunk ELSE map[i]]

Next ==
  \/ \E i \in Ids, c \in Nand : Replace(i, c)
  \/ \E n \in Ids : Cut(n)

Spec == Init /\ [][Next]_map
=============================================================================
