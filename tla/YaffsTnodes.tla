---------------------------- MODULE YaffsTnodes ----------------------------
(***************************************************************************)
(* The tree of tnodes of a yaffs file (yaffs_guts.c): the nodes of level 0 *)
(* hold the numbers of chunks as bit fields of tnode_width bits, which may *)
(* lie across two words; inner nodes hold pointers.  The tree grows at the *)
(* top, is pruned after a truncation and rebuilt from a checkpoint.        *)
(*                                                                         *)
(* The node of level l with index i covers the chunks whose number without *)
(* its low Shift(l) bits is i.  A pointer of an inner node is the presence *)
(* of the node it points to.  Words and numbers are sets of bits.          *)
(***************************************************************************)
EXTENDS Integers, Sequences, FiniteSets, SequencesExt, FiniteSetsExt

CONSTANT Trees  \* the geometries that are looked at: records with the fields below

\* 1 << n
Pow2[n \in Nat] == IF n = 0 THEN 1 ELSE 2 * Pow2[n - 1]

INT_MAX == Pow2[30] + (Pow2[30] - 1)

calc_shifts_ceiling(x) == CHOOSE n \in 0 .. 31 : Pow2[n] >= x /\ (n = 0 \/ Pow2[n - 1] < x)

\* yaffs_guts_initialise: bits of a chunk number, bits of a field, chunks of a group
BitsOf(g) ==
  LET bits == calc_shifts_ceiling(g.cpb * (g.endBlock + 1))
  IN  IF g.wideDisabled THEN bits ELSE bits + (bits % 2)
WidthOf(g) == IF g.wideDisabled \/ BitsOf(g) < g.minWidth THEN g.minWidth ELSE BitsOf(g)
GrpBitsOf(g) == IF BitsOf(g) <= WidthOf(g) THEN 0 ELSE BitsOf(g) - WidthOf(g)
Initialised ==
  {[g |-> g, width |-> WidthOf(g), grpSize |-> Pow2[GrpBitsOf(g)],
    nWords |-> (WidthOf(g) * Pow2[g.l0Bits]) \div g.wordBits] : g \in Trees}

AllIds == UNION {g.ids : g \in Trees}
AllNand == UNION {g.nand : g \in Trees}

VARIABLE geo      \* the geometry at hand, one of Initialised; it never changes

WordBits == geo.g.wordBits    \* 32
L0Bits == geo.g.l0Bits        \* YAFFS_TNODES_LEVEL0_BITS
L1Bits == geo.g.l1Bits        \* YAFFS_TNODES_INTERNAL_BITS
MaxLevel == geo.g.maxLevel    \* YAFFS_TNODES_MAX_LEVEL
Ids == geo.g.ids              \* numbers of chunks of the file that are used
Nand == geo.g.nand            \* numbers of chunks of the device that are used
MaxNoMem == geo.g.maxNoMem    \* bound on the writes that fail
Width == geo.width            \* tnode_width
GrpSize == geo.grpSize        \* chunk_grp_size

ASSUME TnodeAssumption ==
  \A x \in Initialised :
    LET g == x.g
    IN  /\ {g.wordBits, g.l0Bits, g.l1Bits, g.maxLevel, g.minWidth, g.cpb, g.endBlock} \subseteq Nat \ {0}
        /\ g.wideDisabled \in BOOLEAN /\ g.maxNoMem \in Nat
        /\ g.maxLevel <= 31 /\ g.cpb * (g.endBlock + 1) <= INT_MAX   \* chunk numbers are an int
        /\ x.width <= g.wordBits /\ (x.width * Pow2[g.l0Bits]) % g.wordBits = 0
        /\ x.grpSize <= g.cpb
        /\ g.ids \subseteq 0 .. Pow2[g.l0Bits + g.l1Bits * g.maxLevel]
        /\ g.nand \subseteq g.cpb .. g.cpb * (g.endBlock + 1) - 1

VARIABLES
  top,      \* top_level
  words,    \* the nodes of level 0 that exist: index -> words
  inner,    \* the inner nodes that exist: <<level, index>>
  count,    \* n_tnodes
  owner,    \* of a chunk of the device: the file chunk of its tags, or
            \* Nobody when its bit is not set, or Stranger
  noMem,
  table     \* what yaffs_find_chunk_in_file answers for every number (history variable)

treeVars == <<geo, top, words, inner, count, owner, noMem, table>>

Nobody == -1
Stranger == -2

-----------------------------------------------------------------------------
(* Bit fields                                                              *)

Word == 0 .. WordBits - 1
NWords == geo.nWords
Empty == [w \in 0 .. NWords - 1 |-> {}]
ToBits(n) == {b \in 0 .. Width - 1 : (n \div Pow2[b]) % 2 = 1}
FromBits(bs) ==
  LET low[n \in 0 .. Width] == IF n = 0 THEN 0 ELSE low[n - 1] + (IF n - 1 \in bs THEN Pow2[n - 1] ELSE 0)
  IN  low[Width]
Shl(bs, k) == {b + k : b \in bs} \cap Word
Shr(bs, k) == {b - k : b \in {x \in bs : x >= k}}
tnode_mask == 0 .. Width - 1

Pos(id) == id % Pow2[L0Bits]
WordOf(id) == (Pos(id) * Width) \div WordBits
BitOf(id) == (Pos(id) * Width) % WordBits

Crosses(id) == Width > WordBits - BitOf(id)

load_tnode_0(tn, id, val) ==
  LET v == ToBits(val \div GrpSize)
      w == WordOf(id)
      lo == Shl(tnode_mask, BitOf(id))
      k == WordBits - BitOf(id)
      hi == Shr(tnode_mask, k)
      one == [tn EXCEPT ![w] = (@ \ lo) \cup (lo \cap Shl(v, BitOf(id)))]
  IN  IF Crosses(id) THEN [one EXCEPT ![w + 1] = (@ \ hi) \cup (hi \cap Shr(v, k))] ELSE one

get_group_base(tn, id) ==
  LET lo == Shr(tn[WordOf(id)], BitOf(id))
      hi == IF Crosses(id) THEN Shl(tn[WordOf(id) + 1], WordBits - BitOf(id)) ELSE {}
  IN  FromBits((lo \cup hi) \cap tnode_mask) * GrpSize

-----------------------------------------------------------------------------
(* The tree                                                                *)

Index(id, l) == id \div Pow2[L0Bits + l * L1Bits]

\* The node of level l above the node i of level 0
Above(i, l) == i \div Pow2[l * L1Bits]

required_depth(id) == CHOOSE l \in 0 .. 31 : Index(id, l) = 0 /\ (l = 0 \/ Index(id, l - 1) # 0)

TooLarge(id) == id >= Pow2[L0Bits + L1Bits * MaxLevel]

\* The node the pointers lead to from a node of level l, only that part of the
\* number looked at which is below the top of the tree
Under(id, l, t) == Index(id, l) % Pow2[L1Bits * (t - l)]
Exists(ws, ins, l, i) == IF l = 0 THEN i \in DOMAIN ws ELSE <<l, i>> \in ins

\* yaffs_find_tnode_0: the index of the node of level 0, -1 for none
find_tnode_0(t, ws, ins, id) ==
  IF \/ TooLarge(id) \/ required_depth(id) > t
     \/ \E l \in 0 .. t : ~Exists(ws, ins, l, Under(id, l, t))
    THEN -1
    ELSE Under(id, 0, t)

TagsMatch(c, id) == owner[c] = id

find_chunk_in_group(base, id) ==
  LET found == {c \in base .. base + GrpSize - 1 :
                  (IF c \in Nand THEN owner[c] ELSE Nobody) # Nobody /\ (GrpSize = 1 \/ TagsMatch(c, id))}
  IN  IF base = 0 \/ found = {} THEN -1 ELSE Min(found)

find_chunk_in_file(id) ==
  LET i == find_tnode_0(top, words, inner, id)
  IN  IF i < 0 THEN -1 ELSE find_chunk_in_group(get_group_base(words[i], id), id)

AddWords(ws, new) ==
  [i \in DOMAIN ws \cup {n[2] : n \in {x \in new : x[1] = 0}} |-> IF i \in DOMAIN ws THEN ws[i] ELSE Empty]

\* yaffs_add_find_tnode_0: a new top for every level up to t, with the old one as
\* its first child, and the nodes on the way to id, down to level m
Depth(id) == IF required_depth(id) > top THEN required_depth(id) ELSE top
Tops(t) == {<<l, 0>> : l \in top + 1 .. t}
Way(id, t, m) == {<<l, Index(id, l)>> : l \in m .. t - 1}
Grown(id, t, m) ==
  LET new == {x \in Tops(t) \cup Way(id, t, m) : ~Exists(words, inner, x[1], x[2])}
  IN  [top |-> t, words |-> AddWords(words, new), inner |-> inner \cup {x \in new : x[1] > 0},
       count |-> count + Cardinality(new)]
SetTree(x) == top' = x.top /\ words' = x.words /\ inner' = x.inner /\ count' = x.count

TreeInit ==
  /\ geo \in Initialised
  /\ top = 0 /\ words = [i \in {0} |-> Empty] /\ inner = {} /\ count = 1
  /\ owner = [c \in Nand |-> Nobody] /\ noMem = 0
  /\ table = [id \in AllIds |-> -1]

\* yaffs_chunk_del
Deleted(chunks) == [c \in Nand |-> IF c \in chunks THEN Nobody ELSE owner[c]]

\* yaffs_wr_data_obj: a place for the chunk, the chunk itself, the old one deleted
WriteChunk(id, c) ==
  /\ owner[c] = Nobody /\ ~TooLarge(id)
  /\ LET x == Grown(id, Depth(id), 0)
     IN  SetTree([x EXCEPT !.words[Index(id, 0)] = load_tnode_0(@, id, c)])
  /\ owner' = [Deleted({find_chunk_in_file(id)}) EXCEPT ![c] = id]
  /\ UNCHANGED <<geo, noMem>>

\* There is no memory for a new top, or for a node of the way: those before it stay.
\* Or the place is there and no chunk is free: the place stays, empty.
WriteFails(id) ==
  /\ noMem < MaxNoMem /\ noMem' = noMem + 1
  /\ ~TooLarge(id)
  /\ \/ \E t \in top .. Depth(id) - 1 : SetTree(Grown(id, t, t))
     \/ \E m \in 1 .. Depth(id) :
          ~Exists(words, inner, m - 1, Index(id, m - 1)) /\ SetTree(Grown(id, Depth(id), m))
     \/ SetTree(Grown(id, Depth(id), 0))
  /\ UNCHANGED <<geo, owner>>

\* A chunk of another file, next to the ones of this file
Other(c) ==
  /\ owner[c] < 0
  /\ owner' = [owner EXCEPT ![c] = IF @ = Nobody THEN Stranger ELSE Nobody]
  /\ UNCHANGED <<geo, top, words, inner, count, noMem>>

\* Mutant: only the first word of a node is looked at.
HasData_First(tn) == tn[0] # {}

HasData(tn) == tn # Empty

First(i) == i = 0

\* yaffs_prune_worker: nodes without data go, but for the first of each level
Pruned(ws) ==
  LET keep == {i \in DOMAIN ws : First(i) \/ HasData(ws[i])}
      over(l) == {Above(i, l) : i \in keep}
  IN  [words |-> [i \in keep |-> ws[i]], inner |-> {x \in inner : First(x[2]) \/ x[2] \in over(x[1])}]

\* yaffs_prune_tree: then the levels above the last one with more than a first child
prune_tree(ws) ==
  LET p == IF top < 1 THEN [words |-> ws, inner |-> inner] ELSE Pruned(ws)
      more(l) == IF l = 1 THEN \E i \in DOMAIN p.words : i \in 1 .. Pow2[L1Bits] - 1
                 ELSE \E x \in p.inner : x[1] = l - 1 /\ x[2] \in 1 .. Pow2[L1Bits] - 1
      newTop == IF top = 0 THEN 0 ELSE Max({0} \cup {l \in 1 .. top : more(l)})
      ins == {x \in p.inner : x[1] <= newTop}
  IN  [top |-> newTop, words |-> p.words, inner |-> ins,
       count |-> count - (Cardinality(DOMAIN words) - Cardinality(DOMAIN p.words))
                       - (Cardinality(inner) - Cardinality(ins))]

\* Mutant: the entry of a chunk that is deleted stays.
find_del_file_chunk_Keep(ws, id) == ws

find_del_file_chunk(ws, id) ==
  LET i == find_tnode_0(top, ws, inner, id)
  IN  IF find_chunk_in_file(id) = -1 THEN ws ELSE [ws EXCEPT ![i] = load_tnode_0(@, id, 0)]

\* yaffs_prune_chunks: one entry after the other; k of them
Emptied(ids) ==
  LET ws[k \in 0 .. Len(ids)] == IF k = 0 THEN words ELSE find_del_file_chunk(ws[k - 1], ids[k])
  IN  ws

\* With yaffs_prune_tree: the chunks from n on are cut off.
CutFrom(n) ==
  /\ LET cut == {id \in Ids : id >= n}
     IN  /\ SetTree(prune_tree(Emptied(SetToSeq(cut))[Cardinality(cut)]))
         /\ owner' = Deleted({find_chunk_in_file(id) : id \in cut})
  /\ UNCHANGED <<geo, noMem>>

\* The tree is written to a checkpoint, node of level 0 by node, and rebuilt by
\* yaffs2_rd_checkpt_tnodes in a file that has one empty node.
Reload ==
  LET last == Max(DOMAIN words)
      depth == required_depth(last * Pow2[L0Bits])
  IN  /\ top' = depth
      /\ inner' = {<<l, Above(i, l)>> : l \in 1 .. depth, i \in DOMAIN words}
      /\ count' = Cardinality(DOMAIN words) + Cardinality(inner')
      /\ UNCHANGED <<geo, words, owner, noMem>>

TreeStep ==
  \/ \E id \in Ids, c \in Nand : WriteChunk(id, c)
  \/ \E id \in Ids : WriteFails(id) \/ CutFrom(id)
  \/ \E c \in Nand : Other(c)
  \/ Reload

TreeNext == TreeStep /\ table' = [id \in AllIds |-> find_chunk_in_file(id)']

TreeSpec == TreeInit /\ [][TreeNext]_treeVars

-----------------------------------------------------------------------------
(* Properties                                                              *)

\* The tree implements the table: every chunk is found where it was put, and nowhere
\* else (yaffs_find_chunk_in_file), through growth, pruning, a rebuild and failed
\* allocations.
Map == INSTANCE YaffsChunkMap WITH Ids <- AllIds, Nand <- AllNand, map <- table
ImplementsMap == Map!Spec

\* Every node can be reached from the top and n_tnodes counts them, and a chunk in
\* use that carries the tags of the file is the one the tree leads to, in spite of
\* growth that failed halfway, pruning and the rebuild from a checkpoint.
TreeSound ==
  /\ count = Cardinality(DOMAIN words) + Cardinality(inner)
  /\ Exists(words, inner, top, 0)
  /\ \A i \in DOMAIN words, l \in 1 .. top : <<l, Above(i, l)>> \in inner
  /\ \A x \in inner : x[1] <= top /\ (x[1] = top => x[2] = 0)
                      /\ (x[1] < top => <<x[1] + 1, Above(x[2], 1)>> \in inner)
  /\ \A c \in Nand : owner[c] >= 0 => find_chunk_in_file(owner[c]) = c
=============================================================================
