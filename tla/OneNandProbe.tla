---------------------------- MODULE OneNandProbe ----------------------------
(***************************************************************************)
(* Finding a OneNAND chip (onenand_scan in onenandcore.cpp): comparing the *)
(* ids, the features of its density and process, the sizes, the layout of  *)
(* the spare data, and unlocking its blocks.  The chip size is in MiB.     *)
(***************************************************************************)
EXTENDS Integers, Sequences, FiniteSets, SequencesExt, TLC, OneNandOob

CONSTANT Chips   \* density, ddp, flex, mlc, process, buffer (bytes of a data RAM),
                 \* known (its maker), same (both ids)

VARIABLES oneId, probePhase, oneChip, locked
probeVars == <<oneId, probePhase, oneChip, locked>>

-----------------------------------------------------------------------------
\* A chip of 2 Gb has the features of one of 1 Gb and more, one of 4 Gb those of 2 Gb.
onenand_check_features(c) ==
  LET o == (IF c.density = 5 THEN (IF c.ddp THEN {"2PLANE"} ELSE {"4KB"}) ELSE {})
           \cup (IF c.density \in {4, 5} THEN {"UNLOCK_ALL"} \cup (IF c.ddp THEN {} ELSE {"2PLANE"}) ELSE {})
           \cup (IF c.density \in {3, 4, 5} /\ c.process THEN {"UNLOCK_ALL"} ELSE {})
           \cup (IF c.density \notin {3, 4, 5} /\ ~c.process THEN {"CONT_LOCK"} ELSE {})
           \cup (IF c.mlc THEN {"4KB"} ELSE {})
      p == IF "4KB" \in o THEN o \ {"2PLANE"} ELSE o
  IN  IF c.flex THEN (p \ {"CONT_LOCK"}) \cup {"UNLOCK_ALL"} ELSE p

onenand_chip_probe(c) == c.known /\ c.same

DensityMask(c, block) == IF c.ddp THEN ((16 * 2 ^ c.density) * 1024) \div (2 * block) ELSE 0

\* block is in KiB
onenand_probe(c) ==
  LET o == onenand_check_features(c)
      page == IF "4KB" \in o THEN 2 * c.buffer ELSE c.buffer
      block == ((page * 64) \div 1024) * (IF c.flex THEN 2 ELSE 1)
  IN  [options |-> o, size |-> 16 * 2 ^ c.density, page |-> page, oob |-> page \div 32, block |-> block,
       page_mask |-> (block * 1024) \div page - 1, density_mask |-> DensityMask(c, block)]

\* eccpos and oobfree
Pieces(starts, len) == UNION {{s + k : k \in 0 .. len - 1} : s \in starts}
onenand_oob_32 == [pos |-> Pieces({8, 24}, 5), free |-> <<<<2, 3>>, <<14, 2>>, <<18, 3>>, <<30, 2>>>>]
onenand_oob_64 ==
  [pos |-> Pieces({8, 24, 40, 56}, 5),
   free |-> <<<<2, 3>>, <<14, 2>>, <<18, 3>>, <<30, 2>>, <<34, 3>>, <<46, 2>>, <<50, 3>>, <<62, 2>>>>]
onenand_oob_128 ==
  [pos |-> Pieces({6, 22, 38, 54, 70, 86}, 10) \cup 102 .. 105,
   free |-> <<<<2, 4>>, <<18, 4>>, <<34, 4>>, <<50, 4>>, <<66, 4>>, <<82, 4>>, <<98, 4>>, <<114, 4>>>>]

Layout(oob) ==
  CASE oob = 128 -> [layout |-> onenand_oob_128, sft |-> 0]
    [] oob = 64 -> [layout |-> onenand_oob_64, sft |-> 2]
    [] oob = 32 -> [layout |-> onenand_oob_32, sft |-> 1]
    [] OTHER -> [layout |-> onenand_oob_32, sft |-> 0]

-----------------------------------------------------------------------------
(* Unlocking                                                               *)

NBlocks(p) == (p.size * 1024) \div p.block
HalfOf(p) == NBlocks(p) \div 2

\* One command for the range, or one for each block
do_lock_cmd(start, end) == start .. end - 1

\* The command for all blocks always reaches the first die.
onenand_unlock_all(c, p, lk, both) ==
  LET first == IF both \/ ~c.ddp THEN {} ELSE {b \in lk : b >= HalfOf(p)}
  IN  IF "UNLOCK_ALL" \notin p.options THEN lk \ do_lock_cmd(0, NBlocks(p))
      ELSE IF first = {} THEN {}
      ELSE first \ (IF c.ddp /\ ~c.flex THEN do_lock_cmd(HalfOf(p), NBlocks(p)) ELSE do_lock_cmd(0, NBlocks(p)))

-----------------------------------------------------------------------------
ProbeStart == probePhase = "start" /\ oneChip = [size |-> 0] /\ locked = {}
ProbeInit == oneId \in Chips /\ ProbeStart

\* All blocks are locked after power-up.
Probe ==
  /\ probePhase = "start"
  /\ IF onenand_chip_probe(oneId)
     THEN probePhase' = "probed" /\ oneChip' = onenand_probe(oneId) /\ locked' = 0 .. NBlocks(onenand_probe(oneId)) - 1
     ELSE probePhase' = "ENXIO" /\ UNCHANGED <<oneChip, locked>>
  /\ UNCHANGED oneId

Scan == \E both \in BOOLEAN :
  /\ probePhase = "probed" /\ probePhase' = "ready"
  /\ oneChip' = oneChip @@ Layout(oneChip.oob) @@ [oobavail |-> OobAvail(Layout(oneChip.oob).layout.free),
                                         subpage |-> oneChip.page \div 2 ^ Layout(oneChip.oob).sft]
  /\ locked' = onenand_unlock_all(oneId, oneChip, locked, both)
  /\ UNCHANGED oneId

ProbeNext == Probe \/ Scan
ProbeSpec == ProbeInit /\ [][ProbeNext]_probeVars

-----------------------------------------------------------------------------
(* Properties                                                              *)

\* onenand_unlock_all: no block is left locked, whatever the command for all blocks
\* did to the second die.
AllUnlocked == probePhase = "ready" => locked = {}

\* density_mask is the bit of a block number that selects the die, on every chip of two.
DieBit ==
  probePhase \in {"probed", "ready"} /\ oneId.ddp =>
    \A b \in 0 .. NBlocks(oneChip) - 1 :
      ((b \div oneChip.density_mask) % 2 = 1) = (b >= HalfOf(oneChip))

\* The free spare data, the codes and the marker of bad blocks do not overlap, and lie
\* within the spare data of the page.
FreeBytes(l) == FoldLeft(LAMBDA s, f : s \o [k \in 1 .. f[2] |-> f[1] + k - 1], <<>>, l.free)
SpareApart ==
  probePhase = "ready" =>
    LET l == oneChip.layout
        room == Range(FreeBytes(l))
    IN  /\ room \cap l.pos = {} /\ {0, 1} \cap (room \cup l.pos) = {}
        /\ room \cup l.pos \subseteq 0 .. oneChip.oob - 1
        /\ Cardinality(l.pos) * 512 >= 5 * oneChip.page

\* onenand_transfer_auto_oob, onenand_fill_auto_oob: any part of the free spare data is
\* found where counting through the free bytes finds it.
AutoOobRight ==
  probePhase = "ready" =>
    \A c \in 0 .. oneChip.oobavail - 1 : \A len \in 1 .. oneChip.oobavail - c :
      AutoPos(oneChip.layout.free, c, len) = SubSeq(FreeBytes(oneChip.layout), c + 1, c + len)

\* All of them: what onenand_scan leaves fits the chip, and nothing is locked.
ProbedRight == AllUnlocked /\ DieBit /\ SpareApart /\ AutoOobRight
==============================================================================
