------------------------------ MODULE NandIdent ------------------------------
(***************************************************************************)
(* Finding out what NAND chip is there (fs/mtd/nand/nandcore.cpp):         *)
(* nand_scan_ident reads the id of the first chip and decodes it into the  *)
(* geometry, counts the chips that answer with the same id, and            *)
(* nand_scan_tail chooses the ECC functions and the layout of the          *)
(* out-of-band data.  Sizes are in bytes, but the chip size in MiB and the *)
(* block size in KiB.                                                      *)
(***************************************************************************)
EXTENDS Integers, Sequences, FiniteSets, FiniteSetsExt, TLC

CONSTANTS
  Ids,      \* the ids of 8 bytes a chip may answer with
  Onfi,     \* the parameter pages a chip may have: valid (the number of the first good copy, 3 for none),
            \* version bits, page, oob, pages per block, block count in MiB of the chip, wide
  Boards    \* what the board driver sets: wide, maxchips, mode, size (of an ECC step, 0 if not set)

Samsung == 236
Hynix == 173
Toshiba == 152
Amd == 1
Macronix == 194
Micron == 44

\* One of each kind of nand_flash_ids: the sizes are known, or (page = 0) in the id.
nand_flash_ids ==
  << [id |-> 51, page |-> 512, chip |-> 16, block |-> 16, wide |-> FALSE],
     [id |-> 67, page |-> 512, chip |-> 16, block |-> 16, wide |-> TRUE],
     [id |-> 117, page |-> 512, chip |-> 32, block |-> 16, wide |-> FALSE],
     [id |-> 220, page |-> 0, chip |-> 512, block |-> 0, wide |-> FALSE],
     [id |-> 188, page |-> 0, chip |-> 512, block |-> 0, wide |-> TRUE],
     [id |-> 1, page |-> 2048, chip |-> 128, block |-> 16, wide |-> FALSE] >>

VARIABLES nandId, param, others, board, identPhase, nandChip
identVars == <<nandId, param, others, board, identPhase, nandChip>>

NoChip == [page |-> 0]

-----------------------------------------------------------------------------
(* Decoding the id                                                         *)

nand_id_has_period(x, period) == \A i \in 0 .. period - 1, j \in 0 .. 7 : (j > i /\ (j - i) % period = 0) => x[i] = x[j]

\* An id is read on and on: its length is its period, or what is before the zeros.
nand_id_len(x) ==
  LET periods == {p \in 1 .. 7 : nand_id_has_period(x, p)}
      nonzero == {i \in 0 .. 7 : x[i] # 0}
  IN  IF nonzero = {} THEN 0 ELSE IF periods # {} THEN Min(periods) ELSE Max(nonzero) + 1

MultiLevel(x) == (x[2] \div 4) % 4 # 0
BitsFrom(e, from, count) == (e \div 2 ^ from) % 2 ^ count

Spare(e) == 8 * 2 ^ BitsFrom(e, 2, 1)

\* The fourth byte, in the three ways it is used
nand_decode_ext_id(x) ==
  LET e == x[3]
      big == nand_id_len(x) = 6 /\ MultiLevel(x)
      code == 4 * BitsFrom(e, 6, 1) + BitsFrom(e, 2, 2) \* of the oob
      size == 4 * BitsFrom(e, 7, 1) + BitsFrom(e, 4, 2) \* of the block
      page == 1024 * 2 ^ BitsFrom(e, 0, 2)
  IN  IF big /\ x[0] = Samsung /\ x[5] # 0
      THEN [page |-> 2 * page, block |-> 128 * 2 ^ size, wide |-> FALSE,
            oob |-> IF code \in 1 .. 5 THEN <<128, 218, 400, 436, 512>>[code] ELSE 640]
      ELSE IF big /\ x[0] = Hynix
      THEN [page |-> 2 * page, wide |-> FALSE,
            block |-> IF size < 3 THEN 128 * 2 ^ size ELSE IF size = 3 THEN 768 ELSE 64 * 2 ^ size,
            oob |-> IF code \in 0 .. 5 THEN <<128, 224, 448, 64, 32, 16>>[code + 1] ELSE 640]
      ELSE [page |-> page, oob |-> Spare(e) * (page \div 512), block |-> 64 * 2 ^ BitsFrom(e, 4, 2),
            wide |-> BitsFrom(e, 6, 1) = 1]

\* The sizes of the table; Spansion puts a larger block into the id.
nand_decode_id(t, x) ==
  [page |-> t.page, oob |-> t.page \div 32, wide |-> t.wide,
   block |-> IF x[0] = Amd /\ x[4] # 0 /\ x[5] = 0 /\ x[6] = 0 /\ x[7] = 0 /\ t.page = 512
             THEN 128 * 2 ^ (2 * BitsFrom(x[3], 0, 2)) ELSE t.block]

\* The first good copy of three, of a version this driver knows
nand_flash_detect_onfi(p) ==
  IF p.valid < 3 /\ p.revision \div 2 # 0
  THEN {[page |-> p.page, oob |-> p.oob, block |-> (p.pages * p.page) \div 1024, chip |-> p.chip, wide |-> p.wide]}
  ELSE {}

BadBlockPos(page, wide) == IF page > 512 \/ wide THEN 0 ELSE 5

nand_decode_bbm_options(x, page, cells, wide) ==
  [pos |-> BadBlockPos(page, wide),
   options |-> IF cells /\ x[0] \in {Samsung, Hynix} THEN {"SCANLASTPAGE"}
               ELSE IF (~cells /\ x[0] \in {Samsung, Hynix, Toshiba, Amd, Macronix}) \/ (page = 2048 /\ x[0] = Micron)
               THEN {"SCAN2NDPAGE"} ELSE {}]

\* ffs(n) - 1: the lowest bit that is set
LowBit(n) == CHOOSE k \in 0 .. 30 : n % 2 ^ k = 0 /\ n % 2 ^ (k + 1) # 0

PageMask(g) == g.chip * (1048576 \div g.page) - 1

\* The type is looked up by the second byte; without a type or its sizes ONFI is
\* asked first.  A bus of the wrong width is not used.
nand_get_flash_type(x, p, wide) ==
  LET rows == {i \in DOMAIN nand_flash_ids : nand_flash_ids[i].id = x[1]}
      t == nand_flash_ids[Min(rows)]
      onfi == IF rows = {} \/ t.page = 0 THEN nand_flash_detect_onfi(p) ELSE {}
      decoded == IF t.page = 0 THEN nand_decode_ext_id(x) ELSE nand_decode_id(t, x)
      geo == CHOOSE g \in (IF onfi # {} THEN onfi ELSE {decoded @@ [chip |-> t.chip]}) : TRUE
      optwide == wide \/ (onfi = {} /\ t.wide)
      cells == onfi = {} /\ t.page = 0 /\ MultiLevel(x)
      bbm == nand_decode_bbm_options(x, geo.page, cells, optwide)
  IN  IF (rows = {} /\ onfi = {}) \/ geo.wide # optwide THEN {}
      ELSE {[page |-> geo.page, oob |-> geo.oob, block |-> geo.block, chip |-> geo.chip, cells |-> cells,
             badpos |-> bbm.pos, bbt |-> bbm.options,
             wide |-> optwide, page_shift |-> LowBit(geo.page), erase_shift |-> 10 + LowBit(geo.block),
             pagemask |-> PageMask(geo), lp |-> geo.page > 512]}

-----------------------------------------------------------------------------
(* The out-of-band data and the ECC functions                              *)

\* eccbytes, eccpos and oobfree
nand_oob(size) ==
  CASE size = 8 -> {[bytes |-> 3, pos |-> {0, 1, 2}, free |-> {3, 4, 6, 7}]}
    [] size = 16 -> {[bytes |-> 6, pos |-> {0, 1, 2, 3, 6, 7}, free |-> 8 .. 15]}
    [] size = 64 -> {[bytes |-> 24, pos |-> 40 .. 63, free |-> 2 .. 36]}
    [] size = 128 -> {[bytes |-> 48, pos |-> 80 .. 127, free |-> 2 .. 79]}
    [] OTHER -> {}

SoftSize(size) == IF size = 0 THEN 256 ELSE size

\* Hardware ECC with steps longer than a page becomes software ECC; the length of
\* a step stays.
EccMode(c, b) == IF b.mode \in {"hw", "oob_first", "syndrome"} /\ c.page < b.size THEN "soft" ELSE b.mode
EccSize(c, b) ==
  CASE EccMode(c, b) = "soft" -> SoftSize(b.size)
    [] EccMode(c, b) = "none" -> c.page
    [] OTHER -> b.size
EccBytes(c, b) == CASE EccMode(c, b) = "soft" -> 3 [] EccMode(c, b) = "none" -> 0 [] OTHER -> b.bytes

SubpageShift(steps) == CASE steps = 2 -> 1 [] steps \in {4, 8, 16} -> 2 [] OTHER -> 0

\* Without a layout the driver goes on with a null pointer.
nand_scan_tail(c, b) ==
  LET steps == c.page \div EccSize(c, b)
      sft == IF c.cells THEN 0 ELSE SubpageShift(steps)
  IN  c @@ [mode |-> EccMode(c, b), size |-> EccSize(c, b), steps |-> steps, total |-> steps * EccBytes(c, b),
            layout |-> nand_oob(c.oob), subpage |-> c.page \div 2 ^ sft,
            subread |-> EccMode(c, b) = "soft" /\ c.page_shift > 9]

-----------------------------------------------------------------------------
IdentStart == identPhase = "start" /\ nandChip = NoChip

IdentInit ==
  /\ nandId \in Ids /\ param \in Onfi /\ board \in Boards
  /\ others \in 0 .. 2   \* how many chips behind the first answer with the same id
  /\ IdentStart

\* The chips that answer like the first one, up to the first that does not
ScanIdent ==
  /\ identPhase = "start"
  /\ LET t == nand_get_flash_type(nandId, param, board.wide)
     IN  IF t = {} THEN identPhase' = "nodev" /\ UNCHANGED nandChip
         ELSE /\ identPhase' = "known"
              /\ nandChip' = (CHOOSE c \in t : TRUE) @@ [numchips |-> Min({board.maxchips, 1 + others})]
  /\ UNCHANGED <<nandId, param, others, board>>

ScanTail ==
  /\ identPhase = "known"
  /\ identPhase' = "ready" /\ nandChip' = nand_scan_tail(nandChip, board)
  /\ UNCHANGED <<nandId, param, others, board>>

IdentNext == ScanIdent \/ ScanTail
IdentSpec == IdentInit /\ [][IdentNext]_identVars

-----------------------------------------------------------------------------
(* Properties                                                              *)

Ready == identPhase = "ready"

\* The layouts are made for chips with 16 bytes of out-of-band data for 512 of data.
Usual == Ready /\ nandChip.oob * 32 = nandChip.page

\* The shifts the driver computes addresses with are those of the sizes it found,
\* and blocks, pages and chips divide one another; only the Hynix block of 768 KiB
\* (of which the driver uses the first 256) does not.
GeometryFits ==
  identPhase \in {"known", "ready"} =>
    /\ 2 ^ nandChip.page_shift = nandChip.page
    /\ nandChip.block = 768 \/ 2 ^ nandChip.erase_shift = nandChip.block * 1024
    /\ (nandChip.block * 1024) % nandChip.page = 0
    /\ nandChip.block = 768 \/ (nandChip.chip * 1024) % nandChip.block = 0
    /\ 2 ^ LowBit(nandChip.pagemask + 1) = nandChip.pagemask + 1

\* The codes, what is free for the user and the bad block marker are apart and
\* within the out-of-band data; only 16-bit chips with small pages have the marker
\* in the first byte of the codes.
NandAreasApart ==
  Usual /\ ~(nandChip.wide /\ nandChip.page = 512) => \A l \in nandChip.layout :
    /\ l.pos \cap l.free = {}
    /\ nandChip.badpos \notin l.pos \cup l.free
    /\ l.pos \cup l.free \subseteq 0 .. nandChip.oob - 1

\* Software ECC finds room for the codes of all its steps.
CodesFit ==
  Usual /\ nandChip.mode = "soft" =>
    \A l \in nandChip.layout : nandChip.total <= l.bytes

\* A read or write of a part of a page works on whole ECC steps.
SubpagesAreSteps == Ready /\ ~nandChip.cells /\ nandChip.steps > 0 => nandChip.subpage % nandChip.size = 0

\* An id that is read over and over is taken for one of its own length: the id of a
\* chip with three bytes never decodes as one of six.
RepeatedIdIsShort ==
  \A k \in 1 .. 7 : (\A i \in 0 .. 7 : nandId[i] = nandId[i % k]) => nand_id_len(nandId) <= k

\* All of them: what the driver decides from an id fits the chip.
IdentifiedRight ==
  GeometryFits /\ NandAreasApart /\ CodesFit /\ SubpagesAreSteps /\ RepeatedIdIsShort
==============================================================================
