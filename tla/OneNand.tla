------------------------------- MODULE OneNand -------------------------------
(***************************************************************************)
(* The OneNAND driver (fs/mtd/onenand/onenandcore.cpp, onenandbbt.cpp).    *)
(* A OneNAND chip has two buffer RAMs of a page each; the driver remembers *)
(* which page is in which (bufferram), reads the next page into one while  *)
(* it copies the other, and on chips of two dies (DDP) chooses whose RAM   *)
(* it sees.  On Flex-OneNAND the blocks of a die up to its boundary are    *)
(* small (SLC) and the others twice as large (MLC).                        *)
(*                                                                         *)
(* Addresses count subpages: a page has Sub of them and OobSize units of   *)
(* spare data.  The driver's functions are operators from the memory n     *)
(* (flash, RAMs, registers, onenand_chip) to the memory they leave.        *)
(* n.fate makes the k-th flash operation of a call fail or cuts the power  *)
(* before or in the middle of it.                                          *)
(***************************************************************************)
EXTENDS Integers, Sequences, FiniteSets, SequencesExt, OneNandOob, Binding

CONSTANTS
  Chips,            \* the chips that are looked at: records with the fields below
  OobSize, OobFree  \* units of spare data, and ecclayout->oobfree: <<offset, length>>

VARIABLE chip       \* the chip at hand, one of Chips; it never changes

Flex == chip.flex            \* the kind of chip
Ddp == chip.ddp
Wide == chip.wide            \* 4 KiB pages: both RAMs hold one page, only number 0 is used
BlocksPerDie == chip.blocks  \* a power of two
SmallPages == chip.pages     \* pages of a block (of a small one, if Flex)
Sub == chip.sub
Reads == chip.reads          \* the transfers: <<from, length>>, in subpages
Writes == chip.writes
Erases == chip.erases        \* <<from, length>>, in pages
FactoryBad == chip.bad       \* the sets of blocks that may be bad from the start
Boundaries == chip.boundaries \* the boundaries a call may ask for, and those a chip may start with
Values == chip.values
PiErased == chip.erased      \* 0x3ff, the boundary that erased partition information reads as
MaxFaults == chip.faults     \* bounds: faults, the operation of a call that may fail, rotten pages, calls
MaxFateAt == chip.fateAt
MaxFlips == chip.flips
MaxOps == chip.ops

ASSUME OneNandAssumption ==
  /\ OobSize \in Nat \ {0}
  /\ \A c \in Chips : /\ {c.blocks, c.pages, c.sub} \subseteq Nat \ {0}
                      /\ {c.flex, c.ddp, c.wide} \subseteq BOOLEAN
                      /\ c.flex => c.wide /\ c.erased \in 0 .. c.blocks - 1

Dies == IF Ddp THEN 0 .. 1 ELSE {0}
NBlocks == BlocksPerDie * Cardinality(Dies)
Blocks == 0 .. NBlocks - 1
BlockPages == IF Flex THEN 2 * SmallPages ELSE SmallPages
MaxBoundary == BlocksPerDie - 1

FF == 0
Zero == 7
Mix == 8                           \* two different values on top of each other
Rotten(v) == IF v \in 1 .. 6 THEN v + 20 ELSE v   \* more flipped bits than the chip corrects
Sound(v) == v < 20 /\ v # Mix
Row(d, o) == [data |-> [i \in 0 .. Sub - 1 |-> d], oob |-> [i \in 0 .. OobSize - 1 |-> o]]
Erased == Row(FF, FF)

\* Only the first byte of the array is initialised to 0xff.
ffchars == [i \in 0 .. OobSize - 1 |-> IF i = 0 THEN FF ELSE Zero]

-----------------------------------------------------------------------------
(* Blocks and addresses                                                    *)

Boundary(n, d) == n.boundary[d]

\* In pages
DieSize(n, d) == BlocksPerDie * 2 * SmallPages - (Boundary(n, d) + 1) * SmallPages

\* Mutant: the boundary is counted with the large blocks.
Folded_Short(blk, b) == IF blk > b THEN (blk + b) \div 2 ELSE blk

Folded(blk, b) == IF blk > b THEN (blk + b + 1) \div 2 ELSE blk

flexonenand_block(n, page) ==
  LET die == IF Ddp /\ page >= DieSize(n, 0) THEN 1 ELSE 0
      blk == (IF die = 1 THEN page - DieSize(n, 0) ELSE page) \div SmallPages
  IN  Folded(blk, Boundary(n, die)) + die * BlocksPerDie

flexonenand_addr(n, block) ==
  LET die == IF Ddp /\ block >= BlocksPerDie THEN 1 ELSE 0
      blk == block - die * BlocksPerDie
      b == Boundary(n, die)
  IN  die * DieSize(n, 0) + SmallPages * (IF blk > b + 1 THEN blk + (blk - b - 1) ELSE blk)

onenand_block(n, page) == IF Flex THEN flexonenand_block(n, page) ELSE page \div SmallPages
onenand_addr(n, block) == IF Flex THEN flexonenand_addr(n, block) ELSE block * SmallPages

\* The regions of blocks of one size; the small blocks of a die go on with the region
\* of a die before it that has only small ones.
flexonenand_get_size(n) ==
  LET Region(a, big, num) ==
        [regs |-> Append(a.regs, [offset |-> a.ofs, size |-> big * SmallPages, num |-> num]),
         ofs |-> a.ofs + num * big * SmallPages]
      Longer(a, num) ==
        [regs |-> [a.regs EXCEPT ![Len(a.regs)].num = @ + num], ofs |-> a.ofs + num * SmallPages]
      Small(a, d) ==
        IF d = 0 \/ Boundary(n, d - 1) # MaxBoundary THEN Region(a, 1, Boundary(n, d) + 1)
        ELSE Longer(a, Boundary(n, d) + 1)
      Big(a, d) == IF Boundary(n, d) # MaxBoundary THEN Region(a, 2, MaxBoundary - Boundary(n, d)) ELSE a
      Die(a, d) == Big(Small(a, d), d)
      all == FoldLeft(Die, [regs |-> <<>>, ofs |-> 0], IF Ddp THEN <<0, 1>> ELSE <<0>>)
  IN  all.regs

Size(n) == IF Flex THEN DieSize(n, 0) + (IF Ddp THEN DieSize(n, 1) ELSE 0) ELSE NBlocks * SmallPages

flexonenand_region(n, page) ==
  LET regs == flexonenand_get_size(n)
  IN  regs[Cardinality({i \in DOMAIN regs : regs[i].offset <= page})]

-----------------------------------------------------------------------------
(* The chip                                                                *)

Over(u, w) == CASE w = FF \/ u = w -> u [] u = FF -> w [] OTHER -> IF Zero \in {u, w} THEN Zero ELSE Mix

\* Halfway through the data does not agree with its code.
OverRow(r, w, torn) ==
  [data |-> [i \in 0 .. Sub - 1 |-> IF torn /\ w.data[i] # FF THEN Mix ELSE Over(r.data[i], w.data[i])],
   oob |-> [i \in 0 .. OobSize - 1 |-> Over(r.oob[i], w.oob[i])]]

Fate(n) == IF n.off THEN "off" ELSE IF n.fate.k = 1 THEN n.fate.kind ELSE "ok"
Lived(n, status) ==
  [n EXCEPT !.fate.k = @ - 1, !.off = @ \/ Fate(n) \in {"cut", "torn"},
            !.status = IF Fate(n) = "fail" THEN "EIO" ELSE status]
DieOf(block) == block \div BlocksPerDie
Ram(n) == n.ram[n.dbs][n.idx]
SetRam(n, row) == [n EXCEPT !.ram[n.dbs][n.idx] = row]

\* The page (or only its spare data) comes into the RAM; what the chip cannot correct is reported.
LoadPage(n, b, g, recover, onlyOob) ==
  LET r == n.cell[<<b, g>>]
      mend(v) == IF recover /\ v > 20 THEN v - 20 ELSE v
      data == [i \in 0 .. Sub - 1 |-> mend(r.data[i])]
      status == IF onlyOob \/ \A i \in 0 .. Sub - 1 : Sound(data[i]) THEN "ok" ELSE "EBADMSG"
      row == IF onlyOob THEN [Ram(n) EXCEPT !.oob = r.oob] ELSE [r EXCEPT !.data = data]
  IN  IF Fate(n) = "ok" THEN Lived(SetRam(n, row), status) ELSE Lived(n, "ok")

ProgramPage(n, b, g, onlyOob) ==
  LET w == IF onlyOob THEN [Erased EXCEPT !.oob = Ram(n).oob] ELSE Ram(n)
  IN  IF Fate(n) \in {"ok", "torn"}
      THEN Lived([n EXCEPT !.cell[<<b, g>>] = OverRow(@, w, Fate(n) = "torn"), !.progs[<<b, g>>] = @ + 1], "ok")
      ELSE Lived(n, "ok")

EraseBlock(n, b) ==
  IF Fate(n) \in {"ok", "torn"}
  THEN Lived([n EXCEPT !.cell = [p \in DOMAIN @ |-> IF p[1] = b THEN Erased ELSE @[p]],
                       !.progs = [p \in DOMAIN @ |-> IF p[1] = b THEN 0 ELSE @[p]]], "ok")
  ELSE Lived(n, "ok")

\* Behind PI_ACCESS the commands work on the partition information of the die until RESET:
\* the boundary (100 more when locked), -1 when erased.  An update reaches both dies.
PiRow(v) == Row(40 + v, FF)
PiCommand(n, cmd, d) ==
  IF Fate(n) # "ok" THEN Lived(n, "ok")
  ELSE IF cmd \in {"ERASE", "PROG"} /\ n.pi[d] >= 100 THEN Lived(n, "EIO")
  ELSE CASE cmd = "READ" -> Lived(SetRam(n, PiRow(n.pi[d])), "ok")
         [] cmd = "ERASE" -> Lived([n EXCEPT !.pi[d] = -1], "ok")
         [] cmd = "PROG" -> Lived([n EXCEPT !.pi[d] = n.word], "ok")
         [] cmd = "PI_UPDATE" -> Lived([n EXCEPT !.act = n.pi], "ok")
         [] OTHER -> Lived(n, "ok")

-----------------------------------------------------------------------------
(* onenand_command: registers, the RAM, and the operation                  *)

NextRam(n) == [n EXCEPT !.idx = IF Wide THEN 0 ELSE 1 - @]

SelectDie(n, block) == [n EXCEPT !.dbs = DieOf(block)]

onenand_command(n, cmd, page) ==
  LET block == IF cmd \in {"PI_ACCESS", "READ_PI"} THEN page * BlocksPerDie ELSE onenand_block(n, page)
      g == (page - onenand_addr(n, block)) % BlockPages
      s == SelectDie(n, block)
  IN  CASE cmd = "BUFFERRAM" -> NextRam(s)
        [] cmd = "PI_ACCESS" -> Lived([s EXCEPT !.inPi = TRUE], "ok")
        [] cmd = "READ_PI" -> PiCommand(NextRam(s), "READ", page)
        [] n.inPi -> PiCommand(s, cmd, DieOf(block))
        [] cmd = "ERASE" -> EraseBlock(s, block)
        [] cmd = "READ" -> LoadPage(NextRam(s), block, g, FALSE, FALSE)
        [] cmd = "RECOVER_LSB" -> LoadPage(NextRam(s), block, g, TRUE, FALSE)
        [] cmd = "READOOB" -> LoadPage(NextRam(s), block, g, FALSE, TRUE)
        [] cmd = "PROG" -> ProgramPage(s, block, g, FALSE)
        [] cmd = "PROGOOB" -> ProgramPage(s, block, g, TRUE)

onenand_wait(n) == n.status

-----------------------------------------------------------------------------
(* Which page is in which RAM                                              *)

onenand_check_bufferram(n, page) ==
  LET i == IF n.tag[n.idx] = page THEN n.idx ELSE 1 - n.idx
  IN  IF n.tag[i] # page THEN [n |-> n, found |-> FALSE]
      ELSE [n |-> IF Ddp THEN SelectDie([n EXCEPT !.idx = i], onenand_block(n, page)) ELSE [n EXCEPT !.idx = i],
            found |-> TRUE]

onenand_update_bufferram(n, page, valid) ==
  [n EXCEPT !.tag = [i \in 0 .. 1 |-> IF i = n.idx THEN (IF valid THEN page ELSE -1)
                                      ELSE IF @[i] = page THEN -1 ELSE @[i]]]

\* Mutant: the last page of the range is left out.
onenand_invalidate_bufferram_Short(n, page, count) ==
  [n EXCEPT !.tag = [i \in 0 .. 1 |-> IF @[i] \in page .. page + count - 2 THEN -1 ELSE @[i]]]

onenand_invalidate_bufferram(n, page, count) ==
  [n EXCEPT !.tag = [i \in 0 .. 1 |-> IF @[i] \in page .. page + count - 1 THEN -1 ELSE @[i]]]

-----------------------------------------------------------------------------
(* Reading                                                                 *)

Place(mode, column, len) ==
  IF mode = "auto" THEN AutoPos(OobFree, column, len) ELSE [k \in 1 .. len |-> column + k - 1]
OobLimit(mode) == IF mode = "auto" THEN OobAvail(OobFree) ELSE OobSize
onenand_transfer_auto_oob(n, mode, column, len) ==
  LET pos == Place(mode, column, len) IN [k \in DOMAIN pos |-> Ram(n).oob[pos[k]]]
onenand_fill_auto_oob(mode, column, buf) ==
  LET pos == Place(mode, column, Len(buf))
  IN  [i \in 0 .. OobSize - 1 |-> IF i \in Range(pos) THEN buf[CHOOSE k \in DOMAIN pos : pos[k] = i] ELSE FF]

Recoverable(n, page) == flexonenand_region(n, page).size = BlockPages

\* Only large blocks of Flex-OneNAND, and only for an error of the code
onenand_recover_lsb(n, page) ==
  IF ~Flex \/ onenand_wait(n) # "EBADMSG" \/ ~Recoverable(n, page) THEN n
  ELSE onenand_command(n, "RECOVER_LSB", page)

\* Reads a page into a RAM; a page the chip could not correct is used all the same.
Loaded(n, page) ==
  With(onenand_recover_lsb(onenand_command(n, "READ", page), page), LAMBDA r :
  LET u == onenand_update_bufferram(r, page, onenand_wait(r) = "ok")
  IN  [n |-> u, ret |-> IF onenand_wait(r) = "EBADMSG" THEN "ok" ELSE onenand_wait(r)])

PrevRam(n) == [n EXCEPT !.idx = 1 - @]

\* At the border of the dies the RAM of the first is looked at once more.
Ahead(n, page) ==
  LET r == onenand_command(n, "READ", page)
  IN  PrevRam(IF Ddp /\ page = BlocksPerDie * SmallPages THEN [r EXCEPT !.dbs = 0] ELSE r)
Arrived(n, page) ==
  LET b == IF Ddp /\ page = BlocksPerDie * SmallPages THEN [n EXCEPT !.dbs = 1] ELSE n
      m == [b EXCEPT !.idx = 1 - @]
      u == onenand_update_bufferram(m, page, onenand_wait(m) = "ok")
  IN  [n |-> u, ret |-> IF onenand_wait(m) = "EBADMSG" THEN "ok" ELSE onenand_wait(m)]

\* One round of the loop: copy what is in the RAM while the next page is read
RECURSIVE ReadRest(_, _, _, _, _, _)
ReadRest(n, from, len, mode, ooblen, got) ==
  LET page == from \div Sub
      col == from % Sub
      this == IF Sub - col < len THEN Sub - col ELSE len
      more == this < len
  IN  With(IF more /\ ~Wide THEN Ahead(n, page + 1) ELSE n, LAMBDA a :
  LET data == [k \in 1 .. this |-> Ram(a).data[col + k - 1]]
      oobs == IF OobLimit(mode) < ooblen THEN OobLimit(mode) ELSE ooblen
      now == [data |-> got.data \o data, oob |-> got.oob \o onenand_transfer_auto_oob(a, mode, 0, oobs)]
  IN  With(IF Wide THEN Loaded(a, page + 1) ELSE Arrived(a, page + 1), LAMBDA r :
  IF ~more THEN [n |-> a, ret |-> "ok", got |-> now]
  ELSE IF r.ret # "ok" THEN [n |-> r.n, ret |-> r.ret, got |-> now]
  ELSE ReadRest(r.n, from + this, len - this, mode, ooblen - oobs, now)))

onenand_read_ops_nolock(n, from, len, mode, ooblen) ==
  LET c == onenand_check_bufferram(n, from \div Sub)
  IN  With(IF c.found THEN [n |-> c.n, ret |-> "ok"] ELSE Loaded(c.n, from \div Sub), LAMBDA first :
  LET none == [data |-> <<>>, oob |-> <<>>]
  IN  IF from + len > Size(n) * Sub THEN [n |-> n, ret |-> "EINVAL", got |-> none]
      ELSE IF first.ret # "ok" THEN [n |-> first.n, ret |-> first.ret, got |-> none]
      ELSE ReadRest(first.n, from, len, mode, ooblen, none))

OobCmd(whole, part) == IF Wide THEN whole ELSE part

\* Whole pages of spare data, or a part of one
\* The length of a piece is bounded by the whole length, not by what is left of it: the
\* last piece may be longer than was asked for.
RECURSIVE ReadOobRest(_, _, _, _, _, _)
ReadOobRest(n, page, column, len, mode, got) ==
  LET this == IF OobLimit(mode) - column < len THEN OobLimit(mode) - column ELSE len
      c == onenand_update_bufferram(onenand_command(n, OobCmd("READ", "READOOB"), page), page, FALSE)
  IN  With(onenand_recover_lsb(c, page), LAMBDA r :
  With(got \o onenand_transfer_auto_oob(r, mode, column, this), LAMBDA now :
  IF onenand_wait(r) \notin {"ok", "EBADMSG"} THEN [n |-> r, ret |-> onenand_wait(r), got |-> got]
  ELSE IF Len(now) >= len THEN [n |-> r, ret |-> onenand_wait(r), got |-> now]
  ELSE ReadOobRest(r, page + 1, 0, len, mode, now)))

onenand_read_oob_nolock(n, page, column, len, mode) ==
  IF \/ column >= OobLimit(mode) \/ page >= Size(n)
     \/ column + len > (Size(n) - page) * OobLimit(mode)
  THEN [n |-> n, ret |-> "EINVAL", got |-> <<>>]
  ELSE ReadOobRest(n, page, column, len, mode, <<>>)

-----------------------------------------------------------------------------
(* Writing                                                                 *)

RECURSIVE WriteRest(_, _, _, _, _)
WriteRest(n, from, data, mode, oob) ==
  LET page == from \div Sub
      col == from % Sub
      this == IF Sub - col < Len(data) THEN Sub - col ELSE Len(data)
      oobs == IF OobLimit(mode) < Len(oob) THEN OobLimit(mode) ELSE Len(oob)
      row == [data |-> [i \in 0 .. Sub - 1 |-> IF i >= col /\ i < col + this THEN data[i - col + 1] ELSE FF],
              oob |-> IF mode = "none" THEN ffchars ELSE onenand_fill_auto_oob(mode, 0, SubSeq(oob, 1, oobs))]
  IN  With(onenand_command(SetRam(onenand_command(n, "BUFFERRAM", page), row), "PROG", page), LAMBDA w :
  LET u == onenand_update_bufferram(w, page, onenand_wait(w) = "ok" /\ this = Sub)
  IN  IF onenand_wait(w) # "ok" \/ this = Len(data) THEN [n |-> u, ret |-> onenand_wait(w)]
      ELSE WriteRest(u, from + this, SubSeq(data, this + 1, Len(data)), mode, SubSeq(oob, oobs + 1, Len(oob))))

\* Pages of 4 KiB have no subpages.
onenand_write_ops_nolock(n, from, data, mode, oob) ==
  IF Wide /\ (from % Sub # 0 \/ Len(data) % Sub # 0) THEN [n |-> n, ret |-> "EINVAL"]
  ELSE WriteRest(n, from, data, mode, oob)

\* Within one page
onenand_write_oob_nolock(n, page, column, buf, mode) ==
  LET b == onenand_command(n, "BUFFERRAM", page)
      row == [data |-> IF Wide THEN Erased.data ELSE Ram(b).data, oob |-> onenand_fill_auto_oob(mode, column, buf)]
  IN  With(onenand_command(SetRam(b, row), OobCmd("PROG", "PROGOOB"), page), LAMBDA w :
  IF column >= OobLimit(mode) \/ column + Len(buf) > OobLimit(mode) \/ page >= Size(n)
  THEN [n |-> n, ret |-> "EINVAL"]
  ELSE [n |-> onenand_update_bufferram(w, page, FALSE), ret |-> onenand_wait(w)])

-----------------------------------------------------------------------------
(* Bad blocks and erasing                                                  *)

onenand_isbad_bbt(n, page) == onenand_block(n, page) \in n.bbt

\* An error while the marker is read makes the block bad.  ECC errors are not retried.
onenand_bbt_read_oob(n, page) ==
  onenand_update_bufferram(onenand_command(n, OobCmd("READ", "READOOB"), page), page, FALSE)

MarkerLen == 2

RECURSIVE create_bbt(_, _, _)
create_bbt(n, block, page) ==
  LET r == onenand_bbt_read_oob(n, page)
      bad == onenand_wait(r) # "ok" \/ \E i \in 0 .. MarkerLen - 1 : Ram(r).oob[i] # FF
      size == IF Flex THEN flexonenand_region(n, page).size ELSE SmallPages
  IN  IF block = NBlocks THEN n
      ELSE create_bbt([r EXCEPT !.bbt = IF bad THEN @ \cup {block} ELSE @], block + 1, page + size)

\* instr->priv makes the driver erase bad blocks too.
EraseRefused(n, page, priv) == ~priv /\ onenand_isbad_bbt(n, page)

\* Block after block, of the size of the region the address has reached
RECURSIVE EraseRest(_, _, _, _)
EraseRest(n, page, len, priv) ==
  LET size == IF Flex THEN flexonenand_region(n, page).size ELSE SmallPages
      e == onenand_invalidate_bufferram(onenand_command(n, "ERASE", page), page, size)
  IN  IF len = 0 THEN [n |-> n, ret |-> "ok"]
      ELSE IF len % size # 0 \/ EraseRefused(n, page, priv) THEN [n |-> n, ret |-> "EIO"]
      ELSE IF onenand_wait(e) # "ok" THEN [n |-> e, ret |-> "EIO"]
      ELSE EraseRest(e, page + size, len - size, priv)

onenand_erase(n, page, len, priv) ==
  LET reg == flexonenand_region(n, page)
      size == IF Flex THEN reg.size ELSE SmallPages
      offset == IF Flex THEN reg.offset ELSE 0
  IN  IF (page - offset) % size # 0 \/ len % size # 0 THEN [n |-> n, ret |-> "EINVAL"]
      ELSE EraseRest(n, page, len, priv)

\* A good block is marked through mtd_block_markbad, which calls this function again.
onenand_block_markbad(n, page) == IF onenand_isbad_bbt(n, page) THEN "ok" ELSE "never"

-----------------------------------------------------------------------------
(* Moving the boundary of Flex-OneNAND                                     *)

Calm(n) == [n EXCEPT !.fate = [k |-> 0, kind |-> "ok"]]
Reset(n) == [n EXCEPT !.inPi = FALSE]
PiWord(n) == n.ram[n.dbs][0].data[0]

PiBoundary(v) == IF v = -1 THEN PiErased ELSE v % 100
BoundaryOf(w) == PiBoundary(w - 40)
Unlocked(w) == w = FF \/ w \in 39 .. 139

\* The boundaries are read from the flash; that it cannot be read is not looked at.
RECURSIVE flexonenand_get_boundary(_, _)
flexonenand_get_boundary(n, d) ==
  With(onenand_command(onenand_command(n, "PI_ACCESS", d), "READ_PI", d), LAMBDA r :
  IF d \notin Dies THEN n
  ELSE flexonenand_get_boundary(Reset([r EXCEPT !.boundary[d] = BoundaryOf(PiWord(r))]), d + 1))

\* OobSize units of the free spare data, those of four pages (onenand_oob_128), are read
\* one page over the other into the chip's own buffer: what is looked at is the last.
RECURSIVE flexonenand_check_blocks_erased(_, _, _)
flexonenand_check_blocks_erased(n, block, end) ==
  LET page == flexonenand_addr(n, block)
  IN  With(onenand_read_oob_nolock(n, page, 0, OobSize, "auto"), LAMBDA r :
  LET used == \E i \in 0 .. OobSize - 1 : Ram(r.n).oob[i] # FF
  IN  IF block > end THEN [n |-> n, ret |-> "ok"]
      ELSE IF onenand_isbad_bbt(n, page) THEN flexonenand_check_blocks_erased(n, block + 1, end)
      ELSE IF r.ret # "ok" THEN [n |-> r.n, ret |-> r.ret]
      ELSE IF used THEN [n |-> r.n, ret |-> "not_erased"]
      ELSE flexonenand_check_blocks_erased(r.n, block + 1, end))

\* A locked boundary stays, and the call still succeeds.
flexonenand_set_boundary(n, die, boundary, lock) ==
  LET old == Boundary(n, die)
      low == IF old < boundary THEN old ELSE boundary
      high == IF old < boundary THEN boundary ELSE old
  IN  With(flexonenand_check_blocks_erased(n, low + 1 + die * BlocksPerDie, high + die * BlocksPerDie), LAMBDA e :
  With(onenand_command(onenand_command(e.n, "PI_ACCESS", die), "READ_PI", die), LAMBDA r :
  LET word == boundary + (IF lock THEN 100 ELSE 0)
      x == onenand_command(r, "ERASE", die * DieSize(n, 0))
      y == [SetRam(x, PiRow(word)) EXCEPT !.word = word]
  IN  With(onenand_command(y, "PROG", die * DieSize(n, 0)), LAMBDA w :
  LET u == onenand_command(w, "PI_UPDATE", 0)
  IN  With(IF ~Unlocked(PiWord(r)) THEN r ELSE IF onenand_wait(x) # "ok" THEN x
       ELSE IF onenand_wait(w) # "ok" THEN w ELSE u, LAMBDA last :
  IF boundary = old THEN [n |-> n, ret |-> "ok"]
  ELSE IF boundary >= BlocksPerDie THEN [n |-> n, ret |-> "EINVAL"]
  ELSE IF e.ret # "ok" THEN e
  ELSE [n |-> IF onenand_wait(last) = "ok" THEN flexonenand_get_boundary(Calm(Reset(last)), 0) ELSE Reset(last),
        ret |-> onenand_wait(last)]))))

-----------------------------------------------------------------------------
(* onenand_scan, and the calls                                             *)

VARIABLES
  mem,      \* the memory
  want,     \* what the user knows of each subpage: what was written last, or Unknown
  bad,      \* the blocks with the maker's mark
  smeared,  \* the blocks whose mark the driver itself may have written, or erased when told to
  left,     \* the page whose tag stayed when partition information was read into RAM 0
  out,      \* what the last call returned
  faults, flips, ops
vars == <<chip, mem, want, bad, smeared, left, out, faults, flips, ops>>

Unknown == -1
NoOut == [call |-> "none"]
Phys(n, page) ==
  LET b == onenand_block(n, page) IN <<b, (page - onenand_addr(n, b)) % BlockPages>>

\* The structure of the driver starts as zeros: both RAMs are said to hold page 0.
onenand_scan(n) ==
  LET z == [n EXCEPT !.ram = [d \in 0 .. 1 |-> [i \in 0 .. 1 |-> Row(9, 9)]], !.dbs = 0, !.idx = 0,
                     !.tag = [i \in 0 .. 1 |-> 0], !.bbt = {}, !.off = FALSE, !.inPi = FALSE, !.status = "ok",
                     !.boundary = [d \in 0 .. 1 |-> 0], !.act = n.pi]
  IN  create_bbt(IF Flex THEN flexonenand_get_boundary(Calm(z), 0) ELSE Calm(z), 0, 0)

Marked(b, bads) == [Erased EXCEPT !.oob[1] = IF b \in bads THEN Zero ELSE FF]
\* A new chip, before the power is switched on
Init ==
  /\ chip \in Chips
  /\ bad \in FactoryBad
  /\ \E start \in [0 .. 1 -> Boundaries] :
       mem = [cell |-> [p \in Blocks \X (0 .. BlockPages - 1) |-> IF p[2] = 0 THEN Marked(p[1], bad) ELSE Erased],
              progs |-> [p \in Blocks \X (0 .. BlockPages - 1) |-> 0], pi |-> start, act |-> start, word |-> 0,
              ram |-> <<>>, dbs |-> 0, idx |-> 0, tag |-> [i \in 0 .. 1 |-> -1], bbt |-> {}, off |-> TRUE,
              inPi |-> FALSE, status |-> "ok", boundary |-> start, fate |-> [k |-> 0, kind |-> "ok"]]
  /\ want = [p \in Blocks \X (0 .. BlockPages - 1) |-> [c \in 0 .. Sub - 1 |-> FF]]
  /\ smeared = {} /\ left = -1 /\ out = NoOut /\ faults = 0 /\ flips = 0 /\ ops = 0

Fates(kinds) ==
  {[k |-> 0, kind |-> "ok"]} \cup
  (IF faults < MaxFaults THEN {[k |-> k, kind |-> d] : k \in 1 .. MaxFateAt, d \in kinds} ELSE {})
Begin(f) == [mem EXCEPT !.fate = f]
Hit(f, r) == f.k > 0 /\ r.n.fate.k <= 0

Ready == ~mem.off /\ ops < MaxOps
\* What is done at the end of every call; a fault that was not met is not looked at again.
Call(f, r, o) ==
  /\ f.k = 0 \/ Hit(f, r)
  /\ mem' = Calm(r.n) /\ out' = o
  /\ faults' = IF f.k > 0 THEN faults + 1 ELSE faults
  /\ ops' = ops + 1

AllFates == {"fail", "cut", "torn"}
WantAt(u) == want[Phys(mem, u \div Sub)][u % Sub]
\* The chip can correct the page, or recover it.
SoundAt(u) ==
  LET p == Phys(mem, u \div Sub)
      large == Flex /\ (p[1] % BlocksPerDie) > mem.boundary[DieOf(p[1])]
  IN  \A c \in 0 .. Sub - 1 : LET v == mem.cell[p].data[c] IN Sound(v) \/ (large /\ v > 20)

Read == Ready /\ \E f \in Fates({"fail"}), x \in Reads, mode \in {"none", "auto"} :
  \E r \in {onenand_read_ops_nolock(Begin(f), x[1], x[2], mode, IF mode = "none" THEN 0 ELSE OobLimit(mode))} :
  /\ Call(f, r, [call |-> "read", ret |-> r.ret, hit |-> f.k > 0, data |-> r.got.data,
                 stray |-> [k \in 1 .. x[2] |-> (x[1] + k - 1) \div Sub = left],
                 want |-> IF x[1] + x[2] > Size(mem) * Sub THEN <<>> ELSE [k \in 1 .. x[2] |-> WantAt(x[1] + k - 1)],
                 sound |-> [k \in 1 .. x[2] |-> x[1] + k - 1 < Size(mem) * Sub => SoundAt(x[1] + k - 1)]])
  /\ UNCHANGED <<chip, want, bad, smeared, left, flips>>

ReadOob == Ready /\ \E f \in Fates({"fail"}), x \in Writes, mode \in {"auto", "place"} :
  \E r \in {onenand_read_oob_nolock(Begin(f), x[1] \div Sub, 1, OobLimit(mode) - 1, mode)} :
  /\ Call(f, r, [call |-> "readoob", ret |-> r.ret, hit |-> f.k > 0])
  /\ UNCHANGED <<chip, want, bad, smeared, left, flips>>

\* A value written where something is already, or by a call that failed, is not known.
Learn(units, v) ==
  [p \in DOMAIN want |-> [c \in 0 .. Sub - 1 |->
     IF \E u \in units : Phys(mem, u \div Sub) = p /\ u % Sub = c
     THEN (IF want[p][c] = FF THEN v ELSE Unknown) ELSE want[p][c]]]
FirstPages(units) == {onenand_block(mem, u \div Sub) : u \in {w \in units : Phys(mem, w \div Sub)[2] = 0}}

Write == Ready /\ \E f \in Fates(AllFates), x \in Writes, v \in Values, mode \in {"none", "auto"} :
  LET oob == IF mode = "none" THEN <<>> ELSE [k \in 1 .. OobAvail(OobFree) |-> v]
  IN  x[1] + x[2] <= Size(mem) * Sub /\
  \E r \in {onenand_write_ops_nolock(Begin(f), x[1], [k \in 1 .. x[2] |-> v], mode, oob)} :
  LET units == x[1] .. x[1] + x[2] - 1
  IN  /\ Call(f, r, [call |-> "write", ret |-> r.ret, hit |-> f.k > 0])
      /\ want' = IF r.ret = "EINVAL" THEN want ELSE Learn(units, IF f.k = 0 THEN v ELSE Unknown)
      /\ smeared' = IF mode = "none" \/ f.k > 0 \/ \E u \in units : mem.progs[Phys(mem, u \div Sub)] > 0 THEN smeared \cup FirstPages(units) ELSE smeared
      /\ UNCHANGED <<chip, bad, left, flips>>

WriteOob == Ready /\ \E f \in Fates(AllFates), x \in Writes, column \in {0, 1} :
  x[1] < Size(mem) * Sub /\
  \E r \in {onenand_write_oob_nolock(Begin(f), x[1] \div Sub, column, <<3>>, "auto")} :
  /\ Call(f, r, [call |-> "writeoob", ret |-> r.ret, hit |-> f.k > 0])
  /\ smeared' = IF f.k > 0 THEN smeared \cup FirstPages({x[1]}) ELSE smeared
  /\ UNCHANGED <<chip, want, bad, left, flips>>

Touched(x) == {onenand_block(mem, g) : g \in x[1] .. x[1] + x[2] - 1}

\* With priv the marks of bad blocks are gone.
Erase == Ready /\ \E f \in Fates(AllFates), x \in Erases, priv \in BOOLEAN :
  x[1] + x[2] <= Size(mem) /\ \E r \in {onenand_erase(Begin(f), x[1], x[2], priv)} :
  LET gone == {p[1] : p \in {q \in DOMAIN want : r.n.cell[q] # mem.cell[q]}}
  IN  /\ Call(f, r, [call |-> "erase", ret |-> r.ret, hit |-> f.k > 0])
      /\ want' = [p \in DOMAIN want |-> [c \in 0 .. Sub - 1 |->
                    IF p[1] \in gone \/ (p[1] \in Touched(x) /\ r.ret = "ok")
                    THEN (IF f.k > 0 THEN Unknown ELSE FF) ELSE want[p][c]]]
      /\ bad' = IF priv THEN bad \ gone ELSE bad
      /\ smeared' = IF priv THEN smeared \cup (bad \cap gone) ELSE smeared
      /\ UNCHANGED <<chip, left, flips>>

\* Marking a good block runs out of stack.
MarkBad == Ready /\ \E b \in Blocks :
  LET ret == onenand_block_markbad(mem, onenand_addr(mem, b))
  IN  /\ Call([k |-> 0, kind |-> "ok"], [n |-> [mem EXCEPT !.off = ret = "never"]],
              [call |-> "markbad", ret |-> ret, hit |-> FALSE])
      /\ UNCHANGED <<chip, want, bad, smeared, left, flips>>

\* The blocks of a die whose kind differs between two boundaries
Between(die, a, b) == {x + die * BlocksPerDie : x \in {y \in 0 .. MaxBoundary : (y <= a) # (y <= b)}}
Forgotten(blocks) == [p \in DOMAIN want |-> IF p[1] \in blocks THEN [c \in 0 .. Sub - 1 |-> Unknown] ELSE want[p]]

\* If every block that changes its kind is bad, none of them is read before, and the tag
\* of the RAM that the partition information is read into stays.
SetBoundary == Ready /\ \E f \in Fates({"fail", "cut"}), die \in Dies, b \in Boundaries, lock \in BOOLEAN :
  Flex /\ \E r \in {flexonenand_set_boundary(Begin(f), die, b, lock)} :
  LET moved == Between(die, b, mem.boundary[die])
  IN  /\ Call(f, r, [call |-> "boundary", ret |-> r.ret, hit |-> f.k > 0])
      /\ want' = IF r.n.pi = mem.pi THEN want ELSE Forgotten(moved)
      /\ left' = IF moved \subseteq mem.bbt THEN mem.tag[0] ELSE left
      /\ UNCHANGED <<chip, bad, smeared, flips>>

\* The scan of a chip with 4 KiB pages reads the data of the first page too.
Rot == \E p \in DOMAIN want, c \in 0 .. Sub - 1 :
  /\ flips < MaxFlips /\ ~mem.off /\ mem.cell[p].data[c] \in 1 .. 6
  /\ mem' = [mem EXCEPT !.cell[p].data[c] = Rotten(@)]
  /\ smeared' = IF Wide /\ p[2] = 0 THEN smeared \cup {p[1]} ELSE smeared
  /\ flips' = flips + 1 /\ out' = NoOut
  /\ UNCHANGED <<chip, want, bad, left, faults, ops>>

\* The chip starts with the boundaries in its flash, which a failed move may have erased.
PowerCycle ==
  /\ mem' = onenand_scan(mem) /\ out' = NoOut
  /\ want' = Forgotten(UNION {Between(d, PiBoundary(mem.act[d]), PiBoundary(mem.pi[d])) : d \in Dies})
  /\ left' = -1
  /\ UNCHANGED <<chip, bad, smeared, faults, flips, ops>>

Next == Read \/ ReadOob \/ Write \/ WriteOob \/ Erase \/ MarkBad \/ SetBoundary \/ Rot \/ PowerCycle
Spec == Init /\ [][Next]_vars

-----------------------------------------------------------------------------
(* Properties                                                              *)

TypeOK ==
  /\ mem.idx \in 0 .. 1 /\ mem.dbs \in Dies
  /\ mem.tag \in [0 .. 1 -> -1 .. NBlocks * BlockPages - 1]
  /\ bad \cup smeared \cup mem.bbt \subseteq Blocks

IsPi(v) == v >= 39

\* A RAM the driver takes for a copy of a page holds what was last written to it.
RamsAsTagged ==
  ~mem.off => \A i \in 0 .. 1 : mem.tag[i] >= 0 =>
    LET p == Phys(mem, mem.tag[i])
        ram == mem.ram[DieOf(p[1])][i]
    IN  \/ mem.tag[i] = left /\ IsPi(ram.data[0])
        \/ /\ \A c \in 0 .. Sub - 1 : want[p][c] # Unknown => ram.data[c] = want[p][c]
           /\ mem.progs[p] <= 1 => \A j \in 2 .. OobSize - 1 : ram.oob[j] = mem.cell[p].oob[j]

\* A read that succeeds returns, in the right order and from the right die, what was
\* written, from the flash or from a RAM: through reads ahead (onenand_read_ops_nolock),
\* writes, erases, moved boundaries, failures and restarts no tag of a RAM is stale but
\* one: when only bad blocks change their kind, flexonenand_set_boundary reads the
\* partition information into RAM 0 under the tag of another page
\* (onenandcore.cpp:1462, 1889), and that page then reads as partition information.
\* Pages the chip cannot correct are returned as they are, as the code does; the
\* large blocks of Flex-OneNAND are recovered first.
ReadsReturnWritten ==
  /\ RamsAsTagged
  /\ out.call = "read" /\ out.ret = "ok" =>
       /\ Len(out.data) = Len(out.want)
       /\ \A k \in DOMAIN out.data :
            (out.want[k] # Unknown /\ out.sound[k]) =>
              out.data[k] = out.want[k] \/ (out.stray[k] /\ IsPi(out.data[k]))

PagesOf(b) == IF (b % BlocksPerDie) <= mem.boundary[DieOf(b)] THEN SmallPages ELSE BlockPages

\* flexonenand_block and flexonenand_addr agree on every page: the blocks, small ones up
\* to the boundary of their die, follow one another to the end of the device, and so
\* do the regions.
AddressesFit ==
  /\ \A b \in Blocks :
       LET a == onenand_addr(mem, b)
       IN  /\ \A g \in 0 .. PagesOf(b) - 1 : onenand_block(mem, a + g) = b
           /\ a + PagesOf(b) = IF b + 1 \in Blocks THEN onenand_addr(mem, b + 1) ELSE Size(mem)
  /\ LET regs == flexonenand_get_size(mem)
     IN  \A i \in DOMAIN regs :
           regs[i].offset + regs[i].size * regs[i].num =
             IF i = Len(regs) THEN Size(mem) ELSE regs[i + 1].offset

\* Partition information the chip does not work with yet, and a die that is locked
Reread(d) ==
  mem.pi[d] # mem.act[d] /\ mem.boundary[d] = PiBoundary(mem.pi[d]) /\ \E e \in Dies : mem.pi[e] >= 100

\* The driver's picture of the blocks is the chip's.  A block with the maker's mark keeps
\* it and is bad after every start and every call (create_bbt, onenand_erase), unless an
\* erase is told by instr->priv to take bad blocks too; another
\* becomes bad only by a failed write of its first page or by a write that sets no spare
\* data (ffchars), never by spare data put where the layout has room for it.  On
\* Flex-OneNAND the boundary the driver computes with is the one the chip works with,
\* and addresses, blocks and regions agree, also when a move failed or lost power between
\* the erase and the program of the partition information.  One case is left out: after a
\* failed move, a call that finds its die locked succeeds and reads the boundaries again
\* (onenandcore.cpp:1895, 1929), though the chip goes on with the ones before.
BlocksAsChip ==
  ~mem.off =>
    /\ bad \subseteq mem.bbt /\ mem.bbt \subseteq bad \cup smeared
    /\ \A b \in bad : mem.cell[<<b, 0>>].oob[1] # FF
    /\ Flex => AddressesFit /\ \A d \in Dies : mem.boundary[d] = PiBoundary(mem.act[d]) \/ Reread(d)
==============================================================================
