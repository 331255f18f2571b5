-------------------------------- MODULE Nand --------------------------------
(***************************************************************************)
(* Reading and writing a NAND chip (fs/mtd/nand/nandcore.cpp): the command *)
(* functions, the page readers and writers of the ECC modes, and the loops *)
(* over pages on top of them.  NandBbt adds erasing and bad blocks.        *)
(*                                                                         *)
(* A page is Steps units of data (an ECC step each) and OobSize units of   *)
(* out-of-band data, addressed as one row of Raw units.  A unit has a      *)
(* value v, a tuple, <<>> when erased, and the number e of its bits that   *)
(* have flipped.  The driver's functions are operators from the memory n   *)
(* (the cells, the chip's registers, what nand_chip keeps) to the memory   *)
(* they leave.  n.spoilt is a note of the model: the first scan has put    *)
(* out-of-band data into databuf while pagebuf still names a page.         *)
(*                                                                         *)
(* n.fate says what happens to the flash operations of a call: the k-th    *)
(* fails, is done but too late for nand_wait, or is cut by a power failure *)
(* before or halfway through.                                              *)
(***************************************************************************)
EXTENDS Integers, Sequences, FiniteSets, SequencesExt, Binding

CONSTANTS
  Boards,        \* the chips and their users, records of the fields below and of those of NandBbt
  Strength,      \* ecc.strength
  OpenBusFails   \* the status of a bus without a chip has the failure bit set (pull-ups)

VARIABLE board   \* the board at hand, one of Boards; it never changes

NChips == board.nChips
BlocksPerChip == board.blocks
PagesPerBlock == board.pages
Steps == board.steps          \* ecc.steps; a unit of data is ecc.size bytes
OobSize == board.oob          \* units of out-of-band data
EccMode == board.ecc          \* "hw", "oob_first", "syndrome", "soft" or "none"
EccPos == board.eccPos        \* ecc.layout->eccpos: where in the oob the code of a step is
OobFree == board.oobFree      \* ecc.layout->oobfree as the sequence of the free positions
PrePad == board.prePad
PostPad == board.postPad
BadPos == board.badPos        \* badblockpos
LargePage == board.largePage  \* writesize > 512: nand_command_lp, and reads of single steps

ASSUME NandAssumption ==
  \A v \in Boards :
    /\ {v.nChips, v.blocks, v.pages, v.steps, v.oob} \subseteq Nat \ {0}
    /\ v.badPos \in 0 .. v.oob - 1
    /\ v.ecc = "syndrome" => v.steps * (v.prePad + 1 + v.postPad) <= v.oob

Raw == Steps + OobSize
Cols == 0 .. Steps - 1
PagesPerChip == BlocksPerChip * PagesPerBlock
NPages == NChips * PagesPerChip
Pages == 0 .. NPages - 1
NBlocks == NChips * BlocksPerChip
Blocks == 0 .. NBlocks - 1

Unit(v) == [v |-> v, e |-> 0]
FF == Unit(<<>>)
Mix == Unit(<<8>>)                                  \* two different values on top of each other
MarkBad == Unit(<<0>>)
Ecc(u) == Unit(IF u.v = <<>> THEN <<>> ELSE <<9>> \o u.v)  \* the code of erased data is erased
ErasedPage == [i \in 0 .. Raw - 1 |-> FF]
ErasedOob == [i \in 0 .. OobSize - 1 |-> FF]

-----------------------------------------------------------------------------
(* The chip: a page register behind a column, programming clears bits only *)

Over(u, w) == IF w.v = <<>> \/ u.v = w.v THEN u ELSE IF u.v = <<>> THEN w ELSE Mix

\* Halfway through: the out-of-band data has arrived, the data has more flipped bits
\* than the code corrects.
Torn(i, u, w) == IF w.v = <<>> THEN u ELSE IF i < Steps THEN [Over(u, w) EXCEPT !.e = Strength + 1] ELSE Over(u, w)

\* The fate of this flash operation
Fate(n) == IF n.off THEN "off" ELSE IF n.fate.k = 1 THEN n.fate.kind ELSE "ok"
Lived(n) ==
  [n EXCEPT !.fate.k = @ - 1, !.off = @ \/ Fate(n) \in {"cut", "torn"},
            !.fail = Fate(n) \in {"fail", "late"}]
Done(n) == Fate(n) \in {"ok", "late"}

\* A single chip is selected by any command; of several, the one that was chosen.
Target(n) == IF NChips = 1 THEN 0 ELSE n.sel
RealPage(n) == Target(n) * PagesPerChip + n.page
Program(n) ==
  LET p == RealPage(n)
  IN  Lived(IF Done(n) THEN [n EXCEPT !.cell[p] = [i \in DOMAIN @ |-> Over(@[i], n.reg[i])]]
            ELSE IF Fate(n) = "torn" THEN [n EXCEPT !.cell[p] = [i \in DOMAIN @ |-> Torn(i, @[i], n.reg[i])]]
            ELSE n)
BlockPages(b) == b * PagesPerBlock .. (b + 1) * PagesPerBlock - 1
EraseBlock(n) ==
  LET b == RealPage(n) \div PagesPerBlock
  IN  Lived(IF Done(n) \/ Fate(n) = "torn"
            THEN [n EXCEPT !.cell = [p \in Pages |-> IF p \in BlockPages(b) THEN ErasedPage ELSE @[p]]]
            ELSE n)

\* What a command makes the chip do; a column of -1 or a page of -1 is not sent.
\* With no chip selected nobody listens, and the status is what the open bus reads as.
Chip(n, cmd, col, page) ==
  CASE Target(n) = -1 -> [n EXCEPT !.fail = OpenBusFails]
    [] cmd = "READ0" -> LET p == Target(n) * PagesPerChip + page
                        IN  [n EXCEPT !.reg = n.cell[p], !.col = col, !.page = page]
    [] cmd = "SEQIN" -> [n EXCEPT !.reg = ErasedPage, !.col = col, !.page = page]
    [] cmd \in {"RNDOUT", "RNDIN"} -> [n EXCEPT !.col = col]
    [] cmd = "PAGEPROG" -> Program(n)
    [] cmd = "ERASE1" -> [n EXCEPT !.page = page]
    [] cmd = "ERASE2" -> EraseBlock(n)
    [] cmd = "RESET" -> [n EXCEPT !.reg = ErasedPage]
    [] OTHER -> n

\* Small pages: READOOB is a command of its own, and SEQIN first points at the area.
nand_command(cmd, col) ==
  CASE cmd = "READOOB" -> [cmd |-> "READ0", col |-> Steps + col]
    [] OTHER -> [cmd |-> cmd, col |-> col]

nand_command_lp(cmd, col) ==
  IF cmd = "READOOB" THEN [cmd |-> "READ0", col |-> col + Steps] ELSE [cmd |-> cmd, col |-> col]

cmdfunc(n, cmd, col, page) ==
  With(IF LargePage THEN nand_command_lp(cmd, col) ELSE nand_command(cmd, col), LAMBDA sent :
  Chip(n, sent.cmd, sent.col, page))

select_chip(n, c) == [n EXCEPT !.sel = c]
nand_release_device(n) == select_chip(n, -1)

\* len units from the column on, and the chip behind them
Take(n, len) == [i \in 0 .. len - 1 |-> n.reg[n.col + i]]
Skip(n, len) == [n EXCEPT !.col = @ + len]
nand_read_oob_buf(n) == [Skip(n, OobSize) EXCEPT !.oob = Take(n, OobSize)]

\* What is written past the end of the page register is lost.
nand_write_buf(n, us) ==
  [n EXCEPT !.reg = [i \in DOMAIN @ |-> IF i >= n.col /\ i < n.col + Len(us) THEN us[i - n.col + 1] ELSE @[i]],
            !.col = @ + Len(us)]
AsSeq(f) == [i \in 1 .. Cardinality(DOMAIN f) |-> f[i - 1]]

\* A page number within its chip
Masked(page) == page % PagesPerChip

nand_check_wp(n) == n.wp
nand_wait(n) == n.fail

-----------------------------------------------------------------------------
(* Reading a page                                                          *)

\* ecc.correct (nand_correct_data and nand_bch_correct_data, or the controller's own):
\* the data, and the flips it took away or -1
Correct(u, code) ==
  IF Ecc(u).v = code.v /\ u.e <= Strength THEN [u |-> [u EXCEPT !.e = 0], stat |-> u.e] ELSE [u |-> u, stat |-> -1]

\* Steps are corrected one by one; what fails is counted, and the page is still delivered.
CorrectAll(n, data, code) ==
  LET c == [i \in DOMAIN data |-> Correct(data[i], code[i])]
  IN  [n |-> [n EXCEPT !.failed = @ + Cardinality({i \in DOMAIN c : c[i].stat < 0})],
       data |-> [i \in DOMAIN data |-> c[i].u]]

nand_read_page_raw(n, oobRequired) ==
  [n |-> IF oobRequired THEN nand_read_oob_buf(Skip(n, Steps)) ELSE Skip(n, Steps), data |-> Take(n, Steps)]

nand_read_page_swecc(n) ==
  LET r == nand_read_page_raw(n, TRUE)
  IN  CorrectAll(r.n, r.data, [i \in Cols |-> r.n.oob[EccPos[i]]])

nand_read_page_hwecc(n) ==
  LET m == nand_read_oob_buf(Skip(n, Steps))
  IN  CorrectAll(m, Take(n, Steps), [i \in Cols |-> m.oob[EccPos[i]]])

nand_read_page_hwecc_oob_first(n, page) ==
  With(cmdfunc(nand_read_oob_buf(cmdfunc(n, "READOOB", 0, page)), "READ0", 0, page), LAMBDA m :
  CorrectAll(Skip(m, Steps), Take(m, Steps), [i \in Cols |-> m.oob[EccPos[i]]]))

\* Data and out-of-band data alternate: where the data of a step and an oob unit are
Chunk == PrePad + 1 + PostPad
SynData(i) == i * (1 + Chunk)
SynOob(j) == IF j < Steps * Chunk THEN SynData(j \div Chunk) + 1 + (j % Chunk) ELSE Steps + j

nand_read_page_raw_syndrome(n) ==
  [n |-> [n EXCEPT !.oob = [j \in 0 .. OobSize - 1 |-> n.reg[n.col + SynOob(j)]], !.col = @ + Raw],
   data |-> [i \in Cols |-> n.reg[n.col + SynData(i)]]]

SynCode(i) == i * Chunk + PrePad

nand_read_page_syndrome(n) ==
  LET r == nand_read_page_raw_syndrome(n)
  IN  CorrectAll(r.n, r.data, [i \in Cols |-> r.n.oob[SynCode(i)]])

\* Only the steps that are asked for.  Their codes are read alone when they are
\* next to each other, else with the whole oob; then they are taken from the
\* first code on, whatever the first step.
nand_read_subpage(n, col, len) ==
  LET steps == col .. col + len - 1
      gaps == \E i \in steps : i + 1 \in steps /\ EccPos[i] + 1 # EccPos[i + 1]
      index == IF gaps THEN 0 ELSE col
  IN  With(cmdfunc(n, "RNDOUT", col, -1), LAMBDA d :
  With(cmdfunc(Skip(d, len), "RNDOUT", Steps, -1), LAMBDA m :
  LET o == IF gaps THEN nand_read_oob_buf(m)
           ELSE [m EXCEPT !.oob = [j \in DOMAIN @ |-> IF \E i \in steps : EccPos[i] = j THEN m.reg[Steps + j] ELSE @[j]]]
      c == CorrectAll(o, [i \in steps |-> d.reg[i]], [i \in steps |-> o.oob[EccPos[i - col + index]]])
  IN  [n |-> c.n, data |-> [i \in Cols |-> IF i \in steps THEN c.data[i] ELSE n.databuf[i]]]))

HasSubpageRead == EccMode = "soft" /\ LargePage

read_page(n, page, oobRequired) ==
  CASE EccMode = "hw" -> nand_read_page_hwecc(n)
    [] EccMode = "oob_first" -> nand_read_page_hwecc_oob_first(n, page)
    [] EccMode = "syndrome" -> nand_read_page_syndrome(n)
    [] EccMode = "soft" -> nand_read_page_swecc(n)
    [] EccMode = "none" -> nand_read_page_raw(n, oobRequired)
read_page_raw(n, oobRequired) ==
  IF EccMode = "syndrome" THEN nand_read_page_raw_syndrome(n) ELSE nand_read_page_raw(n, oobRequired)

\* The positions of the oob that ops names, up to len of them
OobSpan(ops, len) ==
  IF ops.mode = "auto"
  THEN SubSeq(OobFree, ops.ooboffs + 1, IF ops.ooboffs + len < Len(OobFree) THEN ops.ooboffs + len ELSE Len(OobFree))
  ELSE [i \in 1 .. len |-> ops.ooboffs + i - 1]

nand_transfer_oob(n, ops, len) ==
  LET at == OobSpan(ops, len) IN [i \in DOMAIN at |-> n.oob[at[i]]]

MaxOob(ops) == IF ops.mode = "auto" THEN Len(OobFree) ELSE OobSize
Least(a, b) == IF a < b THEN a ELSE b

\* The pieces of a transfer: page, first column and length of each
Pieces(from, len) ==
  LET first == from \div Steps
      last == (from + len - 1) \div Steps
  IN  [i \in 1 .. last - first + 1 |->
        LET p == first + i - 1
            col == IF i = 1 THEN from % Steps ELSE 0
        IN  [page |-> p, col |-> col,
             len |-> (IF p = last THEN ((from + len - 1) % Steps) + 1 ELSE Steps) - col]]

\* The next chip begins with its page 0.
ToPage(n, page) ==
  IF Masked(page) = 0 THEN select_chip(select_chip(n, -1), page \div PagesPerChip) ELSE n

\* After a read of a part of a page databuf holds the page, if all of it was read and is right.
KeepPage(n, ops, page, ok) ==
  [n EXCEPT !.pagebuf = IF ~HasSubpageRead /\ ~ops.oob /\ ok /\ ops.mode # "raw" THEN page ELSE -1,
            !.spoilt = FALSE]

PartOf(d, q) == [i \in 1 .. q.len |-> d[q.col + i - 1]]

\* One page of nand_do_read_ops: acc.n the memory, acc.dat and acc.oob what was read
ReadPiece(ops, acc, q) ==
  LET n == acc.n
      aligned == q.len = Steps
  IN  With(cmdfunc(n, "READ0", 0, Masked(q.page)), LAMBDA m :
  With(IF ops.mode = "raw" THEN read_page_raw(m, ops.oob)
       ELSE IF ~aligned /\ HasSubpageRead /\ ~ops.oob THEN nand_read_subpage(m, q.col, q.len)
       ELSE read_page(m, Masked(q.page), ops.oob), LAMBDA r :
  LET kept == IF aligned THEN r.n ELSE KeepPage([r.n EXCEPT !.databuf = r.data], ops, q.page, r.n.failed = 0)
      toread == Least(ops.ooblen - Len(acc.oob), MaxOob(ops))
      hit == q.page = n.pagebuf /\ ~ops.oob
      next == IF hit THEN n ELSE kept
  IN  [n |-> ToPage(next, q.page + 1),
       dat |-> acc.dat \o PartOf(IF hit THEN n.databuf ELSE r.data, q),
       oob |-> acc.oob \o (IF ops.oob THEN nand_transfer_oob(kept, ops, toread) ELSE <<>>)]))

Result(n, ret, dat, oob) == [n |-> n, ret |-> ret, dat |-> dat, oob |-> oob]
Failed(n, err) == Result(n, err, <<>>, <<>>)

nand_do_read_ops(n, from, ops) ==
  LET start == select_chip([n EXCEPT !.failed = 0], (from \div Steps) \div PagesPerChip)
  IN  With(Loop(LAMBDA a, q : ReadPiece(ops, a, q),
                [n |-> start, dat |-> <<>>, oob |-> <<>>], Pieces(from, ops.len)), LAMBDA acc :
  Result([acc.n EXCEPT !.failed = 0], IF acc.n.failed > 0 THEN "EBADMSG" ELSE "ok", acc.dat, acc.oob))

PlainOps(len) == [mode |-> "place", len |-> len, dat |-> TRUE, oob |-> FALSE, ooblen |-> 0, ooboffs |-> 0]

Release(r) == [r EXCEPT !.n = nand_release_device(@)]
nand_read(n, from, len) == Release(nand_do_read_ops(n, from, PlainOps(len)))

nand_read_oob_std(n, page) == nand_read_oob_buf(cmdfunc(n, "READOOB", 0, page))

nand_read_oob_syndrome(n, page) ==
  With(cmdfunc(n, "READ0", 1, page), LAMBDA m :
  [m EXCEPT !.oob = [j \in 0 .. OobSize - 1 |-> m.reg[SynOob(j)]], !.col = Raw])

read_oob(n, page) == IF EccMode = "syndrome" THEN nand_read_oob_syndrome(n, page) ELSE nand_read_oob_std(n, page)

\* As many pages as it takes to deliver ooblen units
nand_do_read_oob(n, from, ops) ==
  LET first == from \div Steps
      len == MaxOob(ops)
      count == IF ops.ooblen = 0 THEN 1 ELSE (ops.ooblen + len - 1) \div len
      step(a, i) ==
        With(read_oob(a.n, Masked(first + i - 1)), LAMBDA m :
        [n |-> ToPage(m, first + i), oob |-> a.oob \o nand_transfer_oob(m, ops, Least(len, ops.ooblen - Len(a.oob)))])
  IN  With(Loop(LAMBDA a, k : step(a, k), [n |-> select_chip(n, first \div PagesPerChip), oob |-> <<>>], [i \in 1 .. count |-> i]), LAMBDA acc :
  IF ops.ooboffs >= len \/ first >= NPages \/ ops.ooboffs + ops.ooblen > (NPages - first) * len
  THEN Failed(n, "EINVAL")
  ELSE Result(acc.n, "ok", <<>>, acc.oob))

nand_read_oob(n, from, ops) ==
  IF ops.dat /\ from + ops.len > NPages * Steps THEN Failed(n, "EINVAL")
  ELSE Release(IF ops.dat THEN nand_do_read_ops(n, from, ops) ELSE nand_do_read_oob(n, from, ops))

-----------------------------------------------------------------------------
(* Writing a page                                                          *)

\* The oob to be written: erased but for what ops brings
nand_fill_oob(n, ops, us) ==
  LET at == OobSpan(ops, Len(us))
  IN  [n EXCEPT !.oob = [j \in DOMAIN @ |-> IF \E i \in DOMAIN at : at[i] = j
                                            THEN us[CHOOSE i \in DOMAIN at : at[i] = j] ELSE FF]]

nand_write_page_raw(n, data, oobRequired) ==
  nand_write_buf(n, AsSeq(data) \o (IF oobRequired THEN AsSeq(n.oob) ELSE <<>>))

CodesInto(n, data) ==
  [n EXCEPT !.oob = [j \in DOMAIN @ |-> IF \E i \in Cols : EccPos[i] = j
                                        THEN Ecc(data[CHOOSE i \in Cols : EccPos[i] = j]) ELSE @[j]]]

nand_write_page_swecc(n, data) == nand_write_page_raw(CodesInto(n, data), data, TRUE)

nand_write_page_hwecc(n, data) ==
  LET m == CodesInto(nand_write_buf(n, AsSeq(data)), data) IN nand_write_buf(m, AsSeq(m.oob))

SynRow(data, oob) ==
  [i \in 0 .. Raw - 1 |->
     IF \E k \in Cols : SynData(k) = i THEN data[CHOOSE k \in Cols : SynData(k) = i]
     ELSE oob[CHOOSE j \in 0 .. OobSize - 1 : SynOob(j) = i]]

nand_write_page_syndrome(n, data) ==
  LET oob == [j \in 0 .. OobSize - 1 |->
                IF j < Steps * Chunk /\ j % Chunk = PrePad THEN Ecc(data[j \div Chunk]) ELSE n.oob[j]]
  IN  nand_write_buf(n, AsSeq(SynRow(data, oob)))

\* The codes are read from the chip instead of being written to it: the rest of the
\* row moves up.
nand_write_page_raw_syndrome(n, data) ==
  LET step(i) == <<data[i]>> \o [j \in 1 .. PrePad |-> n.oob[i * Chunk + j - 1]]
                 \o [j \in 1 .. PostPad |-> n.oob[i * Chunk + PrePad + j]]
      rest == [j \in 1 .. OobSize - Steps * Chunk |-> n.oob[Steps * Chunk + j - 1]]
  IN  nand_write_buf(n, FlattenSeq([i \in 1 .. Steps |-> step(i - 1)]) \o rest)

write_page(n, data, oobRequired) ==
  CASE EccMode \in {"hw", "oob_first"} -> nand_write_page_hwecc(n, data)
    [] EccMode = "syndrome" -> nand_write_page_syndrome(n, data)
    [] EccMode = "soft" -> nand_write_page_swecc(n, data)
    [] EccMode = "none" -> nand_write_page_raw(n, data, oobRequired)
write_page_raw(n, data, oobRequired) ==
  IF EccMode = "syndrome" THEN nand_write_page_raw_syndrome(n, data) ELSE nand_write_page_raw(n, data, oobRequired)

\* n.fail is the status nand_wait reports.
nand_write_page(n, data, oobRequired, page, raw) ==
  With(cmdfunc(n, "SEQIN", 0, page), LAMBDA m :
  LET w == IF raw THEN write_page_raw(m, data, oobRequired) ELSE write_page(m, data, oobRequired)
  IN  cmdfunc(w, "PAGEPROG", -1, -1))

\* A part of a page is completed with erased units.
PieceData(n, us, done, q) ==
  [i \in Cols |-> IF i >= q.col /\ i < q.col + q.len THEN us[done + i - q.col + 1] ELSE FF]

\* One page of nand_do_write_ops; acc.left counts what is still to be written.
\* A part of a page is put into databuf, which so no longer holds what pagebuf says.
WritePiece(ops, us, oobs, acc, q) ==
  LET n == acc.n
      done == Len(us) - acc.left
      whole == q.len = Steps
      data == PieceData(n, us, done, q)
      b == IF whole THEN n ELSE [n EXCEPT !.pagebuf = -1, !.databuf = data]
      len == Least(Len(oobs) - acc.ooboff, MaxOob(ops))
      f == IF ops.oob THEN nand_fill_oob(b, ops, SubSeq(oobs, acc.ooboff + 1, acc.ooboff + len))
           ELSE [b EXCEPT !.oob = ErasedOob]
  IN  With(nand_write_page(f, data, ops.oob, Masked(q.page), ops.mode = "raw"), LAMBDA w :
  IF acc.ret # "ok" THEN acc
  ELSE IF nand_wait(w) THEN [acc EXCEPT !.n = w, !.ret = "EIO"]
  ELSE [n |-> ToPage(w, q.page + 1), left |-> acc.left - q.len, ret |-> "ok",
        ooboff |-> acc.ooboff + (IF ops.oob THEN len ELSE 0)])

\* Mutant: the page in databuf survives a write of the page.
DropPage_Never(n, to, len) == n

\* A cached page in the range is forgotten.  (A write that begins inside the cached
\* page is not in the range this test sees; WritePiece drops that one.)
DropPage(n, to, len) ==
  IF to <= n.pagebuf * Steps /\ n.pagebuf * Steps < to + len THEN [n EXCEPT !.pagebuf = -1] ELSE n

nand_do_write_ops(n, to, ops, us, oobs) ==
  LET subpage == to % Steps # 0 \/ ops.len % Steps # 0
      m == select_chip(n, (to \div Steps) \div PagesPerChip)
      d == DropPage(m, to, ops.len)
  IN  With(Loop(LAMBDA a, q : WritePiece(ops, us, oobs, a, q),
                [n |-> d, left |-> ops.len, ret |-> "ok", ooboff |-> 0], Pieces(to, ops.len)), LAMBDA acc :
  IF ops.len = 0 THEN Failed(n, "ok")
  ELSE IF subpage /\ ops.oob THEN Failed(n, "EINVAL")
  ELSE IF nand_check_wp(m) THEN Failed(m, "EIO")
  ELSE IF ops.oob /\ ops.ooboffs > 0 /\ ops.ooboffs + ops.ooblen > MaxOob(ops) THEN Failed(d, "EINVAL")
  ELSE Result(acc.n, acc.ret, <<>>, <<>>))

nand_write(n, to, us) == Release(nand_do_write_ops(n, to, PlainOps(Len(us)), us, <<>>))

nand_write_oob_std(n, page) ==
  cmdfunc(nand_write_buf(cmdfunc(n, "SEQIN", Steps, page), AsSeq(n.oob)), "PAGEPROG", -1, -1)

\* Without pads the oob is taken to be behind the last code.
nand_write_oob_syndrome(n, page) ==
  LET pads == PrePad > 0 \/ PostPad > 0
  IN  With(cmdfunc(n, "SEQIN", IF pads THEN 1 ELSE Steps * (1 + Chunk), page), LAMBDA m :
  LET w == IF pads THEN [m EXCEPT !.reg = SynRow([i \in Cols |-> FF], n.oob)] ELSE nand_write_buf(m, AsSeq(n.oob))
  IN  cmdfunc(w, "PAGEPROG", -1, -1))

write_oob(n, page) == IF EccMode = "syndrome" THEN nand_write_oob_syndrome(n, page) ELSE nand_write_oob_std(n, page)

nand_do_write_oob(n, to, ops, oobs) ==
  LET page == to \div Steps
      len == MaxOob(ops)
  IN  With(cmdfunc(select_chip(n, page \div PagesPerChip), "RESET", -1, -1), LAMBDA m :
  LET d == IF page = m.pagebuf THEN [m EXCEPT !.pagebuf = -1] ELSE m
  IN  With(write_oob(nand_fill_oob(d, ops, oobs), Masked(page)), LAMBDA w :
  IF ops.ooboffs + ops.ooblen > len \/ ops.ooboffs >= len \/ page >= NPages THEN Failed(n, "EINVAL")
  ELSE IF nand_check_wp(m) THEN Failed(m, "EROFS")
  ELSE Failed(w, IF nand_wait(w) THEN "EIO" ELSE "ok")))

nand_write_oob(n, to, ops, us, oobs) ==
  IF ops.dat /\ to + ops.len > NPages * Steps THEN Failed(n, "EINVAL")
  ELSE Release(IF ops.dat THEN nand_do_write_ops(n, to, ops, us, oobs) ELSE nand_do_write_oob(n, to, ops, oobs))

single_erase_cmd(n, page) == cmdfunc(cmdfunc(n, "ERASE1", -1, page), "ERASE2", -1, -1)

\* nand_scan_tail: nothing is cached, no chip selected, no table scanned yet.
nand_scan_tail(cell) ==
  [cell |-> cell, reg |-> ErasedPage, col |-> 0, page |-> 0, sel |-> -1,
   oob |-> ErasedOob, databuf |-> [i \in Cols |-> FF], pagebuf |-> -1, spoilt |-> FALSE,
   failed |-> 0, fail |-> FALSE, wp |-> FALSE, fate |-> [k |-> 0, kind |-> "ok"], off |-> FALSE]
=============================================================================
