------------------------------- MODULE NandBbt -------------------------------
(***************************************************************************)
(* Bad blocks of a NAND chip: the markers in the out-of-band data, the     *)
(* table in memory and its two copies in flash (fs/mtd/nand/nandbbt.cpp),  *)
(* erasing and marking (nandcore.cpp), and the MTD calls on top            *)
(* (fs/mtd/mtdcore.cpp).  The table is read at the first question for a    *)
(* bad block, whatever call asks it.                                       *)
(*                                                                         *)
(* mem is the memory of Nand, and in it bbt, the table (0 good, 1 worn, 2  *)
(* reserved, 3 factory bad), and for the descriptors "td" and "md" where   *)
(* the copies are and their versions.                                      *)
(***************************************************************************)
EXTENDS Nand, TLC

CONSTANTS
  VersionBits,  \* the width of a version (8 in the code)
  Values        \* what is written

Descr == board.descr            \* the descriptors of the copies in flash: a function on a subset of {"td", "md"}
BbtOptions == board.bbtOptions  \* bbt_options
SkipScan == board.skipScan      \* NAND_SKIP_BBTSCAN: no table, only the markers
FactoryBad == board.factoryBad  \* the sets of blocks that may be bad from the start
Reads == board.reads            \* the <<first, length>> that the calls are given
Writes == board.writes
Erases == board.erases
Marks == board.marks            \* the blocks that are asked about and marked
OobModes == board.oobModes      \* the modes of read_oob and write_oob
Faults == board.faults          \* the kinds of faults: "fail", "late", "cut", "torn"
MaxFaults == board.maxFaults    \* bounds: faults, flipped bits, calls, and the
MaxFlips == board.maxFlips      \* flash operation of a call that may still fail
MaxOps == board.maxOps
MaxFateAt == board.maxFateAt

ASSUME BbtAssumption ==
  \A v \in Boards :
    /\ DOMAIN v.descr \subseteq {"td", "md"}
    /\ "md" \in DOMAIN v.descr => "td" \in DOMAIN v.descr
    /\ \A d \in DOMAIN v.descr :
         LET x == v.descr[d]
         IN  /\ x.rcode # 0 => x.bits = 8
             /\ x.bits = v.descr["td"].bits
             \* the table of a chip is whole bytes, in memory and in flash
             /\ v.blocks % 4 = 0 /\ (v.blocks * x.bits) % 8 = 0
             \* nandbbt.cpp:146 takes the marker off the length of the table
             /\ "NO_OOB" \in x.options => x.len + 1 <= (v.blocks * x.bits) \div 8

NoTable == <<>>
Has(d, o) == o \in Descr[d].options
PerChip(d) == Has(d, "PERCHIP")
TableChips(d) == IF PerChip(d) THEN 0 .. NChips - 1 ELSE {0}
NumBlocks(d) == IF PerChip(d) THEN BlocksPerChip ELSE NBlocks
Versions == 2 ^ VersionBits
Other(d) == IF d = "td" THEN "md" ELSE "td"
Copies == SelectSeq(<<"td", "md">>, LAMBDA d : d \in DOMAIN Descr)

RECURSIVE check_create(_, _)

-----------------------------------------------------------------------------
(* mtdcore.cpp: the bounds of a call, then the chip's function             *)

Size == NPages * Steps
OutOfRange(from, len) == from > Size \/ len > Size - from

mtd_read(n, from, len) ==
  IF OutOfRange(from, len) THEN Failed(n, "EINVAL")
  ELSE IF len = 0 THEN Failed(n, "ok") ELSE nand_read(n, from, len)
mtd_write(n, to, us) ==
  IF OutOfRange(to, Len(us)) THEN Failed(n, "EINVAL")
  ELSE IF us = <<>> THEN Failed(n, "ok") ELSE nand_write(n, to, us)
mtd_read_oob(n, from, ops) == nand_read_oob(n, from, ops)

-----------------------------------------------------------------------------
(* Markers                                                                 *)

FirstMarked(b) == b * PagesPerBlock + (IF "SCANLASTPAGE" \in BbtOptions THEN PagesPerBlock - 1 ELSE 0)

\* The unit at badblockpos of the first page, and of the next one when that is asked for
nand_block_bad(n, b, getchip) ==
  LET first == FirstMarked(b)
      m == IF getchip THEN select_chip(n, b \div BlocksPerChip) ELSE n
      look(k, p) == cmdfunc(k, "READOOB", BadPos, Masked(p))
  IN  With(look(m, first), LAMBDA one :
  LET two == look(one, first + 1)
      bad(k) == k.reg[k.col] # FF
      again == ~bad(one) /\ "SCAN2NDPAGE" \in BbtOptions
  IN  With(IF again THEN two ELSE one, LAMBDA last :
  [n |-> IF getchip THEN nand_release_device(last) ELSE last, bad |-> bad(last)]))

OobOps(len) == [mode |-> "place", len |-> len, dat |-> len > 0, oob |-> TRUE, ooblen |-> OobSize, ooboffs |-> 0]

\* memcmp of one unit: a flipped bit is a difference
Same(u, w) == u = w

\* check_short_pattern with the pattern of nand_create_badblock_pattern
Marked(oob) == ~Same(oob[BadPos + 1], FF)

scan_block_fast(n, b, numpages) ==
  LET first == b * PagesPerBlock + (IF "SCANLASTPAGE" \in BbtOptions THEN PagesPerBlock - numpages ELSE 0)
      step(a, j) ==
        IF a.bad THEN a
        ELSE With(mtd_read_oob(a.n, (first + j - 1) * Steps, OobOps(0)), LAMBDA r :
             [n |-> r.n, bad |-> Marked(r.oob)])
  IN  Loop(LAMBDA a, k : step(a, k), [n |-> n, bad |-> FALSE], [j \in 1 .. numpages |-> j])

Or(a, c) == IF a = c \/ c = 0 THEN a ELSE IF a = 0 THEN c ELSE 3

\* The blocks of one chip, or of all for chip = -1
create_bbt(n, chip) ==
  LET numpages == IF "SCAN2NDPAGE" \in BbtOptions THEN 2 ELSE 1
      count == IF chip = -1 THEN NBlocks ELSE BlocksPerChip
      start == IF chip = -1 THEN 0 ELSE chip * BlocksPerChip
      step(m, i) ==
        With(scan_block_fast(m, start + i - 1, numpages), LAMBDA r :
        IF r.bad THEN [r.n EXCEPT !.bbt[start + i - 1] = Or(@, 3)] ELSE r.n)
  IN  Loop(LAMBDA a, k : step(a, k), n, [i \in 1 .. count |-> i])

\* The scan uses databuf for the out-of-band data it reads; pagebuf stays.
nand_memory_bbt(n) ==
  With(create_bbt(n, -1), LAMBDA m : [m EXCEPT !.databuf[0] = m.oob[0], !.spoilt = m.pagebuf # -1])

-----------------------------------------------------------------------------
(* The copies in flash                                                     *)

Pattern(d) == Unit(IF d = "td" THEN <<3>> ELSE <<4>>)
VersionUnit(v) == Unit(<<5, v>>)
VersionOf(u) == IF Len(u.v) = 2 /\ u.v[1] = 5 THEN u.v[2] ELSE Versions - 1

\* In units: the pattern is one, the version another.
add_marker_len(d) == IF ~Has(d, "NO_OOB") THEN 0 ELSE IF Has(d, "VERSION") THEN 2 ELSE 1
MarkerBytes(d) == Descr[d].len + (IF Has(d, "VERSION") THEN 1 ELSE 0)

\* The first page of a block: what would be the pattern and the version
scan_read(n, d, page) ==
  LET no == Has(d, "NO_OOB")
  IN  With(IF no THEN mtd_read(n, page * Steps, add_marker_len(d)) ELSE mtd_read_oob(n, page * Steps, OobOps(Steps)), LAMBDA r :
  [n |-> r.n,
   pattern |-> IF no THEN r.dat[1] ELSE r.oob[Descr[d].offs + 1],
   version |-> IF ~Has(d, "VERSION") THEN FF ELSE IF no THEN r.dat[2] ELSE r.oob[Descr[d].veroffs + 1]])

check_pattern(s, d) == Same(s.pattern, Pattern(d))

StartBlock(d, chip) == IF Has(d, "LASTBLOCK") THEN NumBlocks(d) * (chip + 1) - 1 ELSE NumBlocks(d) * chip
Candidate(d, chip, i) == StartBlock(d, chip) + (IF Has(d, "LASTBLOCK") THEN -i ELSE i)

\* The first of maxblocks blocks that begins with the pattern
search_bbt(n, d) ==
  LET most == Descr[d].maxblocks
      chips == Cardinality(TableChips(d))
      none == [n EXCEPT !.pages[d] = [c \in DOMAIN @ |-> -1], !.version[d] = [c \in DOMAIN @ |-> 0]]
      step(m, k) ==
        LET chip == (k - 1) \div most
            page == Candidate(d, chip, (k - 1) % most) * PagesPerBlock
        IN  With(scan_read(m, d, page), LAMBDA s :
        IF m.pages[d][chip] # -1 THEN m
        ELSE IF ~check_pattern(s, d) THEN s.n
        ELSE [s.n EXCEPT !.pages[d][chip] = page,
                         !.version[d][chip] = IF Has(d, "VERSION") THEN VersionOf(s.version) ELSE @])
  IN  Loop(LAMBDA a, k : step(a, k), none, [k \in 1 .. chips * most |-> k])

search_read_bbts(n) == Loop(LAMBDA m, d : search_bbt(m, d), n, Copies)

Full(d) == 2 ^ Descr[d].bits - 1

\* What write_bbt stores for a code of the table in memory
Stored(d, code) ==
  LET bits == Descr[d].bits
  IN  CASE code = 0 -> Full(d)
        [] code = 1 -> Full(d) - (CASE bits = 4 -> 12 [] bits = 8 -> 15 [] OTHER -> 1)
        [] code = 2 -> IF Descr[d].rcode = 0 THEN Full(d) ELSE Descr[d].rcode
        [] code = 3 -> 0

\* What read_bbt makes of it
Loaded(d, entry) ==
  CASE entry = Full(d) -> 0
    [] Descr[d].rcode # 0 /\ entry = Descr[d].rcode -> 2
    [] entry = 0 -> 3
    [] OTHER -> 1

PerByte(d) == 8 \div Descr[d].bits
TableBytes(d) == (NumBlocks(d) * Descr[d].bits) \div 8

\* The block of the i-th entry: act starts again at 0 with every byte of the table.
EntryBlock(d, offs, i) == offs + (i % PerByte(d))

\* The entries of the whole bytes of the table in the unit u; more flips than the code
\* corrects may clear any.
Entries(d, u) == [i \in 1 .. Least(Len(u.v) - 1, TableBytes(d) * PerByte(d)) |->
                    Loaded(d, IF u.e > Strength THEN 0 ELSE u.v[i + 1])]
AddEntries(n, d, u, offs) ==
  Loop(LAMBDA m, i : [m EXCEPT !.bbt[EntryBlock(d, offs, i - 1)] = Or(@, Entries(d, u)[i])],
           n, [i \in DOMAIN Entries(d, u) |-> i])

\* A table is one unit.  A marker longer than the table makes the length wrap.
read_bbt(n, d, page, offs) ==
  With(mtd_read(n, page * Steps + add_marker_len(d), 1), LAMBDA r :
  IF TableBytes(d) = 0 THEN [n |-> n, ret |-> "ok"]
  ELSE IF Has(d, "NO_OOB") /\ TableBytes(d) < MarkerBytes(d) THEN [n |-> n, ret |-> "EINVAL"]
  ELSE [n |-> IF r.ret = "ok" THEN AddEntries(r.n, d, r.dat[1], offs) ELSE r.n, ret |-> r.ret])

read_abs_bbt(n, d, chip) == read_bbt(n, d, n.pages[d][chip], chip * NumBlocks(d))

\* Mutant: the mirror may be put on the block of the main table.
TakenBy_None(n, d, chip, page) == FALSE

\* The other copy is on this page.
TakenBy(n, d, chip, page) == Other(d) \in DOMAIN Descr /\ n.pages[Other(d)][chip] = page

\* Where the copy goes: where it was, or the first block that is good and not the other copy's
TablePage(n, d, chip) ==
  LET page(i) == Candidate(d, chip, i) * PagesPerBlock
      free == {i \in 0 .. Descr[d].maxblocks - 1 :
                 n.bbt[Candidate(d, chip, i)] \notin {1, 3} /\ ~TakenBy(n, d, chip, page(i))}
  IN  IF n.pages[d][chip] # -1 THEN n.pages[d][chip]
      ELSE IF free = {} THEN -1 ELSE page(CHOOSE i \in free : \A j \in free : i <= j)

Padded(us) == us \o [i \in 1 .. (Steps - (Len(us) % Steps)) % Steps |-> FF]

\* The pattern and the version are in the out-of-band data, or before the table.
\* The length counts whole bytes only: of a table below one nothing is written.
TableData(n, d, chip) ==
  LET codes == [i \in 1 .. NumBlocks(d) |-> Stored(d, n.bbt[chip * NumBlocks(d) + i - 1])]
      table == IF TableBytes(d) = 0 /\ ~Has(d, "NO_OOB") THEN <<>> ELSE <<Unit(<<6>> \o codes)>>
      marker == IF ~Has(d, "NO_OOB") THEN <<>>
                ELSE <<Pattern(d)>> \o (IF Has(d, "VERSION") THEN <<VersionUnit(n.version[d][chip])>> ELSE <<>>)
  IN  Padded(marker \o table)
TableOob(n, d, chip) ==
  [j \in 1 .. OobSize |->
     IF j = Descr[d].offs + 1 THEN Pattern(d)
     ELSE IF Has(d, "VERSION") /\ j = Descr[d].veroffs + 1 THEN VersionUnit(n.version[d][chip]) ELSE FF]

scan_write_bbt(n, d, page, data, oob) ==
  nand_write_oob(n, page * Steps, [OobOps(Len(data)) EXCEPT !.oob = ~Has(d, "NO_OOB")], data, oob)

nand_isbad_bbt(n, b, allowbbt) == n.bbt[b] \in {1, 3} \/ (n.bbt[b] = 2 /\ ~allowbbt)

\* What the table says, or the marker where there is none
known_bad(n, b, getchip, allowbbt) ==
  IF n.bbt = NoTable THEN nand_block_bad(n, b, getchip)
  ELSE [n |-> n, bad |-> nand_isbad_bbt(n, b, allowbbt)]

\* A cached page of the block is forgotten.
ForgetBlock(n, b) == IF n.pagebuf \in BlockPages(b) THEN [n EXCEPT !.pagebuf = -1] ELSE n

\* Mutant: the answer is not looked at.
Refused_Never(c) == FALSE

Refused(c) == c.bad

\* Block after block until one is bad or fails; the next chip is selected only
\* between blocks.  The table has been looked for.  With scrub nobody asks.
erase_blocks(n, first, count, allowbbt, scrub) ==
  LET step(a, i) ==
        LET b == first + i - 1
        IN  With(IF scrub THEN [n |-> a.n, bad |-> FALSE] ELSE known_bad(a.n, b, FALSE, allowbbt), LAMBDA c :
        With(single_erase_cmd(ForgetBlock(c.n, b), Masked(b * PagesPerBlock)), LAMBDA e :
        IF a.ret # "ok" THEN a
        ELSE IF Refused(c) THEN [n |-> c.n, ret |-> "EIO"]
        ELSE IF nand_wait(e) THEN [n |-> e, ret |-> "EIO"]
        ELSE [n |-> IF i < count THEN ToPage(e, (b + 1) * PagesPerBlock) ELSE e, ret |-> "ok"]))
  IN  [Loop(LAMBDA a, k : step(a, k), [n |-> n, ret |-> "ok"], [i \in 1 .. count |-> i]) EXCEPT !.n = nand_release_device(@)]

\* nand_erase_nand for a caller that has had the device scanned
erase_scanned(n, first, count, allowbbt) ==
  With(select_chip(n, first \div BlocksPerChip), LAMBDA m :
  IF nand_check_wp(m) THEN [n |-> nand_release_device(m), ret |-> "EIO"]
  ELSE erase_blocks(m, first, count, allowbbt, FALSE))

\* Erase the block, write the table; a failure of either ends it.
write_bbt(n, d, chipsel) ==
  LET chips == IF PerChip(d) /\ chipsel = -1 THEN [c \in 1 .. NChips |-> c - 1]
               ELSE <<IF PerChip(d) THEN chipsel ELSE 0>>
      step(a, chip) ==
        LET page == TablePage(a.n, d, chip)
        IN  With(erase_scanned(a.n, page \div PagesPerBlock, 1, TRUE), LAMBDA e :
        With(scan_write_bbt(e.n, d, page, TableData(a.n, d, chip), TableOob(a.n, d, chip)), LAMBDA w :
        IF a.ret # "ok" THEN a
        ELSE IF page = -1 THEN [a EXCEPT !.ret = "ENOSPC"]
        ELSE IF e.ret # "ok" THEN e
        ELSE IF w.ret # "ok" THEN [n |-> w.n, ret |-> w.ret]
        ELSE [n |-> [w.n EXCEPT !.pages[d][chip] = page], ret |-> "ok"]))
  IN  Loop(LAMBDA a, k : step(a, k), [n |-> n, ret |-> "ok"], chips)

ChipSel(chip) == IF PerChip("td") THEN chip ELSE -1

\* The copies among wanted, one after the other; a failure ends it.
write_copies(n, wanted, chip) ==
  Loop(LAMBDA a, d : IF a.ret = "ok" /\ d \in wanted /\ Has(d, "WRITE") THEN write_bbt(a.n, d, ChipSel(chip)) ELSE a,
       [n |-> n, ret |-> "ok"], Copies)

\* Versions wrap; the difference is taken as a signed number.
Newer(v, w) == (v - w) % Versions \in 1 .. Versions \div 2 - 1

\* Both copies are there: the mirror is the one to believe.
TrustMirror(n, chip) ==
  n.version["td"][chip] # n.version["md"][chip] /\ ~Newer(n.version["td"][chip], n.version["md"][chip])

\* What to do for one chip: which copy is read (rd), which are written
Choice(n, chip) ==
  LET two == "md" \in DOMAIN Descr
      t == n.pages["td"][chip] # -1
      m == two /\ n.pages["md"][chip] # -1
      same == n.version["td"][chip] = n.version["md"][chip]
  IN  CASE ~t /\ ~m -> [create |-> TRUE, rd |-> {}, write |-> {"td", "md"}]
        [] ~two -> [create |-> FALSE, rd |-> {"td"}, write |-> {}]
        [] ~t -> [create |-> FALSE, rd |-> {"md"}, write |-> {"td"}]
        [] ~m -> [create |-> FALSE, rd |-> {"td"}, write |-> {"md"}]
        [] t /\ m /\ same -> [create |-> FALSE, rd |-> IF Has("td", "VERSION") THEN {"td"} ELSE {"td", "md"}, write |-> {}]
        [] t /\ m /\ TrustMirror(n, chip) -> [create |-> FALSE, rd |-> {"md"}, write |-> {"td"}]
        [] OTHER -> [create |-> FALSE, rd |-> {"td"}, write |-> {"md"}]

\* Both get the larger number.
Settle(n, chip) ==
  LET v == n.version["td"][chip]
      w == n.version["md"][chip]
  IN  IF "md" \notin DOMAIN Descr THEN n
      ELSE [n EXCEPT !.version["td"][chip] = IF v > w THEN v ELSE w, !.version["md"][chip] = IF v > w THEN v ELSE w]

\* A copy with an ECC error does not exist.
Forget(n, d, chip) == [n EXCEPT !.pages[d][chip] = -1, !.version[d][chip] = 0]

check_create(n, chip) ==
  LET c == Choice(n, chip)
      made == [(IF "CREATE_EMPTY" \in BbtOptions THEN n ELSE create_bbt(n, ChipSel(chip)))
                 EXCEPT !.version = [d \in DOMAIN @ |-> [@[d] EXCEPT ![chip] = 1]]]
      ok == [n |-> n, ret |-> "ok"]
  IN  With(IF c.create THEN [n |-> made, ret |-> "ok"]
       ELSE read_abs_bbt(n, IF "td" \in c.rd THEN "td" ELSE "md", chip), LAMBDA r :
  With(IF c.rd = {"td", "md"} /\ r.ret = "ok" THEN read_abs_bbt(r.n, "md", chip) ELSE ok, LAMBDA r2 :
  LET read == IF c.rd = {"td", "md"} THEN r2.n ELSE r.n
  IN  With(write_copies(Settle(read, chip), c.write, chip), LAMBDA both :
  IF chip \notin TableChips("td") THEN ok
  ELSE IF c.create /\ ~Has("td", "CREATE") THEN check_create(n, chip + 1)
  ELSE IF r.ret = "EBADMSG" THEN check_create(Forget(r.n, IF "td" \in c.rd THEN "td" ELSE "md", chip), chip)
  ELSE IF r2.ret = "EBADMSG" THEN check_create(Forget(r2.n, "md", chip), chip)
  ELSE IF both.ret # "ok" THEN both
  ELSE check_create(both.n, chip + 1))))

\* The versions go up and the copies are written one after the other.
nand_update_bbt(n, b) ==
  LET chip == IF PerChip("td") THEN b \div BlocksPerChip ELSE 0
      up == [n EXCEPT !.version = [d \in DOMAIN @ |-> [@[d] EXCEPT ![chip] = (@ + 1) % Versions]]]
  IN  IF n.bbt = NoTable \/ DOMAIN Descr = {} THEN [n |-> n, ret |-> "EINVAL"]
      ELSE write_copies(up, DOMAIN Descr, chip)

Region(d, chip) == {Candidate(d, chip, i) : i \in 0 .. Descr[d].maxblocks - 1}

\* The blocks the copies may be in are reserved.
mark_bbt_region(n, d) ==
  LET step(m, k) ==
        LET blocks == IF Has(d, "WRITE") THEN Region(d, k - 1)
                      ELSE IF m.pages[d][k - 1] = -1 THEN {} ELSE {m.pages[d][k - 1] \div PagesPerBlock}
            t == [m EXCEPT !.bbt = [b \in Blocks |-> IF b \in blocks THEN Or(@[b], 2) ELSE @[b]]]
        IN  IF t # m /\ Descr[d].rcode # 0 THEN nand_update_bbt(t, StartBlock(d, k - 1)).n ELSE t
  IN  Loop(LAMBDA a, k : step(a, k), n, [k \in 1 .. Cardinality(TableChips(d)) |-> k])

nand_scan_bbt(n) ==
  LET zero == [n EXCEPT !.bbt = [b \in Blocks |-> 0]]
  IN  IF DOMAIN Descr = {} THEN nand_memory_bbt(zero)
      ELSE Loop(LAMBDA m, d : mark_bbt_region(m, d), check_create(search_read_bbts(zero), 0).n, Copies)

nand_default_bbt(n) == nand_scan_bbt(n)

\* The first question reads the table, or makes it.
Scanned(n) == IF n.scanned THEN n ELSE nand_default_bbt([n EXCEPT !.scanned = TRUE])
nand_block_checkbad(n, b, getchip, allowbbt) == known_bad(Scanned(n), b, getchip, allowbbt)

-----------------------------------------------------------------------------
(* Erasing and marking                                                     *)

nand_erase_nand(n, first, count, allowbbt, scrub) ==
  With(select_chip(n, first \div BlocksPerChip), LAMBDA m :
  IF nand_check_wp(m) THEN [n |-> nand_release_device(m), ret |-> "EIO"]
  ELSE erase_blocks(IF scrub THEN m ELSE Scanned(m), first, count, allowbbt, scrub))

nand_block_isbad(n, b) == nand_block_checkbad(n, b, TRUE, FALSE)

First(ret, res) == IF ret = "ok" THEN res ELSE ret

\* The block is erased whatever that gives, marked in memory, marked in its
\* out-of-band data, and the copies are brought up to date.  (The table is there: it
\* was asked whether the block is bad.)
nand_default_block_markbad(n, b) ==
  LET oob == "NO_OOB_BBM" \notin BbtOptions
  IN  With(IF oob THEN erase_scanned(n, b, 1, FALSE).n ELSE n, LAMBDA e :
  LET t == IF e.bbt = NoTable THEN e ELSE [e EXCEPT !.bbt[b] = Or(@, 1)]
      ops == [OobOps(0) EXCEPT !.ooblen = 1, !.ooboffs = BadPos]
      mark(a, i) == With(nand_do_write_oob(a.n, (FirstMarked(b) + i - 1) * Steps, ops, <<MarkBad>>), LAMBDA w :
                    [n |-> w.n, ret |-> First(a.ret, w.ret)])
  IN  With(Loop(LAMBDA a, i : mark(a, i), [n |-> t, ret |-> "ok"], IF "SCAN2NDPAGE" \in BbtOptions THEN <<1, 2>> ELSE <<1>>), LAMBDA m :
  LET k == IF oob THEN [m EXCEPT !.n = nand_release_device(@)] ELSE [n |-> t, ret |-> "ok"]
  IN  With(nand_update_bbt(k.n, b), LAMBDA u :
  IF "USE_FLASH" \in BbtOptions THEN [n |-> u.n, ret |-> First(k.ret, u.ret)] ELSE k)))

\* A block that is called bad already is not marked, and that is a success too, also
\* if a call before has marked it in memory and failed to write that down.
nand_block_markbad(n, b) ==
  With(nand_block_isbad(n, b), LAMBDA q :
  IF q.bad THEN [n |-> q.n, ret |-> "ok", marked |-> FALSE]
  ELSE With(nand_default_block_markbad(q.n, b), LAMBDA r :
       [n |-> r.n, ret |-> r.ret, marked |-> r.ret = "ok"]))

-----------------------------------------------------------------------------
(* The device and its user                                                 *)

VARIABLES
  mem,      \* the memory
  want,     \* what the user knows of each unit: what was written last, or Unknown
  bad,      \* the blocks that are bad: from the factory, or marked by a call that did it
  tried,    \* the blocks somebody tried to mark
  out,      \* what the last call returned
  faults, flips, ops
vars == <<board, mem, want, bad, tried, out, faults, flips, ops>>

Unknown == <<-1>>
NoOut == [call |-> "none"]
Reserved == UNION {Region(d, c) : d \in DOMAIN Descr, c \in 0 .. NChips - 1} \cap Blocks

\* The driver after power-up
Boot(cell) ==
  nand_scan_tail(cell) @@
  [bbt |-> NoTable, scanned |-> SkipScan,
   pages |-> [d \in DOMAIN Descr |-> [c \in 0 .. NChips - 1 |-> -1]],
   version |-> [d \in DOMAIN Descr |-> [c \in 0 .. NChips - 1 |-> 0]]]

\* Factory marks are on the pages that are looked at.
MarkedPages(b) ==
  {FirstMarked(b)} \cup (IF "SCAN2NDPAGE" \in BbtOptions THEN {FirstMarked(b) + 1} ELSE {})
Init ==
  /\ board \in Boards
  /\ bad \in FactoryBad
  /\ mem = Boot([p \in Pages |-> IF \E b \in bad : p \in MarkedPages(b)
                                 THEN [ErasedPage EXCEPT ![Steps + BadPos] = MarkBad] ELSE ErasedPage])
  /\ want = [p \in Pages |-> [c \in Cols |-> <<>>]]
  /\ tried = {} /\ out = NoOut
  /\ faults = 0 /\ flips = 0 /\ ops = 0

Fates == {[k |-> 0, kind |-> "ok"]} \cup
         (IF faults < MaxFaults THEN {[k |-> i, kind |-> f] : i \in 1 .. MaxFateAt, f \in Faults} ELSE {})

\* Between calls the registers hold nothing that counts.
Rest(n) ==
  IF n.off THEN Boot(n.cell)
  ELSE [n EXCEPT !.reg = ErasedPage, !.col = 0, !.page = 0, !.oob = ErasedOob, !.fail = FALSE,
                 !.fate = [k |-> 0, kind |-> "ok"],
                 !.databuf = IF n.pagebuf = -1 THEN [i \in Cols |-> FF] ELSE @,
                 !.spoilt = @ /\ n.pagebuf # -1]

\* The call r under a fate: a fault that has not happened is not counted.
Hit(f, r) == f.k > 0 /\ r.n.fate.k <= 0
Begin(f) == [mem EXCEPT !.fate = f]
End(f, r) ==
  /\ f.k = 0 \/ Hit(f, r)
  /\ mem' = Rest(r.n)
  /\ faults' = faults + (IF f.k = 0 THEN 0 ELSE 1)
  /\ ops' = ops + 1
  /\ UNCHANGED <<board, flips>>

UnitsOf(from, len) == from .. from + len - 1
WantAt(u) == want[u \div Steps][u % Steps]
BlockOf(u) == u \div (Steps * PagesPerBlock)
Learn(units, v) == [p \in Pages |-> [c \in Cols |-> IF p * Steps + c \in units THEN v ELSE want[p][c]]]

\* The page that is served from what the first scan left in databuf
SpoiltPage == IF mem.spoilt THEN mem.pagebuf ELSE -1

Read == ops < MaxOps /\ \E f \in Fates, x \in Reads :
  \E r \in {mtd_read(Begin(f), x[1], x[2])} :
  /\ End(f, r)
  /\ out' = IF r.n.off THEN NoOut
            ELSE [call |-> "read", at |-> x, ret |-> r.ret, dat |-> r.dat, spoilt |-> SpoiltPage]
  /\ UNCHANGED <<want, bad, tried>>

\* The user keeps to the blocks that are neither bad nor reserved, and to erased units.
Write == ops < MaxOps /\ \E f \in Fates, x \in Writes, v \in Values :
  LET units == UnitsOf(x[1], x[2])
  IN  (\A u \in units : WantAt(u) = <<>> /\ BlockOf(u) \notin bad \cup tried \cup Reserved) /\
  \E r \in {mtd_write(Begin(f), x[1], [i \in 1 .. x[2] |-> Unit(<<1, v>>)])} :
  /\ End(f, r)
  /\ out' = NoOut
  /\ want' = Learn(units, IF r.ret = "ok" /\ ~r.n.off THEN <<1, v>> ELSE Unknown)
  /\ UNCHANGED <<bad, tried>>

\* A page and its free out-of-band units, then both read back
WriteOob == ops < MaxOps /\ \E f \in Fates, p \in {x[1] \div Steps : x \in Writes}, v \in Values, mode \in OobModes :
  LET units == UnitsOf(p * Steps, Steps)
      oops == [OobOps(Steps) EXCEPT !.mode = mode, !.ooblen = Len(OobFree)]
      us(n) == [i \in 1 .. n |-> Unit(<<1, v>>)]
  IN  (\A u \in units : WantAt(u) = <<>> /\ BlockOf(u) \notin bad \cup tried \cup Reserved) /\
  \E r \in {nand_write_oob(Begin(f), p * Steps, oops, us(Steps), us(Len(OobFree)))} :
  /\ End(f, r)
  /\ out' = NoOut
  /\ want' = Learn(units, IF r.ret = "ok" /\ ~r.n.off THEN <<1, v>> ELSE Unknown)
  /\ UNCHANGED <<bad, tried>>

ReadOob == ops < MaxOps /\ \E f \in Fates, p \in {x[1] \div Steps : x \in Reads}, mode \in OobModes, dat \in BOOLEAN :
  LET oops == [OobOps(IF dat THEN Steps ELSE 0) EXCEPT !.mode = mode, !.ooblen = Len(OobFree)]
  IN  \E r \in {mtd_read_oob(Begin(f), p * Steps, oops)} :
  /\ End(f, r)
  /\ out' = IF r.n.off THEN NoOut
            ELSE [call |-> "read", at |-> <<p * Steps, Len(r.dat)>>, ret |-> r.ret, dat |-> r.dat, spoilt |-> -1]
  /\ UNCHANGED <<want, bad, tried>>

\* Any blocks, bad and reserved ones too: nand_erase_nand has to refuse those.  Who
\* asks for a scrub wants bad blocks erased; the user keeps it off the tables.
Erase == ops < MaxOps /\ \E f \in Fates, x \in Erases, scrub \in BOOLEAN :
  LET blocks == UnitsOf(x[1], x[2])
      units == UNION {UnitsOf(b * PagesPerBlock * Steps, PagesPerBlock * Steps) : b \in blocks}
  IN  (scrub => blocks \cap Reserved = {}) /\
  \E r \in {nand_erase_nand(Begin(f), x[1], x[2], FALSE, scrub)} :
  /\ End(f, r)
  /\ out' = IF scrub THEN [call |-> "scrub", blocks |-> blocks] ELSE NoOut
  /\ want' = Learn(units, IF r.ret = "ok" /\ ~r.n.off THEN <<>> ELSE Unknown)
  /\ bad' = IF scrub THEN bad \ blocks ELSE bad
  /\ tried' = IF scrub THEN tried \cup (bad \cap blocks) ELSE tried

IsBad == ops < MaxOps /\ \E f \in Fates, b \in Marks :
  \E r \in {nand_block_isbad(Begin(f), b)} :
  /\ End(f, r)
  /\ out' = IF r.n.off THEN NoOut ELSE [call |-> "isbad", block |-> b, bad |-> r.bad]
  /\ UNCHANGED <<want, bad, tried>>

\* Also a block somebody tried to mark before
MarkABlock == ops < MaxOps /\ \E f \in Fates, b \in Marks \ (bad \cup Reserved) :
  LET units == UnitsOf(b * PagesPerBlock * Steps, PagesPerBlock * Steps)
  IN  \E r \in {nand_block_markbad(Begin(f), b)} :
  /\ End(f, r)
  /\ out' = [call |-> "mark"]
  /\ want' = Learn(units, Unknown)
  /\ tried' = tried \cup {b}
  /\ bad' = IF r.marked /\ ~r.n.off THEN bad \cup {b} ELSE bad

\* A bit of the data flips.
FlipBit == \E p \in Pages, c \in Cols :
  /\ flips < MaxFlips /\ mem.cell[p][c].v # <<>>
  /\ flips' = flips + 1
  /\ mem' = [mem EXCEPT !.cell[p][c].e = @ + 1]
  /\ out' = NoOut
  /\ UNCHANGED <<board, want, bad, tried, faults, ops>>

PowerCycle ==
  /\ mem' = Boot(mem.cell)
  /\ mem' # mem
  /\ out' = NoOut
  /\ UNCHANGED <<board, want, bad, tried, faults, flips, ops>>

Next == Read \/ Write \/ WriteOob \/ ReadOob \/ Erase \/ IsBad \/ MarkABlock \/ FlipBit \/ PowerCycle
Spec == Init /\ [][Next]_vars

-----------------------------------------------------------------------------
(* Properties                                                              *)

TypeOK ==
  /\ mem.cell \in [Pages -> [0 .. Raw - 1 -> [v : Seq(Int), e : Nat]]]
  /\ mem.pagebuf \in Pages \cup {-1}
  /\ mem.bbt = NoTable \/ mem.bbt \in [Blocks -> 0 .. 3]
  /\ bad \subseteq Blocks /\ tried \subseteq Blocks

\* The page in databuf is the page in the flash: nothing that writes or erases a
\* page leaves its old copy behind.
CacheFresh ==
  mem.pagebuf # -1 /\ ~mem.spoilt /\ mem.pagebuf \div PagesPerBlock \notin Reserved =>
    \A c \in Cols : LET w == want[mem.pagebuf][c] IN w = Unknown \/ mem.databuf[c] = Unit(w)

\* A read that reports success delivers what was written last, unit by unit, from
\* the flash or from the page that nand_do_read_ops keeps in databuf.  An ECC error
\* is reported only if a unit of the pages read is damaged beyond the strength of
\* the code, or was left behind by a call that failed.  And what is kept is never
\* older than the flash.  One page is left out: the one in databuf when the first
\* question for a bad block makes a table in memory only.  That scan uses databuf
\* (nandbbt.cpp:768) and leaves pagebuf, so until another page is kept that page
\* reads as out-of-band data, with success.
ReadsAreRight ==
  /\ CacheFresh
  /\ out.call = "read" /\ out.ret = "ok" =>
       \A i \in 1 .. Len(out.dat) :
         LET u == out.at[1] + i - 1
         IN  u \div Steps = out.spoilt \/ WantAt(u) = Unknown \/ out.dat[i] = Unit(WantAt(u))
  /\ out.call = "read" /\ out.ret = "EBADMSG" =>
       \E u \in UnitsOf(out.at[1], out.at[2]) : \E c \in Cols :
         \/ want[u \div Steps][c] = Unknown
         \/ mem.cell[u \div Steps][c].e > Strength

\* What nand_block_isbad answers for every block
Answers == With(Scanned(mem), LAMBDA n : [b \in Blocks |-> known_bad(n, b, TRUE, FALSE).bad])

\* Where the entry of a block goes when the table is read from the flash
Fold(b) ==
  IF DOMAIN Descr = {} THEN b
  ELSE LET offs == (b \div NumBlocks("td")) * NumBlocks("td") IN EntryBlock("td", offs, b - offs)
Sure(b) == Fold(b) = b

BadStayBad(bads) == \A b \in bad : bads[b] \/ bads[Fold(b)]
GoodStayGood(bads) ==
  LET marked == bad \cup tried
  IN  \A b \in Blocks \ (marked \cup {Fold(c) : c \in marked} \cup Reserved) : ~bads[b]

\* Where both copies are known they are in different blocks.
CopiesApart ==
  DOMAIN Descr = {"td", "md"} =>
    \A c \in 0 .. NChips - 1 : mem.pages["td"][c] = -1 \/ mem.pages["td"][c] # mem.pages["md"][c]

\* Asked at any time, also right after a power failure in the middle of an update of
\* the tables, the driver has the entry of every bad block and of no other: neither a
\* failed update nor a version that wraps loses one, because the copies never share a
\* block.  Without tables in flash, and for the blocks of the first byte of a table,
\* the entry is that of the block.  The entries of the other bytes are read onto the
\* blocks of the first (nandbbt.cpp:176), so after a restart those blocks are called
\* bad in place of the bad ones.  A block counts as bad once a call of
\* nand_block_markbad marked it and succeeded: repeated after a failure, the call
\* succeeds without writing anything (nandcore.cpp:1670).
\* (A user who places out-of-band data himself may write over a marker.)
BadBlocksKnown ==
  "place" \notin OobModes => /\ With(Answers, LAMBDA bads : BadStayBad(bads) /\ GoodStayGood(bads))
                             /\ CopiesApart

\* No erase, marking or update of a table changes a bad block, but for a scrub that
\* was given it, and once the tables have been looked for, only a marking changes a
\* block of theirs: nand_erase_nand asks about every block, however the table came to
\* be in memory, and the updates go around bad blocks.  (Bad blocks behind the first
\* byte of a table in flash are forgotten at a restart and left out.  A write asks
\* nobody; the user keeps those off bad and reserved blocks.)
Changed == {p \div PagesPerBlock : p \in {q \in Pages : mem.cell[q] # mem.cell'[q]}}
Scrubbed == IF out'.call = "scrub" THEN out'.blocks ELSE {}
BadUntouched ==
  [][FlipBit \/ \A b \in Changed :
       /\ b \in bad /\ Sure(b) => b \in Scrubbed
       /\ b \in Reserved => ~mem.scanned \/ out'.call = "mark"]_vars

==============================================================================
