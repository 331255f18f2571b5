------------------------------ MODULE YaffsLog ------------------------------
(***************************************************************************)
(* The log of yaffs (fs/yaffs2/_private/yaffs_guts.c, yaffs_yaffs2.c,      *)
(* yaffs_nand.c): every write of a file or of an object header goes to the *)
(* next chunk of the block that is being filled, the copy it replaces is   *)
(* only forgotten in RAM, and the garbage collector moves what is left of  *)
(* a block before it erases it.                                            *)
(*                                                                         *)
(* yaffs runs under one lock, so an entry point is one step.  The C        *)
(* functions are operators on d, the struct yaffs_dev together with the    *)
(* flash behind it; a function that returns a value besides yields a       *)
(* record.  d.log lists the flash operations of the step in order, which   *)
(* is what YaffsScan cuts short to model a power failure.                  *)
(*                                                                         *)
(* Data: a chunk holds one unit of file data, so that file sizes are       *)
(* numbers of chunks; chunk id 0 is the object header.  Objects are plain  *)
(* files; directories are in YaffsObjects.  Without checkpoints a device   *)
(* below YAFFS_CHECKPOINT_MIN_BLOCKS reserves no blocks for them.          *)
(***************************************************************************)
EXTENDS Integers, Sequences, FiniteSets, Binding

CONSTANTS
  FirstBlock, LastBlock,  \* internal_start_block (never 0), internal_end_block
  ChunksPerBlock,         \* param.chunks_per_block
  ReservedBlocks,         \* param.n_reserved_blocks
  PassiveCopies,          \* chunks a passive collection copies at most (5)
  PassiveThreshold,       \* YAFFS_GC_PASSIVE_THRESHOLD
  GoodEnough,             \* YAFFS_GC_GOOD_ENOUGH
  SmallHole,              \* YAFFS_SMALL_HOLE_THRESHOLD
  NotDoneLimit,           \* fruitless searches before the oldest dirty block is taken (10)
  RefreshPeriod,          \* param.refresh_period, the least value is MinRefresh (10)
  MinRefresh,
  Devices                 \* the devices and their users, records of the fields below

VARIABLES
  dev,    \* the device at hand, one of Devices; it never changes
  d,      \* struct yaffs_dev and the flash
  want    \* what the caller has written: a sequence of data, or <<-1>> for no file

IsYaffs2 == dev.isYaffs2      \* param.is_yaffs2
Objs == dev.objs              \* object ids
MaxSize == dev.maxSize        \* bound: largest file, in chunks
Data == dev.data              \* values of a chunk's data; 0 is all zeroes
MaxSeq == dev.maxSeq          \* bound: sequence numbers
MaxWear == dev.maxWear        \* bound: chunks and blocks that wear out
MaxCrashes == dev.maxCrashes  \* bound: power failures in the middle of a call

ASSUME LogAssumption ==
  /\ FirstBlock \in Nat \ {0} /\ LastBlock \in Nat
  /\ ChunksPerBlock \in Nat \ {0}
  /\ FirstBlock + ReservedBlocks + 2 <= LastBlock
  /\ \A v \in Devices : v.isYaffs2 \in BOOLEAN /\ 0 \in v.data

Blocks == FirstBlock .. LastBlock
Pages == 0 .. ChunksPerBlock - 1
Chunks == FirstBlock * ChunksPerBlock .. (LastBlock + 1) * ChunksPerBlock - 1
ChunkIds == 1 .. MaxSize
BlockOf(c) == c \div ChunksPerBlock
PageOf(c) == c % ChunksPerBlock
NoFile == <<-1>>

\* What a chunk of flash holds: nothing, a page beyond repair by the ECC (of its
\* tags perhaps the sequence number can be read), or data with tags.
Erased == [kind |-> "erased"]
Torn(seq) == [kind |-> "torn", seq |-> seq]
DataTags(o, cid, v) == [kind |-> "data", obj |-> o, cid |-> cid, val |-> v, seq |-> 0]
HdrTags(o, parent, size, shrink) ==
  [kind |-> "hdr", obj |-> o, cid |-> 0, parent |-> parent, size |-> size,
   shrink |-> shrink, seq |-> 0]
Programmed(t) == t.kind \in {"data", "hdr"}

\* struct yaffs_block_info, with the block's chunk bits
BlockInfo(state) ==
  [state |-> state, pages |-> 0, soft |-> 0, seq |-> 0, gcp |-> FALSE, strikes |-> 0,
   retire |-> FALSE, skip |-> FALSE, shrink |-> FALSE, bits |-> {}]

\* struct yaffs_obj of a file; shrinkSize and valid only matter in a scan.
NewObj ==
  [exists |-> TRUE, parent |-> "dir", hdr |-> 0, top |-> [i \in ChunkIds |-> 0],
   nData |-> 0, size |-> 0, stored |-> 0, soft |-> FALSE, deleted |-> FALSE,
   valid |-> FALSE, shrinkSize |-> MaxSize + 1]
NoObj == [NewObj EXCEPT !.exists = FALSE]

\* yaffs_guts_initialise and yaffs_init_blocks before anything is known of the flash
BlankDev ==
  [nand |-> [c \in Chunks |-> Erased], bad |-> {}, weakPage |-> {}, weakBlock |-> {}, log |-> <<>>,
   blk |-> [b \in Blocks |-> BlockInfo("EMPTY")], nErased |-> 0, nFree |-> 0,
   allocBlock |-> -1, allocPage |-> 0, allocFinder |-> 0, seq |-> 1,
   gcBlock |-> 0, gcChunk |-> 0, gcDirtiest |-> 0, gcPages |-> 0, gcFinder |-> 0,
   gcNotDone |-> 0, gcSkip |-> 0, refreshSkip |-> 0, prio |-> TRUE, oldestSeq |-> 0, oldestBlock |-> 0,
   cleanups |-> <<>>, obj |-> [o \in Objs |-> NoObj]]

-----------------------------------------------------------------------------
(* The flash (external) and yaffs_nand.c.  A worn page fails to program, a *)
(* worn block fails to erase, a page that is programmed twice is corrupt.  *)

Program(x, c, t) ==
  LET ok == c \notin x.weakPage /\ x.nand[c] = Erased
  IN  [x EXCEPT !.nand[c] = IF ok THEN t ELSE Torn(t.seq),
                !.log = Append(@, [op |-> "program", at |-> c, tags |-> t])]

EraseNand(x, b) ==
  [x EXCEPT !.nand = [c \in Chunks |->
       IF BlockOf(c) # b THEN x.nand[c] ELSE IF b \in x.weakBlock THEN Torn(0) ELSE Erased],
            !.log = Append(@, [op |-> "erase", at |-> b])]

MarkBad(x, b) ==
  [x EXCEPT !.bad = @ \cup {b}, !.log = Append(@, [op |-> "bad", at |-> b])]

\* yaffs_wr_chunk_tags_nand: the tags get the device's sequence number.
WrChunkTags(x, c, t) == Program(x, c, [t EXCEPT !.seq = x.seq])

-----------------------------------------------------------------------------
(* Which block is the oldest that has something to collect                 *)

Dirty(x, b) ==
  /\ x.blk[b].state = "FULL"
  /\ x.blk[b].pages - x.blk[b].soft < ChunksPerBlock

CalcOldestDirtySeq(x) ==
  LET c == {b \in Blocks : Dirty(x, b) /\ x.blk[b].seq < x.seq + 1}
  IN  IF c = {} THEN x
      ELSE LET b == CHOOSE b \in c : \A e \in c : x.blk[b].seq <= x.blk[e].seq
           IN  [x EXCEPT !.oldestSeq = x.blk[b].seq, !.oldestBlock = b]

FindOldestDirtySeq(x) ==
  IF IsYaffs2 /\ x.oldestSeq = 0 THEN CalcOldestDirtySeq(x) ELSE x

ClearOldestDirtySeq(x, b) ==
  IF IsYaffs2 /\ x.blk[b].seq = x.oldestSeq
    THEN [x EXCEPT !.oldestSeq = 0, !.oldestBlock = 0] ELSE x

UpdateOldestDirtySeq(x, b) ==
  IF IsYaffs2 /\ x.oldestSeq # 0 /\ x.oldestSeq > x.blk[b].seq
    THEN [x EXCEPT !.oldestSeq = x.blk[b].seq, !.oldestBlock = b] ELSE x

\* Mutant: a block with a shrink header may be collected at any time.
OkForGcAlways(x, b) == [d |-> x, ok |-> TRUE]

\* yaffs_block_ok_for_gc
OkForGc(x, b) ==
  IF ~IsYaffs2 \/ ~x.blk[b].shrink THEN [d |-> x, ok |-> TRUE]
  ELSE LET y == FindOldestDirtySeq(x) IN [d |-> y, ok |-> x.blk[b].seq <= y.oldestSeq]

-----------------------------------------------------------------------------
(* Blocks and chunks                                                       *)

\* yaffs_handle_chunk_error
HandleChunkError(x, b) ==
  IF x.blk[b].gcp THEN x
  ELSE [x EXCEPT !.blk[b].gcp = TRUE, !.prio = TRUE, !.blk[b].strikes = @ + 1,
                 !.blk[b].retire = @ \/ x.blk[b].strikes + 1 > 3]

\* yaffs_retire_block; marking the block bad succeeds
RetireBlock(x, b) ==
  [MarkBad(ClearOldestDirtySeq(x, b), b)
     EXCEPT !.blk[b].state = "DEAD", !.blk[b].gcp = FALSE, !.blk[b].retire = FALSE]

\* Mutant: the block that could not be erased still counts as free space.
LoseBlockFree(x) == x
LoseBlock(x) == [x EXCEPT !.nFree = @ - ChunksPerBlock]

\* yaffs_block_became_dirty: erase the block, or retire it
BlockBecameDirty(x, b) ==
  LET y == [ClearOldestDirtySeq(x, b)
              EXCEPT !.gcBlock = IF @ = b THEN 0 ELSE @,
                     !.gcDirtiest = IF @ = b THEN 0 ELSE @,
                     !.gcPages = IF x.gcDirtiest = b THEN 0 ELSE @]
  IN  With(IF x.blk[b].retire THEN y ELSE EraseNand(y, b), LAMBDA z :
  IF x.blk[b].retire \/ b \in x.weakBlock
    THEN RetireBlock(LoseBlock(z), b)
    ELSE [z EXCEPT !.nErased = @ + 1,
                   !.blk[b] = [BlockInfo("EMPTY") EXCEPT !.skip = TRUE, !.strikes = x.blk[b].strikes]])

\* yaffs_bitmap.c, with the pages_in_use that is counted along
SetChunkBit(x, b, p) == [x EXCEPT !.blk[b].pages = @ + 1, !.blk[b].bits = @ \cup {p}]
ClearChunkBit(x, b, p) == [x EXCEPT !.blk[b].pages = @ - 1, !.blk[b].bits = @ \ {p}]
CheckChunkBit(x, b, p) == p \in x.blk[b].bits
StillSomeChunks(x, b) == x.blk[b].bits # {}

NothingLeft(x, b) ==
  x.blk[b].pages = 0 /\ ~x.blk[b].shrink /\ x.blk[b].state \in {"FULL", "COLLECTING"}

\* yaffs_chunk_del.  The deletion mark that yaffs1 writes into the tags
\* (yaffs_guts.c:2641-2647) is left out: only a mount would read it, and YaffsScan
\* mounts yaffs2 devices.
ChunkDel(x, c) ==
  LET b == BlockOf(c)
      y == UpdateOldestDirtySeq(x, b)
      z == [ClearChunkBit(y, b, PageOf(c)) EXCEPT !.nFree = @ + 1]
  IN  IF c <= 0 THEN x
      ELSE IF y.blk[b].state \notin {"ALLOCATING", "FULL", "NEEDS_SCAN", "COLLECTING"} THEN y
      ELSE IF NothingLeft(z, b) THEN BlockBecameDirty(z, b) ELSE z

\* yaffs_check_alloc_available
CheckAllocAvailable(x, n) == x.nFree > ReservedBlocks * ChunksPerBlock + n

\* yaffs_find_alloc_block: the next empty block after the last one found, round
\* and round; -1 when there is none.
FindAllocBlock(x) ==
  LET n == LastBlock - FirstBlock + 1
      nth(i) == IF x.allocFinder + i \in Blocks THEN x.allocFinder + i
                ELSE FirstBlock + (IF x.allocFinder \in Blocks
                                     THEN (x.allocFinder - FirstBlock + i) % n
                                     ELSE (i - 1) % n)
      empty == {i \in 1 .. n : x.blk[nth(i)].state = "EMPTY"}
      b == nth(CHOOSE i \in empty : \A j \in empty : i <= j)
  IN  IF x.nErased < 1 \/ empty = {} THEN [x EXCEPT !.allocBlock = -1, !.allocPage = 0]
      ELSE [x EXCEPT !.allocFinder = b, !.allocBlock = b, !.allocPage = 0, !.seq = @ + 1,
                     !.nErased = @ - 1,
                     !.blk[b].state = "ALLOCATING", !.blk[b].seq = x.seq + 1]

BlockFull(page) == page + 1 >= ChunksPerBlock

\* yaffs_alloc_chunk
AllocChunk(x, useReserve) ==
  With(IF x.allocBlock < 0 THEN FindAllocBlock(x) ELSE x, LAMBDA y :
  LET b == y.allocBlock
      full == BlockFull(y.allocPage)
  IN  IF (~useReserve /\ ~CheckAllocAvailable(y, 1)) \/ b < 0 THEN [d |-> y, chunk |-> -1]
      ELSE [chunk |-> b * ChunksPerBlock + y.allocPage,
            d |-> [SetChunkBit(y, b, y.allocPage)
                     EXCEPT !.allocPage = @ + 1, !.nFree = @ - 1,
                            !.blk[b].state = IF full THEN "FULL" ELSE @,
                            !.allocBlock = IF full THEN -1 ELSE @]])

\* yaffs_skip_rest_of_block
SkipRestOfBlock(x) ==
  LET b == x.allocBlock
  IN  IF b > 0 /\ x.blk[b].state = "ALLOCATING"
        THEN [x EXCEPT !.blk[b].state = "FULL", !.allocBlock = -1] ELSE x

\* yaffs_handle_chunk_wr_error
HandleChunkWrError(x, c, erasedOk) ==
  LET b == BlockOf(c)
      y == HandleChunkError(x, b)
      z == IF erasedOk THEN [y EXCEPT !.blk[b].retire = TRUE] ELSE y
  IN  SkipRestOfBlock(ChunkDel(z, c))

\* yaffs_write_new_chunk.  yaffs_wr_attempts is 0: it tries until it has written
\* or there are no more chunks.  A block is checked (is the chunk erased, does it
\* read back) until the first chunk in it has been written.
RECURSIVE WriteNewChunk(_, _, _)
WriteNewChunk(x, t, useReserve) ==
  With(AllocChunk(x, useReserve), LAMBDA a :
  LET c == a.chunk
      b == BlockOf(c)
      checked == ~a.d.blk[b].skip
      y == WrChunkTags(a.d, c, t)
  IN  IF c < 0 THEN a
      ELSE IF checked /\ a.d.nand[c] # Erased
        THEN WriteNewChunk(SkipRestOfBlock(ChunkDel(a.d, c)), t, useReserve)
      ELSE IF c \in x.weakPage
        THEN WriteNewChunk(HandleChunkWrError(y, c, checked), t, useReserve)
      ELSE [d |-> [y EXCEPT !.blk[b].skip = TRUE], chunk |-> c])

-----------------------------------------------------------------------------
(* Files: the tnode tree is the function top (see YaffsTnodes)             *)

\* yaffs_put_chunk_in_file(in, inode_chunk, nand_chunk, 0)
PutChunkInFile(x, o, cid, c) ==
  [x EXCEPT !.obj[o].top[cid] = c,
            !.obj[o].nData = IF x.obj[o].top[cid] = 0 THEN @ + 1 ELSE @]

\* The header a collection writes: no longer a shrink header, with the stored size.
GcHeader(x, t) == [t EXCEPT !.shrink = FALSE, !.size = x.obj[t.obj].stored]

\* A chunk of a soft deleted file is dropped; chunk_del then counts it as free.
SoftDropped(x, b, o) ==
  [x EXCEPT !.nFree = @ - 1, !.blk[b].soft = @ - 1, !.obj[o].nData = @ - 1,
            !.cleanups = IF x.obj[o].nData - 1 <= 0 THEN Append(@, o) ELSE @]

\* yaffs_gc_process_chunk: move chunk c, or drop it if its file was soft deleted
GcProcessChunk(x, c) ==
  LET t == x.nand[c]
      o == t.obj
      b == BlockOf(c)
      ob == x.obj[o]
  IN  With(WriteNewChunk(x, IF t.cid = 0 THEN GcHeader(x, t) ELSE t, TRUE), LAMBDA w :
  LET moved == IF t.cid = 0 THEN [w.d EXCEPT !.obj[o].hdr = w.chunk]
               ELSE PutChunkInFile(w.d, o, t.cid, w.chunk)
  IN  IF ~(Programmed(t) /\ ob.exists) THEN [d |-> ChunkDel(x, c), ok |-> TRUE]
      ELSE IF ob.deleted /\ ob.soft /\ t.cid # 0 THEN [d |-> ChunkDel(SoftDropped(x, b, o), c), ok |-> TRUE]
      ELSE IF w.chunk < 0 THEN [d |-> w.d, ok |-> FALSE]
      ELSE [d |-> ChunkDel(moved, c), ok |-> TRUE])

\* the copying loop of yaffs_gc_block
RECURSIVE GcLoop(_, _, _)
GcLoop(x, b, copies) ==
  With(GcProcessChunk(x, b * ChunksPerBlock + x.gcChunk), LAMBDA g :
  LET next(y) == [y EXCEPT !.gcChunk = @ + 1]
  IN  IF x.gcChunk >= ChunksPerBlock \/ x.blk[b].state # "COLLECTING" \/ copies = 0 THEN x
      ELSE IF ~CheckChunkBit(x, b, x.gcChunk) THEN GcLoop(next(x), b, copies)
      ELSE IF g.ok THEN GcLoop(next(g.d), b, copies - 1)
      ELSE next(g.d))

-----------------------------------------------------------------------------
(* Choosing a block to collect                                             *)

\* the loop over the prioritised blocks in yaffs_find_gc_block
RECURSIVE FindPrioritised(_, _)
FindPrioritised(x, b) ==
  IF b > LastBlock THEN [d |-> x, sel |-> 0]
  ELSE IF x.blk[b].gcp /\ x.blk[b].state = "FULL"
    THEN With(OkForGc(x, b), LAMBDA k :
         IF k.ok THEN [d |-> k.d, sel |-> b] ELSE FindPrioritised(k.d, b + 1))
  ELSE FindPrioritised(x, b + 1)

\* the loop that looks for the dirtiest block, n steps of gc_block_finder
RECURSIVE FindDirtiest(_, _)
FindDirtiest(x, n) ==
  LET b == IF x.gcFinder + 1 \in Blocks THEN x.gcFinder + 1 ELSE FirstBlock
      used == x.blk[b].pages - x.blk[b].soft
      y == [x EXCEPT !.gcFinder = b]
      better == /\ Dirty(x, b)
                /\ x.gcDirtiest < 1 \/ used < x.gcPages
  IN  With(OkForGc(y, b), LAMBDA k :
  IF n = 0 \/ ~(x.gcDirtiest < 1 \/ x.gcPages > GoodEnough) THEN x
  ELSE IF better /\ k.ok
    THEN FindDirtiest([k.d EXCEPT !.gcDirtiest = b, !.gcPages = used], n - 1)
  ELSE FindDirtiest(IF better THEN k.d ELSE y, n - 1))

\* Bound: gc_not_done is only compared with numbers up to these.
NotDoneCap == 2 * NotDoneLimit + ChunksPerBlock

\* yaffs_find_gc_block; the threshold grows with the searches that found nothing
FindGcBlock(x, aggressive, background) ==
  LET n == LastBlock - FirstBlock + 1
      atLeast(a, b) == IF a < b THEN b ELSE a
      atMost(a, b) == IF a > b THEN b ELSE a
  IN  With(IF x.prio /\ ~aggressive THEN FindPrioritised([x EXCEPT !.gcDirtiest = 0], FirstBlock)
       ELSE [d |-> x, sel |-> 0], LAMBDA p :
  LET exist == \E b \in Blocks : x.blk[b].gcp
      sel1 == IF x.prio /\ ~aggressive /\ exist /\ p.sel = 0 /\ p.d.oldestBlock > 0
                THEN p.d.oldestBlock ELSE p.sel
      y == IF x.prio /\ ~aggressive /\ ~exist THEN [p.d EXCEPT !.prio = FALSE] ELSE p.d
      maxTh == atLeast(IF background THEN ChunksPerBlock \div 2 ELSE ChunksPerBlock \div 8,
                       PassiveThreshold)
      th == IF aggressive THEN ChunksPerBlock
            ELSE atMost(atLeast(IF background THEN (x.gcNotDone + 2) * 2 ELSE 0, PassiveThreshold), maxTh)
  IN  With(IF sel1 # 0 THEN y
       ELSE FindDirtiest(y, IF aggressive THEN n ELSE atMost(n \div 16 + 1, 100)), LAMBDA z :
  LET sel2 == IF sel1 # 0 THEN sel1
              ELSE IF z.gcDirtiest > 0 /\ z.gcPages <= th THEN z.gcDirtiest ELSE 0
      desperate == /\ sel2 = 0 /\ IsYaffs2
                   /\ z.gcNotDone >= (IF background THEN NotDoneLimit ELSE 2 * NotDoneLimit)
  IN  With(IF desperate THEN FindOldestDirtySeq(z) ELSE z, LAMBDA u :
  LET sel3 == IF desperate THEN u.oldestBlock ELSE sel2
  IN  [sel |-> sel3,
       d |-> IF sel3 # 0
               THEN [u EXCEPT !.gcDirtiest = 0, !.gcPages = 0, !.gcNotDone = 0,
                                !.refreshSkip = IF @ > 0 THEN @ - 1 ELSE @]
               ELSE [u EXCEPT !.gcNotDone = IF desperate THEN 1 ELSE atMost(@ + 1, NotDoneCap)]])))

\* yaffs2_find_refresh_block: from time to time the oldest full block is moved
FindRefreshBlock(x) ==
  LET skip == IF x.refreshSkip > RefreshPeriod THEN RefreshPeriod ELSE x.refreshSkip
      full == {b \in Blocks : x.blk[b].state = "FULL"}
  IN  IF ~IsYaffs2 \/ RefreshPeriod < MinRefresh THEN [d |-> x, sel |-> 0]
      ELSE IF skip > 0 THEN [d |-> [x EXCEPT !.refreshSkip = skip], sel |-> 0]
      ELSE [d |-> [x EXCEPT !.refreshSkip = RefreshPeriod],
            sel |-> IF full = {} THEN 0
                    ELSE CHOOSE b \in full : \A e \in full : x.blk[b].seq <= x.blk[e].seq]

-----------------------------------------------------------------------------
(* Writing and deleting                                                    *)

HeaderMayUseReserve(hdr) == hdr > 0

\* yaffs_update_oh for a file, after the collection that may run first: a new
\* header replaces the old one; without a chunk for it the old header stays.
WriteOh(x, o, shrink) ==
  LET ob == x.obj[o]
      size == IF ob.parent = "dir" THEN ob.stored ELSE 0
  IN  With(WriteNewChunk(x, HdrTags(o, ob.parent, size, shrink), HeaderMayUseReserve(ob.hdr)), LAMBDA w :
  With(ChunkDel([w.d EXCEPT !.obj[o].hdr = w.chunk], ob.hdr), LAMBDA y :
  IF w.chunk < 0 THEN [d |-> w.d, ok |-> FALSE]
  ELSE [ok |-> TRUE,
        d |-> IF shrink THEN [y EXCEPT !.blk[BlockOf(w.chunk)].shrink = TRUE] ELSE y]))

\* the end of yaffs_generic_obj_del
FinalDelete(x, o) == [ChunkDel(x, x.obj[o].hdr) EXCEPT !.obj[o] = NoObj]

\* The clean-up list at the end of yaffs_gc_block: soft deleted files without chunks.
RECURSIVE DeleteAll(_, _)
DeleteAll(x, os) ==
  IF os = <<>> THEN x
  ELSE DeleteAll(IF x.obj[os[1]].exists THEN FinalDelete(x, os[1]) ELSE x, Tail(os))

GcBlockDone(x) == [x EXCEPT !.gcBlock = 0, !.gcChunk = 0, !.cleanups = <<>>]

\* yaffs_gc_block
GcBlock(x, b, whole) ==
  LET y == [x EXCEPT !.blk[b].state = IF @ = "FULL" THEN "COLLECTING" ELSE @,
                     !.blk[b].shrink = FALSE]
  IN  With(IF StillSomeChunks(y, b)
         THEN GcLoop(y, b, IF whole THEN ChunksPerBlock ELSE PassiveCopies)
         ELSE BlockBecameDirty(y, b), LAMBDA z :
  IF z.blk[b].state = "COLLECTING" THEN [z EXCEPT !.blk[b].state = "FULL"]
  ELSE GcBlockDone(DeleteAll(z, z.cleanups)))

\* one turn of the loop in yaffs_check_gc: who is collected, if anybody
GcTurn(x, background) ==
  LET aggressive == x.nErased < ReservedBlocks + 1
      erased == x.nErased * ChunksPerBlock
      enough == ~aggressive /\ ~background /\ erased > x.nFree \div 4
      y == [x EXCEPT !.gcSkip = IF @ > 20 THEN 20 ELSE @]
      later == ~aggressive /\ ~(erased < x.nFree \div 2 \/ y.gcSkip < 1 \/ background)
      r == IF aggressive THEN [d |-> [y EXCEPT !.gcSkip = 5], sel |-> 0]
           ELSE FindRefreshBlock([y EXCEPT !.gcSkip = 5])
  IN  With(IF r.sel # 0 THEN r ELSE FindGcBlock(r.d, aggressive, background), LAMBDA f :
  LET z == IF y.gcBlock >= 1 THEN [y EXCEPT !.gcSkip = 5]
           ELSE [f.d EXCEPT !.gcBlock = f.sel, !.gcChunk = 0, !.cleanups = <<>>]
  IN  IF enough THEN [d |-> x, go |-> FALSE]
      ELSE IF later THEN [d |-> [y EXCEPT !.gcSkip = @ - 1], go |-> FALSE]
      ELSE [go |-> TRUE, d |-> IF z.gcBlock > 0 THEN GcBlock(z, z.gcBlock, aggressive) ELSE z])

\* yaffs_check_gc: at most two turns
CheckGc(x, background) ==
  With(GcTurn(x, background), LAMBDA t :
  IF t.go /\ t.d.nErased < ReservedBlocks /\ t.d.gcBlock > 0
    THEN GcTurn(t.d, background).d ELSE t.d)

\* yaffs_update_oh
UpdateOh(x, o, shrink) == WriteOh(CheckGc(x, FALSE), o, shrink)

\* yaffs_generic_obj_del: in yaffs2 a header in the deleted directory tells a
\* scan that the file is gone; it is a shrink header and is not kept alive.
GenericObjDel(x, o) ==
  FinalDelete(IF IsYaffs2 /\ x.obj[o].parent # "DELETED"
                THEN UpdateOh([x EXCEPT !.obj[o].parent = "DELETED"], o, TRUE).d ELSE x, o)

\* Mutant: the old chunk is given up before the new one is written.
WrDataObjDropsFirst(x, o, cid, v) ==
  With(CheckGc(x, FALSE), LAMBDA y :
  With(WriteNewChunk(ChunkDel([y EXCEPT !.obj[o].stored = IF @ < cid THEN cid ELSE @], y.obj[o].top[cid]),
                     DataTags(o, cid, v), FALSE), LAMBDA w :
  IF w.chunk <= 0 THEN [d |-> w.d, ok |-> FALSE]
  ELSE [d |-> PutChunkInFile(w.d, o, cid, w.chunk), ok |-> TRUE]))

\* yaffs_wr_data_obj: the file's stored size grows even if the write then fails.
WrDataObj(x, o, cid, v) ==
  With(CheckGc(x, FALSE), LAMBDA y :
  LET prev == y.obj[o].top[cid]
  IN  With(WriteNewChunk([y EXCEPT !.obj[o].stored = IF @ < cid THEN cid ELSE @],
                     DataTags(o, cid, v), FALSE), LAMBDA w :
  IF w.chunk <= 0 THEN [d |-> w.d, ok |-> FALSE]
  ELSE [d |-> ChunkDel(PutChunkInFile(w.d, o, cid, w.chunk), prev), ok |-> TRUE]))

\* yaffs_do_file_wr of one whole chunk, without the cache
DoFileWr(x, o, cid, v) ==
  With(WrDataObj(x, o, cid, v), LAMBDA w :
  LET end == IF w.ok THEN cid ELSE cid - 1
  IN  [w EXCEPT !.d.obj[o].size = IF @ < end THEN end ELSE @])

\* Mutant: one chunk too few is cut off.
PrunedToEarly(i, newSize) == i <= newSize + 1

PrunedTo(i, newSize) == i <= newSize

\* yaffs_prune_chunks: from the last chunk down to the first one behind newSize
RECURSIVE PruneChunks(_, _, _, _)
PruneChunks(x, o, i, newSize) ==
  LET c == x.obj[o].top[i]
      y == [x EXCEPT !.obj[o].top[i] = 0, !.obj[o].nData = @ - 1]
  IN  IF i = 0 \/ PrunedTo(i, newSize) THEN x
      ELSE PruneChunks(IF c < 1 THEN x ELSE ChunkDel(y, c), o, i - 1, newSize)

\* yaffs_resize_file_down
ResizeFileDown(x, o, newSize) ==
  [PruneChunks(x, o, x.obj[o].size, newSize) EXCEPT !.obj[o].size = newSize, !.obj[o].stored = newSize]

\* the zeroes that yaffs2_handle_hole writes into a small hole
RECURSIVE FillHole(_, _, _, _)
FillHole(x, o, cid, newSize) ==
  With(DoFileWr(x, o, cid, 0), LAMBDA w :
  IF cid > newSize THEN [d |-> x, ok |-> TRUE]
  ELSE IF w.ok THEN FillHole(w.d, o, cid + 1, newSize) ELSE w)

\* yaffs2_handle_hole: fill a small hole with zeroes; before a large one write a
\* shrink header, so that a scan does not take stale chunks for its contents.
HandleHole(x, o, newSize) ==
  LET old == x.obj[o].size
      small == newSize - old < SmallHole /\ CheckAllocAvailable(x, SmallHole + 1)
  IN  With(FillHole(x, o, old + 1, newSize), LAMBDA f :
  With(IF ~small THEN x ELSE IF f.ok THEN f.d ELSE ResizeFileDown(f.d, o, old), LAMBDA y :
  IF ~IsYaffs2 \/ newSize <= old THEN x
  ELSE IF small /\ f.ok THEN f.d
  ELSE IF x.obj[o].parent = "dir" THEN UpdateOh(y, o, TRUE).d ELSE y))

\* yaffs_wr_file of one chunk
WrFile(x, o, cid, v) == DoFileWr(HandleHole(x, o, cid - 1), o, cid, v)

\* yaffs_resize_file
ResizeFile(x, o, newSize) ==
  With(CheckGc(x, FALSE), LAMBDA y :
  With(IF newSize > x.obj[o].size
         THEN [HandleHole(y, o, newSize) EXCEPT !.obj[o].size = newSize]
         ELSE ResizeFileDown(y, o, newSize), LAMBDA z :
  IF newSize = x.obj[o].size THEN y
  ELSE IF z.obj[o].parent = "dir" THEN UpdateOh(z, o, FALSE).d ELSE z))

\* yaffs_soft_del_chunk for every chunk of the file (yaffs_soft_del_worker)
RECURSIVE SoftDelWorker(_, _, _)
SoftDelWorker(x, o, i) ==
  LET c == x.obj[o].top[i]
      b == BlockOf(c)
  IN  IF i = 0 THEN x
      ELSE SoftDelWorker(IF c = 0 THEN x
                         ELSE [UpdateOldestDirtySeq([x EXCEPT !.blk[b].soft = @ + 1, !.nFree = @ + 1], b)
                                 EXCEPT !.obj[o].top[i] = 0], o, i - 1)

\* yaffs_soft_del_file
SoftDelFile(x, o) ==
  IF ~x.obj[o].deleted \/ x.obj[o].soft THEN x
  ELSE IF x.obj[o].nData <= 0 THEN GenericObjDel(x, o)
  ELSE [SoftDelWorker(x, o, MaxSize) EXCEPT !.obj[o].soft = TRUE]

\* yaffs_unlink_file_if_needed for a file nobody has open
UnlinkFileIfNeeded(x, o) ==
  LET y == UpdateOh([x EXCEPT !.obj[o].parent = "DELETED"], o, TRUE)
  IN  With([y.d EXCEPT !.obj[o].deleted = TRUE], LAMBDA z :
  SoftDelFile(IF IsYaffs2 THEN ResizeFile(z, o, 0) ELSE z, o))

\* yaffs_del_file
DelFile(x, o) ==
  With(IF IsYaffs2 THEN ResizeFile(x, o, 0) ELSE x, LAMBDA y :
  IF y.obj[o].nData > 0 THEN UnlinkFileIfNeeded(y, o) ELSE GenericObjDel(y, o))

\* yaffs_create_obj of a file; without room for its header the file is deleted again.
CreateFile(x, o) ==
  With(UpdateOh([x EXCEPT !.obj[o] = [NewObj EXCEPT !.valid = TRUE]], o, FALSE), LAMBDA u :
  IF u.ok THEN u ELSE [u EXCEPT !.d = DelFile(u.d, o)])

-----------------------------------------------------------------------------
(* The entry points                                                        *)

Init ==
  /\ dev \in Devices
  /\ d = [BlankDev EXCEPT !.nErased = LastBlock - FirstBlock + 1,
                          !.nFree = (LastBlock - FirstBlock + 1) * ChunksPerBlock]
  /\ want = [o \in Objs |-> NoFile]

\* A file as the caller reads it (yaffs_rd_data_obj: a missing chunk reads as zeroes).
Content(x, o) ==
  IF ~x.obj[o].exists \/ x.obj[o].deleted THEN NoFile
  ELSE [i \in 1 .. x.obj[o].size |->
          IF x.obj[o].top[i] = 0 THEN 0
          ELSE IF x.nand[x.obj[o].top[i]].kind = "data" THEN x.nand[x.obj[o].top[i]].val ELSE -2]

Resized(f, n) == [i \in 1 .. n |-> IF i <= Len(f) THEN f[i] ELSE 0]
Larger(a, b) == IF a < b THEN b ELSE a

Live(x, o) == x.obj[o].exists /\ ~x.obj[o].deleted

\* The calls a caller can make, and what each does to the device
Calls(x) ==
  {[op |-> "create", obj |-> o] : o \in {o \in Objs : ~x.obj[o].exists}}
  \cup {[op |-> "write", obj |-> o, at |-> i, val |-> v] :
          o \in {o \in Objs : Live(x, o)}, i \in ChunkIds, v \in Data \ {0}}
  \cup {[op |-> "resize", obj |-> o, size |-> n] : o \in {o \in Objs : Live(x, o)}, n \in 0 .. MaxSize}
  \cup {[op |-> c, obj |-> o] : o \in {o \in Objs : Live(x, o)}, c \in {"flush", "delete"}}

Result(x, c) ==
  CASE c.op = "create" -> CreateFile(x, c.obj)
    [] c.op = "write" -> WrFile(x, c.obj, c.at, c.val)
    [] c.op = "resize" -> [d |-> ResizeFile(x, c.obj, c.size), ok |-> TRUE]
    [] c.op = "flush" -> UpdateOh(x, c.obj, FALSE)
    [] c.op = "delete" -> [d |-> DelFile(x, c.obj), ok |-> TRUE]

\* What the caller may then expect of the file.  A write that fails behind the
\* end of the file has extended it all the same.
Expected(f, c, r) ==
  CASE c.op = "create" -> IF r.ok THEN <<>> ELSE NoFile
    [] c.op = "write" /\ r.ok ->
         [Resized(f, Larger(Len(f), c.at)) EXCEPT ![c.at] = c.val]
    [] c.op = "write" /\ ~r.ok -> Resized(f, Larger(Len(f), c.at - 1))
    [] c.op = "resize" -> Resized(f, c.size)
    [] c.op = "flush" -> f
    [] c.op = "delete" -> NoFile

Settled(x) == [x EXCEPT !.log = <<>>]

\* The calls of one kind, and the state each leaves
CallsOf(op) == {c \in Calls(d) : c.op = op /\ d.seq < MaxSeq}
Return(c, r) ==
  /\ d' = Settled(r.d)
  /\ want' = [want EXCEPT ![c.obj] = Expected(want[c.obj], c, r)]
  /\ UNCHANGED dev

Create == \E c \in CallsOf("create") : \E r \in {CreateFile(d, c.obj)} : Return(c, r)
Write == \E c \in CallsOf("write") : \E r \in {WrFile(d, c.obj, c.at, c.val)} : Return(c, r)
Resize == \E c \in CallsOf("resize") : Return(c, [d |-> ResizeFile(d, c.obj, c.size), ok |-> TRUE])
Flush == \E c \in CallsOf("flush") : \E r \in {UpdateOh(d, c.obj, FALSE)} : Return(c, r)
Delete == \E c \in CallsOf("delete") : Return(c, [d |-> DelFile(d, c.obj), ok |-> TRUE])

\* yaffs_bg_gc
BgGc ==
  /\ d.seq < MaxSeq
  /\ d' = Settled(CheckGc(d, TRUE)) /\ d' # d
  /\ UNCHANGED <<dev, want>>

\* The flash wears out.
PageWears ==
  \E c \in Chunks :
    /\ Cardinality(d.weakPage) + Cardinality(d.weakBlock) < MaxWear
    /\ d.nand[c] = Erased
    /\ d' = [d EXCEPT !.weakPage = @ \cup {c}] /\ UNCHANGED <<dev, want>>

BlockWears ==
  \E b \in Blocks :
    /\ Cardinality(d.weakPage) + Cardinality(d.weakBlock) < MaxWear
    /\ d.blk[b].state # "DEAD"
    /\ d' = [d EXCEPT !.weakBlock = @ \cup {b}] /\ UNCHANGED <<dev, want>>

Next == Create \/ Write \/ Resize \/ Flush \/ Delete \/ BgGc \/ PageWears \/ BlockWears

vars == <<dev, d, want>>
Spec == Init /\ [][Next]_vars

-----------------------------------------------------------------------------
(* Properties                                                              *)

States == {"EMPTY", "ALLOCATING", "FULL", "DEAD"}

\* Between calls every block is in a run state and every number in its range.
TypeOK ==
  /\ \A b \in Blocks : /\ d.blk[b].state \in States
                       /\ d.blk[b].bits \subseteq Pages
                       /\ d.blk[b].soft \in 0 .. d.blk[b].pages
  /\ d.allocBlock \in Blocks \cup {-1} /\ d.allocPage \in 0 .. ChunksPerBlock
  /\ d.gcBlock \in Blocks \cup {0} /\ d.gcChunk \in 0 .. ChunksPerBlock
  /\ \A o \in Objs : d.obj[o].hdr \in Chunks \cup {0}

\* yaffs_count_free_chunks
CountFree(x) ==
  LET free == {c \in Chunks : /\ x.blk[BlockOf(c)].state \in {"EMPTY", "ALLOCATING", "COLLECTING", "FULL"}
                              /\ PageOf(c) \notin x.blk[BlockOf(c)].bits}
      soft == {<<b, i>> \in Blocks \X (1 .. ChunksPerBlock) :
                 x.blk[b].state # "DEAD" /\ i <= x.blk[b].soft}
  IN  Cardinality(free) + Cardinality(soft)

\* yaffs_verify_free_chunks, yaffs_verify_blocks and yaffs_verify_blk: the
\* counters are what a count finds.
CountersAreExact ==
  /\ d.nFree = CountFree(d)
  /\ d.nErased = Cardinality({b \in Blocks : d.blk[b].state = "EMPTY"})
  /\ \A b \in Blocks : d.blk[b].pages = Cardinality(d.blk[b].bits)
  /\ \A b \in Blocks : (d.blk[b].state = "ALLOCATING") <=> (b = d.allocBlock)

\* Whatever the collector moved, wherever writes failed and blocks were retired,
\* a file reads back what was last written to it.
FilesReadBack == \A o \in Objs : Content(d, o) = want[o]

\* A chunk is in use exactly if some object needs it.  Soft deleted chunks are counted, not known.
InUse == {c \in Chunks : PageOf(c) \in d.blk[BlockOf(c)].bits}
Needed == UNION {{d.obj[o].hdr} \cup {d.obj[o].top[i] : i \in ChunkIds} : o \in Objs} \ {0}
SoftCount == Cardinality({<<b, i>> \in Blocks \X (1 .. ChunksPerBlock) : i <= d.blk[b].soft})
UseIsNeed ==
  /\ Needed \subseteq InUse
  /\ Cardinality(InUse \ Needed) = SoftCount

\* While no flash has worn out, the reserve is enough: the header of a file that
\* exists can be written however full the device is, so a file can always be
\* deleted or renamed.
HeaderAlwaysFits ==
  (d.weakPage = {} /\ d.weakBlock = {} /\ d.bad = {} /\ d.seq < MaxSeq)
    => \A o \in Objs : Live(d, o) => UpdateOh(d, o, FALSE).ok

\* The accounts of the log: the counters that allocator and collector decide by
\* are exact, nothing leaks, and nothing that is needed can be erased, after any
\* history of failed writes, failed erasures, retired blocks and collections; and
\* the reserve that the counters guard is enough.
SpaceAccounted == TypeOK /\ CountersAreExact /\ UseIsNeed /\ HeaderAlwaysFits
=============================================================================
