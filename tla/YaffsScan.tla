------------------------------ MODULE YaffsScan -----------------------------
(***************************************************************************)
(* Mounting yaffs2 after a power failure (yaffs_yaffs2.c): everything that *)
(* YaffsLog keeps in RAM is rebuilt from the tags on the flash.  The       *)
(* blocks are read from the newest sequence number to the oldest and each  *)
(* from its last chunk to its first, so that the first copy of a chunk     *)
(* that is met is the current one; headers met on the way tell what older  *)
(* chunks still belong to the file.                                        *)
(*                                                                         *)
(* The power may fail after any flash operation of a call, and a page that *)
(* was being programmed at that moment is left torn.                       *)
(***************************************************************************)
EXTENDS YaffsLog

VARIABLES
  crashes,  \* power failures so far
  cut       \* what the last power failure interrupted: the call, old and new contents

svars == <<dev, d, want, crashes, cut>>

None == [op |-> "none"]

-----------------------------------------------------------------------------
(* yaffs2_scan_chunk                                                       *)

\* yaffs_find_or_create_by_number
FindOrCreate(x, o) ==
  IF x.obj[o].exists THEN x ELSE [x EXCEPT !.obj[o] = [NewObj EXCEPT !.parent = "none"]]

\* A chunk that was never programmed: the block is empty, or is the one that was
\* being filled, or was left half full by an earlier failure.
ScanUnused(x, b, p, found) ==
  LET filling == /\ x.blk[b].state \in {"NEEDS_SCAN", "ALLOCATING"}
                 /\ x.seq = x.blk[b].seq
      y == [x EXCEPT !.nFree = @ + 1]
  IN  IF found THEN y
      ELSE IF p = 0 THEN [y EXCEPT !.blk[b].state = "EMPTY", !.nErased = @ + 1]
      ELSE IF filling
        THEN [y EXCEPT !.blk[b].state = "ALLOCATING", !.allocBlock = b, !.allocPage = p, !.allocFinder = b]
      ELSE y

\* yaffs_put_chunk_in_file(..., -1): the copy that is already there is newer.
PutInScan(x, o, cid, c) ==
  IF x.obj[o].top[cid] > 0 THEN ChunkDel(x, c) ELSE PutChunkInFile(x, o, cid, c)

\* A data chunk.  Until the header has been seen the chunks tell the file's size.
ScanData(x, c, t) ==
  LET o == t.obj
      y == FindOrCreate(SetChunkBit(x, BlockOf(c), PageOf(c)), o)
  IN  With(PutInScan(y, o, t.cid, c), LAMBDA z :
  IF t.cid - 1 >= y.obj[o].shrinkSize THEN ChunkDel(y, c)
  ELSE IF ~z.obj[o].valid /\ z.obj[o].stored < t.cid
    THEN [z EXCEPT !.obj[o].stored = t.cid, !.obj[o].size = t.cid]
  ELSE z)

Smaller(a, b) == IF a < b THEN a ELSE b

\* A header older than the one in use: a shrink header, and the header of a
\* deletion, cut off what lies before it in the log.
OldHeader(x, c, t) ==
  LET gone == t.parent = "DELETED"
      shrink == gone \/ t.shrink
      size == IF gone THEN 0 ELSE t.size
      y == [x EXCEPT !.obj[t.obj].shrinkSize = Smaller(@, size),
                     !.blk[BlockOf(c)].shrink = TRUE]
  IN  ChunkDel(IF shrink THEN y ELSE x, c)

\* The newest header of an object.
NewestHeader(x, c, t) ==
  LET ob == x.obj[t.obj]
  IN  [x EXCEPT !.blk[BlockOf(c)].shrink = @ \/ t.shrink,
                !.obj[t.obj] =
                  [ob EXCEPT !.valid = TRUE, !.hdr = c, !.parent = t.parent,
                             !.size = IF ob.stored < t.size THEN t.size ELSE @,
                             !.stored = Larger(@, t.size),
                             !.shrinkSize = Smaller(@, t.size)]]

ScanHeader(x, c, t) ==
  LET y == FindOrCreate(SetChunkBit(x, BlockOf(c), PageOf(c)), t.obj)
  IN  IF y.obj[t.obj].valid THEN OldHeader(y, c, t) ELSE NewestHeader(y, c, t)

BadTags(x, b, t) == t.kind = "torn" \/ t.seq # x.blk[b].seq

IgnoreChunk(x) == [x EXCEPT !.nFree = @ + 1]

\* yaffs_rd_chunk_tags_nand: what cannot be corrected strikes the block.
ReadTags(x, b, t) == IF t.kind = "torn" THEN HandleChunkError(x, b) ELSE x

ScanChunk(x, b, p, found) ==
  LET c == b * ChunksPerBlock + p
      t == x.nand[c]
  IN  CASE t = Erased -> [d |-> ScanUnused(x, b, p, found), found |-> found]
        [] t # Erased /\ BadTags(x, b, t) -> [d |-> IgnoreChunk(ReadTags(x, b, t)), found |-> found]
        [] t.kind = "data" /\ ~BadTags(x, b, t) -> [d |-> ScanData(x, c, t), found |-> TRUE]
        [] t.kind = "hdr" /\ ~BadTags(x, b, t) -> [d |-> ScanHeader(x, c, t), found |-> TRUE]

-----------------------------------------------------------------------------
(* yaffs2_scan_backwards                                                   *)

\* yaffs_tags_marshall_query_block: the first chunk tells for the block.
QueryBlock(x, b) ==
  LET t == x.nand[b * ChunksPerBlock]
  IN  IF b \in x.bad THEN BlockInfo("DEAD")
      ELSE IF t = Erased THEN BlockInfo("EMPTY")
      ELSE [BlockInfo("NEEDS_SCAN") EXCEPT !.seq = t.seq]

RECURSIVE ScanPages(_, _, _, _)
ScanPages(x, b, p, found) ==
  IF p < 0 \/ x.blk[b].state \notin {"NEEDS_SCAN", "ALLOCATING"} THEN x
  ELSE With(ScanChunk(x, b, p, found), LAMBDA r :
       ScanPages(r.d, b, p - 1, r.found))

\* One block: afterwards it is full, and erased at once if nothing in it is needed.
ScanBlock(x, b) ==
  With(ScanPages(x, b, ChunksPerBlock - 1, FALSE), LAMBDA y :
  LET z == [y EXCEPT !.blk[b].state = IF @ = "NEEDS_SCAN" THEN "FULL" ELSE @]
  IN  IF z.blk[b].pages = 0 /\ ~z.blk[b].shrink /\ z.blk[b].state = "FULL"
        THEN BlockBecameDirty(z, b) ELSE z)

RECURSIVE ScanBlocks(_, _)
ScanBlocks(x, bs) ==
  IF bs = {} THEN x
  ELSE LET b == CHOOSE b \in bs : \A e \in bs :
                  \/ x.blk[b].seq > x.blk[e].seq
                  \/ x.blk[b].seq = x.blk[e].seq /\ b >= e
       IN  ScanBlocks(ScanBlock(x, b), bs \ {b})

NewestSeq(x, scan) ==
  IF scan = {} THEN 1
  ELSE CHOOSE n \in {x.blk[b].seq : b \in scan} : \A b \in scan : n >= x.blk[b].seq

ScanBackwards(x) ==
  LET y == [x EXCEPT !.blk = [b \in Blocks |-> QueryBlock(x, b)]]
      scan == {b \in Blocks : y.blk[b].state = "NEEDS_SCAN" /\ y.blk[b].seq > 0}
      empty == {b \in Blocks : y.blk[b].state = "EMPTY"}
      z == [y EXCEPT !.nErased = Cardinality(empty),
                     !.nFree = Cardinality(empty) * ChunksPerBlock,
                     !.seq = NewestSeq(y, scan)]
  IN  SkipRestOfBlock(ScanBlocks(z, scan))

\* yaffs_strip_deleted_objs: what was met in the deleted directory goes for good.
RECURSIVE StripDeletedObjs(_, _)
StripDeletedObjs(x, os) ==
  IF os = {} THEN x
  ELSE LET o == CHOOSE o \in os : TRUE
           gone == x.obj[o].exists /\ x.obj[o].parent = "DELETED"
       IN  StripDeletedObjs(IF gone THEN DelFile(x, o) ELSE x, os \ {o})

\* yaffs_fix_hanging_objs: a file whose header is missing goes to lost+found.
FixHangingObjs(x) ==
  [x EXCEPT !.obj = [o \in Objs |->
     IF x.obj[o].exists /\ x.obj[o].parent = "none"
       THEN [x.obj[o] EXCEPT !.parent = "lost"] ELSE x.obj[o]]]

\* The part of yaffs_guts_initialise that rebuilds the state.
Mount(x) ==
  LET blank == [BlankDev EXCEPT !.nand = x.nand, !.bad = x.bad,
                                !.weakPage = x.weakPage, !.weakBlock = x.weakBlock]
  IN  FixHangingObjs(StripDeletedObjs(ScanBackwards(blank), Objs))

-----------------------------------------------------------------------------
(* Power failures                                                          *)

\* The flash after the first k operations of a log; the k-th is cut short if torn.
RECURSIVE Replay(_, _, _)
Replay(x, log, torn) ==
  IF log = <<>> THEN x
  ELSE LET e == Head(log)
           y == CASE e.op = "program" -> Program(x, e.at, e.tags)
                  [] e.op = "erase" -> EraseNand(x, e.at)
                  [] e.op = "bad" -> MarkBad(x, e.at)
           z == IF Len(log) = 1 /\ torn /\ e.op = "program"
                  THEN [y EXCEPT !.nand[e.at] = Torn(e.tags.seq)] ELSE y
       IN  Replay(z, Tail(log), torn)

\* Sizes differ from what is on the flash after a write that failed and after a
\* file was extended over a large hole: yaffs_update_oh saves stored_size.
SizeKnown(x, o) == x.obj[o].stored = x.obj[o].size

SInit == Init /\ crashes = 0 /\ cut = None

Step == Next /\ cut' = None /\ UNCHANGED crashes

\* The power fails in the middle of a call; the file it was about is afterwards
\* whatever the mount finds.
Crash ==
  /\ crashes < MaxCrashes /\ d.seq < MaxSeq
  /\ \E c \in Calls(d) :
       \E r \in {Result(d, c)} :
       \E k \in 0 .. Len(r.d.log), torn \in BOOLEAN :
         \E after \in {Mount(Replay(d, SubSeq(r.d.log, 1, k), torn))} :
         /\ d' = Settled(after)
         /\ want' = [o \in Objs |->
                       IF o = c.obj THEN Content(after, o)
                       ELSE IF want[o] # NoFile /\ ~SizeKnown(d, o)
                         THEN Resized(want[o], after.obj[o].size) ELSE want[o]]
         /\ cut' = [op |-> c.op, call |-> c, known |-> SizeKnown(d, c.obj), old |-> want[c.obj],
                    new |-> Expected(want[c.obj], c, r), got |-> Content(after, c.obj)]
  /\ crashes' = crashes + 1 /\ UNCHANGED dev

SNext == Step \/ Crash
SSpec == SInit /\ [][SNext]_svars

-----------------------------------------------------------------------------
(* Properties                                                              *)

\* What a mount after a power failure between two calls would find.
ScanFindsFiles(m) == \A o \in Objs : SizeKnown(d, o) => Content(m, o) = want[o]
MountCountsRight(m) ==
  /\ m.nFree = CountFree(m)
  /\ m.nErased = Cardinality({b \in Blocks : m.blk[b].state = "EMPTY"})

\* The allocator fills the newest block.
FillingIsNewest ==
  \A b \in Blocks : d.blk[b].state = "ALLOCATING" =>
     /\ d.blk[b].seq = d.seq
     /\ \A e \in Blocks \ {b} : d.blk[e].seq < d.seq

\* On a device whose power may fail, a mount finds what the RAM held: no old copy
\* of a chunk or header wins over a new one, nothing that was deleted or cut off
\* comes back, the counters are exact, and because the block being filled is the
\* newest, this stays so.
MountFindsAll ==
  MaxCrashes > 0 =>
    /\ FillingIsNewest
    /\ With(Mount(d), LAMBDA m :
       ScanFindsFiles(m) /\ MountCountsRight(m))

CutWriteIsAllOrNothing ==
  cut.op \in {"create", "write", "flush"} /\ cut.known =>
     \/ cut.got \in {cut.old, cut.new}
     \/ cut.op = "write" /\ cut.got = Resized(cut.old, Larger(Len(cut.old), Smaller(Len(cut.got), cut.call.at)))

CutResizeKeepsTheRest ==
  cut.op = "resize" /\ cut.known =>
    /\ cut.got # NoFile
    /\ \A i \in 1 .. Smaller(Len(cut.old), cut.call.size) :
         cut.old[i] = IF i <= Len(cut.got) THEN cut.got[i] ELSE 0

\* A power failure inside a write, a creation or a flush leaves the file as it was
\* or as it was to be; inside a truncation it damages nothing that was to stay
\* (only a hole at the end may be lost with the size that was never saved).
CutsAreClean == CutWriteIsAllOrNothing /\ CutResizeKeepsTheRest
=============================================================================
