---------------------------- MODULE YaffsCheckpt ----------------------------
(***************************************************************************)
(* The checkpoint of yaffs2 (yaffs_checkptrw.c and the checkpt functions   *)
(* of yaffs_yaffs2.c): the state of a mounted device is written as a       *)
(* stream of chunks into erased blocks, and the next mount reads it        *)
(* instead of scanning.  The first change after that erases it.            *)
(*                                                                         *)
(* A record of the stream is two units long, so that a chunk may end in    *)
(* the middle of it; a chunk has a header and PerChunk units.  Flash       *)
(* operations are steps of their own: the power may fail between any two.  *)
(* A failed program leaves a chunk that its ECC cannot correct (its result *)
(* is ignored by the code); a block that cannot be erased is marked bad.   *)
(***************************************************************************)
EXTENDS Integers, Sequences, FiniteSets, SequencesExt, FiniteSetsExt, Bitwise, Binding

CONSTANTS
  NBlocks,    \* blocks 1 .. NBlocks: internal_start_block .. internal_end_block
  MinBlocks,  \* YAFFS_CHECKPOINT_MIN_BLOCKS
  Objs,       \* numbers of the files
  Layouts     \* the devices that are looked at: records with the fields below

VARIABLE layout  \* the device at hand, one of Layouts; it never changes

CPB == layout.cpb            \* chunks per block
PerChunk == layout.perChunk  \* units of the stream in a chunk
Reserved == layout.reserved  \* n_reserved_blocks
Share == layout.share        \* one block in Share may be used, plus 2: 16 in the code
MaxVer == layout.maxVer      \* bound on the number of changes
MaxFaults == layout.maxFaults \* bound on the number of failed programs and erasures

ASSUME CheckptAssumption ==
  /\ NBlocks \in Nat \ {0} /\ MinBlocks \in Nat /\ Objs \subseteq Nat
  /\ \A l \in Layouts : /\ {l.cpb, l.perChunk, l.share} \subseteq Nat \ {0}
                        /\ {l.reserved, l.maxVer, l.maxFaults} \subseteq Nat

VARIABLES
  flash,      \* the blocks: bad, and the chunks
  mounted,
  d,          \* struct yaffs_dev
  op,         \* the operation under way, where it is and what it still writes
  ver,        \* the number of changes made so far
  faults,
  stray       \* a chunk was written to a block that no reader takes for the checkpoint's

vars == <<layout, flash, mounted, d, op, ver, faults, stray>>

Block == 1 .. NBlocks
Page == 0 .. CPB - 1
Kind == {"hdr", "dat"}                \* object header and data chunk of a file
Chunk(b, k) == b * CPB + k
BlockOf(c) == c \div CPB
PageOf(c) == c % CPB

Erased == [t |-> "erased"]
Garbage == [t |-> "garbage"]
Read(c) == flash[BlockOf(c)].chunks[PageOf(c)]
Programmed(c, x) ==
  [flash EXCEPT ![BlockOf(c)].chunks[PageOf(c)] = IF @ = Erased THEN x ELSE Garbage]
ErasedBlock == [bad |-> FALSE, chunks |-> [k \in Page |-> Erased]]

InState(dd, s) == {b \in Block : dd.state[b] = s}

Idle == [pc |-> "idle", todo |-> <<>>, then |-> "idle", obj |-> 0, kind |-> "hdr", last |-> <<>>]

-----------------------------------------------------------------------------
(* yaffs_checkptrw.c, writing                                              *)

space_ok(dd) == dd.nErased - Reserved > 0

find_erased_block(dd) ==
  LET free == {b \in Block : b >= dd.next /\ dd.state[b] = "EMPTY"}
  IN  IF dd.next >= 0 /\ dd.next <= NBlocks /\ space_ok(dd) /\ free # {}
        THEN [dd EXCEPT !.next = Min(free) + 1, !.cur = Min(free)]
        ELSE [dd EXCEPT !.next = -1, !.cur = -1]

init_chunk_hdr(dd) == [dd EXCEPT !.buf = <<>>, !.hdr = <<dd.seq, dd.sum, dd.xor>>]

open_fields(dd) ==
  [dd EXCEPT !.seq = 0, !.sum = 0, !.xor = 0, !.cur = -1, !.page = -1, !.next = 1]

NextTag(dd) == dd.next

Blank == [i |-> <<"zero">>, k |-> 0]
Pad(units) == units \o [j \in 1 .. (PerChunk - Len(units)) |-> Blank]

\* yaffs2_checkpt_flush_buffer: the chunk that is programmed and the device after
flush_target(dd) ==
  IF dd.cur < 0 THEN [find_erased_block(dd) EXCEPT !.page = 0] ELSE dd
flush_chunk(dd) ==
  [t |-> "cp", next |-> NextTag(dd), id |-> dd.seq + 1, hdr |-> dd.hdr,
   units |-> Pad(dd.buf), ecc |-> TRUE]

FirstPage(dd) == dd.page = 0

flush_after(dd) ==
  LET full == dd.page + 1 >= CPB
      used == IF ~FirstPage(dd) THEN dd
              ELSE [dd EXCEPT !.state[dd.cur] = "CHECKPOINT", !.nCp = @ + 1]
  IN  init_chunk_hdr([used EXCEPT !.seq = @ + 1, !.page = IF full THEN 0 ELSE @ + 1,
                                  !.cur = IF full THEN -1 ELSE @])

\* Mutant: the chunks of the checkpoint stay free.
close_counts_Free(dd) == [dd EXCEPT !.nErased = @ - dd.nCp]

\* yaffs_checkpt_close: the blocks of the checkpoint are no longer free
close_counts(dd) == [dd EXCEPT !.nFree = @ - dd.nCp * CPB, !.nErased = @ - dd.nCp]

-----------------------------------------------------------------------------
(* The records of the stream (yaffs2_wr_checkpt_data)                      *)

ObjRecords(dd, o) ==
  IF dd.objs[o]["hdr"] = 0 /\ dd.objs[o]["dat"] = 0 THEN <<>>
  ELSE <<<<"obj", o>>>> \o (IF dd.objs[o]["dat"] = 0 THEN <<>> ELSE <<<<"tnode", o>>>>) \o <<<<"endtnode">>>>
wr_checkpt_objs(dd) ==
  FlattenSeq([j \in 1 .. Cardinality(Objs) |-> ObjRecords(dd, SetToSortSeq(Objs, <)[j])]) \o <<<<"endobj">>>>

wr_checkpt_dev == <<<<"dev">>>> \o [b \in Block |-> <<"blk", b>>] \o <<<<"bits">>>>
Records(dd) ==
  <<<<"head">>>> \o wr_checkpt_dev \o wr_checkpt_objs(dd) \o <<<<"tail">>, <<"sum">>>>

\* What a record holds when it is written, and what it adds to the checksums
dev_to_checkpt_dev(dd) == <<"dev", dd.nErased, dd.nFree, dd.alloc, dd.allocPage>>
obj_checkpt_obj(dd, o) == <<"obj", o, dd.objs[o]["hdr"]>>
Value(dd, r) ==
  CASE r[1] = "dev" -> dev_to_checkpt_dev(dd)
    [] r[1] = "blk" -> <<"blk", dd.state[r[2]]>>
    [] r[1] = "bits" -> <<"bits", dd.used>>
    [] r[1] = "obj" -> obj_checkpt_obj(dd, r[2])
    [] r[1] = "tnode" -> <<"tnode", dd.objs[r[2]]["dat"]>>
    [] r[1] = "sum" -> <<"sum", dd.sum, dd.xor>>
    [] OTHER -> r
StateNo == [EMPTY |-> 1, ALLOCATING |-> 2, FULL |-> 3, CHECKPOINT |-> 4, DEAD |-> 5]
Code(v) ==
  CASE v[1] = "dev" -> v[2] + v[3] + v[4] + v[5] + 2
    [] v[1] = "blk" -> StateNo[v[2]]
    [] v[1] = "bits" -> FoldSet(LAMBDA c, a : a + c, 0, {Chunk(b, k) : b \in Block, k \in Page} \cap
                                  {Chunk(x[1], x[2]) : x \in {y \in Block \X Page : y[2] \in v[2][y[1]]}})
    [] v[1] = "obj" -> v[2] + v[3]
    [] v[1] \in {"tnode", "sum"} -> v[2]
    [] v[1] = "zero" -> 0
    [] OTHER -> 7

\* yaffs2_checkpt_wr of one unit, without the flush
Put(dd, u) ==
  [dd EXCEPT !.buf = Append(@, u), !.sum = @ + Code(u.i) + u.k, !.xor = @ ^^ (Code(u.i) + u.k)]
Full(dd) == Len(dd.buf) >= PerChunk

\* As many units as the chunk has room for, and at least one
RECURSIVE Fill(_, _, _)
Fill(dd, todo, last) ==
  LET r == Head(todo)[1]
      k == Head(todo)[2]
      v == IF k = 1 THEN Value(dd, r) ELSE last
      e == Put(dd, [i |-> v, k |-> k])
  IN  IF Full(e) \/ Len(todo) = 1 THEN [d |-> e, todo |-> Tail(todo), last |-> v, k |-> k]
      ELSE Fill(e, Tail(todo), v)

-----------------------------------------------------------------------------
(* Reading: a cursor over the stream                                       *)

MaxCpBlocks == (NBlocks - 1) \div Share + 2

Tag(b) == flash[b].chunks[0]
find_block(c) ==
  LET found == {b \in Block : b >= c.next /\ Tag(b).t = "cp" /\ ~flash[b].bad}
  IN  IF Len(c.list) < MaxCpBlocks /\ found # {} /\ c.next > 0
        THEN [c EXCEPT !.next = Tag(Min(found)).next, !.cur = Min(found),
                       !.list = Append(@, Min(found)), !.page = 0]
        ELSE [c EXCEPT !.next = -1, !.cur = -1, !.page = 0]

HeaderOK(c, x) == x.id = c.seq + 1 /\ x.ecc /\ x.hdr = <<c.seq, c.sum, c.xor>>

\* The next chunk into the buffer; ok is FALSE where yaffs2_checkpt_rd breaks off
NextChunk(c) ==
  LET f == IF c.cur < 0 THEN find_block(c) ELSE c
      x == IF f.cur < 0 THEN Erased ELSE flash[f.cur].chunks[f.page]
  IN  IF x.t # "cp" THEN [f EXCEPT !.ok = FALSE]
      ELSE IF ~HeaderOK(f, x) THEN [f EXCEPT !.ok = FALSE]
      ELSE [f EXCEPT !.seq = @ + 1, !.page = @ + 1, !.buf = x.units,
                     !.cur = IF f.page + 1 >= CPB THEN -1 ELSE @]

GetUnit(c0) ==
  With(IF c0.buf = <<>> THEN NextChunk(c0) ELSE c0, LAMBDA c :
  LET u == Head(c.buf)
  IN  IF ~c.ok THEN c
      ELSE [c EXCEPT !.got = u.i, !.buf = Tail(@), !.sum = @ + Code(u.i) + u.k,
                     !.xor = @ ^^ (Code(u.i) + u.k)])

\* yaffs2_checkpt_rd of one record
Get(c) == With(GetUnit(c), LAMBDA e :
          IF e.ok THEN GetUnit(e) ELSE e)

\* A record of another kind than the one expected is refused by its struct_type.
Expect(c, kind) ==
  With(Get(c), LAMBDA e :
  IF e.ok /\ e.got[1] # kind THEN [e EXCEPT !.ok = FALSE] ELSE e)

checkpt_dev_to_dev(e) ==
  [e EXCEPT !.dev = [nErased |-> e.got[2], nFree |-> e.got[3], alloc |-> e.got[4], allocPage |-> e.got[5]]]

rd_checkpt_dev(c) ==
  With(Expect(c, "dev"), LAMBDA x :
  LET Blk(e, b) == IF ~e.ok THEN e
                   ELSE With(Expect(e, "blk"), LAMBDA f :
                        IF f.ok THEN [f EXCEPT !.state[b] = f.got[2]] ELSE f)
  IN  With(IF x.ok THEN Loop(Blk, checkpt_dev_to_dev(x), [b \in Block |-> b]) ELSE x, LAMBDA y :
  With(IF y.ok THEN Expect(y, "bits") ELSE y, LAMBDA z :
  IF z.ok THEN [z EXCEPT !.used = z.got[2]] ELSE z)))

RECURSIVE rd_checkpt_tnodes(_, _)
rd_checkpt_tnodes(c, o) ==
  With(Get(c), LAMBDA e :
  IF ~e.ok \/ e.got[1] = "endtnode" THEN e
  ELSE IF e.got[1] # "tnode" THEN [e EXCEPT !.ok = FALSE]
  ELSE rd_checkpt_tnodes([e EXCEPT !.objs[o]["dat"] = e.got[2]], o))

checkpt_obj_to_obj(e) == [e EXCEPT !.objs[e.got[2]]["hdr"] = e.got[3]]

RECURSIVE rd_checkpt_objs(_)
rd_checkpt_objs(c) ==
  With(Get(c), LAMBDA e :
  IF ~e.ok \/ e.got[1] = "endobj" THEN e
  ELSE IF e.got[1] # "obj" THEN [e EXCEPT !.ok = FALSE]
  ELSE With(rd_checkpt_tnodes(checkpt_obj_to_obj(e), e.got[2]), LAMBDA f :
       IF f.ok THEN rd_checkpt_objs(f) ELSE f))

rd_checkpt_sum(c) ==
  With(Expect(c, "sum"), LAMBDA e :
  IF e.ok /\ e.got # <<"sum", c.sum, c.xor>> THEN [e EXCEPT !.ok = FALSE] ELSE e)

NoObjs == [o \in Objs |-> [w \in Kind |-> 0]]
Opened ==
  [ok |-> TRUE, got |-> <<>>, buf |-> <<>>, cur |-> -1, page |-> -1, next |-> 1, seq |-> 0,
   sum |-> 0, xor |-> 0, list |-> <<>>, dev |-> [nErased |-> 0, nFree |-> 0, alloc |-> 0, allocPage |-> 0],
   state |-> [b \in Block |-> "EMPTY"], used |-> [b \in Block |-> {}], objs |-> NoObjs]

Then(c, F(_)) == IF c.ok THEN F(c) ELSE c

\* yaffs2_rd_checkpt_data up to the close
rd_checkpt_data ==
  LET head(c) == Expect(c, "head")
      tail(c) == Expect(c, "tail")
  IN  Then(Then(Then(Then(Then(Opened, head), rd_checkpt_dev), rd_checkpt_objs), tail), rd_checkpt_sum)

close_read(dd) ==
  [dd EXCEPT !.state = [b \in Block |->
     IF dd.state[b] = "EMPTY" /\ b \in ToSet(dd.list) THEN "CHECKPOINT" ELSE dd.state[b]]]

\* yaffs2_checkpt_restore
Restored(c) ==
  close_counts(close_read(
    [state |-> c.state, used |-> c.used, objs |-> c.objs, nErased |-> c.dev.nErased,
     nFree |-> c.dev.nFree, alloc |-> c.dev.alloc, allocPage |-> c.dev.allocPage,
     nCp |-> Len(c.list), isCp |-> TRUE, openWrite |-> FALSE, cur |-> c.cur, page |-> c.page,
     next |-> c.next, seq |-> c.seq, sum |-> c.sum, xor |-> c.xor, buf |-> c.buf,
     hdr |-> <<>>, list |-> c.list]))

-----------------------------------------------------------------------------
(* What a scan finds: the newest copy of every chunk                       *)

Copies(o, w) ==
  {x \in Block \X Page :
     LET y == flash[x[1]].chunks[x[2]]
     IN  ~flash[x[1]].bad /\ y.t = "data" /\ y.obj = o /\ y.kind = w}
Newest(o, w) ==
  IF Copies(o, w) = {} THEN 0
  ELSE LET x == CHOOSE y \in Copies(o, w) : \A z \in Copies(o, w) :
                  flash[y[1]].chunks[y[2]].ver >= flash[z[1]].chunks[z[2]].ver
       IN  Chunk(x[1], x[2])
ScanObjs == [o \in Objs |-> [w \in Kind |-> Newest(o, w)]]
Live == {ScanObjs[o][w] : o \in Objs, w \in Kind} \ {0}
ScanUsed == [b \in Block |-> {k \in Page : Chunk(b, k) \in Live}]
ErasedFrom(b, k) == \A j \in Page : j >= k => flash[b].chunks[j] = Erased
ScanState(b) ==
  IF flash[b].bad THEN "DEAD"
  ELSE IF Tag(b) = Erased THEN "EMPTY"
  ELSE IF Tag(b).t = "cp" THEN "CHECKPOINT"
  ELSE IF ErasedFrom(b, CPB - 1) THEN "ALLOCATING"
  ELSE IF ScanUsed[b] = {} THEN "EMPTY"
  ELSE "FULL"
FreeChunks(state, used) ==
  FoldSet(LAMBDA b, a : a + CPB - Cardinality(used[b]), 0,
          {b \in Block : state[b] \notin {"CHECKPOINT", "DEAD"}})

\* yaffs2_scan_backwards after a checkpoint that could not be read
Scanned ==
  LET state == [b \in Block |-> ScanState(b)]
      open == {b \in Block : state[b] = "ALLOCATING"}
  IN  With(rd_checkpt_data, LAMBDA c :
  [state |-> state, used |-> ScanUsed, objs |-> ScanObjs,
   nErased |-> Cardinality({b \in Block : state[b] = "EMPTY"}),
   nFree |-> FreeChunks(state, ScanUsed),
   alloc |-> IF open = {} THEN 0 ELSE Min(open),
   allocPage |-> IF open = {} THEN 0 ELSE Min({k \in Page : ErasedFrom(Min(open), k)}),
   nCp |-> Cardinality({b \in Block : state[b] = "CHECKPOINT"}), isCp |-> FALSE,
   openWrite |-> FALSE, cur |-> c.cur, page |-> c.page, next |-> c.next, seq |-> c.seq,
   sum |-> c.sum, xor |-> c.xor, buf |-> c.buf, hdr |-> <<>>, list |-> c.list])

-----------------------------------------------------------------------------
NoDev == [off |-> TRUE]

Init ==
  /\ layout \in Layouts
  /\ flash = [b \in Block |-> ErasedBlock]
  /\ mounted = FALSE /\ d = NoDev /\ op = Idle
  /\ ver = 0 /\ faults = 0 /\ stray = FALSE

\* yaffs_guts_initialise
Mount ==
  /\ ~mounted
  /\ mounted' = TRUE
  /\ IF rd_checkpt_data.ok
       THEN d' = Restored(rd_checkpt_data) /\ op' = Idle /\ flash' = flash
       ELSE /\ d' = Scanned
            /\ flash' = [b \in Block |-> IF ScanState(b) = "EMPTY" THEN ErasedBlock ELSE flash[b]]
            /\ op' = [Idle EXCEPT !.pc = IF Scanned.nCp > 0 THEN "erase" ELSE "idle"]
  /\ UNCHANGED <<layout, ver, faults, stray>>

Crash ==
  /\ mounted
  /\ mounted' = FALSE /\ d' = NoDev /\ op' = Idle
  /\ UNCHANGED <<layout, flash, ver, faults, stray>>

\* Mutant: only a checkpoint of this mount is invalidated.
Invalid_Saved(dd) == dd.nCp > 0 /\ dd.openWrite

Invalid(dd) == dd.isCp \/ dd.nCp > 0

\* yaffs2_checkpt_invalidate, then the operation that called it
Invalidate(next) ==
  /\ op' = [next EXCEPT !.pc = IF Invalid(d) THEN "erase" ELSE next.then]
  /\ d' = [d EXCEPT !.isCp = FALSE]

\* One block of yaffs_checkpt_erase
EraseBlock ==
  /\ op.pc = "erase"
  /\ InState(d, "CHECKPOINT") # {}
  /\ LET b == Min(InState(d, "CHECKPOINT"))
     IN  \/ /\ flash' = [flash EXCEPT ![b] = ErasedBlock]
            /\ d' = [d EXCEPT !.state[b] = "EMPTY", !.nErased = @ + 1, !.nFree = @ + CPB]
            /\ UNCHANGED faults
         \/ /\ faults < MaxFaults /\ faults' = faults + 1
            /\ flash' = [flash EXCEPT ![b].bad = TRUE]
            /\ d' = [d EXCEPT !.state[b] = "DEAD"]
  /\ UNCHANGED <<layout, mounted, op, ver, stray>>

EraseDone ==
  /\ op.pc = "erase"
  /\ InState(d, "CHECKPOINT") = {}
  /\ d' = [d EXCEPT !.nCp = 0]
  /\ op' = [op EXCEPT !.pc = op.then]
  /\ UNCHANGED <<layout, flash, mounted, ver, faults, stray>>

-----------------------------------------------------------------------------
(* A change writes a new copy of a chunk, after the checkpoint is gone     *)

Change(o, w) ==
  /\ mounted /\ op.pc = "idle" /\ ver < MaxVer
  /\ d.alloc > 0 \/ (InState(d, "EMPTY") # {} /\ space_ok(d))
  /\ Invalidate([Idle EXCEPT !.then = "program", !.obj = o, !.kind = w])
  /\ UNCHANGED <<layout, flash, mounted, ver, faults, stray>>

\* yaffs_alloc_chunk: a block that is being filled, or else an empty one
Allocated(b) ==
  LET e == IF d.alloc > 0 THEN d
           ELSE [d EXCEPT !.state[b] = "ALLOCATING", !.alloc = b, !.allocPage = 0, !.nErased = @ - 1]
      full == e.allocPage + 1 >= CPB
  IN  [e EXCEPT !.used[b] = @ \cup {e.allocPage}, !.nFree = @ - 1,
                !.allocPage = IF full THEN 0 ELSE @ + 1,
                !.alloc = IF full THEN 0 ELSE @,
                !.state[b] = IF full THEN "FULL" ELSE @]

Program ==
  /\ op.pc = "program"
  /\ \E b \in IF d.alloc > 0 THEN {d.alloc} ELSE InState(d, "EMPTY") :
       LET k == IF d.alloc > 0 THEN d.allocPage ELSE 0
           old == d.objs[op.obj][op.kind]
           e == [Allocated(b) EXCEPT !.objs[op.obj][op.kind] = Chunk(b, k)]
           f == IF old = 0 THEN e
                ELSE [e EXCEPT !.used[BlockOf(old)] = @ \ {PageOf(old)}, !.nFree = @ + 1]
       IN  /\ flash' = Programmed(Chunk(b, k), [t |-> "data", obj |-> op.obj, kind |-> op.kind, ver |-> ver + 1])
           /\ d' = f
           /\ op' = [Idle EXCEPT !.pc = IF \E x \in Block : f.state[x] = "FULL" /\ f.used[x] = {}
                                          THEN "dirty" ELSE "idle"]
  /\ ver' = ver + 1
  /\ UNCHANGED <<layout, mounted, faults, stray>>

\* yaffs_block_became_dirty
EraseDirty ==
  /\ op.pc = "dirty"
  /\ \E b \in Block :
       /\ d.state[b] = "FULL" /\ d.used[b] = {}
       /\ flash' = [flash EXCEPT ![b] = ErasedBlock]
       /\ d' = [d EXCEPT !.state[b] = "EMPTY", !.nErased = @ + 1]
  /\ op' = Idle
  /\ UNCHANGED <<layout, mounted, ver, faults, stray>>

-----------------------------------------------------------------------------
(* yaffs_checkpoint_save, as part of a sync or of an unmount               *)

checkpt_required == NBlocks >= MinBlocks

Leave(w) == IF w = "unmount" THEN mounted' = FALSE ELSE mounted' = TRUE

Save(w) ==
  /\ mounted /\ op.pc = "idle"
  /\ IF d.isCp
       THEN Leave(w) /\ op' = Idle /\ d' = IF w = "unmount" THEN NoDev ELSE d
       ELSE Invalidate([Idle EXCEPT !.then = "open", !.kind = w]) /\ UNCHANGED mounted
  /\ UNCHANGED <<layout, flash, ver, faults, stray>>

Twice(records) == FlattenSeq([j \in DOMAIN records |-> <<<<records[j], 1>>, <<records[j], 2>>>>])

\* yaffs2_checkpt_open for writing
Open ==
  /\ op.pc = "open"
  /\ IF checkpt_required /\ space_ok(d)
       THEN /\ d' = init_chunk_hdr(open_fields([d EXCEPT !.openWrite = TRUE]))
            /\ op' = [op EXCEPT !.pc = "write", !.todo = Twice(Records(d))]
       ELSE /\ d' = [d EXCEPT !.openWrite = IF checkpt_required THEN TRUE ELSE @]
            /\ op' = [op EXCEPT !.pc = "refused"]
  /\ UNCHANGED <<layout, flash, mounted, ver, faults, stray>>

\* The stream ended with a block: the close opens another block for an empty chunk.
Surplus == op.todo = <<>> /\ d.buf = <<>> /\ d.cur = -1

\* The chunk of a flush, with the outcome of the program
Flushed(e) ==
  /\ \/ flash' = Programmed(Chunk(e.cur, e.page), flush_chunk(e)) /\ UNCHANGED faults
     \/ /\ faults < MaxFaults /\ faults' = faults + 1
        /\ flash' = Programmed(Chunk(e.cur, e.page), [flush_chunk(e) EXCEPT !.ecc = FALSE])
  /\ stray' = (stray \/ (d.cur >= 0 /\ d.state[d.cur] # "CHECKPOINT") \/ (op.pc = "write" /\ Surplus))
NotFlushed == UNCHANGED <<flash, faults, stray>>

\* yaffs2_checkpt_wr returns less than it was asked for unless the flush that
\* failed came with its last unit.
Noticed(k) == k = 1

\* Units up to the end of a chunk, and the flush
Write ==
  /\ op.pc = "write" /\ op.todo # <<>>
  /\ LET f == Fill(d, op.todo, op.last)
         e == flush_target(f.d)
         rest == [op EXCEPT !.todo = f.todo, !.last = f.last]
     IN  IF ~Full(f.d) THEN d' = f.d /\ op' = rest /\ NotFlushed
         ELSE IF e.cur < 0
         THEN /\ d' = e /\ NotFlushed
              /\ op' = IF Noticed(f.k) THEN [rest EXCEPT !.pc = "failed"] ELSE rest
         ELSE d' = flush_after(e) /\ op' = rest /\ Flushed(e)
  /\ UNCHANGED <<layout, mounted, ver>>

\* yaffs_checkpt_close after writing, or after an open that was refused
Close ==
  /\ op.pc \in {"failed", "refused"} \/ (op.pc = "write" /\ op.todo = <<>>)
  /\ LET e == flush_target(d)
         done(x) == [close_counts(x) EXCEPT !.isCp = (op.pc = "write")]
         left(x) == IF op.kind = "unmount" THEN NoDev ELSE done(x)
     IN  IF ~d.openWrite THEN d' = left(close_read(d)) /\ NotFlushed
         ELSE IF e.cur < 0 THEN d' = left(e) /\ NotFlushed
         ELSE d' = left(flush_after(e)) /\ Flushed(e)
  /\ Leave(op.kind)
  /\ op' = Idle
  /\ UNCHANGED <<layout, ver>>

Next ==
  \/ Mount \/ Crash \/ EraseBlock \/ EraseDone
  \/ \E o \in Objs, w \in Kind : Change(o, w)
  \/ Program \/ EraseDirty
  \/ \E w \in {"sync", "unmount"} : Save(w)
  \/ Open \/ Write \/ Close

Spec == Init /\ [][Next]_vars

-----------------------------------------------------------------------------
(* Properties                                                              *)

\* The stream was not cut short for want of an erased block, and has no more
\* blocks than the reader accepts.
WholeStream ==
  /\ d.nCp * CPB >= ((2 * Len(Records(d))) \div PerChunk) + 1
  /\ d.nCp <= MaxCpBlocks

\* A checkpoint that can be read describes the flash as it is: wherever the
\* power fails, the next mount restores what a scan would find and never an
\* older state.  And one that was saved whole, with no failed program, can be
\* read.  (Not after a stray chunk: the close of a save whose open was refused
\* flushes the buffer to where the last checkpoint ended, and the close of a
\* stream that ends with a block begins another one.)
CheckpointNeverStale ==
  ~stray =>
    /\ rd_checkpt_data.ok => rd_checkpt_data.objs = ScanObjs /\ rd_checkpt_data.used = ScanUsed
    /\ mounted /\ op.pc = "idle" =>
         (d.isCp /\ faults = 0 /\ WholeStream => rd_checkpt_data.ok)

\* Between operations the tables in memory agree with the flash, whether the
\* device was mounted from a checkpoint or by a scan: what is free is erased,
\* and the counts are those that yaffs_verify_blocks and
\* yaffs_verify_free_chunks compare.
TablesMatchFlash ==
  mounted /\ op.pc = "idle" /\ ~stray =>
    /\ d.objs = ScanObjs /\ d.used = ScanUsed
    /\ \A b \in Block :
         /\ d.state[b] = "EMPTY" => ErasedFrom(b, 0)
         /\ d.state[b] = "ALLOCATING" => d.alloc = b /\ ErasedFrom(b, d.allocPage)
         /\ d.state[b] = "DEAD" <=> flash[b].bad
    /\ d.nErased = Cardinality(InState(d, "EMPTY"))
    /\ d.nCp = Cardinality(InState(d, "CHECKPOINT"))
    /\ d.nFree = FreeChunks(d.state, d.used)
=============================================================================
