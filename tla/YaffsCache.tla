---------------------------- MODULE YaffsCache ----------------------------
(***************************************************************************)
(* Reading and writing the bytes of yaffs files (yaffs_guts.c): the cache  *)
(* of chunks between the calls and the flash, writes that cover a part of  *)
(* a chunk or several chunks, holes, truncation and the flush.             *)
(*                                                                         *)
(* The log below is reduced to what it promises (module YaffsLog): a chunk *)
(* that was written is read back, and a write fails when too few chunks    *)
(* are free.  The calls run one at a time under the lock of yaffsfs.       *)
(***************************************************************************)
EXTENDS Integers, Sequences, FiniteSets, SequencesExt, FiniteSetsExt, Binding

CONSTANT Devices  \* the devices that are looked at: records with the fields below

VARIABLE device   \* the device at hand, one of Devices; it never changes

Files == device.files
NCaches == device.nCaches     \* param.n_caches
CS == device.chunk            \* data_bytes_per_chunk
MaxSize == device.maxSize     \* bound on the bytes of a file
Total == device.total         \* chunks of the device
Reserve == device.reserve     \* reserved chunks, with those for a checkpoint
Threshold == device.threshold \* YAFFS_SMALL_HOLE_THRESHOLD
Bypass == device.bypass       \* param.cache_bypass_aligned
UseLimit == device.useLimit   \* the number of uses after which they are counted from 0
MaxOps == device.maxOps       \* bound on the number of calls that change a file

\* The reserve is at least as large as the cache.  The code does not enforce this
\* (it asks for two reserved blocks), the configuration of the device must.
ASSUME CacheAssumption ==
  \A x \in Devices :
    /\ {x.chunk, x.maxSize, x.threshold, x.useLimit} \subseteq Nat \ {0}
    /\ {x.nCaches, x.total, x.reserve, x.maxOps} \subseteq Nat
    /\ x.bypass \in BOOLEAN
    /\ x.total > x.reserve /\ x.reserve >= x.nCaches
    /\ "none" \notin x.files

VARIABLES
  s,       \* the device: cache, what is stored, the files' fields
  want,    \* the values each byte may have, by the calls so far
  synced,  \* the files nothing was written to since a flush reported success
  wrong,   \* a call has read other bytes than were written
  short,   \* a truncation has left fewer free chunks than the cache needs
  ops

vars == <<device, s, want, synced, wrong, short, ops>>

Slot == 1 .. NCaches
Offset == 0 .. MaxSize - 1
ChunkNo == 1 .. ((MaxSize + CS - 1) \div CS)

Zeros == [i \in 0 .. CS - 1 |-> 0]
Hole == [n |-> 0, data |-> Zeros]             \* a chunk that is not stored
Free == [obj |-> "none", chunk |-> 0, dirty |-> FALSE, n |-> 0, use |-> 0, data |-> Zeros]

chunk_of(addr) == (addr \div CS) + 1
start_of(addr) == addr % CS

-----------------------------------------------------------------------------
(* The log below                                                           *)

check_alloc_available(x, n) == x.free > Reserve + n

rd_data_obj(x, o, c) == x.stored[o][c].data

\* The stored size grows even if the write then fails.
wr_data_obj(x, o, c, data, n, useReserve) ==
  LET end == (c - 1) * CS + n
      y == [x EXCEPT !.size[o].stored = IF @ < end THEN end ELSE @]
  IN  IF ~(IF useReserve THEN x.free > 0 ELSE check_alloc_available(x, 1))
        THEN [x |-> y, ok |-> FALSE]
        ELSE [x |-> [y EXCEPT !.stored[o][c] = [n |-> n, data |-> data],
                              !.free = IF x.stored[o][c] = Hole THEN @ - 1 ELSE @],
              ok |-> TRUE]

-----------------------------------------------------------------------------
(* The cache                                                               *)

obj_cache_dirty(x, o) == \E i \in Slot : x.cache[i].obj = o /\ x.cache[i].dirty

\* The result of the write is not looked at.
flush_single_cache(x, i, discard) ==
  LET k == x.cache[i]
      y == IF k.dirty THEN wr_data_obj(x, k.obj, k.chunk, k.data, k.n, TRUE).x ELSE x
  IN  [y EXCEPT !.cache[i] = IF discard THEN Free ELSE [k EXCEPT !.dirty = FALSE]]

flush_file_cache(x, o, discard) ==
  Loop(LAMBDA y, i : IF y.cache[i].obj = o THEN flush_single_cache(y, i, discard) ELSE y,
           x, [i \in Slot |-> i])

flush_whole_cache(x) ==
  Loop(LAMBDA y, i : IF y.cache[i].obj # "none" THEN flush_file_cache(y, y.cache[i].obj, FALSE) ELSE y,
           x, [i \in Slot |-> i])

\* A slot without an object, or else the one that was not used for longest
Victim(x) ==
  LET free == {i \in Slot : x.cache[i].obj = "none"}
      oldest == {i \in Slot : \A j \in Slot : x.cache[i].use <= x.cache[j].use}
  IN  IF free # {} THEN Min(free) ELSE Min(oldest)

\* Mutant: what the slot held is not written.
grab_chunk_cache_Drop(x) == [x |-> x, i |-> Victim(x)]

grab_chunk_cache(x) ==
  [x |-> IF x.cache[Victim(x)].obj = "none" THEN x ELSE flush_single_cache(x, Victim(x), TRUE),
   i |-> Victim(x)]

\* 0 when the chunk is not in the cache
find_chunk_cache(x, o, c) ==
  LET hits == {i \in Slot : x.cache[i].obj = o /\ x.cache[i].chunk = c}
  IN  IF hits = {} THEN 0 ELSE Min(hits)

\* The count of slot 1 is not taken back with the others.
use_cache(x, i, write) ==
  LET wrap == x.lastUse > UseLimit
      last == IF wrap THEN 1 ELSE x.lastUse + 1
      y == IF wrap THEN [x EXCEPT !.cache = [j \in Slot |-> IF j = 1 THEN @[j] ELSE [@[j] EXCEPT !.use = 0]]]
                   ELSE x
      k == y.cache[i]
  IN  [y EXCEPT !.lastUse = last, !.cache[i] = [k EXCEPT !.use = last, !.dirty = k.dirty \/ write]]

invalidate_chunk_cache(x, o, c) ==
  LET i == find_chunk_cache(x, o, c)
  IN  IF i = 0 THEN x ELSE [x EXCEPT !.cache[i] = Free]

invalidate_whole_cache(x, o) ==
  [x EXCEPT !.cache = [i \in Slot |-> IF @[i].obj = o THEN Free ELSE @[i]]]

\* A slot for a chunk that was not found, with what is stored of it
Load(x, o, c) ==
  LET g == grab_chunk_cache(x)
  IN  [x |-> [g.x EXCEPT !.cache[g.i] = [Free EXCEPT !.obj = o, !.chunk = c, !.data = rd_data_obj(g.x, o, c)]],
       i |-> g.i]

-----------------------------------------------------------------------------
(* Reading                                                                 *)

\* The chunks with the n bytes from offset on, and where in a chunk they begin and end
Chunks(offset, n) ==
  LET first == chunk_of(offset)
  IN  [k \in 1 .. chunk_of(offset + n - 1) - first + 1 |-> first + k - 1]
Begin(offset, c) == Max({offset - (c - 1) * CS, 0})
End(offset, n, c) == Min({offset + n - (c - 1) * CS, CS})

\* A slot with the chunk
Fetch(x, o, c) ==
  LET hit == find_chunk_cache(x, o, c)
  IN  IF hit # 0 THEN [x |-> x, i |-> hit] ELSE Load(x, o, c)

Direct(hit, n) == NCaches = 0 \/ (hit = 0 /\ n = CS)

rd_chunk(x, o, c, copy) ==
  LET k == Fetch(x, o, c)
      used == use_cache(k.x, k.i, FALSE)
  IN  IF Direct(find_chunk_cache(x, o, c), copy) THEN [x |-> x, data |-> rd_data_obj(x, o, c)]
      ELSE [x |-> used, data |-> used.cache[k.i].data]

\* The buffer of the caller is a function of the address in the file.
file_rd(x, o, offset, n) ==
  Loop(LAMBDA r, c :
         With(rd_chunk(r.x, o, c, End(offset, n, c) - Begin(offset, c)), LAMBDA now :
         [x |-> now.x,
          data |-> [i \in offset .. offset + n - 1 |-> IF chunk_of(i) = c THEN now.data[start_of(i)] ELSE r.data[i]]]),
       [x |-> x, data |-> [i \in offset .. offset + n - 1 |-> 0]], Chunks(offset, n))

-----------------------------------------------------------------------------
(* Writing: the value v to the n bytes from offset on                      *)

Filled(data, start, n, v) == [i \in DOMAIN data |-> IF i >= start /\ i < start + n THEN v ELSE data[i]]

\* The length of the chunk: what the file had of it, or up to the end of the write
writeback(x, o, c, start, n) ==
  LET first == (c - 1) * CS
      had == IF first > x.size[o].file THEN 0 ELSE Min({x.size[o].file - first, CS})
  IN  IF start + n < CS THEN Max({had, start + n}) ELSE CS

\* A chunk that is dirty already has its place in the reserve.
NoSpaceFor(x, i) == (IF i = 0 THEN TRUE ELSE ~x.cache[i].dirty) /\ ~check_alloc_available(x, 1)

Change(x, i, data, n) ==
  LET k == x.cache[i]
  IN  [x EXCEPT !.cache[i] = [k EXCEPT !.data = data, !.n = n]]

\* One chunk through the cache
wr_cached(x, o, c, start, copy, n, v, through) ==
  LET k == Fetch(x, o, c)
      used == use_cache(k.x, k.i, TRUE)
  IN  With(Change(used, k.i, Filled(used.cache[k.i].data, start, copy, v), writeback(used, o, c, start, n)), LAMBDA y :
  LET w == wr_data_obj(y, o, c, y.cache[k.i].data, y.cache[k.i].n, TRUE)
  IN  IF NoSpaceFor(x, find_chunk_cache(x, o, c)) THEN [x |-> x, ok |-> FALSE]
      ELSE IF ~through THEN [x |-> y, ok |-> TRUE]
      ELSE [x |-> [w.x EXCEPT !.cache[k.i].dirty = FALSE], ok |-> w.ok])

wr_uncached(x, o, c, start, copy, n, v) ==
  wr_data_obj(x, o, c, Filled(rd_data_obj(x, o, c), start, copy, v), writeback(x, o, c, start, n), FALSE)

\* A whole chunk past the cache; the cached one is dropped even if the write fails.
wr_bypass(x, o, c, v) ==
  LET w == wr_data_obj(x, o, c, [i \in 0 .. CS - 1 |-> v], CS, FALSE)
  IN  [w EXCEPT !.x = invalidate_chunk_cache(w.x, o, c)]

wr_chunk(x, o, c, start, copy, n, v, through) ==
  IF copy = CS /\ Bypass THEN wr_bypass(x, o, c, v)
  ELSE IF NCaches = 0 THEN wr_uncached(x, o, c, start, copy, n, v)
  ELSE wr_cached(x, o, c, start, copy, n, v, through)

wr_chunks(x, o, offset, n, v, through) ==
  Loop(LAMBDA w, c :
         LET start == Begin(offset, c)
             copy == End(offset, n, c) - start
         IN  With(wr_chunk(w.x, o, c, start, copy, n - w.done, v, through), LAMBDA now :
         IF ~w.ok THEN w
         ELSE [x |-> now.x, done |-> IF now.ok THEN w.done + copy ELSE w.done, ok |-> now.ok]),
       [x |-> x, done |-> 0, ok |-> TRUE], Chunks(offset, n))

do_file_wr(x, o, offset, n, v, through) ==
  With(wr_chunks(x, o, offset, n, v, through), LAMBDA w :
  LET y == w.x
  IN  [w EXCEPT !.x = [y EXCEPT !.size[o].file = Max({y.size[o].file, offset + w.done}), !.dirty[o] = TRUE]])

\* Mutant: the file counts as clean whatever its cache holds.
update_oh_Clean(x, o) == [x EXCEPT !.dirty[o] = FALSE]

\* A header that is written again may use the reserve; it fails without any chunk.
update_oh(x, o) ==
  IF x.free = 0 THEN x ELSE [x EXCEPT !.dirty[o] = @ /\ obj_cache_dirty(x, o)]

\* yaffs_prune_chunks
prune_chunks(x, o, newSize) ==
  LET gone == {c \in ChunkNo : (c - 1) * CS >= newSize /\ x.stored[o][c] # Hole}
  IN  [x EXCEPT !.stored[o] = [c \in ChunkNo |-> IF c \in gone THEN Hole ELSE @[c]],
                !.free = @ + Cardinality(gone)]

ZeroTail(data, start) == Filled(data, start, CS - start, 0)

resize_file_down(x, o, newSize) ==
  LET y == prune_chunks(x, o, newSize)
      part == start_of(newSize)
      c == chunk_of(newSize)
      z == IF part = 0 THEN y
           ELSE wr_data_obj(y, o, c, ZeroTail(rd_data_obj(y, o, c), part), part, TRUE).x
  IN  [z EXCEPT !.size[o] = [file |-> newSize, stored |-> newSize]]

\* Zeros, a chunk's length at a time
FillHole(x, o, old, newSize) ==
  Loop(LAMBDA f, pos :
         LET n == Min({newSize - pos, CS})
         IN  With(do_file_wr(f.x, o, pos, n, 0, FALSE), LAMBDA w :
         IF f.ok THEN [x |-> w.x, ok |-> w.done = n] ELSE f),
       [x |-> x, ok |-> TRUE], [k \in 1 .. (newSize - old + CS - 1) \div CS |-> old + (k - 1) * CS])

HoleFits(x) == check_alloc_available(x, Threshold + 1)

SmallHole(x, o, newSize) == newSize - x.size[o].file < Threshold * CS /\ HoleFits(x)

handle_hole(x, o, newSize) ==
  LET old == x.size[o].file
      small == SmallHole(x, o, newSize)
  IN  With(FillHole(x, o, old, newSize), LAMBDA f :
  LET y == IF ~small THEN x ELSE IF f.ok THEN f.x ELSE resize_file_down(f.x, o, old)
  IN  IF newSize <= old THEN x
      ELSE IF small /\ f.ok THEN y ELSE update_oh(y, o))

resize_file(x, o, newSize) ==
  LET y == invalidate_whole_cache(flush_file_cache(x, o, TRUE), o)
      old == x.size[o].file
      z == IF newSize > old THEN [handle_hole(y, o, newSize) EXCEPT !.size[o].file = newSize]
           ELSE resize_file_down(y, o, newSize)
  IN  IF newSize = old THEN y ELSE update_oh(z, o)

flush_file(x, o, datasync, discard) ==
  LET y == flush_file_cache(x, o, discard)
  IN  IF ~x.dirty[o] THEN x ELSE IF datasync THEN y ELSE update_oh(y, o)

\* What yaffs_flush_file, which has turned x into y, returns
FlushSucceeds(x, y, o, datasync) == ~x.dirty[o] \/ datasync \/ y.free > 0

-----------------------------------------------------------------------------
Init ==
  /\ device \in Devices
  /\ s = [cache |-> [i \in Slot |-> Free], lastUse |-> 0, free |-> Total,
          stored |-> [o \in Files |-> [c \in ChunkNo |-> Hole]],
          size |-> [o \in Files |-> [file |-> 0, stored |-> 0]],
          dirty |-> [o \in Files |-> FALSE]]
  /\ want = [o \in Files |-> [i \in Offset |-> {0}]]
  /\ synced = Files /\ wrong = FALSE /\ short = FALSE /\ ops = 0

Read(o) ==
  /\ \E off \in Offset : \E n \in 1 .. s.size[o].file - off :
       \E r \in {file_rd(s, o, off, n)} :
       /\ s' = r.x
       /\ wrong' = (wrong \/ \E i \in off .. off + n - 1 : r.data[i] \notin want[o][i])
  /\ UNCHANGED <<device, want, synced, short, ops>>

\* What the bytes of a write may be afterwards.  The chunk that failed may show
\* the new bytes (written to the cache, not through it), or the stored ones (its
\* cached copy was dropped).
Written(o, off, n, done, v) ==
  LET failed == chunk_of(off + done)
      Maybe(i) == done < n /\ chunk_of(i) = failed
  IN  [i \in Offset |->
         IF i >= off /\ i < off + done THEN {v}
         ELSE want[o][i] \cup (IF Maybe(i) /\ Bypass THEN {s.stored[o][failed].data[start_of(i)]} ELSE {})
                         \cup (IF Maybe(i) /\ i >= off /\ i < off + n THEN {v} ELSE {})]

\* Every call writes another value.
Write(o, through) ==
  /\ ops < MaxOps /\ ops' = ops + 1
  /\ \E off \in Offset : \E n \in 1 .. MaxSize - off :
       LET v == ops + 1
       IN  \E w \in {do_file_wr(handle_hole(s, o, off), o, off, n, v, through)} :
       s' = w.x /\ want' = [want EXCEPT ![o] = Written(o, off, n, w.done, v)]
  /\ synced' = synced \ {o}
  /\ UNCHANGED <<device, wrong, short>>

\* The free chunks are enough for the dirty ones of the cache that have none yet.
Needy(x) == {i \in Slot : x.cache[i].dirty /\ x.stored[x.cache[i].obj][x.cache[i].chunk] = Hole}
Covered(x) == x.free > Cardinality(Needy(x))

Truncate(o) ==
  /\ ops < MaxOps /\ ops' = ops + 1
  /\ \E size \in 0 .. MaxSize :
       /\ s' = resize_file(s, o, size)
       /\ want' = [want EXCEPT ![o] = [i \in Offset |-> IF i < size THEN @[i] ELSE {0}]]
  /\ synced' = synced \ {o}
  /\ short' = (short \/ ~Covered(s'))
  /\ UNCHANGED <<device, wrong>>

\* A change of the attributes or the name
Touch(o) ==
  /\ s' = update_oh(s, o)
  /\ UNCHANGED <<device, want, synced, wrong, short, ops>>

\* fsync, fdatasync and close
Flush(o) ==
  /\ \E datasync, discard \in BOOLEAN :
       /\ s' = flush_file(s, o, datasync, discard)
       /\ synced' = IF FlushSucceeds(s, s', o, datasync) THEN synced \cup {o} ELSE synced
  /\ UNCHANGED <<device, want, wrong, short, ops>>

Sync ==
  /\ s' = flush_whole_cache(s)
  /\ synced' = Files
  /\ UNCHANGED <<device, want, wrong, short, ops>>

Next ==
  \/ \E o \in Files : Read(o) \/ Truncate(o) \/ Touch(o) \/ Flush(o)
  \/ \E o \in Files, through \in BOOLEAN : Write(o, through)
  \/ Sync

Spec == Init /\ [][Next]_vars

-----------------------------------------------------------------------------
(* Properties                                                              *)

Byte(x, o, i) ==
  LET k == find_chunk_cache(x, o, chunk_of(i))
  IN  (IF k # 0 THEN x.cache[k].data ELSE rd_data_obj(x, o, chunk_of(i)))[start_of(i)]

\* A chunk is in the cache once.
OneCopy ==
  \A i, j \in Slot : s.cache[i].obj = s.cache[j].obj /\ s.cache[i].chunk = s.cache[j].chunk
                       /\ s.cache[i].obj # "none" => i = j

\* No stored chunk reaches beyond the end of its file: a scan, which takes the
\* end of the last chunk for the size, would bring cut bytes back.
NothingBeyondSize ==
  \A o \in Files, c \in ChunkNo : s.stored[o][c] # Hole => (c - 1) * CS + s.stored[o][c].n <= s.size[o].file

\* A hole that is taken for a small one can be filled to its end, whatever has
\* to be evicted for it: half of a hole is never taken back.
SmallHolesFit ==
  \A o \in Files : \A size \in s.size[o].file + 1 .. MaxSize :
    SmallHole(s, o, size) => FillHole(s, o, s.size[o].file, size).ok

\* Every byte of a file, seen through the cache, is the last one that was
\* written there, or 0 in a hole, however chunks move between cache and flash
\* and however full the device is, and no read has returned another.  The dirty
\* chunks of the cache can always be stored, because yaffs_do_file_wr lets a chunk
\* become dirty only outside the reserve.  yaffs_resize_file_down stores the tail of
\* a hole without that check: nothing is said once such tails have used up what the
\* cache needs.
ContentsKept ==
  short \/ /\ ~wrong /\ Covered(s)
           /\ \A o \in Files, i \in Offset : i < s.size[o].file => Byte(s, o, i) \in want[o][i]
           /\ OneCopy /\ NothingBeyondSize /\ SmallHolesFit

\* The flush of a file that reports success has stored its bytes: a file whose
\* cache is dirty is never taken for clean.  Nothing is said once the tails of
\* truncated holes have used up what the cache needs: a flush may then lose bytes and
\* report success.
SyncedIsStored ==
  short \/ \A o \in synced, i \in Offset :
             i < s.size[o].file => rd_data_obj(s, o, chunk_of(i))[start_of(i)] \in want[o][i]
=============================================================================
