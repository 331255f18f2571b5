-------------------------- MODULE YaffsCacheProofs --------------------------
(***************************************************************************)
(* Proofs about module YaffsCache, for any files, slots and sizes.         *)
(*                                                                         *)
(* The argument: View(x, o, c) is the chunk c of file o as a reader sees   *)
(* it.  Work on the cache alone changes no view (Quiet).  It stores what   *)
(* was dirty without looking at the result, so there must always be more   *)
(* free chunks than dirty slots that have none (Covered, a part of Sound). *)
(* A write to one chunk changes one view (Wrote); writes of several chunks *)
(* (FileWrIs), holes (FillHoleIs, HandleHoleIs) and truncations (ResizeIs) *)
(* are composed of these.  Within says that no chunk reaches beyond its    *)
(* file and that zeros follow the end of the file, so that a file which    *)
(* grows shows zeros and not what was cut off before.                      *)
(***************************************************************************)
EXTENDS YaffsCache, FiniteSetTheorems, SequenceTheorems, Recursion, TLAPS

-----------------------------------------------------------------------------
(* The invariant                                                           *)

Bytes == [0 .. CS - 1 -> Nat]
StoredChunk == [n : Nat, data : Bytes]
SlotRecord == [obj : Files \cup {"none"}, chunk : Nat, dirty : BOOLEAN, n : Nat, use : Nat, data : Bytes]
State ==
  [cache : [Slot -> SlotRecord], lastUse : Nat, free : Nat, stored : [Files -> [ChunkNo -> StoredChunk]],
   size : [Files -> [file : Nat, stored : Nat]], dirty : [Files -> BOOLEAN]]

Held(x, i, o, c) == x.cache[i].obj = o /\ x.cache[i].chunk = c

\* What a slot holds is of one chunk, and what is stored of it if the slot is clean.
SlotSound(x, i) ==
  /\ x.cache[i].obj = "none" => ~x.cache[i].dirty
  /\ x.cache[i].obj # "none" =>
       /\ x.cache[i].chunk \in ChunkNo
       /\ ~x.cache[i].dirty => x.cache[i].data = x.stored[x.cache[i].obj][x.cache[i].chunk].data
  /\ x.cache[i].dirty => x.cache[i].n >= 1
Single(x) == \A i, j \in Slot : x.cache[i].obj # "none" /\ Held(x, i, x.cache[j].obj, x.cache[j].chunk) => i = j
Sound(x) ==
  /\ x \in State
  /\ Single(x)
  /\ \A i \in Slot : SlotSound(x, i)
  /\ \A o \in Files, c \in ChunkNo : x.stored[o][c].n = 0 => x.stored[o][c] = Hole
  /\ Covered(x)

\* The chunk as a reader sees it
View(x, o, c) ==
  IF find_chunk_cache(x, o, c) # 0 THEN x.cache[find_chunk_cache(x, o, c)].data ELSE x.stored[o][c].data

\* No chunk reaches beyond len[o] bytes of its file, and there are zeros behind them.
ZerosFrom(data, c, len) == \A j \in 0 .. CS - 1 : (c - 1) * CS + j >= len => data[j] = 0
Reaches(c, n, len) == n <= CS /\ (c - 1) * CS + n <= len
Within(x, len) ==
  /\ \A o \in Files, c \in ChunkNo : /\ x.stored[o][c].n # 0 => Reaches(c, x.stored[o][c].n, len[o])
                                     /\ ZerosFrom(x.stored[o][c].data, c, len[o])
  /\ \A i \in Slot : /\ x.cache[i].dirty => Reaches(x.cache[i].chunk, x.cache[i].n, len[x.cache[i].obj])
                     /\ x.cache[i].obj # "none" => ZerosFrom(x.cache[i].data, x.cache[i].chunk, len[x.cache[i].obj])
Sizes(x) == [o \in Files |-> x.size[o].file]

IsDirty(x, o) == \E i \in Slot : x.cache[i].dirty /\ x.cache[i].obj = o

\* The sizes, the bytes as a reader sees them, and which files have dirty chunks
Proper(x, allowed, stored) ==
  /\ Sound(x) /\ Within(x, Sizes(x))
  /\ \A o \in Files : x.size[o].file <= MaxSize
  /\ DOMAIN allowed = Files
  /\ \A o \in Files, i \in Offset : View(x, o, chunk_of(i))[start_of(i)] \in allowed[o][i]
  /\ \A o \in Files : IsDirty(x, o) => x.dirty[o] /\ o \notin stored

CacheTypeOK ==
  /\ device \in Devices
  /\ synced \subseteq Files
  /\ wrong \in BOOLEAN /\ short \in BOOLEAN /\ ops \in Nat

CacheSound == ~wrong /\ Proper(s, want, synced)

CacheInv == CacheTypeOK /\ (short \/ CacheSound)

-----------------------------------------------------------------------------
(* The device and its chunks                                               *)

LEMMA DevFacts ==
  ASSUME device \in Devices
  PROVE  /\ CS \in Pos1 /\ MaxSize \in Pos1 /\ Threshold \in Pos1 /\ UseLimit \in Pos1
         /\ CS \in Nat /\ CS >= 1 /\ MaxSize \in Nat /\ Threshold \in Nat
         /\ NCaches \in Nat /\ Total \in Nat /\ Reserve \in Nat /\ MaxOps \in Nat
         /\ Bypass \in BOOLEAN
         /\ Total > Reserve /\ Reserve >= NCaches
         /\ "none" \notin Files
BY CacheAssumption DEF CS, MaxSize, Threshold, UseLimit, NCaches, Total, Reserve, MaxOps, Bypass, Files, Pos1

LEMMA ZerosType ==
  ASSUME device \in Devices
  PROVE  Zeros \in Bytes /\ Hole \in StoredChunk /\ Free \in SlotRecord /\ \A j \in 0 .. CS - 1 : Zeros[j] = 0
<1>1. Zeros \in Bytes /\ \A j \in 0 .. CS - 1 : Zeros[j] = 0
  BY DEF Zeros, Bytes
<1> QED BY <1>1 DEF Hole, Free, StoredChunk, SlotRecord

(* An address is in a chunk and at a place of it.                            *)
LEMMA Address ==
  ASSUME device \in Devices, NEW i \in Nat
  PROVE  /\ chunk_of(i) \in Nat \ {0} /\ start_of(i) \in 0 .. CS - 1
         /\ i = (chunk_of(i) - 1) * CS + start_of(i)
<1> DEFINE q == i \div CS  r == i % CS
<1>1. Split(i, CS, q, r)
  BY DevFacts, DivSplit
<1>2. chunk_of(i) = q + 1 /\ start_of(i) = r
  BY DEF chunk_of, start_of
<1> HIDE DEF q, r
<1> QED BY <1>1, <1>2, DevFacts DEF Split

LEMMA AddressIs ==
  ASSUME device \in Devices, NEW c \in Nat \ {0}, NEW j \in 0 .. CS - 1
  PROVE  /\ (c - 1) * CS + j \in Nat
         /\ chunk_of((c - 1) * CS + j) = c /\ start_of((c - 1) * CS + j) = j
<1> DEFINE i == (c - 1) * CS + j
<1>1. i \in Nat
  BY DevFacts
<1>2. Split(i, CS, c - 1, j)
  BY DEF Split
<1> HIDE DEF i
<1>3. i \div CS = c - 1 /\ i % CS = j
  BY <1>1, <1>2, DevFacts, DivIs
<1>4. chunk_of(i) = c /\ start_of(i) = j
  <2>1. (c - 1) + 1 = c
    OBVIOUS
  <2> QED BY <1>3, <2>1, Zenon DEF chunk_of, start_of
<1> QED BY <1>1, <1>4 DEF i

(* A chunk is in a file if its first byte can be.                            *)
LEMMA ChunkNoIs ==
  ASSUME device \in Devices, NEW c \in Nat \ {0}
  PROVE  c \in ChunkNo <=> (c - 1) * CS < MaxSize
<1> DEFINE n == MaxSize + CS - 1  q == n \div CS  r == n % CS
<1>1. n \in Nat /\ n = MaxSize + CS - 1
  BY DevFacts
<1>2. ChunkNo = 1 .. q
  BY DEF ChunkNo
<1> HIDE DEF n
<1>3. Split(n, CS, q, r)
  BY <1>1, DevFacts, DivSplit
<1> HIDE DEF q, r
<1>4. q \in Nat /\ r \in 0 .. CS - 1 /\ n = q * CS + r
  BY <1>3 DEF Split
<1>5. CASE c <= q
  <2>1. (c - 1) * CS + CS <= q * CS
    <3>1. c - 1 \in Nat /\ c - 1 < q
      BY <1>4, <1>5
    <3> QED BY <3>1, <1>4, DevFacts, TimesLess
  <2> QED BY <1>1, <1>2, <1>4, <1>5, <2>1, DevFacts
<1>6. CASE c > q
  <2>1. q * CS <= (c - 1) * CS
    <3>1. q <= c - 1 /\ c - 1 \in Nat
      BY <1>4, <1>6
    <3>2. CASE q = c - 1
      BY <3>2, <1>4, DevFacts
    <3>3. CASE q < c - 1
      <4>1. q * CS + CS <= (c - 1) * CS
        BY <3>1, <3>3, <1>4, DevFacts, TimesLess
      <4> QED BY <4>1, <3>1, <1>4, DevFacts
    <3> QED BY <3>1, <3>2, <3>3, <1>4
  <2> QED BY <1>1, <1>2, <1>4, <1>6, <2>1, DevFacts
<1> QED BY <1>4, <1>5, <1>6

LEMMA OffsetChunk ==
  ASSUME device \in Devices, NEW i \in Offset
  PROVE  i \in Nat /\ chunk_of(i) \in ChunkNo /\ start_of(i) \in 0 .. CS - 1
<1>1. i \in Nat /\ i < MaxSize
  BY DevFacts DEF Offset
<1>2. chunk_of(i) \in Nat \ {0} /\ start_of(i) \in 0 .. CS - 1 /\ i = (chunk_of(i) - 1) * CS + start_of(i)
  BY <1>1, Address
<1>3. (chunk_of(i) - 1) * CS < MaxSize
  BY <1>1, <1>2, DevFacts
<1> QED BY <1>1, <1>2, <1>3, ChunkNoIs

-----------------------------------------------------------------------------
(* What is found in the cache                                              *)

LEMMA StateFields ==
  ASSUME NEW x \in State
  PROVE  /\ x.cache \in [Slot -> SlotRecord] /\ x.stored \in [Files -> [ChunkNo -> StoredChunk]]
         /\ x.size \in [Files -> [file : Nat, stored : Nat]] /\ x.dirty \in [Files -> BOOLEAN]
         /\ x.lastUse \in Nat /\ x.free \in Nat
         /\ \A i \in Slot : /\ x.cache[i] \in SlotRecord /\ x.cache[i].obj \in Files \cup {"none"}
                            /\ x.cache[i].chunk \in Nat /\ x.cache[i].dirty \in BOOLEAN
                            /\ x.cache[i].n \in Nat /\ x.cache[i].use \in Nat /\ x.cache[i].data \in Bytes
         /\ \A o \in Files, c \in ChunkNo : /\ x.stored[o][c] \in StoredChunk
                                            /\ x.stored[o][c].n \in Nat /\ x.stored[o][c].data \in Bytes
         /\ \A o \in Files : x.size[o].file \in Nat /\ x.size[o].stored \in Nat
<1>1. /\ x.cache \in [Slot -> SlotRecord] /\ x.stored \in [Files -> [ChunkNo -> StoredChunk]]
      /\ x.size \in [Files -> [file : Nat, stored : Nat]] /\ x.dirty \in [Files -> BOOLEAN]
      /\ x.lastUse \in Nat /\ x.free \in Nat
  BY DEF State
<1>2. \A i \in Slot : x.cache[i] \in SlotRecord
  BY <1>1
<1>3. \A o \in Files, c \in ChunkNo : x.stored[o][c] \in StoredChunk
  BY <1>1
<1>4. \A k \in SlotRecord : /\ k.obj \in Files \cup {"none"} /\ k.chunk \in Nat /\ k.dirty \in BOOLEAN
                            /\ k.n \in Nat /\ k.use \in Nat /\ k.data \in Bytes
  BY DEF SlotRecord
<1>5. \A k \in StoredChunk : k.n \in Nat /\ k.data \in Bytes
  BY DEF StoredChunk
<1> QED BY <1>1, <1>2, <1>3, <1>4, <1>5

LEMMA MinIs ==
  ASSUME NEW S \in SUBSET Nat, S # {}
  PROVE  Min(S) \in S /\ \A y \in S : Min(S) <= y
<1>1. \E m \in S : \A y \in S : m <= y
  BY LeastNat
<1> QED BY <1>1 DEF Min

LEMMA Found ==
  ASSUME device \in Devices, NEW x \in State, Single(x), NEW o \in Files, NEW c
  PROVE  /\ \A i \in Slot : Held(x, i, o, c) => find_chunk_cache(x, o, c) = i
         /\ (\A i \in Slot : ~Held(x, i, o, c)) <=> find_chunk_cache(x, o, c) = 0
         /\ find_chunk_cache(x, o, c) # 0 =>
              find_chunk_cache(x, o, c) \in Slot /\ Held(x, find_chunk_cache(x, o, c), o, c)
<1> DEFINE hits == {i \in Slot : x.cache[i].obj = o /\ x.cache[i].chunk = c}
<1>1. find_chunk_cache(x, o, c) = IF hits = {} THEN 0 ELSE Min(hits)
  BY DEF find_chunk_cache
<1>2. hits \in SUBSET Nat /\ \A i \in hits : i # 0 /\ i \in Slot
  BY DevFacts DEF Slot
<1>3. hits # {} => Min(hits) \in hits
  <2> HIDE DEF hits
  <2> QED BY <1>2, MinIs
<1>4. \A i : i \in hits <=> i \in Slot /\ Held(x, i, o, c)
  BY DEF Held
<1>5. \A i, j \in hits : i = j
  <2> SUFFICES ASSUME NEW i \in hits, NEW j \in hits PROVE i = j
    OBVIOUS
  <2>1. i \in Slot /\ j \in Slot /\ Held(x, i, x.cache[j].obj, x.cache[j].chunk) /\ x.cache[i].obj # "none"
    BY DevFacts DEF Held
  <2> QED BY <2>1 DEF Single
<1> HIDE DEF hits
<1> QED BY <1>1, <1>2, <1>3, <1>4, <1>5

LEMMA ViewIs ==
  ASSUME device \in Devices, NEW x \in State, Single(x), NEW o \in Files, NEW c
  PROVE  /\ \A i \in Slot : Held(x, i, o, c) => View(x, o, c) = x.cache[i].data
         /\ (\A i \in Slot : ~Held(x, i, o, c)) => View(x, o, c) = x.stored[o][c].data
<1>1. ASSUME NEW i \in Slot, Held(x, i, o, c) PROVE View(x, o, c) = x.cache[i].data
  <2>1. find_chunk_cache(x, o, c) = i /\ i # 0
    BY <1>1, Found, DevFacts DEF Slot
  <2> QED BY <2>1 DEF View
<1>2. ASSUME \A i \in Slot : ~Held(x, i, o, c) PROVE View(x, o, c) = x.stored[o][c].data
  <2>1. find_chunk_cache(x, o, c) = 0
    BY <1>2, Found
  <2> QED BY <2>1 DEF View
<1> QED BY <1>1, <1>2

LEMMA ViewType ==
  ASSUME device \in Devices, NEW x, Sound(x), NEW o \in Files, NEW c \in ChunkNo
  PROVE  View(x, o, c) \in Bytes
<1>1. x \in State /\ Single(x)
  BY DEF Sound
<1>2. CASE \E i \in Slot : Held(x, i, o, c)
  BY <1>1, <1>2, ViewIs, StateFields
<1>3. CASE \A i \in Slot : ~Held(x, i, o, c)
  BY <1>1, <1>3, ViewIs, StateFields
<1> QED BY <1>2, <1>3
-----------------------------------------------------------------------------
(* Storing a chunk                                                         *)

\* What storing a chunk leaves alone
Kept(x, y) ==
  /\ y \in State
  /\ y.dirty = x.dirty
  /\ \A o \in Files : y.size[o].file = x.size[o].file

LEMMA KeptTrans ==
  ASSUME NEW x, NEW y, NEW z, Kept(x, y), Kept(y, z)
  PROVE  Kept(x, z)
BY DEF Kept

\* Only the chunk c of o may have another content.
OneStored(x, y, o, c, n, data) ==
  /\ y.stored[o][c].n = n /\ y.stored[o][c].data = data
  /\ \A p \in Files, d \in ChunkNo : p # o \/ d # c => y.stored[p][d] = x.stored[p][d]
  /\ y.free = IF x.stored[o][c] = Hole THEN x.free - 1 ELSE x.free

LEMMA StoreIs ==
  ASSUME device \in Devices, NEW x \in State, NEW o \in Files, NEW c \in ChunkNo, NEW data \in Bytes,
         NEW n \in Nat, NEW r \in BOOLEAN, NEW w, w = wr_data_obj(x, o, c, data, n, r)
  PROVE  /\ w.ok \in BOOLEAN
         /\ w.ok <=> (IF r THEN x.free > 0 ELSE x.free > Reserve + 1)
         /\ Kept(x, w.x)
         /\ w.x.cache = x.cache /\ w.x.lastUse = x.lastUse
         /\ w.ok => OneStored(x, w.x, o, c, n, data)
         /\ ~w.ok => w.x.stored = x.stored /\ w.x.free = x.free
<1> DEFINE end == (c - 1) * CS + n
           y == [x EXCEPT !.size[o].stored = IF @ < end THEN end ELSE @]
           z == [y EXCEPT !.stored[o][c] = [n |-> n, data |-> data],
                          !.free = IF x.stored[o][c] = Hole THEN @ - 1 ELSE @]
           ok == IF r THEN x.free > 0 ELSE x.free > Reserve + 1
<1>1. w = IF ~ok THEN [x |-> y, ok |-> FALSE] ELSE [x |-> z, ok |-> TRUE]
  BY DEF wr_data_obj, check_alloc_available
<1>2. c \in Nat \ {0} /\ end \in Nat
  BY DevFacts DEF ChunkNo
<1>3. y \in State /\ \A p \in Files : y.size[p].file = x.size[p].file
  <2> HIDE DEF end
  <2>1. x.size \in [Files -> [file : Nat, stored : Nat]]
    BY StateFields
  <2>2. y = [x EXCEPT !.size = [x.size EXCEPT ![o] = [x.size[o] EXCEPT !.stored = IF @ < end THEN end ELSE @]]]
    OBVIOUS
  <2> DEFINE t == [x.size[o] EXCEPT !.stored = IF @ < end THEN end ELSE @]
  <2>3. t \in [file : Nat, stored : Nat] /\ t.file = x.size[o].file
    BY <1>2, <2>1
  <2> HIDE DEF t
  <2>4. y.size = [x.size EXCEPT ![o] = t] /\ y.size \in [Files -> [file : Nat, stored : Nat]]
    BY <2>1, <2>2, <2>3 DEF State, t
  <2>5. y \in State
    BY <2>2, <2>4 DEF State
  <2>6. \A p \in Files : y.size[p].file = x.size[p].file
    BY <2>1, <2>3, <2>4
  <2> QED BY <2>5, <2>6
<1>4. y.cache = x.cache /\ y.lastUse = x.lastUse /\ y.stored = x.stored /\ y.free = x.free /\ y.dirty = x.dirty
  BY DEF State
<1> HIDE DEF y
<1>5. ok => x.free > 0
  BY DevFacts, StateFields
<1>6. ASSUME ok
      PROVE  /\ z \in State /\ z.cache = y.cache /\ z.lastUse = y.lastUse /\ z.dirty = y.dirty /\ z.size = y.size
             /\ OneStored(x, z, o, c, n, data)
  <2> DEFINE k == [n |-> n, data |-> data]
             f == IF x.stored[o][c] = Hole THEN x.free - 1 ELSE x.free
  <2>1. z = [y EXCEPT !.stored = [y.stored EXCEPT ![o] = [y.stored[o] EXCEPT ![c] = k]], !.free = f]
    BY <1>4
  <2>2. k \in StoredChunk /\ k.n = n /\ k.data = data
    BY DEF StoredChunk
  <2>3. f \in Nat
    BY <1>5, <1>6, StateFields
  <2>4. y.stored \in [Files -> [ChunkNo -> StoredChunk]]
    BY <1>3, StateFields
  <2> HIDE DEF k, f, z, ok
  <2> DEFINE st == [y.stored EXCEPT ![o] = [y.stored[o] EXCEPT ![c] = k]]
  <2>5. st \in [Files -> [ChunkNo -> StoredChunk]] /\ st[o][c] = k
        /\ \A p \in Files, d \in ChunkNo : p # o \/ d # c => st[p][d] = y.stored[p][d]
    BY <2>2, <2>4
  <2> HIDE DEF st
  <2>6. z = [y EXCEPT !.stored = st, !.free = f]
    BY <2>1 DEF st
  <2>7. z \in State /\ z.cache = y.cache /\ z.lastUse = y.lastUse /\ z.dirty = y.dirty /\ z.size = y.size
        /\ z.stored = st /\ z.free = f
    BY <2>6, <2>5, <2>3, <1>3 DEF State
  <2> QED BY <2>7, <2>5, <2>2, <1>4 DEF OneStored, f
<1> HIDE DEF z
<1>7. CASE ok
  <2>1. w.x = z /\ w.ok = TRUE
    BY <1>1, <1>7
  <2> QED BY <2>1, <1>3, <1>4, <1>6, <1>7 DEF Kept
<1>8. CASE ~ok
  <2>1. w.x = y /\ w.ok = FALSE
    BY <1>1, <1>8
  <2> QED BY <2>1, <1>3, <1>4, <1>8 DEF Kept
<1> QED BY <1>7, <1>8

(* How many chunks the cache needs.                                          *)
LEMMA NeedyCard ==
  ASSUME device \in Devices, NEW x
  PROVE  /\ IsFiniteSet(Needy(x)) /\ Cardinality(Needy(x)) \in Nat /\ Cardinality(Needy(x)) <= NCaches
         /\ \A S : S \subseteq Needy(x) => Cardinality(S) \in Nat /\ Cardinality(S) <= Cardinality(Needy(x))
         /\ \A S, i : i \in Needy(x) /\ S \subseteq Needy(x) \ {i} => Cardinality(S) < Cardinality(Needy(x))
<1>1. IsFiniteSet(Slot) /\ Cardinality(Slot) = NCaches
  <2>1. NCaches \in Nat
    BY DevFacts
  <2>2. IsFiniteSet(1 .. NCaches) /\ Cardinality(1 .. NCaches) = (IF 1 > NCaches THEN 0 ELSE NCaches - 1 + 1)
    BY <2>1, FS_Interval
  <2> QED BY <2>1, <2>2 DEF Slot
<1>2. Needy(x) \subseteq Slot
  BY DEF Needy
<1>3. IsFiniteSet(Needy(x)) /\ Cardinality(Needy(x)) <= Cardinality(Slot)
  BY <1>1, <1>2, FS_Subset
<1>4. Cardinality(Needy(x)) \in Nat
  BY <1>3, FS_CardinalityType
<1>5. ASSUME NEW S, S \subseteq Needy(x) PROVE Cardinality(S) \in Nat /\ Cardinality(S) <= Cardinality(Needy(x))
  BY <1>3, <1>5, FS_Subset, FS_CardinalityType
<1>6. ASSUME NEW S, NEW i, i \in Needy(x), S \subseteq Needy(x) \ {i} PROVE Cardinality(S) < Cardinality(Needy(x))
  <2>1. IsFiniteSet(Needy(x) \ {i}) /\ Cardinality(Needy(x) \ {i}) = Cardinality(Needy(x)) - 1
    BY <1>3, <1>6, FS_RemoveElement
  <2>2. Cardinality(S) <= Cardinality(Needy(x) \ {i}) /\ Cardinality(S) \in Nat
    BY <2>1, <1>6, FS_Subset, FS_CardinalityType
  <2> QED BY <2>1, <2>2, <1>4
<1> QED BY <1>1, <1>3, <1>4, <1>5, <1>6

LEMMA CoveredKeeps ==
  ASSUME device \in Devices, NEW x, NEW y, x.free \in Nat, y.free \in Nat
  PROVE  /\ Covered(x) /\ y.free >= x.free /\ Needy(y) \subseteq Needy(x) => Covered(y)
         /\ \A i : Covered(x) /\ y.free = x.free - 1 /\ i \in Needy(x) /\ Needy(y) \subseteq Needy(x) \ {i} => Covered(y)
         /\ y.free > NCaches => Covered(y)
         /\ Covered(x) => x.free > 0
<1>1. Cardinality(Needy(x)) \in Nat /\ Cardinality(Needy(y)) \in Nat /\ Cardinality(Needy(y)) <= NCaches
  BY NeedyCard
<1>2. Needy(y) \subseteq Needy(x) => Cardinality(Needy(y)) <= Cardinality(Needy(x))
  BY NeedyCard
<1>3. \A i : i \in Needy(x) /\ Needy(y) \subseteq Needy(x) \ {i} => Cardinality(Needy(y)) < Cardinality(Needy(x))
  BY NeedyCard
<1> QED BY <1>1, <1>2, <1>3, DevFacts DEF Covered

-----------------------------------------------------------------------------
(* Steps that a reader does not notice                                     *)

Quiet(x, y) ==
  /\ Sound(y) /\ Kept(x, y)
  /\ \A o \in Files, c \in ChunkNo : /\ View(y, o, c) = View(x, o, c)
                                     /\ y.stored[o][c].data \in {x.stored[o][c].data, View(x, o, c)}
  /\ \A o \in Files : IsDirty(y, o) => IsDirty(x, o)
  /\ \A len \in [Files -> Nat] : Within(x, len) => Within(y, len)

LEMMA QuietTrans ==
  ASSUME NEW x, NEW y, NEW z, Quiet(x, y), Quiet(y, z)
  PROVE  Quiet(x, z)
<1>1. Kept(x, z)
  BY KeptTrans DEF Quiet
<1> QED BY <1>1 DEF Quiet

LEMMA QuietSelf ==
  ASSUME NEW x, Sound(x)
  PROVE  Quiet(x, x)
BY DEF Quiet, Kept, Sound

LEMMA FlushSlotIs ==
  ASSUME device \in Devices, NEW x, Sound(x), NEW i \in Slot, x.cache[i].obj # "none",
         NEW discard \in BOOLEAN, NEW y, y = flush_single_cache(x, i, discard)
  PROVE  /\ Kept(x, y)
         /\ y.cache[i] = IF discard THEN Free ELSE [x.cache[i] EXCEPT !.dirty = FALSE]
         /\ \A j \in Slot : j # i => y.cache[j] = x.cache[j]
         /\ y.lastUse = x.lastUse
         /\ x.cache[i].dirty =>
              OneStored(x, y, x.cache[i].obj, x.cache[i].chunk, x.cache[i].n, x.cache[i].data)
         /\ ~x.cache[i].dirty => y.stored = x.stored /\ y.free = x.free
<1> DEFINE k == x.cache[i]
           w == wr_data_obj(x, k.obj, k.chunk, k.data, k.n, TRUE)
           z == IF k.dirty THEN w.x ELSE x
           k2 == IF discard THEN Free ELSE [k EXCEPT !.dirty = FALSE]
<1>1. x \in State /\ SlotSound(x, i) /\ Covered(x)
  BY DEF Sound
<1>2. /\ k \in SlotRecord /\ k.obj \in Files /\ k.chunk \in ChunkNo /\ k.data \in Bytes /\ k.n \in Nat /\ k.dirty \in BOOLEAN
      /\ x.free \in Nat
  BY <1>1, StateFields DEF SlotSound
<1>3. x.free > 0
  BY <1>1, <1>2, CoveredKeeps
<1>4. /\ w.ok /\ Kept(x, w.x) /\ w.x.cache = x.cache /\ w.x.lastUse = x.lastUse
      /\ OneStored(x, w.x, k.obj, k.chunk, k.n, k.data)
  <2>1. w = wr_data_obj(x, k.obj, k.chunk, k.data, k.n, TRUE) /\ TRUE \in BOOLEAN
    OBVIOUS
  <2> HIDE DEF k, w
  <2> DEFINE o == k.obj  c == k.chunk  data == k.data  n == k.n  r == TRUE
  <2>2. x \in State /\ o \in Files /\ c \in ChunkNo /\ data \in Bytes /\ n \in Nat /\ r \in BOOLEAN
        /\ w = wr_data_obj(x, o, c, data, n, r)
    BY <1>1, <1>2, <2>1
  <2> HIDE DEF o, c, data, n, r
  <2>3. /\ w.ok <=> (IF r THEN x.free > 0 ELSE x.free > Reserve + 1)
        /\ Kept(x, w.x) /\ w.x.cache = x.cache /\ w.x.lastUse = x.lastUse
        /\ w.ok => OneStored(x, w.x, o, c, n, data)
    BY <2>2, StoreIs
  <2> QED BY <1>3, <2>3 DEF o, c, data, n, r
<1>5. k2 \in SlotRecord
  <2>1. [k EXCEPT !.dirty = FALSE] \in SlotRecord
    BY <1>2 DEF SlotRecord
  <2> QED BY <2>1, ZerosType
<1>6. y = [z EXCEPT !.cache[i] = k2]
  BY DEF flush_single_cache
<1> HIDE DEF w
<1>7. Kept(x, z) /\ z.cache = x.cache /\ z.lastUse = x.lastUse
  BY <1>1, <1>4 DEF Kept
<1>8. /\ k.dirty => OneStored(x, z, k.obj, k.chunk, k.n, k.data)
      /\ ~k.dirty => z.stored = x.stored /\ z.free = x.free
  BY <1>4
<1> HIDE DEF z, k2
<1>9. y = [z EXCEPT !.cache = [x.cache EXCEPT ![i] = k2]]
  BY <1>6, <1>7
<1>10. [x.cache EXCEPT ![i] = k2] \in [Slot -> SlotRecord]
  BY <1>1, <1>5, StateFields
<1>11. /\ y \in State /\ y.cache = [x.cache EXCEPT ![i] = k2] /\ y.stored = z.stored /\ y.free = z.free
       /\ y.dirty = z.dirty /\ y.size = z.size /\ y.lastUse = z.lastUse
  <2> DEFINE ca == [x.cache EXCEPT ![i] = k2]
  <2>1. ca \in [Slot -> SlotRecord] /\ y = [z EXCEPT !.cache = ca] /\ z \in State
    BY <1>7, <1>9, <1>10 DEF Kept
  <2> HIDE DEF ca
  <2>2. /\ y \in State /\ y.cache = ca /\ y.stored = z.stored /\ y.free = z.free
        /\ y.dirty = z.dirty /\ y.size = z.size /\ y.lastUse = z.lastUse
    BY <2>1 DEF State
  <2> QED BY <2>2 DEF ca
<1>12. y.cache[i] = k2 /\ \A j \in Slot : j # i => y.cache[j] = x.cache[j]
  <2>1. x.cache \in [Slot -> SlotRecord]
    BY <1>1, StateFields
  <2> QED BY <1>11, <2>1
<1>13. Kept(x, y)
  BY <1>7, <1>11 DEF Kept
<1>14. k.dirty => OneStored(x, y, k.obj, k.chunk, k.n, k.data)
  BY <1>8, <1>11 DEF OneStored
<1> QED BY <1>7, <1>8, <1>11, <1>12, <1>13, <1>14 DEF k2, k

LEMMA FlushSlot ==
  ASSUME device \in Devices, NEW x, Sound(x), NEW i \in Slot, x.cache[i].obj # "none",
         NEW discard \in BOOLEAN, NEW y, y = flush_single_cache(x, i, discard)
  PROVE  /\ Quiet(x, y)
         /\ y.free >= x.free - 1
         /\ y.cache[i] = IF discard THEN Free ELSE [x.cache[i] EXCEPT !.dirty = FALSE]
         /\ \A j \in Slot : j # i => y.cache[j] = x.cache[j]
<1> DEFINE k == x.cache[i]
<1>1. /\ x \in State /\ Single(x) /\ (\A j \in Slot : SlotSound(x, j)) /\ Covered(x)
      /\ \A o \in Files, c \in ChunkNo : x.stored[o][c].n = 0 => x.stored[o][c] = Hole
  BY DEF Sound
<1>2. /\ Kept(x, y)
      /\ y.cache[i] = IF discard THEN Free ELSE [k EXCEPT !.dirty = FALSE]
      /\ \A j \in Slot : j # i => y.cache[j] = x.cache[j]
      /\ k.dirty => OneStored(x, y, k.obj, k.chunk, k.n, k.data)
      /\ ~k.dirty => y.stored = x.stored /\ y.free = x.free
  BY FlushSlotIs
<1>3. k \in SlotRecord /\ k.obj \in Files /\ k.chunk \in ChunkNo /\ k.data \in Bytes /\ k.n \in Nat /\ k.dirty \in BOOLEAN
  BY <1>1, StateFields DEF SlotSound
<1>4. y \in State /\ x.free \in Nat /\ y.free \in Nat
  BY <1>1, <1>2, StateFields DEF Kept
<1>5. IF discard THEN y.cache[i].obj = "none" /\ ~y.cache[i].dirty
      ELSE y.cache[i].obj = k.obj /\ y.cache[i].chunk = k.chunk /\ y.cache[i].data = k.data /\ ~y.cache[i].dirty
  BY <1>2, <1>3 DEF Free, SlotRecord
<1>6. ASSUME NEW o \in Files, NEW c \in ChunkNo
      PROVE  \/ y.stored[o][c] = x.stored[o][c] /\ ~(k.dirty /\ o = k.obj /\ c = k.chunk)
             \/ k.dirty /\ o = k.obj /\ c = k.chunk /\ y.stored[o][c].n = k.n /\ y.stored[o][c].data = k.data
  BY <1>2 DEF OneStored
<1> HIDE DEF k
<1>7. ASSUME NEW j \in Slot, j # i, x.cache[j].obj # "none"
      PROVE  /\ y.stored[x.cache[j].obj][x.cache[j].chunk] = x.stored[x.cache[j].obj][x.cache[j].chunk]
             /\ x.cache[j].obj # k.obj \/ x.cache[j].chunk # k.chunk
  <2>1. x.cache[j].obj \in Files /\ x.cache[j].chunk \in ChunkNo
    BY <1>1, <1>7, StateFields DEF SlotSound
  <2>2. x.cache[j].obj # k.obj \/ x.cache[j].chunk # k.chunk
    BY <1>1, <1>7 DEF Single, Held, k
  <2> QED BY <1>6, <2>1, <2>2
<1>8. Single(y)
  <2> SUFFICES ASSUME NEW a \in Slot, NEW b \in Slot, y.cache[a].obj # "none",
                      y.cache[a].obj = y.cache[b].obj, y.cache[a].chunk = y.cache[b].chunk
               PROVE  a = b
    BY DEF Single, Held
  <2>1. CASE a # i /\ b # i
    BY <2>1, <1>1, <1>2 DEF Single, Held
  <2>2. CASE a = i /\ b # i
    BY <2>2, <1>2, <1>5, <1>7
  <2>3. CASE a # i /\ b = i
    BY <2>3, <1>2, <1>5, <1>7
  <2> QED BY <2>1, <2>2, <2>3
<1>9. ASSUME NEW j \in Slot PROVE SlotSound(y, j)
  <2>1. CASE j # i
    <3>1. y.cache[j] = x.cache[j] /\ SlotSound(x, j)
      BY <2>1, <1>1, <1>2
    <3>2. x.cache[j].obj # "none" =>
            y.stored[x.cache[j].obj][x.cache[j].chunk] = x.stored[x.cache[j].obj][x.cache[j].chunk]
      BY <2>1, <1>7
    <3> QED BY <3>1, <3>2 DEF SlotSound
  <2>2. CASE j = i
    <3>1. ~k.dirty => k.data = x.stored[k.obj][k.chunk].data
      BY <1>1, <1>3 DEF SlotSound, k
    <3>2. y.stored[k.obj][k.chunk].data = k.data
      BY <3>1, <1>3, <1>6
    <3> QED BY <2>2, <3>2, <1>3, <1>5 DEF SlotSound
  <2> QED BY <2>1, <2>2
<1>10. ASSUME NEW o \in Files, NEW c \in ChunkNo, y.stored[o][c].n = 0 PROVE y.stored[o][c] = Hole
  <2>1. k.dirty => k.n >= 1
    BY <1>1 DEF SlotSound, k
  <2> QED BY <2>1, <1>1, <1>3, <1>6, <1>10
<1>11. Covered(y)
  <2>1. Needy(y) \subseteq Needy(x) \ {i}
    <3> SUFFICES ASSUME NEW j \in Needy(y) PROVE j \in Needy(x) /\ j # i
      OBVIOUS
    <3>1. j \in Slot /\ y.cache[j].dirty /\ y.stored[y.cache[j].obj][y.cache[j].chunk] = Hole
      BY DEF Needy
    <3>2. j # i
      BY <3>1, <1>5
    <3>3. y.cache[j] = x.cache[j]
      BY <1>2, <3>1, <3>2
    <3>4. x.cache[j].obj # "none"
      BY <3>1, <3>3, <1>1 DEF SlotSound
    <3> QED BY <3>1, <3>2, <3>3, <3>4, <1>7 DEF Needy
  <2>2. CASE k.dirty /\ x.stored[k.obj][k.chunk] = Hole
    <3>1. i \in Needy(x) /\ y.free = x.free - 1
      BY <2>2, <1>2 DEF Needy, OneStored, k
    <3> QED BY <3>1, <2>1, <1>1, <1>4, CoveredKeeps
  <2>3. CASE ~(k.dirty /\ x.stored[k.obj][k.chunk] = Hole)
    <3>1. y.free = x.free
      BY <2>3, <1>2 DEF OneStored
    <3>2. y.free >= x.free /\ Needy(y) \subseteq Needy(x)
      BY <3>1, <2>1, <1>4
    <3> QED BY <3>2, <1>1, <1>4, CoveredKeeps
  <2> QED BY <2>2, <2>3
<1>12. Sound(y)
  BY <1>4, <1>8, <1>9, <1>10, <1>11 DEF Sound
<1>13. ASSUME NEW o \in Files, NEW c \in ChunkNo
       PROVE  View(y, o, c) = View(x, o, c) /\ y.stored[o][c].data \in {x.stored[o][c].data, View(x, o, c)}
  <2>1. ~k.dirty => k.data = x.stored[k.obj][k.chunk].data
    BY <1>1, <1>3 DEF SlotSound, k
  <2>2. Held(x, i, o, c) => View(x, o, c) = k.data
    BY <1>1, ViewIs DEF k
  <2>3. y.stored[o][c].data \in {x.stored[o][c].data, View(x, o, c)}
    BY <2>2, <1>6 DEF Held, k
  <2>4. CASE \E j \in Slot : j # i /\ Held(x, j, o, c)
    <3>1. PICK j \in Slot : j # i /\ Held(x, j, o, c)
      BY <2>4
    <3>2. Held(y, j, o, c) /\ y.cache[j].data = x.cache[j].data
      BY <3>1, <1>2 DEF Held
    <3>3. View(y, o, c) = y.cache[j].data /\ View(x, o, c) = x.cache[j].data
      BY <3>1, <3>2, <1>1, <1>4, <1>8, ViewIs
    <3> QED BY <3>2, <3>3, <2>3
  <2>5. CASE Held(x, i, o, c)
    <3>1. o = k.obj /\ c = k.chunk
      BY <2>5 DEF Held, k
    <3>2. y.stored[o][c].data = k.data
      BY <3>1, <2>1, <1>6
    <3>3. CASE discard
      <4>1. \A j \in Slot : ~Held(y, j, o, c)
        <5> SUFFICES ASSUME NEW j \in Slot, y.cache[j].obj = o, y.cache[j].chunk = c PROVE FALSE
          BY DEF Held
        <5>1. o # "none"
          BY DevFacts
        <5>2. j # i
          BY <3>3, <5>1, <1>5
        <5>3. x.cache[j].obj = o /\ x.cache[j].chunk = c
          BY <5>2, <1>2
        <5> QED BY <5>1, <5>2, <5>3, <3>1, <1>7
      <4>2. View(y, o, c) = y.stored[o][c].data
        BY <4>1, <1>4, <1>8, ViewIs
      <4> QED BY <4>2, <3>2, <2>2, <2>3, <2>5
    <3>4. CASE ~discard
      <4>1. Held(y, i, o, c) /\ y.cache[i].data = k.data
        BY <3>1, <3>4, <1>5 DEF Held
      <4>2. View(y, o, c) = k.data
        BY <4>1, <1>4, <1>8, ViewIs
      <4> QED BY <4>2, <2>2, <2>3, <2>5
    <3> QED BY <3>3, <3>4
  <2>6. CASE \A j \in Slot : ~Held(x, j, o, c)
    <3>1. ~(o = k.obj /\ c = k.chunk)
      BY <2>6 DEF Held, k
    <3>2. \A j \in Slot : ~Held(y, j, o, c)
      BY <2>6, <3>1, <1>2, <1>5, DevFacts DEF Held
    <3>3. View(y, o, c) = y.stored[o][c].data /\ View(x, o, c) = x.stored[o][c].data
      BY <2>6, <3>2, <1>1, <1>4, <1>8, ViewIs
    <3>4. y.stored[o][c] = x.stored[o][c]
      BY <3>1, <1>6
    <3> QED BY <3>3, <3>4, <2>3
  <2> QED BY <2>4, <2>5, <2>6
<1>14. ASSUME NEW o \in Files, IsDirty(y, o) PROVE IsDirty(x, o)
  BY <1>14, <1>2, <1>5 DEF IsDirty
<1>15. ASSUME NEW len \in [Files -> Nat], Within(x, len) PROVE Within(y, len)
  <2>1. /\ k.dirty => Reaches(k.chunk, k.n, len[k.obj])
        /\ ZerosFrom(k.data, k.chunk, len[k.obj])
    BY <1>15, <1>3, DevFacts DEF Within, k
  <2>2. ASSUME NEW o \in Files, NEW c \in ChunkNo
        PROVE  /\ y.stored[o][c].n # 0 => Reaches(c, y.stored[o][c].n, len[o])
               /\ ZerosFrom(y.stored[o][c].data, c, len[o])
    BY <2>1, <1>6, <1>15 DEF Within
  <2>3. ASSUME NEW j \in Slot
        PROVE  /\ y.cache[j].dirty => Reaches(y.cache[j].chunk, y.cache[j].n, len[y.cache[j].obj])
               /\ y.cache[j].obj # "none" => ZerosFrom(y.cache[j].data, y.cache[j].chunk, len[y.cache[j].obj])
    <3>1. CASE j = i
      BY <3>1, <2>1, <1>5
    <3>2. CASE j # i
      BY <3>2, <1>2, <1>15 DEF Within
    <3> QED BY <3>1, <3>2
  <2> QED BY <2>2, <2>3 DEF Within
<1>16. y.free >= x.free - 1
  BY <1>2, <1>4 DEF OneStored
<1> QED BY <1>2, <1>12, <1>13, <1>14, <1>15, <1>16 DEF Quiet, k

\* Two states that differ in the counts of uses only, and in the dirtiness of slot i
Alike(x, y, j) ==
  /\ y.cache[j].obj = x.cache[j].obj /\ y.cache[j].chunk = x.cache[j].chunk
  /\ y.cache[j].n = x.cache[j].n /\ y.cache[j].data = x.cache[j].data
SameRest(x, y) == y.stored = x.stored /\ y.free = x.free /\ y.size = x.size /\ y.dirty = x.dirty

LEMMA UseIs ==
  ASSUME device \in Devices, NEW x \in State, NEW i \in Slot, NEW write \in BOOLEAN,
         NEW y, y = use_cache(x, i, write)
  PROVE  /\ y \in State /\ SameRest(x, y)
         /\ \A j \in Slot : Alike(x, y, j) /\ (j # i => y.cache[j].dirty = x.cache[j].dirty)
         /\ y.cache[i].dirty = (x.cache[i].dirty \/ write)
<1> DEFINE wrap == x.lastUse > UseLimit
           last == IF wrap THEN 1 ELSE x.lastUse + 1
           ca == IF wrap THEN [j \in Slot |-> IF j = 1 THEN x.cache[j] ELSE [x.cache[j] EXCEPT !.use = 0]] ELSE x.cache
           z == [x EXCEPT !.cache = ca]
           k == [ca[i] EXCEPT !.use = last, !.dirty = ca[i].dirty \/ write]
<1>1. x.cache \in [Slot -> SlotRecord] /\ x.lastUse \in Nat /\ \A j \in Slot : x.cache[j] \in SlotRecord
  BY StateFields
<1>2. last \in Nat
  BY <1>1
<1>3. y = [z EXCEPT !.lastUse = last, !.cache = [ca EXCEPT ![i] = k]]
  <2>1. x = [x EXCEPT !.cache = x.cache]
    BY DEF State
  <2>2. z.cache = ca
    BY DEF State
  <2>3. y = [z EXCEPT !.lastUse = last, !.cache[i] = [z.cache[i] EXCEPT !.use = last, !.dirty = z.cache[i].dirty \/ write]]
    BY <2>1 DEF use_cache
  <2> DEFINE zc == z.cache
             k2 == [zc[i] EXCEPT !.use = last, !.dirty = zc[i].dirty \/ write]
  <2>4. y = [z EXCEPT !.lastUse = last, !.cache = [zc EXCEPT ![i] = k2]]
    <3>1. y = [z EXCEPT !.lastUse = last, !.cache[i] = k2]
      BY <2>3
    <3> HIDE DEF z, last, k2
    <3> QED BY <3>1
  <2>5. zc = ca
    BY <2>2
  <2> HIDE DEF zc, ca, last
  <2> QED BY <2>4, <2>5
<1> HIDE DEF last, wrap
<1>4. ASSUME NEW j \in Slot
      PROVE  /\ ca[j] \in SlotRecord /\ ca[j].obj = x.cache[j].obj /\ ca[j].chunk = x.cache[j].chunk
             /\ ca[j].n = x.cache[j].n /\ ca[j].data = x.cache[j].data /\ ca[j].dirty = x.cache[j].dirty
  <2>1. x.cache[j] \in SlotRecord
    BY <1>1
  <2> QED BY <2>1 DEF SlotRecord
<1>5. ca \in [Slot -> SlotRecord]
  <2>1. DOMAIN ca = Slot /\ ca = [j \in Slot |-> ca[j]]
    BY <1>1
  <2> HIDE DEF ca
  <2> QED BY <1>4, <2>1
<1> HIDE DEF ca
<1>6. /\ k \in SlotRecord /\ k.obj = ca[i].obj /\ k.chunk = ca[i].chunk /\ k.n = ca[i].n /\ k.data = ca[i].data
      /\ k.dirty = (ca[i].dirty \/ write)
  BY <1>2, <1>4 DEF SlotRecord
<1> HIDE DEF k
<1> DEFINE cb == [ca EXCEPT ![i] = k]
<1>7. cb \in [Slot -> SlotRecord] /\ cb[i] = k /\ \A j \in Slot : j # i => cb[j] = ca[j]
  BY <1>5, <1>6
<1>8. y = [x EXCEPT !.lastUse = last, !.cache = cb]
  BY <1>3
<1> HIDE DEF cb
<1>9. y \in State /\ y.cache = cb /\ SameRest(x, y)
  BY <1>2, <1>7, <1>8 DEF State, SameRest
<1>10. y.cache[i].dirty = (x.cache[i].dirty \/ write)
  BY <1>4, <1>6, <1>7, <1>9
<1>11. ASSUME NEW j \in Slot PROVE Alike(x, y, j) /\ (j # i => y.cache[j].dirty = x.cache[j].dirty)
  <2>1. CASE j = i
    BY <2>1, <1>4, <1>6, <1>7, <1>9 DEF Alike
  <2>2. CASE j # i
    BY <2>2, <1>4, <1>7, <1>9 DEF Alike
  <2> QED BY <2>1, <2>2
<1> QED BY <1>9, <1>10, <1>11

LEMMA AlikeSingle ==
  ASSUME device \in Devices, NEW x, NEW y, x \in State, y \in State, Single(x), \A j \in Slot : Alike(x, y, j),
         y.stored = x.stored
  PROVE  /\ Single(y)
         /\ \A o, c : \A j \in Slot : Held(y, j, o, c) <=> Held(x, j, o, c)
         /\ \A o \in Files, c \in ChunkNo : View(y, o, c) = View(x, o, c)
<1>1. \A o, c : \A j \in Slot : Held(y, j, o, c) <=> Held(x, j, o, c)
  BY DEF Held, Alike
<1>2. Single(y)
  BY <1>1 DEF Single, Alike
<1>3. ASSUME NEW o \in Files, NEW c \in ChunkNo PROVE View(y, o, c) = View(x, o, c)
  <2>1. CASE \E j \in Slot : Held(x, j, o, c)
    <3>1. PICK j \in Slot : Held(x, j, o, c)
      BY <2>1
    <3>2. Held(y, j, o, c) /\ y.cache[j].data = x.cache[j].data
      BY <3>1, <1>1 DEF Alike
    <3>3. View(y, o, c) = y.cache[j].data /\ View(x, o, c) = x.cache[j].data
      BY <3>1, <3>2, <1>2, ViewIs
    <3> QED BY <3>2, <3>3
  <2>2. CASE \A j \in Slot : ~Held(x, j, o, c)
    <3>1. \A j \in Slot : ~Held(y, j, o, c)
      BY <2>2, <1>1
    <3>2. View(y, o, c) = y.stored[o][c].data /\ View(x, o, c) = x.stored[o][c].data
      BY <2>2, <3>1, <1>2, ViewIs
    <3> QED BY <3>2
  <2> QED BY <2>1, <2>2
<1> QED BY <1>1, <1>2, <1>3

LEMMA AlikeQuiet ==
  ASSUME device \in Devices, NEW x, NEW y, Sound(x), y \in State, SameRest(x, y),
         \A j \in Slot : Alike(x, y, j) /\ y.cache[j].dirty = x.cache[j].dirty
  PROVE  Quiet(x, y)
<1>1. /\ x \in State /\ Single(x) /\ (\A j \in Slot : SlotSound(x, j)) /\ Covered(x)
      /\ \A o \in Files, c \in ChunkNo : x.stored[o][c].n = 0 => x.stored[o][c] = Hole
  BY DEF Sound
<1>2. y.stored = x.stored /\ y.free = x.free /\ y.size = x.size /\ y.dirty = x.dirty
  BY DEF SameRest
<1>3. Single(y) /\ \A o \in Files, c \in ChunkNo : View(y, o, c) = View(x, o, c)
  BY <1>1, <1>2, AlikeSingle
<1>4. ASSUME NEW j \in Slot PROVE SlotSound(y, j)
  <2>1. SlotSound(x, j) /\ Alike(x, y, j) /\ y.cache[j].dirty = x.cache[j].dirty
    BY <1>1
  <2> QED BY <2>1, <1>2 DEF SlotSound, Alike
<1>5. Needy(y) \subseteq Needy(x)
  BY <1>2 DEF Needy, Alike
<1>6. Covered(y)
  BY <1>1, <1>2, <1>5, CoveredKeeps, StateFields
<1>7. Sound(y)
  BY <1>1, <1>2, <1>3, <1>4, <1>6 DEF Sound
<1>8. Kept(x, y)
  BY <1>2 DEF Kept
<1>9. \A o \in Files : IsDirty(y, o) => IsDirty(x, o)
  BY DEF IsDirty, Alike
<1>10. \A len \in [Files -> Nat] : Within(x, len) => Within(y, len)
  BY <1>2 DEF Within, Alike
<1> QED BY <1>2, <1>3, <1>7, <1>8, <1>9, <1>10 DEF Quiet

-----------------------------------------------------------------------------
(* A chunk in a slot                                                       *)

WithSlot(x, i, k) == [x EXCEPT !.cache[i] = k]

LEMMA SlotSet ==
  ASSUME NEW x \in State, NEW i \in Slot, NEW k \in SlotRecord, NEW y, y = WithSlot(x, i, k)
  PROVE  /\ y \in State /\ SameRest(x, y) /\ y.lastUse = x.lastUse
         /\ y.cache[i] = k /\ \A j \in Slot : j # i => y.cache[j] = x.cache[j]
<1> DEFINE ca == [x.cache EXCEPT ![i] = k]
<1>1. x.cache \in [Slot -> SlotRecord]
  BY StateFields
<1>2. ca \in [Slot -> SlotRecord] /\ ca[i] = k /\ \A j \in Slot : j # i => ca[j] = x.cache[j]
  BY <1>1
<1>3. y = [x EXCEPT !.cache = ca]
  BY DEF WithSlot
<1> HIDE DEF ca
<1>4. y \in State /\ y.cache = ca /\ SameRest(x, y) /\ y.lastUse = x.lastUse
  BY <1>2, <1>3 DEF State, SameRest
<1> QED BY <1>2, <1>4

LEMMA VictimIs ==
  ASSUME device \in Devices, NCaches > 0, NEW x \in State
  PROVE  Victim(x) \in Slot
<1> DEFINE free == {i \in Slot : x.cache[i].obj = "none"}
           oldest == {i \in Slot : \A j \in Slot : x.cache[i].use <= x.cache[j].use}
           uses == {x.cache[i].use : i \in Slot}
<1>1. Slot \in SUBSET Nat /\ 1 \in Slot
  BY DevFacts DEF Slot
<1>2. \A i \in Slot : x.cache[i].use \in Nat
  BY StateFields
<1>3. oldest # {}
  <2>1. uses \in SUBSET Nat /\ uses # {}
    BY <1>1, <1>2
  <2>2. PICK m \in uses : \A u \in uses : m <= u
    <3> HIDE DEF uses
    <3> QED BY <2>1, LeastNat
  <2>3. PICK i \in Slot : m = x.cache[i].use
    BY <2>2
  <2> QED BY <2>2, <2>3
<1>4. free \in SUBSET Nat /\ free \subseteq Slot /\ oldest \in SUBSET Nat /\ oldest \subseteq Slot
  BY <1>1
<1>5. Victim(x) = IF free # {} THEN Min(free) ELSE Min(oldest)
  BY DEF Victim
<1> HIDE DEF free, oldest
<1>6. free # {} => Min(free) \in free
  BY <1>4, MinIs
<1>7. Min(oldest) \in oldest
  BY <1>3, <1>4, MinIs
<1> QED BY <1>4, <1>5, <1>6, <1>7

LEMMA GrabIs ==
  ASSUME device \in Devices, NCaches > 0, NEW x, Sound(x), NEW g, g = grab_chunk_cache(x)
  PROVE  /\ g.i \in Slot /\ Quiet(x, g.x)
         /\ g.x.cache[g.i].obj = "none"
         /\ \A j \in Slot : j # g.i => g.x.cache[j] = x.cache[j]
         /\ g.x.free >= x.free - 1
<1> DEFINE i == Victim(x)
           y == flush_single_cache(x, i, TRUE)
<1>1. x \in State /\ x.free \in Nat
  BY StateFields DEF Sound
<1>2. i \in Slot
  BY <1>1, VictimIs
<1>3. g.i = i /\ g.x = IF x.cache[i].obj = "none" THEN x ELSE y
  BY DEF grab_chunk_cache
<1> HIDE DEF i
<1>4. CASE x.cache[i].obj = "none"
  BY <1>1, <1>2, <1>3, <1>4, QuietSelf
<1>5. CASE x.cache[i].obj # "none"
  <2>1. y = flush_single_cache(x, i, TRUE) /\ TRUE \in BOOLEAN
    OBVIOUS
  <2> HIDE DEF y
  <2>2. /\ Quiet(x, y) /\ y.free >= x.free - 1 /\ y.cache[i] = Free
        /\ \A j \in Slot : j # i => y.cache[j] = x.cache[j]
    <3> DEFINE discard == TRUE
    <3>1. discard \in BOOLEAN /\ y = flush_single_cache(x, i, discard)
      BY <2>1
    <3>2. /\ Quiet(x, y) /\ y.free >= x.free - 1
          /\ y.cache[i] = IF discard THEN Free ELSE [x.cache[i] EXCEPT !.dirty = FALSE]
          /\ \A j \in Slot : j # i => y.cache[j] = x.cache[j]
      <4> HIDE DEF discard
      <4> QED BY <3>1, <1>2, <1>5, FlushSlot
    <3> QED BY <3>2
  <2>3. Free.obj = "none"
    BY DEF Free
  <2> QED BY <2>2, <2>3, <1>2, <1>3, <1>5
<1> QED BY <1>4, <1>5

(* A clean copy of what is stored in a slot that was empty.                  *)
LEMMA PutClean ==
  ASSUME device \in Devices, NEW x, Sound(x), NEW i \in Slot, x.cache[i].obj = "none",
         NEW o \in Files, NEW c \in ChunkNo, \A j \in Slot : ~Held(x, j, o, c),
         NEW y, y \in State, SameRest(x, y), Held(y, i, o, c), ~y.cache[i].dirty,
         y.cache[i].data = x.stored[o][c].data, \A j \in Slot : j # i => y.cache[j] = x.cache[j]
  PROVE  Quiet(x, y)
<1>1. /\ x \in State /\ Single(x) /\ (\A j \in Slot : SlotSound(x, j)) /\ Covered(x)
      /\ \A p \in Files, d \in ChunkNo : x.stored[p][d].n = 0 => x.stored[p][d] = Hole
  BY DEF Sound
<1> DEFINE k == y.cache[i]
<1>3. k.obj = o /\ k.chunk = c /\ ~k.dirty /\ k.data = x.stored[o][c].data
  BY DEF Held
<1>5. /\ y \in State /\ y.cache[i] = k /\ \A j \in Slot : j # i => y.cache[j] = x.cache[j]
  OBVIOUS
<1> HIDE DEF k
<1>6. y.stored = x.stored /\ y.free = x.free /\ y.size = x.size /\ y.dirty = x.dirty
  BY DEF SameRest
<1>7. Held(y, i, o, c) /\ \A j \in Slot : j # i => ~Held(y, j, o, c)
  BY <1>3, <1>5 DEF Held
<1>8. Single(y)
  <2> SUFFICES ASSUME NEW a \in Slot, NEW b \in Slot, y.cache[a].obj # "none",
                      y.cache[a].obj = y.cache[b].obj, y.cache[a].chunk = y.cache[b].chunk
               PROVE  a = b
    BY DEF Single, Held
  <2>1. CASE a # i /\ b # i
    BY <2>1, <1>1, <1>5 DEF Single, Held
  <2>2. CASE a = i \/ b = i
    BY <2>2, <1>3, <1>5, <1>7 DEF Held
  <2> QED BY <2>1, <2>2
<1>9. ASSUME NEW j \in Slot PROVE SlotSound(y, j)
  <2>1. CASE j = i
    BY <2>1, <1>3, <1>5, <1>6, DevFacts DEF SlotSound
  <2>2. CASE j # i
    <3>1. SlotSound(x, j) /\ y.cache[j] = x.cache[j]
      BY <2>2, <1>1, <1>5
    <3> QED BY <3>1, <1>6 DEF SlotSound
  <2> QED BY <2>1, <2>2
<1>10. Needy(y) \subseteq Needy(x)
  BY <1>3, <1>5, <1>6 DEF Needy
<1>11. Covered(y)
  <2>1. x.free \in Nat /\ y.free \in Nat /\ y.free >= x.free
    BY <1>1, <1>5, <1>6, StateFields
  <2> QED BY <2>1, <1>1, <1>10, CoveredKeeps
<1>12. Sound(y) /\ Kept(x, y)
  BY <1>1, <1>5, <1>6, <1>8, <1>9, <1>11 DEF Sound, Kept
<1>13. ASSUME NEW p \in Files, NEW d \in ChunkNo PROVE View(y, p, d) = View(x, p, d)
  <2>1. CASE p = o /\ d = c
    <3>1. View(y, p, d) = y.cache[i].data /\ View(x, p, d) = x.stored[p][d].data
      BY <2>1, <1>1, <1>5, <1>7, <1>8, ViewIs
    <3> QED BY <3>1, <2>1, <1>3, <1>5
  <2>2. CASE ~(p = o /\ d = c)
    <3>1. \A j \in Slot : Held(y, j, p, d) <=> Held(x, j, p, d) /\ j # i
      BY <2>2, <1>3, <1>5, DevFacts DEF Held
    <3>2. CASE \E j \in Slot : Held(x, j, p, d)
      <4>1. PICK j \in Slot : Held(x, j, p, d)
        BY <3>2
      <4>2. j # i
        BY <4>1, DevFacts DEF Held
      <4>3. View(y, p, d) = y.cache[j].data /\ View(x, p, d) = x.cache[j].data
        BY <4>1, <4>2, <3>1, <1>1, <1>5, <1>8, ViewIs
      <4> QED BY <4>2, <4>3, <1>5
    <3>3. CASE \A j \in Slot : ~Held(x, j, p, d)
      <4>1. View(y, p, d) = y.stored[p][d].data /\ View(x, p, d) = x.stored[p][d].data
        BY <3>1, <3>3, <1>1, <1>5, <1>8, ViewIs
      <4> QED BY <4>1, <1>6
    <3> QED BY <3>2, <3>3
  <2> QED BY <2>1, <2>2
<1>14. \A p \in Files : IsDirty(y, p) => IsDirty(x, p)
  BY <1>3, <1>5 DEF IsDirty
<1>15. ASSUME NEW len \in [Files -> Nat], Within(x, len) PROVE Within(y, len)
  <2>1. ASSUME NEW j \in Slot
        PROVE  /\ y.cache[j].dirty => Reaches(y.cache[j].chunk, y.cache[j].n, len[y.cache[j].obj])
               /\ y.cache[j].obj # "none" => ZerosFrom(y.cache[j].data, y.cache[j].chunk, len[y.cache[j].obj])
    <3>1. ZerosFrom(x.stored[o][c].data, c, len[o])
      BY <1>15 DEF Within
    <3>2. CASE j = i
      BY <3>1, <3>2, <1>3, <1>5
    <3>3. CASE j # i
      BY <3>3, <1>5, <1>15 DEF Within
    <3> QED BY <3>2, <3>3
  <2> QED BY <2>1, <1>6, <1>15 DEF Within
<1> QED BY <1>6, <1>12, <1>13, <1>14, <1>15 DEF Quiet

LEMMA LoadIs ==
  ASSUME device \in Devices, NCaches > 0, NEW x, Sound(x), NEW o \in Files, NEW c \in ChunkNo,
         \A j \in Slot : ~Held(x, j, o, c), NEW k, k = Load(x, o, c)
  PROVE  /\ k.i \in Slot /\ Quiet(x, k.x) /\ Held(k.x, k.i, o, c) /\ k.x.cache[k.i].data = View(x, o, c)
         /\ k.x.free >= x.free - 1
<1> DEFINE g == grab_chunk_cache(x)
           d == g.x.stored[o][c].data
           r == [Free EXCEPT !.obj = o, !.chunk = c, !.data = d]
           z == [g.x EXCEPT !.cache[g.i] = r]
<1>1. k.x = z /\ k.i = g.i
  BY DEF Load, rd_data_obj
<1>2. /\ g.i \in Slot /\ Quiet(x, g.x) /\ g.x.cache[g.i].obj = "none"
      /\ \A j \in Slot : j # g.i => g.x.cache[j] = x.cache[j]
      /\ g.x.free >= x.free - 1
  <2>1. g = grab_chunk_cache(x)
    OBVIOUS
  <2> HIDE DEF g
  <2> QED BY <2>1, GrabIs
<1> HIDE DEF g
<1>3. g.x \in State /\ Sound(g.x)
  BY <1>2 DEF Quiet, Sound
<1>4. d \in Bytes /\ c \in Nat
  <2> DEFINE y == g.x
  <2>1. y \in State /\ c \in Nat
    BY <1>3, DevFacts DEF ChunkNo
  <2> HIDE DEF y
  <2>2. y.stored[o][c].data \in Bytes
    BY <2>1, StateFields
  <2> QED BY <2>1, <2>2 DEF y
<1> HIDE DEF d
<1>5. r \in SlotRecord /\ r.obj = o /\ r.chunk = c /\ ~r.dirty /\ r.data = d
  BY <1>4, ZerosType DEF SlotRecord, Free
<1> HIDE DEF r
<1>6. /\ z \in State /\ SameRest(g.x, z) /\ z.cache[g.i] = r
      /\ \A j \in Slot : j # g.i => z.cache[j] = g.x.cache[j]
  <2> DEFINE y == g.x  i == g.i
  <2>1. y \in State /\ i \in Slot /\ z = WithSlot(y, i, r)
    BY <1>2, <1>3 DEF WithSlot
  <2> HIDE DEF y, i, z
  <2>2. /\ z \in State /\ SameRest(y, z) /\ z.cache[i] = r
        /\ \A j \in Slot : j # i => z.cache[j] = y.cache[j]
    BY <2>1, <1>5, SlotSet
  <2> QED BY <2>2 DEF y, i
<1> HIDE DEF z
<1>7. \A j \in Slot : ~Held(g.x, j, o, c)
  BY <1>2, DevFacts DEF Held
<1>8. View(g.x, o, c) = d /\ View(g.x, o, c) = View(x, o, c)
  <2>1. View(g.x, o, c) = d
    BY <1>3, <1>7, ViewIs DEF Sound, d
  <2> QED BY <2>1, <1>2 DEF Quiet
<1>9. Held(z, g.i, o, c) /\ z.cache[g.i].data = d /\ ~z.cache[g.i].dirty
  BY <1>5, <1>6 DEF Held
<1>10. Quiet(g.x, z)
  <2> DEFINE y == g.x  i == g.i
  <2>1. /\ Sound(y) /\ i \in Slot /\ y.cache[i].obj = "none" /\ (\A j \in Slot : ~Held(y, j, o, c))
        /\ z \in State /\ SameRest(y, z) /\ Held(z, i, o, c) /\ ~z.cache[i].dirty
        /\ z.cache[i].data = y.stored[o][c].data /\ \A j \in Slot : j # i => z.cache[j] = y.cache[j]
    BY <1>2, <1>3, <1>6, <1>7, <1>9 DEF d
  <2> HIDE DEF y, i
  <2>2. Quiet(y, z)
    BY <2>1, PutClean
  <2> QED BY <2>2 DEF y
<1>11. Quiet(x, z)
  BY <1>2, <1>10, QuietTrans
<1>12. z.free = g.x.free
  BY <1>6 DEF SameRest
<1> QED BY <1>1, <1>2, <1>8, <1>9, <1>11, <1>12

LEMMA FetchIs ==
  ASSUME device \in Devices, NCaches > 0, NEW x, Sound(x), NEW o \in Files, NEW c \in ChunkNo,
         NEW k, k = Fetch(x, o, c)
  PROVE  /\ k.i \in Slot /\ Quiet(x, k.x) /\ Held(k.x, k.i, o, c) /\ k.x.cache[k.i].data = View(x, o, c)
         /\ k.x.free >= x.free - 1
         /\ find_chunk_cache(x, o, c) # 0 => k.x = x /\ k.i = find_chunk_cache(x, o, c)
<1> DEFINE hit == find_chunk_cache(x, o, c)
<1>1. x \in State /\ Single(x) /\ x.free \in Nat
  BY StateFields DEF Sound
<1>2. k = IF hit # 0 THEN [x |-> x, i |-> hit] ELSE Load(x, o, c)
  BY DEF Fetch
<1>3. /\ \A i \in Slot : Held(x, i, o, c) => hit = i
      /\ (\A i \in Slot : ~Held(x, i, o, c)) <=> hit = 0
      /\ hit # 0 => hit \in Slot /\ Held(x, hit, o, c)
  BY <1>1, Found
<1> HIDE DEF hit
<1>4. CASE hit # 0
  <2>1. k.x = x /\ k.i = hit
    BY <1>2, <1>4
  <2>2. View(x, o, c) = x.cache[hit].data
    BY <1>1, <1>3, <1>4, ViewIs
  <2> QED BY <2>1, <2>2, <1>1, <1>3, <1>4, QuietSelf DEF hit
<1>5. CASE hit = 0
  <2>1. k = Load(x, o, c) /\ \A i \in Slot : ~Held(x, i, o, c)
    BY <1>2, <1>3, <1>5
  <2>2. /\ k.i \in Slot /\ Quiet(x, k.x) /\ Held(k.x, k.i, o, c) /\ k.x.cache[k.i].data = View(x, o, c)
        /\ k.x.free >= x.free - 1
    BY <2>1, LoadIs
  <2> QED BY <2>2, <1>5 DEF hit
<1> QED BY <1>4, <1>5

(* Reading a chunk is seen by nobody, and returns what is to be seen.        *)
LEMMA ReadChunk ==
  ASSUME device \in Devices, NEW x, Sound(x), NEW o \in Files, NEW c \in ChunkNo, NEW n,
         NEW r, r = rd_chunk(x, o, c, n)
  PROVE  Quiet(x, r.x) /\ r.data = View(x, o, c)
<1> DEFINE hit == find_chunk_cache(x, o, c)
           k == Fetch(x, o, c)
           u == use_cache(k.x, k.i, FALSE)
<1>1. x \in State /\ Single(x)
  BY DEF Sound
<1>2. r = IF Direct(hit, n) THEN [x |-> x, data |-> x.stored[o][c].data] ELSE [x |-> u, data |-> u.cache[k.i].data]
  BY DEF rd_chunk, rd_data_obj
<1>3. CASE Direct(hit, n)
  <2>1. r.x = x /\ r.data = x.stored[o][c].data
    BY <1>2, <1>3
  <2>2. \A i \in Slot : ~Held(x, i, o, c)
    <3>1. CASE NCaches = 0
      BY <3>1 DEF Slot
    <3>2. CASE hit = 0
      BY <3>2, <1>1, Found
    <3> QED BY <3>1, <3>2, <1>3 DEF Direct
  <2> QED BY <2>1, <2>2, <1>1, ViewIs, QuietSelf
<1>4. CASE ~Direct(hit, n)
  <2>0. NCaches > 0
    BY <1>4, DevFacts DEF Direct
  <2>1. r.x = u /\ r.data = u.cache[k.i].data
    BY <1>2, <1>4
  <2>2. k = Fetch(x, o, c) /\ u = use_cache(k.x, k.i, FALSE)
    OBVIOUS
  <2> HIDE DEF hit, k, u
  <2>3. k.i \in Slot /\ Quiet(x, k.x) /\ k.x.cache[k.i].data = View(x, o, c)
    BY <2>0, <2>2, FetchIs
  <2> DEFINE y == k.x  i == k.i  f == FALSE
  <2>4. Sound(y) /\ y \in State /\ i \in Slot /\ f \in BOOLEAN /\ u = use_cache(y, i, f)
    BY <2>2, <2>3 DEF Quiet, Sound
  <2>5. /\ u \in State /\ SameRest(y, u)
        /\ \A j \in Slot : Alike(y, u, j) /\ (j # i => u.cache[j].dirty = y.cache[j].dirty)
        /\ u.cache[i].dirty = (y.cache[i].dirty \/ f)
    <3> HIDE DEF y, i, f
    <3> QED BY <2>4, UseIs
  <2>6. \A j \in Slot : y.cache[j].dirty \in BOOLEAN /\ u.cache[j].dirty \in BOOLEAN
    <3> HIDE DEF y
    <3> QED BY <2>4, <2>5, StateFields
  <2>7. \A j \in Slot : Alike(y, u, j) /\ u.cache[j].dirty = y.cache[j].dirty
    BY <2>5, <2>6
  <2> HIDE DEF y, i
  <2>8. Quiet(y, u)
    BY <2>4, <2>5, <2>7, AlikeQuiet
  <2>9. u.cache[i].data = y.cache[i].data
    BY <2>4, <2>7 DEF Alike
  <2>10. Quiet(x, u)
    BY <2>3, <2>8, QuietTrans DEF y
  <2> QED BY <2>1, <2>3, <2>9, <2>10 DEF y, i
<1> QED BY <1>3, <1>4

-----------------------------------------------------------------------------
(* Writing a chunk                                                         *)

\* In y the chunk c of o has the content data, of n bytes if it is not just what
\* is stored (n = 0); nobody notices anything else.
Wrote(x, y, o, c, data, n) ==
  /\ Sound(y) /\ Kept(x, y)
  /\ View(y, o, c) = data /\ y.stored[o][c].data \in {x.stored[o][c].data, View(x, o, c), data}
  /\ \A p \in Files, d \in ChunkNo :
       p # o \/ d # c => /\ View(y, p, d) = View(x, p, d)
                         /\ y.stored[p][d].data \in {x.stored[p][d].data, View(x, p, d)}
  /\ \A p \in Files : IsDirty(y, p) => IsDirty(x, p) \/ p = o
  /\ \A len \in [Files -> Nat] :
       Within(x, len) /\ (n # 0 => Reaches(c, n, len[o])) /\ ZerosFrom(data, c, len[o]) => Within(y, len)

\* A slot that held the chunk is empty, or has its new content.
NewSlot(y, j, o, c, data, n) ==
  \/ y.cache[j].obj = "none" /\ ~y.cache[j].dirty
  \/ Held(y, j, o, c) /\ y.cache[j].dirty /\ y.cache[j].data = data /\ y.cache[j].n = n /\ n >= 1
SameSlot(x, y, j) == Alike(x, y, j) /\ y.cache[j].dirty = x.cache[j].dirty
NewStored(x, y, o, c, data, n) ==
  \/ y.stored[o][c] = x.stored[o][c]
  \/ y.stored[o][c].n = n /\ y.stored[o][c].data = data /\ n >= 1

LEMMA OneChunk ==
  ASSUME device \in Devices, NEW x, Sound(x), NEW y, Kept(x, y), Covered(y),
         NEW o \in Files, NEW c \in ChunkNo, NEW data, NEW n \in Nat,
         \A j \in Slot : IF Held(x, j, o, c) THEN NewSlot(y, j, o, c, data, n) ELSE SameSlot(x, y, j),
         \A p \in Files, d \in ChunkNo : p # o \/ d # c => y.stored[p][d] = x.stored[p][d],
         NewStored(x, y, o, c, data, n),
         (\E j \in Slot : Held(y, j, o, c)) \/ y.stored[o][c].data = data
  PROVE  Wrote(x, y, o, c, data, n)
<1>1. /\ x \in State /\ Single(x) /\ (\A j \in Slot : SlotSound(x, j)) /\ y \in State /\ o # "none"
      /\ \A p \in Files, d \in ChunkNo : x.stored[p][d].n = 0 => x.stored[p][d] = Hole
  BY DevFacts DEF Sound, Kept
<1>2. ASSUME NEW j \in Slot, Held(x, j, o, c) PROVE NewSlot(y, j, o, c, data, n)
  BY <1>2
<1>3. ASSUME NEW j \in Slot, ~Held(x, j, o, c)
      PROVE  Alike(x, y, j) /\ y.cache[j].dirty = x.cache[j].dirty
  BY <1>3 DEF SameSlot
<1>4. \A i, j \in Slot : Held(x, i, o, c) /\ Held(x, j, o, c) => i = j
  BY <1>1 DEF Single, Held
<1>5. ASSUME NEW j \in Slot, Held(y, j, o, c)
      PROVE  Held(x, j, o, c) /\ y.cache[j].dirty /\ y.cache[j].data = data /\ y.cache[j].n = n /\ n >= 1
  <2>1. Held(x, j, o, c)
    BY <1>3, <1>5 DEF Held, Alike
  <2> QED BY <2>1, <1>1, <1>2, <1>5 DEF NewSlot, Held
<1>6. ASSUME NEW j \in Slot, NEW p, NEW d, p # "none", p # o \/ d # c
      PROVE  Held(y, j, p, d) <=> Held(x, j, p, d)
  <2>1. CASE Held(x, j, o, c)
    BY <2>1, <1>2, <1>6 DEF NewSlot, Held
  <2>2. CASE ~Held(x, j, o, c)
    BY <2>2, <1>3 DEF Held, Alike
  <2> QED BY <2>1, <2>2
<1>7. Single(y)
  <2> SUFFICES ASSUME NEW a \in Slot, NEW b \in Slot, y.cache[a].obj # "none",
                      Held(y, a, y.cache[b].obj, y.cache[b].chunk)
               PROVE  a = b
    BY DEF Single
  <2> DEFINE p == y.cache[b].obj  d == y.cache[b].chunk
  <2>1. Held(y, a, p, d) /\ Held(y, b, p, d) /\ p # "none"
    BY DEF Held
  <2> HIDE DEF p, d
  <2>2. CASE p = o /\ d = c
    BY <2>1, <2>2, <1>4, <1>5
  <2>3. CASE ~(p = o /\ d = c)
    <3>1. Held(x, a, p, d) /\ Held(x, b, p, d)
      BY <2>1, <2>3, <1>6
    <3> QED BY <3>1, <2>1, <1>1 DEF Single, Held
  <2> QED BY <2>2, <2>3
<1>8. ASSUME NEW j \in Slot PROVE SlotSound(y, j)
  <2>1. CASE Held(x, j, o, c)
    <3>1. c \in ChunkNo /\ NewSlot(y, j, o, c, data, n)
      BY <2>1, <1>2
    <3>2. CASE y.cache[j].obj = "none" /\ ~y.cache[j].dirty
      BY <3>2 DEF SlotSound
    <3>3. CASE Held(y, j, o, c) /\ y.cache[j].dirty /\ y.cache[j].n = n /\ n >= 1
      BY <3>1, <3>3, <1>1 DEF SlotSound, Held
    <3> QED BY <3>1, <3>2, <3>3 DEF NewSlot
  <2>2. CASE ~Held(x, j, o, c)
    <3>1. Alike(x, y, j) /\ y.cache[j].dirty = x.cache[j].dirty /\ SlotSound(x, j)
      BY <2>2, <1>1, <1>3
    <3>2. x.cache[j].obj # "none" =>
            y.stored[x.cache[j].obj][x.cache[j].chunk] = x.stored[x.cache[j].obj][x.cache[j].chunk]
      <4> DEFINE p == x.cache[j].obj  d == x.cache[j].chunk
      <4>1. p # "none" => p \in Files /\ d \in ChunkNo
        BY <3>1, <1>1, StateFields DEF SlotSound
      <4>2. p # o \/ d # c
        BY <2>2 DEF Held
      <4> HIDE DEF p, d
      <4>3. p # "none" => y.stored[p][d] = x.stored[p][d]
        BY <4>1, <4>2
      <4> QED BY <4>3 DEF p, d
    <3> QED BY <3>1, <3>2 DEF SlotSound, Alike
  <2> QED BY <2>1, <2>2
<1>9. ASSUME NEW p \in Files, NEW d \in ChunkNo, y.stored[p][d].n = 0 PROVE y.stored[p][d] = Hole
  <2>1. CASE p # o \/ d # c
    BY <2>1, <1>1, <1>9
  <2>2. CASE p = o /\ d = c
    BY <2>2, <1>1, <1>9 DEF NewStored
  <2> QED BY <2>1, <2>2
<1>10. Sound(y)
  BY <1>1, <1>7, <1>8, <1>9 DEF Sound
<1>11. View(y, o, c) = data
  <2>1. CASE \E j \in Slot : Held(y, j, o, c)
    <3>1. PICK j \in Slot : Held(y, j, o, c)
      BY <2>1
    <3>2. View(y, o, c) = y.cache[j].data
      BY <3>1, <1>1, <1>7, ViewIs
    <3> QED BY <3>1, <3>2, <1>5
  <2>2. CASE \A j \in Slot : ~Held(y, j, o, c)
    <3>1. View(y, o, c) = y.stored[o][c].data
      BY <2>2, <1>1, <1>7, ViewIs
    <3> QED BY <2>2, <3>1
  <2> QED BY <2>1, <2>2
<1>12. ASSUME NEW p \in Files, NEW d \in ChunkNo, p # o \/ d # c
       PROVE  View(y, p, d) = View(x, p, d) /\ y.stored[p][d] = x.stored[p][d]
  <2>1. p # "none" /\ y.stored[p][d] = x.stored[p][d]
    BY <1>12, DevFacts
  <2>2. CASE \E j \in Slot : Held(x, j, p, d)
    <3>1. PICK j \in Slot : Held(x, j, p, d)
      BY <2>2
    <3>2. ~Held(x, j, o, c) /\ Held(y, j, p, d)
      BY <3>1, <2>1, <1>6, <1>12 DEF Held
    <3>3. View(y, p, d) = y.cache[j].data /\ View(x, p, d) = x.cache[j].data
      BY <3>1, <3>2, <1>1, <1>7, ViewIs
    <3>4. y.cache[j].data = x.cache[j].data
      BY <3>2, <1>3 DEF Alike
    <3> QED BY <2>1, <3>3, <3>4
  <2>3. CASE \A j \in Slot : ~Held(x, j, p, d)
    <3>1. \A j \in Slot : ~Held(y, j, p, d)
      BY <2>1, <2>3, <1>6, <1>12
    <3>2. View(y, p, d) = y.stored[p][d].data /\ View(x, p, d) = x.stored[p][d].data
      BY <2>3, <3>1, <1>1, <1>7, ViewIs
    <3> QED BY <2>1, <3>2
  <2> QED BY <2>2, <2>3
<1>13. ASSUME NEW p \in Files, IsDirty(y, p), p # o PROVE IsDirty(x, p)
  <2>1. PICK j \in Slot : y.cache[j].dirty /\ y.cache[j].obj = p
    BY <1>13 DEF IsDirty
  <2>2. ~Held(x, j, o, c)
    BY <2>1, <1>2, <1>13 DEF NewSlot, Held
  <2> QED BY <2>1, <2>2, <1>3 DEF IsDirty, Alike
<1>14. ASSUME NEW len \in [Files -> Nat], Within(x, len), n # 0 => Reaches(c, n, len[o]), ZerosFrom(data, c, len[o])
       PROVE  Within(y, len)
  <2>1. ASSUME NEW p \in Files, NEW d \in ChunkNo
        PROVE  /\ y.stored[p][d].n # 0 => Reaches(d, y.stored[p][d].n, len[p])
               /\ ZerosFrom(y.stored[p][d].data, d, len[p])
    <3>1. CASE y.stored[p][d] = x.stored[p][d]
      BY <3>1, <1>14 DEF Within
    <3>2. CASE y.stored[p][d] # x.stored[p][d]
      <4>1. p = o /\ d = c
        BY <3>2, <1>12
      <4>2. y.stored[o][c].n = n /\ y.stored[o][c].data = data
        BY <4>1, <3>2 DEF NewStored
      <4> QED BY <4>1, <4>2, <1>14
    <3> QED BY <3>1, <3>2
  <2>2. ASSUME NEW j \in Slot
        PROVE  /\ y.cache[j].dirty => Reaches(y.cache[j].chunk, y.cache[j].n, len[y.cache[j].obj])
               /\ y.cache[j].obj # "none" => ZerosFrom(y.cache[j].data, y.cache[j].chunk, len[y.cache[j].obj])
    <3>1. CASE Held(x, j, o, c)
      <4>1. CASE y.cache[j].obj = "none" /\ ~y.cache[j].dirty
        BY <4>1
      <4>2. CASE Held(y, j, o, c) /\ y.cache[j].data = data /\ y.cache[j].n = n /\ n >= 1
        <5>1. Reaches(c, n, len[o]) /\ ZerosFrom(data, c, len[o])
          BY <4>2, <1>14
        <5> QED BY <4>2, <5>1 DEF Held
      <4> QED BY <3>1, <4>1, <4>2, <1>2 DEF NewSlot
    <3>2. CASE ~Held(x, j, o, c)
      <4>1. Alike(x, y, j) /\ y.cache[j].dirty = x.cache[j].dirty
        BY <3>2, <1>3
      <4>2. /\ x.cache[j].dirty => Reaches(x.cache[j].chunk, x.cache[j].n, len[x.cache[j].obj])
            /\ x.cache[j].obj # "none" => ZerosFrom(x.cache[j].data, x.cache[j].chunk, len[x.cache[j].obj])
        BY <1>14 DEF Within
      <4> QED BY <4>1, <4>2 DEF Alike
    <3> QED BY <3>1, <3>2
  <2> QED BY <2>1, <2>2 DEF Within
<1>15. y.stored[o][c].data \in {x.stored[o][c].data, View(x, o, c), data}
  BY DEF NewStored
<1> QED BY <1>10, <1>11, <1>12, <1>13, <1>14, <1>15 DEF Wrote

LEMMA QuietWrote ==
  ASSUME NEW x, NEW y, NEW z, NEW o \in Files, NEW c \in ChunkNo, NEW data, NEW n,
         Quiet(x, y), Wrote(y, z, o, c, data, n)
  PROVE  Wrote(x, z, o, c, data, n)
<1>1. Kept(x, z)
  BY KeptTrans DEF Quiet, Wrote
<1>2. ASSUME NEW p \in Files, NEW d \in ChunkNo, p # o \/ d # c
      PROVE  View(z, p, d) = View(x, p, d) /\ z.stored[p][d].data \in {x.stored[p][d].data, View(x, p, d)}
  BY <1>2 DEF Quiet, Wrote
<1>3. \A p \in Files : IsDirty(z, p) => IsDirty(x, p) \/ p = o
  BY DEF Quiet, Wrote
<1>4. \A len \in [Files -> Nat] :
        Within(x, len) /\ (n # 0 => Reaches(c, n, len[o])) /\ ZerosFrom(data, c, len[o]) => Within(z, len)
  BY DEF Quiet, Wrote
<1>5. z.stored[o][c].data \in {x.stored[o][c].data, View(x, o, c), data}
  BY DEF Quiet, Wrote
<1> QED BY <1>1, <1>2, <1>3, <1>4, <1>5 DEF Wrote

LEMMA WroteQuiet ==
  ASSUME NEW x, NEW y, NEW z, NEW o \in Files, NEW c \in ChunkNo, NEW data, NEW n,
         Wrote(x, y, o, c, data, n), Quiet(y, z)
  PROVE  Wrote(x, z, o, c, data, n)
<1>1. Kept(x, z)
  BY KeptTrans DEF Quiet, Wrote
<1>2. ASSUME NEW p \in Files, NEW d \in ChunkNo, p # o \/ d # c
      PROVE  View(z, p, d) = View(x, p, d) /\ z.stored[p][d].data \in {x.stored[p][d].data, View(x, p, d)}
  BY <1>2 DEF Quiet, Wrote
<1>3. \A p \in Files : IsDirty(z, p) => IsDirty(x, p) \/ p = o
  BY DEF Quiet, Wrote
<1>4. \A len \in [Files -> Nat] :
        Within(x, len) /\ (n # 0 => Reaches(c, n, len[o])) /\ ZerosFrom(data, c, len[o]) => Within(z, len)
  BY DEF Quiet, Wrote
<1>5. View(z, o, c) = data
  BY DEF Quiet, Wrote
<1>6. z.stored[o][c].data \in {x.stored[o][c].data, View(x, o, c), data}
  BY DEF Quiet, Wrote
<1> QED BY <1>1, <1>2, <1>3, <1>4, <1>5, <1>6 DEF Wrote, Quiet

(* What the cache and the flash hold decides all the rest.                   *)
LEMMA SameCache ==
  ASSUME device \in Devices, NEW x, Sound(x), NEW y \in State,
         y.cache = x.cache, y.stored = x.stored, y.free = x.free
  PROVE  /\ Sound(y) /\ \A o \in Files, c \in ChunkNo : View(y, o, c) = View(x, o, c)
         /\ \A o \in Files : IsDirty(y, o) <=> IsDirty(x, o)
         /\ \A len : Within(y, len) <=> Within(x, len)
<1>1. \A o, c : find_chunk_cache(y, o, c) = find_chunk_cache(x, o, c)
  BY DEF find_chunk_cache
<1>2. Needy(y) = Needy(x)
  BY DEF Needy
<1>3. Covered(y)
  BY <1>2 DEF Covered, Sound
<1>4. Single(y)
  BY DEF Single, Held, Sound
<1>5. Sound(y)
  BY <1>3, <1>4 DEF Sound, SlotSound
<1> QED BY <1>1, <1>5 DEF View, IsDirty, Within

\* The chunk takes no other chunk of the flash when it is written again.
Ready(x, o, c) ==
  IF NCaches = 0 THEN x.stored[o][c] # Hole ELSE \E i \in Slot : Held(x, i, o, c) /\ x.cache[i].dirty

\* What a write of data to a chunk has done
WroteChunk(x, w, o, c, data, n) ==
  /\ w.ok \in BOOLEAN
  /\ w.ok => Wrote(x, w.x, o, c, data, n)
  /\ ~w.ok => Quiet(x, w.x) \/ (Bypass /\ Wrote(x, w.x, o, c, x.stored[o][c].data, 0))
  /\ x.free > Reserve + 1 => w.ok

StoreSoft(x, o, c, data, n) == wr_data_obj(x, o, c, data, n, FALSE)

LEMMA SoftIs ==
  ASSUME device \in Devices, NEW x \in State, NEW o \in Files, NEW c \in ChunkNo, NEW data \in Bytes,
         NEW n \in Nat, NEW w, w = StoreSoft(x, o, c, data, n)
  PROVE  /\ w.ok \in BOOLEAN
         /\ w.ok <=> x.free > Reserve + 1
         /\ Kept(x, w.x) /\ w.x.cache = x.cache
         /\ w.ok => OneStored(x, w.x, o, c, n, data)
         /\ ~w.ok => w.x.stored = x.stored /\ w.x.free = x.free
<1> DEFINE r == FALSE
<1>1. r \in BOOLEAN /\ w = wr_data_obj(x, o, c, data, n, r)
  BY DEF StoreSoft
<1>2. /\ w.ok \in BOOLEAN
      /\ w.ok <=> (IF r THEN x.free > 0 ELSE x.free > Reserve + 1)
      /\ Kept(x, w.x) /\ w.x.cache = x.cache
      /\ w.ok => OneStored(x, w.x, o, c, n, data)
      /\ ~w.ok => w.x.stored = x.stored /\ w.x.free = x.free
  <2> HIDE DEF r
  <2> QED BY <1>1, StoreIs
<1> QED BY <1>2

LEMMA WrUncached ==
  ASSUME device \in Devices, NCaches = 0, NEW x, Sound(x), NEW o \in Files, NEW c \in ChunkNo, NEW data \in Bytes,
         NEW n \in Nat, n >= 1, NEW w, w = StoreSoft(x, o, c, data, n)
  PROVE  /\ WroteChunk(x, w, o, c, data, n)
         /\ w.x.free >= x.free - 1
         /\ Ready(x, o, c) => w.x.free >= x.free
         /\ w.ok => Ready(w.x, o, c)
<1>0. x \in State /\ x.free \in Nat /\ Slot = {}
  BY StateFields DEF Sound, Slot
<1>1. /\ w.ok \in BOOLEAN
      /\ w.ok <=> x.free > Reserve + 1
      /\ Kept(x, w.x) /\ w.x.cache = x.cache
      /\ w.ok => OneStored(x, w.x, o, c, n, data)
      /\ ~w.ok => w.x.stored = x.stored /\ w.x.free = x.free
  BY <1>0, SoftIs
<1>2. w.ok <=> x.free > Reserve + 1
  BY <1>1
<1> DEFINE y == w.x
<1>3. y \in State /\ y.free \in Nat
  <2>1. y \in State
    BY <1>1 DEF Kept
  <2> HIDE DEF y
  <2> QED BY <2>1, StateFields
<1>4. CASE w.ok
  <2>1. OneStored(x, y, o, c, n, data)
    BY <1>1, <1>4
  <2>2. y.free >= x.free - 1 /\ (x.stored[o][c] # Hole => y.free = x.free)
    BY <2>1, <1>0, <1>3 DEF OneStored
  <2>3. y.free > NCaches
    BY <2>2, <1>0, <1>2, <1>3, <1>4, DevFacts
  <2>4. Covered(y)
    <3> HIDE DEF y
    <3> QED BY <2>3, <1>0, <1>3, CoveredKeeps
  <2>5. /\ \A p \in Files, d \in ChunkNo : p # o \/ d # c => y.stored[p][d] = x.stored[p][d]
        /\ y.stored[o][c].n = n /\ y.stored[o][c].data = data
    BY <2>1 DEF OneStored
  <2>6. Wrote(x, y, o, c, data, n)
    <3>1. Kept(x, y) /\ NewStored(x, y, o, c, data, n)
      BY <2>5, <1>1 DEF NewStored
    <3> HIDE DEF y
    <3>2. \A j \in Slot : IF Held(x, j, o, c) THEN NewSlot(y, j, o, c, data, n) ELSE SameSlot(x, y, j)
      BY <1>0
    <3> QED BY <3>1, <3>2, <2>4, <2>5, OneChunk
  <2>7. y.stored[o][c] # Hole
    BY <2>5, DevFacts DEF Hole
  <2>8. WroteChunk(x, w, o, c, data, n)
    BY <2>2, <2>6, <1>1, <1>2, <1>4 DEF WroteChunk
  <2>9. Ready(w.x, o, c) /\ (Ready(x, o, c) => w.x.free >= x.free)
    BY <2>2, <2>7, <1>0 DEF Ready
  <2> QED BY <2>2, <2>8, <2>9
<1>5. CASE ~w.ok
  <2>1. Kept(x, y) /\ y.cache = x.cache /\ y.stored = x.stored /\ y.free = x.free
    BY <1>1, <1>5
  <2>2. Quiet(x, y)
    <3> HIDE DEF y
    <3>1. /\ Sound(y) /\ \A p \in Files, d \in ChunkNo : View(y, p, d) = View(x, p, d)
          /\ \A p \in Files : IsDirty(y, p) <=> IsDirty(x, p)
          /\ \A len : Within(y, len) <=> Within(x, len)
      BY <2>1, <1>3, SameCache
    <3> QED BY <3>1, <2>1 DEF Quiet
  <2> QED BY <2>1, <2>2, <1>0, <1>1, <1>2, <1>5 DEF WroteChunk
<1> QED BY <1>1, <1>4, <1>5

(* A whole chunk past the cache.                                             *)
LEMMA InvalidateIs ==
  ASSUME device \in Devices, NEW x \in State, Single(x), NEW o \in Files, NEW c \in ChunkNo,
         NEW y, y = invalidate_chunk_cache(x, o, c)
  PROVE  /\ y \in State /\ SameRest(x, y)
         /\ \A j \in Slot : IF Held(x, j, o, c) THEN y.cache[j] = Free ELSE y.cache[j] = x.cache[j]
<1> DEFINE i == find_chunk_cache(x, o, c)
<1>1. y = IF i = 0 THEN x ELSE WithSlot(x, i, Free)
  BY DEF invalidate_chunk_cache, WithSlot
<1>2. /\ \A j \in Slot : Held(x, j, o, c) => i = j
      /\ (\A j \in Slot : ~Held(x, j, o, c)) <=> i = 0
      /\ i # 0 => i \in Slot /\ Held(x, i, o, c)
  BY Found
<1> HIDE DEF i
<1>3. CASE i = 0
  BY <1>1, <1>2, <1>3 DEF SameRest
<1>4. CASE i # 0
  <2> DEFINE k == Free
  <2>1. k \in SlotRecord /\ i \in Slot /\ y = WithSlot(x, i, k)
    BY <1>1, <1>2, <1>4, ZerosType
  <2> HIDE DEF k
  <2>2. /\ y \in State /\ SameRest(x, y)
        /\ y.cache[i] = k /\ \A j \in Slot : j # i => y.cache[j] = x.cache[j]
    BY <2>1, SlotSet
  <2> QED BY <2>2, <1>2, <1>4 DEF k
<1> QED BY <1>3, <1>4

LEMMA WrBypass ==
  ASSUME device \in Devices, NEW x, Sound(x), NEW o \in Files, NEW c \in ChunkNo, NEW v \in Nat, Bypass,
         NEW w, w = wr_bypass(x, o, c, v)
  PROVE  WroteChunk(x, w, o, c, [i \in 0 .. CS - 1 |-> v], CS) /\ w.x.free >= x.free - 1
<1> DEFINE data == [i \in 0 .. CS - 1 |-> v]
           n == CS
           u == StoreSoft(x, o, c, data, n)
           a == u.x
           y == w.x
<1>0. x \in State /\ Single(x) /\ x.free \in Nat /\ Covered(x)
  BY StateFields DEF Sound
<1>1. data \in Bytes /\ n \in Nat /\ n >= 1
  BY DevFacts DEF Bytes
<1>2. w.ok = u.ok /\ y = invalidate_chunk_cache(a, o, c) 
  <2>1. w = [u EXCEPT !.x = invalidate_chunk_cache(a, o, c)]
    BY DEF wr_bypass, StoreSoft
  <2>2. DOMAIN u = {"x", "ok"}
    BY DEF StoreSoft, wr_data_obj
  <2> HIDE DEF u
  <2> QED BY <2>1, <2>2
<1>3. /\ u.ok \in BOOLEAN
      /\ u.ok <=> x.free > Reserve + 1
      /\ Kept(x, a) /\ a.cache = x.cache
      /\ u.ok => OneStored(x, a, o, c, n, data)
      /\ ~u.ok => a.stored = x.stored /\ a.free = x.free
  <2>1. u = StoreSoft(x, o, c, data, n)
    OBVIOUS
  <2> HIDE DEF u, data, n
  <2> QED BY <2>1, <1>0, <1>1, SoftIs
<1> HIDE DEF data, n, u, a, y
<1>4. a \in State /\ Single(a) /\ \A j \in Slot : Held(a, j, o, c) <=> Held(x, j, o, c)
  BY <1>0, <1>3 DEF Kept, Single, Held
<1>5. /\ y \in State /\ SameRest(a, y)
      /\ \A j \in Slot : IF Held(a, j, o, c) THEN y.cache[j] = Free ELSE y.cache[j] = a.cache[j]
  BY <1>2, <1>4, InvalidateIs
<1>6. Kept(x, y) /\ y.stored = a.stored /\ y.free = a.free /\ y.free \in Nat
  <2>1. y.free \in Nat
    BY <1>5, StateFields
  <2> QED BY <2>1, <1>3, <1>5 DEF Kept, SameRest
<1>7. \A j \in Slot : IF Held(x, j, o, c) THEN y.cache[j].obj = "none" /\ ~y.cache[j].dirty ELSE y.cache[j] = x.cache[j]
  <2>1. Free.obj = "none" /\ ~Free.dirty
    BY DEF Free
  <2> QED BY <2>1, <1>3, <1>4, <1>5
<1>8. \A d, m : \A j \in Slot : IF Held(x, j, o, c) THEN NewSlot(y, j, o, c, d, m) ELSE SameSlot(x, y, j)
  BY <1>7 DEF NewSlot, SameSlot, Alike
<1>9. CASE w.ok
  <2>1. u.ok /\ OneStored(x, y, o, c, n, data)
    BY <1>2, <1>3, <1>6, <1>9 DEF OneStored
  <2>2. y.free >= x.free - 1
    BY <2>1, <1>0, <1>6 DEF OneStored
  <2>3. y.free > NCaches
    BY <2>1, <2>2, <1>0, <1>3, <1>6, DevFacts
  <2>4. Covered(y)
    BY <2>3, <1>0, <1>6, CoveredKeeps
  <2>5. /\ \A p \in Files, d \in ChunkNo : p # o \/ d # c => y.stored[p][d] = x.stored[p][d]
        /\ y.stored[o][c].n = n /\ y.stored[o][c].data = data
    BY <2>1 DEF OneStored
  <2>6. NewStored(x, y, o, c, data, n)
    BY <2>5, <1>1 DEF NewStored
  <2>7. Wrote(x, y, o, c, data, n)
    BY <2>4, <2>5, <2>6, <1>1, <1>6, <1>8, OneChunk
  <2>8. WroteChunk(x, w, o, c, data, n)
    BY <2>2, <2>7, <1>2, <1>3, <1>9 DEF WroteChunk, y
  <2> QED BY <2>2, <2>8 DEF data, n, y
<1>10. CASE ~w.ok
  <2>1. y.stored = x.stored /\ y.free = x.free /\ ~(x.free > Reserve + 1)
    BY <1>2, <1>3, <1>6, <1>10
  <2>2. Needy(y) \subseteq Needy(x)
    BY <2>1, <1>7 DEF Needy
  <2>3. Covered(y)
    <3>1. y.free >= x.free
      BY <2>1, <1>0
    <3> QED BY <3>1, <2>2, <1>0, <1>6, CoveredKeeps
  <2> DEFINE e == x.stored[o][c].data  m == 0
  <2>4. NewStored(x, y, o, c, e, m) /\ y.stored[o][c].data = e /\ m \in Nat
    BY <2>1 DEF NewStored
  <2>5. \A p \in Files, d \in ChunkNo : p # o \/ d # c => y.stored[p][d] = x.stored[p][d]
    BY <2>1
  <2>6. Wrote(x, y, o, c, e, m)
    <3> HIDE DEF e, m
    <3> QED BY <2>3, <2>4, <2>5, <1>6, <1>8, OneChunk
  <2>7. Bypass /\ Wrote(x, y, o, c, x.stored[o][c].data, 0)
    BY <2>6
  <2> QED BY <2>1, <2>7, <1>0, <1>2, <1>3, <1>10 DEF WroteChunk, y
<1> QED BY <1>2, <1>3, <1>9, <1>10

(* The bytes of a piece, and how much of the chunk is written.               *)
LEMMA MaxMin ==
  ASSUME NEW a \in Int, NEW b \in Int
  PROVE  /\ Max({a, b}) = IF a >= b THEN a ELSE b
         /\ Min({a, b}) = IF a <= b THEN a ELSE b
<1>1. Max({a, b}) \in {a, b} /\ \A z \in {a, b} : Max({a, b}) >= z
  <2> DEFINE S == {a, b}
  <2>1. \E m \in S : \A z \in S : m >= z
    OBVIOUS
  <2> HIDE DEF S
  <2>2. Max(S) \in S /\ \A z \in S : Max(S) >= z
    BY <2>1 DEF Max
  <2> QED BY <2>2 DEF S
<1>2. Min({a, b}) \in {a, b} /\ \A z \in {a, b} : Min({a, b}) <= z
  <2> DEFINE S == {a, b}
  <2>1. \E m \in S : \A z \in S : m <= z
    OBVIOUS
  <2> HIDE DEF S
  <2>2. Min(S) \in S /\ \A z \in S : Min(S) <= z
    BY <2>1 DEF Min
  <2> QED BY <2>2 DEF S
<1> QED BY <1>1, <1>2

LEMMA FilledIs ==
  ASSUME device \in Devices, NEW d \in Bytes, NEW start \in Nat, NEW n \in Nat, NEW v \in Nat
  PROVE  /\ Filled(d, start, n, v) \in Bytes
         /\ \A j \in 0 .. CS - 1 : Filled(d, start, n, v)[j] = IF j >= start /\ j < start + n THEN v ELSE d[j]
BY DEF Filled, Bytes

LEMMA WritebackIs ==
  ASSUME device \in Devices, NEW x \in State, NEW o \in Files, NEW c \in ChunkNo, NEW start \in Nat, NEW n \in Nat, n >= 1,
         NEW m, m = writeback(x, o, c, start, n)
  PROVE  /\ m \in Nat /\ m >= 1
         /\ \A l \in Nat : l >= x.size[o].file /\ l >= (c - 1) * CS + (IF start + n < CS THEN start + n ELSE CS)
                           => Reaches(c, m, l)
<1> DEFINE first == (c - 1) * CS
           z == x.size[o].file
           had == IF first > z THEN 0 ELSE Min({z - first, CS})
<1>1. z \in Nat /\ first \in Nat /\ CS \in Nat /\ CS >= 1
  <2>1. c \in Nat \ {0}
    BY DevFacts DEF ChunkNo
  <2>2. CS \in Nat /\ CS >= 1
    BY DevFacts
  <2>3. (c - 1) * CS \in Nat
    BY <2>1, <2>2
  <2> QED BY <2>2, <2>3, StateFields
<1>2. m = IF start + n < CS THEN Max({had, start + n}) ELSE CS
  BY DEF writeback
<1> HIDE DEF first, z
<1>3. had \in Nat /\ had <= CS /\ (had > 0 => first + had <= z)
  <2> DEFINE e == z - first
  <2>1. e \in Int
    BY <1>1
  <2>2. Min({e, CS}) = IF e <= CS THEN e ELSE CS
    <3> HIDE DEF e
    <3> QED BY <2>1, <1>1, MaxMin
  <2> QED BY <2>2, <1>1
<1> HIDE DEF had
<1>4. Max({had, start + n}) = IF had >= start + n THEN had ELSE start + n
  <2> DEFINE e == start + n
  <2>1. e \in Int /\ had \in Int
    BY <1>3
  <2> HIDE DEF e
  <2>2. Max({had, e}) = IF had >= e THEN had ELSE e
    BY <2>1, MaxMin
  <2> QED BY <2>2 DEF e
<1>5. m \in Nat /\ m >= 1
  BY <1>1, <1>2, <1>3, <1>4
<1>6. ASSUME NEW l \in Nat, l >= z, l >= first + (IF start + n < CS THEN start + n ELSE CS)
      PROVE  m <= CS /\ first + m <= l
  BY <1>1, <1>2, <1>3, <1>4, <1>6
<1> QED BY <1>5, <1>6 DEF Reaches, first, z

(* A chunk in its slot is changed and dirty.                                 *)
LEMMA PutDirty ==
  ASSUME device \in Devices, NEW x, Sound(x), NEW o \in Files, NEW c \in ChunkNo, NEW i \in Slot, Held(x, i, o, c),
         NEW y, Kept(x, y), SameRest(x, y), Covered(y), NEW data, NEW n \in Nat, n >= 1,
         Held(y, i, o, c), y.cache[i].dirty, y.cache[i].data = data, y.cache[i].n = n,
         \A j \in Slot : j # i => SameSlot(x, y, j)
  PROVE  Wrote(x, y, o, c, data, n)
<1>1. Single(x) /\ o # "none" /\ y.stored = x.stored
  BY DevFacts DEF Sound, SameRest
<1>2. \A j \in Slot : IF Held(x, j, o, c) THEN NewSlot(y, j, o, c, data, n) ELSE SameSlot(x, y, j)
  <2> SUFFICES ASSUME NEW j \in Slot
               PROVE  IF Held(x, j, o, c) THEN NewSlot(y, j, o, c, data, n) ELSE SameSlot(x, y, j)
    OBVIOUS
  <2>1. Held(x, j, o, c) => j = i
    BY <1>1 DEF Single, Held
  <2> QED BY <2>1 DEF NewSlot
<1>3. NewStored(x, y, o, c, data, n)
  BY <1>1 DEF NewStored
<1>4. \A p \in Files, d \in ChunkNo : p # o \/ d # c => y.stored[p][d] = x.stored[p][d]
  BY <1>1
<1> QED BY <1>2, <1>3, <1>4, OneChunk

(* use_cache and the change of the content, from a state x with the chunk in *)
(* slot i.                                                                   *)
Used(x, i) == use_cache(x, i, TRUE)

LEMMA ChangeIs ==
  ASSUME device \in Devices, NEW x \in State, NEW i \in Slot, NEW o \in Files, NEW c, Held(x, i, o, c),
         NEW data \in Bytes, NEW n \in Nat, NEW y, y = Change(Used(x, i), i, data, n)
  PROVE  /\ y \in State /\ SameRest(x, y) /\ Kept(x, y)
         /\ Held(y, i, o, c) /\ y.cache[i].dirty /\ y.cache[i].data = data /\ y.cache[i].n = n
         /\ \A j \in Slot : j # i => SameSlot(x, y, j)
         /\ Used(x, i).cache[i].data = x.cache[i].data
         /\ \A p \in Files : Used(x, i).size[p].file = x.size[p].file
<1> DEFINE u == Used(x, i)
           t == TRUE
           k == u.cache[i]
           k2 == [k EXCEPT !.data = data, !.n = n]
<1>1. /\ u \in State /\ SameRest(x, u)
      /\ \A j \in Slot : Alike(x, u, j) /\ (j # i => u.cache[j].dirty = x.cache[j].dirty)
      /\ u.cache[i].dirty = (x.cache[i].dirty \/ t)
  <2>1. u = use_cache(x, i, t) /\ t \in BOOLEAN
    BY DEF Used
  <2> HIDE DEF u, t
  <2> QED BY <2>1, UseIs
<1>2. y = WithSlot(u, i, k2)
  BY DEF Change, WithSlot
<1> HIDE DEF u
<1>3. k \in SlotRecord /\ k.dirty
  BY <1>1, StateFields
<1>4. k2 \in SlotRecord /\ k2.dirty /\ k2.data = data /\ k2.n = n /\ k2.obj = k.obj /\ k2.chunk = k.chunk
  <2> HIDE DEF k
  <2> QED BY <1>3 DEF SlotRecord
<1> HIDE DEF k2
<1>5. /\ y \in State /\ SameRest(u, y)
      /\ y.cache[i] = k2 /\ \A j \in Slot : j # i => y.cache[j] = u.cache[j]
  BY <1>1, <1>2, <1>4, SlotSet
<1>6. SameRest(x, y) /\ Kept(x, y)
  BY <1>1, <1>5 DEF SameRest, Kept
<1>7. Held(y, i, o, c)
  BY <1>1, <1>4, <1>5 DEF Held, Alike
<1>8. \A j \in Slot : j # i => SameSlot(x, y, j)
  BY <1>1, <1>5 DEF SameSlot, Alike
<1>9. u.cache[i].data = x.cache[i].data /\ \A p \in Files : u.size[p].file = x.size[p].file
  BY <1>1 DEF Alike, SameRest
<1> QED BY <1>4, <1>5, <1>6, <1>7, <1>8, <1>9 DEF u

StoreHard(x, o, c, data, n) == wr_data_obj(x, o, c, data, n, TRUE)
Cleaned(x, i) == [x EXCEPT !.cache[i].dirty = FALSE]

LEMMA HardIs ==
  ASSUME device \in Devices, NEW x \in State, NEW o \in Files, NEW c \in ChunkNo, NEW data \in Bytes,
         NEW n \in Nat, NEW w, w = StoreHard(x, o, c, data, n)
  PROVE  /\ w.ok \in BOOLEAN
         /\ w.ok <=> x.free > 0
         /\ Kept(x, w.x) /\ w.x.cache = x.cache
         /\ w.ok => OneStored(x, w.x, o, c, n, data)
         /\ ~w.ok => w.x.stored = x.stored /\ w.x.free = x.free
<1> DEFINE r == TRUE
<1>1. r \in BOOLEAN /\ w = wr_data_obj(x, o, c, data, n, r)
  BY DEF StoreHard
<1>2. /\ w.ok \in BOOLEAN
      /\ w.ok <=> (IF r THEN x.free > 0 ELSE x.free > Reserve + 1)
      /\ Kept(x, w.x) /\ w.x.cache = x.cache
      /\ w.ok => OneStored(x, w.x, o, c, n, data)
      /\ ~w.ok => w.x.stored = x.stored /\ w.x.free = x.free
  <2> HIDE DEF r
  <2> QED BY <1>1, StoreIs
<1> QED BY <1>2

LEMMA WriteThrough ==
  ASSUME device \in Devices, NEW x, Sound(x), NEW i \in Slot, NEW o \in Files, NEW c \in ChunkNo,
         Held(x, i, o, c), x.cache[i].dirty, NEW w, w = StoreHard(x, o, c, x.cache[i].data, x.cache[i].n),
         NEW y, y = Cleaned(w.x, i)
  PROVE  w.ok /\ w.ok \in BOOLEAN /\ Quiet(x, y) /\ y.free >= x.free - 1
<1> DEFINE k == x.cache[i]  f == FALSE  data == k.data  n == k.n
<1>1. x \in State /\ Covered(x) /\ x.free \in Nat
  BY StateFields DEF Sound
<1>2. k.obj = o /\ k.chunk = c /\ k.dirty /\ k.data \in Bytes /\ k.n \in Nat
  BY <1>1, StateFields DEF Held
<1>3. w.ok \in BOOLEAN /\ w.ok /\ w.x.cache = x.cache
  <2>1. w = StoreHard(x, o, c, data, n) /\ data \in Bytes /\ n \in Nat
    BY <1>2
  <2>2. w.ok \in BOOLEAN /\ (w.ok <=> x.free > 0) /\ w.x.cache = x.cache
    <3> HIDE DEF k, data, n
    <3> QED BY <2>1, <1>1, HardIs
  <2>3. x.free > 0
    BY <1>1, CoveredKeeps
  <2> QED BY <2>2, <2>3
<1>4. y = flush_single_cache(x, i, f)
  <2>1. flush_single_cache(x, i, f) = [w.x EXCEPT !.cache[i] = [k EXCEPT !.dirty = FALSE]]
    BY <1>2 DEF flush_single_cache, StoreHard
  <2>2. y = [w.x EXCEPT !.cache[i] = [w.x.cache[i] EXCEPT !.dirty = FALSE]]
    BY DEF Cleaned
  <2>3. w.x.cache[i] = k
    BY <1>3
  <2> HIDE DEF k, f
  <2> QED BY <2>1, <2>2, <2>3
<1>5. f \in BOOLEAN /\ x.cache[i].obj # "none"
  BY <1>2, DevFacts
<1>6. Quiet(x, y) /\ y.free >= x.free - 1
  <2>1. /\ Quiet(x, y) /\ y.free >= x.free - 1
        /\ y.cache[i] = IF f THEN Free ELSE [x.cache[i] EXCEPT !.dirty = FALSE]
        /\ \A j \in Slot : j # i => y.cache[j] = x.cache[j]
    <3> HIDE DEF f
    <3> QED BY <1>4, <1>5, FlushSlot
  <2> QED BY <2>1
<1> QED BY <1>3, <1>6

\* The write of one chunk through the cache, from its parts
Cached(x, o, c, start, copy, n, v) ==
  LET k == Fetch(x, o, c)
      u == Used(k.x, k.i)
  IN  Change(u, k.i, Filled(u.cache[k.i].data, start, copy, v), writeback(u, o, c, start, n))

\* The chunk is in the slot i, dirty and with the new bytes.
CacheWrote(x, y, o, c, data, m, i) ==
  /\ Wrote(x, y, o, c, data, m) /\ i \in Slot /\ Held(y, i, o, c) /\ y.cache[i].dirty
  /\ y.free >= x.free - 1
  /\ Ready(x, o, c) => y.free = x.free
  /\ Ready(y, o, c)

LEMMA CachedIs ==
  ASSUME device \in Devices, NCaches > 0, NEW x, Sound(x), NEW o \in Files, NEW c \in ChunkNo,
         NEW start \in Nat, NEW copy \in Nat, NEW n \in Nat, n >= 1, NEW v \in Nat,
         NEW data, data = Filled(View(x, o, c), start, copy, v), NEW m, m = writeback(x, o, c, start, n),
         NEW hit, hit = find_chunk_cache(x, o, c), ~NoSpaceFor(x, hit),
         NEW y, y = Cached(x, o, c, start, copy, n, v), NEW i, i = Fetch(x, o, c).i
  PROVE  CacheWrote(x, y, o, c, data, m, i)
<1> SUFFICES /\ Wrote(x, y, o, c, data, m) /\ i \in Slot /\ Held(y, i, o, c) /\ y.cache[i].dirty
             /\ y.free >= x.free - 1
             /\ Ready(x, o, c) => y.free = x.free
             /\ Ready(y, o, c)
  BY DEF CacheWrote
<1> DEFINE k == Fetch(x, o, c)
           z == k.x
           u == Used(z, i)
<1>1. /\ i \in Slot /\ Quiet(x, z) /\ Held(z, i, o, c) /\ z.cache[i].data = View(x, o, c)
      /\ z.free >= x.free - 1
      /\ hit # 0 => z = x /\ i = hit
  <2>1. k = Fetch(x, o, c) /\ i = k.i
    OBVIOUS
  <2> HIDE DEF k
  <2> QED BY <2>1, FetchIs
<1>2. y = Change(u, i, Filled(u.cache[i].data, start, copy, v), writeback(u, o, c, start, n))
  BY DEF Cached
<1>3. x \in State /\ z \in State /\ Sound(z) /\ Single(x) /\ Covered(x)
  BY <1>1 DEF Quiet, Sound
<1> HIDE DEF z
<1>4. x.free \in Nat /\ z.free \in Nat /\ z.size[o].file = x.size[o].file
  <2>1. x.free \in Nat /\ z.free \in Nat
    BY <1>3, StateFields
  <2> QED BY <2>1, <1>1 DEF Quiet, Kept
<1>5. data \in Bytes /\ View(x, o, c) \in Bytes
  <2>1. View(x, o, c) \in Bytes
    BY ViewType
  <2> QED BY <2>1, FilledIs
<1>6. m \in Nat /\ m >= 1
  BY <1>3, WritebackIs
<1> DEFINE a == Change(u, i, data, m)
<1>7. /\ a \in State /\ SameRest(z, a) /\ Kept(z, a)
      /\ Held(a, i, o, c) /\ a.cache[i].dirty /\ a.cache[i].data = data /\ a.cache[i].n = m
      /\ \A j \in Slot : j # i => SameSlot(z, a, j)
      /\ u.cache[i].data = z.cache[i].data
      /\ \A p \in Files : u.size[p].file = z.size[p].file
  <2>1. a = Change(Used(z, i), i, data, m)
    OBVIOUS
  <2> HIDE DEF a
  <2> QED BY <2>1, <1>1, <1>3, <1>5, <1>6, ChangeIs
<1>8. y = a
  <2>1. u.cache[i].data = View(x, o, c) /\ u.size[o].file = x.size[o].file
    BY <1>1, <1>4, <1>7
  <2>2. writeback(u, o, c, start, n) = m
    BY <2>1 DEF writeback
  <2> HIDE DEF u
  <2> QED BY <2>1, <2>2, <1>2
<1> HIDE DEF a, u, k
<1>9. /\ y \in State /\ SameRest(z, y) /\ Kept(z, y)
      /\ Held(y, i, o, c) /\ y.cache[i].dirty /\ y.cache[i].data = data /\ y.cache[i].n = m
      /\ \A j \in Slot : j # i => SameSlot(z, y, j)
  BY <1>7, <1>8
<1>10. y.free = z.free /\ y.stored = z.stored
  BY <1>9 DEF SameRest
<1>11. ASSUME hit # 0, x.cache[hit].dirty PROVE Covered(y) /\ y.free = x.free
  <2>1. z = x /\ i = hit
    BY <1>1, <1>11
  <2>2. Needy(y) \subseteq Needy(x)
    <3> SUFFICES ASSUME NEW j \in Needy(y) PROVE j \in Needy(x)
      OBVIOUS
    <3>1. j \in Slot /\ y.cache[j].dirty /\ y.stored[y.cache[j].obj][y.cache[j].chunk] = Hole
      BY DEF Needy
    <3>2. CASE j = i
      BY <3>1, <3>2, <2>1, <1>1, <1>9, <1>10, <1>11 DEF Needy, Held
    <3>3. CASE j # i
      BY <3>1, <3>3, <2>1, <1>9, <1>10 DEF Needy, SameSlot, Alike
    <3> QED BY <3>2, <3>3
  <2>3. y.free = x.free /\ y.free >= x.free /\ y.free \in Nat
    BY <2>1, <1>4, <1>10
  <2> QED BY <2>2, <2>3, <1>3, <1>4, CoveredKeeps
<1>12. ASSUME ~(hit # 0 /\ x.cache[hit].dirty) PROVE Covered(y) /\ ~Ready(x, o, c)
  <2>1. x.free > Reserve + 1
    BY <1>12 DEF NoSpaceFor, check_alloc_available
  <2>2. y.free > NCaches /\ y.free \in Nat
    BY <2>1, <1>1, <1>4, <1>10, DevFacts
  <2>3. Covered(y)
    BY <2>2, <1>4, CoveredKeeps
  <2>4. ASSUME NEW j \in Slot, Held(x, j, o, c) PROVE ~x.cache[j].dirty
    <3>1. hit = j /\ j # 0
      BY <2>4, <1>3, Found, DevFacts DEF Slot
    <3> QED BY <3>1, <1>12
  <2> QED BY <2>3, <2>4, DevFacts DEF Ready
<1>13. Covered(y) /\ (Ready(x, o, c) => y.free = x.free) /\ y.free >= x.free - 1
  BY <1>1, <1>4, <1>10, <1>11, <1>12
<1>14. Wrote(z, y, o, c, data, m)
  BY <1>1, <1>3, <1>6, <1>9, <1>13, PutDirty
<1>15. Wrote(x, y, o, c, data, m)
  BY <1>1, <1>14, QuietWrote
<1>16. Ready(y, o, c)
  BY <1>1, <1>9, DevFacts DEF Ready
<1> QED BY <1>1, <1>9, <1>13, <1>15, <1>16

LEMMA WrChunkIs ==
  ASSUME device \in Devices, NEW x, Sound(x), NEW o \in Files, NEW c \in ChunkNo,
         NEW start \in 0 .. CS - 1, NEW n \in Nat, n >= 1, NEW copy, copy = (IF start + n < CS THEN n ELSE CS - start),
         NEW v \in Nat, NEW through \in BOOLEAN,
         NEW data, data = Filled(View(x, o, c), start, copy, v), NEW m, m = writeback(x, o, c, start, n),
         NEW w, w = wr_chunk(x, o, c, start, copy, n, v, through)
  PROVE  /\ WroteChunk(x, w, o, c, data, m)
         /\ ~through => w.x.free >= x.free - 1
         /\ ~through /\ copy < CS /\ Ready(x, o, c) => w.x.free >= x.free
         /\ ~through /\ copy < CS /\ w.ok => Ready(w.x, o, c)
<1>0. /\ x \in State /\ Single(x) /\ x.free \in Nat /\ CS \in Nat /\ CS >= 1 /\ start \in Nat
      /\ copy \in Nat /\ copy >= 1 /\ copy <= CS
  <2>1. x \in State /\ Single(x) /\ x.free \in Nat
    BY StateFields DEF Sound
  <2> QED BY <2>1, DevFacts
<1>1. /\ data \in Bytes /\ View(x, o, c) \in Bytes /\ m \in Nat /\ m >= 1
      /\ \A j \in 0 .. CS - 1 : data[j] = IF j >= start /\ j < start + copy THEN v ELSE View(x, o, c)[j]
  <2>1. View(x, o, c) \in Bytes
    BY ViewType
  <2>2. /\ data \in Bytes
        /\ \A j \in 0 .. CS - 1 : data[j] = IF j >= start /\ j < start + copy THEN v ELSE View(x, o, c)[j]
    <3> DEFINE d == View(x, o, c)
    <3>1. d \in Bytes /\ data = Filled(d, start, copy, v)
      BY <2>1
    <3> HIDE DEF d
    <3>2. Filled(d, start, copy, v) \in Bytes
      BY <3>1, <1>0, FilledIs
    <3>3. \A j \in 0 .. CS - 1 : Filled(d, start, copy, v)[j] = IF j >= start /\ j < start + copy THEN v ELSE d[j]
      BY <3>1 DEF Filled, Bytes
    <3> QED BY <3>1, <3>2, <3>3 DEF d
  <2>3. m \in Nat /\ m >= 1
    BY <1>0, WritebackIs
  <2> QED BY <2>1, <2>2, <2>3
<1>2. CASE copy = CS /\ Bypass
  <2>1. w = wr_bypass(x, o, c, v)
    BY <1>2 DEF wr_chunk
  <2>2. start = 0 /\ n >= CS
    BY <1>0, <1>2
  <2>3. m = CS
    BY <2>2, <1>0 DEF writeback
  <2>4. data = [i \in 0 .. CS - 1 |-> v]
    <3>1. \A j \in 0 .. CS - 1 : data[j] = v
      BY <1>1, <2>2, <1>0, <1>2
    <3>2. data = [j \in 0 .. CS - 1 |-> data[j]]
      BY <1>1 DEF Bytes
    <3> QED BY <3>1, <3>2
  <2>5. WroteChunk(x, w, o, c, [i \in 0 .. CS - 1 |-> v], CS) /\ w.x.free >= x.free - 1
    BY <2>1, <1>2, WrBypass
  <2>6. WroteChunk(x, w, o, c, data, m)
    BY <2>3, <2>4, <2>5
  <2> QED BY <2>5, <2>6, <1>0, <1>2
<1>3. CASE ~(copy = CS /\ Bypass) /\ NCaches = 0
  <2>1. View(x, o, c) = x.stored[o][c].data
    BY <1>0, <1>3, ViewIs DEF Slot
  <2>2. w = StoreSoft(x, o, c, data, m)
    BY <2>1, <1>3 DEF wr_chunk, wr_uncached, rd_data_obj, StoreSoft
  <2> QED BY <2>2, <1>1, <1>3, WrUncached
<1>4. CASE ~(copy = CS /\ Bypass) /\ NCaches # 0
  <2> DEFINE hit == find_chunk_cache(x, o, c)
             i == Fetch(x, o, c).i
             y == Cached(x, o, c, start, copy, n, v)
             u == StoreHard(y, o, c, y.cache[i].data, y.cache[i].n)
             z == Cleaned(u.x, i)
  <2>1. w = IF NoSpaceFor(x, hit) THEN [x |-> x, ok |-> FALSE]
            ELSE IF ~through THEN [x |-> y, ok |-> TRUE] ELSE [x |-> z, ok |-> u.ok]
    BY <1>4 DEF wr_chunk, wr_cached, With, Cached, Used, StoreHard, Cleaned
  <2>2. NCaches > 0
    BY <1>4, DevFacts
  <2>3. u = StoreHard(y, o, c, y.cache[i].data, y.cache[i].n) /\ z = Cleaned(u.x, i)
    OBVIOUS
  <2>4. /\ ~NoSpaceFor(x, hit) =>
             /\ Wrote(x, y, o, c, data, m) /\ i \in Slot /\ Held(y, i, o, c) /\ y.cache[i].dirty
             /\ y.free >= x.free - 1
             /\ Ready(x, o, c) => y.free = x.free
             /\ Ready(y, o, c)
        /\ NoSpaceFor(x, hit) => ~(x.free > Reserve + 1)
    <3>1. hit = find_chunk_cache(x, o, c) /\ i = Fetch(x, o, c).i /\ y = Cached(x, o, c, start, copy, n, v)
      OBVIOUS
    <3> HIDE DEF hit, i, y, u, z
    <3>2. NoSpaceFor(x, hit) => ~(x.free > Reserve + 1)
      BY DEF NoSpaceFor, check_alloc_available
    <3>3. ASSUME ~NoSpaceFor(x, hit)
          PROVE  /\ Wrote(x, y, o, c, data, m) /\ i \in Slot /\ Held(y, i, o, c) /\ y.cache[i].dirty
                 /\ y.free >= x.free - 1
                 /\ Ready(x, o, c) => y.free = x.free
                 /\ Ready(y, o, c)
      <4>1. start \in Nat /\ copy \in Nat
        BY <1>0
      <4>2. CacheWrote(x, y, o, c, data, m, i)
        BY <2>2, <3>1, <3>3, <4>1, CachedIs
      <4> QED BY <4>2 DEF CacheWrote
    <3> QED BY <3>2, <3>3
  <2> HIDE DEF hit, i, y, u, z
  <2>5. CASE NoSpaceFor(x, hit)
    <3>1. w = [x |-> x, ok |-> FALSE]
      BY <2>1, <2>5
    <3>2. w.x = x /\ w.ok = FALSE
      BY <3>1
    <3>3. Quiet(x, x)
      BY QuietSelf
    <3>4. WroteChunk(x, w, o, c, data, m)
      BY <2>4, <2>5, <3>2, <3>3 DEF WroteChunk
    <3> QED BY <3>2, <3>4, <1>0
  <2>6. CASE ~NoSpaceFor(x, hit) /\ ~through
    <3>1. w = [x |-> y, ok |-> TRUE]
      BY <2>1, <2>6
    <3>2. w.x = y /\ w.ok = TRUE
      BY <3>1
    <3>3. WroteChunk(x, w, o, c, data, m)
      BY <2>4, <2>6, <3>2 DEF WroteChunk
    <3> QED BY <2>4, <2>6, <3>2, <3>3, <1>0
  <2>7. CASE ~NoSpaceFor(x, hit) /\ through
    <3>1. Sound(y)
      BY <2>4, <2>7 DEF Wrote
    <3>2. u.ok /\ u.ok \in BOOLEAN /\ Quiet(y, z)
      BY <2>3, <2>4, <2>7, <3>1, WriteThrough
    <3>3. Wrote(x, z, o, c, data, m)
      BY <2>4, <2>7, <3>2, WroteQuiet
    <3>4. w = [x |-> z, ok |-> TRUE]
      BY <2>1, <2>7, <3>2
    <3>5. w.x = z /\ w.ok = TRUE
      BY <3>4
    <3>6. WroteChunk(x, w, o, c, data, m)
      BY <3>3, <3>5 DEF WroteChunk
    <3> QED BY <2>7, <3>6
  <2> QED BY <2>5, <2>6, <2>7
<1> QED BY <1>2, <1>3, <1>4



-----------------------------------------------------------------------------
(* The loops                                                               *)

IsList(f, n, S) == f \in [1 .. n -> S]

LEMMA ListIs ==
  ASSUME NEW S, NEW n \in Nat, NEW f, IsList(f, n, S)
  PROVE  f \in Seq(S) /\ Len(f) = n
<1> USE DEF IsList
<1>1. f \in Seq(S)
  BY SeqDef
<1>2. Len(f) \in Nat /\ DOMAIN f = 1 .. Len(f)
  BY <1>1, LenProperties
<1>3. 1 .. n = 1 .. Len(f)
  BY <1>2
<1>4. \A k \in Nat : k \in 1 .. n <=> k \in 1 .. Len(f)
  BY <1>3
<1>5. Len(f) <= n
  BY <1>2, <1>4
<1>6. n <= Len(f)
  BY <1>2, <1>4
<1> QED BY <1>1, <1>2, <1>5, <1>6

SlotList == [i \in Slot |-> i]
FlushFileBody(y, i, o, discard) == IF y.cache[i].obj = o THEN flush_single_cache(y, i, discard) ELSE y
FlushFileClosed(S, q, m, o, discard) == \A a \in S, k \in 1 .. m : FlushFileBody(a, q[k], o, discard) \in S
FlushFileRun(f, S, q, m, b, o, discard) ==
  f \in [0 .. m -> S] /\ f[0] = b /\ \A k \in 1 .. m : f[k] = FlushFileBody(f[k - 1], q[k], o, discard)

LEMMA FlushFileRuns ==
  ASSUME NEW x, NEW o, NEW discard,
         NEW q, q = SlotList, NEW m \in Nat, Len(q) = m,
         NEW b, b = x, NEW S, b \in S, FlushFileClosed(S, q, m, o, discard)
  PROVE  \E f : FlushFileRun(f, S, q, m, b, o, discard) /\ flush_file_cache(x, o, discard) = f[m]
<1> USE DEF FlushFileClosed
<1> DEFINE step == [a \in S \X (1 .. m) |-> FlushFileBody(a[1], q[a[2]], o, discard)]
           F(f) == f = [k \in 0 .. m |-> IF k = 0 THEN b ELSE FlushFileBody(f[k - 1], q[k], o, discard)]
<1>1. PICK f : Solves(f, S, b, m, step)
  <2>1. step \in [S \X (1 .. m) -> S]
    OBVIOUS
  <2>2. IsStep(S, m, step)
    BY <2>1 DEF IsStep
  <2> HIDE DEF step
  <2> QED BY <2>2, RecursionExists
<1>2. f \in [0 .. m -> S] /\ f[0] = b /\ \A k \in 1 .. m : f[k] = step[<<f[k - 1], k>>]
  BY <1>1 DEF Solves
<1>3. \A k \in 1 .. m : f[k] = FlushFileBody(f[k - 1], q[k], o, discard)
  <2> SUFFICES ASSUME NEW k \in 1 .. m PROVE f[k] = FlushFileBody(f[k - 1], q[k], o, discard)
    OBVIOUS
  <2>1. <<f[k - 1], k>> \in S \X (1 .. m)
    BY <1>2
  <2>2. step[<<f[k - 1], k>>] = FlushFileBody(f[k - 1], q[k], o, discard)
    BY <2>1
  <2> QED BY <1>2, <2>2
<1> HIDE DEF step
<1>4. F(f)
  <2>1. ASSUME NEW k \in 0 .. m PROVE f[k] = IF k = 0 THEN b ELSE FlushFileBody(f[k - 1], q[k], o, discard)
    <3>1. k = 0 \/ k \in 1 .. m
      OBVIOUS
    <3> QED BY <3>1, <1>2, <1>3, Zenon
  <2> QED BY <1>2, <2>1
<1> DEFINE W == CHOOSE g : F(g)
<1>5. F(W)
  <2> HIDE DEF F
  <2> QED BY <1>4
<1>6. flush_file_cache(x, o, discard) = W[m]
  BY DEF flush_file_cache, SlotList, FlushFileBody, Loop
<1> HIDE DEF W
<1>7. W = [k \in 0 .. m |-> IF k = 0 THEN b ELSE FlushFileBody(W[k - 1], q[k], o, discard)]
  BY <1>5
<1>8. W[0] = b /\ \A k \in 1 .. m : W[k] = FlushFileBody(W[k - 1], q[k], o, discard)
  <2>1. \A k \in 0 .. m : W[k] = IF k = 0 THEN b ELSE FlushFileBody(W[k - 1], q[k], o, discard)
    BY <1>7, Zenon
  <2>2. 0 \in 0 .. m /\ \A k \in 1 .. m : k \in 0 .. m /\ k # 0
    OBVIOUS
  <2> QED BY <2>1, <2>2, Zenon
<1> DEFINE U == {k \in 0 .. m : W[k] \in S}
<1>9. 0 \in U
  BY <1>8
<1>10. ASSUME NEW k \in 1 .. m, k - 1 \in U PROVE k \in U
  <2>1. k \in 0 .. m
    OBVIOUS
  <2>2. W[k] \in S
    BY <1>8, <1>10, Zenon
  <2> QED BY <2>1, <2>2
<1>11. \A k \in 0 .. m : k \in U
  <2> HIDE DEF U
  <2> QED BY <1>9, <1>10, UpTo
<1>12. W \in [0 .. m -> S]
  <2>1. \A k \in 0 .. m : W[k] \in S
    BY <1>11
  <2>2. W = [k \in 0 .. m |-> W[k]]
    BY <1>7
  <2> QED BY <2>1, <2>2
<1> QED BY <1>6, <1>8, <1>12 DEF FlushFileRun

FlushAllBody(y, i) == IF y.cache[i].obj # "none" THEN flush_file_cache(y, y.cache[i].obj, FALSE) ELSE y
FlushAllClosed(S, q, m) == \A a \in S, k \in 1 .. m : FlushAllBody(a, q[k]) \in S
FlushAllRun(f, S, q, m, b) ==
  f \in [0 .. m -> S] /\ f[0] = b /\ \A k \in 1 .. m : f[k] = FlushAllBody(f[k - 1], q[k])

LEMMA FlushAllRuns ==
  ASSUME NEW x,
         NEW q, q = SlotList, NEW m \in Nat, Len(q) = m,
         NEW b, b = x, NEW S, b \in S, FlushAllClosed(S, q, m)
  PROVE  \E f : FlushAllRun(f, S, q, m, b) /\ flush_whole_cache(x) = f[m]
<1> USE DEF FlushAllClosed
<1> DEFINE step == [a \in S \X (1 .. m) |-> FlushAllBody(a[1], q[a[2]])]
           F(f) == f = [k \in 0 .. m |-> IF k = 0 THEN b ELSE FlushAllBody(f[k - 1], q[k])]
<1>1. PICK f : Solves(f, S, b, m, step)
  <2>1. step \in [S \X (1 .. m) -> S]
    OBVIOUS
  <2>2. IsStep(S, m, step)
    BY <2>1 DEF IsStep
  <2> HIDE DEF step
  <2> QED BY <2>2, RecursionExists
<1>2. f \in [0 .. m -> S] /\ f[0] = b /\ \A k \in 1 .. m : f[k] = step[<<f[k - 1], k>>]
  BY <1>1 DEF Solves
<1>3. \A k \in 1 .. m : f[k] = FlushAllBody(f[k - 1], q[k])
  <2> SUFFICES ASSUME NEW k \in 1 .. m PROVE f[k] = FlushAllBody(f[k - 1], q[k])
    OBVIOUS
  <2>1. <<f[k - 1], k>> \in S \X (1 .. m)
    BY <1>2
  <2>2. step[<<f[k - 1], k>>] = FlushAllBody(f[k - 1], q[k])
    BY <2>1
  <2> QED BY <1>2, <2>2
<1> HIDE DEF step
<1>4. F(f)
  <2>1. ASSUME NEW k \in 0 .. m PROVE f[k] = IF k = 0 THEN b ELSE FlushAllBody(f[k - 1], q[k])
    <3>1. k = 0 \/ k \in 1 .. m
      OBVIOUS
    <3> QED BY <3>1, <1>2, <1>3, Zenon
  <2> QED BY <1>2, <2>1
<1> DEFINE W == CHOOSE g : F(g)
<1>5. F(W)
  <2> HIDE DEF F
  <2> QED BY <1>4
<1>6. flush_whole_cache(x) = W[m]
  BY DEF flush_whole_cache, SlotList, FlushAllBody, Loop
<1> HIDE DEF W
<1>7. W = [k \in 0 .. m |-> IF k = 0 THEN b ELSE FlushAllBody(W[k - 1], q[k])]
  BY <1>5
<1>8. W[0] = b /\ \A k \in 1 .. m : W[k] = FlushAllBody(W[k - 1], q[k])
  <2>1. \A k \in 0 .. m : W[k] = IF k = 0 THEN b ELSE FlushAllBody(W[k - 1], q[k])
    BY <1>7, Zenon
  <2>2. 0 \in 0 .. m /\ \A k \in 1 .. m : k \in 0 .. m /\ k # 0
    OBVIOUS
  <2> QED BY <2>1, <2>2, Zenon
<1> DEFINE U == {k \in 0 .. m : W[k] \in S}
<1>9. 0 \in U
  BY <1>8
<1>10. ASSUME NEW k \in 1 .. m, k - 1 \in U PROVE k \in U
  <2>1. k \in 0 .. m
    OBVIOUS
  <2>2. W[k] \in S
    BY <1>8, <1>10, Zenon
  <2> QED BY <2>1, <2>2
<1>11. \A k \in 0 .. m : k \in U
  <2> HIDE DEF U
  <2> QED BY <1>9, <1>10, UpTo
<1>12. W \in [0 .. m -> S]
  <2>1. \A k \in 0 .. m : W[k] \in S
    BY <1>11
  <2>2. W = [k \in 0 .. m |-> W[k]]
    BY <1>7
  <2> QED BY <2>1, <2>2
<1> QED BY <1>6, <1>8, <1>12 DEF FlushAllRun

ReadBase(x, offset, n) == [x |-> x, data |-> [i \in offset .. offset + n - 1 |-> 0]]
ReadBody(r, c, o, offset, n) ==
  LET now == rd_chunk(r.x, o, c, End(offset, n, c) - Begin(offset, c))
  IN  [x |-> now.x,
       data |-> [i \in offset .. offset + n - 1 |-> IF chunk_of(i) = c THEN now.data[start_of(i)] ELSE r.data[i]]]
ReadClosed(S, q, m, o, offset, n) == \A a \in S, k \in 1 .. m : ReadBody(a, q[k], o, offset, n) \in S
ReadRun(f, S, q, m, b, o, offset, n) ==
  f \in [0 .. m -> S] /\ f[0] = b /\ \A k \in 1 .. m : f[k] = ReadBody(f[k - 1], q[k], o, offset, n)

LEMMA ReadRuns ==
  ASSUME NEW x, NEW o, NEW offset, NEW n,
         NEW q, q = Chunks(offset, n), NEW m \in Nat, Len(q) = m,
         NEW b, b = ReadBase(x, offset, n), NEW S, b \in S, ReadClosed(S, q, m, o, offset, n)
  PROVE  \E f : ReadRun(f, S, q, m, b, o, offset, n) /\ file_rd(x, o, offset, n) = f[m]
<1> USE DEF ReadClosed
<1> DEFINE step == [a \in S \X (1 .. m) |-> ReadBody(a[1], q[a[2]], o, offset, n)]
           F(f) == f = [k \in 0 .. m |-> IF k = 0 THEN b ELSE ReadBody(f[k - 1], q[k], o, offset, n)]
<1>1. PICK f : Solves(f, S, b, m, step)
  <2>1. step \in [S \X (1 .. m) -> S]
    OBVIOUS
  <2>2. IsStep(S, m, step)
    BY <2>1 DEF IsStep
  <2> HIDE DEF step
  <2> QED BY <2>2, RecursionExists
<1>2. f \in [0 .. m -> S] /\ f[0] = b /\ \A k \in 1 .. m : f[k] = step[<<f[k - 1], k>>]
  BY <1>1 DEF Solves
<1>3. \A k \in 1 .. m : f[k] = ReadBody(f[k - 1], q[k], o, offset, n)
  <2> SUFFICES ASSUME NEW k \in 1 .. m PROVE f[k] = ReadBody(f[k - 1], q[k], o, offset, n)
    OBVIOUS
  <2>1. <<f[k - 1], k>> \in S \X (1 .. m)
    BY <1>2
  <2>2. step[<<f[k - 1], k>>] = ReadBody(f[k - 1], q[k], o, offset, n)
    BY <2>1
  <2> QED BY <1>2, <2>2
<1> HIDE DEF step
<1>4. F(f)
  <2>1. ASSUME NEW k \in 0 .. m PROVE f[k] = IF k = 0 THEN b ELSE ReadBody(f[k - 1], q[k], o, offset, n)
    <3>1. k = 0 \/ k \in 1 .. m
      OBVIOUS
    <3> QED BY <3>1, <1>2, <1>3, Zenon
  <2> QED BY <1>2, <2>1
<1> DEFINE W == CHOOSE g : F(g)
<1>5. F(W)
  <2> HIDE DEF F
  <2> QED BY <1>4
<1>6. file_rd(x, o, offset, n) = W[m]
  BY DEF file_rd, With, ReadBase, ReadBody, Loop
<1> HIDE DEF W
<1>7. W = [k \in 0 .. m |-> IF k = 0 THEN b ELSE ReadBody(W[k - 1], q[k], o, offset, n)]
  BY <1>5
<1>8. W[0] = b /\ \A k \in 1 .. m : W[k] = ReadBody(W[k - 1], q[k], o, offset, n)
  <2>1. \A k \in 0 .. m : W[k] = IF k = 0 THEN b ELSE ReadBody(W[k - 1], q[k], o, offset, n)
    BY <1>7, Zenon
  <2>2. 0 \in 0 .. m /\ \A k \in 1 .. m : k \in 0 .. m /\ k # 0
    OBVIOUS
  <2> QED BY <2>1, <2>2, Zenon
<1> DEFINE U == {k \in 0 .. m : W[k] \in S}
<1>9. 0 \in U
  BY <1>8
<1>10. ASSUME NEW k \in 1 .. m, k - 1 \in U PROVE k \in U
  <2>1. k \in 0 .. m
    OBVIOUS
  <2>2. W[k] \in S
    BY <1>8, <1>10, Zenon
  <2> QED BY <2>1, <2>2
<1>11. \A k \in 0 .. m : k \in U
  <2> HIDE DEF U
  <2> QED BY <1>9, <1>10, UpTo
<1>12. W \in [0 .. m -> S]
  <2>1. \A k \in 0 .. m : W[k] \in S
    BY <1>11
  <2>2. W = [k \in 0 .. m |-> W[k]]
    BY <1>7
  <2> QED BY <2>1, <2>2
<1> QED BY <1>6, <1>8, <1>12 DEF ReadRun

WriteBase(x) == [x |-> x, done |-> 0, ok |-> TRUE]
WriteBody(w, c, o, offset, n, v, through) ==
  LET start == Begin(offset, c)
      copy == End(offset, n, c) - start
      now == wr_chunk(w.x, o, c, start, copy, n - w.done, v, through)
  IN  IF ~w.ok THEN w
      ELSE [x |-> now.x, done |-> IF now.ok THEN w.done + copy ELSE w.done, ok |-> now.ok]
\* Every round leads from one of the sets to the next.
WriteGoes(V, q, m, o, offset, n, v, through) == \A k \in 1 .. m : \A a \in V[k - 1] : WriteBody(a, q[k], o, offset, n, v, through) \in V[k]

LEMMA WriteEnds ==
  ASSUME NEW x, NEW o, NEW offset, NEW n, NEW v, NEW through,
         NEW q, q = Chunks(offset, n), NEW m \in Nat, Len(q) = m,
         NEW b, b = WriteBase(x), NEW V, b \in V[0], WriteGoes(V, q, m, o, offset, n, v, through)
  PROVE  wr_chunks(x, o, offset, n, v, through) \in V[m]
<1> DEFINE A == UNION {V[k] : k \in 0 .. m}
           step == [a \in A \X (1 .. m) |-> IF a[1] \in V[a[2] - 1] THEN WriteBody(a[1], q[a[2]], o, offset, n, v, through) ELSE b]
           F(f) == f = [k \in 0 .. m |-> IF k = 0 THEN b ELSE WriteBody(f[k - 1], q[k], o, offset, n, v, through)]
<1>1. /\ 0 \in 0 .. m /\ \A k \in 1 .. m : k - 1 \in 0 .. m /\ k \in 0 .. m /\ k # 0
      /\ \A k \in 0 .. m : k = 0 \/ k \in 1 .. m
  OBVIOUS
<1>2. \A k \in 1 .. m : \A a \in V[k - 1] : WriteBody(a, q[k], o, offset, n, v, through) \in V[k]
  BY DEF WriteGoes
<1>3. b \in A /\ \A k \in 0 .. m : V[k] \subseteq A
  BY <1>1
<1> HIDE DEF A
<1>4. \A a \in A, k \in 1 .. m : step[<<a, k>>] = IF a \in V[k - 1] THEN WriteBody(a, q[k], o, offset, n, v, through) ELSE b
  OBVIOUS
<1>5. IsStep(A, m, step)
  <2>1. ASSUME NEW p \in A \X (1 .. m)
        PROVE  (IF p[1] \in V[p[2] - 1] THEN WriteBody(p[1], q[p[2]], o, offset, n, v, through) ELSE b) \in A
    <3>1. p[1] \in A /\ p[2] \in 1 .. m
      OBVIOUS
    <3> DEFINE a == p[1]  k == p[2]
    <3> HIDE DEF a, k
    <3>2. a \in A /\ k \in 1 .. m
      BY <3>1 DEF a, k
    <3>3. (IF a \in V[k - 1] THEN WriteBody(a, q[k], o, offset, n, v, through) ELSE b) \in A
      BY <3>2, <1>1, <1>2, <1>3, Zenon
    <3> QED BY <3>3 DEF a, k
  <2>2. step \in [A \X (1 .. m) -> A]
    BY <2>1, Zenon
  <2> QED BY <2>2 DEF IsStep
<1> HIDE DEF step
<1>6. PICK f : Solves(f, A, b, m, step)
  BY <1>3, <1>5, RecursionExists
<1>7. f \in [0 .. m -> A] /\ f[0] = b /\ \A k \in 1 .. m : f[k] = step[<<f[k - 1], k>>]
  BY <1>6 DEF Solves
<1> DEFINE U == {k \in 0 .. m : f[k] \in V[k]}
<1>8. \A k \in 0 .. m : k \in U
  <2>1. 0 \in U
    BY <1>1, <1>7
  <2>2. ASSUME NEW k \in 1 .. m, k - 1 \in U PROVE k \in U
    <3>1. f[k - 1] \in V[k - 1] /\ f[k - 1] \in A
      BY <2>2, <1>1, <1>3
    <3>2. f[k] = WriteBody(f[k - 1], q[k], o, offset, n, v, through)
      BY <3>1, <1>4, <1>7
    <3>3. f[k] \in V[k]
      BY <3>1, <3>2, <1>2, Zenon
    <3> QED BY <3>3, <1>1
  <2> HIDE DEF U
  <2> QED BY <2>1, <2>2, UpTo
<1>9. ASSUME NEW k \in 1 .. m PROVE f[k] = WriteBody(f[k - 1], q[k], o, offset, n, v, through)
  <2>1. k - 1 \in 0 .. m
    BY <1>1
  <2>2. f[k - 1] \in V[k - 1] /\ f[k - 1] \in A
    BY <2>1, <1>3, <1>8
  <2> QED BY <2>2, <1>4, <1>7
<1>10. F(f)
  <2>1. ASSUME NEW k \in 0 .. m PROVE f[k] = IF k = 0 THEN b ELSE WriteBody(f[k - 1], q[k], o, offset, n, v, through)
    BY <1>1, <1>7, <1>9, Zenon
  <2> QED BY <1>7, <2>1
<1> DEFINE W == CHOOSE g : F(g)
<1>11. F(W)
  <2> HIDE DEF F
  <2> QED BY <1>10
<1>12. wr_chunks(x, o, offset, n, v, through) = W[m]
  BY DEF wr_chunks, With, WriteBase, WriteBody, Loop
<1> HIDE DEF W
<1>13. \A k \in 0 .. m : W[k] = IF k = 0 THEN b ELSE WriteBody(W[k - 1], q[k], o, offset, n, v, through)
  BY <1>11, Zenon
<1> DEFINE R == {k \in 0 .. m : W[k] \in V[k]}
<1>14. 0 \in R
  BY <1>1, <1>13, Zenon
<1>15. ASSUME NEW k \in 1 .. m, k - 1 \in R PROVE k \in R
  <2>1. W[k] = WriteBody(W[k - 1], q[k], o, offset, n, v, through) /\ W[k - 1] \in V[k - 1]
    BY <1>1, <1>13, <1>15, Zenon
  <2>2. W[k] \in V[k]
    BY <2>1, <1>2, Zenon
  <2> QED BY <2>2, <1>1, Zenon
<1>16. \A k \in 0 .. m : k \in R
  <2> HIDE DEF R
  <2> QED BY <1>14, <1>15, UpTo
<1> QED BY <1>12, <1>16

FillBase(x) == [x |-> x, ok |-> TRUE]
FillList(old, newSize) == [k \in 1 .. (newSize - old + CS - 1) \div CS |-> old + (k - 1) * CS]
FillBody(f, pos, o, newSize) ==
  LET n == Min({newSize - pos, CS})
      w == do_file_wr(f.x, o, pos, n, 0, FALSE)
  IN  IF f.ok THEN [x |-> w.x, ok |-> w.done = n] ELSE f
\* Every round leads from one of the sets to the next.
FillGoes(V, q, m, o, newSize) == \A k \in 1 .. m : \A a \in V[k - 1] : FillBody(a, q[k], o, newSize) \in V[k]

LEMMA FillEnds ==
  ASSUME NEW x, NEW o, NEW old, NEW newSize,
         NEW q, q = FillList(old, newSize), NEW m \in Nat, Len(q) = m,
         NEW b, b = FillBase(x), NEW V, b \in V[0], FillGoes(V, q, m, o, newSize)
  PROVE  FillHole(x, o, old, newSize) \in V[m]
<1> DEFINE A == UNION {V[k] : k \in 0 .. m}
           step == [a \in A \X (1 .. m) |-> IF a[1] \in V[a[2] - 1] THEN FillBody(a[1], q[a[2]], o, newSize) ELSE b]
           F(f) == f = [k \in 0 .. m |-> IF k = 0 THEN b ELSE FillBody(f[k - 1], q[k], o, newSize)]
<1>1. /\ 0 \in 0 .. m /\ \A k \in 1 .. m : k - 1 \in 0 .. m /\ k \in 0 .. m /\ k # 0
      /\ \A k \in 0 .. m : k = 0 \/ k \in 1 .. m
  OBVIOUS
<1>2. \A k \in 1 .. m : \A a \in V[k - 1] : FillBody(a, q[k], o, newSize) \in V[k]
  BY DEF FillGoes
<1>3. b \in A /\ \A k \in 0 .. m : V[k] \subseteq A
  BY <1>1
<1> HIDE DEF A
<1>4. \A a \in A, k \in 1 .. m : step[<<a, k>>] = IF a \in V[k - 1] THEN FillBody(a, q[k], o, newSize) ELSE b
  OBVIOUS
<1>5. IsStep(A, m, step)
  <2>1. ASSUME NEW p \in A \X (1 .. m)
        PROVE  (IF p[1] \in V[p[2] - 1] THEN FillBody(p[1], q[p[2]], o, newSize) ELSE b) \in A
    <3>1. p[1] \in A /\ p[2] \in 1 .. m
      OBVIOUS
    <3> DEFINE a == p[1]  k == p[2]
    <3> HIDE DEF a, k
    <3>2. a \in A /\ k \in 1 .. m
      BY <3>1 DEF a, k
    <3>3. (IF a \in V[k - 1] THEN FillBody(a, q[k], o, newSize) ELSE b) \in A
      BY <3>2, <1>1, <1>2, <1>3, Zenon
    <3> QED BY <3>3 DEF a, k
  <2>2. step \in [A \X (1 .. m) -> A]
    BY <2>1, Zenon
  <2> QED BY <2>2 DEF IsStep
<1> HIDE DEF step
<1>6. PICK f : Solves(f, A, b, m, step)
  BY <1>3, <1>5, RecursionExists
<1>7. f \in [0 .. m -> A] /\ f[0] = b /\ \A k \in 1 .. m : f[k] = step[<<f[k - 1], k>>]
  BY <1>6 DEF Solves
<1> DEFINE U == {k \in 0 .. m : f[k] \in V[k]}
<1>8. \A k \in 0 .. m : k \in U
  <2>1. 0 \in U
    BY <1>1, <1>7
  <2>2. ASSUME NEW k \in 1 .. m, k - 1 \in U PROVE k \in U
    <3>1. f[k - 1] \in V[k - 1] /\ f[k - 1] \in A
      BY <2>2, <1>1, <1>3
    <3>2. f[k] = FillBody(f[k - 1], q[k], o, newSize)
      BY <3>1, <1>4, <1>7
    <3>3. f[k] \in V[k]
      BY <3>1, <3>2, <1>2, Zenon
    <3> QED BY <3>3, <1>1
  <2> HIDE DEF U
  <2> QED BY <2>1, <2>2, UpTo
<1>9. ASSUME NEW k \in 1 .. m PROVE f[k] = FillBody(f[k - 1], q[k], o, newSize)
  <2>1. k - 1 \in 0 .. m
    BY <1>1
  <2>2. f[k - 1] \in V[k - 1] /\ f[k - 1] \in A
    BY <2>1, <1>3, <1>8
  <2> QED BY <2>2, <1>4, <1>7
<1>10. F(f)
  <2>1. ASSUME NEW k \in 0 .. m PROVE f[k] = IF k = 0 THEN b ELSE FillBody(f[k - 1], q[k], o, newSize)
    BY <1>1, <1>7, <1>9, Zenon
  <2> QED BY <1>7, <2>1
<1> DEFINE W == CHOOSE g : F(g)
<1>11. F(W)
  <2> HIDE DEF F
  <2> QED BY <1>10
<1>12. FillHole(x, o, old, newSize) = W[m]
  BY DEF FillHole, With, FillBase, FillList, FillBody, Loop
<1> HIDE DEF W
<1>13. \A k \in 0 .. m : W[k] = IF k = 0 THEN b ELSE FillBody(W[k - 1], q[k], o, newSize)
  BY <1>11, Zenon
<1> DEFINE R == {k \in 0 .. m : W[k] \in V[k]}
<1>14. 0 \in R
  BY <1>1, <1>13, Zenon
<1>15. ASSUME NEW k \in 1 .. m, k - 1 \in R PROVE k \in R
  <2>1. W[k] = FillBody(W[k - 1], q[k], o, newSize) /\ W[k - 1] \in V[k - 1]
    BY <1>1, <1>13, <1>15, Zenon
  <2>2. W[k] \in V[k]
    BY <2>1, <1>2, Zenon
  <2> QED BY <2>2, <1>1, Zenon
<1>16. \A k \in 0 .. m : k \in R
  <2> HIDE DEF R
  <2> QED BY <1>14, <1>15, UpTo
<1> QED BY <1>12, <1>16

-----------------------------------------------------------------------------
(* Flushing                                                                *)

LEMMA SlotSeq ==
  ASSUME device \in Devices, NEW q, q = SlotList
  PROVE  NCaches \in Nat /\ Len(q) = NCaches /\ \A k \in 1 .. NCaches : q[k] = k /\ k \in Slot
<1>1. NCaches \in Nat
  BY DevFacts
<1>2. q \in [1 .. NCaches -> Nat]
  BY <1>1 DEF Slot, SlotList
<1>3. Len(q) = NCaches
  <2> DEFINE n == NCaches  S == Nat
  <2>1. n \in Nat /\ IsList(q, n, S)
    BY <1>1, <1>2 DEF IsList
  <2> HIDE DEF n, S
  <2>2. q \in Seq(S) /\ Len(q) = n
    BY <2>1, ListIs
  <2> QED BY <2>2 DEF n
<1> QED BY <1>1, <1>3 DEF Slot, SlotList

LEMMA FlushFile ==
  ASSUME device \in Devices, NEW x, Sound(x), NEW o \in Files, NEW discard \in BOOLEAN,
         NEW y, y = flush_file_cache(x, o, discard)
  PROVE  /\ Quiet(x, y) /\ \A i \in Slot : y.cache[i].obj = o => ~y.cache[i].dirty /\ ~discard
         /\ \A i \in Slot : y.cache[i].dirty => x.cache[i].dirty /\ y.cache[i].obj = x.cache[i].obj
<1> DEFINE q == SlotList
           m == NCaches
           S == {a \in State : Sound(a)}
           Clean(a, i) == a.cache[i].obj = o => ~a.cache[i].dirty /\ ~discard
           Less(a, b) == \A i \in Slot : b.cache[i].dirty => a.cache[i].dirty /\ b.cache[i].obj = a.cache[i].obj
<1>1. m \in Nat /\ Len(q) = m /\ \A k \in 1 .. m : q[k] = k /\ k \in Slot
  BY SlotSeq
<1>2. q = SlotList /\ x \in S /\ \A a : a \in S <=> Sound(a)
  BY DEF Sound
<1>3. ASSUME NEW a, Sound(a), NEW i \in Slot
      PROVE  LET b == FlushFileBody(a, i, o, discard)
             IN  Quiet(a, b) /\ Clean(b, i) /\ Less(a, b) /\ \A j \in Slot : j # i => b.cache[j] = a.cache[j]
  <2> DEFINE b == FlushFileBody(a, i, o, discard)
  <2>1. CASE a.cache[i].obj = o
    <3>1. b = flush_single_cache(a, i, discard) /\ a.cache[i].obj # "none"
      BY <2>1, DevFacts DEF FlushFileBody
    <3> HIDE DEF b
    <3>2. /\ Quiet(a, b)
          /\ b.cache[i] = IF discard THEN Free ELSE [a.cache[i] EXCEPT !.dirty = FALSE]
          /\ \A j \in Slot : j # i => b.cache[j] = a.cache[j]
      BY <3>1, <1>3, FlushSlot
    <3>3. a.cache[i] \in SlotRecord
      BY <1>3, StateFields DEF Sound
    <3>4. Clean(b, i)
      <4>1. CASE discard
        BY <3>2, <4>1, DevFacts DEF Free
      <4>2. CASE ~discard
        BY <3>2, <3>3, <4>2 DEF SlotRecord
      <4> QED BY <4>1, <4>2
    <3>5. Less(a, b)
      <4>1. ~b.cache[i].dirty
        BY <3>2, <3>3 DEF Free, SlotRecord
      <4> QED BY <4>1, <3>2
    <3> HIDE DEF Clean, Less
    <3> QED BY <3>2, <3>4, <3>5 DEF b
  <2>2. CASE a.cache[i].obj # o
    <3>1. b = a
      BY <2>2 DEF FlushFileBody
    <3>2. Quiet(a, a)
      BY <1>3, QuietSelf
    <3> QED BY <2>2, <3>1, <3>2
  <2> QED BY <2>1, <2>2
<1> HIDE DEF q, m, S
<1>4. FlushFileClosed(S, q, m, o, discard)
  <2> SUFFICES ASSUME NEW a \in S, NEW k \in 1 .. m PROVE FlushFileBody(a, q[k], o, discard) \in S
    BY DEF FlushFileClosed
  <2>1. Sound(a) /\ q[k] \in Slot
    BY <1>1, <1>2
  <2>2. Quiet(a, FlushFileBody(a, q[k], o, discard))
    BY <2>1, <1>3
  <2> QED BY <2>2, <1>2 DEF Quiet
<1>5. PICK f : FlushFileRun(f, S, q, m, x, o, discard) /\ flush_file_cache(x, o, discard) = f[m]
  BY <1>1, <1>2, <1>4, FlushFileRuns
<1> DEFINE Done(k) == Quiet(x, f[k]) /\ Less(x, f[k]) /\ \A j \in Slot : j <= k => Clean(f[k], j)
           T == {k \in 0 .. m : Done(k)}
<1>6. 0 \in T
  <2>1. Quiet(x, f[0])
    BY <1>5, QuietSelf DEF FlushFileRun
  <2>2. \A j \in Slot : ~(j <= 0)
    BY <1>1 DEF Slot
  <2>3. 0 \in 0 .. m
    BY <1>1
  <2>4. Less(x, f[0])
    BY <1>5 DEF FlushFileRun
  <2> HIDE DEF Less
  <2> QED BY <2>1, <2>2, <2>3, <2>4
<1>7. ASSUME NEW k \in 1 .. m, k - 1 \in T PROVE k \in T
  <2>1. Done(k - 1) /\ k \in 0 .. m /\ q[k] = k /\ k \in Slot
    BY <1>1, <1>7
  <2> DEFINE a == f[k - 1]  b == f[k]
  <2>2. Sound(a) /\ b = FlushFileBody(a, k, o, discard)
    <3>1. Quiet(x, a)
      BY <2>1
    <3> QED BY <3>1, <2>1, <1>5 DEF Quiet, FlushFileRun
  <2>3. Quiet(a, b) /\ Clean(b, k) /\ Less(a, b) /\ \A j \in Slot : j # k => b.cache[j] = a.cache[j]
    <3> HIDE DEF a, Clean, Less
    <3> QED BY <2>1, <2>2, <1>3
  <2>4. Quiet(x, b)
    <3>1. Quiet(x, a)
      BY <2>1
    <3> HIDE DEF a, b
    <3> QED BY <2>3, <3>1, QuietTrans
  <2>5. ASSUME NEW j \in Slot, j <= k PROVE Clean(b, j)
    <3>1. j = k \/ (j # k /\ j <= k - 1)
      BY <1>1, <2>5 DEF Slot
    <3>2. CASE j = k
      BY <3>2, <2>3
    <3>3. CASE j # k /\ j <= k - 1
      <4>1. Clean(a, j) /\ b.cache[j] = a.cache[j]
        BY <3>3, <2>1, <2>3
      <4> HIDE DEF a, b
      <4> QED BY <4>1
    <3> QED BY <3>1, <3>2, <3>3
  <2>6. Less(x, b)
    <3>1. Less(x, a)
      BY <2>1
    <3> HIDE DEF a, b
    <3> QED BY <2>3, <3>1
  <2> HIDE DEF Less
  <2> QED BY <2>1, <2>4, <2>5, <2>6
<1>8. \A k \in 0 .. m : k \in T
  <2> HIDE DEF T
  <2> QED BY <1>1, <1>6, <1>7, UpTo
<1>9. m \in T /\ \A j \in Slot : j <= m
  BY <1>1, <1>8 DEF Slot, m
<1>10. y = f[m]
  BY <1>5
<1> QED BY <1>9, <1>10

LEMMA FlushAll ==
  ASSUME device \in Devices, NEW x, Sound(x), NEW y, y = flush_whole_cache(x)
  PROVE  Quiet(x, y) /\ \A i \in Slot : ~y.cache[i].dirty
<1> DEFINE q == SlotList
           m == NCaches
           S == {a \in State : Sound(a)}
<1>1. m \in Nat /\ Len(q) = m /\ \A k \in 1 .. m : q[k] = k /\ k \in Slot
  BY SlotSeq
<1>2. q = SlotList /\ x \in S /\ \A a : a \in S <=> Sound(a)
  BY DEF Sound
<1>3. ASSUME NEW a, Sound(a), NEW i \in Slot
      PROVE  LET b == FlushAllBody(a, i)
             IN  Quiet(a, b) /\ ~b.cache[i].dirty /\ \A j \in Slot : b.cache[j].dirty => a.cache[j].dirty
  <2> DEFINE b == FlushAllBody(a, i)
             o == a.cache[i].obj
             f == FALSE
  <2>1. CASE o # "none"
    <3>1. b = flush_file_cache(a, o, f) /\ f \in BOOLEAN
      BY <2>1 DEF FlushAllBody
    <3>2. o \in Files
      BY <2>1, <1>3, StateFields DEF Sound
    <3>3. /\ Quiet(a, b) /\ \A j \in Slot : b.cache[j].obj = o => ~b.cache[j].dirty /\ ~f
          /\ \A j \in Slot : b.cache[j].dirty => a.cache[j].dirty /\ b.cache[j].obj = a.cache[j].obj
      <4> HIDE DEF b, o, f
      <4> QED BY <3>1, <3>2, <1>3, FlushFile
    <3> QED BY <3>3
  <2>2. CASE o = "none"
    <3>1. b = a
      BY <2>2 DEF FlushAllBody
    <3>2. Quiet(a, a) /\ ~a.cache[i].dirty
      BY <2>2, <1>3, QuietSelf DEF Sound, SlotSound
    <3> QED BY <3>1, <3>2
  <2> QED BY <2>1, <2>2
<1> HIDE DEF q, m, S
<1>4. FlushAllClosed(S, q, m)
  <2> SUFFICES ASSUME NEW a \in S, NEW k \in 1 .. m PROVE FlushAllBody(a, q[k]) \in S
    BY DEF FlushAllClosed
  <2>1. Sound(a) /\ q[k] \in Slot
    BY <1>1, <1>2
  <2>2. Quiet(a, FlushAllBody(a, q[k]))
    BY <2>1, <1>3
  <2> QED BY <2>2, <1>2 DEF Quiet
<1>5. PICK f : FlushAllRun(f, S, q, m, x) /\ flush_whole_cache(x) = f[m]
  BY <1>1, <1>2, <1>4, FlushAllRuns
<1> DEFINE Done(k) == Quiet(x, f[k]) /\ \A j \in Slot : j <= k => ~f[k].cache[j].dirty
           T == {k \in 0 .. m : Done(k)}
<1>6. 0 \in T
  <2>1. Quiet(x, f[0])
    BY <1>5, QuietSelf DEF FlushAllRun
  <2>2. \A j \in Slot : ~(j <= 0)
    BY <1>1 DEF Slot
  <2>3. 0 \in 0 .. m
    BY <1>1
  <2> QED BY <2>1, <2>2, <2>3
<1>7. ASSUME NEW k \in 1 .. m, k - 1 \in T PROVE k \in T
  <2>1. Done(k - 1) /\ k \in 0 .. m /\ q[k] = k /\ k \in Slot
    BY <1>1, <1>7
  <2> DEFINE a == f[k - 1]  b == f[k]
  <2>2. Sound(a) /\ b = FlushAllBody(a, k)
    <3>1. Quiet(x, a)
      BY <2>1
    <3> QED BY <3>1, <2>1, <1>5 DEF Quiet, FlushAllRun
  <2>3. Quiet(a, b) /\ ~b.cache[k].dirty /\ \A j \in Slot : b.cache[j].dirty => a.cache[j].dirty
    BY <2>1, <2>2, <1>3
  <2>4. Quiet(x, b)
    <3>1. Quiet(x, a)
      BY <2>1
    <3> HIDE DEF a, b
    <3> QED BY <2>3, <3>1, QuietTrans
  <2>5. ASSUME NEW j \in Slot, j <= k PROVE ~b.cache[j].dirty
    <3>1. j = k \/ j <= k - 1
      BY <1>1, <2>5 DEF Slot
    <3> QED BY <3>1, <2>1, <2>3
  <2> QED BY <2>1, <2>4, <2>5
<1>8. \A k \in 0 .. m : k \in T
  <2> HIDE DEF T
  <2> QED BY <1>1, <1>6, <1>7, UpTo
<1>9. m \in T /\ \A j \in Slot : j <= m
  BY <1>1, <1>8 DEF Slot, m
<1>10. y = f[m]
  BY <1>5
<1> QED BY <1>9, <1>10

-----------------------------------------------------------------------------
(* The pieces of a call                                                    *)

LEMMA TimesMono ==
  ASSUME NEW a \in Nat, NEW b \in Nat, NEW w \in Nat, a <= b
  PROVE  a * w <= b * w
<1>1. CASE a = b
  BY <1>1
<1>2. CASE a < b
  <2>1. a * w + w <= b * w
    BY <1>2, TimesLess
  <2>2. a * w \in Nat /\ b * w \in Nat
    OBVIOUS
  <2> QED BY <2>1, <2>2
<1> QED BY <1>1, <1>2

\* The place of the chunk c in the file
Base(c) == (c - 1) * CS

LEMMA BaseIs ==
  ASSUME device \in Devices, NEW c \in Nat \ {0}
  PROVE  /\ Base(c) \in Nat /\ c + 1 \in Nat \ {0} /\ Base(c + 1) = Base(c) + CS
         /\ \A j \in 0 .. CS - 1 : chunk_of(Base(c) + j) = c /\ start_of(Base(c) + j) = j
<1>1. CS \in Nat
  BY DevFacts
<1>2. Base(c) \in Nat /\ Base(c + 1) = Base(c) + CS
  BY <1>1 DEF Base
<1>3. \A j \in 0 .. CS - 1 : chunk_of(Base(c) + j) = c /\ start_of(Base(c) + j) = j
  BY AddressIs DEF Base
<1> QED BY <1>2, <1>3

LEMMA PieceIs ==
  ASSUME device \in Devices, NEW offset \in Nat, NEW n \in Nat, n >= 1, offset + n <= MaxSize,
         NEW c \in Nat, c >= chunk_of(offset), c <= chunk_of(offset + n - 1)
  PROVE  /\ c \in ChunkNo /\ c # 0 /\ Base(c) \in Nat
         /\ Base(c) <= offset + n - 1 /\ offset < Base(c) + CS
         /\ Begin(offset, c) = IF offset >= Base(c) THEN offset - Base(c) ELSE 0
         /\ End(offset, n, c) = IF offset + n - Base(c) <= CS THEN offset + n - Base(c) ELSE CS
<1> DEFINE last == offset + n - 1
           f == chunk_of(offset)
           l == chunk_of(last)
           b == Base(c)
<1>1. last \in Nat /\ CS \in Nat /\ CS >= 1 /\ MaxSize \in Nat
  BY DevFacts
<1>2. /\ f \in Nat \ {0} /\ l \in Nat \ {0}
      /\ offset = (f - 1) * CS + start_of(offset) /\ last = (l - 1) * CS + start_of(last)
      /\ start_of(offset) \in 0 .. CS - 1 /\ start_of(last) \in 0 .. CS - 1
  <2> HIDE DEF last
  <2> QED BY <1>1, Address
<1>3. c \in Nat \ {0} /\ c >= f /\ c <= l
  BY <1>2
<1> HIDE DEF f, l
<1>4. (f - 1) * CS <= b /\ b <= (l - 1) * CS /\ (f - 1) * CS \in Nat /\ b \in Nat /\ (l - 1) * CS \in Nat
  <2>1. f - 1 \in Nat /\ c - 1 \in Nat /\ l - 1 \in Nat /\ f - 1 <= c - 1 /\ c - 1 <= l - 1
    BY <1>2, <1>3
  <2>2. (f - 1) * CS <= (c - 1) * CS
    BY <2>1, <1>1, TimesMono
  <2>3. (c - 1) * CS <= (l - 1) * CS
    BY <2>1, <1>1, TimesMono
  <2>4. \A u \in Nat : u * CS \in Nat
    BY <1>1
  <2> QED BY <2>1, <2>2, <2>3, <2>4 DEF Base
<1> DEFINE ff == (f - 1) * CS  ll == (l - 1) * CS
<1>5. ff <= b /\ b <= ll /\ offset = ff + start_of(offset) /\ last = ll + start_of(last) /\ ff \in Nat /\ ll \in Nat /\ b \in Nat
  BY <1>2, <1>4
<1>6. b = (c - 1) * CS
  BY DEF Base
<1> HIDE DEF ff, ll, b
<1>7. b <= last /\ offset < b + CS
  BY <1>1, <1>2, <1>5
<1>8. c \in ChunkNo
  <2>1. b < MaxSize
    BY <1>1, <1>5, <1>7
  <2> QED BY <2>1, <1>3, <1>6, ChunkNoIs
<1>9. Begin(offset, c) = IF offset >= b THEN offset - b ELSE 0
  <2> DEFINE u == offset - b  z == 0
  <2>1. u \in Int /\ z \in Int /\ Begin(offset, c) = Max({u, z})
    BY <1>5, <1>6 DEF Begin
  <2> HIDE DEF u, z
  <2>2. Begin(offset, c) = IF u >= z THEN u ELSE z
    BY <2>1, MaxMin
  <2> QED BY <2>2, <1>5 DEF u, z
<1>10. End(offset, n, c) = IF offset + n - b <= CS THEN offset + n - b ELSE CS
  <2> DEFINE u == offset + n - b
  <2>1. u \in Int /\ CS \in Int /\ End(offset, n, c) = Min({u, CS})
    BY <1>1, <1>5, <1>6 DEF End
  <2> HIDE DEF u
  <2>2. End(offset, n, c) = IF u <= CS THEN u ELSE CS
    BY <2>1, MaxMin
  <2> QED BY <2>2 DEF u
<1> QED BY <1>3, <1>5, <1>7, <1>8, <1>9, <1>10 DEF b

LEMMA ChunkMono ==
  ASSUME device \in Devices, NEW i \in Nat, NEW j \in Nat, i <= j
  PROVE  chunk_of(i) <= chunk_of(j)
<1> DEFINE a == chunk_of(i)  b == chunk_of(j)
<1>1. CS \in Nat /\ CS >= 1
  BY DevFacts
<1>2. /\ a \in Nat \ {0} /\ start_of(i) \in 0 .. CS - 1 /\ i = (a - 1) * CS + start_of(i)
      /\ b \in Nat \ {0} /\ start_of(j) \in 0 .. CS - 1 /\ j = (b - 1) * CS + start_of(j)
  BY Address
<1> HIDE DEF a, b
<1>3. ~(b < a)
  <2> SUFFICES ASSUME b < a PROVE FALSE
    OBVIOUS
  <2>1. b - 1 \in Nat /\ a - 1 \in Nat /\ b - 1 < a - 1
    BY <1>2
  <2>2. (b - 1) * CS + CS <= (a - 1) * CS
    BY <2>1, <1>1, TimesLess
  <2> DEFINE u == (b - 1) * CS  w == (a - 1) * CS
  <2>3. u + CS <= w /\ i = w + start_of(i) /\ j = u + start_of(j) /\ u \in Nat /\ w \in Nat
    <3>1. \A z \in Nat : z * CS \in Nat
      BY <1>1
    <3> QED BY <1>2, <2>1, <2>2, <3>1
  <2> HIDE DEF u, w
  <2> QED BY <2>3, <1>1, <1>2
<1>4. a <= b
  BY <1>2, <1>3
<1> QED BY <1>4 DEF a, b

LEMMA ChunksIs ==
  ASSUME device \in Devices, NEW offset \in Nat, NEW n \in Nat, n >= 1, NEW q, q = Chunks(offset, n),
         NEW f, f = chunk_of(offset), NEW l, l = chunk_of(offset + n - 1), NEW m, m = l - f + 1
  PROVE  /\ f \in Nat \ {0} /\ l \in Nat \ {0} /\ f <= l /\ m \in Nat /\ m >= 1 /\ Len(q) = m
         /\ \A k \in 1 .. m : q[k] = f + k - 1
<1>1. f \in Nat \ {0} /\ l \in Nat \ {0} /\ f <= l
  <2> DEFINE e == offset + n - 1
  <2>1. e \in Nat /\ offset <= e /\ l = chunk_of(e)
    OBVIOUS
  <2> HIDE DEF e
  <2> QED BY <2>1, Address, ChunkMono
<1>2. m \in Nat /\ m >= 1
  BY <1>1
<1>3. q = [k \in 1 .. m |-> f + k - 1]
  BY DEF Chunks
<1>4. IsList(q, m, Int)
  BY <1>1, <1>2, <1>3 DEF IsList
<1>5. Len(q) = m
  <2> DEFINE S == Int
  <2>1. IsList(q, m, S)
    BY <1>4
  <2> HIDE DEF S
  <2> QED BY <2>1, <1>2, ListIs
<1> QED BY <1>1, <1>2, <1>3, <1>5

LEMMA ReadIs ==
  ASSUME device \in Devices, NEW x, Sound(x), NEW o \in Files, NEW offset \in Nat, NEW n \in Nat, n >= 1,
         offset + n <= MaxSize, NEW r, r = file_rd(x, o, offset, n)
  PROVE  /\ Quiet(x, r.x)
         /\ \A i \in offset .. offset + n - 1 : r.data[i] = View(x, o, chunk_of(i))[start_of(i)]
<1> DEFINE q == Chunks(offset, n)
           f == chunk_of(offset)
           l == chunk_of(offset + n - 1)
           m == l - f + 1
           I == offset .. offset + n - 1
           S == {a \in [x : State, data : [I -> Nat]] : Sound(a.x)}
           b == ReadBase(x, offset, n)
<1>1. /\ f \in Nat \ {0} /\ l \in Nat \ {0} /\ f <= l /\ m \in Nat /\ m >= 1 /\ Len(q) = m
      /\ \A k \in 1 .. m : q[k] = f + k - 1
  BY ChunksIs
<1>2. \A i \in I : i \in Nat /\ chunk_of(i) \in Nat /\ f <= chunk_of(i) /\ chunk_of(i) <= l /\ start_of(i) \in 0 .. CS - 1
  <2> SUFFICES ASSUME NEW i \in I
               PROVE  i \in Nat /\ chunk_of(i) \in Nat /\ f <= chunk_of(i) /\ chunk_of(i) <= l /\ start_of(i) \in 0 .. CS - 1
    OBVIOUS
  <2>1. i \in Nat /\ offset <= i /\ i <= offset + n - 1 /\ offset + n - 1 \in Nat
    OBVIOUS
  <2>2. f <= chunk_of(i)
    BY <2>1, ChunkMono
  <2>3. chunk_of(i) <= l
    <3> DEFINE e == offset + n - 1
    <3>1. e \in Nat /\ i <= e
      BY <2>1
    <3> HIDE DEF e
    <3>2. chunk_of(i) <= chunk_of(e)
      BY <3>1, <2>1, ChunkMono
    <3> QED BY <3>2 DEF e
  <2> QED BY <2>1, <2>2, <2>3, Address
<1>3. ASSUME NEW k \in 1 .. m PROVE q[k] = f + k - 1 /\ q[k] \in ChunkNo
  <2>1. q[k] = f + k - 1 /\ f + k - 1 \in Nat /\ f + k - 1 >= f /\ f + k - 1 <= l
    <3> HIDE DEF f, l, q
    <3> QED BY <1>1
  <2> DEFINE c == f + k - 1
  <2>2. c \in Nat /\ c >= chunk_of(offset) /\ c <= chunk_of(offset + n - 1)
    BY <2>1
  <2> HIDE DEF c
  <2>3. c \in ChunkNo
    BY <2>2, PieceIs
  <2> QED BY <2>1, <2>3 DEF c
<1>4. b \in S /\ b.x = x
  <2>1. [i \in I |-> 0] \in [I -> Nat]
    OBVIOUS
  <2> DEFINE d == [i \in I |-> 0]
  <2>2. b = [x |-> x, data |-> d] /\ d \in [I -> Nat]
    BY <2>1 DEF ReadBase
  <2> HIDE DEF I, d
  <2> QED BY <2>2 DEF Sound
<1> HIDE DEF q, f, l, m, b, I
<1>5. ASSUME NEW a \in S, NEW c \in ChunkNo
      PROVE  LET e == ReadBody(a, c, o, offset, n)
             IN  /\ e \in S /\ Quiet(a.x, e.x)
                 /\ \A i \in I : e.data[i] = IF chunk_of(i) = c THEN View(a.x, o, c)[start_of(i)] ELSE a.data[i]
  <2> DEFINE y == a.x
             w == End(offset, n, c) - Begin(offset, c)
             now == rd_chunk(y, o, c, w)
             d == [i \in I |-> IF chunk_of(i) = c THEN now.data[start_of(i)] ELSE a.data[i]]
             e == ReadBody(a, c, o, offset, n)
  <2>1. Sound(y) /\ a.data \in [I -> Nat]
    OBVIOUS
  <2>2. e = [x |-> now.x, data |-> d]
    BY DEF ReadBody, I
  <2>3. Quiet(y, now.x) /\ now.data = View(y, o, c)
    <3>1. now = rd_chunk(y, o, c, w)
      OBVIOUS
    <3> HIDE DEF y, w, now
    <3> QED BY <3>1, <2>1, ReadChunk
  <2>4. View(y, o, c) \in Bytes
    <3> HIDE DEF y
    <3> QED BY <2>1, ViewType
  <2> HIDE DEF now, y
  <2>5. \A i \in I : View(y, o, c)[start_of(i)] \in Nat
    BY <2>4, <1>2 DEF Bytes
  <2>6. d \in [I -> Nat] /\ \A i \in I : d[i] = IF chunk_of(i) = c THEN View(y, o, c)[start_of(i)] ELSE a.data[i]
    BY <2>1, <2>3, <2>5
  <2> HIDE DEF d
  <2>7. Sound(now.x) /\ now.x \in State
    BY <2>3 DEF Quiet, Sound
  <2>8. e.x = now.x /\ e.data = d /\ e \in S
    BY <2>2, <2>6, <2>7
  <2> HIDE DEF e, S
  <2> QED BY <2>3, <2>6, <2>8 DEF y, e
<1>6. ReadClosed(S, q, m, o, offset, n)
  <2> HIDE DEF S
  <2> QED BY <1>3, <1>5 DEF ReadClosed
<1>7. PICK g : ReadRun(g, S, q, m, b, o, offset, n) /\ file_rd(x, o, offset, n) = g[m]
  <2> HIDE DEF S
  <2> QED BY <1>1, <1>4, <1>6, ReadRuns DEF q, b
<1> DEFINE Good(a, k) == /\ Quiet(x, a.x)
                         /\ \A i \in I : chunk_of(i) < f + k => a.data[i] = View(x, o, chunk_of(i))[start_of(i)]
           T == {k \in 0 .. m : Good(g[k], k)}
<1>8. 0 \in T
  <2>1. g[0] = b
    BY <1>7 DEF ReadRun
  <2>2. Quiet(x, b.x)
    BY <1>4, QuietSelf
  <2>3. \A i \in I : ~(chunk_of(i) < f + 0)
    BY <1>1, <1>2
  <2>4. 0 \in 0 .. m
    BY <1>1
  <2> QED BY <2>1, <2>2, <2>3, <2>4
<1>9. ASSUME NEW k \in 1 .. m, k - 1 \in T PROVE k \in T
  <2> DEFINE a == g[k - 1]  e == g[k]  c == q[k]
  <2>1. a \in S /\ e = ReadBody(a, c, o, offset, n) /\ Good(a, k - 1) /\ k \in 0 .. m
    BY <1>7, <1>9 DEF ReadRun
  <2>2. c = f + k - 1 /\ c \in ChunkNo
    BY <1>3
  <2> HIDE DEF a, e, c, S
  <2>3. /\ Quiet(a.x, e.x)
        /\ \A i \in I : e.data[i] = IF chunk_of(i) = c THEN View(a.x, o, c)[start_of(i)] ELSE a.data[i]
    BY <2>1, <2>2, <1>5
  <2>4. Quiet(x, e.x)
    <3> DEFINE y == a.x  z == e.x
    <3>1. Quiet(x, y) /\ Quiet(y, z)
      BY <2>1, <2>3
    <3> HIDE DEF y, z
    <3>2. Quiet(x, z)
      BY <3>1, QuietTrans
    <3> QED BY <3>2 DEF z
  <2>5. View(a.x, o, c) = View(x, o, c)
    BY <2>1, <2>2 DEF Quiet
  <2>6. ASSUME NEW i \in I, chunk_of(i) < f + k PROVE e.data[i] = View(x, o, chunk_of(i))[start_of(i)]
    <3>1. CASE chunk_of(i) = c
      BY <3>1, <2>3, <2>5
    <3>2. CASE chunk_of(i) # c
      <4>1. chunk_of(i) < f + (k - 1)
        <5> DEFINE u == chunk_of(i)
        <5>1. u \in Nat /\ u < f + k /\ u # f + k - 1 /\ f \in Nat /\ k \in Nat
          BY <3>2, <2>2, <2>6, <1>1, <1>2
        <5> HIDE DEF u
        <5>2. u < f + (k - 1)
          BY <5>1
        <5> QED BY <5>2 DEF u
      <4> QED BY <4>1, <3>2, <2>1, <2>3
    <3> QED BY <3>1, <3>2
  <2>7. Good(e, k)
    BY <2>4, <2>6
  <2> QED BY <2>1, <2>7 DEF e
<1>10. \A k \in 0 .. m : k \in T
  <2> HIDE DEF T
  <2> QED BY <1>1, <1>8, <1>9, UpTo
<1>11. Good(g[m], m) /\ r = g[m]
  BY <1>1, <1>7, <1>10
<1>12. \A i \in I : chunk_of(i) < f + m
  BY <1>1, <1>2 DEF m
<1> QED BY <1>11, <1>12 DEF I
-----------------------------------------------------------------------------
(* Writing                                                                 *)

LEMMA ViewZeros ==
  ASSUME device \in Devices, NEW x, Sound(x), NEW o \in Files, NEW c \in ChunkNo, NEW len, Within(x, len)
  PROVE  ZerosFrom(View(x, o, c), c, len[o])
<1>1. x \in State /\ Single(x)
  BY DEF Sound
<1>2. CASE \E i \in Slot : Held(x, i, o, c)
  <2>1. PICK i \in Slot : Held(x, i, o, c)
    BY <1>2
  <2>2. View(x, o, c) = x.cache[i].data
    BY <2>1, <1>1, ViewIs
  <2>3. x.cache[i].obj = o /\ x.cache[i].chunk = c /\ o # "none"
    BY <2>1, DevFacts DEF Held
  <2>4. ZerosFrom(x.cache[i].data, x.cache[i].chunk, len[x.cache[i].obj])
    BY <2>3 DEF Within
  <2> QED BY <2>2, <2>3, <2>4
<1>3. CASE \A i \in Slot : ~Held(x, i, o, c)
  <2>1. View(x, o, c) = x.stored[o][c].data
    BY <1>3, <1>1, ViewIs
  <2> QED BY <2>1 DEF Within
<1> QED BY <1>2, <1>3

LEMMA OneBase ==
  ASSUME device \in Devices, NEW c \in Nat \ {0}, NEW d \in Nat \ {0}, NEW j \in 0 .. CS - 1,
         Base(d) + j >= Base(c), Base(d) + j < Base(c) + CS
  PROVE  d = c
<1> DEFINE i == Base(d) + j
           k == i - Base(c)
<1>1. Base(c) \in Nat /\ Base(d) \in Nat /\ CS \in Nat
  BY BaseIs, DevFacts
<1>2. k \in 0 .. CS - 1 /\ Base(c) + k = i
  BY <1>1
<1>3. chunk_of(i) = d
  BY BaseIs
<1> HIDE DEF k, i
<1>4. chunk_of(Base(c) + k) = c
  BY <1>2, BaseIs
<1> QED BY <1>2, <1>3, <1>4

\* What a write to o up to the byte end leaves alone
Beside(x, y, o) ==
  /\ \A p \in Files, d \in ChunkNo :
       p # o => View(y, p, d) = View(x, p, d) /\ y.stored[p][d].data \in {x.stored[p][d].data, View(x, p, d)}
  /\ \A d \in ChunkNo : y.stored[o][d].data \in {x.stored[o][d].data, View(x, o, d), View(y, o, d)}
  /\ \A p \in Files : IsDirty(y, p) => IsDirty(x, p) \/ p = o
Inside(x, y, o, end) ==
  \A len \in [Files -> Nat] : Within(x, len) /\ len[o] >= x.size[o].file /\ len[o] >= end => Within(y, len)
Put(x, y, o, end) == Sound(y) /\ Kept(x, y) /\ Beside(x, y, o) /\ Inside(x, y, o, end)

\* The bytes from offset to end are v, the others as before.
New(i, offset, end) == i >= offset /\ i < end
Shows(x, y, o, offset, end, v) ==
  \A d \in ChunkNo : \A j \in 0 .. CS - 1 :
    View(y, o, d)[j] = IF New(Base(d) + j, offset, end) THEN v ELSE View(x, o, d)[j]
\* The chunk that could not be written may have lost what was not stored of it.
Lost(x, y, o, offset, end, d, j) ==
  Bypass /\ d = chunk_of(end) /\ ~New(Base(d) + j, offset, end) /\ View(y, o, d)[j] = x.stored[o][d].data[j]
ShowsSome(x, y, o, offset, end, v) ==
  \A d \in ChunkNo : \A j \in 0 .. CS - 1 :
    \/ View(y, o, d)[j] = IF New(Base(d) + j, offset, end) THEN v ELSE View(x, o, d)[j]
    \/ Lost(x, y, o, offset, end, d, j)
Behind(x, y, o, c) == \A d \in ChunkNo : d >= c => View(y, o, d) = View(x, o, d)

\* The arithmetic of one piece of a write
LEMMA Piece ==
  ASSUME device \in Devices, NEW offset \in Nat, NEW n \in Nat, n >= 1, offset + n <= MaxSize,
         NEW c \in Nat, c >= chunk_of(offset), c <= chunk_of(offset + n - 1),
         NEW done \in Nat, done < n, offset + done = Base(c) + Begin(offset, c),
         NEW start, start = Begin(offset, c), NEW copy, copy = End(offset, n, c) - start
  PROVE  /\ c \in ChunkNo /\ c # 0 /\ Base(c) \in Nat /\ start \in 0 .. CS - 1 /\ copy \in Nat /\ copy >= 1 /\ done + copy <= n
         /\ copy = (IF start + (n - done) < CS THEN n - done ELSE CS - start)
         /\ start = IF offset >= Base(c) THEN offset - Base(c) ELSE 0
         /\ start + copy <= CS
         /\ c = chunk_of(offset + n - 1) => done + copy = n
         /\ c < chunk_of(offset + n - 1) =>
              offset + (done + copy) = Base(c + 1) /\ done + copy < n /\ Begin(offset, c + 1) = 0 
<1> DEFINE b == Base(c)
           l == chunk_of(offset + n - 1)
<1>1. /\ c \in ChunkNo /\ c # 0 /\ b \in Nat /\ b <= offset + n - 1 /\ offset < b + CS
      /\ Begin(offset, c) = IF offset >= b THEN offset - b ELSE 0
      /\ End(offset, n, c) = IF offset + n - b <= CS THEN offset + n - b ELSE CS
  BY PieceIs
<1>2. CS \in Nat /\ CS >= 1
  BY DevFacts
<1>3. start = (IF offset >= b THEN offset - b ELSE 0) /\ offset + done = b + start
  BY <1>1
<1>4. copy = (IF offset + n - b <= CS THEN offset + n - b ELSE CS) - start
  BY <1>1
<1>5. c = l => offset + n - 1 < b + CS
  <2> DEFINE e == offset + n - 1
  <2>1. e \in Nat
    OBVIOUS
  <2> HIDE DEF e
  <2>2. e = (chunk_of(e) - 1) * CS + start_of(e) /\ start_of(e) \in 0 .. CS - 1
    BY <2>1, Address
  <2>3. e = Base(chunk_of(e)) + start_of(e)
    BY <2>2 DEF Base
  <2>4. c = chunk_of(e) => e < b + CS
    BY <2>2, <2>3, <1>1, <1>2
  <2> QED BY <2>4 DEF e
<1>6. c < l => /\ Base(c + 1) <= offset + n - 1 /\ Base(c + 1) = b + CS
               /\ Begin(offset, c + 1) = IF offset >= Base(c + 1) THEN offset - Base(c + 1) ELSE 0
  <2> SUFFICES ASSUME c < l PROVE /\ Base(c + 1) <= offset + n - 1 /\ Base(c + 1) = b + CS
                                  /\ Begin(offset, c + 1) = IF offset >= Base(c + 1) THEN offset - Base(c + 1) ELSE 0
    OBVIOUS
  <2> DEFINE g == c + 1
  <2>1. l \in Nat
    <3> DEFINE e == offset + n - 1
    <3>1. e \in Nat
      OBVIOUS
    <3> HIDE DEF e
    <3>2. chunk_of(e) \in Nat
      BY <3>1, Address
    <3> QED BY <3>2 DEF e
  <2>2. g \in Nat /\ g >= chunk_of(offset) /\ g <= l
    <3>1. chunk_of(offset) \in Nat
      BY Address
    <3> HIDE DEF l
    <3> QED BY <3>1, <2>1
  <2> HIDE DEF g
  <2>3. Base(g) <= offset + n - 1 /\ Begin(offset, g) = IF offset >= Base(g) THEN offset - Base(g) ELSE 0
    BY <2>2, PieceIs
  <2>4. Base(c + 1) = b + CS
    BY <1>1, BaseIs
  <2> QED BY <2>3, <2>4 DEF g
<1> HIDE DEF b, l
<1>7. /\ start \in 0 .. CS - 1 /\ copy \in Nat /\ copy >= 1 /\ done + copy <= n /\ start + copy <= CS
      /\ copy = (IF start + (n - done) < CS THEN n - done ELSE CS - start)
  BY <1>1, <1>2, <1>3, <1>4
<1>8. c = l => done + copy = n
  BY <1>1, <1>2, <1>3, <1>4, <1>5
<1>9. c < l => offset + (done + copy) = Base(c + 1) /\ done + copy < n /\ Begin(offset, c + 1) = 0
  BY <1>1, <1>2, <1>3, <1>4, <1>6
<1> QED BY <1>1, <1>3, <1>7, <1>8, <1>9 DEF b, l

\* One piece that was written, after the bytes up to here
LEMMA PutMore ==
  ASSUME device \in Devices, NEW x, Sound(x), NEW o \in Files, NEW offset \in Nat, NEW v \in Nat, NEW c \in ChunkNo,
         NEW here \in Nat, NEW start \in 0 .. CS - 1, here = Base(c) + start,
         start = (IF offset >= Base(c) THEN offset - Base(c) ELSE 0),
         NEW copy \in Nat, copy >= 1, start + copy <= CS,
         NEW y, Put(x, y, o, here), Shows(x, y, o, offset, here, v), Behind(x, y, o, c),
         NEW z, NEW data, data = Filled(View(y, o, c), start, copy, v), NEW m,
         Wrote(y, z, o, c, data, m), \A l \in Nat : l >= y.size[o].file /\ l >= here + copy => Reaches(c, m, l)
  PROVE  /\ Put(x, z, o, here + copy) /\ Shows(x, z, o, offset, here + copy, v) /\ Behind(x, z, o, c + 1)
<1> DEFINE b == Base(c)
<1>1. /\ Sound(y) /\ Kept(x, y) /\ Beside(x, y, o) /\ Inside(x, y, o, here)
      /\ Sound(z) /\ Kept(y, z) /\ x \in State /\ y \in State
  BY DEF Put, Wrote, Sound
<1>2. c \in Nat \ {0} /\ b \in Nat /\ CS \in Nat /\ \A d \in ChunkNo : d \in Nat \ {0} /\ Base(d) \in Nat
  <2>1. \A d \in ChunkNo : d \in Nat \ {0}
    BY DevFacts DEF ChunkNo
  <2> QED BY <2>1, DevFacts, BaseIs
<1>3. View(z, o, c) = data /\ View(y, o, c) = View(x, o, c)
  BY <1>2 DEF Wrote, Behind
<1>4. \A j \in 0 .. CS - 1 : data[j] = IF j >= start /\ j < start + copy THEN v ELSE View(y, o, c)[j]
  <2> DEFINE d == View(y, o, c)
  <2>1. d \in Bytes /\ data = Filled(d, start, copy, v) /\ start \in Nat
    BY <1>1, <1>2, ViewType
  <2> HIDE DEF d
  <2>2. \A j \in 0 .. CS - 1 : Filled(d, start, copy, v)[j] = IF j >= start /\ j < start + copy THEN v ELSE d[j]
    BY <2>1 DEF Filled, Bytes
  <2> QED BY <2>1, <2>2 DEF d
<1>5. ASSUME NEW d \in ChunkNo, d # c
      PROVE  View(z, o, d) = View(y, o, d) /\ z.stored[o][d].data \in {y.stored[o][d].data, View(y, o, d)}
  BY <1>5 DEF Wrote
<1>6. Kept(x, z)
  BY <1>1, KeptTrans
<1>7. Beside(x, z, o)
  <2>1. ASSUME NEW p \in Files, NEW d \in ChunkNo, p # o
        PROVE  View(z, p, d) = View(x, p, d) /\ z.stored[p][d].data \in {x.stored[p][d].data, View(x, p, d)}
    <3>1. View(y, p, d) = View(x, p, d) /\ y.stored[p][d].data \in {x.stored[p][d].data, View(x, p, d)}
      BY <1>1, <2>1 DEF Beside
    <3>2. View(z, p, d) = View(y, p, d) /\ z.stored[p][d].data \in {y.stored[p][d].data, View(y, p, d)}
      BY <2>1 DEF Wrote
    <3> QED BY <3>1, <3>2
  <2>2. ASSUME NEW d \in ChunkNo
        PROVE  z.stored[o][d].data \in {x.stored[o][d].data, View(x, o, d), View(z, o, d)}
    <3>1. y.stored[o][d].data \in {x.stored[o][d].data, View(x, o, d), View(y, o, d)}
      BY <1>1 DEF Beside
    <3>2. CASE d = c
      <4>1. z.stored[o][c].data \in {y.stored[o][c].data, View(y, o, c), data}
        BY DEF Wrote
      <4> QED BY <3>1, <3>2, <4>1, <1>3
    <3>3. CASE d # c
      BY <3>1, <3>3, <1>5
    <3> QED BY <3>2, <3>3
  <2>3. ASSUME NEW p \in Files, IsDirty(z, p) PROVE IsDirty(x, p) \/ p = o
    BY <2>3, <1>1 DEF Wrote, Beside
  <2> QED BY <2>1, <2>2, <2>3 DEF Beside
<1>8. ASSUME NEW len \in [Files -> Nat], Within(x, len), len[o] >= x.size[o].file, len[o] >= here + copy
      PROVE  Within(z, len)
  <2>1. len[o] \in Nat /\ len[o] >= here /\ y.size[o].file = x.size[o].file
    BY <1>1, <1>8 DEF Kept
  <2>2. Within(y, len)
    BY <2>1, <1>1, <1>8 DEF Inside
  <2>3. Reaches(c, m, len[o])
    BY <2>1, <1>8
  <2>4. ZerosFrom(data, c, len[o])
    <3>1. ZerosFrom(View(y, o, c), c, len[o])
      BY <2>2, <1>1, ViewZeros
    <3>2. ASSUME NEW j \in 0 .. CS - 1, b + j >= len[o] PROVE data[j] = 0
      <4>1. ~(j < start + copy)
        <5> HIDE DEF b
        <5>1. here = b + start
          BY DEF b
        <5> QED BY <5>1, <3>2, <1>2, <1>8, <2>1
      <4>2. View(y, o, c)[j] = 0
        BY <3>1, <3>2 DEF ZerosFrom, Base
      <4> QED BY <4>1, <4>2, <1>4
    <3> QED BY <3>2 DEF ZerosFrom, Base
  <2> QED BY <2>2, <2>3, <2>4 DEF Wrote
<1>9. Put(x, z, o, here + copy)
  BY <1>1, <1>6, <1>7, <1>8 DEF Put, Inside
<1>10. ASSUME NEW d \in ChunkNo, NEW j \in 0 .. CS - 1
       PROVE  View(z, o, d)[j] = IF New(Base(d) + j, offset, here + copy) THEN v ELSE View(x, o, d)[j]
  <2> DEFINE i == Base(d) + j
  <2>1. View(y, o, d)[j] = IF New(i, offset, here) THEN v ELSE View(x, o, d)[j]
    BY DEF Shows
  <2>2. i \in Nat /\ j \in Nat
    BY <1>2
  <2>3. CASE d = c
    <3>1. i = b + j
      BY <2>3
    <3> HIDE DEF i, b
    <3>2. New(i, offset, here + copy) <=> (j >= start /\ j < start + copy)
      <4>1. here = b + start /\ start = IF offset >= b THEN offset - b ELSE 0
        BY DEF b
      <4> QED BY <3>1, <4>1, <1>2, <2>2 DEF New
    <3> QED BY <3>2, <2>3, <1>3, <1>4 DEF i
  <2>4. CASE d # c
    <3>1. ~(i >= b /\ i < b + CS)
      BY <2>4, <1>2, OneBase
    <3> HIDE DEF i, b
    <3>2. New(i, offset, here + copy) <=> New(i, offset, here)
      <4>1. here = b + start
        BY DEF b
      <4> QED BY <3>1, <4>1, <1>2, <2>2 DEF New
    <3> QED BY <3>2, <2>1, <2>4, <1>5 DEF i
  <2> QED BY <2>3, <2>4
<1>11. Behind(x, z, o, c + 1)
  <2> SUFFICES ASSUME NEW d \in ChunkNo, d >= c + 1 PROVE View(z, o, d) = View(x, o, d)
    BY DEF Behind
  <2>1. d >= c /\ d # c
    BY <1>2
  <2> QED BY <2>1, <1>5 DEF Behind
<1> QED BY <1>9, <1>10, <1>11 DEF Shows

\* A piece that could not be written
LEMMA PutFailed ==
  ASSUME device \in Devices, NEW x, Sound(x), NEW o \in Files, NEW offset \in Nat, NEW v \in Nat, NEW c \in ChunkNo,
         NEW here \in Nat, NEW start \in 0 .. CS - 1, here = Base(c) + start,
         start = (IF offset >= Base(c) THEN offset - Base(c) ELSE 0),
         NEW y, Put(x, y, o, here), Shows(x, y, o, offset, here, v), Behind(x, y, o, c),
         NEW z, Quiet(y, z) \/ (Bypass /\ Wrote(y, z, o, c, y.stored[o][c].data, 0))
  PROVE  Put(x, z, o, here) /\ ShowsSome(x, z, o, offset, here, v)
<1> DEFINE b == Base(c)
           old == y.stored[o][c].data
<1>1. /\ Sound(y) /\ Kept(x, y) /\ Beside(x, y, o) /\ Inside(x, y, o, here)
      /\ Sound(z) /\ Kept(y, z) /\ x \in State /\ y \in State
  BY DEF Put, Wrote, Quiet, Sound
<1>2. c \in Nat \ {0} /\ b \in Nat /\ CS \in Nat /\ \A d \in ChunkNo : d \in Nat \ {0} /\ Base(d) \in Nat
  <2>1. \A d \in ChunkNo : d \in Nat \ {0}
    BY DevFacts DEF ChunkNo
  <2> QED BY <2>1, DevFacts, BaseIs
<1>3. chunk_of(here) = c
  BY <1>2, BaseIs
<1>4. View(y, o, c) = View(x, o, c) /\ old \in {x.stored[o][c].data, View(x, o, c)}
  BY <1>1, <1>2 DEF Behind, Beside
<1>5. Kept(x, z)
  BY <1>1, KeptTrans
<1>6. ASSUME NEW p \in Files, NEW d \in ChunkNo, p # o \/ d # c
      PROVE  View(z, p, d) = View(y, p, d) /\ z.stored[p][d].data \in {y.stored[p][d].data, View(y, p, d)}
  BY <1>6 DEF Wrote, Quiet
<1>7. /\ View(z, o, c) = View(y, o, c) \/ (Bypass /\ View(z, o, c) = old)
      /\ z.stored[o][c].data \in {old, View(y, o, c)}
  BY DEF Wrote, Quiet
<1>8. Beside(x, z, o)
  <2>1. ASSUME NEW p \in Files, NEW d \in ChunkNo, p # o
        PROVE  View(z, p, d) = View(x, p, d) /\ z.stored[p][d].data \in {x.stored[p][d].data, View(x, p, d)}
    BY <2>1, <1>1, <1>6 DEF Beside
  <2>2. ASSUME NEW d \in ChunkNo
        PROVE  z.stored[o][d].data \in {x.stored[o][d].data, View(x, o, d), View(z, o, d)}
    <3>1. CASE d = c
      BY <3>1, <1>4, <1>7
    <3>2. CASE d # c
      BY <3>2, <1>1, <1>6 DEF Beside
    <3> QED BY <3>1, <3>2
  <2>3. ASSUME NEW p \in Files, IsDirty(z, p) PROVE IsDirty(x, p) \/ p = o
    BY <2>3, <1>1 DEF Wrote, Quiet, Beside
  <2> QED BY <2>1, <2>2, <2>3 DEF Beside
<1>9. ASSUME NEW len \in [Files -> Nat], Within(x, len), len[o] >= x.size[o].file, len[o] >= here
      PROVE  Within(z, len)
  <2>1. Within(y, len)
    BY <1>1, <1>9 DEF Inside
  <2>2. ZerosFrom(old, c, len[o])
    BY <2>1 DEF Within
  <2> QED BY <2>1, <2>2 DEF Wrote, Quiet
<1>10. Put(x, z, o, here)
  BY <1>1, <1>5, <1>8, <1>9 DEF Put, Inside
<1>11. ASSUME NEW d \in ChunkNo, NEW j \in 0 .. CS - 1
       PROVE  \/ View(z, o, d)[j] = IF New(Base(d) + j, offset, here) THEN v ELSE View(x, o, d)[j]
              \/ Lost(x, z, o, offset, here, d, j)
  <2> DEFINE i == Base(d) + j
  <2>1. View(y, o, d)[j] = IF New(i, offset, here) THEN v ELSE View(x, o, d)[j]
    BY DEF Shows
  <2>2. CASE d # c \/ View(z, o, c) = View(y, o, c)
    BY <2>1, <2>2, <1>6
  <2>3. CASE d = c /\ Bypass /\ View(z, o, c) = old
    <3>1. ~New(i, offset, here)
      <4>1. i = b + j /\ here = b + start /\ start = IF offset >= b THEN offset - b ELSE 0
        BY <2>3
      <4> HIDE DEF i, b
      <4> QED BY <4>1, <1>2 DEF New
    <3>2. CASE old = View(x, o, c)
      BY <2>3, <3>1, <3>2
    <3>3. CASE old = x.stored[o][c].data
      BY <2>3, <3>1, <3>3, <1>3 DEF Lost
    <3> QED BY <3>2, <3>3, <1>4
  <2> QED BY <2>2, <2>3, <1>7
<1> QED BY <1>10, <1>11 DEF ShowsSome

RoundWrote(x, y, w, o, offset, v, through, c, done, copy) ==
  /\ w.ok \in BOOLEAN /\ w.x \in State
  /\ w.ok => /\ Put(x, w.x, o, offset + (done + copy)) /\ Shows(x, w.x, o, offset, offset + (done + copy), v)
             /\ Behind(x, w.x, o, c + 1)
  /\ ~w.ok => Put(x, w.x, o, offset + done) /\ ShowsSome(x, w.x, o, offset, offset + done, v)
  /\ y.free > Reserve + 1 => w.ok
  /\ ~through => /\ w.x.free >= y.free - 1
                 /\ copy < CS /\ Ready(y, o, c) => w.x.free >= y.free
                 /\ copy < CS /\ w.ok => Ready(w.x, o, c)

LEMMA WriteRound ==
  ASSUME device \in Devices, NEW x, Sound(x), NEW o \in Files, NEW offset \in Nat, NEW n \in Nat, n >= 1,
         offset + n <= MaxSize, NEW v \in Nat, NEW through \in BOOLEAN,
         NEW c \in Nat, c >= chunk_of(offset), c <= chunk_of(offset + n - 1),
         NEW done \in Nat, done < n, offset + done = Base(c) + Begin(offset, c),
         NEW start, start = Begin(offset, c), NEW copy, copy = End(offset, n, c) - start,
         NEW y, Put(x, y, o, offset + done), Shows(x, y, o, offset, offset + done, v), Behind(x, y, o, c),
         NEW w, w = wr_chunk(y, o, c, start, copy, n - done, v, through)
  PROVE  RoundWrote(x, y, w, o, offset, v, through, c, done, copy)
<1> SUFFICES /\ w.ok \in BOOLEAN /\ w.x \in State
             /\ w.ok => /\ Put(x, w.x, o, offset + (done + copy)) /\ Shows(x, w.x, o, offset, offset + (done + copy), v)
                        /\ Behind(x, w.x, o, c + 1)
             /\ ~w.ok => Put(x, w.x, o, offset + done) /\ ShowsSome(x, w.x, o, offset, offset + done, v)
             /\ y.free > Reserve + 1 => w.ok
             /\ ~through => /\ w.x.free >= y.free - 1
                            /\ copy < CS /\ Ready(y, o, c) => w.x.free >= y.free
                            /\ copy < CS /\ w.ok => Ready(w.x, o, c)
  BY DEF RoundWrote
<1> DEFINE here == offset + done
           rest == n - done
           data == Filled(View(y, o, c), start, copy, v)
           m == writeback(y, o, c, start, rest)
           z == w.x
<1>1. /\ c \in ChunkNo /\ c # 0 /\ Base(c) \in Nat /\ start \in 0 .. CS - 1 /\ copy \in Nat /\ copy >= 1
      /\ copy = (IF start + rest < CS THEN rest ELSE CS - start)
      /\ start = IF offset >= Base(c) THEN offset - Base(c) ELSE 0
      /\ start + copy <= CS
  BY Piece
<1>2. rest \in Nat /\ rest >= 1 /\ here \in Nat /\ here = Base(c) + start /\ start \in Nat /\ CS \in Nat
  BY <1>1, DevFacts
<1>3. Sound(y) /\ y \in State /\ Put(x, y, o, here) /\ Shows(x, y, o, offset, here, v)
  BY DEF Put, Sound
<1>4. data = Filled(View(y, o, c), start, copy, v) /\ m = writeback(y, o, c, start, rest) /\ z = w.x
      /\ w = wr_chunk(y, o, c, start, copy, rest, v, through)
  OBVIOUS
<1> HIDE DEF here, rest, data, m, z
<1>5. /\ WroteChunk(y, w, o, c, data, m)
      /\ ~through => w.x.free >= y.free - 1
      /\ ~through /\ copy < CS /\ Ready(y, o, c) => w.x.free >= y.free
      /\ ~through /\ copy < CS /\ w.ok => Ready(w.x, o, c)
  BY <1>1, <1>2, <1>3, <1>4, WrChunkIs
<1>6. \A l \in Nat : l >= y.size[o].file /\ l >= here + copy => Reaches(c, m, l)
  <2>1. \A l \in Nat : l >= y.size[o].file /\ l >= (c - 1) * CS + (IF start + rest < CS THEN start + rest ELSE CS)
                       => Reaches(c, m, l)
    BY <1>1, <1>2, <1>3, <1>4, WritebackIs
  <2>2. here + copy = Base(c) + (IF start + rest < CS THEN start + rest ELSE CS)
    BY <1>1, <1>2
  <2> QED BY <2>1, <2>2 DEF Base
<1>7. ASSUME w.ok
      PROVE  Put(x, z, o, here + copy) /\ Shows(x, z, o, offset, here + copy, v) /\ Behind(x, z, o, c + 1)
  <2>1. Wrote(y, z, o, c, data, m)
    BY <1>4, <1>5, <1>7 DEF WroteChunk
  <2> QED BY <2>1, <1>1, <1>2, <1>3, <1>4, <1>6, PutMore
<1>8. ASSUME ~w.ok
      PROVE  Put(x, z, o, here) /\ ShowsSome(x, z, o, offset, here, v)
  <2>1. Quiet(y, z) \/ (Bypass /\ Wrote(y, z, o, c, y.stored[o][c].data, 0))
    BY <1>4, <1>5, <1>8 DEF WroteChunk
  <2> QED BY <2>1, <1>1, <1>2, <1>3, PutFailed
<1>9. here + copy = offset + (done + copy)
  BY <1>1 DEF here
<1>10. w.ok \in BOOLEAN /\ (y.free > Reserve + 1 => w.ok)
  BY <1>5 DEF WroteChunk
<1>11. z \in State
  BY <1>7, <1>8, <1>10 DEF Put, Sound
<1> QED BY <1>4, <1>5, <1>7, <1>8, <1>9, <1>10, <1>11 DEF here

Part(offset, n, c) == End(offset, n, c) - Begin(offset, c)
LastOf(offset, n) == chunk_of(offset + n - 1)
Count(offset, n) == LastOf(offset, n) - chunk_of(offset) + 1

\* Enough for m chunks that are not stored, or the first of which is stored
Enough(x, o, f, m, part) ==
  /\ x.free > Reserve + 1
  /\ x.free > Reserve + m \/ (Ready(x, o, f) /\ part < CS /\ x.free + 1 > Reserve + m)

WrotePart(x, a, o, offset, n, v) ==
  /\ a \in [x : State, done : 0 .. n, ok : BOOLEAN]
  /\ Put(x, a.x, o, offset + a.done)
  /\ a.ok => Shows(x, a.x, o, offset, offset + a.done, v)
  /\ ~a.ok => a.done < n /\ ShowsSome(x, a.x, o, offset, offset + a.done, v)

LEMMA WrChunksIs ==
  ASSUME device \in Devices, NEW x, Sound(x), NEW o \in Files, NEW offset \in Nat, NEW n \in Nat, n >= 1,
         offset + n <= MaxSize, NEW v \in Nat, NEW through \in BOOLEAN,
         NEW r, r = wr_chunks(x, o, offset, n, v, through)
  PROVE  /\ WrotePart(x, r, o, offset, n, v) /\ (r.ok <=> r.done = n)
         /\ ~through =>
              /\ r.x.free + Count(offset, n) >= x.free
              /\ Ready(x, o, chunk_of(offset)) /\ Part(offset, n, chunk_of(offset)) < CS =>
                   r.x.free + Count(offset, n) >= x.free + 1
              /\ Enough(x, o, chunk_of(offset), Count(offset, n), Part(offset, n, chunk_of(offset))) => r.ok
              /\ r.ok /\ Part(offset, n, LastOf(offset, n)) < CS => Ready(r.x, o, LastOf(offset, n))
<1> DEFINE f == chunk_of(offset)
           l == chunk_of(offset + n - 1)
           m == l - f + 1
           q == Chunks(offset, n)
           b == WriteBase(x)
           part == Part(offset, n, f)
           first == Ready(x, o, f) /\ part < CS
           Place(a, k) == IF k = m THEN a.done = n ELSE a.done < n /\ offset + a.done = Base(f + k) + Begin(offset, f + k)
           Budget(a, k) == /\ a.x.free + k >= x.free
                           /\ first /\ k >= 1 => a.x.free + k >= x.free + 1
                           /\ Enough(x, o, f, m, part) => a.ok
                           /\ k >= 1 /\ a.ok /\ Part(offset, n, f + k - 1) < CS => Ready(a.x, o, f + k - 1)
           Good(a, k) == /\ WrotePart(x, a, o, offset, n, v)
                         /\ a.ok => Behind(x, a.x, o, f + k) /\ Place(a, k)
                         /\ k = 0 => a.x = x
                         /\ ~through => Budget(a, k)
           V == [k \in 0 .. m |-> {a \in [x : State, done : 0 .. n, ok : BOOLEAN] : Good(a, k)}]
<1>1. /\ f \in Nat \ {0} /\ l \in Nat \ {0} /\ f <= l /\ m \in Nat /\ m >= 1 /\ Len(q) = m
      /\ \A k \in 1 .. m : q[k] = f + k - 1
  BY ChunksIs
<1>2. b = WriteBase(x) /\ q = Chunks(offset, n) /\ f = chunk_of(offset) /\ l = LastOf(offset, n) /\ m = Count(offset, n)
      /\ l = chunk_of(offset + n - 1) /\ m = l - f + 1
  BY DEF LastOf, Count
<1> HIDE DEF f, l, m
<1>3. x \in State /\ x.free \in Nat /\ Reserve \in Nat /\ CS \in Nat
  BY StateFields, DevFacts DEF Sound
<1>4. b \in V[0]
  <2>1. b.x = x /\ b.done = 0 /\ b.ok = TRUE /\ b \in [x : State, done : 0 .. n, ok : BOOLEAN]
    BY <1>3 DEF WriteBase
  <2> HIDE DEF b
  <2>2. Quiet(x, x)
    BY QuietSelf
  <2>3. Put(x, x, o, offset + 0)
    BY <2>2 DEF Put, Quiet, Beside, Inside
  <2>4. Shows(x, x, o, offset, offset + 0, v)
    <3>1. \A d \in ChunkNo : \A j \in 0 .. CS - 1 : ~New(Base(d) + j, offset, offset + 0)
      <4> SUFFICES ASSUME NEW d \in ChunkNo, NEW j \in 0 .. CS - 1 PROVE ~New(Base(d) + j, offset, offset + 0)
        OBVIOUS
      <4>1. d \in Nat \ {0}
        BY DevFacts DEF ChunkNo
      <4>2. Base(d) \in Nat
        BY <4>1, BaseIs
      <4> QED BY <4>2 DEF New
    <3> QED BY <3>1 DEF Shows
  <2>5. Behind(x, x, o, f + 0)
    BY DEF Behind
  <2>6. 0 < n /\ offset + 0 = Base(f + 0) + Begin(offset, f + 0) /\ 0 # m
    <3>1. offset = (f - 1) * CS + start_of(offset) /\ start_of(offset) \in 0 .. CS - 1
      BY <1>2, Address
    <3>2. Base(f) \in Nat /\ Begin(offset, f) = IF offset >= Base(f) THEN offset - Base(f) ELSE 0
      BY <1>1, <1>2, PieceIs
    <3>3. offset >= Base(f)
      <4>1. offset = Base(f) + start_of(offset)
        BY <3>1 DEF Base
      <4> QED BY <4>1, <3>1, <3>2, <1>3
    <3>4. f + 0 = f
      BY <1>1
    <3> QED BY <3>2, <3>3, <3>4, <1>1
  <2>7. WrotePart(x, b, o, offset, n, v)
    BY <2>1, <2>3, <2>4, <1>3 DEF WrotePart
  <2>8. Budget(b, 0)
    <3> HIDE DEF part, first
    <3> QED BY <2>1, <1>3
  <2>9. Place(b, 0)
    BY <2>1, <2>6
  <2>10. Good(b, 0)
    <3> HIDE DEF Budget, Place
    <3> QED BY <2>1, <2>5, <2>7, <2>8, <2>9
  <2>11. 0 \in 0 .. m
    BY <1>1
  <2> HIDE DEF Good
  <2> QED BY <2>1, <2>10, <2>11
<1>5. ASSUME NEW k \in 1 .. m, NEW a \in [x : State, done : 0 .. n, ok : BOOLEAN], Good(a, k - 1),
             NEW e, e = WriteBody(a, q[k], o, offset, n, v, through)
      PROVE  e \in [x : State, done : 0 .. n, ok : BOOLEAN] /\ Good(e, k)
  <2> DEFINE c == f + k - 1
             y == a.x
             done == a.done
             start == Begin(offset, c)
             copy == End(offset, n, c) - start
             w == wr_chunk(y, o, c, start, copy, n - done, v, through)
  <2>1. q[k] = c /\ c \in Nat /\ c >= f /\ c <= l /\ c = f + (k - 1) /\ f + k = c + 1 /\ k \in Nat /\ k - 1 \in Nat /\ k - 1 # m /\ k >= 1
        /\ (k = m <=> c = l) /\ y \in State /\ y.free \in Nat /\ done \in Nat /\ k <= m
    <3>1. y \in State /\ done \in Nat
      OBVIOUS
    <3>2. y.free \in Nat
      <4> HIDE DEF y
      <4> QED BY <3>1, StateFields
    <3> HIDE DEF q, b, V
    <3>3. q[k] = c /\ k \in Nat /\ k >= 1 /\ k <= m
      BY <1>1
    <3>4. c \in Nat /\ c >= f /\ c <= l /\ c = f + (k - 1) /\ f + k = c + 1 /\ k - 1 \in Nat /\ k - 1 # m
      <4>1. f \in Nat /\ l \in Nat /\ m = l - f + 1 /\ c = f + k - 1 /\ k \in Nat /\ k >= 1 /\ k <= m
        BY <3>3, <1>1, <1>2
      <4> HIDE DEF c
      <4> QED BY <4>1
    <3>5. k = m <=> c = l
      <4>1. f \in Nat /\ l \in Nat /\ m = l - f + 1 /\ c = f + k - 1 /\ k \in Nat
        BY <3>3, <1>1, <1>2
      <4> HIDE DEF c
      <4> QED BY <4>1
    <3> HIDE DEF c, y, done
    <3> QED BY <3>1, <3>2, <3>3, <3>4, <3>5
  <2>2. e = IF ~a.ok THEN a ELSE [x |-> w.x, done |-> IF w.ok THEN done + copy ELSE done, ok |-> w.ok]
    <3> HIDE DEF c, q
    <3>1. e = WriteBody(a, c, o, offset, n, v, through)
      BY <2>1, <1>5
    <3> QED BY <3>1 DEF WriteBody
  <2>3. CASE ~a.ok
    <3>1. e = a
      BY <2>2, <2>3
    <3>2. ~through => Budget(e, k)
      <4>1. ~through => Budget(a, k - 1)
        BY <1>5
      <4> SUFFICES ASSUME ~through PROVE Budget(a, k)
        BY <3>1
      <4>2. /\ y.free + (k - 1) >= x.free /\ ~Enough(x, o, f, m, part)
            /\ first /\ k - 1 >= 1 => y.free + (k - 1) >= x.free + 1
        BY <4>1, <2>3
      <4>3. y.free + k >= x.free /\ y.free + k >= x.free + 1
        <5> HIDE DEF y
        <5> QED BY <4>2, <2>1, <1>3
      <4> QED BY <4>2, <4>3, <2>3
    <3> HIDE DEF Budget, Place
    <3>3. k # 0
      BY <2>1
    <3> QED BY <3>1, <3>2, <3>3, <2>3, <1>5
  <2>4. CASE a.ok
    <3>1. /\ Put(x, y, o, offset + done) /\ Shows(x, y, o, offset, offset + done, v) /\ Behind(x, y, o, c)
          /\ done < n /\ offset + done = Base(c) + Begin(offset, c)
      <4>1. Place(a, k - 1) /\ Behind(x, a.x, o, f + (k - 1)) /\ WrotePart(x, a, o, offset, n, v)
        BY <1>5, <2>4
      <4>2. done < n /\ offset + done = Base(c) + Begin(offset, c)
        BY <4>1, <2>1
      <4> QED BY <4>1, <4>2, <2>1, <2>4 DEF WrotePart
    <3>2. start = Begin(offset, c) /\ copy = End(offset, n, c) - start /\ w = wr_chunk(y, o, c, start, copy, n - done, v, through)
          /\ copy = Part(offset, n, c)
      BY DEF Part
    <3>3. e.x = w.x /\ e.done = (IF w.ok THEN done + copy ELSE done) /\ e.ok = w.ok
          /\ e = [x |-> w.x, done |-> IF w.ok THEN done + copy ELSE done, ok |-> w.ok]
      BY <2>2, <2>4
    <3>4. (k = 1 => y = x /\ c = f) /\ (~through => Budget(a, k - 1))
      BY <1>5, <1>1
    <3> HIDE DEF c, y, done, start, copy, w
    <3> HIDE DEF q, b, V
    <3>0. c \in Nat /\ c >= chunk_of(offset) /\ c <= chunk_of(offset + n - 1) /\ done \in Nat
      BY <2>1, <1>2
    <3>5. /\ w.ok \in BOOLEAN /\ w.x \in State
          /\ w.ok => /\ Put(x, w.x, o, offset + (done + copy)) /\ Shows(x, w.x, o, offset, offset + (done + copy), v)
                     /\ Behind(x, w.x, o, c + 1)
          /\ ~w.ok => Put(x, w.x, o, offset + done) /\ ShowsSome(x, w.x, o, offset, offset + done, v)
          /\ y.free > Reserve + 1 => w.ok
          /\ ~through => /\ w.x.free >= y.free - 1
                         /\ copy < CS /\ Ready(y, o, c) => w.x.free >= y.free
                         /\ copy < CS /\ w.ok => Ready(w.x, o, c)
      <4>1. RoundWrote(x, y, w, o, offset, v, through, c, done, copy)
        BY <3>0, <3>1, <3>2, WriteRound
      <4> QED BY <4>1 DEF RoundWrote
    <3>6. /\ copy \in Nat /\ copy >= 1 /\ done + copy <= n
          /\ c = l => done + copy = n
          /\ c < l => offset + (done + copy) = Base(c + 1) /\ done + copy < n /\ Begin(offset, c + 1) = 0
      BY <3>0, <3>1, <3>2, <1>2, Piece
    <3>7. e \in [x : State, done : 0 .. n, ok : BOOLEAN]
      <4>1. (IF w.ok THEN done + copy ELSE done) \in 0 .. n
        BY <2>1, <3>1, <3>6
      <4> QED BY <4>1, <3>3, <3>5
    <3>8. WrotePart(x, e, o, offset, n, v)
      BY <3>1, <3>3, <3>5, <3>7 DEF WrotePart
    <3>9. e.ok => Behind(x, e.x, o, f + k) /\ Place(e, k)
      <4> SUFFICES ASSUME w.ok PROVE Behind(x, e.x, o, f + k) /\ Place(e, k)
        BY <3>3
      <4>1. e.done = done + copy /\ Behind(x, e.x, o, f + k)
        BY <3>3, <3>5, <2>1
      <4>2. CASE k = m
        BY <4>1, <4>2, <2>1, <3>6
      <4>3. CASE k # m
        <5>1. c < l
          BY <4>3, <2>1, <1>1
        <5>2. offset + (done + copy) = Base(c + 1) /\ done + copy < n /\ Begin(offset, c + 1) = 0
          BY <5>1, <3>6
        <5>3. Base(c + 1) \in Nat
          <6>1. c \in Nat \ {0}
            BY <2>1, <1>1
          <6>2. Base(c) \in Nat /\ Base(c + 1) = Base(c) + CS
            BY <6>1, BaseIs
          <6> QED BY <6>2, <1>3
        <5>4. offset + (done + copy) = Base(c + 1) + Begin(offset, c + 1)
          BY <5>2, <5>3
        <5> QED BY <5>2, <5>4, <4>1, <4>3, <2>1
      <4> QED BY <4>2, <4>3
    <3>10. ASSUME ~through PROVE Budget(e, k)
      <4> DEFINE ef == e.x.free  yf == y.free  xf == x.free
      <4>1. /\ yf + (k - 1) >= xf
            /\ first /\ k - 1 >= 1 => yf + (k - 1) >= xf + 1
        BY <3>4, <3>10 DEF y
      <4>2. ef \in Nat /\ yf \in Nat /\ xf \in Nat
        <5>1. e.x \in State
          BY <3>3, <3>5
        <5> DEFINE z == e.x
        <5>2. z \in State
          BY <5>1
        <5> HIDE DEF z
        <5>3. z.free \in Nat
          BY <5>2, StateFields
        <5> QED BY <5>3, <2>1, <1>3 DEF z
      <4>3. ef >= yf - 1 /\ (copy < CS /\ Ready(y, o, c) => ef >= yf) /\ (copy < CS /\ w.ok => Ready(e.x, o, c))
        BY <3>3, <3>5, <3>10
      <4>4. k = 1 => yf = xf /\ (first => ef >= yf)
        <5>1. k = 1 /\ first => copy < CS /\ Ready(y, o, c)
          BY <3>2, <3>4
        <5> QED BY <5>1, <4>3, <3>4
      <4>5. yf > Reserve + 1 => w.ok
        BY <3>5
      <4>6. Enough(x, o, f, m, part) => xf > Reserve + 1 /\ (xf > Reserve + m \/ (first /\ xf + 1 > Reserve + m))
        BY DEF Enough
      <4> HIDE DEF ef, yf, xf, first, part
      <4>7. ef + k >= xf /\ (first => ef + k >= xf + 1)
        BY <4>1, <4>2, <4>3, <4>4, <2>1
      <4>8. Enough(x, o, f, m, part) => w.ok
        <5> SUFFICES ASSUME Enough(x, o, f, m, part) PROVE yf > Reserve + 1
          BY <4>5
        <5>1. CASE k = 1
          BY <5>1, <4>4, <4>6
        <5>2. CASE k # 1
          <6>1. k - 1 >= 1
            BY <5>2, <2>1
          <6>2. CASE xf > Reserve + m
            BY <6>2, <4>1, <4>2, <2>1, <1>1, <1>3
          <6>3. CASE first /\ xf + 1 > Reserve + m
            BY <6>1, <6>3, <4>1, <4>2, <2>1, <1>1, <1>3
          <6> QED BY <6>2, <6>3, <4>6
        <5> QED BY <5>1, <5>2
      <4>9. e.ok /\ Part(offset, n, f + k - 1) < CS => Ready(e.x, o, f + k - 1)
        BY <4>3, <3>2, <3>3 DEF c
      <4> QED BY <4>7, <4>8, <4>9, <3>3 DEF ef, xf
    <3> HIDE DEF Budget, Place
    <3>11. k # 0
      BY <2>1
    <3> QED BY <3>7, <3>8, <3>9, <3>10, <3>11
  <2> QED BY <2>3, <2>4
<1>6. WriteGoes(V, q, m, o, offset, n, v, through)
  <2> SUFFICES ASSUME NEW k \in 1 .. m, NEW a \in V[k - 1]
               PROVE  WriteBody(a, q[k], o, offset, n, v, through) \in V[k]
    BY DEF WriteGoes
  <2> DEFINE e == WriteBody(a, q[k], o, offset, n, v, through)
  <2> HIDE DEF Good, q, e
  <2>1. k - 1 \in 0 .. m /\ k \in 0 .. m
    BY <1>1
  <2>2. a \in [x : State, done : 0 .. n, ok : BOOLEAN] /\ Good(a, k - 1)
    BY <2>1
  <2>3. e = WriteBody(a, q[k], o, offset, n, v, through)
    BY DEF e
  <2>4. e \in [x : State, done : 0 .. n, ok : BOOLEAN] /\ Good(e, k)
    BY <2>2, <2>3, <1>5
  <2>5. e \in V[k]
    BY <2>1, <2>4
  <2> QED BY <2>5 DEF e
<1>7. r \in V[m]
  <2> HIDE DEF V, q, b
  <2> QED BY <1>1, <1>2, <1>4, <1>6, WriteEnds
<1>8. Good(r, m)
  <2> HIDE DEF Good
  <2>1. m \in 0 .. m
    BY <1>1
  <2> QED BY <2>1, <1>7
<1>9. r.ok <=> r.done = n
  <2>1. (r.ok => r.done = n) /\ (~r.ok => r.done < n) /\ r.done \in 0 .. n
    BY <1>8 DEF WrotePart
  <2> QED BY <2>1
<1>10. f + m - 1 = l
  BY <1>1, <1>2
<1> QED BY <1>1, <1>2, <1>8, <1>9, <1>10

\* The fields of a file that do not concern its bytes
Ended(x, y, o, end) ==
  /\ y.size[o].file = (IF x.size[o].file >= end THEN x.size[o].file ELSE end) /\ y.dirty[o]
  /\ \A p \in Files : p # o => y.size[p].file = x.size[p].file /\ y.dirty[p] = x.dirty[p]

Grown(y, o, end) == [y EXCEPT !.size[o].file = Max({y.size[o].file, end}), !.dirty[o] = TRUE]

LEMMA GrownIs ==
  ASSUME device \in Devices, NEW y \in State, NEW o \in Files, NEW end \in Nat, NEW z, z = Grown(y, o, end)
  PROVE  /\ z \in State /\ z.cache = y.cache /\ z.stored = y.stored /\ z.free = y.free
         /\ Ended(y, z, o, end)
<1> DEFINE top == Max({y.size[o].file, end})
<1>1. y.size[o].file \in Nat /\ y.size \in [Files -> [file : Nat, stored : Nat]] /\ y.dirty \in [Files -> BOOLEAN]
  BY StateFields
<1>2. top \in Nat /\ top = IF y.size[o].file >= end THEN y.size[o].file ELSE end
  <2> DEFINE a == y.size[o].file
  <2>1. a \in Int /\ end \in Int /\ a \in Nat
    BY <1>1
  <2> HIDE DEF a
  <2>2. Max({a, end}) = IF a >= end THEN a ELSE end
    BY <2>1, MaxMin
  <2> QED BY <2>1, <2>2 DEF a
<1>3. z = [y EXCEPT !.size[o].file = top, !.dirty[o] = TRUE]
  BY DEF Grown
<1> HIDE DEF top
<1>4. /\ z.cache = y.cache /\ z.stored = y.stored /\ z.free = y.free /\ z.lastUse = y.lastUse
      /\ z.size = [y.size EXCEPT ![o].file = top] /\ z.dirty = [y.dirty EXCEPT ![o] = TRUE]
      /\ z = [cache |-> z.cache, lastUse |-> z.lastUse, free |-> z.free, stored |-> z.stored, size |-> z.size, dirty |-> z.dirty]
  BY <1>3 DEF State
<1>5. /\ z.size \in [Files -> [file : Nat, stored : Nat]] /\ z.size[o].file = top
      /\ \A p \in Files : p # o => z.size[p] = y.size[p]
  BY <1>1, <1>2, <1>4
<1>6. z.dirty \in [Files -> BOOLEAN] /\ z.dirty[o] = TRUE /\ \A p \in Files : p # o => z.dirty[p] = y.dirty[p]
  BY <1>1, <1>4
<1>7. z \in State
  BY <1>4, <1>5, <1>6, StateFields DEF State
<1> QED BY <1>2, <1>4, <1>5, <1>6, <1>7 DEF Ended

FileWrote(x, r, o, offset, n, v) ==
  /\ r.x \in State /\ Sound(r.x) /\ r.done \in 0 .. n /\ r.ok \in BOOLEAN /\ (r.ok <=> r.done = n)
  /\ Beside(x, r.x, o) /\ Inside(x, r.x, o, offset + r.done) /\ Ended(x, r.x, o, offset + r.done)
  /\ r.ok => Shows(x, r.x, o, offset, offset + r.done, v)
  /\ ~r.ok => ShowsSome(x, r.x, o, offset, offset + r.done, v)
\* The chunks that a write to the cache takes from the flash
FileCost(x, r, o, offset, n) ==
  /\ r.x.free + Count(offset, n) >= x.free
  /\ Ready(x, o, chunk_of(offset)) /\ Part(offset, n, chunk_of(offset)) < CS =>
       r.x.free + Count(offset, n) >= x.free + 1
  /\ Enough(x, o, chunk_of(offset), Count(offset, n), Part(offset, n, chunk_of(offset))) => r.ok
  /\ r.ok /\ Part(offset, n, LastOf(offset, n)) < CS => Ready(r.x, o, LastOf(offset, n))

LEMMA FileWrIs ==
  ASSUME device \in Devices, NEW x, Sound(x), NEW o \in Files, NEW offset \in Nat, NEW n \in Nat, n >= 1,
         offset + n <= MaxSize, NEW v \in Nat, NEW through \in BOOLEAN,
         NEW r, r = do_file_wr(x, o, offset, n, v, through)
  PROVE  FileWrote(x, r, o, offset, n, v) /\ (~through => FileCost(x, r, o, offset, n))
<1> DEFINE w == wr_chunks(x, o, offset, n, v, through)
           y == w.x
           end == offset + w.done
           z == Grown(y, o, end)
           f == chunk_of(offset)
           l == LastOf(offset, n)
           count == Count(offset, n)
<1>1. w = wr_chunks(x, o, offset, n, v, through) /\ r = [w EXCEPT !.x = z]
  BY DEF do_file_wr, With, Grown
<1>2. /\ WrotePart(x, w, o, offset, n, v) /\ (w.ok <=> w.done = n)
      /\ ~through => /\ y.free + count >= x.free
                     /\ Ready(x, o, f) /\ Part(offset, n, f) < CS => y.free + count >= x.free + 1
                     /\ Enough(x, o, f, count, Part(offset, n, f)) => w.ok
                     /\ w.ok /\ Part(offset, n, l) < CS => Ready(y, o, l)
  <2> HIDE DEF w
  <2> QED BY <1>1, WrChunksIs
<1>3. w \in [x : State, done : 0 .. n, ok : BOOLEAN] /\ Put(x, y, o, end)
  BY <1>2 DEF WrotePart
<1>4. r.x = z /\ r.done = w.done /\ r.ok = w.ok /\ w.done \in 0 .. n /\ w.ok \in BOOLEAN /\ y \in State /\ end \in Nat
  <2> HIDE DEF w, z
  <2> QED BY <1>1, <1>3
<1>5. z = Grown(y, o, end)
  OBVIOUS
<1>6. (w.ok => Shows(x, y, o, offset, end, v)) /\ (~w.ok => ShowsSome(x, y, o, offset, end, v))
  BY <1>2 DEF WrotePart
<1>7. end = offset + r.done
  BY <1>4
<1> HIDE DEF w, y, end, z, f, l, count
<1>8. /\ z \in State /\ z.cache = y.cache /\ z.stored = y.stored /\ z.free = y.free
      /\ Ended(y, z, o, end)
  BY <1>4, <1>5, GrownIs
<1>9. Sound(y) /\ Kept(x, y) /\ Beside(x, y, o) /\ Inside(x, y, o, end)
  BY <1>3 DEF Put
<1>10. /\ Sound(z) /\ \A p \in Files, c \in ChunkNo : View(z, p, c) = View(y, p, c)
       /\ \A p \in Files : IsDirty(z, p) <=> IsDirty(y, p)
       /\ \A len : Within(z, len) <=> Within(y, len)
  BY <1>8, <1>9, SameCache
<1>11. Beside(x, z, o) /\ Inside(x, z, o, end)
  BY <1>8, <1>9, <1>10 DEF Beside, Inside
<1>12. Ended(x, z, o, end)
  BY <1>8, <1>9 DEF Ended, Kept
<1>13. \A c : Ready(z, o, c) <=> Ready(y, o, c)
  BY <1>8 DEF Ready, Held
<1>14. (w.ok => Shows(x, z, o, offset, end, v)) /\ (~w.ok => ShowsSome(x, z, o, offset, end, v))
  BY <1>6, <1>10 DEF Shows, ShowsSome, Lost
<1>15. FileWrote(x, r, o, offset, n, v)
  BY <1>2, <1>4, <1>7, <1>8, <1>10, <1>11, <1>12, <1>14 DEF FileWrote
<1>16. ~through => FileCost(x, r, o, offset, n)
  BY <1>2, <1>4, <1>8, <1>13 DEF FileCost, f, l, count
<1> QED BY <1>15, <1>16

-----------------------------------------------------------------------------
(* Holes                                                                   *)

LEMMA WithinMono ==
  ASSUME device \in Devices, NEW x, Sound(x), NEW a \in [Files -> Nat], NEW b \in [Files -> Nat], Within(x, a),
         \A p \in Files : a[p] <= b[p]
  PROVE  Within(x, b)
<1>1. \A i \in Slot : x.cache[i].obj # "none" => x.cache[i].obj \in Files /\ x.cache[i].chunk \in ChunkNo
  BY StateFields DEF Sound, SlotSound
<1>2. \A i \in Slot : x.cache[i].dirty => x.cache[i].obj # "none" /\ x.cache[i].n \in Nat
  BY StateFields DEF Sound, SlotSound
<1>3. ASSUME NEW p \in Files, NEW c \in ChunkNo, NEW n \in Nat, Reaches(c, n, a[p]) PROVE Reaches(c, n, b[p])
  <2>1. c \in Nat \ {0}
    BY DevFacts DEF ChunkNo
  <2>2. Base(c) \in Nat /\ Base(c) = (c - 1) * CS
    BY <2>1, BaseIs DEF Base
  <2>3. a[p] \in Nat /\ b[p] \in Nat /\ a[p] <= b[p]
    OBVIOUS
  <2>4. n <= CS /\ Base(c) + n <= a[p]
    BY <1>3, <2>2 DEF Reaches
  <2>5. Base(c) + n <= b[p]
    BY <2>2, <2>3, <2>4
  <2> QED BY <2>2, <2>4, <2>5 DEF Reaches
<1>4. ASSUME NEW p \in Files, NEW c \in ChunkNo, NEW data, ZerosFrom(data, c, a[p]) PROVE ZerosFrom(data, c, b[p])
  <2>1. c \in Nat \ {0}
    BY DevFacts DEF ChunkNo
  <2>2. Base(c) \in Nat /\ Base(c) = (c - 1) * CS
    BY <2>1, BaseIs DEF Base
  <2>3. a[p] \in Nat /\ b[p] \in Nat /\ a[p] <= b[p]
    OBVIOUS
  <2>4. \A j \in 0 .. CS - 1 : Base(c) + j >= b[p] => Base(c) + j >= a[p]
    BY <2>2, <2>3
  <2> QED BY <2>2, <2>4, <1>4 DEF ZerosFrom
<1>5. \A p \in Files, c \in ChunkNo : x.stored[p][c].n \in Nat
  BY StateFields DEF Sound
<1>6. \A p \in Files, c \in ChunkNo : /\ x.stored[p][c].n # 0 => Reaches(c, x.stored[p][c].n, b[p])
                                      /\ ZerosFrom(x.stored[p][c].data, c, b[p])
  BY <1>3, <1>4, <1>5 DEF Within
<1>7. \A i \in Slot : /\ x.cache[i].dirty => Reaches(x.cache[i].chunk, x.cache[i].n, b[x.cache[i].obj])
                      /\ x.cache[i].obj # "none" => ZerosFrom(x.cache[i].data, x.cache[i].chunk, b[x.cache[i].obj])
  BY <1>1, <1>2, <1>3, <1>4 DEF Within
<1> QED BY <1>6, <1>7 DEF Within

LEMMA PlaceIs ==
  ASSUME device \in Devices, NEW old \in Nat, NEW k \in Nat
  PROVE  /\ k * CS \in Nat /\ chunk_of(old + k * CS) = chunk_of(old) + k /\ start_of(old + k * CS) = start_of(old)
<1> DEFINE c == chunk_of(old)
           d == c + k
           j == start_of(old)
<1>1. c \in Nat \ {0} /\ j \in 0 .. CS - 1 /\ old = (c - 1) * CS + j /\ CS \in Nat
  BY Address, DevFacts
<1> HIDE DEF c, j
<1>2. k * CS \in Nat /\ (d - 1) * CS = (c - 1) * CS + k * CS /\ (c - 1) * CS \in Nat
  BY <1>1
<1> DEFINE kk == k * CS  bb == (c - 1) * CS
<1>3. old + k * CS = (d - 1) * CS + j
  <2>1. (d - 1) * CS = bb + kk /\ old = bb + j /\ kk \in Nat /\ bb \in Nat
    BY <1>1, <1>2
  <2> HIDE DEF kk, bb
  <2>2. old + kk = (d - 1) * CS + j
    BY <2>1, <1>1
  <2> QED BY <2>2 DEF kk
<1>4. d \in Nat \ {0}
  BY <1>1
<1> HIDE DEF d
<1>5. chunk_of((d - 1) * CS + j) = d /\ start_of((d - 1) * CS + j) = j
  BY <1>1, <1>4, AddressIs
<1> QED BY <1>2, <1>3, <1>5 DEF c, d, j

Rounds(old, newSize) == (newSize - old + CS - 1) \div CS
IsRounds(old, newSize, m, q) ==
  /\ m \in Nat /\ m >= 1 /\ Len(q) = m /\ \A k \in 1 .. m : q[k] = old + (k - 1) * CS
  /\ newSize - old <= m * CS /\ \A k \in Nat : k < m => k * CS < newSize - old

LEMMA RoundsIs ==
  ASSUME device \in Devices, NEW old \in Nat, NEW newSize \in Nat, newSize > old,
         NEW m, m = Rounds(old, newSize), NEW q, q = FillList(old, newSize)
  PROVE  IsRounds(old, newSize, m, q)
<1> DEFINE a == newSize - old + CS - 1
           u == a \div CS
           r == a % CS
<1>1. a \in Nat /\ CS \in Nat \ {0} /\ a = newSize - old + CS - 1
  BY DevFacts
<1>2. Split(a, CS, u, r)
  <2> HIDE DEF a
  <2> QED BY <1>1, DevFacts, DivSplit
<1>3. m = u
  BY DEF Rounds
<1> HIDE DEF a, u, r
<1>4. m \in Nat /\ r \in 0 .. CS - 1 /\ a = m * CS + r
  BY <1>1, <1>2, <1>3 DEF Split
<1> DEFINE mm == m * CS
<1>5. mm \in Nat /\ a = mm + r
  BY <1>1, <1>4
<1>6. m >= 1
  <2> SUFFICES ASSUME m = 0 PROVE FALSE
    BY <1>4
  <2>1. mm = 0
    BY <1>1
  <2> HIDE DEF mm
  <2> QED BY <2>1, <1>1, <1>4, <1>5
<1>7. newSize - old <= mm
  <2> HIDE DEF mm
  <2> QED BY <1>1, <1>4, <1>5
<1>8. ASSUME NEW k \in Nat, k < m PROVE k * CS < newSize - old
  <2> DEFINE kk == k * CS
  <2>1. kk + CS <= mm
    BY <1>1, <1>4, <1>8, TimesLess
  <2>2. kk \in Nat
    BY <1>1
  <2> HIDE DEF mm, kk
  <2>3. kk < newSize - old
    BY <2>1, <2>2, <1>1, <1>4, <1>5
  <2> QED BY <2>3 DEF kk
<1>9. q = [k \in 1 .. m |-> old + (k - 1) * CS]
  BY DEF FillList, Rounds
<1>10. Len(q) = m
  <2> DEFINE S == Int
  <2>1. \A k \in 1 .. m : old + (k - 1) * CS \in Int
    BY <1>1
  <2>2. IsList(q, m, S)
    BY <2>1, <1>9 DEF IsList
  <2> HIDE DEF S
  <2> QED BY <2>2, <1>4, ListIs
<1> QED BY <1>4, <1>6, <1>7, <1>8, <1>9, <1>10 DEF IsRounds

\* The pieces of n bytes, at most a chunk's length, from pos on
LEMMA FewPieces ==
  ASSUME device \in Devices, NEW pos \in Nat, NEW n \in Nat, n >= 1, n <= CS, pos + n <= MaxSize,
         NEW f, f = chunk_of(pos), NEW st, st = start_of(pos)
  PROVE  /\ f \in Nat \ {0} /\ st \in 0 .. CS - 1 /\ Count(pos, n) \in Nat
         /\ Count(pos, n) >= 1 /\ Count(pos, n) <= 2
         /\ st = 0 => Count(pos, n) = 1
         /\ st # 0 => Part(pos, n, f) < CS
         /\ st # 0 /\ n = CS => LastOf(pos, n) = f + 1 /\ Part(pos, n, f + 1) < CS
<1> DEFINE e == pos + n - 1
           l == chunk_of(e)
           se == start_of(e)
           bf == Base(f)
           bl == Base(l)
<1>1. CS \in Nat /\ CS >= 1 /\ e \in Nat /\ pos <= e
  BY DevFacts
<1>2. f \in Nat \ {0} /\ st \in 0 .. CS - 1 /\ pos = bf + st /\ bf \in Nat
  <2>1. f \in Nat \ {0} /\ st \in 0 .. CS - 1 /\ pos = (f - 1) * CS + st
    BY Address
  <2> QED BY <2>1, BaseIs DEF Base
<1> HIDE DEF e
<1>3. l \in Nat \ {0} /\ se \in 0 .. CS - 1 /\ e = bl + se /\ bl \in Nat
  <2>1. l \in Nat \ {0} /\ se \in 0 .. CS - 1 /\ e = (l - 1) * CS + se
    BY <1>1, Address
  <2> HIDE DEF l
  <2> QED BY <2>1, BaseIs DEF Base
<1>4. f <= l
  BY <1>1, ChunkMono
<1>5. Base(f + 1) = bf + CS /\ Base(f + 2) = bf + CS + CS
  <2>1. Base(f + 1) = bf + CS /\ f + 1 \in Nat \ {0} /\ bf \in Nat
    BY <1>2, BaseIs
  <2>2. Base((f + 1) + 1) = Base(f + 1) + CS
    BY <2>1, BaseIs
  <2>3. (f + 1) + 1 = f + 2
    BY <1>2
  <2> QED BY <2>1, <2>2, <2>3
<1> HIDE DEF l, se, bf
<1>6. ASSUME NEW g \in Nat, g <= l, g >= 1 PROVE Base(g) <= bl
  <2>1. g - 1 \in Nat /\ l - 1 \in Nat /\ g - 1 <= l - 1
    BY <1>3, <1>6
  <2>2. (g - 1) * CS <= (l - 1) * CS
    BY <2>1, <1>1, TimesMono
  <2> QED BY <2>2 DEF Base
<1> HIDE DEF bl
<1>7. e = pos + n - 1
  BY DEF e
<1>8. l <= f + 1
  <2> SUFFICES ASSUME ~(l <= f + 1) PROVE FALSE
    OBVIOUS
  <2>1. f + 2 \in Nat /\ f + 2 <= l /\ f + 2 >= 1
    BY <1>2, <1>3
  <2>2. Base(f + 2) <= bl
    BY <2>1, <1>6
  <2> QED BY <2>2, <1>1, <1>2, <1>3, <1>5, <1>7
<1>9. st = 0 => l = f
  <2> SUFFICES ASSUME st = 0, l # f PROVE FALSE
    OBVIOUS
  <2>1. l = f + 1
    BY <1>2, <1>3, <1>4, <1>8
  <2>2. bl = bf + CS
    BY <2>1, <1>5 DEF bl
  <2> QED BY <2>2, <1>1, <1>2, <1>3, <1>7
<1>10. st # 0 /\ n = CS => l = f + 1
  <2> SUFFICES ASSUME st # 0, n = CS, l # f + 1 PROVE FALSE
    OBVIOUS
  <2>1. l = f
    BY <1>2, <1>3, <1>4, <1>8
  <2>2. bl = bf
    BY <2>1 DEF bl, bf
  <2> QED BY <2>2, <1>1, <1>2, <1>3, <1>7
<1>11. LastOf(pos, n) = l /\ Count(pos, n) = l - f + 1
  BY DEF LastOf, Count, l, e
<1>12. l = chunk_of(pos + n - 1)
  BY DEF l, e
<1>13. st # 0 => Part(pos, n, f) < CS
  <2>1. /\ Begin(pos, f) = IF pos >= bf THEN pos - bf ELSE 0
        /\ End(pos, n, f) = IF pos + n - bf <= CS THEN pos + n - bf ELSE CS
    BY <1>2, <1>4, <1>12, PieceIs DEF bf
  <2> QED BY <2>1, <1>1, <1>2 DEF Part
<1>14. st # 0 /\ n = CS => Part(pos, n, f + 1) < CS
  <2> SUFFICES ASSUME st # 0, n = CS PROVE Part(pos, n, f + 1) < CS
    OBVIOUS
  <2> DEFINE g == f + 1  bg == Base(f + 1)
  <2>1. g \in Nat /\ g >= chunk_of(pos) /\ g <= chunk_of(pos + n - 1)
    BY <1>2, <1>10, <1>12
  <2> HIDE DEF g
  <2>2. /\ Begin(pos, g) = IF pos >= Base(g) THEN pos - Base(g) ELSE 0
        /\ End(pos, n, g) = IF pos + n - Base(g) <= CS THEN pos + n - Base(g) ELSE CS
    BY <2>1, PieceIs
  <2>3. Base(g) = bf + CS
    BY <1>5 DEF g
  <2>4. End(pos, n, g) - Begin(pos, g) < CS
    BY <2>2, <2>3, <1>1, <1>2
  <2> QED BY <2>4 DEF Part, g
<1> QED BY <1>2, <1>3, <1>4, <1>8, <1>9, <1>10, <1>11, <1>13, <1>14

\* A reader notices nothing, and no more is stored than he sees.
Seen(x, y) ==
  \A p \in Files, d \in ChunkNo :
    View(y, p, d) = View(x, p, d) /\ y.stored[p][d].data \in {x.stored[p][d].data, View(x, p, d)}

Zeroed(y, o, pos, n) == do_file_wr(y, o, pos, n, 0, FALSE)

LEMMA ZeroedIs ==
  ASSUME device \in Devices, NEW y, Sound(y), NEW o \in Files, NEW pos \in Nat, NEW n \in Nat, n >= 1,
         pos + n <= MaxSize, NEW r, r = Zeroed(y, o, pos, n)
  PROVE  FileWrote(y, r, o, pos, n, 0) /\ FileCost(y, r, o, pos, n)
<1> DEFINE t == FALSE
           v == 0
<1>1. t \in BOOLEAN /\ ~t /\ v \in Nat /\ v = 0 /\ r = do_file_wr(y, o, pos, n, v, t)
  BY DEF Zeroed
<1> HIDE DEF t, v
<1>2. FileWrote(y, r, o, pos, n, v) /\ (~t => FileCost(y, r, o, pos, n))
  BY <1>1, FileWrIs
<1> QED BY <1>1, <1>2

\* Only o may have become longer or dirty.
Others(x, y, o) ==
  /\ \A p \in Files : p # o => y.size[p].file = x.size[p].file /\ y.dirty[p] = x.dirty[p]
  /\ \A p \in Files : IsDirty(y, p) => IsDirty(x, p) \/ p = o

LEMMA FillPiece ==
  ASSUME device \in Devices, NEW x, Sound(x), Within(x, Sizes(x)), NEW o \in Files,
         NEW y, Sound(y), Within(y, Sizes(y)), Seen(x, y),
         NEW pos \in Nat, pos >= x.size[o].file, y.size[o].file = pos, NEW n \in Nat, n >= 1,
         NEW z, Sound(z), Beside(y, z, o), Inside(y, z, o, pos + n), Ended(y, z, o, pos + n),
         Shows(y, z, o, pos, pos + n, 0)
  PROVE  /\ Seen(x, z) /\ Within(z, Sizes(z)) /\ z.size[o].file = pos + n /\ z.dirty[o]
         /\ Others(y, z, o)
<1>1. x \in State /\ y \in State /\ z \in State
  BY DEF Sound
<1>2. /\ x.size \in [Files -> [file : Nat, stored : Nat]] /\ y.size \in [Files -> [file : Nat, stored : Nat]]
      /\ z.size \in [Files -> [file : Nat, stored : Nat]]
  BY <1>1, StateFields
<1>3. Sizes(x) \in [Files -> Nat] /\ Sizes(y) \in [Files -> Nat] /\ Sizes(z) \in [Files -> Nat]
  BY <1>2 DEF Sizes
<1>4. z.size[o].file = pos + n /\ \A p \in Files : p # o => z.size[p].file = y.size[p].file
  BY DEF Ended
<1>5. Within(z, Sizes(z))
  <2>1. \A p \in Files : Sizes(y)[p] <= Sizes(z)[p]
    <3>1. \A p \in Files : y.size[p].file \in Nat /\ z.size[p].file \in Nat /\ y.size[p].file <= z.size[p].file
      <4> SUFFICES ASSUME NEW p \in Files
                   PROVE  y.size[p].file \in Nat /\ z.size[p].file \in Nat /\ y.size[p].file <= z.size[p].file
        OBVIOUS
      <4>1. y.size[p].file \in Nat /\ z.size[p].file \in Nat
        BY <1>2
      <4> QED BY <4>1, <1>4
    <3> QED BY <3>1 DEF Sizes
  <2> DEFINE len == Sizes(z)
  <2>2. len[o] = pos + n /\ len[o] >= y.size[o].file /\ len[o] >= pos + n
    BY <1>4 DEF Sizes
  <2>3. Within(y, len)
    BY <2>1, <1>3, WithinMono
  <2> HIDE DEF len
  <2>4. len \in [Files -> Nat]
    BY <1>3 DEF len
  <2>5. Within(z, len)
    BY <2>2, <2>3, <2>4 DEF Inside
  <2> QED BY <2>5 DEF len
<1>6. ASSUME NEW d \in ChunkNo PROVE View(z, o, d) = View(x, o, d)
  <2> DEFINE a == View(x, o, d)  b == View(z, o, d)
  <2>1. a \in Bytes /\ b \in Bytes
    BY ViewType
  <2>2. View(y, o, d) = a
    BY DEF Seen
  <2>3. ASSUME NEW j \in 0 .. CS - 1 PROVE b[j] = a[j]
    <3>1. b[j] = IF New(Base(d) + j, pos, pos + n) THEN 0 ELSE a[j]
      BY <2>2 DEF Shows
    <3>2. ZerosFrom(a, d, Sizes(x)[o])
      BY ViewZeros
    <3>3. Base(d) + j >= x.size[o].file => a[j] = 0
      BY <3>2 DEF ZerosFrom, Sizes, Base
    <3>4. New(Base(d) + j, pos, pos + n) => Base(d) + j >= x.size[o].file
      <4>1. d \in Nat \ {0}
        BY DevFacts DEF ChunkNo
      <4>2. Base(d) \in Nat /\ x.size[o].file \in Nat
        BY <4>1, <1>2, BaseIs
      <4> QED BY <4>2 DEF New
    <3> QED BY <3>1, <3>3, <3>4
  <2> HIDE DEF a, b
  <2>4. a = [j \in 0 .. CS - 1 |-> a[j]] /\ b = [j \in 0 .. CS - 1 |-> b[j]]
    BY <2>1 DEF Bytes
  <2>5. a = b
    BY <2>3, <2>4
  <2> QED BY <2>5 DEF a, b
<1>7. Seen(x, z)
  <2> SUFFICES ASSUME NEW p \in Files, NEW d \in ChunkNo
               PROVE  View(z, p, d) = View(x, p, d) /\ z.stored[p][d].data \in {x.stored[p][d].data, View(x, p, d)}
    BY DEF Seen
  <2>1. View(y, p, d) = View(x, p, d) /\ y.stored[p][d].data \in {x.stored[p][d].data, View(x, p, d)}
    BY DEF Seen
  <2>2. CASE p = o
    <3>1. z.stored[o][d].data \in {y.stored[o][d].data, View(y, o, d), View(z, o, d)}
      BY DEF Beside
    <3> QED BY <2>1, <2>2, <3>1, <1>6
  <2>3. CASE p # o
    BY <2>1, <2>3 DEF Beside
  <2> QED BY <2>2, <2>3
<1>8. \A p \in Files : IsDirty(z, p) => IsDirty(y, p) \/ p = o
  BY DEF Beside
<1> QED BY <1>4, <1>5, <1>7, <1>8 DEF Ended, Others

LEMMA FillRound ==
  ASSUME device \in Devices, NEW x, Sound(x), Within(x, Sizes(x)), NEW o \in Files,
         NEW y, Sound(y), Within(y, Sizes(y)), Seen(x, y), Others(x, y, o),
         NEW pos \in Nat, pos >= x.size[o].file, y.size[o].file = pos, NEW n \in Nat, n >= 1,
         pos + n <= MaxSize, NEW r, r = Zeroed(y, o, pos, n), r.ok
  PROVE  /\ Sound(r.x) /\ Seen(x, r.x) /\ Within(r.x, Sizes(r.x)) /\ Others(x, r.x, o)
         /\ r.x.size[o].file = pos + n /\ r.x.dirty[o]
<1> DEFINE z == r.x
<1>1. /\ Sound(z) /\ Beside(y, z, o) /\ Inside(y, z, o, pos + n) /\ Ended(y, z, o, pos + n)
      /\ Shows(y, z, o, pos, pos + n, 0)
  <2>1. FileWrote(y, r, o, pos, n, 0)
    BY ZeroedIs
  <2> QED BY <2>1 DEF FileWrote
<1> HIDE DEF z
<1>2. /\ Seen(x, z) /\ Within(z, Sizes(z)) /\ z.size[o].file = pos + n /\ z.dirty[o]
      /\ Others(y, z, o)
  BY <1>1, FillPiece
<1>3. Others(x, z, o)
  BY <1>2 DEF Others
<1> QED BY <1>1, <1>2, <1>3 DEF z

LEMMA FillHoleIs ==
  ASSUME device \in Devices, NEW x, Sound(x), Within(x, Sizes(x)), NEW o \in Files,
         NEW newSize \in Nat, newSize <= MaxSize, NEW old, old = x.size[o].file, newSize > old, SmallHole(x, o, newSize),
         NEW h, h = FillHole(x, o, old, newSize)
  PROVE  /\ h.ok /\ Sound(h.x) /\ Seen(x, h.x) /\ Within(h.x, Sizes(h.x)) /\ Others(x, h.x, o)
         /\ h.x.size[o].file = newSize /\ h.x.dirty[o]
<1> DEFINE m == Rounds(old, newSize)
           q == FillList(old, newSize)
           b == FillBase(x)
           st == start_of(old)
           one == IF st = 0 THEN 0 ELSE 1
           f == chunk_of(old)
           Good(a, k) ==
             /\ a.ok /\ Sound(a.x) /\ Seen(x, a.x) /\ Within(a.x, Sizes(a.x)) /\ Others(x, a.x, o)
             /\ a.x.size[o].file = IF k = m THEN newSize ELSE old + k * CS
             /\ k = 0 => a.x = x
             /\ k >= 1 => a.x.dirty[o] /\ a.x.free + k + one >= x.free
             /\ k >= 1 /\ k < m /\ st # 0 => Ready(a.x, o, f + k)
           V == [k \in 0 .. m |-> {a \in [x : State, ok : BOOLEAN] : Good(a, k)}]
<1>1. x \in State /\ x.free \in Nat /\ old \in Nat /\ Reserve \in Nat /\ CS \in Nat /\ CS >= 1 /\ Threshold \in Nat
      /\ Threshold >= 1 /\ MaxSize \in Nat
  <2>1. x \in State
    BY DEF Sound
  <2>2. x.free \in Nat /\ x.size[o].file \in Nat
    BY <2>1, StateFields
  <2>3. Threshold >= 1
    BY DevFacts DEF Pos1
  <2> QED BY <2>1, <2>2, <2>3, DevFacts
<1>2. /\ m \in Nat /\ m >= 1 /\ Len(q) = m /\ \A k \in 1 .. m : q[k] = old + (k - 1) * CS
      /\ newSize - old <= m * CS /\ \A k \in Nat : k < m => k * CS < newSize - old
  <2>1. m = Rounds(old, newSize) /\ q = FillList(old, newSize)
    OBVIOUS
  <2> HIDE DEF m, q
  <2>2. IsRounds(old, newSize, m, q)
    BY <2>1, <1>1, RoundsIs
  <2> QED BY <2>2 DEF IsRounds
<1>3. newSize - old < Threshold * CS /\ x.free > Reserve + (Threshold + 1)
  BY DEF SmallHole, HoleFits, check_alloc_available
<1>4. st \in 0 .. CS - 1 /\ f \in Nat \ {0} /\ q = FillList(old, newSize) /\ b = FillBase(x)
      /\ st = start_of(old) /\ f = chunk_of(old)
  BY <1>1, Address
<1> HIDE DEF m, st, f, q
<1>5. m \in Nat /\ m <= Threshold
  <2> SUFFICES ASSUME Threshold < m PROVE FALSE
    BY <1>1, <1>2
  <2> DEFINE t == Threshold * CS
  <2>1. t < newSize - old /\ newSize - old < t /\ t \in Nat
    BY <1>1, <1>2, <1>3
  <2> HIDE DEF t
  <2> QED BY <2>1, <1>1
<1>6. b \in V[0]
  <2>1. b.x = x /\ b.ok /\ b \in [x : State, ok : BOOLEAN]
    BY <1>1 DEF FillBase
  <2> HIDE DEF b
  <2>2. Seen(x, x) /\ Others(x, x, o)
    BY DEF Seen, Others
  <2>3. 0 # m /\ old + 0 * CS = x.size[o].file /\ 0 \in 0 .. m
    BY <1>1, <1>2
  <2>4. Good(b, 0)
    BY <2>1, <2>2, <2>3
  <2> HIDE DEF Good
  <2> QED BY <2>1, <2>3, <2>4
<1>7. ASSUME NEW k \in 1 .. m, NEW a \in [x : State, ok : BOOLEAN], Good(a, k - 1),
             NEW e, e = FillBody(a, q[k], o, newSize)
      PROVE  e \in [x : State, ok : BOOLEAN] /\ Good(e, k)
  <2> DEFINE pos == old + (k - 1) * CS
             n == Min({newSize - pos, CS})
             y == a.x
             r == Zeroed(y, o, pos, n)
             z == r.x
             c == chunk_of(pos)
  <2>1. k \in Nat /\ k >= 1 /\ k <= m /\ k - 1 \in Nat /\ k - 1 < m /\ k - 1 # m /\ q[k] = pos
    BY <1>2
  <2>2. (k - 1) * CS \in Nat /\ c = f + (k - 1) /\ start_of(pos) = st
    BY <2>1, <1>1, <1>4, PlaceIs
  <2>3. (k - 1) * CS < newSize - old /\ (k = m => newSize - old <= (k - 1) * CS + CS)
        /\ (k # m => (k - 1) * CS + CS < newSize - old) /\ k * CS = (k - 1) * CS + CS
    <3>1. k * CS = (k - 1) * CS + CS
      BY <2>1, <1>1
    <3>2. (k - 1) * CS < newSize - old
      BY <2>1, <1>2
    <3>3. k # m => k * CS < newSize - old
      BY <2>1, <1>2
    <3>4. k = m => newSize - old <= k * CS
      BY <1>2
    <3> QED BY <3>1, <3>2, <3>3, <3>4
  <2> DEFINE kk == (k - 1) * CS
  <2>4. kk \in Nat /\ pos = old + kk /\ kk < newSize - old /\ (k = m => newSize - old <= kk + CS) /\ (k # m => kk + CS < newSize - old)
        /\ k * CS = kk + CS
    BY <2>2, <2>3
  <2>5. n = IF newSize - pos <= CS THEN newSize - pos ELSE CS
    <3> DEFINE u == newSize - pos
    <3>1. u \in Int /\ CS \in Int
      BY <2>4, <1>1
    <3> HIDE DEF u
    <3>2. Min({u, CS}) = IF u <= CS THEN u ELSE CS
      BY <3>1, MaxMin
    <3> QED BY <3>2 DEF u
  <2>6. e = IF a.ok THEN [x |-> r.x, ok |-> r.done = n] ELSE a
    <3> HIDE DEF pos
    <3>1. e = FillBody(a, pos, o, newSize)
      BY <2>1, <1>7
    <3> QED BY <3>1 DEF FillBody, Zeroed
  <2>7. r = Zeroed(y, o, pos, n) /\ c = chunk_of(pos)
    OBVIOUS
  <2> HIDE DEF pos, n, r, kk, c
  <2>8. n \in Nat /\ n >= 1 /\ n <= CS /\ pos \in Nat /\ pos >= old /\ pos + n <= MaxSize /\ (k = m => pos + n = newSize)
        /\ (k # m => n = CS /\ pos + n = old + k * CS)
    BY <2>4, <2>5, <1>1
  <2>9. /\ a.ok /\ Sound(y) /\ Seen(x, y) /\ Within(y, Sizes(y)) /\ Others(x, y, o)
        /\ y.size[o].file = pos
        /\ k = 1 => y = x
        /\ k >= 2 => y.free + (k - 1) + one >= x.free
        /\ k >= 2 /\ st # 0 => Ready(y, o, c)
    <3>1. y.size[o].file = old + (k - 1) * CS
      BY <1>7, <2>1
    <3>2. y.size[o].file = pos
      BY <3>1 DEF pos
    <3>3. k >= 2 => k - 1 >= 1
      BY <2>1
    <3>4. k >= 2 /\ st # 0 => Ready(y, o, c)
      BY <3>3, <2>1, <2>2, <1>7
    <3>5. k >= 2 => y.free + (k - 1) + one >= x.free
      BY <3>3, <1>7
    <3> HIDE DEF one
    <3> QED BY <3>2, <3>4, <3>5, <1>7
  <2> HIDE DEF y
  <2>10. FileWrote(y, r, o, pos, n, 0) /\ FileCost(y, r, o, pos, n)
    BY <2>7, <2>8, <2>9, ZeroedIs
  <2> DEFINE count == Count(pos, n)
             part == Part(pos, n, c)
  <2>11. /\ count \in Nat /\ count >= 1 /\ count <= 2
         /\ st = 0 => count = 1
         /\ st # 0 => part < CS
         /\ st # 0 /\ n = CS => LastOf(pos, n) = c + 1 /\ Part(pos, n, c + 1) < CS
    <3>1. c = chunk_of(pos) /\ st = start_of(pos)
      BY <2>2, <2>7
    <3> QED BY <3>1, <2>8, FewPieces
  <2>12. /\ z.free + count >= y.free
         /\ Ready(y, o, c) /\ part < CS => z.free + count >= y.free + 1
         /\ Enough(y, o, c, count, part) => r.ok
         /\ r.ok /\ Part(pos, n, LastOf(pos, n)) < CS => Ready(z, o, LastOf(pos, n))
    BY <2>7, <2>10 DEF FileCost
  <2>13. z \in State /\ z.free \in Nat /\ y.free \in Nat /\ r.ok \in BOOLEAN /\ (r.ok <=> r.done = n)
    <3>1. y \in State /\ z \in State /\ r.ok \in BOOLEAN /\ (r.ok <=> r.done = n)
      BY <2>9, <2>10 DEF Sound, FileWrote
    <3> HIDE DEF z
    <3> QED BY <3>1, StateFields
  <2> HIDE DEF z, count, part
  <2>14. Enough(y, o, c, count, part)
    <3>1. CASE k = 1
      <4>1. y.free = x.free
        BY <3>1, <2>9
      <4>2. y.free > Reserve + 1 /\ y.free > Reserve + count
        BY <4>1, <2>11, <2>13, <1>1, <1>3
      <4> QED BY <4>2 DEF Enough
    <3>2. CASE k # 1 /\ st = 0
      <4>1. y.free + (k - 1) + one >= x.free /\ one = 0
        BY <3>2, <2>1, <2>9
      <4>2. y.free > Reserve + 1 /\ y.free > Reserve + count
        <5> HIDE DEF one
        <5> QED BY <3>2, <4>1, <2>1, <2>11, <2>13, <1>1, <1>3, <1>5
      <4> QED BY <4>2 DEF Enough
    <3>3. CASE k # 1 /\ st # 0
      <4>1. y.free + (k - 1) + one >= x.free /\ one = 1 /\ Ready(y, o, c) /\ part < CS
        BY <3>3, <2>1, <2>9, <2>11
      <4>2. y.free > Reserve + 1 /\ y.free + 1 > Reserve + count
        <5> HIDE DEF one
        <5> QED BY <4>1, <2>1, <2>11, <2>13, <1>1, <1>3, <1>5
      <4> QED BY <4>1, <4>2 DEF Enough
    <3> QED BY <3>1, <3>2, <3>3
  <2>15. r.ok
    BY <2>12, <2>14
  <2>16. /\ Sound(z) /\ Seen(x, z) /\ Within(z, Sizes(z)) /\ Others(x, z, o)
         /\ z.size[o].file = pos + n /\ z.dirty[o]
    BY <2>7, <2>8, <2>9, <2>15, FillRound DEF z
  <2>17. e = [x |-> z, ok |-> TRUE]
    BY <2>6, <2>9, <2>13, <2>15 DEF z
  <2>18. e.x = z /\ e.ok /\ e \in [x : State, ok : BOOLEAN]
    BY <2>13, <2>17
  <2>19. z.size[o].file = IF k = m THEN newSize ELSE old + k * CS
    BY <2>8, <2>16
  <2>20. z.free + k + one >= x.free
    <3>1. CASE k = 1
      <4>1. y.free = x.free
        BY <3>1, <2>9
      <4> QED BY <3>1, <4>1, <2>11, <2>12, <2>13, <1>1
    <3>2. CASE k # 1
      <4>1. y.free + (k - 1) + one >= x.free
        BY <3>2, <2>1, <2>9
      <4>2. z.free + 1 >= y.free
        BY <3>2, <2>1, <2>9, <2>11, <2>12, <2>13
      <4>3. one \in Nat
        OBVIOUS
      <4> HIDE DEF one
      <4> QED BY <4>1, <4>2, <4>3, <2>1, <2>13, <1>1
    <3> QED BY <3>1, <3>2
  <2>21. k < m /\ st # 0 => Ready(z, o, f + k)
    <3> SUFFICES ASSUME k < m, st # 0 PROVE Ready(z, o, f + k)
      OBVIOUS
    <3>1. n = CS
      BY <2>1, <2>8
    <3>2. LastOf(pos, n) = c + 1 /\ Part(pos, n, c + 1) < CS
      BY <3>1, <2>11
    <3>3. Ready(z, o, c + 1)
      BY <3>2, <2>12, <2>15
    <3>4. c + 1 = f + k
      BY <2>1, <2>2, <1>4
    <3> QED BY <3>3, <3>4
  <2> HIDE DEF one
  <2>22. k # 0
    BY <2>1
  <2> QED BY <2>16, <2>18, <2>19, <2>20, <2>21, <2>22
<1>8. FillGoes(V, q, m, o, newSize)
  <2> SUFFICES ASSUME NEW k \in 1 .. m, NEW a \in V[k - 1]
               PROVE  FillBody(a, q[k], o, newSize) \in V[k]
    BY DEF FillGoes
  <2> DEFINE e == FillBody(a, q[k], o, newSize)
  <2> HIDE DEF Good, e
  <2>1. k - 1 \in 0 .. m /\ k \in 0 .. m
    BY <1>2
  <2>2. a \in [x : State, ok : BOOLEAN] /\ Good(a, k - 1)
    BY <2>1
  <2>3. e = FillBody(a, q[k], o, newSize)
    BY DEF e
  <2>4. e \in [x : State, ok : BOOLEAN] /\ Good(e, k)
    BY <2>2, <2>3, <1>7
  <2>5. e \in V[k]
    BY <2>1, <2>4
  <2> QED BY <2>5 DEF e
<1>9. h \in V[m]
  <2> HIDE DEF V, b
  <2> QED BY <1>2, <1>4, <1>6, <1>8, FillEnds
<1>10. Good(h, m)
  <2> HIDE DEF Good
  <2>1. m \in 0 .. m
    BY <1>2
  <2> QED BY <2>1, <1>9
<1> QED BY <1>2, <1>10

LEMMA UpdateIs ==
  ASSUME device \in Devices, NEW x \in State, NEW o \in Files, NEW y, y = update_oh(x, o)
  PROVE  /\ y \in State /\ y.cache = x.cache /\ y.stored = x.stored /\ y.free = x.free /\ y.size = x.size
         /\ x.dirty[o] /\ IsDirty(x, o) => y.dirty[o]
         /\ \A p \in Files : p # o => y.dirty[p] = x.dirty[p]
<1> DEFINE k == x.dirty[o] /\ obj_cache_dirty(x, o)
<1>1. x.dirty \in [Files -> BOOLEAN] /\ x.dirty[o] \in BOOLEAN
  BY StateFields
<1>2. y = x \/ y = [x EXCEPT !.dirty[o] = k]
  BY DEF update_oh
<1>3. k \in BOOLEAN /\ (k <=> x.dirty[o] /\ IsDirty(x, o))
  <2>1. obj_cache_dirty(x, o) <=> IsDirty(x, o)
    BY DEF obj_cache_dirty, IsDirty
  <2> HIDE DEF k
  <2>2. k <=> (x.dirty[o] /\ obj_cache_dirty(x, o))
    BY DEF k
  <2>3. k \in BOOLEAN
    BY <1>1, Zenon DEF k
  <2> QED BY <2>1, <2>2, <2>3, Zenon
<1> HIDE DEF k
<1>4. CASE y = [x EXCEPT !.dirty[o] = k]
  <2>1. /\ y.cache = x.cache /\ y.stored = x.stored /\ y.free = x.free /\ y.size = x.size /\ y.lastUse = x.lastUse
        /\ y.dirty = [x.dirty EXCEPT ![o] = k]
        /\ y = [cache |-> y.cache, lastUse |-> y.lastUse, free |-> y.free, stored |-> y.stored, size |-> y.size, dirty |-> y.dirty]
    BY <1>4 DEF State
  <2>2. y.dirty \in [Files -> BOOLEAN] /\ y.dirty[o] = k /\ \A p \in Files : p # o => y.dirty[p] = x.dirty[p]
    BY <1>1, <1>3, <2>1
  <2>3. y \in State
    BY <2>1, <2>2, StateFields DEF State
  <2>4. x.dirty[o] /\ IsDirty(x, o) => y.dirty[o]
    BY <1>3, <2>2, Zenon
  <2> QED BY <2>1, <2>2, <2>3, <2>4
<1>5. CASE y = x
  BY <1>5
<1> QED BY <1>2, <1>4, <1>5

\* The files with dirty chunks are marked.
Marked(x) == \A p \in Files : IsDirty(x, p) => x.dirty[p]
SameSizes(x, y, o) == \A p \in Files : p # o => y.size[p].file = x.size[p].file

LEMMA SeenSelf ==
  ASSUME NEW x
  PROVE  Seen(x, x)
BY DEF Seen

LEMMA HandleHoleIs ==
  ASSUME device \in Devices, NEW x, Sound(x), Within(x, Sizes(x)), Marked(x), NEW o \in Files,
         NEW newSize \in Nat, newSize <= MaxSize, NEW y, y = handle_hole(x, o, newSize)
  PROVE  /\ Sound(y) /\ Seen(x, y) /\ Within(y, Sizes(y)) /\ Marked(y) /\ SameSizes(x, y, o)
         /\ \A p \in Files : IsDirty(y, p) => IsDirty(x, p) \/ p = o
         /\ y.size[o].file = x.size[o].file \/ (y.size[o].file = newSize /\ newSize > x.size[o].file)
<1> DEFINE old == x.size[o].file
           small == SmallHole(x, o, newSize)
           h == FillHole(x, o, old, newSize)
<1>1. x \in State /\ old \in Nat
  BY StateFields DEF Sound
<1>2. y = IF newSize <= old THEN x
          ELSE IF small /\ h.ok THEN h.x
          ELSE update_oh(IF ~small THEN x ELSE IF h.ok THEN h.x ELSE resize_file_down(h.x, o, old), o)
  BY DEF handle_hole, With
<1>3. CASE newSize <= old
  <2>1. y = x
    BY <1>2, <1>3
  <2> QED BY <2>1, SeenSelf DEF SameSizes
<1>4. CASE newSize > old /\ small
  <2>1. old = x.size[o].file /\ h = FillHole(x, o, old, newSize) /\ SmallHole(x, o, newSize)
    BY <1>4
  <2>2. ~(newSize <= old) /\ small
    BY <1>1, <1>4
  <2> HIDE DEF old, h, small
  <2>3. /\ h.ok /\ Sound(h.x) /\ Seen(x, h.x) /\ Within(h.x, Sizes(h.x)) /\ Others(x, h.x, o)
        /\ h.x.size[o].file = newSize /\ h.x.dirty[o]
    BY <2>1, <1>4, FillHoleIs
  <2>4. y = h.x
    BY <2>2, <2>3, <1>2
  <2>5. Marked(y) /\ SameSizes(x, y, o)
    <3>1. ASSUME NEW p \in Files, IsDirty(y, p) PROVE y.dirty[p]
      <4>1. CASE p = o
        BY <4>1, <2>3, <2>4
      <4>2. CASE p # o
        <5>1. IsDirty(x, p) /\ y.dirty[p] = x.dirty[p]
          BY <3>1, <4>2, <2>3, <2>4 DEF Others
        <5> QED BY <5>1 DEF Marked
      <4> QED BY <4>1, <4>2
    <3>2. SameSizes(x, y, o)
      BY <2>3, <2>4 DEF Others, SameSizes
    <3> QED BY <3>1, <3>2 DEF Marked
  <2> QED BY <2>1, <2>3, <2>4, <2>5, <1>4 DEF Others
<1>5. CASE newSize > old /\ ~small
  <2>1. y = update_oh(x, o)
    BY <1>1, <1>2, <1>5
  <2>2. /\ y \in State /\ y.cache = x.cache /\ y.stored = x.stored /\ y.free = x.free /\ y.size = x.size
        /\ x.dirty[o] /\ IsDirty(x, o) => y.dirty[o]
        /\ \A p \in Files : p # o => y.dirty[p] = x.dirty[p]
    BY <2>1, <1>1, UpdateIs
  <2>3. /\ Sound(y) /\ \A p \in Files, c \in ChunkNo : View(y, p, c) = View(x, p, c)
        /\ \A p \in Files : IsDirty(y, p) <=> IsDirty(x, p)
        /\ \A len : Within(y, len) <=> Within(x, len)
    BY <2>2, SameCache
  <2>4. Seen(x, y)
    BY <2>2, <2>3 DEF Seen
  <2>5. Sizes(y) = Sizes(x)
    BY <2>2 DEF Sizes
  <2>6. Marked(y)
    <3> SUFFICES ASSUME NEW p \in Files, IsDirty(y, p) PROVE y.dirty[p]
      BY DEF Marked
    <3>1. IsDirty(x, p) /\ x.dirty[p]
      BY <2>3 DEF Marked
    <3>2. CASE p = o
      BY <3>1, <3>2, <2>2
    <3>3. CASE p # o
      BY <3>1, <3>3, <2>2
    <3> QED BY <3>2, <3>3
  <2> QED BY <2>2, <2>3, <2>4, <2>5, <2>6 DEF SameSizes
<1> QED BY <1>1, <1>3, <1>4, <1>5

LEMMA WholeIs ==
  ASSUME device \in Devices, NEW x \in State, NEW o \in Files, \A i \in Slot : x.cache[i].obj # o
  PROVE  invalidate_whole_cache(x, o) = x
<1> DEFINE g == [i \in Slot |-> IF x.cache[i].obj = o THEN Free ELSE x.cache[i]]
<1>1. invalidate_whole_cache(x, o) = [x EXCEPT !.cache = g]
  BY DEF invalidate_whole_cache
<1>2. g = x.cache
  <2>1. x.cache = [i \in Slot |-> x.cache[i]]
    BY StateFields
  <2> QED BY <2>1
<1>3. [x EXCEPT !.cache = x.cache] = x
  BY DEF State
<1> QED BY <1>1, <1>2, <1>3

-----------------------------------------------------------------------------
(* Truncation                                                              *)

\* Of o only the chunks before len are left.
Pruned(x, y, o, len) ==
  /\ y \in State /\ y.cache = x.cache /\ y.size = x.size /\ y.dirty = x.dirty /\ y.free >= x.free
  /\ \A p \in Files, c \in ChunkNo :
       y.stored[p][c] = IF p = o /\ Base(c) >= len THEN Hole ELSE x.stored[p][c]

LEMMA PruneIs ==
  ASSUME device \in Devices, NEW x \in State, NEW o \in Files, NEW len \in Nat, NEW y, y = prune_chunks(x, o, len)
  PROVE  Pruned(x, y, o, len)
<1> DEFINE gone == {c \in ChunkNo : Base(c) >= len /\ x.stored[o][c] # Hole}
           row == [c \in ChunkNo |-> IF c \in gone THEN Hole ELSE x.stored[o][c]]
           st == [x.stored EXCEPT ![o] = row]
           n == x.free + Cardinality(gone)
<1>1. gone = {c \in ChunkNo : (c - 1) * CS >= len /\ x.stored[o][c] # Hole}
  BY DEF Base
<1>2. y = [x EXCEPT !.stored[o] = row, !.free = n]
  BY <1>1 DEF prune_chunks
<1>3. x.stored \in [Files -> [ChunkNo -> StoredChunk]] /\ x.free \in Nat
  BY StateFields
<1>4. Cardinality(gone) \in Nat
  <2> DEFINE last == (MaxSize + CS - 1) \div CS
  <2>1. last \in Int
    BY DevFacts
  <2>2. ChunkNo = 1 .. last
    BY DEF ChunkNo
  <2> HIDE DEF last
  <2>3. IsFiniteSet(ChunkNo)
    BY <2>1, <2>2, FS_Interval
  <2>4. gone \subseteq ChunkNo
    OBVIOUS
  <2> HIDE DEF gone
  <2>5. IsFiniteSet(gone)
    BY <2>3, <2>4, FS_Subset
  <2> QED BY <2>5, FS_CardinalityType
<1>5. row \in [ChunkNo -> StoredChunk]
  BY <1>3, ZerosType
<1>6. n \in Nat /\ n >= x.free
  <2> HIDE DEF gone
  <2> QED BY <1>3, <1>4
<1>7. \A c \in ChunkNo : row[c] = IF Base(c) >= len THEN Hole ELSE x.stored[o][c]
  OBVIOUS
<1> HIDE DEF gone, row, n
<1>8. y = [x EXCEPT !.stored = st, !.free = n]
  BY <1>2
<1>9. st \in [Files -> [ChunkNo -> StoredChunk]] /\ st[o] = row /\ \A p \in Files : p # o => st[p] = x.stored[p]
  BY <1>3, <1>5
<1> HIDE DEF st
<1>10. /\ y \in State /\ y.cache = x.cache /\ y.size = x.size /\ y.dirty = x.dirty /\ y.stored = st /\ y.free = n
  BY <1>6, <1>8, <1>9 DEF State
<1>11. ASSUME NEW p \in Files, NEW c \in ChunkNo
       PROVE  y.stored[p][c] = IF p = o /\ Base(c) >= len THEN Hole ELSE x.stored[p][c]
  <2>1. CASE p = o
    BY <2>1, <1>7, <1>9, <1>10
  <2>2. CASE p # o
    BY <2>2, <1>9, <1>10
  <2> QED BY <2>1, <2>2
<1> QED BY <1>6, <1>10, <1>11 DEF Pruned

Resized(y, o, len) == [y EXCEPT !.size[o] = [file |-> len, stored |-> len]]

LEMMA ResizedIs ==
  ASSUME device \in Devices, NEW y \in State, NEW o \in Files, NEW len \in Nat, NEW z, z = Resized(y, o, len)
  PROVE  /\ z \in State /\ z.cache = y.cache /\ z.stored = y.stored /\ z.free = y.free /\ z.dirty = y.dirty
         /\ z.size[o].file = len /\ SameSizes(y, z, o)
<1>1. y.size \in [Files -> [file : Nat, stored : Nat]]
  BY StateFields
<1> DEFINE k == [file |-> len, stored |-> len]
           t == [y.size EXCEPT ![o] = k]
<1>2. k \in [file : Nat, stored : Nat] /\ k.file = len
  BY <1>1
<1>3. z = [y EXCEPT !.size = t]
  BY DEF Resized
<1> HIDE DEF k
<1>4. t \in [Files -> [file : Nat, stored : Nat]] /\ t[o] = k /\ \A p \in Files : p # o => t[p] = y.size[p]
  BY <1>1, <1>2
<1> HIDE DEF t
<1>5. /\ z \in State /\ z.cache = y.cache /\ z.stored = y.stored /\ z.free = y.free /\ z.dirty = y.dirty /\ z.size = t
  BY <1>3, <1>4 DEF State
<1> QED BY <1>2, <1>4, <1>5 DEF SameSizes

LEMMA ResizeDownIs ==
  ASSUME device \in Devices, NEW x, Sound(x), NEW o \in Files, \A i \in Slot : x.cache[i].obj # o,
         NEW len \in Nat, len < MaxSize, NEW z, z = resize_file_down(x, o, len)
  PROVE  /\ z \in State /\ z.cache = x.cache /\ z.dirty = x.dirty /\ z.size[o].file = len /\ SameSizes(x, z, o)
         /\ \A p \in Files, c \in ChunkNo : p # o => z.stored[p][c] = x.stored[p][c]
         /\ \A c \in ChunkNo :
              \/ z.stored[o][c] = Hole /\ Base(c) >= len
              \/ z.stored[o][c] = x.stored[o][c] /\ Base(c) + CS <= len
              \/ /\ Base(c) + z.stored[o][c].n = len /\ z.stored[o][c].n <= CS /\ z.stored[o][c].n # 0 
                 /\ \A j \in 0 .. CS - 1 :
                      z.stored[o][c].data[j] = IF Base(c) + j < len THEN x.stored[o][c].data[j] ELSE 0
<1> DEFINE y == prune_chunks(x, o, len)
           part == start_of(len)
           c == chunk_of(len)
           old == rd_data_obj(y, o, c)
           data == ZeroTail(old, part)
           w == StoreHard(y, o, c, data, part)
           u == IF part = 0 THEN y ELSE w.x
<1>1. x \in State /\ CS \in Nat /\ x.free \in Nat /\ Covered(x)
  BY StateFields, DevFacts DEF Sound
<1>2. z = Resized(u, o, len)
  BY DEF resize_file_down, Resized, StoreHard
<1>3. Pruned(x, y, o, len)
  BY <1>1, PruneIs
<1>4. c \in ChunkNo /\ c \in Nat \ {0} /\ part \in 0 .. CS - 1 /\ Base(c) \in Nat /\ len = Base(c) + part
  <2>1. len \in Offset
    BY DevFacts DEF Offset
  <2>2. c \in ChunkNo
    BY <2>1, OffsetChunk
  <2>3. c \in Nat \ {0} /\ part \in 0 .. CS - 1 /\ len = (c - 1) * CS + part
    BY Address
  <2>4. Base(c) \in Nat
    BY <2>3, BaseIs
  <2> QED BY <2>2, <2>3, <2>4 DEF Base
<1>5. w = StoreHard(y, o, c, data, part) /\ old = y.stored[o][c].data
  BY DEF rd_data_obj
<1>6. data = Filled(old, part, CS - part, 0)
  BY DEF ZeroTail
<1> HIDE DEF y, part, c, old, data, w
<1>7. y \in State /\ y.cache = x.cache /\ y.size = x.size /\ y.dirty = x.dirty /\ y.free >= x.free /\ y.free \in Nat
  BY <1>3, StateFields DEF Pruned
<1>8. y.free > 0
  BY <1>1, <1>7, CoveredKeeps
<1>9. \A p \in Files, d \in ChunkNo : y.stored[p][d] = IF p = o /\ Base(d) >= len THEN Hole ELSE x.stored[p][d]
  BY <1>3 DEF Pruned
<1>10. old \in Bytes
  BY <1>4, <1>5, <1>7, StateFields
<1>11. data \in Bytes /\ \A j \in 0 .. CS - 1 : data[j] = IF j < part THEN old[j] ELSE 0
  <2> DEFINE rest == CS - part
  <2>1. data = [i \in DOMAIN old |-> IF i >= part /\ i < part + rest THEN 0 ELSE old[i]]
    BY <1>6 DEF Filled
  <2>2. DOMAIN old = 0 .. CS - 1 /\ \A j \in 0 .. CS - 1 : old[j] \in Nat
    BY <1>10 DEF Bytes
  <2>3. data \in [0 .. CS - 1 -> Nat]
    BY <2>1, <2>2
  <2>4. ASSUME NEW j \in 0 .. CS - 1 PROVE data[j] = IF j < part THEN old[j] ELSE 0
    <3>1. data[j] = IF j >= part /\ j < part + rest THEN 0 ELSE old[j]
      BY <2>1, <2>2
    <3> QED BY <3>1, <1>1, <1>4
  <2> QED BY <2>3, <2>4 DEF Bytes
<1>12. part \in Nat
  BY <1>4
<1>13. ASSUME NEW d \in ChunkNo
       PROVE  Base(d) \in Nat /\ (Base(d) >= len \/ d = c \/ Base(d) + CS <= len) /\ (part = 0 => Base(c) >= len)
  <2>1. d \in Nat \ {0}
    BY DevFacts DEF ChunkNo
  <2>2. Base(d) \in Nat
    BY <2>1, BaseIs
  <2>3. Base(d) >= len \/ d = c \/ Base(d) + CS <= len
    <3> SUFFICES ASSUME ~(Base(d) >= len), ~(Base(d) + CS <= len) PROVE d = c
      OBVIOUS
    <3> DEFINE j == len - Base(d)
    <3>1. j \in 0 .. CS - 1 /\ Base(d) + j = len
      BY <2>2, <1>1
    <3> HIDE DEF j
    <3>2. Base(d) + j >= Base(c) /\ Base(d) + j < Base(c) + CS
      BY <3>1, <1>1, <1>4
    <3> QED BY <2>1, <3>1, <3>2, <1>4, OneBase
  <2>4. part = 0 => Base(c) >= len
    BY <1>4
  <2> QED BY <2>2, <2>3, <2>4
<1>14. ASSUME part # 0 PROVE Kept(y, w.x) /\ w.x.cache = y.cache /\ OneStored(y, w.x, o, c, part, data)
  BY <1>4, <1>5, <1>7, <1>8, <1>11, <1>12, HardIs
<1>15. /\ u \in State /\ u.cache = x.cache /\ u.dirty = x.dirty /\ SameSizes(x, u, o)
       /\ part = 0 => u = y
       /\ part # 0 => OneStored(y, u, o, c, part, data)
  <2>1. CASE part = 0
    BY <2>1, <1>7 DEF SameSizes
  <2>2. CASE part # 0
    BY <2>2, <1>7, <1>14 DEF Kept, SameSizes
  <2> QED BY <2>1, <2>2
<1> HIDE DEF u
<1>16. /\ z \in State /\ z.cache = u.cache /\ z.stored = u.stored /\ z.dirty = u.dirty
       /\ z.size[o].file = len /\ SameSizes(u, z, o)
  BY <1>2, <1>15, ResizedIs
<1>17. SameSizes(x, z, o)
  BY <1>15, <1>16 DEF SameSizes
<1>18. ASSUME NEW p \in Files, NEW d \in ChunkNo, p # o PROVE z.stored[p][d] = x.stored[p][d]
  <2>1. y.stored[p][d] = x.stored[p][d]
    BY <1>9, <1>18
  <2>2. u.stored[p][d] = y.stored[p][d]
    BY <1>15, <1>18 DEF OneStored
  <2> QED BY <2>1, <2>2, <1>16
<1>19. ASSUME NEW d \in ChunkNo
       PROVE  \/ z.stored[o][d] = Hole /\ Base(d) >= len
              \/ z.stored[o][d] = x.stored[o][d] /\ Base(d) + CS <= len
              \/ /\ Base(d) + z.stored[o][d].n = len /\ z.stored[o][d].n <= CS /\ z.stored[o][d].n # 0
                 /\ \A j \in 0 .. CS - 1 :
                      z.stored[o][d].data[j] = IF Base(d) + j < len THEN x.stored[o][d].data[j] ELSE 0
  <2>1. y.stored[o][d] = IF Base(d) >= len THEN Hole ELSE x.stored[o][d]
    BY <1>9
  <2>2. Base(d) \in Nat /\ (Base(d) >= len \/ d = c \/ Base(d) + CS <= len) /\ (part = 0 => Base(c) >= len)
    BY <1>13
  <2>3. CASE d # c \/ part = 0
    <3>1. z.stored[o][d] = y.stored[o][d]
      BY <2>3, <1>15, <1>16 DEF OneStored
    <3>2. CASE Base(d) >= len
      BY <2>1, <3>1, <3>2
    <3>3. CASE ~(Base(d) >= len)
      <4>1. Base(d) + CS <= len
        BY <2>2, <2>3, <3>3
      <4> QED BY <2>1, <3>1, <3>3, <4>1
    <3> QED BY <3>2, <3>3
  <2>4. CASE d = c /\ part # 0
    <3>1. z.stored[o][d].n = part /\ z.stored[o][d].data = data
      BY <2>4, <1>15, <1>16 DEF OneStored
    <3>2. ~(Base(d) >= len) /\ old = x.stored[o][d].data
      BY <2>1, <2>4, <1>1, <1>4, <1>5
    <3>3. ASSUME NEW j \in 0 .. CS - 1
          PROVE  data[j] = IF Base(d) + j < len THEN x.stored[o][d].data[j] ELSE 0
      <4>1. Base(d) + j < len <=> j < part
        BY <2>4, <1>1, <1>4
      <4> QED BY <3>2, <4>1, <1>11
    <3>4. Base(d) + part = len /\ part <= CS
      BY <2>4, <1>1, <1>4
    <3> QED BY <2>4, <3>1, <3>3, <3>4
  <2> QED BY <2>3, <2>4
<1> QED BY <1>15, <1>16, <1>17, <1>18, <1>19

LEMMA TruncIs ==
  ASSUME device \in Devices, NEW x, Sound(x), Within(x, Sizes(x)), NEW o \in Files, \A i \in Slot : x.cache[i].obj # o,
         NEW len \in Nat, len < MaxSize, NEW z, z = resize_file_down(x, o, len), Covered(z)
  PROVE  /\ Sound(z) /\ Within(z, Sizes(z)) /\ z.dirty = x.dirty /\ z.size[o].file = len /\ SameSizes(x, z, o)
         /\ \A p \in Files : IsDirty(z, p) <=> IsDirty(x, p)
         /\ \A p \in Files, d \in ChunkNo : p # o => View(z, p, d) = View(x, p, d)
         /\ \A d \in ChunkNo : \A j \in 0 .. CS - 1 :
              View(z, o, d)[j] = IF Base(d) + j < len THEN View(x, o, d)[j] ELSE 0
<1> DEFINE Row(c) == \/ z.stored[o][c] = Hole /\ Base(c) >= len
                     \/ z.stored[o][c] = x.stored[o][c] /\ Base(c) + CS <= len
                     \/ /\ Base(c) + z.stored[o][c].n = len /\ z.stored[o][c].n <= CS /\ z.stored[o][c].n # 0
                        /\ \A j \in 0 .. CS - 1 :
                             z.stored[o][c].data[j] = IF Base(c) + j < len THEN x.stored[o][c].data[j] ELSE 0
<1>1. /\ z \in State /\ z.cache = x.cache /\ z.dirty = x.dirty /\ z.size[o].file = len /\ SameSizes(x, z, o)
      /\ \A p \in Files, c \in ChunkNo : p # o => z.stored[p][c] = x.stored[p][c]
      /\ \A c \in ChunkNo : Row(c)
  BY ResizeDownIs
<1> HIDE DEF Row
<1>2. /\ x \in State /\ Single(x) /\ (\A i \in Slot : SlotSound(x, i))
      /\ \A p \in Files, c \in ChunkNo : x.stored[p][c].n = 0 => x.stored[p][c] = Hole
  BY DEF Sound
<1>3. Single(z)
  BY <1>1, <1>2 DEF Single, Held
<1>4. \A i \in Slot : x.cache[i].obj # "none" => x.cache[i].obj \in Files /\ x.cache[i].obj # o /\ x.cache[i].chunk \in ChunkNo
  BY <1>2, StateFields DEF SlotSound
<1>5. ASSUME NEW i \in Slot PROVE SlotSound(z, i)
  <2>1. x.cache[i].obj # "none" => z.stored[x.cache[i].obj][x.cache[i].chunk] = x.stored[x.cache[i].obj][x.cache[i].chunk]
    BY <1>1, <1>4
  <2> QED BY <2>1, <1>1, <1>2 DEF SlotSound
<1>6. Hole.n = 0 /\ Hole.data = Zeros /\ \A j \in 0 .. CS - 1 : Zeros[j] = 0
  BY ZerosType DEF Hole
<1>7. ASSUME NEW p \in Files, NEW c \in ChunkNo, z.stored[p][c].n = 0 PROVE z.stored[p][c] = Hole
  <2>1. CASE p = o
    BY <2>1, <1>1, <1>2, <1>7 DEF Row
  <2>2. CASE p # o
    BY <2>2, <1>1, <1>2, <1>7
  <2> QED BY <2>1, <2>2
<1>8. Sound(z)
  BY <1>1, <1>3, <1>5, <1>7 DEF Sound
<1>9. \A p \in Files : IsDirty(z, p) <=> IsDirty(x, p)
  BY <1>1 DEF IsDirty
<1>10. \A p, c : find_chunk_cache(z, p, c) = find_chunk_cache(x, p, c)
  BY <1>1 DEF find_chunk_cache
<1>11. ASSUME NEW p \in Files, NEW d \in ChunkNo, p # o PROVE View(z, p, d) = View(x, p, d)
  BY <1>1, <1>10, <1>11 DEF View
<1>12. ASSUME NEW d \in ChunkNo PROVE View(z, o, d) = z.stored[o][d].data /\ View(x, o, d) = x.stored[o][d].data
  <2>1. \A i \in Slot : ~Held(x, i, o, d) /\ ~Held(z, i, o, d)
    BY <1>1 DEF Held
  <2> QED BY <2>1, <1>1, <1>2, <1>3, ViewIs
<1>13. ASSUME NEW d \in ChunkNo PROVE Base(d) \in Nat /\ CS \in Nat /\ x.stored[o][d].n \in Nat
  <2>1. d \in Nat \ {0}
    BY DevFacts DEF ChunkNo
  <2> QED BY <2>1, <1>2, BaseIs, DevFacts, StateFields
<1>14. ASSUME NEW d \in ChunkNo, NEW j \in 0 .. CS - 1
       PROVE  View(z, o, d)[j] = IF Base(d) + j < len THEN View(x, o, d)[j] ELSE 0
  <2>1. View(z, o, d) = z.stored[o][d].data /\ View(x, o, d) = x.stored[o][d].data /\ Base(d) \in Nat /\ CS \in Nat
    BY <1>12, <1>13
  <2>2. Row(d)
    BY <1>1
  <2>3. CASE z.stored[o][d] = Hole /\ Base(d) >= len
    <3>1. ~(Base(d) + j < len)
      BY <2>1, <2>3
    <3> QED BY <2>1, <2>3, <3>1, <1>6
  <2>4. CASE z.stored[o][d] = x.stored[o][d] /\ Base(d) + CS <= len
    <3>1. Base(d) + j < len
      BY <2>1, <2>4
    <3> QED BY <2>1, <2>4, <3>1
  <2>5. CASE \A k \in 0 .. CS - 1 :
               z.stored[o][d].data[k] = IF Base(d) + k < len THEN x.stored[o][d].data[k] ELSE 0
    BY <2>1, <2>5
  <2> QED BY <2>2, <2>3, <2>4, <2>5 DEF Row
<1>15. /\ Sizes(z)[o] = len /\ \A p \in Files : p # o => Sizes(z)[p] = Sizes(x)[p]
  BY <1>1 DEF Sizes, SameSizes
<1>16. ASSUME NEW p \in Files, NEW d \in ChunkNo
       PROVE  /\ z.stored[p][d].n # 0 => Reaches(d, z.stored[p][d].n, Sizes(z)[p])
              /\ ZerosFrom(z.stored[p][d].data, d, Sizes(z)[p])
  <2>1. CASE p # o
    <3>1. /\ x.stored[p][d].n # 0 => Reaches(d, x.stored[p][d].n, Sizes(x)[p])
          /\ ZerosFrom(x.stored[p][d].data, d, Sizes(x)[p])
      BY DEF Within
    <3> QED BY <2>1, <3>1, <1>1, <1>15
  <2>2. CASE p = o
    <3>1. ZerosFrom(z.stored[o][d].data, d, len)
      <4>1. \A j \in 0 .. CS - 1 : Base(d) + j >= len => z.stored[o][d].data[j] = 0
        <5> SUFFICES ASSUME NEW j \in 0 .. CS - 1, Base(d) + j >= len PROVE z.stored[o][d].data[j] = 0
          OBVIOUS
        <5>1. ~(Base(d) + j < len)
          BY <1>13
        <5> QED BY <5>1, <1>12, <1>14
      <4> QED BY <4>1 DEF ZerosFrom, Base
    <3>2. z.stored[o][d].n # 0 => Reaches(d, z.stored[o][d].n, len)
      <4> SUFFICES ASSUME z.stored[o][d].n # 0 PROVE z.stored[o][d].n <= CS /\ Base(d) + z.stored[o][d].n <= len
        BY DEF Reaches, Base
      <4>1. Row(d)
        BY <1>1
      <4>2. CASE z.stored[o][d] = x.stored[o][d] /\ Base(d) + CS <= len
        <5>1. Reaches(d, x.stored[o][d].n, Sizes(x)[o])
          BY <4>2 DEF Within
        <5>2. x.stored[o][d].n <= CS
          BY <5>1 DEF Reaches
        <5> QED BY <4>2, <5>2, <1>13
      <4>3. CASE Base(d) + z.stored[o][d].n = len /\ z.stored[o][d].n <= CS
        BY <4>3
      <4> QED BY <4>1, <4>2, <4>3, <1>6 DEF Row
    <3> QED BY <2>2, <3>1, <3>2, <1>15
  <2> QED BY <2>1, <2>2
<1>17. ASSUME NEW i \in Slot
       PROVE  /\ z.cache[i].dirty => Reaches(z.cache[i].chunk, z.cache[i].n, Sizes(z)[z.cache[i].obj])
              /\ z.cache[i].obj # "none" => ZerosFrom(z.cache[i].data, z.cache[i].chunk, Sizes(z)[z.cache[i].obj])
  <2>1. /\ x.cache[i].dirty => Reaches(x.cache[i].chunk, x.cache[i].n, Sizes(x)[x.cache[i].obj])
        /\ x.cache[i].obj # "none" => ZerosFrom(x.cache[i].data, x.cache[i].chunk, Sizes(x)[x.cache[i].obj])
    BY DEF Within
  <2>2. x.cache[i].dirty => x.cache[i].obj # "none"
    BY <1>2 DEF SlotSound
  <2>3. x.cache[i].obj # "none" => Sizes(z)[x.cache[i].obj] = Sizes(x)[x.cache[i].obj]
    BY <1>4, <1>15
  <2> QED BY <2>1, <2>2, <2>3, <1>1
<1>18. Within(z, Sizes(z))
  BY <1>16, <1>17 DEF Within
<1> QED BY <1>1, <1>8, <1>9, <1>11, <1>14, <1>18

LEMMA QuietSizes ==
  ASSUME NEW x, NEW y, Quiet(x, y), x \in State, Within(x, Sizes(x))
  PROVE  Sizes(y) = Sizes(x) /\ Within(y, Sizes(y))
<1>1. Sizes(y) = Sizes(x)
  BY DEF Sizes, Quiet, Kept
<1>2. Sizes(x) \in [Files -> Nat]
  BY StateFields DEF Sizes
<1> QED BY <1>1, <1>2 DEF Quiet

LEMMA QuietSeen ==
  ASSUME NEW x, NEW y, Quiet(x, y)
  PROVE  Seen(x, y)
BY DEF Quiet, Seen

SetSize(y, o, len) == [y EXCEPT !.size[o].file = len]

LEMMA SetSizeIs ==
  ASSUME device \in Devices, NEW y \in State, NEW o \in Files, NEW len \in Nat, NEW z, z = SetSize(y, o, len)
  PROVE  /\ z \in State /\ z.cache = y.cache /\ z.stored = y.stored /\ z.free = y.free /\ z.dirty = y.dirty
         /\ z.size[o].file = len /\ SameSizes(y, z, o)
<1>1. y.size \in [Files -> [file : Nat, stored : Nat]]
  BY StateFields
<1> DEFINE k == [y.size[o] EXCEPT !.file = len]
           t == [y.size EXCEPT ![o] = k]
<1>2. k \in [file : Nat, stored : Nat] /\ k.file = len
  BY <1>1
<1>3. z = [y EXCEPT !.size = t]
  BY DEF SetSize
<1> HIDE DEF k
<1>4. t \in [Files -> [file : Nat, stored : Nat]] /\ t[o] = k /\ \A p \in Files : p # o => t[p] = y.size[p]
  BY <1>1, <1>2
<1> HIDE DEF t
<1>5. /\ z \in State /\ z.cache = y.cache /\ z.stored = y.stored /\ z.free = y.free /\ z.dirty = y.dirty /\ z.size = t
  BY <1>3, <1>4 DEF State
<1> QED BY <1>2, <1>4, <1>5 DEF SameSizes

\* The bytes of o from len on are gone, the others as before.
Cut(x, z, o, len) ==
  /\ \A p \in Files, d \in ChunkNo : p # o => View(z, p, d) = View(x, p, d)
  /\ \A d \in ChunkNo : \A j \in 0 .. CS - 1 : View(z, o, d)[j] = IF Base(d) + j < len THEN View(x, o, d)[j] ELSE 0

LEMMA SeenCut ==
  ASSUME device \in Devices, NEW x, Sound(x), Within(x, Sizes(x)), NEW o \in Files, NEW len \in Nat, len >= x.size[o].file,
         NEW z, \A p \in Files, d \in ChunkNo : View(z, p, d) = View(x, p, d)
  PROVE  Cut(x, z, o, len)
<1> SUFFICES ASSUME NEW d \in ChunkNo, NEW j \in 0 .. CS - 1, ~(Base(d) + j < len) PROVE View(x, o, d)[j] = 0
  BY DEF Cut
<1>1. ZerosFrom(View(x, o, d), d, Sizes(x)[o])
  BY ViewZeros
<1>2. Base(d) + j >= x.size[o].file
  <2>1. d \in Nat \ {0}
    BY DevFacts DEF ChunkNo
  <2>2. Base(d) \in Nat /\ x.size[o].file \in Nat
    BY <2>1, BaseIs, StateFields DEF Sound
  <2> QED BY <2>2
<1> QED BY <1>1, <1>2 DEF ZerosFrom, Sizes, Base

Cleared(x, o) == flush_file_cache(x, o, TRUE)
Flushed(x, y, o, discard) ==
  /\ Quiet(x, y) /\ \A i \in Slot : y.cache[i].obj = o => ~y.cache[i].dirty /\ ~discard
  /\ \A i \in Slot : y.cache[i].dirty => x.cache[i].dirty /\ y.cache[i].obj = x.cache[i].obj

LEMMA FlushedIs ==
  ASSUME device \in Devices, NEW x, Sound(x), NEW o \in Files, NEW discard \in BOOLEAN,
         NEW y, y = flush_file_cache(x, o, discard)
  PROVE  Flushed(x, y, o, discard)
BY FlushFile DEF Flushed

LEMMA ClearedIs ==
  ASSUME device \in Devices, NEW x, Sound(x), NEW o \in Files, NEW y, y = Cleared(x, o)
  PROVE  Quiet(x, y) /\ \A i \in Slot : y.cache[i].obj # o
<1> DEFINE t == TRUE
<1>1. t \in BOOLEAN /\ t /\ y = flush_file_cache(x, o, t)
  BY DEF Cleared
<1> HIDE DEF t
<1>2. Flushed(x, y, o, t)
  BY <1>1, FlushedIs
<1> QED BY <1>1, <1>2 DEF Flushed

LEMMA ResizeIs ==
  ASSUME device \in Devices, NEW x, Sound(x), Within(x, Sizes(x)), Marked(x), NEW o \in Files, x.size[o].file <= MaxSize,
         NEW newSize \in Nat, newSize <= MaxSize, NEW z, z = resize_file(x, o, newSize), Covered(z)
  PROVE  /\ Sound(z) /\ Within(z, Sizes(z)) /\ Marked(z) /\ z.size[o].file = newSize /\ SameSizes(x, z, o)
         /\ Cut(x, z, o, newSize) /\ \A p \in Files : IsDirty(z, p) => IsDirty(x, p) \/ p = o
<1> DEFINE y == Cleared(x, o)
           old == x.size[o].file
<1>1. Quiet(x, y) /\ \A i \in Slot : y.cache[i].obj # o
  BY ClearedIs
<1>2. x \in State /\ y \in State /\ Sound(y) /\ old \in Nat /\ MaxSize \in Nat /\ y.size[o].file = old
  <2>1. x \in State /\ y \in State /\ Sound(y) /\ y.size[o].file = x.size[o].file
    BY <1>1 DEF Quiet, Sound, Kept
  <2> QED BY <2>1, StateFields, DevFacts
<1>3. invalidate_whole_cache(y, o) = y
  <2> HIDE DEF y
  <2> QED BY <1>1, <1>2, WholeIs
<1>4. z = IF newSize = old THEN y
          ELSE update_oh(IF newSize > old THEN SetSize(handle_hole(y, o, newSize), o, newSize)
                         ELSE resize_file_down(y, o, newSize), o)
  BY <1>3 DEF resize_file, Cleared, SetSize
<1>5. Within(y, Sizes(y)) /\ Seen(x, y) /\ Marked(y) /\ SameSizes(x, y, o)
      /\ \A p \in Files : IsDirty(y, p) => IsDirty(x, p)
  <2> HIDE DEF y
  <2>1. Within(y, Sizes(y)) /\ Seen(x, y)
    BY <1>1, <1>2, QuietSizes, QuietSeen
  <2>2. \A p \in Files : IsDirty(y, p) => IsDirty(x, p)
    BY <1>1 DEF Quiet
  <2>3. Marked(y)
    BY <2>2, <1>1 DEF Quiet, Kept, Marked
  <2>4. SameSizes(x, y, o)
    BY <1>1 DEF Quiet, Kept, SameSizes
  <2> QED BY <2>1, <2>2, <2>3, <2>4
<1> HIDE DEF y
<1>6. CASE newSize = old
  <2>1. z = y
    BY <1>4, <1>6
  <2>2. \A p \in Files, d \in ChunkNo : View(z, p, d) = View(x, p, d)
    BY <2>1, <1>5 DEF Seen
  <2>3. newSize >= x.size[o].file
    BY <1>2, <1>6
  <2>4. Cut(x, z, o, newSize)
    BY <2>2, <2>3, SeenCut
  <2> QED BY <2>1, <2>4, <1>2, <1>5, <1>6
<1>7. CASE newSize > old
  <2> DEFINE h == handle_hole(y, o, newSize)
             u == SetSize(h, o, newSize)
  <2>1. h = handle_hole(y, o, newSize) /\ u = SetSize(h, o, newSize) /\ z = update_oh(u, o)
    BY <1>2, <1>4, <1>7
  <2> HIDE DEF h, u
  <2>2. /\ Sound(h) /\ Seen(y, h) /\ Within(h, Sizes(h)) /\ Marked(h) /\ SameSizes(y, h, o)
        /\ \A p \in Files : IsDirty(h, p) => IsDirty(y, p) \/ p = o
        /\ h.size[o].file = y.size[o].file \/ (h.size[o].file = newSize /\ newSize > y.size[o].file)
    BY <2>1, <1>2, <1>5, HandleHoleIs
  <2>3. h \in State
    BY <2>2 DEF Sound
  <2>4. /\ u \in State /\ u.cache = h.cache /\ u.stored = h.stored /\ u.free = h.free /\ u.dirty = h.dirty
        /\ u.size[o].file = newSize /\ SameSizes(h, u, o)
    BY <2>1, <2>3, SetSizeIs
  <2>5. /\ z \in State /\ z.cache = u.cache /\ z.stored = u.stored /\ z.free = u.free /\ z.size = u.size
        /\ u.dirty[o] /\ IsDirty(u, o) => z.dirty[o]
        /\ \A p \in Files : p # o => z.dirty[p] = u.dirty[p]
    BY <2>1, <2>4, UpdateIs
  <2>6. z.cache = h.cache /\ z.stored = h.stored /\ z.free = h.free
    BY <2>4, <2>5
  <2>7. /\ Sound(z) /\ \A p \in Files, c \in ChunkNo : View(z, p, c) = View(h, p, c)
        /\ \A p \in Files : IsDirty(z, p) <=> IsDirty(h, p)
        /\ \A len : Within(z, len) <=> Within(h, len)
    BY <2>2, <2>5, <2>6, SameCache
  <2>8. \A p \in Files : IsDirty(u, p) <=> IsDirty(h, p)
    BY <2>4 DEF IsDirty
  <2>9. \A p \in Files, d \in ChunkNo : View(z, p, d) = View(x, p, d)
    BY <2>2, <2>7, <1>5 DEF Seen
  <2>10. newSize >= x.size[o].file
    BY <1>2, <1>7
  <2>11. Cut(x, z, o, newSize)
    BY <2>9, <2>10, SeenCut
  <2>12. z.size[o].file = newSize /\ SameSizes(x, z, o)
    BY <2>2, <2>4, <2>5, <1>5 DEF SameSizes
  <2>13. Within(z, Sizes(z))
    <3>1. Sizes(h) \in [Files -> Nat] /\ Sizes(z) \in [Files -> Nat]
      BY <2>3, <2>5, StateFields DEF Sizes
    <3>2. ASSUME NEW p \in Files PROVE Sizes(h)[p] <= Sizes(z)[p]
      <4>1. h.size[p].file \in Nat /\ z.size[p].file \in Nat
        BY <2>3, <2>5, StateFields
      <4>2. h.size[p].file <= z.size[p].file
        <5>1. CASE p = o
          BY <5>1, <4>1, <2>2, <2>12, <1>2, <1>7
        <5>2. CASE p # o
          BY <5>2, <4>1, <2>2, <2>12, <1>5 DEF SameSizes
        <5> QED BY <5>1, <5>2
      <4> QED BY <4>2 DEF Sizes
    <3>3. Within(h, Sizes(z))
      BY <2>2, <3>1, <3>2, WithinMono
    <3> QED BY <3>3, <2>7
  <2>14. Marked(z)
    <3> SUFFICES ASSUME NEW p \in Files, IsDirty(z, p) PROVE z.dirty[p]
      BY DEF Marked
    <3>1. IsDirty(h, p) /\ h.dirty[p]
      BY <2>2, <2>7 DEF Marked
    <3>2. CASE p = o
      BY <3>1, <3>2, <2>4, <2>5, <2>8
    <3>3. CASE p # o
      BY <3>1, <3>3, <2>4, <2>5
    <3> QED BY <3>2, <3>3
  <2>15. \A p \in Files : IsDirty(z, p) => IsDirty(x, p) \/ p = o
    BY <2>2, <2>7, <1>5
  <2> QED BY <2>7, <2>11, <2>12, <2>13, <2>14, <2>15
<1>8. CASE newSize < old
  <2> DEFINE u == resize_file_down(y, o, newSize)
  <2>1. u = resize_file_down(y, o, newSize) /\ z = update_oh(u, o) /\ newSize < MaxSize
    BY <1>2, <1>4, <1>8
  <2> HIDE DEF u
  <2>2. u \in State
    BY <2>1, <1>1, <1>2, ResizeDownIs
  <2>3. /\ z \in State /\ z.cache = u.cache /\ z.stored = u.stored /\ z.free = u.free /\ z.size = u.size
        /\ u.dirty[o] /\ IsDirty(u, o) => z.dirty[o]
        /\ \A p \in Files : p # o => z.dirty[p] = u.dirty[p]
    BY <2>1, <2>2, UpdateIs
  <2>4. Covered(u)
    <3>1. Needy(u) = Needy(z)
      BY <2>3 DEF Needy
    <3> QED BY <3>1, <2>3 DEF Covered
  <2>5. /\ Sound(u) /\ Within(u, Sizes(u)) /\ u.dirty = y.dirty /\ u.size[o].file = newSize /\ SameSizes(y, u, o)
        /\ \A p \in Files : IsDirty(u, p) <=> IsDirty(y, p)
        /\ \A p \in Files, d \in ChunkNo : p # o => View(u, p, d) = View(y, p, d)
        /\ \A d \in ChunkNo : \A j \in 0 .. CS - 1 :
             View(u, o, d)[j] = IF Base(d) + j < newSize THEN View(y, o, d)[j] ELSE 0
    BY <2>1, <2>4, <1>1, <1>2, <1>5, TruncIs
  <2>6. /\ Sound(z) /\ \A p \in Files, c \in ChunkNo : View(z, p, c) = View(u, p, c)
        /\ \A p \in Files : IsDirty(z, p) <=> IsDirty(u, p)
        /\ \A len : Within(z, len) <=> Within(u, len)
    BY <2>3, <2>5, SameCache
  <2>7. Sizes(z) = Sizes(u)
    BY <2>3 DEF Sizes
  <2>8. Cut(x, z, o, newSize)
    BY <2>5, <2>6, <1>5 DEF Cut, Seen
  <2>9. Marked(z)
    <3> SUFFICES ASSUME NEW p \in Files, IsDirty(z, p) PROVE z.dirty[p]
      BY DEF Marked
    <3>1. IsDirty(u, p) /\ u.dirty[p]
      BY <2>5, <2>6, <1>5 DEF Marked
    <3>2. CASE p = o
      BY <3>1, <3>2, <2>3
    <3>3. CASE p # o
      BY <3>1, <3>3, <2>3
    <3> QED BY <3>2, <3>3
  <2>10. z.size[o].file = newSize /\ SameSizes(x, z, o)
    BY <2>3, <2>5, <1>5 DEF SameSizes
  <2>11. \A p \in Files : IsDirty(z, p) => IsDirty(x, p) \/ p = o
    BY <2>5, <2>6, <1>5
  <2> QED BY <2>5, <2>6, <2>7, <2>8, <2>9, <2>10, <2>11
<1> QED BY <1>2, <1>6, <1>7, <1>8
-----------------------------------------------------------------------------
(* The steps                                                               *)

(* The device stays, and with it what its fields say of a state.             *)
LEMMA DeviceSame ==
  ASSUME device' = device
  PROVE  /\ Files' = Files /\ CS' = CS /\ MaxSize' = MaxSize /\ Slot' = Slot /\ Offset' = Offset
         /\ ChunkNo' = ChunkNo /\ Zeros' = Zeros /\ Hole' = Hole /\ Bytes' = Bytes
         /\ State' = State
<1>1. Files' = Files /\ CS' = CS /\ MaxSize' = MaxSize /\ NCaches' = NCaches
  BY DEF Files, CS, MaxSize, NCaches
<1>2. Slot' = Slot /\ Offset' = Offset /\ ChunkNo' = ChunkNo /\ Zeros' = Zeros /\ Bytes' = Bytes
  BY <1>1 DEF Slot, Offset, ChunkNo, Zeros, Bytes
<1>3. Hole' = Hole /\ StoredChunk' = StoredChunk /\ SlotRecord' = SlotRecord
  BY <1>1, <1>2 DEF Hole, StoredChunk, SlotRecord
<1>4. State' = State
  BY <1>1, <1>2, <1>3 DEF State
<1> QED BY <1>1, <1>2, <1>3, <1>4

LEMMA SoundSame ==
  ASSUME device' = device
  PROVE  Sound(s)' <=> Sound(s')
<1>1. Needy(s)' = Needy(s')
  BY DeviceSame DEF Needy
<1>2. Covered(s)' <=> Covered(s')
  BY <1>1 DEF Covered
<1>3. Single(s)' <=> Single(s')
  BY DeviceSame DEF Single, Held
<1>4. \A i : SlotSound(s, i)' <=> SlotSound(s', i)
  BY DeviceSame DEF SlotSound
<1> QED BY <1>2, <1>3, <1>4, DeviceSame DEF Sound

LEMMA WithinSame ==
  ASSUME device' = device
  PROVE  Within(s, Sizes(s))' <=> Within(s', Sizes(s'))
<1>1. Sizes(s)' = Sizes(s')
  BY DeviceSame DEF Sizes
<1> QED BY <1>1, DeviceSame DEF Within, ZerosFrom, Reaches

LEMMA ViewSame ==
  ASSUME device' = device, NEW CONSTANT o, NEW CONSTANT i
  PROVE  (View(s, o, chunk_of(i))[start_of(i)])' = View(s', o, chunk_of(i))[start_of(i)]
<1>1. chunk_of(i)' = chunk_of(i) /\ start_of(i)' = start_of(i)
  BY DeviceSame DEF chunk_of, start_of
<1>2. find_chunk_cache(s, o, chunk_of(i))' = find_chunk_cache(s', o, chunk_of(i))
  <2> DEFINE c == chunk_of(i)
             hits == {k \in Slot : s'.cache[k].obj = o /\ s'.cache[k].chunk = c}
             also == {k \in Slot' : s'.cache[k].obj = o /\ s'.cache[k].chunk = c'}
  <2>1. hits = also
    BY <1>1, DeviceSame
  <2>2. find_chunk_cache(s', o, chunk_of(i)) = IF hits = {} THEN 0 ELSE Min(hits)
    BY DEF find_chunk_cache
  <2>3. find_chunk_cache(s, o, chunk_of(i))' = IF also = {} THEN 0 ELSE Min(also)
    BY DEF find_chunk_cache
  <2> HIDE DEF hits, also
  <2> QED BY <2>1, <2>2, <2>3
<1> QED BY <1>1, <1>2 DEF View

LEMMA ProperSame ==
  ASSUME device' = device
  PROVE  Proper(s, want, synced)' <=> Proper(s', want', synced')
<1>1. (\A o \in Files, i \in Offset : View(s, o, chunk_of(i))[start_of(i)] \in want[o][i])'
        <=> \A o \in Files, i \in Offset : View(s', o, chunk_of(i))[start_of(i)] \in want'[o][i]
  BY ViewSame, DeviceSame
<1>2. (\A o \in Files : IsDirty(s, o) => s.dirty[o] /\ o \notin synced)'
        <=> \A o \in Files : IsDirty(s', o) => s'.dirty[o] /\ o \notin synced'
  BY DeviceSame DEF IsDirty
<1> QED BY <1>1, <1>2, SoundSame, WithinSame, DeviceSame DEF Proper

LEMMA CacheInit == Init => CacheInv
<1> SUFFICES ASSUME Init PROVE CacheInv
  OBVIOUS
<1>1. device \in Devices /\ synced = Files /\ wrong = FALSE /\ short = FALSE /\ ops = 0
  BY DEF Init
<1>2. CacheTypeOK
  BY <1>1 DEF CacheTypeOK
<1>3. /\ \A i \in Slot : s.cache[i] = Free
      /\ \A o \in Files, c \in ChunkNo : s.stored[o][c] = Hole
      /\ \A o \in Files : s.size[o].file = 0
      /\ s.free = Total /\ s.dirty = [o \in Files |-> FALSE]
  BY DEF Init
<1>4. s \in State
  <2>1. [o \in Files |-> [c \in ChunkNo |-> Hole]] \in [Files -> [ChunkNo -> StoredChunk]]
    BY <1>1, ZerosType
  <2>2. [i \in Slot |-> Free] \in [Slot -> SlotRecord]
    BY <1>1, ZerosType
  <2> QED BY <1>1, <2>1, <2>2, DevFacts DEF Init, State
<1>5. Free.obj = "none" /\ Free.dirty = FALSE /\ Hole.n = 0 /\ Hole.data = Zeros
  BY DEF Free, Hole
<1>6. Covered(s)
  <2>1. Needy(s) = {}
    BY <1>3, <1>5 DEF Needy
  <2>2. Cardinality({}) = 0
    BY FS_EmptySet
  <2> QED BY <1>1, <1>3, <2>1, <2>2, DevFacts DEF Covered
<1>7. Sound(s)
  BY <1>3, <1>4, <1>5, <1>6 DEF Sound, Single, SlotSound
<1>8. Within(s, Sizes(s))
  BY <1>1, <1>3, <1>5, ZerosType DEF Within, ZerosFrom
<1>9. \A o \in Files, i \in Offset : View(s, o, chunk_of(i))[start_of(i)] \in want[o][i]
  <2> SUFFICES ASSUME NEW o \in Files, NEW i \in Offset PROVE View(s, o, chunk_of(i))[start_of(i)] \in want[o][i]
    OBVIOUS
  <2>1. chunk_of(i) \in ChunkNo /\ start_of(i) \in 0 .. CS - 1
    BY <1>1, OffsetChunk
  <2>2. \A k \in Slot : ~Held(s, k, o, chunk_of(i))
    BY <1>1, <1>3, <1>5, DevFacts DEF Held
  <2>3. View(s, o, chunk_of(i)) = Zeros
    BY <1>1, <1>3, <1>4, <1>5, <1>7, <2>1, <2>2, ViewIs DEF Sound
  <2>4. want[o][i] = {0}
    BY DEF Init
  <2> QED BY <1>1, <2>1, <2>3, <2>4, ZerosType
<1>10. DOMAIN want = Files
  BY DEF Init
<1>11. \A o \in Files : ~IsDirty(s, o) /\ s.size[o].file <= MaxSize
  BY <1>1, <1>3, <1>5, DevFacts DEF IsDirty
<1> QED BY <1>1, <1>2, <1>7, <1>8, <1>9, <1>10, <1>11 DEF CacheInv, CacheSound, Proper

(* What a call must have left behind for the invariant to hold after it        *)
LEMMA InvStep ==
  ASSUME CacheInv, device' = device, synced' \subseteq Files, wrong' \in BOOLEAN, short' \in BOOLEAN, ops' \in Nat,
         short => short',
         ~short /\ ~short' /\ CacheSound => ~wrong' /\ Proper(s', want', synced')
  PROVE  CacheInv'
<1>1. CacheTypeOK'
  BY DeviceSame DEF CacheInv, CacheTypeOK
<1>2. CASE short'
  BY <1>1, <1>2 DEF CacheInv
<1>3. CASE ~short'
  <2>1. ~wrong' /\ Proper(s', want', synced')
    BY <1>3 DEF CacheInv, CacheTypeOK
  <2>2. Proper(s, want, synced)'
    BY <2>1, ProperSame
  <2> QED BY <1>1, <2>1, <2>2 DEF CacheInv, CacheSound
<1> QED BY <1>2, <1>3

LEMMA QuietProper ==
  ASSUME device \in Devices, NEW x, NEW y, NEW a, NEW z, Proper(x, a, z), Quiet(x, y)
  PROVE  Proper(y, a, z)
<1>1. Sound(x) /\ x \in State /\ Within(x, Sizes(x))
  BY DEF Proper, Sound
<1>2. Sizes(y) = Sizes(x) /\ Within(y, Sizes(y))
  BY <1>1, QuietSizes
<1>3. Sound(y) /\ y.dirty = x.dirty /\ \A o \in Files : y.size[o].file = x.size[o].file
  BY DEF Quiet, Kept
<1>4. ASSUME NEW o \in Files, NEW i \in Offset PROVE View(y, o, chunk_of(i))[start_of(i)] \in a[o][i]
  <2>1. chunk_of(i) \in ChunkNo
    BY OffsetChunk
  <2>2. View(y, o, chunk_of(i)) = View(x, o, chunk_of(i))
    BY <2>1 DEF Quiet
  <2> QED BY <2>2 DEF Proper
<1>5. ASSUME NEW o \in Files, IsDirty(y, o) PROVE y.dirty[o] /\ o \notin z
  <2>1. IsDirty(x, o)
    BY <1>5 DEF Quiet
  <2> QED BY <2>1, <1>3 DEF Proper
<1> QED BY <1>2, <1>3, <1>4, <1>5 DEF Proper

LEMMA ReadStep ==
  ASSUME CacheInv, NEW CONSTANT o \in Files, Read(o)
  PROVE  CacheInv'
<1>1. /\ device' = device /\ synced' = synced /\ short' = short /\ ops' = ops /\ want' = want
      /\ wrong' \in BOOLEAN
  BY DEF Read
<1>2. device \in Devices /\ CacheTypeOK
  BY DEF CacheInv, CacheTypeOK
<1>3. ASSUME ~short, CacheSound PROVE ~wrong' /\ Proper(s', want', synced')
  <2>1. Proper(s, want, synced) /\ ~wrong /\ Sound(s) /\ s \in State /\ s.size[o].file <= MaxSize /\ s.size[o].file \in Nat
    BY <1>3, StateFields DEF CacheSound, Proper, Sound
  <2>0. PICK off \in Offset : \E n \in 1 .. s.size[o].file - off : \E r \in {file_rd(s, o, off, n)} :
          /\ s' = r.x
          /\ wrong' = (wrong \/ \E i \in off .. off + n - 1 : r.data[i] \notin want[o][i])
    BY DEF Read
  <2>2. PICK n \in 1 .. s.size[o].file - off : \E r \in {file_rd(s, o, off, n)} :
          /\ s' = r.x
          /\ wrong' = (wrong \/ \E i \in off .. off + n - 1 : r.data[i] \notin want[o][i])
    BY <2>0
  <2> DEFINE r == file_rd(s, o, off, n)
  <2>3. off \in Nat /\ n \in Nat /\ n >= 1 /\ off + n <= MaxSize
    BY <1>2, <2>1, <2>2, DevFacts DEF Offset
  <2>4. s' = r.x /\ wrong' = (wrong \/ \E i \in off .. off + n - 1 : r.data[i] \notin want[o][i])
    BY <2>2
  <2>5. r = file_rd(s, o, off, n)
    OBVIOUS
  <2> HIDE DEF r
  <2>6. Quiet(s, r.x) /\ \A i \in off .. off + n - 1 : r.data[i] = View(s, o, chunk_of(i))[start_of(i)]
    BY <1>2, <2>1, <2>3, <2>5, ReadIs
  <2>7. \A i \in off .. off + n - 1 : i \in Offset
    BY <1>2, <2>3, DevFacts DEF Offset
  <2>8. \A i \in off .. off + n - 1 : r.data[i] \in want[o][i]
    BY <2>1, <2>6, <2>7 DEF Proper
  <2>10. Proper(r.x, want, synced)
    BY <1>2, <2>1, <2>6, QuietProper
  <2> QED BY <1>1, <2>1, <2>4, <2>8, <2>10
<1>4. synced' \subseteq Files /\ short' \in BOOLEAN /\ ops' \in Nat
  BY <1>1, <1>2 DEF CacheTypeOK
<1> QED BY <1>1, <1>3, <1>4, InvStep

LEMMA TouchProper ==
  ASSUME device \in Devices, NEW x, NEW a, NEW z, Proper(x, a, z), NEW o \in Files, NEW y, y = update_oh(x, o)
  PROVE  Proper(y, a, z)
<1>1. Sound(x) /\ x \in State /\ Within(x, Sizes(x))
  BY DEF Proper, Sound
<1>2. /\ y \in State /\ y.cache = x.cache /\ y.stored = x.stored /\ y.free = x.free /\ y.size = x.size
      /\ x.dirty[o] /\ IsDirty(x, o) => y.dirty[o]
      /\ \A p \in Files : p # o => y.dirty[p] = x.dirty[p]
  BY <1>1, UpdateIs
<1>3. /\ Sound(y) /\ \A p \in Files, c \in ChunkNo : View(y, p, c) = View(x, p, c)
      /\ \A p \in Files : IsDirty(y, p) <=> IsDirty(x, p)
      /\ \A len : Within(y, len) <=> Within(x, len)
  BY <1>1, <1>2, SameCache
<1>4. Sizes(y) = Sizes(x)
  BY <1>2 DEF Sizes
<1>5. ASSUME NEW p \in Files, NEW i \in Offset PROVE View(y, p, chunk_of(i))[start_of(i)] \in a[p][i]
  <2>1. chunk_of(i) \in ChunkNo
    BY OffsetChunk
  <2>2. View(y, p, chunk_of(i)) = View(x, p, chunk_of(i))
    BY <2>1, <1>3
  <2> QED BY <2>2 DEF Proper
<1>6. ASSUME NEW p \in Files, IsDirty(y, p) PROVE y.dirty[p] /\ p \notin z
  <2>1. IsDirty(x, p)
    BY <1>6, <1>3
  <2>2. x.dirty[p] /\ p \notin z
    BY <2>1 DEF Proper
  <2>3. CASE p = o
    BY <1>2, <2>1, <2>2, <2>3
  <2>4. CASE p # o
    BY <1>2, <2>2, <2>4
  <2> QED BY <2>3, <2>4
<1>7. Within(y, Sizes(y)) /\ \A p \in Files : y.size[p].file <= MaxSize
  BY <1>1, <1>2, <1>3, <1>4 DEF Proper
<1> QED BY <1>3, <1>5, <1>6, <1>7 DEF Proper

LEMMA TouchStep ==
  ASSUME CacheInv, NEW CONSTANT o \in Files, Touch(o)
  PROVE  CacheInv'
<1>1. /\ device' = device /\ synced' = synced /\ short' = short /\ ops' = ops /\ want' = want /\ wrong' = wrong
      /\ s' = update_oh(s, o)
  BY DEF Touch
<1>2. device \in Devices /\ CacheTypeOK
  BY DEF CacheInv, CacheTypeOK
<1>3. ASSUME ~short, CacheSound PROVE ~wrong' /\ Proper(s', want', synced')
  <2>1. Proper(s, want, synced) /\ ~wrong
    BY <1>3 DEF CacheSound
  <2>2. Proper(update_oh(s, o), want, synced)
    BY <1>2, <2>1, TouchProper
  <2> QED BY <1>1, <2>1, <2>2
<1>4. synced' \subseteq Files /\ short' \in BOOLEAN /\ ops' \in Nat /\ wrong' \in BOOLEAN
  BY <1>1, <1>2 DEF CacheTypeOK
<1> QED BY <1>1, <1>3, <1>4, InvStep

LEMMA SyncStep ==
  ASSUME CacheInv, Sync
  PROVE  CacheInv'
<1>1. /\ device' = device /\ synced' = Files /\ short' = short /\ ops' = ops /\ want' = want /\ wrong' = wrong
      /\ s' = flush_whole_cache(s)
  BY DEF Sync
<1>2. device \in Devices /\ CacheTypeOK
  BY DEF CacheInv, CacheTypeOK
<1>3. ASSUME ~short, CacheSound PROVE ~wrong' /\ Proper(s', want', synced')
  <2>1. Proper(s, want, synced) /\ ~wrong /\ Sound(s)
    BY <1>3 DEF CacheSound, Proper
  <2> DEFINE y == flush_whole_cache(s)
  <2>2. y = flush_whole_cache(s)
    OBVIOUS
  <2> HIDE DEF y
  <2>3. Quiet(s, y) /\ \A i \in Slot : ~y.cache[i].dirty
    BY <1>2, <2>1, <2>2, FlushAll
  <2>4. Proper(y, want, synced)
    BY <1>2, <2>1, <2>3, QuietProper
  <2>5. \A p \in Files : ~IsDirty(y, p)
    BY <2>3 DEF IsDirty
  <2>6. Proper(y, want, Files)
    BY <2>4, <2>5 DEF Proper
  <2> QED BY <1>1, <2>1, <2>2, <2>6
<1>4. synced' \subseteq Files /\ short' \in BOOLEAN /\ ops' \in Nat /\ wrong' \in BOOLEAN
  BY <1>1, <1>2 DEF CacheTypeOK
<1> QED BY <1>1, <1>3, <1>4, InvStep

LEMMA FlushProper ==
  ASSUME device \in Devices, NEW x, NEW a, NEW z, Proper(x, a, z), NEW o \in Files,
         NEW datasync \in BOOLEAN, NEW discard \in BOOLEAN, NEW y, y = flush_file(x, o, datasync, discard)
  PROVE  Proper(y, a, z \cup {o})
<1> DEFINE f == flush_file_cache(x, o, discard)
           u == update_oh(f, o)
<1>1. Sound(x)
  BY DEF Proper
<1>2. f = flush_file_cache(x, o, discard) /\ u = update_oh(f, o)
      /\ y = IF ~x.dirty[o] THEN x ELSE IF datasync THEN f ELSE u
  BY DEF flush_file
<1> HIDE DEF f, u
<1>3. Flushed(x, f, o, discard)
  BY <1>1, <1>2, FlushedIs
<1>4. Quiet(x, f) /\ ~IsDirty(f, o)
  BY <1>3 DEF Flushed, IsDirty
<1>5. Proper(f, a, z)
  BY <1>4, QuietProper
<1>6. Proper(u, a, z)
  BY <1>2, <1>5, TouchProper
<1>7. ~IsDirty(u, o)
  <2>1. f \in State /\ Sound(f)
    BY <1>5 DEF Proper, Sound
  <2>2. u.cache = f.cache
    BY <1>2, <2>1, UpdateIs
  <2> QED BY <1>4, <2>2 DEF IsDirty
<1>8. ~x.dirty[o] => ~IsDirty(x, o)
  BY DEF Proper
<1>9. Proper(y, a, z) /\ ~IsDirty(y, o)
  BY <1>2, <1>4, <1>5, <1>6, <1>7, <1>8
<1> QED BY <1>9 DEF Proper

LEMMA FlushStep ==
  ASSUME CacheInv, NEW CONSTANT o \in Files, Flush(o)
  PROVE  CacheInv'
<1>1. /\ device' = device /\ short' = short /\ ops' = ops /\ want' = want /\ wrong' = wrong
      /\ synced' = synced \cup {o} \/ synced' = synced
  BY DEF Flush
<1>2. device \in Devices /\ CacheTypeOK
  BY DEF CacheInv, CacheTypeOK
<1>3. ASSUME ~short, CacheSound PROVE ~wrong' /\ Proper(s', want', synced')
  <2>1. Proper(s, want, synced) /\ ~wrong
    BY <1>3 DEF CacheSound
  <2>2. PICK datasync \in BOOLEAN, discard \in BOOLEAN : s' = flush_file(s, o, datasync, discard)
    BY DEF Flush
  <2>3. Proper(s', want, synced \cup {o})
    BY <1>2, <2>1, <2>2, FlushProper
  <2>4. Proper(s', want, synced)
    BY <2>3 DEF Proper
  <2> QED BY <1>1, <2>1, <2>3, <2>4
<1>4. synced' \subseteq Files /\ short' \in BOOLEAN /\ ops' \in Nat /\ wrong' \in BOOLEAN
  BY <1>1, <1>2 DEF CacheTypeOK
<1> QED BY <1>1, <1>3, <1>4, InvStep

CutWant(a, o, size) == [a EXCEPT ![o] = [i \in Offset |-> IF i < size THEN a[o][i] ELSE {0}]]

LEMMA CutProper ==
  ASSUME device \in Devices, NEW x, NEW a, NEW z, Proper(x, a, z), NEW o \in Files, NEW size \in 0 .. MaxSize,
         NEW y, y = resize_file(x, o, size), Covered(y)
  PROVE  Proper(y, CutWant(a, o, size), z \ {o})
<1>1. /\ Sound(x) /\ Within(x, Sizes(x)) /\ Marked(x) /\ x.size[o].file <= MaxSize /\ size \in Nat /\ size <= MaxSize
  BY DevFacts DEF Proper, Marked
<1>2. /\ Sound(y) /\ Within(y, Sizes(y)) /\ Marked(y) /\ y.size[o].file = size /\ SameSizes(x, y, o)
      /\ Cut(x, y, o, size) /\ \A p \in Files : IsDirty(y, p) => IsDirty(x, p) \/ p = o
  BY <1>1, ResizeIs
<1> DEFINE b == CutWant(a, o, size)
<1>3. /\ DOMAIN b = Files /\ \A p \in Files : p # o => b[p] = a[p]
      /\ \A i \in Offset : b[o][i] = IF i < size THEN a[o][i] ELSE {0}
  BY DEF Proper, CutWant
<1> HIDE DEF b
<1>4. ASSUME NEW p \in Files, NEW i \in Offset PROVE View(y, p, chunk_of(i))[start_of(i)] \in b[p][i]
  <2>1. chunk_of(i) \in ChunkNo /\ start_of(i) \in 0 .. CS - 1 /\ i \in Nat
    BY OffsetChunk
  <2>2. View(x, p, chunk_of(i))[start_of(i)] \in a[p][i]
    BY DEF Proper
  <2>3. CASE p # o
    BY <1>2, <1>3, <2>1, <2>2, <2>3 DEF Cut
  <2>4. CASE p = o
    <3>1. Base(chunk_of(i)) + start_of(i) = i
      BY <2>1, Address DEF Base
    <3>2. View(y, o, chunk_of(i))[start_of(i)] = IF i < size THEN View(x, o, chunk_of(i))[start_of(i)] ELSE 0
      BY <1>2, <2>1, <3>1 DEF Cut
    <3> QED BY <1>3, <2>2, <2>4, <3>2
  <2> QED BY <2>3, <2>4
<1>5. ASSUME NEW p \in Files PROVE y.size[p].file <= MaxSize
  BY <1>1, <1>2 DEF SameSizes, Proper
<1>6. ASSUME NEW p \in Files, IsDirty(y, p) PROVE y.dirty[p] /\ p \notin z \ {o}
  BY <1>2, <1>6 DEF Proper, Marked
<1> QED BY <1>2, <1>3, <1>4, <1>5, <1>6 DEF Proper, b

LEMMA TruncateStep ==
  ASSUME CacheInv, NEW CONSTANT o \in Files, Truncate(o)
  PROVE  CacheInv'
<1>1. /\ device' = device /\ synced' = synced \ {o} /\ ops' = ops + 1 /\ wrong' = wrong /\ short' = (short \/ ~Covered(s'))
  BY DEF Truncate
<1>2. device \in Devices /\ CacheTypeOK
  BY DEF CacheInv, CacheTypeOK
<1>3. ASSUME ~short', CacheSound PROVE ~wrong' /\ Proper(s', want', synced')
  <2>1. Proper(s, want, synced) /\ ~wrong
    BY <1>3 DEF CacheSound
  <2>2. PICK size \in 0 .. MaxSize : s' = resize_file(s, o, size) /\ want' = CutWant(want, o, size)
    BY DEF Truncate, CutWant
  <2>3. Covered(s')
    BY <1>1, <1>3
  <2>4. Proper(s', CutWant(want, o, size), synced \ {o})
    BY <1>2, <2>1, <2>2, <2>3, CutProper
  <2> QED BY <1>1, <2>1, <2>2, <2>4
<1>4. synced' \subseteq Files /\ short' \in BOOLEAN /\ ops' \in Nat /\ wrong' \in BOOLEAN /\ (short => short')
  BY <1>1, <1>2 DEF CacheTypeOK
<1> QED BY <1>1, <1>3, <1>4, InvStep

\* A byte after a write, and what it may be
LEMMA WrittenByte ==
  ASSUME device \in Devices, Proper(s, want, synced), NEW o \in Files, NEW off \in Nat, NEW n \in Nat, n >= 1,
         NEW v \in Nat, NEW y, Seen(s, y), NEW r, FileWrote(y, r, o, off, n, v), NEW i \in Offset
  PROVE  View(r.x, o, chunk_of(i))[start_of(i)] \in Written(o, off, n, r.done, v)[i]
<1> DEFINE c == chunk_of(i)
           j == start_of(i)
           end == off + r.done
           k == chunk_of(end)
           b == View(r.x, o, c)[j]
           old == View(y, o, c)[j]
           W == Written(o, off, n, r.done, v)[i]
           Maybe == r.done < n /\ c = k
<1>1. c \in ChunkNo /\ j \in 0 .. CS - 1 /\ i \in Nat
  BY OffsetChunk
<1>2. Base(c) + j = i
  BY <1>1, Address DEF Base
<1>3. W = IF i >= off /\ i < off + r.done THEN {v}
          ELSE want[o][i] \cup (IF Maybe /\ Bypass THEN {s.stored[o][k].data[j]} ELSE {})
                          \cup (IF Maybe /\ i >= off /\ i < off + n THEN {v} ELSE {})
  BY DEF Written
<1>4. r.done \in 0 .. n /\ (r.ok <=> r.done = n) /\ end \in Nat
  BY DEF FileWrote
<1>5. old \in want[o][i]
  <2>1. View(y, o, c) = View(s, o, c)
    BY <1>1 DEF Seen
  <2> QED BY <2>1 DEF Proper
<1>6. New(i, off, end) <=> i >= off /\ i < off + r.done
  BY DEF New
<1>7. b = (IF New(i, off, end) THEN v ELSE old) \/ (~r.ok /\ Lost(y, r.x, o, off, end, c, j))
  <2>1. CASE r.ok
    <3>1. Shows(y, r.x, o, off, end, v)
      BY <2>1 DEF FileWrote
    <3> HIDE DEF c, j, end
    <3> QED BY <1>1, <1>2, <3>1 DEF Shows
  <2>2. CASE ~r.ok
    <3>1. ShowsSome(y, r.x, o, off, end, v)
      BY <2>2 DEF FileWrote
    <3> HIDE DEF c, j, end
    <3> QED BY <1>1, <1>2, <2>2, <3>1 DEF ShowsSome
  <2> QED BY <2>1, <2>2
<1>8. ASSUME ~r.ok, Lost(y, r.x, o, off, end, c, j) PROVE b \in W
  <2>1. Bypass /\ c = k /\ ~New(i, off, end) /\ b = y.stored[o][c].data[j]
    <3> HIDE DEF c, j, end
    <3> QED BY <1>2, <1>8 DEF Lost, k
  <2>2. r.done < n
    BY <1>4, <1>8
  <2>3. y.stored[o][c].data \in {s.stored[o][c].data, View(s, o, c)}
    BY <1>1 DEF Seen
  <2>4. View(s, o, c)[j] \in want[o][i]
    BY DEF Proper
  <2>5. b \in want[o][i] \cup {s.stored[o][k].data[j]}
    <3> HIDE DEF c, j, k, b
    <3> QED BY <2>1, <2>3, <2>4
  <2> HIDE DEF c, j, end, k, b, W
  <2> QED BY <1>3, <1>6, <2>1, <2>2, <2>5
<1>9. ASSUME b = IF New(i, off, end) THEN v ELSE old PROVE b \in W
  <2> HIDE DEF c, j, end, k, b, W, old
  <2> QED BY <1>3, <1>5, <1>6, <1>9
<1> QED BY <1>7, <1>8, <1>9

Rewritten(o, off, n, done, v) == [want EXCEPT ![o] = Written(o, off, n, done, v)]

LEMMA WriteProper ==
  ASSUME device \in Devices, Proper(s, want, synced), NEW o \in Files, NEW off \in Offset,
         NEW n \in 1 .. MaxSize - off, NEW v \in Nat, NEW through \in BOOLEAN,
         NEW r, r = do_file_wr(handle_hole(s, o, off), o, off, n, v, through)
  PROVE  Proper(r.x, Rewritten(o, off, n, r.done, v), synced \ {o})
<1>1. off \in Nat /\ n \in Nat /\ n >= 1 /\ off + n <= MaxSize /\ off <= MaxSize
  BY DevFacts DEF Offset
<1>2. Sound(s) /\ Within(s, Sizes(s)) /\ Marked(s) /\ s.size[o].file <= MaxSize
  BY DEF Proper, Marked
<1> DEFINE y == handle_hole(s, o, off)
<1>3. y = handle_hole(s, o, off) /\ r = do_file_wr(y, o, off, n, v, through)
  OBVIOUS
<1> HIDE DEF y
<1>4. /\ Sound(y) /\ Seen(s, y) /\ Within(y, Sizes(y)) /\ Marked(y) /\ SameSizes(s, y, o)
      /\ \A p \in Files : IsDirty(y, p) => IsDirty(s, p) \/ p = o
      /\ y.size[o].file = s.size[o].file \/ (y.size[o].file = off /\ off > s.size[o].file)
  BY <1>1, <1>2, <1>3, HandleHoleIs
<1>5. FileWrote(y, r, o, off, n, v)
  BY <1>1, <1>3, <1>4, FileWrIs
<1> DEFINE z == r.x
           end == off + r.done
<1>6. /\ z \in State /\ Sound(z) /\ r.done \in 0 .. n /\ Beside(y, z, o) /\ Inside(y, z, o, end) /\ Ended(y, z, o, end)
  BY <1>5 DEF FileWrote
<1>7. y \in State /\ end \in Nat /\ end <= MaxSize
  <2>1. y \in State
    BY <1>4 DEF Sound
  <2> QED BY <1>1, <1>6, <2>1, DevFacts DEF end
<1> HIDE DEF z, end
<1>8. /\ z.size[o].file = (IF y.size[o].file >= end THEN y.size[o].file ELSE end) /\ z.dirty[o]
      /\ \A p \in Files : p # o => z.size[p].file = y.size[p].file /\ z.dirty[p] = y.dirty[p]
  BY <1>6 DEF Ended
<1>9. \A p \in Files : z.size[p].file \in Nat /\ y.size[p].file \in Nat /\ s.size[p].file \in Nat
  BY <1>2, <1>6, <1>7, StateFields DEF Sound
<1>10. y.size[o].file <= MaxSize /\ z.size[o].file <= MaxSize
  BY <1>1, <1>2, <1>4, <1>7, <1>8, <1>9
<1>11. ASSUME NEW p \in Files PROVE z.size[p].file <= MaxSize
  <2>1. CASE p = o
    BY <1>10, <2>1
  <2>2. CASE p # o
    BY <1>4, <1>8, <2>2 DEF SameSizes, Proper
  <2> QED BY <2>1, <2>2
<1>12. Within(z, Sizes(z))
  <2> DEFINE l == Sizes(z)
  <2>1. l \in [Files -> Nat] /\ l[o] = z.size[o].file
    BY <1>9 DEF Sizes
  <2>2. l[o] >= y.size[o].file /\ l[o] >= end
    BY <1>7, <1>8, <1>9, <2>1
  <2>3. \A p \in Files : Sizes(y)[p] <= l[p]
    BY <1>8, <1>9, <2>2 DEF Sizes
  <2>4. Sizes(y) \in [Files -> Nat]
    BY <1>9 DEF Sizes
  <2> HIDE DEF l
  <2>5. Within(y, l)
    BY <1>4, <1>7, <2>1, <2>3, <2>4, WithinMono
  <2>6. Within(z, l)
    BY <1>6, <2>1, <2>2, <2>5 DEF Inside
  <2> QED BY <2>6 DEF l
<1> DEFINE b == Rewritten(o, off, n, r.done, v)
<1>13. /\ DOMAIN b = Files /\ \A p \in Files : p # o => b[p] = want[p]
       /\ b[o] = Written(o, off, n, r.done, v)
  BY DEF Proper, Rewritten
<1> HIDE DEF b
<1>14. ASSUME NEW p \in Files, NEW i \in Offset PROVE View(z, p, chunk_of(i))[start_of(i)] \in b[p][i]
  <2>1. CASE p = o
    <3>1. View(r.x, o, chunk_of(i))[start_of(i)] \in Written(o, off, n, r.done, v)[i]
      BY <1>1, <1>4, <1>5, WrittenByte
    <3> QED BY <2>1, <3>1, <1>13 DEF z
  <2>2. CASE p # o
    <3>1. chunk_of(i) \in ChunkNo
      BY OffsetChunk
    <3>2. View(z, p, chunk_of(i)) = View(s, p, chunk_of(i))
      BY <1>4, <1>6, <2>2, <3>1 DEF Beside, Seen
    <3> QED BY <1>13, <2>2, <3>2 DEF Proper
  <2> QED BY <2>1, <2>2
<1>15. ASSUME NEW p \in Files, IsDirty(z, p) PROVE z.dirty[p] /\ p \notin synced \ {o}
  <2>1. CASE p = o
    BY <1>8, <2>1
  <2>2. CASE p # o
    <3>1. IsDirty(y, p)
      BY <1>6, <1>15, <2>2 DEF Beside
    <3>2. IsDirty(s, p)
      BY <1>4, <2>2, <3>1
    <3>3. y.dirty[p]
      BY <1>4, <3>1 DEF Marked
    <3> QED BY <1>8, <2>2, <3>2, <3>3 DEF Proper
  <2> QED BY <2>1, <2>2
<1>16. Proper(z, b, synced \ {o})
  BY <1>6, <1>11, <1>12, <1>13, <1>14, <1>15 DEF Proper
<1> QED BY <1>16 DEF z, b

LEMMA WriteStep ==
  ASSUME CacheInv, NEW CONSTANT o \in Files, NEW CONSTANT through \in BOOLEAN, Write(o, through)
  PROVE  CacheInv'
<1>1. /\ device' = device /\ synced' = synced \ {o} /\ ops' = ops + 1 /\ wrong' = wrong /\ short' = short
  BY DEF Write
<1>2. device \in Devices /\ CacheTypeOK
  BY DEF CacheInv, CacheTypeOK
<1>3. ASSUME ~short, CacheSound PROVE ~wrong' /\ Proper(s', want', synced')
  <2>1. Proper(s, want, synced) /\ ~wrong /\ ops + 1 \in Nat
    BY <1>2, <1>3 DEF CacheSound, CacheTypeOK
  <2>2. PICK off \in Offset : \E n \in 1 .. MaxSize - off :
          \E w \in {do_file_wr(handle_hole(s, o, off), o, off, n, ops + 1, through)} :
            s' = w.x /\ want' = [want EXCEPT ![o] = Written(o, off, n, w.done, ops + 1)]
    BY DEF Write
  <2>3. PICK n \in 1 .. MaxSize - off :
          \E w \in {do_file_wr(handle_hole(s, o, off), o, off, n, ops + 1, through)} :
            s' = w.x /\ want' = [want EXCEPT ![o] = Written(o, off, n, w.done, ops + 1)]
    BY <2>2
  <2> DEFINE v == ops + 1
             w == do_file_wr(handle_hole(s, o, off), o, off, n, v, through)
  <2>4. s' = w.x /\ want' = Rewritten(o, off, n, w.done, v)
    BY <2>3 DEF Rewritten
  <2>5. v \in Nat /\ w = do_file_wr(handle_hole(s, o, off), o, off, n, v, through)
    BY <2>1
  <2> HIDE DEF v, w
  <2>6. Proper(w.x, Rewritten(o, off, n, w.done, v), synced \ {o})
    BY <1>2, <2>1, <2>5, WriteProper
  <2> QED BY <1>1, <2>1, <2>4, <2>6
<1>4. synced' \subseteq Files /\ short' \in BOOLEAN /\ ops' \in Nat /\ wrong' \in BOOLEAN
  BY <1>1, <1>2 DEF CacheTypeOK
<1> QED BY <1>1, <1>3, <1>4, InvStep

LEMMA CacheNext == CacheInv /\ [Next]_vars => CacheInv'
<1> SUFFICES ASSUME CacheInv, [Next]_vars PROVE CacheInv'
  OBVIOUS
<1>1. ASSUME NEW o \in Files, Read(o) PROVE CacheInv'
  BY <1>1, ReadStep
<1>2. ASSUME NEW o \in Files, Truncate(o) PROVE CacheInv'
  BY <1>2, TruncateStep
<1>3. ASSUME NEW o \in Files, Touch(o) PROVE CacheInv'
  BY <1>3, TouchStep
<1>4. ASSUME NEW o \in Files, Flush(o) PROVE CacheInv'
  BY <1>4, FlushStep
<1>5. ASSUME NEW o \in Files, NEW through \in BOOLEAN, Write(o, through) PROVE CacheInv'
  BY <1>5, WriteStep
<1>6. CASE Sync
  BY <1>6, SyncStep
<1>7. CASE UNCHANGED vars
  <2>1. /\ device' = device /\ synced' = synced /\ short' = short /\ ops' = ops /\ want' = want /\ wrong' = wrong /\ s' = s
    BY <1>7 DEF vars
  <2>2. synced' \subseteq Files /\ short' \in BOOLEAN /\ ops' \in Nat /\ wrong' \in BOOLEAN
    BY <2>1 DEF CacheInv, CacheTypeOK
  <2>3. CacheSound => ~wrong' /\ Proper(s', want', synced')
    BY <2>1 DEF CacheSound
  <2> QED BY <2>1, <2>2, <2>3, InvStep
<1> QED BY <1>1, <1>2, <1>3, <1>4, <1>5, <1>6, <1>7 DEF Next

LEMMA CacheInvHolds == Spec => []CacheInv
<1> QED BY CacheInit, CacheNext, PTL DEF Spec

LEMMA KeptIs == CacheInv => ContentsKept
<1> SUFFICES ASSUME CacheInv, ~short PROVE ContentsKept
  BY DEF ContentsKept
<1>1. device \in Devices /\ ~wrong /\ Proper(s, want, synced) /\ Sound(s) /\ s \in State /\ Within(s, Sizes(s))
  BY DEF CacheInv, CacheTypeOK, CacheSound, Proper, Sound
<1>2. Covered(s) /\ Single(s)
  BY <1>1 DEF Sound
<1>3. \A o \in Files, i \in Offset : i < s.size[o].file => Byte(s, o, i) \in want[o][i]
  <2> SUFFICES ASSUME NEW o \in Files, NEW i \in Offset PROVE Byte(s, o, i) \in want[o][i]
    OBVIOUS
  <2>1. Byte(s, o, i) = View(s, o, chunk_of(i))[start_of(i)]
    BY DEF Byte, View, rd_data_obj
  <2> QED BY <1>1, <2>1 DEF Proper
<1>4. OneCopy
  BY <1>2 DEF OneCopy, Single, Held
<1>5. NothingBeyondSize
  <2> SUFFICES ASSUME NEW o \in Files, NEW c \in ChunkNo, s.stored[o][c] # Hole
               PROVE  (c - 1) * CS + s.stored[o][c].n <= s.size[o].file
    BY DEF NothingBeyondSize
  <2>1. s.stored[o][c].n # 0
    BY <1>1 DEF Sound
  <2>2. Reaches(c, s.stored[o][c].n, Sizes(s)[o])
    BY <1>1, <2>1 DEF Within
  <2> QED BY <2>2 DEF Reaches, Sizes
<1>6. SmallHolesFit
  <2> SUFFICES ASSUME NEW o \in Files, NEW size \in s.size[o].file + 1 .. MaxSize, SmallHole(s, o, size)
               PROVE  FillHole(s, o, s.size[o].file, size).ok
    BY DEF SmallHolesFit
  <2> DEFINE old == s.size[o].file
             h == FillHole(s, o, old, size)
  <2>1. old \in Nat /\ old = s.size[o].file /\ h = FillHole(s, o, old, size)
    BY <1>1, StateFields
  <2>2. size \in Nat /\ size <= MaxSize /\ size > old
    BY <1>1, <2>1, DevFacts
  <2> HIDE DEF old, h
  <2>3. h.ok
    BY <1>1, <2>1, <2>2, FillHoleIs
  <2> QED BY <2>1, <2>3
<1> QED BY <1>1, <1>2, <1>3, <1>4, <1>5, <1>6 DEF ContentsKept

LEMMA StoredIs == CacheInv => SyncedIsStored
<1> SUFFICES ASSUME CacheInv, ~short, NEW o \in synced, NEW i \in Offset
             PROVE  rd_data_obj(s, o, chunk_of(i))[start_of(i)] \in want[o][i]
  BY DEF SyncedIsStored
<1>1. device \in Devices /\ Proper(s, want, synced) /\ Sound(s) /\ s \in State /\ Single(s) /\ o \in Files
  BY DEF CacheInv, CacheTypeOK, CacheSound, Proper, Sound
<1> DEFINE c == chunk_of(i)
<1>2. c \in ChunkNo
  BY <1>1, OffsetChunk
<1>3. \A k \in Slot : Held(s, k, o, c) => ~s.cache[k].dirty
  BY <1>1 DEF Proper, IsDirty, Held
<1>4. View(s, o, c) = s.stored[o][c].data
  <2>1. CASE \E k \in Slot : Held(s, k, o, c)
    <3>1. PICK k \in Slot : Held(s, k, o, c)
      BY <2>1
    <3>2. View(s, o, c) = s.cache[k].data
      BY <1>1, <3>1, ViewIs
    <3>3. s.cache[k].obj # "none" /\ s.cache[k].obj = o /\ s.cache[k].chunk = c
      BY <1>1, <3>1, DevFacts DEF Held
    <3>4. SlotSound(s, k) /\ ~s.cache[k].dirty
      BY <1>1, <1>3, <3>1 DEF Sound
    <3> HIDE DEF c
    <3> QED BY <3>2, <3>3, <3>4 DEF SlotSound
  <2>2. CASE \A k \in Slot : ~Held(s, k, o, c)
    BY <1>1, <2>2, ViewIs
  <2> QED BY <2>1, <2>2
<1>5. View(s, o, c)[start_of(i)] \in want[o][i]
  BY <1>1 DEF Proper
<1> QED BY <1>4, <1>5 DEF rd_data_obj

(* Every byte of a file is the one that was written last, or 0 in a hole, and  *)
(* no read has returned another: yaffs_grab_chunk_cache stores what it takes a *)
(* slot from, yaffs_do_file_wr makes a chunk dirty only while the reserve can  *)
(* hold it, and yaffs_handle_hole fills a hole only if its chunks fit.  This   *)
(* is so until a truncation has stored the tail of a hole in a chunk that the  *)
(* cache needed (short), on devices with a reserve not smaller than the cache. *)
THEOREM FileContentsKept == Spec => []ContentsKept
BY CacheInvHolds, KeptIs, PTL

(* After yaffs_flush_file or a sync has reported success the bytes of the file *)
(* are stored: every file with a dirty chunk in the cache is marked dirty, also*)
(* after yaffs_update_oh has written its header, so no flush passes over it.   *)
(* The flush that fails for want of a chunk after such a truncation, and       *)
(* reports success, is outside of this (short).                                *)
THEOREM FlushedIsStored == Spec => []SyncedIsStored
BY CacheInvHolds, StoredIs, PTL
=============================================================================
