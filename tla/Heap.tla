-------------------------------- MODULE Heap --------------------------------
(***************************************************************************)
(* The kernel heap (kernel/src/mm/heap.cpp): a first-fit allocator over    *)
(* the memory blocks that boot hands to it.  Every block is cut into       *)
(* segments; a segment starts with a HeapSegmentDesc (HDR bytes) that      *)
(* knows its left and right neighbour in the block, how far behind the     *)
(* descriptor its data starts (headerOffset) and how many bytes of data it *)
(* has (availableSize).  The free segments are linked in a ring.           *)
(*                                                                         *)
(* Addresses and sizes are byte numbers, 0 is the null pointer.  Every     *)
(* operation holds _heapLock over all its accesses to shared data, so an   *)
(* operation is one step; the checks that free() makes before it takes the *)
(* lock read only words that belong to the block being freed.              *)
(***************************************************************************)
EXTENDS Integers, Sequences

CONSTANTS
  HDR,            \* sizeof(HeapSegmentDesc)
  WORD,           \* sizeof(addr_t), the granularity of addresses and sizes
  PageSize,       \* MM::PageSize, free segments above it are kept at the tail
  AddrMod,        \* word_t arithmetic is modulo AddrMod
  Setups          \* the boots and callers a heap may meet, records of
                  \*   blocks: sequence of <<from, to>>, the calls of addHeapBlock
                  \*   ctlSize: the size separateFreeBlock is called with
                  \*   sizes: sizes callers ask for
                  \*   alignments: what callers of the aligned allocate ask for
                  \*   doubleFree: TRUE if callers may free an address twice

ASSUME HeapAssumption ==
  /\ WORD \in Nat \ {0}
  /\ HDR \in Nat \ {0} /\ HDR % WORD = 0
  /\ PageSize \in Nat /\ AddrMod \in Nat
  /\ \A s \in Setups :
       /\ s.ctlSize \in Nat /\ s.ctlSize >= HDR
       /\ s.sizes \subseteq Nat /\ s.alignments \subseteq Nat \ {0}
       /\ s.doubleFree \in BOOLEAN
       /\ s.blocks \in Seq(Nat \X Nat)
       /\ \A i \in DOMAIN s.blocks :
            /\ 0 < s.blocks[i][1] /\ s.blocks[i][1] + HDR < s.blocks[i][2]
            /\ s.blocks[i][1] % WORD = 0 /\ s.blocks[i][2] % WORD = 0
            /\ s.blocks[i][2] < AddrMod
       /\ \A i, j \in DOMAIN s.blocks : i < j => s.blocks[i][2] < s.blocks[j][1]

VARIABLES
  setup,      \* the setup this heap runs in, chosen once
  added,      \* how many of Blocks have been added
  reserved,   \* <<>> or <<addr>>: what separateFreeBlock took for the page table
  desc,       \* descriptor of every segment, by the segment's address
  freeList,   \* the ring _freeRingListHeader, from header->next on
  live,       \* size of every block a caller owns, by the address it was given
  offWord,    \* the word before every address in live, and before freed ones
  phantom     \* the last address returned although nothing was allocated, or 0

vars == <<setup, added, reserved, desc, freeList, live, offWord, phantom>>

Blocks == setup.blocks
CtlSize == setup.ctlSize
MayDoubleFree == setup.doubleFree

-----------------------------------------------------------------------------
AlignUp(n, a) == ((n + a - 1) \div a) * a
AlignDown(n, a) == (n \div a) * a

InFreeList(h) == \E i \in DOMAIN freeList : freeList[i] = h

\* addNodeToRingDoubleListTail for large segments, ...Header for the others.
Link(list, h, size) ==
  IF size > PageSize THEN Append(list, h) ELSE <<h>> \o list

\* Mutant: the node stays in the ring.
UnlinkForgotten(list, h) == list

\* delNodeFromRingDoubleList
Unlink(list, h) ==
  LET k == CHOOSE i \in DOMAIN list : list[i] = h
  IN  [i \in 1 .. Len(list) - 1 |-> IF i < k THEN list[i] ELSE list[i + 1]]

\* The k-th node of the ring is the first that fits, as RingList_Foreach finds it.
IsFirstFit(k, fits) ==
  /\ freeList[k] \in fits
  /\ \A j \in 1 .. k - 1 : freeList[j] \notin fits

DataOf(d, h) == h + d[h].off
EndOf(d, h) == h + d[h].off + d[h].avail

\* Mutant: the old right neighbour still points left to h.
InsertRightOneWay(d, h, keep, n, seg) ==
  [x \in DOMAIN d \cup {n} |->
     CASE x = n -> seg
       [] x = h -> [d[h] EXCEPT !.right = n, !.avail = keep]
       [] OTHER -> d[x]]

\* Insert descriptor n to the right of h; h keeps `keep' bytes of data.
InsertRight(d, h, keep, n, seg) ==
  [x \in DOMAIN d \cup {n} |->
     CASE x = n -> seg
       [] x = h -> [d[h] EXCEPT !.right = n, !.avail = keep]
       [] x # n /\ x # h /\ x = d[h].right -> [d[x] EXCEPT !.left = n]
       [] OTHER -> d[x]]

\* Segment h absorbs its right neighbour, whose descriptor is zeroed.
Absorb(d, h) ==
  LET r == d[h].right
  IN  [x \in DOMAIN d \ {r} |->
         CASE x = h -> [d[h] EXCEPT !.right = d[r].right,
                                    !.avail = @ + d[r].avail + d[r].off]
           [] x # h /\ x = d[r].right -> [d[x] EXCEPT !.left = h]
           [] OTHER -> d[x]]

\* Mutant: the tail's descriptor is counted as data.
TailSizeWithHeader(d, h, need) == d[h].avail - need

\* Cutting the tail off an allocated segment h that needs only `need' bytes:
\* done when what is left over can hold more than a descriptor.
HasTail(d, h, need) == d[h].avail - need > HDR
TailOf(d, h, need) == DataOf(d, h) + need
TailSize(d, h, need) == d[h].avail - need - HDR

CutTail(d, h, need) ==
  IF HasTail(d, h, need)
    THEN InsertRight(d, h, need, TailOf(d, h, need),
                     [left |-> h, right |-> d[h].right,
                      avail |-> TailSize(d, h, need), off |-> HDR])
    ELSE d

LinkTail(list, d, h, need) ==
  IF HasTail(d, h, need)
    THEN Link(list, TailOf(d, h, need), TailSize(d, h, need))
    ELSE list

\* The descriptor of the tail, if there is one, and the first address behind h
\* whose offset word is neither in it nor in what the caller gets.
Tails(d, h, need) == IF HasTail(d, h, need) THEN {TailOf(d, h, need)} ELSE {}
Beyond(d, h, need) == IF HasTail(d, h, need) THEN TailOf(d, h, need) + HDR ELSE EndOf(d, h) + 1

\* Freed addresses that may still be freed again: it is the callers' duty not
\* to do so once the word before an address is handed out, or lies in the new
\* descriptor of a tail, where free() would take a field for the offset.
StillStale(h, beyond) ==
  {a \in DOMAIN offWord : a \in DOMAIN live \/ ~(h < a /\ a < beyond)}

\* The caller gets need bytes of segment h as described by d.  The last field
\* of a descriptor is the offset word of its segment.
Given(d, h, need) ==
  LET a == DataOf(d, h)
  IN  /\ live' = [x \in DOMAIN live \cup {a} |-> IF x = a THEN need ELSE live[x]]
      /\ offWord' = [x \in StillStale(h, Beyond(d, h, need)) \cup {a} |->
                       IF x = a THEN d[h].off
                         ELSE IF x - HDR \in Tails(d, h, need) THEN HDR ELSE offWord[x]]

-----------------------------------------------------------------------------
(* Boot: Powerpc::init adds the blocks, then Vmm::secondInit separates one *)
(* piece of a block for good.                                              *)

Init ==
  /\ setup \in Setups
  /\ added = 0 /\ reserved = <<>>
  /\ desc = <<>> /\ freeList = <<>>
  /\ live = <<>> /\ offWord = <<>> /\ phantom = 0

Booted == reserved # <<>>

AddHeapBlock ==
  /\ added < Len(Blocks)
  /\ added' = added + 1
  /\ LET from == Blocks[added + 1][1]
         to == Blocks[added + 1][2]
     IN  /\ desc' = [x \in DOMAIN desc \cup {from} |->
                       IF x = from
                         THEN [left |-> 0, right |-> 0,
                               avail |-> to - from - HDR, off |-> HDR]
                         ELSE desc[x]]
         /\ freeList' = Append(freeList, from)
  /\ UNCHANGED <<setup, reserved, live, offWord, phantom>>

SeparateFreeBlock ==
  LET size == AlignUp(CtlSize, WORD)
      fits == {h \in DOMAIN desc : desc[h].avail + HDR > size}
  IN  /\ added = Len(Blocks) /\ ~Booted
      /\ \E k \in DOMAIN freeList :
           /\ IsFirstFit(k, fits)
           /\ LET h == freeList[k]
                  rest == desc[h].avail + HDR - size
                  n == h + size
                  l == desc[h].left
                  r == desc[h].right
              IN  /\ reserved' = <<h>>
                  /\ desc' = [x \in (DOMAIN desc \ {h}) \cup (IF rest > HDR THEN {n} ELSE {}) |->
                                CASE rest > HDR /\ x = n ->
                                       [left |-> 0, right |-> r,
                                        avail |-> rest - HDR, off |-> HDR]
                                  [] x # n /\ x = r ->
                                       [desc[x] EXCEPT !.left = IF rest > HDR THEN n ELSE 0]
                                  [] x # n /\ x = l -> [desc[x] EXCEPT !.right = 0]
                                  [] OTHER -> desc[x]]
                  /\ freeList' = IF rest > HDR
                                   THEN Link(Unlink(freeList, h), n, rest - HDR)
                                   ELSE Unlink(freeList, h)
      /\ UNCHANGED <<setup, added, live, offWord, phantom>>

-----------------------------------------------------------------------------
(* Operations                                                              *)

\* void* Heap::allocate(word_t neededSize).  Without a fit it returns 0.
Allocate(size) ==
  LET need == AlignUp(size, WORD)
      fits == {h \in DOMAIN desc : desc[h].avail >= need}
  IN  /\ Booted
      /\ \E k \in DOMAIN freeList :
           /\ IsFirstFit(k, fits)
           /\ LET h == freeList[k]
              IN  /\ desc' = CutTail(desc, h, need)
                  /\ freeList' = LinkTail(Unlink(freeList, h), desc, h, need)
                  /\ Given(desc, h, need)
      /\ UNCHANGED <<setup, added, reserved, phantom>>

\* The aligned address in free segment h and what is available from it on.
AlignedIn(h, al) == AlignUp(DataOf(desc, h), al)
AvailFrom(h, al) == (EndOf(desc, h) - AlignedIn(h, al)) % AddrMod

\* void* Heap::allocate(word_t neededSize, word_t neededAlignment)
AllocateAligned(size, al) ==
  LET need == AlignUp(size, WORD)
      fits == {h \in DOMAIN desc : AvailFrom(h, al) >= need}
  IN  /\ Booted
      /\ \E k \in DOMAIN freeList :
           /\ IsFirstFit(k, fits)
           /\ LET h == freeList[k]
                  a == AlignedIn(h, al)
                  n == AlignDown(a - HDR, WORD)
                  front == n > DataOf(desc, h)
                  node == IF front THEN n ELSE h
                  d1 == IF front
                          THEN InsertRight(desc, h, n - DataOf(desc, h), n,
                                 [left |-> h, right |-> desc[h].right,
                                  avail |-> 0, off |-> HDR])
                          ELSE desc
                  d2 == [d1 EXCEPT ![node].avail = AvailFrom(h, al),
                                   ![node].off = a - node]
                  list == IF front THEN freeList ELSE Unlink(freeList, h)
              IN  /\ desc' = CutTail(d2, node, need)
                  /\ freeList' = LinkTail(list, d2, node, need)
                  /\ Given(d2, node, need)
      /\ UNCHANGED <<setup, added, reserved, phantom>>

\* The same call when no segment fits: retAddr keeps the candidate of the last
\* node of the ring and is returned.
AllocateAlignedFails(size, al) ==
  /\ Booted
  /\ freeList # <<>>
  /\ \A i \in DOMAIN freeList : AvailFrom(freeList[i], al) < AlignUp(size, WORD)
  /\ phantom' = AlignedIn(freeList[Len(freeList)], al)
  /\ UNCHANGED <<setup, added, reserved, desc, freeList, live, offWord>>

\* zero_block over a descriptor clears the offset words that lie in it.
ZeroedBy(w, d, h) ==
  [a \in DOMAIN w |-> IF h < a /\ a <= DataOf(d, h) THEN 0 ELSE w[a]]

\* Mutant: no merge with the left neighbour.
ReleaseRightOnly(h, words) ==
  LET r == desc[h].right
      mergeRight == r # 0 /\ InFreeList(r)
      d1 == IF mergeRight THEN Absorb(desc, h) ELSE desc
  IN  /\ desc' = d1
      /\ freeList' = Link(IF mergeRight THEN Unlink(freeList, r) ELSE freeList,
                          h, d1[h].avail)
      /\ offWord' = words

\* What Heap::free does to segment h once its checks are passed; words is what
\* is remembered of the offset words.
Release(h, words) ==
  LET r == desc[h].right
      mergeRight == r # 0 /\ InFreeList(r)
      d1 == IF mergeRight THEN Absorb(desc, h) ELSE desc
      list1 == IF mergeRight THEN Unlink(freeList, r) ELSE freeList
      w1 == IF mergeRight THEN ZeroedBy(words, desc, r) ELSE words
      l == desc[h].left
      mergeLeft == l # 0 /\ InFreeList(l)
      size == d1[h].avail + d1[h].off - HDR
  IN  IF mergeLeft
        THEN /\ desc' = Absorb(d1, l)
             /\ freeList' = list1
             /\ offWord' = ZeroedBy(w1, d1, h)
        ELSE /\ desc' = [d1 EXCEPT ![h].avail = size, ![h].off = HDR]
             /\ freeList' = Link(list1, h, size)
             /\ offWord' = w1

\* The early returns of Heap::free: no descriptor fits before the address, or
\* its segment is free.
Refused(a) == offWord[a] < HDR \/ InFreeList(a - offWord[a])

\* void Heap::free(pvoid baseAddr) by the owner of the block.  The word before
\* a freed address matters only to a second free of it.
Free(a) ==
  /\ LET words == [x \in IF MayDoubleFree THEN DOMAIN offWord ELSE DOMAIN offWord \ {a} |->
                      offWord[x]]
     IN  IF Refused(a)
           THEN offWord' = words /\ UNCHANGED <<desc, freeList>>
           ELSE Release(a - offWord[a], words)
  /\ live' = [x \in DOMAIN live \ {a} |-> live[x]]
  /\ UNCHANGED <<setup, added, reserved, phantom>>

\* The same call for an address that has been freed before and whose offset
\* word is still that of a freed block (StillStale).  The early returns
\* change nothing; past them the zeroed words are taken for a descriptor.
FreeAgain(a) ==
  LET h == a - offWord[a]
  IN  /\ MayDoubleFree
      /\ IF Refused(a)
           THEN UNCHANGED <<desc, freeList>>
           ELSE /\ desc' = [x \in DOMAIN desc \cup {h} |->
                               IF x = h
                                 THEN [left |-> 0, right |-> 0, avail |-> 0, off |-> 0]
                                 ELSE desc[x]]
                /\ freeList' = Link(freeList, h, 0)
      /\ UNCHANGED <<setup, added, reserved, live, offWord, phantom>>

Next ==
  \/ AddHeapBlock
  \/ SeparateFreeBlock
  \/ \E n \in setup.sizes : Allocate(n)
  \/ \E n \in setup.sizes, al \in setup.alignments : AllocateAligned(n, al)
  \/ \E n \in setup.sizes, al \in setup.alignments : AllocateAlignedFails(n, al)
  \/ \E a \in DOMAIN live : Free(a)
  \/ \E a \in DOMAIN offWord \ DOMAIN live : FreeAgain(a)

Spec == Init /\ [][Next]_vars

-----------------------------------------------------------------------------
(* Properties                                                              *)

\* What Heap::verifyPhyBlock tests: a segment ends where its right neighbour
\* starts.
VerifyPhyBlock ==
  \A h \in DOMAIN desc : desc[h].right # 0 => EndOf(desc, h) = desc[h].right

\* The byte ranges two owners were given never overlap, none of them overlaps
\* a descriptor or the piece separated for the page table, and all lie inside
\* the blocks of the heap: what one owner writes is never part of the heap's
\* own data or of another owner's.
OwnersDisjoint ==
  \A a \in DOMAIN live :
    /\ \A b \in DOMAIN live \ {a} : a + live[a] <= b \/ b + live[b] <= a
    /\ \A h \in DOMAIN desc : a + live[a] <= h \/ h + HDR <= a
    /\ a + live[a] <= reserved[1] \/ reserved[1] + CtlSize <= a
    /\ \E i \in DOMAIN Blocks : Blocks[i][1] <= a /\ a + live[a] <= Blocks[i][2]

\* free() leaves no two free neighbours, whatever the order of frees, as long as
\* nobody asks for an alignment (an aligned block leaves its gap unmerged).
NoFreeNeighbours ==
  setup.alignments = {} =>
    \A h \in DOMAIN desc :
      desc[h].right # 0 => ~(InFreeList(h) /\ InFreeList(desc[h].right))

\* The segments of the heap tile its blocks: left and right agree with each
\* other and with the extents, and a segment without a right neighbour ends at
\* the end of its block, through every split and merge; and the owners' ranges
\* stay apart from each other and from the descriptors.
SegmentsTile ==
  /\ OwnersDisjoint
  /\ \A h \in DOMAIN desc :
       /\ desc[h].off >= HDR
       /\ desc[h].right # 0 =>
             /\ desc[h].right \in DOMAIN desc
             /\ EndOf(desc, h) = desc[h].right
             /\ desc[desc[h].right].left = h
       /\ desc[h].left # 0 =>
             /\ desc[h].left \in DOMAIN desc
             /\ desc[desc[h].left].right = h
       /\ desc[h].right = 0 => \E i \in 1 .. added : EndOf(desc, h) = Blocks[i][2]
       /\ desc[h].left = 0 =>
             \E i \in 1 .. added :
                \/ h = Blocks[i][1]
                \/ Booted /\ reserved[1] = Blocks[i][1]
                   /\ h = Blocks[i][1] + AlignUp(CtlSize, WORD)

\* The ring holds every free segment once and no other: each segment is either
\* in the ring or is the segment of exactly one owner, found through the word
\* before the owner's address; and free segments are merged.  So it is also
\* where callers free an address twice, through any merges and splits of the
\* segment around it, as long as the second free comes before the word before
\* the address is handed out or covered by the descriptor of a tail.
RingIsFreeSet ==
  /\ NoFreeNeighbours
  /\ \A i, j \in DOMAIN freeList : freeList[i] = freeList[j] => i = j
  /\ \A i \in DOMAIN freeList : freeList[i] \in DOMAIN desc
  /\ \A a \in DOMAIN live :
        /\ a - offWord[a] \in DOMAIN desc
        /\ DataOf(desc, a - offWord[a]) = a
        /\ ~InFreeList(a - offWord[a])
  /\ \A h \in DOMAIN desc : InFreeList(h) \/ DataOf(desc, h) \in DOMAIN live

\* Nothing leaks: once every owner has freed its block, each block of memory is
\* one free segment again.
AllFreedIsWhole ==
  live = <<>> =>
    \A h \in DOMAIN desc :
      /\ desc[h].left = 0 /\ desc[h].right = 0 /\ desc[h].off = HDR
      /\ InFreeList(h)

\* The heap implements an allocator that only keeps the owners' byte ranges:
\* through splits, merges and second frees (of addresses that are StillStale)
\* every range handed out is inside the blocks and free of other owners.
Abs == INSTANCE HeapAbs WITH owned <- live,
         memory <- UNION {Blocks[i][1] .. Blocks[i][2] - 1 : i \in DOMAIN Blocks}
ImplementsAllocator == Abs!Spec
=============================================================================
