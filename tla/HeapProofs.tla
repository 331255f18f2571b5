----------------------------- MODULE HeapProofs -----------------------------
(***************************************************************************)
(* Proofs about module Heap for any boot, any blocks and any sizes, in the *)
(* setups that are Gentle: callers ask for no alignment, or for one or two *)
(* words, as the kernel does for stacks (ContextAlignment), and then free  *)
(* nothing twice and ask for no empty block.  The other setups break the   *)
(* heap (the run heap_overaligned shows one way).                          *)
(*                                                                         *)
(* The argument: splitting a segment, absorbing one and moving the start   *)
(* of its data keep the segments Well formed: neighbours agree, and no two *)
(* segments overlap.  That none overlap is more than SegmentsTile says,    *)
(* and it is what shows that the descriptor of a tail falls on no other    *)
(* and that the words zeroed in a merge are nobody's.  Placed says where   *)
(* segments lie in the blocks, and Owned ties the segments that are not in *)
(* the ring to the addresses that callers have, and the words before freed *)
(* addresses to free segments.  Round says that segments are made of whole *)
(* words and never empty: an aligned address is then at most one word      *)
(* behind the start of a free segment's data, and inside it, so that the   *)
(* size available from it does not wrap around.                            *)
(***************************************************************************)
EXTENDS Heap, SequenceTheorems, TLAPS

-----------------------------------------------------------------------------
(* The invariant                                                           *)

Agree(d) ==
  \A h \in DOMAIN d :
    /\ d[h].right # 0 =>
         /\ d[h].right \in DOMAIN d
         /\ d[h].right = EndOf(d, h)
         /\ d[d[h].right].left = h
    /\ d[h].left # 0 =>
         /\ d[h].left \in DOMAIN d
         /\ d[d[h].left].right = h

Apart(d) == \A g, h \in DOMAIN d : g < h => EndOf(d, g) <= h

Segment == [left : Nat, right : Nat, avail : Nat, off : {o \in Nat : o >= HDR}]

Well(d) ==
  /\ DOMAIN d \subseteq Nat \ {0}
  /\ d \in [DOMAIN d -> Segment]
  /\ Agree(d)
  /\ Apart(d)

Taken == AlignUp(CtlSize, WORD)

\* The bytes from lo up to hi lie in one block and not in the page table.
Inside(lo, hi) ==
  /\ \E i \in 1 .. added : Blocks[i][1] <= lo /\ hi <= Blocks[i][2]
  /\ Booted => hi <= reserved[1] \/ reserved[1] + Taken <= lo

StartsBlock(h) ==
  \E i \in 1 .. added :
    \/ h = Blocks[i][1]
    \/ Booted /\ reserved[1] = Blocks[i][1] /\ h = Blocks[i][1] + Taken

EndsBlock(e) == \E i \in 1 .. added : e = Blocks[i][2]

Placed(d) ==
  \A h \in DOMAIN d :
    /\ Inside(h, EndOf(d, h))
    /\ d[h].right = 0 => EndsBlock(EndOf(d, h))
    /\ d[h].left = 0 => StartsBlock(h)

Members(list) == {list[i] : i \in DOMAIN list}
Distinct(list) == \A i, j \in DOMAIN list : list[i] = list[j] => i = j

\* Free segments have no gap before their data, and no two are neighbours.
Merged(d, F) ==
  \A h \in DOMAIN d :
    /\ h \in F => d[h].off = HDR
    /\ d[h].right # 0 => ~(h \in F /\ d[h].right \in F)

\* own: the sizes by address; w: the words before addresses.
Owned(d, F, own, w) ==
  /\ DOMAIN own \subseteq DOMAIN w
  /\ DOMAIN w \subseteq Nat
  /\ \A a \in DOMAIN own :
       /\ own[a] \in Nat /\ w[a] \in Nat
       /\ a - w[a] \in DOMAIN d \ F
       /\ d[a - w[a]].off = w[a]
       /\ own[a] <= d[a - w[a]].avail
  /\ \A h \in DOMAIN d : h \in F \/ (h + d[h].off \in DOMAIN own /\ w[h + d[h].off] = d[h].off)
  /\ \A a \in DOMAIN w \ DOMAIN own : w[a] = 0 \/ (w[a] = HDR /\ a - HDR \in F)

Words(x) == \E k \in Nat : x = k * WORD

\* Segments are made of whole words, and none is empty.
Round(d) ==
  \A h \in DOMAIN d : Words(h) /\ Words(d[h].off) /\ Words(d[h].avail) /\ d[h].avail > 0

Gentle ==
  \/ setup.alignments = {}
  \/ setup.alignments \subseteq {WORD, 2 * WORD} /\ ~MayDoubleFree /\ 0 \notin setup.sizes

Setting ==
  /\ setup \in Setups /\ Gentle
  /\ added \in 0 .. Len(Blocks)
  /\ Booted => added = Len(Blocks) /\ reserved[1] \in Nat
  /\ ~Booted => /\ DOMAIN live = {} /\ DOMAIN offWord = {}
                /\ \A h \in DOMAIN desc : desc[h].left = 0 /\ desc[h].right = 0

\* Without alignments no segment has a gap before its data.
Shaped(d) ==
  /\ setup.alignments = {} => \A h \in DOMAIN d : d[h].off = HDR
  /\ setup.alignments # {} => Round(d)

HeapInv ==
  /\ Setting
  /\ Shaped(desc)
  /\ Well(desc)
  /\ Placed(desc)
  /\ freeList \in Seq(Nat) /\ Distinct(freeList) /\ Members(freeList) \subseteq DOMAIN desc
  /\ Merged(desc, Members(freeList))
  /\ Owned(desc, Members(freeList), live, offWord)

-----------------------------------------------------------------------------
(* Sizes                                                                   *)

\* Rounding up to words gives no less.
LEMMA RoundedUp ==
  ASSUME NEW n \in Nat
  PROVE  AlignUp(n, WORD) \in Nat /\ AlignUp(n, WORD) >= n
<1>1. \A w \in Nat \ {0} : \A m \in Nat :
         ((m + w - 1) \div w) * w \in Nat /\ ((m + w - 1) \div w) * w >= m
  <2> SUFFICES ASSUME NEW w \in Nat \ {0}, NEW m \in Nat
               PROVE  ((m + w - 1) \div w) * w \in Nat /\ ((m + w - 1) \div w) * w >= m
    OBVIOUS
  <2>1. m + w - 1 \in Nat
    OBVIOUS
  <2> DEFINE q == (m + w - 1) \div w
  <2>2. q \in Nat /\ q * w <= m + w - 1 /\ m + w - 1 < (q + 1) * w
    BY <2>1
  <2> HIDE DEF q
  <2>3. (q + 1) * w = q * w + w /\ q * w \in Nat
    BY <2>2
  <2> QED BY <2>2, <2>3 DEF q
<1> QED BY <1>1, HeapAssumption DEF AlignUp

\* A whole number of words is at most one word below the next multiple of one
\* or two words.
LEMMA AlignedNear ==
  ASSUME NEW x \in Nat, Words(x), NEW al \in {WORD, 2 * WORD}
  PROVE  AlignUp(x, al) \in {x, x + WORD}
<1>1. \A w \in Nat \ {0} : \A k \in Nat :
        /\ ((k * w + w - 1) \div w) * w = k * w
        /\ ((k * w + 2 * w - 1) \div (2 * w)) * (2 * w) \in {k * w, k * w + w}
  <2> SUFFICES ASSUME NEW w \in Nat \ {0}, NEW k \in Nat
               PROVE  /\ ((k * w + w - 1) \div w) * w = k * w
                      /\ ((k * w + 2 * w - 1) \div (2 * w)) * (2 * w) \in {k * w, k * w + w}
    OBVIOUS
  <2> DEFINE y == k * w
             p == (y + w - 1) \div w
             q == (y + 2 * w - 1) \div (2 * w)
  <2>1. y \in Nat
    OBVIOUS
  <2>2. ASSUME NEW m \in Int, 0 <= m * w, m * w < 2 * w PROVE m \in {0, 1}
    <3>1. ASSUME m >= 2 PROVE FALSE
      <4>1. m * w = 2 * w + (m - 2) * w /\ (m - 2) * w >= 0
        BY <3>1
      <4> QED BY <4>1, <2>2
    <3>2. ASSUME m <= -1 PROVE FALSE
      <4>1. m * w = (m + 1) * w - w /\ (m + 1) * w <= 0
        BY <3>2
      <4> QED BY <4>1, <2>2
    <3> QED BY <3>1, <3>2
  <2> HIDE DEF y
  <2>3. p \in Int /\ p * w <= y + w - 1 /\ y + w - 1 < p * w + w
    BY <2>1
  <2>4. q \in Int /\ q * (2 * w) <= y + 2 * w - 1 /\ y + 2 * w - 1 < q * (2 * w) + 2 * w
    BY <2>1
  <2> HIDE DEF p, q
  <2>5. p * w = y
    <3>1. (p - k) * w = p * w - y
      BY <2>3 DEF y
    <3>2. 0 <= (p - k) * w /\ (p - k) * w < w /\ p - k \in Int
      BY <3>1, <2>1, <2>3
    <3>3. p - k \in {0, 1}
      BY <3>2, <2>2
    <3>4. p - k = 1 => (p - k) * w = w
      OBVIOUS
    <3> QED BY <3>2, <3>3, <3>4, <2>3 DEF y
  <2>6. q * (2 * w) \in {y, y + w}
    <3> DEFINE m == 2 * q - k
    <3>1. m \in Int /\ m * w = q * (2 * w) - y
      BY <2>4 DEF y
    <3> HIDE DEF m
    <3>2. 0 <= m * w /\ m * w < 2 * w
      BY <3>1, <2>1, <2>4
    <3>3. m \in {0, 1}
      BY <3>1, <3>2, <2>2
    <3>4. m * w \in {0, w}
      BY <3>3
    <3> DEFINE z == q * (2 * w)
               u == m * w
    <3>5. z \in Int /\ u \in {0, w} /\ u = z - y
      BY <3>1, <3>4, <2>4
    <3> HIDE DEF z, u
    <3>6. z \in {y, y + w}
      BY <3>5, <2>1
    <3> QED BY <3>6 DEF z
  <2> QED BY <2>5, <2>6 DEF y, p, q
<1>2. PICK k \in Nat : x = k * WORD
  BY DEF Words
<1>3. WORD \in Nat \ {0}
  BY HeapAssumption
<1>4. CASE al = WORD
  BY <1>1, <1>2, <1>3, <1>4 DEF AlignUp
<1>5. CASE al = 2 * WORD
  BY <1>1, <1>2, <1>3, <1>5 DEF AlignUp
<1> QED BY <1>4, <1>5

\* Rounding down gives no more.
LEMMA RoundedDown ==
  ASSUME NEW n \in Nat
  PROVE  AlignDown(n, WORD) \in Nat /\ AlignDown(n, WORD) <= n
<1>1. \A w \in Nat \ {0} : \A m \in Nat : (m \div w) * w \in Nat /\ (m \div w) * w <= m
  <2> SUFFICES ASSUME NEW w \in Nat \ {0}, NEW m \in Nat
               PROVE  (m \div w) * w \in Nat /\ (m \div w) * w <= m
    OBVIOUS
  <2> DEFINE q == m \div w
  <2>1. q \in Nat /\ q * w <= m
    OBVIOUS
  <2> HIDE DEF q
  <2>2. q * w \in Nat
    BY <2>1
  <2> QED BY <2>1, <2>2 DEF q
<1> QED BY <1>1, HeapAssumption DEF AlignDown

\* Sums and differences of words are words; a positive one is one word at least.
LEMMA WordSums ==
  ASSUME NEW x \in Nat, NEW y \in Nat, Words(x), Words(y)
  PROVE  /\ Words(x + y)
         /\ x >= y => Words(x - y)
         /\ x > 0 => x >= WORD
<1>1. WORD \in Nat \ {0}
  BY HeapAssumption
<1>2. PICK j \in Nat : x = j * WORD
  BY DEF Words
<1>3. PICK k \in Nat : y = k * WORD
  BY DEF Words
<1>4. x + y = (j + k) * WORD /\ x - y = (j - k) * WORD
  BY <1>1, <1>2, <1>3
<1>5. x >= y => j - k \in Nat
  <2> SUFFICES ASSUME j < k PROVE x < y
    BY <1>2, <1>3
  <2> DEFINE z == (k - j) * WORD
  <2>1. z \in Int /\ y = x + z /\ z > 0
    BY <1>1, <1>2, <1>3
  <2> HIDE DEF z
  <2> QED BY <2>1
<1>6. x > 0 => x >= WORD
  <2> SUFFICES ASSUME j # 0 PROVE x >= WORD
    BY <1>1, <1>2
  <2>1. x = WORD + (j - 1) * WORD /\ (j - 1) * WORD >= 0
    BY <1>1, <1>2
  <2> QED BY <2>1, <1>1
<1> QED BY <1>4, <1>5, <1>6 DEF Words

\* What is rounded up is a whole number of words, and so is the descriptor.
LEMMA WordSizes ==
  /\ \A n \in Nat : n % WORD = 0 => Words(n)
  /\ \A n \in Nat : Words(AlignUp(n, WORD))
  /\ Words(HDR)
<1>1. ASSUME NEW n \in Nat, n % WORD = 0 PROVE Words(n)
  <2>1. \A w \in Nat : w >= 1 => n \div w \in Nat /\ n - (n % w) = (n \div w) * w
    OBVIOUS
  <2>2. n \div WORD \in Nat /\ n = (n \div WORD) * WORD
    BY <2>1, <1>1, HeapAssumption
  <2> QED BY <2>2 DEF Words
<1>2. ASSUME NEW n \in Nat PROVE Words(AlignUp(n, WORD))
  <2>1. n + WORD - 1 \in Nat /\ WORD \in Nat \ {0}
    BY HeapAssumption
  <2>2. (n + WORD - 1) \div WORD \in Nat
    BY <2>1
  <2> QED BY <2>2 DEF Words, AlignUp
<1> QED BY <1>1, <1>2, HeapAssumption

-----------------------------------------------------------------------------
(* The ring                                                                *)

\* A node that is taken out is gone, and the others stay.
LEMMA Unlinked ==
  ASSUME NEW s \in Seq(Nat), Distinct(s), NEW h \in Members(s),
         NEW r, r = Unlink(s, h)
  PROVE  r \in Seq(Nat) /\ Distinct(r) /\ Members(r) = Members(s) \ {h}
<1> DEFINE k == CHOOSE i \in DOMAIN s : s[i] = h
           m == Len(s)
<1>1. m \in Nat /\ DOMAIN s = 1 .. m /\ \A i \in 1 .. m : s[i] \in Nat
  BY LenProperties, ElementOfSeq
<1>2. k \in 1 .. m /\ s[k] = h
  BY <1>1 DEF Members
<1>3. r = [i \in 1 .. m - 1 |-> IF i < k THEN s[i] ELSE s[i + 1]]
  BY DEF Unlink
<1> HIDE DEF k, m
<1>4. m - 1 \in Nat /\ DOMAIN r = 1 .. m - 1
  BY <1>1, <1>2, <1>3
<1>5. \A i \in 1 .. m - 1 : r[i] = IF i < k THEN s[i] ELSE s[i + 1]
  BY <1>3
<1>6. r \in Seq(Nat)
  <2>1. \A i \in 1 .. m - 1 : i \in 1 .. m /\ i + 1 \in 1 .. m
    BY <1>1
  <2>2. r \in [1 .. m - 1 -> Nat]
    BY <2>1, <1>1, <1>3
  <2> QED BY <2>2, <1>4, SeqDef
<1>7. \A i \in DOMAIN r : \E j \in DOMAIN s : j # k /\ r[i] = s[j] /\ i = IF j < k THEN j ELSE j - 1
  <2> SUFFICES ASSUME NEW i \in DOMAIN r
               PROVE  \E j \in DOMAIN s : j # k /\ r[i] = s[j] /\ i = IF j < k THEN j ELSE j - 1
    OBVIOUS
  <2>1. CASE i < k
    <3>1. i \in DOMAIN s /\ i # k
      BY <2>1, <1>1, <1>2, <1>4
    <3> QED BY <3>1, <2>1, <1>4, <1>5
  <2>2. CASE ~(i < k)
    <3>1. i + 1 \in DOMAIN s /\ i + 1 # k /\ ~(i + 1 < k) /\ i = (i + 1) - 1
      BY <2>2, <1>1, <1>2, <1>4
    <3> QED BY <3>1, <2>2, <1>4, <1>5
  <2> QED BY <2>1, <2>2
<1>8. Distinct(r)
  BY <1>1, <1>2, <1>4, <1>7 DEF Distinct
<1>9. ASSUME NEW j \in DOMAIN s, j # k PROVE \E i \in DOMAIN r : r[i] = s[j]
  <2>1. CASE j < k
    <3>1. j \in DOMAIN r
      BY <2>1, <1>1, <1>2, <1>4
    <3> QED BY <3>1, <2>1, <1>4, <1>5
  <2>2. CASE ~(j < k)
    <3>1. j - 1 \in DOMAIN r /\ ~(j - 1 < k) /\ (j - 1) + 1 = j
      BY <2>2, <1>1, <1>2, <1>4, <1>9
    <3> QED BY <3>1, <1>4, <1>5
  <2> QED BY <2>1, <2>2
<1>10. Members(r) = Members(s) \ {h}
  <2>1. ASSUME NEW x \in Members(r) PROVE x \in Members(s) \ {h}
    <3>1. PICK i \in DOMAIN r : x = r[i]
      BY <2>1 DEF Members
    <3>2. PICK j \in DOMAIN s : j # k /\ r[i] = s[j]
      BY <3>1, <1>7
    <3>3. s[j] # h
      BY <3>2, <1>1, <1>2 DEF Distinct
    <3> QED BY <3>1, <3>2, <3>3 DEF Members
  <2>2. ASSUME NEW x \in Members(s), x # h PROVE x \in Members(r)
    <3>1. PICK j \in DOMAIN s : x = s[j]
      BY <2>2 DEF Members
    <3>2. j # k
      BY <3>1, <2>2, <1>2
    <3> QED BY <3>1, <3>2, <1>9 DEF Members
  <2> QED BY <2>1, <2>2
<1> QED BY <1>6, <1>8, <1>10

\* A node that was not in the ring is linked in at one of the ends.
LEMMA LinkedIn ==
  ASSUME NEW s \in Seq(Nat), Distinct(s), NEW h \in Nat, h \notin Members(s),
         NEW size, NEW r, r = Link(s, h, size) \/ r = Append(s, h)
  PROVE  r \in Seq(Nat) /\ Distinct(r) /\ Members(r) = Members(s) \cup {h}
<1> DEFINE m == Len(s)
<1>1. m \in Nat /\ DOMAIN s = 1 .. m /\ \A i \in 1 .. m : s[i] \in Nat
  BY LenProperties, ElementOfSeq
<1>2. CASE r = Append(s, h)
  <2>1. /\ r \in Seq(Nat) /\ Len(r) = m + 1
        /\ \A i \in 1 .. m : r[i] = s[i]
        /\ r[m + 1] = h
    BY <1>2, AppendProperties
  <2>2. DOMAIN r = 1 .. m + 1
    BY <2>1, LenProperties
  <2> HIDE DEF m
  <2>3. DOMAIN r = DOMAIN s \cup {m + 1} /\ m + 1 \notin DOMAIN s
    BY <1>1, <2>2
  <2>4. \A i \in DOMAIN s : r[i] = s[i]
    BY <1>1, <2>1
  <2>5. Distinct(r)
    BY <2>1, <2>3, <2>4 DEF Distinct, Members
  <2>6. Members(r) = Members(s) \cup {h}
    BY <2>1, <2>3, <2>4 DEF Members
  <2> QED BY <2>1, <2>5, <2>6
<1>3. CASE r = <<h>> \o s
  <2>1. <<h>> \in Seq(Nat) /\ Len(<<h>>) = 1 /\ <<h>>[1] = h
    OBVIOUS
  <2>2. /\ r \in Seq(Nat) /\ Len(r) = 1 + m
        /\ \A i \in 1 .. 1 + m : r[i] = IF i <= 1 THEN <<h>>[i] ELSE s[i - 1]
    BY <1>3, <2>1, ConcatProperties
  <2>3. DOMAIN r = 1 .. 1 + m
    BY <2>2, LenProperties
  <2> HIDE DEF m
  <2>4. r[1] = h /\ 1 \in DOMAIN r
    BY <1>1, <2>1, <2>2, <2>3
  <2>5. \A i \in DOMAIN r : i # 1 => i - 1 \in DOMAIN s /\ r[i] = s[i - 1]
    BY <1>1, <2>2, <2>3
  <2>6. \A i \in DOMAIN s : i + 1 \in DOMAIN r /\ r[i + 1] = s[i]
    <3> SUFFICES ASSUME NEW i \in DOMAIN s PROVE i + 1 \in DOMAIN r /\ r[i + 1] = s[i]
      OBVIOUS
    <3>1. i + 1 \in 1 .. 1 + m /\ ~(i + 1 <= 1) /\ (i + 1) - 1 = i
      BY <1>1
    <3> QED BY <3>1, <2>2, <2>3
  <2>7. Distinct(r)
    <3> SUFFICES ASSUME NEW i \in DOMAIN r, NEW j \in DOMAIN r, r[i] = r[j] PROVE i = j
      BY DEF Distinct
    <3>1. i # 1 => r[i] \in Members(s)
      BY <2>5 DEF Members
    <3>2. j # 1 => r[j] \in Members(s)
      BY <2>5 DEF Members
    <3>3. CASE i # 1 /\ j # 1
      <4>1. s[i - 1] = s[j - 1] /\ i - 1 \in DOMAIN s /\ j - 1 \in DOMAIN s
        BY <3>3, <2>5
      <4>2. i - 1 = j - 1
        BY <4>1 DEF Distinct
      <4> QED BY <4>2, <2>3, <1>1
    <3> QED BY <3>1, <3>2, <3>3, <2>4
  <2>8. Members(r) = Members(s) \cup {h}
    <3>1. \A i \in DOMAIN r : r[i] \in Members(s) \cup {h}
      BY <2>4, <2>5 DEF Members
    <3>2. \A i \in DOMAIN s : s[i] \in Members(r)
      BY <2>6 DEF Members
    <3> QED BY <2>4, <3>1, <3>2 DEF Members
  <2> QED BY <2>2, <2>7, <2>8
<1> QED BY <1>2, <1>3 DEF Link

-----------------------------------------------------------------------------
(* Segments                                                                *)

\* The fields of a descriptor, and where its segment ends.
LEMMA SegmentIs ==
  ASSUME NEW d, Well(d), NEW h \in DOMAIN d
  PROVE  /\ HDR \in Nat /\ HDR > 0 /\ h \in Nat /\ h > 0 /\ d[h] \in Segment
         /\ d[h].left \in Nat /\ d[h].right \in Nat /\ d[h].avail \in Nat
         /\ d[h].off \in Nat /\ d[h].off >= HDR
         /\ EndOf(d, h) \in Nat /\ EndOf(d, h) = h + d[h].off + d[h].avail
         /\ h + HDR <= EndOf(d, h) /\ h < EndOf(d, h)
<1>1. HDR \in Nat /\ HDR > 0
  BY HeapAssumption
<1>2. h \in Nat /\ h > 0 /\ d[h] \in Segment
  BY DEF Well
<1>3. /\ d[h].left \in Nat /\ d[h].right \in Nat /\ d[h].avail \in Nat
      /\ d[h].off \in Nat /\ d[h].off >= HDR
  BY <1>2 DEF Segment
<1> QED BY <1>1, <1>2, <1>3 DEF EndOf

\* e is d with the tail n cut off segment h, which keeps need bytes.
SplitOf(d, e, h, need, n) ==
  /\ Well(e)
  /\ n \in Nat /\ n = h + d[h].off + need /\ n \notin DOMAIN d
  /\ DOMAIN e = DOMAIN d \cup {n}
  /\ e[n].left = h /\ e[n].right = d[h].right /\ e[n].off = HDR
  /\ e[n].avail = d[h].avail - need - HDR /\ e[n].avail > 0
  /\ e[h].left = d[h].left /\ e[h].right = n /\ e[h].off = d[h].off /\ e[h].avail = need
  /\ EndOf(e, n) = EndOf(d, h) /\ EndOf(e, h) = n
  /\ \A x \in DOMAIN d \ {h} :
       /\ e[x].right = d[x].right /\ e[x].off = d[x].off /\ e[x].avail = d[x].avail
       /\ e[x].left = IF x = d[h].right THEN n ELSE d[x].left
       /\ EndOf(e, x) = EndOf(d, x)

\* e is d with the right neighbour r of h absorbed by h.
MergeOf(d, e, h, r) ==
  /\ Well(e)
  /\ r \in DOMAIN d /\ h < r /\ r = EndOf(d, h)
  /\ DOMAIN e = DOMAIN d \ {r}
  /\ e[h].left = d[h].left /\ e[h].right = d[r].right /\ e[h].off = d[h].off
  /\ e[h].avail = d[h].avail + d[r].avail + d[r].off
  /\ EndOf(e, h) = EndOf(d, r)
  /\ \A x \in DOMAIN d \ {h, r} :
       /\ e[x].right = d[x].right /\ e[x].off = d[x].off /\ e[x].avail = d[x].avail
       /\ e[x].left = IF x = d[r].right THEN h ELSE d[x].left
       /\ EndOf(e, x) = EndOf(d, x)

\* e is d with the data of segment h moved to offset off, up to the same end.
MoveOf(d, e, h, off, avail) ==
  /\ Well(e)
  /\ DOMAIN e = DOMAIN d
  /\ off \in Nat /\ off >= HDR /\ avail \in Nat
  /\ e[h].left = d[h].left /\ e[h].right = d[h].right
  /\ e[h].off = off /\ e[h].avail = avail
  /\ EndOf(e, h) = EndOf(d, h)
  /\ \A x \in DOMAIN d \ {h} : e[x] = d[x] /\ EndOf(e, x) = EndOf(d, x)

\* Cutting a tail off a segment: the tail is a new segment, ends where the
\* segment ended, and nothing else moves.
LEMMA Split ==
  ASSUME NEW d, Well(d), NEW h \in DOMAIN d, NEW need \in Nat, HasTail(d, h, need),
         NEW e, e = CutTail(d, h, need),
         NEW n, n = TailOf(d, h, need)
  PROVE  SplitOf(d, e, h, need, n)
<1>1. /\ HDR \in Nat /\ HDR > 0 /\ h \in Nat /\ h > 0
      /\ d[h].left \in Nat /\ d[h].right \in Nat /\ d[h].avail \in Nat
      /\ d[h].off \in Nat /\ d[h].off >= HDR
      /\ EndOf(d, h) \in Nat /\ EndOf(d, h) = h + d[h].off + d[h].avail
      /\ d[h].avail - need > HDR
  BY SegmentIs DEF HasTail
<1>2. n = h + d[h].off + need /\ n \in Nat /\ h < n /\ n + HDR < EndOf(d, h)
  BY <1>1 DEF TailOf, DataOf
<1>3. ASSUME n \in DOMAIN d PROVE FALSE
  BY <1>1, <1>2, <1>3 DEF Well, Apart
<1>4. d[h].right # h /\ d[h].right # n
  BY <1>1, <1>2, <1>3 DEF Well, Agree
<1> DEFINE seg == [left |-> h, right |-> d[h].right, avail |-> TailSize(d, h, need), off |-> HDR]
<1>5. e = InsertRight(d, h, need, n, seg)
  BY DEF CutTail
<1>6. /\ DOMAIN e = DOMAIN d \cup {n}
      /\ e[n] = seg
      /\ e[h] = [d[h] EXCEPT !.right = n, !.avail = need]
      /\ \A x \in DOMAIN d \ {h} :
           e[x] = IF x = d[h].right THEN [d[x] EXCEPT !.left = n] ELSE d[x]
  BY <1>2, <1>3, <1>4, <1>5 DEF InsertRight
<1> HIDE DEF seg
<1>7. /\ e[n].left = h /\ e[n].right = d[h].right /\ e[n].off = HDR
      /\ e[n].avail = d[h].avail - need - HDR
  BY <1>6 DEF seg, TailSize
<1>8. /\ e[h].left = d[h].left /\ e[h].right = n /\ e[h].avail = need /\ e[h].off = d[h].off
  <2>1. d[h] \in Segment
    BY SegmentIs
  <2> QED BY <2>1, <1>6 DEF Segment
<1>9. \A x \in DOMAIN d \ {h} :
        /\ e[x].right = d[x].right /\ e[x].off = d[x].off /\ e[x].avail = d[x].avail
        /\ e[x].left = IF x = d[h].right THEN n ELSE d[x].left
  <2> SUFFICES ASSUME NEW x \in DOMAIN d \ {h}
               PROVE  /\ e[x].right = d[x].right /\ e[x].off = d[x].off /\ e[x].avail = d[x].avail
                      /\ e[x].left = IF x = d[h].right THEN n ELSE d[x].left
    OBVIOUS
  <2>1. d[x] \in Segment
    BY SegmentIs
  <2>2. CASE x = d[h].right
    BY <2>1, <2>2, <1>6 DEF Segment
  <2>3. CASE x # d[h].right
    BY <2>3, <1>6
  <2> QED BY <2>2, <2>3
<1>10. /\ EndOf(e, n) = EndOf(d, h) /\ EndOf(e, h) = n
       /\ \A x \in DOMAIN d \ {h} : EndOf(e, x) = EndOf(d, x)
  <2>1. EndOf(e, n) = n + HDR + (d[h].avail - need - HDR) /\ EndOf(e, h) = h + d[h].off + need
    BY <1>7, <1>8 DEF EndOf
  <2>2. \A x \in DOMAIN d \ {h} : EndOf(e, x) = EndOf(d, x)
    BY <1>9 DEF EndOf
  <2> QED BY <2>1, <2>2, <1>1, <1>2
<1>11. Well(e)
  <2>1. DOMAIN e \subseteq Nat \ {0}
    BY <1>1, <1>2, <1>6 DEF Well
  <2>2. \A x \in DOMAIN e : e[x] \in Segment
    <3>1. e[n] \in Segment
      <4>1. TailSize(d, h, need) \in Nat
        BY <1>1 DEF TailSize
      <4> HIDE DEF TailSize
      <4> QED BY <4>1, <1>1, <1>6 DEF Segment, seg
    <3>2. e[h] \in Segment
      <4>1. d[h] \in Segment
        BY DEF Well
      <4> QED BY <4>1, <1>2, <1>6 DEF Segment
    <3>3. ASSUME NEW x \in DOMAIN d \ {h} PROVE e[x] \in Segment
      <4>1. d[x] \in Segment
        BY DEF Well
      <4>2. CASE x = d[h].right
        BY <4>1, <4>2, <1>2, <1>6 DEF Segment
      <4>3. CASE x # d[h].right
        BY <4>1, <4>3, <1>6
      <4> QED BY <4>2, <4>3
    <3> QED BY <3>1, <3>2, <3>3, <1>6
  <2>3. Agree(e)
    <3> SUFFICES ASSUME NEW x \in DOMAIN e
                 PROVE  /\ e[x].right # 0 =>
                             /\ e[x].right \in DOMAIN e
                             /\ e[x].right = EndOf(e, x)
                             /\ e[e[x].right].left = x
                        /\ e[x].left # 0 =>
                             e[x].left \in DOMAIN e /\ e[e[x].left].right = x
      BY DEF Agree
    <3>1. CASE x = n
      <4>1. d[h].right # 0 => d[h].right \in DOMAIN d \ {h} /\ d[h].right = EndOf(d, h)
        BY <1>4 DEF Well, Agree
      <4>2. e[n].right # 0 => e[e[n].right].left = n
        BY <4>1, <1>7, <1>9
      <4> QED BY <4>1, <4>2, <3>1, <1>6, <1>7, <1>8, <1>10
    <3>2. CASE x = h
      <4>1. e[h].left # 0 => e[h].left \in DOMAIN d \ {h} /\ d[d[h].left].right = h
        BY <1>1, <1>4, <1>8 DEF Well, Agree
      <4> QED BY <4>1, <3>2, <1>2, <1>6, <1>7, <1>8, <1>9, <1>10
    <3>3. CASE x \in DOMAIN d \ {h}
      <4>1. /\ d[x].right # 0 =>
                 /\ d[x].right \in DOMAIN d
                 /\ d[x].right = EndOf(d, x)
                 /\ d[d[x].right].left = x
            /\ d[x].left # 0 =>
                 d[x].left \in DOMAIN d /\ d[d[x].left].right = x
        BY <3>3 DEF Well, Agree
      <4>2. d[x].right # 0 => d[x].right # d[h].right
        BY <4>1, <3>3, <1>1 DEF Well, Agree
      <4>3. d[x].right # 0 => e[d[x].right].left = x
        BY <4>1, <4>2, <1>8, <1>9
      <4>4. x # d[h].right /\ d[x].left # 0 => d[x].left # h
        BY <4>1, <3>3
      <4>5. CASE x = d[h].right
        BY <4>1, <4>3, <4>5, <3>3, <1>1, <1>2, <1>6, <1>7, <1>9, <1>10
      <4>6. CASE x # d[h].right
        BY <4>1, <4>3, <4>4, <4>6, <3>3, <1>6, <1>9, <1>10
      <4> QED BY <4>5, <4>6
    <3> QED BY <3>1, <3>2, <3>3, <1>6
  <2>4. Apart(e)
    <3> SUFFICES ASSUME NEW x \in DOMAIN e, NEW y \in DOMAIN e, x < y
                 PROVE  EndOf(e, x) <= y
      BY DEF Apart
    <3>0. x \in Nat /\ y \in Nat
      BY <2>1
    <3>1. CASE x = n
      <4>1. y \in DOMAIN d /\ h < y
        BY <3>0, <3>1, <1>1, <1>2, <1>6
      <4>2. EndOf(d, h) <= y
        BY <4>1 DEF Well, Apart
      <4> QED BY <3>1, <4>2, <1>10
    <3>2. CASE x = h
      <4>1. y = n \/ (y \in DOMAIN d /\ EndOf(d, h) <= y)
        BY <3>2, <1>6 DEF Well, Apart
      <4> QED BY <4>1, <3>0, <3>2, <1>1, <1>2, <1>10
    <3>3. CASE x \in DOMAIN d \ {h} /\ y = n
      <4>0. EndOf(d, x) \in Nat
        BY <3>3, SegmentIs
      <4>1. x < h \/ h < x
        BY <3>0, <3>3, <1>1
      <4>2. CASE x < h
        <5>1. EndOf(d, x) <= h
          BY <4>2, <3>3 DEF Well, Apart
        <5>2. EndOf(e, x) = EndOf(d, x)
          BY <3>3, <1>10
        <5> QED BY <5>1, <5>2, <4>0, <3>3, <1>1, <1>2
      <4>3. CASE h < x
        <5>1. EndOf(d, h) <= x
          BY <4>3, <3>3 DEF Well, Apart
        <5> QED BY <5>1, <3>0, <3>3, <1>1, <1>2
      <4> QED BY <4>1, <4>2, <4>3
    <3>4. CASE x \in DOMAIN d \ {h} /\ y \in DOMAIN d
      BY <3>4, <1>10 DEF Well, Apart
    <3> QED BY <3>1, <3>2, <3>3, <3>4, <1>6
  <2>5. e \in [DOMAIN e -> Segment]
    BY <2>2, <1>5 DEF InsertRight
  <2> QED BY <2>1, <2>3, <2>4, <2>5 DEF Well
<1>12. e[n].avail > 0
  BY <1>1, <1>7
<1> QED BY <1>2, <1>3, <1>6, <1>7, <1>8, <1>9, <1>10, <1>11, <1>12 DEF SplitOf

\* Absorbing the right neighbour: the segment ends where the neighbour ended,
\* and nothing else moves.
LEMMA Absorbed ==
  ASSUME NEW d, Well(d), NEW h \in DOMAIN d, d[h].right # 0,
         NEW r, r = d[h].right,
         NEW e, e = Absorb(d, h)
  PROVE  MergeOf(d, e, h, r)
<1>0. r \in DOMAIN d /\ r = EndOf(d, h) /\ d[r].left = h
  BY DEF Well, Agree
<1>1. /\ HDR \in Nat /\ HDR > 0 /\ h \in Nat /\ h > 0
      /\ d[h].left \in Nat /\ d[h].avail \in Nat /\ d[h].off \in Nat /\ d[h].off >= HDR
      /\ EndOf(d, h) = h + d[h].off + d[h].avail /\ h < EndOf(d, h)
  BY SegmentIs
<1>2. /\ r \in Nat /\ h < r
      /\ d[r].right \in Nat /\ d[r].avail \in Nat /\ d[r].off \in Nat
      /\ EndOf(d, r) = r + d[r].off + d[r].avail /\ r < EndOf(d, r)
  BY <1>0, <1>1, SegmentIs
<1>3. d[r].right # h /\ d[r].right # r
  BY <1>0, <1>1, <1>2 DEF Well, Agree
<1>4. /\ DOMAIN e = DOMAIN d \ {r}
      /\ e[h] = [d[h] EXCEPT !.right = d[r].right, !.avail = @ + d[r].avail + d[r].off]
      /\ \A x \in DOMAIN d \ {h, r} :
           e[x] = IF x = d[r].right THEN [d[x] EXCEPT !.left = h] ELSE d[x]
  BY <1>2, <1>3 DEF Absorb
<1>5. /\ e[h].left = d[h].left /\ e[h].right = d[r].right /\ e[h].off = d[h].off
      /\ e[h].avail = d[h].avail + d[r].avail + d[r].off
  <2>1. d[h] \in Segment
    BY DEF Well
  <2> QED BY <2>1, <1>1, <1>2, <1>4 DEF Segment
<1>6. \A x \in DOMAIN d \ {h, r} :
        /\ e[x].right = d[x].right /\ e[x].off = d[x].off /\ e[x].avail = d[x].avail
        /\ e[x].left = IF x = d[r].right THEN h ELSE d[x].left
  <2> SUFFICES ASSUME NEW x \in DOMAIN d \ {h, r}
               PROVE  /\ e[x].right = d[x].right /\ e[x].off = d[x].off /\ e[x].avail = d[x].avail
                      /\ e[x].left = IF x = d[r].right THEN h ELSE d[x].left
    OBVIOUS
  <2>1. d[x] \in Segment
    BY DEF Well
  <2>2. CASE x = d[r].right
    BY <2>1, <2>2, <1>4 DEF Segment
  <2>3. CASE x # d[r].right
    BY <2>3, <1>4
  <2> QED BY <2>2, <2>3
<1>7. /\ EndOf(e, h) = EndOf(d, r)
      /\ \A x \in DOMAIN d \ {h, r} : EndOf(e, x) = EndOf(d, x)
  <2>1. EndOf(e, h) = h + d[h].off + (d[h].avail + d[r].avail + d[r].off)
    BY <1>5 DEF EndOf
  <2>2. \A x \in DOMAIN d \ {h, r} : EndOf(e, x) = EndOf(d, x)
    BY <1>6 DEF EndOf
  <2> QED BY <2>1, <2>2, <1>0, <1>1, <1>2
<1>8. Well(e)
  <2>1. DOMAIN e \subseteq Nat \ {0}
    BY <1>4 DEF Well
  <2>2. \A x \in DOMAIN e : e[x] \in Segment
    <3>1. e[h] \in Segment
      <4>1. d[h] \in Segment /\ d[h].avail + d[r].avail + d[r].off \in Nat
        BY <1>1, <1>2 DEF Well
      <4> QED BY <4>1, <1>2, <1>4 DEF Segment
    <3>2. ASSUME NEW x \in DOMAIN d \ {h, r} PROVE e[x] \in Segment
      <4>1. d[x] \in Segment
        BY DEF Well
      <4>2. CASE x = d[r].right
        <5>1. e[x] = [d[x] EXCEPT !.left = h] /\ h \in Nat
          BY <4>2, <3>2, <1>1, <1>4
        <5> QED BY <4>1, <5>1 DEF Segment
      <4>3. CASE x # d[r].right
        BY <4>1, <4>3, <1>4
      <4> QED BY <4>2, <4>3
    <3> QED BY <3>1, <3>2, <1>4
  <2>3. Agree(e)
    <3> SUFFICES ASSUME NEW x \in DOMAIN e
                 PROVE  /\ e[x].right # 0 =>
                             /\ e[x].right \in DOMAIN e
                             /\ e[x].right = EndOf(e, x)
                             /\ e[e[x].right].left = x
                        /\ e[x].left # 0 =>
                             e[x].left \in DOMAIN e /\ e[e[x].left].right = x
      BY DEF Agree
    <3>1. CASE x = h
      <4>1. d[r].right # 0 =>
              d[r].right \in DOMAIN d \ {h, r} /\ d[r].right = EndOf(d, r)
        BY <1>0, <1>2, <1>3 DEF Well, Agree
      <4>2. d[h].left # 0 =>
              d[h].left \in DOMAIN d \ {h, r} /\ d[d[h].left].right = h
        BY <1>1, <1>2, <1>3 DEF Well, Agree
      <4>4. d[r].right # 0 => e[d[r].right].left = h
        BY <4>1, <1>6
      <4>5. d[h].left # 0 => d[h].left \in DOMAIN e /\ e[d[h].left].right = h
        BY <4>2, <1>4, <1>6
      <4> QED BY <4>1, <4>4, <4>5, <3>1, <1>4, <1>5, <1>7
    <3>2. CASE x \in DOMAIN d \ {h, r}
      <4>1. /\ d[x].right # 0 =>
                 /\ d[x].right \in DOMAIN d
                 /\ d[x].right = EndOf(d, x)
                 /\ d[d[x].right].left = x
            /\ d[x].left # 0 =>
                 d[x].left \in DOMAIN d /\ d[d[x].left].right = x
        BY <3>2 DEF Well, Agree
      <4>2. d[x].right # r /\ (d[x].right # 0 => d[x].right # d[r].right)
        BY <4>1, <3>2, <1>0, <1>2 DEF Well, Agree
      <4>3. d[x].right # 0 => e[d[x].right].left = x /\ d[x].right \in DOMAIN e
        <5> SUFFICES ASSUME d[x].right # 0
                     PROVE  e[d[x].right].left = x /\ d[x].right \in DOMAIN e
          OBVIOUS
        <5>1. d[x].right \in DOMAIN d \ {r} /\ d[d[x].right].left = x
          BY <4>1, <4>2
        <5>2. CASE d[x].right = h
          BY <5>1, <5>2, <1>4, <1>5
        <5>3. CASE d[x].right # h
          BY <5>1, <5>3, <4>2, <1>4, <1>6
        <5> QED BY <5>2, <5>3
      <4>4. x # d[r].right /\ d[x].left # 0 => d[x].left \notin {h, r}
        BY <4>1, <3>2
      <4>5. CASE x = d[r].right
        <5>1. e[x].left = h /\ h \in DOMAIN e /\ e[h].right = x
          BY <4>5, <3>2, <1>2, <1>4, <1>5, <1>6
        <5> QED BY <5>1, <4>1, <4>3, <3>2, <1>6, <1>7
      <4>6. CASE x # d[r].right
        BY <4>1, <4>3, <4>4, <4>6, <3>2, <1>4, <1>6, <1>7
      <4> QED BY <4>5, <4>6
    <3> QED BY <3>1, <3>2, <1>4
  <2>4. Apart(e)
    <3> SUFFICES ASSUME NEW x \in DOMAIN e, NEW y \in DOMAIN e, x < y
                 PROVE  EndOf(e, x) <= y
      BY DEF Apart
    <3>1. CASE x = h
      <4>1. y \in DOMAIN d /\ y # r /\ y \in Nat /\ h < y
        BY <3>1, <1>4, <2>1
      <4>2. EndOf(d, h) <= y
        BY <4>1 DEF Well, Apart
      <4>3. r < y
        BY <4>1, <4>2, <1>0, <1>2
      <4>4. EndOf(d, r) <= y
        BY <4>1, <4>3, <1>0 DEF Well, Apart
      <4> QED BY <4>4, <3>1, <1>7
    <3>2. CASE x # h
      BY <3>2, <1>4, <1>7 DEF Well, Apart
    <3> QED BY <3>1, <3>2
  <2>5. e \in [DOMAIN e -> Segment]
    BY <2>2 DEF Absorb
  <2> QED BY <2>1, <2>3, <2>4, <2>5 DEF Well
<1> QED BY <1>0, <1>2, <1>4, <1>5, <1>6, <1>7, <1>8 DEF MergeOf

\* Moving the start of a segment's data moves nothing else.
LEMMA Moved ==
  ASSUME NEW d, Well(d), NEW h \in DOMAIN d,
         NEW off \in Nat, off >= HDR, NEW avail \in Nat, h + off + avail = EndOf(d, h),
         NEW e, e = [d EXCEPT ![h].avail = avail, ![h].off = off]
  PROVE  MoveOf(d, e, h, off, avail)
<1>1. d[h] \in Segment /\ d \in [DOMAIN d -> Segment]
  BY DEF Well
<1>2. /\ DOMAIN e = DOMAIN d
      /\ e[h] = [d[h] EXCEPT !.avail = avail, !.off = off]
      /\ \A x \in DOMAIN d \ {h} : e[x] = d[x]
  BY <1>1
<1>3. /\ e[h].left = d[h].left /\ e[h].right = d[h].right
      /\ e[h].off = off /\ e[h].avail = avail /\ e[h] \in Segment
  BY <1>1, <1>2 DEF Segment
<1>4. EndOf(e, h) = EndOf(d, h) /\ \A x \in DOMAIN d \ {h} : EndOf(e, x) = EndOf(d, x)
  BY <1>2, <1>3 DEF EndOf
<1>5. \A x \in DOMAIN d : e[x].left = d[x].left /\ e[x].right = d[x].right /\ EndOf(e, x) = EndOf(d, x)
  BY <1>2, <1>3, <1>4
<1>6. Agree(e)
  <2> SUFFICES ASSUME NEW x \in DOMAIN d
               PROVE  /\ e[x].right # 0 =>
                           /\ e[x].right \in DOMAIN d
                           /\ e[x].right = EndOf(e, x)
                           /\ e[e[x].right].left = x
                      /\ e[x].left # 0 =>
                           e[x].left \in DOMAIN d /\ e[e[x].left].right = x
    BY <1>2 DEF Agree
  <2>1. /\ d[x].right # 0 =>
             /\ d[x].right \in DOMAIN d
             /\ d[x].right = EndOf(d, x)
             /\ d[d[x].right].left = x
        /\ d[x].left # 0 =>
             d[x].left \in DOMAIN d /\ d[d[x].left].right = x
    BY DEF Well, Agree
  <2> QED BY <2>1, <1>5
<1>7. Apart(e)
  BY <1>2, <1>5 DEF Well, Apart
<1>8. e \in [DOMAIN e -> Segment]
  <2>1. \A x \in DOMAIN e : e[x] \in Segment
    BY <1>1, <1>2, <1>3
  <2> QED BY <2>1
<1>9. Well(e)
  BY <1>2, <1>6, <1>7, <1>8 DEF Well
<1> QED BY <1>2, <1>3, <1>4, <1>9 DEF MoveOf

-----------------------------------------------------------------------------
(* Places                                                                  *)

\* What the assumption says of the setup a heap runs in.
LEMMA SetupIs ==
  ASSUME Setting
  PROVE  /\ HDR \in Nat /\ HDR > 0 /\ Len(Blocks) \in Nat
         /\ \A i \in 1 .. Len(Blocks) :
              /\ Blocks[i][1] \in Nat /\ Blocks[i][2] \in Nat
              /\ 0 < Blocks[i][1] /\ Blocks[i][1] + HDR < Blocks[i][2]
              /\ Words(Blocks[i][1]) /\ Words(Blocks[i][2])
              /\ Blocks[i][2] < AddrMod
         /\ \A i, j \in 1 .. Len(Blocks) : i < j => Blocks[i][2] < Blocks[j][1]
         /\ CtlSize \in Nat /\ Taken \in Nat /\ Taken >= CtlSize /\ Taken >= HDR
         /\ setup.sizes \subseteq Nat
         /\ added \in Nat /\ 1 .. added \subseteq 1 .. Len(Blocks)
<1>1. setup \in Setups /\ Blocks = setup.blocks /\ CtlSize = setup.ctlSize
  BY DEF Setting, Blocks, CtlSize
<1>2. Blocks \in Seq(Nat \X Nat)
  BY <1>1, HeapAssumption
<1>3. Len(Blocks) \in Nat /\ DOMAIN Blocks = 1 .. Len(Blocks)
  BY <1>2, LenProperties
<1>4. \A i \in 1 .. Len(Blocks) : Blocks[i] \in Nat \X Nat
  BY <1>2, ElementOfSeq
<1>5. \A i \in 1 .. Len(Blocks) : Blocks[i][1] \in Nat /\ Blocks[i][2] \in Nat
  BY <1>4
<1>6. \A i \in DOMAIN Blocks :
        /\ 0 < Blocks[i][1] /\ Blocks[i][1] + HDR < Blocks[i][2]
        /\ Blocks[i][1] % WORD = 0 /\ Blocks[i][2] % WORD = 0
        /\ Blocks[i][2] < AddrMod
  BY <1>1, HeapAssumption
<1>7. \A i, j \in DOMAIN Blocks : i < j => Blocks[i][2] < Blocks[j][1]
  BY <1>1, HeapAssumption
<1>8. CtlSize \in Nat /\ CtlSize >= HDR /\ HDR \in Nat /\ HDR > 0
  BY <1>1, HeapAssumption
<1>9. Taken \in Nat /\ Taken >= CtlSize
  BY <1>8, RoundedUp DEF Taken
<1>10. setup.sizes \subseteq Nat
  BY <1>1, HeapAssumption
<1>11. added \in Nat /\ 1 .. added \subseteq 1 .. Len(Blocks)
  <2>1. \A m \in Nat : \A k \in 0 .. m : k \in Nat /\ 1 .. k \subseteq 1 .. m
    OBVIOUS
  <2> QED BY <2>1, <1>3 DEF Setting
<1> HIDE DEF Blocks, Taken, CtlSize
<1>12. Taken >= HDR
  BY <1>8, <1>9
<1>13. \A i \in 1 .. Len(Blocks) :
         /\ Blocks[i][1] \in Nat /\ Blocks[i][2] \in Nat
         /\ 0 < Blocks[i][1] /\ Blocks[i][1] + HDR < Blocks[i][2]
         /\ Words(Blocks[i][1]) /\ Words(Blocks[i][2])
         /\ Blocks[i][2] < AddrMod
  BY <1>3, <1>5, <1>6, WordSizes
<1>14. \A i, j \in 1 .. Len(Blocks) : i < j => Blocks[i][2] < Blocks[j][1]
  BY <1>3, <1>7
<1> QED BY <1>3, <1>8, <1>9, <1>10, <1>11, <1>12, <1>13, <1>14

\* A part of a range is inside if the range is, ...
LEMMA InsidePart ==
  ASSUME Setting, NEW lo \in Nat, NEW hi \in Nat, Inside(lo, hi),
         NEW from \in Nat, NEW to \in Nat, lo <= from, to <= hi
  PROVE  Inside(from, to)
<1>1. PICK i \in 1 .. added : Blocks[i][1] <= lo /\ hi <= Blocks[i][2]
  BY DEF Inside
<1>2. Blocks[i][1] \in Nat /\ Blocks[i][2] \in Nat /\ Taken \in Nat
  BY SetupIs
<1>3. Blocks[i][1] <= from /\ to <= Blocks[i][2]
  BY <1>1, <1>2
<1>4. Booted => to <= reserved[1] \/ reserved[1] + Taken <= from
  BY <1>2 DEF Inside, Setting
<1> QED BY <1>3, <1>4 DEF Inside

\* ... and so are two ranges that meet: the blocks do not touch.
LEMMA InsideJoin ==
  ASSUME Setting, NEW lo \in Nat, NEW mid \in Nat, NEW hi \in Nat,
         Inside(lo, mid), Inside(mid, hi), lo < mid, mid < hi
  PROVE  Inside(lo, hi)
<1>1. PICK i \in 1 .. added : Blocks[i][1] <= lo /\ mid <= Blocks[i][2]
  BY DEF Inside
<1>2. PICK j \in 1 .. added : Blocks[j][1] <= mid /\ hi <= Blocks[j][2]
  BY DEF Inside
<1>3. /\ i \in 1 .. Len(Blocks) /\ j \in 1 .. Len(Blocks) /\ i \in Nat /\ j \in Nat
      /\ Blocks[i][1] \in Nat /\ Blocks[i][2] \in Nat
      /\ Blocks[j][1] \in Nat /\ Blocks[j][2] \in Nat
      /\ i < j => Blocks[i][2] < Blocks[j][1]
      /\ j < i => Blocks[j][2] < Blocks[i][1]
      /\ Taken \in Nat /\ Taken >= HDR /\ HDR \in Nat /\ HDR > 0
  BY SetupIs
<1>4. i = j
  <2>1. ~(i < j)
    BY <1>1, <1>2, <1>3
  <2>2. ~(j < i)
    BY <1>1, <1>2, <1>3
  <2> QED BY <2>1, <2>2, <1>3
<1>5. Booted => hi <= reserved[1] \/ reserved[1] + Taken <= lo
  <2> SUFFICES ASSUME Booted PROVE hi <= reserved[1] \/ reserved[1] + Taken <= lo
    OBVIOUS
  <2> DEFINE R == reserved[1]
  <2>1. R \in Nat
    BY DEF Setting
  <2>2. (mid <= R \/ R + Taken <= lo) /\ (hi <= R \/ R + Taken <= mid)
    BY DEF Inside
  <2> HIDE DEF R
  <2>3. hi <= R \/ R + Taken <= lo
    BY <2>1, <2>2, <1>3
  <2> QED BY <2>3 DEF R
<1> QED BY <1>1, <1>2, <1>4, <1>5 DEF Inside

\* A split leaves the segments in their places, ...
LEMMA SplitPlaced ==
  ASSUME Setting, NEW d, Well(d), Placed(d), NEW h \in DOMAIN d, NEW need \in Nat,
         NEW e, NEW n, SplitOf(d, e, h, need, n)
  PROVE  Placed(e)
<1>1. /\ Well(e) /\ n \in Nat /\ DOMAIN e = DOMAIN d \cup {n}
      /\ e[n].left = h /\ e[n].right = d[h].right
      /\ e[h].left = d[h].left /\ e[h].right = n
      /\ EndOf(e, n) = EndOf(d, h) /\ EndOf(e, h) = n
      /\ \A x \in DOMAIN d \ {h} :
           /\ e[x].right = d[x].right
           /\ e[x].left = IF x = d[h].right THEN n ELSE d[x].left
           /\ EndOf(e, x) = EndOf(d, x)
  BY DEF SplitOf
<1>2. h \in Nat /\ h > 0 /\ EndOf(d, h) \in Nat
  BY SegmentIs
<1>3. n > 0 /\ h <= n /\ n <= EndOf(d, h)
  <2>1. n \in DOMAIN e /\ h \in DOMAIN e
    BY <1>1
  <2>2. h < EndOf(e, h) /\ n < EndOf(e, n)
    BY <2>1, <1>1, SegmentIs
  <2> QED BY <2>2, <1>1, <1>2
<1>4. Inside(h, EndOf(d, h))
  BY DEF Placed
<1>5. Inside(n, EndOf(e, n)) /\ Inside(h, EndOf(e, h))
  <2>1. Inside(n, EndOf(d, h))
    BY <1>1, <1>2, <1>3, <1>4, InsidePart
  <2>2. Inside(h, n)
    BY <1>1, <1>2, <1>3, <1>4, InsidePart
  <2> QED BY <2>1, <2>2, <1>1
<1>6. d[h].right = 0 => EndsBlock(EndOf(e, n))
  BY <1>1 DEF Placed
<1>7. d[h].left = 0 => StartsBlock(h)
  BY DEF Placed
<1>8. ASSUME NEW x \in DOMAIN d \ {h}
      PROVE  /\ Inside(x, EndOf(e, x))
             /\ e[x].right = 0 => EndsBlock(EndOf(e, x))
             /\ e[x].left = 0 => StartsBlock(x)
  BY <1>1, <1>3 DEF Placed
<1> QED BY <1>1, <1>2, <1>3, <1>5, <1>6, <1>7, <1>8 DEF Placed

\* ... a merge, ...
LEMMA MergePlaced ==
  ASSUME Setting, NEW d, Well(d), Placed(d), NEW h \in DOMAIN d,
         NEW e, NEW r, MergeOf(d, e, h, r)
  PROVE  Placed(e)
<1>1. /\ Well(e) /\ r \in DOMAIN d /\ h < r /\ r = EndOf(d, h)
      /\ DOMAIN e = DOMAIN d \ {r}
      /\ e[h].left = d[h].left /\ e[h].right = d[r].right
      /\ EndOf(e, h) = EndOf(d, r)
      /\ \A x \in DOMAIN d \ {h, r} :
           /\ e[x].right = d[x].right
           /\ e[x].left = IF x = d[r].right THEN h ELSE d[x].left
           /\ EndOf(e, x) = EndOf(d, x)
  BY DEF MergeOf
<1>2. h \in Nat /\ h > 0 /\ r \in Nat /\ EndOf(d, r) \in Nat /\ r < EndOf(d, r)
  BY <1>1, SegmentIs
<1>3. Inside(h, r) /\ Inside(r, EndOf(d, r))
  BY <1>1 DEF Placed
<1>4. Inside(h, EndOf(e, h))
  BY <1>1, <1>2, <1>3, InsideJoin
<1>5. d[r].right = 0 => EndsBlock(EndOf(e, h))
  BY <1>1 DEF Placed
<1>6. d[h].left = 0 => StartsBlock(h)
  BY DEF Placed
<1>7. ASSUME NEW x \in DOMAIN d \ {h, r}
      PROVE  /\ Inside(x, EndOf(e, x))
             /\ e[x].right = 0 => EndsBlock(EndOf(e, x))
             /\ e[x].left = 0 => StartsBlock(x)
  BY <1>1, <1>2 DEF Placed
<1> QED BY <1>1, <1>4, <1>5, <1>6, <1>7 DEF Placed

\* ... and a move of the data of one.
LEMMA MovePlaced ==
  ASSUME NEW d, Placed(d), NEW h \in DOMAIN d,
         NEW e, NEW off, NEW avail, MoveOf(d, e, h, off, avail)
  PROVE  Placed(e)
<1>1. \A x \in DOMAIN d : e[x].left = d[x].left /\ e[x].right = d[x].right /\ EndOf(e, x) = EndOf(d, x)
  BY DEF MoveOf
<1>2. DOMAIN e = DOMAIN d
  BY DEF MoveOf
<1> QED BY <1>1, <1>2 DEF Placed

-----------------------------------------------------------------------------
(* Whole words                                                             *)

\* A size that callers may ask for where alignments are: it is not empty.
FitSize(need) == setup.alignments # {} => Words(need) /\ need > 0

\* A split leaves whole words, ...
LEMMA SplitShaped ==
  ASSUME NEW d, Well(d), Shaped(d), NEW h \in DOMAIN d, NEW need \in Nat, FitSize(need),
         NEW e, NEW n, SplitOf(d, e, h, need, n)
  PROVE  Shaped(e)
<1>1. /\ n \in Nat /\ n = h + d[h].off + need
      /\ DOMAIN e = DOMAIN d \cup {n}
      /\ e[n].off = HDR /\ e[n].avail = d[h].avail - need - HDR /\ e[n].avail > 0
      /\ e[h].off = d[h].off /\ e[h].avail = need
      /\ \A x \in DOMAIN d \ {h} : e[x].off = d[x].off /\ e[x].avail = d[x].avail
  BY DEF SplitOf
<1>2. CASE setup.alignments = {}
  BY <1>1, <1>2 DEF Shaped
<1>3. CASE setup.alignments # {}
  <2>1. \A x \in DOMAIN d : Words(x) /\ Words(d[x].off) /\ Words(d[x].avail) /\ d[x].avail > 0
    BY <1>3 DEF Shaped, Round
  <2>2. /\ h \in Nat /\ d[h].off \in Nat /\ d[h].avail \in Nat /\ HDR \in Nat /\ HDR > 0
        /\ Words(HDR) /\ Words(need) /\ need > 0
    BY <1>3, SegmentIs, WordSizes DEF FitSize
  <2>3. Words(n)
    <3>1. h + d[h].off \in Nat /\ Words(h + d[h].off)
      BY <2>1, <2>2, WordSums
    <3> QED BY <3>1, <2>2, <1>1, WordSums
  <2>4. Words(e[n].avail)
    <3>1. d[h].avail - need \in Nat /\ d[h].avail >= need /\ d[h].avail - need >= HDR
      BY <2>2, <1>1
    <3>2. Words(d[h].avail - need)
      BY <3>1, <2>1, <2>2, WordSums
    <3>3. Words((d[h].avail - need) - HDR)
      BY <3>1, <3>2, <2>2, WordSums
    <3> QED BY <3>3, <1>1
  <2>5. Round(e)
    BY <2>1, <2>2, <2>3, <2>4, <1>1 DEF Round
  <2> QED BY <2>5, <1>3 DEF Shaped
<1> QED BY <1>2, <1>3

\* ... and so does a merge ...
LEMMA MergeShaped ==
  ASSUME NEW d, Well(d), Shaped(d), NEW h \in DOMAIN d,
         NEW e, NEW r, MergeOf(d, e, h, r)
  PROVE  Shaped(e)
<1>1. /\ r \in DOMAIN d /\ h # r
      /\ DOMAIN e = DOMAIN d \ {r}
      /\ e[h].off = d[h].off /\ e[h].avail = d[h].avail + d[r].avail + d[r].off
      /\ \A x \in DOMAIN d \ {h, r} : e[x].off = d[x].off /\ e[x].avail = d[x].avail
  <2>1. h \in Nat
    BY SegmentIs
  <2> QED BY <2>1 DEF MergeOf
<1>2. CASE setup.alignments = {}
  BY <1>1, <1>2 DEF Shaped
<1>3. CASE setup.alignments # {}
  <2>1. \A x \in DOMAIN d : Words(x) /\ Words(d[x].off) /\ Words(d[x].avail) /\ d[x].avail > 0
    BY <1>3 DEF Shaped, Round
  <2>2. d[h].avail \in Nat /\ d[r].avail \in Nat /\ d[r].off \in Nat
    BY <1>1, SegmentIs
  <2>3. d[h].avail + d[r].avail \in Nat /\ Words(d[h].avail + d[r].avail)
    BY <2>1, <2>2, <1>1, WordSums
  <2>4. Words(e[h].avail) /\ e[h].avail > 0
    <3>1. Words((d[h].avail + d[r].avail) + d[r].off)
      BY <2>1, <2>2, <2>3, <1>1, WordSums
    <3>2. d[h].avail + d[r].avail + d[r].off > 0
      BY <2>1, <2>2
    <3> QED BY <3>1, <3>2, <1>1
  <2>5. Round(e)
    BY <2>1, <2>4, <1>1 DEF Round
  <2> QED BY <2>5, <1>3 DEF Shaped
<1> QED BY <1>2, <1>3

\* ... and a move by words of the data of a segment.
LEMMA MoveShaped ==
  ASSUME NEW d, Shaped(d), NEW h \in DOMAIN d,
         NEW e, NEW off, NEW avail, MoveOf(d, e, h, off, avail),
         setup.alignments = {} => off = HDR,
         setup.alignments # {} => Words(off) /\ Words(avail) /\ avail > 0
  PROVE  Shaped(e)
<1>1. /\ DOMAIN e = DOMAIN d /\ e[h].off = off /\ e[h].avail = avail
      /\ \A x \in DOMAIN d \ {h} : e[x] = d[x]
  BY DEF MoveOf
<1> QED BY <1>1 DEF Shaped, Round

-----------------------------------------------------------------------------
(* Owners                                                                  *)

\* Free segment h is given to a caller with need bytes, from off on; T is the
\* tail, if one was cut off.
CutFor(d, e, h, off, need, T) ==
  /\ DOMAIN e = DOMAIN d \cup T /\ T \cap DOMAIN d = {}
  /\ off \in Nat /\ off >= HDR /\ h + off <= EndOf(d, h)
  /\ e[h].off = off /\ e[h].avail >= need /\ e[h].avail \in Nat
  /\ \A x \in DOMAIN d \ {h} : e[x].off = d[x].off /\ e[x].avail = d[x].avail

GivenOut(own, own2, w, w2, h, off, need, T, top) ==
  LET a == h + off
      S == {x \in DOMAIN w : x \in DOMAIN own \/ ~(h < x /\ x < top)}
  IN  /\ own2 = [x \in DOMAIN own \cup {a} |-> IF x = a THEN need ELSE own[x]]
      /\ w2 = [x \in S \cup {a} |-> IF x = a THEN off ELSE IF x - HDR \in T THEN HDR ELSE w[x]]

\* The words of freed addresses from top on are left alone: top is behind the
\* descriptor of the tail, or behind the segment.
TopIs(d, h, off, T, top) ==
  \/ T = {} /\ top = EndOf(d, h) + 1
  \/ \E n \in Nat : T = {n} /\ top = n + HDR /\ h + off <= n /\ n + HDR <= EndOf(d, h)

\* An owner's address lies in the segment of its owner and in no other.
LEMMA AddressIn ==
  ASSUME NEW d, Well(d), NEW F, NEW own, NEW w, Owned(d, F, own, w),
         NEW b \in DOMAIN own, NEW h \in DOMAIN d, h # b - w[b]
  PROVE  b <= h \/ EndOf(d, h) < b
<1> DEFINE g == b - w[b]
<1>1. /\ g \in DOMAIN d /\ d[g].off = w[b] /\ b \in Nat /\ w[b] \in Nat
  BY DEF Owned
<1>2. /\ g \in Nat /\ d[g].off \in Nat /\ d[g].avail \in Nat /\ d[g].off > 0
      /\ EndOf(d, g) = g + d[g].off + d[g].avail
      /\ h \in Nat /\ EndOf(d, h) \in Nat
  <2>1. HDR \in Nat /\ HDR > 0
    BY SegmentIs
  <2> HIDE DEF g
  <2>2. /\ g \in Nat /\ d[g].off \in Nat /\ d[g].avail \in Nat /\ d[g].off >= HDR
        /\ EndOf(d, g) = g + d[g].off + d[g].avail
    BY <1>1, SegmentIs
  <2>3. h \in Nat /\ EndOf(d, h) \in Nat
    BY SegmentIs
  <2> QED BY <2>1, <2>2, <2>3
<1>3. b = g + d[g].off
  BY <1>1
<1>4. h # g
  OBVIOUS
<1> HIDE DEF g
<1>5. CASE g < h
  <2>1. EndOf(d, g) <= h
    BY <1>1, <1>5 DEF Well, Apart
  <2> QED BY <2>1, <1>1, <1>2, <1>3
<1>6. CASE h < g
  <2>1. EndOf(d, h) <= g
    BY <1>1, <1>6 DEF Well, Apart
  <2> QED BY <2>1, <1>1, <1>2, <1>3
<1> QED BY <1>2, <1>4, <1>5, <1>6

\* The caller is the only owner, and the freed addresses in it are forgotten.
LEMMA GivenOwned ==
  ASSUME NEW d, Well(d), NEW F, NEW own, NEW w, Owned(d, F, own, w),
         NEW h \in DOMAIN d, h \in F, NEW off, NEW need \in Nat,
         NEW e, NEW T, CutFor(d, e, h, off, need, T),
         NEW top, TopIs(d, h, off, T, top),
         NEW own2, NEW w2, GivenOut(own, own2, w, w2, h, off, need, T, top)
  PROVE  Owned(e, (F \ {h}) \cup T, own2, w2) /\ h + off \notin DOMAIN own
<1> DEFINE G == (F \ {h}) \cup T
           a == h + off
           S == {x \in DOMAIN w : x \in DOMAIN own \/ ~(h < x /\ x < top)}
<1> USE DEF CutFor
<1>1. /\ HDR \in Nat /\ HDR > 0 /\ h \in Nat /\ h > 0
      /\ EndOf(d, h) \in Nat /\ h + HDR <= EndOf(d, h)
      /\ off \in Nat /\ off >= HDR /\ a <= EndOf(d, h)
      /\ a \in Nat /\ a - off = h /\ h < a
  <2>1. /\ HDR \in Nat /\ HDR > 0 /\ h \in Nat /\ h > 0
        /\ EndOf(d, h) \in Nat /\ h + HDR <= EndOf(d, h)
    BY SegmentIs
  <2> QED BY <2>1
<1>2. a \notin DOMAIN own /\ DOMAIN own \subseteq S /\ S \subseteq DOMAIN w
  <2>1. ASSUME a \in DOMAIN own PROVE FALSE
    <3>1. h # a - w[a]
      BY <2>1 DEF Owned
    <3>2. a <= h \/ EndOf(d, h) < a
      BY <3>1, <2>1, AddressIn
    <3> QED BY <3>2, <1>1
  <2> QED BY <2>1 DEF Owned
<1>3. /\ DOMAIN own2 = DOMAIN own \cup {a} /\ own2[a] = need
      /\ \A b \in DOMAIN own : own2[b] = own[b]
  BY <1>2 DEF GivenOut
<1>4. /\ DOMAIN w2 = S \cup {a} /\ w2[a] = off
      /\ \A b \in S \ {a} : w2[b] = IF b - HDR \in T THEN HDR ELSE w[b]
  BY DEF GivenOut
<1>t. ASSUME NEW b \in DOMAIN own PROVE b - HDR \notin T
  <2>1. b \in Nat /\ h # b - w[b]
    BY DEF Owned
  <2>2. b <= h \/ EndOf(d, h) < b
    BY <2>1, AddressIn
  <2>3. ASSUME NEW n \in Nat, T = {n}, h + off <= n, n + HDR <= EndOf(d, h) PROVE b - HDR \notin T
    <3>1. b - HDR # n
      BY <1>1, <2>1, <2>2, <2>3
    <3> QED BY <2>3, <3>1
  <2> QED BY <2>3 DEF TopIs
<1>5. h \notin G /\ h \in DOMAIN e
  OBVIOUS
<1>6. DOMAIN own2 \subseteq DOMAIN w2 /\ DOMAIN w2 \subseteq Nat
  BY <1>1, <1>2, <1>3, <1>4 DEF Owned
<1>7. ASSUME NEW b \in DOMAIN own2
      PROVE  /\ own2[b] \in Nat /\ w2[b] \in Nat
             /\ b - w2[b] \in DOMAIN e \ G
             /\ e[b - w2[b]].off = w2[b]
             /\ own2[b] <= e[b - w2[b]].avail
  <2>1. CASE b = a
    BY <2>1, <1>1, <1>3, <1>4, <1>5
  <2>2. CASE b # a
    <3>1. b \in DOMAIN own /\ b \in S \ {a}
      BY <2>2, <1>2, <1>3
    <3>5. b - HDR \notin T
      BY <3>1, <1>t
    <3>2. /\ own[b] \in Nat /\ w[b] \in Nat /\ b - w[b] \in DOMAIN d \ F
          /\ d[b - w[b]].off = w[b] /\ own[b] <= d[b - w[b]].avail
      BY <3>1 DEF Owned
    <3>3. b - w[b] \in DOMAIN d \ {h}
      BY <3>2
    <3>4. own2[b] = own[b] /\ w2[b] = w[b]
      BY <3>1, <3>5, <1>3, <1>4
    <3> QED BY <3>2, <3>3, <3>4
  <2> QED BY <2>1, <2>2
<1>8. ASSUME NEW x \in DOMAIN e
      PROVE  x \in G \/ (x + e[x].off \in DOMAIN own2 /\ w2[x + e[x].off] = e[x].off)
  <2>1. CASE x = h
    BY <2>1, <1>3, <1>4
  <2>2. CASE x # h /\ x \notin G
    <3>1. x \in DOMAIN d \ {h} /\ x \notin F
      BY <2>2
    <3> DEFINE b == x + d[x].off
    <3>2. b \in DOMAIN own /\ w[b] = d[x].off
      BY <3>1 DEF Owned
    <3>3. e[x].off = d[x].off
      BY <3>1
    <3> HIDE DEF b
    <3>4. b \in DOMAIN own2 /\ w2[b] = w[b]
      BY <3>2, <1>2, <1>3, <1>4, <1>t
    <3> QED BY <3>2, <3>3, <3>4 DEF b
  <2> QED BY <2>1, <2>2
<1>9. ASSUME NEW b \in DOMAIN w2 \ DOMAIN own2
      PROVE  w2[b] = 0 \/ (w2[b] = HDR /\ b - HDR \in G)
  <2>1. /\ b \in S \ {a} /\ b \in DOMAIN w \ DOMAIN own /\ b \in Nat
        /\ w2[b] = IF b - HDR \in T THEN HDR ELSE w[b]
    BY <1>2, <1>3, <1>4 DEF Owned
  <2>2. ~(h < b /\ b < top)
    BY <2>1
  <2>4. h + HDR < top
    BY <1>1 DEF TopIs
  <2>3. b - HDR # h
    BY <2>1, <2>2, <2>4, <1>1
  <2>5. CASE b - HDR \in T
    BY <2>1, <2>5
  <2>6. CASE b - HDR \notin T
    BY <2>1, <2>3, <2>6 DEF Owned
  <2> QED BY <2>5, <2>6
<1> HIDE DEF G
<1>10. Owned(e, G, own2, w2)
  BY <1>6, <1>7, <1>8, <1>9 DEF Owned
<1> QED BY <1>2, <1>10 DEF G

\* The owner gives address a back.  The word before it may be remembered, and
\* then the data had no gap before it.
TakenBack(own, own2, w, w2, a) ==
  /\ own2 = [x \in DOMAIN own \ {a} |-> own[x]]
  /\ \E S \in {DOMAIN w, DOMAIN w \ {a}} :
       (a \in S => w[a] = HDR) /\ w2 = [x \in S |-> w[x]]

\* The segment is free then; nothing is merged yet.
LEMMA GivenBack ==
  ASSUME NEW d, Well(d), NEW F, NEW own, NEW w, Owned(d, F, own, w),
         NEW a \in DOMAIN own, NEW h, h = a - w[a],
         NEW own2, NEW w2, TakenBack(own, own2, w, w2, a)
  PROVE  Owned(d, F \cup {h}, own2, w2) /\ h \in DOMAIN d \ F
<1>1. /\ a \in Nat /\ w[a] \in Nat /\ \A b \in DOMAIN own : b \in Nat
      /\ h \in DOMAIN d \ F /\ d[h].off = w[a] /\ DOMAIN own \subseteq DOMAIN w
  BY DEF Owned
<1>0. PICK S \in {DOMAIN w, DOMAIN w \ {a}} :
        (a \in S => w[a] = HDR) /\ w2 = [x \in S |-> w[x]]
  BY DEF TakenBack
<1>2. /\ DOMAIN own2 = DOMAIN own \ {a} /\ \A b \in DOMAIN own2 : own2[b] = own[b]
      /\ DOMAIN w2 = S /\ \A b \in S : w2[b] = w[b]
      /\ S \subseteq DOMAIN w /\ DOMAIN own \ {a} \subseteq S
  BY <1>0, <1>1 DEF TakenBack
<1>3. DOMAIN own2 \subseteq DOMAIN w2 /\ DOMAIN w2 \subseteq Nat
  BY <1>2 DEF Owned
<1>4. ASSUME NEW b \in DOMAIN own2
      PROVE  /\ own2[b] \in Nat /\ w2[b] \in Nat
             /\ b - w2[b] \in DOMAIN d \ (F \cup {h})
             /\ d[b - w2[b]].off = w2[b]
             /\ own2[b] <= d[b - w2[b]].avail
  <2>1. b \in DOMAIN own /\ b # a /\ b \in Nat /\ w2[b] = w[b] /\ own2[b] = own[b]
    BY <1>1, <1>2, <1>3
  <2>2. /\ own[b] \in Nat /\ w[b] \in Nat /\ b - w[b] \in DOMAIN d \ F
        /\ d[b - w[b]].off = w[b] /\ own[b] <= d[b - w[b]].avail
    BY <2>1 DEF Owned
  <2>3. ASSUME b - w[b] = h PROVE FALSE
    <3>1. w[b] = w[a]
      BY <2>2, <2>3, <1>1
    <3> QED BY <3>1, <2>1, <2>2, <2>3, <1>1
  <2> QED BY <2>1, <2>2, <2>3
<1>5. ASSUME NEW x \in DOMAIN d
      PROVE  x \in F \cup {h} \/ (x + d[x].off \in DOMAIN own2 /\ w2[x + d[x].off] = d[x].off)
  <2> SUFFICES ASSUME x \notin F, x # h
               PROVE  x + d[x].off \in DOMAIN own2 /\ w2[x + d[x].off] = d[x].off
    OBVIOUS
  <2> DEFINE b == x + d[x].off
  <2>1. x \in Nat /\ d[x].off \in Nat
    BY SegmentIs
  <2>2. b \in DOMAIN own /\ w[b] = d[x].off
    BY DEF Owned
  <2>3. b # a
    BY <2>1, <2>2, <1>1
  <2> HIDE DEF b
  <2>4. b \in DOMAIN own2 /\ w2[b] = w[b]
    BY <2>2, <2>3, <1>2
  <2> QED BY <2>2, <2>4 DEF b
<1>6. ASSUME NEW b \in DOMAIN w2 \ DOMAIN own2
      PROVE  w2[b] = 0 \/ (w2[b] = HDR /\ b - HDR \in F \cup {h})
  <2>1. b \in S /\ w2[b] = w[b]
    BY <1>2
  <2>2. CASE b = a
    BY <2>1, <2>2, <1>0
  <2>3. CASE b # a
    BY <2>1, <2>3, <1>2 DEF Owned
  <2> QED BY <2>2, <2>3
<1> QED BY <1>1, <1>3, <1>4, <1>5, <1>6 DEF Owned

\* A free segment absorbs its free neighbour, whose descriptor is zeroed.
LEMMA MergeOwned ==
  ASSUME NEW d, Well(d), NEW G, NEW own, NEW w, Owned(d, G, own, w),
         NEW h \in DOMAIN d, h \in G, NEW e, NEW r, MergeOf(d, e, h, r), r \in G,
         NEW w2, w2 = ZeroedBy(w, d, r)
  PROVE  Owned(e, G \ {r}, own, w2)
<1>1. /\ r \in DOMAIN d /\ DOMAIN e = DOMAIN d \ {r}
      /\ \A x \in DOMAIN d \ {h, r} : e[x].off = d[x].off /\ e[x].avail = d[x].avail
  BY DEF MergeOf
<1>2. /\ HDR \in Nat /\ HDR > 0 /\ r \in Nat /\ d[r].off \in Nat /\ d[r].off >= HDR
      /\ EndOf(d, r) = r + d[r].off + d[r].avail /\ d[r].avail \in Nat
      /\ DOMAIN w \subseteq Nat /\ DOMAIN own \subseteq DOMAIN w
  <2>1. DOMAIN w \subseteq Nat /\ DOMAIN own \subseteq DOMAIN w
    BY DEF Owned
  <2> QED BY <2>1, <1>1, SegmentIs
<1>3. /\ DOMAIN w2 = DOMAIN w
      /\ \A b \in DOMAIN w : w2[b] = IF r < b /\ b <= r + d[r].off THEN 0 ELSE w[b]
  BY DEF ZeroedBy, DataOf
<1>4. ASSUME NEW b \in DOMAIN own
      PROVE  /\ w2[b] = w[b] /\ own[b] \in Nat /\ w[b] \in Nat
             /\ b - w[b] \in DOMAIN e \ (G \ {r})
             /\ e[b - w[b]].off = w[b]
             /\ own[b] <= e[b - w[b]].avail
  <2>1. /\ own[b] \in Nat /\ w[b] \in Nat /\ b - w[b] \in DOMAIN d \ G
        /\ d[b - w[b]].off = w[b] /\ own[b] <= d[b - w[b]].avail
    BY DEF Owned
  <2>2. b - w[b] \in DOMAIN d \ {h, r} /\ r # b - w[b]
    BY <2>1
  <2>3. b <= r \/ EndOf(d, r) < b
    BY <2>2, <1>1, AddressIn
  <2>4. ~(r < b /\ b <= r + d[r].off)
    BY <2>3, <1>2
  <2>5. w2[b] = w[b]
    BY <2>4, <1>2, <1>3
  <2> QED BY <2>1, <2>2, <2>5, <1>1
<1>5. ASSUME NEW x \in DOMAIN e
      PROVE  x \in G \ {r} \/ (x + e[x].off \in DOMAIN own /\ w2[x + e[x].off] = e[x].off)
  <2> SUFFICES ASSUME x \notin G
               PROVE  x + e[x].off \in DOMAIN own /\ w2[x + e[x].off] = e[x].off
    BY <1>1
  <2>1. x \in DOMAIN d \ {h, r}
    BY <1>1
  <2>2. x + d[x].off \in DOMAIN own /\ w[x + d[x].off] = d[x].off
    BY <2>1 DEF Owned
  <2> QED BY <2>1, <2>2, <1>1, <1>4
<1>6. ASSUME NEW b \in DOMAIN w2 \ DOMAIN own
      PROVE  w2[b] = 0 \/ (w2[b] = HDR /\ b - HDR \in G \ {r})
  <2>1. b \in Nat /\ b \in DOMAIN w \ DOMAIN own
    BY <1>2, <1>3
  <2>2. b - HDR = r => w2[b] = 0
    BY <2>1, <1>2, <1>3
  <2>3. w[b] = 0 \/ (w[b] = HDR /\ b - HDR \in G)
    BY <2>1 DEF Owned
  <2>4. w2[b] = 0 \/ w2[b] = w[b]
    BY <2>1, <1>3
  <2> QED BY <2>2, <2>3, <2>4
<1>7. DOMAIN own \subseteq DOMAIN w2 /\ DOMAIN w2 \subseteq Nat
  BY <1>2, <1>3
<1>8. \A b \in DOMAIN own :
        /\ own[b] \in Nat /\ w2[b] \in Nat
        /\ b - w2[b] \in DOMAIN e \ (G \ {r})
        /\ e[b - w2[b]].off = w2[b]
        /\ own[b] <= e[b - w2[b]].avail
  BY <1>4
<1> QED BY <1>5, <1>6, <1>7, <1>8 DEF Owned

\* Moving the data of a free segment concerns no owner.
LEMMA MoveOwned ==
  ASSUME NEW d, NEW G, NEW own, NEW w, Owned(d, G, own, w), NEW h \in DOMAIN d, h \in G,
         NEW e, NEW off, NEW avail, MoveOf(d, e, h, off, avail)
  PROVE  Owned(e, G, own, w)
<1>1. DOMAIN e = DOMAIN d /\ \A x \in DOMAIN d \ {h} : e[x] = d[x]
  BY DEF MoveOf
<1>2. \A x \in DOMAIN d \ G : e[x] = d[x]
  BY <1>1
<1>3. \A b \in DOMAIN own :
        /\ own[b] \in Nat /\ w[b] \in Nat
        /\ b - w[b] \in DOMAIN e \ G
        /\ e[b - w[b]].off = w[b]
        /\ own[b] <= e[b - w[b]].avail
  BY <1>1, <1>2 DEF Owned
<1>4. \A x \in DOMAIN e : x \in G \/ (x + e[x].off \in DOMAIN own /\ w[x + e[x].off] = e[x].off)
  BY <1>1, <1>2 DEF Owned
<1> QED BY <1>3, <1>4 DEF Owned

-----------------------------------------------------------------------------
(* The steps                                                               *)

\* Before boot there are no segments and no owners.
THEOREM HeapInitial == Init /\ Gentle => HeapInv
<1> SUFFICES ASSUME Init, Gentle PROVE HeapInv
  OBVIOUS
<1>1. /\ DOMAIN desc = {} /\ DOMAIN live = {} /\ DOMAIN offWord = {} /\ DOMAIN freeList = {}
      /\ setup \in Setups /\ added = 0 /\ reserved = <<>>
      /\ desc = <<>> /\ freeList = <<>>
  BY DEF Init
<1>2. Setting
  <2>1. setup.blocks \in Seq(Nat \X Nat)
    BY <1>1, HeapAssumption
  <2>2. Len(setup.blocks) \in Nat
    BY <2>1, LenProperties
  <2>3. 0 \in 0 .. Len(setup.blocks)
    BY <2>2
  <2> QED BY <1>1, <2>3 DEF Setting, Booted, Blocks
<1>3. Well(desc) /\ Placed(desc) /\ Shaped(desc)
  BY <1>1 DEF Well, Placed, Agree, Apart, Shaped, Round
<1>4. freeList \in Seq(Nat) /\ Distinct(freeList) /\ Members(freeList) = {}
  BY <1>1 DEF Distinct, Members
<1>5. Merged(desc, Members(freeList)) /\ Owned(desc, Members(freeList), live, offWord)
  BY <1>1, <1>4 DEF Merged, Owned
<1> QED BY <1>1, <1>2, <1>3, <1>4, <1>5 DEF HeapInv

\* Handing out free segment h: d is the heap with the data of h moved to off,
\* what is behind the bytes that are needed becomes a free segment.
HandsOut(d, h, off, avail, need) ==
  /\ MoveOf(desc, d, h, off, avail)
  /\ need \in Nat /\ need <= avail /\ FitSize(need)
  /\ setup.alignments = {} => off = HDR
  /\ setup.alignments # {} => Words(off) /\ Words(avail) /\ avail > 0
  /\ desc' = CutTail(d, h, need)
  /\ freeList' = LinkTail(Unlink(freeList, h), d, h, need)
  /\ Given(d, h, need)
  /\ UNCHANGED <<setup, added, reserved>>

\* Both forms of allocate() keep the invariant.
LEMMA HandOutStep ==
  ASSUME HeapInv, Booted, NEW h, h \in Members(freeList),
         NEW d, NEW off, NEW avail, NEW need, HandsOut(d, h, off, avail, need)
  PROVE  HeapInv' /\ h + off \notin DOMAIN live
<1> DEFINE F == Members(freeList)
           list == Unlink(freeList, h)
           T == IF HasTail(d, h, need) THEN {TailOf(d, h, need)} ELSE {}
<1>1. /\ Setting /\ Shaped(desc) /\ Well(desc) /\ Placed(desc)
      /\ freeList \in Seq(Nat) /\ Distinct(freeList) /\ F \subseteq DOMAIN desc
      /\ Merged(desc, F) /\ Owned(desc, F, live, offWord)
  BY DEF HeapInv
<1>2. /\ need \in Nat /\ need <= avail /\ FitSize(need)
      /\ UNCHANGED <<setup, added, reserved>>
      /\ h \in DOMAIN desc /\ h \in F /\ MoveOf(desc, d, h, off, avail)
      /\ desc' = CutTail(d, h, need) /\ freeList' = LinkTail(list, d, h, need)
  BY <1>1 DEF HandsOut
<1>3. /\ Well(d) /\ DOMAIN d = DOMAIN desc /\ h \in DOMAIN d
      /\ off \in Nat /\ off >= HDR /\ avail \in Nat
      /\ d[h].left = desc[h].left /\ d[h].right = desc[h].right
      /\ d[h].off = off /\ d[h].avail = avail
      /\ EndOf(d, h) = EndOf(desc, h)
      /\ \A x \in DOMAIN desc \ {h} : d[x] = desc[x] /\ EndOf(d, x) = EndOf(desc, x)
  BY <1>2 DEF MoveOf
<1>4. Placed(d)
  BY <1>1, <1>2, MovePlaced
<1>5. Shaped(d)
  BY <1>1, <1>2, MoveShaped DEF HandsOut
<1>6. list \in Seq(Nat) /\ Distinct(list) /\ Members(list) = F \ {h}
  BY <1>1, <1>2, Unlinked
<1>7. h + off <= EndOf(desc, h)
  <2>1. EndOf(d, h) = h + off + avail /\ h \in Nat
    BY <1>3, SegmentIs
  <2> QED BY <2>1, <1>3
<1> HIDE DEF F, list
<1>8. /\ Well(desc') /\ Placed(desc') /\ Shaped(desc')
      /\ CutFor(desc, desc', h, off, need, T)
      /\ freeList' \in Seq(Nat) /\ Distinct(freeList') /\ Members(freeList') = (F \ {h}) \cup T
      /\ Merged(desc', (F \ {h}) \cup T)
  <2>1. CASE HasTail(d, h, need)
    <3> DEFINE n == TailOf(d, h, need)
    <3>1. SplitOf(d, desc', h, need, n)
      BY <2>1, <1>2, <1>3, Split
    <3>2. T = {n} /\ freeList' = Link(list, n, TailSize(d, h, need))
      BY <2>1, <1>2 DEF LinkTail
    <3> HIDE DEF n, T
    <3>3. /\ Well(desc') /\ n \in Nat /\ n \notin DOMAIN desc
          /\ DOMAIN desc' = DOMAIN desc \cup {n}
          /\ desc'[n].right = desc[h].right /\ desc'[n].off = HDR
          /\ desc'[h].off = off /\ desc'[h].avail = need
          /\ \A x \in DOMAIN desc \ {h} :
               /\ desc'[x].right = desc[x].right
               /\ desc'[x].off = desc[x].off /\ desc'[x].avail = desc[x].avail
      BY <3>1, <1>3 DEF SplitOf
    <3>4. Placed(desc')
      BY <3>1, <1>1, <1>2, <1>3, <1>4, SplitPlaced
    <3>5. Shaped(desc')
      BY <3>1, <1>2, <1>3, <1>5, SplitShaped
    <3>6. CutFor(desc, desc', h, off, need, T)
      BY <3>2, <3>3, <1>2, <1>3, <1>7 DEF CutFor
    <3>7. freeList' \in Seq(Nat) /\ Distinct(freeList') /\ Members(freeList') = (F \ {h}) \cup T
      <4>1. n \in Nat /\ n \notin Members(list)
        BY <3>3, <1>1, <1>6
      <4>2. freeList' \in Seq(Nat) /\ Distinct(freeList') /\ Members(freeList') = Members(list) \cup {n}
        BY <4>1, <3>2, <1>6, LinkedIn
      <4> QED BY <4>2, <3>2, <1>6
    <3>8. Merged(desc', (F \ {h}) \cup {n})
      <4>1. ASSUME NEW x \in DOMAIN desc', x \in (F \ {h}) \cup {n} PROVE desc'[x].off = HDR
        BY <4>1, <3>3, <1>1 DEF Merged
      <4>2. ASSUME NEW x \in DOMAIN desc', desc'[x].right # 0,
                   x \in (F \ {h}) \cup {n}, desc'[x].right \in (F \ {h}) \cup {n}
            PROVE  FALSE
        <5>1. CASE x = n
          <6>1. desc[h].right # 0 /\ desc[h].right \in DOMAIN desc
            BY <5>1, <4>2, <3>3, <1>1, <1>2 DEF Well, Agree
          <6> QED BY <6>1, <5>1, <4>2, <3>3, <1>1, <1>2 DEF Merged
        <5>2. CASE x # n
          <6>1. x \in DOMAIN desc \ {h} /\ x \in F
            BY <5>2, <4>2, <3>3
          <6>2. desc[x].right # 0 /\ desc[x].right \in DOMAIN desc /\ desc[x].right = desc'[x].right
            BY <6>1, <4>2, <3>3, <1>1 DEF Well, Agree
          <6> QED BY <6>1, <6>2, <4>2, <3>3, <1>1 DEF Merged
        <5> QED BY <5>1, <5>2
      <4> QED BY <4>1, <4>2 DEF Merged
    <3> QED BY <3>2, <3>3, <3>4, <3>5, <3>6, <3>7, <3>8
  <2>2. CASE ~HasTail(d, h, need)
    <3>1. desc' = d /\ freeList' = list /\ T = {}
      BY <2>2, <1>2 DEF CutTail, LinkTail
    <3> HIDE DEF T
    <3>2. Merged(d, F \ {h})
      <4>1. \A x \in DOMAIN d : d[x].right = desc[x].right
        BY <1>3
      <4>2. \A x \in DOMAIN d : x \in F \ {h} => d[x].off = HDR
        BY <1>1, <1>3 DEF Merged
      <4> QED BY <4>1, <4>2, <1>1, <1>3 DEF Merged
    <3>3. CutFor(desc, d, h, off, need, {})
      BY <1>2, <1>3, <1>7 DEF CutFor
    <3> QED BY <3>1, <3>2, <3>3, <1>3, <1>4, <1>5, <1>6
  <2> QED BY <2>1, <2>2
<1> HIDE DEF T
<1>9. Owned(desc', (F \ {h}) \cup T, live', offWord') /\ h + off \notin DOMAIN live
  <2> DEFINE top == Beyond(d, h, need)
  <2>1. GivenOut(live, live', offWord, offWord', h, off, need, T, top)
    <3>1. Given(d, h, need) /\ T = Tails(d, h, need) /\ DataOf(d, h) = h + off /\ d[h].off = off
      BY <1>3 DEF HandsOut, Tails, T, DataOf
    <3> QED BY <3>1 DEF Given, GivenOut, StillStale
  <2>2. TopIs(desc, h, off, T, top)
    <3>1. h \in Nat /\ HDR \in Nat /\ EndOf(d, h) = h + off + avail
      BY <1>1, <1>2, <1>3, SegmentIs
    <3>2. CASE HasTail(d, h, need)
      <4>1. T = {h + off + need} /\ top = h + off + need + HDR /\ avail - need > HDR
        BY <3>2, <1>3 DEF T, Beyond, TailOf, DataOf, HasTail
      <4>2. h + off + need \in Nat /\ h + off <= h + off + need /\ h + off + need + HDR <= EndOf(desc, h)
        BY <3>1, <4>1, <1>2, <1>3
      <4> HIDE DEF top, T
      <4> QED BY <4>1, <4>2 DEF TopIs
    <3>3. CASE ~ HasTail(d, h, need)
      BY <3>3, <1>3 DEF T, Beyond, TopIs
    <3> QED BY <3>2, <3>3
  <2> HIDE DEF top
  <2> QED BY <2>1, <2>2, <1>1, <1>2, <1>8, GivenOwned
<1>10. Setting'
  BY <1>1, <1>2 DEF Setting, Gentle, MayDoubleFree, Blocks, Booted
<1>11. Placed(desc)'
  BY <1>2, <1>8 DEF Placed, Inside, StartsBlock, EndsBlock, Blocks, Booted, Taken, CtlSize
<1>12. Shaped(desc)'
  BY <1>2, <1>8 DEF Shaped, Round
<1>13. Members(freeList') \subseteq DOMAIN desc'
  BY <1>1, <1>8 DEF CutFor
<1> QED BY <1>8, <1>9, <1>10, <1>11, <1>12, <1>13 DEF HeapInv

\* allocate() hands out a free segment as it is.
LEMMA AllocateHands ==
  ASSUME HeapInv, NEW size \in setup.sizes, Allocate(size)
  PROVE  \E h, d, off, avail, need :
            h \in Members(freeList) /\ HandsOut(d, h, off, avail, need)
<1> DEFINE need == AlignUp(size, WORD)
           fits == {x \in DOMAIN desc : desc[x].avail >= need}
<1>1. PICK k \in DOMAIN freeList :
        /\ freeList[k] \in fits
        /\ desc' = CutTail(desc, freeList[k], need)
        /\ freeList' = LinkTail(Unlink(freeList, freeList[k]), desc, freeList[k], need)
        /\ Given(desc, freeList[k], need)
  BY DEF Allocate, IsFirstFit
<1> DEFINE h == freeList[k]
           off == desc[h].off
           avail == desc[h].avail
<1>2. /\ Setting /\ Shaped(desc) /\ Well(desc) /\ Merged(desc, Members(freeList))
  BY DEF HeapInv
<1>3. h \in Members(freeList) /\ h \in DOMAIN desc /\ avail >= need
  BY <1>1 DEF Members
<1>4. need \in Nat /\ FitSize(need)
  <2>1. size \in Nat /\ (setup.alignments # {} => size # 0)
    BY <1>2, SetupIs DEF Setting, Gentle
  <2>2. need \in Nat /\ need >= size /\ Words(need)
    BY <2>1, RoundedUp, WordSizes
  <2> HIDE DEF need
  <2> QED BY <2>1, <2>2 DEF FitSize
<1> HIDE DEF need, h
<1>5. off = HDR /\ off \in Nat /\ off >= HDR /\ avail \in Nat /\ h \in Nat
  <2>1. off \in Nat /\ off >= HDR /\ avail \in Nat /\ h \in Nat
    BY <1>2, <1>3, SegmentIs
  <2> QED BY <2>1, <1>2, <1>3 DEF Merged
<1>6. MoveOf(desc, desc, h, off, avail)
  BY <1>2, <1>3, <1>5 DEF MoveOf
<1>7. setup.alignments # {} => Words(off) /\ Words(avail) /\ avail > 0
  BY <1>2, <1>3 DEF Shaped, Round
<1>8. Given(desc, h, need)
  BY <1>1 DEF h
<1>9. need <= avail
  BY <1>3, <1>4, <1>5
<1>10. /\ desc' = CutTail(desc, h, need) /\ freeList' = LinkTail(Unlink(freeList, h), desc, h, need)
       /\ UNCHANGED <<setup, added, reserved>>
  BY <1>1 DEF h, Allocate
<1>11. HandsOut(desc, h, off, avail, need)
  BY <1>4, <1>5, <1>6, <1>7, <1>8, <1>9, <1>10 DEF HandsOut
<1> QED BY <1>3, <1>11

\* The aligned allocate() hands out a free segment whose data starts at most one
\* word later than before: no segment is cut off in front, and the size that is
\* left does not wrap around.
LEMMA AlignedHands ==
  ASSUME HeapInv, NEW size \in setup.sizes, NEW al \in setup.alignments,
         AllocateAligned(size, al)
  PROVE  \E h, d, off, avail, need :
            h \in Members(freeList) /\ HandsOut(d, h, off, avail, need)
<1> DEFINE need == AlignUp(size, WORD)
           fits == {x \in DOMAIN desc : AvailFrom(x, al) >= need}
<1>1. PICK k \in DOMAIN freeList :
        /\ freeList[k] \in fits
        /\ LET h == freeList[k]
               a == AlignedIn(h, al)
               n == AlignDown(a - HDR, WORD)
               front == n > DataOf(desc, h)
               node == IF front THEN n ELSE h
               d1 == IF front
                       THEN InsertRight(desc, h, n - DataOf(desc, h), n,
                              [left |-> h, right |-> desc[h].right,
                               avail |-> 0, off |-> HDR])
                       ELSE desc
               d2 == [d1 EXCEPT ![node].avail = AvailFrom(h, al),
                                ![node].off = a - node]
               list == IF front THEN freeList ELSE Unlink(freeList, h)
           IN  /\ desc' = CutTail(d2, node, need)
               /\ freeList' = LinkTail(list, d2, node, need)
               /\ Given(d2, node, need)
  BY DEF AllocateAligned, IsFirstFit
<1> DEFINE h == freeList[k]
           a == AlignedIn(h, al)
           off == a - h
           avail == AvailFrom(h, al)
           d == [desc EXCEPT ![h].avail = avail, ![h].off = off]
<1>2. /\ Setting /\ Shaped(desc) /\ Well(desc) /\ Placed(desc) /\ Merged(desc, Members(freeList))
      /\ setup.alignments # {}
  BY DEF HeapInv
<1>3. h \in Members(freeList) /\ h \in DOMAIN desc /\ avail >= need
  BY <1>1 DEF Members
<1>4. need \in Nat /\ FitSize(need) /\ al \in {WORD, 2 * WORD}
  <2>1. size \in Nat /\ size # 0 /\ al \in {WORD, 2 * WORD}
    BY <1>2, SetupIs DEF Setting, Gentle
  <2>2. need \in Nat /\ need >= size /\ Words(need)
    BY <2>1, RoundedUp, WordSizes
  <2> HIDE DEF need
  <2> QED BY <2>1, <2>2 DEF FitSize
<1>5. /\ desc[h].off = HDR /\ desc[h].avail \in Nat /\ h \in Nat /\ HDR \in Nat /\ HDR > 0
      /\ EndOf(desc, h) \in Nat /\ EndOf(desc, h) = h + HDR + desc[h].avail
      /\ WORD \in Nat /\ WORD > 0
      /\ Words(h) /\ Words(HDR) /\ Words(desc[h].avail) /\ desc[h].avail > 0
  <2> HIDE DEF h
  <2>1. desc[h].off = HDR
    BY <1>2, <1>3 DEF Merged
  <2>2. Words(h) /\ Words(HDR) /\ Words(desc[h].avail) /\ desc[h].avail > 0
    BY <1>2, <1>3, WordSizes DEF Shaped, Round
  <2> QED BY <2>1, <2>2, <1>2, <1>3, SegmentIs, HeapAssumption
<1> HIDE DEF need, h
<1>6. a \in {h + HDR, h + HDR + WORD} /\ DataOf(desc, h) = h + HDR
  <2>1. Words(h + HDR) /\ h + HDR \in Nat
    BY <1>5, WordSums
  <2>2. DataOf(desc, h) = h + HDR
    BY <1>5 DEF DataOf
  <2>3. AlignUp(h + HDR, al) \in {h + HDR, (h + HDR) + WORD}
    BY <2>1, <1>4, AlignedNear
  <2> QED BY <2>2, <2>3 DEF AlignedIn
<1>7. HDR >= WORD /\ desc[h].avail >= WORD
  BY <1>5, WordSums
<1>8. /\ a \in Nat /\ off \in Nat /\ off >= HDR /\ Words(off) /\ h + off = a
      /\ EndOf(desc, h) - a \in Nat /\ Words(EndOf(desc, h) - a)
  <2> HIDE DEF a
  <2>1. a \in Nat /\ off \in {HDR, HDR + WORD} /\ h + off = a
    BY <1>5, <1>6
  <2>2. Words(WORD) /\ Words(HDR + WORD)
    <3>1. WORD = 1 * WORD
      BY <1>5
    <3>2. Words(WORD)
      BY <3>1 DEF Words
    <3> QED BY <3>2, <1>5, WordSums
  <2>3. off \in Nat /\ off >= HDR /\ Words(off)
    BY <2>1, <2>2, <1>5
  <2> HIDE DEF off
  <2>4. EndOf(desc, h) - a \in {desc[h].avail, desc[h].avail - WORD}
    BY <2>1, <1>5, <1>6
  <2>5. Words(desc[h].avail - WORD) /\ desc[h].avail - WORD \in Nat
    <3>1. Words(desc[h].avail - WORD)
      BY <2>2, <1>5, <1>7, WordSums
    <3> QED BY <3>1, <1>5, <1>7
  <2>6. EndOf(desc, h) - a \in Nat /\ Words(EndOf(desc, h) - a)
    BY <2>4, <2>5, <1>5
  <2> QED BY <2>1, <2>3, <2>6
<1>9. avail = EndOf(desc, h) - a
  <2>1. EndOf(desc, h) < AddrMod /\ AddrMod \in Nat
    <3>1. PICK i \in 1 .. added : EndOf(desc, h) <= Blocks[i][2]
      BY <1>2, <1>3 DEF Placed, Inside
    <3>2. Blocks[i][2] \in Nat /\ Blocks[i][2] < AddrMod /\ AddrMod \in Nat
      BY <1>2, SetupIs, HeapAssumption
    <3> QED BY <3>1, <3>2, <1>5
  <2>2. \A m \in Nat : \A v \in Nat : v < m => v % m = v
    OBVIOUS
  <2> DEFINE v == EndOf(desc, h) - a
  <2> HIDE DEF a
  <2>3. v \in Nat /\ v < AddrMod
    BY <2>1, <1>5, <1>8
  <2> HIDE DEF v
  <2>4. v % AddrMod = v
    BY <2>1, <2>2, <2>3
  <2> QED BY <2>4 DEF v, a, AvailFrom
<1>10. ~(AlignDown(a - HDR, WORD) > DataOf(desc, h))
  <2> HIDE DEF a
  <2>1. a - HDR \in Nat /\ a - HDR <= h + HDR
    BY <1>5, <1>6, <1>7
  <2>2. AlignDown(a - HDR, WORD) \in Nat /\ AlignDown(a - HDR, WORD) <= a - HDR
    BY <2>1, RoundedDown
  <2> QED BY <2>1, <2>2, <1>5, <1>6
<1>11. /\ desc' = CutTail(d, h, need) /\ freeList' = LinkTail(Unlink(freeList, h), d, h, need)
       /\ Given(d, h, need)
  <2> HIDE DEF HasTail, AlignedIn, AvailFrom
  <2> QED BY <1>1, <1>10 DEF h
<1> HIDE DEF a, avail
<1>12. avail \in Nat /\ avail > 0 /\ Words(avail) /\ h + off + avail = EndOf(desc, h) /\ need <= avail
  <2>1. avail \in Nat /\ Words(avail)
    BY <1>8, <1>9
  <2>2. need > 0
    BY <1>2, <1>4 DEF FitSize
  <2> QED BY <2>1, <2>2, <1>3, <1>4, <1>5, <1>8, <1>9
<1>13. MoveOf(desc, d, h, off, avail)
  <2> HIDE DEF off
  <2> QED BY <1>2, <1>3, <1>8, <1>12, Moved
<1> HIDE DEF off, d
<1>14. Given(d, h, need) /\ UNCHANGED <<setup, added, reserved>>
  BY <1>8, <1>11 DEF AllocateAligned
<1>15. HandsOut(d, h, off, avail, need)
  BY <1>2, <1>4, <1>8, <1>11, <1>12, <1>13, <1>14 DEF HandsOut
<1> QED BY <1>3, <1>15

\* addHeapBlock() keeps the invariant: the new block lies behind the others.
LEMMA AddStep ==
  ASSUME HeapInv, AddHeapBlock
  PROVE  HeapInv'
<1> DEFINE F == Members(freeList)
           from == Blocks[added + 1][1]
           to == Blocks[added + 1][2]
           seg == [left |-> 0, right |-> 0, avail |-> to - from - HDR, off |-> HDR]
<1>1. /\ Setting /\ Shaped(desc) /\ Well(desc) /\ Placed(desc)
      /\ freeList \in Seq(Nat) /\ Distinct(freeList) /\ F \subseteq DOMAIN desc
      /\ Merged(desc, F) /\ Owned(desc, F, live, offWord)
  BY DEF HeapInv
<1>2. /\ added < Len(Blocks) /\ added' = added + 1
      /\ UNCHANGED <<setup, reserved, live, offWord, phantom>>
      /\ desc' = [x \in DOMAIN desc \cup {from} |-> IF x = from THEN seg ELSE desc[x]]
      /\ freeList' = Append(freeList, from)
  BY DEF AddHeapBlock
<1>3. /\ HDR \in Nat /\ HDR > 0 /\ Len(Blocks) \in Nat /\ added \in Nat
      /\ added + 1 \in 1 .. Len(Blocks)
      /\ from \in Nat /\ to \in Nat /\ 0 < from /\ from + HDR < to
      /\ \A i \in 1 .. added :
           /\ Blocks[i][1] \in Nat /\ Blocks[i][2] \in Nat /\ Blocks[i][2] < from
  <2>1. /\ HDR \in Nat /\ HDR > 0 /\ Len(Blocks) \in Nat /\ added \in Nat
        /\ \A i \in 1 .. Len(Blocks) :
             /\ Blocks[i][1] \in Nat /\ Blocks[i][2] \in Nat
             /\ 0 < Blocks[i][1] /\ Blocks[i][1] + HDR < Blocks[i][2]
        /\ \A i, j \in 1 .. Len(Blocks) : i < j => Blocks[i][2] < Blocks[j][1]
    BY <1>1, SetupIs
  <2>2. added + 1 \in 1 .. Len(Blocks)
    BY <2>1, <1>2
  <2>3. \A i \in 1 .. added : i \in 1 .. Len(Blocks) /\ i < added + 1
    BY <2>1, <1>2
  <2> QED BY <2>1, <2>2, <2>3
<1>4. ~Booted
  BY <1>1, <1>2, <1>3 DEF Setting
<1> HIDE DEF from, to
<1>5. \A h \in DOMAIN desc :
        /\ h \in Nat /\ h > 0
        /\ desc[h].left = 0 /\ desc[h].right = 0
        /\ EndOf(desc, h) \in Nat /\ h < EndOf(desc, h) /\ EndOf(desc, h) < from
  <2> SUFFICES ASSUME NEW h \in DOMAIN desc
               PROVE  /\ h \in Nat /\ h > 0
                      /\ desc[h].left = 0 /\ desc[h].right = 0
                      /\ EndOf(desc, h) \in Nat /\ h < EndOf(desc, h) /\ EndOf(desc, h) < from
    OBVIOUS
  <2>1. desc[h].left = 0 /\ desc[h].right = 0
    BY <1>1, <1>4 DEF Setting
  <2>0. h \in Nat /\ h > 0 /\ EndOf(desc, h) \in Nat /\ h < EndOf(desc, h)
    BY <1>1, SegmentIs
  <2>2. PICK i \in 1 .. added : EndOf(desc, h) <= Blocks[i][2]
    BY <1>1 DEF Placed, Inside
  <2> QED BY <2>0, <2>1, <2>2, <1>3
<1>6. from \notin DOMAIN desc
  BY <1>3, <1>5
<1>7. /\ DOMAIN desc' = DOMAIN desc \cup {from}
      /\ desc'[from] = seg
      /\ \A x \in DOMAIN desc : desc'[x] = desc[x]
  BY <1>2, <1>6
<1>8. /\ desc'[from].left = 0 /\ desc'[from].right = 0
      /\ desc'[from].off = HDR /\ desc'[from].avail = to - from - HDR
  BY <1>7
<1>9. /\ to - from - HDR \in Nat /\ EndOf(desc', from) = to
      /\ \A x \in DOMAIN desc : EndOf(desc', x) = EndOf(desc, x)
  <2>1. EndOf(desc', from) = from + HDR + (to - from - HDR)
    BY <1>8 DEF EndOf
  <2>2. \A x \in DOMAIN desc : EndOf(desc', x) = EndOf(desc, x)
    BY <1>7 DEF EndOf
  <2> QED BY <2>1, <2>2, <1>3
<1>10. Well(desc')
  <2>1. DOMAIN desc' \subseteq Nat \ {0}
    BY <1>1, <1>3, <1>7 DEF Well
  <2>2. desc' \in [DOMAIN desc' -> Segment]
    <3>1. seg \in Segment
      BY <1>9, <1>3 DEF Segment
    <3> HIDE DEF seg
    <3> QED BY <3>1, <1>1, <1>2 DEF Well
  <2>3. Agree(desc')
    BY <1>5, <1>7, <1>8 DEF Agree
  <2>4. Apart(desc')
    <3> SUFFICES ASSUME NEW x \in DOMAIN desc', NEW y \in DOMAIN desc', x < y
                 PROVE  EndOf(desc', x) <= y
      BY DEF Apart
    <3>1. CASE x = from
      <4>1. y \in DOMAIN desc \/ y = from
        BY <1>7
      <4>2. ASSUME y \in DOMAIN desc PROVE FALSE
        <5>1. y \in Nat /\ EndOf(desc, y) \in Nat /\ y < EndOf(desc, y) /\ EndOf(desc, y) < from
          BY <4>2, <1>5
        <5> QED BY <5>1, <3>1, <1>3
      <4> QED BY <4>1, <4>2, <3>1, <1>3
    <3>2. CASE x \in DOMAIN desc /\ y = from
      BY <3>2, <1>3, <1>5, <1>9
    <3>3. CASE x \in DOMAIN desc /\ y \in DOMAIN desc
      BY <3>3, <1>1, <1>9 DEF Well, Apart
    <3> QED BY <3>1, <3>2, <3>3, <1>7
  <2> QED BY <2>1, <2>2, <2>3, <2>4 DEF Well
<1>11. /\ freeList' \in Seq(Nat) /\ Distinct(freeList') /\ Members(freeList') = F \cup {from}
  <2>1. from \notin Members(freeList)
    BY <1>1, <1>6
  <2> QED BY <2>1, <1>1, <1>2, <1>3, LinkedIn
<1>12. Merged(desc', F \cup {from})
  BY <1>1, <1>5, <1>6, <1>7, <1>8 DEF Merged
<1>13. Owned(desc', F \cup {from}, live', offWord')
  <2>1. DOMAIN live = {} /\ DOMAIN offWord = {} /\ live' = live /\ offWord' = offWord
    BY <1>1, <1>2, <1>4 DEF Setting
  <2>2. \A x \in DOMAIN desc' : x \in F \cup {from}
    BY <2>1, <1>1, <1>7 DEF Owned
  <2> QED BY <2>1, <2>2 DEF Owned
<1>14. Setting'
  <2>1. added' \in 0 .. Len(Blocks)
    BY <1>2, <1>3
  <2>2. \A h \in DOMAIN desc' : desc'[h].left = 0 /\ desc'[h].right = 0
    BY <1>5, <1>7, <1>8
  <2> QED BY <2>1, <2>2, <1>1, <1>2, <1>4 DEF Setting, Gentle, MayDoubleFree, Blocks, Booted
<1>15. Placed(desc)'
  <2>1. /\ Blocks' = Blocks /\ reserved' = reserved /\ ~Booted'
        /\ 1 .. added' = (1 .. added) \cup {added + 1}
    BY <1>2, <1>3, <1>4 DEF Blocks, Booted
  <2> SUFFICES ASSUME NEW h \in DOMAIN desc', NEW e, e = EndOf(desc', h)
               PROVE  /\ \E i \in 1 .. added' : Blocks[i][1] <= h /\ e <= Blocks[i][2]
                      /\ \E i \in 1 .. added' : e = Blocks[i][2]
                      /\ \E i \in 1 .. added' : h = Blocks[i][1]
    BY <2>1 DEF Placed, Inside, EndsBlock, StartsBlock
  <2>2. CASE h \in DOMAIN desc
    <3>1. e = EndOf(desc, h) /\ desc[h].left = 0 /\ desc[h].right = 0
      BY <2>2, <1>5, <1>9
    <3>2. /\ \E i \in 1 .. added : Blocks[i][1] <= h /\ e <= Blocks[i][2]
          /\ \E i \in 1 .. added : e = Blocks[i][2]
          /\ \E i \in 1 .. added : h = Blocks[i][1]
      BY <3>1, <2>2, <1>1, <1>4 DEF Placed, Inside, EndsBlock, StartsBlock
    <3> QED BY <3>2, <2>1
  <2>3. CASE h = from
    <3>1. e = to /\ h = Blocks[added + 1][1] /\ e = Blocks[added + 1][2]
      BY <2>3, <1>9 DEF from, to
    <3>2. added + 1 \in 1 .. added' /\ Blocks[added + 1][1] <= h /\ e <= Blocks[added + 1][2]
      BY <3>1, <2>1, <1>3 DEF from, to
    <3> QED BY <3>1, <3>2
  <2> QED BY <2>2, <2>3, <1>7
<1>16. Shaped(desc)'
  <2>1. Shaped(desc')
    <3>1. CASE setup.alignments = {}
      BY <3>1, <1>1, <1>7, <1>8 DEF Shaped
    <3>2. CASE setup.alignments # {}
      <4>1. Words(from) /\ Words(to) /\ Words(HDR)
        BY <1>1, <1>3, SetupIs, WordSizes DEF from, to
      <4>2. to >= from /\ to - from \in Nat /\ to - from >= HDR /\ to - from - HDR > 0
        BY <1>3
      <4>3. Words(to - from)
        BY <4>1, <4>2, <1>3, WordSums
      <4>4. Words((to - from) - HDR)
        BY <4>1, <4>2, <4>3, <1>3, WordSums
      <4>5. \A x \in DOMAIN desc :
              Words(x) /\ Words(desc[x].off) /\ Words(desc[x].avail) /\ desc[x].avail > 0
        BY <3>2, <1>1 DEF Shaped, Round
      <4>6. Round(desc')
        BY <4>1, <4>2, <4>4, <4>5, <1>7, <1>8 DEF Round
      <4> QED BY <4>6, <3>2 DEF Shaped
    <3> QED BY <3>1, <3>2
  <2> QED BY <2>1, <1>2 DEF Shaped, Round
<1> QED BY <1>7, <1>10, <1>11, <1>12, <1>13, <1>14, <1>15, <1>16, <1>1 DEF HeapInv

\* separateFreeBlock() keeps the invariant: it takes the front of a block that
\* is still whole.
LEMMA SeparateStep ==
  ASSUME HeapInv, SeparateFreeBlock
  PROVE  HeapInv'
<1> DEFINE F == Members(freeList)
           fits == {x \in DOMAIN desc : desc[x].avail + HDR > Taken}
<1>1. /\ Setting /\ Shaped(desc) /\ Well(desc) /\ Placed(desc)
      /\ freeList \in Seq(Nat) /\ Distinct(freeList) /\ F \subseteq DOMAIN desc
      /\ Merged(desc, F) /\ Owned(desc, F, live, offWord)
  BY DEF HeapInv
<1>2. /\ added = Len(Blocks) /\ ~Booted
      /\ UNCHANGED <<setup, added, live, offWord, phantom>>
  BY DEF SeparateFreeBlock
<1>3. PICK k \in DOMAIN freeList :
        /\ freeList[k] \in fits
        /\ LET h == freeList[k]
               rest == desc[h].avail + HDR - Taken
               n == h + Taken
               l == desc[h].left
               r == desc[h].right
           IN  /\ reserved' = <<h>>
               /\ desc' = [x \in (DOMAIN desc \ {h}) \cup (IF rest > HDR THEN {n} ELSE {}) |->
                             CASE rest > HDR /\ x = n ->
                                    [left |-> 0, right |-> r,
                                     avail |-> rest - HDR, off |-> HDR]
                               [] x # n /\ x = r ->
                                    [desc[x] EXCEPT !.left = IF rest > HDR THEN n ELSE 0]
                               [] x # n /\ x = l -> [desc[x] EXCEPT !.right = 0]
                               [] OTHER -> desc[x]]
               /\ freeList' = IF rest > HDR
                                THEN Link(Unlink(freeList, h), n, rest - HDR)
                                ELSE Unlink(freeList, h)
  BY DEF SeparateFreeBlock, IsFirstFit, Taken
<1> DEFINE h == freeList[k]
           rest == desc[h].avail + HDR - Taken
           n == h + Taken
           T == IF rest > HDR THEN {n} ELSE {}
           list == Unlink(freeList, h)
           seg == [left |-> 0, right |-> 0, avail |-> rest - HDR, off |-> HDR]
<1>4. /\ HDR \in Nat /\ HDR > 0 /\ Taken \in Nat /\ Taken >= HDR
  BY <1>1, SetupIs
<1>5. \A x \in DOMAIN desc :
        /\ x \in Nat /\ x > 0 /\ desc[x].avail \in Nat /\ desc[x].off = HDR
        /\ desc[x].left = 0 /\ desc[x].right = 0
        /\ EndOf(desc, x) \in Nat /\ EndOf(desc, x) = x + HDR + desc[x].avail
  <2> SUFFICES ASSUME NEW x \in DOMAIN desc
               PROVE  /\ x \in Nat /\ x > 0 /\ desc[x].avail \in Nat /\ desc[x].off = HDR
                      /\ desc[x].left = 0 /\ desc[x].right = 0
                      /\ EndOf(desc, x) \in Nat /\ EndOf(desc, x) = x + HDR + desc[x].avail
    OBVIOUS
  <2>1. desc[x].left = 0 /\ desc[x].right = 0 /\ DOMAIN live = {}
    BY <1>1, <1>2 DEF Setting
  <2>2. x \in F
    BY <2>1, <1>1 DEF Owned
  <2>3. desc[x].off = HDR
    BY <2>2, <1>1 DEF Merged
  <2> QED BY <2>1, <2>3, <1>1, SegmentIs
<1>6. h \in DOMAIN desc /\ h \in F /\ desc[h].avail + HDR > Taken
  BY <1>3 DEF Members
<1>7. reserved' = <<h>> /\ freeList' = IF rest > HDR THEN Link(list, n, rest - HDR) ELSE list
  BY <1>3
<1>8. /\ DOMAIN desc' = (DOMAIN desc \ {h}) \cup T
      /\ \A x \in DOMAIN desc' : desc'[x] = IF rest > HDR /\ x = n THEN seg ELSE desc[x]
      /\ desc' = [x \in DOMAIN desc' |-> desc'[x]]
  <2>1. desc[h].left = 0 /\ desc[h].right = 0
    BY <1>5, <1>6
  <2>2. desc' = [x \in (DOMAIN desc \ {h}) \cup T |->
                   CASE rest > HDR /\ x = n -> seg
                     [] x # n /\ x = 0 -> [desc[x] EXCEPT !.left = IF rest > HDR THEN n ELSE 0]
                     [] x # n /\ x = 0 -> [desc[x] EXCEPT !.right = 0]
                     [] OTHER -> desc[x]]
    BY <2>1, <1>3
  <2>3. \A x \in (DOMAIN desc \ {h}) \cup T : x # 0
    BY <1>4, <1>5, <1>6
  <2> HIDE DEF h, rest, n, T, seg
  <2> QED BY <2>2, <2>3
<1>9. list \in Seq(Nat) /\ Distinct(list) /\ Members(list) = F \ {h}
  BY <1>1, <1>6, Unlinked
<1>10. rest \in Nat /\ rest > 0 /\ n \in Nat /\ n > h /\ n + rest = EndOf(desc, h)
  BY <1>4, <1>5, <1>6
<1>25. rest = (desc[h].avail + HDR) - Taken
  BY <1>4, <1>5, <1>6
<1> HIDE DEF h, rest, n, list, F
<1>11. n \notin DOMAIN desc
  <2>1. ASSUME n \in DOMAIN desc PROVE EndOf(desc, h) <= n
    BY <2>1, <1>1, <1>6, <1>10 DEF Well, Apart
  <2> QED BY <2>1, <1>4, <1>5, <1>6, <1>10
<1>12. /\ \A x \in DOMAIN desc \ {h} : desc'[x] = desc[x]
       /\ rest > HDR => desc'[n] = seg
  BY <1>8, <1>11
<1>13. rest > HDR => /\ desc'[n].left = 0 /\ desc'[n].right = 0
                     /\ desc'[n].avail = rest - HDR /\ desc'[n].off = HDR
                     /\ EndOf(desc', n) = EndOf(desc, h)
                     /\ desc'[n] \in Segment
  <2> SUFFICES ASSUME rest > HDR
               PROVE  /\ seg.left = 0 /\ seg.right = 0
                      /\ seg.avail = rest - HDR /\ seg.off = HDR
                      /\ n + seg.off + seg.avail = EndOf(desc, h)
                      /\ seg \in Segment
    BY <1>12 DEF EndOf
  <2>1. rest - HDR \in Nat /\ n + HDR + (rest - HDR) = EndOf(desc, h)
    BY <1>4, <1>5, <1>6, <1>10
  <2> QED BY <2>1, <1>4 DEF Segment
<1>0. \A x \in DOMAIN desc \ {h} : EndOf(desc', x) = EndOf(desc, x)
  BY <1>12 DEF EndOf
<1> HIDE DEF seg
<1>14. \A x \in DOMAIN desc' :
         desc'[x].left = 0 /\ desc'[x].right = 0
  BY <1>5, <1>8, <1>12, <1>13
<1>15. \A x \in DOMAIN desc \ {h} :
         EndOf(desc, x) <= h \/ EndOf(desc, h) <= x
  <2> SUFFICES ASSUME NEW x \in DOMAIN desc \ {h}
               PROVE  EndOf(desc, x) <= h \/ EndOf(desc, h) <= x
    OBVIOUS
  <2>1. x < h \/ h < x
    BY <1>5, <1>6
  <2> QED BY <2>1, <1>1, <1>6 DEF Well, Apart
<1>16. Well(desc')
  <2>1. DOMAIN desc' \subseteq Nat \ {0}
    BY <1>5, <1>6, <1>8, <1>10
  <2>2. desc' \in [DOMAIN desc' -> Segment]
    <3>1. \A x \in DOMAIN desc \ {h} : desc'[x] \in Segment
      BY <1>1, <1>12 DEF Well
    <3>2. \A x \in DOMAIN desc' : desc'[x] \in Segment
      BY <3>1, <1>8, <1>13
    <3> QED BY <3>2, <1>8
  <2>3. Agree(desc')
    BY <1>14 DEF Agree
  <2>4. Apart(desc')
    <3> SUFFICES ASSUME NEW x \in DOMAIN desc', NEW y \in DOMAIN desc', x < y
                 PROVE  EndOf(desc', x) <= y
      BY DEF Apart
    <3>1. x \in Nat /\ y \in Nat
      BY <2>1
    <3>2. CASE x \in DOMAIN desc \ {h} /\ y \in DOMAIN desc \ {h}
      BY <3>2, <1>0, <1>1 DEF Well, Apart
    <3>3. CASE rest > HDR /\ x = n /\ y \in DOMAIN desc \ {h}
      <4>1. h < y
        BY <3>1, <3>3, <1>5, <1>6, <1>10
      <4>2. EndOf(desc, h) <= y
        BY <4>1, <3>3, <1>1, <1>6 DEF Well, Apart
      <4> QED BY <4>2, <3>3, <1>13
    <3>4. CASE rest > HDR /\ x \in DOMAIN desc \ {h} /\ y = n
      <4>1. EndOf(desc', x) = EndOf(desc, x) /\ EndOf(desc, x) \in Nat
        BY <3>4, <1>0, <1>5
      <4>2. EndOf(desc, x) <= h \/ EndOf(desc, h) <= x
        BY <3>4, <1>15
      <4>3. n < EndOf(desc, h) /\ h \in Nat /\ EndOf(desc, h) \in Nat
        BY <1>5, <1>6, <1>10
      <4> QED BY <4>1, <4>2, <4>3, <3>1, <3>4, <1>4, <1>10
    <3>5. x # y
      BY <3>1
    <3> QED BY <3>2, <3>3, <3>4, <3>5, <1>8
  <2> QED BY <2>1, <2>2, <2>3, <2>4 DEF Well
<1>17. /\ freeList' \in Seq(Nat) /\ Distinct(freeList') /\ Members(freeList') = (F \ {h}) \cup T
  <2>1. CASE rest > HDR
    <3>1. n \notin Members(list) /\ freeList' = Link(list, n, rest - HDR)
      BY <2>1, <1>1, <1>7, <1>9, <1>11
    <3>2. freeList' \in Seq(Nat) /\ Distinct(freeList') /\ Members(freeList') = Members(list) \cup {n}
      BY <3>1, <1>9, <1>10, LinkedIn
    <3> QED BY <3>2, <2>1, <1>9
  <2>2. CASE ~(rest > HDR)
    BY <2>2, <1>7, <1>9
  <2> QED BY <2>1, <2>2
<1>18. Merged(desc', (F \ {h}) \cup T)
  <2>1. \A x \in DOMAIN desc' : desc'[x].off = HDR
    BY <1>5, <1>8, <1>12, <1>13
  <2> QED BY <2>1, <1>14 DEF Merged
<1>19. Owned(desc', (F \ {h}) \cup T, live', offWord')
  <2>1. DOMAIN live = {} /\ DOMAIN offWord = {} /\ live' = live /\ offWord' = offWord
    BY <1>1, <1>2 DEF Setting
  <2>2. \A x \in DOMAIN desc' : x \in (F \ {h}) \cup T
    BY <2>1, <1>1, <1>8 DEF Owned
  <2> HIDE DEF T
  <2> QED BY <2>1, <2>2 DEF Owned
<1>20. reserved'[1] = h /\ Booted' /\ Blocks' = Blocks /\ Taken' = Taken /\ added' = added
  BY <1>2, <1>7 DEF Booted, Blocks, Taken, CtlSize
<1>21. Setting'
  <2>1. h \in Nat
    BY <1>5, <1>6
  <2> QED BY <2>1, <1>1, <1>2, <1>20 DEF Setting, Gentle, MayDoubleFree
<1>22. Placed(desc)'
  <2> SUFFICES ASSUME NEW x \in DOMAIN desc', NEW e, e = EndOf(desc', x)
               PROVE  /\ \E i \in 1 .. added : Blocks[i][1] <= x /\ e <= Blocks[i][2]
                      /\ e <= h \/ h + Taken <= x
                      /\ \E i \in 1 .. added : e = Blocks[i][2]
                      /\ \E i \in 1 .. added :
                           x = Blocks[i][1] \/ (h = Blocks[i][1] /\ x = Blocks[i][1] + Taken)
    BY <1>20 DEF Placed, Inside, EndsBlock, StartsBlock
  <2>1. \A y \in DOMAIN desc :
          /\ \E i \in 1 .. added : Blocks[i][1] <= y /\ EndOf(desc, y) <= Blocks[i][2]
          /\ \E i \in 1 .. added : EndOf(desc, y) = Blocks[i][2]
          /\ \E i \in 1 .. added : y = Blocks[i][1]
    BY <1>1, <1>2, <1>5 DEF Placed, Inside, EndsBlock, StartsBlock
  <2>2. CASE x \in DOMAIN desc \ {h}
    <3>1. e = EndOf(desc, x)
      BY <2>2, <1>0
    <3>2. e <= h \/ h + Taken <= x
      <4>1. h + Taken <= EndOf(desc, h) /\ h \in Nat /\ x \in Nat /\ EndOf(desc, h) \in Nat
        BY <2>2, <1>4, <1>5, <1>6, <1>10
      <4>2. e <= h \/ EndOf(desc, h) <= x
        BY <3>1, <2>2, <1>15
      <4> QED BY <4>1, <4>2, <1>4, <1>5, <1>6
    <3> QED BY <3>1, <3>2, <2>1, <2>2
  <2>3. CASE rest > HDR /\ x = n
    <3>1. e = EndOf(desc, h)
      BY <2>3, <1>13
    <3>2. h + Taken <= x /\ x = h + Taken /\ h \in Nat
      BY <2>3, <1>4, <1>5, <1>6 DEF n
    <3>3. PICK i \in 1 .. added : Blocks[i][1] <= h /\ e <= Blocks[i][2]
      BY <3>1, <2>1, <1>6
    <3>4. Blocks[i][1] \in Nat
      BY <1>1, SetupIs
    <3>5. Blocks[i][1] <= x
      BY <3>2, <3>3, <3>4, <1>4
    <3>6. \E j \in 1 .. added : h = Blocks[j][1] /\ x = Blocks[j][1] + Taken
      BY <3>2, <2>1, <1>6
    <3> QED BY <3>1, <3>2, <3>3, <3>5, <3>6, <2>1, <1>6
  <2> QED BY <2>2, <2>3, <1>8
<1>23. Members(freeList') \subseteq DOMAIN desc'
  BY <1>1, <1>8, <1>17
<1>24. Shaped(desc)'
  <2>1. CASE setup.alignments = {}
    BY <2>1, <1>2, <1>5, <1>8, <1>12, <1>13 DEF Shaped
  <2>2. CASE setup.alignments # {}
    <3>1. \A x \in DOMAIN desc :
            Words(x) /\ Words(desc[x].off) /\ Words(desc[x].avail) /\ desc[x].avail > 0
      BY <2>2, <1>1 DEF Shaped, Round
    <3>2. Words(HDR) /\ Words(Taken)
      BY <1>1, SetupIs, WordSizes DEF Taken
    <3>3. ASSUME rest > HDR PROVE Words(n) /\ Words(rest - HDR) /\ rest - HDR > 0
      <4>1. Words(n)
        BY <3>1, <3>2, <1>4, <1>5, <1>6, WordSums DEF n
      <4> DEFINE v == desc[h].avail
                 u == v + HDR
      <4>2. v \in Nat /\ Words(v) /\ u > Taken /\ rest = u - Taken
        <5>1. v \in Nat /\ Words(v)
          BY <3>1, <1>5, <1>6
        <5>2. u > Taken
          BY <1>6
        <5>3. rest = u - Taken
          BY <1>25
        <5> QED BY <5>1, <5>2, <5>3
      <4> HIDE DEF v
      <4>5. Words(u) /\ u \in Nat /\ u >= Taken
        <5>1. Words(u)
          BY <4>2, <3>2, <1>4, WordSums
        <5> QED BY <5>1, <4>2, <1>4
      <4> HIDE DEF u
      <4>3. Words(rest)
        BY <4>2, <4>5, <3>2, <1>4, WordSums
      <4>4. Words(rest - HDR)
        BY <4>3, <3>2, <3>3, <1>4, <1>10, WordSums
      <4> QED BY <4>1, <4>4, <3>3, <1>4, <1>10
    <3>4. \A x \in DOMAIN desc' :
            Words(x) /\ Words(desc'[x].off) /\ Words(desc'[x].avail) /\ desc'[x].avail > 0
      BY <3>1, <3>2, <3>3, <1>8, <1>12, <1>13
    <3> QED BY <3>4, <2>2, <1>2 DEF Shaped, Round
  <2> QED BY <2>1, <2>2
<1> QED BY <1>16, <1>17, <1>18, <1>19, <1>21, <1>22, <1>23, <1>24 DEF HeapInv

\* free() by the owner keeps the invariant: the segment is merged with its free
\* neighbours on both sides.
LEMMA FreeStep ==
  ASSUME HeapInv, NEW a \in DOMAIN live, Free(a)
  PROVE  HeapInv'
<1> DEFINE F == Members(freeList)
           h == a - offWord[a]
           S == IF MayDoubleFree THEN DOMAIN offWord ELSE DOMAIN offWord \ {a}
           words == [x \in S |-> offWord[x]]
<1>1. /\ Setting /\ Shaped(desc) /\ Well(desc) /\ Placed(desc)
      /\ freeList \in Seq(Nat) /\ Distinct(freeList) /\ F \subseteq DOMAIN desc
      /\ Merged(desc, F) /\ Owned(desc, F, live, offWord)
  BY DEF HeapInv
<1>2. /\ live' = [x \in DOMAIN live \ {a} |-> live[x]]
      /\ UNCHANGED <<setup, added, reserved, phantom>>
  BY DEF Free
<1>3. /\ h \in DOMAIN desc \ F /\ desc[h].off = offWord[a] /\ a \in Nat
      /\ HDR \in Nat /\ HDR > 0 /\ offWord[a] \in Nat /\ offWord[a] >= HDR
  <2>1. h \in DOMAIN desc \ F /\ desc[h].off = offWord[a] /\ a \in Nat
    BY <1>1 DEF Owned
  <2> HIDE DEF h
  <2> QED BY <2>1, <1>1, SegmentIs
<1>4. \A x : InFreeList(x) <=> x \in F
  BY DEF InFreeList, Members
<1>5. ~Refused(a)
  BY <1>3, <1>4 DEF Refused
<1>6. Release(h, words)
  BY <1>3, <1>5 DEF Free
<1>7. Owned(desc, F \cup {h}, live', words)
  <2>1. TakenBack(live, live', offWord, words, a)
    <3>1. MayDoubleFree => offWord[a] = HDR
      BY <1>1, <1>3 DEF Setting, Gentle, Shaped
    <3> QED BY <3>1, <1>2 DEF TakenBack
  <2>2. h = a - offWord[a]
    OBVIOUS
  <2> HIDE DEF words, h, F
  <2> QED BY <2>1, <2>2, <1>1, GivenBack
<1> DEFINE r == desc[h].right
           l == desc[h].left
           right == r # 0 /\ r \in F
           left == l # 0 /\ l \in F
           d1 == IF right THEN Absorb(desc, h) ELSE desc
           list1 == IF right THEN Unlink(freeList, r) ELSE freeList
           w1 == IF right THEN ZeroedBy(words, desc, r) ELSE words
           size == d1[h].avail + d1[h].off - HDR
           F1 == IF right THEN F \ {r} ELSE F
<1>8. IF left
        THEN desc' = Absorb(d1, l) /\ freeList' = list1 /\ offWord' = ZeroedBy(w1, d1, h)
        ELSE /\ desc' = [d1 EXCEPT ![h].avail = size, ![h].off = HDR]
             /\ freeList' = Link(list1, h, size)
             /\ offWord' = w1
  BY <1>4, <1>6 DEF Release
<1> HIDE DEF words, h, F
<1>9. /\ h \in Nat /\ h > 0 /\ r \in Nat /\ l \in Nat /\ r # h /\ l # h
  <2>1. h \in Nat /\ h > 0 /\ r \in Nat /\ l \in Nat /\ h < EndOf(desc, h)
    BY <1>1, <1>3, SegmentIs
  <2>2. r # h
    BY <2>1, <1>1, <1>3 DEF Well, Agree
  <2>3. l # h
    BY <2>1, <2>2, <1>1, <1>3 DEF Well, Agree
  <2> QED BY <2>1, <2>2, <2>3
\* With the right neighbour:
<1>10. /\ Well(d1) /\ Placed(d1) /\ Shaped(d1) /\ h \in DOMAIN d1 /\ d1[h].left = l
       /\ DOMAIN d1 = IF right THEN DOMAIN desc \ {r} ELSE DOMAIN desc
       /\ list1 \in Seq(Nat) /\ Distinct(list1) /\ Members(list1) = F1
       /\ F1 \subseteq DOMAIN d1 /\ h \notin F1
       /\ Owned(d1, F1 \cup {h}, live', w1)
       /\ \A x \in DOMAIN d1 : x \in F1 => d1[x].off = HDR
       /\ \A x \in DOMAIN d1 :
            d1[x].right # 0 /\ x \in F1 \cup {h} /\ d1[x].right \in F1 \cup {h} => d1[x].right = h
  <2>1. CASE right
    <3>1. d1 = Absorb(desc, h) /\ list1 = Unlink(freeList, r) /\ w1 = ZeroedBy(words, desc, r) /\ F1 = F \ {r}
      BY <2>1
    <3> HIDE DEF d1, list1, w1, F1
    <3>2. MergeOf(desc, d1, h, r)
      BY <3>1, <2>1, <1>1, <1>3, Absorbed
    <3>3. /\ Well(d1) /\ r \in DOMAIN desc /\ h < r
          /\ DOMAIN d1 = DOMAIN desc \ {r}
          /\ d1[h].left = l /\ d1[h].right = desc[r].right
          /\ \A x \in DOMAIN desc \ {h, r} : d1[x].right = desc[x].right /\ d1[x].off = desc[x].off
      BY <3>2 DEF MergeOf
    <3>4. Placed(d1) /\ Shaped(d1)
      BY <3>2, <1>1, <1>3, MergePlaced, MergeShaped
    <3>5. list1 \in Seq(Nat) /\ Distinct(list1) /\ Members(list1) = F \ {r}
      BY <3>1, <2>1, <1>1, Unlinked DEF F
    <3>6. Owned(d1, (F \cup {h}) \ {r}, live', w1)
      <4>1. h \in F \cup {h} /\ r \in F \cup {h}
        BY <2>1
      <4> QED BY <4>1, <3>1, <3>2, <1>1, <1>3, <1>7, MergeOwned
    <3>7. (F \cup {h}) \ {r} = F1 \cup {h}
      BY <3>1, <1>9
    <3>8. ASSUME NEW x \in DOMAIN d1, d1[x].right # 0,
                 x \in F1 \cup {h}, d1[x].right \in F1 \cup {h}
          PROVE  d1[x].right = h
      <4>1. CASE x = h
        BY <4>1, <3>1, <3>3, <3>8, <2>1, <1>1 DEF Merged
      <4>2. CASE x # h
        <5>1. x \in DOMAIN desc \ {h, r} /\ x \in F /\ d1[x].right = desc[x].right
          BY <4>2, <3>1, <3>3, <3>8
        <5> QED BY <5>1, <3>1, <3>8, <1>1 DEF Merged
      <4> QED BY <4>1, <4>2
    <3>9. ASSUME NEW x \in DOMAIN d1, x \in F1 PROVE d1[x].off = HDR
      BY <3>1, <3>3, <3>9, <1>1, <1>3 DEF Merged
    <3> QED BY <3>1, <3>3, <3>4, <3>5, <3>6, <3>7, <3>8, <3>9, <2>1, <1>1, <1>3, <1>9
  <2>2. CASE ~right
    <3>1. d1 = desc /\ list1 = freeList /\ w1 = words /\ F1 = F
      BY <2>2
    <3> HIDE DEF d1, list1, w1, F1
    <3>2. ASSUME NEW x \in DOMAIN desc, desc[x].right # 0,
                 x \in F \cup {h}, desc[x].right \in F \cup {h}
          PROVE  desc[x].right = h
      BY <3>2, <2>2, <1>1 DEF Merged
    <3>3. \A x \in DOMAIN desc : x \in F => desc[x].off = HDR
      BY <1>1 DEF Merged
    <3> QED BY <3>1, <3>2, <3>3, <2>2, <1>1, <1>3, <1>7 DEF F
  <2> QED BY <2>1, <2>2
<1> HIDE DEF d1, list1, w1, F1, size
\* With the left neighbour:
<1>11. /\ Well(desc') /\ Placed(desc') /\ Shaped(desc')
       /\ freeList' \in Seq(Nat) /\ Distinct(freeList') /\ Members(freeList') \subseteq DOMAIN desc'
       /\ Merged(desc', Members(freeList'))
       /\ Owned(desc', Members(freeList'), live', offWord')
  <2>1. CASE left
    <3>1. desc' = Absorb(d1, l) /\ freeList' = list1 /\ offWord' = ZeroedBy(w1, d1, h)
      BY <2>1, <1>8
    <3>2. l \in DOMAIN d1 /\ d1[l].right = h /\ l \in F1
      <4>1. l \in DOMAIN d1 /\ d1[l].right = h
        BY <2>1, <1>10 DEF Well, Agree
      <4> QED BY <4>1, <2>1, <1>10 DEF F1
    <3>3. h # 0
      BY <1>9
    <3>4. MergeOf(d1, desc', l, h)
      BY <3>1, <3>2, <3>3, <1>10, Absorbed
    <3>5. /\ Well(desc') /\ DOMAIN desc' = DOMAIN d1 \ {h}
          /\ desc'[l].right = d1[h].right
          /\ desc'[l].off = d1[l].off
          /\ \A x \in DOMAIN d1 \ {l, h} : desc'[x].right = d1[x].right /\ desc'[x].off = d1[x].off
      BY <3>4 DEF MergeOf
    <3>6. Placed(desc') /\ Shaped(desc')
      BY <3>2, <3>4, <1>1, <1>10, MergePlaced, MergeShaped
    <3>7. Owned(desc', (F1 \cup {h}) \ {h}, live', offWord')
      <4>1. l \in F1 \cup {h} /\ h \in F1 \cup {h}
        BY <3>2
      <4> QED BY <4>1, <3>1, <3>2, <3>4, <1>10, MergeOwned
    <3>8. (F1 \cup {h}) \ {h} = F1
      BY <1>10
    <3>9. Merged(desc', F1)
      <4>1. ASSUME NEW x \in DOMAIN desc', x \in F1 PROVE desc'[x].off = HDR
        <5>1. CASE x = l
          BY <5>1, <4>1, <3>2, <3>5, <1>10
        <5>2. CASE x # l
          BY <5>2, <4>1, <3>5, <1>10
        <5> QED BY <5>1, <5>2
      <4>2. ASSUME NEW x \in DOMAIN desc', desc'[x].right # 0,
                   x \in F1, desc'[x].right \in F1
            PROVE  FALSE
        <5>1. CASE x = l
          BY <5>1, <4>2, <3>2, <3>5, <1>10
        <5>2. CASE x # l
          BY <5>2, <4>2, <3>5, <1>10
        <5> QED BY <5>1, <5>2
      <4> QED BY <4>1, <4>2 DEF Merged
    <3> QED BY <3>1, <3>5, <3>6, <3>7, <3>8, <3>9, <1>10
  <2>2. CASE ~left
    <3>1. /\ desc' = [d1 EXCEPT ![h].avail = size, ![h].off = HDR]
          /\ freeList' = Link(list1, h, size) /\ offWord' = w1
      BY <2>2, <1>8
    <3>2. MoveOf(d1, desc', h, HDR, size)
      <4>1. /\ h \in Nat /\ d1[h].avail \in Nat /\ d1[h].off \in Nat /\ d1[h].off >= HDR
            /\ EndOf(d1, h) = h + d1[h].off + d1[h].avail
        BY <1>10, SegmentIs
      <4>2. size \in Nat /\ h + HDR + size = EndOf(d1, h)
        BY <4>1, <1>3 DEF size
      <4>3. HDR \in Nat /\ HDR >= HDR /\ Well(d1) /\ h \in DOMAIN d1
        BY <1>3, <1>10
      <4> QED BY <4>2, <4>3, <3>1, Moved
    <3>5. /\ Well(desc') /\ DOMAIN desc' = DOMAIN d1 /\ desc'[h].off = HDR
          /\ \A x \in DOMAIN d1 : desc'[x].right = d1[x].right
          /\ \A x \in DOMAIN d1 \ {h} : desc'[x] = d1[x]
      BY <3>2 DEF MoveOf
    <3>6. Placed(desc')
      BY <3>2, <1>10, MovePlaced
    <3>7. Shaped(desc')
      <4>1. ASSUME setup.alignments # {} PROVE Words(HDR) /\ Words(size) /\ size > 0
        <5> DEFINE v == d1[h].avail
                   o == d1[h].off
        <5>1. Words(v) /\ v > 0 /\ Words(o) /\ Words(HDR)
          BY <4>1, <1>10, WordSizes DEF Shaped, Round
        <5>2. v \in Nat /\ o \in Nat /\ o >= HDR
          BY <1>10, SegmentIs
        <5>3. size = v + o - HDR
          BY DEF size
        <5> HIDE DEF v, o
        <5>4. Words(v + o) /\ v + o \in Nat /\ v + o >= HDR
          <6>1. Words(v + o)
            BY <5>1, <5>2, WordSums
          <6> QED BY <6>1, <5>2, <1>3
        <5>5. Words((v + o) - HDR)
          BY <5>1, <5>4, <1>3, WordSums
        <5> QED BY <5>1, <5>2, <5>3, <5>5, <1>3
      <4> QED BY <4>1, <3>2, <1>10, MoveShaped
    <3>8. Owned(desc', F1 \cup {h}, live', offWord')
      <4>1. h \in F1 \cup {h}
        OBVIOUS
      <4> QED BY <4>1, <3>1, <3>2, <1>10, MoveOwned
    <3>3. freeList' \in Seq(Nat) /\ Distinct(freeList') /\ Members(freeList') = F1 \cup {h}
      BY <3>1, <1>9, <1>10, LinkedIn
    <3>4. Merged(desc', F1 \cup {h})
      <4>0. \A x \in DOMAIN d1 : x \in F1 \cup {h} => desc'[x].off = HDR
        BY <3>5, <1>10
      <4> SUFFICES ASSUME NEW x \in DOMAIN d1, d1[x].right # 0,
                          x \in F1 \cup {h}, d1[x].right \in F1 \cup {h}
                   PROVE  FALSE
        BY <4>0, <3>5 DEF Merged
      <4>1. d1[x].right = h
        BY <1>10
      <4>2. l = x
        BY <4>1, <1>10 DEF Well, Agree
      <4>3. l # 0
        BY <4>2, <1>10 DEF Well
      <4> QED BY <4>2, <4>3, <2>2, <1>9 DEF F1
    <3> QED BY <3>3, <3>4, <3>5, <3>6, <3>7, <3>8, <1>10
  <2> QED BY <2>1, <2>2
<1>12. Setting'
  BY <1>1, <1>2, <1>3 DEF Setting, Gentle, MayDoubleFree, Blocks, Booted
<1>13. Placed(desc)'
  BY <1>2, <1>11 DEF Placed, Inside, StartsBlock, EndsBlock, Blocks, Booted, Taken, CtlSize
<1>14. Shaped(desc)'
  BY <1>2, <1>11 DEF Shaped, Round
<1> QED BY <1>11, <1>12, <1>13, <1>14 DEF HeapInv

\* Every step keeps the invariant; a second free() of an address that is
\* StillStale is refused.
THEOREM HeapStep == HeapInv /\ [Next]_vars => HeapInv'
<1> SUFFICES ASSUME HeapInv, [Next]_vars PROVE HeapInv'
  OBVIOUS
<1>1. CASE AddHeapBlock
  BY <1>1, AddStep
<1>2. CASE SeparateFreeBlock
  BY <1>2, SeparateStep
<1>3. CASE \E n \in setup.sizes : Allocate(n)
  BY <1>3, AllocateHands, HandOutStep DEF Allocate
<1>8. CASE \E n \in setup.sizes, al \in setup.alignments : AllocateAligned(n, al)
  <2>1. PICK n \in setup.sizes, al \in setup.alignments : AllocateAligned(n, al)
    BY <1>8
  <2>2. Booted
    BY <2>1 DEF AllocateAligned
  <2>3. \E h, d, off, avail, need : h \in Members(freeList) /\ HandsOut(d, h, off, avail, need)
    BY <2>1, AlignedHands
  <2> QED BY <2>2, <2>3, HandOutStep
<1>4. CASE \E a \in DOMAIN live : Free(a)
  BY <1>4, FreeStep
<1>5. ASSUME UNCHANGED <<setup, added, reserved, desc, freeList, live, offWord>> PROVE HeapInv'
  <2>1. Setting'
    BY <1>5 DEF HeapInv, Setting, Gentle, MayDoubleFree, Blocks, Booted
  <2>2. Placed(desc)'
    BY <1>5 DEF HeapInv, Placed, Inside, StartsBlock, EndsBlock, Blocks, Booted, Taken, CtlSize
  <2>3. Shaped(desc)'
    BY <1>5 DEF HeapInv, Shaped, Round
  <2> QED BY <2>1, <2>2, <2>3, <1>5 DEF HeapInv
<1>6. CASE \E a \in DOMAIN offWord \ DOMAIN live : FreeAgain(a)
  <2>1. PICK a \in DOMAIN offWord \ DOMAIN live : FreeAgain(a)
    BY <1>6
  <2>2. Refused(a)
    <3>1. offWord[a] = 0 \/ (offWord[a] = HDR /\ a - HDR \in Members(freeList))
      BY DEF HeapInv, Owned
    <3>2. HDR \in Nat /\ HDR > 0
      BY HeapAssumption
    <3> QED BY <3>1, <3>2 DEF Refused, InFreeList, Members
  <2>3. UNCHANGED <<setup, added, reserved, desc, freeList, live, offWord>>
    BY <2>1, <2>2 DEF FreeAgain
  <2> QED BY <2>3, <1>5
<1>7. CASE \E n \in setup.sizes, al \in setup.alignments : AllocateAlignedFails(n, al)
  BY <1>5, <1>7 DEF AllocateAlignedFails
<1>9. CASE UNCHANGED vars
  BY <1>5, <1>9 DEF vars
<1> QED BY <1>1, <1>2, <1>3, <1>4, <1>6, <1>7, <1>8, <1>9 DEF Next

\* The invariant holds throughout.
LEMMA HeapInvariant == Spec /\ Gentle => []HeapInv
BY HeapInitial, HeapStep, PTL DEF Spec

-----------------------------------------------------------------------------
(* What follows                                                            *)

\* Through every split and merge the segments tile their blocks, and what one
\* caller owns overlaps neither a descriptor nor the page table nor what
\* another owns, for any sizes and any order of calls.
THEOREM TilesKept == Spec /\ Gentle => []SegmentsTile
<1>1. HeapInv => SegmentsTile
  <2> SUFFICES ASSUME HeapInv PROVE SegmentsTile
    OBVIOUS
  <2> DEFINE F == Members(freeList)
  <2>1. Setting /\ Well(desc) /\ Placed(desc) /\ Owned(desc, F, live, offWord)
    BY DEF HeapInv
  <2> HIDE DEF F
  <2>2. HDR \in Nat /\ HDR > 0 /\ CtlSize \in Nat /\ Taken \in Nat /\ Taken >= CtlSize
    BY <2>1, SetupIs
  <2>3. \A h \in DOMAIN desc :
          /\ h \in Nat /\ desc[h].avail \in Nat /\ desc[h].off \in Nat /\ desc[h].off >= HDR
          /\ EndOf(desc, h) \in Nat /\ EndOf(desc, h) = h + desc[h].off + desc[h].avail
    BY <2>1, SegmentIs
  <2>4. \A a \in DOMAIN live :
          /\ a \in Nat /\ live[a] \in Nat /\ offWord[a] \in Nat
          /\ a - offWord[a] \in DOMAIN desc /\ desc[a - offWord[a]].off = offWord[a]
          /\ live[a] <= desc[a - offWord[a]].avail
    BY <2>1 DEF Owned
  <2>5. OwnersDisjoint
    <3> SUFFICES ASSUME NEW a \in DOMAIN live
                 PROVE  /\ \A b \in DOMAIN live \ {a} : a + live[a] <= b \/ b + live[b] <= a
                        /\ \A h \in DOMAIN desc : a + live[a] <= h \/ h + HDR <= a
                        /\ a + live[a] <= reserved[1] \/ reserved[1] + CtlSize <= a
                        /\ \E i \in DOMAIN Blocks : Blocks[i][1] <= a /\ a + live[a] <= Blocks[i][2]
      BY DEF OwnersDisjoint
    <3> DEFINE s == a - offWord[a]
               e == EndOf(desc, s)
    <3>1. /\ s \in DOMAIN desc /\ s \in Nat /\ e \in Nat
          /\ a \in Nat /\ s + HDR <= a /\ live[a] \in Nat /\ a + live[a] <= e /\ s <= a
      <4>1. s \in DOMAIN desc /\ a = s + desc[s].off /\ a \in Nat
            /\ live[a] \in Nat /\ live[a] <= desc[s].avail
        BY <2>4
      <4> HIDE DEF s
      <4> QED BY <4>1, <2>2, <2>3
    <3>2. ASSUME NEW h \in DOMAIN desc, h # s
          PROVE  (h < s /\ EndOf(desc, h) <= s) \/ (s < h /\ e <= h)
      <4>1. h < s \/ s < h
        BY <3>1, <3>2, <2>3
      <4> QED BY <4>1, <3>1, <2>1 DEF Well, Apart
    <3> HIDE DEF s, e
    <3>3. ASSUME NEW b \in DOMAIN live \ {a} PROVE a + live[a] <= b \/ b + live[b] <= a
      <4> DEFINE t == b - offWord[b]
      <4>1. /\ t \in DOMAIN desc /\ desc[t].off = offWord[b] /\ offWord[b] \in Nat
            /\ b \in Nat /\ b = t + desc[t].off /\ live[b] \in Nat /\ live[b] <= desc[t].avail
        BY <2>4
      <4>2. t # s
        <5>1. desc[s].off = offWord[a] /\ s = a - offWord[a] /\ offWord[a] \in Nat
          BY <2>4 DEF s
        <5>2. t = b - offWord[b]
          OBVIOUS
        <5> HIDE DEF t
        <5>3. t = s => offWord[a] = offWord[b]
          BY <5>1, <4>1
        <5> QED BY <5>1, <5>2, <5>3, <4>1, <3>1
      <4> HIDE DEF t
      <4>3. (t < s /\ EndOf(desc, t) <= s) \/ (s < t /\ e <= t)
        BY <4>1, <4>2, <3>2
      <4>4. /\ t \in Nat /\ desc[t].avail \in Nat /\ desc[t].off \in Nat
            /\ EndOf(desc, t) = t + desc[t].off + desc[t].avail
        BY <4>1, <2>3
      <4> QED BY <4>1, <4>3, <4>4, <3>1, <2>2
    <3>4. ASSUME NEW h \in DOMAIN desc PROVE a + live[a] <= h \/ h + HDR <= a
      <4>1. h \in Nat /\ EndOf(desc, h) \in Nat /\ h + HDR <= EndOf(desc, h)
        BY <2>1, SegmentIs
      <4>2. CASE h = s
        BY <4>1, <4>2, <3>1
      <4>3. CASE h # s
        BY <4>1, <4>3, <3>1, <3>2, <2>2
      <4> QED BY <4>2, <4>3
    <3>5. Inside(s, e)
      BY <3>1, <2>1 DEF Placed, e
    <3>6. Booted /\ reserved[1] \in Nat
      BY <2>1 DEF Setting
    <3>7. a + live[a] <= reserved[1] \/ reserved[1] + CtlSize <= a
      BY <3>1, <3>5, <3>6, <2>2 DEF Inside
    <3>8. \E i \in DOMAIN Blocks : Blocks[i][1] <= a /\ a + live[a] <= Blocks[i][2]
      <4>1. PICK i \in 1 .. added : Blocks[i][1] <= s /\ e <= Blocks[i][2]
        BY <3>5 DEF Inside
      <4>2. Blocks[i][1] \in Nat /\ Blocks[i][2] \in Nat /\ i \in DOMAIN Blocks
        BY <2>1, SetupIs
      <4> QED BY <4>1, <4>2, <3>1
    <3> QED BY <3>3, <3>4, <3>7, <3>8
  <2>6. ASSUME NEW h \in DOMAIN desc
        PROVE  /\ desc[h].off >= HDR
               /\ desc[h].right # 0 =>
                    /\ desc[h].right \in DOMAIN desc
                    /\ EndOf(desc, h) = desc[h].right
                    /\ desc[desc[h].right].left = h
               /\ desc[h].left # 0 =>
                    /\ desc[h].left \in DOMAIN desc
                    /\ desc[desc[h].left].right = h
    BY <2>1, <2>2, <2>3 DEF Well, Agree
  <2>7. ASSUME NEW h \in DOMAIN desc
        PROVE  /\ desc[h].right = 0 => \E i \in 1 .. added : EndOf(desc, h) = Blocks[i][2]
               /\ desc[h].left = 0 =>
                    \E i \in 1 .. added :
                       \/ h = Blocks[i][1]
                       \/ Booted /\ reserved[1] = Blocks[i][1]
                          /\ h = Blocks[i][1] + AlignUp(CtlSize, WORD)
    BY <2>1, <2>3 DEF Placed, EndsBlock, StartsBlock, Taken
  <2> QED BY <2>5, <2>6, <2>7 DEF SegmentsTile
<1> QED BY <1>1, HeapInvariant, PTL

\* The ring holds every free segment once and no other, and no two free
\* neighbours stay apart: also where callers free an address twice, as long as
\* the word before it is neither handed out nor in the descriptor of a tail.
THEOREM RingSound == Spec /\ Gentle => []RingIsFreeSet
<1>1. HeapInv => RingIsFreeSet
  <2> SUFFICES ASSUME HeapInv PROVE RingIsFreeSet
    OBVIOUS
  <2> DEFINE F == Members(freeList)
  <2>1. /\ Setting /\ Well(desc) /\ Distinct(freeList) /\ F \subseteq DOMAIN desc
        /\ Merged(desc, F) /\ Owned(desc, F, live, offWord)
    BY DEF HeapInv
  <2>2. \A x : InFreeList(x) <=> x \in F
    BY DEF InFreeList, Members
  <2>3. \A i \in DOMAIN freeList : freeList[i] \in DOMAIN desc
    BY <2>1 DEF Members
  <2> HIDE DEF F
  <2>4. \A h \in DOMAIN desc : DataOf(desc, h) = h + desc[h].off
    BY DEF DataOf
  <2>5. NoFreeNeighbours
    BY <2>1, <2>2 DEF NoFreeNeighbours, Merged
  <2>6. ASSUME NEW a \in DOMAIN live
        PROVE  /\ a - offWord[a] \in DOMAIN desc
               /\ DataOf(desc, a - offWord[a]) = a
               /\ ~InFreeList(a - offWord[a])
    <3>1. /\ a - offWord[a] \in DOMAIN desc \ F /\ a \in Nat /\ offWord[a] \in Nat
          /\ desc[a - offWord[a]].off = offWord[a]
      BY <2>1 DEF Owned
    <3>2. DataOf(desc, a - offWord[a]) = a
      BY <3>1, <2>4
    <3> QED BY <3>1, <3>2, <2>2
  <2>7. \A h \in DOMAIN desc : InFreeList(h) \/ DataOf(desc, h) \in DOMAIN live
    BY <2>1, <2>2, <2>4 DEF Owned
  <2> QED BY <2>1, <2>3, <2>5, <2>6, <2>7 DEF RingIsFreeSet, Distinct
<1> QED BY <1>1, HeapInvariant, PTL

\* Nothing leaks: when all is freed, every block is one free segment again.
THEOREM NothingLeaks == Spec /\ Gentle => []AllFreedIsWhole
<1>1. HeapInv => AllFreedIsWhole
  <2> SUFFICES ASSUME HeapInv, live = <<>>, NEW h \in DOMAIN desc
               PROVE  /\ desc[h].left = 0 /\ desc[h].right = 0 /\ desc[h].off = HDR
                      /\ InFreeList(h)
    BY DEF AllFreedIsWhole
  <2> DEFINE F == Members(freeList)
  <2>1. Well(desc) /\ Merged(desc, F) /\ Owned(desc, F, live, offWord)
    BY DEF HeapInv
  <2>2. \A x : InFreeList(x) <=> x \in F
    BY DEF InFreeList, Members
  <2> HIDE DEF F
  <2>3. DOMAIN live = {}
    OBVIOUS
  <2>4. \A x \in DOMAIN desc : x \in F
    BY <2>1, <2>3 DEF Owned
  <2>5. \A x \in DOMAIN desc : desc[x].right = 0
    BY <2>1, <2>4 DEF Merged, Well, Agree
  <2>6. desc[h].left = 0
    BY <2>1, <2>5 DEF Well, Agree
  <2>7. desc[h].off = HDR
    BY <2>1, <2>4 DEF Merged
  <2> QED BY <2>2, <2>4, <2>5, <2>6, <2>7
<1> QED BY <1>1, HeapInvariant, PTL

\* The heap is an allocator, with the same duty of callers: every range handed out lies in the blocks and was
\* nobody's, and it is taken back by its owner's free() and by nothing else.
THEOREM HeapRefinement == Spec /\ Gentle => ImplementsAllocator
<1> DEFINE memory == UNION {Blocks[i][1] .. Blocks[i][2] - 1 : i \in DOMAIN Blocks}
<1>1. Init => Abs!Init
  BY DEF Init, Abs!Init
<1>2. HeapInv /\ [Next]_vars => [Abs!Next]_<<memory, live>>
  <2> SUFFICES ASSUME HeapInv, [Next]_vars PROVE [Abs!Next]_<<memory, live>>
    OBVIOUS
  <2>1. setup' = setup
    BY DEF Next, vars, AddHeapBlock, SeparateFreeBlock, Allocate, AllocateAligned,
           AllocateAlignedFails, Free, FreeAgain
  <2>2. memory' = memory
    BY <2>1 DEF Blocks
  <2>3. ASSUME Booted, NEW h, h \in Members(freeList), NEW d, NEW off, NEW avail, NEW need,
               HandsOut(d, h, off, avail, need)
        PROVE  Abs!Next
    <3> DEFINE F == Members(freeList)
               a == h + off
               e == EndOf(desc, h)
    <3>1. /\ Setting /\ Well(desc) /\ Placed(desc) /\ Owned(desc, F, live, offWord)
          /\ h \in DOMAIN desc
      BY <2>3 DEF HeapInv
    <3>2. a \notin DOMAIN live
      BY <2>3, HandOutStep
    <3>3. live' = [x \in DOMAIN live \cup {a} |-> IF x = a THEN need ELSE live[x]]
      <4>1. DataOf(d, h) = a
        BY <2>3 DEF HandsOut, MoveOf, DataOf
      <4>2. Given(d, h, need)
        BY <2>3 DEF HandsOut
      <4> HIDE DEF a
      <4> QED BY <4>1, <4>2 DEF Given
    <3>4. /\ Well(d) /\ h \in DOMAIN d /\ d[h].off = off /\ d[h].avail = avail
          /\ EndOf(d, h) = e /\ off \in Nat /\ off >= HDR /\ avail \in Nat
          /\ need \in Nat /\ need <= avail
      BY <2>3, <3>1 DEF HandsOut, MoveOf
    <3>5. /\ HDR \in Nat /\ HDR > 0 /\ h \in Nat /\ e \in Nat /\ e = h + off + avail
      <4>1. /\ HDR \in Nat /\ HDR > 0 /\ h \in Nat /\ EndOf(d, h) \in Nat
            /\ EndOf(d, h) = h + d[h].off + d[h].avail
        BY <3>4, SegmentIs
      <4> HIDE DEF e
      <4> QED BY <4>1, <3>4
    <3>6. a \in Nat /\ a + need <= e /\ h <= a
      BY <3>4, <3>5
    <3> HIDE DEF F
    <3>7. Abs!Bytes(a, need) \subseteq memory
      <4>1. Inside(h, e)
        BY <3>1 DEF Placed
      <4> HIDE DEF e, a
      <4>2. PICK i \in 1 .. added : Blocks[i][1] <= h /\ e <= Blocks[i][2]
        BY <4>1 DEF Inside
      <4>3. Blocks[i][1] \in Nat /\ Blocks[i][2] \in Nat /\ i \in DOMAIN Blocks
        BY <3>1, SetupIs
      <4>4. a .. a + need - 1 \subseteq Blocks[i][1] .. Blocks[i][2] - 1
        BY <4>2, <4>3, <3>4, <3>5, <3>6
      <4> QED BY <4>3, <4>4 DEF Abs!Bytes
    <3>8. ASSUME NEW b \in DOMAIN live
          PROVE  Abs!Bytes(a, need) \cap Abs!Bytes(b, live[b]) = {}
      <4> DEFINE t == b - offWord[b]
      <4>1. /\ t \in DOMAIN desc /\ t \notin F /\ desc[t].off = offWord[b] /\ offWord[b] \in Nat
            /\ b \in Nat /\ b = t + desc[t].off /\ live[b] \in Nat /\ live[b] <= desc[t].avail
        BY <3>1 DEF Owned
      <4> HIDE DEF t, e, a
      <4>2. /\ t \in Nat /\ desc[t].avail \in Nat /\ desc[t].off \in Nat
            /\ EndOf(desc, t) = t + desc[t].off + desc[t].avail
        BY <4>1, <3>1, SegmentIs
      <4>3. t # h
        BY <4>1, <2>3 DEF F
      <4>4. t < h => EndOf(desc, t) <= h
        BY <4>1, <3>1 DEF Well, Apart
      <4>5. h < t => e <= t
        BY <4>1, <3>1 DEF Well, Apart, e
      <4>6. b + live[b] <= a \/ a + need <= b
        BY <4>1, <4>2, <4>3, <4>4, <4>5, <3>4, <3>5, <3>6
      <4>7. \A x \in Int : ~(x \in a .. a + need - 1 /\ x \in b .. b + live[b] - 1)
        BY <4>1, <4>6, <3>4, <3>6
      <4> QED BY <4>7, <4>1, <3>4, <3>6 DEF Abs!Bytes
    <3> HIDE DEF a, e
    <3>9. a \in DOMAIN live' \ DOMAIN live /\ live'[a] = need
      BY <3>2, <3>3
    <3>10. Abs!Allocate(a, need)
      BY <3>2, <3>3, <3>7, <3>8 DEF Abs!Allocate
    <3> QED BY <3>9, <3>10, <2>2 DEF Abs!Next
  <2>4. ASSUME NEW a \in DOMAIN live, Free(a) PROVE Abs!Next
    BY <2>2, <2>4 DEF Free, Abs!Next, Abs!Free
  <2>5. CASE \/ AddHeapBlock \/ SeparateFreeBlock \/ UNCHANGED vars
             \/ \E n \in setup.sizes, al \in setup.alignments : AllocateAlignedFails(n, al)
             \/ \E a \in DOMAIN offWord \ DOMAIN live : FreeAgain(a)
    BY <2>2, <2>5 DEF AddHeapBlock, SeparateFreeBlock, AllocateAlignedFails, FreeAgain, vars
  <2>6. ASSUME NEW size \in setup.sizes, Allocate(size) PROVE Abs!Next
    BY <2>3, <2>6, AllocateHands DEF Allocate
  <2>7. ASSUME NEW size \in setup.sizes, NEW al \in setup.alignments, AllocateAligned(size, al)
        PROVE  Abs!Next
    BY <2>3, <2>7, AlignedHands DEF AllocateAligned
  <2> QED BY <2>4, <2>5, <2>6, <2>7 DEF Next
<1> QED BY <1>1, <1>2, HeapInvariant, PTL DEF Spec, ImplementsAllocator, Abs!Spec

=============================================================================
