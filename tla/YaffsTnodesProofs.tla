------------------------- MODULE YaffsTnodesProofs -------------------------
(***************************************************************************)
(* Proofs about module YaffsTnodes, for every geometry that meets          *)
(* TnodeAssumption.                                                        *)
(*                                                                         *)
(* Three layers are proved one upon the other.  Fields: load_tnode_0 sets  *)
(* the bits of one field and leaves those of every other, also where a     *)
(* field lies across two words (LoadField), and get_group_base reads it    *)
(* back (GetField, FromToBits).  Levels: a node of level l above another   *)
(* is reached by shifting its index (Up), and shifts add up (UpUp), so     *)
(* that growing, pruning and rebuilding keep the way to each node.  Tree:  *)
(* the invariant Tree is                                                   *)
(*                                                                         *)
(*   Shape     the nodes that exist, and all above them up to the top;     *)
(*   Counted   n_tnodes counts them;                                       *)
(*   Owns      no two chunks of the device carry the same tags;            *)
(*   Leads     the entry of a chunk in use names its group, and every      *)
(*             entry that belongs to none is empty.                        *)
(*                                                                         *)
(* The last part of Leads is needed by pruning and by groups: a stale      *)
(* entry would keep a node, or lead to a chunk of another file.  From      *)
(* Tree, yaffs_find_chunk_in_file answers what the tags say (FindHome),    *)
(* so that a step either keeps the table, puts one chunk or drops those    *)
(* from a number on: these are the steps of YaffsChunkMap.                 *)
(***************************************************************************)
EXTENDS YaffsTnodes, FiniteSetTheorems, SequenceTheorems, Recursion, TLAPS

-----------------------------------------------------------------------------
(* Quotients and powers of two                                             *)

LEMMA DivLess ==
  ASSUME NEW n \in Nat, NEW w \in Pos1
  PROVE  /\ n < w => n \div w = 0 /\ n % w = n
         /\ n \div w = 0 => n < w
<1>1. n < w => Split(n, w, 0, n)
  BY DEF Split, Pos1
<1>2. n < w => n \div w = 0 /\ n % w = n
  BY <1>1, DivIs, Zenon
<1> DEFINE x == n \div w  y == n % w
<1>3. Split(n, w, x, y)
  BY DivSplit
<1> HIDE DEF x, y
<1>4. x = 0 => n < w
  BY <1>3 DEF Split, Pos1
<1>5. n \div w = 0 => n < w
  BY <1>4, Zenon DEF x
<1> QED BY <1>2, <1>5, Zenon

(* The product of two positive numbers, and a division in two stages.        *)
LEMMA TimesPos ==
  ASSUME NEW a \in Pos1, NEW b \in Pos1
  PROVE  a * b \in Pos1
BY DEF Pos1

LEMMA SplitTwice ==
  ASSUME NEW n \in Nat, NEW a \in Pos1, NEW b \in Pos1, NEW q, NEW r, NEW x, NEW y,
         Split(n, a, q, r), Split(q, b, x, y)
  PROVE  Split(n, a * b, x, y * a + r)
<1>1. /\ q \in Nat /\ r \in 0 .. a - 1 /\ n = q * a + r
      /\ x \in Nat /\ y \in 0 .. b - 1 /\ q = x * b + y /\ a \in Nat /\ b \in Nat
  BY DEF Split, Pos1
<1>2. n = x * (a * b) + (y * a + r)
  <2>1. q * a = (x * b) * a + y * a
    BY <1>1
  <2>2. (x * b) * a = x * (a * b)
    BY <1>1
  <2>3. q * a \in Nat /\ (x * b) * a \in Nat /\ y * a \in Nat /\ x * (a * b) \in Nat
    BY <1>1
  <2> QED BY <1>1, <2>1, <2>2, <2>3
<1>3. y * a + r \in Nat /\ y * a + r < a * b
  <2>1. y * a + a <= b * a
    BY <1>1, TimesLess
  <2>2. y * a \in Nat /\ a * b = b * a /\ a * b \in Nat
    BY <1>1
  <2> QED BY <1>1, <2>1, <2>2
<1> DEFINE p == a * b  z == y * a + r
<1>4. p \in Nat /\ z \in Nat /\ z < p
  BY <1>1, <1>3
<1> HIDE DEF p, z
<1>5. z \in 0 .. p - 1
  BY <1>4
<1> QED BY <1>1, <1>2, <1>5 DEF Split, p, z

LEMMA DivTwice ==
  ASSUME NEW n \in Nat, NEW a \in Pos1, NEW b \in Pos1
  PROVE  (n \div a) \div b = n \div (a * b)
<1> DEFINE q == n \div a  r == n % a  x == q \div b  y == q % b
<1>1. Split(n, a, q, r)
  BY DivSplit
<1>2. q \in Nat
  <2> HIDE DEF q, r
  <2> QED BY <1>1 DEF Split
<1>3. Split(q, b, x, y)
  <2> HIDE DEF q
  <2> QED BY <1>2, DivSplit
<1>4. x = n \div (a * b)
  <2> HIDE DEF q, r, x, y
  <2>1. Split(n, a * b, x, y * a + r)
    BY <1>1, <1>3, SplitTwice
  <2>2. a * b \in Pos1
    BY TimesPos
  <2> QED BY <2>1, <2>2, DivIs, Zenon
<1> QED BY <1>4, Zenon DEF x, q

(* The powers of two.                                                        *)
LEMMA Pow2Def ==
  /\ \A n \in Nat : Pow2[n] \in Pos1
  /\ Pow2[0] = 1
  /\ \A n \in Nat : Pow2[n + 1] = 2 * Pow2[n]
<1> DEFINE step == [x \in Pos1 \X Nat |-> 2 * x[1]]
           F(f) == f = [n \in Nat |-> IF n = 0 THEN 1 ELSE 2 * f[n - 1]]
<1>1. step \in [Pos1 \X Nat -> Pos1] /\ 1 \in Pos1
  BY DEF Pos1
<1>2. PICK f : f \in [Nat -> Pos1] /\ f[0] = 1 /\ \A k \in Nat : f[k + 1] = step[<<f[k], k + 1>>]
  <2>1. IsNatStep(Pos1, step)
    BY <1>1 DEF IsNatStep
  <2> HIDE DEF step
  <2>2. \E f : NatSolves(f, Pos1, 1, step)
    BY <1>1, <2>1, NatRecursionExists
  <2> QED BY <2>2 DEF NatSolves
<1>3. \A k \in Nat : f[k + 1] = 2 * f[k]
  <2> SUFFICES ASSUME NEW k \in Nat PROVE f[k + 1] = 2 * f[k]
    OBVIOUS
  <2>1. <<f[k], k + 1>> \in Pos1 \X Nat
    BY <1>2
  <2> QED BY <1>2, <2>1
<1>4. F(f)
  <2>1. ASSUME NEW n \in Nat PROVE f[n] = IF n = 0 THEN 1 ELSE 2 * f[n - 1]
    <3>1. n # 0 => n - 1 \in Nat /\ (n - 1) + 1 = n
      OBVIOUS
    <3> QED BY <3>1, <1>2, <1>3
  <2> QED BY <2>1, <1>2
<1>5. Pow2 = CHOOSE g : F(g)
  BY DEF Pow2
<1>6. Pow2 = [n \in Nat |-> IF n = 0 THEN 1 ELSE 2 * Pow2[n - 1]]
  BY <1>4, <1>5
<1>7. Pow2[0] = 1 /\ \A n \in Nat : Pow2[n + 1] = 2 * Pow2[n]
  <2>1. ASSUME NEW n \in Nat PROVE Pow2[n + 1] = 2 * Pow2[n]
    <3>1. n + 1 \in Nat /\ n + 1 # 0 /\ (n + 1) - 1 = n
      OBVIOUS
    <3> QED BY <3>1, <1>6
  <2>2. Pow2[0] = 1
    BY <1>6
  <2> QED BY <2>1, <2>2
<1> DEFINE T == {n \in Nat : Pow2[n] \in Pos1}
<1>8. 0 \in T
  BY <1>1, <1>7
<1>9. ASSUME NEW k \in Nat, k \in T PROVE k + 1 \in T
  <2>1. 2 * Pow2[k] \in Pos1
    BY <1>9 DEF Pos1
  <2> QED BY <1>7, <2>1
<1>10. \A n \in Nat : n \in T
  <2> HIDE DEF T
  <2> QED BY <1>8, <1>9, AllNat
<1> QED BY <1>7, <1>10

LEMMA Pow2Sum ==
  ASSUME NEW m \in Nat, NEW n \in Nat
  PROVE  Pow2[m + n] = Pow2[m] * Pow2[n]
<1> DEFINE T == {k \in Nat : Pow2[m + k] = Pow2[m] * Pow2[k]}
<1>0. \A k \in Nat : Pow2[k] \in Nat
  BY Pow2Def DEF Pos1
<1>1. 0 \in T
  <2>1. m + 0 = m /\ Pow2[m] * 1 = Pow2[m]
    BY <1>0
  <2> QED BY <2>1, Pow2Def
<1>2. ASSUME NEW k \in Nat, k \in T PROVE k + 1 \in T
  <2>1. m + (k + 1) = (m + k) + 1 /\ m + k \in Nat
    OBVIOUS
  <2>2. Pow2[(m + k) + 1] = 2 * Pow2[m + k] /\ Pow2[k + 1] = 2 * Pow2[k]
    BY <2>1, Pow2Def
  <2>3. 2 * (Pow2[m] * Pow2[k]) = Pow2[m] * (2 * Pow2[k])
    <3> DEFINE a == Pow2[m]  b == Pow2[k]
    <3>1. a \in Nat /\ b \in Nat
      BY <1>0
    <3> HIDE DEF a, b
    <3>2. 2 * (a * b) = a * (2 * b)
      BY <3>1
    <3> QED BY <3>2 DEF a, b
  <2> QED BY <1>2, <2>1, <2>2, <2>3
<1>3. \A k \in Nat : k \in T
  <2> HIDE DEF T
  <2> QED BY <1>1, <1>2, AllNat
<1> QED BY <1>3

LEMMA Pow2Mono ==
  ASSUME NEW m \in Nat, NEW n \in Nat, m <= n
  PROVE  Pow2[m] <= Pow2[n]
<1>1. n - m \in Nat /\ m + (n - m) = n
  OBVIOUS
<1>2. Pow2[n] = Pow2[m] * Pow2[n - m]
  BY <1>1, Pow2Sum
<1>3. \A a, b \in Pos1 : a <= a * b
  BY DEF Pos1
<1> QED BY <1>1, <1>2, <1>3, Pow2Def

-----------------------------------------------------------------------------
(* Levels of the tree: the number of a node of level l above the node i,   *)
(* with k bits of the number for each level                                *)

Up(k, i, l) == i \div Pow2[l * k]

LEMMA LevelBits ==
  ASSUME NEW k \in Pos1, NEW l \in Nat
  PROVE  l * k \in Nat /\ Pow2[l * k] \in Pos1
<1>1. l * k \in Nat
  BY DEF Pos1
<1> QED BY <1>1, Pow2Def

LEMMA UpType ==
  ASSUME NEW k \in Pos1, NEW i \in Nat, NEW l \in Nat
  PROVE  Up(k, i, l) \in Nat
<1> DEFINE x == i \div Pow2[l * k]  y == i % Pow2[l * k]
<1>1. Split(i, Pow2[l * k], x, y)
  BY LevelBits, DivSplit
<1> HIDE DEF x, y
<1>2. x \in Nat
  BY <1>1 DEF Split
<1> QED BY <1>2, Zenon DEF Up, x

LEMMA UpNone ==
  ASSUME NEW k \in Pos1, NEW i \in Nat
  PROVE  Up(k, i, 0) = i
<1>1. 0 * k = 0 /\ Pow2[0] = 1 /\ 1 \in Pos1
  BY Pow2Def DEF Pos1
<1>2. Split(i, 1, i, 0)
  BY DEF Split
<1>3. i \div 1 = i
  BY <1>1, <1>2, DivIs, Zenon
<1> QED BY <1>1, <1>3, Zenon DEF Up

LEMMA UpOfZero ==
  ASSUME NEW k \in Pos1, NEW l \in Nat
  PROVE  Up(k, 0, l) = 0
<1>0. Pow2[l * k] \in Pos1
  BY LevelBits
<1>1. Pow2[l * k] \in Pos1 /\ 0 < Pow2[l * k] /\ 0 \in Nat
  BY <1>0 DEF Pos1
<1>2. 0 \div Pow2[l * k] = 0
  BY <1>1, DivLess, Zenon
<1> QED BY <1>2, Zenon DEF Up

LEMMA UpUp ==
  ASSUME NEW k \in Pos1, NEW i \in Nat, NEW l \in Nat, NEW m \in Nat
  PROVE  Up(k, Up(k, i, l), m) = Up(k, i, l + m)
<1> DEFINE a == Pow2[l * k]  b == Pow2[m * k]
<1>1. a \in Pos1 /\ b \in Pos1 /\ l * k \in Nat /\ m * k \in Nat
  BY LevelBits
<1>2. l * k + m * k = (l + m) * k
  BY DEF Pos1
<1>3. a * b = Pow2[(l + m) * k]
  BY <1>1, <1>2, Pow2Sum
<1>4. (i \div a) \div b = i \div (a * b)
  <2> HIDE DEF a, b
  <2> QED BY <1>1, DivTwice
<1>5. (i \div a) \div b = i \div Pow2[(l + m) * k]
  BY <1>3, <1>4, Zenon
<1> QED BY <1>5, Zenon DEF Up, a, b

LEMMA UpMono ==
  ASSUME NEW k \in Pos1, NEW i \in Nat, NEW j \in Nat, NEW l \in Nat, i <= j
  PROVE  Up(k, i, l) <= Up(k, j, l)
<1> DEFINE w == Pow2[l * k]  q == i \div w  r == i % w  x == j \div w  y == j % w
<1>0. w \in Pos1
  BY LevelBits
<1>1. Split(i, w, q, r) /\ Split(j, w, x, y)
  <2> HIDE DEF w
  <2> QED BY <1>0, DivSplit
<1>2. q <= x
  <2> HIDE DEF q, r, x, y
  <2>1. /\ q \in Nat /\ r \in 0 .. w - 1 /\ i = q * w + r /\ w \in Nat
        /\ x \in Nat /\ y \in 0 .. w - 1 /\ j = x * w + y
    BY <1>0, <1>1 DEF Split, Pos1
  <2> HIDE DEF w
  <2>2. x < q => x * w + w <= q * w
    BY <2>1, TimesLess
  <2>3. x * w \in Nat /\ q * w \in Nat
    BY <2>1
  <2> QED BY <2>1, <2>2, <2>3
<1>3. Up(k, i, l) = q /\ Up(k, j, l) = x
  BY Zenon DEF Up
<1> HIDE DEF q, x
<1> QED BY <1>2, <1>3

LEMMA UpStays ==
  ASSUME NEW k \in Pos1, NEW i \in Nat, NEW l \in Nat, NEW m \in Nat, l <= m, Up(k, i, l) = 0
  PROVE  Up(k, i, m) = 0
<1>1. m - l \in Nat /\ l + (m - l) = m
  OBVIOUS
<1>2. Up(k, Up(k, i, l), m - l) = Up(k, i, l + (m - l))
  BY <1>1, UpUp
<1>3. Up(k, 0, m - l) = 0
  BY <1>1, UpOfZero
<1> QED BY <1>1, <1>2, <1>3

LEMMA UpSmall ==
  ASSUME NEW k \in Pos1, NEW i \in Nat
  PROVE  Up(k, i, 1) = 0 <=> i < Pow2[k]
<1>1. 1 * k = k /\ k \in Nat
  BY DEF Pos1
<1>2. Pow2[k] \in Pos1
  BY <1>1, Pow2Def
<1>3. i \div Pow2[k] = 0 <=> i < Pow2[k]
  BY <1>2, DivLess, Zenon
<1> QED BY <1>1, <1>3, Zenon DEF Up

(* The first level at which a number is 0.                                   *)
LEMMA UpLeast ==
  ASSUME NEW k \in Pos1, NEW i \in Nat, NEW n \in Nat, Up(k, i, n) = 0
  PROVE  \E d \in 0 .. n : Up(k, i, d) = 0 /\ (d = 0 \/ Up(k, i, d - 1) # 0)
<1> DEFINE T == {l \in Nat : Up(k, i, l) = 0}
<1>1. n \in T /\ T \in SUBSET Nat
  OBVIOUS
<1>2. PICK d \in T : \A y \in T : d <= y
  <2> HIDE DEF T
  <2> QED BY <1>1, LeastNat
<1>3. d \in 0 .. n /\ Up(k, i, d) = 0
  BY <1>1, <1>2
<1>4. d # 0 => d - 1 \in Nat /\ ~(d <= d - 1)
  BY <1>3
<1>5. d # 0 => Up(k, i, d - 1) # 0
  BY <1>2, <1>4
<1> QED BY <1>3, <1>5

-----------------------------------------------------------------------------
(* The geometry                                                            *)

LEMMA Pow31 == INT_MAX \in Nat /\ INT_MAX <= Pow2[31]
<1>1. Pow2[30] \in Nat /\ Pow2[30] >= 1
  BY Pow2Def DEF Pos1
<1>2. Pow2[30 + 1] = 2 * Pow2[30] /\ 30 + 1 = 31
  BY Pow2Def
<1> QED BY <1>1, <1>2 DEF INT_MAX

LEMMA ShiftsCeiling ==
  ASSUME NEW x \in Nat, x <= INT_MAX
  PROVE  calc_shifts_ceiling(x) \in Nat /\ Pow2[calc_shifts_ceiling(x)] >= x
<1> DEFINE T == {n \in Nat : Pow2[n] >= x}
<1>1. 31 \in T /\ T \in SUBSET Nat
  <2>1. Pow2[31] \in Nat
    BY Pow2Def DEF Pos1
  <2> QED BY <2>1, Pow31
<1>2. PICK d \in T : \A y \in T : d <= y
  <2> HIDE DEF T
  <2> QED BY <1>1, LeastNat
<1>3. d \in 0 .. 31 /\ Pow2[d] >= x
  BY <1>1, <1>2
<1>4. d # 0 => d - 1 \in Nat /\ ~(d <= d - 1)
  BY <1>3
<1>5. d # 0 => d - 1 \notin T
  BY <1>2, <1>4
<1>6. \A n \in Nat : Pow2[n] \in Nat
  BY Pow2Def DEF Pos1
<1>7. d # 0 => Pow2[d - 1] < x
  BY <1>4, <1>5, <1>6
<1>8. \E n \in 0 .. 31 : Pow2[n] >= x /\ (n = 0 \/ Pow2[n - 1] < x)
  BY <1>3, <1>7
<1> QED BY <1>8 DEF calc_shifts_ceiling

LEMMA Fits ==
  ASSUME NEW c \in Nat, NEW a \in Pos1, NEW b \in Pos1, a <= c, c < a * b
  PROVE  c \div a \in 1 .. b - 1
<1> DEFINE q == c \div a  r == c % a
<1>1. Split(c, a, q, r)
  BY DivSplit
<1>2. q \in 1 .. b - 1
  <2> HIDE DEF q, r
  <2>1. q \in Nat /\ r \in 0 .. a - 1 /\ c = q * a + r /\ a \in Nat /\ b \in Nat
    BY <1>1 DEF Split, Pos1
  <2>2. q # 0
    BY <2>1
  <2>3. b <= q => a * b <= q * a
    BY <2>1
  <2>4. q * a \in Nat /\ a * b \in Nat
    BY <2>1
  <2>5. ~(b <= q)
    BY <2>1, <2>3, <2>4
  <2> QED BY <2>1, <2>2, <2>5
<1> QED BY <1>2, Zenon DEF q

LEMMA GeoFacts ==
  ASSUME geo \in Initialised
  PROVE  /\ WordBits \in Pos1 /\ L0Bits \in Pos1 /\ L1Bits \in Pos1
         /\ MaxLevel \in Nat /\ MaxLevel <= 31
         /\ Width \in Pos1 /\ Width <= WordBits /\ GrpSize \in Pos1
         /\ NWords \in Nat /\ NWords * WordBits = Width * Pow2[L0Bits]
         /\ Ids \subseteq Nat /\ IsFiniteSet(Ids)
         /\ \A c \in Nand : c \in Nat /\ c \div GrpSize \in 1 .. Pow2[Width] - 1
<1>1. PICK g \in Trees : geo = [g |-> g, width |-> WidthOf(g), grpSize |-> Pow2[GrpBitsOf(g)],
                               nWords |-> (WidthOf(g) * Pow2[g.l0Bits]) \div g.wordBits]
  BY DEF Initialised
<1>2. /\ geo.g = g /\ geo.width = WidthOf(g) /\ geo.grpSize = Pow2[GrpBitsOf(g)]
      /\ geo.nWords = (WidthOf(g) * Pow2[g.l0Bits]) \div g.wordBits
  BY <1>1
<1>3. /\ {g.wordBits, g.l0Bits, g.l1Bits, g.maxLevel, g.minWidth, g.cpb, g.endBlock} \subseteq Nat \ {0}
      /\ g.wideDisabled \in BOOLEAN
      /\ g.maxLevel <= 31 /\ g.cpb * (g.endBlock + 1) <= INT_MAX
      /\ geo.width <= g.wordBits /\ (geo.width * Pow2[g.l0Bits]) % g.wordBits = 0
      /\ geo.grpSize <= g.cpb
      /\ g.ids \subseteq 0 .. Pow2[g.l0Bits + g.l1Bits * g.maxLevel]
      /\ g.nand \subseteq g.cpb .. g.cpb * (g.endBlock + 1) - 1
  BY <1>2, TnodeAssumption, Zenon
<1> DEFINE N == g.cpb * (g.endBlock + 1)
           B == BitsOf(g)
           W == WidthOf(g)
           R == GrpBitsOf(g)
<1>4. /\ g.wordBits \in Pos1 /\ g.l0Bits \in Pos1 /\ g.l1Bits \in Pos1 /\ g.maxLevel \in Nat
      /\ g.minWidth \in Pos1 /\ g.cpb \in Nat /\ g.endBlock \in Nat
  BY <1>3 DEF Pos1
<1>5. N \in Nat /\ N <= INT_MAX
  BY <1>3, <1>4
<1>6. B \in Nat /\ Pow2[B] >= N
  <2> DEFINE b == calc_shifts_ceiling(N)
  <2>1. b \in Nat /\ Pow2[b] >= N
    <3> HIDE DEF N
    <3> QED BY <1>5, ShiftsCeiling
  <2>2. B = IF g.wideDisabled THEN b ELSE b + (b % 2)
    BY DEF BitsOf
  <2> HIDE DEF b, N, B
  <2>3. b + (b % 2) \in Nat /\ b <= b + (b % 2)
    BY <2>1
  <2>4. Pow2[b] <= Pow2[b + (b % 2)]
    BY <2>1, <2>3, Pow2Mono
  <2>5. Pow2[b] \in Nat /\ Pow2[b + (b % 2)] \in Nat
    BY <2>1, <2>3, Pow2Def DEF Pos1
  <2> QED BY <1>5, <2>1, <2>2, <2>3, <2>4, <2>5
<1>7. W \in Pos1 /\ R \in Nat /\ B <= W + R
  <2>1. W = IF g.wideDisabled \/ B < g.minWidth THEN g.minWidth ELSE B
    BY DEF WidthOf
  <2>2. R = IF B <= W THEN 0 ELSE B - W
    BY DEF GrpBitsOf
  <2> HIDE DEF B, W, R
  <2>3. W \in Pos1
    BY <1>4, <1>6, <2>1 DEF Pos1
  <2> QED BY <1>6, <2>2, <2>3 DEF Pos1
<1>8. WordBits = g.wordBits /\ L0Bits = g.l0Bits /\ L1Bits = g.l1Bits /\ MaxLevel = g.maxLevel
      /\ Width = W /\ GrpSize = Pow2[R] /\ Ids = g.ids /\ Nand = g.nand
      /\ NWords = (W * Pow2[g.l0Bits]) \div g.wordBits
  BY <1>2, Zenon DEF WordBits, L0Bits, L1Bits, MaxLevel, Width, GrpSize, Ids, Nand, NWords
<1> HIDE DEF N, B, W, R
<1>9. Pow2[R] \in Pos1 /\ Pow2[W] \in Pos1 /\ Pow2[W + R] = Pow2[W] * Pow2[R] /\ N <= Pow2[W + R]
  <2>0. W \in Nat /\ W + R \in Nat
    BY <1>7 DEF Pos1
  <2>1. Pow2[B] <= Pow2[W + R]
    BY <1>6, <1>7, <2>0, Pow2Mono
  <2>2. Pow2[B] \in Nat /\ Pow2[W + R] \in Nat /\ Pow2[R] \in Pos1 /\ Pow2[W] \in Pos1
    BY <1>6, <1>7, <2>0, Pow2Def DEF Pos1
  <2>3. Pow2[W + R] = Pow2[W] * Pow2[R]
    BY <1>7, <2>0, Pow2Sum
  <2> QED BY <1>5, <1>6, <2>1, <2>2, <2>3
<1>10. ASSUME NEW c \in Nand PROVE c \in Nat /\ c \div GrpSize \in 1 .. Pow2[Width] - 1
  <2>1. c \in g.cpb .. N - 1
    BY <1>3, <1>8 DEF N
  <2> DEFINE p == Pow2[R]  v == Pow2[W]
  <2>2. p \in Pos1 /\ v \in Pos1 /\ N <= v * p /\ p <= g.cpb
    BY <1>2, <1>3, <1>9 DEF R
  <2>3. c \in Nat /\ p <= c /\ c < p * v
    <3> HIDE DEF p, v
    <3>1. p * v = v * p /\ p \in Nat /\ v * p \in Nat
      BY <2>2 DEF Pos1
    <3> QED BY <1>4, <1>5, <2>1, <2>2, <3>1
  <2>4. c \div p \in 1 .. v - 1
    <3> HIDE DEF p, v
    <3> QED BY <2>2, <2>3, Fits
  <2> QED BY <1>8, <2>3, <2>4, Zenon DEF p, v
<1>11. NWords \in Nat /\ NWords * WordBits = Width * Pow2[L0Bits]
  <2> DEFINE m == W * Pow2[g.l0Bits]  w == g.wordBits  q == m \div w  r == m % w
  <2>1. m \in Nat /\ w \in Pos1
    <3>1. Pow2[g.l0Bits] \in Pos1
      BY <1>4, Pow2Def DEF Pos1
    <3> QED BY <1>4, <1>7, <3>1 DEF Pos1
  <2>2. Split(m, w, q, r)
    <3> HIDE DEF m, w
    <3> QED BY <2>1, DivSplit
  <2>3. r = 0
    BY <1>2, <1>3, Zenon DEF W
  <2> HIDE DEF r, q, m, w
  <2>4. q \in Nat /\ m = q * w
    BY <2>1, <2>2, <2>3 DEF Split, Pos1
  <2>5. NWords = q /\ WordBits = w /\ Width * Pow2[L0Bits] = m
    BY <1>8, Zenon DEF q, m, w
  <2> QED BY <2>4, <2>5
<1>12. Ids \subseteq Nat /\ IsFiniteSet(Ids)
  <2> DEFINE e == g.l0Bits + g.l1Bits * g.maxLevel
  <2>1. e \in Nat
    BY <1>4 DEF Pos1
  <2>2. Pow2[e] \in Nat
    <3> HIDE DEF e
    <3> QED BY <2>1, Pow2Def DEF Pos1
  <2>3. Ids \subseteq 0 .. Pow2[e]
    BY <1>3, <1>8
  <2> HIDE DEF e
  <2>4. IsFiniteSet(0 .. Pow2[e])
    BY <2>2, FS_Interval
  <2>5. Ids \in SUBSET (0 .. Pow2[e])
    BY <2>3
  <2>6. IsFiniteSet(Ids)
    BY <2>4, <2>5, FS_Subset
  <2> QED BY <2>2, <2>3, <2>6
<1>13. MaxLevel \in Nat /\ MaxLevel <= 31 /\ Width <= WordBits
  BY <1>2, <1>3, <1>4, <1>8 DEF W
<1> QED BY <1>4, <1>7, <1>8, <1>9, <1>10, <1>11, <1>12, <1>13, Zenon

-----------------------------------------------------------------------------
(* Bit fields: bit k of a node is bit k % wb of its word k \div wb, and the *)
(* field p of a node are the bits from p * width on.                       *)

Bit(tn, wb, k) == k % wb \in tn[k \div wb]
Field(tn, wb, width, p) == {j \in 0 .. width - 1 : Bit(tn, wb, p * width + j)}
Node(g) == [0 .. g.nWords - 1 -> SUBSET (0 .. g.g.wordBits - 1)]
Fields(tn, p) == Field(tn, WordBits, Width, p)

LEMMA NodeIs ==
  ASSUME NEW tn \in Node(geo), NEW w \in 0 .. NWords - 1
  PROVE  tn[w] \subseteq Word
BY DEF Node, NWords, Word, WordBits

LEMMA BitIs ==
  ASSUME NEW tn, NEW wb \in Pos1, NEW k \in Nat, NEW q, NEW r, Split(k, wb, q, r)
  PROVE  Bit(tn, wb, k) <=> r \in tn[q]
<1>1. k \div wb = q /\ k % wb = r
  BY DivIs, Zenon
<1> QED BY <1>1, Zenon DEF Bit

(* Where a field lies.                                                       *)
LEMMA FieldStart ==
  ASSUME geo \in Initialised, NEW id \in Nat
  PROVE  /\ Pos(id) \in 0 .. Pow2[L0Bits] - 1
         /\ Split(Pos(id) * Width, WordBits, WordOf(id), BitOf(id))
<1>1. Pow2[L0Bits] \in Pos1 /\ WordBits \in Pos1 /\ Width \in Nat
  BY GeoFacts, Pow2Def DEF Pos1
<1> DEFINE x == id \div Pow2[L0Bits]  p == id % Pow2[L0Bits]
<1>2. Split(id, Pow2[L0Bits], x, p)
  BY <1>1, DivSplit
<1>3. p \in 0 .. Pow2[L0Bits] - 1
  <2> HIDE DEF x, p
  <2> QED BY <1>2 DEF Split
<1>4. Pos(id) = p
  BY Zenon DEF Pos
<1> HIDE DEF x, p
<1>5. p * Width \in Nat
  BY <1>1, <1>3 DEF Pos1
<1>6. Split(p * Width, WordBits, (p * Width) \div WordBits, (p * Width) % WordBits)
  BY <1>1, <1>5, DivSplit
<1> QED BY <1>3, <1>4, <1>6, Zenon DEF WordOf, BitOf

(* A field ends within the node.                                             *)
LEMMA FieldEnd ==
  ASSUME geo \in Initialised, NEW p \in 0 .. Pow2[L0Bits] - 1, NEW j \in 0 .. Width - 1,
         NEW q, NEW r, Split(p * Width + j, WordBits, q, r)
  PROVE  q \in 0 .. NWords - 1
<1> DEFINE n == NWords  w == WordBits  m == Width  b == Pow2[L0Bits]
<1>1. w \in Pos1 /\ m \in Pos1 /\ n \in Nat /\ b \in Pos1 /\ n * w = m * b
  BY GeoFacts, Pow2Def DEF Pos1
<1>2. p \in 0 .. b - 1 /\ j \in 0 .. m - 1 /\ q \in Nat /\ r \in 0 .. w - 1 /\ p * m + j = q * w + r
  BY DEF Split
<1>3. NWords = n
  OBVIOUS
<1> HIDE DEF n, w, m, b
<1>4. p * m + m <= b * m
  BY <1>1, <1>2, TimesLess DEF Pos1
<1>5. n <= q => n * w <= q * w
  BY <1>1, <1>2 DEF Pos1
<1>6. n * w \in Nat /\ q * w \in Nat /\ p * m \in Nat /\ b * m = m * b /\ m * b \in Nat
  BY <1>1, <1>2 DEF Pos1
<1>7. ~(n <= q)
  BY <1>1, <1>2, <1>4, <1>5, <1>6 DEF Pos1
<1> QED BY <1>1, <1>2, <1>3, <1>7

LEMMA FieldPlace ==
  ASSUME geo \in Initialised, NEW id \in Nat, NEW j \in 0 .. Width - 1
  PROVE  /\ BitOf(id) + j < WordBits => Split(Pos(id) * Width + j, WordBits, WordOf(id), BitOf(id) + j)
         /\ BitOf(id) + j >= WordBits =>
              Split(Pos(id) * Width + j, WordBits, WordOf(id) + 1, BitOf(id) + j - WordBits)
<1> DEFINE P == Pos(id) * Width
<1>1. Split(P, WordBits, WordOf(id), BitOf(id)) /\ WordBits \in Pos1 /\ Width \in Pos1 /\ Width <= WordBits
  BY FieldStart, GeoFacts
<1> HIDE DEF P
<1>2. /\ WordOf(id) \in Nat /\ BitOf(id) \in 0 .. WordBits - 1 /\ P = WordOf(id) * WordBits + BitOf(id)
      /\ WordBits \in Nat /\ Width \in Nat
  BY <1>1 DEF Split, Pos1
<1>3. (WordOf(id) + 1) * WordBits = WordOf(id) * WordBits + WordBits /\ WordOf(id) * WordBits \in Nat
  BY <1>2
<1>4. BitOf(id) + j < WordBits => Split(P + j, WordBits, WordOf(id), BitOf(id) + j)
  BY <1>2, <1>3 DEF Split
<1>5. BitOf(id) + j >= WordBits => Split(P + j, WordBits, WordOf(id) + 1, BitOf(id) + j - WordBits)
  BY <1>1, <1>2, <1>3 DEF Split
<1> QED BY <1>4, <1>5 DEF P

(* What yaffs_get_group_base reads is the field.                             *)
LEMMA GetField ==
  ASSUME geo \in Initialised, NEW id \in Nat, NEW tn \in Node(geo)
  PROVE  get_group_base(tn, id) = FromBits(Fields(tn, Pos(id))) * GrpSize
<1> DEFINE w == WordOf(id)  b == BitOf(id)
           lo == Shr(tn[w], b)
           hi == IF Crosses(id) THEN Shl(tn[w + 1], WordBits - b) ELSE {}
<1>1. WordBits \in Nat /\ Width \in Nat /\ Width >= 1 /\ Width <= WordBits /\ WordBits \in Pos1
  BY GeoFacts DEF Pos1
<1>2. w \in Nat /\ b \in 0 .. WordBits - 1 /\ Pos(id) \in 0 .. Pow2[L0Bits] - 1 /\ Pos(id) * Width \in Nat
  BY <1>1, FieldStart DEF Split
<1>3. ASSUME NEW j \in 0 .. Width - 1
      PROVE  j \in (lo \cup hi) \cap tnode_mask <=> Bit(tn, WordBits, Pos(id) * Width + j)
  <2> DEFINE K == Pos(id) * Width + j
  <2>0. K \in Nat /\ j \in tnode_mask /\ j \in Int
    BY <1>1, <1>2 DEF tnode_mask
  <2>1. CASE b + j < WordBits
    <3>1. Split(K, WordBits, w, b + j)
      BY <2>1, FieldPlace
    <3>2. Bit(tn, WordBits, K) <=> b + j \in tn[w]
      <4> HIDE DEF K, w, b
      <4> QED BY <1>1, <2>0, <3>1, BitIs
    <3>3. w \in 0 .. NWords - 1
      BY <1>2, <3>1, FieldEnd
    <3>4. tn[w] \subseteq Word
      BY <3>3, NodeIs
    <3> HIDE DEF K, w, b
    <3>5. j \in lo <=> b + j \in tn[w]
      <4>1. ASSUME b + j \in tn[w] PROVE j \in lo
        <5>1. b + j >= b /\ (b + j) - b = j
          BY <1>2, <2>0
        <5> QED BY <4>1, <5>1 DEF Shr
      <4>2. ASSUME j \in lo PROVE b + j \in tn[w]
        <5>1. PICK x \in tn[w] : x >= b /\ j = x - b
          BY <4>2 DEF Shr
        <5>2. x \in Int
          BY <3>4, <1>1 DEF Word
        <5>3. x = b + j
          BY <5>1, <5>2, <1>2
        <5> QED BY <5>1, <5>3
      <4> QED BY <4>1, <4>2
    <3>6. j \notin hi
      <4> SUFFICES ASSUME j \in hi PROVE FALSE
        OBVIOUS
      <4>1. Crosses(id) /\ j \in Shl(tn[w + 1], WordBits - b)
        OBVIOUS
      <4>2. PICK x \in tn[w + 1] : j = x + (WordBits - b)
        BY <4>1 DEF Shl
      <4>3. w + 1 \in 0 .. NWords - 1
        <5>1. Width > WordBits - b
          BY <4>1 DEF Crosses, b
        <5> DEFINE i == Width - 1
        <5>2. i \in 0 .. Width - 1 /\ b + i >= WordBits
          BY <5>1, <1>1, <1>2
        <5>3. Split(Pos(id) * Width + i, WordBits, w + 1, b + i - WordBits)
          <6> HIDE DEF i
          <6> QED BY <5>2, FieldPlace DEF w, b
        <5> HIDE DEF i
        <5> QED BY <1>2, <5>2, <5>3, FieldEnd
      <4>4. x \in 0 .. WordBits - 1
        BY <4>2, <4>3, NodeIs DEF Word
      <4> QED BY <1>1, <1>2, <2>0, <2>1, <4>2, <4>4
    <3> QED BY <2>0, <3>2, <3>5, <3>6, Zenon DEF K
  <2>2. CASE b + j >= WordBits
    <3>1. Split(K, WordBits, w + 1, b + j - WordBits)
      BY <2>2, FieldPlace
    <3>2. Bit(tn, WordBits, K) <=> b + j - WordBits \in tn[w + 1]
      <4> HIDE DEF K, w, b
      <4> QED BY <1>1, <2>0, <3>1, BitIs
    <3>3. w + 1 \in 0 .. NWords - 1
      BY <1>2, <3>1, FieldEnd
    <3>4. tn[w + 1] \subseteq Word /\ tn[w] \subseteq Word
      <4>1. w \in 0 .. NWords - 1
        <5> HIDE DEF w
        <5>1. NWords \in Nat
          BY GeoFacts
        <5> QED BY <1>2, <3>3, <5>1
      <4> HIDE DEF w
      <4> QED BY <3>3, <4>1, NodeIs
    <3>5. Crosses(id)
      <4>1. Width > WordBits - b
        <5> HIDE DEF b
        <5> QED BY <1>1, <1>2, <2>0, <2>2
      <4> QED BY <4>1 DEF Crosses
    <3> HIDE DEF K, w, b
    <3>6. j \notin lo
      <4> SUFFICES ASSUME j \in lo PROVE FALSE
        OBVIOUS
      <4>1. PICK x \in tn[w] : x >= b /\ j = x - b
        BY DEF Shr
      <4>2. x \in 0 .. WordBits - 1
        BY <3>4 DEF Word
      <4> QED BY <1>1, <1>2, <2>2, <4>1, <4>2
    <3>7. j \in hi <=> b + j - WordBits \in tn[w + 1]
      <4>1. ASSUME b + j - WordBits \in tn[w + 1] PROVE j \in hi
        <5>1. (b + j - WordBits) + (WordBits - b) = j /\ j \in Word
          BY <1>1, <1>2, <2>0 DEF Word
        <5>2. j \in Shl(tn[w + 1], WordBits - b)
          BY <4>1, <5>1 DEF Shl
        <5> QED BY <3>5, <5>2
      <4>2. ASSUME j \in hi PROVE b + j - WordBits \in tn[w + 1]
        <5>1. PICK x \in tn[w + 1] : j = x + (WordBits - b)
          BY <4>2, <3>5 DEF Shl
        <5>2. x \in Int
          BY <3>4, <1>1 DEF Word
        <5>3. x = b + j - WordBits
          BY <5>1, <5>2, <1>1, <1>2
        <5> QED BY <5>1, <5>3
      <4> QED BY <4>1, <4>2
    <3> QED BY <2>0, <3>2, <3>6, <3>7, Zenon DEF K
  <2> QED BY <2>1, <2>2, <1>1, <1>2, <2>0
<1>4. (lo \cup hi) \cap tnode_mask = Fields(tn, Pos(id))
  <2> HIDE DEF lo, hi
  <2> QED BY <1>3 DEF Fields, Field, tnode_mask
<1> QED BY <1>4 DEF get_group_base

(* What yaffs_load_tnode_0 leaves in the words of a node.                    *)
LEMMA LoadBit ==
  ASSUME geo \in Initialised, NEW id \in Nat, NEW tn \in Node(geo), NEW val \in Nat
  PROVE  /\ load_tnode_0(tn, id, val) \in Node(geo)
         /\ \A q \in 0 .. NWords - 1, r \in 0 .. WordBits - 1 :
              LET d == q * WordBits + r - Pos(id) * Width
              IN  r \in load_tnode_0(tn, id, val)[q] <=>
                    IF d \in 0 .. Width - 1 THEN d \in ToBits(val \div GrpSize) ELSE r \in tn[q]
<1> DEFINE w == WordOf(id)  b == BitOf(id)  k == WordBits - b
           v == ToBits(val \div GrpSize)
           lo == Shl(tnode_mask, b)
           hi == Shr(tnode_mask, k)
           one == [tn EXCEPT ![w] = (@ \ lo) \cup (lo \cap Shl(v, b))]
           two == [one EXCEPT ![w + 1] = (@ \ hi) \cup (hi \cap Shr(v, k))]
           new == IF Crosses(id) THEN two ELSE one
<1>1. WordBits \in Nat /\ Width \in Nat /\ Width >= 1 /\ Width <= WordBits /\ NWords \in Nat
  BY GeoFacts DEF Pos1
<1>2. /\ w \in Nat /\ b \in 0 .. WordBits - 1 /\ Pos(id) * Width = w * WordBits + b
      /\ Pos(id) \in 0 .. Pow2[L0Bits] - 1
  BY <1>1, FieldStart DEF Split
<1>3. v \subseteq 0 .. Width - 1
  BY DEF ToBits
<1>4. load_tnode_0(tn, id, val) = new
  BY DEF load_tnode_0
<1>5. DOMAIN tn = 0 .. NWords - 1 /\ \A q \in 0 .. NWords - 1 : tn[q] \subseteq Word
  BY NodeIs DEF Node, NWords
<1>6. w \in 0 .. NWords - 1
  <2>1. b + 0 < WordBits /\ 0 \in 0 .. Width - 1
    BY <1>1, <1>2
  <2>2. Split(Pos(id) * Width + 0, WordBits, w, b + 0)
    BY <2>1, FieldPlace
  <2> QED BY <1>2, <2>1, <2>2, FieldEnd
<1>7. Crosses(id) <=> Width > k
  BY DEF Crosses
<1>8. Crosses(id) => w + 1 \in 0 .. NWords - 1
  <2> SUFFICES ASSUME Crosses(id) PROVE w + 1 \in 0 .. NWords - 1
    OBVIOUS
  <2> DEFINE i == Width - 1
  <2> HIDE DEF w, b
  <2>1. i \in 0 .. Width - 1 /\ b + i >= WordBits
    BY <1>1, <1>2, <1>7
  <2>2. Split(Pos(id) * Width + i, WordBits, w + 1, b + i - WordBits)
    <3> HIDE DEF i
    <3> QED BY <2>1, FieldPlace DEF w, b
  <2> HIDE DEF i
  <2> QED BY <1>2, <2>1, <2>2, FieldEnd
<1> HIDE DEF w, b, v
<1>9. k \in Nat /\ k >= 1 /\ k = WordBits - b
  BY <1>1, <1>2
<1>10. \A r \in 0 .. WordBits - 1 : r \in lo <=> r - b \in 0 .. Width - 1
  <2> SUFFICES ASSUME NEW r \in 0 .. WordBits - 1 PROVE r \in lo <=> r - b \in 0 .. Width - 1
    OBVIOUS
  <2>1. ASSUME r \in lo PROVE r - b \in 0 .. Width - 1
    <3>1. PICK x \in 0 .. Width - 1 : r = x + b
      BY <2>1 DEF Shl, tnode_mask
    <3> QED BY <3>1, <1>1, <1>2
  <2>2. ASSUME r - b \in 0 .. Width - 1 PROVE r \in lo
    <3>1. (r - b) + b = r
      BY <1>1, <1>2
    <3> QED BY <2>2, <3>1 DEF Shl, tnode_mask, Word
  <2> QED BY <2>1, <2>2
<1>11. \A r \in 0 .. WordBits - 1 : r \in Shl(v, b) <=> r - b \in v
  <2> SUFFICES ASSUME NEW r \in 0 .. WordBits - 1 PROVE r \in Shl(v, b) <=> r - b \in v
    OBVIOUS
  <2>1. ASSUME r \in Shl(v, b) PROVE r - b \in v
    <3>1. PICK x \in v : r = x + b
      BY <2>1 DEF Shl
    <3>2. r - b = x
      BY <3>1, <1>1, <1>2, <1>3
    <3> QED BY <3>1, <3>2
  <2>2. ASSUME r - b \in v PROVE r \in Shl(v, b)
    <3>1. (r - b) + b = r
      BY <1>1, <1>2
    <3> QED BY <2>2, <3>1 DEF Shl, Word
  <2> QED BY <2>1, <2>2
<1>12. \A r \in 0 .. WordBits - 1 : r \in hi <=> r + k \in 0 .. Width - 1
  <2> SUFFICES ASSUME NEW r \in 0 .. WordBits - 1 PROVE r \in hi <=> r + k \in 0 .. Width - 1
    OBVIOUS
  <2> HIDE DEF k
  <2>1. ASSUME r \in hi PROVE r + k \in 0 .. Width - 1
    <3>1. PICK x \in 0 .. Width - 1 : x >= k /\ r = x - k
      BY <2>1 DEF Shr, tnode_mask
    <3> QED BY <3>1, <1>1, <1>9
  <2>2. ASSUME r + k \in 0 .. Width - 1 PROVE r \in hi
    <3>1. (r + k) - k = r /\ r + k >= k
      BY <1>1, <1>9
    <3> QED BY <2>2, <3>1 DEF Shr, tnode_mask
  <2> QED BY <2>1, <2>2
<1>13. \A r \in 0 .. WordBits - 1 : r \in Shr(v, k) <=> r + k \in v
  <2> SUFFICES ASSUME NEW r \in 0 .. WordBits - 1 PROVE r \in Shr(v, k) <=> r + k \in v
    OBVIOUS
  <2> HIDE DEF k
  <2>1. ASSUME r \in Shr(v, k) PROVE r + k \in v
    <3>1. PICK x \in v : x >= k /\ r = x - k
      BY <2>1 DEF Shr
    <3>2. r + k = x
      BY <3>1, <1>1, <1>3, <1>9
    <3> QED BY <3>1, <3>2
  <2>2. ASSUME r + k \in v PROVE r \in Shr(v, k)
    <3>1. (r + k) - k = r /\ r + k >= k
      BY <1>1, <1>9
    <3> QED BY <2>2, <3>1 DEF Shr
  <2> QED BY <2>1, <2>2
<1>14. lo \subseteq Word /\ hi \subseteq Word
  <2>1. lo \subseteq Word
    BY DEF Shl
  <2>2. ASSUME NEW r \in hi PROVE r \in Word
    <3> HIDE DEF k
    <3>1. PICK x \in 0 .. Width - 1 : x >= k /\ r = x - k
      BY DEF Shr, tnode_mask
    <3> QED BY <3>1, <1>1, <1>9 DEF Word
  <2> QED BY <2>1, <2>2
<1> DEFINE sl == Shl(v, b)  sr == Shr(v, k)
<1> HIDE DEF lo, hi, k, sl, sr
<1>15. one \in [0 .. NWords - 1 -> SUBSET Word] /\ two \in [0 .. NWords - 1 -> SUBSET Word]
  BY <1>5, <1>14 DEF Node, NWords, Word, WordBits
<1>16. new \in Node(geo)
  BY <1>15 DEF Node, NWords, Word, WordBits
<1>17. /\ one[w] = (tn[w] \ lo) \cup (lo \cap sl)
       /\ \A q \in 0 .. NWords - 1 : q # w => one[q] = tn[q]
  BY <1>5, <1>6 DEF sl
<1>18. Crosses(id) => /\ two[w + 1] = (one[w + 1] \ hi) \cup (hi \cap sr)
                      /\ \A q \in 0 .. NWords - 1 : q # w + 1 => two[q] = one[q]
  BY <1>5, <1>8 DEF sr
<1> HIDE DEF one, two
<1>19. ASSUME NEW q \in 0 .. NWords - 1, NEW r \in 0 .. WordBits - 1
       PROVE  LET d == q * WordBits + r - Pos(id) * Width
              IN  r \in new[q] <=> IF d \in 0 .. Width - 1 THEN d \in v ELSE r \in tn[q]
  <2> DEFINE d == q * WordBits + r - Pos(id) * Width
  <2>1. CASE q = w
    <3>1. d = r - b
      <4>1. q * WordBits \in Int
        BY <1>1
      <4> QED BY <1>1, <1>2, <2>1, <4>1
    <3>2. new[q] = one[w]
      <4>1. w # w + 1
        BY <1>2
      <4> QED BY <1>6, <1>18, <2>1, <4>1
    <3> HIDE DEF d, new
    <3>3. r \in one[w] <=> IF d \in 0 .. Width - 1 THEN d \in v ELSE r \in tn[w]
      BY <1>3, <1>10, <1>11, <1>17, <3>1 DEF sl
    <3> QED BY <2>1, <3>2, <3>3 DEF d
  <2>2. CASE q = w + 1
    <3>1. d = r + k
      <4>1. (w + 1) * WordBits = w * WordBits + WordBits /\ w * WordBits \in Int
        BY <1>1, <1>2
      <4> QED BY <1>1, <1>2, <1>9, <2>2, <4>1
    <3>2. one[q] = tn[q]
      <4>1. q # w
        BY <1>2, <2>2
      <4> QED BY <1>17, <4>1
    <3>3. d \in 0 .. Width - 1 => Crosses(id)
      <4> HIDE DEF d
      <4> QED BY <1>1, <1>7, <1>9, <3>1
    <3>4. new[q] = IF Crosses(id) THEN (tn[q] \ hi) \cup (hi \cap sr) ELSE tn[q]
      BY <1>18, <2>2, <3>2
    <3> HIDE DEF d, new
    <3>5. r \in new[q] <=> IF d \in 0 .. Width - 1 THEN d \in v ELSE r \in tn[q]
      BY <1>3, <1>12, <1>13, <3>1, <3>3, <3>4 DEF sr
    <3> QED BY <3>5 DEF d
  <2>3. CASE q # w /\ q # w + 1
    <3>1. new[q] = tn[q]
      BY <1>17, <1>18, <2>3
    <3>2. d \notin 0 .. Width - 1
      <4>1. q < w => q * WordBits + WordBits <= w * WordBits
        BY <1>1, <1>2, TimesLess
      <4>2. q > w + 1 => (w + 1) * WordBits + WordBits <= q * WordBits
        BY <1>1, <1>2, TimesLess
      <4>3. (w + 1) * WordBits = w * WordBits + WordBits /\ w * WordBits \in Int /\ q * WordBits \in Int
        BY <1>1, <1>2
      <4>4. q < w \/ q > w + 1
        BY <1>2, <2>3
      <4> DEFINE x == q * WordBits  y == w * WordBits
      <4>5. x \in Int /\ y \in Int /\ d = x + r - (y + b) /\ (x + WordBits <= y \/ y + WordBits + WordBits <= x)
        BY <1>2, <4>1, <4>2, <4>3, <4>4
      <4> HIDE DEF x, y, d
      <4> QED BY <1>1, <1>2, <4>5
    <3> QED BY <3>1, <3>2
  <2> QED BY <2>1, <2>2, <2>3
<1> QED BY <1>4, <1>16, <1>19 DEF v

(* Loading a field changes that one and no other.                            *)
LEMMA LoadField ==
  ASSUME geo \in Initialised, NEW id \in Nat, NEW tn \in Node(geo), NEW val \in Nat
  PROVE  /\ load_tnode_0(tn, id, val) \in Node(geo)
         /\ Fields(load_tnode_0(tn, id, val), Pos(id)) = ToBits(val \div GrpSize)
         /\ \A p \in 0 .. Pow2[L0Bits] - 1 : p # Pos(id) =>
              Fields(load_tnode_0(tn, id, val), p) = Fields(tn, p)
<1> DEFINE new == load_tnode_0(tn, id, val)
           v == ToBits(val \div GrpSize)
<1>1. WordBits \in Pos1 /\ Width \in Pos1 /\ NWords \in Nat /\ v \subseteq 0 .. Width - 1
      /\ Pos(id) \in 0 .. Pow2[L0Bits] - 1
  BY GeoFacts, FieldStart DEF ToBits
<1>2. new \in Node(geo)
  BY LoadBit
<1> HIDE DEF new, v
<1>3. ASSUME NEW p \in 0 .. Pow2[L0Bits] - 1, NEW j \in 0 .. Width - 1
      PROVE  LET d == p * Width + j - Pos(id) * Width
             IN  Bit(new, WordBits, p * Width + j) <=>
                   IF d \in 0 .. Width - 1 THEN d \in v ELSE Bit(tn, WordBits, p * Width + j)
  <2> DEFINE K == p * Width + j  q == K \div WordBits  r == K % WordBits
  <2>1. K \in Nat
    BY <1>1 DEF Pos1
  <2>2. Split(K, WordBits, q, r)
    <3> HIDE DEF K
    <3> QED BY <1>1, <2>1, DivSplit
  <2> HIDE DEF q, r
  <2>3. q \in 0 .. NWords - 1
    BY <2>2, FieldEnd
  <2>4. r \in 0 .. WordBits - 1 /\ K = q * WordBits + r
    BY <2>2 DEF Split
  <2>5. (Bit(new, WordBits, K) <=> r \in new[q]) /\ (Bit(tn, WordBits, K) <=> r \in tn[q])
    <3> HIDE DEF K
    <3> QED BY <1>1, <2>1, <2>2, BitIs
  <2>6. LET d == q * WordBits + r - Pos(id) * Width
        IN  r \in new[q] <=> IF d \in 0 .. Width - 1 THEN d \in v ELSE r \in tn[q]
    BY <2>3, <2>4, LoadBit DEF new, v
  <2> DEFINE P == Pos(id) * Width  A == q * WordBits  B == p * Width
  <2>7. A + r - P = B + j - P
    <3>1. A \in Int /\ r \in Int /\ P \in Int /\ B \in Int /\ j \in Int /\ A + r = B + j
      BY <1>1, <2>3, <2>4, GeoFacts DEF Pos1
    <3> HIDE DEF A, B, P
    <3> QED BY <3>1
  <2>8. r \in new[q] <=> IF A + r - P \in 0 .. Width - 1 THEN A + r - P \in v ELSE r \in tn[q]
    BY <2>6, Zenon
  <2> HIDE DEF A
  <2>9. r \in new[q] <=> IF B + j - P \in 0 .. Width - 1 THEN B + j - P \in v ELSE r \in tn[q]
    BY <2>7, <2>8, Zenon
  <2> QED BY <2>5, <2>9, Zenon
<1>4. Fields(new, Pos(id)) = v
  <2>1. ASSUME NEW j \in 0 .. Width - 1 PROVE Bit(new, WordBits, Pos(id) * Width + j) <=> j \in v
    <3> DEFINE P == Pos(id) * Width
    <3>1. P \in Nat
      BY <1>1 DEF Pos1
    <3>2. LET d == P + j - P IN Bit(new, WordBits, P + j) <=>
                   IF d \in 0 .. Width - 1 THEN d \in v ELSE Bit(tn, WordBits, P + j)
      BY <1>1, <1>3
    <3> HIDE DEF P
    <3>3. P + j - P = j
      BY <3>1
    <3> QED BY <3>2, <3>3 DEF P
  <2> QED BY <1>1, <2>1 DEF Fields, Field
<1>5. ASSUME NEW p \in 0 .. Pow2[L0Bits] - 1, p # Pos(id)
      PROVE  Fields(new, p) = Fields(tn, p)
  <2>1. ASSUME NEW j \in 0 .. Width - 1
        PROVE  Bit(new, WordBits, p * Width + j) <=> Bit(tn, WordBits, p * Width + j)
    <3> DEFINE d == p * Width + j - Pos(id) * Width
    <3>1. d \notin 0 .. Width - 1
      <4> SUFFICES ASSUME d \in 0 .. Width - 1 PROVE FALSE
        OBVIOUS
      <4>1. p * Width + j \in Nat /\ Pos(id) * Width \in Nat /\ p \in Nat /\ Pos(id) \in Nat
        BY <1>1 DEF Pos1
      <4> DEFINE n == p * Width + j
      <4>2. n = Pos(id) * Width + d
        <5> DEFINE A == p * Width  P == Pos(id) * Width
        <5>1. A \in Int /\ P \in Int /\ j \in Int
          BY <1>1, <4>1 DEF Pos1
        <5>2. A + j = P + (A + j - P)
          <6> HIDE DEF A, P
          <6> QED BY <5>1
        <5> QED BY <5>2, Zenon
      <4>3. Split(n, Width, p, j)
        BY <4>1 DEF Split
      <4>4. Split(n, Width, Pos(id), d)
        <5> HIDE DEF n, d
        <5> QED BY <4>1, <4>2 DEF Split
      <4> HIDE DEF n, d
      <4> QED BY <1>1, <1>5, <4>1, <4>3, <4>4, SplitUnique DEF n
    <3> QED BY <1>3, <3>1
  <2> QED BY <2>1 DEF Fields, Field
<1> QED BY <1>2, <1>4, <1>5 DEF new, v

LEMMA EmptyField ==
  ASSUME geo \in Initialised, NEW p \in 0 .. Pow2[L0Bits] - 1
  PROVE  Empty \in Node(geo) /\ Fields(Empty, p) = {}
<1>1. Empty \in Node(geo)
  BY DEF Empty, Node, NWords
<1>2. ASSUME NEW j \in 0 .. Width - 1 PROVE ~Bit(Empty, WordBits, p * Width + j)
  <2> DEFINE K == p * Width + j  q == K \div WordBits  r == K % WordBits
  <2>1. K \in Nat /\ WordBits \in Pos1
    BY GeoFacts DEF Pos1
  <2>2. Split(K, WordBits, q, r)
    <3> HIDE DEF K
    <3> QED BY <2>1, DivSplit
  <2> HIDE DEF q, r
  <2>3. q \in 0 .. NWords - 1
    BY <2>2, FieldEnd
  <2>4. Bit(Empty, WordBits, K) <=> r \in Empty[q]
    <3> HIDE DEF K
    <3> QED BY <2>1, <2>2, BitIs
  <2>5. Empty[q] = {}
    BY <2>3 DEF Empty
  <2> QED BY <2>4, <2>5
<1> QED BY <1>1, <1>2 DEF Fields, Field

(* The number of a set of bits.                                              *)
LEMMA FromBitsDef ==
  ASSUME geo \in Initialised, NEW bs
  PROVE  \E low \in [0 .. Width -> Nat] :
           /\ low[0] = 0 /\ FromBits(bs) = low[Width]
           /\ \A k \in 1 .. Width : low[k] = low[k - 1] + (IF k - 1 \in bs THEN Pow2[k - 1] ELSE 0)
<1> DEFINE W == Width
           add(k) == IF k - 1 \in bs THEN Pow2[k - 1] ELSE 0
           step == [x \in Nat \X (1 .. W) |-> x[1] + add(x[2])]
           F(f) == f = [n \in 0 .. W |-> IF n = 0 THEN 0 ELSE f[n - 1] + add(n)]
           low == CHOOSE g : F(g)
<1>0. W \in Nat
  BY GeoFacts DEF Pos1
<1>1. \A k \in 1 .. W : add(k) \in Nat
  BY <1>0, Pow2Def DEF Pos1
<1>2. FromBits(bs) = low[W]
  BY DEF FromBits
<1> HIDE DEF add, W
<1>3. step \in [Nat \X (1 .. W) -> Nat]
  BY <1>0, <1>1
<1>4. PICK f : Solves(f, Nat, 0, W, step)
  <2>1. IsStep(Nat, W, step)
    BY <1>3 DEF IsStep
  <2> HIDE DEF step
  <2> QED BY <1>0, <2>1, RecursionExists
<1>5. f \in [0 .. W -> Nat] /\ f[0] = 0 /\ \A k \in 1 .. W : f[k] = f[k - 1] + add(k)
  <2>1. f \in [0 .. W -> Nat] /\ f[0] = 0 /\ \A k \in 1 .. W : f[k] = step[<<f[k - 1], k>>]
    <3> HIDE DEF step
    <3> QED BY <1>4 DEF Solves
  <2>2. ASSUME NEW k \in 1 .. W PROVE f[k] = f[k - 1] + add(k)
    <3>1. <<f[k - 1], k>> \in Nat \X (1 .. W)
      BY <1>0, <2>1
    <3> QED BY <2>1, <3>1
  <2> QED BY <2>1, <2>2
<1>6. F(f)
  <2>1. \A n \in 0 .. W : f[n] = IF n = 0 THEN 0 ELSE f[n - 1] + add(n)
    BY <1>0, <1>5
  <2> QED BY <2>1, <1>5
<1>7. F(low)
  BY <1>6
<1> HIDE DEF low
<1>8. low[0] = 0 /\ \A k \in 1 .. W : low[k] = low[k - 1] + add(k)
  BY <1>0, <1>7
<1> DEFINE T == {k \in 0 .. W : low[k] \in Nat}
<1>9. 0 \in T
  BY <1>0, <1>8
<1>10. ASSUME NEW k \in 1 .. W, k - 1 \in T PROVE k \in T
  BY <1>0, <1>1, <1>8, <1>10
<1>11. \A k \in 0 .. W : k \in T
  <2> HIDE DEF T
  <2> QED BY <1>0, <1>9, <1>10, UpTo
<1>12. low \in [0 .. W -> Nat]
  <2>1. \A k \in 0 .. W : low[k] \in Nat
    BY <1>11
  <2> QED BY <1>7, <2>1
<1> QED BY <1>2, <1>8, <1>12 DEF add, W

LEMMA FromNoBits ==
  ASSUME geo \in Initialised
  PROVE  FromBits({}) = 0
<1>0. Width \in Nat
  BY GeoFacts DEF Pos1
<1>1. PICK low \in [0 .. Width -> Nat] : low[0] = 0 /\ FromBits({}) = low[Width]
                                         /\ \A k \in 1 .. Width : low[k] = low[k - 1] + 0
  <2>1. \E low \in [0 .. Width -> Nat] :
           /\ low[0] = 0 /\ FromBits({}) = low[Width]
           /\ \A k \in 1 .. Width : low[k] = low[k - 1] + (IF k - 1 \in {} THEN Pow2[k - 1] ELSE 0)
    BY FromBitsDef
  <2> QED BY <2>1
<1> DEFINE T == {k \in 0 .. Width : low[k] = 0}
<1>2. 0 \in T
  BY <1>0, <1>1
<1>3. ASSUME NEW k \in 1 .. Width, k - 1 \in T PROVE k \in T
  BY <1>0, <1>1, <1>3
<1>4. \A k \in 0 .. Width : k \in T
  <2> HIDE DEF T
  <2> QED BY <1>0, <1>2, <1>3, UpTo
<1> QED BY <1>0, <1>1, <1>4

LEMMA FromToBits ==
  ASSUME geo \in Initialised, NEW n \in 0 .. Pow2[Width] - 1
  PROVE  FromBits(ToBits(n)) = n
<1>0. Width \in Nat /\ n \in Nat /\ Pow2[Width] \in Pos1
  BY GeoFacts, Pow2Def DEF Pos1
<1>1. PICK low \in [0 .. Width -> Nat] :
           /\ low[0] = 0 /\ FromBits(ToBits(n)) = low[Width]
           /\ \A k \in 1 .. Width : low[k] = low[k - 1] + (IF k - 1 \in ToBits(n) THEN Pow2[k - 1] ELSE 0)
  BY FromBitsDef
<1> DEFINE T == {k \in 0 .. Width : \E x \in Nat : Split(n, Pow2[k], x, low[k])}
<1>2. 0 \in T
  <2>1. Split(n, 1, n, 0)
    BY <1>0 DEF Split
  <2>2. Split(n, Pow2[0], n, low[0])
    BY <1>1, <2>1, Pow2Def
  <2> QED BY <1>0, <2>2
<1>3. ASSUME NEW k \in 1 .. Width, k - 1 \in T PROVE k \in T
  <2> DEFINE a == Pow2[k - 1]  q == n \div a  x == q \div 2  y == q % 2
  <2>1. k - 1 \in Nat /\ (k - 1) + 1 = k /\ k - 1 \in 0 .. Width - 1
    BY <1>0
  <2>2. a \in Pos1 /\ Pow2[k] = 2 * a
    BY <2>1, Pow2Def
  <2>3. PICK z \in Nat : Split(n, a, z, low[k - 1])
    BY <1>3
  <2>4. q = z /\ q \in Nat
    <3> HIDE DEF a
    <3>1. n \div a = z
      BY <1>0, <2>2, <2>3, DivIs, Zenon
    <3> QED BY <3>1
  <2>5. k - 1 \in ToBits(n) <=> y = 1
    BY <2>1, Zenon DEF ToBits
  <2> HIDE DEF a
  <2>6. 2 \in Pos1 /\ Split(q, 2, x, y)
    <3>1. 2 \in Pos1
      BY DEF Pos1
    <3> HIDE DEF q
    <3> QED BY <2>4, <3>1, DivSplit
  <2>7. Split(n, a * 2, x, y * a + low[k - 1])
    <3> HIDE DEF q, x, y
    <3> QED BY <1>0, <2>2, <2>3, <2>4, <2>6, SplitTwice
  <2> HIDE DEF q, x, y
  <2>8. y \in {0, 1} /\ x \in Nat
    BY <2>6 DEF Split
  <2>9. low[k - 1] \in Nat /\ a \in Nat
    <3>1. k - 1 \in 0 .. Width /\ a \in Nat
      BY <1>0, <2>1, <2>2 DEF Pos1
    <3> QED BY <1>1, <3>1
  <2>10. low[k] = y * a + low[k - 1]
    <3>1. low[k] = low[k - 1] + (IF k - 1 \in ToBits(n) THEN a ELSE 0)
      BY <1>1 DEF a
    <3>2. y = 1 => low[k] = low[k - 1] + a
      BY <2>5, <3>1
    <3>3. y = 0 => low[k] = low[k - 1] + 0
      BY <2>5, <3>1
    <3> QED BY <2>8, <2>9, <3>2, <3>3
  <2>11. a * 2 = 2 * a
    BY <2>9
  <2> QED BY <1>0, <2>2, <2>7, <2>8, <2>10, <2>11
<1>4. \A k \in 0 .. Width : k \in T
  <2> HIDE DEF T
  <2> QED BY <1>0, <1>2, <1>3, UpTo
<1>5. PICK x \in Nat : Split(n, Pow2[Width], x, low[Width])
  BY <1>0, <1>4
<1>6. Split(n, Pow2[Width], 0, n)
  <2> DEFINE v == Pow2[Width]
  <2>1. v \in Nat /\ n \in 0 .. v - 1
    BY <1>0 DEF Pos1
  <2> HIDE DEF v
  <2>2. 0 * v = 0
    BY <2>1
  <2>3. n = 0 * v + n
    BY <1>0, <2>2
  <2>4. Split(n, v, 0, n)
    BY <1>0, <2>1, <2>3 DEF Split
  <2> QED BY <2>4 DEF v
<1>7. low[Width] = n
  BY <1>0, <1>5, <1>6, SplitUnique
<1> QED BY <1>1, <1>7

LEMMA NoBits ==
  ASSUME geo \in Initialised
  PROVE  ToBits(0 \div GrpSize) = {}
<1>1. \A w \in Pos1 : 0 \div w = 0
  <2> SUFFICES ASSUME NEW w \in Pos1 PROVE 0 \div w = 0
    OBVIOUS
  <2>1. 0 < w /\ 0 \in Nat
    BY DEF Pos1
  <2> QED BY <2>1, DivLess, Zenon
<1>2. 0 \div GrpSize = 0
  BY <1>1, GeoFacts, Zenon
<1>3. ASSUME NEW b \in 0 .. Width - 1 PROVE ~((0 \div Pow2[b]) % 2 = 1)
  <2>0. Width \in Nat
    BY GeoFacts DEF Pos1
  <2>1. Pow2[b] \in Pos1
    BY <2>0, Pow2Def
  <2>2. 0 \div Pow2[b] = 0
    BY <1>1, <2>1, Zenon
  <2>3. 0 % 2 # 1
    OBVIOUS
  <2> QED BY <2>2, <2>3, Zenon
<1>4. ToBits(0) = {}
  BY <1>3, Zenon DEF ToBits
<1> QED BY <1>2, <1>4, Zenon

-----------------------------------------------------------------------------
(* The invariant.  Its parts are operators of the geometry g and the state. *)

Leaf(g, id) == id \div Pow2[g.g.l0Bits]
PlaceIn(g, id) == id % Pow2[g.g.l0Bits]

\* Every node is below the top and all nodes above it exist.
Shape(g, t, ws, ins) ==
  /\ t \in 0 .. g.g.maxLevel
  /\ DOMAIN ws \subseteq Nat /\ IsFiniteSet(DOMAIN ws) /\ 0 \in DOMAIN ws
  /\ ws \in [DOMAIN ws -> Node(g)]
  /\ ins \subseteq (1 .. t) \X Nat /\ IsFiniteSet(ins)
  /\ \A i \in DOMAIN ws : Up(g.g.l1Bits, i, t) = 0 /\ \A l \in 1 .. t : <<l, Up(g.g.l1Bits, i, l)>> \in ins
  /\ \A l, i \in Nat : <<l, i>> \in ins =>
       Up(g.g.l1Bits, i, t - l) = 0 /\ (l < t => <<l + 1, Up(g.g.l1Bits, i, 1)>> \in ins)

Counted(ws, ins, n) == n = Cardinality(DOMAIN ws) + Cardinality(ins)

\* The entry of a chunk of the file, and the entry that leads to a chunk c
Entry(g, ws, id) == Field(ws[Leaf(g, id)], g.g.wordBits, g.width, PlaceIn(g, id))
EntryFor(g, c) == {b \in 0 .. g.width - 1 : ((c \div g.grpSize) \div Pow2[b]) % 2 = 1}

\* A chunk with tags of the file is where the tree leads to, and no other entry leads anywhere.
Owns(g, own) ==
  /\ own \in [g.g.nand -> g.g.ids \cup {Nobody, Stranger}]
  /\ \A c, d \in g.g.nand : own[c] = own[d] /\ own[c] >= 0 => c = d
Leads(g, ws, own) ==
  /\ \A c \in g.g.nand : own[c] >= 0 =>
       Leaf(g, own[c]) \in DOMAIN ws /\ Entry(g, ws, own[c]) = EntryFor(g, c)
  /\ \A id \in Nat : Leaf(g, id) \in DOMAIN ws /\ (\A c \in g.g.nand : own[c] # id) => Entry(g, ws, id) = {}

\* Where a chunk of the file is, by the tags
Home(nand, own, id) == IF \E c \in nand : own[c] = id THEN CHOOSE c \in nand : own[c] = id ELSE -1

\* The tree, and the table as the history of what it answers
Tree(g, t, ws, ins, n, own) ==
  g \in Initialised /\ Shape(g, t, ws, ins) /\ Counted(ws, ins, n) /\ Owns(g, own) /\ Leads(g, ws, own)
TreeInv ==
  /\ Tree(geo, top, words, inner, count, owner)
  /\ table = [id \in AllIds |-> Home(geo.g.nand, owner, id)]

-----------------------------------------------------------------------------
(* The way to a node                                                       *)

LEMMA GeoNames ==
  ASSUME geo \in Initialised
  PROVE  /\ WordBits = geo.g.wordBits /\ L0Bits = geo.g.l0Bits /\ L1Bits = geo.g.l1Bits
         /\ MaxLevel = geo.g.maxLevel /\ Ids = geo.g.ids /\ Nand = geo.g.nand
         /\ Width = geo.width /\ GrpSize = geo.grpSize /\ NWords = geo.nWords
BY DEF WordBits, L0Bits, L1Bits, MaxLevel, Ids, Nand, Width, GrpSize, NWords

LEMMA LeafIs ==
  ASSUME geo \in Initialised, NEW id \in Nat
  PROVE  /\ Leaf(geo, id) \in Nat /\ PlaceIn(geo, id) = Pos(id)
         /\ Split(id, Pow2[L0Bits], Leaf(geo, id), PlaceIn(geo, id))
<1>1. Pow2[L0Bits] \in Pos1 /\ L0Bits = geo.g.l0Bits
  BY GeoFacts, GeoNames, Pow2Def DEF Pos1
<1>2. Split(id, Pow2[L0Bits], id \div Pow2[L0Bits], id % Pow2[L0Bits])
  BY <1>1, DivSplit
<1>3. Split(id, Pow2[L0Bits], Leaf(geo, id), PlaceIn(geo, id)) /\ PlaceIn(geo, id) = Pos(id)
  BY <1>1, <1>2, Zenon DEF Leaf, PlaceIn, Pos
<1> QED BY <1>3 DEF Split

LEMMA SameChunk ==
  ASSUME geo \in Initialised, NEW id \in Nat, NEW jd \in Nat,
         Leaf(geo, id) = Leaf(geo, jd), PlaceIn(geo, id) = PlaceIn(geo, jd)
  PROVE  id = jd
BY LeafIs DEF Split

LEMMA IndexIs ==
  ASSUME geo \in Initialised, NEW id \in Nat, NEW l \in Nat
  PROVE  Index(id, l) = Up(L1Bits, Leaf(geo, id), l)
<1> DEFINE a == Pow2[L0Bits]  b == Pow2[l * L1Bits]
<1>1. L0Bits \in Nat /\ L1Bits \in Pos1 /\ L0Bits = geo.g.l0Bits
  BY GeoFacts, GeoNames DEF Pos1
<1>2. l * L1Bits \in Nat /\ b \in Pos1
  BY <1>1, LevelBits
<1>3. a \in Pos1
  BY <1>1, Pow2Def
<1>4. a * b = Pow2[L0Bits + l * L1Bits]
  BY <1>1, <1>2, Pow2Sum
<1>5. (id \div a) \div b = id \div (a * b)
  <2> HIDE DEF a, b
  <2> QED BY <1>2, <1>3, DivTwice
<1>6. (id \div a) \div b = id \div Pow2[L0Bits + l * L1Bits]
  BY <1>4, <1>5, Zenon
<1> QED BY <1>1, <1>6, Zenon DEF Index, Up, Leaf, a, b

LEMMA IndexLeaf ==
  ASSUME geo \in Initialised, NEW id \in Nat
  PROVE  Index(id, 0) = Leaf(geo, id)
BY IndexIs, UpNone, LeafIs, GeoFacts

LEMMA AboveIs ==
  ASSUME geo \in Initialised, NEW i, NEW l
  PROVE  Above(i, l) = Up(L1Bits, i, l)
BY Zenon DEF Above, Up

LEMMA TooLargeIs ==
  ASSUME geo \in Initialised, NEW id \in Nat
  PROVE  TooLarge(id) <=> Up(L1Bits, Leaf(geo, id), MaxLevel) # 0
<1>1. L0Bits \in Nat /\ L1Bits \in Pos1 /\ MaxLevel \in Nat
  BY GeoFacts DEF Pos1
<1>2. L1Bits * MaxLevel = MaxLevel * L1Bits /\ L0Bits + MaxLevel * L1Bits \in Nat
  BY <1>1 DEF Pos1
<1> DEFINE w == Pow2[L0Bits + MaxLevel * L1Bits]
<1>3. w \in Pos1
  BY <1>2, Pow2Def
<1>4. TooLarge(id) <=> id >= w
  BY <1>2 DEF TooLarge
<1>5. Index(id, MaxLevel) = id \div w
  BY Zenon DEF Index
<1> HIDE DEF w
<1>6. id \div w = 0 <=> id < w
  BY <1>3, DivLess, Zenon
<1>7. id >= w <=> ~(id < w)
  BY <1>3 DEF Pos1
<1>8. Index(id, MaxLevel) = 0 <=> id < w
  BY <1>5, <1>6, Zenon
<1> QED BY <1>1, <1>4, <1>7, <1>8, IndexIs

LEMMA DepthIs ==
  ASSUME geo \in Initialised, NEW id \in Nat, NEW n \in 0 .. 31, Up(L1Bits, Leaf(geo, id), n) = 0
  PROVE  /\ required_depth(id) \in 0 .. n
         /\ \A l \in Nat : Up(L1Bits, Leaf(geo, id), l) = 0 <=> required_depth(id) <= l
<1> DEFINE i == Leaf(geo, id)  d == required_depth(id)
<1>1. L1Bits \in Pos1 /\ i \in Nat
  BY GeoFacts, LeafIs
<1>2. PICK x \in 0 .. n : Up(L1Bits, i, x) = 0 /\ (x = 0 \/ Up(L1Bits, i, x - 1) # 0)
  <2> HIDE DEF i
  <2> QED BY <1>1, UpLeast DEF i
<1>3. \A l \in Nat : Index(id, l) = Up(L1Bits, i, l)
  BY IndexIs
<1>4. \E l \in 0 .. 31 : Index(id, l) = 0 /\ (l = 0 \/ Index(id, l - 1) # 0)
  <2>1. x \in 0 .. 31 /\ x \in Nat /\ (x # 0 => x - 1 \in Nat)
    OBVIOUS
  <2>2. Index(id, x) = 0 /\ (x = 0 \/ Index(id, x - 1) # 0)
    BY <1>2, <1>3, <2>1
  <2> QED BY <2>1, <2>2
<1>5. d \in 0 .. 31 /\ Index(id, d) = 0 /\ (d = 0 \/ Index(id, d - 1) # 0)
  BY <1>4 DEF required_depth
<1> HIDE DEF i, d
<1>6. d \in Nat /\ Up(L1Bits, i, d) = 0 /\ (d = 0 \/ (d - 1 \in Nat /\ Up(L1Bits, i, d - 1) # 0))
  BY <1>3, <1>5
<1>7. ASSUME NEW l \in Nat PROVE Up(L1Bits, i, l) = 0 <=> d <= l
  <2>1. d <= l => Up(L1Bits, i, l) = 0
    BY <1>1, <1>6, UpStays
  <2>2. ASSUME ~(d <= l) PROVE Up(L1Bits, i, l) # 0
    <3>1. d # 0 /\ l <= d - 1 /\ d - 1 \in Nat
      BY <1>6, <2>2
    <3> QED BY <1>1, <1>6, <3>1, UpStays
  <2> QED BY <2>1, <2>2
<1>8. d <= n
  BY <1>7 DEF i
<1> QED BY <1>5, <1>7, <1>8 DEF i, d

LEMMA UnderIs ==
  ASSUME geo \in Initialised, NEW id \in Nat, NEW t \in Nat, NEW l \in 0 .. t,
         Up(L1Bits, Leaf(geo, id), t) = 0
  PROVE  Under(id, l, t) = Up(L1Bits, Leaf(geo, id), l)
<1> DEFINE i == Leaf(geo, id)  x == Up(L1Bits, i, l)  m == t - l
<1>1. L1Bits \in Pos1 /\ i \in Nat /\ l \in Nat /\ m \in Nat /\ l + m = t
  BY GeoFacts, LeafIs
<1> HIDE DEF i
<1>2. x \in Nat
  BY <1>1, UpType
<1>3. Up(L1Bits, x, m) = 0
  BY <1>1, UpUp DEF i
<1>4. L1Bits * m = m * L1Bits
  BY <1>1 DEF Pos1
<1>5. Pow2[m * L1Bits] \in Pos1
  BY <1>1, LevelBits
<1> HIDE DEF x, m
<1>6. x % Pow2[m * L1Bits] = x
  BY <1>2, <1>3, <1>5, DivLess, Zenon DEF Up
<1>7. Index(id, l) = x
  BY <1>1, IndexIs DEF i, x
<1> QED BY <1>4, <1>6, <1>7, Zenon DEF Under, i, x, m

(* yaffs_find_tnode_0 finds a node that exists.                              *)
LEMMA FindNode ==
  ASSUME geo \in Initialised, NEW id \in Nat, NEW t, NEW ws, NEW ins, Shape(geo, t, ws, ins)
  PROVE  find_tnode_0(t, ws, ins, id) = IF Leaf(geo, id) \in DOMAIN ws THEN Leaf(geo, id) ELSE -1
<1> DEFINE i == Leaf(geo, id)
<1>1. L1Bits \in Pos1 /\ i \in Nat /\ MaxLevel \in Nat /\ MaxLevel <= 31 /\ t \in 0 .. MaxLevel
  BY GeoFacts, GeoNames, LeafIs DEF Shape
<1>2. t \in Nat /\ t \in 0 .. 31
  BY <1>1
<1>3. Up(L1Bits, i, 0) = i
  BY <1>1, UpNone
<1>4. CASE i \in DOMAIN ws
  <2>1. Up(L1Bits, i, t) = 0 /\ \A l \in 1 .. t : <<l, Up(L1Bits, i, l)>> \in ins
    BY <1>4, GeoNames DEF Shape
  <2>2. ~TooLarge(id)
    <3> HIDE DEF i
    <3>1. Up(L1Bits, i, MaxLevel) = 0
      BY <1>1, <1>2, <2>1, UpStays
    <3> QED BY <3>1, TooLargeIs DEF i
  <2>3. required_depth(id) \in 0 .. t
    BY <1>2, <2>1, DepthIs
  <2>4. ASSUME NEW l \in 0 .. t PROVE Exists(ws, ins, l, Under(id, l, t))
    <3>1. Under(id, l, t) = Up(L1Bits, i, l)
      BY <1>2, <2>1, UnderIs
    <3> QED BY <1>3, <1>4, <2>1, <3>1 DEF Exists
  <2>5. Under(id, 0, t) = i
    BY <1>2, <1>3, <2>1, UnderIs
  <2>6. ~(required_depth(id) > t)
    BY <1>2, <2>3
  <2> QED BY <1>4, <2>2, <2>4, <2>5, <2>6 DEF find_tnode_0
<1>5. CASE i \notin DOMAIN ws
  <2> SUFFICES ASSUME ~TooLarge(id), ~(required_depth(id) > t), \A l \in 0 .. t : Exists(ws, ins, l, Under(id, l, t))
               PROVE  FALSE
    BY <1>5 DEF find_tnode_0
  <2>1. Up(L1Bits, i, MaxLevel) = 0
    BY TooLargeIs
  <2>2. required_depth(id) \in Nat /\ (Up(L1Bits, i, t) = 0 <=> required_depth(id) <= t)
    BY <1>1, <1>2, <2>1, DepthIs
  <2>3. Up(L1Bits, i, t) = 0
    BY <1>2, <2>2
  <2>4. Under(id, 0, t) = i
    BY <1>2, <1>3, <2>3, UnderIs
  <2>5. 0 \in 0 .. t
    BY <1>2
  <2> QED BY <1>5, <2>4, <2>5 DEF Exists
<1> QED BY <1>4, <1>5

-----------------------------------------------------------------------------
(* What the tree answers                                                   *)

LEMMA HomeIs ==
  ASSUME NEW nand, NEW own, NEW id, NEW c \in nand, own[c] = id, \A d \in nand : own[d] = id => d = c
  PROVE  Home(nand, own, id) = c
BY DEF Home

LEMMA MinOne ==
  ASSUME NEW c \in Int
  PROVE  Min({c}) = c
BY DEF Min

LEMMA ChunkInGroup ==
  ASSUME geo \in Initialised, NEW id \in Nat, NEW c \in Nand, owner[c] = id,
         \A d \in Nand : owner[d] = id => d = c
  PROVE  find_chunk_in_group((c \div GrpSize) * GrpSize, id) = c
<1> DEFINE G == GrpSize  q == c \div G  r == c % G  base == q * G
           Good(x) == (IF x \in Nand THEN owner[x] ELSE Nobody) # Nobody /\ (G = 1 \/ TagsMatch(x, id))
<1>1. c \in Nat /\ G \in Pos1
  BY GeoFacts
<1>2. c \div GrpSize \in 1 .. Pow2[Width] - 1 /\ Width \in Nat /\ Pow2[Width] \in Nat
  BY GeoFacts, Pow2Def DEF Pos1
<1>3. Split(c, G, q, r)
  BY <1>1, DivSplit
<1>4. q >= 1 /\ q \in Nat
  <2>1. q \in 1 .. Pow2[Width] - 1 /\ Pow2[Width] \in Nat
    BY <1>2, Zenon
  <2> HIDE DEF q
  <2> QED BY <2>1
<1>5. find_chunk_in_group(base, id) =
        LET found == {x \in base .. base + G - 1 : Good(x)}
        IN  IF base = 0 \/ found = {} THEN -1 ELSE Min(found)
  BY Zenon DEF find_chunk_in_group
<1> HIDE DEF q, r
<1>6. r \in 0 .. G - 1 /\ c = base + r /\ base \in Nat /\ G \in Nat /\ base # 0
  BY <1>1, <1>3, <1>4 DEF Split, Pos1
<1> HIDE DEF base, G
<1>7. c \in base .. base + G - 1
  BY <1>6
<1>8. Good(c)
  BY DEF TagsMatch, Nobody
<1>9. ASSUME NEW x \in base .. base + G - 1, Good(x) PROVE x = c
  <2>1. x \in Nand
    BY <1>9
  <2>2. CASE G = 1
    BY <1>6, <2>2
  <2>3. CASE G # 1
    BY <1>9, <2>1, <2>3 DEF TagsMatch
  <2> QED BY <2>2, <2>3
<1> HIDE DEF Good
<1>10. {x \in base .. base + G - 1 : Good(x)} = {c}
  BY <1>7, <1>8, <1>9
<1>11. Min({c}) = c
  BY <1>1, MinOne
<1>12. find_chunk_in_group(base, id) = c
  BY <1>5, <1>6, <1>10, <1>11
<1> QED BY <1>12, Zenon DEF base, q, G

(* yaffs_find_chunk_in_file answers with the chunk that has the tags.        *)
FindsHome == \A id \in AllIds : find_chunk_in_file(id) = Home(geo.g.nand, owner, id)

LEMMA FindHome ==
  ASSUME geo \in Initialised, Shape(geo, top, words, inner), Owns(geo, owner), Leads(geo, words, owner),
         NEW id \in Nat
  PROVE  find_chunk_in_file(id) = Home(geo.g.nand, owner, id)
<1> DEFINE i == Leaf(geo, id)
<1>0. Nand = geo.g.nand /\ Width = geo.width /\ WordBits = geo.g.wordBits /\ GrpSize = geo.grpSize
  BY GeoNames
<1>1. find_tnode_0(top, words, inner, id) = IF i \in DOMAIN words THEN i ELSE -1
  BY FindNode
<1>2. i \in Nat /\ PlaceIn(geo, id) = Pos(id)
  BY LeafIs
<1>3. CASE i \notin DOMAIN words
  <2>1. find_chunk_in_file(id) = -1
    BY <1>1, <1>3 DEF find_chunk_in_file
  <2>2. ~\E c \in geo.g.nand : owner[c] = id
    BY <1>3 DEF Leads
  <2> QED BY <2>1, <2>2 DEF Home
<1>4. CASE i \in DOMAIN words
  <2>1. words[i] \in Node(geo)
    BY <1>4 DEF Shape
  <2>2. find_chunk_in_file(id) = find_chunk_in_group(get_group_base(words[i], id), id)
    BY <1>1, <1>2, <1>4 DEF find_chunk_in_file
  <2>3. get_group_base(words[i], id) = FromBits(Fields(words[i], Pos(id))) * GrpSize
    BY <2>1, GetField
  <2>4. Fields(words[i], Pos(id)) = Entry(geo, words, id)
    BY <1>0, <1>2 DEF Fields, Entry
  <2>5. CASE \E c \in Nand : owner[c] = id
    <3>1. PICK c \in Nand : owner[c] = id
      BY <2>5
    <3>2. \A d \in Nand : owner[d] = id => d = c
      BY <1>0, <3>1 DEF Owns
    <3>3. Entry(geo, words, id) = EntryFor(geo, c)
      BY <1>0, <3>1 DEF Leads
    <3>4. EntryFor(geo, c) = ToBits(c \div GrpSize)
      BY <1>0, Zenon DEF EntryFor, ToBits
    <3>5. FromBits(ToBits(c \div GrpSize)) = c \div GrpSize
      <4> DEFINE q == c \div GrpSize
      <4>1. q \in 1 .. Pow2[Width] - 1 /\ Width \in Nat /\ Pow2[Width] \in Nat
        BY GeoFacts, Pow2Def DEF Pos1
      <4> HIDE DEF q
      <4>2. q \in 0 .. Pow2[Width] - 1
        BY <4>1
      <4>3. FromBits(ToBits(q)) = q
        BY <4>2, FromToBits
      <4> QED BY <4>3, Zenon DEF q
    <3>6. get_group_base(words[i], id) = (c \div GrpSize) * GrpSize
      BY <2>3, <2>4, <3>3, <3>4, <3>5, Zenon
    <3>7. find_chunk_in_group((c \div GrpSize) * GrpSize, id) = c
      BY <3>1, <3>2, ChunkInGroup
    <3>8. find_chunk_in_file(id) = c
      BY <2>2, <3>6, <3>7, Zenon
    <3>9. Home(Nand, owner, id) = c
      BY <3>1, <3>2, HomeIs
    <3> QED BY <1>0, <3>8, <3>9
  <2>6. CASE ~\E c \in Nand : owner[c] = id
    <3>1. Entry(geo, words, id) = {}
      BY <1>0, <1>4, <2>6 DEF Leads
    <3>2. FromBits({}) = 0
      BY FromNoBits
    <3>3. 0 * GrpSize = 0
      BY GeoFacts DEF Pos1
    <3>4. get_group_base(words[i], id) = 0
      BY <2>3, <2>4, <3>1, <3>2, <3>3
    <3>5. find_chunk_in_group(0, id) = -1
      BY DEF find_chunk_in_group
    <3> QED BY <1>0, <2>2, <2>6, <3>4, <3>5 DEF Home
  <2> QED BY <2>5, <2>6
<1> QED BY <1>3, <1>4

LEMMA AllIdsNat == AllIds \subseteq Nat
<1> SUFFICES ASSUME NEW g \in Trees PROVE g.ids \subseteq Nat
  BY DEF AllIds
<1> DEFINE x == [g |-> g, width |-> WidthOf(g), grpSize |-> Pow2[GrpBitsOf(g)],
                 nWords |-> (WidthOf(g) * Pow2[g.l0Bits]) \div g.wordBits]
<1>1. x \in Initialised
  BY DEF Initialised
<1>2. x.g = g
  OBVIOUS
<1> HIDE DEF x
<1>3. {g.l0Bits, g.l1Bits, g.maxLevel} \subseteq Nat \ {0} /\ g.ids \subseteq 0 .. Pow2[g.l0Bits + g.l1Bits * g.maxLevel]
  BY <1>1, <1>2, TnodeAssumption
<1>4. g.l0Bits + g.l1Bits * g.maxLevel \in Nat
  BY <1>3
<1>5. Pow2[g.l0Bits + g.l1Bits * g.maxLevel] \in Nat
  BY <1>4, Pow2Def DEF Pos1
<1> QED BY <1>3, <1>5

-----------------------------------------------------------------------------
(* Growth: new tops, and the nodes on the way to a chunk                   *)

\* A node for each of some levels
LevelsOf(f, a, b) == {<<l, f[l]>> : l \in a .. b}

LEMMA LevelSet ==
  ASSUME NEW a \in Int, NEW b \in Int, NEW f
  PROVE  IsFiniteSet(LevelsOf(f, a, b))
<1> DEFINE h == [l \in a .. b |-> <<l, f[l]>>]
           S == LevelsOf(f, a, b)
<1>1. h \in Surjection(a .. b, S)
  BY DEF Surjection, LevelsOf
<1>2. IsFiniteSet(a .. b)
  BY FS_Interval
<1> QED BY <1>1, <1>2, FS_Surjection

FirstOf(m) == IF m = 0 THEN 1 ELSE m

\* The node x of the tops up to t or of the way down to the level m
NewNode(x, id, t, m) ==
  /\ x = <<x[1], x[2]>> /\ x[1] \in Nat /\ x[2] \in Nat
  /\ x[1] = 0 => m = 0 /\ t > 0 /\ x[2] = Leaf(geo, id)
  /\ x[1] > 0 => \/ x[1] \in top + 1 .. t /\ x[2] = 0
                 \/ x[1] \in FirstOf(m) .. t - 1 /\ x[2] = Up(L1Bits, Leaf(geo, id), x[1])

LEMMA NewNodes ==
  ASSUME geo \in Initialised, NEW id \in Nat, NEW t \in Nat, NEW m \in 0 .. t, top \in 0 .. t
  PROVE  /\ IsFiniteSet(Tops(t) \cup Way(id, t, m))
         /\ \A x \in Tops(t) \cup Way(id, t, m) : NewNode(x, id, t, m)
         /\ m = 0 /\ t > 0 => <<0, Leaf(geo, id)>> \in Tops(t) \cup Way(id, t, m)
         /\ \A l \in top + 1 .. t : <<l, 0>> \in Tops(t)
         /\ \A l \in FirstOf(m) .. t - 1 : <<l, Up(L1Bits, Leaf(geo, id), l)>> \in Way(id, t, m)
<1> DEFINE i == Leaf(geo, id)
<1>0. top \in Nat /\ m \in Nat
  OBVIOUS
<1>1. i \in Nat /\ L1Bits \in Pos1
  BY LeafIs, GeoFacts
<1>2. \A l \in Nat : Index(id, l) = Up(L1Bits, i, l) /\ Up(L1Bits, i, l) \in Nat
  BY <1>1, IndexIs, UpType
<1>3. Up(L1Bits, i, 0) = i
  BY <1>1, UpNone
<1> HIDE DEF i
<1>4. IsFiniteSet(Tops(t))
  <2> DEFINE f == [l \in Int |-> 0]
  <2>1. Tops(t) = LevelsOf(f, top + 1, t)
    BY <1>0 DEF Tops, LevelsOf
  <2>2. top + 1 \in Int /\ t \in Int
    BY <1>0
  <2> HIDE DEF f
  <2> QED BY <2>1, <2>2, LevelSet
<1>5. IsFiniteSet(Way(id, t, m))
  <2> DEFINE f == [l \in Int |-> Index(id, l)]
  <2>1. Way(id, t, m) = LevelsOf(f, m, t - 1)
    BY <1>0 DEF Way, LevelsOf
  <2>2. m \in Int /\ t - 1 \in Int
    BY <1>0
  <2> HIDE DEF f
  <2> QED BY <2>1, <2>2, LevelSet
<1>6. \A l \in m .. t - 1 : l \in Nat
  BY <1>0
<1>7. Way(id, t, m) = {<<l, Up(L1Bits, i, l)>> : l \in m .. t - 1}
  BY <1>2, <1>6 DEF Way
<1>8. ASSUME NEW x \in Tops(t)
      PROVE  x = <<x[1], x[2]>> /\ x[1] \in Nat /\ x[2] \in Nat /\ x[1] \in top + 1 .. t /\ x[2] = 0 /\ x[1] > 0
  BY <1>0 DEF Tops
<1>9. ASSUME NEW x \in Way(id, t, m)
      PROVE  /\ x = <<x[1], x[2]>> /\ x[1] \in Nat /\ x[2] \in Nat
             /\ x[1] = 0 => m = 0 /\ t > 0 /\ x[2] = i
             /\ x[1] > 0 => x[1] \in FirstOf(m) .. t - 1 /\ x[2] = Up(L1Bits, i, x[1])
  <2>1. PICK l \in m .. t - 1 : x = <<l, Up(L1Bits, i, l)>>
    BY <1>7
  <2>2. l \in Nat /\ (l = 0 => m = 0 /\ t > 0) /\ (l > 0 => l \in FirstOf(m) .. t - 1)
    BY <1>0 DEF FirstOf
  <2> QED BY <1>2, <1>3, <2>1, <2>2
<1>10. IsFiniteSet(Tops(t) \cup Way(id, t, m))
  BY <1>4, <1>5, FS_Union
<1>11. m = 0 /\ t > 0 => <<0, i>> \in Way(id, t, m)
  <2> SUFFICES ASSUME m = 0, t > 0 PROVE <<0, i>> \in Way(id, t, m)
    OBVIOUS
  <2>1. 0 \in m .. t - 1
    OBVIOUS
  <2> QED BY <1>3, <1>7, <2>1
<1>12. \A l \in top + 1 .. t : <<l, 0>> \in Tops(t)
  BY DEF Tops
<1>13. \A l \in FirstOf(m) .. t - 1 : <<l, Up(L1Bits, i, l)>> \in Way(id, t, m)
  <2>1. \A l \in FirstOf(m) .. t - 1 : l \in m .. t - 1
    BY <1>0 DEF FirstOf
  <2> QED BY <1>7, <2>1
<1>14. \A x \in Tops(t) : NewNode(x, id, t, m)
  BY <1>8 DEF NewNode
<1>15. \A x \in Way(id, t, m) : NewNode(x, id, t, m)
  BY <1>9 DEF NewNode, i
<1> QED BY <1>10, <1>11, <1>12, <1>13, <1>14, <1>15 DEF i

LEMMA Disjoint ==
  ASSUME NEW S, NEW T, IsFiniteSet(S), IsFiniteSet(T), S \cap T = {}
  PROVE  IsFiniteSet(S \cup T) /\ Cardinality(S \cup T) = Cardinality(S) + Cardinality(T)
<1>1. Cardinality(S) \in Nat /\ Cardinality(T) \in Nat /\ Cardinality({}) = 0
  BY FS_CardinalityType, FS_EmptySet
<1>2. IsFiniteSet(S \cup T) /\ Cardinality(S \cup T) = Cardinality(S) + Cardinality(T) - Cardinality(S \cap T)
  BY FS_Union
<1>3. Cardinality(S \cap T) = 0
  BY <1>1
<1> QED BY <1>1, <1>2, <1>3

Inners(id, t, m) == {x \in Tops(t) \cup Way(id, t, m) : x[1] > 0}

\* The tree with new tops, the way to id and empty leaves
InnerGrown(ins, id, t, m) == \A x : x \in ins <=> x \in inner \/ x \in Inners(id, t, m)
WordsGrown(ws, id, t, m) ==
  /\ DOMAIN ws = DOMAIN words \cup (IF m = 0 /\ t > 0 THEN {Leaf(geo, id)} ELSE {})
  /\ \A i \in DOMAIN ws : ws[i] = IF i \in DOMAIN words THEN words[i] ELSE Empty

LEMMA GrownNodes ==
  ASSUME geo \in Initialised, Shape(geo, top, words, inner), Counted(words, inner, count),
         NEW id \in Nat, NEW t \in Nat, NEW m \in 0 .. t, top \in 0 .. t
  PROVE  /\ Grown(id, t, m).top = t
         /\ InnerGrown(Grown(id, t, m).inner, id, t, m) /\ IsFiniteSet(Grown(id, t, m).inner)
         /\ WordsGrown(Grown(id, t, m).words, id, t, m) /\ IsFiniteSet(DOMAIN Grown(id, t, m).words)
         /\ Counted(Grown(id, t, m).words, Grown(id, t, m).inner, Grown(id, t, m).count)
<1> DEFINE all == Tops(t) \cup Way(id, t, m)
           new == {x \in all : ~Exists(words, inner, x[1], x[2])}
           zero == {x \in new : x[1] = 0}
           high == {x \in new : x[1] > 0}
           leaves == {n[2] : n \in zero}
           j == Leaf(geo, id)
           g == Grown(id, t, m)
<1>1. /\ g.top = t /\ g.words = AddWords(words, new) /\ g.inner = inner \cup high
      /\ g.count = count + Cardinality(new)
  BY DEF Grown
<1>2. /\ IsFiniteSet(all)
      /\ \A x \in all : /\ x = <<x[1], x[2]>> /\ x[1] \in Nat /\ x[2] \in Nat
                        /\ x[1] = 0 => m = 0 /\ t > 0 /\ x[2] = j
      /\ m = 0 /\ t > 0 => <<0, j>> \in all
  <2>1. /\ IsFiniteSet(Tops(t) \cup Way(id, t, m))
        /\ m = 0 /\ t > 0 => <<0, Leaf(geo, id)>> \in Tops(t) \cup Way(id, t, m)
    BY NewNodes
  <2>2. ASSUME NEW x \in Tops(t) \cup Way(id, t, m)
        PROVE  /\ x = <<x[1], x[2]>> /\ x[1] \in Nat /\ x[2] \in Nat
               /\ x[1] = 0 => m = 0 /\ t > 0 /\ x[2] = Leaf(geo, id)
    <3>1. NewNode(x, id, t, m)
      BY NewNodes
    <3> QED BY <3>1 DEF NewNode
  <2> QED BY <2>1, <2>2, Zenon
<1>3. IsFiniteSet(inner) /\ IsFiniteSet(DOMAIN words) /\ count = Cardinality(DOMAIN words) + Cardinality(inner)
  BY DEF Shape, Counted
<1> HIDE DEF all, g, j
<1>4. IsFiniteSet(new) /\ IsFiniteSet(zero) /\ IsFiniteSet(high)
  <2>1. new \in SUBSET all /\ zero \in SUBSET all /\ high \in SUBSET all
    OBVIOUS
  <2> HIDE DEF new, zero, high
  <2> QED BY <1>2, <2>1, FS_Subset
<1>5. new = zero \cup high /\ zero \cap high = {}
  BY <1>2
<1>6. inner \cap high = {}
  BY <1>2 DEF Exists
<1>7. inner \cup high = inner \cup {x \in all : x[1] > 0}
  BY <1>2 DEF Exists
<1>8. DOMAIN words \cap leaves = {}
  BY <1>2 DEF Exists
<1>9. DOMAIN words \cup leaves = DOMAIN words \cup (IF m = 0 /\ t > 0 THEN {j} ELSE {})
  <2>1. ASSUME m = 0, t > 0, j \notin DOMAIN words PROVE j \in leaves
    <3>1. <<0, j>> \in zero
      BY <1>2, <2>1 DEF Exists
    <3> QED BY <3>1
  <2>2. leaves \subseteq IF m = 0 /\ t > 0 THEN {j} ELSE {}
    BY <1>2
  <2> QED BY <2>1, <2>2
<1>10. IsFiniteSet(leaves) /\ Cardinality(leaves) = Cardinality(zero)
  <2>1. CASE zero = {}
    <3>1. leaves = {}
      BY <2>1
    <3> QED BY <2>1, <3>1, FS_EmptySet
  <2>2. CASE zero # {}
    <3>1. zero = {<<0, j>>} /\ leaves = {j}
      <4>1. \A x \in zero : x = <<0, j>>
        BY <1>2
      <4>2. zero = {<<0, j>>}
        BY <2>2, <4>1
      <4>3. \A n \in zero : n[2] = j
        BY <4>1
      <4>4. leaves = {j}
        BY <2>2, <4>3
      <4> QED BY <4>2, <4>4
    <3> HIDE DEF zero, leaves
    <3> QED BY <3>1, FS_Singleton
  <2> QED BY <2>1, <2>2
<1>11. /\ DOMAIN AddWords(words, new) = DOMAIN words \cup leaves
       /\ \A i \in DOMAIN words \cup leaves :
            AddWords(words, new)[i] = IF i \in DOMAIN words THEN words[i] ELSE Empty
  BY DEF AddWords
<1> HIDE DEF new, zero, high, leaves
<1>12. Cardinality(zero \cup high) = Cardinality(zero) + Cardinality(high)
  BY <1>4, <1>5, Disjoint
<1>13. IsFiniteSet(inner \cup high) /\ Cardinality(inner \cup high) = Cardinality(inner) + Cardinality(high)
  BY <1>3, <1>4, <1>6, Disjoint
<1>14. /\ IsFiniteSet(DOMAIN words \cup leaves)
       /\ Cardinality(DOMAIN words \cup leaves) = Cardinality(DOMAIN words) + Cardinality(leaves)
  BY <1>3, <1>8, <1>10, Disjoint
<1>15. /\ Cardinality(zero) \in Nat /\ Cardinality(high) \in Nat
       /\ Cardinality(DOMAIN words) \in Nat /\ Cardinality(inner) \in Nat
  BY <1>3, <1>4, FS_CardinalityType
<1>16. Counted(g.words, g.inner, g.count)
  BY <1>1, <1>3, <1>5, <1>10, <1>11, <1>12, <1>13, <1>14, <1>15 DEF Counted
<1>17. (\A x : x \in g.inner <=> x \in inner \/ x \in Inners(id, t, m)) /\ IsFiniteSet(g.inner)
  BY <1>1, <1>7, <1>13 DEF Inners, all
<1>18. /\ DOMAIN g.words = DOMAIN words \cup (IF m = 0 /\ t > 0 THEN {j} ELSE {})
       /\ IsFiniteSet(DOMAIN g.words)
       /\ \A i \in DOMAIN g.words : g.words[i] = IF i \in DOMAIN words THEN words[i] ELSE Empty
  BY <1>1, <1>9, <1>11, <1>14
<1>19. InnerGrown(g.inner, id, t, m) /\ WordsGrown(g.words, id, t, m)
  BY <1>17, <1>18, Zenon DEF InnerGrown, WordsGrown, j
<1> QED BY <1>1, <1>16, <1>17, <1>18, <1>19, Zenon DEF g

LEMMA GrownInner ==
  ASSUME geo \in Initialised, Shape(geo, top, words, inner), Counted(words, inner, count),
         NEW id \in Nat, NEW t \in Nat, NEW m \in 0 .. t, top \in 0 .. t
  PROVE  /\ Grown(id, t, m).inner \subseteq (1 .. t) \X Nat
         /\ \A l, i \in Nat : <<l, i>> \in Grown(id, t, m).inner <=>
              \/ <<l, i>> \in inner
              \/ l \in top + 1 .. t /\ i = 0
              \/ l \in FirstOf(m) .. t - 1 /\ i = Up(L1Bits, Leaf(geo, id), l)
<1> DEFINE all == Tops(t) \cup Way(id, t, m)
           ins == Grown(id, t, m).inner
           j == Leaf(geo, id)
<1>1. ins = inner \cup {x \in all : x[1] > 0}
  <2>1. InnerGrown(Grown(id, t, m).inner, id, t, m)
    BY GrownNodes
  <2> QED BY <2>1 DEF InnerGrown, Inners
<1>2. inner \subseteq (1 .. t) \X Nat
  BY DEF Shape
<1>3. \A x \in all : NewNode(x, id, t, m)
  BY NewNodes
<1>4. /\ \A l \in top + 1 .. t : <<l, 0>> \in all
      /\ \A l \in FirstOf(m) .. t - 1 : <<l, Up(L1Bits, j, l)>> \in all
  BY NewNodes
<1> HIDE DEF ins, all, j
<1>5. top \in Nat /\ m \in Nat /\ FirstOf(m) \in Nat /\ FirstOf(m) > 0
  BY DEF FirstOf
<1>6. ASSUME NEW x \in all, x[1] > 0
      PROVE  /\ x \in (1 .. t) \X Nat
             /\ \/ x[1] \in top + 1 .. t /\ x[2] = 0
                \/ x[1] \in FirstOf(m) .. t - 1 /\ x[2] = Up(L1Bits, j, x[1])
  <2>1. NewNode(x, id, t, m)
    BY <1>3
  <2>2. x = <<x[1], x[2]>> /\ x[1] \in Nat /\ x[2] \in Nat
    BY <2>1 DEF NewNode
  <2>3. \/ x[1] \in top + 1 .. t /\ x[2] = 0
        \/ x[1] \in FirstOf(m) .. t - 1 /\ x[2] = Up(L1Bits, j, x[1])
    BY <1>6, <2>1 DEF NewNode, j
  <2>4. x[1] \in 1 .. t
    BY <1>5, <2>2, <2>3
  <2> QED BY <2>2, <2>3, <2>4
<1>7. ins \subseteq (1 .. t) \X Nat
  BY <1>1, <1>2, <1>6
<1>8. ASSUME NEW l \in Nat, NEW i \in Nat, <<l, i>> \in ins
      PROVE  \/ <<l, i>> \in inner
             \/ l \in top + 1 .. t /\ i = 0
             \/ l \in FirstOf(m) .. t - 1 /\ i = Up(L1Bits, j, l)
  <2> DEFINE x == <<l, i>>
  <2>1. x[1] = l /\ x[2] = i
    OBVIOUS
  <2>2. x \in inner \/ (x \in all /\ x[1] > 0)
    BY <1>1, <1>8
  <2> HIDE DEF x
  <2> QED BY <1>6, <2>1, <2>2 DEF x
<1>9. ASSUME NEW l \in Nat, l \in top + 1 .. t PROVE <<l, 0>> \in ins
  BY <1>1, <1>4, <1>5, <1>9
<1>10. ASSUME NEW l \in Nat, l \in FirstOf(m) .. t - 1 PROVE <<l, Up(L1Bits, j, l)>> \in ins
  BY <1>1, <1>4, <1>5, <1>10
<1>11. ASSUME NEW l \in Nat, NEW i \in Nat, <<l, i>> \in inner PROVE <<l, i>> \in ins
  BY <1>1, <1>11
<1> QED BY <1>7, <1>8, <1>9, <1>10, <1>11 DEF ins, j

(* Growth keeps the shape, whether it ends at the leaf or halfway.           *)
LEMMA GrownShape ==
  ASSUME geo \in Initialised, Shape(geo, top, words, inner), Counted(words, inner, count),
         NEW id \in Nat, NEW t \in Nat, t <= MaxLevel, NEW m \in 0 .. t, top \in 0 .. t,
         m < t => Up(L1Bits, Leaf(geo, id), t) = 0
  PROVE  Shape(geo, Grown(id, t, m).top, Grown(id, t, m).words, Grown(id, t, m).inner)
<1> DEFINE ins == Grown(id, t, m).inner
           ws == Grown(id, t, m).words
           j == Leaf(geo, id)
           U(i, l) == Up(L1Bits, i, l)
<1>1. /\ Grown(id, t, m).top = t /\ IsFiniteSet(ins) /\ IsFiniteSet(DOMAIN ws)
      /\ DOMAIN ws = DOMAIN words \cup (IF m = 0 /\ t > 0 THEN {j} ELSE {})
      /\ \A i \in DOMAIN ws : ws[i] = IF i \in DOMAIN words THEN words[i] ELSE Empty
  <2>1. /\ Grown(id, t, m).top = t /\ IsFiniteSet(ins) /\ IsFiniteSet(DOMAIN ws)
        /\ WordsGrown(ws, id, t, m)
    BY GrownNodes
  <2> QED BY <2>1, Zenon DEF WordsGrown
<1>2. /\ ins \subseteq (1 .. t) \X Nat
      /\ \A l, i \in Nat : <<l, i>> \in ins <=>
              \/ <<l, i>> \in inner
              \/ l \in top + 1 .. t /\ i = 0
              \/ l \in FirstOf(m) .. t - 1 /\ i = U(j, l)
  BY GrownInner
<1>3. /\ j \in Nat /\ L1Bits \in Pos1 /\ MaxLevel = geo.g.maxLevel /\ L1Bits = geo.g.l1Bits
      /\ top \in Nat /\ m \in Nat /\ MaxLevel \in Nat
  BY LeafIs, GeoFacts, GeoNames
<1>4. /\ DOMAIN words \subseteq Nat /\ 0 \in DOMAIN words /\ words \in [DOMAIN words -> Node(geo)]
      /\ \A i \in DOMAIN words : U(i, top) = 0 /\ \A l \in 1 .. top : <<l, U(i, l)>> \in inner
      /\ \A l, i \in Nat : <<l, i>> \in inner =>
           l \in 1 .. top /\ U(i, top - l) = 0 /\ (l < top => <<l + 1, U(i, 1)>> \in inner)
  <2>1. \A l, i : <<l, i>> \in inner => l \in 1 .. top
    BY DEF Shape
  <2> QED BY <1>3, <2>1 DEF Shape
<1>5. Empty \in Node(geo)
  <2>1. Pos(id) \in 0 .. Pow2[L0Bits] - 1
    BY FieldStart
  <2> QED BY <2>1, EmptyField
<1>6. m < t => U(j, t) = 0
  OBVIOUS
<1> HIDE DEF ins, ws, j
<1>7. /\ \A i, l \in Nat : U(i, l) \in Nat /\ U(0, l) = 0 /\ U(i, 0) = i
      /\ \A i, l, n \in Nat : l <= n /\ U(i, l) = 0 => U(i, n) = 0
      /\ \A i, l, n \in Nat : U(U(i, l), n) = U(i, l + n)
  <2>1. \A i, l \in Nat : U(i, l) \in Nat /\ U(0, l) = 0 /\ U(i, 0) = i
    BY <1>3, UpType, UpOfZero, UpNone
  <2>2. \A i, l, n \in Nat : l <= n /\ U(i, l) = 0 => U(i, n) = 0
    BY <1>3, UpStays
  <2>3. \A i, l, n \in Nat : U(U(i, l), n) = U(i, l + n)
    BY <1>3, UpUp
  <2> QED BY <2>1, <2>2, <2>3
<1> HIDE DEF U
<1>8. t \in 0 .. geo.g.maxLevel
  BY <1>3
<1>9. DOMAIN ws \subseteq Nat /\ 0 \in DOMAIN ws
  BY <1>1, <1>3, <1>4
<1>10. ws \in [DOMAIN ws -> Node(geo)]
  <2>1. \A i \in DOMAIN ws : ws[i] \in Node(geo)
    BY <1>1, <1>4, <1>5
  <2>2. ws = [i \in DOMAIN ws |-> ws[i]]
    <3>1. Grown(id, t, m).words = AddWords(words, {x \in Tops(t) \cup Way(id, t, m) : ~Exists(words, inner, x[1], x[2])})
      BY DEF Grown
    <3> QED BY <3>1 DEF ws, AddWords
  <2> QED BY <2>1, <2>2
<1>11. t > 0 => <<t, 0>> \in ins
  <2>1. CASE top < t
    <3>1. t \in top + 1 .. t
      BY <1>3, <2>1
    <3> QED BY <1>2, <3>1
  <2>2. CASE top = t /\ t > 0
    <3>1. <<top, U(0, top)>> \in inner
      BY <1>4, <2>2
    <3> QED BY <1>2, <1>7, <2>2, <3>1
  <2> QED BY <1>3, <2>1, <2>2
<1>12. ASSUME m < t, NEW l \in FirstOf(m) .. t PROVE <<l, U(j, l)>> \in ins
  <2>0. l \in Nat /\ t > 0
    BY <1>3, <1>12 DEF FirstOf
  <2>3. U(j, l) \in Nat
    BY <1>3, <1>7, <2>0
  <2>1. CASE l = t
    BY <1>6, <1>11, <1>12, <2>0, <2>1, <2>3
  <2>2. CASE l # t
    <3>1. l \in FirstOf(m) .. t - 1
      BY <1>3, <2>2 DEF FirstOf
    <3> QED BY <1>2, <2>0, <2>3, <3>1
  <2> QED BY <2>1, <2>2
<1>13. ASSUME NEW i \in DOMAIN ws
       PROVE  U(i, t) = 0 /\ \A l \in 1 .. t : <<l, U(i, l)>> \in ins
  <2>1. CASE i \in DOMAIN words
    <3>1. i \in Nat /\ U(i, top) = 0
      BY <1>4, <2>1
    <3>2. U(i, t) = 0
      BY <1>3, <1>7, <3>1
    <3>3. ASSUME NEW l \in 1 .. t PROVE <<l, U(i, l)>> \in ins
      <4>0. l \in Nat /\ U(i, l) \in Nat
        <5>1. l \in Nat
          OBVIOUS
        <5> QED BY <1>7, <3>1, <5>1
      <4>1. CASE l <= top
        <5>1. <<l, U(i, l)>> \in inner
          BY <1>3, <1>4, <2>1, <4>0, <4>1
        <5> QED BY <1>2, <4>0, <5>1
      <4>2. CASE ~(l <= top)
        <5>1. l \in top + 1 .. t /\ U(i, l) = 0
          BY <1>3, <1>7, <3>1, <4>0, <4>2
        <5> QED BY <1>2, <4>0, <5>1
      <4> QED BY <4>1, <4>2
    <3> QED BY <3>2, <3>3
  <2>2. CASE i \notin DOMAIN words
    <3>1. m = 0 /\ m < t /\ i = j
      BY <1>1, <2>2
    <3>2. \A l \in 1 .. t : l \in FirstOf(m) .. t
      BY <3>1 DEF FirstOf
    <3> QED BY <1>6, <1>12, <3>1, <3>2
  <2> QED BY <2>1, <2>2
<1>14. ASSUME NEW l \in Nat, NEW i \in Nat, <<l, i>> \in ins
       PROVE  U(i, t - l) = 0 /\ (l < t => <<l + 1, U(i, 1)>> \in ins)
  <2>0. l \in 1 .. t /\ t - l \in Nat /\ l + 1 \in Nat /\ U(i, 1) \in Nat
    <3>1. l \in 1 .. t
      BY <1>2, <1>14
    <3>2. t - l \in Nat /\ l + 1 \in Nat /\ 1 \in Nat
      BY <3>1
    <3>3. U(i, 1) \in Nat
      BY <1>7, <3>2
    <3> QED BY <3>1, <3>2, <3>3
  <2>1. CASE <<l, i>> \in inner
    <3>1. l \in 1 .. top /\ U(i, top - l) = 0 /\ (l < top => <<l + 1, U(i, 1)>> \in inner)
      BY <1>4, <2>1
    <3>2. top - l \in Nat /\ top - l <= t - l
      BY <1>3, <2>0, <3>1
    <3>3. U(i, t - l) = 0
      BY <1>7, <2>0, <3>1, <3>2
    <3>4. CASE l < top
      BY <1>2, <2>0, <3>1, <3>3, <3>4
    <3>5. CASE ~(l < top) /\ l < t
      <4>1. l = top /\ top - l = 0
        BY <1>3, <3>1, <3>5
      <4>2. i = 0 /\ U(i, 1) = 0
        BY <1>7, <3>1, <4>1
      <4>3. l + 1 \in top + 1 .. t
        BY <1>3, <3>5, <4>1
      <4> QED BY <1>2, <2>0, <3>3, <4>2, <4>3
    <3> QED BY <3>3, <3>4, <3>5
  <2>2. CASE l \in top + 1 .. t /\ i = 0
    <3>1. U(i, t - l) = 0 /\ U(i, 1) = 0
      BY <1>7, <2>0, <2>2
    <3>2. l < t => l + 1 \in top + 1 .. t
      BY <1>3, <2>0, <2>2
    <3> QED BY <1>2, <2>0, <3>1, <3>2
  <2>3. CASE l \in FirstOf(m) .. t - 1 /\ i = U(j, l)
    <3>1. m < t /\ l + 1 \in FirstOf(m) .. t /\ l + (t - l) = t
      BY <1>3, <2>0, <2>3 DEF FirstOf
    <3>2. U(i, t - l) = U(j, t) /\ U(i, 1) = U(j, l + 1)
      BY <1>3, <1>7, <2>0, <2>3, <3>1
    <3> QED BY <1>6, <1>12, <3>1, <3>2
  <2> QED BY <1>2, <1>14, <2>1, <2>2, <2>3
<1>15. Shape(geo, t, ws, ins)
  BY <1>1, <1>2, <1>3, <1>8, <1>9, <1>10, <1>13, <1>14 DEF Shape, U
<1> QED BY <1>1, <1>15 DEF ins, ws

-----------------------------------------------------------------------------
(* Steps                                                                   *)

LEMMA TreeFinds == Tree(geo, top, words, inner, count, owner) => FindsHome
BY FindHome, AllIdsNat DEF Tree, FindsHome

LEMMA TreeFindsNext ==
  Tree(geo', top', words', inner', count', owner') => FindsHome'
<1>1. (Tree(geo, top, words, inner, count, owner) => FindsHome)'
  BY TreeFinds, PTL
<1> QED BY <1>1 DEF Tree, Shape, Counted, Owns, Leads, Node, Entry, EntryFor, Leaf, PlaceIn, Field, Bit, Up

LEMMA EmptyEntry ==
  ASSUME geo \in Initialised, NEW id \in Nat, NEW ws, ws[Leaf(geo, id)] = Empty
  PROVE  Entry(geo, ws, id) = {}
<1>1. Pos(id) \in 0 .. Pow2[L0Bits] - 1 /\ PlaceIn(geo, id) = Pos(id)
  BY FieldStart, LeafIs
<1>2. Fields(Empty, Pos(id)) = {}
  BY <1>1, EmptyField
<1>3. Entry(geo, ws, id) = Fields(ws[Leaf(geo, id)], Pos(id))
  BY <1>1, GeoNames DEF Entry, Fields
<1> QED BY <1>2, <1>3

(* Growth adds empty nodes only.                                             *)
LEMMA GrownLeads ==
  ASSUME Tree(geo, top, words, inner, count, owner),
         NEW id \in Nat, NEW t \in Nat, NEW m \in 0 .. t, top \in 0 .. t
  PROVE  Leads(geo, Grown(id, t, m).words, owner)
<1> DEFINE ws == Grown(id, t, m).words
<1>0. geo \in Initialised /\ Shape(geo, top, words, inner) /\ Counted(words, inner, count) /\ Leads(geo, words, owner)
  BY DEF Tree
<1>1. /\ DOMAIN ws = DOMAIN words \cup (IF m = 0 /\ t > 0 THEN {Leaf(geo, id)} ELSE {})
      /\ \A i \in DOMAIN ws : ws[i] = IF i \in DOMAIN words THEN words[i] ELSE Empty
  <2>1. WordsGrown(ws, id, t, m)
    BY <1>0, GrownNodes
  <2> QED BY <2>1, Zenon DEF WordsGrown
<1>2. DOMAIN words \subseteq DOMAIN ws
  BY <1>1
<1> HIDE DEF ws
<1>3. ASSUME NEW jd \in Nat, Leaf(geo, jd) \in DOMAIN words PROVE Entry(geo, ws, jd) = Entry(geo, words, jd)
  BY <1>1, <1>2, <1>3 DEF Entry
<1>4. ASSUME NEW jd \in Nat, Leaf(geo, jd) \in DOMAIN ws, Leaf(geo, jd) \notin DOMAIN words
      PROVE  Entry(geo, ws, jd) = {}
  BY <1>0, <1>1, <1>4, EmptyEntry
<1>5. ASSUME NEW c \in geo.g.nand, owner[c] >= 0
      PROVE  Leaf(geo, owner[c]) \in DOMAIN ws /\ Entry(geo, ws, owner[c]) = EntryFor(geo, c)
  <2>1. Leaf(geo, owner[c]) \in DOMAIN words /\ Entry(geo, words, owner[c]) = EntryFor(geo, c)
    BY <1>0, <1>5 DEF Leads
  <2>2. owner[c] \in Nat
    <3>1. owner[c] \in Ids \cup {-1, -2} /\ Ids \subseteq Nat
      BY <1>0, GeoNames, GeoFacts DEF Tree, Owns, Nobody, Stranger
    <3>2. \A o : o \in Ids \cup {-1, -2} /\ o >= 0 => o \in Nat
      BY <3>1
    <3> QED BY <1>5, <3>1, <3>2
  <2> QED BY <1>2, <1>3, <2>1, <2>2
<1>6. ASSUME NEW jd \in Nat, Leaf(geo, jd) \in DOMAIN ws, \A c \in geo.g.nand : owner[c] # jd
      PROVE  Entry(geo, ws, jd) = {}
  BY <1>0, <1>3, <1>4, <1>6 DEF Leads
<1>7. Leads(geo, ws, owner)
  BY <1>5, <1>6 DEF Leads
<1> QED BY <1>7 DEF ws

LEMMA GrownTree ==
  ASSUME Tree(geo, top, words, inner, count, owner),
         NEW id \in Nat, NEW t \in Nat, t <= MaxLevel, NEW m \in 0 .. t, top \in 0 .. t,
         m < t => Up(L1Bits, Leaf(geo, id), t) = 0
  PROVE  Tree(geo, Grown(id, t, m).top, Grown(id, t, m).words, Grown(id, t, m).inner, Grown(id, t, m).count, owner)
<1>0. geo \in Initialised /\ Shape(geo, top, words, inner) /\ Counted(words, inner, count) /\ Owns(geo, owner)
  BY DEF Tree
<1>1. Shape(geo, Grown(id, t, m).top, Grown(id, t, m).words, Grown(id, t, m).inner)
  BY <1>0, GrownShape
<1>2. Counted(Grown(id, t, m).words, Grown(id, t, m).inner, Grown(id, t, m).count)
  BY <1>0, GrownNodes
<1>3. Leads(geo, Grown(id, t, m).words, owner)
  BY GrownLeads
<1> QED BY <1>0, <1>1, <1>2, <1>3 DEF Tree

(* The depth the tree grows to.                                              *)
LEMMA DepthOf ==
  ASSUME Tree(geo, top, words, inner, count, owner), NEW id \in Nat, ~TooLarge(id)
  PROVE  /\ Depth(id) \in Nat /\ Depth(id) <= MaxLevel /\ top \in 0 .. Depth(id) /\ top \in Nat
         /\ Up(L1Bits, Leaf(geo, id), Depth(id)) = 0
<1>0. geo \in Initialised /\ top \in 0 .. MaxLevel /\ MaxLevel \in 0 .. 31 /\ MaxLevel \in Nat
  BY GeoFacts, GeoNames DEF Tree, Shape
<1>1. Up(L1Bits, Leaf(geo, id), MaxLevel) = 0
  BY <1>0, TooLargeIs
<1>2. /\ required_depth(id) \in 0 .. MaxLevel
      /\ \A l \in Nat : Up(L1Bits, Leaf(geo, id), l) = 0 <=> required_depth(id) <= l
  BY <1>0, <1>1, DepthIs
<1>3. Depth(id) \in Nat /\ Depth(id) <= MaxLevel /\ top \in 0 .. Depth(id) /\ required_depth(id) <= Depth(id) /\ top \in Nat
  BY <1>0, <1>2 DEF Depth
<1> QED BY <1>2, <1>3

(* An allocation failed on the way: the nodes before it stay.                *)
LEMMA FailsKeeps ==
  ASSUME Tree(geo, top, words, inner, count, owner), NEW id \in Nat, WriteFails(id)
  PROVE  Tree(geo', top', words', inner', count', owner') /\ owner' = owner /\ geo' = geo
<1>0. ~TooLarge(id) /\ geo' = geo /\ owner' = owner
  BY DEF WriteFails
<1>1. PICK t \in Nat, m \in Nat : /\ t <= MaxLevel /\ m \in 0 .. t /\ top \in 0 .. t
                                  /\ m < t => Up(L1Bits, Leaf(geo, id), t) = 0
                                  /\ SetTree(Grown(id, t, m))
  <2>1. /\ Depth(id) \in Nat /\ Depth(id) <= MaxLevel /\ top \in 0 .. Depth(id) /\ top \in Nat
        /\ Up(L1Bits, Leaf(geo, id), Depth(id)) = 0
    BY <1>0, DepthOf
  <2>2. \/ \E t \in top .. Depth(id) - 1 : SetTree(Grown(id, t, t))
        \/ \E m \in 0 .. Depth(id) : SetTree(Grown(id, Depth(id), m))
    BY <2>1 DEF WriteFails
  <2>3. MaxLevel \in Nat
    BY GeoFacts DEF Tree
  <2>4. CASE \E t \in top .. Depth(id) - 1 : SetTree(Grown(id, t, t))
    <3>1. PICK t \in top .. Depth(id) - 1 : SetTree(Grown(id, t, t))
      BY <2>4
    <3>2. t \in Nat /\ t <= MaxLevel /\ t \in 0 .. t /\ top \in 0 .. t /\ ~(t < t)
      BY <2>1, <2>3
    <3> QED BY <3>1, <3>2
  <2>5. CASE \E m \in 0 .. Depth(id) : SetTree(Grown(id, Depth(id), m))
    <3>1. PICK m \in 0 .. Depth(id) : SetTree(Grown(id, Depth(id), m))
      BY <2>5
    <3>2. m \in Nat /\ m \in 0 .. Depth(id)
      BY <2>1
    <3> QED BY <2>1, <3>1, <3>2
  <2> QED BY <2>2, <2>4, <2>5
<1>2. Tree(geo, Grown(id, t, m).top, Grown(id, t, m).words, Grown(id, t, m).inner, Grown(id, t, m).count, owner)
  <2>1. t <= MaxLevel /\ m \in 0 .. t /\ top \in 0 .. t /\ (m < t => Up(L1Bits, Leaf(geo, id), t) = 0)
    BY <1>1
  <2> QED BY <2>1, GrownTree, Zenon
<1>3. /\ top' = Grown(id, t, m).top /\ words' = Grown(id, t, m).words
      /\ inner' = Grown(id, t, m).inner /\ count' = Grown(id, t, m).count
  BY <1>1, Zenon DEF SetTree
<1> QED BY <1>0, <1>2, <1>3, Zenon

(* One entry of the tree changes, no other.                                  *)
Loaded(ws, id, val) == [ws EXCEPT ![Leaf(geo, id)] = load_tnode_0(@, id, val)]

LEMMA LoadEntry ==
  ASSUME geo \in Initialised, NEW ws, ws \in [DOMAIN ws -> Node(geo)], NEW id \in Nat, NEW val \in Nat,
         Leaf(geo, id) \in DOMAIN ws
  PROVE  /\ DOMAIN Loaded(ws, id, val) = DOMAIN ws
         /\ Loaded(ws, id, val) \in [DOMAIN ws -> Node(geo)]
         /\ Entry(geo, Loaded(ws, id, val), id) = ToBits(val \div GrpSize)
         /\ \A jd \in Nat : Leaf(geo, jd) \in DOMAIN ws /\ jd # id =>
              Entry(geo, Loaded(ws, id, val), jd) = Entry(geo, ws, jd)
<1> DEFINE i == Leaf(geo, id)
           tn == load_tnode_0(ws[i], id, val)
           new == Loaded(ws, id, val)
<1>1. new = [ws EXCEPT ![i] = tn]
  BY DEF Loaded
<1>2. /\ tn \in Node(geo)
      /\ Fields(tn, Pos(id)) = ToBits(val \div GrpSize)
      /\ \A p \in 0 .. Pow2[L0Bits] - 1 : p # Pos(id) => Fields(tn, p) = Fields(ws[i], p)
  <2>1. ws[i] \in Node(geo)
    OBVIOUS
  <2> HIDE DEF i
  <2> QED BY <2>1, LoadField, Zenon
<1>3. \A w, jd : Entry(geo, w, jd) = Fields(w[Leaf(geo, jd)], PlaceIn(geo, jd))
  BY GeoNames DEF Entry, Fields
<1>4. \A jd \in Nat : PlaceIn(geo, jd) = Pos(jd) /\ Pos(jd) \in 0 .. Pow2[L0Bits] - 1
  BY LeafIs, FieldStart
<1> DEFINE v == ToBits(val \div GrpSize)
<1> HIDE DEF tn, new, v
<1>5. DOMAIN new = DOMAIN ws /\ new \in [DOMAIN ws -> Node(geo)] /\ new[i] = tn
  BY <1>1, <1>2
<1>6. Entry(geo, new, id) = v
  BY <1>2, <1>3, <1>4, <1>5 DEF v
<1>7. ASSUME NEW jd \in Nat, Leaf(geo, jd) \in DOMAIN ws, jd # id
      PROVE  Entry(geo, new, jd) = Entry(geo, ws, jd)
  <2>1. CASE Leaf(geo, jd) # i
    <3>1. new[Leaf(geo, jd)] = ws[Leaf(geo, jd)]
      BY <1>1, <1>7, <2>1
    <3> QED BY <1>3, <3>1
  <2>2. CASE Leaf(geo, jd) = i
    <3>1. PlaceIn(geo, jd) # PlaceIn(geo, id)
      BY <1>7, <2>2, SameChunk
    <3>2. Fields(tn, Pos(jd)) = Fields(ws[i], Pos(jd))
      BY <1>2, <1>4, <3>1
    <3> QED BY <1>3, <1>4, <1>5, <2>2, <3>2
  <2> QED BY <2>1, <2>2
<1> QED BY <1>5, <1>6, <1>7, Zenon DEF new, v

(* The new chunk takes the place of the old one.                             *)
Rewritten(id, c) == [Deleted({find_chunk_in_file(id)}) EXCEPT ![c] = id]

LEMMA OwnerIs ==
  ASSUME geo \in Initialised, NEW own, Owns(geo, own), NEW c \in Nand
  PROVE  own[c] \in Ids \/ own[c] = Nobody \/ own[c] = Stranger
BY GeoNames DEF Owns

LEMMA Minus ==
  /\ Nobody \notin Nat /\ Stranger \notin Nat /\ ~(Nobody >= 0) /\ ~(Stranger >= 0) /\ Nobody # Stranger
  /\ -1 \notin Nat
  /\ \A n \in Nat : n >= 0 /\ n # Nobody /\ n # Stranger
BY DEF Nobody, Stranger

LEMMA RewriteOwns ==
  ASSUME Tree(geo, top, words, inner, count, owner), NEW id \in Ids, NEW c \in Nand, owner[c] = Nobody
  PROVE  /\ Owns(geo, Rewritten(id, c))
         /\ Rewritten(id, c)[c] = id
         /\ \A d \in Nand : Rewritten(id, c)[d] = id => d = c
         /\ \A d \in Nand, jd \in Nat : jd # id => (Rewritten(id, c)[d] = jd <=> owner[d] = jd)
<1> DEFINE own == Rewritten(id, c)
           h == find_chunk_in_file(id)
<1>0. geo \in Initialised /\ Owns(geo, owner) /\ Nand = geo.g.nand /\ Ids = geo.g.ids /\ Ids \subseteq Nat
  BY GeoNames, GeoFacts DEF Tree
<1>1. h = Home(Nand, owner, id)
  BY <1>0, FindHome DEF Tree
<1>2. \A d, e \in Nand : owner[d] = owner[e] /\ owner[d] \in Nat => d = e
  BY <1>0 DEF Owns
<1>3. ASSUME NEW d \in Nand, owner[d] = id PROVE d = h
  BY <1>0, <1>1, <1>2, <1>3, HomeIs
<1>4. h \in Nand => owner[h] = id
  <2>1. CASE \E d \in Nand : owner[d] = id
    BY <1>3, <2>1
  <2>2. CASE ~\E d \in Nand : owner[d] = id
    <3>1. h = -1
      BY <1>1, <2>2 DEF Home
    <3>2. \A d \in Nand : d \in Nat
      BY <1>0, GeoFacts
    <3> QED BY <3>1, <3>2, Minus
  <2> QED BY <2>1, <2>2
<1> HIDE DEF h
<1>5. own = [d \in Nand |-> IF d = c THEN id ELSE IF d = h THEN Nobody ELSE owner[d]]
  BY DEF Rewritten, Deleted, h
<1> HIDE DEF own
<1>6. own[c] = id /\ \A d \in Nand : d # c => own[d] = (IF d = h THEN Nobody ELSE owner[d])
  BY <1>5
<1>7. \A d \in Nand : own[d] = id => d = c
  BY <1>0, <1>3, <1>6, Minus
<1>8. \A d \in Nand, jd \in Nat : jd # id => (own[d] = jd <=> owner[d] = jd)
  BY <1>0, <1>4, <1>6, Minus
<1>9. Owns(geo, own)
  <2>1. \A d \in Nand : owner[d] \in Ids \cup {Nobody, Stranger}
    BY <1>0, OwnerIs
  <2>2. own \in [Nand -> Ids \cup {Nobody, Stranger}]
    BY <1>5, <2>1
  <2>3. ASSUME NEW d \in Nand, NEW e \in Nand, own[d] = own[e], own[d] >= 0 PROVE d = e
    <3>1. own[d] \in Nat
      BY <1>0, <2>2, <2>3, Minus
    <3>2. CASE own[d] = id
      BY <1>7, <2>3, <3>2
    <3>3. CASE own[d] # id
      <4>1. owner[d] = own[d] /\ owner[e] = own[d]
        BY <1>8, <2>3, <3>1, <3>3
      <4> QED BY <1>2, <3>1, <4>1
    <3> QED BY <3>2, <3>3
  <2> QED BY <1>0, <2>2, <2>3 DEF Owns
<1> QED BY <1>6, <1>7, <1>8, <1>9 DEF own

(* The tree a write leaves: grown, and one entry loaded.                     *)
LEMMA WriteIs ==
  ASSUME geo \in Initialised, NEW id \in Nat, NEW c, WriteChunk(id, c)
  PROVE  /\ geo' = geo /\ owner' = Rewritten(id, c)
         /\ top' = Grown(id, Depth(id), 0).top
         /\ words' = Loaded(Grown(id, Depth(id), 0).words, id, c)
         /\ inner' = Grown(id, Depth(id), 0).inner
         /\ count' = Grown(id, Depth(id), 0).count
<1> DEFINE x == Grown(id, Depth(id), 0)
           y == [x EXCEPT !.words[Index(id, 0)] = load_tnode_0(@, id, c)]
<1>1. geo' = geo /\ owner' = Rewritten(id, c) /\ SetTree(y)
  BY DEF WriteChunk, Rewritten
<1>2. PICK a, b, d, e : x = [top |-> a, words |-> b, inner |-> d, count |-> e]
  BY DEF Grown
<1> HIDE DEF x
<1>3. y = [top |-> a, words |-> [b EXCEPT ![Index(id, 0)] = load_tnode_0(@, id, c)], inner |-> d, count |-> e]
  BY <1>2
<1> HIDE DEF y
<1>4. top' = a /\ words' = [b EXCEPT ![Index(id, 0)] = load_tnode_0(@, id, c)] /\ inner' = d /\ count' = e
  BY <1>1, <1>3 DEF SetTree
<1>5. x.top = a /\ x.words = b /\ x.inner = d /\ x.count = e
  BY <1>2
<1>6. words' = Loaded(b, id, c)
  BY <1>4, IndexLeaf DEF Loaded
<1> QED BY <1>1, <1>4, <1>5, <1>6 DEF x

LEMMA WriteKeeps ==
  ASSUME Tree(geo, top, words, inner, count, owner), NEW id \in Ids, NEW c \in Nand, WriteChunk(id, c)
  PROVE  Tree(geo', top', words', inner', count', owner')
<1> DEFINE x == Grown(id, Depth(id), 0)
           own == Rewritten(id, c)
           ws == Loaded(x.words, id, c)
<1>0. /\ geo \in Initialised /\ Owns(geo, owner) /\ Nand = geo.g.nand /\ Ids = geo.g.ids /\ id \in Nat /\ c \in Nat
      /\ Ids \subseteq Nat
  BY GeoNames, GeoFacts DEF Tree
<1>1. /\ geo' = geo /\ owner' = own /\ top' = x.top /\ words' = ws /\ inner' = x.inner /\ count' = x.count
  BY <1>0, WriteIs
<1>2. owner[c] = Nobody /\ ~TooLarge(id)
  BY DEF WriteChunk
<1>3. /\ Depth(id) \in Nat /\ Depth(id) <= MaxLevel /\ top \in 0 .. Depth(id) /\ top \in Nat /\ 0 \in 0 .. Depth(id)
      /\ Up(L1Bits, Leaf(geo, id), Depth(id)) = 0
  BY <1>0, <1>2, DepthOf
<1>4. Tree(geo, x.top, x.words, x.inner, x.count, owner)
  BY <1>0, <1>3, GrownTree
<1>5. Leaf(geo, id) \in DOMAIN x.words
  <2>1. DOMAIN x.words = DOMAIN words \cup (IF 0 = 0 /\ Depth(id) > 0 THEN {Leaf(geo, id)} ELSE {})
    <3>1. WordsGrown(x.words, id, Depth(id), 0)
      BY <1>0, <1>3, GrownNodes DEF Tree
    <3> QED BY <3>1, Zenon DEF WordsGrown
  <2>2. CASE Depth(id) > 0
    BY <2>1, <2>2
  <2>3. CASE Depth(id) = 0
    <3>1. Leaf(geo, id) = 0
      BY <1>0, <1>3, <2>3, UpNone, LeafIs, GeoFacts
    <3>2. 0 \in DOMAIN words
      BY DEF Tree, Shape
    <3> QED BY <2>1, <3>1, <3>2
  <2> QED BY <1>3, <2>2, <2>3
<1>6. Shape(geo, x.top, x.words, x.inner) /\ Counted(x.words, x.inner, x.count) /\ Leads(geo, x.words, owner)
  BY <1>4 DEF Tree
<1>7. /\ Owns(geo, own) /\ own[c] = id
      /\ \A d \in Nand : own[d] = id => d = c
      /\ \A d \in Nand, jd \in Nat : jd # id => (own[d] = jd <=> owner[d] = jd)
  BY <1>2, RewriteOwns
<1> DEFINE old == x.words
<1> HIDE DEF own
<1>8. /\ DOMAIN ws = DOMAIN old /\ ws \in [DOMAIN old -> Node(geo)]
      /\ Entry(geo, ws, id) = ToBits(c \div GrpSize)
      /\ \A jd \in Nat : Leaf(geo, jd) \in DOMAIN old /\ jd # id => Entry(geo, ws, jd) = Entry(geo, old, jd)
  <2>1. old \in [DOMAIN old -> Node(geo)]
    BY <1>6 DEF Shape
  <2> HIDE DEF x
  <2> QED BY <1>0, <1>5, <2>1, LoadEntry, Zenon
<1>9. EntryFor(geo, c) = ToBits(c \div GrpSize)
  BY <1>0, GeoNames, Zenon DEF EntryFor, ToBits
<1> HIDE DEF x, ws, old
<1>10. Shape(geo, x.top, ws, x.inner)
  BY <1>6, <1>8 DEF Shape, old
<1>11. Counted(ws, x.inner, x.count)
  BY <1>6, <1>8 DEF Counted, old
<1>12. ASSUME NEW d \in Nand, own[d] >= 0
       PROVE  Leaf(geo, own[d]) \in DOMAIN ws /\ Entry(geo, ws, own[d]) = EntryFor(geo, d)
  <2>1. own[d] \in Nat
    BY <1>0, <1>7, <1>12, OwnerIs, Minus
  <2>2. CASE own[d] = id
    <3>1. d = c
      BY <1>7, <2>2
    <3>2. Entry(geo, ws, own[d]) = EntryFor(geo, d)
      BY <1>8, <1>9, <2>2, <3>1, Zenon
    <3> QED BY <1>5, <1>8, <2>2, <3>2 DEF old
  <2>3. CASE own[d] # id
    <3>1. owner[d] = own[d]
      BY <1>7, <2>1, <2>3
    <3>2. Leaf(geo, owner[d]) \in DOMAIN old /\ Entry(geo, old, owner[d]) = EntryFor(geo, d)
      BY <1>0, <1>6, <2>1, <3>1, Minus DEF Leads, old
    <3>3. Entry(geo, ws, own[d]) = Entry(geo, old, own[d])
      BY <1>8, <2>1, <2>3, <3>1, <3>2
    <3> QED BY <1>8, <3>1, <3>2, <3>3
  <2> QED BY <2>2, <2>3
<1>13. ASSUME NEW jd \in Nat, Leaf(geo, jd) \in DOMAIN ws, \A d \in Nand : own[d] # jd
       PROVE  Entry(geo, ws, jd) = {}
  <2>1. jd # id /\ Leaf(geo, jd) \in DOMAIN old
    BY <1>7, <1>8, <1>13
  <2>2. \A d \in Nand : owner[d] # jd
    BY <1>7, <1>13, <2>1
  <2>3. Entry(geo, old, jd) = {}
    BY <1>0, <1>6, <2>1, <2>2 DEF Leads, old
  <2> QED BY <1>8, <2>1, <2>3
<1>14. Leads(geo, ws, own)
  BY <1>0, <1>12, <1>13 DEF Leads
<1>15. Tree(geo, x.top, ws, x.inner, x.count, own)
  BY <1>0, <1>7, <1>10, <1>11, <1>14 DEF Tree
<1> QED BY <1>1, <1>15, Zenon

(* A chunk of another file comes and goes.                                   *)
LEMMA OtherKeeps ==
  ASSUME Tree(geo, top, words, inner, count, owner), NEW c \in Nand, Other(c)
  PROVE  /\ Tree(geo', top', words', inner', count', owner') /\ geo' = geo
         /\ \A d \in Nand, id \in Nat : owner'[d] = id <=> owner[d] = id
<1>0. geo \in Initialised /\ Owns(geo, owner) /\ Nand = geo.g.nand /\ Ids = geo.g.ids /\ Ids \subseteq Nat
  BY GeoNames, GeoFacts DEF Tree
<1>1. /\ owner[c] < 0 /\ owner' = [owner EXCEPT ![c] = IF @ = Nobody THEN Stranger ELSE Nobody]
      /\ geo' = geo /\ top' = top /\ words' = words /\ inner' = inner /\ count' = count
  BY DEF Other
<1> DEFINE own == [owner EXCEPT ![c] = IF @ = Nobody THEN Stranger ELSE Nobody]
<1>2. owner \in [Nand -> Ids \cup {Nobody, Stranger}]
  BY <1>0 DEF Owns
<1>3. owner[c] \notin Nat /\ own[c] \notin Nat
  <2>1. owner[c] \notin Nat
    BY <1>1
  <2> QED BY <1>2, <2>1, Minus
<1>4. own \in [Nand -> Ids \cup {Nobody, Stranger}] /\ \A d \in Nand : d # c => own[d] = owner[d]
  BY <1>2
<1> HIDE DEF own
<1>5. \A d \in Nand, id \in Nat : own[d] = id <=> owner[d] = id
  BY <1>3, <1>4
<1>6. \A d \in Nand : own[d] >= 0 => own[d] \in Nat /\ owner[d] = own[d]
  BY <1>0, <1>3, <1>4, <1>5, Minus
<1>7. Owns(geo, own)
  BY <1>0, <1>4, <1>6 DEF Owns
<1>8. Leads(geo, words, own)
  <2>1. Leads(geo, words, owner)
    BY DEF Tree
  <2> QED BY <1>0, <1>5, <1>6, <2>1 DEF Leads
<1>9. Tree(geo, top, words, inner, count, own)
  BY <1>7, <1>8 DEF Tree
<1> QED BY <1>1, <1>5, <1>9 DEF own

-----------------------------------------------------------------------------
(* Pruning and rebuilding: only the nodes above some leaf are left          *)

LEMMA MaxIs ==
  ASSUME NEW n \in Nat, NEW T \in SUBSET (0 .. n), T # {}
  PROVE  Max(T) \in T /\ \A y \in T : y <= Max(T)
<1> DEFINE V == {n - x : x \in T}
<1>1. V \in SUBSET Nat /\ V # {}
  <2>1. \A x \in T : x \in 0 .. n /\ n - x \in Nat
    OBVIOUS
  <2> QED BY <2>1
<1>2. PICK v \in V : \A y \in V : v <= y
  <2> HIDE DEF V
  <2> QED BY <1>1, LeastNat
<1>3. PICK x \in T : v = n - x
  OBVIOUS
<1>4. \A y \in T : x >= y
  <2> SUFFICES ASSUME NEW y \in T PROVE x >= y
    OBVIOUS
  <2>1. n - x <= n - y
    BY <1>2, <1>3
  <2> QED BY <2>1
<1>5. \E z \in T : \A y \in T : z >= y
  BY <1>4
<1>6. Max(T) \in T /\ \A y \in T : Max(T) >= y
  BY <1>5 DEF Max
<1> QED BY <1>6

\* The inner nodes are those above a leaf.
Over(k, t, dom, ins) == \A l, i \in Nat : <<l, i>> \in ins <=> l \in 1 .. t /\ \E j \in dom : i = Up(k, j, l)

LEMMA ShapeOver ==
  ASSUME geo \in Initialised, NEW t \in 0 .. MaxLevel, NEW ws, NEW ins,
         DOMAIN ws \subseteq Nat, IsFiniteSet(DOMAIN ws), 0 \in DOMAIN ws, ws \in [DOMAIN ws -> Node(geo)],
         ins \subseteq (1 .. t) \X Nat, IsFiniteSet(ins),
         \A i \in DOMAIN ws : Up(L1Bits, i, t) = 0,
         Over(L1Bits, t, DOMAIN ws, ins)
  PROVE  Shape(geo, t, ws, ins)
<1> DEFINE U(i, l) == Up(L1Bits, i, l)
<1>1. L1Bits = geo.g.l1Bits /\ MaxLevel = geo.g.maxLevel /\ L1Bits \in Pos1 /\ MaxLevel \in Nat /\ t \in Nat
  BY GeoNames, GeoFacts
<1>2. \A i, l \in Nat : U(i, l) \in Nat
  BY <1>1, UpType
<1>3. \A i, l, n \in Nat : U(U(i, l), n) = U(i, l + n)
  BY <1>1, UpUp
<1>4. \A l, i \in Nat : <<l, i>> \in ins <=> l \in 1 .. t /\ \E j \in DOMAIN ws : i = U(j, l)
  BY DEF Over
<1>5. \A i \in DOMAIN ws : U(i, t) = 0
  OBVIOUS
<1> HIDE DEF U
<1>6. ASSUME NEW i \in DOMAIN ws, NEW l \in 1 .. t PROVE <<l, U(i, l)>> \in ins
  <2>1. l \in Nat /\ i \in Nat
    OBVIOUS
  <2>2. U(i, l) \in Nat
    BY <1>2, <2>1
  <2> QED BY <1>4, <2>1, <2>2
<1>7. ASSUME NEW l \in Nat, NEW i \in Nat, <<l, i>> \in ins
      PROVE  U(i, t - l) = 0 /\ (l < t => <<l + 1, U(i, 1)>> \in ins)
  <2>1. l \in 1 .. t
    BY <1>4, <1>7
  <2>2. PICK j \in DOMAIN ws : i = U(j, l)
    BY <1>4, <1>7
  <2>3. j \in Nat /\ t - l \in Nat /\ l + (t - l) = t /\ 1 \in Nat /\ (l < t => l + 1 \in 1 .. t)
    BY <1>1, <2>1
  <2>4. U(i, t - l) = U(j, t) /\ U(i, 1) = U(j, l + 1)
    <3>1. U(U(j, l), t - l) = U(j, l + (t - l))
      BY <1>3, <2>3
    <3>2. U(U(j, l), 1) = U(j, l + 1)
      BY <1>3, <2>3
    <3> QED BY <2>2, <2>3, <3>1, <3>2
  <2> QED BY <1>5, <1>6, <2>3, <2>4
<1> QED BY <1>1, <1>5, <1>6, <1>7 DEF Shape, U

(* yaffs2_rd_checkpt_tnodes rebuilds a tree for the nodes of level 0.        *)
LEMMA ReloadKeeps ==
  ASSUME Tree(geo, top, words, inner, count, owner), Reload
  PROVE  Tree(geo', top', words', inner', count', owner') /\ geo' = geo /\ owner' = owner
<1> DEFINE last == Max(DOMAIN words)
           w == Pow2[L0Bits]
           depth == required_depth(last * w)
           ins == {<<l, Above(i, l)>> : l \in 1 .. depth, i \in DOMAIN words}
           U(i, l) == Up(L1Bits, i, l)
<1>0. /\ geo \in Initialised /\ top \in 0 .. MaxLevel /\ MaxLevel \in Nat /\ MaxLevel <= 31 /\ L1Bits \in Pos1
      /\ L0Bits \in Nat /\ L0Bits = geo.g.l0Bits /\ Shape(geo, top, words, inner)
  BY GeoNames, GeoFacts DEF Tree, Shape, Pos1
<1>1. /\ top' = depth /\ inner' = ins /\ count' = Cardinality(DOMAIN words) + Cardinality(inner')
      /\ geo' = geo /\ words' = words /\ owner' = owner
  BY DEF Reload
<1>2. /\ DOMAIN words \subseteq Nat /\ IsFiniteSet(DOMAIN words) /\ 0 \in DOMAIN words
      /\ words \in [DOMAIN words -> Node(geo)] /\ IsFiniteSet(inner)
      /\ \A i \in DOMAIN words : U(i, top) = 0 /\ \A l \in 1 .. top : <<l, U(i, l)>> \in inner
  BY <1>0, GeoNames DEF Shape
<1>3. last \in DOMAIN words /\ \A i \in DOMAIN words : i <= last
  <2> DEFINE n == Pow2[top * L1Bits]
  <2>1. n \in Pos1 /\ top \in Nat
    BY <1>0, LevelBits
  <2>2. ASSUME NEW i \in DOMAIN words PROVE i \in Nat /\ i < n
    <3>1. i \in Nat /\ U(i, top) = 0
      BY <1>2
    <3>2. i \div n = 0
      BY <3>1, Zenon DEF Up
    <3> HIDE DEF n
    <3>3. i < n
      BY <2>1, <3>1, <3>2, DivLess, Zenon
    <3> QED BY <3>1, <3>3
  <2> HIDE DEF n
  <2>3. n \in Nat
    BY <2>1 DEF Pos1
  <2>4. DOMAIN words \in SUBSET (0 .. n) /\ DOMAIN words # {}
    BY <1>2, <2>2, <2>3
  <2> DEFINE T == DOMAIN words
  <2> HIDE DEF T
  <2>5. Max(T) \in T /\ \A y \in T : y <= Max(T)
    BY <2>3, <2>4, MaxIs DEF T
  <2> QED BY <2>5 DEF T
<1>4. Leaf(geo, last * w) = last /\ last * w \in Nat
  <2>1. w \in Pos1 /\ last \in Nat
    BY <1>0, <1>2, <1>3, Pow2Def
  <2> HIDE DEF last, w
  <2>2. last * w \in Nat /\ Split(last * w, w, last, 0)
    BY <2>1 DEF Split, Pos1
  <2>3. (last * w) \div w = last
    BY <2>1, <2>2, DivIs, Zenon
  <2>4. Leaf(geo, last * w) = (last * w) \div w
    BY <1>0, Zenon DEF Leaf, w
  <2> QED BY <2>2, <2>3, <2>4, Zenon
<1>5. depth \in 0 .. top /\ \A l \in Nat : U(last, l) = 0 <=> depth <= l
  <2>1. U(last, top) = 0 /\ top \in 0 .. 31
    BY <1>0, <1>2, <1>3
  <2>2. Up(L1Bits, Leaf(geo, last * w), top) = 0
    BY <1>4, <2>1, Zenon
  <2> DEFINE id == last * w
  <2> HIDE DEF id
  <2>3. required_depth(id) \in 0 .. top /\ \A l \in Nat : Up(L1Bits, Leaf(geo, id), l) = 0 <=> required_depth(id) <= l
    BY <1>0, <1>4, <2>1, <2>2, DepthIs DEF id
  <2> QED BY <1>4, <2>3, Zenon DEF id
<1>6. last \in Nat
  BY <1>2, <1>3
<1> HIDE DEF last, depth, w
<1>7. depth \in Nat /\ depth \in 0 .. MaxLevel
  BY <1>0, <1>5
<1>8. ASSUME NEW i \in DOMAIN words PROVE U(i, depth) = 0
  <2>1. i \in Nat /\ i <= last
    BY <1>2, <1>3 DEF last
  <2>2. U(last, depth) = 0
    BY <1>5, <1>7
  <2>3. U(i, depth) <= U(last, depth) /\ U(i, depth) \in Nat
    BY <1>0, <1>6, <1>7, <2>1, UpMono, UpType
  <2> HIDE DEF U
  <2> QED BY <2>2, <2>3
<1>9. ins = {<<l, U(i, l)>> : l \in 1 .. depth, i \in DOMAIN words}
  <2>1. \A i, l : Above(i, l) = U(i, l)
    BY <1>0, AboveIs
  <2> HIDE DEF U
  <2> QED BY <2>1
<1>10. \A i, l \in Nat : U(i, l) \in Nat
  BY <1>0, UpType
<1> HIDE DEF ins
<1>11. ins \subseteq (1 .. depth) \X Nat /\ Over(L1Bits, depth, DOMAIN words, ins)
  <2> HIDE DEF U
  <2>1. \A l \in 1 .. depth, i \in DOMAIN words : l \in Nat /\ U(i, l) \in Nat
    BY <1>2, <1>7, <1>10
  <2>2. ins \subseteq (1 .. depth) \X Nat
    BY <1>9, <2>1
  <2>3. \A l, i \in Nat : <<l, i>> \in ins <=> l \in 1 .. depth /\ \E j \in DOMAIN words : i = U(j, l)
    BY <1>9
  <2> QED BY <2>2, <2>3 DEF Over, U
<1>12. IsFiniteSet(ins)
  <2> HIDE DEF U
  <2>1. ins \in SUBSET inner
    BY <1>0, <1>2, <1>5, <1>9
  <2> QED BY <1>2, <2>1, FS_Subset
<1>13. Shape(geo, depth, words, ins)
  BY <1>0, <1>2, <1>7, <1>8, <1>11, <1>12, ShapeOver
<1>14. Counted(words', inner', count')
  BY <1>1 DEF Counted
<1>15. Tree(geo', top', words', inner', count', owner')
  BY <1>1, <1>13, <1>14 DEF Tree
<1> QED BY <1>1, <1>15

(* yaffs_prune_worker: the leaves that stay, and the inner nodes above them. *)
Trimmed(ws) == IF top < 1 THEN [words |-> ws, inner |-> inner] ELSE Pruned(ws)

LEMMA TrimmedIs ==
  ASSUME geo \in Initialised, Shape(geo, top, words, inner), NEW ws \in [DOMAIN words -> Node(geo)]
  PROVE  /\ DOMAIN Trimmed(ws).words \subseteq DOMAIN words /\ 0 \in DOMAIN Trimmed(ws).words
         /\ Trimmed(ws).words = [i \in DOMAIN Trimmed(ws).words |-> ws[i]]
         /\ \A i \in DOMAIN words : i \notin DOMAIN Trimmed(ws).words => ws[i] = Empty
         /\ Trimmed(ws).inner \subseteq inner
         /\ Over(L1Bits, top, DOMAIN Trimmed(ws).words, Trimmed(ws).inner)
<1> DEFINE p == Trimmed(ws)
           U(i, l) == Up(L1Bits, i, l)
<1>0. L1Bits \in Pos1 /\ L1Bits = geo.g.l1Bits
  BY GeoFacts, GeoNames
<1>1. /\ DOMAIN words \subseteq Nat /\ 0 \in DOMAIN words /\ top \in Nat
      /\ inner \subseteq (1 .. top) \X Nat
      /\ \A i \in DOMAIN words : U(i, top) = 0 /\ \A l \in 1 .. top : <<l, U(i, l)>> \in inner
  <2>1. geo.g.maxLevel \in Nat
    BY GeoFacts, GeoNames
  <2> QED BY <1>0, <2>1 DEF Shape
<1>2. \A i, l \in Nat : U(i, l) \in Nat /\ U(0, l) = 0 /\ U(i, 0) = i
  BY <1>0, UpType, UpOfZero, UpNone
<1>3. \A i, l : Above(i, l) = U(i, l)
  BY AboveIs
<1> HIDE DEF U
<1>4. CASE top < 1
  <2>1. p = [words |-> ws, inner |-> inner]
    BY <1>4 DEF Trimmed
  <2>2. p.words = ws /\ p.inner = inner /\ DOMAIN ws = DOMAIN words
    BY <2>1
  <2>3. inner = {} /\ top = 0
    BY <1>1, <1>4
  <2>4. \A l, i \in Nat : <<l, i>> \in inner <=> l \in 1 .. top /\ \E j \in DOMAIN words : i = U(j, l)
    BY <2>3
  <2>5. Over(L1Bits, top, DOMAIN words, inner)
    BY <2>4 DEF Over, U
  <2>6. ws = [i \in DOMAIN words |-> ws[i]]
    OBVIOUS
  <2> HIDE DEF p
  <2>7. /\ DOMAIN p.words \subseteq DOMAIN words /\ 0 \in DOMAIN p.words
        /\ p.words = [i \in DOMAIN p.words |-> ws[i]]
        /\ \A i \in DOMAIN words : i \notin DOMAIN p.words => ws[i] = Empty
        /\ p.inner \subseteq inner
        /\ Over(L1Bits, top, DOMAIN p.words, p.inner)
    BY <1>1, <2>2, <2>5, <2>6
  <2> QED BY <2>7, Zenon DEF p
<1>5. CASE ~(top < 1)
  <2> DEFINE keep == {i \in DOMAIN ws : First(i) \/ HasData(ws[i])}
             over(l) == {Above(i, l) : i \in keep}
             ins == {x \in inner : First(x[2]) \/ x[2] \in over(x[1])}
  <2>1. p = [words |-> [i \in keep |-> ws[i]], inner |-> ins]
    BY <1>5 DEF Trimmed, Pruned
  <2>2. p.words = [i \in keep |-> ws[i]] /\ p.inner = ins /\ DOMAIN p.words = keep
    BY <2>1
  <2>3. keep \subseteq DOMAIN words /\ 0 \in keep /\ \A i \in DOMAIN words : i \notin keep => ws[i] = Empty
    BY <1>1 DEF First, HasData
  <2>4. ins \subseteq inner
    OBVIOUS
  <2>5. ASSUME NEW l \in Nat, NEW i \in Nat
        PROVE  <<l, i>> \in ins <=> l \in 1 .. top /\ \E j \in keep : i = U(j, l)
    <3>1. <<l, i>> \in ins <=> <<l, i>> \in inner /\ (i = 0 \/ \E j \in keep : i = U(j, l))
      BY <1>3 DEF First
    <3> HIDE DEF keep, ins
    <3>2. i = 0 => \E j \in keep : i = U(j, l)
      BY <1>2, <2>3
    <3>3. <<l, i>> \in inner => l \in 1 .. top
      BY <1>1
    <3>4. ASSUME l \in 1 .. top, NEW j \in keep, i = U(j, l) PROVE <<l, i>> \in inner
      BY <1>1, <2>3, <3>4
    <3> QED BY <3>1, <3>2, <3>3, <3>4
  <2> HIDE DEF keep, ins, p
  <2>6. Over(L1Bits, top, keep, ins)
    BY <2>5 DEF Over, U
  <2>7. /\ DOMAIN p.words \subseteq DOMAIN words /\ 0 \in DOMAIN p.words
        /\ p.words = [i \in DOMAIN p.words |-> ws[i]]
        /\ \A i \in DOMAIN words : i \notin DOMAIN p.words => ws[i] = Empty
        /\ p.inner \subseteq inner
        /\ Over(L1Bits, top, DOMAIN p.words, p.inner)
    BY <2>2, <2>3, <2>4, <2>6
  <2> QED BY <2>7, Zenon DEF p
<1> QED BY <1>4, <1>5

(* yaffs_prune_tree: the new top is above every leaf that stays.             *)
More(p, l) == IF l = 1 THEN \E i \in DOMAIN p.words : i \in 1 .. Pow2[L1Bits] - 1
              ELSE \E x \in p.inner : x[1] = l - 1 /\ x[2] \in 1 .. Pow2[L1Bits] - 1
NewTop(p) == IF top = 0 THEN 0 ELSE Max({0} \cup {l \in 1 .. top : More(p, l)})

LEMMA NewTopIs ==
  ASSUME geo \in Initialised, Shape(geo, top, words, inner), NEW p, DOMAIN p.words \subseteq DOMAIN words,
         Over(L1Bits, top, DOMAIN p.words, p.inner)
  PROVE  NewTop(p) \in 0 .. top /\ \A i \in DOMAIN p.words : Up(L1Bits, i, NewTop(p)) = 0
<1> DEFINE U(i, l) == Up(L1Bits, i, l)
           T == {0} \cup {l \in 1 .. top : More(p, l)}
           n == NewTop(p)
           dom == DOMAIN p.words
<1>0. L1Bits \in Pos1 /\ L1Bits = geo.g.l1Bits /\ geo.g.maxLevel \in Nat
  BY GeoFacts, GeoNames
<1>1. dom \subseteq Nat /\ top \in Nat /\ \A i \in dom : U(i, top) = 0
  BY <1>0 DEF Shape
<1>2. \A i, l \in Nat : U(i, l) \in Nat /\ U(i, 0) = i
  BY <1>0, UpType, UpNone
<1>3. \A l, i \in Nat : <<l, i>> \in p.inner <=> l \in 1 .. top /\ \E j \in dom : i = U(j, l)
  BY DEF Over
<1>4. n \in 0 .. top /\ \A l \in T : l <= n
  <2>1. CASE top = 0
    <3>1. n = 0 /\ T = {0}
      BY <2>1 DEF NewTop
    <3> HIDE DEF n, T
    <3> QED BY <1>1, <3>1
  <2>2. CASE top # 0
    <3>1. n = Max(T)
      BY <2>2 DEF NewTop
    <3>2. T \in SUBSET (0 .. top) /\ T # {}
      BY <1>1
    <3> HIDE DEF n, T
    <3>3. Max(T) \in T /\ \A y \in T : y <= Max(T)
      BY <1>1, <3>2, MaxIs
    <3> QED BY <3>1, <3>2, <3>3
  <2> QED BY <2>1, <2>2
<1>5. ASSUME NEW i \in dom, U(i, n) # 0 PROVE FALSE
  <2>0. i \in Nat /\ U(i, top) = 0 /\ n \in Nat
    BY <1>1, <1>4
  <2>1. PICK d \in 0 .. top : U(i, d) = 0 /\ (d = 0 \/ U(i, d - 1) # 0)
    BY <1>0, <1>1, <2>0, UpLeast
  <2>2. d \in Nat /\ ~(d <= n)
    <3>1. d \in Nat
      BY <1>1
    <3>2. d <= n => U(i, n) = 0
      BY <1>0, <2>0, <2>1, <3>1, UpStays
    <3> QED BY <1>5, <3>1, <3>2
  <2>3. d \in 1 .. top /\ d - 1 \in Nat /\ (d - 1) + 1 = d
    BY <1>1, <2>0, <2>2
  <2> DEFINE x == U(i, d - 1)
  <2>4. x \in Nat /\ x # 0
    BY <1>2, <2>0, <2>1, <2>3
  <2>5. U(x, 1) = 0
    <3>1. Up(L1Bits, Up(L1Bits, i, d - 1), 1) = Up(L1Bits, i, (d - 1) + 1)
      BY <1>0, <2>0, <2>3, UpUp
    <3> QED BY <2>1, <2>3, <3>1
  <2>6. x < Pow2[L1Bits] /\ Pow2[L1Bits] \in Nat
    <3>1. L1Bits \in Nat
      BY <1>0 DEF Pos1
    <3>2. Pow2[L1Bits] \in Nat
      BY <3>1, Pow2Def DEF Pos1
    <3> HIDE DEF x
    <3> QED BY <1>0, <2>4, <2>5, <3>2, UpSmall
  <2> HIDE DEF x, U, n
  <2>7. x \in 1 .. Pow2[L1Bits] - 1
    BY <2>4, <2>6
  <2>8. CASE d = 1
    <3>1. x = i
      BY <1>2, <2>0, <2>8 DEF x
    <3>2. More(p, d)
      BY <2>7, <2>8, <3>1 DEF More
    <3>3. d \in T
      BY <2>3, <3>2
    <3> HIDE DEF T
    <3> QED BY <1>4, <2>2, <3>3
  <2>9. CASE d # 1
    <3>1. d - 1 \in 1 .. top
      BY <1>1, <2>3, <2>9
    <3>2. <<d - 1, x>> \in p.inner
      BY <1>3, <2>3, <2>4, <3>1 DEF x
    <3>3. More(p, d)
      BY <2>7, <2>9, <3>2 DEF More
    <3>4. d \in T
      BY <2>3, <3>3
    <3> HIDE DEF T
    <3> QED BY <1>4, <2>2, <3>4
  <2> QED BY <2>8, <2>9
<1> QED BY <1>4, <1>5

LEMMA PruneIs ==
  ASSUME geo \in Initialised, Shape(geo, top, words, inner), Counted(words, inner, count),
         NEW ws \in [DOMAIN words -> Node(geo)]
  PROVE  /\ Shape(geo, prune_tree(ws).top, prune_tree(ws).words, prune_tree(ws).inner)
         /\ Counted(prune_tree(ws).words, prune_tree(ws).inner, prune_tree(ws).count)
         /\ DOMAIN prune_tree(ws).words \subseteq DOMAIN words
         /\ \A i \in DOMAIN prune_tree(ws).words : prune_tree(ws).words[i] = ws[i]
         /\ \A i \in DOMAIN words : i \notin DOMAIN prune_tree(ws).words => ws[i] = Empty
<1> DEFINE p == Trimmed(ws)
           n == NewTop(p)
           ins == {x \in p.inner : x[1] <= n}
           new == p.words
           cnt == count - (Cardinality(DOMAIN words) - Cardinality(DOMAIN new)) - (Cardinality(inner) - Cardinality(ins))
           r == prune_tree(ws)
<1>1. r = [top |-> n, words |-> new, inner |-> ins, count |-> cnt]
  BY DEF prune_tree, Trimmed, NewTop, More
<1>2. r.top = n /\ r.words = new /\ r.inner = ins /\ r.count = cnt
  BY <1>1
<1>3. /\ DOMAIN new \subseteq DOMAIN words /\ 0 \in DOMAIN new
      /\ new = [i \in DOMAIN new |-> ws[i]]
      /\ \A i \in DOMAIN words : i \notin DOMAIN new => ws[i] = Empty
      /\ p.inner \subseteq inner
      /\ Over(L1Bits, top, DOMAIN new, p.inner)
  BY TrimmedIs
<1>4. n \in 0 .. top /\ \A i \in DOMAIN new : Up(L1Bits, i, n) = 0
  <2> HIDE DEF p
  <2> QED BY <1>3, NewTopIs
<1>5. /\ DOMAIN words \subseteq Nat /\ IsFiniteSet(DOMAIN words) /\ IsFiniteSet(inner)
      /\ top \in 0 .. MaxLevel /\ MaxLevel \in Nat /\ inner \subseteq (1 .. top) \X Nat
  BY GeoFacts, GeoNames DEF Shape
<1> HIDE DEF p, n, new, r
<1>6. IsFiniteSet(ins) /\ IsFiniteSet(DOMAIN new)
  <2>1. ins \in SUBSET inner /\ DOMAIN new \in SUBSET DOMAIN words
    BY <1>3
  <2> HIDE DEF ins
  <2> QED BY <1>5, <2>1, FS_Subset
<1>7. n \in 0 .. MaxLevel /\ n \in Nat /\ top \in Nat /\ n <= top
  BY <1>4, <1>5
<1>8. ins \subseteq (1 .. n) \X Nat
  <2>1. ASSUME NEW x \in ins PROVE x \in (1 .. n) \X Nat
    <3>1. x \in (1 .. top) \X Nat /\ x[1] <= n
      BY <1>3, <1>5
    <3>2. x = <<x[1], x[2]>> /\ x[1] \in 1 .. top /\ x[2] \in Nat
      BY <3>1
    <3>3. x[1] \in 1 .. n
      BY <1>7, <3>1, <3>2
    <3> QED BY <3>2, <3>3
  <2> QED BY <2>1
<1>9. Over(L1Bits, n, DOMAIN new, ins)
  <2>1. ASSUME NEW l \in Nat, NEW i \in Nat
        PROVE  <<l, i>> \in ins <=> l \in 1 .. n /\ \E j \in DOMAIN new : i = Up(L1Bits, j, l)
    <3>1. <<l, i>> \in ins <=> <<l, i>> \in p.inner /\ l <= n
      OBVIOUS
    <3>2. <<l, i>> \in p.inner <=> l \in 1 .. top /\ \E j \in DOMAIN new : i = Up(L1Bits, j, l)
      BY <1>3 DEF Over
    <3>3. l \in 1 .. n <=> l \in 1 .. top /\ l <= n
      BY <1>7
    <3> QED BY <3>1, <3>2, <3>3
  <2> QED BY <2>1 DEF Over
<1> HIDE DEF ins
<1>10. DOMAIN new \subseteq Nat /\ new \in [DOMAIN new -> Node(geo)] /\ \A i \in DOMAIN new : new[i] = ws[i]
  BY <1>3, <1>5
<1>11. Shape(geo, n, new, ins)
  BY <1>3, <1>4, <1>6, <1>7, <1>8, <1>9, <1>10, ShapeOver
<1>12. Counted(new, ins, cnt)
  <2>1. /\ Cardinality(DOMAIN words) \in Nat /\ Cardinality(inner) \in Nat
        /\ Cardinality(DOMAIN new) \in Nat /\ Cardinality(ins) \in Nat
    BY <1>5, <1>6, FS_CardinalityType
  <2> QED BY <2>1 DEF Counted
<1> HIDE DEF cnt
<1> QED BY <1>2, <1>3, <1>10, <1>11, <1>12, Zenon DEF r

-----------------------------------------------------------------------------
(* Cutting off the end of the file                                         *)

LEMMA SetToSeqIs ==
  ASSUME NEW S, IsFiniteSet(S)
  PROVE  /\ Cardinality(S) \in Nat /\ Len(SetToSeq(S)) = Cardinality(S)
         /\ SetToSeq(S) \in [1 .. Cardinality(S) -> S]
         /\ \A x \in S : \E k \in 1 .. Cardinality(S) : SetToSeq(S)[k] = x
<1> DEFINE n == Cardinality(S)
           s == SetToSeq(S)
<1>1. n \in Nat /\ ExistsBijection(1 .. n, S)
  BY FS_CardinalityType
<1>2. PICK f : f \in Injection(1 .. n, S)
  BY <1>1 DEF ExistsBijection, Bijection
<1>3. s \in [1 .. n -> S] /\ IsInjective(s)
  <2>1. f \in [1 .. n -> S] /\ IsInjective(f)
    BY <1>2 DEF Injection
  <2> QED BY <2>1 DEF SetToSeq
<1> HIDE DEF n, s
<1>4. s \in Injection(1 .. n, S)
  BY <1>3 DEF Injection
<1>5. IsFiniteSet(1 .. n) /\ Cardinality(1 .. n) = n
  <2>1. 1 \in Int /\ n \in Int
    BY <1>1
  <2>2. IsFiniteSet(1 .. n) /\ Cardinality(1 .. n) = IF 1 > n THEN 0 ELSE n - 1 + 1
    BY <2>1, FS_Interval
  <2> QED BY <1>1, <2>2
<1>6. s \in Surjection(1 .. n, S)
  <2>1. Cardinality(1 .. n) = Cardinality(S) <=> s \in Surjection(1 .. n, S)
    BY <1>4, FS_Injection
  <2> QED BY <1>5, <2>1 DEF n
<1>7. \A x \in S : \E k \in 1 .. n : s[k] = x
  BY <1>6 DEF Surjection
<1>8. Len(s) = n
  <2>1. s \in Seq(S)
    BY <1>1, <1>3, SeqDef
  <2>2. Len(s) \in Nat /\ DOMAIN s = 1 .. Len(s)
    BY <2>1, LenProperties
  <2>3. 1 .. Len(s) = 1 .. n
    BY <1>3, <2>2
  <2> DEFINE k == Len(s)
  <2>4. k \in Nat /\ 1 .. k = 1 .. n
    BY <2>2, <2>3
  <2> HIDE DEF k
  <2>5. \A z \in Int : 1 <= z /\ z <= k <=> 1 <= z /\ z <= n
    BY <1>1, <2>4
  <2>6. k = n
    BY <1>1, <2>4, <2>5
  <2> QED BY <2>6 DEF k
<1> QED BY <1>1, <1>3, <1>7, <1>8 DEF n, s

(* yaffs_find_del_file_chunk empties the entry of a chunk that is found.     *)
LEMMA DelIs ==
  ASSUME Tree(geo, top, words, inner, count, owner), NEW ws \in [DOMAIN words -> Node(geo)], NEW id \in Nat
  PROVE  /\ find_del_file_chunk(ws, id) \in [DOMAIN words -> Node(geo)]
         /\ \A jd \in Nat : Leaf(geo, jd) \in DOMAIN words =>
              Entry(geo, find_del_file_chunk(ws, id), jd) =
                IF jd = id /\ (\E c \in Nand : owner[c] = id) THEN {} ELSE Entry(geo, ws, jd)
<1> DEFINE new == find_del_file_chunk(ws, id)
           i == find_tnode_0(top, ws, inner, id)
           h == find_chunk_in_file(id)
<1>0. /\ geo \in Initialised /\ Shape(geo, top, words, inner) /\ Leads(geo, words, owner) /\ Owns(geo, owner)
      /\ Nand = geo.g.nand
  BY GeoNames DEF Tree
<1>1. new = IF h = -1 THEN ws ELSE [ws EXCEPT ![i] = load_tnode_0(@, id, 0)]
  BY DEF find_del_file_chunk
<1>2. h = Home(Nand, owner, id)
  BY <1>0, FindHome
<1>3. DOMAIN ws = DOMAIN words
  OBVIOUS
<1>4. i = IF Leaf(geo, id) \in DOMAIN ws THEN Leaf(geo, id) ELSE -1
  <2>1. Shape(geo, top, ws, inner)
    BY <1>0, <1>3 DEF Shape
  <2> QED BY <1>0, <2>1, FindNode
<1> HIDE DEF new, i, h
<1>5. CASE \E c \in Nand : owner[c] = id
  <2>1. PICK c \in Nand : owner[c] = id
    BY <1>5
  <2>2. \A d \in Nand : owner[d] = id => d = c
    BY <1>0, <2>1 DEF Owns
  <2>3. h = c
    <3>1. Home(Nand, owner, id) = c
      BY <2>1, <2>2, HomeIs
    <3> QED BY <1>2, <3>1
  <2>4. h # -1
    <3>1. c \in Nat
      BY <1>0, GeoFacts
    <3> QED BY <2>3, <3>1, Minus
  <2>5. Leaf(geo, id) \in DOMAIN words
    BY <1>0, <2>1 DEF Leads
  <2>6. new = Loaded(ws, id, 0)
    BY <1>1, <1>3, <1>4, <2>4, <2>5 DEF Loaded
  <2>7. /\ Loaded(ws, id, 0) \in [DOMAIN ws -> Node(geo)]
        /\ Entry(geo, Loaded(ws, id, 0), id) = ToBits(0 \div GrpSize)
        /\ \A jd \in Nat : Leaf(geo, jd) \in DOMAIN ws /\ jd # id =>
             Entry(geo, Loaded(ws, id, 0), jd) = Entry(geo, ws, jd)
    BY <1>0, <1>3, <2>5, LoadEntry
  <2>8. ToBits(0 \div GrpSize) = {}
    BY <1>0, NoBits
  <2>9. Entry(geo, new, id) = {}
    BY <2>6, <2>7, <2>8, Zenon
  <2>10. new \in [DOMAIN words -> Node(geo)]
    BY <1>3, <2>6, <2>7, Zenon
  <2>11. \A jd \in Nat : Leaf(geo, jd) \in DOMAIN words /\ jd # id => Entry(geo, new, jd) = Entry(geo, ws, jd)
    BY <1>3, <2>6, <2>7, Zenon
  <2> QED BY <1>5, <2>9, <2>10, <2>11 DEF new
<1>6. CASE ~\E c \in Nand : owner[c] = id
  <2>1. h = -1
    BY <1>2, <1>6 DEF Home
  <2>2. new = ws
    BY <1>1, <2>1
  <2> QED BY <1>6, <2>2 DEF new
<1> QED BY <1>5, <1>6

(* yaffs_prune_chunks empties the entries of the chunks, one by one.         *)
LEMMA EmptiedIs ==
  ASSUME Tree(geo, top, words, inner, count, owner), NEW cut \in SUBSET Nat, IsFiniteSet(cut)
  PROVE  /\ Emptied(SetToSeq(cut))[Cardinality(cut)] \in [DOMAIN words -> Node(geo)]
         /\ \A jd \in Nat : Leaf(geo, jd) \in DOMAIN words =>
              Entry(geo, Emptied(SetToSeq(cut))[Cardinality(cut)], jd) =
                IF jd \in cut THEN {} ELSE Entry(geo, words, jd)
<1> DEFINE n == Cardinality(cut)
           ids == SetToSeq(cut)
           S == [DOMAIN words -> Node(geo)]
           step == [x \in S \X (1 .. n) |-> find_del_file_chunk(x[1], ids[x[2]])]
           F(f) == f = [k \in 0 .. n |-> IF k = 0 THEN words ELSE find_del_file_chunk(f[k - 1], ids[k])]
<1>1. n \in Nat /\ Len(ids) = n /\ ids \in [1 .. n -> cut] /\ \A x \in cut : \E k \in 1 .. n : ids[k] = x
  BY SetToSeqIs
<1>2. Emptied(ids) = CHOOSE f : F(f)
  BY <1>1 DEF Emptied
<1> HIDE DEF n, ids
<1>3. words \in S /\ Leads(geo, words, owner) /\ Nand = geo.g.nand
  BY GeoNames DEF Tree, Shape
<1>4. ASSUME NEW ws \in S, NEW k \in 1 .. n
      PROVE  /\ find_del_file_chunk(ws, ids[k]) \in S
             /\ \A jd \in Nat : Leaf(geo, jd) \in DOMAIN words =>
                  Entry(geo, find_del_file_chunk(ws, ids[k]), jd) =
                    IF jd = ids[k] /\ (\E c \in Nand : owner[c] = ids[k]) THEN {} ELSE Entry(geo, ws, jd)
  <2>1. ids[k] \in Nat
    BY <1>1
  <2> QED BY <2>1, DelIs
<1>5. PICK f : f \in [0 .. n -> S] /\ f[0] = words /\ \A k \in 1 .. n : f[k] = step[<<f[k - 1], k>>]
  <2> HIDE DEF S
  <2>1. ASSUME NEW x \in S \X (1 .. n) PROVE find_del_file_chunk(x[1], ids[x[2]]) \in S
    <3>1. x[1] \in S /\ x[2] \in 1 .. n
      OBVIOUS
    <3> QED BY <1>4, <3>1
  <2>2. IsStep(S, n, step)
    BY <2>1 DEF IsStep
  <2> HIDE DEF step
  <2>3. \E f : Solves(f, S, words, n, step)
    BY <1>1, <1>3, <2>2, RecursionExists
  <2> QED BY <2>3 DEF Solves
<1>6. \A k \in 1 .. n : k - 1 \in 0 .. n /\ f[k - 1] \in S /\ f[k] = find_del_file_chunk(f[k - 1], ids[k])
  <2> HIDE DEF S
  <2> SUFFICES ASSUME NEW k \in 1 .. n
               PROVE  k - 1 \in 0 .. n /\ f[k - 1] \in S /\ f[k] = find_del_file_chunk(f[k - 1], ids[k])
    OBVIOUS
  <2>1. k - 1 \in 0 .. n
    BY <1>1
  <2>2. f[k - 1] \in S
    BY <1>5, <2>1
  <2>3. <<f[k - 1], k>> \in S \X (1 .. n)
    BY <2>2
  <2> QED BY <1>5, <2>1, <2>2, <2>3
<1>7. F(f)
  <2>1. \A k \in 0 .. n : f[k] = IF k = 0 THEN words ELSE find_del_file_chunk(f[k - 1], ids[k])
    <3>1. \A k \in 0 .. n : k # 0 => k \in 1 .. n
      BY <1>1
    <3> QED BY <1>5, <1>6, <3>1
  <2>2. f = [k \in 0 .. n |-> f[k]]
    BY <1>5
  <2> QED BY <2>1, <2>2
<1> DEFINE e == Emptied(ids)
<1>8. F(e)
  BY <1>2, <1>7
<1> HIDE DEF e
<1> DEFINE Gone(k) == {ids[p] : p \in 1 .. k}
           Good(ws, k) == /\ ws \in S
                          /\ \A jd \in Nat : Leaf(geo, jd) \in DOMAIN words =>
                               Entry(geo, ws, jd) = IF jd \in Gone(k) THEN {} ELSE Entry(geo, words, jd)
           T == {k \in 0 .. n : Good(e[k], k)}
<1>9. /\ e[0] = words
      /\ \A k \in 1 .. n : e[k] = find_del_file_chunk(e[k - 1], ids[k])
  <2>1. \A k \in 1 .. n : k \in 0 .. n /\ k # 0
    BY <1>1
  <2>2. 0 \in 0 .. n
    BY <1>1
  <2> QED BY <1>8, <2>1, <2>2
<1>10. 0 \in T
  <2>1. Gone(0) = {}
    OBVIOUS
  <2> HIDE DEF Gone, S
  <2> QED BY <1>1, <1>3, <1>9, <2>1
<1>11. ASSUME NEW k \in 1 .. n, k - 1 \in T PROVE k \in T
  <2> DEFINE ws == e[k - 1]  new == e[k]
  <2>1. k \in 0 .. n /\ k \in Nat
    BY <1>1
  <2>2. ws \in S /\ \A jd \in Nat : Leaf(geo, jd) \in DOMAIN words =>
          Entry(geo, ws, jd) = IF jd \in Gone(k - 1) THEN {} ELSE Entry(geo, words, jd)
    BY <1>11
  <2>3. new = find_del_file_chunk(ws, ids[k])
    BY <1>9
  <2>4. Gone(k) = Gone(k - 1) \cup {ids[k]}
    <3>1. \A p : p \in 1 .. k <=> p \in 1 .. k - 1 \/ p = k
      BY <2>1
    <3> QED BY <3>1
  <2> HIDE DEF ws, new, Gone, S
  <2>5. /\ new \in S
        /\ \A jd \in Nat : Leaf(geo, jd) \in DOMAIN words =>
             Entry(geo, new, jd) = IF jd = ids[k] /\ (\E c \in Nand : owner[c] = ids[k]) THEN {} ELSE Entry(geo, ws, jd)
    BY <1>4, <2>2, <2>3
  <2>6. ASSUME NEW jd \in Nat, Leaf(geo, jd) \in DOMAIN words
        PROVE  Entry(geo, new, jd) = IF jd \in Gone(k) THEN {} ELSE Entry(geo, words, jd)
    <3>1. Entry(geo, ws, jd) = IF jd \in Gone(k - 1) THEN {} ELSE Entry(geo, words, jd)
      BY <2>2, <2>6
    <3>2. Entry(geo, new, jd) = IF jd = ids[k] /\ (\E c \in Nand : owner[c] = ids[k]) THEN {} ELSE Entry(geo, ws, jd)
      BY <2>5, <2>6
    <3>3. (~\E c \in Nand : owner[c] = jd) => Entry(geo, words, jd) = {}
      BY <1>3, <2>6 DEF Leads
    <3> QED BY <2>4, <3>1, <3>2, <3>3
  <2>7. Good(new, k)
    BY <2>5, <2>6
  <2> HIDE DEF Good
  <2> QED BY <2>1, <2>7 DEF new
<1>12. n \in T
  <2> HIDE DEF T
  <2>1. \A k \in 0 .. n : k \in T
    BY <1>1, <1>10, <1>11, UpTo
  <2>2. n \in 0 .. n
    BY <1>1
  <2> QED BY <2>1, <2>2
<1>13. Gone(n) = cut
  BY <1>1
<1>14. e[n] \in S /\ \A jd \in Nat : Leaf(geo, jd) \in DOMAIN words =>
         Entry(geo, e[n], jd) = IF jd \in cut THEN {} ELSE Entry(geo, words, jd)
  <2> HIDE DEF Gone, S
  <2> QED BY <1>12, <1>13
<1> QED BY <1>14, Zenon DEF e, n, ids

LEMMA FoundIs ==
  ASSUME Tree(geo, top, words, inner, count, owner), NEW id \in Nat, NEW c \in Nand
  PROVE  find_chunk_in_file(id) = c <=> owner[c] = id
<1>0. geo \in Initialised /\ Owns(geo, owner) /\ Nand = geo.g.nand /\ \A d \in Nand : d \in Nat
  BY GeoNames, GeoFacts DEF Tree
<1>1. find_chunk_in_file(id) = Home(Nand, owner, id)
  BY <1>0, FindHome DEF Tree
<1>2. ASSUME NEW d \in Nand, owner[d] = id PROVE Home(Nand, owner, id) = d
  <2>1. \A e \in Nand : owner[e] = id => e = d
    BY <1>0, <1>2 DEF Owns
  <2> QED BY <1>2, <2>1, HomeIs
<1>3. (~\E d \in Nand : owner[d] = id) => Home(Nand, owner, id) = -1
  BY DEF Home
<1> QED BY <1>0, <1>1, <1>2, <1>3, Minus

LEMMA EntryNotEmpty ==
  ASSUME geo \in Initialised, NEW c \in Nand
  PROVE  EntryFor(geo, c) # {}
<1> DEFINE q == c \div GrpSize
<1>1. q \in 1 .. Pow2[Width] - 1 /\ Width \in Nat /\ Pow2[Width] \in Nat
  BY GeoFacts, Pow2Def DEF Pos1
<1>2. EntryFor(geo, c) = ToBits(q)
  BY GeoNames, Zenon DEF EntryFor, ToBits
<1> HIDE DEF q
<1>3. q \in 0 .. Pow2[Width] - 1 /\ q # 0
  BY <1>1
<1>4. FromBits(ToBits(q)) = q /\ FromBits({}) = 0
  BY <1>3, FromToBits, FromNoBits
<1> QED BY <1>2, <1>3, <1>4

LEMMA CutOwns ==
  ASSUME Tree(geo, top, words, inner, count, owner), NEW cut \in SUBSET Nat
  PROVE  /\ Owns(geo, Deleted({find_chunk_in_file(id) : id \in cut}))
         /\ \A d \in Nand : Deleted({find_chunk_in_file(id) : id \in cut})[d] =
              IF owner[d] \in cut THEN Nobody ELSE owner[d]
<1> DEFINE gone == {find_chunk_in_file(id) : id \in cut}
           own == Deleted(gone)
<1>0. geo \in Initialised /\ Owns(geo, owner) /\ Nand = geo.g.nand /\ Ids = geo.g.ids /\ Ids \subseteq Nat
  BY GeoNames, GeoFacts DEF Tree
<1>1. ASSUME NEW d \in Nand PROVE d \in gone <=> owner[d] \in cut
  <2>1. \A id \in cut : find_chunk_in_file(id) = d <=> owner[d] = id
    BY FoundIs
  <2> QED BY <2>1
<1> HIDE DEF gone
<1>2. own = [d \in Nand |-> IF d \in gone THEN Nobody ELSE owner[d]]
  BY DEF Deleted
<1> HIDE DEF own
<1>3. \A d \in Nand : own[d] = IF owner[d] \in cut THEN Nobody ELSE owner[d]
  BY <1>1, <1>2
<1>4. \A d \in Nand : owner[d] \in Ids \cup {Nobody, Stranger}
  BY <1>0, OwnerIs
<1>5. own \in [Nand -> Ids \cup {Nobody, Stranger}]
  BY <1>2, <1>4
<1>6. ASSUME NEW d \in Nand, NEW e \in Nand, own[d] = own[e], own[d] >= 0 PROVE d = e
  <2>1. owner[d] = own[d] /\ owner[e] = own[d]
    BY <1>3, <1>6, Minus
  <2> QED BY <1>0, <1>6, <2>1 DEF Owns
<1>7. Owns(geo, own)
  BY <1>0, <1>5, <1>6 DEF Owns
<1> QED BY <1>3, <1>7, Zenon DEF own, gone

LEMMA CutKeeps ==
  ASSUME Tree(geo, top, words, inner, count, owner), NEW n \in Ids, CutFrom(n)
  PROVE  /\ Tree(geo', top', words', inner', count', owner') /\ geo' = geo
         /\ \A d \in Nand : owner'[d] = IF owner[d] \in Ids /\ owner[d] >= n THEN Nobody ELSE owner[d]
<1> DEFINE cut == {id \in Ids : id >= n}
           ws == Emptied(SetToSeq(cut))[Cardinality(cut)]
           r == prune_tree(ws)
           own == Deleted({find_chunk_in_file(id) : id \in cut})
<1>0. /\ geo \in Initialised /\ Owns(geo, owner) /\ Nand = geo.g.nand /\ Ids = geo.g.ids /\ Ids \subseteq Nat
      /\ IsFiniteSet(Ids) /\ Shape(geo, top, words, inner) /\ Counted(words, inner, count) /\ Leads(geo, words, owner)
  BY GeoNames, GeoFacts DEF Tree
<1>1. SetTree(r) /\ owner' = own /\ geo' = geo
  BY DEF CutFrom
<1>2. cut \in SUBSET Nat /\ cut \in SUBSET Ids
  BY <1>0
<1>3. IsFiniteSet(cut)
  <2> HIDE DEF cut
  <2> QED BY <1>0, <1>2, FS_Subset
<1>4. /\ ws \in [DOMAIN words -> Node(geo)]
      /\ \A jd \in Nat : Leaf(geo, jd) \in DOMAIN words =>
           Entry(geo, ws, jd) = IF jd \in cut THEN {} ELSE Entry(geo, words, jd)
  <2> HIDE DEF cut
  <2> QED BY <1>2, <1>3, EmptiedIs
<1>5. Owns(geo, own) /\ \A d \in Nand : own[d] = IF owner[d] \in cut THEN Nobody ELSE owner[d]
  <2> HIDE DEF cut
  <2> QED BY <1>2, CutOwns
<1>6. \A d \in Nand : owner[d] \in cut <=> owner[d] \in Ids /\ owner[d] >= n
  OBVIOUS
<1> HIDE DEF cut, ws, own
<1>7. /\ Shape(geo, r.top, r.words, r.inner) /\ Counted(r.words, r.inner, r.count)
      /\ DOMAIN r.words \subseteq DOMAIN words
      /\ \A i \in DOMAIN r.words : r.words[i] = ws[i]
      /\ \A i \in DOMAIN words : i \notin DOMAIN r.words => ws[i] = Empty
  BY <1>0, <1>4, PruneIs
<1>8. top' = r.top /\ words' = r.words /\ inner' = r.inner /\ count' = r.count
  BY <1>1, Zenon DEF SetTree
<1> HIDE DEF r
<1>9. ASSUME NEW jd \in Nat, Leaf(geo, jd) \in DOMAIN r.words PROVE Entry(geo, r.words, jd) = Entry(geo, ws, jd)
  BY <1>7, <1>9 DEF Entry
<1>10. ASSUME NEW d \in Nand, own[d] >= 0
       PROVE  Leaf(geo, own[d]) \in DOMAIN r.words /\ Entry(geo, r.words, own[d]) = EntryFor(geo, d)
  <2> DEFINE jd == own[d]
  <2>1. jd = owner[d] /\ jd \notin cut
    BY <1>5, <1>10, Minus
  <2>2. jd \in Nat
    BY <1>0, <1>5, <1>10, OwnerIs, Minus
  <2>3. Leaf(geo, jd) \in DOMAIN words /\ Entry(geo, words, jd) = EntryFor(geo, d)
    BY <1>0, <1>10, <2>1 DEF Leads
  <2> HIDE DEF jd
  <2>4. Entry(geo, ws, jd) = EntryFor(geo, d)
    BY <1>4, <2>1, <2>2, <2>3
  <2>5. Leaf(geo, jd) \in DOMAIN r.words
    <3> SUFFICES ASSUME Leaf(geo, jd) \notin DOMAIN r.words PROVE FALSE
      OBVIOUS
    <3>1. Entry(geo, ws, jd) = {}
      BY <1>0, <1>7, <2>2, <2>3, EmptyEntry
    <3> QED BY <1>0, <2>4, <3>1, EntryNotEmpty
  <2>6. Entry(geo, r.words, jd) = EntryFor(geo, d)
    BY <1>9, <2>2, <2>4, <2>5
  <2> QED BY <2>5, <2>6 DEF jd
<1>11. ASSUME NEW jd \in Nat, Leaf(geo, jd) \in DOMAIN r.words, \A d \in Nand : own[d] # jd
       PROVE  Entry(geo, r.words, jd) = {}
  <2>1. Leaf(geo, jd) \in DOMAIN words /\ Entry(geo, r.words, jd) = Entry(geo, ws, jd)
    BY <1>7, <1>9, <1>11
  <2>2. CASE jd \in cut
    BY <1>4, <2>1, <2>2
  <2>3. CASE jd \notin cut
    <3>1. \A d \in Nand : owner[d] # jd
      BY <1>5, <1>11, <2>3
    <3>2. Entry(geo, words, jd) = {}
      BY <1>0, <2>1, <3>1 DEF Leads
    <3> QED BY <1>4, <2>1, <2>3, <3>2
  <2> QED BY <2>2, <2>3
<1>12. Leads(geo, r.words, own)
  BY <1>0, <1>10, <1>11 DEF Leads
<1>13. Tree(geo, r.top, r.words, r.inner, r.count, own)
  BY <1>0, <1>5, <1>7, <1>12 DEF Tree
<1>14. Tree(geo', top', words', inner', count', owner')
  BY <1>1, <1>8, <1>13, Zenon
<1>15. \A d \in Nand : owner'[d] = IF owner[d] \in Ids /\ owner[d] >= n THEN Nobody ELSE owner[d]
  BY <1>1, <1>5, <1>6
<1> QED BY <1>1, <1>14, <1>15

-----------------------------------------------------------------------------
(* The invariant, and the table as the abstract specification has it       *)

LEMMA HomeSame ==
  ASSUME NEW nand, NEW own, NEW new, NEW id,
         \A c, d \in nand : own[c] = id /\ own[d] = id => c = d,
         \A d \in nand : new[d] = id <=> own[d] = id
  PROVE  Home(nand, new, id) = Home(nand, own, id)
<1>1. CASE \E c \in nand : own[c] = id
  <2>1. PICK c \in nand : own[c] = id
    BY <1>1
  <2>2. Home(nand, own, id) = c
    BY <2>1, HomeIs
  <2>3. Home(nand, new, id) = c
    BY <2>1, HomeIs
  <2> QED BY <2>2, <2>3
<1>2. CASE ~\E c \in nand : own[c] = id
  BY <1>2 DEF Home
<1> QED BY <1>1, <1>2

LEMMA InitInv == TreeInit => TreeInv
<1> SUFFICES ASSUME TreeInit PROVE TreeInv
  OBVIOUS
<1> DEFINE U(i, l) == Up(L1Bits, i, l)
<1>0. /\ geo \in Initialised /\ top = 0 /\ words = [i \in {0} |-> Empty] /\ inner = {} /\ count = 1
      /\ owner = [c \in Nand |-> Nobody] /\ table = [id \in AllIds |-> -1]
  BY DEF TreeInit
<1>1. Nand = geo.g.nand /\ Ids = geo.g.ids /\ L1Bits = geo.g.l1Bits /\ MaxLevel = geo.g.maxLevel /\ L1Bits \in Pos1
      /\ MaxLevel \in Nat
  BY <1>0, GeoNames, GeoFacts
<1>2. Empty \in Node(geo)
  <2>1. Pos(0) \in 0 .. Pow2[L0Bits] - 1
    BY <1>0, FieldStart
  <2> QED BY <1>0, <2>1, EmptyField
<1>3. IsFiniteSet({0}) /\ Cardinality({0}) = 1 /\ IsFiniteSet({}) /\ Cardinality({}) = 0
  BY FS_Singleton, FS_EmptySet
<1>4. DOMAIN words = {0} /\ words[0] = Empty
  BY <1>0
<1>5. Shape(geo, top, words, inner)
  <2>1. Up(geo.g.l1Bits, 0, 0) = 0
    BY <1>1, UpOfZero
  <2>2. words \in [DOMAIN words -> Node(geo)]
    BY <1>0, <1>2
  <2> QED BY <1>0, <1>1, <1>3, <1>4, <2>1, <2>2 DEF Shape
<1>6. Counted(words, inner, count)
  BY <1>0, <1>3, <1>4 DEF Counted
<1>7. \A c \in Nand : owner[c] = Nobody
  BY <1>0
<1>8. Owns(geo, owner)
  BY <1>0, <1>1, <1>7, Minus DEF Owns
<1>9. Leads(geo, words, owner)
  <2>1. ASSUME NEW id \in Nat, Leaf(geo, id) \in DOMAIN words PROVE Entry(geo, words, id) = {}
    BY <1>0, <1>4, <2>1, EmptyEntry
  <2> QED BY <1>1, <1>7, <2>1, Minus DEF Leads
<1>10. \A id \in AllIds : Home(geo.g.nand, owner, id) = -1
  BY <1>1, <1>7, AllIdsNat, Minus DEF Home
<1> QED BY <1>0, <1>5, <1>6, <1>8, <1>9, <1>10 DEF TreeInv, Tree

\* What a step does to the chunks that carry the tags of the file
Kept == \A d \in Nand, id \in Nat : owner'[d] = id <=> owner[d] = id
Put(i, c) ==
  /\ owner[c] = Nobody /\ owner'[c] = i
  /\ \A d \in Nand : owner'[d] = i => d = c
  /\ \A d \in Nand, id \in Nat : id # i => (owner'[d] = id <=> owner[d] = id)
Dropped(n) == \A d \in Nand : owner'[d] = IF owner[d] \in Ids /\ owner[d] >= n THEN Nobody ELSE owner[d]

LEMMA StepKeeps ==
  ASSUME Tree(geo, top, words, inner, count, owner), TreeStep
  PROVE  /\ Tree(geo', top', words', inner', count', owner') /\ geo' = geo
         /\ Kept \/ (\E i \in Ids, c \in Nand : Put(i, c)) \/ (\E n \in Ids : Dropped(n))
<1>0. geo \in Initialised /\ Ids \subseteq Nat
  BY GeoFacts DEF Tree
<1>1. CASE \E id \in Ids, c \in Nand : WriteChunk(id, c)
  <2>1. PICK id \in Ids, c \in Nand : WriteChunk(id, c)
    BY <1>1
  <2>2. Tree(geo', top', words', inner', count', owner')
    BY <2>1, WriteKeeps
  <2>3. geo' = geo /\ owner' = Rewritten(id, c)
    BY <1>0, <2>1, WriteIs
  <2>4. owner[c] = Nobody
    BY <2>1 DEF WriteChunk
  <2>5. /\ Rewritten(id, c)[c] = id
        /\ \A d \in Nand : Rewritten(id, c)[d] = id => d = c
        /\ \A d \in Nand, jd \in Nat : jd # id => (Rewritten(id, c)[d] = jd <=> owner[d] = jd)
    BY <2>4, RewriteOwns
  <2>6. Put(id, c)
    BY <2>3, <2>4, <2>5, Zenon DEF Put
  <2> QED BY <2>2, <2>3, <2>6
<1>2. CASE \E id \in Ids : WriteFails(id)
  BY <1>0, <1>2, FailsKeeps DEF Kept
<1>3. CASE \E id \in Ids : CutFrom(id)
  BY <1>3, CutKeeps DEF Dropped
<1>4. CASE \E c \in Nand : Other(c)
  BY <1>4, OtherKeeps DEF Kept
<1>5. CASE Reload
  BY <1>5, ReloadKeeps DEF Kept
<1> QED BY <1>1, <1>2, <1>3, <1>4, <1>5 DEF TreeStep

LEMMA NextInv == TreeInv /\ [TreeNext]_treeVars => TreeInv'
<1> SUFFICES ASSUME TreeInv, [TreeNext]_treeVars PROVE TreeInv'
  OBVIOUS
<1>0. Tree(geo, top, words, inner, count, owner) /\ table = [id \in AllIds |-> Home(geo.g.nand, owner, id)]
  BY DEF TreeInv
<1>1. CASE TreeNext
  <2>1. TreeStep /\ table' = [id \in AllIds |-> find_chunk_in_file(id)']
    BY <1>1 DEF TreeNext
  <2>2. Tree(geo', top', words', inner', count', owner')
    BY <1>0, <2>1, StepKeeps
  <2>3. FindsHome'
    BY <2>2, TreeFindsNext
  <2>4. \A id \in AllIds : find_chunk_in_file(id)' = Home(geo'.g.nand, owner', id)
    BY <2>3 DEF FindsHome, Home
  <2>5. table' = [id \in AllIds |-> Home(geo'.g.nand, owner', id)]
    BY <2>1, <2>4
  <2>6. TreeInv' <=> Tree(geo', top', words', inner', count', owner')
                     /\ table' = [id \in AllIds |-> Home(geo'.g.nand, owner', id)]
    BY DEF TreeInv, Tree, Shape, Counted, Owns, Leads, Node, Entry, EntryFor, Leaf, PlaceIn, Field, Bit, Up, Home
  <2> QED BY <2>2, <2>5, <2>6
<1>2. CASE UNCHANGED treeVars
  <2>1. /\ geo' = geo /\ top' = top /\ words' = words /\ inner' = inner /\ count' = count /\ owner' = owner
        /\ table' = table
    BY <1>2 DEF treeVars
  <2>6. TreeInv' <=> Tree(geo', top', words', inner', count', owner')
                     /\ table' = [id \in AllIds |-> Home(geo'.g.nand, owner', id)]
    BY DEF TreeInv, Tree, Shape, Counted, Owns, Leads, Node, Entry, EntryFor, Leaf, PlaceIn, Field, Bit, Up, Home
  <2> QED BY <1>0, <2>1, <2>6
<1> QED BY <1>1, <1>2

LEMMA InvSound == TreeInv => TreeSound
<1> SUFFICES ASSUME TreeInv PROVE TreeSound
  OBVIOUS
<1> DEFINE U(i, l) == Up(L1Bits, i, l)
<1>0. /\ Tree(geo, top, words, inner, count, owner) /\ geo \in Initialised /\ Shape(geo, top, words, inner)
      /\ Counted(words, inner, count) /\ Owns(geo, owner) /\ Nand = geo.g.nand
  BY GeoNames DEF TreeInv, Tree
<1>1. L1Bits \in Pos1 /\ L1Bits = geo.g.l1Bits /\ Ids \subseteq Nat /\ geo.g.maxLevel \in Nat
  BY <1>0, GeoFacts, GeoNames
<1>2. \A i, l : Above(i, l) = U(i, l)
  BY <1>0, AboveIs
<1>3. \A i, l \in Nat : U(0, l) = 0 /\ U(i, 0) = i
  BY <1>1, UpOfZero, UpNone
<1>4. /\ top \in Nat /\ 0 \in DOMAIN words /\ inner \subseteq (1 .. top) \X Nat
      /\ \A i \in DOMAIN words : \A l \in 1 .. top : <<l, U(i, l)>> \in inner
      /\ \A l, i \in Nat : <<l, i>> \in inner => U(i, top - l) = 0 /\ (l < top => <<l + 1, U(i, 1)>> \in inner)
  BY <1>0, <1>1 DEF Shape
<1> HIDE DEF U
<1>5. count = Cardinality(DOMAIN words) + Cardinality(inner)
  BY <1>0 DEF Counted
<1>6. Exists(words, inner, top, 0)
  <2>1. CASE top = 0
    BY <1>4, <2>1 DEF Exists
  <2>2. CASE top # 0
    <3>1. <<top, U(0, top)>> \in inner
      BY <1>4, <2>2
    <3> QED BY <1>3, <1>4, <2>2, <3>1 DEF Exists
  <2> QED BY <2>1, <2>2
<1>7. \A i \in DOMAIN words, l \in 1 .. top : <<l, Above(i, l)>> \in inner
  BY <1>2, <1>4
<1>8. ASSUME NEW x \in inner
      PROVE  /\ x[1] <= top /\ (x[1] = top => x[2] = 0)
             /\ (x[1] < top => <<x[1] + 1, Above(x[2], 1)>> \in inner)
  <2>1. PICK l \in 1 .. top, i \in Nat : x = <<l, i>>
    BY <1>4
  <2>2. l \in Nat /\ l <= top /\ (l = top => top - l = 0)
    BY <1>4
  <2>3. U(i, top - l) = 0 /\ (l < top => <<l + 1, U(i, 1)>> \in inner)
    BY <1>4, <2>1, <2>2
  <2>4. l = top => i = 0
    BY <1>3, <2>2, <2>3
  <2> QED BY <1>2, <2>1, <2>2, <2>3, <2>4
<1>9. ASSUME NEW c \in Nand, owner[c] >= 0 PROVE find_chunk_in_file(owner[c]) = c
  <2>1. owner[c] \in Nat
    BY <1>0, <1>1, <1>9, OwnerIs, Minus
  <2> QED BY <1>0, <2>1, FoundIs
<1> QED BY <1>5, <1>6, <1>7, <1>8, <1>9 DEF TreeSound

(* For every geometry and every set of chunks: every node of the tree of a   *)
(* file is reached from its top and counted by n_tnodes, and every chunk in  *)
(* use with the tags of the file is the one yaffs_find_chunk_in_file         *)
(* answers, after any growth, failed allocation, truncation or rebuild.      *)
THEOREM TreesSound == TreeSpec => []TreeSound
<1>1. TreeSpec => []TreeInv
  BY InitInv, NextInv, PTL DEF TreeSpec
<1> QED BY <1>1, InvSound, PTL

LEMMA TableStep ==
  ASSUME TreeInv, TreeInv', [TreeNext]_treeVars
  PROVE  [Map!Next]_table
<1>0. /\ Tree(geo, top, words, inner, count, owner) /\ table = [id \in AllIds |-> Home(geo.g.nand, owner, id)]
      /\ geo \in Initialised /\ Owns(geo, owner) /\ Nand = geo.g.nand
  BY GeoNames DEF TreeInv, Tree
<1>1. table' = [id \in AllIds |-> Home(geo'.g.nand, owner', id)]
  BY DEF TreeInv, Home
<1>2. CASE UNCHANGED treeVars
  BY <1>2 DEF treeVars
<1>3. CASE TreeNext
  <2>0. AllIds \subseteq Nat /\ Ids \subseteq Nat /\ \A c \in Nand : c \in Nat
    BY <1>0, AllIdsNat, GeoFacts
  <2>1. Ids \subseteq AllIds /\ Nand \subseteq AllNand
    <3>1. geo.g \in Trees
      BY <1>0 DEF Initialised
    <3> QED BY <3>1 DEF AllIds, AllNand, Ids, Nand
  <2>2. geo' = geo /\ (Kept \/ (\E i \in Ids, c \in Nand : Put(i, c)) \/ (\E n \in Ids : Dropped(n)))
    BY <1>0, <1>3, StepKeeps DEF TreeNext
  <2>3. \A id \in AllIds : table[id] = Home(Nand, owner, id) /\ table'[id] = Home(Nand, owner', id)
    BY <1>0, <1>1, <2>2
  <2>4. ASSUME NEW id \in Nat, \A d \in Nand : owner'[d] = id <=> owner[d] = id
        PROVE  Home(Nand, owner', id) = Home(Nand, owner, id)
    <3>1. \A c, d \in Nand : owner[c] = id /\ owner[d] = id => c = d
      BY <1>0 DEF Owns
    <3> QED BY <2>4, <3>1, HomeSame
  <2>5. CASE Kept
    <3>1. \A id \in AllIds : table'[id] = table[id]
      BY <2>0, <2>3, <2>4, <2>5 DEF Kept
    <3> QED BY <1>0, <1>1, <3>1
  <2>6. CASE \E i \in Ids, c \in Nand : Put(i, c)
    <3>1. PICK i \in Ids, c \in Nand : Put(i, c)
      BY <2>6
    <3>2. owner[c] = Nobody /\ owner'[c] = i /\ \A d \in Nand : owner'[d] = i => d = c
      BY <3>1 DEF Put
    <3>3. \A d \in Nand, id \in Nat : id # i => (owner'[d] = id <=> owner[d] = id)
      BY <3>1 DEF Put
    <3>4. Home(Nand, owner', i) = c
      BY <3>2, HomeIs
    <3>5. \A id \in AllIds : id # i => table'[id] = table[id]
      BY <2>0, <2>3, <2>4, <3>3
    <3>6. ASSUME NEW j \in AllIds, table[j] = c PROVE FALSE
      <4>1. find_chunk_in_file(j) = c
        BY <1>0, <2>0, <2>3, <3>6, FindHome DEF Tree
      <4>2. owner[c] = j
        BY <1>0, <2>0, <4>1, FoundIs
      <4> QED BY <2>0, <3>2, <4>2, Minus
    <3>7. table' = [table EXCEPT ![i] = c]
      BY <1>0, <1>1, <2>1, <2>3, <3>4, <3>5
    <3>8. Map!Replace(i, c)
      BY <3>6, <3>7 DEF Map!Replace
    <3> QED BY <2>1, <3>8 DEF Map!Next
  <2>7. CASE \E n \in Ids : Dropped(n)
    <3>1. PICK n \in Ids : Dropped(n)
      BY <2>7
    <3>2. \A d \in Nand : owner'[d] = IF owner[d] \in Ids /\ owner[d] >= n THEN Nobody ELSE owner[d]
      BY <3>1 DEF Dropped
    <3>3. \A d \in Nand : owner[d] \in Nat => owner[d] \in Ids
      BY <1>0, OwnerIs, Minus
    <3>4. ASSUME NEW id \in AllIds, id >= n PROVE table'[id] = -1
      <4>1. \A d \in Nand : owner'[d] # id
        BY <2>0, <3>2, <3>3, <3>4, Minus
      <4>2. Home(Nand, owner', id) = -1
        BY <4>1 DEF Home
      <4> QED BY <2>3, <4>2
    <3>5. ASSUME NEW id \in AllIds, ~(id >= n) PROVE table'[id] = table[id]
      <4>1. \A d \in Nand : owner'[d] = id <=> owner[d] = id
        BY <2>0, <3>2, <3>5, Minus
      <4> QED BY <2>0, <2>3, <2>4, <4>1
    <3>6. table' = [id \in AllIds |-> IF id >= n THEN -1 ELSE table[id]]
      BY <1>1, <3>4, <3>5
    <3>7. Map!Cut(n)
      BY <3>6 DEF Map!Cut, Map!NoChunk
    <3> QED BY <2>1, <3>7 DEF Map!Next
  <2> QED BY <2>2, <2>5, <2>6, <2>7
<1> QED BY <1>2, <1>3

(* For every geometry and every set of chunks: what yaffs_find_chunk_in_file *)
(* answers is the table of YaffsChunkMap.  A write puts one new chunk at one *)
(* place, a truncation forgets the chunks from its place on, and no growth,  *)
(* failed allocation, pruning or rebuild changes an answer.                  *)
THEOREM TreesImplementMap == TreeSpec => ImplementsMap
<1>1. TreeSpec => []TreeInv
  BY InitInv, NextInv, PTL DEF TreeSpec
<1>2. TreeInit => Map!Init
  BY DEF TreeInit, Map!Init, Map!NoChunk
<1>3. TreeInv /\ TreeInv' /\ [TreeNext]_treeVars => [Map!Next]_table
  BY TableStep
<1> QED BY <1>1, <1>2, <1>3, PTL DEF TreeSpec, ImplementsMap, Map!Spec
=============================================================================
