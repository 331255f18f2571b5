--------------------------- MODULE MsgQueueProofs ---------------------------
(***************************************************************************)
(* Proofs about module MsgQueue for any number of blocks, receivers and    *)
(* message lengths.                                                        *)
(*                                                                         *)
(* The invariant has two halves that only meet in _msgCount: the distance  *)
(* of the pointers (BufferInv) and the books of the semaphore              *)
(* (PermitsBacked, WaitersInDebt).  What an operation does to the contents *)
(* is said once, in the lemmas about Contents; the refinement follows from *)
(* them.                                                                   *)
(***************************************************************************)
EXTENDS MsgQueue, FiniteSetTheorems, SequenceTheorems, Recursion

BufferInv == TypeOK /\ CountIsDistance

\* As long as every permit has its message the buffer is in use and not full.
NotFull == ~ spurious => phase = "live" /\ msgCount < Capacity

IInv == BufferInv /\ NotFull /\ PermitsBacked /\ WaitersInDebt

-----------------------------------------------------------------------------
(* The buffer                                                              *)

\* The wrap-around of the pointers stays inside the buffer.
LEMMA PointersStay ==
  ASSUME NEW i \in Block
  PROVE  Forward(i) \in Block /\ Back(i) \in Block
  BY MsgQueueAssumption DEF Block, Forward, Back

\* Place(r, k) is a block, for every message and for the one to be added.
LEMMA PlaceIsBlock ==
  ASSUME NEW r \in Block, NEW k \in Block
  PROVE  Place(r, k) \in Block
  BY MsgQueueAssumption DEF Block, Place

\* Counting up and down goes round the buffer.
LEMMA ReachableSteps ==
  ASSUME NEW c \in Nat
  PROVE  /\ Reachable(c) \in Block
         /\ Reachable(c + 1) = IF Reachable(c) + 1 = Capacity THEN 0 ELSE Reachable(c) + 1
         /\ c < Capacity => Reachable(c) = c
         /\ Reachable(c) # 0 => c - 1 \in Nat /\ Reachable(c - 1) = Reachable(c) - 1
<1>0. Capacity \in Pos1 /\ Capacity \in Nat /\ Capacity >= 1
  BY MsgQueueAssumption DEF Pos1
<1> DEFINE q == c \div Capacity
           r == c % Capacity
<1>1. Split(c, Capacity, q, r)
  BY <1>0, DivSplit
<1> HIDE DEF q, r
<1>2. q \in Nat /\ r \in 0 .. Capacity - 1 /\ c = q * Capacity + r
  BY <1>1 DEF Split
<1>3. Reachable(c) = r
  BY Zenon DEF Reachable, r
<1>4. r + 1 = Capacity => Reachable(c + 1) = 0
  <2> HAVE r + 1 = Capacity
  <2>1. (q + 1) * Capacity = q * Capacity + Capacity
    BY <1>0, <1>2
  <2>2. Split(c + 1, Capacity, q + 1, 0)
    BY <1>0, <1>2, <2>1 DEF Split
  <2> QED
    BY <1>0, <2>2, DivIs DEF Reachable
<1>5. r + 1 # Capacity => Reachable(c + 1) = r + 1
  <2> HAVE r + 1 # Capacity
  <2>1. Split(c + 1, Capacity, q, r + 1)
    BY <1>0, <1>2 DEF Split
  <2> QED
    BY <1>0, <2>1, DivIs DEF Reachable
<1>6. c < Capacity => Reachable(c) = c
  <2> HAVE c < Capacity
  <2>1. Split(c, Capacity, 0, c)
    BY <1>0 DEF Split
  <2> QED
    BY <1>0, <2>1, DivIs DEF Reachable
<1>7. r # 0 => c - 1 \in Nat /\ Reachable(c - 1) = r - 1
  <2> HAVE r # 0
  <2>0. q * Capacity \in Nat
    BY <1>0, <1>2
  <2>1. c - 1 \in Nat /\ Split(c - 1, Capacity, q, r - 1)
    BY <1>0, <1>2, <2>0 DEF Split
  <2> QED
    BY <1>0, <2>1, DivIs DEF Reachable
<1> QED
  BY <1>2, <1>3, <1>4, <1>5, <1>6, <1>7 DEF Block

\* Each operation keeps the pointers as far apart as there are messages.
LEMMA BufferStep == BufferInv /\ [Next]_vars => BufferInv'
<1> SUFFICES ASSUME BufferInv, [Next]_vars PROVE BufferInv'
  OBVIOUS
<1> USE MsgQueueAssumption DEF BufferInv, TypeOK, CountIsDistance, Phase, Null
<1>0. Reachable(0) = 0
  BY ReachableSteps
<1>1. ASSUME NEW g \in Receiver, GetPermit(g) PROVE BufferInv'
  BY <1>1 DEF GetPermit, bufVars
<1>2. ASSUME NEW g \in Receiver, GetMessage(g) PROVE BufferInv'
  <2>1. CASE phase \in {"live", "woken", "freed"}
    <3>1. msgCount \in Nat /\ readPtr \in Block /\ writePtr = Place(readPtr, Reachable(msgCount))
      BY <2>1
    <3>2. Reachable(msgCount) # 0
      BY <1>2, <3>1 DEF GetMessage, Place, Block
    <3>3. msgCount - 1 \in Nat /\ Reachable(msgCount - 1) = Reachable(msgCount) - 1 /\ Reachable(msgCount) \in Block
      BY <3>1, <3>2, ReachableSteps
    <3>4. readPtr' = Forward(readPtr) /\ readPtr' \in Block
      BY <1>2, <2>1, <3>1, PointersStay DEF GetMessage
    <3>5. writePtr = Place(Forward(readPtr), Reachable(msgCount) - 1)
      BY <3>1, <3>2, <3>3 DEF Place, Forward, Block
    <3>6. msgCount' \in 0 .. MaxCount /\ msgCount' = msgCount - 1
      BY <1>2, <2>1, <3>3 DEF GetMessage
    <3> QED
      BY <1>2, <2>1, <3>1, <3>3, <3>4, <3>5, <3>6 DEF GetMessage, semVars
  <2>2. CASE phase \notin {"live", "woken", "freed"}
    <3>1. readPtr' \in Block \cup {Null}
      <4>1. readPtr \in Block \cup {Null} /\ Forward(readPtr) \in Block
        BY PointersStay DEF Forward, Block
      <4> QED
        BY <1>2, <2>2, <4>1 DEF GetMessage
    <3> QED
      BY <1>2, <2>2, <3>1 DEF GetMessage, semVars
  <2> QED
    BY <2>1, <2>2
<1>3. ASSUME NEW g \in Receiver, GetBusy(g) PROVE BufferInv'
  BY <1>3 DEF GetBusy, bufVars, semVars
<1>4. SemUnlock => val' \in Int /\ waiters' \in SUBSET Receiver
  BY FS_Subset, FS_CardinalityType DEF SemUnlock
<1>5. CountIn => msgCount' = msgCount + 1 /\ msgCount < MaxCount /\ spurious' \in BOOLEAN /\ SemUnlock
  BY DEF CountIn
<1>6. ASSUME NEW l \in Length, AddMessage(l) PROVE BufferInv'
  <2>1. phase \in {"live", "woken"} /\ phase' = phase /\ CountIn /\ readPtr' = readPtr /\ passed' = passed
    BY <1>6 DEF AddMessage, Owned
  <2>2. /\ msgCount \in Nat /\ readPtr \in Block /\ writePtr \in Block
        /\ writePtr = Place(readPtr, Reachable(msgCount))
    BY <2>1
  <2>3. len' \in [Block -> Length] /\ writePtr' \in Block /\ writePtr' = Forward(writePtr)
    BY <1>6, <2>2, PointersStay DEF AddMessage
  <2>4. msgCount' \in 0 .. MaxCount /\ msgCount' = msgCount + 1
    BY <1>5, <2>1, <2>2
  <2>5. writePtr' = Place(readPtr, Reachable(msgCount + 1))
    <3> DEFINE c == Reachable(msgCount)
               d == Reachable(msgCount + 1)
    <3>1. c \in Block /\ d = IF c + 1 = Capacity THEN 0 ELSE c + 1
      BY <2>2, ReachableSteps
    <3>2. writePtr = Place(readPtr, c)
      BY <2>2
    <3> HIDE DEF c, d
    <3>3. writePtr' = Place(readPtr, d)
      BY <2>2, <2>3, <3>1, <3>2, MsgQueueAssumption DEF Block, Forward, Place
    <3> QED
      BY <3>3 DEF d
  <2> QED
    BY <1>4, <1>5, <2>1, <2>2, <2>3, <2>4, <2>5
<1>7. ASSUME NEW l \in Length, AddUrgentMessage(l) PROVE BufferInv'
  <2>1. phase \in {"live", "woken"} /\ phase' = phase /\ CountIn /\ writePtr' = writePtr /\ passed' = passed
    BY <1>7 DEF AddUrgentMessage, Owned
  <2>2. /\ msgCount \in Nat /\ readPtr \in Block /\ writePtr \in Block
        /\ writePtr = Place(readPtr, Reachable(msgCount))
    BY <2>1
  <2>3. len' \in [Block -> Length] /\ readPtr' \in Block /\ readPtr' = Back(readPtr)
    BY <1>7, <2>2, PointersStay DEF AddUrgentMessage
  <2>4. msgCount' \in 0 .. MaxCount /\ msgCount' = msgCount + 1
    BY <1>5, <2>1, <2>2
  <2>5. writePtr = Place(readPtr', Reachable(msgCount + 1))
    <3> DEFINE c == Reachable(msgCount)
               d == Reachable(msgCount + 1)
    <3>1. c \in Block /\ d = IF c + 1 = Capacity THEN 0 ELSE c + 1
      BY <2>2, ReachableSteps
    <3>2. writePtr = Place(readPtr, c)
      BY <2>2
    <3> HIDE DEF c, d
    <3>3. writePtr = Place(readPtr', d)
      BY <2>2, <2>3, <3>1, <3>2, MsgQueueAssumption DEF Block, Back, Place
    <3> QED
      BY <3>3 DEF d
  <2> QED
    BY <1>4, <1>5, <2>1, <2>2, <2>3, <2>4, <2>5
<1>8. ASSUME ClearRead \/ InitRead PROVE BufferInv'
  <2>1. readPtr' = 0 /\ writePtr' = 0 /\ msgCount' = 0
    BY <1>8 DEF ClearRead, InitRead, EmptyBuffer
  <2>2. len' = len /\ passed' = passed /\ phase' \in Phase /\ spurious' \in BOOLEAN
    BY <1>8 DEF ClearRead, InitRead
  <2>3. 0 \in Block /\ Place(0, 0) = 0 /\ 0 \in 0 .. MaxCount
    BY DEF Block, Place
  <2>4. val' \in Int /\ waiters' \in SUBSET Receiver
    BY <1>4, <1>8 DEF ClearRead, InitRead
  <2> QED
    BY <1>0, <2>1, <2>2, <2>3, <2>4
<1>9. ASSUME DestroyWake PROVE BufferInv'
  BY <1>4, <1>9 DEF DestroyWake
<1>10. ASSUME DestroyFree \/ DestroyWrite \/ DestroyRead PROVE BufferInv'
  BY <1>10 DEF DestroyFree, DestroyWrite, DestroyRead, semVars
<1>11. ASSUME InitWrite \/ ClearWrite PROVE BufferInv'
  <2>1. CASE InitWrite
    BY <2>1 DEF InitWrite, semVars, Block
  <2>2. CASE ClearWrite
    BY <2>2 DEF ClearWrite, semVars, Block
  <2> QED
    BY <1>11, <2>1, <2>2
<1>12. ASSUME UNCHANGED vars PROVE BufferInv'
  BY <1>12 DEF vars, bufVars, semVars
<1> QED
  BY <1>1, <1>2, <1>3, <1>6, <1>7, <1>8, <1>9, <1>10, <1>11, <1>12 DEF Next

-----------------------------------------------------------------------------
(* The semaphore                                                           *)

SemInv == NotFull /\ PermitsBacked /\ WaitersInDebt

\* Pointers that are apart by fewer messages than blocks are equal just if
\* there is none.
LEMMA ApartIfAny ==
  ASSUME NEW r \in Block, NEW c \in Block, c # 0
  PROVE  r # Place(r, Reachable(c))
<1>1. c \in Nat /\ c < Capacity
  BY MsgQueueAssumption DEF Block
<1>2. Reachable(c) = c
  BY <1>1, ReachableSteps
<1> QED
  BY <1>2, MsgQueueAssumption DEF Block, Place

\* Each operation keeps the permits backed by messages.
LEMMA SemaphoreStep == IInv /\ BufferInv' /\ [Next]_vars => SemInv'
<1> SUFFICES ASSUME IInv, BufferInv', [Next]_vars PROVE SemInv'
  OBVIOUS
<1>1. /\ msgCount \in Int /\ val \in Int /\ spurious \in BOOLEAN
      /\ IsFiniteSet(passed) /\ IsFiniteSet(waiters)
      /\ Cardinality(passed) \in Nat /\ Cardinality(waiters) \in Nat
      /\ Capacity \in Nat
  BY MsgQueueAssumption, FS_Subset, FS_CardinalityType DEF IInv, BufferInv, TypeOK
<1>2. Cardinality({}) = 0
  BY FS_EmptySet
<1>a. ASSUME ~ spurious', phase' = "live", msgCount' < Capacity, msgCount' > 0
      PROVE  readPtr' # writePtr'
  <2>1. readPtr' \in Block /\ msgCount' \in Block /\ msgCount' # 0
    BY <1>a, <1>1, MsgQueueAssumption DEF BufferInv, TypeOK, Block
  <2>2. writePtr' = Place(readPtr', Reachable(msgCount'))
    BY <1>a DEF BufferInv, CountIsDistance
  <2> QED
    BY <2>1, <2>2, ApartIfAny
<1>b. passed' # {} => Cardinality(passed') > 0
  <2>1. IsFiniteSet(passed')
    BY MsgQueueAssumption, FS_Subset DEF BufferInv, TypeOK
  <2>2. Cardinality(passed') \in Nat /\ (Cardinality(passed') = 0 <=> passed' = {})
    BY <2>1, FS_CardinalityType, FS_EmptySet
  <2> QED
    BY <2>2
<1>c. ASSUME ~ spurious', phase' = "live", msgCount' < Capacity, Cardinality(passed') <= msgCount'
      PROVE  passed' # {} => readPtr' # writePtr'
  <2>1. msgCount' \in Int /\ Cardinality(passed') \in Nat
    BY MsgQueueAssumption, FS_Subset, FS_CardinalityType DEF BufferInv, TypeOK
  <2> QED
    BY <1>a, <1>b, <1>c, <2>1
<1> USE DEF IInv, SemInv, NotFull, PermitsBacked, WaitersInDebt
<1>3. ASSUME NEW g \in Receiver, GetPermit(g) PROVE SemInv'
  <2> USE <1>1, <1>3 DEF GetPermit, bufVars
  <2>1. CASE val - 1 >= 0
    <3>1. Cardinality(passed') = Cardinality(passed) + 1 /\ waiters' = waiters
      BY <2>1, FS_AddElement
    <3>2. waiters = {}
      BY <2>1
    <3> QED
      BY <1>2, <1>c, <2>1, <3>1, <3>2
  <2>2. CASE val - 1 < 0
    <3>1. Cardinality(waiters') <= Cardinality(waiters) + 1
      <4>1. waiters' = waiters \cup {g}
        BY <2>2
      <4>2. Cardinality(waiters') = Cardinality(waiters)
              \/ Cardinality(waiters') = Cardinality(waiters) + 1
        BY <4>1, FS_AddElement
      <4> QED
        BY <4>2
    <3>2. Cardinality(waiters') \in Nat /\ passed' = passed
      BY <2>2, FS_AddElement, FS_CardinalityType
    <3> QED
      BY <2>2, <3>1, <3>2
  <2> QED
    BY <2>1, <2>2
<1>4. ASSUME NEW g \in Receiver, GetMessage(g) \/ GetBusy(g)
      PROVE  SemInv'
  <2>1. Cardinality(passed') = Cardinality(passed) - 1
    BY <1>1, <1>4, FS_RemoveElement DEF GetMessage, GetBusy
  <2>2. GetBusy(g) => spurious
    BY <1>4 DEF GetBusy
  <2>3. GetMessage(g) => msgCount' = msgCount - 1
    BY DEF GetMessage
  <2>4. phase' = phase /\ spurious' = spurious /\ val' = val /\ waiters' = waiters
    BY <1>4 DEF GetMessage, GetBusy, semVars, bufVars
  <2> QED
    BY <1>1, <1>4, <1>c, <2>1, <2>2, <2>3, <2>4
<1>5. ASSUME NEW l \in Length, AddMessage(l) \/ AddUrgentMessage(l)
      PROVE  SemInv'
  <2>1. /\ msgCount' = msgCount + 1 /\ passed' = passed
        /\ spurious' = (spurious \/ readPtr' = writePtr')
        /\ val' = val + 1 + Cardinality(waiters) /\ waiters' = {} /\ phase' = phase
    BY <1>5 DEF AddMessage, AddUrgentMessage, SemUnlock, CountIn
  <2>2. ~ spurious' => readPtr' # writePtr' /\ ~ spurious
    BY <1>1, <2>1
  <2>3. ASSUME ~ spurious' PROVE msgCount' < Capacity
    <3>1. phase' = "live" /\ msgCount < Capacity
      BY <2>1, <2>2, <2>3
    <3>2. readPtr' \in Block /\ msgCount \in Nat /\ writePtr' = Place(readPtr', Reachable(msgCount + 1))
      BY <2>1, <3>1 DEF BufferInv, TypeOK, CountIsDistance
    <3>3. ASSUME msgCount + 1 = Capacity PROVE FALSE
      <4>1. Reachable(msgCount + 1) = 0
        BY <3>1, <3>2, <3>3, ReachableSteps
      <4> QED
        BY <2>2, <2>3, <3>2, <4>1, MsgQueueAssumption DEF Place, Block
    <3> QED
      BY <1>1, <2>1, <3>1, <3>3
  <2> QED
    BY <1>1, <1>2, <2>1, <2>2, <2>3
<1>6. ASSUME ClearWrite \/ DestroyWake PROVE SemInv'
  BY <1>6 DEF ClearWrite, semVars, DestroyWake, SemUnlock
<1>7. ASSUME InitRead PROVE SemInv'
  <2>1. /\ msgCount' = 0 /\ passed' = passed /\ spurious' = (passed # {})
        /\ val' = 0 /\ waiters' = {} /\ phase' = "live"
    BY <1>7 DEF InitRead, EmptyBuffer
  <2>2. CASE passed = {}
    BY <1>2, <2>1, <2>2, MsgQueueAssumption
  <2>3. CASE passed # {}
    BY <2>1, <2>3
  <2> QED
    BY <2>2, <2>3
<1>10. ASSUME ClearRead PROVE SemInv'
  <2>1. spurious' = spurious /\ phase # "live" /\ waiters' = {}
    BY <1>10 DEF ClearRead, SemUnlock
  <2> QED
    BY <2>1
<1>8. ASSUME DestroyFree \/ DestroyWrite \/ DestroyRead \/ InitWrite PROVE SemInv'
  <2>1. spurious' = spurious /\ phase # "live" /\ waiters' = waiters /\ val' = val
    BY <1>8 DEF DestroyFree, DestroyWrite, DestroyRead, InitWrite, semVars
  <2> QED
    BY <2>1
<1>9. ASSUME UNCHANGED vars PROVE SemInv'
  BY <1>9 DEF vars, bufVars, semVars
<1> QED
  BY <1>3, <1>4, <1>5, <1>6, <1>7, <1>8, <1>9, <1>10 DEF Next

\* The invariant of the two halves.
THEOREM Invariance == Spec => []IInv
<1>1. Init => IInv
  <2> SUFFICES ASSUME Init PROVE IInv
    OBVIOUS
  <2>0. 0 \in Block /\ 0 \in 0 .. MaxCount /\ 0 \in Int /\ 0 < Capacity
    BY MsgQueueAssumption DEF Block
  <2>1. TypeOK
    BY <2>0 DEF Init, TypeOK, Phase
  <2>2. CountIsDistance
    BY <2>0, MsgQueueAssumption, ReachableSteps DEF Init, CountIsDistance, Place, Block
  <2>3. PermitsBacked /\ WaitersInDebt /\ NotFull
    BY <2>0, FS_EmptySet DEF Init, PermitsBacked, WaitersInDebt, NotFull
  <2> QED
    BY <2>1, <2>2, <2>3 DEF IInv, BufferInv
<1>2. IInv /\ [Next]_vars => IInv'
  BY BufferStep, SemaphoreStep DEF IInv, SemInv
<1> QED
  BY <1>1, <1>2, PTL DEF Spec

-----------------------------------------------------------------------------
(* The contents                                                            *)

\* The contents are a sequence of lengths.
LEMMA ContentsIsSeq ==
  ASSUME NEW r \in Block, NEW c \in 0 .. Capacity - 1, NEW b \in [Block -> Length]
  PROVE  /\ Contents(r, c, b) \in Seq(Length)
         /\ Len(Contents(r, c, b)) = c
         /\ \A k \in 1 .. c : Contents(r, c, b)[k] = b[Place(r, k - 1)]
<1>1. c \in Nat
  BY MsgQueueAssumption
<1>2. ASSUME NEW k \in 1 .. c PROVE b[Place(r, k - 1)] \in Length
  <2>1. k - 1 \in Block
    BY MsgQueueAssumption, <1>1 DEF Block
  <2> QED
    BY <2>1, PlaceIsBlock
<1>3. Contents(r, c, b) \in [1 .. c -> Length]
  BY <1>2 DEF Contents
<1>4. Contents(r, c, b) \in Seq(Length)
  BY <1>1, <1>3, SeqDef
<1>5. Len(Contents(r, c, b)) = c
  BY <1>1, <1>3, <1>4, LenProperties
<1> QED
  BY <1>4, <1>5 DEF Contents

\* Two stretches of the buffer are different blocks.
LEMMA PlacesDiffer ==
  ASSUME NEW r \in Block, NEW j \in 0 .. Capacity - 1, NEW k \in 0 .. Capacity - 1, j # k
  PROVE  Place(r, j) # Place(r, k)
  BY MsgQueueAssumption DEF Block, Place

\* A length written behind the last message is appended.
LEMMA ContentsAppend ==
  ASSUME NEW r \in Block, NEW c \in 0 .. Capacity - 2, NEW b \in [Block -> Length], NEW l \in Length
  PROVE  Contents(r, c + 1, [b EXCEPT ![Place(r, c)] = l]) = Append(Contents(r, c, b), l)
<1> DEFINE d == [b EXCEPT ![Place(r, c)] = l]
           s == Contents(r, c, b)
           t == Contents(r, c + 1, d)
<1>0. d \in [Block -> Length]
  OBVIOUS
<1>1. c \in 0 .. Capacity - 1 /\ c + 1 \in 0 .. Capacity - 1 /\ d \in [Block -> Length] /\ c \in Nat
  BY <1>0, MsgQueueAssumption
<1>2. s \in Seq(Length) /\ Len(s) = c /\ \A k \in 1 .. c : s[k] = b[Place(r, k - 1)]
  BY <1>1, ContentsIsSeq
<1>3. t \in Seq(Length) /\ Len(t) = c + 1 /\ \A k \in 1 .. c + 1 : t[k] = d[Place(r, k - 1)]
  BY <1>1, ContentsIsSeq
<1>4. t[c + 1] = l
  <2>1. c + 1 \in 1 .. c + 1 /\ (c + 1) - 1 = c
    BY <1>1
  <2>2. Place(r, c) \in Block
    BY <1>1, PlaceIsBlock DEF Block
  <2> QED
    BY <1>3, <2>1, <2>2
<1>5. ASSUME NEW k \in 1 .. c PROVE t[k] = s[k]
  <2>1. k \in 1 .. c + 1 /\ k - 1 \in 0 .. Capacity - 1 /\ k - 1 # c
    BY MsgQueueAssumption, <1>1
  <2>2. Place(r, k - 1) \in Block /\ Place(r, k - 1) # Place(r, c)
    BY <1>1, <2>1, PlaceIsBlock, PlacesDiffer DEF Block
  <2>3. d[Place(r, k - 1)] = b[Place(r, k - 1)]
    BY <2>2
  <2> QED
    BY <1>2, <1>3, <2>1, <2>3
<1> HIDE DEF s, t, d
<1>6. /\ Append(s, l) \in Seq(Length) /\ Len(Append(s, l)) = c + 1
      /\ \A k \in 1 .. c : Append(s, l)[k] = s[k]
      /\ Append(s, l)[c + 1] = l
  BY <1>2, AppendProperties
<1>7. \A k \in 1 .. c + 1 : k \in 1 .. c \/ k = c + 1
  BY <1>1
<1>8. \A k \in 1 .. c + 1 : t[k] = Append(s, l)[k]
  BY <1>4, <1>5, <1>6, <1>7
<1>9. t = Append(s, l)
  BY <1>3, <1>6, <1>8, SeqEqual
<1> QED
  BY <1>9 DEF s, t, d

\* A length written in front of the first message comes first.
LEMMA ContentsPrepend ==
  ASSUME NEW r \in Block, NEW c \in 0 .. Capacity - 2, NEW b \in [Block -> Length], NEW l \in Length
  PROVE  Contents(Back(r), c + 1, [b EXCEPT ![Back(r)] = l]) = <<l>> \o Contents(r, c, b)
<1> DEFINE d == [b EXCEPT ![Back(r)] = l]
           s == Contents(r, c, b)
           t == Contents(Back(r), c + 1, d)
<1>1. /\ c \in 0 .. Capacity - 1 /\ c + 1 \in 0 .. Capacity - 1 /\ d \in [Block -> Length] /\ c \in Nat
      /\ Back(r) \in Block
  BY MsgQueueAssumption, PointersStay
<1>2. s \in Seq(Length) /\ Len(s) = c /\ \A k \in 1 .. c : s[k] = b[Place(r, k - 1)]
  BY <1>1, ContentsIsSeq
<1>3. /\ t \in Seq(Length) /\ Len(t) = c + 1
      /\ \A k \in 1 .. c + 1 : t[k] = d[Place(Back(r), k - 1)]
  BY <1>1, ContentsIsSeq
<1>4. t[1] = l
  <2>1. 1 \in 1 .. c + 1 /\ Place(Back(r), 1 - 1) = Back(r)
    BY <1>1, MsgQueueAssumption DEF Block, Place
  <2> QED
    BY <1>1, <1>3, <2>1
<1>5. ASSUME NEW k \in 2 .. c + 1 PROVE t[k] = s[k - 1]
  <2>1. k \in 1 .. c + 1 /\ k - 1 \in 1 .. c
    BY <1>1
  <2>2. Place(Back(r), k - 1) = Place(r, k - 2)
    BY MsgQueueAssumption, <1>1 DEF Block, Place, Back
  <2>3. Place(r, k - 2) \in Block /\ Place(r, k - 2) # Back(r)
    BY MsgQueueAssumption, <1>1 DEF Block, Place, Back
  <2>4. (k - 1) - 1 = k - 2
    BY <1>1
  <2>5. d[Place(Back(r), k - 1)] = b[Place(r, (k - 1) - 1)]
    BY <2>2, <2>3, <2>4
  <2> QED
    BY <1>2, <1>3, <2>1, <2>5
<1> HIDE DEF s, t, d
<1>6. <<l>> \in Seq(Length) /\ Len(<<l>>) = 1 /\ <<l>>[1] = l
  OBVIOUS
<1> DEFINE u == <<l>> \o s
<1>7. /\ u \in Seq(Length) /\ Len(u) = 1 + c
      /\ \A k \in 1 .. 1 + c : u[k] = IF k <= 1 THEN <<l>>[k] ELSE s[k - 1]
  BY <1>2, <1>6, ConcatProperties
<1> HIDE DEF u
<1>8. ASSUME NEW k \in 1 .. c + 1 PROVE t[k] = u[k]
  <2>1. CASE k = 1
    BY <1>1, <1>4, <1>6, <1>7, <2>1
  <2>2. CASE k # 1
    <3>1. k \in 2 .. c + 1 /\ k \in 1 .. 1 + c /\ ~ k <= 1
      BY <1>1, <2>2
    <3> QED
      BY <1>5, <1>7, <3>1
  <2> QED
    BY <2>1, <2>2
<1>9. t = u
  BY <1>1, <1>3, <1>7, <1>8, SeqEqual
<1> QED
  BY <1>9 DEF s, t, d, u

\* Moving the read pointer drops the first message.
LEMMA ContentsTail ==
  ASSUME NEW r \in Block, NEW c \in 1 .. Capacity - 1, NEW b \in [Block -> Length]
  PROVE  /\ Contents(r, c, b) # <<>>
         /\ Contents(Forward(r), c - 1, b) = Tail(Contents(r, c, b))
<1> DEFINE s == Contents(r, c, b)
           t == Contents(Forward(r), c - 1, b)
<1>1. c \in 0 .. Capacity - 1 /\ c - 1 \in 0 .. Capacity - 1 /\ c \in Nat /\ c > 0 /\ Forward(r) \in Block
  BY MsgQueueAssumption, PointersStay
<1>2. s \in Seq(Length) /\ Len(s) = c /\ \A k \in 1 .. c : s[k] = b[Place(r, k - 1)]
  BY <1>1, ContentsIsSeq
<1>3. /\ t \in Seq(Length) /\ Len(t) = c - 1
      /\ \A k \in 1 .. c - 1 : t[k] = b[Place(Forward(r), k - 1)]
  BY <1>1, ContentsIsSeq
<1>4. ASSUME NEW k \in 1 .. c - 1 PROVE t[k] = s[k + 1]
  <2>1. k + 1 \in 1 .. c /\ (k + 1) - 1 = k
    BY <1>1
  <2>2. Place(Forward(r), k - 1) = Place(r, k)
    BY MsgQueueAssumption, <1>1 DEF Block, Place, Forward
  <2> QED
    BY <1>2, <1>3, <2>1, <2>2
<1> HIDE DEF s, t
<1>5. s # <<>>
  BY <1>1, <1>2, EmptySeq
<1>6. /\ Tail(s) \in Seq(Length) /\ Len(Tail(s)) = c - 1
      /\ \A k \in 1 .. c - 1 : Tail(s)[k] = s[k + 1]
  BY <1>2, <1>5, HeadTailProperties
<1>7. t = Tail(s)
  BY <1>3, <1>4, <1>6, SeqEqual
<1> QED
  BY <1>5, <1>7 DEF s, t

\* What each step does to the contents.
LEMMA ContentsStep ==
  ASSUME BufferInv, BufferInv', [Next]_vars
  PROVE  \/ Queued' = Queued
         \/ Queued' = <<>>
         \/ Queued # <<>> /\ Queued' = Tail(Queued)
         \/ /\ Len(Queued) + 1 < Capacity
            /\ \E l \in Length : Queued' = Append(Queued, l) \/ Queued' = <<l>> \o Queued
<1>e. ASSUME NEW r, NEW b PROVE Contents(r, 0, b) = <<>>
  BY DEF Contents
<1>0. ASSUME ~ Owned' PROVE Queued' = <<>>
  BY <1>0, <1>e DEF Queued
<1>1. ASSUME Owned
      PROVE  /\ readPtr \in Block /\ msgCount \in Nat /\ len \in [Block -> Length]
             /\ writePtr = Place(readPtr, Reachable(msgCount))
             /\ Reachable(msgCount) \in Block
             /\ Reachable(msgCount) \in 0 .. Capacity - 1
             /\ Queued = Contents(readPtr, Reachable(msgCount), len)
             /\ Len(Queued) = Reachable(msgCount)
  <2>1. /\ readPtr \in Block /\ msgCount \in Nat /\ len \in [Block -> Length]
        /\ writePtr = Place(readPtr, Reachable(msgCount))
    BY <1>1 DEF BufferInv, TypeOK, CountIsDistance, Owned
  <2>2. Reachable(msgCount) \in Block
    BY <2>1, ReachableSteps
  <2>3. Queued = Contents(readPtr, Reachable(msgCount), len)
    BY <1>1 DEF Queued
  <2>4. Reachable(msgCount) \in 0 .. Capacity - 1
    BY <2>2 DEF Block
  <2> QED
    BY <2>1, <2>2, <2>3, <2>4, ContentsIsSeq
<1>2. ASSUME Owned, Owned', NEW g \in Receiver, GetMessage(g)
      PROVE  Queued # <<>> /\ Queued' = Tail(Queued)
  <2> DEFINE c == Reachable(msgCount)
  <2>1. readPtr' = Forward(readPtr) /\ msgCount' = msgCount - 1 /\ len' = len /\ readPtr # writePtr
    BY <1>2 DEF GetMessage, Owned
  <2>2. c \in 1 .. Capacity - 1
    BY <1>1, <1>2, <2>1, MsgQueueAssumption DEF Block, Place
  <2>3. Reachable(msgCount - 1) = c - 1
    BY <1>1, <1>2, <2>2, ReachableSteps
  <2>4. Queued' = Contents(Forward(readPtr), c - 1, len)
    BY <1>2, <2>1, <2>3 DEF Queued
  <2> HIDE DEF c
  <2>5. Queued = Contents(readPtr, c, len)
    BY <1>1, <1>2 DEF c
  <2> QED
    BY <1>1, <1>2, <2>2, <2>4, <2>5, ContentsTail
<1>3. ASSUME NEW l \in Length, AddMessage(l)
      PROVE  \/ Queued' = <<>>
             \/ Len(Queued) + 1 < Capacity /\ Queued' = Append(Queued, l)
  <2> DEFINE c == Reachable(msgCount)
  <2>0. Owned /\ Owned'
    BY <1>3 DEF AddMessage, Owned
  <2>1. readPtr' = readPtr /\ msgCount' = msgCount + 1 /\ len' = [len EXCEPT ![writePtr] = l]
    BY <1>3 DEF AddMessage, CountIn
  <2>2. c \in 0 .. Capacity - 1 /\ Reachable(msgCount + 1) = IF c + 1 = Capacity THEN 0 ELSE c + 1
    BY <1>1, <2>0, ReachableSteps
  <2>3. Queued' = Contents(readPtr, Reachable(msgCount + 1), len')
    BY <2>0, <2>1 DEF Queued
  <2>4. CASE c + 1 = Capacity
    BY <1>e, <2>2, <2>3, <2>4
  <2>5. CASE c + 1 # Capacity
    <3> HIDE DEF c
    <3>1. c \in 0 .. Capacity - 2 /\ c + 1 < Capacity
      BY <2>2, <2>5, MsgQueueAssumption
    <3>2. Queued' = Contents(readPtr, c + 1, [len EXCEPT ![Place(readPtr, c)] = l])
      BY <1>1, <2>0, <2>1, <2>2, <2>3, <2>5 DEF c
    <3>3. Queued = Contents(readPtr, c, len) /\ Len(Queued) = c
      BY <1>1, <2>0 DEF c
    <3> QED
      BY <1>1, <2>0, <3>1, <3>2, <3>3, ContentsAppend
  <2> QED
    BY <2>4, <2>5
<1>4. ASSUME NEW l \in Length, AddUrgentMessage(l)
      PROVE  \/ Queued' = <<>>
             \/ Len(Queued) + 1 < Capacity /\ Queued' = <<l>> \o Queued
  <2> DEFINE c == Reachable(msgCount)
  <2>0. Owned /\ Owned'
    BY <1>4 DEF AddUrgentMessage, Owned
  <2>1. readPtr' = Back(readPtr) /\ msgCount' = msgCount + 1 /\ len' = [len EXCEPT ![Back(readPtr)] = l]
    BY <1>4 DEF AddUrgentMessage, CountIn
  <2>2. c \in 0 .. Capacity - 1 /\ Reachable(msgCount + 1) = IF c + 1 = Capacity THEN 0 ELSE c + 1
    BY <1>1, <2>0, ReachableSteps
  <2>3. Queued' = Contents(Back(readPtr), Reachable(msgCount + 1), len')
    BY <2>0, <2>1 DEF Queued
  <2>4. CASE c + 1 = Capacity
    BY <1>e, <2>2, <2>3, <2>4
  <2>5. CASE c + 1 # Capacity
    <3> HIDE DEF c
    <3>1. c \in 0 .. Capacity - 2 /\ c + 1 < Capacity
      BY <2>2, <2>5, MsgQueueAssumption
    <3>2. Queued' = Contents(Back(readPtr), c + 1, [len EXCEPT ![Back(readPtr)] = l])
      BY <2>1, <2>2, <2>3, <2>5
    <3>3. Queued = Contents(readPtr, c, len) /\ Len(Queued) = c
      BY <1>1, <2>0 DEF c
    <3> QED
      BY <1>1, <2>0, <3>1, <3>2, <3>3, ContentsPrepend
  <2> QED
    BY <2>4, <2>5
<1>5. ASSUME ClearRead \/ InitRead PROVE Queued' = <<>>
  <2>1. msgCount' = 0
    BY <1>5 DEF ClearRead, InitRead, EmptyBuffer
  <2>2. Reachable(msgCount') = 0
    BY <2>1, ReachableSteps, MsgQueueAssumption
  <2> QED
    BY <1>e, <2>2 DEF Queued
<1>6. ASSUME NEW g \in Receiver, GetPermit(g) \/ GetBusy(g) PROVE Queued' = Queued
  BY <1>6 DEF GetPermit, GetBusy, bufVars, Queued, Owned
<1>7. ASSUME DestroyWake PROVE Queued' = Queued
  BY <1>7 DEF DestroyWake, Queued, Owned
<1>8. ASSUME ClearWrite \/ DestroyFree \/ DestroyWrite \/ DestroyRead \/ InitWrite PROVE Queued' = <<>>
  <2>1. ~ Owned'
    BY <1>8 DEF ClearWrite, DestroyFree, DestroyWrite, DestroyRead, InitWrite, Owned
  <2> QED
    BY <1>0, <2>1
<1>9. ASSUME NEW g \in Receiver, GetMessage(g), ~ Owned PROVE Queued' = <<>>
  <2>1. ~ Owned'
    BY <1>9 DEF GetMessage, Owned
  <2> QED
    BY <1>0, <2>1
<1>10. ASSUME NEW g \in Receiver, GetMessage(g), Owned PROVE Owned'
  BY <1>10 DEF GetMessage, Owned
<1>11. ASSUME UNCHANGED vars PROVE Queued' = Queued
  BY <1>11 DEF vars, bufVars, Queued, Owned
<1> QED
  BY <1>2, <1>3, <1>4, <1>5, <1>6, <1>7, <1>8, <1>9, <1>10, <1>11 DEF Next

-----------------------------------------------------------------------------
(* The theorems                                                            *)

\* The variables keep their types: while the buffer has its bounds no pointer
\* leaves it, and the unsigned count never falls below 0.
THEOREM TypeCorrect == Spec => []TypeOK
<1>1. IInv => TypeOK
  BY DEF IInv, BufferInv
<1> QED
  BY <1>1, Invariance, PTL

\* isEmpty() and getMessage() agree about the number of messages up to whole
\* rounds of the buffer, however often senders overrun it.
THEOREM CountAgrees == Spec => []CountIsDistance
<1>1. IInv => CountIsDistance
  BY DEF IInv, BufferInv
<1> QED
  BY <1>1, Invariance, PTL

\* Without clear(), destroy() and a full buffer, getMessage() never returns
\* EBUSY, and no receiver sleeps beside a free permit.
THEOREM ReceiversServed == Spec => []PermitsSound
<1>1. IInv => PermitsSound
  BY DEF IInv, PermitsSound
<1> QED
  BY <1>1, Invariance, PTL

\* The circular buffer implements a two-ended queue that loses its messages
\* when it is filled.
THEOREM Refinement == Spec => ImplementsQueue
<1>1. Init => Abs!Init
  <2> SUFFICES ASSUME Init PROVE Queued = <<>>
    BY DEF Abs!Init
  <2>1. msgCount = 0
    BY DEF Init
  <2>2. Reachable(msgCount) = 0
    BY <2>1, ReachableSteps, MsgQueueAssumption
  <2> QED
    BY <2>2 DEF Queued, Contents
<1>2. IInv /\ IInv' /\ [Next]_vars => [Abs!Next]_Queued
  <2> SUFFICES ASSUME IInv, IInv', [Next]_vars PROVE [Abs!Next]_Queued
    OBVIOUS
  <2>1. BufferInv /\ BufferInv'
    BY DEF IInv
  <2> QED
    BY <2>1, ContentsStep DEF Abs!Next, Abs!Take, Abs!Clear, Abs!Put, Abs!PutUrgent, Abs!HasRoom
<1> QED
  BY <1>1, <1>2, Invariance, PTL DEF Spec, ImplementsQueue, Abs!Spec
=============================================================================
