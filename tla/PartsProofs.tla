---------------------------- MODULE PartsProofs ----------------------------
(***************************************************************************)
(* Proofs about the modules Interrupts and SysTick, the external interrupts*)
(* and the interrupt of the decrementer, and about the modules MtdTable and*)
(* Pools, the tables of fixed size.                                        *)
(***************************************************************************)
EXTENDS Interrupts, SysTick, MtdTable, Pools, SequenceTheorems, FiniteSetTheorems, Recursion, TLAPS

(***************************************************************************)
(* Proofs about module Interrupts for any finite set of devices, any       *)
(* vectors and any wiring of devices to vectors.                           *)
(*                                                                         *)
(* The argument: the stage of a driver says whether it holds the spinlock  *)
(* of its vector (LockInv) and whether its node is allocated and linked    *)
(* (NodeInv).  As long as no update of the mask is lost, a device that has  *)
(* its vector to itself has it masked, in _mask and in the controller, but *)
(* between its own updates (MaskInv), and there it does not hold the lock: *)
(* an interrupt never meets the lock held.                                 *)
(***************************************************************************)

LockedAt == {"link", "unlock", "unlink", "release"}
LinkedAt == {"unlock", "enable", "unmask", "unmaskOut", "on", "mask", "maskOut",
             "disconnect", "unlink"}
\* Where the bit of the vector may be clear in _mask.
ClearAt == {"unmaskOut", "on", "mask"}

Alone(d) == \A e \in Device : VecOf[e] = VecOf[d] => e = d

LockInv ==
  /\ \A v \in Vector : holder[v] # Free =>
       VecOf[holder[v]] = v /\ stage[holder[v]] \in LockedAt
  /\ \A d \in Device : stage[d] \in LockedAt => holder[VecOf[d]] = d

MaskInv ==
  ~lost => \A d \in Device : Alone(d) =>
    /\ stage[d] \notin ClearAt => VecOf[d] \in mask
    /\ stage[d] \notin ClearAt \cup {"maskOut"} => VecOf[d] \in masked

NodeInv ==
  /\ \A d \in Device : stage[d] = "off" => d \notin allocated
  /\ \A d \in Device : stage[d] \in {"connect", "link"} => d \in allocated
  /\ \A v \in Vector : \A i \in DOMAIN chain[v] :
       /\ chain[v][i] \in allocated
       /\ VecOf[chain[v][i]] = v
       /\ stage[chain[v][i]] \in LinkedAt
  /\ \A v \in Vector : \A i, j \in DOMAIN chain[v] : chain[v][i] = chain[v][j] => i = j
  /\ ConnectedWhileOn

IntInv == IntTypeOK /\ LockInv /\ MaskInv /\ SpinsOnlyIfShared /\ NodeInv

-----------------------------------------------------------------------------
(* The list operations.                                                    *)

\* A sequence without its k-th element.
LEMMA RemoveAtProperties ==
  ASSUME NEW S, NEW s \in Seq(S), NEW k \in 1 .. Len(s)
  PROVE  /\ RemoveAt(s, k) \in Seq(S)
         /\ DOMAIN RemoveAt(s, k) = 1 .. Len(s) - 1
         /\ \A i \in 1 .. Len(s) - 1 : RemoveAt(s, k)[i] = IF i < k THEN s[i] ELSE s[i + 1]
<1> DEFINE a == SubSeq(s, 1, k - 1)
           b == SubSeq(s, k + 1, Len(s))
<1>1. /\ Len(s) \in Nat /\ s \in [1 .. Len(s) -> S] /\ k \in Nat
  BY LenProperties
<1>2. /\ a \in Seq(S) /\ Len(a) = k - 1
      /\ \A i \in 1 .. k - 1 : a[i] = s[i]
  <2>1. \A i \in 1 .. k - 1 : s[i] \in S
    BY <1>1
  <2> QED BY <2>1, <1>1, SubSeqProperties
<1>3. /\ b \in Seq(S) /\ Len(b) = Len(s) - k
      /\ \A i \in 1 .. Len(s) - k : b[i] = s[k + i]
  <2>1. \A i \in k + 1 .. Len(s) : s[i] \in S
    BY <1>1
  <2>2. /\ b \in Seq(S)
        /\ Len(b) = IF k + 1 <= Len(s) THEN Len(s) - (k + 1) + 1 ELSE 0
        /\ \A i \in 1 .. Len(s) - (k + 1) + 1 : b[i] = s[k + 1 + i - 1]
    BY <2>1, <1>1, SubSeqProperties
  <2> HIDE DEF b
  <2>3. Len(b) = Len(s) - k
    <3>1. \A n \in Nat : k \in 1 .. n => (IF k + 1 <= n THEN n - (k + 1) + 1 ELSE 0) = n - k
      BY <1>1
    <3> QED BY <3>1, <2>2, <1>1
  <2>4. ASSUME NEW i \in 1 .. Len(s) - k PROVE b[i] = s[k + i]
    <3>1. i \in 1 .. Len(s) - (k + 1) + 1 /\ k + 1 + i - 1 = k + i
      BY <1>1
    <3> QED BY <3>1, <2>2
  <2> QED BY <2>2, <2>3, <2>4
<1> HIDE DEF a, b
<1>4. /\ a \o b \in Seq(S) /\ Len(a \o b) = Len(s) - 1
      /\ \A i \in 1 .. Len(s) - 1 : (a \o b)[i] = IF i < k THEN s[i] ELSE s[i + 1]
  <2>1. a \o b \in Seq(S) /\ Len(a \o b) = Len(a) + Len(b)
    BY <1>2, <1>3, ConcatProperties
  <2>2. \A i \in 1 .. Len(a) + Len(b) :
          (a \o b)[i] = IF i <= Len(a) THEN a[i] ELSE b[i - Len(a)]
    BY <1>2, <1>3, ConcatProperties
  <2>3. ASSUME NEW i \in 1 .. Len(s) - 1
        PROVE  (a \o b)[i] = IF i < k THEN s[i] ELSE s[i + 1]
    <3>1. i \in 1 .. Len(a) + Len(b)
      BY <1>1, <1>2, <1>3
    <3>2. CASE i < k
      BY <3>1, <3>2, <2>2, <1>1, <1>2
    <3>3. CASE ~(i < k)
      <4>1. i - Len(a) \in 1 .. Len(s) - k /\ k + (i - Len(a)) = i + 1 /\ ~(i <= Len(a))
        BY <3>3, <1>1, <1>2
      <4> QED BY <4>1, <3>1, <3>3, <2>2, <1>3
    <3> QED BY <3>2, <3>3
  <2> QED BY <2>1, <2>3, <1>1, <1>2, <1>3
<1>5. RemoveAt(s, k) = a \o b
  BY DEF RemoveAt, a, b
<1> QED BY <1>1, <1>4, <1>5, LenProperties

\* RemoveFirst takes one element out of a sequence in which none occurs twice,
\* and leaves the others.
LEMMA RemoveFirstProperties ==
  ASSUME NEW S, NEW s \in Seq(S), NEW e,
         \A i, j \in DOMAIN s : s[i] = s[j] => i = j
  PROVE  LET r == RemoveFirst(s, e)
         IN  /\ r \in Seq(S)
             /\ \A i \in DOMAIN r : r[i] # e /\ \E j \in DOMAIN s : r[i] = s[j]
             /\ \A j \in DOMAIN s : s[j] # e => \E i \in DOMAIN r : r[i] = s[j]
             /\ \A i, j \in DOMAIN r : r[i] = r[j] => i = j
<1> DEFINE r == RemoveFirst(s, e)
           I == {i \in 1 .. Len(s) : s[i] = e}
<1>0. Len(s) \in Nat /\ DOMAIN s = 1 .. Len(s)
  BY LenProperties
<1>1. CASE \E i \in 1 .. Len(s) : s[i] = e
  <2>1. PICK k \in 1 .. Len(s) : s[k] = e
    BY <1>1
  <2>2. I = {k}
    BY <2>1, <1>0
  <2>3. Min(I) = k
    BY <2>1, <2>2, <1>0 DEF Min
  <2>4. r = RemoveAt(s, k)
    BY <1>1, <2>2, <2>3 DEF RemoveFirst, SelectInSeq
  <2> DEFINE q == RemoveAt(s, k)
  <2>5. /\ q \in Seq(S)
        /\ DOMAIN q = 1 .. Len(s) - 1
        /\ \A i \in 1 .. Len(s) - 1 : q[i] = IF i < k THEN s[i] ELSE s[i + 1]
    BY RemoveAtProperties
  <2> HIDE DEF q, r, I
  <2>6. q = r
    BY <2>4 DEF q
  <2>7. ASSUME NEW i \in DOMAIN q
        PROVE  q[i] # e /\ \E j \in DOMAIN s : q[i] = s[j] /\ j # k /\ j = IF i < k THEN i ELSE i + 1
    <3> DEFINE j == IF i < k THEN i ELSE i + 1
    <3>1. j \in 1 .. Len(s) /\ j # k
      BY <1>0, <2>5
    <3>2. q[i] = s[j]
      BY <2>5
    <3> QED BY <3>1, <3>2, <2>1, <1>0
  <2>8. ASSUME NEW j \in DOMAIN s, s[j] # e PROVE \E i \in DOMAIN q : q[i] = s[j]
    <3> DEFINE i == IF j < k THEN j ELSE j - 1
    <3>1. i \in 1 .. Len(s) - 1 /\ (IF i < k THEN i ELSE i + 1) = j
      BY <1>0, <2>1, <2>8
    <3> QED BY <3>1, <2>5
  <2>9. ASSUME NEW i \in DOMAIN q, NEW j \in DOMAIN q, q[i] = q[j] PROVE i = j
    <3>1. /\ i \in 1 .. Len(s) - 1 /\ j \in 1 .. Len(s) - 1
          /\ (IF i < k THEN i ELSE i + 1) \in DOMAIN s /\ q[i] = s[IF i < k THEN i ELSE i + 1]
          /\ (IF j < k THEN j ELSE j + 1) \in DOMAIN s /\ q[j] = s[IF j < k THEN j ELSE j + 1]
      BY <2>5, <2>7, <1>0
    <3>2. (IF i < k THEN i ELSE i + 1) = (IF j < k THEN j ELSE j + 1)
      BY <3>1, <2>9
    <3> QED BY <3>1, <3>2, <1>0
  <2>10. \A i \in DOMAIN q : q[i] # e /\ \E j \in DOMAIN s : q[i] = s[j]
    BY <2>7
  <2> QED BY <2>5, <2>6, <2>8, <2>9, <2>10 DEF r
<1>2. CASE ~(\E i \in 1 .. Len(s) : s[i] = e)
  <2>1. r = s
    BY <1>2 DEF RemoveFirst
  <2> HIDE DEF r
  <2> QED BY <2>1, <1>0, <1>2 DEF r
<1> QED BY <1>1, <1>2

-----------------------------------------------------------------------------
(* What the steps have in common.                                          *)

USE DEF IntTypeOK, Go, Running, Free

\* A step of a driver that neither takes nor releases a lock.
LEMMA LockKept ==
  ASSUME IntTypeOK, LockInv, NEW d \in Device, NEW from, NEW to,
         Go(d, from, to), holder' = holder, from \in LockedAt <=> to \in LockedAt
  PROVE  LockInv'
BY InterruptsAssumption DEF LockInv

\* A step that leaves the mask alone, of a driver outside its updates.
LEMMA MaskKept ==
  ASSUME IntTypeOK, MaskInv, NEW d \in Device, NEW from, NEW to,
         Go(d, from, to), mask' = mask, masked' = masked, lost' = lost,
         from \in ClearAt => to \in ClearAt,
         from = "maskOut" => to = "maskOut"
  PROVE  MaskInv'
BY InterruptsAssumption DEF MaskInv, Alone

\* The store of a driver that finds _mask as it has loaded it changes the bit
\* of its own vector only.
LEMMA MaskStored ==
  ASSUME IntTypeOK, MaskInv, NEW d \in Device, NEW value, NEW from, NEW to,
         StoreMask(d, value, from, to),
         \A v \in Vector : v # VecOf[d] => (v \in value <=> v \in copy[d]),
         to \notin ClearAt => VecOf[d] \in value,
         from \in ClearAt \/ to \in ClearAt,
         to \in ClearAt \cup {"maskOut"}
  PROVE  MaskInv'
<1> SUFFICES ASSUME ~lost', NEW e \in Device, Alone(e)
             PROVE  /\ stage'[e] \notin ClearAt => VecOf[e] \in mask'
                    /\ stage'[e] \notin ClearAt \cup {"maskOut"} => VecOf[e] \in masked'
  BY DEF MaskInv, Alone
<1>1. ~lost /\ copy[d] = mask /\ mask' = value /\ masked' = masked
  BY DEF StoreMask
<1>2. stage' = [stage EXCEPT ![d] = to]
  BY DEF StoreMask
<1>3. CASE e = d
  BY <1>1, <1>2, <1>3
<1>4. CASE e # d
  <2>1. stage'[e] = stage[e] /\ VecOf[e] # VecOf[d] /\ VecOf[e] \in Vector
    BY <1>2, <1>4, InterruptsAssumption DEF Alone
  <2> QED BY <2>1, <1>1 DEF MaskInv
<1> QED BY <1>3, <1>4

\* After the output of a mask that nobody has changed the controller has _mask.
LEMMA MaskOut ==
  ASSUME IntTypeOK, MaskInv, NEW d \in Device, NEW from, NEW to,
         OutMask(d, from, to), from \in ClearAt => to \in ClearAt
  PROVE  MaskInv'
<1> SUFFICES ASSUME ~lost', NEW e \in Device, Alone(e)
             PROVE  /\ stage'[e] \notin ClearAt => VecOf[e] \in mask'
                    /\ stage'[e] \notin ClearAt \cup {"maskOut"} => VecOf[e] \in masked'
  BY DEF MaskInv, Alone
<1>1. ~lost /\ mask' = mask /\ masked' = mask /\ stage' = [stage EXCEPT ![d] = to] /\ stage[d] = from
  BY DEF OutMask
<1>2. stage[e] \notin ClearAt => VecOf[e] \in mask
  BY <1>1 DEF MaskInv
<1>3. stage'[e] \notin ClearAt => stage[e] \notin ClearAt
  BY <1>1
<1> QED BY <1>1, <1>2, <1>3

\* A step that leaves the lists and the nodes alone.
LEMMA NodesKept ==
  ASSUME IntTypeOK, NodeInv, NEW d \in Device, NEW from, NEW to,
         Go(d, from, to), chain' = chain, allocated' = allocated,
         to # "off",
         to \in {"connect", "link"} => d \in allocated,
         from \in LinkedAt => to \in LinkedAt,
         to \in LinkedAt /\ d \in allocated => from \in LinkedAt
  PROVE  NodeInv'
<1>1. \A e \in Device : stage'[e] = IF e = d THEN to ELSE stage[e]
  OBVIOUS
<1>2. \A v \in Vector : \A i \in DOMAIN chain[v] : chain[v][i] \in Device
  BY LenProperties, ElementOfSeq
<1>3. \A e \in Device : stage'[e] = "off" => e \notin allocated
  BY <1>1 DEF NodeInv
<1>4. \A e \in Device : stage'[e] \in {"connect", "link"} => e \in allocated
  BY <1>1 DEF NodeInv
<1>5. \A v \in Vector : \A i \in DOMAIN chain[v] : stage'[chain[v][i]] \in LinkedAt
  BY <1>1, <1>2 DEF NodeInv
<1>6. ConnectedWhileOn'
  BY <1>1 DEF NodeInv, ConnectedWhileOn, LinkedAt
<1> QED BY <1>3, <1>4, <1>5, <1>6 DEF NodeInv

\* A vector that two devices share has more than one.
LEMMA TwoShare ==
  ASSUME NEW d \in Device, NEW e \in Device, d # e, VecOf[e] = VecOf[d]
  PROVE  Cardinality(SharedBy(VecOf[d])) > 1
<1> DEFINE S == SharedBy(VecOf[d])
<1>1. IsFiniteSet(S)
  BY InterruptsAssumption, FS_Subset DEF SharedBy
<1>2. {d, e} \subseteq S
  BY DEF SharedBy
<1>3. Cardinality({d, e}) = 2
  <2>1. IsFiniteSet({d}) /\ Cardinality({d}) = 1
    BY FS_Singleton
  <2>2. Cardinality({d} \cup {e}) = 2
    BY <2>1, FS_AddElement
  <2> QED BY <2>2, {d, e} = {d} \cup {e}
<1>4. Cardinality({d, e}) <= Cardinality(S) /\ Cardinality(S) \in Nat
  BY <1>1, <1>2, FS_Subset, FS_CardinalityType
<1> QED BY <1>3, <1>4

-----------------------------------------------------------------------------
(* The invariant holds at boot: every list is empty, every line masked.      *)
THEOREM IntInitial == IntInit => IntInv
<1> SUFFICES ASSUME IntInit PROVE IntInv
  OBVIOUS
<1> USE InterruptsAssumption DEF IntInit
<1>1. IntTypeOK
  <2>1. copy \in [Device -> SUBSET Vector] /\ chain \in [Vector -> Seq(Device)]
    OBVIOUS
  <2>2. "off" \in PC
    BY DEF PC
  <2> QED BY <2>1, <2>2
<1>2. LockInv /\ MaskInv
  BY DEF LockInv, MaskInv, LockedAt
<1>3. NodeInv
  BY DEF NodeInv, ConnectedWhileOn
<1> QED BY <1>1, <1>2, <1>3 DEF IntInv, SpinsOnlyIfShared

(* Every step of a driver, of a device and of the handler keeps the          *)
(* invariant.                                                                *)
THEOREM IntStep == IntInv /\ [IntNext]_intVars => IntInv'
<1> SUFFICES ASSUME IntInv, [IntNext]_intVars PROVE IntInv'
  OBVIOUS
<1> USE InterruptsAssumption
<1>1. ASSUME NEW d \in Device, AllocateNode(d) PROVE IntInv'
  <2>1. IntTypeOK'
    BY <1>1 DEF IntInv, AllocateNode, PC
  <2>2. LockInv'
    BY <1>1, LockKept DEF IntInv, AllocateNode, LockedAt
  <2>3. MaskInv'
    BY <1>1, MaskKept DEF IntInv, AllocateNode, ClearAt
  <2>4. NodeInv'
    <3>1. d \notin allocated
      BY <1>1 DEF IntInv, NodeInv, AllocateNode
    <3>2. \A v \in Vector : \A i \in DOMAIN chain[v] : chain[v][i] \in Device /\ chain[v][i] # d
      BY <3>1, ElementOfSeq, LenProperties DEF IntInv, NodeInv
    <3>3. \A v \in Vector : \A i \in DOMAIN chain'[v] :
            /\ chain'[v][i] \in allocated'
            /\ VecOf[chain'[v][i]] = v
            /\ stage'[chain'[v][i]] \in LinkedAt
      BY <1>1, <3>2 DEF IntInv, NodeInv, AllocateNode
    <3>4. ConnectedWhileOn'
      BY <1>1 DEF IntInv, NodeInv, AllocateNode, ConnectedWhileOn
    <3>5. \A e \in Device : stage'[e] = "off" => e \notin allocated'
      BY <1>1 DEF IntInv, NodeInv, AllocateNode
    <3>6. \A e \in Device : stage'[e] \in {"connect", "link"} => e \in allocated'
      BY <1>1 DEF IntInv, NodeInv, AllocateNode
    <3>7. \A v \in Vector : \A i, j \in DOMAIN chain'[v] : chain'[v][i] = chain'[v][j] => i = j
      BY <1>1 DEF IntInv, NodeInv, AllocateNode
    <3> QED BY <3>3, <3>4, <3>5, <3>6, <3>7 DEF NodeInv
  <2>5. SpinsOnlyIfShared'
    BY <1>1 DEF AllocateNode, SpinsOnlyIfShared
  <2> QED BY <2>1, <2>2, <2>3, <2>4, <2>5 DEF IntInv
<1>2. ASSUME NEW d \in Device, AllocateNodeFails(d) PROVE IntInv'
  <2>1. IntTypeOK'
    BY <1>2 DEF IntInv, AllocateNodeFails, PC
  <2>2. LockInv'
    BY <1>2, LockKept DEF IntInv, AllocateNodeFails, LockedAt
  <2>3. MaskInv'
    BY <1>2, MaskKept DEF IntInv, AllocateNodeFails, ClearAt
  <2>4. NodeInv'
    BY <1>2, NodesKept DEF IntInv, NodeInv, AllocateNodeFails, LinkedAt
  <2>5. SpinsOnlyIfShared'
    BY <1>2 DEF AllocateNodeFails, SpinsOnlyIfShared
  <2> QED BY <2>1, <2>2, <2>3, <2>4, <2>5 DEF IntInv
<1>3. ASSUME NEW d \in Device, LockToConnect(d) PROVE IntInv'
  <2>1. IntTypeOK'
    BY <1>3 DEF IntInv, LockToConnect, Lock, PC
  <2>2. LockInv'
    BY <1>3 DEF IntInv, LockInv, LockToConnect, Lock, LockedAt
  <2>3. MaskInv'
    BY <1>3, MaskKept DEF IntInv, LockToConnect, Lock, ClearAt
  <2>4. NodeInv'
    BY <1>3, NodesKept DEF IntInv, NodeInv, LockToConnect, Lock, LinkedAt
  <2>5. SpinsOnlyIfShared'
    BY <1>3 DEF LockToConnect, Lock, SpinsOnlyIfShared
  <2> QED BY <2>1, <2>2, <2>3, <2>4, <2>5 DEF IntInv
<1>4. ASSUME NEW d \in Device, Link(d) PROVE IntInv'
  <2> DEFINE w == VecOf[d]
             s == <<d>> \o chain[w]
  <2>0. /\ chain[w] \in Seq(Device) /\ w \in Vector
        /\ stage[d] = "link" /\ d \in allocated
        /\ \A i \in DOMAIN chain[w] : chain[w][i] # d
    <3>1. stage[d] = "link" /\ "link" \notin LinkedAt
      BY <1>4 DEF Link, LinkedAt
    <3>2. w \in Vector /\ chain[w] \in Seq(Device) /\ d \in allocated
      BY <3>1 DEF IntInv, NodeInv
    <3>3. \A i \in DOMAIN chain[w] : stage[chain[w][i]] \in LinkedAt
      BY <3>2 DEF IntInv, NodeInv
    <3> QED BY <3>1, <3>2, <3>3
  <2>1. /\ s \in Seq(Device) /\ Len(s) = Len(chain[w]) + 1 /\ s[1] = d
        /\ DOMAIN s = 1 .. Len(chain[w]) + 1 /\ Len(chain[w]) \in Nat
        /\ DOMAIN chain[w] = 1 .. Len(chain[w])
        /\ \A i \in 2 .. Len(chain[w]) + 1 : s[i] = chain[w][i - 1]
    <3>1. <<d>> \in Seq(Device) /\ Len(<<d>>) = 1
      OBVIOUS
    <3>2. /\ s \in Seq(Device) /\ Len(s) = 1 + Len(chain[w])
          /\ \A i \in 1 .. 1 + Len(chain[w]) :
               s[i] = IF i <= 1 THEN <<d>>[i] ELSE chain[w][i - 1]
      BY <3>1, <2>0, ConcatProperties
    <3>3. Len(chain[w]) \in Nat /\ DOMAIN chain[w] = 1 .. Len(chain[w])
      BY <2>0, LenProperties
    <3>4. DOMAIN s = 1 .. Len(s)
      BY <3>2, LenProperties
    <3> QED BY <3>2, <3>3, <3>4
  <2> HIDE DEF s
  <2>2. chain' = [chain EXCEPT ![w] = s]
    BY <1>4 DEF Link, s
  <2>3. IntTypeOK'
    BY <1>4, <2>0, <2>1, <2>2 DEF IntInv, Link, PC
  <2>4. LockInv'
    BY <1>4, LockKept DEF IntInv, Link, LockedAt
  <2>5. MaskInv'
    BY <1>4, MaskKept DEF IntInv, Link, ClearAt
  <2>6. NodeInv'
    <3>1. \A v \in Vector : v # w => chain'[v] = chain[v]
      BY <2>2 DEF IntInv
    <3>2. chain'[w] = s
      BY <2>0, <2>2 DEF IntInv
    <3>3. \A v \in Vector : \A i \in DOMAIN chain[v] : chain[v][i] \in Device
      BY ElementOfSeq, LenProperties DEF IntInv
    <3>4. \A e \in Device : stage'[e] = IF e = d THEN "unlock" ELSE stage[e]
      BY <1>4 DEF IntInv, Link
    <3>5. allocated' = allocated
      BY <1>4 DEF Link
    <3>6. \A i \in DOMAIN s : s[i] = d \/ \E k \in DOMAIN chain[w] : s[i] = chain[w][k]
      <4> SUFFICES ASSUME NEW i \in DOMAIN s, s[i] # d
                   PROVE  \E k \in DOMAIN chain[w] : s[i] = chain[w][k]
        OBVIOUS
      <4>1. i \in 2 .. Len(chain[w]) + 1 /\ i - 1 \in DOMAIN chain[w]
        BY <2>1
      <4> QED BY <4>1, <2>1
    <3>7. ASSUME NEW v \in Vector, NEW i \in DOMAIN chain'[v]
          PROVE  /\ chain'[v][i] \in allocated'
                 /\ VecOf[chain'[v][i]] = v
                 /\ stage'[chain'[v][i]] \in LinkedAt
      <4>1. CASE v = w
        <5>1. CASE s[i] = d
          BY <4>1, <5>1, <3>2, <3>4, <3>5, <2>0 DEF LinkedAt
        <5>2. ASSUME NEW k \in DOMAIN chain[w], s[i] = chain[w][k]
              PROVE  s[i] \in allocated /\ VecOf[s[i]] = w /\ stage'[s[i]] \in LinkedAt
          <6>1. /\ chain[w][k] \in Device /\ chain[w][k] # d /\ chain[w][k] \in allocated
                /\ VecOf[chain[w][k]] = w /\ stage[chain[w][k]] \in LinkedAt
            BY <2>0, <3>3 DEF IntInv, NodeInv
          <6> QED BY <6>1, <5>2, <3>4
        <5>3. i \in DOMAIN s /\ chain'[v] = s
          BY <4>1, <3>2
        <5> QED BY <4>1, <5>1, <5>2, <5>3, <3>5, <3>6
      <4>2. CASE v # w
        BY <4>2, <3>1, <3>3, <3>4, <3>5 DEF IntInv, NodeInv, LinkedAt
      <4> QED BY <4>1, <4>2
    <3>8. \A i, j \in DOMAIN s : s[i] = s[j] => i = j
      <4>1. \A i, j \in DOMAIN chain[w] : chain[w][i] = chain[w][j] => i = j
        BY <2>0 DEF IntInv, NodeInv
      <4>2. \A i \in DOMAIN s : i # 1 => i - 1 \in DOMAIN chain[w] /\ s[i] = chain[w][i - 1]
        BY <2>1
      <4>3. \A i \in DOMAIN s : i # 1 => s[i] # d
        BY <4>2, <2>0
      <4> QED BY <4>1, <4>2, <4>3, <2>1
    <3>9. \A v \in Vector : \A i, j \in DOMAIN chain'[v] : chain'[v][i] = chain'[v][j] => i = j
      BY <3>1, <3>2, <3>8 DEF IntInv, NodeInv
    <3>10. ConnectedWhileOn'
      <4>1. \A e \in Device : Contains(chain[w], e) => Contains(s, e)
        <5> SUFFICES ASSUME NEW e \in Device, NEW i \in 1 .. Len(chain[w]), chain[w][i] = e
                     PROVE  Contains(s, e)
          BY DEF Contains
        <5>1. i + 1 \in 1 .. Len(s) /\ s[i + 1] = e
          BY <2>1
        <5> QED BY <5>1 DEF Contains
      <4>2. Contains(s, d)
        BY <2>1 DEF Contains
      <4>3. \A e \in Device : stage'[e] \in LinkedAt /\ e \in allocated =>
              e = d \/ Contains(chain[VecOf[e]], e)
        BY <3>4 DEF IntInv, NodeInv, ConnectedWhileOn, LinkedAt
      <4>4. \A e \in Device : stage'[e] \in LinkedAt /\ e \in allocated =>
              Contains(chain'[VecOf[e]], e)
        BY <4>1, <4>2, <4>3, <3>1, <3>2
      <4> QED BY <4>4, <3>5 DEF ConnectedWhileOn, LinkedAt
    <3> QED BY <3>4, <3>5, <3>7, <3>9, <3>10 DEF IntInv, NodeInv
  <2>7. SpinsOnlyIfShared'
    BY <1>4 DEF Link, SpinsOnlyIfShared
  <2> QED BY <2>3, <2>4, <2>5, <2>6, <2>7 DEF IntInv
<1>5. ASSUME NEW d \in Device, UnlockConnected(d) PROVE IntInv'
  <2>1. IntTypeOK'
    BY <1>5 DEF IntInv, UnlockConnected, Unlock, PC
  <2>2. LockInv'
    BY <1>5 DEF IntInv, LockInv, UnlockConnected, Unlock, LockedAt
  <2>3. MaskInv'
    BY <1>5, MaskKept DEF IntInv, UnlockConnected, Unlock, ClearAt
  <2>4. NodeInv'
    BY <1>5, NodesKept DEF IntInv, NodeInv, UnlockConnected, Unlock, LinkedAt
  <2>5. SpinsOnlyIfShared'
    BY <1>5 DEF UnlockConnected, Unlock, SpinsOnlyIfShared
  <2> QED BY <2>1, <2>2, <2>3, <2>4, <2>5 DEF IntInv
<1>16. ASSUME NEW d \in Device, LoadToEnable(d) PROVE IntInv'
  <2>1. IntTypeOK'
    BY <1>16 DEF IntInv, LoadToEnable, LoadMask, PC
  <2>2. LockInv'
    BY <1>16, LockKept DEF IntInv, LoadToEnable, LoadMask, LockedAt
  <2>3. MaskInv'
    BY <1>16, MaskKept DEF IntInv, LoadToEnable, LoadMask, ClearAt
  <2>4. NodeInv'
    BY <1>16, NodesKept DEF IntInv, LoadToEnable, LoadMask, LinkedAt
  <2>5. SpinsOnlyIfShared'
    BY <1>16 DEF LoadToEnable, LoadMask, SpinsOnlyIfShared
  <2> QED BY <2>1, <2>2, <2>3, <2>4, <2>5 DEF IntInv
<1>6. ASSUME NEW d \in Device, EnableIrq(d) PROVE IntInv'
  <2>1. IntTypeOK'
    BY <1>6 DEF IntInv, EnableIrq, StoreMask, PC
  <2>2. LockInv'
    BY <1>6, LockKept DEF IntInv, EnableIrq, StoreMask, LockedAt
  <2>3. MaskInv'
    BY <1>6, MaskStored DEF IntInv, EnableIrq, ClearAt
  <2>4. NodeInv'
    BY <1>6, NodesKept DEF IntInv, EnableIrq, StoreMask, LinkedAt
  <2>5. SpinsOnlyIfShared'
    BY <1>6 DEF EnableIrq, StoreMask, SpinsOnlyIfShared
  <2> QED BY <2>1, <2>2, <2>3, <2>4, <2>5 DEF IntInv
<1>17. ASSUME NEW d \in Device, OutEnabled(d) PROVE IntInv'
  <2>1. IntTypeOK'
    BY <1>17 DEF IntInv, OutEnabled, OutMask, PC
  <2>2. LockInv'
    BY <1>17, LockKept DEF IntInv, OutEnabled, OutMask, LockedAt
  <2>3. MaskInv'
    BY <1>17, MaskOut DEF IntInv, OutEnabled, ClearAt
  <2>4. NodeInv'
    BY <1>17, NodesKept DEF IntInv, OutEnabled, OutMask, LinkedAt
  <2>5. SpinsOnlyIfShared'
    BY <1>17 DEF OutEnabled, OutMask, SpinsOnlyIfShared
  <2> QED BY <2>1, <2>2, <2>3, <2>4, <2>5 DEF IntInv
<1>18. ASSUME NEW d \in Device, LoadToDisable(d) PROVE IntInv'
  <2>1. IntTypeOK'
    BY <1>18 DEF IntInv, LoadToDisable, LoadMask, PC
  <2>2. LockInv'
    BY <1>18, LockKept DEF IntInv, LoadToDisable, LoadMask, LockedAt
  <2>3. MaskInv'
    BY <1>18, MaskKept DEF IntInv, LoadToDisable, LoadMask, ClearAt
  <2>4. NodeInv'
    BY <1>18, NodesKept DEF IntInv, LoadToDisable, LoadMask, LinkedAt
  <2>5. SpinsOnlyIfShared'
    BY <1>18 DEF LoadToDisable, LoadMask, SpinsOnlyIfShared
  <2> QED BY <2>1, <2>2, <2>3, <2>4, <2>5 DEF IntInv
<1>7. ASSUME NEW d \in Device, DisableIrq(d) PROVE IntInv'
  <2>1. IntTypeOK'
    BY <1>7 DEF IntInv, DisableIrq, StoreMask, PC
  <2>2. LockInv'
    BY <1>7, LockKept DEF IntInv, DisableIrq, StoreMask, LockedAt
  <2>3. MaskInv'
    BY <1>7, MaskStored DEF IntInv, DisableIrq, ClearAt
  <2>4. NodeInv'
    BY <1>7, NodesKept DEF IntInv, DisableIrq, StoreMask, LinkedAt
  <2>5. SpinsOnlyIfShared'
    BY <1>7 DEF DisableIrq, StoreMask, SpinsOnlyIfShared
  <2> QED BY <2>1, <2>2, <2>3, <2>4, <2>5 DEF IntInv
<1>19. ASSUME NEW d \in Device, OutDisabled(d) PROVE IntInv'
  <2>1. IntTypeOK'
    BY <1>19 DEF IntInv, OutDisabled, OutMask, PC
  <2>2. LockInv'
    BY <1>19, LockKept DEF IntInv, OutDisabled, OutMask, LockedAt
  <2>3. MaskInv'
    BY <1>19, MaskOut DEF IntInv, OutDisabled, ClearAt
  <2>4. NodeInv'
    BY <1>19, NodesKept DEF IntInv, OutDisabled, OutMask, LinkedAt
  <2>5. SpinsOnlyIfShared'
    BY <1>19 DEF OutDisabled, OutMask, SpinsOnlyIfShared
  <2> QED BY <2>1, <2>2, <2>3, <2>4, <2>5 DEF IntInv
<1>8. ASSUME NEW d \in Device, LockToDisconnect(d) PROVE IntInv'
  <2>1. IntTypeOK'
    BY <1>8 DEF IntInv, LockToDisconnect, Lock, PC
  <2>2. LockInv'
    BY <1>8 DEF IntInv, LockInv, LockToDisconnect, Lock, LockedAt
  <2>3. MaskInv'
    BY <1>8, MaskKept DEF IntInv, LockToDisconnect, Lock, ClearAt
  <2>4. NodeInv'
    BY <1>8, NodesKept DEF IntInv, NodeInv, LockToDisconnect, Lock, LinkedAt
  <2>5. SpinsOnlyIfShared'
    BY <1>8 DEF LockToDisconnect, Lock, SpinsOnlyIfShared
  <2> QED BY <2>1, <2>2, <2>3, <2>4, <2>5 DEF IntInv
<1>9. ASSUME NEW d \in Device, Unlink(d) PROVE IntInv'
  <2> DEFINE w == VecOf[d]
             s == RemoveFirst(chain[w], d)
  <2>0. chain[w] \in Seq(Device) /\ w \in Vector
        /\ \A i, j \in DOMAIN chain[w] : chain[w][i] = chain[w][j] => i = j
    BY DEF IntInv, NodeInv
  <2>1. /\ s \in Seq(Device)
        /\ \A i \in DOMAIN s : s[i] # d /\ \E j \in DOMAIN chain[w] : s[i] = chain[w][j]
        /\ \A j \in DOMAIN chain[w] : chain[w][j] # d => \E i \in DOMAIN s : s[i] = chain[w][j]
        /\ \A i, j \in DOMAIN s : s[i] = s[j] => i = j
    BY <2>0, RemoveFirstProperties
  <2> HIDE DEF s
  <2>2. chain' = [chain EXCEPT ![w] = s]
    BY <1>9 DEF Unlink, s
  <2>3. IntTypeOK'
    BY <1>9, <2>0, <2>1, <2>2 DEF IntInv, Unlink, PC
  <2>4. LockInv'
    BY <1>9, LockKept DEF IntInv, Unlink, LockedAt
  <2>5. MaskInv'
    BY <1>9, MaskKept DEF IntInv, Unlink, ClearAt
  <2>6. NodeInv'
    <3>1. \A v \in Vector : v # w => chain'[v] = chain[v]
      BY <2>2 DEF IntInv
    <3>2. chain'[w] = s
      BY <2>0, <2>2 DEF IntInv
    <3>3. \A v \in Vector : \A i \in DOMAIN chain[v] : chain[v][i] \in Device
      BY ElementOfSeq, LenProperties DEF IntInv
    <3>4. \A e \in Device : stage'[e] = IF e = d THEN "release" ELSE stage[e]
      BY <1>9 DEF IntInv, Unlink
    <3>5. allocated' = allocated
      BY <1>9 DEF Unlink
    <3>6. ASSUME NEW v \in Vector, NEW i \in DOMAIN chain'[v]
          PROVE  /\ chain'[v][i] \in allocated'
                 /\ VecOf[chain'[v][i]] = v
                 /\ stage'[chain'[v][i]] \in LinkedAt
      <4>1. CASE v = w
        BY <4>1, <3>2, <3>3, <3>4, <3>5, <2>0, <2>1 DEF IntInv, NodeInv
      <4>2. CASE v # w
        <5>1. chain'[v] = chain[v] /\ i \in DOMAIN chain[v]
          BY <4>2, <3>1
        <5>2. /\ chain[v][i] \in Device /\ chain[v][i] \in allocated /\ VecOf[chain[v][i]] = v
              /\ stage[chain[v][i]] \in LinkedAt
          BY <5>1, <3>3 DEF IntInv, NodeInv
        <5> QED BY <4>2, <5>1, <5>2, <3>4, <3>5
      <4> QED BY <4>1, <4>2
    <3>7. ASSUME NEW v \in Vector
          PROVE  \A i, j \in DOMAIN chain'[v] : chain'[v][i] = chain'[v][j] => i = j
      <4>1. CASE v = w
        BY <4>1, <3>2, <2>1
      <4>2. CASE v # w
        BY <4>2, <3>1 DEF IntInv, NodeInv
      <4> QED BY <4>1, <4>2
    <3>8. ConnectedWhileOn'
      <4>1. \A e \in Device : e # d /\ Contains(chain[w], e) => Contains(s, e)
        <5>1. DOMAIN chain[w] = 1 .. Len(chain[w]) /\ DOMAIN s = 1 .. Len(s)
          BY <2>0, <2>1, LenProperties
        <5> QED BY <5>1, <2>1 DEF Contains
      <4>2. \A e \in Device : stage'[e] \in LinkedAt => e # d /\ stage[e] \in LinkedAt
        BY <3>4 DEF LinkedAt
      <4>3. \A e \in Device : stage[e] \in LinkedAt /\ e \in allocated => Contains(chain[VecOf[e]], e)
        BY DEF IntInv, NodeInv, ConnectedWhileOn, LinkedAt
      <4>4. \A e \in Device : stage'[e] \in LinkedAt /\ e \in allocated => Contains(chain'[VecOf[e]], e)
        BY <4>1, <4>2, <4>3, <3>1, <3>2
      <4> QED BY <4>4, <3>5 DEF ConnectedWhileOn, LinkedAt
    <3> QED BY <3>4, <3>5, <3>6, <3>7, <3>8 DEF IntInv, NodeInv
  <2>7. SpinsOnlyIfShared'
    BY <1>9 DEF Unlink, SpinsOnlyIfShared
  <2> QED BY <2>3, <2>4, <2>5, <2>6, <2>7 DEF IntInv
<1>10. ASSUME NEW d \in Device, UnlockDisconnected(d) PROVE IntInv'
  <2>1. IntTypeOK'
    BY <1>10 DEF IntInv, UnlockDisconnected, Unlock, PC
  <2>2. LockInv'
    BY <1>10 DEF IntInv, LockInv, UnlockDisconnected, Unlock, LockedAt
  <2>3. MaskInv'
    BY <1>10, MaskKept DEF IntInv, UnlockDisconnected, Unlock, ClearAt
  <2>4. NodeInv'
    <3>1. /\ Go(d, "release", "dispose") /\ chain' = chain /\ allocated' = allocated
          /\ IntTypeOK /\ NodeInv
      BY <1>10 DEF IntInv, UnlockDisconnected, Unlock
    <3>2. "release" \notin LinkedAt /\ "dispose" \notin LinkedAt
      BY DEF LinkedAt
    <3> QED BY <3>1, <3>2, NodesKept
  <2>5. SpinsOnlyIfShared'
    BY <1>10 DEF UnlockDisconnected, Unlock, SpinsOnlyIfShared
  <2> QED BY <2>1, <2>2, <2>3, <2>4, <2>5 DEF IntInv
<1>11. ASSUME NEW d \in Device, Dispose(d) PROVE IntInv'
  <2>1. IntTypeOK'
    BY <1>11 DEF IntInv, Dispose, PC
  <2>2. LockInv'
    BY <1>11, LockKept DEF IntInv, Dispose, LockedAt
  <2>3. MaskInv'
    BY <1>11, MaskKept DEF IntInv, Dispose, ClearAt
  <2>4. NodeInv'
    <3>1. \A v \in Vector : \A i \in DOMAIN chain[v] : chain[v][i] \in Device /\ chain[v][i] # d
      <4>1. stage[d] = "dispose" /\ "dispose" \notin LinkedAt
        BY <1>11 DEF Dispose, LinkedAt
      <4>2. \A v \in Vector : \A i \in DOMAIN chain[v] : stage[chain[v][i]] \in LinkedAt
        BY DEF IntInv, NodeInv
      <4>3. \A v \in Vector : \A i \in DOMAIN chain[v] : chain[v][i] \in Device
        BY ElementOfSeq, LenProperties DEF IntInv
      <4> QED BY <4>1, <4>2, <4>3
    <3>2. \A v \in Vector : \A i \in DOMAIN chain'[v] :
            /\ chain'[v][i] \in allocated'
            /\ VecOf[chain'[v][i]] = v
            /\ stage'[chain'[v][i]] \in LinkedAt
      BY <1>11, <3>1 DEF IntInv, NodeInv, Dispose
    <3>3. ConnectedWhileOn'
      BY <1>11 DEF IntInv, NodeInv, Dispose, ConnectedWhileOn
    <3>4. \A e \in Device : stage'[e] = "off" => e \notin allocated'
      BY <1>11 DEF IntInv, NodeInv, Dispose
    <3>5. \A e \in Device : stage'[e] \in {"connect", "link"} => e \in allocated'
      BY <1>11 DEF IntInv, NodeInv, Dispose
    <3>6. \A v \in Vector : \A i, j \in DOMAIN chain'[v] : chain'[v][i] = chain'[v][j] => i = j
      BY <1>11 DEF IntInv, NodeInv, Dispose
    <3> QED BY <3>2, <3>3, <3>4, <3>5, <3>6 DEF NodeInv
  <2>5. SpinsOnlyIfShared'
    BY <1>11 DEF Dispose, SpinsOnlyIfShared
  <2> QED BY <2>1, <2>2, <2>3, <2>4, <2>5 DEF IntInv
<1>12. ASSUME NEW d \in Device, Request(d) PROVE IntInv'
  BY <1>12 DEF IntInv, Request, LockInv, MaskInv, NodeInv, ConnectedWhileOn, SpinsOnlyIfShared
<1>13. ASSUME NEW v \in Vector, Serve(v) PROVE IntInv'
  BY <1>13 DEF IntInv, Serve, LockInv, MaskInv, NodeInv, ConnectedWhileOn, SpinsOnlyIfShared
<1>14. ASSUME NEW v \in Vector, Spin(v) PROVE IntInv'
  <2>1. IntTypeOK' /\ LockInv' /\ MaskInv' /\ NodeInv'
    BY <1>14 DEF IntInv, Spin, LockInv, MaskInv, NodeInv, ConnectedWhileOn
  <2>2. PICK h \in Device : holder[v] = h
    BY <1>14 DEF IntInv, Spin
  <2>3. VecOf[h] = v /\ stage[h] \notin ClearAt \cup {"maskOut"}
    BY <1>14, <2>2 DEF IntInv, Spin, LockInv, LockedAt, ClearAt
  <2>4. lost \/ ~Alone(h)
    BY <1>14, <2>3 DEF IntInv, Spin, Pending, MaskInv
  <2>5. lost \/ Cardinality(SharedBy(v)) > 1
    BY <2>3, <2>4, TwoShare DEF Alone
  <2>6. SpinsOnlyIfShared'
    BY <1>14, <2>5 DEF Spin, SpinsOnlyIfShared, SharedBy
  <2> QED BY <2>1, <2>6 DEF IntInv
<1>15. CASE UNCHANGED intVars
  BY <1>15 DEF IntInv, LockInv, MaskInv, NodeInv, ConnectedWhileOn, SpinsOnlyIfShared, intVars
<1> QED
  BY <1>1, <1>2, <1>3, <1>4, <1>5, <1>6, <1>7, <1>8, <1>9, <1>10, <1>11, <1>12, <1>13, <1>14, <1>15,
     <1>16, <1>17, <1>18, <1>19
  DEF IntNext, Driver

(* The invariant holds throughout.                                          *)
LEMMA IntInvariant == IntSpec => []IntInv
BY IntInitial, IntStep, PTL DEF IntSpec

(* The variables of module Interrupts keep their types.                      *)
THEOREM IntTypeCorrect == IntSpec => []IntTypeOK
<1>1. IntInv => IntTypeOK
  BY DEF IntInv
<1> QED BY <1>1, IntInvariant, PTL

(* A handler hangs on the spinlock of a vector only if two devices share the *)
(* vector or an update of the mask was lost: as long as drivers do not undo  *)
(* each other's updates, the order of init and teminate protects a device    *)
(* that has a vector of its own.                                             *)
THEOREM NoSpinAlone == IntSpec => []SpinsOnlyIfShared
<1>1. IntInv => SpinsOnlyIfShared
  BY DEF IntInv
<1> QED BY <1>1, IntInvariant, PTL

(* A handler never meets a freed node or one node twice, and it meets the    *)
(* node of every device that is connected.                                   *)
THEOREM ChainsSound == IntSpec => []ChainSound
<1>1. IntInv => ChainSound
  BY DEF IntInv, NodeInv, ChainSound, ChainIsAllocated, ToSet
<1> QED BY <1>1, IntInvariant, PTL

-----------------------------------------------------------------------------
(***************************************************************************)
(* Proofs about module SysTick, for words of any size, any interval and    *)
(* any bounds on the delays that meet SysTickAssumption.                   *)
(*                                                                         *)
(* The argument: a stamp is torn by a multiple of a word, and _lastTime    *)
(* moves by Interval and wraps at a multiple of a word.  So _lastTime and  *)
(* the true time of the ticks counted so far, now + ahead, agree up to a   *)
(* multiple of a word (Congruent), and delta, which is cut to a word, is   *)
(* the number of time units until the next tick (SignedExact), provided    *)
(* that this number fits into half a word.  That it does is the other half *)
(* of the invariant (Bounds): at each stage of the handler it says how far *)
(* the count may be ahead of the time or behind.                           *)
(***************************************************************************)

Multiple(x) == \E k \in Int : x = k * Word

\* lastTime is the time of the last tick counted, up to whole words.
Congruent == cpu \notin {"init", "initLow"} => Multiple(lastTime - (now + ahead))

\* The upper half is that of some time; only its being a number matters.
Typed ==
  /\ now \in 0 .. Wrap - 1
  /\ cpu \in {"init", "initLow", "boot", "first", "run", "high", "low", "arm"}
  /\ upper \in 0 .. Word - 1
  /\ lastTime \in 0 .. Wrap - 1
  /\ delta \in Int
  /\ due \in Int
  /\ spent \in Nat
  /\ ahead \in Int

\* The longest time the count of ticks can be behind when a turn begins.
Behind == MaxBoot + MaxLate + MaxTurn + 1

Bounds ==
  /\ cpu = "boot" => ahead + spent = 0 /\ spent <= MaxBoot
  /\ cpu = "first" =>
       /\ spent = 0 /\ -MaxLate - 1 <= due /\ due <= Interval
       /\ due - Interval - MaxBoot <= ahead /\ ahead <= due - Interval
  /\ cpu = "run" =>
       /\ spent = 0 /\ -MaxLate - 1 <= due /\ due < Interval
       /\ due - MaxTurn <= ahead /\ ahead <= due
  /\ cpu = "low" => ahead < 0 /\ spent <= MaxTurn /\ ahead + Interval + spent >= -Behind
  /\ cpu = "high" => delta < 0 /\ ahead + spent = delta /\ spent <= MaxTurn /\ delta >= -Behind - MaxTurn
  /\ cpu = "arm" => 0 <= delta /\ delta < Interval /\ ahead + spent = delta /\ spent <= MaxTurn

TickInv == Typed /\ Congruent /\ Bounds /\ delta \in -HalfWord .. HalfWord - 1

-----------------------------------------------------------------------------
(* Words                                                                   *)

(* What the assumption says of the constants.                                *)
LEMMA Constants ==
  /\ HalfWord \in Nat /\ HalfWord >= 1 /\ Word \in Nat /\ Word >= 1 /\ Word = HalfWord + HalfWord
  /\ Interval \in Nat /\ Interval < HalfWord
  /\ MaxBoot \in Nat /\ MaxLate \in Nat /\ MaxTurn \in Nat /\ MaxTurn < Interval
  /\ Behind \in Nat /\ Behind + MaxTurn < HalfWord
  /\ Wrap \in Nat /\ Wrap >= 1
<1>1. /\ HalfWord \in Nat /\ HalfWord >= 1 /\ Word \in Nat /\ Word >= 1 /\ Word = HalfWord + HalfWord
      /\ Interval \in Nat /\ Interval < HalfWord
      /\ MaxBoot \in Nat /\ MaxLate \in Nat /\ MaxTurn \in Nat /\ MaxTurn < Interval
  BY SysTickAssumption DEF Word
<1>2. Behind \in Nat /\ Behind + MaxTurn < HalfWord
  BY <1>1, SysTickAssumption DEF Behind
<1>3. Wrap \in Nat /\ Wrap >= 1
  <2>1. \A w \in Nat : w >= 1 => w * w \in Nat /\ w * w >= 1
    OBVIOUS
  <2> QED BY <2>1, <1>1 DEF Wrap
<1> QED BY <1>1, <1>2, <1>3

(* Sums and differences of multiples of a word are multiples, and so is the  *)
(* range of the time base.                                                   *)
LEMMA Multiples ==
  /\ Multiple(0) /\ Multiple(Wrap)
  /\ \A x, y \in Int : Multiple(x) /\ Multiple(y) => Multiple(x + y) /\ Multiple(x - y)
  /\ \A k \in Int : Multiple(k * Word)
<1>1. Word \in Int
  BY Constants
<1>2. Multiple(0)
  <2>1. 0 = 0 * Word
    BY <1>1
  <2> QED BY <2>1 DEF Multiple
<1>3. Multiple(Wrap)
  BY <1>1 DEF Multiple, Wrap
<1>4. ASSUME NEW x \in Int, NEW y \in Int, Multiple(x), Multiple(y)
      PROVE  Multiple(x + y) /\ Multiple(x - y)
  <2>1. PICK k \in Int : x = k * Word
    BY <1>4 DEF Multiple
  <2>2. PICK l \in Int : y = l * Word
    BY <1>4 DEF Multiple
  <2>3. x + y = (k + l) * Word /\ x - y = (k - l) * Word /\ k + l \in Int /\ k - l \in Int
    BY <1>1, <2>1, <2>2
  <2> QED BY <2>3 DEF Multiple
<1> QED BY <1>2, <1>3, <1>4 DEF Multiple

(* A number and its remainder by a word differ by a multiple; so do a number *)
(* and its remainder by the range of the time base.                          *)
LEMMA Remainders ==
  \A x \in Int : /\ x % Word \in 0 .. Word - 1 /\ Multiple(x - (x % Word))
                 /\ x % Wrap \in 0 .. Wrap - 1 /\ Multiple(x - (x % Wrap))
<1> SUFFICES ASSUME NEW x \in Int
             PROVE  /\ x % Word \in 0 .. Word - 1 /\ Multiple(x - (x % Word))
                    /\ x % Wrap \in 0 .. Wrap - 1 /\ Multiple(x - (x % Wrap))
  OBVIOUS
<1>1. \A w \in Nat : w >= 1 => x % w \in 0 .. w - 1 /\ x \div w \in Int /\ x - (x % w) = (x \div w) * w
  OBVIOUS
<1>2. x % Word \in 0 .. Word - 1 /\ x \div Word \in Int /\ x - (x % Word) = (x \div Word) * Word
  BY <1>1, Constants
<1>3. x % Wrap \in 0 .. Wrap - 1 /\ x \div Wrap \in Int /\ x - (x % Wrap) = (x \div Wrap) * Wrap
  BY <1>1, Constants
<1>4. \A q, w \in Int : q * (w * w) = (q * w) * w /\ q * w \in Int
  OBVIOUS
<1>5. x - (x % Wrap) = ((x \div Wrap) * Word) * Word /\ (x \div Wrap) * Word \in Int
  BY <1>3, <1>4, Constants DEF Wrap
<1> QED BY <1>2, <1>3, <1>5, Multiples

(* Cutting to a word finds a number again, of which only multiples of a word *)
(* were added or lost, if the number fits.                                   *)
LEMMA SignedExact ==
  ASSUME NEW x \in Int, NEW a \in -HalfWord .. HalfWord - 1, Multiple(x - a)
  PROVE  Signed(x) = a
<1> DEFINE y == x % Word
<1>0. HalfWord \in Nat /\ Word \in Nat /\ Word = HalfWord + HalfWord
  BY Constants
<1>1. y \in 0 .. Word - 1 /\ Multiple(x - y)
  BY Remainders
<1> HIDE DEF y
<1>2. y \in Int /\ a \in Int
  BY <1>0, <1>1
<1>3. Multiple(y - a)
  <2>1. (x - a) - (x - y) = y - a /\ x - a \in Int /\ x - y \in Int
    BY <1>2
  <2>2. Multiple((x - a) - (x - y))
    BY <2>1, <1>1, Multiples
  <2> QED BY <2>1, <2>2
<1>4. PICK k \in Int : y - a = k * Word
  BY <1>3 DEF Multiple
<1>5. k = 0 \/ k = 1
  <2>1. ASSUME k >= 2 PROVE FALSE
    <3>1. k * Word >= 2 * Word
      BY <2>1, <1>0
    <3> QED BY <3>1, <1>0, <1>1, <1>4
  <2>2. ASSUME k <= -1 PROVE FALSE
    <3>1. k * Word <= (-1) * Word
      BY <2>2, <1>0
    <3> QED BY <3>1, <1>0, <1>1, <1>4
  <2> QED BY <2>1, <2>2
<1>6. y = IF k = 0 THEN a ELSE a + Word
  BY <1>0, <1>2, <1>4, <1>5
<1>7. Signed(x) = IF y < HalfWord THEN y ELSE y - Word
  BY DEF Signed, y
<1> QED BY <1>0, <1>1, <1>2, <1>5, <1>6, <1>7

-----------------------------------------------------------------------------
(* The initial states satisfy the invariant.                                 *)
THEOREM TickInitial == TickInit => TickInv
<1> SUFFICES ASSUME TickInit PROVE TickInv
  OBVIOUS
<1>1. Typed /\ delta \in -HalfWord .. HalfWord - 1
  BY Constants DEF TickInit, Typed
<1>2. Congruent /\ Bounds
  BY DEF TickInit, Congruent, Bounds
<1> QED BY <1>1, <1>2 DEF TickInv

(* A stamp, however torn, is the time up to whole words, and within a word   *)
(* and its upper half never more than the time base can hold.                *)
LEMMA StampIsNow ==
  ASSUME Typed
  PROVE  /\ Stamp \in 0 .. Wrap - 1
         /\ Multiple(Stamp - now)
<1>1. /\ now \in Int /\ Word \in Nat /\ Word >= 1 /\ upper \in 0 .. Word - 1
      /\ now % Word \in 0 .. Word - 1 /\ Multiple(now - (now % Word))
  <2>1. now \in Int /\ Word \in Nat /\ Word >= 1 /\ upper \in 0 .. Word - 1
    BY Constants DEF Typed
  <2> QED BY <2>1, Remainders
<1> DEFINE r == now % Word
<1> HIDE DEF r
<1>2. r \in 0 .. Word - 1 /\ Multiple(now - r) /\ Stamp = upper * Word + r
  BY <1>1 DEF r, Stamp
<1>3. \A w \in Nat : \A u, q \in 0 .. w - 1 : u * w + q \in 0 .. (w * w) - 1
  <2> SUFFICES ASSUME NEW w \in Nat, NEW u \in 0 .. w - 1, NEW q \in 0 .. w - 1
               PROVE  u * w + q \in 0 .. (w * w) - 1
    OBVIOUS
  <2>1. u * w <= (w - 1) * w /\ (w - 1) * w = w * w - w /\ u * w >= 0
    OBVIOUS
  <2> QED BY <2>1
<1>4. Stamp \in 0 .. Wrap - 1
  BY <1>1, <1>2, <1>3 DEF Wrap
<1>5. Multiple(upper * Word)
  BY <1>1, Multiples
<1>6. /\ upper * Word \in Int /\ now - r \in Int
      /\ Stamp - now = upper * Word - (now - r)
  BY <1>1, <1>2
<1> QED BY <1>2, <1>4, <1>5, <1>6, Multiples

(* The upper half of the time base fits into a register.                     *)
LEMMA UpperFits ==
  ASSUME Typed
  PROVE  now \div Word \in 0 .. Word - 1
<1>1. \A w \in Nat : \A t \in 0 .. (w * w) - 1 : w >= 1 => t \div w \in 0 .. w - 1
  <2> SUFFICES ASSUME NEW w \in Nat, w >= 1, NEW t \in 0 .. (w * w) - 1
               PROVE  t \div w \in 0 .. w - 1
    OBVIOUS
  <2>1. t \in Int /\ t >= 0 /\ t < w * w /\ w * w \in Nat
    OBVIOUS
  <2>2. t \div w \in Int /\ (t \div w) * w <= t /\ t < (t \div w) * w + w
    BY <2>1
  <2> DEFINE q == t \div w
  <2> HIDE DEF q
  <2>3. q \in Int /\ q * w <= t /\ t < q * w + w
    BY <2>2 DEF q
  <2>4. ASSUME q >= w PROVE FALSE
    <3>1. q * w >= w * w
      BY <2>3, <2>4
    <3> QED BY <3>1, <2>1, <2>3
  <2>5. ASSUME q <= -1 PROVE FALSE
    <3>1. q * w <= (-1) * w
      BY <2>3, <2>5
    <3> QED BY <3>1, <2>1, <2>3
  <2> QED BY <2>3, <2>4, <2>5 DEF q
<1>2. now \in 0 .. (Word * Word) - 1 /\ Word \in Nat /\ Word >= 1
  BY Constants DEF Typed, Wrap
<1> QED BY <1>1, <1>2

(* The difference is not cut: what the handler computes in an s32 is the     *)
(* number of time units until the next tick.                                 *)
LEMMA LowExact ==
  ASSUME TickInv, TickLow
  PROVE  /\ delta' = ahead' /\ ahead' \in -HalfWord .. HalfWord - 1
         /\ ahead' < Interval /\ ahead' >= -Behind - MaxTurn
         /\ lastTime' \in 0 .. Wrap - 1 /\ Multiple(lastTime' - (now + ahead'))
<1>0. Typed /\ Congruent /\ Bounds
  BY DEF TickInv
<1> DEFINE newTime == (lastTime + Interval) % Wrap
<1>1. /\ cpu = "low" /\ lastTime' = newTime /\ delta' = Signed(newTime - Stamp)
      /\ ahead' = ahead + Interval /\ spent' = 0
      /\ cpu' = (IF delta' < 0 THEN "high" ELSE "arm")
      /\ UNCHANGED <<now, upper, due>>
  BY DEF TickLow, Delta
<1>2. /\ now \in Int /\ lastTime \in Int /\ ahead \in Int /\ spent \in Nat /\ Interval \in Int
      /\ lastTime + Interval \in Int
  BY <1>0, Constants DEF Typed
<1>3. newTime \in 0 .. Wrap - 1 /\ newTime \in Int /\ Multiple((lastTime + Interval) - newTime)
  BY <1>2, Remainders, Constants
<1> HIDE DEF newTime
\* The number of time units until the next tick fits into half a word ...
<1>4. ahead' \in -HalfWord .. HalfWord - 1 /\ ahead' < Interval /\ ahead' >= -Behind - MaxTurn
  <2>1. ahead < 0 /\ spent <= MaxTurn /\ ahead + Interval + spent >= -Behind
    BY <1>1, <1>0 DEF Bounds
  <2> QED BY <2>1, <1>1, <1>2, Constants
\* ... and the new time is that number from now, up to whole words.
<1>5. Multiple(newTime - (now + ahead'))
  <2> DEFINE x == lastTime - (now + ahead)
             z == (lastTime + Interval) - newTime
  <2>1. Multiple(x) /\ Multiple(z)
    BY <1>1, <1>3, <1>0 DEF Congruent
  <2>2. x \in Int /\ z \in Int /\ x - z = newTime - (now + ahead')
    BY <1>1, <1>2, <1>3
  <2> HIDE DEF x, z
  <2> QED BY <2>1, <2>2, Multiples
<1>6. delta' = ahead'
  <2> DEFINE x == newTime - (now + ahead')
             z == Stamp - now
  <2>1. Stamp \in Int /\ Multiple(z)
    BY <1>0, StampIsNow, Constants
  <2>2. ahead' \in Int
    BY <1>1, <1>2
  <2>3. x \in Int /\ z \in Int /\ newTime - Stamp \in Int /\ x - z = (newTime - Stamp) - ahead'
    BY <1>2, <1>3, <2>1, <2>2
  <2>4. Multiple((newTime - Stamp) - ahead')
    <3>1. Multiple(x)
      BY <1>5
    <3> HIDE DEF x, z
    <3> QED BY <3>1, <2>1, <2>3, Multiples
  <2> QED BY <2>3, <2>4, <1>1, <1>4, SignedExact
<1> QED BY <1>1, <1>3, <1>4, <1>5, <1>6

(* Every step of the kernel and of the time base keeps the invariant.        *)
THEOREM TickStep == TickInv /\ [TickNext]_tickVars => TickInv'
<1> SUFFICES ASSUME TickInv, [TickNext]_tickVars PROVE TickInv'
  OBVIOUS
<1>0. Typed /\ Congruent /\ Bounds /\ delta \in -HalfWord .. HalfWord - 1
  BY DEF TickInv
<1>1. CASE Pass
  <2>1. /\ spent < Limit /\ now' = (now + 1) % Wrap /\ ahead' = ahead - 1
        /\ due' = (IF Threads THEN due - 1 ELSE due)
        /\ spent' = (IF Threads THEN spent ELSE spent + 1)
        /\ UNCHANGED <<cpu, upper, lastTime, delta>>
    BY <1>1 DEF Pass
  <2>2. now + 1 \in Int /\ now' \in 0 .. Wrap - 1 /\ Multiple((now + 1) - now')
    <3>1. now + 1 \in Int
      BY <1>0, Constants DEF Typed
    <3> QED BY <3>1, <2>1, Remainders
  <2>3. Typed'
    BY <2>1, <2>2, <1>0 DEF Typed
  <2>4. Congruent'
    <3> SUFFICES ASSUME cpu \notin {"init", "initLow"} PROVE Multiple(lastTime' - (now' + ahead'))
      BY <2>1 DEF Congruent
    <3> DEFINE x == lastTime - (now + ahead)
               z == (now + 1) - now'
    <3>1. Multiple(x) /\ Multiple(z)
      BY <2>2, <1>0 DEF Congruent
    <3>2. now \in Int /\ ahead \in Int /\ lastTime \in Int /\ now' \in Int
      BY <1>0, <2>2, Constants DEF Typed
    <3>3. x \in Int /\ z \in Int /\ x + z = lastTime' - (now' + ahead')
      BY <3>2, <2>1
    <3> HIDE DEF x, z
    <3> QED BY <3>1, <3>3, Multiples
  <2>5. Bounds'
    BY <2>1, <1>0, Constants DEF Bounds, Limit, Threads, Typed
  <2> QED BY <2>1, <2>3, <2>4, <2>5, <1>0 DEF TickInv
<1>2. CASE InitHigh
  <2>1. cpu = "init" /\ cpu' = "initLow" /\ upper' = now \div Word
        /\ UNCHANGED <<now, lastTime, delta, due, spent, ahead>>
    BY <1>2 DEF InitHigh
  <2>2. Typed'
    BY <2>1, <1>0, UpperFits DEF Typed
  <2>3. Congruent' /\ Bounds'
    BY <2>1 DEF Congruent, Bounds
  <2> QED BY <2>1, <2>2, <2>3, <1>0 DEF TickInv
<1>3. CASE InitLow
  <2>1. cpu' = "boot" /\ lastTime' = Stamp /\ ahead' = 0 /\ spent' = 0
        /\ UNCHANGED <<now, upper, delta, due>>
    BY <1>3 DEF InitLow
  <2>2. Typed'
    BY <2>1, <1>0, StampIsNow DEF Typed
  <2>3. Congruent'
    <3>1. lastTime' - (now' + ahead') = Stamp - now
      BY <2>1, <1>0, StampIsNow, Constants DEF Typed
    <3> QED BY <3>1, <1>0, StampIsNow DEF Congruent
  <2>4. Bounds'
    BY <2>1, Constants DEF Bounds
  <2> QED BY <2>1, <2>2, <2>3, <2>4, <1>0 DEF TickInv
<1>4. CASE Start
  <2>1. cpu = "boot" /\ cpu' = "first" /\ due' = Interval /\ spent' = 0
        /\ UNCHANGED <<now, upper, lastTime, delta, ahead>>
    BY <1>4 DEF Start
  <2>2. Typed'
    BY <2>1, <1>0, Constants DEF Typed
  <2>3. Congruent'
    BY <2>1, <1>0 DEF Congruent
  <2>4. Bounds'
    BY <2>1, <1>0, Constants DEF Bounds, Typed
  <2> QED BY <2>1, <2>2, <2>3, <2>4, <1>0 DEF TickInv
<1>5. CASE TickHigh
  <2>1. /\ cpu = "high" \/ (Threads /\ due < 0)
        /\ cpu' = "low" /\ upper' = now \div Word
        /\ spent' = (IF Threads THEN 0 ELSE spent)
        /\ UNCHANGED <<now, lastTime, delta, due, ahead>>
    BY <1>5 DEF TickHigh
  <2>2. Typed'
    BY <2>1, <1>0, UpperFits DEF Typed
  <2>3. Congruent'
    BY <2>1, <1>0 DEF Congruent, Threads
  <2>4. Bounds'
    <3>1. CASE cpu = "high"
      BY <3>1, <2>1, <1>0, Constants DEF Bounds, Typed, Threads
    <3>2. CASE cpu = "first"
      BY <3>2, <2>1, <1>0, Constants DEF Bounds, Typed, Threads, Behind
    <3>3. CASE cpu = "run"
      BY <3>3, <2>1, <1>0, Constants DEF Bounds, Typed, Threads, Behind
    <3> QED BY <2>1, <3>1, <3>2, <3>3 DEF Threads
  <2> QED BY <2>1, <2>2, <2>3, <2>4, <1>0 DEF TickInv
<1>6. CASE TickLow
  <2>1. /\ cpu = "low" /\ ahead' = ahead + Interval /\ spent' = 0
        /\ cpu' = (IF delta' < 0 THEN "high" ELSE "arm")
        /\ UNCHANGED <<now, upper, due>>
    BY <1>6 DEF TickLow
  <2>2. /\ delta' = ahead' /\ ahead' \in -HalfWord .. HalfWord - 1
        /\ ahead' < Interval /\ ahead' >= -Behind - MaxTurn
        /\ lastTime' \in 0 .. Wrap - 1 /\ Multiple(lastTime' - (now + ahead'))
    BY <1>6, LowExact
  <2>3. Typed'
    <3>1. delta' \in Int /\ ahead' \in Int
      BY <2>2, Constants
    <3>2. cpu' \in {"high", "arm"}
      BY <2>1
    <3> QED BY <2>1, <2>2, <3>1, <3>2, <1>0 DEF Typed
  <2>4. Congruent'
    BY <2>1, <2>2 DEF Congruent
  <2>5. Bounds'
    BY <2>1, <2>2, Constants DEF Bounds
  <2> QED BY <2>2, <2>3, <2>4, <2>5 DEF TickInv
<1>7. CASE SetDec
  <2>1. cpu = "arm" /\ cpu' = "run" /\ due' = delta /\ spent' = 0
        /\ UNCHANGED <<now, upper, lastTime, delta, ahead>>
    BY <1>7 DEF SetDec
  <2>2. Typed'
    BY <2>1, <1>0 DEF Typed
  <2>3. Congruent'
    BY <2>1, <1>0 DEF Congruent
  <2>4. Bounds'
    BY <2>1, <1>0, Constants DEF Bounds, Typed
  <2> QED BY <2>1, <2>2, <2>3, <2>4, <1>0 DEF TickInv
<1>8. CASE UNCHANGED tickVars
  BY <1>8 DEF tickVars, TickInv, Typed, Congruent, Bounds
<1> QED BY <1>1, <1>2, <1>3, <1>4, <1>5, <1>6, <1>7, <1>8 DEF TickNext

(* The invariant holds in every reachable state.                             *)
THEOREM TickInvariant == TickSpec => []TickInv
BY TickInitial, TickStep, PTL DEF TickSpec

(* The difference of two 64-bit times that the handler puts into an s32 is   *)
(* never cut: in every turn of the loop it is the true number of time units  *)
(* until the tick that was counted last, whatever halves of a word the stamp *)
(* was read in.                                                              *)
THEOREM DeltaExact == TickSpec => [][TickLow => delta' = ahead']_tickVars
<1>1. TickInv /\ [TickNext]_tickVars => [TickLow => delta' = ahead']_tickVars
  BY LowExact
<1> QED BY <1>1, TickInvariant, PTL DEF TickSpec

(* However the two halves of a time stamp are torn and however late the      *)
(* handler runs within the bounds, the count of ticks is never more than an  *)
(* interval ahead of the time, nor further behind than the delays explain.   *)
THEOREM TicksTrueToTime == TickSpec => []TicksFollowTime
<1>1. TickInv => TicksFollowTime
  BY Constants DEF TickInv, Typed, Bounds, TicksFollowTime
<1> QED BY <1>1, TickInvariant, PTL

(***************************************************************************)
(* Proofs about module MtdTable, for any devices, names, number of slots   *)
(* and number of references.                                               *)
(*                                                                         *)
(* The argument: a device is removed only when its use count is zero, and  *)
(* added with a use count of zero.  Neither would be safe if the use count *)
(* could differ from the references that are held; that they agree for     *)
(* every device of the table, and that nobody holds a device that is not   *)
(* in the table, is what the invariant adds to TableSound.                 *)
(***************************************************************************)

UsesCounted == \A d \in Mtd : IF Registered(d) THEN usecount[d] = uses[d] ELSE uses[d] = 0

TableInv == MtdTypeOK /\ NumbersAgree /\ UsesCounted

(* The first and the last of a set of slots are in the set.                  *)
LEMMA ChosenSlots ==
  ASSUME NEW S \in SUBSET Slot, S # {}
  PROVE  FirstOf(S) \in S /\ LastOf(S) \in S
<1>0. Slots \in Nat /\ \A i \in S : i \in Nat /\ i <= Slots - 1
  BY MtdTableAssumption DEF Slot
<1>1. \E i \in S : \A j \in S : i <= j
  BY LeastNat, <1>0
<1>2. \E i \in S : \A j \in S : i >= j
  <2> DEFINE T == {Slots - 1 - i : i \in S}
  <2>1. T \in SUBSET Nat /\ T # {}
    BY <1>0
  <2>2. PICK x \in T : \A y \in T : x <= y
    BY LeastNat, <2>1
  <2>3. PICK i \in S : x = Slots - 1 - i
    BY <2>2
  <2>4. ASSUME NEW j \in S PROVE i >= j
    <3>1. Slots - 1 - i <= Slots - 1 - j
      BY <2>2, <2>3
    <3> QED BY <3>1, <1>0
  <2> QED BY <2>4
<1>3. FirstOf(S) \in S
  BY <1>1 DEF FirstOf
<1>4. LastOf(S) \in S
  BY <1>2 DEF LastOf
<1> QED BY <1>3, <1>4

(* The empty table satisfies the invariant.                                  *)
THEOREM TableInitial == MtdInit => TableInv
<1> SUFFICES ASSUME MtdInit PROVE TableInv
  OBVIOUS
<1>1. 0 \in Slot
  BY MtdTableAssumption DEF Slot
<1>2. MtdTypeOK
  BY <1>1 DEF MtdInit, MtdTypeOK
<1>3. NumbersAgree /\ UsesCounted
  BY MtdTableAssumption DEF MtdInit, NumbersAgree, UsesCounted, Registered
<1> QED BY <1>2, <1>3 DEF TableInv

(* A lookup that finds a device of the table raises both counts.             *)
LEMMA FoundKeeps ==
  ASSUME TableInv, NEW d, d # Null => Registered(d) /\ d \in Mtd, Found(d)
  PROVE  TableInv'
<1>1. /\ d \in Mtd /\ Registered(d) /\ UNCHANGED <<table, index>>
      /\ usecount' = [usecount EXCEPT ![d] = @ + 1]
      /\ uses' = [uses EXCEPT ![d] = @ + 1]
  BY DEF Found
<1>2. MtdTypeOK'
  BY <1>1 DEF TableInv, MtdTypeOK
<1>3. NumbersAgree'
  BY <1>1 DEF TableInv, NumbersAgree
<1>4. \A e : Registered(e)' <=> Registered(e)
  BY <1>1 DEF Registered
<1>5. UsesCounted'
  BY <1>1, <1>4 DEF TableInv, UsesCounted, MtdTypeOK
<1> QED BY <1>2, <1>3, <1>5 DEF TableInv

(* Every call keeps the invariant.                                           *)
THEOREM TableStep == TableInv /\ [MtdNext]_mtdVars => TableInv'
<1> SUFFICES ASSUME TableInv, [MtdNext]_mtdVars PROVE TableInv'
  OBVIOUS
<1>0. Null \notin Mtd /\ MtdTypeOK /\ NumbersAgree /\ UsesCounted
  BY MtdTableAssumption DEF TableInv
<1>1. ASSUME NEW d \in Mtd, add_mtd_device(d) PROVE TableInv'
  <2> DEFINE empty == {i \in Slot : table[i] = Null}
             k == FirstOf(empty)
  <2>1. k \in Slot /\ table[k] = Null
    BY <1>1, ChosenSlots DEF add_mtd_device
  <2>2. /\ ~Registered(d) /\ table' = [table EXCEPT ![k] = d] /\ index' = [index EXCEPT ![d] = k]
        /\ usecount' = [usecount EXCEPT ![d] = 0] /\ uses' = uses
    BY <1>1 DEF add_mtd_device
  <2> HIDE DEF k, empty
  <2>3. MtdTypeOK'
    BY <2>1, <2>2, <1>0 DEF MtdTypeOK
  <2>4. \A i \in Slot : table'[i] = IF i = k THEN d ELSE table[i]
    BY <2>2, <1>0 DEF MtdTypeOK
  <2>5. \A e \in Mtd : index'[e] = IF e = d THEN k ELSE index[e]
    BY <2>2, <1>0 DEF MtdTypeOK
  <2>6. \A i \in Slot : table[i] # d /\ (table[i] # Null => table[i] \in Mtd)
    BY <2>2, <1>0 DEF Registered, MtdTypeOK
  <2>7. NumbersAgree'
    BY <2>1, <2>4, <2>5, <2>6, <1>0 DEF NumbersAgree
  <2>8. \A e \in Mtd : Registered(e)' <=> Registered(e) \/ e = d
    BY <2>1, <2>4, <1>0 DEF Registered
  <2>9. \A e \in Mtd : usecount'[e] = IF e = d THEN 0 ELSE usecount[e]
    BY <2>2, <1>0 DEF MtdTypeOK
  <2>10. UsesCounted'
    BY <2>2, <2>8, <2>9, <1>0 DEF UsesCounted
  <2> QED BY <2>3, <2>7, <2>10 DEF TableInv
<1>2. ASSUME NEW d \in Mtd, del_mtd_device(d) PROVE TableInv'
  <2>1. /\ index[d] \in Slot /\ table[index[d]] = d /\ usecount[d] = 0
        /\ table' = [table EXCEPT ![index[d]] = Null] /\ UNCHANGED <<index, usecount, uses>>
    BY <1>2, <1>0 DEF del_mtd_device, MtdTypeOK
  <2>2. \A i \in Slot : table'[i] = IF i = index[d] THEN Null ELSE table[i]
    BY <2>1, <1>0 DEF MtdTypeOK
  <2>3. MtdTypeOK'
    BY <2>1, <1>0 DEF MtdTypeOK
  <2>4. NumbersAgree'
    BY <2>1, <2>2, <1>0 DEF NumbersAgree
  <2>5. \A i \in Slot : table[i] = d => i = index[d]
    BY <1>0 DEF NumbersAgree
  <2>6. \A e \in Mtd : Registered(e)' <=> Registered(e) /\ e # d
    BY <2>1, <2>2, <2>5, <1>0 DEF Registered
  <2>7. uses[d] = 0
    BY <2>1, <1>0 DEF UsesCounted
  <2>8. UsesCounted'
    BY <2>1, <2>6, <2>7, <1>0 DEF UsesCounted
  <2> QED BY <2>3, <2>4, <2>8 DEF TableInv
<1>3. ASSUME NEW d \in Mtd, get_by_device(d) PROVE TableInv'
  <2> DEFINE at == {i \in Slot : table[i] = d}
  <2>1. at \in SUBSET Slot /\ at # {} /\ Found(table[LastOf(at)])
    BY <1>3 DEF get_by_device
  <2>2. table[LastOf(at)] = d /\ LastOf(at) \in Slot
    BY <2>1, ChosenSlots
  <2>3. Registered(d)
    BY <2>2 DEF Registered
  <2> QED BY <2>1, <2>2, <2>3, FoundKeeps
<1>4. ASSUME NEW d \in Mtd \cup {Null}, NEW num \in Slot, get_by_number(d, num) PROVE TableInv'
  <2>1. PICK x : Found(x) /\ (x = Null \/ x = table[num])
    BY <1>4 DEF get_by_number
  <2>2. x # Null => Registered(x) /\ x \in Mtd
    BY <2>1, <1>0 DEF Registered, MtdTypeOK
  <2> QED BY <2>1, <2>2, FoundKeeps
<1>5. ASSUME NEW d \in Mtd, get_mtd_device_nm(Name[d]) PROVE TableInv'
  <2> DEFINE at == {i \in Slot : table[i] # Null /\ Name[table[i]] = Name[d]}
  <2>1. at \in SUBSET Slot /\ at # {} /\ Found(table[FirstOf(at)])
    BY <1>5 DEF get_mtd_device_nm
  <2>2. FirstOf(at) \in Slot /\ table[FirstOf(at)] # Null
    BY <2>1, ChosenSlots
  <2>3. Registered(table[FirstOf(at)]) /\ table[FirstOf(at)] \in Mtd
    BY <2>2, <1>0 DEF Registered, MtdTypeOK
  <2> QED BY <2>1, <2>3, FoundKeeps
<1>6. ASSUME NEW d \in Mtd, put_mtd_device(d) PROVE TableInv'
  <2>1. /\ uses[d] > 0 /\ UNCHANGED <<table, index>>
        /\ usecount' = [usecount EXCEPT ![d] = @ - 1] /\ uses' = [uses EXCEPT ![d] = @ - 1]
    BY <1>6 DEF put_mtd_device
  <2>2. Registered(d) /\ usecount[d] = uses[d] /\ uses[d] \in Nat
    BY <2>1, <1>0 DEF UsesCounted, MtdTypeOK
  <2>3. MtdTypeOK'
    BY <2>1, <2>2, <1>0 DEF MtdTypeOK
  <2>4. NumbersAgree'
    BY <2>1, <1>0 DEF NumbersAgree
  <2>5. \A e : Registered(e)' <=> Registered(e)
    BY <2>1 DEF Registered
  <2>6. UsesCounted'
    BY <2>1, <2>2, <2>5, <1>0 DEF UsesCounted, MtdTypeOK
  <2> QED BY <2>3, <2>4, <2>6 DEF TableInv
<1>7. CASE UNCHANGED mtdVars
  BY <1>7 DEF mtdVars, TableInv, MtdTypeOK, NumbersAgree, UsesCounted, Registered
<1> QED BY <1>1, <1>2, <1>3, <1>4, <1>5, <1>6, <1>7 DEF MtdNext

(* The invariant holds in every reachable state.                             *)
THEOREM TableInvariant == MtdSpec => []TableInv
BY TableInitial, TableStep, PTL DEF MtdSpec

(* The table and the counts keep their types: no use count becomes negative. *)
(* (The compiled-out assertion of put_mtd_device, c < 0, claims the reverse.)*)
THEOREM TableTypeCorrect == MtdSpec => []MtdTypeOK
<1>1. TableInv => MtdTypeOK
  BY DEF TableInv
<1> QED BY <1>1, TableInvariant, PTL

(* The table never loses a device that somebody uses, nor has one twice or   *)
(* under a wrong number.                                                     *)
THEOREM TablesSound == MtdSpec => []TableSound
<1>1. TableInv => TableSound
  <2> SUFFICES ASSUME TableInv PROVE UsedIsRegistered
    BY DEF TableInv, TableSound
  <2>1. ASSUME NEW d \in Mtd, uses[d] > 0 PROVE table[index[d]] = d
    <3>1. uses[d] # 0
      BY <2>1
    <3>2. PICK i \in Slot : table[i] = d
      BY <3>1 DEF TableInv, UsesCounted, Registered
    <3>3. d # Null
      BY MtdTableAssumption
    <3> QED BY <3>2, <3>3 DEF TableInv, NumbersAgree
  <2> QED BY <2>1 DEF UsedIsRegistered
<1> QED BY <1>1, TableInvariant, PTL

-----------------------------------------------------------------------------
(***************************************************************************)
(* Proofs about module Pools, for pools of any kind and size, any clients  *)
(* and any number of processes on the heap.                                *)
(*                                                                         *)
(* The argument: the free list has no object twice and only objects of the *)
(* pool; what a client holds or initialises is not on it.  Taking the head *)
(* off and linking an object in, at either end, keep that (Taken, Linked). *)
(* The count follows the length of the list, which by the pigeonhole       *)
(* principle never exceeds N.  All this is kept until the header of a ring *)
(* is handed out; that happens only in the pools that do not check for it, *)
(* and from then on only the types are kept.                               *)
(***************************************************************************)

On(s, x) == \E i \in DOMAIN s : s[i] = x
Distinct(s) == \A i, j \in DOMAIN s : s[i] = s[j] => i = j

\* The state of the objects, with what only a queue or a process can be in.
PlaceInv ==
  /\ InOnePlace
  /\ HeapNeverPooled
  /\ \A t \in Client : transit[t] # 0 => kind = "msgqueue"

\* The count is what is missing from the list.
CountInv ==
  /\ kind \in Counted => used = N - Len(pool)
  /\ kind \notin Counted => used = 0 /\ maxUsed = 0
  /\ used <= maxUsed /\ maxUsed <= N

PoolInv ==
  /\ PoolTypeOK
  /\ overdrawn => kind \in Unchecked
  /\ ~overdrawn => PlaceInv /\ CountInv

-----------------------------------------------------------------------------
(* The free list.                                                          *)

\* Taking the head off a list.
LEMMA Taken ==
  ASSUME NEW S, NEW s \in Seq(S), s # <<>>, Distinct(s)
  PROVE  /\ Head(s) \in S /\ On(s, Head(s))
         /\ Tail(s) \in Seq(S) /\ Len(Tail(s)) = Len(s) - 1
         /\ Distinct(Tail(s))
         /\ \A x : On(Tail(s), x) <=> On(s, x) /\ x # Head(s)
<1> DEFINE r == Tail(s)
<1>1. /\ Len(s) \in Nat \ {0} /\ DOMAIN s = 1 .. Len(s) /\ Head(s) = s[1] /\ Head(s) \in S
      /\ r \in Seq(S) /\ Len(r) = Len(s) - 1
      /\ \A i \in 1 .. Len(r) : r[i] = s[i + 1]
  BY EmptySeq, LenProperties, HeadTailProperties
<1>2. DOMAIN r = 1 .. Len(s) - 1
  BY <1>1, LenProperties
<1> HIDE DEF r
<1>3. Distinct(r)
  BY <1>1, <1>2 DEF Distinct
<1>4. ASSUME NEW x PROVE On(r, x) <=> On(s, x) /\ x # Head(s)
  <2>1. ASSUME NEW i \in DOMAIN r, r[i] = x PROVE On(s, x) /\ x # Head(s)
    <3>1. i + 1 \in DOMAIN s /\ i + 1 # 1 /\ 1 \in DOMAIN s /\ s[i + 1] = x
      BY <1>1, <1>2, <2>1
    <3> QED BY <3>1, <1>1 DEF On, Distinct
  <2>2. ASSUME NEW i \in DOMAIN s, s[i] = x, x # Head(s) PROVE On(r, x)
    <3>1. i - 1 \in DOMAIN r /\ r[i - 1] = s[(i - 1) + 1] /\ (i - 1) + 1 = i
      BY <1>1, <1>2, <2>2
    <3> QED BY <3>1, <2>2 DEF On
  <2> QED BY <2>1, <2>2 DEF On
<1>5. On(s, Head(s))
  BY <1>1 DEF On
<1> QED BY <1>1, <1>3, <1>4, <1>5 DEF r

\* Linking an object in, at either end, that is not on the list.
LEMMA Linked ==
  ASSUME NEW S, NEW s \in Seq(S), NEW o \in S, Distinct(s), ~On(s, o),
         NEW r, r = Append(s, o) \/ r = <<o>> \o s
  PROVE  /\ r \in Seq(S) /\ Len(r) = Len(s) + 1
         /\ Distinct(r)
         /\ \A x : On(r, x) <=> On(s, x) \/ x = o
<1>1. Len(s) \in Nat /\ DOMAIN s = 1 .. Len(s)
  BY LenProperties
<1>2. CASE r = Append(s, o)
  <2>1. /\ r \in Seq(S) /\ Len(r) = Len(s) + 1
        /\ \A i \in 1 .. Len(s) : r[i] = s[i]
        /\ r[Len(s) + 1] = o
    BY <1>2, AppendProperties
  <2>2. DOMAIN r = 1 .. Len(s) + 1
    BY <2>1, LenProperties
  <2>3. Distinct(r)
    BY <1>1, <2>1, <2>2 DEF Distinct, On
  <2>4. \A x : On(r, x) <=> On(s, x) \/ x = o
    BY <1>1, <2>1, <2>2 DEF On
  <2> QED BY <2>1, <2>3, <2>4
<1>3. CASE r = <<o>> \o s
  <2>1. <<o>> \in Seq(S) /\ Len(<<o>>) = 1
    OBVIOUS
  <2>2. /\ r \in Seq(S) /\ Len(r) = 1 + Len(s)
        /\ \A i \in 1 .. 1 + Len(s) : r[i] = IF i <= 1 THEN <<o>>[i] ELSE s[i - 1]
    BY <1>3, <2>1, ConcatProperties
  <2>3. /\ DOMAIN r = 1 .. Len(s) + 1 /\ Len(r) = Len(s) + 1
        /\ r[1] = o
        /\ \A i \in DOMAIN r : i # 1 => i - 1 \in DOMAIN s /\ r[i] = s[i - 1]
    BY <2>2, <1>1, LenProperties
  <2>4. Distinct(r)
    BY <1>1, <2>3 DEF Distinct, On
  <2>5. ASSUME NEW x PROVE On(r, x) <=> On(s, x) \/ x = o
    <3>1. ASSUME NEW i \in DOMAIN s, s[i] = x PROVE On(r, x)
      <4>1. i + 1 \in DOMAIN r /\ i + 1 # 1 /\ (i + 1) - 1 = i
        BY <1>1, <2>3
      <4> QED BY <4>1, <3>1, <2>3 DEF On
    <3>2. On(r, o)
      BY <2>3, <1>1 DEF On
    <3>3. On(r, x) => On(s, x) \/ x = o
      BY <2>3 DEF On
    <3> QED BY <3>1, <3>2, <3>3 DEF On
  <2> QED BY <2>2, <2>3, <2>4, <2>5
<1> QED BY <1>2, <1>3

\* A list without repetition is no longer than the pool.
LEMMA NoLonger ==
  ASSUME NEW s \in Seq(Object), Distinct(s)
  PROVE  Len(s) <= N
<1>1. N \in Nat /\ Len(s) \in Nat /\ s \in [1 .. Len(s) -> Object] /\ DOMAIN s = 1 .. Len(s)
  BY PoolsAssumption, LenProperties
<1>2. /\ IsFiniteSet(1 .. Len(s)) /\ Cardinality(1 .. Len(s)) = Len(s)
      /\ IsFiniteSet(Object) /\ Cardinality(Object) = N
  <2>1. ASSUME NEW n \in Nat PROVE IsFiniteSet(1 .. n) /\ Cardinality(1 .. n) = n
    <3>1. /\ IsFiniteSet(1 .. n)
          /\ Cardinality(1 .. n) = IF 1 > n THEN 0 ELSE n - 1 + 1
      BY FS_Interval
    <3> QED BY <3>1
  <2> QED BY <2>1, <1>1 DEF Object
<1>3. ASSUME N < Len(s) PROVE FALSE
  <2>1. PICK x \in 1 .. Len(s), y \in 1 .. Len(s) : x # y /\ s[x] = s[y]
    BY <1>1, <1>2, <1>3, FS_PigeonHole
  <2> QED BY <2>1, <1>1 DEF Distinct
<1> QED BY <1>1, <1>3

-----------------------------------------------------------------------------
\* What the invariant says of the places, in terms of On and Distinct.
Places ==
  /\ Distinct(pool)
  /\ \A s, t \in Client : transit[s] # 0 /\ transit[s] = transit[t] => s = t
  /\ \A o \in Object :
       /\ On(pool, o) \/ owner[o] # Nobody \/ InTransit(o)
       /\ ~(On(pool, o) /\ owner[o] # Nobody)
       /\ ~(On(pool, o) /\ InTransit(o))
       /\ ~(owner[o] # Nobody /\ InTransit(o))
  /\ pool \in Seq(Object)
  /\ \A t \in Client : transit[t] # 0 => kind = "msgqueue"

\* The header of the ring is in its place.
HeaderInv == linked /\ headerOwner = Nobody /\ strays = 0

PoolTyped ==
  /\ kind \in Kinds
  /\ owner \in [AnyObject -> Client \cup {Nobody}]
  /\ transit \in [Client -> Object \cup {0}]
  /\ used \in Int /\ maxUsed \in Nat
  /\ nextPid \in N + 1 .. N + MaxNormal + 1

OutsideTyped ==
  /\ pool \in Seq(Object)
  /\ linked \in BOOLEAN /\ headerOwner \in Client \cup {Nobody}
  /\ strays \in Nat /\ overdrawn \in BOOLEAN

Inner == PoolTyped /\ Places /\ CountInv /\ HeaderInv

\* What every step keeps.
Kept ==
  /\ PoolTyped /\ OutsideTyped
  /\ overdrawn => kind \in Unchecked
  /\ ~overdrawn => Inner

(* The objects of a pool are numbers of the static array, none of them null. *)
LEMMA ObjectsAre == Object \subseteq AnyObject /\ 0 \notin Object /\ N \in Nat /\ MaxNormal \in Nat
BY PoolsAssumption DEF Object, AnyObject

(* What the steps keep gives the invariant.                                  *)
LEMMA KeptSuffices == Kept => PoolInv
<1> SUFFICES ASSUME Kept PROVE PoolInv
  OBVIOUS
<1>1. PoolTypeOK
  <2>1. pool \in Seq(AnyObject)
    BY ObjectsAre, SeqMonotonic DEF Kept, OutsideTyped
  <2> QED BY <2>1 DEF Kept, PoolTyped, OutsideTyped, PoolTypeOK
<1>2. ASSUME ~overdrawn PROVE PlaceInv /\ CountInv
  <2>1. HeapNeverPooled
    BY <1>2, LenProperties, ElementOfSeq DEF Kept, Inner, Places, HeapNeverPooled
  <2> QED BY <1>2, <2>1 DEF Kept, Inner, Places, PlaceInv, InOnePlace, OnList, On, Distinct
<1> QED BY <1>1, <1>2 DEF Kept, PoolInv

(* The constructors link every object into the free list once.               *)
THEOREM PoolInitial == PoolInit => Kept
<1> SUFFICES ASSUME PoolInit PROVE Kept
  OBVIOUS
<1>0. N \in Nat /\ N >= 1 /\ MaxNormal \in Nat
  BY PoolsAssumption
<1>1. /\ pool \in [1 .. N -> Object] /\ pool \in Seq(Object)
      /\ DOMAIN pool = 1 .. N /\ Len(pool) = N
  <2>1. pool \in [1 .. N -> Object]
    BY <1>0 DEF PoolInit, Object
  <2> QED BY <2>1, <1>0
<1>2. Distinct(pool)
  BY <1>0, <1>1 DEF PoolInit, Distinct, Object
<1>3. \A o \in Object : On(pool, o)
  <2> SUFFICES ASSUME NEW o \in Object PROVE On(pool, o)
    OBVIOUS
  <2>1. /\ o \in DOMAIN pool /\ N + 1 - o \in DOMAIN pool /\ N + 1 - (N + 1 - o) = o
    BY <1>0, <1>1 DEF Object
  <2>2. pool[o] = o \/ pool[N + 1 - o] = o
    BY <2>1, <1>1 DEF PoolInit
  <2> QED BY <2>1, <2>2 DEF On
<1>4. Places
  BY <1>1, <1>2, <1>3, ObjectsAre DEF PoolInit, Places, InTransit
<1>5. CountInv
  BY <1>0, <1>1 DEF PoolInit, CountInv
<1>6. PoolTyped
  <2>1. kind \in Kinds /\ used \in Int /\ maxUsed \in Nat /\ nextPid \in N + 1 .. N + MaxNormal + 1
    BY <1>0 DEF PoolInit
  <2>2. /\ owner \in [AnyObject -> Client \cup {Nobody}]
        /\ transit \in [Client -> Object \cup {0}]
    BY DEF PoolInit
  <2> QED BY <2>1, <2>2 DEF PoolTyped
<1>7. OutsideTyped
  <2>1. pool \in Seq(Object)
    BY <1>1
  <2>2. linked \in BOOLEAN /\ overdrawn \in BOOLEAN
    BY DEF PoolInit
  <2>3. headerOwner \in Client \cup {Nobody} /\ strays \in Nat
    BY DEF PoolInit
  <2> QED BY <2>1, <2>2, <2>3 DEF OutsideTyped
<1>8. ~overdrawn /\ HeaderInv
  BY DEF PoolInit, HeaderInv
<1> QED BY <1>4, <1>5, <1>6, <1>7, <1>8 DEF Inner, Kept

(* Every step keeps the types, overdrawn or not.                             *)
LEMMA PoolTypesKept ==
  ASSUME PoolTyped, OutsideTyped, [PoolNext]_poolVars
  PROVE  PoolTyped' /\ OutsideTyped'
<1> USE ObjectsAre
<1>1. CountTaken => used' \in Int /\ maxUsed' \in Nat
  BY DEF CountTaken, PoolTyped, Max2
<1>2. CountReturned => used' \in Int
  BY DEF CountReturned, PoolTyped
<1>3. \A o \in Object : GivenBack(o) \in Seq(Object)
  <2> SUFFICES ASSUME NEW o \in Object PROVE GivenBack(o) \in Seq(Object)
    OBVIOUS
  <2>1. Append(pool, o) \in Seq(Object) /\ <<o>> \o pool \in Seq(Object)
    BY AppendProperties, ConcatProperties DEF OutsideTyped
  <2> QED BY <2>1 DEF GivenBack, OutsideTyped
<1>4. pool # <<>> => Head(pool) \in Object /\ Tail(pool) \in Seq(Object)
  BY HeadTailProperties DEF OutsideTyped
<1>5. ASSUME NEW t \in Client, Take(t) PROVE PoolTyped' /\ OutsideTyped'
  BY <1>1, <1>4, <1>5 DEF Take, PoolTyped, OutsideTyped, outside
<1>6. ASSUME NEW t \in Client, TakeHeader(t) PROVE PoolTyped' /\ OutsideTyped'
  <2>1. linked' \in BOOLEAN /\ overdrawn' \in BOOLEAN
    BY <1>6 DEF TakeHeader
  <2> QED BY <2>1, <1>1, <1>6 DEF TakeHeader, PoolTyped, OutsideTyped
<1>7. ASSUME NEW t \in Client, TakeNull(t) PROVE PoolTyped' /\ OutsideTyped'
  BY <1>1, <1>7 DEF TakeNull, PoolTyped, OutsideTyped
<1>8. ASSUME NEW t \in Client, ReturnHeader(t) PROVE PoolTyped' /\ OutsideTyped'
  <2>1. linked' \in BOOLEAN /\ used' \in Int
    BY <1>2, <1>8 DEF ReturnHeader, PoolTyped, OutsideTyped
  <2> QED BY <2>1, <1>8 DEF ReturnHeader, PoolTyped, OutsideTyped
<1>9. ASSUME ReturnNull PROVE PoolTyped' /\ OutsideTyped'
  <2>1. used' \in Int
    BY <1>2, <1>9 DEF ReturnNull, PoolTyped
  <2> QED BY <2>1, <1>9 DEF ReturnNull, PoolTyped, OutsideTyped
<1>10. ASSUME NEW t \in Client, TakeQueue(t) PROVE PoolTyped' /\ OutsideTyped'
  BY <1>1, <1>4, <1>10 DEF TakeQueue, PoolTyped, OutsideTyped, outside
<1>11. ASSUME NEW t \in Client, QueueInitialised(t) PROVE PoolTyped' /\ OutsideTyped'
  BY <1>11 DEF QueueInitialised, PoolTyped, OutsideTyped, outside
<1>12. ASSUME NEW t \in Client, QueueInitFails(t) PROVE PoolTyped' /\ OutsideTyped'
  BY <1>2, <1>3, <1>12 DEF QueueInitFails, PoolTyped, OutsideTyped, outside
<1>13. ASSUME NEW t \in Client, TakeNormal(t) PROVE PoolTyped' /\ OutsideTyped'
  <2>1. nextPid \in AnyObject /\ nextPid' \in N + 1 .. N + MaxNormal + 1
    BY <1>13 DEF TakeNormal, PoolTyped, AnyObject
  <2> QED BY <2>1, <1>13 DEF TakeNormal, PoolTyped, OutsideTyped, outside
<1>14. ASSUME NEW t \in Client, NEW o \in AnyObject, Deallocate(t, o) PROVE PoolTyped' /\ OutsideTyped'
  <2>1. FromPool(o) => o \in Object
    BY DEF FromPool, AnyObject, Object
  <2>2. pool' \in Seq(Object) /\ used' \in Int
    BY <2>1, <1>2, <1>3, <1>14 DEF Deallocate, PoolTyped, OutsideTyped
  <2> QED BY <2>2, <1>14 DEF Deallocate, PoolTyped, OutsideTyped, outside
<1>15. CASE UNCHANGED poolVars
  BY <1>15 DEF poolVars, outside, PoolTyped, OutsideTyped
<1> QED
  BY <1>5, <1>6, <1>7, <1>8, <1>9, <1>10, <1>11, <1>12, <1>13, <1>14, <1>15 DEF PoolNext

(* Every step of a client keeps the rest, as long as nobody takes from an    *)
(* empty list that is not checked.                                           *)
THEOREM PoolStep == Inner /\ ~overdrawn' /\ [PoolNext]_poolVars => Inner'
<1> SUFFICES ASSUME Inner, ~overdrawn', [PoolNext]_poolVars PROVE Inner'
  OBVIOUS
<1> USE ObjectsAre
<1>0. /\ Nobody \notin Client
      /\ Len(pool) \in Nat /\ pool \in Seq(Object) /\ Distinct(pool)
  BY PoolsAssumption, LenProperties DEF Inner, Places
<1>a. Counted = {"thread", "proc", "vfsnode", "msgqueue"} /\ Unchecked = {"thread", "proc"}
  BY DEF Counted, Unchecked
\* An object is taken: the count rises by one if there is a count.
<1>b. ASSUME CountTaken, kind' = kind,
             Len(pool') = Len(pool) - 1, Len(pool) >= 1
      PROVE  CountInv' /\ used' \in Int /\ maxUsed' \in Nat
  <2>1. CASE kind \in Counted
    <3>1. used' = used + 1 /\ maxUsed' = Max2(maxUsed, used')
      BY <1>b, <2>1 DEF CountTaken
    <3>2. used = N - Len(pool) /\ used \in Int /\ maxUsed \in Nat /\ used <= maxUsed /\ maxUsed <= N
      BY <2>1, <1>b, <1>0 DEF Inner, CountInv, PoolTyped
    <3>3. \A l \in Nat : l >= 1 /\ used = N - l => used + 1 = N - (l - 1) /\ used + 1 <= N
      BY <3>2
    <3>4. used' = N - Len(pool') /\ used' <= N /\ used' \in Int
      BY <3>1, <3>2, <3>3, <1>b, <1>0
    <3>5. maxUsed' \in Nat /\ used' <= maxUsed' /\ maxUsed' <= N
      BY <3>1, <3>2, <3>4 DEF Max2
    <3> QED BY <3>4, <3>5, <2>1, <1>b DEF CountInv
  <2>2. CASE kind \notin Counted
    BY <2>2, <1>b DEF Inner, CountInv, PoolTyped, CountTaken
  <2> QED BY <2>1, <2>2
\* An object is linked in again.
<1>c. ASSUME CountReturned, kind' = kind, maxUsed' = maxUsed,
             Len(pool') = Len(pool) + 1
      PROVE  CountInv' /\ used' \in Int /\ maxUsed' \in Nat
  <2>1. CASE kind \in Counted
    BY <2>1, <1>c, <1>0 DEF Inner, CountInv, PoolTyped, CountReturned
  <2>2. CASE kind \notin Counted
    BY <2>2, <1>c DEF Inner, CountInv, PoolTyped, CountReturned
  <2> QED BY <2>1, <2>2
<1>d. ~UNCHANGED outside \/ HeaderInv'
  BY DEF Inner, HeaderInv, outside
<1>1. ASSUME NEW t \in Client, Take(t) PROVE Inner'
  <2>1. /\ Head(pool) \in Object /\ On(pool, Head(pool))
        /\ pool' \in Seq(Object) /\ Len(pool') = Len(pool) - 1
        /\ Distinct(pool')
        /\ \A x : On(pool', x) <=> On(pool, x) /\ x # Head(pool)
    BY <1>0, <1>1, Taken DEF Take
  <2>2. CountInv' /\ used' \in Int /\ maxUsed' \in Nat
    <3>1. Len(pool) >= 1
      BY <1>0, <1>1, EmptySeq DEF Take
    <3> QED BY <3>1, <1>b, <1>1, <2>1 DEF Take
  <2>3. /\ owner' = [owner EXCEPT ![Head(pool)] = t]
        /\ transit' = transit /\ kind' = kind /\ nextPid' = nextPid
    BY <1>1 DEF Take
  <2> HIDE DEF Take
  <2>4. PoolTyped'
    BY <2>1, <2>2, <2>3 DEF Inner, PoolTyped
  <2>5. \A o \in Object : owner'[o] = IF o = Head(pool) THEN t ELSE owner[o]
    BY <2>1, <2>3 DEF Inner, PoolTyped
  <2>6. \A o : InTransit(o)' <=> InTransit(o)
    BY <2>3 DEF InTransit
  <2>7. Places'
    BY <2>1, <2>3, <2>5, <2>6, <1>0 DEF Inner, Places
  <2>h. HeaderInv'
    BY <1>d, <1>1 DEF Take
  <2> QED BY <2>h, <2>2, <2>4, <2>7 DEF Inner
<1>2. ASSUME NEW t \in Client, TakeHeader(t) \/ TakeNull(t) \/ ReturnHeader(t) \/ ReturnNull
      PROVE  FALSE
  <2>1. linked /\ headerOwner = Nobody /\ strays = 0 /\ ~overdrawn'
    BY DEF Inner, HeaderInv
  <2>2. ~TakeHeader(t)
    BY <2>1 DEF TakeHeader
  <2>3. ~TakeNull(t)
    BY <2>1 DEF TakeNull
  <2>4. ~ReturnHeader(t)
    BY <2>1, <1>0 DEF ReturnHeader
  <2>5. ~ReturnNull
    BY <2>1 DEF ReturnNull
  <2> QED BY <1>2, <2>2, <2>3, <2>4, <2>5
<1>3. ASSUME NEW t \in Client, TakeQueue(t) PROVE Inner'
  <2>1. /\ Head(pool) \in Object /\ On(pool, Head(pool))
        /\ pool' \in Seq(Object) /\ Len(pool') = Len(pool) - 1
        /\ Distinct(pool')
        /\ \A x : On(pool', x) <=> On(pool, x) /\ x # Head(pool)
    BY <1>0, <1>3, Taken DEF TakeQueue
  <2>2. /\ owner' = owner /\ transit[t] = 0
        /\ transit' = [transit EXCEPT ![t] = Head(pool)]
        /\ kind' = kind /\ nextPid' = nextPid /\ kind = "msgqueue"
    BY <1>3 DEF TakeQueue
  <2>4. CountInv' /\ used' \in Int /\ maxUsed' \in Nat
    <3>1. Len(pool) >= 1
      BY <1>0, <1>3, EmptySeq DEF TakeQueue
    <3> QED BY <3>1, <1>b, <1>3, <2>1, <2>2 DEF TakeQueue
  <2>5. PoolTyped'
    BY <2>1, <2>2, <2>4 DEF Inner, PoolTyped
  <2>6. \A s \in Client : transit'[s] = IF s = t THEN Head(pool) ELSE transit[s]
    BY <2>2 DEF Inner, PoolTyped
  <2>7. \A o \in Object : InTransit(o)' <=> InTransit(o) \/ o = Head(pool)
    BY <2>2, <2>6 DEF InTransit
  <2>8. \A s \in Client : transit[s] # Head(pool)
    BY <2>1 DEF Inner, Places, InTransit
  <2>9. \A r, s \in Client : transit'[r] # 0 /\ transit'[r] = transit'[s] => r = s
    BY <2>6, <2>8 DEF Inner, Places
  <2>10. \A o \in Object :
           /\ On(pool', o) \/ owner'[o] # Nobody \/ InTransit(o)'
           /\ ~(On(pool', o) /\ owner'[o] # Nobody)
           /\ ~(On(pool', o) /\ InTransit(o)')
           /\ ~(owner'[o] # Nobody /\ InTransit(o)')
    BY <2>1, <2>2, <2>7 DEF Inner, Places
  <2>11. Places'
    BY <2>1, <2>2, <2>9, <2>10 DEF Places
  <2>h. HeaderInv'
    BY <1>d, <1>3 DEF TakeQueue
  <2> QED BY <2>h, <2>4, <2>5, <2>11 DEF Inner
<1>4. ASSUME NEW t \in Client, QueueInitialised(t) PROVE Inner'
  <2> DEFINE q == transit[t]
  <2>1. /\ q \in Object /\ InTransit(q)
        /\ owner' = [owner EXCEPT ![q] = t]
        /\ transit' = [transit EXCEPT ![t] = 0]
        /\ UNCHANGED <<kind, pool, used, maxUsed, nextPid>>
    BY <1>4 DEF QueueInitialised, Inner, PoolTyped, InTransit
  <2> HIDE DEF q
  <2>2. PoolTyped'
    BY <2>1 DEF Inner, PoolTyped
  <2>3. CountInv'
    BY <2>1 DEF Inner, CountInv
  <2>4. \A s \in Client : transit'[s] = IF s = t THEN 0 ELSE transit[s]
    BY <2>1 DEF Inner, PoolTyped
  <2>5. \A o \in Object : InTransit(o)' <=> InTransit(o) /\ o # q
    <3>1. \A s \in Client : transit[s] = q => s = t
      BY <2>1 DEF Inner, Places, q
    <3> QED BY <3>1, <2>4 DEF InTransit, q
  <2>6. \A o \in Object : owner'[o] = IF o = q THEN t ELSE owner[o]
    BY <2>1 DEF Inner, PoolTyped
  <2>7. \A o \in Object :
          /\ On(pool', o) \/ owner'[o] # Nobody \/ InTransit(o)'
          /\ ~(On(pool', o) /\ owner'[o] # Nobody)
          /\ ~(On(pool', o) /\ InTransit(o)')
          /\ ~(owner'[o] # Nobody /\ InTransit(o)')
    BY <2>1, <2>5, <2>6, <1>0 DEF Inner, Places
  <2>8. Places'
    BY <2>1, <2>4, <2>7, <1>0 DEF Inner, Places
  <2>h. HeaderInv'
    BY <1>d, <1>4 DEF QueueInitialised
  <2> QED BY <2>h, <2>2, <2>3, <2>8 DEF Inner
<1>5. ASSUME NEW t \in Client, QueueInitFails(t) PROVE Inner'
  <2> DEFINE q == transit[t]
  <2>1. /\ q \in Object /\ InTransit(q) /\ kind = "msgqueue"
        /\ pool' = GivenBack(q) /\ transit' = [transit EXCEPT ![t] = 0]
        /\ UNCHANGED <<kind, owner, maxUsed, nextPid>>
    BY <1>5, <1>a DEF QueueInitFails, Inner, PoolTyped, Places, InTransit
  <2> HIDE DEF q
  <2>2. ~On(pool, q)
    BY <2>1 DEF Inner, Places
  <2>3. /\ pool' \in Seq(Object) /\ Len(pool') = Len(pool) + 1
        /\ Distinct(pool')
        /\ \A x : On(pool', x) <=> On(pool, x) \/ x = q
    <3>1. pool' = Append(pool, q) \/ pool' = <<q>> \o pool
      BY <2>1 DEF GivenBack, Inner, HeaderInv
    <3> QED BY <1>0, <2>1, <2>2, <3>1, Linked
  <2>4. CountInv' /\ used' \in Int /\ maxUsed' \in Nat
    BY <1>c, <1>5, <2>1, <2>3 DEF QueueInitFails
  <2>5. PoolTyped'
    BY <2>1, <2>4 DEF Inner, PoolTyped
  <2>6. \A s \in Client : transit'[s] = IF s = t THEN 0 ELSE transit[s]
    BY <2>1 DEF Inner, PoolTyped
  <2>7. \A o \in Object : InTransit(o)' <=> InTransit(o) /\ o # q
    <3>1. \A s \in Client : transit[s] = q => s = t
      BY <2>1 DEF Inner, Places, q
    <3> QED BY <3>1, <2>6 DEF InTransit, q
  <2>8. \A o \in Object :
          /\ On(pool', o) \/ owner'[o] # Nobody \/ InTransit(o)'
          /\ ~(On(pool', o) /\ owner'[o] # Nobody)
          /\ ~(On(pool', o) /\ InTransit(o)')
          /\ ~(owner'[o] # Nobody /\ InTransit(o)')
    BY <2>1, <2>3, <2>7 DEF Inner, Places
  <2>9. Places'
    BY <2>1, <2>3, <2>6, <2>8 DEF Inner, Places
  <2>h. HeaderInv'
    BY <1>d, <1>5 DEF QueueInitFails
  <2> QED BY <2>h, <2>4, <2>5, <2>9 DEF Inner
<1>6. ASSUME NEW t \in Client, TakeNormal(t) PROVE Inner'
  <2>1. /\ owner' = [owner EXCEPT ![nextPid] = t] /\ nextPid' = nextPid + 1
        /\ nextPid <= N + MaxNormal
        /\ UNCHANGED <<kind, pool, transit, used, maxUsed>>
    BY <1>6 DEF TakeNormal
  <2>2. nextPid \in AnyObject /\ nextPid \notin Object
    BY <2>1, ObjectsAre DEF Inner, PoolTyped, AnyObject, Object
  <2>3. PoolTyped'
    BY <2>1, <2>2 DEF Inner, PoolTyped
  <2>4. \A o \in Object : owner'[o] = owner[o]
    BY <2>1, <2>2 DEF Inner, PoolTyped
  <2>5. Places'
    BY <2>1, <2>4 DEF Inner, Places, InTransit, On
  <2>6. CountInv'
    BY <2>1 DEF Inner, CountInv
  <2>h. HeaderInv'
    BY <1>d, <1>6 DEF TakeNormal
  <2> QED BY <2>h, <2>3, <2>5, <2>6 DEF Inner
<1>7. ASSUME NEW t \in Client, NEW o \in AnyObject, Deallocate(t, o) PROVE Inner'
  <2>1. /\ owner[o] = t /\ owner' = [owner EXCEPT ![o] = Nobody]
        /\ UNCHANGED <<kind, transit, maxUsed, nextPid>>
    BY <1>7 DEF Deallocate
  <2>2. PoolTyped \* the owner is the only thing that may have a new type
    BY DEF Inner
  <2>3. \A x \in AnyObject : owner'[x] = IF x = o THEN Nobody ELSE owner[x]
    BY <2>1, <2>2 DEF PoolTyped
  <2>4. \A x : InTransit(x)' <=> InTransit(x)
    BY <2>1 DEF InTransit
  <2>h. HeaderInv'
    BY <1>d, <1>7 DEF Deallocate
  <2>5. CASE FromPool(o)
    <3>1. o \in Object /\ pool' = GivenBack(o) /\ CountReturned
      BY <1>7, <2>5 DEF Deallocate, FromPool, Object, AnyObject
    <3>2. ~On(pool, o) /\ owner[o] # Nobody
      BY <3>1, <2>1, <1>0 DEF Inner, Places
    <3>3. /\ pool' \in Seq(Object) /\ Len(pool') = Len(pool) + 1
          /\ Distinct(pool')
          /\ \A x : On(pool', x) <=> On(pool, x) \/ x = o
      <4>1. pool' = Append(pool, o) \/ pool' = <<o>> \o pool
        BY <3>1 DEF GivenBack, Inner, HeaderInv
      <4> QED BY <1>0, <3>1, <3>2, <4>1, Linked
    <3>4. CountInv' /\ used' \in Int /\ maxUsed' \in Nat
      BY <1>c, <2>1, <3>1, <3>3
    <3>5. PoolTyped'
      BY <2>1, <2>2, <3>4 DEF PoolTyped
    <3>6. \A x \in Object :
            /\ On(pool', x) \/ owner'[x] # Nobody \/ InTransit(x)'
            /\ ~(On(pool', x) /\ owner'[x] # Nobody)
            /\ ~(On(pool', x) /\ InTransit(x)')
            /\ ~(owner'[x] # Nobody /\ InTransit(x)')
      BY <3>1, <3>2, <3>3, <2>3, <2>4 DEF Inner, Places
    <3>7. Places'
      BY <2>1, <3>3, <3>6 DEF Inner, Places
    <3> QED BY <2>h, <3>4, <3>5, <3>7 DEF Inner
  <2>6. CASE ~FromPool(o)
    <3>1. o \notin Object /\ UNCHANGED <<pool, used>>
      BY <1>7, <2>6 DEF Deallocate, FromPool, Object
    <3>2. PoolTyped'
      BY <2>1, <2>2, <3>1 DEF PoolTyped
    <3>3. \A x \in Object : owner'[x] = owner[x]
      BY <3>1, <2>3
    <3>4. Places'
      BY <2>1, <2>4, <3>1, <3>3 DEF Inner, Places, On
    <3>5. CountInv'
      BY <2>1, <3>1 DEF Inner, CountInv
    <3> QED BY <2>h, <3>2, <3>4, <3>5 DEF Inner
  <2> QED BY <2>5, <2>6
<1>8. CASE UNCHANGED poolVars
  BY <1>8 DEF poolVars, outside, Inner, PoolTyped, Places, CountInv, HeaderInv, InTransit, On
<1> QED
  BY <1>1, <1>2, <1>3, <1>4, <1>5, <1>6, <1>7, <1>8 DEF PoolNext

(* The invariant holds throughout.                                           *)
LEMMA PoolInvariant == PoolSpec => []PoolInv
<1>1. Kept /\ [PoolNext]_poolVars => Kept'
  <2> SUFFICES ASSUME Kept, [PoolNext]_poolVars PROVE Kept'
    OBVIOUS
  <2>1. PoolTyped' /\ OutsideTyped'
    BY PoolTypesKept DEF Kept
  <2>2. kind' = kind
    BY DEF PoolNext, poolVars, Take, TakeHeader, TakeNull, ReturnHeader, ReturnNull, TakeQueue,
           QueueInitialised, QueueInitFails, TakeNormal, Deallocate
  <2>3. overdrawn' => overdrawn \/ kind \in Unchecked
    BY DEF PoolNext, poolVars, outside, Take, TakeHeader, TakeNull, ReturnHeader, ReturnNull,
           TakeQueue, QueueInitialised, QueueInitFails, TakeNormal, Deallocate
  <2>4. overdrawn => overdrawn'
    BY DEF PoolNext, poolVars, outside, Take, TakeHeader, TakeNull, ReturnHeader, ReturnNull,
           TakeQueue, QueueInitialised, QueueInitFails, TakeNormal, Deallocate
  <2>5. ~overdrawn' => Inner'
    BY <2>4, PoolStep DEF Kept
  <2>6. overdrawn' => kind' \in Unchecked
    BY <2>2, <2>3 DEF Kept, Unchecked
  <2> QED BY <2>1, <2>5, <2>6 DEF Kept
<1>2. PoolSpec => []Kept
  BY <1>1, PoolInitial, PTL DEF PoolSpec
<1> QED BY <1>2, KeptSuffices, PTL

(* A pool that looks whether its list is empty hands no object out twice,    *)
(* loses none and counts right, of whatever kind and size, also when it is   *)
(* exhausted; the pools of threads and processes until an empty list is      *)
(* taken from.  No pool takes a process of the heap in until then.           *)
THEOREM PoolsSound == PoolSpec => []PoolSound
<1>1. PoolInv => PoolSound
  <2>1. ASSUME PoolInv, ~overdrawn, kind \in Counted
        PROVE  Len(pool) + used = N /\ 0 <= used /\ used <= maxUsed /\ maxUsed <= N
    <3>1. pool \in Seq(Object) /\ Distinct(pool)
      BY <2>1, LenProperties, ElementOfSeq, SeqDef DEF PoolInv, PlaceInv, InOnePlace, HeapNeverPooled, Distinct, PoolTypeOK
    <3>2. Len(pool) <= N /\ Len(pool) \in Nat /\ N \in Nat
      BY <3>1, NoLonger, PoolsAssumption, LenProperties
    <3> QED BY <2>1, <3>2 DEF PoolInv, CountInv, PoolTypeOK
  <2> QED BY <2>1 DEF PoolInv, PlaceInv, PoolSound, CountsAgree
<1> QED BY <1>1, PoolInvariant, PTL
=============================================================================
