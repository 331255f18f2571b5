----------------------------- MODULE SyncProofs -----------------------------
(***************************************************************************)
(* Proofs about module Sync for any number of threads, any length of the   *)
(* time slice and any bounds: type correctness, mutual exclusion, the      *)
(* assertions of mutex.cpp, the conservation of permits and the refinement *)
(* of AbsLock.                                                             *)
(*                                                                         *)
(* The argument: only the owner of the semaphore's spinlock changes _val,  *)
(* the waiter list and the walk of unlock() (SpinInv).  A decrement below  *)
(* zero is a debt that the enqueued thread carries, and unlock() pays it   *)
(* back when it unlinks that thread, so val plus the number of waiters     *)
(* never grows past what the one permit allows (DebtInv).  That needs the  *)
(* walk to unlink only waiters (WalkInv), and that no waiter is linked     *)
(* again by wakeup(): all threads but the running one have a state other   *)
(* than Waiting by the time unlock() looks at them (StateInv).             *)
(***************************************************************************)
EXTENDS Sync, FiniteSetTheorems, SequenceTheorems, TLAPS

SpinPc == {"dec", "got", "remove", "unlink", "waiting", "enqueue", "trydec", "inc", "wake"}
DebtPc == {"remove", "unlink", "waiting", "enqueue"}

Held == IF \E t \in Thread : HasSem(t) THEN 1 ELSE 0

SpinInv == \A t \in Thread : spin = t <=> pc[t] \in SpinPc

DebtInv ==
  /\ val + Len(ring[Sem]) + Held <= 1
  /\ \A t \in Thread : pc[t] \in DebtPc => val < 0 /\ val + Len(ring[Sem]) + Held <= 0

HolderInv ==
  /\ \A t \in Thread : holder = t <=> pc[t] = "in"
  /\ holder = None => depth = 0
  /\ holder # None => depth > 0

StateInv ==
  /\ curThread # Wild =>
       \A t \in Thread : state[t] = "Waiting" =>
         /\ t = curThread
         /\ val < 0
         /\ pc[t] \in {"remove", "unlink", "waiting", "enqueue", "schedule", "spin", "dec"}

Unique(r) ==
  \A g, h \in Header : \A i \in DOMAIN r[g], j \in DOMAIN r[h] :
    r[g][i] = r[h][j] => g = h /\ i = j

RingInv ==
  /\ \A t \in Thread : pc[t] \in {"waiting", "enqueue"} => ~Linked(ring, t)
  /\ Unique(ring)

NthWaiter(r, k) == IF k <= Len(r[Sem]) THEN r[Sem][k] ELSE Sem

WalkInv ==
  \A t \in Thread : pc[t] = "wake" => p = NthWaiter(ring, 1) /\ n = NthWaiter(ring, 2)

IInv ==
  /\ TypeOK
  /\ MutualExclusion
  /\ SpinInv
  /\ DebtInv
  /\ HolderInv
  /\ StateInv
  /\ RingInv
  /\ WalkInv

Rings == [Header -> Seq(Thread)]

-----------------------------------------------------------------------------
(* The list operations.                                                    *)

\* A sequence without its k-th element is one shorter and keeps the others.
LEMMA WithoutNth ==
  ASSUME NEW S, NEW s \in Seq(S), NEW k \in 1 .. Len(s)
  PROVE  LET w == [i \in 1 .. Len(s) - 1 |-> IF i < k THEN s[i] ELSE s[i + 1]]
         IN  /\ w \in Seq(S)
             /\ Len(w) = Len(s) - 1
             /\ \A i \in 1 .. Len(s) - 1 : w[i] = IF i < k THEN s[i] ELSE s[i + 1]
<1> DEFINE w == [i \in 1 .. Len(s) - 1 |-> IF i < k THEN s[i] ELSE s[i + 1]]
<1>1. Len(s) \in Nat /\ Len(s) - 1 \in Nat
  BY LenProperties
<1>2. \A i \in 1 .. Len(s) - 1 : (IF i < k THEN s[i] ELSE s[i + 1]) \in S
  BY <1>1, ElementOfSeq
<1>3. w \in [1 .. Len(s) - 1 -> S]
  BY <1>2
<1>4. w \in Seq(S)
  BY <1>1, <1>3, SeqDef
<1>5. DOMAIN w = 1 .. Len(w) /\ Len(w) \in Nat
  BY <1>4, LenProperties
<1>6. Len(w) = Len(s) - 1
  BY <1>1, <1>5
<1> QED
  BY <1>4, <1>6

\* delNodeFromRingDoubleList takes the node out of its ring and leaves the
\* order of all other nodes.
LEMMA UnlinkRings ==
  ASSUME NEW r \in Rings, Unique(r), NEW t \in Thread
  PROVE  /\ Unlink(r, t) \in Rings
         /\ Unique(Unlink(r, t))
         /\ ~Linked(Unlink(r, t), t)
         /\ \A u \in Thread : ~Linked(r, u) => ~Linked(Unlink(r, t), u)
         /\ \A h \in Header : Len(Unlink(r, t)[h]) <= Len(r[h])
         /\ \A h \in Header : \A k \in DOMAIN r[h] : r[h][k] = t =>
              /\ Len(Unlink(r, t)[h]) = Len(r[h]) - 1
              /\ \A i \in 1 .. Len(r[h]) - 1 :
                   Unlink(r, t)[h][i] = IF i < k THEN r[h][i] ELSE r[h][i + 1]
<1> DEFINE R == Unlink(r, t)
           Pos(h) == CHOOSE i \in DOMAIN r[h] : r[h][i] = t
<1>1. ASSUME NEW h \in Header
      PROVE  t # h /\ r[h] \in Seq(Thread) /\ Len(r[h]) \in Nat /\ DOMAIN r[h] = 1 .. Len(r[h])
  BY <1>1, SchedulerAssumption, LenProperties DEF Rings, Header
<1>2. ASSUME NEW h \in Header, ~InRing(r, t, h)
      PROVE  R[h] = r[h]
  BY <1>2 DEF Unlink
<1>3. ASSUME NEW h \in Header, NEW k \in DOMAIN r[h], r[h][k] = t
      PROVE  /\ InRing(r, t, h)
             /\ R[h] \in Seq(Thread)
             /\ Len(R[h]) = Len(r[h]) - 1
             /\ \A i \in 1 .. Len(r[h]) - 1 : R[h][i] = IF i < k THEN r[h][i] ELSE r[h][i + 1]
  <2>1. InRing(r, t, h)
    BY <1>3 DEF InRing
  <2>2. Pos(h) \in DOMAIN r[h] /\ r[h][Pos(h)] = t
    BY <1>3
  <2>3. Pos(h) = k
    BY <1>3, <2>2 DEF Unique
  <2>4. R[h] = [i \in 1 .. Len(r[h]) - 1 |-> IF i < k THEN r[h][i] ELSE r[h][i + 1]]
    BY <2>1, <2>3 DEF Unlink
  <2>5. k \in 1 .. Len(r[h])
    BY <1>1
  <2> QED
    BY <2>1, <2>4, <2>5, <1>1, WithoutNth
<1>4. ASSUME NEW h \in Header, InRing(r, t, h)
      PROVE  \E k \in DOMAIN r[h] : r[h][k] = t
  BY <1>4, <1>1 DEF InRing
<1>5. R \in Rings
  <2>1. \A h \in Header : R[h] \in Seq(Thread)
    BY <1>1, <1>2, <1>3, <1>4
  <2> QED
    BY <2>1 DEF Unlink, Rings
<1>6. \A h \in Header : Len(R[h]) <= Len(r[h])
  BY <1>1, <1>2, <1>3, <1>4
<1>7. ASSUME NEW h \in Header
      PROVE  DOMAIN R[h] = 1 .. Len(R[h]) /\ Len(R[h]) \in Nat
  BY <1>5, LenProperties DEF Rings
\* where the element at place i of the new ring h comes from
<1>8. ASSUME NEW h \in Header, NEW i \in DOMAIN R[h]
      PROVE  \E k \in DOMAIN r[h] :
               /\ R[h][i] = r[h][k] /\ r[h][k] # t
               /\ k = i \/ (k = i + 1 /\ InRing(r, t, h) /\ \E m \in DOMAIN r[h] : m <= i /\ r[h][m] = t)
               /\ k = i => \A m \in DOMAIN r[h] : r[h][m] = t => i < m
  <2>1. CASE InRing(r, t, h)
    <3>1. PICK k \in DOMAIN r[h] : r[h][k] = t
      BY <2>1, <1>4
    <3>2. i \in 1 .. Len(r[h]) - 1 /\ Len(R[h]) = Len(r[h]) - 1
      BY <1>3, <1>7, <3>1
    <3>3. R[h][i] = IF i < k THEN r[h][i] ELSE r[h][i + 1]
      BY <1>3, <3>1, <3>2
    <3>4. \A m \in DOMAIN r[h] : r[h][m] = t => m = k
      BY <3>1 DEF Unique
    <3> QED
      BY <3>1, <3>2, <3>3, <3>4, <2>1, <1>1
  <2>2. CASE ~InRing(r, t, h)
    <3>1. R[h] = r[h] /\ \A m \in DOMAIN r[h] : r[h][m] # t
      BY <1>2, <2>2 DEF InRing
    <3> QED
      BY <3>1
  <2> QED
    BY <2>1, <2>2
<1>9. Unique(R)
  <2> SUFFICES ASSUME NEW g \in Header, NEW h \in Header,
                      NEW i \in DOMAIN R[g], NEW j \in DOMAIN R[h], R[g][i] = R[h][j]
               PROVE  g = h /\ i = j
    BY DEF Unique
  <2>1. PICK k \in DOMAIN r[g] :
               /\ R[g][i] = r[g][k] /\ r[g][k] # t
               /\ k = i \/ (k = i + 1 /\ InRing(r, t, g) /\ \E m \in DOMAIN r[g] : m <= i /\ r[g][m] = t)
               /\ k = i => \A m \in DOMAIN r[g] : r[g][m] = t => i < m
    BY <1>8
  <2>2. PICK q \in DOMAIN r[h] :
               /\ R[h][j] = r[h][q] /\ r[h][q] # t
               /\ q = j \/ (q = j + 1 /\ InRing(r, t, h) /\ \E m \in DOMAIN r[h] : m <= j /\ r[h][m] = t)
               /\ q = j => \A m \in DOMAIN r[h] : r[h][m] = t => j < m
    BY <1>8
  <2>3. g = h /\ k = q
    <3>1. r[g][k] = r[h][q]
      BY <2>1, <2>2
    <3> QED
      BY <3>1 DEF Unique
  <2>4. i \in Nat /\ j \in Nat /\ k \in Nat /\ \A m \in DOMAIN r[g] : m \in Nat
    BY <1>1, <1>7
  <2> QED
    BY <2>1, <2>2, <2>3, <2>4
<1>10. ~Linked(R, t)
  BY <1>1, <1>8 DEF Linked, InRing
<1>11. ASSUME NEW u \in Thread, ~Linked(r, u)
       PROVE  ~Linked(R, u)
  BY <1>8, <1>11 DEF Linked, InRing
<1> QED
  BY <1>3, <1>5, <1>6, <1>9, <1>10, <1>11

\* x->next is a node, and the next of a header is the first of its ring.
LEMMA NextOfNode ==
  ASSUME NEW r \in Rings, NEW x \in Node, Linked(r, x)
  PROVE  NextOf(r, x) \in Node
<1> DEFINE h == HeaderOf(r, x)
           k == PlaceOf(r, x)
<1>1. h \in Header /\ InRing(r, x, h)
  BY DEF Linked, HeaderOf
<1>2. r[h] \in Seq(Thread) /\ DOMAIN r[h] = 1 .. Len(r[h]) /\ Len(r[h]) \in Nat
  BY <1>1, LenProperties DEF Rings
<1>3. k \in 0 .. Len(r[h])
  <2>1. CASE x \in Header
    BY <2>1, <1>2 DEF PlaceOf
  <2>2. CASE x \notin Header
    <3>1. \E i \in DOMAIN r[h] : r[h][i] = x
      BY <2>2, <1>1 DEF InRing
    <3>2. k \in DOMAIN r[h]
      BY <2>2, <3>1 DEF PlaceOf
    <3> QED
      BY <3>2, <1>2
  <2> QED
    BY <2>1, <2>2
<1>4. k < Len(r[h]) => r[h][k + 1] \in Thread
  BY <1>2, <1>3, ElementOfSeq
<1> QED
  BY <1>1, <1>4 DEF NextOf, Node

\* The successors that the walk of Semaphore::unlock reads.
LEMMA NextOfWaiter ==
  ASSUME NEW r \in Rings, Unique(r)
  PROVE  /\ NextOf(r, Sem) = NthWaiter(r, 1)
         /\ NextOf(r, NthWaiter(r, 1)) = NthWaiter(r, 2)
<1>1. Sem \in Header /\ Sem \notin Thread
  BY SyncAssumption, SchedulerAssumption DEF Header
<1>2. r[Sem] \in Seq(Thread) /\ DOMAIN r[Sem] = 1 .. Len(r[Sem]) /\ Len(r[Sem]) \in Nat
  BY <1>1, LenProperties DEF Rings
<1>3. \A h \in Header : InRing(r, Sem, h) <=> h = Sem
  <2> SUFFICES ASSUME NEW h \in Header, NEW i \in DOMAIN r[h], r[h][i] = Sem
               PROVE  FALSE
    BY DEF InRing
  <2>1. r[h] \in Seq(Thread) /\ i \in 1 .. Len(r[h])
    BY LenProperties DEF Rings
  <2> QED
    BY <2>1, <1>1, ElementOfSeq
<1>4. HeaderOf(r, Sem) = Sem /\ PlaceOf(r, Sem) = 0
  BY <1>1, <1>3 DEF HeaderOf, PlaceOf
<1>5. NextOf(r, Sem) = NthWaiter(r, 1)
  BY <1>2, <1>4 DEF NextOf, NthWaiter
<1>6. CASE Len(r[Sem]) = 0
  BY <1>6, <1>4, <1>5, <1>2 DEF NextOf, NthWaiter
<1>7. CASE Len(r[Sem]) > 0
  <2> DEFINE x == r[Sem][1]
  <2>1. x = NthWaiter(r, 1) /\ 1 \in DOMAIN r[Sem]
    BY <1>7, <1>2 DEF NthWaiter
  <2>2. x \in Thread
    BY <2>1, <1>2, ElementOfSeq
  <2>3. x \notin Header
    BY <2>2, SchedulerAssumption DEF Header
  <2>4. \A h \in Header : InRing(r, x, h) <=> h = Sem
    BY <2>1, <2>3, <1>1 DEF InRing, Unique
  <2>5. HeaderOf(r, x) = Sem
    BY <2>4, <1>1 DEF HeaderOf
  <2>6. \A i \in DOMAIN r[Sem] : r[Sem][i] = x <=> i = 1
    BY <2>1, <1>1 DEF Unique
  <2>7. PlaceOf(r, x) = 1
    BY <2>1, <2>3, <2>5, <2>6 DEF PlaceOf
  <2> QED
    BY <1>5, <1>2, <1>7, <2>1, <2>5, <2>7 DEF NextOf, NthWaiter
<1> QED
  BY <1>2, <1>5, <1>6, <1>7

-----------------------------------------------------------------------------
(* The invariant.                                                          *)

\* The boot state satisfies the invariant.

\* The boot state satisfies the invariant.

\* The boot state satisfies the invariant.

\* The boot state satisfies the invariant.

\* The boot state satisfies the invariant.
LEMMA InitIInv == Init => IInv
<1> SUFFICES ASSUME Init PROVE IInv
  OBVIOUS
<1> USE SchedulerAssumption, SyncAssumption
<1>1. PICK queue \in [1 .. Cardinality(Thread) -> Thread] :
        /\ \A i, j \in DOMAIN queue : queue[i] = queue[j] => i = j
        /\ ring = [h \in Header |-> IF h = RunHeader THEN queue ELSE <<>>]
        /\ curThread = queue[Cardinality(Thread)]
        /\ state = [t \in Thread |-> IF t = curThread THEN "Running" ELSE "Ready"]
        /\ curNode = curThread
        /\ execTicks = [t \in Thread |-> 0]
        /\ nextThread = queue[1]
  BY DEF Init, SchedInit
<1>2. Cardinality(Thread) \in Nat \ {0}
  BY FS_CardinalityType, FS_EmptySet
<1>3. queue \in Seq(Thread)
  BY <1>2, SeqDef
<1>4. ring \in Rings /\ ring[RunHeader] = queue /\ ring[Sem] = <<>>
  BY <1>1, <1>3, EmptySeq DEF Header, Rings
<1>5. curThread \in Thread /\ nextThread \in Thread
  BY <1>1, <1>2
<1>6. TypeOK
  BY <1>1, <1>4, <1>5 DEF Init, TypeOK, Rings, State, Label, Node, Header
<1>7. Unique(ring)
  BY <1>1, <1>4 DEF Unique, Header
<1>8. \A t \in Thread : pc[t] = "out" /\ state[t] # "Waiting"
  BY <1>1 DEF Init
<1>9. Held = 0 /\ Len(ring[Sem]) = 0
  BY <1>4, <1>8, EmptySeq DEF Held, HasSem
<1> QED
  BY <1>6, <1>7, <1>8, <1>9 DEF Init, IInv, MutualExclusion, HasSem, SpinInv, SpinPc, DebtInv,
     DebtPc, HolderInv, StateInv, RingInv, WalkInv

-----------------------------------------------------------------------------
(* Every step preserves the invariant; one lemma per kind of step.         *)

\* Mutex::lock enters Semaphore::lock.
LEMMA MutexLockKeeps ==
  ASSUME IInv, NEW t \in Thread, curThread = t, MutexLock(t)
  PROVE  IInv'
<1> USE SchedulerAssumption, SyncAssumption DEF IInv, MutexLock, Goto, MutexSame, WalkSame, schedVars
<1>1. Len(ring[Sem]) \in Nat /\ Held \in 0 .. 1
  BY LenProperties DEF TypeOK, Header, Held
<1>2. TypeOK'
  BY DEF TypeOK, Label
<1>3. SpinInv' /\ HolderInv'
  BY DEF TypeOK, SpinInv, SpinPc, HolderInv
<1>4. MutualExclusion' /\ Held' = Held
  BY DEF TypeOK, MutualExclusion, HasSem, Held
<1>5. DebtInv'
  BY <1>1, <1>4 DEF TypeOK, DebtInv, DebtPc, SpinInv, SpinPc
<1>6. StateInv'
  BY <1>1 DEF TypeOK, StateInv, DebtInv, DebtPc
<1>7. RingInv' /\ WalkInv'
  BY DEF TypeOK, RingInv, WalkInv, SpinInv, SpinPc
<1> QED
  BY <1>2, <1>3, <1>4, <1>5, <1>6, <1>7

\* Mutex::trylock enters Semaphore::trylock.
LEMMA MutexTrylockKeeps ==
  ASSUME IInv, NEW t \in Thread, curThread = t, MutexTrylock(t)
  PROVE  IInv'
<1> USE SchedulerAssumption, SyncAssumption DEF IInv, MutexTrylock, Goto, MutexSame, WalkSame, schedVars
<1>1. Len(ring[Sem]) \in Nat /\ Held \in 0 .. 1
  BY LenProperties DEF TypeOK, Header, Held
<1>2. TypeOK'
  BY DEF TypeOK, Label
<1>3. SpinInv' /\ HolderInv'
  BY DEF TypeOK, SpinInv, SpinPc, HolderInv
<1>4. MutualExclusion' /\ Held' = Held
  BY DEF TypeOK, MutualExclusion, HasSem, Held
<1>5. DebtInv'
  BY <1>1, <1>4 DEF TypeOK, DebtInv, DebtPc, SpinInv, SpinPc
<1>6. StateInv'
  BY <1>1 DEF TypeOK, StateInv, DebtInv, DebtPc
<1>7. RingInv' /\ WalkInv'
  BY DEF TypeOK, RingInv, WalkInv, SpinInv, SpinPc
<1> QED
  BY <1>2, <1>3, <1>4, <1>5, <1>6, <1>7

\* The holder locks again.
LEMMA AgainKeeps ==
  ASSUME IInv, NEW t \in Thread, curThread = t, Again(t)
  PROVE  IInv'
<1> USE SchedulerAssumption, SyncAssumption DEF IInv, Again, Goto, MutexSame, WalkSame, schedVars
<1>1. Len(ring[Sem]) \in Nat /\ Held \in 0 .. 1
  BY LenProperties DEF TypeOK, Header, Held
<1>2. TypeOK'
  BY DEF TypeOK, Label
<1>3. SpinInv' /\ HolderInv'
  BY DEF TypeOK, SpinInv, SpinPc, HolderInv
<1>4. MutualExclusion' /\ Held' = Held
  BY DEF TypeOK, MutualExclusion, HasSem, Held
<1>5. DebtInv'
  BY <1>1, <1>4 DEF TypeOK, DebtInv, DebtPc, SpinInv, SpinPc
<1>6. StateInv'
  BY <1>1 DEF TypeOK, StateInv, DebtInv, DebtPc
<1>7. RingInv' /\ WalkInv'
  BY DEF TypeOK, RingInv, WalkInv, SpinInv, SpinPc
<1> QED
  BY <1>2, <1>3, <1>4, <1>5, <1>6, <1>7

\* Mutex::unlock up to the call of Semaphore::unlock.
LEMMA MutexUnlockKeeps ==
  ASSUME IInv, NEW t \in Thread, curThread = t, MutexUnlock(t)
  PROVE  IInv'
<1> USE SchedulerAssumption, SyncAssumption DEF IInv, MutexUnlock, Goto, MutexSame, WalkSame, schedVars
<1>1. Len(ring[Sem]) \in Nat /\ Held \in 0 .. 1
  BY LenProperties DEF TypeOK, Header, Held
<1>0. pc[t] = "in" /\ holder = t /\ depth \in 1 .. MaxDepth
  BY DEF TypeOK, HolderInv
<1>2. TypeOK'
  <2>1. depth' \in 0 .. MaxDepth /\ holder' \in Thread \cup {None}
    BY <1>0
  <2>2. pc' \in [Thread -> Label]
    BY DEF TypeOK, Label
  <2> QED
    BY <2>1, <2>2 DEF TypeOK
<1>3. SpinInv' /\ HolderInv'
  BY <1>0 DEF TypeOK, SpinInv, SpinPc, HolderInv
<1>4. MutualExclusion' /\ Held' = Held
  BY <1>0 DEF TypeOK, MutualExclusion, HasSem, Held
<1>5. DebtInv'
  BY <1>0, <1>1, <1>4 DEF TypeOK, DebtInv, DebtPc, SpinInv, SpinPc
<1>6. StateInv'
  BY <1>0, <1>1 DEF TypeOK, StateInv, DebtInv, DebtPc
<1>7. RingInv' /\ WalkInv'
  BY <1>0 DEF TypeOK, RingInv, WalkInv, SpinInv, SpinPc
<1> QED
  BY <1>2, <1>3, <1>4, <1>5, <1>6, <1>7

\* The new owner records itself; it finds the mutex without a holder.
LEMMA MutexOwnKeeps ==
  ASSUME IInv, NEW t \in Thread, curThread = t, NEW from \in {"own", "tryown"}, MutexOwn(t, from)
  PROVE  IInv'
<1> USE SchedulerAssumption, SyncAssumption DEF IInv, MutexOwn, Goto, MutexSame, WalkSame, schedVars
<1>1. Len(ring[Sem]) \in Nat /\ Held \in 0 .. 1
  BY LenProperties DEF TypeOK, Header, Held
<1>0. pc[t] = from /\ holder = None /\ depth = 0
  BY DEF TypeOK, HolderInv, MutualExclusion, HasSem
<1>2. TypeOK'
  BY <1>0 DEF TypeOK, Label
<1>3. SpinInv' /\ HolderInv'
  BY <1>0 DEF TypeOK, SpinInv, SpinPc, HolderInv
<1>4. MutualExclusion' /\ Held' = Held
  BY <1>0 DEF TypeOK, MutualExclusion, HasSem, Held
<1>5. DebtInv'
  BY <1>0, <1>1, <1>4 DEF TypeOK, DebtInv, DebtPc, SpinInv, SpinPc
<1>6. StateInv'
  BY <1>0, <1>1 DEF TypeOK, StateInv, DebtInv, DebtPc
<1>7. RingInv' /\ WalkInv'
  BY <1>0 DEF TypeOK, RingInv, WalkInv, SpinInv, SpinPc
<1> QED
  BY <1>2, <1>3, <1>4, <1>5, <1>6, <1>7

\* A thread gets the spinlock.
LEMMA SpinLockKeeps ==
  ASSUME IInv, NEW t \in Thread, curThread = t, NEW from, NEW to, SpinLock(t, from, to),
         <<from, to>> \in {<<"spin", "dec">>, <<"tryspin", "trydec">>, <<"unspin", "inc">>}
  PROVE  IInv'
<1> USE SchedulerAssumption, SyncAssumption DEF IInv, SpinLock, Goto, MutexSame, WalkSame, schedVars
<1>1. Len(ring[Sem]) \in Nat /\ Held \in 0 .. 1
  BY LenProperties DEF TypeOK, Header, Held
<1>2. TypeOK'
  BY DEF TypeOK, Label
<1>3. SpinInv' /\ HolderInv'
  BY DEF TypeOK, SpinInv, SpinPc, HolderInv
<1>4. MutualExclusion' /\ Held' = Held
  BY DEF TypeOK, MutualExclusion, HasSem, Held
<1>5. DebtInv'
  BY <1>1, <1>4 DEF TypeOK, DebtInv, DebtPc, SpinInv, SpinPc
<1>6. StateInv'
  BY <1>1 DEF TypeOK, StateInv, DebtInv, DebtPc
<1>7. RingInv' /\ WalkInv'
  BY DEF TypeOK, RingInv, WalkInv, SpinInv, SpinPc
<1> QED
  BY <1>2, <1>3, <1>4, <1>5, <1>6, <1>7

\* Semaphore::lock decrements.
LEMMA SemDecKeeps ==
  ASSUME IInv, NEW t \in Thread, curThread = t, SemDec(t)
  PROVE  IInv'
<1> USE SchedulerAssumption, SyncAssumption DEF IInv, SemDec, Goto, MutexSame, WalkSame, schedVars
<1>1. Len(ring[Sem]) \in Nat /\ Held \in 0 .. 1
  BY LenProperties DEF TypeOK, Header, Held
<1>0. /\ val \in Int
      /\ val >= 1 => Held = 0 /\ \A u \in Thread : ~HasSem(u)
      /\ \A u \in Thread \ {t} : pc[u] \notin DebtPc
  <2>1. val \in Int /\ (val >= 1 => Held = 0)
    BY <1>1 DEF TypeOK, DebtInv
  <2>2. Held = 0 => \A u \in Thread : ~HasSem(u)
    BY DEF Held
  <2>3. \A u \in Thread \ {t} : pc[u] \notin DebtPc
    BY DEF SpinInv, SpinPc, DebtPc
  <2> QED
    BY <2>1, <2>2, <2>3
<1>2. TypeOK'
  BY <1>0 DEF TypeOK, Label
<1>3. SpinInv' /\ HolderInv'
  BY <1>0 DEF TypeOK, SpinInv, SpinPc, HolderInv
<1>4. MutualExclusion' /\ Held' = IF val >= 1 THEN 1 ELSE Held
  BY <1>0 DEF TypeOK, MutualExclusion, HasSem, Held
<1>5. DebtInv'
  <2>1. val' = val - 1 /\ ring' = ring /\ (pc'[t] \in DebtPc => val <= 0)
    BY <1>0 DEF TypeOK, DebtPc
  <2>2. \A u \in Thread \ {t} : pc'[u] = pc[u]
    BY DEF TypeOK
  <2>3. /\ val' + Len(ring'[Sem]) + Held' <= 1
        /\ pc'[t] \in DebtPc => val' + Len(ring'[Sem]) + Held' <= 0
    <3> DEFINE l == Len(ring[Sem])
           m == Len(ring'[Sem])
    <3>1. val + l + Held <= 1 /\ m = l
      BY <2>1 DEF DebtInv
    <3>3. l \in Nat /\ Held \in 0 .. 1
      BY <1>1
    <3> SUFFICES /\ val' + m + Held' <= 1
                 /\ pc'[t] \in DebtPc => val' + m + Held' <= 0
      OBVIOUS
    <3> HIDE DEF l, m, SemDec, IInv
    <3> QED
      BY <1>0, <1>4, <2>1, <3>1, <3>3
  <2> QED
    BY <1>0, <2>1, <2>2, <2>3 DEF DebtInv
<1>6. StateInv'
  BY <1>0, <1>1 DEF TypeOK, StateInv, DebtInv, DebtPc
<1>7. RingInv' /\ WalkInv'
  BY <1>0 DEF TypeOK, RingInv, WalkInv, SpinInv, SpinPc
<1> QED
  BY <1>2, <1>3, <1>4, <1>5, <1>6, <1>7

\* Semaphore::lock returns with the permit.
LEMMA SemGotKeeps ==
  ASSUME IInv, NEW t \in Thread, curThread = t, SemGot(t)
  PROVE  IInv'
<1> USE SchedulerAssumption, SyncAssumption DEF IInv, SemGot, Goto, MutexSame, WalkSame, schedVars
<1>1. Len(ring[Sem]) \in Nat /\ Held \in 0 .. 1
  BY LenProperties DEF TypeOK, Header, Held
<1>2. TypeOK'
  BY DEF TypeOK, Label
<1>3. SpinInv' /\ HolderInv'
  BY DEF TypeOK, SpinInv, SpinPc, HolderInv
<1>4. MutualExclusion' /\ Held' = Held
  BY DEF TypeOK, MutualExclusion, HasSem, Held
<1>5. DebtInv'
  BY <1>1, <1>4 DEF TypeOK, DebtInv, DebtPc, SpinInv, SpinPc
<1>6. StateInv'
  BY <1>1 DEF TypeOK, StateInv, DebtInv, DebtPc
<1>7. RingInv' /\ WalkInv'
  BY DEF TypeOK, RingInv, WalkInv, SpinInv, SpinPc
<1> QED
  BY <1>2, <1>3, <1>4, <1>5, <1>6, <1>7

\* The state of a suspended thread becomes Waiting.
LEMMA SuspendWaitingKeeps ==
  ASSUME IInv, NEW t \in Thread, curThread = t, SuspendWaiting(t)
  PROVE  IInv'
<1> USE SchedulerAssumption, SyncAssumption DEF IInv, SuspendWaiting, State, Goto, MutexSame, WalkSame, schedVars
<1>1. Len(ring[Sem]) \in Nat /\ Held \in 0 .. 1
  BY LenProperties DEF TypeOK, Header, Held
<1>2. TypeOK'
  BY DEF TypeOK, Label
<1>3. SpinInv' /\ HolderInv'
  BY DEF TypeOK, SpinInv, SpinPc, HolderInv
<1>4. MutualExclusion' /\ Held' = Held
  BY DEF TypeOK, MutualExclusion, HasSem, Held
<1>5. DebtInv'
  BY <1>1, <1>4 DEF TypeOK, DebtInv, DebtPc, SpinInv, SpinPc
<1>6. StateInv'
  BY <1>1 DEF TypeOK, StateInv, DebtInv, DebtPc
<1>7. RingInv' /\ WalkInv'
  BY DEF TypeOK, RingInv, WalkInv, SpinInv, SpinPc
<1> QED
  BY <1>2, <1>3, <1>4, <1>5, <1>6, <1>7

\* Semaphore::trylock decrements or gives up.
LEMMA TryDecKeeps ==
  ASSUME IInv, NEW t \in Thread, curThread = t, TryDec(t)
  PROVE  IInv'
<1> USE SchedulerAssumption, SyncAssumption DEF IInv, TryDec, Goto, MutexSame, WalkSame, schedVars
<1>1. Len(ring[Sem]) \in Nat /\ Held \in 0 .. 1
  BY LenProperties DEF TypeOK, Header, Held
<1>0. /\ val \in Int
      /\ val >= 1 => Held = 0 /\ \A u \in Thread : ~HasSem(u)
      /\ \A u \in Thread \ {t} : pc[u] \notin DebtPc
  <2>1. val \in Int /\ (val >= 1 => Held = 0)
    BY <1>1 DEF TypeOK, DebtInv
  <2>2. Held = 0 => \A u \in Thread : ~HasSem(u)
    BY DEF Held
  <2>3. \A u \in Thread \ {t} : pc[u] \notin DebtPc
    BY DEF SpinInv, SpinPc, DebtPc
  <2> QED
    BY <2>1, <2>2, <2>3
<1>2. TypeOK'
  BY <1>0 DEF TypeOK, Label
<1>3. SpinInv' /\ HolderInv'
  BY <1>0 DEF TypeOK, SpinInv, SpinPc, HolderInv
<1>4. MutualExclusion' /\ Held' = IF val >= 1 THEN 1 ELSE Held
  BY <1>0 DEF TypeOK, MutualExclusion, HasSem, Held
<1>5. DebtInv'
  <2>1. val' = (IF val >= 1 THEN val - 1 ELSE val) /\ ring' = ring
    BY <1>0
  <2>2. \A u \in Thread : pc'[u] \notin DebtPc
    BY <1>0 DEF TypeOK, DebtPc
  <2>3. val' + Len(ring'[Sem]) + Held' <= 1
    <3> DEFINE l == Len(ring[Sem])
           m == Len(ring'[Sem])
    <3>1. val + l + Held <= 1 /\ m = l
      BY <2>1 DEF DebtInv
    <3>3. l \in Nat /\ Held \in 0 .. 1
      BY <1>1
    <3> SUFFICES val' + m + Held' <= 1
      OBVIOUS
    <3> HIDE DEF l, m, TryDec, IInv
    <3> QED
      BY <1>0, <1>4, <2>1, <3>1, <3>3
  <2> QED
    BY <2>2, <2>3 DEF DebtInv
<1>6. StateInv'
  BY <1>0, <1>1 DEF TypeOK, StateInv, DebtInv, DebtPc
<1>7. RingInv' /\ WalkInv'
  BY <1>0 DEF TypeOK, RingInv, WalkInv, SpinInv, SpinPc
<1> QED
  BY <1>2, <1>3, <1>4, <1>5, <1>6, <1>7

\* The walk of Semaphore::unlock is over.
LEMMA UnlockDoneKeeps ==
  ASSUME IInv, NEW t \in Thread, curThread = t, UnlockDone(t)
  PROVE  IInv'
<1> USE SchedulerAssumption, SyncAssumption DEF IInv, UnlockDone, Goto, MutexSame, WalkSame, schedVars
<1>1. Len(ring[Sem]) \in Nat /\ Held \in 0 .. 1
  BY LenProperties DEF TypeOK, Header, Held
<1>2. TypeOK'
  BY DEF TypeOK, Label
<1>3. SpinInv' /\ HolderInv'
  BY DEF TypeOK, SpinInv, SpinPc, HolderInv
<1>4. MutualExclusion' /\ Held' = Held
  BY DEF TypeOK, MutualExclusion, HasSem, Held
<1>5. DebtInv'
  BY <1>1, <1>4 DEF TypeOK, DebtInv, DebtPc, SpinInv, SpinPc
<1>6. StateInv'
  BY <1>1 DEF TypeOK, StateInv, DebtInv, DebtPc
<1>7. RingInv' /\ WalkInv'
  BY DEF TypeOK, RingInv, WalkInv, SpinInv, SpinPc
<1> QED
  BY <1>2, <1>3, <1>4, <1>5, <1>6, <1>7

\* A blocked thread switches to the chosen one.
LEMMA SemSwitchKeeps ==
  ASSUME IInv, NEW t \in Thread, curThread = t, SemSwitch(t)
  PROVE  IInv'
<1> USE SchedulerAssumption, SyncAssumption DEF IInv, SemSwitch, Goto, MutexSame, WalkSame, schedVars
<1>1. Len(ring[Sem]) \in Nat /\ Held \in 0 .. 1
  BY LenProperties DEF TypeOK, Header, Held
<1>2. TypeOK'
  BY DEF TypeOK, Label
<1>3. SpinInv' /\ HolderInv'
  BY DEF TypeOK, SpinInv, SpinPc, HolderInv
<1>4. MutualExclusion' /\ Held' = Held
  BY DEF TypeOK, MutualExclusion, HasSem, Held
<1>5. DebtInv'
  BY <1>1, <1>4 DEF TypeOK, DebtInv, DebtPc, SpinInv, SpinPc
<1>6. StateInv'
  BY <1>1 DEF TypeOK, StateInv, DebtInv, DebtPc
<1>7. RingInv' /\ WalkInv'
  BY DEF TypeOK, RingInv, WalkInv, SpinInv, SpinPc
<1> QED
  BY <1>2, <1>3, <1>4, <1>5, <1>6, <1>7

\* Semaphore::unlock gives the permit back and starts its walk.
LEMMA UnlockIncKeeps ==
  ASSUME IInv, NEW t \in Thread, curThread = t, UnlockInc(t)
  PROVE  IInv'
<1> USE SchedulerAssumption, SyncAssumption DEF IInv, UnlockInc, Goto, MutexSame, schedVars
<1>1. Len(ring[Sem]) \in Nat /\ Held = 1
  BY LenProperties DEF TypeOK, Header, Held, HasSem
<1>2. ring \in Rings /\ Unique(ring)
  BY DEF TypeOK, Rings, RingInv
<1>3. p' = NthWaiter(ring, 1) /\ n' = NthWaiter(ring, 2)
  BY <1>2, NextOfWaiter
<1>4. NthWaiter(ring, 1) \in Node /\ NthWaiter(ring, 2) \in Node
  BY <1>1, ElementOfSeq DEF TypeOK, NthWaiter, Node, Header
<1>5. TypeOK'
  BY <1>3, <1>4 DEF TypeOK, Label
<1>6. SpinInv' /\ HolderInv'
  BY DEF TypeOK, SpinInv, SpinPc, HolderInv
<1>7. MutualExclusion' /\ Held' = 0
  BY DEF TypeOK, MutualExclusion, HasSem, Held
<1>8. DebtInv'
  <2>1. \A u \in Thread : pc'[u] \notin DebtPc
    BY DEF TypeOK, DebtPc, SpinInv, SpinPc
  <2>2. val' + Len(ring'[Sem]) + Held' <= 1
    <3> DEFINE l == Len(ring[Sem])
           m == Len(ring'[Sem])
    <3>1. val + l + Held <= 1 /\ val \in Int
      BY DEF DebtInv, TypeOK
    <3>2. val' = val + 1 /\ m = l
      OBVIOUS
    <3>3. l \in Nat /\ Held = 1
      BY <1>1
    <3> SUFFICES val' + m + Held' <= 1
      OBVIOUS
    <3> HIDE DEF l, m, UnlockInc, IInv
    <3> QED
      BY <1>7, <3>1, <3>2, <3>3
  <2> QED
    BY <2>1, <2>2 DEF DebtInv
<1>9. StateInv'
  BY DEF TypeOK, StateInv
<1>10. RingInv' /\ WalkInv'
  BY <1>3 DEF TypeOK, RingInv, WalkInv, SpinInv, SpinPc
<1> QED
  BY <1>5, <1>6, <1>7, <1>8, <1>9, <1>10

\* The walk of Semaphore::unlock unlinks the first waiter.
LEMMA UnlockWakeKeeps ==
  ASSUME IInv, NEW t \in Thread, curThread = t, UnlockWake(t)
  PROVE  IInv'
<1> USE SchedulerAssumption, SyncAssumption DEF IInv, UnlockWake, Goto, MutexSame
<1>1. ring \in Rings /\ Unique(ring) /\ Sem \in Header
  BY DEF TypeOK, Rings, RingInv, Header
<1>2. ring[Sem] \in Seq(Thread) /\ Len(ring[Sem]) \in Nat /\ DOMAIN ring[Sem] = 1 .. Len(ring[Sem])
  BY <1>1, LenProperties DEF Rings
<1>3. Len(ring[Sem]) > 0 /\ p = ring[Sem][1] /\ n = NthWaiter(ring, 2)
  BY <1>2 DEF WalkInv, NthWaiter
<1>4. p \in Thread
  BY <1>2, <1>3, ElementOfSeq
<1>5. state[p] # "Waiting"
  BY <1>4 DEF StateInv
<1>6. ring' = Unlink(ring, p) /\ UNCHANGED <<state, curThread>>
  BY <1>5 DEF Wakeup
<1>7. /\ ring' \in Rings /\ Unique(ring')
      /\ \A u \in Thread : ~Linked(ring, u) => ~Linked(ring', u)
  BY <1>1, <1>4, <1>6, UnlinkRings
<1>8. /\ Len(ring'[Sem]) = Len(ring[Sem]) - 1
      /\ \A i \in 1 .. Len(ring[Sem]) - 1 : ring'[Sem][i] = ring[Sem][i + 1]
  <2>1. 1 \in DOMAIN ring[Sem] /\ ring[Sem][1] = p
    BY <1>2, <1>3
  <2>2. /\ Len(ring'[Sem]) = Len(ring[Sem]) - 1
        /\ \A i \in 1 .. Len(ring[Sem]) - 1 :
             ring'[Sem][i] = IF i < 1 THEN ring[Sem][i] ELSE ring[Sem][i + 1]
    BY <1>1, <1>4, <1>6, <2>1, UnlinkRings
  <2> QED
    BY <1>2, <2>2
<1>9. n = NthWaiter(ring', 1)
  BY <1>2, <1>3, <1>8 DEF NthWaiter
<1>10. p' = NthWaiter(ring', 1) /\ n' = NthWaiter(ring', 2)
  BY <1>7, <1>9, NextOfWaiter
<1>11. ring'[Sem] \in Seq(Thread) /\ Len(ring'[Sem]) \in Nat
  BY <1>1, <1>7, LenProperties DEF Rings
<1>12. NthWaiter(ring', 1) \in Node /\ NthWaiter(ring', 2) \in Node
  BY <1>1, <1>11, ElementOfSeq DEF NthWaiter, Node
<1>13. TypeOK'
  BY <1>6, <1>7, <1>10, <1>12 DEF TypeOK, Label, Rings
<1>14. SpinInv' /\ HolderInv'
  BY DEF TypeOK, SpinInv, SpinPc, HolderInv
<1>15. MutualExclusion' /\ Held' = Held /\ Held \in 0 .. 1
  BY DEF TypeOK, MutualExclusion, HasSem, Held
<1>16. DebtInv'
  <2>1. \A u \in Thread : pc'[u] \notin DebtPc
    BY DEF TypeOK, DebtPc, SpinInv, SpinPc
  <2>2. val' + Len(ring'[Sem]) + Held' <= 1
    <3>1. val' = val + 1 /\ val \in Int /\ val + Len(ring[Sem]) + Held <= 1
      BY DEF TypeOK, DebtInv
    <3> DEFINE l == Len(ring[Sem])
               m == Len(ring'[Sem])
    <3>2. val + l + Held <= 1 /\ m = l - 1 /\ l \in Nat /\ Held \in Int /\ Held' = Held
      BY <1>2, <1>8, <1>15, <3>1
    <3> SUFFICES val' + m + Held' <= 1
      OBVIOUS
    <3> HIDE DEF l, m, UnlockWake, IInv
    <3> QED
      BY <3>1, <3>2
  <2> QED
    BY <2>1, <2>2 DEF DebtInv
<1>17. StateInv'
  BY <1>6 DEF TypeOK, StateInv
<1>18. RingInv' /\ WalkInv'
  BY <1>7, <1>10 DEF TypeOK, RingInv, WalkInv, SpinInv, SpinPc
<1> QED
  BY <1>13, <1>14, <1>15, <1>16, <1>17, <1>18

\* Scheduler::remove moves the rotation point on first.
LEMMA SuspendRotatesKeeps ==
  ASSUME IInv, NEW t \in Thread, curThread = t, SuspendRotates(t)
  PROVE  IInv'
<1> USE SchedulerAssumption, SyncAssumption DEF IInv, SuspendRotates, Goto, MutexSame, WalkSame
<1>1. ring \in Rings /\ Unique(ring) /\ t \in Node
  BY DEF TypeOK, Rings, RingInv, Node
<1>2. Len(ring[Sem]) \in Nat /\ Held \in 0 .. 1
  BY LenProperties DEF TypeOK, Header, Held
<1>3. ring' = ring /\ curNode' \in Node /\ curThread' \in {t, Wild}
  <2>1. CASE Linked(ring, t)
    BY <1>1, <2>1, NextOfNode DEF RemoveRotates
  <2>2. CASE ~Linked(ring, t)
    BY <2>2 DEF RemoveRotates, TypeOK
  <2> QED
    BY <2>1, <2>2
<1>5. TypeOK'
  BY <1>3 DEF TypeOK, Label
<1>6. SpinInv' /\ HolderInv'
  BY DEF TypeOK, SpinInv, SpinPc, HolderInv
<1>7. MutualExclusion' /\ Held' = Held
  BY DEF TypeOK, MutualExclusion, HasSem, Held
<1>8. DebtInv'
  BY <1>2, <1>3, <1>7 DEF TypeOK, DebtInv, DebtPc, SpinInv, SpinPc
<1>9. StateInv'
  BY <1>3 DEF TypeOK, StateInv
<1>10. RingInv' /\ WalkInv'
  BY <1>3 DEF TypeOK, RingInv, WalkInv, SpinInv, SpinPc
<1> QED
  BY <1>5, <1>6, <1>7, <1>8, <1>9, <1>10

\* Then it takes the thread out of the ring it is in.
LEMMA SuspendRemoveKeeps ==
  ASSUME IInv, NEW t \in Thread, curThread = t, SuspendRemove(t)
  PROVE  IInv'
<1> USE SchedulerAssumption, SyncAssumption DEF IInv, SuspendRemove, Goto, MutexSame, WalkSame
<1>1. ring \in Rings /\ Unique(ring) /\ Sem \in Header /\ t \in Node
  BY DEF TypeOK, Rings, RingInv, Header, Node
<1>2. Len(ring[Sem]) \in Nat /\ Held \in 0 .. 1
  BY LenProperties DEF TypeOK, Header, Held
<1>3. /\ ring' \in Rings /\ Unique(ring') /\ ~Linked(ring', t)
      /\ \A u \in Thread : ~Linked(ring, u) => ~Linked(ring', u)
      /\ Len(ring'[Sem]) <= Len(ring[Sem])
      /\ curNode' \in Node
      /\ curThread' \in {t, Wild}
  <2>1. CASE Linked(ring, t)
    <3>1. ring' = Unlink(ring, t) /\ curNode' = curNode /\ curThread' = t /\ curNode \in Node
      BY <2>1 DEF Remove, TypeOK
    <3> HIDE DEF IInv, SuspendRemove
    <3> QED
      BY <1>1, <3>1, UnlinkRings
  <2>2. CASE ~Linked(ring, t)
    BY <1>1, <1>2, <2>2 DEF Remove, TypeOK
  <2> QED
    BY <2>1, <2>2
<1>4. Len(ring'[Sem]) \in Nat
  BY <1>1, <1>3, LenProperties DEF Rings
<1>5. TypeOK'
  BY <1>3 DEF TypeOK, Label, Rings
<1>6. SpinInv' /\ HolderInv'
  BY DEF TypeOK, SpinInv, SpinPc, HolderInv
<1>7. MutualExclusion' /\ Held' = Held
  BY DEF TypeOK, MutualExclusion, HasSem, Held
<1>8. DebtInv'
  BY <1>2, <1>3, <1>4, <1>7 DEF TypeOK, DebtInv, DebtPc, SpinInv, SpinPc
<1>9. StateInv'
  BY <1>3 DEF TypeOK, StateInv
<1>10. RingInv' /\ WalkInv'
  BY <1>3 DEF TypeOK, RingInv, WalkInv, SpinInv, SpinPc
<1> QED
  BY <1>5, <1>6, <1>7, <1>8, <1>9, <1>10

\* Semaphore::lock puts the suspended thread on the waiter list.
LEMMA SemEnqueueKeeps ==
  ASSUME IInv, NEW t \in Thread, curThread = t, SemEnqueue(t)
  PROVE  IInv'
<1> USE SchedulerAssumption, SyncAssumption DEF IInv, SemEnqueue, Goto, MutexSame, WalkSame
<1>1. ring \in Rings /\ Unique(ring) /\ Sem \in Header /\ ~Linked(ring, t)
  BY DEF TypeOK, Rings, RingInv, Header
<1>2. ring[Sem] \in Seq(Thread) /\ Len(ring[Sem]) \in Nat /\ Held \in 0 .. 1
  BY <1>1, LenProperties DEF Rings, Held
<1>3. /\ ring' \in Rings
      /\ ring'[Sem] = Append(ring[Sem], t)
      /\ \A h \in Header \ {Sem} : ring'[h] = ring[h]
  BY <1>1, <1>2, AppendProperties DEF Rings
<1>4. /\ Len(ring'[Sem]) = Len(ring[Sem]) + 1
      /\ \A i \in 1 .. Len(ring[Sem]) : ring'[Sem][i] = ring[Sem][i]
      /\ ring'[Sem][Len(ring[Sem]) + 1] = t
  BY <1>2, <1>3, AppendProperties
<1>5. \A h \in Header : DOMAIN ring[h] = 1 .. Len(ring[h]) /\ DOMAIN ring'[h] = 1 .. Len(ring'[h])
  BY <1>1, <1>3, LenProperties DEF Rings
<1>6. \A h \in Header : \A i \in DOMAIN ring'[h] :
        \/ i \in DOMAIN ring[h] /\ ring'[h][i] = ring[h][i]
        \/ h = Sem /\ i = Len(ring[Sem]) + 1 /\ ring'[h][i] = t
  BY <1>2, <1>3, <1>4, <1>5
<1>7. \A h \in Header : \A i \in DOMAIN ring[h] : ring[h][i] # t
  BY <1>1 DEF Linked, InRing
<1>8. Unique(ring')
  BY <1>1, <1>6, <1>7 DEF Unique
<1>9. TypeOK'
  BY <1>3 DEF TypeOK, Label, Rings
<1>10. SpinInv' /\ HolderInv'
  BY DEF TypeOK, SpinInv, SpinPc, HolderInv
<1>11. MutualExclusion' /\ Held' = Held
  BY DEF TypeOK, MutualExclusion, HasSem, Held
<1>12. DebtInv'
  BY <1>2, <1>4, <1>11 DEF TypeOK, DebtInv, DebtPc, SpinInv, SpinPc
<1>13. StateInv'
  BY DEF TypeOK, StateInv
<1>14. \A u \in Thread : pc'[u] \notin {"waiting", "enqueue", "wake"}
  BY DEF TypeOK, SpinInv, SpinPc
<1>15. RingInv' /\ WalkInv'
  BY <1>8, <1>14 DEF RingInv, WalkInv
<1> QED
  BY <1>9, <1>10, <1>11, <1>12, <1>13, <1>15

\* What scheduleInInterrupt does to the scheduler's variables.
LEMMA RescheduleEffect ==
  ASSUME TypeOK, NEW t \in Thread \cup {Wild}, curThread \in Thread, Reschedule(t)
  PROVE  /\ execTicks' \in [Thread -> 0 .. TotalTicks - 1]
         /\ curNode' \in Node /\ nextThread' \in Thread \cup {Wild}
         /\ state' \in [Thread -> State]
         /\ t = curThread => state' = state
         /\ t # curThread => \A x \in Thread :
              state'[x] = CASE x = curThread -> "Ready"
                            [] x = t /\ x # curThread -> "Running"
                            [] OTHER -> state[x]
<1> USE SchedulerAssumption DEF TypeOK
<1>1. execTicks' \in [Thread -> 0 .. TotalTicks - 1]
  BY DEF Reschedule, SliceOver
<1>2. CASE SliceOver
  BY <1>1, <1>2 DEF Reschedule, State
<1>3. CASE ~SliceOver
  BY <1>1, <1>3 DEF Reschedule
<1> QED
  BY <1>2, <1>3

\* scheduleInSemaphore chooses the next thread.
LEMMA SemScheduleKeeps ==
  ASSUME IInv, NEW t \in Thread, curThread = t, SemSchedule(t)
  PROVE  IInv'
<1> USE SchedulerAssumption, SyncAssumption DEF IInv, SemSchedule, Goto, MutexSame, WalkSame
<1>1. PICK u \in Thread \cup {Wild} :
        /\ Reschedule(u)
        /\ pc[t] = "schedule"
        /\ pc' = [pc EXCEPT ![t] = IF u = t THEN "spin" ELSE "switch"]
  OBVIOUS
<1>2. /\ execTicks' \in [Thread -> 0 .. TotalTicks - 1]
      /\ curNode' \in Node /\ nextThread' \in Thread \cup {Wild}
      /\ state' \in [Thread -> State]
      /\ u = t => state' = state
      /\ u # t => \A x \in Thread :
           state'[x] = CASE x = t -> "Ready" [] x = u /\ x # t -> "Running" [] OTHER -> state[x]
  BY <1>1, RescheduleEffect
<1>3. TypeOK'
  BY <1>1, <1>2 DEF TypeOK, Label
<1>4. SpinInv' /\ HolderInv'
  BY <1>1 DEF TypeOK, SpinInv, SpinPc, HolderInv
<1>5. MutualExclusion' /\ Held' = Held
  BY <1>1 DEF TypeOK, MutualExclusion, HasSem, Held
<1>6. DebtInv'
  BY <1>1, <1>5 DEF TypeOK, DebtInv, DebtPc
<1>7. StateInv'
  BY <1>1, <1>2 DEF TypeOK, StateInv
<1>8. RingInv' /\ WalkInv'
  BY <1>1 DEF TypeOK, RingInv, WalkInv
<1> QED
  BY <1>3, <1>4, <1>5, <1>6, <1>7, <1>8

\* The decrementer interrupt.
LEMMA SysTickKeeps ==
  ASSUME IInv, SysTick
  PROVE  IInv'
<1> USE SchedulerAssumption, SyncAssumption DEF IInv, SysTick, Tick, syncVars
<1>1. PICK u \in Thread \cup {Wild} : Reschedule(u) /\ curThread' = u
  OBVIOUS
<1>2. curThread \in Thread
  BY DEF TypeOK
<1>3. /\ execTicks' \in [Thread -> 0 .. TotalTicks - 1]
      /\ curNode' \in Node /\ nextThread' \in Thread \cup {Wild}
      /\ state' \in [Thread -> State]
      /\ u = curThread => state' = state
      /\ u # curThread => \A x \in Thread :
           state'[x] = CASE x = curThread -> "Ready"
                         [] x = u /\ x # curThread -> "Running"
                         [] OTHER -> state[x]
  BY <1>1, <1>2, RescheduleEffect
<1>4. TypeOK'
  BY <1>1, <1>3 DEF TypeOK
<1>5. StateInv'
  BY <1>1, <1>2, <1>3 DEF TypeOK, StateInv
<1> QED
  BY <1>4, <1>5 DEF MutualExclusion, HasSem, SpinInv, DebtInv, Held, HolderInv, RingInv, WalkInv

\* Every step of Sync, stuttering included, preserves the invariant.
LEMMA NextIInv == IInv /\ [Next]_vars => IInv'
<1> SUFFICES ASSUME IInv, [Next]_vars PROVE IInv'
  OBVIOUS
<1>1. CASE UNCHANGED vars
  <2> USE DEF IInv, vars, schedVars, syncVars
  <2>1. TypeOK' /\ MutualExclusion' /\ SpinInv' /\ HolderInv'
    BY <1>1 DEF TypeOK, MutualExclusion, HasSem, SpinInv, HolderInv
  <2>2. DebtInv' /\ StateInv'
    BY <1>1 DEF DebtInv, StateInv, Held, HasSem
  <2>3. RingInv' /\ WalkInv'
    BY <1>1 DEF RingInv, WalkInv
  <2> QED
    BY <2>1, <2>2, <2>3
<1>2. CASE SysTick
  BY <1>2, SysTickKeeps
<1>3. ASSUME NEW t \in Thread, Step(t) PROVE IInv'
  BY <1>3, MutexLockKeeps, AgainKeeps, MutexTrylockKeeps, MutexUnlockKeeps, MutexOwnKeeps,
     SpinLockKeeps, SemDecKeeps, SemGotKeeps, SuspendRotatesKeeps, SuspendRemoveKeeps, SuspendWaitingKeeps,
     SemEnqueueKeeps, SemScheduleKeeps, SemSwitchKeeps, TryDecKeeps, UnlockIncKeeps,
     UnlockWakeKeeps, UnlockDoneKeeps DEF Step, SemSpin, TrySpin, UnlockSpin
<1> QED
  BY <1>1, <1>2, <1>3 DEF Next

\* The inductive invariant holds in every reachable state.
THEOREM Invariance == Spec => []IInv
  BY InitIInv, NextIInv, PTL DEF Spec

-----------------------------------------------------------------------------
(* The theorems.                                                           *)

\* Every variable keeps its type; in particular the recursion depth stays in
\* its bounds and every pointer of the scheduler is a node or wild.
THEOREM TypeCorrect == Spec => []TypeOK
<1>1. IInv => TypeOK
  BY DEF IInv
<1> QED
  BY <1>1, Invariance, PTL

\* Mutex and Semaphore: at most one thread is between a successful decrement
\* and the increment that returns it, for any number of threads and ticks
\* anywhere.
THEOREM Exclusion == Spec => []MutualExclusion
<1>1. IInv => MutualExclusion
  BY DEF IInv
<1> QED
  BY <1>1, Invariance, PTL

\* No assertion of mutex.cpp fires.
THEOREM AssertsHold == Spec => []MutexAsserts
<1>1. IInv => MutexAsserts
  <2> SUFFICES ASSUME IInv PROVE MutexAsserts
    OBVIOUS
  <2>1. Len(ring[Sem]) \in Nat /\ Held \in 0 .. 1 /\ val \in Int
    BY SyncAssumption, LenProperties DEF IInv, TypeOK, Header, Held
  <2>2. \A t \in Thread : HasSem(t) => Held = 1
    BY DEF Held
  <2>3. ASSUME NEW t \in Thread, pc[t] \in {"own", "tryown"} PROVE holder = None /\ depth = 0
    BY <2>3 DEF IInv, TypeOK, HolderInv, MutualExclusion, HasSem
  <2>4. ASSUME NEW t \in Thread, pc[t] = "in" PROVE holder = t /\ depth > 0 /\ val < 1
    BY <2>1, <2>2, <2>4, SyncAssumption DEF IInv, TypeOK, HolderInv, HasSem, DebtInv
  <2> QED
    BY <2>1, <2>3, <2>4 DEF MutexAsserts, IInv, DebtInv
<1> QED
  BY <1>1, Invariance, PTL

\* Semaphore::_val, the waiters and the owner never add up to more than the one
\* permit the semaphore was initialised with.
THEOREM Conservation == Spec => []PermitsConserved
<1>1. IInv => PermitsConserved
  BY DEF IInv, DebtInv, Held, PermitsConserved
<1> QED
  BY <1>1, Invariance, PTL

\* Thread::_commList is in at most one ring, and unlinked when Semaphore::lock
\* links it to the waiter list.
THEOREM LinksSound == Spec => []LinkedOnce
<1>1. IInv => LinkedOnce
  BY DEF IInv, RingInv, Unique, LinkedOnce
<1> QED
  BY <1>1, Invariance, PTL

\* Mutex implements AbsLock.
THEOREM Refinement == Spec => ImplementsLock
<1>1. Init => Abs!Init
  BY DEF Init, Abs!Init
<1>2. IInv /\ [Next]_vars => [Abs!Next]_holder
  <2> SUFFICES ASSUME IInv, [Next]_vars, holder' # holder PROVE Abs!Next
    OBVIOUS
  <2> USE DEF MutexSame, Goto
  <2>1. PICK t \in Thread : Step(t)
    BY DEF Next, SysTick, syncVars, vars
  <2>2. \/ MutexUnlock(t) \/ MutexOwn(t, "own") \/ MutexOwn(t, "tryown")
    BY <2>1 DEF Step, MutexLock, Again, MutexTrylock, SemSpin, SpinLock, SemDec, SemGot,
       SuspendRotates, SuspendRemove, SuspendWaiting, SemEnqueue, SemSchedule, SemSwitch, TrySpin, TryDec,
       UnlockSpin, UnlockInc, UnlockWake, UnlockDone
  <2>3. CASE MutexUnlock(t)
    BY <2>3, SyncAssumption DEF MutexUnlock, IInv, HolderInv, Abs!Next, Abs!Release
  <2>4. CASE MutexOwn(t, "own") \/ MutexOwn(t, "tryown")
    <3>1. holder = None /\ holder' = t
      BY <2>4 DEF MutexOwn, IInv, TypeOK, HolderInv, MutualExclusion, HasSem
    <3> QED
      BY <3>1 DEF Abs!Next, Abs!Acquire
  <2> QED
    BY <2>2, <2>3, <2>4
<1> QED
  BY <1>1, <1>2, Invariance, PTL DEF Spec, ImplementsLock, Abs!Spec
=============================================================================
