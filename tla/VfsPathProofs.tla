--------------------------- MODULE VfsPathProofs ---------------------------
(***************************************************************************)
(* Proofs about module VfsPath, for paths of any length over any alphabet. *)
(*                                                                         *)
(* The invariant PathInv compares the buffer with the walk through the     *)
(* part of the path that was read.  While the function runs (Busy), what   *)
(* lies in front of the writing pointer is one of two strings: where a     *)
(* component Ended, the canonical path of the node reached; while one is   *)
(* Copied, the canonical path of its directory, a separator and the part   *)
(* of the name that was read.  Once a ".." climbed above the root the      *)
(* path may begin with a component "." (lead), which leads nowhere.        *)
(*                                                                         *)
(* The writer stays behind the reader because a separator is written only  *)
(* where one was read: with checkDot set and something written, wr < rd.   *)
(* The walk and the canonical path are recursive functions; what they are  *)
(* follows from module Recursion, and WalkNames says by induction over     *)
(* the directories that the canonical path leads where it should.          *)
(***************************************************************************)
EXTENDS VfsPath, SequenceTheorems, Recursion, TLAPS

-----------------------------------------------------------------------------
(* Walking a path                                                          *)

Reached == [dirs : Seq(Seq(Char)), name : Seq(Char), above : BOOLEAN]

LEMMA EnterType ==
  ASSUME NEW r \in Reached
  PROVE  Enter(r) \in Reached /\ Enter(r).name = <<>>
<1>1. r.dirs \in Seq(Seq(Char)) /\ r.name \in Seq(Char) /\ r.above \in BOOLEAN
  BY DEF Reached
<1>2. <<>> \in Seq(Char) /\ <<>> \in Seq(Seq(Char))
  BY EmptySeq
<1>3. Append(r.dirs, r.name) \in Seq(Seq(Char))
  BY <1>1, AppendProperties
<1>4. r.dirs # <<>> => SubSeq(r.dirs, 1, Len(r.dirs) - 1) \in Seq(Seq(Char))
  BY <1>1
<1>5. \A d \in Seq(Seq(Char)), a \in BOOLEAN : At(d, a) \in Reached /\ At(d, a).name = <<>>
  BY <1>2 DEF At, Reached
<1> QED BY <1>1, <1>2, <1>3, <1>4, <1>5 DEF Enter

LEMMA OnwardType ==
  ASSUME NEW r \in Reached, NEW c \in Char
  PROVE  Onward(r, c) \in Reached
<1>1. r.dirs \in Seq(Seq(Char)) /\ r.above \in BOOLEAN /\ Append(r.name, c) \in Seq(Char)
  BY AppendProperties DEF Reached
<1>2. [dirs |-> r.dirs, name |-> Append(r.name, c), above |-> r.above] \in Reached
  BY <1>1 DEF Reached
<1> QED BY <1>2, EnterType DEF Onward

(* The defining equation of Walked.                                          *)
LEMMA WalkedDef ==
  ASSUME NEW p \in Seq(Char)
  PROVE  /\ Walked(p) \in [0 .. Len(p) -> Reached]
         /\ Walked(p)[0] = AtRoot
         /\ \A k \in 1 .. Len(p) : Walked(p)[k] = Onward(Walked(p)[k - 1], p[k])
<1> DEFINE step == [x \in Reached \X (1 .. Len(p)) |-> Onward(x[1], p[x[2]])]
           F(f) == f = [k \in 0 .. Len(p) |-> IF k = 0 THEN AtRoot ELSE Onward(f[k - 1], p[k])]
<1>0. Len(p) \in Nat /\ \A k \in 1 .. Len(p) : p[k] \in Char
  BY LenProperties, ElementOfSeq
<1>1. AtRoot \in Reached
  BY EmptySeq DEF AtRoot, At, Reached
<1>2. step \in [Reached \X (1 .. Len(p)) -> Reached]
  BY <1>0, OnwardType
<1> HIDE DEF step
<1>3. PICK f : Solves(f, Reached, AtRoot, Len(p), step)
  <2>1. IsStep(Reached, Len(p), step)
    BY <1>2 DEF IsStep
  <2> QED BY <1>0, <1>1, <2>1, RecursionExists
<1>4. F(f)
  <2>1. ASSUME NEW k \in 0 .. Len(p) PROVE f[k] = IF k = 0 THEN AtRoot ELSE Onward(f[k - 1], p[k])
    <3>1. f[k] = IF k = 0 THEN AtRoot ELSE step[<<f[k - 1], k>>]
      BY <1>3 DEF Solves
    <3>2. k # 0 => step[<<f[k - 1], k>>] = Onward(f[k - 1], p[k])
      <4>1. k # 0 => <<f[k - 1], k>> \in Reached \X (1 .. Len(p))
        BY <1>0, <1>3 DEF Solves
      <4> QED BY <4>1 DEF step
    <3> QED BY <3>1, <3>2
  <2> QED BY <2>1, <1>3 DEF Solves
<1>5. Walked(p) = CHOOSE g : F(g)
  BY DEF Walked
<1>6. F(Walked(p))
  BY <1>4, <1>5
<1> DEFINE W == Walked(p)
<1>7. W = [k \in 0 .. Len(p) |-> IF k = 0 THEN AtRoot ELSE Onward(W[k - 1], p[k])]
  BY <1>6
<1> HIDE DEF W
<1> DEFINE T == {k \in 0 .. Len(p) : W[k] \in Reached}
<1>8. 0 \in T
  BY <1>7, <1>1
<1>9. ASSUME NEW k \in 1 .. Len(p), k - 1 \in T PROVE k \in T
  <2>1. W[k] = Onward(W[k - 1], p[k])
    BY <1>7
  <2> QED BY <2>1, <1>9, <1>0, OnwardType
<1>10. \A k \in 0 .. Len(p) : k \in T
  <2> HIDE DEF T
  <2> QED BY <1>8, <1>9, <1>0, UpTo
<1>11. W \in [0 .. Len(p) -> Reached]
  <2>1. \A k \in 0 .. Len(p) : W[k] \in Reached
    BY <1>10
  <2> QED BY <2>1, <1>7
<1>12. W[0] = AtRoot /\ \A k \in 1 .. Len(p) : W[k] = Onward(W[k - 1], p[k])
  BY <1>0, <1>7
<1> QED BY <1>11, <1>12 DEF W

(* What was walked of a path does not depend on what follows.                *)
LEMMA WalkedPrefix ==
  ASSUME NEW p \in Seq(Char), NEW q \in Seq(Char), NEW n \in Nat, n <= Len(p), n <= Len(q),
         \A i \in 1 .. n : p[i] = q[i]
  PROVE  Walked(p)[n] = Walked(q)[n]
<1> DEFINE T == {k \in 0 .. n : Walked(p)[k] = Walked(q)[k]}
<1>0. Len(p) \in Nat /\ Len(q) \in Nat
  BY LenProperties
<1>1. 0 \in T
  BY WalkedDef
<1>2. ASSUME NEW k \in 1 .. n, k - 1 \in T PROVE k \in T
  <2>1. k \in 1 .. Len(p) /\ k \in 1 .. Len(q)
    BY <1>0
  <2>2. /\ Walked(p)[k] = Onward(Walked(p)[k - 1], p[k])
        /\ Walked(q)[k] = Onward(Walked(q)[k - 1], q[k])
    BY <2>1, WalkedDef
  <2>3. Walked(p)[k - 1] = Walked(q)[k - 1] /\ p[k] = q[k]
    BY <1>2
  <2> QED BY <2>2, <2>3
<1>3. \A k \in 0 .. n : k \in T
  <2> HIDE DEF T
  <2> QED BY <1>1, <1>2, UpTo
<1> QED BY <1>3

-----------------------------------------------------------------------------
(* Writing a path                                                          *)

Str == Seq(Char)
Strs == Seq(Str)
NoStr == <<>>

LEMMA ChildType ==
  ASSUME NEW x \in Str, NEW y \in Str
  PROVE  Child(x, y) \in Str /\ NoStr \in Str /\ NoStr \in Strs
<1>1. <<Slash>> \in Seq(Char)
  BY DEF Char
<1>2. <<Slash>> \o y \in Seq(Char)
  BY <1>1, ConcatProperties DEF Str
<1> QED BY <1>2, ConcatProperties, EmptySeq DEF Str, Strs, Child, NoStr

LEMMA StrsElements ==
  ASSUME NEW d \in Strs
  PROVE  Len(d) \in Nat /\ \A k \in 1 .. Len(d) : d[k] \in Str
BY LenProperties, ElementOfSeq DEF Strs

(* The defining equation of Joined.                                          *)
LEMMA JoinedDef ==
  ASSUME NEW d \in Strs
  PROVE  /\ Joined(d) \in [0 .. Len(d) -> Str]
         /\ Joined(d)[0] = NoStr
         /\ \A k \in 1 .. Len(d) : Joined(d)[k] = Child(Joined(d)[k - 1], d[k])
<1> DEFINE step == [x \in Str \X (1 .. Len(d)) |-> Child(x[1], d[x[2]])]
           F(f) == f = [k \in 0 .. Len(d) |-> IF k = 0 THEN NoStr ELSE Child(f[k - 1], d[k])]
<1>0. Len(d) \in Nat /\ \A k \in 1 .. Len(d) : d[k] \in Str
  BY StrsElements
<1>1. NoStr \in Str
  BY EmptySeq DEF NoStr, Str
<1>2. ASSUME NEW x \in Str, NEW k \in 1 .. Len(d)
      PROVE  Child(x, d[k]) \in Str
  BY <1>0, ChildType
<1>3. PICK f : Solves(f, Str, NoStr, Len(d), step)
  <2>1. IsStep(Str, Len(d), step)
    BY <1>2 DEF IsStep
  <2> HIDE DEF step
  <2> QED BY <1>0, <1>1, <2>1, RecursionExists
<1>4. F(f)
  <2>1. ASSUME NEW k \in 0 .. Len(d) PROVE f[k] = IF k = 0 THEN NoStr ELSE Child(f[k - 1], d[k])
    <3>1. CASE k = 0
      BY <3>1, <1>3 DEF Solves
    <3>2. CASE k # 0
      <4>1. k \in 1 .. Len(d) /\ f[k - 1] \in Str
        BY <1>0, <1>3, <3>2 DEF Solves
      <4>2. f[k] = step[<<f[k - 1], k>>]
        BY <4>1, <1>3 DEF Solves
      <4>3. step[<<f[k - 1], k>>] = Child(f[k - 1], d[k])
        BY <4>1
      <4> QED BY <4>2, <4>3, <3>2
    <3> QED BY <3>1, <3>2
  <2> QED BY <2>1, <1>3 DEF Solves
<1>5. Joined(d) = CHOOSE g : F(g)
  BY DEF Joined, NoStr
<1>6. F(Joined(d))
  BY <1>4, <1>5
<1> DEFINE J == Joined(d)
<1>7. J = [k \in 0 .. Len(d) |-> IF k = 0 THEN NoStr ELSE Child(J[k - 1], d[k])]
  BY <1>6
<1> HIDE DEF J
<1>8. J[0] = NoStr /\ \A k \in 1 .. Len(d) : J[k] = Child(J[k - 1], d[k])
  BY <1>0, <1>7
<1> DEFINE T == {k \in 0 .. Len(d) : J[k] \in Str}
<1>9. 0 \in T
  BY <1>8, <1>1, <1>0
<1>10. ASSUME NEW k \in 1 .. Len(d), k - 1 \in T PROVE k \in T
  BY <1>8, <1>2, <1>10
<1>11. \A k \in 0 .. Len(d) : k \in T
  <2> HIDE DEF T
  <2> QED BY <1>9, <1>10, <1>0, UpTo
<1>12. J \in [0 .. Len(d) -> Str]
  <2>1. \A k \in 0 .. Len(d) : J[k] \in Str
    BY <1>11
  <2> QED BY <2>1, <1>7
<1> QED BY <1>8, <1>12 DEF J

LEMMA JoinedPrefix ==
  ASSUME NEW d \in Strs, NEW e \in Strs, NEW n \in Nat, n <= Len(d), n <= Len(e),
         \A i \in 1 .. n : d[i] = e[i]
  PROVE  Joined(d)[n] = Joined(e)[n]
<1> DEFINE T == {k \in 0 .. n : Joined(d)[k] = Joined(e)[k]}
<1>0. Len(d) \in Nat /\ Len(e) \in Nat
  BY StrsElements
<1>1. 0 \in T
  BY JoinedDef
<1>2. ASSUME NEW k \in 1 .. n, k - 1 \in T PROVE k \in T
  <2>1. k \in 1 .. Len(d) /\ k \in 1 .. Len(e)
    BY <1>0
  <2>2. /\ Joined(d)[k] = Child(Joined(d)[k - 1], d[k])
        /\ Joined(e)[k] = Child(Joined(e)[k - 1], e[k])
    BY <2>1, JoinedDef
  <2>3. Joined(d)[k - 1] = Joined(e)[k - 1] /\ d[k] = e[k]
    BY <1>2
  <2> QED BY <2>2, <2>3
<1>3. \A k \in 0 .. n : k \in T
  <2> HIDE DEF T
  <2> QED BY <1>1, <1>2, UpTo
<1> QED BY <1>3

(* The shortest path grows at its end: by a separator and a name.            *)
Stem(d) == IF d = <<>> THEN <<>> ELSE Canonical(d)

LEMMA CanonicalAppend ==
  ASSUME NEW d \in Strs, NEW x \in Str
  PROVE  /\ Append(d, x) \in Strs /\ Append(d, x) # <<>>
         /\ Canonical(d) \in Str /\ Stem(d) \in Str
         /\ Canonical(Append(d, x)) = Child(Stem(d), x)
<1> DEFINE e == Append(d, x)
           n == Len(d)
<1>0. n \in Nat
  BY StrsElements
<1>1. e \in Strs /\ Len(e) = n + 1 /\ e[n + 1] = x /\ \A i \in 1 .. n : e[i] = d[i]
  BY AppendProperties DEF Strs
<1>2. e # <<>>
  <2>1. Len(<<>>) = 0
    OBVIOUS
  <2> HIDE DEF e
  <2> QED BY <1>0, <1>1, <2>1
<1> HIDE DEF e
<1>3. Joined(e)[n + 1] = Child(Joined(e)[n], x)
  <2>1. n + 1 \in 1 .. Len(e) /\ (n + 1) - 1 = n
    BY <1>0, <1>1
  <2>2. Joined(e)[n + 1] = Child(Joined(e)[(n + 1) - 1], e[n + 1])
    BY <1>1, <2>1, JoinedDef
  <2> QED BY <1>1, <2>1, <2>2
<1>4. Joined(e)[n] = Joined(d)[n]
  <2>1. n <= Len(d) /\ n <= Len(e)
    BY <1>0, <1>1
  <2> QED BY <1>0, <1>1, <2>1, JoinedPrefix
<1>5. Joined(d)[n] = Stem(d)
  <2>1. CASE d = <<>>
    <3>1. n = 0
      BY <2>1
    <3>2. Joined(d)[0] = <<>>
      BY JoinedDef DEF NoStr
    <3> QED BY <2>1, <3>1, <3>2 DEF Stem
  <2>2. CASE d # <<>>
    BY <2>2 DEF Stem, Canonical
  <2> QED BY <2>1, <2>2
<1>6. Joined(d)[n] \in Str
  <2>1. n \in 0 .. Len(d)
    BY <1>0
  <2> QED BY <2>1, JoinedDef
<1>7. <<Slash>> \in Str
  BY DEF Char, Str
<1>8. Canonical(d) \in Str /\ Stem(d) \in Str
  BY <1>5, <1>6, <1>7 DEF Canonical
<1>9. Canonical(e) = Joined(e)[n + 1]
  BY <1>1, <1>2 DEF Canonical
<1> QED BY <1>1, <1>2, <1>3, <1>4, <1>5, <1>8, <1>9 DEF e

-----------------------------------------------------------------------------
(* The invariant of the loop                                               *)

Plain(x) == \A i \in 1 .. Len(x) : ~isSeparator(x[i])
Name == {x \in Str : Plain(x) /\ x \notin {<<>>, <<Dot>>, <<Dot, Dot>>}}
Leads == {<<>>, << <<Dot>> >>}

\* The string c lies in the buffer b in front of w, the writing pointer.
Lies(b, w, c) == w = Len(c) + 1 /\ \A i \in 1 .. Len(c) : b[i] = c[i]
Holds(c) == Lies(buf, wr, c)

\* How far what was read leads
Here == Walked(path)[rd - 1]

Ended(lead) ==
  /\ Here.name = <<>> \/ isComponentEnd(Cur)
  /\ checkDot \/ isComponentEnd(Cur)
  /\ lead # <<>> => Enter(Here).above
  /\ Enter(Here).dirs \in Seq(Name)
  /\ Holds(Canonical(lead \o Enter(Here).dirs))

Copying(lead) ==
  /\ ~checkDot
  /\ Here.name # <<>>
  /\ Here.name = <<Dot>> => ~isComponentEnd(Cur) /\ ~(Cur = Dot /\ isComponentEnd(buf[rd + 1]))
  /\ Here.name = <<Dot, Dot>> => ~isComponentEnd(Cur)
  /\ lead # <<>> => Here.above
  /\ Holds(Child(Stem(lead \o Here.dirs), Here.name))

Busy ==
  /\ path # <<>> /\ path[1] = Slash
  /\ 2 <= wr /\ wr <= rd /\ rd <= Len(path) + 1
  /\ checkDot /\ wr > 2 => wr < rd
  /\ \A i \in rd .. Len(path) : buf[i] = path[i]
  /\ buf[Len(path) + 1] = EOS
  /\ Here.dirs \in Seq(Name) /\ Plain(Here.name)
  /\ \E lead \in Leads : Ended(lead) \/ Copying(lead)

Written ==
  \E lead \in Leads :
    /\ lead # <<>> => AboveRoot(path)
    /\ Resolve(path) \in Seq(Name)
    /\ Holds(Canonical(lead \o Resolve(path)))

PathTypeOK ==
  /\ path \in Str
  /\ buf \in [1 .. Len(path) + 1 -> Char \cup {EOS}]
  /\ rd \in Nat /\ wr \in Nat
  /\ checkDot \in BOOLEAN /\ done \in BOOLEAN

PathInv ==
  /\ PathTypeOK
  /\ ~done => Busy
  /\ Compacted => Written

-----------------------------------------------------------------------------
(* Walking what was written                                                *)

LEMMA ChildShape ==
  ASSUME NEW x \in Str, NEW y \in Str
  PROVE  /\ Len(x) \in Nat /\ Len(y) \in Nat
         /\ Len(Child(x, y)) = Len(x) + 1 + Len(y)
         /\ \A i \in 1 .. Len(x) : Child(x, y)[i] = x[i]
         /\ Child(x, y)[Len(x) + 1] = Slash
         /\ \A j \in 1 .. Len(y) : Child(x, y)[Len(x) + 1 + j] = y[j]
<1> DEFINE z == <<Slash>> \o y
<1>1. <<Slash>> \in Seq(Char) /\ Len(<<Slash>>) = 1 /\ <<Slash>>[1] = Slash
  BY DEF Char
<1>2. x \in Seq(Char) /\ y \in Seq(Char) /\ Len(x) \in Nat /\ Len(y) \in Nat
  BY LenProperties DEF Str
<1>3. z \in Seq(Char) /\ Len(z) = Len(y) + 1 /\ z[1] = Slash /\ \A j \in 1 .. Len(y) : z[j + 1] = y[j]
  BY <1>1, <1>2, ConcatProperties
<1> HIDE DEF z
<1>4. Len(x \o z) = Len(x) + Len(z) /\ \A i \in 1 .. Len(x) + Len(z) : (x \o z)[i] = IF i <= Len(x) THEN x[i] ELSE z[i - Len(x)]
  BY <1>2, <1>3, ConcatProperties
<1>5. (x \o z)[Len(x) + 1] = Slash
  BY <1>2, <1>3, <1>4
<1>6. ASSUME NEW j \in 1 .. Len(y) PROVE (x \o z)[Len(x) + 1 + j] = y[j]
  <2>1. Len(x) + 1 + j \in 1 .. Len(x) + Len(z) /\ ~(Len(x) + 1 + j <= Len(x)) /\ Len(x) + 1 + j - Len(x) = j + 1
    BY <1>2, <1>3
  <2> QED BY <2>1, <1>3, <1>4
<1>7. Child(x, y) = x \o z
  BY DEF Child, z
<1>8. \A i \in 1 .. Len(x) : (x \o z)[i] = x[i]
  BY <1>2, <1>3, <1>4
<1>9. Len(x \o z) = Len(x) + 1 + Len(y)
  BY <1>2, <1>3, <1>4
<1> QED BY <1>2, <1>5, <1>6, <1>7, <1>8, <1>9

(* Two strings of the same length and characters are the same.               *)
LEMMA StrEqual ==
  ASSUME NEW x \in Str, NEW y \in Str, Len(x) = Len(y), \A i \in 1 .. Len(x) : x[i] = y[i]
  PROVE  x = y
BY SeqEqual DEF Str

(* The walk along a path that was extended by a name.                        *)
Upon(r, x) == [dirs |-> r.dirs, name |-> x, above |-> r.above]

LEMMA OnwardUpon ==
  ASSUME NEW r, NEW x, NEW c, ~isSeparator(c)
  PROVE  Onward(Upon(r, x), c) = Upon(r, Append(x, c))
BY DEF Onward, Upon

LEMMA WalkChild ==
  ASSUME NEW q \in Str, NEW x \in Str, Plain(x)
  PROVE  Walk(Child(q, x)) = Enter(Upon(Walk(q), x)) /\ Walk(q) \in Reached
<1> DEFINE c == Child(q, x)
           a == Len(q)
           W == Walked(c)
           T == {j \in 0 .. Len(x) : W[a + 1 + j] = Upon(Walk(q), SubSeq(x, 1, j))}
<1>1. /\ c \in Str /\ a \in Nat /\ Len(x) \in Nat /\ Len(c) = a + 1 + Len(x)
      /\ \A i \in 1 .. a : c[i] = q[i]
      /\ c[a + 1] = Slash
      /\ \A j \in 1 .. Len(x) : c[a + 1 + j] = x[j]
  BY ChildShape, ChildType
<1> HIDE DEF c
<1>2. /\ W \in [0 .. Len(c) -> Reached]
      /\ \A k \in 1 .. Len(c) : W[k] = Onward(W[k - 1], c[k])
  BY <1>1, WalkedDef DEF Str
<1>3. W[a] = Walked(q)[a]
  <2>1. a <= Len(c) /\ a <= Len(q)
    BY <1>1
  <2>2. c \in Seq(Char) /\ q \in Seq(Char)
    BY <1>1 DEF Str
  <2> QED BY <1>1, <2>1, <2>2, WalkedPrefix
<1>4. Walk(q) = Enter(W[a]) /\ W[a] \in Reached
  BY <1>1, <1>2, <1>3 DEF Walk
<1>5. Walk(q) \in Reached /\ Walk(q).name = <<>>
  BY <1>4, EnterType
<1>6. W[a + 1] = Walk(q)
  <2>1. a + 1 \in 1 .. Len(c) /\ (a + 1) - 1 = a
    BY <1>1
  <2>2. W[a + 1] = Onward(W[a], Slash)
    BY <1>1, <1>2, <2>1
  <2> QED BY <2>2, <1>4 DEF Onward, isSeparator
<1>7. 0 \in T
  <2>1. SubSeq(x, 1, 0) = <<>>
    BY DEF Str
  <2>2. Upon(Walk(q), <<>>) = Walk(q)
    BY <1>5 DEF Upon, Reached
  <2>3. a + 1 + 0 = a + 1 /\ 0 \in 0 .. Len(x)
    BY <1>1
  <2> QED BY <1>6, <2>1, <2>2, <2>3
<1>8. ASSUME NEW j \in 1 .. Len(x), j - 1 \in T PROVE j \in T
  <2>1. a + 1 + j \in 1 .. Len(c) /\ (a + 1 + j) - 1 = a + 1 + (j - 1)
    BY <1>1
  <2>2. W[a + 1 + j] = Onward(W[a + 1 + (j - 1)], x[j])
    BY <1>1, <1>2, <2>1
  <2>3. W[a + 1 + (j - 1)] = Upon(Walk(q), SubSeq(x, 1, j - 1))
    BY <1>8
  <2>4. ~isSeparator(x[j])
    BY DEF Plain
  <2>5. Append(SubSeq(x, 1, j - 1), x[j]) = SubSeq(x, 1, j)
    <3>1. x \in Seq(Char) /\ j \in Nat /\ j <= Len(x) /\ 1 <= j
      BY <1>1 DEF Str
    <3> QED BY <3>1, SubSeqRecursiveSecond
  <2>6. W[a + 1 + j] = Upon(Walk(q), Append(SubSeq(x, 1, j - 1), x[j]))
    <3> DEFINE y == SubSeq(x, 1, j - 1)
    <3>1. W[a + 1 + (j - 1)] = Upon(Walk(q), y)
      BY <2>3
    <3> HIDE DEF y
    <3>2. W[a + 1 + j] = Upon(Walk(q), Append(y, x[j]))
      BY <2>2, <2>4, <3>1, OnwardUpon
    <3> QED BY <3>2 DEF y
  <2>7. W[a + 1 + j] = Upon(Walk(q), SubSeq(x, 1, j))
    BY <2>5, <2>6
  <2> QED BY <2>7, <1>1
<1>9. \A j \in 0 .. Len(x) : j \in T
  <2> HIDE DEF T
  <2> QED BY <1>1, <1>7, <1>8, UpTo
<1>10. Len(x) \in T
  BY <1>1, <1>9
<1>11. SubSeq(x, 1, Len(x)) = x
  BY SubSeqFull DEF Str
<1>12. W[Len(c)] = Upon(Walk(q), x)
  BY <1>1, <1>10, <1>11
<1> QED BY <1>5, <1>12 DEF Walk, c

LEMMA NameType ==
  ASSUME NEW d \in Seq(Name)
  PROVE  d \in Strs
<1>1. Name \subseteq Str
  BY DEF Name
<1> QED BY <1>1, SeqMonotonic DEF Strs

(* A name put behind a sequence put behind another.                          *)
LEMMA ConcatAppend ==
  ASSUME NEW S, NEW a \in Seq(S), NEW b \in Seq(S), NEW x \in S
  PROVE  a \o Append(b, x) = Append(a \o b, x)
OBVIOUS

LEMMA LeadType ==
  ASSUME NEW lead \in Leads
  PROVE  lead \in Strs /\ << >> \in Strs /\ << <<Dot>> >> = Append(<<>>, <<Dot>>) /\ <<Dot>> \in Str /\ << >> \in Str /\ Plain(<<Dot>>) /\ Plain(<< >>)
<1>1. <<Dot>> \in Str /\ << >> \in Str
  BY DEF Str, Char
<1>2. << <<Dot>> >> \in Strs /\ << >> \in Strs
  BY <1>1 DEF Strs
<1>3. Plain(<<Dot>>) /\ Plain(<< >>)
  BY DEF Plain, isSeparator, Dot, Slash, Backslash
<1> QED BY <1>1, <1>2, <1>3 DEF Leads

LEMMA LeadConcat ==
  ASSUME NEW lead \in Leads, NEW d \in Strs
  PROVE  lead \o d \in Strs
BY LeadType, ConcatProperties DEF Strs

(* A path made of names, behind a "." or not, leads along these names.       *)
LEMMA WalkNames ==
  ASSUME NEW lead \in Leads, NEW d \in Seq(Name)
  PROVE  Walk(Stem(lead \o d)) = At(d, FALSE)
<1> DEFINE Front(n) == SubSeq(d, 1, n)
           T == {n \in 0 .. Len(d) : Walk(Stem(lead \o Front(n))) = At(Front(n), FALSE)}
<1>0. Len(d) \in Nat /\ d \in Strs /\ \A k \in 1 .. Len(d) : d[k] \in Name
  BY NameType, LenProperties, ElementOfSeq
<1>1. Walk(<< >>) = AtRoot
  <2>1. << >> \in Seq(Char) /\ Len(<< >>) = 0
    BY EmptySeq
  <2>2. Walked(<< >>)[0] = AtRoot
    BY <2>1, WalkedDef
  <2> QED BY <2>1, <2>2 DEF Walk, Enter, AtRoot, At
<1>2. 0 \in T
  <2>1. Front(0) = << >>
    OBVIOUS
  <2>2. lead \o << >> = lead
    BY LeadType DEF Strs
  <2> HIDE DEF Front
  <2>3. CASE lead = << >>
    <3>1. Walk(Stem(lead \o Front(0))) = At(Front(0), FALSE)
      BY <1>1, <2>1, <2>2, <2>3 DEF Stem, AtRoot
    <3>2. 0 \in 0 .. Len(d)
      BY <1>0
    <3> QED BY <3>1, <3>2
  <2>4. CASE lead = << <<Dot>> >>
    <3>1. Stem(lead) = Child(<< >>, <<Dot>>)
      <4>1. lead = Append(<< >>, <<Dot>>) /\ lead # << >>
        BY <2>4, LeadType
      <4>2. Canonical(Append(<< >>, <<Dot>>)) = Child(Stem(<< >>), <<Dot>>)
        BY LeadType, CanonicalAppend
      <4> QED BY <4>1, <4>2 DEF Stem
    <3>2. Walk(Child(<< >>, <<Dot>>)) = Enter(Upon(AtRoot, <<Dot>>))
      BY <1>1, LeadType, WalkChild
    <3>3. Enter(Upon(AtRoot, <<Dot>>)) = At(<< >>, FALSE)
      BY DEF Enter, Upon, AtRoot, At
    <3>4. Walk(Stem(lead \o Front(0))) = At(Front(0), FALSE)
      BY <2>1, <2>2, <3>1, <3>2, <3>3
    <3>5. 0 \in 0 .. Len(d)
      BY <1>0
    <3> QED BY <3>4, <3>5
  <2> QED BY <2>3, <2>4 DEF Leads
<1>3. ASSUME NEW n \in 1 .. Len(d), n - 1 \in T PROVE n \in T
  <2> DEFINE g == Front(n - 1) x == d[n]
  <2>1. g \in Seq(Name) /\ g \in Strs /\ x \in Name /\ x \in Str /\ Plain(x)
    <3>1. g \in Seq(Name)
      BY <1>0
    <3> QED BY <3>1, <1>0, NameType DEF Name
  <2>2. Front(n) = Append(g, x)
    <3>1. n \in 1 .. Len(d) /\ 1 \in 1 .. Len(d)
      BY <1>0
    <3> QED BY <1>0, <3>1, SubSeqRecursiveSecond
  <2>3. Walk(Stem(lead \o g)) = At(g, FALSE)
    BY <1>3
  <2>4. lead \o Append(g, x) = Append(lead \o g, x)
    BY <2>1, LeadType, ConcatAppend DEF Strs
  <2> HIDE DEF g, x
  <2>5. lead \o g \in Strs
    BY <2>1, LeadConcat
  <2>6. Stem(Append(lead \o g, x)) = Child(Stem(lead \o g), x) /\ Stem(lead \o g) \in Str
    BY <2>1, <2>5, CanonicalAppend DEF Stem
  <2>7. Walk(Child(Stem(lead \o g), x)) = Enter(Upon(At(g, FALSE), x))
    BY <2>1, <2>3, <2>6, WalkChild
  <2>8. Enter(Upon(At(g, FALSE), x)) = At(Append(g, x), FALSE)
    BY <2>1 DEF Enter, Upon, At, Name
  <2>9. Walk(Stem(lead \o Front(n))) = At(Front(n), FALSE)
    BY <2>2, <2>4, <2>6, <2>7, <2>8
  <2> HIDE DEF Front
  <2> QED BY <2>9, <1>0
<1>4. \A n \in 0 .. Len(d) : n \in T
  <2> HIDE DEF T
  <2> QED BY <1>0, <1>2, <1>3, UpTo
<1>5. Front(Len(d)) = d
  BY SubSeqFull
<1> HIDE DEF Front
<1>6. Len(d) \in T
  <2>1. Len(d) \in 0 .. Len(d)
    BY <1>0
  <2> HIDE DEF T
  <2> QED BY <1>4, <2>1
<1> QED BY <1>5, <1>6

LEMMA ResolveCanonical ==
  ASSUME NEW lead \in Leads, NEW d \in Seq(Name)
  PROVE  Resolve(Canonical(lead \o d)) = d
<1>1. Walk(Stem(lead \o d)).dirs = d
  BY WalkNames DEF At
<1>2. CASE lead \o d # << >>
  BY <1>1, <1>2 DEF Stem, Resolve
<1>3. CASE lead \o d = << >>
  <2>1. Canonical(lead \o d) = Child(<< >>, << >>)
    BY <1>3 DEF Canonical, Child
  <2>2. Walk(Child(<< >>, << >>)) = Enter(Upon(Walk(<< >>), << >>))
    BY LeadType, WalkChild
  <2>3. Walk(<< >>) = Walk(Stem(lead \o d))
    BY <1>3 DEF Stem
  <2> QED BY <1>1, <2>1, <2>2, <2>3 DEF Resolve, Enter, Upon, At
<1> QED BY <1>2, <1>3

-----------------------------------------------------------------------------
(* The loop keeps the invariant                                            *)

LEMMA HereFacts ==
  ASSUME PathTypeOK, Busy
  PROVE  /\ Len(path) \in Nat /\ rd \in 2 .. Len(path) + 1
         /\ Here \in Reached
         /\ Cur # EOS => /\ rd \in 2 .. Len(path) /\ Cur = path[rd] /\ Cur \in Char
                         /\ Walked(path)[rd] = Onward(Here, Cur) /\ Walked(path)[rd] \in Reached
         /\ Cur = EOS => rd = Len(path) + 1
<1>1. path \in Seq(Char) /\ Len(path) \in Nat /\ \A i \in 1 .. Len(path) : path[i] \in Char
  BY LenProperties, ElementOfSeq DEF PathTypeOK, Str
<1>2. rd \in 2 .. Len(path) + 1
  BY <1>1 DEF Busy, PathTypeOK
<1>3. /\ Walked(path) \in [0 .. Len(path) -> Reached]
      /\ \A k \in 1 .. Len(path) : Walked(path)[k] = Onward(Walked(path)[k - 1], path[k])
  BY <1>1, WalkedDef
<1>4. Here \in Reached
  <2>1. rd - 1 \in 0 .. Len(path)
    BY <1>1, <1>2
  <2> QED BY <2>1, <1>3 DEF Here
<1>5. EOS \notin Char
  BY VfsPathAssumption DEF Char, EOS, Slash, Backslash, Dot
<1>6. rd \in 2 .. Len(path) => Cur = path[rd]
  BY <1>1, <1>2 DEF Busy, Cur
<1>7. rd = Len(path) + 1 => Cur = EOS
  BY DEF Busy, Cur
<1>8. rd \in 2 .. Len(path) \/ rd = Len(path) + 1
  BY <1>1, <1>2
<1>9. CASE rd \in 2 .. Len(path)
  <2>1. rd \in 1 .. Len(path) /\ rd \in 0 .. Len(path)
    BY <1>1, <1>9
  <2>2. Walked(path)[rd] = Onward(Here, path[rd]) /\ Walked(path)[rd] \in Reached
    BY <2>1, <1>3 DEF Here
  <2>3. path[rd] \in Char
    BY <1>1, <2>1
  <2>4. Cur # EOS
    BY <1>5, <1>6, <1>9, <2>3
  <2> QED BY <1>1, <1>2, <1>4, <1>6, <1>9, <2>2, <2>3, <2>4
<1>10. CASE rd = Len(path) + 1
  BY <1>1, <1>2, <1>4, <1>7, <1>10
<1> QED BY <1>8, <1>9, <1>10

(* What the walk makes of a component that is empty, a name or dots.         *)
LEMMA Entering ==
  ASSUME NEW r \in Reached
  PROVE  /\ r.name = << >> => Enter(r) = r
         /\ r.name \in {<< >>, <<Dot>>} => Enter(r).dirs = r.dirs /\ Enter(r).above = r.above
         /\ r.name \notin {<< >>, <<Dot>>, <<Dot, Dot>>} =>
              Enter(r).dirs = Append(r.dirs, r.name) /\ Enter(r).above = r.above
         /\ r.name = <<Dot, Dot>> /\ r.dirs = << >> => Enter(r).dirs = << >> /\ Enter(r).above = TRUE
         /\ r.name = <<Dot, Dot>> /\ r.dirs # << >> =>
              Enter(r).dirs = SubSeq(r.dirs, 1, Len(r.dirs) - 1) /\ Enter(r).above = r.above
<1>1. << >> # <<Dot, Dot>> /\ <<Dot>> # <<Dot, Dot>>
  OBVIOUS
<1>2. r = [dirs |-> r.dirs, name |-> r.name, above |-> r.above]
  BY DEF Reached
<1>3. r.name = << >> => Enter(r) = r
  BY <1>2 DEF Enter, At
<1>4. r.name = <<Dot, Dot>> => r.name \notin {<< >>, <<Dot>>}
  BY <1>1
<1>5. \A d, a : At(d, a).dirs = d /\ At(d, a).above = a
  BY DEF At
<1> HIDE DEF At
<1>6. r.name \in {<< >>, <<Dot>>} => Enter(r).dirs = r.dirs /\ Enter(r).above = r.above
  BY <1>5 DEF Enter
<1>7. r.name \notin {<< >>, <<Dot>>, <<Dot, Dot>>} =>
        Enter(r).dirs = Append(r.dirs, r.name) /\ Enter(r).above = r.above
  BY <1>5 DEF Enter
<1>8. r.name = <<Dot, Dot>> /\ r.dirs = << >> => Enter(r).dirs = << >> /\ Enter(r).above = TRUE
  BY <1>4, <1>5 DEF Enter
<1>9. r.name = <<Dot, Dot>> /\ r.dirs # << >> =>
        Enter(r).dirs = SubSeq(r.dirs, 1, Len(r.dirs) - 1) /\ Enter(r).above = r.above
  BY <1>4, <1>5 DEF Enter
<1> QED BY <1>3, <1>6, <1>7, <1>8, <1>9

(* At the end of a component the buffer holds what the walk has reached.     *)
Settled(lead) ==
  /\ lead # <<>> => Enter(Here).above
  /\ Enter(Here).dirs \in Seq(Name)
  /\ Holds(Canonical(lead \o Enter(Here).dirs))

LEMMA Closing ==
  ASSUME PathTypeOK, Busy, isComponentEnd(Cur)
  PROVE  \E lead \in Leads : Settled(lead)
<1>1. Here \in Reached
  BY HereFacts
<1>2. PICK lead \in Leads : Ended(lead) \/ Copying(lead)
  BY DEF Busy
<1>3. CASE Ended(lead)
  BY <1>2, <1>3 DEF Ended, Settled
<1>4. CASE Copying(lead)
  <2>1. Here.name \notin {<< >>, <<Dot>>, <<Dot, Dot>>}
    BY <1>4 DEF Copying
  <2>2. Here.name \in Name
    <3>1. Here.name \in Str
      BY <1>1 DEF Reached, Str
    <3>2. Plain(Here.name)
      BY DEF Busy
    <3> QED BY <2>1, <3>1, <3>2 DEF Name
  <2>3. Enter(Here).dirs = Append(Here.dirs, Here.name) /\ Enter(Here).above = Here.above
    BY <1>1, <2>1, Entering
  <2>4. Here.dirs \in Seq(Name)
    BY DEF Busy
  <2>5. Append(Here.dirs, Here.name) \in Seq(Name)
    BY <2>2, <2>4, AppendProperties
  <2>6. Holds(Canonical(lead \o Append(Here.dirs, Here.name)))
    <3>1. Here.dirs \in Strs /\ Here.name \in Str /\ lead \in Strs
      BY <2>2, <2>4, NameType, LeadType DEF Name
    <3>2. lead \o Append(Here.dirs, Here.name) = Append(lead \o Here.dirs, Here.name)
      BY <3>1, ConcatAppend DEF Strs
    <3>3. Canonical(Append(lead \o Here.dirs, Here.name)) = Child(Stem(lead \o Here.dirs), Here.name)
      BY <3>1, LeadConcat, CanonicalAppend
    <3>4. Holds(Child(Stem(lead \o Here.dirs), Here.name))
      BY <1>4 DEF Copying
    <3> QED BY <3>2, <3>3, <3>4
  <2>7. lead # << >> => Here.above
    BY <1>4 DEF Copying
  <2> QED BY <1>2, <2>3, <2>5, <2>6, <2>7 DEF Settled
<1> QED BY <1>2, <1>3, <1>4

LEMMA SeparatorStep ==
  ASSUME PathInv, Separator
  PROVE  PathInv'
<1>1. ~done /\ Busy /\ PathTypeOK /\ Cur # EOS /\ isSeparator(Cur)
  BY DEF PathInv, Separator, Reading
<1>2. rd' = rd + 1 /\ checkDot' = TRUE /\ path' = path /\ buf' = buf /\ wr' = wr /\ done' = done
  BY DEF Separator
<1>3. /\ Len(path) \in Nat /\ rd \in 2 .. Len(path) /\ Here \in Reached
      /\ Walked(path)[rd] = Onward(Here, Cur)
  BY <1>1, HereFacts
<1>4. PICK lead \in Leads : Settled(lead)
  BY <1>1, Closing DEF isComponentEnd
<1>5. Here' = Enter(Here)
  <2>1. Here' = Walked(path)[rd]
    <3>1. (rd + 1) - 1 = rd
      BY <1>3
    <3> QED BY <1>2, <3>1 DEF Here
  <2> QED BY <1>1, <1>3, <2>1 DEF Onward
<1>6. Here' \in Reached /\ Here'.name = << >> /\ Enter(Here') = Here'
  BY <1>3, <1>5, EnterType, Entering
<1>7. Ended(lead)'
  <2>1. Lies(buf', wr', Canonical(lead \o Enter(Here').dirs))
    BY <1>2, <1>4, <1>5, <1>6 DEF Settled, Holds
  <2> QED BY <1>2, <1>4, <1>5, <1>6, <2>1 DEF Ended, Settled, Holds
<1>8. Busy'
  <2>1. Here'.dirs \in Seq(Name) /\ Plain(Here'.name)
    BY <1>4, <1>5, <1>6, LeadType DEF Settled
  <2>2. /\ 2 <= wr' /\ wr' <= rd' /\ rd' <= Len(path') + 1 /\ wr' < rd'
        /\ \A i \in rd' .. Len(path') : buf'[i] = path'[i]
    BY <1>1, <1>2, <1>3 DEF Busy, PathTypeOK
  <2>3. path' # <<>> /\ path'[1] = Slash /\ buf'[Len(path') + 1] = EOS
    BY <1>1, <1>2 DEF Busy
  <2>4. \E l \in Leads : Ended(l)' \/ Copying(l)'
    BY <1>4, <1>7
  <2> QED BY <2>1, <2>2, <2>3, <2>4 DEF Busy
<1>9. PathTypeOK'
  BY <1>1, <1>2 DEF PathTypeOK
<1> QED BY <1>1, <1>2, <1>8, <1>9 DEF PathInv, Compacted

(* In front of a component the buffer holds the names so far.                *)
Ready(lead) ==
  /\ lead # <<>> => Here.above
  /\ Holds(Canonical(lead \o Here.dirs))

LEMMA Opening ==
  ASSUME PathTypeOK, Busy, NEW lead \in Leads, Ended(lead), ~isComponentEnd(Cur)
  PROVE  Here.name = << >> /\ checkDot /\ Ready(lead)
<1>1. Here \in Reached
  BY HereFacts
<1>2. Here.name = << >> /\ checkDot
  BY DEF Ended, PathTypeOK
<1>3. Enter(Here) = Here
  BY <1>1, <1>2, Entering
<1> QED BY <1>2, <1>3 DEF Ended, Ready

LEMMA DotIsChar == Dot \in Char /\ Dot # EOS /\ ~isComponentEnd(Dot) /\ ~isSeparator(Dot) /\ Slash \in Char
BY DEF Char, Dot, EOS, isComponentEnd, isSeparator, Slash, Backslash

(* Two dots read on from the front of a component.                           *)
LEMMA FirstDot ==
  ASSUME PathTypeOK, Busy, checkDot, Cur = Dot
  PROVE  /\ Here.name = << >> /\ Here \in Reached /\ Here.dirs \in Seq(Name)
         /\ \E lead \in Leads : Ready(lead)
         /\ rd \in 2 .. Len(path) /\ Len(path) \in Nat
         /\ Walked(path)[rd] = Upon(Here, <<Dot>>)
         /\ Walked(path)[rd] \in Reached
<1>1. PICK lead \in Leads : Ended(lead) \/ Copying(lead)
  BY DEF Busy
<1>2. Ended(lead)
  BY <1>1 DEF Copying
<1>3. Here.name = << >> /\ Ready(lead)
  BY <1>2, DotIsChar, Opening
<1>4. /\ Here \in Reached /\ rd \in 2 .. Len(path) /\ Len(path) \in Nat
      /\ Walked(path)[rd] = Onward(Here, Dot) /\ Walked(path)[rd] \in Reached
  BY HereFacts, DotIsChar
<1>5. Onward(Here, Dot) = Upon(Here, Append(<< >>, Dot))
  BY <1>3, DotIsChar DEF Onward, Upon
<1>6. Append(<< >>, Dot) = <<Dot>>
  OBVIOUS
<1>7. Here.dirs \in Seq(Name)
  BY DEF Busy
<1> QED BY <1>1, <1>3, <1>4, <1>5, <1>6, <1>7

LEMMA SecondDot ==
  ASSUME PathTypeOK, Busy, checkDot, Cur = Dot, buf[rd + 1] = Dot
  PROVE  /\ rd + 1 \in 2 .. Len(path)
         /\ Walked(path)[rd + 1] = Upon(Here, <<Dot, Dot>>)
         /\ Walked(path)[rd + 1] \in Reached
<1>1. /\ rd \in 2 .. Len(path) /\ Len(path) \in Nat /\ Walked(path)[rd] = Upon(Here, <<Dot>>)
  BY FirstDot
<1>2. rd + 1 \in 2 .. Len(path)
  <2>1. rd + 1 # Len(path) + 1
    BY DotIsChar DEF Busy
  <2> QED BY <1>1, <2>1
<1>3. path[rd + 1] = Dot
  BY <1>1, <1>2 DEF Busy
<1>4. /\ Walked(path)[rd + 1] = Onward(Walked(path)[rd], Dot)
      /\ Walked(path)[rd + 1] \in Reached
  <2>1. path \in Seq(Char)
    BY DEF PathTypeOK, Str
  <2>2. rd + 1 \in 1 .. Len(path) /\ rd + 1 \in 0 .. Len(path) /\ (rd + 1) - 1 = rd
    BY <1>1, <1>2
  <2> QED BY <1>3, <2>1, <2>2, WalkedDef
<1>5. Onward(Upon(Here, <<Dot>>), Dot) = Upon(Here, Append(<<Dot>>, Dot))
  BY DotIsChar, OnwardUpon
<1>6. Append(<<Dot>>, Dot) = <<Dot, Dot>>
  <2> DEFINE y == Append(<<Dot>>, Dot) z == <<Dot, Dot>>
  <2>1. y \in Seq(Char) /\ z \in Seq(Char)
    BY DotIsChar
  <2>2. Len(y) = 2 /\ Len(z) = 2 /\ y[1] = Dot /\ y[2] = Dot /\ z[1] = Dot /\ z[2] = Dot
    OBVIOUS
  <2> HIDE DEF y, z
  <2>3. \A i \in 1 .. Len(y) : y[i] = z[i]
    <3>1. \A i \in 1 .. 2 : i = 1 \/ i = 2
      OBVIOUS
    <3> QED BY <2>2, <3>1
  <2> QED BY <2>1, <2>2, <2>3, SeqEqual DEF y, z
<1> QED BY <1>1, <1>2, <1>4, <1>5, <1>6

LEMMA DotsPlain == Plain(<<Dot>>) /\ Plain(<<Dot, Dot>>) /\ <<Dot, Dot>> # << >> /\ <<Dot>> # << >>
BY DEF Plain, isSeparator, Dot, Slash, Backslash

LEMMA SkipDotStep ==
  ASSUME PathInv, SkipDot
  PROVE  PathInv'
<1>1. ~done /\ Busy /\ PathTypeOK /\ checkDot /\ Cur = Dot /\ isComponentEnd(buf[rd + 1])
  BY DEF PathInv, SkipDot, Reading, AtDot
<1>2. rd' = rd + 1 /\ checkDot' = checkDot /\ path' = path /\ buf' = buf /\ wr' = wr /\ done' = done
  BY DEF SkipDot
<1>3. /\ Here \in Reached /\ Here.dirs \in Seq(Name) /\ Len(path) \in Nat /\ rd \in 2 .. Len(path)
      /\ Walked(path)[rd] = Upon(Here, <<Dot>>) /\ Walked(path)[rd] \in Reached
  BY <1>1, FirstDot
<1>4. PICK lead \in Leads : Ready(lead)
  BY <1>1, FirstDot
<1>5. Here' = Upon(Here, <<Dot>>) /\ Here' \in Reached
  <2>1. (rd + 1) - 1 = rd
    BY <1>3
  <2> QED BY <1>2, <1>3, <2>1 DEF Here
<1>6. Here'.name = <<Dot>> /\ Here'.dirs = Here.dirs /\ Here'.above = Here.above
  BY <1>5 DEF Upon
<1>7. Enter(Here').dirs = Here.dirs /\ Enter(Here').above = Here.above
  BY <1>5, <1>6, Entering
<1>8. Ended(lead)'
  <2>1. Lies(buf', wr', Canonical(lead \o Enter(Here').dirs))
    BY <1>2, <1>4, <1>7 DEF Ready, Holds
  <2>2. isComponentEnd(Cur')
    BY <1>1, <1>2 DEF Cur
  <2>3. lead # << >> => Enter(Here').above
    BY <1>4, <1>7 DEF Ready
  <2> QED BY <1>3, <1>7, <2>1, <2>2, <2>3 DEF Ended, Holds
<1>9. Busy'
  <2>1. Here'.dirs \in Seq(Name) /\ Plain(Here'.name)
    BY <1>3, <1>6, DotsPlain
  <2>2. /\ 2 <= wr' /\ wr' <= rd' /\ rd' <= Len(path') + 1 /\ wr' < rd'
        /\ \A i \in rd' .. Len(path') : buf'[i] = path'[i]
    BY <1>1, <1>2, <1>3 DEF Busy, PathTypeOK
  <2>3. path' # <<>> /\ path'[1] = Slash /\ buf'[Len(path') + 1] = EOS
    BY <1>1, <1>2 DEF Busy
  <2>4. \E l \in Leads : Ended(l)' \/ Copying(l)'
    BY <1>4, <1>8
  <2> QED BY <2>1, <2>2, <2>3, <2>4 DEF Busy
<1>10. PathTypeOK'
  BY <1>1, <1>2 DEF PathTypeOK
<1> QED BY <1>1, <1>2, <1>9, <1>10 DEF PathInv, Compacted

(* The names in the buffer, a leading "." among them.                        *)
Named(d) == \E lead \in Leads, e \in Seq(Name) : d = lead \o e

LEMMA NamedLast ==
  ASSUME NEW d, Named(d), d # << >>
  PROVE  \E g, x : /\ Named(g) /\ g \in Strs /\ x \in Str /\ Plain(x) /\ Len(x) \in Nat /\ Len(x) > 0
                  /\ d = Append(g, x)
<1>1. PICK lead \in Leads, e \in Seq(Name) : d = lead \o e
  BY DEF Named
<1>2. CASE e = << >>
  <2>1. d = lead
    BY <1>1, <1>2, LeadType DEF Strs
  <2>2. d = Append(<< >>, <<Dot>>)
    BY <2>1, LeadType DEF Leads
  <2>3. Named(<< >>)
    <3>1. << >> \in Leads /\ << >> \in Seq(Name) /\ << >> = << >> \o << >>
      BY DEF Leads
    <3> QED BY <3>1 DEF Named
  <2>4. << >> \in Strs /\ <<Dot>> \in Str /\ Plain(<<Dot>>) /\ Len(<<Dot>>) = 1
    BY LeadType
  <2> DEFINE g == << >> x == <<Dot>>
  <2>5. /\ Named(g) /\ g \in Strs /\ x \in Str /\ Plain(x) /\ Len(x) \in Nat /\ Len(x) > 0
        /\ d = Append(g, x)
    BY <2>2, <2>3, <2>4
  <2> HIDE DEF g, x
  <2> QED BY <2>5
<1>3. CASE e # << >>
  <2> DEFINE n == Len(e)
             g == SubSeq(e, 1, n - 1)
             x == e[n]
  <2>1. n \in Nat /\ n > 0
    BY <1>3
  <2>2. e = Append(g, x) /\ g \in Seq(Name) /\ x \in Name
    BY <1>3, <2>1
  <2> HIDE DEF g, x
  <2>3. x \in Str /\ Plain(x) /\ x # << >>
    BY <2>2 DEF Name
  <2>4. Len(x) \in Nat /\ Len(x) > 0
    BY <2>3 DEF Str
  <2>5. d = Append(lead \o g, x)
    <3>1. g \in Strs /\ lead \in Strs
      BY <2>2, NameType, LeadType
    <3> QED BY <1>1, <2>2, <2>3, <3>1, ConcatAppend DEF Strs
  <2>6. Named(lead \o g) /\ lead \o g \in Strs
    BY <2>2, NameType, LeadConcat DEF Named
  <2> QED BY <2>3, <2>4, <2>5, <2>6
<1> QED BY <1>2, <1>3

LEMMA CanonicalLength ==
  ASSUME NEW d, Named(d)
  PROVE  /\ Canonical(d) \in Str /\ Len(Canonical(d)) \in Nat
         /\ d = << >> => Canonical(d) = <<Slash>> /\ Len(Canonical(d)) = 1 /\ Canonical(d)[1] = Slash
         /\ d # << >> => Len(Canonical(d)) >= 2
<1>1. CASE d = << >>
  BY <1>1 DEF Canonical, Str, Char
<1>2. CASE d # << >>
  <2>1. PICK g, x : /\ Named(g) /\ g \in Strs /\ x \in Str /\ Plain(x) /\ Len(x) \in Nat /\ Len(x) > 0
                    /\ d = Append(g, x)
    BY <1>2, NamedLast
  <2>2. Canonical(d) = Child(Stem(g), x) /\ Stem(g) \in Str
    BY <2>1, CanonicalAppend
  <2>3. Len(Stem(g)) \in Nat /\ Len(Child(Stem(g), x)) = Len(Stem(g)) + 1 + Len(x)
    BY <2>1, <2>2, ChildShape
  <2>4. Child(Stem(g), x) \in Str
    BY <2>1, <2>2, ChildType
  <2>5. Len(Canonical(d)) \in Nat /\ Len(Canonical(d)) >= 2
    BY <2>1, <2>2, <2>3
  <2> QED BY <1>2, <2>2, <2>4, <2>5
<1> QED BY <1>1, <1>2

(* The search for the separator finds the one in front of the last name:     *)
(* what lies in front of it is the path without that name.                   *)
LEMMA TakeBack ==
  ASSUME NEW g, Named(g), g \in Strs, NEW x \in Str, Plain(x), Len(x) > 0, Holds(Child(Stem(g), x))
  PROVE  Lies(buf, LastSeparator, Canonical(g)) /\ LastSeparator \in Nat /\ LastSeparator >= 2 /\ LastSeparator < wr
<1> DEFINE t == Stem(g) c == Child(t, x) a == Len(t)
           back == {k \in StartPoint + 1 .. wr - 1 : buf[k] = Slash}
<1>1. Canonical(g) \in Str /\ t \in Str
  BY CanonicalAppend
<1>2. /\ a \in Nat /\ Len(x) \in Nat /\ Len(c) = a + 1 + Len(x)
      /\ \A i \in 1 .. a : c[i] = t[i]
      /\ c[a + 1] = Slash
      /\ \A j \in 1 .. Len(x) : c[a + 1 + j] = x[j]
  BY <1>1, ChildShape
<1>3. wr = a + 2 + Len(x) /\ \A i \in 1 .. a + 1 + Len(x) : buf[i] = c[i]
  <2>1. wr = Len(c) + 1 /\ \A i \in 1 .. Len(c) : buf[i] = c[i]
    BY DEF Holds, Lies
  <2> HIDE DEF c
  <2> QED BY <1>2, <2>1
<1> HIDE DEF c, t, a
<1>4. ASSUME NEW k \in back PROVE k <= a + 1
  <2>1. SUFFICES ASSUME k > a + 1 PROVE FALSE
    BY <1>2, <1>3
  <2>2. k - (a + 1) \in 1 .. Len(x) /\ a + 1 + (k - (a + 1)) = k /\ k \in 1 .. a + 1 + Len(x)
    BY <1>2, <1>3, <2>1 DEF StartPoint
  <2>3. buf[k] = x[k - (a + 1)]
    BY <1>2, <1>3, <2>2
  <2>4. buf[k] # Slash
    BY <2>2, <2>3 DEF Plain, isSeparator
  <2> QED BY <2>4
<1>5. CASE g = << >>
  <2>1. a = 0
    BY <1>5 DEF Stem, a, t
  <2>2. back = {}
    BY <1>4, <2>1 DEF StartPoint
  <2>3. LastSeparator = 2
    BY <2>2 DEF LastSeparator, StartPoint
  <2>4. Canonical(g) = <<Slash>> /\ Len(Canonical(g)) = 1 /\ Canonical(g)[1] = Slash
    BY <1>5, CanonicalLength
  <2>5. buf[1] = Slash
    BY <1>2, <1>3, <2>1
  <2>6. \A i \in 1 .. 1 : i = 1
    OBVIOUS
  <2>7. Lies(buf, LastSeparator, Canonical(g))
    BY <2>3, <2>4, <2>5, <2>6 DEF Lies
  <2> QED BY <1>2, <1>3, <2>1, <2>3, <2>7
<1>6. CASE g # << >>
  <2>1. t = Canonical(g) /\ a >= 2
    <3>1. t = Canonical(g)
      BY <1>6 DEF t, Stem
    <3> QED BY <1>6, <3>1, CanonicalLength DEF a
  <2>2. a + 1 \in back
    BY <1>2, <1>3, <2>1 DEF StartPoint
  <2>3. LastSeparator = a + 1
    <3>1. LastSeparator = CHOOSE k \in back : \A j \in back : j <= k
      BY <2>2 DEF LastSeparator
    <3> HIDE DEF back
    <3>2. \A k \in back : (\A j \in back : j <= k) => k = a + 1
      <4> SUFFICES ASSUME NEW k \in back, \A j \in back : j <= k PROVE k = a + 1
        OBVIOUS
      <4>1. k <= a + 1 /\ a + 1 <= k
        BY <1>4, <2>2
      <4>2. k \in Int
        BY <1>2, <1>3 DEF back, StartPoint
      <4> QED BY <1>2, <4>1, <4>2
    <3>3. \A j \in back : j <= a + 1
      BY <1>4
    <3> QED BY <2>2, <3>1, <3>2, <3>3
  <2>4. Lies(buf, LastSeparator, Canonical(g))
    <3>1. \A i \in 1 .. a : buf[i] = t[i]
      BY <1>2, <1>3
    <3> QED BY <2>1, <2>3, <3>1 DEF Lies, a
  <2> QED BY <1>2, <1>3, <2>1, <2>3, <2>4
<1> QED BY <1>5, <1>6

LEMMA DotDotStep ==
  ASSUME PathInv, DotDot
  PROVE  PathInv'
<1>1. /\ ~done /\ Busy /\ PathTypeOK /\ checkDot /\ Cur = Dot /\ buf[rd + 1] = Dot
      /\ isComponentEnd(buf[rd + 2]) /\ wr > 2
  BY DEF PathInv, DotDot, Reading, AtDotDot, StartPoint
<1>2. /\ rd' = rd + 2 /\ wr' = LastSeparator /\ checkDot' = checkDot /\ path' = path /\ buf' = buf
      /\ done' = done
  BY DEF DotDot
<1>3. /\ Here \in Reached /\ Here.dirs \in Seq(Name) /\ Len(path) \in Nat /\ rd \in 2 .. Len(path)
      /\ rd + 1 \in 2 .. Len(path)
      /\ Walked(path)[rd + 1] = Upon(Here, <<Dot, Dot>>) /\ Walked(path)[rd + 1] \in Reached
  BY <1>1, FirstDot, SecondDot
<1>4. PICK lead \in Leads : Ready(lead)
  BY <1>1, FirstDot
<1>5. Here' = Upon(Here, <<Dot, Dot>>) /\ Here' \in Reached
  <2>1. (rd + 2) - 1 = rd + 1
    BY <1>3
  <2> QED BY <1>2, <1>3, <2>1 DEF Here
<1>6. Here'.name = <<Dot, Dot>> /\ Here'.dirs = Here.dirs /\ Here'.above = Here.above
  BY <1>5 DEF Upon
<1>7. isComponentEnd(Cur')
  BY <1>1, <1>2 DEF Cur
<1>8. ASSUME NEW l \in Leads, l # << >> => Enter(Here').above, Enter(Here').dirs \in Seq(Name),
             Lies(buf', wr', Canonical(l \o Enter(Here').dirs))
      PROVE  \E m \in Leads : Ended(m)'
  BY <1>7, <1>8 DEF Ended, Holds
<1>9. (\E m \in Leads : Ended(m)') /\ wr' \in Nat /\ wr' >= 2 /\ wr' < wr
  <2>1. CASE Here.dirs = << >>
    <3>1. Enter(Here').dirs = << >> /\ Enter(Here').above = TRUE
      BY <1>5, <1>6, <2>1, Entering
    <3>2. lead \o << >> = lead
      BY LeadType DEF Strs
    <3>3. Holds(Canonical(lead))
      BY <1>4, <2>1, <3>2 DEF Ready
    <3>4. Named(<< >>) /\ << >> \in Seq(Name) /\ << >> \in Leads /\ << >> \o << >> = << >>
      <4>1. << >> \in Leads /\ << >> \in Seq(Name) /\ << >> = << >> \o << >>
        BY DEF Leads
      <4> QED BY <4>1 DEF Named
    <3>5. lead = << <<Dot>> >>
      <4>1. SUFFICES ASSUME lead = << >> PROVE FALSE
        BY DEF Leads
      <4>2. wr = 2
        <5>1. Len(Canonical(<< >>)) = 1
          BY <3>4, CanonicalLength
        <5>2. wr = Len(Canonical(<< >>)) + 1
          BY <3>3, <4>1 DEF Holds, Lies
        <5> DEFINE m == Len(Canonical(<< >>))
        <5>3. m = 1 /\ wr = m + 1
          BY <5>1, <5>2
        <5> HIDE DEF m
        <5> QED BY <5>3
      <4> QED BY <1>1, <4>2
    <3>6. Canonical(lead) = Child(Stem(<< >>), <<Dot>>)
      BY <3>5, LeadType, CanonicalAppend
    <3>7. Lies(buf, LastSeparator, Canonical(<< >>)) /\ LastSeparator \in Nat /\ LastSeparator >= 2 /\ LastSeparator < wr
      <4>1. <<Dot>> \in Str /\ Plain(<<Dot>>) /\ Len(<<Dot>>) = 1 /\ << >> \in Strs
        BY LeadType
      <4>2. Len(<<Dot>>) > 0
        BY <4>1
      <4> QED BY <3>3, <3>4, <3>6, <4>1, <4>2, TakeBack
    <3>8. Lies(buf', wr', Canonical(<< >> \o Enter(Here').dirs))
      BY <1>2, <3>1, <3>4, <3>7
    <3> QED BY <1>2, <1>8, <3>1, <3>4, <3>7, <3>8
  <2>2. CASE Here.dirs # << >>
    <3> DEFINE e == Here.dirs n == Len(e) g == SubSeq(e, 1, n - 1) x == e[n]
    <3>1. Enter(Here').dirs = g /\ Enter(Here').above = Here.above
      BY <1>5, <1>6, <2>2, Entering
    <3>2. e = Append(g, x) /\ g \in Seq(Name) /\ x \in Name
      <4>1. n \in Nat /\ n > 0
        BY <1>3, <2>2
      <4> QED BY <1>3, <2>2, <4>1
    <3> HIDE DEF e, g, x
    <3>3. x \in Str /\ Plain(x) /\ x # << >>
      BY <3>2 DEF Name
    <3>4. Len(x) > 0
      BY <3>3 DEF Str
    <3>5. lead \o e = Append(lead \o g, x) /\ lead \o g \in Strs /\ Named(lead \o g)
      <4>1. g \in Strs /\ lead \in Strs
        BY <3>2, NameType, LeadType
      <4>2. lead \o Append(g, x) = Append(lead \o g, x)
        BY <3>3, <4>1, ConcatAppend DEF Strs
      <4> QED BY <3>2, <4>1, <4>2, LeadConcat DEF Named
    <3>6. Holds(Child(Stem(lead \o g), x))
      <4>1. Canonical(Append(lead \o g, x)) = Child(Stem(lead \o g), x)
        BY <3>3, <3>5, CanonicalAppend
      <4>2. Holds(Canonical(lead \o e))
        BY <1>4 DEF Ready, e
      <4> QED BY <3>5, <4>1, <4>2
    <3>7. Lies(buf, LastSeparator, Canonical(lead \o g)) /\ LastSeparator \in Nat /\ LastSeparator >= 2 /\ LastSeparator < wr
      BY <3>3, <3>4, <3>5, <3>6, TakeBack
    <3>8. Lies(buf', wr', Canonical(lead \o Enter(Here').dirs))
      BY <1>2, <3>1, <3>7
    <3>9. lead # << >> => Enter(Here').above
      BY <1>4, <3>1 DEF Ready
    <3> QED BY <1>2, <1>8, <3>1, <3>2, <3>7, <3>8, <3>9
  <2> QED BY <2>1, <2>2
<1>10. Busy'
  <2>1. Here'.dirs \in Seq(Name) /\ Plain(Here'.name)
    BY <1>3, <1>6, DotsPlain
  <2>2. /\ 2 <= wr' /\ wr' <= rd' /\ rd' <= Len(path') + 1 /\ wr' < rd'
        /\ \A i \in rd' .. Len(path') : buf'[i] = path'[i]
    BY <1>1, <1>2, <1>3, <1>9 DEF Busy, PathTypeOK
  <2>3. path' # <<>> /\ path'[1] = Slash /\ buf'[Len(path') + 1] = EOS
    BY <1>1, <1>2 DEF Busy
  <2>4. \E l \in Leads : Ended(l)' \/ Copying(l)'
    BY <1>9
  <2> QED BY <2>1, <2>2, <2>3, <2>4 DEF Busy
<1>11. PathTypeOK'
  BY <1>1, <1>2, <1>9 DEF PathTypeOK
<1> QED BY <1>1, <1>2, <1>10, <1>11 DEF PathInv, Compacted

LEMMA DotDotAtRootStep ==
  ASSUME PathInv, DotDotAtRoot
  PROVE  PathInv'
<1>1. /\ ~done /\ Busy /\ PathTypeOK /\ checkDot /\ Cur = Dot /\ buf[rd + 1] = Dot
      /\ isComponentEnd(buf[rd + 2]) /\ wr = 2
  BY DEF PathInv, DotDotAtRoot, Reading, AtDotDot, StartPoint
<1>2. /\ rd' = rd + 2 /\ wr' = wr + 1 /\ checkDot' = FALSE /\ path' = path
      /\ buf' = [buf EXCEPT ![wr] = Dot] /\ done' = done
  BY DEF DotDotAtRoot
<1>3. /\ Here \in Reached /\ Here.dirs \in Seq(Name) /\ Len(path) \in Nat /\ rd \in 2 .. Len(path)
      /\ rd + 1 \in 2 .. Len(path)
      /\ Walked(path)[rd + 1] = Upon(Here, <<Dot, Dot>>) /\ Walked(path)[rd + 1] \in Reached
  BY <1>1, FirstDot, SecondDot
<1>4. PICK lead \in Leads : Ready(lead)
  BY <1>1, FirstDot
<1>5. Here' = Upon(Here, <<Dot, Dot>>) /\ Here' \in Reached
  <2>1. (rd + 2) - 1 = rd + 1
    BY <1>3
  <2> QED BY <1>2, <1>3, <2>1 DEF Here
<1>6. Here'.name = <<Dot, Dot>> /\ Here'.dirs = Here.dirs /\ Here'.above = Here.above
  BY <1>5 DEF Upon
<1>7. \A i \in 1 .. Len(path) + 1 : buf'[i] = IF i = 2 THEN Dot ELSE buf[i]
  BY <1>1, <1>2, <1>3 DEF PathTypeOK
<1>8. isComponentEnd(Cur')
  <2>1. rd + 2 \in 1 .. Len(path) + 1 /\ rd + 2 # 2
    BY <1>3
  <2> QED BY <1>1, <1>2, <1>7, <2>1 DEF Cur
<1>9. lead \o Here.dirs = << >> /\ buf[1] = Slash
  <2>1. Holds(Canonical(lead \o Here.dirs)) /\ Named(lead \o Here.dirs)
    BY <1>3, <1>4 DEF Ready, Named
  <2>2. 2 = Len(Canonical(lead \o Here.dirs)) + 1
    BY <1>1, <2>1 DEF Holds, Lies
  <2>3. lead \o Here.dirs = << >>
    <3> DEFINE d == lead \o Here.dirs
    <3>1. Named(d) /\ 2 = Len(Canonical(d)) + 1
      BY <2>1, <2>2
    <3> HIDE DEF d
    <3>2. d = << >>
      BY <3>1, CanonicalLength
    <3> QED BY <3>2 DEF d
  <2>4. Len(Canonical(lead \o Here.dirs)) = 1 /\ Canonical(lead \o Here.dirs)[1] = Slash
    BY <2>1, <2>3, CanonicalLength
  <2>5. buf[1] = Slash
    BY <2>1, <2>4 DEF Holds, Lies
  <2> QED BY <2>3, <2>5
<1>10. Here.dirs = << >>
  <2>1. lead \in Seq(Str) /\ Here.dirs \in Seq(Str)
    BY <1>3, LeadType, NameType DEF Strs
  <2>2. Len(lead \o Here.dirs) = Len(lead) + Len(Here.dirs) /\ Len(lead) \in Nat /\ Len(Here.dirs) \in Nat
    BY <2>1, ConcatProperties, LenProperties
  <2>3. Len(lead \o Here.dirs) = 0
    BY <1>9
  <2>4. Len(Here.dirs) = 0
    BY <2>2, <2>3
  <2> QED BY <2>1, <2>4, EmptySeq
<1>11. Enter(Here').dirs = << >> /\ Enter(Here').above = TRUE
  BY <1>5, <1>6, <1>10, Entering
<1>12. Ended(<< <<Dot>> >>)'
  <2> DEFINE one == << <<Dot>> >>
  <2>1. one \o << >> = one /\ one = Append(<< >>, <<Dot>>) /\ one \in Leads /\ << >> \in Strs /\ <<Dot>> \in Str
    <3>1. one \in Leads
      BY DEF Leads
    <3> QED BY <3>1, LeadType
  <2>2. Canonical(one) = Child(<< >>, <<Dot>>)
    BY <2>1, CanonicalAppend DEF Stem
  <2>3. /\ Len(Child(<< >>, <<Dot>>)) = 2 /\ Child(<< >>, <<Dot>>)[1] = Slash
        /\ Child(<< >>, <<Dot>>)[2] = Dot
    BY DEF Child
  <2> HIDE DEF one
  <2>4. Lies(buf', wr', Canonical(one))
    <3>1. buf'[1] = Slash /\ buf'[2] = Dot
      BY <1>3, <1>7, <1>9
    <3>2. \A i \in 1 .. 2 : i = 1 \/ i = 2
      OBVIOUS
    <3> QED BY <1>1, <1>2, <2>2, <2>3, <3>1, <3>2 DEF Lies
  <2>5. Lies(buf', wr', Canonical(one \o Enter(Here').dirs))
    BY <1>11, <2>1, <2>4
  <2>6. << >> \in Seq(Name)
    BY EmptySeq
  <2> QED BY <1>8, <1>11, <2>5, <2>6 DEF Ended, Holds, one
<1>13. Busy'
  <2>1. Here'.dirs \in Seq(Name) /\ Plain(Here'.name)
    BY <1>3, <1>6, DotsPlain
  <2>2. /\ 2 <= wr' /\ wr' <= rd' /\ rd' <= Len(path') + 1 /\ wr' < rd'
        /\ \A i \in rd' .. Len(path') : buf'[i] = path'[i]
    BY <1>1, <1>2, <1>3, <1>7 DEF Busy, PathTypeOK
  <2>3. path' # <<>> /\ path'[1] = Slash /\ buf'[Len(path') + 1] = EOS
    BY <1>1, <1>2, <1>3, <1>7 DEF Busy
  <2>4. << <<Dot>> >> \in Leads
    BY DEF Leads
  <2>5. \E l \in Leads : Ended(l)' \/ Copying(l)'
    BY <1>12, <2>4
  <2> QED BY <2>1, <2>2, <2>3, <2>5 DEF Busy
<1>14. PathTypeOK'
  <2>1. buf' \in [1 .. Len(path) + 1 -> Char \cup {EOS}]
    BY <1>1, <1>2, DotIsChar DEF PathTypeOK
  <2>2. rd' \in Nat /\ wr' \in Nat
    BY <1>1, <1>2, <1>3
  <2>3. path' \in Str /\ checkDot' \in BOOLEAN /\ done' \in BOOLEAN
    BY <1>1, <1>2 DEF PathTypeOK
  <2> QED BY <1>2, <2>1, <2>2, <2>3 DEF PathTypeOK
<1> QED BY <1>1, <1>2, <1>13, <1>14 DEF PathInv, Compacted

(* A character is written behind a string, or behind a string and a          *)
(* separator.                                                                *)
LEMMA ChildOne ==
  ASSUME NEW t \in Str, NEW c \in Char
  PROVE  /\ <<c>> \in Str /\ Len(t) \in Nat /\ Len(Child(t, <<c>>)) = Len(t) + 2
         /\ \A i \in 1 .. Len(t) : Child(t, <<c>>)[i] = t[i]
         /\ Child(t, <<c>>)[Len(t) + 1] = Slash /\ Child(t, <<c>>)[Len(t) + 2] = c
<1>1. <<c>> \in Str /\ Len(<<c>>) = 1 /\ <<c>>[1] = c
  BY DEF Str
<1> DEFINE x == <<c>>
<1> HIDE DEF x
<1>2. /\ x \in Str /\ Len(x) = 1 /\ x[1] = c
  BY <1>1 DEF x
<1>3. /\ Len(t) \in Nat /\ Len(Child(t, x)) = Len(t) + 1 + Len(x)
      /\ \A i \in 1 .. Len(t) : Child(t, x)[i] = t[i]
      /\ Child(t, x)[Len(t) + 1] = Slash
      /\ \A j \in 1 .. Len(x) : Child(t, x)[Len(t) + 1 + j] = x[j]
  BY <1>2, ChildShape
<1>4. Child(t, x)[Len(t) + 2] = c
  <2>1. 1 \in 1 .. Len(x) /\ Len(t) + 1 + 1 = Len(t) + 2
    BY <1>2, <1>3
  <2> QED BY <1>2, <1>3, <2>1
<1>5. Len(Child(t, x)) = Len(t) + 2
  BY <1>2, <1>3
<1> QED BY <1>1, <1>3, <1>4, <1>5 DEF x

LEMMA ChildMore ==
  ASSUME NEW t \in Str, NEW x \in Str, NEW c \in Char
  PROVE  /\ Append(x, c) \in Str
         /\ Len(Child(t, x)) \in Nat /\ Len(Child(t, Append(x, c))) = Len(Child(t, x)) + 1
         /\ \A i \in 1 .. Len(Child(t, x)) : Child(t, Append(x, c))[i] = Child(t, x)[i]
         /\ Child(t, Append(x, c))[Len(Child(t, x)) + 1] = c
<1> DEFINE y == Append(x, c) u == Child(t, x) v == Child(t, y) a == Len(t) b == Len(x)
<1>1. y \in Str /\ Len(y) = b + 1 /\ y[b + 1] = c /\ \A i \in 1 .. b : y[i] = x[i]
  BY AppendProperties DEF Str
<1> HIDE DEF y
<1>2. /\ a \in Nat /\ b \in Nat /\ Len(u) = a + 1 + b
      /\ \A i \in 1 .. a : u[i] = t[i]
      /\ u[a + 1] = Slash
      /\ \A j \in 1 .. b : u[a + 1 + j] = x[j]
  BY ChildShape
<1>3. /\ Len(v) = a + 1 + Len(y)
      /\ \A i \in 1 .. a : v[i] = t[i]
      /\ v[a + 1] = Slash
      /\ \A j \in 1 .. Len(y) : v[a + 1 + j] = y[j]
  BY <1>1, ChildShape
<1> HIDE DEF u, v, a, b
<1>4. Len(u) \in Nat /\ Len(v) = Len(u) + 1
  BY <1>1, <1>2, <1>3
<1>5. v[Len(u) + 1] = c
  <2>1. b + 1 \in 1 .. Len(y) /\ Len(u) + 1 = a + 1 + (b + 1)
    BY <1>1, <1>2
  <2> QED BY <1>1, <1>3, <2>1
<1>6. ASSUME NEW i \in 1 .. Len(u) PROVE v[i] = u[i]
  <2>1. i \in 1 .. a \/ i = a + 1 \/ i - (a + 1) \in 1 .. b
    BY <1>2
  <2>2. CASE i - (a + 1) \in 1 .. b
    <3> DEFINE j == i - (a + 1)
    <3>1. j \in 1 .. b /\ j \in 1 .. Len(y) /\ i = a + 1 + j
      BY <1>1, <1>2, <2>2
    <3> HIDE DEF j
    <3>2. v[a + 1 + j] = y[j] /\ u[a + 1 + j] = x[j] /\ y[j] = x[j]
      BY <1>1, <1>2, <1>3, <3>1
    <3> QED BY <3>1, <3>2
  <2> QED BY <1>2, <1>3, <2>1, <2>2
<1> QED BY <1>1, <1>4, <1>5, <1>6 DEF u, v, y

LEMMA CopyStep ==
  ASSUME PathInv, Copy
  PROVE  PathInv'
<1>1. /\ ~done /\ Busy /\ PathTypeOK /\ Cur # EOS /\ ~isSeparator(Cur) /\ ~isComponentEnd(Cur)
      /\ ~AtDot /\ ~AtDotDot
  BY DEF PathInv, Copy, Reading, isComponentEnd
<1>2. /\ rd' = rd + 1 /\ checkDot' = FALSE /\ path' = path /\ done' = done
      /\ SeparatorDue => buf' = [buf EXCEPT ![wr] = Slash, ![wr + 1] = Cur] /\ wr' = wr + 2
      /\ ~SeparatorDue => buf' = [buf EXCEPT ![wr] = Cur] /\ wr' = wr + 1
  BY DEF Copy
<1>3. /\ Here \in Reached /\ Len(path) \in Nat /\ rd \in 2 .. Len(path) /\ Cur \in Char
      /\ Walked(path)[rd] = Onward(Here, Cur) /\ Walked(path)[rd] \in Reached
  BY <1>1, HereFacts
<1>4. Here.dirs \in Seq(Name) /\ Plain(Here.name) /\ Here.name \in Str /\ Here.dirs \in Strs
  BY <1>1, <1>3, NameType DEF Busy, Reached, Str
<1>5. Here' = Upon(Here, Append(Here.name, Cur)) /\ Here' \in Reached
  <2>1. (rd + 1) - 1 = rd
    BY <1>3
  <2>2. Onward(Here, Cur) = Upon(Here, Append(Here.name, Cur))
    BY <1>1 DEF Onward, Upon
  <2> QED BY <1>2, <1>3, <2>1, <2>2 DEF Here
<1>6. Here'.name = Append(Here.name, Cur) /\ Here'.dirs = Here.dirs /\ Here'.above = Here.above
  BY <1>5 DEF Upon
<1>7. wr \in Nat /\ 2 <= wr /\ wr <= rd /\ (SeparatorDue => wr < rd)
  BY <1>1, <1>3 DEF Busy, PathTypeOK, SeparatorDue, StartPoint
<1>8. /\ SeparatorDue => \A i \in 1 .. Len(path) + 1 :
                          buf'[i] = IF i = wr THEN Slash ELSE IF i = wr + 1 THEN Cur ELSE buf[i]
      /\ ~SeparatorDue => \A i \in 1 .. Len(path) + 1 : buf'[i] = IF i = wr THEN Cur ELSE buf[i]
      /\ \A i \in rd + 1 .. Len(path) + 1 : buf'[i] = buf[i]
      /\ buf' \in [1 .. Len(path) + 1 -> Char \cup {EOS}]
  <2>1. buf \in [1 .. Len(path) + 1 -> Char \cup {EOS}]
    BY <1>1 DEF PathTypeOK
  <2>2. CASE SeparatorDue
    <3>1. wr + 1 \in 1 .. Len(path) + 1 /\ wr \in 1 .. Len(path) + 1 /\ wr + 1 <= rd
      BY <1>3, <1>7, <2>2
    <3> QED BY <1>2, <1>3, <1>7, <2>1, <2>2, <3>1, DotIsChar
  <2>3. CASE ~SeparatorDue
    BY <1>2, <1>3, <1>7, <2>1, <2>3
  <2> QED BY <2>2, <2>3
<1>9. Plain(Here'.name) /\ Here'.name # << >> /\ (Here'.name = <<Dot>> => Here.name = << >> /\ Cur = Dot)
      /\ (Here'.name = <<Dot, Dot>> => Here.name = <<Dot>> /\ Cur = Dot)
  <2> DEFINE x == Here.name y == Append(x, Cur)
  <2>1. y \in Str /\ Len(x) \in Nat /\ Len(y) = Len(x) + 1 /\ y[Len(x) + 1] = Cur /\ \A i \in 1 .. Len(x) : y[i] = x[i]
    BY <1>3, <1>4, AppendProperties, LenProperties DEF Str
  <2>2. Here'.name = y /\ x \in Str /\ Plain(x)
    BY <1>4, <1>6
  <2> HIDE DEF x, y
  <2>3. Plain(y)
    <3>1. ASSUME NEW i \in 1 .. Len(y) PROVE ~isSeparator(y[i])
      <4>1. i \in 1 .. Len(x) \/ i = Len(x) + 1
        BY <2>1
      <4> QED BY <1>1, <2>1, <2>2, <4>1 DEF Plain
    <3> QED BY <3>1 DEF Plain
  <2>4. y # << >>
    BY <2>1
  <2>5. y = <<Dot>> => x = << >> /\ Cur = Dot
    <3>1. SUFFICES ASSUME y = <<Dot>> PROVE x = << >> /\ Cur = Dot
      OBVIOUS
    <3>2. Len(y) = 1 /\ y[1] = Dot
      BY <3>1
    <3>3. Len(x) = 0
      <4> DEFINE a == Len(x) b == Len(y)
      <4>1. a \in Nat /\ b = a + 1 /\ b = 1
        BY <2>1, <3>2
      <4> HIDE DEF a, b
      <4>2. a = 0
        BY <4>1
      <4> QED BY <4>2 DEF a
    <3>4. x = << >>
      BY <2>2, <3>3, EmptySeq DEF Str
    <3> QED BY <2>1, <3>2, <3>3, <3>4
  <2>6. y = <<Dot, Dot>> => x = <<Dot>> /\ Cur = Dot
    <3>1. SUFFICES ASSUME y = <<Dot, Dot>> PROVE x = <<Dot>> /\ Cur = Dot
      OBVIOUS
    <3>2. Len(y) = 2 /\ y[1] = Dot /\ y[2] = Dot
      BY <3>1
    <3>3. Len(x) = 1
      <4> DEFINE a == Len(x) b == Len(y)
      <4>1. a \in Nat /\ b = a + 1 /\ b = 2
        BY <2>1, <3>2
      <4> HIDE DEF a, b
      <4>2. a = 1
        BY <4>1
      <4> QED BY <4>2 DEF a
    <3>4. x[1] = Dot /\ Cur = Dot
      BY <2>1, <3>2, <3>3
    <3>5. x = <<Dot>>
      <4> DEFINE o == <<Dot>>
      <4>1. o \in Str /\ Len(o) = 1 /\ o[1] = Dot
        BY DotIsChar DEF Str
      <4> HIDE DEF o
      <4>2. \A i \in 1 .. 1 : i = 1
        OBVIOUS
      <4>3. x = o
        BY <2>2, <3>3, <3>4, <4>1, <4>2, StrEqual
      <4> QED BY <4>3 DEF o
    <3> QED BY <3>4, <3>5
  <2> QED BY <2>2, <2>3, <2>4, <2>5, <2>6 DEF x
<1>10. PICK lead \in Leads : Ended(lead) \/ Copying(lead)
  BY <1>1 DEF Busy
<1> DEFINE d == lead \o Here.dirs t == Stem(d)
<1>11. d \in Strs /\ t \in Str /\ Named(d)
  BY <1>4, LeadConcat, CanonicalAppend, LeadType DEF Named
<1>12. Cur' = buf[rd + 1]
  <2>1. rd + 1 \in rd + 1 .. Len(path) + 1
    BY <1>3
  <2> QED BY <1>2, <1>8, <2>1 DEF Cur
<1>13. Cur' = Dot => buf'[rd' + 1] = buf[rd + 2]
  <2>1. SUFFICES ASSUME Cur' = Dot PROVE buf'[rd' + 1] = buf[rd + 2]
    OBVIOUS
  <2>2. rd + 1 # Len(path) + 1
    BY <1>1, <1>12, <2>1, DotIsChar DEF Busy
  <2>3. rd + 2 \in rd + 1 .. Len(path) + 1 /\ rd' + 1 = rd + 2
    BY <1>2, <1>3, <2>2
  <2> QED BY <1>8, <2>3
<1>14. Copying(lead)'
  <2>1. CASE Ended(lead)
    <3>1. Here.name = << >> /\ checkDot /\ Ready(lead)
      BY <1>1, <2>1, Opening
    <3>2. Here'.name = <<Cur>>
      BY <1>6, <3>1
    <3>3. Holds(Canonical(d))
      BY <3>1 DEF Ready
    <3>4. Lies(buf', wr', Child(t, <<Cur>>))
      <4> HIDE DEF d
      <4>1. /\ Len(t) \in Nat /\ Len(Child(t, <<Cur>>)) = Len(t) + 2
            /\ \A i \in 1 .. Len(t) : Child(t, <<Cur>>)[i] = t[i]
            /\ Child(t, <<Cur>>)[Len(t) + 1] = Slash /\ Child(t, <<Cur>>)[Len(t) + 2] = Cur
        BY <1>3, <1>11, ChildOne
      <4>2. Len(Canonical(d)) \in Nat /\ wr = Len(Canonical(d)) + 1 /\ \A i \in 1 .. Len(Canonical(d)) : buf[i] = Canonical(d)[i]
        BY <1>11, <3>3, CanonicalLength DEF Holds, Lies
      <4>3. CASE d = << >>
        <5>1. Len(t) = 0 /\ Len(Canonical(d)) = 1 /\ Canonical(d)[1] = Slash
          BY <1>11, <4>3, CanonicalLength DEF Stem
        <5>2. wr = 2 /\ ~SeparatorDue /\ buf[1] = Slash
          BY <4>2, <5>1 DEF SeparatorDue, StartPoint
        <5>3. wr' = 3 /\ buf'[1] = Slash /\ buf'[2] = Cur
          BY <1>2, <1>3, <1>8, <5>2
        <5>4. \A i \in 1 .. 2 : i = 1 \/ i = 2
          OBVIOUS
        <5> DEFINE c == Child(t, <<Cur>>)
        <5>5. Len(c) = 2 /\ c[1] = Slash /\ c[2] = Cur
          BY <4>1, <5>1
        <5> HIDE DEF c
        <5>6. Lies(buf', wr', c)
          BY <5>3, <5>4, <5>5 DEF Lies
        <5> QED BY <5>6 DEF c
      <4>4. CASE d # << >>
        <5>1. t = Canonical(d) /\ Len(t) >= 2
          BY <1>11, <4>4, CanonicalLength DEF Stem
        <5>2. wr = Len(t) + 1 /\ SeparatorDue /\ \A i \in 1 .. Len(t) : buf[i] = t[i]
          <6>1. wr = Len(t) + 1 /\ \A i \in 1 .. Len(t) : buf[i] = t[i]
            BY <4>2, <5>1
          <6> QED BY <3>1, <4>1, <5>1, <6>1 DEF SeparatorDue, StartPoint
        <5> DEFINE c == Child(t, <<Cur>>) n == Len(t)
        <5>3. /\ n \in Nat /\ Len(c) = n + 2 /\ c[n + 1] = Slash /\ c[n + 2] = Cur
              /\ \A i \in 1 .. n : c[i] = buf[i]
          BY <4>1, <5>2
        <5>4. wr = n + 1
          BY <5>2
        <5> HIDE DEF c, n
        <5>5. wr' = n + 3 /\ n + 2 \in 1 .. Len(path) + 1
          BY <1>2, <1>3, <1>7, <5>2, <5>3, <5>4
        <5>6. ASSUME NEW i \in 1 .. n + 2 PROVE buf'[i] = c[i]
          <6>1. i \in 1 .. Len(path) + 1 /\ (i \in 1 .. n \/ i = n + 1 \/ i = n + 2)
            BY <1>3, <5>3, <5>5
          <6> QED BY <1>8, <5>2, <5>3, <5>4, <6>1
        <5>7. Lies(buf', wr', c)
          BY <5>3, <5>5, <5>6 DEF Lies
        <5> QED BY <5>7 DEF c
      <4> QED BY <4>3, <4>4
    <3>5. lead # << >> => Here'.above
      BY <1>6, <3>1 DEF Ready
    <3>6. Here'.name = <<Dot>> => ~isComponentEnd(Cur') /\ ~(Cur' = Dot /\ isComponentEnd(buf'[rd' + 1]))
      <4>1. SUFFICES ASSUME Here'.name = <<Dot>>
                     PROVE  ~isComponentEnd(Cur') /\ ~(Cur' = Dot /\ isComponentEnd(buf'[rd' + 1]))
        OBVIOUS
      <4>2. Cur = Dot
        BY <1>9, <4>1
      <4>3. ~isComponentEnd(buf[rd + 1]) /\ ~(buf[rd + 1] = Dot /\ isComponentEnd(buf[rd + 2]))
        BY <1>1, <3>1, <4>2 DEF AtDot, AtDotDot
      <4> QED BY <1>12, <1>13, <4>3
    <3>7. Here'.name = <<Dot, Dot>> => ~isComponentEnd(Cur')
      <4>1. << >> # <<Dot>>
        OBVIOUS
      <4> QED BY <1>9, <3>1, <4>1
    <3>8. Lies(buf', wr', Child(Stem(lead \o Here'.dirs), Here'.name))
      BY <1>6, <3>2, <3>4
    <3> QED BY <1>2, <1>9, <3>5, <3>6, <3>7, <3>8 DEF Copying, Holds
  <2>2. CASE Copying(lead)
    <3>1. ~checkDot /\ Here.name # << >> /\ Holds(Child(t, Here.name)) /\ (lead # << >> => Here.above)
      BY <2>2 DEF Copying
    <3>2. ~SeparatorDue
      BY <3>1 DEF SeparatorDue
    <3>3. Lies(buf', wr', Child(t, Append(Here.name, Cur)))
      <4> DEFINE u == Child(t, Here.name) v == Child(t, Append(Here.name, Cur)) n == Len(u)
      <4> HIDE DEF d, t
      <4>1. /\ n \in Nat /\ Len(v) = n + 1 /\ v[n + 1] = Cur
            /\ \A i \in 1 .. n : v[i] = u[i]
        BY <1>3, <1>4, <1>11, ChildMore
      <4>2. wr = n + 1 /\ \A i \in 1 .. n : buf[i] = u[i]
        BY <3>1 DEF Holds, Lies
      <4> HIDE DEF u, v, n
      <4>3. wr' = n + 2 /\ n + 1 \in 1 .. Len(path) + 1
        BY <1>2, <1>3, <1>7, <3>2, <4>1, <4>2
      <4>4. ASSUME NEW i \in 1 .. n + 1 PROVE buf'[i] = v[i]
        <5>1. i \in 1 .. Len(path) + 1 /\ (i \in 1 .. n \/ i = n + 1)
          BY <1>3, <4>1, <4>3
        <5> QED BY <1>8, <3>2, <4>1, <4>2, <5>1
      <4>5. Lies(buf', wr', v)
        BY <4>1, <4>3, <4>4 DEF Lies
      <4> QED BY <4>5 DEF v
    <3>4. Here'.name # <<Dot>>
      BY <1>9, <3>1
    <3>5. Here'.name = <<Dot, Dot>> => ~isComponentEnd(Cur')
      <4>1. SUFFICES ASSUME Here'.name = <<Dot, Dot>> PROVE ~isComponentEnd(Cur')
        OBVIOUS
      <4>2. Here.name = <<Dot>> /\ Cur = Dot
        BY <1>9, <4>1
      <4>3. ~isComponentEnd(buf[rd + 1])
        BY <2>2, <4>2 DEF Copying
      <4> QED BY <1>12, <4>3
    <3>6. Lies(buf', wr', Child(Stem(lead \o Here'.dirs), Here'.name))
      BY <1>6, <3>3
    <3> QED BY <1>2, <1>6, <1>9, <3>1, <3>4, <3>5, <3>6 DEF Copying, Holds
  <2> QED BY <1>10, <2>1, <2>2
<1>15. Busy'
  <2>1. Here'.dirs \in Seq(Name) /\ Plain(Here'.name)
    BY <1>4, <1>6, <1>9
  <2>2. 2 <= wr' /\ wr' <= rd' /\ rd' <= Len(path') + 1
    BY <1>2, <1>3, <1>7
  <2>3. \A i \in rd' .. Len(path') : buf'[i] = path'[i]
    BY <1>1, <1>2, <1>3, <1>8 DEF Busy
  <2>4. path' # <<>> /\ path'[1] = Slash
    BY <1>1, <1>2 DEF Busy
  <2>5. buf'[Len(path') + 1] = EOS
    <3>1. Len(path) + 1 \in rd + 1 .. Len(path) + 1
      BY <1>3
    <3> QED BY <1>1, <1>2, <1>8, <3>1 DEF Busy
  <2>6. \E l \in Leads : Ended(l)' \/ Copying(l)'
    BY <1>14
  <2> QED BY <1>2, <2>1, <2>2, <2>3, <2>4, <2>5, <2>6 DEF Busy
<1>16. PathTypeOK'
  <2>1. rd' \in Nat /\ wr' \in Nat
    BY <1>2, <1>3, <1>7
  <2>2. path' \in Str /\ checkDot' \in BOOLEAN /\ done' \in BOOLEAN
    BY <1>1, <1>2 DEF PathTypeOK
  <2> QED BY <1>2, <1>8, <2>1, <2>2 DEF PathTypeOK
<1> QED BY <1>1, <1>2, <1>15, <1>16 DEF PathInv, Compacted

LEMMA FinishStep ==
  ASSUME PathInv, Finish
  PROVE  PathInv'
<1>1. ~done /\ Busy /\ PathTypeOK /\ Cur = EOS
  BY DEF PathInv, Finish
<1>2. /\ rd' = rd + 1 /\ done' = TRUE /\ path' = path /\ wr' = wr /\ checkDot' = checkDot
      /\ buf' = [buf EXCEPT ![wr] = EOS]
  BY DEF Finish
<1>3. Len(path) \in Nat /\ rd = Len(path) + 1
  BY <1>1, HereFacts
<1>4. PICK lead \in Leads : Settled(lead)
  BY <1>1, Closing DEF isComponentEnd
<1>5. Walk(path) = Enter(Here)
  <2>1. (Len(path) + 1) - 1 = Len(path)
    BY <1>3
  <2> QED BY <1>3, <2>1 DEF Walk, Here
<1>6. Resolve(path) = Enter(Here).dirs /\ AboveRoot(path) = Enter(Here).above
  BY <1>5 DEF Resolve, AboveRoot
<1> DEFINE c == Canonical(lead \o Resolve(path)) n == Len(c)
<1>7. wr = n + 1 /\ \A i \in 1 .. n : buf[i] = c[i]
  BY <1>4, <1>6 DEF Settled, Holds, Lies
<1>8. n \in Nat
  <2>1. Named(lead \o Resolve(path))
    BY <1>4, <1>6 DEF Settled, Named
  <2> QED BY <2>1, CanonicalLength
<1>9. wr \in Nat /\ wr <= Len(path) + 1 /\ 2 <= wr
  BY <1>1, <1>3 DEF Busy, PathTypeOK
<1>10. \A i \in 1 .. Len(path) + 1 : buf'[i] = IF i = wr THEN EOS ELSE buf[i]
  BY <1>1, <1>2, <1>9 DEF PathTypeOK
<1> HIDE DEF c, n
<1>11. Lies(buf', wr', Canonical(lead \o Resolve(path)))
  <2>1. ASSUME NEW i \in 1 .. n PROVE buf'[i] = c[i]
    <3>1. i \in 1 .. Len(path) + 1 /\ i # wr
      BY <1>3, <1>7, <1>8, <1>9
    <3> QED BY <1>7, <1>10, <3>1
  <2> QED BY <1>2, <1>7, <2>1 DEF Lies, n, c
<1>12. Written'
  BY <1>2, <1>4, <1>6, <1>11 DEF Written, Settled, Holds
<1>13. PathTypeOK'
  <2>1. buf' \in [1 .. Len(path) + 1 -> Char \cup {EOS}]
    BY <1>1, <1>2 DEF PathTypeOK
  <2>2. rd' \in Nat /\ wr' \in Nat
    BY <1>2, <1>3, <1>9
  <2>3. path' \in Str /\ checkDot' \in BOOLEAN /\ done' \in BOOLEAN
    BY <1>1, <1>2 DEF PathTypeOK
  <2> QED BY <1>2, <2>1, <2>2, <2>3 DEF PathTypeOK
<1> QED BY <1>2, <1>12, <1>13 DEF PathInv

LEMMA PathInvInit ==
  ASSUME PathInit
  PROVE  PathInv
<1> DEFINE n == Len(path)
<1>1. path \in Seq(Char) /\ path \in Str
  <2>1. PICK m \in 0 .. MaxLen : path \in [1 .. m -> Char]
    BY DEF PathInit, Paths
  <2>2. m \in Nat
    BY VfsPathAssumption
  <2> QED BY <2>1, <2>2 DEF Str
<1>2. n \in Nat /\ \A i \in 1 .. n : path[i] \in Char
  BY <1>1, LenProperties, ElementOfSeq
<1>3. /\ buf \in [1 .. n + 1 -> Char \cup {EOS}] /\ buf[n + 1] = EOS /\ \A i \in 1 .. n : buf[i] = path[i]
  <2> DEFINE S == Char \cup {EOS}
  <2>1. buf = Append(path, EOS) /\ path \in Seq(S) /\ EOS \in S
    <3>1. path \in Seq(S)
      BY <1>1, SeqMonotonic
    <3> QED BY <3>1 DEF PathInit, PathCall
  <2> HIDE DEF S
  <2>2. buf \in Seq(S) /\ Len(buf) = n + 1 /\ buf[n + 1] = EOS /\ \A i \in 1 .. n : buf[i] = path[i]
    BY <2>1, AppendProperties
  <2>3. buf \in [1 .. Len(buf) -> S]
    BY <2>2, LenProperties
  <2> QED BY <2>2, <2>3 DEF S
<1>4. rd = 2 /\ wr = 2 /\ checkDot = TRUE /\ done = (path = <<>> \/ path[1] # Slash)
  BY DEF PathInit, PathCall, StartPoint
<1>5. PathTypeOK
  BY <1>1, <1>3, <1>4 DEF PathTypeOK
<1>6. ~Compacted
  BY <1>4 DEF Compacted
<1>7. ASSUME ~done PROVE Busy
  <2>1. path # <<>> /\ path[1] = Slash
    BY <1>4, <1>7
  <2>2. n >= 1
    <3>1. n # 0
      BY <1>1, <2>1, EmptySeq
    <3> QED BY <1>2, <3>1
  <2>3. Here = AtRoot
    <3>1. Walked(path)[1] = Onward(AtRoot, Slash)
      <4>1. 1 \in 1 .. n /\ 1 - 1 = 0
        BY <1>2, <2>2
      <4> QED BY <1>1, <2>1, <4>1, WalkedDef
    <3>2. Onward(AtRoot, Slash) = AtRoot
      BY DEF Onward, isSeparator, Enter, AtRoot, At
    <3>3. rd - 1 = 1
      BY <1>4
    <3> QED BY <3>1, <3>2, <3>3 DEF Here
  <2>4. Here.name = << >> /\ Here.dirs = << >> /\ Enter(Here).dirs = << >>
    BY <2>3 DEF AtRoot, At, Enter
  <2>5. << >> \in Leads /\ << >> \in Seq(Name) /\ << >> \o << >> = << >>
    BY DEF Leads
  <2>6. Holds(Canonical(<< >>))
    <3>1. Canonical(<< >>) = <<Slash>>
      BY DEF Canonical
    <3>2. Len(<<Slash>>) = 1 /\ <<Slash>>[1] = Slash
      OBVIOUS
    <3>3. buf[1] = Slash
      BY <1>2, <1>3, <2>1, <2>2
    <3>4. \A i \in 1 .. 1 : i = 1
      OBVIOUS
    <3> DEFINE c == <<Slash>>
    <3>5. Len(c) = 1 /\ c[1] = Slash
      BY <3>2
    <3> HIDE DEF c
    <3>6. Lies(buf, wr, c)
      BY <1>4, <3>3, <3>4, <3>5 DEF Lies
    <3> QED BY <3>1, <3>6 DEF Holds, c
  <2>7. Ended(<< >>)
    BY <1>4, <2>4, <2>5, <2>6 DEF Ended
  <2>8. 2 <= wr /\ wr <= rd /\ rd <= n + 1 /\ ~(wr > 2) /\ \A i \in rd .. n : buf[i] = path[i]
    BY <1>2, <1>3, <1>4, <2>2
  <2>9. Plain(Here.name)
    BY <2>4, <2>5, LeadType
  <2> QED BY <1>3, <2>1, <2>4, <2>5, <2>7, <2>8, <2>9 DEF Busy
<1> QED BY <1>5, <1>6, <1>7 DEF PathInv

LEMMA PathStep ==
  ASSUME PathInv, [PathNext]_pathVars
  PROVE  PathInv'
<1>1. CASE PathNext
  BY <1>1, SeparatorStep, SkipDotStep, DotDotStep, DotDotAtRootStep, CopyStep, FinishStep DEF PathNext
<1>2. CASE UNCHANGED pathVars
  <2>1. path' = path /\ buf' = buf /\ rd' = rd /\ wr' = wr /\ checkDot' = checkDot /\ done' = done
    BY <1>2 DEF pathVars
  <2> QED BY <2>1 DEF PathInv, PathTypeOK, Busy, Written, Compacted, Ended, Copying, Holds, Here, Cur
<1> QED BY <1>1, <1>2

LEMMA PathInvSuffices ==
  ASSUME PathInv
  PROVE  CompactsRight
<1>1. UnreadIsIntact
  BY DEF PathInv, Busy, UnreadIsIntact
<1>2. ASSUME Compacted
      PROVE  Resolve(Result) = Resolve(path) /\ (~AboveRoot(path) => Result = Canonical(Resolve(path)))
  <2>1. PICK lead \in Leads : /\ lead # <<>> => AboveRoot(path)
                             /\ Resolve(path) \in Seq(Name)
                             /\ Holds(Canonical(lead \o Resolve(path)))
    BY <1>2 DEF PathInv, Written
  <2> DEFINE d == lead \o Resolve(path) c == Canonical(d)
  <2>2. c \in Str /\ Len(c) \in Nat
    BY <2>1, CanonicalLength DEF Named
  <2>3. Result = c
    <3> HIDE DEF d
    <3>1. wr = Len(c) + 1 /\ \A i \in 1 .. Len(c) : buf[i] = c[i]
      BY <2>1 DEF Holds, Lies, d
    <3>2. wr - 1 = Len(c)
      BY <2>2, <3>1
    <3>3. Result = SubSeq(buf, 1, Len(c))
      BY <3>2 DEF Result
    <3>4. SubSeq(buf, 1, Len(c)) = [i \in 1 .. Len(c) |-> buf[i]]
      <4>1. path \in Seq(Char) /\ buf \in [1 .. Len(path) + 1 -> Char \cup {EOS}]
        BY DEF PathInv, PathTypeOK, Str
      <4> QED BY <2>2, <4>1
    <3>5. c = [i \in 1 .. Len(c) |-> c[i]]
      BY <2>2 DEF Str
    <3> QED BY <3>1, <3>3, <3>4, <3>5
  <2>4. Resolve(c) = Resolve(path)
    BY <2>1, ResolveCanonical
  <2>5. ASSUME ~AboveRoot(path) PROVE Result = Canonical(Resolve(path))
    <3>1. lead = << >>
      BY <2>1, <2>5
    <3>2. << >> \o Resolve(path) = Resolve(path)
      BY <2>1
    <3> QED BY <2>3, <3>1, <3>2
  <2> QED BY <2>3, <2>4, <2>5
<1> QED BY <1>1, <1>2 DEF CompactsRight, SameNode, Shortest

-----------------------------------------------------------------------------
(* The types of the buffer and the pointers of VFS::compactPath, among them  *)
(* that the writing pointer stays in the buffer.                             *)
THEOREM PathTypeCorrect == PathSpec => []PathTypeOK
<1>1. PathInit => PathInv
  BY PathInvInit
<1>2. PathInv /\ [PathNext]_pathVars => PathInv'
  BY PathStep
<1>3. PathInv => PathTypeOK
  BY DEF PathInv
<1> QED BY <1>1, <1>2, <1>3, PTL DEF PathSpec

(* VFS::compactPath is exact for every path: it overwrites nothing that is   *)
(* still to be read, its result leads to the same node, and it is the        *)
(* shortest such path unless a ".." climbed above the root.                  *)
THEOREM PathsCompactRight == PathSpec => []CompactsRight
<1>1. PathInit => PathInv
  BY PathInvInit
<1>2. PathInv /\ [PathNext]_pathVars => PathInv'
  BY PathStep
<1>3. PathInv => CompactsRight
  BY PathInvSuffices
<1> QED BY <1>1, <1>2, <1>3, PTL DEF PathSpec
=============================================================================
