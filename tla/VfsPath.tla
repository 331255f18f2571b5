------------------------------ MODULE VfsPath ------------------------------
(***************************************************************************)
(* VFS::compactPath (kernel/src/vfs/vfs.cpp): the path is compacted in the *)
(* buffer it lies in, by a reading and a writing pointer.  A turn of the   *)
(* loop is a step.                                                         *)
(*                                                                         *)
(* Both characters the code takes for a separator when it reads are        *)
(* modelled; it writes, and looks back for, PATH_SEPARATOR only.           *)
(***************************************************************************)
EXTENDS Integers, Sequences

CONSTANTS
  Letter,       \* the characters that are neither separators nor dots
  MaxLen        \* the longest path

Slash == "/"
Backslash == "backslash"
Dot == "."
EOS == "end"

ASSUME VfsPathAssumption ==
  /\ Letter \cap {Slash, Backslash, Dot, EOS} = {}
  /\ MaxLen \in Nat

Char == Letter \cup {Slash, Backslash, Dot}

VARIABLES
  path,         \* the path the function was called with
  buf,          \* the buffer, the terminator included
  rd,           \* the next character to read
  wr,           \* the next place to write
  checkDot,     \* the reader is at the beginning of a component
  done          \* the function has returned

pathVars == <<path, buf, rd, wr, checkDot, done>>

isSeparator(c) == c \in {Slash, Backslash}
isComponentEnd(c) == c = EOS \/ isSeparator(c)

\* erasePoint and startPoint: behind the leading separator.
StartPoint == 2

Paths == UNION {[1 .. n -> Char] : n \in 0 .. MaxLen}

\* The call.  A path that is empty or does not begin with PATH_SEPARATOR is left
\* alone.
PathCall ==
  /\ buf = Append(path, EOS)
  /\ rd = StartPoint /\ wr = StartPoint
  /\ checkDot = TRUE
  /\ done = (path = <<>> \/ path[1] # Slash)

PathInit == path \in Paths /\ PathCall

Cur == buf[rd]

Reading == ~done /\ Cur # EOS

Separator ==
  /\ Reading /\ isSeparator(Cur)
  /\ rd' = rd + 1
  /\ checkDot' = TRUE
  /\ UNCHANGED <<path, buf, wr, done>>

\* The component that begins here is "." or "..".
AtDot == checkDot /\ Cur = Dot /\ isComponentEnd(buf[rd + 1])

AtDotDot ==
  /\ checkDot /\ Cur = Dot
  /\ buf[rd + 1] = Dot /\ isComponentEnd(buf[rd + 2])

SkipDot ==
  /\ Reading /\ AtDot
  /\ rd' = rd + 1
  /\ UNCHANGED <<path, buf, wr, checkDot, done>>

\* Mutant: the search for the separator starts behind the last character.
LastSeparatorStays ==
  LET back == {k \in StartPoint + 1 .. wr : buf[k] = Slash}
  IN  IF back = {} THEN StartPoint
      ELSE CHOOSE k \in back : \A j \in back : j <= k

\* Where `do out--' stops: at the last separator written or at erasePoint.
LastSeparator ==
  LET back == {k \in StartPoint + 1 .. wr - 1 : buf[k] = Slash}
  IN  IF back = {} THEN StartPoint
      ELSE CHOOSE k \in back : \A j \in back : j <= k

\* "..": the last component that was written is taken back.
DotDot ==
  /\ Reading /\ AtDotDot
  /\ wr > StartPoint
  /\ rd' = rd + 2
  /\ wr' = LastSeparator
  /\ UNCHANGED <<path, buf, checkDot, done>>

\* ".." with nothing to take back falls through: its first dot is written.
DotDotAtRoot ==
  /\ Reading /\ AtDotDot
  /\ wr = StartPoint
  /\ rd' = rd + 2
  /\ buf' = [buf EXCEPT ![wr] = Dot]
  /\ wr' = wr + 1
  /\ checkDot' = FALSE
  /\ UNCHANGED <<path, done>>

\* A separator is due in front of every component but the first.
SeparatorDue == checkDot /\ wr > StartPoint

\* Any other character is copied, behind a separator if it begins a component.
Copy ==
  /\ Reading /\ ~isSeparator(Cur) /\ ~AtDot /\ ~AtDotDot
  /\ rd' = rd + 1
  /\ checkDot' = FALSE
  /\ IF SeparatorDue
       THEN buf' = [buf EXCEPT ![wr] = Slash, ![wr + 1] = Cur] /\ wr' = wr + 2
       ELSE buf' = [buf EXCEPT ![wr] = Cur] /\ wr' = wr + 1
  /\ UNCHANGED <<path, done>>

Finish ==
  /\ ~done /\ Cur = EOS
  /\ buf' = [buf EXCEPT ![wr] = EOS]
  /\ rd' = rd + 1
  /\ done' = TRUE
  /\ UNCHANGED <<path, wr, checkDot>>

PathNext ==
  \/ Separator
  \/ SkipDot
  \/ DotDot
  \/ DotDotAtRoot
  \/ Copy
  \/ Finish

PathSpec == PathInit /\ [][PathNext]_pathVars

-----------------------------------------------------------------------------
(* What a path means: the names from the root down to the node it leads to,  *)
(* where ".." at the root stays there.                                       *)
At(dirs, above) == [dirs |-> dirs, name |-> <<>>, above |-> above]
AtRoot == At(<<>>, FALSE)

Enter(r) ==
  IF r.name \in {<<>>, <<Dot>>} THEN At(r.dirs, r.above)
  ELSE IF r.name # <<Dot, Dot>> THEN At(Append(r.dirs, r.name), r.above)
  ELSE IF r.dirs = <<>> THEN At(<<>>, TRUE)
  ELSE At(SubSeq(r.dirs, 1, Len(r.dirs) - 1), r.above)

Onward(r, c) ==
  IF isSeparator(c) THEN Enter(r)
  ELSE [dirs |-> r.dirs, name |-> Append(r.name, c), above |-> r.above]

\* How far the first k characters of a path lead, for every k
Walked(p) ==
  LET upTo[k \in 0 .. Len(p)] == IF k = 0 THEN AtRoot ELSE Onward(upTo[k - 1], p[k])
  IN  upTo

Walk(p) == Enter(Walked(p)[Len(p)])

Resolve(p) == Walk(p).dirs
AboveRoot(p) == Walk(p).above

\* The shortest path to a node.
Child(p, name) == p \o (<<Slash>> \o name)

Joined(dirs) ==
  LET upTo[k \in 0 .. Len(dirs)] == IF k = 0 THEN <<>> ELSE Child(upTo[k - 1], dirs[k])
  IN  upTo

Canonical(dirs) == IF dirs = <<>> THEN <<Slash>> ELSE Joined(dirs)[Len(dirs)]

Compacted == done /\ path # <<>> /\ path[1] = Slash
Result == SubSeq(buf, 1, wr - 1)

(* The writer never overtakes the reader: what is still to be read is what   *)
(* the caller passed.                                                        *)
UnreadIsIntact ==
  ~done => /\ wr <= rd
           /\ \A i \in rd .. Len(path) : buf[i] = path[i]

(* The compacted path leads to the node the path led to, whatever dots and   *)
(* separators it had.                                                        *)
SameNode == Compacted => Resolve(Result) = Resolve(path)

(* It is also the shortest such path, except that a ".." which climbs above  *)
(* the root can leave a "." component behind.                                *)
Shortest == Compacted /\ ~AboveRoot(path) => Result = Canonical(Resolve(path))

(* All three: compacting a path in its own buffer is exact.                  *)
CompactsRight == UnreadIsIntact /\ SameNode /\ Shortest
=============================================================================
