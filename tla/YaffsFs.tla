------------------------------ MODULE YaffsFs ------------------------------
(***************************************************************************)
(* The calls of yaffs direct (fs/yaffs2/_private/direct/yaffsfs.c) on the  *)
(* objects of YaffsObjects: handles name file descriptors, descriptors     *)
(* name inodes, an inode pins an object while somebody has it open.        *)
(*                                                                         *)
(* Every call runs under yaffsfs_Lock and is one step, but for reads and   *)
(* writes: they let the lock go between two pieces of YAFFSFS_RW_SIZE, so  *)
(* that anything may happen to the handle in between.  Power may fail      *)
(* between two steps; what a failure in the middle of a flash write leaves *)
(* is YaffsScan.                                                           *)
(*                                                                         *)
(* A path is a sequence of components; an absolute one starts with "/",    *)
(* the mount point of a device, and a last component "" is                 *)
(* a trailing slash.  CheckPath and CheckMemRegion hold of such paths.     *)
(* The wrappers xxx and xxx_reldev only choose where a path starts.        *)
(***************************************************************************)
EXTENDS YaffsObjects

CONSTANTS
  RwSize,       \* YAFFSFS_RW_SIZE
  MaxSymlinks   \* YAFFSFS_MAX_SYMLINK_DEREFERENCES

NHandles == prog.nHandles      \* YAFFSFS_N_HANDLES
NDsc == prog.nDsc              \* YAFFSFS_N_DSC
MaxObjects == prog.maxObjects  \* param.max_objects, 0 for no limit
Threads == prog.threads
Paths == prog.paths            \* the paths the program uses
Aliases == prog.aliases        \* what its symbolic links say
Calls == prog.calls            \* the calls it makes
OpenModes == prog.openModes    \* the flags it opens with: sets of "r", "w", "creat", "excl", "trunc", "append"
Shares == prog.shares          \* what it shares an open file for: sets of "r", "w"
Sizes == prog.sizes            \* the lengths it reads, writes and truncates to
Offsets == prog.offsets        \* where it reads and writes: -1 at the position of the handle
MaxIds == prog.maxIds          \* bound: objects of a device besides the four fake directories

VARIABLES
  s,      \* the memory of the file system
  io,     \* the read or write each thread has between two pieces
  ret,    \* what the call that ended with the last step returned: "ok" or the
          \* error; "none" after a step that ends no call
  held    \* the handles the program has from open and dup and has not closed

vars == <<prog, s, io, ret, held>>

Handles == 0 .. NHandles - 1
Idle == [op |-> "idle"]

FreeFd == [count |-> 0, inode |-> -1, isDir |-> FALSE, rd |-> FALSE, wr |-> FALSE, append |-> FALSE,
           shareRd |-> FALSE, shareWr |-> FALSE, pos |-> 0, dir |-> -1]
FreeDsc == [inUse |-> FALSE, dir |-> Null, next |-> Null, had |-> {}, seen |-> {}]

\* yaffsfs_InitHandles; every device formatted and mounted
Memory ==
  [obj |-> [o \in UNION {DOMAIN create_initial_dir(v) : v \in Devs} |-> create_initial_dir(DevOf(o))[o]],
   finder |-> [v \in Devs |-> 0], nDeleted |-> [v \in Devs |-> 0],
   mounted |-> [v \in Devs |-> TRUE], ro |-> [v \in Devs |-> FALSE],
   rc |-> TRUE, new |-> Null, full |-> FALSE,
   dsc |-> [k \in 0 .. NDsc - 1 |-> FreeDsc],
   handle |-> [h \in Handles |-> [fd |-> -1, use |-> 0]],
   fd |-> [f \in Handles |-> FreeFd],
   inode |-> [i \in Handles |-> [obj |-> Null, count |-> 0]]]

-----------------------------------------------------------------------------
(* Handles, file descriptors, inodes                                       *)

HandleToFileDes(x, h) ==
  IF h \in Handles /\ x.handle[h].use > 0 /\ x.handle[h].fd \in Handles THEN x.handle[h].fd ELSE -1

HandleToInode(x, h) ==
  LET f == HandleToFileDes(x, h)
  IN  IF f >= 0 /\ x.fd[f].count > 0 /\ x.fd[f].inode \in Handles THEN x.fd[f].inode ELSE -1

HandleToObject(x, h) ==
  LET i == HandleToInode(x, h) IN IF i >= 0 THEN x.inode[i].obj ELSE Null

\* obj->my_dev->read_only, which every call that writes looks at
ReadOnly(x, o) == x.ro[DevOf(o)]

\* The first entry of a table that has the property, or -1
First(S) == IF S = {} THEN -1 ELSE CHOOSE i \in S : \A j \in S : i <= j

FindInodeIdForObject(x, o) ==
  First({i \in Handles : x.inode[i].obj = get_equivalent_obj(x, o)})

\* x.got is the inode's index.
GetInodeIdForObject(x, o) ==
  LET e == get_equivalent_obj(x, o)
      i == FindInodeIdForObject(x, o)
      j == IF i >= 0 THEN i ELSE First({k \in Handles : x.inode[k].obj = Null})
  IN  [x |-> IF j < 0 THEN x
             ELSE [x EXCEPT !.inode[j] = [obj |-> e, count |-> IF @.obj = Null THEN 1 ELSE @.count + 1]],
       id |-> j]

\* The last user of an object that has been unlinked deletes it.
ReleaseInode(x, i) ==
  LET o == x.inode[i].obj
      x1 == [x EXCEPT !.obj[o].ino = FALSE, !.inode[i].obj = Null]
  IN  IF x.obj[o].unlinked THEN del_obj(x1, o) ELSE x1

PutInode(x, i) ==
  LET x1 == [x EXCEPT !.inode[i].count = @ - 1]
  IN  IF x1.inode[i].count <= 0 THEN [ReleaseInode(x1, i) EXCEPT !.inode[i].count = 0] ELSE x1

closedir_no_lock(x, k) == [x EXCEPT !.dsc[k] = FreeDsc]

PutFileDes(x, f) ==
  LET x1 == [x EXCEPT !.fd[f].count = @ - 1]
      x2 == IF x1.fd[f].isDir THEN closedir_no_lock(x1, x1.fd[f].dir) ELSE x1
      x3 == IF x2.fd[f].inode >= 0 THEN PutInode(x2, x2.fd[f].inode) ELSE x2
  IN  IF f \notin Handles THEN x
      ELSE IF x1.fd[f].count >= 1 THEN x1
      ELSE [x3 EXCEPT !.fd[f] = FreeFd]

GetHandle(x, h) == IF x.handle[h].use > 0 THEN [x EXCEPT !.handle[h].use = @ + 1] ELSE x

PutHandle(x, h) ==
  LET x1 == [x EXCEPT !.handle[h].use = @ - 1]
  IN  IF x.handle[h].use <= 0 THEN x
      ELSE IF x1.handle[h].use >= 1 THEN x1
      ELSE [PutFileDes(x1, x1.handle[h].fd) EXCEPT !.handle[h].fd = -1]

NewHandle(x) == First({h \in Handles : x.handle[h].use < 1})

\* A handle and a descriptor; -1 and nothing taken if one of them is missing.
NewHandleAndFileDes(x) ==
  LET h == NewHandle(x)
      f == First({g \in Handles : x.fd[g].count < 1})
  IN  IF h < 0 \/ f < 0 THEN [x |-> x, h |-> -1]
      ELSE [x |-> [x EXCEPT !.handle[h] = [fd |-> f, use |-> 1], !.fd[f] = [FreeFd EXCEPT !.count = 1]],
            h |-> h]

\* Every handle is invalidated, whatever its device; the descriptors of this
\* device are given back.
BreakOne(v, x, h) ==
  LET f == HandleToFileDes(x, h)
      o == HandleToObject(x, h)
      x1 == IF x.handle[h].use > 0 THEN [x EXCEPT !.handle[h] = [fd |-> 0, use |-> 0]] ELSE x
  IN  IF f >= 0 /\ o # Null /\ DevOf(o) = v
      THEN [PutInode([x1 EXCEPT !.fd[f].count = 0], x1.fd[f].inode) EXCEPT !.fd[f].inode = -1]
      ELSE x1
BreakDeviceHandles(x, v) ==
  Loop(LAMBDA acc, i : BreakOne(v, acc, i - 1), x, [i \in 1 .. NHandles |-> i])

-----------------------------------------------------------------------------
(* Paths                                                                   *)

\* What a search of a path yields: dir and name of yaffsfs_FindDirectory, obj of
\* yaffsfs_FindObject, and whether a file or a loop of links was in the way.
Miss(notDir, loop) == [obj |-> Null, dir |-> Null, name |-> "", notDir |-> notDir, loop |-> loop]

RECURSIVE Walk(_, _, _, _), FindObject(_, _, _, _, _), FollowLink(_, _, _)

\* yaffsfs_DoFindDirectory from the directory it has reached
Walk(x, dir, path, depth) ==
  LET c == Head(path)
      f == FollowLink(x, find_by_name(x, dir, c), depth)
      next == CASE c = "." -> dir [] c = ".." -> x.obj[dir].parent [] OTHER -> f.obj
      there == c \in {".", ".."} \/ next = Null \/ IsDir(x, next)
  IN  IF Len(path) <= 1
      THEN [Miss(FALSE, FALSE) EXCEPT !.dir = dir, !.name = IF path = <<>> THEN "" ELSE c]
      ELSE IF ~there \/ next = Null THEN Miss(~there, c \notin {".", ".."} /\ f.loop)
      ELSE Walk(x, next, Tail(path), depth)

FindDirectory(x, start, path, depth) ==
  IF depth > MaxSymlinks THEN Miss(FALSE, TRUE)
  ELSE IF path # <<>> /\ path[1] = "/"
       THEN IF x.mounted[path[2]] THEN Walk(x, Root(path[2]), SubSeq(path, 3, Len(path)), depth)
            ELSE Miss(FALSE, FALSE)
       ELSE Walk(x, start, path, depth)

FindObject(x, start, path, depth, equiv) ==
  With(FindDirectory(x, start, path, depth), LAMBDA d :
  LET o == CASE d.dir = Null -> Null
             [] d.dir # Null /\ d.name = ".." -> x.obj[d.dir].parent
             [] d.dir # Null /\ d.name \in {".", ""} -> d.dir
             [] OTHER -> find_by_name(x, d.dir, d.name)
  IN  [d EXCEPT !.obj = IF equiv THEN get_equivalent_obj(x, o) ELSE o])

\* depth counts the links of this chain; a link inside the path of a link starts
\* from the depth of the chain it is in.
FollowLink(x, o, depth) ==
  LET e == get_equivalent_obj(x, o)
      r == FindObject(x, x.obj[e].parent, x.obj[e].alias, depth, TRUE)
      n == FollowLink(x, r.obj, depth + 1)
  IN  IF e = Null \/ x.obj[e].type # "symlink" THEN [obj |-> e, loop |-> FALSE]
      ELSE [obj |-> n.obj, loop |-> r.loop \/ n.loop]

Lookup(x, path, equiv) == FindObject(x, Null, path, 0, equiv)

\* ... and the link the last component may be
LookupFollow(x, path) ==
  With(Lookup(x, path, TRUE), LAMBDA d :
  With(FollowLink(x, d.obj, 0), LAMBDA f :
  [d EXCEPT !.obj = f.obj, !.loop = @ \/ f.loop]))

\* The errors every call on a path reports first
DirError(d) ==
  IF d.dir = Null /\ d.notDir THEN "ENOTDIR" ELSE IF d.loop THEN "ELOOP" ELSE IF d.dir = Null THEN "ENOENT" ELSE "ok"
PathError(d) == IF DirError(d) # "ok" THEN DirError(d) ELSE IF d.obj = Null THEN "ENOENT" ELSE "ok"

\* yaffsfs_alt_dir_path: trailing slashes are cut off.
RECURSIVE alt_dir_path(_)
alt_dir_path(path) ==
  IF Len(path) > 2 /\ Last(path) = "" THEN alt_dir_path(Front(path)) ELSE path

TooManyObjects(x, v) ==
  MaxObjects > 0 /\ Cardinality({o \in DOMAIN x.obj : DevOf(o) = v}) - x.nDeleted[v] > MaxObjects

\* The result of a call: the memory it leaves and what it returns
Result(x, r) == [x |-> x, r |-> r]
OkOr(x, err) == Result(x, IF x.rc THEN "ok" ELSE err)

-----------------------------------------------------------------------------
(* Searching a directory                                                   *)

SetDirRewound(x, c) ==
  IF ~Live(x, c.dir) \/ ~IsDir(x, c.dir) THEN c
  ELSE LET kids == x.obj[c.dir].kids
       IN  [c EXCEPT !.next = IF kids = <<>> THEN Null ELSE kids[1], !.had = Range(kids), !.seen = {}]

\* k is the context it got, or -1.
opendir_no_lock(x, o) ==
  LET k == First({j \in DOMAIN x.dsc : ~x.dsc[j].inUse})
  IN  [k |-> k, x |-> IF k < 0 THEN x
                      ELSE [x EXCEPT !.dsc[k] = SetDirRewound(x, [FreeDsc EXCEPT !.inUse = TRUE, !.dir = o])]]

readdir_no_lock(x, k) ==
  LET c == x.dsc[k]
  IN  IF ~c.inUse THEN Result(x, "EBADF")
      ELSE IF c.next = Null THEN Result(x, "end")
      ELSE Result([x EXCEPT !.dsc[k] = [DirAdvance(x, c) EXCEPT !.seen = @ \cup {c.next}]], "ok")

rewinddir_no_lock(x, k) == Result([x EXCEPT !.dsc[k] = SetDirRewound(x, @)], "ok")

opendir(x, path) ==
  With(LookupFollow(x, path), LAMBDA d :
  With(opendir_no_lock(x, d.obj), LAMBDA o :
  CASE d.obj = Null /\ d.notDir -> Result(x, "ENOTDIR")
    [] d.loop /\ ~(d.obj = Null /\ d.notDir) -> Result(x, "ELOOP")
    [] ~d.loop /\ d.obj = Null /\ ~d.notDir -> Result(x, "ENOENT")
    [] OTHER -> IF ~IsDir(x, d.obj) THEN Result(x, "ENOTDIR")
                ELSE Result(o.x, IF o.k < 0 THEN "none" ELSE "ok")))

-----------------------------------------------------------------------------
(* Opening and closing                                                     *)

\* Other opens of the object that this one cannot be shared with
ShareConflict(x, o, rd, wr, share) ==
  \E f \in Handles :
    LET e == x.fd[f]
    IN  /\ e.count > 0 /\ e.inode >= 0
        /\ x.inode[e.inode].obj = o
        /\ \/ ~e.shareRd /\ rd
           \/ "r" \notin share /\ e.rd
           \/ ~e.shareWr /\ wr
           \/ "w" \notin share /\ e.wr

OpenError(x, o, rd, wr, flags, share, k) ==
  IF IsDir(x, o) /\ k < 0 THEN "ENFILE"
  ELSE IF {"creat", "excl"} \subseteq flags THEN "EEXIST"
  ELSE IF wr /\ ReadOnly(x, o) THEN "EROFS"
  ELSE IF (rd /\ "r" \notin x.obj[o].mode) \/ (wr /\ "w" \notin x.obj[o].mode) THEN "EACCES"
  ELSE IF ShareConflict(x, o, rd, wr, share) THEN "EBUSY"
  ELSE "ok"

\* There is nothing to open: a file is made, if the caller asked for one.
OpenCreate(x, path, loop, flags) ==
  With(FindDirectory(x, Null, path, 0), LAMBDA d :
  LET e == DirError([d EXCEPT !.loop = @ \/ loop])
      v == DevOf(d.dir)
  IN  With(create_file(x, d.dir, d.name), LAMBDA x1 :
  IF e # "ok" THEN Result(x, e)
  ELSE IF "creat" \notin flags THEN Result(x, "ENOENT")
  ELSE IF ReadOnly(x, d.dir) THEN Result(x, "EROFS")
  ELSE IF TooManyObjects(x, v) THEN Result(x, "ENFILE")
  ELSE Result(x1, IF x1.new = Null THEN "ENOSPC" ELSE "ok")))

\* The object is open from now on: an inode pins it.
Attach(x, h, o, rd, wr, flags, share, k) ==
  LET f == x.handle[h].fd
      i == GetInodeIdForObject(x, o)
  IN  With([i.x EXCEPT !.fd[f] = [@ EXCEPT !.inode = i.id, !.rd = rd, !.wr = wr, !.append = "append" \in flags,
                                       !.shareRd = "r" \in share, !.shareWr = "w" \in share,
                                       !.isDir = IsDir(x, o), !.pos = 0, !.dir = k],
                   !.obj[o].ino = TRUE], LAMBDA x1 :
  IF ~IsDir(x, o) /\ wr /\ "trunc" \in flags /\ ~({"creat", "excl"} \subseteq flags)
  THEN resize_file(x1, o, 0) ELSE x1)

open(x, path, flags, share) ==
  LET n == NewHandleAndFileDes(x)
      d == Lookup(x, path, TRUE)
  IN  With(FollowLink(x, d.obj, 0), LAMBDA fl :
  LET o == fl.obj
      isDir == o # Null /\ IsDir(x, o)
  IN  With(opendir_no_lock(n.x, o), LAMBDA od :
  LET x1 == IF isDir THEN od.x ELSE n.x
      k == IF isDir THEN od.k ELSE -1
      rd == isDir \/ "r" \in flags
      wr == ~isDir /\ "w" \in flags
      e == OpenError(x1, o, rd, wr, flags, share, k)
  IN  With(OpenCreate(n.x, path, fl.loop, flags), LAMBDA c :
  LET back == IF k >= 0 THEN closedir_no_lock(x1, k) ELSE x1
  IN  IF n.h < 0 THEN Result(x, "ENFILE")
      ELSE IF o # Null
      THEN IF e = "ok" THEN Result(Attach(x1, n.h, o, rd, wr, flags, share, k), "ok")
           ELSE Result(PutHandle(back, n.h), e)
      ELSE IF c.r = "ok" THEN Result(Attach(c.x, n.h, c.x.new, rd, wr, flags, share, -1), "ok")
           ELSE Result(PutHandle(c.x, n.h), c.r))))

\* Mutant: close does not wait for a read or write that holds the handle.
close_Now(x, h) == Result(PutHandle([x EXCEPT !.handle[h].use = 1], h), "ok")

close(x, h) == IF HandleToObject(x, h) = Null THEN Result(x, "EBADF") ELSE Result(PutHandle(x, h), "ok")

\* A second handle for the same descriptor
AddUser(x, f) == [x EXCEPT !.fd[f].count = @ + 1]
dup(x, h) ==
  LET f == HandleToFileDes(x, h)
      n == NewHandle(x)
  IN  IF f < 0 THEN Result(x, "EBADF")
      ELSE IF n < 0 THEN Result(x, "ENOMEM")
      ELSE Result(AddUser([x EXCEPT !.handle[n] = [fd |-> f, use |-> 1]], f), "ok")

-----------------------------------------------------------------------------
(* Reading and writing, one piece at a time                                *)

get_obj_length(x, o) == IF x.obj[o].type = "file" THEN x.obj[o].size ELSE 1

\* The call after its last piece: the handle is given back, then the position set.
IoFinish(x, j) ==
  With(PutHandle(x, j.h), LAMBDA x1 :
  LET moved == ~j.p /\ (j.total > 0 \/ (j.op = "read" /\ j.total = 0))
  IN  Result(IF moved THEN [x1 EXCEPT !.fd[j.fd].pos = j.start + j.total] ELSE x1,
             IF j.total >= 0 THEN "ok" ELSE IF j.p THEN j.err ELSE "EINVAL"))

\* A piece of n bytes of which got were moved: a short one ends the call.
AfterPiece(j, got, n) ==
  [j EXCEPT !.total = @ + got, !.pos = @ + got, !.left = IF got = n THEN @ - n ELSE 0]

\* One piece ends at a multiple of YAFFSFS_RW_SIZE.  file_rd delivers all it is
\* asked for; wr_file stops when the device is full.
IoPiece(x, j) ==
  LET want == RwSize - (j.pos % RwSize)
      n == IF want > j.left THEN j.left ELSE want
      o == HandleToObject(x, j.h)
      got == IF o = Null \/ (j.op = "write" /\ (ReadOnly(x, o) \/ x.full)) THEN 0 ELSE n
      j1 == AfterPiece(j, got, n)
      grown == IF j.op = "write" /\ got > 0 /\ x.obj[o].size < j.pos + got
               THEN [x EXCEPT !.obj[o].size = j.pos + got] ELSE x
  IN  [x |-> grown,
       j |-> IF j.op = "write" /\ got < 1 /\ j1.total < 1 THEN [j1 EXCEPT !.total = -1, !.err = "ENOSPC"] ELSE j1]

Fits(start, n) == start + n <= MaxSize

\* Up to the first piece.  off < 0 is read and write, else pread and pwrite.
IoBegin(x, op, h, n, off) ==
  LET f == HandleToFileDes(x, h)
      o == HandleToObject(x, h)
      len == get_obj_length(x, o)
      start == IF op = "write" /\ x.fd[f].append THEN len ELSE IF off >= 0 THEN off ELSE x.fd[f].pos
  IN  With(IF len > start THEN len - start ELSE 0, LAMBDA most :
  LET nbyte == IF op = "read" /\ n > most THEN most ELSE n
      fits == Fits(start, nbyte)
  IN  IF o = Null THEN [err |-> "EBADF"]
      ELSE IF (op = "read" /\ ~x.fd[f].rd) \/ (op = "write" /\ ~x.fd[f].wr) THEN [err |-> "EINVAL"]
      ELSE IF op = "write" /\ ReadOnly(x, o) THEN [err |-> "EROFS"]
      ELSE [err |-> "", x |-> GetHandle(x, h),
            j |-> [op |-> op, h |-> h, fd |-> f, obj |-> o, p |-> off >= 0, start |-> start, pos |-> start,
                   left |-> IF fits THEN nbyte ELSE 0, total |-> IF fits THEN 0 ELSE -1, err |-> "EINVAL"]])

\* The position of a directory is its search context (v is a union): position 0
\* is the null pointer.
lseek(x, h, offset, whence) ==
  LET f == HandleToFileDes(x, h)
      o == HandleToObject(x, h)
      pos == CASE whence = "set" -> offset
               [] whence = "cur" -> x.fd[f].pos + offset
               [] whence = "end" -> get_obj_length(x, o) + offset
  IN  IF o = Null THEN Result(x, "EBADF")
      ELSE IF offset > MaxSize \/ pos < 0 \/ pos > MaxSize THEN Result(x, "EINVAL")
      ELSE IF x.fd[f].isDir THEN Result([x EXCEPT !.fd[f].dir = -1], "ok")
      ELSE Result([x EXCEPT !.fd[f].pos = pos], "ok")

ftruncate(x, h, size) ==
  LET o == HandleToObject(x, h)
  IN  IF o = Null THEN Result(x, "EBADF")
      ELSE IF ~x.fd[HandleToFileDes(x, h)].wr THEN Result(x, "EINVAL")
      ELSE IF ReadOnly(x, o) THEN Result(x, "EROFS")
      ELSE IF size > MaxSize THEN Result(x, "EINVAL")
      ELSE Result(resize_file(x, o, size), "ok")

truncate(x, path, size) ==
  With(LookupFollow(x, path), LAMBDA d :
  IF PathError(d) # "ok" THEN Result(x, PathError(d))
  ELSE IF ReadOnly(x, d.obj) THEN Result(x, "EROFS")
  ELSE IF x.obj[d.obj].type # "file" THEN Result(x, "EISDIR")
  ELSE IF size > MaxSize THEN Result(x, "EINVAL")
  ELSE Result(resize_file(x, d.obj, size), "ok"))

-----------------------------------------------------------------------------
(* The name space                                                          *)

DoUnlink(x, path, isDirectory) ==
  With(Lookup(x, path, FALSE), LAMBDA d :
  IF DirError(d) # "ok" THEN Result(x, DirError(d))
  ELSE IF d.name = "." THEN Result(x, "EINVAL")
  ELSE IF d.obj = Null THEN Result(x, "ENOENT")
  ELSE IF ReadOnly(x, d.obj) THEN Result(x, "EROFS")
  ELSE IF ~isDirectory /\ IsDir(x, d.obj) THEN Result(x, "EISDIR")
  ELSE IF isDirectory /\ ~IsDir(x, d.obj) THEN Result(x, "ENOTDIR")
  ELSE IF isDirectory /\ d.obj = Root(DevOf(d.obj)) THEN Result(x, "EBUSY")
  ELSE OkOr(unlinker(x, d.dir, d.name), "ENOTEMPTY"))

rmdir(x, path) == DoUnlink(x, alt_dir_path(path), TRUE)

funlink(x, h) ==
  LET o == HandleToObject(x, h)
  IN  IF o = Null THEN Result(x, "EBADF")
      ELSE IF ReadOnly(x, o) THEN Result(x, "EROFS")
      ELSE IF is_non_empty_dir(x, o) THEN Result(x, "ENOTEMPTY")
      ELSE IF o = Root(DevOf(o)) THEN Result(x, "EBUSY")
      ELSE OkOr(unlink_obj(x, o), "-1")

rename_file_over_dir(x, o, n) == ~IsDir(x, o) /\ n # Null /\ IsDir(x, n)
rename_dir_over_file(x, o, n) == IsDir(x, o) /\ n # Null /\ ~IsDir(x, n)


\* A directory must not move into itself: is o on the way up from dir?
RECURSIVE Above(_, _, _)
Above(x, o, dir) == dir # Null /\ (dir = o \/ Above(x, o, x.obj[dir].parent))

rename(x, oldPath, newPath0) ==
  LET newPath == alt_dir_path(newPath0)
  IN  With(Lookup(x, oldPath, FALSE), LAMBDA d :
  With(Lookup(x, newPath, FALSE), LAMBDA n :
  LET oldName == IF d.dir = d.obj THEN "" ELSE d.name
      e == IF DirError(d) = "ENOTDIR" \/ DirError(n) = "ENOTDIR" THEN "ENOTDIR"
           ELSE IF d.loop \/ n.loop THEN "ELOOP"
           ELSE IF d.dir # Null /\ oldName = "." THEN "EINVAL"
           ELSE IF d.dir = Null \/ n.dir = Null \/ d.obj = Null THEN "ENOENT"
           ELSE IF ReadOnly(x, d.obj) THEN "EROFS"
           ELSE IF rename_file_over_dir(x, d.obj, n.obj) THEN "EISDIR"
           ELSE IF rename_dir_over_file(x, d.obj, n.obj) THEN "ENOTDIR"
           ELSE IF is_non_empty_dir(x, n.obj) THEN "ENOTEMPTY"
           ELSE IF DevOf(d.dir) # DevOf(n.dir) THEN "EXDEV"
           ELSE IF IsDir(x, d.obj) /\ Above(x, d.obj, n.dir) THEN "EINVAL"
           ELSE "ok"
  IN  IF e # "ok" THEN Result(x, e) ELSE OkOr(rename_obj(x, d.dir, oldName, n.dir, n.name), "-1")))

mkdir(x, path0) ==
  LET path == alt_dir_path(path0)
  IN  With(FindDirectory(x, Null, path, 0), LAMBDA d :
  With(create_dir(x, d.dir, d.name), LAMBDA x1 :
  IF DirError(d) # "ok" THEN Result(x, DirError(d))
  ELSE IF TooManyObjects(x, DevOf(d.dir)) THEN Result(x, "ENFILE")
  ELSE IF d.name = "" THEN Result(x, "EEXIST")
  ELSE IF ReadOnly(x, d.dir) THEN Result(x, "EROFS")
  ELSE Result(x1, IF x1.new # Null THEN "ok"
                  ELSE IF find_by_name(x, d.dir, d.name) # Null THEN "EEXIST" ELSE "ENOSPC")))

symlink(x, alias, path) ==
  With(FindDirectory(x, Null, path, 0), LAMBDA d :
  With(create_symlink(x, d.dir, d.name, alias), LAMBDA x1 :
  IF DirError(d) # "ok" THEN Result(x, DirError(d))
  ELSE IF d.name = "" THEN Result(x, "ENOENT")
  ELSE IF TooManyObjects(x, DevOf(d.dir)) THEN Result(x, "ENFILE")
  ELSE IF ReadOnly(x, d.dir) THEN Result(x, "EROFS")
  ELSE Result(x1, IF x1.new # Null THEN "ok"
                  ELSE IF Lookup(x, path, FALSE).obj # Null THEN "EEXIST" ELSE "ENOSPC")))

readlink(x, path) ==
  With(Lookup(x, path, TRUE), LAMBDA d :
  IF PathError(d) # "ok" THEN PathError(d)
  ELSE IF x.obj[d.obj].type # "symlink" THEN "EINVAL" ELSE "ok")

link(x, oldPath, linkPath) ==
  With(Lookup(x, oldPath, TRUE), LAMBDA d :
  With(Lookup(x, linkPath, FALSE), LAMBDA l :
  With(link_obj(x, l.dir, l.name, d.obj), LAMBDA x1 :
  IF DirError(d) = "ENOTDIR" \/ DirError(l) = "ENOTDIR" THEN Result(x, "ENOTDIR")
  ELSE IF d.loop \/ l.loop THEN Result(x, "ELOOP")
  ELSE IF d.dir = Null \/ l.dir = Null \/ d.obj = Null THEN Result(x, "ENOENT")
  ELSE IF ReadOnly(x, d.obj) THEN Result(x, "EROFS")
  ELSE IF TooManyObjects(x, DevOf(d.obj)) THEN Result(x, "ENFILE")
  ELSE IF l.obj # Null THEN Result(x, "EEXIST")
  ELSE IF DevOf(l.dir) # DevOf(d.obj) THEN Result(x, "EXDEV")
  ELSE IF l.name = "" THEN Result(x, "ENOENT")
  ELSE Result(x1, IF x1.new # Null THEN "ok" ELSE "ENOSPC"))))

-----------------------------------------------------------------------------
(* Attributes.  Times are not modelled: utime and the like only flush.     *)

DoStatOrLStat(x, path, doLStat) == PathError(IF doLStat THEN Lookup(x, path, TRUE) ELSE LookupFollow(x, path))

DoUtime(x, o) == IF ReadOnly(x, o) THEN "EROFS" ELSE "ok"
utime(x, path) ==
  With(Lookup(x, path, TRUE), LAMBDA d :
  IF PathError(d) # "ok" THEN PathError(d) ELSE DoUtime(x, d.obj))

access(x, path, amode) ==
  With(LookupFollow(x, path), LAMBDA d :
  IF PathError(d) # "ok" THEN PathError(d)
  ELSE IF "w" \in amode /\ ReadOnly(x, d.obj) THEN "EROFS"
  ELSE IF amode \subseteq x.obj[d.obj].mode THEN "ok" ELSE "EACCES")

DoChMod(x, o, mode) == Result([x EXCEPT !.obj[o].mode = mode], "ok")
chmod(x, path, mode) ==
  With(LookupFollow(x, path), LAMBDA d :
  IF PathError(d) # "ok" THEN Result(x, PathError(d))
  ELSE IF ReadOnly(x, d.obj) THEN Result(x, "EROFS") ELSE DoChMod(x, d.obj, mode))

\* Extended attributes by presence (their coding is left out).  None of these
\* calls looks at read_only.
set_xattrib(x, o) == Result([x EXCEPT !.obj[o].xattr = {"user"}], "ok")
remove_xattrib(x, o) == Result([x EXCEPT !.obj[o].xattr = {}], IF x.obj[o].xattr = {} THEN "ENODATA" ELSE "ok")
XattrObj(x, path, follow) == IF follow THEN LookupFollow(x, path) ELSE Lookup(x, path, TRUE)
do_setxattr(x, path, follow) ==
  With(XattrObj(x, path, follow), LAMBDA d :
  IF PathError(d) # "ok" THEN Result(x, PathError(d)) ELSE set_xattrib(x, d.obj))
do_removexattr(x, path, follow) ==
  With(XattrObj(x, path, follow), LAMBDA d :
  IF PathError(d) # "ok" THEN Result(x, PathError(d)) ELSE remove_xattrib(x, d.obj))
do_getxattr(x, path, follow) ==
  With(XattrObj(x, path, follow), LAMBDA d :
  IF PathError(d) # "ok" THEN PathError(d) ELSE IF x.obj[d.obj].xattr = {} THEN "ENODATA" ELSE "ok")
do_listxattr(x, path, follow) == PathError(XattrObj(x, path, follow))

\* The same on a handle
OnHandle(x, h, Op(_, _)) ==
  LET o == HandleToObject(x, h) IN IF o = Null THEN Result(x, "EBADF") ELSE Op(x, o)
fsetxattr(x, h) == OnHandle(x, h, set_xattrib)
fremovexattr(x, h) == OnHandle(x, h, remove_xattrib)
fchmod(x, h, mode) ==
  OnHandle(x, h, LAMBDA y, o : IF ReadOnly(y, o) THEN Result(y, "EROFS") ELSE DoChMod(y, o, mode))
futime(x, h) == OnHandle(x, h, LAMBDA y, o : Result(y, DoUtime(y, o)))

\* The calls on a handle that leave the objects alone: fstat, fgetxattr ...; those
\* that flush need a device that can be written.
FdQuery(x, h) == IF HandleToObject(x, h) = Null THEN "EBADF" ELSE "ok"
Dofsync(x, h) ==
  LET o == HandleToObject(x, h) IN IF o = Null THEN "EBADF" ELSE IF ReadOnly(x, o) THEN "EROFS" ELSE "ok"
fgetfl(x, h) == IF HandleToFileDes(x, h) < 0 THEN "EINVAL" ELSE "ok"
-----------------------------------------------------------------------------
(* Devices                                                                 *)

IsDevBusy(x, v) == \E h \in Handles : HandleToObject(x, h) # Null /\ DevOf(HandleToObject(x, h)) = v

\* yaffs_guts_initialise over the objects the flash holds: RAM is built anew,
\* the hard links find their objects, what was unlinked goes.
Scanned(x, v) ==
  [x EXCEPT !.obj = [o \in DOMAIN @ |->
     IF DevOf(o) # v THEN @[o]
     ELSE [@[o] EXCEPT !.links = <<>>, !.ino = FALSE,
                       !.unlinked = x.obj[o].parent \in {Unlinked(v), Deleted(v)},
                       !.renameOk = ~Fake(o) /\ x.obj[o].parent \notin {Unlinked(v), Deleted(v)}]]]
initialise(x, v) ==
  LET x1 == Scanned([x EXCEPT !.finder[v] = 0, !.nDeleted[v] = 0], v)
      x2 == link_fixup(x1, SetToSeq({o \in DOMAIN x1.obj : DevOf(o) = v /\ x1.obj[o].type = "hardlink"}))
  IN  fix_hanging_objs(strip_deleted_objs(x2, v), v)

mount(x, v, readOnly) ==
  IF x.mounted[v] THEN Result(x, "EBUSY")
  ELSE Result(initialise([x EXCEPT !.mounted[v] = TRUE, !.ro[v] = readOnly], v), "ok")

remount(x, v, force, readOnly) ==
  IF ~x.mounted[v] THEN Result(x, "EINVAL")
  ELSE IF force \/ ~IsDevBusy(x, v) THEN Result([x EXCEPT !.ro[v] = readOnly], "ok")
  ELSE Result(x, "EBUSY")

Down(x, v) ==
  [(IF IsDevBusy(x, v) THEN BreakDeviceHandles(x, v) ELSE x) EXCEPT !.mounted[v] = FALSE]
unmount2(x, v, force) ==
  IF ~x.mounted[v] THEN Result(x, "EINVAL")
  ELSE IF IsDevBusy(x, v) /\ ~force THEN Result(x, "EBUSY")
  ELSE Result(Down(x, v), "ok")
\* yaffs_unmount2_reldev and yaffs_remount_reldev hand over no path, which
\* CheckMemRegion refuses.
unmount2_reldev(x, v) == Result(x, "EFAULT")

format(x, v, unmountFlag, force, remountFlag) ==
  With(IF x.mounted[v] /\ unmountFlag /\ (force \/ ~IsDevBusy(x, v)) THEN Down(x, v) ELSE x, LAMBDA x1 :
  LET blank == [x1 EXCEPT !.obj = [o \in {p \in DOMAIN @ : DevOf(p) # v} \cup DOMAIN create_initial_dir(v) |->
                                     IF DevOf(o) = v THEN create_initial_dir(v)[o] ELSE @[o]]]
  IN  IF x1.mounted[v] THEN Result(x1, "EBUSY")
      ELSE IF x.mounted[v] /\ remountFlag THEN Result(initialise([blank EXCEPT !.mounted[v] = TRUE], v), "ok")
      ELSE Result(blank, "ok"))

\* yaffs_sync and the queries of a device
sync_common(x, v) == IF ~x.mounted[v] THEN "EINVAL" ELSE IF x.ro[v] THEN "EROFS" ELSE "ok"
-----------------------------------------------------------------------------
(* The program                                                             *)

Init ==
  /\ prog \in Programs
  /\ s = Memory
  /\ io = [t \in Threads |-> Idle]
  /\ ret = "ok"
  /\ held = {}

\* A thread that is not in a read or a write makes the call.
Call(c) == c \in Calls /\ \E t \in Threads : io[t] = Idle

Settled(x) == [x EXCEPT !.rc = TRUE, !.new = Null, !.full = FALSE]
Return(res) == s' = Settled(res.x) /\ ret' = res.r /\ UNCHANGED <<prog, io>>
Do(res) == Return(res) /\ UNCHANGED held
Ask(r) == ret' = r /\ UNCHANGED <<prog, s, io, held>>

Room == \A v \in Devs : Cardinality({o \in DOMAIN s.obj : DevOf(o) = v}) < 4 + MaxIds
WithFull(full) == [s EXCEPT !.full = full]

Took(x) == {h \in Handles : s.handle[h].use = 0 /\ x.handle[h].use > 0}

Open ==
  /\ Call("open") /\ Room
  /\ \E p \in Paths, fl \in OpenModes, sh \in Shares, full \in BOOLEAN :
       \E res \in {open(WithFull(full), p, fl, sh)} :
       (full => res.r = "ENOSPC") /\ Return(res) /\ held' = held \cup Took(res.x)
Dup ==
  /\ Call("dup")
  /\ \E h \in held : LET res == dup(s, h) IN Return(res) /\ held' = held \cup Took(res.x)
Close == Call("close") /\ \E h \in held : Return(close(s, h)) /\ held' = held \ {h}

EndIo(q) == \E f \in {IoFinish(q.x, q.j)} : s' = Settled(f.x) /\ ret' = f.r

\* A read or write up to the end of its first piece; with nothing to move it ends at once ...
StartIo(t, op, h, n, off) ==
  /\ io[t] = Idle
  /\ \E b \in {IoBegin(s, op, h, n, off)} :
       IF b.err # "" THEN ret' = b.err /\ UNCHANGED <<s, io>>
       ELSE \E q \in {IF b.j.left = 0 THEN b ELSE IoPiece(b.x, b.j)} :
         IF q.j.left = 0 THEN EndIo(q) /\ UNCHANGED io
         ELSE s' = Settled(q.x) /\ io' = [io EXCEPT ![t] = q.j] /\ ret' = "none"
  /\ UNCHANGED <<prog, held>>

\* ... and each piece after that
NextPiece(t) ==
  /\ io[t] # Idle
  /\ \E full \in BOOLEAN :
       \E q \in {IoPiece(WithFull(full), io[t])} :
       /\ full => io[t].op = "write"
       /\ IF q.j.left = 0 THEN EndIo(q) /\ io' = [io EXCEPT ![t] = Idle]
          ELSE s' = Settled(q.x) /\ io' = [io EXCEPT ![t] = q.j] /\ ret' = "none"
  /\ UNCHANGED <<prog, held>>

\* A directory has no data to read.
Files == {h \in held : HandleToFileDes(s, h) < 0 \/ ~s.fd[HandleToFileDes(s, h)].isDir}
Read == Call("read") /\ \E t \in Threads, h \in Files, n \in Sizes, off \in Offsets : StartIo(t, "read", h, n, off)
Write == Call("write") /\ \E t \in Threads, h \in Files, n \in Sizes, off \in Offsets : StartIo(t, "write", h, n, off)
Lseek == Call("lseek") /\ \E h \in held, w \in {"set", "cur", "end"} : Do(lseek(s, h, 0, w))
Truncate ==
  \/ Call("truncate") /\ \E p \in Paths, n \in Sizes : Do(truncate(s, p, n))
  \/ Call("ftruncate") /\ \E h \in Files, n \in Sizes : Do(ftruncate(s, h, n))

Unlink == Call("unlink") /\ \E p \in Paths : Do(DoUnlink(s, p, FALSE))
Rmdir == Call("rmdir") /\ \E p \in Paths : Do(rmdir(s, p))
Funlink == Call("funlink") /\ \E h \in held : Do(funlink(s, h))

\* Not asked for by any program: the first hard link of a file is moved over the
\* file itself.  Unlinking the file then gives it the name of the link and frees
\* the link, which yaffs_rename_obj goes on to use (yaffs_guts.c:3710).
UsesFreedLink(p, q) ==
  LET target == Lookup(s, q, FALSE).obj
  IN  target # Null /\ s.obj[target].links # <<>> /\ Head(s.obj[target].links) = Lookup(s, p, FALSE).obj
Rename == Call("rename") /\ \E p, q \in Paths : ~UsesFreedLink(p, q) /\ Do(rename(s, p, q))

\* A new object, on a device that has room for its header or has not.
Make(make(_)) == \E full \in BOOLEAN : \E res \in {make(WithFull(full))} : (full => res.r = "ENOSPC") /\ Do(res)
Mkdir == Call("mkdir") /\ Room /\ \E p \in Paths : Make(LAMBDA x : mkdir(x, p))
Symlink == Call("symlink") /\ Room /\ \E p \in Paths, a \in Aliases : Make(LAMBDA x : symlink(x, a, p))
Link == Call("link") /\ Room /\ \E p, q \in Paths : Make(LAMBDA x : link(x, p, q))

Stat == Call("stat") /\ \E p \in Paths, l \in BOOLEAN : Ask(DoStatOrLStat(s, p, l))
Readlink == Call("readlink") /\ \E p \in Paths : Ask(readlink(s, p))
Utime == Call("utime") /\ \E p \in Paths : Ask(utime(s, p))
Access == Call("access") /\ \E p \in Paths, a \in SUBSET {"r", "w"} : Ask(access(s, p, a))
Chmod == Call("chmod") /\ \E p \in Paths, m \in SUBSET {"r", "w"} : Do(chmod(s, p, m))
SetXattr == Call("setxattr") /\ \/ \E p \in Paths, follow \in BOOLEAN : Do(do_setxattr(s, p, follow))
                                \/ \E h \in held : Do(fsetxattr(s, h))
RemoveXattr == Call("removexattr") /\ \/ \E p \in Paths, follow \in BOOLEAN : Do(do_removexattr(s, p, follow))
                                      \/ \E h \in held : Do(fremovexattr(s, h))
GetXattr == Call("getxattr") /\ \E p \in Paths, follow \in BOOLEAN : Ask(do_getxattr(s, p, follow))
ListXattr == Call("listxattr") /\ \E p \in Paths, follow \in BOOLEAN : Ask(do_listxattr(s, p, follow))
FdQueries == Call("fstat") /\ \E h \in held : Ask(FdQuery(s, h))
Fsync == Call("fsync") /\ \E h \in held : Ask(Dofsync(s, h))
Fgetfl == Call("fgetfl") /\ \E h \in held : Ask(fgetfl(s, h))
FdChanges == Call("fchmod") /\ \E h \in held : Do(futime(s, h)) \/ \E m \in SUBSET {"r", "w"} : Do(fchmod(s, h, m))
\* There are no device nodes.
Mknod == Call("mknod") /\ Ask("EINVAL")

\* The contexts the program has from opendir: those no descriptor owns
Streams == {k \in DOMAIN s.dsc : s.dsc[k].inUse /\ \A f \in Handles : s.fd[f].dir # k}
DirFds == {f \in Handles : s.fd[f].count > 0 /\ s.fd[f].isDir /\ s.fd[f].dir >= 0}
Opendir == Call("opendir") /\ \E p \in Paths : Do(opendir(s, p))
Readdir == Call("readdir") /\ \E k \in Streams \cup {s.fd[f].dir : f \in DirFds} : Do(readdir_no_lock(s, k))
Rewinddir == Call("rewinddir") /\ \E k \in Streams \cup {s.fd[f].dir : f \in DirFds} : Do(rewinddir_no_lock(s, k))
Closedir == Call("closedir") /\ \E k \in Streams : Do(Result(closedir_no_lock(s, k), "ok"))

Mount == Call("mount") /\ \E v \in Devs, ro \in BOOLEAN : Do(mount(s, v, ro))
Remount == Call("remount") /\ \E v \in Devs, force, ro \in BOOLEAN : Do(remount(s, v, force, ro))
Unmount ==
  \/ Call("unmount") /\ \E v \in Devs : Do(unmount2(s, v, FALSE)) \/ Do(unmount2_reldev(s, v))
  \/ Call("forced unmount") /\ \E v \in Devs : Do(unmount2(s, v, TRUE))
Format == Call("format") /\ \E v \in Devs, u, f, r \in BOOLEAN : Do(format(s, v, u, f, r))
DevCalls == Call("sync") /\ \E v \in Devs : Ask(sync_common(s, v))

\* Power fails between two calls: what is left is what the flash holds.
Crash ==
  /\ "crash" \in Calls
  /\ s' = [Memory EXCEPT !.obj = s.obj, !.mounted = [v \in Devs |-> FALSE]]
  /\ io' = [t \in Threads |-> Idle] /\ held' = {} /\ ret' = "ok" /\ UNCHANGED prog

\* The collector has thrown away the last chunk of a soft deleted file (yaffs1).
GcSoftDeleted ==
  /\ "gc" \in Calls
  /\ \E o \in DOMAIN s.obj :
       /\ s.obj[o].softDel
       /\ s' = Settled(generic_obj_del([s EXCEPT !.nDeleted[DevOf(o)] = @ - 1], o))
  /\ ret' = "none" /\ UNCHANGED <<prog, io, held>>

IoStep == \E t \in Threads : NextPiece(t)

Next ==
  \/ Open \/ Dup \/ Close \/ Read \/ Write \/ IoStep \/ Lseek \/ Truncate
  \/ Unlink \/ Rmdir \/ Funlink \/ Rename \/ Mkdir \/ Symlink \/ Link
  \/ Stat \/ Readlink \/ Utime \/ Access \/ Chmod 
  \/ SetXattr \/ RemoveXattr \/ GetXattr \/ ListXattr \/ FdQueries \/ Fsync \/ Fgetfl \/ FdChanges \/ Mknod
  \/ Opendir \/ Readdir \/ Rewinddir \/ Closedir
  \/ Mount \/ Remount \/ Unmount \/ Format \/ DevCalls \/ Crash \/ GcSoftDeleted

Spec == Init /\ [][Next]_vars

-----------------------------------------------------------------------------
(* Properties                                                              *)

Hidden(o) == o \in UNION {{Unlinked(v), Deleted(v)} : v \in Devs}
Visible(o) == s.obj[o].parent # Null /\ ~Hidden(s.obj[o].parent)

\* Types: the tables stay within their sizes and name things that exist.
TypeOK ==
  /\ \A h \in Handles : s.handle[h].fd \in -1 .. NHandles - 1 /\ s.handle[h].use \in 0 .. Cardinality(Threads) + 1
  /\ \A f \in Handles : s.fd[f].count \in 0 .. NHandles /\ s.fd[f].inode \in -1 .. NHandles - 1
  /\ \A o \in DOMAIN s.obj : s.obj[o].type \in {"file", "dir", "symlink", "hardlink"}
                             /\ s.obj[o].size \in 0 .. MaxSize
  /\ held \subseteq Handles /\ s.rc /\ ~s.full

\* yaffs_verify_obj_in_dir and yaffs_verify_dir: an object is in the list of its
\* parent once and in no other, and the way up ends at one of the device's roots.
TreeSound ==
  \A o \in DOMAIN s.obj :
    LET p == s.obj[o].parent
    IN  /\ (p = Null) <=> has_null_parent(DevOf(o), o)
        /\ p # Null => /\ Live(s, p) /\ IsDir(s, p)
                       /\ has_null_parent(DevOf(o), TopOf(s, p, 2 * MaxIds))
        /\ \A d \in DOMAIN s.obj :
             Cardinality({i \in DOMAIN s.obj[d].kids : s.obj[d].kids[i] = o}) = IF d = p THEN 1 ELSE 0

\* A directory never has two entries of one name.
UniqueNames ==
  \A o, q \in DOMAIN s.obj :
    o # q /\ Visible(o) /\ s.obj[o].parent = s.obj[q].parent => s.obj[o].name # s.obj[q].name

\* st_nlink counts the names of an object, although its own name may be handed to
\* one of its hard links: the list of hard links and the equivalents agree.
LinkCountIsNames ==
  \A o \in DOMAIN s.obj :
    s.obj[o].type # "hardlink" /\ ~Fake(o) =>
      get_obj_link_count(s, o) =
        Cardinality({e \in DOMAIN s.obj : Visible(e) /\ get_equivalent_obj(s, e) = o})


\* Handles, descriptors and inodes count their users exactly, and an object knows
\* whether it is open: my_inode decides between deleting now and at the last close.
CountsAgree ==
  /\ \A f \in Handles :
       s.fd[f].count = Cardinality({h \in Handles : s.handle[h].use > 0 /\ s.handle[h].fd = f})
  /\ \A i \in Handles :
       LET users == Cardinality({f \in Handles : s.fd[f].count > 0 /\ s.fd[f].inode = i})
       IN  s.inode[i].count = users /\ (s.inode[i].obj = Null <=> users = 0)
  /\ \A o \in DOMAIN s.obj : s.mounted[DevOf(o)] => s.obj[o].ino = \E i \in Handles : s.inode[i].obj = o

\* A handle stays usable until it is closed, unless its device goes.
OpenStaysUsable ==
  Calls \cap {"forced unmount", "unmount", "mount", "format"} = {} =>
    \A h \in held : HandleToObject(s, h) # Null /\ Live(s, HandleToObject(s, h))

\* An object without a name lives only as long as somebody has it open, or (yaffs1)
\* until the collector has reclaimed its chunks; what a crash left goes with the
\* next mount that may write.
UnlinkedAreOpen ==
  \A o \in DOMAIN s.obj : s.obj[o].unlinked /\ s.mounted[DevOf(o)] /\ ~s.ro[DevOf(o)] =>
    s.obj[o].ino \/ s.obj[o].softDel

\* The next piece of a read or write goes to the file the call began with, though
\* the lock was free in between.  (Forcing an unmount in between is not tried: it
\* resets all handles, also the one the call has counted itself to,
\* yaffsfs.c:336-356.)
IoKeepsItsFile ==
  \A t \in Threads : io[t] # Idle => HandleToObject(s, io[t].h) = io[t].obj /\ s.handle[io[t].h].fd = io[t].fd

\* What a search has not returned yet is from nextReturn on, what it has returned
\* is before that.
NextIsFirstUnread ==
  \A k \in DOMAIN s.dsc :
    LET c == s.dsc[k]
    IN  c.inUse /\ Live(s, c.dir) =>
          LET kids == s.obj[c.dir].kids
              rest == IF c.next = Null THEN {} ELSE {kids[i] : i \in IndexIn(kids, c.next) .. Len(kids)}
          IN  (c.next = Null \/ c.next \in Range(kids)) /\ (c.had \cap Range(kids)) \ c.seen = c.had \cap rest

\* A directory that is open through a handle keeps its search.
OpenDirsLive ==
  \A f \in DirFds : s.dsc[s.fd[f].dir].inUse /\ Live(s, s.dsc[s.fd[f].dir].dir)
                    /\ s.dsc[s.fd[f].dir].dir = s.inode[s.fd[f].inode].obj

\* A search returns every entry that stays in its directory once, while others
\* are created, removed and renamed between its steps.
SearchesReturnAll == NextIsFirstUnread /\ OpenDirsLive

\* A file that is open lives and is reached through its handle, whatever happens
\* to its names: unlink, rename over it, the end of its hard link; and when the
\* last handle is gone, the counts that decide it let a nameless file go too.  An
\* open directory is searched to its end though its entries come and go.
OpenFilesKept == CountsAgree /\ OpenStaysUsable /\ UnlinkedAreOpen /\ SearchesReturnAll

\* A call that reports an error leaves every name where it was; above all, an open,
\* mkdir, symlink or link that finds the device full takes the new object back.
Names(x) == {<<x.obj[o].parent, x.obj[o].name, o>> : o \in DOMAIN x.obj}
ErrorsLeaveNames == [][ret' \notin {"ok", "end", "none"} => Names(s') = Names(s)]_vars
=============================================================================
