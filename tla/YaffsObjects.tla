--------------------------- MODULE YaffsObjects ---------------------------
(***************************************************************************)
(* The object layer of yaffs (fs/yaffs2/_private/yaffs_guts.c): objects,   *)
(* the directories they hang in, hard links, and what creating, unlinking, *)
(* renaming and deleting do to them.  YaffsFs puts the calls of a program  *)
(* on top.                                                                 *)
(*                                                                         *)
(* Each C function is an operator on the memory s of the file system; its  *)
(* result is s.rc (YAFFS_OK) or s.new (the object it returns).  The flash  *)
(* is YaffsLog: here a header write fails only when the device is full     *)
(* (s.full) and the object has no header yet (update_oh may use the        *)
(* reserve for the others).  An object is <<device, obj_id>>.  Names are   *)
(* compared as a whole: the name sum only speeds that up.  Directories are *)
(* written at once (param.defered_dir_update is never set).                *)
(***************************************************************************)
EXTENDS Integers, Sequences, FiniteSets, SequencesExt, Binding

CONSTANTS
  Devs,         \* devices, as numbers
  NBuckets,     \* YAFFS_NOBJECT_BUCKETS
  NiceTries,    \* buckets find_nice_bucket looks at (10)
  NiceCount,    \* the load of a bucket that is nice enough (4)
  Programs      \* the programs and their file systems, records of the fields below

VARIABLE prog   \* the program at hand, one of Programs; it never changes

IsYaffs2 == prog.isYaffs2   \* param.is_yaffs2
MaxSize == prog.maxSize     \* YAFFS_MAX_FILE_SIZE

ASSUME ObjectsAssumption ==
  /\ Devs \subseteq Nat \ {0} /\ NBuckets \in Nat \ {0} /\ NiceTries \in Nat \ {0}
  /\ NiceCount \in Nat
  /\ \A g \in Programs : g.isYaffs2 \in BOOLEAN /\ g.maxSize \in Nat

Null == <<0, 0>>
Root(v) == <<v, 1>>            \* YAFFS_OBJECTID_ROOT and its companions
LostFound(v) == <<v, 2>>
Unlinked(v) == <<v, 3>>
Deleted(v) == <<v, 4>>
DevOf(o) == o[1]
Fake(o) == o[2] \in 1 .. 4

\* struct yaffs_obj: ino is my_inode # NULL, links the list hard_links of the
\* hard links to it, hdr is hdr_chunk > 0
Obj(type) ==
  [type |-> type, name |-> "", parent |-> Null, kids |-> <<>>, links |-> <<>>, equiv |-> Null,
   alias |-> <<>>, size |-> 0, mode |-> {"r", "w"}, xattr |-> {}, ino |-> FALSE, hdr |-> FALSE,
   unlinked |-> FALSE, deleted |-> FALSE, softDel |-> FALSE, deferred |-> FALSE,
   renameOk |-> TRUE, unlinkOk |-> TRUE]

\* Mutant: nobody ever has it open.
IsOpen_Never(s, o) == FALSE

\* my_inode: somebody has the object open.
IsOpen(s, o) == s.obj[o].ino

Live(s, o) == o \in DOMAIN s.obj
IsDir(s, o) == s.obj[o].type = "dir"
Ok(s) == [s EXCEPT !.rc = TRUE]
Fail(s) == [s EXCEPT !.rc = FALSE]

-----------------------------------------------------------------------------
(* Directories.  s.dsc are the search contexts of yaffsfs.c; had is a      *)
(* history variable, the entries a search has found in its directory when  *)
(* it began and that never left it since; seen those it has returned.      *)

IndexIn(kids, o) == CHOOSE i \in DOMAIN kids : kids[i] = o

\* yaffsfs_DirAdvance: the context moves on to the entry behind nextReturn.
DirAdvance(s, c) ==
  IF ~Live(s, c.dir) \/ ~IsDir(s, c.dir) THEN c
  ELSE LET kids == s.obj[c.dir].kids
       IN  [c EXCEPT !.next = IF c.next \notin Range(kids) \/ IndexIn(kids, c.next) = Len(kids)
                              THEN Null ELSE kids[IndexIn(kids, c.next) + 1]]

\* remove_obj_fn = yaffsfs_RemoveObjectCallback: no search is left standing on an
\* entry that leaves its directory.
LeaveSearch(s, c, o) ==
  [(IF c.next = o THEN DirAdvance(s, c) ELSE c) EXCEPT !.had = @ \ {o}]
RemoveObjectCallback(s, o) ==
  [s EXCEPT !.dsc = Loop(LAMBDA cs, k : IF cs[k].inUse THEN [cs EXCEPT ![k] = LeaveSearch(s, @, o)] ELSE cs,
                             @, SetToSeq(DOMAIN @))]

remove_obj_from_dir(s, o) ==
  LET p == s.obj[o].parent
      s1 == RemoveObjectCallback(s, o)
  IN  IF p = Null THEN s1
      ELSE [s1 EXCEPT !.obj[p].kids = SelectSeq(@, LAMBDA x : x # o), !.obj[o].parent = Null]

\* An entry is put in front of the others.
add_obj_to_dir(s, dir, o) ==
  With(remove_obj_from_dir(s, o), LAMBDA s1 :
  LET gone == dir \in {Unlinked(DevOf(o)), Deleted(DevOf(o))}
  IN  [s1 EXCEPT !.obj[dir].kids = <<o>> \o @,
                 !.obj[o].parent = dir,
                 !.obj[o].unlinked = @ \/ gone,
                 !.obj[o].renameOk = @ /\ ~gone])

find_by_name(s, dir, name) ==
  LET hits == SelectSeq(s.obj[dir].kids, LAMBDA k : s.obj[k].name = name)
  IN  IF hits = <<>> THEN Null ELSE hits[1]

get_equivalent_obj(s, o) ==
  IF o # Null /\ s.obj[o].type = "hardlink" THEN s.obj[o].equiv ELSE o

is_non_empty_dir(s, o) == o # Null /\ IsDir(s, o) /\ s.obj[o].kids # <<>>

get_obj_link_count(s, o) ==
  (IF s.obj[o].unlinked THEN 0 ELSE 1) + Len(s.obj[o].links)

\* yaffs_update_oh for this layer: does the header get onto the flash?
update_oh(s, o) ==
  IF Fake(o) \/ s.obj[o].hdr \/ ~s.full
  THEN [Ok(s) EXCEPT !.obj[o].hdr = @ \/ ~Fake(o)]
  ELSE Fail(s)

\* May the name be taken in the directory?
NameIsFree(s, o, dir, name, force, shadows) ==
  \/ dir \in {Unlinked(DevOf(o)), Deleted(DevOf(o))} \/ force \/ shadows
  \/ find_by_name(s, dir, name) = Null

change_obj_name(s, o, newDir, name, force, shadows) ==
  LET dir == IF newDir = Null THEN s.obj[o].parent ELSE newDir
  IN  IF ~NameIsFree(s, o, dir, name, force, shadows) THEN Fail(s)
      ELSE update_oh(add_obj_to_dir([s EXCEPT !.obj[o].name = name], dir, o), o)

-----------------------------------------------------------------------------
(* Object numbers and the hash table                                       *)

hash_fn(n) == n % NBuckets
BucketCount(s, v, b) == Cardinality({o \in DOMAIN s.obj : DevOf(o) = v /\ hash_fn(o[2]) = b})

\* Buckets are looked at in turn until one is nice; the first of the least loaded
\* of those seen is taken.
find_nice_bucket(s, v) ==
  LET at(i) == (s.finder[v] + i) % NBuckets
      load == [i \in 1 .. NiceTries |-> BucketCount(s, v, at(i))]
      n == CHOOSE i \in 1 .. NiceTries : (load[i] <= NiceCount \/ i = NiceTries)
                                         /\ \A j \in 1 .. i - 1 : load[j] > NiceCount
      best == CHOOSE i \in 1 .. n : \A j \in 1 .. n : load[i] < load[j] \/ (load[i] = load[j] /\ i <= j)
  IN  [finder |-> at(n), bucket |-> at(best)]

\* The least number of the bucket that no hashed object has, an object whose
\* memory is not free yet included.
new_obj_id(s, v, bucket) ==
  LET taken == {o[2] : o \in {x \in DOMAIN s.obj : DevOf(x) = v}}
      n == CHOOSE k \in 1 .. Cardinality(taken) + 1 :
             /\ bucket + k * NBuckets \notin taken
             /\ \A j \in 1 .. k - 1 : bucket + j * NBuckets \in taken
  IN  bucket + n * NBuckets

find_by_number(s, o) == IF ~Live(s, o) \/ s.obj[o].deferred THEN Null ELSE o

\* yaffs_alloc_empty_obj and yaffs_hash_obj: a new object hangs in lost+found first.
alloc_empty_obj(s, o, type) ==
  add_obj_to_dir([s EXCEPT !.obj = (o :> Obj(type)) @@ @],
                 LostFound(DevOf(o)), o)

new_obj(s, v, type) ==
  LET b == find_nice_bucket(s, v)
      o == <<v, new_obj_id(s, v, b.bucket)>>
  IN  [alloc_empty_obj([s EXCEPT !.finder[v] = b.finder], o, type) EXCEPT !.new = o]

-----------------------------------------------------------------------------
(* Deletion                                                                *)

unhash_obj(s, o) == [s EXCEPT !.obj = [x \in DOMAIN @ \ {o} |-> @[x]] @@ <<>>]

\* An object with an inode above it is only marked.
free_obj(s, o) == IF IsOpen(s, o) THEN [s EXCEPT !.obj[o].deferred = TRUE] ELSE unhash_obj(s, o)

generic_obj_del(s, o) ==
  LET v == DevOf(o)
      s1 == IF IsYaffs2 /\ s.obj[o].parent # Deleted(v)
            THEN change_obj_name(s, o, Deleted(v), "deleted", FALSE, FALSE) ELSE s
      s2 == remove_obj_from_dir(s1, o)
  IN  Ok(free_obj([s2 EXCEPT !.obj[o].hdr = FALSE], o))

resize_file(s, o, size) ==
  IF s.obj[o].type = "file" THEN [Ok(s) EXCEPT !.obj[o].size = size] ELSE Fail(s)

\* A file with data stays until the collector has thrown its chunks away.
soft_del_file(s, o) ==
  IF ~s.obj[o].deleted \/ s.obj[o].type # "file" \/ s.obj[o].softDel THEN s
  ELSE IF s.obj[o].size = 0 THEN generic_obj_del(s, o)
  ELSE [s EXCEPT !.obj[o].softDel = TRUE]

unlink_file_if_needed(s, o) ==
  LET v == DevOf(o)
  IN  With(change_obj_name(s, o, Deleted(v), "deleted", FALSE, FALSE), LAMBDA s1 :
  LET s2 == [s1 EXCEPT !.obj[o].deleted = TRUE, !.nDeleted[v] = @ + 1]
  IN  IF IsOpen(s, o) THEN change_obj_name(s, o, Unlinked(v), "unlinked", FALSE, FALSE)
      ELSE [soft_del_file(IF IsYaffs2 THEN resize_file(s2, o, 0) ELSE s2, o) EXCEPT !.rc = s1.rc])

del_file(s, o) ==
  LET v == DevOf(o)
      s1 == IF IsYaffs2 THEN resize_file(s, o, 0) ELSE s
  IN  With(IF s1.obj[o].unlinked THEN Ok(s1) ELSE unlink_file_if_needed(s1, o), LAMBDA s2 :
  LET now == s2.rc /\ s2.obj[o].unlinked /\ ~s2.obj[o].deleted
      s3 == soft_del_file([s2 EXCEPT !.obj[o].deleted = TRUE, !.nDeleted[v] = @ + 1], o)
  IN  IF s1.obj[o].size = 0 THEN generic_obj_del(s1, o)
      ELSE IF now THEN Ok(s3) ELSE [s2 EXCEPT !.rc = s2.obj[o].deleted])

del_dir(s, o) == IF is_non_empty_dir(s, o) THEN Fail(s) ELSE generic_obj_del(s, o)

del_symlink(s, o) == generic_obj_del([s EXCEPT !.obj[o].alias = <<>>], o)

\* list_del_init(&in->hard_links)
UnlistLink(s, o) ==
  LET e == s.obj[o].equiv
  IN  IF e = Null \/ ~Live(s, e) THEN s
      ELSE [s EXCEPT !.obj[e].links = SelectSeq(@, LAMBDA x : x # o)]

del_link(s, o) == generic_obj_del(UnlistLink(s, o), o)

del_obj(s, o) ==
  CASE s.obj[o].type = "file" -> del_file(s, o)
    [] s.obj[o].type = "dir" -> del_dir(s, o)
    [] s.obj[o].type = "symlink" -> del_symlink(s, o)
    [] s.obj[o].type = "hardlink" -> del_link(s, o)

-----------------------------------------------------------------------------
(* Creation                                                                *)

\* Mutant: an object without a header keeps its name.
TakeBack_Keeps(s, o) == [s EXCEPT !.new = Null]

NameTaken(s, dir, name) == find_by_name(s, dir, name) # Null

\* A header that cannot be written takes the new object back.  (s.new is Null then.)
TakeBack(s, o) == [del_obj(s, o) EXCEPT !.new = Null]
create_obj(s, type, parent, name, equiv, alias) ==
  With(new_obj(s, DevOf(parent), type), LAMBDA s1 :
  LET o == s1.new
  IN  With(add_obj_to_dir([s1 EXCEPT !.obj[o].name = name, !.obj[o].alias = alias,
                                     !.obj[o].equiv = equiv], parent, o), LAMBDA s2 :
  LET s3 == IF type = "hardlink" THEN [s2 EXCEPT !.obj[equiv].links = <<o>> \o @] ELSE s2
      s4 == update_oh(s3, o)
  IN  IF NameTaken(s, parent, name) THEN [s EXCEPT !.new = Null]
      ELSE IF s4.rc THEN s4 ELSE TakeBack(s4, o)))

create_file(s, parent, name) == create_obj(s, "file", parent, name, Null, <<>>)
create_dir(s, parent, name) == create_obj(s, "dir", parent, name, Null, <<>>)
create_symlink(s, parent, name, alias) == create_obj(s, "symlink", parent, name, Null, alias)
link_obj(s, parent, name, o) ==
  create_obj(s, "hardlink", parent, name, get_equivalent_obj(s, o), <<>>)

-----------------------------------------------------------------------------
(* Unlinking and renaming                                                  *)

\* The first hard link gives its place and its name to the object and goes.
TakeOver(s, o) ==
  LET hl == s.obj[o].links[1]
      parent == s.obj[hl].parent
      s1 == add_obj_to_dir(UnlistLink(s, hl), Unlinked(DevOf(o)), hl)
  IN  With(change_obj_name(s1, o, parent, s.obj[hl].name, FALSE, FALSE), LAMBDA s2 :
  IF s2.rc THEN generic_obj_del(s2, hl) ELSE s2)

\* An object without an inode goes at once, an open one to the unlinked directory.
unlink_worker(s, o) ==
  CASE s.obj[o].type = "hardlink" -> del_link(s, o)
    [] s.obj[o].type # "hardlink" /\ s.obj[o].links # <<>> -> TakeOver(s, o)
    [] s.obj[o].type # "hardlink" /\ s.obj[o].links = <<>> /\ ~IsOpen(s, o) -> del_obj(s, o)
    [] OTHER -> IF is_non_empty_dir(s, o) THEN Fail(s)
                ELSE change_obj_name(s, o, Unlinked(DevOf(o)), "unlinked", FALSE, FALSE)

unlink_obj(s, o) == IF o # Null /\ s.obj[o].unlinkOk THEN unlink_worker(s, o) ELSE Fail(s)

unlinker(s, dir, name) == unlink_obj(s, find_by_name(s, dir, name))

\* The object takes the name first, with a header that shadows the old owner of
\* the name; then the old owner is unlinked.
ReplaceTarget(s, o, newDir, name, target) ==
  unlink_obj(change_obj_name(s, o, newDir, name, FALSE, TRUE), target)

\* name0 = "" stands for no name: the directory itself is renamed.
rename_obj(s, oldDir, name0, newDir, name) ==
  LET o == IF name0 = "" THEN oldDir ELSE find_by_name(s, oldDir, name0)
      target == find_by_name(s, newDir, name)
      s1 == IF target # Null /\ target # o THEN ReplaceTarget(s, o, newDir, name, target) ELSE s
  IN  IF o = Null \/ ~s.obj[o].renameOk \/ is_non_empty_dir(s, target) THEN Fail(s)
      ELSE change_obj_name(s1, o, newDir, name, TRUE, FALSE)

-----------------------------------------------------------------------------
(* Mounting: what is done once the scan has found the objects              *)

\* yaffs_create_initial_dir with yaffs_create_fake_dir
FakeDir(name, parent, kids) ==
  [Obj("dir") EXCEPT !.name = name, !.parent = parent, !.kids = kids, !.renameOk = FALSE, !.unlinkOk = FALSE]
create_initial_dir(v) ==
  [o \in {Root(v), LostFound(v), Unlinked(v), Deleted(v)} |->
     CASE o = Root(v) -> FakeDir("", Null, <<LostFound(v)>>)
       [] o = LostFound(v) -> FakeDir("lost+found", Root(v), <<>>)
       [] OTHER -> FakeDir("", Null, <<>>)]

DelEach(s, os) == Loop(LAMBDA acc, o : IF Live(acc, o) THEN del_obj(acc, o) ELSE acc, s, os)

\* What was unlinked but open when the device went down is deleted now.
strip_deleted_objs(s, v) ==
  With(DelEach(s, s.obj[Unlinked(v)].kids), LAMBDA s1 :
  IF s.ro[v] THEN s ELSE DelEach(s1, s1.obj[Deleted(v)].kids))

\* A hard link is listed with its object, or points nowhere.
link_fixup(s, hls) ==
  Loop(LAMBDA acc, hl :
             LET e == find_by_number(acc, acc.obj[hl].equiv)
             IN  IF e = Null THEN [acc EXCEPT !.obj[hl].equiv = Null]
                 ELSE [acc EXCEPT !.obj[e].links = <<hl>> \o @], s, hls)

has_null_parent(v, o) == o \in {Root(v), Unlinked(v), Deleted(v)}

\* The way up from an object, at most depth steps.
RECURSIVE TopOf(_, _, _)
TopOf(s, p, depth) ==
  LET q == s.obj[p].parent
  IN  IF p = Root(DevOf(p)) \/ q = Null \/ depth = 0 THEN p
      ELSE IF ~IsDir(s, q) THEN p ELSE TopOf(s, q, depth - 1)

Hanging(s, o) ==
  LET p == s.obj[o].parent
      v == DevOf(o)
  IN  /\ ~has_null_parent(v, o)
      /\ \/ p = Null
         \/ ~IsDir(s, p)
         \/ ~has_null_parent(v, p) /\ TopOf(s, p, 100) # Root(v)

fix_hanging_objs(s, v) ==
  IF s.ro[v] THEN s
  ELSE LET os == SetToSeq({o \in DOMAIN s.obj : DevOf(o) = v})
       IN  Loop(LAMBDA acc, o : IF Hanging(acc, o) THEN add_obj_to_dir(acc, LostFound(v), o) ELSE acc,
                    s, os)

RECURSIVE del_dir_contents(_, _)
del_dir_contents(s, dir) ==
  Loop(LAMBDA acc, o :
             unlink_obj(IF IsDir(acc, o) THEN del_dir_contents(acc, o) ELSE acc, o),
           s, s.obj[dir].kids)
=============================================================================
