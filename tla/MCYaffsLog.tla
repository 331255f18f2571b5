----------------------------- MODULE MCYaffsLog -----------------------------
(***************************************************************************)
(* Devices of four blocks of two chunks, each with the users that bring    *)
(* out one kind of trouble.                                                *)
(***************************************************************************)
EXTENDS YaffsScan

User(isYaffs2, objs, maxSize, data, maxSeq, maxWear, maxCrashes) ==
  [isYaffs2 |-> isYaffs2, objs |-> objs, maxSize |-> maxSize, data |-> data,
   maxSeq |-> maxSeq, maxWear |-> maxWear, maxCrashes |-> maxCrashes]

MCDevices ==
  {User(TRUE, {1, 2}, 2, {0, 1}, 5, 0, 0),      \* two files on a device that runs full
   User(TRUE, {1}, 2, {0, 1}, 5, 1, 0),         \* a page or a block wears out
   User(FALSE, {1, 2}, 2, {0, 1}, 4, 0, 0),     \* yaffs1: deletion is soft
   User(TRUE, {1, 2}, 1, {0, 1, 2}, 4, 0, 1),   \* the power fails inside a call
   User(TRUE, {1}, 2, {0, 1}, 5, 0, 1)}         \* ... after blocks were used again
=============================================================================
