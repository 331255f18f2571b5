----------------------------- MODULE MCYaffsFs -----------------------------
(* Programs for YaffsFs: the calls, paths and flags a program may use.     *)
EXTENDS YaffsFs

A(n) == <<"/", 1, n>>
In(d, n) == <<"/", 1, d, n>>
OnePath == {A("a")}
FilePaths == {A("a"), A("b")}
LinkPaths == {A("a"), A("b"), A("c")}
TreePaths == {A("a"), A("b"), In("a", "b"), In("b", "a"), <<"/", 1, "a", "b", "">>, <<"/", 1, "b", "a", ".">>}
DirPaths == {<<"/", 1>>, A("a"), A("b")}
SymPaths == {A("a"), In("a", "b"), <<"/", 1, "a", "..", "b">>}
LinkAliases == {<<"a">>, <<"b">>, <<"/", 1, "b">>}
ReadWrite == {{"r", "w", "creat"}}
OpenAll == {{"r"}, {"r", "w", "creat"}, {"w", "creat", "excl", "trunc"}, {"w", "trunc", "append"}}
OpenTwo == {{"r", "w", "creat"}, {"w", "trunc", "append"}}

HandleCalls == {"open", "dup", "close", "read", "write", "unlink"}
TreeCalls == {"open", "close", "mkdir", "rmdir", "rename", "unlink", "readdir"}
LinkCalls == {"open", "close", "link", "unlink", "stat", "remount", "access"}
MoveCalls == {"open", "close", "link", "rename", "unlink"}
DirCalls == {"symlink", "unlink", "rename", "opendir", "readdir", "rewinddir", "closedir"}
MountCalls == {"open", "close", "write", "unlink", "link", "mount", "unmount", "sync", "crash"}
Yaffs1Calls ==
  {"open", "close", "read", "write", "truncate", "ftruncate", "lseek", "unlink", "funlink", "gc",
   "fstat", "fsync", "fgetfl"}
ForcedCalls == {"open", "dup", "close", "unlink", "forced unmount", "mount", "format"}
NameCalls ==
  {"open", "close", "symlink", "readlink", "mkdir", "unlink", "utime", "chmod", "setxattr", "getxattr",
   "removexattr", "listxattr", "stat", "fchmod", "mknod"}

Program ==
  [isYaffs2 |-> TRUE, maxSize |-> 1, nHandles |-> 1, nDsc |-> 1, maxObjects |-> 0, threads |-> {1},
   paths |-> OnePath, aliases |-> {}, calls |-> HandleCalls, openModes |-> ReadWrite,
   shares |-> {{"r", "w"}}, sizes |-> {1}, offsets |-> {-1}, maxIds |-> 2]

MCPrograms ==
  {\* two threads on one file: dup, close and unlink between the pieces of a read
   [Program EXCEPT !.maxSize = 2, !.nHandles = 2, !.threads = {1, 2}, !.sizes = {2}],
   [Program EXCEPT !.paths = TreePaths, !.calls = TreeCalls, !.maxIds = 3],
   [Program EXCEPT !.paths = LinkPaths, !.calls = LinkCalls, !.maxIds = 4],
   [Program EXCEPT !.paths = LinkPaths, !.calls = MoveCalls, !.maxIds = 4],
   [Program EXCEPT !.nDsc = 2, !.paths = DirPaths, !.aliases = {<<"x">>}, !.calls = DirCalls],
   [Program EXCEPT !.paths = FilePaths, !.calls = MountCalls, !.openModes = OpenAll,
                   !.shares = {{"r", "w"}, {"r"}}, !.offsets = {-1, 0}, !.maxIds = 3],
   [Program EXCEPT !.isYaffs2 = FALSE, !.nHandles = 2, !.maxObjects = 5, !.calls = Yaffs1Calls,
                   !.openModes = OpenTwo, !.sizes = {0, 1}],
   [Program EXCEPT !.nHandles = 2, !.calls = ForcedCalls],
   [Program EXCEPT !.isYaffs2 = FALSE, !.calls = Yaffs1Calls \cup ForcedCalls],
   [Program EXCEPT !.paths = SymPaths, !.aliases = LinkAliases, !.calls = NameCalls]}
=============================================================================
