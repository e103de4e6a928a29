---------------------------- MODULE MCFileSystem ----------------------------
(* The calls of FileSystem for TLC. *)
EXTENDS FileSystem

Open(path, how) == [op |-> "open", path |-> path, create |-> how = "create",
                    trunc |-> how = "trunc", write |-> how # "read"]
Unlink(path) == [op |-> "unlink", path |-> path]
Link(old, new) == [op |-> "link", path |-> old, new |-> new]

X == <<"/", "x">>
D == <<"/", "d">>
DX == <<"/", "d", "x">>

SomeCalls ==
  {Open(X, "trunc"), Open(DX, "create"), Open(D, "write"), Unlink(X), Unlink(D), Unlink(DX),
   [op |-> "mkdir", path |-> <<"y">>], [op |-> "chdir", path |-> D],
   Link(X, DX), Link(X, D), Link(D, DX)}
=============================================================================
