----------------------------- MODULE MCFileBytes ----------------------------
(* Memory and files of FileBytes for TLC: neighbouring bytes differ.        *)
EXTENDS FileBytes, TLC

CONSTANTS p, q, Top

Memories == (p :> [i \in 1 .. Top |-> (i % 3) + 1]) @@ (q :> [i \in 1 .. Top |-> ((i + 1) % 3) + 1])
HostFile == <<1, 3, 2, 1, 3>>
\* A byte; a stretch that lies across three blocks if it is not aligned; a bad
\* address in the middle of a block.
Called == {<<1, 1>>, <<2, 4>>, <<5, 2>>}

\* The open files are alike, and so are the processes but for the names of
\* their bytes: p makes the first call, with the first file.
FirstCall == calls = 0 => \A x \in Proc : th'[x].f = AFile /\ (th'[x].at # "idle" => x = p)
MCSpec == Init /\ [][Next /\ FirstCall]_vars
=============================================================================
