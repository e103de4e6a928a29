------------------------------ MODULE BlockStore ----------------------------
(***************************************************************************)
(* What the buffer cache of kernel/bio.c promises the file system: every   *)
(* block has one contents, and one process at a time has it.               *)
(***************************************************************************)
CONSTANTS Proc, Block, Value, None

VARIABLES contents, holder

vars == <<contents, holder>>

Init == holder = [k \in Block |-> None] /\ contents \in [Block -> Value]

\* bread(): the block is locked, its contents are there.
Lock(p, k) ==
  /\ holder[k] = None
  /\ holder' = [holder EXCEPT ![k] = p]
  /\ UNCHANGED contents

Write(p, k, v) ==
  /\ holder[k] = p
  /\ contents' = [contents EXCEPT ![k] = v]
  /\ UNCHANGED holder

\* brelse()
Unlock(p, k) ==
  /\ holder[k] = p
  /\ holder' = [holder EXCEPT ![k] = None]
  /\ UNCHANGED contents

Next ==
  \E p \in Proc, k \in Block :
    Lock(p, k) \/ Unlock(p, k) \/ \E v \in Value : Write(p, k, v)

Spec == Init /\ [][Next]_vars
=============================================================================
