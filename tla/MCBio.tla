-------------------------------- MODULE MCBio -------------------------------
(* Small instances of Bio for TLC.  The view hides what a buffer contains    *)
(* before it is read from the disk, which nothing looks at; processes and   *)
(* contents are alike.                                                      *)
EXTENDS Bio, TLC

Shape == <<[b \in Buf |-> <<blockno[b], refcnt[b], valid[b], locked[b], IF valid[b] THEN data[b] ELSE None>>],
           order, disk, pins, call, cacheVars = cacheVars>>
Symmetry == Permutations(Proc) \cup Permutations(Value)
=============================================================================
