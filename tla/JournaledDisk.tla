---------------------------- MODULE JournaledDisk ---------------------------
(***************************************************************************)
(* What kernel/log.c promises the file system: the updates of a system call *)
(* reach the disk together or not at all, whenever the machine stops.      *)
(***************************************************************************)
CONSTANTS Proc, Block, Value, Empty

VARIABLES now,       \* the contents of the blocks as system calls see them
          durable,   \* the contents a restart at this moment would find
          active     \* the processes between begin_op() and end_op()

vars == <<now, durable, active>>

Init == /\ now = [b \in Block |-> Empty]
        /\ durable = now
        /\ active = {}

Begin(p) ==
  p \notin active /\ active' = active \cup {p} /\ UNCHANGED <<now, durable>>

Write(p, b, v) ==
  p \in active /\ now' = [now EXCEPT ![b] = v] /\ UNCHANGED <<durable, active>>

End(p) ==
  p \in active /\ active' = active \ {p} /\ UNCHANGED <<now, durable>>

\* All at once, and only when no system call is half done.
Commit == active = {} /\ durable' = now /\ UNCHANGED <<now, active>>

Crash == now' = durable /\ active' = {} /\ UNCHANGED durable

Next ==
  \/ \E p \in Proc : \/ Begin(p) \/ End(p)
                     \/ \E b \in Block, v \in Value : Write(p, b, v)
  \/ Commit \/ Crash

Spec == Init /\ [][Next]_vars
=============================================================================
