------------------------------- MODULE MCSched ------------------------------
(* Small instances of Sched for TLC.                                       *)
EXTENDS Sched

\* Bound: at any time at most one process is killed or of changed priority.
OneSpecial == Cardinality({p \in Proc : killed[p]} \cup {p \in Proc : priority[p] # 5}) <= 1
=============================================================================
