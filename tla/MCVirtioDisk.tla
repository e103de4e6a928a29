---------------------------- MODULE MCVirtioDisk ----------------------------
(* Small instances of VirtioDisk for TLC.                                  *)
EXTENDS VirtioDisk

CONSTANTS b1, b2, b3, p1, p2, p3

Before(x) == CASE x \in {b1, p1} -> {} [] x = b2 -> {b1} [] x = b3 -> {b1, b2}
               [] x = p2 -> {p1} [] x = p3 -> {p1, p2}

\* Idle processes are alike, and so are blocks but for what was written to them:
\* the first idle process makes the next call, for the first block not in use.
FirstCalls ==
  \A p \in Proc : nreq' # nreq /\ stage[p] = "idle" /\ stage'[p] = "alloc" =>
    /\ Before(req'[p].b) \subseteq {req[q].b : q \in Proc}
    /\ \A q \in Before(p) : stage[q] # "idle"
=============================================================================
