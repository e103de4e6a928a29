------------------------------ MODULE MCConsole -----------------------------
(***************************************************************************)
(* Four scenes: a line typed to one reader of either kernel, two readers   *)
(* of whom one may be killed, and output on two CPUs while keys are hit.   *)
(***************************************************************************)
EXTENDS Console

CONSTANTS c0, c1, r1, r2, w1

MCScenes ==
  {[kernel |-> "cow", hits |-> {"x", "nl", "^D", "^U", "bs"}, keys |-> 4, writes |-> 0, kills |-> 0,
    cpus |-> {c0}, procs |-> {r1}],
   [kernel |-> "rr", hits |-> {"tab", "^D", "esc", "["}, keys |-> 4, writes |-> 0, kills |-> 0,
    cpus |-> {c0}, procs |-> {r1}],
   [kernel |-> "cow", hits |-> {"x", "nl", "^D"}, keys |-> 3, writes |-> 0, kills |-> 1,
    cpus |-> {c0}, procs |-> {r1, r2}],
   [kernel |-> "cow", hits |-> {"x"}, keys |-> 2, writes |-> 4, kills |-> 0,
    cpus |-> {c0, c1}, procs |-> {w1}]}
=============================================================================
