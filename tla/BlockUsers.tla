------------------------------ MODULE BlockUsers ----------------------------
(***************************************************************************)
(* Whom the disk driver, kernel/bio.c and kernel/log.c serve, with what.   *)
(***************************************************************************)
CONSTANTS
  Proc,    \* processes in system calls
  Block,   \* blocks of the disk, without those of the log
  None     \* no process, no block
=============================================================================
