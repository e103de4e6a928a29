----------------------------- MODULE SchedProofs ----------------------------
(***************************************************************************)
(* Proofs about Sched for any number of processes and processors, and for  *)
(* both scheduler loops.                                                   *)
(*                                                                         *)
(* The invariant says of each processor what its place in the code entails: *)
(* the state of the process it runs, and every lock it may hold.           *)
(***************************************************************************)
EXTENDS Sched, TLAPS

Forking == {"forkcopy", "forkparent", "forkrun"}

\* The round-robin loop stays inside the table, and has no scan.
ScanInTable == RoundRobin => \A c \in Cpu : scan[c] \in Proc /\ spc[c] # "scan"

\* c->proc is set exactly while a process, or its way back, is on the CPU.
OnWhileBusy == \A c \in Cpu : on[c] = None <=> spc[c] \in {"idle", "scan"}

\* proc_lock is held during the scan, and what the scan has chosen is
\* runnable and stays so.
ScanIsLocked ==
  \A c \in Cpu : /\ spc[c] = "scan" <=> proc_lock = c
                 /\ spc[c] = "scan" /\ best[c] # None => state[best[c]] = "runnable"

\* A process on a CPU is running, or has just stopped and holds its lock.
OnIsRunning ==
  \A c \in Cpu :
    /\ spc[c] = "away" => state[on[c]] = "running"
    /\ spc[c] = "back" => /\ plock[on[c]] = c
                          /\ state[on[c]] \in {"runnable", "sleeping", "zombie"}

\* A process that waits to be run resumes behind swtch().
StoppedReturns ==
  \A p \in Proc : state[p] \in {"used", "runnable", "sleeping"} => ret[p]

\* fork() has a slot of its own that nobody runs.
ForksOwnSlots ==
  \A p \in Proc : pc[p] \in Forking =>
    /\ tgt[p] \in Proc /\ state[tgt[p]] = "used"
    /\ \A q \in Proc : pc[q] \in Forking /\ tgt[q] = tgt[p] => q = p

\* The process locks a CPU may hold.
MayHold(c, p) ==
  \/ spc[c] = "back" /\ p = on[c]
  \/ spc[c] = "away" /\ ret[on[c]] /\ p = on[c]
  \/ spc[c] = "away" /\ ~ret[on[c]] /\ pc[on[c]] = "forkcopy" /\ p = tgt[on[c]]
LocksHeld == \A c \in Cpu, p \in Proc : plock[p] = c => MayHold(c, p)

\* Where wait_lock is held.
WaitLockHeld ==
  \A c \in Cpu : wait_lock = c =>
    /\ spc[c] = "away" /\ ~ret[on[c]]
    /\ pc[on[c]] \in {"waitscan", "waitsleep", "wakeinit", "wakeparent", "zombie"}

CpuInv == OnWhileBusy /\ RunsOnce /\ ScanIsLocked /\ OnIsRunning /\ StoppedReturns
LockInv == LocksHeld /\ WaitLockHeld

\* What is inductive.
IInv == TypeOK /\ ScanInTable /\ CpuInv /\ ForksOwnSlots /\ LockInv

\* The small definitions that every step below unfolds.
USE SchedAssumption DEF Proc, Cpu, None, initproc, Forking, At, Runs, Goto,
                        fields, paths, loops, locks
-----------------------------------------------------------------------------
(* Steps that only move a kernel path *)

\* A path that goes on to w, perhaps taking or releasing wait_lock, disturbs
\* nothing when it neither starts nor ends a fork, nor leaves the section it holds
\* the lock for.
LEMMA PathStep ==
  ASSUME IInv, TypeOK', NEW c \in Cpu, NEW p \in Proc, NEW w, Runs(c, p),
         UNCHANGED <<state, ret, tgt, on, spc, best, plock, proc_lock>>,
         pc' = [pc EXCEPT ![p] = w],
         w \in Forking => pc[p] \in Forking,
         pc[p] # "forkcopy",
         wait_lock' \in {wait_lock, None, c},
         wait_lock' = c => w \in {"waitscan", "waitsleep", "wakeinit", "wakeparent", "zombie"}
  PROVE  CpuInv' /\ ForksOwnSlots' /\ LockInv'
  <1>1. CpuInv'
    BY DEF IInv, CpuInv, OnWhileBusy, RunsOnce, ScanIsLocked, OnIsRunning, StoppedReturns
  <1>2. \A q \in Proc : pc'[q] = IF q = p THEN w ELSE pc[q]
    BY DEF IInv, TypeOK, PathsOK
  <1>3. ForksOwnSlots'
    BY <1>2 DEF IInv, ForksOwnSlots
  <1>4. \A d \in Cpu : /\ on[d] # None => on[d] \in Proc
                       /\ spc[d] = "away" => on[d] # None
                       /\ d # c => on[d] # p
    BY DEF IInv, TypeOK, LoopsOK, CpuInv, OnWhileBusy, RunsOnce
  <1>5. LocksHeld'
    BY SMTT(90), <1>2, <1>4 DEF IInv, LockInv, LocksHeld, MayHold
  <1>6. WaitLockHeld'
    BY SMTT(90), <1>2, <1>4 DEF IInv, LockInv, WaitLockHeld
  <1> QED
    BY <1>1, <1>3, <1>5, <1>6 DEF LockInv

\* fork() setting the child's parent keeps the invariant: the slot stays this fork's.
LEMMA ForkParentKeeps ==
  ASSUME IInv, NEW c \in Cpu, NEW p \in Proc, ForkParent(c, p)
  PROVE  IInv'
  <1>2. TypeOK' /\ ScanInTable'
    BY SMTT(90) DEF IInv, TypeOK, FieldsOK, PathsOK, LoopsOK, LocksOK, ScanInTable, CpuInv, OnWhileBusy,
                 ForksOwnSlots, ForkParent
  <1>3. pc' = [pc EXCEPT ![p] = "forkrun"]
    BY DEF IInv, TypeOK, PathsOK, ForkParent
  <1>4. CpuInv' /\ ForksOwnSlots' /\ LockInv'
    <2>1. /\ Runs(c, p) /\ pc[p] # "forkcopy"
          /\ "forkrun" \in Forking => pc[p] \in Forking
          /\ UNCHANGED <<state, ret, tgt, on, spc, best, plock, proc_lock>>
      BY DEF ForkParent
    <2>2. /\ wait_lock' \in {wait_lock, None, c}
          /\ wait_lock' = c => "forkrun" \in {"waitscan", "waitsleep", "wakeinit", "wakeparent", "zombie"}
      BY DEF IInv, LockInv, WaitLockHeld, ForkParent
    <2> QED
      BY <1>2, <1>3, <2>1, <2>2, PathStep
  <1> QED
    BY <1>2, <1>4 DEF IInv

\* wait() taking wait_lock keeps the invariant.
LEMMA WaitLockKeeps ==
  ASSUME IInv, NEW c \in Cpu, NEW p \in Proc, WaitLock(c, p)
  PROVE  IInv'
  <1>2. TypeOK' /\ ScanInTable'
    BY SMTT(90) DEF IInv, TypeOK, FieldsOK, PathsOK, LoopsOK, LocksOK, ScanInTable, CpuInv, OnWhileBusy,
                 ForksOwnSlots, WaitLock, Enters
  <1>3. pc' = [pc EXCEPT ![p] = "waitscan"]
    BY DEF IInv, TypeOK, PathsOK, WaitLock, Enters
  <1>4. CpuInv' /\ ForksOwnSlots' /\ LockInv'
    <2>1. /\ Runs(c, p) /\ pc[p] # "forkcopy"
          /\ "waitscan" \in Forking => pc[p] \in Forking
          /\ UNCHANGED <<state, ret, tgt, on, spc, best, plock, proc_lock>>
      BY DEF WaitLock, Enters
    <2>2. /\ wait_lock' \in {wait_lock, None, c}
          /\ wait_lock' = c => "waitscan" \in {"waitscan", "waitsleep", "wakeinit", "wakeparent", "zombie"}
      BY DEF IInv, LockInv, WaitLockHeld, WaitLock, Enters
    <2> QED
      BY <1>2, <1>3, <2>1, <2>2, PathStep
  <1> QED
    BY <1>2, <1>4 DEF IInv

\* wait() passing over a slot keeps the invariant.
LEMMA WaitNextKeeps ==
  ASSUME IInv, NEW c \in Cpu, NEW p \in Proc, WaitNext(c, p)
  PROVE  IInv'
  <1>2. TypeOK' /\ ScanInTable'
    BY SMTT(90) DEF IInv, TypeOK, FieldsOK, PathsOK, LoopsOK, LocksOK, ScanInTable, CpuInv, OnWhileBusy,
                 ForksOwnSlots, WaitNext
  <1>3. pc' = [pc EXCEPT ![p] = "waitscan"]
    BY DEF IInv, TypeOK, PathsOK, WaitNext
  <1>4. CpuInv' /\ ForksOwnSlots' /\ LockInv'
    <2>1. /\ Runs(c, p) /\ pc[p] # "forkcopy"
          /\ "waitscan" \in Forking => pc[p] \in Forking
          /\ UNCHANGED <<state, ret, tgt, on, spc, best, plock, proc_lock>>
      BY DEF WaitNext
    <2>2. /\ wait_lock' \in {wait_lock, None, c}
          /\ wait_lock' = c => "waitscan" \in {"waitscan", "waitsleep", "wakeinit", "wakeparent", "zombie"}
      BY DEF IInv, LockInv, WaitLockHeld, WaitNext
    <2> QED
      BY <1>2, <1>3, <2>1, <2>2, PathStep
  <1> QED
    BY <1>2, <1>4 DEF IInv

\* wait() giving up on a failed copyout() keeps the invariant: wait_lock is released.
LEMMA WaitCopyFailsKeeps ==
  ASSUME IInv, NEW c \in Cpu, NEW p \in Proc, WaitCopyFails(c, p)
  PROVE  IInv'
  <1>2. TypeOK' /\ ScanInTable'
    BY SMTT(90) DEF IInv, TypeOK, FieldsOK, PathsOK, LoopsOK, LocksOK, ScanInTable, CpuInv, OnWhileBusy,
                 ForksOwnSlots, WaitCopyFails, FoundZombie
  <1>3. pc' = [pc EXCEPT ![p] = "user"]
    BY DEF IInv, TypeOK, PathsOK, WaitCopyFails, FoundZombie
  <1>4. CpuInv' /\ ForksOwnSlots' /\ LockInv'
    <2>1. /\ Runs(c, p) /\ pc[p] # "forkcopy"
          /\ "user" \in Forking => pc[p] \in Forking
          /\ UNCHANGED <<state, ret, tgt, on, spc, best, plock, proc_lock>>
      BY DEF WaitCopyFails, FoundZombie
    <2>2. /\ wait_lock' \in {wait_lock, None, c}
          /\ wait_lock' = c => "user" \in {"waitscan", "waitsleep", "wakeinit", "wakeparent", "zombie"}
      BY DEF IInv, LockInv, WaitLockHeld, WaitCopyFails, FoundZombie
    <2> QED
      BY <1>2, <1>3, <2>1, <2>2, PathStep
  <1> QED
    BY <1>2, <1>4 DEF IInv

\* wait() returning -1 keeps the invariant: wait_lock is released.
LEMMA WaitReturnsKeeps ==
  ASSUME IInv, NEW c \in Cpu, NEW p \in Proc, WaitReturns(c, p)
  PROVE  IInv'
  <1>1. FieldsOK' /\ PathsOK'
    BY SMTT(90) DEF IInv, TypeOK, FieldsOK, PathsOK, LoopsOK, LocksOK, WaitReturns
  <1>2. TypeOK' /\ ScanInTable'
    <2>1. LoopsOK' /\ ScanInTable'
      BY SMTT(90) DEF IInv, TypeOK, FieldsOK, PathsOK, LoopsOK, LocksOK, ScanInTable, WaitReturns
    <2>2. LocksOK'
      BY SMTT(90) DEF IInv, TypeOK, LocksOK, WaitReturns
    <2> QED
      BY <1>1, <2>1, <2>2 DEF TypeOK
  <1>3. pc' = [pc EXCEPT ![p] = "user"]
    BY DEF IInv, TypeOK, PathsOK, WaitReturns
  <1>4. CpuInv' /\ ForksOwnSlots' /\ LockInv'
    <2>1. /\ Runs(c, p) /\ pc[p] # "forkcopy"
          /\ "user" \in Forking => pc[p] \in Forking
          /\ UNCHANGED <<state, ret, tgt, on, spc, best, plock, proc_lock>>
      BY DEF WaitReturns
    <2>2. /\ wait_lock' \in {wait_lock, None, c}
          /\ wait_lock' = c => "user" \in {"waitscan", "waitsleep", "wakeinit", "wakeparent", "zombie"}
      BY DEF IInv, LockInv, WaitLockHeld, WaitReturns
    <2> QED
      BY <1>2, <1>3, <2>1, <2>2, PathStep
  <1> QED
    BY <1>2, <1>4 DEF IInv

\* wait() going on to sleep() keeps the invariant: wait_lock is still held.
LEMMA WaitStaysKeeps ==
  ASSUME IInv, NEW c \in Cpu, NEW p \in Proc, WaitStays(c, p)
  PROVE  IInv'
  <1>2. TypeOK' /\ ScanInTable'
    BY SMTT(90) DEF IInv, TypeOK, FieldsOK, PathsOK, LoopsOK, LocksOK, ScanInTable, CpuInv, OnWhileBusy,
                 ForksOwnSlots, WaitStays
  <1>3. pc' = [pc EXCEPT ![p] = "waitsleep"]
    BY DEF IInv, TypeOK, PathsOK, WaitStays
  <1>4. CpuInv' /\ ForksOwnSlots' /\ LockInv'
    <2>1. /\ Runs(c, p) /\ pc[p] # "forkcopy"
          /\ "waitsleep" \in Forking => pc[p] \in Forking
          /\ UNCHANGED <<state, ret, tgt, on, spc, best, plock, proc_lock>>
      BY DEF WaitStays
    <2>2. /\ wait_lock' \in {wait_lock, None, c}
          /\ wait_lock' = c => "waitsleep" \in {"waitscan", "waitsleep", "wakeinit", "wakeparent", "zombie"}
      BY DEF IInv, LockInv, WaitLockHeld, WaitStays
    <2> QED
      BY <1>2, <1>3, <2>1, <2>2, PathStep
  <1> QED
    BY <1>2, <1>4 DEF IInv

\* exit() begun keeps the invariant.
LEMMA ExitKeeps ==
  ASSUME IInv, NEW c \in Cpu, NEW p \in Proc, Exit(c, p)
  PROVE  IInv'
  <1>2. TypeOK' /\ ScanInTable'
    BY SMTT(90) DEF IInv, TypeOK, FieldsOK, PathsOK, LoopsOK, LocksOK, ScanInTable, CpuInv, OnWhileBusy,
                 ForksOwnSlots, Exit, Enters
  <1>3. pc' = [pc EXCEPT ![p] = "exit"]
    BY DEF IInv, TypeOK, PathsOK, Exit, Enters
  <1>4. CpuInv' /\ ForksOwnSlots' /\ LockInv'
    <2>1. /\ Runs(c, p) /\ pc[p] # "forkcopy"
          /\ "exit" \in Forking => pc[p] \in Forking
          /\ UNCHANGED <<state, ret, tgt, on, spc, best, plock, proc_lock>>
      BY DEF Exit, Enters
    <2>2. /\ wait_lock' \in {wait_lock, None, c}
          /\ wait_lock' = c => "exit" \in {"waitscan", "waitsleep", "wakeinit", "wakeparent", "zombie"}
      BY DEF IInv, LockInv, WaitLockHeld, Exit, Enters
    <2> QED
      BY <1>2, <1>3, <2>1, <2>2, PathStep
  <1> QED
    BY <1>2, <1>4 DEF IInv

\* exit() taking wait_lock and giving its children away keeps the invariant.
LEMMA ExitLockKeeps ==
  ASSUME IInv, NEW c \in Cpu, NEW p \in Proc, ExitLock(c, p)
  PROVE  IInv'
  <1>1. FieldsOK' /\ PathsOK'
    BY SMTT(90) DEF IInv, TypeOK, FieldsOK, PathsOK, LoopsOK, LocksOK, ExitLock
  <1>2. TypeOK' /\ ScanInTable'
    <2>1. LoopsOK' /\ ScanInTable'
      BY SMTT(90) DEF IInv, TypeOK, FieldsOK, PathsOK, LoopsOK, LocksOK, ScanInTable, ExitLock
    <2>2. LocksOK'
      BY SMTT(90) DEF IInv, TypeOK, LocksOK, ExitLock
    <2> QED
      BY <1>1, <2>1, <2>2 DEF TypeOK
  <1>3. PICK w \in {"wakeinit", "wakeparent"} : pc' = [pc EXCEPT ![p] = w]
    BY DEF ExitLock
  <1>4. CpuInv' /\ ForksOwnSlots' /\ LockInv'
    <2>1. /\ Runs(c, p) /\ pc[p] # "forkcopy"
          /\ w \in Forking => pc[p] \in Forking
          /\ UNCHANGED <<state, ret, tgt, on, spc, best, plock, proc_lock>>
      BY <1>3 DEF ExitLock
    <2>2. /\ wait_lock' \in {wait_lock, None, c}
          /\ wait_lock' = c => w \in {"waitscan", "waitsleep", "wakeinit", "wakeparent", "zombie"}
      BY <1>3 DEF IInv, LockInv, WaitLockHeld, ExitLock
    <2> QED
      BY <1>2, <1>3, <2>1, <2>2, PathStep
  <1> QED
    BY <1>2, <1>4 DEF IInv

\* The end of a wakeup() in exit() keeps the invariant: wait_lock is still held.
LEMMA WakeupDoneKeeps ==
  ASSUME IInv, NEW c \in Cpu, NEW p \in Proc, WakeupDone(c, p)
  PROVE  IInv'
  <1>1. pc' \in [Proc -> {"user", "forkcopy", "forkparent", "forkrun", "wait", "waitscan",
                      "waitsleep", "exit", "wakeinit", "wakeparent", "zombie"}]
    BY DEF IInv, TypeOK, FieldsOK, PathsOK, LoopsOK, LocksOK, WakeupDone
  <1>2. TypeOK' /\ ScanInTable'
    BY SMTT(90), <1>1 DEF IInv, TypeOK, FieldsOK, PathsOK, LoopsOK, LocksOK, ScanInTable, WakeupDone
  <1>3. PICK w \in {"wakeparent", "zombie"} : pc' = [pc EXCEPT ![p] = w]
    BY DEF WakeupDone
  <1>4. CpuInv' /\ ForksOwnSlots' /\ LockInv'
    <2>1. /\ Runs(c, p) /\ pc[p] # "forkcopy"
          /\ w \in Forking => pc[p] \in Forking
          /\ UNCHANGED <<state, ret, tgt, on, spc, best, plock, proc_lock>>
      BY <1>3 DEF WakeupDone
    <2>2. /\ wait_lock' \in {wait_lock, None, c}
          /\ wait_lock' = c => w \in {"waitscan", "waitsleep", "wakeinit", "wakeparent", "zombie"}
      BY <1>3 DEF IInv, LockInv, WaitLockHeld, WakeupDone
    <2> QED
      BY <1>2, <1>3, <2>1, <2>2, PathStep
  <1> QED
    BY <1>2, <1>4 DEF IInv

\* setpriority() keeps the invariant, above all the range of the levels.
LEMMA SetPriorityKeeps ==
  ASSUME IInv, NEW c \in Cpu, NEW p \in Proc, NEW n \in Priorities, SetPriority(c, p, n)
  PROVE  IInv'
  <1>2. TypeOK' /\ ScanInTable'
    BY SMTT(90) DEF IInv, TypeOK, FieldsOK, PathsOK, LoopsOK, LocksOK, ScanInTable, CpuInv, OnWhileBusy,
                 ForksOwnSlots, SetPriority, Enters
  <1>3. pc' = [pc EXCEPT ![p] = "user"]
    BY DEF IInv, TypeOK, PathsOK, SetPriority, Enters
  <1>4. CpuInv' /\ ForksOwnSlots' /\ LockInv'
    <2>1. /\ Runs(c, p) /\ pc[p] # "forkcopy"
          /\ "user" \in Forking => pc[p] \in Forking
          /\ UNCHANGED <<state, ret, tgt, on, spc, best, plock, proc_lock>>
      BY DEF SetPriority, Enters
    <2>2. /\ wait_lock' \in {wait_lock, None, c}
          /\ wait_lock' = c => "user" \in {"waitscan", "waitsleep", "wakeinit", "wakeparent", "zombie"}
      BY DEF IInv, LockInv, WaitLockHeld, SetPriority, Enters
    <2> QED
      BY <1>2, <1>3, <2>1, <2>2, PathStep
  <1> QED
    BY <1>2, <1>4 DEF IInv

-----------------------------------------------------------------------------
(* Steps that change who runs what, or who holds which process's lock *)

\* The start of a scan keeps the invariant: no other CPU scans while proc_lock is held.
LEMMA SchedLockKeeps ==
  ASSUME IInv, NEW c \in Cpu, SchedLock(c)
  PROVE  IInv'
  <1>2. TypeOK' /\ ScanInTable'
    BY SMTT(90) DEF IInv, TypeOK, FieldsOK, PathsOK, LoopsOK, LocksOK, ScanInTable, CpuInv, OnWhileBusy,
                 ForksOwnSlots, SchedLock
  <1>3. CpuInv'
    BY SMTT(90) DEF IInv, TypeOK, FieldsOK, PathsOK, LoopsOK, LocksOK, ScanInTable, CpuInv, OnWhileBusy, RunsOnce,
                 ScanIsLocked, OnIsRunning, StoppedReturns, ForksOwnSlots, SchedLock
  <1>4. ForksOwnSlots'
    BY SMTT(90) DEF IInv, TypeOK, FieldsOK, PathsOK, LoopsOK, LocksOK, CpuInv, OnWhileBusy, OnIsRunning,
                 ForksOwnSlots, SchedLock
  <1>5. LockInv'
    BY SMTT(90) DEF IInv, TypeOK, FieldsOK, PathsOK, LoopsOK, LocksOK, CpuInv, OnWhileBusy, RunsOnce, OnIsRunning,
                 StoppedReturns, ScanIsLocked, ForksOwnSlots, LockInv, LocksHeld, WaitLockHeld,
                 MayHold, SchedLock
  <1> QED
    BY <1>2, <1>3, <1>4, <1>5 DEF IInv

\* A step of the scan keeps the invariant: only runnable processes become the candidate.
LEMMA SchedScanKeeps ==
  ASSUME IInv, NEW c \in Cpu, SchedScan(c)
  PROVE  IInv'
  <1>2. TypeOK' /\ ScanInTable'
    BY SMTT(90) DEF IInv, TypeOK, FieldsOK, PathsOK, LoopsOK, LocksOK, ScanInTable, CpuInv, OnWhileBusy,
                 ForksOwnSlots, SchedScan, Better
  <1>3. CpuInv'
    BY SMTT(90) DEF IInv, TypeOK, FieldsOK, PathsOK, LoopsOK, LocksOK, ScanInTable, CpuInv, OnWhileBusy, RunsOnce,
                 ScanIsLocked, OnIsRunning, StoppedReturns, ForksOwnSlots, SchedScan, Better
  <1>4. ForksOwnSlots'
    BY SMTT(90) DEF IInv, TypeOK, FieldsOK, PathsOK, LoopsOK, LocksOK, CpuInv, OnWhileBusy, OnIsRunning,
                 ForksOwnSlots, SchedScan, Better
  <1>5. LockInv'
    BY SMTT(90) DEF IInv, TypeOK, FieldsOK, PathsOK, LoopsOK, LocksOK, CpuInv, OnWhileBusy, RunsOnce, OnIsRunning,
                 StoppedReturns, ScanIsLocked, ForksOwnSlots, LockInv, LocksHeld, WaitLockHeld,
                 MayHold, SchedScan, Better
  <1> QED
    BY <1>2, <1>3, <1>4, <1>5 DEF IInv

\* A scan that found nothing keeps the invariant.
LEMMA SchedNoneKeeps ==
  ASSUME IInv, NEW c \in Cpu, SchedNone(c)
  PROVE  IInv'
  <1>2. TypeOK' /\ ScanInTable'
    BY SMTT(90) DEF IInv, TypeOK, FieldsOK, PathsOK, LoopsOK, LocksOK, ScanInTable, CpuInv, OnWhileBusy,
                 ForksOwnSlots, SchedNone
  <1>3. CpuInv'
    BY SMTT(90) DEF IInv, TypeOK, FieldsOK, PathsOK, LoopsOK, LocksOK, ScanInTable, CpuInv, OnWhileBusy, RunsOnce,
                 ScanIsLocked, OnIsRunning, StoppedReturns, ForksOwnSlots, SchedNone
  <1>4. ForksOwnSlots'
    BY SMTT(90) DEF IInv, TypeOK, FieldsOK, PathsOK, LoopsOK, LocksOK, CpuInv, OnWhileBusy, OnIsRunning,
                 ForksOwnSlots, SchedNone
  <1>5. LockInv'
    BY SMTT(90) DEF IInv, TypeOK, FieldsOK, PathsOK, LoopsOK, LocksOK, CpuInv, OnWhileBusy, RunsOnce, OnIsRunning,
                 StoppedReturns, ScanIsLocked, ForksOwnSlots, LockInv, LocksHeld, WaitLockHeld,
                 MayHold, SchedNone
  <1> QED
    BY <1>2, <1>3, <1>4, <1>5 DEF IInv

\* The round-robin loop passing over a slot keeps the invariant.
LEMMA RoundSkipKeeps ==
  ASSUME IInv, NEW c \in Cpu, RoundSkip(c)
  PROVE  IInv'
  <1>2. TypeOK' /\ ScanInTable'
    BY SMTT(90) DEF IInv, TypeOK, FieldsOK, PathsOK, LoopsOK, LocksOK, ScanInTable, CpuInv, OnWhileBusy,
                 ForksOwnSlots, RoundSkip, NextInTable
  <1>3. CpuInv'
    BY SMTT(90) DEF IInv, TypeOK, FieldsOK, PathsOK, LoopsOK, LocksOK, ScanInTable, CpuInv, OnWhileBusy, RunsOnce,
                 ScanIsLocked, OnIsRunning, StoppedReturns, ForksOwnSlots, RoundSkip, NextInTable
  <1>4. ForksOwnSlots'
    BY SMTT(90) DEF IInv, TypeOK, FieldsOK, PathsOK, LoopsOK, LocksOK, CpuInv, OnWhileBusy, OnIsRunning,
                 ForksOwnSlots, RoundSkip, NextInTable
  <1>5. LockInv'
    BY SMTT(90) DEF IInv, TypeOK, FieldsOK, PathsOK, LoopsOK, LocksOK, CpuInv, OnWhileBusy, RunsOnce, OnIsRunning,
                 StoppedReturns, ScanIsLocked, ForksOwnSlots, LockInv, LocksHeld, WaitLockHeld,
                 MayHold, RoundSkip, NextInTable
  <1> QED
    BY <1>2, <1>3, <1>4, <1>5 DEF IInv

\* The scheduler releasing the lock its process took keeps the invariant.
LEMMA SchedBackKeeps ==
  ASSUME IInv, NEW c \in Cpu, SchedBack(c)
  PROVE  IInv'
  <1>1. FieldsOK' /\ PathsOK'
    BY SMTT(90) DEF IInv, TypeOK, FieldsOK, PathsOK, LoopsOK, LocksOK, SchedBack
  <1>2. TypeOK' /\ ScanInTable'
    <2>1. LoopsOK' /\ ScanInTable'
      BY SMTT(90) DEF IInv, TypeOK, FieldsOK, PathsOK, LoopsOK, LocksOK, ScanInTable, SchedBack
    <2>2. /\ plock' = [plock EXCEPT ![on[c]] = None]
          /\ UNCHANGED <<wait_lock, proc_lock>>
      BY DEF SchedBack
    <2>3. plock \in [Proc -> Cpu \cup {None}]
      BY DEF IInv, TypeOK, LocksOK
    <2>4. \A q \in Proc : plock'[q] \in Cpu \cup {None}
      BY <2>2, <2>3
    <2>5. plock' \in [Proc -> Cpu \cup {None}]
      BY <2>2, <2>3, <2>4
    <2>6. LocksOK'
      BY <2>2, <2>5 DEF IInv, TypeOK, LocksOK
    <2> QED
      BY <1>1, <2>1, <2>6 DEF TypeOK
  <1>3. CpuInv'
    BY SMTT(90) DEF IInv, TypeOK, FieldsOK, PathsOK, LoopsOK, LocksOK, ScanInTable, CpuInv, OnWhileBusy, RunsOnce,
                 ScanIsLocked, OnIsRunning, StoppedReturns, ForksOwnSlots, SchedBack
  <1>4. ForksOwnSlots'
    BY SMTT(90) DEF IInv, TypeOK, FieldsOK, PathsOK, LoopsOK, LocksOK, CpuInv, OnWhileBusy, OnIsRunning,
                 ForksOwnSlots, SchedBack
  <1>5. LockInv'
    BY SMTT(90) DEF IInv, TypeOK, FieldsOK, PathsOK, LoopsOK, LocksOK, CpuInv, OnWhileBusy, RunsOnce, OnIsRunning,
                 StoppedReturns, ScanIsLocked, ForksOwnSlots, LockInv, LocksHeld, WaitLockHeld,
                 MayHold, SchedBack
  <1> QED
    BY <1>2, <1>3, <1>4, <1>5 DEF IInv

\* A process released behind swtch() keeps the invariant.
LEMMA ResumeKeeps ==
  ASSUME IInv, NEW c \in Cpu, NEW p \in Proc, Resume(c, p)
  PROVE  IInv'
  <1>2. TypeOK' /\ ScanInTable'
    BY SMTT(90) DEF IInv, TypeOK, FieldsOK, PathsOK, LoopsOK, LocksOK, ScanInTable, CpuInv, OnWhileBusy,
                 ForksOwnSlots, Resume
  <1>3. CpuInv'
    BY SMTT(90) DEF IInv, TypeOK, FieldsOK, PathsOK, LoopsOK, LocksOK, ScanInTable, CpuInv, OnWhileBusy, RunsOnce,
                 ScanIsLocked, OnIsRunning, StoppedReturns, ForksOwnSlots, Resume
  <1>4. ForksOwnSlots'
    BY SMTT(90) DEF IInv, TypeOK, FieldsOK, PathsOK, LoopsOK, LocksOK, CpuInv, OnWhileBusy, OnIsRunning,
                 ForksOwnSlots, Resume
  <1>5. LockInv'
    BY SMTT(90) DEF IInv, TypeOK, FieldsOK, PathsOK, LoopsOK, LocksOK, CpuInv, OnWhileBusy, RunsOnce, OnIsRunning,
                 StoppedReturns, ScanIsLocked, ForksOwnSlots, LockInv, LocksHeld, WaitLockHeld,
                 MayHold, Resume
  <1> QED
    BY <1>2, <1>3, <1>4, <1>5 DEF IInv

\* yield() keeps the invariant: the process holds no lock but its own when it stops.
LEMMA YieldKeeps ==
  ASSUME IInv, NEW c \in Cpu, NEW p \in Proc, Yield(c, p)
  PROVE  IInv'
  <1>2. TypeOK' /\ ScanInTable'
    BY SMTT(90) DEF IInv, TypeOK, FieldsOK, PathsOK, LoopsOK, LocksOK, ScanInTable, CpuInv, OnWhileBusy,
                 ForksOwnSlots, Yield, ToScheduler, Rises
  <1>3. CpuInv'
    BY SMTT(90) DEF IInv, TypeOK, FieldsOK, PathsOK, LoopsOK, LocksOK, ScanInTable, CpuInv, OnWhileBusy, RunsOnce,
                 ScanIsLocked, OnIsRunning, StoppedReturns, ForksOwnSlots, Yield, ToScheduler, Rises
  <1>4. ForksOwnSlots'
    BY SMTT(90) DEF IInv, TypeOK, FieldsOK, PathsOK, LoopsOK, LocksOK, CpuInv, OnWhileBusy, OnIsRunning,
                 ForksOwnSlots, Yield, ToScheduler, Rises
  <1>5. LockInv'
    BY SMTT(90) DEF IInv, TypeOK, FieldsOK, PathsOK, LoopsOK, LocksOK, CpuInv, OnWhileBusy, RunsOnce, OnIsRunning,
                 StoppedReturns, ScanIsLocked, ForksOwnSlots, LockInv, LocksHeld, WaitLockHeld,
                 MayHold, Yield, ToScheduler, Rises
  <1> QED
    BY <1>2, <1>3, <1>4, <1>5 DEF IInv

\* fork() freeing its slot again keeps the invariant: nobody runs that slot.
LEMMA ForkFailsKeeps ==
  ASSUME IInv, NEW c \in Cpu, NEW p \in Proc, ForkFails(c, p)
  PROVE  IInv'
  <1>1. FieldsOK'
    BY SMTT(90) DEF IInv, TypeOK, FieldsOK, PathsOK, LoopsOK, LocksOK, CpuInv, OnWhileBusy, ForksOwnSlots, ForkFails, Freeproc
  <1>2. TypeOK' /\ ScanInTable'
    <2>1. PathsOK'
      BY SMTT(90) DEF IInv, TypeOK, PathsOK, ForkFails, Freeproc
    <2>2. LoopsOK' /\ ScanInTable'
      BY SMTT(90) DEF IInv, TypeOK, FieldsOK, PathsOK, LoopsOK, LocksOK, ScanInTable, ForkFails, Freeproc
    <2>3. LocksOK'
      BY SMTT(90) DEF IInv, TypeOK, FieldsOK, PathsOK, LoopsOK, LocksOK, ForksOwnSlots, ForkFails, Freeproc
    <2> QED
      BY <1>1, <2>1, <2>2, <2>3 DEF TypeOK
  <1>3. CpuInv'
    BY SMTT(90) DEF IInv, TypeOK, FieldsOK, PathsOK, LoopsOK, LocksOK, ScanInTable, CpuInv, OnWhileBusy, RunsOnce,
                 ScanIsLocked, OnIsRunning, StoppedReturns, ForksOwnSlots, ForkFails, Freeproc
  <1>4. ForksOwnSlots'
    BY SMTT(90) DEF IInv, TypeOK, FieldsOK, PathsOK, LoopsOK, LocksOK, CpuInv, OnWhileBusy, OnIsRunning,
                 ForksOwnSlots, ForkFails, Freeproc
  <1>5. LockInv'
    BY SMTT(90) DEF IInv, TypeOK, FieldsOK, PathsOK, LoopsOK, LocksOK, CpuInv, OnWhileBusy, RunsOnce, OnIsRunning,
                 StoppedReturns, ScanIsLocked, ForksOwnSlots, LockInv, LocksHeld, WaitLockHeld,
                 MayHold, ForkFails, Freeproc
  <1> QED
    BY <1>2, <1>3, <1>4, <1>5 DEF IInv

\* fork() releasing the child's lock keeps the invariant: it was the only one held.
LEMMA ForkCopyKeeps ==
  ASSUME IInv, NEW c \in Cpu, NEW p \in Proc, ForkCopy(c, p)
  PROVE  IInv'
  <1>1. FieldsOK'
    BY SMTT(90) DEF IInv, TypeOK, FieldsOK, PathsOK, LoopsOK, LocksOK, CpuInv, OnWhileBusy, ForksOwnSlots, ForkCopy
  <1>2. TypeOK' /\ ScanInTable'
    <2>1. PathsOK'
      BY SMTT(90) DEF IInv, TypeOK, PathsOK, ForkCopy
    <2>2. LoopsOK' /\ ScanInTable'
      BY SMTT(90) DEF IInv, TypeOK, FieldsOK, PathsOK, LoopsOK, LocksOK, ScanInTable, ForkCopy
    <2>3. LocksOK'
      BY SMTT(90) DEF IInv, TypeOK, FieldsOK, PathsOK, LoopsOK, LocksOK, ForksOwnSlots, ForkCopy
    <2> QED
      BY <1>1, <2>1, <2>2, <2>3 DEF TypeOK
  <1>3. CpuInv'
    BY SMTT(90) DEF IInv, TypeOK, FieldsOK, PathsOK, LoopsOK, LocksOK, ScanInTable, CpuInv, OnWhileBusy, RunsOnce,
                 ScanIsLocked, OnIsRunning, StoppedReturns, ForksOwnSlots, ForkCopy
  <1>4. ForksOwnSlots'
    BY SMTT(90) DEF IInv, TypeOK, FieldsOK, PathsOK, LoopsOK, LocksOK, CpuInv, OnWhileBusy, OnIsRunning,
                 ForksOwnSlots, ForkCopy
  <1>5. LockInv'
    BY SMTT(90) DEF IInv, TypeOK, FieldsOK, PathsOK, LoopsOK, LocksOK, CpuInv, OnWhileBusy, RunsOnce, OnIsRunning,
                 StoppedReturns, ScanIsLocked, ForksOwnSlots, LockInv, LocksHeld, WaitLockHeld,
                 MayHold, ForkCopy
  <1> QED
    BY <1>2, <1>3, <1>4, <1>5 DEF IInv

\* fork() making its child runnable keeps the invariant: the child has yet to return.
LEMMA ForkRunKeeps ==
  ASSUME IInv, NEW c \in Cpu, NEW p \in Proc, ForkRun(c, p)
  PROVE  IInv'
  <1>2. TypeOK' /\ ScanInTable'
    BY SMTT(90) DEF IInv, TypeOK, FieldsOK, PathsOK, LoopsOK, LocksOK, ScanInTable, CpuInv, OnWhileBusy,
                 ForksOwnSlots, ForkRun, Rises
  <1>3. CpuInv'
    BY SMTT(90) DEF IInv, TypeOK, FieldsOK, PathsOK, LoopsOK, LocksOK, ScanInTable, CpuInv, OnWhileBusy, RunsOnce,
                 ScanIsLocked, OnIsRunning, StoppedReturns, ForksOwnSlots, ForkRun, Rises
  <1>4. ForksOwnSlots'
    BY SMTT(90) DEF IInv, TypeOK, FieldsOK, PathsOK, LoopsOK, LocksOK, CpuInv, OnWhileBusy, OnIsRunning,
                 ForksOwnSlots, ForkRun, Rises
  <1>5. LockInv'
    BY SMTT(90) DEF IInv, TypeOK, FieldsOK, PathsOK, LoopsOK, LocksOK, CpuInv, OnWhileBusy, RunsOnce, OnIsRunning,
                 StoppedReturns, ScanIsLocked, ForksOwnSlots, LockInv, LocksHeld, WaitLockHeld,
                 MayHold, ForkRun, Rises
  <1> QED
    BY <1>2, <1>3, <1>4, <1>5 DEF IInv

\* wait() freeing a zombie keeps the invariant: the zombie, whose lock is free, is off
\* its CPU.
LEMMA WaitReapKeeps ==
  ASSUME IInv, NEW c \in Cpu, NEW p \in Proc, WaitReap(c, p)
  PROVE  IInv'
  <1>2. TypeOK' /\ ScanInTable'
    BY SMTT(90) DEF IInv, TypeOK, FieldsOK, PathsOK, LoopsOK, LocksOK, ScanInTable, CpuInv, OnWhileBusy,
                 ForksOwnSlots, WaitReap, Freeproc, FoundZombie
  <1>3. CpuInv'
    BY SMTT(90) DEF IInv, TypeOK, FieldsOK, PathsOK, LoopsOK, LocksOK, ScanInTable, CpuInv, OnWhileBusy, RunsOnce,
                 ScanIsLocked, OnIsRunning, StoppedReturns, ForksOwnSlots, WaitReap, Freeproc, FoundZombie
  <1>4. ForksOwnSlots'
    BY SMTT(90) DEF IInv, TypeOK, FieldsOK, PathsOK, LoopsOK, LocksOK, CpuInv, OnWhileBusy, OnIsRunning,
                 ForksOwnSlots, WaitReap, Freeproc, FoundZombie
  <1>5. LockInv'
    BY SMTT(90) DEF IInv, TypeOK, FieldsOK, PathsOK, LoopsOK, LocksOK, CpuInv, OnWhileBusy, RunsOnce, OnIsRunning,
                 StoppedReturns, ScanIsLocked, ForksOwnSlots, LockInv, LocksHeld, WaitLockHeld,
                 MayHold, WaitReap, Freeproc, FoundZombie
  <1> QED
    BY <1>2, <1>3, <1>4, <1>5 DEF IInv

\* sleep() in wait() keeps the invariant: wait_lock is released before sched().
LEMMA WaitSleepKeeps ==
  ASSUME IInv, NEW c \in Cpu, NEW p \in Proc, WaitSleep(c, p)
  PROVE  IInv'
  <1>2. TypeOK' /\ ScanInTable'
    BY SMTT(90) DEF IInv, TypeOK, FieldsOK, PathsOK, LoopsOK, LocksOK, ScanInTable, CpuInv, OnWhileBusy,
                 ForksOwnSlots, WaitSleep, ToScheduler
  <1>3. CpuInv'
    BY SMTT(90) DEF IInv, TypeOK, FieldsOK, PathsOK, LoopsOK, LocksOK, ScanInTable, CpuInv, OnWhileBusy, RunsOnce,
                 ScanIsLocked, OnIsRunning, StoppedReturns, ForksOwnSlots, WaitSleep, ToScheduler
  <1>4. ForksOwnSlots'
    BY SMTT(90) DEF IInv, TypeOK, FieldsOK, PathsOK, LoopsOK, LocksOK, CpuInv, OnWhileBusy, OnIsRunning,
                 ForksOwnSlots, WaitSleep, ToScheduler
  <1>5. LockInv'
    BY SMTT(90) DEF IInv, TypeOK, FieldsOK, PathsOK, LoopsOK, LocksOK, CpuInv, OnWhileBusy, RunsOnce, OnIsRunning,
                 StoppedReturns, ScanIsLocked, ForksOwnSlots, LockInv, LocksHeld, WaitLockHeld,
                 MayHold, WaitSleep, ToScheduler
  <1> QED
    BY <1>2, <1>3, <1>4, <1>5 DEF IInv

\* The end of exit() keeps the invariant: wait_lock is released before sched().
LEMMA ExitZombieKeeps ==
  ASSUME IInv, NEW c \in Cpu, NEW p \in Proc, ExitZombie(c, p)
  PROVE  IInv'
  <1>1. FieldsOK' /\ PathsOK'
    BY SMTT(90) DEF IInv, TypeOK, FieldsOK, PathsOK, LoopsOK, LocksOK, ExitZombie, ToScheduler
  <1>2. TypeOK' /\ ScanInTable'
    <2>1. LoopsOK' /\ ScanInTable'
      BY SMTT(90) DEF IInv, TypeOK, FieldsOK, PathsOK, LoopsOK, LocksOK, ScanInTable, ExitZombie, ToScheduler
    <2>2. LocksOK'
      BY SMTT(90) DEF IInv, TypeOK, LocksOK, ExitZombie, ToScheduler
    <2> QED
      BY <1>1, <2>1, <2>2 DEF TypeOK
  <1>3. CpuInv'
    BY SMTT(90) DEF IInv, TypeOK, FieldsOK, PathsOK, LoopsOK, LocksOK, ScanInTable, CpuInv, OnWhileBusy, RunsOnce,
                 ScanIsLocked, OnIsRunning, StoppedReturns, ForksOwnSlots, ExitZombie, ToScheduler
  <1>4. ForksOwnSlots'
    BY SMTT(90) DEF IInv, TypeOK, FieldsOK, PathsOK, LoopsOK, LocksOK, CpuInv, OnWhileBusy, OnIsRunning,
                 ForksOwnSlots, ExitZombie, ToScheduler
  <1>5. LockInv'
    BY SMTT(90) DEF IInv, TypeOK, FieldsOK, PathsOK, LoopsOK, LocksOK, CpuInv, OnWhileBusy, RunsOnce, OnIsRunning,
                 StoppedReturns, ScanIsLocked, ForksOwnSlots, LockInv, LocksHeld, WaitLockHeld,
                 MayHold, ExitZombie, ToScheduler
  <1> QED
    BY <1>2, <1>3, <1>4, <1>5 DEF IInv

\* allocproc() keeps the invariant: an unused slot is in no other fork and on no CPU.
LEMMA ForkAllocKeeps ==
  ASSUME IInv, NEW c \in Cpu, NEW p \in Proc, NEW q \in Proc, ForkAlloc(c, p, q)
  PROVE  IInv'
  <1>1. FieldsOK'
    BY SMTT(90) DEF IInv, TypeOK, FieldsOK, PathsOK, LoopsOK, LocksOK, CpuInv, OnWhileBusy, ForksOwnSlots, ForkAlloc, Enters
  <1>2. TypeOK' /\ ScanInTable'
    <2>1. PathsOK'
      BY SMTT(90) DEF IInv, TypeOK, PathsOK, ForkAlloc, Enters
    <2>2. LoopsOK' /\ ScanInTable'
      BY SMTT(90) DEF IInv, TypeOK, FieldsOK, PathsOK, LoopsOK, LocksOK, ScanInTable, ForkAlloc, Enters
    <2>3. LocksOK'
      BY SMTT(90) DEF IInv, TypeOK, FieldsOK, PathsOK, LoopsOK, LocksOK, ForksOwnSlots, ForkAlloc, Enters
    <2> QED
      BY <1>1, <2>1, <2>2, <2>3 DEF TypeOK
  <1>3. CpuInv'
    BY SMTT(90) DEF IInv, TypeOK, FieldsOK, PathsOK, LoopsOK, LocksOK, ScanInTable, CpuInv, OnWhileBusy, RunsOnce,
                 ScanIsLocked, OnIsRunning, StoppedReturns, ForksOwnSlots, ForkAlloc, Enters
  <1>4. ForksOwnSlots'
    BY SMTT(90) DEF IInv, TypeOK, FieldsOK, PathsOK, LoopsOK, LocksOK, CpuInv, OnWhileBusy, OnIsRunning,
                 ForksOwnSlots, ForkAlloc, Enters
  <1>5. LockInv'
    BY SMTT(90) DEF IInv, TypeOK, FieldsOK, PathsOK, LoopsOK, LocksOK, CpuInv, OnWhileBusy, RunsOnce, OnIsRunning,
                 StoppedReturns, ScanIsLocked, ForksOwnSlots, LockInv, LocksHeld, WaitLockHeld,
                 MayHold, ForkAlloc, Enters
  <1> QED
    BY <1>2, <1>3, <1>4, <1>5 DEF IInv

\* A sleeper that is made runnable is on no CPU: it keeps what holds of stopped
\* processes.
LEMMA WakeStep ==
  ASSUME IInv, TypeOK', ScanInTable', NEW q \in Proc, plock[q] = None, state[q] = "sleeping",
         state' = [state EXCEPT ![q] = "runnable"],
         UNCHANGED <<pc, ret, tgt, on, spc, scan, best, locks>>
  PROVE  IInv'
  <1>1. CpuInv'
    BY SMTT(90) DEF IInv, TypeOK, FieldsOK, LoopsOK, CpuInv, OnWhileBusy, RunsOnce, ScanIsLocked,
                 OnIsRunning, StoppedReturns
  <1>2. ForksOwnSlots'
    BY SMTT(90) DEF IInv, TypeOK, FieldsOK, PathsOK, ForksOwnSlots
  <1>3. LockInv'
    BY DEF IInv, LockInv, LocksHeld, WaitLockHeld, MayHold
  <1> QED
    BY <1>1, <1>2, <1>3 DEF IInv

\* A step that changes none of the variables the invariant is about keeps it.
LEMMA SameStep ==
  ASSUME IInv, TypeOK', ScanInTable', UNCHANGED <<state, pc, ret, tgt, on, spc, scan, best, locks>>
  PROVE  IInv'
  BY DEF IInv, CpuInv, OnWhileBusy, RunsOnce, ScanIsLocked, OnIsRunning, StoppedReturns,
         ForksOwnSlots, LockInv, LocksHeld, WaitLockHeld, MayHold

\* kill() keeps the invariant: the sleeper it wakes is on no CPU once its lock is free.
LEMMA KillKeeps ==
  ASSUME IInv, NEW c \in Cpu, NEW p \in Proc, NEW q \in Proc, Kill(c, p, q)
  PROVE  IInv'
  <1>1. FieldsOK' /\ late' \in [Cpu -> SUBSET Proc]
    <2>1. CASE UNCHANGED <<state, late>>
      BY SMTT(90), <2>1 DEF IInv, TypeOK, FieldsOK, PathsOK, LoopsOK, LocksOK, Kill, Enters, Rises
    <2>2. CASE state' = [state EXCEPT ![q] = "runnable"] /\ Rises(q)
      BY SMTT(90), <2>2 DEF IInv, TypeOK, FieldsOK, PathsOK, LoopsOK, LocksOK, Kill, Enters, Rises
    <2> QED
      BY <2>1, <2>2 DEF Kill
  <1>2. TypeOK' /\ ScanInTable'
    <2>1. PathsOK' /\ LocksOK'
      BY SMTT(90) DEF IInv, TypeOK, FieldsOK, PathsOK, LoopsOK, LocksOK, Kill, Enters
    <2>2. LoopsOK' /\ ScanInTable'
      BY SMTT(90), <1>1 DEF IInv, TypeOK, FieldsOK, PathsOK, LoopsOK, LocksOK, ScanInTable, Kill, Enters
    <2> QED
      BY <1>1, <2>1, <2>2 DEF TypeOK
  <1>3. UNCHANGED <<pc, ret, tgt, on, spc, scan, best, locks>> /\ q \in Proc
    BY DEF IInv, TypeOK, FieldsOK, PathsOK, LoopsOK, LocksOK, Kill
  <1>4. CASE UNCHANGED state
    BY <1>2, <1>3, <1>4, SameStep
  <1>5. CASE state' = [state EXCEPT ![q] = "runnable"] /\ state[q] = "sleeping" /\ plock[q] = None
    BY <1>2, <1>3, <1>5, WakeStep
  <1> QED
    BY <1>4, <1>5 DEF Kill

\* A step of wakeup() keeps the invariant, for the same reason.
LEMMA WakeupKeeps ==
  ASSUME IInv, NEW c \in Cpu, NEW p \in Proc, NEW w \in {"wakeinit", "wakeparent"}, NEW t \in Proc \cup {None}, Wakeup(c, p, w, t)
  PROVE  IInv'
  <1>1. FieldsOK' /\ late' \in [Cpu -> SUBSET Proc]
    <2>1. CASE UNCHANGED <<state, late>>
      BY SMTT(90), <2>1 DEF IInv, TypeOK, FieldsOK, PathsOK, LoopsOK, LocksOK, Wakeup, Rises
    <2>2. CASE state' = [state EXCEPT ![i[p]] = "runnable"] /\ Rises(i[p])
      BY SMTT(90), <2>2 DEF IInv, TypeOK, FieldsOK, PathsOK, LoopsOK, LocksOK, Wakeup, Rises
    <2> QED
      BY <2>1, <2>2 DEF Wakeup
  <1>2. TypeOK' /\ ScanInTable'
    <2>1. PathsOK' /\ LocksOK'
      BY SMTT(90) DEF IInv, TypeOK, FieldsOK, PathsOK, LoopsOK, LocksOK, Wakeup
    <2>2. LoopsOK' /\ ScanInTable'
      BY SMTT(90), <1>1 DEF IInv, TypeOK, FieldsOK, PathsOK, LoopsOK, LocksOK, ScanInTable, Wakeup
    <2> QED
      BY <1>1, <2>1, <2>2 DEF TypeOK
  <1>3. UNCHANGED <<pc, ret, tgt, on, spc, scan, best, locks>> /\ i[p] \in Proc
    BY DEF IInv, TypeOK, FieldsOK, PathsOK, LoopsOK, LocksOK, Wakeup
  <1>4. CASE UNCHANGED state
    BY <1>2, <1>3, <1>4, SameStep
  <1>5. CASE state' = [state EXCEPT ![i[p]] = "runnable"] /\ state[i[p]] = "sleeping" /\ plock[i[p]] = None
    BY <1>2, <1>3, <1>5, WakeStep
  <1> QED
    BY <1>4, <1>5 DEF Wakeup

\* The switch to the candidate keeps the invariant: proc_lock kept every other CPU from
\* choosing it, and its own lock is free, so that it is on no CPU.
LEMMA SchedPickKeeps ==
  ASSUME IInv, NEW c \in Cpu, SchedPick(c)
  PROVE  IInv'
  <1>1. PICK p \in Proc : /\ p = best[c] /\ state[p] = "runnable" /\ plock[p] = None
                          /\ spc[c] \in {"idle", "scan"}
                          /\ plock' = [plock EXCEPT ![p] = c]
                          /\ state' = [state EXCEPT ![p] = "running"]
                          /\ on' = [on EXCEPT ![c] = p]
                          /\ spc' = [spc EXCEPT ![c] = "away"]
    BY DEF IInv, TypeOK, FieldsOK, PathsOK, LoopsOK, LocksOK, ScanInTable, CpuInv, ScanIsLocked, SchedPick
  <1>2. TypeOK' /\ ScanInTable'
    BY SMTT(90), <1>1 DEF IInv, TypeOK, FieldsOK, PathsOK, LoopsOK, LocksOK, ScanInTable, SchedPick
  <1>3. UNCHANGED <<pc, ret, tgt, best, wait_lock>> /\ proc_lock' = None
    BY DEF SchedPick
  <1>4. \A d \in Cpu : on[d] # p
    <2>1. SUFFICES ASSUME NEW d \in Cpu, on[d] = p PROVE FALSE
      OBVIOUS
    <2>2. spc[d] \in {"away", "back"}
      BY <2>1 DEF IInv, TypeOK, FieldsOK, PathsOK, LoopsOK, LocksOK, CpuInv, OnWhileBusy
    <2>3. state[p] = "running" \/ plock[p] = d
      BY <2>1, <2>2 DEF IInv, CpuInv, OnIsRunning
    <2> QED
      BY <1>1, <2>3
  <1>5. \A d \in Cpu : d # c => spc[d] # "scan"
    BY DEF IInv, CpuInv, ScanIsLocked, SchedPick
  <1>6. CpuInv'
    BY SMTT(90), <1>1, <1>3, <1>4, <1>5 DEF IInv, TypeOK, FieldsOK, PathsOK, LoopsOK, LocksOK, CpuInv, OnWhileBusy, RunsOnce,
         ScanIsLocked, OnIsRunning, StoppedReturns
  <1>7. ForksOwnSlots'
    BY <1>1, <1>3 DEF IInv, TypeOK, FieldsOK, PathsOK, LoopsOK, LocksOK, ForksOwnSlots
  <1>8. LockInv'
    BY SMTT(90), <1>1, <1>3, <1>4 DEF IInv, TypeOK, FieldsOK, PathsOK, LoopsOK, LocksOK, CpuInv, OnWhileBusy, StoppedReturns,
         LockInv, LocksHeld, WaitLockHeld, MayHold
  <1> QED
    BY <1>2, <1>6, <1>7, <1>8 DEF IInv

\* The round-robin switch keeps the invariant: a runnable process whose lock is free is
\* on no CPU.
LEMMA RoundRunKeeps ==
  ASSUME IInv, NEW c \in Cpu, RoundRun(c)
  PROVE  IInv'
  <1>1. PICK p \in Proc : /\ p = scan[c] /\ state[p] = "runnable" /\ plock[p] = None
                          /\ spc[c] \in {"idle", "scan"}
                          /\ plock' = [plock EXCEPT ![p] = c]
                          /\ state' = [state EXCEPT ![p] = "running"]
                          /\ on' = [on EXCEPT ![c] = p]
                          /\ spc' = [spc EXCEPT ![c] = "away"]
    BY DEF IInv, TypeOK, FieldsOK, PathsOK, LoopsOK, LocksOK, ScanInTable, CpuInv, ScanIsLocked, RoundRun
  <1>2. TypeOK' /\ ScanInTable'
    BY SMTT(90), <1>1 DEF IInv, TypeOK, FieldsOK, PathsOK, LoopsOK, LocksOK, ScanInTable, RoundRun, NextInTable
  <1>3. UNCHANGED <<pc, ret, tgt, best, wait_lock>> /\ proc_lock' = proc_lock
    BY DEF RoundRun
  <1>4. \A d \in Cpu : on[d] # p
    <2>1. SUFFICES ASSUME NEW d \in Cpu, on[d] = p PROVE FALSE
      OBVIOUS
    <2>2. spc[d] \in {"away", "back"}
      BY <2>1 DEF IInv, TypeOK, FieldsOK, PathsOK, LoopsOK, LocksOK, CpuInv, OnWhileBusy
    <2>3. state[p] = "running" \/ plock[p] = d
      BY <2>1, <2>2 DEF IInv, CpuInv, OnIsRunning
    <2> QED
      BY <1>1, <2>3
  <1>5. \A d \in Cpu : spc[d] # "scan"
    BY DEF IInv, ScanInTable, RoundRun
  <1>6. CpuInv'
    BY SMTT(90), <1>1, <1>3, <1>4, <1>5 DEF IInv, TypeOK, FieldsOK, PathsOK, LoopsOK, LocksOK, CpuInv, OnWhileBusy, RunsOnce,
         ScanIsLocked, OnIsRunning, StoppedReturns
  <1>7. ForksOwnSlots'
    BY <1>1, <1>3 DEF IInv, TypeOK, FieldsOK, PathsOK, LoopsOK, LocksOK, ForksOwnSlots
  <1>8. LockInv'
    BY SMTT(90), <1>1, <1>3, <1>4 DEF IInv, TypeOK, FieldsOK, PathsOK, LoopsOK, LocksOK, CpuInv, OnWhileBusy, StoppedReturns,
         LockInv, LocksHeld, WaitLockHeld, MayHold
  <1> QED
    BY <1>2, <1>6, <1>7, <1>8 DEF IInv

-----------------------------------------------------------------------------
(* The invariance of IInv, and what follows from it *)

\* The invariant holds when userinit() has made init.
LEMMA InitInv == Init => IInv
  BY DEF Init, IInv, TypeOK, FieldsOK, PathsOK, LoopsOK, LocksOK, ScanInTable, CpuInv, OnWhileBusy,
         RunsOnce, ScanIsLocked, OnIsRunning, StoppedReturns, ForksOwnSlots, LockInv, LocksHeld,
         WaitLockHeld

\* Every step keeps it.
LEMMA NextInv == IInv /\ [Next]_vars => IInv'
  <1> SUFFICES ASSUME IInv, [Next]_vars PROVE IInv'
    OBVIOUS
  <1>1. CASE UNCHANGED vars
    <2>1. TypeOK' /\ ScanInTable'
      BY <1>1 DEF vars, IInv, TypeOK, FieldsOK, PathsOK, LoopsOK, LocksOK, ScanInTable
    <2> QED
      BY <1>1, <2>1, SameStep DEF vars
  <1>2. ASSUME NEW c \in Cpu, Scheduler(c) PROVE IInv'
    BY <1>2, SchedLockKeeps, SchedScanKeeps, SchedPickKeeps, SchedNoneKeeps, RoundSkipKeeps,
       RoundRunKeeps, SchedBackKeeps DEF Scheduler
  <1>3. ASSUME NEW c \in Cpu, NEW p \in Proc, Kernel(c, p) PROVE IInv'
    <2>1. CASE Wakeup(c, p, "wakeinit", initproc) \/ Wakeup(c, p, "wakeparent", parent[p])
      <3>1. initproc \in Proc \cup {None} /\ parent[p] \in Proc \cup {None}
        BY DEF IInv, TypeOK, FieldsOK
      <3> QED
        BY <2>1, <3>1, WakeupKeeps
    <2> QED
      BY <1>3, <2>1, ForkFailsKeeps, ForkCopyKeeps, ForkParentKeeps, ForkRunKeeps, WaitNextKeeps,
         WaitReapKeeps, WaitCopyFailsKeeps, WaitReturnsKeeps, WaitStaysKeeps, WaitSleepKeeps,
         ExitLockKeeps, WakeupDoneKeeps, ExitZombieKeeps DEF Kernel
  <1>4. ASSUME NEW c \in Cpu, NEW p \in Proc, Process(c, p) PROVE IInv'
    BY <1>3, <1>4, ResumeKeeps, YieldKeeps, WaitLockKeeps, ExitKeeps, ForkAllocKeeps, KillKeeps,
       SetPriorityKeeps DEF Process
  <1> QED
    BY <1>1, <1>2, <1>4 DEF Next

\* It holds in every state of every behaviour.
LEMMA Invariance == Spec => []IInv
  BY InitInv, NextInv, PTL DEF Spec

\* The tables, paths, loops and locks keep their types, and priorities stay within
\* 1 to 10, for any number of processes and CPUs and both scheduler() loops.
THEOREM SchedTypeCorrect == Spec => []TypeOK
  <1>1. IInv => TypeOK
    BY DEF IInv
  <1> QED
    BY <1>1, Invariance, PTL

\* No process is ever run by two CPUs at once, whichever scheduler() is in use.
THEOREM ProcessRunsOnce == Spec => []RunsOnce
  <1>1. IInv => RunsOnce
    BY DEF IInv, CpuInv
  <1> QED
    BY <1>1, Invariance, PTL

\* wait() and the failure path of fork() never free a slot whose kernel stack a CPU
\* is still on.
THEOREM FreedSlotIsOffCpu == Spec => []FreedIsOffCpu
  <1>1. IInv => FreedIsOffCpu
    <2> SUFFICES ASSUME IInv, NEW c \in Cpu, on[c] # None
                 PROVE  state[on[c]] \notin {"unused", "used"}
      BY DEF FreedIsOffCpu
    <2>1. spc[c] \in {"away", "back"}
      BY DEF IInv, TypeOK, LoopsOK, CpuInv, OnWhileBusy
    <2> QED
      BY <2>1 DEF IInv, CpuInv, OnIsRunning
  <1> QED
    BY <1>1, Invariance, PTL

\* sched() never panics: the process that gives up its CPU holds its own lock and no
\* other, and is no longer RUNNING.
THEOREM SchedNeverPanics == Spec => []SchedHoldsOnlyItsLock
  <1>1. IInv => SchedHoldsOnlyItsLock
    <2> SUFFICES ASSUME IInv, NEW c \in Cpu, spc[c] = "back"
                 PROVE  /\ HeldBy(c) = {on[c]} /\ wait_lock # c /\ proc_lock # c
                        /\ state[on[c]] # "running"
      BY DEF SchedHoldsOnlyItsLock
    <2>1. on[c] \in Proc /\ plock[on[c]] = c /\ state[on[c]] # "running"
      <3>1. on[c] # None
        BY DEF IInv, CpuInv, OnWhileBusy
      <3>2. on[c] \in Proc
        BY <3>1 DEF IInv, TypeOK, LoopsOK
      <3> QED
        BY <3>2 DEF IInv, CpuInv, OnIsRunning
    <2>2. \A p \in Proc : plock[p] = c => p = on[c]
      BY DEF IInv, LockInv, LocksHeld, MayHold
    <2>3. HeldBy(c) = {on[c]}
      BY <2>1, <2>2 DEF HeldBy
    <2>4. wait_lock # c /\ proc_lock # c
      BY DEF IInv, LockInv, WaitLockHeld, CpuInv, ScanIsLocked
    <2> QED
      BY <2>1, <2>3, <2>4
  <1> QED
    BY <1>1, Invariance, PTL
-----------------------------------------------------------------------------
(* The order of the locks *)

\* A CPU that holds a process's lock acquires nothing before it releases it.
LEMMA PlockHolderWantsNothing ==
  ASSUME IInv, NEW p \in Proc, plock[p] \in Cpu
  PROVE  HolderOfWanted(plock[p]) = None
  <1> DEFINE h == plock[p]
  <1>1. h \in Cpu /\ MayHold(h, p)
    BY DEF IInv, LockInv, LocksHeld
  <1>2. CASE spc[h] = "back"
    BY <1>2 DEF HolderOfWanted
  <1>3. CASE spc[h] = "away" /\ ret[on[h]]
    BY <1>3 DEF HolderOfWanted
  <1>4. CASE spc[h] = "away" /\ ~ret[on[h]] /\ pc[on[h]] = "forkcopy"
    BY <1>4 DEF HolderOfWanted
  <1> QED
    BY <1>1, <1>2, <1>3, <1>4 DEF MayHold

\* What a CPU wants is a lock of a process, or wait_lock or proc_lock that it does
\* not want again once it holds it.
LEMMA Wanted ==
  ASSUME IInv, NEW c \in Cpu, HolderOfWanted(c) \in Cpu
  PROVE  \/ \E p \in Proc : HolderOfWanted(c) = plock[p]
         \/ HolderOfWanted(c) = proc_lock /\ spc[c] = "idle"
         \/ HolderOfWanted(c) = wait_lock /\ spc[c] = "away"
            /\ ~ret[on[c]] /\ pc[on[c]] \in {"forkparent", "wait", "exit"}
  <1>1. scan[c] \in 1 .. NPROC + 1 /\ best[c] \in Proc \cup {None} /\ on[c] \in Proc \cup {None}
        /\ spc[c] \in {"idle", "scan", "away", "back"}
    BY DEF IInv, TypeOK, LoopsOK
  <1>2. CASE spc[c] = "idle"
    BY <1>2 DEF HolderOfWanted, IInv, ScanInTable
  <1>3. CASE spc[c] = "scan"
    BY <1>1, <1>3 DEF HolderOfWanted
  <1>4. CASE spc[c] = "away" /\ ~ret[on[c]]
    <2> DEFINE p == on[c]
    <2>1. p \in Proc /\ i[p] \in 1 .. NPROC + 1
      BY <1>1, <1>4 DEF IInv, TypeOK, PathsOK, CpuInv, OnWhileBusy
    <2>2. CASE pc[p] = "forkrun"
      <3>1. tgt[p] \in Proc
        BY <2>1, <2>2 DEF IInv, ForksOwnSlots
      <3> QED
        BY <1>4, <2>2, <3>1 DEF HolderOfWanted
    <2>3. CASE pc[p] \in {"forkparent", "wait", "exit"}
      BY <1>4, <2>3 DEF HolderOfWanted
    <2>4. CASE pc[p] \notin {"forkparent", "wait", "exit", "forkrun"}
      <3>1. i[p] <= NPROC => i[p] \in Proc
        BY <2>1
      <3> QED
        BY <1>4, <2>1, <2>4, <3>1 DEF HolderOfWanted
    <2> QED
      BY <2>2, <2>3, <2>4
  <1>5. CASE spc[c] = "back" \/ (spc[c] = "away" /\ ret[on[c]])
    <2>1. HolderOfWanted(c) = None
      <3>1. CASE spc[c] = "back"
        BY <3>1 DEF HolderOfWanted
      <3>2. CASE spc[c] = "away" /\ ret[on[c]]
        BY <3>2 DEF HolderOfWanted
      <3> QED
        BY <1>5, <3>1, <3>2
    <2>2. None \notin Cpu
      OBVIOUS
    <2> QED
      BY <2>1, <2>2
  <1> QED
    BY <1>1, <1>2, <1>3, <1>4, <1>5

\* No CPUs spin on one another's locks for ever: who holds a process's lock wants
\* no lock, and who holds wait_lock or proc_lock wants at most a process's.
THEOREM NoLockCycles == Spec => []NoLockCycle
  <1>1. IInv => NoLockCycle
    <2> SUFFICES ASSUME IInv, NEW S \in SUBSET Cpu, NEW c \in S,
                        \A d \in S : HolderOfWanted(d) \in S
                 PROVE  FALSE
      BY DEF NoLockCycle
    <2>1. ASSUME NEW d \in S, NEW p \in Proc, HolderOfWanted(d) = plock[p]
          PROVE  FALSE
      <3>1. plock[p] \in S /\ plock[p] \in Cpu
        BY <2>1
      <3>2. HolderOfWanted(plock[p]) = None
        BY <3>1, PlockHolderWantsNothing
      <3>3. None \notin Cpu
        OBVIOUS
      <3> QED
        BY <3>1, <3>2, <3>3
    <2> DEFINE h == HolderOfWanted(c)
    <2>2. h \in S /\ h \in Cpu /\ HolderOfWanted(h) \in S /\ HolderOfWanted(h) \in Cpu
      OBVIOUS
    <2> HIDE DEF h
    <2>3. CASE h = proc_lock
      <3>1. spc[h] = "scan"
        BY <2>2, <2>3 DEF IInv, CpuInv, ScanIsLocked
      <3>2. PICK p \in Proc : HolderOfWanted(h) = plock[p]
        BY <2>2, <3>1, Wanted
      <3> QED
        BY <2>1, <2>2, <3>2
    <2>4. CASE h = wait_lock
      <3>1. spc[h] = "away" /\ pc[on[h]] \notin {"forkparent", "wait", "exit"}
        BY <2>2, <2>4 DEF IInv, LockInv, WaitLockHeld
      <3>2. PICK p \in Proc : HolderOfWanted(h) = plock[p]
        BY <2>2, <3>1, Wanted
      <3> QED
        BY <2>1, <2>2, <3>2
    <2>5. CASE \E p \in Proc : h = plock[p]
      BY <2>1, <2>5 DEF h
    <2> QED
      BY <2>2, <2>3, <2>4, <2>5, Wanted DEF h
  <1> QED
    BY <1>1, Invariance, PTL
-----------------------------------------------------------------------------
(* The scan finds the highest priority *)

\* The candidate of a scan is as good as any runnable process it has passed, but for
\* those that became runnable behind it.
BestSoFar ==
  \A c \in Cpu, q \in Proc :
    spc[c] = "scan" /\ q < scan[c] /\ state[q] = "runnable" /\ q \notin late[c]
      => best[c] # None /\ priority[best[c]] <= priority[q]

\* A step that leaves the scans where they are keeps this, if it changes the priority of
\* no runnable process and tells the scans of those that become runnable.
LEMMA ScansAside ==
  ASSUME IInv, BestSoFar,
         \A c \in Cpu : spc'[c] = "scan" =>
           /\ spc[c] = "scan" /\ scan'[c] = scan[c] /\ best'[c] = best[c]
           /\ \A q \in Proc : state'[q] = "runnable" /\ q \notin late'[c] =>
                                state[q] = "runnable" /\ q \notin late[c],
         \A q \in Proc : state[q] = "runnable" => priority'[q] = priority[q]
  PROVE  BestSoFar'
  <1> SUFFICES ASSUME NEW c \in Cpu, NEW q \in Proc, spc'[c] = "scan", q < scan'[c],
                      state'[q] = "runnable", q \notin late'[c]
               PROVE  best'[c] # None /\ priority'[best'[c]] <= priority'[q]
    BY DEF BestSoFar
  <1>1. best[c] # None /\ priority[best[c]] <= priority[q] /\ state[q] = "runnable"
    BY DEF BestSoFar
  <1>2. best[c] \in Proc /\ state[best[c]] = "runnable"
    BY <1>1 DEF IInv, TypeOK, LoopsOK, CpuInv, ScanIsLocked
  <1> QED
    BY <1>1, <1>2

\* scheduler() keeps it: a scan compares its candidate with each runnable process.
LEMMA SchedulerKeepsBest ==
  ASSUME IInv, BestSoFar, NEW c \in Cpu, Scheduler(c)
  PROVE  BestSoFar'
  <1>1. CASE SchedLock(c)
    <2>1. \A d \in Cpu : d # c => spc'[d] # "scan"
      BY <1>1 DEF SchedLock, IInv, TypeOK, LoopsOK, CpuInv, ScanIsLocked
    <2>2. \A q \in Proc : ~(q < scan'[c])
      BY <1>1 DEF SchedLock, IInv, TypeOK, LoopsOK
    <2> QED
      BY <2>1, <2>2 DEF BestSoFar
  <1>2. CASE SchedScan(c)
    <2>1. /\ UNCHANGED <<spc, state, late, priority>> /\ scan[c] \in Proc /\ scan'[c] = scan[c] + 1
          /\ best'[c] = IF state[scan[c]] = "runnable" /\ Better(scan[c], best[c])
                        THEN scan[c] ELSE best[c]
      BY <1>2 DEF SchedScan, IInv, TypeOK, LoopsOK
    <2>2. \A d \in Cpu : spc[d] = "scan" => d = c
      BY <1>2 DEF SchedScan, IInv, CpuInv, ScanIsLocked
    <2> SUFFICES ASSUME NEW d \in Cpu, NEW q \in Proc, spc'[d] = "scan", q < scan'[d],
                        state'[q] = "runnable", q \notin late'[d]
                 PROVE  best'[d] # None /\ priority'[best'[d]] <= priority'[q]
      BY DEF BestSoFar
    <2> /\ d = c /\ q < scan'[c] /\ state[q] = "runnable" /\ q \notin late[c]
       /\ spc[c] = "scan" /\ priority' = priority
      BY <2>1, <2>2
    <2>3. best[c] # None => best[c] \in Proc
      BY DEF IInv, TypeOK, LoopsOK
    <2>4. \A r \in Proc : priority[r] \in Int
      BY DEF IInv, TypeOK, FieldsOK
    <2>5. CASE q = scan[c]
      BY <2>1, <2>3, <2>4, <2>5 DEF Better
    <2>6. CASE q < scan[c]
      <3>1. best[c] # None /\ priority[best[c]] <= priority[q]
        BY <2>6 DEF BestSoFar
      <3> QED
        BY <2>1, <2>3, <2>4, <3>1 DEF Better
    <2> QED
      BY <2>1, <2>5, <2>6
  <1>3. CASE SchedPick(c) \/ RoundRun(c)
    <2>1. PICK p \in Proc : state' = [state EXCEPT ![p] = "running"]
      BY <1>3 DEF SchedPick, RoundRun, IInv, TypeOK, LoopsOK, ScanInTable
    <2>2. \A d \in Cpu : spc'[d] = "scan" => d # c /\ spc[d] = "scan"
      BY <1>3 DEF SchedPick, RoundRun, IInv, TypeOK, LoopsOK
    <2>3. \A d \in Cpu : d # c => scan'[d] = scan[d] /\ best'[d] = best[d] /\ late'[d] = late[d]
      BY <1>3 DEF SchedPick, RoundRun, IInv, TypeOK, LoopsOK
    <2>4. UNCHANGED priority /\ \A q \in Proc : state'[q] = "runnable" => state[q] = "runnable"
      BY <1>3, <2>1 DEF SchedPick, RoundRun, IInv, TypeOK, FieldsOK
    <2> QED
      BY <2>2, <2>3, <2>4, ScansAside
  <1>4. CASE SchedNone(c) \/ RoundSkip(c) \/ SchedBack(c)
    <2>1. \A d \in Cpu : spc'[d] = "scan" => d # c /\ spc[d] = "scan"
      BY <1>4 DEF SchedNone, RoundSkip, SchedBack, IInv, TypeOK, LoopsOK, ScanInTable
    <2>2. \A d \in Cpu : d # c => scan'[d] = scan[d] /\ best'[d] = best[d] /\ late'[d] = late[d]
      BY <1>4 DEF SchedNone, RoundSkip, SchedBack, IInv, TypeOK, LoopsOK
    <2>3. UNCHANGED <<state, priority>>
      BY <1>4 DEF SchedNone, RoundSkip, SchedBack
    <2> QED
      BY <2>1, <2>2, <2>3, ScansAside
  <1> QED
    BY <1>1, <1>2, <1>3, <1>4 DEF Scheduler

\* Processes keep it: who becomes runnable is told to the scans, and priorities change
\* only where the process runs or has not begun.
LEMMA ProcessKeepsBest ==
  ASSUME IInv, BestSoFar, NEW c \in Cpu, NEW p \in Proc, Process(c, p)
  PROVE  BestSoFar'
  <1>1. \A d \in Cpu : spc'[d] = "scan" =>
          spc[d] = "scan" /\ scan'[d] = scan[d] /\ best'[d] = best[d]
    <2>1. UNCHANGED <<scan, best>> /\ (UNCHANGED spc \/ ToScheduler(c))
      BY DEF Process, Kernel, Resume, Yield, WaitLock, Exit, ForkAlloc, Kill, SetPriority,
             ForkFails, ForkCopy, ForkParent, ForkRun, WaitNext, WaitReap, WaitCopyFails,
             WaitReturns, WaitStays, WaitSleep, ExitLock, WakeupDone, ExitZombie, Wakeup, ToScheduler
    <2> QED
      BY <2>1 DEF ToScheduler, IInv, TypeOK, LoopsOK
  <1>2. \/ UNCHANGED late /\ \A q \in Proc : state'[q] = "runnable" => state[q] = "runnable"
        \/ \E r \in Proc : state' = [state EXCEPT ![r] = "runnable"] /\ Rises(r)
    <2>1. CASE \E w, t : Wakeup(c, p, w, t)
      <3>1. i[p] \in Proc
        BY <2>1 DEF Wakeup, IInv, TypeOK, PathsOK
      <3> QED
        BY <2>1, <3>1 DEF Wakeup
    <2>2. CASE \E q \in Proc : Kill(c, p, q)
      BY <2>2 DEF Kill
    <2>3. CASE ForkRun(c, p)
      BY <2>3 DEF ForkRun, IInv, ForksOwnSlots
    <2>4. CASE Yield(c, p)
      BY <2>4 DEF Yield
    <2>5. CASE \E q \in Proc : ForkAlloc(c, p, q)
      BY <2>5 DEF ForkAlloc, IInv, TypeOK, FieldsOK
    <2>6. CASE ForkFails(c, p) \/ WaitReap(c, p)
      BY <2>6 DEF ForkFails, WaitReap, Freeproc, IInv, TypeOK, FieldsOK
    <2>7. CASE WaitSleep(c, p) \/ ExitZombie(c, p)
      BY <2>7 DEF WaitSleep, ExitZombie, IInv, TypeOK, FieldsOK
    <2>8. CASE UNCHANGED <<state, late>>
      BY <2>8
    <2> QED
      BY <2>1, <2>2, <2>3, <2>4, <2>5, <2>6, <2>7, <2>8
      DEF Process, Kernel, Resume, WaitLock, Exit, SetPriority, ForkCopy, ForkParent,
          WaitNext, WaitCopyFails, WaitReturns, WaitStays, ExitLock, WakeupDone
  <1>3. \A d \in Cpu : spc[d] = "scan" =>
          \A q \in Proc : state'[q] = "runnable" /\ q \notin late'[d] =>
                            state[q] = "runnable" /\ q \notin late[d]
    <2>1. CASE UNCHANGED late /\ \A q \in Proc : state'[q] = "runnable" => state[q] = "runnable"
      BY <2>1
    <2>2. ASSUME NEW r \in Proc, state' = [state EXCEPT ![r] = "runnable"], Rises(r)
          PROVE  \A d \in Cpu : spc[d] = "scan" =>
                   \A q \in Proc : state'[q] = "runnable" /\ q \notin late'[d] =>
                                     state[q] = "runnable" /\ q \notin late[d]
      BY <2>2 DEF Rises, IInv, TypeOK, FieldsOK
    <2> QED
      BY <1>2, <2>1, <2>2
  <1>4. \A q \in Proc : state[q] = "runnable" => priority'[q] = priority[q]
    <2>1. CASE \E n \in Priorities : SetPriority(c, p, n)
      BY <2>1 DEF SetPriority, Enters, IInv, TypeOK, FieldsOK, CpuInv, OnIsRunning
    <2>2. CASE \E q \in Proc : ForkAlloc(c, p, q)
      BY <2>2 DEF ForkAlloc, IInv, TypeOK, FieldsOK
    <2>3. CASE ForkCopy(c, p)
      BY <2>3 DEF ForkCopy, IInv, TypeOK, FieldsOK, ForksOwnSlots
    <2>4. CASE UNCHANGED priority
      BY <2>4
    <2> QED
      BY <2>1, <2>2, <2>3, <2>4
      DEF Process, Kernel, Resume, Yield, WaitLock, Exit, Kill, ForkFails, ForkParent, ForkRun,
          WaitNext, WaitReap, WaitCopyFails, WaitReturns, WaitStays, WaitSleep, ExitLock,
          WakeupDone, ExitZombie, Wakeup, Freeproc
  <1> QED
    BY <1>1, <1>3, <1>4, ScansAside

\* Only the end of a scan dispatches, and then every process has been passed.
LEMMA DispatchIsPick ==
  ASSUME IInv, BestSoFar, Next, NEW c \in Cpu, Dispatch(c),
         NEW q \in Proc, state[q] = "runnable", q \notin late[c]
  PROVE  priority[on'[c]] <= priority[q]
  <1>1. ASSUME NEW d \in Cpu, Scheduler(d) PROVE SchedPick(c)
    BY <1>1 DEF Dispatch, Scheduler, SchedLock, SchedScan, SchedPick, SchedNone, RoundSkip,
               RoundRun, SchedBack, IInv, TypeOK, LoopsOK
  <1>2. ASSUME NEW d \in Cpu, NEW p \in Proc, Process(d, p) PROVE FALSE
    <2>1. UNCHANGED spc \/ ToScheduler(d)
      BY <1>2 DEF Process, Kernel, Resume, Yield, WaitLock, Exit, ForkAlloc, Kill, SetPriority,
             ForkFails, ForkCopy, ForkParent, ForkRun, WaitNext, WaitReap, WaitCopyFails,
             WaitReturns, WaitStays, WaitSleep, ExitLock, WakeupDone, ExitZombie, Wakeup, ToScheduler
    <2> QED
      BY <2>1 DEF ToScheduler, Dispatch, IInv, TypeOK, LoopsOK
  <1>3. SchedPick(c)
    BY <1>1, <1>2 DEF Next
  <1>4. q < scan[c] /\ on'[c] = best[c]
    BY <1>3 DEF SchedPick, IInv, TypeOK, LoopsOK
  <1> QED
    BY <1>3, <1>4 DEF BestSoFar, SchedPick

\* The process a CPU switches to has the highest priority of all the runnable ones it
\* could see, for any number of processes and CPUs.
THEOREM HighestIsDispatched == Spec => DispatchesHighestSeen
  <1>1. Init => BestSoFar
    BY DEF Init, BestSoFar
  <1>2. IInv /\ BestSoFar /\ [Next]_vars => BestSoFar'
    <2>1. ASSUME BestSoFar, UNCHANGED vars PROVE BestSoFar'
      BY <2>1 DEF vars, BestSoFar
    <2> QED
      BY <2>1, SchedulerKeepsBest, ProcessKeepsBest DEF Next
  <1> DEFINE Highest == \A c \in Cpu : Dispatch(c) =>
                          \A q \in Proc : state[q] = "runnable" /\ q \notin late[c]
                                            => priority[on'[c]] <= priority[q]
  <1>3. IInv /\ BestSoFar /\ [Next]_vars => [Highest]_vars
    BY DispatchIsPick
  <1> HIDE DEF Highest
  <1>4. Spec => [][Highest]_vars
    BY <1>1, <1>2, <1>3, Invariance, PTL DEF Spec
  <1> QED
    BY <1>4 DEF Highest, DispatchesHighestSeen
-----------------------------------------------------------------------------
(* No exit is lost between a child's wakeup() and its parent's sleep() *)

\* The places of wait() and exit() at which wait_lock is held.
Critical == {"waitscan", "waitsleep", "wakeinit", "wakeparent", "zombie"}

HoldsWaitLock(p) == wait_lock # None /\ on[wait_lock] = p

\* A process there holds it, or is a zombie, or the slot of one that was reaped.
CriticalHolds ==
  \A p \in Proc : pc[p] \in Critical =>
    HoldsWaitLock(p) \/ (pc[p] = "zombie" /\ state[p] \in {"zombie", "unused"})

\* wait() looks on: no child it has passed, or none at all, has exited meanwhile.
NoneExited ==
  \A p, q \in Proc :
    /\ parent[q] = p
    /\ pc[p] = "waitsleep" \/ (pc[p] = "waitscan" /\ q < i[p])
    => state[q] # "zombie"

Sleeps(p) == state[p] = "sleeping" /\ chan[p] = p

\* exit() has called wakeup() for the parent, which cannot have slept again.
ParentAwake ==
  \A p, q \in Proc :
    /\ parent[q] = p /\ HoldsWaitLock(q)
    /\ pc[q] = "zombie" \/ (pc[q] = "wakeparent" /\ p < i[q])
    => ~Sleeps(p)

XInv == CriticalHolds /\ NoneExited /\ ParentAwake /\ NoLostExit

\* Who holds wait_lock runs, on one CPU only, and stands at such a place.
LEMMA HolderRuns ==
  ASSUME IInv, NEW p \in Proc, HoldsWaitLock(p)
  PROVE  /\ wait_lock \in Cpu /\ spc[wait_lock] = "away" /\ ~ret[p] /\ pc[p] \in Critical
         /\ state[p] = "running"
         /\ \A d \in Cpu : on[d] = p => d = wait_lock
  <1>1. wait_lock \in Cpu /\ on[wait_lock] = p
    BY DEF IInv, TypeOK, LocksOK, HoldsWaitLock
  <1>2. spc[wait_lock] = "away" /\ ~ret[p] /\ pc[p] \in Critical
    BY <1>1 DEF IInv, LockInv, WaitLockHeld, Critical
  <1>3. state[p] = "running"
    BY <1>1, <1>2 DEF IInv, CpuInv, OnIsRunning
  <1>4. \A d \in Cpu : on[d] = p => d = wait_lock
    BY <1>1 DEF IInv, CpuInv, RunsOnce
  <1> QED
    BY <1>1, <1>2, <1>3, <1>4

\* A process that is run at such a place holds wait_lock, and no other does.
LEMMA CriticalAlone ==
  ASSUME IInv, XInv, NEW c \in Cpu, NEW p \in Proc, Runs(c, p), pc[p] \in Critical
  PROVE  /\ wait_lock = c /\ HoldsWaitLock(p)
         /\ \A q \in Proc : q # p =>
              /\ ~HoldsWaitLock(q)
              /\ pc[q] \in Critical => pc[q] = "zombie" /\ state[q] \in {"zombie", "unused"}
  <1>1. state[p] = "running"
    BY DEF IInv, CpuInv, OnIsRunning
  <1>2. HoldsWaitLock(p)
    BY <1>1 DEF XInv, CriticalHolds
  <1>3. wait_lock = c
    BY <1>2, HolderRuns
  <1>4. \A q \in Proc : q # p => ~HoldsWaitLock(q)
    BY <1>2 DEF HoldsWaitLock
  <1> QED
    BY <1>2, <1>3, <1>4 DEF XInv, CriticalHolds

\* A step that neither begins nor ends such a section, nor puts a process to sleep or
\* makes it a zombie.
Calm ==
  /\ UNCHANGED <<wait_lock, i>>
  /\ wait_lock # None => on'[wait_lock] = on[wait_lock]
  /\ \A p \in Proc : HoldsWaitLock(p) => pc'[p] = pc[p] /\ parent'[p] = parent[p]
  /\ \A p \in Proc :
       /\ pc'[p] = pc[p] \/ pc'[p] \notin Critical
       /\ \/ state'[p] = state[p]
          \/ /\ state'[p] \notin {"zombie", "sleeping"} /\ state[p] # "zombie"
             /\ state[p] = "unused" => pc'[p] # "zombie"
       /\ parent'[p] \in {parent[p], None} /\ chan'[p] \in {chan[p], None}

\* Such a step loses no exit.
LEMMA CalmStep ==
  ASSUME IInv, XInv, Calm
  PROVE  XInv'
  <1>1. \A p \in Proc : HoldsWaitLock(p)' <=> HoldsWaitLock(p)
    BY DEF Calm, HoldsWaitLock
  <1>2. CriticalHolds'
    BY <1>1 DEF XInv, CriticalHolds, Calm
  <1>3. \A p, q \in Proc : parent'[q] = p => parent[q] = p
    BY DEF Calm
  <1>4. \A p \in Proc : /\ Sleeps(p)' => Sleeps(p)
                        /\ state'[p] = "zombie" => state[p] = "zombie"
    BY DEF Calm, Sleeps
  <1>5. NoneExited'
    BY <1>3, <1>4 DEF XInv, NoneExited, Calm, Critical
  <1>6. ParentAwake'
    BY <1>1, <1>3, <1>4 DEF XInv, ParentAwake, Calm
  <1>7. NoLostExit'
    <2> SUFFICES ASSUME NEW p \in Proc, NEW q \in Proc, Sleeps(p)', state'[q] = "zombie",
                        parent'[q] = p
                 PROVE  WakeupIsComing(p)'
      BY DEF NoLostExit, Sleeps
    <2>1. WakeupIsComing(p)
      BY <1>3, <1>4 DEF XInv, NoLostExit, Sleeps
    <2>2. PICK d \in Cpu, r \in Proc :
            /\ on[d] = r /\ wait_lock = d
            /\ \/ pc[r] = "wakeinit" /\ p = initproc /\ i[r] <= p
               \/ pc[r] = "wakeinit" /\ p = parent[r]
               \/ pc[r] = "wakeparent" /\ p = parent[r] /\ i[r] <= p
      BY <2>1 DEF WakeupIsComing
    <2>3. HoldsWaitLock(r)
      BY <2>2 DEF HoldsWaitLock
    <2>4. on'[d] = r /\ wait_lock' = d /\ pc'[r] = pc[r] /\ parent'[r] = parent[r] /\ i'[r] = i[r]
      BY <2>2, <2>3 DEF Calm, HoldsWaitLock
    <2> QED
      BY <2>2, <2>4 DEF WakeupIsComing
  <1> QED
    BY <1>2, <1>5, <1>6, <1>7 DEF XInv

\* A step after which nobody holds wait_lock, if no exit is lost by then.
LEMMA ReleaseStep ==
  ASSUME wait_lock' = None,
         \A q \in Proc : pc'[q] \in Critical =>
                           pc'[q] = "zombie" /\ state'[q] \in {"zombie", "unused"},
         \A p, q \in Proc : Sleeps(p)' /\ parent'[q] = p => state'[q] # "zombie"
  PROVE  XInv'
  <1>1. CriticalHolds' /\ NoneExited'
    BY DEF CriticalHolds, NoneExited, Critical
  <1>2. ParentAwake'
    BY DEF ParentAwake, HoldsWaitLock
  <1>3. NoLostExit'
    BY DEF NoLostExit, Sleeps
  <1> QED
    BY <1>1, <1>2, <1>3 DEF XInv

\* As long as the holder of wait_lock has not begun to wake anyone up, or is done with it,
\* no exited child has a sleeping parent.
LEMMA NoPair ==
  ASSUME IInv, XInv,
         \A r \in Proc : HoldsWaitLock(r) =>
           pc[r] \notin {"wakeinit", "wakeparent"} \/ (pc[r] = "wakeparent" /\ i[r] > NPROC)
  PROVE  \A p, q \in Proc : Sleeps(p) /\ parent[q] = p => state[q] # "zombie"
  <1> SUFFICES ASSUME NEW p \in Proc, NEW q \in Proc, Sleeps(p), parent[q] = p,
                      state[q] = "zombie"
               PROVE  FALSE
    OBVIOUS
  <1>1. PICK d \in Cpu, r \in Proc :
            /\ on[d] = r /\ wait_lock = d
            /\ \/ pc[r] = "wakeinit" /\ p = initproc /\ i[r] <= p
               \/ pc[r] = "wakeinit" /\ p = parent[r]
               \/ pc[r] = "wakeparent" /\ p = parent[r] /\ i[r] <= p
    BY DEF XInv, NoLostExit, Sleeps, WakeupIsComing
  <1>2. HoldsWaitLock(r) /\ i[r] \in 1 .. NPROC + 1
    BY <1>1 DEF HoldsWaitLock, IInv, TypeOK, PathsOK
  <1> QED
    BY <1>1, <1>2

\* A step of a CPU that does not hold wait_lock, and of the process it runs, is calm when
\* it leaves the critical places, parents and sleepers alone.
LEMMA ElsewhereIsCalm ==
  ASSUME IInv, NEW c \in Cpu, wait_lock # c, UNCHANGED <<wait_lock, i>>,
         \A d \in Cpu : d # c => on'[d] = on[d],
         \A p \in Proc : on[c] # p /\ state[p] \notin {"unused", "used"} =>
                           pc'[p] = pc[p] /\ parent'[p] = parent[p],
         \A p \in Proc : on[c] = p => parent'[p] = parent[p],
         \A p \in Proc :
           /\ pc'[p] = pc[p] \/ pc'[p] \notin Critical
           /\ \/ state'[p] = state[p]
              \/ /\ state'[p] \notin {"zombie", "sleeping"} /\ state[p] # "zombie"
                 /\ state[p] = "unused" => pc'[p] # "zombie"
           /\ parent'[p] \in {parent[p], None} /\ chan'[p] \in {chan[p], None}
  PROVE  Calm
  <1>1. ASSUME wait_lock # None PROVE on'[wait_lock] = on[wait_lock]
    <2>1. wait_lock \in Cpu
      BY <1>1 DEF IInv, TypeOK, LocksOK
    <2> QED
      BY <2>1
  <1>2. ASSUME NEW p \in Proc, HoldsWaitLock(p)
        PROVE  pc'[p] = pc[p] /\ parent'[p] = parent[p]
    <2>1. on[c] # p /\ state[p] = "running"
      BY <1>2, HolderRuns
    <2> QED
      BY <2>1
  <1> QED
    BY <1>1, <1>2 DEF Calm

\* scheduler() loses no exit: what it runs was runnable.
LEMMA SchedulerLosesNone ==
  ASSUME IInv, XInv, NEW c \in Cpu, Scheduler(c)
  PROVE  XInv'
  <1>1. UNCHANGED <<wait_lock, i, pc, parent, chan>>
    BY DEF Scheduler, SchedLock, SchedScan, SchedPick, SchedNone, RoundSkip, RoundRun, SchedBack
  <1>2. wait_lock # c
    BY DEF Scheduler, SchedLock, SchedScan, SchedPick, SchedNone, RoundSkip, RoundRun, SchedBack,
           IInv, LockInv, WaitLockHeld
  <1>3. \A d \in Cpu : d # c => on'[d] = on[d]
    BY DEF Scheduler, SchedLock, SchedScan, SchedPick, SchedNone, RoundSkip, RoundRun, SchedBack,
           IInv, TypeOK, LoopsOK
  <1>4. \A p \in Proc : state'[p] # state[p] => state'[p] = "running" /\ state[p] = "runnable"
    <2>1. CASE SchedPick(c)
      BY <2>1 DEF SchedPick, IInv, TypeOK, FieldsOK, CpuInv, ScanIsLocked
    <2>2. CASE RoundRun(c)
      BY <2>2 DEF RoundRun, IInv, TypeOK, FieldsOK
    <2>3. CASE ~SchedPick(c) /\ ~RoundRun(c)
      BY <2>3 DEF Scheduler, SchedLock, SchedScan, SchedNone, RoundSkip, SchedBack
    <2> QED
      BY <2>1, <2>2, <2>3
  <1>5. Calm
    BY <1>1, <1>2, <1>3, <1>4, ElsewhereIsCalm
  <1> QED
    BY <1>5, CalmStep

\* What follows swtch() loses no exit: a process that has resumed sleeps no more.
LEMMA ResumeLosesNone ==
  ASSUME IInv, XInv, NEW c \in Cpu, NEW p \in Proc, Resume(c, p)
  PROVE  XInv'
  <1>1. UNCHANGED <<wait_lock, i, on>> /\ wait_lock # c
    BY DEF Resume, IInv, LockInv, WaitLockHeld
  <1>2. \A q \in Proc : /\ on[c] # q /\ state[q] \notin {"unused", "used"} =>
                            pc'[q] = pc[q] /\ parent'[q] = parent[q]
                        /\ on[c] = q => parent'[q] = parent[q]
    BY DEF Resume, IInv, TypeOK, FieldsOK, PathsOK, ForksOwnSlots, CpuInv, OnIsRunning
  <1>3. \A q \in Proc :
          /\ pc'[q] = pc[q] \/ pc'[q] \notin Critical
          /\ \/ state'[q] = state[q]
             \/ /\ state'[q] \notin {"zombie", "sleeping"} /\ state[q] # "zombie"
                /\ state[q] = "unused" => pc'[q] # "zombie"
          /\ parent'[q] \in {parent[q], None} /\ chan'[q] \in {chan[q], None}
    BY SMTT(60) DEF Resume, Critical, IInv, TypeOK, FieldsOK, PathsOK, ForksOwnSlots, CpuInv, OnIsRunning
  <1> QED
    BY <1>1, <1>2, <1>3, ElsewhereIsCalm, CalmStep

\* A timer interrupt loses no exit: none comes while wait_lock is held.
LEMMA YieldLosesNone ==
  ASSUME IInv, XInv, NEW c \in Cpu, NEW p \in Proc, Yield(c, p)
  PROVE  XInv'
  <1>1. UNCHANGED <<wait_lock, i, on>> /\ wait_lock # c
    BY DEF Yield, ToScheduler, IInv, LockInv, WaitLockHeld
  <1>2. \A q \in Proc : /\ on[c] # q /\ state[q] \notin {"unused", "used"} =>
                            pc'[q] = pc[q] /\ parent'[q] = parent[q]
                        /\ on[c] = q => parent'[q] = parent[q]
    BY DEF Yield, ToScheduler, IInv, TypeOK, FieldsOK, PathsOK, ForksOwnSlots, CpuInv, OnIsRunning
  <1>3. UNCHANGED <<pc, parent, chan>> /\ state[p] = "running"
    BY DEF Yield, ToScheduler, IInv, CpuInv, OnIsRunning
  <1>4. \A q \in Proc : \/ state'[q] = state[q]
                        \/ state'[q] = "runnable" /\ state[q] = "running"
    BY <1>3 DEF Yield, IInv, TypeOK, FieldsOK
  <1> QED
    BY <1>1, <1>2, <1>3, <1>4, ElsewhereIsCalm, CalmStep

\* fork() failing loses no exit: the slot it frees was not yet a process.
LEMMA ForkFailsLosesNone ==
  ASSUME IInv, XInv, NEW c \in Cpu, NEW p \in Proc, ForkFails(c, p)
  PROVE  XInv'
  <1>1. UNCHANGED <<wait_lock, i, on>> /\ wait_lock # c
    BY DEF ForkFails, Freeproc, IInv, LockInv, WaitLockHeld
  <1>2. \A q \in Proc : /\ on[c] # q /\ state[q] \notin {"unused", "used"} =>
                            pc'[q] = pc[q] /\ parent'[q] = parent[q]
                        /\ on[c] = q => parent'[q] = parent[q]
    BY DEF ForkFails, Freeproc, IInv, TypeOK, FieldsOK, PathsOK, ForksOwnSlots, CpuInv, OnIsRunning
  <1>3. \A q \in Proc :
          /\ pc'[q] = pc[q] \/ pc'[q] \notin Critical
          /\ \/ state'[q] = state[q]
             \/ /\ state'[q] \notin {"zombie", "sleeping"} /\ state[q] # "zombie"
                /\ state[q] = "unused" => pc'[q] # "zombie"
          /\ parent'[q] \in {parent[q], None} /\ chan'[q] \in {chan[q], None}
    BY SMTT(60) DEF ForkFails, Freeproc, Critical, IInv, TypeOK, FieldsOK, PathsOK, ForksOwnSlots, CpuInv, OnIsRunning
  <1> QED
    BY <1>1, <1>2, <1>3, ElsewhereIsCalm, CalmStep

\* fork() past the copy loses no exit.
LEMMA ForkCopyLosesNone ==
  ASSUME IInv, XInv, NEW c \in Cpu, NEW p \in Proc, ForkCopy(c, p)
  PROVE  XInv'
  <1>1. UNCHANGED <<wait_lock, i, on>> /\ wait_lock # c
    BY DEF ForkCopy, IInv, LockInv, WaitLockHeld
  <1>2. \A q \in Proc : /\ on[c] # q /\ state[q] \notin {"unused", "used"} =>
                            pc'[q] = pc[q] /\ parent'[q] = parent[q]
                        /\ on[c] = q => parent'[q] = parent[q]
    BY DEF ForkCopy, IInv, TypeOK, FieldsOK, PathsOK, ForksOwnSlots, CpuInv, OnIsRunning
  <1>3. \A q \in Proc :
          /\ pc'[q] = pc[q] \/ pc'[q] \notin Critical
          /\ \/ state'[q] = state[q]
             \/ /\ state'[q] \notin {"zombie", "sleeping"} /\ state[q] # "zombie"
                /\ state[q] = "unused" => pc'[q] # "zombie"
          /\ parent'[q] \in {parent[q], None} /\ chan'[q] \in {chan[q], None}
    BY SMTT(60) DEF ForkCopy, Critical, IInv, TypeOK, FieldsOK, PathsOK, ForksOwnSlots, CpuInv, OnIsRunning
  <1> QED
    BY <1>1, <1>2, <1>3, ElsewhereIsCalm, CalmStep

\* fork() making the child runnable loses no exit.
LEMMA ForkRunLosesNone ==
  ASSUME IInv, XInv, NEW c \in Cpu, NEW p \in Proc, ForkRun(c, p)
  PROVE  XInv'
  <1>1. UNCHANGED <<wait_lock, i, on>> /\ wait_lock # c
    BY DEF ForkRun, IInv, LockInv, WaitLockHeld
  <1>2. \A q \in Proc : /\ on[c] # q /\ state[q] \notin {"unused", "used"} =>
                            pc'[q] = pc[q] /\ parent'[q] = parent[q]
                        /\ on[c] = q => parent'[q] = parent[q]
    BY DEF ForkRun, IInv, TypeOK, FieldsOK, PathsOK, ForksOwnSlots, CpuInv, OnIsRunning
  <1>3. \A q \in Proc :
          /\ pc'[q] = pc[q] \/ pc'[q] \notin Critical
          /\ \/ state'[q] = state[q]
             \/ /\ state'[q] \notin {"zombie", "sleeping"} /\ state[q] # "zombie"
                /\ state[q] = "unused" => pc'[q] # "zombie"
          /\ parent'[q] \in {parent[q], None} /\ chan'[q] \in {chan[q], None}
    BY SMTT(60) DEF ForkRun, Critical, IInv, TypeOK, FieldsOK, PathsOK, ForksOwnSlots, CpuInv, OnIsRunning
  <1> QED
    BY <1>1, <1>2, <1>3, ElsewhereIsCalm, CalmStep

\* exit() begun loses no exit.
LEMMA ExitLosesNone ==
  ASSUME IInv, XInv, NEW c \in Cpu, NEW p \in Proc, Exit(c, p)
  PROVE  XInv'
  <1>1. UNCHANGED <<wait_lock, i, on>> /\ wait_lock # c
    BY DEF Exit, Enters, IInv, LockInv, WaitLockHeld
  <1>2. \A q \in Proc : /\ on[c] # q /\ state[q] \notin {"unused", "used"} =>
                            pc'[q] = pc[q] /\ parent'[q] = parent[q]
                        /\ on[c] = q => parent'[q] = parent[q]
    BY DEF Exit, Enters, IInv, TypeOK, FieldsOK, PathsOK, ForksOwnSlots, CpuInv, OnIsRunning
  <1>3. \A q \in Proc :
          /\ pc'[q] = pc[q] \/ pc'[q] \notin Critical
          /\ \/ state'[q] = state[q]
             \/ /\ state'[q] \notin {"zombie", "sleeping"} /\ state[q] # "zombie"
                /\ state[q] = "unused" => pc'[q] # "zombie"
          /\ parent'[q] \in {parent[q], None} /\ chan'[q] \in {chan[q], None}
    BY SMTT(60) DEF Exit, Enters, Critical, IInv, TypeOK, FieldsOK, PathsOK, ForksOwnSlots, CpuInv, OnIsRunning
  <1> QED
    BY <1>1, <1>2, <1>3, ElsewhereIsCalm, CalmStep

\* allocproc() loses no exit: an unused slot is nobody's sleeping parent.
LEMMA ForkAllocLosesNone ==
  ASSUME IInv, XInv, NEW c \in Cpu, NEW p \in Proc, NEW np \in Proc, ForkAlloc(c, p, np)
  PROVE  XInv'
  <1>1. UNCHANGED <<wait_lock, i, on>> /\ wait_lock # c
    BY DEF ForkAlloc, Enters, IInv, LockInv, WaitLockHeld
  <1>2. \A q \in Proc : /\ on[c] # q /\ state[q] \notin {"unused", "used"} =>
                            pc'[q] = pc[q] /\ parent'[q] = parent[q]
                        /\ on[c] = q => parent'[q] = parent[q]
    BY DEF ForkAlloc, Enters, IInv, TypeOK, FieldsOK, PathsOK
  <1>3. \A q \in Proc :
          /\ pc'[q] = pc[q] \/ pc'[q] \notin Critical
          /\ \/ state'[q] = state[q]
             \/ /\ state'[q] \notin {"zombie", "sleeping"} /\ state[q] # "zombie"
                /\ state[q] = "unused" => pc'[q] # "zombie"
          /\ parent'[q] \in {parent[q], None} /\ chan'[q] \in {chan[q], None}
    BY SMTT(60) DEF ForkAlloc, Enters, Critical, IInv, TypeOK, FieldsOK, PathsOK
  <1> QED
    BY <1>1, <1>2, <1>3, ElsewhereIsCalm, CalmStep

\* kill() loses no exit: it only wakes sleepers up.
LEMMA KillLosesNone ==
  ASSUME IInv, XInv, NEW c \in Cpu, NEW p \in Proc, NEW np \in Proc, Kill(c, p, np)
  PROVE  XInv'
  <1>1. UNCHANGED <<wait_lock, i, on>> /\ wait_lock # c
    BY DEF Kill, Enters, IInv, LockInv, WaitLockHeld
  <1>2. \A q \in Proc : /\ on[c] # q /\ state[q] \notin {"unused", "used"} =>
                            pc'[q] = pc[q] /\ parent'[q] = parent[q]
                        /\ on[c] = q => parent'[q] = parent[q]
    BY DEF Kill, Enters, IInv, TypeOK, FieldsOK, PathsOK
  <1>3. \A q \in Proc :
          /\ pc'[q] = pc[q] \/ pc'[q] \notin Critical
          /\ \/ state'[q] = state[q]
             \/ /\ state'[q] \notin {"zombie", "sleeping"} /\ state[q] # "zombie"
                /\ state[q] = "unused" => pc'[q] # "zombie"
          /\ parent'[q] \in {parent[q], None} /\ chan'[q] \in {chan[q], None}
    BY SMTT(60) DEF Kill, Enters, Critical, IInv, TypeOK, FieldsOK, PathsOK
  <1> QED
    BY <1>1, <1>2, <1>3, ElsewhereIsCalm, CalmStep

\* setpriority() loses no exit.
LEMMA SetPriorityLosesNone ==
  ASSUME IInv, XInv, NEW c \in Cpu, NEW p \in Proc, NEW n \in Priorities, SetPriority(c, p, n)
  PROVE  XInv'
  <1>1. UNCHANGED <<wait_lock, i, on>> /\ wait_lock # c
    BY DEF SetPriority, Enters, IInv, LockInv, WaitLockHeld
  <1>2. \A q \in Proc : /\ on[c] # q /\ state[q] \notin {"unused", "used"} =>
                            pc'[q] = pc[q] /\ parent'[q] = parent[q]
                        /\ on[c] = q => parent'[q] = parent[q]
    BY DEF SetPriority, Enters, IInv, TypeOK, FieldsOK, PathsOK
  <1>3. \A q \in Proc :
          /\ pc'[q] = pc[q] \/ pc'[q] \notin Critical
          /\ \/ state'[q] = state[q]
             \/ /\ state'[q] \notin {"zombie", "sleeping"} /\ state[q] # "zombie"
                /\ state[q] = "unused" => pc'[q] # "zombie"
          /\ parent'[q] \in {parent[q], None} /\ chan'[q] \in {chan[q], None}
    BY SMTT(60) DEF SetPriority, Enters, Critical, IInv, TypeOK, FieldsOK, PathsOK
  <1> QED
    BY <1>1, <1>2, <1>3, ElsewhereIsCalm, CalmStep

\* fork() setting the parent loses no exit: the child has not begun.
LEMMA ForkParentLosesNone ==
  ASSUME IInv, XInv, NEW c \in Cpu, NEW p \in Proc, ForkParent(c, p)
  PROVE  XInv'
  <1>1. tgt[p] \in Proc /\ state[tgt[p]] = "used" /\ wait_lock' = None
    BY DEF ForkParent, IInv, ForksOwnSlots
  <1>2. \A q \in Proc : pc'[q] \in Critical => pc[q] \in Critical /\ pc'[q] = pc[q]
    BY DEF ForkParent, Critical, IInv, TypeOK, PathsOK
  <1>3. \A q \in Proc : pc'[q] \in Critical =>
                          pc'[q] = "zombie" /\ state'[q] \in {"zombie", "unused"}
    BY <1>2 DEF ForkParent, XInv, CriticalHolds, HoldsWaitLock
  <1>4. \A q, r \in Proc : Sleeps(q) /\ parent[r] = q => state[r] # "zombie"
    BY NoPair DEF ForkParent, HoldsWaitLock
  <1>5. \A q, r \in Proc : Sleeps(q)' /\ parent'[r] = q => state'[r] # "zombie"
    BY <1>1, <1>4 DEF ForkParent, Sleeps, IInv, TypeOK, FieldsOK
  <1> QED
    BY <1>1, <1>3, <1>5, ReleaseStep

\* Nobody else stands where wait_lock is held when it is free.
LEMMA FreeMeansNobody ==
  ASSUME XInv, wait_lock = None, NEW q \in Proc, pc[q] \in Critical
  PROVE  pc[q] = "zombie" /\ state[q] \in {"zombie", "unused"}
  BY DEF XInv, CriticalHolds, HoldsWaitLock

\* wait() taking wait_lock loses no exit: it has passed no child yet.
LEMMA WaitLockLosesNone ==
  ASSUME IInv, XInv, NEW c \in Cpu, NEW p \in Proc, WaitLock(c, p)
  PROVE  XInv'
  <1>1. /\ wait_lock = None /\ wait_lock' = c /\ on'[c] = p /\ c # None
        /\ UNCHANGED <<state, chan, parent>>
        /\ i' = [i EXCEPT ![p] = 1] /\ pc' = [pc EXCEPT ![p] = "waitscan"]
    BY DEF WaitLock, Enters
  <1>2. /\ pc'[p] = "waitscan" /\ i'[p] = 1
        /\ \A q \in Proc : q # p => pc'[q] = pc[q]
    BY <1>1 DEF IInv, TypeOK, PathsOK
  <1>3. CriticalHolds'
    <2>1. HoldsWaitLock(p)'
      BY <1>1 DEF HoldsWaitLock
    <2> QED
      BY <1>1, <1>2, <2>1, FreeMeansNobody DEF CriticalHolds
  <1>4. NoneExited'
    BY <1>1, <1>2, FreeMeansNobody DEF NoneExited, Critical
  <1>5. ParentAwake'
    BY <1>1, <1>2 DEF ParentAwake, HoldsWaitLock
  <1>6. NoLostExit'
    <2>1. \A q, r \in Proc : Sleeps(q) /\ parent[r] = q => state[r] # "zombie"
      BY <1>1, NoPair DEF HoldsWaitLock
    <2> QED
      BY <1>1, <2>1 DEF NoLostExit, Sleeps
  <1> QED
    BY <1>3, <1>4, <1>5, <1>6 DEF XInv

\* exit() taking wait_lock loses no exit: init, which may sleep, is still to be woken up
\* for the orphans it is given.
LEMMA ExitLockLosesNone ==
  ASSUME IInv, XInv, NEW c \in Cpu, NEW p \in Proc, ExitLock(c, p)
  PROVE  XInv'
  <1> DEFINE orphans == {pp \in Proc : parent[pp] = p}
             w == IF orphans # {} THEN "wakeinit" ELSE "wakeparent"
  <1>1. /\ wait_lock = None /\ wait_lock' = c /\ on'[c] = p /\ c # None
        /\ UNCHANGED <<state, chan>>
        /\ i' = [i EXCEPT ![p] = 1] /\ pc' = [pc EXCEPT ![p] = w]
        /\ parent' = [pp \in Proc |-> IF pp \in orphans THEN initproc ELSE parent[pp]]
    BY DEF ExitLock
  <1>2. /\ pc'[p] = w /\ i'[p] = 1
        /\ \A q \in Proc : q # p => pc'[q] = pc[q]
    BY <1>1 DEF IInv, TypeOK, PathsOK
  <1>3. CriticalHolds'
    <2>1. HoldsWaitLock(p)'
      BY <1>1 DEF HoldsWaitLock
    <2> QED
      BY <1>1, <1>2, <2>1, FreeMeansNobody DEF CriticalHolds
  <1>4. NoneExited'
    BY <1>1, <1>2, FreeMeansNobody DEF NoneExited, Critical
  <1>5. ParentAwake'
    <2> SUFFICES ASSUME NEW r \in Proc, NEW q \in Proc, HoldsWaitLock(q)',
                        pc'[q] = "zombie" \/ (pc'[q] = "wakeparent" /\ r < i'[q])
                 PROVE  FALSE
      BY DEF ParentAwake
    <2>1. q = p
      BY <1>1 DEF HoldsWaitLock
    <2> QED
      BY <1>2, <2>1
  <1>6. NoLostExit'
    <2> SUFFICES ASSUME NEW q \in Proc, NEW r \in Proc, Sleeps(q)', state'[r] = "zombie",
                        parent'[r] = q
                 PROVE  WakeupIsComing(q)'
      BY DEF NoLostExit, Sleeps
    <2>1. Sleeps(q) /\ state[r] = "zombie"
      BY <1>1 DEF Sleeps
    <2>2. parent[r] # q
      BY <1>1, <2>1, NoPair DEF HoldsWaitLock
    <2>3. r \in orphans /\ q = initproc
      BY <1>1, <2>2
    <2>4. pc'[p] = "wakeinit" /\ i'[p] <= q
      BY <1>2, <2>3
    <2> QED
      BY <1>1, <2>3, <2>4 DEF WakeupIsComing
  <1> QED
    BY <1>3, <1>4, <1>5, <1>6 DEF XInv
\* A step of the holder of wait_lock inside wait() loses no exit if it rests on what it
\* has seen: nobody else can exit meanwhile.
LEMMA WaitStep ==
  ASSUME IInv, XInv, NEW c \in Cpu, NEW p \in Proc, At(c, p, "waitscan"),
         UNCHANGED <<state, chan, parent, on, wait_lock>>,
         \A q \in Proc : q # p => pc'[q] = pc[q],
         pc'[p] \in {"waitscan", "waitsleep"},
         \A q \in Proc : parent[q] = p /\ (pc'[p] = "waitscan" => q < i'[p]) => state[q] # "zombie"
  PROVE  XInv'
  <1>1. /\ wait_lock = c /\ HoldsWaitLock(p)
        /\ \A q \in Proc : q # p =>
             /\ ~HoldsWaitLock(q)
             /\ pc[q] \in Critical => pc[q] = "zombie" /\ state[q] \in {"zombie", "unused"}
    BY CriticalAlone DEF Critical
  <1>2. \A q \in Proc : HoldsWaitLock(q)' <=> HoldsWaitLock(q)
    BY DEF HoldsWaitLock
  <1>3. CriticalHolds'
    BY <1>1, <1>2 DEF CriticalHolds
  <1>4. NoneExited'
    BY <1>1 DEF NoneExited, Critical
  <1>5. ParentAwake'
    BY <1>1, <1>2 DEF ParentAwake
  <1>6. \A q, r \in Proc : Sleeps(q) /\ parent[r] = q => state[r] # "zombie"
    <2>1. \A r \in Proc : HoldsWaitLock(r) => r = p
      BY <1>1
    <2> QED
      BY <2>1, NoPair
  <1>7. NoLostExit'
    BY <1>6 DEF NoLostExit, Sleeps
  <1> QED
    BY <1>3, <1>4, <1>5, <1>7 DEF XInv

\* wait() passing over a slot loses no exit: it has looked at the child under its lock.
LEMMA WaitNextLosesNone ==
  ASSUME IInv, XInv, NEW c \in Cpu, NEW p \in Proc, WaitNext(c, p)
  PROVE  XInv'
  <1>1. i[p] \in Proc /\ i'[p] = i[p] + 1 /\ UNCHANGED pc /\ pc[p] = "waitscan"
    BY DEF WaitNext, IInv, TypeOK, PathsOK
  <1>2. \A q \in Proc : parent[q] = p /\ q < i'[p] => state[q] # "zombie"
    <2> SUFFICES ASSUME NEW q \in Proc, parent[q] = p, q < i'[p] PROVE state[q] # "zombie"
      OBVIOUS
    <2>1. CASE q = i[p]
      BY <2>1 DEF WaitNext
    <2>2. CASE q < i[p]
      BY <1>1, <2>2 DEF XInv, NoneExited
    <2> QED
      BY <1>1, <2>1, <2>2
  <1>3. At(c, p, "waitscan") /\ UNCHANGED <<state, chan, parent, on, wait_lock>>
    BY DEF WaitNext
  <1> QED
    BY <1>1, <1>2, <1>3, WaitStep

\* wait() going on to sleep() loses no exit: it has looked at every child.
LEMMA WaitStaysLosesNone ==
  ASSUME IInv, XInv, NEW c \in Cpu, NEW p \in Proc, WaitStays(c, p)
  PROVE  XInv'
  <1>1. /\ i[p] > NPROC /\ pc[p] = "waitscan" /\ pc'[p] = "waitsleep"
        /\ \A q \in Proc : q # p => pc'[q] = pc[q]
        /\ At(c, p, "waitscan") /\ UNCHANGED <<state, chan, parent, on, wait_lock>>
    BY DEF WaitStays, IInv, TypeOK, PathsOK
  <1>2. \A q \in Proc : q < i[p]
    BY <1>1 DEF IInv, TypeOK, PathsOK
  <1>3. \A q \in Proc : parent[q] = p => state[q] # "zombie"
    BY <1>1, <1>2 DEF XInv, NoneExited
  <1> QED
    BY <1>1, <1>3, WaitStep

\* wait() returning, with a child reaped or without, loses no exit: the holder of
\* wait_lock was not about to wake anyone up.
LEMMA WaitEndsLosesNone ==
  ASSUME IInv, XInv, NEW c \in Cpu, NEW p \in Proc,
         WaitReap(c, p) \/ WaitCopyFails(c, p) \/ WaitReturns(c, p)
  PROVE  XInv'
  <1>1. /\ At(c, p, "waitscan") /\ wait_lock' = None
        /\ pc' = [pc EXCEPT ![p] = "user"]
    BY DEF WaitReap, WaitCopyFails, WaitReturns
  <1>2. \A q \in Proc : q # p /\ pc[q] \in Critical =>
                          pc[q] = "zombie" /\ state[q] \in {"zombie", "unused"}
    BY <1>1, CriticalAlone DEF Critical
  <1>3. HoldsWaitLock(p) /\ \A r \in Proc : HoldsWaitLock(r) => r = p
    BY <1>1, CriticalAlone DEF Critical
  <1>4. \A q, r \in Proc : Sleeps(q) /\ parent[r] = q => state[r] # "zombie"
    BY <1>1, <1>3, NoPair
  <1>5. \A q \in Proc : /\ state'[q] = state[q] \/ state'[q] = "unused"
                        /\ parent'[q] \in {parent[q], None} /\ chan'[q] \in {chan[q], None}
    <2>1. CASE WaitReap(c, p)
      BY <2>1 DEF WaitReap, Freeproc, IInv, TypeOK, FieldsOK
    <2>2. CASE WaitCopyFails(c, p) \/ WaitReturns(c, p)
      BY <2>2 DEF WaitCopyFails, WaitReturns
    <2> QED
      BY <2>1, <2>2
  <1>6. \A q, r \in Proc : Sleeps(q)' /\ parent'[r] = q => state'[r] # "zombie"
    BY <1>4, <1>5 DEF Sleeps
  <1>7. \A q \in Proc : pc'[q] \in Critical =>
                          pc'[q] = "zombie" /\ state'[q] \in {"zombie", "unused"}
    <2>1. \A q \in Proc : pc'[q] = IF q = p THEN "user" ELSE pc[q]
      BY <1>1 DEF IInv, TypeOK, PathsOK
    <2> QED
      BY <1>2, <1>5, <2>1 DEF Critical
  <1> QED
    BY <1>1, <1>6, <1>7, ReleaseStep

\* sleep() in wait() loses no exit: none of p's children has exited.
LEMMA WaitSleepLosesNone ==
  ASSUME IInv, XInv, NEW c \in Cpu, NEW p \in Proc, WaitSleep(c, p)
  PROVE  XInv'
  <1>1. /\ At(c, p, "waitsleep") /\ wait_lock' = None /\ UNCHANGED parent
        /\ pc' = [pc EXCEPT ![p] = "wait"] /\ state' = [state EXCEPT ![p] = "sleeping"]
        /\ chan' = [chan EXCEPT ![p] = p]
    BY DEF WaitSleep
  <1>2. \A q \in Proc : q # p /\ pc[q] \in Critical =>
                          pc[q] = "zombie" /\ state[q] \in {"zombie", "unused"}
    BY <1>1, CriticalAlone DEF Critical
  <1>3. HoldsWaitLock(p) /\ \A r \in Proc : HoldsWaitLock(r) => r = p
    BY <1>1, CriticalAlone DEF Critical
  <1>4. \A q, r \in Proc : Sleeps(q) /\ parent[r] = q => state[r] # "zombie"
    BY <1>1, <1>3, NoPair
  <1>5. \A r \in Proc : parent[r] = p => state[r] # "zombie"
    BY <1>1 DEF XInv, NoneExited
  <1>6. \A q \in Proc : /\ state'[q] = IF q = p THEN "sleeping" ELSE state[q]
                        /\ chan'[q] = IF q = p THEN p ELSE chan[q]
                        /\ pc'[q] = IF q = p THEN "wait" ELSE pc[q]
    BY <1>1 DEF IInv, TypeOK, FieldsOK, PathsOK
  <1>7. \A q, r \in Proc : Sleeps(q)' /\ parent'[r] = q => state'[r] # "zombie"
    BY <1>1, <1>4, <1>5, <1>6 DEF Sleeps
  <1>8. \A q \in Proc : pc'[q] \in Critical =>
                          pc'[q] = "zombie" /\ state'[q] \in {"zombie", "unused"}
    BY <1>2, <1>6 DEF Critical
  <1> QED
    BY <1>1, <1>7, <1>8, ReleaseStep

\* The end of exit() loses no exit: the parent was woken up, and has not slept again.
LEMMA ExitZombieLosesNone ==
  ASSUME IInv, XInv, NEW c \in Cpu, NEW p \in Proc, ExitZombie(c, p)
  PROVE  XInv'
  <1>1. /\ At(c, p, "zombie") /\ wait_lock' = None /\ UNCHANGED <<parent, chan, pc>>
        /\ state' = [state EXCEPT ![p] = "zombie"]
    BY DEF ExitZombie
  <1>2. \A q \in Proc : q # p /\ pc[q] \in Critical =>
                          pc[q] = "zombie" /\ state[q] \in {"zombie", "unused"}
    BY <1>1, CriticalAlone DEF Critical
  <1>3. HoldsWaitLock(p) /\ \A r \in Proc : HoldsWaitLock(r) => r = p
    BY <1>1, CriticalAlone DEF Critical
  <1>4. \A q, r \in Proc : Sleeps(q) /\ parent[r] = q => state[r] # "zombie"
    BY <1>1, <1>3, NoPair
  <1>5. \A q \in Proc : parent[p] = q => ~Sleeps(q)
    BY <1>1, <1>3 DEF XInv, ParentAwake
  <1>6. \A q \in Proc : state'[q] = IF q = p THEN "zombie" ELSE state[q]
    BY <1>1 DEF IInv, TypeOK, FieldsOK
  <1>7. \A q, r \in Proc : Sleeps(q)' /\ parent'[r] = q => state'[r] # "zombie"
    BY <1>1, <1>4, <1>5, <1>6 DEF Sleeps
  <1>8. \A q \in Proc : pc'[q] \in Critical =>
                          pc'[q] = "zombie" /\ state'[q] \in {"zombie", "unused"}
    BY <1>1, <1>2, <1>6 DEF Critical
  <1> QED
    BY <1>1, <1>7, <1>8, ReleaseStep

\* One wakeup() ended and the next begun loses no exit: wakeup(initproc) leaves the
\* parent's to come, and after wakeup(p->parent) the parent is awake.
LEMMA WakeupDoneLosesNone ==
  ASSUME IInv, XInv, NEW c \in Cpu, NEW p \in Proc, WakeupDone(c, p)
  PROVE  XInv'
  <1>1. /\ i[p] > NPROC /\ Runs(c, p) /\ UNCHANGED <<state, chan, parent, on, wait_lock>>
        /\ \/ pc[p] = "wakeinit" /\ pc'[p] = "wakeparent" /\ i'[p] = 1
           \/ pc[p] = "wakeparent" /\ pc'[p] = "zombie"
        /\ \A q \in Proc : q # p => pc'[q] = pc[q] /\ i'[q] = i[q]
    BY DEF WakeupDone, IInv, TypeOK, PathsOK
  <1>2. /\ wait_lock = c /\ HoldsWaitLock(p)
        /\ \A q \in Proc : q # p =>
             /\ ~HoldsWaitLock(q)
             /\ pc[q] \in Critical => pc[q] = "zombie" /\ state[q] \in {"zombie", "unused"}
    BY <1>1, CriticalAlone DEF Critical
  <1>3. \A q \in Proc : HoldsWaitLock(q)' <=> HoldsWaitLock(q)
    BY <1>1 DEF HoldsWaitLock
  <1>4. CriticalHolds'
    BY <1>1, <1>2, <1>3 DEF CriticalHolds
  <1>5. NoneExited'
    BY <1>1, <1>2 DEF NoneExited, Critical
  <1>6. ParentAwake'
    <2> SUFFICES ASSUME NEW r \in Proc, NEW q \in Proc, parent[q] = r, HoldsWaitLock(q),
                        pc'[q] = "zombie" \/ (pc'[q] = "wakeparent" /\ r < i'[q])
                 PROVE  ~Sleeps(r)
      BY <1>1, <1>3 DEF ParentAwake, Sleeps
    <2>1. q = p
      BY <1>2
    <2>2. pc[p] = "wakeparent" /\ r < i[p]
      BY <1>1, <2>1 DEF IInv, TypeOK, PathsOK
    <2> QED
      BY <2>1, <2>2 DEF XInv, ParentAwake
  <1>7. NoLostExit'
    <2> SUFFICES ASSUME NEW q \in Proc, NEW r \in Proc, Sleeps(q), state[r] = "zombie",
                        parent[r] = q
                 PROVE  WakeupIsComing(q)'
      BY <1>1 DEF NoLostExit, Sleeps
    <2>1. WakeupIsComing(q)
      BY DEF XInv, NoLostExit, Sleeps
    <2>2. pc[p] = "wakeinit" /\ q = parent[p]
      BY <1>1, <1>2, <2>1 DEF WakeupIsComing, HoldsWaitLock, IInv, TypeOK, PathsOK
    <2>3. pc'[p] = "wakeparent" /\ i'[p] <= q
      BY <1>1, <2>2
    <2> QED
      BY <1>1, <1>2, <2>2, <2>3 DEF WakeupIsComing
  <1> QED
    BY <1>4, <1>5, <1>6, <1>7 DEF XInv

\* A step of wakeup() loses no exit: whoever it passes no longer sleeps on it.
LEMMA WakeupLosesNone ==
  ASSUME IInv, XInv, NEW c \in Cpu, NEW p \in Proc,
         Wakeup(c, p, "wakeinit", initproc) \/ Wakeup(c, p, "wakeparent", parent[p])
  PROVE  XInv'
  <1> DEFINE t == IF pc[p] = "wakeinit" THEN initproc ELSE parent[p]
  <1>1. /\ i[p] \in Proc /\ Runs(c, p) /\ UNCHANGED <<chan, parent, on, wait_lock, pc>>
        /\ pc[p] \in {"wakeinit", "wakeparent"}
        /\ i'[p] = i[p] + 1 /\ \A q \in Proc : q # p => i'[q] = i[q]
    BY DEF Wakeup, IInv, TypeOK, PathsOK
  <1>2. state[p] = "running"
    BY <1>1 DEF IInv, CpuInv, OnIsRunning
  <1>3. /\ \A q \in Proc : state'[q] = state[q] \/ (state[q] = "sleeping" /\ state'[q] = "runnable")
        /\ state[i[p]] = "sleeping" /\ chan[i[p]] = t => state'[i[p]] = "runnable"
    BY <1>1, <1>2 DEF Wakeup, IInv, TypeOK, FieldsOK
  <1>4. /\ wait_lock = c /\ HoldsWaitLock(p)
        /\ \A q \in Proc : q # p =>
             /\ ~HoldsWaitLock(q)
             /\ pc[q] \in Critical => pc[q] = "zombie" /\ state[q] \in {"zombie", "unused"}
    BY <1>1, CriticalAlone DEF Critical
  <1>5. \A q \in Proc : /\ HoldsWaitLock(q)' <=> HoldsWaitLock(q)
                        /\ Sleeps(q)' => Sleeps(q)
                        /\ q = i[p] /\ q = t => ~Sleeps(q)'
    BY <1>1, <1>3 DEF HoldsWaitLock, Sleeps
  <1>6. CriticalHolds'
    BY <1>1, <1>3, <1>4, <1>5 DEF XInv, CriticalHolds
  <1>7. NoneExited'
    BY <1>1, <1>4 DEF NoneExited, Critical
  <1>8. ParentAwake'
    <2> SUFFICES ASSUME NEW r \in Proc, NEW q \in Proc, parent[q] = r, HoldsWaitLock(q),
                        pc[q] = "zombie" \/ (pc[q] = "wakeparent" /\ r < i'[q]), Sleeps(r)'
                 PROVE  FALSE
      BY <1>1, <1>5 DEF ParentAwake
    <2>1. q = p /\ pc[p] = "wakeparent" /\ r < i[p] + 1
      BY <1>1, <1>4
    <2>2. CASE r = i[p]
      BY <1>5, <2>1, <2>2
    <2>3. CASE r < i[p]
      BY <1>5, <2>1, <2>3 DEF XInv, ParentAwake
    <2> QED
      BY <1>1, <2>1, <2>2, <2>3
  <1>9. NoLostExit'
    <2> SUFFICES ASSUME NEW q \in Proc, NEW r \in Proc, Sleeps(q)', state'[r] = "zombie",
                        parent[r] = q
                 PROVE  WakeupIsComing(q)'
      BY <1>1 DEF NoLostExit, Sleeps
    <2>1. WakeupIsComing(q)
      BY <1>3, <1>5 DEF XInv, NoLostExit, Sleeps
    <2>2. \/ pc[p] = "wakeinit" /\ q = initproc /\ i[p] <= q
          \/ pc[p] = "wakeinit" /\ q = parent[p]
          \/ pc[p] = "wakeparent" /\ q = parent[p] /\ i[p] <= q
      BY <1>4, <2>1 DEF WakeupIsComing, HoldsWaitLock
    <2>3. CASE pc[p] = "wakeinit" /\ q = parent[p]
      BY <1>1, <1>4, <2>3 DEF WakeupIsComing
    <2>4. CASE q = t /\ i[p] <= q
      <3>1. i'[p] <= q
        BY <1>1, <1>5, <2>4
      <3> QED
        BY <1>1, <1>4, <2>2, <3>1 DEF WakeupIsComing
    <2> QED
      BY <2>2, <2>3, <2>4
  <1> QED
    BY <1>6, <1>7, <1>8, <1>9 DEF XInv

\* Every step keeps the exits.
LEMMA NextLosesNone == IInv /\ XInv /\ [Next]_vars => XInv'
  <1> SUFFICES ASSUME IInv, XInv, [Next]_vars PROVE XInv'
    OBVIOUS
  <1>1. CASE UNCHANGED vars
    <2>1. Calm
      BY <1>1 DEF vars, Calm
    <2> QED
      BY <2>1, CalmStep
  <1>2. ASSUME NEW c \in Cpu, NEW p \in Proc, Kernel(c, p) PROVE XInv'
    BY <1>2, ForkFailsLosesNone, ForkCopyLosesNone, ForkParentLosesNone, ForkRunLosesNone,
       WaitNextLosesNone, WaitEndsLosesNone, WaitStaysLosesNone, WaitSleepLosesNone,
       ExitLockLosesNone, WakeupDoneLosesNone, ExitZombieLosesNone, WakeupLosesNone DEF Kernel
  <1>3. ASSUME NEW c \in Cpu, NEW p \in Proc, Process(c, p) PROVE XInv'
    BY <1>2, <1>3, ResumeLosesNone, YieldLosesNone, WaitLockLosesNone, ExitLosesNone,
       ForkAllocLosesNone, KillLosesNone, SetPriorityLosesNone DEF Process
  <1> QED
    BY <1>1, <1>3, SchedulerLosesNone DEF Next

\* A parent never sleeps in wait() on a child that has already exited, unless the wakeup()
\* for it is still to come: for any number of processes and CPUs and both scheduler() loops.
THEOREM NoExitIsLost == Spec => []NoLostExit
  <1>1. Init => XInv
    BY DEF Init, XInv, CriticalHolds, NoneExited, ParentAwake, HoldsWaitLock, NoLostExit, Critical
  <1>2. XInv => NoLostExit
    BY DEF XInv
  <1> QED
    BY <1>1, <1>2, Invariance, NextLosesNone, PTL DEF Spec
=============================================================================
