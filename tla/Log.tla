---------------------------------- MODULE Log ---------------------------------
(***************************************************************************)
(* The write-ahead log of kernel/log.c over a disk that writes one block   *)
(* at a time, and a machine that may stop between any two writes.          *)
(*                                                                         *)
(* A step is a section under log.lock, or the write of one block.  A block's *)
(* contents are the number of the system call that last wrote it.          *)
(***************************************************************************)
EXTENDS BlockUsers, Integers, Sequences, SequencesExt, FiniteSets

CONSTANTS MAXOPBLOCKS,   \* blocks begin_op() reserves for a system call
          LOGSIZE,       \* blocks the reservations may add up to
          nlog,          \* sb->nlog: blocks of the log, its header included
          OpBlocks,      \* blocks a system call really writes, at most
          MaxOps,        \* bound: system calls in a behaviour
          MaxCrashes     \* bound: restarts in a behaviour

ASSUME LogAssumption ==
  /\ MAXOPBLOCKS \in Nat \ {0} /\ LOGSIZE \in Nat /\ MAXOPBLOCKS <= LOGSIZE
  /\ nlog \in Nat \ {0} /\ LOGSIZE <= nlog
  /\ OpBlocks \in 0 .. MAXOPBLOCKS /\ (OpBlocks < MAXOPBLOCKS \/ LOGSIZE < nlog)
  /\ IsFiniteSet(Proc)
  /\ MaxOps \in Nat /\ MaxCrashes \in Nat

VARIABLES
  home, logged, header,   \* the disk: home locations, log blocks, log header
  cached, cache, pinned,  \* the buffer cache: blocks in it, contents, and pins
  lh, outstanding, committing, sleepers,   \* struct log; processes in sleep(&log)
  op,                     \* op[p]: the system call p is in, with its write count
  at, tail,               \* the committing or recovering path, and its loop index
  nops, crashes

onDisk  == <<home, logged, header>>
memory  == <<cached, cache, pinned>>
log     == <<lh, outstanding, committing, sleepers>>
logVars == <<home, logged, header, cached, cache, pinned, lh, outstanding, committing,
             sleepers, op, at, tail, nops, crashes>>

NoOp == [n |-> 0, left |-> 0]

\* bread(): what a buffer of block b contains, read from the disk if need be.
Bread(b) == IF b \in cached THEN cache[b] ELSE home[b]
Load(b, v) == cached' = cached \cup {b} /\ cache' = [cache EXCEPT ![b] = v]
-----------------------------------------------------------------------------
(* begin_op(), log_write() and end_op() *)

\* Mutant of CanBegin: only what is logged already is counted, not what the
\* calls in progress may still log.
CanBeginGreedy == ~committing /\ Len(lh) + MAXOPBLOCKS <= LOGSIZE

CanBegin == ~committing /\ Len(lh) + (outstanding + 1) * MAXOPBLOCKS <= LOGSIZE

Begin(p) ==
  /\ at = "idle" \/ committing
  /\ op[p] = NoOp /\ p \notin sleepers /\ nops < MaxOps
  /\ IF CanBegin
     THEN /\ outstanding' = outstanding + 1
          /\ nops' = nops + 1
          /\ op' = [op EXCEPT ![p] = [n |-> nops + 1, left |-> OpBlocks]]
          /\ UNCHANGED sleepers
     ELSE sleepers' = sleepers \cup {p} /\ UNCHANGED <<outstanding, nops, op>>
  /\ UNCHANGED <<onDisk, memory, lh, committing, at, tail, crashes>>

\* log_write()'s absorption: a block is logged, and pinned, once.
LogBlock(b) ==
  IF Contains(lh, b) THEN UNCHANGED <<lh, pinned>>
  ELSE lh' = Append(lh, b) /\ pinned' = pinned \cup {b}

\* "too big a transaction": the panic of log_write().
TooBig == Len(lh) >= LOGSIZE \/ Len(lh) >= nlog - 1

\* A system call changes a buffer and calls log_write() before brelse().
LogWrite(p, b) ==
  /\ at = "idle" /\ op[p] # NoOp /\ op[p].left > 0
  /\ IF TooBig THEN at' = "panic" /\ UNCHANGED <<memory, log, op>>
     ELSE /\ Load(b, op[p].n)
          /\ LogBlock(b)
          /\ op' = [op EXCEPT ![p].left = @ - 1]
          /\ UNCHANGED <<outstanding, committing, sleepers, at>>
  /\ UNCHANGED <<onDisk, tail, nops, crashes>>

\* end_op(): the last one out commits; the others may have made room.
EndOp(p) ==
  /\ at = "idle" /\ op[p] # NoOp
  /\ op' = [op EXCEPT ![p] = NoOp]
  /\ outstanding' = outstanding - 1
  /\ IF outstanding = 1
     THEN /\ committing' = TRUE
          /\ at' = IF lh # <<>> THEN "writelog" ELSE "done"
          /\ UNCHANGED sleepers
     ELSE sleepers' = {} /\ UNCHANGED <<committing, at>>
  /\ tail' = 1
  /\ UNCHANGED <<onDisk, memory, lh, nops, crashes>>
-----------------------------------------------------------------------------
(* commit() *)

WriteLog ==
  /\ at = "writelog" /\ tail <= Len(lh)
  /\ logged' = [logged EXCEPT ![tail] = Bread(lh[tail])]
  /\ Load(lh[tail], Bread(lh[tail]))
  /\ tail' = tail + 1
  /\ UNCHANGED <<home, header, pinned, log, op, at, nops, crashes>>

\* Mutant of WriteHead: the header is written before the log blocks.
WriteHeadFirst ==
  /\ at = "writelog" /\ tail = 1
  /\ header' = lh
  /\ at' = "install"
  /\ tail' = 1
  /\ UNCHANGED <<home, logged, memory, log, op, nops, crashes>>

\* write_head(): "the true point at which the current transaction commits".
WriteHead ==
  /\ at = "writelog" /\ tail > Len(lh)
  /\ header' = lh
  /\ at' = "install"
  /\ tail' = 1
  /\ UNCHANGED <<home, logged, memory, log, op, nops, crashes>>

\* install_trans(), for a commit and, without pins to drop, for recovery.
InstallTrans ==
  /\ at \in {"install", "recover"} /\ tail <= Len(lh)
  /\ home' = [home EXCEPT ![lh[tail]] = logged[tail]]
  /\ Load(lh[tail], logged[tail])
  /\ pinned' = pinned \ {lh[tail]}
  /\ tail' = tail + 1
  /\ UNCHANGED <<logged, header, log, op, at, nops, crashes>>

\* Mutant of ClearHead: the log is erased before its blocks are installed.
ClearHeadEarly ==
  /\ at \in {"install", "recover"} /\ tail = 1
  /\ lh' = <<>>
  /\ header' = <<>>
  /\ at' = IF at = "install" THEN "done" ELSE "idle"
  /\ UNCHANGED <<home, logged, memory, outstanding, committing, sleepers,
                 op, tail, nops, crashes>>

\* log.lh.n = 0 and write_head(): erase the transaction.
ClearHead ==
  /\ at \in {"install", "recover"} /\ tail > Len(lh)
  /\ lh' = <<>>
  /\ header' = <<>>
  /\ at' = IF at = "install" THEN "done" ELSE "idle"
  /\ UNCHANGED <<home, logged, memory, outstanding, committing, sleepers,
                 op, tail, nops, crashes>>

\* Mutant of Committed: nobody is woken.
CommittedQuietly ==
  /\ at = "done"
  /\ committing' = FALSE
  /\ at' = "idle"
  /\ UNCHANGED <<onDisk, memory, lh, outstanding, sleepers, op, tail, nops, crashes>>

\* end_op() again: committing = 0 and wakeup(&log).
Committed ==
  /\ at = "done"
  /\ committing' = FALSE
  /\ sleepers' = {}
  /\ at' = "idle"
  /\ UNCHANGED <<onDisk, memory, lh, outstanding, op, tail, nops, crashes>>
-----------------------------------------------------------------------------
(* The buffer cache and the machine *)

\* bget() recycles the buffer of a block nobody has pinned; it is read again.
Evict(b) ==
  /\ b \in cached \ pinned
  /\ cached' = cached \ {b}
  /\ cache' = [cache EXCEPT ![b] = 0]
  /\ UNCHANGED <<onDisk, pinned, log, op, at, tail, nops, crashes>>

\* The machine stops and restarts: initlog() finds the header on the disk.
Crash ==
  /\ crashes < MaxCrashes /\ at # "panic"
  /\ crashes' = crashes + 1
  /\ cached' = {} /\ cache' = [b \in Block |-> 0] /\ pinned' = {}
  /\ lh' = header
  /\ outstanding' = 0 /\ committing' = FALSE /\ sleepers' = {}
  /\ op' = [p \in Proc |-> NoOp]
  /\ at' = "recover" /\ tail' = 1
  /\ UNCHANGED <<onDisk, nops>>
-----------------------------------------------------------------------------
LogInit ==
  /\ home = [b \in Block |-> 0] /\ logged = [t \in 1 .. LOGSIZE |-> 0] /\ header = <<>>
  /\ cached = {} /\ cache = home /\ pinned = {}
  /\ lh = <<>> /\ outstanding = 0 /\ committing = FALSE /\ sleepers = {}
  /\ op = [p \in Proc |-> NoOp]
  /\ at = "idle" /\ tail = 1
  /\ nops = 0 /\ crashes = 0

Commit == WriteLog \/ WriteHead \/ InstallTrans \/ ClearHead \/ Committed

SystemCall(p) == Begin(p) \/ EndOp(p) \/ \E b \in Block : LogWrite(p, b)

LogNext ==
  \/ \E p \in Proc : SystemCall(p)
  \/ Commit
  \/ \E b \in Block : Evict(b)
  \/ Crash

LogSpec == LogInit /\ [][LogNext]_logVars
-----------------------------------------------------------------------------
LogTypeOK ==
  /\ home \in [Block -> 0 .. MaxOps] /\ cache \in [Block -> 0 .. MaxOps]
  /\ logged \in [1 .. LOGSIZE -> 0 .. MaxOps]
  /\ header \in Seq(Block) /\ lh \in Seq(Block)
  /\ IsInjective(lh) /\ Len(lh) <= LOGSIZE
  /\ cached \in SUBSET Block /\ pinned \in SUBSET Block
  /\ outstanding \in Nat /\ committing \in BOOLEAN /\ sleepers \in SUBSET Proc
  /\ op \in [Proc -> [n : 0 .. MaxOps, left : 0 .. OpBlocks]]
  /\ at \in {"idle", "writelog", "install", "recover", "done", "panic"}
  /\ tail \in 1 .. LOGSIZE + 1
  /\ nops \in 0 .. MaxOps /\ crashes \in 0 .. MaxCrashes

\* What a restart would find: the header's blocks from the log, others at home.
AfterRecovery ==
  [b \in Block |-> IF Contains(header, b)
                   THEN logged[CHOOSE t \in 1 .. Len(header) : header[t] = b]
                   ELSE home[b]]

\* What system calls see; during recovery none runs.
Now == IF at = "recover" THEN AfterRecovery ELSE [b \in Block |-> Bread(b)]

\* The processes between begin_op() and end_op().
Active == {p \in Proc : op[p] # NoOp}

Disk == INSTANCE JournaledDisk WITH
  Value <- 1 .. MaxOps, Empty <- 0, now <- Now, durable <- AfterRecovery, active <- Active

\* System calls are atomic over crashes: log.c "the logging system only commits
\* when there are no FS system calls active", and write_head() commits them all.
CallsAreAtomic == Disk!Spec

\* When no system call is under way and no commit, everything is on the disk.
QuiescentIsDurable == at = "idle" /\ outstanding = 0 => \A b \in Block : AfterRecovery[b] = Bread(b)

\* A process that sleeps in begin_op() will be woken: someone is between
\* begin_op() and end_op(), or committing.
SleepersAreWoken == sleepers # {} => outstanding > 0 \/ committing

\* begin_op()'s reservation keeps the logged blocks within the log (LogTypeOK) and
\* log_write() from "too big a transaction": log.outstanding counts the calls in
\* progress, of which a commit has none.
ReservationSuffices ==
  /\ LogTypeOK /\ at # "panic"
  /\ outstanding = Cardinality(Active)
  /\ committing => outstanding = 0
=============================================================================
