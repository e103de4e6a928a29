--------------------------------- MODULE Bio --------------------------------
(***************************************************************************)
(* The buffer cache of kernel/bio.c, with the sleep lock of each buffer    *)
(* (kernel/sleeplock.c) and the pins of kernel/log.c.                      *)
(*                                                                         *)
(* A step is a section under bcache.lock, a section under a sleep lock's    *)
(* spin lock, one disk transfer, or one change to a buffer by the process   *)
(* that has it locked.                                                     *)
(***************************************************************************)
EXTENDS BlockUsers, Integers, Sequences, FiniteSets

CONSTANTS Value,
          NBUF,      \* buffers
          MaxPins,   \* blocks the log has pinned at a time
          Changing   \* bound: the blocks that callers change

\* begin_op() bounds the pins.  Nothing bounds the readers, who do not call it.
ASSUME BioAssumption ==
  /\ NBUF \in Nat /\ MaxPins \in Nat
  /\ IsFiniteSet(Proc) /\ None \notin Proc \cup Block
  /\ Changing \subseteq Block

Buf == 1 .. NBUF

VARIABLES
  blockno, refcnt, valid, data,   \* struct buf
  locked,      \* the sleep lock of each buffer: the process that has it
  order,       \* the list from bcache.head.next: most recently used first
  disk,        \* the contents of the blocks on the disk
  pins,        \* blocks in log.lh: bpin() without bunpin()
  pc, cur, want  \* the call each process is in, its buffer and its block

table     == <<blockno, refcnt, valid, data, order>>
call      == <<pc, cur, want>>
cacheVars == <<table, locked, disk, pins, call>>

Held(p) == {b \in Buf : locked[b] = p}

\* bcache.lock can be taken: who panics in bget() has it for ever.
LockIsFree == \A p \in Proc : pc[p] # "panic"
-----------------------------------------------------------------------------
(* bread() *)

\* Bound: one buffer at a time, where log.c and fs.c lock up to two.
MayGet(p) == pc[p] = "free" /\ Held(p) = {}

\* Mutant of Hit: the reference is not counted.
HitUncounted(p, k, b) ==
  /\ blockno[b] = k
  /\ UNCHANGED table

Hit(p, k, b) ==
  /\ blockno[b] = k
  /\ refcnt' = [refcnt EXCEPT ![b] = @ + 1]
  /\ UNCHANGED <<blockno, valid, data, order>>

\* The least recently used buffer that nobody refers to.
Victim == order[CHOOSE n \in Buf : /\ refcnt[order[n]] = 0
                                   /\ \A m \in n + 1 .. NBUF : refcnt[order[m]] # 0]

\* Mutant of Recycle: the old contents pass for the new block's.
RecycleValid(k, b) ==
  /\ b = Victim
  /\ blockno' = [blockno EXCEPT ![b] = k]
  /\ refcnt' = [refcnt EXCEPT ![b] = 1]
  /\ UNCHANGED <<valid, data, order>>

Recycle(k, b) ==
  /\ b = Victim
  /\ blockno' = [blockno EXCEPT ![b] = k]
  /\ valid' = [valid EXCEPT ![b] = FALSE]
  /\ refcnt' = [refcnt EXCEPT ![b] = 1]
  /\ UNCHANGED <<data, order>>

Calls(p, pos, b, k) ==
  /\ pc' = [pc EXCEPT ![p] = pos]
  /\ cur' = [cur EXCEPT ![p] = b]
  /\ want' = [want EXCEPT ![p] = k]

Returns(p) == Calls(p, "free", 0, None)

Cached(k) == \E b \in Buf : blockno[b] = k

NoRoom(k) == ~Cached(k) /\ \A b \in Buf : refcnt[b] # 0

\* bget(), as far as release(&bcache.lock); "bget: no buffers" is a panic.
Bget(p, k) ==
  /\ MayGet(p) /\ LockIsFree
  /\ IF NoRoom(k)
     THEN Calls(p, "panic", 0, k) /\ UNCHANGED table
     ELSE \E b \in Buf : /\ Hit(p, k, b) \/ (~Cached(k) /\ Recycle(k, b))
                         /\ Calls(p, "lock", b, k)
  /\ UNCHANGED <<locked, disk, pins>>

\* acquiresleep(), and bread()'s look at b->valid.
AcquireSleep(p) ==
  /\ pc[p] = "lock"
  /\ IF locked[cur[p]] # None
     THEN pc' = [pc EXCEPT ![p] = "asleep"] /\ UNCHANGED <<locked, cur, want>>
     ELSE /\ locked' = [locked EXCEPT ![cur[p]] = p]
          /\ IF valid[cur[p]] THEN Returns(p)
             ELSE pc' = [pc EXCEPT ![p] = "fill"] /\ UNCHANGED <<cur, want>>
  /\ UNCHANGED <<table, disk, pins>>

Fill(p) ==
  /\ pc[p] = "fill"
  /\ data' = [data EXCEPT ![cur[p]] = disk[blockno[cur[p]]]]
  /\ valid' = [valid EXCEPT ![cur[p]] = TRUE]
  /\ Returns(p)
  /\ UNCHANGED <<blockno, refcnt, order, locked, disk, pins>>
-----------------------------------------------------------------------------
(* What the caller does with a buffer it has *)

Has(p, b) == pc[p] = "free" /\ locked[b] = p

Modify(p, b, v) ==
  /\ Has(p, b) /\ blockno[b] \in Changing
  /\ data' = [data EXCEPT ![b] = v]
  /\ UNCHANGED <<blockno, refcnt, valid, order, locked, disk, pins, call>>

Bwrite(p, b) ==
  /\ Has(p, b)
  /\ disk' = [disk EXCEPT ![blockno[b]] = data[b]]
  /\ UNCHANGED <<table, locked, pins, call>>

Bpin(b) == refcnt' = [refcnt EXCEPT ![b] = @ + 1]

\* log_write() pins a block once.
LogPin(p, b) ==
  /\ Has(p, b) /\ blockno[b] \in Changing \ pins /\ Cardinality(pins) < MaxPins /\ LockIsFree
  /\ Bpin(b)
  /\ pins' = pins \cup {blockno[b]}
  /\ UNCHANGED <<blockno, valid, data, order, locked, disk, call>>

\* install_trans() has written the block and drops the pin.
Bunpin(p, b) ==
  /\ Has(p, b) /\ blockno[b] \in pins /\ disk[blockno[b]] = data[b] /\ LockIsFree
  /\ refcnt' = [refcnt EXCEPT ![b] = @ - 1]
  /\ pins' = pins \ {blockno[b]}
  /\ UNCHANGED <<blockno, valid, data, order, locked, disk, call>>

\* A change is written or logged before brelse().
Saved(b) == data[b] = disk[blockno[b]] \/ blockno[b] \in pins
-----------------------------------------------------------------------------
(* brelse() *)

Wakeup(b) == [q \in Proc |-> IF pc[q] = "asleep" /\ cur[q] = b THEN "lock" ELSE pc[q]]

ReleaseSleep(p, b) ==
  /\ Has(p, b) /\ Saved(b)
  /\ locked' = [locked EXCEPT ![b] = None]
  /\ pc' = [Wakeup(b) EXCEPT ![p] = "drop"]
  /\ cur' = [cur EXCEPT ![p] = b]
  /\ UNCHANGED <<table, disk, pins, want>>

MoveToFront(b) ==
  LET pos == CHOOSE n \in Buf : order[n] = b IN
    [n \in Buf |-> IF n = 1 THEN b ELSE IF n <= pos THEN order[n - 1] ELSE order[n]]

\* The second half, under bcache.lock: the last one out moves the buffer.
Drop(p) ==
  LET b == cur[p] IN
    /\ pc[p] = "drop" /\ LockIsFree
    /\ refcnt' = [refcnt EXCEPT ![b] = @ - 1]
    /\ order' = IF refcnt[b] = 1 THEN MoveToFront(b) ELSE order
    /\ Returns(p)
    /\ UNCHANGED <<blockno, valid, data, locked, disk, pins>>
-----------------------------------------------------------------------------
CacheInit ==
  /\ blockno = [b \in Buf |-> None] /\ refcnt = [b \in Buf |-> 0]
  /\ valid = [b \in Buf |-> FALSE]
  /\ \E v \in Value : disk = [k \in Block |-> v] /\ data = [b \in Buf |-> v]
  /\ locked = [b \in Buf |-> None] /\ order = [n \in Buf |-> NBUF + 1 - n]
  /\ pins = {}
  /\ pc = [p \in Proc |-> "free"] /\ cur = [p \in Proc |-> 0] /\ want = [p \in Proc |-> None]

Use(p, b) == \/ \E v \in Value : Modify(p, b, v)
             \/ Bwrite(p, b) \/ LogPin(p, b) \/ Bunpin(p, b) \/ ReleaseSleep(p, b)

CacheNext ==
  \E p \in Proc :
    \/ \E k \in Block : Bget(p, k)
    \/ AcquireSleep(p) \/ Fill(p) \/ Drop(p)
    \/ \E b \in Buf : Use(p, b)

CacheSpec == CacheInit /\ [][CacheNext]_cacheVars
-----------------------------------------------------------------------------
\* The processes that refer to buffer b: those that have it locked, and those
\* between bget() and acquiresleep() or between releasesleep() and refcnt--.
Users(b) == {p \in Proc : locked[b] = p \/ (pc[p] \in {"lock", "asleep", "drop"} /\ cur[p] = b)}

CacheTypeOK ==
  /\ refcnt \in [Buf -> 0 .. Cardinality(Proc) + 1] /\ valid \in [Buf -> BOOLEAN]
  /\ \A b \in Buf : blockno[b] \in Block \cup {None} /\ locked[b] \in Proc \cup {None}
  /\ data \in [Buf -> Value] /\ disk \in [Block -> Value] /\ pins \in SUBSET Block
  /\ order \in [Buf -> Buf] /\ \A m, n \in Buf : order[m] = order[n] => m = n
  /\ pc \in [Proc -> {"free", "lock", "asleep", "fill", "drop", "panic"}]
  /\ cur \in [Proc -> 0 .. NBUF]

\* A process asleep on a buffer is behind one that has it and will wake it.
SleeperHasHolder == \A p \in Proc : pc[p] = "asleep" => locked[cur[p]] \notin {None, p}

InUse(b) == Users(b) # {} \/ blockno[b] \in pins

\* No two buffers hold the same block, nobody sleeps on a buffer nobody has, and refcnt
\* counts the buffer's users and the log's pin: it is recycled when it has none and
\* not before, and "bget: no buffers" means that all are in use (bio.c:64-88).
RefsAreExact ==
  /\ CacheTypeOK /\ SleeperHasHolder
  /\ ~LockIsFree => \A b \in Buf : InUse(b)
  /\ \A b, c \in Buf : b # c /\ blockno[b] # None => blockno[b] # blockno[c]
  /\ \A b \in Buf : refcnt[b] = Cardinality(Users(b)) + IF blockno[b] \in pins THEN 1 ELSE 0

BufferOf(k) == {b \in Buf : blockno[b] = k}

\* The contents and the holder of each block, in the cache or not.
Visible == [k \in Block |->
  IF \E b \in BufferOf(k) : valid[b] THEN data[CHOOSE b \in BufferOf(k) : valid[b]] ELSE disk[k]]
Holder == [k \in Block |->
  IF BufferOf(k) = {} THEN None ELSE locked[CHOOSE b \in BufferOf(k) : TRUE]]

Store == INSTANCE BlockStore WITH contents <- Visible, holder <- Holder

\* The cache cannot be told from a store that has every block's contents and one
\* lock per block, whatever is recycled, pinned and written back when.
ImplementsBlockStore == Store!Spec
=============================================================================
