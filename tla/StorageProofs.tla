---------------------------- MODULE StorageProofs ---------------------------
(***************************************************************************)
(* The buffer cache: its reference counts are exact, it runs out of        *)
(* buffers only when all are in use, and it cannot be told from a store of *)
(* blocks, for any number of processes, pins, buffers and blocks.  The log: system calls are atomic     *)
(* over crashes at any point, for any number of processes and blocks and   *)
(* any sizes of the log and its reservations.  The driver and the device   *)
(* agree on who owns a descriptor and on what has been answered, for any   *)
(* number of descriptors and any width of the indices that it divides.     *)
(***************************************************************************)
EXTENDS Bio, Log, VirtioDisk, FiniteSetTheorems, SequenceTheorems,
        WellFoundedInduction, NaturalsInduction, TLAPS
-----------------------------------------------------------------------------
(* Numbers *)

\* A set of natural numbers has a least element.
LEMMA LeastNatural ==
  ASSUME NEW S \in SUBSET Nat, S # {}
  PROVE  \E m \in S : \A n \in S : m <= n
  <1> DEFINE R == OpToRel(<, Nat)
  <1>1. IsWellFoundedOn(R, Nat)
    BY NatLessThanWellFounded
  <1>2. \E m \in S : \A n \in S : ~(<<n, m>> \in R)
    <2> HIDE DEF R
    <2> QED BY <1>1, WFMin
  <1>3. \A m, n \in Nat : n < m => <<n, m>> \in R
    BY DEF OpToRel
  <1> HIDE DEF R
  <1>4. PICK m \in S : \A n \in S : ~(<<n, m>> \in R)
    BY <1>2
  <1>5. \A n \in S : ~(n < m)
    BY <1>3, <1>4
  <1> QED
    BY <1>5
-----------------------------------------------------------------------------
(* The invariant of the cache *)

Tables ==
  /\ refcnt \in [Buf -> Nat] /\ valid \in [Buf -> BOOLEAN]
  /\ blockno \in [Buf -> Block \cup {None}] /\ locked \in [Buf -> Proc \cup {None}]
Ordered == order \in [Buf -> Buf] /\ \A m, n \in Buf : order[m] = order[n] => m = n
Calling ==
  /\ pc \in [Proc -> {"free", "lock", "asleep", "fill", "drop", "panic"}]
  /\ cur \in [Proc -> 0 .. NBUF]
Stored == data \in [Buf -> Value] /\ disk \in [Block -> Value]

\* A call has one buffer: on its way to the lock or from it, or with the lock.
Placed ==
  /\ \A p \in Proc : pc[p] \in {"lock", "asleep", "fill", "drop"} => cur[p] \in Buf
  /\ \A p \in Proc : pc[p] \in {"lock", "asleep", "drop"} => \A b \in Buf : locked[b] # p
  /\ \A p \in Proc : pc[p] = "fill" => locked[cur[p]] = p
  /\ \A p \in Proc : \A b, c \in Buf : locked[b] = p /\ locked[c] = p => b = c

\* There was no buffer for who has panicked, and without the lock none is given back.
Halted == ~LockIsFree => \A b \in Buf : refcnt[b] # 0

\* A buffer in use has a block, and no two have the same.
Named ==
  /\ \A b, c \in Buf : b # c /\ blockno[b] # None => blockno[b] # blockno[c]
  /\ \A b \in Buf : Users(b) # {} => blockno[b] # None

\* A pinned block stays in the cache.
Pinned ==
  /\ pins \in SUBSET Block
  /\ \A k \in pins : \E b \in Buf : blockno[b] = k

PinOf(b) == IF blockno[b] \in pins THEN 1 ELSE 0
RefsCounted == \A b \in Buf : refcnt[b] = Cardinality(Users(b)) + PinOf(b)

\* A process has what is in its buffer, and leaves it on the disk or pinned.
Ready == \A p \in Proc : \A b \in Buf : locked[b] = p => (valid[b] <=> pc[p] = "free")
Clean == \A b \in Buf : valid[b] /\ blockno[b] # None /\ locked[b] = None => Saved(b)

CacheInv ==
  /\ Tables /\ Ordered /\ Calling /\ Stored
  /\ Placed /\ Halted /\ SleeperHasHolder /\ Named /\ Pinned /\ RefsCounted
  /\ Ready /\ Clean
-----------------------------------------------------------------------------
(* Finite sets *)

\* The sizes.
LEMMA CacheSizes ==
  /\ NBUF \in Nat /\ IsFiniteSet(Proc)
  /\ Cardinality(Proc) \in Nat /\ None \notin Proc /\ None \notin Block
  /\ IsFiniteSet(Buf) /\ Cardinality(Buf) = NBUF
  <1>1. IsFiniteSet(Buf) /\ Cardinality(Buf) = NBUF
    BY BioAssumption, FS_Interval DEF BioAssumption, Buf
  <1> QED
    BY <1>1, BioAssumption, FS_CardinalityType DEF BioAssumption

\* A buffer has finitely many users.
LEMMA UsersFinite ==
  ASSUME NEW b \in Buf
  PROVE  /\ IsFiniteSet(Users(b)) /\ Cardinality(Users(b)) \in Nat /\ Cardinality(Users(b)) <= Cardinality(Proc)
         /\ Cardinality(Users(b)) = 0 <=> Users(b) = {}
  <1>1. Users(b) \subseteq Proc
    BY DEF Users
  <1>2. IsFiniteSet(Users(b)) /\ Cardinality(Users(b)) <= Cardinality(Proc)
    BY <1>1, CacheSizes, FS_Subset
  <1> QED
    BY <1>2, FS_CardinalityType, FS_EmptySet

\* The list has every buffer.
LEMMA InList ==
  ASSUME Ordered, NEW b \in Buf
  PROVE  \E n \in Buf : order[n] = b
  <1>1. order \in Injection(Buf, Buf)
    BY DEF Ordered, Injection, IsInjective
  <1>2. order \in Surjection(Buf, Buf)
    BY <1>1, CacheSizes, FS_Injection
  <1> QED
    BY <1>2 DEF Surjection

\* bget() finds a buffer nobody refers to when there is one.
LEMMA VictimIs ==
  ASSUME Ordered, NEW b \in Buf, refcnt[b] = 0
  PROVE  Victim \in Buf /\ refcnt[Victim] = 0
  <1> DEFINE S == {m \in Nat : \E n \in Buf : m = NBUF - n /\ refcnt[order[n]] = 0}
  <1>1. S \in SUBSET Nat /\ S # {}
    <2>1. PICK n \in Buf : order[n] = b
      BY InList
    <2>2. NBUF - n \in Nat
      BY CacheSizes DEF Buf
    <2> QED
      BY <2>1, <2>2
  <1>2. PICK m \in S : \A l \in S : m <= l
    <2> HIDE DEF S
    <2> QED
      BY <1>1, LeastNatural
  <1>3. PICK n \in Buf : m = NBUF - n /\ refcnt[order[n]] = 0
    BY <1>2
  <1>4. ASSUME NEW l \in n + 1 .. NBUF, refcnt[order[l]] = 0 PROVE FALSE
    <2>1. l \in Buf /\ NBUF - l \in Nat /\ NBUF - l < NBUF - n
      BY <1>3, CacheSizes DEF Buf
    <2>2. NBUF - l \in S
      BY <1>4, <2>1
    <2> QED
      BY <1>2, <1>3, <2>1, <2>2, CacheSizes DEF Buf
  <1>5. \E k \in Buf : refcnt[order[k]] = 0 /\ \A l \in k + 1 .. NBUF : refcnt[order[l]] # 0
    BY <1>3, <1>4
  <1>6. PICK k \in Buf : Victim = order[k] /\ refcnt[order[k]] = 0
    BY <1>5 DEF Victim
  <1> QED
    BY <1>6 DEF Ordered

\* Moving a buffer to the front of the list keeps it a list of all.
LEMMA FrontIsOrdered ==
  ASSUME Ordered, NEW b \in Buf, order' = MoveToFront(b)
  PROVE  Ordered'
  <1> DEFINE pos == CHOOSE n \in Buf : order[n] = b
  <1>1. pos \in Buf /\ order[pos] = b
    BY InList
  <1>2. order' = [n \in Buf |-> IF n = 1 THEN b ELSE IF n <= pos THEN order[n - 1] ELSE order[n]]
    BY DEF MoveToFront
  <1> HIDE DEF pos
  <1>3. \A n \in Buf : n # 1 => n - 1 \in Buf
    BY CacheSizes DEF Buf
  <1>4. order' \in [Buf -> Buf]
    BY <1>2, <1>3 DEF Ordered
  <1>5. ASSUME NEW m \in Buf, NEW n \in Buf, m < n, order'[m] = order'[n] PROVE FALSE
    <2>1. m \in Nat /\ n \in Nat /\ pos \in Nat /\ n # 1 /\ n - 1 \in Buf /\ (m # 1 => m - 1 \in Buf)
      BY <1>1, <1>3, <1>5, CacheSizes DEF Buf
    <2>2. CASE m = 1 /\ n <= pos
      BY <1>1, <1>2, <1>5, <2>1, <2>2 DEF Ordered
    <2>3. CASE m = 1 /\ ~(n <= pos)
      BY <1>1, <1>2, <1>5, <2>1, <2>3 DEF Ordered
    <2>4. CASE m # 1
      BY <1>1, <1>2, <1>5, <2>1, <2>4 DEF Ordered
    <2> QED
      BY <2>2, <2>3, <2>4
  <1>6. \A m, n \in Buf : order'[m] = order'[n] => m = n
    <2>1. \A m, n \in Buf : m < n \/ n < m \/ m = n
      BY CacheSizes DEF Buf
    <2> QED
      BY <2>1, <1>5
  <1> QED
    BY <1>4, <1>6 DEF Ordered
-----------------------------------------------------------------------------
(* What the steps do *)

Gets(p, k, b) ==
  /\ MayGet(p) /\ LockIsFree /\ Calls(p, "lock", b, k)
  /\ Hit(p, k, b) \/ (~Cached(k) /\ Recycle(k, b) /\ refcnt[b] = 0)
  /\ UNCHANGED <<locked, disk, pins>>

Panics(p, k) ==
  /\ MayGet(p) /\ Calls(p, "panic", 0, k)
  /\ \A b \in Buf : refcnt[b] # 0
  /\ UNCHANGED <<table, locked, disk, pins>>

\* bget() finds a buffer, unless all are in use.
LEMMA BgetIs ==
  ASSUME CacheInv, NEW p \in Proc, NEW k \in Block, Bget(p, k)
  PROVE  Panics(p, k) \/ \E b \in Buf : Gets(p, k, b)
  <1>1. MayGet(p) /\ LockIsFree /\ UNCHANGED <<locked, disk, pins>>
    BY DEF Bget
  <1>2. CASE NoRoom(k)
    BY <1>1, <1>2 DEF Bget, NoRoom, Panics
  <1>3. CASE ~NoRoom(k)
    <2>1. PICK b \in Buf : (Hit(p, k, b) \/ (~Cached(k) /\ Recycle(k, b))) /\ Calls(p, "lock", b, k)
      BY <1>3 DEF Bget
    <2>2. ASSUME ~Cached(k), Recycle(k, b) PROVE refcnt[b] = 0
      BY <1>3, <2>2, VictimIs DEF NoRoom, Recycle, CacheInv
    <2> QED
      BY <1>1, <2>1, <2>2 DEF Gets
  <1> QED
    BY <1>2, <1>3

\* Who uses a buffer is counted.
LEMMA UsedIsCounted ==
  ASSUME CacheInv, NEW b \in Buf, Users(b) # {}
  PROVE  refcnt[b] - 1 \in Nat
  <1>1. refcnt[b] = Cardinality(Users(b)) + PinOf(b)
    BY DEF CacheInv, RefsCounted
  <1>2. Cardinality(Users(b)) \in Nat /\ Cardinality(Users(b)) # 0
    BY UsersFinite
  <1> QED
    BY <1>1, <1>2 DEF PinOf

\* The fields of the buffers keep their types, ...
LEMMA TablesKept ==
  ASSUME CacheInv, [CacheNext]_cacheVars
  PROVE  Tables'
  <1>0a. ASSUME NEW p \in Proc, NEW k \in Block, Panics(p, k) PROVE Tables'
    BY <1>0a, CacheSizes DEF Panics, MayGet, Held, Calls, CacheInv, Tables, Calling, Stored, Placed, table
  <1>1. ASSUME NEW p \in Proc, NEW k \in Block, NEW b \in Buf, Gets(p, k, b) PROVE Tables'
    <2>1. Gets(p, k, b)
      BY <1>1
    <2>2. locked' = locked /\ (Hit(p, k, b) \/ Recycle(k, b))
      BY <2>1 DEF Gets
    <2>3. CASE Hit(p, k, b)
      BY <2>2, <2>3 DEF Hit, CacheInv, Tables
    <2>4. CASE Recycle(k, b)
      BY <2>2, <2>4 DEF Recycle, CacheInv, Tables
    <2> QED
      BY <2>2, <2>3, <2>4
  <1>2. ASSUME NEW p \in Proc, AcquireSleep(p) PROVE Tables'
    BY <1>2 DEF AcquireSleep, Returns, Calls, CacheInv, Tables, table
  <1>3. ASSUME NEW p \in Proc, Fill(p) PROVE Tables'
    BY <1>3 DEF Fill, Returns, Calls, CacheInv, Tables
  <1>4. ASSUME NEW p \in Proc, Drop(p) PROVE Tables'
    <2>1. /\ refcnt' = [refcnt EXCEPT ![cur[p]] = @ - 1]
          /\ UNCHANGED <<blockno, valid, locked>>
      BY <1>4 DEF Drop
    <2>2. cur[p] \in Buf /\ refcnt[cur[p]] - 1 \in Nat
      BY <1>4, UsedIsCounted DEF Drop, CacheInv, Placed, Users
    <2> QED
      BY <2>1, <2>2 DEF CacheInv, Tables
  <1>5. ASSUME NEW p \in Proc, NEW b \in Buf, NEW v \in Value, Modify(p, b, v) PROVE Tables'
    BY <1>5 DEF Modify, Has, CacheInv, Tables, call
  <1>6. ASSUME NEW p \in Proc, NEW b \in Buf, Bwrite(p, b) PROVE Tables'
    BY <1>6 DEF Bwrite, Has, CacheInv, Tables, table, call
  <1>7. ASSUME NEW p \in Proc, NEW b \in Buf, LogPin(p, b) PROVE Tables'
    BY <1>7 DEF LogPin, Has, Bpin, CacheInv, Tables, call
  <1>8. ASSUME NEW p \in Proc, NEW b \in Buf, Bunpin(p, b) PROVE Tables'
    <2>1. /\ refcnt' = [refcnt EXCEPT ![b] = @ - 1]
          /\ UNCHANGED <<blockno, valid, locked>>
      BY <1>8 DEF Bunpin
    <2>2. refcnt[b] - 1 \in Nat
      BY <1>8, UsedIsCounted DEF Bunpin, Has, Users
    <2> QED
      BY <2>1, <2>2 DEF CacheInv, Tables
  <1>9. ASSUME NEW p \in Proc, NEW b \in Buf, ReleaseSleep(p, b) PROVE Tables'
    BY <1>9 DEF ReleaseSleep, Has, Wakeup, CacheInv, Tables, table
  <1>10. ASSUME UNCHANGED cacheVars PROVE Tables'
    BY <1>10 DEF cacheVars, CacheInv, Tables, table, call
  <1> QED
    BY <1>0a, BgetIs, <1>1, <1>2, <1>3, <1>4, <1>5, <1>6, <1>7, <1>8, <1>9, <1>10 DEF CacheNext, Use

\* ... the list its buffers, ...
LEMMA OrderedKept ==
  ASSUME CacheInv, [CacheNext]_cacheVars
  PROVE  Ordered'
  <1>0a. ASSUME NEW p \in Proc, NEW k \in Block, Panics(p, k) PROVE Ordered'
    BY <1>0a, CacheSizes DEF Panics, MayGet, Held, Calls, CacheInv, Ordered, Tables, Calling, Stored, Placed, table
  <1>1. ASSUME NEW p \in Proc, NEW k \in Block, NEW b \in Buf, Gets(p, k, b) PROVE Ordered'
    <2>1. Gets(p, k, b)
      BY <1>1
    <2> QED
      BY <2>1 DEF Gets, Calls, Hit, Recycle, MayGet, Held, CacheInv, Ordered
  <1>2. ASSUME NEW p \in Proc, AcquireSleep(p) PROVE Ordered'
    BY <1>2 DEF AcquireSleep, Returns, Calls, CacheInv, Ordered, table
  <1>3. ASSUME NEW p \in Proc, Fill(p) PROVE Ordered'
    BY <1>3 DEF Fill, Returns, Calls, CacheInv, Ordered
  <1>4. ASSUME NEW p \in Proc, Drop(p) PROVE Ordered'
    <2>1. order' = IF refcnt[cur[p]] = 1 THEN MoveToFront(cur[p]) ELSE order
      BY <1>4 DEF Drop
    <2>2. cur[p] \in Buf
      BY <1>4 DEF Drop, CacheInv, Placed
    <2>3. CASE refcnt[cur[p]] = 1
      BY <2>1, <2>2, <2>3, FrontIsOrdered DEF CacheInv
    <2>4. CASE refcnt[cur[p]] # 1
      BY <2>1, <2>4 DEF CacheInv, Ordered
    <2> QED
      BY <2>3, <2>4
  <1>5. ASSUME NEW p \in Proc, NEW b \in Buf, NEW v \in Value, Modify(p, b, v) PROVE Ordered'
    BY <1>5 DEF Modify, Has, CacheInv, Ordered, call
  <1>6. ASSUME NEW p \in Proc, NEW b \in Buf, Bwrite(p, b) PROVE Ordered'
    BY <1>6 DEF Bwrite, Has, CacheInv, Ordered, table, call
  <1>7. ASSUME NEW p \in Proc, NEW b \in Buf, LogPin(p, b) PROVE Ordered'
    BY <1>7 DEF LogPin, Has, Bpin, CacheInv, Ordered, call
  <1>8. ASSUME NEW p \in Proc, NEW b \in Buf, Bunpin(p, b) PROVE Ordered'
    BY <1>8 DEF Bunpin, Has, CacheInv, Ordered, call
  <1>9. ASSUME NEW p \in Proc, NEW b \in Buf, ReleaseSleep(p, b) PROVE Ordered'
    BY <1>9 DEF ReleaseSleep, Has, Wakeup, CacheInv, Ordered, table
  <1>10. ASSUME UNCHANGED cacheVars PROVE Ordered'
    BY <1>10 DEF cacheVars, CacheInv, Ordered, table, call
  <1> QED
    BY <1>0a, BgetIs, <1>1, <1>2, <1>3, <1>4, <1>5, <1>6, <1>7, <1>8, <1>9, <1>10 DEF CacheNext, Use

\* ... the calls their places, ...
LEMMA CallingKept ==
  ASSUME CacheInv, [CacheNext]_cacheVars
  PROVE  Calling'
  <1>0a. ASSUME NEW p \in Proc, NEW k \in Block, Panics(p, k) PROVE Calling'
    BY <1>0a, CacheSizes DEF Panics, MayGet, Held, Calls, CacheInv, Calling, Tables, Stored, Placed, table
  <1>1. ASSUME NEW p \in Proc, NEW k \in Block, NEW b \in Buf, Gets(p, k, b) PROVE Calling'
    <2>1. Gets(p, k, b)
      BY <1>1
    <2> QED
      BY <2>1, CacheSizes DEF Gets, Calls, Hit, Recycle, MayGet, Held, CacheInv, Calling, Placed, Buf
  <1>2. ASSUME NEW p \in Proc, AcquireSleep(p) PROVE Calling'
    BY <1>2, CacheSizes DEF AcquireSleep, Returns, Calls, CacheInv, Calling, Placed, Buf, table
  <1>3. ASSUME NEW p \in Proc, Fill(p) PROVE Calling'
    BY <1>3, CacheSizes DEF Fill, Returns, Calls, CacheInv, Calling, Placed, Buf
  <1>4. ASSUME NEW p \in Proc, Drop(p) PROVE Calling'
    BY <1>4, CacheSizes DEF Drop, Returns, Calls, CacheInv, Calling, Placed, Buf
  <1>5. ASSUME NEW p \in Proc, NEW b \in Buf, NEW v \in Value, Modify(p, b, v) PROVE Calling'
    BY <1>5, CacheSizes DEF Modify, Has, CacheInv, Calling, Placed, Buf, call
  <1>6. ASSUME NEW p \in Proc, NEW b \in Buf, Bwrite(p, b) PROVE Calling'
    BY <1>6, CacheSizes DEF Bwrite, Has, CacheInv, Calling, Placed, Buf, table, call
  <1>7. ASSUME NEW p \in Proc, NEW b \in Buf, LogPin(p, b) PROVE Calling'
    BY <1>7, CacheSizes DEF LogPin, Has, Bpin, CacheInv, Calling, Placed, Buf, call
  <1>8. ASSUME NEW p \in Proc, NEW b \in Buf, Bunpin(p, b) PROVE Calling'
    BY <1>8, CacheSizes DEF Bunpin, Has, CacheInv, Calling, Placed, Buf, call
  <1>9. ASSUME NEW p \in Proc, NEW b \in Buf, ReleaseSleep(p, b) PROVE Calling'
    BY <1>9, CacheSizes DEF ReleaseSleep, Has, Wakeup, CacheInv, Calling, Placed, Buf, table
  <1>10. ASSUME UNCHANGED cacheVars PROVE Calling'
    BY <1>10 DEF cacheVars, CacheInv, Calling, Placed, Buf, table, call
  <1> QED
    BY <1>0a, BgetIs, <1>1, <1>2, <1>3, <1>4, <1>5, <1>6, <1>7, <1>8, <1>9, <1>10 DEF CacheNext, Use

\* ... and the contents theirs.
LEMMA StoredKept ==
  ASSUME CacheInv, [CacheNext]_cacheVars
  PROVE  Stored'
  <1>0a. ASSUME NEW p \in Proc, NEW k \in Block, Panics(p, k) PROVE Stored'
    BY <1>0a, CacheSizes DEF Panics, MayGet, Held, Calls, CacheInv, Stored, Tables, Calling, Placed, table
  <1>1. ASSUME NEW p \in Proc, NEW k \in Block, NEW b \in Buf, Gets(p, k, b) PROVE Stored'
    <2>1. Gets(p, k, b)
      BY <1>1
    <2> QED
      BY <2>1 DEF Gets, Calls, Hit, Recycle, MayGet, Held, CacheInv, Stored, Tables, Calling, Placed
  <1>2. ASSUME NEW p \in Proc, AcquireSleep(p) PROVE Stored'
    BY <1>2 DEF AcquireSleep, Returns, Calls, CacheInv, Stored, Tables, Calling, Placed, table
  <1>3. ASSUME NEW p \in Proc, Fill(p) PROVE Stored'
    <2>1. data' = [data EXCEPT ![cur[p]] = disk[blockno[cur[p]]]] /\ disk' = disk
      BY <1>3 DEF Fill
    <2>2. cur[p] \in Buf /\ blockno[cur[p]] \in Block
      BY <1>3 DEF Fill, CacheInv, Placed, Named, Users, Tables
    <2> QED
      BY <2>1, <2>2 DEF CacheInv, Stored
  <1>4. ASSUME NEW p \in Proc, Drop(p) PROVE Stored'
    BY <1>4 DEF Drop, Returns, Calls, CacheInv, Stored, Tables, Calling, Placed
  <1>5. ASSUME NEW p \in Proc, NEW b \in Buf, NEW v \in Value, Modify(p, b, v) PROVE Stored'
    BY <1>5 DEF Modify, Has, CacheInv, Stored, Tables, Calling, Placed, call
  <1>6. ASSUME NEW p \in Proc, NEW b \in Buf, Bwrite(p, b) PROVE Stored'
    <2>1. disk' = [disk EXCEPT ![blockno[b]] = data[b]] /\ data' = data
      BY <1>6 DEF Bwrite, table
    <2> QED
      BY <2>1 DEF CacheInv, Stored
  <1>7. ASSUME NEW p \in Proc, NEW b \in Buf, LogPin(p, b) PROVE Stored'
    BY <1>7 DEF LogPin, Has, Bpin, CacheInv, Stored, Tables, Calling, Placed, call
  <1>8. ASSUME NEW p \in Proc, NEW b \in Buf, Bunpin(p, b) PROVE Stored'
    BY <1>8 DEF Bunpin, Has, CacheInv, Stored, Tables, Calling, Placed, call
  <1>9. ASSUME NEW p \in Proc, NEW b \in Buf, ReleaseSleep(p, b) PROVE Stored'
    BY <1>9 DEF ReleaseSleep, Has, Wakeup, CacheInv, Stored, Tables, Calling, Placed, table
  <1>10. ASSUME UNCHANGED cacheVars PROVE Stored'
    BY <1>10 DEF cacheVars, CacheInv, Stored, Tables, Calling, Placed, table, call
  <1> QED
    BY <1>0a, BgetIs, <1>1, <1>2, <1>3, <1>4, <1>5, <1>6, <1>7, <1>8, <1>9, <1>10 DEF CacheNext, Use

\* A call has one buffer at a time.
LEMMA PlacedKept ==
  ASSUME CacheInv, [CacheNext]_cacheVars
  PROVE  Placed'
  <1>0a. ASSUME NEW p \in Proc, NEW k \in Block, Panics(p, k) PROVE Placed'
    BY <1>0a, CacheSizes DEF Panics, MayGet, Held, Calls, CacheInv, Placed, Tables, Calling, Stored, table
  <1>1. ASSUME NEW p \in Proc, NEW k \in Block, NEW b \in Buf, Gets(p, k, b) PROVE Placed'
    <2>1. Gets(p, k, b)
      BY <1>1
    <2> QED
      BY <2>1, CacheSizes DEF Gets, Calls, Hit, Recycle, MayGet, Held, CacheInv, Placed, Tables, Calling, Stored
  <1>2. ASSUME NEW p \in Proc, AcquireSleep(p) PROVE Placed'
    <2>1. CASE locked[cur[p]] # None
      BY <1>2, <2>1 DEF AcquireSleep, CacheInv, Placed, Tables, Calling, table
    <2>2. CASE locked[cur[p]] = None
      <3>1. /\ locked' = [locked EXCEPT ![cur[p]] = p] /\ cur[p] \in Buf /\ pc[p] = "lock"
            /\ pc'[p] \in {"free", "fill"} /\ (pc'[p] = "fill" => cur' = cur)
            /\ \A q \in Proc : q # p => pc'[q] = pc[q] /\ cur'[q] = cur[q]
        BY <1>2, <2>2 DEF AcquireSleep, Returns, Calls, CacheInv, Placed, Calling
      <3>2. \A b \in Buf : b # cur[p] => locked'[b] = locked[b]
        BY <3>1 DEF CacheInv, Tables
      <3>3. locked'[cur[p]] = p /\ \A b \in Buf : locked[b] # p
        BY <3>1 DEF CacheInv, Tables, Placed
      <3>4. \A q \in Proc : q # None
        BY CacheSizes
      <3>5. \A q \in Proc : pc'[q] \in {"lock", "asleep", "drop"} => \A b \in Buf : locked'[b] # q
        BY <3>1, <3>2, <3>3 DEF CacheInv, Placed
      <3>6. \A q \in Proc : \A b, c \in Buf : locked'[b] = q /\ locked'[c] = q => b = c
        BY <2>2, <3>2, <3>3 DEF CacheInv, Placed
      <3>7. \A q \in Proc : pc'[q] = "fill" => locked'[cur'[q]] = q
        BY <2>2, <3>1, <3>2, <3>3, <3>4 DEF CacheInv, Placed
      <3>8. \A q \in Proc : pc'[q] \in {"lock", "asleep", "fill", "drop"} => cur'[q] \in Buf
        BY <3>1 DEF CacheInv, Placed
      <3> QED
        BY <3>5, <3>6, <3>7, <3>8 DEF Placed
    <2> QED
      BY <2>1, <2>2
  <1>3. ASSUME NEW p \in Proc, Fill(p) PROVE Placed'
    BY <1>3, CacheSizes DEF Fill, Returns, Calls, CacheInv, Placed, Tables, Calling, Stored
  <1>4. ASSUME NEW p \in Proc, Drop(p) PROVE Placed'
    BY <1>4, CacheSizes DEF Drop, Returns, Calls, CacheInv, Placed, Tables, Calling, Stored
  <1>5. ASSUME NEW p \in Proc, NEW b \in Buf, NEW v \in Value, Modify(p, b, v) PROVE Placed'
    BY <1>5, CacheSizes DEF Modify, Has, CacheInv, Placed, Tables, Calling, Stored, call
  <1>6. ASSUME NEW p \in Proc, NEW b \in Buf, Bwrite(p, b) PROVE Placed'
    BY <1>6, CacheSizes DEF Bwrite, Has, CacheInv, Placed, Tables, Calling, Stored, table, call
  <1>7. ASSUME NEW p \in Proc, NEW b \in Buf, LogPin(p, b) PROVE Placed'
    BY <1>7, CacheSizes DEF LogPin, Has, Bpin, CacheInv, Placed, Tables, Calling, Stored, call
  <1>8. ASSUME NEW p \in Proc, NEW b \in Buf, Bunpin(p, b) PROVE Placed'
    BY <1>8, CacheSizes DEF Bunpin, Has, CacheInv, Placed, Tables, Calling, Stored, call
  <1>9. ASSUME NEW p \in Proc, NEW b \in Buf, ReleaseSleep(p, b) PROVE Placed'
    BY <1>9, CacheSizes DEF ReleaseSleep, Has, Wakeup, CacheInv, Placed, Tables, Calling, Stored, table
  <1>10. ASSUME UNCHANGED cacheVars PROVE Placed'
    BY <1>10 DEF cacheVars, CacheInv, Placed, Tables, Calling, Stored, table, call
  <1> QED
    BY <1>0a, BgetIs, <1>1, <1>2, <1>3, <1>4, <1>5, <1>6, <1>7, <1>8, <1>9, <1>10 DEF CacheNext, Use

\* Who panics in bget() keeps the lock, and what is in use stays in use.
LEMMA HaltedKept ==
  ASSUME CacheInv, [CacheNext]_cacheVars
  PROVE  Halted'
  <1>0a. ASSUME NEW p \in Proc, NEW k \in Block, Panics(p, k) PROVE Halted'
    BY <1>0a, CacheSizes DEF Panics, MayGet, Held, Calls, CacheInv, Halted, LockIsFree, Tables, Calling, Stored, Placed, table
  <1>1. ASSUME NEW p \in Proc, NEW k \in Block, NEW b \in Buf, Gets(p, k, b) PROVE Halted'
    <2>1. Gets(p, k, b)
      BY <1>1
    <2> QED
      BY <2>1 DEF Gets, Calls, Hit, Recycle, MayGet, Held, CacheInv, Halted, LockIsFree, Calling
  <1>2. ASSUME NEW p \in Proc, AcquireSleep(p) PROVE Halted'
    BY <1>2 DEF AcquireSleep, Returns, Calls, CacheInv, Halted, LockIsFree, Calling, table
  <1>3. ASSUME NEW p \in Proc, Fill(p) PROVE Halted'
    BY <1>3 DEF Fill, Returns, Calls, CacheInv, Halted, LockIsFree, Calling
  <1>4. ASSUME NEW p \in Proc, Drop(p) PROVE Halted'
    BY <1>4 DEF Drop, Returns, Calls, CacheInv, Halted, LockIsFree, Calling
  <1>5. ASSUME NEW p \in Proc, NEW b \in Buf, NEW v \in Value, Modify(p, b, v) PROVE Halted'
    BY <1>5 DEF Modify, Has, CacheInv, Halted, LockIsFree, Calling, call
  <1>6. ASSUME NEW p \in Proc, NEW b \in Buf, Bwrite(p, b) PROVE Halted'
    BY <1>6 DEF Bwrite, Has, CacheInv, Halted, LockIsFree, Calling, table, call
  <1>7. ASSUME NEW p \in Proc, NEW b \in Buf, LogPin(p, b) PROVE Halted'
    BY <1>7 DEF LogPin, Has, Bpin, CacheInv, Halted, LockIsFree, Calling, call
  <1>8. ASSUME NEW p \in Proc, NEW b \in Buf, Bunpin(p, b) PROVE Halted'
    BY <1>8 DEF Bunpin, Has, CacheInv, Halted, LockIsFree, Calling, call
  <1>9. ASSUME NEW p \in Proc, NEW b \in Buf, ReleaseSleep(p, b) PROVE Halted'
    BY <1>9 DEF ReleaseSleep, Has, Wakeup, CacheInv, Halted, LockIsFree, Calling, table
  <1>10. ASSUME UNCHANGED cacheVars PROVE Halted'
    BY <1>10 DEF cacheVars, CacheInv, Halted, LockIsFree, Calling, table, call
  <1> QED
    BY <1>0a, BgetIs, <1>1, <1>2, <1>3, <1>4, <1>5, <1>6, <1>7, <1>8, <1>9, <1>10 DEF CacheNext, Use

\* Who releases a buffer wakes those that wait for it.
LEMMA SleeperHasHolderKept ==
  ASSUME CacheInv, [CacheNext]_cacheVars
  PROVE  SleeperHasHolder'
  <1>0a. ASSUME NEW p \in Proc, NEW k \in Block, Panics(p, k) PROVE SleeperHasHolder'
    BY <1>0a, CacheSizes DEF Panics, MayGet, Held, Calls, CacheInv, SleeperHasHolder, Tables, Calling, Stored, Placed, table
  <1>1. ASSUME NEW p \in Proc, NEW k \in Block, NEW b \in Buf, Gets(p, k, b) PROVE SleeperHasHolder'
    <2>1. Gets(p, k, b)
      BY <1>1
    <2> QED
      BY <2>1, CacheSizes DEF Gets, Calls, Hit, Recycle, MayGet, Held, CacheInv, SleeperHasHolder, Placed, Tables,
                         Calling
  <1>2. ASSUME NEW p \in Proc, AcquireSleep(p) PROVE SleeperHasHolder'
    BY <1>2, CacheSizes DEF AcquireSleep, Returns, Calls, CacheInv, SleeperHasHolder, Placed, Tables, Calling,
                       table
  <1>3. ASSUME NEW p \in Proc, Fill(p) PROVE SleeperHasHolder'
    BY <1>3, CacheSizes DEF Fill, Returns, Calls, CacheInv, SleeperHasHolder, Placed, Tables, Calling
  <1>4. ASSUME NEW p \in Proc, Drop(p) PROVE SleeperHasHolder'
    BY <1>4, CacheSizes DEF Drop, Returns, Calls, CacheInv, SleeperHasHolder, Placed, Tables, Calling
  <1>5. ASSUME NEW p \in Proc, NEW b \in Buf, NEW v \in Value, Modify(p, b, v) PROVE SleeperHasHolder'
    BY <1>5, CacheSizes DEF Modify, Has, CacheInv, SleeperHasHolder, Placed, Tables, Calling, call
  <1>6. ASSUME NEW p \in Proc, NEW b \in Buf, Bwrite(p, b) PROVE SleeperHasHolder'
    BY <1>6, CacheSizes DEF Bwrite, Has, CacheInv, SleeperHasHolder, Placed, Tables, Calling, table, call
  <1>7. ASSUME NEW p \in Proc, NEW b \in Buf, LogPin(p, b) PROVE SleeperHasHolder'
    BY <1>7, CacheSizes DEF LogPin, Has, Bpin, CacheInv, SleeperHasHolder, Placed, Tables, Calling, call
  <1>8. ASSUME NEW p \in Proc, NEW b \in Buf, Bunpin(p, b) PROVE SleeperHasHolder'
    BY <1>8, CacheSizes DEF Bunpin, Has, CacheInv, SleeperHasHolder, Placed, Tables, Calling, call
  <1>9. ASSUME NEW p \in Proc, NEW b \in Buf, ReleaseSleep(p, b) PROVE SleeperHasHolder'
    BY <1>9, CacheSizes DEF ReleaseSleep, Has, Wakeup, CacheInv, SleeperHasHolder, Placed, Tables, Calling, table
  <1>10. ASSUME UNCHANGED cacheVars PROVE SleeperHasHolder'
    BY <1>10 DEF cacheVars, CacheInv, SleeperHasHolder, Placed, Tables, Calling, table, call
  <1> QED
    BY <1>0a, BgetIs, <1>1, <1>2, <1>3, <1>4, <1>5, <1>6, <1>7, <1>8, <1>9, <1>10 DEF CacheNext, Use
-----------------------------------------------------------------------------
(* Who uses which buffer *)

\* It makes its caller a user of that buffer, and of no other.
LEMMA GetUsers ==
  ASSUME CacheInv, NEW p \in Proc, NEW k \in Block, NEW b \in Buf, Gets(p, k, b)
  PROVE  p \notin Users(b) /\ \A c \in Buf : Users(c)' = IF c = b THEN Users(c) \cup {p} ELSE Users(c)
  BY DEF Gets, MayGet, Held, Calls, Users, CacheInv, Calling

\* brelse() makes its caller a user no more.
LEMMA DropUsers ==
  ASSUME CacheInv, NEW p \in Proc, Drop(p)
  PROVE  /\ cur[p] \in Buf /\ p \in Users(cur[p])
         /\ \A c \in Buf : Users(c)' = IF c = cur[p] THEN Users(c) \ {p} ELSE Users(c)
  BY DEF Drop, Returns, Calls, Users, CacheInv, Calling, Placed

\* The steps between change nobody's use.
LEMMA SameUsers ==
  ASSUME CacheInv, NEW p \in Proc, AcquireSleep(p) \/ Fill(p) \/ \E b \in Buf : Use(p, b), NEW c \in Buf
  PROVE  Users(c)' = Users(c)
  <1>1. ASSUME AcquireSleep(p) PROVE Users(c)' = Users(c)
    BY <1>1, CacheSizes DEF AcquireSleep, Returns, Calls, Users, CacheInv, Tables, Calling, Placed
  <1>2. ASSUME Fill(p) PROVE Users(c)' = Users(c)
    BY <1>2 DEF Fill, Returns, Calls, Users, CacheInv, Calling, Placed
  <1>3. ASSUME NEW b \in Buf, ReleaseSleep(p, b) PROVE Users(c)' = Users(c)
    BY <1>3, CacheSizes DEF ReleaseSleep, Has, Wakeup, Users, CacheInv, Tables, Calling, Placed
  <1>4. ASSUME UNCHANGED <<locked, call>> PROVE Users(c)' = Users(c)
    BY <1>4 DEF call, Users
  <1> QED
    BY <1>1, <1>2, <1>3, <1>4 DEF Use, Modify, Bwrite, LogPin, Bunpin

\* Two buffers are never for one block.
LEMMA NamedKept ==
  ASSUME CacheInv, [CacheNext]_cacheVars
  PROVE  Named'
  <1>0a. ASSUME NEW p \in Proc, NEW k \in Block, Panics(p, k) PROVE Named'
    BY <1>0a, CacheSizes DEF Panics, MayGet, Held, Calls, CacheInv, Named, Tables, Calling, Stored, Placed, table, Users
  <1>1. ASSUME NEW p \in Proc, NEW k \in Block, NEW b \in Buf, Gets(p, k, b) PROVE Named'
    <2>1. Gets(p, k, b)
      BY <1>1
    <2>2. \A c \in Buf : Users(c)' = IF c = b THEN Users(c) \cup {p} ELSE Users(c)
      BY <2>1, GetUsers
    <2>3. blockno'[b] = k /\ k # None
      BY <2>1, CacheSizes DEF Gets, Hit, Recycle, CacheInv, Tables
    <2>4. CASE blockno' = blockno
      BY <2>2, <2>3, <2>4 DEF CacheInv, Named
    <2>5. CASE ~Cached(k) /\ blockno' = [blockno EXCEPT ![b] = k]
      BY <2>2, <2>3, <2>5 DEF CacheInv, Named, Tables, Cached
    <2> QED
      BY <2>1, <2>4, <2>5 DEF Gets, Hit, Recycle
  <1>2. ASSUME NEW p \in Proc, Drop(p) PROVE Named'
    BY <1>2, DropUsers DEF Drop, CacheInv, Named
  <1>3. ASSUME NEW p \in Proc, AcquireSleep(p) \/ Fill(p) \/ \E b \in Buf : Use(p, b) PROVE Named'
    <2>1. \A c \in Buf : Users(c)' = Users(c)
      BY <1>3, SameUsers
    <2>2. blockno' = blockno
      BY <1>3 DEF AcquireSleep, Fill, Use, Modify, Bwrite, LogPin, Bunpin, ReleaseSleep, table
    <2> QED
      BY <2>1, <2>2 DEF CacheInv, Named
  <1>4. ASSUME UNCHANGED cacheVars PROVE Named'
    BY <1>4 DEF cacheVars, table, call, CacheInv, Named, Users
  <1> QED
    BY <1>0a, BgetIs, <1>1, <1>2, <1>3, <1>4 DEF CacheNext

\* A pinned block is not recycled.
LEMMA PinnedKept ==
  ASSUME CacheInv, [CacheNext]_cacheVars
  PROVE  Pinned'
  <1>0a. ASSUME NEW p \in Proc, NEW k \in Block, Panics(p, k) PROVE Pinned'
    BY <1>0a, CacheSizes DEF Panics, MayGet, Held, Calls, CacheInv, Pinned, Tables, Calling, Stored, Placed, table
  <1>1. ASSUME NEW p \in Proc, NEW k \in Block, NEW b \in Buf, Gets(p, k, b) PROVE Pinned'
    <2>1. Gets(p, k, b)
      BY <1>1
    <2>2. CASE Hit(p, k, b)
      BY <2>1, <2>2 DEF Gets, Hit, CacheInv, Pinned
    <2>3. CASE Recycle(k, b) /\ refcnt[b] = 0
      <3>1. blockno[b] \notin pins
        <4>1. Cardinality(Users(b)) \in Nat /\ Cardinality(Users(b)) + PinOf(b) = 0
          BY <2>3, UsersFinite DEF CacheInv, RefsCounted
        <4> QED
          BY <4>1 DEF PinOf
      <3> QED
        BY <2>1, <2>3, <3>1 DEF Gets, Recycle, CacheInv, Pinned, Tables
    <2> QED
      BY <2>1, <2>2, <2>3 DEF Gets
  <1>2. ASSUME NEW p \in Proc, NEW b \in Buf, LogPin(p, b) PROVE Pinned'
    <2>1. pins' = pins \cup {blockno[b]} /\ blockno' = blockno /\ blockno[b] \in Block
      BY <1>2, BioAssumption DEF LogPin, BioAssumption
    <2> QED
      BY <2>1 DEF CacheInv, Pinned
  <1>3. ASSUME NEW p \in Proc, NEW b \in Buf, Bunpin(p, b) PROVE Pinned'
    BY <1>3 DEF Bunpin, CacheInv, Pinned
  <1>4. ASSUME UNCHANGED <<pins, blockno>> PROVE Pinned'
    BY <1>4 DEF CacheInv, Pinned
  <1> QED
    BY <1>0a, BgetIs, <1>1, <1>2, <1>3, <1>4 DEF CacheNext, AcquireSleep, Fill, Drop, Use, Modify, Bwrite, ReleaseSleep, cacheVars,
                                  table

\* The counts stay exact.
LEMMA RefsCountedKept ==
  ASSUME CacheInv, [CacheNext]_cacheVars
  PROVE  RefsCounted'
  <1>0. /\ \A c \in Buf : refcnt[c] = Cardinality(Users(c)) + PinOf(c)
        /\ \A c \in Buf : IsFiniteSet(Users(c)) /\ Cardinality(Users(c)) \in Nat
        /\ refcnt \in [Buf -> Nat] /\ blockno \in [Buf -> Block \cup {None}] /\ None \notin Block
    BY UsersFinite, CacheSizes DEF CacheInv, RefsCounted, Tables
  <1>0a. ASSUME NEW p \in Proc, NEW k \in Block, Panics(p, k) PROVE RefsCounted'
    BY <1>0a, CacheSizes DEF Panics, MayGet, Held, Calls, CacheInv, RefsCounted, Tables, Calling, Stored, Placed, table, Users, PinOf
  <1>1. ASSUME NEW p \in Proc, NEW k \in Block, NEW b \in Buf, Gets(p, k, b) PROVE RefsCounted'
    <2>1. Gets(p, k, b)
      BY <1>1
    <2>2. p \notin Users(b) /\ \A c \in Buf : Users(c)' = IF c = b THEN Users(c) \cup {p} ELSE Users(c)
      BY <2>1, GetUsers
    <2>3. Cardinality(Users(b)') = Cardinality(Users(b)) + 1
      BY <1>0, <2>2, FS_AddElement
    <2>4. CASE Hit(p, k, b)
      <3>1. refcnt' = [refcnt EXCEPT ![b] = @ + 1] /\ \A c \in Buf : PinOf(c)' = PinOf(c) /\ PinOf(c) \in Int
        BY <2>1, <2>4 DEF Gets, Hit, PinOf
      <3>2. \A c \in Buf : c # b => refcnt'[c] = refcnt[c] /\ Users(c)' = Users(c)
        BY <1>0, <2>2, <3>1
      <3>3. refcnt'[b] = refcnt[b] + 1
        BY <1>0, <3>1
      <3>4. refcnt'[b] = Cardinality(Users(b)') + PinOf(b)'
        BY <1>0, <2>3, <3>1, <3>3
      <3> QED
        BY <1>0, <3>1, <3>2, <3>4 DEF RefsCounted
    <2>5. CASE ~Cached(k) /\ Recycle(k, b) /\ refcnt[b] = 0
      <3>1. Cardinality(Users(b)) = 0
        BY <1>0, <2>5 DEF PinOf
      <3>2. k \notin pins
        BY <2>5 DEF Cached, CacheInv, Pinned
      <3>3. blockno' = [blockno EXCEPT ![b] = k] /\ refcnt' = [refcnt EXCEPT ![b] = 1] /\ pins' = pins
        BY <2>1, <2>5 DEF Gets, Recycle
      <3>4. PinOf(b)' = 0 /\ \A c \in Buf : c # b => PinOf(c)' = PinOf(c)
        BY <1>0, <3>2, <3>3 DEF PinOf
      <3>5. \A c \in Buf : c # b => refcnt'[c] = refcnt[c] /\ Users(c)' = Users(c)
        BY <1>0, <2>2, <3>3
      <3>6. refcnt'[b] = 1
        BY <1>0, <3>3
      <3>7. refcnt'[b] = Cardinality(Users(b)') + PinOf(b)'
        BY <2>3, <3>1, <3>4, <3>6
      <3> QED
        BY <1>0, <3>4, <3>5, <3>7 DEF RefsCounted
    <2> QED
      BY <2>1, <2>4, <2>5 DEF Gets
  <1>2. ASSUME NEW p \in Proc, Drop(p) PROVE RefsCounted'
    <2>1. PICK b \in Buf : b = cur[p]
      BY <1>2, DropUsers
    <2>2. p \in Users(b) /\ \A c \in Buf : Users(c)' = IF c = b THEN Users(c) \ {p} ELSE Users(c)
      BY <1>2, <2>1, DropUsers
    <2>3. Cardinality(Users(b)') = Cardinality(Users(b)) - 1
      BY <1>0, <2>2, FS_RemoveElement
    <2>4. refcnt' = [refcnt EXCEPT ![b] = @ - 1] /\ \A c \in Buf : PinOf(c)' = PinOf(c) /\ PinOf(c) \in Int
      BY <1>2, <2>1 DEF Drop, PinOf
    <2>5. \A c \in Buf : c # b => refcnt'[c] = refcnt[c] /\ Users(c)' = Users(c)
      BY <1>0, <2>2, <2>4
    <2>6. refcnt'[b] = refcnt[b] - 1
      BY <1>0, <2>4
    <2>7. refcnt'[b] = Cardinality(Users(b)') + PinOf(b)'
      BY <1>0, <2>3, <2>4, <2>6
    <2> QED
      BY <1>0, <2>4, <2>5, <2>7 DEF RefsCounted
  <1>3. ASSUME NEW p \in Proc, NEW b \in Buf, LogPin(p, b) PROVE RefsCounted'
    <2>1. \A c \in Buf : Users(c)' = Users(c)
      BY <1>3, SameUsers DEF Use
    <2>2. /\ refcnt' = [refcnt EXCEPT ![b] = @ + 1] /\ blockno' = blockno
          /\ pins' = pins \cup {blockno[b]} /\ blockno[b] \notin pins /\ blockno[b] # None
      BY <1>0, <1>3, BioAssumption DEF LogPin, Bpin, BioAssumption
    <2>3. \A c \in Buf : c # b => blockno[c] # blockno[b]
      BY <2>2 DEF CacheInv, Named
    <2>4. \A c \in Buf : PinOf(c)' = IF c = b THEN PinOf(c) + 1 ELSE PinOf(c)
      BY <2>2, <2>3 DEF PinOf
    <2>5. \A c \in Buf : PinOf(c) \in Int
      BY DEF PinOf
    <2> QED
      BY <1>0, <2>1, <2>2, <2>4, <2>5 DEF RefsCounted
  <1>4. ASSUME NEW p \in Proc, NEW b \in Buf, Bunpin(p, b) PROVE RefsCounted'
    <2>1. \A c \in Buf : Users(c)' = Users(c)
      BY <1>4, SameUsers DEF Use
    <2>2. /\ refcnt' = [refcnt EXCEPT ![b] = @ - 1] /\ blockno' = blockno
          /\ pins' = pins \ {blockno[b]} /\ blockno[b] \in pins /\ blockno[b] # None
      BY <1>0, <1>4 DEF Bunpin, CacheInv, Pinned
    <2>3. \A c \in Buf : c # b => blockno[c] # blockno[b]
      BY <2>2 DEF CacheInv, Named
    <2>4. \A c \in Buf : PinOf(c)' = IF c = b THEN PinOf(c) - 1 ELSE PinOf(c)
      BY <2>2, <2>3 DEF PinOf
    <2>5. \A c \in Buf : PinOf(c) \in Int
      BY DEF PinOf
    <2> QED
      BY <1>0, <2>1, <2>2, <2>4, <2>5 DEF RefsCounted
  <1>5. ASSUME UNCHANGED <<refcnt, blockno, pins>>, \A c \in Buf : Users(c)' = Users(c) PROVE RefsCounted'
    BY <1>0, <1>5 DEF RefsCounted, PinOf
  <1>6. ASSUME NEW p \in Proc, AcquireSleep(p) \/ Fill(p) PROVE RefsCounted'
    BY <1>5, <1>6, SameUsers DEF AcquireSleep, Fill, table
  <1>7. ASSUME NEW p \in Proc, NEW b \in Buf, NEW v \in Value, Modify(p, b, v) PROVE RefsCounted'
    BY <1>5, <1>7, SameUsers DEF Modify, Use
  <1>8. ASSUME NEW p \in Proc, NEW b \in Buf, Bwrite(p, b) \/ ReleaseSleep(p, b) PROVE RefsCounted'
    BY <1>5, <1>8, SameUsers DEF Bwrite, ReleaseSleep, Use, table
  <1>9. ASSUME UNCHANGED cacheVars PROVE RefsCounted'
    BY <1>5, <1>9 DEF cacheVars, table, call, Users
  <1> QED
    BY <1>0a, BgetIs, <1>1, <1>2, <1>3, <1>4, <1>6, <1>7, <1>8, <1>9 DEF CacheNext, Use

\* Nobody has a buffer with no references.
LEMMA UnusedIs ==
  ASSUME CacheInv, NEW b \in Buf, refcnt[b] = 0
  PROVE  locked[b] = None /\ blockno[b] \notin pins
  <1>1. Cardinality(Users(b)) \in Nat /\ Cardinality(Users(b)) + PinOf(b) = 0
    BY UsersFinite DEF CacheInv, RefsCounted
  <1>2. Users(b) = {} /\ blockno[b] \notin pins
    BY <1>1, UsersFinite DEF PinOf
  <1> QED
    BY <1>2 DEF CacheInv, Tables, Users

\* Who gets the lock reads the block, if that is still to do.
LEMMA ReadyKept ==
  ASSUME CacheInv, [CacheNext]_cacheVars
  PROVE  Ready'
  <1>0a. ASSUME NEW p \in Proc, NEW k \in Block, Panics(p, k) PROVE Ready'
    BY <1>0a, CacheSizes DEF Panics, MayGet, Held, Calls, CacheInv, Ready, Tables, Calling, Stored, Placed, table
  <1>1. ASSUME NEW p \in Proc, NEW k \in Block, NEW b \in Buf, Gets(p, k, b) PROVE Ready'
    <2>1. Gets(p, k, b)
      BY <1>1
    <2>2. \A c \in Buf : locked[c] # p /\ locked'[c] = locked[c]
      BY <2>1 DEF Gets, MayGet, Held
    <2>3. \A q \in Proc : q # p => pc'[q] = pc[q]
      BY <2>1 DEF Gets, Calls, CacheInv, Calling
    <2>4. \A c \in Buf : locked[c] # None => valid'[c] = valid[c]
      <3>1. CASE Hit(p, k, b)
        BY <3>1 DEF Hit
      <3>2. CASE Recycle(k, b) /\ refcnt[b] = 0
        <4>1. locked[b] = None
          BY <3>2, UnusedIs
        <4> QED
          BY <3>2, <4>1 DEF Recycle, CacheInv, Tables
      <3> QED
        BY <2>1, <3>1, <3>2 DEF Gets
    <2> QED
      BY <2>2, <2>3, <2>4, CacheSizes DEF CacheInv, Ready
  <1>2. ASSUME NEW p \in Proc, AcquireSleep(p) PROVE Ready'
    BY <1>2, CacheSizes DEF AcquireSleep, Returns, Calls, CacheInv, Ready, Placed, Tables, Calling, table
  <1>3. ASSUME NEW p \in Proc, Fill(p) PROVE Ready'
    BY <1>3, CacheSizes DEF Fill, Returns, Calls, CacheInv, Ready, Placed, Tables, Calling
  <1>4. ASSUME NEW p \in Proc, Drop(p) PROVE Ready'
    BY <1>4, CacheSizes DEF Drop, Returns, Calls, CacheInv, Ready, Placed, Tables, Calling
  <1>5. ASSUME NEW p \in Proc, NEW b \in Buf, NEW v \in Value, Modify(p, b, v) PROVE Ready'
    BY <1>5, CacheSizes DEF Modify, Has, CacheInv, Ready, Placed, Tables, Calling, call
  <1>6. ASSUME NEW p \in Proc, NEW b \in Buf, Bwrite(p, b) PROVE Ready'
    BY <1>6, CacheSizes DEF Bwrite, Has, CacheInv, Ready, Placed, Tables, Calling, table, call
  <1>7. ASSUME NEW p \in Proc, NEW b \in Buf, LogPin(p, b) PROVE Ready'
    BY <1>7, CacheSizes DEF LogPin, Has, Bpin, CacheInv, Ready, Placed, Tables, Calling, call
  <1>8. ASSUME NEW p \in Proc, NEW b \in Buf, Bunpin(p, b) PROVE Ready'
    BY <1>8, CacheSizes DEF Bunpin, Has, CacheInv, Ready, Placed, Tables, Calling, call
  <1>9. ASSUME NEW p \in Proc, NEW b \in Buf, ReleaseSleep(p, b) PROVE Ready'
    BY <1>9, CacheSizes DEF ReleaseSleep, Has, Wakeup, CacheInv, Ready, Placed, Tables, Calling, table
  <1>10. ASSUME UNCHANGED cacheVars PROVE Ready'
    BY <1>10 DEF cacheVars, CacheInv, Ready, Placed, Tables, Calling, table, call
  <1> QED
    BY <1>0a, BgetIs, <1>1, <1>2, <1>3, <1>4, <1>5, <1>6, <1>7, <1>8, <1>9, <1>10 DEF CacheNext, Use

\* What a process leaves in a buffer is on the disk or pinned.
LEMMA CleanKept ==
  ASSUME CacheInv, [CacheNext]_cacheVars
  PROVE  Clean'
  <1>0a. ASSUME NEW p \in Proc, NEW k \in Block, Panics(p, k) PROVE Clean'
    BY <1>0a, CacheSizes DEF Panics, MayGet, Held, Calls, CacheInv, Clean, Tables, Calling, Stored, Placed, table, Saved
  <1>1. ASSUME NEW p \in Proc, NEW k \in Block, NEW b \in Buf, Gets(p, k, b) PROVE Clean'
    <2>1. Gets(p, k, b)
      BY <1>1
    <2>2. UNCHANGED <<data, disk, pins, locked>>
      BY <2>1 DEF Gets, Hit, Recycle
    <2>3. CASE Hit(p, k, b)
      BY <2>2, <2>3 DEF Hit, CacheInv, Clean, Saved
    <2>4. CASE Recycle(k, b)
      BY <2>2, <2>4 DEF Recycle, CacheInv, Clean, Saved, Tables
    <2> QED
      BY <2>1, <2>3, <2>4 DEF Gets
  <1>2. ASSUME NEW p \in Proc, AcquireSleep(p) PROVE Clean'
    BY <1>2, CacheSizes DEF AcquireSleep, Returns, Calls, CacheInv, Clean, Saved, Placed, Named, Tables, Calling,
                       Ready, Stored, table
  <1>3. ASSUME NEW p \in Proc, Fill(p) PROVE Clean'
    <2>1. PICK b \in Buf : b = cur[p]
      BY <1>3 DEF Fill, CacheInv, Placed
    <2>2. locked[b] = p /\ locked' = locked
      BY <1>3, <2>1 DEF Fill, CacheInv, Placed
    <2>3. \A c \in Buf : c # b => valid'[c] = valid[c] /\ data'[c] = data[c]
      BY <1>3, <2>1 DEF Fill, CacheInv, Tables, Stored
    <2>4. UNCHANGED <<blockno, disk, pins>>
      BY <1>3 DEF Fill
    <2> QED
      BY <2>2, <2>3, <2>4, CacheSizes DEF CacheInv, Clean, Saved
  <1>4. ASSUME NEW p \in Proc, Drop(p) PROVE Clean'
    BY <1>4, CacheSizes DEF Drop, Returns, Calls, CacheInv, Clean, Saved, Placed, Named, Tables, Calling, Ready,
                       Stored
  <1>5. ASSUME NEW p \in Proc, NEW b \in Buf, NEW v \in Value, Modify(p, b, v) PROVE Clean'
    <2>1. data' = [data EXCEPT ![b] = v] /\ UNCHANGED <<blockno, valid, locked, disk, pins>> /\ locked[b] = p
      BY <1>5 DEF Modify, Has
    <2> QED
      BY <2>1, CacheSizes DEF CacheInv, Clean, Saved, Stored
  <1>6. ASSUME NEW p \in Proc, NEW b \in Buf, Bwrite(p, b) PROVE Clean'
    <2>1. disk' = [disk EXCEPT ![blockno[b]] = data[b]] /\ UNCHANGED <<blockno, valid, data, locked, pins>> /\ locked[b] = p
      BY <1>6 DEF Bwrite, Has, table
    <2>2. \A c \in Buf : c # b /\ blockno[c] # None => disk'[blockno[c]] = disk[blockno[c]]
      BY <2>1 DEF CacheInv, Named, Tables, Stored
    <2> QED
      BY <2>1, <2>2, CacheSizes DEF CacheInv, Clean, Saved
  <1>7. ASSUME NEW p \in Proc, NEW b \in Buf, LogPin(p, b) PROVE Clean'
    BY <1>7, CacheSizes DEF LogPin, Has, Bpin, CacheInv, Clean, Saved, Placed, Named, Tables, Calling, Ready,
                       Stored, call
  <1>8. ASSUME NEW p \in Proc, NEW b \in Buf, Bunpin(p, b) PROVE Clean'
    <2>1. pins' = pins \ {blockno[b]} /\ UNCHANGED <<blockno, valid, data, locked, disk>> /\ locked[b] = p
      BY <1>8 DEF Bunpin, Has
    <2> QED
      BY <2>1, CacheSizes DEF CacheInv, Clean, Saved, Named
  <1>9. ASSUME NEW p \in Proc, NEW b \in Buf, ReleaseSleep(p, b) PROVE Clean'
    <2>1. locked' = [locked EXCEPT ![b] = None] /\ Saved(b) /\ UNCHANGED <<blockno, valid, data, disk, pins>>
      BY <1>9 DEF ReleaseSleep, table
    <2> QED
      BY <2>1 DEF CacheInv, Clean, Saved, Tables
  <1>10. ASSUME UNCHANGED cacheVars PROVE Clean'
    BY <1>10 DEF cacheVars, CacheInv, Clean, Saved, Placed, Named, Tables, Calling, Ready, Stored, table, call
  <1> QED
    BY <1>0a, BgetIs, <1>1, <1>2, <1>3, <1>4, <1>5, <1>6, <1>7, <1>8, <1>9, <1>10 DEF CacheNext, Use
-----------------------------------------------------------------------------
\* The invariant holds at the start.
LEMMA CacheInitially ==
  ASSUME CacheInit
  PROVE  CacheInv
  <1>1. Tables /\ Calling /\ Stored /\ Placed /\ Halted /\ SleeperHasHolder
    BY CacheSizes DEF CacheInit, Tables, Calling, Stored, Placed, Halted, LockIsFree, SleeperHasHolder, Buf
  <1>2. Ordered
    BY CacheSizes DEF CacheInit, Ordered, Buf
  <1>3. \A b \in Buf : Users(b) = {}
    BY CacheSizes DEF CacheInit, Users
  <1>4. Named
    BY <1>3 DEF CacheInit, Named
  <1>5. Pinned
    BY DEF CacheInit, Pinned
  <1>6. RefsCounted
    BY <1>3, FS_EmptySet DEF CacheInit, RefsCounted, PinOf
  <1>7. Ready /\ Clean
    BY CacheSizes DEF CacheInit, Ready, Clean
  <1> QED
    BY <1>1, <1>2, <1>4, <1>5, <1>6, <1>7 DEF CacheInv

\* It is kept.
LEMMA CacheInvKept ==
  ASSUME CacheInv, [CacheNext]_cacheVars
  PROVE  CacheInv'
  BY TablesKept, OrderedKept, CallingKept, StoredKept, PlacedKept, HaltedKept, SleeperHasHolderKept,
     NamedKept, PinnedKept, RefsCountedKept, ReadyKept, CleanKept DEF CacheInv

\* It always holds.
LEMMA CacheAlways == CacheSpec => []CacheInv
  BY CacheInitially, CacheInvKept, PTL DEF CacheSpec

\* refcnt counts the users of a buffer and the log's pin, no two buffers have the same
\* block, a sleeper is behind a holder, and bget() panics only when every buffer is in use:
\* none is lost to it, whatever the number of processes, pins and buffers.
THEOREM CacheIsExact == CacheSpec => []RefsAreExact
  <1>1. CacheInv => RefsAreExact
    <2> SUFFICES ASSUME CacheInv PROVE RefsAreExact
      OBVIOUS
    <2>1. \A b \in Buf : refcnt[b] \in 0 .. Cardinality(Proc) + 1
      BY UsersFinite, CacheSizes DEF CacheInv, RefsCounted, PinOf
    <2>2. CacheTypeOK
      BY <2>1 DEF CacheInv, Tables, Ordered, Calling, Stored, Pinned, CacheTypeOK
    <2>3. ASSUME ~LockIsFree, NEW b \in Buf PROVE InUse(b)
      <3>1. refcnt[b] = Cardinality(Users(b)) + PinOf(b) /\ refcnt[b] # 0
        BY <2>3 DEF CacheInv, Halted, RefsCounted
      <3> QED
        BY <3>1, UsersFinite DEF PinOf, InUse
    <2> QED
      BY <2>2, <2>3 DEF CacheInv, Named, RefsCounted, PinOf, RefsAreExact
  <1> QED
    BY <1>1, CacheAlways, PTL
-----------------------------------------------------------------------------
(* The cache is a store of blocks *)

\* What the cache shows of a block that it has, and of one that it has not.
Shows ==
  /\ \A b \in Buf : blockno[b] \in Block =>
       /\ Visible[blockno[b]] = IF valid[b] THEN data[b] ELSE disk[blockno[b]]
       /\ Holder[blockno[b]] = locked[b]
  /\ \A k \in Block : ~Cached(k) => Visible[k] = disk[k] /\ Holder[k] = None

\* What the abstract store has of a block, by the buffer that is for it.
LEMMA ShowsIs == CacheInv => Shows
  <1> SUFFICES ASSUME CacheInv PROVE Shows
    OBVIOUS
  <1>1. ASSUME NEW b \in Buf, blockno[b] \in Block
        PROVE  /\ Visible[blockno[b]] = IF valid[b] THEN data[b] ELSE disk[blockno[b]]
               /\ Holder[blockno[b]] = locked[b]
    <2>1. BufferOf(blockno[b]) = {b}
      BY <1>1, CacheSizes DEF BufferOf, CacheInv, Named
    <2> QED
      BY <1>1, <2>1 DEF Visible, Holder
  <1>2. ASSUME NEW k \in Block, ~Cached(k) PROVE Visible[k] = disk[k] /\ Holder[k] = None
    <2>1. BufferOf(k) = {}
      BY <1>2 DEF BufferOf, Cached
    <2> QED
      BY <2>1 DEF Visible, Holder
  <1> QED
    BY <1>1, <1>2 DEF Shows

\* The abstract state is a function on blocks.
LEMMA Functions ==
  /\ Visible = [k \in Block |-> Visible[k]] /\ Visible' = [k \in Block |-> Visible'[k]]
  /\ Holder = [k \in Block |-> Holder[k]] /\ Holder' = [k \in Block |-> Holder'[k]]
  BY DEF Visible, Holder

\* A block that was recycled for another is on the disk as it was in the cache.
LEMMA GetsStutters ==
  ASSUME CacheInv, CacheInv', NEW p \in Proc, NEW k \in Block, NEW b \in Buf, Gets(p, k, b)
  PROVE  UNCHANGED <<Visible, Holder>>
  <1>1. Shows /\ Shows'
    BY ShowsIs, PTL
  <1>2. CASE Hit(p, k, b)
    BY <1>2 DEF Gets, Hit, Visible, Holder, BufferOf
  <1>3. CASE ~Cached(k) /\ Recycle(k, b) /\ refcnt[b] = 0
    <2>1. /\ blockno' = [blockno EXCEPT ![b] = k] /\ valid' = [valid EXCEPT ![b] = FALSE]
          /\ UNCHANGED <<data, disk, locked>>
      BY <1>3 DEF Gets, Recycle
    <2>2. locked[b] = None /\ blockno[b] \notin pins
      BY <1>3, UnusedIs
    <2>3. ASSUME NEW l \in Block PROVE Visible'[l] = Visible[l] /\ Holder'[l] = Holder[l]
      <3>1. CASE l = k
        <4>1. Visible[l] = disk[l] /\ Holder[l] = None
          BY <1>1, <1>3, <3>1 DEF Shows
        <4>2. blockno'[b] = l /\ ~valid'[b] /\ locked'[b] = None /\ disk' = disk
          BY <2>1, <2>2, <3>1 DEF CacheInv, Tables
        <4>3. Visible'[l] = disk'[l] /\ Holder'[l] = locked'[b]
          BY <1>1, <4>2 DEF Shows
        <4> QED
          BY <4>1, <4>2, <4>3
      <3>2. CASE l # k /\ l = blockno[b]
        <4>1. Visible[l] = disk[l] /\ Holder[l] = None
          BY <1>1, <2>2, <3>2, CacheSizes DEF Shows, CacheInv, Clean, Saved
        <4>2. \A c \in Buf : blockno'[c] # l
          BY <2>1, <3>2, CacheSizes DEF CacheInv, Tables, Named
        <4>3. Visible'[l] = disk'[l] /\ Holder'[l] = None
          BY <1>1, <4>2 DEF Shows, Cached
        <4> QED
          BY <2>1, <4>1, <4>3
      <3>3. CASE l # k /\ l # blockno[b]
        <4>1. CASE \E c \in Buf : blockno[c] = l
          <5>1. PICK c \in Buf : blockno[c] = l
            BY <4>1
          <5>2. c # b /\ blockno'[c] = l /\ valid'[c] = valid[c]
            BY <2>1, <3>3, <5>1 DEF CacheInv, Tables
          <5>3. Visible[l] = (IF valid[c] THEN data[c] ELSE disk[l]) /\ Holder[l] = locked[c]
            BY <1>1, <5>1 DEF Shows
          <5>4. Visible'[l] = (IF valid'[c] THEN data'[c] ELSE disk'[l]) /\ Holder'[l] = locked'[c]
            BY <1>1, <5>2 DEF Shows
          <5> QED
            BY <2>1, <5>2, <5>3, <5>4
        <4>2. CASE \A c \in Buf : blockno[c] # l
          <5>1. \A c \in Buf : blockno'[c] # l
            BY <2>1, <3>3, <4>2 DEF CacheInv, Tables
          <5>2. Visible[l] = disk[l] /\ Holder[l] = None
            BY <1>1, <4>2 DEF Shows, Cached
          <5>3. Visible'[l] = disk'[l] /\ Holder'[l] = None
            BY <1>1, <5>1 DEF Shows, Cached
          <5> QED
            BY <2>1, <5>2, <5>3
        <4> QED
          BY <4>1, <4>2
      <3> QED
        BY <3>1, <3>2, <3>3
    <2> QED
      BY <2>3, Functions
  <1> QED
    BY <1>2, <1>3 DEF Gets

\* A step at one buffer, which leaves the blocks where they are, changes at most what
\* is seen of that buffer's block.
LEMMA AtOneBuffer ==
  ASSUME CacheInv, CacheInv', blockno' = blockno, NEW b \in Buf,
         \A c \in Buf : c # b /\ blockno[c] \in Block =>
           valid'[c] = valid[c] /\ data'[c] = data[c] /\ disk'[blockno[c]] = disk[blockno[c]] /\ locked'[c] = locked[c],
         \A k \in Block : blockno[b] # k => disk'[k] = disk[k]
  PROVE  \A k \in Block : k # blockno[b] => Visible'[k] = Visible[k] /\ Holder'[k] = Holder[k]
  <1>1. Shows /\ Shows'
    BY ShowsIs, PTL
  <1> TAKE k \in Block
  <1> HAVE k # blockno[b]
  <1>2. CASE \E c \in Buf : blockno[c] = k
    <2>1. PICK c \in Buf : blockno[c] = k
      BY <1>2
    <2>2. Visible[k] = (IF valid[c] THEN data[c] ELSE disk[k]) /\ Holder[k] = locked[c]
      BY <1>1, <2>1 DEF Shows
    <2>3. Visible'[k] = (IF valid'[c] THEN data'[c] ELSE disk'[k]) /\ Holder'[k] = locked'[c]
      BY <1>1, <2>1 DEF Shows
    <2> QED
      BY <2>1, <2>2, <2>3
  <1>3. CASE \A c \in Buf : blockno[c] # k
    <2>1. Visible[k] = disk[k] /\ Holder[k] = None
      BY <1>1, <1>3 DEF Shows, Cached
    <2>2. Visible'[k] = disk'[k] /\ Holder'[k] = None
      BY <1>1, <1>3 DEF Shows, Cached
    <2> QED
      BY <2>1, <2>2
  <1> QED
    BY <1>2, <1>3

\* A sleep lock taken is the lock of a block taken.
LEMMA AcquireIsLock ==
  ASSUME CacheInv, CacheInv', NEW p \in Proc, AcquireSleep(p)
  PROVE  (\E k \in Block : Store!Lock(p, k)) \/ UNCHANGED <<Visible, Holder>>
  <1>1. Shows /\ Shows' /\ UNCHANGED <<blockno, valid, data, disk>>
    <2>1. Shows /\ Shows'
      BY ShowsIs, PTL
    <2>2. UNCHANGED <<blockno, valid, data, disk>>
      BY DEF AcquireSleep, table
    <2> QED
      BY <2>1, <2>2
  <1>2. CASE locked[cur[p]] # None
    BY <1>2 DEF AcquireSleep, table, Visible, Holder, BufferOf
  <1>3. CASE locked[cur[p]] = None
    <2>1. PICK b \in Buf : b = cur[p]
      BY DEF AcquireSleep, CacheInv, Placed
    <2>2. blockno[b] \in Block
      BY <2>1 DEF AcquireSleep, CacheInv, Tables, Named, Users
    <2>3. locked' = [locked EXCEPT ![b] = p] /\ locked[b] = None
      BY <1>3, <2>1 DEF AcquireSleep
    <2>4. Holder[blockno[b]] = None /\ Holder'[blockno[b]] = p /\ Visible'[blockno[b]] = Visible[blockno[b]]
      BY <1>1, <2>2, <2>3 DEF Shows, CacheInv, Tables
    <2>5. \A k \in Block : k # blockno[b] => Visible'[k] = Visible[k] /\ Holder'[k] = Holder[k]
      BY <1>1, <2>3, AtOneBuffer DEF CacheInv, Tables
    <2>6. Visible' = Visible /\ Holder' = [Holder EXCEPT ![blockno[b]] = p]
      BY <2>4, <2>5, Functions
    <2> QED
      BY <2>2, <2>4, <2>6 DEF Store!Lock
  <1> QED
    BY <1>2, <1>3

\* Reading from the disk is invisible.
LEMMA FillStutters ==
  ASSUME CacheInv, CacheInv', NEW p \in Proc, Fill(p)
  PROVE  UNCHANGED <<Visible, Holder>>
  <1>1. Shows /\ Shows' /\ UNCHANGED <<blockno, locked, disk>>
    <2>1. Shows /\ Shows'
      BY ShowsIs, PTL
    <2>2. UNCHANGED <<blockno, locked, disk>>
      BY DEF Fill
    <2> QED
      BY <2>1, <2>2
  <1>2. PICK b \in Buf : b = cur[p] /\ locked[b] = p /\ ~valid[b]
    BY DEF Fill, CacheInv, Placed, Ready
  <1>3. blockno[b] \in Block
    BY <1>2 DEF CacheInv, Tables, Named, Users
  <1>4. data' = [data EXCEPT ![b] = disk[blockno[b]]] /\ valid' = [valid EXCEPT ![b] = TRUE]
    BY <1>2 DEF Fill
  <1>5. Visible'[blockno[b]] = Visible[blockno[b]] /\ Holder'[blockno[b]] = Holder[blockno[b]]
    BY <1>1, <1>2, <1>3, <1>4 DEF Shows, CacheInv, Tables, Stored
  <1>6. \A k \in Block : k # blockno[b] => Visible'[k] = Visible[k] /\ Holder'[k] = Holder[k]
    BY <1>1, <1>4, AtOneBuffer DEF CacheInv, Tables, Stored
  <1> QED
    BY <1>5, <1>6, Functions

\* Who has a buffer has valid contents of a block.
LEMMA HasIs ==
  ASSUME CacheInv, NEW p \in Proc, NEW b \in Buf, Has(p, b)
  PROVE  valid[b] /\ locked[b] = p /\ blockno[b] \in Block
  BY DEF Has, CacheInv, Ready, Tables, Named, Users

\* A change of the buffer is a write.
LEMMA ModifyIsWrite ==
  ASSUME CacheInv, CacheInv', NEW p \in Proc, NEW b \in Buf, NEW v \in Value, Modify(p, b, v)
  PROVE  \E k \in Block : Store!Write(p, k, v)
  <1>1. Shows /\ Shows' /\ UNCHANGED <<blockno, locked, disk, valid>> /\ data' = [data EXCEPT ![b] = v]
    <2>1. Shows /\ Shows'
      BY ShowsIs, PTL
    <2>2. UNCHANGED <<blockno, locked, disk, valid>> /\ data' = [data EXCEPT ![b] = v]
      BY DEF Modify
    <2> QED
      BY <2>1, <2>2
  <1>2. valid[b] /\ locked[b] = p /\ blockno[b] \in Block
    BY HasIs DEF Modify
  <1>3. Holder[blockno[b]] = p /\ Holder'[blockno[b]] = p /\ Visible'[blockno[b]] = v
    BY <1>1, <1>2 DEF Shows, CacheInv, Stored
  <1>4. \A k \in Block : k # blockno[b] => Visible'[k] = Visible[k] /\ Holder'[k] = Holder[k]
    BY <1>1, AtOneBuffer DEF CacheInv, Stored
  <1>5. Visible' = [Visible EXCEPT ![blockno[b]] = v] /\ Holder' = Holder
    BY <1>3, <1>4, Functions
  <1> QED
    BY <1>2, <1>3, <1>5 DEF Store!Write

\* Writing it to the disk is invisible.
LEMMA BwriteStutters ==
  ASSUME CacheInv, CacheInv', NEW p \in Proc, NEW b \in Buf, Bwrite(p, b)
  PROVE  UNCHANGED <<Visible, Holder>>
  <1>1. /\ Shows /\ Shows' /\ UNCHANGED <<blockno, locked, data, valid>>
        /\ disk' = [disk EXCEPT ![blockno[b]] = data[b]]
    <2>1. Shows /\ Shows'
      BY ShowsIs, PTL
    <2>2. /\ UNCHANGED <<blockno, locked, data, valid>>
          /\ disk' = [disk EXCEPT ![blockno[b]] = data[b]]
      BY DEF Bwrite, table
    <2> QED
      BY <2>1, <2>2
  <1>2. valid[b] /\ locked[b] = p /\ blockno[b] \in Block
    BY HasIs DEF Bwrite
  <1>3. Visible'[blockno[b]] = Visible[blockno[b]] /\ Holder'[blockno[b]] = Holder[blockno[b]]
    BY <1>1, <1>2 DEF Shows
  <1>4. \A c \in Buf : c # b /\ blockno[c] \in Block => disk'[blockno[c]] = disk[blockno[c]]
    BY <1>1, <1>2, CacheSizes DEF CacheInv, Named, Stored
  <1>5. \A k \in Block : k # blockno[b] => Visible'[k] = Visible[k] /\ Holder'[k] = Holder[k]
    BY <1>1, <1>4, AtOneBuffer DEF CacheInv, Stored
  <1> QED
    BY <1>3, <1>5, Functions

\* A sleep lock released is the lock of the block released.
LEMMA ReleaseIsUnlock ==
  ASSUME CacheInv, CacheInv', NEW p \in Proc, NEW b \in Buf, ReleaseSleep(p, b)
  PROVE  \E k \in Block : Store!Unlock(p, k)
  <1>1. /\ Shows /\ Shows' /\ UNCHANGED <<blockno, valid, data, disk>>
        /\ locked' = [locked EXCEPT ![b] = None]
    <2>1. Shows /\ Shows'
      BY ShowsIs, PTL
    <2>2. /\ UNCHANGED <<blockno, valid, data, disk>>
          /\ locked' = [locked EXCEPT ![b] = None]
      BY DEF ReleaseSleep, table
    <2> QED
      BY <2>1, <2>2
  <1>2. locked[b] = p /\ blockno[b] \in Block
    BY HasIs DEF ReleaseSleep
  <1>3. Holder[blockno[b]] = p /\ Holder'[blockno[b]] = None /\ Visible'[blockno[b]] = Visible[blockno[b]]
    BY <1>1, <1>2 DEF Shows, CacheInv, Tables
  <1>4. \A k \in Block : k # blockno[b] => Visible'[k] = Visible[k] /\ Holder'[k] = Holder[k]
    BY <1>1, AtOneBuffer DEF CacheInv, Tables
  <1>5. Visible' = Visible /\ Holder' = [Holder EXCEPT ![blockno[b]] = None]
    BY <1>3, <1>4, Functions
  <1> QED
    BY <1>2, <1>3, <1>5 DEF Store!Unlock

\* Whatever is recycled, pinned and written back when, the cache shows its users every
\* block's contents and one holder of each.
THEOREM CacheIsStore == CacheSpec => ImplementsBlockStore
  <1>1. CacheInit => Store!Init
    <2> SUFFICES ASSUME CacheInit PROVE Holder = [k \in Block |-> None] /\ Visible \in [Block -> Value]
      BY DEF Store!Init
    <2>1. \A k \in Block : BufferOf(k) = {}
      BY CacheSizes DEF CacheInit, BufferOf
    <2>2. disk \in [Block -> Value]
      BY DEF CacheInit
    <2> QED
      BY <2>1, <2>2 DEF Holder, Visible
  <1>2. CacheInv /\ CacheInv' /\ [CacheNext]_cacheVars => [Store!Next]_(Store!vars)
    <2> SUFFICES ASSUME CacheInv, CacheInv', [CacheNext]_cacheVars PROVE Store!Next \/ UNCHANGED <<Visible, Holder>>
      BY DEF Store!vars
    <2>1. ASSUME NEW p \in Proc, NEW k \in Block, Bget(p, k) PROVE UNCHANGED <<Visible, Holder>>
      <3>1. CASE Panics(p, k)
        BY <3>1 DEF Panics, table, Visible, Holder, BufferOf
      <3> QED
        BY <2>1, <3>1, BgetIs, GetsStutters
    <2>2. ASSUME NEW p \in Proc, AcquireSleep(p) PROVE Store!Next \/ UNCHANGED <<Visible, Holder>>
      BY <2>2, AcquireIsLock DEF Store!Next
    <2>3. ASSUME NEW p \in Proc, Fill(p) PROVE UNCHANGED <<Visible, Holder>>
      BY <2>3, FillStutters
    <2>4. ASSUME NEW p \in Proc, NEW b \in Buf, NEW v \in Value, Modify(p, b, v) PROVE Store!Next
      BY <2>4, ModifyIsWrite DEF Store!Next
    <2>5. ASSUME NEW p \in Proc, NEW b \in Buf, Bwrite(p, b) PROVE UNCHANGED <<Visible, Holder>>
      BY <2>5, BwriteStutters
    <2>6. ASSUME NEW p \in Proc, NEW b \in Buf, ReleaseSleep(p, b) PROVE Store!Next
      BY <2>6, ReleaseIsUnlock DEF Store!Next
    <2>7. ASSUME UNCHANGED <<blockno, valid, data, locked, disk>> PROVE UNCHANGED <<Visible, Holder>>
      BY <2>7 DEF Visible, Holder, BufferOf
    <2> QED
      BY <2>1, <2>2, <2>3, <2>4, <2>5, <2>6, <2>7 DEF CacheNext, Use, Drop, LogPin, Bunpin, cacheVars, table
  <1> QED
    BY <1>1, <1>2, CacheAlways, PTL DEF CacheSpec, ImplementsBlockStore, Store!Spec
-----------------------------------------------------------------------------
(* The invariant of the log *)

Types ==
  /\ home \in [Block -> 0 .. MaxOps] /\ cache \in [Block -> 0 .. MaxOps]
  /\ logged \in [1 .. LOGSIZE -> 0 .. MaxOps]
  /\ header \in Seq(Block) /\ cached \in SUBSET Block
Controls ==
  /\ committing \in BOOLEAN /\ sleepers \in SUBSET Proc
  /\ at \in {"idle", "writelog", "install", "recover", "done"}
  /\ tail \in 1 .. LOGSIZE + 1 /\ nops \in 0 .. MaxOps /\ crashes \in 0 .. MaxCrashes
OpsTyped ==
  /\ op \in [Proc -> [n : 0 .. MaxOps, left : 0 .. OpBlocks]]
  /\ \A p \in Proc : op[p].n = 0 => op[p] = NoOp
Listed == lh \in Seq(Block) /\ \A s, t \in 1 .. Len(lh) : lh[s] = lh[t] => s = t

\* How far each step of a commit and of recovery has come.
Phases ==
  /\ committing <=> at \in {"writelog", "install", "done"}
  /\ at \in {"idle", "writelog", "done"} => header = <<>>
  /\ at \in {"install", "recover"} => header = lh
  /\ at = "done" => lh = <<>>
  /\ at = "idle" /\ outstanding = 0 => lh = <<>>
  /\ at = "recover" => outstanding = 0
  /\ at \in {"writelog", "install", "recover"} => tail <= Len(lh) + 1

\* What the calls in progress may still log has its place in the log.
Owed == {r \in Proc \X (1 .. MAXOPBLOCKS) :
           op[r[1]] # NoOp /\ r[2] <= op[r[1]].left + (MAXOPBLOCKS - OpBlocks)}
Counted == outstanding = Cardinality(Active) /\ (committing => outstanding = 0)
Room == Len(lh) + Cardinality(Owed) <= LOGSIZE

\* The blocks that are logged and not yet installed are pinned.
From == IF at \in {"idle", "writelog"} THEN 1 ELSE IF at = "install" THEN tail ELSE Len(lh) + 1
Pins == pinned = {lh[t] : t \in From .. Len(lh)}
Coherent == pinned \subseteq cached /\ \A b \in cached \ pinned : cache[b] = home[b]

\* What is copied to the log, and from there.
Copied ==
  /\ at = "writelog" => \A t \in 1 .. tail - 1 : logged[t] = Bread(lh[t])
  /\ at = "install" => \A t \in 1 .. Len(lh) : logged[t] = Bread(lh[t])
  /\ at \in {"install", "recover"} => \A t \in 1 .. tail - 1 : home[lh[t]] = logged[t]

LogInv ==
  /\ Types /\ Controls /\ OpsTyped /\ Listed /\ Phases
  /\ Counted /\ Room /\ Pins /\ Coherent /\ Copied /\ SleepersAreWoken
-----------------------------------------------------------------------------
(* The reservation *)

\* The sizes.
LEMMA LogSizes ==
  /\ MAXOPBLOCKS \in Nat \ {0} /\ LOGSIZE \in Nat \ {0} /\ MAXOPBLOCKS <= LOGSIZE
  /\ nlog \in Nat \ {0} /\ LOGSIZE <= nlog
  /\ OpBlocks \in 0 .. MAXOPBLOCKS /\ (OpBlocks < MAXOPBLOCKS \/ LOGSIZE < nlog)
  /\ IsFiniteSet(Proc) /\ MaxOps \in Nat /\ MaxCrashes \in Nat
  BY LogAssumption DEF LogAssumption

\* What is owed, and who is active, is finite.
LEMMA OwedFinite ==
  /\ IsFiniteSet(Owed) /\ Cardinality(Owed) \in Nat
  /\ IsFiniteSet(Active) /\ Cardinality(Active) \in Nat
  <1>1. IsFiniteSet(Proc) /\ IsFiniteSet(1 .. MAXOPBLOCKS)
    BY LogSizes, FS_Interval
  <1>2. IsFiniteSet(Proc \X (1 .. MAXOPBLOCKS))
    BY <1>1, FS_Product
  <1>3. Owed \in SUBSET (Proc \X (1 .. MAXOPBLOCKS)) /\ Active \in SUBSET Proc
    BY DEF Owed, Active
  <1>4. IsFiniteSet(Owed) /\ IsFiniteSet(Active)
    BY <1>1, <1>2, <1>3, FS_Subset
  <1> QED
    BY <1>4, FS_CardinalityType

\* The log fits in its blocks.
LEMMA Lengths == LogInv => Len(lh) \in Nat /\ Len(lh) <= LOGSIZE
  BY OwedFinite, LenProperties, LogSizes DEF LogInv, Listed, Room

\* A set with two elements has at least two.
LEMMA TwoOf ==
  ASSUME NEW S, IsFiniteSet(S), NEW a \in S, NEW b \in S, a # b
  PROVE  Cardinality(S) >= 2
  <1>1. IsFiniteSet(S \ {a}) /\ Cardinality(S \ {a}) = Cardinality(S) - 1
    BY FS_RemoveElement
  <1>2. b \in S \ {a}
    OBVIOUS
  <1>3. IsFiniteSet((S \ {a}) \ {b}) /\ Cardinality((S \ {a}) \ {b}) = Cardinality(S \ {a}) - 1
    BY <1>1, <1>2, FS_RemoveElement
  <1>4. Cardinality((S \ {a}) \ {b}) \in Nat /\ Cardinality(S) \in Nat
    BY <1>3, FS_CardinalityType
  <1> QED
    BY <1>1, <1>3, <1>4

\* LogWrite without its panic.
Writes(p, b) ==
  /\ at = "idle" /\ op[p] # NoOp /\ op[p].left > 0
  /\ Load(b, op[p].n)
  /\ LogBlock(b)
  /\ op' = [op EXCEPT ![p] = [n |-> op[p].n, left |-> op[p].left - 1]]
  /\ UNCHANGED <<home, logged, header, outstanding, committing, sleepers, at, tail, nops, crashes>>

\* The reservation leaves room for every block a call logs.
LEMMA WritesIs ==
  ASSUME LogInv, NEW p \in Proc, NEW b \in Block, LogWrite(p, b)
  PROVE  Writes(p, b) /\ Len(lh) < LOGSIZE
  <1>1. op[p] # NoOp /\ op[p].left \in 1 .. OpBlocks /\ op[p] = [n |-> op[p].n, left |-> op[p].left]
    BY DEF LogWrite, LogInv, OpsTyped
  <1>2. <<p, 1>> \in Owed
    BY <1>1, LogSizes DEF Owed
  <1>3. Cardinality({<<p, 1>>}) = 1 /\ Cardinality({<<p, 1>>}) <= Cardinality(Owed)
    BY <1>2, OwedFinite, FS_Singleton, FS_Subset
  <1>4. Len(lh) < LOGSIZE
    BY <1>3, OwedFinite, LogSizes DEF LogInv, Room
  <1>5. Len(lh) < nlog - 1
    <2>1. CASE LOGSIZE < nlog
      BY <1>4, <2>1, LogSizes
    <2>2. CASE OpBlocks < MAXOPBLOCKS
      <3>1. <<p, 2>> \in Owed
        BY <1>1, <2>2, LogSizes DEF Owed
      <3>2. <<p, 1>> # <<p, 2>>
        OBVIOUS
      <3>3. Cardinality(Owed) >= 2
        BY <1>2, <3>1, <3>2, OwedFinite, TwoOf
      <3> QED
        BY <3>3, OwedFinite, LogSizes DEF LogInv, Room
    <2> QED
      BY <2>1, <2>2, LogSizes
  <1>6. ~TooBig
    BY <1>4, <1>5, LogSizes DEF TooBig
  <1>7. op' = [op EXCEPT ![p].left = @ - 1]
    BY <1>6 DEF LogWrite
  <1>8. op' = [op EXCEPT ![p] = [n |-> op[p].n, left |-> op[p].left - 1]]
    <2>1. [op[p] EXCEPT !.left = @ - 1] = [n |-> op[p].n, left |-> op[p].left - 1]
      BY <1>1
    <2>2. op' = [op EXCEPT ![p] = [op[p] EXCEPT !.left = @ - 1]]
      BY <1>7
    <2> QED
      BY <2>1, <2>2
  <1> QED
    BY <1>4, <1>6, <1>8 DEF LogWrite, Writes, onDisk

\* Who is between begin_op() and end_op() is counted.
LEMMA CallsAreCounted ==
  LogInv => outstanding \in Nat /\ \A p \in Proc : op[p] # NoOp => outstanding > 0
  <1> SUFFICES ASSUME LogInv PROVE outstanding \in Nat /\ \A p \in Proc : op[p] # NoOp => outstanding > 0
    OBVIOUS
  <1>1. outstanding = Cardinality(Active) /\ outstanding \in Nat
    BY OwedFinite DEF LogInv, Counted
  <1>2. ASSUME NEW p \in Proc, op[p] # NoOp PROVE Active # {}
    BY <1>2 DEF Active
  <1>3. Active # {} => outstanding # 0
    BY <1>1, OwedFinite, FS_EmptySet
  <1> QED
    BY <1>1, <1>2, <1>3

\* The header on the disk is empty, or the one in memory.
LEMMA HeaderIs == LogInv => header = <<>> \/ header = lh
  BY DEF LogInv, Phases, Controls

-----------------------------------------------------------------------------
(* The invariant is one *)

\* It holds at the start.
LEMMA LogInitially == LogInit => LogInv
  <1> SUFFICES ASSUME LogInit PROVE LogInv
    OBVIOUS
  <1>1. Types /\ Controls /\ OpsTyped
    <2>1. 0 \in 0 .. MaxOps /\ 0 \in 0 .. MaxCrashes /\ 0 \in 0 .. OpBlocks /\ 1 \in 1 .. LOGSIZE + 1
      BY LogSizes
    <2>2. Types
      BY <2>1 DEF LogInit, Types
    <2>3. Controls
      BY <2>1 DEF LogInit, Controls
    <2>4. OpsTyped
      BY <2>1 DEF LogInit, OpsTyped, NoOp
    <2> QED
      BY <2>2, <2>3, <2>4
  <1>2. Listed /\ Phases /\ Len(lh) = 0
    BY DEF LogInit, Listed, Phases
  <1>3. Active = {} /\ Owed = {}
    BY DEF LogInit, Active, Owed
  <1>4. Counted /\ Room
    BY <1>2, <1>3, FS_EmptySet, LogSizes DEF LogInit, Counted, Room
  <1>5. Pins /\ Coherent /\ Copied /\ SleepersAreWoken
    BY <1>2 DEF LogInit, Pins, From, Coherent, Copied, SleepersAreWoken
  <1> QED
    BY <1>1, <1>2, <1>4, <1>5 DEF LogInv

\* What is on the disk and in the cache keeps its type, ...
LEMMA TypesKept ==
  ASSUME LogInv, [LogNext]_logVars
  PROVE  Types'
  <1>1. ASSUME NEW p \in Proc, Begin(p) PROVE Types'
    BY <1>1 DEF Begin, LogInv, Types, OpsTyped, onDisk, memory
  <1>2. ASSUME NEW p \in Proc, NEW b \in Block, Writes(p, b) PROVE Types'
    BY <1>2 DEF Writes, Load, LogInv, Types, OpsTyped
  <1>3. ASSUME NEW p \in Proc, EndOp(p) PROVE Types'
    BY <1>3 DEF EndOp, LogInv, Types, OpsTyped, onDisk, memory
  <1>4. ASSUME WriteLog PROVE Types'
    <2>1. tail \in 1 .. Len(lh) /\ lh[tail] \in Block /\ tail \in 1 .. LOGSIZE
      BY <1>4, Lengths, LogSizes DEF WriteLog, LogInv, Controls, Listed
    <2>2. Bread(lh[tail]) \in 0 .. MaxOps
      BY <2>1 DEF LogInv, Types, Bread
    <2>3. UNCHANGED <<home, header>> /\ cached' = cached \cup {lh[tail]}
      BY <1>4 DEF WriteLog, Load
    <2>4. logged' = [logged EXCEPT ![tail] = Bread(lh[tail])] /\ cache' = [cache EXCEPT ![lh[tail]] = Bread(lh[tail])]
      BY <1>4 DEF WriteLog, Load
    <2> QED
      BY <2>1, <2>2, <2>3, <2>4 DEF LogInv, Types
  <1>5. ASSUME WriteHead PROVE Types'
    BY <1>5 DEF WriteHead, LogInv, Types, Listed, OpsTyped, memory
  <1>6. ASSUME InstallTrans PROVE Types'
    <2>1. tail \in 1 .. Len(lh) /\ lh[tail] \in Block /\ tail \in 1 .. LOGSIZE
      BY <1>6, Lengths, LogSizes DEF InstallTrans, LogInv, Controls, Listed
    <2>2. logged[tail] \in 0 .. MaxOps
      BY <2>1 DEF LogInv, Types
    <2>3. UNCHANGED <<logged, header>> /\ cached' = cached \cup {lh[tail]}
      BY <1>6 DEF InstallTrans, Load
    <2>4. home' = [home EXCEPT ![lh[tail]] = logged[tail]] /\ cache' = [cache EXCEPT ![lh[tail]] = logged[tail]]
      BY <1>6 DEF InstallTrans, Load
    <2> QED
      BY <2>1, <2>2, <2>3, <2>4 DEF LogInv, Types
  <1>7. ASSUME ClearHead PROVE Types'
    BY <1>7 DEF ClearHead, LogInv, Types, OpsTyped, memory
  <1>8. ASSUME Committed PROVE Types'
    BY <1>8 DEF Committed, LogInv, Types, OpsTyped, onDisk, memory
  <1>9. ASSUME NEW b \in Block, Evict(b) PROVE Types'
    BY <1>9, LogSizes DEF Evict, LogInv, Types, OpsTyped, onDisk, log
  <1>10. ASSUME Crash PROVE Types'
    BY <1>10, LogSizes DEF Crash, LogInv, Types, OpsTyped, onDisk
  <1>11. ASSUME UNCHANGED logVars PROVE Types'
    BY <1>11 DEF logVars, LogInv, Types, OpsTyped
  <1> QED
    BY <1>1, <1>2, <1>3, <1>4, <1>5, <1>6, <1>7, <1>8, <1>9, <1>10, <1>11, WritesIs
    DEF LogNext, SystemCall, Commit

\* ... the commit its place, ...
LEMMA ControlsKept ==
  ASSUME LogInv, [LogNext]_logVars
  PROVE  Controls'
  <1>1. ASSUME NEW p \in Proc, Begin(p) PROVE Controls'
    BY <1>1, LogSizes DEF Begin, LogInv, Controls
  <1>2. ASSUME NEW p \in Proc, NEW b \in Block, Writes(p, b) PROVE Controls'
    BY <1>2 DEF Writes, LogInv, Controls
  <1>3. ASSUME NEW p \in Proc, EndOp(p) PROVE Controls'
    <2>1. at' \in {"idle", "writelog", "done"} /\ committing' \in BOOLEAN
      BY <1>3 DEF EndOp, LogInv, Controls
    <2>2. sleepers' \in SUBSET Proc
      BY <1>3 DEF EndOp, LogInv, Controls
    <2>3. tail' = 1 /\ 1 \in 1 .. LOGSIZE + 1 /\ UNCHANGED <<nops, crashes>>
      BY <1>3, LogSizes DEF EndOp
    <2> QED
      BY <2>1, <2>2, <2>3 DEF LogInv, Controls
  <1>4. ASSUME WriteLog PROVE Controls'
    BY <1>4, LogSizes, Lengths DEF WriteLog, LogInv, Controls, log
  <1>5. ASSUME WriteHead PROVE Controls'
    BY <1>5, LogSizes DEF WriteHead, LogInv, Controls, log
  <1>6. ASSUME InstallTrans PROVE Controls'
    BY <1>6, LogSizes, Lengths DEF InstallTrans, LogInv, Controls, log
  <1>7. ASSUME ClearHead PROVE Controls'
    BY <1>7 DEF ClearHead, LogInv, Controls
  <1>8. ASSUME Committed PROVE Controls'
    BY <1>8 DEF Committed, LogInv, Controls
  <1>9. ASSUME NEW b \in Block, Evict(b) PROVE Controls'
    BY <1>9 DEF Evict, LogInv, Controls, log
  <1>10. ASSUME Crash PROVE Controls'
    <2>1. crashes' \in 0 .. MaxCrashes /\ 1 \in 1 .. LOGSIZE + 1
      BY <1>10, LogSizes DEF Crash, LogInv, Controls
    <2> QED
      BY <1>10, <2>1 DEF Crash, LogInv, Controls
  <1>11. ASSUME UNCHANGED logVars PROVE Controls'
    BY <1>11 DEF logVars, LogInv, Controls
  <1> QED
    BY <1>1, <1>2, <1>3, <1>4, <1>5, <1>6, <1>7, <1>8, <1>9, <1>10, <1>11, WritesIs
    DEF LogNext, SystemCall, Commit

\* ... and the system calls theirs.
LEMMA CallsKept ==
  ASSUME LogInv, [LogNext]_logVars
  PROVE  OpsTyped'
  <1>1. ASSUME NEW p \in Proc, Begin(p) PROVE OpsTyped'
    BY <1>1, LogSizes DEF Begin, LogInv, OpsTyped, Controls
  <1>2. ASSUME NEW p \in Proc, NEW b \in Block, Writes(p, b) PROVE OpsTyped'
    BY <1>2, LogSizes DEF Writes, LogInv, OpsTyped
  <1>3. ASSUME NEW p \in Proc, EndOp(p) PROVE OpsTyped'
    BY <1>3, LogSizes DEF EndOp, LogInv, OpsTyped, NoOp
  <1>4. ASSUME WriteLog PROVE OpsTyped'
    BY <1>4 DEF WriteLog, LogInv, OpsTyped
  <1>5. ASSUME WriteHead PROVE OpsTyped'
    BY <1>5 DEF WriteHead, LogInv, OpsTyped
  <1>6. ASSUME InstallTrans PROVE OpsTyped'
    BY <1>6 DEF InstallTrans, LogInv, OpsTyped
  <1>7. ASSUME ClearHead PROVE OpsTyped'
    BY <1>7 DEF ClearHead, LogInv, OpsTyped
  <1>8. ASSUME Committed PROVE OpsTyped'
    BY <1>8 DEF Committed, LogInv, OpsTyped
  <1>9. ASSUME NEW b \in Block, Evict(b) PROVE OpsTyped'
    BY <1>9 DEF Evict, LogInv, OpsTyped
  <1>10. ASSUME Crash PROVE OpsTyped'
    BY <1>10, LogSizes DEF Crash, LogInv, OpsTyped, NoOp
  <1>11. ASSUME UNCHANGED logVars PROVE OpsTyped'
    BY <1>11 DEF logVars, LogInv, OpsTyped
  <1> QED
    BY <1>1, <1>2, <1>3, <1>4, <1>5, <1>6, <1>7, <1>8, <1>9, <1>10, <1>11, WritesIs
    DEF LogNext, SystemCall, Commit

\* A block is logged once.
LEMMA ListedKept ==
  ASSUME LogInv, [LogNext]_logVars
  PROVE  Listed'
  <1>1. ASSUME NEW p \in Proc, Begin(p) PROVE Listed'
    BY <1>1 DEF Begin, LogInv, Listed
  <1>2. ASSUME NEW p \in Proc, NEW b \in Block, Writes(p, b) PROVE Listed'
    <2>1. CASE lh' = lh
      BY <2>1 DEF LogInv, Listed
    <2>2. CASE ~Contains(lh, b) /\ lh' = Append(lh, b)
      <3>1. lh' \in Seq(Block) /\ Len(lh') = Len(lh) + 1 /\ lh'[Len(lh) + 1] = b
            /\ \A t \in 1 .. Len(lh) : lh'[t] = lh[t]
        BY <2>2, AppendProperties DEF LogInv, Listed
      <3>2. \A t \in 1 .. Len(lh) : lh[t] # b
        BY <2>2 DEF Contains
      <3>3. ASSUME NEW u \in 1 .. Len(lh'), NEW t \in 1 .. Len(lh'), lh'[u] = lh'[t] PROVE u = t
        <4>1. u \in 1 .. Len(lh) \/ u = Len(lh) + 1
          BY <3>1
        <4>2. t \in 1 .. Len(lh) \/ t = Len(lh) + 1
          BY <3>1
        <4> QED
          BY <3>1, <3>2, <3>3, <4>1, <4>2 DEF LogInv, Listed
      <3> QED
        BY <3>1, <3>3 DEF Listed
    <2> QED
      BY <1>2, <2>1, <2>2 DEF Writes, LogBlock
  <1>3. ASSUME NEW p \in Proc, EndOp(p) PROVE Listed'
    BY <1>3 DEF EndOp, LogInv, Listed
  <1>4. ASSUME WriteLog PROVE Listed'
    BY <1>4 DEF WriteLog, LogInv, Listed, log
  <1>5. ASSUME WriteHead PROVE Listed'
    BY <1>5 DEF WriteHead, LogInv, Listed, log
  <1>6. ASSUME InstallTrans PROVE Listed'
    BY <1>6 DEF InstallTrans, LogInv, Listed, log
  <1>7. ASSUME ClearHead PROVE Listed'
    BY <1>7 DEF ClearHead, LogInv, Listed
  <1>8. ASSUME Committed PROVE Listed'
    BY <1>8 DEF Committed, LogInv, Listed
  <1>9. ASSUME NEW b \in Block, Evict(b) PROVE Listed'
    BY <1>9 DEF Evict, LogInv, Listed, log
  <1>10. ASSUME Crash PROVE Listed'
    <2>1. CASE lh' = <<>>
      BY <2>1 DEF Listed
    <2>2. CASE lh' = lh
      BY <2>2 DEF LogInv, Listed
    <2> QED
      BY <1>10, <2>1, <2>2, HeaderIs DEF Crash
  <1>11. ASSUME UNCHANGED logVars PROVE Listed'
    BY <1>11 DEF logVars, LogInv, Listed
  <1> QED
    BY <1>1, <1>2, <1>3, <1>4, <1>5, <1>6, <1>7, <1>8, <1>9, <1>10, <1>11, WritesIs
    DEF LogNext, SystemCall, Commit

\* The header is on the disk from the moment of the commit to the end of the installation.
LEMMA PhasesKept ==
  ASSUME LogInv, [LogNext]_logVars
  PROVE  Phases'
  <1>1. ASSUME NEW p \in Proc, Begin(p) PROVE Phases'
    <2>1. UNCHANGED <<committing, at, header, lh, tail>> /\ outstanding' \in {outstanding, outstanding + 1}
      BY <1>1 DEF Begin, onDisk
    <2>2. outstanding' = 0 => outstanding = 0
      BY <2>1, CallsAreCounted
    <2>3. at = "recover" => outstanding' = outstanding
      BY <1>1 DEF Begin, LogInv, Phases
    <2> QED
      BY <2>1, <2>2, <2>3 DEF LogInv, Phases
  <1>2. ASSUME NEW p \in Proc, NEW b \in Block, Writes(p, b) PROVE Phases'
    <2>1. at = "idle" /\ UNCHANGED <<committing, at, header, outstanding>> /\ outstanding # 0
      BY <1>2, CallsAreCounted DEF Writes
    <2> QED
      BY <2>1 DEF LogInv, Phases
  <1>3. ASSUME NEW p \in Proc, EndOp(p) PROVE Phases'
    BY <1>3 DEF EndOp, LogInv, Phases, onDisk
  <1>4. ASSUME WriteLog PROVE Phases'
    BY <1>4 DEF WriteLog, LogInv, Phases, Controls, log
  <1>5. ASSUME WriteHead PROVE Phases'
    BY <1>5 DEF WriteHead, LogInv, Phases, log
  <1>6. ASSUME InstallTrans PROVE Phases'
    BY <1>6 DEF InstallTrans, LogInv, Phases, Controls, log
  <1>7. ASSUME ClearHead PROVE Phases'
    BY <1>7 DEF ClearHead, LogInv, Phases
  <1>8. ASSUME Committed PROVE Phases'
    BY <1>8 DEF Committed, LogInv, Phases, onDisk
  <1>9. ASSUME NEW b \in Block, Evict(b) PROVE Phases'
    BY <1>9 DEF Evict, LogInv, Phases, onDisk, log
  <1>10. ASSUME Crash PROVE Phases'
    BY <1>10 DEF Crash, LogInv, Phases, onDisk
  <1>11. ASSUME UNCHANGED logVars PROVE Phases'
    BY <1>11 DEF logVars, LogInv, Phases
  <1> QED
    BY <1>1, <1>2, <1>3, <1>4, <1>5, <1>6, <1>7, <1>8, <1>9, <1>10, <1>11, WritesIs
    DEF LogNext, SystemCall, Commit

\* Who sleeps in begin_op() is woken.
LEMMA SleepersAreWokenKept ==
  ASSUME LogInv, [LogNext]_logVars
  PROVE  SleepersAreWoken'
  <1>1. ASSUME NEW p \in Proc, Begin(p) PROVE SleepersAreWoken'
    <2>1. UNCHANGED committing /\ outstanding' \in {outstanding, outstanding + 1}
      BY <1>1 DEF Begin
    <2>2. CASE outstanding > 0
      BY <2>1, <2>2, CallsAreCounted DEF SleepersAreWoken
    <2>3. CASE committing
      BY <2>1, <2>3 DEF SleepersAreWoken
    <2>4. CASE ~committing /\ outstanding = 0
      <3>1. lh = <<>>
        BY <1>1, <2>4 DEF Begin, LogInv, Phases
      <3>2. CanBegin
        BY <2>4, <3>1, LogSizes DEF CanBegin
      <3> QED
        BY <1>1, <2>4, <3>2 DEF Begin, SleepersAreWoken
    <2> QED
      BY <2>2, <2>3, <2>4, CallsAreCounted
  <1>2. ASSUME NEW p \in Proc, NEW b \in Block, Writes(p, b) PROVE SleepersAreWoken'
    BY <1>2 DEF Writes, LogInv, SleepersAreWoken
  <1>3. ASSUME NEW p \in Proc, EndOp(p) PROVE SleepersAreWoken'
    BY <1>3 DEF EndOp, LogInv, SleepersAreWoken
  <1>4. ASSUME WriteLog PROVE SleepersAreWoken'
    BY <1>4 DEF WriteLog, LogInv, SleepersAreWoken, log
  <1>5. ASSUME WriteHead PROVE SleepersAreWoken'
    BY <1>5 DEF WriteHead, LogInv, SleepersAreWoken, log
  <1>6. ASSUME InstallTrans PROVE SleepersAreWoken'
    BY <1>6 DEF InstallTrans, LogInv, SleepersAreWoken, log
  <1>7. ASSUME ClearHead PROVE SleepersAreWoken'
    BY <1>7 DEF ClearHead, LogInv, SleepersAreWoken
  <1>8. ASSUME Committed PROVE SleepersAreWoken'
    BY <1>8 DEF Committed, LogInv, SleepersAreWoken
  <1>9. ASSUME NEW b \in Block, Evict(b) PROVE SleepersAreWoken'
    BY <1>9 DEF Evict, LogInv, SleepersAreWoken, log
  <1>10. ASSUME Crash PROVE SleepersAreWoken'
    BY <1>10 DEF Crash, LogInv, SleepersAreWoken
  <1>11. ASSUME UNCHANGED logVars PROVE SleepersAreWoken'
    BY <1>11 DEF logVars, LogInv, SleepersAreWoken
  <1> QED
    BY <1>1, <1>2, <1>3, <1>4, <1>5, <1>6, <1>7, <1>8, <1>9, <1>10, <1>11, WritesIs
    DEF LogNext, SystemCall, Commit

\* Who is in a system call.
LEMMA ActiveIs ==
  ASSUME LogInv, NEW p \in Proc
  PROVE  /\ Begin(p) => \/ Active' = Active \cup {p} /\ p \notin Active /\ CanBegin /\ outstanding' = outstanding + 1
                        \/ op' = op /\ outstanding' = outstanding
         /\ \A b \in Block : Writes(p, b) => Active' = Active
         /\ EndOp(p) => Active' = Active \ {p} /\ p \in Active
  <1>1. ASSUME Begin(p), CanBegin PROVE Active' = Active \cup {p} /\ p \notin Active
    <2>1. op' = [op EXCEPT ![p] = [n |-> nops + 1, left |-> OpBlocks]] /\ op[p] = NoOp
      BY <1>1 DEF Begin
    <2>2. [n |-> nops + 1, left |-> OpBlocks] # NoOp
      BY DEF NoOp, LogInv, Controls
    <2> QED
      BY <2>1, <2>2 DEF Active, LogInv, OpsTyped
  <1>2. ASSUME NEW b \in Block, Writes(p, b) PROVE Active' = Active
    <2>1. op' = [op EXCEPT ![p] = [n |-> op[p].n, left |-> op[p].left - 1]] /\ op[p] # NoOp
      BY <1>2 DEF Writes
    <2>2. [n |-> op[p].n, left |-> op[p].left - 1] # NoOp
      BY <2>1 DEF NoOp, LogInv, OpsTyped
    <2> QED
      BY <2>1, <2>2 DEF Active, LogInv, OpsTyped
  <1>3. ASSUME EndOp(p) PROVE Active' = Active \ {p} /\ p \in Active
    BY <1>3 DEF EndOp, Active, LogInv, OpsTyped
  <1> QED
    BY <1>1, <1>2, <1>3 DEF Begin

\* log.outstanding is their number, and a commit has none.
LEMMA CountedKept ==
  ASSUME LogInv, [LogNext]_logVars
  PROVE  Counted'
  <1>1. ASSUME NEW p \in Proc, Begin(p) PROVE Counted'
    <2>1. committing' = committing
      BY <1>1 DEF Begin
    <2>2. CASE Active' = Active \cup {p} /\ p \notin Active /\ CanBegin /\ outstanding' = outstanding + 1
      <3>1. Cardinality(Active') = Cardinality(Active) + 1
        BY <2>2, OwedFinite, FS_AddElement
      <3> QED
        BY <2>1, <2>2, <3>1 DEF LogInv, Counted, CanBegin
    <2>3. CASE op' = op /\ outstanding' = outstanding
      BY <2>1, <2>3 DEF LogInv, Counted, Active
    <2> QED
      BY <1>1, <2>2, <2>3, ActiveIs
  <1>2. ASSUME NEW p \in Proc, NEW b \in Block, Writes(p, b) PROVE Counted'
    <2>1. Active' = Active /\ UNCHANGED <<outstanding, committing>>
      BY <1>2, ActiveIs DEF Writes
    <2> QED
      BY <2>1 DEF LogInv, Counted
  <1>3. ASSUME NEW p \in Proc, EndOp(p) PROVE Counted'
    <2>1. Cardinality(Active') = Cardinality(Active) - 1
      BY <1>3, ActiveIs, OwedFinite, FS_RemoveElement
    <2>2. outstanding' = outstanding - 1 /\ (committing' => outstanding = 1 \/ committing)
      BY <1>3 DEF EndOp
    <2>3. ~committing
      BY <1>3 DEF EndOp, LogInv, Phases
    <2> QED
      BY <2>1, <2>2, <2>3 DEF LogInv, Counted
  <1>4. ASSUME WriteLog PROVE Counted'
    BY <1>4 DEF WriteLog, LogInv, Counted, Active, log
  <1>5. ASSUME WriteHead PROVE Counted'
    BY <1>5 DEF WriteHead, LogInv, Counted, Active, log
  <1>6. ASSUME InstallTrans PROVE Counted'
    BY <1>6 DEF InstallTrans, LogInv, Counted, Active, log
  <1>7. ASSUME ClearHead PROVE Counted'
    BY <1>7 DEF ClearHead, LogInv, Counted, Active
  <1>8. ASSUME Committed PROVE Counted'
    BY <1>8 DEF Committed, LogInv, Counted, Active
  <1>9. ASSUME NEW b \in Block, Evict(b) PROVE Counted'
    BY <1>9 DEF Evict, LogInv, Counted, Active, log
  <1>10. ASSUME Crash PROVE Counted'
    <2>1. Active' = {}
      BY <1>10 DEF Crash, Active
    <2> QED
      BY <1>10, <2>1, FS_EmptySet DEF Crash, Counted
  <1>11. ASSUME UNCHANGED logVars PROVE Counted'
    BY <1>11 DEF logVars, LogInv, Counted, Active
  <1> QED
    BY <1>1, <1>2, <1>3, <1>4, <1>5, <1>6, <1>7, <1>8, <1>9, <1>10, <1>11, WritesIs
    DEF LogNext, SystemCall, Commit

\* There is room in the log for what the calls may still log.
LEMMA RoomKept ==
  ASSUME LogInv, [LogNext]_logVars
  PROVE  Room'
  <1>1. ASSUME NEW p \in Proc, Begin(p) PROVE Room'
    <2>1. lh' = lh
      BY <1>1 DEF Begin
    <2>2. CASE op' = op
      BY <2>1, <2>2 DEF LogInv, Room, Owed
    <2>3. CASE Active' = Active \cup {p} /\ p \notin Active /\ CanBegin
      <3>1. Cardinality(Active') = outstanding + 1 /\ IsFiniteSet(Active')
        BY <2>3, OwedFinite, FS_AddElement DEF LogInv, Counted
      <3>2. IsFiniteSet(1 .. MAXOPBLOCKS) /\ Cardinality(1 .. MAXOPBLOCKS) = MAXOPBLOCKS
        BY LogSizes, FS_Interval
      <3>3. /\ IsFiniteSet(Active' \X (1 .. MAXOPBLOCKS))
            /\ Cardinality(Active' \X (1 .. MAXOPBLOCKS)) = (outstanding + 1) * MAXOPBLOCKS
        BY <3>1, <3>2, FS_Product
      <3>4. Owed' \in SUBSET (Active' \X (1 .. MAXOPBLOCKS))
        BY DEF Owed, Active
      <3>5. Cardinality(Owed') <= (outstanding + 1) * MAXOPBLOCKS
        BY <3>3, <3>4, FS_Subset
      <3>6. Cardinality(Owed') \in Nat /\ (outstanding + 1) * MAXOPBLOCKS \in Nat
        <4>1. IsFiniteSet(Owed')
          BY <3>3, <3>4, FS_Subset
        <4> QED
          BY <3>3, <4>1, FS_CardinalityType
      <3>7. Len(lh) + (outstanding + 1) * MAXOPBLOCKS <= LOGSIZE
        BY <2>3 DEF CanBegin
      <3>8. Len(lh) + Cardinality(Owed') <= LOGSIZE
        BY <3>5, <3>6, <3>7, LogSizes
      <3> QED
        BY <2>1, <3>8 DEF Room
    <2> QED
      BY <1>1, <2>2, <2>3, ActiveIs
  <1>2. ASSUME NEW p \in Proc, NEW b \in Block, Writes(p, b) PROVE Room'
    <2> DEFINE r == <<p, op[p].left + (MAXOPBLOCKS - OpBlocks)>>
    <2>1. /\ op' = [op EXCEPT ![p] = [n |-> op[p].n, left |-> op[p].left - 1]]
          /\ op[p] # NoOp /\ op[p].left > 0
      BY <1>2 DEF Writes
    <2>2. op[p].left \in 1 .. OpBlocks
      BY <2>1 DEF LogInv, OpsTyped
    <2>3. r \in Owed /\ r[1] = p /\ r[2] = op[p].left + (MAXOPBLOCKS - OpBlocks)
      BY <2>1, <2>2, LogSizes DEF Owed
    <2>4. Owed' \subseteq Owed \ {r}
      <3>1. ASSUME NEW x \in Owed' PROVE x \in Owed /\ x # r
        <4>1. x \in Proc \X (1 .. MAXOPBLOCKS) /\ op'[x[1]] # NoOp /\ x[2] <= op'[x[1]].left + (MAXOPBLOCKS - OpBlocks)
          BY DEF Owed
        <4>2. CASE x[1] = p
          <5>1. op'[p].left = op[p].left - 1
            BY <2>1 DEF LogInv, OpsTyped
          <5>2. x[2] <= op[p].left - 1 + (MAXOPBLOCKS - OpBlocks)
            BY <4>1, <4>2, <5>1
          <5>3. x[2] \in 1 .. MAXOPBLOCKS
            BY <4>1
          <5> QED
            BY <2>1, <2>2, <2>3, <4>1, <4>2, <5>2, <5>3, LogSizes DEF Owed
        <4>3. CASE x[1] # p
          <5>1. op'[x[1]] = op[x[1]]
            BY <2>1, <4>1, <4>3 DEF LogInv, OpsTyped
          <5> QED
            BY <2>3, <4>1, <4>3, <5>1 DEF Owed
        <4> QED
          BY <4>2, <4>3
      <3> QED
        BY <3>1
    <2>5. IsFiniteSet(Owed \ {r}) /\ Cardinality(Owed \ {r}) = Cardinality(Owed) - 1
      BY <2>3, OwedFinite, FS_RemoveElement
    <2>6. Cardinality(Owed') <= Cardinality(Owed) - 1 /\ Cardinality(Owed') \in Nat
      <3>1. IsFiniteSet(Owed')
        BY <2>4, <2>5, FS_Subset
      <3> QED
        BY <2>4, <2>5, <3>1, FS_Subset, FS_CardinalityType
    <2>7. Len(lh') <= Len(lh) + 1 /\ Len(lh') \in Nat
      <3>1. lh' = lh \/ lh' = Append(lh, b)
        BY <1>2 DEF Writes, LogBlock
      <3> QED
        BY <3>1, AppendProperties DEF LogInv
    <2> QED
      BY <2>6, <2>7, OwedFinite, LogSizes DEF LogInv, Room
  <1>3. ASSUME NEW p \in Proc, EndOp(p) PROVE Room'
    <2>1. Owed' \subseteq Owed /\ lh' = lh
      <3>1. op' = [op EXCEPT ![p] = NoOp] /\ lh' = lh
        BY <1>3 DEF EndOp
      <3> QED
        BY <3>1 DEF Owed, LogInv, OpsTyped
    <2>2. Cardinality(Owed') <= Cardinality(Owed) /\ Cardinality(Owed') \in Nat
      <3>1. IsFiniteSet(Owed')
        BY <2>1, OwedFinite, FS_Subset
      <3> QED
        BY <2>1, <3>1, OwedFinite, FS_Subset, FS_CardinalityType
    <2> QED
      BY <2>1, <2>2, OwedFinite, LogSizes DEF LogInv, Room
  <1>4. ASSUME WriteLog PROVE Room'
    <2>1. op' = op /\ lh' = lh
      BY <1>4 DEF WriteLog, log
    <2> QED
      BY <2>1 DEF LogInv, Room, Owed
  <1>5. ASSUME WriteHead PROVE Room'
    <2>1. op' = op /\ lh' = lh
      BY <1>5 DEF WriteHead, log
    <2> QED
      BY <2>1 DEF LogInv, Room, Owed
  <1>6. ASSUME InstallTrans PROVE Room'
    <2>1. op' = op /\ lh' = lh
      BY <1>6 DEF InstallTrans, log
    <2> QED
      BY <2>1 DEF LogInv, Room, Owed
  <1>7. ASSUME ClearHead PROVE Room'
    <2>1. Owed' = Owed /\ Len(lh') = 0
      BY <1>7 DEF ClearHead, Owed
    <2> QED
      BY <2>1, OwedFinite, LogSizes DEF LogInv, Room
  <1>8. ASSUME Committed PROVE Room'
    <2>1. op' = op /\ lh' = lh
      BY <1>8 DEF Committed
    <2> QED
      BY <2>1 DEF LogInv, Room, Owed
  <1>9. ASSUME NEW b \in Block, Evict(b) PROVE Room'
    <2>1. op' = op /\ lh' = lh
      BY <1>9 DEF Evict, log
    <2> QED
      BY <2>1 DEF LogInv, Room, Owed
  <1>10. ASSUME Crash PROVE Room'
    <2>1. Owed' = {}
      BY <1>10 DEF Crash, Owed
    <2>2. Len(lh') \in 0 .. LOGSIZE
      BY <1>10, HeaderIs, Lengths, LogSizes DEF Crash
    <2> QED
      BY <2>1, <2>2, FS_EmptySet DEF Room
  <1>11. ASSUME UNCHANGED logVars PROVE Room'
    BY <1>11 DEF logVars, LogInv, Room, Owed
  <1> QED
    BY <1>1, <1>2, <1>3, <1>4, <1>5, <1>6, <1>7, <1>8, <1>9, <1>10, <1>11, WritesIs
    DEF LogNext, SystemCall, Commit

\* What is logged and not yet installed is pinned.
LEMMA PinsKept ==
  ASSUME LogInv, [LogNext]_logVars
  PROVE  Pins'
  <1>1. ASSUME NEW p \in Proc, Begin(p) PROVE Pins'
    <2>1. UNCHANGED <<pinned, lh, at, tail>>
      BY <1>1 DEF Begin, memory
    <2> QED
      BY <2>1 DEF LogInv, Pins, From, Coherent
  <1>2. ASSUME NEW p \in Proc, NEW b \in Block, Writes(p, b) PROVE Pins'
    <2>1. at = "idle" /\ at' = "idle" /\ From = 1 /\ From' = 1
      BY <1>2 DEF Writes, From
    <2>2. CASE UNCHANGED <<lh, pinned>>
      BY <2>1, <2>2 DEF LogInv, Pins
    <2>3. CASE lh' = Append(lh, b) /\ pinned' = pinned \cup {b}
      <3>1. Len(lh') = Len(lh) + 1 /\ lh'[Len(lh) + 1] = b /\ \A t \in 1 .. Len(lh) : lh'[t] = lh[t]
        BY <2>3, AppendProperties DEF LogInv
      <3>2. 1 .. Len(lh') = (1 .. Len(lh)) \cup {Len(lh) + 1}
        BY <3>1
      <3> QED
        BY <2>1, <2>3, <3>1, <3>2 DEF LogInv, Pins
    <2> QED
      BY <1>2, <2>2, <2>3 DEF Writes, LogBlock
  <1>3. ASSUME NEW p \in Proc, EndOp(p) PROVE Pins'
    <2>1. pinned' = pinned /\ lh' = lh /\ From = 1
      BY <1>3 DEF EndOp, memory, From
    <2>2. From' = 1
      BY <1>3 DEF EndOp, From
    <2> QED
      BY <2>1, <2>2 DEF LogInv, Pins
  <1>4. ASSUME WriteLog PROVE Pins'
    <2>1. UNCHANGED <<pinned, lh, at>>
      BY <1>4 DEF WriteLog, log
    <2> QED
      BY <1>4, <2>1 DEF WriteLog, LogInv, Pins, From
  <1>5. ASSUME WriteHead PROVE Pins'
    BY <1>5 DEF WriteHead, LogInv, Pins, From, memory, log
  <1>6. ASSUME InstallTrans PROVE Pins'
    <2>1. tail \in 1 .. Len(lh) /\ lh' = lh /\ at' = at /\ tail' = tail + 1 /\ pinned' = pinned \ {lh[tail]}
      BY <1>6 DEF InstallTrans, log, LogInv, Controls
    <2>2. CASE at = "install"
      <3>1. From = tail /\ From' = tail + 1
        BY <2>1, <2>2 DEF From
      <3>2. \A t \in tail .. Len(lh) : t = tail \/ (t \in tail + 1 .. Len(lh) /\ lh[t] # lh[tail])
        BY <2>1 DEF LogInv, Listed
      <3>3. tail + 1 .. Len(lh) \subseteq tail .. Len(lh) /\ tail \notin tail + 1 .. Len(lh)
        BY <2>1
      <3> QED
        BY <2>1, <3>1, <3>2, <3>3 DEF LogInv, Pins
    <2>3. CASE at = "recover"
      BY <2>1, <2>3 DEF LogInv, Pins, From
    <2> QED
      BY <1>6, <2>2, <2>3 DEF InstallTrans
  <1>7. ASSUME ClearHead PROVE Pins'
    <2>1. pinned' = pinned /\ lh' = <<>> /\ Len(lh') = 0 /\ tail > Len(lh)
      BY <1>7 DEF ClearHead, memory
    <2>2. \A t \in From .. Len(lh) : FALSE
      BY <1>7, <2>1 DEF ClearHead, From, LogInv, Controls
    <2>3. pinned = {}
      BY <2>2 DEF LogInv, Pins
    <2>4. From' = 1
      BY <1>7, <2>1 DEF ClearHead, From
    <2> QED
      BY <2>1, <2>3, <2>4 DEF Pins
  <1>8. ASSUME Committed PROVE Pins'
    <2>1. pinned' = pinned /\ lh' = <<>> /\ lh = <<>> /\ Len(lh) = 0
      BY <1>8 DEF Committed, memory, LogInv, Phases
    <2>2. From = 1 /\ From' = 1
      BY <1>8, <2>1 DEF Committed, From
    <2> QED
      BY <2>1, <2>2 DEF LogInv, Pins
  <1>9. ASSUME NEW b \in Block, Evict(b) PROVE Pins'
    <2>1. UNCHANGED <<pinned, lh, at, tail>>
      BY <1>9 DEF Evict, log
    <2> QED
      BY <2>1 DEF LogInv, Pins, From, Coherent
  <1>10. ASSUME Crash PROVE Pins'
    <2>1. pinned' = {} /\ at' = "recover"
      BY <1>10 DEF Crash
    <2>2. From' = Len(lh') + 1 /\ Len(lh') \in Nat
      BY <1>10, <2>1, HeaderIs DEF Crash, From
    <2> QED
      BY <2>1, <2>2 DEF Pins
  <1>11. ASSUME UNCHANGED logVars PROVE Pins'
    BY <1>11 DEF logVars, LogInv, Pins, From
  <1> QED
    BY <1>1, <1>2, <1>3, <1>4, <1>5, <1>6, <1>7, <1>8, <1>9, <1>10, <1>11, WritesIs
    DEF LogNext, SystemCall, Commit

\* What is pinned is a block.
LEMMA PinsAreBlocks == LogInv => pinned \subseteq Block
  <1> SUFFICES ASSUME LogInv, NEW t \in From .. Len(lh) PROVE lh[t] \in Block
    BY DEF LogInv, Pins
  <1>1. From \in Nat \ {0}
    BY DEF From, LogInv, Controls
  <1> QED
    BY <1>1 DEF LogInv, Listed

\* What is in the cache and not pinned is what the disk has.
LEMMA CoherentKept ==
  ASSUME LogInv, [LogNext]_logVars
  PROVE  Coherent'
  <1>1. ASSUME NEW p \in Proc, Begin(p) PROVE Coherent'
    BY <1>1 DEF Begin, LogInv, Coherent, onDisk, memory
  <1>2. ASSUME NEW p \in Proc, NEW b \in Block, Writes(p, b) PROVE Coherent'
    <2>1. b \in pinned'
      <3>1. CASE Contains(lh, b)
        BY <1>2, <3>1 DEF Writes, LogBlock, Contains, From, LogInv, Pins
      <3> QED
        BY <1>2, <3>1 DEF Writes, LogBlock
    <2>2. cached' = cached \cup {b} /\ cache' = [cache EXCEPT ![b] = op[p].n] /\ home' = home /\ pinned \subseteq pinned'
          /\ pinned' \subseteq pinned \cup {b}
      BY <1>2 DEF Writes, Load, LogBlock
    <2> QED
      BY <2>1, <2>2 DEF LogInv, Coherent
  <1>3. ASSUME NEW p \in Proc, EndOp(p) PROVE Coherent'
    BY <1>3 DEF EndOp, LogInv, Coherent, onDisk, memory
  <1>4. ASSUME WriteLog PROVE Coherent'
    <2>1. tail \in 1 .. Len(lh) /\ lh[tail] \in Block
      BY <1>4 DEF WriteLog, LogInv, Controls, Listed
    <2>2. /\ cached' = cached \cup {lh[tail]} /\ cache' = [cache EXCEPT ![lh[tail]] = Bread(lh[tail])]
          /\ home' = home /\ pinned' = pinned
      BY <1>4 DEF WriteLog, Load
    <2>3. lh[tail] \in pinned
      BY <1>4, <2>1 DEF WriteLog, LogInv, Pins, From
    <2> QED
      BY <2>1, <2>2, <2>3 DEF LogInv, Coherent
  <1>5. ASSUME WriteHead PROVE Coherent'
    BY <1>5 DEF WriteHead, LogInv, Coherent, memory
  <1>6. ASSUME InstallTrans PROVE Coherent'
    <2>1. tail \in 1 .. Len(lh) /\ lh[tail] \in Block
      BY <1>6 DEF InstallTrans, LogInv, Controls, Listed
    <2>2. /\ cached' = cached \cup {lh[tail]} /\ cache' = [cache EXCEPT ![lh[tail]] = logged[tail]]
          /\ home' = [home EXCEPT ![lh[tail]] = logged[tail]] /\ pinned' = pinned \ {lh[tail]}
      BY <1>6 DEF InstallTrans, Load
    <2> QED
      BY <2>1, <2>2 DEF LogInv, Coherent, Types
  <1>7. ASSUME ClearHead PROVE Coherent'
    BY <1>7 DEF ClearHead, LogInv, Coherent, memory
  <1>8. ASSUME Committed PROVE Coherent'
    BY <1>8 DEF Committed, LogInv, Coherent, onDisk, memory
  <1>9. ASSUME NEW b \in Block, Evict(b) PROVE Coherent'
    BY <1>9 DEF Evict, LogInv, Coherent, onDisk
  <1>10. ASSUME Crash PROVE Coherent'
    BY <1>10 DEF Crash, LogInv, Coherent
  <1>11. ASSUME UNCHANGED logVars PROVE Coherent'
    BY <1>11 DEF logVars, LogInv, Coherent
  <1> QED
    BY <1>1, <1>2, <1>3, <1>4, <1>5, <1>6, <1>7, <1>8, <1>9, <1>10, <1>11, WritesIs
    DEF LogNext, SystemCall, Commit

\* Neither the commit nor the cache changes what a system call reads.
LEMMA BreadIsKept ==
  ASSUME LogInv, NEW k \in Block,
         \/ WriteLog \/ (at = "install" /\ InstallTrans)
         \/ (\E b \in Block : Evict(b)) \/ UNCHANGED <<home, cached, cache>>
  PROVE  Bread(k)' = Bread(k)
  <1>1. CASE WriteLog
    <2>1. lh[tail] \in Block
      BY <1>1 DEF WriteLog, LogInv, Controls, Listed
    <2>2. /\ cached' = cached \cup {lh[tail]} /\ cache' = [cache EXCEPT ![lh[tail]] = Bread(lh[tail])]
          /\ home' = home
      BY <1>1 DEF WriteLog, Load
    <2> QED
      BY <2>1, <2>2 DEF Bread, LogInv, Types
  <1>2. CASE at = "install" /\ InstallTrans
    <2>1. lh[tail] \in Block /\ tail \in 1 .. Len(lh)
      BY <1>2 DEF InstallTrans, LogInv, Controls, Listed
    <2>2. /\ cached' = cached \cup {lh[tail]} /\ cache' = [cache EXCEPT ![lh[tail]] = logged[tail]]
          /\ home' = [home EXCEPT ![lh[tail]] = logged[tail]]
      BY <1>2 DEF InstallTrans, Load
    <2>3. logged[tail] = Bread(lh[tail])
      BY <1>2, <2>1 DEF LogInv, Copied
    <2> QED
      BY <2>1, <2>2, <2>3 DEF Bread, LogInv, Types
  <1>3. ASSUME NEW b \in Block, Evict(b) PROVE Bread(k)' = Bread(k)
    BY <1>3 DEF Evict, onDisk, Bread, LogInv, Coherent
  <1>4. CASE UNCHANGED <<home, cached, cache>>
    BY <1>4 DEF Bread
  <1> QED
    BY <1>1, <1>2, <1>3, <1>4

\* What is copied stays copied.
LEMMA CopiedKept ==
  ASSUME LogInv, [LogNext]_logVars
  PROVE  Copied'
  <1>1. ASSUME NEW p \in Proc, Begin(p) PROVE Copied'
    <2>1. UNCHANGED <<home, logged, lh, at, tail, cached, cache>>
      BY <1>1 DEF Begin, onDisk, memory
    <2> QED
      BY <2>1 DEF LogInv, Copied, Bread
  <1>2. ASSUME NEW p \in Proc, NEW b \in Block, Writes(p, b) PROVE Copied'
    BY <1>2 DEF Writes, LogInv, Copied
  <1>3. ASSUME NEW p \in Proc, EndOp(p) PROVE Copied'
    <2>1. UNCHANGED <<home, logged, lh>>
      BY <1>3 DEF EndOp, onDisk
    <2>2. \A k \in Block : Bread(k)' = Bread(k)
      BY <1>3, BreadIsKept DEF EndOp, onDisk, memory
    <2> QED
      BY <1>3, <2>1, <2>2 DEF EndOp, LogInv, Copied
  <1>4. ASSUME WriteLog PROVE Copied'
    <2>1. lh[tail] \in Block /\ tail \in 1 .. Len(lh) /\ tail \in 1 .. LOGSIZE
      BY <1>4, Lengths, LogSizes DEF WriteLog, LogInv, Controls, Listed
    <2>2. /\ logged' = [logged EXCEPT ![tail] = Bread(lh[tail])] /\ lh' = lh /\ at' = "writelog" /\ tail' = tail + 1
          /\ at = "writelog"
      BY <1>4 DEF WriteLog, log
    <2>3. \A k \in Block : Bread(k)' = Bread(k)
      BY <1>4, BreadIsKept
    <2>4. ASSUME NEW t \in 1 .. tail' - 1 PROVE logged'[t] = Bread(lh[t])
      <3>1. t \in 1 .. tail - 1 \/ t = tail
        BY <2>1, <2>2
      <3>2. t \in 1 .. LOGSIZE
        BY <2>1, <2>2, LogSizes
      <3> QED
        BY <2>1, <2>2, <3>1, <3>2 DEF LogInv, Copied, Types
    <2>5. ASSUME NEW t \in 1 .. tail' - 1 PROVE lh[t] \in Block
      BY <2>1, <2>2 DEF LogInv, Listed
    <2>6. \A t \in 1 .. tail' - 1 : logged'[t] = Bread(lh[t])'
      <3>1. \A t \in 1 .. tail' - 1 : \E k \in Block : k = lh'[t] /\ logged'[t] = Bread(k)'
        BY <2>2, <2>3, <2>4, <2>5
      <3> QED
        BY <2>2, <3>1
    <2> QED
      BY <2>2, <2>6 DEF Copied
  <1>5. ASSUME WriteHead PROVE Copied'
    <2>1. UNCHANGED <<home, logged, lh, cached, cache>> /\ at' = "install" /\ tail' = 1 /\ at = "writelog"
          /\ tail > Len(lh)
      BY <1>5 DEF WriteHead, memory, log
    <2>2. \A t \in 1 .. Len(lh) : t \in 1 .. tail - 1
      BY <2>1 DEF LogInv, Controls
    <2> QED
      BY <2>1, <2>2 DEF LogInv, Copied, Bread
  <1>6. ASSUME InstallTrans PROVE Copied'
    <2>1. lh[tail] \in Block /\ tail \in 1 .. Len(lh)
      BY <1>6 DEF InstallTrans, LogInv, Controls, Listed
    <2>2. home' = [home EXCEPT ![lh[tail]] = logged[tail]] /\ tail' = tail + 1 /\ UNCHANGED <<logged, lh, at>>
      BY <1>6 DEF InstallTrans, log
    <2>3. ASSUME NEW t \in 1 .. tail' - 1 PROVE home'[lh[t]] = logged[t]
      <3>1. t \in 1 .. Len(lh) /\ lh[t] \in Block /\ (t \in 1 .. tail - 1 \/ t = tail)
        BY <2>1, <2>2 DEF LogInv, Listed
      <3>2. CASE t = tail
        BY <2>1, <2>2, <3>2 DEF LogInv, Types
      <3>3. CASE t \in 1 .. tail - 1
        <4>1. lh[t] # lh[tail]
          BY <2>1, <3>1, <3>3 DEF LogInv, Listed
        <4> QED
          BY <1>6, <2>2, <3>1, <3>3, <4>1 DEF InstallTrans, LogInv, Copied
      <3> QED
        BY <3>1, <3>2, <3>3
    <2>4. ASSUME at = "install", NEW t \in 1 .. Len(lh) PROVE logged[t] = Bread(lh[t])'
      <3>1. \A k \in Block : Bread(k)' = Bread(k)
        BY <1>6, <2>4, BreadIsKept
      <3>2. \E k \in Block : k = lh[t] /\ logged[t] = Bread(k)'
        BY <2>4, <3>1 DEF LogInv, Copied, Listed
      <3> QED
        BY <2>2, <3>2
    <2>5. at # "writelog"
      BY <1>6 DEF InstallTrans
    <2> QED
      BY <2>2, <2>3, <2>4, <2>5 DEF Copied
  <1>7. ASSUME ClearHead PROVE Copied'
    BY <1>7 DEF ClearHead, LogInv, Copied
  <1>8. ASSUME Committed PROVE Copied'
    BY <1>8 DEF Committed, LogInv, Copied
  <1>9. ASSUME NEW b \in Block, Evict(b) PROVE Copied'
    <2>1. UNCHANGED <<home, logged, lh, at, tail>>
      BY <1>9 DEF Evict, onDisk, log
    <2>2. \A j \in Block : Bread(j)' = Bread(j)
      BY <1>9, BreadIsKept
    <2>3. \A t \in 1 .. Len(lh) : \E k \in Block : k = lh'[t] /\ Bread(k)' = Bread(lh[t])
      BY <2>1, <2>2 DEF LogInv, Listed
    <2>4. \A t \in 1 .. Len(lh) : Bread(lh[t])' = Bread(lh[t])
      BY <2>1, <2>3
    <2>5. at = "writelog" => \A t \in 1 .. tail - 1 : t \in 1 .. Len(lh)
      BY DEF LogInv, Phases, Controls
    <2> QED
      BY <2>1, <2>4, <2>5 DEF LogInv, Copied
  <1>10. ASSUME Crash PROVE Copied'
    <2>1. at' = "recover" /\ tail' = 1
      BY <1>10 DEF Crash
    <2> QED
      BY <2>1 DEF Copied
  <1>11. ASSUME UNCHANGED logVars PROVE Copied'
    BY <1>11 DEF logVars, LogInv, Copied, Bread
  <1> QED
    BY <1>1, <1>2, <1>3, <1>4, <1>5, <1>6, <1>7, <1>8, <1>9, <1>10, <1>11, WritesIs
    DEF LogNext, SystemCall, Commit

\* The invariant is kept.
LEMMA LogInvKept == LogInv /\ [LogNext]_logVars => LogInv'
  <1> SUFFICES ASSUME LogInv, [LogNext]_logVars PROVE LogInv'
    OBVIOUS
  <1>1. Types' /\ Controls' /\ OpsTyped' /\ Listed' /\ Phases'
    BY TypesKept, ControlsKept, CallsKept, ListedKept, PhasesKept
  <1>2. Counted' /\ Room' /\ Pins' /\ Coherent' /\ Copied' /\ SleepersAreWoken'
    BY CountedKept, RoomKept, PinsKept, CoherentKept, CopiedKept, SleepersAreWokenKept
  <1> QED
    BY <1>1, <1>2 DEF LogInv

\* It always holds.
LEMMA LogAlways == LogSpec => []LogInv
  BY LogInitially, LogInvKept, PTL DEF LogSpec

\* When no system call is under way and no commit, the disk has what it should have.
THEOREM Durable == LogSpec => []QuiescentIsDurable
  <1>1. LogInv => QuiescentIsDurable
    <2> SUFFICES ASSUME LogInv, at = "idle", outstanding = 0, NEW b \in Block
                 PROVE  AfterRecovery[b] = Bread(b)
      BY DEF QuiescentIsDurable
    <2>1. lh = <<>> /\ header = <<>> /\ Len(lh) = 0
      BY DEF LogInv, Phases
    <2>2. b \notin pinned
      BY <2>1 DEF LogInv, Pins, From
    <2> QED
      BY <2>1, <2>2 DEF AfterRecovery, Contains, Bread, LogInv, Coherent
  <1> QED
    BY <1>1, LogAlways, PTL

\* Nobody sleeps in begin_op() for ever for want of a wakeup.
THEOREM NoLostSleeper == LogSpec => []SleepersAreWoken
  <1>1. LogInv => SleepersAreWoken
    BY DEF LogInv
  <1> QED
    BY <1>1, LogAlways, PTL

\* begin_op()'s reservation is enough: log_write() never finds the log full.
THEOREM LogSuffices == LogSpec => []ReservationSuffices
  <1>1. LogInv => ReservationSuffices
    <2> SUFFICES ASSUME LogInv PROVE ReservationSuffices
      OBVIOUS
    <2>1. Len(lh) <= LOGSIZE /\ outstanding \in Nat /\ pinned \in SUBSET Block
      BY Lengths, CallsAreCounted, PinsAreBlocks
    <2>2. IsInjective(lh)
      BY DEF LogInv, Listed, IsInjective
    <2>3. LogTypeOK
      BY <2>1, <2>2 DEF LogTypeOK, LogInv, Types, Controls, OpsTyped, Listed
    <2> QED
      BY <2>3 DEF ReservationSuffices, LogInv, Controls, Counted
  <1> QED
    BY <1>1, LogAlways, PTL
-----------------------------------------------------------------------------
(* System calls are atomic *)

\* What the log in the header stands for, block by block.
Recovered ==
  /\ AfterRecovery = [b \in Block |-> AfterRecovery[b]]
  /\ \A t \in 1 .. Len(header) : header[t] \in Block /\ AfterRecovery[header[t]] = logged[t]
  /\ \A b \in Block : (\A t \in 1 .. Len(header) : header[t] # b) => AfterRecovery[b] = home[b]

\* No block is in the log twice, so what recovery copies there is one value.
LEMMA RecoveredIs == LogInv => Recovered
  <1> SUFFICES ASSUME LogInv PROVE Recovered
    OBVIOUS
  <1>1. \A s, t \in 1 .. Len(header) : header[s] = header[t] => s = t
    <2>1. CASE header = <<>>
      BY <2>1
    <2>2. CASE header = lh
      BY <2>2 DEF LogInv, Listed
    <2> QED
      BY <2>1, <2>2, HeaderIs
  <1>2. ASSUME NEW t \in 1 .. Len(header)
        PROVE  header[t] \in Block /\ AfterRecovery[header[t]] = logged[t]
    <2>1. header[t] \in Block
      BY DEF LogInv, Types
    <2>2. Contains(header, header[t])
      BY DEF Contains
    <2>3. (CHOOSE s \in 1 .. Len(header) : header[s] = header[t]) = t
      BY <1>1
    <2> QED
      BY <2>1, <2>2, <2>3 DEF AfterRecovery
  <1>3. ASSUME NEW b \in Block, \A t \in 1 .. Len(header) : header[t] # b
        PROVE  AfterRecovery[b] = home[b]
    BY <1>3 DEF AfterRecovery, Contains
  <1>4. AfterRecovery = [b \in Block |-> AfterRecovery[b]]
    BY DEF AfterRecovery
  <1> QED
    BY <1>2, <1>3, <1>4 DEF Recovered

\* A step of the log writes the header, the home blocks, or neither.
LEMMA SameDurable == UNCHANGED <<home, logged, header>> => AfterRecovery' = AfterRecovery
  BY DEF AfterRecovery

\* What system calls see is what the cache has, or after a crash what recovery will leave.
LEMMA NowIs ==
  /\ at # "recover" => Now = [b \in Block |-> Bread(b)]
  /\ at' # "recover" => Now' = [b \in Block |-> Bread(b)']
  /\ at = "recover" => Now = AfterRecovery
  /\ at' = "recover" => Now' = AfterRecovery'
  BY DEF Now

\* When no call is outstanding, none is under way.
LEMMA NobodyActive == LogInv /\ outstanding = 0 => Active = {}
  BY OwedFinite, FS_EmptySet DEF LogInv, Counted

\* Copies to the log are invisible while the header is empty.
LEMMA WriteLogStutters ==
  ASSUME LogInv, LogInv', WriteLog
  PROVE  UNCHANGED <<Now, AfterRecovery, Active>>
  <1>1. header = <<>> /\ header' = <<>> /\ home' = home /\ at = "writelog" /\ at' = "writelog" /\ op' = op
    BY DEF WriteLog, LogInv, Phases
  <1>2. AfterRecovery' = AfterRecovery
    BY <1>1 DEF AfterRecovery, Contains
  <1>3. \A k \in Block : Bread(k)' = Bread(k)
    BY BreadIsKept
  <1>4. Now' = Now
    BY <1>1, <1>3, NowIs
  <1> QED
    BY <1>1, <1>2, <1>4 DEF Active

\* The write of the header is the commit.
LEMMA WriteHeadCommits ==
  ASSUME LogInv, LogInv', WriteHead
  PROVE  Disk!Commit
  <1>1. /\ UNCHANGED <<home, logged, cached, cache, lh, op>> /\ header' = lh
        /\ at = "writelog" /\ at' = "install" /\ tail > Len(lh)
    BY DEF WriteHead, memory, log
  <1>2. Recovered'
    BY RecoveredIs, PTL
  <1>3. \A t \in 1 .. Len(lh) : t \in 1 .. tail - 1
    BY <1>1 DEF LogInv, Controls
  <1>4. ASSUME NEW b \in Block PROVE AfterRecovery'[b] = Bread(b)
    <2>1. CASE \E t \in 1 .. Len(lh) : lh[t] = b
      <3>1. PICK t \in 1 .. Len(lh) : lh[t] = b
        BY <2>1
      <3>2. AfterRecovery'[b] = logged[t]
        BY <1>1, <1>2, <3>1 DEF Recovered
      <3> QED
        BY <1>1, <1>3, <3>1, <3>2 DEF LogInv, Copied
    <2>2. CASE \A t \in 1 .. Len(lh) : lh[t] # b
      <3>1. AfterRecovery'[b] = home[b]
        BY <1>1, <1>2, <2>2 DEF Recovered
      <3>2. b \notin pinned
        BY <1>1, <2>2 DEF LogInv, Pins, From
      <3> QED
        BY <3>1, <3>2 DEF Bread, LogInv, Coherent
    <2> QED
      BY <2>1, <2>2
  <1>5. Now = [b \in Block |-> Bread(b)] /\ Now' = Now
    <2>1. \A b \in Block : Bread(b)' = Bread(b)
      BY <1>1 DEF Bread
    <2> QED
      BY <1>1, <2>1, NowIs
  <1>6. AfterRecovery' = Now
    BY <1>2, <1>4, <1>5 DEF Recovered
  <1>7. Active = {} /\ Active' = Active
    BY <1>1, NobodyActive DEF LogInv, Phases, Counted, Active
  <1> QED
    BY <1>5, <1>6, <1>7 DEF Disk!Commit

\* Copies home are invisible: a restart would make them again.
LEMMA InstallStutters ==
  ASSUME LogInv, LogInv', InstallTrans
  PROVE  UNCHANGED <<Now, AfterRecovery, Active>>
  <1>1. /\ UNCHANGED <<logged, header, lh, op, at>> /\ header = lh /\ at \in {"install", "recover"}
        /\ home' = [home EXCEPT ![lh[tail]] = logged[tail]]
    BY DEF InstallTrans, LogInv, Phases
  <1>2. tail \in 1 .. Len(lh) /\ lh[tail] \in Block
    BY DEF InstallTrans, LogInv, Controls, Listed
  <1>3. Recovered /\ Recovered'
    BY RecoveredIs, PTL
  <1>4. ASSUME NEW b \in Block PROVE AfterRecovery'[b] = AfterRecovery[b]
    <2>1. CASE \E t \in 1 .. Len(lh) : lh[t] = b
      BY <1>1, <1>3, <2>1 DEF Recovered
    <2>2. CASE \A t \in 1 .. Len(lh) : lh[t] # b
      <3>1. home'[b] = home[b]
        BY <1>1, <1>2, <2>2 DEF LogInv
      <3> QED
        BY <1>1, <1>3, <2>2, <3>1 DEF Recovered
    <2> QED
      BY <2>1, <2>2
  <1>5. AfterRecovery' = AfterRecovery
    BY <1>3, <1>4 DEF Recovered
  <1>6. CASE at = "recover"
    BY <1>1, <1>5, <1>6, NowIs DEF Active
  <1>7. CASE at = "install"
    <2>1. \A k \in Block : Bread(k)' = Bread(k)
      BY <1>7, BreadIsKept
    <2>2. Now' = Now
      BY <1>1, <1>7, <2>1, NowIs
    <2> QED
      BY <1>1, <1>5, <2>2 DEF Active
  <1> QED
    BY <1>1, <1>6, <1>7

\* Clearing the header is invisible: all is at home.
LEMMA ClearHeadStutters ==
  ASSUME LogInv, LogInv', ClearHead
  PROVE  UNCHANGED <<Now, AfterRecovery, Active>>
  <1>1. /\ UNCHANGED <<home, logged, cached, cache, pinned, op>> /\ header = lh /\ header' = <<>>
        /\ at \in {"install", "recover"} /\ at' \in {"done", "idle"} /\ tail > Len(lh)
    BY DEF ClearHead, memory, LogInv, Phases
  <1>2. \A t \in 1 .. Len(lh) : t \in 1 .. tail - 1
    BY <1>1 DEF LogInv, Controls
  <1>3. Recovered /\ Recovered'
    BY RecoveredIs, PTL
  <1>4. ASSUME NEW b \in Block PROVE AfterRecovery[b] = home[b] /\ AfterRecovery'[b] = home[b]
    <2>1. AfterRecovery'[b] = home[b]
      BY <1>1, <1>3 DEF Recovered
    <2>2. CASE \E t \in 1 .. Len(lh) : lh[t] = b
      BY <1>1, <1>2, <1>3, <2>1, <2>2 DEF Recovered, LogInv, Copied
    <2>3. CASE \A t \in 1 .. Len(lh) : lh[t] # b
      BY <1>1, <1>3, <2>1, <2>3 DEF Recovered
    <2> QED
      BY <2>1, <2>2, <2>3
  <1>5. AfterRecovery' = AfterRecovery
    BY <1>3, <1>4 DEF Recovered
  <1>6. \A b \in Block : Bread(b)' = Bread(b)
    BY <1>1 DEF Bread
  <1>7. CASE at = "install"
    <2>1. Now' = Now
      BY <1>1, <1>6, <1>7, NowIs
    <2> QED
      BY <1>1, <1>5, <2>1 DEF Active
  <1>8. CASE at = "recover"
    <2>1. pinned = {}
      <3>1. From = Len(lh) + 1
        BY <1>8 DEF From
      <3> QED
        BY <3>1 DEF LogInv, Pins
    <2>2. \A b \in Block : Bread(b) = AfterRecovery[b]
      BY <1>4, <2>1 DEF Bread, LogInv, Coherent
    <2>3. Now' = Now
      BY <1>1, <1>3, <1>6, <1>8, <2>2, NowIs DEF Recovered
    <2> QED
      BY <1>1, <1>5, <2>3 DEF Active
  <1> QED
    BY <1>1, <1>7, <1>8

\* A buffer recycled is invisible: it was as on the disk.
LEMMA EvictStutters ==
  ASSUME LogInv, NEW b \in Block, Evict(b)
  PROVE  UNCHANGED <<Now, AfterRecovery, Active>>
  <1>1. UNCHANGED <<home, logged, header, op, at>>
    BY DEF Evict, onDisk
  <1>2. AfterRecovery' = AfterRecovery
    BY <1>1, SameDurable
  <1>3. \A k \in Block : Bread(k)' = Bread(k)
    BY BreadIsKept
  <1>4. Now' = Now
    BY <1>1, <1>2, <1>3, NowIs
  <1> QED
    BY <1>1, <1>2, <1>4 DEF Active

\* A system call's steps are the calls of the journaled disk.
LEMMA CallIsCall ==
  ASSUME LogInv, NEW p \in Proc
  PROVE  /\ Begin(p) => Disk!Begin(p) \/ UNCHANGED <<Now, AfterRecovery, Active>>
         /\ EndOp(p) => Disk!End(p)
         /\ \A b \in Block : Writes(p, b) => \E v \in 1 .. MaxOps : Disk!Write(p, b, v)
  <1>1. ASSUME Begin(p) PROVE Disk!Begin(p) \/ UNCHANGED <<Now, AfterRecovery, Active>>
    <2>1. UNCHANGED <<home, logged, header, cached, cache, at>>
      BY <1>1 DEF Begin, onDisk, memory
    <2>2. AfterRecovery' = AfterRecovery
      BY <2>1, SameDurable
    <2>3. Now' = Now
      BY <2>1, <2>2 DEF Now, Bread
    <2>4. (Active' = Active \cup {p} /\ p \notin Active) \/ op' = op
      BY <1>1, ActiveIs
    <2> QED
      BY <2>2, <2>3, <2>4 DEF Disk!Begin, Active
  <1>2. ASSUME EndOp(p) PROVE Disk!End(p)
    <2>1. UNCHANGED <<home, logged, header, cached, cache>> /\ at = "idle" /\ at' # "recover"
      BY <1>2 DEF EndOp, onDisk, memory
    <2>2. AfterRecovery' = AfterRecovery
      BY <2>1, SameDurable
    <2>3. Now' = Now
      BY <2>1, <2>2 DEF Now, Bread
    <2>4. Active' = Active \ {p} /\ p \in Active
      BY <1>2, ActiveIs
    <2> QED
      BY <2>2, <2>3, <2>4 DEF Disk!End
  <1>3. ASSUME NEW b \in Block, Writes(p, b) PROVE \E v \in 1 .. MaxOps : Disk!Write(p, b, v)
    <2>1. /\ UNCHANGED <<home, logged, header, at>> /\ at = "idle" /\ op[p] # NoOp
          /\ cached' = cached \cup {b} /\ cache' = [cache EXCEPT ![b] = op[p].n]
      BY <1>3 DEF Writes, Load
    <2>2. AfterRecovery' = AfterRecovery
      BY <2>1, SameDurable
    <2>3. op[p].n \in 1 .. MaxOps
      <3>1. op[p].n \in 0 .. MaxOps /\ op[p].n # 0
        BY <2>1 DEF LogInv, OpsTyped
      <3> QED
        BY <3>1
    <2>4. \A k \in Block : Bread(k)' = IF k = b THEN op[p].n ELSE Bread(k)
      BY <2>1 DEF Bread, LogInv, Types
    <2>5. Now' = [Now EXCEPT ![b] = op[p].n]
      BY <2>1, <2>4, NowIs
    <2>6. Active' = Active /\ p \in Active
      BY <1>3, <2>1, ActiveIs DEF Active
    <2>7. Disk!Write(p, b, op[p].n)
      BY <2>2, <2>5, <2>6 DEF Disk!Write
    <2> QED
      BY <2>3, <2>7
  <1> QED
    BY <1>1, <1>2, <1>3

\* A crash loses what was not committed, and no more.
LEMMA CrashIsCrash == LogInv /\ LogInv' /\ Crash => Disk!Crash
  <1> SUFFICES ASSUME LogInv, LogInv', Crash PROVE Disk!Crash
    OBVIOUS
  <1>1. AfterRecovery' = AfterRecovery /\ at' = "recover" /\ Active' = {}
    BY SameDurable DEF Crash, onDisk, Active
  <1> QED
    BY <1>1, NowIs DEF Disk!Crash

\* System calls are atomic: whenever the machine stops, what is found after
\* the restart is the work of the system calls that were committed, whole.
THEOREM SystemCallsAreAtomic == LogSpec => CallsAreAtomic
  <1>1. LogInit => Disk!Init
    <2> SUFFICES ASSUME LogInit PROVE Disk!Init
      OBVIOUS
    <2>1. AfterRecovery = [b \in Block |-> 0] /\ Active = {}
      BY DEF LogInit, AfterRecovery, Contains, Active
    <2>2. Now = [b \in Block |-> 0]
      BY NowIs DEF LogInit, Bread
    <2> QED
      BY <2>1, <2>2 DEF Disk!Init
  <1>2. LogInv /\ LogInv' /\ [LogNext]_logVars => [Disk!Next]_(Disk!vars)
    <2> SUFFICES ASSUME LogInv, LogInv', [LogNext]_logVars PROVE Disk!Next \/ UNCHANGED <<Now, AfterRecovery, Active>>
      BY DEF Disk!vars
    <2>1. ASSUME NEW p \in Proc, SystemCall(p) PROVE Disk!Next \/ UNCHANGED <<Now, AfterRecovery, Active>>
      BY <2>1, CallIsCall, WritesIs DEF SystemCall, Disk!Next
    <2>2. ASSUME Commit PROVE Disk!Next \/ UNCHANGED <<Now, AfterRecovery, Active>>
      <3>1. ASSUME Committed PROVE UNCHANGED <<Now, AfterRecovery, Active>>
        <4>1. UNCHANGED <<home, logged, header, cached, cache, op>> /\ at = "done" /\ at' = "idle"
          BY <3>1 DEF Committed, onDisk, memory
        <4> QED
          BY <4>1, SameDurable DEF Now, Bread, Active
      <3> QED
        BY <2>2, <3>1, WriteLogStutters, WriteHeadCommits, InstallStutters, ClearHeadStutters
        DEF Commit, Disk!Next
    <2>3. ASSUME NEW b \in Block, Evict(b) PROVE UNCHANGED <<Now, AfterRecovery, Active>>
      BY <2>3, EvictStutters
    <2>4. ASSUME Crash PROVE Disk!Next
      BY <2>4, CrashIsCrash DEF Disk!Next
    <2>5. ASSUME UNCHANGED logVars PROVE UNCHANGED <<Now, AfterRecovery, Active>>
      BY <2>5, SameDurable DEF logVars, Now, Bread, Active
    <2> QED
      BY <2>1, <2>2, <2>3, <2>4, <2>5 DEF LogNext
  <1> QED
    BY <1>1, <1>2, LogAlways, PTL DEF LogSpec, CallsAreAtomic, Disk!Spec
-----------------------------------------------------------------------------
(* The driver and the device *)

\* The remainder is unique.
LEMMA ModIs ==
  ASSUME NEW a \in Int, NEW m \in Nat \ {0}, NEW q \in Int, NEW r \in 0 .. m - 1, a = q * m + r
  PROVE  a % m = r
  OBVIOUS

\* A multiple of m more or less does not matter modulo m.
LEMMA ModShift ==
  ASSUME NEW a \in Int, NEW u \in Nat, NEW m \in Nat \ {0}, u % m = 0
  PROVE  (a - u) % m = a % m
  <1> DEFINE q == a \div m
             c == u \div m
             r == a % m
  <1>1. q \in Int /\ c \in Int /\ r \in 0 .. m - 1 /\ a = m * q + r /\ u = m * c
    OBVIOUS
  <1>2. a - u = (q - c) * m + r
    <2> HIDE DEF q, c, r
    <2> QED BY <1>1
  <1>3. (a - u) % m = r
    <2> HIDE DEF q, c, r
    <2> QED BY <1>1, <1>2, ModIs
  <1> QED
    BY <1>3

\* Fewer than m consecutive numbers differ modulo m.
LEMMA ModApart ==
  ASSUME NEW m \in Nat \ {0}, NEW a \in Int, NEW b \in Int, a < b, b < a + m
  PROVE  a % m # b % m
  <1> SUFFICES ASSUME a % m = b % m PROVE FALSE
    OBVIOUS
  <1> DEFINE d == (b \div m) - (a \div m)
  <1>1. d \in Int /\ b - a = m * d
    <2>1. a = m * (a \div m) + (a % m) /\ b = m * (b \div m) + (b % m) /\ a \div m \in Int /\ b \div m \in Int
      OBVIOUS
    <2> QED
      BY <2>1
  <1> HIDE DEF d
  <1>2. CASE d <= 0
    <2>1. m * d <= 0
      BY <1>1, <1>2
    <2> QED
      BY <1>1, <2>1
  <1>3. CASE d >= 1
    <2>1. m * d >= m
      BY <1>1, <1>3
    <2> QED
      BY <1>1, <2>1
  <1> QED
    BY <1>1, <1>2, <1>3

\* Counters one further on, and how far apart two of them are.
LEMMA Counting ==
  ASSUME NEW u \in Nat \ {0}, NEW a \in 0 .. u - 1, NEW b \in 0 .. u - 1
  PROVE  /\ (a + 1) % u = IF a + 1 = u THEN 0 ELSE a + 1
         /\ (b - a) % u = IF a <= b THEN b - a ELSE b - a + u
  <1>1. (a + 1) % u = IF a + 1 = u THEN 0 ELSE a + 1
    OBVIOUS
  <1>2. (b - a) % u = IF a <= b THEN b - a ELSE b - a + u
    OBVIOUS
  <1> QED
    BY <1>1, <1>2
-----------------------------------------------------------------------------
(* Rings *)

\* The sizes, and the names no process or block has.
LEMMA Sizes ==
  /\ NUM \in Nat \ {0} /\ NUM >= 3 /\ IdxMod \in Nat \ {0} /\ NUM < IdxMod /\ IdxMod % NUM = 0
  /\ MaxRequests \in Nat /\ StartIdx \in 0 .. IdxMod - 1
  BY VirtioAssumption DEF VirtioAssumption

\* The names that no process and no block has.
LEMMA Names == None \notin Proc /\ None \notin Block /\ "intr" \notin Proc
  BY VirtioAssumption DEF VirtioAssumption

IndexOf == 0 .. IdxMod - 1

\* How many entries a ring has, and its n-th one.
Gap(from, to) == (to - from) % IdxMod
Entry(ring, from, n) == ring[(from + n) % NUM]

\* No entry is there twice.
Distinct(ring, from, to) ==
  \A m, n \in 0 .. Gap(from, to) - 1 : Entry(ring, from, m) = Entry(ring, from, n) => m = n

\* Gap() counts up with the writer of a ring and down with its reader.
LEMMA GapIs ==
  ASSUME NEW from \in IndexOf, NEW to \in IndexOf
  PROVE  /\ Gap(from, to) = IF from <= to THEN to - from ELSE to - from + IdxMod
         /\ Gap(from, to) \in 0 .. IdxMod - 1
         /\ (from + Gap(from, to)) % NUM = to % NUM
         /\ Gap(from, to) = 0 <=> from = to
         /\ Succ(to) \in IndexOf
         /\ Gap(from, to) < NUM => Gap(from, Succ(to)) = Gap(from, to) + 1
         /\ from # to => Gap(Succ(from), to) = Gap(from, to) - 1
         /\ \A n \in Int : (Succ(from) + n) % NUM = (from + (n + 1)) % NUM
  <1>1. Gap(from, to) = IF from <= to THEN to - from ELSE to - from + IdxMod
    BY Sizes, Counting DEF Gap, IndexOf
  <1>2. Gap(from, to) \in 0 .. IdxMod - 1 /\ (Gap(from, to) = 0 <=> from = to)
    BY <1>1, Sizes DEF IndexOf
  <1>3. \A x \in Int : (x - IdxMod) % NUM = x % NUM
    BY Sizes, ModShift
  <1>4. (from + Gap(from, to)) % NUM = to % NUM
    <2>1. from + Gap(from, to) = to \/ to = (from + Gap(from, to)) - IdxMod
      BY <1>1, Sizes DEF IndexOf
    <2>2. from + Gap(from, to) \in Int
      BY <1>2 DEF IndexOf
    <2>3. ((from + Gap(from, to)) - IdxMod) % NUM = (from + Gap(from, to)) % NUM
      BY <1>3, <2>2
    <2> QED
      BY <2>1, <2>3
  <1>5. /\ Succ(to) = (IF to + 1 = IdxMod THEN 0 ELSE to + 1) /\ Succ(to) \in IndexOf
        /\ Succ(from) = (IF from + 1 = IdxMod THEN 0 ELSE from + 1) /\ Succ(from) \in IndexOf
    <2>1. (to + 1) % IdxMod = (IF to + 1 = IdxMod THEN 0 ELSE to + 1)
      BY Sizes, Counting DEF IndexOf
    <2>2. (from + 1) % IdxMod = (IF from + 1 = IdxMod THEN 0 ELSE from + 1)
      BY Sizes, Counting DEF IndexOf
    <2> QED
      BY <2>1, <2>2, Sizes DEF Succ, IndexOf
  <1>6. \A a, b \in IndexOf : Gap(a, b) = IF a <= b THEN b - a ELSE b - a + IdxMod
    BY Sizes, Counting DEF Gap, IndexOf
  <1>7. Gap(from, to) < NUM => Gap(from, Succ(to)) = Gap(from, to) + 1
    BY <1>5, <1>6, Sizes DEF IndexOf
  <1>8. from # to => Gap(Succ(from), to) = Gap(from, to) - 1
    BY <1>5, <1>6, Sizes DEF IndexOf
  <1>9. ASSUME NEW n \in Int PROVE (Succ(from) + n) % NUM = (from + (n + 1)) % NUM
    <2>1. Succ(from) + n = from + (n + 1) \/ Succ(from) + n = (from + (n + 1)) - IdxMod
      BY <1>5 DEF IndexOf
    <2>2. from + (n + 1) \in Int
      BY DEF IndexOf
    <2>3. ((from + (n + 1)) - IdxMod) % NUM = (from + (n + 1)) % NUM
      BY <1>3, <2>2
    <2> QED
      BY <2>1, <2>3
  <1> QED
    BY <1>1, <1>2, <1>4, <1>5, <1>7, <1>8, <1>9

\* A ring has a slot for every index.
LEMMA SlotIs == \A x \in Int : x % NUM \in Index
  BY Sizes DEF Index

\* There are NUM descriptors.
LEMMA IndexFinite == IsFiniteSet(Index) /\ Cardinality(Index) = NUM
  BY Sizes, FS_Interval DEF Index

\* The entries between two indices, one by one.
LEMMA BetweenIs ==
  ASSUME NEW ring, NEW from, NEW to
  PROVE  Between(ring, from, to) = {Entry(ring, from, n) : n \in 0 .. Gap(from, to) - 1}
  BY DEF Between, Entry, Gap

\* With one descriptor elsewhere the ring is not full.
LEMMA RingHasRoom ==
  ASSUME NEW ring \in [Index -> Index], NEW from \in IndexOf, NEW to \in IndexOf,
         Distinct(ring, from, to), NEW h \in Index, h \notin Between(ring, from, to)
  PROVE  Gap(from, to) < NUM
  <1> DEFINE D == 0 .. Gap(from, to) - 1
             f == [n \in D |-> Entry(ring, from, n)]
  <1>1. Gap(from, to) \in Nat
    BY GapIs
  <1>2. \A n \in D : Entry(ring, from, n) \in Index /\ Entry(ring, from, n) # h
    <2>1. \A n \in D : (from + n) % NUM \in Index
      BY <1>1, SlotIs DEF IndexOf
    <2> QED
      BY <2>1, BetweenIs DEF Entry
  <1>3. f \in Injection(D, Index \ {h})
    BY <1>2 DEF Injection, IsInjective, Distinct
  <1>4. IsFiniteSet(Index \ {h}) /\ Cardinality(Index \ {h}) = NUM - 1
    BY IndexFinite, FS_RemoveElement
  <1>5. Cardinality(D) <= NUM - 1
    <2> HIDE DEF f, D
    <2> QED BY <1>3, <1>4, FS_Injection
  <1>6. Cardinality(D) = Gap(from, to)
    BY <1>1, FS_Interval
  <1> QED
    BY <1>1, <1>5, <1>6, Sizes

\* The entry behind the last one can be written, ...
LEMMA RingWritten ==
  ASSUME NEW ring \in [Index -> Index], NEW from \in IndexOf, NEW to \in IndexOf, NEW h \in Index,
         Gap(from, to) < NUM
  PROVE  LET r == [ring EXCEPT ![to % NUM] = h] IN
         /\ Between(r, from, to) = Between(ring, from, to)
         /\ Distinct(ring, from, to) => Distinct(r, from, to)
  <1> DEFINE r == [ring EXCEPT ![to % NUM] = h]
  <1>1. ASSUME NEW n \in 0 .. Gap(from, to) - 1 PROVE Entry(r, from, n) = Entry(ring, from, n)
    <2> DEFINE g == Gap(from, to)
    <2>1. g \in Nat /\ g < NUM /\ n \in 0 .. g - 1 /\ from \in Int
      BY GapIs DEF IndexOf
    <2> HIDE DEF g
    <2>2. from + n < from + g /\ from + g < (from + n) + NUM /\ from + n \in Int /\ from + g \in Int
      BY <2>1, Sizes
    <2>4. (from + n) % NUM # (from + g) % NUM
      BY <2>2, ModApart, Sizes
    <2>3. (from + n) % NUM # to % NUM /\ (from + n) % NUM \in Index
      BY <2>2, <2>4, GapIs, SlotIs DEF g
    <2> QED
      BY <2>3 DEF Entry
  <1> QED
    BY <1>1, BetweenIs DEF Distinct

\* ... and then be published.
LEMMA RingPublished ==
  ASSUME NEW ring \in [Index -> Index], NEW from \in IndexOf, NEW to \in IndexOf, NEW h \in Index,
         Gap(from, to) < NUM, h \notin Between(ring, from, to), ring[to % NUM] = h
  PROVE  /\ Between(ring, from, Succ(to)) = Between(ring, from, to) \cup {h}
         /\ Distinct(ring, from, to) => Distinct(ring, from, Succ(to))
  <1>1. Gap(from, Succ(to)) = Gap(from, to) + 1 /\ Gap(from, to) \in Nat
    BY GapIs
  <1>2. Entry(ring, from, Gap(from, to)) = h
    BY GapIs DEF Entry
  <1>3. 0 .. Gap(from, Succ(to)) - 1 = (0 .. Gap(from, to) - 1) \cup {Gap(from, to)}
    BY <1>1
  <1>4. Between(ring, from, Succ(to)) = Between(ring, from, to) \cup {h}
    BY <1>2, <1>3, BetweenIs
  <1>5. ASSUME Distinct(ring, from, to), NEW m \in 0 .. Gap(from, Succ(to)) - 1, NEW n \in 0 .. Gap(from, Succ(to)) - 1,
               Entry(ring, from, m) = Entry(ring, from, n)
        PROVE  m = n
    BY <1>2, <1>3, <1>5, BetweenIs DEF Distinct
  <1> QED
    BY <1>4, <1>5 DEF Distinct

\* The oldest entry is taken.
LEMMA RingTaken ==
  ASSUME NEW ring \in [Index -> Index], NEW from \in IndexOf, NEW to \in IndexOf, from # to,
         Distinct(ring, from, to)
  PROVE  /\ ring[from % NUM] \in Between(ring, from, to)
         /\ Between(ring, Succ(from), to) = Between(ring, from, to) \ {ring[from % NUM]}
         /\ Distinct(ring, Succ(from), to)
  <1>1. Gap(Succ(from), to) = Gap(from, to) - 1 /\ Gap(from, to) \in Nat \ {0}
    BY GapIs
  <1>2. \A n \in Int : Entry(ring, Succ(from), n) = Entry(ring, from, n + 1)
    BY GapIs DEF Entry
  <1>3. Entry(ring, from, 0) = ring[from % NUM] /\ 0 \in 0 .. Gap(from, to) - 1
    BY <1>1 DEF Entry, IndexOf
  <1>4. \A n \in 0 .. Gap(Succ(from), to) - 1 : n \in Int /\ n + 1 \in 0 .. Gap(from, to) - 1 /\ n + 1 # 0
    BY <1>1
  <1>5. \A n \in 0 .. Gap(from, to) - 1 : n = 0 \/ (n - 1 \in 0 .. Gap(Succ(from), to) - 1 /\ n - 1 \in Int /\ (n - 1) + 1 = n)
    BY <1>1
  <1>6. Distinct(ring, Succ(from), to)
    <2> SUFFICES ASSUME NEW m \in 0 .. Gap(Succ(from), to) - 1, NEW n \in 0 .. Gap(Succ(from), to) - 1,
                        Entry(ring, Succ(from), m) = Entry(ring, Succ(from), n)
                 PROVE  m = n
      BY DEF Distinct
    <2>1. Entry(ring, from, m + 1) = Entry(ring, from, n + 1)
      BY <1>2, <1>4
    <2>2. m + 1 = n + 1
      BY <1>4, <2>1 DEF Distinct
    <2> QED
      BY <2>2
  <1>7. ASSUME NEW x \in Between(ring, Succ(from), to)
        PROVE  x \in Between(ring, from, to) /\ x # ring[from % NUM]
    <2>1. PICK n \in 0 .. Gap(Succ(from), to) - 1 : x = Entry(ring, Succ(from), n)
      BY BetweenIs
    <2>2. x = Entry(ring, from, n + 1)
      BY <1>2, <2>1
    <2> QED
      BY <1>3, <1>4, <2>2, BetweenIs DEF Distinct
  <1>8. ASSUME NEW x \in Between(ring, from, to), x # ring[from % NUM]
        PROVE  x \in Between(ring, Succ(from), to)
    <2>1. PICK n \in 0 .. Gap(from, to) - 1 : x = Entry(ring, from, n)
      BY BetweenIs
    <2>2. n # 0
      BY <1>3, <1>8, <2>1
    <2>3. x = Entry(ring, Succ(from), n - 1)
      BY <1>2, <1>5, <2>1, <2>2
    <2> QED
      BY <1>5, <2>2, <2>3, BetweenIs
  <1> QED
    BY <1>3, <1>6, <1>7, <1>8, BetweenIs
-----------------------------------------------------------------------------
(* The invariant *)

Request == [b : Block \cup {None}, write : BOOLEAN, head : Index]
Places  == {"idle", "alloc", "nodesc", "ring", "publish", "wait", "asleep", "done"}

DiskTypes ==
  /\ free \in SUBSET Index /\ work \in SUBSET Index /\ busy \in SUBSET Block
  /\ avail \in [Index -> Index] /\ used \in [Index -> Index]
  /\ availIdx \in IndexOf /\ deviceIdx \in IndexOf /\ usedIdx \in IndexOf /\ seen \in IndexOf
  /\ info \in [Index -> [b : Block \cup {None}, status : {0, 255}, write : BOOLEAN]]
  /\ desc \in [Index -> [to : Block \cup {"none", "header", "status"}, next : Index, chained : BOOLEAN]]
  /\ bdata \in [Block -> 0 .. MaxRequests] /\ platter \in [Block -> 0 .. MaxRequests]
  /\ isr \in BOOLEAN /\ nreq \in 0 .. MaxRequests

\* Callers have buffers of their own, and one at most is about to publish.
Callers ==
  /\ stage \in [Proc -> Places] /\ req \in [Proc -> Request] /\ lock \in Proc \cup {None, "intr"}
  /\ \A p \in Proc : stage[p] # "idle" <=> req[p].b \in Block
  /\ \A p, q \in Proc : p # q /\ stage[p] # "idle" /\ stage[q] # "idle" => req[p].b # req[q].b
  /\ \A p \in Proc : stage[p] \in {"ring", "publish"} => lock = p

\* The chain of a request: the header, the buffer and the status.
Second(i) == desc[i].next
Third(i)  == desc[desc[i].next].next
Links(i)  == {i, Second(i), Third(i)}

Chained ==
  \A p \in Waiting :
    /\ req[p].head # Second(req[p].head) /\ req[p].head # Third(req[p].head)
    /\ Second(req[p].head) # Third(req[p].head)
    /\ desc[req[p].head].chained /\ desc[Second(req[p].head)].chained
    /\ desc[Second(req[p].head)].to = req[p].b
    /\ info[req[p].head].b = req[p].b /\ info[req[p].head].write = req[p].write

Own(p) == Links(req[p].head)
Private ==
  /\ \A p, q \in Waiting : p # q => Own(p) \cap Own(q) = {}
  /\ \A d \in Index : d \in free <=> \A p \in Waiting : d \notin Own(p)

\* A request that is published is with the driver's ring, the device, or the device's ring.
Asked == Between(avail, seen, availIdx)
Told  == Between(used, usedIdx, deviceIdx)
Published(p) == stage[p] \in {"wait", "asleep"}
DiskPlaced ==
  /\ Distinct(avail, seen, availIdx) /\ Distinct(used, usedIdx, deviceIdx)
  /\ Asked \cap work = {} /\ Asked \cap Told = {} /\ work \cap Told = {}
  /\ \A h \in Asked \cup work \cup Told :
       \E p \in Proc : Published(p) /\ req[p].head = h /\ req[p].b \in busy
Publishing ==
  \A p \in Proc : /\ stage[p] \in {"ring", "publish"} => req[p].b \in busy
                  /\ stage[p] = "publish" => avail[availIdx % NUM] = req[p].head

\* What is answered is done.
Settled ==
  /\ \A h \in Told : info[h].status = 0
  /\ \A p \in Proc : stage[p] = "done" \/ (Published(p) /\ req[p].head \notin Asked \cup work)
                       => bdata[req[p].b] = platter[req[p].b]

IInv == DiskTypes /\ Callers /\ Chained /\ Private /\ DiskPlaced /\ Publishing /\ Settled
-----------------------------------------------------------------------------
(* What the steps do *)

\* alloc_desc() finds a descriptor when one is free.
LEMMA LeastIs == ASSUME NEW S \in SUBSET Nat, S # {} PROVE Lowest(S) \in S
  <1>1. \E m \in S : \A n \in S : m <= n
    BY LeastNatural
  <1> QED
    BY <1>1 DEF Lowest, Min

Allocates(p, i, j, k) ==
  /\ i # j /\ i # k /\ j # k
  /\ free' = free \ {i, j, k}
  /\ desc' = [desc EXCEPT
       ![i] = [to |-> "header", next |-> j, chained |-> TRUE],
       ![j] = [to |-> req[p].b, next |-> k, chained |-> TRUE],
       ![k] = [to |-> "status", next |-> 0, chained |-> FALSE]]
  /\ info' = [info EXCEPT ![i] = [b |-> req[p].b, status |-> 255, write |-> req[p].write]]
  /\ req' = [req EXCEPT ![p] = [b |-> req[p].b, write |-> req[p].write, head |-> i]]

\* Three free descriptors are found.
LEMMA AllocIs ==
  ASSUME IInv, NEW p \in Proc, Alloc(p)
  PROVE  \E i, j, k \in free : Allocates(p, i, j, k)
  <1> DEFINE i == Lowest(free)
             j == Lowest(free \ {i})
             k == Lowest(free \ {i, j})
  <1>1. free \in SUBSET Nat /\ IsFiniteSet(free) /\ Cardinality(free) >= 3 /\ Cardinality(free) \in Nat
    <2>1. free \in SUBSET Index
      BY DEF IInv, DiskTypes
    <2>2. IsFiniteSet(free)
      BY <2>1, IndexFinite, FS_Subset
    <2> QED
      BY <2>1, <2>2, FS_CardinalityType DEF Alloc, Index
  <1>2. i \in free
    <2>1. free # {}
      BY <1>1, FS_EmptySet
    <2> QED
      BY <1>1, <2>1, LeastIs
  <1>3. IsFiniteSet(free \ {i}) /\ Cardinality(free \ {i}) = Cardinality(free) - 1
    BY <1>1, <1>2, FS_RemoveElement
  <1>4. j \in free \ {i}
    <2>1. free \ {i} # {}
      BY <1>1, <1>3, FS_EmptySet
    <2> QED
      BY <1>1, <2>1, LeastIs
  <1>5. Cardinality((free \ {i}) \ {j}) = Cardinality(free) - 2 /\ IsFiniteSet((free \ {i}) \ {j})
    <2> HIDE DEF i, j
    <2>1. Cardinality((free \ {i}) \ {j}) = Cardinality(free \ {i}) - 1 /\ IsFiniteSet((free \ {i}) \ {j})
      BY <1>3, <1>4, FS_RemoveElement
    <2> QED
      BY <1>1, <1>3, <2>1
  <1>6. k \in free \ {i, j}
    <2>1. (free \ {i}) \ {j} # {}
      BY <1>1, <1>5, FS_EmptySet
    <2>2. free \ {i, j} # {}
      BY <2>1
    <2> QED
      BY <1>1, <2>2, LeastIs
  <1>7. Alloc3(p)
    BY DEF Alloc
  <1>8. /\ free' = free \ {i, j, k}
        /\ desc' = [desc EXCEPT
             ![i] = [to |-> "header", next |-> j, chained |-> TRUE],
             ![j] = [to |-> req[p].b, next |-> k, chained |-> TRUE],
             ![k] = [to |-> "status", next |-> 0, chained |-> FALSE]]
        /\ info' = [info EXCEPT ![i] = [b |-> req[p].b, status |-> 255, write |-> req[p].write]]
        /\ req' = [req EXCEPT ![p].head = i]
    BY <1>7 DEF Alloc3
  <1> HIDE DEF i, j, k
  <1>9. req' = [req EXCEPT ![p] = [b |-> req[p].b, write |-> req[p].write, head |-> i]]
    <2>1. [req[p] EXCEPT !.head = i] = [b |-> req[p].b, write |-> req[p].write, head |-> i]
      <3>1. req[p] = [b |-> req[p].b, write |-> req[p].write, head |-> req[p].head]
        BY DEF IInv, Callers, Request
      <3> QED
        BY <3>1
    <2>2. req' = [req EXCEPT ![p] = [req[p] EXCEPT !.head = i]]
      BY <1>8
    <2> QED
      BY <2>1, <2>2
  <1>10. Allocates(p, i, j, k)
    BY <1>2, <1>4, <1>6, <1>8, <1>9 DEF Allocates
  <1> QED
    BY <1>2, <1>4, <1>6, <1>10

\* Two requests have two heads.
LEMMA HeadsApart ==
  ASSUME IInv, NEW p \in Waiting, NEW q \in Waiting, p # q
  PROVE  req[p].head # req[q].head
  BY DEF IInv, Private, Own, Links

\* The chain that free_chain() and the device walk.
LEMMA ChainIs ==
  ASSUME IInv, NEW p \in Waiting
  PROVE  Chain(req[p].head) = Links(req[p].head)
  <1> DEFINE i == req[p].head
             j == Second(i)
             k == Third(i)
  <1>1. desc[i].chained /\ desc[j].chained /\ desc[i].next = j /\ desc[j].next = k
    BY DEF IInv, Chained, Second, Third
  <1> HIDE DEF i, j, k
  <1>2. Linked({i}) = {i, j}
    BY <1>1 DEF Linked
  <1>3. Linked({i, j}) = {i, j, k}
    BY <1>1 DEF Linked
  <1> QED
    BY <1>2, <1>3 DEF Chain, Links, i, j, k

\* Requests are chains of descriptors.
LEMMA LinksInIndex ==
  ASSUME IInv, NEW p \in Waiting
  PROVE  p \in Proc /\ req[p].head \in Index /\ Links(req[p].head) \subseteq Index
  BY DEF IInv, DiskTypes, Callers, Request, Waiting, Links, Second, Third

\* Who has a descriptor the driver has published, the device has, or has answered.
LEMMA OwnerIs ==
  ASSUME IInv, NEW h \in Asked \cup work \cup Told, NEW q \in Waiting, req[q].head = h
  PROVE  Published(q) /\ req[q].b \in busy
  <1>1. PICK p \in Proc : Published(p) /\ req[p].head = h /\ req[p].b \in busy
    BY DEF IInv, DiskPlaced
  <1>2. p \in Waiting
    BY <1>1 DEF Published, Waiting
  <1>3. p = q
    BY <1>1, <1>2, HeadsApart
  <1> QED
    BY <1>1, <1>3

\* The rings hold descriptors.
LEMMA AskedInIndex ==
  ASSUME IInv
  PROVE  Asked \subseteq Index /\ Told \subseteq Index
  <1>1. \A h \in Asked \cup work \cup Told : h \in Index
    <2> SUFFICES ASSUME NEW h \in Asked \cup work \cup Told PROVE h \in Index
      OBVIOUS
    <2>1. PICK p \in Proc : Published(p) /\ req[p].head = h
      BY DEF IInv, DiskPlaced
    <2> QED
      BY <2>1 DEF IInv, Callers, Request
  <1> QED
    BY <1>1

\* Steps that change no more than who runs.
Alike ==
  \A q \in Proc : /\ (stage'[q] \in {"wait", "asleep"}) <=> (stage[q] \in {"wait", "asleep"})
                  /\ \A x \in {"idle", "ring", "publish", "done"} : stage'[q] = x <=> stage[q] = x
Quiet ==
  /\ UNCHANGED <<desc, free, avail, availIdx, info, used, deviceIdx, seen, work, platter,
                 usedIdx, busy, bdata, req>>
  /\ Alike

\* The steps of the driver and the interrupt handler that touch neither ring nor chain.
LEMMA QuietSteps ==
  ASSUME IInv, \/ \E p \in Proc : AllocFails(p) \/ Sleep(p) \/ Kill(p)
               \/ IntrAck \/ IntrEnd \/ UNCHANGED vars
  PROVE  Quiet
  <1>1. ASSUME NEW p \in Proc, AllocFails(p) PROVE Quiet
    BY <1>1 DEF AllocFails, Awake, driver, device, Quiet, Alike, IInv
  <1>2. ASSUME NEW p \in Proc, Sleep(p) PROVE Quiet
    BY <1>2 DEF Sleep, driver, device, Quiet, Alike, IInv
  <1>3. ASSUME NEW p \in Proc, Kill(p) PROVE Quiet
    BY <1>3 DEF Kill, driver, device, Quiet, Alike, IInv
  <1>4. CASE IntrAck
    BY <1>4 DEF IntrAck, driver, Quiet, Alike
  <1>5. CASE IntrEnd
    BY <1>5 DEF IntrEnd, driver, device, Quiet, Alike
  <1>6. CASE UNCHANGED vars
    BY <1>6 DEF vars, driver, device, Quiet, Alike
  <1> QED
    BY <1>1, <1>2, <1>3, <1>4, <1>5, <1>6
-----------------------------------------------------------------------------
(* The invariant is one *)

\* It holds at the start.
LEMMA Initially == Init => IInv
  <1> SUFFICES ASSUME Init PROVE IInv
    OBVIOUS
  <1>1. 0 \in Index /\ 0 \in 0 .. MaxRequests /\ StartIdx \in IndexOf /\ Index \subseteq Index
    BY Sizes DEF Index, IndexOf
  <1>2. DiskTypes
    BY <1>1 DEF Init, DiskTypes, Unused
  <1>3. Callers
    BY <1>1, Names DEF Init, Callers, Request, NoReq, Places
  <1>4. Waiting = {}
    BY DEF Init, Waiting
  <1>5. Chained /\ Private
    BY <1>4 DEF Init, Chained, Private
  <1>6. Gap(StartIdx, StartIdx) = 0
    BY <1>1, GapIs
  <1>7. Asked = {} /\ Told = {} /\ Distinct(avail, seen, availIdx) /\ Distinct(used, usedIdx, deviceIdx)
    BY <1>6, BetweenIs DEF Init, Asked, Told, Distinct
  <1>8. DiskPlaced /\ Publishing /\ Settled
    BY <1>7 DEF Init, DiskPlaced, Publishing, Settled
  <1> QED
    BY <1>2, <1>3, <1>5, <1>8 DEF IInv

\* The tables, rings and indices keep their types, ...
LEMMA DiskTypesKept ==
  ASSUME IInv, [Next]_vars
  PROVE  DiskTypes'
  <1>1. ASSUME NEW p \in Proc, Call(p) PROVE DiskTypes'
    <2>1. PICK b \in Block, w \in BOOLEAN : bdata' = [bdata EXCEPT ![b] = IF w THEN nreq + 1 ELSE 0]
      BY <1>1 DEF Call
    <2>2. nreq + 1 \in 0 .. MaxRequests /\ 0 \in 0 .. MaxRequests
      BY <1>1, Sizes DEF Call, IInv, DiskTypes
    <2>3. bdata' \in [Block -> 0 .. MaxRequests]
      BY <2>1, <2>2 DEF IInv, DiskTypes
    <2> QED
      BY <1>1, <2>2, <2>3 DEF Call, driver, device, IInv, DiskTypes
  <1>2. ASSUME NEW p \in Proc, Alloc(p) PROVE DiskTypes'
    <2>1. PICK i, j, k \in free : Allocates(p, i, j, k)
      BY <1>2, AllocIs
    <2>2. req[p].b \in Block /\ req[p].write \in BOOLEAN /\ 0 \in Index
      BY <1>2, Sizes DEF Alloc, IInv, Callers, Request, Index
    <2>3. i \in Index /\ j \in Index /\ k \in Index
      BY DEF IInv, DiskTypes
    <2>4. free' \in SUBSET Index
      BY <2>1 DEF Allocates, IInv, DiskTypes
    <2>5. desc' \in [Index -> [to : Block \cup {"none", "header", "status"}, next : Index, chained : BOOLEAN]]
      BY <2>1, <2>2, <2>3 DEF Allocates, IInv, DiskTypes
    <2>6. info' \in [Index -> [b : Block \cup {None}, status : {0, 255}, write : BOOLEAN]]
      BY <2>1, <2>2, <2>3 DEF Allocates, IInv, DiskTypes
    <2>7. /\ busy' \in SUBSET Block
          /\ UNCHANGED <<avail, availIdx, used, deviceIdx, seen, work, isr, platter, usedIdx, bdata, nreq>>
      BY <1>2, <2>2 DEF Alloc, device, IInv, DiskTypes
    <2> QED
      BY <2>4, <2>5, <2>6, <2>7 DEF IInv, DiskTypes
  <1>3. ASSUME NEW p \in Proc, AllocFails(p) PROVE DiskTypes'
    BY <1>3 DEF AllocFails, IInv, DiskTypes, driver, device
  <1>4. ASSUME NEW p \in Proc, Ring(p) PROVE DiskTypes'
    <2>1. avail' = [avail EXCEPT ![availIdx % NUM] = req[p].head] /\ req[p].head \in Index
      BY <1>4 DEF Ring, IInv, Callers, Request
    <2>2. avail' \in [Index -> Index]
      BY <2>1 DEF IInv, DiskTypes
    <2> QED
      BY <1>4, <2>2 DEF Ring, device, IInv, DiskTypes
  <1>5. ASSUME NEW p \in Proc, Publish(p) PROVE DiskTypes'
    <2>1. Succ(availIdx) \in IndexOf
      BY GapIs DEF IInv, DiskTypes
    <2> QED
      BY <1>5, <2>1 DEF Publish, device, IInv, DiskTypes
  <1>6. ASSUME NEW p \in Proc, Sleep(p) PROVE DiskTypes'
    BY <1>6 DEF Sleep, IInv, DiskTypes, driver, device
  <1>7. ASSUME NEW p \in Proc, Finish(p) PROVE DiskTypes'
    <2>1. p \in Waiting
      BY <1>7 DEF Finish, Waiting
    <2>2. Chain(req[p].head) \subseteq Index /\ req[p].head \in Index
      BY <2>1, ChainIs, LinksInIndex
    <2>3. free' \in SUBSET Index
      BY <1>7, <2>2 DEF Finish, IInv, DiskTypes
    <2>4. info' = [info EXCEPT ![req[p].head].b = None]
      BY <1>7 DEF Finish
    <2>5. info' \in [Index -> [b : Block \cup {None}, status : {0, 255}, write : BOOLEAN]]
      <3>1. info[req[p].head] \in [b : Block \cup {None}, status : {0, 255}, write : BOOLEAN]
        BY <2>2, <2>4 DEF IInv, DiskTypes
      <3>2. [info[req[p].head] EXCEPT !.b = None] \in [b : Block \cup {None}, status : {0, 255}, write : BOOLEAN]
        BY <3>1
      <3>3. info' = [info EXCEPT ![req[p].head] = [info[req[p].head] EXCEPT !.b = None]]
        BY <2>2, <2>4
      <3> QED
        BY <3>2, <3>3 DEF IInv, DiskTypes
    <2>6. desc' = [d \in Index |-> IF d \in Chain(req[p].head) THEN Unused ELSE desc[d]]
      BY <1>7 DEF Finish
    <2>7. desc' \in [Index -> [to : Block \cup {"none", "header", "status"}, next : Index, chained : BOOLEAN]]
      BY <2>6, Sizes DEF IInv, DiskTypes, Unused, Index
    <2> QED
      BY <1>7, <2>3, <2>5, <2>7 DEF Finish, device, IInv, DiskTypes
  <1>8. ASSUME NEW p \in Proc, Return(p) PROVE DiskTypes'
    BY <1>8 DEF Return, IInv, DiskTypes, driver, device
  <1>9. ASSUME NEW p \in Proc, Kill(p) PROVE DiskTypes'
    BY <1>9 DEF Kill, IInv, DiskTypes, driver, device
  <1>10. ASSUME DeviceTakes PROVE DiskTypes'
    <2>1. Succ(seen) \in IndexOf /\ avail[seen % NUM] \in Index
      BY GapIs, SlotIs DEF IInv, DiskTypes, IndexOf
    <2> QED
      BY <1>10, <2>1 DEF DeviceTakes, driver, IInv, DiskTypes
  <1>11. ASSUME NEW h \in Index, DeviceAnswers(h) PROVE DiskTypes'
    <2>1. Succ(deviceIdx) \in IndexOf
      BY GapIs DEF IInv, DiskTypes
    <2>2. used' \in [Index -> Index]
      BY <1>11 DEF DeviceAnswers, IInv, DiskTypes
    <2>3. info' = [info EXCEPT ![h].status = 0]
      BY <1>11 DEF DeviceAnswers
    <2>4. info' \in [Index -> [b : Block \cup {None}, status : {0, 255}, write : BOOLEAN]]
      <3>1. info[h] \in [b : Block \cup {None}, status : {0, 255}, write : BOOLEAN]
        BY <2>3 DEF IInv, DiskTypes
      <3>2. [info[h] EXCEPT !.status = 0] \in [b : Block \cup {None}, status : {0, 255}, write : BOOLEAN]
        BY <3>1
      <3>3. info' = [info EXCEPT ![h] = [info[h] EXCEPT !.status = 0]]
        BY <2>3
      <3> QED
        BY <3>2, <3>3 DEF IInv, DiskTypes
    <2>5. bdata' \in [Block -> 0 .. MaxRequests] /\ platter' \in [Block -> 0 .. MaxRequests]
      <3>1. bdata \in [Block -> 0 .. MaxRequests] /\ platter \in [Block -> 0 .. MaxRequests]
        BY DEF IInv, DiskTypes
      <3>2. PICK b \in Block : IF info[h].write THEN platter' = [platter EXCEPT ![b] = bdata[b]] /\ bdata' = bdata
                                ELSE bdata' = [bdata EXCEPT ![b] = platter[b]] /\ platter' = platter
        BY <1>11 DEF DeviceAnswers
      <3>3. CASE info[h].write
        BY <3>1, <3>2, <3>3
      <3>4. CASE ~info[h].write
        BY <3>1, <3>2, <3>4
      <3> QED
        BY <3>3, <3>4
    <2>6. /\ work' \in SUBSET Index /\ deviceIdx' = Succ(deviceIdx) /\ isr' = TRUE
          /\ UNCHANGED <<desc, free, avail, availIdx, seen, usedIdx, busy, nreq>>
      BY <1>11 DEF DeviceAnswers, IInv, DiskTypes
    <2> QED
      BY <2>1, <2>2, <2>4, <2>5, <2>6 DEF IInv, DiskTypes
  <1>12. ASSUME IntrAck PROVE DiskTypes'
    BY <1>12 DEF IntrAck, IInv, DiskTypes, driver
  <1>13. ASSUME IntrTake PROVE DiskTypes'
    <2>1. Succ(usedIdx) \in IndexOf
      BY GapIs DEF IInv, DiskTypes
    <2> QED
      BY <1>13, <2>1 DEF IntrTake, driver, device, IInv, DiskTypes
  <1>14. ASSUME IntrEnd PROVE DiskTypes'
    BY <1>14 DEF IntrEnd, IInv, DiskTypes, driver, device
  <1>15. ASSUME UNCHANGED vars PROVE DiskTypes'
    BY <1>15 DEF vars, driver, device, IInv, DiskTypes
  <1> QED
    BY <1>1, <1>2, <1>3, <1>4, <1>5, <1>6, <1>7, <1>8, <1>9, <1>10, <1>11, <1>12, <1>13, <1>14, <1>15
    DEF Next, Device, Intr, Rw

\* ... and so do the calls.
LEMMA CallersKept ==
  ASSUME IInv, [Next]_vars
  PROVE  Callers'
  <1>1. ASSUME NEW p \in Proc, Call(p) PROVE Callers'
    <2>1. PICK b \in Block \ {req[q].b : q \in Proc}, w \in BOOLEAN :
             req' = [req EXCEPT ![p] = [b |-> b, write |-> w, head |-> 0]]
      BY <1>1 DEF Call
    <2>2. stage' = [stage EXCEPT ![p] = "alloc"] /\ stage[p] = "idle" /\ lock' = lock /\ 0 \in Index
      BY <1>1, Sizes DEF Call, Index
    <2>3. req' \in [Proc -> Request] /\ req'[p].b = b /\ \A q \in Proc : q # p => req'[q] = req[q]
      BY <2>1, <2>2 DEF IInv, Callers, Request
    <2>4. stage' \in [Proc -> Places] /\ stage'[p] = "alloc" /\ \A q \in Proc : q # p => stage'[q] = stage[q]
      BY <2>2 DEF IInv, Callers, Places
    <2>5. \A q \in Proc : req[q].b # b
      BY <2>1
    <2> QED
      BY <2>1, <2>2, <2>3, <2>4, <2>5 DEF IInv, Callers
  <1>2. ASSUME NEW p \in Proc, Alloc(p) PROVE Callers'
    <2>1. PICK i, j, k \in free : Allocates(p, i, j, k)
      BY <1>2, AllocIs
    <2>2. /\ req' = [req EXCEPT ![p] = [b |-> req[p].b, write |-> req[p].write, head |-> i]] /\ i \in Index
          /\ stage' = [stage EXCEPT ![p] = "ring"] /\ lock' = p /\ lock = None /\ stage[p] = "alloc"
      BY <1>2, <2>1 DEF Allocates, Alloc, IInv, DiskTypes
    <2>3. req' \in [Proc -> Request] /\ \A q \in Proc : req'[q].b = req[q].b
      BY <2>2 DEF IInv, Callers, Request
    <2>4. \A q \in Proc : q # p => stage[q] \notin {"ring", "publish"}
      BY <2>2, Names DEF IInv, Callers
    <2>5. stage' \in [Proc -> Places] /\ \A q \in Proc : stage'[q] = "idle" <=> stage[q] = "idle"
      BY <2>2 DEF IInv, Callers, Places
    <2>6. \A q \in Proc : stage'[q] \in {"ring", "publish"} => q = p
      BY <2>2, <2>4 DEF IInv
    <2> QED
      BY <2>2, <2>3, <2>5, <2>6 DEF IInv, Callers
  <1>3. ASSUME NEW p \in Proc, AllocFails(p) PROVE Callers'
    BY <1>3 DEF AllocFails, Awake, IInv, Callers, Places
  <1>4. ASSUME NEW p \in Proc, Ring(p) PROVE Callers'
    BY <1>4 DEF Ring, IInv, Callers, Places
  <1>5. ASSUME NEW p \in Proc, Publish(p) PROVE Callers'
    BY <1>5 DEF Publish, IInv, Callers, Places
  <1>6. ASSUME NEW p \in Proc, Sleep(p) PROVE Callers'
    BY <1>6 DEF Sleep, IInv, Callers, Places
  <1>7. ASSUME NEW p \in Proc, Finish(p) PROVE Callers'
    BY <1>7 DEF Finish, Awake, IInv, Callers, Places
  <1>8. ASSUME NEW p \in Proc, Return(p) PROVE Callers'
    <2>1. /\ stage' = [stage EXCEPT ![p] = "idle"] /\ req' = [req EXCEPT ![p] = NoReq] /\ lock' = lock
          /\ NoReq \in Request /\ NoReq.b \notin Block
      BY <1>8, Names, Sizes DEF Return, NoReq, Request, Index
    <2> QED
      BY <2>1 DEF IInv, Callers, Places
  <1>9. ASSUME NEW p \in Proc, Kill(p) PROVE Callers'
    BY <1>9 DEF Kill, IInv, Callers, Places
  <1>10. ASSUME DeviceTakes PROVE Callers'
    BY <1>10 DEF DeviceTakes, IInv, Callers
  <1>11. ASSUME NEW h \in Index, DeviceAnswers(h) PROVE Callers'
    BY <1>11 DEF DeviceAnswers, IInv, Callers
  <1>12. ASSUME IntrAck PROVE Callers'
    BY <1>12, Names DEF IntrAck, IInv, Callers
  <1>13. ASSUME IntrTake PROVE Callers'
    BY <1>13 DEF IntrTake, IInv, Callers, Places
  <1>14. ASSUME IntrEnd PROVE Callers'
    BY <1>14, Names DEF IntrEnd, IInv, Callers
  <1>15. ASSUME UNCHANGED vars PROVE Callers'
    BY <1>15 DEF vars, IInv, Callers
  <1> QED
    BY <1>1, <1>2, <1>3, <1>4, <1>5, <1>6, <1>7, <1>8, <1>9, <1>10, <1>11, <1>12, <1>13, <1>14, <1>15
    DEF Next, Device, Intr, Rw

\* The chains of requests other than p's stay.
Takes(p, i, j, k) ==
  /\ Waiting' = Waiting \cup {p} /\ p \notin Waiting
  /\ \A d \in Index : d \notin {i, j, k} => desc'[d] = desc[d] /\ info'[d] = info[d]
  /\ \A q \in Waiting : Links(req[q].head) \cap {i, j, k} = {}
  /\ \A q \in Waiting : req'[q] = req[q]
  /\ desc'[i] = [to |-> "header", next |-> j, chained |-> TRUE]
  /\ desc'[j] = [to |-> req[p].b, next |-> k, chained |-> TRUE]
  /\ info'[i] = [b |-> req[p].b, status |-> 255, write |-> req[p].write]
  /\ req'[p] = [b |-> req[p].b, write |-> req[p].write, head |-> i]
  /\ i # j /\ i # k /\ j # k /\ i \in Index /\ j \in Index /\ k \in Index
  /\ free' = free \ {i, j, k} /\ {i, j, k} \subseteq free

\* alloc3_desc() takes three free descriptors, none of them of another request.
LEMMA AllocTakes ==
  ASSUME IInv, NEW p \in Proc, Alloc(p)
  PROVE  \E i, j, k \in free : Takes(p, i, j, k)
  <1>0. PICK i, j, k \in free : Allocates(p, i, j, k)
    BY AllocIs
  <1>1. stage[p] = "alloc" /\ stage' = [stage EXCEPT ![p] = "ring"]
    BY DEF Alloc
  <1>2. Waiting' = Waiting \cup {p} /\ p \notin Waiting
    BY <1>1 DEF Waiting, IInv, Callers
  <1>3. \A q \in Waiting : Links(req[q].head) \cap {i, j, k} = {}
    BY DEF IInv, Private, Own, DiskTypes
  <1>4. i \in Index /\ j \in Index /\ k \in Index
    BY DEF IInv, DiskTypes
  <1>5. \A d \in Index : d \notin {i, j, k} => desc'[d] = desc[d] /\ info'[d] = info[d]
    BY <1>0, <1>4 DEF Allocates, IInv, DiskTypes
  <1>6. /\ desc'[i] = [to |-> "header", next |-> j, chained |-> TRUE]
        /\ desc'[j] = [to |-> req[p].b, next |-> k, chained |-> TRUE]
        /\ info'[i] = [b |-> req[p].b, status |-> 255, write |-> req[p].write]
    BY <1>0, <1>4 DEF Allocates, IInv, DiskTypes
  <1>7. /\ req'[p] = [b |-> req[p].b, write |-> req[p].write, head |-> i]
        /\ \A q \in Waiting : req'[q] = req[q]
    BY <1>0, <1>2 DEF Allocates, IInv, Callers
  <1>8. Takes(p, i, j, k)
    BY <1>0, <1>2, <1>3, <1>4, <1>5, <1>6, <1>7 DEF Takes, Allocates
  <1> QED
    BY <1>8

\* Links of a chain whose descriptors are not written are the same.
LEMMA SameLinks ==
  ASSUME NEW i, desc'[i] = desc[i], desc'[Second(i)] = desc[Second(i)]
  PROVE  Second(i)' = Second(i) /\ Third(i)' = Third(i) /\ Links(i)' = Links(i)
  BY DEF Second, Third, Links

\* free_chain() gives back the chain of the request and nothing of another.
LEMMA FinishSpares ==
  ASSUME IInv, NEW p \in Proc, Finish(p)
  PROVE  /\ Waiting' = Waiting \ {p} /\ p \in Waiting
         /\ \A q \in Waiting \ {p} : \A d \in Links(req[q].head) : desc'[d] = desc[d]
         /\ \A q \in Waiting \ {p} : info'[req[q].head] = info[req[q].head]
         /\ req' = req /\ free' = free \cup Links(req[p].head)
  <1>1. p \in Waiting
    BY DEF Finish, Waiting
  <1>2. stage' = [Awake([nodesc |-> "alloc"]) EXCEPT ![p] = "done"]
    BY DEF Finish
  <1>3. Waiting' = Waiting \ {p}
    BY <1>2 DEF Waiting, Awake, IInv
  <1>4. Chain(req[p].head) = Links(req[p].head)
    BY <1>1, ChainIs
  <1>5. /\ desc' = [d \in Index |-> IF d \in Links(req[p].head) THEN Unused ELSE desc[d]]
        /\ info' = [info EXCEPT ![req[p].head].b = None]
        /\ req' = req /\ free' = free \cup Links(req[p].head)
    BY <1>4 DEF Finish
  <1>6. ASSUME NEW q \in Waiting \ {p}, NEW d \in Links(req[q].head) PROVE desc'[d] = desc[d]
    <2>1. d \notin Links(req[p].head) /\ d \in Index
      BY <1>1, LinksInIndex DEF IInv, Private, Own
    <2> QED
      BY <1>5, <2>1
  <1>7. ASSUME NEW q \in Waiting \ {p} PROVE info'[req[q].head] = info[req[q].head]
    <2>1. req[q].head # req[p].head
      BY <1>1, HeadsApart
    <2> QED
      BY <1>1, <1>5, <2>1, LinksInIndex DEF IInv
  <1> QED
    BY <1>1, <1>3, <1>5, <1>6, <1>7

\* The chain of a request is its header, its buffer and its status.
LEMMA ChainedKept ==
  ASSUME IInv, [Next]_vars
  PROVE  Chained'
  <1>1. ASSUME NEW p \in Proc, Call(p) PROVE Chained'
    <2>1. Waiting' = Waiting /\ \A q \in Waiting : req'[q] = req[q]
      BY <1>1 DEF Call, Waiting, IInv
    <2>2. desc' = desc /\ info' = info /\ free' = free
      BY <1>1 DEF Call, driver
    <2> QED
      BY <2>1, <2>2 DEF IInv, Chained, Second, Third
  <1>2. ASSUME NEW p \in Proc, Alloc(p) PROVE Chained'
    <2>1. PICK i, j, k \in free : Takes(p, i, j, k)
      BY <1>2, AllocTakes
    <2>2. ASSUME NEW q \in Waiting
          PROVE  /\ req'[q] = req[q] /\ desc'[req[q].head] = desc[req[q].head]
                 /\ desc'[Second(req[q].head)] = desc[Second(req[q].head)] /\ info'[req[q].head] = info[req[q].head]
      <3>1. req[q].head \in Links(req[q].head) /\ Second(req[q].head) \in Links(req[q].head)
        BY DEF Links
      <3>2. Links(req[q].head) \subseteq Index
        BY LinksInIndex
      <3>3. /\ req'[q] = req[q] /\ Links(req[q].head) \cap {i, j, k} = {}
            /\ \A d \in Index : d \notin {i, j, k} => desc'[d] = desc[d] /\ info'[d] = info[d]
        BY <2>1 DEF Takes
      <3> QED
        BY <3>1, <3>2, <3>3
    <2>3. ASSUME NEW q \in Waiting
          PROVE  /\ Second(req[q].head)' = Second(req[q].head) /\ Third(req[q].head)' = Third(req[q].head)
      BY <2>2 DEF Second, Third
    <2>4. /\ i # j /\ i # k /\ j # k /\ Waiting' = Waiting \cup {p}
          /\ desc'[i].next = j /\ desc'[j].next = k /\ desc'[i].chained /\ desc'[j].chained /\ desc'[j].to = req[p].b
          /\ info'[i].b = req[p].b /\ info'[i].write = req[p].write
          /\ req'[p].b = req[p].b /\ req'[p].write = req[p].write /\ req'[p].head = i
      BY <2>1 DEF Takes
    <2>5. ASSUME NEW q \in Waiting'
          PROVE  LET h == req'[q].head
                     s == desc'[h].next
                     t == desc'[s].next
                 IN /\ h # s /\ h # t /\ s # t /\ desc'[h].chained /\ desc'[s].chained
                    /\ desc'[s].to = req'[q].b
                    /\ info'[h].b = req'[q].b /\ info'[h].write = req'[q].write
      <3>1. CASE q = p
        BY <2>4, <3>1
      <3>2. CASE q \in Waiting
        BY <2>2, <3>2 DEF IInv, Chained, Second, Third
      <3> QED
        BY <2>4, <3>1, <3>2
    <2> QED
      BY <2>5 DEF Chained, Second, Third
  <1>3. ASSUME NEW p \in Proc, Ring(p) PROVE Chained'
    <2>1. Waiting' = Waiting /\ \A q \in Waiting : req'[q] = req[q]
      BY <1>3 DEF Ring, Waiting, IInv
    <2>2. desc' = desc /\ info' = info /\ free' = free
      BY <1>3 DEF Ring
    <2> QED
      BY <2>1, <2>2 DEF IInv, Chained, Second, Third
  <1>4. ASSUME NEW p \in Proc, Publish(p) PROVE Chained'
    <2>1. Waiting' = Waiting /\ \A q \in Waiting : req'[q] = req[q]
      BY <1>4 DEF Publish, Waiting, IInv
    <2>2. desc' = desc /\ info' = info /\ free' = free
      BY <1>4 DEF Publish
    <2> QED
      BY <2>1, <2>2 DEF IInv, Chained, Second, Third
  <1>5. ASSUME NEW p \in Proc, Finish(p) PROVE Chained'
    <2>1. Waiting' \subseteq Waiting /\ req' = req
      BY <1>5, FinishSpares
    <2>2. ASSUME NEW q \in Waiting'
          PROVE  /\ desc'[req[q].head] = desc[req[q].head] /\ desc'[Second(req[q].head)] = desc[Second(req[q].head)]
                 /\ info'[req[q].head] = info[req[q].head]
      <3>1. req[q].head \in Links(req[q].head) /\ Second(req[q].head) \in Links(req[q].head)
        BY DEF Links
      <3> QED
        BY <1>5, <3>1, FinishSpares
    <2> QED
      BY <2>1, <2>2 DEF IInv, Chained, Second, Third
  <1>6. ASSUME NEW p \in Proc, Return(p) PROVE Chained'
    <2>1. Waiting' = Waiting /\ \A q \in Waiting : req'[q] = req[q]
      BY <1>6 DEF Return, Waiting, IInv
    <2>2. desc' = desc /\ info' = info /\ free' = free
      BY <1>6 DEF Return, driver
    <2> QED
      BY <2>1, <2>2 DEF IInv, Chained, Second, Third
  <1>7. ASSUME DeviceTakes PROVE Chained'
    <2>1. Waiting' = Waiting /\ \A q \in Waiting : req'[q] = req[q]
      BY <1>7 DEF DeviceTakes, Waiting, IInv
    <2>2. desc' = desc /\ info' = info /\ free' = free
      BY <1>7 DEF DeviceTakes, driver
    <2> QED
      BY <2>1, <2>2 DEF IInv, Chained, Second, Third
  <1>8. ASSUME NEW h \in Index, DeviceAnswers(h) PROVE Chained'
    <2>1. Waiting' = Waiting /\ req' = req /\ desc' = desc
      BY <1>8 DEF DeviceAnswers, Waiting
    <2>2. info' = [info EXCEPT ![h].status = 0]
      BY <1>8 DEF DeviceAnswers
    <2>3. \A d \in Index : info'[d].b = info[d].b /\ info'[d].write = info[d].write
      BY <2>2 DEF IInv
    <2>4. \A q \in Waiting : req[q].head \in Index
      BY LinksInIndex
    <2> QED
      BY <2>1, <2>3, <2>4 DEF IInv, Chained, Second, Third
  <1>9. ASSUME IntrTake PROVE Chained'
    <2>1. Waiting' = Waiting /\ \A q \in Waiting : req'[q] = req[q]
      BY <1>9 DEF IntrTake, Waiting, IInv
    <2>2. desc' = desc /\ info' = info /\ free' = free
      BY <1>9 DEF IntrTake, driver
    <2> QED
      BY <2>1, <2>2 DEF IInv, Chained, Second, Third
  <1>10. ASSUME Quiet PROVE Chained'
    <2>1. Waiting' = Waiting
      BY <1>10 DEF Quiet, Alike, Waiting
    <2> QED
      BY <1>10, <2>1 DEF Quiet, IInv, Chained, Second, Third
  <1> QED
    BY <1>1, <1>2, <1>3, <1>4, <1>5, <1>6, <1>7, <1>8, <1>9, <1>10, QuietSteps DEF Next, Device, Intr, Rw

\* The chains share no descriptor, and the rest are free.
LEMMA PrivateKept ==
  ASSUME IInv, [Next]_vars
  PROVE  Private'
  <1>1. ASSUME NEW p \in Proc, Call(p) PROVE Private'
    <2>1. Waiting' = Waiting /\ \A q \in Waiting : req'[q] = req[q]
      BY <1>1 DEF Call, Waiting, IInv
    <2>2. desc' = desc /\ info' = info /\ free' = free
      BY <1>1 DEF Call, driver
    <2> QED
      BY <2>1, <2>2 DEF IInv, Private, Own, Links, Second, Third
  <1>2. ASSUME NEW p \in Proc, Alloc(p) PROVE Private'
    <2>1. PICK i, j, k \in free : Takes(p, i, j, k)
      BY <1>2, AllocTakes
    <2>2. ASSUME NEW q \in Waiting PROVE req'[q].head = req[q].head /\ Links(req[q].head)' = Links(req[q].head)
      <3>1. req[q].head \in Links(req[q].head) /\ Second(req[q].head) \in Links(req[q].head)
        BY DEF Links
      <3>2. Links(req[q].head) \subseteq Index
        BY LinksInIndex
      <3>3. /\ req'[q] = req[q] /\ desc'[req[q].head] = desc[req[q].head]
            /\ desc'[Second(req[q].head)] = desc[Second(req[q].head)]
        <4>1. /\ req'[q] = req[q] /\ Links(req[q].head) \cap {i, j, k} = {}
              /\ \A d \in Index : d \notin {i, j, k} => desc'[d] = desc[d]
          BY <2>1 DEF Takes
        <4> QED
          BY <3>1, <3>2, <4>1
      <3> QED
        BY <3>3, SameLinks
    <2>3. Links(i)' = {i, j, k} /\ req'[p].head = i /\ Waiting' = Waiting \cup {p} /\ free' = free \ {i, j, k}
          /\ p \notin Waiting
      BY <2>1 DEF Takes, Links, Second, Third
    <2>4. \A q \in Waiting : Links(req[q].head) \cap {i, j, k} = {}
      BY <2>1 DEF Takes
    <2>5. \A q \in Waiting' : \E L : /\ L = Links(req[q].head)'
                                     /\ L = IF q = p THEN {i, j, k} ELSE Links(req[q].head)
      BY <2>2, <2>3
    <2>6. \A q \in Waiting' : Links(req[q].head)' = IF q = p THEN {i, j, k} ELSE Links(req[q].head)
      BY <2>5
    <2>7. \A q \in Waiting' : Own(q)' = IF q = p THEN {i, j, k} ELSE Own(q)
      BY <2>6 DEF Own
    <2>8. \A q \in Waiting : Own(q) \cap {i, j, k} = {} /\ q # p
      BY <2>3, <2>4 DEF Own
    <2>9. \A q, r \in Waiting' : q # r => Own(q)' \cap Own(r)' = {}
      BY <2>3, <2>7, <2>8 DEF IInv, Private
    <2>10. ASSUME NEW d \in Index PROVE d \in free' <=> \A q \in Waiting' : d \notin Own(q)'
      <3>1. d \in free <=> \A q \in Waiting : d \notin Own(q)
        BY DEF IInv, Private
      <3> QED
        BY <2>3, <2>7, <2>8, <3>1
    <2> QED
      BY <2>9, <2>10 DEF Private
  <1>3. ASSUME NEW p \in Proc, Ring(p) PROVE Private'
    <2>1. Waiting' = Waiting /\ \A q \in Waiting : req'[q] = req[q]
      BY <1>3 DEF Ring, Waiting, IInv
    <2>2. desc' = desc /\ info' = info /\ free' = free
      BY <1>3 DEF Ring
    <2> QED
      BY <2>1, <2>2 DEF IInv, Private, Own, Links, Second, Third
  <1>4. ASSUME NEW p \in Proc, Publish(p) PROVE Private'
    <2>1. Waiting' = Waiting /\ \A q \in Waiting : req'[q] = req[q]
      BY <1>4 DEF Publish, Waiting, IInv
    <2>2. desc' = desc /\ info' = info /\ free' = free
      BY <1>4 DEF Publish
    <2> QED
      BY <2>1, <2>2 DEF IInv, Private, Own, Links, Second, Third
  <1>5. ASSUME NEW p \in Proc, Finish(p) PROVE Private'
    <2>1. Waiting' = Waiting \ {p} /\ p \in Waiting /\ req' = req /\ free' = free \cup Links(req[p].head)
      BY <1>5, FinishSpares
    <2>2. ASSUME NEW q \in Waiting' PROVE Links(req[q].head)' = Links(req[q].head)
      <3>1. req[q].head \in Links(req[q].head) /\ Second(req[q].head) \in Links(req[q].head)
        BY DEF Links
      <3>2. desc'[req[q].head] = desc[req[q].head] /\ desc'[Second(req[q].head)] = desc[Second(req[q].head)]
        BY <1>5, <2>1, <3>1, FinishSpares
      <3> QED
        BY <2>1, <3>2 DEF Links, Second, Third
    <2>3. Links(req[p].head) \subseteq Index
      BY <2>1, LinksInIndex
    <2>4. \A q \in Waiting' : Own(q)' = Own(q)
      BY <2>2, <2>1 DEF Own
    <2>5. free' = free \cup Own(p) /\ Own(p) \subseteq Index
      BY <2>1, <2>3 DEF Own
    <2>6. \A q, r \in Waiting' : q # r => Own(q)' \cap Own(r)' = {}
      BY <2>1, <2>4 DEF IInv, Private
    <2>7. ASSUME NEW d \in Index PROVE d \in free' <=> \A q \in Waiting' : d \notin Own(q)'
      <3>1. d \in free <=> \A q \in Waiting : d \notin Own(q)
        BY DEF IInv, Private
      <3>2. \A q \in Waiting : q # p => Own(q) \cap Own(p) = {}
        BY <2>1 DEF IInv, Private
      <3> QED
        BY <2>1, <2>4, <2>5, <3>1, <3>2
    <2> QED
      BY <2>6, <2>7 DEF Private
  <1>6. ASSUME NEW p \in Proc, Return(p) PROVE Private'
    <2>1. Waiting' = Waiting /\ \A q \in Waiting : req'[q] = req[q]
      BY <1>6 DEF Return, Waiting, IInv
    <2>2. desc' = desc /\ info' = info /\ free' = free
      BY <1>6 DEF Return, driver
    <2> QED
      BY <2>1, <2>2 DEF IInv, Private, Own, Links, Second, Third
  <1>7. ASSUME DeviceTakes PROVE Private'
    <2>1. Waiting' = Waiting /\ \A q \in Waiting : req'[q] = req[q]
      BY <1>7 DEF DeviceTakes, Waiting, IInv
    <2>2. desc' = desc /\ info' = info /\ free' = free
      BY <1>7 DEF DeviceTakes, driver
    <2> QED
      BY <2>1, <2>2 DEF IInv, Private, Own, Links, Second, Third
  <1>8. ASSUME NEW h \in Index, DeviceAnswers(h) PROVE Private'
    <2>1. Waiting' = Waiting /\ UNCHANGED <<req, desc, free>>
      BY <1>8 DEF DeviceAnswers, Waiting
    <2> QED
      BY <2>1 DEF IInv, Private, Own, Links, Second, Third
  <1>9. ASSUME IntrTake PROVE Private'
    <2>1. Waiting' = Waiting /\ \A q \in Waiting : req'[q] = req[q]
      BY <1>9 DEF IntrTake, Waiting, IInv
    <2>2. desc' = desc /\ info' = info /\ free' = free
      BY <1>9 DEF IntrTake, driver
    <2> QED
      BY <2>1, <2>2 DEF IInv, Private, Own, Links, Second, Third
  <1>10. ASSUME Quiet PROVE Private'
    <2>1. Waiting' = Waiting
      BY <1>10 DEF Quiet, Alike, Waiting
    <2> QED
      BY <1>10, <2>1 DEF Quiet, IInv, Private, Own, Links, Second, Third
  <1> QED
    BY <1>1, <1>2, <1>3, <1>4, <1>5, <1>6, <1>7, <1>8, <1>9, <1>10, QuietSteps DEF Next, Device, Intr, Rw

Orderly == Distinct(avail, seen, availIdx) /\ Distinct(used, usedIdx, deviceIdx)

\* A request that is not published yet is nowhere.
LEMMA Elsewhere ==
  ASSUME IInv, NEW p \in Waiting, ~Published(p) \/ req[p].b \notin busy
  PROVE  req[p].head \notin Asked \cup work \cup Told
  <1> SUFFICES ASSUME req[p].head \in Asked \cup work \cup Told PROVE FALSE
    OBVIOUS
  <1>1. Published(p) /\ req[p].b \in busy
    BY OwnerIs
  <1> QED
    BY <1>1

\* What each step does to the rings.
LEMMA RingsStay ==
  ASSUME IInv, UNCHANGED <<avail, availIdx, used, deviceIdx, seen, usedIdx>>
  PROVE  Asked' = Asked /\ Told' = Told /\ Orderly'
  BY DEF IInv, DiskPlaced, Orderly, Asked, Told, Between, Distinct, Entry, Gap

\* An entry written behind the index is not in the ring yet.
LEMMA RingDoes ==
  ASSUME IInv, NEW p \in Proc, Ring(p)
  PROVE  Asked' = Asked /\ Told' = Told /\ Orderly'
  <1>1. p \in Waiting /\ ~Published(p)
    BY DEF Ring, Waiting, Published
  <1>2. req[p].head \notin Asked /\ req[p].head \in Index
    BY <1>1, Elsewhere, LinksInIndex
  <1>3. /\ avail \in [Index -> Index] /\ seen \in IndexOf /\ availIdx \in IndexOf
        /\ Distinct(avail, seen, availIdx) /\ Distinct(used, usedIdx, deviceIdx)
    BY DEF IInv, DiskTypes, DiskPlaced
  <1>4. Gap(seen, availIdx) < NUM
    BY <1>2, <1>3, RingHasRoom DEF Asked
  <1> DEFINE r == [avail EXCEPT ![availIdx % NUM] = req[p].head]
  <1>5. Between(r, seen, availIdx) = Asked /\ Distinct(r, seen, availIdx)
    BY <1>2, <1>3, <1>4, RingWritten DEF Asked
  <1>6. avail' = r /\ UNCHANGED <<availIdx, used, deviceIdx, seen, usedIdx>>
    BY DEF Ring, device
  <1> HIDE DEF r
  <1>7. Asked' = Between(r, seen, availIdx) /\ Told' = Told
    BY <1>6 DEF Asked, Told, Between
  <1>8. Orderly'
    BY <1>3, <1>5, <1>6 DEF Orderly, Distinct, Entry, Gap
  <1> QED
    BY <1>5, <1>7, <1>8

\* Raising the index puts the entry into the ring.
LEMMA PublishDoes ==
  ASSUME IInv, NEW p \in Proc, Publish(p)
  PROVE  /\ Asked' = Asked \cup {req[p].head} /\ Told' = Told /\ Orderly'
         /\ req[p].head \notin Asked \cup work \cup Told
  <1>1. p \in Waiting /\ ~Published(p)
    BY DEF Publish, Waiting, Published
  <1>2. req[p].head \notin Asked \cup work \cup Told /\ req[p].head \in Index
    BY <1>1, Elsewhere, LinksInIndex
  <1>3. /\ avail \in [Index -> Index] /\ seen \in IndexOf /\ availIdx \in IndexOf
        /\ Distinct(avail, seen, availIdx) /\ Distinct(used, usedIdx, deviceIdx)
    BY DEF IInv, DiskTypes, DiskPlaced
  <1>4. Gap(seen, availIdx) < NUM
    BY <1>2, <1>3, RingHasRoom DEF Asked
  <1>5. avail[availIdx % NUM] = req[p].head
    BY DEF Publish, IInv, Publishing
  <1>6. Between(avail, seen, Succ(availIdx)) = Asked \cup {req[p].head} /\ Distinct(avail, seen, Succ(availIdx))
    BY <1>2, <1>3, <1>4, <1>5, RingPublished DEF Asked
  <1>7. availIdx' = Succ(availIdx) /\ UNCHANGED <<avail, used, deviceIdx, seen, usedIdx>>
    BY DEF Publish, device
  <1>8. Asked' = Between(avail, seen, Succ(availIdx)) /\ Told' = Told
    BY <1>7 DEF Asked, Told, Between
  <1>9. Orderly'
    BY <1>3, <1>6, <1>7 DEF Orderly, Distinct, Entry, Gap
  <1> QED
    BY <1>2, <1>6, <1>8, <1>9

\* The device moves an entry of the ring into its hands.
LEMMA TakingDoes ==
  ASSUME IInv, DeviceTakes
  PROVE  \E x \in Asked : Asked' = Asked \ {x} /\ work' = work \cup {x} /\ Told' = Told /\ Orderly'
  <1>1. /\ avail \in [Index -> Index] /\ seen \in IndexOf /\ availIdx \in IndexOf
        /\ Distinct(avail, seen, availIdx) /\ Distinct(used, usedIdx, deviceIdx)
    BY DEF IInv, DiskTypes, DiskPlaced
  <1>2. seen # availIdx
    BY DEF DeviceTakes
  <1> DEFINE x == avail[seen % NUM]
  <1>3. /\ x \in Asked /\ Between(avail, Succ(seen), availIdx) = Asked \ {x}
        /\ Distinct(avail, Succ(seen), availIdx)
    BY <1>1, <1>2, RingTaken DEF Asked
  <1>4. seen' = Succ(seen) /\ work' = work \cup {x} /\ UNCHANGED <<avail, availIdx, used, deviceIdx, usedIdx>>
    BY DEF DeviceTakes, driver
  <1> HIDE DEF x
  <1>5. Asked' = Between(avail, Succ(seen), availIdx) /\ Told' = Told
    BY <1>4 DEF Asked, Told, Between
  <1>6. Orderly'
    BY <1>1, <1>3, <1>4 DEF Orderly, Distinct, Entry, Gap
  <1> QED
    BY <1>3, <1>4, <1>5, <1>6

\* The device moves what it has done into the other ring.
LEMMA AnsweringDoes ==
  ASSUME IInv, NEW h \in Index, DeviceAnswers(h)
  PROVE  Asked' = Asked /\ h \in work /\ work' = work \ {h} /\ Told' = Told \cup {h} /\ Orderly'
  <1>1. /\ used \in [Index -> Index] /\ usedIdx \in IndexOf /\ deviceIdx \in IndexOf
        /\ Distinct(avail, seen, availIdx) /\ Distinct(used, usedIdx, deviceIdx)
    BY DEF IInv, DiskTypes, DiskPlaced
  <1>2. h \in work /\ h \notin Told
    BY DEF DeviceAnswers, IInv, DiskPlaced
  <1>3. Gap(usedIdx, deviceIdx) < NUM
    BY <1>1, <1>2, RingHasRoom DEF Told
  <1> DEFINE r == [used EXCEPT ![deviceIdx % NUM] = h]
  <1>4. Between(r, usedIdx, deviceIdx) = Told /\ Distinct(r, usedIdx, deviceIdx)
    BY <1>1, <1>3, RingWritten DEF Told
  <1>5. r \in [Index -> Index] /\ r[deviceIdx % NUM] = h
    <2>1. deviceIdx % NUM \in Index
      BY <1>1, SlotIs DEF IndexOf
    <2> QED
      BY <1>1, <2>1
  <1>6. used' = r /\ deviceIdx' = Succ(deviceIdx) /\ work' = work \ {h}
        /\ UNCHANGED <<avail, availIdx, seen, usedIdx>>
    BY DEF DeviceAnswers
  <1> HIDE DEF r
  <1>7. Between(r, usedIdx, Succ(deviceIdx)) = Told \cup {h} /\ Distinct(r, usedIdx, Succ(deviceIdx))
    BY <1>1, <1>2, <1>3, <1>4, <1>5, RingPublished
  <1>8. Asked' = Asked /\ Told' = Between(r, usedIdx, Succ(deviceIdx))
    BY <1>6 DEF Asked, Told, Between
  <1>9. Orderly'
    BY <1>1, <1>6, <1>7 DEF Orderly, Distinct, Entry, Gap
  <1> QED
    BY <1>2, <1>6, <1>7, <1>8, <1>9

\* The interrupt handler takes an entry of that ring and releases the buffer of its request.
LEMMA CompletingDoes ==
  ASSUME IInv, IntrTake
  PROVE  \E x \in Told, p \in Waiting :
           /\ req[p].head = x /\ Published(p)
           /\ Asked' = Asked /\ Told' = Told \ {x} /\ Orderly' /\ busy' = busy \ {req[p].b}
  <1>1. /\ used \in [Index -> Index] /\ usedIdx \in IndexOf /\ deviceIdx \in IndexOf
        /\ Distinct(avail, seen, availIdx) /\ Distinct(used, usedIdx, deviceIdx)
    BY DEF IInv, DiskTypes, DiskPlaced
  <1>2. usedIdx # deviceIdx
    BY DEF IntrTake
  <1> DEFINE x == used[usedIdx % NUM]
  <1>3. /\ x \in Told /\ Between(used, Succ(usedIdx), deviceIdx) = Told \ {x}
        /\ Distinct(used, Succ(usedIdx), deviceIdx)
    BY <1>1, <1>2, RingTaken DEF Told
  <1>4. PICK p \in Proc : Published(p) /\ req[p].head = x
    BY <1>3 DEF IInv, DiskPlaced
  <1>5. p \in Waiting /\ info[x].b = req[p].b
    BY <1>4 DEF Published, Waiting, IInv, Chained
  <1>6. usedIdx' = Succ(usedIdx) /\ busy' = busy \ {info[x].b}
        /\ UNCHANGED <<avail, availIdx, used, deviceIdx, seen>>
    BY DEF IntrTake, driver, device
  <1> HIDE DEF x
  <1>7. Asked' = Asked /\ Told' = Between(used, Succ(usedIdx), deviceIdx)
    BY <1>6 DEF Asked, Told, Between
  <1>8. Orderly'
    BY <1>1, <1>3, <1>6 DEF Orderly, Distinct, Entry, Gap
  <1> QED
    BY <1>3, <1>4, <1>5, <1>6, <1>7, <1>8

\* Every request that is published is somewhere, and in one place.
LEMMA DiskPlacedKept ==
  ASSUME IInv, [Next]_vars
  PROVE  DiskPlaced'
  <1>1. ASSUME NEW p \in Proc, Call(p) PROVE DiskPlaced'
    <2>1. Asked' = Asked /\ Told' = Told /\ Orderly' /\ work' = work
      <3>1. UNCHANGED <<avail, availIdx, used, deviceIdx, seen, usedIdx, work>>
        BY <1>1 DEF Call, driver, device
      <3> QED
        BY <3>1, RingsStay
    <2>2. Asked \cap work = {} /\ Asked \cap Told = {} /\ work \cap Told = {}
      BY DEF IInv, DiskPlaced
    <2>3. ASSUME NEW q \in Proc, Published(q), req[q].b \in busy
          PROVE  Published(q)' /\ req'[q] = req[q] /\ req'[q].b \in busy'
      BY <1>1, <2>3 DEF Call, Published, IInv
    <2>4. ASSUME NEW h \in Asked \cup work \cup Told
          PROVE  \E q \in Proc : Published(q)' /\ req'[q].head = h /\ req'[q].b \in busy'
      <3>1. PICK q \in Proc : Published(q) /\ req[q].head = h /\ req[q].b \in busy
        BY DEF IInv, DiskPlaced
      <3> QED
        BY <2>3, <3>1
    <2> QED
      BY <2>1, <2>2, <2>4 DEF DiskPlaced, Orderly
  <1>2. ASSUME NEW p \in Proc, Alloc(p) PROVE DiskPlaced'
    <2>1. Asked' = Asked /\ Told' = Told /\ Orderly' /\ work' = work
      <3>1. UNCHANGED <<avail, availIdx, used, deviceIdx, seen, usedIdx, work>>
        BY <1>2 DEF Alloc, device
      <3> QED
        BY <3>1, RingsStay
    <2>2. Asked \cap work = {} /\ Asked \cap Told = {} /\ work \cap Told = {}
      BY DEF IInv, DiskPlaced
    <2>3. ASSUME NEW q \in Proc, Published(q), req[q].b \in busy
          PROVE  Published(q)' /\ req'[q] = req[q] /\ req'[q].b \in busy'
      <3>1. PICK i, j, k \in free : Takes(p, i, j, k)
        BY <1>2, AllocTakes
      <3>2. q \in Waiting /\ q # p
        BY <1>2, <2>3 DEF Alloc, Published, Waiting
      <3>3. req'[q] = req[q]
        BY <3>1, <3>2 DEF Takes
      <3> QED
        BY <1>2, <2>3, <3>2, <3>3 DEF Alloc, Published, IInv
    <2>4. ASSUME NEW h \in Asked \cup work \cup Told
          PROVE  \E q \in Proc : Published(q)' /\ req'[q].head = h /\ req'[q].b \in busy'
      <3>1. PICK q \in Proc : Published(q) /\ req[q].head = h /\ req[q].b \in busy
        BY DEF IInv, DiskPlaced
      <3> QED
        BY <2>3, <3>1
    <2> QED
      BY <2>1, <2>2, <2>4 DEF DiskPlaced, Orderly
  <1>3. ASSUME NEW p \in Proc, Ring(p) PROVE DiskPlaced'
    <2>1. Asked' = Asked /\ Told' = Told /\ Orderly' /\ work' = work
      BY <1>3, RingDoes DEF Ring, device
    <2>2. Asked \cap work = {} /\ Asked \cap Told = {} /\ work \cap Told = {}
      BY DEF IInv, DiskPlaced
    <2>3. ASSUME NEW q \in Proc, Published(q)
          PROVE  Published(q)' /\ req'[q] = req[q]
      BY <1>3, <2>3 DEF Ring, Published, IInv
    <2>4. ASSUME NEW h \in Asked \cup work \cup Told
          PROVE  \E q \in Proc : Published(q)' /\ req'[q].head = h /\ req'[q].b \in busy'
      <3>1. PICK q \in Proc : Published(q) /\ req[q].head = h /\ req[q].b \in busy
        BY DEF IInv, DiskPlaced
      <3> QED
        BY <2>3, <3>1, <1>3 DEF Ring
    <2> QED
      BY <2>1, <2>2, <2>4 DEF DiskPlaced, Orderly
  <1>4. ASSUME NEW p \in Proc, Publish(p) PROVE DiskPlaced'
    <2>1. /\ Asked' = Asked \cup {req[p].head} /\ Told' = Told /\ Orderly' /\ work' = work
          /\ req[p].head \notin Asked \cup work \cup Told
      BY <1>4, PublishDoes DEF Publish, device
    <2>2. Asked \cap work = {} /\ Asked \cap Told = {} /\ work \cap Told = {}
      BY DEF IInv, DiskPlaced
    <2>3. ASSUME NEW q \in Proc, Published(q)
          PROVE  Published(q)' /\ req'[q] = req[q]
      BY <1>4, <2>3 DEF Publish, Published, IInv
    <2>4. ASSUME NEW h \in Asked \cup work \cup Told
          PROVE  \E q \in Proc : Published(q)' /\ req'[q].head = h /\ req'[q].b \in busy'
      <3>1. PICK q \in Proc : Published(q) /\ req[q].head = h /\ req[q].b \in busy
        BY DEF IInv, DiskPlaced
      <3> QED
        BY <2>3, <3>1, <1>4 DEF Publish
    <2>5. Published(p)' /\ req'[p].head = req[p].head /\ req'[p].b \in busy'
      BY <1>4 DEF Publish, Published, IInv, Callers, Publishing
    <2>6. ASSUME NEW h \in Asked' \cup work' \cup Told'
          PROVE  \E q \in Proc : Published(q)' /\ req'[q].head = h /\ req'[q].b \in busy'
      BY <2>1, <2>4, <2>5
    <2> QED
      BY <2>1, <2>2, <2>6 DEF DiskPlaced, Orderly
  <1>5. ASSUME NEW p \in Proc, Finish(p) PROVE DiskPlaced'
    <2>1. Asked' = Asked /\ Told' = Told /\ Orderly' /\ work' = work
      <3>1. UNCHANGED <<avail, availIdx, used, deviceIdx, seen, usedIdx, work>>
        BY <1>5 DEF Finish, device
      <3> QED
        BY <3>1, RingsStay
    <2>2. Asked \cap work = {} /\ Asked \cap Told = {} /\ work \cap Told = {}
      BY DEF IInv, DiskPlaced
    <2>3. ASSUME NEW q \in Proc, Published(q), req[q].b \in busy
          PROVE  Published(q)' /\ req'[q] = req[q] /\ req'[q].b \in busy'
      BY <1>5, <2>3 DEF Finish, Published, IInv, Answered, Awake
    <2>4. ASSUME NEW h \in Asked \cup work \cup Told
          PROVE  \E q \in Proc : Published(q)' /\ req'[q].head = h /\ req'[q].b \in busy'
      <3>1. PICK q \in Proc : Published(q) /\ req[q].head = h /\ req[q].b \in busy
        BY DEF IInv, DiskPlaced
      <3> QED
        BY <2>3, <3>1
    <2> QED
      BY <2>1, <2>2, <2>4 DEF DiskPlaced, Orderly
  <1>6. ASSUME NEW p \in Proc, Return(p) PROVE DiskPlaced'
    <2>1. Asked' = Asked /\ Told' = Told /\ Orderly' /\ work' = work
      <3>1. UNCHANGED <<avail, availIdx, used, deviceIdx, seen, usedIdx, work>>
        BY <1>6 DEF Return, driver, device
      <3> QED
        BY <3>1, RingsStay
    <2>2. Asked \cap work = {} /\ Asked \cap Told = {} /\ work \cap Told = {}
      BY DEF IInv, DiskPlaced
    <2>3. ASSUME NEW q \in Proc, Published(q), req[q].b \in busy
          PROVE  Published(q)' /\ req'[q] = req[q] /\ req'[q].b \in busy'
      BY <1>6, <2>3 DEF Return, Published, IInv
    <2>4. ASSUME NEW h \in Asked \cup work \cup Told
          PROVE  \E q \in Proc : Published(q)' /\ req'[q].head = h /\ req'[q].b \in busy'
      <3>1. PICK q \in Proc : Published(q) /\ req[q].head = h /\ req[q].b \in busy
        BY DEF IInv, DiskPlaced
      <3> QED
        BY <2>3, <3>1
    <2> QED
      BY <2>1, <2>2, <2>4 DEF DiskPlaced, Orderly
  <1>7. ASSUME DeviceTakes PROVE DiskPlaced'
    <2>1. PICK x \in Asked : Asked' = Asked \ {x} /\ work' = work \cup {x} /\ Told' = Told /\ Orderly'
      BY <1>7, TakingDoes
    <2>2. Asked \cap work = {} /\ Asked \cap Told = {} /\ work \cap Told = {}
      BY DEF IInv, DiskPlaced
    <2>3. ASSUME NEW q \in Proc, Published(q)
          PROVE  Published(q)' /\ req'[q] = req[q]
      BY <1>7, <2>3 DEF DeviceTakes, Published, IInv
    <2>4. ASSUME NEW h \in Asked \cup work \cup Told
          PROVE  \E q \in Proc : Published(q)' /\ req'[q].head = h /\ req'[q].b \in busy'
      <3>1. PICK q \in Proc : Published(q) /\ req[q].head = h /\ req[q].b \in busy
        BY DEF IInv, DiskPlaced
      <3> QED
        BY <2>3, <3>1, <1>7 DEF DeviceTakes
    <2> QED
      BY <2>1, <2>2, <2>4 DEF DiskPlaced, Orderly
  <1>8. ASSUME NEW h \in Index, DeviceAnswers(h) PROVE DiskPlaced'
    <2>1. Asked' = Asked /\ h \in work /\ work' = work \ {h} /\ Told' = Told \cup {h} /\ Orderly'
      BY <1>8, AnsweringDoes
    <2>2. Asked \cap work = {} /\ Asked \cap Told = {} /\ work \cap Told = {}
      BY DEF IInv, DiskPlaced
    <2>3. ASSUME NEW q \in Proc, Published(q)
          PROVE  Published(q)' /\ req'[q] = req[q]
      BY <1>8, <2>3 DEF DeviceAnswers, Published, IInv
    <2>4. ASSUME NEW x \in Asked \cup work \cup Told
          PROVE  \E q \in Proc : Published(q)' /\ req'[q].head = x /\ req'[q].b \in busy'
      <3>1. PICK q \in Proc : Published(q) /\ req[q].head = x /\ req[q].b \in busy
        BY DEF IInv, DiskPlaced
      <3> QED
        BY <2>3, <3>1, <1>8 DEF DeviceAnswers
    <2> QED
      BY <2>1, <2>2, <2>4 DEF DiskPlaced, Orderly
  <1>9. ASSUME IntrTake PROVE DiskPlaced'
    <2>1. PICK x \in Told, p \in Waiting :
             /\ req[p].head = x /\ Published(p)
             /\ Asked' = Asked /\ Told' = Told \ {x} /\ Orderly' /\ busy' = busy \ {req[p].b}
      BY <1>9, CompletingDoes
    <2>2. Asked \cap work = {} /\ Asked \cap Told = {} /\ work \cap Told = {} /\ work' = work
      BY <1>9 DEF IntrTake, device, IInv, DiskPlaced
    <2>3. ASSUME NEW q \in Proc, Published(q)
          PROVE  Published(q)' /\ req'[q] = req[q]
      BY <1>9, <2>3 DEF IntrTake, Published, IInv
    <2>4. ASSUME NEW h \in Asked \cup work \cup Told, h # x
          PROVE  \E q \in Proc : Published(q)' /\ req'[q].head = h /\ req'[q].b \in busy'
      <3>1. PICK q \in Proc : Published(q) /\ req[q].head = h /\ req[q].b \in busy
        BY DEF IInv, DiskPlaced
      <3>2. q # p /\ p \in Proc
        BY <2>1, <2>4, <3>1 DEF Waiting
      <3>3. req[q].b # req[p].b
        BY <2>1, <3>1, <3>2 DEF Published, IInv, Callers
      <3> QED
        BY <2>1, <2>3, <3>1, <3>3
    <2>5. \A h \in Asked' \cup work' \cup Told' : h # x /\ h \in Asked \cup work \cup Told
      BY <2>1, <2>2
    <2>6. ASSUME NEW h \in Asked' \cup work' \cup Told'
          PROVE  \E q \in Proc : Published(q)' /\ req'[q].head = h /\ req'[q].b \in busy'
      BY <2>4, <2>5
    <2> QED
      BY <2>1, <2>2, <2>6 DEF DiskPlaced, Orderly
  <1>10. ASSUME Quiet PROVE DiskPlaced'
    <2>1. Asked' = Asked /\ Told' = Told /\ Orderly' /\ UNCHANGED <<work, info, bdata, platter, req, busy>>
      BY <1>10, RingsStay DEF Quiet
    <2>2. \A q \in Proc : (Published(q)' <=> Published(q)) /\ (stage'[q] = "done" <=> stage[q] = "done")
      BY <1>10 DEF Quiet, Alike, Published
    <2> QED
      BY <2>1, <2>2 DEF IInv, DiskPlaced, Orderly
  <1> QED
    BY <1>1, <1>2, <1>3, <1>4, <1>5, <1>6, <1>7, <1>8, <1>9, <1>10, QuietSteps DEF Next, Device, Intr, Rw

\* What is about to be published is the request of who holds the lock.
LEMMA PublishingKept ==
  ASSUME IInv, [Next]_vars
  PROVE  Publishing'
  <1>1. ASSUME NEW p \in Proc, Call(p) PROVE Publishing'
    BY <1>1 DEF Call, IInv, Publishing, driver
  <1>2. ASSUME NEW p \in Proc, Alloc(p) PROVE Publishing'
    <2>1. PICK i, j, k \in free : Takes(p, i, j, k)
      BY <1>2, AllocTakes
    <2>2. ASSUME NEW q \in Proc, stage'[q] \in {"ring", "publish"} PROVE q = p /\ stage'[q] = "ring" /\ req'[q].b \in busy'
      <3>1. q = p /\ stage'[q] = "ring"
        BY <1>2, <2>2, Names DEF Alloc, IInv, Callers
      <3>2. req'[p].b = req[p].b
        BY <2>1 DEF Takes
      <3> QED
        BY <1>2, <3>1, <3>2 DEF Alloc
    <2> QED
      BY <2>2 DEF Publishing
  <1>3. ASSUME NEW p \in Proc, Ring(p) PROVE Publishing'
    <2>1. avail' = [avail EXCEPT ![availIdx % NUM] = req[p].head] /\ availIdx % NUM \in Index
      BY <1>3, SlotIs DEF Ring, IInv, DiskTypes, IndexOf
    <2>2. avail'[availIdx % NUM] = req[p].head
      BY <2>1 DEF IInv, DiskTypes
    <2>3. \A q \in Proc : stage'[q] \in {"ring", "publish"} => q = p
      BY <1>3 DEF Ring, IInv, Callers
    <2> QED
      BY <1>3, <2>2, <2>3 DEF Ring, IInv, Publishing
  <1>4. ASSUME NEW p \in Proc, Publish(p) PROVE Publishing'
    BY <1>4 DEF Publish, IInv, Publishing, Callers
  <1>5. ASSUME NEW p \in Proc, Finish(p) PROVE Publishing'
    <2>1. \A q \in Proc : stage'[q] \notin {"ring", "publish"}
      BY <1>5, Names DEF Finish, Awake, IInv, Callers
    <2> QED
      BY <2>1 DEF Publishing
  <1>6. ASSUME NEW p \in Proc, Return(p) PROVE Publishing'
    BY <1>6 DEF Return, IInv, Publishing, driver
  <1>7. ASSUME DeviceTakes PROVE Publishing'
    BY <1>7 DEF DeviceTakes, IInv, Publishing, driver
  <1>8. ASSUME NEW h \in Index, DeviceAnswers(h) PROVE Publishing'
    BY <1>8 DEF DeviceAnswers, IInv, Publishing
  <1>9. ASSUME IntrTake PROVE Publishing'
    BY <1>9, Names DEF IntrTake, IInv, Publishing, Callers
  <1>10. ASSUME Quiet PROVE Publishing'
    <2> QED
      BY <1>10 DEF Quiet, Alike, IInv, Publishing
  <1> QED
    BY <1>1, <1>2, <1>3, <1>4, <1>5, <1>6, <1>7, <1>8, <1>9, <1>10, QuietSteps DEF Next, Device, Intr, Rw

\* What is answered is done, and the buffer and the disk agree.
LEMMA SettledKept ==
  ASSUME IInv, [Next]_vars
  PROVE  Settled'
  <1>1. ASSUME NEW p \in Proc, Call(p) PROVE Settled'
    <2>1. Asked' = Asked /\ Told' = Told /\ work' = work
      <3>1. UNCHANGED <<avail, availIdx, used, deviceIdx, seen, usedIdx, work>>
        BY <1>1 DEF Call, driver, device
      <3> QED
        BY <3>1, RingsStay
    <2>2. info' = info /\ platter' = platter
      BY <1>1 DEF Call, driver, device
    <2>3. ASSUME NEW q \in Proc, stage'[q] = "done" \/ Published(q)'
          PROVE  /\ stage'[q] = stage[q] /\ req'[q] = req[q] /\ bdata'[req[q].b] = bdata[req[q].b]
      <3>1. PICK b \in Block \ {req[r].b : r \in Proc}, w \in BOOLEAN :
               /\ req' = [req EXCEPT ![p] = [b |-> b, write |-> w, head |-> 0]]
               /\ bdata' = [bdata EXCEPT ![b] = IF w THEN nreq + 1 ELSE 0]
        BY <1>1 DEF Call
      <3>2. q # p /\ stage'[q] = stage[q] /\ stage[q] # "idle"
        BY <1>1, <2>3 DEF Call, Published, IInv
      <3>3. req'[q] = req[q] /\ req[q].b # b /\ req[q].b \in Block
        BY <3>1, <3>2 DEF IInv, Callers
      <3> QED
        BY <3>1, <3>2, <3>3 DEF IInv
    <2> QED
      BY <2>1, <2>2, <2>3 DEF IInv, Settled, Published
  <1>2. ASSUME NEW p \in Proc, Alloc(p) PROVE Settled'
    <2>1. Asked' = Asked /\ Told' = Told /\ work' = work
      <3>1. UNCHANGED <<avail, availIdx, used, deviceIdx, seen, usedIdx, work>>
        BY <1>2 DEF Alloc, device
      <3> QED
        BY <3>1, RingsStay
    <2>2. bdata' = bdata /\ platter' = platter
      BY <1>2 DEF Alloc, device
    <2>3. PICK i, j, k \in free : Takes(p, i, j, k)
      BY <1>2, AllocTakes
    <2>4. ASSUME NEW h \in Told PROVE info'[h] = info[h]
      <3>1. PICK q \in Proc : Published(q) /\ req[q].head = h
        BY DEF IInv, DiskPlaced
      <3>2. q \in Waiting /\ h \in Links(req[q].head) /\ h \in Index
        BY <3>1, LinksInIndex DEF Published, Waiting, Links
      <3> QED
        BY <2>3, <3>2 DEF Takes
    <2>5. ASSUME NEW q \in Proc, stage'[q] = "done" \/ Published(q)' PROVE stage'[q] = stage[q] /\ req'[q] = req[q]
      <3>1. q # p /\ stage'[q] = stage[q]
        BY <1>2, <2>5 DEF Alloc, Published, IInv
      <3>2. PICK a, b, c \in free : Allocates(p, a, b, c)
        BY <1>2, AllocIs
      <3> QED
        BY <3>1, <3>2 DEF Allocates, IInv
    <2> QED
      BY <2>1, <2>2, <2>4, <2>5 DEF IInv, Settled, Published
  <1>3. ASSUME NEW p \in Proc, Ring(p) PROVE Settled'
    <2>1. Asked' = Asked /\ Told' = Told
      BY <1>3, RingDoes
    <2>2. /\ work' = work /\ info' = info /\ bdata' = bdata /\ platter' = platter /\ req' = req
          /\ \A q \in Proc : stage'[q] = "done" \/ Published(q)' => stage'[q] = stage[q]
      BY <1>3 DEF Ring, device, Published, IInv
    <2> QED
      BY <2>1, <2>2 DEF IInv, Settled, Published
  <1>4. ASSUME NEW p \in Proc, Publish(p) PROVE Settled'
    <2>1. Asked' = Asked \cup {req[p].head} /\ Told' = Told
      BY <1>4, PublishDoes
    <2>2. /\ work' = work /\ info' = info /\ bdata' = bdata /\ platter' = platter /\ req' = req
          /\ stage'[p] = "wait" /\ \A q \in Proc : q # p => stage'[q] = stage[q]
      BY <1>4 DEF Publish, device, IInv, Callers
    <2>3. ASSUME NEW q \in Proc, stage'[q] = "done" \/ (Published(q)' /\ req'[q].head \notin Asked' \cup work')
          PROVE  stage[q] = "done" \/ (Published(q) /\ req[q].head \notin Asked \cup work)
      BY <2>1, <2>2, <2>3 DEF Published
    <2> QED
      BY <2>1, <2>2, <2>3 DEF IInv, Settled
  <1>5. ASSUME NEW p \in Proc, Finish(p) PROVE Settled'
    <2>1. Asked' = Asked /\ Told' = Told /\ work' = work
      <3>1. UNCHANGED <<avail, availIdx, used, deviceIdx, seen, usedIdx, work>>
        BY <1>5 DEF Finish, device
      <3> QED
        BY <3>1, RingsStay
    <2>2. bdata' = bdata /\ platter' = platter /\ req' = req /\ req[p].b \notin busy /\ Published(p) /\ p \in Waiting
      BY <1>5 DEF Finish, Answered, device, Published, Waiting
    <2>3. req[p].head \notin Asked \cup work \cup Told
      BY <2>2, Elsewhere
    <2>4. \A h \in Told : h # req[p].head /\ h \in Index
      BY <2>3, AskedInIndex
    <2>5. \A h \in Told : info'[h] = info[h]
      BY <1>5, <2>4 DEF Finish, IInv
    <2>6. \A q \in Proc : q # p /\ (stage'[q] = "done" \/ Published(q)') => stage'[q] = stage[q]
      BY <1>5 DEF Finish, Awake, Published, IInv
    <2>7. \A h \in Told' : info'[h].status = 0
      BY <2>1, <2>5 DEF IInv, Settled
    <2>8. ASSUME NEW q \in Proc, stage'[q] = "done" \/ (Published(q)' /\ req'[q].head \notin Asked' \cup work')
          PROVE  bdata'[req'[q].b] = platter'[req'[q].b]
      <3>1. CASE q = p
        BY <2>2, <2>3, <3>1 DEF IInv, Settled
      <3>2. CASE q # p
        BY <2>1, <2>2, <2>6, <2>8, <3>2 DEF IInv, Settled, Published
      <3> QED
        BY <3>1, <3>2
    <2> QED
      BY <2>7, <2>8 DEF Settled
  <1>6. ASSUME NEW p \in Proc, Return(p) PROVE Settled'
    <2>1. Asked' = Asked /\ Told' = Told /\ work' = work
      <3>1. UNCHANGED <<avail, availIdx, used, deviceIdx, seen, usedIdx, work>>
        BY <1>6 DEF Return, driver, device
      <3> QED
        BY <3>1, RingsStay
    <2>2. /\ info' = info /\ bdata' = bdata /\ platter' = platter
          /\ \A q \in Proc : stage'[q] = "done" \/ Published(q)' => stage'[q] = stage[q] /\ req'[q] = req[q]
      BY <1>6 DEF Return, driver, device, Published, IInv, Callers
    <2> QED
      BY <2>1, <2>2 DEF IInv, Settled, Published
  <1>7. ASSUME DeviceTakes PROVE Settled'
    <2>1. PICK x \in Asked : Asked' = Asked \ {x} /\ work' = work \cup {x} /\ Told' = Told
      BY <1>7, TakingDoes
    <2>2. UNCHANGED <<info, bdata, platter, req, stage>>
      BY <1>7 DEF DeviceTakes, driver
    <2>3. Asked' \cup work' = Asked \cup work
      BY <2>1
    <2> QED
      BY <2>1, <2>2, <2>3 DEF IInv, Settled, Published
  <1>8. ASSUME NEW h \in Index, DeviceAnswers(h) PROVE Settled'
    <2>1. Asked' = Asked /\ h \in work /\ work' = work \ {h} /\ Told' = Told \cup {h}
      BY <1>8, AnsweringDoes
    <2>2. req' = req /\ stage' = stage
      BY <1>8 DEF DeviceAnswers
    <2>3. \A x \in Told' : info'[x].status = 0
      <3>1. info' = [info EXCEPT ![h].status = 0]
        BY <1>8 DEF DeviceAnswers
      <3>2. info'[h].status = 0
        BY <3>1 DEF IInv, DiskTypes
      <3>3. \A x \in Told : x \in Index /\ info[x].status = 0
        BY AskedInIndex DEF IInv, Settled
      <3>4. \A x \in Told : x = h \/ info'[x] = info[x]
        BY <3>1, <3>3 DEF IInv
      <3> QED
        BY <2>1, <3>2, <3>3, <3>4
    <2>4. PICK p \in Proc : Published(p) /\ req[p].head = h
      BY <2>1 DEF IInv, DiskPlaced
    <2>5. p \in Waiting /\ desc[desc[h].next].to = req[p].b
      BY <2>4 DEF Published, Waiting, IInv, Chained, Second
    <2>6. /\ req[p].b \in Block /\ bdata'[req[p].b] = platter'[req[p].b]
          /\ \A c \in Block : c # req[p].b => bdata'[c] = bdata[c] /\ platter'[c] = platter[c]
      BY <1>8, <2>5 DEF DeviceAnswers, IInv, DiskTypes
    <2>7. ASSUME NEW q \in Proc, stage'[q] = "done" \/ (Published(q)' /\ req'[q].head \notin Asked' \cup work')
          PROVE  bdata'[req'[q].b] = platter'[req'[q].b]
      <3>1. CASE q = p
        BY <2>2, <2>6, <3>1
      <3>2. CASE q # p
        <4>1. stage[q] # "idle" /\ stage[p] # "idle"
          BY <2>2, <2>4, <2>7 DEF Published
        <4>2. req[q].b # req[p].b /\ req[q].b \in Block
          BY <3>2, <4>1 DEF IInv, Callers
        <4>3. Published(q) => req[q].head # h
          <5> SUFFICES ASSUME Published(q) PROVE req[q].head # h
            OBVIOUS
          <5>1. q \in Waiting
            BY DEF Published, Waiting
          <5> QED
            BY <2>4, <2>5, <3>2, <5>1, HeadsApart
        <4>4. stage[q] = "done" \/ (Published(q) /\ req[q].head \notin Asked \cup work)
          BY <2>1, <2>2, <2>7, <4>3 DEF Published
        <4> QED
          BY <2>2, <2>6, <4>2, <4>4 DEF IInv, Settled
      <3> QED
        BY <3>1, <3>2
    <2> QED
      BY <2>3, <2>7 DEF Settled
  <1>9. ASSUME IntrTake PROVE Settled'
    <2>1. Asked' = Asked /\ Told' \subseteq Told
      BY <1>9, CompletingDoes
    <2>2. /\ UNCHANGED <<work, info, bdata, platter, req>>
          /\ \A q \in Proc : stage'[q] = "done" \/ Published(q)' => (stage[q] = "done" /\ stage'[q] = "done") \/ Published(q)
      BY <1>9 DEF IntrTake, driver, device, Published, IInv
    <2>3. \A q \in Proc : stage'[q] = "done" => stage[q] = "done"
      BY <1>9 DEF IntrTake
    <2>4. ASSUME NEW q \in Proc, stage'[q] = "done" \/ (Published(q)' /\ req'[q].head \notin Asked' \cup work')
          PROVE  stage[q] = "done" \/ (Published(q) /\ req[q].head \notin Asked \cup work)
      BY <2>1, <2>2, <2>3, <2>4
    <2> QED
      BY <2>1, <2>2, <2>4 DEF IInv, Settled
  <1>10. ASSUME Quiet PROVE Settled'
    <2>1. Asked' = Asked /\ Told' = Told /\ Orderly' /\ UNCHANGED <<work, info, bdata, platter, req, busy>>
      BY <1>10, RingsStay DEF Quiet
    <2>2. \A q \in Proc : (Published(q)' <=> Published(q)) /\ (stage'[q] = "done" <=> stage[q] = "done")
      BY <1>10 DEF Quiet, Alike, Published
    <2> QED
      BY <2>1, <2>2 DEF IInv, Settled, Orderly
  <1> QED
    BY <1>1, <1>2, <1>3, <1>4, <1>5, <1>6, <1>7, <1>8, <1>9, <1>10, QuietSteps DEF Next, Device, Intr, Rw

\* The invariant, of every reachable state.
LEMMA IInvKept == IInv /\ [Next]_vars => IInv'
  BY DiskTypesKept, CallersKept, ChainedKept, PrivateKept, DiskPlacedKept, PublishingKept, SettledKept DEF IInv

\* It always holds.
LEMMA Always == Spec => []IInv
  BY Initially, IInvKept, PTL DEF Spec
-----------------------------------------------------------------------------
(* The theorems *)

\* It has the types.
LEMMA TypesSuffice == IInv => TypeOK
  <1>1. \A d \in [Index -> [to : Block \cup {"none", "header", "status"}, next : Index, chained : BOOLEAN]] :
          \A i \in Index : d[i].to \in Block \cup {"none", "header", "status"} /\ d[i].next \in Index
    OBVIOUS
  <1> QED
    BY <1>1 DEF IInv, DiskTypes, Callers, TypeOK, IndexOf, Places

\* ChainsArePrivate, for any number of descriptors and callers.
THEOREM PrivateChains == Spec => []ChainsArePrivate
  <1>1. IInv => ChainsArePrivate
    <2> SUFFICES ASSUME IInv PROVE ChainsArePrivate
      OBVIOUS
    <2>1. \A p \in Waiting : Chain(req[p].head) = Own(p)
      BY ChainIs DEF Own
    <2>2. \A p, q \in Waiting : p # q => Chain(req[p].head) \cap Chain(req[q].head) = {}
      BY <2>1 DEF IInv, Private
    <2>3. \A d : d \in free <=> d \in Index \ UNION {Chain(req[p].head) : p \in Waiting}
      BY <2>1 DEF IInv, Private, DiskTypes
    <2>4. free = Index \ UNION {Chain(req[p].head) : p \in Waiting}
      BY <2>3
    <2> QED
      BY <2>2, <2>4, TypesSuffice DEF ChainsArePrivate
  <1> QED
    BY <1>1, Always, PTL

\* ReturnsTheBlock, whatever completes in which order.
THEOREM BlockReturned == Spec => []ReturnsTheBlock
  <1>1. IInv => ReturnsTheBlock
    <2> SUFFICES ASSUME IInv PROVE ReturnsTheBlock
      OBVIOUS
    <2>1. ASSUME NEW h \in Told
          PROVE  info[h].status = 0 /\ \E p \in Waiting : req[p].head = h /\ info[h].b = req[p].b /\ req[p].b \in busy
      <3>1. PICK p \in Proc : Published(p) /\ req[p].head = h /\ req[p].b \in busy
        BY DEF IInv, DiskPlaced
      <3>2. p \in Waiting /\ info[h].b = req[p].b
        BY <3>1 DEF Published, Waiting, IInv, Chained
      <3> QED
        BY <3>1, <3>2 DEF IInv, Settled
    <2>2. CompletionsAreOurs
      BY <2>1 DEF CompletionsAreOurs, Told
    <2> QED
      BY <2>2 DEF ReturnsTheBlock, IInv, Settled
  <1> QED
    BY <1>1, Always, PTL
=============================================================================
