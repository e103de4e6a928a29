------------------------------ MODULE FileBytes -----------------------------
(***************************************************************************)
(* The contents of one inode: the block map of kernel/fs.c (bmap, readi,   *)
(* writei, itrunc, balloc, bfree) under the calls of file.c, on the image  *)
(* that mkfs/mkfs.c has built.  The inode's sleep lock is held from one    *)
(* end of readi(), writei() or itrunc() to the other; what other inodes do *)
(* with the bitmap interleaves with every block.                           *)
(*                                                                         *)
(* A block holds BSIZE values: bytes, or block numbers if it is indirect.  *)
(***************************************************************************)
EXTENDS Integers, FiniteSets, Sequences

CONSTANTS Proc, NoProc, Mkfs,
          File,           \* open files of the inode: an offset each
          BSIZE, NDIRECT, NINDIRECT,
          NBLOCKS,        \* data blocks: 1 .. NBLOCKS, 0 is none
          BPB,            \* blocks a bitmap block has bits for
          MAXOPBLOCKS,    \* blocks a system call may log
          Memory,         \* Memory[p]: the bytes p may be asked to write; the next address is bad
          Host,           \* the file given to mkfs
          Requests,       \* addresses and byte counts of calls
          MaxCalls        \* bound on the calls of a behaviour

VARIABLES
  disk,      \* the blocks as bread() returns them
  home,      \* ... and as the log knows them
  bitmap,    \* blocks marked in use
  inode,     \* ip->addrs and ip->size
  others,    \* blocks of other inodes
  off,       \* f->off of each open file
  lock,      \* who holds ip->lock
  th,        \* the call of each process
  logged,    \* blocks in the log of the transaction that holds the inode
  freeblock, \* mkfs's next block, 0 once the system runs
  result, calls

blocks == <<disk, home, bitmap>>
files  == <<inode, off>>
vars   == <<disk, home, bitmap, inode, others, off, lock, th, logged, freeblock, result, calls>>

Block   == 1 .. NBLOCKS
MAXFILE == NDIRECT + NINDIRECT
Index   == 0 .. BSIZE - 1
Zeroes  == [j \in Index |-> 0]
Junk    == [j \in Index |-> NBLOCKS]     \* what other files hold
AFile   == CHOOSE f \in File : TRUE
Idle    == [at |-> "idle", f |-> AFile, a |-> 0, n |-> 0, n1 |-> 0, tot |-> 0, buf |-> <<>>]
LeastOf(S) == CHOOSE b \in S : \A c \in S : b <= c
MinOf(i, j) == IF i < j THEN i ELSE j
MaxOf(i, j) == IF i > j THEN i ELSE j

\* The entry for block bn of the inode: 0 when there is none.
Entry(bn) ==
  LET ind == inode.addrs[NDIRECT] IN
    IF bn < NDIRECT THEN inode.addrs[bn] ELSE IF ind = 0 THEN 0 ELSE disk[ind][bn - NDIRECT]
-----------------------------------------------------------------------------
(* mkfs.c *)

\* One turn of iappend()'s loop: bytes of Host go behind the last one up to the
\* end of the block; blocks, the indirect block before the first it lists, are
\* taken in order.  mkfs has zeroed the whole image.
IAppend ==
  LET fbn   == inode.size \div BSIZE
      o     == inode.size % BSIZE
      n     == MinOf(BSIZE - o, Len(Host) - inode.size)
      first == fbn >= NDIRECT /\ inode.addrs[NDIRECT] = 0
      ind   == IF first THEN freeblock ELSE inode.addrs[NDIRECT]
      next  == IF first THEN freeblock + 1 ELSE freeblock
      x     == IF Entry(fbn) = 0 THEN next ELSE Entry(fbn)
      piece == [j \in Index |-> IF j \in o .. o + n - 1 THEN Host[inode.size + 1 + j - o] ELSE disk[x][j]] IN
    /\ freeblock > 0 /\ n > 0 /\ fbn < MAXFILE /\ next <= NBLOCKS
    /\ disk' = IF fbn < NDIRECT THEN [disk EXCEPT ![x] = piece]
               ELSE [disk EXCEPT ![ind][fbn - NDIRECT] = x, ![x] = piece]
    /\ inode' = [size |-> inode.size + n,
                 addrs |-> IF fbn < NDIRECT THEN [inode.addrs EXCEPT ![fbn] = x]
                           ELSE [inode.addrs EXCEPT ![NDIRECT] = ind]]
    /\ freeblock' = MaxOf(freeblock, x + 1)
    /\ home' = disk'
    /\ UNCHANGED <<bitmap, others, off, lock, th, logged, result, calls>>

\* ... and for another file: a directory entry, or the next program.
IAppendOther ==
  /\ freeblock \in Block
  /\ others' = others \cup {freeblock}
  /\ disk' = [disk EXCEPT ![freeblock] = Junk] /\ home' = disk'
  /\ freeblock' = freeblock + 1
  /\ UNCHANGED <<bitmap, inode, off, lock, th, logged, result, calls>>

\* balloc(freeblock): the bitmap of the image, after which it is booted.
Used(n) == 1 .. n - 1
MkBitmap ==
  /\ freeblock > 0 /\ inode.size \in {0, Len(Host)}
  /\ bitmap' = Used(freeblock) /\ freeblock' = 0 /\ lock' = NoProc
  /\ UNCHANGED <<disk, home, others, files, th, logged, result, calls>>
-----------------------------------------------------------------------------
(* fs.c: the bitmap *)

Free == Block \ bitmap

\* Mutant of Zeroed: the block keeps what it held.
ZeroedNot(d, b) == d

\* bzero() of a block that balloc() gives.
Zeroed(d, b) == [d EXCEPT ![b] = Zeroes]

\* The bitmap block of b, in logged.
BBLOCK(b) == -(b \div BPB)

\* balloc(): the first free block.
Balloc(b) ==
  /\ Free # {} /\ b = LeastOf(Free)
  /\ bitmap' = bitmap \cup {b}

\* What other inodes do, with their own locks.
OthersTake ==
  /\ freeblock = 0 /\ calls < MaxCalls /\ calls' = calls + 1
  /\ \E b \in Free : /\ Balloc(b)
                     /\ others' = others \cup {b}
                     /\ disk' = [disk EXCEPT ![b] = Junk] /\ home' = [home EXCEPT ![b] = Junk]
  /\ UNCHANGED <<files, lock, th, logged, freeblock, result>>
OthersFree(b) ==
  /\ freeblock = 0 /\ b \in others /\ calls < MaxCalls /\ calls' = calls + 1
  /\ bitmap' = bitmap \ {b} /\ others' = others \ {b}
  /\ UNCHANGED <<disk, home, files, lock, th, logged, freeblock, result>>

\* A block that was changed and not logged is read again from the disk when
\* the cache has dropped it, or goes along with a commit that has it anyway.
Settle(b) ==
  /\ disk[b] # home[b]
  /\ \/ disk' = [disk EXCEPT ![b] = home[b]] /\ UNCHANGED home
     \/ home' = [home EXCEPT ![b] = disk[b]] /\ UNCHANGED disk
  /\ UNCHANGED <<bitmap, others, files, lock, th, logged, freeblock, result, calls>>
-----------------------------------------------------------------------------
(* fs.c: bmap() in a loop of readi() or writei() *)

Offset(p) == off[th[p].f] + th[p].tot
Bn(p)     == Offset(p) \div BSIZE
Copying(p) == th[p].at \in {"copyin", "copyout"} /\ th[p].tot < th[p].n1
Over(p, at, end) == th[p].at = end \/ (th[p].at = at /\ ~Copying(p))
Piece(p)  == MinOf(th[p].n1 - th[p].tot, BSIZE - (Offset(p) % BSIZE))
Lacks(p)  == Bn(p) >= NDIRECT /\ inode.addrs[NDIRECT] = 0     \* the indirect block
Unlogged(p) == th[p].at = "copyout"     \* fileread() begins no transaction

\* The indirect block first, which stays though the next balloc() may fail.
BmapIndirect(p) ==
  /\ Copying(p) /\ Lacks(p) /\ ~Unlogged(p)
  /\ \E b \in Free : /\ Balloc(b)
                     /\ disk' = Zeroed(disk, b) /\ home' = Zeroed(home, b)
                     /\ inode' = [inode EXCEPT !.addrs[NDIRECT] = b]
                     /\ logged' = logged \cup {b, BBLOCK(b)}
  /\ UNCHANGED <<others, off, lock, th, freeblock, result, calls>>

\* Then the block itself.
BmapBlock(p) ==
  LET bn == Bn(p)  ind == inode.addrs[NDIRECT] IN
    /\ Copying(p) /\ ~Lacks(p) /\ Entry(bn) = 0 /\ ~Unlogged(p)
    /\ \E b \in Free :
           /\ Balloc(b)
           /\ IF bn < NDIRECT
              THEN /\ inode' = [inode EXCEPT !.addrs[bn] = b]
                   /\ disk' = Zeroed(disk, b) /\ home' = Zeroed(home, b)
                   /\ logged' = logged \cup {b, BBLOCK(b)}
              ELSE /\ disk' = [Zeroed(disk, b) EXCEPT ![ind][bn - NDIRECT] = b]
                   /\ home' = [Zeroed(home, b) EXCEPT ![ind] = disk'[ind]]
                   /\ logged' = logged \cup {b, BBLOCK(b), ind}
                   /\ UNCHANGED inode
    /\ UNCHANGED <<others, off, lock, th, freeblock, result, calls>>

\* No block: the loop ends with what it has done.  Under readi() balloc() would
\* log a block outside any transaction, a panic.
BmapFails(p) ==
  /\ Copying(p) /\ Entry(Bn(p)) = 0 /\ (Free = {} \/ Unlogged(p))
  /\ th' = [th EXCEPT ![p].at = IF ~Unlogged(p) THEN "writeend"
                               ELSE IF Free = {} THEN "readend" ELSE "panic"]
  /\ UNCHANGED <<blocks, others, files, lock, logged, freeblock, result, calls>>
-----------------------------------------------------------------------------
(* file.c and fs.c: writing *)

\* filewrite() gives writei() no more than fits in a transaction with the
\* inode, the indirect block, the bitmap and the edges of an unaligned write.
MaxChunk == ((MAXOPBLOCKS - 1 - 1 - 2) \div 2) * BSIZE

Call(p) == freeblock = 0 /\ th[p].at = "idle" /\ calls < MaxCalls /\ calls' = calls + 1
Answer(p, r) == th' = [th EXCEPT ![p] = Idle] /\ result' = [result EXCEPT ![p] = r]

Write(p, f, a, n) ==
  /\ Call(p)
  /\ th' = [th EXCEPT ![p] = [Idle EXCEPT !.at = "write", !.f = f, !.a = a, !.n = n]]
  /\ UNCHANGED <<blocks, others, files, lock, logged, freeblock, result>>

\* begin_op(), ilock(), and the tests at the head of writei().
Fits(p, n1) == off[th[p].f] <= inode.size /\ off[th[p].f] + n1 <= MAXFILE * BSIZE
Chunk(p) ==
  LET n1 == MinOf(th[p].n, MaxChunk) IN
    /\ th[p].at = "write" /\ th[p].n > 0 /\ lock = NoProc /\ Fits(p, n1)
    /\ lock' = p /\ logged' = {}
    /\ th' = [th EXCEPT ![p].at = "copyin", ![p].n1 = n1]
    /\ UNCHANGED <<blocks, others, files, freeblock, result, calls>>
ChunkRefused(p) ==
  /\ th[p].at = "write" /\ th[p].n > 0 /\ lock = NoProc /\ ~Fits(p, MinOf(th[p].n, MaxChunk))
  /\ th' = [th EXCEPT ![p].at = "broken"]
  /\ UNCHANGED <<blocks, others, files, lock, logged, freeblock, result, calls>>

\* Block b with the n bytes at p's next address in the place of this piece.
Filled(p, b, n) ==
  LET o == Offset(p) % BSIZE  a == th[p].a + th[p].tot IN
    [j \in Index |-> IF j \in o .. o + n - 1 THEN Memory[p][a + j - o] ELSE disk[b][j]]
GoodBytes(p) == MinOf(Piece(p), MaxOf(0, Len(Memory[p]) + 1 - (th[p].a + th[p].tot)))

\* either_copyin() and log_write() ...
CopyIn(p) ==
  LET b == Entry(Bn(p)) IN
    /\ th[p].at = "copyin" /\ Copying(p) /\ b # 0 /\ GoodBytes(p) = Piece(p)
    /\ disk' = [disk EXCEPT ![b] = Filled(p, b, Piece(p))]
    /\ home' = [home EXCEPT ![b] = disk'[b]]
    /\ logged' = logged \cup {b}
    /\ th' = [th EXCEPT ![p].tot = @ + Piece(p)]
    /\ UNCHANGED <<bitmap, others, files, lock, freeblock, result, calls>>

\* ... or it meets a bad address, with the bytes before it in the buffer.
CopyInFails(p) ==
  LET b == Entry(Bn(p)) IN
    /\ th[p].at = "copyin" /\ Copying(p) /\ b # 0 /\ GoodBytes(p) < Piece(p)
    /\ disk' = [disk EXCEPT ![b] = Filled(p, b, GoodBytes(p))]
    /\ th' = [th EXCEPT ![p].at = "writeend"]
    /\ UNCHANGED <<home, bitmap, others, files, lock, logged, freeblock, result, calls>>

\* Mutant of NewSize: a write inside the file cuts it off.
NewSizeCuts(p) == Offset(p)

NewSize(p) == MaxOf(inode.size, Offset(p))

\* The end of writei(), and of a turn of filewrite()'s loop.
WriteEnd(p) ==
  /\ Over(p, "copyin", "writeend")
  /\ inode' = [inode EXCEPT !.size = NewSize(p)]
  /\ off' = [off EXCEPT ![th[p].f] = Offset(p)]
  /\ lock' = NoProc
  /\ IF th[p].tot = th[p].n1
     THEN th' = [th EXCEPT ![p] = [@ EXCEPT !.at = "write", !.a = @ + th[p].n1, !.n = @ - th[p].n1,
                                            !.n1 = 0, !.tot = 0]]
     ELSE th' = [th EXCEPT ![p].at = "broken"]
  /\ UNCHANGED <<blocks, others, logged, freeblock, result, calls>>

\* n, or -1 even when some of the bytes were written.
WriteReturns(p) ==
  /\ \/ th[p].at = "write" /\ th[p].n = 0 /\ Answer(p, "done")
     \/ th[p].at = "broken" /\ Answer(p, "failed")
  /\ UNCHANGED <<blocks, others, files, lock, logged, freeblock, calls>>
-----------------------------------------------------------------------------
(* file.c and fs.c: reading, and truncating *)

\* fileread(), and readi() up to its loop.
Read(p, f, a, n) ==
  LET n1 == IF off[f] > inode.size THEN 0 ELSE MinOf(n, inode.size - off[f]) IN
    /\ Call(p) /\ lock = NoProc
    /\ lock' = p
    /\ th' = [th EXCEPT ![p] = [Idle EXCEPT !.at = "copyout", !.f = f, !.a = a, !.n1 = n1]]
    /\ UNCHANGED <<blocks, others, files, logged, freeblock, result>>

CopyOut(p) ==
  LET b == Entry(Bn(p))  o == Offset(p) % BSIZE IN
    /\ th[p].at = "copyout" /\ Copying(p) /\ b # 0 /\ GoodBytes(p) = Piece(p)
    /\ th' = [th EXCEPT ![p].tot = @ + Piece(p),
                        ![p].buf = @ \o [i \in 1 .. Piece(p) |-> disk[b][o + i - 1]]]
    /\ UNCHANGED <<blocks, others, files, lock, logged, freeblock, result, calls>>

\* A bad address: readi() returns -1, whatever it has copied.
CopyOutFails(p) ==
  /\ th[p].at = "copyout" /\ Copying(p) /\ Entry(Bn(p)) # 0 /\ GoodBytes(p) < Piece(p)
  /\ lock' = NoProc
  /\ Answer(p, "failed")
  /\ UNCHANGED <<blocks, others, files, logged, freeblock, calls>>

ReadEnd(p) ==
  /\ Over(p, "copyout", "readend")
  /\ off' = [off EXCEPT ![th[p].f] = Offset(p)]
  /\ lock' = NoProc
  /\ Answer(p, th[p].buf)
  /\ UNCHANGED <<blocks, others, inode, logged, freeblock, calls>>

\* open() gives a new struct file; with O_TRUNC it truncates first.
Open(p, f) ==
  /\ Call(p) /\ off[f] # 0 /\ \A q \in Proc : th[q].at = "idle" \/ th[q].f # f
  /\ off' = [off EXCEPT ![f] = 0]
  /\ UNCHANGED <<blocks, others, inode, lock, th, logged, freeblock, result>>
Truncate(p) ==
  /\ Call(p) /\ lock = NoProc
  /\ lock' = p
  /\ th' = [th EXCEPT ![p].at = "trunc"]
  /\ UNCHANGED <<blocks, others, files, logged, freeblock, result>>

\* bfree(), and the panic of freeing a free block.
Bfree(p, b, next) ==
  IF b \in bitmap THEN bitmap' = bitmap \ {b} /\ th' = [th EXCEPT ![p] = next]
  ELSE th' = [th EXCEPT ![p].at = "panic"] /\ UNCHANGED bitmap

\* itrunc(): the direct blocks, ...
FreeDirect(p) ==
  LET S == {bn \in 0 .. NDIRECT - 1 : inode.addrs[bn] # 0} IN
    /\ th[p].at = "trunc" /\ S # {}
    /\ Bfree(p, inode.addrs[LeastOf(S)], th[p])
    /\ inode' = [inode EXCEPT !.addrs[LeastOf(S)] = 0]
    /\ UNCHANGED <<disk, home, others, off, lock, logged, freeblock, result, calls>>

\* ... those the indirect block lists (tot is j), ...
FreeListed(p) ==
  LET ind == inode.addrs[NDIRECT]  j == th[p].tot  next == [th[p] EXCEPT !.tot = @ + 1] IN
    /\ th[p].at = "trunc" /\ \A bn \in 0 .. NDIRECT - 1 : inode.addrs[bn] = 0
    /\ ind # 0 /\ j < NINDIRECT
    /\ IF disk[ind][j] # 0 THEN Bfree(p, disk[ind][j], next)
       ELSE th' = [th EXCEPT ![p] = next] /\ UNCHANGED bitmap
    /\ UNCHANGED <<disk, home, others, files, lock, logged, freeblock, result, calls>>

\* ... and the indirect block itself.
FreeIndirect(p) ==
  LET ind == inode.addrs[NDIRECT] IN
    /\ th[p].at = "trunc" /\ ind # 0 /\ th[p].tot = NINDIRECT
    /\ Bfree(p, ind, th[p])
    /\ inode' = [inode EXCEPT !.addrs[NDIRECT] = 0]
    /\ UNCHANGED <<disk, home, others, off, lock, logged, freeblock, result, calls>>

TruncEnd(p) ==
  /\ th[p].at = "trunc" /\ \A bn \in 0 .. NDIRECT : inode.addrs[bn] = 0
  /\ inode' = [inode EXCEPT !.size = 0]
  /\ lock' = NoProc
  /\ th' = [th EXCEPT ![p] = Idle]
  /\ UNCHANGED <<blocks, others, off, logged, freeblock, result, calls>>
-----------------------------------------------------------------------------
Init ==
  /\ disk = [b \in Block |-> Zeroes] /\ home = disk
  /\ bitmap = {} /\ others = {}
  /\ inode = [addrs |-> [i \in 0 .. NDIRECT |-> 0], size |-> 0]
  /\ off = [f \in File |-> 0] /\ lock = Mkfs
  /\ th = [p \in Proc |-> Idle] /\ logged = {}
  /\ freeblock = 1 /\ result = [p \in Proc |-> <<>>] /\ calls = 0

Step(p) ==
  \/ \E f \in File : \/ Open(p, f)
                     \/ \E x \in Requests : Write(p, f, x[1], x[2]) \/ Read(p, f, x[1], x[2])
  \/ Chunk(p) \/ ChunkRefused(p) \/ CopyIn(p) \/ CopyInFails(p) \/ WriteEnd(p) \/ WriteReturns(p)
  \/ CopyOut(p) \/ CopyOutFails(p) \/ ReadEnd(p)
  \/ BmapIndirect(p) \/ BmapBlock(p) \/ BmapFails(p)
  \/ Truncate(p) \/ FreeDirect(p) \/ FreeListed(p) \/ FreeIndirect(p) \/ TruncEnd(p)

Next ==
  \/ IAppend \/ IAppendOther \/ MkBitmap
  \/ OthersTake \/ \E b \in Block : OthersFree(b) \/ Settle(b)
  \/ \E p \in Proc : Step(p)

Spec == Init /\ [][Next]_vars
-----------------------------------------------------------------------------
\* What the file is to its users: nothing from the moment it is truncated, and
\* what the pieces so far have made of it while it is written.
Writer == {p \in Proc : th[p].at \in {"copyin", "writeend"}}
Size == IF \E p \in Proc : th[p].at = "trunc" THEN 0
        ELSE LET ends == {Offset(p) : p \in Writer} IN
               IF \E e \in ends : e > inode.size THEN CHOOSE e \in ends : TRUE ELSE inode.size
At(d, i) == LET b == Entry((i - 1) \div BSIZE) IN IF b = 0 THEN 0 ELSE d[b][(i - 1) % BSIZE]

Bytes == INSTANCE ByteFile WITH
  MaxSize <- MAXFILE * BSIZE,
  content <- [i \in 1 .. Size |-> At(disk, i)],
  loose   <- {i \in 1 .. Size : At(disk, i) # At(home, i)},
  off     <- [f \in File |-> IF \E p \in Writer : th[p].f = f
                             THEN Offset(CHOOSE p \in Writer : TRUE) ELSE off[f]],
  holder  <- IF freeblock > 0 THEN Mkfs ELSE IF Writer # {} THEN CHOOSE p \in Writer : TRUE
             ELSE IF \E p \in Proc : th[p].at = "copyout" THEN lock ELSE NoProc,
  call    <- [p \in Proc |->
    LET t == th[p] IN
      CASE t.at \in {"write", "copyin", "writeend", "broken"} ->
             [kind |-> "write", f |-> t.f, a |-> t.a + t.tot, n |-> t.n - t.tot, got |-> <<>>]
        [] t.at \in {"copyout", "readend"} ->
             [kind |-> "read", f |-> t.f, a |-> 0, n |-> t.n1 - t.tot, got |-> t.buf]
        [] OTHER -> [kind |-> "none", f |-> AFile, a |-> 0, n |-> 0, got |-> <<>>]]

\* Reads return what writes have stored and mkfs has copied, at the offsets of
\* files shared or not, across direct and indirect blocks, whatever fails on the
\* way: bmap(), readi(), writei() and itrunc() behave as a sequence of bytes.
ImplementsByteFile == Bytes!Spec

\* A chunk of filewrite() logs no more blocks than begin_op() reserves, the
\* inode's among them, however it lies across blocks (file.c:152-158).
ChunkFits == Cardinality(logged) + 1 <= MAXOPBLOCKS

\* The bitmap has the blocks of the inode, each listed once, and of the others,
\* and no more: mkfs and a call that runs out of blocks lose none, itrunc() frees
\* each once.  The file has no hole that a read would fill (fs.c balloc, bfree), and
\* what a transaction takes and writes is what was reserved.
Listings == {<<bn, inode.addrs[bn]>> : bn \in 0 .. NDIRECT}
            \cup IF inode.addrs[NDIRECT] = 0 THEN {}
                 ELSE {<<NDIRECT + 1 + j, disk[inode.addrs[NDIRECT]][j]>> : j \in 0 .. NINDIRECT - 1}
BlocksAreExact ==
  /\ ChunkFits
  /\ \A p \in Proc : th[p].at # "panic"
  /\ freeblock = 0 /\ (\A p \in Proc : th[p].at # "trunc") =>
       LET listed == {x \in Listings : x[2] # 0}  mine == {x[2] : x \in listed} IN
         /\ bitmap = mine \cup others /\ mine \cap others = {}
         /\ Cardinality(mine) = Cardinality(listed)
         /\ \A i \in 0 .. inode.size - 1 : Entry(i \div BSIZE) # 0
=============================================================================
