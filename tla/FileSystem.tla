------------------------------ MODULE FileSystem ----------------------------
(***************************************************************************)
(* Inodes, directories and open files: kernel/fs.c, file.c and sysfile.c,  *)
(* which the two kernels share.                                            *)
(*                                                                         *)
(* A step is one section under itable.lock, under ftable.lock or on the    *)
(* bitmap block, together with what the process does before and after it   *)
(* under the sleep locks it holds.  The log below makes what happens from  *)
(* begin_op() to end_op() atomic (module Log): the disk here is the one    *)
(* system calls see through the buffer cache.                              *)
(***************************************************************************)
EXTENDS Integers, Sequences, FiniteSets

CONSTANTS Proc, InitProc,   \* the processes; init, which never exits
          None,             \* no process: a lock that is free
          NINODES, NBLOCKS, \* inodes and data blocks of the disk
          NINODE,           \* entries of the inode table
          NFILE, NOFILE,    \* entries of the file table; descriptors of a process
          PerBlock,         \* directory entries in a block
          Name,             \* the names in use, with "." and ".."
          Calls,            \* the calls with a path the programs make, as records
          Others,           \* and those without: write, dup, fork, exit
          MaxCalls          \* bound: calls in a behaviour, close and exit aside

\* A path: names, after a "/" if it begins at the root.
IsPathname(path) ==
  /\ path \in Seq(Name \cup {"/"}) \ {<<>>}
  /\ (IF Head(path) = "/" THEN Tail(path) ELSE path) \in Seq(Name) \ {<<>>}

ASSUME FileSystemAssumption ==
  /\ {NINODES, NBLOCKS, NINODE, NFILE, NOFILE, PerBlock, MaxCalls} \subseteq Nat \ {0}
  /\ NINODES >= 3 /\ NBLOCKS >= 4 /\ PerBlock >= 2
  /\ {".", "..", "x", "d"} \subseteq Name /\ InitProc \in Proc
  /\ IsFiniteSet(Proc) /\ None \notin Proc /\ IsFiniteSet(Name)
  /\ \A c \in Calls :
       /\ c.op \in {"open", "mkdir", "unlink", "link", "chdir"} /\ IsPathname(c.path)
       /\ c.op = "open" => {c.create, c.trunc, c.write} \subseteq BOOLEAN
       /\ c.op = "link" => IsPathname(c.new)

VARIABLES
  dinode,   \* the inodes on the disk
  dir,      \* the entries in the blocks of each directory; 0 is an empty one
  used,     \* the bitmap
  itable,   \* the inode table; lock is ip->lock's holder, d the copy of the inode
  ftable, ofile, cwd,
  th,       \* where each process stands, and its local variables
  ncalls,   \* bound
  lost      \* history: inodes linked into a directory that had been removed

disk  == <<dinode, dir, used>>
files == <<ftable, ofile, cwd>>
vars  == <<disk, itable, files, th, ncalls, lost>>

Inum  == 1 .. NINODES
Slot  == 1 .. NINODE
File  == 1 .. NFILE
Fd    == 1 .. NOFILE
Block == 1 .. NBLOCKS
ROOTINO == 1
Dots == {".", ".."}
Free == [type |-> "none", nlink |-> 0, addrs |-> {}]
NoFile == [ref |-> 0, ip |-> 0, writable |-> FALSE]
NoCall == [op |-> "none"]
\* The local variables of a process in user space.
NoPath == [call |-> NoCall, path |-> <<>>, parent |-> FALSE, ok |-> "none", fail |-> "none",
           then |-> "none", puts |-> <<>>, ip |-> 0, dp |-> 0, tgt |-> 0, inum |-> 0]
Least(S) == CHOOSE x \in S : \A y \in S : x <= y

\* Record or function g, and h where g has no value.
g \oplus h == [x \in DOMAIN g \cup DOMAIN h |-> IF x \in DOMAIN g THEN g[x] ELSE h[x]]

At(p, where) == th[p].at = where
Idle(p) == At(p, "idle") /\ cwd[p] # 0
Calling == ncalls < MaxCalls /\ ncalls' = ncalls + 1

\* p goes on with the fields of r changed; or it drops references first, in order.
Go(p, r) == th' = [th EXCEPT ![p] = r \oplus @]
PutThen(p, slots, where, r) == Go(p, r \oplus [at |-> "iput", puts |-> slots, then |-> where])

\* end_op(), and back to the program or to the rest of exit().
EndOp(p) == [at |-> IF th[p].call.op = "exit" /\ cwd[p] # 0 THEN "exit" ELSE "idle"] \oplus NoPath

\* One reference of the list is dropped.
Dropped(p) ==
  IF Len(th[p].puts) > 1 THEN [at |-> "iput", puts |-> Tail(th[p].puts)]
  ELSE IF th[p].then = "endop" THEN EndOp(p) ELSE [puts |-> <<>>, at |-> th[p].then]
-----------------------------------------------------------------------------
(* The inode table.  Where the code panics the path cannot go on here, and *)
(* NeverPanics says that no path gets there.                               *)

\* iget() of inode i in table t: whether there is an entry, which, and the table then.
Cached(t, i) == {s \in Slot : t[s].ref > 0 /\ t[s].inum = i}
Unused(t) == {s \in Slot : t[s].ref = 0}
HasEntry(t, i) == Cached(t, i) # {} \/ Unused(t) # {}
EntryFor(t, i) == Least(IF Cached(t, i) # {} THEN Cached(t, i) ELSE Unused(t))

Iget(t, i) ==
  LET e == t[EntryFor(t, i)] IN
    [t EXCEPT ![EntryFor(t, i)] =
       [e EXCEPT !.ref = e.ref + 1, !.inum = i, !.valid = e.valid /\ Cached(t, i) # {}]]

\* ilock(): the entry locked by p, and read from the disk if it was not valid.
Loaded(s) == IF itable[s].valid THEN itable[s].d ELSE dinode[itable[s].inum]
CanLock(s) == itable[s].lock = None /\ Loaded(s).type # "none"
Ilock(p, s) == [itable EXCEPT ![s] = [@ EXCEPT !.lock = p, !.d = Loaded(s), !.valid = TRUE]]
Unlock(t, s) == [t EXCEPT ![s].lock = None]

\* p, at where, locks the inode in ip next.
Locks(p, where) == At(p, where) /\ CanLock(th[p].ip)

\* p locks s only to unlock it, iput() it and go on at where.
GiveUp(p, s, where) ==
  itable' = Unlock(Ilock(p, s), s) /\ PutThen(p, <<s>>, where, [ip |-> 0])

\* iupdate() of entry s, its fields changed to d.
Iupdate(t, s, d) == itable' = [t EXCEPT ![s].d = d] /\ dinode' = [dinode EXCEPT ![t[s].inum] = d]

\* Mutant of LastUnlinked: other references do not count.
LastUnlinkedAny(s) == itable[s].valid /\ itable[s].d.nlink = 0

LastUnlinked(s) == itable[s].ref = 1 /\ itable[s].valid /\ itable[s].d.nlink = 0

\* iput(): a reference goes, or, with the last one, the inode.  acquiresleep()
\* must not sleep here, under itable.lock.
IPut(p) ==
  LET s == Head(th[p].puts) IN
    /\ At(p, "iput")
    /\ \/ /\ LastUnlinked(s) /\ itable[s].lock = None
          /\ itable' = [itable EXCEPT ![s].lock = p]
          /\ Go(p, [at |-> "itrunc"])
       \/ /\ ~LastUnlinked(s)
          /\ itable' = [itable EXCEPT ![s].ref = @ - 1]
          /\ Go(p, Dropped(p))
    /\ UNCHANGED <<disk, files, ncalls, lost>>

\* Mutant of Trunc: the blocks stay marked in the bitmap.
TruncLeak(t, s) == Iupdate(t, s, [t[s].d EXCEPT !.addrs = {}]) /\ UNCHANGED used

\* itrunc(): bfree() of every block, then iupdate().
Trunc(t, s) == used' = used \ t[s].d.addrs /\ Iupdate(t, s, [t[s].d EXCEPT !.addrs = {}])

IPutTrunc(p) ==
  LET s == Head(th[p].puts) IN
    /\ At(p, "itrunc")
    /\ Trunc(itable, s)
    /\ dir' = [dir EXCEPT ![itable[s].inum] = [n \in Name |-> 0]]
    /\ Go(p, [at |-> "ifree"])
    /\ UNCHANGED <<files, ncalls, lost>>

\* type = 0 is on the disk before the reference is dropped: ialloc() may hand the
\* inode out, and iget() this very entry, in between.
IPutFree(p) ==
  LET s == Head(th[p].puts) IN
    /\ At(p, "ifree")
    /\ Iupdate([itable EXCEPT ![s] = [@ EXCEPT !.valid = FALSE, !.lock = None]], s,
               [itable[s].d EXCEPT !.type = "none"])
    /\ lost' = lost \ {itable[s].inum}
    /\ Go(p, [at |-> "idrop"])
    /\ UNCHANGED <<dir, used, files, ncalls>>

IPutDrop(p) ==
  /\ At(p, "idrop")
  /\ itable' = [itable EXCEPT ![Head(th[p].puts)].ref = @ - 1]
  /\ Go(p, Dropped(p))
  /\ UNCHANGED <<disk, files, ncalls, lost>>

\* iunlockput() of the inode in ip, and of the one in dp.
DropIp(p) ==
  /\ At(p, "dropip")
  /\ itable' = Unlock(itable, th[p].ip)
  /\ PutThen(p, <<th[p].ip>>, "endop", [ip |-> 0])
  /\ UNCHANGED <<disk, files, ncalls, lost>>

DropDp(p) ==
  /\ At(p, "dropdp")
  /\ itable' = Unlock(itable, th[p].dp)
  /\ PutThen(p, <<th[p].dp>>, th[p].fail, [dp |-> 0])
  /\ UNCHANGED <<disk, files, ncalls, lost>>
-----------------------------------------------------------------------------
(* Paths: namex() *)

\* Whether a call asks for the parent of its path, and what it does with the result.
Parent(c) == c.op \in {"mkdir", "unlink"} \/ (c.op = "open" /\ c.create)
After(c) == IF c.op = "open" /\ ~c.create THEN "openip"
            ELSE [open |-> "createdp", mkdir |-> "createdp", unlink |-> "unlinkdp",
                  link |-> "linkinc", chdir |-> "chdirip"][c.op]

\* begin_op() of a call that takes a path.
Begin(p, c) ==
  /\ Idle(p) /\ Calling
  /\ Go(p, [at |-> "namex", call |-> c, path |-> c.path, parent |-> Parent(c),
            ok |-> After(c), fail |-> "endop"])
  /\ UNCHANGED <<disk, itable, files, lost>>

\* A path from the root begins with "/".
Namex(p) ==
  LET path == th[p].path IN
    /\ At(p, "namex")
    /\ \/ /\ Head(path) = "/" /\ HasEntry(itable, ROOTINO)
          /\ itable' = Iget(itable, ROOTINO)
          /\ Go(p, [at |-> "walk", ip |-> EntryFor(itable, ROOTINO), path |-> Tail(path)])
       \/ /\ Head(path) # "/"
          /\ itable' = [itable EXCEPT ![cwd[p]].ref = @ + 1]
          /\ Go(p, [at |-> "walk", ip |-> cwd[p]])
    /\ UNCHANGED <<disk, files, ncalls, lost>>

\* One element of a path: ilock(), dirlookup() with its iget(), iunlock(), iput().
Walk(p) ==
  LET s == th[p].ip
      path == th[p].path
      t == Unlock(Ilock(p, s), s)
      next == dir[itable[s].inum][Head(path)]
      isDir == Loaded(s).type = "dir"
      stop == th[p].parent /\ Len(path) = 1
  IN
    /\ Locks(p, "walk")
    /\ \/ (~isDir \/ (~stop /\ next = 0)) /\ GiveUp(p, s, th[p].fail)
       \/ isDir /\ stop /\ itable' = t /\ Go(p, [at |-> th[p].ok])
       \/ /\ isDir /\ ~stop /\ next # 0 /\ HasEntry(t, next)
          /\ itable' = Iget(t, next)
          /\ PutThen(p, <<s>>, IF Len(path) = 1 THEN th[p].ok ELSE "walk",
                     [ip |-> EntryFor(t, next), path |-> Tail(path)])
    /\ UNCHANGED <<disk, files, ncalls, lost>>

LastOf(path) == path[Len(path)]
Found(p) == dir[itable[th[p].ip].inum][LastOf(th[p].path)]
-----------------------------------------------------------------------------
(* System calls on directories: create(), sys_unlink(), sys_link(), sys_chdir() *)

\* Another entry in directory i with fields d: in a block it has, or in one from
\* balloc(), or nowhere.
Entries(i) == Cardinality({n \in Name : dir[i][n] # 0})
HasRoom(i, d) == Entries(i) < PerBlock * Cardinality(d.addrs)
NoSpace(i, d) == ~HasRoom(i, d) /\ used = Block
NewBlocks(i, d) == IF HasRoom(i, d) THEN {} ELSE {Least(Block \ used)}
WithBlocks(d, new) == [d EXCEPT !.addrs = @ \cup new]

\* dirlink(dp, name, i) for dp = t[s], which is locked; its nlink grows by up.
Dirlink(t, s, name, i, up) ==
  LET dp == t[s].inum
      d == t[s].d
      new == NewBlocks(dp, d)
  IN
    /\ ~NoSpace(dp, d)
    /\ used' = used \cup new
    /\ Iupdate(Unlock(t, s), s, [WithBlocks(d, new) EXCEPT !.nlink = @ + up])
    /\ dir' = [dir EXCEPT ![dp][name] = i]
    /\ lost' = IF d.nlink = 0 \/ dp \in lost THEN lost \cup {i} \cup {x \in {dp} : up = 1} ELSE lost

CreateDp(p) ==
  LET s == th[p].ip
      t == Ilock(p, s)
  IN
    /\ Locks(p, "createdp")
    /\ \/ /\ Found(p) # 0 /\ HasEntry(t, Found(p))
          /\ itable' = Iget(Unlock(t, s), Found(p))
          /\ PutThen(p, <<s>>, "createfound", [ip |-> EntryFor(t, Found(p))])
       \/ Found(p) = 0 /\ itable' = t /\ Go(p, [at |-> "ialloc", dp |-> s, ip |-> 0])
    /\ UNCHANGED <<disk, files, ncalls, lost>>

\* The name exists: open() takes a file, mkdir() takes nothing.
CreateFound(p) ==
  LET s == th[p].ip
      taken == th[p].call.op = "open" /\ Loaded(s).type = "file"
  IN
    /\ Locks(p, "createfound")
    /\ \/ taken /\ itable' = Ilock(p, s) /\ Go(p, [at |-> "openfile"])
       \/ ~taken /\ GiveUp(p, s, "endop")
    /\ UNCHANGED <<disk, files, ncalls, lost>>

IsMkdir(p) == th[p].call.op = "mkdir"

\* ialloc(): the first free inode; its iget() comes after the block is released.
Ialloc(p) ==
  LET avail == {i \in Inum : dinode[i].type = "none"} IN
    /\ At(p, "ialloc")
    /\ \/ avail = {} /\ Go(p, [at |-> "dropdp"]) /\ UNCHANGED dinode
       \/ /\ avail # {}
          /\ dinode' = [dinode EXCEPT ![Least(avail)] =
                          [Free EXCEPT !.type = IF IsMkdir(p) THEN "dir" ELSE "file"]]
          /\ Go(p, [at |-> "iallocget", inum |-> Least(avail)])
    /\ UNCHANGED <<dir, used, itable, files, ncalls, lost>>

IallocGet(p) ==
  LET i == th[p].inum IN
    /\ At(p, "iallocget") /\ HasEntry(itable, i)
    /\ itable' = Iget(itable, i)
    /\ Go(p, [at |-> "createip", ip |-> EntryFor(itable, i), inum |-> 0])
    /\ UNCHANGED <<disk, files, ncalls, lost>>

\* nlink = 1; a directory gets a block for "." and "..", if there is one.
CreateIp(p) ==
  LET s == th[p].ip
      i == itable[s].inum
      d == [Loaded(s) EXCEPT !.nlink = 1]
      fails == IsMkdir(p) /\ NoSpace(i, d)
      new == IF IsMkdir(p) /\ ~fails THEN NewBlocks(i, d) ELSE {}
  IN
    /\ Locks(p, "createip")
    /\ Iupdate(Ilock(p, s), s, WithBlocks(d, new))
    /\ used' = used \cup new
    /\ dir' = IF new = {} THEN dir
              ELSE [dir EXCEPT ![i]["."] = i, ![i][".."] = itable[th[p].dp].inum]
    /\ Go(p, [at |-> IF fails THEN "createfail" ELSE "createlink"])
    /\ UNCHANGED <<files, ncalls, lost>>

\* dirlink(dp, name, ip); a new directory's ".." counts as a link to dp.
CreateLink(p) ==
  LET s == th[p].dp IN
    /\ At(p, "createlink")
    /\ \/ /\ NoSpace(itable[s].inum, itable[s].d)
          /\ Go(p, [at |-> "createfail"])
          /\ UNCHANGED <<disk, itable, lost>>
       \/ /\ Dirlink(itable, s, LastOf(th[p].path), itable[th[p].ip].inum, IF IsMkdir(p) THEN 1 ELSE 0)
          /\ PutThen(p, <<s>>, IF IsMkdir(p) THEN "dropip" ELSE "openfile", [dp |-> 0])
    /\ UNCHANGED <<files, ncalls>>

\* fail: nlink = 0, and iput() de-allocates the inode, before dp is unlocked.
CreateFail(p) ==
  LET s == th[p].ip IN
    /\ At(p, "createfail")
    /\ Iupdate(Unlock(itable, s), s, [itable[s].d EXCEPT !.nlink = 0])
    /\ PutThen(p, <<s>>, "dropdp", [ip |-> 0])
    /\ UNCHANGED <<dir, used, files, ncalls, lost>>

UnlinkDp(p) ==
  LET s == th[p].ip
      t == Ilock(p, s)
      refused == LastOf(th[p].path) \in Dots \/ Found(p) = 0
  IN
    /\ Locks(p, "unlinkdp")
    /\ \/ refused /\ GiveUp(p, s, "endop")
       \/ /\ ~refused /\ HasEntry(t, Found(p))
          /\ itable' = Iget(t, Found(p))
          /\ Go(p, [at |-> "unlinkip", dp |-> s, ip |-> EntryFor(t, Found(p))])
    /\ UNCHANGED <<disk, files, ncalls, lost>>

IsDirEmpty(i) == \A n \in Name \ Dots : dir[i][n] = 0

\* The entry goes, and dp is let go, before the link count of ip is lowered.
UnlinkIp(p) ==
  LET s == th[p].ip
      dp == th[p].dp
      d == Loaded(s)
      refused == d.type = "dir" /\ ~IsDirEmpty(itable[s].inum)
  IN
    /\ Locks(p, "unlinkip")
    /\ \/ refused /\ GiveUp(p, s, "dropdp") /\ UNCHANGED <<dinode, dir>>
       \/ /\ ~refused /\ d.nlink >= 1
          /\ dir' = [dir EXCEPT ![itable[dp].inum][LastOf(th[p].path)] = 0]
          /\ Iupdate(Unlock(Ilock(p, s), dp), dp,
                     [itable[dp].d EXCEPT !.nlink = IF d.type = "dir" THEN @ - 1 ELSE @])
          /\ PutThen(p, <<dp>>, "unlinkdec", [dp |-> 0])
    /\ UNCHANGED <<used, files, ncalls, lost>>

UnlinkDec(p) ==
  LET s == th[p].ip IN
    /\ At(p, "unlinkdec")
    /\ Iupdate(Unlock(itable, s), s, [itable[s].d EXCEPT !.nlink = @ - 1])
    /\ PutThen(p, <<s>>, "endop", [ip |-> 0])
    /\ UNCHANGED <<dir, used, files, ncalls, lost>>

\* What sys_link() does next: the directory of the new name.
NewName(p) == [at |-> "namex", tgt |-> th[p].ip, ip |-> 0, path |-> th[p].call.new,
               parent |-> TRUE, ok |-> "linkdp", fail |-> "linkbad"]

\* Mutant of LinkInc: ip stays locked while the new name is looked up.
LinkIncHolds(p) ==
  LET s == th[p].ip IN
    /\ Locks(p, "linkinc")
    /\ \/ Loaded(s).type = "dir" /\ GiveUp(p, s, "endop") /\ UNCHANGED dinode
       \/ /\ Loaded(s).type # "dir"
          /\ Iupdate(Ilock(p, s), s, [Loaded(s) EXCEPT !.nlink = @ + 1])
          /\ Go(p, NewName(p))
    /\ UNCHANGED <<dir, used, files, ncalls, lost>>

\* sys_link(): one link more before there is an entry for it, taken back on "bad".
LinkInc(p) ==
  LET s == th[p].ip IN
    /\ Locks(p, "linkinc")
    /\ \/ Loaded(s).type = "dir" /\ GiveUp(p, s, "endop") /\ UNCHANGED dinode
       \/ /\ Loaded(s).type # "dir"
          /\ Iupdate(Unlock(Ilock(p, s), s), s, [Loaded(s) EXCEPT !.nlink = @ + 1])
          /\ Go(p, NewName(p))
    /\ UNCHANGED <<dir, used, files, ncalls, lost>>

\* dirlink() drops the inode it finds under the name with dp still locked.
LinkDp(p) ==
  LET s == th[p].ip
      t == Ilock(p, s)
  IN
    /\ Locks(p, "linkdp")
    /\ \/ /\ Found(p) # 0 /\ HasEntry(t, Found(p))
          /\ itable' = Iget(t, Found(p))
          /\ PutThen(p, <<EntryFor(t, Found(p))>>, "dropdp", [dp |-> s, ip |-> 0])
          /\ UNCHANGED <<disk, lost>>
       \/ /\ Found(p) = 0 /\ NoSpace(itable[s].inum, Loaded(s))
          /\ GiveUp(p, s, "linkbad")
          /\ UNCHANGED <<disk, lost>>
       \/ /\ Found(p) = 0
          /\ Dirlink(t, s, LastOf(th[p].path), itable[th[p].tgt].inum, 0)
          /\ PutThen(p, <<s, th[p].tgt>>, "endop", [ip |-> 0, tgt |-> 0])
    /\ UNCHANGED <<files, ncalls>>

\* Mutant of LinkBad: the link is not taken back.
LinkBadKeeps(p) ==
  LET s == th[p].tgt IN
    /\ At(p, "linkbad") /\ CanLock(s)
    /\ itable' = Unlock(Ilock(p, s), s)
    /\ PutThen(p, <<s>>, "endop", [tgt |-> 0])
    /\ UNCHANGED <<disk, files, ncalls, lost>>

LinkBad(p) ==
  LET s == th[p].tgt IN
    /\ At(p, "linkbad") /\ CanLock(s)
    /\ Iupdate(Unlock(Ilock(p, s), s), s, [Loaded(s) EXCEPT !.nlink = @ - 1])
    /\ PutThen(p, <<s>>, "endop", [tgt |-> 0])
    /\ UNCHANGED <<dir, used, files, ncalls, lost>>

\* Only p reads p->cwd: its assignment after end_op() is taken here.
ChdirIp(p) ==
  LET s == th[p].ip
      isDir == Loaded(s).type = "dir"
  IN
    /\ Locks(p, "chdirip")
    /\ itable' = Unlock(Ilock(p, s), s)
    /\ cwd' = IF isDir THEN [cwd EXCEPT ![p] = s] ELSE cwd
    /\ PutThen(p, <<IF isDir THEN cwd[p] ELSE s>>, "endop", [ip |-> 0])
    /\ UNCHANGED <<disk, ftable, ofile, ncalls, lost>>
-----------------------------------------------------------------------------
(* Open files *)

OpenIp(p) ==
  LET s == th[p].ip
      refused == Loaded(s).type = "dir" /\ th[p].call.write
  IN
    /\ Locks(p, "openip")
    /\ \/ refused /\ GiveUp(p, s, "endop")
       \/ ~refused /\ itable' = Ilock(p, s) /\ Go(p, [at |-> "openfile"])
    /\ UNCHANGED <<disk, files, ncalls, lost>>

FreeFds(p) == {fd \in Fd : ofile[p][fd] = 0}
FreeFiles == {f \in File : ftable[f].ref = 0}

\* filealloc() and fdalloc(); the file takes over the reference in ip.
OpenFile(p) ==
  LET s == th[p].ip
      trunc == th[p].call.trunc /\ itable[s].d.type = "file"
      full == FreeFiles = {} \/ FreeFds(p) = {}
      f == Least(FreeFiles)
  IN
    /\ At(p, "openfile")
    /\ \/ full /\ Go(p, [at |-> "dropip"]) /\ UNCHANGED <<itable, files>>
       \/ /\ ~full
          /\ ftable' = [ftable EXCEPT ![f] = [ref |-> 1, ip |-> s, writable |-> th[p].call.write]]
          /\ ofile' = [ofile EXCEPT ![p][Least(FreeFds(p))] = f]
          /\ itable' = IF trunc THEN itable ELSE Unlock(itable, s)
          /\ Go(p, IF trunc THEN [at |-> "opentrunc"] ELSE EndOp(p))
          /\ UNCHANGED cwd
    /\ UNCHANGED <<disk, ncalls, lost>>

OpenTrunc(p) ==
  /\ At(p, "opentrunc")
  /\ Trunc(Unlock(itable, th[p].ip), th[p].ip)
  /\ Go(p, EndOp(p))
  /\ UNCHANGED <<dir, files, ncalls, lost>>

\* filewrite(): begin_op(), then a block of the file, from balloc() if it has none.
Write(p, fd) ==
  LET f == ofile[p][fd] IN
    /\ Idle(p) /\ "write" \in Others /\ f # 0 /\ ftable[f].writable /\ Calling
    /\ Go(p, [at |-> "writei", ip |-> ftable[f].ip])
    /\ UNCHANGED <<disk, itable, files, lost>>

WriteI(p) ==
  LET s == th[p].ip
      new == IF Loaded(s).addrs # {} \/ used = Block THEN {} ELSE {Least(Block \ used)}
  IN
    /\ Locks(p, "writei")
    /\ used' = used \cup new
    /\ Iupdate(Unlock(Ilock(p, s), s), s, WithBlocks(Loaded(s), new))
    /\ Go(p, EndOp(p))
    /\ UNCHANGED <<dir, files, ncalls, lost>>

\* fileclose(): the last descriptor drops the inode, in a transaction of its own.
Fileclose(p, fd, op) ==
  LET f == ofile[p][fd]
      last == ftable[f].ref = 1
  IN
    /\ f # 0
    /\ ofile' = [ofile EXCEPT ![p][fd] = 0]
    /\ ftable' = [ftable EXCEPT ![f] = IF last THEN NoFile ELSE [@ EXCEPT !.ref = ftable[f].ref - 1]]
    /\ IF last THEN PutThen(p, <<ftable[f].ip>>, "endop", [call |-> [op |-> op]])
       ELSE Go(p, [at |-> IF op = "exit" THEN "exit" ELSE "idle"])
    /\ UNCHANGED <<disk, itable, cwd, ncalls, lost>>

Close(p, fd) == Idle(p) /\ Fileclose(p, fd, "close")

Dup(p, fd) ==
  LET f == ofile[p][fd] IN
    /\ Idle(p) /\ "dup" \in Others /\ f # 0 /\ FreeFds(p) # {} /\ Calling
    /\ ofile' = [ofile EXCEPT ![p][Least(FreeFds(p))] = f]
    /\ ftable' = [ftable EXCEPT ![f].ref = @ + 1]
    /\ UNCHANGED <<disk, itable, cwd, th, lost>>

\* The descriptors fork() passes on, by file.
Shared(p) == [f \in File |-> Cardinality({fd \in Fd : ofile[p][fd] = f})]

\* fork() as far as files go: filedup() of each and idup() of cwd, while p holds
\* references to all of them.
Fork(p, np) ==
  /\ Idle(p) /\ "fork" \in Others /\ At(np, "idle") /\ cwd[np] = 0 /\ Calling
  /\ ofile' = [ofile EXCEPT ![np] = ofile[p]]
  /\ ftable' = [f \in File |-> [ftable[f] EXCEPT !.ref = @ + Shared(p)[f]]]
  /\ itable' = [itable EXCEPT ![cwd[p]].ref = @ + 1]
  /\ cwd' = [cwd EXCEPT ![np] = cwd[p]]
  /\ UNCHANGED <<disk, th, lost>>

\* exit(): every descriptor in turn, then cwd.
Exiting(p) == At(p, "exit") \/ (Idle(p) /\ "exit" \in Others /\ p # InitProc)

ExitClose(p, fd) ==
  /\ Exiting(p) /\ \A e \in 1 .. fd - 1 : ofile[p][e] = 0
  /\ Fileclose(p, fd, "exit")

ExitCwd(p) ==
  /\ Exiting(p) /\ \A fd \in Fd : ofile[p][fd] = 0
  /\ cwd' = [cwd EXCEPT ![p] = 0]
  /\ PutThen(p, <<cwd[p]>>, "endop", [call |-> NoCall])
  /\ UNCHANGED <<disk, itable, ftable, ofile, ncalls, lost>>
-----------------------------------------------------------------------------
\* The disk of mkfs with one file, after a mkdir: /x and /d.
InitInode(i) == CASE i = ROOTINO -> [type |-> "dir", nlink |-> 2, addrs |-> {1, 2}]
                  [] i = 2 -> [type |-> "file", nlink |-> 1, addrs |-> {3}]
                  [] i = 3 -> [type |-> "dir", nlink |-> 1, addrs |-> {4}]
                  [] OTHER -> Free
InitDir(i) == CASE i = ROOTINO -> [x |-> 2, d |-> 3] \oplus [n \in Dots |-> ROOTINO]
                [] i = 3 -> [n \in Dots |-> IF n = "." THEN 3 ELSE ROOTINO]
                [] OTHER -> <<>>
Init ==
  /\ dinode = [i \in Inum |-> InitInode(i)]
  /\ dir = [i \in Inum |-> InitDir(i) \oplus [n \in Name |-> 0]]
  /\ used = 1 .. 4
  /\ itable = [s \in Slot |-> [inum |-> ROOTINO, ref |-> IF s = 1 THEN Cardinality(Proc) ELSE 0,
                               valid |-> FALSE, lock |-> None, d |-> Free]]
  /\ ftable = [f \in File |-> NoFile]
  /\ ofile = [p \in Proc |-> [fd \in Fd |-> 0]]
  /\ cwd = [p \in Proc |-> 1]
  /\ th = [p \in Proc |-> [at |-> "idle"] \oplus NoPath]
  /\ ncalls = 0 /\ lost = {}

Step(p) ==
  \/ \E c \in Calls : Begin(p, c)
  \/ Namex(p) \/ Walk(p)
  \/ IPut(p) \/ IPutTrunc(p) \/ IPutFree(p) \/ IPutDrop(p) \/ DropIp(p) \/ DropDp(p)
  \/ CreateDp(p) \/ CreateFound(p) \/ Ialloc(p) \/ IallocGet(p)
  \/ CreateIp(p) \/ CreateLink(p) \/ CreateFail(p)
  \/ UnlinkDp(p) \/ UnlinkIp(p) \/ UnlinkDec(p)
  \/ LinkInc(p) \/ LinkDp(p) \/ LinkBad(p) \/ ChdirIp(p)
  \/ OpenIp(p) \/ OpenFile(p) \/ OpenTrunc(p) \/ WriteI(p)
  \/ \E fd \in Fd : Write(p, fd) \/ Close(p, fd) \/ Dup(p, fd) \/ ExitClose(p, fd)
  \/ \E np \in Proc : Fork(p, np)
  \/ ExitCwd(p)

Next == \E p \in Proc : Step(p)

Spec == Init /\ [][Next]_vars
-----------------------------------------------------------------------------
\* The references to s that paths hold in local variables.  (In write and at the end
\* of open, ip is the file's.)
InLocals(s) ==
  {l \in Proc \X {"ip", "dp", "tgt"} :
     th[l[1]][l[2]] = s /\ ~(l[2] = "ip" /\ th[l[1]].at \in {"writei", "opentrunc"})}
InPuts(s) ==
  {l \in Proc \X (1 .. 2) : l[2] \in DOMAIN th[l[1]].puts /\ th[l[1]].puts[l[2]] = s}
OpenOn(s) == {f \in File : ftable[f].ref > 0 /\ ftable[f].ip = s}
WorkingIn(s) == {p \in Proc : cwd[p] = s}
Descriptors(f) == {l \in Proc \X Fd : ofile[l[1]][l[2]] = f}

\* What a process has open or works in is on the disk, whoever unlinks it: iput()
\* frees an inode with the last reference only, at fs.c:336.
InUseIsAllocated ==
  \A s \in Slot : OpenOn(s) # {} \/ WorkingIn(s) # {} => dinode[itable[s].inum].type # "none"

\* An inode has one entry, and a valid entry is what the disk says: through
\* recycling, and through ialloc() of an inode that iput() is still letting go.
CacheAgrees ==
  \A s, t \in Slot :
    /\ itable[s].ref > 0 /\ itable[s].valid => itable[s].d = dinode[itable[s].inum]
    /\ itable[s].ref > 0 /\ itable[t].ref > 0 /\ itable[s].inum = itable[t].inum => s = t

\* ip->ref counts the open files, current directories and paths in progress that
\* use an entry (fs.c:134), through every failure of a call; f->ref counts
\* descriptors, through fork() and exit(); what is counted is not freed, and what is
\* cached agrees with the disk.
RefsAreExact ==
  /\ InUseIsAllocated /\ CacheAgrees
  /\ \A s \in Slot : itable[s].ref = Cardinality(WorkingIn(s)) + Cardinality(OpenOn(s))
                                     + Cardinality(InLocals(s)) + Cardinality(InPuts(s))
  /\ \A f \in File : ftable[f].ref = Cardinality(Descriptors(f))

\* A block belongs to one inode or is free, and none is lost, also when dirlink()
\* or writei() run out of blocks half way.
BlocksOwnedOnce ==
  /\ used = UNION {dinode[i].addrs : i \in Inum}
  /\ \A i, j \in Inum : i # j => dinode[i].addrs \cap dinode[j].addrs = {}

\* The entries that name i, and the ".." of its subdirectories.
Names(i) == {l \in Inum \X (Name \ Dots) : dinode[l[1]].type = "dir" /\ dir[l[1]][l[2]] = i}
Subdirs(i) == {d \in Inum \ (lost \cup {ROOTINO}) :
                 dinode[d].type = "dir" /\ dinode[d].nlink > 0 /\ dir[d][".."] = i}
Quiet == \A p \in Proc : th[p].at \in {"idle", "exit"}

\* Between calls, when the log may commit, nlink is the "number of links to inode in
\* file system" (fs.h:36) and no name is left of a free inode.  Excepted are
\* inodes linked into a directory that was removed under the call.
LinksAreNames ==
  Quiet => \A i \in Inum \ lost :
    dinode[i].nlink = Cardinality(Names(i)) + Cardinality(Subdirs(i)) + (IF i = ROOTINO THEN 1 ELSE 0)

\* The inode p locks next; 0 if none.
Wanted(p) ==
  IF At(p, "linkbad") THEN th[p].tgt
  ELSE IF th[p].at \in {"walk", "createdp", "createfound", "createip", "unlinkdp", "unlinkip",
                        "linkinc", "linkdp", "chdirip", "openip", "writei"} THEN th[p].ip
  ELSE 0

\* No processes wait for one another's inodes, and none for its own: unlink and
\* create hold a directory while they lock what is in it, and nothing else is
\* held while locking.
NoInodeLockCycle ==
  ~ \E S \in (SUBSET Proc) \ {{}} :
      \A p \in S : Wanted(p) # 0 /\ itable[Wanted(p)].lock \in S

\* No path stands in a lock cycle, or before a panic: "ilock: no type", "unlink: nlink < 1", "freeing
\* free block", "iget: no inodes", or that of a process that sleeps in iput() under
\* itable.lock, where "no other process can have ip locked" (fs.c:339).
NeverPanics ==
  /\ NoInodeLockCycle
  /\ \A p \in Proc :
       /\ Wanted(p) # 0 /\ itable[Wanted(p)].lock = None => Loaded(Wanted(p)).type # "none"
       /\ At(p, "unlinkip") /\ itable[th[p].ip].lock = None => Loaded(th[p].ip).nlink >= 1
       /\ At(p, "itrunc") => itable[Head(th[p].puts)].d.addrs \subseteq used
       /\ At(p, "iallocget") => HasEntry(itable, th[p].inum)
       /\ At(p, "iput") /\ LastUnlinked(Head(th[p].puts)) => itable[Head(th[p].puts)].lock = None
=============================================================================
